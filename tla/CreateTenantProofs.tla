------------------------- MODULE CreateTenantProofs -------------------------
(***************************************************************************)
(* Theorems about CreateTenant, for every number of requests, containers,  *)
(* names and schemas, and for every environment.                           *)
(***************************************************************************)
EXTENDS CreateTenant, TLAPS

Served(r) == pc[r] \notin {"idle", "done"}

\* A request that is served has a container.
OnContainer == \A r \in Requests : Served(r) => on[r] \in Containers

TInv == TypeOK /\ OnContainer

LEMMA TInvInit == Init => TInv
BY TenantAssumption
DEF Init, TInv, TypeOK, OnContainer, Served, Parameters, Steps, Statuses, Kinds, Refusal

LEMMA TInvNext == TInv /\ [Next]_vars => TInv'
<1> SUFFICES ASSUME TInv, [Next]_vars PROVE TInv'
  OBVIOUS
<1> USE TenantAssumption DEF TInv, TypeOK, OnContainer, Served, rowVars, schemaVars, Steps,
       Statuses, Kinds, Refusal
<1>1. ASSUME NEW r \in Requests, NEW c \in Containers, Arrive(r, c) PROVE TInv'
  BY <1>1 DEF Arrive
<1>2. ASSUME NEW r \in Requests, LoadSchema(r) PROVE TInv'
  BY <1>2 DEF LoadSchema
<1>3. ASSUME NEW r \in Requests, LoadSchemaError(r) PROVE TInv'
  BY <1>3 DEF LoadSchemaError, Answer
<1>4. ASSUME NEW r \in Requests, Validate(r) PROVE TInv'
  BY <1>4 DEF Validate, Answer, Goto
<1>5. ASSUME NEW r \in Requests, Check(r) PROVE TInv'
  BY <1>5 DEF Check, Answer, Goto
<1>6. ASSUME NEW r \in Requests, CheckError(r) PROVE TInv'
  BY <1>6 DEF CheckError, Answer
<1>7. ASSUME NEW r \in Requests, Insert(r) PROVE TInv'
  BY <1>7 DEF Insert, Answer
<1>8. ASSUME NEW r \in Requests, InsertError(r) PROVE TInv'
  BY <1>8 DEF InsertError, Answer
<1>9. ASSUME NEW r \in Requests, Crash(r) PROVE TInv'
  BY <1>9 DEF Crash, NewProcess, Answer
<1>10. ASSUME NEW r \in Requests, Delete(r) PROVE TInv'
  BY <1>10 DEF Delete
<1>11. ASSUME NEW c \in Containers, Recycle(c) PROVE TInv'
  BY <1>11 DEF Recycle, NewProcess
<1>12. ASSUME NEW v \in Schemas \cup {Missing}, SetParameter(v) PROVE TInv'
  BY <1>12 DEF SetParameter, Parameters
<1>13. CASE UNCHANGED vars
  BY <1>13 DEF vars
<1>14. QED
  BY <1>1, <1>2, <1>3, <1>4, <1>5, <1>6, <1>7, <1>8, <1>9, <1>10, <1>11, <1>12, <1>13
     DEF Next, Serve

\* The handler's state stays well-typed.
THEOREM TypeCorrect == Spec => []TypeOK
<1>1. TInv => TypeOK
  BY DEF TInv
<1>2. QED
  BY TInvInit, TInvNext, <1>1, PTL DEF Spec

----------------------------------------------------------------------------
(***************************************************************************)
(* Names.  Insert(r) acts on a check that is stale: rows were added since. *)
(* Those of requests that had ended before r arrived are not among them,   *)
(* for an ended request inserts nothing any more.                          *)
(***************************************************************************)

SameNameButCase(r, s) == Lower[NameOf[r]] = Lower[NameOf[s]]

\* A row is inserted in the last step of its request.
RowsAreEnded == \A r \in tenants : pc[r] = "done"

\* The history variable holds requests that have ended.
EndedIsOver == \A s \in Requests : \A r \in endedBefore[s] : pc[r] = "done"

\* What the check saw of them is still true when the insert runs.
CheckStillValid ==
    \A s \in Requests : pc[s] = "insert" =>
        \A r \in tenants : SameNameButCase(r, s) /\ status[r] = "live" => r \notin endedBefore[s]

NInv == RowsAreEnded /\ EndedIsOver /\ CheckStillValid /\ NamesUnique

LEMMA NInvInit == Init => NInv
BY DEF Init, NInv, RowsAreEnded, EndedIsOver, CheckStillValid, NamesUnique

LEMMA NInvNext == TInv /\ NInv /\ [Next]_vars => NInv'
<1> SUFFICES ASSUME TInv, NInv, [Next]_vars PROVE NInv'
  OBVIOUS
<1> USE TenantAssumption DEF TInv, TypeOK, rowVars, schemaVars, Statuses, NInv, RowsAreEnded,
       EndedIsOver, CheckStillValid, NamesUnique, SameNameButCase, SameName, Existing
<1>1. ASSUME NEW r \in Requests, NEW c \in Containers, Arrive(r, c) PROVE NInv'
  BY <1>1 DEF Arrive
<1>2. ASSUME NEW r \in Requests, LoadSchema(r) PROVE NInv'
  BY <1>2 DEF LoadSchema
<1>3. ASSUME NEW r \in Requests, LoadSchemaError(r) PROVE NInv'
  BY <1>3 DEF LoadSchemaError, Answer
<1>4. ASSUME NEW r \in Requests, Validate(r) PROVE NInv'
  BY <1>4 DEF Validate, Answer, Goto
<1>5. ASSUME NEW r \in Requests, Check(r) PROVE NInv'
  BY <1>5 DEF Check, Answer, Goto
<1>6. ASSUME NEW r \in Requests, CheckError(r) PROVE NInv'
  BY <1>6 DEF CheckError, Answer
<1>7. ASSUME NEW r \in Requests, Insert(r) PROVE NInv'
  BY <1>7 DEF Insert, Answer
<1>8. ASSUME NEW r \in Requests, InsertError(r) PROVE NInv'
  BY <1>8 DEF InsertError, Answer
<1>9. ASSUME NEW r \in Requests, Crash(r) PROVE NInv'
  BY <1>9 DEF Crash, NewProcess, Answer
<1>10. ASSUME NEW r \in Requests, Delete(r) PROVE NInv'
  BY <1>10 DEF Delete
<1>11. ASSUME NEW c \in Containers, Recycle(c) PROVE NInv'
  BY <1>11 DEF Recycle, NewProcess
<1>12. ASSUME NEW v \in Schemas \cup {Missing}, SetParameter(v) PROVE NInv'
  BY <1>12 DEF SetParameter, Parameters
<1>13. CASE UNCHANGED vars
  BY <1>13 DEF vars
<1>14. QED
  BY <1>1, <1>2, <1>3, <1>4, <1>5, <1>6, <1>7, <1>8, <1>9, <1>10, <1>11, <1>12, <1>13
     DEF Next, Serve

\* Tenant names are unique (create-tenant/index.js:45-66): exactly by the
\* constraint, and but for case among live tenants whose requests did not
\* overlap, for any number of containers and in every environment.
THEOREM NamesUniqueHolds == Spec => []NamesUnique
<1>1. NInv => NamesUnique
  BY DEF NInv
<1>2. QED
  BY TInvInit, TInvNext, NInvInit, NInvNext, <1>1, PTL DEF Spec

----------------------------------------------------------------------------
(***************************************************************************)
(* Answers.                                                                *)
(***************************************************************************)

\* A request that has not ended has no answer, and a row tells which it got.
AnswerLast ==
    /\ \A r \in Requests : pc[r] # "done" => answer[r] = 0
    /\ \A r \in tenants : answer[r] \in {201, 500}

AInv == AnswerLast /\ AnswersExplained

LEMMA AInvInit == Init => AInv
BY DEF Init, AInv, AnswerLast, AnswersExplained

LEMMA AInvNext == TInv /\ NInv /\ AInv /\ [Next]_vars => AInv'
<1> SUFFICES ASSUME TInv, NInv, AInv, [Next]_vars PROVE AInv'
  OBVIOUS
<1> USE TenantAssumption DEF TInv, TypeOK, rowVars, schemaVars, Statuses, NInv, RowsAreEnded,
       CheckStillValid, SameNameButCase, SameName, Existing, AInv, AnswerLast,
       AnswersExplained, Calls
<1>1. ASSUME NEW r \in Requests, NEW c \in Containers, Arrive(r, c) PROVE AInv'
  BY <1>1 DEF Arrive, Refusal
<1>2. ASSUME NEW r \in Requests, LoadSchema(r) PROVE AInv'
  BY <1>2 DEF LoadSchema
<1>3. ASSUME NEW r \in Requests, LoadSchemaError(r) PROVE AInv'
  BY <1>3 DEF LoadSchemaError, Answer
<1>4. ASSUME NEW r \in Requests, Validate(r) PROVE AInv'
  BY <1>4 DEF Validate, Answer, Goto
<1>5. ASSUME NEW r \in Requests, Check(r) PROVE AInv'
  BY <1>5 DEF Check, Answer, Goto
<1>6. ASSUME NEW r \in Requests, CheckError(r) PROVE AInv'
  BY <1>6 DEF CheckError, Answer
<1>7. ASSUME NEW r \in Requests, Insert(r) PROVE AInv'
  BY <1>7 DEF Insert, Answer
<1>8. ASSUME NEW r \in Requests, InsertError(r) PROVE AInv'
  BY <1>8 DEF InsertError, Answer
<1>9. ASSUME NEW r \in Requests, Crash(r) PROVE AInv'
  BY <1>9 DEF Crash, NewProcess, Answer
<1>10. ASSUME NEW r \in Requests, Delete(r) PROVE AInv'
  BY <1>10 DEF Delete
<1>11. ASSUME NEW c \in Containers, Recycle(c) PROVE AInv'
  BY <1>11 DEF Recycle, NewProcess
<1>12. ASSUME NEW v \in Schemas \cup {Missing}, SetParameter(v) PROVE AInv'
  BY <1>12 DEF SetParameter, Parameters
<1>13. CASE UNCHANGED vars
  BY <1>13 DEF vars
<1>14. QED
  BY <1>1, <1>2, <1>3, <1>4, <1>5, <1>6, <1>7, <1>8, <1>9, <1>10, <1>11, <1>12, <1>13
     DEF Next, Serve

\* Each status code (create-tenant/index.js:36-100) means what it says, in every
\* environment: a 201 the row, a 4xx none, and a 500 without faults has its causes.
THEOREM AnswersExplainedHolds == Spec => []AnswersExplained
<1>1. AInv => AnswersExplained
  BY DEF AInv
<1>2. QED
  BY TInvInit, TInvNext, NInvInit, NInvNext, AInvInit, AInvNext, <1>1, PTL DEF Spec

----------------------------------------------------------------------------
(***************************************************************************)
(* Schemas.                                                                *)
(***************************************************************************)

\* No two requests share a container.
OneAtATime ==
    \A r, s \in Requests : Served(r) /\ Served(s) /\ on[r] = on[s] => r = s

\* A cache holds nothing that was not the parameter while its process ran.
CacheWasStored ==
    \A c \in Containers :
        /\ parameter \in stored[c]
        /\ cache[c] # NotLoaded => cache[c] \in stored[c]

JInv == OneAtATime /\ CacheWasStored /\ JudgedByStoredSchema

LEMMA JInvInit == Init => JInv
BY DEF Init, JInv, OneAtATime, CacheWasStored, JudgedByStoredSchema, Served

LEMMA JInvNext == TInv /\ JInv /\ [Next]_vars => JInv'
<1> SUFFICES ASSUME TInv, JInv, [Next]_vars PROVE JInv'
  OBVIOUS
<1> USE TenantAssumption DEF TInv, TypeOK, OnContainer, rowVars, schemaVars, JInv,
       OneAtATime, CacheWasStored, JudgedByStoredSchema, Served, Serving
<1>1. ASSUME NEW r \in Requests, NEW c \in Containers, Arrive(r, c) PROVE JInv'
  BY <1>1 DEF Arrive
<1>2. ASSUME NEW r \in Requests, LoadSchema(r) PROVE JInv'
  BY <1>2 DEF LoadSchema
<1>3. ASSUME NEW r \in Requests, LoadSchemaError(r) PROVE JInv'
  BY <1>3 DEF LoadSchemaError, Answer
<1>4. ASSUME NEW r \in Requests, Validate(r) PROVE JInv'
  BY <1>4 DEF Validate, Answer, Goto
<1>5. ASSUME NEW r \in Requests, Check(r) PROVE JInv'
  BY <1>5 DEF Check, Answer, Goto
<1>6. ASSUME NEW r \in Requests, CheckError(r) PROVE JInv'
  BY <1>6 DEF CheckError, Answer
<1>7. ASSUME NEW r \in Requests, Insert(r) PROVE JInv'
  BY <1>7 DEF Insert, Answer
<1>8. ASSUME NEW r \in Requests, InsertError(r) PROVE JInv'
  BY <1>8 DEF InsertError, Answer
<1>9. ASSUME NEW r \in Requests, Crash(r) PROVE JInv'
  BY <1>9 DEF Crash, NewProcess, Answer
<1>10. ASSUME NEW r \in Requests, Delete(r) PROVE JInv'
  BY <1>10 DEF Delete
<1>11. ASSUME NEW c \in Containers, Recycle(c) PROVE JInv'
  BY <1>11 DEF Recycle, NewProcess
<1>12. ASSUME NEW v \in Schemas \cup {Missing}, SetParameter(v) PROVE JInv'
  BY <1>12 DEF SetParameter, Parameters
<1>13. CASE UNCHANGED vars
  BY <1>13 DEF vars
<1>14. QED
  BY <1>1, <1>2, <1>3, <1>4, <1>5, <1>6, <1>7, <1>8, <1>9, <1>10, <1>11, <1>12, <1>13
     DEF Next, Serve

\* However the parameter changes and containers come and go, a body that passed
\* was judged by what the store held during the life of the process
\* (validation.js:28-66).
THEOREM JudgedByStoredSchemaHolds == Spec => []JudgedByStoredSchema
<1>1. JInv => JudgedByStoredSchema
  BY DEF JInv
<1>2. QED
  BY TInvInit, TInvNext, JInvInit, JInvNext, <1>1, PTL DEF Spec
=============================================================================

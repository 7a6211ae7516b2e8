---------------------------- MODULE CreateTenant ----------------------------
(***************************************************************************)
(* POST /v1/tenants: createTenantHandler (src/src/handlers/create-tenant/  *)
(* index.js) inside withMiddleware (src/src/shared/middleware.js), with    *)
(* the cache of compiled schemas that each warm container keeps            *)
(* (src/src/shared/validation.js).  The check of the name ignores case,    *)
(* the constraint of the table does not, and the check does not count      *)
(* deleted tenants, the constraint does.                                   *)
(*                                                                         *)
(* A tenant is named by the request that inserted it.  No handler changes  *)
(* the status of a tenant; operators do.                                   *)
(***************************************************************************)
EXTENDS Naturals

CONSTANTS
    Requests,
    Containers,     \* warm Lambda execution environments, one request at a time
    Names,
    NameOf,         \* body.name of each request
    Lower,          \* LOWER(name)
    KindsOf,        \* what each request may turn out to be, see Kinds
    Schemas,        \* versions of the schema in the parameter store
    Rejects,        \* the bodies each version rejects
    BadRow,         \* requests whose row violates a constraint of its own
    NoContainer,
    NotLoaded,      \* no entry of _schemaCache
    Missing,        \* an entry null of _schemaCache; no parameter
    FaultSets       \* the environments considered, each a set of fault names

(***************************************************************************)
(* <call>_fails: the call throws and did nothing.  insert_reply_lost: the  *)
(* row is committed, but the handler sees an error.  crash: the Lambda     *)
(* times out or dies.  schema_missing: the parameter may not exist yet,    *)
(* or no longer.                                                           *)
(***************************************************************************)
FaultNames ==
    {"ssm_fails", "check_fails", "insert_fails", "insert_reply_lost", "crash",
     "schema_missing"}

\* What the middleware refuses, and the status it answers with: a request without
\* claims, one without a tenant_id claim, one without a body in JSON.
Refusal == [no_claims |-> 401, no_tenant |-> 403, no_json |-> 400]

\* The caller of any other is in the group ADMIN or not.
Kinds == DOMAIN Refusal \cup {"user", "admin"}

ASSUME TenantAssumption ==
    /\ NameOf \in [Requests -> Names]
    /\ DOMAIN Lower = Names
    /\ KindsOf \in [Requests -> SUBSET Kinds]
    /\ Rejects \in [Schemas -> SUBSET Requests]
    /\ BadRow \subseteq Requests
    /\ NoContainer \notin Containers
    /\ NotLoaded \notin Schemas
    /\ Missing \notin Schemas
    /\ Missing # NotLoaded
    /\ FaultSets \subseteq SUBSET FaultNames

VARIABLES
    faults,        \* the environment of this behaviour, it never changes
    pc,            \* what each request does next
    on,            \* the container that serves it
    kind,          \* what it turned out to be
    answer,        \* status code of its response, 0 for none
    tenants,       \* requests whose row was committed
    status,        \* status column of those rows
    parameter,     \* the schema in the parameter store
    cache,         \* _schemaCache of each container
    judgedBy,      \* history: the cache entry each body was judged by
    stored,        \* history: what the parameter was since each process started
    endedBefore    \* history: the requests for its name, but for case, that
                   \* had ended when each arrived

rowVars == <<tenants, status>>
schemaVars == <<parameter, cache, judgedBy, stored>>
vars == <<faults, pc, on, kind, answer, rowVars, schemaVars, endedBefore>>

Steps == {"idle", "validate", "check", "insert", "done"}
Statuses == {"live", "deleted"}   \* suspended tenants are live to this handler

TypeOK ==
    /\ faults \in FaultSets
    /\ pc \in [Requests -> Steps]
    /\ on \in [Requests -> Containers \cup {NoContainer}]
    /\ kind \in [Requests -> Kinds]
    /\ answer \in [Requests -> {0, 201, 400, 401, 403, 409, 500}]
    /\ tenants \subseteq Requests
    /\ status \in [Requests -> Statuses]
    /\ parameter \in Schemas \cup {Missing}
    /\ cache \in [Containers -> Schemas \cup {Missing, NotLoaded}]
    /\ judgedBy \in [Requests -> Schemas \cup {Missing, NotLoaded}]
    /\ stored \in [Containers -> SUBSET (Schemas \cup {Missing})]
    /\ endedBefore \in [Requests -> SUBSET Requests]

Parameters == Schemas \cup (IF "schema_missing" \in faults THEN {Missing} ELSE {})

Init ==
    /\ faults \in FaultSets
    /\ pc = [r \in Requests |-> "idle"]
    /\ on = [r \in Requests |-> NoContainer]
    /\ kind = [r \in Requests |-> "user"]
    /\ answer = [r \in Requests |-> 0]
    /\ tenants = {}
    /\ status = [r \in Requests |-> "live"]
    /\ parameter \in Parameters
    /\ cache = [c \in Containers |-> NotLoaded]
    /\ judgedBy = [r \in Requests |-> NotLoaded]
    /\ stored = [c \in Containers |-> {parameter}]
    /\ endedBefore = [r \in Requests |-> {}]

Goto(r, s) ==
    /\ pc' = [pc EXCEPT ![r] = s]
    /\ UNCHANGED <<faults, on, kind, answer, endedBefore>>

\* AppError keeps its status, anything else that is thrown becomes a 500.
Answer(r, code) ==
    /\ pc' = [pc EXCEPT ![r] = "done"]
    /\ answer' = [answer EXCEPT ![r] = code]
    /\ UNCHANGED <<faults, on, kind, endedBefore>>

Serving(c) == {r \in Requests : on[r] = c /\ pc[r] \notin {"idle", "done"}}

\* extractTenantContext and the parsing of the body come before anything else.
Arrive(r, c) ==
    /\ pc[r] = "idle" /\ Serving(c) = {}
    /\ on' = [on EXCEPT ![r] = c]
    /\ endedBefore' = [endedBefore EXCEPT ![r] =
          {s \in Requests : pc[s] = "done" /\ Lower[NameOf[s]] = Lower[NameOf[r]]}]
    /\ \E k \in KindsOf[r] : kind' = [kind EXCEPT ![r] = k]
    /\ IF kind'[r] \in DOMAIN Refusal
       THEN /\ pc' = [pc EXCEPT ![r] = "done"]
            /\ answer' = [answer EXCEPT ![r] = Refusal[kind'[r]]]
       ELSE /\ pc' = [pc EXCEPT ![r] = "validate"]
            /\ UNCHANGED answer
    /\ UNCHANGED <<faults, rowVars, schemaVars>>

\* GetParameter; ParameterNotFound is remembered like a schema.
LoadSchema(r) ==
    /\ pc[r] = "validate" /\ cache[on[r]] = NotLoaded
    /\ cache' = [cache EXCEPT ![on[r]] = parameter]
    /\ UNCHANGED <<faults, pc, on, kind, answer, endedBefore, rowVars, parameter, judgedBy, stored>>

\* Slip: every error of the store is taken for a parameter that is not there.
LoadSchemaErrorSkips(r) ==
    /\ pc[r] = "validate" /\ cache[on[r]] = NotLoaded /\ "ssm_fails" \in faults
    /\ cache' = [cache EXCEPT ![on[r]] = Missing]
    /\ UNCHANGED <<faults, pc, on, kind, answer, endedBefore, rowVars, parameter, judgedBy, stored>>

LoadSchemaError(r) ==
    /\ pc[r] = "validate" /\ cache[on[r]] = NotLoaded /\ "ssm_fails" \in faults
    /\ Answer(r, 500)
    /\ UNCHANGED <<rowVars, schemaVars>>

Validate(r) ==
    /\ pc[r] = "validate" /\ cache[on[r]] # NotLoaded
    /\ judgedBy' = [judgedBy EXCEPT ![r] = cache[on[r]]]
    /\ IF cache[on[r]] \in Schemas /\ r \in Rejects[cache[on[r]]]
       THEN Answer(r, 400)
       ELSE Goto(r, "check")
    /\ UNCHANGED <<rowVars, parameter, cache, stored>>

\* Slip: names are compared as they are.
ExistingExact(r) == {s \in tenants : NameOf[s] = NameOf[r] /\ status[s] # "deleted"}

\* Rows the SELECT ... LOWER(name) = LOWER($1) AND status != 'deleted' returns.
Existing(r) ==
    {s \in tenants : Lower[NameOf[s]] = Lower[NameOf[r]] /\ status[s] # "deleted"}

Check(r) ==
    /\ pc[r] = "check"
    /\ IF kind[r] # "admin" THEN Answer(r, 403)
       ELSE IF Existing(r) # {} THEN Answer(r, 409) ELSE Goto(r, "insert")
    /\ UNCHANGED <<rowVars, schemaVars>>

CheckError(r) ==
    /\ pc[r] = "check" /\ kind[r] = "admin" /\ "check_fails" \in faults
    /\ Answer(r, 500)
    /\ UNCHANGED <<rowVars, schemaVars>>

\* tenants_name_unique: exact names, deleted tenants included.
SameName(r) == {s \in tenants : NameOf[s] = NameOf[r]}

\* Slip: the insert is not awaited.
InsertUnawaited(r) ==
    /\ pc[r] = "insert"
    /\ Answer(r, 201)
    /\ IF r \in BadRow \/ SameName(r) # {}
       THEN UNCHANGED tenants
       ELSE tenants' = tenants \cup {r}
    /\ UNCHANGED <<status, schemaVars>>

Insert(r) ==
    /\ pc[r] = "insert"
    /\ IF r \in BadRow \/ SameName(r) # {}
       THEN Answer(r, 500) /\ UNCHANGED tenants
       ELSE Answer(r, 201) /\ tenants' = tenants \cup {r}
    /\ UNCHANGED <<status, schemaVars>>

InsertError(r) ==
    /\ pc[r] = "insert"
    /\ \/ "insert_fails" \in faults /\ UNCHANGED tenants
       \/ /\ "insert_reply_lost" \in faults
          /\ r \notin BadRow /\ SameName(r) = {}
          /\ tenants' = tenants \cup {r}
    /\ Answer(r, 500)
    /\ UNCHANGED <<status, schemaVars>>

\* A new process starts with an empty cache.
NewProcess(c) ==
    /\ cache' = [cache EXCEPT ![c] = NotLoaded]
    /\ stored' = [stored EXCEPT ![c] = {parameter}]
    /\ UNCHANGED <<parameter, judgedBy>>

\* A commit in flight counts as Insert.
Crash(r) ==
    /\ "crash" \in faults /\ pc[r] \notin {"idle", "done"}
    /\ Answer(r, 0)
    /\ NewProcess(on[r])
    /\ UNCHANGED rowVars

\* Lambda retires a container nobody uses.
Recycle(c) ==
    /\ Serving(c) = {} /\ cache[c] # NotLoaded
    /\ NewProcess(c)
    /\ UNCHANGED <<faults, pc, on, kind, answer, endedBefore, rowVars>>

\* An operator deletes a tenant for good.
Delete(r) ==
    /\ r \in tenants /\ status[r] = "live"
    /\ status' = [status EXCEPT ![r] = "deleted"]
    /\ UNCHANGED <<faults, pc, on, kind, answer, endedBefore, tenants, schemaVars>>

\* terraform apply writes the parameter.
SetParameter(v) ==
    /\ v \in Parameters \ {parameter}
    /\ parameter' = v
    /\ stored' = [c \in Containers |-> stored[c] \cup {v}]
    /\ UNCHANGED <<faults, pc, on, kind, answer, endedBefore, rowVars, cache, judgedBy>>

Serve(r) ==
    \/ LoadSchema(r) \/ LoadSchemaError(r) \/ Validate(r)
    \/ Check(r) \/ CheckError(r) \/ Insert(r) \/ InsertError(r)

Next ==
    \/ \E r \in Requests :
        \/ \E c \in Containers : Arrive(r, c)
        \/ Serve(r) \/ Crash(r) \/ Delete(r)
    \/ \E c \in Containers : Recycle(c)
    \/ \E v \in Schemas \cup {Missing} : SetParameter(v)

Spec == Init /\ [][Next]_vars

----------------------------------------------------------------------------

\* Tenant names are unique: two rows never have the same name, and two live
\* tenants whose names differ in case only (create-tenant/index.js:45) come
\* from requests that overlapped, never from one sent after the other ended.
NamesUnique ==
    \A r, s \in tenants : r # s =>
        /\ NameOf[r] # NameOf[s]
        /\ (Lower[NameOf[r]] = Lower[NameOf[s]] /\ "deleted" \notin {status[r], status[s]})
              => r \notin endedBefore[s]

\* A 201 means the tenant exists, a 400, 401, 403 or 409 that the request left
\* nothing behind, a 409 also that a tenant has its name.  Without faults a 500
\* has one of two causes: the row itself is bad, or a tenant that is deleted, or
\* was inserted after the check, has the very name.
Calls == {"ssm_fails", "check_fails", "insert_fails", "insert_reply_lost"}
AnswersExplained ==
    \A r \in Requests :
        /\ answer[r] = 201 => r \in tenants
        /\ answer[r] \in {400, 401, 403, 409} => r \notin tenants
        /\ answer[r] = 409 =>
              \E s \in tenants : s # r /\ Lower[NameOf[s]] = Lower[NameOf[r]]
        /\ answer[r] = 500 /\ faults \cap Calls = {} =>
              \/ r \in BadRow
              \/ \E s \in tenants : s # r /\ NameOf[s] = NameOf[r]
                    /\ (status[s] = "deleted" \/ s \notin endedBefore[r])

\* No body skips validation (validation.js:35) unless the parameter was missing
\* at some time since the container's process started, and none is judged by a
\* schema that was replaced before that.  How long ago it was makes no
\* difference: what the first request found is used for the process's life.
\* Only requests that still run, or whose process does, are compared.
JudgedByStoredSchema ==
    \A r \in Requests :
        pc[r] \in {"check", "insert"} => judgedBy[r] \in stored[on[r]]
=============================================================================

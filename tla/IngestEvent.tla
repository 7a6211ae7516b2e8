---------------------------- MODULE IngestEvent ----------------------------
(***************************************************************************)
(* POST /v1/events: ingestEventHandler (src/src/handlers/ingest-event)     *)
(* behind parseAndValidateBody (src/src/shared/middleware.js) and the      *)
(* billing_events table (src/src/migrations/001_initial_schema.sql).       *)
(*                                                                         *)
(* A client has usage events to report.  It sends each one until it is     *)
(* answered, again after an error or when it gave up waiting, with the     *)
(* same idempotency key each time if it uses one.  An earlier attempt may  *)
(* still be running.  MaxAttempts bounds the attempts of one event.        *)
(***************************************************************************)
EXTENDS Naturals, FiniteSets

CONSTANTS
    Events,        \* usage events of the clients
    TenantOf,      \* the tenant of each event
    KeyOf,         \* its idempotency_key, or NoKey
    TypeOf,        \* its event_type
    QuantityOf,    \* its payload.quantity, NoQuantity without one, BadQuantity
                   \* for what is no number or negative
    Verdicts,      \* of each event, what the middleware may find in a request
                   \* for it: 401 without claims, 403 without a tenant, 400
                   \* without a JSON body, 0 with all of them
    SchemaTypes,   \* event types the deployed JSON schema accepts
    MaxAttempts,   \* bound of the model
    FaultSets,     \* the environments considered, each a set of fault names
    NoKey, NoQuantity, BadQuantity

VALID_EVENT_TYPES == {"api_call", "storage_used", "compute_time", "custom"}

(***************************************************************************)
(* <call>_fails: the query throws and did nothing.  insert_reply_lost: it  *)
(* committed, but the handler sees an error.  crash: the Lambda times out  *)
(* (5 s) or dies.  impatient: a client resends while an attempt runs.      *)
(* schema_fails: SSM does not give a schema that is not cached yet.        *)
(***************************************************************************)
FaultNames ==
    {"schema_fails", "lookup_fails", "insert_fails", "insert_reply_lost", "crash",
     "impatient"}

ASSUME IngestAssumption ==
    /\ MaxAttempts \in Nat \ {0}
    /\ FaultSets \subseteq SUBSET FaultNames
    /\ NoQuantity \notin Nat /\ BadQuantity \notin Nat
    /\ QuantityOf \in [Events -> Nat \cup {NoQuantity, BadQuantity}]
    /\ NoQuantity # BadQuantity
    /\ Verdicts \in [Events -> SUBSET {0, 400, 401, 403}]

\* A client gives each of its events a key of its own.
ASSUME KeysAreDistinct ==
    \A e, f \in Events :
        TenantOf[e] = TenantOf[f] /\ KeyOf[e] = KeyOf[f] /\ KeyOf[e] # NoKey => e = f

Attempts == Events \X (1 .. MaxAttempts)

VARIABLES
    faults,    \* the environment of this behaviour, it never changes
    attempts,  \* how often each event was sent
    pc,        \* what the handler of each attempt does next
    answer,    \* status code of its response, 0 for none
    rows       \* attempts that inserted a row of billing_events

vars == <<faults, attempts, pc, answer, rows>>

TypeOK ==
    /\ faults \in FaultSets
    /\ attempts \in [Events -> 0 .. MaxAttempts]
    /\ pc \in [Attempts -> {"idle", "validate", "lookup", "insert", "done"}]
    /\ answer \in [Attempts -> {0, 200, 201, 400, 401, 403, 500}]
    /\ rows \subseteq Attempts

Init ==
    /\ faults \in FaultSets
    /\ attempts = [e \in Events |-> 0]
    /\ pc = [a \in Attempts |-> "idle"]
    /\ answer = [a \in Attempts |-> 0]
    /\ rows = {}

Latest(e) == <<e, attempts[e]>>

\* The client has no final answer: none yet, a 500, or none at all.
Unanswered(e) ==
    \A n \in 1 .. attempts[e] : answer[<<e, n>>] \in {0, 500}

Send(e) ==
    /\ attempts[e] < MaxAttempts
    /\ Unanswered(e)
    /\ attempts[e] > 0 => pc[Latest(e)] = "done" \/ "impatient" \in faults
    /\ attempts' = [attempts EXCEPT ![e] = @ + 1]
    /\ pc' = [pc EXCEPT ![<<e, attempts[e] + 1>>] = "validate"]
    /\ UNCHANGED <<faults, answer, rows>>

Goto(a, s) ==
    /\ pc' = [pc EXCEPT ![a] = s]
    /\ UNCHANGED <<faults, attempts, answer>>

Answer(a, code) ==
    /\ pc' = [pc EXCEPT ![a] = "done"]
    /\ answer' = [answer EXCEPT ![a] = code]
    /\ UNCHANGED <<faults, attempts>>

\* The JSON schema first, then the handler's own tests of type and quantity.
Accepted(e) ==
    /\ TypeOf[e] \in SchemaTypes \cap VALID_EVENT_TYPES
    /\ QuantityOf[e] # BadQuantity

\* The request is refused by the middleware or for the event it holds, or goes
\* on; without a key there is nothing to look up.
Validate(e, n) ==
    /\ pc[<<e, n>>] = "validate"
    /\ \/ \E verdict \in Verdicts[e] \ {0} : Answer(<<e, n>>, verdict)
       \/ /\ 0 \in Verdicts[e]
          /\ \/ ~Accepted(e) /\ Answer(<<e, n>>, 400)
             \/ Accepted(e) /\ KeyOf[e] = NoKey /\ Goto(<<e, n>>, "insert")
             \/ Accepted(e) /\ KeyOf[e] # NoKey /\ Goto(<<e, n>>, "lookup")
    /\ UNCHANGED rows

\* getSchemaValidator throws, which is no AppError.
ValidateError(e, n) ==
    /\ pc[<<e, n>>] = "validate" /\ 0 \in Verdicts[e] /\ "schema_fails" \in faults
    /\ Answer(<<e, n>>, 500)
    /\ UNCHANGED rows

\* Rows with the tenant and the key of event e.
SameKeyAnyTenant(e) == {a \in rows : KeyOf[a[1]] = KeyOf[e]}       \* Slip.
SameKey(e) ==
    {a \in rows : TenantOf[a[1]] = TenantOf[e] /\ KeyOf[a[1]] = KeyOf[e]}

\* Slip: a duplicate is a conflict, as an existing subscription is.
LookupConflict(e, n) ==
    /\ pc[<<e, n>>] = "lookup"
    /\ IF SameKey(e) # {} THEN Answer(<<e, n>>, 409) ELSE Goto(<<e, n>>, "insert")
    /\ UNCHANGED rows

Lookup(e, n) ==
    /\ pc[<<e, n>>] = "lookup"
    /\ IF SameKey(e) # {} THEN Answer(<<e, n>>, 200) ELSE Goto(<<e, n>>, "insert")
    /\ UNCHANGED rows

LookupError(e, n) ==
    /\ pc[<<e, n>>] = "lookup" /\ "lookup_fails" \in faults
    /\ Answer(<<e, n>>, 500)
    /\ UNCHANGED rows

\* UNIQUE (tenant_id, idempotency_key), which ignores null keys.
NeverViolatesUnique(e) == FALSE                    \* Slip: no constraint.
ViolatesUnique(e) == KeyOf[e] # NoKey /\ SameKey(e) # {}

\* Slip: without RETURNING, reading the created row throws after the commit.
InsertThenThrows(e, n) ==
    /\ pc[<<e, n>>] = "insert"
    /\ ~ViolatesUnique(e)
    /\ rows' = rows \cup {<<e, n>>}
    /\ Answer(<<e, n>>, 500)

Insert(e, n) ==
    /\ pc[<<e, n>>] = "insert"
    /\ ~ViolatesUnique(e)
    /\ rows' = rows \cup {<<e, n>>}
    /\ Answer(<<e, n>>, 201)

\* A unique violation is not told from any other error.
InsertError(e, n) ==
    /\ pc[<<e, n>>] = "insert"
    /\ \/ /\ ViolatesUnique(e) \/ "insert_fails" \in faults
          /\ UNCHANGED rows
       \/ /\ "insert_reply_lost" \in faults /\ ~ViolatesUnique(e)
          /\ rows' = rows \cup {<<e, n>>}
    /\ Answer(<<e, n>>, 500)

Crash(e, n) ==
    /\ "crash" \in faults
    /\ pc[<<e, n>>] \notin {"idle", "done"}
    /\ Answer(<<e, n>>, 0)
    /\ UNCHANGED rows

Serve(e, n) ==
    \/ Validate(e, n) \/ ValidateError(e, n) \/ Lookup(e, n) \/ LookupError(e, n)
    \/ Insert(e, n) \/ InsertError(e, n)

Next ==
    \/ \E e \in Events : Send(e)
    \/ \E e \in Events, n \in 1 .. MaxAttempts : Serve(e, n) \/ Crash(e, n)

Spec == Init /\ [][Next]_vars

----------------------------------------------------------------------------

\* Quantity the row of event e stores: payload.quantity || 1.
StoredQuantity(e) == IF QuantityOf[e] \in Nat \ {0} THEN QuantityOf[e] ELSE 1

RowsOf(e) == {n \in 1 .. MaxAttempts : <<e, n>> \in rows}

\* What will be billed for event e.
Billed(e) == StoredQuantity(e) * Cardinality(RowsOf(e))

\* What its client may be billed: a non-negative number (ingest-event/index.js:70),
\* one unit if it gives none (DEFAULT 1 of billing_events.quantity), nothing for
\* what is no such number.
Reported(e) ==
    CASE QuantityOf[e] = NoQuantity  -> 1
      [] QuantityOf[e] = BadQuantity -> 0
      [] OTHER                       -> QuantityOf[e]

\* A client that retries with a key is billed what it reported or, so far,
\* nothing, whatever fails and however its attempts overlap
\* (ingest-event/index.js:16-19).  A reported zero is excluded: it bills one.
BilledOnce ==
    \A e \in Events : KeyOf[e] # NoKey /\ QuantityOf[e] # 0 =>
        Billed(e) \in {0, Reported(e)}

\* A success means the event is counted: by this attempt, or for a duplicate by
\* an earlier attempt of the same event, never by another tenant's event.
SuccessIsCounted ==
    \A e \in Events, n \in 1 .. MaxAttempts :
        /\ answer[<<e, n>>] = 201 => n \in RowsOf(e)
        /\ answer[<<e, n>>] = 200 => \E k \in RowsOf(e) : k < n \/ "impatient" \in faults

\* Without lost replies and crashes, an attempt that failed left nothing, so
\* that a client without a key may repeat it.
FailureLeavesNothing ==
    faults \cap {"insert_reply_lost", "crash"} = {} =>
        \A a \in rows : pc[a] = "done" /\ answer[a] = 201

\* Without faults of the server, a valid event in valid requests whose attempts
\* have all ended is counted and acknowledged, also when they raced one another
\* and losers of the unique constraint got a 500.
EndedIsCounted ==
    \A e \in {x \in Events : Accepted(x) /\ Verdicts[x] = {0}} :
        /\ faults \subseteq {"impatient"}
        /\ attempts[e] > 0
        /\ \A n \in 1 .. attempts[e] : pc[<<e, n>>] = "done"
        => \E n \in RowsOf(e) : answer[<<e, n>>] = 201
=============================================================================

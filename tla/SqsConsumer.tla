---------------------------- MODULE SqsConsumer ----------------------------
(***************************************************************************)
(* One SQS queue, its dead-letter queue and the consumer Lambda behind it: *)
(* the wrapper withSqsConsumer (src/src/shared/sqs-consumer.js) with the   *)
(* idempotency guard it calls (src/src/shared/idempotency.js), fed by an   *)
(* event source mapping with ReportBatchItemFailures                       *)
(* (src/terraform/modules/events/main.tf).                                 *)
(*                                                                         *)
(* The wrapper is the same for generate-invoice, send-notification and     *)
(* audit-log; what the wrapped processMessage commits is abstracted to a   *)
(* count of committed executions per message (effects).                    *)
(*                                                                         *)
(* Abstractions:                                                           *)
(*  - the idempotency key consumer:subscription:messageId is a function of *)
(*    the SQS message, so the table processed_events is indexed by message *)
(*  - a message held by a live invocation is invisible: the visibility     *)
(*    timeout is 6 times the Lambda timeout.  It is visible again when the *)
(*    invocation ends without deleting it.  An early second delivery is    *)
(*    the fault "duplicate_delivery"                                       *)
(*  - a standard queue has no order, so a batch is a set.                  *)
(***************************************************************************)
EXTENDS Naturals, FiniteSets

CONSTANTS
    Messages,      \* SQS messages, one per messageId
    Malformed,     \* those whose body does not parse as a JSON object
    Invocations,   \* concurrent Lambda executions (maximum_concurrency)
    BatchSize,     \* batch_size of the event source mapping
    MaxReceive,    \* maxReceiveCount of the redrive policy
    FaultSets,     \* the environments considered, each a set of fault names
    NoMessage      \* value of cur between two records

(***************************************************************************)
(* <call>_fails: the call throws and did nothing.  <call>_reply_lost: the  *)
(* database committed it, but the caller sees an error.  crash: the Lambda *)
(* times out or dies.  duplicate_delivery: SQS delivers a message that is  *)
(* in flight, or was deleted, once more.  no_route: the Lambda is outside  *)
(* the VPC of the database (needs_vpc = false) and every call fails.       *)
(***************************************************************************)
FaultNames ==
    {"acquire_fails", "acquire_reply_lost", "process_fails",
     "process_reply_lost", "mark_fails", "mark_reply_lost",
     "release_fails", "crash", "duplicate_delivery", "no_route"}

ASSUME ConsumerAssumption ==
    /\ Malformed \subseteq Messages
    /\ NoMessage \notin Messages
    /\ BatchSize \in Nat \ {0}
    /\ MaxReceive \in Nat \ {0}
    /\ FaultSets \subseteq SUBSET FaultNames

VARIABLES
    faults,           \* the environment of this behaviour, it never changes
    queue,            \* where each message is; "queued" is visible or in flight
    receives,         \* ApproximateReceiveCount of each message
    processedEvents,  \* status of each message's row in processed_events
    effects,          \* committed executions of processMessage per message
    pc,               \* what each invocation does next
    batch,            \* event.Records of each invocation
    todo,             \* the records its loop has not started
    cur,              \* the record its loop is at
    failures          \* batchItemFailures

queueVars == <<queue, receives>>
callVars  == <<batch, todo, cur, failures, faults>>
vars == <<faults, queue, receives, processedEvents, effects, pc, batch, todo, cur, failures>>

TypeOK ==
    /\ faults \in FaultSets
    /\ queue \in [Messages -> {"unsent", "queued", "deleted", "dead"}]
    /\ receives \in [Messages -> 0 .. MaxReceive]
    /\ processedEvents \in [Messages -> {"absent", "processing", "completed"}]
    /\ effects \in [Messages -> Nat]
    /\ pc \in [Invocations -> {"idle", "loop", "process", "mark", "release"}]
    /\ batch \in [Invocations -> SUBSET Messages]
    /\ todo \in [Invocations -> SUBSET Messages]
    /\ cur \in [Invocations -> Messages \cup {NoMessage}]
    /\ failures \in [Invocations -> SUBSET Messages]

Init ==
    /\ faults \in FaultSets
    /\ queue = [m \in Messages |-> "unsent"]
    /\ receives = [m \in Messages |-> 0]
    /\ processedEvents = [m \in Messages |-> "absent"]
    /\ effects = [m \in Messages |-> 0]
    /\ pc = [i \in Invocations |-> "idle"]
    /\ batch = [i \in Invocations |-> {}]
    /\ todo = [i \in Invocations |-> {}]
    /\ cur = [i \in Invocations |-> NoMessage]
    /\ failures = [i \in Invocations |-> {}]

(***************************************************************************)
(* The queue.                                                              *)
(***************************************************************************)

\* SNS delivers an event to the queue (raw delivery, one message per event).
Send(m) ==
    /\ queue[m] = "unsent"
    /\ queue' = [queue EXCEPT ![m] = "queued"]
    /\ UNCHANGED <<receives, processedEvents, effects, pc, callVars>>

InFlight(m) == \E i \in Invocations : m \in batch[i]

ReceivesLeftOrOneMore(m) == receives[m] <= MaxReceive    \* Slip.
ReceivesLeft(m) == receives[m] < MaxReceive

Deliverable(m) ==
    /\ ReceivesLeft(m)
    /\ \/ queue[m] = "queued" /\ ~InFlight(m)
       \/ "duplicate_delivery" \in faults /\ queue[m] \in {"queued", "deleted"}

\* The event source mapping hands a batch to a free execution environment.
Receive(i, b) ==
    /\ pc[i] = "idle"
    /\ b # {} /\ Cardinality(b) <= BatchSize
    /\ \A m \in b : Deliverable(m)
    /\ queue' = [m \in Messages |-> IF m \in b THEN "queued" ELSE queue[m]]
    /\ receives' = [m \in Messages |-> IF m \in b THEN receives[m] + 1 ELSE receives[m]]
    /\ pc' = [pc EXCEPT ![i] = "loop"]
    /\ batch' = [batch EXCEPT ![i] = b]
    /\ todo' = [todo EXCEPT ![i] = b]
    /\ UNCHANGED <<processedEvents, effects, cur, failures, faults>>

\* A message received maxReceiveCount times without being deleted.
ExhaustedLate(m) == receives[m] > MaxReceive    \* Slip: never reached.
Exhausted(m) == receives[m] >= MaxReceive

Redrive(m) ==
    /\ queue[m] = "queued" /\ ~InFlight(m)
    /\ Exhausted(m)
    /\ queue' = [queue EXCEPT ![m] = "dead"]
    /\ UNCHANGED <<receives, processedEvents, effects, pc, callVars>>

(***************************************************************************)
(* The statements of idempotency.js, on the status of one row.  Operators  *)
(* marked Slip are plausible mistakes, used only to test the properties.   *)
(***************************************************************************)

CanInsertOverProcessing(row) == row # "completed"  \* Slip: ON CONFLICT takes over.
CanInsert(row) == row = "absent"

Inserted(row) == IF row = "absent" THEN "processing" ELSE row

\* UPDATE: a row that is gone stays gone.
Completed(row) == IF row = "absent" THEN row ELSE "completed"

\* DELETE ... AND status = 'processing', whoever inserted the row.
Released(row) == IF row = "processing" THEN "absent" ELSE row

(***************************************************************************)
(* One invocation.  Each call to the database is a step of its own; the    *)
(* outcome the wrapper sees selects the next one.                          *)
(***************************************************************************)

\* A call fails because the environment lets it, or has no route to the DB.
Reachable == "no_route" \notin faults
Fails(call) == call \in faults \/ ~Reachable

\* The loop goes on with record m, at step s.
Goto(i, s, m) ==
    /\ pc' = [pc EXCEPT ![i] = s]
    /\ todo' = [todo EXCEPT ![i] = @ \ {m}]
    /\ cur' = [cur EXCEPT ![i] = m]
    /\ UNCHANGED <<batch, faults>>

\* The loop is done with record m, as a success or as a failure.
NextRecord(i, m, failed) ==
    /\ pc' = [pc EXCEPT ![i] = "loop"]
    /\ todo' = [todo EXCEPT ![i] = @ \ {m}]
    /\ cur' = [cur EXCEPT ![i] = NoMessage]
    /\ failures' = [failures EXCEPT ![i] = IF failed THEN @ \cup {m} ELSE @]
    /\ UNCHANGED <<batch, faults>>

\* The invocation is over and forgets its batch.
EndInvocation(i) ==
    /\ pc' = [pc EXCEPT ![i] = "idle"]
    /\ batch' = [batch EXCEPT ![i] = {}]
    /\ todo' = [todo EXCEPT ![i] = {}]
    /\ cur' = [cur EXCEPT ![i] = NoMessage]
    /\ failures' = [failures EXCEPT ![i] = {}]
    /\ UNCHANGED faults

AtRecord(i, m) == pc[i] = "loop" /\ m \in todo[i]

\* Slip: JSON.parse moved out of the try block, the invocation dies.
ParseErrorEndsInvocation(i, m) ==
    /\ AtRecord(i, m) /\ m \in Malformed
    /\ EndInvocation(i)
    /\ UNCHANGED <<queueVars, processedEvents, effects>>

\* JSON.parse throws, and throws again in the catch block: nothing is
\* released, the record is reported as failed.
ParseError(i, m) ==
    /\ AtRecord(i, m) /\ m \in Malformed
    /\ NextRecord(i, m, TRUE)
    /\ UNCHANGED <<queueVars, processedEvents, effects>>

\* acquireIdempotencyLock returns { alreadyProcessed: false }.
AcquireOk(i, m) ==
    /\ AtRecord(i, m) /\ m \notin Malformed
    /\ Reachable
    /\ CanInsert(processedEvents[m])
    /\ processedEvents' = [processedEvents EXCEPT ![m] = Inserted(@)]
    /\ Goto(i, "process", m)
    /\ UNCHANGED <<queueVars, effects, failures>>

\* The INSERT hits the unique constraint, whatever the status of the row:
\* the record is skipped and reported as a success.
AcquireDuplicate(i, m) ==
    /\ AtRecord(i, m) /\ m \notin Malformed
    /\ Reachable
    /\ ~CanInsert(processedEvents[m])
    /\ NextRecord(i, m, FALSE)
    /\ UNCHANGED <<queueVars, processedEvents, effects>>

\* The INSERT throws anything else: the catch block releases the lock.
AcquireError(i, m) ==
    /\ AtRecord(i, m) /\ m \notin Malformed
    /\ \/ Fails("acquire_fails") /\ UNCHANGED processedEvents
       \/ /\ "acquire_reply_lost" \in faults /\ Reachable
          /\ processedEvents' = [processedEvents EXCEPT ![m] = Inserted(@)]
    /\ Goto(i, "release", m)
    /\ UNCHANGED <<queueVars, effects, failures>>

\* processMessage commits its own transaction.
ProcessOk(i) ==
    /\ pc[i] = "process"
    /\ effects' = [effects EXCEPT ![cur[i]] = @ + 1]
    /\ Goto(i, "mark", cur[i])
    /\ UNCHANGED <<queueVars, processedEvents, failures>>

\* Slip: a failed record is reported without releasing its lock.
ProcessErrorKeepsLock(i) ==
    /\ pc[i] = "process" /\ Fails("process_fails")
    /\ NextRecord(i, cur[i], TRUE)
    /\ UNCHANGED <<queueVars, processedEvents, effects>>

\* processMessage throws, after a ROLLBACK or after a COMMIT it did not hear of.
ProcessError(i) ==
    /\ pc[i] = "process"
    /\ \/ Fails("process_fails") /\ UNCHANGED effects
       \/ /\ "process_reply_lost" \in faults
          /\ effects' = [effects EXCEPT ![cur[i]] = @ + 1]
    /\ Goto(i, "release", cur[i])
    /\ UNCHANGED <<queueVars, processedEvents, failures>>

MarkOk(i) ==
    /\ pc[i] = "mark"
    /\ processedEvents' = [processedEvents EXCEPT ![cur[i]] = Completed(@)]
    /\ NextRecord(i, cur[i], FALSE)
    /\ UNCHANGED <<queueVars, effects>>

MarkError(i) ==
    /\ pc[i] = "mark"
    /\ \/ Fails("mark_fails") /\ UNCHANGED processedEvents
       \/ /\ "mark_reply_lost" \in faults
          /\ processedEvents' = [processedEvents EXCEPT ![cur[i]] = Completed(@)]
    /\ Goto(i, "release", cur[i])
    /\ UNCHANGED <<queueVars, effects, failures>>

\* The catch block: the lock is released, then the record is reported failed.
ReleaseOk(i) ==
    /\ pc[i] = "release" /\ Reachable
    /\ processedEvents' = [processedEvents EXCEPT ![cur[i]] = Released(@)]
    /\ NextRecord(i, cur[i], TRUE)
    /\ UNCHANGED <<queueVars, effects>>

\* The error of a release is logged and swallowed.
ReleaseError(i) ==
    /\ pc[i] = "release" /\ Fails("release_fails")
    /\ NextRecord(i, cur[i], TRUE)
    /\ UNCHANGED <<queueVars, processedEvents, effects>>

AcknowledgedAll(i) == batch[i]              \* Slip: no ReportBatchItemFailures.
\* Slip: the handler throws if any record failed, the whole batch is retried.
AcknowledgedAllOrNone(i) == IF failures[i] = {} THEN batch[i] ELSE {}
Acknowledged(i) == batch[i] \ failures[i]

\* return { batchItemFailures }: the mapping deletes all other records.
Report(i) ==
    /\ pc[i] = "loop" /\ todo[i] = {}
    /\ queue' = [m \in Messages |-> IF m \in Acknowledged(i) THEN "deleted" ELSE queue[m]]
    /\ EndInvocation(i)
    /\ UNCHANGED <<receives, processedEvents, effects>>

\* A timeout or a dead execution environment: nothing is deleted or released.
Crash(i) ==
    /\ "crash" \in faults
    /\ pc[i] # "idle"
    /\ EndInvocation(i)
    /\ UNCHANGED <<queueVars, processedEvents, effects>>

Step(i) ==
    \/ \E m \in Messages : \/ ParseError(i, m)
                           \/ AcquireOk(i, m)
                           \/ AcquireDuplicate(i, m)
                           \/ AcquireError(i, m)
    \/ ProcessOk(i)
    \/ ProcessError(i)
    \/ MarkOk(i)
    \/ MarkError(i)
    \/ ReleaseOk(i)
    \/ ReleaseError(i)
    \/ Report(i)

Poll == \E i \in Invocations, b \in SUBSET Messages : Receive(i, b)

Next ==
    \/ \E m \in Messages : Send(m) \/ Redrive(m)
    \/ Poll
    \/ \E i \in Invocations : Step(i) \/ Crash(i)

Spec == Init /\ [][Next]_vars

\* The mapping keeps polling, Lambda runs or kills what it started, and SQS
\* moves exhausted messages.  Nothing obliges anyone to publish or to fail.
Fairness ==
    /\ WF_vars(Poll)
    /\ \A i \in Invocations : WF_vars(Step(i))
    /\ \A m \in Messages : WF_vars(Redrive(m))

FairSpec == Spec /\ Fairness

----------------------------------------------------------------------------
(***************************************************************************)
(* Safety.  The wrapper keeps its promises in some environments only; each *)
(* property names them, and the unconditional form of it is the claim that *)
(* the comments of the code make.                                          *)
(***************************************************************************)

\* Even if a message is delivered twice, only one invoice is created
\* (generate-invoice/index.js:16).
ProcessedOnce == \A m \in Messages : effects[m] <= 1

\* The INSERT acts as an atomic lock (README.md:564): two invocations are never
\* between acquire and mark for the same message.
LockHeldOnce ==
    \A i, j \in Invocations :
        /\ pc[i] \in {"process", "mark"}
        /\ pc[j] \in {"process", "mark"}
        /\ cur[i] = cur[j]
        => i = j

\* A message that is deleted and no longer worked on was processed
\* (idempotency.js:7-19: duplicates are skipped because the work is done).
NothingLost ==
    \A m \in Messages : queue[m] = "deleted" /\ ~InFlight(m) => effects[m] >= 1

\* Faults that make the wrapper release a lock it does not hold, or the lock
\* of work that was committed.
Unlocking == {"acquire_fails", "acquire_reply_lost", "process_reply_lost", "mark_fails"}

\* Faults that leave a 'processing' row without an owner, or acknowledge a
\* message its owner may still fail on.
Orphaning == {"crash", "duplicate_delivery", "release_fails"}

\* Crashes, duplicates, failing business logic and failing releases never make
\* the wrapper process a message twice.
AtMostOnce == faults \cap Unlocking = {} => ProcessedOnce

\* ... nor let two invocations work on one message.
LockExclusive == faults \cap Unlocking = {} => LockHeldOnce

\* Failing database calls, each followed by its release, never lose a message.
NoSilentLoss == faults \cap Orphaning = {} => NothingLost

\* When nobody works on a message, no 'processing' row is left behind to
\* swallow its next delivery.
NoStuckLock ==
    faults \cap (Orphaning \cup {"no_route"}) = {} =>
        \A m \in Messages : ~InFlight(m) => processedEvents[m] # "processing"

\* No row says 'completed' for work that was never committed, whatever fails.
CompletedHasEffect ==
    \A m \in Messages : processedEvents[m] = "completed" => effects[m] >= 1

\* Messages that parse are neither retried nor dead-lettered because a
\* malformed one shares their batch (sqs-consumer.js:6-11).
PoisonIsolated ==
    faults = {} =>
        \A m \in Messages \ Malformed : receives[m] <= 1 /\ queue[m] # "dead"

\* A row once 'completed' is never released, by whoever fails later.
CompletedIsFinal ==
    [][\A m \in Messages : processedEvents[m] = "completed"
                              => processedEvents'[m] = "completed"]_vars

(***************************************************************************)
(* Liveness and refinement, of FairSpec.                                   *)
(***************************************************************************)

\* Every event is eventually acted upon, unless its body is malformed
\* (send-notification/index.js:4 of its consumer).  Only without faults.
EventuallyProcessed ==
    \A m \in Messages \ Malformed :
        queue[m] = "queued" /\ faults = {} ~> effects[m] >= 1

\* Failures of these kinds are followed by the release of a lock that the
\* invocation holds, or that nobody holds.
Keeping == {"acquire_fails", "acquire_reply_lost", "process_fails", "no_route"}

\* What the other environments can break of the promise.
Slips ==
    {slip \in {"repeated", "unworked", "redelivered", "late"} :
        /\ ~(faults \subseteq Keeping)
        /\ slip = "repeated" => faults \cap Unlocking # {}
        /\ slip = "unworked" => faults \cap Orphaning # {}
        /\ slip = "redelivered" => "duplicate_delivery" \in faults}

Promise == INSTANCE ExactlyOnce WITH status <- queue, applied <- effects, slips <- Slips

\* The consumer keeps the promise of its queue: each message is processed
\* exactly once and deleted, or never processed and dead-lettered
\* (sqs-consumer.js:6-17, idempotency.js:7-19).  In environments of Keeping it
\* keeps all of it, in the others all but what Slips names; and in each of them
\* every message is taken to an end.
KeepsPromise == Promise!FairSpec
=============================================================================

--------------------------- MODULE DlqReprocessor ---------------------------
(***************************************************************************)
(* The dead-letter replay Lambda (src/src/handlers/dlq-reprocessor): any   *)
(* number of invocations, started by operators, that move messages from    *)
(* one dead-letter queue back to the processing queue, and the consumer    *)
(* that then works on the copies.                                          *)
(*                                                                         *)
(* A copy is a new SQS message with a messageId of its own, which is part  *)
(* of the consumer's idempotency key (sqs-consumer.js:59): the consumer    *)
(* processes each copy once, as module ExactlyOnce promises per message,   *)
(* and cannot recognise a second copy of the same work.                    *)
(*                                                                         *)
(* MaxDeliveries bounds how often the model delivers one dead letter; SQS  *)
(* does so until the message expires.                                      *)
(***************************************************************************)
EXTENDS Naturals, FiniteSets, FiniteSetsExt

CONSTANTS
    Messages,       \* the dead letters
    Replayers,      \* invocations of the reprocessor
    MaxMessages,    \* event.maxMessages of each invocation, 0 if absent or 0
    BatchMax,       \* the most messages one ReceiveMessage returns
    MaxDeliveries,  \* bound of the model
    FaultSets,      \* the environments considered, each a set of fault names
    NoMessage

(***************************************************************************)
(* <call>_fails: the call throws and did nothing.  <call>_reply_lost: it   *)
(* took effect, but the caller sees an error.  slow_batch: a batch takes   *)
(* longer than the 60 s visibility timeout of the queue.  crash: the       *)
(* Lambda times out or dies.  dead_but_done: consumers may have committed  *)
(* the work of a message before it was dead-lettered.  A receive whose     *)
(* reply is lost is a Receive followed by a crash, for the handler throws. *)
(***************************************************************************)
FaultNames ==
    {"receive_fails", "send_fails", "send_reply_lost", "delete_fails",
     "delete_reply_lost", "slow_batch", "crash", "dead_but_done"}

ASSUME ReprocessorAssumption ==
    /\ MaxMessages \in [Replayers -> Nat]
    /\ BatchMax \in Nat \ {0}
    /\ MaxDeliveries \in Nat \ {0}
    /\ FaultSets \subseteq SUBSET FaultNames
    /\ NoMessage \notin Messages
    /\ IsFiniteSet(Messages)

VARIABLES
    faults,      \* the environment of this behaviour, it never changes
    dlq,         \* "visible", "hidden" (received) or "deleted"
    deliveries,  \* how often the DLQ delivered each message
    receiver,    \* the invocation with the latest receipt handle
    sent,        \* copies of each message in the processing queue
    executed,    \* committed executions of the work each message asks for
    consumed,    \* copies the consumer is done with
    pc,          \* "idle", "loop", "delete", "done" or "dead"
    todo,        \* messages of its batch an invocation has not started
    cur,         \* the message it has sent and not yet deleted
    processed, replayed   \* totalProcessed and totalDeleted; totalFailed is
                          \* their difference

queueVars  == <<dlq, deliveries, receiver, sent>>
workVars   == <<executed, consumed, faults>>
counters   == <<processed, replayed>>
vars == <<faults, dlq, deliveries, receiver, sent, executed, consumed,
          pc, todo, cur, processed, replayed>>

Copies == 0 .. MaxDeliveries

TypeOK ==
    /\ faults \in FaultSets
    /\ dlq \in [Messages -> {"visible", "hidden", "deleted"}]
    /\ deliveries \in [Messages -> Copies]
    /\ receiver \in [Messages -> Replayers \cup {NoMessage}]
    /\ sent \in [Messages -> Copies]
    /\ consumed \in [Messages -> Copies]
    /\ executed \in [Messages -> 0 .. MaxDeliveries + 1]
    /\ pc \in [Replayers -> {"idle", "loop", "delete", "done", "dead"}]
    /\ todo \in [Replayers -> SUBSET Messages]
    /\ cur \in [Replayers -> Messages \cup {NoMessage}]
    /\ processed \in [Replayers -> Nat]
    /\ replayed \in [Replayers -> Nat]

Zero == [i \in Replayers |-> 0]

Init ==
    /\ faults \in FaultSets
    /\ dlq = [m \in Messages |-> "visible"]
    /\ deliveries = [m \in Messages |-> 0]
    /\ receiver = [m \in Messages |-> NoMessage]
    /\ sent = [m \in Messages |-> 0]
    /\ consumed = [m \in Messages |-> 0]
    /\ executed \in [Messages -> IF "dead_but_done" \in faults THEN {0, 1} ELSE {0}]
    /\ pc = [i \in Replayers |-> "idle"]
    /\ todo = [i \in Replayers |-> {}]
    /\ cur = [i \in Replayers |-> NoMessage]
    /\ processed = Zero /\ replayed = Zero

(***************************************************************************)
(* The two queues and the consumer.                                        *)
(***************************************************************************)

Holds(i, m) == m \in todo[i] \/ cur[i] = m

\* The visibility timeout of a received message expires: after its invocation
\* left it in the queue or died, or during a slow batch.
Reappear(m) ==
    /\ dlq[m] = "hidden"
    /\ "slow_batch" \in faults \/ \A i \in Replayers : ~Holds(i, m)
    /\ dlq' = [dlq EXCEPT ![m] = "visible"]
    /\ UNCHANGED <<deliveries, receiver, sent, workVars, pc, todo, cur, counters>>

\* The consumer processes a copy: its key is new, so it executes the work.
Consume(m) ==
    /\ consumed[m] < sent[m]
    /\ consumed' = [consumed EXCEPT ![m] = @ + 1]
    /\ executed' = [executed EXCEPT ![m] = @ + 1]
    /\ UNCHANGED <<faults, queueVars, pc, todo, cur, counters>>

(***************************************************************************)
(* One invocation.                                                         *)
(***************************************************************************)

Unlimited(i) == MaxMessages[i] = 0       \* maxMessages || Infinity
BelowLimit(i) == Unlimited(i) \/ processed[i] < MaxMessages[i]

BatchSizeFixed(i) == BatchMax            \* Slip: the rest of the cap is ignored.
BatchSize(i) ==
    IF Unlimited(i) THEN BatchMax ELSE Min({BatchMax, MaxMessages[i] - processed[i]})

Receivable == {m \in Messages : dlq[m] = "visible" /\ deliveries[m] < MaxDeliveries}

Start(i) ==
    /\ pc[i] = "idle"
    /\ pc' = [pc EXCEPT ![i] = "loop"]
    /\ UNCHANGED <<queueVars, workVars, todo, cur, counters>>

Receive(i, b) ==
    /\ pc[i] = "loop" /\ todo[i] = {} /\ BelowLimit(i)
    /\ b # {} /\ Cardinality(b) <= BatchSize(i)
    /\ dlq' = [m \in Messages |-> IF m \in b THEN "hidden" ELSE dlq[m]]
    /\ deliveries' = [m \in Messages |-> IF m \in b THEN deliveries[m] + 1 ELSE deliveries[m]]
    /\ receiver' = [m \in Messages |-> IF m \in b THEN i ELSE receiver[m]]
    /\ todo' = [todo EXCEPT ![i] = b]
    /\ UNCHANGED <<sent, workVars, pc, cur, counters>>

\* The loop ends at the limit, or when a receive returns nothing.
Finish(i) ==
    /\ pc[i] = "loop" /\ todo[i] = {}
    /\ ~BelowLimit(i) \/ Receivable = {}
    /\ pc' = [pc EXCEPT ![i] = "done"]
    /\ UNCHANGED <<queueVars, workVars, todo, cur, counters>>

\* No try block around ReceiveMessage: the handler throws.
ReceiveError(i) ==
    /\ pc[i] = "loop" /\ todo[i] = {} /\ BelowLimit(i)
    /\ "receive_fails" \in faults
    /\ pc' = [pc EXCEPT ![i] = "dead"]
    /\ UNCHANGED <<queueVars, workVars, todo, cur, counters>>

Send(i, m) ==
    /\ pc[i] = "loop" /\ m \in todo[i]
    /\ sent' = [sent EXCEPT ![m] = @ + 1]
    /\ pc' = [pc EXCEPT ![i] = "delete"]
    /\ todo' = [todo EXCEPT ![i] = @ \ {m}]
    /\ cur' = [cur EXCEPT ![i] = m]
    /\ UNCHANGED <<dlq, deliveries, receiver, workVars, counters>>

\* On to the next message; one that is not counted as replayed has failed and
\* is left in the DLQ.
NextMessage(i, m, ok) ==
    /\ pc' = [pc EXCEPT ![i] = "loop"]
    /\ todo' = [todo EXCEPT ![i] = @ \ {m}]
    /\ cur' = [cur EXCEPT ![i] = NoMessage]
    /\ processed' = [processed EXCEPT ![i] = @ + 1]
    /\ replayed' = [replayed EXCEPT ![i] = IF ok THEN @ + 1 ELSE @]
    /\ UNCHANGED workVars

\* Slip: a message whose send failed is deleted all the same.
SendErrorDeletes(i, m) ==
    /\ pc[i] = "loop" /\ m \in todo[i] /\ "send_fails" \in faults
    /\ dlq' = [dlq EXCEPT ![m] = "deleted"]
    /\ NextMessage(i, m, FALSE)
    /\ UNCHANGED <<deliveries, receiver, sent>>

SendError(i, m) ==
    /\ pc[i] = "loop" /\ m \in todo[i]
    /\ \/ "send_fails" \in faults /\ UNCHANGED sent
       \/ "send_reply_lost" \in faults /\ sent' = [sent EXCEPT ![m] = @ + 1]
    /\ NextMessage(i, m, FALSE)
    /\ UNCHANGED <<dlq, deliveries, receiver>>

\* Slip: the DeleteMessage call is missing.
DeleteForgotten(i) ==
    /\ pc[i] = "delete"
    /\ NextMessage(i, cur[i], TRUE)
    /\ UNCHANGED queueVars

\* With a receipt handle that is no longer the latest, SQS accepts the call
\* and may or may not delete the message.
Delete(i) ==
    /\ pc[i] = "delete"
    /\ \/ dlq' = [dlq EXCEPT ![cur[i]] = "deleted"]
       \/ receiver[cur[i]] # i /\ UNCHANGED dlq
    /\ NextMessage(i, cur[i], TRUE)
    /\ UNCHANGED <<deliveries, receiver, sent>>

DeleteError(i) ==
    /\ pc[i] = "delete"
    /\ \/ "delete_fails" \in faults /\ UNCHANGED dlq
       \/ "delete_reply_lost" \in faults /\ dlq' = [dlq EXCEPT ![cur[i]] = "deleted"]
    /\ NextMessage(i, cur[i], FALSE)
    /\ UNCHANGED <<deliveries, receiver, sent>>

Crash(i) ==
    /\ "crash" \in faults
    /\ pc[i] \in {"loop", "delete"}
    /\ pc' = [pc EXCEPT ![i] = "dead"]
    /\ todo' = [todo EXCEPT ![i] = {}]
    /\ cur' = [cur EXCEPT ![i] = NoMessage]
    /\ UNCHANGED <<queueVars, workVars, counters>>

Step(i) ==
    \/ \E b \in SUBSET Receivable : Receive(i, b)
    \/ Finish(i) \/ ReceiveError(i)
    \/ \E m \in Messages : Send(i, m) \/ SendError(i, m)
    \/ Delete(i) \/ DeleteError(i)

Next ==
    \/ \E i \in Replayers : Start(i) \/ Step(i) \/ Crash(i)
    \/ \E m \in Messages : Reappear(m) \/ Consume(m)

Spec == Init /\ [][Next]_vars

\* Lambda runs what was started, SQS keeps its timers, the consumer consumes.
\* Nobody has to start a replay.
FairSpec ==
    /\ Spec
    /\ \A i \in Replayers : WF_vars(Step(i))
    /\ \A m \in Messages : WF_vars(Reappear(m)) /\ WF_vars(Consume(m))

----------------------------------------------------------------------------

\* If the consumer is idempotent, replaying is safe (dlq-reprocessor:27-28):
\* what the comment promises, that no work is done twice.
ReplayIsSafe == \A m \in Messages : executed[m] <= 1

\* A dead letter leaves the DLQ only once a copy of it is in the processing
\* queue: no failure, crash or concurrent replay drops one.
NothingDropped == \A m \in Messages : dlq[m] = "deleted" => sent[m] >= 1

\* Faults after which a message that was sent is found in the DLQ again.
Duplicating == {"send_reply_lost", "delete_fails", "slow_batch", "crash"}

\* Without them, and if dead letters are work that was not done, replaying is
\* safe: by however many invocations, with sends that fail and are retried.
WorkDoneOnce ==
    faults \cap (Duplicating \cup {"dead_but_done"}) = {} => ReplayIsSafe

\* maxMessages caps what an invocation takes on, at any moment of any batch.
CapHolds ==
    \A i \in Replayers : ~Unlimited(i) =>
        processed[i] + Cardinality({m \in Messages : Holds(i, m)}) <= MaxMessages[i]

\* An unlimited replay that is not disturbed drains the queue, and the consumer
\* gets to see every message.
Drains ==
    \A i \in Replayers : \A m \in Messages :
        pc[i] = "loop" /\ Unlimited(i) /\ faults = {} ~>
            dlq[m] = "deleted" /\ consumed[m] = 1
=============================================================================

---------------------------- MODULE ExactlyOnce ----------------------------
(***************************************************************************)
(* What the event pipeline promises for each message of a queue            *)
(* (src/src/shared/sqs-consumer.js:6-17, idempotency.js:7-13): the work it *)
(* asks for is committed once and then the message is deleted, or it is    *)
(* never committed and the message ends in the dead-letter queue.          *)
(*                                                                         *)
(* An environment can break parts of the promise.  slips says which, so    *)
(* that what is left of it is stated for every environment:                *)
(*    repeated: the work may be committed again.                           *)
(*    unworked: a message may be deleted before its work is committed, and *)
(*       whether it still will be is open.                                 *)
(*    redelivered: a deleted message may be delivered once more.           *)
(*    late: a message whose work is committed may be dead-lettered.        *)
(***************************************************************************)
EXTENDS Naturals

CONSTANT Messages

VARIABLES
    status,   \* "unsent", "queued", "deleted" or "dead"
    applied,  \* how often the work of each message was committed
    slips     \* what the environment can break, it never changes

vars == <<status, applied, slips>>

Init ==
    /\ status = [m \in Messages |-> "unsent"]
    /\ applied = [m \in Messages |-> 0]
    /\ slips \subseteq {"repeated", "unworked", "redelivered", "late"}

Publish(m) ==
    /\ status[m] = "unsent"
    /\ status' = [status EXCEPT ![m] = "queued"]
    /\ UNCHANGED <<applied, slips>>

Apply(m) ==
    /\ \/ status[m] = "queued"
       \/ status[m] = "deleted" /\ "unworked" \in slips
    /\ applied[m] = 0 \/ "repeated" \in slips
    /\ applied' = [applied EXCEPT ![m] = @ + 1]
    /\ UNCHANGED <<status, slips>>

\* A batch is acknowledged as a whole.
Acknowledge(S) ==
    /\ \A m \in S : status[m] = "queued" /\ (applied[m] >= 1 \/ "unworked" \in slips)
    /\ status' = [m \in Messages |-> IF m \in S THEN "deleted" ELSE status[m]]
    /\ UNCHANGED <<applied, slips>>

\* A batch is delivered as a whole, too.
Redeliver(S) ==
    /\ "redelivered" \in slips
    /\ \A m \in S : status[m] = "deleted"
    /\ status' = [m \in Messages |-> IF m \in S THEN "queued" ELSE status[m]]
    /\ UNCHANGED <<applied, slips>>

Abandon(m) ==
    /\ status[m] = "queued"
    /\ applied[m] = 0 \/ "late" \in slips
    /\ status' = [status EXCEPT ![m] = "dead"]
    /\ UNCHANGED <<applied, slips>>

Next ==
    \/ \E m \in Messages : Publish(m) \/ Apply(m) \/ Abandon(m)
    \/ \E S \in SUBSET Messages : Acknowledge(S) \/ Redeliver(S)

Spec == Init /\ [][Next]_vars

Advance(m) ==
    /\ status[m] = "queued"
    /\ \/ Apply(m)
       \/ Abandon(m)
       \/ \E S \in SUBSET Messages : m \in S /\ Acknowledge(S)

\* Every message that was sent is taken to its end.
FairSpec == Spec /\ \A m \in Messages : WF_vars(Advance(m))
=============================================================================

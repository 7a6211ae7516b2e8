-------------------------- MODULE BillingPlatform --------------------------
(***************************************************************************)
(* From the HTTP request to the work of the three consumers: the handler   *)
(* of CreateSubscription, the SNS topic that fans its events out to one    *)
(* queue per consumer (terraform/modules/events/main.tf), the consumers,   *)
(* and an operator who replays dead letters.  A queue with its consumer is *)
(* taken for what ExactlyOnce promises of it, with the slips that          *)
(* SqsConsumer proves to be all there are in the environment at hand.      *)
(*                                                                         *)
(* Copies of one event are different messages: each has a messageId of its *)
(* own, and the idempotency key ends in it (sqs-consumer.js:59).           *)
(***************************************************************************)
EXTENDS CreateSubscription, FiniteSets

CONSTANTS
    MaxReceive,          \* maxReceiveCount, each receive commits once at most
    MaxCopies,           \* bound on the copies of one event in one queue
    MaxExtra,            \* bound on the copies beyond the first, in all queues
    Struck,              \* the consumers that the faults of Breaking befall
    DeliveryFaultSets    \* the environments behind the topic

Consumers == {"generate-invoice", "send-notification", "audit-log"}

(***************************************************************************)
(* consumer_fails: a consumer may fail until its message is dead-lettered. *)
(* no_vpc: send-notification cannot reach the database of its wrapper      *)
(* (events/main.tf:145).  sns_duplicate: SNS delivers an event again.      *)
(* delete_fails: a replay sends a dead letter and cannot delete it.        *)
(* mark_fails: markProcessed fails after the commit and the wrapper drops  *)
(* its lock; it stands for all of Unlocking in SqsConsumer.  crash: a      *)
(* consumer dies and leaves its lock; with duplicate_delivery, of SQS, it  *)
(* stands for Orphaning.                                                   *)
(***************************************************************************)
DeliveryFaultNames ==
    {"consumer_fails", "no_vpc", "sns_duplicate", "delete_fails",
     "mark_fails", "crash", "duplicate_delivery"}

Breaking == {"mark_fails", "crash", "duplicate_delivery"}

ASSUME PlatformAssumption ==
    /\ MaxReceive \in Nat \ {0}
    /\ MaxCopies \in Nat \ {0}
    /\ MaxExtra \in Nat
    /\ Struck \subseteq Consumers
    /\ DeliveryFaultSets \subseteq SUBSET DeliveryFaultNames

VARIABLES
    deliveryFaults,    \* the environment behind the topic, it never changes
    topic,             \* <<request, consumer>>: accepted by SNS, not delivered
    status,            \* per consumer, of each message <<request, copy>>
    work               \* per consumer, commits for each message

platformVars == <<vars, deliveryFaults, topic, status, work>>

Messages == Requests \X (1..MaxCopies)

\* replayed: no longer in the dead-letter queue, but sent again as another copy.
Statuses == {"unsent", "queued", "deleted", "dead", "replayed"}

PlatformTypeOK ==
    /\ TypeOK
    /\ deliveryFaults \in DeliveryFaultSets
    /\ topic \subseteq published \X Consumers
    /\ status \in [Consumers -> [Messages -> Statuses]]
    /\ work \in [Consumers -> [Messages -> 0..MaxReceive]]

PlatformInit ==
    /\ Init
    /\ deliveryFaults \in DeliveryFaultSets
    /\ topic = {}
    /\ status = [c \in Consumers |-> [m \in Messages |-> "unsent"]]
    /\ work = [c \in Consumers |-> [m \in Messages |-> 0]]

\* Fault f befalls consumer c.
Befalls(f, c) == f \in deliveryFaults /\ c \in Struck

Broken(c) == \E f \in Breaking : Befalls(f, c)

\* The queue of c may delete a message whose work was not done.
Loses(c) == Befalls("crash", c) \/ Befalls("duplicate_delivery", c)

\* What the environment can break of the promise of a queue: the part of
\* SqsConsumer's Slips that the faults named here stand for.
QueueSlips(c) ==
    {slip \in {"repeated", "unworked", "redelivered", "late"} :
        /\ Broken(c)
        /\ slip = "repeated" => Befalls("mark_fails", c)
        /\ slip = "unworked" => Loses(c)
        /\ slip = "redelivered" => Befalls("duplicate_delivery", c)}

\* One subscription of the topic per consumer; every filter policy admits
\* eventType "subscription.created".
FanOutToInvoices(events) == events \X {"generate-invoice"}
                                         \* Slip: filters that admit too little.
FanOut(events) == events \X Consumers

Handle ==
    /\ Next
    /\ topic' = topic \cup FanOut(published' \ published)
    /\ UNCHANGED <<deliveryFaults, status, work>>

\* Message m moves in the queue of c, and nothing else changes behind it.
SetStatus(c, m, s) ==
    /\ status' = [status EXCEPT ![c][m] = s]
    /\ UNCHANGED <<vars, deliveryFaults, work>>

\* The copy of event r that is sent next to the queue of c.
IsNext(c, r, k) ==
    /\ \A j \in 1..MaxCopies : j < k <=> status[c][<<r, j>>] # "unsent"
    /\ k = 1 \/ Cardinality({cm \in Consumers \X Messages :
           cm[2][2] > 1 /\ status[cm[1]][cm[2]] # "unsent"}) < MaxExtra

Deliver(r, c) ==
    /\ <<r, c>> \in topic
    /\ topic' = topic \ {<<r, c>>}
    /\ SetStatus(c, <<r, 1>>, "queued")

DeliverAgain(r, c) ==
    /\ "sns_duplicate" \in deliveryFaults
    /\ status[c][<<r, 1>>] # "unsent"
    /\ \E k \in 2..MaxCopies : IsNext(c, r, k) /\ SetStatus(c, <<r, k>>, "queued")
    /\ UNCHANGED topic

\* Slip: processMessage runs without acquireIdempotencyLock.
PerformUnlocked(c, m) ==
    /\ status[c][m] = "queued"
    /\ work[c][m] < MaxReceive
    /\ work' = [work EXCEPT ![c][m] = @ + 1]
    /\ UNCHANGED <<vars, deliveryFaults, topic, status>>

\* The wrapper's turn with a message, up to the commit of its work.  A message
\* that is worked already gets there again if its lock was dropped; one that is
\* deleted, if it is still in the hands of another invocation.
Perform(c, m) ==
    /\ \/ status[c][m] = "queued"
       \/ status[c][m] = "deleted" /\ Befalls("duplicate_delivery", c)
    /\ work[c][m] = 0 \/ "repeated" \in QueueSlips(c)
    /\ work[c][m] < MaxReceive
    /\ work' = [work EXCEPT ![c][m] = @ + 1]
    /\ UNCHANGED <<vars, deliveryFaults, topic, status>>

\* invoices.subscription_id REFERENCES subscriptions.
RowExists(m) == m[1] \in subscriptions
GenerateInvoice(m) == RowExists(m) /\ Perform("generate-invoice", m)

Reachable == "no_vpc" \notin deliveryFaults
SendNotification(m) == Reachable /\ Perform("send-notification", m)

WriteAudit(m) == Perform("audit-log", m)

\* The report after a mark, or after a lock that another invocation holds or
\* left behind and that passes for finished work.
Acknowledge(c, m) ==
    /\ status[c][m] = "queued"
    /\ work[c][m] >= 1 \/ "unworked" \in QueueSlips(c)
    /\ SetStatus(c, m, "deleted")
    /\ UNCHANGED topic

Redeliver(c, m) ==
    /\ status[c][m] = "deleted" /\ "redelivered" \in QueueSlips(c)
    /\ SetStatus(c, m, "queued")
    /\ UNCHANGED topic

Hopeless(c, m) ==
    \/ c = "send-notification" /\ ~Reachable
    \/ c = "generate-invoice" /\ ~RowExists(m)

\* maxReceiveCount is exhausted: by failures or crashes, or by as many commits
\* whose mark failed.
DeadLetter(c, m) ==
    /\ status[c][m] = "queued"
    /\ \/ Hopeless(c, m)
       \/ "consumer_fails" \in deliveryFaults \/ Befalls("crash", c)
       \/ Befalls("mark_fails", c) /\ work[c][m] = MaxReceive
    /\ work[c][m] = 0 \/ "late" \in QueueSlips(c)
    /\ SetStatus(c, m, "dead")
    /\ UNCHANGED topic

\* Slip: the delete does not wait for the send to succeed.
ReplayDeletesFirst(c, m) ==
    /\ status[c][m] = "dead"
    /\ SetStatus(c, m, "replayed")
    /\ UNCHANGED topic

\* Slip: the dead letter itself goes back to its queue.
ReplaySame(c, m) ==
    /\ status[c][m] = "dead"
    /\ SetStatus(c, m, "queued")
    /\ UNCHANGED topic

\* dlq-reprocessor: send a copy, then delete the dead letter.
Replay(c, m) ==
    /\ status[c][m] = "dead"
    /\ \E k \in 2..MaxCopies, kept \in BOOLEAN :
          /\ IsNext(c, m[1], k)
          /\ kept => "delete_fails" \in deliveryFaults
          /\ status' = [status EXCEPT ![c] = [@ EXCEPT
                ![<<m[1], k>>] = "queued", ![m] = IF kept THEN "dead" ELSE "replayed"]]
    /\ UNCHANGED <<vars, deliveryFaults, topic, work>>

Advance(c, m) ==
    \/ c = "generate-invoice" /\ GenerateInvoice(m)
    \/ c = "send-notification" /\ SendNotification(m)
    \/ c = "audit-log" /\ WriteAudit(m)
    \/ Acknowledge(c, m)
    \/ DeadLetter(c, m)

PlatformNext ==
    \/ Handle
    \/ \E r \in Requests, c \in Consumers : Deliver(r, c) \/ DeliverAgain(r, c)
    \/ \E c \in Consumers, m \in Messages :
          Advance(c, m) \/ Redeliver(c, m) \/ Replay(c, m)

PlatformSpec == PlatformInit /\ [][PlatformNext]_platformVars

\* Requests are served, SNS delivers what it accepted, and each queue takes its
\* messages to their end.  Nobody has to replay.
PlatformFairSpec ==
    /\ PlatformSpec
    /\ \A r \in Requests :
          WF_platformVars(Serve(r) /\ topic' = topic \cup FanOut(published' \ published)
                  /\ UNCHANGED <<deliveryFaults, status, work>>)
    /\ \A r \in Requests, c \in Consumers : WF_platformVars(Deliver(r, c))
    /\ \A c \in Consumers, m \in Messages :
          WF_platformVars(status[c][m] = "queued" /\ Advance(c, m))

----------------------------------------------------------------------------

\* Copies of the event of r whose work is committed.
Worked(c, r) == {k \in 1..MaxCopies : work[c][<<r, k>>] > 0}

\* Faults that put an event into a queue twice, or leave a dead letter whose work
\* is committed, for somebody to replay.
Multiplied(c) == deliveryFaults \cap {"sns_duplicate", "delete_fails"} # {} \/ Broken(c)

\* Only one invoice is created (generate-invoice/index.js:16), and one entry of
\* each other kind, and only for a committed subscription: as far as that goes.
\* A message is worked once unless a failing mark makes the wrapper drop the lock
\* of committed work (sqs-consumer.js:80-99), however else handler and consumers
\* fail; and one message of an event only is worked, dead letters and their
\* replay included, unless there are more of them (Multiplied).
WorkedOnce ==
    \A c \in Consumers, r \in Requests :
        /\ Worked(c, r) # {} => r \in subscriptions
        /\ ~Befalls("mark_fails", c) => \A k \in Worked(c, r) : work[c][<<r, k>>] = 1
        /\ ~Multiplied(c) => Cardinality(Worked(c, r)) <= 1

\* Event r is on its way to consumer c, in its queue, in its dead-letter queue,
\* or its work is done.
Followed(c, r) ==
    \/ <<r, c>> \in topic
    \/ \E k \in 1..MaxCopies :
          status[c][<<r, k>>] \in {"queued", "dead"} \/ work[c][<<r, k>>] > 0

\* What SNS accepted (create-subscription/index.js:205) is not dropped, also
\* after any number of replays, but by a consumer that crashes or gets a message
\* twice: a lock left or held by another invocation lets it delete the message
\* unworked (run sqs_crash_loses).  The other consumers do not forget it then.
NothingForgotten ==
    \A r \in published, c \in Consumers : Loses(c) \/ Followed(c, r)

Settled(r) ==
    \A c \in Consumers :
        \/ Loses(c)
        \/ \E k \in 1..MaxCopies : status[c][<<r, k>>] = "dead" \/ work[c][<<r, k>>] > 0

\* If nothing separates row and event in the handler, a committed subscription
\* is in time invoiced, announced and audited, or waits as a dead letter: by
\* every consumer that loses no message.
SubscriptionSettled ==
    \A r \in Requests :
        r \in subscriptions /\ faults \cap Separating = {} ~> Settled(r)

StatusIn(c) == [m \in Messages |->
    IF status[c][m] = "replayed" THEN "dead" ELSE status[c][m]]

Invoices == INSTANCE ExactlyOnce WITH
    status <- StatusIn("generate-invoice"), applied <- work["generate-invoice"],
    slips <- QueueSlips("generate-invoice")
Notifications == INSTANCE ExactlyOnce WITH
    status <- StatusIn("send-notification"), applied <- work["send-notification"],
    slips <- QueueSlips("send-notification")
Audits == INSTANCE ExactlyOnce WITH
    status <- StatusIn("audit-log"), applied <- work["audit-log"],
    slips <- QueueSlips("audit-log")

\* Fan-out and replays feed each queue only as ExactlyOnce, the specification
\* of a queue, expects: no message is put back or taken out behind its back.
QueuesKeepPromise == Invoices!Spec /\ Notifications!Spec /\ Audits!Spec
=============================================================================

----------------------- MODULE BillingPlatformProofs -----------------------
(***************************************************************************)
(* Theorems about CreateSubscription and about BillingPlatform, which      *)
(* extends it, for any requests, tenants and bounds, and for every         *)
(* environment of the handler and of the consumers.  What is proved of the *)
(* handler is not proved again for the platform, which implements the      *)
(* specification of the handler and inherits its theorems.                 *)
(***************************************************************************)
EXTENDS BillingPlatform, FiniteSetTheorems, TLAPS

----------------------------------------------------------------------------
(***************************************************************************)
(* The handler on its own.                                                 *)
(***************************************************************************)

\* The state stays well-typed.
LEMMA TypeInit == Init => TypeOK
BY DEF Init, TypeOK, Steps

LEMMA TypeNext == TypeOK /\ [Next]_vars => TypeOK'
<1> SUFFICES ASSUME TypeOK, [Next]_vars PROVE TypeOK'
  OBVIOUS
<1> USE DEF TypeOK, Steps
<1>1. ASSUME NEW r \in Requests, Arrive(r) PROVE TypeOK'
  BY <1>1 DEF Arrive
<1>2. ASSUME NEW r \in Requests, Validate(r) PROVE TypeOK'
  BY <1>2, SubscriptionAssumption DEF Validate, Goto, Answer
<1>3. ASSUME NEW r \in Requests, Check(r) PROVE TypeOK'
  BY <1>3 DEF Check, Existing, Goto, Answer
<1>4. ASSUME NEW r \in Requests, CheckError(r) PROVE TypeOK'
  BY <1>4 DEF CheckError, Answer
<1>5. ASSUME NEW r \in Requests, Insert(r) PROVE TypeOK'
  BY <1>5 DEF Insert, Goto
<1>6. ASSUME NEW r \in Requests, InsertError(r) PROVE TypeOK'
  BY <1>6 DEF InsertError, Answer
<1>7. ASSUME NEW r \in Requests, Publish(r) PROVE TypeOK'
  BY <1>7 DEF Publish, Answer
<1>8. ASSUME NEW r \in Requests, PublishError(r) PROVE TypeOK'
  BY <1>8 DEF PublishError, Answer
<1>9. ASSUME NEW r \in Requests, Crash(r) PROVE TypeOK'
  BY <1>9 DEF Crash, Answer
<1>10. ASSUME NEW r \in Requests, ValidateError(r) PROVE TypeOK'
  BY <1>10 DEF ValidateError, Answer
<1>11. CASE UNCHANGED vars
  BY <1>11 DEF vars
<1>12. QED
  BY <1>1, <1>2, <1>3, <1>4, <1>5, <1>6, <1>7, <1>8, <1>9, <1>10, <1>11
     DEF Next, Serve

\* Type correctness of the handler.
THEOREM TypeCorrect == Spec => []TypeOK
BY TypeInit, TypeNext, PTL DEF Spec

----------------------------------------------------------------------------
(***************************************************************************)
(* Row, event and answer.                                                  *)
(***************************************************************************)

\* Where in the handler a request is that has a row, an event or an answer.
RowInv ==
    \A r \in Requests :
        /\ r \in subscriptions => pc[r] \in {"publish", "done"}
        /\ pc[r] = "publish" => r \in subscriptions
        /\ r \in published => pc[r] = "done" /\ r \in subscriptions
        /\ answer[r] # 0 => pc[r] = "done"

RowEventInv == RowInv /\ AnswersTruthful /\ CommittedIsAnnounced

LEMMA RowEventInit == Init => RowEventInv
BY DEF Init, RowEventInv, RowInv, AnswersTruthful,
   CommittedIsAnnounced

LEMMA RowEventNext ==
    TypeOK /\ RowEventInv /\ [Next]_vars => RowEventInv'
<1> SUFFICES ASSUME TypeOK, RowEventInv, [Next]_vars
             PROVE  RowEventInv'
  OBVIOUS
<1> USE DEF TypeOK, RowEventInv, RowInv, AnswersTruthful,
   CommittedIsAnnounced, Separating
<1>1. ASSUME NEW r \in Requests, Arrive(r) PROVE RowEventInv'
  BY <1>1 DEF Arrive
<1>2. ASSUME NEW r \in Requests, Validate(r) PROVE RowEventInv'
  BY <1>2, SubscriptionAssumption DEF Validate, Goto, Answer
<1>3. ASSUME NEW r \in Requests, Check(r) PROVE RowEventInv'
  BY <1>3 DEF Check, Existing, Goto, Answer
<1>4. ASSUME NEW r \in Requests, CheckError(r) PROVE RowEventInv'
  BY <1>4 DEF CheckError, Answer
<1>5. ASSUME NEW r \in Requests, Insert(r) PROVE RowEventInv'
  BY <1>5 DEF Insert, Goto
<1>6. ASSUME NEW r \in Requests, InsertError(r) PROVE RowEventInv'
  BY <1>6 DEF InsertError, Answer
<1>7. ASSUME NEW r \in Requests, Publish(r) PROVE RowEventInv'
  BY <1>7 DEF Publish, Answer
<1>8. ASSUME NEW r \in Requests, PublishError(r) PROVE RowEventInv'
  BY <1>8 DEF PublishError, Answer
<1>9. ASSUME NEW r \in Requests, Crash(r) PROVE RowEventInv'
  BY <1>9 DEF Crash, Answer
<1>10. ASSUME NEW r \in Requests, ValidateError(r) PROVE RowEventInv'
  BY <1>10 DEF ValidateError, Answer
<1>11. CASE UNCHANGED vars
  BY <1>11 DEF vars
<1>12. QED
  BY <1>1, <1>2, <1>3, <1>4, <1>5, <1>6, <1>7, <1>8, <1>9, <1>10, <1>11
     DEF Next, Serve

\* Only the handler that committed a row publishes its event, and afterwards
\* (transactionWithTenant before sns.send): no event without a row.
THEOREM EventsHaveRowHolds == Spec => []EventsHaveRow
<1>1. TypeOK /\ RowEventInv => EventsHaveRow
  BY DEF TypeOK, RowEventInv, RowInv, EventsHaveRow
<1>2. QED
  BY TypeInit, TypeNext, RowEventInit, RowEventNext, <1>1, PTL
     DEF Spec

\* In every environment a 201 stands for a row and an event, a 400 or 409 for
\* neither, and a 409 for a subscription of the tenant.
THEOREM AnswersTruthfulHolds == Spec => []AnswersTruthful
<1>1. RowEventInv => AnswersTruthful
  BY DEF RowEventInv
<1>2. QED
  BY TypeInit, TypeNext, RowEventInit, RowEventNext, <1>1, PTL
     DEF Spec

\* Unless a commit loses its reply, a publish fails or the Lambda dies, no
\* subscription stays without its event.
THEOREM CommittedIsAnnouncedHolds == Spec => []CommittedIsAnnounced
<1>1. RowEventInv => CommittedIsAnnounced
  BY DEF RowEventInv
<1>2. QED
  BY TypeInit, TypeNext, RowEventInit, RowEventNext, <1>1, PTL
     DEF Spec

----------------------------------------------------------------------------
(***************************************************************************)
(* Two subscriptions of one tenant.  The step that could break the claim   *)
(* is Insert(s): its check ran earlier.  What it saw then still holds for  *)
(* the requests that had ended before s arrived, for an ended request      *)
(* inserts nothing any more.                                               *)
(***************************************************************************)

\* The history variable holds ended requests of the same tenant ...
EndedIsOver ==
    \A s \in Requests : \A r \in endedBefore[s] :
        pc[r] = "done" /\ TenantOf[r] = TenantOf[s] /\ r # s

\* ... and one that has passed its check found no row of theirs.
CheckStillValid ==
    \A s \in Requests : pc[s] = "insert" => endedBefore[s] \cap subscriptions = {}

DupInv == EndedIsOver /\ CheckStillValid /\ DuplicatesOnlyByOverlap

LEMMA DupInvInit == Init => DupInv
BY DEF Init, DupInv, EndedIsOver, CheckStillValid, DuplicatesOnlyByOverlap

LEMMA DupInvNext ==
    TypeOK /\ RowInv /\ DupInv /\ [Next]_vars => DupInv'
<1> SUFFICES ASSUME TypeOK, RowInv, DupInv, [Next]_vars
             PROVE  DupInv'
  OBVIOUS
<1> USE DEF TypeOK, RowInv, DupInv, EndedIsOver, CheckStillValid,
   DuplicatesOnlyByOverlap
<1>1. ASSUME NEW r \in Requests, Arrive(r) PROVE DupInv'
  BY <1>1 DEF Arrive
<1>2. ASSUME NEW r \in Requests, Validate(r) PROVE DupInv'
  BY <1>2, SubscriptionAssumption DEF Validate, Goto, Answer
<1>3. ASSUME NEW r \in Requests, Check(r) PROVE DupInv'
  BY <1>3 DEF Check, Existing, Goto, Answer
<1>4. ASSUME NEW r \in Requests, CheckError(r) PROVE DupInv'
  BY <1>4 DEF CheckError, Answer
<1>5. ASSUME NEW r \in Requests, Insert(r) PROVE DupInv'
  BY <1>5 DEF Insert, Goto
<1>6. ASSUME NEW r \in Requests, InsertError(r) PROVE DupInv'
  BY <1>6 DEF InsertError, Answer
<1>7. ASSUME NEW r \in Requests, Publish(r) PROVE DupInv'
  BY <1>7 DEF Publish, Answer
<1>8. ASSUME NEW r \in Requests, PublishError(r) PROVE DupInv'
  BY <1>8 DEF PublishError, Answer
<1>9. ASSUME NEW r \in Requests, Crash(r) PROVE DupInv'
  BY <1>9 DEF Crash, Answer
<1>10. ASSUME NEW r \in Requests, ValidateError(r) PROVE DupInv'
  BY <1>10 DEF ValidateError, Answer
<1>11. CASE UNCHANGED vars
  BY <1>11 DEF vars
<1>12. QED
  BY <1>1, <1>2, <1>3, <1>4, <1>5, <1>6, <1>7, <1>8, <1>9, <1>10, <1>11
     DEF Next, Serve

\* Two subscriptions of one tenant come from requests that overlapped in time
\* (create-subscription/index.js:99-106), in every environment.
THEOREM DuplicatesOnlyByOverlapHolds == Spec => []DuplicatesOnlyByOverlap
<1>1. DupInv => DuplicatesOnlyByOverlap
  BY DEF DupInv
<1>2. RowEventInv => RowInv
  BY DEF RowEventInv
<1>3. QED
  BY TypeInit, TypeNext, RowEventInit, RowEventNext, DupInvInit, DupInvNext,
     <1>1, <1>2, PTL DEF Spec

----------------------------------------------------------------------------
(***************************************************************************)
(* The handler within the platform.                                        *)
(***************************************************************************)

\* What every step behind the topic leaves alone.
LEMMA BehindTopic ==
    ASSUME NEW c \in Consumers, NEW m \in Messages,
           Advance(c, m) \/ Redeliver(c, m) \/ Replay(c, m)
    PROVE  UNCHANGED <<vars, deliveryFaults, topic>>
BY DEF Advance, GenerateInvoice, SendNotification, WriteAudit, Perform, Acknowledge,
   DeadLetter, Redeliver, Replay, SetStatus

\* Nothing behind the topic touches the state of the handler.
THEOREM HandlerKept == PlatformSpec => Spec
<1>1. PlatformInit => Init
  BY DEF PlatformInit
<1>2. [PlatformNext]_platformVars => [Next]_vars
  BY BehindTopic DEF PlatformNext, platformVars, Handle, Deliver, DeliverAgain, SetStatus
<1>3. QED
  BY <1>1, <1>2, PTL DEF PlatformSpec, Spec

\* The handler keeps its promises with the consumers behind it.
THEOREM HandlerPromises ==
    PlatformSpec => []( /\ TypeOK /\ EventsHaveRow /\ AnswersTruthful
                /\ DuplicatesOnlyByOverlap /\ CommittedIsAnnounced )
BY HandlerKept, TypeCorrect, EventsHaveRowHolds, AnswersTruthfulHolds,
   DuplicatesOnlyByOverlapHolds, CommittedIsAnnouncedHolds, PTL

----------------------------------------------------------------------------
(***************************************************************************)
(* The steps behind the topic, one message at a time: a message moves, or  *)
(* it is worked where it is, or a copy of it is sent.                      *)
(***************************************************************************)

\* What is left of PlatformTypeOK behind the topic.
BackOK ==
    /\ deliveryFaults \in DeliveryFaultSets
    /\ topic \subseteq published \X Consumers
    /\ status \in [Consumers -> [Messages -> Statuses]]
    /\ work \in [Consumers -> [Messages -> 0..MaxReceive]]

\* The only changes the handler makes to the published events.
LEMMA PublishedGrows ==
    Next => published \subseteq published' /\ subscriptions \subseteq subscriptions'
BY DEF Next, Serve, Arrive, Validate, ValidateError, Check,
   CheckError, Insert, InsertError, Publish,
   PublishError, Crash

LEMMA BackInit == PlatformInit => BackOK
BY PlatformAssumption DEF PlatformInit, BackOK, Statuses

\* Message m of c goes to s, all others stay.
Moves(c, m, s) ==
    /\ work' = work
    /\ status' \in [Consumers -> [Messages -> Statuses]]
    /\ \A d \in Consumers, q \in Messages :
          status'[d][q] = IF d = c /\ q = m THEN s ELSE status[d][q]

\* The work of message m of c is committed once more.
Works(c, m) ==
    /\ status' = status
    /\ work' \in [Consumers -> [Messages -> 0..MaxReceive]]
    /\ \A d \in Consumers, q \in Messages :
          work'[d][q] = IF d = c /\ q = m THEN work[d][q] + 1 ELSE work[d][q]

\* A replay: copy k of m is queued, the dead letter stays or goes.
Copies(c, m, k, s) ==
    /\ <<m[1], k>> \in Messages /\ <<m[1], k>> # m
    /\ status[c][<<m[1], k>>] = "unsent" /\ status[c][m] = "dead"
    /\ s = "dead" => "delete_fails" \in deliveryFaults
    /\ work' = work
    /\ status' \in [Consumers -> [Messages -> Statuses]]
    /\ \A d \in Consumers, q \in Messages :
          status'[d][q] = IF d = c /\ q = <<m[1], k>> THEN "queued"
                          ELSE IF d = c /\ q = m THEN s ELSE status[d][q]

LEMMA SetStatusSays ==
    ASSUME BackOK, NEW c \in Consumers, NEW m \in Messages, NEW s \in Statuses,
           SetStatus(c, m, s)
    PROVE  Moves(c, m, s)
BY DEF BackOK, SetStatus, Moves

LEMMA FirstCopy == \A r \in Requests : <<r, 1>> \in Messages
BY PlatformAssumption DEF Messages

LEMMA RequestOf ==
    \A m \in Messages : m = <<m[1], m[2]>> /\ m[1] \in Requests /\ m[2] \in 1..MaxCopies
BY DEF Messages

LEMMA ReplaySays ==
    ASSUME BackOK, NEW c \in Consumers, NEW m \in Messages, Replay(c, m)
    PROVE  \E k \in 2..MaxCopies, s \in {"dead", "replayed"} : Copies(c, m, k, s)
<1>1. PICK k \in 2..MaxCopies, kept \in BOOLEAN :
         /\ IsNext(c, m[1], k)
         /\ kept => "delete_fails" \in deliveryFaults
         /\ status' = [status EXCEPT ![c] = [@ EXCEPT
               ![<<m[1], k>>] = "queued", ![m] = IF kept THEN "dead" ELSE "replayed"]]
  BY DEF Replay
<1>2. k \in 1..MaxCopies /\ <<m[1], k>> \in Messages
  BY RequestOf DEF Messages
<1>3. status[c][<<m[1], k>>] = "unsent" /\ status[c][m] = "dead"
  BY <1>1, <1>2 DEF IsNext, Replay
<1>4. <<m[1], k>> # m
  BY <1>3
<1>5. /\ status' \in [Consumers -> [Messages -> Statuses]]
      /\ \A d \in Consumers, q \in Messages :
            status'[d][q] = IF d = c /\ q = <<m[1], k>> THEN "queued"
                            ELSE IF d = c /\ q = m THEN IF kept THEN "dead" ELSE "replayed"
                            ELSE status[d][q]
  BY <1>1, <1>2, <1>4 DEF BackOK, Statuses
<1>6. work' = work
  BY DEF Replay
<1>7. Copies(c, m, k, IF kept THEN "dead" ELSE "replayed")
  BY <1>1, <1>2, <1>3, <1>4, <1>5, <1>6 DEF Copies
<1>8. QED
  BY <1>7

LEMMA PerformSays ==
    ASSUME BackOK, NEW c \in Consumers, NEW m \in Messages, Perform(c, m)
    PROVE  Works(c, m)
<1> DEFINE n == work[c][m] + 1
<1>1. n \in 0..MaxReceive
  BY PlatformAssumption DEF Perform, BackOK
<1>2. work' = [work EXCEPT ![c][m] = n] /\ status' = status
  BY DEF Perform
<1> HIDE DEF n
<1>3. /\ work' \in [Consumers -> [Messages -> 0..MaxReceive]]
      /\ \A d \in Consumers, q \in Messages :
            work'[d][q] = IF d = c /\ q = m THEN n ELSE work[d][q]
  BY <1>1, <1>2 DEF BackOK
<1>4. QED
  BY <1>2, <1>3 DEF n, Works

\* The ways in which a step behind the topic changes a queue, with what it
\* requires of the message.
Publishes(c, m) ==
    status[c][m] = "unsent" /\ Moves(c, m, "queued")
Applies(c, m) ==
    /\ \/ status[c][m] = "queued"
       \/ status[c][m] = "deleted" /\ Befalls("duplicate_delivery", c)
    /\ work[c][m] = 0 \/ "repeated" \in QueueSlips(c)
    /\ Works(c, m)
Removes(c, m) ==
    /\ status[c][m] = "queued"
    /\ work[c][m] >= 1 \/ "unworked" \in QueueSlips(c)
    /\ Moves(c, m, "deleted")
Returns(c, m) ==
    /\ status[c][m] = "deleted" /\ "redelivered" \in QueueSlips(c)
    /\ Moves(c, m, "queued")
Abandons(c, m) ==
    /\ status[c][m] = "queued"
    /\ work[c][m] = 0 \/ "late" \in QueueSlips(c)
    /\ Moves(c, m, "dead")

Consumes(c, m) == Applies(c, m) \/ Removes(c, m) \/ Returns(c, m) \/ Abandons(c, m)

LEMMA ConsumerSays ==
    ASSUME BackOK, NEW c \in Consumers, NEW m \in Messages,
           Advance(c, m) \/ Redeliver(c, m)
    PROVE  Consumes(c, m)
<1>1. {"queued", "deleted", "dead"} \subseteq Statuses
  BY DEF Statuses
<1>2. CASE Perform(c, m)
  BY <1>2, PerformSays DEF Perform, Consumes, Applies
<1>3. CASE Acknowledge(c, m)
  BY <1>1, <1>3, SetStatusSays DEF Acknowledge, Consumes, Removes
<1>4. CASE Redeliver(c, m)
  BY <1>1, <1>4, SetStatusSays DEF Redeliver, Consumes, Returns
<1>5. CASE DeadLetter(c, m)
  BY <1>1, <1>5, SetStatusSays DEF DeadLetter, Consumes, Abandons
<1>6. QED
  BY <1>2, <1>3, <1>4, <1>5 DEF Advance, GenerateInvoice, SendNotification, WriteAudit

LEMMA DeliverAgainSays ==
    ASSUME BackOK, NEW r \in Requests, NEW c \in Consumers, DeliverAgain(r, c)
    PROVE  /\ UNCHANGED <<vars, deliveryFaults, topic>>
           /\ "sns_duplicate" \in deliveryFaults
           /\ status[c][<<r, 1>>] # "unsent"
           /\ \E k \in 1..MaxCopies : <<r, k>> \in Messages /\ Publishes(c, <<r, k>>)
<1>1. PICK k \in 2..MaxCopies : IsNext(c, r, k) /\ SetStatus(c, <<r, k>>, "queued")
  BY DEF DeliverAgain
<1>2. k \in 1..MaxCopies /\ <<r, k>> \in Messages
  BY DEF Messages
<1>3. status[c][<<r, k>>] = "unsent"
  BY <1>1, <1>2 DEF IsNext
<1>4. Publishes(c, <<r, k>>)
  BY <1>1, <1>2, <1>3, SetStatusSays DEF Publishes, Statuses
<1>5. QED
  BY <1>1, <1>2, <1>4 DEF DeliverAgain, SetStatus

----------------------------------------------------------------------------
(***************************************************************************)
(* Where an event is.  Until it is published, and until SNS has delivered  *)
(* it, no queue has a copy; from then on some copy is in a queue, or is    *)
(* worked, as long as the queue deletes none that is not.                  *)
(***************************************************************************)

NotYet ==
    \A c \in Consumers, r \in Requests :
        r \notin published \/ <<r, c>> \in topic =>
            \A k \in 1..MaxCopies : status[c][<<r, k>>] = "unsent"

\* Which messages are worked, and how often.
WorkAt ==
    \A c \in Consumers, m \in Messages :
        /\ status[c][m] = "unsent" => work[c][m] = 0
        /\ ~Befalls("mark_fails", c) => work[c][m] <= 1
        /\ ~Loses(c) /\ status[c][m] = "deleted" => work[c][m] >= 1
        /\ ~Broken(c) /\ status[c][m] \in {"dead", "replayed"} => work[c][m] = 0

TInv == BackOK /\ NotYet /\ WorkAt /\ NothingForgotten

LEMMA TInvInit == PlatformInit => TInv
BY BackInit DEF PlatformInit, Init, TInv, NotYet, WorkAt, NothingForgotten, Messages

LEMMA TInvServe == ASSUME TInv, Handle PROVE TInv'
<1>1. published \subseteq published'
  BY PublishedGrows DEF Handle
<1>2. topic' = topic \cup ((published' \ published) \X Consumers)
  BY DEF Handle, FanOut
<1>3. deliveryFaults' = deliveryFaults /\ status' = status /\ work' = work
  BY DEF Handle
<1>4. BackOK'
  BY <1>1, <1>2, <1>3 DEF TInv, BackOK
<1>5. NotYet' /\ WorkAt'
  BY <1>1, <1>2, <1>3 DEF TInv, NotYet, WorkAt, Befalls, Loses, Broken
<1>6. ASSUME NEW r \in published', NEW c \in Consumers, ~Loses(c)'
      PROVE  Followed(c, r)'
  <2>1. CASE r \in published
    BY <1>2, <1>3, <1>6, <2>1 DEF TInv, NothingForgotten, Followed, Loses, Befalls
  <2>2. CASE r \notin published
    BY <1>2, <1>6, <2>2 DEF Followed
  <2>3. QED
    BY <2>1, <2>2
<1>7. QED
  BY <1>4, <1>5, <1>6 DEF TInv, NothingForgotten

\* A step that leaves the topic or takes one event from it, and that leaves
\* everything but queue c alone.
LEMMA TInvQueue ==
    ASSUME TypeOK, TInv, NEW c \in Consumers, NEW r \in Requests,
           BackOK', WorkAt', published' = published, deliveryFaults' = deliveryFaults,
           topic' \subseteq topic, r \in published, <<r, c>> \notin topic',
           \A d \in Consumers, q \in Requests :
               <<q, d>> \in topic => <<q, d>> \in topic' \/ (d = c /\ q = r),
           \A d \in Consumers, q \in Requests, j \in 1..MaxCopies :
               d # c \/ q # r => /\ status'[d][<<q, j>>] = status[d][<<q, j>>]
                                 /\ work'[d][<<q, j>>] = work[d][<<q, j>>],
           Loses(c) \/ \E j \in 1..MaxCopies :
               status'[c][<<r, j>>] \in {"queued", "dead"} \/ work'[c][<<r, j>>] > 0
    PROVE  TInv'
<1>1. NotYet'
  BY DEF TInv, NotYet
<1>2. ASSUME NEW q \in published', NEW d \in Consumers, ~Loses(d)'
      PROVE  Followed(d, q)'
  <2>1. q \in Requests /\ q \in published /\ ~Loses(d)
    BY <1>2 DEF TypeOK, Loses, Befalls
  <2>2. CASE d = c /\ q = r
    BY <2>1, <2>2 DEF Followed
  <2>3. CASE d # c \/ q # r
    BY <2>1, <2>3 DEF TInv, NothingForgotten, Followed
  <2>4. QED
    BY <2>2, <2>3
<1>3. QED
  BY <1>1, <1>2 DEF TInv, NothingForgotten

\* SNS puts a message into a queue.
LEMMA TInvPublish ==
    ASSUME TypeOK, TInv, NEW c \in Consumers, NEW r \in Requests,
           NEW k \in 1..MaxCopies, Publishes(c, <<r, k>>),
           published' = published, deliveryFaults' = deliveryFaults,
           topic' \subseteq topic, r \in published, <<r, c>> \notin topic',
           \A d \in Consumers, q \in Requests :
               <<q, d>> \in topic => <<q, d>> \in topic' \/ (d = c /\ q = r)
    PROVE  TInv'
<1>1. <<r, k>> \in Messages
  BY DEF Messages
<1>2. BackOK'
  BY DEF TInv, BackOK, Publishes, Moves
<1>3. WorkAt'
  BY <1>1 DEF TInv, WorkAt, Publishes, Moves, Befalls, Loses, Broken
<1>4. \A d \in Consumers, q \in Requests, j \in 1..MaxCopies :
         /\ d # c \/ q # r => /\ status'[d][<<q, j>>] = status[d][<<q, j>>]
                              /\ work'[d][<<q, j>>] = work[d][<<q, j>>]
  BY DEF Messages, Publishes, Moves
<1>5. status'[c][<<r, k>>] = "queued"
  BY <1>1 DEF Publishes, Moves
<1>6. QED
  BY <1>2, <1>3, <1>4, <1>5, TInvQueue

\* A consumer, or its queue, moves or works a message.
LEMMA TInvConsume ==
    ASSUME TypeOK, TInv, NEW c \in Consumers, NEW m \in Messages, Consumes(c, m),
           UNCHANGED <<vars, deliveryFaults, topic>>
    PROVE  TInv'
<1> USE DEF Consumes, Applies, Removes, Returns, Abandons, Moves, Works
<1> DEFINE r == m[1]
           k == m[2]
<1>1. m = <<r, k>> /\ r \in Requests /\ k \in 1..MaxCopies
  BY RequestOf
<1>2. published' = published /\ deliveryFaults' = deliveryFaults /\ topic' = topic
  BY DEF vars
<1>3. BackOK'
  BY <1>2 DEF TInv, BackOK
<1>4. WorkAt'
  <2> SUFFICES ASSUME NEW d \in Consumers, NEW q \in Messages
               PROVE  /\ status'[d][q] = "unsent" => work'[d][q] = 0
                      /\ ~Befalls("mark_fails", d) => work'[d][q] <= 1
                      /\ ~Loses(d) /\ status'[d][q] = "deleted" => work'[d][q] >= 1
                      /\ ~Broken(d) /\ status'[d][q] \in {"dead", "replayed"}
                            => work'[d][q] = 0
    BY <1>2 DEF WorkAt, Befalls, Loses, Broken
  <2>1. work[d][q] \in Nat
    BY PlatformAssumption DEF TInv, BackOK
  <2>2. CASE d # c \/ q # m
    BY <2>2 DEF TInv, WorkAt
  <2>3. CASE d = c /\ q = m
    BY <2>1, <2>3 DEF TInv, WorkAt, QueueSlips
  <2>4. QED
    BY <2>2, <2>3
<1>5. \A d \in Consumers, q \in Requests, j \in 1..MaxCopies :
         d # c \/ q # r => /\ status'[d][<<q, j>>] = status[d][<<q, j>>]
                           /\ work'[d][<<q, j>>] = work[d][<<q, j>>]
  BY <1>1 DEF Messages
<1>6. r \in published /\ <<r, c>> \notin topic
  BY <1>1 DEF TInv, NotYet
<1>7. Loses(c) \/ status'[c][m] \in {"queued", "dead"} \/ work'[c][m] > 0
  <2>1. work[c][m] \in Nat
    BY PlatformAssumption DEF TInv, BackOK
  <2>2. QED
    BY <2>1 DEF QueueSlips
<1> HIDE DEF r, k
<1>8. QED
  BY <1>1, <1>2, <1>3, <1>4, <1>5, <1>6, <1>7, TInvQueue

LEMMA TInvReplay ==
    ASSUME TypeOK, TInv, NEW c \in Consumers, NEW m \in Messages, Replay(c, m)
    PROVE  TInv'
<1>1. PICK k \in 2..MaxCopies, s \in {"dead", "replayed"} : Copies(c, m, k, s)
  BY ReplaySays DEF TInv
<1>2. k \in 1..MaxCopies /\ m[1] \in Requests /\ m[2] \in 1..MaxCopies /\ m = <<m[1], m[2]>>
  BY RequestOf
<1>3. published' = published /\ topic' = topic /\ deliveryFaults' = deliveryFaults
  BY BehindTopic DEF vars
<1>4. BackOK'
  BY <1>1, <1>3 DEF TInv, BackOK, Copies
<1>5. WorkAt'
  BY <1>1, <1>3 DEF TInv, WorkAt, Copies, Befalls, Loses, Broken
<1>6. /\ \A d \in Consumers, q \in Requests, j \in 1..MaxCopies :
            d # c \/ q # m[1] => /\ status'[d][<<q, j>>] = status[d][<<q, j>>]
                                 /\ work'[d][<<q, j>>] = work[d][<<q, j>>]
      /\ status'[c][<<m[1], k>>] = "queued"
  BY <1>1, <1>2 DEF Messages, Copies
<1>7. m[1] \in published /\ <<m[1], c>> \notin topic
  BY <1>1, <1>2 DEF TInv, NotYet, Copies
<1>8. QED
  BY <1>2, <1>3, <1>4, <1>5, <1>6, <1>7, TInvQueue

LEMMA TInvNext == TypeOK /\ TInv /\ [PlatformNext]_platformVars => TInv'
<1> SUFFICES ASSUME TypeOK, TInv, [PlatformNext]_platformVars PROVE TInv'
  OBVIOUS
<1>1. CASE Handle
  BY <1>1, TInvServe
<1>2. ASSUME NEW r \in Requests, NEW c \in Consumers, Deliver(r, c) PROVE TInv'
  <2>1. SetStatus(c, <<r, 1>>, "queued") /\ topic' = topic \ {<<r, c>>}
        /\ published' = published /\ deliveryFaults' = deliveryFaults
    BY <1>2 DEF Deliver, SetStatus, vars
  <2>2. r \in published /\ 1 \in 1..MaxCopies /\ <<r, 1>> \in Messages
    BY <1>2, PlatformAssumption, FirstCopy DEF Deliver, TInv, BackOK
  <2>3. Publishes(c, <<r, 1>>)
    BY <1>2, <2>1, <2>2, SetStatusSays DEF Deliver, TInv, NotYet, Publishes, Statuses
  <2>4. QED
    BY <2>1, <2>2, <2>3, TInvPublish
<1>3. ASSUME NEW r \in Requests, NEW c \in Consumers, DeliverAgain(r, c) PROVE TInv'
  <2>1. PICK k \in 1..MaxCopies : Publishes(c, <<r, k>>)
    BY <1>3, DeliverAgainSays DEF TInv
  <2>2. published' = published /\ deliveryFaults' = deliveryFaults /\ topic' = topic
    BY <1>3, DeliverAgainSays DEF TInv, vars
  <2>3. r \in published /\ <<r, c>> \notin topic
    BY <1>3, PlatformAssumption DEF DeliverAgain, TInv, NotYet
  <2>4. QED
    BY <2>1, <2>2, <2>3, TInvPublish
<1>4. ASSUME NEW c \in Consumers, NEW m \in Messages, Advance(c, m) \/ Redeliver(c, m)
      PROVE  TInv'
  BY <1>4, ConsumerSays, BehindTopic, TInvConsume DEF TInv
<1>5. ASSUME NEW c \in Consumers, NEW m \in Messages, Replay(c, m) PROVE TInv'
  BY <1>5, TInvReplay
<1>6. CASE UNCHANGED platformVars
  <2>1. published' = published /\ deliveryFaults' = deliveryFaults /\ topic' = topic
        /\ status' = status /\ work' = work
    BY <1>6 DEF platformVars, vars
  <2>2. BackOK' /\ NotYet' /\ WorkAt' /\ NothingForgotten'
    BY <2>1 DEF TInv, BackOK, NotYet, WorkAt, NothingForgotten, Followed,
       Befalls, Loses, Broken
  <2>3. QED
    BY <2>2 DEF TInv
<1>7. QED
  BY <1>1, <1>2, <1>3, <1>4, <1>5, <1>6 DEF PlatformNext

LEMMA TInvHolds == PlatformSpec => [](TypeOK /\ EventsHaveRow /\ TInv)
<1>1. PlatformSpec => [](TypeOK /\ EventsHaveRow)
  BY HandlerPromises, PTL
<1>2. QED
  BY <1>1, TInvInit, TInvNext, PTL DEF PlatformSpec

\* Type correctness of the platform.
THEOREM PlatformTypeCorrect == PlatformSpec => []PlatformTypeOK
<1>1. TypeOK /\ TInv => PlatformTypeOK
  BY DEF TInv, BackOK, PlatformTypeOK
<1>2. QED
  BY TInvHolds, <1>1, PTL

\* What SNS accepted is not dropped: for every consumer that neither crashes nor
\* gets a message twice, the event is on its way, in the queue, in the
\* dead-letter queue, or its work is done, however often dead letters are
\* replayed, whatever copies SNS adds and whatever befalls the other consumers.
THEOREM NothingForgottenHolds == PlatformSpec => []NothingForgotten
<1>1. TInv => NothingForgotten
  BY DEF TInv
<1>2. QED
  BY TInvHolds, <1>1, PTL

\* What a client may expect of r: no consumer forgets it unless it loses messages.
Expected(r) == \A c \in Consumers : Loses(c) \/ Followed(c, r)

\* From end to end: a client who was answered 201 has a subscription that every
\* consumer works for, or has waiting, but for consumers that crash or get a
\* message twice; and unless row and event were separated, so has whoever has a
\* subscription, whatever the answer was.  Of SubscriptionSettled, what needs no
\* fairness.
THEOREM EndToEndHolds ==
    PlatformSpec =>
        [](\A r \in Requests :
             /\ answer[r] = 201 => r \in subscriptions /\ Expected(r)
             /\ r \in subscriptions /\ pc[r] = "done" /\ faults \cap Separating = {} => Expected(r))
<1>1. AnswersTruthful /\ CommittedIsAnnounced /\ NothingForgotten =>
          \A r \in Requests :
             /\ answer[r] = 201 => r \in subscriptions /\ Expected(r)
             /\ r \in subscriptions /\ pc[r] = "done" /\ faults \cap Separating = {} => Expected(r)
  <2> SUFFICES ASSUME AnswersTruthful, CommittedIsAnnounced, NothingForgotten,
                      NEW r \in Requests
               PROVE  /\ answer[r] = 201 => r \in subscriptions /\ Expected(r)
                      /\ r \in subscriptions /\ pc[r] = "done" /\ faults \cap Separating = {} =>
                            Expected(r)
    BY Zenon
  <2>1. r \in published => Expected(r)
    BY DEF NothingForgotten, Expected
  <2>2. answer[r] = 201 => r \in subscriptions /\ r \in published
    BY DEF AnswersTruthful
  <2>3. r \in subscriptions /\ pc[r] = "done" /\ faults \cap Separating = {} => r \in published
    BY DEF CommittedIsAnnounced
  <2>4. QED
    BY <2>1, <2>2, <2>3
<1>2. QED
  BY HandlerPromises, NothingForgottenHolds, <1>1, PTL

----------------------------------------------------------------------------
(***************************************************************************)
(* One copy.  For a consumer whose messages are not Multiplied, at most    *)
(* one copy of an event is anywhere but replayed: a replay sends the next  *)
(* one only as it takes the dead letter away.                              *)
(***************************************************************************)

Live == {"queued", "deleted", "dead"}

OneCopy(c) ==
    \A r \in Requests : \A j, k \in 1..MaxCopies :
        status[c][<<r, j>>] \in Live /\ status[c][<<r, k>>] \in Live => j = k

OInv == \A c \in Consumers : ~Multiplied(c) => OneCopy(c)

LEMMA OInvInit == PlatformInit => OInv
BY DEF PlatformInit, OInv, OneCopy, Live, Messages

\* A message that moves while it is live, or while no copy of its event is.
LEMMA OneCopyMove ==
    ASSUME OInv, NEW c \in Consumers, NEW r \in Requests,
           NEW k \in 1..MaxCopies, NEW s \in Statuses, Moves(c, <<r, k>>, s),
           deliveryFaults' = deliveryFaults,
           \/ status[c][<<r, k>>] \in Live
           \/ \A j \in 1..MaxCopies : status[c][<<r, j>>] \notin Live
    PROVE  OInv'
<1>1. \A d \in Consumers, q \in Requests, j \in 1..MaxCopies :
         status'[d][<<q, j>>] = IF d = c /\ q = r /\ j = k THEN s ELSE status[d][<<q, j>>]
  BY DEF Messages, Moves
<1>2. \A d \in Consumers : OneCopy(d) => OneCopy(d)'
  BY <1>1 DEF OneCopy
<1>3. QED
  BY <1>2 DEF OInv, Multiplied, Broken, Befalls

LEMMA OneCopyReplay ==
    ASSUME BackOK, OInv, NEW c \in Consumers, NEW m \in Messages, Replay(c, m)
    PROVE  OInv'
<1>1. PICK k \in 2..MaxCopies, s \in {"dead", "replayed"} : Copies(c, m, k, s)
  BY ReplaySays
<1>2. k \in 1..MaxCopies /\ m[1] \in Requests /\ m[2] \in 1..MaxCopies /\ m = <<m[1], m[2]>>
  BY RequestOf
<1>3. \A d \in Consumers : Multiplied(d)' = Multiplied(d)
  BY BehindTopic DEF Multiplied, Broken, Befalls
<1>4. \A d \in Consumers, q \in Requests, j \in 1..MaxCopies :
         status'[d][<<q, j>>] =
             IF d = c /\ q = m[1] /\ j = k THEN "queued"
             ELSE IF d = c /\ q = m[1] /\ j = m[2] THEN s
             ELSE status[d][<<q, j>>]
  BY <1>1, <1>2 DEF Copies, Messages
<1>5. ASSUME NEW d \in Consumers, ~Multiplied(d)  PROVE OneCopy(d)'
  <2>1. OneCopy(d)
    BY <1>5 DEF OInv
  <2>2. CASE d # c
    BY <1>4, <2>1, <2>2 DEF OneCopy
  <2>3. CASE d = c
    <3>1. s = "replayed"
      BY <1>1, <1>5, <2>3 DEF Copies, Multiplied
    <3>2. status[c][<<m[1], m[2]>>] \in Live
      BY <1>1, <1>2 DEF Copies, Live
    <3>3. \A j \in 1..MaxCopies : j # m[2] => status[c][<<m[1], j>>] \notin Live
      BY <1>2, <2>1, <2>3, <3>2 DEF OneCopy
    <3>4. \A j \in 1..MaxCopies : status'[c][<<m[1], j>>] \in Live => j = k
      BY <1>2, <1>4, <3>1, <3>3 DEF Live
    <3>5. QED
      BY <1>2, <1>4, <2>1, <2>3, <3>4 DEF OneCopy
  <2>4. QED
    BY <2>2, <2>3
<1>6. QED
  BY <1>3, <1>5 DEF OInv

LEMMA OInvNext == TInv /\ OInv /\ [PlatformNext]_platformVars => OInv'
<1> SUFFICES ASSUME TInv, OInv, [PlatformNext]_platformVars PROVE OInv'
  OBVIOUS
<1>0. BackOK
  BY DEF TInv
<1>1. CASE UNCHANGED <<status, deliveryFaults>>
  BY <1>1 DEF OInv, OneCopy, Multiplied, Broken, Befalls
<1>2. ASSUME NEW r \in Requests, NEW c \in Consumers, Deliver(r, c) PROVE OInv'
  <2>1. SetStatus(c, <<r, 1>>, "queued") /\ deliveryFaults' = deliveryFaults
        /\ 1 \in 1..MaxCopies /\ "queued" \in Statuses
    BY <1>2, PlatformAssumption DEF Deliver, SetStatus, Statuses
  <2>2. \A j \in 1..MaxCopies : status[c][<<r, j>>] \notin Live
    BY <1>2 DEF Deliver, TInv, NotYet, Live
  <2>3. Moves(c, <<r, 1>>, "queued")
    BY <1>0, <2>1, FirstCopy, SetStatusSays
  <2>4. QED
    BY <2>1, <2>2, <2>3, OneCopyMove
<1>3. ASSUME NEW r \in Requests, NEW c \in Consumers, DeliverAgain(r, c) PROVE OInv'
  <2>1. deliveryFaults' = deliveryFaults /\ "sns_duplicate" \in deliveryFaults
    BY <1>0, <1>3, DeliverAgainSays
  <2>2. \A d \in Consumers : Multiplied(d)'
    BY <2>1 DEF Multiplied
  <2>3. QED
    BY <2>2 DEF OInv
<1>4. ASSUME NEW c \in Consumers, NEW m \in Messages, Advance(c, m) \/ Redeliver(c, m)
      PROVE  OInv'
  <2>1. Consumes(c, m) /\ deliveryFaults' = deliveryFaults
    BY <1>0, <1>4, ConsumerSays, BehindTopic
  <2>2. CASE Applies(c, m)
    BY <1>1, <2>1, <2>2 DEF Applies, Works
  <2>3. CASE Removes(c, m) \/ Returns(c, m) \/ Abandons(c, m)
    <3>1. PICK s \in {"queued", "deleted", "dead"} : Moves(c, m, s)
      BY <2>3 DEF Removes, Returns, Abandons
    <3>2. m[1] \in Requests /\ m[2] \in 1..MaxCopies /\ m = <<m[1], m[2]>>
      BY RequestOf
    <3>3. s \in Statuses /\ status[c][m] \in Live
      BY <2>3 DEF Removes, Returns, Abandons, Statuses, Live
    <3>4. QED
      BY <2>1, <3>1, <3>2, <3>3, OneCopyMove
  <2>4. QED
    BY <2>1, <2>2, <2>3 DEF Consumes
<1>5. ASSUME NEW c \in Consumers, NEW m \in Messages, Replay(c, m) PROVE OInv'
  BY <1>0, <1>5, OneCopyReplay
<1>6. QED
  BY <1>1, <1>2, <1>3, <1>4, <1>5 DEF PlatformNext, platformVars, Handle

\* Work is only done for committed subscriptions; once for each message of a
\* consumer whose marks do not fail after the commit; and for one message only of
\* each event, dead letters and their replay included, unless SNS, a failing
\* delete of the reprocessor or a fault of the consumer multiplies it.
THEOREM WorkedOnceHolds == PlatformSpec => []WorkedOnce
<1>1. TypeOK /\ EventsHaveRow /\ TInv /\ OInv => WorkedOnce
  <2> SUFFICES ASSUME EventsHaveRow, TInv, OInv,
                      NEW c \in Consumers, NEW r \in Requests
               PROVE  /\ Worked(c, r) # {} => r \in subscriptions
                      /\ ~Befalls("mark_fails", c) =>
                            \A k \in Worked(c, r) : work[c][<<r, k>>] = 1
                      /\ ~Multiplied(c) => Cardinality(Worked(c, r)) <= 1
    BY DEF WorkedOnce
  <2>0. \A k \in Worked(c, r) : /\ k \in 1..MaxCopies /\ <<r, k>> \in Messages
                                /\ work[c][<<r, k>>] \in 0..MaxReceive
                                /\ work[c][<<r, k>>] > 0
    BY DEF Worked, Messages, TInv, BackOK
  <2>1. Worked(c, r) # {} => r \in subscriptions
    <3>1. ASSUME NEW k \in Worked(c, r) PROVE r \in published
      <4>1. status[c][<<r, k>>] # "unsent"
        BY <2>0 DEF TInv, WorkAt
      <4>2. QED
        BY <2>0, <4>1 DEF TInv, NotYet
    <3>2. QED
      BY <3>1 DEF EventsHaveRow
  <2>2. ASSUME ~Befalls("mark_fails", c), NEW k \in Worked(c, r)
        PROVE  work[c][<<r, k>>] = 1
    <3>1. work[c][<<r, k>>] <= 1
      BY <2>0, <2>2 DEF TInv, WorkAt
    <3>2. QED
      BY <2>0, <3>1, PlatformAssumption
  <2>3. ASSUME ~Multiplied(c) PROVE Cardinality(Worked(c, r)) <= 1
    <3>1. CASE Worked(c, r) = {}
      BY <3>1, FS_EmptySet
    <3>2. CASE Worked(c, r) # {}
      <4>1. PICK k \in Worked(c, r) : TRUE
        BY <3>2
      <4>2. \A j \in Worked(c, r) : status[c][<<r, j>>] \in Live
        <5>1. ~Broken(c)
          BY <2>3 DEF Multiplied
        <5>2. QED
          BY <2>0, <5>1 DEF TInv, BackOK, WorkAt, Live, Statuses
      <4>3. \A j \in Worked(c, r) : j = k
        BY <2>0, <2>3, <4>1, <4>2 DEF OInv, OneCopy
      <4>4. Worked(c, r) = {k}
        BY <4>1, <4>3
      <4>5. Cardinality({k}) = 1
        BY FS_Singleton, Zenon
      <4>6. QED
        BY <4>4, <4>5
    <3>3. QED
      BY <3>1, <3>2
  <2>4. QED
    BY <2>1, <2>2, <2>3
<1>2. QED
  BY TInvHolds, OInvInit, OInvNext, <1>1, PTL DEF PlatformSpec

----------------------------------------------------------------------------
(***************************************************************************)
(* The queues.  Seen through StatusIn, a step of the platform is a step of *)
(* ExactlyOnce in one queue and none in the others: Deliver, DeliverAgain  *)
(* and Replay publish a message, Perform applies it, Acknowledge,          *)
(* Redeliver and DeadLetter are its other actions.                         *)
(***************************************************************************)

Q(d) == INSTANCE ExactlyOnce WITH
    status <- StatusIn(d), applied <- work[d], slips <- QueueSlips(d)

QueueStep(d) == [Q(d)!Next]_(Q(d)!vars)

\* A queue that no message moves in, and none is worked in, stutters.
LEMMA QueueStutters ==
    ASSUME BackOK, BackOK', NEW d \in Consumers, QueueSlips(d)' = QueueSlips(d),
           \A q \in Messages : status'[d][q] = status[d][q] /\ work'[d][q] = work[d][q]
    PROVE  QueueStep(d)
<1>1. StatusIn(d)' = StatusIn(d)
  BY DEF StatusIn
<1>2. work[d]' = work[d]
  BY DEF BackOK
<1>3. QED
  BY <1>1, <1>2 DEF QueueStep, Q!vars

\* The picture of one message that moves.
LEMMA QueueMoves ==
    ASSUME NEW d \in Consumers, NEW m \in Messages, NEW s \in Statuses \ {"replayed"},
           Moves(d, m, s)
    PROVE  StatusIn(d)' = [StatusIn(d) EXCEPT ![m] = s] /\ work[d]' = work[d]
BY DEF StatusIn, Moves

\* An unsent message that is queued is published.
LEMMA QueuePublishes ==
    ASSUME NEW d \in Consumers, NEW m \in Messages, Publishes(d, m),
           QueueSlips(d)' = QueueSlips(d)
    PROVE  QueueStep(d)
<1>1. StatusIn(d)[m] = "unsent"
  BY DEF StatusIn, Publishes
<1>2. StatusIn(d)' = [StatusIn(d) EXCEPT ![m] = "queued"] /\ work[d]' = work[d]
  BY QueueMoves DEF Statuses, Publishes
<1>3. Q(d)!Publish(m)
  BY <1>1, <1>2 DEF Q!Publish
<1>4. QED
  BY <1>3 DEF QueueStep, Q!Next

\* What a consumer or its queue does with a message are the other actions.
LEMMA QueueConsumes ==
    ASSUME BackOK, NEW d \in Consumers, NEW m \in Messages, Consumes(d, m),
           QueueSlips(d)' = QueueSlips(d)
    PROVE  QueueStep(d)
<1>1. StatusIn(d)[m] = IF status[d][m] = "replayed" THEN "dead" ELSE status[d][m]
  BY DEF StatusIn
<1>2. CASE Applies(d, m)
  <2>1. StatusIn(d)' = StatusIn(d)
    BY <1>2 DEF StatusIn, Applies, Works
  <2>2. work[d]' = [work[d] EXCEPT ![m] = @ + 1]
    BY <1>2 DEF Applies, Works, BackOK
  <2>3. \/ StatusIn(d)[m] = "queued"
        \/ StatusIn(d)[m] = "deleted" /\ "unworked" \in QueueSlips(d)
    BY <1>1, <1>2 DEF Applies, QueueSlips, Loses, Broken, Breaking
  <2>4. Q(d)!Apply(m)
    BY <1>2, <2>1, <2>2, <2>3 DEF Applies, Q!Apply
  <2>5. QED
    BY <2>4 DEF QueueStep, Q!Next
<1>3. CASE Removes(d, m)
  <2>1. StatusIn(d)' = [StatusIn(d) EXCEPT ![m] = "deleted"] /\ work[d]' = work[d]
    BY <1>3, QueueMoves DEF Removes, Statuses
  <2>2. StatusIn(d)' = [q \in Messages |-> IF q \in {m} THEN "deleted" ELSE StatusIn(d)[q]]
    BY <2>1 DEF StatusIn
  <2>3. Q(d)!Acknowledge({m})
    BY <1>1, <1>3, <2>1, <2>2 DEF Removes, Q!Acknowledge
  <2>4. QED
    BY <2>3 DEF QueueStep, Q!Next
<1>4. CASE Returns(d, m)
  <2>1. StatusIn(d)' = [StatusIn(d) EXCEPT ![m] = "queued"] /\ work[d]' = work[d]
    BY <1>4, QueueMoves DEF Returns, Statuses
  <2>2. StatusIn(d)' = [q \in Messages |-> IF q \in {m} THEN "queued" ELSE StatusIn(d)[q]]
    BY <2>1 DEF StatusIn
  <2>3. Q(d)!Redeliver({m})
    BY <1>1, <1>4, <2>1, <2>2 DEF Returns, Q!Redeliver
  <2>4. QED
    BY <2>3 DEF QueueStep, Q!Next
<1>5. CASE Abandons(d, m)
  <2>1. StatusIn(d)' = [StatusIn(d) EXCEPT ![m] = "dead"] /\ work[d]' = work[d]
    BY <1>5, QueueMoves DEF Abandons, Statuses
  <2>2. Q(d)!Abandon(m)
    BY <1>1, <1>5, <2>1 DEF Abandons, Q!Abandon
  <2>3. QED
    BY <2>2 DEF QueueStep, Q!Next
<1>6. QED
  BY <1>2, <1>3, <1>4, <1>5 DEF Consumes

\* A replay publishes the copy; the dead letter it came from looks abandoned
\* before and after.
LEMMA QueueReplays ==
    ASSUME BackOK, NEW d \in Consumers, NEW m \in Messages, Replay(d, m),
           QueueSlips(d)' = QueueSlips(d)
    PROVE  QueueStep(d)
<1>1. PICK k \in 2..MaxCopies, s \in {"dead", "replayed"} : Copies(d, m, k, s)
  BY ReplaySays
<1> DEFINE copy == <<m[1], k>>
<1>2. copy \in Messages /\ status[d][copy] = "unsent" /\ status[d][m] = "dead"
      /\ work[d]' = work[d]
  BY <1>1 DEF Copies
<1>3. \A q \in Messages : status'[d][q] = IF q = copy THEN "queued"
                                          ELSE IF q = m THEN s ELSE status[d][q]
  BY <1>1 DEF Copies
<1> HIDE DEF copy
<1>4. StatusIn(d)' = [StatusIn(d) EXCEPT ![copy] = "queued"]
  BY <1>2, <1>3 DEF StatusIn
<1>5. StatusIn(d)[copy] = "unsent"
  BY <1>2 DEF StatusIn
<1>6. Q(d)!Publish(copy)
  BY <1>2, <1>4, <1>5 DEF Q!Publish
<1>7. QED
  BY <1>2, <1>6 DEF QueueStep, Q!Next

LEMMA QueueNext ==
    ASSUME TInv, TInv', [PlatformNext]_platformVars, NEW d \in Consumers
    PROVE  QueueStep(d)
<1>0. BackOK /\ BackOK'
  BY DEF TInv
<1>1. QueueSlips(d)' = QueueSlips(d)
  <2>1. deliveryFaults' = deliveryFaults
    BY BehindTopic DEF PlatformNext, platformVars, Handle, Deliver, DeliverAgain, SetStatus
  <2>2. QED
    BY <2>1 DEF QueueSlips, Loses, Broken, Befalls
<1>2. CASE UNCHANGED <<status, work>>
  BY <1>0, <1>1, <1>2, QueueStutters
<1>3. ASSUME NEW c \in Consumers, NEW m \in Messages, Publishes(c, m)  PROVE QueueStep(d)
  <2>1. CASE c = d
    BY <1>1, <1>3, <2>1, QueuePublishes
  <2>2. CASE c # d
    <3>1. \A q \in Messages : status'[d][q] = status[d][q] /\ work'[d][q] = work[d][q]
      BY <1>3, <2>2 DEF Publishes, Moves
    <3>2. QED
      BY <1>0, <1>1, <3>1, QueueStutters
  <2>3. QED
    BY <2>1, <2>2
<1>4. ASSUME NEW r \in Requests, NEW c \in Consumers, Deliver(r, c) PROVE QueueStep(d)
  <2>1. <<r, 1>> \in Messages /\ 1 \in 1..MaxCopies /\ "queued" \in Statuses
    BY FirstCopy, PlatformAssumption DEF Statuses
  <2>2. SetStatus(c, <<r, 1>>, "queued") /\ status[c][<<r, 1>>] = "unsent"
    BY <1>4, <2>1 DEF Deliver, TInv, NotYet
  <2>3. Publishes(c, <<r, 1>>)
    BY <1>0, <2>1, <2>2, SetStatusSays DEF Publishes
  <2>4. QED
    BY <1>3, <2>1, <2>3
<1>5. ASSUME NEW r \in Requests, NEW c \in Consumers, DeliverAgain(r, c)
      PROVE  QueueStep(d)
  BY <1>0, <1>3, <1>5, DeliverAgainSays
<1>6. ASSUME NEW c \in Consumers, NEW m \in Messages, Advance(c, m) \/ Redeliver(c, m)
      PROVE  QueueStep(d)
  <2>1. Consumes(c, m)
    BY <1>0, <1>6, ConsumerSays
  <2>2. CASE c = d
    BY <1>0, <1>1, <2>1, <2>2, QueueConsumes
  <2>3. CASE c # d
    <3>1. \A q \in Messages : status'[d][q] = status[d][q] /\ work'[d][q] = work[d][q]
      BY <2>1, <2>3 DEF Consumes, Applies, Removes, Returns, Abandons, Moves, Works
    <3>2. QED
      BY <1>0, <1>1, <3>1, QueueStutters
  <2>4. QED
    BY <2>2, <2>3
<1>7. ASSUME NEW c \in Consumers, NEW m \in Messages, Replay(c, m) PROVE QueueStep(d)
  <2>1. CASE c = d
    BY <1>0, <1>1, <1>7, <2>1, QueueReplays
  <2>2. CASE c # d
    <3>1. PICK k \in 2..MaxCopies, s \in {"dead", "replayed"} : Copies(c, m, k, s)
      BY <1>0, <1>7, ReplaySays
    <3>2. \A q \in Messages : status'[d][q] = status[d][q] /\ work'[d][q] = work[d][q]
      BY <2>2, <3>1 DEF Copies
    <3>3. QED
      BY <1>0, <1>1, <3>2, QueueStutters
  <2>3. QED
    BY <2>1, <2>2
<1>8. CASE Handle
  BY <1>2, <1>8 DEF Handle
<1>9. CASE UNCHANGED platformVars
  BY <1>2, <1>9 DEF platformVars
<1>10. QED
  BY <1>4, <1>5, <1>6, <1>7, <1>8, <1>9 DEF PlatformNext

LEMMA QueueInit == ASSUME PlatformInit, NEW d \in Consumers PROVE Q(d)!Init
<1>1. \A m \in Messages : status[d][m] = "unsent"
  BY DEF PlatformInit
<1>2. work[d] = [m \in Messages |-> 0]
  BY DEF PlatformInit
<1>3. QED
  BY <1>1, <1>2 DEF Q!Init, StatusIn, QueueSlips

\* The fan-out and the replays feed each consumer's queue only as ExactlyOnce,
\* the specification of a queue, expects: messages are published once each, and
\* never put back or taken out behind the consumer's back.
THEOREM QueuesKeepPromiseHolds == PlatformSpec => QueuesKeepPromise
<1>1. PlatformInit => Invoices!Init /\ Notifications!Init /\ Audits!Init
  BY QueueInit DEF Consumers, Q!Init, Invoices!Init, Notifications!Init, Audits!Init
<1>2. ASSUME TInv, TInv', [PlatformNext]_platformVars
      PROVE  /\ [Invoices!Next]_(Invoices!vars)
             /\ [Notifications!Next]_(Notifications!vars)
             /\ [Audits!Next]_(Audits!vars)
  <2>1. \A d \in Consumers : QueueStep(d)
    BY <1>2, QueueNext
  <2>2. /\ QueueStep("generate-invoice") /\ QueueStep("send-notification")
        /\ QueueStep("audit-log")
    BY <2>1 DEF Consumers
  <2>3. [Invoices!Next]_(Invoices!vars)
    BY <2>2 DEF QueueStep, Q!Next, Q!vars, Q!Publish, Q!Apply, Q!Abandon, Q!Acknowledge,
       Q!Redeliver, Invoices!Next, Invoices!vars, Invoices!Publish, Invoices!Apply,
       Invoices!Abandon, Invoices!Acknowledge, Invoices!Redeliver
  <2>4. [Notifications!Next]_(Notifications!vars)
    BY <2>2 DEF QueueStep, Q!Next, Q!vars, Q!Publish, Q!Apply, Q!Abandon, Q!Acknowledge,
       Q!Redeliver, Notifications!Next, Notifications!vars, Notifications!Publish,
       Notifications!Apply, Notifications!Abandon, Notifications!Acknowledge,
       Notifications!Redeliver
  <2>5. [Audits!Next]_(Audits!vars)
    BY <2>2 DEF QueueStep, Q!Next, Q!vars, Q!Publish, Q!Apply, Q!Abandon, Q!Acknowledge,
       Q!Redeliver, Audits!Next, Audits!vars, Audits!Publish, Audits!Apply,
       Audits!Abandon, Audits!Acknowledge, Audits!Redeliver
  <2>6. QED
    BY <2>3, <2>4, <2>5
<1>3. QED
  BY TInvHolds, <1>1, <1>2, PTL
     DEF PlatformSpec, QueuesKeepPromise, Invoices!Spec, Notifications!Spec, Audits!Spec
=============================================================================

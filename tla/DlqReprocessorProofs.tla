------------------------- MODULE DlqReprocessorProofs -------------------------
(***************************************************************************)
(* Theorems about DlqReprocessor, for any dead letters, number of          *)
(* concurrent invocations, caps and batch sizes, and for every environment.*)
(***************************************************************************)
EXTENDS DlqReprocessor, FiniteSetTheorems, TLAPS

\* The invocations that have received m and not started it: each delivery
\* leads to one send at most.
Pending(m) == {i \in Replayers : m \in todo[i]}

\* Only between its send and its delete is an invocation at a message.
CurOK ==
    \A i \in Replayers :
        IF pc[i] = "delete" THEN cur[i] \in Messages ELSE cur[i] = NoMessage

\* TypeOK without the bounds that follow from Counted.
Shape ==
    /\ faults \in FaultSets
    /\ dlq \in [Messages -> {"visible", "hidden", "deleted"}]
    /\ deliveries \in [Messages -> Copies]
    /\ receiver \in [Messages -> Replayers \cup {NoMessage}]
    /\ sent \in [Messages -> Nat]
    /\ consumed \in [Messages -> Nat]
    /\ executed \in [Messages -> Nat]
    /\ pc \in [Replayers -> {"idle", "loop", "delete", "done", "dead"}]
    /\ todo \in [Replayers -> SUBSET Messages]
    /\ cur \in [Replayers -> Messages \cup {NoMessage}]
    /\ processed \in [Replayers -> Nat]
    /\ replayed \in [Replayers -> Nat]

SInv == Shape /\ CurOK

LEMMA SInvInit == Init => SInv
BY ReprocessorAssumption DEF Init, SInv, Shape, CurOK, Copies, Zero

LEMMA SInvNext == SInv /\ [Next]_vars => SInv'
<1> SUFFICES ASSUME SInv, [Next]_vars PROVE SInv'
  OBVIOUS
<1> USE ReprocessorAssumption DEF SInv, Shape, CurOK, Copies, queueVars, workVars, counters
<1>1. ASSUME NEW i \in Replayers, Start(i) PROVE SInv'
  BY <1>1 DEF Start
<1>2. ASSUME NEW i \in Replayers, NEW b \in SUBSET Receivable, Receive(i, b)
      PROVE SInv'
  BY <1>2 DEF Receive, Receivable
<1>3. ASSUME NEW i \in Replayers, Finish(i) PROVE SInv'
  BY <1>3 DEF Finish
<1>4. ASSUME NEW i \in Replayers, ReceiveError(i) PROVE SInv'
  BY <1>4 DEF ReceiveError
<1>5. ASSUME NEW i \in Replayers, NEW m \in Messages, Send(i, m) PROVE SInv'
  BY <1>5 DEF Send
<1>6. ASSUME NEW i \in Replayers, NEW m \in Messages, SendError(i, m)
      PROVE SInv'
  BY <1>6 DEF SendError, NextMessage
<1>7. ASSUME NEW i \in Replayers, Delete(i) PROVE SInv'
  BY <1>7 DEF Delete, NextMessage
<1>8. ASSUME NEW i \in Replayers, DeleteError(i) PROVE SInv'
  BY <1>8 DEF DeleteError, NextMessage
<1>9. ASSUME NEW i \in Replayers, Crash(i) PROVE SInv'
  BY <1>9 DEF Crash
<1>10. ASSUME NEW m \in Messages, Reappear(m) PROVE SInv'
  BY <1>10 DEF Reappear
<1>11. ASSUME NEW m \in Messages, Consume(m) PROVE SInv'
  BY <1>11 DEF Consume
<1>12. CASE UNCHANGED vars
  BY <1>12 DEF vars
<1>13. QED
  BY <1>1, <1>2, <1>3, <1>4, <1>5, <1>6, <1>7, <1>8, <1>9, <1>10, <1>11, <1>12
     DEF Next, Step

\* Every copy stands for one delivery, every execution for one copy or for the
\* work done before the message was dead-lettered.
CountedAt(m) ==
    /\ IsFiniteSet(Pending(m))
    /\ sent[m] + Cardinality(Pending(m)) <= deliveries[m]
    /\ consumed[m] <= sent[m]
    /\ executed[m] <= consumed[m] + 1

Counted == \A m \in Messages : CountedAt(m)

\* Forgetting pending messages never breaks the count.
LEMMA CountedFewer ==
    ASSUME SInv, NEW m \in Messages, CountedAt(m), Pending(m)' \subseteq Pending(m),
           sent'[m] = sent[m], deliveries'[m] = deliveries[m],
           consumed'[m] = consumed[m], executed'[m] = executed[m]
    PROVE  CountedAt(m)'
<1>1. IsFiniteSet(Pending(m)') /\ Cardinality(Pending(m)') <= Cardinality(Pending(m))
  BY FS_Subset DEF CountedAt
<1>2. Cardinality(Pending(m)') \in Nat /\ Cardinality(Pending(m)) \in Nat
  BY <1>1, FS_CardinalityType DEF CountedAt
<1>3. sent[m] + Cardinality(Pending(m)') <= deliveries[m]
  BY <1>1, <1>2 DEF CountedAt, SInv, Shape, Copies
<1>4. QED
  BY <1>1, <1>3 DEF CountedAt

\* A message that is started is no longer pending, and sent at most once.
LEMMA CountedStarted ==
    ASSUME SInv, NEW i \in Replayers, NEW m \in Messages, CountedAt(m), m \in todo[i],
           Pending(m)' = Pending(m) \ {i},
           sent'[m] \in {sent[m], sent[m] + 1}, deliveries'[m] = deliveries[m],
           consumed'[m] = consumed[m], executed'[m] = executed[m]
    PROVE  CountedAt(m)'
<1>1. i \in Pending(m)
  BY DEF Pending
<1>2. /\ IsFiniteSet(Pending(m)')
      /\ Cardinality(Pending(m)') = Cardinality(Pending(m)) - 1
  BY <1>1, FS_RemoveElement DEF CountedAt
<1>3. Cardinality(Pending(m)') \in Nat /\ Cardinality(Pending(m)) \in Nat
  BY <1>2, FS_CardinalityType DEF CountedAt
<1>4. sent'[m] + Cardinality(Pending(m)') <= deliveries[m] /\ consumed[m] <= sent'[m]
  BY <1>2, <1>3 DEF CountedAt, SInv, Shape, Copies
<1>5. QED
  BY <1>2, <1>4 DEF CountedAt

\* A delivery adds one pending message.
LEMMA CountedReceived ==
    ASSUME SInv, NEW i \in Replayers, NEW m \in Messages, CountedAt(m), m \notin todo[i],
           Pending(m)' = Pending(m) \cup {i},
           sent'[m] = sent[m], deliveries'[m] = deliveries[m] + 1,
           consumed'[m] = consumed[m], executed'[m] = executed[m]
    PROVE  CountedAt(m)'
<1>1. i \notin Pending(m)
  BY DEF Pending
<1>2. /\ IsFiniteSet(Pending(m)')
      /\ Cardinality(Pending(m)') = Cardinality(Pending(m)) + 1
  BY <1>1, FS_AddElement DEF CountedAt
<1>3. Cardinality(Pending(m)) \in Nat
  BY FS_CardinalityType DEF CountedAt
<1>4. sent[m] + Cardinality(Pending(m)') <= deliveries'[m]
  BY <1>2, <1>3 DEF CountedAt, SInv, Shape, Copies
<1>5. QED
  BY <1>2, <1>4 DEF CountedAt

LEMMA CountedInit == Init => Counted
<1> SUFFICES ASSUME Init, NEW m \in Messages PROVE CountedAt(m)
  BY DEF Counted
<1>1. Pending(m) = {}
  BY DEF Init, Pending
<1>2. QED
  BY <1>1, FS_EmptySet DEF Init, CountedAt

LEMMA CountedNext == SInv /\ Counted /\ [Next]_vars => Counted'
<1> SUFFICES ASSUME SInv, Counted, [Next]_vars, NEW q \in Messages PROVE CountedAt(q)'
  BY DEF Counted
<1>0. CountedAt(q)
  BY DEF Counted
<1> DEFINE Same == /\ sent'[q] = sent[q] /\ deliveries'[q] = deliveries[q]
                   /\ consumed'[q] = consumed[q] /\ executed'[q] = executed[q]
<1> USE DEF queueVars, workVars, counters
<1>1. ASSUME Same, UNCHANGED todo PROVE CountedAt(q)'
  BY <1>0, <1>1, CountedFewer DEF Pending
<1>2. ASSUME NEW i \in Replayers, Start(i) \/ Finish(i) \/ ReceiveError(i)
      PROVE CountedAt(q)'
  BY <1>1, <1>2 DEF Start, Finish, ReceiveError
<1>3. ASSUME NEW i \in Replayers, NEW b \in SUBSET Receivable, Receive(i, b)
      PROVE CountedAt(q)'
  <2>1. \A j \in Replayers : todo'[j] = IF j = i THEN b ELSE todo[j]
    BY <1>3 DEF Receive, SInv, Shape
  <2>2. CASE q \in b
    <3>1. Pending(q)' = Pending(q) \cup {i} /\ q \notin todo[i]
      BY <1>3, <2>1, <2>2 DEF Receive, Pending
    <3>2. QED
      BY <1>0, <1>3, <2>2, <3>1, CountedReceived DEF Receive
  <2>3. CASE q \notin b
    <3>1. Pending(q)' \subseteq Pending(q)
      BY <2>1, <2>3 DEF Pending
    <3>2. QED
      BY <1>0, <1>3, <2>3, <3>1, CountedFewer DEF Receive
  <2>4. QED
    BY <2>2, <2>3
<1>4. ASSUME NEW i \in Replayers, NEW m \in Messages, Send(i, m) \/ SendError(i, m)
      PROVE CountedAt(q)'
  <2>1. \A j \in Replayers : todo'[j] = IF j = i THEN todo[j] \ {m} ELSE todo[j]
    BY <1>4 DEF Send, SendError, NextMessage, SInv, Shape
  <2>2. /\ sent' \in {sent, [sent EXCEPT ![m] = @ + 1]} /\ m \in todo[i]
        /\ UNCHANGED <<deliveries, consumed, executed>>
    BY <1>4 DEF Send, SendError, NextMessage
  <2>3. CASE q = m
    <3>1. Pending(q)' = Pending(q) \ {i}
      BY <2>1, <2>3 DEF Pending
    <3>2. sent'[q] \in {sent[q], sent[q] + 1}
      BY <2>2, <2>3 DEF SInv, Shape
    <3>3. QED
      BY <1>0, <2>2, <2>3, <3>1, <3>2, CountedStarted
  <2>4. CASE q # m
    <3>1. Pending(q)' \subseteq Pending(q)
      BY <2>1 DEF Pending
    <3>2. sent'[q] = sent[q]
      BY <2>2, <2>4 DEF SInv, Shape
    <3>3. QED
      BY <1>0, <2>2, <3>1, <3>2, CountedFewer
  <2>5. QED
    BY <2>3, <2>4
<1>5. ASSUME NEW i \in Replayers, Delete(i) \/ DeleteError(i) \/ Crash(i)
      PROVE CountedAt(q)'
  <2>1. \A j \in Replayers : todo'[j] \subseteq todo[j]
    BY <1>5 DEF Delete, DeleteError, NextMessage, Crash, SInv, Shape
  <2>2. Pending(q)' \subseteq Pending(q)
    BY <2>1 DEF Pending
  <2>3. Same
    BY <1>5 DEF Delete, DeleteError, NextMessage, Crash
  <2>4. QED
    BY <1>0, <2>2, <2>3, CountedFewer
<1>6. ASSUME NEW m \in Messages, Reappear(m) PROVE CountedAt(q)'
  BY <1>1, <1>6 DEF Reappear
<1>7. ASSUME NEW m \in Messages, Consume(m) PROVE CountedAt(q)'
  <2>1. Pending(q)' = Pending(q)
    BY <1>7 DEF Consume, Pending
  <2>2. QED
    BY <1>0, <1>7, <2>1 DEF Consume, CountedAt, SInv, Shape
<1>8. CASE UNCHANGED vars
  BY <1>1, <1>8 DEF vars
<1>9. QED
  BY <1>2, <1>3, <1>4, <1>5, <1>6, <1>7, <1>8 DEF Next, Step

LEMMA CountedHolds == Spec => [](SInv /\ Counted)
BY SInvInit, SInvNext, CountedInit, CountedNext, PTL DEF Spec

\* Type correctness of the reprocessor: a dead letter is sent at most as often
\* as the queue delivers it, also by concurrent invocations in slow batches.
THEOREM TypeCorrect == Spec => []TypeOK
<1>1. SInv /\ Counted => TypeOK
  <2> SUFFICES ASSUME SInv, Counted PROVE TypeOK
    OBVIOUS
  <2>1. ASSUME NEW m \in Messages
        PROVE  sent[m] \in Copies /\ consumed[m] \in Copies
               /\ executed[m] \in 0 .. MaxDeliveries + 1
    <3>1. CountedAt(m) /\ Cardinality(Pending(m)) \in Nat
      BY FS_CardinalityType DEF Counted, CountedAt
    <3>2. QED
      BY <3>1, ReprocessorAssumption DEF CountedAt, SInv, Shape, Copies
  <2>2. QED
    BY <2>1 DEF SInv, Shape, TypeOK
<1>2. QED
  BY CountedHolds, <1>1, PTL

----------------------------------------------------------------------------
(***************************************************************************)
(* Nothing is dropped, whatever fails.                                     *)
(***************************************************************************)

\* What an invocation is about to delete was sent.
SentFirst == \A i \in Replayers : pc[i] = "delete" => sent[cur[i]] >= 1

NInv == SentFirst /\ NothingDropped

LEMMA NInvInit == Init => NInv
BY DEF Init, NInv, SentFirst, NothingDropped

LEMMA NInvNext == SInv /\ NInv /\ [Next]_vars => NInv'
<1> SUFFICES ASSUME SInv, NInv, [Next]_vars PROVE NInv'
  OBVIOUS
<1> USE DEF SInv, Shape, CurOK, queueVars, workVars, counters, NInv, SentFirst,
        NothingDropped
<1>1. ASSUME NEW i \in Replayers, Start(i) PROVE NInv'
  BY <1>1 DEF Start
<1>2. ASSUME NEW i \in Replayers, NEW b \in SUBSET Receivable, Receive(i, b)
      PROVE NInv'
  BY <1>2 DEF Receive, Receivable
<1>3. ASSUME NEW i \in Replayers, Finish(i) PROVE NInv'
  BY <1>3 DEF Finish
<1>4. ASSUME NEW i \in Replayers, ReceiveError(i) PROVE NInv'
  BY <1>4 DEF ReceiveError
<1>5. ASSUME NEW i \in Replayers, NEW m \in Messages, Send(i, m) PROVE NInv'
  BY <1>5 DEF Send
<1>6. ASSUME NEW i \in Replayers, NEW m \in Messages, SendError(i, m)
      PROVE NInv'
  BY <1>6 DEF SendError, NextMessage
<1>7. ASSUME NEW i \in Replayers, Delete(i) PROVE NInv'
  BY <1>7 DEF Delete, NextMessage
<1>8. ASSUME NEW i \in Replayers, DeleteError(i) PROVE NInv'
  BY <1>8 DEF DeleteError, NextMessage
<1>9. ASSUME NEW i \in Replayers, Crash(i) PROVE NInv'
  BY <1>9 DEF Crash
<1>10. ASSUME NEW m \in Messages, Reappear(m) PROVE NInv'
  BY <1>10 DEF Reappear
<1>11. ASSUME NEW m \in Messages, Consume(m) PROVE NInv'
  BY <1>11 DEF Consume
<1>12. CASE UNCHANGED vars
  BY <1>12 DEF vars
<1>13. QED
  BY <1>1, <1>2, <1>3, <1>4, <1>5, <1>6, <1>7, <1>8, <1>9, <1>10, <1>11, <1>12
     DEF Next, Step

\* Whatever fails, dies or runs concurrently, a dead letter is gone from its
\* queue only if a copy of it was sent to the processing queue before.
THEOREM NothingDroppedHolds == Spec => []NothingDropped
<1>1. NInv => NothingDropped
  BY DEF NInv
<1>2. QED
  BY SInvInit, SInvNext, NInvInit, NInvNext, <1>1, PTL DEF Spec

----------------------------------------------------------------------------
(***************************************************************************)
(* Work is done once, without the faults of Duplicating: the latest        *)
(* receiver of a message is the only one that holds it, and what it sent   *)
(* is deleted before anyone can receive it again.                          *)
(***************************************************************************)

HeldOnce ==
    \A m \in Messages :
        /\ executed[m] = consumed[m] /\ consumed[m] <= sent[m] /\ sent[m] <= 1
        /\ dlq[m] = "visible" => sent[m] = 0
        /\ dlq[m] = "hidden" /\ (\A i \in Replayers : ~Holds(i, m)) => sent[m] = 0
        /\ \A i \in Replayers :
              /\ Holds(i, m) => dlq[m] = "hidden" /\ receiver[m] = i
              /\ m \in todo[i] => sent[m] = 0

HInv == faults \cap (Duplicating \cup {"dead_but_done"}) = {} => HeldOnce

\* An environment stays what it is.
LEMMA FaultsFixed == [Next]_vars => faults' = faults
BY DEF Next, Step, vars, Start, Receive, Finish, ReceiveError, Send, SendError,
   NextMessage, Delete, DeleteError, Crash, Reappear, Consume, workVars

LEMMA HInvInit == Init => HInv
BY ReprocessorAssumption DEF Init, HInv, HeldOnce, Holds, Duplicating

LEMMA HInvNext == SInv /\ HInv /\ [Next]_vars => HInv'
<1> SUFFICES ASSUME SInv, HeldOnce, [Next]_vars,
                    faults \cap (Duplicating \cup {"dead_but_done"}) = {}
             PROVE  HeldOnce'
  BY FaultsFixed DEF HInv
<1> USE ReprocessorAssumption DEF SInv, Shape, CurOK, queueVars, workVars, counters,
        HeldOnce, Holds, Duplicating
<1>1. ASSUME NEW i \in Replayers, Start(i) PROVE HeldOnce'
  BY <1>1 DEF Start
<1>2. ASSUME NEW i \in Replayers, NEW b \in SUBSET Receivable, Receive(i, b)
      PROVE HeldOnce'
  BY <1>2 DEF Receive, Receivable
<1>3. ASSUME NEW i \in Replayers, Finish(i) PROVE HeldOnce'
  BY <1>3 DEF Finish
<1>4. ASSUME NEW i \in Replayers, ReceiveError(i) PROVE HeldOnce'
  BY <1>4 DEF ReceiveError
<1>5. ASSUME NEW i \in Replayers, NEW m \in Messages, Send(i, m)
      PROVE HeldOnce'
  BY <1>5 DEF Send
<1>6. ASSUME NEW i \in Replayers, NEW m \in Messages, SendError(i, m)
      PROVE HeldOnce'
  BY <1>6 DEF SendError, NextMessage
<1>7. ASSUME NEW i \in Replayers, Delete(i) PROVE HeldOnce'
  BY <1>7 DEF Delete, NextMessage
<1>8. ASSUME NEW i \in Replayers, DeleteError(i) PROVE HeldOnce'
  BY <1>8 DEF DeleteError, NextMessage
<1>9. ASSUME NEW i \in Replayers, Crash(i) PROVE HeldOnce'
  BY <1>9 DEF Crash
<1>10. ASSUME NEW m \in Messages, Reappear(m) PROVE HeldOnce'
  BY <1>10 DEF Reappear
<1>11. ASSUME NEW m \in Messages, Consume(m) PROVE HeldOnce'
  BY <1>11 DEF Consume
<1>12. CASE UNCHANGED vars
  BY <1>12 DEF vars
<1>13. QED
  BY <1>1, <1>2, <1>3, <1>4, <1>5, <1>6, <1>7, <1>8, <1>9, <1>10, <1>11, <1>12
     DEF Next, Step

\* If sends fail, receives fail, or the reply of a delete is lost, concurrent
\* replays of work that was not done before lead to one execution at most.
THEOREM WorkDoneOnceHolds == Spec => []WorkDoneOnce
<1>1. SInv /\ HInv => WorkDoneOnce
  BY DEF SInv, Shape, HInv, HeldOnce, WorkDoneOnce, ReplayIsSafe
<1>2. QED
  BY SInvInit, SInvNext, HInvInit, HInvNext, <1>1, PTL DEF Spec

----------------------------------------------------------------------------
(***************************************************************************)
(* The cap.  The last batch is cut to what is left of it.                  *)
(***************************************************************************)

Held(i) == {m \in Messages : Holds(i, m)}

LEMMA MinIsSmallest ==
    ASSUME NEW a \in Nat, NEW b \in Nat
    PROVE  Min({a, b}) \in {a, b} /\ Min({a, b}) <= a /\ Min({a, b}) <= b
BY DEF Min

LEMMA HeldFinite == \A i \in Replayers : IsFiniteSet(Held(i)) /\ Cardinality(Held(i)) \in Nat
<1> SUFFICES ASSUME NEW i \in Replayers
             PROVE  IsFiniteSet(Held(i)) /\ Cardinality(Held(i)) \in Nat
  OBVIOUS
<1>1. Held(i) \in SUBSET Messages
  BY DEF Held
<1>2. QED
  BY <1>1, ReprocessorAssumption, FS_Subset, FS_CardinalityType

\* Holding no more than before keeps the cap.
LEMMA CapFewer ==
    ASSUME SInv, CapHolds, NEW i \in Replayers, Held(i)' \subseteq Held(i),
           processed'[i] = processed[i], ~Unlimited(i)
    PROVE  processed'[i] + Cardinality(Held(i)') <= MaxMessages[i]
<1>1. /\ Cardinality(Held(i)') <= Cardinality(Held(i))
      /\ Cardinality(Held(i)') \in Nat /\ Cardinality(Held(i)) \in Nat
  BY HeldFinite, FS_Subset, FS_CardinalityType
<1>2. processed[i] + Cardinality(Held(i)) <= MaxMessages[i]
  BY DEF CapHolds, Held
<1>3. QED
  BY <1>1, <1>2, ReprocessorAssumption DEF SInv, Shape

\* A message that is counted as processed is no longer held.
LEMMA CapNext ==
    ASSUME SInv, CapHolds, NEW i \in Replayers, NEW m \in Held(i),
           Held(i)' = Held(i) \ {m},
           processed'[i] = processed[i] + 1, ~Unlimited(i)
    PROVE  processed'[i] + Cardinality(Held(i)') <= MaxMessages[i]
<1>1. /\ Cardinality(Held(i)') = Cardinality(Held(i)) - 1
      /\ Cardinality(Held(i)) \in Nat
  BY HeldFinite, FS_RemoveElement
<1>2. processed[i] + Cardinality(Held(i)) <= MaxMessages[i]
  BY DEF CapHolds, Held
<1>3. QED
  BY <1>1, <1>2, ReprocessorAssumption DEF SInv, Shape

LEMMA CapReceive ==
    ASSUME SInv, CapHolds, NEW i \in Replayers, NEW b \in SUBSET Receivable,
           Receive(i, b), ~Unlimited(i)
    PROVE  processed'[i] + Cardinality(Held(i)') <= MaxMessages[i]
<1> USE ReprocessorAssumption DEF SInv, Shape, CurOK
<1>1. processed[i] < MaxMessages[i] /\ MaxMessages[i] - processed[i] \in Nat
  <2>1. processed[i] < MaxMessages[i]
    BY DEF Receive, BelowLimit
  <2>2. processed[i] \in Nat /\ MaxMessages[i] \in Nat
    OBVIOUS
  <2>3. QED
    BY <2>1, <2>2
<1>2. BatchSize(i) <= MaxMessages[i] - processed[i] /\ BatchSize(i) \in Nat
  BY <1>1, MinIsSmallest DEF BatchSize
<1>3. Held(i)' = b
  BY DEF Receive, Receivable, Held, Holds
<1>4. Cardinality(b) <= BatchSize(i) /\ Cardinality(b) \in Nat
  <2>1. b \in SUBSET Messages
    BY DEF Receivable
  <2>2. QED
    BY <2>1, FS_Subset, FS_CardinalityType DEF Receive
<1>5. processed'[i] = processed[i]
  BY DEF Receive, counters
<1>6. QED
  BY <1>1, <1>2, <1>3, <1>4, <1>5

LEMMA CapInit == Init => CapHolds
<1> SUFFICES ASSUME Init, NEW i \in Replayers
             PROVE  processed[i] + Cardinality(Held(i)) <= MaxMessages[i]
  BY DEF CapHolds, Held
<1>1. Held(i) = {}
  BY ReprocessorAssumption DEF Init, Held, Holds
<1>2. QED
  BY <1>1, FS_EmptySet, ReprocessorAssumption DEF Init, Zero

LEMMA CapNextHolds == SInv /\ CapHolds /\ [Next]_vars => CapHolds'
<1> SUFFICES ASSUME SInv, CapHolds, [Next]_vars, NEW j \in Replayers, ~Unlimited(j)
             PROVE  processed'[j] + Cardinality(Held(j)') <= MaxMessages[j]
  BY DEF CapHolds, Held, Unlimited
<1> DEFINE Goal == processed'[j] + Cardinality(Held(j)') <= MaxMessages[j]
<1>1. ASSUME Held(j)' \subseteq Held(j), processed'[j] = processed[j] PROVE Goal
  BY <1>1, CapFewer
<1>2. ASSUME NEW i \in Replayers, i # j, todo'[j] = todo[j], cur'[j] = cur[j],
             processed'[j] = processed[j]
      PROVE Goal
  BY <1>1, <1>2 DEF Held, Holds
<1>3. ASSUME UNCHANGED <<todo, cur, processed>> PROVE Goal
  BY <1>1, <1>3 DEF Held, Holds
<1>4. ASSUME NEW i \in Replayers, Start(i) \/ Finish(i) \/ ReceiveError(i) PROVE Goal
  BY <1>3, <1>4 DEF Start, Finish, ReceiveError, counters
<1>5. ASSUME NEW i \in Replayers, NEW b \in SUBSET Receivable, Receive(i, b) PROVE Goal
  <2>1. CASE i = j
    BY <1>5, <2>1, CapReceive
  <2>2. CASE i # j
    BY <1>2, <1>5, <2>2 DEF Receive, counters, SInv, Shape
  <2>3. QED
    BY <2>1, <2>2
<1>6. ASSUME NEW i \in Replayers, NEW m \in Messages, Send(i, m) PROVE Goal
  <2>1. processed'[j] = processed[j]
    BY <1>6 DEF Send, counters
  <2>2. Held(j)' \subseteq Held(j)
    BY <1>6 DEF Send, Held, Holds, SInv, Shape
  <2>3. QED
    BY <1>1, <2>1, <2>2
<1>7. ASSUME NEW i \in Replayers, NEW m \in Held(i), NEW ok \in BOOLEAN,
             NextMessage(i, m, ok), m = cur[i] \/ cur[i] = NoMessage
      PROVE Goal
  <2>1. CASE i = j
    <3>1. Held(j)' = Held(j) \ {m} /\ processed'[j] = processed[j] + 1
      BY <1>7, <2>1, ReprocessorAssumption
         DEF NextMessage, Held, Holds, SInv, Shape, CurOK
    <3>2. QED
      BY <1>7, <2>1, <3>1, CapNext
  <2>2. CASE i # j
    BY <1>2, <1>7, <2>2 DEF NextMessage, SInv, Shape
  <2>3. QED
    BY <2>1, <2>2
<1>8. ASSUME NEW i \in Replayers, NEW m \in Messages, SendError(i, m) PROVE Goal
  <2>1. m \in Held(i) /\ cur[i] = NoMessage
    BY <1>8 DEF SendError, Held, Holds, SInv, CurOK
  <2>2. QED
    BY <1>7, <1>8, <2>1 DEF SendError
<1>9. ASSUME NEW i \in Replayers, Delete(i) \/ DeleteError(i) PROVE Goal
  <2>1. cur[i] \in Held(i)
    BY <1>9 DEF Delete, DeleteError, Held, Holds, SInv, CurOK
  <2>2. QED
    BY <1>7, <1>9, <2>1 DEF Delete, DeleteError
<1>10. ASSUME NEW i \in Replayers, Crash(i) PROVE Goal
  <2>1. processed'[j] = processed[j]
    BY <1>10 DEF Crash, counters
  <2>2. Held(j)' \subseteq Held(j)
    BY <1>10, ReprocessorAssumption DEF Crash, Held, Holds, SInv, Shape
  <2>3. QED
    BY <1>1, <2>1, <2>2
<1>11. ASSUME NEW m \in Messages, Reappear(m) \/ Consume(m) PROVE Goal
  BY <1>3, <1>11 DEF Reappear, Consume, counters
<1>12. CASE UNCHANGED vars
  BY <1>3, <1>12 DEF vars
<1>13. QED
  BY <1>4, <1>5, <1>6, <1>8, <1>9, <1>10, <1>11, <1>12 DEF Next, Step

\* At no moment does a capped invocation have more messages in hand and behind
\* it than maxMessages.
THEOREM CapHoldsAlways == Spec => []CapHolds
BY SInvInit, SInvNext, CapInit, CapNextHolds, PTL DEF Spec
===============================================================================

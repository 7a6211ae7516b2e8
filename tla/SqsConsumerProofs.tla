------------------------- MODULE SqsConsumerProofs -------------------------
(***************************************************************************)
(* Theorems about SqsConsumer, for every number of messages, concurrent    *)
(* invocations, batch size and maxReceiveCount, and for every environment. *)
(***************************************************************************)
EXTENDS SqsConsumer, TLAPS

\* Invocation i has passed the INSERT for the record it is at.
Working(i) == pc[i] \in {"process", "mark", "release"}

CurOK == \A i \in Invocations : Working(i) => cur[i] \in Messages

TInv == TypeOK /\ CurOK

\* The state stays well-typed, and an invocation that works on a record has one
\* of the queue's messages (withSqsConsumer).
LEMMA TInvInit == Init => TInv
BY ConsumerAssumption DEF Init, TInv, TypeOK, CurOK, Working

LEMMA TInvNext == TInv /\ [Next]_vars => TInv'
<1> SUFFICES ASSUME TInv, [Next]_vars PROVE TInv'
  OBVIOUS
<1> USE ConsumerAssumption DEF TInv, TypeOK, CurOK, Working, queueVars, callVars
<1>1. ASSUME NEW m \in Messages, Send(m) PROVE TInv'
  BY <1>1 DEF Send
<1>2. ASSUME NEW m \in Messages, Redrive(m) PROVE TInv'
  BY <1>2 DEF Redrive
<1>3. ASSUME NEW i \in Invocations, NEW b \in SUBSET Messages, Receive(i, b)
      PROVE TInv'
  <2>1. receives' \in [Messages -> 0 .. MaxReceive]
    BY <1>3 DEF Receive, Deliverable, ReceivesLeft
  <2>2. QED
    BY <1>3, <2>1 DEF Receive
<1>4. ASSUME NEW i \in Invocations, NEW m \in Messages, ParseError(i, m)
      PROVE TInv'
  BY <1>4 DEF ParseError, AtRecord, NextRecord
<1>5. ASSUME NEW i \in Invocations, NEW m \in Messages, AcquireOk(i, m)
      PROVE TInv'
  BY <1>5 DEF AcquireOk, AtRecord, Inserted, Goto
<1>6. ASSUME NEW i \in Invocations, NEW m \in Messages, AcquireDuplicate(i, m)
      PROVE TInv'
  BY <1>6 DEF AcquireDuplicate, AtRecord, NextRecord
<1>7. ASSUME NEW i \in Invocations, NEW m \in Messages, AcquireError(i, m)
      PROVE TInv'
  BY <1>7 DEF AcquireError, AtRecord, Inserted, Goto
<1>8. ASSUME NEW i \in Invocations, ProcessOk(i) PROVE TInv'
  BY <1>8 DEF ProcessOk, Goto
<1>9. ASSUME NEW i \in Invocations, ProcessError(i) PROVE TInv'
  BY <1>9 DEF ProcessError, Goto
<1>10. ASSUME NEW i \in Invocations, MarkOk(i) PROVE TInv'
  BY <1>10 DEF MarkOk, NextRecord, Completed
<1>11. ASSUME NEW i \in Invocations, MarkError(i) PROVE TInv'
  BY <1>11 DEF MarkError, Goto, Completed
<1>12. ASSUME NEW i \in Invocations, ReleaseOk(i) PROVE TInv'
  BY <1>12 DEF ReleaseOk, NextRecord, Released
<1>13. ASSUME NEW i \in Invocations, ReleaseError(i) PROVE TInv'
  BY <1>13 DEF ReleaseError, NextRecord
<1>14. ASSUME NEW i \in Invocations, Report(i) PROVE TInv'
  BY <1>14 DEF Report, EndInvocation
<1>15. ASSUME NEW i \in Invocations, Crash(i) PROVE TInv'
  BY <1>15 DEF Crash, EndInvocation
<1>16. CASE UNCHANGED vars
  BY <1>16 DEF vars
<1>17. QED
  BY <1>1, <1>2, <1>3, <1>4, <1>5, <1>6, <1>7, <1>8, <1>9, <1>10, <1>11, <1>12,
     <1>13, <1>14, <1>15, <1>16 DEF Next, Step, Poll

\* Type correctness of the consumer.
THEOREM TypeCorrect == Spec => []TypeOK
<1>1. TInv => TypeOK
  BY DEF TInv
<1>2. QED
  BY TInvInit, TInvNext, <1>1, PTL DEF Spec

----------------------------------------------------------------------------
(***************************************************************************)
(* Whatever fails.                                                         *)
(***************************************************************************)

\* A Lambda without a route to the database never gets past the INSERT.
Unreached ==
    ~Reachable =>
        /\ \A m \in Messages : processedEvents[m] = "absent" /\ effects[m] = 0
        /\ \A i \in Invocations : pc[i] \notin {"process", "mark"}

\* The record an invocation is about to mark was processed.
MarkHasEffect == \A i \in Invocations : pc[i] = "mark" => effects[cur[i]] >= 1

EInv == Unreached /\ MarkHasEffect /\ CompletedHasEffect

LEMMA EInvInit == Init => EInv
BY DEF Init, EInv, Unreached, MarkHasEffect, CompletedHasEffect

LEMMA EInvNext == TInv /\ EInv /\ [Next]_vars => EInv'
<1> SUFFICES ASSUME TInv, EInv, [Next]_vars PROVE EInv'
  OBVIOUS
<1> USE DEF TInv, TypeOK, CurOK, Working, queueVars, callVars,
        EInv, Unreached, MarkHasEffect, CompletedHasEffect, Reachable, Fails
<1>1. ASSUME NEW m \in Messages, Send(m) PROVE EInv'
  BY <1>1 DEF Send
<1>2. ASSUME NEW m \in Messages, Redrive(m) PROVE EInv'
  BY <1>2 DEF Redrive
<1>3. ASSUME NEW i \in Invocations, NEW b \in SUBSET Messages, Receive(i, b)
      PROVE EInv'
  BY <1>3 DEF Receive
<1>4. ASSUME NEW i \in Invocations, NEW m \in Messages, ParseError(i, m)
      PROVE EInv'
  BY <1>4 DEF ParseError, AtRecord, NextRecord
<1>5. ASSUME NEW i \in Invocations, NEW m \in Messages, AcquireOk(i, m)
      PROVE EInv'
  BY <1>5 DEF AcquireOk, AtRecord, CanInsert, Inserted, Goto
<1>6. ASSUME NEW i \in Invocations, NEW m \in Messages, AcquireDuplicate(i, m)
      PROVE EInv'
  BY <1>6 DEF AcquireDuplicate, AtRecord, NextRecord
<1>7. ASSUME NEW i \in Invocations, NEW m \in Messages, AcquireError(i, m)
      PROVE EInv'
  BY <1>7 DEF AcquireError, AtRecord, Inserted, Goto
<1>8. ASSUME NEW i \in Invocations, ProcessOk(i) PROVE EInv'
  BY <1>8 DEF ProcessOk, Goto
<1>9. ASSUME NEW i \in Invocations, ProcessError(i) PROVE EInv'
  BY <1>9 DEF ProcessError, Goto
<1>10. ASSUME NEW i \in Invocations, MarkOk(i) PROVE EInv'
  BY <1>10 DEF MarkOk, NextRecord, Completed
<1>11. ASSUME NEW i \in Invocations, MarkError(i) PROVE EInv'
  BY <1>11 DEF MarkError, Goto, Completed
<1>12. ASSUME NEW i \in Invocations, ReleaseOk(i) PROVE EInv'
  BY <1>12 DEF ReleaseOk, NextRecord, Released
<1>13. ASSUME NEW i \in Invocations, ReleaseError(i) PROVE EInv'
  BY <1>13 DEF ReleaseError, NextRecord
<1>14. ASSUME NEW i \in Invocations, Report(i) PROVE EInv'
  BY <1>14 DEF Report, EndInvocation
<1>15. ASSUME NEW i \in Invocations, Crash(i) PROVE EInv'
  BY <1>15 DEF Crash, EndInvocation
<1>16. CASE UNCHANGED vars
  BY <1>16 DEF vars
<1>17. QED
  BY <1>1, <1>2, <1>3, <1>4, <1>5, <1>6, <1>7, <1>8, <1>9, <1>10, <1>11, <1>12,
     <1>13, <1>14, <1>15, <1>16 DEF Next, Step, Poll

\* In every environment, a row that says 'completed' stands for a committed
\* execution of processMessage (markProcessed runs after it).
THEOREM CompletedHasEffectHolds == Spec => []CompletedHasEffect
<1>1. EInv => CompletedHasEffect
  BY DEF EInv
<1>2. QED
  BY TInvInit, TInvNext, EInvInit, EInvNext, <1>1, PTL DEF Spec

\* In every environment, no later release deletes a completed row
\* (DELETE ... AND status = 'processing').
THEOREM CompletedIsFinalHolds == Spec => CompletedIsFinal
<1> DEFINE Final == \A m \in Messages : processedEvents[m] = "completed"
                                           => processedEvents'[m] = "completed"
<1>1. TInv /\ [Next]_vars => [Final]_vars
  <2> SUFFICES ASSUME TInv, Next PROVE Final
    BY DEF vars
  <2> USE DEF TInv, TypeOK, queueVars, callVars
  <2>1. CASE UNCHANGED processedEvents
    BY <2>1
  <2>2. ASSUME NEW i \in Invocations, NEW m \in Messages,
               AcquireOk(i, m) \/ AcquireError(i, m)
        PROVE Final
    BY <2>2 DEF AcquireOk, AcquireError, Inserted
  <2>3. ASSUME NEW i \in Invocations, MarkOk(i) \/ MarkError(i) PROVE Final
    BY <2>3 DEF MarkOk, MarkError, Completed
  <2>4. ASSUME NEW i \in Invocations, ReleaseOk(i) PROVE Final
    BY <2>4 DEF ReleaseOk, Released
  <2>5. QED
    BY <2>1, <2>2, <2>3, <2>4 DEF Next, Step, Poll, Send, Redrive, Receive,
       ParseError, AcquireDuplicate, ProcessOk, ProcessError, ReleaseError,
       Report, Crash
<1>2. QED
  BY TInvInit, TInvNext, <1>1, PTL DEF Spec, CompletedIsFinal

----------------------------------------------------------------------------
(***************************************************************************)
(* At most once, in environments whose faults avoid Unlocking.  The lock   *)
(* tells where its owner is: the row is inserted before processMessage,    *)
(* stays until the owner has reported, and once completed stays for good.  *)
(***************************************************************************)

\* The owner of a row is unique.
OneOwner ==
    \A i, j \in Invocations :
        Working(i) /\ Working(j) /\ cur[i] = cur[j] => i = j

\* What the row and the business data are at each step of the owner.
OwnerAt ==
    \A i \in Invocations :
        /\ pc[i] = "process" =>
              processedEvents[cur[i]] = "processing" /\ effects[cur[i]] = 0
        /\ pc[i] = "mark" =>
              processedEvents[cur[i]] = "processing" /\ effects[cur[i]] = 1
        /\ pc[i] = "release" =>
              \/ processedEvents[cur[i]] = "processing" /\ effects[cur[i]] = 0
              \/ processedEvents[cur[i]] = "completed"

\* Without a row, nothing was committed.
AbsentIsUntouched ==
    \A m \in Messages : processedEvents[m] = "absent" => effects[m] = 0

OInv ==
    Reachable /\ faults \cap Unlocking = {} =>
        OneOwner /\ OwnerAt /\ AbsentIsUntouched /\ ProcessedOnce

LEMMA OInvInit == Init => OInv
BY DEF Init, OInv, OneOwner, OwnerAt, AbsentIsUntouched, ProcessedOnce, Working

\* An environment stays what it is.
LEMMA FaultsFixed == [Next]_vars => faults' = faults
<1> SUFFICES ASSUME [Next]_vars PROVE faults' = faults
  OBVIOUS
<1> USE DEF queueVars, callVars, Goto, NextRecord, EndInvocation
<1>1. ASSUME NEW m \in Messages, Send(m) \/ Redrive(m) PROVE faults' = faults
  BY <1>1 DEF Send, Redrive
<1>2. ASSUME NEW i \in Invocations, NEW b \in SUBSET Messages, Receive(i, b)
      PROVE faults' = faults
  BY <1>2 DEF Receive
<1>3. ASSUME NEW i \in Invocations, NEW m \in Messages,
             \/ ParseError(i, m) \/ AcquireOk(i, m)
             \/ AcquireDuplicate(i, m) \/ AcquireError(i, m)
      PROVE faults' = faults
  BY <1>3 DEF ParseError, AcquireOk, AcquireDuplicate, AcquireError
<1>4. ASSUME NEW i \in Invocations,
             \/ ProcessOk(i) \/ ProcessError(i) \/ MarkOk(i) \/ MarkError(i)
             \/ ReleaseOk(i) \/ ReleaseError(i) \/ Report(i) \/ Crash(i)
      PROVE faults' = faults
  BY <1>4 DEF ProcessOk, ProcessError, MarkOk, MarkError, ReleaseOk,
     ReleaseError, Report, Crash
<1>5. QED
  BY <1>1, <1>2, <1>3, <1>4 DEF Next, Step, Poll, vars

LEMMA OInvNext == TInv /\ OInv /\ [Next]_vars => OInv'
<1> SUFFICES ASSUME TInv, OInv, [Next]_vars, Reachable, faults \cap Unlocking = {}
             PROVE (OneOwner /\ OwnerAt /\ AbsentIsUntouched /\ ProcessedOnce)'
  BY FaultsFixed DEF OInv, Reachable
<1> DEFINE Goal == (OneOwner /\ OwnerAt /\ AbsentIsUntouched /\ ProcessedOnce)'
<1> USE DEF TInv, TypeOK, CurOK, Working, queueVars, callVars, Reachable, Fails,
        OInv, OneOwner, OwnerAt, AbsentIsUntouched, ProcessedOnce, Unlocking
<1>1. ASSUME NEW m \in Messages, Send(m) PROVE Goal
  BY <1>1 DEF Send
<1>2. ASSUME NEW m \in Messages, Redrive(m) PROVE Goal
  BY <1>2 DEF Redrive
<1>3. ASSUME NEW i \in Invocations, NEW b \in SUBSET Messages, Receive(i, b)
      PROVE Goal
  BY <1>3 DEF Receive, Deliverable, ReceivesLeft, InFlight
<1>4. ASSUME NEW i \in Invocations, NEW m \in Messages, ParseError(i, m)
      PROVE Goal
  BY <1>4 DEF ParseError, AtRecord, NextRecord
<1>5. ASSUME NEW i \in Invocations, NEW m \in Messages, AcquireOk(i, m)
      PROVE Goal
  BY <1>5 DEF AcquireOk, AtRecord, CanInsert, Inserted, Goto
<1>6. ASSUME NEW i \in Invocations, NEW m \in Messages, AcquireDuplicate(i, m)
      PROVE Goal
  BY <1>6 DEF AcquireDuplicate, AtRecord, CanInsert, NextRecord
<1>7. ASSUME NEW i \in Invocations, NEW m \in Messages, AcquireError(i, m)
      PROVE Goal
  BY <1>7 DEF AcquireError, AtRecord, Inserted, Goto
<1>8. ASSUME NEW i \in Invocations, ProcessOk(i) PROVE Goal
  BY <1>8 DEF ProcessOk, Goto
<1>9. ASSUME NEW i \in Invocations, ProcessError(i) PROVE Goal
  BY <1>9 DEF ProcessError, Goto
<1>10. ASSUME NEW i \in Invocations, MarkOk(i) PROVE Goal
  BY <1>10 DEF MarkOk, NextRecord, Completed
<1>11. ASSUME NEW i \in Invocations, MarkError(i) PROVE Goal
  BY <1>11 DEF MarkError, Goto, Completed
<1>12. ASSUME NEW i \in Invocations, ReleaseOk(i) PROVE Goal
  BY <1>12 DEF ReleaseOk, NextRecord, Released
<1>13. ASSUME NEW i \in Invocations, ReleaseError(i) PROVE Goal
  BY <1>13 DEF ReleaseError, NextRecord
<1>14. ASSUME NEW i \in Invocations, Report(i) PROVE Goal
  BY <1>14 DEF Report, EndInvocation, Acknowledged
<1>15. ASSUME NEW i \in Invocations, Crash(i) PROVE Goal
  BY <1>15 DEF Crash, EndInvocation
<1>16. CASE UNCHANGED vars
  BY <1>16 DEF vars
<1>17. QED
  BY <1>1, <1>2, <1>3, <1>4, <1>5, <1>6, <1>7, <1>8, <1>9, <1>10, <1>11, <1>12,
     <1>13, <1>14, <1>15, <1>16 DEF Next, Step, Poll

LEMMA OInvHolds == Spec => [](TInv /\ EInv /\ OInv)
BY TInvInit, TInvNext, EInvInit, EInvNext, OInvInit, OInvNext, PTL DEF Spec

\* Crashes, duplicate deliveries, failing business logic, failing releases and a
\* lost reply of markProcessed never make the wrapper process a message twice.
THEOREM AtMostOnceHolds == Spec => []AtMostOnce
<1>1. TInv /\ EInv /\ OInv => AtMostOnce
  BY DEF EInv, Unreached, OInv, AtMostOnce, ProcessedOnce
<1>2. QED
  BY OInvHolds, <1>1, PTL

\* In the same environments the row in processed_events is an exclusive lock.
THEOREM LockExclusiveHolds == Spec => []LockExclusive
<1>1. TInv /\ EInv /\ OInv => LockExclusive
  BY DEF EInv, Unreached, OInv, OneOwner, Working, LockExclusive, LockHeldOnce
<1>2. QED
  BY OInvHolds, <1>1, PTL

----------------------------------------------------------------------------
(***************************************************************************)
(* Nothing is lost, in environments whose faults avoid Orphaning.  Batches *)
(* are disjoint, every 'processing' row has its owner among the live       *)
(* invocations, and a record leaves the loop processed or as a failure.    *)
(***************************************************************************)

BatchesApart ==
    \A i, j \in Invocations : i # j => batch[i] \cap batch[j] = {}

LoopOK ==
    \A i \in Invocations :
        /\ todo[i] \subseteq batch[i]
        /\ pc[i] = "idle" => batch[i] = {}
        /\ Working(i) => cur[i] \in batch[i] \ todo[i]

RowsOwned ==
    \A m \in Messages : processedEvents[m] = "processing" =>
        \E i \in Invocations : Working(i) /\ cur[i] = m

RecordsAccounted ==
    \A i \in Invocations : \A m \in batch[i] :
        \/ m \in todo[i]
        \/ m \in failures[i]
        \/ Working(i) /\ cur[i] = m
        \/ effects[m] >= 1

DeletedWasDone == \A m \in Messages : queue[m] = "deleted" => effects[m] >= 1

LBody == /\ BatchesApart
         /\ LoopOK
         /\ RowsOwned
         /\ RecordsAccounted
         /\ DeletedWasDone

LInv == faults \cap Orphaning = {} => LBody

LEMMA LInvInit == Init => LInv
BY DEF Init, LInv, LBody, BatchesApart, LoopOK, RowsOwned, RecordsAccounted,
   DeletedWasDone, Working

LEMMA LInvNext == TInv /\ EInv /\ LInv /\ [Next]_vars => LInv'
<1> SUFFICES ASSUME TInv, EInv, LInv, [Next]_vars, faults \cap Orphaning = {}
             PROVE LBody'
  BY FaultsFixed DEF LInv
<1> USE DEF TInv, TypeOK, CurOK, Working, queueVars, callVars, Reachable, Fails,
        LInv, LBody, BatchesApart, LoopOK, RowsOwned, RecordsAccounted,
        DeletedWasDone, Orphaning, EInv, Unreached, CompletedHasEffect, MarkHasEffect
<1>1. ASSUME NEW m \in Messages, Send(m) PROVE LBody'
  BY <1>1 DEF Send
<1>2. ASSUME NEW m \in Messages, Redrive(m) PROVE LBody'
  BY <1>2 DEF Redrive
<1>3. ASSUME NEW i \in Invocations, NEW b \in SUBSET Messages, Receive(i, b)
      PROVE LBody'
  BY <1>3 DEF Receive, Deliverable, ReceivesLeft, InFlight
<1>4. ASSUME NEW i \in Invocations, NEW m \in Messages, ParseError(i, m)
      PROVE LBody'
  BY <1>4 DEF ParseError, AtRecord, NextRecord
<1>5. ASSUME NEW i \in Invocations, NEW m \in Messages, AcquireOk(i, m)
      PROVE LBody'
  BY <1>5 DEF AcquireOk, AtRecord, CanInsert, Inserted, Goto
<1>6. ASSUME NEW i \in Invocations, NEW m \in Messages, AcquireDuplicate(i, m)
      PROVE LBody'
  BY <1>6 DEF AcquireDuplicate, AtRecord, CanInsert, NextRecord
<1>7. ASSUME NEW i \in Invocations, NEW m \in Messages, AcquireError(i, m)
      PROVE LBody'
  BY <1>7 DEF AcquireError, AtRecord, Inserted, Goto
<1>8. ASSUME NEW i \in Invocations, ProcessOk(i) PROVE LBody'
  BY <1>8 DEF ProcessOk, Goto
<1>9. ASSUME NEW i \in Invocations, ProcessError(i) PROVE LBody'
  BY <1>9 DEF ProcessError, Goto
<1>10. ASSUME NEW i \in Invocations, MarkOk(i) PROVE LBody'
  BY <1>10 DEF MarkOk, NextRecord, Completed
<1>11. ASSUME NEW i \in Invocations, MarkError(i) PROVE LBody'
  BY <1>11 DEF MarkError, Goto, Completed
<1>12. ASSUME NEW i \in Invocations, ReleaseOk(i) PROVE LBody'
  BY <1>12 DEF ReleaseOk, NextRecord, Released
<1>13. ASSUME NEW i \in Invocations, ReleaseError(i) PROVE LBody'
  BY <1>13 DEF ReleaseError, NextRecord
<1>14. ASSUME NEW i \in Invocations, Report(i) PROVE LBody'
  BY <1>14 DEF Report, EndInvocation, Acknowledged
<1>15. ASSUME NEW i \in Invocations, Crash(i) PROVE LBody'
  BY <1>15 DEF Crash, EndInvocation
<1>16. CASE UNCHANGED vars
  BY <1>16 DEF vars
<1>17. QED
  BY <1>1, <1>2, <1>3, <1>4, <1>5, <1>6, <1>7, <1>8, <1>9, <1>10, <1>11, <1>12,
     <1>13, <1>14, <1>15, <1>16 DEF Next, Step, Poll

LEMMA LInvHolds == Spec => [](TInv /\ EInv /\ LInv)
BY TInvInit, TInvNext, EInvInit, EInvNext, LInvInit, LInvNext, PTL DEF Spec

\* However the calls to the database fail, as long as each failure is followed
\* by its release and SQS delivers a message to one invocation at a time, a
\* deleted message was processed.
THEOREM NoSilentLossHolds == Spec => []NoSilentLoss
<1>1. TInv /\ EInv /\ LInv => NoSilentLoss
  BY DEF LInv, LBody, DeletedWasDone, NoSilentLoss, NothingLost
<1>2. QED
  BY LInvHolds, <1>1, PTL

\* In the same environments no lock outlives the invocation that took it.
THEOREM NoStuckLockHolds == Spec => []NoStuckLock
<1>1. TInv /\ EInv /\ LInv => NoStuckLock
  BY DEF LInv, LBody, RowsOwned, LoopOK, Working, NoStuckLock, InFlight
<1>2. QED
  BY LInvHolds, <1>1, PTL

----------------------------------------------------------------------------
(***************************************************************************)
(* The promise of the queue, in environments whose faults are in Keeping:  *)
(* every failure is followed by the release of a lock that the invocation  *)
(* holds or that nobody holds.  Then each message that nobody works on is  *)
(* as if it had never been delivered, which is what lets SQS retry it or   *)
(* take it away, and each message of a batch is untouched or done.         *)
(***************************************************************************)

\* No trace of the message in the database.
Fresh(m) == processedEvents[m] = "absent" /\ effects[m] = 0

WaitingFresh ==
    \A m \in Messages :
        \/ queue[m] \in {"unsent", "dead"}
        \/ queue[m] = "queued" /\ ~InFlight(m)
        => Fresh(m)

HeldFresh ==
    \A i \in Invocations :
        /\ failures[i] \subseteq batch[i] \ todo[i]
        /\ Working(i) => cur[i] \notin failures[i]
        /\ \A m \in batch[i] :
              /\ queue[m] = "queued"
              /\ m \in todo[i] \cup failures[i] => Fresh(m)
              /\ \/ m \in todo[i] \cup failures[i]
                 \/ Working(i) /\ cur[i] = m
                 \/ effects[m] = 1

WorkAt ==
    \A i \in Invocations :
        /\ pc[i] \in {"process", "release"} => effects[cur[i]] = 0
        /\ pc[i] = "mark" => effects[cur[i]] = 1
        /\ pc[i] \in {"process", "mark"} => processedEvents[cur[i]] = "processing"
        /\ pc[i] = "release" => processedEvents[cur[i]] # "completed"

PBody == WaitingFresh /\ HeldFresh /\ WorkAt

PInv == faults \subseteq Keeping => PBody

LEMMA PInvInit == Init => PInv
BY DEF Init, PInv, PBody, WaitingFresh, HeldFresh, WorkAt, Fresh, InFlight, Working

LEMMA PInvNext == TInv /\ EInv /\ LInv /\ PInv /\ [Next]_vars => PInv'
<1> SUFFICES ASSUME TInv, EInv, LInv, PInv, [Next]_vars, faults \subseteq Keeping
             PROVE PBody'
  BY FaultsFixed DEF PInv
<1> USE DEF TInv, TypeOK, CurOK, Working, queueVars, callVars, Reachable, Fails,
        LInv, LBody, BatchesApart, LoopOK, Orphaning, EInv, Unreached,
        PInv, PBody, WaitingFresh, HeldFresh, WorkAt, Fresh, InFlight, Keeping
<1>1. ASSUME NEW m \in Messages, Send(m) PROVE PBody'
  BY <1>1 DEF Send
<1>2. ASSUME NEW m \in Messages, Redrive(m) PROVE PBody'
  BY <1>2 DEF Redrive
<1>3. ASSUME NEW i \in Invocations, NEW b \in SUBSET Messages, Receive(i, b)
      PROVE PBody'
  BY <1>3 DEF Receive, Deliverable, ReceivesLeft, InFlight
<1>4. ASSUME NEW i \in Invocations, NEW m \in Messages, ParseError(i, m)
      PROVE PBody'
  BY <1>4 DEF ParseError, AtRecord, NextRecord
<1>5. ASSUME NEW i \in Invocations, NEW m \in Messages, AcquireOk(i, m)
      PROVE PBody'
  BY <1>5 DEF AcquireOk, AtRecord, CanInsert, Inserted, Goto
<1>6. ASSUME NEW i \in Invocations, NEW m \in Messages, AcquireDuplicate(i, m)
      PROVE PBody'
  BY <1>6 DEF AcquireDuplicate, AtRecord, CanInsert, NextRecord
<1>7. ASSUME NEW i \in Invocations, NEW m \in Messages, AcquireError(i, m)
      PROVE PBody'
  BY <1>7 DEF AcquireError, AtRecord, Inserted, Goto
<1>8. ASSUME NEW i \in Invocations, ProcessOk(i) PROVE PBody'
  BY <1>8 DEF ProcessOk, Goto
<1>9. ASSUME NEW i \in Invocations, ProcessError(i) PROVE PBody'
  BY <1>9 DEF ProcessError, Goto
<1>10. ASSUME NEW i \in Invocations, MarkOk(i) PROVE PBody'
  BY <1>10 DEF MarkOk, NextRecord, Completed
<1>11. ASSUME NEW i \in Invocations, MarkError(i) PROVE PBody'
  BY <1>11 DEF MarkError, Goto, Completed
<1>12. ASSUME NEW i \in Invocations, ReleaseOk(i) PROVE PBody'
  BY <1>12 DEF ReleaseOk, NextRecord, Released
<1>13. ASSUME NEW i \in Invocations, ReleaseError(i) PROVE PBody'
  BY <1>13 DEF ReleaseError, NextRecord
<1>14. ASSUME NEW i \in Invocations, Report(i) PROVE PBody'
  BY <1>14 DEF Report, EndInvocation, Acknowledged
<1>15. ASSUME NEW i \in Invocations, Crash(i) PROVE PBody'
  BY <1>15 DEF Crash, EndInvocation
<1>16. CASE UNCHANGED vars
  BY <1>16 DEF vars
<1>17. QED
  BY <1>1, <1>2, <1>3, <1>4, <1>5, <1>6, <1>7, <1>8, <1>9, <1>10, <1>11, <1>12,
     <1>13, <1>14, <1>15, <1>16 DEF Next, Step, Poll

----------------------------------------------------------------------------
(***************************************************************************)
(* The promise of the queue, whatever fails: Slips says what is left of it *)
(* in each environment.  What holds in all of them is where an invocation  *)
(* stands in its batch and what became of the messages it holds.           *)
(***************************************************************************)

HBody ==
    \A i \in Invocations :
        /\ todo[i] \subseteq batch[i]
        /\ pc[i] = "idle" => batch[i] = {}
        /\ Working(i) => cur[i] \in batch[i]
        /\ \A m \in batch[i] :
              \/ queue[m] = "queued"
              \/ queue[m] = "deleted" /\ "duplicate_delivery" \in faults

HInv ==
    /\ "duplicate_delivery" \notin faults => BatchesApart
    /\ HBody

LEMMA HInvInit == Init => HInv
BY DEF Init, HInv, HBody, BatchesApart, Working

LEMMA HInvNext == TInv /\ HInv /\ [Next]_vars => HInv'
<1> SUFFICES ASSUME TInv, HInv, [Next]_vars PROVE HInv'
  OBVIOUS
<1> USE DEF TInv, TypeOK, CurOK, Working, queueVars, callVars,
        HInv, HBody, BatchesApart, InFlight
<1>1. ASSUME NEW m \in Messages, Send(m) PROVE HInv'
  BY <1>1 DEF Send
<1>2. ASSUME NEW m \in Messages, Redrive(m) PROVE HInv'
  BY <1>2 DEF Redrive
<1>3. ASSUME NEW i \in Invocations, NEW b \in SUBSET Messages, Receive(i, b)
      PROVE HInv'
  BY <1>3 DEF Receive, Deliverable
<1>4. ASSUME NEW i \in Invocations, NEW m \in Messages,
             \/ ParseError(i, m) \/ AcquireOk(i, m)
             \/ AcquireDuplicate(i, m) \/ AcquireError(i, m)
      PROVE HInv'
  BY <1>4 DEF ParseError, AcquireOk, AcquireDuplicate, AcquireError, AtRecord,
     NextRecord, Goto
<1>5. ASSUME NEW i \in Invocations, ProcessOk(i) \/ ProcessError(i) \/ MarkError(i)
      PROVE HInv'
  BY <1>5 DEF ProcessOk, ProcessError, MarkError, Goto
<1>6. ASSUME NEW i \in Invocations, MarkOk(i) \/ ReleaseOk(i) \/ ReleaseError(i)
      PROVE HInv'
  BY <1>6 DEF MarkOk, ReleaseOk, ReleaseError, NextRecord
<1>7. ASSUME NEW i \in Invocations, Report(i) PROVE HInv'
  BY <1>7 DEF Report, EndInvocation, Acknowledged
<1>8. ASSUME NEW i \in Invocations, Crash(i) PROVE HInv'
  BY <1>8 DEF Crash, EndInvocation
<1>9. CASE UNCHANGED vars
  BY <1>9 DEF vars
<1>10. QED
  BY <1>1, <1>2, <1>3, <1>4, <1>5, <1>6, <1>7, <1>8, <1>9 DEF Next, Step, Poll

\* Everything the steps of the promise need.
AllInv == TInv /\ EInv /\ OInv /\ LInv /\ PInv /\ HInv

LEMMA AllInvHolds == Spec => []AllInv
<1>1. Init => AllInv
  BY TInvInit, EInvInit, OInvInit, LInvInit, PInvInit, HInvInit DEF AllInv
<1>2. AllInv /\ [Next]_vars => AllInv'
  BY TInvNext, EInvNext, OInvNext, LInvNext, PInvNext, HInvNext DEF AllInv
<1>3. QED
  BY <1>1, <1>2, PTL DEF Spec

\* A commit is the first one for its message, or an environment that makes the
\* wrapper drop locks lets it be repeated (processMessage runs under a lock that
\* was inserted for it).
LEMMA CommitIsApply ==
    ASSUME AllInv, AllInv', NEW i \in Invocations, pc[i] = "process",
           [Next]_vars, effects' = [effects EXCEPT ![cur[i]] = @ + 1],
           queue' = queue
    PROVE  cur[i] \in Messages /\ Promise!Apply(cur[i])
<1> USE DEF AllInv, TInv, TypeOK, CurOK, Working
<1>1. cur[i] \in Messages /\ cur[i] \in batch[i]
  BY DEF HInv, HBody
<1>2. /\ effects[cur[i]] \in Nat
      /\ effects'[cur[i]] = effects[cur[i]] + 1
  BY <1>1
<1>3. \/ queue[cur[i]] = "queued"
      \/ queue[cur[i]] = "deleted" /\ "unworked" \in Slips
  BY <1>1 DEF HInv, HBody, Slips, Orphaning, Keeping
<1>4. effects[cur[i]] = 0 \/ "repeated" \in Slips
  <2>1. CASE faults \subseteq Keeping
    BY <1>1, <2>1 DEF PInv, PBody, WorkAt
  <2>2. CASE faults \cap Unlocking # {} /\ ~(faults \subseteq Keeping)
    BY <2>2 DEF Slips
  <2>3. CASE faults \cap Unlocking = {}
    <3>1. Reachable
      BY DEF EInv, Unreached
    <3>2. faults' = faults
      BY FaultsFixed
    <3>3. effects'[cur[i]] <= 1
      BY <1>1, <2>3, <3>1, <3>2 DEF OInv, ProcessedOnce, Reachable
    <3>4. QED
      BY <1>2, <3>3
  <2>4. QED
    BY <2>1, <2>2, <2>3
<1>5. UNCHANGED Slips
  BY FaultsFixed DEF Slips
<1>6. QED
  BY <1>1, <1>3, <1>4, <1>5 DEF Promise!Apply

\* The messages that an invocation's report takes off the queue.
Removed(i) == {m \in Acknowledged(i) : queue[m] = "queued"}

\* What an invocation deletes was done, or a leftover lock or a second delivery
\* of it may have let it pass.
LEMMA ReportIsAcknowledge ==
    ASSUME AllInv, NEW i \in Invocations, [Next]_vars, Report(i)
    PROVE  Removed(i) \in SUBSET Messages /\ Promise!Acknowledge(Removed(i))
<1> USE DEF AllInv, TInv, TypeOK, Working
<1>1. \A m \in Acknowledged(i) :
          m \in batch[i] /\ queue[m] \in {"queued", "deleted"}
  BY DEF Acknowledged, HInv, HBody
<1>2. queue' = [m \in Messages |-> IF m \in Removed(i) THEN "deleted" ELSE queue[m]]
  BY <1>1 DEF Report, Removed
<1>3. \A m \in Removed(i) : effects[m] >= 1 \/ "unworked" \in Slips
  <2>1. CASE faults \cap Orphaning = {}
    BY <1>1, <2>1 DEF Report, Removed, Acknowledged, LInv, LBody, RecordsAccounted
  <2>2. CASE faults \cap Orphaning # {}
    BY <2>2 DEF Slips, Orphaning, Keeping
  <2>3. QED
    BY <2>1, <2>2
<1>4. UNCHANGED <<effects, Slips>>
  BY FaultsFixed DEF Report, Slips
<1>5. QED
  BY <1>1, <1>2, <1>3, <1>4 DEF Promise!Acknowledge, Removed

LEMMA PromiseInit == Init => Promise!Init
BY DEF Init, Promise!Init, Slips

LEMMA PromiseStep ==
    AllInv /\ AllInv' /\ [Next]_vars => [Promise!Next]_(Promise!vars)
<1> SUFFICES ASSUME AllInv, AllInv', [Next]_vars
             PROVE  Promise!Next \/ UNCHANGED <<queue, effects, Slips>>
  BY DEF Promise!vars
<1> DEFINE Goal == Promise!Next \/ UNCHANGED <<queue, effects, Slips>>
<1>0. UNCHANGED Slips
  BY FaultsFixed DEF Slips
<1> USE DEF queueVars, callVars
<1>1. ASSUME NEW m \in Messages, Send(m) PROVE Goal
  BY <1>0, <1>1 DEF Send, Promise!Publish, Promise!Next
<1>2. ASSUME NEW m \in Messages, Redrive(m) PROVE Goal
  <2>1. effects[m] = 0 \/ "late" \in Slips
    BY <1>2 DEF Redrive, AllInv, PInv, PBody, WaitingFresh, Fresh, Slips
  <2>2. QED
    BY <1>0, <1>2, <2>1 DEF Redrive, Promise!Abandon, Promise!Next
<1>3. ASSUME NEW i \in Invocations, NEW b \in SUBSET Messages, Receive(i, b)
      PROVE Goal
  <2> DEFINE S == {m \in b : queue[m] = "deleted"}
  <2>1. queue' = [m \in Messages |-> IF m \in S THEN "queued" ELSE queue[m]]
    BY <1>3 DEF Receive, Deliverable, AllInv, TInv, TypeOK
  <2>2. CASE S = {}
    BY <1>0, <1>3, <2>1, <2>2 DEF Receive, AllInv, TInv, TypeOK
  <2>3. CASE S # {}
    <3>1. "redelivered" \in Slips
      BY <1>3, <2>3 DEF Receive, Deliverable, Slips, Keeping
    <3>2. Promise!Redeliver(S)
      BY <1>0, <1>3, <2>1, <3>1 DEF Receive, Promise!Redeliver
    <3>3. QED
      BY <3>2 DEF Promise!Next
  <2>4. QED
    BY <2>2, <2>3
<1>4. ASSUME NEW i \in Invocations, NEW m \in Messages,
             \/ ParseError(i, m) \/ AcquireOk(i, m)
             \/ AcquireDuplicate(i, m) \/ AcquireError(i, m)
      PROVE Goal
  BY <1>0, <1>4 DEF ParseError, AcquireOk, AcquireDuplicate, AcquireError
<1>5. ASSUME NEW i \in Invocations, ProcessOk(i) \/ ProcessError(i)
      PROVE Goal
  <2>1. CASE UNCHANGED effects
    BY <1>0, <1>5, <2>1 DEF ProcessOk, ProcessError
  <2>2. CASE effects' = [effects EXCEPT ![cur[i]] = @ + 1]
    <3>1. cur[i] \in Messages /\ Promise!Apply(cur[i])
      BY <1>5, <2>2, CommitIsApply DEF ProcessOk, ProcessError
    <3>2. QED
      BY <3>1 DEF Promise!Next
  <2>3. QED
    BY <1>5, <2>1, <2>2 DEF ProcessOk, ProcessError
<1>6. ASSUME NEW i \in Invocations,
             MarkOk(i) \/ MarkError(i) \/ ReleaseOk(i) \/ ReleaseError(i) \/ Crash(i)
      PROVE Goal
  BY <1>0, <1>6 DEF MarkOk, MarkError, ReleaseOk, ReleaseError, Crash
<1>7. ASSUME NEW i \in Invocations, Report(i) PROVE Goal
  BY <1>7, ReportIsAcknowledge DEF Promise!Next
<1>8. CASE UNCHANGED vars
  BY <1>0, <1>8 DEF vars
<1>9. QED
  BY <1>1, <1>2, <1>3, <1>4, <1>5, <1>6, <1>7, <1>8 DEF Next, Step, Poll

\* In every environment the consumer implements the promise of its queue with
\* the slips of that environment.  If only the acquisition of the lock and the
\* business logic fail, or the database is out of reach, there are none: each
\* message is committed once and then deleted, or never committed and
\* dead-lettered (the safety part of KeepsPromise).
THEOREM PromiseKept == Spec => Promise!Spec
BY AllInvHolds, PromiseInit, PromiseStep, PTL DEF Spec, Promise!Spec

\* What the promise says of the end of a message.
EndsClean ==
    \A m \in Messages :
        /\ effects[m] <= 1 \/ "repeated" \in Slips
        /\ queue[m] = "deleted" => effects[m] >= 1 \/ "unworked" \in Slips
        /\ queue[m] = "dead" => effects[m] = 0 \/ "late" \in Slips
        /\ queue[m] = "unsent" => effects[m] = 0

LEMMA EndsCleanInit == Promise!Init => EndsClean
BY DEF Promise!Init, EndsClean

LEMMA EndsCleanNext ==
    TInv /\ EndsClean /\ [Promise!Next]_(Promise!vars) => EndsClean'
<1> SUFFICES ASSUME TInv, EndsClean, [Promise!Next]_(Promise!vars) PROVE EndsClean'
  OBVIOUS
<1> USE DEF TInv, TypeOK, EndsClean
<1>1. ASSUME NEW m \in Messages, Promise!Publish(m) PROVE EndsClean'
  BY <1>1 DEF Promise!Publish
<1>2. ASSUME NEW m \in Messages, Promise!Apply(m) PROVE EndsClean'
  BY <1>2 DEF Promise!Apply
<1>3. ASSUME NEW m \in Messages, Promise!Abandon(m) PROVE EndsClean'
  BY <1>3 DEF Promise!Abandon
<1>4. ASSUME NEW S \in SUBSET Messages, Promise!Acknowledge(S) PROVE EndsClean'
  BY <1>4 DEF Promise!Acknowledge
<1>5. ASSUME NEW S \in SUBSET Messages, Promise!Redeliver(S) PROVE EndsClean'
  BY <1>5 DEF Promise!Redeliver
<1>6. CASE UNCHANGED Promise!vars
  BY <1>6 DEF Promise!vars
<1>7. QED
  BY <1>1, <1>2, <1>3, <1>4, <1>5, <1>6 DEF Promise!Next

\* No message is processed twice, a deleted message was processed, and one in
\* the dead-letter queue was not: it may be replayed.  Each part holds in every
\* environment whose Slips do not name its exception, all of them under the
\* faults of Keeping; AtMostOnceHolds says less there, for a failing acquire is
\* in Unlocking.
THEOREM EndsCleanHolds == Spec => []EndsClean
<1>1. Spec => []TInv
  BY TInvInit, TInvNext, PTL DEF Spec
<1>2. QED
  BY PromiseKept, EndsCleanInit, EndsCleanNext, <1>1, PTL DEF Promise!Spec

----------------------------------------------------------------------------
(***************************************************************************)
(* Poison messages, when nothing fails: a well-formed message is delivered *)
(* at most once, for it leaves its batch done.                             *)
(***************************************************************************)

QBody ==
    /\ \A m \in Messages \ Malformed :
          /\ receives[m] <= 1 /\ queue[m] # "dead"
          /\ queue[m] = "unsent" => receives[m] = 0
          /\ queue[m] = "queued" /\ ~InFlight(m) => receives[m] = 0
    /\ \A i \in Invocations : failures[i] \subseteq Malformed /\ pc[i] # "release"

QInv == faults = {} => QBody

LEMMA QInvInit == Init => QInv
BY DEF Init, QInv, QBody, InFlight

LEMMA QInvNext == TInv /\ LInv /\ QInv /\ [Next]_vars => QInv'
<1> SUFFICES ASSUME TInv, LInv, QInv, [Next]_vars, faults = {} PROVE QBody'
  BY FaultsFixed DEF QInv
<1> USE ConsumerAssumption DEF TInv, TypeOK, queueVars, callVars, Reachable, Fails,
        QInv, QBody, InFlight
<1>1. ASSUME NEW m \in Messages, Send(m) PROVE QBody'
  BY <1>1 DEF Send
<1>2. ASSUME NEW m \in Messages, Redrive(m) PROVE QBody'
  BY <1>2 DEF Redrive, Exhausted
<1>3. ASSUME NEW i \in Invocations, NEW b \in SUBSET Messages, Receive(i, b)
      PROVE QBody'
  <2>1. \A m \in b : queue[m] = "queued" /\ ~InFlight(m)
    BY <1>3 DEF Receive, Deliverable
  <2>2. queue' = queue
    BY <1>3, <2>1 DEF Receive
  <2>3. \A m \in b \ Malformed : receives'[m] = 1
    BY <1>3, <2>1 DEF Receive
  <2>4. \A m \in Messages \ b : receives'[m] = receives[m] /\ (InFlight(m) => InFlight(m)')
    BY <1>3 DEF Receive, LInv, LBody, LoopOK
  <2>5. \A m \in b : InFlight(m)'
    BY <1>3 DEF Receive
  <2>6. QED
    BY <1>3, <2>1, <2>2, <2>3, <2>4, <2>5 DEF Receive
<1>4. ASSUME NEW i \in Invocations, NEW m \in Messages, ParseError(i, m)
      PROVE QBody'
  BY <1>4 DEF ParseError, AtRecord, NextRecord
<1>5. ASSUME NEW i \in Invocations, NEW m \in Messages, AcquireOk(i, m)
      PROVE QBody'
  BY <1>5 DEF AcquireOk, AtRecord, CanInsert, Inserted, Goto
<1>6. ASSUME NEW i \in Invocations, NEW m \in Messages, AcquireDuplicate(i, m)
      PROVE QBody'
  BY <1>6 DEF AcquireDuplicate, AtRecord, CanInsert, NextRecord
<1>7. ASSUME NEW i \in Invocations, NEW m \in Messages, AcquireError(i, m)
      PROVE QBody'
  BY <1>7 DEF AcquireError, AtRecord, Inserted, Goto
<1>8. ASSUME NEW i \in Invocations, ProcessOk(i) PROVE QBody'
  BY <1>8 DEF ProcessOk, Goto
<1>9. ASSUME NEW i \in Invocations, ProcessError(i) PROVE QBody'
  BY <1>9 DEF ProcessError, Goto
<1>10. ASSUME NEW i \in Invocations, MarkOk(i) PROVE QBody'
  BY <1>10 DEF MarkOk, NextRecord, Completed
<1>11. ASSUME NEW i \in Invocations, MarkError(i) PROVE QBody'
  BY <1>11 DEF MarkError, Goto, Completed
<1>12. ASSUME NEW i \in Invocations, ReleaseOk(i) PROVE QBody'
  BY <1>12 DEF ReleaseOk, NextRecord, Released
<1>13. ASSUME NEW i \in Invocations, ReleaseError(i) PROVE QBody'
  BY <1>13 DEF ReleaseError, NextRecord
<1>14. ASSUME NEW i \in Invocations, Report(i) PROVE QBody'
  BY <1>14 DEF Report, EndInvocation, Acknowledged
<1>15. ASSUME NEW i \in Invocations, Crash(i) PROVE QBody'
  BY <1>15 DEF Crash, EndInvocation
<1>16. CASE UNCHANGED vars
  BY <1>16 DEF vars
<1>17. QED
  BY <1>1, <1>2, <1>3, <1>4, <1>5, <1>6, <1>7, <1>8, <1>9, <1>10, <1>11, <1>12,
     <1>13, <1>14, <1>15, <1>16 DEF Next, Step, Poll

\* When nothing fails, a message that parses is received once and never
\* dead-lettered, whatever else is in its batch: only the malformed records are
\* reported as failures.
THEOREM PoisonIsolatedHolds == Spec => []PoisonIsolated
<1>1. QInv => PoisonIsolated
  BY DEF QInv, QBody, PoisonIsolated
<1>2. QED
  BY LInvHolds, QInvInit, QInvNext, <1>1, PTL DEF Spec
=============================================================================

------------------------- MODULE IngestEventProofs -------------------------
(***************************************************************************)
(* Theorems about IngestEvent, for any clients, events, keys and number of *)
(* attempts, and for every environment.                                    *)
(***************************************************************************)
EXTENDS IngestEvent, FiniteSetTheorems, TLAPS

\* An attempt passes validation or is answered there; a valid request for an
\* acceptable event passes.
Judged(e, n) ==
    /\ rows' = rows /\ pc[<<e, n>>] = "validate"
    /\ \/ /\ ~(Accepted(e) /\ Verdicts[e] = {0})
          /\ \E code \in {400, 401, 403} : Answer(<<e, n>>, code)
       \/ Accepted(e) /\ Goto(<<e, n>>, "insert")
       \/ Accepted(e) /\ KeyOf[e] # NoKey /\ Goto(<<e, n>>, "lookup")

LEMMA ValidateCases ==
    ASSUME NEW e \in Events, NEW n \in 1 .. MaxAttempts, Validate(e, n)
    PROVE  Judged(e, n)
<1>1. CASE \E verdict \in Verdicts[e] \ {0} : Answer(<<e, n>>, verdict)
  <2>1. PICK verdict \in Verdicts[e] \ {0} : Answer(<<e, n>>, verdict)
    BY <1>1
  <2>2. verdict \in {400, 401, 403} /\ Verdicts[e] # {0}
    BY <2>1, IngestAssumption
  <2>3. QED
    BY <2>1, <2>2 DEF Validate, Judged
<1>2. CASE ~Accepted(e) /\ Answer(<<e, n>>, 400)
  BY <1>2 DEF Validate, Judged
<1>3. CASE Accepted(e) /\ KeyOf[e] = NoKey /\ Goto(<<e, n>>, "insert")
  BY <1>3 DEF Validate, Judged
<1>4. CASE Accepted(e) /\ KeyOf[e] # NoKey /\ Goto(<<e, n>>, "lookup")
  BY <1>4 DEF Validate, Judged
<1>5. QED
  BY <1>1, <1>2, <1>3, <1>4 DEF Validate

\* The state stays well-typed.
LEMMA TypeInit == Init => TypeOK
BY IngestAssumption DEF Init, TypeOK, Attempts

\* What a step of the handler leaves behind is well-typed.
LEMMA AnswerTyped ==
    ASSUME TypeOK, NEW a \in Attempts,
           NEW code \in {0, 200, 201, 400, 401, 403, 500},
           Answer(a, code), rows' \subseteq Attempts
    PROVE  TypeOK'
BY DEF TypeOK, Answer

LEMMA GotoTyped ==
    ASSUME TypeOK, NEW a \in Attempts, NEW s \in {"lookup", "insert"},
           Goto(a, s), rows' \subseteq Attempts
    PROVE  TypeOK'
BY DEF TypeOK, Goto

LEMMA TypeNext == TypeOK /\ [Next]_vars => TypeOK'
<1> SUFFICES ASSUME TypeOK, [Next]_vars PROVE TypeOK'
  OBVIOUS
<1>0. /\ rows \subseteq Attempts
      /\ \A e \in Events, n \in 1 .. MaxAttempts : <<e, n>> \in Attempts
  BY DEF TypeOK, Attempts
<1>1. ASSUME NEW e \in Events, Send(e) PROVE TypeOK'
  BY <1>1, IngestAssumption DEF TypeOK, Attempts, Send, Latest, Unanswered
<1>2. ASSUME NEW e \in Events, NEW n \in 1 .. MaxAttempts, Validate(e, n)
      PROVE TypeOK'
  <2>1. Judged(e, n)
    BY <1>2, ValidateCases
  <2>2. rows' \subseteq Attempts
    BY <1>0, <2>1 DEF Judged
  <2>3. CASE \E code \in {400, 401, 403} : Answer(<<e, n>>, code)
    BY <1>0, <2>2, <2>3, AnswerTyped
  <2>4. CASE Goto(<<e, n>>, "insert")
    BY <1>0, <2>2, <2>4, GotoTyped
  <2>5. CASE Goto(<<e, n>>, "lookup")
    BY <1>0, <2>2, <2>5, GotoTyped
  <2>6. QED
    BY <2>1, <2>3, <2>4, <2>5 DEF Judged
<1>3. ASSUME NEW e \in Events, NEW n \in 1 .. MaxAttempts, Lookup(e, n)
      PROVE TypeOK'
  <2>1. /\ rows' \subseteq Attempts
        /\ Answer(<<e, n>>, 200) \/ Goto(<<e, n>>, "insert")
    BY <1>0, <1>3 DEF Lookup
  <2>2. QED
    BY <1>0, <2>1, AnswerTyped, GotoTyped
<1>4. ASSUME NEW e \in Events, NEW n \in 1 .. MaxAttempts,
             ValidateError(e, n) \/ LookupError(e, n)
      PROVE TypeOK'
  <2>1. rows' \subseteq Attempts /\ Answer(<<e, n>>, 500)
    BY <1>0, <1>4 DEF ValidateError, LookupError
  <2>2. QED
    BY <1>0, <2>1, AnswerTyped
<1>5. ASSUME NEW e \in Events, NEW n \in 1 .. MaxAttempts, Insert(e, n)
      PROVE TypeOK'
  <2>1. rows' \subseteq Attempts /\ Answer(<<e, n>>, 201)
    BY <1>0, <1>5 DEF Insert
  <2>2. QED
    BY <1>0, <2>1, AnswerTyped
<1>6. ASSUME NEW e \in Events, NEW n \in 1 .. MaxAttempts, InsertError(e, n)
      PROVE TypeOK'
  <2>1. rows' \subseteq Attempts /\ Answer(<<e, n>>, 500)
    BY <1>0, <1>6 DEF InsertError
  <2>2. QED
    BY <1>0, <2>1, AnswerTyped
<1>7. ASSUME NEW e \in Events, NEW n \in 1 .. MaxAttempts, Crash(e, n)
      PROVE TypeOK'
  <2>1. rows' \subseteq Attempts /\ Answer(<<e, n>>, 0)
    BY <1>0, <1>7 DEF Crash
  <2>2. QED
    BY <1>0, <2>1, AnswerTyped
<1>8. CASE UNCHANGED vars
  BY <1>8 DEF TypeOK, vars
<1>9. QED
  BY <1>1, <1>2, <1>3, <1>4, <1>5, <1>6, <1>7, <1>8 DEF Next, Serve

\* Type correctness of the handler.
THEOREM TypeCorrect == Spec => []TypeOK
BY TypeInit, TypeNext, PTL DEF Spec

----------------------------------------------------------------------------
(***************************************************************************)
(* Billing.  The lookup is not enough, for two attempts may pass it: what  *)
(* keeps keyed rows apart is the constraint that Insert obeys.             *)
(***************************************************************************)

\* UNIQUE (tenant_id, idempotency_key).
UniqueKeys ==
    \A a, b \in rows :
        /\ TenantOf[a[1]] = TenantOf[b[1]]
        /\ KeyOf[a[1]] = KeyOf[b[1]] /\ KeyOf[a[1]] # NoKey
        => a = b

LEMMA UniqueInit == Init => UniqueKeys
BY DEF Init, UniqueKeys

LEMMA UniqueNext == TypeOK /\ UniqueKeys /\ [Next]_vars => UniqueKeys'
<1> SUFFICES ASSUME TypeOK, UniqueKeys, [Next]_vars PROVE UniqueKeys'
  OBVIOUS
<1> USE DEF TypeOK, Attempts, UniqueKeys
<1>1. ASSUME NEW e \in Events, Send(e) PROVE UniqueKeys'
  BY <1>1 DEF Send, Latest, Unanswered
<1>2. ASSUME NEW e \in Events, NEW n \in 1 .. MaxAttempts, Validate(e, n)
      PROVE UniqueKeys'
  <2>1. Judged(e, n)
    BY <1>2, ValidateCases
  <2>2. QED
    BY <2>1 DEF Judged, Goto, Answer
<1>3. ASSUME NEW e \in Events, NEW n \in 1 .. MaxAttempts, Lookup(e, n)
      PROVE UniqueKeys'
  BY <1>3 DEF Lookup, Goto, Answer
<1>4. ASSUME NEW e \in Events, NEW n \in 1 .. MaxAttempts,
             ValidateError(e, n) \/ LookupError(e, n)
      PROVE UniqueKeys'
  BY <1>4 DEF ValidateError, LookupError, Answer
<1>5. ASSUME NEW e \in Events, NEW n \in 1 .. MaxAttempts, Insert(e, n)
      PROVE UniqueKeys'
  BY <1>5 DEF Insert, ViolatesUnique, SameKey, Answer
<1>6. ASSUME NEW e \in Events, NEW n \in 1 .. MaxAttempts, InsertError(e, n)
      PROVE UniqueKeys'
  BY <1>6 DEF InsertError, ViolatesUnique, SameKey, Answer
<1>7. ASSUME NEW e \in Events, NEW n \in 1 .. MaxAttempts, Crash(e, n)
      PROVE UniqueKeys'
  BY <1>7 DEF Crash, Answer
<1>8. CASE UNCHANGED vars
  BY <1>8 DEF vars
<1>9. QED
  BY <1>1, <1>2, <1>3, <1>4, <1>5, <1>6, <1>7, <1>8 DEF Next, Serve

\* Only an acceptable event reaches the table.
AcceptedRows ==
    /\ \A a \in Attempts : pc[a] \in {"lookup", "insert"} => Accepted(a[1])
    /\ \A a \in rows : Accepted(a[1])

LEMMA AcceptedInit == Init => AcceptedRows
BY DEF Init, AcceptedRows

LEMMA AcceptedNext == TypeOK /\ AcceptedRows /\ [Next]_vars => AcceptedRows'
<1> SUFFICES ASSUME TypeOK, AcceptedRows, [Next]_vars PROVE AcceptedRows'
  OBVIOUS
<1> USE DEF TypeOK, Attempts, AcceptedRows
<1>0. \A e \in Events : Accepted(e)' = Accepted(e)
  BY DEF Accepted
<1>1. ASSUME NEW e \in Events, Send(e) PROVE AcceptedRows'
  BY <1>0, <1>1 DEF Send
<1>2. ASSUME NEW e \in Events, NEW n \in 1 .. MaxAttempts, Validate(e, n)
      PROVE AcceptedRows'
  <2>1. Judged(e, n)
    BY <1>2, ValidateCases
  <2>2. QED
    BY <1>0, <2>1 DEF Judged, Goto, Answer
<1>3. ASSUME NEW e \in Events, NEW n \in 1 .. MaxAttempts, Lookup(e, n)
      PROVE AcceptedRows'
  BY <1>0, <1>3 DEF Lookup, Goto, Answer
<1>4. ASSUME NEW e \in Events, NEW n \in 1 .. MaxAttempts,
             ValidateError(e, n) \/ LookupError(e, n) \/ Crash(e, n)
      PROVE AcceptedRows'
  BY <1>0, <1>4 DEF ValidateError, LookupError, Crash, Answer
<1>5. ASSUME NEW e \in Events, NEW n \in 1 .. MaxAttempts,
             Insert(e, n) \/ InsertError(e, n)
      PROVE AcceptedRows'
  BY <1>0, <1>5 DEF Insert, InsertError, Answer
<1>6. CASE UNCHANGED vars
  BY <1>0, <1>6 DEF vars
<1>7. QED
  BY <1>1, <1>2, <1>3, <1>4, <1>5, <1>6 DEF Next, Serve

LEMMA UniqueBillsOnce == TypeOK /\ UniqueKeys /\ AcceptedRows => BilledOnce
<1> SUFFICES ASSUME TypeOK, UniqueKeys, AcceptedRows,
                    NEW e \in Events, KeyOf[e] # NoKey, QuantityOf[e] # 0
             PROVE  Billed(e) \in {0, Reported(e)}
  BY DEF BilledOnce
<1>1. StoredQuantity(e) \in Nat
  BY IngestAssumption DEF StoredQuantity
<1>2. CASE RowsOf(e) = {}
  <2>1. Cardinality(RowsOf(e)) = 0
    BY <1>2, FS_EmptySet
  <2>2. Billed(e) = 0
    BY <1>1, <2>1 DEF Billed
  <2>3. QED
    BY <2>2
<1>3. CASE RowsOf(e) # {}
  <2>1. PICK n \in 1 .. MaxAttempts : <<e, n>> \in rows
    BY <1>3 DEF RowsOf
  <2>2. ASSUME NEW k \in 1 .. MaxAttempts, <<e, k>> \in rows PROVE k = n
    BY <2>1, <2>2 DEF UniqueKeys
  <2>3. RowsOf(e) = {n}
    BY <2>1, <2>2 DEF RowsOf
  <2>4. Cardinality(RowsOf(e)) = 1
    BY <2>3, FS_Singleton
  <2>5. QuantityOf[e] # BadQuantity
    BY <2>1 DEF AcceptedRows, Accepted
  <2>6. StoredQuantity(e) = Reported(e)
    BY <2>5, IngestAssumption DEF StoredQuantity, Reported
  <2>7. QED
    BY <1>1, <2>4, <2>6 DEF Billed
<1>4. QED
  BY <1>2, <1>3

\* However often and however concurrently a keyed event is sent, and whatever
\* fails, it is billed what was reported or nothing.
THEOREM BilledOnceHolds == Spec => []BilledOnce
BY TypeInit, TypeNext, UniqueInit, UniqueNext, AcceptedInit, AcceptedNext,
   UniqueBillsOnce, PTL DEF Spec

----------------------------------------------------------------------------

\* Only an attempt that has ended has a row, and those to come have not begun.
RowsAreDone ==
    /\ \A a \in rows : pc[a] = "done"
    /\ \A a \in Attempts : a[2] > attempts[a[1]] => pc[a] = "idle"

FInv == RowsAreDone /\ FailureLeavesNothing

LEMMA FInvInit == Init => FInv
BY DEF Init, Attempts, FInv, RowsAreDone, FailureLeavesNothing

LEMMA FInvNext == TypeOK /\ FInv /\ [Next]_vars => FInv'
<1> SUFFICES ASSUME TypeOK, FInv, [Next]_vars PROVE FInv'
  OBVIOUS
<1> USE IngestAssumption DEF TypeOK, Attempts, FInv, RowsAreDone, FailureLeavesNothing
<1>1. ASSUME NEW e \in Events, Send(e) PROVE FInv'
  BY <1>1 DEF Send, Latest, Unanswered
<1>2. ASSUME NEW e \in Events, NEW n \in 1 .. MaxAttempts, Validate(e, n)
      PROVE FInv'
  <2>1. Judged(e, n)
    BY <1>2, ValidateCases
  <2>2. /\ UNCHANGED <<faults, attempts, rows>>
        /\ \A a \in Attempts : a # <<e, n>> => pc'[a] = pc[a] /\ answer'[a] = answer[a]
    BY <2>1 DEF Judged, Goto, Answer
  <2>3. <<e, n>> \in Attempts /\ pc[<<e, n>>] = "validate"
    BY <2>1 DEF Judged
  <2>4. <<e, n>> \notin rows /\ ~(n > attempts[e])
    BY <2>3
  <2>5. RowsAreDone'
    BY <2>2, <2>4
  <2>6. FailureLeavesNothing'
    BY <2>2, <2>4
  <2>7. QED
    BY <2>5, <2>6
<1>3. ASSUME NEW e \in Events, NEW n \in 1 .. MaxAttempts, Lookup(e, n)
      PROVE FInv'
  <2>1. /\ UNCHANGED <<faults, attempts, rows>>
        /\ \A a \in Attempts : a # <<e, n>> => pc'[a] = pc[a] /\ answer'[a] = answer[a]
    BY <1>3 DEF Lookup, Goto, Answer
  <2>2. <<e, n>> \in Attempts /\ pc[<<e, n>>] = "lookup"
    BY <1>3 DEF Lookup
  <2>3. <<e, n>> \notin rows /\ ~(n > attempts[e])
    BY <2>2
  <2>4. RowsAreDone'
    BY <2>1, <2>3
  <2>5. FailureLeavesNothing'
    BY <2>1, <2>3
  <2>6. QED
    BY <2>4, <2>5
<1>4. ASSUME NEW e \in Events, NEW n \in 1 .. MaxAttempts,
             ValidateError(e, n) \/ LookupError(e, n)
      PROVE FInv'
  <2>1. /\ UNCHANGED <<faults, attempts, rows>>
        /\ \A a \in Attempts : a # <<e, n>> => pc'[a] = pc[a] /\ answer'[a] = answer[a]
    BY <1>4 DEF ValidateError, LookupError, Answer
  <2>2. <<e, n>> \in Attempts /\ pc[<<e, n>>] \in {"validate", "lookup"}
    BY <1>4 DEF ValidateError, LookupError
  <2>3. <<e, n>> \notin rows /\ ~(n > attempts[e])
    BY <2>2
  <2>4. RowsAreDone'
    BY <2>1, <2>3
  <2>5. FailureLeavesNothing'
    BY <2>1, <2>3
  <2>6. QED
    BY <2>4, <2>5
<1>5. ASSUME NEW e \in Events, NEW n \in 1 .. MaxAttempts, Insert(e, n)
      PROVE FInv'
  BY <1>5 DEF Insert, ViolatesUnique, SameKey, Answer
<1>6. ASSUME NEW e \in Events, NEW n \in 1 .. MaxAttempts, InsertError(e, n)
      PROVE FInv'
  <2>1. /\ rows' = rows \/ ("insert_reply_lost" \in faults /\ rows' = rows \cup {<<e, n>>})
        /\ pc[<<e, n>>] = "insert" /\ pc' = [pc EXCEPT ![<<e, n>>] = "done"]
        /\ answer' = [answer EXCEPT ![<<e, n>>] = 500] /\ UNCHANGED <<faults, attempts>>
    BY <1>6 DEF InsertError, Answer
  <2>2. <<e, n>> \in Attempts /\ <<e, n>> \notin rows
    BY <2>1
  <2>3. RowsAreDone'
    BY <2>1, <2>2
  <2>4. FailureLeavesNothing'
    BY <2>1, <2>2
  <2>5. QED
    BY <2>3, <2>4
<1>7. ASSUME NEW e \in Events, NEW n \in 1 .. MaxAttempts, Crash(e, n)
      PROVE FInv'
  BY <1>7 DEF Crash, Answer
<1>8. CASE UNCHANGED vars
  BY <1>8 DEF vars
<1>9. QED
  BY <1>1, <1>2, <1>3, <1>4, <1>5, <1>6, <1>7, <1>8 DEF Next, Serve

\* If no reply is lost and no Lambda dies, only an attempt that was answered 201
\* has a row: the handler throws nothing after its insert.
THEOREM FailureLeavesNothingHolds == Spec => []FailureLeavesNothing
<1>1. FInv => FailureLeavesNothing
  BY DEF FInv
<1>2. QED
  BY TypeInit, TypeNext, FInvInit, FInvNext, <1>1, PTL DEF Spec

----------------------------------------------------------------------------
(***************************************************************************)
(* What an answer stands for.                                              *)
(***************************************************************************)

\* A client's keys are its own: a row that the lookup or the constraint finds
\* for event e is a row of event e.
LEMMA SameKeySameEvent ==
    ASSUME TypeOK, NEW e \in Events, KeyOf[e] # NoKey, NEW a \in SameKey(e)
    PROVE  a[2] \in RowsOf(e) /\ a = <<e, a[2]>>
<1>1. a \in rows /\ a \in Attempts /\ TenantOf[a[1]] = TenantOf[e] /\ KeyOf[a[1]] = KeyOf[e]
  BY DEF SameKey, TypeOK
<1>2. a[1] \in Events /\ a[2] \in 1 .. MaxAttempts /\ a = <<a[1], a[2]>>
  BY <1>1 DEF Attempts
<1>3. a[1] = e
  BY <1>1, <1>2, KeysAreDistinct
<1>4. QED
  BY <1>1, <1>2, <1>3 DEF RowsOf

LEMMA SameKeySays ==
    ASSUME TypeOK, NEW e \in Events, KeyOf[e] # NoKey, SameKey(e) # {}
    PROVE  \E k \in 1 .. MaxAttempts : <<e, k>> \in rows
BY SameKeySameEvent DEF RowsOf

\* The two ways a step of an attempt leaves the others alone.
LEMMA GotoSays ==
    ASSUME TypeOK, NEW e \in Events, NEW n \in 1 .. MaxAttempts, NEW s, Goto(<<e, n>>, s)
    PROVE  /\ faults' = faults /\ attempts' = attempts /\ answer' = answer
           /\ pc'[<<e, n>>] = s
           /\ \A f \in Events, k \in 1 .. MaxAttempts :
                 f # e \/ k # n => pc'[<<f, k>>] = pc[<<f, k>>]
BY DEF TypeOK, Attempts, Goto

LEMMA AnswerSays ==
    ASSUME TypeOK, NEW e \in Events, NEW n \in 1 .. MaxAttempts, NEW code,
           Answer(<<e, n>>, code)
    PROVE  /\ faults' = faults /\ attempts' = attempts
           /\ pc'[<<e, n>>] = "done" /\ answer'[<<e, n>>] = code
           /\ \A f \in Events, k \in 1 .. MaxAttempts :
                 f # e \/ k # n => /\ pc'[<<f, k>>] = pc[<<f, k>>]
                                  /\ answer'[<<f, k>>] = answer[<<f, k>>]
BY DEF TypeOK, Attempts, Answer

\* Only keyed events are looked up, and a patient client has one attempt open.
OneOpen ==
    \A e \in Events, n \in 1 .. MaxAttempts :
        /\ pc[<<e, n>>] = "lookup" => KeyOf[e] # NoKey
        /\ n < attempts[e] /\ "impatient" \notin faults => pc[<<e, n>>] = "done"

AInv == OneOpen /\ SuccessIsCounted

LEMMA AInvInit == Init => AInv
BY DEF Init, AInv, OneOpen, SuccessIsCounted, Attempts

LEMMA AInvGoto ==
    ASSUME TypeOK, AInv, NEW e \in Events, NEW n \in 1 .. MaxAttempts, NEW s,
           pc[<<e, n>>] # "done", s = "lookup" => KeyOf[e] # NoKey,
           Goto(<<e, n>>, s), rows' = rows
    PROVE  AInv'
<1>1. /\ faults' = faults /\ attempts' = attempts /\ answer' = answer
      /\ pc'[<<e, n>>] = s
      /\ \A f \in Events, k \in 1 .. MaxAttempts :
            f # e \/ k # n => pc'[<<f, k>>] = pc[<<f, k>>]
  BY GotoSays
<1>2. QED
  BY <1>1 DEF AInv, OneOpen, SuccessIsCounted, RowsOf

LEMMA AInvAnswer ==
    ASSUME TypeOK, AInv, NEW e \in Events, NEW n \in 1 .. MaxAttempts, NEW code,
           Answer(<<e, n>>, code), rows \subseteq rows',
           code = 201 => <<e, n>> \in rows',
           code = 200 => \E k \in 1 .. MaxAttempts :
                             <<e, k>> \in rows' /\ (k < n \/ "impatient" \in faults)
    PROVE  AInv'
<1>1. /\ faults' = faults /\ attempts' = attempts
      /\ pc'[<<e, n>>] = "done" /\ answer'[<<e, n>>] = code
      /\ \A f \in Events, k \in 1 .. MaxAttempts :
            f # e \/ k # n => /\ pc'[<<f, k>>] = pc[<<f, k>>]
                             /\ answer'[<<f, k>>] = answer[<<f, k>>]
  BY AnswerSays
<1>2. QED
  BY <1>1 DEF AInv, OneOpen, SuccessIsCounted, RowsOf

\* A row that the lookup of a patient client finds is of an earlier attempt: the
\* later ones have not begun.
LEMMA FoundIsEarlier ==
    ASSUME TypeOK, FInv, AInv, NEW e \in Events, NEW n \in 1 .. MaxAttempts,
           pc[<<e, n>>] = "lookup", SameKey(e) # {}
    PROVE  \E k \in 1 .. MaxAttempts :
               <<e, k>> \in rows /\ (k < n \/ "impatient" \in faults)
<1>1. KeyOf[e] # NoKey
  BY DEF AInv, OneOpen
<1>2. PICK k \in 1 .. MaxAttempts : <<e, k>> \in rows
  BY <1>1, SameKeySays
<1>3. pc[<<e, k>>] = "done" /\ k <= attempts[e]
  <2>1. <<e, k>> \in Attempts /\ attempts[e] \in Nat
    BY DEF Attempts, TypeOK
  <2>2. k > attempts[e] => pc[<<e, k>>] = "idle"
    BY <2>1 DEF FInv, RowsAreDone
  <2>3. QED
    BY <1>2, <2>1, <2>2 DEF FInv, RowsAreDone
<1>4. "impatient" \notin faults => ~(n < attempts[e])
  BY DEF AInv, OneOpen
<1>5. attempts[e] \in Nat /\ n \in Nat /\ k \in Nat /\ MaxAttempts \in Nat
  BY IngestAssumption DEF TypeOK
<1>6. k # n
  BY <1>3
<1>7. "impatient" \notin faults => k < n
  BY <1>3, <1>4, <1>5, <1>6
<1>8. QED
  BY <1>2, <1>7

LEMMA AInvSend ==
    ASSUME TypeOK, AInv, NEW f \in Events, Send(f)
    PROVE  AInv'
<1>1. attempts[f] + 1 \in 1 .. MaxAttempts
  BY IngestAssumption DEF Send, TypeOK
<1>2. \A e \in Events, n \in 1 .. MaxAttempts :
         /\ e # f \/ n # attempts[f] + 1 => pc'[<<e, n>>] = pc[<<e, n>>]
         /\ pc'[<<e, n>>] = "lookup" => pc[<<e, n>>] = "lookup"
  BY <1>1 DEF Send, TypeOK, Attempts
<1>3. \A e \in Events :
         attempts'[e] = IF e = f THEN attempts[f] + 1 ELSE attempts[e]
  BY DEF Send, TypeOK
<1>4. "impatient" \notin faults =>
         \A n \in 1 .. MaxAttempts : n < attempts[f] + 1 => pc[<<f, n>>] = "done"
  BY <1>1 DEF Send, Latest, AInv, OneOpen, TypeOK
<1>5. faults' = faults /\ answer' = answer /\ rows' = rows
  BY DEF Send
<1>6. ASSUME NEW e \in Events, NEW n \in 1 .. MaxAttempts
      PROVE  /\ pc'[<<e, n>>] = "lookup" => KeyOf[e] # NoKey
             /\ n < attempts'[e] /\ "impatient" \notin faults' => pc'[<<e, n>>] = "done"
             /\ answer'[<<e, n>>] = 201 => n \in RowsOf(e)'
             /\ answer'[<<e, n>>] = 200 =>
                   \E k \in RowsOf(e)' : k < n \/ "impatient" \in faults'
  BY <1>1, <1>2, <1>3, <1>4, <1>5
     DEF AInv, OneOpen, SuccessIsCounted, RowsOf, TypeOK
<1>7. QED
  BY <1>6 DEF AInv, OneOpen, SuccessIsCounted

LEMMA AInvNext == TypeOK /\ FInv /\ AInv /\ [Next]_vars => AInv'
<1> SUFFICES ASSUME TypeOK, FInv, AInv, [Next]_vars PROVE AInv'
  OBVIOUS
<1>1. ASSUME NEW e \in Events, Send(e) PROVE AInv'
  BY <1>1, AInvSend
<1>2. ASSUME NEW e \in Events, NEW n \in 1 .. MaxAttempts, Validate(e, n)
      PROVE AInv'
  <2>1. rows' = rows /\ pc[<<e, n>>] = "validate"
    BY <1>2, ValidateCases DEF Judged
  <2>2. CASE \E code \in {400, 401, 403} : Answer(<<e, n>>, code)
    BY <2>1, <2>2, AInvAnswer
  <2>3. CASE Goto(<<e, n>>, "insert")
    BY <2>1, <2>3, AInvGoto
  <2>4. CASE KeyOf[e] # NoKey /\ Goto(<<e, n>>, "lookup")
    BY <2>1, <2>4, AInvGoto
  <2>5. QED
    BY <1>2, <2>2, <2>3, <2>4, ValidateCases DEF Judged
<1>3. ASSUME NEW e \in Events, NEW n \in 1 .. MaxAttempts, Lookup(e, n)
      PROVE AInv'
  <2>1. CASE SameKey(e) # {}
    BY <1>3, <2>1, FoundIsEarlier, AInvAnswer DEF Lookup
  <2>2. CASE SameKey(e) = {}
    BY <1>3, <2>2, AInvGoto DEF Lookup
  <2>3. QED
    BY <2>1, <2>2
<1>4. ASSUME NEW e \in Events, NEW n \in 1 .. MaxAttempts,
             \/ ValidateError(e, n) \/ LookupError(e, n) \/ Insert(e, n)
             \/ InsertError(e, n) \/ Crash(e, n)
      PROVE AInv'
  BY <1>4, AInvAnswer DEF ValidateError, LookupError, Insert, InsertError, Crash
<1>5. CASE UNCHANGED vars
  BY <1>5 DEF vars, AInv, OneOpen, SuccessIsCounted, RowsOf
<1>6. QED
  BY <1>1, <1>2, <1>3, <1>4, <1>5 DEF Next, Serve

\* Whatever fails, a 201 stands for a row of this attempt and a 200 for a row of
\* another attempt of the same event, an earlier one if its client is patient.
THEOREM SuccessIsCountedHolds == Spec => []SuccessIsCounted
<1>1. AInv => SuccessIsCounted
  BY DEF AInv
<1>2. QED
  BY TypeInit, TypeNext, FInvInit, FInvNext, AInvInit, AInvNext, <1>1, PTL DEF Spec

\* Where the server does not fail, an attempt of a valid event ends only once
\* the event has a row: a loser of the race for the key finds the winner's.
EndedHasRow ==
    faults \subseteq {"impatient"} =>
        \A e \in Events, n \in 1 .. MaxAttempts :
            Accepted(e) /\ Verdicts[e] = {0} /\ pc[<<e, n>>] = "done"
            => RowsOf(e) # {}

LEMMA EndedInit == Init => EndedHasRow
BY DEF Init, EndedHasRow, Attempts

LEMMA EndedAnswer ==
    ASSUME TypeOK, EndedHasRow, NEW e \in Events, NEW n \in 1 .. MaxAttempts, NEW code,
           Answer(<<e, n>>, code), rows \subseteq rows',
           faults \subseteq {"impatient"} /\ Accepted(e) /\ Verdicts[e] = {0} =>
               \E k \in 1 .. MaxAttempts : <<e, k>> \in rows'
    PROVE  EndedHasRow'
<1>1. /\ faults' = faults
      /\ \A f \in Events, k \in 1 .. MaxAttempts :
            f # e \/ k # n => pc'[<<f, k>>] = pc[<<f, k>>]
  BY AnswerSays
<1>2. QED
  BY <1>1 DEF EndedHasRow, RowsOf, Accepted

LEMMA EndedNext == TypeOK /\ OneOpen /\ EndedHasRow /\ [Next]_vars => EndedHasRow'
<1> SUFFICES ASSUME TypeOK, OneOpen, EndedHasRow, [Next]_vars PROVE EndedHasRow'
  OBVIOUS
<1>1. ASSUME NEW e \in Events, Send(e) PROVE EndedHasRow'
  <2>1. \A f \in Events, n \in 1 .. MaxAttempts :
           pc'[<<f, n>>] = "done" => pc[<<f, n>>] = "done"
    BY <1>1 DEF Send, TypeOK, Attempts
  <2>2. QED
    BY <1>1, <2>1 DEF Send, EndedHasRow, RowsOf, Accepted
<1>2. ASSUME NEW e \in Events, NEW n \in 1 .. MaxAttempts, NEW s,
             Goto(<<e, n>>, s), s # "done", rows' = rows
      PROVE EndedHasRow'
  <2>1. /\ faults' = faults /\ pc'[<<e, n>>] = s
        /\ \A f \in Events, k \in 1 .. MaxAttempts :
              f # e \/ k # n => pc'[<<f, k>>] = pc[<<f, k>>]
    BY <1>2, GotoSays
  <2>2. QED
    BY <1>2, <2>1 DEF EndedHasRow, RowsOf, Accepted
<1>3. ASSUME NEW e \in Events, NEW n \in 1 .. MaxAttempts, Validate(e, n)
      PROVE EndedHasRow'
  <2>1. rows' = rows
    BY <1>3, ValidateCases DEF Judged
  <2>2. CASE /\ ~(Accepted(e) /\ Verdicts[e] = {0})
             /\ \E code \in {400, 401, 403} : Answer(<<e, n>>, code)
    BY <2>1, <2>2, EndedAnswer
  <2>3. CASE Goto(<<e, n>>, "insert") \/ Goto(<<e, n>>, "lookup")
    BY <1>2, <2>1, <2>3
  <2>4. QED
    BY <1>3, <2>2, <2>3, ValidateCases DEF Judged
<1>4. ASSUME NEW e \in Events, NEW n \in 1 .. MaxAttempts, Lookup(e, n)
      PROVE EndedHasRow'
  <2>1. KeyOf[e] # NoKey
    BY <1>4 DEF Lookup, OneOpen
  <2>2. CASE SameKey(e) # {}
    BY <1>4, <2>1, <2>2, SameKeySays, EndedAnswer DEF Lookup
  <2>3. CASE SameKey(e) = {}
    BY <1>2, <1>4, <2>3 DEF Lookup
  <2>4. QED
    BY <2>2, <2>3
<1>5. ASSUME NEW e \in Events, NEW n \in 1 .. MaxAttempts, Insert(e, n)
      PROVE EndedHasRow'
  BY <1>5, EndedAnswer DEF Insert
<1>6. ASSUME NEW e \in Events, NEW n \in 1 .. MaxAttempts, InsertError(e, n)
      PROVE EndedHasRow'
  <2>1. CASE ViolatesUnique(e) /\ UNCHANGED rows
    BY <1>6, <2>1, SameKeySays, EndedAnswer DEF InsertError, ViolatesUnique
  <2>2. CASE ~(faults \subseteq {"impatient"})
    BY <1>6, <2>2, EndedAnswer DEF InsertError
  <2>3. QED
    BY <1>6, <2>1, <2>2 DEF InsertError
<1>7. ASSUME NEW e \in Events, NEW n \in 1 .. MaxAttempts,
             ValidateError(e, n) \/ LookupError(e, n) \/ Crash(e, n)
      PROVE EndedHasRow'
  BY <1>7, EndedAnswer DEF ValidateError, LookupError, Crash
<1>8. CASE UNCHANGED vars
  BY <1>8 DEF vars, EndedHasRow, RowsOf, Accepted
<1>9. QED
  BY <1>1, <1>3, <1>4, <1>5, <1>6, <1>7, <1>8 DEF Next, Serve

\* An event whose attempts all ended without a server fault is counted, by an
\* attempt that was answered 201.
THEOREM EndedIsCountedHolds == Spec => []EndedIsCounted
<1>1. TypeOK /\ FInv /\ EndedHasRow => EndedIsCounted
  <2> SUFFICES ASSUME TypeOK, FInv, EndedHasRow, NEW e \in Events, Accepted(e),
                      Verdicts[e] = {0}, faults \subseteq {"impatient"}, attempts[e] > 0,
                      \A n \in 1 .. attempts[e] : pc[<<e, n>>] = "done"
               PROVE  \E n \in RowsOf(e) : answer[<<e, n>>] = 201
    BY DEF EndedIsCounted
  <2>1. pc[<<e, 1>>] = "done" /\ 1 \in 1 .. MaxAttempts
    BY IngestAssumption DEF TypeOK
  <2>2. PICK n \in RowsOf(e) : TRUE
    BY <2>1 DEF EndedHasRow
  <2>3. answer[<<e, n>>] = 201
    BY <2>2 DEF RowsOf, FInv, FailureLeavesNothing
  <2>4. QED
    BY <2>3
<1>2. QED
  <2>1. AInv => OneOpen
    BY DEF AInv
  <2>2. QED
    BY TypeInit, TypeNext, FInvInit, FInvNext, AInvInit, AInvNext, <2>1,
       EndedInit, EndedNext, <1>1, PTL DEF Spec
=============================================================================

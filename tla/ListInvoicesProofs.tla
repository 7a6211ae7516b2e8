------------------------ MODULE ListInvoicesProofs ------------------------
(***************************************************************************)
(* Theorems about ListInvoices, for every number of invoices, every limit  *)
(* and every precision of the clock: what a client gets that follows       *)
(* nextCursor while other transactions commit.                             *)
(***************************************************************************)
EXTENDS ListInvoices, FiniteSetTheorems, WellFoundedInduction, TLAPS

(***************************************************************************)
(* The order of the query.                                                 *)
(***************************************************************************)

Timed == createdAt \in [Invoices -> 0 .. MaxTime]

LEMMA TimesAreNumbers ==
    ASSUME Timed, NEW i \in Invoices
    PROVE  i \in Nat /\ createdAt[i] \in Nat
  <1>1. createdAt[i] \in 0 .. MaxTime
    BY DEF Timed
  <1> QED  BY <1>1, ListAssumption

\* ORDER BY created_at DESC, id DESC orders the invoices strictly and totally.
LEMMA PrecedesOrders ==
    ASSUME Timed
    PROVE  /\ \A i \in Invoices : ~Precedes(i, i)
           /\ \A i, j, k \in Invoices :
                Precedes(i, j) /\ Precedes(j, k) => Precedes(i, k)
           /\ \A i, j \in Invoices : i = j \/ Precedes(i, j) \/ Precedes(j, i)
  <1>1. \A i \in Invoices : i \in Nat /\ createdAt[i] \in Nat
    BY TimesAreNumbers
  <1>2. \A i \in Invoices : ~Precedes(i, i)
    BY <1>1 DEF Precedes
  <1>3. ASSUME NEW i \in Invoices, NEW j \in Invoices, NEW k \in Invoices,
               Precedes(i, j), Precedes(j, k)
        PROVE  Precedes(i, k)
    BY <1>1, <1>3 DEF Precedes
  <1>4. \A i, j \in Invoices : i = j \/ Precedes(i, j) \/ Precedes(j, i)
    BY <1>1 DEF Precedes
  <1> QED  BY <1>2, <1>3, <1>4

\* Of a family of sets of invoices, one has no other below it.
LEMMA SmallestSet ==
    ASSUME NEW F \in SUBSET SUBSET Invoices, F # {}
    PROVE  \E U \in F : \A V \in F : ~(V \subseteq U /\ V # U)
  <1> DEFINE R == StrictSubsetOrdering(Invoices)
  <1>1. IsWellFoundedOn(R, SUBSET Invoices)
    <2>1. FiniteSubsetsOf(Invoices) = SUBSET Invoices
      BY ListAssumption, FS_FiniteSubsetsOfFinite
    <2> QED  BY <2>1, FS_StrictSubsetOrderingWellFounded
  <1>2. \E U \in F : \A V \in F : <<V, U>> \notin R
    <2> HIDE DEF R
    <2> QED  BY <1>1, WFMin
  <1> QED  BY <1>2 DEF StrictSubsetOrdering

\* Every set of rows that is not empty has a first row.
LEMMA FirstExists ==
    ASSUME Timed, NEW rs \in SUBSET Invoices, rs # {}
    PROVE  \E i \in rs : {j \in rs : Precedes(j, i)} = {}
  <1> DEFINE Before(i) == {j \in rs : Precedes(j, i)}
             F == {Before(i) : i \in rs}
  <1>1. PICK U \in F : \A V \in F : ~(V \subseteq U /\ V # U)
    <2>1. F \in SUBSET SUBSET Invoices /\ F # {}
      OBVIOUS
    <2> HIDE DEF F
    <2> QED  BY <2>1, SmallestSet
  <1>2. PICK i \in rs : U = Before(i)
    OBVIOUS
  <1>3. ASSUME NEW k \in Before(i)  PROVE FALSE
    <2>1. Before(k) \subseteq U /\ k \in U /\ k \notin Before(k)
      BY <1>2, <1>3, PrecedesOrders
    <2>2. Before(k) \in F
      OBVIOUS
    <2> QED  BY <1>1, <2>1, <2>2
  <1> QED  BY <1>3

\* Every set of rows that is not empty has a last row, and Last is that row.
LEMMA LastIsLast ==
    ASSUME Timed, NEW rs \in SUBSET Invoices, rs # {}
    PROVE  Last(rs) \in rs /\ \A j \in rs \ {Last(rs)} : Precedes(j, Last(rs))
  <1> DEFINE After(i) == {j \in rs : Precedes(i, j)}
             F == {After(i) : i \in rs}
  <1>1. PICK U \in F : \A V \in F : ~(V \subseteq U /\ V # U)
    <2>1. F \in SUBSET SUBSET Invoices /\ F # {}
      OBVIOUS
    <2> HIDE DEF F
    <2> QED  BY <2>1, SmallestSet
  <1>2. PICK i \in rs : U = After(i)
    OBVIOUS
  <1>3. ASSUME NEW k \in rs \ {i}  PROVE Precedes(k, i)
    <2>1. SUFFICES ASSUME Precedes(i, k)  PROVE FALSE
      BY <1>3, PrecedesOrders
    <2>2. After(k) \subseteq U /\ k \in U /\ k \notin After(k)
      BY <1>2, <1>3, <2>1, PrecedesOrders
    <2>3. After(k) \in F
      OBVIOUS
    <2> QED  BY <1>1, <2>2, <2>3
  <1> QED  BY <1>3 DEF Last

(***************************************************************************)
(* LIMIT: the first n of the rows.                                         *)
(***************************************************************************)

\* The rows before a row, and how many they are.
LEMMA RankType ==
    ASSUME NEW rs \in SUBSET Invoices, NEW i \in rs
    PROVE  /\ IsFiniteSet(rs) /\ IsFiniteSet({j \in rs : Precedes(j, i)})
           /\ Cardinality(rs) \in Nat /\ Cardinality({j \in rs : Precedes(j, i)}) \in Nat
  <1>1. IsFiniteSet(rs)
    BY ListAssumption, FS_Subset
  <1>2. {j \in rs : Precedes(j, i)} \in SUBSET rs
    OBVIOUS
  <1>3. IsFiniteSet({j \in rs : Precedes(j, i)})
    BY <1>1, <1>2, FS_Subset
  <1> QED  BY <1>1, <1>3, FS_CardinalityType

\* An earlier row has fewer rows before it.
LEMMA RankGrows ==
    ASSUME Timed, NEW rs \in SUBSET Invoices, NEW i \in rs, NEW k \in rs, Precedes(i, k)
    PROVE  Cardinality({j \in rs : Precedes(j, i)}) < Cardinality({j \in rs : Precedes(j, k)})
  <1> DEFINE Before(a) == {j \in rs : Precedes(j, a)}
  <1>1. Before(i) \in SUBSET Before(k) /\ Before(i) # Before(k)
    <2>1. i \in Before(k) /\ i \notin Before(i)
      BY PrecedesOrders
    <2>2. ASSUME NEW j \in Before(i)  PROVE j \in Before(k)
      BY PrecedesOrders
    <2> QED  BY <2>1, <2>2
  <1>2. IsFiniteSet(Before(k)) /\ Cardinality(Before(i)) \in Nat /\ Cardinality(Before(k)) \in Nat
    BY RankType
  <1> HIDE DEF Before
  <1>3. Cardinality(Before(i)) <= Cardinality(Before(k))
        /\ Cardinality(Before(i)) # Cardinality(Before(k))
    BY <1>1, <1>2, FS_Subset
  <1>4. Cardinality(Before(i)) < Cardinality(Before(k))
    BY <1>2, <1>3
  <1> QED  BY <1>4 DEF Before

\* The rows that are left out come after every row of the page.
LEMMA TopIsPrefix ==
    ASSUME Timed, NEW rs \in SUBSET Invoices, NEW n \in Nat,
           NEW i \in Top(n, rs), NEW k \in rs \ Top(n, rs)
    PROVE  Precedes(i, k)
  <1>1. i \in rs /\ i # k
    BY DEF Top
  <1>2. SUFFICES ASSUME Precedes(k, i)  PROVE FALSE
    BY <1>1, PrecedesOrders
  <1>3. Cardinality({j \in rs : Precedes(j, k)}) < Cardinality({j \in rs : Precedes(j, i)})
    BY <1>1, <1>2, RankGrows
  <1>4. Cardinality({j \in rs : Precedes(j, i)}) < n
    BY DEF Top
  <1>5. ~(Cardinality({j \in rs : Precedes(j, k)}) < n)
    BY DEF Top
  <1>6. Cardinality({j \in rs : Precedes(j, k)}) \in Nat
        /\ Cardinality({j \in rs : Precedes(j, i)}) \in Nat
    BY <1>1, RankType
  <1> QED  BY <1>3, <1>4, <1>5, <1>6

\* A page is empty only if there is no row.
LEMMA TopNotEmpty ==
    ASSUME Timed, NEW rs \in SUBSET Invoices, rs # {}, NEW n \in Nat \ {0}
    PROVE  Top(n, rs) # {}
  <1>1. PICK i \in rs : {j \in rs : Precedes(j, i)} = {}
    BY FirstExists
  <1>2. Cardinality({j \in rs : Precedes(j, i)}) < n
    BY <1>1, FS_EmptySet
  <1> QED  BY <1>2 DEF Top

\* No more rows than the limit are all on the page.
LEMMA TopIsAll ==
    ASSUME Timed, NEW rs \in SUBSET Invoices, NEW n \in Nat, Cardinality(rs) <= n
    PROVE  Top(n, rs) = rs
  <1>1. ASSUME NEW i \in rs  PROVE Cardinality({j \in rs : Precedes(j, i)}) < n
    <2> DEFINE B == {j \in rs : Precedes(j, i)}
    <2>1. B \in SUBSET rs /\ B # rs
      BY PrecedesOrders
    <2>2. IsFiniteSet(rs) /\ Cardinality(rs) \in Nat /\ Cardinality(B) \in Nat
      BY RankType
    <2> HIDE DEF B
    <2>3. Cardinality(B) <= Cardinality(rs) /\ Cardinality(B) # Cardinality(rs)
      BY <2>1, <2>2, FS_Subset
    <2>4. Cardinality(B) < n
      BY <2>2, <2>3
    <2> QED  BY <2>4 DEF B
  <1> QED  BY <1>1 DEF Top

\* A page has at most as many rows as the limit: their ranks differ.
LEMMA TopSize ==
    ASSUME Timed, NEW rs \in SUBSET Invoices, NEW n \in Nat \ {0}
    PROVE  IsFiniteSet(Top(n, rs)) /\ Cardinality(Top(n, rs)) <= n
  <1> DEFINE Rank(i) == Cardinality({j \in rs : Precedes(j, i)})
             f == [i \in Top(n, rs) |-> Rank(i)]
  <1>1. ASSUME NEW i \in Top(n, rs)  PROVE i \in rs /\ Rank(i) \in 0 .. n-1
    <2>1. i \in rs /\ Rank(i) < n
      BY DEF Top
    <2>2. Rank(i) \in Nat
      BY <2>1, RankType
    <2> HIDE DEF Rank
    <2> QED  BY <2>1, <2>2
  <1>2. ASSUME NEW i \in Top(n, rs), NEW k \in Top(n, rs), Rank(i) = Rank(k)  PROVE i = k
    <2>1. i \in rs /\ k \in rs /\ Rank(i) \in Nat /\ Rank(k) \in Nat
      BY <1>1
    <2>2. ~Precedes(i, k)
      <3>1. Precedes(i, k) => Rank(i) < Rank(k)
        BY <2>1, RankGrows
      <3> HIDE DEF Rank
      <3> QED  BY <3>1, <2>1, <1>2
    <2>3. ~Precedes(k, i)
      <3>1. Precedes(k, i) => Rank(k) < Rank(i)
        BY <2>1, RankGrows
      <3> HIDE DEF Rank
      <3> QED  BY <3>1, <2>1, <1>2
    <2> QED  BY <2>1, <2>2, <2>3, PrecedesOrders
  <1> HIDE DEF Rank
  <1>3. f \in Injection(Top(n, rs), 0 .. n-1)
    <2>1. f \in [Top(n, rs) -> 0 .. n-1]
      BY <1>1
    <2>2. ASSUME NEW i \in Top(n, rs), NEW k \in Top(n, rs), f[i] = f[k]  PROVE i = k
      BY <1>2, <2>2
    <2> QED  BY <2>1, <2>2 DEF Injection, IsInjective
  <1> HIDE DEF f
  <1>4. IsFiniteSet(0 .. n-1) /\ Cardinality(0 .. n-1) = n
    BY FS_Interval
  <1> QED  BY <1>3, <1>4, FS_Injection

\* parseInt, the default and the clamps of index.js leave a usable limit.
LEMMA LimitInRange ==
    ASSUME NEW asked \in AskedLimits
    PROVE  Limit(asked) \in 1 .. MAX_LIMIT
  BY ListAssumption DEF Limit

(***************************************************************************)
(* The cursor: created_at in milliseconds.                                 *)
(***************************************************************************)
LEMMA DivMod ==
    ASSUME NEW a \in Int, NEW t \in Int, t > 0
    PROVE  /\ a \div t \in Int /\ a % t \in 0 .. t-1
           /\ a = t * (a \div t) + (a % t)
  <1>1. a = t * (a \div t) + (a % t)
    BY SMT
  <1> QED  BY <1>1

\* Only one multiple of t is so near below b.
LEMMA DivUnique ==
    ASSUME NEW b \in Int, NEW q \in Int, NEW t \in Int, t > 0, t * q <= b, b < t * q + t
    PROVE  b \div t = q
  <1>1. \A p \in Int : p < q => t * p <= t * q - t
    BY SMT
  <1>2. \A p \in Int : p > q => t * p >= t * q + t
    BY SMT
  <1>3. b \div t \in Int /\ b % t \in 0 .. t-1 /\ b = t * (b \div t) + (b % t)
    BY DivMod
  <1> QED  BY <1>1, <1>2, <1>3

\* A Date is the millisecond of created_at, and nothing later is before it.
LEMMA Truncated ==
    ASSUME NEW a \in Nat, NEW t \in Nat \ {0}
    PROVE  /\ (a \div t) * t \in Nat /\ (a \div t) * t <= a
           /\ ((a \div t) * t) % t = 0
           /\ \A b \in Nat : (a \div t) * t <= b /\ b <= a => b \div t = a \div t
  <1> DEFINE q == a \div t
  <1>1. q \in Int /\ a % t \in 0 .. t-1 /\ a = t * q + (a % t)
    BY DivMod
  <1>2. q * t = t * q /\ t * q \in Int
    BY <1>1
  <1>3. t * q >= 0
    <2>1. \A p \in Int : p < 0 => t * p <= 0 - t
      BY SMT
    <2> HIDE DEF q
    <2> QED  BY <1>1, <1>2, <2>1
  <1> HIDE DEF q
  <1>4. (t * q) \div t = q
    BY <1>1, <1>2, DivUnique
  <1>5. (t * q) % t = 0
    <2>1. ASSUME NEW m \in Int, m \div t = q, m = t * q  PROVE m % t = 0
      <3>1. m = t * (m \div t) + (m % t) /\ m % t \in 0 .. t-1
        BY DivMod
      <3>2. m = m + (m % t)
        BY <2>1, <3>1, Zenon
      <3>3. m % t \in 0 .. t-1
        BY DivMod
      <3> QED  BY <3>2, <3>3
    <2> QED  BY <1>2, <1>4, <2>1
  <1>6. ASSUME NEW b \in Nat, q * t <= b, b <= a  PROVE b \div t = q
    BY <1>1, <1>2, <1>6, DivUnique
  <1> QED  BY <1>1, <1>2, <1>3, <1>5, <1>6 DEF q

\* Every row below the cursor of a page comes after every row of the page.
LEMMA CursorIsBehind ==
    ASSUME Timed, NEW page \in SUBSET Matching, page # {}
    PROVE  /\ EncodeCursor(page) \in [createdAt : Nat, id : Matching]
           /\ EncodeCursor(page).createdAt % TicksPerMs = 0
           /\ \A j \in Invoices : Below(j, EncodeCursor(page)) =>
                \A i \in page : Precedes(i, j)
  <1> DEFINE l == Last(page)
  <1>1. page \in SUBSET Invoices
    BY ListAssumption
  <1>2. l \in page /\ \A i \in page \ {l} : Precedes(i, l)
    BY <1>1, LastIsLast
  <1>3. l \in Invoices /\ l \in Matching /\ \A j \in Invoices : j \in Nat /\ createdAt[j] \in Nat
    BY <1>1, <1>2, TimesAreNumbers
  <1> DEFINE ms == (createdAt[l] \div TicksPerMs) * TicksPerMs
  <1>4. ms \in Nat /\ ms <= createdAt[l] /\ ms % TicksPerMs = 0
    <2>1. createdAt[l] \in Nat /\ TicksPerMs \in Nat \ {0}
      BY <1>3, ListAssumption
    <2> QED  BY ONLY <2>1, Truncated
  <1>5. EncodeCursor(page) = [createdAt |-> ms, id |-> l]
    BY DEF EncodeCursor
  <1> HIDE DEF l, ms
  <1>6. ASSUME NEW j \in Invoices, Below(j, EncodeCursor(page)), NEW i \in page
        PROVE  Precedes(i, j)
    <2>1. Precedes(l, j)
      BY <1>3, <1>4, <1>5, <1>6 DEF Below, Precedes
    <2> QED  BY <1>1, <1>2, <1>3, <2>1, PrecedesOrders
  <1>7. EncodeCursor(page) \in [createdAt : Nat, id : Matching]
        /\ EncodeCursor(page).createdAt % TicksPerMs = 0
    BY <1>3, <1>4, <1>5
  <1> QED  BY <1>6, <1>7

\* A row after the page that is not below its cursor was created in the same
\* millisecond as the last row of the page.
LEMMA CursorMisses ==
    ASSUME Timed, NEW page \in SUBSET Matching, page # {},
           NEW j \in Invoices, \A i \in page : Precedes(i, j), ~Below(j, EncodeCursor(page))
    PROVE  createdAt[j] \div TicksPerMs = createdAt[Last(page)] \div TicksPerMs
  <1> DEFINE l == Last(page)
  <1>1. page \in SUBSET Invoices
    BY ListAssumption
  <1>2. l \in page /\ Precedes(l, j)
    BY <1>1, LastIsLast
  <1>3. l \in Invoices /\ \A k \in Invoices : k \in Nat /\ createdAt[k] \in Nat
    BY <1>1, <1>2, TimesAreNumbers
  <1> DEFINE ms == (createdAt[l] \div TicksPerMs) * TicksPerMs
  <1>4. ms \in Nat
        /\ \A b \in Nat : ms <= b /\ b <= createdAt[l] =>
              b \div TicksPerMs = createdAt[l] \div TicksPerMs
    <2>1. createdAt[l] \in Nat /\ TicksPerMs \in Nat \ {0}
      BY <1>3, ListAssumption
    <2> QED  BY ONLY <2>1, Truncated
  <1>5. EncodeCursor(page) = [createdAt |-> ms, id |-> l]
    BY DEF EncodeCursor
  <1>6. ms <= createdAt[j] /\ createdAt[j] <= createdAt[l]
    <2> HIDE DEF l, ms
    <2> QED  BY <1>2, <1>3, <1>4, <1>5 DEF Below, Precedes
  <1> HIDE DEF ms
  <1> QED  BY <1>3, <1>4, <1>6

(***************************************************************************)
(* The inductive invariant.                                                *)
(***************************************************************************)

Typed ==
    /\ Timed
    /\ committed \subseteq Invoices
    /\ atFirst \subseteq committed
    /\ pages \in Seq(SUBSET Matching)
    /\ pc \in {"first", "next", "end"}
    /\ pc = "first" => pages = <<>>
    /\ pc = "next" => cursor \in [createdAt : Nat, id : Matching]
    /\ pc # "next" => cursor = NoCursor

\* What can still be listed comes after everything that was.
Behind ==
    pc = "next" => \A n \in DOMAIN pages : \A i \in pages[n], j \in Matching :
        Below(j, cursor) => Precedes(i, j)

\* What is not listed still can be, or the cursor of a page has passed it.
SameMs(i, page) == createdAt[i] \div TicksPerMs = createdAt[Last(page)] \div TicksPerMs
Accounted ==
    pc # "first" => \A i \in (atFirst \cap Matching) \ Listed :
        \/ pc = "next" /\ Below(i, cursor)
        \/ \E n \in DOMAIN pages : (pc = "end" => n < Len(pages)) /\ SameMs(i, pages[n])

LInv == Typed /\ Behind /\ Descending /\ Accounted

Small ==
    /\ \A n \in DOMAIN pages : Cardinality(pages[n]) <= MAX_LIMIT
    /\ pc = "next" => cursor.createdAt % TicksPerMs = 0

\* What one request selects and returns.
LEMMA PageOf ==
    ASSUME Typed, NEW asked \in AskedLimits, NEW page, page = Top(Limit(asked), Selected)
    PROVE  /\ Selected \in SUBSET Invoices /\ Selected \subseteq Matching
           /\ page \subseteq Selected /\ Cardinality(page) <= MAX_LIMIT
           /\ \A i \in page, j \in Selected \ page : Precedes(i, j)
           /\ Cardinality(Selected) > Limit(asked) => page # {}
           /\ ~(Cardinality(Selected) > Limit(asked)) => page = Selected
  <1> DEFINE rs == Selected  n == Limit(asked)
  <1>1. rs \in SUBSET Invoices /\ rs \subseteq Matching
    BY DEF Typed, Selected
  <1>2. n \in 1 .. MAX_LIMIT /\ n \in Nat /\ n \in Nat \ {0} /\ MAX_LIMIT \in Nat
    BY LimitInRange, ListAssumption
  <1>3. IsFiniteSet(rs) /\ Cardinality(rs) \in Nat
    BY <1>1, ListAssumption, FS_Subset, FS_CardinalityType
  <1>4. Timed
    BY DEF Typed
  <1> HIDE DEF rs, n
  <1>5. page = Top(n, rs)
    BY DEF rs, n
  <1>6. page \subseteq rs
    BY <1>5 DEF Top
  <1>7. Cardinality(page) <= MAX_LIMIT
    <2>1. IsFiniteSet(page) /\ Cardinality(page) <= n
      BY <1>1, <1>2, <1>4, <1>5, TopSize
    <2>2. Cardinality(page) \in Nat
      BY <2>1, FS_CardinalityType
    <2> QED  BY <1>2, <2>1, <2>2
  <1>8. \A i \in page, j \in rs \ page : Precedes(i, j)
    BY <1>1, <1>2, <1>4, <1>5, TopIsPrefix
  <1>9. Cardinality(rs) > n => page # {}
    <2>1. SUFFICES ASSUME Cardinality(rs) > n  PROVE page # {}
      OBVIOUS
    <2>2. rs # {}
      BY <1>2, <1>3, <2>1, FS_EmptySet
    <2> QED  BY <1>1, <1>2, <1>4, <1>5, <2>2, TopNotEmpty
  <1>10. ~(Cardinality(rs) > n) => page = rs
    <2>1. SUFFICES ASSUME ~(Cardinality(rs) > n)  PROVE page = rs
      OBVIOUS
    <2>2. Cardinality(rs) <= n
      BY <1>2, <1>3, <2>1
    <2> QED  BY <1>1, <1>2, <1>4, <1>5, <2>2, TopIsAll
  <1> QED  BY <1>1, <1>6, <1>7, <1>8, <1>9, <1>10 DEF rs, n

\* Nothing that is selected now was listed, or belongs before what was.
LEMMA SelectedIsBehind ==
    ASSUME Typed, Behind, pc # "end",
           NEW n \in DOMAIN pages, NEW i \in pages[n], NEW j \in Selected
    PROVE  Precedes(i, j)
  <1>1. pc = "next"
    <2>1. pc = "first" => DOMAIN pages = {}
      BY DEF Typed
    <2> QED  BY <2>1 DEF Typed
  <1>2. cursor # NoCursor
    BY <1>1 DEF Typed, NoCursor
  <1>3. j \in Matching /\ Below(j, cursor)
    BY <1>2 DEF Selected
  <1> QED  BY <1>1, <1>3 DEF Behind

LEMMA InitLInv == Init => LInv /\ Small
  <1> SUFFICES ASSUME Init  PROVE LInv /\ Small
    OBVIOUS
  <1>1. pages = <<>> /\ DOMAIN pages = {} /\ pc = "first"
    BY DEF Init
  <1>2. Typed
    BY DEF Init, Typed, Timed
  <1> QED  BY <1>1, <1>2 DEF LInv, Small, Behind, Descending, Accounted

\* A request adds one page, and where its rows are.
LEMMA FetchAdds ==
    ASSUME Typed, NEW asked \in AskedLimits, Fetch(asked), NEW page,
           page = Top(Limit(asked), Selected)
    PROVE  /\ Typed'
           /\ Len(pages') = Len(pages) + 1 /\ pages'[Len(pages')] = page
           /\ DOMAIN pages' = DOMAIN pages \cup {Len(pages')}
           /\ \A n \in DOMAIN pages :
                n \in Nat /\ n < Len(pages') /\ n <= Len(pages) /\ pages'[n] = pages[n]
  <1>1. page \in SUBSET Matching /\ (Cardinality(Selected) > Limit(asked) => page # {})
    BY PageOf
  <1>2. pages \in Seq(SUBSET Matching) /\ pages' = Append(pages, page)
    BY DEF Typed, Fetch
  <1>3. pages' \in Seq(SUBSET Matching) /\ Len(pages') = Len(pages) + 1
        /\ pages'[Len(pages')] = page
        /\ DOMAIN pages' = DOMAIN pages \cup {Len(pages')}
    BY <1>1, <1>2
  <1>4. \A n \in DOMAIN pages :
            n \in Nat /\ n < Len(pages') /\ n <= Len(pages) /\ pages'[n] = pages[n]
    BY <1>1, <1>2
  <1>5. pc' = "next" => cursor' \in [createdAt : Nat, id : Matching]
    <2>1. SUFFICES ASSUME pc' = "next"  PROVE cursor' \in [createdAt : Nat, id : Matching]
      OBVIOUS
    <2>2. cursor' = EncodeCursor(page) /\ page # {}
      BY <1>1, <2>1 DEF Fetch
    <2>3. Timed
      BY DEF Typed
    <2> QED  BY <1>1, <2>2, <2>3, CursorIsBehind
  <1>6. pc' \in {"next", "end"} /\ (pc' = "end" => cursor' = NoCursor)
    BY DEF Fetch
  <1>7. Timed' /\ (committed \subseteq Invoices)' /\ (atFirst \subseteq committed)'
    BY DEF Typed, Timed, Fetch
  <1> QED  BY <1>3, <1>4, <1>5, <1>6, <1>7 DEF Typed

\* A request keeps the invariant.
LEMMA FetchLInv ==
    ASSUME LInv, Small, NEW asked \in AskedLimits, Fetch(asked)
    PROVE  LInv' /\ Small'
  <1> DEFINE page == Top(Limit(asked), Selected)
             hasMore == Cardinality(Selected) > Limit(asked)
  <1>1. /\ pc # "end" /\ createdAt' = createdAt /\ committed' = committed
        /\ pc' = IF hasMore THEN "next" ELSE "end"
        /\ hasMore => cursor' = EncodeCursor(page)
        /\ atFirst' = IF pc = "first" THEN committed ELSE atFirst
    BY DEF Fetch
  <1>2. /\ Typed /\ Timed /\ Behind /\ Descending /\ Accounted
    BY DEF LInv, Typed
  <1>3. /\ Typed'
        /\ Len(pages') = Len(pages) + 1 /\ pages'[Len(pages')] = page
        /\ DOMAIN pages' = DOMAIN pages \cup {Len(pages')}
        /\ \A n \in DOMAIN pages :
             n \in Nat /\ n < Len(pages') /\ n <= Len(pages) /\ pages'[n] = pages[n]
    BY <1>2, FetchAdds
  <1>4. /\ Selected \in SUBSET Invoices /\ Selected \subseteq Matching
        /\ page \subseteq Selected /\ Cardinality(page) <= MAX_LIMIT
        /\ \A i \in page, j \in Selected \ page : Precedes(i, j)
        /\ hasMore => page # {}
        /\ ~hasMore => page = Selected
    BY <1>2, PageOf
  <1>5. \A n \in DOMAIN pages : \A i \in pages[n], j \in Selected : Precedes(i, j)
    BY <1>1, <1>2, SelectedIsBehind
  <1>6. /\ Len(pages) \in Nat /\ Matching \subseteq Invoices
        /\ \A n \in DOMAIN pages : pages[n] \subseteq Matching
    BY <1>2, ListAssumption DEF Typed
  <1>7. ASSUME hasMore
        PROVE  /\ cursor'.createdAt % TicksPerMs = 0
               /\ \A i \in page, j \in Invoices : Below(j, cursor') => Precedes(i, j)
               /\ \A j \in Selected \ page : Below(j, cursor') \/ SameMs(j, page)
    <2>1. page \in SUBSET Matching /\ page # {} /\ cursor' = EncodeCursor(page)
      BY <1>1, <1>4, <1>7
    <2> HIDE DEF page, hasMore
    <2>2. cursor'.createdAt % TicksPerMs = 0
          /\ \A j \in Invoices : Below(j, cursor') => \A i \in page : Precedes(i, j)
      BY <1>2, <2>1, CursorIsBehind
    <2>3. ASSUME NEW j \in Selected \ page, ~Below(j, cursor')  PROVE SameMs(j, page)
      BY <1>2, <1>4, <2>1, <2>3, CursorMisses DEF SameMs
    <2> QED  BY <2>2, <2>3
  <1> HIDE DEF page, hasMore
  <1>8. Descending'
    <2>1. ASSUME NEW m \in DOMAIN pages', NEW n \in DOMAIN pages', m < n,
                 NEW i \in pages'[m], NEW j \in pages'[n]
          PROVE  Precedes(i, j)
      <3>1. m \in DOMAIN pages
        BY <1>3, <1>6, <2>1
      <3>2. CASE n \in DOMAIN pages
        BY <1>2, <1>3, <2>1, <3>1, <3>2 DEF Descending
      <3>3. CASE n = Len(pages')
        <4>1. i \in pages[m] /\ j \in Selected
          BY <1>3, <1>4, <3>1, <3>3
        <4> QED  BY <1>5, <3>1, <4>1
      <3> QED  BY <1>3, <3>2, <3>3
    <2>2. \A i, j : Precedes(i, j)' <=> Precedes(i, j)
      BY <1>1 DEF Precedes
    <2> QED  BY <2>1, <2>2 DEF Descending
  <1>9. Behind'
    <2>1. ASSUME pc' = "next", NEW n \in DOMAIN pages', NEW i \in pages'[n],
                 NEW j \in Matching, Below(j, cursor')
          PROVE  Precedes(i, j)
      <3>1. hasMore /\ page # {} /\ j \in Invoices
        BY <1>1, <1>4, <1>6, <2>1
      <3>2. CASE n = Len(pages')
        BY <1>3, <1>7, <2>1, <3>1, <3>2
      <3>3. CASE n \in DOMAIN pages
        <4>1. PICK p \in page : p \in Selected /\ Precedes(p, j)
          BY <1>4, <1>7, <2>1, <3>1
        <4>2. i \in pages[n] /\ Precedes(i, p) /\ i \in Invoices /\ p \in Invoices
          BY <1>3, <1>4, <1>5, <1>6, <3>3, <4>1
        <4> QED  BY <1>2, <3>1, <4>1, <4>2, PrecedesOrders
      <3> QED  BY <1>3, <3>2, <3>3
    <2>2. \A i, j : Precedes(i, j)' <=> Precedes(i, j)
      BY <1>1 DEF Precedes
    <2>3. \A i : Below(i, cursor)' <=> Below(i, cursor')
      BY <1>1 DEF Below
    <2> QED  BY <2>1, <2>2, <2>3 DEF Behind
  <1>10. Accounted'
    <2>1. ASSUME NEW i \in (atFirst' \cap Matching) \ Listed'
          PROVE  \/ pc' = "next" /\ Below(i, cursor')
                 \/ \E n \in DOMAIN pages' :
                        (pc' = "end" => n < Len(pages')) /\ SameMs(i, pages'[n])
      <3>1. i \notin page /\ i \notin Listed /\ i \in committed /\ i \in Matching
        BY <1>1, <1>2, <1>3, <2>1 DEF Listed, Typed
      <3>2. CASE i \in Selected
        <4>1. hasMore /\ pc' = "next"
          BY <1>1, <1>4, <3>1, <3>2
        <4>2. Below(i, cursor') \/ SameMs(i, page)
          BY <1>7, <3>1, <3>2, <4>1
        <4> QED  BY <1>3, <4>1, <4>2
      <3>3. CASE i \notin Selected
        <4>1. cursor # NoCursor /\ ~Below(i, cursor)
          BY <3>1, <3>3 DEF Selected
        <4>2. pc = "next"
          BY <1>2, <4>1 DEF Typed
        <4>3. i \in (atFirst \cap Matching) \ Listed
          BY <1>1, <2>1, <3>1, <4>2
        <4>4. PICK n \in DOMAIN pages : SameMs(i, pages[n])
          BY <1>2, <4>1, <4>2, <4>3 DEF Accounted
        <4> QED  BY <1>3, <4>4
      <3> QED  BY <3>2, <3>3
    <2>2. \A i, p : SameMs(i, p)' <=> SameMs(i, p)
      BY <1>1 DEF SameMs, Last, Precedes
    <2>3. \A i : Below(i, cursor)' <=> Below(i, cursor')
      BY <1>1 DEF Below
    <2> QED  BY <2>1, <2>2, <2>3 DEF Accounted
  <1>11. Small'
    <2>1. ASSUME NEW n \in DOMAIN pages'  PROVE Cardinality(pages'[n]) <= MAX_LIMIT
      BY <1>3, <1>4 DEF Small
    <2>2. pc' = "next" => cursor'.createdAt % TicksPerMs = 0
      BY <1>1, <1>7
    <2> QED  BY <2>1, <2>2 DEF Small
  <1> QED  BY <1>3, <1>8, <1>9, <1>10, <1>11 DEF LInv

\* An insert changes nothing that the client has.
LEMMA CommitLInv ==
    ASSUME LInv, Small, NEW k \in Invoices, Commit(k)
    PROVE  LInv' /\ Small'
  <1>1. /\ createdAt' = createdAt /\ pages' = pages /\ cursor' = cursor
        /\ pc' = pc /\ atFirst' = atFirst /\ committed' = committed \cup {k}
    BY DEF Commit
  <1>2. Typed'
    BY <1>1 DEF LInv, Typed, Timed
  <1> QED  BY <1>1, <1>2 DEF LInv, Small, Behind, Descending, Accounted, Listed,
                             Below, Precedes, SameMs, Last

LEMMA StutterLInv ==
    ASSUME LInv, Small, UNCHANGED vars
    PROVE  LInv' /\ Small'
  BY DEF LInv, Small, Typed, Timed, Behind, Descending, Accounted, Listed,
         Below, Precedes, SameMs, Last, vars

LEMMA InvariantHolds == Spec => [](LInv /\ Small)
  <1>1. Init => LInv /\ Small
    BY InitLInv
  <1>2. LInv /\ Small /\ [Next]_vars => (LInv /\ Small)'
    <2> SUFFICES ASSUME LInv, Small, [Next]_vars  PROVE LInv' /\ Small'
      OBVIOUS
    <2>1. ASSUME NEW k \in Invoices, Commit(k)  PROVE LInv' /\ Small'
      BY <2>1, CommitLInv
    <2>2. ASSUME NEW asked \in AskedLimits, Fetch(asked)  PROVE LInv' /\ Small'
      BY <2>2, FetchLInv
    <2>3. CASE UNCHANGED vars
      BY <2>3, StutterLInv
    <2> QED  BY <2>1, <2>2, <2>3 DEF Next
  <1> QED  BY <1>1, <1>2, PTL DEF Spec

----------------------------------------------------------------------------

\* Every page has at most MAX_LIMIT rows of the tenant, whatever limit is asked
\* for, and a cursor is a whole number of milliseconds and a row of the tenant.
THEOREM TypeCorrect == Spec => []TypeOK
  <1>1. LInv /\ Small => TypeOK
    <2> SUFFICES ASSUME LInv, Small  PROVE TypeOK
      OBVIOUS
    <2>1. ASSUME NEW n \in DOMAIN pages
          PROVE  pages[n] \subseteq Matching /\ Cardinality(pages[n]) <= MAX_LIMIT
      BY DEF LInv, Typed, Small
    <2>2. \/ cursor = NoCursor
          \/ cursor.createdAt % TicksPerMs = 0 /\ cursor.id \in Matching
      BY DEF LInv, Typed, Small
    <2> QED  BY <2>1, <2>2 DEF TypeOK, LInv, Typed, Timed
  <1> QED  BY <1>1, InvariantHolds, PTL

\* The pages continue one another, newest first, and no invoice is listed
\* twice, whatever other transactions insert between two pages, however the
\* client changes the limit and however coarse the cursor is.
THEOREM DescendingHolds == Spec => []Descending
  <1>1. LInv /\ Small => Descending
    BY DEF LInv
  <1> QED  BY <1>1, InvariantHolds, PTL

\* The one thing a listing can miss, of what was there when it began, is an
\* invoice of the same millisecond as the last of some page: where the cursor
\* lost the microseconds.
THEOREM MissesOnlyPageEndsHolds == Spec => []MissesOnlyPageEnds
  <1>1. LInv /\ Small => MissesOnlyPageEnds
    BY DEF LInv, Accounted, SameMs, MissesOnlyPageEnds
  <1> QED  BY <1>1, InvariantHolds, PTL

(***************************************************************************)
(* The precision of the cursor is the only cause of a miss.                *)
(***************************************************************************)

\* What is not listed is below the cursor.
Exact ==
    pc # "first" => \A i \in (atFirst \cap Matching) \ Listed :
        pc = "next" /\ Below(i, cursor)

Complete == pc = "end" => atFirst \cap Matching \subseteq Listed

\* A cursor that lost nothing is passed by no row after its page.
LEMMA ExactCursor ==
    ASSUME Timed, TicksPerMs = 1, NEW page \in SUBSET Matching, page # {},
           NEW j \in Invoices, \A i \in page : Precedes(i, j)
    PROVE  Below(j, EncodeCursor(page))
  <1> DEFINE l == Last(page)
  <1>1. page \in SUBSET Invoices
    BY ListAssumption
  <1>2. l \in page /\ Precedes(l, j)
    BY <1>1, LastIsLast
  <1>3. createdAt[l] \in Nat /\ createdAt[j] \in Nat
    BY <1>1, <1>2, TimesAreNumbers
  <1>4. (createdAt[l] \div TicksPerMs) * TicksPerMs = createdAt[l]
    BY <1>3
  <1> QED  BY <1>2, <1>4 DEF EncodeCursor, Below, Precedes

LEMMA FetchExact ==
    ASSUME TicksPerMs = 1, LInv, Exact, NEW asked \in AskedLimits, Fetch(asked)
    PROVE  Exact'
  <1> DEFINE page == Top(Limit(asked), Selected)
             hasMore == Cardinality(Selected) > Limit(asked)
  <1>1. /\ pc # "end" /\ createdAt' = createdAt /\ committed' = committed
        /\ pc' = IF hasMore THEN "next" ELSE "end"
        /\ hasMore => cursor' = EncodeCursor(page)
        /\ atFirst' = IF pc = "first" THEN committed ELSE atFirst
    BY DEF Fetch
  <1>2. Typed /\ Timed
    BY DEF LInv, Typed
  <1>3. /\ Typed'
        /\ Len(pages') = Len(pages) + 1 /\ pages'[Len(pages')] = page
        /\ DOMAIN pages' = DOMAIN pages \cup {Len(pages')}
        /\ \A n \in DOMAIN pages :
             n \in Nat /\ n < Len(pages') /\ n <= Len(pages) /\ pages'[n] = pages[n]
    BY <1>2, FetchAdds
  <1>4. /\ Selected \in SUBSET Invoices /\ Selected \subseteq Matching
        /\ page \subseteq Selected
        /\ \A i \in page, j \in Selected \ page : Precedes(i, j)
        /\ hasMore => page # {}
        /\ ~hasMore => page = Selected
    BY <1>2, PageOf
  <1> HIDE DEF page, hasMore
  <1>5. ASSUME NEW i \in (atFirst' \cap Matching) \ Listed'
        PROVE  pc' = "next" /\ Below(i, cursor')
    <2>1. i \notin page /\ i \notin Listed /\ i \in committed /\ i \in Matching
      BY <1>1, <1>2, <1>3, <1>5 DEF Listed, Typed
    <2>2. i \in Selected
      BY <1>1, <1>2, <1>5, <2>1 DEF Selected, Exact, Typed
    <2>3. hasMore /\ page # {} /\ page \in SUBSET Matching /\ i \in Invoices
      BY <1>4, <2>1, <2>2
    <2>4. Below(i, EncodeCursor(page))
      BY <1>2, <1>4, <2>1, <2>2, <2>3, ExactCursor
    <2> QED  BY <1>1, <2>3, <2>4
  <1>6. \A i : Below(i, cursor)' <=> Below(i, cursor')
    BY <1>1 DEF Below
  <1> QED  BY <1>5, <1>6 DEF Exact

\* If the database's clock ticked in milliseconds, as coarse as the cursor, a
\* client that follows nextCursor to the end would get every invoice that was
\* there when it began: equal times are told apart by the id.
THEOREM CoarseClockMissesNothing == TicksPerMs = 1 /\ Spec => []Complete
  <1> SUFFICES ASSUME TicksPerMs = 1  PROVE Spec => []Complete
    OBVIOUS
  <1>1. Init => Exact
    BY DEF Init, Exact
  <1>2. LInv /\ Exact /\ [Next]_vars => Exact'
    <2> SUFFICES ASSUME LInv, Exact, [Next]_vars  PROVE Exact'
      OBVIOUS
    <2>1. ASSUME NEW k \in Invoices, Commit(k)  PROVE Exact'
      BY <2>1 DEF Commit, Exact, Listed, Below
    <2>2. ASSUME NEW asked \in AskedLimits, Fetch(asked)  PROVE Exact'
      BY <2>2, FetchExact
    <2>3. CASE UNCHANGED vars
      BY <2>3 DEF vars, Exact, Listed, Below
    <2> QED  BY <2>1, <2>2, <2>3 DEF Next
  <1>3. Exact => Complete
    BY DEF Exact, Complete
  <1> QED  BY <1>1, <1>2, <1>3, InvariantHolds, PTL DEF Spec
===========================================================================

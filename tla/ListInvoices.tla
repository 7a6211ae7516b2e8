---------------------------- MODULE ListInvoices ----------------------------
(***************************************************************************)
(* GET /v1/invoices: generateInvoiceHandler of                             *)
(* src/src/handlers/list-invoices/index.js, and a client that follows      *)
(* nextCursor from page to page while invoices are being inserted.         *)
(*                                                                         *)
(* created_at is NOW() of the inserting transaction, in microseconds, and  *)
(* transactions commit in any order.  The driver returns it as a Date, in  *)
(* milliseconds, and that is what the cursor carries.                      *)
(***************************************************************************)
EXTENDS Integers, Sequences, FiniteSets

CONSTANTS
    Invoices,       \* ids, ordered; random UUIDs, so unrelated to created_at
    Matching,       \* those of the tenant that pass its filters
    MaxTime,        \* bound of the model: created_at \in 0 .. MaxTime
    TicksPerMs,     \* ticks of created_at in one millisecond
    AskedLimits,    \* values of ?limit=, 0 if absent or not a number
    DEFAULT_LIMIT, MAX_LIMIT

ASSUME ListAssumption ==
    /\ Invoices \subseteq Nat /\ IsFiniteSet(Invoices)
    /\ Matching \subseteq Invoices
    /\ MaxTime \in Nat
    /\ TicksPerMs \in Nat \ {0}
    /\ AskedLimits \subseteq Int
    /\ MAX_LIMIT \in Nat \ {0} /\ DEFAULT_LIMIT \in 1 .. MAX_LIMIT

VARIABLES
    createdAt,  \* created_at of each invoice, before it is committed already
    committed,  \* rows other transactions can see
    pages,      \* what the client got, each page a set of invoices
    cursor,     \* nextCursor of the last page, or none
    pc,         \* "first", "next" or "end"
    atFirst     \* history: the rows there were when the first page was read

vars == <<createdAt, committed, pages, cursor, pc, atFirst>>

NoCursor == [createdAt |-> -1, id |-> -1]

TypeOK ==
    /\ createdAt \in [Invoices -> 0 .. MaxTime]
    /\ committed \subseteq Invoices
    /\ \A n \in DOMAIN pages :
        pages[n] \subseteq Matching /\ Cardinality(pages[n]) <= MAX_LIMIT
    /\ \/ cursor = NoCursor
       \/ cursor.createdAt % TicksPerMs = 0 /\ cursor.id \in Matching
    /\ pc \in {"first", "next", "end"}
    /\ atFirst \subseteq committed

Init ==
    /\ createdAt \in [Invoices -> 0 .. MaxTime]
    /\ committed = {}
    /\ pages = <<>>
    /\ cursor = NoCursor
    /\ pc = "first"
    /\ atFirst = {}

\* Another transaction inserts an invoice.
Commit(i) ==
    /\ i \notin committed
    /\ committed' = committed \cup {i}
    /\ UNCHANGED <<createdAt, pages, cursor, pc, atFirst>>

\* parseInt(...) || DEFAULT_LIMIT, then into 1 .. MAX_LIMIT.
Limit(asked) ==
    CASE asked = 0         -> DEFAULT_LIMIT
      [] asked < 0         -> 1
      [] asked > MAX_LIMIT -> MAX_LIMIT
      [] OTHER             -> asked

\* ORDER BY created_at DESC, id DESC: row i comes before row j.
Precedes(i, j) ==
    \/ createdAt[i] > createdAt[j]
    \/ createdAt[i] = createdAt[j] /\ i > j

\* (created_at, id) < cursor.
BelowOrAt(i, c) ==                                               \* Slip: <=.
    createdAt[i] < c.createdAt \/ (createdAt[i] = c.createdAt /\ i <= c.id)
Below(i, c) ==
    createdAt[i] < c.createdAt \/ (createdAt[i] = c.createdAt /\ i < c.id)

Selected == {i \in committed \cap Matching : cursor = NoCursor \/ Below(i, cursor)}

\* The first n of a set of rows.
Top(n, rs) == {i \in rs : Cardinality({j \in rs : Precedes(j, i)}) < n}

Last(rs) == CHOOSE i \in rs : \A j \in rs \ {i} : Precedes(j, i)

\* Slip: the cursor is the extra row that was fetched and not returned.
EncodeCursorOfNext(page) ==
    LET next == Last(Top(Cardinality(page) + 1, Selected))
    IN  [createdAt |-> (createdAt[next] \div TicksPerMs) * TicksPerMs, id |-> next]

\* The row's Date becomes an ISO string with milliseconds.
EncodeCursor(page) ==
    [createdAt |-> (createdAt[Last(page)] \div TicksPerMs) * TicksPerMs,
     id |-> Last(page)]

\* One request: LIMIT limit + 1 tells whether there is more.
Fetch(asked) ==
    LET page    == Top(Limit(asked), Selected)
        hasMore == Cardinality(Selected) > Limit(asked)
    IN  /\ pc # "end"
        /\ pages' = Append(pages, page)
        /\ cursor' = IF hasMore THEN EncodeCursor(page) ELSE NoCursor
        /\ pc' = IF hasMore THEN "next" ELSE "end"
        /\ atFirst' = IF pc = "first" THEN committed ELSE atFirst
        /\ UNCHANGED <<createdAt, committed>>

Next == (\E i \in Invoices : Commit(i)) \/ (\E l \in AskedLimits : Fetch(l))

Spec == Init /\ [][Next]_vars

----------------------------------------------------------------------------

Listed == UNION {pages[n] : n \in DOMAIN pages}

\* The pages continue one another, newest first, and no invoice is listed
\* twice, whatever is inserted meanwhile and however the limit changes.
Descending ==
    \A m, n \in DOMAIN pages : m < n =>
        \A i \in pages[m], j \in pages[n] : Precedes(i, j)

\* Of the invoices that were there when the client began, the cursor
\* (list-invoices/index.js:17-19) misses only those created in the same
\* millisecond as the last of some page.
MissesOnlyPageEnds ==
    pc = "end" => \A i \in (atFirst \cap Matching) \ Listed :
        \E n \in DOMAIN pages : n < Len(pages) /\
            createdAt[i] \div TicksPerMs = createdAt[Last(pages[n])] \div TicksPerMs
=============================================================================

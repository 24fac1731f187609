----------------------------- MODULE Pagination -----------------------------
(***************************************************************************)
(* BaseSQLRepository.paginate and apply_sorting, used by a client that     *)
(* walks through all pages of a list while others insert and delete rows.  *)
(*                                                                         *)
(* Each request is two statements, the count and then the page; what other *)
(* transactions commit between the two is seen by the second one, unless   *)
(* the session reads a snapshot.  The database orders rows by the ORDER BY *)
(* clauses and ties as it likes, anew for each statement.                  *)
(***************************************************************************)
EXTENDS Naturals, SequencesExt

CONSTANTS
    Row,       \* rows the statement selects while they are in the table
    Column,
    ValueOf,   \* what each row has in each column
    Columns,   \* SortSpec.columns: the column of each public field
    Default,   \* SortSpec.default, as (field, direction) pairs
    OwnOrder,  \* the ORDER BY of the statement itself, in columns
    Request,   \* the sort_pairs clients send
    PageSize,  \* the sizes they ask for
    Snapshot,  \* both statements of a request see the same rows
    MaxWrites  \* bound: rows inserted and rows deleted during a walk

Direction == {"asc", "desc"}

ASSUME ColumnsAssumption ==
    /\ ValueOf \in [Column -> [Row -> Nat]]
    /\ \A field \in DOMAIN Columns : Columns[field] \in Column

\* SortSpec.__post_init__ refuses defaults that are not among the columns.
ASSUME DefaultAssumption == Default \in Seq((DOMAIN Columns) \X Direction)

ASSUME OwnOrderAssumption == OwnOrder \in Seq(Column \X Direction)

\* SortParams.sort_pairs are pairs of any field and a direction.
ASSUME RequestAssumption ==
    /\ \A requested \in Request :
           requested \in Seq({requested[n][1] : n \in DOMAIN requested} \X Direction)
    /\ PageSize \subseteq Nat \ {0} /\ Snapshot \in BOOLEAN

ASSUME BoundAssumption == MaxWrites \in Nat

VARIABLES
    table,     \* the rows there are
    pc,        \* where the client's walk is
    request,   \* the sort_pairs of its requests
    sorts,     \* the repository or the call has a SortSpec
    order,     \* the ORDER BY clauses of the statement
    page,      \* params.page
    size,      \* params.size
    total,     \* the total of the last count
    seen,      \* the items of the pages so far
    stayed,    \* history: rows there all the time since the walk began
    removed,   \* history: rows deleted since
    inserted,  \* history: rows inserted since
    slipped    \* history: those inserted between a count and its page

params == <<request, sorts, order, size>>
history == <<stayed, removed, inserted, slipped>>
vars == <<table, pc, params, page, total, seen, history>>

-----------------------------------------------------------------------------
(* Sorting.                                                                *)

\* SortSpec.pairs_for.
PairsFor(requested) == IF requested # <<>> THEN requested ELSE Default

Unsupported(requested) ==
    \E n \in DOMAIN PairsFor(requested) : PairsFor(requested)[n][1] \notin DOMAIN Columns

Clauses(pairs) == [n \in DOMAIN pairs |-> <<Columns[pairs[n][1]], pairs[n][2]>>]

\* Mutant: order_by without the order_by(None) before it.
OrderByAppended(requested, hasSpec) ==
    OwnOrder \o (IF hasSpec THEN Clauses(PairsFor(requested)) ELSE <<>>)

\* apply_sorting: the statement's own order is replaced.  It is kept when
\* neither the request nor the spec sorts, and whatever the request says when
\* there is no spec.
OrderBy(requested, hasSpec) ==
    IF hasSpec /\ PairsFor(requested) # <<>> THEN Clauses(PairsFor(requested)) ELSE OwnOrder

Key(r, clause) == ValueOf[clause[1]][r]

Precedes(a, b, clause) ==
    IF clause[2] = "asc" THEN Key(a, clause) < Key(b, clause)
    ELSE Key(b, clause) < Key(a, clause)

\* a comes before b in every result ordered by the clauses.
Before(a, b, clauses) ==
    \E n \in DOMAIN clauses :
        /\ Precedes(a, b, clauses[n])
        /\ \A m \in 1..(n - 1) : Key(a, clauses[m]) = Key(b, clauses[m])

\* The results the database may return.
Results(clauses) ==
    {rows \in SetToSeqs(table) :
        \A m, n \in DOMAIN rows : m < n => ~Before(rows[n], rows[m], clauses)}

-----------------------------------------------------------------------------
Init ==
    /\ table \in SUBSET Row /\ IsFiniteSet(table)
    /\ pc = "idle"
    /\ request = <<>> /\ sorts = TRUE /\ order = <<>> /\ size = 1 /\ page = 1 /\ total = 0
    /\ seen = <<>>
    /\ stayed = {} /\ removed = {} /\ inserted = {} /\ slipped = {}

\* The client starts at the first page.  Where there is a spec, a request for
\* a sort field unknown to it is refused before anything is queried.
Walk(requested, hasSpec, asked) ==
    /\ pc = "idle"
    /\ ~(hasSpec /\ Unsupported(requested))
    /\ pc' = "count"
    /\ request' = requested /\ sorts' = hasSpec
    /\ order' = OrderBy(requested, hasSpec) /\ size' = asked
    /\ stayed' = table
    /\ UNCHANGED <<table, page, total, seen, removed, inserted, slipped>>

\* Mutant: the statement is counted with its limit.
CountLimited ==
    /\ pc = "count"
    /\ total' = IF Cardinality(table) < size THEN Cardinality(table) ELSE size
    /\ pc' = "page"
    /\ UNCHANGED <<table, params, page, seen, history>>

Count ==
    /\ pc = "count"
    /\ total' = Cardinality(table)
    /\ pc' = "page"
    /\ UNCHANGED <<table, params, page, seen, history>>

\* Mutant: pages overlap by one row.
SkipOverlapping == (page - 1) * size - (IF page = 1 THEN 0 ELSE 1)

Skip == (page - 1) * size

\* OFFSET and LIMIT.
PageOf(rows) ==
    SubSeq(rows, Skip + 1, IF Len(rows) < Skip + size THEN Len(rows) ELSE Skip + size)

\* The client asks for the next page until the total says that it has all.
FetchPage ==
    /\ pc = "page"
    /\ \E rows \in Results(order) : seen' = seen \o PageOf(rows)
    /\ IF page * size < total THEN pc' = "count" /\ page' = page + 1
       ELSE pc' = "done" /\ UNCHANGED page
    /\ UNCHANGED <<table, params, total, history>>

\* The client has what it wanted.
Forget ==
    /\ pc = "done"
    /\ pc' = "idle"
    /\ request' = <<>> /\ sorts' = TRUE /\ order' = <<>> /\ size' = 1 /\ page' = 1 /\ total' = 0
    /\ seen' = <<>>
    /\ stayed' = {} /\ removed' = {} /\ inserted' = {} /\ slipped' = {}
    /\ UNCHANGED table

-----------------------------------------------------------------------------
(* The other transactions.                                                 *)

SeenByRequest ==
    /\ pc \in {"count", "page"}
    /\ ~(Snapshot /\ pc = "page")
    /\ Cardinality(removed) + Cardinality(inserted) < MaxWrites

Insert(r) ==
    /\ SeenByRequest
    /\ r \notin table
    /\ table' = table \cup {r}
    /\ inserted' = inserted \cup {r}
    /\ slipped' = IF pc = "page" THEN slipped \cup {r} ELSE slipped
    /\ UNCHANGED <<pc, params, page, total, seen, stayed, removed>>

Delete(r) ==
    /\ SeenByRequest
    /\ r \in table
    /\ table' = table \ {r}
    /\ removed' = removed \cup {r}
    /\ stayed' = stayed \ {r}
    /\ UNCHANGED <<pc, params, page, total, seen, inserted, slipped>>

Next ==
    \/ \E requested \in Request, hasSpec \in BOOLEAN, asked \in PageSize :
           Walk(requested, hasSpec, asked)
    \/ Count \/ FetchPage \/ Forget
    \/ \E r \in Row : Insert(r) \/ Delete(r)

Spec == Init /\ [][Next]_vars

-----------------------------------------------------------------------------
(* Properties.                                                             *)

\* The clauses leave no tie for the database to decide.
Unambiguous == \A a, b \in Row : a # b => Before(a, b, order) \/ Before(b, a, order)

Times(r) == Cardinality({n \in DOMAIN seen : seen[n] = r})

\* A walk in an order without ties shows every row that was there all the
\* time, unless a row before it was deleted during the walk or inserted
\* between the count and the page of one request.
NoRowMissed ==
    pc = "done" /\ Unambiguous =>
        \A r \in stayed : Times(r) = 0 =>
            \E other \in removed \cup slipped : Before(other, r, order)

\* It shows no such row twice, unless a row before it was inserted.
NoRowTwice ==
    Unambiguous =>
        \A r \in stayed : Times(r) > 1 => \E other \in inserted : Before(other, r, order)

\* When nothing changes under it, a sorted walk shows rows in the order the
\* client asked for, from one page to the next; without a SortSpec, whatever
\* it asked for, in the order of the statement.
RequestedOrder ==
    removed = {} /\ inserted = {} /\ (sorts => request # <<>>) =>
        \A m, n \in DOMAIN seen : m < n /\ Unambiguous =>
            ~Before(seen[n], seen[m], IF sorts THEN Clauses(request) ELSE OwnOrder)
=============================================================================

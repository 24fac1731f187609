-------------------------- MODULE Pagination_proofs --------------------------
(* Proofs of Pagination's properties for any table, order and page size.   *)
(*                                                                         *)
(* In an order without ties a row's position in a result is its rank, the  *)
(* number of rows before it.  What writes do to a row's rank, compared     *)
(* with what has been skipped, decides whether a page shows it.            *)
EXTENDS Pagination, FiniteSetTheorems, SequenceTheorems, TLAPS

USE RequestAssumption

-----------------------------------------------------------------------------
(* The order.                                                              *)

\* Clauses by columns, in a sequence.
Valid(clauses) ==
    \E N \in Nat : DOMAIN clauses = 1..N /\ \A n \in 1..N : clauses[n][1] \in Column

LEMMA KeyIsNat ==
    ASSUME NEW clauses, Valid(clauses), NEW n \in DOMAIN clauses, NEW r \in Row
    PROVE  Key(r, clauses[n]) \in Nat
  <1>1. clauses[n][1] \in Column
    BY DEF Valid
  <1> QED
    BY <1>1, ColumnsAssumption DEF Key

LEMMA BeforeIrreflexive ==
    ASSUME NEW clauses, Valid(clauses), NEW r \in Row
    PROVE  ~ Before(r, r, clauses)
  BY KeyIsNat DEF Before, Precedes

-----------------------------------------------------------------------------
(* Ranks.                                                                  *)

Ahead(T, r, clauses) == {x \in T : Before(x, r, clauses)}

Rank(T, r, clauses) == Cardinality(Ahead(T, r, clauses))

LEMMA RankType ==
    ASSUME NEW T, IsFiniteSet(T), NEW r, NEW clauses
    PROVE  IsFiniteSet(Ahead(T, r, clauses)) /\ Rank(T, r, clauses) \in Nat
  <1>1. Ahead(T, r, clauses) \in SUBSET T
    BY DEF Ahead
  <1> QED
    BY <1>1, FS_Subset, FS_CardinalityType DEF Rank

\* Fewer rows, lower ranks.
LEMMA RankMonotone ==
    ASSUME NEW T, NEW U, IsFiniteSet(T), IsFiniteSet(U), NEW r, NEW clauses,
           Ahead(U, r, clauses) \subseteq Ahead(T, r, clauses)
    PROVE  Rank(U, r, clauses) <= Rank(T, r, clauses)
  BY RankType, FS_Subset DEF Rank

\* A row of the table is not ahead of itself.
LEMMA RankBelowSize ==
    ASSUME NEW T \in SUBSET Row, IsFiniteSet(T), NEW clauses, Valid(clauses), NEW r \in T
    PROVE  Rank(T, r, clauses) < Cardinality(T)
  <1>1. Ahead(T, r, clauses) \in SUBSET T /\ r \notin Ahead(T, r, clauses)
    BY BeforeIrreflexive DEF Ahead
  <1>2. /\ Rank(T, r, clauses) <= Cardinality(T)
        /\ Cardinality(T) = Rank(T, r, clauses) => T = Ahead(T, r, clauses)
    BY <1>1, FS_Subset DEF Rank
  <1>3. Cardinality(T) \in Nat /\ Rank(T, r, clauses) \in Nat
    BY FS_CardinalityType, RankType
  <1> QED
    BY <1>1, <1>2, <1>3

-----------------------------------------------------------------------------
(* Results.                                                                *)

\* The rows of the table, each once, and none after one it comes before.
LEMMA ResultFacts ==
    ASSUME table \in SUBSET Row, IsFiniteSet(table), NEW clauses, NEW rows \in Results(clauses)
    PROVE  /\ Cardinality(table) \in Nat
           /\ rows \in Seq(Row) /\ Len(rows) = Cardinality(table)
           /\ DOMAIN rows = 1..Cardinality(table)
           /\ \A m \in 1..Cardinality(table) : rows[m] \in table
           /\ \A m, n \in 1..Cardinality(table) : m # n => rows[m] # rows[n]
           /\ \A m, n \in 1..Cardinality(table) : m < n => ~ Before(rows[n], rows[m], clauses)
           /\ \A r \in table : \E m \in 1..Cardinality(table) : rows[m] = r
  <1>1. PICK N \in Nat : N = Cardinality(table)
    BY FS_CardinalityType
  <1>2. /\ rows \in [1..N -> table]
        /\ \A m, n \in 1..N : m # n => rows[m] # rows[n]
    BY <1>1 DEF Results, SetToSeqs
  <1>3. \A m, n \in 1..N : m < n => ~ Before(rows[n], rows[m], clauses)
    BY <1>2 DEF Results
  <1>4. rows \in Seq(Row) /\ Len(rows) = N
    BY <1>2
  <1>5. rows \in Injection(1..N, table)
    BY <1>2 DEF Injection, IsInjective
  <1>6. Cardinality(1..N) = N
    BY FS_Interval
  <1>7. rows \in Surjection(1..N, table)
    BY <1>1, <1>5, <1>6, FS_Injection
  <1>8. \A r \in table : \E m \in 1..N : rows[m] = r
    BY <1>7 DEF Surjection
  <1> QED
    BY <1>1, <1>2, <1>3, <1>4, <1>8

\* In an order without ties, a row's position says how many are before it.
LEMMA PositionIsRank ==
    ASSUME table \in SUBSET Row, IsFiniteSet(table), Valid(order), Unambiguous,
           NEW rows \in Results(order), NEW i \in 1..Cardinality(table)
    PROVE  Rank(table, rows[i], order) = i - 1
  <1>1. PICK N \in Nat : N = Cardinality(table)
    BY FS_CardinalityType
  <1>2. /\ \A m \in 1..N : rows[m] \in table
        /\ \A m, n \in 1..N : m # n => rows[m] # rows[n]
        /\ \A m, n \in 1..N : m < n => ~ Before(rows[n], rows[m], order)
        /\ \A r \in table : \E m \in 1..N : rows[m] = r
    BY <1>1, ResultFacts
  <1>3. \A j \in 1..(i - 1) : rows[j] \in Ahead(table, rows[i], order)
    <2> SUFFICES ASSUME NEW j \in 1..(i - 1)
                 PROVE  rows[j] \in Ahead(table, rows[i], order)
      OBVIOUS
    <2>1. j \in 1..N /\ j < i /\ i \in 1..N
      BY <1>1
    <2>2. rows[j] # rows[i] /\ rows[j] \in table /\ rows[i] \in table
      BY <1>2, <2>1
    <2>3. ~ Before(rows[i], rows[j], order)
      BY <1>2, <2>1
    <2>4. Before(rows[j], rows[i], order)
      BY <2>2, <2>3 DEF Unambiguous
    <2> QED
      BY <2>2, <2>4 DEF Ahead
  <1>4. \A x \in Ahead(table, rows[i], order) : \E j \in 1..(i - 1) : rows[j] = x
    <2> SUFFICES ASSUME NEW x \in Ahead(table, rows[i], order)
                 PROVE  \E j \in 1..(i - 1) : rows[j] = x
      OBVIOUS
    <2>1. x \in table /\ Before(x, rows[i], order)
      BY DEF Ahead
    <2>2. PICK j \in 1..N : rows[j] = x
      BY <1>2, <2>1
    <2>3. j # i
      BY <2>1, <2>2, BeforeIrreflexive
    <2>4. ~ (i < j)
      BY <1>1, <1>2, <2>1, <2>2
    <2> QED
      BY <1>1, <2>2, <2>3, <2>4
  <1> DEFINE f == [j \in 1..(i - 1) |-> rows[j]]
  <1>5. f \in Bijection(1..(i - 1), Ahead(table, rows[i], order))
    <2>1. f \in [1..(i - 1) -> Ahead(table, rows[i], order)]
      BY <1>3
    <2>2. \A a, b \in 1..(i - 1) : f[a] = f[b] => a = b
      BY <1>1, <1>2
    <2>3. \A x \in Ahead(table, rows[i], order) : \E j \in 1..(i - 1) : f[j] = x
      BY <1>4
    <2> HIDE DEF f
    <2> QED
      BY <2>1, <2>2, <2>3 DEF Bijection, Injection, Surjection, IsInjective
  <1>6. IsFiniteSet(1..(i - 1)) /\ Cardinality(1..(i - 1)) = i - 1
    <2>1. PICK k \in Nat : k = i - 1
      BY <1>1
    <2>2. IsFiniteSet(1..k) /\ Cardinality(1..k) = IF 1 > k THEN 0 ELSE k - 1 + 1
      BY FS_Interval
    <2>3. IsFiniteSet(1..k) /\ Cardinality(1..k) = k
      BY <2>2
    <2> QED
      BY <2>1, <2>3
  <1> HIDE DEF f
  <1>7. ExistsBijection(1..(i - 1), Ahead(table, rows[i], order))
    BY <1>5 DEF ExistsBijection
  <1>8. Cardinality(Ahead(table, rows[i], order)) = i - 1
    <2>1. PICK S, T : /\ S = 1..(i - 1) /\ T = Ahead(table, rows[i], order)
                      /\ IsFiniteSet(S) /\ ExistsBijection(S, T) /\ Cardinality(S) = i - 1
      BY <1>6, <1>7
    <2>2. Cardinality(T) = Cardinality(S)
      BY <2>1, FS_Bijection
    <2> QED
      BY <2>1, <2>2
  <1> QED
    BY <1>8 DEF Rank

\* ... and so its rank says where it is.
LEMMA RankIsPosition ==
    ASSUME table \in SUBSET Row, IsFiniteSet(table), Valid(order), Unambiguous,
           NEW rows \in Results(order), NEW r \in table
    PROVE  /\ Rank(table, r, order) + 1 \in 1..Cardinality(table)
           /\ rows[Rank(table, r, order) + 1] = r
  <1>1. PICK m \in 1..Cardinality(table) : rows[m] = r
    BY ResultFacts
  <1>2. Rank(table, r, order) = m - 1
    BY <1>1, PositionIsRank
  <1>3. Cardinality(table) \in Nat
    BY FS_CardinalityType
  <1>4. Rank(table, r, order) + 1 = m
    BY <1>2, <1>3
  <1> QED
    BY <1>1, <1>4

-----------------------------------------------------------------------------
(* Types.                                                                  *)

Types ==
    /\ table \in SUBSET Row /\ IsFiniteSet(table)
    /\ pc \in {"idle", "count", "page", "done"}
    /\ page \in Nat \ {0} /\ size \in Nat \ {0} /\ total \in Nat
    /\ seen \in Seq(Row)
    /\ stayed \subseteq table /\ removed \subseteq Row
    /\ inserted \subseteq Row /\ slipped \subseteq inserted
    /\ Valid(order)
    /\ sorts \in BOOLEAN
    /\ sorts /\ request # <<>> => order = Clauses(request)
    /\ ~ sorts => order = OwnOrder
    /\ pc = "idle" => /\ seen = <<>> /\ page = 1
                      /\ removed = {} /\ inserted = {} /\ slipped = {}

\* A request that is not refused sorts by columns.
LEMMA OrderIsValid ==
    ASSUME NEW requested \in Request, NEW hasSpec \in BOOLEAN,
           ~ (hasSpec /\ Unsupported(requested))
    PROVE  Valid(OrderBy(requested, hasSpec))
  <1>1. CASE ~ hasSpec \/ PairsFor(requested) = <<>>
    <2>1. OwnOrder \in Seq(Column \X Direction)
      BY OwnOrderAssumption
    <2>2. DOMAIN OwnOrder = 1..Len(OwnOrder) /\ Len(OwnOrder) \in Nat
      BY <2>1, LenProperties
    <2>3. \A n \in 1..Len(OwnOrder) : OwnOrder[n][1] \in Column
      BY <2>1, <2>2
    <2> QED
      BY <1>1, <2>2, <2>3 DEF OrderBy, Valid
  <1>2. CASE hasSpec /\ PairsFor(requested) # <<>>
    <2>1. PICK N \in Nat : DOMAIN PairsFor(requested) = 1..N
      <3>1. CASE requested # <<>>
        BY <3>1, LenProperties DEF PairsFor
      <3>2. CASE requested = <<>>
        BY <3>2, DefaultAssumption, LenProperties DEF PairsFor
      <3> QED
        BY <3>1, <3>2
    <2>2. \A n \in 1..N : PairsFor(requested)[n][1] \in DOMAIN Columns
      BY <1>2, <2>1 DEF Unsupported
    <2>3. DOMAIN Clauses(PairsFor(requested)) = 1..N
      BY <2>1 DEF Clauses
    <2>4. \A n \in 1..N : Clauses(PairsFor(requested))[n][1] \in Column
      BY <2>1, <2>2, ColumnsAssumption DEF Clauses
    <2> QED
      BY <1>2, <2>3, <2>4 DEF OrderBy, Valid
  <1> QED
    BY <1>1, <1>2

LEMMA SkipFacts ==
    ASSUME page \in Nat \ {0}, size \in Nat \ {0}
    PROVE  /\ Skip \in Nat /\ page * size = Skip + size
           /\ (page + 1 - 1) * size = Skip + size
           /\ page = 1 => Skip = 0
  <1>1. PICK k \in Nat : page = k + 1 /\ page - 1 = k
    OBVIOUS
  <1>2. k * size \in Nat /\ (k + 1) * size = k * size + size
    OBVIOUS
  <1>3. page + 1 - 1 = k + 1
    BY <1>1
  <1>4. k = 0 => k * size = 0
    OBVIOUS
  <1> QED
    BY <1>1, <1>2, <1>3, <1>4 DEF Skip

-----------------------------------------------------------------------------
(* A page.                                                                 *)

\* What a page adds to what has been seen: the rows at the positions after
\* those skipped, as many as fit.
Fetches(rows) ==
    /\ rows \in Results(order)
    /\ seen' \in Seq(Row) /\ Len(seen) \in Nat /\ Len(seen') \in Nat /\ Len(seen) <= Len(seen')
    /\ \A k \in 1..Len(seen) : seen'[k] = seen[k]
    /\ \A k \in 1..Len(seen') : k > Len(seen) =>
           /\ Skip + (k - Len(seen)) \in 1..Cardinality(table) /\ k - Len(seen) <= size
           /\ seen'[k] = rows[Skip + (k - Len(seen))]
    /\ \A i \in 1..Cardinality(table) : Skip < i /\ i <= Skip + size =>
           \E k \in 1..Len(seen') : seen'[k] = rows[i]

LEMMA FetchFacts ==
    ASSUME Types, FetchPage
    PROVE  \E rows : Fetches(rows)
  <1>1. PICK rows \in Results(order) : seen' = seen \o PageOf(rows)
    BY DEF FetchPage
  <1>2. PICK N \in Nat : N = Cardinality(table)
    BY FS_CardinalityType DEF Types
  <1>3. rows \in Seq(Row) /\ Len(rows) = N /\ DOMAIN rows = 1..N
    BY <1>1, <1>2, ResultFacts DEF Types
  <1>4. PICK K \in Nat : K = Skip
    BY SkipFacts DEF Types
  <1>5. PICK E \in Nat : E = IF N < K + size THEN N ELSE K + size
    BY DEF Types
  <1>6. PICK P : P = PageOf(rows)
    OBVIOUS
  <1>7. P = SubSeq(rows, K + 1, E)
    BY <1>3, <1>4, <1>5, <1>6 DEF PageOf
  <1>8. /\ P \in Seq(Row)
        /\ Len(P) = IF K + 1 <= E THEN E - (K + 1) + 1 ELSE 0
        /\ \A i \in 1..(E - (K + 1) + 1) : P[i] = rows[K + 1 + i - 1]
    <2>1. K + 1 \in Int /\ E \in Int
      OBVIOUS
    <2>2. \A i \in (K + 1)..E : rows[i] \in Row
      BY <1>3, <1>5, ElementOfSeq
    <2> QED
      BY <1>7, <2>1, <2>2, SubSeqProperties, Z3
  <1>9. PICK M \in Nat : M = Len(P)
    BY <1>8, LenProperties
  <1>10. \A i \in 1..M : K + i \in 1..N /\ i <= size /\ P[i] = rows[K + i]
    <2> SUFFICES ASSUME NEW i \in 1..M
                 PROVE  K + i \in 1..N /\ i <= size /\ P[i] = rows[K + i]
      OBVIOUS
    <2>1. size \in Nat
      BY DEF Types
    <2>2. K + 1 <= E /\ M = E - K
      BY <1>8, <1>9
    <2>3. i \in 1..(E - (K + 1) + 1) /\ K + 1 + i - 1 = K + i
      BY <2>2
    <2>4. P[i] = rows[K + i]
      BY <1>8, <2>3
    <2> QED
      BY <1>5, <2>1, <2>2, <2>4
  <1>11. \A i \in 1..N : K < i /\ i <= K + size => i - K \in 1..M /\ P[i - K] = rows[i]
    <2> SUFFICES ASSUME NEW i \in 1..N, K < i, i <= K + size
                 PROVE  i - K \in 1..M /\ P[i - K] = rows[i]
      OBVIOUS
    <2>1. size \in Nat
      BY DEF Types
    <2>2. i <= E
      BY <1>5, <2>1
    <2>3. i - K \in 1..M
      BY <1>8, <1>9, <2>2
    <2>4. P[i - K] = rows[K + (i - K)] /\ K + (i - K) = i
      BY <1>10, <2>3
    <2> QED
      BY <2>3, <2>4
  <1>12. PICK L \in Nat : L = Len(seen) /\ seen \in Seq(Row)
    BY LenProperties DEF Types
  <1>13. /\ seen' \in Seq(Row) /\ Len(seen') = L + M
         /\ \A k \in 1..(L + M) : seen'[k] = IF k <= L THEN seen[k] ELSE P[k - L]
    <2>1. seen' = seen \o P
      BY <1>1, <1>6
    <2>2. P \in Seq(Row) /\ seen \in Seq(Row)
      BY <1>8, <1>12
    <2>3. /\ seen \o P \in Seq(Row) /\ Len(seen \o P) = Len(seen) + Len(P)
          /\ \A k \in 1..(Len(seen) + Len(P)) :
                 (seen \o P)[k] = IF k <= Len(seen) THEN seen[k] ELSE P[k - Len(seen)]
      BY <2>2, ConcatProperties, Zenon
    <2> QED
      BY <1>9, <1>12, <2>1, <2>3
  <1>14. \A k \in 1..(L + M) : k > L =>
             /\ K + (k - L) \in 1..N /\ k - L <= size
             /\ seen'[k] = rows[K + (k - L)]
    <2> SUFFICES ASSUME NEW k \in 1..(L + M), k > L
                 PROVE  /\ K + (k - L) \in 1..N /\ k - L <= size
                        /\ seen'[k] = rows[K + (k - L)]
      OBVIOUS
    <2>1. k - L \in 1..M
      OBVIOUS
    <2>2. seen'[k] = P[k - L]
      BY <1>13
    <2> QED
      BY <1>10, <2>1, <2>2
  <1>15. \A i \in 1..N : K < i /\ i <= K + size => \E k \in 1..(L + M) : seen'[k] = rows[i]
    <2> SUFFICES ASSUME NEW i \in 1..N, K < i, i <= K + size
                 PROVE  \E k \in 1..(L + M) : seen'[k] = rows[i]
      OBVIOUS
    <2>1. i - K \in 1..M /\ P[i - K] = rows[i]
      BY <1>11
    <2>2. L + (i - K) \in 1..(L + M) /\ ~ (L + (i - K) <= L) /\ L + (i - K) - L = i - K
      BY <2>1
    <2>3. seen'[L + (i - K)] = P[i - K]
      BY <1>13, <2>2
    <2> QED
      BY <2>1, <2>2, <2>3
  <1>16. \A k \in 1..L : seen'[k] = seen[k]
    BY <1>13
  <1>17. L <= L + M /\ L + M \in Nat
    OBVIOUS
  <1>18. Fetches(rows)
    <2>1. Len(seen) = L /\ Len(seen') = L + M /\ Skip = K /\ Cardinality(table) = N
      BY <1>2, <1>4, <1>12, <1>13
    <2> QED
      BY <1>1, <1>13, <1>14, <1>15, <1>16, <1>17, <2>1 DEF Fetches
  <1> QED
    BY <1>18

LEMMA TypesStep ==
    ASSUME Types, [Next]_vars
    PROVE  Types'
  <1>1. ASSUME NEW requested \in Request, NEW hasSpec \in BOOLEAN, NEW asked \in PageSize,
               Walk(requested, hasSpec, asked)
        PROVE  Types'
    <2>1. Valid(order')
      BY <1>1, OrderIsValid DEF Walk
    <2>2. /\ sorts' \in BOOLEAN
          /\ sorts' /\ request' # <<>> => order' = Clauses(request')
          /\ ~ sorts' => order' = OwnOrder
      BY <1>1 DEF Walk, OrderBy, PairsFor
    <2> QED
      BY <1>1, <2>1, <2>2 DEF Walk, Types
  <1>2. CASE Count
    BY <1>2, FS_CardinalityType DEF Count, Types, params, history
  <1>3. CASE FetchPage
    <2>1. seen' \in Seq(Row)
      BY <1>3, FetchFacts DEF Fetches
    <2> QED
      BY <1>3, <2>1 DEF FetchPage, Types, params, history
  <1>4. CASE Forget
    <2>1. Valid(order')
      BY <1>4 DEF Forget, Valid
    <2> QED
      BY <1>4, <2>1 DEF Forget, Types
  <1>5. ASSUME NEW r \in Row, Insert(r)
        PROVE  Types'
    <2>1. IsFiniteSet(table')
      BY <1>5, FS_AddElement DEF Insert, Types
    <2> QED
      BY <1>5, <2>1 DEF Insert, SeenByRequest, Types, params
  <1>6. ASSUME NEW r \in Row, Delete(r)
        PROVE  Types'
    <2>1. IsFiniteSet(table')
      BY <1>6, FS_RemoveElement DEF Delete, Types
    <2> QED
      BY <1>6, <2>1 DEF Delete, SeenByRequest, Types, params
  <1>7. CASE UNCHANGED vars
    BY <1>7 DEF vars, params, history, Types, Valid
  <1> QED
    BY <1>1, <1>2, <1>3, <1>4, <1>5, <1>6, <1>7 DEF Next

-----------------------------------------------------------------------------
(* What writes do to ranks.                                                *)

LEMMA InsertedRank ==
    ASSUME Types, NEW x \in Row, Insert(x), NEW r
    PROVE  /\ Rank(table, r, order) <= Rank(table', r, order)
           /\ ~ Before(x, r, order) => Rank(table', r, order) = Rank(table, r, order)
           /\ Rank(table, r, order) \in Nat /\ Rank(table', r, order) \in Nat
  <1>1. IsFiniteSet(table) /\ IsFiniteSet(table') /\ table' = table \cup {x}
    BY FS_AddElement DEF Insert, Types
  <1>2. Ahead(table, r, order) \subseteq Ahead(table', r, order)
    BY <1>1 DEF Ahead
  <1>3. ~ Before(x, r, order) => Ahead(table', r, order) = Ahead(table, r, order)
    BY <1>1 DEF Ahead
  <1> QED
    BY <1>1, <1>2, <1>3, RankMonotone, RankType DEF Rank

LEMMA DeletedRank ==
    ASSUME Types, NEW x \in Row, Delete(x), NEW r
    PROVE  /\ Rank(table', r, order) <= Rank(table, r, order)
           /\ ~ Before(x, r, order) => Rank(table', r, order) = Rank(table, r, order)
           /\ Rank(table, r, order) \in Nat /\ Rank(table', r, order) \in Nat
  <1>1. IsFiniteSet(table) /\ IsFiniteSet(table') /\ table' = table \ {x}
    BY FS_RemoveElement DEF Delete, Types
  <1>2. Ahead(table', r, order) \subseteq Ahead(table, r, order)
    BY <1>1 DEF Ahead
  <1>3. ~ Before(x, r, order) => Ahead(table', r, order) = Ahead(table, r, order)
    BY <1>1 DEF Ahead
  <1> QED
    BY <1>1, <1>2, <1>3, RankMonotone, RankType DEF Rank

-----------------------------------------------------------------------------
(* No row is missed.                                                       *)

Unseen(r) == \A k \in DOMAIN seen : seen[k] # r

\* Nothing before r that could move it to a page that has been fetched, or
\* behind those that will be.
Undisturbed(r) == \A other \in removed \cup slipped : ~ Before(other, r, order)

\* A row not seen yet is not among those skipped, and has been counted.
NotMissed ==
    Unambiguous =>
        /\ pc \in {"count", "page"} =>
               \A r \in stayed : Unseen(r) /\ Undisturbed(r) => Skip <= Rank(table, r, order)
        /\ pc = "page" => \A r \in stayed : Undisturbed(r) => Rank(table, r, order) < total
        /\ pc = "done" => \A r \in stayed : Unseen(r) => ~ Undisturbed(r)

LEMMA WalkNotMissed ==
    ASSUME Types, NEW requested \in Request, NEW hasSpec \in BOOLEAN, NEW asked \in PageSize,
           Walk(requested, hasSpec, asked)
    PROVE  NotMissed'
  <1>1. page' = 1 /\ size' \in Nat \ {0} /\ pc' = "count" /\ table' = table
    BY DEF Walk, Types
  <1>2. Skip' = 0
    <2>1. \A n \in Nat : 0 * n = 0
      OBVIOUS
    <2>2. page' - 1 = 0
      BY <1>1
    <2> QED
      BY <1>1, <2>1, <2>2 DEF Skip
  <1>3. \A r : Rank(table', r, order') \in Nat
    BY <1>1, RankType DEF Types
  <1> QED
    BY <1>1, <1>2, <1>3 DEF NotMissed

LEMMA CountNotMissed ==
    ASSUME Types, NotMissed, Count
    PROVE  NotMissed'
  <1>1. /\ table' = table /\ order' = order /\ page' = page /\ size' = size /\ seen' = seen
        /\ stayed' = stayed /\ removed' = removed /\ slipped' = slipped /\ pc = "count"
        /\ pc' = "page" /\ total' = Cardinality(table)
    BY DEF Count, params, history
  <1>2. \A r \in stayed : Rank(table, r, order) < Cardinality(table)
    BY RankBelowSize DEF Types
  <1> QED
    BY <1>1, <1>2 DEF NotMissed, Unambiguous, Unseen, Undisturbed, Skip

LEMMA FetchNotMissed ==
    ASSUME Types, NotMissed, FetchPage
    PROVE  NotMissed'
  <1> SUFFICES ASSUME Unambiguous', NEW r \in stayed, Unseen(r)', Undisturbed(r)
               PROVE  Skip + size <= Rank(table, r, order) /\ page * size < total
    <2>1. /\ order' = order /\ stayed' = stayed /\ table' = table /\ size' = size
          /\ \A r : Undisturbed(r)' <=> Undisturbed(r)
      BY DEF FetchPage, params, history, Undisturbed
    <2>2. CASE pc' = "count" /\ page' = page + 1
      <3>1. Skip' = Skip + size
        BY <2>1, <2>2, SkipFacts DEF Skip, Types
      <3> QED
        BY <2>1, <2>2, <3>1 DEF NotMissed
    <2>3. CASE pc' = "done" /\ ~ (page * size < total)
      BY <2>1, <2>3 DEF NotMissed
    <2> QED
      BY <2>2, <2>3 DEF FetchPage
  <1>1. Unambiguous /\ pc = "page" /\ r \in table
    BY DEF FetchPage, params, Unambiguous, Types
  <1>2. PICK rows : Fetches(rows)
    BY FetchFacts
  <1>3. DOMAIN seen = 1..Len(seen) /\ DOMAIN seen' = 1..Len(seen') /\ Len(seen) \in Nat
        /\ Len(seen') \in Nat /\ Len(seen) <= Len(seen')
    BY <1>2, LenProperties DEF Fetches, Types
  <1>4. Unseen(r)
    BY <1>2, <1>3 DEF Unseen, Fetches
  <1>5. PICK n \in Nat : n = Rank(table, r, order)
    BY RankType DEF Types
  <1>6. PICK K \in Nat : K = Skip /\ page * size = K + size
    BY SkipFacts DEF Types
  <1>7. K <= n /\ n < total
    BY <1>1, <1>4, <1>5, <1>6 DEF NotMissed
  <1>8. n + 1 \in 1..Cardinality(table) /\ rows[n + 1] = r
    BY <1>1, <1>2, <1>5, RankIsPosition DEF Fetches, Types
  <1>9. ~ (n + 1 <= K + size)
    BY <1>2, <1>3, <1>6, <1>7, <1>8 DEF Fetches, Unseen
  <1> QED
    BY <1>5, <1>6, <1>7, <1>9 DEF Types

LEMMA InsertNotMissed ==
    ASSUME Types, NotMissed, NEW x \in Row, Insert(x)
    PROVE  NotMissed'
  <1>1. /\ order' = order /\ page' = page /\ size' = size /\ seen' = seen /\ pc' = pc
        /\ stayed' = stayed /\ removed' = removed /\ slipped \subseteq slipped'
        /\ total' = total /\ pc \in {"count", "page"} /\ (pc = "page" => x \in slipped')
    BY DEF Insert, params, SeenByRequest
  <1>2. Skip' = Skip /\ Skip \in Nat /\ total \in Nat
    BY <1>1, SkipFacts DEF Skip, Types
  <1>3. \A r : /\ Undisturbed(r)' => Undisturbed(r)
               /\ pc = "page" /\ Undisturbed(r)' => ~ Before(x, r, order)
    BY <1>1 DEF Undisturbed
  <1>4. \A r : /\ Rank(table, r, order) <= Rank(table', r, order)
               /\ ~ Before(x, r, order) => Rank(table', r, order) = Rank(table, r, order)
               /\ Rank(table, r, order) \in Nat /\ Rank(table', r, order) \in Nat
    BY InsertedRank
  <1>5. Unambiguous' => Unambiguous
    BY <1>1 DEF Unambiguous
  <1> QED
    BY <1>1, <1>2, <1>3, <1>4, <1>5 DEF NotMissed, Unseen

LEMMA DeleteNotMissed ==
    ASSUME Types, NotMissed, NEW x \in Row, Delete(x)
    PROVE  NotMissed'
  <1>1. /\ order' = order /\ page' = page /\ size' = size /\ seen' = seen /\ pc' = pc
        /\ stayed' \subseteq stayed /\ removed' = removed \cup {x} /\ slipped' = slipped
        /\ total' = total /\ pc \in {"count", "page"}
    BY DEF Delete, params, SeenByRequest
  <1>2. Skip' = Skip /\ Skip \in Nat /\ total \in Nat
    BY <1>1, SkipFacts DEF Skip, Types
  <1>3. \A r : Undisturbed(r)' => Undisturbed(r) /\ ~ Before(x, r, order)
    BY <1>1 DEF Undisturbed
  <1>4. \A r : /\ ~ Before(x, r, order) => Rank(table', r, order) = Rank(table, r, order)
               /\ Rank(table, r, order) \in Nat /\ Rank(table', r, order) \in Nat
    BY DeletedRank
  <1>5. Unambiguous' => Unambiguous
    BY <1>1 DEF Unambiguous
  <1> QED
    BY <1>1, <1>2, <1>3, <1>4, <1>5 DEF NotMissed, Unseen

-----------------------------------------------------------------------------
(* No row is shown twice.                                                  *)

\* Nothing before r that could move it to a page not fetched yet.
Unpushed(r) == \A other \in inserted : ~ Before(other, r, order)

\* A row that has been seen is among those skipped from now on.
NotTwice ==
    Unambiguous =>
        \A r \in stayed : Unpushed(r) =>
            /\ \A m, n \in DOMAIN seen : seen[m] = r /\ seen[n] = r => m = n
            /\ pc \in {"count", "page"} /\ ~ Unseen(r) => Rank(table, r, order) < Skip

LEMMA FetchNotTwice ==
    ASSUME Types, NotTwice, FetchPage
    PROVE  NotTwice'
  <1>1. /\ order' = order /\ stayed' = stayed /\ table' = table /\ size' = size /\ pc = "page"
        /\ inserted' = inserted
    BY DEF FetchPage, params, history
  <1>2. PICK rows : Fetches(rows)
    BY FetchFacts
  <1>3. PICK L \in Nat, M \in Nat : /\ L = Len(seen) /\ M = Len(seen') /\ L <= M
                                   /\ DOMAIN seen = 1..L /\ DOMAIN seen' = 1..M
    BY <1>2, LenProperties DEF Fetches, Types
  <1>4. PICK K \in Nat : K = Skip
    BY SkipFacts DEF Types
  <1>5. PICK N \in Nat : N = Cardinality(table)
    BY FS_CardinalityType DEF Types
  <1>6. /\ \A k \in 1..L : seen'[k] = seen[k]
        /\ \A k \in 1..M : k > L =>
              K + (k - L) \in 1..N /\ k - L <= size /\ seen'[k] = rows[K + (k - L)]
    BY <1>2, <1>3, <1>4, <1>5 DEF Fetches
  <1>7. /\ \A i, j \in 1..N : i # j => rows[i] # rows[j]
    BY <1>2, <1>5, ResultFacts DEF Fetches, Types
  <1> SUFFICES ASSUME Unambiguous, NEW r \in stayed, Unpushed(r)
               PROVE  /\ \A m, n \in 1..M : seen'[m] = r /\ seen'[n] = r => m = n
                      /\ (\E k \in 1..M : seen'[k] = r) => Rank(table, r, order) < K + size
    <2>1. pc' \in {"count", "page"} => Skip' = K + size
      <3>1. pc' \in {"count", "page"} => page' = page + 1
        BY DEF FetchPage
      <3>2. pc' \in {"count", "page"} => Skip' = Skip + size
        BY <1>1, <3>1, SkipFacts DEF Skip, Types
      <3> QED
        BY <1>4, <3>2
    <2>2. \A r : Unpushed(r)' <=> Unpushed(r)
      BY <1>1 DEF Unpushed
    <2>3. Unambiguous' <=> Unambiguous
      BY <1>1 DEF Unambiguous
    <2> QED
      BY <1>1, <1>3, <2>1, <2>2, <2>3 DEF NotTwice, Unseen
  <1>8. /\ \A m, n \in 1..L : seen[m] = r /\ seen[n] = r => m = n
        /\ (\E k \in 1..L : seen[k] = r) => Rank(table, r, order) < K
    BY <1>1, <1>3, <1>4 DEF NotTwice, Unseen
  <1>9. size \in Nat /\ r \in table
    BY DEF Types
  <1>10. \A k \in 1..M : k > L /\ seen'[k] = r => Rank(table, r, order) = K + (k - L) - 1
    <2> SUFFICES ASSUME NEW k \in 1..M, k > L, seen'[k] = r
                 PROVE  Rank(table, r, order) = K + (k - L) - 1
      OBVIOUS
    <2>1. PICK i \in 1..N : i = K + (k - L) /\ rows[i] = r
      BY <1>6
    <2>2. Rank(table, r, order) = i - 1
      BY <1>2, <1>5, <2>1, PositionIsRank DEF Fetches, Types
    <2> QED
      BY <2>1, <2>2
  <1>11. \A k \in 1..M : k > L => k - L <= size
    BY <1>6
  <1>12. \A m, n \in 1..M : seen'[m] = r /\ seen'[n] = r => m = n
    <2> SUFFICES ASSUME NEW m \in 1..M, NEW n \in 1..M, seen'[m] = r, seen'[n] = r
                 PROVE  m = n
      OBVIOUS
    <2>1. CASE m <= L /\ n <= L
      <3>1. m \in 1..L /\ n \in 1..L
        BY <2>1
      <3> QED
        BY <1>6, <1>8, <3>1
    <2>2. CASE m <= L /\ n > L
      <3>1. m \in 1..L
        BY <2>2
      <3>2. Rank(table, r, order) < K
        BY <1>6, <1>8, <3>1
      <3> QED
        BY <1>10, <2>2, <3>2
    <2>3. CASE m > L /\ n <= L
      <3>1. n \in 1..L
        BY <2>3
      <3>2. Rank(table, r, order) < K
        BY <1>6, <1>8, <3>1
      <3> QED
        BY <1>10, <2>3, <3>2
    <2>4. CASE m > L /\ n > L
      BY <1>10, <2>4
    <2> QED
      BY <2>1, <2>2, <2>3, <2>4
  <1>13. ASSUME NEW k \in 1..M, seen'[k] = r
         PROVE  Rank(table, r, order) < K + size
    <2>1. CASE k <= L
      <3>1. k \in 1..L
        BY <2>1
      <3>2. Rank(table, r, order) < K /\ Rank(table, r, order) \in Nat
        BY <1>6, <1>8, <1>13, <3>1, RankType DEF Types
      <3> QED
        BY <1>9, <3>2
    <2>2. CASE k > L
      BY <1>9, <1>10, <1>11, <1>13, <2>2
    <2> QED
      BY <2>1, <2>2
  <1> QED
    BY <1>12, <1>13

LEMMA InsertNotTwice ==
    ASSUME Types, NotTwice, NEW x \in Row, Insert(x)
    PROVE  NotTwice'
  <1>1. /\ order' = order /\ page' = page /\ size' = size /\ seen' = seen /\ pc' = pc
        /\ stayed' = stayed /\ inserted' = inserted \cup {x}
    BY DEF Insert, params
  <1>2. Skip' = Skip
    BY <1>1 DEF Skip
  <1>3. \A r : Unpushed(r)' => Unpushed(r) /\ ~ Before(x, r, order)
    BY <1>1 DEF Unpushed
  <1>4. \A r : ~ Before(x, r, order) => Rank(table', r, order) = Rank(table, r, order)
    BY InsertedRank
  <1>5. Unambiguous' => Unambiguous
    BY <1>1 DEF Unambiguous
  <1> QED
    BY <1>1, <1>2, <1>3, <1>4, <1>5 DEF NotTwice, Unseen

LEMMA DeleteNotTwice ==
    ASSUME Types, NotTwice, NEW x \in Row, Delete(x)
    PROVE  NotTwice'
  <1>1. /\ order' = order /\ page' = page /\ size' = size /\ seen' = seen /\ pc' = pc
        /\ stayed' \subseteq stayed /\ inserted' = inserted
    BY DEF Delete, params
  <1>2. Skip' = Skip /\ Skip \in Nat
    BY <1>1, SkipFacts DEF Skip, Types
  <1>3. \A r : Unpushed(r)' => Unpushed(r)
    BY <1>1 DEF Unpushed
  <1>4. \A r : /\ Rank(table', r, order) <= Rank(table, r, order)
               /\ Rank(table, r, order) \in Nat /\ Rank(table', r, order) \in Nat
    BY DeletedRank
  <1>5. Unambiguous' => Unambiguous
    BY <1>1 DEF Unambiguous
  <1> QED
    BY <1>1, <1>2, <1>3, <1>4, <1>5 DEF NotTwice, Unseen

-----------------------------------------------------------------------------
(* The rows are in order.                                                  *)

InOrder ==
    removed = {} /\ inserted = {} /\ Unambiguous =>
        /\ \A k \in DOMAIN seen :
               /\ seen[k] \in table
               /\ pc \in {"count", "page"} => Rank(table, seen[k], order) < Skip
        /\ \A m, n \in DOMAIN seen : m < n => ~ Before(seen[n], seen[m], order)

LEMMA FetchInOrder ==
    ASSUME Types, InOrder, FetchPage
    PROVE  InOrder'
  <1>1. /\ order' = order /\ table' = table /\ size' = size /\ pc = "page"
        /\ inserted' = inserted /\ removed' = removed
    BY DEF FetchPage, params, history
  <1>2. PICK rows : Fetches(rows)
    BY FetchFacts
  <1>3. PICK L \in Nat, M \in Nat : /\ L = Len(seen) /\ M = Len(seen') /\ L <= M
                                   /\ DOMAIN seen = 1..L /\ DOMAIN seen' = 1..M
    BY <1>2, LenProperties DEF Fetches, Types
  <1>4. PICK K \in Nat : K = Skip
    BY SkipFacts DEF Types
  <1>5. PICK N \in Nat : N = Cardinality(table)
    BY FS_CardinalityType DEF Types
  <1>6. /\ \A k \in 1..L : seen'[k] = seen[k]
        /\ \A k \in 1..M : k > L =>
              K + (k - L) \in 1..N /\ k - L <= size /\ seen'[k] = rows[K + (k - L)]
    BY <1>2, <1>3, <1>4, <1>5 DEF Fetches
  <1>7. /\ \A i \in 1..N : rows[i] \in table
        /\ \A i, j \in 1..N : i < j => ~ Before(rows[j], rows[i], order)
    BY <1>2, <1>5, ResultFacts DEF Fetches, Types
  <1> SUFFICES ASSUME removed = {}, inserted = {}, Unambiguous
               PROVE  /\ \A k \in 1..M : /\ seen'[k] \in table
                                         /\ Rank(table, seen'[k], order) < K + size
                      /\ \A m, n \in 1..M : m < n => ~ Before(seen'[n], seen'[m], order)
    <2>1. pc' \in {"count", "page"} => Skip' = K + size
      <3>1. pc' \in {"count", "page"} => page' = page + 1
        BY DEF FetchPage
      <3>2. pc' \in {"count", "page"} => Skip' = Skip + size
        BY <1>1, <3>1, SkipFacts DEF Skip, Types
      <3> QED
        BY <1>4, <3>2
    <2>2. Unambiguous' <=> Unambiguous
      BY <1>1 DEF Unambiguous
    <2> QED
      BY <1>1, <1>3, <2>1, <2>2 DEF InOrder
  <1>8. /\ \A k \in 1..L : seen[k] \in table /\ Rank(table, seen[k], order) < K
        /\ \A m, n \in 1..L : m < n => ~ Before(seen[n], seen[m], order)
    BY <1>1, <1>3, <1>4 DEF InOrder
  <1>9. size \in Nat
    BY DEF Types
  \* Where a seen row is in this result.
  <1>10. \A k \in 1..M : \E i \in 1..N :
             /\ rows[i] = seen'[k] /\ Rank(table, seen'[k], order) = i - 1 /\ i - 1 < K + size
             /\ IF k <= L THEN i - 1 < K ELSE i = K + (k - L)
    <2> SUFFICES ASSUME NEW k \in 1..M
                 PROVE  \E i \in 1..N :
                            /\ rows[i] = seen'[k] /\ Rank(table, seen'[k], order) = i - 1
                            /\ i - 1 < K + size
                            /\ IF k <= L THEN i - 1 < K ELSE i = K + (k - L)
      OBVIOUS
    <2>1. CASE k <= L
      <3>1. k \in 1..L
        BY <2>1
      <3>2. seen'[k] \in table /\ Rank(table, seen'[k], order) < K
        BY <1>6, <1>8, <3>1
      <3>3. PICK n \in Nat : n = Rank(table, seen'[k], order)
        BY RankType DEF Types
      <3>4. n + 1 \in 1..N /\ rows[n + 1] = seen'[k]
        BY <1>2, <1>5, <3>2, <3>3, RankIsPosition DEF Fetches, Types
      <3>5. n + 1 - 1 = n /\ n < K + size
        BY <1>9, <3>2, <3>3
      <3> QED
        BY <2>1, <3>2, <3>3, <3>4, <3>5
    <2>2. CASE k > L
      <3>1. PICK i \in 1..N : i = K + (k - L) /\ rows[i] = seen'[k] /\ k - L <= size
        BY <1>6, <2>2
      <3>2. Rank(table, seen'[k], order) = i - 1
        BY <1>2, <1>5, <3>1, PositionIsRank DEF Fetches, Types
      <3> QED
        BY <1>9, <2>2, <3>1, <3>2
    <2> QED
      BY <2>1, <2>2
  <1>11. ASSUME NEW m \in 1..M, NEW n \in 1..M, m < n
         PROVE  ~ Before(seen'[n], seen'[m], order)
    <2>1. CASE n <= L
      <3>1. m \in 1..L /\ n \in 1..L
        BY <1>11, <2>1
      <3> QED
        BY <1>6, <1>8, <1>11, <3>1
    <2>2. CASE n > L
      <3>1. PICK j \in 1..N : rows[j] = seen'[n] /\ j = K + (n - L)
        <4>1. ~ (n <= L)
          BY <1>11, <2>2
        <4> QED
          BY <1>10, <1>11, <4>1
      <3>2. PICK i \in 1..N : rows[i] = seen'[m] /\ IF m <= L THEN i - 1 < K ELSE i = K + (m - L)
        BY <1>10
      <3>3. i < j
        BY <1>11, <2>2, <3>1, <3>2
      <3> QED
        BY <1>7, <3>1, <3>2, <3>3
    <2> QED
      BY <2>1, <2>2
  <1> QED
    BY <1>7, <1>10, <1>11

-----------------------------------------------------------------------------
(* The invariant.                                                          *)

IInv == Types /\ NotMissed /\ NotTwice /\ InOrder

LEMMA InitInvariant == Init => IInv
  <1> SUFFICES ASSUME Init PROVE IInv
    OBVIOUS
  <1>1. Types
    BY DEF Init, Types, Valid
  <1>2. NotMissed /\ NotTwice /\ InOrder
    BY DEF Init, NotMissed, NotTwice, InOrder
  <1> QED
    BY <1>1, <1>2 DEF IInv

LEMMA NextInvariant == IInv /\ [Next]_vars => IInv'
  <1> SUFFICES ASSUME IInv, [Next]_vars PROVE (NotMissed /\ NotTwice /\ InOrder)'
    BY TypesStep DEF IInv
  <1> USE DEF IInv
  <1>1. ASSUME NEW requested \in Request, NEW hasSpec \in BOOLEAN, NEW asked \in PageSize,
               Walk(requested, hasSpec, asked)
        PROVE  (NotMissed /\ NotTwice /\ InOrder)'
    <2>1. seen' = <<>> /\ DOMAIN seen' = {}
      BY <1>1 DEF Walk, Types
    <2> QED
      BY <1>1, <2>1, WalkNotMissed DEF NotTwice, InOrder, Unseen
  <1>2. CASE Count
    <2>1. /\ table' = table /\ order' = order /\ page' = page /\ size' = size /\ seen' = seen
          /\ stayed' = stayed /\ removed' = removed /\ inserted' = inserted /\ pc = "count"
          /\ pc' = "page"
      BY <1>2 DEF Count, params, history
    <2>2. NotTwice'
      BY <2>1 DEF NotTwice, Unambiguous, Unseen, Unpushed, Skip
    <2>3. InOrder'
      BY <2>1 DEF InOrder, Unambiguous, Skip
    <2> QED
      BY <1>2, <2>2, <2>3, CountNotMissed
  <1>3. CASE FetchPage
    BY <1>3, FetchNotMissed, FetchNotTwice, FetchInOrder
  <1>4. CASE Forget
    <2>1. stayed' = {} /\ DOMAIN seen' = {} /\ pc' = "idle"
      BY <1>4 DEF Forget
    <2> QED
      BY <2>1 DEF NotMissed, NotTwice, InOrder
  <1>5. ASSUME NEW r \in Row, Insert(r)
        PROVE  (NotMissed /\ NotTwice /\ InOrder)'
    <2>1. inserted' # {}
      BY <1>5 DEF Insert
    <2> QED
      BY <1>5, <2>1, InsertNotMissed, InsertNotTwice DEF InOrder
  <1>6. ASSUME NEW r \in Row, Delete(r)
        PROVE  (NotMissed /\ NotTwice /\ InOrder)'
    <2>1. removed' # {}
      BY <1>6 DEF Delete
    <2> QED
      BY <1>6, <2>1, DeleteNotMissed, DeleteNotTwice DEF InOrder
  <1>7. CASE UNCHANGED vars
    BY <1>7 DEF vars, params, history, NotMissed, NotTwice, InOrder, Unambiguous, Unseen,
       Undisturbed, Unpushed, Skip
  <1> QED
    BY <1>1, <1>2, <1>3, <1>4, <1>5, <1>6, <1>7 DEF Next

THEOREM Invariant == Spec => []IInv
  BY InitInvariant, NextInvariant, PTL DEF Spec

\* The clauses of a statement are by columns of the rows it selects.
THEOREM TypeCorrect == Spec => []Types
  <1>1. IInv => Types
    BY DEF IInv
  <1> QED
    BY <1>1, Invariant, PTL

\* Whatever the tables, orders and sizes, a walk shows every row that stayed
\* unless a row before it was deleted, or inserted after the count.
THEOREM RowsShown == Spec => []NoRowMissed
  <1>1. ASSUME IInv
        PROVE  NoRowMissed
    <2> SUFFICES ASSUME pc = "done", Unambiguous, NEW r \in stayed, Times(r) = 0
                 PROVE  \E other \in removed \cup slipped : Before(other, r, order)
      BY DEF NoRowMissed
    <2>1. DOMAIN seen = 1..Len(seen) /\ Len(seen) \in Nat
      BY <1>1, LenProperties DEF IInv, Types
    <2>2. IsFiniteSet({n \in DOMAIN seen : seen[n] = r})
      <3>1. IsFiniteSet(1..Len(seen)) /\ {n \in DOMAIN seen : seen[n] = r} \subseteq 1..Len(seen)
        BY <2>1, FS_Interval
      <3> QED
        BY <3>1, FS_Subset
    <2>3. {n \in DOMAIN seen : seen[n] = r} = {}
      BY <2>2, FS_EmptySet DEF Times
    <2>4. Unseen(r)
      BY <2>3 DEF Unseen
    <2> QED
      BY <1>1, <2>4 DEF IInv, NotMissed, Undisturbed
  <1> QED
    BY <1>1, Invariant, PTL

LEMMA AtMostOne ==
    ASSUME NEW S, \A a, b \in S : a = b
    PROVE  Cardinality(S) \in {0, 1}
  <1>1. CASE S = {}
    BY <1>1, FS_EmptySet
  <1>2. CASE S # {}
    <2>1. PICK a : a \in S
      BY <1>2
    <2>2. S \subseteq {a} /\ {a} \subseteq S
      BY <2>1
    <2>3. S = {a}
      BY <2>2
    <2>4. Cardinality({a}) = 1
      BY FS_Singleton
    <2> QED
      BY <2>3, <2>4
  <1> QED
    BY <1>1, <1>2

\* ... and none of them twice, unless a row before it was inserted.
THEOREM RowsShownOnce == Spec => []NoRowTwice
  <1>1. ASSUME IInv
        PROVE  NoRowTwice
    <2> SUFFICES ASSUME Unambiguous, NEW r \in stayed, Times(r) > 1, Unpushed(r)
                 PROVE  FALSE
      BY DEF NoRowTwice, Unpushed
    <2>1. \A m, n \in {n \in DOMAIN seen : seen[n] = r} : m = n
      BY <1>1 DEF IInv, NotTwice
    <2>2. Times(r) \in {0, 1}
      BY <2>1, AtMostOne DEF Times
    <2> QED
      BY <2>2
  <1> QED
    BY <1>1, Invariant, PTL

\* The order of the request holds across pages, not only within them.
THEOREM RowsOrdered == Spec => []RequestedOrder
  <1>1. IInv => RequestedOrder
    BY DEF IInv, Types, InOrder, RequestedOrder
  <1> QED
    BY <1>1, Invariant, PTL
=============================================================================

------------------------ MODULE InsightReadingProofs ------------------------
(***************************************************************************)
(* Reading insights, for any number of readers and writers, any table and  *)
(* any limits.  Page by page, a traversal returns nothing twice and leaves *)
(* out nothing that stood still; an insight is read with its links and     *)
(* backlinks as if at once, and the parts of a dashboard differ by no more *)
(* than the writes committed while it was read.                            *)
(***************************************************************************)
EXTENDS InsightPages, InsightDetail, FiniteSetTheorems, TLAPS

-----------------------------------------------------------------------------
(* The first entries in an order *)

\* R orders S strictly and totally.
Order(S, R) ==
    /\ \A e \in S : <<e, e>> \notin R
    /\ \A e, f, g \in S : <<e, f>> \in R /\ <<f, g>> \in R => <<e, g>> \in R
    /\ \A e, f \in S : e = f \/ <<e, f>> \in R \/ <<f, e>> \in R

\* What comes before e, and the entries before which fewer than n come.
Before(S, R, e) == {f \in S : <<f, e>> \in R}
First(S, R, n) == {e \in S : Cardinality(Before(S, R, e)) < n}

\* A set of sets of S that is not empty has a member that contains no other.
LEMMA SmallestSubset ==
    ASSUME NEW S, IsFiniteSet(S), NEW F, F \subseteq SUBSET S, F # {}
    PROVE  \E X \in F : \A Y \in F : ~(Y \subseteq X /\ Y # X)
  <1>1. F \subseteq FiniteSubsetsOf(S)
    BY FS_FiniteSubsetsOfFinite
  <1>2. PICK X \in F : \A Y \in F : <<Y, X>> \notin StrictSubsetOrdering(S)
    <2>1. IsWellFoundedOn(StrictSubsetOrdering(S), FiniteSubsetsOf(S))
      BY FS_StrictSubsetOrderingWellFounded
    <2>2. QED
      BY <1>1, <2>1, WFMin
  <1>3. ASSUME NEW Y \in F, Y \subseteq X, Y # X PROVE FALSE
    <2>1. <<Y, X>> \in StrictSubsetOrdering(S)
      BY <1>3 DEF StrictSubsetOrdering
    <2>2. QED
      BY <1>2, <2>1
  <1>4. QED
    BY <1>3

\* A finite set has an entry that comes first.
LEMMA LeastEntry ==
    ASSUME NEW S, IsFiniteSet(S), S # {}, NEW R, Order(S, R)
    PROVE  \E e \in S : Before(S, R, e) = {}
  <1> DEFINE F == {Before(S, R, e) : e \in S}
  <1>1. F \subseteq SUBSET S /\ F # {}
    BY DEF Before
  <1>2. PICK e \in S : \A f \in S : ~(/\ Before(S, R, f) \subseteq Before(S, R, e)
                                      /\ Before(S, R, f) # Before(S, R, e))
    <2> HIDE DEF F
    <2>1. PICK X \in F : \A Y \in F : ~(Y \subseteq X /\ Y # X)
      BY <1>1, SmallestSubset
    <2>2. QED
      BY <2>1 DEF F
  <1>3. ASSUME NEW f \in Before(S, R, e) PROVE FALSE
    <2>1. f \in S /\ <<f, e>> \in R
      BY DEF Before
    <2>2. Before(S, R, f) \subseteq Before(S, R, e)
      BY <2>1 DEF Before, Order
    <2>3. f \notin Before(S, R, f)
      BY <2>1 DEF Before, Order
    <2>4. QED
      BY <1>2, <1>3, <2>1, <2>2, <2>3
  <1>4. QED
    BY <1>3

\* The later an entry, the more come before it.
LEMMA BeforeStrict ==
    ASSUME NEW S, IsFiniteSet(S), NEW R, Order(S, R), NEW e \in S, NEW f \in S,
           <<e, f>> \in R
    PROVE  /\ Cardinality(Before(S, R, e)) \in Nat /\ Cardinality(Before(S, R, f)) \in Nat
           /\ Cardinality(Before(S, R, e)) < Cardinality(Before(S, R, f))
  <1>1. Before(S, R, e) \subseteq Before(S, R, f)
    BY DEF Before, Order
  <1>2. e \in Before(S, R, f) /\ e \notin Before(S, R, e)
    BY DEF Before, Order
  <1>3. IsFiniteSet(Before(S, R, f))
    BY FS_Subset DEF Before
  <1>4. IsFiniteSet(Before(S, R, e))
        /\ Cardinality(Before(S, R, e)) <= Cardinality(Before(S, R, f))
        /\ Cardinality(Before(S, R, e)) # Cardinality(Before(S, R, f))
    BY <1>1, <1>2, <1>3, FS_Subset
  <1>5. Cardinality(Before(S, R, e)) \in Nat /\ Cardinality(Before(S, R, f)) \in Nat
    BY <1>3, <1>4, FS_CardinalityType
  <1>6. QED
    BY <1>4, <1>5

\* ORDER BY and LIMIT n: n entries, or all if there are no more, and none of the
\* others before any of them.
LEMMA FirstSound ==
    ASSUME NEW S, IsFiniteSet(S), NEW R, Order(S, R), NEW n \in Nat
    PROVE  /\ First(S, R, n) \subseteq S /\ IsFiniteSet(First(S, R, n))
           /\ Cardinality(First(S, R, n)) = IF Cardinality(S) <= n THEN Cardinality(S) ELSE n
           /\ Cardinality(S) <= n => First(S, R, n) = S
           /\ \A e \in S \ First(S, R, n), f \in First(S, R, n) : <<f, e>> \in R
  <1> DEFINE T == First(S, R, n)
  <1>1. T = {e \in S : Cardinality(Before(S, R, e)) < n}
    BY DEF First
  <1>2. T \subseteq S /\ IsFiniteSet(T) /\ Cardinality(T) \in Nat /\ Cardinality(S) \in Nat
    BY <1>1, FS_Subset, FS_CardinalityType
  <1>3. \A e \in S : /\ IsFiniteSet(Before(S, R, e))
                     /\ Cardinality(Before(S, R, e)) \in Nat
    BY FS_Subset, FS_CardinalityType DEF Before
  <1> HIDE DEF T
  <1>4. Cardinality(T) <= n
    <2> DEFINE m == [e \in T |-> Cardinality(Before(S, R, e))]
    <2>1. m \in [T -> 0 .. (n - 1)]
      BY <1>1, <1>3
    <2>2. ASSUME NEW e \in T, NEW f \in T, m[e] = m[f] PROVE e = f
      <3>1. Cardinality(Before(S, R, e)) = Cardinality(Before(S, R, f))
        BY <2>2
      <3>2. <<e, f>> \notin R /\ <<f, e>> \notin R
        BY <1>2, <3>1, BeforeStrict
      <3>3. QED
        BY <1>2, <3>2 DEF Order
    <2>3. m \in Injection(T, 0 .. (n - 1))
      BY <2>1, <2>2 DEF Injection, IsInjective
    <2>4. IsFiniteSet(0 .. (n - 1)) /\ Cardinality(0 .. (n - 1)) = n
      BY FS_Interval
    <2> HIDE DEF m
    <2>5. QED
      BY <2>3, <2>4, FS_Injection
  <1>5. ASSUME Cardinality(S) <= n PROVE T = S
    <2>1. ASSUME NEW e \in S PROVE Cardinality(Before(S, R, e)) < n
      <3>1. Before(S, R, e) \subseteq S /\ e \notin Before(S, R, e)
        BY DEF Before, Order
      <3>2. /\ Cardinality(Before(S, R, e)) <= Cardinality(S)
            /\ Cardinality(Before(S, R, e)) # Cardinality(S)
        BY <3>1, FS_Subset
      <3>3. QED
        BY <1>2, <1>3, <1>5, <3>2
    <2>2. QED
      BY <1>1, <2>1
  <1>6. ASSUME ~(Cardinality(S) <= n) PROVE n <= Cardinality(T)
    <2> DEFINE U == S \ T
    <2>1. U # {} /\ IsFiniteSet(U) /\ Order(U, R)
      <3>1. T # S
        BY <1>4, <1>6
      <3>2. U \subseteq S /\ IsFiniteSet(U)
        BY FS_Subset
      <3>3. QED
        BY <1>2, <3>1, <3>2 DEF Order
    <2>2. PICK e \in U : Before(U, R, e) = {}
      <3> HIDE DEF U
      <3>1. QED
        BY <2>1, LeastEntry
    <2>3. Before(S, R, e) \subseteq T
      BY <1>2, <2>2 DEF Before
    <2>4. Cardinality(Before(S, R, e)) <= Cardinality(T)
      BY <1>2, <2>3, FS_Subset
    <2>5. QED
      BY <1>1, <1>2, <1>3, <2>2, <2>4
  <1>7. ASSUME NEW e \in S \ T, NEW f \in T PROVE <<f, e>> \in R
    <2>1. Cardinality(Before(S, R, f)) < n /\ ~(Cardinality(Before(S, R, e)) < n)
      BY <1>1
    <2>2. f \in S /\ e # f
      BY <1>2
    <2>3. <<e, f>> \notin R
      <3> SUFFICES ASSUME <<e, f>> \in R PROVE FALSE
        OBVIOUS
      <3>1. Cardinality(Before(S, R, e)) < Cardinality(Before(S, R, f))
        BY <2>2, BeforeStrict
      <3>2. QED
        BY <1>3, <2>1, <2>2, <3>1
    <2>4. QED
      BY <2>2, <2>3 DEF Order
  <1>8. Cardinality(T) = IF Cardinality(S) <= n THEN Cardinality(S) ELSE n
    BY <1>2, <1>4, <1>5, <1>6
  <1>9. QED
    BY <1>2, <1>5, <1>7, <1>8 DEF T

-----------------------------------------------------------------------------
(* The order of positions *)

\* Row comparison is a strict total order.
LEMMA LessOrder ==
    /\ \A e \in Position : ~Less(e, e)
    /\ \A e, f, g \in Position : Less(e, f) /\ Less(f, g) => Less(e, g)
    /\ \A e, f \in Position : e = f \/ Less(e, f) \/ Less(f, e)
  <1>1. \A e \in Position : /\ e = <<e[1], e[2], e[3]>>
                            /\ e[1] \in Nat /\ e[2] \in Nat /\ e[3] \in Nat
    <2> SUFFICES ASSUME NEW e \in Position
                 PROVE  /\ e = <<e[1], e[2], e[3]>>
                        /\ e[1] \in Nat /\ e[2] \in Nat /\ e[3] \in Nat
      OBVIOUS
    <2>1. e[1] \in Rank \cup {0} /\ e[2] \in Nat /\ e[3] \in Insight
      BY DEF Position
    <2>2. e = <<e[1], e[2], e[3]>>
      BY DEF Position
    <2>3. QED
      BY <2>1, <2>2, PagesAssumption, InsightAssumption
  <1>2. \A e \in Position : ~Less(e, e)
    BY <1>1 DEF Less
  <1>3. \A e, f, g \in Position : Less(e, f) /\ Less(f, g) => Less(e, g)
    BY <1>1 DEF Less
  <1>4. ASSUME NEW e \in Position, NEW f \in Position, ~Less(e, f), ~Less(f, e)
        PROVE  e = f
    <2>1. e[1] = f[1] /\ e[2] = f[2] /\ e[3] = f[3]
      BY <1>1, <1>4 DEF Less
    <2>2. QED
      BY <1>1, <2>1
  <1>5. QED
    BY <1>2, <1>3, <1>4

\* Positions in descending and in ascending order.
Descending == {ef \in Position \X Position : Less(ef[2], ef[1])}
Ascending == {ef \in Position \X Position : Less(ef[1], ef[2])}

LEMMA PositionOrder ==
    ASSUME NEW S, S \subseteq Position
    PROVE  /\ Order(S, Descending) /\ Order(S, Ascending)
           /\ \A e, f \in S : /\ <<e, f>> \in Descending <=> Less(f, e)
                              /\ <<e, f>> \in Ascending <=> Less(e, f)
  <1>1. \A e, f \in S : /\ <<e, f>> \in Descending <=> Less(f, e)
                        /\ <<e, f>> \in Ascending <=> Less(e, f)
    BY DEF Descending, Ascending
  <1>2. QED
    BY <1>1, LessOrder DEF Order

-----------------------------------------------------------------------------
(* Pages *)

\* The first n entries are at most n, all there are if there are no more, some if
\* there are any, and above all the others.
LEMMA TopSound ==
    ASSUME NEW S, S \subseteq Position, IsFiniteSet(S), NEW n \in Nat \ {0}
    PROVE  /\ Top(S, n) \subseteq S /\ IsFiniteSet(Top(S, n))
           /\ Cardinality(Top(S, n)) <= n
           /\ Cardinality(S) <= n => Top(S, n) = S
           /\ S # {} => Top(S, n) # {}
           /\ \A e \in S \ Top(S, n), t \in Top(S, n) : Less(e, t)
  <1>1. Order(S, Descending) /\ \A e, f \in S : <<e, f>> \in Descending <=> Less(f, e)
    BY PositionOrder
  <1>2. Top(S, n) = First(S, Descending, n)
    <2>1. \A e \in S : Before(S, Descending, e) = {f \in S : Less(e, f)}
      BY <1>1 DEF Before
    <2>2. QED
      BY <2>1 DEF Top, First
  <1> DEFINE T == First(S, Descending, n)
  <1>3. /\ T \subseteq S /\ IsFiniteSet(T)
        /\ Cardinality(T) = IF Cardinality(S) <= n THEN Cardinality(S) ELSE n
        /\ Cardinality(S) <= n => T = S
        /\ \A e \in S \ T, f \in T : <<f, e>> \in Descending
    BY <1>1, FirstSound
  <1> HIDE DEF T
  <1>4. Cardinality(S) \in Nat
    BY FS_CardinalityType
  <1>5. S # {} => T # {}
    BY <1>3, <1>4, FS_EmptySet
  <1>6. \A e \in S \ T, t \in T : Less(e, t)
    BY <1>1, <1>3
  <1>7. QED
    BY <1>2, <1>3, <1>4, <1>5, <1>6 DEF T

-----------------------------------------------------------------------------
(* What operations match *)

\* The table is well typed.
RowsTyped == rows \in [Insight -> Row \cup {None}]

\* An operation matches finitely many positions.
LEMMA MatchesSound ==
    ASSUME RowsTyped, NEW o \in Op
    PROVE  Matches(o) \subseteq Position /\ IsFiniteSet(Matches(o))
  <1>1. \A i \in Insight : rows[i] # None =>
           rows[i].rank \in Rank /\ rows[i].updated \in Nat /\ rows[i].revision \in Nat
    BY DEF RowsTyped, Row
  <1>2. CASE o.kind = "insight_list"
    <2> DEFINE I == {j \in Insight : Live(j) /\ o.filter \in {None, rows[j].tag}}
               m == [i \in I |-> <<0, rows[i].updated, i>>]
    <2>1. Matches(o) = {<<0, rows[i].updated, i>> : i \in I}
      BY <1>2 DEF Matches, ListMatches
    <2>2. Matches(o) \subseteq Position
      BY <1>1, <2>1 DEF Position, Live
    <2>3. m \in Surjection(I, Matches(o))
      BY <2>1 DEF Surjection
    <2>4. IsFiniteSet(I)
      BY PagesAssumption, InsightAssumption, FS_Subset
    <2> HIDE DEF I, m
    <2>5. QED
      BY <2>2, <2>3, <2>4, FS_Surjection
  <1>3. CASE o.kind = "insight_search"
    <2> DEFINE I == {j \in Insight : /\ Live(j) /\ rows[j].rank > 0
                                     /\ \A k \in DOMAIN o.filter : o.filter[k] # j}
               m == [i \in I |-> <<rows[i].rank, rows[i].updated, i>>]
    <2>1. Matches(o) = {<<rows[i].rank, rows[i].updated, i>> : i \in I}
      BY <1>3 DEF Matches, SearchMatches
    <2>2. Matches(o) \subseteq Position
      BY <1>1, <2>1 DEF Position, Live
    <2>3. m \in Surjection(I, Matches(o))
      BY <2>1 DEF Surjection
    <2>4. IsFiniteSet(I)
      BY PagesAssumption, InsightAssumption, FS_Subset
    <2> HIDE DEF I, m
    <2>5. QED
      BY <2>2, <2>3, <2>4, FS_Surjection
  <1>4. CASE o.kind = "insight_history"
    <2> DEFINE i == o.filter
    <2>1. i \in Insight /\ Matches(o) = HistoryMatches(i)
      BY <1>4 DEF Matches, Op, ListOp, SearchOp, HistoryOp
    <2>2. CASE rows[i] = None
      BY <2>1, <2>2, FS_EmptySet DEF HistoryMatches
    <2>3. CASE rows[i] # None
      <3> DEFINE k == rows[i].revision
                 m == [n \in 1 .. k |-> <<0, n, i>>]
      <3>1. k \in Nat
        BY <1>1, <2>1, <2>3
      <3>2. Matches(o) = {<<0, n, i>> : n \in 1 .. k}
        BY <2>1, <2>3 DEF HistoryMatches
      <3> HIDE DEF k, i
      <3>3. Matches(o) \subseteq Position
        BY <2>1, <3>1, <3>2 DEF Position
      <3>4. m \in Surjection(1 .. k, Matches(o))
        BY <3>2 DEF Surjection
      <3>5. IsFiniteSet(1 .. k)
        BY <3>1, FS_Interval
      <3> HIDE DEF m
      <3>6. QED
        BY <3>3, <3>4, <3>5, FS_Surjection
    <2>4. QED
      BY <2>2, <2>3
  <1>5. QED
    BY <1>2, <1>3, <1>4 DEF Op, ListOp, SearchOp, HistoryOp

\* Operations with the same hash match the same.
LEMMA SameHash ==
    ASSUME NEW o \in Op, NEW p \in Op, FilterHash(o) = FilterHash(p)
    PROVE  Matches(o) = Matches(p)
  <1>1. o.kind = p.kind
    BY DEF FilterHash
  <1>2. CASE o.kind = "insight_search"
    <2>1. {o.filter[k] : k \in DOMAIN o.filter} = {p.filter[k] : k \in DOMAIN p.filter}
      BY <1>1, <1>2 DEF FilterHash
    <2>2. \A j : (\A k \in DOMAIN o.filter : o.filter[k] # j)
                 <=> (\A k \in DOMAIN p.filter : p.filter[k] # j)
      BY <2>1
    <2>3. SearchMatches(o.filter) = SearchMatches(p.filter)
      BY <2>2 DEF SearchMatches
    <2>4. QED
      BY <1>1, <1>2, <2>3 DEF Matches
  <1>3. CASE o.kind # "insight_search"
    <2>1. o.filter = p.filter
      BY <1>1, <1>3 DEF FilterHash
    <2>2. QED
      BY <1>1, <2>1 DEF Matches
  <1>4. QED
    BY <1>2, <1>3

\* While no writer commits, an operation matches the same.
LEMMA MatchesSame == ASSUME rows' = rows, NEW o PROVE Matches(o)' = Matches(o)
  BY DEF Matches, ListMatches, SearchMatches, HistoryMatches, Live

-----------------------------------------------------------------------------
(* The inductive invariant *)

Clocks == now \in Nat /\ started \in [Writer -> Nat \cup {None}]

\* Every traversal has a state.
Shapes ==
    /\ op \in [Reader -> Op] /\ tried \in [Reader -> Op] /\ DOMAIN cursor = Reader
    /\ page \in [Reader -> SUBSET Position]
    /\ seen \in [Reader -> SUBSET Position]
    /\ kept \in [Reader -> SUBSET Position]

\* A traversal that has not begun remembers nothing.
Fresh(r) == stage[r] = "idle" => page[r] = {} /\ seen[r] = {} /\ kept[r] = {}

\* A cursor is that of an entry with nothing returned beyond it, and everything beyond
\* which the first page could have promised is still to come.
Bounds(r, e) ==
    /\ cursor[r] = Encode(op[r], e)
    /\ \A f \in page[r] \cup seen[r] : ~Less(f, e)
    /\ \A f \in kept[r] : f \in page[r] \cup seen[r] \/ Less(f, e)

Continues(r) == stage[r] \in {"more", "invalid"} => \E e \in Position : Bounds(r, e)

\* What is kept still matches.
Reading == \A r \in Reader : kept[r] \subseteq Matches(op[r])

IInv ==
    /\ TypeOK
    /\ Shapes
    /\ Clocks
    /\ \A r \in Reader : Fresh(r) /\ Continues(r)
    /\ Reading
    /\ PagesDisjoint
    /\ TraversalComplete
    /\ RefusedForCause

\* No traversal has begun.
LEMMA Initial == Init => IInv
  <1> SUFFICES ASSUME Init PROVE IInv
    OBVIOUS
  <1>1. AnyList \in Op
    BY DEF AnyList, Op, ListOp
  <1>2. rows \in [Insight -> Row \cup {None}]
    <2>1. 0 .. FirstTime \subseteq Nat /\ {1} \subseteq Nat \ {0}
      BY PagesAssumption, InsightAssumption
    <2>2. [live : {TRUE}, tag : Tag, rank : Rank, updated : 0 .. FirstTime, revision : {1}]
             \subseteq Row
      BY <2>1 DEF Row
    <2>3. QED
      BY <2>2 DEF Init
  <1>3. \A r \in Reader :
           /\ stage[r] = "idle" /\ op[r] = AnyList /\ tried[r] = AnyList
           /\ cursor[r] = None /\ page[r] = {} /\ seen[r] = {} /\ kept[r] = {}
    BY DEF Init
  <1>4. TypeOK
    <2>1. Cardinality({}) = 0 /\ 0 <= MaxLimit
      BY FS_EmptySet, PagesAssumption, InsightAssumption
    <2>2. stage \in [Reader -> {"idle", "more", "done", "invalid"}]
      BY DEF Init
    <2>3. QED
      BY <1>1, <1>2, <1>3, <2>1, <2>2 DEF TypeOK
  <1>5. Clocks
    BY PagesAssumption, InsightAssumption DEF Init, Clocks
  <1>6. Shapes
    BY <1>1 DEF Init, Shapes
  <1>7. QED
    BY <1>3, <1>4, <1>5, <1>6
    DEF IInv, Fresh, Continues, Reading, PagesDisjoint, TraversalComplete, RefusedForCause

-----------------------------------------------------------------------------
(* A page *)

\* What a client gets: the first entries of what is left, and either that is all of it
\* or a cursor at the last entry, beyond which everything else is.
LEMMA PageSound ==
    ASSUME NEW S, S \subseteq Position, IsFiniteSet(S), NEW o \in Op, NEW n \in 1 .. MaxLimit
    PROVE  /\ Top(S, n) \subseteq S /\ Cardinality(Top(S, n)) <= MaxLimit
           /\ NextCursor(o, S, n) = None => Top(S, n) = S
           /\ NextCursor(o, S, n) # None =>
                 \E e \in Top(S, n) : /\ NextCursor(o, S, n) = Encode(o, e)
                                      /\ \A f \in Top(S, n) : ~Less(f, e)
                                      /\ \A f \in S : f \in Top(S, n) \/ Less(f, e)
  <1> DEFINE T == Top(S, n)
  <1>0. n \in Nat \ {0} /\ n <= MaxLimit /\ MaxLimit \in Nat
    BY PagesAssumption, InsightAssumption
  <1>1. /\ T \subseteq S /\ IsFiniteSet(T) /\ Cardinality(T) <= n
        /\ Cardinality(S) <= n => T = S
        /\ S # {} => T # {}
        /\ \A e \in S \ T, t \in T : Less(e, t)
    BY <1>0, TopSound
  <1>2. Cardinality(T) \in Nat /\ Cardinality(S) \in Nat
    BY <1>1, FS_CardinalityType
  <1> HIDE DEF T
  <1>3. CASE Cardinality(S) > n
    <2>1. S # {}
      BY <1>0, <1>3, FS_EmptySet
    <2>2. \E e \in T : \A f \in T : ~Less(f, e)
      <3>1. T \subseteq Position
        BY <1>1
      <3>2. Order(T, Ascending) /\ \A e, f \in T : <<f, e>> \in Ascending <=> Less(f, e)
        BY <3>1, PositionOrder
      <3>3. PICK e \in T : Before(T, Ascending, e) = {}
        BY <1>1, <2>1, <3>2, LeastEntry
      <3>4. QED
        BY <3>2, <3>3 DEF Before
    <2> DEFINE c == CHOOSE e \in T : \A f \in T : ~Less(f, e)
    <2>3. c \in T /\ \A f \in T : ~Less(f, c)
      BY <2>2
    <2>4. NextCursor(o, S, n) = Encode(o, c)
      BY <1>0, <1>3 DEF NextCursor, T
    <2> HIDE DEF c
    <2>5. \A f \in S : f \in T \/ Less(f, c)
      BY <1>1, <2>3
    <2>6. Encode(o, c) # None
      <3>1. c \in Position
        BY <1>1, <2>3
      <3>2. Encode(o, c) \in [hash : {FilterHash(p) : p \in Op}, after : Position]
        BY <3>1 DEF Encode
      <3>3. QED
        BY <3>2, CursorAssumption
    <2>7. QED
      BY <1>0, <1>1, <1>2, <2>3, <2>4, <2>5, <2>6 DEF T
  <1>4. CASE Cardinality(S) <= n
    <2>1. NextCursor(o, S, n) = None
      BY <1>0, <1>2, <1>4 DEF NextCursor
    <2>2. QED
      BY <1>0, <1>1, <1>2, <1>4, <2>1 DEF T
  <1>5. QED
    BY <1>0, <1>2, <1>3, <1>4

\* Every limit a request may ask for gives a page.
LEMMA LimitSound == \A n \in LimitArg : EffectiveLimit(n) \in 1 .. MaxLimit
  BY PagesAssumption, InsightAssumption DEF EffectiveLimit

\* A page of what is left, S, keeps the invariant if S is beyond everything that was
\* returned, B, and together they hold everything that was promised, K.
LEMMA AnswerStep ==
    ASSUME IInv, NEW r \in Reader, NEW o \in Op, NEW n \in 1 .. MaxLimit, NEW S, NEW K, NEW B,
           S \subseteq Matches(o), K \subseteq Matches(o), B \subseteq Position,
           \A e \in S, b \in B : Less(e, b),
           \A e \in K : e \in B \/ e \in S,
           page' = [page EXCEPT ![r] = Top(S, n)],
           cursor' = [cursor EXCEPT ![r] = NextCursor(o, S, n)],
           stage' = [stage EXCEPT ![r] = IF NextCursor(o, S, n) = None THEN "done" ELSE "more"],
           op' = [op EXCEPT ![r] = o],
           seen' = [seen EXCEPT ![r] = B],
           kept' = [kept EXCEPT ![r] = K],
           UNCHANGED <<now, rows, started, wrote, tried>>
    PROVE  IInv'
  <1>0. Matches(o) \subseteq Position /\ IsFiniteSet(Matches(o))
    BY MatchesSound DEF IInv, TypeOK, RowsTyped
  <1>1. S \subseteq Position /\ IsFiniteSet(S)
    BY <1>0, FS_Subset
  <1> DEFINE T == Top(S, n)
             c == NextCursor(o, S, n)
  <1>2. /\ T \subseteq S /\ Cardinality(T) <= MaxLimit
        /\ c = None => T = S
        /\ c # None => \E e \in T : /\ c = Encode(o, e)
                                    /\ \A f \in T : ~Less(f, e)
                                    /\ \A f \in S : f \in T \/ Less(f, e)
    BY <1>1, PageSound
  <1>3. /\ page'[r] = T /\ cursor'[r] = c /\ op'[r] = o /\ seen'[r] = B /\ kept'[r] = K
        /\ stage'[r] = IF c = None THEN "done" ELSE "more"
        /\ stage' \in [Reader -> {"idle", "more", "done", "invalid"}]
    BY DEF IInv, TypeOK, Shapes
  <1>4. \A q \in Reader \ {r} :
           /\ page'[q] = page[q] /\ cursor'[q] = cursor[q] /\ op'[q] = op[q]
           /\ seen'[q] = seen[q] /\ kept'[q] = kept[q] /\ stage'[q] = stage[q]
    BY DEF IInv, TypeOK, Shapes
  <1>5. tried' = tried /\ rows' = rows /\ now' = now /\ started' = started
    OBVIOUS
  <1> HIDE DEF T, c
  <1>6. \A p \in Op : Matches(p)' = Matches(p)
    BY <1>5, MatchesSame
  <1>7. stage'[r] # "invalid" /\ stage'[r] # "idle" /\ (stage'[r] = "done" <=> c = None)
        /\ (stage'[r] = "more" <=> c # None)
    BY <1>3
  <1>8. \A b \in B : \A e \in T : Less(e, b) /\ ~Less(b, e)
    BY <1>1, <1>2, LessOrder
  <1>9. TypeOK'
    <2>1. \A q \in Reader :
             /\ op'[q] \in Op /\ tried'[q] \in Op
             /\ page'[q] \cup seen'[q] \cup kept'[q] \subseteq Position
      <3>1. T \cup B \cup K \subseteq Position
        BY <1>0, <1>1, <1>2
      <3>2. QED
        BY <1>3, <1>4, <1>5, <3>1 DEF IInv, TypeOK
    <2>2. \A q \in Reader :
             /\ cursor'[q] # None <=> stage'[q] \in {"more", "invalid"}
             /\ Cardinality(page'[q]) <= MaxLimit
      BY <1>2, <1>3, <1>4, <1>7 DEF IInv, TypeOK
    <2>3. QED
      BY <1>3, <1>5, <2>1, <2>2 DEF IInv, TypeOK
  <1>10. Shapes'
    <2>1. /\ DOMAIN op' = Reader /\ DOMAIN cursor' = Reader /\ DOMAIN page' = Reader
          /\ DOMAIN seen' = Reader /\ DOMAIN kept' = Reader
      BY DEF IInv, Shapes
    <2>2. T \in SUBSET Position /\ B \in SUBSET Position /\ K \in SUBSET Position
      BY <1>0, <1>1, <1>2
    <2>3. QED
      BY <1>5, <2>2 DEF IInv, Shapes, T, c
  <1>11. Clocks'
    BY <1>5 DEF IInv, Clocks
  <1>12. \A q \in Reader : Fresh(q)'
    BY <1>3, <1>4, <1>7 DEF IInv, Fresh
  <1>13. \A q \in Reader : Continues(q)'
    <2>1. ASSUME NEW q \in Reader, q # r PROVE Continues(q)'
      BY <1>4, <2>1 DEF IInv, Continues, Bounds, Encode
    <2>2. Continues(r)'
      <3> SUFFICES ASSUME c # None PROVE \E e \in Position : Bounds(r, e)'
        BY <1>3, <1>7 DEF Continues
      <3>1. PICK e \in T : /\ c = Encode(o, e)
                           /\ \A f \in T : ~Less(f, e)
                           /\ \A f \in S : f \in T \/ Less(f, e)
        BY <1>2
      <3>2. \A f \in T \cup B : ~Less(f, e)
        BY <1>8, <3>1
      <3>3. \A f \in K : f \in T \cup B \/ Less(f, e)
        BY <3>1
      <3>4. Bounds(r, e)'
        BY <1>3, <3>1, <3>2, <3>3 DEF Bounds, Encode
      <3>5. QED
        BY <1>1, <1>2, <3>4
    <2>3. QED
      BY <2>1, <2>2
  <1>14. Reading'
    <2>1. ASSUME NEW q \in Reader PROVE kept'[q] \subseteq Matches(op'[q])
      BY <1>3, <1>4 DEF IInv, Reading
    <2>2. ASSUME NEW q \in Reader PROVE Matches(op[q])' = Matches(op'[q])
      BY <1>5 DEF Matches, ListMatches, SearchMatches, HistoryMatches, Live
    <2>3. QED
      BY <2>1, <2>2 DEF Reading
  <1>15. PagesDisjoint'
    <2>1. T \cap B = {}
      BY <1>1, <1>2, LessOrder
    <2>2. QED
      BY <1>3, <1>4, <2>1 DEF IInv, PagesDisjoint
  <1>16. TraversalComplete'
    <2>1. c = None => K \subseteq B \cup T
      BY <1>2
    <2>2. QED
      BY <1>3, <1>4, <1>7, <2>1 DEF IInv, TraversalComplete
  <1>17. RefusedForCause'
    BY <1>3, <1>4, <1>5, <1>7 DEF IInv, RefusedForCause
  <1>18. QED
    BY <1>9, <1>10, <1>11, <1>12, <1>13, <1>14, <1>15, <1>16, <1>17 DEF IInv

-----------------------------------------------------------------------------
(* The steps of a reader *)

\* The first page: nothing was returned before, everything that matches is promised.
LEMMA FirstPageStep ==
    ASSUME IInv, NEW r \in Reader, NEW o \in Op, NEW n \in LimitArg, FirstPage(r, o, n)
    PROVE  IInv'
  <1>1. EffectiveLimit(n) \in 1 .. MaxLimit
    BY LimitSound
  <1>2. After(o, None) = Matches(o)
    BY DEF After
  <1>3. seen' = [seen EXCEPT ![r] = {}]
    <2>1. seen[r] = {} /\ seen' = seen
      BY DEF FirstPage, IInv, Fresh
    <2>2. QED
      BY <2>1 DEF IInv, Shapes
  <1> DEFINE m == EffectiveLimit(n)
             S == After(o, None)
             K == Matches(o)
             B == {}
  <1>4. /\ page' = [page EXCEPT ![r] = Top(S, m)]
        /\ cursor' = [cursor EXCEPT ![r] = NextCursor(o, S, m)]
        /\ stage' = [stage EXCEPT ![r] = IF NextCursor(o, S, m) = None THEN "done" ELSE "more"]
        /\ op' = [op EXCEPT ![r] = o]
        /\ seen' = [seen EXCEPT ![r] = B]
        /\ kept' = [kept EXCEPT ![r] = K]
        /\ UNCHANGED <<now, rows, started, wrote, tried>>
    BY <1>3 DEF FirstPage, Answer
  <1>5. /\ m \in 1 .. MaxLimit /\ S \subseteq Matches(o) /\ K \subseteq Matches(o)
        /\ B \subseteq Position
        /\ \A e \in S, b \in B : Less(e, b)
        /\ \A e \in K : e \in B \/ e \in S
    BY <1>1, <1>2
  <1> HIDE DEF m, S, K, B
  <1>6. QED
    BY <1>4, <1>5, AnswerStep

\* What a cursor that is accepted says about the operation it is used for.
LEMMA CursorBound ==
    ASSUME IInv, NEW r \in Reader, stage[r] = "more", NEW o \in Op
    PROVE  \E e \in Position :
              /\ Bounds(r, e)
              /\ cursor[r] # None /\ cursor[r].after = e
              /\ Accepts(o, cursor[r]) <=> FilterHash(op[r]) = FilterHash(o)
  <1>1. PICK e \in Position : Bounds(r, e)
    BY DEF IInv, Continues
  <1>2. cursor[r] = [hash |-> FilterHash(op[r]), after |-> e]
    BY <1>1 DEF Bounds, Encode
  <1>3. cursor[r] # None
    BY DEF IInv, TypeOK
  <1>4. cursor[r].hash = FilterHash(op[r]) /\ cursor[r].after = e
    BY <1>2
  <1>5. QED
    BY <1>1, <1>3, <1>4 DEF Accepts

\* The next page: what is beyond the cursor is beyond everything returned.
LEMMA LoadMoreStep ==
    ASSUME IInv, NEW r \in Reader, NEW o \in Op, NEW n \in LimitArg, LoadMore(r, o, n)
    PROVE  IInv'
  <1>1. EffectiveLimit(n) \in 1 .. MaxLimit
    BY LimitSound
  <1>2. PICK e \in Position : /\ Bounds(r, e)
                              /\ cursor[r] # None /\ cursor[r].after = e
                              /\ FilterHash(op[r]) = FilterHash(o)
    BY CursorBound DEF LoadMore
  <1>3. Matches(o) = Matches(op[r])
    <2>1. op[r] \in Op
      BY DEF IInv, TypeOK
    <2>2. QED
      BY <1>2, <2>1, SameHash
  <1> DEFINE m == EffectiveLimit(n)
             S == After(o, cursor[r])
             K == kept[r]
             B == seen[r] \cup page[r]
  <1>4. S = {f \in Matches(o) : Less(f, e)}
    BY <1>2 DEF After, Beyond
  <1>5. B \subseteq Position /\ K \subseteq Matches(o)
    BY <1>3 DEF IInv, TypeOK, Reading
  <1>6. \A f \in S, b \in B : Less(f, b)
    <2> SUFFICES ASSUME NEW f \in S, NEW b \in B PROVE Less(f, b)
      OBVIOUS
    <2>1. Less(f, e) /\ ~Less(b, e)
      BY <1>2, <1>4 DEF Bounds
    <2>2. f \in Position /\ b \in Position
      BY <1>4, <1>5, MatchesSound DEF IInv, TypeOK, RowsTyped
    <2>3. e = b \/ Less(e, b)
      BY <2>1, <2>2, LessOrder
    <2>4. QED
      BY <2>1, <2>2, <2>3, LessOrder
  <1>7. \A f \in K : f \in B \/ f \in S
    BY <1>2, <1>4, <1>5 DEF Bounds
  <1>8. /\ page' = [page EXCEPT ![r] = Top(S, m)]
        /\ cursor' = [cursor EXCEPT ![r] = NextCursor(o, S, m)]
        /\ stage' = [stage EXCEPT ![r] = IF NextCursor(o, S, m) = None THEN "done" ELSE "more"]
        /\ op' = [op EXCEPT ![r] = o]
        /\ seen' = [seen EXCEPT ![r] = B]
        /\ UNCHANGED <<now, rows, started, wrote, tried>>
    BY DEF LoadMore, Answer
  <1>9. kept' = [kept EXCEPT ![r] = K]
    BY DEF LoadMore, IInv, Shapes
  <1>10. m \in 1 .. MaxLimit /\ S \subseteq Matches(o)
    BY <1>1, <1>4
  <1> HIDE DEF m, S, K, B
  <1>11. QED
    BY <1>5, <1>6, <1>7, <1>8, <1>9, <1>10, AnswerStep

\* Operations with different hashes mean different things.
LEMMA OtherHash ==
    ASSUME NEW o \in Op, NEW p \in Op, FilterHash(o) # FilterHash(p)
    PROVE  \/ o.kind # p.kind
           \/ o.kind # "insight_search" /\ o.filter # p.filter
           \/ /\ o.kind = "insight_search"
              /\ \E i \in Insight : (\E k \in DOMAIN o.filter : o.filter[k] = i)
                                    # (\E k \in DOMAIN p.filter : p.filter[k] = i)
  <1>1. CASE o.kind = p.kind /\ o.kind # "insight_search"
    BY <1>1 DEF FilterHash
  <1>2. CASE o.kind = p.kind /\ o.kind = "insight_search"
    <2> DEFINE O == {o.filter[k] : k \in DOMAIN o.filter}
               P == {p.filter[k] : k \in DOMAIN p.filter}
    <2>1. O # P
      BY <1>2 DEF FilterHash
    <2>2. o.filter \in Exclude /\ p.filter \in Exclude
      BY <1>2 DEF Op, ListOp, SearchOp, HistoryOp
    <2>3. o.filter \in Seq(Insight) /\ p.filter \in Seq(Insight)
      BY <2>2, PagesAssumption, InsightAssumption
    <2>4. O \subseteq Insight /\ P \subseteq Insight
      BY <2>3
    <2>5. \A i : /\ i \in O <=> \E k \in DOMAIN o.filter : o.filter[k] = i
                 /\ i \in P <=> \E k \in DOMAIN p.filter : p.filter[k] = i
      OBVIOUS
    <2> HIDE DEF O, P
    <2>6. PICK i \in Insight : ~(i \in O <=> i \in P)
      BY <2>1, <2>4
    <2>7. (\E k \in DOMAIN o.filter : o.filter[k] = i)
          # (\E k \in DOMAIN p.filter : p.filter[k] = i)
      BY <2>5, <2>6, Zenon
    <2>8. QED
      BY <1>2, <2>7
  <1>3. QED
    BY <1>1, <1>2

\* A refusal leaves what was returned, and had a cause.
LEMMA RefuseCursorStep ==
    ASSUME IInv, NEW r \in Reader, NEW o \in Op, RefuseCursor(r, o)
    PROVE  IInv'
  <1>1. /\ stage[r] = "more" /\ ~Accepts(o, cursor[r])
        /\ stage' = [stage EXCEPT ![r] = "invalid"]
        /\ tried' = [tried EXCEPT ![r] = o]
        /\ UNCHANGED <<now, rows, started, wrote, op, cursor, page, seen, kept>>
    BY DEF RefuseCursor
  <1>2. /\ stage'[r] = "invalid" /\ tried'[r] = o
        /\ \A q \in Reader \ {r} : stage'[q] = stage[q] /\ tried'[q] = tried[q]
        /\ stage' \in [Reader -> {"idle", "more", "done", "invalid"}]
        /\ tried' \in [Reader -> Op]
    BY <1>1 DEF IInv, TypeOK, Shapes
  <1>3. op[r] \in Op /\ FilterHash(o) # FilterHash(op[r])
    BY <1>1, CursorBound DEF IInv, TypeOK
  <1>4. TypeOK'
    <2>1. \A q \in Reader : cursor'[q] # None <=> stage'[q] \in {"more", "invalid"}
      BY <1>1, <1>2 DEF IInv, TypeOK
    <2>2. \A q \in Reader :
             /\ op'[q] \in Op /\ tried'[q] \in Op
             /\ page'[q] \cup seen'[q] \cup kept'[q] \subseteq Position
             /\ Cardinality(page'[q]) <= MaxLimit
      BY <1>1, <1>2 DEF IInv, TypeOK
    <2>3. QED
      BY <1>1, <1>2, <2>1, <2>2 DEF IInv, TypeOK
  <1>5. Shapes' /\ Clocks' /\ PagesDisjoint'
    BY <1>1, <1>2 DEF IInv, Shapes, Clocks, PagesDisjoint
  <1>6. \A q \in Reader : Fresh(q)' /\ Continues(q)'
    <2> SUFFICES ASSUME NEW q \in Reader PROVE Fresh(q)' /\ Continues(q)'
      OBVIOUS
    <2>1. /\ stage'[q] = "idle" => stage[q] = "idle"
          /\ stage'[q] \in {"more", "invalid"} => stage[q] \in {"more", "invalid"}
      BY <1>1, <1>2
    <2>2. Fresh(q)'
      BY <1>1, <2>1 DEF IInv, Fresh
    <2>3. Continues(q)'
      BY <1>1, <2>1 DEF IInv, Continues, Bounds, Encode
    <2>4. QED
      BY <2>2, <2>3
  <1>7. Reading'
    <2>1. \A q \in Reader : kept'[q] \subseteq Matches(op[q])
      BY <1>1 DEF IInv, Reading
    <2>2. ASSUME NEW q \in Reader PROVE Matches(op[q])' = Matches(op[q])
      BY <1>1 DEF Matches, ListMatches, SearchMatches, HistoryMatches, Live
    <2>3. QED
      BY <2>1, <2>2 DEF Reading
  <1>8. TraversalComplete'
    BY <1>1, <1>2 DEF IInv, TraversalComplete
  <1>9. RefusedForCause'
    <2>1. ASSUME NEW q \in Reader, q # r, stage'[q] = "invalid"
          PROVE  stage[q] = "invalid" /\ tried'[q] = tried[q] /\ op'[q] = op[q]
      BY <1>1, <1>2, <2>1
    <2>2. /\ op'[r] = op[r] /\ tried'[r] = o
      BY <1>1, <1>2
    <2>3. \/ tried'[r].kind # op'[r].kind
          \/ /\ tried'[r].kind # "insight_search"
             /\ tried'[r].filter # op'[r].filter
          \/ /\ tried'[r].kind = "insight_search"
             /\ \E i \in Insight :
                  (\E k \in DOMAIN tried'[r].filter : tried'[r].filter[k] = i)
                  # (\E k \in DOMAIN op'[r].filter : op'[r].filter[k] = i)
      BY <1>3, <2>2, OtherHash
    <2>4. QED
      BY <2>1, <2>3 DEF IInv, RefusedForCause
  <1>10. QED
    BY <1>4, <1>5, <1>6, <1>7, <1>8, <1>9 DEF IInv

-----------------------------------------------------------------------------
(* The steps of a writer and of the clock *)

\* What nobody reads disturbs no traversal, as long as what changed is no longer promised.
LEMMA ReadersStay ==
    ASSUME IInv, UNCHANGED readers, RowsTyped', Clocks', kept' \in [Reader -> SUBSET Position],
           \A r \in Reader : kept'[r] \subseteq kept[r] /\ kept'[r] \subseteq Matches(op[r])'
    PROVE  IInv'
  <1>1. /\ stage' = stage /\ op' = op /\ cursor' = cursor
        /\ page' = page /\ seen' = seen /\ tried' = tried
    BY DEF readers
  <1>2. TypeOK'
    <2>1. \A r \in Reader : page'[r] \cup seen'[r] \cup kept'[r] \subseteq Position
      BY <1>1 DEF IInv, TypeOK
    <2>2. QED
      BY <1>1, <2>1 DEF IInv, TypeOK, RowsTyped
  <1>3. Shapes' /\ PagesDisjoint' /\ RefusedForCause'
    BY <1>1 DEF IInv, Shapes, PagesDisjoint, RefusedForCause
  <1>4. \A r \in Reader : Fresh(r)'
    BY <1>1 DEF IInv, Fresh
  <1>5. \A r \in Reader : Continues(r)'
    BY <1>1 DEF IInv, Continues, Bounds, Encode
  <1>6. Reading'
    BY DEF Reading
  <1>7. TraversalComplete'
    BY <1>1 DEF IInv, TraversalComplete
  <1>8. QED
    BY <1>2, <1>3, <1>4, <1>5, <1>6, <1>7 DEF IInv

\* While the table stays, everything promised does.
LEMMA TableStays ==
    ASSUME IInv, UNCHANGED <<readers, kept, rows>>, Clocks'
    PROVE  IInv'
  <1>1. kept' = kept /\ rows' = rows /\ op' = op /\ UNCHANGED readers
    BY DEF readers
  <1>2. RowsTyped' /\ kept' \in [Reader -> SUBSET Position]
    BY <1>1 DEF IInv, TypeOK, RowsTyped, Shapes
  <1>3. ASSUME NEW r \in Reader PROVE kept'[r] \subseteq kept[r] /\ kept'[r] \subseteq Matches(op[r])'
    <2>1. Matches(op[r])' = Matches(op[r])
      BY <1>1 DEF Matches, ListMatches, SearchMatches, HistoryMatches, Live
    <2>2. QED
      BY <1>1, <2>1 DEF IInv, Reading
  <1>4. QED
    BY <1>1, <1>2, <1>3, ReadersStay

\* A commit writes a row, with the time its transaction began.
LEMMA CommitStep ==
    ASSUME IInv, NEW w \in Writer, NEW i \in Insight, NEW live \in BOOLEAN, NEW t \in Tag,
           NEW k \in Rank, Commit(w, i, live, t, k)
    PROVE  IInv'
  <1>1. /\ started[w] # None /\ UNCHANGED <<now, started, readers>>
        /\ rows' = [rows EXCEPT ![i] =
                [live |-> live, tag |-> t, rank |-> k, updated |-> started[w],
                 revision |-> IF rows[i] = None THEN 1 ELSE rows[i].revision + 1]]
        /\ kept' = [r \in Reader |-> kept[r] \cap Matches(op[r])']
    BY DEF Commit
  <1>2. RowsTyped'
    <2>1. started[w] \in Nat
      BY <1>1 DEF IInv, Clocks
    <2> DEFINE n == IF rows[i] = None THEN 1 ELSE rows[i].revision + 1
    <2>2. n \in Nat \ {0}
      BY DEF IInv, TypeOK, Row
    <2> HIDE DEF n
    <2>3. [live |-> live, tag |-> t, rank |-> k, updated |-> started[w], revision |-> n] \in Row
      BY <2>1, <2>2 DEF Row
    <2>4. QED
      BY <1>1, <2>3 DEF IInv, TypeOK, RowsTyped, n
  <1>3. Clocks'
    BY <1>1 DEF IInv, Clocks
  <1>4. kept' \in [Reader -> SUBSET Position]
    BY <1>1 DEF IInv, Shapes
  <1>5. QED
    BY <1>1, <1>2, <1>3, <1>4, ReadersStay

-----------------------------------------------------------------------------
(* Results *)

LEMMA Inductive == IInv /\ [Next]_vars => IInv'
  <1> SUFFICES ASSUME IInv, [Next]_vars PROVE IInv'
    OBVIOUS
  <1>1. ASSUME NEW r \in Reader, NEW o \in Op, NEW n \in LimitArg,
               FirstPage(r, o, n) \/ LoadMore(r, o, n)
        PROVE  IInv'
    BY <1>1, FirstPageStep, LoadMoreStep
  <1>2. ASSUME NEW r \in Reader, NEW o \in Op, RefuseCursor(r, o) PROVE IInv'
    BY <1>2, RefuseCursorStep
  <1>3. ASSUME NEW w \in Writer, Begin(w) PROVE IInv'
    <2>1. Clocks'
      BY <1>3 DEF Begin, IInv, Clocks
    <2>2. QED
      BY <1>3, <2>1, TableStays DEF Begin
  <1>4. ASSUME NEW w \in Writer, NEW i \in Insight, NEW live \in BOOLEAN, NEW t \in Tag,
               NEW k \in Rank, Commit(w, i, live, t, k)
        PROVE  IInv'
    BY <1>4, CommitStep
  <1>5. CASE Tick
    <2>1. Clocks'
      BY <1>5 DEF Tick, IInv, Clocks
    <2>2. QED
      BY <1>5, <2>1, TableStays DEF Tick
  <1>6. CASE UNCHANGED vars
    <2>1. Clocks'
      BY <1>6 DEF vars, IInv, Clocks
    <2>2. UNCHANGED <<readers, kept, rows>>
      BY <1>6 DEF vars, readers
    <2>3. QED
      BY <2>1, <2>2, TableStays
  <1>7. QED
    BY <1>1, <1>2, <1>3, <1>4, <1>5, <1>6 DEF Next

\* A cursor is always that of an entry with everything returned before it and
\* everything promised on one side of it or the other.
THEOREM Invariance == Spec => []IInv
  <1>1. QED
    BY Initial, Inductive, PTL DEF Spec

\* However the table changes between the pages of ListInsights, SearchInsights and
\* ListInsightHistory, and however late the times are that a transaction which waited
\* commits, no entry is returned twice, and none that stood still since the first page
\* is left out of a traversal that ends.
THEOREM Pages == Spec => []PagesSound
  <1>1. IInv => PagesSound
    BY DEF IInv, PagesSound
  <1>2. QED
    BY <1>1, Invariance, PTL

\* decodeInsightCursor answers invalid_cursor only when the client has changed what it
\* asks for: another operation, another filter, or other ids to leave out.
THEOREM Refused == Spec => []RefusedForCause
  <1>1. IInv => RefusedForCause
    BY DEF IInv
  <1>2. QED
    BY <1>1, Invariance, PTL

-----------------------------------------------------------------------------
(* Details and dashboards *)

\* A table that transactions may leave.
Table == {t \in [Insight -> DetailRow \cup {None}] : WellFormed(t)}

\* What a row of a table is like.
LEMMA RowSound ==
    ASSUME NEW t \in Table, NEW i \in LiveIn(t)
    PROVE  /\ i \in Insight /\ i \in Nat
           /\ t[i].key \in Key \cup {NoKey} /\ t[i].key \notin t[i].links
           /\ t[i].links \subseteq Key /\ IsFiniteSet(t[i].links)
           /\ t[i].updated \in Nat
  <1>1. i \in Insight /\ t[i] # None
    BY DEF LiveIn
  <1>2. t[i] \in DetailRow
    BY <1>1 DEF Table
  <1>3. /\ t[i].key \in Key \cup {NoKey} /\ t[i].links \subseteq Key /\ t[i].updated \in Time
    BY <1>2 DEF DetailRow
  <1>4. t[i].key \notin t[i].links
    BY <1>1 DEF Table, WellFormed
  <1>5. /\ Insight \subseteq Nat /\ Time \subseteq Nat /\ IsFiniteSet(Key)
    BY DetailAssumption, InsightAssumption
  <1>6. QED
    BY <1>1, <1>3, <1>4, <1>5, FS_Subset

\* The live insights of a table are finitely many, and a key is that of one of them.
LEMMA LiveSound ==
    ASSUME NEW t \in Table
    PROVE  /\ IsFiniteSet(LiveIn(t))
           /\ \A k \in Key : \A i, j \in Find(t, <<"key", k>>) : i = j
  <1>1. IsFiniteSet(LiveIn(t))
    <2>1. IsFiniteSet(Insight) /\ LiveIn(t) \subseteq Insight
      BY DetailAssumption, InsightAssumption DEF LiveIn
    <2>2. QED
      BY <2>1, FS_Subset
  <1>2. ASSUME NEW k \in Key, NEW i \in Find(t, <<"key", k>>),
               NEW j \in Find(t, <<"key", k>>), i # j
        PROVE  FALSE
    <2> DEFINE F == Find(t, <<"key", k>>)
    <2>1. IsFiniteSet(F)
      BY <1>1, FS_Subset DEF Find
    <2>2. Cardinality(F) <= 1
      BY DEF Table, WellFormed
    <2>3. IsFiniteSet({i}) /\ Cardinality({i}) = 1
      BY FS_Singleton
    <2>4. IsFiniteSet({i} \cup {j}) /\ Cardinality({i} \cup {j}) = 2
      <3> DEFINE I == {i}
      <3>1. IsFiniteSet(I) /\ Cardinality(I) = 1 /\ j \notin I
        BY <1>2, <2>3
      <3> HIDE DEF I
      <3>2. IsFiniteSet(I \cup {j}) /\ Cardinality(I \cup {j}) = Cardinality(I) + 1
        BY <3>1, FS_AddElement
      <3>3. QED
        BY <3>1, <3>2 DEF I
    <2>5. {i} \cup {j} \subseteq F
      BY <1>2
    <2> HIDE DEF F
    <2>6. Cardinality({i} \cup {j}) <= Cardinality(F) /\ Cardinality(F) \in Nat
      BY <2>1, <2>5, FS_Subset, FS_CardinalityType
    <2>7. QED
      BY <2>2, <2>4, <2>6
  <1>3. QED
    BY <1>1, <1>2

\* As many links are shown as the limit allows: an unresolved one once, and a resolved
\* one once because its key is that of one live insight.
LEMMA LinksShown ==
    ASSUME NEW t \in Table, NEW i \in LiveIn(t), NEW n \in Nat
    PROVE  /\ Cardinality(t[i].links) \in Nat
           /\ Cardinality(LinkRows(t, i, n)) =
                IF Cardinality(t[i].links) <= n THEN Cardinality(t[i].links) ELSE n
  <1> DEFINE L == t[i].links
             R == {kl \in Key \X Key : kl[1] < kl[2]}
             T == First(L, R, n)
             Found(k) == Find(t, <<"key", k>>)
             Link(k, j) == [target |-> k, resolved |-> TRUE, id |-> j, updated |-> t[j].updated]
             Dangling(k) == [target |-> k, resolved |-> FALSE]
             Rows(k) == IF Found(k) = {} THEN {Dangling(k)} ELSE {Link(k, j) : j \in Found(k)}
             g == [k \in T |-> IF Found(k) = {} THEN Dangling(k)
                               ELSE Link(k, CHOOSE j \in Found(k) : TRUE)]
  <1>1. L \subseteq Key /\ IsFiniteSet(L) /\ Cardinality(L) \in Nat
    BY RowSound, FS_CardinalityType
  <1>2. Order(L, R) /\ \A k, l \in L : <<k, l>> \in R <=> k < l
    <2>1. \A k, l \in L : <<k, l>> \in R <=> k < l
      BY <1>1
    <2>2. L \subseteq Nat
      BY <1>1, DetailAssumption
    <2> HIDE DEF R, L
    <2>3. QED
      BY <2>1, <2>2 DEF Order
  <1>3. T \subseteq L /\ IsFiniteSet(T)
        /\ Cardinality(T) = IF Cardinality(L) <= n THEN Cardinality(L) ELSE n
    <2> HIDE DEF R, L
    <2>1. QED
      BY <1>1, <1>2, FirstSound
  <1>4. LinkRows(t, i, n) = {g[k] : k \in T}
    <2>1. \A k \in L : Before(L, R, k) = {l \in L : l < k}
      BY <1>2 DEF Before
    <2>2. T = {k \in L : Cardinality({l \in L : l < k}) < n}
      BY <2>1 DEF First
    <2>3. LinkRows(t, i, n) =
            UNION {Rows(k) : k \in {k \in L : Cardinality({l \in L : l < k}) < n}}
      BY DEF LinkRows, Limit
    <2>4. \A k \in T : Rows(k) = {g[k]}
      <3> SUFFICES ASSUME NEW k \in T PROVE Rows(k) = {g[k]}
        OBVIOUS
      <3>1. \A a, b \in Found(k) : a = b
        BY <1>1, <1>3, LiveSound
      <3> HIDE DEF T
      <3>2. QED
        BY <3>1
    <2>5. LinkRows(t, i, n) = UNION {Rows(k) : k \in T}
      BY <2>2, <2>3
    <2> HIDE DEF g, T, L, Rows
    <2>6. QED
      BY <2>4, <2>5
  <1>5. \A k \in T : g[k].target = k
    <2> HIDE DEF T, L
    <2>1. QED
      OBVIOUS
  <1>6. /\ g \in Surjection(T, LinkRows(t, i, n))
        /\ g \in Injection(T, LinkRows(t, i, n))
    <2> HIDE DEF T, L
    <2>1. g \in [T -> LinkRows(t, i, n)]
      BY <1>4
    <2> HIDE DEF g
    <2>2. \A k, l \in T : g[k] = g[l] => k = l
      BY <1>5
    <2>3. \A x \in LinkRows(t, i, n) : \E k \in T : g[k] = x
      BY <1>4
    <2>4. QED
      BY <2>1, <2>2, <2>3 DEF Injection, IsInjective, Surjection
  <1>7. Cardinality(LinkRows(t, i, n)) = Cardinality(T)
    <2> HIDE DEF g, T
    <2>1. QED
      BY <1>3, <1>6, FS_Surjection
  <1> HIDE DEF T
  <1>8. QED
    BY <1>1, <1>3, <1>7

\* So are backlinks, each once because of its id.
LEMMA BacklinksShown ==
    ASSUME NEW t \in Table, NEW k, NEW n \in Nat
    PROVE  /\ Cardinality(Sources(t, k)) \in Nat
           /\ Cardinality(BacklinkRows(t, k, n)) =
                IF Cardinality(Sources(t, k)) <= n THEN Cardinality(Sources(t, k))
                ELSE n
  <1> DEFINE S == Sources(t, k)
             Later(i, j) == \/ t[i].updated > t[j].updated
                            \/ (t[i].updated = t[j].updated /\ i > j)
             R == {ij \in S \X S : Later(ij[1], ij[2])}
             T == First(S, R, n)
             Link(j) == [id |-> j, key |-> t[j].key, updated |-> t[j].updated]
             g == [j \in T |-> Link(j)]
  <1>1. /\ S \subseteq LiveIn(t) /\ IsFiniteSet(S) /\ Cardinality(S) \in Nat
        /\ \A j \in S : j \in Nat /\ t[j].updated \in Nat
    <2>1. S \subseteq LiveIn(t)
      BY DEF Sources
    <2>2. IsFiniteSet(S) /\ Cardinality(S) \in Nat
      BY <2>1, LiveSound, FS_Subset, FS_CardinalityType
    <2>3. QED
      BY <2>1, <2>2, RowSound
  <1>2. Order(S, R) /\ \A i, j \in S : <<i, j>> \in R <=> Later(i, j)
    <2>1. \A i, j \in S : <<i, j>> \in R <=> Later(i, j)
      OBVIOUS
    <2> HIDE DEF R, S
    <2>2. \A i \in S : ~Later(i, i)
      BY <1>1
    <2>3. \A h, i, j \in S : Later(h, i) /\ Later(i, j) => Later(h, j)
      BY <1>1
    <2>4. \A i, j \in S : i = j \/ Later(i, j) \/ Later(j, i)
      BY <1>1
    <2> HIDE DEF Later
    <2>5. QED
      BY <2>1, <2>2, <2>3, <2>4 DEF Order
  <1>3. T \subseteq S /\ IsFiniteSet(T)
        /\ Cardinality(T) = IF Cardinality(S) <= n THEN Cardinality(S) ELSE n
    <2> HIDE DEF R, S
    <2>1. QED
      BY <1>1, <1>2, FirstSound
  <1>4. BacklinkRows(t, k, n) = {g[j] : j \in T}
    <2>1. \A j \in S : Before(S, R, j) = {i \in S : Later(i, j)}
      BY <1>2 DEF Before
    <2>2. T = {j \in S : Cardinality({i \in S : Later(i, j)}) < n}
      BY <2>1 DEF First
    <2>3. BacklinkRows(t, k, n) =
            {Link(j) : j \in {j \in S : Cardinality({i \in S : Later(i, j)}) < n}}
      BY DEF BacklinkRows, Limit
    <2>4. BacklinkRows(t, k, n) = {Link(j) : j \in T}
      BY <2>2, <2>3
    <2> HIDE DEF T, S, Link
    <2>5. QED
      BY <2>4
  <1>5. /\ g \in Surjection(T, BacklinkRows(t, k, n))
        /\ g \in Injection(T, BacklinkRows(t, k, n))
    <2> HIDE DEF T, S
    <2>1. \A j \in T : g[j].id = j
      OBVIOUS
    <2>2. g \in [T -> BacklinkRows(t, k, n)]
      BY <1>4
    <2> HIDE DEF g
    <2>3. \A i, j \in T : g[i] = g[j] => i = j
      BY <2>1
    <2>4. \A x \in BacklinkRows(t, k, n) : \E j \in T : g[j] = x
      BY <1>4
    <2>5. QED
      BY <2>2, <2>3, <2>4 DEF Injection, IsInjective, Surjection
  <1>6. Cardinality(BacklinkRows(t, k, n)) = Cardinality(T)
    <2> HIDE DEF g, T
    <2>1. QED
      BY <1>3, <1>5, FS_Surjection
  <1> HIDE DEF T, S
  <1>7. QED
    BY <1>1, <1>3, <1>6 DEF S

-----------------------------------------------------------------------------
(* What a request has read *)

\* The statements of GetInsight that are still to come.
CountingLinks == {"link count"}
ReadingLinks == {"link count", "links"}
CountingBacklinks == {"link count", "links", "backlink count"}
ReadingBacklinks == {"link count", "links", "backlink count", "backlinks"}
Looking == ReadingBacklinks \cup {"detail"}

\* At phase s it has read of the detail of insight i in table t what comes before s.
Partial(s, t, i, n) ==
    LET d == Detail(t, i, n)
    IN  [id |-> i, row |-> t[i],
         linkCount |-> IF s \in CountingLinks THEN 0 ELSE d.linkCount,
         links |-> IF s \in ReadingLinks THEN {} ELSE d.links,
         linksTruncated |-> IF s \in ReadingLinks THEN FALSE ELSE d.linksTruncated,
         backlinkCount |-> IF s \in CountingBacklinks THEN 0 ELSE d.backlinkCount,
         backlinks |-> IF s \in ReadingBacklinks THEN {} ELSE d.backlinks,
         backlinksTruncated |-> IF s \in ReadingBacklinks THEN FALSE ELSE d.backlinksTruncated]

\* A detail, field by field.
LEMMA DetailFields ==
    ASSUME NEW t, NEW i, NEW n, NEW S,
           S = IF t[i].key = NoKey THEN {} ELSE Sources(t, t[i].key)
    PROVE  Detail(t, i, n) =
             [id |-> i, row |-> t[i],
              linkCount |-> Cardinality(t[i].links),
              links |-> LinkRows(t, i, n),
              linksTruncated |-> Cardinality(t[i].links) > n,
              backlinkCount |-> Cardinality(S),
              backlinks |-> IF t[i].key = NoKey THEN {} ELSE BacklinkRows(t, t[i].key, n),
              backlinksTruncated |-> Cardinality(S) > n]
  BY DEF Detail

\* What a statement reads is its part of what the answer x so far lacks.
CountLinksReads(t, i, n) ==
    \A x : x = Partial("link count", t, i, n) =>
        [x EXCEPT !.linkCount = Cardinality(t[i].links)] = Partial("links", t, i, n)

ReadLinksReads(t, i, n) ==
    \A x : x = Partial("links", t, i, n) =>
        [x EXCEPT !.links = LinkRows(t, i, n),
                  !.linksTruncated = x.linkCount > Cardinality(LinkRows(t, i, n))]
        = Partial(IF t[i].key = NoKey THEN "detail" ELSE "backlink count", t, i, n)

CountBacklinksReads(t, i, n) ==
    \A x : x = Partial("backlink count", t, i, n) /\ t[i].key # NoKey =>
        [x EXCEPT !.backlinkCount = Cardinality(Sources(t, t[i].key))]
        = Partial("backlinks", t, i, n)

ReadBacklinksReads(t, i, n) ==
    \A x : x = Partial("backlinks", t, i, n) /\ t[i].key # NoKey =>
        [x EXCEPT !.backlinks = BacklinkRows(t, t[i].key, n),
                  !.backlinksTruncated =
                    x.backlinkCount > Cardinality(BacklinkRows(t, t[i].key, n))]
        = Partial("detail", t, i, n)

\* The first statement has read the row, and the last leaves the detail.
RowReads(t, i, n) ==
    /\ Partial("link count", t, i, n) =
        [id |-> i, row |-> t[i],
         linkCount |-> 0, links |-> {}, linksTruncated |-> FALSE,
         backlinkCount |-> 0, backlinks |-> {}, backlinksTruncated |-> FALSE]
    /\ Partial("detail", t, i, n) = Detail(t, i, n)
    /\ \A s \in Looking : Partial(s, t, i, n).id = i /\ Partial(s, t, i, n).row = t[i]

\* So every answer of GetInsight goes from part to part of one detail.
LEMMA PartialSteps ==
    ASSUME NEW t \in Table, NEW i \in LiveIn(t), NEW n \in Nat
    PROVE  /\ RowReads(t, i, n)
           /\ CountLinksReads(t, i, n) /\ ReadLinksReads(t, i, n)
           /\ CountBacklinksReads(t, i, n) /\ ReadBacklinksReads(t, i, n)
  <1> DEFINE L == t[i].links
             S == IF t[i].key = NoKey THEN {} ELSE Sources(t, t[i].key)
             ll == LinkRows(t, i, n)
             bb == IF t[i].key = NoKey THEN {} ELSE BacklinkRows(t, t[i].key, n)
             lc == Cardinality(L)
             bc == Cardinality(S)
             d == Detail(t, i, n)
  <1>1. d = [id |-> i, row |-> t[i],
             linkCount |-> lc, links |-> ll, linksTruncated |-> lc > n,
             backlinkCount |-> bc, backlinks |-> bb, backlinksTruncated |-> bc > n]
    BY DetailFields
  <1>2. (lc > n) = (lc > Cardinality(ll))
    <2>1. lc \in Nat /\ Cardinality(ll) = IF lc <= n THEN lc ELSE n
      BY LinksShown
    <2> HIDE DEF lc, ll
    <2>2. (lc > n) <=> (lc > Cardinality(ll))
      BY <2>1
    <2>3. QED
      BY <2>2
  <1>3. t[i].key # NoKey => (bc > n) = (bc > Cardinality(bb))
    <2> SUFFICES ASSUME t[i].key # NoKey PROVE (bc > n) = (bc > Cardinality(bb))
      OBVIOUS
    <2>1. S = Sources(t, t[i].key) /\ bb = BacklinkRows(t, t[i].key, n)
      OBVIOUS
    <2>2. bc \in Nat /\ Cardinality(bb) = IF bc <= n THEN bc ELSE n
      BY <2>1, BacklinksShown
    <2> HIDE DEF bc, bb, S
    <2>3. (bc > n) <=> (bc > Cardinality(bb))
      BY <2>2
    <2>4. QED
      BY <2>3
  <1>4. t[i].key = NoKey => bc = 0 /\ bb = {} /\ (bc > n) = FALSE
    <2>1. t[i].key = NoKey => bc = 0 /\ bb = {}
      BY FS_EmptySet
    <2> HIDE DEF bc, bb
    <2>2. QED
      BY <2>1
  <1>5. t[i].key # NoKey => /\ bc = Cardinality(Sources(t, t[i].key))
                            /\ bb = BacklinkRows(t, t[i].key, n)
    OBVIOUS
  <1> HIDE DEF lc, bc, bb, ll, d, S
  <1>6. \A s : Partial(s, t, i, n) =
                [id |-> i, row |-> t[i],
                 linkCount |-> IF s \in CountingLinks THEN 0 ELSE lc,
                 links |-> IF s \in ReadingLinks THEN {} ELSE ll,
                 linksTruncated |-> IF s \in ReadingLinks THEN FALSE ELSE lc > n,
                 backlinkCount |-> IF s \in CountingBacklinks THEN 0 ELSE bc,
                 backlinks |-> IF s \in ReadingBacklinks THEN {} ELSE bb,
                 backlinksTruncated |-> IF s \in ReadingBacklinks THEN FALSE ELSE bc > n]
    BY <1>1 DEF Partial, d
  <1> DEFINE P(a, b, c, e, f, g) ==
                [id |-> i, row |-> t[i], linkCount |-> a, links |-> b, linksTruncated |-> c,
                 backlinkCount |-> e, backlinks |-> f, backlinksTruncated |-> g]
  <1> DEFINE none == {}
             zero == 0
             no == FALSE
             lt == lc > n
             bt == bc > n
             next == IF t[i].key = NoKey THEN "detail" ELSE "backlink count"
  <1>7. /\ Partial("link count", t, i, n) = P(zero, none, no, zero, none, no)
        /\ Partial("links", t, i, n) = P(lc, none, no, zero, none, no)
        /\ Partial("backlink count", t, i, n) = P(lc, ll, lt, zero, none, no)
        /\ Partial("backlinks", t, i, n) = P(lc, ll, lt, bc, none, no)
        /\ Partial("detail", t, i, n) = P(lc, ll, lt, bc, bb, bt)
    BY <1>6 DEF CountingLinks, ReadingLinks, CountingBacklinks, ReadingBacklinks
  <1>8. Partial("detail", t, i, n) = Detail(t, i, n)
    BY <1>1, <1>7 DEF d
  <1>9. Partial(next, t, i, n) = P(lc, ll, lt, zero, none, no)
    <2>1. CASE t[i].key = NoKey
      BY <1>4, <1>7, <2>1
    <2>2. CASE t[i].key # NoKey
      BY <1>7, <2>2
    <2>3. QED
      BY <2>1, <2>2
  <1>10. Partial("link count", t, i, n) =
           [id |-> i, row |-> t[i],
            linkCount |-> 0, links |-> {}, linksTruncated |-> FALSE,
            backlinkCount |-> 0, backlinks |-> {}, backlinksTruncated |-> FALSE]
    BY <1>7
  <1>11. lt = (lc > Cardinality(ll))
    BY <1>2
  <1>12. t[i].key # NoKey => bt = (bc > Cardinality(bb))
    BY <1>3
  <1> HIDE DEF none, zero, no, lt, bt, next
  <1>13. /\ [P(zero, none, no, zero, none, no) EXCEPT !.linkCount = lc]
            = P(lc, none, no, zero, none, no)
         /\ [P(lc, none, no, zero, none, no) EXCEPT !.links = ll] = P(lc, ll, no, zero, none, no)
         /\ [P(lc, ll, no, zero, none, no) EXCEPT !.linksTruncated = lt]
            = P(lc, ll, lt, zero, none, no)
         /\ [P(lc, ll, lt, zero, none, no) EXCEPT !.backlinkCount = bc]
            = P(lc, ll, lt, bc, none, no)
         /\ [P(lc, ll, lt, bc, none, no) EXCEPT !.backlinks = bb] = P(lc, ll, lt, bc, bb, no)
         /\ [P(lc, ll, lt, bc, bb, no) EXCEPT !.backlinksTruncated = bt] = P(lc, ll, lt, bc, bb, bt)
    <2>1. [P(zero, none, no, zero, none, no) EXCEPT !.linkCount = lc]
          = P(lc, none, no, zero, none, no)
      OBVIOUS
    <2>2. [P(lc, none, no, zero, none, no) EXCEPT !.links = ll] = P(lc, ll, no, zero, none, no)
      OBVIOUS
    <2>3. [P(lc, ll, no, zero, none, no) EXCEPT !.linksTruncated = lt]
          = P(lc, ll, lt, zero, none, no)
      OBVIOUS
    <2>4. [P(lc, ll, lt, zero, none, no) EXCEPT !.backlinkCount = bc] = P(lc, ll, lt, bc, none, no)
      OBVIOUS
    <2>5. [P(lc, ll, lt, bc, none, no) EXCEPT !.backlinks = bb] = P(lc, ll, lt, bc, bb, no)
      OBVIOUS
    <2>6. [P(lc, ll, lt, bc, bb, no) EXCEPT !.backlinksTruncated = bt] = P(lc, ll, lt, bc, bb, bt)
      OBVIOUS
    <2>7. QED
      BY <2>1, <2>2, <2>3, <2>4, <2>5, <2>6
  <1>14. /\ P(lc, none, no, zero, none, no).linkCount = lc
         /\ P(lc, ll, lt, bc, none, no).backlinkCount = bc
    OBVIOUS
  <1>15. \A x, y, z : /\ [x EXCEPT !.links = y, !.linksTruncated = z]
                      = [[x EXCEPT !.links = y] EXCEPT !.linksTruncated = z]
                   /\ [x EXCEPT !.backlinks = y, !.backlinksTruncated = z]
                      = [[x EXCEPT !.backlinks = y] EXCEPT !.backlinksTruncated = z]
    BY Zenon
  <1>16. \A s \in Looking : Partial(s, t, i, n).id = i /\ Partial(s, t, i, n).row = t[i]
    <2>1. /\ P(zero, none, no, zero, none, no).id = i /\ P(zero, none, no, zero, none, no).row = t[i]
          /\ P(lc, none, no, zero, none, no).id = i /\ P(lc, none, no, zero, none, no).row = t[i]
          /\ P(lc, ll, lt, zero, none, no).id = i /\ P(lc, ll, lt, zero, none, no).row = t[i]
          /\ P(lc, ll, lt, bc, none, no).id = i /\ P(lc, ll, lt, bc, none, no).row = t[i]
          /\ P(lc, ll, lt, bc, bb, bt).id = i /\ P(lc, ll, lt, bc, bb, bt).row = t[i]
      OBVIOUS
    <2>2. \A s \in Looking : \/ s = "link count" \/ s = "links" \/ s = "backlink count"
                            \/ s = "backlinks" \/ s = "detail"
      BY DEF Looking, ReadingBacklinks
    <2> HIDE DEF P
    <2>3. QED
      BY <1>7, <2>1, <2>2, Zenon
  <1> HIDE DEF P
  <1>17. ASSUME NEW x, x = Partial("link count", t, i, n)
         PROVE  [x EXCEPT !.linkCount = Cardinality(t[i].links)] = Partial("links", t, i, n)
    <2>1. [x EXCEPT !.linkCount = lc] = Partial("links", t, i, n)
      BY <1>7, <1>13, <1>17, Zenon
    <2>2. QED
      BY <2>1, Zenon DEF lc, L
  <1>18. ASSUME NEW x, x = Partial("links", t, i, n)
         PROVE  [x EXCEPT !.links = ll, !.linksTruncated = x.linkCount > Cardinality(ll)]
                = Partial(next, t, i, n)
    <2>1. (x.linkCount > Cardinality(ll)) = lt
      BY <1>11, <1>7, <1>14, <1>18, Zenon
    <2>2. [x EXCEPT !.links = ll] = P(lc, ll, no, zero, none, no)
      BY <1>7, <1>13, <1>18, Zenon
    <2>3. [[x EXCEPT !.links = ll] EXCEPT !.linksTruncated = lt] = P(lc, ll, lt, zero, none, no)
      BY <1>13, <2>2, Zenon
    <2>4. [x EXCEPT !.links = ll, !.linksTruncated = lt] = P(lc, ll, lt, zero, none, no)
      BY <1>15, <2>3, Zenon
    <2>5. QED
      BY <1>9, <2>1, <2>4, Zenon
  <1>19. ASSUME NEW x, x = Partial("backlink count", t, i, n), t[i].key # NoKey
         PROVE  [x EXCEPT !.backlinkCount = Cardinality(Sources(t, t[i].key))]
                = Partial("backlinks", t, i, n)
    <2>1. [x EXCEPT !.backlinkCount = bc] = Partial("backlinks", t, i, n)
      BY <1>7, <1>13, <1>19, Zenon
    <2>2. QED
      BY <1>5, <1>19, <2>1, Zenon
  <1>20. ASSUME NEW x, x = Partial("backlinks", t, i, n), t[i].key # NoKey
         PROVE  [x EXCEPT !.backlinks = bb,
                          !.backlinksTruncated = x.backlinkCount > Cardinality(bb)]
                = Partial("detail", t, i, n)
    <2>1. (x.backlinkCount > Cardinality(bb)) = bt
      BY <1>12, <1>7, <1>14, <1>20, Zenon
    <2>2. [x EXCEPT !.backlinks = bb] = P(lc, ll, lt, bc, bb, no)
      BY <1>7, <1>13, <1>20, Zenon
    <2>3. [[x EXCEPT !.backlinks = bb] EXCEPT !.backlinksTruncated = bt]
          = P(lc, ll, lt, bc, bb, bt)
      BY <1>13, <2>2, Zenon
    <2>4. [x EXCEPT !.backlinks = bb, !.backlinksTruncated = bt] = P(lc, ll, lt, bc, bb, bt)
      BY <1>15, <2>3, Zenon
    <2>5. QED
      BY <1>7, <2>1, <2>4, Zenon
  <1>21. t[i].key # NoKey => bb = BacklinkRows(t, t[i].key, n)
    BY <1>5
  <1>22. RowReads(t, i, n)
    BY <1>8, <1>10, <1>16, Zenon DEF RowReads
  <1>23. CountLinksReads(t, i, n)
    BY <1>17, Zenon DEF CountLinksReads
  <1>24. ReadLinksReads(t, i, n)
    BY <1>18, Zenon DEF ReadLinksReads, ll, next
  <1>25. CountBacklinksReads(t, i, n)
    BY <1>19, Zenon DEF CountBacklinksReads
  <1>26. ReadBacklinksReads(t, i, n)
    BY <1>20, <1>21, Zenon DEF ReadBacklinksReads
  <1>27. QED
    BY <1>22, <1>23, <1>24, <1>25, <1>26

\* A link that is shown is one of the insight's, to the live insight that has its key
\* or to none.
LEMMA LinkForm ==
    ASSUME NEW t, NEW i, NEW n, NEW l \in LinkRows(t, i, n)
    PROVE  /\ l.target \in t[i].links
           /\ \/ /\ Find(t, <<"key", l.target>>) = {}
                 /\ l.resolved = FALSE
              \/ /\ l.resolved = TRUE
                 /\ \E j \in Find(t, <<"key", l.target>>) :
                        l.id = j /\ l.updated = t[j].updated
  <1> DEFINE K == {k \in t[i].links : Cardinality({j \in t[i].links : j < k}) < n}
             Found(k) == Find(t, <<"key", k>>)
             Link(k, j) == [target |-> k, resolved |-> TRUE, id |-> j, updated |-> t[j].updated]
             Dangling(k) == [target |-> k, resolved |-> FALSE]
             Rows(k) == IF Found(k) = {} THEN {Dangling(k)} ELSE {Link(k, j) : j \in Found(k)}
  <1>1. LinkRows(t, i, n) = UNION {Rows(k) : k \in K}
    BY DEF LinkRows, Limit
  <1>2. PICK k \in K : l \in Rows(k)
    <2> HIDE DEF K, Rows
    <2>1. QED
      BY <1>1
  <1>3. CASE Found(k) = {}
    <2>1. l = Dangling(k)
      BY <1>2, <1>3
    <2>2. l.target = k /\ l.resolved = FALSE
      BY <2>1
    <2>3. QED
      BY <1>2, <1>3, <2>2
  <1>4. CASE Found(k) # {}
    <2>1. PICK j \in Found(k) : l = Link(k, j)
      BY <1>2, <1>4
    <2>2. l.target = k /\ l.resolved = TRUE /\ l.id = j /\ l.updated = t[j].updated
      BY <2>1
    <2>3. QED
      BY <1>2, <2>1, <2>2
  <1>5. QED
    BY <1>3, <1>4

\* A backlink that is shown is that of an insight with a link to the key.
LEMMA BacklinkForm ==
    ASSUME NEW t, NEW k, NEW n, NEW b \in BacklinkRows(t, k, n)
    PROVE  \E j \in Sources(t, k) : b.id = j /\ b.updated = t[j].updated
  <1> DEFINE S == Sources(t, k)
             Later(i, j) == \/ t[i].updated > t[j].updated
                            \/ (t[i].updated = t[j].updated /\ i > j)
             T == {j \in S : Cardinality({i \in S : Later(i, j)}) < n}
             Link(j) == [id |-> j, key |-> t[j].key, updated |-> t[j].updated]
  <1>1. BacklinkRows(t, k, n) = {Link(j) : j \in T}
    BY DEF BacklinkRows, Limit
  <1>2. T \subseteq S
    OBVIOUS
  <1> HIDE DEF T, S
  <1>3. PICK j \in T : b = Link(j)
    BY <1>1
  <1>4. b.id = j /\ b.updated = t[j].updated
    BY <1>3
  <1>5. QED
    BY <1>2, <1>3, <1>4 DEF S

\* The recent insights of a table are the latest of its live ones, as many as the limit
\* allows.
LEMMA RecentShown ==
    ASSUME NEW t \in Table
    PROVE  /\ Recent(t) \subseteq LiveIn(t) /\ IsFiniteSet(Recent(t))
           /\ Cardinality(LiveIn(t)) \in Nat
           /\ Cardinality(Recent(t)) =
                IF Cardinality(LiveIn(t)) < RecentLimit THEN Cardinality(LiveIn(t)) ELSE RecentLimit
           /\ \A i \in LiveIn(t) \ Recent(t) :
                /\ Cardinality(Recent(t)) = RecentLimit
                /\ \A j \in Recent(t) : t[j].updated >= t[i].updated
  <1> DEFINE S == LiveIn(t)
             n == RecentLimit
             Later(i, j) == \/ t[i].updated > t[j].updated
                            \/ (t[i].updated = t[j].updated /\ i > j)
             R == {ij \in S \X S : Later(ij[1], ij[2])}
             T == First(S, R, n)
  <1>1. /\ IsFiniteSet(S) /\ Cardinality(S) \in Nat /\ n \in Nat
        /\ \A j \in S : j \in Nat /\ t[j].updated \in Nat
    BY LiveSound, RowSound, FS_CardinalityType, DetailAssumption
  <1>2. Order(S, R) /\ \A i, j \in S : <<i, j>> \in R <=> Later(i, j)
    <2>1. \A i, j \in S : <<i, j>> \in R <=> Later(i, j)
      OBVIOUS
    <2> HIDE DEF R, S
    <2>2. \A i \in S : ~Later(i, i)
      BY <1>1
    <2>3. \A h, i, j \in S : Later(h, i) /\ Later(i, j) => Later(h, j)
      BY <1>1
    <2>4. \A i, j \in S : i = j \/ Later(i, j) \/ Later(j, i)
      BY <1>1
    <2> HIDE DEF Later
    <2>5. QED
      BY <2>1, <2>2, <2>3, <2>4 DEF Order
  <1>3. /\ T \subseteq S /\ IsFiniteSet(T)
        /\ Cardinality(T) = IF Cardinality(S) <= n THEN Cardinality(S) ELSE n
        /\ Cardinality(S) <= n => T = S
        /\ \A i \in S \ T, j \in T : <<j, i>> \in R
    <2> HIDE DEF R, S
    <2>1. QED
      BY <1>1, <1>2, FirstSound
  <1>4. Recent(t) = T
    <2>1. \A j \in S : Before(S, R, j) = {i \in S : Later(i, j)}
      BY <1>2 DEF Before
    <2>2. T = {j \in S : Cardinality({i \in S : Later(i, j)}) < n}
      BY <2>1 DEF First
    <2>3. QED
      BY <2>2 DEF Recent, Limit
  <1>5. \A i \in S \ T, j \in T : Later(j, i)
    <2> HIDE DEF T, S, R, Later
    <2>1. QED
      BY <1>2, <1>3
  <1> HIDE DEF T, R
  <1>6. \A i \in S \ T, j \in T : t[j].updated >= t[i].updated
    <2> SUFFICES ASSUME NEW i \in S \ T, NEW j \in T PROVE t[j].updated >= t[i].updated
      OBVIOUS
    <2>1. t[i].updated \in Nat /\ t[j].updated \in Nat /\ Later(j, i)
      BY <1>1, <1>3, <1>5
    <2>2. QED
      BY <2>1
  <1> HIDE DEF S, n
  <1>7. \A i \in S \ T : Cardinality(T) = n
    BY <1>1, <1>3
  <1>8. Cardinality(T) = IF Cardinality(S) < n THEN Cardinality(S) ELSE n
    BY <1>1, <1>3
  <1>9. QED
    BY <1>1, <1>3, <1>4, <1>6, <1>7, <1>8 DEF S, n

\* The rows of a dashboard's list.
Listed(t, T) == {[id |-> i, row |-> t[i]] : i \in T}

\* So many rows are listed.
LEMMA RecentRows ==
    ASSUME NEW t, NEW T, IsFiniteSet(T)
    PROVE  /\ Cardinality(Listed(t, T)) = Cardinality(T)
           /\ {e.id : e \in Listed(t, T)} = T
  <1> DEFINE L == Listed(t, T)
             g == [i \in T |-> [id |-> i, row |-> t[i]]]
  <1>1. \A i \in T : g[i].id = i
    OBVIOUS
  <1>2. g \in [T -> L]
    BY DEF Listed
  <1>3. \A x \in L : \E i \in T : g[i] = x
    BY DEF Listed
  <1>4. {e.id : e \in L} = T
    <2>1. \A e \in L : e.id \in T
      BY DEF Listed
    <2>2. \A i \in T : \E e \in L : e.id = i
      <3> HIDE DEF g
      <3>1. QED
        BY <1>1, <1>2
    <2> HIDE DEF g, L
    <2>3. QED
      <3> SUFFICES ASSUME NEW i PROVE i \in {e.id : e \in L} <=> i \in T
        OBVIOUS
      <3>1. QED
        BY <2>1, <2>2, Zenon
  <1> HIDE DEF g
  <1>5. \A i, j \in T : g[i] = g[j] => i = j
    BY <1>1
  <1>6. g \in Surjection(T, L) /\ g \in Injection(T, L)
    BY <1>2, <1>3, <1>5 DEF Injection, IsInjective, Surjection
  <1>7. QED
    BY <1>4, <1>6, FS_Surjection

\* The buckets of a table add up to its live insights: each bucket counts those of one
\* category.
LEMMA BucketsTotal ==
    ASSUME NEW t \in Table
    PROVE  Total(CountBuckets(t)) = Cardinality(LiveIn(t))
  <1> DEFINE S == LiveIn(t)
             Of(c) == {i \in S : t[i].category = c}
             n == CountBuckets(t)
             P == UNION {{c} \X (1 .. n[c]) : c \in Category}
             H == [c \in Category |-> CHOOSE h : h \in Bijection(1 .. n[c], Of(c))]
             g == [p \in P |-> H[p[1]][p[2]]]
  <1>1. IsFiniteSet(S) /\ \A i \in S : t[i].category \in Category
    <2>1. ASSUME NEW i \in S PROVE t[i].category \in Category
      <3>1. i \in Insight /\ t[i] # None
        BY DEF LiveIn
      <3>2. t[i] \in DetailRow
        BY <3>1 DEF Table
      <3>3. QED
        BY <3>2 DEF DetailRow
    <2>2. QED
      BY <2>1, LiveSound
  <1>2. ASSUME NEW c \in Category
        PROVE  H[c] \in Bijection(1 .. n[c], Of(c))
    <2>1. IsFiniteSet(Of(c))
      BY <1>1, FS_Subset
    <2>2. n[c] = Cardinality(Of(c))
      BY DEF CountBuckets
    <2>3. ExistsBijection(1 .. n[c], Of(c))
      BY <2>1, <2>2, FS_CardinalityType
    <2>4. \E h : h \in Bijection(1 .. n[c], Of(c))
      BY <2>3 DEF ExistsBijection
    <2> HIDE DEF Of, n
    <2>5. QED
      BY <2>4
  <1> HIDE DEF H
  <1>3. ASSUME NEW c \in Category
        PROVE  /\ H[c] \in [1 .. n[c] -> Of(c)]
               /\ \A a, b \in 1 .. n[c] : H[c][a] = H[c][b] => a = b
               /\ \A i \in Of(c) : \E a \in 1 .. n[c] : H[c][a] = i
    BY <1>2 DEF Bijection, Injection, IsInjective, Surjection
  <1>4. /\ \A p : p \in P <=> \E c \in Category : \E a \in 1 .. n[c] : p = <<c, a>>
    OBVIOUS
  <1> HIDE DEF n, P, S
  <1>5. \A p \in P : /\ p[1] \in Category /\ p[2] \in 1 .. n[p[1]] /\ p = <<p[1], p[2]>>
    BY <1>4
  <1>6. ASSUME NEW p \in P PROVE g[p] \in S /\ t[g[p]].category = p[1]
    <2> DEFINE c == p[1]
               a == p[2]
    <2>1. c \in Category /\ a \in 1 .. n[c] /\ g[p] = H[c][a]
      BY <1>5
    <2> HIDE DEF c, a, g, H
    <2>2. H[c][a] \in Of(c)
      BY <1>3, <2>1
    <2>3. H[c][a] \in S /\ t[H[c][a]].category = c
      BY <2>2
    <2>4. QED
      BY <2>1, <2>3 DEF c
  <1>7. ASSUME NEW p \in P, NEW q \in P, g[p] = g[q] PROVE p = q
    <2>1. p[1] = q[1]
      BY <1>6, <1>7
    <2>2. H[p[1]][p[2]] = H[p[1]][q[2]]
      BY <1>7, <2>1
    <2>3. p[2] = q[2]
      BY <1>3, <1>5, <2>1, <2>2
    <2>4. QED
      BY <1>5, <2>1, <2>3
  <1>8. ASSUME NEW i \in S PROVE \E p \in P : g[p] = i
    <2> DEFINE c == t[i].category
    <2>1. c \in Category /\ i \in Of(c)
      BY <1>1
    <2> HIDE DEF c
    <2>2. PICK a \in 1 .. n[c] : H[c][a] = i
      BY <1>3, <2>1
    <2>3. <<c, a>> \in P
      BY <1>4, <2>1
    <2>4. g[<<c, a>>] = i
      BY <2>2, <2>3
    <2>5. QED
      BY <2>3, <2>4
  <1>9. g \in [P -> S]
    BY <1>6
  <1> HIDE DEF g
  <1>10. g \in Injection(P, S) /\ g \in Surjection(P, S)
    BY <1>7, <1>8, <1>9 DEF Injection, IsInjective, Surjection
  <1>11. Cardinality(P) = Cardinality(S)
    BY <1>1, <1>10, FS_Injection
  <1>12. QED
    BY <1>11 DEF Total, P, S, n

\* A commit makes one insight live, or one that was live no longer, or neither.
LEMMA OneCommit ==
    ASSUME NEW t \in Table, NEW i \in Insight, NEW row
    PROVE  LET u == [t EXCEPT ![i] = row]
           IN  /\ Cardinality(LiveIn(u)) - Cardinality(LiveIn(t)) <= 1
               /\ Cardinality(LiveIn(t)) - Cardinality(LiveIn(u)) <= 1
  <1> DEFINE u == [t EXCEPT ![i] = row]
             S == LiveIn(t)
  <1>1. DOMAIN t = Insight
    BY DEF Table
  <1>2. u[i] = row /\ \A j \in Insight \ {i} : u[j] = t[j]
    BY <1>1
  <1>3. LiveIn(u) = S \cup {i} \/ LiveIn(u) = S \ {i}
    <2> HIDE DEF u
    <2>1. QED
      BY <1>2 DEF LiveIn
  <1>4. IsFiniteSet(S) /\ Cardinality(S) \in Nat
    BY LiveSound, FS_CardinalityType
  <1> HIDE DEF S, u
  <1>5. Cardinality(LiveIn(u)) \in {Cardinality(S), Cardinality(S) + 1, Cardinality(S) - 1}
    BY <1>3, <1>4, FS_AddElement, FS_RemoveElement
  <1>6. QED
    BY <1>4, <1>5 DEF S, u

-----------------------------------------------------------------------------
(* The inductive invariant of details and dashboards *)

\* The table has versions.
History == versions \in Seq(Table) /\ Len(versions) \in Nat \ {0}

\* From version to version the number of live insights changes by one at most.
Drift ==
    \A a, b \in 1 .. Len(versions) : a <= b =>
        /\ Cardinality(LiveIn(versions[b])) - Cardinality(LiveIn(versions[a])) <= b - a
        /\ Cardinality(LiveIn(versions[a])) - Cardinality(LiveIn(versions[b])) <= b - a

\* Every request has a state.
Requests ==
    /\ DOMAIN phase = Request /\ DOMAIN arg = Request
    /\ DOMAIN from = Request /\ DOMAIN out = Request
    /\ \A r \in Request :
        /\ from[r] \in 0 .. Len(versions)
        /\ arg[r] # NoArg =>
            arg[r].sel \in Selector /\ arg[r].limit \in 1 .. MaxRelationLimit

\* GetInsight has read its part of one version.
ReadsOne(r) ==
    phase[r] \in Looking =>
        /\ from[r] \in 1 .. Len(versions) /\ arg[r].limit \in Nat
        /\ \E i \in Find(versions[from[r]], arg[r].sel) :
            /\ out[r] = Partial(phase[r], versions[from[r]], i, arg[r].limit)
            /\ phase[r] \in {"backlink count", "backlinks"} =>
                versions[from[r]][i].key # NoKey

\* A dashboard whose parts are of the tables t, u and w, as far as phase s.
Board(s, t, u, w) ==
    [total |-> Cardinality(LiveIn(t)),
     categories |-> IF s = "categories" THEN <<>> ELSE CountBuckets(u),
     recent |-> IF s = "dashboard" THEN {[id |-> i, row |-> w[i]] : i \in Recent(w)}
                ELSE {}]

\* GetProjectDashboard has read its parts of versions in their order.
ReadsInOrder(r) ==
    phase[r] \in {"categories", "recent", "dashboard"} =>
        /\ from[r] \in 1 .. Len(versions)
        /\ \E t, u, w \in from[r] .. Len(versions) :
            /\ t <= u /\ u <= w
            /\ out[r] = Board(phase[r], versions[t], versions[u], versions[w])

ReadInv ==
    /\ History
    /\ Drift
    /\ Requests
    /\ \A r \in Request : ReadsOne(r) /\ ReadsInOrder(r)

\* No request has begun, and one version exists.
LEMMA FirstVersion == DetailInit => ReadInv
  <1> SUFFICES ASSUME DetailInit PROVE ReadInv
    OBVIOUS
  <1>1. History /\ Len(versions) = 1
    <2>1. PICK t \in [Insight -> {None} \cup {row \in DetailRow : row.updated = 0}] :
            WellFormed(t) /\ versions = <<t>>
      BY DEF DetailInit
    <2>2. t \in Table
      BY <2>1 DEF Table
    <2>3. QED
      BY <2>1, <2>2 DEF History
  <1>2. Drift
    <2>1. versions[1] \in Table
      BY <1>1 DEF History
    <2>2. Cardinality(LiveIn(versions[1])) \in Nat
      BY <2>1, LiveSound, FS_CardinalityType
    <2>3. \A a \in 1 .. Len(versions) : a = 1
      BY <1>1
    <2>4. QED
      BY <2>2, <2>3 DEF Drift
  <1>3. /\ phase = [r \in Request |-> "idle"] /\ arg = [r \in Request |-> NoArg]
        /\ from = [r \in Request |-> 0] /\ out = [r \in Request |-> <<>>]
    BY DEF DetailInit
  <1>4. Requests
    BY <1>1, <1>3 DEF History, Requests
  <1>5. \A r \in Request : ReadsOne(r) /\ ReadsInOrder(r)
    BY <1>3 DEF ReadsOne, ReadsInOrder, Looking, ReadingBacklinks
  <1>6. QED
    BY <1>1, <1>2, <1>4, <1>5 DEF ReadInv

\* A step of one request leaves the others where they are.
LEMMA OtherRequests ==
    ASSUME ReadInv, NEW r \in Request, versions' = versions,
           NEW q \in Request, q # r,
           phase'[q] = phase[q], arg'[q] = arg[q], from'[q] = from[q], out'[q] = out[q]
    PROVE  ReadsOne(q)' /\ ReadsInOrder(q)'
  <1>1. ReadsOne(q) /\ ReadsInOrder(q)
    BY DEF ReadInv
  <1>2. ReadsOne(q)'
    BY <1>1 DEF ReadsOne
  <1>3. ReadsInOrder(q)'
    BY <1>1 DEF ReadsInOrder
  <1>4. QED
    BY <1>2, <1>3

\* So the invariant is kept if that request keeps its part.
LEMMA OneRequest ==
    ASSUME ReadInv, NEW r \in Request, versions' = versions,
           DOMAIN phase' = Request, DOMAIN arg' = Request, DOMAIN from' = Request, DOMAIN out' = Request,
           \A q \in Request \ {r} : /\ phase'[q] = phase[q] /\ arg'[q] = arg[q]
                                   /\ from'[q] = from[q] /\ out'[q] = out[q],
           from'[r] \in 0 .. Len(versions),
           arg'[r] # NoArg =>
            arg'[r].sel \in Selector /\ arg'[r].limit \in 1 .. MaxRelationLimit,
           ReadsOne(r)', ReadsInOrder(r)'
    PROVE  ReadInv'
  <1>1. History' /\ Drift'
    BY DEF ReadInv, History, Drift
  <1>2. Requests'
    BY DEF ReadInv, Requests
  <1>3. ASSUME NEW q \in Request PROVE ReadsOne(q)' /\ ReadsInOrder(q)'
    <2>1. CASE q = r
      BY <2>1
    <2>2. CASE q # r
      BY <2>2, OtherRequests
    <2>3. QED
      BY <2>1, <2>2
  <1>4. QED
    BY <1>1, <1>2, <1>3 DEF ReadInv

\* The version that is current.
LEMMA CurrentTable ==
    ASSUME ReadInv
    PROVE  /\ Current = versions[Len(versions)] /\ Current \in Table
           /\ Len(versions) \in Nat \ {0}
           /\ \A v \in 1 .. Len(versions) : versions[v] \in Table
  BY DEF ReadInv, History, Current

\* A request that ends without an answer.
LEMMA Ends ==
    ASSUME ReadInv, NEW r \in Request, NEW s \in {"refused", "failed"},
           phase' = [phase EXCEPT ![r] = s], UNCHANGED <<versions, arg, from, out>>
    PROVE  ReadInv'
  <1>1. ReadsOne(r)' /\ ReadsInOrder(r)'
    BY DEF ReadInv, Requests, ReadsOne, ReadsInOrder, Looking, ReadingBacklinks
  <1>2. QED
    BY <1>1, OneRequest DEF ReadInv, Requests

\* The transaction reads the row from the version that is current.
LEMMA ReadInsightSound ==
    ASSUME ReadInv, NEW r \in Request, NEW sel \in Selector,
           NEW n, ReadInsight(r, sel, n)
    PROVE  ReadInv'
  <1> DEFINE t == Current
  <1>1. PICK limit \in RelationLimit(n) :
          /\ arg' = [arg EXCEPT ![r] = [sel |-> sel, limit |-> limit]]
          /\ from' = [from EXCEPT ![r] = Len(versions)]
          /\ versions' = versions
          /\ \/ /\ phase' = [phase EXCEPT ![r] = "not found"]
                /\ out' = out
             \/ \E i \in Find(t, sel) :
                  /\ phase' = [phase EXCEPT ![r] = "link count"]
                  /\ out' = [out EXCEPT ![r] =
                              [id |-> i, row |-> t[i],
                               linkCount |-> 0, links |-> {}, linksTruncated |-> FALSE,
                               backlinkCount |-> 0, backlinks |-> {},
                               backlinksTruncated |-> FALSE]]
    BY DEF ReadInsight
  <1>2. limit \in 1 .. MaxRelationLimit /\ limit \in Nat
    BY DEF RelationLimit
  <1>3. t = versions[Len(versions)] /\ t \in Table /\ Len(versions) \in Nat \ {0}
    BY CurrentTable
  <1>4. /\ arg'[r].sel = sel /\ arg'[r].limit = limit /\ from'[r] = Len(versions)
    BY <1>1 DEF ReadInv, Requests
  <1>5. /\ DOMAIN phase' = Request /\ DOMAIN arg' = Request
        /\ DOMAIN from' = Request /\ DOMAIN out' = Request
        /\ \A q \in Request \ {r} : /\ phase'[q] = phase[q] /\ arg'[q] = arg[q]
                                   /\ from'[q] = from[q] /\ out'[q] = out[q]
    BY <1>1 DEF ReadInv, Requests
  <1>6. ReadsOne(r)' /\ ReadsInOrder(r)'
    <2>1. CASE phase' = [phase EXCEPT ![r] = "not found"]
      BY <2>1 DEF ReadInv, Requests, ReadsOne, ReadsInOrder, Looking, ReadingBacklinks
    <2>2. CASE ~(phase' = [phase EXCEPT ![r] = "not found"])
      <3>1. PICK i \in Find(t, sel) :
              /\ phase' = [phase EXCEPT ![r] = "link count"]
              /\ out' = [out EXCEPT ![r] =
                          [id |-> i, row |-> t[i],
                           linkCount |-> 0, links |-> {}, linksTruncated |-> FALSE,
                           backlinkCount |-> 0, backlinks |-> {},
                           backlinksTruncated |-> FALSE]]
        BY <1>1, <2>2
      <3>2. i \in LiveIn(t)
        BY DEF Find
      <3>3. Partial("link count", t, i, limit) =
              [id |-> i, row |-> t[i],
               linkCount |-> 0, links |-> {}, linksTruncated |-> FALSE,
               backlinkCount |-> 0, backlinks |-> {}, backlinksTruncated |-> FALSE]
        <4> HIDE DEF t
        <4>1. RowReads(t, i, limit)
          BY <1>2, <1>3, <3>2, PartialSteps
        <4>2. QED
          BY <4>1, Zenon DEF RowReads
      <3>4. phase'[r] = "link count" /\ out'[r] = Partial("link count", t, i, limit)
        BY <3>1, <3>3 DEF ReadInv, Requests
      <3> HIDE DEF t
      <3>5. versions'[from'[r]] = t /\ from'[r] \in 1 .. Len(versions')
        <4>1. versions' = versions
          BY <1>1
        <4>2. QED
          BY <1>3, <1>4, <4>1
      <3>6. ReadsOne(r)'
        BY <1>2, <1>4, <3>4, <3>5 DEF ReadsOne
      <3>7. ReadsInOrder(r)'
        BY <3>4 DEF ReadsInOrder
      <3>8. QED
        BY <3>6, <3>7
    <2>3. QED
      BY <2>1, <2>2
  <1>7. from'[r] \in 0 .. Len(versions) /\ arg'[r].sel \in Selector
        /\ arg'[r].limit \in 1 .. MaxRelationLimit
    BY <1>2, <1>3, <1>4
  <1>8. QED
    BY <1>1, <1>5, <1>6, <1>7, OneRequest

\* What a request at a phase of GetInsight has read.
LEMMA Answered ==
    ASSUME ReadInv, NEW r \in Request, phase[r] \in Looking
    PROVE  /\ View(r) \in Table /\ arg[r].limit \in Nat
           /\ out[r].id \in Find(View(r), arg[r].sel)
           /\ out[r].id \in LiveIn(View(r))
           /\ out[r].row = View(r)[out[r].id]
           /\ out[r] = Partial(phase[r], View(r), out[r].id, arg[r].limit)
           /\ phase[r] \in {"backlink count", "backlinks"} => out[r].row.key # NoKey
  <1> DEFINE t == versions[from[r]]
             n == arg[r].limit
  <1>1. PICK i \in Find(t, arg[r].sel) :
          /\ from[r] \in 1 .. Len(versions) /\ n \in Nat
          /\ out[r] = Partial(phase[r], t, i, n)
          /\ phase[r] \in {"backlink count", "backlinks"} => t[i].key # NoKey
    BY DEF ReadInv, ReadsOne
  <1>2. t \in Table /\ i \in LiveIn(t) /\ View(r) = t
    BY <1>1, CurrentTable DEF Find, View
  <1> HIDE DEF t, n
  <1>3. out[r].id = i /\ out[r].row = t[i]
    <2>1. RowReads(t, i, n)
      BY <1>1, <1>2, PartialSteps
    <2>2. QED
      BY <1>1, <2>1, Zenon DEF RowReads
  <1>4. QED
    BY <1>1, <1>2, <1>3 DEF n

\* A later statement of GetInsight reads its part of the same version.
LEMMA StatementSound ==
    ASSUME ReadInv, NEW r \in Request,
           NEW a \in Looking, NEW b \in Looking, NEW answer,
           Statement(r, a, b, answer),
           answer = Partial(b, View(r), out[r].id, arg[r].limit),
           b \in {"backlink count", "backlinks"} => out[r].row.key # NoKey
    PROVE  ReadInv'
  <1>1. /\ phase[r] = a
        /\ phase' = [phase EXCEPT ![r] = b] /\ out' = [out EXCEPT ![r] = answer]
        /\ versions' = versions /\ arg' = arg /\ from' = from
    BY DEF Statement
  <1>2. /\ arg[r].limit \in Nat
        /\ out[r].id \in Find(View(r), arg[r].sel)
        /\ out[r].row = View(r)[out[r].id]
    BY <1>1, Answered
  <1>3. /\ phase'[r] = b /\ out'[r] = answer
        /\ from[r] \in 1 .. Len(versions)
    BY <1>1 DEF ReadInv, Requests, ReadsOne
  <1>4. ReadsOne(r)'
    BY <1>1, <1>2, <1>3 DEF ReadsOne, View
  <1>5. ReadsInOrder(r)'
    BY <1>3 DEF ReadsInOrder, Looking, ReadingBacklinks
  <1>6. QED
    BY <1>1, <1>4, <1>5, OneRequest DEF ReadInv, Requests

\* The four statements after the first.
LEMMA StatementsSound ==
    ASSUME ReadInv, NEW r \in Request,
           \/ CountLinks(r) \/ ReadLinks(r)
           \/ CountBacklinks(r) \/ ReadBacklinks(r)
    PROVE  ReadInv'
  <1> DEFINE t == View(r)
             i == out[r].id
             n == arg[r].limit
             k == out[r].row.key
  <1>1. phase[r] \in Looking
    BY DEF CountLinks, ReadLinks, CountBacklinks, ReadBacklinks,
           Statement, Looking, ReadingBacklinks
  <1>2. /\ t \in Table /\ i \in LiveIn(t) /\ n \in Nat /\ k = t[i].key
        /\ out[r] = Partial(phase[r], t, i, n)
        /\ phase[r] \in {"backlink count", "backlinks"} => k # NoKey
    BY <1>1, Answered
  <1>3. CASE CountLinks(r)
    <2> DEFINE answer == [out[r] EXCEPT !.linkCount = Cardinality(t[i].links)]
    <2>1. Statement(r, "link count", "links", answer)
      BY <1>3 DEF CountLinks
    <2>2. phase[r] = "link count"
      BY <2>1 DEF Statement
    <2>3. answer = Partial("links", t, i, n)
      <3> HIDE DEF t, i, n
      <3>1. CountLinksReads(t, i, n)
        BY <1>2, PartialSteps
      <3>2. QED
        BY <1>2, <2>2, <3>1, Zenon DEF CountLinksReads
    <2>4. "link count" \in Looking /\ "links" \in Looking
          /\ ~("links" \in {"backlink count", "backlinks"})
      BY DEF Looking, ReadingBacklinks
    <2> HIDE DEF answer
    <2>5. QED
      BY <2>1, <2>3, <2>4, StatementSound
  <1>4. CASE ReadLinks(r)
    <2> DEFINE shown == LinkRows(t, i, n)
               answer == [out[r] EXCEPT !.links = shown,
                                        !.linksTruncated =
                                            out[r].linkCount > Cardinality(shown)]
               next == IF k = NoKey THEN "detail" ELSE "backlink count"
    <2>1. Statement(r, "links", next, answer)
      BY <1>4 DEF ReadLinks
    <2>2. phase[r] = "links"
      BY <2>1 DEF Statement
    <2>3. answer = Partial(next, t, i, n)
      <3>1. next = IF t[i].key = NoKey THEN "detail" ELSE "backlink count"
        BY <1>2
      <3> HIDE DEF t, i, n, next
      <3>2. ReadLinksReads(t, i, n)
        BY <1>2, PartialSteps
      <3>3. QED
        BY <1>2, <2>2, <3>1, <3>2, Zenon DEF ReadLinksReads
    <2>4. next \in Looking /\ (next \in {"backlink count", "backlinks"} => k # NoKey)
      BY DEF Looking, ReadingBacklinks
    <2> HIDE DEF answer, next
    <2>5. QED
      BY <2>1, <2>3, <2>4, StatementSound DEF Looking, ReadingBacklinks
  <1>5. CASE CountBacklinks(r)
    <2> DEFINE answer == [out[r] EXCEPT !.backlinkCount =
                            Cardinality(Sources(t, k))]
    <2>1. Statement(r, "backlink count", "backlinks", answer)
      BY <1>5 DEF CountBacklinks
    <2>2. phase[r] = "backlink count" /\ k # NoKey
      BY <1>2, <2>1 DEF Statement
    <2>3. answer = Partial("backlinks", t, i, n)
      <3> HIDE DEF t, i, n, k
      <3>1. CountBacklinksReads(t, i, n)
        BY <1>2, PartialSteps
      <3>2. QED
        BY <1>2, <2>2, <3>1, Zenon DEF CountBacklinksReads
    <2> HIDE DEF answer
    <2>4. QED
      BY <2>1, <2>2, <2>3, StatementSound DEF Looking, ReadingBacklinks
  <1>6. CASE ReadBacklinks(r)
    <2> DEFINE shown == BacklinkRows(t, k, n)
               answer == [out[r] EXCEPT !.backlinks = shown,
                                        !.backlinksTruncated =
                                            out[r].backlinkCount > Cardinality(shown)]
    <2>1. Statement(r, "backlinks", "detail", answer)
      BY <1>6 DEF ReadBacklinks
    <2>2. phase[r] = "backlinks" /\ k # NoKey
      BY <1>2, <2>1 DEF Statement
    <2>3. answer = Partial("detail", t, i, n)
      <3> HIDE DEF t, i, n, k
      <3>1. ReadBacklinksReads(t, i, n)
        BY <1>2, PartialSteps
      <3>2. QED
        BY <1>2, <2>2, <3>1, Zenon DEF ReadBacklinksReads
    <2>4. "backlinks" \in Looking /\ "detail" \in Looking
          /\ ~("detail" \in {"backlink count", "backlinks"})
      BY DEF Looking, ReadingBacklinks
    <2> HIDE DEF answer
    <2>5. QED
      BY <2>1, <2>3, <2>4, StatementSound
  <1>7. QED
    BY <1>3, <1>4, <1>5, <1>6

\* The first part of a dashboard.
LEMMA FirstPart ==
    ASSUME NEW t
    PROVE  Board("categories", t, t, t) =
             [total |-> Cardinality(LiveIn(t)), categories |-> <<>>, recent |-> {}]
  BY DEF Board

\* The second.
LEMMA CategoriesPart ==
    ASSUME NEW t, NEW u, NEW w, NEW v
    PROVE  [Board("categories", t, u, w) EXCEPT !.categories = CountBuckets(v)]
           = Board("recent", t, v, v)
  <1> DEFINE total == Cardinality(LiveIn(t))
             none == <<>>
             nothing == {}
             P(a, b, c) == [total |-> a, categories |-> b, recent |-> c]
  <1>1. /\ Board("categories", t, u, w) = P(total, none, nothing)
        /\ Board("recent", t, v, v) = P(total, CountBuckets(v), nothing)
    BY DEF Board
  <1> HIDE DEF total, none, nothing
  <1>2. [P(total, none, nothing) EXCEPT !.categories = CountBuckets(v)]
        = P(total, CountBuckets(v), nothing)
    OBVIOUS
  <1> HIDE DEF P
  <1>3. QED
    BY <1>1, <1>2, Zenon

\* The third.
LEMMA RecentPart ==
    ASSUME NEW t, NEW u, NEW w, NEW v
    PROVE  [Board("recent", t, u, w) EXCEPT
             !.recent = {[id |-> i, row |-> v[i]] : i \in Recent(v)}]
           = Board("dashboard", t, u, v)
  <1> DEFINE total == Cardinality(LiveIn(t))
             nothing == {}
             recent == {[id |-> i, row |-> v[i]] : i \in Recent(v)}
             P(a, b, c) == [total |-> a, categories |-> b, recent |-> c]
  <1>1. /\ Board("recent", t, u, w) = P(total, CountBuckets(u), nothing)
        /\ Board("dashboard", t, u, v) = P(total, CountBuckets(u), recent)
    BY DEF Board
  <1> HIDE DEF total, nothing, recent
  <1>2. [P(total, CountBuckets(u), nothing) EXCEPT !.recent = recent]
        = P(total, CountBuckets(u), recent)
    OBVIOUS
  <1> HIDE DEF P
  <1>3. [Board("recent", t, u, w) EXCEPT !.recent = recent] = Board("dashboard", t, u, v)
    BY <1>1, <1>2, Zenon
  <1>4. QED
    BY <1>3, Zenon DEF recent

\* The first statement of GetProjectDashboard reads from the current version.
LEMMA CountInsightsSound ==
    ASSUME ReadInv, NEW r \in Request, CountInsights(r)
    PROVE  ReadInv'
  <1> DEFINE t == Current
  <1>1. /\ phase' = [phase EXCEPT ![r] = "categories"]
        /\ from' = [from EXCEPT ![r] = Len(versions)]
        /\ out' = [out EXCEPT ![r] = [total |-> Cardinality(LiveIn(t)),
                                      categories |-> <<>>, recent |-> {}]]
        /\ versions' = versions /\ arg' = arg
    BY DEF CountInsights
  <1>2. t = versions[Len(versions)] /\ Len(versions) \in Nat \ {0}
    BY CurrentTable
  <1>3. out' = [out EXCEPT ![r] = Board("categories", t, t, t)]
    BY <1>1, FirstPart, Zenon
  <1>4. phase'[r] = "categories" /\ out'[r] = Board("categories", t, t, t)
        /\ from'[r] = Len(versions)
    BY <1>1, <1>3 DEF ReadInv, Requests
  <1> HIDE DEF t
  <1>5. ReadsInOrder(r)'
    <2>1. /\ Len(versions) \in from'[r] .. Len(versions) /\ from'[r] \in 1 .. Len(versions)
          /\ Len(versions) <= Len(versions)
      BY <1>2, <1>4
    <2>2. versions' = versions
      BY <1>1
    <2>3. QED
      BY <1>2, <1>4, <2>1, <2>2 DEF ReadsInOrder
  <1>6. ReadsOne(r)'
    BY <1>4 DEF ReadsOne, Looking, ReadingBacklinks
  <1>7. from'[r] \in 0 .. Len(versions)
    BY <1>2, <1>4
  <1>8. QED
    BY <1>1, <1>5, <1>6, <1>7, OneRequest DEF ReadInv, Requests

\* The later statements read from the version that is then current.
LEMMA DashboardStatementsSound ==
    ASSUME ReadInv, NEW r \in Request, CountCategories(r) \/ ReadRecent(r)
    PROVE  ReadInv'
  <1> DEFINE n == Len(versions)
             newest == versions[n]
  <1>1. phase[r] \in {"categories", "recent"} /\ versions' = versions /\ arg' = arg /\ from' = from
    BY DEF CountCategories, ReadRecent, Statement
  <1>2. Current = newest /\ n \in Nat \ {0}
    BY CurrentTable
  <1>3. PICK t, u, w \in from[r] .. n :
          /\ from[r] \in 1 .. n /\ t <= u /\ u <= w
          /\ out[r] = Board(phase[r], versions[t], versions[u], versions[w])
    BY <1>1 DEF ReadInv, ReadsInOrder
  <1>4. n \in from[r] .. n /\ t <= n /\ u <= n /\ n <= n
    BY <1>2, <1>3
  <1> HIDE DEF n, newest
  <1>5. CASE CountCategories(r)
    <2>1. /\ phase[r] = "categories" /\ phase' = [phase EXCEPT ![r] = "recent"]
          /\ out' = [out EXCEPT ![r] = [out[r] EXCEPT !.categories = CountBuckets(newest)]]
      BY <1>2, <1>5 DEF CountCategories, Statement
    <2>2. [out[r] EXCEPT !.categories = CountBuckets(newest)]
          = Board("recent", versions[t], newest, newest)
      <3>1. out[r] = Board("categories", versions[t], versions[u], versions[w])
        BY <1>3, <2>1
      <3>2. [Board("categories", versions[t], versions[u], versions[w]) EXCEPT
              !.categories = CountBuckets(newest)]
            = Board("recent", versions[t], newest, newest)
        <4> DEFINE a == versions[t]
                   b == versions[u]
                   c == versions[w]
        <4> HIDE DEF a, b, c
        <4>1. [Board("categories", a, b, c) EXCEPT !.categories = CountBuckets(newest)]
              = Board("recent", a, newest, newest)
          BY CategoriesPart
        <4>2. QED
          BY <4>1 DEF a, b, c
      <3>3. QED
        BY <3>1, <3>2, Zenon
    <2>3. phase'[r] = "recent" /\ out'[r] = Board("recent", versions[t], newest, newest)
      BY <2>1, <2>2 DEF ReadInv, Requests
    <2>4. ReadsInOrder(r)'
      BY <1>1, <1>3, <1>4, <2>3 DEF ReadsInOrder, n, newest
    <2>5. ReadsOne(r)'
      BY <2>3 DEF ReadsOne, Looking, ReadingBacklinks
    <2>6. QED
      BY <1>1, <2>1, <2>4, <2>5, OneRequest DEF ReadInv, Requests
  <1>6. CASE ReadRecent(r)
    <2>1. /\ phase[r] = "recent" /\ phase' = [phase EXCEPT ![r] = "dashboard"]
          /\ out' = [out EXCEPT ![r] =
                      [out[r] EXCEPT !.recent =
                        {[id |-> i, row |-> newest[i]] : i \in Recent(newest)}]]
      BY <1>2, <1>6 DEF ReadRecent, Statement
    <2>2. [out[r] EXCEPT !.recent = {[id |-> i, row |-> newest[i]] : i \in Recent(newest)}]
          = Board("dashboard", versions[t], versions[u], newest)
      <3>1. out[r] = Board("recent", versions[t], versions[u], versions[w])
        BY <1>3, <2>1
      <3>2. [Board("recent", versions[t], versions[u], versions[w]) EXCEPT
              !.recent = {[id |-> i, row |-> newest[i]] : i \in Recent(newest)}]
            = Board("dashboard", versions[t], versions[u], newest)
        BY RecentPart, Zenon
      <3>3. QED
        BY <3>1, <3>2, Zenon
    <2>3. phase'[r] = "dashboard" /\ out'[r] = Board("dashboard", versions[t], versions[u], newest)
      BY <2>1, <2>2 DEF ReadInv, Requests
    <2>4. ReadsInOrder(r)'
      BY <1>1, <1>3, <1>4, <2>3 DEF ReadsInOrder, n, newest
    <2>5. ReadsOne(r)'
      BY <2>3 DEF ReadsOne, Looking, ReadingBacklinks
    <2>6. QED
      BY <1>1, <2>1, <2>4, <2>5, OneRequest DEF ReadInv, Requests
  <1>7. QED
    BY <1>5, <1>6

\* One more version, one more step of drift.
LEMMA DriftGrows ==
    ASSUME History, Drift, History',
           NEW n \in Nat \ {0}, Len(versions) = n, Len(versions') = n + 1,
           \A v \in 1 .. n : versions'[v] = versions[v],
           /\ Cardinality(LiveIn(versions'[n + 1])) - Cardinality(LiveIn(versions[n])) <= 1
           /\ Cardinality(LiveIn(versions[n])) - Cardinality(LiveIn(versions'[n + 1])) <= 1
    PROVE  Drift'
  <1> DEFINE LiveOf(v) == Cardinality(LiveIn(versions'[v]))
  <1>1. ASSUME NEW v \in 1 .. n + 1 PROVE LiveOf(v) \in Nat
    <2>1. versions'[v] \in Table
      BY <1>1 DEF History
    <2>2. QED
      BY <2>1, LiveSound, FS_CardinalityType
  <1>2. \A v \in 1 .. n : LiveOf(v) = Cardinality(LiveIn(versions[v]))
    OBVIOUS
  <1>3. \A a, b \in 1 .. n : a <= b => LiveOf(b) - LiveOf(a) <= b - a /\ LiveOf(a) - LiveOf(b) <= b - a
    BY <1>2 DEF Drift
  <1>4. LiveOf(n + 1) - LiveOf(n) <= 1 /\ LiveOf(n) - LiveOf(n + 1) <= 1
    BY <1>2
  <1> HIDE DEF LiveOf
  <1>5. ASSUME NEW a \in 1 .. n + 1, NEW b \in 1 .. n + 1, a <= b
        PROVE  LiveOf(b) - LiveOf(a) <= b - a /\ LiveOf(a) - LiveOf(b) <= b - a
    <2>1. CASE b \in 1 .. n
      <3>1. a \in 1 .. n
        BY <1>5, <2>1
      <3>2. QED
        BY <1>3, <1>5, <2>1, <3>1
    <2>2. CASE b = n + 1 /\ a = n + 1
      BY <1>1, <2>2
    <2>3. CASE b = n + 1 /\ a \in 1 .. n
      <3>1. /\ LiveOf(n) - LiveOf(a) <= n - a /\ LiveOf(a) - LiveOf(n) <= n - a
            /\ LiveOf(a) \in Nat /\ LiveOf(n) \in Nat /\ LiveOf(n + 1) \in Nat
        BY <1>1, <1>3, <2>3
      <3>2. QED
        BY <1>4, <2>3, <3>1
    <2>4. QED
      BY <2>1, <2>2, <2>3
  <1>6. QED
    BY <1>5 DEF Drift, LiveOf

\* A commit adds a version, and requests keep the versions they have read.
LEMMA CommitSound ==
    ASSUME ReadInv, NEW i \in Insight, NEW row \in DetailRow, CommitVersion(i, row)
    PROVE  ReadInv'
  <1> DEFINE t == [Current EXCEPT ![i] = row]
             n == Len(versions)
  <1>1. /\ versions' = Append(versions, t) /\ WellFormed(t)
        /\ phase' = phase /\ arg' = arg /\ from' = from /\ out' = out
    BY DEF CommitVersion, request
  <1>2. t \in Table
    <2>1. Current \in [Insight -> DetailRow \cup {None}]
      BY CurrentTable DEF Table
    <2>2. QED
      BY <1>1, <2>1 DEF Table
  <1> HIDE DEF t
  <1>3. /\ versions' \in Seq(Table) /\ n \in Nat \ {0} /\ Len(versions') = n + 1
        /\ \A v \in 1 .. n : versions'[v] = versions[v]
        /\ versions'[n + 1] = t
    BY <1>1, <1>2 DEF ReadInv, History
  <1> HIDE DEF n
  <1>4. History' /\ Drift'
    <2>1. History'
      BY <1>3 DEF History
    <2>2. /\ Cardinality(LiveIn(t)) - Cardinality(LiveIn(versions[n])) <= 1
          /\ Cardinality(LiveIn(versions[n])) - Cardinality(LiveIn(t)) <= 1
      <3>1. Current = versions[n] /\ Current \in Table
        BY CurrentTable DEF n
      <3>2. QED
        BY <3>1, OneCommit DEF t
    <2>3. QED
      BY <1>3, <2>1, <2>2, DriftGrows DEF ReadInv, History, n
  <1>5. Requests'
    BY <1>1, <1>3 DEF ReadInv, Requests, n
  <1>6. ASSUME NEW q \in Request PROVE ReadsOne(q)'
    <2>1. ReadsOne(q)
      BY DEF ReadInv
    <2>2. from[q] \in 1 .. n => versions'[from[q]] = versions[from[q]] /\ from[q] \in 1 .. n + 1
      BY <1>3
    <2>3. QED
      BY <1>1, <1>3, <2>1, <2>2 DEF ReadsOne, n
  <1>7. ASSUME NEW q \in Request PROVE ReadsInOrder(q)'
    <2> SUFFICES ASSUME phase[q] \in {"categories", "recent", "dashboard"}
                 PROVE  ReadsInOrder(q)'
      BY <1>1 DEF ReadsInOrder
    <2>1. PICK a, b, c \in from[q] .. n :
            /\ from[q] \in 1 .. n /\ a <= b /\ b <= c
            /\ out[q] = Board(phase[q], versions[a], versions[b], versions[c])
      BY DEF ReadInv, ReadsInOrder, n
    <2>2. /\ a \in 1 .. n /\ b \in 1 .. n /\ c \in 1 .. n
          /\ a \in from[q] .. n + 1 /\ b \in from[q] .. n + 1 /\ c \in from[q] .. n + 1
          /\ from[q] \in 1 .. n + 1
      BY <1>3, <2>1
    <2>3. out[q] = Board(phase[q], versions'[a], versions'[b], versions'[c])
      BY <1>3, <2>1, <2>2
    <2>4. QED
      BY <1>1, <1>3, <2>1, <2>2, <2>3 DEF ReadsInOrder
  <1>8. QED
    BY <1>4, <1>5, <1>6, <1>7 DEF ReadInv

\* Every step keeps the invariant.
LEMMA ReadsInvariant ==
    ReadInv /\ [DetailNext]_detailVars => ReadInv'
  <1> SUFFICES ASSUME ReadInv, [DetailNext]_detailVars PROVE ReadInv'
    OBVIOUS
  <1>1. CASE UNCHANGED detailVars
    <2>1. /\ versions' = versions /\ phase' = phase /\ arg' = arg
          /\ from' = from /\ out' = out
      BY <1>1 DEF detailVars
    <2>2. History' /\ Drift' /\ Requests'
      BY <2>1 DEF ReadInv, History, Drift, Requests
    <2>3. ASSUME NEW r \in Request PROVE ReadsOne(r)'
      BY <2>1 DEF ReadInv, ReadsOne
    <2>4. ASSUME NEW r \in Request PROVE ReadsInOrder(r)'
      BY <2>1 DEF ReadInv, ReadsInOrder
    <2>5. QED
      BY <2>2, <2>3, <2>4 DEF ReadInv
  <1>2. ASSUME NEW r \in Request, NEW n \in RelationLimitArg, RefuseLimit(r, n) PROVE ReadInv'
    BY <1>2, Ends DEF RefuseLimit
  <1>3. ASSUME NEW r \in Request, NEW n \in RelationLimitArg, NEW sel \in Selector,
               ReadInsight(r, sel, n)
        PROVE  ReadInv'
    BY <1>3, ReadInsightSound
  <1>4. ASSUME NEW r \in Request,
               \/ CountLinks(r) \/ ReadLinks(r)
               \/ CountBacklinks(r) \/ ReadBacklinks(r)
        PROVE  ReadInv'
    BY <1>4, StatementsSound
  <1>5. ASSUME NEW r \in Request, CountInsights(r) PROVE ReadInv'
    BY <1>5, CountInsightsSound
  <1>6. ASSUME NEW r \in Request, CountCategories(r) \/ ReadRecent(r) PROVE ReadInv'
    BY <1>6, DashboardStatementsSound
  <1>7. ASSUME NEW r \in Request, Fail(r) PROVE ReadInv'
    BY <1>7, Ends DEF Fail
  <1>8. ASSUME NEW i \in Insight, NEW row \in DetailRow, CommitVersion(i, row) PROVE ReadInv'
    BY <1>8, CommitSound
  <1>9. QED
    BY <1>1, <1>2, <1>3, <1>4, <1>5, <1>6, <1>7, <1>8 DEF DetailNext

\* A list of n at most shows all of its entries, or n of them.
Shows(n, list, count) ==
    \/ Cardinality(list) = count /\ count <= n
    \/ Cardinality(list) = n /\ count > n

\* A detail of one version is coherent.
LEMMA CoherentDetail ==
    ASSUME NEW t \in Table, NEW i \in LiveIn(t), NEW n \in Nat,
           NEW d, d = Detail(t, i, n)
    PROVE  /\ Shows(n, d.links, d.linkCount)
           /\ \A l \in d.links : l.resolved => l.id # d.id
           /\ \A l \in d.links : l.resolved <=> \E j \in LiveIn(t) : t[j].key = l.target
           /\ d.row.key # NoKey =>
                /\ Shows(n, d.backlinks, d.backlinkCount)
                /\ \A b \in d.backlinks : b.id # d.id
                /\ \A l \in d.links, b \in d.backlinks :
                    l.resolved /\ l.id = b.id => l.updated = b.updated
  <1> DEFINE L == t[i].links
             k == t[i].key
             ll == LinkRows(t, i, n)
             S == Sources(t, k)
             bb == BacklinkRows(t, k, n)
  <1>1. /\ d.id = i /\ d.row = t[i] /\ d.linkCount = Cardinality(L) /\ d.links = ll
        /\ k # NoKey => d.backlinkCount = Cardinality(S) /\ d.backlinks = bb
    BY DEF Detail
  <1>2. k \notin L
    BY RowSound
  <1>3. Shows(n, d.links, d.linkCount)
    <2>1. /\ Cardinality(L) \in Nat
          /\ Cardinality(ll) =
               IF Cardinality(L) <= n THEN Cardinality(L) ELSE n
      BY LinksShown
    <2> HIDE DEF L, ll
    <2>2. QED
      BY <1>1, <2>1 DEF Shows
  <1>4. ASSUME k # NoKey PROVE Shows(n, d.backlinks, d.backlinkCount)
    <2>1. /\ Cardinality(S) \in Nat
          /\ Cardinality(bb) =
               IF Cardinality(S) <= n THEN Cardinality(S) ELSE n
      BY BacklinksShown
    <2> HIDE DEF S, bb
    <2>2. QED
      BY <1>1, <1>4, <2>1 DEF Shows
  <1>5. ASSUME NEW l \in ll
        PROVE  /\ l.resolved => l.id # i
               /\ l.resolved <=> \E j \in LiveIn(t) : t[j].key = l.target
               /\ l.resolved => l.updated = t[l.id].updated
    <2>1. /\ l.target \in L
          /\ \/ Find(t, <<"key", l.target>>) = {} /\ l.resolved = FALSE
             \/ /\ l.resolved = TRUE
                /\ \E j \in Find(t, <<"key", l.target>>) :
                       l.id = j /\ l.updated = t[j].updated
      BY LinkForm
    <2>2. \A j : j \in Find(t, <<"key", l.target>>)
                 <=> j \in LiveIn(t) /\ t[j].key = l.target
      BY DEF Find
    <2> HIDE DEF L, ll
    <2>3. QED
      BY <1>2, <2>1, <2>2
  <1>6. ASSUME NEW b \in bb PROVE b.id # i /\ b.updated = t[b.id].updated
    <2>1. PICK j \in S : b.id = j /\ b.updated = t[j].updated
      BY BacklinkForm
    <2>2. k \in t[j].links
      BY DEF Sources
    <2>3. QED
      BY <1>2, <2>1, <2>2
  <1> HIDE DEF ll, bb, L, S
  <1>7. QED
    BY <1>1, <1>3, <1>4, <1>5, <1>6

\* It implies the properties of details.
LEMMA ReadsSound ==
    ReadInv => DetailSound
  <1> SUFFICES ASSUME ReadInv PROVE DetailSound
    OBVIOUS
  <1>1. DetailTypeOK
    BY DEF DetailTypeOK, ReadInv, History, Requests, Table
  <1>2. ASSUME NEW r \in Request, phase[r] = "detail"
        PROVE  /\ View(r) \in Table /\ arg[r].limit \in Nat
               /\ out[r].id \in Find(View(r), arg[r].sel)
               /\ out[r].id \in LiveIn(View(r))
               /\ out[r] = Detail(View(r), out[r].id, arg[r].limit)
               /\ from[r] \in 1 .. Len(versions) /\ Len(versions) \in Nat
    <2>1. phase[r] \in Looking
      BY <1>2 DEF Looking, ReadingBacklinks
    <2>2. /\ View(r) \in Table /\ arg[r].limit \in Nat
          /\ out[r].id \in Find(View(r), arg[r].sel)
          /\ out[r].id \in LiveIn(View(r))
          /\ out[r] = Partial("detail", View(r), out[r].id, arg[r].limit)
      BY <1>2, <2>1, Answered
    <2>3. from[r] \in 1 .. Len(versions) /\ Len(versions) \in Nat
      BY <2>1 DEF ReadInv, History, ReadsOne
    <2>4. RowReads(View(r), out[r].id, arg[r].limit)
      BY <2>2, PartialSteps
    <2>5. out[r] = Detail(View(r), out[r].id, arg[r].limit)
      BY <2>2, <2>4, Zenon DEF RowReads
    <2>6. QED
      BY <2>2, <2>3, <2>5
  <1>3. AtomicDetail
    <2> SUFFICES ASSUME NEW r \in Request, phase[r] = "detail"
                 PROVE  \E v \in from[r] .. Len(versions) :
                          /\ out[r].id \in Find(versions[v], arg[r].sel)
                          /\ out[r] = Detail(versions[v], out[r].id, arg[r].limit)
      BY DEF AtomicDetail
    <2>1. from[r] \in from[r] .. Len(versions)
      BY <1>2
    <2>2. QED
      BY <1>2, <2>1 DEF View
  <1>4. DetailCoherent
    <2> SUFFICES ASSUME NEW r \in Request, phase[r] = "detail"
                 PROVE  LET d == out[r]
                        IN  /\ Shows(arg[r].limit, d.links, d.linkCount)
                            /\ \A l \in d.links : l.resolved => l.id # d.id
                            /\ \A l \in d.links : l.resolved <=>
                                \E i \in LiveIn(versions[from[r]]) :
                                    versions[from[r]][i].key = l.target
                            /\ d.row.key # NoKey =>
                                /\ Shows(arg[r].limit, d.backlinks, d.backlinkCount)
                                /\ \A b \in d.backlinks : b.id # d.id
                                /\ \A l \in d.links, b \in d.backlinks :
                                    l.resolved /\ l.id = b.id => l.updated = b.updated
      BY DEF DetailCoherent, Shows
    <2> DEFINE t == versions[from[r]]
               n == arg[r].limit
    <2>1. /\ t \in Table /\ n \in Nat /\ out[r].id \in LiveIn(t)
          /\ out[r] = Detail(t, out[r].id, n)
      BY <1>2 DEF View
    <2> HIDE DEF t, n
    <2>2. QED
      BY <2>1, CoherentDetail DEF t, n
  <1>5. QED
    BY <1>1, <1>3, <1>4 DEF DetailSound

\* It implies the property of dashboards.
LEMMA DriftSound ==
    ReadInv => DashboardDrift
  <1> SUFFICES ASSUME ReadInv, NEW r \in Request, phase[r] = "dashboard"
               PROVE  LET d == out[r]
                          drift == Len(versions) - from[r]
                          Near(m, n) == m - n <= drift /\ n - m <= drift
                          full == IF d.total < RecentLimit THEN d.total ELSE RecentLimit
                      IN  /\ Near(Total(d.categories), d.total)
                          /\ Near(Cardinality(d.recent), full)
                          /\ \E v \in from[r] .. Len(versions) :
                              /\ \A e \in d.recent : /\ e.id \in LiveIn(versions[v])
                                                     /\ e.row = versions[v][e.id]
                              /\ \A i \in LiveIn(versions[v]) \ {e.id : e \in d.recent} :
                                  /\ Cardinality(d.recent) = RecentLimit
                                  /\ \A e \in d.recent : e.row.updated >= versions[v][i].updated
    BY DEF DashboardDrift
  <1> DEFINE d == out[r]
             last == Len(versions)
             LiveOf(v) == Cardinality(LiveIn(versions[v]))
  <1>1. PICK u, v, w \in from[r] .. last :
          /\ from[r] \in 1 .. last /\ u <= v /\ v <= w
          /\ d = Board("dashboard", versions[u], versions[v], versions[w])
    BY DEF ReadInv, ReadsInOrder
  <1>2. last \in Nat /\ u \in 1 .. last /\ v \in 1 .. last /\ w \in 1 .. last
        /\ versions[u] \in Table /\ versions[v] \in Table /\ versions[w] \in Table
    BY <1>1 DEF ReadInv, History
  <1> DEFINE t == versions[w]
  <1>3. /\ d.total = LiveOf(u) /\ d.categories = CountBuckets(versions[v])
        /\ d.recent = {[id |-> i, row |-> t[i]] : i \in Recent(t)}
    BY <1>1 DEF Board
  <1>4. Total(d.categories) = LiveOf(v)
    BY <1>2, <1>3, BucketsTotal
  <1>5. /\ Recent(t) \subseteq LiveIn(t) /\ IsFiniteSet(Recent(t))
        /\ Cardinality(Recent(t)) = IF LiveOf(w) < RecentLimit THEN LiveOf(w) ELSE RecentLimit
        /\ \A i \in LiveIn(t) \ Recent(t) :
            /\ Cardinality(Recent(t)) = RecentLimit
            /\ \A j \in Recent(t) : t[j].updated >= t[i].updated
    BY <1>2, RecentShown
  <1>6. Cardinality(d.recent) = Cardinality(Recent(t)) /\ {e.id : e \in d.recent} = Recent(t)
    <2>1. d.recent = Listed(t, Recent(t))
      BY <1>3 DEF Listed
    <2> HIDE DEF d, t
    <2>2. QED
      BY <1>5, <2>1, RecentRows
  <1>7. LiveOf(u) \in Nat /\ LiveOf(v) \in Nat /\ LiveOf(w) \in Nat /\ RecentLimit \in Nat
    BY <1>2, LiveSound, FS_CardinalityType, DetailAssumption
  <1>8. /\ LiveOf(v) - LiveOf(u) <= v - u /\ LiveOf(u) - LiveOf(v) <= v - u
        /\ LiveOf(w) - LiveOf(u) <= w - u /\ LiveOf(u) - LiveOf(w) <= w - u
        /\ v - u <= last - from[r] /\ w - u <= last - from[r]
        /\ from[r] \in Nat
    <2>1. u <= w /\ v - u <= last - from[r] /\ w - u <= last - from[r] /\ from[r] \in Nat
      BY <1>1, <1>2
    <2>2. QED
      BY <1>1, <1>2, <2>1 DEF ReadInv, Drift
  <1> HIDE DEF LiveOf
  <1>9. /\ LiveOf(v) - LiveOf(u) <= last - from[r] /\ LiveOf(u) - LiveOf(v) <= last - from[r]
        /\ LiveOf(w) - LiveOf(u) <= last - from[r] /\ LiveOf(u) - LiveOf(w) <= last - from[r]
    <2> DEFINE a == LiveOf(u)
               b == LiveOf(v)
               c == LiveOf(w)
               f == from[r]
    <2>1. /\ a \in Nat /\ b \in Nat /\ c \in Nat /\ f \in Nat
          /\ b - a <= v - u /\ a - b <= v - u /\ c - a <= w - u /\ a - c <= w - u
          /\ v - u <= last - f /\ w - u <= last - f
      BY <1>7, <1>8
    <2>2. last \in Nat /\ u \in Nat /\ v \in Nat /\ w \in Nat
      BY <1>2
    <2> HIDE DEF a, b, c, f, last
    <2>3. b - a <= last - f /\ a - b <= last - f /\ c - a <= last - f /\ a - c <= last - f
      BY <2>1, <2>2
    <2>4. QED
      BY <2>3 DEF a, b, c, f
  <1> DEFINE full == IF d.total < RecentLimit THEN d.total ELSE RecentLimit
  <1>10. /\ Total(d.categories) - d.total <= last - from[r]
         /\ d.total - Total(d.categories) <= last - from[r]
    BY <1>3, <1>4, <1>9
  <1>11. /\ Cardinality(d.recent) - full <= last - from[r]
         /\ full - Cardinality(d.recent) <= last - from[r]
    <2> DEFINE m == Cardinality(d.recent)
               b == last - from[r]
    <2>1. m = IF LiveOf(w) < RecentLimit THEN LiveOf(w) ELSE RecentLimit
      BY <1>5, <1>6
    <2>2. full = IF LiveOf(u) < RecentLimit THEN LiveOf(u) ELSE RecentLimit
      BY <1>3
    <2>3. b \in Nat
      BY <1>1, <1>2
    <2> HIDE DEF m, b, full, d
    <2>4. m - full <= b /\ full - m <= b
      BY <1>7, <1>9, <2>1, <2>2, <2>3 DEF b
    <2>5. QED
      BY <2>4 DEF m, b
  <1>12. \E x \in from[r] .. last :
          /\ \A e \in d.recent : e.id \in LiveIn(versions[x]) /\ e.row = versions[x][e.id]
          /\ \A i \in LiveIn(versions[x]) \ {e.id : e \in d.recent} :
              /\ Cardinality(d.recent) = RecentLimit
              /\ \A e \in d.recent : e.row.updated >= versions[x][i].updated
    <2> HIDE DEF t, d
    <2>1. \A e \in d.recent : e.id \in Recent(t) /\ e.row = t[e.id]
      BY <1>3
    <2>2. \A e \in d.recent : e.id \in LiveIn(t)
      BY <1>5, <2>1
    <2>3. \A i \in LiveIn(t) \ {e.id : e \in d.recent} :
            /\ Cardinality(d.recent) = RecentLimit
            /\ \A e \in d.recent : e.row.updated >= t[i].updated
      BY <1>5, <1>6, <2>1
    <2>4. QED
      BY <1>1, <2>1, <2>2, <2>3 DEF t
  <1> HIDE DEF d, last
  <1>13. QED
    BY <1>10, <1>11, <1>12 DEF d, last, full

\* GetInsight answers as one atomic read of a version that was current during the
\* request, whatever other transactions commit between its statements, and the answer
\* is coherent.
THEOREM DetailReads == DetailSpec => []DetailSound
  <1>1. DetailInit => ReadInv
    BY FirstVersion
  <1>2. ReadInv /\ [DetailNext]_detailVars => ReadInv'
    BY ReadsInvariant
  <1>3. ReadInv => DetailSound
    BY ReadsSound
  <1>4. QED
    BY <1>1, <1>2, <1>3, PTL DEF DetailSpec

\* Although its statements share no snapshot, the categories of a dashboard add up to its
\* total and its recent insights are as many as the total allows, within one for every
\* commit since its first statement; and the recent insights are the latest of one version
\* of that time.
THEOREM DashboardReads ==
    DetailSpec => []DashboardDrift
  <1>1. DetailInit => ReadInv
    BY FirstVersion
  <1>2. ReadInv /\ [DetailNext]_detailVars => ReadInv'
    BY ReadsInvariant
  <1>3. ReadInv => DashboardDrift
    BY DriftSound
  <1>4. QED
    BY <1>1, <1>2, <1>3, PTL DEF DetailSpec
=============================================================================

---------------------------- MODULE InsightPages ----------------------------
(***************************************************************************)
(* Reading insights page by page while they change: ListInsights,          *)
(* SearchInsights and ListInsightHistory of internal/store/postgres/       *)
(* store.go, the cursors of internal/server/cursor.go, and the handlers of *)
(* tools.go and ui_service.go that bind them together.                     *)
(*                                                                         *)
(* Pages share no snapshot: each is one query over what is committed then. *)
(* A writer's updated_at is the start of its transaction, so a writer that *)
(* waited for a row lock commits a time that readers have already passed.  *)
(* What a write does besides (revisions, links, conflicts) is module       *)
(* InsightStore; here a committed write gives the row new contents.        *)
(*                                                                         *)
(* Data abstraction.  One project.  A row has a tag, and a rank for the    *)
(* one query searched for, 0 if it does not match.  A position is a tuple  *)
(* <<rank, time or revision, insight>>, compared as PostgreSQL compares    *)
(* rows, which is also how often an entry can be told from another.        *)
(* Filter hashes are the filters they hash.                                *)
(***************************************************************************)
EXTENDS InsightTable, Integers, Sequences, FiniteSets

CONSTANTS
    Tag,           \* tags
    Rank,          \* ranks of a row for the query
    Exclude,       \* lists of ids a search excludes
    Reader,        \* traversals
    Writer,        \* writing transactions
    LimitArg,      \* limits a request may ask for
    MaxLimit,      \* the largest limit accepted
    DefaultLimit,  \* the limit taken instead of any other
    FirstTime,     \* the time readers and writers begin
    MaxTime        \* bound: the last instant

ASSUME PagesAssumption ==
    /\ Rank \subseteq Nat /\ LimitArg \subseteq Int
    /\ \A ids \in Exclude : ids \in Seq(Insight)
    /\ MaxLimit \in Nat /\ DefaultLimit \in 1 .. MaxLimit
    /\ FirstTime \in Nat /\ MaxTime \in Nat
    /\ None \notin Tag

VARIABLES
    now,      \* the clock of the database
    rows,     \* the insights table
    started,  \* when a writer's transaction began, None before
    wrote,    \* writers that have committed
    stage,    \* where a traversal is
    op,       \* its operation and filter
    cursor,   \* the cursor it was given
    page,     \* the entries of its last page
    seen,     \* the entries of its pages before that
    kept,     \* entries of its result that have not changed since its first page
    tried     \* the operation a refused cursor was used for

vars == <<now, rows, started, wrote, stage, op, cursor, page, seen, kept, tried>>

readers == <<stage, op, cursor, page, seen, tried>>

-----------------------------------------------------------------------------
(* Operations and their results *)

\* Requests, as the client sends them: a tool or the dashboard lists the insights of a
\* tag or all of them,
ListOp == [kind : {"insight_list"}, filter : Tag \cup {None}]

\* searches with ids to leave out,
SearchOp == [kind : {"insight_search"}, filter : Exclude]

\* or reads the history of an insight.
HistoryOp == [kind : {"insight_history"}, filter : Insight]

Op == ListOp \cup SearchOp \cup HistoryOp

\* The committed row, tag, rank, time of last update, number of revisions.
Row == [live : BOOLEAN, tag : Tag, rank : Rank, updated : Nat, revision : Nat \ {0}]

Live(i) == rows[i] # None /\ rows[i].live

\* The rows an operation matches, as positions: the live insights of a tag,
ListMatches(tag) ==
    {<<0, rows[i].updated, i>> : i \in {j \in Insight : Live(j) /\ tag \in {None, rows[j].tag}}}

\* the live insights that have a rank and are not excluded,
SearchMatches(ids) ==
    {<<rows[i].rank, rows[i].updated, i>> :
        i \in {j \in Insight : Live(j) /\ rows[j].rank > 0 /\ \A k \in DOMAIN ids : ids[k] # j}}

\* or the revisions of an insight, deleted or not.  That of an insight which does not
\* exist is refused; here it is empty.
HistoryMatches(i) ==
    IF rows[i] = None THEN {} ELSE {<<0, n, i>> : n \in 1 .. rows[i].revision}

Matches(o) ==
    CASE o.kind = "insight_list" -> ListMatches(o.filter)
      [] o.kind = "insight_search" -> SearchMatches(o.filter)
      [] o.kind = "insight_history" -> HistoryMatches(o.filter)

Position == (Rank \cup {0}) \X Nat \X Insight

\* Row comparison: rank, then time or revision, then id.
Less(e, f) ==
    \/ e[1] < f[1]
    \/ e[1] = f[1] /\ e[2] < f[2]
    \/ e[1] = f[1] /\ e[2] = f[2] /\ e[3] < f[3]

\* The first n entries of S in descending order.
Top(S, n) == {e \in S : Cardinality({f \in S : Less(e, f)}) < n}

EffectiveLimit(n) == IF n <= 0 \/ n > MaxLimit THEN DefaultLimit ELSE n

\* Mutant: the lists are hashed as they were sent.
FilterHash_Raw(o) == o

\* What a cursor is bound to: the kind and the canonical filter.  Lists of ids are
\* sorted and compacted, so only their elements count.
FilterHash(o) ==
    IF o.kind = "insight_search"
    THEN <<o.kind, {o.filter[k] : k \in DOMAIN o.filter}>>
    ELSE <<o.kind, o.filter>>

\* Mutant: the time of the boundary is written in a coarser unit than it is stored in.
Encode_Coarse(o, e) ==
    [hash  |-> FilterHash(o),
     after |-> <<e[1], IF o.kind = "insight_history" THEN e[2] ELSE 2 * (e[2] \div 2), e[3]>>]

\* The cursor of entry e.  A stored time is whole microseconds, and UnixMicro both writes
\* and reads them; a rank is written as the bits of its float32, a revision and an id as
\* they are: the position is read back as it was.
Encode(o, e) == [hash |-> FilterHash(o), after |-> e]

ASSUME CursorAssumption == None \notin [hash : {FilterHash(o) : o \in Op}, after : Position]

\* An empty cursor asks for the first page; any other must be bound to this request.
Accepts(o, c) == c = None \/ c.hash = FilterHash(o)

\* Mutant: ties of rank and time are skipped.
Beyond_NoTieBreak(e, c) == e[1] < c[1] \/ (e[1] = c[1] /\ e[2] < c[2])

\* Mutant: the boundary is inclusive.
Beyond_Inclusive(e, c) == ~Less(c, e)

\* The WHERE clause of a continuation.
Beyond(e, c) == Less(e, c)

\* Mutant: the continuation forgets its cursor.
After_Forgets(o, c) == Matches(o)

\* The entries after the cursor.
After(o, c) == {e \in Matches(o) : c = None \/ Beyond(e, c.after)}

\* limit + 1 entries are fetched; if there are that many, the cursor is the last of
\* the first limit.  A limit that is not positive gives an empty page and no cursor.
NextCursor(o, S, n) ==
    IF n > 0 /\ Cardinality(S) > n
    THEN Encode(o, CHOOSE e \in Top(S, n) : \A f \in Top(S, n) : ~Less(f, e))
    ELSE None

-----------------------------------------------------------------------------
(* Readers *)

\* A page for r: one query, answered with the cursor of the next page if there is one.
Answer(r, o, c, n) ==
    LET S == After(o, c)
    IN  /\ page' = [page EXCEPT ![r] = Top(S, n)]
        /\ cursor' = [cursor EXCEPT ![r] = NextCursor(o, S, n)]
        /\ stage' = [stage EXCEPT ![r] = IF NextCursor(o, S, n) = None THEN "done" ELSE "more"]
        /\ op' = [op EXCEPT ![r] = o]

\* The first page.
FirstPage(r, o, n) ==
    /\ stage[r] = "idle"
    /\ Answer(r, o, None, EffectiveLimit(n))
    /\ kept' = [kept EXCEPT ![r] = Matches(o)]
    /\ UNCHANGED <<now, rows, started, wrote, seen, tried>>

\* The client continues with its cursor, and with the filter it used or another.
LoadMore(r, o, n) ==
    /\ stage[r] = "more"
    /\ Accepts(o, cursor[r])
    /\ Answer(r, o, cursor[r], EffectiveLimit(n))
    /\ seen' = [seen EXCEPT ![r] = @ \cup page[r]]
    /\ UNCHANGED <<now, rows, started, wrote, kept, tried>>

\* invalid_cursor.
RefuseCursor(r, o) ==
    /\ stage[r] = "more"
    /\ ~Accepts(o, cursor[r])
    /\ stage' = [stage EXCEPT ![r] = "invalid"]
    /\ tried' = [tried EXCEPT ![r] = o]
    /\ UNCHANGED <<now, rows, started, wrote, op, cursor, page, seen, kept>>

-----------------------------------------------------------------------------
(* Writers *)

\* now() is fixed when a transaction begins.
Begin(w) ==
    /\ started[w] = None
    /\ started' = [started EXCEPT ![w] = now]
    /\ UNCHANGED <<now, rows, wrote, readers, kept>>

\* A transaction has got the lock of row i, whoever had it before, and commits:
\* a create, an update, a deletion, or a restore.
Commit(w, i, live, t, k) ==
    /\ started[w] # None
    /\ w \notin wrote
    /\ rows[i] = None \/ ~rows[i].live => live
    /\ rows[i] # None /\ ~live => t = rows[i].tag /\ k = rows[i].rank
    /\ wrote' = wrote \cup {w}
    /\ rows' = [rows EXCEPT ![i] =
                    [live |-> live, tag |-> t, rank |-> k, updated |-> started[w],
                     revision |-> IF rows[i] = None THEN 1 ELSE rows[i].revision + 1]]
    /\ UNCHANGED <<now, started, readers>>
    /\ kept' = [r \in Reader |-> kept[r] \cap Matches(op[r])']

Tick ==
    /\ now < MaxTime
    /\ now' = now + 1
    /\ UNCHANGED <<rows, started, wrote, readers, kept>>

-----------------------------------------------------------------------------
(* Specification *)

AnyList == [kind |-> "insight_list", filter |-> None]

\* Some rows have been created before.
Init ==
    /\ now = FirstTime
    /\ rows \in [Insight -> {None} \cup [live : {TRUE}, tag : Tag, rank : Rank,
                                         updated : 0 .. FirstTime, revision : {1}]]
    /\ started = [w \in Writer |-> None]
    /\ wrote = {}
    /\ stage = [r \in Reader |-> "idle"]
    /\ op = [r \in Reader |-> AnyList]
    /\ cursor = [r \in Reader |-> None]
    /\ page = [r \in Reader |-> {}]
    /\ seen = [r \in Reader |-> {}]
    /\ kept = [r \in Reader |-> {}]
    /\ tried = [r \in Reader |-> AnyList]

Next ==
    \/ \E r \in Reader, o \in Op :
        \/ \E n \in LimitArg : FirstPage(r, o, n) \/ LoadMore(r, o, n)
        \/ RefuseCursor(r, o)
    \/ \E w \in Writer :
        \/ Begin(w)
        \/ \E i \in Insight, live \in BOOLEAN, t \in Tag, k \in Rank : Commit(w, i, live, t, k)
    \/ Tick

Spec == Init /\ [][Next]_vars

\* A client that has a cursor asks for the next page.
FairSpec ==
    /\ Spec
    /\ \A r \in Reader : WF_vars(\E n \in LimitArg : LoadMore(r, op[r], n))

-----------------------------------------------------------------------------
(* Properties *)

TypeOK ==
    /\ rows \in [Insight -> Row \cup {None}]
    /\ stage \in [Reader -> {"idle", "more", "done", "invalid"}]
    /\ \A r \in Reader :
        /\ op[r] \in Op /\ tried[r] \in Op
        /\ page[r] \cup seen[r] \cup kept[r] \subseteq Position
        /\ cursor[r] # None <=> stage[r] \in {"more", "invalid"}
        /\ Cardinality(page[r]) <= MaxLimit

\* A traversal that ends has returned every entry that matched at its first page and
\* has not changed since, whatever happened to the others and however late their
\* transactions committed.  In a history that is every revision up to the first page.
TraversalComplete == \A r \in Reader : stage[r] = "done" => kept[r] \subseteq seen[r] \cup page[r]

\* An entry is returned once: what is returned again was changed in between.
PagesDisjoint == \A r \in Reader : page[r] \cap seen[r] = {}

\* A cursor is refused only if the client changed the meaning of its filter; sending
\* the same ids in another order or twice is no change.
RefusedForCause ==
    \A r \in Reader : stage[r] = "invalid" =>
        \/ tried[r].kind # op[r].kind
        \/ /\ tried[r].kind # "insight_search"
           /\ tried[r].filter # op[r].filter
        \/ /\ tried[r].kind = "insight_search"
           /\ \E i \in Insight :
                (\E k \in DOMAIN tried[r].filter : tried[r].filter[k] = i)
                # (\E k \in DOMAIN op[r].filter : op[r].filter[k] = i)

\* A traversal that is continued ends, although rows keep moving.
TraversalEnds == \A r \in Reader : stage[r] = "more" ~> stage[r] \in {"done", "invalid"}

\* The pages of a traversal partition its result: nothing twice, and at the end
\* nothing left out that stood still.
PagesSound ==
    /\ TypeOK
    /\ PagesDisjoint
    /\ TraversalComplete
=============================================================================

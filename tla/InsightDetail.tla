---------------------------- MODULE InsightDetail ----------------------------
(***************************************************************************)
(* Reads of several statements while insights change: GetInsight with its  *)
(* links and backlinks, in one repeatable-read transaction, and            *)
(* GetProjectDashboard, whose statements share no snapshot                 *)
(* (internal/store/postgres/store.go, and the handlers of tools.go and     *)
(* ui_service.go that return them).                                        *)
(*                                                                         *)
(* What transactions commit is the sequence of the table's versions; what  *)
(* is inside a writing transaction is module InsightStore.                 *)
(*                                                                         *)
(* Data abstraction.  One project.  A row keeps the keys it links to, as   *)
(* insight_links does, and of its attributes the category: the dashboard   *)
(* groups by source, tag and day in the same way.                          *)
(***************************************************************************)
EXTENDS InsightTable, Integers, Sequences, FiniteSets

CONSTANTS
    Key,                   \* keys, ordered
    NoKey,                 \* the NULL key
    Category,              \* categories
    Time,                  \* values of updated_at, 0 at first
    Request,               \* reading requests
    RelationLimitArg,      \* relation limits a request may ask for, 0 if it asks for none
    MaxRelationLimit,      \* the largest relation limit
    DefaultRelationLimit,  \* the relation limit otherwise
    RecentLimit,           \* recent insights of a dashboard
    MaxCommits             \* bound: committed writes

ASSUME DetailAssumption ==
    /\ Key \subseteq Nat /\ IsFiniteSet(Key)
    /\ Time \subseteq Nat /\ 0 \in Time
    /\ RelationLimitArg \subseteq Int
    /\ MaxRelationLimit \in Nat /\ DefaultRelationLimit \in 1 .. MaxRelationLimit
    /\ RecentLimit \in Nat \ {0} /\ MaxCommits \in Nat
    /\ NoKey \notin Key

VARIABLES
    versions,  \* the committed states of the table, in the order of commits
    phase,     \* where a request is
    arg,       \* its arguments
    from,      \* the version its first statement saw
    out        \* what it has read

detailVars == <<versions, phase, arg, from, out>>

request == <<phase, arg, from, out>>

Current == versions[Len(versions)]

-----------------------------------------------------------------------------
(* Queries on a version t of the table *)

DetailRow == [live : BOOLEAN, key : Key \cup {NoKey}, links : SUBSET Key, category : Category,
        updated : Time]

LiveIn(t) == {i \in Insight : t[i] # None /\ t[i].live}

\* The live insight with an id or with a key.
Find(t, sel) == {i \in LiveIn(t) : sel = <<"id", i>> \/ sel = <<"key", t[i].key>>}

\* The first n of S, when Before(e, f) says that e comes before f.
Limit(S, n, Before(_, _)) == {e \in S : Cardinality({f \in S : Before(f, e)}) < n}

\* Mutant: the join also finds deleted targets.
LinkRows_Deleted(t, i, n) ==
    UNION {LET found == {j \in Insight : t[j] # None /\ t[j].key = k}
           IN  IF found = {} THEN {[target |-> k, resolved |-> FALSE]}
               ELSE {[target |-> k, resolved |-> TRUE, id |-> j, updated |-> t[j].updated] : j \in found}
           : k \in Limit(t[i].links, n, <)}

\* The first n links of insight i in the order of their keys; a link is resolved if
\* a live insight has its key.
LinkRows(t, i, n) ==
    UNION {LET found == Find(t, <<"key", k>>)
           IN  IF found = {} THEN {[target |-> k, resolved |-> FALSE]}
               ELSE {[target |-> k, resolved |-> TRUE, id |-> j, updated |-> t[j].updated] : j \in found}
           : k \in Limit(t[i].links, n, <)}

\* Live insights that link to a key.
Sources(t, k) == {j \in LiveIn(t) : k \in t[j].links}

\* The n latest backlinks of a key.
BacklinkRows(t, k, n) ==
    LET Later(i, j) == \/ t[i].updated > t[j].updated
                       \/ t[i].updated = t[j].updated /\ i > j
    IN  {[id |-> j, key |-> t[j].key, updated |-> t[j].updated] : j \in Limit(Sources(t, k), n, Later)}

\* Mutant: deleted insights are counted.
CountBuckets_Deleted(t) ==
    [c \in Category |-> Cardinality({i \in Insight : t[i] # None /\ t[i].category = c})]

\* The live insights of each category.
CountBuckets(t) == [c \in Category |-> Cardinality({i \in LiveIn(t) : t[i].category = c})]

\* Mutant: deleted insights are listed.
Recent_Deleted(t) ==
    LET Later(i, j) == \/ t[i].updated > t[j].updated
                       \/ t[i].updated = t[j].updated /\ i > j
    IN  Limit({i \in Insight : t[i] # None}, RecentLimit, Later)

\* The insights updated last.
Recent(t) ==
    LET Later(i, j) == \/ t[i].updated > t[j].updated
                       \/ t[i].updated = t[j].updated /\ i > j
    IN  Limit(LiveIn(t), RecentLimit, Later)

-----------------------------------------------------------------------------
(* GetInsight *)

\* The relation limit, if it is accepted.
RelationLimit(n) == (IF n = 0 THEN {DefaultRelationLimit} ELSE {n}) \cap 1 .. MaxRelationLimit

\* Mutant: every statement has a snapshot of its own.
View_ReadCommitted(r) == Current

\* The snapshot of a repeatable-read transaction is that of its first statement.
View(r) == versions[from[r]]

\* The handler refuses a limit out of range.
RefuseLimit(r, n) ==
    /\ phase[r] = "idle"
    /\ RelationLimit(n) = {}
    /\ phase' = [phase EXCEPT ![r] = "refused"]
    /\ UNCHANGED <<versions, arg, from, out>>

\* The transaction begins and reads the row.
ReadInsight(r, sel, n) ==
    /\ phase[r] = "idle"
    /\ \E limit \in RelationLimit(n) :
        /\ arg' = [arg EXCEPT ![r] = [sel |-> sel, limit |-> limit]]
        /\ from' = [from EXCEPT ![r] = Len(versions)]
        /\ \/ /\ Find(Current, sel) = {}
              /\ phase' = [phase EXCEPT ![r] = "not found"]
              /\ UNCHANGED out
           \/ \E i \in Find(Current, sel) :
                /\ phase' = [phase EXCEPT ![r] = "link count"]
                /\ out' = [out EXCEPT ![r] =
                            [id |-> i, row |-> Current[i],
                             linkCount |-> 0, links |-> {}, linksTruncated |-> FALSE,
                             backlinkCount |-> 0, backlinks |-> {}, backlinksTruncated |-> FALSE]]
    /\ UNCHANGED versions

\* A statement of r at phase a, after which the answer is as given and b is next.
Statement(r, a, b, answer) ==
    /\ phase[r] = a
    /\ phase' = [phase EXCEPT ![r] = b]
    /\ out' = [out EXCEPT ![r] = answer]
    /\ UNCHANGED <<versions, arg, from>>

CountLinks(r) ==
    Statement(r, "link count", "links",
              [out[r] EXCEPT !.linkCount = Cardinality(View(r)[out[r].id].links)])

\* The links, and whether there are more than were read.  An insight without a key
\* can have no backlinks.
ReadLinks(r) ==
    LET shown == LinkRows(View(r), out[r].id, arg[r].limit)
    IN  Statement(r, "links", IF out[r].row.key = NoKey THEN "detail" ELSE "backlink count",
                  [out[r] EXCEPT !.links = shown,
                                 !.linksTruncated = out[r].linkCount > Cardinality(shown)])

CountBacklinks(r) ==
    Statement(r, "backlink count", "backlinks",
              [out[r] EXCEPT !.backlinkCount = Cardinality(Sources(View(r), out[r].row.key))])

ReadBacklinks(r) ==
    LET shown == BacklinkRows(View(r), out[r].row.key, arg[r].limit)
    IN  Statement(r, "backlinks", "detail",
                  [out[r] EXCEPT !.backlinks = shown,
                                 !.backlinksTruncated = out[r].backlinkCount > Cardinality(shown)])

-----------------------------------------------------------------------------
(* GetProjectDashboard: a connection of the pool, and a snapshot, for each statement *)

CountInsights(r) ==
    /\ phase[r] = "idle"
    /\ phase' = [phase EXCEPT ![r] = "categories"]
    /\ from' = [from EXCEPT ![r] = Len(versions)]
    /\ out' = [out EXCEPT ![r] =
                [total |-> Cardinality(LiveIn(Current)), categories |-> <<>>, recent |-> {}]]
    /\ UNCHANGED <<versions, arg>>

CountCategories(r) ==
    Statement(r, "categories", "recent", [out[r] EXCEPT !.categories = CountBuckets(Current)])

ReadRecent(r) ==
    Statement(r, "recent", "dashboard",
              [out[r] EXCEPT !.recent = {[id |-> i, row |-> Current[i]] : i \in Recent(Current)}])

\* A statement fails: the transaction, if there is one, is rolled back.
Fail(r) ==
    /\ phase[r] \in {"link count", "links", "backlink count", "backlinks", "categories", "recent"}
    /\ phase' = [phase EXCEPT ![r] = "failed"]
    /\ UNCHANGED <<versions, arg, from, out>>

-----------------------------------------------------------------------------
(* Writers *)

\* What transactions leave: a key names one live insight, which does not link to itself.
WellFormed(t) ==
    /\ \A k \in Key : Cardinality(Find(t, <<"key", k>>)) <= 1
    /\ \A i \in Insight : t[i] # None => t[i].key \notin t[i].links

\* A committed write of insight i: a new insight, new contents of a live one, a
\* deletion, which leaves the links, or a restore.  A key names one live insight,
\* and a link to the own key is not kept.
CommitVersion(i, row) ==
    /\ Len(versions) <= MaxCommits
    /\ Current[i] = None => row.live
    /\ Current[i] # None => row.key = Current[i].key
    /\ ~row.live => /\ Current[i].live
                    /\ row.links = Current[i].links /\ row.category = Current[i].category
    /\ WellFormed([Current EXCEPT ![i] = row])
    /\ versions' = Append(versions, [Current EXCEPT ![i] = row])
    /\ UNCHANGED request

-----------------------------------------------------------------------------
(* Specification *)

Selector == ({"id"} \X Insight) \cup ({"key"} \X Key)

NoArg == [sel |-> None, limit |-> 0]

\* Some insights have been written, and some deleted, before.
DetailInit ==
    /\ \E t \in [Insight -> {None} \cup {row \in DetailRow : row.updated = 0}] :
        /\ WellFormed(t)
        /\ versions = <<t>>
    /\ phase = [r \in Request |-> "idle"]
    /\ arg = [r \in Request |-> NoArg]
    /\ from = [r \in Request |-> 0]
    /\ out = [r \in Request |-> <<>>]

DetailNext ==
    \/ \E r \in Request :
        \/ \E n \in RelationLimitArg :
            \/ RefuseLimit(r, n)
            \/ \E sel \in Selector : ReadInsight(r, sel, n)
        \/ CountLinks(r)
        \/ ReadLinks(r)
        \/ CountBacklinks(r)
        \/ ReadBacklinks(r)
        \/ CountInsights(r)
        \/ CountCategories(r)
        \/ ReadRecent(r)
        \/ Fail(r)
    \/ \E i \in Insight, row \in DetailRow : CommitVersion(i, row)

DetailSpec == DetailInit /\ [][DetailNext]_detailVars

-----------------------------------------------------------------------------
(* Properties *)

\* Every version is a table, requests read versions that exist, with accepted limits.
DetailTypeOK ==
    /\ \A v \in 1 .. Len(versions) : versions[v] \in [Insight -> DetailRow \cup {None}]
    /\ \A r \in Request :
        /\ from[r] \in 0 .. Len(versions)
        /\ arg[r] # NoArg => arg[r].sel \in Selector /\ arg[r].limit \in 1 .. MaxRelationLimit

\* The reference: all that GetInsight returns, of one version.  An insight without a
\* key has no backlinks.
Detail(t, i, n) ==
    LET sources == IF t[i].key = NoKey THEN {} ELSE Sources(t, t[i].key)
    IN  [id |-> i, row |-> t[i],
         linkCount |-> Cardinality(t[i].links),
         links |-> LinkRows(t, i, n),
         linksTruncated |-> Cardinality(t[i].links) > n,
         backlinkCount |-> Cardinality(sources),
         backlinks |-> IF t[i].key = NoKey THEN {} ELSE BacklinkRows(t, t[i].key, n),
         backlinksTruncated |-> Cardinality(sources) > n]

\* GetInsight answers as if it were one atomic read: five statements between commits
\* of other transactions return one version of the table, one that was current
\* during the request.
AtomicDetail ==
    \A r \in Request : phase[r] = "detail" =>
        \E v \in from[r] .. Len(versions) :
            /\ out[r].id \in Find(versions[v], arg[r].sel)
            /\ out[r] = Detail(versions[v], out[r].id, arg[r].limit)

\* What a client can see of that: the counts are exact and the lists as long as count
\* and limit allow, a link is shown as resolved if and only if a live insight had its
\* key, an insight shown both as a link and as a backlink is shown with the same time,
\* and no insight is related to itself.
DetailCoherent ==
    \A r \in Request : phase[r] = "detail" =>
        LET d == out[r]
            Shown(rows, count) == \/ Cardinality(rows) = count /\ count <= arg[r].limit
                                  \/ Cardinality(rows) = arg[r].limit /\ count > arg[r].limit
        IN  /\ Shown(d.links, d.linkCount)
            /\ \A l \in d.links : l.resolved => l.id # d.id
            /\ \A l \in d.links :
                l.resolved <=> \E i \in LiveIn(versions[from[r]]) : versions[from[r]][i].key = l.target
            /\ d.row.key # NoKey =>
                /\ Shown(d.backlinks, d.backlinkCount)
                /\ \A b \in d.backlinks : b.id # d.id
                /\ \A l \in d.links, b \in d.backlinks :
                    l.resolved /\ l.id = b.id => l.updated = b.updated

\* The insights in all buckets.
Total(buckets) == Cardinality(UNION {{c} \X (1 .. buckets[c]) : c \in Category})

\* A dashboard is no snapshot, but its parts differ by no more than the writes that were
\* committed meanwhile: the categories add up to the number of insights and the recent
\* ones are as many as that number allows, within one for every commit since the first
\* statement.  The recent insights are distinct, were live together in one version of
\* that time, and none that was left out then was updated after one that is shown.
DashboardDrift ==
    \A r \in Request : phase[r] = "dashboard" =>
        LET d == out[r]
            drift == Len(versions) - from[r]
            Near(m, n) == m - n <= drift /\ n - m <= drift
            full == IF d.total < RecentLimit THEN d.total ELSE RecentLimit
        IN  /\ Near(Total(d.categories), d.total)
            /\ Near(Cardinality(d.recent), full)
            /\ \E v \in from[r] .. Len(versions) :
                /\ \A e \in d.recent : e.id \in LiveIn(versions[v]) /\ e.row = versions[v][e.id]
                /\ \A i \in LiveIn(versions[v]) \ {e.id : e \in d.recent} :
                    /\ Cardinality(d.recent) = RecentLimit
                    /\ \A e \in d.recent : e.row.updated >= versions[v][i].updated

\* The answer of GetInsight is one version of the table, and looks it.
DetailSound ==
    /\ DetailTypeOK
    /\ AtomicDetail
    /\ DetailCoherent
=============================================================================

---------------------------- MODULE InsightStore ----------------------------
(***************************************************************************)
(* The insights of one project in the PostgreSQL store: WriteInsight,      *)
(* UpdateInsight, DeleteInsight and RestoreInsight over the tables         *)
(* insights, insight_revisions and insight_links.                          *)
(*                                                                         *)
(* Each call is a READ COMMITTED transaction.  It locks a row with SELECT  *)
(* ... FOR UPDATE and keeps the copy it read (`current` in the code) until *)
(* it commits.  The statements that write touch the locked row, or a fresh *)
(* one, and what hangs on it, so they are one step with the commit: a      *)
(* statement that waits for another transaction's uncommitted key is a     *)
(* step taken later.  What cannot be merged is kept apart: the SELECT by   *)
(* key, its wait for a lock (the row is checked again after the wait, but  *)
(* rows the statement's snapshot did not hold stay unseen), the INSERT ... *)
(* ON CONFLICT DO NOTHING and the second SELECT.                           *)
(*                                                                         *)
(* Data abstraction: content, tags and class (category with source) are    *)
(* opaque values; Targets(content) is the set of keys it links to.  An     *)
(* optional argument is a set with at most one element.                    *)
(***************************************************************************)
EXTENDS Naturals, FiniteSets

CONSTANTS
    Tx,           \* concurrent transactions
    Id,           \* insights.id values
    Key,          \* insight keys
    NoKey,        \* the NULL key
    Content,      \* contents
    Tags,         \* tag lists
    Class,        \* category and source
    Targets(_),   \* insightlinks.Targets
    MaxRevision,  \* MaxInsightRevision; in a model, the bound on revisions
    Expectable    \* revisions a caller may expect, 0: no insight yet

ASSUME NoKeyAssumption == NoKey \notin Key

ASSUME TargetsAssumption == \A c \in Content : Targets(c) \subseteq Key

ASSUME MaxRevisionAssumption == MaxRevision \in Nat \ {0}

ASSUME ExpectableAssumption == Expectable \subseteq 0 .. MaxRevision

VARIABLES
    insights,   \* table insights
    history,    \* table insight_revisions
    links,      \* table insight_links
    tx          \* the transactions

vars == <<insights, history, links, tx>>

tables == <<insights, history, links>>

-----------------------------------------------------------------------------
(* Records *)

Optional(S) == {{}} \cup {{x} : x \in S}

Body == [content : Content, tags : Tags, class : Class]

Insight == [id : Id, key : Key \cup {NoKey}, body : Body, deleted : BOOLEAN,
            revision : 1 .. MaxRevision]

Operation == {"baseline", "create", "update", "delete", "restore"}

Revision == [insight_id : Id, revision : 1 .. MaxRevision, operation : Operation,
             key : Key \cup {NoKey}, body : Body, deleted : BOOLEAN]

Link == [source : Id, target : Key]

\* The parameters of the four calls.
WriteParams == [key : Key \cup {NoKey}, body : Body,
                expected : Optional(Expectable)]

UpdateParams == [content : Optional(Content), tags : Optional(Tags),
                 expected : Optional(Expectable \ {0})]

DeleteParams == [expected : Optional(Expectable \ {0})]

RestoreParams == [target : 1 .. MaxRevision, expected : {{n} : n \in Expectable \ {0}}]

\* A transaction: not begun, about to SELECT by key (first or second time),
\* waiting for the row that SELECT found, about to INSERT, or holding the lock
\* on the row `current`.
Transaction ==
    [pc : {"idle"}]
    \cup [pc : {"select", "insert", "reselect"}, p : WriteParams]
    \cup [pc : {"wait"}, p : WriteParams, id : Id, again : BOOLEAN]
    \cup [pc : {"write"}, p : WriteParams, current : Insight]
    \cup [pc : {"update"}, p : UpdateParams, current : Insight]
    \cup [pc : {"delete"}, p : DeleteParams, current : Insight]
    \cup [pc : {"restore"}, p : RestoreParams, current : Insight]

TypeOK ==
    /\ insights \subseteq Insight
    /\ history \subseteq Revision
    /\ links \subseteq Link
    /\ tx \in [Tx -> Transaction]

Idle == [pc |-> "idle"]

-----------------------------------------------------------------------------
(* Statements *)

Locked_Never(i) == FALSE

\* The row lock of SELECT ... FOR UPDATE.
Locked(i) ==
    \E t \in Tx : /\ tx[t].pc \in {"write", "update", "delete", "restore"}
                  /\ tx[t].current.id = i

LiveByKey_Deleted(k) == {x \in insights : x.key = k}

LiveByKey(k) == {x \in insights : x.key = k /\ ~x.deleted}

Expected_Lenient(expected, x) == \A e \in expected : e <= x.revision

\* checkExpectedRevision
Expected(expected, x) == \A e \in expected : e = x.revision

Goto(t, s) == tx' = [tx EXCEPT ![t] = s]

\* The links syncInsightContentTx keeps: a link to the own key is dropped.
Desired(x) == Targets(x.body.content) \ {x.key}

\* syncInsightLinksTx
SyncInsightContent(x) ==
    links' = {l \in links : l.source # x.id}
             \cup {[source |-> x.id, target |-> k] : k \in Desired(x)}

\* insertInsightRevisionTx: a snapshot of the row.
Snapshot(x, operation) ==
    [insight_id |-> x.id, revision |-> x.revision, operation |-> operation,
     key |-> x.key, body |-> x.body, deleted |-> x.deleted]

\* The row of UPDATE insights ... WHERE id = ... AND revision = ...
UpdateTarget(x) == {y \in insights : y.id = x.id /\ y.revision = x.revision}

Change_SnapshotsOld(x, y, operation) ==
    LET z == [y EXCEPT !.revision = x.revision + 1]
    IN  /\ UpdateTarget(x) # {}
        /\ x.revision < MaxRevision
        /\ insights' = (insights \ UpdateTarget(x)) \cup {z}
        /\ history' = history \cup {Snapshot(x, operation)}

\* The row x becomes y, one revision later, and is recorded.
Change(x, y, operation) ==
    LET z == [y EXCEPT !.revision = x.revision + 1]
    IN  /\ UpdateTarget(x) # {}
        /\ x.revision < MaxRevision
        /\ insights' = (insights \ UpdateTarget(x)) \cup {z}
        /\ history' = history \cup {Snapshot(z, operation)}

\* A semantic no-op repairs the links and nothing else.
Resync(x) == SyncInsightContent(x) /\ UNCHANGED <<insights, history>>

-----------------------------------------------------------------------------
(* WriteInsight *)

WriteBegin(t, p) ==
    /\ tx[t].pc = "idle"
    /\ p.key = NoKey => p.expected \subseteq {0}
    /\ Goto(t, [pc |-> IF p.key = NoKey THEN "insert" ELSE "select", p |-> p])
    /\ UNCHANGED tables

\* getInsightByKeyForUpdateTx finds a row: lock it, or wait for its lock.
SelectByKey(t) ==
    /\ tx[t].pc \in {"select", "reselect"}
    /\ \E x \in LiveByKey(tx[t].p.key) :
          Goto(t, IF Locked(x.id)
                  THEN [pc |-> "wait", p |-> tx[t].p, id |-> x.id,
                        again |-> tx[t].pc = "reselect"]
                  ELSE [pc |-> "write", p |-> tx[t].p, current |-> x])
    /\ UNCHANGED tables

\* What a SELECT by key that returns no row leads to: the first one to a
\* revision conflict or to the INSERT, the second one to ErrNotFound.
KeyNotFound(p, again) ==
    IF again \/ p.expected \cap 1 .. MaxRevision # {}
    THEN Idle ELSE [pc |-> "insert", p |-> p]

SelectByKeyMisses(t) ==
    /\ tx[t].pc \in {"select", "reselect"}
    /\ LiveByKey(tx[t].p.key) = {}
    /\ Goto(t, KeyNotFound(tx[t].p, tx[t].pc = "reselect"))
    /\ UNCHANGED tables

\* The lock is free: the row that was waited for is checked once more.
WaitEnds(t) ==
    LET matching == {x \in LiveByKey(tx[t].p.key) : x.id = tx[t].id}
    IN  /\ tx[t].pc = "wait"
        /\ ~Locked(tx[t].id)
        /\ \/ \E x \in matching :
                 Goto(t, [pc |-> "write", p |-> tx[t].p, current |-> x])
           \/ /\ matching = {}
              /\ Goto(t, KeyNotFound(tx[t].p, tx[t].again))
        /\ UNCHANGED tables

\* createInsightTx inserts the row, its links and its first snapshot.
CreateInsight(t) ==
    /\ tx[t].pc = "insert"
    /\ tx[t].p.key = NoKey \/ LiveByKey(tx[t].p.key) = {}
    /\ \E i \in Id :
          LET x == [id |-> i, key |-> tx[t].p.key, body |-> tx[t].p.body,
                    deleted |-> FALSE, revision |-> 1]
          IN  /\ \A y \in insights : y.id # i
              /\ insights' = insights \cup {x}
              /\ history' = history \cup {Snapshot(x, "create")}
              /\ SyncInsightContent(x)
    /\ Goto(t, Idle)

\* ON CONFLICT DO NOTHING: another transaction has the key; look again.
CreateConflict(t) ==
    /\ tx[t].pc = "insert"
    /\ tx[t].p.key # NoKey
    /\ LiveByKey(tx[t].p.key) # {}
    /\ Goto(t, [pc |-> "reselect", p |-> tx[t].p])
    /\ UNCHANGED tables

\* The row updateInsightByKeyTx wants: all fields are replaced.
WrittenRow(p, x) == [x EXCEPT !.body = p.body]

UpdateByKey(t) ==
    LET p == tx[t].p
        x == tx[t].current
        y == WrittenRow(p, x)
    IN  /\ tx[t].pc = "write"
        /\ Expected(p.expected, x)
        /\ \/ y = x /\ Resync(x)
           \/ y # x /\ Change(x, y, "update") /\ SyncInsightContent(y)
        /\ Goto(t, Idle)

-----------------------------------------------------------------------------
(* UpdateInsight, DeleteInsight, RestoreInsight *)

\* getInsightForUpdateTx and getInsightForRestoreTx: wait for the row's lock,
\* take it, and read the row.
LockRow(t, i, live, s) ==
    /\ tx[t].pc = "idle"
    /\ ~Locked(i)
    /\ \E x \in insights :
          /\ x.id = i
          /\ live => ~x.deleted
          /\ Goto(t, [pc |-> s.pc, p |-> s.p, current |-> x])
    /\ UNCHANGED tables

UpdateBegin(t, i, p) == LockRow(t, i, TRUE, [pc |-> "update", p |-> p])

DeleteBegin(t, i, p) == LockRow(t, i, TRUE, [pc |-> "delete", p |-> p])

RestoreBegin(t, i, p) == LockRow(t, i, FALSE, [pc |-> "restore", p |-> p])

\* The row UpdateInsight wants: absent fields are kept.
PatchedRow(p, x) ==
    LET given(field, old) == IF field = {} THEN old ELSE CHOOSE v \in field : TRUE
    IN  [x EXCEPT !.body = [content |-> given(p.content, x.body.content),
                            tags    |-> given(p.tags, x.body.tags),
                            class   |-> x.body.class]]

\* UpdateInsight: links are synced only when a content is given.
UpdateInsight(t) ==
    LET p == tx[t].p
        x == tx[t].current
        y == PatchedRow(p, x)
    IN  /\ tx[t].pc = "update"
        /\ Expected(p.expected, x)
        /\ \/ y = x /\ UNCHANGED <<insights, history>>
           \/ y # x /\ Change(x, y, "update")
        /\ IF p.content = {} THEN links' = links ELSE SyncInsightContent(y)
        /\ Goto(t, Idle)

\* DeleteInsight: a soft deletion, recorded as a revision; links stay.
DeleteInsight(t) ==
    LET x == tx[t].current
    IN  /\ tx[t].pc = "delete"
        /\ Expected(tx[t].p.expected, x)
        /\ Change(x, [x EXCEPT !.deleted = TRUE], "delete")
        /\ Goto(t, Idle)
        /\ UNCHANGED links

\* The state a restore writes.
RestoredRow(x, h) == [x EXCEPT !.key = h.key, !.body = h.body, !.deleted = FALSE]

\* The snapshot a restore copies.
RestoreTarget(x, n) == {h \in history : h.insight_id = x.id /\ h.revision = n}

KeyTaken_Never(y) == FALSE

\* The unique index insights_project_key_live would be violated.
KeyTaken(y) == y.key # NoKey /\ \E z \in LiveByKey(y.key) : z.id # y.id

RestoreInsight(t) ==
    LET p == tx[t].p
        x == tx[t].current
    IN  /\ tx[t].pc = "restore"
        /\ Expected(p.expected, x)
        /\ \E h \in RestoreTarget(x, p.target) :
              LET y == RestoredRow(x, h)
              IN  \/ y = x /\ Resync(x)
                  \/ /\ y # x
                     /\ ~KeyTaken(y)
                     /\ Change(x, y, "restore")
                     /\ SyncInsightContent(y)
        /\ Goto(t, Idle)

\* The UPDATE of the row x fails: no row matches, or revision + 1 is out of
\* the column's range.
UpdateFails(x) == UpdateTarget(x) = {} \/ x.revision = MaxRevision

\* The call returns an error and changes nothing: a revision conflict, an
\* UPDATE that fails, a restore target that does not exist, or a key conflict.
Refused(t) ==
    LET p == tx[t].p
        x == tx[t].current
    IN  /\ \/ /\ tx[t].pc \in {"write", "update", "delete", "restore"}
              /\ ~Expected(p.expected, x)
           \/ tx[t].pc = "write" /\ WrittenRow(p, x) # x /\ UpdateFails(x)
           \/ tx[t].pc = "update" /\ PatchedRow(p, x) # x /\ UpdateFails(x)
           \/ tx[t].pc = "delete" /\ UpdateFails(x)
           \/ /\ tx[t].pc = "restore"
              /\ \A h \in RestoreTarget(x, p.target) :
                    LET y == RestoredRow(x, h)
                    IN  y # x /\ (KeyTaken(y) \/ UpdateFails(x))
        /\ Goto(t, Idle)
        /\ UNCHANGED tables

\* A statement fails, the request is cancelled or the process stops: the
\* database rolls the transaction back and releases its lock.
Rollback(t) ==
    /\ tx[t].pc # "idle"
    /\ Goto(t, Idle)
    /\ UNCHANGED tables

-----------------------------------------------------------------------------
(* The specification *)

\* The rows a project may hold when migration 19 takes their snapshots.
Baseline ==
    {R \in SUBSET {x \in Insight : x.revision = 1} :
        \A x, y \in R : \/ x = y
                        \/ /\ x.id # y.id
                           /\ x.key = y.key /\ x.key # NoKey => x.deleted \/ y.deleted}

\* Links exist for the rows written since migration 17 and for no others.
Init ==
    /\ insights \in Baseline
    /\ history = {Snapshot(x, "baseline") : x \in insights}
    /\ \E synced \in SUBSET insights :
          links = UNION {{[source |-> x.id, target |-> k] : k \in Desired(x)} :
                            x \in synced}
    /\ tx = [t \in Tx |-> Idle]

Begin(t) ==
    \/ \E p \in WriteParams : WriteBegin(t, p)
    \/ \E i \in Id, p \in UpdateParams : UpdateBegin(t, i, p)
    \/ \E i \in Id, p \in DeleteParams : DeleteBegin(t, i, p)
    \/ \E i \in Id, p \in RestoreParams : RestoreBegin(t, i, p)

\* What the handler and the database go on to do by themselves.
Proceed(t) ==
    \/ SelectByKey(t)
    \/ SelectByKeyMisses(t)
    \/ WaitEnds(t)
    \/ CreateInsight(t)
    \/ CreateConflict(t)
    \/ UpdateByKey(t)
    \/ UpdateInsight(t)
    \/ DeleteInsight(t)
    \/ RestoreInsight(t)
    \/ Refused(t)

Next == \E t \in Tx : Begin(t) \/ Proceed(t) \/ Rollback(t)

Spec == Init /\ [][Next]_vars

-----------------------------------------------------------------------------
(* Properties *)

SnapshotsOf(x) == {h \in history : h.insight_id = x.id}

\* The ledger is complete: an insight has exactly one snapshot of each of its
\* revisions, and the newest one is the row as it stands, whatever concurrent
\* writes, no-ops, deletions and restores went before.
HistoryComplete ==
    \A x \in insights :
        /\ {h.revision : h \in SnapshotsOf(x)} = 1 .. x.revision
        /\ \A g, h \in SnapshotsOf(x) : g.revision = h.revision => g = h
        /\ \E h \in SnapshotsOf(x) : h = Snapshot(x, h.operation)

\* A key names at most one live insight, also when a restore brings a deleted
\* insight back while other transactions create and write under its key.
OneLiveInsightPerKey ==
    \A x, y \in insights :
        x.key = y.key /\ x.key # NoKey /\ ~x.deleted /\ ~y.deleted => x = y

\* The stored links are those of the row's present content and key.  Only a
\* row whose content has not been written since its baseline may have none.
LinksFollowContent ==
    \A x \in insights :
        LET stored == {l.target : l \in {m \in links : m.source = x.id}}
        IN  \/ stored = Desired(x)
            \/ /\ stored = {}
               /\ \E h \in SnapshotsOf(x) : h.operation = "baseline"
               /\ \A h \in SnapshotsOf(x) :
                     h.operation # "restore" /\ h.body.content = x.body.content

\* Optimistic concurrency: a call that names the revision it expects changes
\* the insight only from that very revision (0: only by creating it), however
\* many transactions raced between its SELECT, its lock and its commit.
ExpectedRevisionHonoured ==
    [][\A t \in Tx : tx[t].pc # "idle" /\ tx'[t].pc = "idle" =>
          \A e \in tx[t].p.expected, h \in history' \ history : h.revision = e + 1]_vars

Ledger == INSTANCE InsightLedger WITH ledger <- history

\* The tables implement the ledger: each commit appends one legal snapshot of
\* one insight, or none, and snapshots are never rewritten, removed or reused.
ImplementsLedger == Ledger!Spec

\* WriteInsight's comment promises that a keyed write updates the live insight
\* with that key or else inserts a new row: a write looks a second time only
\* while such a row exists.
KeyedWriteLands ==
    \A t \in Tx : tx[t].pc = "reselect" => LiveByKey(tx[t].p.key) # {}
=============================================================================

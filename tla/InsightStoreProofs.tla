------------------------ MODULE InsightStoreProofs --------------------------
(***************************************************************************)
(* Safety of the insight transactions for any number of transactions,      *)
(* insights, keys and contents, and that they implement InsightLedger.     *)
(*                                                                         *)
(* The proof goes through three kinds of step: a transaction moves on and  *)
(* leaves rows and history alone (Moves), creates an insight (Creates), or *)
(* commits a change of the row it has locked (Changes).                    *)
(***************************************************************************)
EXTENDS InsightStore, TLAPS

-----------------------------------------------------------------------------
(* The inductive invariant *)

\* Places where a transaction holds a row lock.
Holds == {"write", "update", "delete", "restore"}

UniqueIds == \A x, y \in insights : x.id = y.id => x = y

\* The snapshots of an insight are its revisions, one each, and the newest is
\* the row.
HistorySound ==
    /\ \A h \in history :
          \E x \in insights : x.id = h.insight_id /\ h.revision <= x.revision
    /\ \A x \in insights : \E h \in history : h = Snapshot(x, h.operation)
    /\ \A x \in insights : \A n \in 1 .. x.revision :
          \E h \in history : h.insight_id = x.id /\ h.revision = n
    /\ \A g, h \in history :
          g.insight_id = h.insight_id /\ g.revision = h.revision => g = h

\* What the transaction t may be when the others are as they are: a locked row
\* is the present one, is held by nobody else and is live unless it is to be
\* restored; an INSERT is tried only where no revision is expected.
TxSound(t, s) ==
    /\ s.pc \in Holds =>
          /\ s.current \in insights
          /\ s.pc # "restore" => ~s.current.deleted
          /\ \A u \in Tx : u # t /\ tx[u].pc \in Holds =>
                tx[u].current.id # s.current.id
    /\ s.pc = "insert" => s.p.expected \subseteq {0}

HoldersSound == \A t \in Tx : TxSound(t, tx[t])

SInv == TypeOK /\ UniqueIds /\ OneLiveInsightPerKey /\ HistorySound /\ HoldersSound

-----------------------------------------------------------------------------
(* The kinds of step *)

\* No live insight but i has the key k.
KeyFree(k, i) ==
    k # NoKey => \A y \in insights : y.key = k /\ ~y.deleted => y.id = i

Moves(t) ==
    /\ UNCHANGED <<insights, history>>
    /\ \E s \in Transaction : Goto(t, s) /\ TxSound(t, s)

Creates(t, x) ==
    /\ tx[t].pc = "insert"
    /\ x \in Insight /\ x.revision = 1 /\ ~x.deleted
    /\ \A y \in insights : y.id # x.id
    /\ KeyFree(x.key, x.id)
    /\ insights' = insights \cup {x}
    /\ history' = history \cup {Snapshot(x, "create")}
    /\ Goto(t, Idle)

\* The change from x to z is legal for its operation.
Legal(x, z, operation) ==
    \/ operation = "update" /\ ~x.deleted /\ ~z.deleted /\ z.key = x.key
    \/ operation = "delete" /\ ~x.deleted /\ z.deleted /\ z.key = x.key /\ z.body = x.body
    \/ /\ operation = "restore" /\ ~z.deleted
       /\ KeyFree(z.key, x.id)
       /\ \E h \in history : h.insight_id = x.id /\ z.key = h.key /\ z.body = h.body

Changes(t, x, z, operation) ==
    /\ tx[t].pc \in Holds
    /\ x = tx[t].current /\ x \in insights
    /\ \A e \in tx[t].p.expected : e = x.revision
    /\ z \in Insight /\ z.id = x.id /\ z.revision = x.revision + 1
    /\ Legal(x, z, operation)
    /\ insights' = (insights \ {x}) \cup {z}
    /\ history' = history \cup {Snapshot(z, operation)}
    /\ Goto(t, Idle)

\* Every step of a transaction is one of the three.
StepKind ==
    \/ \E t \in Tx : Moves(t)
    \/ \E t \in Tx, x \in Insight : Creates(t, x)
    \/ \E t \in Tx, x, z \in Insight, operation \in Operation :
          Changes(t, x, z, operation)

-----------------------------------------------------------------------------
(* Types *)

\* The record a transaction at a given place consists of.
LEMMA TxFields ==
    ASSUME TypeOK, NEW t \in Tx
    PROVE  /\ tx[t] \in Transaction
           /\ tx[t].pc \in {"select", "insert", "reselect", "wait", "write"} =>
                  tx[t].p \in WriteParams
           /\ tx[t].pc = "wait" => tx[t].id \in Id /\ tx[t].again \in BOOLEAN
           /\ tx[t].pc \in Holds => tx[t].current \in Insight
           /\ tx[t].pc = "update" => tx[t].p \in UpdateParams
           /\ tx[t].pc = "delete" => tx[t].p \in DeleteParams
           /\ tx[t].pc = "restore" => tx[t].p \in RestoreParams
  BY DEF TypeOK, Transaction, Holds

\* The places transactions move to are well typed.
LEMMA TxStates ==
    /\ Idle \in Transaction
    /\ \A p \in WriteParams :
          /\ [pc |-> "select", p |-> p] \in Transaction
          /\ [pc |-> "insert", p |-> p] \in Transaction
          /\ [pc |-> "reselect", p |-> p] \in Transaction
    /\ \A p \in WriteParams, i \in Id, b \in BOOLEAN :
          [pc |-> "wait", p |-> p, id |-> i, again |-> b] \in Transaction
    /\ \A p \in WriteParams, x \in Insight :
          [pc |-> "write", p |-> p, current |-> x] \in Transaction
    /\ \A p \in UpdateParams, x \in Insight :
          [pc |-> "update", p |-> p, current |-> x] \in Transaction
    /\ \A p \in DeleteParams, x \in Insight :
          [pc |-> "delete", p |-> p, current |-> x] \in Transaction
    /\ \A p \in RestoreParams, x \in Insight :
          [pc |-> "restore", p |-> p, current |-> x] \in Transaction
  BY DEF Transaction, Idle

\* A snapshot of a row is a row of insight_revisions.
LEMMA SnapshotTyped ==
    ASSUME NEW x \in Insight, NEW operation \in Operation
    PROVE  Snapshot(x, operation) \in Revision
  BY DEF Snapshot, Insight, Revision

\* Syncing the links of a row keeps the link table well typed.
LEMMA SyncTyped ==
    ASSUME TypeOK, NEW x \in Insight, SyncInsightContent(x)
    PROVE  links' \subseteq Link
  <1>1. Desired(x) \subseteq Key
    BY TargetsAssumption DEF Desired, Insight, Body
  <1>2. x.id \in Id
    BY DEF Insight
  <1>3. QED
    BY <1>1, <1>2 DEF SyncInsightContent, TypeOK, Link

-----------------------------------------------------------------------------
(* Every step is of one of the three kinds *)

\* An end without a change is a move.
LEMMA EndMoves ==
    ASSUME SInv, NEW t \in Tx, Goto(t, Idle), UNCHANGED <<insights, history>>
    PROVE  Moves(t)
  <1>1. TxSound(t, Idle)
    BY DEF TxSound, Idle, Holds
  <1>2. QED
    BY <1>1, TxStates DEF Moves

\* A transaction that has not locked a row, and does not INSERT, is sound.
LEMMA PlainMoves ==
    ASSUME SInv, NEW t \in Tx, NEW s \in Transaction, Goto(t, s),
           UNCHANGED <<insights, history>>, s.pc \notin Holds,
           s.pc = "insert" => s.p.expected \subseteq {0}
    PROVE  Moves(t)
  BY DEF Moves, TxSound

\* Locking a free row is sound.
LEMMA LockMoves ==
    ASSUME SInv, NEW t \in Tx, NEW s \in Transaction, Goto(t, s),
           UNCHANGED <<insights, history>>, s.pc \in Holds,
           s.current \in insights, ~Locked(s.current.id),
           s.pc # "restore" => ~s.current.deleted
    PROVE  Moves(t)
  BY DEF Moves, TxSound, Locked, Holds

\* The statement that changes the row x into y is a change of x.
LEMMA ChangeKind ==
    ASSUME SInv, NEW t \in Tx, tx[t].pc \in Holds,
           NEW x, x = tx[t].current, NEW y \in Insight, y.id = x.id,
           NEW operation \in Operation, Change(x, y, operation),
           Expected(tx[t].p.expected, x), Legal(x, y, operation), Goto(t, Idle)
    PROVE  StepKind
  <1> DEFINE z == [y EXCEPT !.revision = x.revision + 1]
  <1>1. x \in insights /\ x \in Insight
    BY DEF SInv, HoldersSound, TxSound, TypeOK
  <1>2. x.revision \in 1 .. MaxRevision /\ x.revision < MaxRevision
    BY <1>1 DEF Change, Insight
  <1>3. z \in Insight /\ z.id = x.id /\ z.revision = x.revision + 1
    BY <1>2, MaxRevisionAssumption DEF Insight
  <1>4. z.key = y.key /\ z.body = y.body /\ z.deleted = y.deleted
    BY DEF Insight
  <1>5. Legal(x, z, operation)
    BY <1>4 DEF Legal
  <1>6. UpdateTarget(x) = {x}
    BY <1>1 DEF UpdateTarget, SInv, UniqueIds
  <1>7. /\ insights' = (insights \ {x}) \cup {z}
        /\ history' = history \cup {Snapshot(z, operation)}
    BY <1>6 DEF Change
  <1>8. Changes(t, x, z, operation)
    BY <1>1, <1>3, <1>5, <1>7 DEF Changes, Expected
  <1>9. QED
    BY <1>1, <1>3, <1>8 DEF StepKind

\* WriteInsight up to its lock or its INSERT.
LEMMA WriteKinds ==
    ASSUME SInv, NEW t \in Tx
    PROVE  /\ \A p \in WriteParams : WriteBegin(t, p) => Moves(t)
           /\ SelectByKey(t) => Moves(t)
           /\ SelectByKeyMisses(t) => Moves(t)
           /\ WaitEnds(t) => Moves(t)
           /\ CreateConflict(t) => Moves(t)
  <1> USE TxFields, TxStates
  <1>0. TypeOK
    BY DEF SInv
  <1>a. ASSUME NEW p \in WriteParams, p.expected \cap 1 .. MaxRevision = {}
        PROVE  p.expected \subseteq {0}
    BY <1>a, MaxRevisionAssumption, ExpectableAssumption DEF WriteParams, Optional
  <1>b. ASSUME NEW p \in WriteParams, NEW again,
               Goto(t, KeyNotFound(p, again)), UNCHANGED <<insights, history>>
        PROVE  Moves(t)
    <2>1. CASE again \/ p.expected \cap 1 .. MaxRevision # {}
      BY <1>b, <2>1, EndMoves DEF KeyNotFound
    <2>2. CASE ~(again \/ p.expected \cap 1 .. MaxRevision # {})
      <3>1. Goto(t, [pc |-> "insert", p |-> p]) /\ p.expected \subseteq {0}
        BY <1>a, <1>b, <2>2 DEF KeyNotFound
      <3>2. QED
        BY <1>b, <3>1, PlainMoves DEF Holds
    <2>3. QED
      BY <2>1, <2>2
  <1>1. ASSUME NEW p \in WriteParams, WriteBegin(t, p) PROVE Moves(t)
    <2>1. CASE p.key = NoKey
      <3>1. Goto(t, [pc |-> "insert", p |-> p]) /\ p.expected \subseteq {0}
        BY <1>1, <2>1 DEF WriteBegin
      <3>2. QED
        BY <1>1, <3>1, PlainMoves DEF WriteBegin, tables, Holds
    <2>2. CASE p.key # NoKey
      <3>1. Goto(t, [pc |-> "select", p |-> p])
        BY <1>1, <2>2 DEF WriteBegin
      <3>2. QED
        BY <1>1, <3>1, PlainMoves DEF WriteBegin, tables, Holds
    <2>3. QED
      BY <2>1, <2>2
  <1>2. ASSUME SelectByKey(t) PROVE Moves(t)
    <2>1. PICK x \in LiveByKey(tx[t].p.key) :
             Goto(t, IF Locked(x.id)
                     THEN [pc |-> "wait", p |-> tx[t].p, id |-> x.id,
                           again |-> tx[t].pc = "reselect"]
                     ELSE [pc |-> "write", p |-> tx[t].p, current |-> x])
      BY <1>2 DEF SelectByKey
    <2>2. /\ x \in insights /\ x \in Insight /\ ~x.deleted /\ x.id \in Id
          /\ tx[t].p \in WriteParams
      BY <1>0, <1>2, <2>1 DEF LiveByKey, TypeOK, Insight, SelectByKey
    <2>3. UNCHANGED <<insights, history>>
      BY <1>2 DEF SelectByKey, tables
    <2>4. CASE Locked(x.id)
      <3>1. Goto(t, [pc |-> "wait", p |-> tx[t].p, id |-> x.id,
                     again |-> tx[t].pc = "reselect"])
        BY <2>1, <2>4
      <3>2. QED
        BY <2>2, <2>3, <3>1, PlainMoves DEF Holds
    <2>5. CASE ~Locked(x.id)
      <3>1. Goto(t, [pc |-> "write", p |-> tx[t].p, current |-> x])
        BY <2>1, <2>5
      <3>2. QED
        BY <2>2, <2>3, <2>5, <3>1, LockMoves DEF Holds
    <2>6. QED
      BY <2>4, <2>5
  <1>3. ASSUME SelectByKeyMisses(t) PROVE Moves(t)
    BY <1>0, <1>3, <1>b DEF SelectByKeyMisses, tables
  <1>4. ASSUME WaitEnds(t) PROVE Moves(t)
    <2>1. tx[t].p \in WriteParams /\ UNCHANGED <<insights, history>>
      BY <1>0, <1>4 DEF WaitEnds, tables
    <2>2. CASE Goto(t, KeyNotFound(tx[t].p, tx[t].again))
      BY <1>b, <2>1, <2>2
    <2>3. ASSUME NEW x \in LiveByKey(tx[t].p.key), x.id = tx[t].id,
                 Goto(t, [pc |-> "write", p |-> tx[t].p, current |-> x])
          PROVE  Moves(t)
      <3>1. x \in insights /\ x \in Insight /\ ~x.deleted
        BY <1>0, <2>3 DEF LiveByKey, TypeOK
      <3>2. ~Locked(x.id)
        BY <1>4, <2>3 DEF WaitEnds
      <3>3. QED
        BY <2>1, <2>3, <3>1, <3>2, LockMoves DEF Holds
    <2>4. QED
      BY <1>4, <2>2, <2>3 DEF WaitEnds
  <1>5. ASSUME CreateConflict(t) PROVE Moves(t)
    BY <1>0, <1>5, PlainMoves DEF CreateConflict, tables, Holds
  <1>6. QED
    BY <1>1, <1>2, <1>3, <1>4, <1>5

\* The beginnings of the other calls lock a row.
LEMMA BeginKinds ==
    ASSUME SInv, NEW t \in Tx, NEW i \in Id
    PROVE  /\ \A p \in UpdateParams : UpdateBegin(t, i, p) => Moves(t)
           /\ \A p \in DeleteParams : DeleteBegin(t, i, p) => Moves(t)
           /\ \A p \in RestoreParams : RestoreBegin(t, i, p) => Moves(t)
  <1> USE TxStates
  <1>0. insights \subseteq Insight
    BY DEF SInv, TypeOK
  <1>1. ASSUME NEW p \in UpdateParams, UpdateBegin(t, i, p) PROVE Moves(t)
    <2>1. PICK x \in insights :
             /\ x.id = i /\ ~x.deleted
             /\ Goto(t, [pc |-> "update", p |-> p, current |-> x])
      BY <1>1 DEF UpdateBegin, LockRow
    <2>2. ~Locked(x.id) /\ UNCHANGED <<insights, history>>
      BY <1>1, <2>1 DEF UpdateBegin, LockRow, tables
    <2>3. QED
      BY <1>0, <2>1, <2>2, LockMoves DEF Holds
  <1>2. ASSUME NEW p \in DeleteParams, DeleteBegin(t, i, p) PROVE Moves(t)
    <2>1. PICK x \in insights :
             /\ x.id = i /\ ~x.deleted
             /\ Goto(t, [pc |-> "delete", p |-> p, current |-> x])
      BY <1>2 DEF DeleteBegin, LockRow
    <2>2. ~Locked(x.id) /\ UNCHANGED <<insights, history>>
      BY <1>2, <2>1 DEF DeleteBegin, LockRow, tables
    <2>3. QED
      BY <1>0, <2>1, <2>2, LockMoves DEF Holds
  <1>3. ASSUME NEW p \in RestoreParams, RestoreBegin(t, i, p) PROVE Moves(t)
    <2>1. PICK x \in insights :
             x.id = i /\ Goto(t, [pc |-> "restore", p |-> p, current |-> x])
      BY <1>3 DEF RestoreBegin, LockRow
    <2>2. ~Locked(x.id) /\ UNCHANGED <<insights, history>>
      BY <1>3, <2>1 DEF RestoreBegin, LockRow, tables
    <2>3. QED
      BY <1>0, <2>1, <2>2, LockMoves DEF Holds
  <1>4. QED
    BY <1>1, <1>2, <1>3

\* createInsightTx adds a row with a fresh id and a free key.
LEMMA CreateKind ==
    ASSUME SInv, NEW t \in Tx, CreateInsight(t)
    PROVE  StepKind /\ links' \subseteq Link
  <1>1. TypeOK /\ tx[t].pc = "insert" /\ tx[t].p \in WriteParams
    BY TxFields DEF SInv, CreateInsight
  <1>2. PICK i \in Id :
           LET x == [id |-> i, key |-> tx[t].p.key, body |-> tx[t].p.body,
                     deleted |-> FALSE, revision |-> 1]
           IN  /\ \A y \in insights : y.id # i
               /\ insights' = insights \cup {x}
               /\ history' = history \cup {Snapshot(x, "create")}
               /\ SyncInsightContent(x)
    BY DEF CreateInsight
  <1> DEFINE x == [id |-> i, key |-> tx[t].p.key, body |-> tx[t].p.body,
                   deleted |-> FALSE, revision |-> 1]
  <1>3. x \in Insight
    BY <1>1, MaxRevisionAssumption DEF Insight, WriteParams
  <1>4. KeyFree(x.key, x.id)
    BY DEF CreateInsight, LiveByKey, KeyFree
  <1>5. Creates(t, x)
    BY <1>1, <1>2, <1>3, <1>4 DEF Creates, CreateInsight
  <1>6. links' \subseteq Link
    BY <1>1, <1>2, <1>3, SyncTyped
  <1>7. QED
    BY <1>3, <1>5, <1>6 DEF StepKind

\* updateInsightByKeyTx is a no-op or a legal update.
LEMMA UpdateByKeyKind ==
    ASSUME SInv, NEW t \in Tx, UpdateByKey(t)
    PROVE  StepKind /\ links' \subseteq Link
  <1> DEFINE p == tx[t].p
             x == tx[t].current
             y == WrittenRow(p, x)
  <1>1. TypeOK /\ p \in WriteParams /\ x \in Insight /\ x \in insights /\ ~x.deleted
    BY TxFields DEF SInv, UpdateByKey, HoldersSound, TxSound, Holds
  <1>2. y \in Insight /\ y.id = x.id /\ y.key = x.key /\ y.deleted = x.deleted
    BY <1>1 DEF WrittenRow, Insight, WriteParams
  <1>3. CASE y = x /\ Resync(x)
    <2>1. StepKind
      BY <1>3, EndMoves DEF UpdateByKey, Resync, StepKind
    <2>2. SyncInsightContent(x)
      BY <1>3 DEF Resync
    <2>3. QED
      BY <1>1, <2>1, <2>2, SyncTyped
  <1>4. CASE Change(x, y, "update") /\ SyncInsightContent(y)
    <2>1. Legal(x, y, "update")
      BY <1>1, <1>2 DEF Legal
    <2>2. StepKind
      BY <1>2, <1>4, <2>1, ChangeKind DEF UpdateByKey, Holds, Operation
    <2>3. QED
      BY <1>1, <1>2, <1>4, <2>2, SyncTyped
  <1>5. QED
    BY <1>3, <1>4 DEF UpdateByKey

\* The row UpdateInsight wants has its type, and keeps a content not given.
LEMMA PatchTyped ==
    ASSUME NEW p \in UpdateParams, NEW x \in Insight
    PROVE  /\ PatchedRow(p, x) \in Insight
           /\ PatchedRow(p, x).id = x.id
           /\ PatchedRow(p, x).key = x.key
           /\ PatchedRow(p, x).deleted = x.deleted
           /\ p.content = {} => PatchedRow(p, x).body.content = x.body.content
  <1> DEFINE c == IF p.content = {} THEN x.body.content ELSE CHOOSE d \in p.content : TRUE
             g == IF p.tags = {} THEN x.body.tags ELSE CHOOSE d \in p.tags : TRUE
             y == PatchedRow(p, x)
  <1>1. x.body \in Body
    BY DEF Insight
  <1>2. c \in Content
    BY <1>1 DEF UpdateParams, Optional, Body
  <1>3. g \in Tags
    BY <1>1 DEF UpdateParams, Optional, Body
  <1>4. y = [x EXCEPT !.body = [content |-> c, tags |-> g, class |-> x.body.class]]
    BY <1>1 DEF PatchedRow, Insight, Body
  <1>5. [content |-> c, tags |-> g, class |-> x.body.class] \in Body
    BY <1>1, <1>2, <1>3 DEF Body
  <1>6. p.content = {} => c = x.body.content
    OBVIOUS
  <1> HIDE DEF c, g, y
  <1>7. y \in Insight /\ y.id = x.id /\ y.key = x.key /\ y.deleted = x.deleted
    BY <1>4, <1>5 DEF Insight
  <1>8. y.body.content = c
    BY <1>4 DEF Insight
  <1>9. QED
    BY <1>6, <1>7, <1>8 DEF y

\* UpdateInsight is a no-op or a legal update.
LEMMA UpdateInsightKind ==
    ASSUME SInv, NEW t \in Tx, UpdateInsight(t)
    PROVE  StepKind /\ links' \subseteq Link
  <1> DEFINE p == tx[t].p
             x == tx[t].current
             y == PatchedRow(p, x)
  <1>1. TypeOK /\ p \in UpdateParams /\ x \in Insight /\ x \in insights /\ ~x.deleted
    BY TxFields DEF SInv, UpdateInsight, HoldersSound, TxSound, Holds
  <1>2. y \in Insight /\ y.id = x.id /\ y.key = x.key /\ y.deleted = x.deleted
    BY <1>1, PatchTyped
  <1>3. links' \subseteq Link
    BY <1>1, <1>2, SyncTyped DEF UpdateInsight, TypeOK
  <1>4. CASE UNCHANGED <<insights, history>>
    BY <1>3, <1>4, EndMoves DEF UpdateInsight, StepKind
  <1>5. CASE Change(x, y, "update")
    <2>1. Legal(x, y, "update")
      BY <1>1, <1>2 DEF Legal
    <2>2. StepKind
      BY <1>2, <1>5, <2>1, ChangeKind DEF UpdateInsight, Holds, Operation
    <2>3. QED
      BY <1>3, <2>2
  <1>6. QED
    BY <1>4, <1>5 DEF UpdateInsight

\* DeleteInsight is a legal deletion.
LEMMA DeleteInsightKind ==
    ASSUME SInv, NEW t \in Tx, DeleteInsight(t)
    PROVE  StepKind /\ links' \subseteq Link
  <1> DEFINE x == tx[t].current
             y == [x EXCEPT !.deleted = TRUE]
  <1>1. TypeOK /\ x \in Insight /\ ~x.deleted
    BY TxFields DEF SInv, DeleteInsight, HoldersSound, TxSound, Holds
  <1>2. y \in Insight /\ y.id = x.id /\ y.key = x.key /\ y.body = x.body /\ y.deleted
    BY <1>1 DEF Insight
  <1>3. Legal(x, y, "delete")
    BY <1>1, <1>2 DEF Legal
  <1>4. StepKind
    BY <1>2, <1>3, ChangeKind DEF DeleteInsight, Holds, Operation
  <1>5. QED
    BY <1>1, <1>4 DEF DeleteInsight, TypeOK

\* RestoreInsight is a no-op or a legal restore.
LEMMA RestoreInsightKind ==
    ASSUME SInv, NEW t \in Tx, RestoreInsight(t)
    PROVE  StepKind /\ links' \subseteq Link
  <1> DEFINE p == tx[t].p
             x == tx[t].current
  <1>1. TypeOK /\ x \in Insight
    BY TxFields DEF SInv, RestoreInsight, Holds
  <1>2. PICK h \in RestoreTarget(x, p.target) :
           \/ RestoredRow(x, h) = x /\ Resync(x)
           \/ /\ ~KeyTaken(RestoredRow(x, h))
              /\ Change(x, RestoredRow(x, h), "restore")
              /\ SyncInsightContent(RestoredRow(x, h))
    BY DEF RestoreInsight
  <1> DEFINE y == RestoredRow(x, h)
  <1>3. h \in history /\ h \in Revision /\ h.insight_id = x.id
    BY <1>1, <1>2 DEF RestoreTarget, TypeOK
  <1>4. /\ y \in Insight /\ y.id = x.id /\ ~y.deleted
        /\ y.key = h.key /\ y.body = h.body
    BY <1>1, <1>3 DEF RestoredRow, Insight, Revision
  <1>5. CASE Resync(x)
    <2>1. StepKind
      BY <1>5, EndMoves DEF RestoreInsight, Resync, StepKind
    <2>2. QED
      BY <1>1, <1>5, <2>1, SyncTyped DEF Resync
  <1>6. CASE ~KeyTaken(y) /\ Change(x, y, "restore") /\ SyncInsightContent(y)
    <2>1. KeyFree(y.key, x.id)
      BY <1>4, <1>6 DEF KeyTaken, KeyFree, LiveByKey
    <2>2. Legal(x, y, "restore")
      BY <1>3, <1>4, <2>1 DEF Legal
    <2>3. StepKind
      BY <1>4, <1>6, <2>2, ChangeKind DEF RestoreInsight, Holds, Operation
    <2>4. QED
      BY <1>1, <1>4, <1>6, <2>3, SyncTyped
  <1>7. QED
    BY <1>2, <1>5, <1>6

\* Every step is of one of the three kinds and keeps the links well typed.
LEMMA Kinds == ASSUME SInv, Next PROVE StepKind /\ links' \subseteq Link
  <1>1. PICK t \in Tx : Begin(t) \/ Proceed(t) \/ Rollback(t)
    BY DEF Next
  <1>2. links \subseteq Link
    BY DEF SInv, TypeOK
  <1>3. ASSUME Begin(t) PROVE Moves(t) /\ links' = links
    <2>1. CASE \E p \in WriteParams : WriteBegin(t, p)
      BY <2>1, WriteKinds DEF WriteBegin, tables
    <2>2. CASE \E i \in Id, p \in UpdateParams : UpdateBegin(t, i, p)
      BY <2>2, BeginKinds DEF UpdateBegin, LockRow, tables
    <2>3. CASE \E i \in Id, p \in DeleteParams : DeleteBegin(t, i, p)
      BY <2>3, BeginKinds DEF DeleteBegin, LockRow, tables
    <2>4. CASE \E i \in Id, p \in RestoreParams : RestoreBegin(t, i, p)
      BY <2>4, BeginKinds DEF RestoreBegin, LockRow, tables
    <2>5. QED
      BY <1>3, <2>1, <2>2, <2>3, <2>4 DEF Begin
  <1>4. CASE SelectByKey(t) \/ SelectByKeyMisses(t) \/ WaitEnds(t) \/ CreateConflict(t)
    <2>1. links' = links
      BY <1>4 DEF SelectByKey, SelectByKeyMisses, WaitEnds, CreateConflict, tables
    <2>2. QED
      BY <1>2, <1>4, <2>1, WriteKinds DEF StepKind
  <1>5. CASE Refused(t) \/ Rollback(t)
    BY <1>2, <1>5, EndMoves DEF Refused, Rollback, tables, StepKind
  <1>6. QED
    BY <1>1, <1>2, <1>3, <1>4, <1>5, CreateKind, UpdateByKeyKind,
       UpdateInsightKind, DeleteInsightKind, RestoreInsightKind
    DEF Proceed, StepKind

-----------------------------------------------------------------------------
(* The invariant is inductive *)

\* Where one transaction goes, the others stay.
LEMMA GotoOthers ==
    ASSUME TypeOK, NEW t \in Tx, NEW s \in Transaction, Goto(t, s)
    PROVE  /\ tx' \in [Tx -> Transaction]
           /\ tx'[t] = s
           /\ \A u \in Tx : u # t => tx'[u] = tx[u]
  BY DEF TypeOK, Goto

\* A move keeps the invariant.
LEMMA MovesPreserve ==
    ASSUME SInv, NEW t \in Tx, Moves(t), links' \subseteq Link
    PROVE  SInv'
  <1>1. PICK s \in Transaction : Goto(t, s) /\ TxSound(t, s)
    BY DEF Moves
  <1>2. insights' = insights /\ history' = history
    BY DEF Moves
  <1>3. /\ tx' \in [Tx -> Transaction] /\ tx'[t] = s
        /\ \A u \in Tx : u # t => tx'[u] = tx[u]
    BY <1>1, GotoOthers DEF SInv
  <1>4. TypeOK'
    BY <1>2, <1>3 DEF SInv, TypeOK
  <1>5. ASSUME NEW u \in Tx PROVE TxSound(u, tx[u])'
    <2>1. CASE u = t
      BY <1>1, <1>2, <1>3, <2>1 DEF TxSound
    <2>2. CASE u # t
      <3>1. TxSound(u, tx[u])
        BY DEF SInv, HoldersSound
      <3>2. QED
        BY <1>1, <1>2, <1>3, <2>2, <3>1 DEF TxSound
    <2>3. QED
      BY <2>1, <2>2
  <1>6. UniqueIds' /\ OneLiveInsightPerKey'
    BY <1>2 DEF SInv, UniqueIds, OneLiveInsightPerKey
  <1>7. HistorySound'
    BY <1>2 DEF SInv, HistorySound, Snapshot
  <1>8. QED
    BY <1>4, <1>5, <1>6, <1>7 DEF SInv, HoldersSound

\* A new row with its first snapshot keeps the invariant.
LEMMA CreatesPreserve ==
    ASSUME SInv, NEW t \in Tx, NEW x \in Insight, Creates(t, x), links' \subseteq Link
    PROVE  SInv'
  <1>0. /\ insights' = insights \cup {x}
        /\ history' = history \cup {Snapshot(x, "create")}
        /\ x.revision = 1 /\ ~x.deleted
        /\ \A y \in insights : y.id # x.id
    BY DEF Creates
  <1>1. /\ tx' \in [Tx -> Transaction] /\ tx'[t] = Idle
        /\ \A u \in Tx : u # t => tx'[u] = tx[u]
    BY TxStates, GotoOthers DEF SInv, Creates
  <1>2. Snapshot(x, "create") \in Revision
    BY SnapshotTyped DEF Operation
  <1>3. TypeOK'
    BY <1>0, <1>1, <1>2 DEF SInv, TypeOK
  <1>4. UniqueIds'
    BY <1>0 DEF SInv, UniqueIds
  <1>5. OneLiveInsightPerKey'
    BY <1>0 DEF SInv, OneLiveInsightPerKey, Creates, KeyFree
  <1>6. HistorySound'
    <2> DEFINE h0 == Snapshot(x, "create")
    <2>0. /\ h0.insight_id = x.id /\ h0.revision = 1 /\ h0.operation = "create"
          /\ h0 \in history'
      BY <1>0 DEF Snapshot
    <2>1. \A h \in history : h.insight_id # x.id
      BY <1>0 DEF SInv, HistorySound
    <2>2. \A h \in history' :
             \E y \in insights' : y.id = h.insight_id /\ h.revision <= y.revision
      <3>1. TAKE h \in history'
      <3>2. CASE h \in history
        BY <1>0, <3>2 DEF SInv, HistorySound
      <3>3. CASE h = h0
        BY <1>0, <2>0, <3>3
      <3>4. QED
        BY <1>0, <3>1, <3>2, <3>3
    <2>3. \A y \in insights' : \E h \in history' : h = Snapshot(y, h.operation)
      BY <1>0, <2>0 DEF SInv, HistorySound
    <2>4. \A y \in insights' : \A n \in 1 .. y.revision :
             \E h \in history' : h.insight_id = y.id /\ h.revision = n
      <3>1. TAKE y \in insights'
      <3>2. TAKE n \in 1 .. y.revision
      <3>3. CASE y \in insights
        BY <1>0, <3>2, <3>3 DEF SInv, HistorySound
      <3>4. CASE y = x
        BY <1>0, <2>0, <3>2, <3>4
      <3>5. QED
        BY <1>0, <3>1, <3>3, <3>4
    <2>5. \A g, h \in history' :
             g.insight_id = h.insight_id /\ g.revision = h.revision => g = h
      BY <1>0, <2>0, <2>1 DEF SInv, HistorySound
    <2>6. QED
      BY <2>2, <2>3, <2>4, <2>5 DEF HistorySound, Snapshot
  <1>7. ASSUME NEW u \in Tx PROVE TxSound(u, tx[u])'
    <2>1. CASE u = t
      BY <1>1, <2>1 DEF TxSound, Idle, Holds
    <2>2. CASE u # t
      <3>1. TxSound(u, tx[u])
        BY DEF SInv, HoldersSound
      <3>2. QED
        BY <1>0, <1>1, <2>2, <3>1 DEF TxSound, Idle, Holds
    <2>3. QED
      BY <2>1, <2>2
  <1>8. QED
    BY <1>3, <1>4, <1>5, <1>6, <1>7 DEF SInv, HoldersSound

\* A change of the locked row, with its snapshot, keeps the invariant: nobody
\* else holds that row, so no other transaction keeps a stale copy.
LEMMA ChangesPreserve ==
    ASSUME SInv, NEW t \in Tx, NEW x \in Insight, NEW z \in Insight,
           NEW operation \in Operation, Changes(t, x, z, operation),
           links' \subseteq Link
    PROVE  SInv'
  <1> DEFINE h0 == Snapshot(z, operation)
  <1>0. /\ insights' = (insights \ {x}) \cup {z}
        /\ history' = history \cup {h0}
        /\ x \in insights /\ z.id = x.id /\ z.revision = x.revision + 1
        /\ x = tx[t].current /\ tx[t].pc \in Holds
    BY DEF Changes
  <1>1. /\ tx' \in [Tx -> Transaction] /\ tx'[t] = Idle
        /\ \A u \in Tx : u # t => tx'[u] = tx[u]
    BY TxStates, GotoOthers DEF SInv, Changes
  <1>2. /\ h0 \in Revision /\ h0.insight_id = x.id
        /\ h0.revision = x.revision + 1 /\ h0.operation = operation
    BY <1>0, SnapshotTyped DEF Snapshot
  <1>3. TypeOK'
    BY <1>0, <1>1, <1>2 DEF SInv, TypeOK
  <1>4. \A y \in insights : y.id = x.id => y = x
    BY <1>0 DEF SInv, UniqueIds
  <1>5. UniqueIds'
    BY <1>0, <1>4 DEF SInv, UniqueIds
  <1>6. ~z.deleted => KeyFree(z.key, x.id)
    BY <1>0 DEF Changes, Legal, KeyFree, SInv, OneLiveInsightPerKey
  <1>7. OneLiveInsightPerKey'
    BY <1>0, <1>4, <1>6 DEF KeyFree, SInv, OneLiveInsightPerKey
  <1>8. x.revision \in Nat /\ z.revision \in Nat
    BY <1>0 DEF Insight
  <1>9. HistorySound'
    <2>1. \A h \in history : h.insight_id = x.id => h.revision <= x.revision
      BY <1>0, <1>4 DEF SInv, HistorySound
    <2>2. \A h \in history :
             h \in Revision /\ (h.insight_id = x.id => h.revision <= z.revision)
      BY <1>0, <1>8, <2>1 DEF SInv, TypeOK, Revision
    <2>3. \A h \in history' :
             \E y \in insights' : y.id = h.insight_id /\ h.revision <= y.revision
      <3>1. TAKE h \in history'
      <3>2. CASE h.insight_id = x.id
        BY <1>0, <1>2, <1>8, <2>2, <3>1, <3>2
      <3>3. CASE h \in history /\ h.insight_id # x.id
        <4>1. PICK y \in insights : y.id = h.insight_id /\ h.revision <= y.revision
          BY <3>3 DEF SInv, HistorySound
        <4>2. QED
          BY <1>0, <3>3, <4>1
      <3>4. QED
        BY <1>0, <1>2, <3>1, <3>2, <3>3
    <2>4. \A y \in insights' : \E h \in history' : h = Snapshot(y, h.operation)
      BY <1>0, <1>2 DEF SInv, HistorySound
    <2>5. \A y \in insights' : \A n \in 1 .. y.revision :
             \E h \in history' : h.insight_id = y.id /\ h.revision = n
      <3>1. TAKE y \in insights'
      <3>2. TAKE n \in 1 .. y.revision
      <3>3. CASE y \in insights
        BY <1>0, <3>2, <3>3 DEF SInv, HistorySound
      <3>4. CASE y = z /\ n = z.revision
        BY <1>0, <1>2, <3>4
      <3>5. CASE y = z /\ n # z.revision
        <4>1. n \in 1 .. x.revision
          BY <1>0, <1>8, <3>2, <3>5
        <4>2. PICK h \in history : h.insight_id = x.id /\ h.revision = n
          BY <1>0, <4>1 DEF SInv, HistorySound
        <4>3. QED
          BY <1>0, <3>5, <4>2
      <3>6. QED
        BY <1>0, <3>1, <3>3, <3>4, <3>5
    <2>6. \A g, h \in history' :
             g.insight_id = h.insight_id /\ g.revision = h.revision => g = h
      <3>1. \A h \in history : h.insight_id = x.id => h.revision # x.revision + 1
        BY <1>8, <2>1, <2>2 DEF Revision
      <3>2. QED
        BY <1>0, <1>2, <3>1 DEF SInv, HistorySound
    <2>7. QED
      BY <2>3, <2>4, <2>5, <2>6 DEF HistorySound, Snapshot
  <1>10. ASSUME NEW u \in Tx PROVE TxSound(u, tx[u])'
    <2>1. CASE u = t
      BY <1>1, <2>1 DEF TxSound, Idle, Holds
    <2>2. CASE u # t
      <3>1. TxSound(u, tx[u])
        BY DEF SInv, HoldersSound
      <3>2. tx[u].pc \in Holds => tx[u].current.id # x.id
        BY <1>0, <2>2, <3>1 DEF TxSound
      <3>3. QED
        BY <1>0, <1>1, <2>2, <3>1, <3>2 DEF TxSound, Idle, Holds
    <2>3. QED
      BY <2>1, <2>2
  <1>11. QED
    BY <1>3, <1>5, <1>7, <1>9, <1>10 DEF SInv, HoldersSound

\* The baseline satisfies the invariant.
LEMMA SInvInit == Init => SInv
  <1> SUFFICES ASSUME Init PROVE SInv
    OBVIOUS
  <1>1. /\ insights \subseteq Insight
        /\ \A x \in insights : x.revision = 1
        /\ \A x, y \in insights :
              \/ x = y
              \/ /\ x.id # y.id
                 /\ x.key = y.key /\ x.key # NoKey => x.deleted \/ y.deleted
    BY DEF Init, Baseline
  <1>2. history = {Snapshot(x, "baseline") : x \in insights}
    BY DEF Init
  <1>3. history \subseteq Revision
    BY <1>1, <1>2, SnapshotTyped DEF Operation
  <1>4. links \subseteq Link
    <2>1. \A x \in insights : x.id \in Id /\ Desired(x) \subseteq Key
      BY <1>1, TargetsAssumption DEF Desired, Insight, Body
    <2>2. QED
      BY <2>1 DEF Init, Link
  <1>5. tx = [t \in Tx |-> Idle]
    BY DEF Init
  <1>6. TypeOK
    BY <1>1, <1>3, <1>4, <1>5, TxStates DEF TypeOK
  <1>7. UniqueIds /\ OneLiveInsightPerKey
    BY <1>1 DEF UniqueIds, OneLiveInsightPerKey
  <1>8. HistorySound
    <2>1. \A x \in insights :
             /\ Snapshot(x, "baseline").insight_id = x.id
             /\ Snapshot(x, "baseline").revision = 1
             /\ Snapshot(x, "baseline").operation = "baseline"
      BY <1>1 DEF Snapshot
    <2>2. \A h \in history :
             \E x \in insights : x.id = h.insight_id /\ h.revision <= x.revision
      BY <1>1, <1>2, <2>1
    <2>3. \A x \in insights : \E h \in history : h = Snapshot(x, h.operation)
      BY <1>2, <2>1
    <2>4. \A x \in insights : \A n \in 1 .. x.revision :
             \E h \in history : h.insight_id = x.id /\ h.revision = n
      BY <1>1, <1>2, <2>1
    <2>5. \A g, h \in history :
             g.insight_id = h.insight_id /\ g.revision = h.revision => g = h
      BY <1>1, <1>2, <2>1
    <2>6. QED
      BY <2>2, <2>3, <2>4, <2>5 DEF HistorySound
  <1>9. HoldersSound
    BY <1>5 DEF HoldersSound, TxSound, Idle, Holds
  <1>10. QED
    BY <1>6, <1>7, <1>8, <1>9 DEF SInv

\* The invariant is inductive.
LEMMA SInvNext == SInv /\ [Next]_vars => SInv'
  <1>1. ASSUME SInv, Next PROVE SInv'
    BY <1>1, Kinds, MovesPreserve, CreatesPreserve, ChangesPreserve DEF StepKind
  <1>2. ASSUME SInv, UNCHANGED vars PROVE SInv'
    <2>1. /\ insights' = insights /\ history' = history
          /\ links' = links /\ tx' = tx
      BY <1>2 DEF vars
    <2>2. QED
      BY <1>2, <2>1 DEF SInv, TypeOK, UniqueIds, OneLiveInsightPerKey,
         HistorySound, HoldersSound, TxSound, Snapshot
  <1>3. QED
    BY <1>1, <1>2

\* The invariant holds throughout.
LEMMA StoreSound == Spec => []SInv
  BY SInvInit, SInvNext, PTL DEF Spec

-----------------------------------------------------------------------------
(* Theorems *)

\* Every row, snapshot, link and transaction has its type; in particular no
\* revision passes MaxRevision.
THEOREM StoreTypeCorrect == Spec => []TypeOK
  <1>1. SInv => TypeOK
    BY DEF SInv
  <1>2. QED
    BY <1>1, StoreSound, PTL

\* The unique index and the checks before it hold: among any number of
\* concurrent writes, deletions and restores a key names one live insight.
THEOREM KeysUnique == Spec => []OneLiveInsightPerKey
  <1>1. SInv => OneLiveInsightPerKey
    BY DEF SInv
  <1>2. QED
    BY <1>1, StoreSound, PTL

\* The revisions of every insight are recorded without a gap or a duplicate,
\* and the newest snapshot is the row.
THEOREM LedgerComplete == Spec => []HistoryComplete
  <1>1. ASSUME SInv PROVE HistoryComplete
    <2>1. HistorySound /\ UniqueIds /\ insights \subseteq Insight /\ history \subseteq Revision
      BY <1>1 DEF SInv, TypeOK
    <2>2. SUFFICES ASSUME NEW x \in insights
                   PROVE  /\ {h.revision : h \in SnapshotsOf(x)} = 1 .. x.revision
                          /\ \A g, h \in SnapshotsOf(x) : g.revision = h.revision => g = h
                          /\ \E h \in SnapshotsOf(x) : h = Snapshot(x, h.operation)
      BY DEF HistoryComplete
    <2>3. x.revision \in Nat
      BY <2>1 DEF Insight
    <2>4. \A h \in SnapshotsOf(x) : h.revision \in 1 .. x.revision
      <3>1. TAKE h \in SnapshotsOf(x)
      <3>2. h \in history /\ h.insight_id = x.id /\ h.revision \in 1 .. MaxRevision
        BY <2>1 DEF SnapshotsOf, Revision
      <3>3. h.revision <= x.revision
        BY <2>1, <3>2 DEF HistorySound, UniqueIds
      <3>4. QED
        BY <2>3, <3>2, <3>3, MaxRevisionAssumption
    <2>5. \A n \in 1 .. x.revision : \E h \in SnapshotsOf(x) : h.revision = n
      BY <2>1 DEF HistorySound, SnapshotsOf
    <2>6. \A g, h \in SnapshotsOf(x) : g.revision = h.revision => g = h
      BY <2>1 DEF HistorySound, SnapshotsOf
    <2>7. \E h \in SnapshotsOf(x) : h = Snapshot(x, h.operation)
      <3>1. PICK h \in history : h = Snapshot(x, h.operation)
        BY <2>1 DEF HistorySound
      <3>2. h.insight_id = x.id
        BY <3>1 DEF Snapshot
      <3>3. QED
        BY <3>1, <3>2 DEF SnapshotsOf
    <2>8. QED
      BY <2>4, <2>5, <2>6, <2>7
  <1>2. QED
    BY <1>1, StoreSound, PTL

\* A call that names an expected revision changes the insight from that
\* revision only.
THEOREM ExpectedHonoured == Spec => ExpectedRevisionHonoured
  <1> DEFINE Honoured ==
               \A t \in Tx : tx[t].pc # "idle" /\ tx'[t].pc = "idle" =>
                  \A e \in tx[t].p.expected, h \in history' \ history :
                     h.revision = e + 1
  <1>1. ASSUME SInv, Next PROVE Honoured
    <2> SUFFICES ASSUME NEW t \in Tx, tx[t].pc # "idle", tx'[t].pc = "idle",
                        NEW e \in tx[t].p.expected, NEW h \in history' \ history
                 PROVE  h.revision = e + 1
      OBVIOUS
    <2>1. ASSUME NEW u \in Tx, Goto(u, Idle) PROVE u = t
      BY <1>1, <2>1, TxStates, GotoOthers DEF SInv
    <2>2. CASE \E u \in Tx : Moves(u)
      BY <2>2 DEF Moves
    <2>3. ASSUME NEW u \in Tx, NEW x \in Insight, Creates(u, x)
          PROVE  h.revision = e + 1
      <3>1. u = t /\ tx[t].pc = "insert" /\ h = Snapshot(x, "create") /\ x.revision = 1
        BY <2>1, <2>3 DEF Creates
      <3>2. e = 0
        BY <1>1, <3>1 DEF SInv, HoldersSound, TxSound
      <3>3. QED
        BY <3>1, <3>2 DEF Snapshot
    <2>4. ASSUME NEW u \in Tx, NEW x \in Insight, NEW z \in Insight,
                 NEW operation \in Operation, Changes(u, x, z, operation)
          PROVE  h.revision = e + 1
      BY <2>1, <2>4 DEF Changes, Snapshot
    <2>5. QED
      BY <1>1, <2>2, <2>3, <2>4, Kinds DEF StepKind
  <1>2. SInv /\ [Next]_vars => [Honoured]_vars
    BY <1>1
  <1>3. QED
    BY <1>2, StoreSound, PTL DEF Spec, ExpectedRevisionHonoured

-----------------------------------------------------------------------------
(* Links *)

\* The links of one row, as LinksFollowContent wants them.
Stored(i) == {l.target : l \in {m \in links : m.source = i}}

Follows(x) ==
    \/ Stored(x.id) = Desired(x)
    \/ /\ Stored(x.id) = {}
       /\ \E h \in SnapshotsOf(x) : h.operation = "baseline"
       /\ \A h \in SnapshotsOf(x) :
             h.operation # "restore" /\ h.body.content = x.body.content

\* Links belong to a row and follow its content.
LInv ==
    /\ \A m \in links : \E x \in insights : x.id = m.source
    /\ \A x \in insights : Follows(x)

\* What syncInsightLinksTx leaves: the links the row wants, and those of others.
LEMMA SyncStores ==
    ASSUME SInv, NEW x \in Insight, SyncInsightContent(x)
    PROVE  /\ Stored(x.id)' = Desired(x)
           /\ \A m \in Link : m.source # x.id => (m \in links' <=> m \in links)
  <1>1. links' = {l \in links : l.source # x.id}
                 \cup {[source |-> x.id, target |-> k] : k \in Desired(x)}
    BY DEF SyncInsightContent
  <1>2. {m \in links' : m.source = x.id} = {[source |-> x.id, target |-> k] : k \in Desired(x)}
    BY <1>1
  <1>3. Stored(x.id)' = Desired(x)
    <2>1. \A k : k \in Stored(x.id)' <=> \E m \in links' : m.source = x.id /\ m.target = k
      BY DEF Stored
    <2>2. ASSUME NEW k \in Desired(x)
          PROVE  \E m \in links' : m.source = x.id /\ m.target = k
      <3>1. [source |-> x.id, target |-> k] \in links'
        BY <1>2
      <3>2. QED
        BY <3>1
    <2>3. \A m \in links' : m.source = x.id => m.target \in Desired(x)
      BY <1>2
    <2>4. QED
      BY <2>1, <2>2, <2>3
  <1>4. QED
    BY <1>1, <1>3 DEF Link, SInv, TypeOK

\* A step that touches one row z, and only its links and snapshots, need only be
\* looked at for that row.
LEMMA OneRow ==
    ASSUME SInv, LInv, links' \subseteq Link, NEW z \in insights', Follows(z)',
           \A y \in insights' : y = z \/ (y \in insights /\ y.id # z.id),
           \A y \in insights : \E x \in insights' : x.id = y.id,
           \A m \in Link : m.source # z.id => (m \in links' <=> m \in links),
           \A h : h.insight_id # z.id => (h \in history' <=> h \in history)
    PROVE  LInv'
  <1>1. \A m \in links' : \E x \in insights' : x.id = m.source
    <2>1. TAKE m \in links'
    <2>2. CASE m.source = z.id
      BY <2>2
    <2>3. CASE m.source # z.id
      BY <2>1, <2>3 DEF LInv
    <2>4. QED
      BY <2>2, <2>3
  <1>2. ASSUME NEW y \in insights', y # z PROVE Follows(y)'
    <2>1. y \in insights /\ y.id # z.id /\ Follows(y)
      BY <1>2 DEF LInv
    <2>2. links \subseteq Link
      BY DEF SInv, TypeOK
    <2>3. {m \in links' : m.source = y.id} = {m \in links : m.source = y.id}
      BY <2>1, <2>2
    <2>4. Stored(y.id)' = Stored(y.id)
      BY <2>3 DEF Stored
    <2>5. SnapshotsOf(y)' = SnapshotsOf(y)
      BY <2>1 DEF SnapshotsOf
    <2>6. QED
      BY <2>1, <2>4, <2>5 DEF Follows, Desired
  <1>3. QED
    BY <1>1, <1>2 DEF LInv

\* A semantic no-op that syncs the links of a row.
LEMMA ResyncLinks ==
    ASSUME SInv, LInv, links' \subseteq Link, NEW x \in insights, Resync(x)
    PROVE  LInv'
  <1>1. /\ x \in Insight /\ SyncInsightContent(x)
        /\ insights' = insights /\ history' = history
    BY DEF SInv, TypeOK, Resync
  <1>2. Follows(x)'
    BY <1>1, SyncStores DEF Follows, Desired
  <1>3. \A y \in insights : y.id = x.id => y = x
    BY DEF SInv, UniqueIds
  <1>4. QED
    BY <1>1, <1>2, <1>3, SyncStores, OneRow

\* What an UPDATE makes of the row x.
LEMMA ChangeEffect ==
    ASSUME SInv, NEW x \in insights, NEW y \in Insight, y.id = x.id,
           NEW operation, Change(x, y, operation)
    PROVE  \E z \in insights' :
              /\ z \in Insight
              /\ z.id = x.id /\ z.key = y.key /\ z.body = y.body
              /\ history' = history \cup {Snapshot(z, operation)}
              /\ \A w \in insights' : w = z \/ (w \in insights /\ w.id # z.id)
              /\ \A w \in insights : \E v \in insights' : v.id = w.id
  <1> DEFINE z == [y EXCEPT !.revision = x.revision + 1]
  <1>1. x \in Insight /\ x.revision < MaxRevision
    BY DEF SInv, TypeOK, Change
  <1>2. z \in Insight /\ z.id = x.id /\ z.key = y.key /\ z.body = y.body
    BY <1>1, MaxRevisionAssumption DEF Insight
  <1>3. UpdateTarget(x) = {x}
    BY DEF UpdateTarget, SInv, UniqueIds
  <1>4. insights' = (insights \ {x}) \cup {z} /\ history' = history \cup {Snapshot(z, operation)}
    BY <1>3 DEF Change
  <1>5. \A w \in insights : w.id = x.id => w = x
    BY DEF SInv, UniqueIds
  <1> HIDE DEF z
  <1>6. QED
    BY <1>2, <1>4, <1>5

\* A change that syncs the links of the new row.
LEMMA ChangeSyncLinks ==
    ASSUME SInv, LInv, links' \subseteq Link, NEW x \in insights, NEW y \in Insight,
           y.id = x.id, NEW operation, Change(x, y, operation), SyncInsightContent(y)
    PROVE  LInv'
  <1>1. PICK z \in insights' :
              /\ z \in Insight
              /\ z.id = x.id /\ z.key = y.key /\ z.body = y.body
              /\ history' = history \cup {Snapshot(z, operation)}
              /\ \A w \in insights' : w = z \/ (w \in insights /\ w.id # z.id)
              /\ \A w \in insights : \E v \in insights' : v.id = w.id
    BY ChangeEffect
  <1>2. Snapshot(z, operation).insight_id = z.id
    BY DEF Snapshot
  <1>3. Desired(z) = Desired(y)
    BY <1>1 DEF Desired
  <1>4. Follows(z)'
    BY <1>1, <1>3, SyncStores DEF Follows, Desired
  <1>5. \A m \in Link : m.source # z.id => (m \in links' <=> m \in links)
    BY <1>1, SyncStores
  <1>6. QED
    BY <1>1, <1>2, <1>4, <1>5, OneRow

\* A change that keeps key and content may leave the links alone, unless it
\* restores.
LEMMA ChangeKeepLinks ==
    ASSUME SInv, LInv, links' = links, NEW x \in insights, NEW y \in Insight,
           y.id = x.id, y.key = x.key, y.body.content = x.body.content,
           NEW operation \in {"update", "delete"}, Change(x, y, operation)
    PROVE  LInv'
  <1>1. PICK z \in insights' :
              /\ z \in Insight
              /\ z.id = x.id /\ z.key = y.key /\ z.body = y.body
              /\ history' = history \cup {Snapshot(z, operation)}
              /\ \A w \in insights' : w = z \/ (w \in insights /\ w.id # z.id)
              /\ \A w \in insights : \E v \in insights' : v.id = w.id
    BY ChangeEffect
  <1>2. LET h == Snapshot(z, operation)
        IN  h.insight_id = z.id /\ h.operation = operation /\ h.body = z.body
    BY DEF Snapshot
  <1>3. Desired(z) = Desired(x) /\ z.body.content = x.body.content
    BY <1>1 DEF Desired
  <1>4. Stored(z.id)' = Stored(x.id)
    BY <1>1 DEF Stored
  <1>5. SnapshotsOf(z)' = SnapshotsOf(x) \cup {Snapshot(z, operation)}
    BY <1>1, <1>2 DEF SnapshotsOf
  <1>6. Follows(x)
    BY DEF LInv
  <1>7. Follows(z)'
    <2>1. CASE Stored(x.id) = Desired(x)
      BY <1>3, <1>4, <2>1 DEF Follows, Desired
    <2>2. CASE /\ Stored(x.id) = {}
               /\ \E h \in SnapshotsOf(x) : h.operation = "baseline"
               /\ \A h \in SnapshotsOf(x) :
                     h.operation # "restore" /\ h.body.content = x.body.content
      <3>1. \E h \in SnapshotsOf(z)' : h.operation = "baseline"
        BY <1>5, <2>2
      <3>2. \A h \in SnapshotsOf(z)' :
               h.operation # "restore" /\ h.body.content = z.body.content
        BY <1>2, <1>3, <1>5, <2>2
      <3>3. QED
        BY <1>4, <2>2, <3>1, <3>2 DEF Follows
    <2>3. QED
      BY <1>6, <2>1, <2>2 DEF Follows
  <1>8. links' \subseteq Link
    BY DEF SInv, TypeOK
  <1>9. QED
    BY <1>1, <1>2, <1>7, <1>8, OneRow

\* The statement a transaction commits keeps the links.
LEMMA CommitLinks ==
    ASSUME SInv, LInv, links' \subseteq Link, NEW t \in Tx,
           CreateInsight(t) \/ UpdateByKey(t) \/ UpdateInsight(t)
               \/ DeleteInsight(t) \/ RestoreInsight(t)
    PROVE  LInv'
  <1> DEFINE p == tx[t].p
             x == tx[t].current
  <1>0. TypeOK /\ insights \subseteq Insight /\ history \subseteq Revision
    BY DEF SInv, TypeOK
  <1>1. tx[t].pc \in Holds => x \in insights /\ x \in Insight
    BY <1>0 DEF SInv, HoldersSound, TxSound
  <1>2. CASE CreateInsight(t)
    <2>1. p \in WriteParams
      BY <1>0, <1>2, TxFields DEF CreateInsight
    <2>2. PICK z \in Insight :
             /\ \A y \in insights : y.id # z.id
             /\ insights' = insights \cup {z}
             /\ history' = history \cup {Snapshot(z, "create")}
             /\ SyncInsightContent(z)
      <3>1. ASSUME NEW i \in Id
            PROVE  [id |-> i, key |-> p.key, body |-> p.body, deleted |-> FALSE,
                    revision |-> 1] \in Insight
        BY <2>1, MaxRevisionAssumption DEF Insight, WriteParams
      <3>2. QED
        BY <1>2, <3>1 DEF CreateInsight
    <2>3. Snapshot(z, "create").insight_id = z.id
      BY DEF Snapshot
    <2>4. Follows(z)'
      BY <2>2, SyncStores DEF Follows, Desired
    <2>5. \A m \in Link : m.source # z.id => (m \in links' <=> m \in links)
      BY <2>2, SyncStores
    <2>6. QED
      BY <2>2, <2>3, <2>4, <2>5, OneRow
  <1>3. CASE UpdateByKey(t)
    <2>1. p \in WriteParams /\ x \in insights /\ x \in Insight
      BY <1>0, <1>1, <1>3, TxFields DEF UpdateByKey, Holds
    <2>2. WrittenRow(p, x) \in Insight /\ WrittenRow(p, x).id = x.id
      BY <2>1 DEF WrittenRow, Insight, WriteParams
    <2>3. \/ Resync(x)
          \/ Change(x, WrittenRow(p, x), "update") /\ SyncInsightContent(WrittenRow(p, x))
      BY <1>3 DEF UpdateByKey
    <2>4. QED
      BY <2>1, <2>2, <2>3, ResyncLinks, ChangeSyncLinks
  <1>4. CASE UpdateInsight(t)
    <2> DEFINE y == PatchedRow(p, x)
    <2>1. p \in UpdateParams /\ x \in insights /\ x \in Insight /\ x.body \in Body
      BY <1>0, <1>1, <1>4, TxFields DEF UpdateInsight, Holds, Insight
    <2>2. /\ y \in Insight /\ y.id = x.id /\ y.key = x.key
          /\ p.content = {} => y.body.content = x.body.content
      BY <2>1, PatchTyped
    <2>3. /\ \/ y = x /\ UNCHANGED <<insights, history>>
             \/ y # x /\ Change(x, y, "update")
          /\ IF p.content = {} THEN links' = links ELSE SyncInsightContent(y)
      BY <1>4 DEF UpdateInsight
    <2> HIDE DEF y
    <2>4. CASE y = x /\ UNCHANGED <<insights, history>> /\ links' = links
      BY <2>4 DEF LInv, Follows, Stored, SnapshotsOf, Desired
    <2>5. CASE y = x /\ UNCHANGED <<insights, history>> /\ SyncInsightContent(y)
      BY <2>1, <2>5, ResyncLinks DEF Resync
    <2>6. CASE Change(x, y, "update") /\ p.content = {}
      BY <2>1, <2>2, <2>3, <2>6, ChangeKeepLinks
    <2>7. CASE Change(x, y, "update") /\ SyncInsightContent(y)
      BY <2>1, <2>2, <2>7, ChangeSyncLinks
    <2>8. QED
      BY <2>3, <2>4, <2>5, <2>6, <2>7
  <1>5. CASE DeleteInsight(t)
    <2> DEFINE y == [x EXCEPT !.deleted = TRUE]
    <2>1. x \in insights /\ x \in Insight
      BY <1>1, <1>5 DEF DeleteInsight, Holds
    <2>2. y \in Insight /\ y.id = x.id /\ y.key = x.key /\ y.body = x.body
      BY <2>1 DEF Insight
    <2>3. Change(x, y, "delete") /\ links' = links
      BY <1>5 DEF DeleteInsight
    <2> HIDE DEF y
    <2>4. QED
      BY <2>1, <2>2, <2>3, ChangeKeepLinks
  <1>6. CASE RestoreInsight(t)
    <2>1. x \in insights /\ x \in Insight
      BY <1>1, <1>6 DEF RestoreInsight, Holds
    <2>2. PICK h \in RestoreTarget(x, p.target) :
             \/ Resync(x)
             \/ Change(x, RestoredRow(x, h), "restore") /\ SyncInsightContent(RestoredRow(x, h))
      BY <1>6 DEF RestoreInsight
    <2>3. RestoredRow(x, h) \in Insight /\ RestoredRow(x, h).id = x.id
      BY <1>0, <2>1, <2>2 DEF RestoredRow, RestoreTarget, Insight, Revision
    <2>4. QED
      BY <2>1, <2>2, <2>3, ResyncLinks, ChangeSyncLinks
  <1>7. QED
    BY <1>2, <1>3, <1>4, <1>5, <1>6

\* At first the rows that were synced have their links, and the others none.
LEMMA LInvInit == Init => LInv
  <1> SUFFICES ASSUME Init PROVE LInv
    OBVIOUS
  <1>1. PICK synced \in SUBSET insights :
           links = UNION {{[source |-> x.id, target |-> k] : k \in Desired(x)} : x \in synced}
    BY DEF Init
  <1>2. UniqueIds
    BY SInvInit DEF SInv
  <1>3. \A m \in links : \E x \in synced : \E k \in Desired(x) :
           m = [source |-> x.id, target |-> k]
    BY <1>1
  <1>4. ASSUME NEW x \in insights PROVE Follows(x)
    <2>1. CASE x \in synced
      <3>1. {m \in links : m.source = x.id}
              = {[source |-> x.id, target |-> k] : k \in Desired(x)}
        <4>1. \A m \in links : m.source = x.id =>
                 \E k \in Desired(x) : m = [source |-> x.id, target |-> k]
          BY <1>2, <1>3 DEF UniqueIds
        <4>2. \A k \in Desired(x) : [source |-> x.id, target |-> k] \in links
          BY <1>1, <2>1
        <4>3. QED
          BY <4>1, <4>2
      <3>2. Stored(x.id) = Desired(x)
        <4>1. \A k : k \in Stored(x.id) <=> \E m \in links : m.source = x.id /\ m.target = k
          BY DEF Stored
        <4>2. ASSUME NEW k \in Desired(x)
              PROVE  \E m \in links : m.source = x.id /\ m.target = k
          <5>1. [source |-> x.id, target |-> k] \in links
            BY <3>1
          <5>2. QED
            BY <5>1
        <4>3. \A m \in links : m.source = x.id => m.target \in Desired(x)
          BY <3>1
        <4>4. QED
          BY <4>1, <4>2, <4>3
      <3>3. QED
        BY <3>2 DEF Follows
    <2>2. CASE x \notin synced
      <3>1. {m \in links : m.source = x.id} = {}
        BY <1>2, <1>3, <2>2 DEF UniqueIds
      <3>2. Stored(x.id) = {}
        BY <3>1 DEF Stored
      <3>3. history = {Snapshot(y, "baseline") : y \in insights}
        BY DEF Init
      <3>4. \A y \in insights :
               /\ Snapshot(y, "baseline").insight_id = y.id
               /\ Snapshot(y, "baseline").operation = "baseline"
               /\ Snapshot(y, "baseline").body = y.body
        BY DEF Snapshot
      <3>5. SnapshotsOf(x) = {Snapshot(x, "baseline")}
        BY <1>2, <3>3, <3>4 DEF SnapshotsOf, UniqueIds
      <3>6. QED
        BY <3>2, <3>4, <3>5 DEF Follows
    <2>3. QED
      BY <2>1, <2>2
  <1>5. QED
    BY <1>3, <1>4 DEF LInv

\* Links stay owned and follow the content.
LEMMA LInvNext == SInv /\ LInv /\ [Next]_vars => LInv'
  <1>1. ASSUME SInv, LInv, UNCHANGED tables PROVE LInv'
    BY <1>1 DEF tables, LInv, Follows, Stored, SnapshotsOf, Desired
  <1>2. ASSUME SInv, LInv, Next PROVE LInv'
    <2>1. PICK t \in Tx : Begin(t) \/ Proceed(t) \/ Rollback(t)
      BY <1>2 DEF Next
    <2>2. links' \subseteq Link
      BY <1>2, Kinds
    <2>3. CASE Begin(t)
      BY <1>1, <1>2, <2>3 DEF Begin, WriteBegin, UpdateBegin, DeleteBegin, RestoreBegin, LockRow
    <2>4. CASE \/ SelectByKey(t) \/ SelectByKeyMisses(t) \/ WaitEnds(t)
               \/ CreateConflict(t) \/ Refused(t) \/ Rollback(t)
      BY <1>1, <1>2, <2>4 DEF SelectByKey, SelectByKeyMisses, WaitEnds, CreateConflict,
         Refused, Rollback
    <2>5. CASE \/ CreateInsight(t) \/ UpdateByKey(t) \/ UpdateInsight(t)
               \/ DeleteInsight(t) \/ RestoreInsight(t)
      BY <1>2, <2>2, <2>5, CommitLinks
    <2>6. QED
      BY <2>1, <2>3, <2>4, <2>5 DEF Proceed
  <1>3. QED
    BY <1>1, <1>2 DEF vars, tables

\* The links of a row are those of its present content and key, whichever of the
\* four calls wrote it last; only a row nobody has written since the baseline may
\* have none.
THEOREM LinksFollow == Spec => []LinksFollowContent
  <1>1. LInv => LinksFollowContent
    BY DEF LInv, Follows, Stored, LinksFollowContent
  <1>2. QED
    BY <1>1, LInvInit, LInvNext, StoreSound, PTL DEF Spec

-----------------------------------------------------------------------------
(* Refinement *)

\* The newest snapshots are the rows.
LEMMA HeadsAreRows ==
    ASSUME SInv
    PROVE  /\ \A e \in Ledger!Heads : \E x \in insights : e = Snapshot(x, e.operation)
           /\ \A x \in insights : \E e \in Ledger!Heads : e = Snapshot(x, e.operation)
  <1>0. /\ HistorySound /\ UniqueIds
        /\ insights \subseteq Insight /\ history \subseteq Revision
    BY DEF SInv, TypeOK
  <1>1. ASSUME NEW e \in Ledger!Heads
        PROVE  \E x \in insights : e = Snapshot(x, e.operation)
    <2>1. /\ e \in history
          /\ \A f \in history : f.insight_id = e.insight_id => f.revision <= e.revision
      BY DEF Ledger!Heads
    <2>2. PICK x \in insights : x.id = e.insight_id /\ e.revision <= x.revision
      BY <1>0, <2>1 DEF HistorySound
    <2>3. PICK f \in history : f = Snapshot(x, f.operation)
      BY <1>0 DEF HistorySound
    <2>4. f.insight_id = x.id /\ f.revision = x.revision
      BY <2>3 DEF Snapshot
    <2>5. e.revision = x.revision
      BY <1>0, <2>1, <2>2, <2>4 DEF Insight, Revision
    <2>6. e = f
      BY <1>0, <2>1, <2>2, <2>4, <2>5 DEF HistorySound
    <2>7. QED
      BY <2>3, <2>6
  <1>2. ASSUME NEW x \in insights
        PROVE  \E e \in Ledger!Heads : e = Snapshot(x, e.operation)
    <2>1. PICK e \in history : e = Snapshot(x, e.operation)
      BY <1>0 DEF HistorySound
    <2>2. e.insight_id = x.id /\ e.revision = x.revision
      BY <2>1 DEF Snapshot
    <2>3. \A f \in history : f.insight_id = e.insight_id => f.revision <= e.revision
      BY <1>0, <2>2 DEF HistorySound, UniqueIds
    <2>4. QED
      BY <2>1, <2>3 DEF Ledger!Heads
  <1>3. QED
    BY <1>1, <1>2

\* A key no live row has is free in the ledger.
LEMMA KeyFreeInLedger ==
    ASSUME SInv, NEW k, NEW i, KeyFree(k, i)
    PROVE  Ledger!KeyFree(k, i)
  <1>1. \A e \in Ledger!Heads : e.key = k /\ k # NoKey => e.deleted \/ e.insight_id = i
    <2>1. SUFFICES ASSUME NEW e \in Ledger!Heads, e.key = k, k # NoKey
                   PROVE  e.deleted \/ e.insight_id = i
      OBVIOUS
    <2>2. PICK x \in insights : e = Snapshot(x, e.operation)
      BY HeadsAreRows
    <2>3. e.key = x.key /\ e.deleted = x.deleted /\ e.insight_id = x.id
      BY <2>2 DEF Snapshot
    <2>4. QED
      BY <2>1, <2>3 DEF KeyFree
  <1>2. QED
    BY <1>1 DEF Ledger!KeyFree

\* The baseline's snapshots are an initial ledger.
LEMMA LedgerInit == Init => Ledger!Init
  <1> SUFFICES ASSUME Init PROVE Ledger!Init
    OBVIOUS
  <1>1. SInv
    BY SInvInit
  <1>2. history = {Snapshot(x, "baseline") : x \in insights}
    BY DEF Init
  <1>3. insights \subseteq Insight /\ \A x \in insights : x.revision = 1
    BY DEF Init, Baseline
  <1>4. \A e \in history :
           \E i \in Id, k \in Key \cup {NoKey}, b \in Body, d \in BOOLEAN :
              e = Ledger!Entry(i, 1, "baseline", k, b, d)
    <2>1. TAKE e \in history
    <2>2. PICK x \in insights : e = Snapshot(x, "baseline")
      BY <1>2
    <2>3. /\ x.id \in Id /\ x.key \in Key \cup {NoKey} /\ x.body \in Body
          /\ x.deleted \in BOOLEAN /\ x.revision = 1
      BY <1>3 DEF Insight
    <2>4. e = Ledger!Entry(x.id, 1, "baseline", x.key, x.body, x.deleted)
      BY <2>2, <2>3 DEF Snapshot, Ledger!Entry
    <2>5. QED
      BY <2>3, <2>4
  <1>5. \A e \in history : e.revision = 1
    BY <1>2, <1>3 DEF Snapshot
  <1>6. \A e, f \in history : e.insight_id = f.insight_id => e = f
    BY <1>1, <1>5 DEF SInv, HistorySound
  <1>7. \A e \in history : ~e.deleted => Ledger!KeyFree(e.key, e.insight_id)
    <2>1. SUFFICES ASSUME NEW e \in history, ~e.deleted
                   PROVE  Ledger!KeyFree(e.key, e.insight_id)
      OBVIOUS
    <2>2. PICK x \in insights : e = Snapshot(x, "baseline")
      BY <1>2
    <2>3. e.key = x.key /\ e.deleted = x.deleted /\ e.insight_id = x.id
      BY <2>2 DEF Snapshot
    <2>4. KeyFree(e.key, e.insight_id)
      BY <1>1, <2>1, <2>3 DEF KeyFree, SInv, OneLiveInsightPerKey
    <2>5. QED
      BY <1>1, <2>4, KeyFreeInLedger
  <1>8. QED
    BY <1>4, <1>6, <1>7 DEF Ledger!Init

\* A new row is a Create of the ledger.
LEMMA CreatesRefines ==
    ASSUME SInv, NEW t \in Tx, NEW x \in Insight, Creates(t, x)
    PROVE  Ledger!Next
  <1>1. x.id \in Id /\ x.key \in Key \cup {NoKey} /\ x.body \in Body
    BY DEF Insight
  <1>2. \A e \in history : e.insight_id # x.id
    BY DEF Creates, SInv, HistorySound
  <1>3. Snapshot(x, "create") = Ledger!Entry(x.id, 1, "create", x.key, x.body, FALSE)
    BY DEF Creates, Snapshot, Ledger!Entry, Insight
  <1>4. Ledger!KeyFree(x.key, x.id)
    BY KeyFreeInLedger DEF Creates
  <1>5. Ledger!Create(x.id, x.key, x.body)
    BY <1>2, <1>3, <1>4 DEF Creates, Ledger!Create
  <1>6. QED
    BY <1>1, <1>5 DEF Ledger!Next

\* A change of a row is an Update, Delete or Restore of the ledger.
LEMMA ChangesRefines ==
    ASSUME SInv, NEW t \in Tx, NEW x \in Insight, NEW z \in Insight,
           NEW operation \in Operation, Changes(t, x, z, operation)
    PROVE  Ledger!Next
  <1>1. PICK e \in Ledger!Heads : e = Snapshot(x, e.operation)
    BY HeadsAreRows DEF Changes
  <1>2. /\ e.insight_id = x.id /\ e.revision = x.revision /\ e.key = x.key
        /\ e.body = x.body /\ e.deleted = x.deleted
    BY <1>1 DEF Snapshot
  <1>3. history' = history \cup {Ledger!Entry(e.insight_id, e.revision + 1,
                                              operation, z.key, z.body, z.deleted)}
    BY <1>2 DEF Changes, Snapshot, Ledger!Entry
  <1>4. z.body \in Body /\ z.deleted \in BOOLEAN /\ x.deleted \in BOOLEAN
    BY DEF Insight
  <1>5. CASE operation = "update" /\ ~x.deleted /\ ~z.deleted /\ z.key = x.key
    <2>1. Ledger!Update(e, z.body)
      BY <1>2, <1>3, <1>4, <1>5 DEF Ledger!Update, Ledger!Append
    <2>2. QED
      BY <1>1, <1>4, <2>1 DEF Ledger!Next
  <1>6. CASE operation = "delete" /\ ~x.deleted /\ z.deleted /\ z.key = x.key /\ z.body = x.body
    <2>1. Ledger!Delete(e)
      BY <1>2, <1>3, <1>4, <1>6 DEF Ledger!Delete, Ledger!Append
    <2>2. QED
      BY <1>1, <2>1 DEF Ledger!Next
  <1>7. ASSUME operation = "restore", ~z.deleted, KeyFree(z.key, x.id),
               NEW h \in history, h.insight_id = x.id, z.key = h.key, z.body = h.body
        PROVE  Ledger!Next
    <2>1. Ledger!KeyFree(h.key, e.insight_id)
      BY <1>2, <1>7, KeyFreeInLedger
    <2>2. Ledger!Restore(e, h)
      BY <1>2, <1>3, <1>4, <1>7, <2>1 DEF Ledger!Restore
    <2>3. QED
      BY <1>1, <2>2 DEF Ledger!Next
  <1>8. QED
    BY <1>5, <1>6, <1>7 DEF Changes, Legal

\* The transactions over the tables implement the append-only ledger of
\* complete snapshots, in which every change is one atomic, legal step.
THEOREM StoreImplementsLedger == Spec => ImplementsLedger
  <1>1. Init => Ledger!Init
    BY LedgerInit
  <1>2. SInv /\ [Next]_vars => [Ledger!Next]_history
    <2>1. ASSUME SInv, Next PROVE Ledger!Next \/ history' = history
      BY <2>1, Kinds, CreatesRefines, ChangesRefines DEF StepKind, Moves
    <2>2. QED
      BY <2>1 DEF vars
  <1>3. QED
    BY <1>1, <1>2, StoreSound, PTL DEF Spec, ImplementsLedger, Ledger!Spec

=============================================================================

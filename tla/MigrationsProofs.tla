-------------------------- MODULE MigrationsProofs --------------------------
(***************************************************************************)
(* The migration runner is correct for any number of processes, binaries,  *)
(* versions, starts and faults.  The inductive invariant says who holds    *)
(* the advisory lock, and what the holder knows of the versions behind the *)
(* one its loop is at.                                                     *)
(***************************************************************************)
EXTENDS Migrations, TLAPS

\* A process inside the loop is the session that holds the lock.
LockHeld == \A p \in Process : stage[p] \in Migrating => lock = p

\* The loop has left behind only recorded versions of its own binary.
LoopPosition ==
    \A p \in Process : stage[p] \in Migrating \ {"unlock"} =>
        /\ next[p] <= Latest[p]
        /\ 1..(next[p] - 1) \subseteq recorded
        /\ stage[p] = "finish" => 1..Latest[p] \subseteq recorded

\* The stages of a migration that is being applied.
Applying == {"tx", "inspect", "drop", "create", "building", "scanned",
             "verify", "record"}

\* What is being applied is not recorded, is of the kind its stage says, and an
\* index about to be recorded is valid.
StageFacts ==
    \A p \in Process : stage[p] \in Applying =>
        /\ next[p] \notin recorded
        /\ stage[p] = "tx" <=> next[p] \notin Concurrent
        /\ stage[p] = "record" => index[next[p]] = "valid"

IInv ==
    /\ TypeOK
    /\ LockHeld
    /\ LoopPosition
    /\ StageFacts
    /\ AppliedInOrder
    /\ AppliedOnce
    /\ RecordedIndexValid
    /\ ReadyMeansMigrated

\* The database nobody has migrated satisfies the invariant.
LEMMA InitIInv == Init => IInv
  <1> SUFFICES ASSUME Init PROVE IInv
      OBVIOUS
  <1> USE VersionsAssumption, ProcessAssumption DEF Init
  <1>1. TypeOK
      BY DEF TypeOK, Version, Stage
  <1>2. LockHeld /\ LoopPosition /\ StageFacts /\ ReadyMeansMigrated
      BY DEF LockHeld, LoopPosition, StageFacts, ReadyMeansMigrated, Migrating, Applying
  <1>3. AppliedInOrder /\ AppliedOnce /\ RecordedIndexValid
      BY DEF AppliedInOrder, AppliedOnce, RecordedIndexValid, Version
  <1> QED
      BY <1>1, <1>2, <1>3 DEF IInv

\* The facts about tables survive a step that leaves the tables alone.
LEMMA TablesKept ==
    ASSUME IInv, UNCHANGED tables
    PROVE  AppliedInOrder' /\ AppliedOnce' /\ RecordedIndexValid'
  BY DEF IInv, tables, AppliedInOrder, AppliedOnce, RecordedIndexValid

\* Every process but p keeps its place, and the tables only grow.
LEMMA OthersKept ==
    ASSUME IInv, NEW p \in Process, NEW q \in Process, q # p,
           stage'[q] = stage[q], next'[q] = next[q],
           recorded \subseteq recorded',
           stage[p] \in Migrating \/ UNCHANGED tables,
           \A v \in recorded \cap Concurrent : index'[v] = "valid"
    PROVE  /\ stage'[q] \in Migrating \ {"unlock"} =>
                /\ next'[q] <= Latest[q]
                /\ 1..(next'[q] - 1) \subseteq recorded'
                /\ stage'[q] = "finish" => 1..Latest[q] \subseteq recorded'
           /\ stage'[q] \in Applying =>
                /\ next'[q] \notin recorded'
                /\ stage'[q] = "tx" <=> next'[q] \notin Concurrent
                /\ stage'[q] = "record" => index'[next'[q]] = "valid"
           /\ stage'[q] = "ready" =>
                /\ 1..Latest[q] \subseteq recorded'
                /\ \A v \in Concurrent : v <= Latest[q] => index'[v] = "valid"
  <1>1. stage'[q] \in Migrating \ {"unlock"} =>
                /\ next'[q] <= Latest[q]
                /\ 1..(next'[q] - 1) \subseteq recorded'
                /\ stage'[q] = "finish" => 1..Latest[q] \subseteq recorded'
      BY DEF IInv, LoopPosition
  <1>2. stage'[q] \in Applying =>
                /\ next'[q] \notin recorded'
                /\ stage'[q] = "tx" <=> next'[q] \notin Concurrent
                /\ stage'[q] = "record" => index'[next'[q]] = "valid"
    <2>1. CASE UNCHANGED tables
        BY <2>1 DEF IInv, StageFacts, tables
    <2>2. CASE stage[p] \in Migrating
        BY <2>2 DEF IInv, LockHeld, Applying, Migrating
    <2> QED
        BY <2>1, <2>2
  <1>3. stage'[q] = "ready" =>
                /\ 1..Latest[q] \subseteq recorded'
                /\ \A v \in Concurrent : v <= Latest[q] => index'[v] = "valid"
    <2> SUFFICES ASSUME stage'[q] = "ready"
                 PROVE  /\ 1..Latest[q] \subseteq recorded'
                        /\ \A v \in Concurrent : v <= Latest[q] => index'[v] = "valid"
        OBVIOUS
    <2>1. 1..Latest[q] \subseteq recorded
        BY DEF IInv, ReadyMeansMigrated
    <2>2. \A v \in Concurrent : v <= Latest[q] => v \in recorded
        BY <2>1, VersionsAssumption
    <2> QED
        BY <2>1, <2>2
  <1> QED
      BY <1>1, <1>2, <1>3

\* The step of a process that leaves the tables alone, and is about nobody else.
\* The hypotheses are what has to be seen of the process that moves.
LEMMA QuietStep ==
    ASSUME IInv, TypeOK', NEW p \in Process,
           UNCHANGED tables,
           \A q \in Process \ {p} : stage'[q] = stage[q] /\ next'[q] = next[q],
           LockHeld',
           stage'[p] \in Migrating \ {"unlock"} =>
                /\ next'[p] <= Latest[p]
                /\ 1..(next'[p] - 1) \subseteq recorded
                /\ stage'[p] = "finish" => 1..Latest[p] \subseteq recorded,
           stage'[p] \in Applying =>
                /\ next'[p] \notin recorded
                /\ stage'[p] = "tx" <=> next'[p] \notin Concurrent
                /\ stage'[p] = "record" => index[next'[p]] = "valid",
           stage'[p] = "ready" => 1..Latest[p] \subseteq recorded
    PROVE  IInv'
  <1>1. recorded' = recorded /\ index' = index
      BY DEF tables
  <1>2. AppliedInOrder' /\ AppliedOnce' /\ RecordedIndexValid'
      BY TablesKept
  <1>3. \A v \in recorded \cap Concurrent : index[v] = "valid"
      BY DEF IInv, RecordedIndexValid
  <1>4. LoopPosition'
      BY <1>1, <1>3, OthersKept DEF LoopPosition
  <1>5. StageFacts'
      BY <1>1, <1>3, OthersKept DEF StageFacts
  <1>6. ReadyMeansMigrated'
    <2> SUFFICES ASSUME NEW q \in Process, stage'[q] = "ready"
                 PROVE  /\ 1..Latest[q] \subseteq recorded'
                        /\ \A v \in Concurrent : v <= Latest[q] => index'[v] = "valid"
        BY DEF ReadyMeansMigrated
    <2>1. CASE q = p
        BY <2>1, <1>1, <1>3, VersionsAssumption
    <2>2. CASE q # p
        BY <2>2, <1>1, <1>3, OthersKept
    <2> QED
        BY <2>1, <2>2
  <1> QED
      BY <1>2, <1>4, <1>5, <1>6 DEF IInv

\* The loop's version stays one of the versions.
LEMMA NextMigrationType ==
    ASSUME TypeOK, NEW p \in Process, NextMigration(p)
    PROVE  /\ stage' \in [Process -> Stage]
           /\ next' \in [Process -> Version]
  <1>1. next[p] \in 1..Versions /\ Latest[p] \in 1..Versions /\ Versions \in Nat
      BY VersionsAssumption DEF TypeOK, Version
  <1>2. CASE next[p] < Latest[p]
    <2>1. next[p] + 1 \in Version
        BY <1>1, <1>2 DEF Version
    <2> QED
        BY <1>2, <2>1 DEF TypeOK, NextMigration, Goto, Stage
  <1>3. CASE ~(next[p] < Latest[p])
      BY <1>3 DEF TypeOK, NextMigration, Goto, Stage
  <1> QED
      BY <1>2, <1>3

\* Each step keeps the variables in their types.
LEMMA TypeStep == IInv /\ [Next]_vars => TypeOK'
  <1> SUFFICES ASSUME IInv, [Next]_vars PROVE TypeOK'
      OBVIOUS
  <1> USE VersionsAssumption, ProcessAssumption
  <1>0. TypeOK /\ StageFacts /\ LoopPosition
      BY DEF IInv
  <1>1. CASE UNCHANGED vars
      BY <1>0, <1>1 DEF TypeOK, vars
  <1>2. ASSUME NEW p \in Process, Start(p) PROVE TypeOK'
      BY <1>0, <1>2 DEF TypeOK, Start, StartMigrate, CheckSchema, Goto, tables, Stage
  <1>3. ASSUME NEW p \in Process, Fault(p) PROVE TypeOK'
      BY <1>0, <1>3 DEF TypeOK, Fault, LockTimeout, StatementFails, UnlockFails, Crash, ReturnError,
                        Goto, tables, Stage
  <1>4. ASSUME NEW p \in Process, Run(p) PROVE TypeOK'
    <2>0. next[p] \in Version /\ 1 \in Version
        BY <1>0 DEF TypeOK, Version
    <2>1. CASE AcquireLock(p)
        BY <1>0, <2>0, <2>1 DEF TypeOK, AcquireLock, Goto, tables, Stage
    <2>8. CASE Unlock(p) \/ ConnectionEnds(p) \/ DeadlockDetected(p) \/ SecondScan(p)
        BY <1>0, <2>8 DEF TypeOK, Unlock, ConnectionEnds, DeadlockDetected, SecondScan,
                          ReturnError, Goto, tables, Stage
    <2>2. CASE CheckApplied(p)
        BY <1>0, <2>2, NextMigrationType DEF TypeOK, CheckApplied, Goto, tables, Stage
    <2>3. CASE CommitMigration(p)
        BY <1>0, <2>0, <2>3, NextMigrationType DEF TypeOK, CommitMigration
    <2>4. CASE IndexState(p)
      <3>1. next[p] \in Concurrent
          BY <1>0, <2>4 DEF IndexState, StageFacts, Applying
      <3>2. index[next[p]] \in {"none", "invalid", "valid"}
          BY <1>0, <3>1 DEF TypeOK
      <3> QED
          BY <1>0, <2>4, <3>2 DEF TypeOK, IndexState, Goto, tables, Stage
    <2>5. CASE DropInvalidIndex(p) \/ CreateIndex(p) \/ IndexBuilt(p)
        BY <1>0, <2>5 DEF TypeOK, DropInvalidIndex, CreateIndex, IndexBuilt, Goto, Stage
    <2>6. CASE VerifyIndex(p)
        BY <1>0, <2>6 DEF TypeOK, VerifyIndex, Goto, tables, Stage
    <2>7. CASE RecordIndexMigration(p)
        BY <1>0, <2>0, <2>7, NextMigrationType DEF TypeOK, RecordIndexMigration
    <2> QED
        BY <1>4, <2>1, <2>2, <2>3, <2>4, <2>5, <2>6, <2>7, <2>8 DEF Run
  <1> QED
      BY <1>1, <1>2, <1>3, <1>4 DEF Next

\* The session that leaves the loop frees the lock, and only a free lock is taken.
LEMMA LockStep == IInv /\ [Next]_vars => LockHeld'
  <1> SUFFICES ASSUME IInv, [Next]_vars PROVE LockHeld'
      OBVIOUS
  <1> USE ProcessAssumption
  <1>0. TypeOK /\ LockHeld
      BY DEF IInv
  <1>1. CASE UNCHANGED vars
      BY <1>0, <1>1 DEF LockHeld, vars
  <1>2. ASSUME NEW p \in Process, Start(p) PROVE LockHeld'
      BY <1>0, <1>2 DEF TypeOK, LockHeld, Start, StartMigrate, CheckSchema, Goto, Migrating
  <1>3. ASSUME NEW p \in Process, Fault(p) PROVE LockHeld'
      BY <1>0, <1>3 DEF TypeOK, LockHeld, Fault, LockTimeout, StatementFails, UnlockFails, Crash,
                        ReturnError, Goto, Migrating
  <1>4. ASSUME NEW p \in Process, Run(p) PROVE LockHeld'
    <2>1. CASE AcquireLock(p) \/ Unlock(p) \/ ConnectionEnds(p) \/ DeadlockDetected(p)
        BY <1>0, <2>1 DEF TypeOK, LockHeld, AcquireLock, Unlock, ConnectionEnds, DeadlockDetected,
                          ReturnError, Goto, Migrating
    <2>2. CASE CheckApplied(p) \/ CommitMigration(p) \/ RecordIndexMigration(p)
        BY <1>0, <2>2 DEF TypeOK, LockHeld, CheckApplied, CommitMigration,
                          RecordIndexMigration, NextMigration, Goto, Migrating
    <2>3. CASE IndexState(p) \/ DropInvalidIndex(p) \/ CreateIndex(p) \/ SecondScan(p)
               \/ IndexBuilt(p) \/ VerifyIndex(p)
        BY <1>0, <2>3 DEF TypeOK, LockHeld, IndexState, DropInvalidIndex, CreateIndex,
                          SecondScan, IndexBuilt, VerifyIndex, Goto, Migrating
    <2> QED
        BY <1>4, <2>1, <2>2, <2>3 DEF Run
  <1> QED
      BY <1>1, <1>2, <1>3, <1>4 DEF Next

\* The step of the lock holder that changes a table.
LEMMA TableStep ==
    ASSUME IInv, TypeOK', LockHeld', NEW p \in Process,
           stage[p] \in Migrating,
           \A q \in Process \ {p} : stage'[q] = stage[q] /\ next'[q] = next[q],
           recorded \subseteq recorded',
           AppliedInOrder', AppliedOnce', RecordedIndexValid',
           stage'[p] \in Migrating,
           next'[p] <= Latest[p],
           1..(next'[p] - 1) \subseteq recorded',
           stage'[p] = "finish" => 1..Latest[p] \subseteq recorded',
           stage'[p] \in Applying =>
                /\ next'[p] \notin recorded'
                /\ stage'[p] = "tx" <=> next'[p] \notin Concurrent
                /\ stage'[p] = "record" => index'[next'[p]] = "valid"
    PROVE  IInv'
  <1>1. \A v \in recorded \cap Concurrent : index'[v] = "valid"
      BY DEF RecordedIndexValid
  <1>2. LoopPosition'
      BY <1>1, OthersKept DEF LoopPosition
  <1>3. StageFacts'
      BY <1>1, OthersKept DEF StageFacts
  <1>4. ReadyMeansMigrated'
    <2> SUFFICES ASSUME NEW q \in Process, stage'[q] = "ready"
                 PROVE  /\ 1..Latest[q] \subseteq recorded'
                        /\ \A v \in Concurrent : v <= Latest[q] => index'[v] = "valid"
        BY DEF ReadyMeansMigrated
    <2>1. q # p
        BY DEF Migrating
    <2> QED
        BY <2>1, <1>1, OthersKept
  <1> QED
      BY <1>2, <1>3, <1>4 DEF IInv

\* A version that is done is left behind.
LEMMA LoopAdvance ==
    ASSUME IInv, NEW p \in Process, stage[p] \in Migrating \ {"unlock"},
           NextMigration(p), recorded \subseteq recorded', next[p] \in recorded'
    PROVE  /\ stage'[p] \in {"check", "finish"}
           /\ next'[p] <= Latest[p]
           /\ 1..(next'[p] - 1) \subseteq recorded'
           /\ stage'[p] = "finish" => 1..Latest[p] \subseteq recorded'
           /\ \A q \in Process \ {p} : stage'[q] = stage[q] /\ next'[q] = next[q]
  <1>1. /\ next[p] \in Nat /\ Latest[p] \in Nat
        /\ next[p] <= Latest[p] /\ 1..(next[p] - 1) \subseteq recorded
      BY VersionsAssumption DEF IInv, TypeOK, LoopPosition, Version
  <1>2. 1..next[p] \subseteq recorded'
      BY <1>1
  <1>3. CASE next[p] < Latest[p]
    <2>1. stage'[p] = "check" /\ next'[p] = next[p] + 1
        BY <1>3 DEF IInv, TypeOK, NextMigration, Goto
    <2> QED
        BY <1>1, <1>2, <1>3, <2>1 DEF IInv, TypeOK, NextMigration, Goto
  <1>4. CASE ~(next[p] < Latest[p])
    <2>1. stage'[p] = "finish" /\ next' = next /\ next[p] = Latest[p]
        BY <1>1, <1>4 DEF IInv, TypeOK, NextMigration, Goto
    <2> QED
        BY <1>1, <1>2, <2>1, <1>4 DEF IInv, TypeOK, NextMigration, Goto
  <1> QED
      BY <1>3, <1>4

\* The version the holder is at may be recorded: all before it are.
LEMMA RecordKeepsOrder ==
    ASSUME IInv, NEW p \in Process, stage[p] \in Migrating \ {"unlock"},
           recorded' = recorded \cup {next[p]}
    PROVE  AppliedInOrder'
  <1>1. next[p] \in Nat /\ 1..(next[p] - 1) \subseteq recorded
      BY DEF IInv, TypeOK, LoopPosition, Version
  <1>2. 1..next[p] \subseteq recorded'
      BY <1>1
  <1> QED
      BY <1>2 DEF IInv, AppliedInOrder

\* The starts and the faults of a process keep the invariant.
LEMMA StartStep ==
    ASSUME IInv, TypeOK', LockHeld', NEW p \in Process, Start(p) \/ Fault(p)
    PROVE  IInv'
  <1>0. TypeOK /\ AppliedInOrder
      BY DEF IInv
  <1>1. /\ UNCHANGED <<tables, next>>
        /\ \A q \in Process \ {p} : stage'[q] = stage[q]
      BY <1>0 DEF TypeOK, Start, StartMigrate, CheckSchema, Fault, LockTimeout,
                  StatementFails, UnlockFails, Crash, ReturnError, Goto
  <1>2. stage'[p] \in {"waiting", "ready", "failed", "unlock", "crashed"}
      BY <1>0 DEF TypeOK, Start, StartMigrate, CheckSchema, Fault, LockTimeout,
                  StatementFails, UnlockFails, Crash, ReturnError, Goto
  <1>3. ASSUME stage'[p] = "ready" PROVE 1..Latest[p] \subseteq recorded
    <2>1. \E v \in recorded : v >= Latest[p]
      <3>1. CASE UnlockFails(p)
        <4>1. 1..Latest[p] \subseteq recorded
            BY <3>1 DEF UnlockFails, IInv, LoopPosition, Migrating
        <4> QED
            BY <4>1, VersionsAssumption
      <3>2. CASE ~UnlockFails(p)
          BY <1>0, <1>3, <3>2 DEF TypeOK, Start, StartMigrate, CheckSchema, Fault, LockTimeout,
                                  StatementFails, Crash, ReturnError, Goto
      <3> QED
          BY <3>1, <3>2
    <2>2. PICK v \in recorded : v >= Latest[p]
        BY <2>1
    <2>3. v \in 1..Versions /\ Versions \in Nat /\ 1..v \subseteq recorded
        BY <1>0, VersionsAssumption DEF TypeOK, AppliedInOrder, Version
    <2>4. Latest[p] \in 1..Versions
        BY VersionsAssumption
    <2>5. 1..Latest[p] \subseteq 1..v
        BY <2>2, <2>3, <2>4
    <2> QED
        BY <2>3, <2>5
  <1> QED
      BY <1>1, <1>2, <1>3, QuietStep DEF Migrating, Applying

\* A step of the runner that leaves the tables alone.
LEMMA QuietRunStep ==
    ASSUME IInv, TypeOK', LockHeld', NEW p \in Process,
           \/ AcquireLock(p) \/ CheckApplied(p) \/ IndexState(p) \/ SecondScan(p)
           \/ VerifyIndex(p) \/ Unlock(p) \/ ConnectionEnds(p) \/ DeadlockDetected(p)
    PROVE  IInv'
  <1>0. TypeOK /\ StageFacts /\ LoopPosition /\ Latest[p] \in 1..Versions /\ Versions \in Nat
      BY VersionsAssumption DEF IInv
  <1>1. CASE AcquireLock(p)
    <2>1. stage'[p] = "check" /\ next'[p] = 1
        BY <1>0, <1>1 DEF TypeOK, AcquireLock, Goto
    <2>2. /\ UNCHANGED tables
          /\ \A q \in Process \ {p} : stage'[q] = stage[q] /\ next'[q] = next[q]
        BY <1>0, <1>1 DEF TypeOK, AcquireLock, Goto
    <2>3. 1 <= Latest[p] /\ 1..(1 - 1) \subseteq recorded
        BY <1>0
    <2> QED
        BY <2>1, <2>2, <2>3, QuietStep DEF Applying
  <1>2. CASE CheckApplied(p) /\ next[p] \in recorded
    <2>1. UNCHANGED tables /\ recorded' = recorded /\ NextMigration(p)
        BY <1>2 DEF CheckApplied, tables
    <2>2. stage[p] \in Migrating \ {"unlock"}
        BY <1>2 DEF CheckApplied, Migrating
    <2>3. /\ stage'[p] \in {"check", "finish"}
          /\ next'[p] <= Latest[p]
          /\ 1..(next'[p] - 1) \subseteq recorded'
          /\ stage'[p] = "finish" => 1..Latest[p] \subseteq recorded'
          /\ \A q \in Process \ {p} : stage'[q] = stage[q] /\ next'[q] = next[q]
        BY <1>2, <2>1, <2>2, LoopAdvance
    <2> QED
        BY <2>1, <2>3, QuietStep DEF Applying
  <1>3. CASE CheckApplied(p) /\ next[p] \notin recorded
    <2>1. /\ UNCHANGED <<tables, next>> /\ stage[p] = "check"
          /\ \A q \in Process \ {p} : stage'[q] = stage[q]
          /\ stage'[p] = IF next[p] \in Concurrent THEN "inspect" ELSE "tx"
        BY <1>0, <1>3 DEF TypeOK, CheckApplied, Goto
    <2>2. next[p] <= Latest[p] /\ 1..(next[p] - 1) \subseteq recorded
        BY <1>0, <2>1 DEF LoopPosition, Migrating
    <2> QED
        BY <1>3, <2>1, <2>2, QuietStep DEF Applying
  <1>4. CASE IndexState(p) \/ SecondScan(p) \/ VerifyIndex(p)
    <2>1. /\ UNCHANGED <<tables, next>>
          /\ stage[p] \in {"inspect", "building", "verify"}
          /\ \A q \in Process \ {p} : stage'[q] = stage[q]
        BY <1>0, <1>4 DEF TypeOK, IndexState, SecondScan, VerifyIndex, Goto
    <2>2. /\ next[p] <= Latest[p] /\ 1..(next[p] - 1) \subseteq recorded
          /\ next[p] \notin recorded /\ next[p] \in Concurrent
        BY <1>0, <2>1 DEF LoopPosition, StageFacts, Migrating, Applying
    <2>3. index[next[p]] \in {"none", "invalid", "valid"}
        BY <1>0, <2>2 DEF TypeOK
    <2>4. /\ stage'[p] \in {"drop", "create", "verify", "scanned", "record", "unlock"}
          /\ stage'[p] = "record" => index[next[p]] = "valid"
        BY <1>0, <1>4, <2>3 DEF TypeOK, IndexState, SecondScan, VerifyIndex, Goto
    <2> QED
        BY <2>1, <2>2, <2>4, QuietStep DEF Applying
  <1>5. CASE Unlock(p)
    <2>1. /\ UNCHANGED <<tables, next>>
          /\ \A q \in Process \ {p} : stage'[q] = stage[q]
          /\ stage'[p] \in {"ready", "failed"}
          /\ stage'[p] = "ready" => stage[p] = "finish"
        BY <1>0, <1>5 DEF TypeOK, Unlock, Goto
    <2>2. stage'[p] = "ready" => 1..Latest[p] \subseteq recorded
        BY <1>0, <2>1 DEF LoopPosition, Migrating
    <2> QED
        BY <2>1, <2>2, QuietStep DEF Migrating, Applying
  <1>6. CASE DeadlockDetected(p)
    <2>1. PICK q \in Process :
            /\ UNCHANGED <<tables, next>>
            /\ \A r \in Process \ {q} : stage'[r] = stage[r]
            /\ stage'[q] \in {"unlock", "failed"}
      <3>1. older \subseteq Process
          BY <1>0 DEF TypeOK
      <3> QED
          BY <1>0, <1>6, <3>1 DEF TypeOK, DeadlockDetected, ReturnError, Goto
    <2> QED
        BY <2>1, QuietStep DEF Migrating, Applying
  <1>7. CASE ConnectionEnds(p)
    <2>1. UNCHANGED <<tables, stage, next>> /\ stage[p] = "ready"
        BY <1>7 DEF ConnectionEnds
    <2>2. 1..Latest[p] \subseteq recorded
        BY <2>1 DEF IInv, ReadyMeansMigrated
    <2> QED
        BY <2>1, <2>2, QuietStep DEF Migrating, Applying
  <1> QED
      BY <1>1, <1>2, <1>3, <1>4, <1>5, <1>6, <1>7

\* A step that records a version.
LEMMA RecordStep ==
    ASSUME IInv, TypeOK', LockHeld', NEW p \in Process,
           CommitMigration(p) \/ RecordIndexMigration(p)
    PROVE  IInv'
  <1>0. TypeOK /\ StageFacts /\ AppliedOnce /\ RecordedIndexValid
      BY DEF IInv
  <1>1. /\ stage[p] \in Migrating \ {"unlock"}
        /\ recorded' = recorded \cup {next[p]}
        /\ NextMigration(p)
        /\ index' = index
      BY DEF CommitMigration, RecordIndexMigration, Migrating
  <1>2. next[p] \notin recorded /\ next[p] \in Version
      BY <1>0 DEF TypeOK, StageFacts, CommitMigration, RecordIndexMigration, Applying
  <1>3. AppliedInOrder'
      BY <1>1, RecordKeepsOrder
  <1>4. AppliedOnce'
    <2>1. CASE CommitMigration(p)
      <3>1. committed' = [committed EXCEPT ![next[p]] = @ + 1] /\ committed \in [Version -> Nat]
          BY <1>0, <2>1 DEF CommitMigration, TypeOK
      <3>2. committed[next[p]] \in Nat
          BY <3>1, <1>2
      <3>3. next[p] \notin Concurrent
          BY <1>0, <2>1 DEF CommitMigration, StageFacts, Applying
      <3>4. committed[next[p]] = 0
          BY <1>0, <1>2, <3>3 DEF AppliedOnce
      <3>5. committed'[next[p]] = 1 /\ \A v \in Version : v # next[p] => committed'[v] = committed[v]
          BY <3>1, <3>4, <1>2
      <3> QED
          BY <1>0, <1>1, <3>5 DEF AppliedOnce
    <2>2. CASE RecordIndexMigration(p)
      <3>1. committed' = committed /\ next[p] \in Concurrent
          BY <1>0, <2>2 DEF RecordIndexMigration, StageFacts, Applying
      <3> QED
          BY <1>0, <1>1, <3>1 DEF AppliedOnce
    <2> QED
        BY <2>1, <2>2
  <1>5. RecordedIndexValid'
    <2>1. next[p] \in Concurrent => index[next[p]] = "valid"
        BY <1>0 DEF StageFacts, CommitMigration, RecordIndexMigration, Applying
    <2> QED
        BY <1>0, <1>1, <2>1 DEF RecordedIndexValid
  <1>6. recorded \subseteq recorded' /\ next[p] \in recorded'
      BY <1>1
  <1>7. /\ stage'[p] \in {"check", "finish"}
        /\ next'[p] <= Latest[p]
        /\ 1..(next'[p] - 1) \subseteq recorded'
        /\ stage'[p] = "finish" => 1..Latest[p] \subseteq recorded'
        /\ \A q \in Process \ {p} : stage'[q] = stage[q] /\ next'[q] = next[q]
      BY <1>1, <1>6, LoopAdvance
  <1> QED
      BY <1>1, <1>3, <1>4, <1>5, <1>6, <1>7, TableStep DEF Migrating, Applying

\* A step that changes the index the holder is at, which is not recorded.
LEMMA IndexStep ==
    ASSUME IInv, TypeOK', LockHeld', NEW p \in Process,
           DropInvalidIndex(p) \/ CreateIndex(p) \/ IndexBuilt(p)
    PROVE  IInv'
  <1>0. TypeOK /\ StageFacts /\ LoopPosition /\ AppliedInOrder /\ AppliedOnce /\ RecordedIndexValid
      BY DEF IInv
  <1>1. /\ stage[p] \in {"drop", "create", "scanned"}
        /\ stage'[p] \in {"create", "building", "verify"}
        /\ recorded' = recorded /\ committed' = committed /\ next' = next
        /\ \A q \in Process \ {p} : stage'[q] = stage[q]
      BY <1>0 DEF TypeOK, DropInvalidIndex, CreateIndex, IndexBuilt, Goto
  <1>2. /\ next[p] <= Latest[p] /\ 1..(next[p] - 1) \subseteq recorded
        /\ next[p] \notin recorded /\ next[p] \in Concurrent
      BY <1>0, <1>1 DEF LoopPosition, StageFacts, Migrating, Applying
  <1>3. \A v \in Concurrent : v # next[p] => index'[v] = index[v]
      BY <1>0 DEF TypeOK, DropInvalidIndex, CreateIndex, IndexBuilt
  <1>4. AppliedInOrder' /\ AppliedOnce'
      BY <1>0, <1>1 DEF AppliedInOrder, AppliedOnce
  <1>5. RecordedIndexValid'
      BY <1>0, <1>1, <1>2, <1>3 DEF RecordedIndexValid
  <1>6. stage[p] \in Migrating /\ stage'[p] \in Migrating
      BY <1>1 DEF Migrating
  <1> QED
      BY <1>1, <1>2, <1>4, <1>5, <1>6, TableStep DEF Applying

\* Every step keeps the invariant.
LEMMA NextIInv == IInv /\ [Next]_vars => IInv'
  <1> SUFFICES ASSUME IInv, [Next]_vars PROVE IInv'
      OBVIOUS
  <1>1. TypeOK' /\ LockHeld'
      BY TypeStep, LockStep
  <1>2. CASE UNCHANGED vars
      BY <1>2 DEF IInv, vars, TypeOK, LockHeld, LoopPosition, StageFacts, AppliedInOrder,
                  AppliedOnce, RecordedIndexValid, ReadyMeansMigrated
  <1>3. ASSUME NEW p \in Process, Start(p) \/ Run(p) \/ Fault(p) PROVE IInv'
      BY <1>1, <1>3, StartStep, QuietRunStep, RecordStep, IndexStep DEF Run
  <1> QED
      BY <1>2, <1>3 DEF Next

\* The inductive invariant holds in every reachable state.
THEOREM InvariantHolds == Spec => []IInv
  BY InitIInv, NextIInv, PTL DEF Spec

\* Tables, lock and processes stay well typed.
THEOREM MigrationsTypeCorrect == Spec => []TypeOK
  <1>1. IInv => TypeOK
      BY DEF IInv
  <1> QED
      BY <1>1, InvariantHolds, PTL

\* One instance migrates at a time, wherever others crash, fail or time out.
THEOREM OnlyOneMigrates == Spec => []OneMigrator
  <1>1. IInv => OneMigrator
      BY DEF IInv, LockHeld, OneMigrator
  <1> QED
      BY <1>1, InvariantHolds, PTL

\* Versions are recorded in order without gaps.
THEOREM RecordedInOrder == Spec => []AppliedInOrder
  <1>1. IInv => AppliedInOrder
      BY DEF IInv
  <1> QED
      BY <1>1, InvariantHolds, PTL

\* A transactional migration takes effect exactly once.
THEOREM TakesEffectOnce == Spec => []AppliedOnce
  <1>1. IInv => AppliedOnce
      BY DEF IInv
  <1> QED
      BY <1>1, InvariantHolds, PTL

\* A recorded index is valid.
THEOREM RecordedIndexesValid == Spec => []RecordedIndexValid
  <1>1. IInv => RecordedIndexValid
      BY DEF IInv
  <1> QED
      BY <1>1, InvariantHolds, PTL

\* A process that serves finds the schema of its binary.
THEOREM ReadyIsMigrated == Spec => []ReadyMeansMigrated
  <1>1. IInv => ReadyMeansMigrated
      BY DEF IInv
  <1> QED
      BY <1>1, InvariantHolds, PTL

\* The database is sound at every moment, whoever migrates it and wherever runs die.
THEOREM DatabaseSound == Spec => []MigrationsSound
  BY MigrationsTypeCorrect, RecordedInOrder, TakesEffectOnce, OnlyOneMigrates,
     RecordedIndexesValid, PTL DEF MigrationsSound
=============================================================================

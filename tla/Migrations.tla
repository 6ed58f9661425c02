----------------------------- MODULE Migrations -----------------------------
(***************************************************************************)
(* Schema migrations at start-up: RunMigrations and CheckSchema of the     *)
(* PostgreSQL store (migrations.go, store.go), run by several processes,   *)
(* of old and new binaries, against one database.                          *)
(*                                                                         *)
(* Each statement of the runner is a step.  A transactional migration and  *)
(* the row that records it commit together; a concurrent index is created, *)
(* made valid and recorded in separate steps, between which the process    *)
(* may die.  A session that ends frees the advisory lock.                  *)
(*                                                                         *)
(* PostgreSQL (external).  CREATE INDEX CONCURRENTLY enters the index as   *)
(* invalid, and before it becomes valid waits for every session whose      *)
(* snapshot is older than its second scan.  A session that waits in        *)
(* SELECT pg_advisory_lock() holds such a snapshot, so the build and that  *)
(* session wait for each other, and the deadlock detector cancels one of   *)
(* the two statements.                                                     *)
(*                                                                         *)
(* Data abstraction.  A version stands for its file; Concurrent are those  *)
(* that start with the concurrent-index directive.  A missing table        *)
(* schema_migrations reads as an empty one, as it does in the code.        *)
(***************************************************************************)
EXTENDS Integers, FiniteSets

CONSTANTS
    Process,     \* processes that start against the database
    Latest,      \* latestMigrationVersion of each process's binary
    Versions,    \* the newest version of all
    Concurrent,  \* versions that build an index concurrently
    None,        \* no lock holder
    MaxStarts,   \* bound: starts of a process
    MaxFaults    \* bound: crashes, failed statements and lock timeouts

\* The first migration creates schema_migrations and is transactional.
ASSUME VersionsAssumption ==
    /\ Versions \in Nat \ {0}
    /\ Latest \in [Process -> 1..Versions]
    /\ Concurrent \subseteq 2..Versions

ASSUME ProcessAssumption ==
    /\ None \notin Process
    /\ MaxStarts \in Nat
    /\ MaxFaults \in Nat

VARIABLES
    recorded,   \* table schema_migrations
    committed,  \* how often the transaction of a version has committed
    index,      \* the index of each concurrent version, as pg_index shows it
    lock,       \* the session that holds the advisory lock
    older,      \* sessions with a snapshot the running index build waits for
    stage,      \* where each process is
    next,       \* the version its loop is at
    starts,     \* starts of each process so far
    faults      \* faults so far

vars == <<recorded, committed, index, lock, older, stage, next, starts, faults>>

tables == <<recorded, committed, index>>

Version == 1..Versions

\* "tx" has executed the SQL and not committed; "failed" leaves by way of
\* "unlock", the deferred pg_advisory_unlock after an error.
Stage == {"idle", "waiting", "check", "tx", "inspect", "drop", "create",
          "building", "scanned", "verify", "record", "unlock", "finish",
          "ready", "failed", "crashed"}

Migrating == {"check", "tx", "inspect", "drop", "create", "building",
              "scanned", "verify", "record", "unlock", "finish"}

Running == Migrating \cup {"waiting"}

-----------------------------------------------------------------------------
(* Helpers *)

Goto(p, s) == stage' = [stage EXCEPT ![p] = s]

\* Mutant: an error is logged and the loop goes on.
ReturnError_Continues(p) ==
    /\ Goto(p, IF next[p] < Latest[p] THEN "check" ELSE "finish")
    /\ next' = [next EXCEPT ![p] = IF @ < Latest[p] THEN @ + 1 ELSE @]

\* An error returns from RunMigrations, through the deferred unlock.
ReturnError(p) == Goto(p, "unlock") /\ UNCHANGED next

\* runMigration returns nil: on to the next version, or out of the loop.
NextMigration(p) ==
    IF next[p] < Latest[p]
    THEN Goto(p, "check") /\ next' = [next EXCEPT ![p] = @ + 1]
    ELSE Goto(p, "finish") /\ UNCHANGED next

-----------------------------------------------------------------------------
(* Processes *)

\* buildServer or the migrate command: Migrate connects and asks for the lock.
StartMigrate(p) ==
    /\ stage[p] \in {"idle", "failed", "crashed"}
    /\ starts[p] < MaxStarts
    /\ Goto(p, "waiting")
    /\ starts' = [starts EXCEPT ![p] = @ + 1]
    /\ UNCHANGED <<tables, lock, older, next, faults>>

\* A server that does not migrate compares the newest version recorded with the
\* newest it embeds.
CheckSchema(p) ==
    /\ stage[p] \in {"idle", "failed", "crashed"}
    /\ starts[p] < MaxStarts
    /\ starts' = [starts EXCEPT ![p] = @ + 1]
    /\ Goto(p, IF \E v \in recorded : v >= Latest[p] THEN "ready" ELSE "failed")
    /\ UNCHANGED <<tables, lock, older, next, faults>>

\* Mutant: pg_try_advisory_lock, its result ignored.
AcquireLock_Ignored(p) ==
    /\ stage[p] = "waiting"
    /\ lock' = IF lock = None THEN p ELSE lock
    /\ older' = older \ {p}
    /\ Goto(p, "check")
    /\ next' = [next EXCEPT ![p] = 1]
    /\ UNCHANGED <<tables, starts, faults>>

\* pg_advisory_lock returns; the waiting statement's snapshot is gone.
AcquireLock(p) ==
    /\ stage[p] = "waiting"
    /\ lock = None
    /\ lock' = p
    /\ older' = older \ {p}
    /\ Goto(p, "check")
    /\ next' = [next EXCEPT ![p] = 1]
    /\ UNCHANGED <<tables, starts, faults>>

\* runMigration skips what is recorded.
CheckApplied(p) ==
    /\ stage[p] = "check"
    /\ \/ next[p] \in recorded /\ NextMigration(p)
       \/ /\ next[p] \notin recorded
          /\ Goto(p, IF next[p] \in Concurrent THEN "inspect" ELSE "tx")
          /\ UNCHANGED next
    /\ UNCHANGED <<tables, lock, older, starts, faults>>

\* The file's SQL and its INSERT INTO schema_migrations commit together.
CommitMigration(p) ==
    /\ stage[p] = "tx"
    /\ recorded' = recorded \cup {next[p]}
    /\ committed' = [committed EXCEPT ![next[p]] = @ + 1]
    /\ NextMigration(p)
    /\ UNCHANGED <<index, lock, older, starts, faults>>

\* Mutant: an index that exists counts as built.
IndexState_Trusting(p) ==
    /\ stage[p] = "inspect"
    /\ Goto(p, IF index[next[p]] = "none" THEN "create" ELSE "record")
    /\ UNCHANGED <<tables, lock, older, next, starts, faults>>

\* Mutant: an invalid index is not dropped.
IndexState_KeepsInvalid(p) ==
    /\ stage[p] = "inspect"
    /\ Goto(p, IF index[next[p]] = "none" THEN "create" ELSE "verify")
    /\ UNCHANGED <<tables, lock, older, next, starts, faults>>

\* runConcurrentIndexMigration looks for the remains of an earlier run.
IndexState(p) ==
    /\ stage[p] = "inspect"
    /\ Goto(p, CASE index[next[p]] = "invalid" -> "drop"
                 [] index[next[p]] = "none"    -> "create"
                 [] index[next[p]] = "valid"   -> "verify")
    /\ UNCHANGED <<tables, lock, older, next, starts, faults>>

DropInvalidIndex(p) ==
    /\ stage[p] = "drop"
    /\ index' = [index EXCEPT ![next[p]] = "none"]
    /\ Goto(p, "create")
    /\ UNCHANGED <<recorded, committed, lock, older, next, starts, faults>>

\* CREATE INDEX CONCURRENTLY enters the index, makes its second scan and waits for
\* the sessions with an older snapshot.
CreateIndex(p) ==
    /\ stage[p] = "create"
    /\ index[next[p]] = "none"
    /\ index' = [index EXCEPT ![next[p]] = "invalid"]
    /\ Goto(p, "building")
    /\ UNCHANGED <<recorded, committed, lock, older, next, starts, faults>>

SecondScan(p) ==
    /\ stage[p] = "building"
    /\ older' = {q \in Process : stage[q] = "waiting"}
    /\ Goto(p, "scanned")
    /\ UNCHANGED <<tables, lock, next, starts, faults>>

IndexBuilt(p) ==
    /\ stage[p] = "scanned"
    /\ older = {}
    /\ index' = [index EXCEPT ![next[p]] = "valid"]
    /\ Goto(p, "verify")
    /\ UNCHANGED <<recorded, committed, lock, older, next, starts, faults>>

\* The index is inspected again; one that is not valid is an error.
VerifyIndex(p) ==
    /\ stage[p] = "verify"
    /\ IF index[next[p]] = "valid" THEN Goto(p, "record") ELSE Goto(p, "unlock")
    /\ UNCHANGED <<tables, lock, older, next, starts, faults>>

RecordIndexMigration(p) ==
    /\ stage[p] = "record"
    /\ recorded' = recorded \cup {next[p]}
    /\ NextMigration(p)
    /\ UNCHANGED <<committed, index, lock, older, starts, faults>>

\* Mutant: a failed migration is logged and the server starts.
Unlock_Serves(p) ==
    /\ stage[p] \in {"finish", "unlock"}
    /\ lock' = None
    /\ Goto(p, "ready")
    /\ UNCHANGED <<tables, older, next, starts, faults>>

\* Mutant: an error returns without the unlock, and the connection is pooled.
Unlock_OnSuccess(p) ==
    /\ stage[p] \in {"finish", "unlock"}
    /\ lock' = IF stage[p] = "finish" THEN None ELSE lock
    /\ Goto(p, IF stage[p] = "finish" THEN "ready" ELSE "failed")
    /\ UNCHANGED <<tables, older, next, starts, faults>>

\* The deferred unlock, after the last migration or after an error; a server
\* that fails to migrate does not serve.
Unlock(p) ==
    /\ stage[p] \in {"finish", "unlock"}
    /\ lock' = None
    /\ Goto(p, IF stage[p] = "finish" THEN "ready" ELSE "failed")
    /\ UNCHANGED <<tables, older, next, starts, faults>>

\* The connection goes back to the pool whether or not it was unlocked.  The pool
\* closes it when it gets old, or with the server.
ConnectionEnds(p) ==
    /\ stage[p] = "ready"
    /\ lock = p
    /\ lock' = None
    /\ UNCHANGED <<tables, older, stage, next, starts, faults>>

\* The deadlock detector cancels the index build, which leaves the index
\* invalid, or the statement of a session the build waits for.
DeadlockDetected(p) ==
    /\ stage[p] = "scanned"
    /\ \/ /\ older # {}
          /\ older' = {}
          /\ ReturnError(p)
       \/ \E q \in older :
            /\ older' = older \ {q}
            /\ Goto(q, "failed")
            /\ UNCHANGED next
    /\ UNCHANGED <<tables, lock, starts, faults>>

\* The 60 seconds of lockCtx run out.
LockTimeout(p) ==
    /\ faults < MaxFaults
    /\ stage[p] = "waiting"
    /\ faults' = faults + 1
    /\ older' = older \ {p}
    /\ Goto(p, "failed")
    /\ UNCHANGED <<tables, lock, next, starts>>

\* The statement a process is at returns an error; a transaction is rolled back.
StatementFails(p) ==
    /\ faults < MaxFaults
    /\ stage[p] \in Migrating \ {"unlock", "finish"}
    /\ faults' = faults + 1
    /\ older' = IF stage[p] = "scanned" THEN {} ELSE older
    /\ ReturnError(p)
    /\ UNCHANGED <<tables, lock, starts>>

\* pg_advisory_unlock returns an error, which is ignored: the server serves and its
\* pool keeps the lock.  (A call that times out closes its connection, and a process
\* that failed to migrate closes its pool: either frees the lock.)
UnlockFails(p) ==
    /\ faults < MaxFaults
    /\ stage[p] = "finish"
    /\ faults' = faults + 1
    /\ Goto(p, "ready")
    /\ UNCHANGED <<tables, lock, older, next, starts>>

\* The process dies, or its connection does: PostgreSQL ends the session.
Crash(p) ==
    /\ faults < MaxFaults
    /\ stage[p] \in Running
    /\ faults' = faults + 1
    /\ lock' = IF lock = p THEN None ELSE lock
    /\ older' = IF stage[p] = "scanned" THEN {} ELSE older \ {p}
    /\ Goto(p, "crashed")
    /\ UNCHANGED <<tables, next, starts>>

-----------------------------------------------------------------------------
(* Specification *)

\* A database nobody has migrated.
Init ==
    /\ recorded = {}
    /\ committed = [v \in Version |-> 0]
    /\ index = [v \in Concurrent |-> "none"]
    /\ lock = None
    /\ older = {}
    /\ stage = [p \in Process |-> "idle"]
    /\ next = [p \in Process |-> 1]
    /\ starts = [p \in Process |-> 0]
    /\ faults = 0

Start(p) == StartMigrate(p) \/ CheckSchema(p)

Run(p) ==
    \/ AcquireLock(p) \/ CheckApplied(p) \/ CommitMigration(p)
    \/ IndexState(p) \/ DropInvalidIndex(p) \/ CreateIndex(p)
    \/ SecondScan(p) \/ IndexBuilt(p) \/ VerifyIndex(p)
    \/ RecordIndexMigration(p) \/ Unlock(p) \/ ConnectionEnds(p) \/ DeadlockDetected(p)

Fault(p) == LockTimeout(p) \/ StatementFails(p) \/ UnlockFails(p) \/ Crash(p)

Next == \E p \in Process : Start(p) \/ Run(p) \/ Fault(p)

Spec == Init /\ [][Next]_vars

\* A running process goes on, PostgreSQL grants a free lock and resolves a deadlock,
\* and a pool does not keep a connection for ever.  Starts and faults are nobody's duty.
FairSpec == Spec /\ \A p \in Process : WF_vars(Run(p))

-----------------------------------------------------------------------------
(* Properties *)

TypeOK ==
    /\ recorded \subseteq Version
    /\ committed \in [Version -> Nat]
    /\ index \in [Concurrent -> {"none", "invalid", "valid"}]
    /\ lock \in Process \cup {None}
    /\ older \subseteq Process
    /\ stage \in [Process -> Stage]
    /\ next \in [Process -> Version]
    /\ starts \in [Process -> Nat]
    /\ faults \in Nat

\* Versions are recorded in order without gaps, whatever binaries ran and
\* wherever they died: CheckSchema looks at the newest version only.
AppliedInOrder == \A v \in recorded : 1..v \subseteq recorded

\* A transactional migration takes effect once, together with its record.
AppliedOnce ==
    \A v \in Version \ Concurrent : committed[v] = IF v \in recorded THEN 1 ELSE 0

\* A recorded index is valid: an interrupted build is repaired before it counts.
RecordedIndexValid == \A v \in recorded \cap Concurrent : index[v] = "valid"

\* Only one instance migrates at a time (persistence.md).
OneMigrator == \A p, q \in Process :
    stage[p] \in Migrating /\ stage[q] \in Migrating => p = q

\* A process serves only if every migration of its binary has been applied.
ReadyMeansMigrated ==
    \A p \in Process : stage[p] = "ready" =>
        /\ 1..Latest[p] \subseteq recorded
        /\ \A v \in Concurrent : v <= Latest[p] => index[v] = "valid"

\* Nobody waits for ever: a run of the migrations ends, although sessions and
\* index builds wait for each other.
RunsEnd == \A p \in Process : stage[p] \in Running ~> stage[p] \notin Running

\* Once faults have stopped, a run that holds the lock, or one that waits for it,
\* migrates the database as far as every binary knows it, deadlocks and the remains
\* of crashed runs notwithstanding.  (Beyond that an old binary may be the one that
\* survives a deadlock.)
MigratedInTheEnd ==
    \A p \in Process :
        stage[p] \in Migrating \ {"unlock"} /\ faults = MaxFaults
            ~> \A v \in 1..Versions : (\A q \in Process : v <= Latest[q]) => v \in recorded

\* The database is sound at every moment, also between the statements of a run and
\* after a crash: versions are recorded in order, once and by one process, and the
\* recorded indexes are valid.
MigrationsSound ==
    /\ TypeOK
    /\ AppliedInOrder
    /\ AppliedOnce
    /\ OneMigrator
    /\ RecordedIndexValid
=============================================================================

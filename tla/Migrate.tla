------------------------------- MODULE Migrate -------------------------------
(***************************************************************************)
(* Migrations at start-up (internal/adapter/postgres/migrate.go): replicas *)
(* of different versions apply their embedded files to one database, each  *)
(* file in a transaction of its own under an advisory lock, while replicas *)
(* fail, crash and are started again.                                      *)
(*                                                                         *)
(* Files are numbered in the order of their names; a version carries the   *)
(* files up to its last one, since migrations are only ever added.         *)
(***************************************************************************)
EXTENDS Integers, FiniteSets

CONSTANTS
  Replicas,     \* the processes that start
  Last,         \* Last[r]: the last migration file embedded in replica r
  MaxCrashes,   \* how often replicas fail or crash, all together
  NONE          \* nobody

ASSUME MigrateAssumption ==
  /\ Last \in [Replicas -> Nat]
  /\ MaxCrashes \in Nat
  /\ NONE \notin Replicas

VARIABLES
  pc,           \* where applyMigration is: "begin", "lock", "read", "apply",
                \* "record", "commit", or "skip"; "done" or "down" after it
  at,           \* the file a replica is at
  holder,       \* who holds the advisory lock, or NONE
  ledger,       \* table schema_migrations: the names committed
  runs,         \* how often the SQL of each file has been committed
  crashes       \* failures and crashes so far

vars == <<pc, at, holder, ledger, runs, crashes>>

Files == UNION {1..Last[r] : r \in Replicas}

\* Where a replica is inside its transaction, and where it has the lock.
Locked == {"read", "apply", "record", "commit", "skip"}
InTransaction == Locked \cup {"lock"}

-----------------------------------------------------------------------------
(***************************************************************************)
(* applyMigration, a statement a step.                                     *)
(***************************************************************************)
\* Mutant: the loop ends one file early.
FinishEarly(r) ==
  /\ pc[r] = "begin"
  /\ at[r] >= Last[r]
  /\ pc' = [pc EXCEPT ![r] = "done"]
  /\ UNCHANGED <<at, holder, ledger, runs, crashes>>

\* The loop of runMigrations is over.
Finish(r) ==
  /\ pc[r] = "begin"
  /\ at[r] > Last[r]
  /\ pc' = [pc EXCEPT ![r] = "done"]
  /\ UNCHANGED <<at, holder, ledger, runs, crashes>>

Begin(r) ==
  /\ pc[r] = "begin"
  /\ at[r] <= Last[r]
  /\ pc' = [pc EXCEPT ![r] = "lock"]
  /\ UNCHANGED <<at, holder, ledger, runs, crashes>>

\* Mutant: the lock is tried, not waited for.
LockTried(r) ==
  /\ pc[r] = "lock"
  /\ holder' = IF holder = NONE THEN r ELSE holder
  /\ pc' = [pc EXCEPT ![r] = "read"]
  /\ UNCHANGED <<at, ledger, runs, crashes>>

\* pg_advisory_xact_lock.
Lock(r) ==
  /\ pc[r] = "lock"
  /\ holder = NONE
  /\ holder' = r
  /\ pc' = [pc EXCEPT ![r] = "read"]
  /\ UNCHANGED <<at, ledger, runs, crashes>>

\* CREATE TABLE IF NOT EXISTS schema_migrations, then SELECT EXISTS, which
\* sees what is committed when it starts.
ReadLedger(r) ==
  /\ pc[r] = "read"
  /\ pc' = [pc EXCEPT ![r] = IF at[r] \in ledger THEN "skip" ELSE "apply"]
  /\ UNCHANGED <<at, holder, ledger, runs, crashes>>

\* The SQL of the file; its effects and the ledger's row are the
\* transaction's own until it commits.
Apply(r) ==
  /\ pc[r] = "apply"
  /\ pc' = [pc EXCEPT ![r] = "record"]
  /\ UNCHANGED <<at, holder, ledger, runs, crashes>>

\* INSERT INTO schema_migrations.
Record(r) ==
  /\ pc[r] = "record"
  /\ pc' = [pc EXCEPT ![r] = "commit"]
  /\ UNCHANGED <<at, holder, ledger, runs, crashes>>

\* What becomes visible at the commit: the SQL and its row together, or
\* nothing if the file was found applied.
Effects(r) ==
  IF pc[r] = "skip"
  THEN UNCHANGED <<ledger, runs>>
  ELSE /\ ledger' = ledger \cup {at[r]}
       /\ runs' = [runs EXCEPT ![at[r]] = @ + 1]

\* Mutant: the lock is the session's and outlives the transaction.
ReleaseKeeps(r) == UNCHANGED holder

\* The end of the transaction gives the lock back.
Release(r) == holder' = IF holder = r THEN NONE ELSE holder

\* Mutant: the loop moves on twice.
CommitMovesTwice(r) ==
  /\ pc[r] \in {"commit", "skip"}
  /\ Effects(r)
  /\ Release(r)
  /\ at' = [at EXCEPT ![r] = @ + 2]
  /\ pc' = [pc EXCEPT ![r] = "begin"]
  /\ UNCHANGED crashes

Commit(r) ==
  /\ pc[r] \in {"commit", "skip"}
  /\ Effects(r)
  /\ Release(r)
  /\ at' = [at EXCEPT ![r] = @ + 1]
  /\ pc' = [pc EXCEPT ![r] = "begin"]
  /\ UNCHANGED crashes

\* A statement fails and the replica does not start, or the process dies: an
\* open transaction is rolled back.
Crash(r) ==
  /\ pc[r] # "down"
  /\ crashes < MaxCrashes
  /\ crashes' = crashes + 1
  /\ Release(r)
  /\ pc' = [pc EXCEPT ![r] = "down"]
  /\ UNCHANGED <<at, ledger, runs>>

\* The commit takes effect and its answer is lost.
CommitUnanswered(r) ==
  /\ pc[r] \in {"commit", "skip"}
  /\ crashes < MaxCrashes
  /\ crashes' = crashes + 1
  /\ Effects(r)
  /\ Release(r)
  /\ pc' = [pc EXCEPT ![r] = "down"]
  /\ UNCHANGED at

\* The process is started again: the loop begins at the first file.
Restart(r) ==
  /\ pc[r] = "down"
  /\ pc' = [pc EXCEPT ![r] = "begin"]
  /\ at' = [at EXCEPT ![r] = 1]
  /\ UNCHANGED <<holder, ledger, runs, crashes>>

-----------------------------------------------------------------------------
Init ==
  /\ pc = [r \in Replicas |-> "begin"]
  /\ at = [r \in Replicas |-> 1]
  /\ holder = NONE
  /\ ledger = {}
  /\ runs = [m \in Files |-> 0]
  /\ crashes = 0

Proceed(r) ==
  \/ Finish(r)
  \/ Begin(r)
  \/ Lock(r)
  \/ ReadLedger(r)
  \/ Apply(r)
  \/ Record(r)
  \/ Commit(r)
  \/ Restart(r)

Next == \E r \in Replicas : Proceed(r) \/ Crash(r) \/ CommitUnanswered(r)

Spec == Init /\ [][Next]_vars

\* A started replica runs on, a supervisor restarts it, and PostgreSQL serves
\* a lock's waiters.
FairSpec == Spec /\ \A r \in Replicas : WF_vars(Proceed(r))

-----------------------------------------------------------------------------
(***************************************************************************)
(* What start-up promises.                                                 *)
(***************************************************************************)

\* The variables have their types.
TypeOK ==
  /\ pc \in [Replicas -> InTransaction \cup {"begin", "done", "down"}]
  /\ at \in [Replicas -> Nat \ {0}]
  /\ holder \in Replicas \cup {NONE}
  /\ ledger \subseteq Files
  /\ runs \in [Files -> Nat]
  /\ crashes \in Nat

\* The SQL of a file is committed once if the ledger names it and never
\* otherwise, whichever replicas start together and wherever they die.
AppliedExactlyOnce == \A m \in Files : runs[m] = IF m \in ledger THEN 1 ELSE 0

\* No file is applied before the files whose names sort before it, although
\* replicas of older and newer versions interleave.
AppliedInOrder == \A m \in ledger : \A i \in 1..m : i \in ledger

\* A replica that goes on to serve finds every file of its version applied.
ServesMigrated == \A r \in Replicas : pc[r] = "done" => 1..Last[r] \subseteq ledger

\* Replicas waiting for each other's lock all get through.
AllStart == \A r \in Replicas : <>(pc[r] = "done")
===============================================================================

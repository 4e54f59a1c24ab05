------------------------------- MODULE PgStore --------------------------------
(***************************************************************************)
(* The store statement by statement: the transactions of CreateOrGet and   *)
(* Complete on PostgreSQL under READ COMMITTED, with the admission gate of *)
(* each replica, its bounded connection pool, the advisory lock of all     *)
(* replicas and row locks.  ClaimNext, Retry, Fail and RecoverExpired are  *)
(* single autocommitted statements: one step, taken when the rows they     *)
(* wait for are free.                                                      *)
(*                                                                         *)
(* A table maps a key to its versions: the committed row and, while a      *)
(* transaction has written it, the uncommitted one with its writer, who    *)
(* then holds the row's lock.  A client that gives up (its context ends)   *)
(* returns connection and gate at once, while the server goes on with what *)
(* it was sent until it notices.                                           *)
(***************************************************************************)
EXTENDS Integers, FiniteSets

CONSTANTS
  Pairs, Keys, Rates, Providers, Dates, Updates, MaxActive, MaxAttempts,
  LeaseDuration, RetryDelays, RecoveryBatch, ClockBound, NULL,  \* as in QuoteStore
  Procs,          \* the replicas of the service
  Admissions,     \* calls of CreateOrGet
  Workers,        \* worker goroutines
  Host,           \* the replica of an admission or a worker
  PoolSize,       \* poolConfig.MaxConns
  MaxGiveUps      \* bound on the calls whose client gives up

Calls == Admissions \cup Workers

ASSUME PgAssumption ==
  /\ Host \in [Calls -> Procs]
  /\ Admissions \cap Workers = {}
  /\ PoolSize \in Nat \ {0}
  /\ MaxGiveUps \in Nat
  /\ Dates \subseteq Nat
  /\ Updates \subseteq Nat
  /\ MaxActive \in Nat \ {0}
  /\ MaxAttempts \in Nat \ {0}
  /\ LeaseDuration \in Nat \ {0}
  /\ RetryDelays \subseteq Nat
  /\ RecoveryBatch \in Nat \ {0}
  /\ ClockBound \in Nat

VARIABLES
  heap,           \* quote_updates: request_seq -> versions
  quotes,         \* latest_quotes: pair -> versions
  seq,            \* the next value of the identity column
  now,            \* the database clock
  lock,           \* the admission that holds pg_advisory_xact_lock, or NULL
  gate,           \* admissionGate of each replica: its holder, or NULL
  pc,             \* where each call is
  arg,            \* its arguments
  snap,           \* the snapshot its current statement reads
  gone,           \* the calls given up whose transaction is still open
  giveUps         \* calls given up so far

vars == <<heap, quotes, seq, now, lock, gate, pc, arg, snap, gone, giveUps>>

-----------------------------------------------------------------------------
(***************************************************************************)
(* Versions.  What has been committed is what QuoteStore calls its tables. *)
(***************************************************************************)
Committed(h) == [x \in {y \in DOMAIN h : h[y].row # NULL} |-> h[x].row]

Store == INSTANCE QuoteStore WITH updates <- Committed(heap), latest <- Committed(quotes)

\* NULL is no value of a column, no row and no call.
ASSUME PgNullAssumption ==
  /\ NULL \notin Nat /\ NULL \notin Keys
  /\ NULL \notin Rates /\ NULL \notin Providers /\ NULL # "set"
  /\ NULL \notin Store!Quote /\ NULL \notin Store!FailureCodes
  /\ NULL \notin Store!UpdateRow /\ NULL \notin Store!LatestRow
  /\ NULL \notin Calls

LockedBy(h, x) == IF x \in DOMAIN h THEN h[x].by ELSE NULL

\* A write of an open transaction: the committed version stays visible.
Written(h, x, c, r) ==
  [y \in DOMAIN h \cup {x} |->
     IF y # x THEN h[y]
     ELSE [row |-> IF x \in DOMAIN h THEN h[x].row ELSE NULL, next |-> r, by |-> c]]

\* A write that is committed by its own statement.
Replaced(h, x, r) == [h EXCEPT ![x].row = r]

\* The end of c's transaction releases its rows.
Ended(h, c, committed) ==
  [x \in {y \in DOMAIN h : h[y].by = c => committed \/ h[y].row # NULL} |->
     IF h[x].by # c THEN h[x]
     ELSE [row |-> IF committed THEN h[x].next ELSE h[x].row, next |-> NULL, by |-> NULL]]

Locked == {u \in DOMAIN heap : heap[u].by # NULL}

\* The rows the unique index knows a key from, committed or not.
KeyHolders(k) ==
  {u \in DOMAIN heap :
     /\ k # NULL
     /\ \/ heap[u].row # NULL /\ heap[u].row.idempotency_key = k
        \/ heap[u].by # NULL /\ heap[u].next.idempotency_key = k}

\* Inside a transaction, as the server sees it.
OpenPc == {"lock", "locked", "insert", "settle", "update", "upsert", "commit", "rollback",
           "stranded"}
Open(c) == pc[c] \in OpenPc

\* A connection is in use as long as its client waits for it.
FreeConnection(p) ==
  Cardinality({c \in Calls \ gone : Host[c] = p /\ Open(c)}) < PoolSize

Goto(c, label) == pc' = [pc EXCEPT ![c] = label]

-----------------------------------------------------------------------------
(***************************************************************************)
(* CreateOrGet.                                                            *)
(***************************************************************************)
CreateOrGet(c) ==
  /\ pc[c] = "new"
  /\ \E p \in Pairs, k \in Keys \cup {NULL} :
       arg' = [arg EXCEPT ![c] = [pair |-> p, key |-> k]]
  /\ Goto(c, "gate")
  /\ UNCHANGED <<heap, quotes, seq, now, lock, gate, snap, gone, giveUps>>

\* Mutant: admissions go to the pool without the gate.
EnterNoGate(c) ==
  /\ pc[c] = "gate"
  /\ Goto(c, "begin")
  /\ UNCHANGED <<heap, quotes, seq, now, lock, gate, arg, snap, gone, giveUps>>

\* store.admissionGate <- struct{}{}.
EnterGate(c) ==
  /\ pc[c] = "gate" /\ gate[Host[c]] = NULL
  /\ gate' = [gate EXCEPT ![Host[c]] = c]
  /\ Goto(c, "begin")
  /\ UNCHANGED <<heap, quotes, seq, now, lock, arg, snap, gone, giveUps>>

\* BeginTx takes a connection; the locking statement reads a snapshot from
\* before the lock is granted.
BeginAdmission(c) ==
  /\ pc[c] = "begin" /\ c \in Admissions
  /\ FreeConnection(Host[c])
  /\ snap' = [snap EXCEPT ![c] = Committed(heap)]
  /\ Goto(c, "lock")
  /\ UNCHANGED <<heap, quotes, seq, now, lock, gate, arg, gone, giveUps>>

\* Mutant: the lock is taken in shared mode.
AdvisoryLockShared(c) ==
  /\ pc[c] = "lock"
  /\ lock' = c
  /\ Goto(c, "locked")
  /\ UNCHANGED <<heap, quotes, seq, now, gate, arg, snap, gone, giveUps>>

AdvisoryLock(c) ==
  /\ pc[c] = "lock" /\ lock = NULL
  /\ lock' = c
  /\ Goto(c, "locked")
  /\ UNCHANGED <<heap, quotes, seq, now, gate, arg, snap, gone, giveUps>>

\* Mutant: the lookup and the count read the snapshot of the statement that
\* waited for the lock (REPEATABLE READ, or the lock moved into the CTE).
StartInsertOnOldSnapshot(c) ==
  /\ pc[c] = "locked" /\ c \notin gone
  /\ Goto(c, "insert")
  /\ UNCHANGED <<heap, quotes, seq, now, lock, gate, arg, snap, gone, giveUps>>

\* The next statement starts: READ COMMITTED gives it a snapshot of its own.
StartInsert(c) ==
  /\ pc[c] = "locked" /\ c \notin gone
  /\ snap' = [snap EXCEPT ![c] = Committed(heap)]
  /\ Goto(c, "insert")
  /\ UNCHANGED <<heap, quotes, seq, now, lock, gate, arg, gone, giveUps>>

SnapExisting(c) ==
  {u \in DOMAIN snap[c] : arg[c].key # NULL /\ snap[c][u].idempotency_key = arg[c].key}

SnapHasCapacity(c) ==
  Cardinality({u \in DOMAIN snap[c] : snap[c][u].status \in Store!ActiveStatus}) < MaxActive

\* The client of a finished statement goes on; without one nothing follows.
Then(c, label) == Goto(c, IF c \in gone THEN "stranded" ELSE label)

\* The statement with the CTEs runs on its snapshot; the identity column, the
\* clock and the unique index of the keys are no part of it.  The statement waits
\* for an open transaction that has put the key into the index, and fails if the
\* key is still there when it goes on.
ExecuteInsert(c) ==
  /\ pc[c] = "insert"
  /\ \/ /\ SnapExisting(c) = {} /\ SnapHasCapacity(c)
        /\ seq \in Updates
        /\ \A u \in KeyHolders(arg[c].key) : heap[u].by = NULL
        /\ heap' = IF KeyHolders(arg[c].key) # {} THEN heap
                   ELSE Written(heap, seq, c, Store!NewRow(arg[c].pair, arg[c].key, now))
        /\ seq' = seq + 1
        /\ Then(c, IF KeyHolders(arg[c].key) # {} THEN "rollback" ELSE "commit")
     \/ /\ SnapExisting(c) # {} \/ ~SnapHasCapacity(c)
        /\ Then(c, IF \E u \in SnapExisting(c) : snap[c][u].pair = arg[c].pair
                   THEN "commit" ELSE "rollback")
        /\ UNCHANGED <<heap, seq>>
  /\ snap' = [snap EXCEPT ![c] = NULL]
  /\ UNCHANGED <<quotes, now, lock, gate, arg, gone, giveUps>>

\* The deferred calls of CreateOrGet: the connection first, then the gate.
LeaveGate(c) ==
  /\ pc[c] = "leave"
  /\ gate' = [gate EXCEPT ![Host[c]] = NULL]
  /\ Goto(c, "done")
  /\ UNCHANGED <<heap, quotes, seq, now, lock, arg, snap, gone, giveUps>>

-----------------------------------------------------------------------------
(***************************************************************************)
(* Workers: ClaimNext, Complete, Retry, Fail; RecoverExpired.              *)
(***************************************************************************)
ClaimNext(w) ==
  /\ pc[w] = "idle" /\ FreeConnection(Host[w])
  /\ \E u \in Store!Ready \ Locked :
       /\ Store!IsFirstReady(u, Store!Ready \ Locked)
       /\ heap' = Replaced(heap, u, Store!ClaimedRow(heap[u].row))
       /\ arg' = [arg EXCEPT ![w] = [id |-> u, attempt |-> heap[u].row.attempt + 1,
                                     pair |-> heap[u].row.pair, quote |-> NULL]]
  /\ Goto(w, "fetch")
  /\ UNCHANGED <<quotes, seq, now, lock, gate, snap, gone, giveUps>>

\* Retry or Fail is sent.
BeginSettling(w) ==
  /\ pc[w] = "fetch" /\ FreeConnection(Host[w])
  /\ Goto(w, "settle")
  /\ UNCHANGED <<heap, quotes, seq, now, lock, gate, arg, snap, gone, giveUps>>

\* It waits for the row with its connection and looks at it again when it has
\* it, also if its client has given up meanwhile.
SettleInOneStatement(w) ==
  /\ pc[w] = "settle"
  /\ LockedBy(heap, arg[w].id) = NULL
  /\ IF Store!Owns(arg[w].id, arg[w].attempt)
     THEN \E r \in {Store!RetriedRow(heap[arg[w].id].row, d) :
                      d \in IF arg[w].attempt < MaxAttempts THEN RetryDelays ELSE {}}
              \cup {Store!FailedRow(heap[arg[w].id].row, e) : e \in Store!FailureCodes} :
            heap' = Replaced(heap, arg[w].id, r)
     ELSE UNCHANGED heap
  /\ arg' = [arg EXCEPT ![w] = NULL]
  /\ Goto(w, "idle")
  /\ gone' = gone \ {w}
  /\ UNCHANGED <<quotes, seq, now, lock, gate, snap, giveUps>>

Fetched(w) ==
  /\ pc[w] = "fetch"
  /\ \E q \in Store!Quote : arg' = [arg EXCEPT ![w].quote = q]
  /\ Goto(w, "begin")
  /\ UNCHANGED <<heap, quotes, seq, now, lock, gate, snap, gone, giveUps>>

BeginCompletion(w) ==
  /\ pc[w] = "begin" /\ w \in Workers
  /\ FreeConnection(Host[w])
  /\ Goto(w, "update")
  /\ UNCHANGED <<heap, quotes, seq, now, lock, gate, arg, snap, gone, giveUps>>

\* The UPDATE waits for the row, looks at it again when it has it, and keeps
\* its lock; without a row there is nothing to complete.
ExecuteUpdate(w) ==
  /\ pc[w] = "update"
  /\ LockedBy(heap, arg[w].id) = NULL
  /\ IF /\ Store!Owns(arg[w].id, arg[w].attempt)
        /\ heap[arg[w].id].row.pair = arg[w].pair
     THEN /\ heap' = Written(heap, arg[w].id, w,
                             Store!CompletedRow(heap[arg[w].id].row, arg[w].quote))
          /\ Then(w, "upsert")
     ELSE Then(w, "rollback") /\ UNCHANGED heap
  /\ UNCHANGED <<quotes, seq, now, lock, gate, arg, snap, gone, giveUps>>

\* Mutant: ON CONFLICT DO UPDATE without its WHERE clause.
ExecuteUpsertOverwrites(w) ==
  /\ pc[w] = "upsert"
  /\ LockedBy(quotes, arg[w].pair) = NULL
  /\ quotes' = Written(quotes, arg[w].pair, w,
                      [request_seq |-> arg[w].id, quote |-> arg[w].quote])
  /\ Then(w, "commit")
  /\ UNCHANGED <<heap, seq, now, lock, gate, arg, snap, gone, giveUps>>

\* INSERT ... ON CONFLICT waits for whoever inserts or updates the pair's row,
\* then compares with the row as it is now.  The row stays locked also when
\* the WHERE clause leaves it alone.
ExecuteUpsert(w) ==
  /\ pc[w] = "upsert"
  /\ LockedBy(quotes, arg[w].pair) = NULL
  /\ LET p == arg[w].pair
         old == IF p \in DOMAIN quotes THEN quotes[p].row ELSE NULL
         new == [request_seq |-> arg[w].id, quote |-> arg[w].quote]
     IN quotes' = Written(quotes, p, w,
                    IF old # NULL /\ ~Store!Supersedes(arg[w].id, arg[w].quote, old)
                    THEN old ELSE new)
  /\ Then(w, "commit")
  /\ UNCHANGED <<heap, seq, now, lock, gate, arg, snap, gone, giveUps>>

\* One statement of the recovery loop of replica p.
RecoverExpired(p) ==
  /\ FreeConnection(p)
  /\ \E B \in (SUBSET (Store!Expired \ Locked)) \ {{}} :
       /\ Store!IsBatch(B, Store!Expired \ Locked, RecoveryBatch)
       /\ heap' = [u \in DOMAIN heap |->
                     IF u \in B THEN [heap[u] EXCEPT !.row = Store!RecoveredRow(@)]
                     ELSE heap[u]]
  /\ UNCHANGED <<quotes, seq, now, lock, gate, pc, arg, snap, gone, giveUps>>

-----------------------------------------------------------------------------
(***************************************************************************)
(* The end of a transaction.                                               *)
(***************************************************************************)

\* What the end of c's transaction releases besides its rows, and where the
\* call goes: an abandoned one is over.
EndTransaction(c) ==
  /\ lock' = IF lock = c THEN NULL ELSE lock
  /\ Goto(c, IF c \in Workers THEN "idle" ELSE IF c \in gone THEN "done" ELSE "leave")
  /\ arg' = [arg EXCEPT ![c] = NULL]
  /\ snap' = [snap EXCEPT ![c] = NULL]
  /\ gone' = gone \ {c}
  /\ UNCHANGED <<seq, now, gate, giveUps>>

\* Mutant: the completed row is visible before the latest quote is.
CommitRowFirst(c) ==
  /\ pc[c] \in {"upsert", "commit"}
  /\ heap' = Ended(heap, c, TRUE)
  /\ IF pc[c] = "commit"
     THEN quotes' = Ended(quotes, c, TRUE) /\ EndTransaction(c)
     ELSE UNCHANGED <<quotes, seq, now, lock, gate, pc, arg, snap, gone, giveUps>>

Commit(c) ==
  /\ pc[c] = "commit"
  /\ heap' = Ended(heap, c, TRUE)
  /\ quotes' = Ended(quotes, c, TRUE)
  /\ EndTransaction(c)

\* Mutant: no deferred Rollback, an early return leaves the transaction open.
RollbackNotDeferred(c) ==
  /\ Open(c) /\ c \in gone
  /\ heap' = Ended(heap, c, FALSE)
  /\ quotes' = Ended(quotes, c, FALSE)
  /\ EndTransaction(c)

\* The deferred Rollback, or the server noticing that its client is gone.
Rollback(c) ==
  /\ Open(c)
  /\ pc[c] = "rollback" \/ c \in gone
  /\ heap' = Ended(heap, c, FALSE)
  /\ quotes' = Ended(quotes, c, FALSE)
  /\ EndTransaction(c)

\* Mutant: a call that gives up leaves the gate closed behind it.
GiveUpKeepsGate(c) ==
  /\ giveUps < MaxGiveUps /\ giveUps' = giveUps + 1
  /\ Open(c) /\ c \notin gone
  /\ gone' = gone \cup {c}
  /\ UNCHANGED <<heap, quotes, seq, now, lock, gate, pc, arg, snap>>

\* The context of a call ends: before a connection was taken nothing has
\* happened; later the server keeps the transaction until it notices, and a
\* COMMIT already sent may still be executed.
GiveUp(c) ==
  /\ giveUps < MaxGiveUps /\ giveUps' = giveUps + 1
  /\ \/ /\ pc[c] \in {"gate", "begin"}
        /\ Goto(c, IF c \in Workers THEN "idle" ELSE "done")
        /\ arg' = [arg EXCEPT ![c] = NULL]
        /\ UNCHANGED gone
     \/ /\ Open(c) /\ c \notin gone
        /\ gone' = gone \cup {c}
        /\ UNCHANGED <<pc, arg>>
  /\ gate' = [gate EXCEPT ![Host[c]] = IF @ = c THEN NULL ELSE @]
  /\ UNCHANGED <<heap, quotes, seq, now, lock, snap>>

Tick ==
  /\ now < ClockBound \/ \E u \in Store!Rows : Store!Waiting(u)
  /\ now' = now + 1
  /\ UNCHANGED <<heap, quotes, seq, lock, gate, pc, arg, snap, gone, giveUps>>

-----------------------------------------------------------------------------
Init ==
  /\ heap = [u \in {} |-> NULL]
  /\ quotes = [p \in {} |-> NULL]
  /\ seq = 1
  /\ now = 0
  /\ lock = NULL
  /\ gate = [p \in Procs |-> NULL]
  /\ pc = [c \in Calls |-> IF c \in Workers THEN "idle" ELSE "new"]
  /\ arg = [c \in Calls |-> NULL]
  /\ snap = [c \in Calls |-> NULL]
  /\ gone = {}
  /\ giveUps = 0

End(c) == Commit(c) \/ Rollback(c)

AdmissionStep(c) ==
  EnterGate(c) \/ BeginAdmission(c) \/ AdvisoryLock(c) \/ StartInsert(c)
    \/ ExecuteInsert(c) \/ End(c) \/ LeaveGate(c)

CompletionStep(w) ==
  BeginCompletion(w) \/ ExecuteUpdate(w) \/ ExecuteUpsert(w) \/ SettleInOneStatement(w)
    \/ End(w)

Next ==
  \/ \E c \in Admissions : CreateOrGet(c) \/ AdmissionStep(c)
  \/ \E w \in Workers :
       ClaimNext(w) \/ Fetched(w) \/ BeginSettling(w) \/ CompletionStep(w)
  \/ \E p \in Procs : RecoverExpired(p)
  \/ \E c \in Calls : GiveUp(c)
  \/ Tick

Spec == Init /\ [][Next]_vars

(***************************************************************************)
(* Fairness: a server executes what it is sent and grants a free lock; the *)
(* client sends its next statement.  In WorkerFairSpec nothing is assumed  *)
(* of admissions: one of them may hold the advisory lock for ever, also    *)
(* after its client has gone.                                              *)
(***************************************************************************)
WorkerFairness == \A w \in Workers : WF_vars(CompletionStep(w))
AdmissionFairness == \A c \in Admissions : WF_vars(AdmissionStep(c))

WorkerFairSpec == Spec /\ WorkerFairness

-----------------------------------------------------------------------------
(***************************************************************************)
(* Properties.                                                             *)
(***************************************************************************)
Versions(R) ==
  [row : R \cup {NULL}, next : R \cup {NULL}, by : Calls \cup {NULL}]

\* Every variable has its type.
TypeOK ==
  /\ DOMAIN heap \subseteq Updates
  /\ \A u \in DOMAIN heap : heap[u] \in Versions(Store!UpdateRow)
  /\ DOMAIN quotes \subseteq Pairs
  /\ \A p \in DOMAIN quotes : quotes[p] \in Versions(Store!LatestRow)
  /\ seq \in Nat /\ now \in Nat
  /\ lock \in Admissions \cup {NULL}
  /\ gate \in [Procs -> Admissions \cup {NULL}]
  /\ pc \in [Calls -> OpenPc \cup {"new", "gate", "begin", "leave", "done", "idle", "fetch"}]
  /\ DOMAIN arg = Calls /\ DOMAIN snap = Calls
  /\ gone \subseteq {c \in Calls : Open(c)}
  /\ giveUps \in 0..MaxGiveUps

\* Each transaction of the store takes effect as the one atomic operation of
\* QuoteStore, at its commit or not at all: an admission is decided on a
\* snapshot and committed later, a completion writes two tables in two
\* statements, clients disappear in between, and yet the committed tables
\* move only as CreateOrGet, Complete and the others allow.
ImplementsQuoteStore == Store!StoreSpec

\* What an open transaction has decided still holds of the committed tables
\* at every later moment up to its end, whatever is committed meanwhile: the
\* inserted key is still unknown and the queue still has room, the completed
\* row is still owned, and the latest quote is the newer one.
DecisionsStand ==
  /\ \A u \in DOMAIN heap :
       LET v == heap[u] IN
       v.by \in Admissions =>
         /\ Store!Existing(v.next.idempotency_key) = {}
         /\ Store!HasCapacity
         /\ Store!IsNextSeq(u)
  /\ \A u \in DOMAIN heap :
       LET v == heap[u] IN
       v.by \in Workers => Store!Owns(u, v.next.attempt)
  /\ \A p \in DOMAIN quotes :
       LET v == quotes[p] IN
       v.by # NULL /\ v.row # NULL =>
         \/ v.next = v.row
         \/ Store!Supersedes(v.next.request_seq, v.next.quote, v.row)

\* No admission runs into the UNIQUE constraint of the keys: one that has not
\* found its key in its snapshot does not meet it in the index either, neither
\* committed since nor waiting in another open transaction, so that a client that
\* repeats a key is shown its update and never a storage error.
UniqueNeverRefuses ==
  \A c \in Admissions :
    pc[c] = "insert" /\ SnapExisting(c) = {} => KeyHolders(arg[c].key) = {}

\* A completion, a Retry and a Fail come to their end although an admission holds the advisory lock
\* for ever and others wait for it: they never take all the connections, and
\* completions never wait for each other in a circle.
CompletionsEnd ==
  \A w \in Workers : pc[w] \in {"settle", "begin", "update", "upsert"} ~> pc[w] = "idle"

\* Unless an admission stops for ever, every one of them is answered: gate,
\* connection and advisory lock are returned on every path, also by clients
\* that gave up.
AdmissionsEnd ==
  AdmissionFairness => \A c \in Admissions : pc[c] = "gate" ~> pc[c] = "done"
===============================================================================

----------------------------- MODULE PgStoreProofs -----------------------------
(***************************************************************************)
(* Proofs about PgStore, for any number of replicas, calls and connections *)
(* and any loss of clients: its transactions take effect as the atomic     *)
(* operations of QuoteStore, and what they decided on a snapshot or on a   *)
(* locked row still holds when they commit.                                *)
(***************************************************************************)
EXTENDS PgStore, FiniteSetTheorems, TLAPS

\* The theorems about QuoteStore, for the committed versions of the tables.
SP == INSTANCE QuoteStoreProofs WITH updates <- Committed(heap), latest <- Committed(quotes)

-----------------------------------------------------------------------------
(***************************************************************************)
(* Tables as values.                                                       *)
(***************************************************************************)
KeyOf(r) == r.idempotency_key
Taken(U, k) == {u \in DOMAIN U : k # NULL /\ KeyOf(U[u]) = k}
Unfinished(U) == {u \in DOMAIN U : U[u].status \in {"pending", "processing"}}
Room(U) == Cardinality(Unfinished(U)) < MaxActive

\* What is unknown to S and fits into S is unknown to V and fits into V: the
\* rows of V are in S, under the same key, unfinished there if they are so in V.
Covers(S, V) ==
  /\ IsFiniteSet(DOMAIN S)
  /\ \A u \in DOMAIN V : u \in DOMAIN S /\ KeyOf(V[u]) = KeyOf(S[u])
  /\ Unfinished(V) \subseteq Unfinished(S)

-----------------------------------------------------------------------------
(***************************************************************************)
(* The inductive invariant.                                                *)
(***************************************************************************)

\* The committed tables are what QuoteStore promises.
StoreInv == SP!RowsInv /\ SP!CapacityInv

\* From the advisory lock to the end of its transaction an admission holds it.
LockInv ==
  \A c \in Admissions :
    pc[c] \in {"locked", "insert", "commit", "rollback", "stranded"} => lock = c

\* The identity column is ahead of every row, committed or not.
SeqInv == \A u \in DOMAIN heap : u < seq

ArgInv ==
  /\ \A c \in Admissions :
       pc[c] \in {"gate", "begin", "lock", "locked", "insert"} =>
         arg[c] \in [pair : Pairs, key : Keys \cup {NULL}]
  /\ \A w \in Workers :
       pc[w] \in {"fetch", "begin", "update", "upsert", "commit"} =>
         /\ arg[w] \in [id : Updates, attempt : Nat, pair : Pairs,
                        quote : Store!Quote \cup {NULL}]
         /\ pc[w] # "fetch" => arg[w].quote \in Store!Quote

\* The snapshot of the inserting statement still covers the committed rows.
SnapInv ==
  \A c \in Admissions : pc[c] = "insert" => Covers(snap[c], Committed(heap))

\* An uncommitted insert is the newest row, of the admission with the lock,
\* and could still be decided the same.
InsertedInv ==
  \A u \in DOMAIN heap : heap[u].by \in Admissions =>
    /\ pc[heap[u].by] \in {"commit", "stranded"}
    /\ heap[u].row = NULL /\ seq = u + 1
    /\ \E p \in Pairs, k \in Keys \cup {NULL}, t \in 0..now :
         /\ heap[u].next = Store!NewRow(p, k, t)
         /\ Taken(Committed(heap), k) = {}
    /\ Room(Committed(heap))

\* An uncommitted completion is of a row its worker owns.
CompletedInv ==
  /\ \A u \in DOMAIN heap : heap[u].by \in Workers =>
       LET w == heap[u].by IN
       /\ pc[w] \in {"upsert", "commit", "stranded"}
       /\ arg[w].id = u
       /\ heap[u].row # NULL
       /\ heap[u].row.status = "processing"
       /\ heap[u].row.attempt = arg[w].attempt
       /\ heap[u].row.pair = arg[w].pair
       /\ heap[u].next = Store!CompletedRow(heap[u].row, arg[w].quote)
  /\ \A w \in Workers : pc[w] \in {"upsert", "commit"} =>
       arg[w].id \in DOMAIN heap /\ heap[arg[w].id].by = w

\* What the upsert of update u with quote q makes of the row l of its pair.
Newer(u, q, l) ==
  IF l # NULL /\ ~Store!Supersedes(u, q, l) THEN l ELSE [request_seq |-> u, quote |-> q]

\* An uncommitted latest quote is the newer of the committed one and its
\* worker's.
LatestInv ==
  /\ \A p \in DOMAIN quotes : quotes[p].by # NULL =>
       LET w == quotes[p].by IN
       /\ w \in Workers /\ pc[w] \in {"commit", "stranded"}
       /\ arg[w].pair = p
       /\ quotes[p].next = Newer(arg[w].id, arg[w].quote, quotes[p].row)
  /\ \A w \in Workers : pc[w] = "commit" =>
       arg[w].pair \in DOMAIN quotes /\ quotes[arg[w].pair].by = w

Inv ==
  /\ TypeOK /\ StoreInv
  /\ LockInv /\ SeqInv /\ ArgInv /\ SnapInv
  /\ InsertedInv /\ CompletedInv /\ LatestInv

-----------------------------------------------------------------------------
(***************************************************************************)
(* QuoteStore's theorems for the committed tables.  SP! and Store! name    *)
(* the same definitions, instantiated twice.                               *)
(***************************************************************************)

\* The constants satisfy what QuoteStore assumes of them.
LEMMA Assumptions == SP!StoreAssumption /\ SP!NullAssumption
BY PgAssumption, PgNullAssumption
DEF SP!StoreAssumption, SP!NullAssumption, SP!Quote, SP!FailureCodes, Store!Quote,
    Store!FailureCodes

\* Finite sets and their sizes are the same everywhere.
LEMMA SameFinite ==
  ASSUME NEW S
  PROVE  /\ SP!Cardinality(S) = Cardinality(S) /\ Store!Cardinality(S) = Cardinality(S)
         /\ SP!IsFiniteSet(S) <=> IsFiniteSet(S)
BY DEF Cardinality, SP!Cardinality, Store!Cardinality, IsFiniteSet, SP!IsFiniteSet

\* The same values, sets of rows and rows ...
LEMMA SameValues ==
  /\ SP!Quote = Store!Quote /\ SP!FailureCodes = Store!FailureCodes
  /\ SP!UpdateRow = Store!UpdateRow /\ SP!LatestRow = Store!LatestRow
  /\ SP!Rows = Store!Rows /\ SP!Active = Store!Active
BY DEF SP!Quote, Store!Quote, SP!FailureCodes, Store!FailureCodes, SP!UpdateRow,
  Store!UpdateRow, SP!LatestRow, Store!LatestRow, SP!Rows, Store!Rows, SP!Active,
  Store!Active, SP!Status, Store!Status, SP!ActiveStatus, Store!ActiveStatus,
  SP!TerminalStatus, Store!TerminalStatus

\* ... the same rows written ...
LEMMA SameRows ==
  ASSUME NEW r, NEW p, NEW k, NEW t
  PROVE  /\ SP!NewRow(p, k, t) = Store!NewRow(p, k, t)
         /\ SP!ClaimedRow(r) = Store!ClaimedRow(r)
         /\ SP!CompletedRow(r, t) = Store!CompletedRow(r, t)
         /\ SP!RetriedRow(r, t) = Store!RetriedRow(r, t)
         /\ SP!FailedRow(r, t) = Store!FailedRow(r, t)
         /\ SP!RecoveredRow(r) = Store!RecoveredRow(r)
BY DEF SP!NewRow, Store!NewRow, SP!ClaimedRow, Store!ClaimedRow, SP!CompletedRow,
  Store!CompletedRow, SP!RetriedRow, Store!RetriedRow, SP!FailedRow, Store!FailedRow,
  SP!RecoveredRow, Store!RecoveredRow

\* ... and the same operations: CreateOrGet ...
LEMMA SameInsert ==
  ASSUME NEW s, NEW p, NEW k, NEW t
  PROVE  SP!Insert(s, p, k, t) <=> Store!Insert(s, p, k, t)
<1>1. /\ SP!Existing(k) = Store!Existing(k)
      /\ SP!HasCapacity <=> Store!HasCapacity
      /\ SP!IsNextSeq(s) <=> Store!IsNextSeq(s)
      /\ SP!IsUniqueKey(k) <=> Store!IsUniqueKey(k)
  BY SameFinite, SameValues
  DEF SP!Existing, Store!Existing, SP!HasCapacity, Store!HasCapacity, SP!IsNextSeq,
      Store!IsNextSeq, SP!IsUniqueKey, Store!IsUniqueKey
<1> QED
  BY <1>1, SameRows, SameValues DEF SP!Insert, Store!Insert

\* ... the operations of one row ...
LEMMA SameRowOperations ==
  ASSUME NEW u, NEW a, NEW p, NEW x
  PROVE  /\ SP!ClaimNext(u, x) <=> Store!ClaimNext(u, x)
         /\ SP!Complete(u, a, p, x) <=> Store!Complete(u, a, p, x)
         /\ SP!Retry(u, a, x) <=> Store!Retry(u, a, x)
         /\ SP!Fail(u, a, x) <=> Store!Fail(u, a, x)
<1>1. /\ SP!IsFirstReady(u, SP!Ready \ x) <=> Store!IsFirstReady(u, Store!Ready \ x)
      /\ SP!Owns(u, a) <=> Store!Owns(u, a)
      /\ SP!AdvanceLatest(u, p, x) <=> Store!AdvanceLatest(u, p, x)
  BY DEF SP!IsFirstReady, Store!IsFirstReady, SP!Ready, Store!Ready, SP!Rows, Store!Rows,
    SP!Status, Store!Status, SP!Owns, Store!Owns, SP!AdvanceLatest, Store!AdvanceLatest,
    SP!Supersedes, Store!Supersedes
<1>2. SP!ClaimNext(u, x) <=> Store!ClaimNext(u, x)
  BY <1>1, SameRows DEF SP!ClaimNext, Store!ClaimNext
<1>3. SP!Complete(u, a, p, x) <=> Store!Complete(u, a, p, x)
  BY <1>1, SameRows DEF SP!Complete, Store!Complete
<1>4. SP!Retry(u, a, x) <=> Store!Retry(u, a, x)
  BY <1>1, SameRows DEF SP!Retry, Store!Retry
<1>5. SP!Fail(u, a, x) <=> Store!Fail(u, a, x)
  BY <1>1, SameRows DEF SP!Fail, Store!Fail
<1> QED
  BY <1>2, <1>3, <1>4, <1>5

\* ... RecoverExpired and the clock.
LEMMA SameOthers ==
  ASSUME NEW B, NEW x, NEW n
  PROVE  /\ SP!RecoverExpired(B, x, n) <=> Store!RecoverExpired(B, x, n)
         /\ SP!Tick <=> Store!Tick
<1>1. SP!Expired = Store!Expired
  BY DEF SP!Expired, Store!Expired, SP!Rows, Store!Rows, SP!Status, Store!Status
<1>2. \A S : SP!IsBatch(B, S, n) <=> Store!IsBatch(B, S, n)
  BY SameFinite DEF SP!IsBatch, Store!IsBatch
<1>3. SP!RecoverExpired(B, x, n) <=> Store!RecoverExpired(B, x, n)
  BY <1>1, <1>2, SameRows, SameValues DEF SP!RecoverExpired, Store!RecoverExpired
<1>4. SP!Tick <=> Store!Tick
  BY DEF SP!Tick, Store!Tick, SP!Waiting, Store!Waiting, SP!Rows, Store!Rows, SP!Status,
    Store!Status
<1> QED
  BY <1>3, <1>4

\* The two step relations are the same.
LEMMA SameNext ==
  [SP!StoreNext]_(SP!storeVars) <=> [Store!StoreNext]_(Store!storeVars)
<1>1. \A s, p, k, t : SP!Insert(s, p, k, t) <=> Store!Insert(s, p, k, t)
  BY SameInsert
<1>2. /\ \A u, x : SP!ClaimNext(u, x) <=> Store!ClaimNext(u, x)
      /\ \A u, a, p, x : SP!Complete(u, a, p, x) <=> Store!Complete(u, a, p, x)
      /\ \A u, a, x : SP!Retry(u, a, x) <=> Store!Retry(u, a, x)
      /\ \A u, a, x : SP!Fail(u, a, x) <=> Store!Fail(u, a, x)
  BY SameRowOperations
<1>3. /\ \A B, x, n : SP!RecoverExpired(B, x, n) <=> Store!RecoverExpired(B, x, n)
      /\ SP!Tick <=> Store!Tick
  BY SameOthers
<1>4. SP!StoreNext <=> Store!StoreNext
  BY <1>1, <1>2, <1>3, SameValues DEF SP!StoreNext, Store!StoreNext
<1> QED
  BY <1>4 DEF SP!storeVars, Store!storeVars

\* A step of QuoteStore keeps the tables well formed and within their limits.
LEMMA StoreInvNext ==
  ASSUME StoreInv, [Store!StoreNext]_(Store!storeVars)
  PROVE  StoreInv'
BY Assumptions, SameNext, SP!RowsInvNext, SP!CapacityNext DEF StoreInv

\* What the columns' types and limits say of a committed row.
LEMMA RowFacts ==
  ASSUME StoreInv, NEW u \in DOMAIN Committed(heap)
  PROVE  LET r == Committed(heap)[u] IN
         /\ u \in Updates /\ SP!RowOK(r) /\ r \in Store!UpdateRow /\ r.attempt \in Nat
         /\ r.pair \in Pairs /\ r.attempt <= MaxAttempts
         /\ r.status \in {"pending", "processing", "completed", "failed"}
         /\ r.status = "processing" => r.attempt \in 1..MaxAttempts
         /\ r.status = "pending" => r.attempt < MaxAttempts
<1>1. /\ u \in Updates /\ SP!RowOK(Committed(heap)[u])
  BY DEF StoreInv, SP!RowsInv, SP!Rows
<1> DEFINE r == Committed(heap)[u]
<1>2. r \in Store!UpdateRow /\ r.attempt <= MaxAttempts
      /\ (r.status = "pending" => r.attempt < MaxAttempts)
      /\ (r.status = "processing" => r.attempt > 0)
  BY <1>1, SameValues DEF SP!RowOK, SP!UpdateStateShape, SP!RowBounded
<1>3. r.attempt \in Nat /\ r.pair \in Pairs
      /\ r.status \in {"pending", "processing", "completed", "failed"}
  BY <1>2 DEF Store!UpdateRow, Store!ActiveStatus, Store!TerminalStatus
<1> QED
  BY <1>1, <1>2, <1>3, PgAssumption

\* The rows the statements write are rows.
LEMMA NewRowTyped ==
  ASSUME NEW p \in Pairs, NEW k \in Keys \cup {NULL}, NEW t \in Nat
  PROVE  Store!NewRow(p, k, t) \in Store!UpdateRow
BY DEF Store!NewRow, Store!UpdateRow, Store!ActiveStatus

\* So are those that change one.
LEMMA ChangedRowsTyped ==
  ASSUME now \in Nat, NEW r \in Store!UpdateRow
  PROVE  /\ Store!ClaimedRow(r) \in Store!UpdateRow
         /\ \A q \in Store!Quote : Store!CompletedRow(r, q) \in Store!UpdateRow
         /\ \A d \in RetryDelays : Store!RetriedRow(r, d) \in Store!UpdateRow
         /\ \A e \in Store!FailureCodes : Store!FailedRow(r, e) \in Store!UpdateRow
         /\ Store!RecoveredRow(r) \in Store!UpdateRow
<1>0. /\ r.attempt + 1 \in Nat /\ now + LeaseDuration \in Nat
      /\ \A d \in RetryDelays : now + d \in Nat
  BY PgAssumption DEF Store!UpdateRow
<1>1. /\ {"pending", "processing", "completed", "failed"}
           = Store!ActiveStatus \cup Store!TerminalStatus
      /\ "attempts_exhausted" \in Store!FailureCodes
  BY DEF Store!ActiveStatus, Store!TerminalStatus, Store!FailureCodes
<1>2. Store!ClaimedRow(r) \in Store!UpdateRow
  BY <1>0, <1>1 DEF Store!ClaimedRow, Store!UpdateRow
<1>3. \A q \in Store!Quote : Store!CompletedRow(r, q) \in Store!UpdateRow
  BY <1>1 DEF Store!CompletedRow, Store!UpdateRow, Store!Quote
<1>4. \A d \in RetryDelays : Store!RetriedRow(r, d) \in Store!UpdateRow
  BY <1>0, <1>1 DEF Store!RetriedRow, Store!UpdateRow
<1>5. \A e \in Store!FailureCodes : Store!FailedRow(r, e) \in Store!UpdateRow
  BY <1>1 DEF Store!FailedRow, Store!UpdateRow
<1>6. Store!RecoveredRow(r) \in Store!UpdateRow
  BY <1>1 DEF Store!RecoveredRow, Store!UpdateRow
<1> QED
  BY <1>2, <1>3, <1>4, <1>5, <1>6

-----------------------------------------------------------------------------
(***************************************************************************)
(* What the writes do to the committed tables.                             *)
(***************************************************************************)

\* The committed table of the next state is the next committed table.
LEMMA CommittedPrime ==
  Committed(heap)' = Committed(heap') /\ Committed(quotes)' = Committed(quotes')
BY DEF Committed

\* A write of an open transaction is not visible.
LEMMA WrittenHidden ==
  ASSUME NEW h, NEW x, NEW c, NEW r
  PROVE  Committed(Written(h, x, c, r)) = Committed(h)
<1> DEFINE W == Written(h, x, c, r)
<1>1. /\ DOMAIN W = DOMAIN h \cup {x}
      /\ \A y \in DOMAIN W : W[y].row = IF y \in DOMAIN h THEN h[y].row ELSE NULL
  BY DEF Written
<1> HIDE DEF W
<1>2. {y \in DOMAIN W : W[y].row # NULL} = {y \in DOMAIN h : h[y].row # NULL}
  BY <1>1
<1>3. \A y \in {y \in DOMAIN h : h[y].row # NULL} : W[y].row = h[y].row
  BY <1>1
<1> QED
  BY <1>2, <1>3 DEF W, Committed

\* A rollback changes nothing.
LEMMA RollbackHidden ==
  ASSUME NEW h, NEW c
  PROVE  Committed(Ended(h, c, FALSE)) = Committed(h)
<1> DEFINE E == Ended(h, c, FALSE)
<1>1. /\ DOMAIN E = {y \in DOMAIN h : h[y].by = c => h[y].row # NULL}
      /\ \A y \in DOMAIN E : E[y].row = h[y].row
  BY DEF Ended
<1> HIDE DEF E
<1>2. {y \in DOMAIN E : E[y].row # NULL} \subseteq {y \in DOMAIN h : h[y].row # NULL}
  BY <1>1
<1>3. {y \in DOMAIN h : h[y].row # NULL} \subseteq {y \in DOMAIN E : E[y].row # NULL}
  BY <1>1
<1>4. \A y \in {y \in DOMAIN E : E[y].row # NULL} : E[y].row = h[y].row
  BY <1>1
<1> QED
  BY <1>2, <1>3, <1>4 DEF E, Committed

\* Neither does the commit of a transaction that wrote nothing.
LEMMA CommitOfNothing ==
  ASSUME NEW h, NEW c, \A y \in DOMAIN h : h[y].by # c
  PROVE  Committed(Ended(h, c, TRUE)) = Committed(h)
<1>1. Ended(h, c, TRUE) = [y \in DOMAIN h |-> h[y]]
  BY DEF Ended
<1> QED
  BY <1>1 DEF Committed

\* Table U with row r for x.
With(U, x, r) == [y \in DOMAIN U \cup {x} |-> IF y = x THEN r ELSE U[y]]

\* The commit of the one row a transaction wrote makes that row visible.
LEMMA CommitOfOne ==
  ASSUME NEW h, NEW c, NEW x \in DOMAIN h, h[x].by = c, h[x].next # NULL,
         \A y \in DOMAIN h : h[y].by = c => y = x
  PROVE  Committed(Ended(h, c, TRUE)) = With(Committed(h), x, h[x].next)
<1> DEFINE E == Ended(h, c, TRUE)
<1>1. /\ DOMAIN E = DOMAIN h
      /\ \A y \in DOMAIN E : E[y].row = IF y = x THEN h[x].next ELSE h[y].row
  BY DEF Ended
<1> HIDE DEF E
<1>2. /\ DOMAIN Committed(h) = {y \in DOMAIN h : h[y].row # NULL}
      /\ \A y \in DOMAIN Committed(h) : Committed(h)[y] = h[y].row
  BY DEF Committed
<1>3. {y \in DOMAIN E : E[y].row # NULL} = DOMAIN Committed(h) \cup {x}
  BY <1>1, <1>2
<1>4. \A y \in DOMAIN Committed(h) \cup {x} :
        E[y].row = IF y = x THEN h[x].next ELSE Committed(h)[y]
  BY <1>1, <1>2
<1> QED
  BY <1>3, <1>4 DEF E, Committed, With

\* A statement that commits by itself replaces one visible row.
LEMMA ReplacedVisible ==
  ASSUME NEW R, NEW h, NEW x \in DOMAIN h, h[x] \in Versions(R), h[x].row # NULL,
         NEW r, r # NULL
  PROVE  Committed(Replaced(h, x, r)) = [Committed(h) EXCEPT ![x] = r]
<1> DEFINE W == Replaced(h, x, r)
<1>1. /\ DOMAIN W = DOMAIN h
      /\ \A y \in DOMAIN W : W[y].row = IF y = x THEN r ELSE h[y].row
  BY DEF Replaced, Versions
<1> HIDE DEF W
<1>2. /\ DOMAIN Committed(h) = {y \in DOMAIN h : h[y].row # NULL}
      /\ \A y \in DOMAIN Committed(h) : Committed(h)[y] = h[y].row
      /\ Committed(h) = [y \in DOMAIN Committed(h) |-> Committed(h)[y]]
  BY DEF Committed
<1>3. {y \in DOMAIN W : W[y].row # NULL} = DOMAIN Committed(h)
  BY <1>1, <1>2
<1>4. Committed(W) = [y \in DOMAIN Committed(h) |-> W[y].row]
  BY <1>3 DEF Committed
<1>5. \A y \in DOMAIN Committed(h) : W[y].row = IF y = x THEN r ELSE Committed(h)[y]
  BY <1>1, <1>2
<1>6. [Committed(h) EXCEPT ![x] = r]
        = [y \in DOMAIN Committed(h) |-> IF y = x THEN r ELSE Committed(h)[y]]
  BY <1>2
<1> QED
  BY <1>4, <1>5, <1>6 DEF W

\* The versions of a table are its visible rows and the others.
LEMMA CommittedRows ==
  ASSUME NEW h, NEW x
  PROVE  /\ x \in DOMAIN Committed(h) <=> x \in DOMAIN h /\ h[x].row # NULL
         /\ x \in DOMAIN Committed(h) => Committed(h)[x] = h[x].row
BY DEF Committed

-----------------------------------------------------------------------------
(***************************************************************************)
(* What an admission read still decides the same.                          *)
(***************************************************************************)

\* A table covers itself.
LEMMA CoversItself == ASSUME NEW S, IsFiniteSet(DOMAIN S) PROVE Covers(S, S)
BY DEF Covers

\* Covering is transitive.
LEMMA CoversTransitive ==
  ASSUME NEW S, NEW V, NEW W, Covers(S, V), Covers(V, W)
  PROVE  Covers(S, W)
<1>1. \A u \in DOMAIN W : u \in DOMAIN S /\ KeyOf(W[u]) = KeyOf(S[u])
  BY DEF Covers
<1> QED
  BY <1>1 DEF Covers

\* What covers a table decides for it.
LEMMA CoversDecides ==
  ASSUME NEW S, NEW V, Covers(S, V)
  PROVE  /\ \A k : Taken(S, k) = {} => Taken(V, k) = {}
         /\ Room(S) => Room(V)
<1>1. \A k : Taken(S, k) = {} => Taken(V, k) = {}
  BY DEF Covers, Taken
<1>2. ASSUME Room(S) PROVE Room(V)
  <2>1. Unfinished(S) \subseteq DOMAIN S
    BY DEF Unfinished
  <2>2. IsFiniteSet(Unfinished(S))
    BY <2>1, FS_Subset DEF Covers
  <2>3. /\ IsFiniteSet(Unfinished(V))
        /\ Cardinality(Unfinished(V)) <= Cardinality(Unfinished(S))
    BY <2>2, FS_Subset DEF Covers
  <2>4. Cardinality(Unfinished(V)) \in Nat /\ Cardinality(Unfinished(S)) \in Nat
    BY <2>2, <2>3, FS_CardinalityType
  <2> QED
    BY <1>2, <2>3, <2>4, PgAssumption DEF Room
<1> QED
  BY <1>1, <1>2

\* A step of QuoteStore that inserts nothing leaves no row the table before
\* did not cover.
LEMMA CoversNext ==
  ASSUME StoreInv, [Store!StoreNext]_(Store!storeVars),
         DOMAIN Committed(heap') = DOMAIN Committed(heap)
  PROVE  Covers(Committed(heap), Committed(heap'))
<1> DEFINE U == Committed(heap)
           V == Committed(heap')
<1>1. \A u \in DOMAIN U :
        /\ V[u].idempotency_key = U[u].idempotency_key
        /\ U[u].status \in {"completed", "failed"} => V[u] = U[u]
  <2> SUFFICES ASSUME NEW u \in DOMAIN U
               PROVE  /\ V[u].idempotency_key = U[u].idempotency_key
                      /\ U[u].status \in {"completed", "failed"} => V[u] = U[u]
    OBVIOUS
  <2>1. u \in SP!Rows
    BY DEF SP!Rows
  <2>2. /\ Committed(heap)'[u].idempotency_key = U[u].idempotency_key
        /\ SP!Status(u) \in SP!TerminalStatus => Committed(heap)'[u] = U[u]
    BY <2>1, SameNext, Assumptions, SP!RowsEvolveNext DEF StoreInv
  <2> QED
    BY <2>2, CommittedPrime DEF SP!Status, SP!TerminalStatus
<1>2. \A u \in DOMAIN U : U[u].status \in {"pending", "processing", "completed", "failed"}
  BY RowFacts
<1>3. IsFiniteSet(DOMAIN U)
  BY SameFinite DEF StoreInv, SP!CapacityInv, SP!Rows
<1>4. Unfinished(V) \subseteq Unfinished(U)
  BY <1>1, <1>2 DEF Unfinished
<1> QED
  BY <1>1, <1>3, <1>4 DEF Covers, KeyOf

-----------------------------------------------------------------------------
(***************************************************************************)
(* The refinement, action by action.                                       *)
(***************************************************************************)
Stutter == UNCHANGED Store!storeVars

\* A committed row is a row, and no NULL.
LEMMA RowTyped ==
  ASSUME Inv, NEW u \in DOMAIN Committed(heap)
  PROVE  /\ u \in DOMAIN heap /\ u \in Updates
         /\ heap[u] \in Versions(Store!UpdateRow)
         /\ heap[u].row # NULL /\ heap[u].row \in Store!UpdateRow
         /\ heap[u].row = Committed(heap)[u]
BY CommittedRows DEF Inv, TypeOK, Versions

\* The steps before a transaction ends and those of the clients are not
\* visible.
LEMMA HiddenSteps ==
  ASSUME \/ \E c \in Calls :
              \/ CreateOrGet(c) \/ EnterGate(c) \/ BeginAdmission(c) \/ AdvisoryLock(c)
              \/ StartInsert(c) \/ ExecuteInsert(c) \/ LeaveGate(c)
              \/ Fetched(c) \/ BeginSettling(c) \/ BeginCompletion(c) \/ ExecuteUpdate(c) \/ ExecuteUpsert(c)
              \/ Rollback(c) \/ GiveUp(c)
         \/ UNCHANGED vars
  PROVE  Stutter
<1>1. ASSUME UNCHANGED <<heap, quotes, now>>  PROVE Stutter
  BY <1>1, CommittedPrime DEF Stutter, Store!storeVars
<1>2. CASE \E c \in Calls :
             \/ CreateOrGet(c) \/ EnterGate(c) \/ BeginAdmission(c) \/ AdvisoryLock(c)
             \/ StartInsert(c) \/ LeaveGate(c) \/ Fetched(c) \/ BeginSettling(c)
             \/ BeginCompletion(c) \/ GiveUp(c)
  BY <1>1, <1>2 DEF CreateOrGet, EnterGate, BeginAdmission, AdvisoryLock, StartInsert,
    LeaveGate, Fetched, BeginSettling, BeginCompletion, GiveUp
<1>3. CASE \E c \in Calls : ExecuteInsert(c)
  BY <1>3, CommittedPrime, WrittenHidden DEF ExecuteInsert, Stutter, Store!storeVars
<1>4. CASE \E c \in Calls : ExecuteUpdate(c)
  BY <1>4, CommittedPrime, WrittenHidden DEF ExecuteUpdate, Stutter, Store!storeVars
<1>5. CASE \E c \in Calls : ExecuteUpsert(c)
  BY <1>5, CommittedPrime, WrittenHidden DEF ExecuteUpsert, Stutter, Store!storeVars
<1>6. CASE \E c \in Calls : Rollback(c)
  BY <1>6, CommittedPrime, RollbackHidden DEF Rollback, EndTransaction, Stutter,
    Store!storeVars
<1>7. CASE UNCHANGED vars
  BY <1>1, <1>7 DEF vars
<1> QED
  BY <1>2, <1>3, <1>4, <1>5, <1>6, <1>7

\* One statement that replaces a committed row.
LEMMA OneRowReplaced ==
  ASSUME Inv, NEW u \in DOMAIN Committed(heap), NEW r \in Store!UpdateRow,
         heap' = Replaced(heap, u, r), UNCHANGED <<quotes, now>>
  PROVE  /\ Committed(heap)' = [Committed(heap) EXCEPT ![u] = r]
         /\ UNCHANGED <<Committed(quotes), now>>
<1>1. r # NULL
  BY PgNullAssumption
<1> QED
  BY <1>1, RowTyped, ReplacedVisible, CommittedPrime

\* A claim is QuoteStore's, which skips the rows that others have locked.
LEMMA ClaimRefines ==
  ASSUME Inv, NEW w, ClaimNext(w)
  PROVE  Store!StoreNext
<1>1. PICK u \in Store!Ready \ Locked :
        /\ Store!IsFirstReady(u, Store!Ready \ Locked)
        /\ heap' = Replaced(heap, u, Store!ClaimedRow(heap[u].row))
        /\ UNCHANGED <<quotes, now>>
  BY DEF ClaimNext
<1>2. u \in DOMAIN Committed(heap)
  BY DEF Store!Ready, Store!Rows
<1>3. /\ u \in Updates /\ heap[u].row = Committed(heap)[u]
      /\ Store!ClaimedRow(heap[u].row) \in Store!UpdateRow
  BY <1>2, RowTyped, ChangedRowsTyped DEF Inv, TypeOK
<1>4. Store!ClaimNext(u, Locked)
  BY <1>1, <1>2, <1>3, OneRowReplaced DEF Store!ClaimNext
<1>5. Locked \in SUBSET Updates
  BY DEF Locked, Inv, TypeOK
<1> QED
  BY <1>3, <1>4, <1>5 DEF Store!StoreNext

\* Retry and Fail are QuoteStore's, or find that they lost the row.
LEMMA SettleRefines ==
  ASSUME Inv, NEW w \in Workers, SettleInOneStatement(w)
  PROVE  Store!StoreNext \/ Stutter
<1> DEFINE u == arg[w].id
           a == arg[w].attempt
<1>1. CASE ~Store!Owns(u, a)
  BY <1>1, CommittedPrime DEF SettleInOneStatement, Stutter, Store!storeVars
<1>2. CASE Store!Owns(u, a)
  <2>1. /\ u \in DOMAIN Committed(heap) /\ Committed(heap)[u].status = "processing"
        /\ Committed(heap)[u].attempt = a
    BY <1>2 DEF Store!Owns, Store!Rows, Store!Status
  <2>2. a \in 1..MaxAttempts
    BY <2>1, RowFacts DEF Inv
  <2>3. UNCHANGED <<quotes, now>>
    BY DEF SettleInOneStatement
  <2>4. u \in Updates /\ heap[u].row = Committed(heap)[u] /\ heap[u].row \in Store!UpdateRow
    BY <2>1, RowTyped
  <2>5. now \in Nat
    BY DEF Inv, TypeOK
  <2>6. CASE \E d \in RetryDelays :
               a < MaxAttempts /\ heap' = Replaced(heap, u, Store!RetriedRow(heap[u].row, d))
    <3>1. PICK d \in RetryDelays :
            a < MaxAttempts /\ heap' = Replaced(heap, u, Store!RetriedRow(heap[u].row, d))
      BY <2>6
    <3>2. Store!RetriedRow(heap[u].row, d) \in Store!UpdateRow
      BY <2>4, <2>5, ChangedRowsTyped
    <3>3. Store!Retry(u, a, d)
      BY <1>2, <2>1, <2>3, <2>4, <3>1, <3>2, OneRowReplaced DEF Store!Retry
    <3>4. a \in 1..(MaxAttempts - 1)
      BY <2>2, <3>1, PgAssumption
    <3> QED
      BY <2>4, <3>3, <3>4 DEF Store!StoreNext
  <2>7. CASE \E e \in Store!FailureCodes :
               heap' = Replaced(heap, u, Store!FailedRow(heap[u].row, e))
    <3>1. PICK e \in Store!FailureCodes :
            heap' = Replaced(heap, u, Store!FailedRow(heap[u].row, e))
      BY <2>7
    <3>2. Store!FailedRow(heap[u].row, e) \in Store!UpdateRow
      BY <2>4, <2>5, ChangedRowsTyped
    <3>3. Store!Fail(u, a, e)
      BY <1>2, <2>1, <2>3, <2>4, <3>1, <3>2, OneRowReplaced DEF Store!Fail
    <3> QED
      BY <2>2, <2>4, <3>3 DEF Store!StoreNext
  <2> QED
    BY <1>2, <2>6, <2>7 DEF SettleInOneStatement
<1> QED
  BY <1>1, <1>2

\* A recovery is QuoteStore's, which skips the rows that others have locked.
LEMMA RecoverRefines ==
  ASSUME Inv, NEW p, RecoverExpired(p)
  PROVE  Store!StoreNext
<1>1. PICK B \in SUBSET (Store!Expired \ Locked) :
        /\ Store!IsBatch(B, Store!Expired \ Locked, RecoveryBatch)
        /\ heap' = [u \in DOMAIN heap |->
                      IF u \in B THEN [heap[u] EXCEPT !.row = Store!RecoveredRow(@)]
                      ELSE heap[u]]
        /\ UNCHANGED <<quotes, now>>
  BY DEF RecoverExpired
<1> DEFINE U == Committed(heap)
<1>2. B \subseteq DOMAIN U
  BY <1>1 DEF Store!Expired, Store!Rows
<1>3. \A u \in B : /\ heap[u] \in Versions(Store!UpdateRow) /\ heap[u].row = U[u]
                   /\ Store!RecoveredRow(heap[u].row) # NULL
  <2> TAKE u \in B
  <2>1. heap[u] \in Versions(Store!UpdateRow) /\ heap[u].row \in Store!UpdateRow
        /\ heap[u].row = U[u]
    BY <1>2, RowTyped
  <2> QED
    BY <2>1, ChangedRowsTyped, PgNullAssumption DEF Inv, TypeOK
<1>4. /\ DOMAIN heap' = DOMAIN heap
      /\ \A u \in DOMAIN heap : heap'[u].row = IF u \in B THEN Store!RecoveredRow(U[u])
                                               ELSE heap[u].row
  BY <1>1, <1>3 DEF Versions
<1>5. {u \in DOMAIN heap' : heap'[u].row # NULL} = DOMAIN U
  <2>1. DOMAIN U = {u \in DOMAIN heap : heap[u].row # NULL}
    BY DEF Committed
  <2>2. \A u \in B : u \in DOMAIN heap /\ heap[u].row # NULL
                     /\ Store!RecoveredRow(U[u]) # NULL
    BY <1>2, <1>3, <2>1
  <2>3. \A u \in DOMAIN heap : heap'[u].row # NULL <=> heap[u].row # NULL
    BY <1>4, <2>2
  <2> QED
    BY <1>4, <2>1, <2>3
<1>6. \A u \in DOMAIN U : heap'[u].row = IF u \in B THEN Store!RecoveredRow(U[u]) ELSE U[u]
  BY <1>4, CommittedRows
<1>7. Committed(heap') = [u \in DOMAIN U |->
                            IF u \in B THEN Store!RecoveredRow(U[u]) ELSE U[u]]
  BY <1>5, <1>6 DEF Committed
<1>8. Store!RecoverExpired(B, Locked, RecoveryBatch)
  BY <1>1, <1>7, CommittedPrime DEF Store!RecoverExpired, Store!Rows
<1>9. B \in SUBSET Updates /\ Locked \in SUBSET Updates
  BY <1>2, RowTyped DEF Locked, Inv, TypeOK
<1>10. RecoveryBatch \in 1..RecoveryBatch
  BY PgAssumption
<1> QED
  BY <1>8, <1>9, <1>10 DEF Store!StoreNext

\* The clock is QuoteStore's.
LEMMA TickRefines == Tick => Store!StoreNext
BY CommittedPrime DEF Tick, Store!Tick, Store!StoreNext

\* What an admission's transaction has written: at most one row.
LEMMA AdmissionWrote ==
  ASSUME Inv, NEW c \in Admissions
  PROVE  /\ \A u, v \in DOMAIN heap : heap[u].by = c /\ heap[v].by = c => u = v
         /\ \A p \in DOMAIN quotes : quotes[p].by # c
<1>1. \A u \in DOMAIN heap : heap[u].by = c => seq = u + 1 /\ u \in Nat
  BY PgAssumption DEF Inv, InsertedInv, TypeOK
<1>2. \A p \in DOMAIN quotes : quotes[p].by # c
  BY PgAssumption, PgNullAssumption DEF Inv, LatestInv, Calls
<1>3. \A u, v \in DOMAIN heap : heap[u].by = c /\ heap[v].by = c => u = v
  BY <1>1
<1> QED
  BY <1>2, <1>3

\* The commit of an admission is QuoteStore's Insert, decided on a snapshot
\* that is old by then, or changes nothing.
LEMMA AdmissionCommitRefines ==
  ASSUME Inv, NEW c \in Admissions, Commit(c)
  PROVE  Store!StoreNext \/ Stutter
<1>1. /\ heap' = Ended(heap, c, TRUE) /\ quotes' = Ended(quotes, c, TRUE) /\ now' = now
  BY DEF Commit, EndTransaction
<1>2. Committed(quotes)' = Committed(quotes)
  BY <1>1, AdmissionWrote, CommitOfNothing, CommittedPrime
<1>3. CASE \A u \in DOMAIN heap : heap[u].by # c
  BY <1>1, <1>2, <1>3, CommitOfNothing, CommittedPrime DEF Stutter, Store!storeVars
<1>4. CASE \E u \in DOMAIN heap : heap[u].by = c
  <2>1. PICK u \in DOMAIN heap : heap[u].by = c
    BY <1>4
  <2>2. PICK p \in Pairs, k \in Keys \cup {NULL}, t \in 0..now :
          heap[u].next = Store!NewRow(p, k, t) /\ Taken(Committed(heap), k) = {}
    BY <2>1 DEF Inv, InsertedInv
  <2>3. heap[u].row = NULL /\ seq = u + 1 /\ Room(Committed(heap))
    BY <2>1 DEF Inv, InsertedInv
  <2>4. t \in Nat /\ u \in Nat /\ u \in Updates
    <3>1. now \in Nat /\ u \in Updates
      BY DEF Inv, TypeOK
    <3> QED
      BY <3>1, PgAssumption
  <2>5. heap[u].next # NULL
    BY <2>2, <2>4, NewRowTyped, PgNullAssumption
  <2>6. Committed(heap)' = [y \in DOMAIN Committed(heap) \cup {u} |->
                              IF y = u THEN Store!NewRow(p, k, t) ELSE Committed(heap)[y]]
    <3>1. \A y \in DOMAIN heap : heap[y].by = c => y = u
      BY <2>1, AdmissionWrote
    <3>2. Committed(Ended(heap, c, TRUE)) = With(Committed(heap), u, heap[u].next)
      BY <2>1, <2>5, <3>1, CommitOfOne
    <3> QED
      BY <1>1, <2>2, <3>2, CommittedPrime DEF With
  <2>7. Store!Existing(k) = {} /\ Store!HasCapacity
    BY <2>2, <2>3, SameFinite
    DEF Taken, KeyOf, Room, Unfinished, Store!Existing, Store!HasCapacity, Store!Active,
        Store!Rows, Store!Status, Store!ActiveStatus
  <2>8. \A v \in Store!Rows : v < u
    <3> TAKE v \in Store!Rows
    <3>1. v \in DOMAIN heap /\ v \in Nat /\ v < seq /\ v # u
      BY <2>3, CommittedRows, PgAssumption DEF Inv, SeqInv, TypeOK, Store!Rows
    <3> QED
      BY <2>3, <2>4, <3>1
  <2>9. Store!IsUniqueKey(k)
    BY <2>7 DEF Store!IsUniqueKey, Store!Existing
  <2>10. Store!Insert(u, p, k, t)
    BY <1>1, <1>2, <2>4, <2>6, <2>7, <2>8, <2>9
    DEF Store!Insert, Store!IsNextSeq, Store!Rows
  <2> QED
    BY <2>4, <2>10 DEF Store!StoreNext
<1> QED
  BY <1>3, <1>4

\* What a completion that is about to commit has written: its row and the
\* latest quote of its pair.
LEMMA CompletionWrote ==
  ASSUME Inv, NEW w \in Workers, pc[w] = "commit"
  PROVE  /\ arg[w].id \in DOMAIN heap /\ heap[arg[w].id].by = w
         /\ \A u \in DOMAIN heap : heap[u].by = w => u = arg[w].id
         /\ arg[w].pair \in DOMAIN quotes /\ quotes[arg[w].pair].by = w
         /\ \A p \in DOMAIN quotes : quotes[p].by = w => p = arg[w].pair
<1>1. w # NULL
  BY PgNullAssumption DEF Calls
<1>2. /\ arg[w].id \in DOMAIN heap /\ heap[arg[w].id].by = w
      /\ \A u \in DOMAIN heap : heap[u].by = w => u = arg[w].id
  BY DEF Inv, CompletedInv
<1>3. /\ arg[w].pair \in DOMAIN quotes /\ quotes[arg[w].pair].by = w
      /\ \A p \in DOMAIN quotes : quotes[p].by = w => p = arg[w].pair
  BY <1>1 DEF Inv, LatestInv
<1> QED
  BY <1>2, <1>3

\* The commit of a completion is QuoteStore's Complete, and adds no row.
LEMMA CompletionCommitRefines ==
  ASSUME Inv, NEW w \in Workers, Commit(w)
  PROVE  Store!StoreNext /\ DOMAIN Committed(heap') = DOMAIN Committed(heap)
<1> DEFINE u == arg[w].id
           p == arg[w].pair
           q == arg[w].quote
           a == arg[w].attempt
           L == Committed(quotes)
<1>1. /\ pc[w] = "commit"
      /\ heap' = Ended(heap, w, TRUE) /\ quotes' = Ended(quotes, w, TRUE) /\ now' = now
  BY DEF Commit, EndTransaction
<1>2. p \in Pairs /\ q \in Store!Quote /\ u \in Updates
  BY <1>1 DEF Inv, ArgInv
<1>3. /\ heap[u].row # NULL /\ heap[u].row.status = "processing"
      /\ heap[u].row.attempt = a /\ heap[u].row.pair = p
      /\ heap[u].next = Store!CompletedRow(heap[u].row, q)
      /\ u \in DOMAIN heap
  BY <1>1, CompletionWrote DEF Inv, CompletedInv
<1>4. u \in DOMAIN Committed(heap) /\ Committed(heap)[u] = heap[u].row
  BY <1>3, CommittedRows
<1>5. heap[u].row \in Store!UpdateRow /\ heap[u].next # NULL
  <2>1. heap[u].row \in Store!UpdateRow /\ now \in Nat
    BY <1>4, RowTyped DEF Inv, TypeOK
  <2>2. Store!CompletedRow(heap[u].row, q) \in Store!UpdateRow
    BY <1>2, <2>1, ChangedRowsTyped
  <2> QED
    BY <1>3, <2>1, <2>2, PgNullAssumption
<1>6. Committed(heap)' = [Committed(heap) EXCEPT ![u] = Store!CompletedRow(@, q)]
  <2>1. Committed(heap)' = [y \in DOMAIN Committed(heap) \cup {u} |->
                              IF y = u THEN heap[u].next ELSE Committed(heap)[y]]
    <3>1. heap[u].by = w /\ \A y \in DOMAIN heap : heap[y].by = w => y = u
      BY <1>1, CompletionWrote
    <3>2. Committed(Ended(heap, w, TRUE)) = With(Committed(heap), u, heap[u].next)
      BY <1>3, <1>5, <3>1, CommitOfOne
    <3> QED
      BY <1>1, <3>2, CommittedPrime DEF With
  <2>2. DOMAIN Committed(heap) \cup {u} = DOMAIN Committed(heap)
    BY <1>4
  <2>3. Committed(heap) = [y \in DOMAIN Committed(heap) |-> Committed(heap)[y]]
    BY DEF Committed
  <2> QED
    BY <1>3, <1>4, <2>1, <2>2, <2>3
<1>7. /\ p \in DOMAIN quotes /\ quotes[p] \in Versions(Store!LatestRow)
      /\ quotes[p].next = Newer(u, q, quotes[p].row)
  BY <1>1, CompletionWrote, PgNullAssumption DEF Inv, LatestInv, TypeOK, Calls
<1>8. quotes[p].next # NULL
  <2>1. [request_seq |-> u, quote |-> q] \in Store!LatestRow
    BY <1>2 DEF Store!LatestRow
  <2> QED
    BY <1>7, <2>1, PgNullAssumption DEF Newer, Versions
<1>9. L' = [y \in DOMAIN L \cup {p} |-> IF y = p THEN Newer(u, q, quotes[p].row) ELSE L[y]]
  <2>1. quotes[p].by = w /\ \A y \in DOMAIN quotes : quotes[y].by = w => y = p
    BY <1>1, CompletionWrote
  <2>2. Committed(Ended(quotes, w, TRUE)) = With(L, p, quotes[p].next)
    BY <1>7, <1>8, <2>1, CommitOfOne
  <2> QED
    BY <1>1, <1>7, <2>2, CommittedPrime DEF With
<1>10. Store!AdvanceLatest(u, p, q)
  <2>1. CASE p \in DOMAIN L /\ ~Store!Supersedes(u, q, L[p])
    <3>1. quotes[p].row # NULL /\ L[p] = quotes[p].row
      BY <2>1, CommittedRows
    <3>2. Newer(u, q, quotes[p].row) = L[p]
      BY <2>1, <3>1 DEF Newer
    <3>3. L = [y \in DOMAIN L |-> L[y]] /\ DOMAIN L \cup {p} = DOMAIN L
      BY <2>1 DEF Committed
    <3>4. L' = L
      BY <1>9, <3>2, <3>3
    <3> QED
      BY <2>1, <3>4 DEF Store!AdvanceLatest
  <2>2. CASE ~(p \in DOMAIN L /\ ~Store!Supersedes(u, q, L[p]))
    <3>1. Newer(u, q, quotes[p].row) = [request_seq |-> u, quote |-> q]
      BY <1>7, <2>2, CommittedRows DEF Newer
    <3> QED
      BY <1>9, <2>2, <3>1 DEF Store!AdvanceLatest
  <2> QED
    BY <2>1, <2>2
<1>11. a \in 1..MaxAttempts
  BY <1>3, <1>4, RowFacts DEF Inv
<1>12. Store!Complete(u, a, p, q)
  BY <1>1, <1>3, <1>4, <1>6, <1>10
  DEF Store!Complete, Store!Owns, Store!Rows, Store!Status
<1>13. DOMAIN Committed(heap') = DOMAIN Committed(heap)
  BY <1>6, CommittedPrime
<1> QED
  BY <1>2, <1>11, <1>12, <1>13 DEF Store!StoreNext

\* Every step of the statements is a step of QuoteStore or changes nothing
\* anybody can see.
LEMMA Refines == Inv /\ [Next]_vars => [Store!StoreNext]_(Store!storeVars)
<1> SUFFICES ASSUME Inv, [Next]_vars PROVE Store!StoreNext \/ Stutter
  BY DEF Stutter
<1>1. \A c \in Calls : c \in Admissions \/ c \in Workers
  BY DEF Calls
<1>2. ASSUME NEW c \in Calls, Commit(c) PROVE Store!StoreNext \/ Stutter
  BY <1>1, <1>2, AdmissionCommitRefines, CompletionCommitRefines
<1>3. CASE \E c \in Admissions : CreateOrGet(c) \/ AdmissionStep(c)
  BY <1>2, <1>3, HiddenSteps DEF AdmissionStep, End, Calls
<1>4. CASE \E w \in Workers :
             ClaimNext(w) \/ Fetched(w) \/ BeginSettling(w) \/ CompletionStep(w)
  BY <1>2, <1>4, HiddenSteps, ClaimRefines, SettleRefines DEF CompletionStep, End, Calls
<1>5. CASE \E p \in Procs : RecoverExpired(p)
  BY <1>5, RecoverRefines
<1>6. CASE (\E c \in Calls : GiveUp(c)) \/ UNCHANGED vars
  BY <1>6, HiddenSteps
<1>7. CASE Tick
  BY <1>7, TickRefines
<1> QED
  BY <1>3, <1>4, <1>5, <1>6, <1>7 DEF Next

-----------------------------------------------------------------------------
(***************************************************************************)
(* What a step keeps that leaves the versions of open transactions alone.  *)
(***************************************************************************)
Late == {"upsert", "commit", "stranded"}

\* Before its first write a call has no version.
LEMMA NoVersions ==
  ASSUME Inv, NEW c \in Calls, pc[c] \notin Late
  PROVE  /\ \A u \in DOMAIN heap : heap[u].by # c
         /\ \A p \in DOMAIN quotes : quotes[p].by # c
<1>1. c # NULL /\ (c \in Admissions \/ c \in Workers)
  BY PgNullAssumption DEF Calls
<1>2. \A u \in DOMAIN heap : heap[u].by # c
  BY <1>1 DEF Inv, InsertedInv, CompletedInv, Late
<1>3. \A p \in DOMAIN quotes : quotes[p].by # c
  BY <1>1 DEF Inv, LatestInv, Late
<1> QED
  BY <1>2, <1>3

\* A worker that has written its row, and its pair's as well at its commit.
Writer(c, l) == c \in Workers /\ l \in {"upsert", "commit"}

\* The versions of open transactions stay, or go with their transaction, and
\* whoever has one stays where it is.
KeepsWriters ==
  /\ DOMAIN heap' \subseteq DOMAIN heap /\ seq' = seq
  /\ now' \in Nat /\ now' >= now
  /\ \A u \in DOMAIN heap' : heap'[u].by # NULL => heap'[u] = heap[u]
  /\ \A p \in DOMAIN quotes' :
       quotes'[p].by # NULL => p \in DOMAIN quotes /\ quotes'[p] = quotes[p]
  /\ \A u \in DOMAIN heap' :
       heap'[u].by \in Admissions => Covers(Committed(heap), Committed(heap'))
  /\ \A c \in Calls :
       \/ /\ pc'[c] = pc[c] /\ arg'[c] = arg[c]
          /\ \A u \in DOMAIN heap :
               heap[u].by = c => u \in DOMAIN heap' /\ heap'[u].by = c
          /\ \A p \in DOMAIN quotes :
               quotes[p].by = c => p \in DOMAIN quotes' /\ quotes'[p].by = c
       \/ /\ ~Writer(c, pc'[c])
          /\ \A u \in DOMAIN heap' : heap'[u].by # c
          /\ \A p \in DOMAIN quotes' : quotes'[p].by # c

\* Such a step keeps all that is said of versions.
LEMMA WritersKept ==
  ASSUME Inv, KeepsWriters
  PROVE  SeqInv' /\ InsertedInv' /\ CompletedInv' /\ LatestInv'
<1>1. SeqInv'
  BY DEF KeepsWriters, Inv, SeqInv
<1>2. InsertedInv'
  <2> SUFFICES ASSUME NEW u \in DOMAIN heap', heap'[u].by \in Admissions
               PROVE  /\ pc'[heap'[u].by] \in {"commit", "stranded"}
                      /\ heap'[u].row = NULL /\ seq' = u + 1
                      /\ \E p \in Pairs, k \in Keys \cup {NULL}, t \in 0..now' :
                           /\ heap'[u].next = Store!NewRow(p, k, t)
                           /\ Taken(Committed(heap'), k) = {}
                      /\ Room(Committed(heap'))
    BY CommittedPrime DEF InsertedInv
  <2>1. heap'[u].by # NULL /\ heap'[u].by \in Calls
    BY PgNullAssumption DEF Calls
  <2>2. u \in DOMAIN heap /\ heap'[u] = heap[u] /\ heap[u].by \in Admissions
    BY <2>1 DEF KeepsWriters
  <2>3. pc'[heap[u].by] = pc[heap[u].by]
    BY <2>1, <2>2 DEF KeepsWriters
  <2>4. /\ pc[heap[u].by] \in {"commit", "stranded"}
        /\ heap[u].row = NULL /\ seq = u + 1 /\ Room(Committed(heap))
    BY <2>2 DEF Inv, InsertedInv
  <2>5. PICK p \in Pairs, k \in Keys \cup {NULL}, t \in 0..now :
          heap[u].next = Store!NewRow(p, k, t) /\ Taken(Committed(heap), k) = {}
    BY <2>2 DEF Inv, InsertedInv
  <2>6. t \in 0..now'
    BY DEF KeepsWriters, Inv, TypeOK
  <2>7. Covers(Committed(heap), Committed(heap'))
    BY DEF KeepsWriters
  <2>8. Taken(Committed(heap'), k) = {} /\ Room(Committed(heap'))
    BY <2>4, <2>5, <2>7, CoversDecides
  <2> QED
    BY <2>2, <2>3, <2>4, <2>5, <2>6, <2>8 DEF KeepsWriters
<1>3. CompletedInv'
  <2>1. ASSUME NEW u \in DOMAIN heap', heap'[u].by \in Workers
        PROVE  /\ u \in DOMAIN heap /\ heap'[u] = heap[u] /\ heap[u].by \in Workers
               /\ pc'[heap[u].by] = pc[heap[u].by] /\ arg'[heap[u].by] = arg[heap[u].by]
    <3>1. heap'[u].by # NULL /\ heap'[u].by \in Calls
      BY <2>1, PgNullAssumption DEF Calls
    <3> QED
      BY <2>1, <3>1 DEF KeepsWriters
  <2>2. ASSUME NEW w \in Workers, pc'[w] \in {"upsert", "commit"}
        PROVE  arg'[w].id \in DOMAIN heap' /\ heap'[arg'[w].id].by = w
    <3>1. /\ pc'[w] = pc[w] /\ arg'[w] = arg[w]
          /\ \A u \in DOMAIN heap :
               heap[u].by = w => u \in DOMAIN heap' /\ heap'[u].by = w
      BY <2>2 DEF KeepsWriters, Calls, Writer
    <3> QED
      BY <2>2, <3>1 DEF Inv, CompletedInv
  <2>3. \A u \in DOMAIN heap : heap[u].by \in Workers =>
          LET w == heap[u].by IN
          /\ pc[w] \in {"upsert", "commit", "stranded"}
          /\ arg[w].id = u
          /\ heap[u].row # NULL
          /\ heap[u].row.status = "processing"
          /\ heap[u].row.attempt = arg[w].attempt
          /\ heap[u].row.pair = arg[w].pair
          /\ heap[u].next = Store!CompletedRow(heap[u].row, arg[w].quote)
    BY DEF Inv, CompletedInv
  <2>4. \A u \in DOMAIN heap' : heap'[u].by \in Workers =>
          LET w == heap'[u].by IN
          /\ pc'[w] \in {"upsert", "commit", "stranded"}
          /\ arg'[w].id = u
          /\ heap'[u].row # NULL
          /\ heap'[u].row.status = "processing"
          /\ heap'[u].row.attempt = arg'[w].attempt
          /\ heap'[u].row.pair = arg'[w].pair
          /\ heap'[u].next = Store!CompletedRow(heap'[u].row, arg'[w].quote)
    BY <2>1, <2>3
  <2> QED
    BY <2>2, <2>4 DEF CompletedInv, Store!CompletedRow
<1>4. LatestInv'
  <2>1. ASSUME NEW p \in DOMAIN quotes', quotes'[p].by # NULL
        PROVE  /\ quotes'[p].by \in Workers
               /\ pc'[quotes'[p].by] \in {"commit", "stranded"}
               /\ arg'[quotes'[p].by].pair = p
               /\ quotes'[p].next = Newer(arg'[quotes'[p].by].id, arg'[quotes'[p].by].quote,
                                          quotes'[p].row)
    <3>1. p \in DOMAIN quotes /\ quotes'[p] = quotes[p]
      BY <2>1 DEF KeepsWriters
    <3>2. quotes[p].by \in Workers /\ quotes[p].by \in Calls
      BY <2>1, <3>1 DEF Inv, LatestInv, Calls
    <3>3. pc'[quotes[p].by] = pc[quotes[p].by] /\ arg'[quotes[p].by] = arg[quotes[p].by]
      BY <3>1, <3>2 DEF KeepsWriters
    <3> QED
      BY <2>1, <3>1, <3>2, <3>3 DEF Inv, LatestInv
  <2>2. ASSUME NEW w \in Workers, pc'[w] = "commit"
        PROVE  arg'[w].pair \in DOMAIN quotes' /\ quotes'[arg'[w].pair].by = w
    <3>1. /\ pc'[w] = pc[w] /\ arg'[w] = arg[w]
          /\ \A p \in DOMAIN quotes :
               quotes[p].by = w => p \in DOMAIN quotes' /\ quotes'[p].by = w
      BY <2>2 DEF KeepsWriters, Calls, Writer
    <3> QED
      BY <2>2, <3>1 DEF Inv, LatestInv
  <2> QED
    BY <2>1, <2>2 DEF LatestInv, Newer, Store!Supersedes
<1> QED
  BY <1>1, <1>2, <1>3, <1>4

\* A call that has no version and does not go where it has one.
Moves(c) ==
  \/ pc'[c] = pc[c] /\ arg'[c] = arg[c]
  \/ pc[c] \notin Late /\ ~Writer(c, pc'[c])

\* Steps that change no version keep them.
LEMMA QuietKeeps ==
  ASSUME Inv, UNCHANGED <<heap, quotes, seq>>, now' \in Nat, now' >= now,
         \A c \in Calls : Moves(c)
  PROVE  KeepsWriters /\ Covers(Committed(heap), Committed(heap'))
<1>1. Covers(Committed(heap), Committed(heap'))
  BY CoversItself, SameFinite DEF Inv, StoreInv, SP!CapacityInv, SP!Rows
<1>2. \A c \in Calls : pc[c] \notin Late =>
        /\ \A u \in DOMAIN heap : heap[u].by # c
        /\ \A p \in DOMAIN quotes : quotes[p].by # c
  BY NoVersions
<1> QED
  BY <1>1, <1>2 DEF KeepsWriters, Moves

\* So do the statements that change committed rows nobody has locked.
LEMMA FreeRowsKeep ==
  ASSUME Inv, [Store!StoreNext]_(Store!storeVars),
         DOMAIN heap' = DOMAIN heap,
         \A u \in DOMAIN heap :
           /\ heap'[u].by = heap[u].by
           /\ heap[u].by # NULL => heap'[u] = heap[u]
           /\ heap'[u].row # NULL <=> heap[u].row # NULL,
         UNCHANGED <<quotes, seq, now>>,
         \A c \in Calls : Moves(c)
  PROVE  KeepsWriters /\ Covers(Committed(heap), Committed(heap'))
<1>1. DOMAIN Committed(heap') = DOMAIN Committed(heap)
  BY DEF Committed
<1>2. Covers(Committed(heap), Committed(heap'))
  BY <1>1, CoversNext DEF Inv
<1>3. \A c \in Calls : pc[c] \notin Late =>
        /\ \A u \in DOMAIN heap : heap[u].by # c
        /\ \A p \in DOMAIN quotes : quotes[p].by # c
  BY NoVersions
<1>4. now' \in Nat /\ now' >= now
  BY DEF Inv, TypeOK
<1> QED
  BY <1>2, <1>3, <1>4 DEF KeepsWriters, Moves

\* A snapshot that covered the rows covers what a step makes of them that
\* inserts none.
LEMMA SnapKept ==
  ASSUME Inv, Covers(Committed(heap), Committed(heap')),
         \A c \in Admissions :
           pc'[c] = "insert" => pc[c] = "insert" /\ snap'[c] = snap[c]
  PROVE  SnapInv'
<1> SUFFICES ASSUME NEW c \in Admissions, pc'[c] = "insert"
             PROVE  Covers(snap'[c], Committed(heap'))
  BY CommittedPrime DEF SnapInv, Covers
<1>1. Covers(snap[c], Committed(heap))
  BY DEF Inv, SnapInv
<1>2. snap'[c] = snap[c]
  OBVIOUS
<1> QED
  BY <1>1, <1>2, CoversTransitive

-----------------------------------------------------------------------------
(***************************************************************************)
(* The steps that only move a call.                                        *)
(***************************************************************************)
LockedPc == {"locked", "insert", "commit", "rollback", "stranded"}
AskedPc == {"gate", "begin", "lock", "locked", "insert"}
ClaimedPc == {"fetch", "begin", "update", "upsert", "commit"}
AllPc == OpenPc \cup {"new", "gate", "begin", "leave", "done", "idle", "fetch"}

\* What the control part of the invariant asks of one call.
AdmissionAt(c, l, a, held) ==
  /\ l \in LockedPc => held = c
  /\ l \in AskedPc => a \in [pair : Pairs, key : Keys \cup {NULL}]

WorkerAt(l, a) ==
  l \in ClaimedPc =>
    /\ a \in [id : Updates, attempt : Nat, pair : Pairs, quote : Store!Quote \cup {NULL}]
    /\ l # "fetch" => a.quote \in Store!Quote

CallAt(c, l, a, held) ==
  /\ c \in Admissions => AdmissionAt(c, l, a, held)
  /\ c \in Workers => WorkerAt(l, a)

\* The lock and the arguments of every call are as its place asks.
LEMMA ControlInv ==
  LockInv /\ ArgInv <=> \A c \in Calls : CallAt(c, pc[c], arg[c], lock)
BY DEF LockInv, ArgInv, CallAt, AdmissionAt, WorkerAt, LockedPc, AskedPc, ClaimedPc, Calls

\* The types of the variables other than the two tables.
ControlTypes ==
  /\ seq \in Nat /\ now \in Nat
  /\ lock \in Admissions \cup {NULL}
  /\ gate \in [Procs -> Admissions \cup {NULL}]
  /\ pc \in [Calls -> AllPc]
  /\ DOMAIN arg = Calls /\ DOMAIN snap = Calls
  /\ gone \subseteq {c \in Calls : Open(c)}
  /\ giveUps \in 0..MaxGiveUps

TableTypes ==
  /\ DOMAIN heap \subseteq Updates
  /\ \A u \in DOMAIN heap : heap[u] \in Versions(Store!UpdateRow)
  /\ DOMAIN quotes \subseteq Pairs
  /\ \A p \in DOMAIN quotes : quotes[p] \in Versions(Store!LatestRow)

\* They make up the type invariant.
LEMMA TypeParts == TypeOK <=> ControlTypes /\ TableTypes
BY DEF TypeOK, ControlTypes, TableTypes, AllPc

\* Call c moves to l with arguments a, the others stay where they are.
OneCall(c, l, a) ==
  /\ pc' \in [Calls -> AllPc] /\ DOMAIN arg' = Calls /\ DOMAIN snap' = Calls
  /\ pc'[c] = l /\ arg'[c] = a
  /\ \A d \in Calls \ {c} : pc'[d] = pc[d] /\ arg'[d] = arg[d] /\ snap'[d] = snap[d]

\* That is what Goto does, with the assignments to arg and snap.
LEMMA GotoMovesOne ==
  ASSUME Inv, NEW c \in Calls, NEW l \in AllPc, NEW a, Goto(c, l),
         (arg' = arg /\ a = arg[c]) \/ arg' = [arg EXCEPT ![c] = a],
         snap' = snap \/ \E s : snap' = [snap EXCEPT ![c] = s]
  PROVE  OneCall(c, l, a)
<1>1. pc \in [Calls -> AllPc] /\ DOMAIN arg = Calls /\ DOMAIN snap = Calls
  BY DEF Inv, TypeOK, AllPc
<1> QED
  BY <1>1 DEF Goto, OneCall

\* One call moves: what is asked of the others stays.
LEMMA OneMoves ==
  ASSUME Inv, NEW c \in Calls, NEW l, NEW a, OneCall(c, l, a),
         CallAt(c, l, a, lock'),
         lock' = lock \/ \A d \in Admissions \ {c} : pc[d] \notin LockedPc
  PROVE  LockInv' /\ ArgInv'
<1>1. /\ pc'[c] = l /\ arg'[c] = a
      /\ \A d \in Calls : d # c => pc'[d] = pc[d] /\ arg'[d] = arg[d]
  BY DEF OneCall
<1>2. \A d \in Calls : CallAt(d, pc[d], arg[d], lock)
  BY ControlInv DEF Inv
<1>3. ASSUME NEW d \in Calls PROVE CallAt(d, pc'[d], arg'[d], lock')
  <2>1. CASE d = c
    BY <1>1, <2>1
  <2>2. CASE d # c /\ lock' = lock
    BY <1>1, <1>2, <2>2
  <2>3. CASE d # c /\ \A e \in Admissions \ {c} : pc[e] \notin LockedPc
    <3>1. CallAt(d, pc[d], arg[d], lock) /\ pc'[d] = pc[d] /\ arg'[d] = arg[d]
      BY <1>1, <1>2, <2>3
    <3>2. d \in Admissions => pc'[d] \notin LockedPc
      BY <2>3, <3>1
    <3> QED
      BY <3>1, <3>2 DEF CallAt, AdmissionAt
  <2> QED
    BY <2>1, <2>2, <2>3
<1>4. \A d \in Calls : CallAt(d, pc'[d], arg'[d], lock')
  BY <1>3
<1> QED
  BY <1>4 DEF LockInv, ArgInv, CallAt, AdmissionAt, WorkerAt, LockedPc, AskedPc, ClaimedPc,
    Calls

\* What remains to be shown of a step, the committed tables apart.
Kept ==
  /\ TypeOK' /\ LockInv' /\ SeqInv' /\ ArgInv' /\ SnapInv'
  /\ InsertedInv' /\ CompletedInv' /\ LatestInv'

\* A call that moves and touches no table keeps everything.
LEMMA MoveKeeps ==
  ASSUME Inv, NEW c \in Calls, NEW l, NEW a, OneCall(c, l, a),
         CallAt(c, l, a, lock'), pc[c] \notin Late, ~Writer(c, l),
         lock' = lock \/ \A d \in Admissions \ {c} : pc[d] \notin LockedPc,
         l = "insert" => snap'[c] = Committed(heap),
         lock' \in Admissions \cup {NULL}, gate' \in [Procs -> Admissions \cup {NULL}],
         (gone' = gone /\ (c \in gone => l \in OpenPc)) \/ gone' = gone \ {c},
         giveUps' \in 0..MaxGiveUps,
         UNCHANGED <<heap, quotes, seq, now>>
  PROVE  Kept
<1>1. LockInv' /\ ArgInv'
  BY OneMoves
<1>2. now \in Nat /\ gone \subseteq Calls /\ \A d \in gone : pc[d] \in OpenPc
  BY DEF Inv, TypeOK, Open
<1>3. \A d \in Calls : Moves(d)
  BY DEF OneCall, Moves
<1>4. KeepsWriters /\ Covers(Committed(heap), Committed(heap'))
  BY <1>2, <1>3, QuietKeeps
<1>5. SeqInv' /\ InsertedInv' /\ CompletedInv' /\ LatestInv'
  BY <1>4, WritersKept
<1>6. SnapInv'
  <2> SUFFICES ASSUME NEW d \in Admissions, pc'[d] = "insert"
               PROVE  Covers(snap'[d], Committed(heap'))
    BY CommittedPrime DEF SnapInv, Covers
  <2>1. CASE d = c
    BY <1>4, <2>1 DEF OneCall
  <2>2. CASE d # c
    <3>1. pc[d] = "insert" /\ snap'[d] = snap[d]
      BY <2>2 DEF OneCall, Calls
    <3>2. Covers(snap[d], Committed(heap))
      BY <3>1 DEF Inv, SnapInv
    <3> QED
      BY <1>4, <3>1, <3>2, CoversTransitive
  <2> QED
    BY <2>1, <2>2
<1>7. TypeOK'
  <2>1. \A d \in gone' : d \in Calls /\ pc'[d] \in OpenPc
    BY <1>2 DEF OneCall
  <2>2. TableTypes'
    BY TypeParts DEF TableTypes, Inv
  <2>3. seq' \in Nat /\ now' \in Nat
    BY DEF Inv, TypeOK
  <2>4. ControlTypes'
    BY <2>1, <2>3 DEF ControlTypes, OneCall, Open
  <2> QED
    BY <2>2, <2>4 DEF TypeOK, ControlTypes, TableTypes, AllPc
<1> QED
  BY <1>1, <1>5, <1>6, <1>7 DEF Kept


\* The place and the arguments of a call before the step.
LEMMA CallBefore ==
  ASSUME Inv, NEW c \in Calls
  PROVE  /\ CallAt(c, pc[c], arg[c], lock)
         /\ c \in gone => pc[c] \in OpenPc
         /\ c \in Admissions <=> c \notin Workers
         /\ lock \in Admissions \cup {NULL} /\ giveUps \in 0..MaxGiveUps
         /\ gate \in [Procs -> Admissions \cup {NULL}]
BY ControlInv, PgAssumption DEF Inv, TypeOK, Calls, Open

\* From the call of CreateOrGet to its BEGIN, and after its end.
LEMMA AdmissionMoves ==
  ASSUME Inv, NEW c \in Admissions,
         \/ CreateOrGet(c) \/ EnterGate(c) \/ BeginAdmission(c) \/ AdvisoryLock(c)
         \/ StartInsert(c) \/ LeaveGate(c)
  PROVE  Kept
<1>1. /\ c \in Calls /\ c \notin Workers /\ CallAt(c, pc[c], arg[c], lock)
      /\ c \in gone => pc[c] \in OpenPc
      /\ lock \in Admissions \cup {NULL} /\ giveUps \in 0..MaxGiveUps
      /\ gate \in [Procs -> Admissions \cup {NULL}]
  BY CallBefore DEF Calls
<1>2. CASE CreateOrGet(c)
  <2>1. PICK p \in Pairs, k \in Keys \cup {NULL} :
          arg' = [arg EXCEPT ![c] = [pair |-> p, key |-> k]]
    BY <1>2 DEF CreateOrGet
  <2> DEFINE a == [pair |-> p, key |-> k]
  <2>2. /\ pc[c] = "new" /\ Goto(c, "gate")
        /\ UNCHANGED <<heap, quotes, seq, now, lock, gate, snap, gone, giveUps>>
    BY <1>2 DEF CreateOrGet
  <2>3. OneCall(c, "gate", a)
    BY <1>1, <2>1, <2>2, GotoMovesOne DEF AllPc
  <2>4. CallAt(c, "gate", a, lock')
    BY <1>1 DEF CallAt, AdmissionAt, LockedPc
  <2> QED
    BY <1>1, <2>2, <2>3, <2>4, MoveKeeps DEF Late, Writer, OpenPc
<1>3. CASE EnterGate(c)
  <2>1. /\ pc[c] = "gate" /\ Goto(c, "begin") /\ gate' = [gate EXCEPT ![Host[c]] = c]
        /\ UNCHANGED <<heap, quotes, seq, now, lock, arg, snap, gone, giveUps>>
    BY <1>3 DEF EnterGate
  <2>2. OneCall(c, "begin", arg[c])
    BY <1>1, <2>1, GotoMovesOne DEF AllPc
  <2>3. CallAt(c, "begin", arg[c], lock')
    BY <1>1, <2>1 DEF CallAt, AdmissionAt, LockedPc, AskedPc
  <2>4. gate' \in [Procs -> Admissions \cup {NULL}]
    BY <1>1, <2>1
  <2> QED
    BY <1>1, <2>1, <2>2, <2>3, <2>4, MoveKeeps DEF Late, Writer, OpenPc
<1>4. CASE BeginAdmission(c)
  <2>1. /\ pc[c] = "begin" /\ Goto(c, "lock")
        /\ snap' = [snap EXCEPT ![c] = Committed(heap)]
        /\ UNCHANGED <<heap, quotes, seq, now, lock, gate, arg, gone, giveUps>>
    BY <1>4 DEF BeginAdmission
  <2>2. OneCall(c, "lock", arg[c])
    BY <1>1, <2>1, GotoMovesOne DEF AllPc, OpenPc
  <2>3. CallAt(c, "lock", arg[c], lock')
    BY <1>1, <2>1 DEF CallAt, AdmissionAt, LockedPc, AskedPc
  <2> QED
    BY <1>1, <2>1, <2>2, <2>3, MoveKeeps DEF Late, Writer, OpenPc
<1>5. CASE AdvisoryLock(c)
  <2>1. /\ pc[c] = "lock" /\ lock = NULL /\ lock' = c /\ Goto(c, "locked")
        /\ UNCHANGED <<heap, quotes, seq, now, gate, arg, snap, gone, giveUps>>
    BY <1>5 DEF AdvisoryLock
  <2>2. OneCall(c, "locked", arg[c])
    BY <1>1, <2>1, GotoMovesOne DEF AllPc, OpenPc
  <2>3. CallAt(c, "locked", arg[c], lock')
    BY <1>1, <2>1 DEF CallAt, AdmissionAt, LockedPc, AskedPc
  <2>4. \A d \in Admissions \ {c} : pc[d] \notin LockedPc
    BY <2>1, PgNullAssumption DEF Inv, LockInv, LockedPc, Calls
  <2> QED
    BY <1>1, <2>1, <2>2, <2>3, <2>4, MoveKeeps DEF Late, Writer, OpenPc
<1>6. CASE StartInsert(c)
  <2>1. /\ pc[c] = "locked" /\ Goto(c, "insert")
        /\ snap' = [snap EXCEPT ![c] = Committed(heap)]
        /\ UNCHANGED <<heap, quotes, seq, now, lock, gate, arg, gone, giveUps>>
    BY <1>6 DEF StartInsert
  <2>2. OneCall(c, "insert", arg[c])
    BY <1>1, <2>1, GotoMovesOne DEF AllPc, OpenPc
  <2>3. CallAt(c, "insert", arg[c], lock')
    BY <1>1, <2>1 DEF CallAt, AdmissionAt, LockedPc, AskedPc
  <2>4. snap'[c] = Committed(heap)
    BY <1>1, <2>1 DEF Inv, TypeOK
  <2> QED
    BY <1>1, <2>1, <2>2, <2>3, <2>4, MoveKeeps DEF Late, Writer, OpenPc
<1>7. CASE LeaveGate(c)
  <2>1. /\ pc[c] = "leave" /\ Goto(c, "done") /\ gate' = [gate EXCEPT ![Host[c]] = NULL]
        /\ UNCHANGED <<heap, quotes, seq, now, lock, arg, snap, gone, giveUps>>
    BY <1>7 DEF LeaveGate
  <2>2. OneCall(c, "done", arg[c])
    BY <1>1, <2>1, GotoMovesOne DEF AllPc
  <2>3. CallAt(c, "done", arg[c], lock')
    BY <1>1 DEF CallAt, AdmissionAt, LockedPc, AskedPc
  <2>4. gate' \in [Procs -> Admissions \cup {NULL}]
    BY <1>1, <2>1
  <2>5. c \notin gone
    BY <1>1, <2>1 DEF OpenPc
  <2> QED
    BY <1>1, <2>1, <2>2, <2>3, <2>4, <2>5, MoveKeeps DEF Late, Writer
<1> QED
  BY <1>2, <1>3, <1>4, <1>5, <1>6, <1>7

\* A worker got its quote, or sends Retry, Fail or the BEGIN of its completion.
LEMMA WorkerMoves ==
  ASSUME Inv, NEW w \in Workers, Fetched(w) \/ BeginSettling(w) \/ BeginCompletion(w)
  PROVE  Kept
<1>1. /\ w \in Calls /\ w \notin Admissions /\ CallAt(w, pc[w], arg[w], lock)
      /\ w \in gone => pc[w] \in OpenPc
      /\ lock \in Admissions \cup {NULL} /\ giveUps \in 0..MaxGiveUps
      /\ gate \in [Procs -> Admissions \cup {NULL}]
  BY CallBefore DEF Calls
<1>2. CASE Fetched(w)
  <2>1. PICK q \in Store!Quote : arg' = [arg EXCEPT ![w].quote = q]
    BY <1>2 DEF Fetched
  <2> DEFINE a == [arg[w] EXCEPT !.quote = q]
  <2>2. /\ pc[w] = "fetch" /\ Goto(w, "begin")
        /\ UNCHANGED <<heap, quotes, seq, now, lock, gate, snap, gone, giveUps>>
    BY <1>2 DEF Fetched
  <2>3. arg' = [arg EXCEPT ![w] = a]
    BY <2>1
  <2>4. OneCall(w, "begin", a)
    BY <1>1, <2>2, <2>3, GotoMovesOne DEF AllPc
  <2>5. arg[w] \in [id : Updates, attempt : Nat, pair : Pairs, quote : Store!Quote \cup {NULL}]
    BY <1>1, <2>2 DEF CallAt, WorkerAt, ClaimedPc
  <2>6. CallAt(w, "begin", a, lock')
    BY <1>1, <2>5 DEF CallAt, WorkerAt
  <2>7. w \notin gone
    BY <1>1, <2>2 DEF OpenPc
  <2> QED
    BY <1>1, <2>2, <2>4, <2>6, <2>7, MoveKeeps DEF Late, Writer
<1>3. CASE BeginCompletion(w)
  <2>1. /\ pc[w] = "begin" /\ Goto(w, "update")
        /\ UNCHANGED <<heap, quotes, seq, now, lock, gate, arg, snap, gone, giveUps>>
    BY <1>3 DEF BeginCompletion
  <2>2. OneCall(w, "update", arg[w])
    BY <1>1, <2>1, GotoMovesOne DEF AllPc, OpenPc
  <2>3. CallAt(w, "update", arg[w], lock')
    BY <1>1, <2>1 DEF CallAt, WorkerAt, ClaimedPc
  <2> QED
    BY <1>1, <2>1, <2>2, <2>3, MoveKeeps DEF Late, Writer, OpenPc
<1>4. CASE BeginSettling(w)
  <2>1. /\ pc[w] = "fetch" /\ Goto(w, "settle")
        /\ UNCHANGED <<heap, quotes, seq, now, lock, gate, arg, snap, gone, giveUps>>
    BY <1>4 DEF BeginSettling
  <2>2. OneCall(w, "settle", arg[w])
    BY <1>1, <2>1, GotoMovesOne DEF AllPc, OpenPc
  <2>3. CallAt(w, "settle", arg[w], lock')
    BY <1>1 DEF CallAt, WorkerAt, ClaimedPc
  <2> QED
    BY <1>1, <2>1, <2>2, <2>3, MoveKeeps DEF Late, Writer, OpenPc
<1> QED
  BY <1>2, <1>3, <1>4

\* A client that goes away moves its call out of everybody's way, or leaves
\* everything to the server.
LEMMA GiveUpKeeps ==
  ASSUME Inv, NEW c \in Calls, GiveUp(c)
  PROVE  Kept
<1>1. /\ CallAt(c, pc[c], arg[c], lock)
      /\ c \in gone => pc[c] \in OpenPc
      /\ c \in Admissions <=> c \notin Workers
      /\ lock \in Admissions \cup {NULL} /\ giveUps \in 0..MaxGiveUps
      /\ gate \in [Procs -> Admissions \cup {NULL}]
  BY CallBefore
<1>2. /\ gate' = [gate EXCEPT ![Host[c]] = IF @ = c THEN NULL ELSE @]
      /\ giveUps < MaxGiveUps /\ giveUps' = giveUps + 1
      /\ UNCHANGED <<heap, quotes, seq, now, lock, snap>>
  BY DEF GiveUp
<1>3. gate' \in [Procs -> Admissions \cup {NULL}] /\ giveUps' \in 0..MaxGiveUps
  BY <1>1, <1>2, PgAssumption
<1>4. CASE pc[c] \in {"gate", "begin"}
  <2> DEFINE l == IF c \in Workers THEN "idle" ELSE "done"
  <2>1. Goto(c, l) /\ arg' = [arg EXCEPT ![c] = NULL] /\ gone' = gone
    BY <1>4 DEF GiveUp, Open, OpenPc
  <2>2. OneCall(c, l, NULL)
    BY <1>2, <2>1, GotoMovesOne DEF AllPc
  <2>3. CallAt(c, l, NULL, lock')
    BY DEF CallAt, AdmissionAt, WorkerAt, LockedPc, AskedPc, ClaimedPc
  <2>4. c \notin gone
    BY <1>1, <1>4 DEF OpenPc
  <2> QED
    BY <1>1, <1>2, <1>3, <1>4, <2>1, <2>2, <2>3, <2>4, MoveKeeps DEF Late, Writer
<1>5. CASE pc[c] \notin {"gate", "begin"}
  <2>1. /\ Open(c) /\ gone' = gone \cup {c} /\ UNCHANGED <<pc, arg>>
    BY <1>5 DEF GiveUp
  <2>2. KeepsWriters /\ Covers(Committed(heap), Committed(heap'))
    BY <1>2, <2>1, QuietKeeps DEF Moves, Inv, TypeOK
  <2>3. SeqInv' /\ InsertedInv' /\ CompletedInv' /\ LatestInv'
    BY <2>2, WritersKept
  <2>4. SnapInv'
    BY <1>2, <2>1, <2>2, SnapKept
  <2>5. LockInv' /\ ArgInv'
    BY <1>2, <2>1 DEF Inv, LockInv, ArgInv
  <2>6. TypeOK'
    BY <1>2, <1>3, <2>1 DEF Inv, TypeOK, Open
  <2> QED
    BY <2>3, <2>4, <2>5, <2>6 DEF Kept
<1> QED
  BY <1>4, <1>5

-----------------------------------------------------------------------------
(***************************************************************************)
(* The statements that commit by themselves, and the clock.                *)
(***************************************************************************)

\* The types of everything but the tables, for a step of one call.
LEMMA ControlTyped ==
  ASSUME Inv, NEW c \in Calls, NEW l, NEW a, OneCall(c, l, a),
         lock' \in Admissions \cup {NULL}, gate' = gate, giveUps' = giveUps,
         \/ gone' = gone /\ (c \in gone => l \in OpenPc)
         \/ gone' = gone \ {c},
         seq' \in Nat, now' \in Nat
  PROVE  ControlTypes'
<1>1. /\ gone \subseteq Calls /\ \A d \in gone : pc[d] \in OpenPc
      /\ gate \in [Procs -> Admissions \cup {NULL}] /\ giveUps \in 0..MaxGiveUps
  BY DEF Inv, TypeOK, Open
<1>2. \A d \in gone' : d \in Calls /\ pc'[d] \in OpenPc
  BY <1>1 DEF OneCall
<1> QED
  BY <1>1, <1>2 DEF ControlTypes, OneCall, Open

\* The parts of the type invariant in the next state.
LEMMA TypesPrimed == ControlTypes' /\ TableTypes' => TypeOK'
BY DEF TypeOK, ControlTypes, TableTypes, AllPc

\* The other versions of a table stay when a committed row is replaced.
LEMMA ReplacedShape ==
  ASSUME NEW R, NEW h, NEW x \in DOMAIN h, h[x] \in Versions(R), NEW r \in R
  PROVE  /\ DOMAIN Replaced(h, x, r) = DOMAIN h
         /\ \A y \in DOMAIN h \ {x} : Replaced(h, x, r)[y] = h[y]
         /\ Replaced(h, x, r)[x].by = h[x].by /\ Replaced(h, x, r)[x].row = r
         /\ Replaced(h, x, r)[x] \in Versions(R)
BY DEF Replaced, Versions

\* A worker's statement that replaces a committed row nobody has locked.
LEMMA OneRowKeeps ==
  ASSUME Inv, [Store!StoreNext]_(Store!storeVars), NEW w \in Workers,
         NEW u \in DOMAIN Committed(heap), heap[u].by = NULL, NEW r \in Store!UpdateRow,
         heap' = Replaced(heap, u, r),
         NEW l, NEW a, OneCall(w, l, a), CallAt(w, l, a, lock'),
         pc[w] \notin Late, ~Writer(w, l), gone' = gone \ {w},
         UNCHANGED <<quotes, seq, now, lock, gate, giveUps>>
  PROVE  Kept
<1>1. w \in Calls /\ w \notin Admissions
  BY PgAssumption DEF Calls
<1>2. /\ u \in DOMAIN heap /\ u \in Updates /\ heap[u] \in Versions(Store!UpdateRow)
      /\ heap[u].row # NULL
  BY RowTyped
<1>3. /\ DOMAIN heap' = DOMAIN heap
      /\ \A v \in DOMAIN heap \ {u} : heap'[v] = heap[v]
      /\ heap'[u].by = NULL /\ heap'[u].row = r
      /\ heap'[u] \in Versions(Store!UpdateRow)
  BY <1>2, ReplacedShape
<1>4. r # NULL
  BY PgNullAssumption
<1>5. \A d \in Calls : Moves(d)
  BY DEF OneCall, Moves
<1>6. KeepsWriters /\ Covers(Committed(heap), Committed(heap'))
  <2>1. \A v \in DOMAIN heap :
          /\ heap'[v].by = heap[v].by
          /\ heap[v].by # NULL => heap'[v] = heap[v]
          /\ heap'[v].row # NULL <=> heap[v].row # NULL
    BY <1>2, <1>3, <1>4
  <2> QED
    BY <1>3, <1>5, <2>1, FreeRowsKeep
<1>7. SeqInv' /\ InsertedInv' /\ CompletedInv' /\ LatestInv'
  BY <1>6, WritersKept
<1>8. LockInv' /\ ArgInv'
  BY <1>1, OneMoves
<1>9. SnapInv'
  <2>1. \A d \in Admissions :
          pc'[d] = "insert" => pc[d] = "insert" /\ snap'[d] = snap[d]
    BY <1>1 DEF OneCall, Calls
  <2> QED
    BY <1>6, <2>1, SnapKept
<1>10. TypeOK'
  <2>1. seq' \in Nat /\ now' \in Nat /\ lock' \in Admissions \cup {NULL}
    BY DEF Inv, TypeOK
  <2>2. ControlTypes'
    BY <1>1, <2>1, ControlTyped
  <2>3. TableTypes
    BY TypeParts DEF Inv
  <2>4. TableTypes'
    BY <1>3, <2>3 DEF TableTypes
  <2> QED
    BY <2>2, <2>4, TypesPrimed
<1> QED
  BY <1>7, <1>8, <1>9, <1>10 DEF Kept

\* A claim keeps what open transactions rely on: it skips their rows.
LEMMA ClaimKeeps ==
  ASSUME Inv, NEW w \in Workers, ClaimNext(w)
  PROVE  Kept
<1>1. PICK u \in Store!Ready \ Locked :
        /\ heap' = Replaced(heap, u, Store!ClaimedRow(heap[u].row))
        /\ arg' = [arg EXCEPT ![w] = [id |-> u, attempt |-> heap[u].row.attempt + 1,
                                      pair |-> heap[u].row.pair, quote |-> NULL]]
  BY DEF ClaimNext
<1>2. /\ pc[w] = "idle" /\ Goto(w, "fetch")
      /\ UNCHANGED <<quotes, seq, now, lock, gate, snap, gone, giveUps>>
  BY DEF ClaimNext
<1> DEFINE a == [id |-> u, attempt |-> heap[u].row.attempt + 1,
                 pair |-> heap[u].row.pair, quote |-> NULL]
<1>3. u \in DOMAIN Committed(heap)
  BY DEF Store!Ready, Store!Rows
<1>4. /\ u \in DOMAIN heap /\ u \in Updates /\ heap[u].row \in Store!UpdateRow
      /\ heap[u].by = NULL
  BY <1>3, RowTyped DEF Locked
<1>5. Store!ClaimedRow(heap[u].row) \in Store!UpdateRow
  BY <1>4, ChangedRowsTyped DEF Inv, TypeOK
<1>6. w \in Calls /\ w \notin Admissions /\ w \notin gone
  BY <1>2, CallBefore DEF Calls, OpenPc
<1>7. OneCall(w, "fetch", a)
  BY <1>1, <1>2, <1>6, GotoMovesOne DEF AllPc
<1>8. a \in [id : Updates, attempt : Nat, pair : Pairs, quote : Store!Quote \cup {NULL}]
  BY <1>4 DEF Store!UpdateRow
<1>9. CallAt(w, "fetch", a, lock')
  BY <1>6, <1>8 DEF CallAt, WorkerAt
<1>10. Store!StoreNext
  BY ClaimRefines
<1>11. gone' = gone \ {w}
  BY <1>2, <1>6
<1> QED
  BY <1>1, <1>2, <1>3, <1>4, <1>5, <1>6, <1>7, <1>9, <1>10, <1>11, OneRowKeeps DEF Late, Writer

\* Retry and Fail wait for the row, so they keep it too.
LEMMA SettleKeeps ==
  ASSUME Inv, NEW w \in Workers, SettleInOneStatement(w)
  PROVE  Kept
<1> DEFINE u == arg[w].id
<1>1. /\ pc[w] = "settle" /\ Goto(w, "idle") /\ arg' = [arg EXCEPT ![w] = NULL]
      /\ LockedBy(heap, u) = NULL /\ gone' = gone \ {w}
      /\ UNCHANGED <<quotes, seq, now, lock, gate, snap, giveUps>>
  BY DEF SettleInOneStatement
<1>2. /\ w \in Calls /\ w \notin Admissions
      /\ lock \in Admissions \cup {NULL} /\ giveUps \in 0..MaxGiveUps
      /\ gate \in [Procs -> Admissions \cup {NULL}]
  BY <1>1, CallBefore DEF Calls, OpenPc
<1>3. OneCall(w, "idle", NULL)
  BY <1>1, <1>2, GotoMovesOne DEF AllPc
<1>4. CallAt(w, "idle", NULL, lock')
  BY <1>2 DEF CallAt, WorkerAt, ClaimedPc
<1>5. CASE ~Store!Owns(u, arg[w].attempt)
  <2>1. UNCHANGED heap
    BY <1>5 DEF SettleInOneStatement
  <2> QED
    BY <1>1, <1>2, <1>3, <1>4, <2>1, MoveKeeps DEF Late, Writer
<1>6. CASE Store!Owns(u, arg[w].attempt)
  <2>1. u \in DOMAIN Committed(heap)
    BY <1>6 DEF Store!Owns, Store!Rows
  <2>2. u \in DOMAIN heap /\ heap[u].row \in Store!UpdateRow /\ heap[u].by = NULL
    BY <1>1, <2>1, RowTyped DEF LockedBy
  <2>3. now \in Nat
    BY DEF Inv, TypeOK
  <2>4. PICK r : /\ heap' = Replaced(heap, u, r)
                 /\ \/ \E d \in RetryDelays : r = Store!RetriedRow(heap[u].row, d)
                    \/ \E e \in Store!FailureCodes : r = Store!FailedRow(heap[u].row, e)
    BY <1>6 DEF SettleInOneStatement
  <2>5. r \in Store!UpdateRow
    BY <2>2, <2>3, <2>4, ChangedRowsTyped
  <2>6. [Store!StoreNext]_(Store!storeVars)
    BY SettleRefines DEF Stutter
  <2> QED
    BY <1>1, <1>2, <1>3, <1>4, <2>1, <2>2, <2>4, <2>5, <2>6, OneRowKeeps DEF Late, Writer
<1> QED
  BY <1>5, <1>6

\* A recovery keeps what open transactions rely on: it skips their rows.
LEMMA RecoverKeeps ==
  ASSUME Inv, NEW p, RecoverExpired(p)
  PROVE  Kept
<1>1. PICK B \in SUBSET (Store!Expired \ Locked) :
        heap' = [u \in DOMAIN heap |->
                   IF u \in B THEN [heap[u] EXCEPT !.row = Store!RecoveredRow(@)]
                   ELSE heap[u]]
  BY DEF RecoverExpired
<1>2. UNCHANGED <<quotes, seq, now, lock, gate, pc, arg, snap, gone, giveUps>>
  BY DEF RecoverExpired
<1>3. now \in Nat
  BY DEF Inv, TypeOK
<1>4. \A u \in B :
        /\ u \in DOMAIN heap /\ heap[u].by = NULL /\ heap[u].row # NULL
        /\ heap[u] \in Versions(Store!UpdateRow)
        /\ Store!RecoveredRow(heap[u].row) \in Store!UpdateRow
        /\ Store!RecoveredRow(heap[u].row) # NULL
  <2> TAKE u \in B
  <2>1. u \in DOMAIN Committed(heap)
    BY DEF Store!Expired, Store!Rows
  <2>2. /\ u \in DOMAIN heap /\ heap[u].row # NULL /\ heap[u].row \in Store!UpdateRow
        /\ heap[u] \in Versions(Store!UpdateRow)
    BY <2>1, RowTyped
  <2>3. Store!RecoveredRow(heap[u].row) \in Store!UpdateRow
    BY <1>3, <2>2, ChangedRowsTyped
  <2> QED
    BY <2>2, <2>3, PgNullAssumption DEF Locked
<1>5. /\ DOMAIN heap' = DOMAIN heap
      /\ \A u \in DOMAIN heap \ B : heap'[u] = heap[u]
      /\ \A u \in B : /\ heap'[u].by = NULL
                      /\ heap'[u].row = Store!RecoveredRow(heap[u].row)
                      /\ heap'[u] \in Versions(Store!UpdateRow)
  BY <1>1, <1>4 DEF Versions
<1>6. \A u \in DOMAIN heap :
        /\ heap'[u].by = heap[u].by
        /\ heap[u].by # NULL => heap'[u] = heap[u]
        /\ heap'[u].row # NULL <=> heap[u].row # NULL
  BY <1>4, <1>5
<1>7. [Store!StoreNext]_(Store!storeVars)
  BY RecoverRefines
<1>8. KeepsWriters /\ Covers(Committed(heap), Committed(heap'))
  BY <1>2, <1>5, <1>6, <1>7, FreeRowsKeep DEF Moves
<1>9. SeqInv' /\ InsertedInv' /\ CompletedInv' /\ LatestInv'
  BY <1>8, WritersKept
<1>10. SnapInv'
  BY <1>2, <1>8, SnapKept
<1>11. LockInv' /\ ArgInv'
  BY <1>2 DEF Inv, LockInv, ArgInv
<1>12. TypeOK'
  <2>1. ControlTypes /\ TableTypes
    BY TypeParts DEF Inv
  <2>2. ControlTypes'
    BY <1>2, <2>1 DEF ControlTypes, Open
  <2>3. TableTypes'
    BY <1>2, <1>5, <2>1 DEF TableTypes
  <2> QED
    BY <2>2, <2>3, TypesPrimed
<1> QED
  BY <1>9, <1>10, <1>11, <1>12 DEF Kept

\* Neither time nor doing nothing changes anything.
LEMMA TickKeeps ==
  ASSUME Inv, Tick \/ UNCHANGED vars
  PROVE  Kept
<1>1. /\ UNCHANGED <<heap, quotes, seq, lock, gate, pc, arg, snap, gone, giveUps>>
      /\ now \in Nat /\ now' \in Nat /\ now' >= now
  BY DEF Tick, vars, Inv, TypeOK
<1>2. KeepsWriters /\ Covers(Committed(heap), Committed(heap'))
  BY <1>1, QuietKeeps DEF Moves
<1>3. SeqInv' /\ InsertedInv' /\ CompletedInv' /\ LatestInv'
  BY <1>2, WritersKept
<1>4. SnapInv'
  BY <1>1, <1>2, SnapKept
<1>5. LockInv' /\ ArgInv'
  BY <1>1 DEF Inv, LockInv, ArgInv
<1>6. TypeOK'
  BY <1>1 DEF Inv, TypeOK, Open
<1> QED
  BY <1>3, <1>4, <1>5, <1>6 DEF Kept

-----------------------------------------------------------------------------
(***************************************************************************)
(* The statements of open transactions.                                    *)
(***************************************************************************)

\* A write of an open transaction makes a version.
LEMMA WrittenTyped ==
  ASSUME NEW R, NEW h, NEW x, x \in DOMAIN h => h[x] \in Versions(R), NEW c \in Calls,
         NEW r \in R
  PROVE  Written(h, x, c, r)[x] \in Versions(R)
BY DEF Written, Versions

\* A key that an inserting statement does not see in its snapshot is in no
\* version of any row: the lock has kept other inserts out, and completions
\* write rows whose key is already committed.
LEMMA IndexCovered == Inv => UniqueNeverRefuses
<1> SUFFICES ASSUME Inv, NEW c \in Admissions, pc[c] = "insert", SnapExisting(c) = {},
                    NEW u \in KeyHolders(arg[c].key)
             PROVE  FALSE
  BY DEF UniqueNeverRefuses
<1> DEFINE k == arg[c].key
<1>1. u \in DOMAIN heap /\ k # NULL
  BY DEF KeyHolders
<1>2. /\ lock = c /\ Covers(snap[c], Committed(heap))
  BY DEF Inv, LockInv, SnapInv
<1>3. heap[u] \in Versions(Store!UpdateRow)
  BY <1>1 DEF Inv, TypeOK
<1>4. heap[u].by \notin Admissions
  BY <1>1, <1>2 DEF Inv, InsertedInv, LockInv
<1>5. heap[u].row # NULL /\ heap[u].row.idempotency_key = k
  <2>1. CASE heap[u].row # NULL /\ heap[u].row.idempotency_key = k
    BY <2>1
  <2>2. CASE heap[u].by # NULL /\ heap[u].next.idempotency_key = k
    <3>1. heap[u].by \in Workers
      BY <1>3, <1>4, <2>2 DEF Versions, Calls
    <3>2. /\ heap[u].row # NULL
          /\ heap[u].next = Store!CompletedRow(heap[u].row, arg[heap[u].by].quote)
      BY <1>1, <3>1 DEF Inv, CompletedInv
    <3>3. heap[u].row \in Store!UpdateRow
      BY <1>3, <3>2 DEF Versions
    <3>4. heap[u].next.idempotency_key = heap[u].row.idempotency_key
      BY <3>2, <3>3 DEF Store!CompletedRow, Store!UpdateRow
    <3> QED
      BY <2>2, <3>2, <3>4
  <2> QED
    BY <2>1, <2>2 DEF KeyHolders
<1>6. u \in DOMAIN Committed(heap) /\ Committed(heap)[u].idempotency_key = k
  BY <1>1, <1>5, CommittedRows
<1>7. u \in DOMAIN snap[c] /\ snap[c][u].idempotency_key = k
  BY <1>2, <1>6 DEF Covers, KeyOf
<1> QED
  BY <1>1, <1>7 DEF SnapExisting

\* The inserting statement: what it read in its snapshot is still true of the
\* committed rows, because of the lock and although others have changed them.
LEMMA InsertKeeps ==
  ASSUME Inv, NEW c \in Admissions, ExecuteInsert(c)
  PROVE  Kept
<1>1. /\ c \in Calls /\ c \notin Workers /\ CallAt(c, pc[c], arg[c], lock)
      /\ c # NULL
  BY CallBefore, PgNullAssumption DEF Calls
<1>2. /\ pc[c] = "insert" /\ snap' = [snap EXCEPT ![c] = NULL]
      /\ UNCHANGED <<quotes, now, lock, gate, arg, gone, giveUps>>
  BY DEF ExecuteInsert
<1>3. arg[c] \in [pair : Pairs, key : Keys \cup {NULL}] /\ lock = c
  BY <1>1, <1>2 DEF CallAt, AdmissionAt, LockedPc, AskedPc
<1>4. /\ lock \in Admissions \cup {NULL} /\ giveUps \in 0..MaxGiveUps
      /\ gate \in [Procs -> Admissions \cup {NULL}]
      /\ seq \in Nat /\ now \in Nat
  BY DEF Inv, TypeOK
<1>5. CASE UNCHANGED <<heap, seq>> /\ \E l \in {"commit", "rollback"} : Then(c, l)
  <2>1. PICK l \in {"commit", "rollback", "stranded"} : Goto(c, l)
    BY <1>5 DEF Then
  <2>2. OneCall(c, l, arg[c])
    BY <1>1, <1>2, <2>1, GotoMovesOne DEF AllPc, OpenPc
  <2>3. CallAt(c, l, arg[c], lock')
    BY <1>1, <1>2, <1>3 DEF CallAt, AdmissionAt, AskedPc
  <2> QED
    BY <1>1, <1>2, <1>4, <1>5, <2>1, <2>2, <2>3, MoveKeeps DEF Late, Writer, OpenPc
<1>6. CASE /\ SnapExisting(c) = {} /\ SnapHasCapacity(c) /\ seq \in Updates
           /\ heap' = Written(heap, seq, c, Store!NewRow(arg[c].pair, arg[c].key, now))
           /\ seq' = seq + 1 /\ Then(c, "commit")
           /\ KeyHolders(arg[c].key) = {}
  <2> DEFINE r == Store!NewRow(arg[c].pair, arg[c].key, now)
  <2>1. PICK l \in {"commit", "stranded"} : Goto(c, l)
    BY <1>6 DEF Then
  <2>2. OneCall(c, l, arg[c])
    BY <1>1, <1>2, <2>1, GotoMovesOne DEF AllPc, OpenPc
  <2>3. CallAt(c, l, arg[c], lock')
    BY <1>1, <1>2, <1>3, <2>1 DEF CallAt, AdmissionAt, AskedPc
  <2>4. LockInv' /\ ArgInv'
    BY <1>1, <1>2, <2>2, <2>3, OneMoves
  <2>5. \A u \in DOMAIN heap : u \in Nat /\ u < seq /\ u # seq
    <3>1. \A u \in DOMAIN heap : u \in Nat /\ u < seq
      BY PgAssumption DEF Inv, SeqInv, TypeOK
    <3> QED
      BY <1>4, <3>1
  <2>6. /\ DOMAIN heap' = DOMAIN heap \cup {seq}
        /\ \A u \in DOMAIN heap : heap'[u] = heap[u]
        /\ heap'[seq].row = NULL /\ heap'[seq].next = r /\ heap'[seq].by = c
    <3>1. seq \notin DOMAIN heap
      BY <2>5
    <3>2. heap' = Written(heap, seq, c, r)
      BY <1>6
    <3> HIDE DEF r
    <3> QED
      BY <2>5, <3>1, <3>2 DEF Written
  <2>7. Committed(heap') = Committed(heap)
    BY <1>6, WrittenHidden
  <2>8. Covers(snap[c], Committed(heap))
    BY <1>2 DEF Inv, SnapInv
  <2>9. Taken(Committed(heap), arg[c].key) = {} /\ Room(Committed(heap))
    <3>1. Taken(snap[c], arg[c].key) = {}
      BY <1>6 DEF SnapExisting, Taken, KeyOf
    <3>2. Room(snap[c])
      BY <1>6 DEF SnapHasCapacity, Room, Unfinished, Store!ActiveStatus
    <3> QED
      BY <2>8, <3>1, <3>2, CoversDecides
  <2>10. \A u \in DOMAIN heap : heap[u].by \notin Admissions
    BY <1>2, <1>3 DEF Inv, InsertedInv, LockInv
  <2>11. \A d \in Calls : d # c => pc'[d] = pc[d] /\ arg'[d] = arg[d]
    BY <2>2 DEF OneCall
  <2>12. SeqInv'
    BY <1>4, <1>6, <2>5, <2>6 DEF SeqInv
  <2>13. InsertedInv'
    <3> SUFFICES ASSUME NEW u \in DOMAIN heap', heap'[u].by \in Admissions
                 PROVE  /\ pc'[heap'[u].by] \in {"commit", "stranded"}
                        /\ heap'[u].row = NULL /\ seq' = u + 1
                        /\ \E p \in Pairs, k \in Keys \cup {NULL}, t \in 0..now' :
                             /\ heap'[u].next = Store!NewRow(p, k, t)
                             /\ Taken(Committed(heap'), k) = {}
                        /\ Room(Committed(heap'))
      BY CommittedPrime DEF InsertedInv
    <3>1. u = seq
      BY <2>6, <2>10
    <3>2. /\ heap'[u].by = c /\ pc'[c] \in {"commit", "stranded"}
          /\ heap'[u].row = NULL /\ seq' = u + 1
          /\ heap'[u].next = Store!NewRow(arg[c].pair, arg[c].key, now)
      BY <1>6, <2>2, <2>6, <3>1 DEF OneCall
    <3>3. arg[c].pair \in Pairs /\ arg[c].key \in Keys \cup {NULL} /\ now \in 0..now'
      BY <1>2, <1>3, <1>4
    <3> QED
      BY <2>7, <2>9, <3>2, <3>3
  <2>14. CompletedInv'
    <3>1. ASSUME NEW u \in DOMAIN heap', heap'[u].by \in Workers
          PROVE  /\ u \in DOMAIN heap /\ heap'[u] = heap[u]
                 /\ pc'[heap[u].by] = pc[heap[u].by] /\ arg'[heap[u].by] = arg[heap[u].by]
      <4>1. u \in DOMAIN heap /\ heap'[u] = heap[u]
        BY <1>1, <2>6, <3>1
      <4> QED
        BY <1>1, <2>11, <3>1, <4>1 DEF Calls
    <3>2. \A w \in Workers : pc'[w] = pc[w] /\ arg'[w] = arg[w]
      BY <1>1, <2>11 DEF Calls
    <3>3. \A w \in Workers : pc'[w] \in {"upsert", "commit"} =>
            arg'[w].id \in DOMAIN heap' /\ heap'[arg'[w].id].by = w
      BY <2>6, <3>2 DEF Inv, CompletedInv
    <3>4. \A u \in DOMAIN heap' : heap'[u].by \in Workers =>
            LET w == heap'[u].by IN
            /\ pc'[w] \in {"upsert", "commit", "stranded"}
            /\ arg'[w].id = u
            /\ heap'[u].row # NULL
            /\ heap'[u].row.status = "processing"
            /\ heap'[u].row.attempt = arg'[w].attempt
            /\ heap'[u].row.pair = arg'[w].pair
            /\ heap'[u].next = Store!CompletedRow(heap'[u].row, arg'[w].quote)
      BY <3>1 DEF Inv, CompletedInv
    <3> QED
      BY <3>3, <3>4 DEF CompletedInv, Store!CompletedRow
  <2>15. LatestInv'
    <3>1. \A w \in Workers : pc'[w] = pc[w] /\ arg'[w] = arg[w]
      BY <1>1, <2>11 DEF Calls
    <3> QED
      BY <1>2, <3>1 DEF Inv, LatestInv, Newer, Store!Supersedes
  <2>16. SnapInv'
    <3>1. Covers(Committed(heap), Committed(heap'))
      BY <2>7, CoversItself, SameFinite DEF Inv, StoreInv, SP!CapacityInv, SP!Rows
    <3>2. \A d \in Admissions :
            pc'[d] = "insert" => pc[d] = "insert" /\ snap'[d] = snap[d]
      BY <2>1, <2>2 DEF OneCall, Calls
    <3> QED
      BY <3>1, <3>2, SnapKept
  <2>17. TypeOK'
    <3>1. ControlTypes'
      <4>1. seq' \in Nat /\ now' \in Nat
        BY <1>2, <1>4, <1>6
      <4> QED
        BY <1>1, <1>2, <1>4, <2>1, <2>2, <4>1, ControlTyped DEF OpenPc
    <3>2. r \in Store!UpdateRow
      BY <1>3, <1>4, NewRowTyped
    <3>3. heap'[seq] \in Versions(Store!UpdateRow)
      <4>1. heap' = Written(heap, seq, c, r)
        BY <1>6
      <4> HIDE DEF r
      <4> QED
        BY <1>1, <2>5, <3>2, <4>1, WrittenTyped
    <3>4. TableTypes
      BY TypeParts DEF Inv
    <3>5. TableTypes'
      BY <1>2, <1>6, <2>6, <3>3, <3>4 DEF TableTypes
    <3> QED
      BY <3>1, <3>5, TypesPrimed
  <2> QED
    BY <2>4, <2>12, <2>13, <2>14, <2>15, <2>16, <2>17 DEF Kept
<1>7. SnapExisting(c) = {} => KeyHolders(arg[c].key) = {}
  BY <1>2, IndexCovered DEF UniqueNeverRefuses
<1> QED
  BY <1>5, <1>6, <1>7 DEF ExecuteInsert

\* Where and with what a worker is in a transaction.
LEMMA WorkerBefore ==
  ASSUME Inv, NEW w \in Workers, pc[w] \in {"update", "upsert"}
  PROVE  /\ w \in Calls /\ w \notin Admissions /\ w # NULL
         /\ arg[w].id \in Updates /\ arg[w].pair \in Pairs /\ arg[w].quote \in Store!Quote
         /\ arg[w] \in [id : Updates, attempt : Nat, pair : Pairs,
                        quote : Store!Quote \cup {NULL}]
<1>1. w \in Calls /\ w \notin Admissions /\ w # NULL
  BY PgAssumption, PgNullAssumption DEF Calls
<1>2. /\ arg[w] \in [id : Updates, attempt : Nat, pair : Pairs,
                     quote : Store!Quote \cup {NULL}]
      /\ arg[w].quote \in Store!Quote
  BY DEF Inv, ArgInv
<1> QED
  BY <1>1, <1>2

\* The UPDATE of a completion: the row is its worker's, whom the statement
\* has asked for it after it got the lock.
LEMMA UpdateKeeps ==
  ASSUME Inv, NEW w \in Workers, ExecuteUpdate(w)
  PROVE  Kept
<1> DEFINE u == arg[w].id
           q == arg[w].quote
           n == Store!CompletedRow(heap[u].row, q)
<1>1. /\ pc[w] = "update" /\ LockedBy(heap, u) = NULL
      /\ UNCHANGED <<quotes, seq, now, lock, gate, arg, snap, gone, giveUps>>
  BY DEF ExecuteUpdate
<1>2. /\ w \in Calls /\ w \notin Admissions /\ w # NULL
      /\ u \in Updates /\ q \in Store!Quote
      /\ arg[w] \in [id : Updates, attempt : Nat, pair : Pairs, quote : Store!Quote \cup {NULL}]
  BY <1>1, WorkerBefore
<1>3. /\ lock \in Admissions \cup {NULL} /\ giveUps \in 0..MaxGiveUps
      /\ gate \in [Procs -> Admissions \cup {NULL}]
      /\ seq \in Nat /\ now \in Nat
  BY DEF Inv, TypeOK
<1>4. ASSUME NEW l \in {"upsert", "rollback", "stranded"}
      PROVE  CallAt(w, l, arg[w], lock')
  BY <1>2 DEF CallAt, WorkerAt
<1>5. CASE UNCHANGED heap /\ Then(w, "rollback")
  <2>1. PICK l \in {"rollback", "stranded"} : Goto(w, l)
    BY <1>5 DEF Then
  <2>2. OneCall(w, l, arg[w])
    BY <1>1, <1>2, <2>1, GotoMovesOne DEF AllPc, OpenPc
  <2> QED
    BY <1>1, <1>2, <1>3, <1>4, <1>5, <2>1, <2>2, MoveKeeps DEF Late, Writer, OpenPc
<1>6. CASE /\ Store!Owns(u, arg[w].attempt) /\ heap[u].row.pair = arg[w].pair
           /\ heap' = Written(heap, u, w, n) /\ Then(w, "upsert")
  <2>1. PICK l \in {"upsert", "stranded"} : Goto(w, l)
    BY <1>6 DEF Then
  <2>2. OneCall(w, l, arg[w])
    BY <1>1, <1>2, <2>1, GotoMovesOne DEF AllPc, OpenPc
  <2>3. LockInv' /\ ArgInv'
    BY <1>1, <1>2, <1>4, <2>2, OneMoves
  <2>4. /\ u \in DOMAIN Committed(heap) /\ Committed(heap)[u].status = "processing"
        /\ Committed(heap)[u].attempt = arg[w].attempt
    BY <1>6 DEF Store!Owns, Store!Rows, Store!Status
  <2>5. /\ u \in DOMAIN heap /\ heap[u].row # NULL /\ heap[u].row \in Store!UpdateRow
        /\ heap[u] \in Versions(Store!UpdateRow)
        /\ heap[u].row.status = "processing" /\ heap[u].row.attempt = arg[w].attempt
        /\ heap[u].by = NULL
    BY <1>1, <2>4, RowTyped DEF LockedBy
  <2>6. /\ DOMAIN heap' = DOMAIN heap
        /\ \A v \in DOMAIN heap : v # u => heap'[v] = heap[v]
        /\ heap'[u].row = heap[u].row /\ heap'[u].next = n /\ heap'[u].by = w
    <3> HIDE DEF n
    <3> QED
      BY <1>6, <2>5 DEF Written
  <2>7. Committed(heap') = Committed(heap)
    BY <1>6, WrittenHidden
  <2>8. \A d \in Calls : d # w => pc'[d] = pc[d] /\ arg'[d] = arg[d]
    BY <2>2 DEF OneCall
  <2>9. /\ \A v \in DOMAIN heap : heap[v].by # w
        /\ \A p \in DOMAIN quotes : quotes[p].by # w
    BY <1>1, <1>2, NoVersions DEF Late
  <2>10. SeqInv'
    BY <1>1, <2>6 DEF SeqInv, Inv
  <2>11. InsertedInv'
    <3> SUFFICES ASSUME NEW v \in DOMAIN heap', heap'[v].by \in Admissions
                 PROVE  /\ pc'[heap'[v].by] \in {"commit", "stranded"}
                        /\ heap'[v].row = NULL /\ seq' = v + 1
                        /\ \E p \in Pairs, k \in Keys \cup {NULL}, t \in 0..now' :
                             /\ heap'[v].next = Store!NewRow(p, k, t)
                             /\ Taken(Committed(heap'), k) = {}
                        /\ Room(Committed(heap'))
      BY CommittedPrime DEF InsertedInv
    <3>1. v \in DOMAIN heap /\ heap'[v] = heap[v]
      BY <1>2, <2>6
    <3>2. pc'[heap[v].by] = pc[heap[v].by]
      BY <1>2, <2>8, <3>1 DEF Calls
    <3>3. /\ pc[heap[v].by] \in {"commit", "stranded"}
          /\ heap[v].row = NULL /\ seq = v + 1
          /\ \E p \in Pairs, k \in Keys \cup {NULL}, t \in 0..now :
               heap[v].next = Store!NewRow(p, k, t) /\ Taken(Committed(heap), k) = {}
          /\ Room(Committed(heap))
      BY <3>1 DEF Inv, InsertedInv
    <3> QED
      BY <1>1, <2>7, <3>1, <3>2, <3>3
  <2>12. CompletedInv'
    <3>1. ASSUME NEW v \in DOMAIN heap', heap'[v].by \in Workers, v # u
          PROVE  /\ v \in DOMAIN heap /\ heap'[v] = heap[v]
                 /\ pc'[heap[v].by] = pc[heap[v].by] /\ arg'[heap[v].by] = arg[heap[v].by]
      BY <2>6, <2>8, <2>9, <3>1 DEF Calls
    <3>2. ASSUME NEW x \in Workers, pc'[x] \in {"upsert", "commit"}
          PROVE  arg'[x].id \in DOMAIN heap' /\ heap'[arg'[x].id].by = x
      <4>1. CASE x = w
        BY <1>1, <2>5, <2>6, <4>1
      <4>2. CASE x # w
        <5>1. pc'[x] = pc[x] /\ arg'[x] = arg[x] /\ x # NULL
          BY <2>8, <4>2, PgNullAssumption DEF Calls
        <5>2. arg[x].id \in DOMAIN heap /\ heap[arg[x].id].by = x
          BY <3>2, <5>1 DEF Inv, CompletedInv
        <5> QED
          BY <2>5, <2>6, <5>1, <5>2
      <4> QED
        BY <4>1, <4>2
    <3>3. /\ pc'[w] \in {"upsert", "commit", "stranded"}
          /\ arg'[w].id = u /\ heap'[u].row # NULL
          /\ heap'[u].row.status = "processing"
          /\ heap'[u].row.attempt = arg'[w].attempt
          /\ heap'[u].row.pair = arg'[w].pair
          /\ heap'[u].next = Store!CompletedRow(heap'[u].row, arg'[w].quote)
          /\ heap'[u].by = w
      BY <1>1, <1>6, <2>2, <2>5, <2>6 DEF OneCall
    <3>4. \A v \in DOMAIN heap' : heap'[v].by \in Workers =>
            LET x == heap'[v].by IN
            /\ pc'[x] \in {"upsert", "commit", "stranded"}
            /\ arg'[x].id = v
            /\ heap'[v].row # NULL
            /\ heap'[v].row.status = "processing"
            /\ heap'[v].row.attempt = arg'[x].attempt
            /\ heap'[v].row.pair = arg'[x].pair
            /\ heap'[v].next = Store!CompletedRow(heap'[v].row, arg'[x].quote)
      <4>1. ASSUME NEW v \in DOMAIN heap', heap'[v].by \in Workers, v # u
            PROVE  LET x == heap'[v].by IN
                   /\ pc'[x] \in {"upsert", "commit", "stranded"}
                   /\ arg'[x].id = v
                   /\ heap'[v].row # NULL
                   /\ heap'[v].row.status = "processing"
                   /\ heap'[v].row.attempt = arg'[x].attempt
                   /\ heap'[v].row.pair = arg'[x].pair
                   /\ heap'[v].next = Store!CompletedRow(heap'[v].row, arg'[x].quote)
        BY <3>1, <4>1 DEF Inv, CompletedInv
      <4> HIDE DEF u, n
      <4> QED
        BY <3>3, <4>1
    <3> QED
      BY <3>2, <3>4 DEF CompletedInv, Store!CompletedRow
  <2>13. LatestInv'
    <3>1. ASSUME NEW p \in DOMAIN quotes', quotes'[p].by # NULL
          PROVE  /\ p \in DOMAIN quotes /\ quotes'[p] = quotes[p]
                 /\ quotes[p].by \in Workers
                 /\ pc'[quotes[p].by] = pc[quotes[p].by]
                 /\ arg'[quotes[p].by] = arg[quotes[p].by]
      <4>1. p \in DOMAIN quotes /\ quotes'[p] = quotes[p] /\ quotes[p].by # NULL
        BY <1>1, <3>1
      <4>2. quotes[p].by \in Workers /\ quotes[p].by # w
        BY <2>9, <4>1 DEF Inv, LatestInv
      <4> QED
        BY <2>8, <4>1, <4>2 DEF Calls
    <3>2. \A x \in Workers : pc'[x] = "commit" => pc[x] = "commit" /\ arg'[x] = arg[x]
      BY <2>1, <2>2, <2>8 DEF OneCall, Calls
    <3>3. \A x \in Workers : pc'[x] = "commit" =>
            arg'[x].pair \in DOMAIN quotes' /\ quotes'[arg'[x].pair].by = x
      BY <1>1, <3>2 DEF Inv, LatestInv
    <3>4. \A p \in DOMAIN quotes' : quotes'[p].by # NULL =>
            /\ quotes'[p].by \in Workers
            /\ pc'[quotes'[p].by] \in {"commit", "stranded"}
            /\ arg'[quotes'[p].by].pair = p
            /\ quotes'[p].next = Newer(arg'[quotes'[p].by].id, arg'[quotes'[p].by].quote,
                                       quotes'[p].row)
      BY <3>1 DEF Inv, LatestInv
    <3> QED
      BY <3>3, <3>4 DEF LatestInv, Newer, Store!Supersedes
  <2>14. SnapInv'
    <3>1. Covers(Committed(heap), Committed(heap'))
      BY <2>7, CoversItself, SameFinite DEF Inv, StoreInv, SP!CapacityInv, SP!Rows
    <3>2. \A d \in Admissions :
            pc'[d] = "insert" => pc[d] = "insert" /\ snap'[d] = snap[d]
      BY <1>2, <2>2 DEF OneCall, Calls
    <3> QED
      BY <3>1, <3>2, SnapKept
  <2>15. TypeOK'
    <3>1. ControlTypes'
      BY <1>1, <1>2, <1>3, <2>1, <2>2, ControlTyped DEF OpenPc
    <3>2. n \in Store!UpdateRow
      BY <1>2, <1>3, <2>5, ChangedRowsTyped
    <3>3. heap'[u] \in Versions(Store!UpdateRow)
      <4> HIDE DEF u, n
      <4> QED
        BY <1>2, <1>6, <2>5, <3>2, WrittenTyped
    <3>4. TableTypes
      BY TypeParts DEF Inv
    <3>5. TableTypes'
      BY <1>1, <2>6, <3>3, <3>4 DEF TableTypes
    <3> QED
      BY <3>1, <3>5, TypesPrimed
  <2> QED
    BY <2>3, <2>10, <2>11, <2>12, <2>13, <2>14, <2>15 DEF Kept
<1> QED
  BY <1>5, <1>6 DEF ExecuteUpdate

\* The upsert of a completion: it has compared with the latest quote of the
\* pair after it got the row's lock.
LEMMA UpsertKeeps ==
  ASSUME Inv, NEW w \in Workers, ExecuteUpsert(w)
  PROVE  Kept
<1> DEFINE u == arg[w].id
           q == arg[w].quote
           p == arg[w].pair
           old == IF p \in DOMAIN quotes THEN quotes[p].row ELSE NULL
           n == Newer(u, q, old)
<1>1. /\ pc[w] = "upsert" /\ LockedBy(quotes, p) = NULL
      /\ quotes' = Written(quotes, p, w, n) /\ Then(w, "commit")
      /\ UNCHANGED <<heap, seq, now, lock, gate, arg, snap, gone, giveUps>>
  BY DEF ExecuteUpsert, Newer
<1>2. /\ w \in Calls /\ w \notin Admissions /\ w # NULL
      /\ u \in Updates /\ p \in Pairs /\ q \in Store!Quote
      /\ arg[w] \in [id : Updates, attempt : Nat, pair : Pairs, quote : Store!Quote \cup {NULL}]
  BY <1>1, WorkerBefore
<1>3. /\ lock \in Admissions \cup {NULL}
      /\ seq \in Nat /\ now \in Nat
  BY DEF Inv, TypeOK
<1>4. PICK l \in {"commit", "stranded"} : Goto(w, l)
  BY <1>1 DEF Then
<1>5. OneCall(w, l, arg[w])
  BY <1>1, <1>2, <1>4, GotoMovesOne DEF AllPc, OpenPc
<1>6. CallAt(w, l, arg[w], lock')
  BY <1>2 DEF CallAt, WorkerAt
<1>7. LockInv' /\ ArgInv'
  BY <1>1, <1>2, <1>5, <1>6, OneMoves
<1>8. \A d \in Calls : d # w => pc'[d] = pc[d] /\ arg'[d] = arg[d]
  BY <1>5 DEF OneCall
<1>9. p \in DOMAIN quotes => quotes[p].by = NULL
  BY <1>1 DEF LockedBy
<1>10. /\ DOMAIN quotes' = DOMAIN quotes \cup {p}
       /\ \A y \in DOMAIN quotes : y # p => quotes'[y] = quotes[y]
       /\ quotes'[p].row = old /\ quotes'[p].next = n /\ quotes'[p].by = w
  <2>1. old = IF p \in DOMAIN quotes THEN quotes[p].row ELSE NULL
    OBVIOUS
  <2> HIDE DEF n, p, old
  <2> QED
    BY <1>1, <2>1 DEF Written
<1>11. \A y \in DOMAIN quotes : quotes[y].by # w
  BY <1>1, <1>2 DEF Inv, LatestInv
<1>12. SeqInv'
  BY <1>1 DEF SeqInv, Inv
<1>13. InsertedInv'
  <2> SUFFICES ASSUME NEW v \in DOMAIN heap', heap'[v].by \in Admissions
               PROVE  /\ pc'[heap'[v].by] \in {"commit", "stranded"}
                      /\ heap'[v].row = NULL /\ seq' = v + 1
                      /\ \E y \in Pairs, k \in Keys \cup {NULL}, t \in 0..now' :
                           /\ heap'[v].next = Store!NewRow(y, k, t)
                           /\ Taken(Committed(heap'), k) = {}
                      /\ Room(Committed(heap'))
    BY CommittedPrime DEF InsertedInv
  <2>1. pc'[heap[v].by] = pc[heap[v].by]
    BY <1>1, <1>2, <1>8 DEF Calls
  <2>2. /\ pc[heap[v].by] \in {"commit", "stranded"}
        /\ heap[v].row = NULL /\ seq = v + 1
        /\ \E y \in Pairs, k \in Keys \cup {NULL}, t \in 0..now :
             heap[v].next = Store!NewRow(y, k, t) /\ Taken(Committed(heap), k) = {}
        /\ Room(Committed(heap))
    BY <1>1 DEF Inv, InsertedInv
  <2> QED
    BY <1>1, <2>1, <2>2
<1>14. CompletedInv'
  <2>1. \A x \in Workers :
          /\ arg'[x] = arg[x]
          /\ pc'[x] = pc[x] \/ (pc[x] = "upsert" /\ pc'[x] \in {"commit", "stranded"})
    BY <1>1, <1>4, <1>5, <1>8 DEF OneCall, Calls
  <2>2. \A x \in Workers : pc'[x] \in {"upsert", "commit"} =>
          arg'[x].id \in DOMAIN heap' /\ heap'[arg'[x].id].by = x
    BY <1>1, <2>1 DEF Inv, CompletedInv
  <2>3. \A v \in DOMAIN heap' : heap'[v].by \in Workers =>
          LET x == heap'[v].by IN
          /\ pc'[x] \in {"upsert", "commit", "stranded"}
          /\ arg'[x].id = v
          /\ heap'[v].row # NULL
          /\ heap'[v].row.status = "processing"
          /\ heap'[v].row.attempt = arg'[x].attempt
          /\ heap'[v].row.pair = arg'[x].pair
          /\ heap'[v].next = Store!CompletedRow(heap'[v].row, arg'[x].quote)
    BY <1>1, <2>1 DEF Inv, CompletedInv
  <2> QED
    BY <2>2, <2>3 DEF CompletedInv, Store!CompletedRow
<1>15. LatestInv'
  <2>1. ASSUME NEW y \in DOMAIN quotes', quotes'[y].by # NULL, y # p
        PROVE  /\ quotes'[y].by \in Workers
               /\ pc'[quotes'[y].by] \in {"commit", "stranded"}
               /\ arg'[quotes'[y].by].pair = y
               /\ quotes'[y].next = Newer(arg'[quotes'[y].by].id, arg'[quotes'[y].by].quote,
                                          quotes'[y].row)
    <3>1. y \in DOMAIN quotes /\ quotes'[y] = quotes[y] /\ quotes[y].by # w
      BY <1>10, <1>11, <2>1
    <3>2. quotes[y].by \in Workers
      BY <2>1, <3>1 DEF Inv, LatestInv
    <3>3. pc'[quotes[y].by] = pc[quotes[y].by] /\ arg'[quotes[y].by] = arg[quotes[y].by]
      BY <1>8, <3>1, <3>2 DEF Calls
    <3> QED
      BY <2>1, <3>1, <3>2, <3>3 DEF Inv, LatestInv
  <2>2. /\ quotes'[p].by = w /\ pc'[w] \in {"commit", "stranded"} /\ arg'[w].pair = p
        /\ quotes'[p].next = Newer(arg'[w].id, arg'[w].quote, quotes'[p].row)
    BY <1>1, <1>4, <1>5, <1>10 DEF OneCall
  <2>3. ASSUME NEW x \in Workers, pc'[x] = "commit"
        PROVE  arg'[x].pair \in DOMAIN quotes' /\ quotes'[arg'[x].pair].by = x
    <3>1. CASE x = w
      BY <1>10, <2>2, <3>1
    <3>2. CASE x # w
      <4>1. pc[x] = "commit" /\ arg'[x] = arg[x] /\ x # NULL
        BY <1>8, <2>3, <3>2, PgNullAssumption DEF Calls
      <4>2. arg[x].pair \in DOMAIN quotes /\ quotes[arg[x].pair].by = x
        BY <4>1 DEF Inv, LatestInv
      <4> QED
        BY <1>9, <1>10, <4>1, <4>2
    <3> QED
      BY <3>1, <3>2
  <2>4. \A y \in DOMAIN quotes' : quotes'[y].by # NULL =>
          /\ quotes'[y].by \in Workers
          /\ pc'[quotes'[y].by] \in {"commit", "stranded"}
          /\ arg'[quotes'[y].by].pair = y
          /\ quotes'[y].next = Newer(arg'[quotes'[y].by].id, arg'[quotes'[y].by].quote,
                                     quotes'[y].row)
    <3> HIDE DEF p
    <3> QED
      BY <2>1, <2>2
  <2> QED
    BY <2>3, <2>4 DEF LatestInv, Newer, Store!Supersedes
<1>16. SnapInv'
  <2>1. Covers(Committed(heap), Committed(heap'))
    BY <1>1, CoversItself, SameFinite DEF Inv, StoreInv, SP!CapacityInv, SP!Rows
  <2>2. \A d \in Admissions :
          pc'[d] = "insert" => pc[d] = "insert" /\ snap'[d] = snap[d]
    BY <1>2, <1>5 DEF OneCall, Calls
  <2> QED
    BY <2>1, <2>2, SnapKept
<1>17. TypeOK'
  <2>1. ControlTypes'
    BY <1>1, <1>2, <1>3, <1>4, <1>5, ControlTyped DEF OpenPc
  <2>2. TableTypes
    BY TypeParts DEF Inv
  <2>3. p \in DOMAIN quotes => quotes[p] \in Versions(Store!LatestRow)
    BY <2>2 DEF TableTypes
  <2>4. n \in Store!LatestRow
    <3>1. old \in Store!LatestRow \cup {NULL}
      BY <2>3 DEF Versions
    <3>2. [request_seq |-> u, quote |-> q] \in Store!LatestRow
      BY <1>2 DEF Store!LatestRow
    <3> QED
      BY <3>1, <3>2 DEF Newer
  <2>5. quotes'[p] \in Versions(Store!LatestRow)
    <3> HIDE DEF p, n
    <3> QED
      BY <1>1, <1>2, <2>3, <2>4, WrittenTyped
  <2>6. TableTypes'
    <3> HIDE DEF p
    <3> QED
      BY <1>1, <1>2, <1>10, <2>2, <2>5 DEF TableTypes
  <2> QED
    BY <2>1, <2>6, TypesPrimed
<1> QED
  BY <1>7, <1>12, <1>13, <1>14, <1>15, <1>16, <1>17 DEF Kept

-----------------------------------------------------------------------------
(***************************************************************************)
(* The end of a transaction.                                               *)
(***************************************************************************)

\* The versions of a table after the end of c's transaction.
LEMMA EndedShape ==
  ASSUME NEW R, NEW h, NEW c, NEW b \in BOOLEAN, c # NULL,
         \A y \in DOMAIN h : h[y] \in Versions(R)
  PROVE  /\ DOMAIN Ended(h, c, b) \subseteq DOMAIN h
         /\ \A y \in DOMAIN Ended(h, c, b) :
              /\ h[y].by # c => Ended(h, c, b)[y] = h[y]
              /\ h[y].by = c => Ended(h, c, b)[y].by = NULL
              /\ Ended(h, c, b)[y] \in Versions(R)
         /\ \A y \in DOMAIN h : h[y].by # c => y \in DOMAIN Ended(h, c, b)
<1> DEFINE E == Ended(h, c, b)
<1>1. /\ DOMAIN E \subseteq DOMAIN h
      /\ \A y \in DOMAIN h : h[y].by # c => y \in DOMAIN E
      /\ \A y \in DOMAIN E :
           E[y] = IF h[y].by # c THEN h[y]
                  ELSE [row |-> IF b THEN h[y].next ELSE h[y].row, next |-> NULL, by |-> NULL]
  BY DEF Ended
<1> HIDE DEF E
<1>2. \A y \in DOMAIN E : /\ h[y].by # c => E[y] = h[y]
                          /\ h[y].by = c => E[y].by = NULL
  BY <1>1
<1>3. ASSUME NEW y \in DOMAIN E PROVE E[y] \in Versions(R)
  BY <1>1, <1>3 DEF Versions
<1> QED
  BY <1>1, <1>2, <1>3 DEF E

\* What the end of a transaction leaves keeps what the others rely on.
LEMMA EndKeeps ==
  ASSUME Inv, NEW c \in Calls, Open(c), NEW b \in BOOLEAN,
         heap' = Ended(heap, c, b), quotes' = Ended(quotes, c, b), EndTransaction(c),
         \/ Covers(Committed(heap), Committed(heap'))
         \/ c \in Admissions /\ lock = c
  PROVE  Kept
<1> DEFINE l == IF c \in Workers THEN "idle" ELSE IF c \in gone THEN "done" ELSE "leave"
<1>1. /\ lock' = IF lock = c THEN NULL ELSE lock
      /\ Goto(c, l) /\ arg' = [arg EXCEPT ![c] = NULL] /\ snap' = [snap EXCEPT ![c] = NULL]
      /\ gone' = gone \ {c} /\ UNCHANGED <<seq, now, gate, giveUps>>
  BY DEF EndTransaction
<1>2. c # NULL /\ l \in {"idle", "done", "leave"}
  BY PgNullAssumption
<1>3. /\ lock \in Admissions \cup {NULL} /\ seq \in Nat /\ now \in Nat
      /\ TableTypes
  BY TypeParts DEF Inv, ControlTypes
<1>4. OneCall(c, l, NULL)
  BY <1>1, GotoMovesOne DEF AllPc
<1>5. LockInv' /\ ArgInv'
  <2>1. CallAt(c, l, NULL, lock')
    BY <1>2 DEF CallAt, AdmissionAt, WorkerAt, LockedPc, AskedPc, ClaimedPc
  <2>2. lock' = lock \/ \A d \in Admissions \ {c} : pc[d] \notin LockedPc
    BY <1>1 DEF Inv, LockInv, LockedPc
  <2> QED
    BY <1>4, <2>1, <2>2, OneMoves
<1>6. /\ DOMAIN heap' \subseteq DOMAIN heap
      /\ \A u \in DOMAIN heap' :
           /\ heap[u].by # c => heap'[u] = heap[u]
           /\ heap[u].by = c => heap'[u].by = NULL
           /\ heap'[u] \in Versions(Store!UpdateRow)
      /\ \A u \in DOMAIN heap : heap[u].by # c => u \in DOMAIN heap'
  BY <1>2, <1>3, EndedShape DEF TableTypes
<1>7. /\ DOMAIN quotes' \subseteq DOMAIN quotes
      /\ \A p \in DOMAIN quotes' :
           /\ quotes[p].by # c => quotes'[p] = quotes[p]
           /\ quotes[p].by = c => quotes'[p].by = NULL
           /\ quotes'[p] \in Versions(Store!LatestRow)
      /\ \A p \in DOMAIN quotes : quotes[p].by # c => p \in DOMAIN quotes'
  BY <1>2, <1>3, EndedShape DEF TableTypes
<1>8. ASSUME NEW u \in DOMAIN heap', heap'[u].by \in Admissions
      PROVE  Covers(Committed(heap), Committed(heap'))
  <2>1. u \in DOMAIN heap /\ heap[u].by \in Admissions /\ heap[u].by # c
    BY <1>6, <1>8, PgNullAssumption DEF Calls
  <2>2. lock = heap[u].by
    BY <2>1 DEF Inv, InsertedInv, LockInv
  <2> QED
    BY <2>1, <2>2
<1>9. KeepsWriters
  <2>1. DOMAIN heap' \subseteq DOMAIN heap /\ seq' = seq /\ now' \in Nat /\ now' >= now
    BY <1>1, <1>3, <1>6
  <2>2. \A u \in DOMAIN heap' : heap'[u].by # NULL => heap'[u] = heap[u]
    BY <1>6
  <2>3. \A p \in DOMAIN quotes' :
          quotes'[p].by # NULL => p \in DOMAIN quotes /\ quotes'[p] = quotes[p]
    BY <1>7
  <2>4. ASSUME NEW d \in Calls, d # c
        PROVE  /\ pc'[d] = pc[d] /\ arg'[d] = arg[d]
               /\ \A u \in DOMAIN heap :
                    heap[u].by = d => u \in DOMAIN heap' /\ heap'[u].by = d
               /\ \A p \in DOMAIN quotes :
                    quotes[p].by = d => p \in DOMAIN quotes' /\ quotes'[p].by = d
    BY <1>4, <1>6, <1>7, <2>4 DEF OneCall
  <2>5. /\ ~Writer(c, pc'[c])
        /\ \A u \in DOMAIN heap' : heap'[u].by # c
        /\ \A p \in DOMAIN quotes' : quotes'[p].by # c
    BY <1>2, <1>4, <1>6, <1>7 DEF OneCall, Writer
  <2> QED
    BY <1>8, <2>1, <2>2, <2>3, <2>4, <2>5 DEF KeepsWriters
<1>10. SeqInv' /\ InsertedInv' /\ CompletedInv' /\ LatestInv'
  BY <1>9, WritersKept
<1>11. SnapInv'
  <2>1. \A d \in Admissions :
          pc'[d] = "insert" => d # c /\ pc[d] = "insert" /\ snap'[d] = snap[d]
    BY <1>2, <1>4 DEF OneCall, Calls
  <2>2. CASE Covers(Committed(heap), Committed(heap'))
    BY <2>1, <2>2, SnapKept
  <2>3. CASE c \in Admissions /\ lock = c
    <3>1. \A d \in Admissions : pc'[d] # "insert"
      BY <2>1, <2>3 DEF Inv, LockInv
    <3> QED
      BY <3>1 DEF SnapInv
  <2> QED
    BY <2>2, <2>3
<1>12. TypeOK'
  <2>1. lock' \in Admissions \cup {NULL} /\ seq' \in Nat /\ now' \in Nat
    BY <1>1, <1>3
  <2>2. ControlTypes'
    BY <1>1, <1>4, <2>1, ControlTyped
  <2>3. TableTypes'
    BY <1>3, <1>6, <1>7 DEF TableTypes
  <2> QED
    BY <2>2, <2>3, TypesPrimed
<1> QED
  BY <1>5, <1>10, <1>11, <1>12 DEF Kept

\* A rollback changes no committed row; a completion's commit adds none; and
\* while an admission commits there is no other.
LEMMA TransactionEnds ==
  ASSUME Inv, NEW c \in Calls, Commit(c) \/ Rollback(c)
  PROVE  Kept
<1>1. CASE Rollback(c)
  <2>1. /\ Open(c) /\ heap' = Ended(heap, c, FALSE) /\ quotes' = Ended(quotes, c, FALSE)
        /\ EndTransaction(c)
    BY <1>1 DEF Rollback
  <2>2. Covers(Committed(heap), Committed(heap'))
    BY <2>1, RollbackHidden, CoversItself, SameFinite
    DEF Inv, StoreInv, SP!CapacityInv, SP!Rows
  <2> QED
    BY <2>1, <2>2, EndKeeps
<1>2. CASE Commit(c)
  <2>1. /\ pc[c] = "commit" /\ heap' = Ended(heap, c, TRUE)
        /\ quotes' = Ended(quotes, c, TRUE) /\ EndTransaction(c)
    BY <1>2 DEF Commit
  <2>2. CASE c \in Admissions
    <3>1. lock = c
      BY <2>1, <2>2 DEF Inv, LockInv
    <3> QED
      BY <2>1, <2>2, <3>1, EndKeeps DEF Open, OpenPc
  <2>3. CASE c \in Workers
    <3>1. Store!StoreNext /\ DOMAIN Committed(heap') = DOMAIN Committed(heap)
      BY <1>2, <2>3, CompletionCommitRefines
    <3>2. Covers(Committed(heap), Committed(heap'))
      BY <3>1, CoversNext DEF Inv
    <3> QED
      BY <2>1, <3>2, EndKeeps DEF Open, OpenPc
  <2> QED
    BY <2>2, <2>3 DEF Calls
<1> QED
  BY <1>1, <1>2

-----------------------------------------------------------------------------
(***************************************************************************)
(* The theorems.                                                           *)
(***************************************************************************)

\* The empty database satisfies the invariant, and is QuoteStore's.
LEMMA InvInit == Init => Inv /\ Store!StoreInit
<1> SUFFICES ASSUME Init PROVE Inv /\ Store!StoreInit
  OBVIOUS
<1>1. /\ DOMAIN heap = {} /\ DOMAIN quotes = {} /\ seq = 1 /\ now = 0 /\ lock = NULL
      /\ gate = [p \in Procs |-> NULL] /\ gone = {} /\ giveUps = 0
      /\ pc = [c \in Calls |-> IF c \in Workers THEN "idle" ELSE "new"]
      /\ arg = [c \in Calls |-> NULL] /\ snap = [c \in Calls |-> NULL]
  BY DEF Init
<1>2. Store!StoreInit
  <2>1. DOMAIN Committed(heap) = {} /\ DOMAIN Committed(quotes) = {}
    BY <1>1 DEF Committed
  <2>2. /\ Committed(heap) = [u \in {} |-> NULL]
        /\ Committed(quotes) = [p \in {} |-> NULL]
    BY <2>1 DEF Committed
  <2> QED
    BY <1>1, <2>2 DEF Store!StoreInit
<1>3. StoreInv
  <2>1. SP!StoreInit
    BY <1>2 DEF SP!StoreInit, Store!StoreInit
  <2>2. SP!RowsInv
    BY <2>1, Assumptions, SP!RowsInvInit
  <2>3. SP!Rows = {} /\ SP!Active = {}
    BY <2>1 DEF SP!StoreInit, SP!Rows, SP!Active
  <2>4. IsFiniteSet({}) /\ Cardinality({}) = 0
    BY FS_EmptySet
  <2>5. SP!IsFiniteSet({}) /\ SP!Cardinality({}) = 0
    BY <2>4, SameFinite
  <2>6. SP!CapacityInv
    BY <2>3, <2>5, PgAssumption DEF SP!CapacityInv, SP!ActiveWithinLimit
  <2> QED
    BY <2>2, <2>6 DEF StoreInv
<1>4. TypeOK
  BY <1>1, PgAssumption DEF TypeOK
<1>5. \A c \in Calls : pc[c] \in {"idle", "new"}
  BY <1>1
<1>6. LockInv /\ ArgInv /\ SnapInv
  BY <1>5 DEF LockInv, ArgInv, SnapInv, Calls
<1>7. SeqInv /\ InsertedInv /\ CompletedInv /\ LatestInv
  BY <1>1, <1>5 DEF SeqInv, InsertedInv, CompletedInv, LatestInv, Calls
<1> QED
  BY <1>2, <1>3, <1>4, <1>6, <1>7 DEF Inv

\* The invariant is inductive.
LEMMA InvNext == Inv /\ [Next]_vars => Inv'
<1> SUFFICES ASSUME Inv, [Next]_vars PROVE Inv'
  OBVIOUS
<1>1. StoreInv'
  BY Refines, StoreInvNext DEF Inv
<1> SUFFICES Kept
  BY <1>1 DEF Inv, Kept
<1>2. CASE \E c \in Admissions : CreateOrGet(c) \/ AdmissionStep(c)
  BY <1>2, AdmissionMoves, InsertKeeps, TransactionEnds DEF AdmissionStep, End, Calls
<1>3. CASE \E w \in Workers :
             ClaimNext(w) \/ Fetched(w) \/ BeginSettling(w) \/ CompletionStep(w)
  BY <1>3, ClaimKeeps, SettleKeeps, WorkerMoves, UpdateKeeps, UpsertKeeps, TransactionEnds
  DEF CompletionStep, End, Calls
<1>4. CASE \E p \in Procs : RecoverExpired(p)
  BY <1>4, RecoverKeeps
<1>5. CASE \E c \in Calls : GiveUp(c)
  BY <1>5, GiveUpKeeps
<1>6. CASE Tick \/ UNCHANGED vars
  BY <1>6, TickKeeps
<1> QED
  BY <1>2, <1>3, <1>4, <1>5, <1>6 DEF Next

\* It holds in every reachable state.
LEMMA InvHolds == Spec => []Inv
<1>1. Init => Inv
  BY InvInit
<1>2. Inv /\ [Next]_vars => Inv'
  BY InvNext
<1> QED
  BY <1>1, <1>2, PTL DEF Spec

\* Every variable has its type, for any number of replicas, calls, workers
\* and connections.
THEOREM PgTypeCorrect == Spec => []TypeOK
<1>1. Inv => TypeOK
  BY DEF Inv
<1> QED
  BY <1>1, InvHolds, PTL

\* The transactions of CreateOrGet and Complete, run statement by statement on
\* READ COMMITTED snapshots by any number of clients of any number of
\* replicas, any of whom may vanish at any moment, take effect as the single
\* atomic operations of QuoteStore.
THEOREM ImplementsQuoteStoreHolds == Spec => ImplementsQuoteStore
<1>1. Init => Store!StoreInit
  BY InvInit
<1>2. Inv /\ [Next]_vars => [Store!StoreNext]_(Store!storeVars)
  BY Refines
<1> QED
  BY <1>1, <1>2, InvHolds, PTL DEF Spec, ImplementsQuoteStore, Store!StoreSpec

\* What an open transaction decided stands until its end.
THEOREM DecisionsStandHolds == Spec => []DecisionsStand
<1>1. ASSUME Inv PROVE DecisionsStand
  <2>1. ASSUME NEW u \in DOMAIN heap, heap[u].by \in Admissions
        PROVE  /\ Store!Existing(heap[u].next.idempotency_key) = {}
               /\ Store!HasCapacity
               /\ Store!IsNextSeq(u)
    <3>1. PICK p \in Pairs, k \in Keys \cup {NULL}, t \in 0..now :
            heap[u].next = Store!NewRow(p, k, t) /\ Taken(Committed(heap), k) = {}
      BY <1>1, <2>1 DEF Inv, InsertedInv
    <3>2. heap[u].row = NULL /\ seq = u + 1 /\ Room(Committed(heap))
      BY <1>1, <2>1 DEF Inv, InsertedInv
    <3>3. heap[u].next.idempotency_key = k
      BY <3>1 DEF Store!NewRow
    <3>4. Store!Existing(k) = {} /\ Store!HasCapacity
      BY <3>1, <3>2, SameFinite
      DEF Taken, KeyOf, Room, Unfinished, Store!Existing, Store!HasCapacity, Store!Active,
          Store!Rows, Store!Status, Store!ActiveStatus
    <3>5. u \in Updates /\ u \in Nat
      BY <1>1, PgAssumption DEF Inv, TypeOK
    <3>6. \A v \in Store!Rows : v < u
      <4> TAKE v \in Store!Rows
      <4>1. v \in DOMAIN heap /\ v \in Nat /\ v < seq /\ v # u
        BY <1>1, <3>2, CommittedRows, PgAssumption DEF Inv, SeqInv, TypeOK, Store!Rows
      <4> QED
        BY <3>2, <3>5, <4>1
    <3> QED
      BY <3>3, <3>4, <3>5, <3>6 DEF Store!IsNextSeq
  <2>2. ASSUME NEW u \in DOMAIN heap, heap[u].by \in Workers
        PROVE  Store!Owns(u, heap[u].next.attempt)
    <3> DEFINE w == heap[u].by
    <3>1. /\ heap[u].row # NULL /\ heap[u].row.status = "processing"
          /\ heap[u].next = Store!CompletedRow(heap[u].row, arg[w].quote)
      BY <1>1, <2>2 DEF Inv, CompletedInv
    <3>2. u \in DOMAIN Committed(heap) /\ Committed(heap)[u] = heap[u].row
      BY <3>1, CommittedRows
    <3>3. heap[u].row \in Store!UpdateRow
      BY <1>1, <3>2, RowTyped
    <3>4. heap[u].next.attempt = heap[u].row.attempt
      BY <3>1, <3>3 DEF Store!CompletedRow, Store!UpdateRow
    <3> QED
      BY <3>1, <3>2, <3>4 DEF Store!Owns, Store!Rows, Store!Status
  <2>3. ASSUME NEW p \in DOMAIN quotes, quotes[p].by # NULL, quotes[p].row # NULL
        PROVE  \/ quotes[p].next = quotes[p].row
               \/ Store!Supersedes(quotes[p].next.request_seq, quotes[p].next.quote,
                                   quotes[p].row)
    <3> DEFINE w == quotes[p].by
               r == quotes[p].row
    <3>1. quotes[p].next = Newer(arg[w].id, arg[w].quote, r)
      BY <1>1, <2>3 DEF Inv, LatestInv
    <3>2. CASE ~Store!Supersedes(arg[w].id, arg[w].quote, r)
      BY <2>3, <3>1, <3>2 DEF Newer
    <3>3. CASE Store!Supersedes(arg[w].id, arg[w].quote, r)
      <4>1. /\ quotes[p].next.request_seq = arg[w].id
            /\ quotes[p].next.quote = arg[w].quote
        BY <3>1, <3>3 DEF Newer
      <4> QED
        BY <3>3, <4>1
    <3> QED
      BY <3>2, <3>3
  <2> QED
    BY <2>1, <2>2, <2>3 DEF DecisionsStand
<1>2. Inv => DecisionsStand
  BY <1>1
<1> QED
  BY <1>2, InvHolds, PTL

\* No admission ever runs into the UNIQUE constraint of the keys, whatever other
\* replicas have inserted since or are inserting.
THEOREM UniqueNeverRefusesHolds == Spec => []UniqueNeverRefuses
<1> QED
  BY IndexCovered, InvHolds, PTL
================================================================================

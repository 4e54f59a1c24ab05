--------------------------- MODULE QuoteStoreProofs ---------------------------
(***************************************************************************)
(* Proofs about QuoteStore for every value of its constants.               *)
(***************************************************************************)
EXTENDS QuoteStore, FiniteSetTheorems, TLAPS

-----------------------------------------------------------------------------
(***************************************************************************)
(* What one operation does to one row.                                     *)
(***************************************************************************)

\* A claim is possible only with an attempt left.
RowBounded(r) ==
  /\ r.attempt <= MaxAttempts
  /\ r.status = "pending" => r.attempt < MaxAttempts

\* A row as the columns' types and the CHECK constraint ask for it.
RowOK(r) == r \in UpdateRow /\ UpdateStateShape(r) /\ RowBounded(r)

\* What every operation keeps of a row (RowsEvolve, for one row).
RowKept(r, t) ==
  /\ t.pair = r.pair
  /\ t.idempotency_key = r.idempotency_key
  /\ t.attempt >= r.attempt

\* The statuses the operations write are statuses.
LEMMA StatusesOK ==
  /\ {"pending", "processing", "completed", "failed"} = ActiveStatus \cup TerminalStatus
  /\ "attempts_exhausted" \in FailureCodes
  BY DEF ActiveStatus, TerminalStatus, FailureCodes

\* The row CreateOrGet inserts is a well-formed pending row with all its
\* attempts left.
LEMMA NewRowOK ==
  ASSUME NEW p \in Pairs, NEW k \in Keys \cup {NULL}, NEW t \in Nat
  PROVE  RowOK(NewRow(p, k, t)) /\ NewRow(p, k, t).idempotency_key = k
         /\ NewRow(p, k, t).status = "pending"
  BY StoreAssumption, NullAssumption
  DEF RowOK, UpdateStateShape, RowBounded, NewRow, UpdateRow, ActiveStatus, TerminalStatus

\* ClaimNext turns a well-formed pending row into a well-formed claimed one:
\* its attempt stays within the limit although the statement does not look
\* at it.
LEMMA ClaimedRowOK ==
  ASSUME now \in Nat, NEW r, RowOK(r), r.status = "pending"
  PROVE  RowOK(ClaimedRow(r)) /\ RowKept(r, ClaimedRow(r))
         /\ ClaimedRow(r).status = "processing"
<1>1. r \in UpdateRow /\ r.attempt \in Nat
  BY DEF RowOK, UpdateRow
<1>2. r.attempt + 1 \in Nat /\ now + LeaseDuration \in Nat
  BY <1>1, StoreAssumption
<1>3. ClaimedRow(r) \in UpdateRow
  BY <1>1, <1>2, StatusesOK DEF ClaimedRow, UpdateRow
<1>4. /\ ClaimedRow(r).pair = r.pair
      /\ ClaimedRow(r).idempotency_key = r.idempotency_key
      /\ ClaimedRow(r).status = "processing"
      /\ ClaimedRow(r).attempt = r.attempt + 1
      /\ ClaimedRow(r).next_attempt_at = NULL
      /\ ClaimedRow(r).lease_until = now + LeaseDuration
      /\ ClaimedRow(r).finished_at = r.finished_at
      /\ ClaimedRow(r).rate = r.rate
      /\ ClaimedRow(r).provider = r.provider
      /\ ClaimedRow(r).source_date = r.source_date
      /\ ClaimedRow(r).failure_code = r.failure_code
  BY <1>1 DEF ClaimedRow, UpdateRow
<1>5. QED
  BY <1>1, <1>2, <1>3, <1>4, StoreAssumption, NullAssumption
  DEF RowOK, UpdateStateShape, RowBounded, RowKept, TerminalStatus

\* Complete turns a well-formed claimed row into a well-formed completed one.
LEMMA CompletedRowOK ==
  ASSUME NEW r, RowOK(r), r.status = "processing", NEW q \in Quote
  PROVE  RowOK(CompletedRow(r, q)) /\ RowKept(r, CompletedRow(r, q))
         /\ CompletedRow(r, q).status = "completed"
         /\ QuoteOf(CompletedRow(r, q)) = q
<1>1. r \in UpdateRow /\ r.attempt \in Nat
  BY DEF RowOK, UpdateRow
<1>2. /\ q.rate \in Rates /\ q.provider \in Providers /\ q.source_date \in Dates
      /\ q.rate # NULL /\ q.provider # NULL /\ q.source_date # NULL
      /\ q = [rate |-> q.rate, provider |-> q.provider, source_date |-> q.source_date]
  BY StoreAssumption, NullAssumption DEF Quote
<1>3. CompletedRow(r, q) \in UpdateRow
  BY <1>1, <1>2, StatusesOK DEF CompletedRow, UpdateRow
<1>4. /\ CompletedRow(r, q).pair = r.pair
      /\ CompletedRow(r, q).idempotency_key = r.idempotency_key
      /\ CompletedRow(r, q).status = "completed"
      /\ CompletedRow(r, q).attempt = r.attempt
      /\ CompletedRow(r, q).next_attempt_at = r.next_attempt_at
      /\ CompletedRow(r, q).lease_until = NULL
      /\ CompletedRow(r, q).finished_at = "set"
      /\ CompletedRow(r, q).rate = q.rate
      /\ CompletedRow(r, q).provider = q.provider
      /\ CompletedRow(r, q).source_date = q.source_date
      /\ CompletedRow(r, q).failure_code = r.failure_code
  BY <1>1 DEF CompletedRow, UpdateRow
<1>5. QuoteOf(CompletedRow(r, q)) = q
  BY <1>2, <1>4 DEF QuoteOf
<1>6. RowOK(CompletedRow(r, q))
  BY <1>1, <1>2, <1>3, <1>4, NullAssumption
  DEF RowOK, UpdateStateShape, RowBounded, TerminalStatus
<1>7. QED
  BY <1>1, <1>4, <1>5, <1>6 DEF RowKept

\* Retry puts a claimed row with attempts left back into the queue.
LEMMA RetriedRowOK ==
  ASSUME now \in Nat, NEW r, RowOK(r), r.status = "processing",
         r.attempt < MaxAttempts, NEW d \in RetryDelays
  PROVE  RowOK(RetriedRow(r, d)) /\ RowKept(r, RetriedRow(r, d))
         /\ RetriedRow(r, d).status = "pending"
<1>1. r \in UpdateRow /\ r.attempt \in Nat
  BY DEF RowOK, UpdateRow
<1>2. now + d \in Nat
  BY StoreAssumption
<1>3. RetriedRow(r, d) \in UpdateRow
  BY <1>1, <1>2, StatusesOK DEF RetriedRow, UpdateRow
<1>4. /\ RetriedRow(r, d).pair = r.pair
      /\ RetriedRow(r, d).idempotency_key = r.idempotency_key
      /\ RetriedRow(r, d).status = "pending"
      /\ RetriedRow(r, d).attempt = r.attempt
      /\ RetriedRow(r, d).next_attempt_at = now + d
      /\ RetriedRow(r, d).lease_until = NULL
      /\ RetriedRow(r, d).finished_at = r.finished_at
      /\ RetriedRow(r, d).rate = r.rate
      /\ RetriedRow(r, d).provider = r.provider
      /\ RetriedRow(r, d).source_date = r.source_date
      /\ RetriedRow(r, d).failure_code = r.failure_code
  BY <1>1 DEF RetriedRow, UpdateRow
<1>5. QED
  BY <1>1, <1>2, <1>3, <1>4, StoreAssumption, NullAssumption
  DEF RowOK, UpdateStateShape, RowBounded, RowKept, TerminalStatus

\* Fail turns a well-formed claimed row into a well-formed failed one.
LEMMA FailedRowOK ==
  ASSUME NEW r, RowOK(r), r.status = "processing", NEW c \in FailureCodes
  PROVE  RowOK(FailedRow(r, c)) /\ RowKept(r, FailedRow(r, c))
         /\ FailedRow(r, c).status = "failed"
<1>1. r \in UpdateRow /\ r.attempt \in Nat
  BY DEF RowOK, UpdateRow
<1>2. c # NULL
  BY NullAssumption
<1>3. FailedRow(r, c) \in UpdateRow
  BY <1>1, <1>2, StatusesOK DEF FailedRow, UpdateRow
<1>4. /\ FailedRow(r, c).pair = r.pair
      /\ FailedRow(r, c).idempotency_key = r.idempotency_key
      /\ FailedRow(r, c).status = "failed"
      /\ FailedRow(r, c).attempt = r.attempt
      /\ FailedRow(r, c).next_attempt_at = r.next_attempt_at
      /\ FailedRow(r, c).lease_until = NULL
      /\ FailedRow(r, c).finished_at = "set"
      /\ FailedRow(r, c).rate = r.rate
      /\ FailedRow(r, c).provider = r.provider
      /\ FailedRow(r, c).source_date = r.source_date
      /\ FailedRow(r, c).failure_code = c
  BY <1>1 DEF FailedRow, UpdateRow
<1>5. QED
  BY <1>1, <1>2, <1>3, <1>4, StoreAssumption, NullAssumption
  DEF RowOK, UpdateStateShape, RowBounded, RowKept, TerminalStatus

\* RecoverExpired puts a claimed row back, or gives it up at the limit.
LEMMA RecoveredRowOK ==
  ASSUME now \in Nat, NEW r, RowOK(r), r.status = "processing"
  PROVE  RowOK(RecoveredRow(r)) /\ RowKept(r, RecoveredRow(r))
         /\ RecoveredRow(r).status \in {"pending", "failed"}
<1>1. r \in UpdateRow /\ r.attempt \in Nat
  BY DEF RowOK, UpdateRow
<1>2. CASE r.attempt < MaxAttempts
  <2>1. RecoveredRow(r) = [r EXCEPT !.status = "pending", !.lease_until = NULL,
                                    !.next_attempt_at = now, !.finished_at = NULL,
                                    !.failure_code = NULL]
    BY <1>2 DEF RecoveredRow
  <2>2. RecoveredRow(r) \in UpdateRow
    BY <1>1, <2>1, StatusesOK DEF UpdateRow
  <2>3. /\ RecoveredRow(r).pair = r.pair
        /\ RecoveredRow(r).idempotency_key = r.idempotency_key
        /\ RecoveredRow(r).status = "pending"
        /\ RecoveredRow(r).attempt = r.attempt
        /\ RecoveredRow(r).next_attempt_at = now
        /\ RecoveredRow(r).lease_until = NULL
        /\ RecoveredRow(r).finished_at = NULL
        /\ RecoveredRow(r).rate = r.rate
        /\ RecoveredRow(r).provider = r.provider
        /\ RecoveredRow(r).source_date = r.source_date
        /\ RecoveredRow(r).failure_code = NULL
    BY <1>1, <2>1 DEF UpdateRow
  <2>4. QED
    BY <1>1, <1>2, <2>2, <2>3, StoreAssumption, NullAssumption
    DEF RowOK, UpdateStateShape, RowBounded, RowKept, TerminalStatus
<1>3. CASE ~(r.attempt < MaxAttempts)
  <2>1. RecoveredRow(r) = [r EXCEPT !.status = "failed", !.lease_until = NULL,
                                    !.next_attempt_at = NULL, !.finished_at = "set",
                                    !.failure_code = "attempts_exhausted"]
    BY <1>3 DEF RecoveredRow
  <2>2. RecoveredRow(r) \in UpdateRow
    BY <1>1, <2>1, StatusesOK DEF UpdateRow
  <2>3. /\ RecoveredRow(r).pair = r.pair
        /\ RecoveredRow(r).idempotency_key = r.idempotency_key
        /\ RecoveredRow(r).status = "failed"
        /\ RecoveredRow(r).attempt = r.attempt
        /\ RecoveredRow(r).next_attempt_at = NULL
        /\ RecoveredRow(r).lease_until = NULL
        /\ RecoveredRow(r).finished_at = "set"
        /\ RecoveredRow(r).rate = r.rate
        /\ RecoveredRow(r).provider = r.provider
        /\ RecoveredRow(r).source_date = r.source_date
        /\ RecoveredRow(r).failure_code = "attempts_exhausted"
    BY <1>1, <2>1 DEF UpdateRow
  <2>4. QED
    BY <1>1, <2>2, <2>3, StatusesOK, StoreAssumption, NullAssumption
    DEF RowOK, UpdateStateShape, RowBounded, RowKept, TerminalStatus
<1>4. QED
  BY <1>2, <1>3

-----------------------------------------------------------------------------
(***************************************************************************)
(* What one operation does to the tables.                                  *)
(***************************************************************************)

\* The part of the invariant that speaks of single rows.
RowsInv ==
  /\ Rows \subseteq Updates
  /\ updates = [u \in Rows |-> updates[u]]
  /\ \A u \in Rows : RowOK(updates[u])
  /\ DOMAIN latest \subseteq Pairs
  /\ latest \in [DOMAIN latest -> LatestRow]
  /\ now \in Nat

\* Rows change in place, and only unfinished ones.
RowsStep ==
  /\ Rows' = Rows
  /\ updates' = [u \in Rows |-> updates'[u]]
  /\ \A u \in Rows :
       \/ updates'[u] = updates[u]
       \/ /\ Status(u) \in ActiveStatus
          /\ RowOK(updates'[u])
          /\ RowKept(updates[u], updates'[u])

\* A step that completes no row and leaves latest_quotes alone.
QuietStep ==
  /\ latest' = latest
  /\ \A u \in Rows : updates'[u] = updates[u] \/ Status(u)' # "completed"

\* Writing one unfinished row is a RowsStep.
LEMMA OneRowStep ==
  ASSUME RowsInv, NEW u \in Rows, NEW t, Status(u) \in ActiveStatus,
         RowOK(t), RowKept(updates[u], t), updates' = [updates EXCEPT ![u] = t]
  PROVE  RowsStep /\ \A v \in Rows : updates'[v] = IF v = u THEN t ELSE updates[v]
<1>1. Rows' = Rows
  BY DEF Rows
<1>2. \A v \in Rows : updates'[v] = IF v = u THEN t ELSE updates[v]
  BY DEF Rows
<1>3. updates' = [v \in Rows |-> updates'[v]]
  BY DEF Rows
<1>4. QED
  BY <1>1, <1>2, <1>3 DEF RowsStep

\* ClaimNext changes one pending row.
LEMMA ClaimStep ==
  ASSUME RowsInv, NEW u, NEW locked, ClaimNext(u, locked)
  PROVE  RowsStep /\ QuietStep /\ now' = now
<1>1. u \in Rows /\ Status(u) = "pending" /\ Status(u) \in ActiveStatus
  BY DEF ClaimNext, IsFirstReady, Ready, ActiveStatus
<1>2. /\ RowOK(ClaimedRow(updates[u])) /\ RowKept(updates[u], ClaimedRow(updates[u]))
      /\ ClaimedRow(updates[u]).status = "processing"
  BY <1>1, ClaimedRowOK DEF RowsInv, Status
<1>3. updates' = [updates EXCEPT ![u] = ClaimedRow(updates[u])] /\ latest' = latest
      /\ now' = now
  BY DEF ClaimNext
<1>4. RowsStep /\ \A v \in Rows :
        updates'[v] = IF v = u THEN ClaimedRow(updates[u]) ELSE updates[v]
  BY <1>1, <1>2, <1>3, OneRowStep
<1>5. QED
  BY <1>1, <1>2, <1>3, <1>4 DEF QuietStep, Status

\* Retry changes one claimed row whose attempt is below the limit.
LEMMA RetryStep ==
  ASSUME RowsInv, NEW u, NEW a \in 1..(MaxAttempts - 1), NEW d \in RetryDelays,
         Retry(u, a, d)
  PROVE  RowsStep /\ QuietStep /\ now' = now
<1>1. /\ u \in Rows /\ Status(u) = "processing" /\ Status(u) \in ActiveStatus
      /\ updates[u].attempt < MaxAttempts
  BY StoreAssumption DEF Retry, Owns, ActiveStatus
<1>2. /\ RowOK(RetriedRow(updates[u], d)) /\ RowKept(updates[u], RetriedRow(updates[u], d))
      /\ RetriedRow(updates[u], d).status = "pending"
  BY <1>1, RetriedRowOK DEF RowsInv, Status
<1>3. updates' = [updates EXCEPT ![u] = RetriedRow(updates[u], d)] /\ latest' = latest
      /\ now' = now
  BY DEF Retry
<1>4. RowsStep /\ \A v \in Rows :
        updates'[v] = IF v = u THEN RetriedRow(updates[u], d) ELSE updates[v]
  BY <1>1, <1>2, <1>3, OneRowStep
<1>5. QED
  BY <1>1, <1>2, <1>3, <1>4 DEF QuietStep, Status

\* Fail changes one claimed row.
LEMMA FailStep ==
  ASSUME RowsInv, NEW u, NEW a, NEW c \in FailureCodes, Fail(u, a, c)
  PROVE  RowsStep /\ QuietStep /\ now' = now
<1>1. u \in Rows /\ Status(u) = "processing" /\ Status(u) \in ActiveStatus
  BY DEF Fail, Owns, ActiveStatus
<1>2. /\ RowOK(FailedRow(updates[u], c)) /\ RowKept(updates[u], FailedRow(updates[u], c))
      /\ FailedRow(updates[u], c).status = "failed"
  BY <1>1, FailedRowOK DEF RowsInv, Status
<1>3. updates' = [updates EXCEPT ![u] = FailedRow(updates[u], c)] /\ latest' = latest
      /\ now' = now
  BY DEF Fail
<1>4. RowsStep /\ \A v \in Rows :
        updates'[v] = IF v = u THEN FailedRow(updates[u], c) ELSE updates[v]
  BY <1>1, <1>2, <1>3, OneRowStep
<1>5. QED
  BY <1>1, <1>2, <1>3, <1>4 DEF QuietStep, Status

\* RecoverExpired changes claimed rows only, however many.
LEMMA RecoverStep ==
  ASSUME RowsInv, NEW B, NEW locked, NEW n, RecoverExpired(B, locked, n)
  PROVE  RowsStep /\ QuietStep /\ now' = now
<1>1. \A u \in B : u \in Rows /\ Status(u) = "processing" /\ Status(u) \in ActiveStatus
  BY DEF RecoverExpired, IsBatch, Expired, ActiveStatus
<1>2. \A u \in B :
        /\ RowOK(RecoveredRow(updates[u])) /\ RowKept(updates[u], RecoveredRow(updates[u]))
        /\ RecoveredRow(updates[u]).status \in {"pending", "failed"}
  BY <1>1, RecoveredRowOK DEF RowsInv, Status
<1>3. /\ updates' = [u \in Rows |-> IF u \in B THEN RecoveredRow(updates[u]) ELSE updates[u]]
      /\ latest' = latest /\ now' = now
  BY DEF RecoverExpired
<1>4. Rows' = Rows /\ updates' = [u \in Rows |-> updates'[u]]
  BY <1>3 DEF Rows
<1>5. \A u \in Rows : updates'[u] = IF u \in B THEN RecoveredRow(updates[u]) ELSE updates[u]
  BY <1>3
<1>6. QED
  BY <1>1, <1>2, <1>3, <1>4, <1>5 DEF RowsStep, QuietStep, Status

\* Complete changes one claimed row and offers it to latest_quotes.
LEMMA CompleteStep ==
  ASSUME RowsInv, NEW u, NEW a, NEW p, NEW q \in Quote, Complete(u, a, p, q)
  PROVE  /\ RowsStep
         /\ u \in Rows /\ Status(u) = "processing" /\ updates[u].pair = p
         /\ \A v \in Rows : updates'[v] = IF v = u THEN CompletedRow(updates[u], q)
                                          ELSE updates[v]
         /\ CompletedRow(updates[u], q).status = "completed"
         /\ QuoteOf(CompletedRow(updates[u], q)) = q
         /\ CompletedRow(updates[u], q).pair = p
         /\ AdvanceLatest(u, p, q) /\ now' = now
<1>1. u \in Rows /\ Status(u) = "processing" /\ Status(u) \in ActiveStatus
      /\ updates[u].pair = p
  BY DEF Complete, Owns, ActiveStatus
<1>2. /\ RowOK(CompletedRow(updates[u], q)) /\ RowKept(updates[u], CompletedRow(updates[u], q))
      /\ CompletedRow(updates[u], q).status = "completed"
      /\ QuoteOf(CompletedRow(updates[u], q)) = q
  BY <1>1, CompletedRowOK DEF RowsInv, Status
<1>3. updates' = [updates EXCEPT ![u] = CompletedRow(updates[u], q)]
      /\ AdvanceLatest(u, p, q) /\ now' = now
  BY DEF Complete
<1>4. RowsStep /\ \A v \in Rows :
        updates'[v] = IF v = u THEN CompletedRow(updates[u], q) ELSE updates[v]
  BY <1>1, <1>2, <1>3, OneRowStep
<1>5. QED
  BY <1>1, <1>2, <1>3, <1>4 DEF RowKept

\* CreateOrGet adds one well-formed pending row under a key nobody has, and
\* touches no other.
LEMMA InsertStep ==
  ASSUME RowsInv, NEW s, NEW p \in Pairs, NEW k \in Keys \cup {NULL}, NEW t \in 0..now,
         Insert(s, p, k, t)
  PROVE  /\ s \in Updates /\ s \notin Rows /\ Rows' = Rows \cup {s}
         /\ updates' = [u \in Rows' |-> updates'[u]]
         /\ \A u \in Rows : updates'[u] = updates[u]
         /\ RowOK(updates'[s]) /\ updates'[s].status = "pending"
         /\ updates'[s].idempotency_key = k
         /\ Existing(k) = {} /\ HasCapacity
         /\ latest' = latest /\ now' = now
<1>1. s \in Updates /\ s \notin Rows
  BY StoreAssumption DEF Insert, IsNextSeq, RowsInv
<1>2. updates' = [u \in Rows \cup {s} |-> IF u = s THEN NewRow(p, k, t) ELSE updates[u]]
  BY DEF Insert
<1>3. Rows' = Rows \cup {s}
  BY <1>2 DEF Rows
<1>4. updates' = [u \in Rows' |-> updates'[u]]
  BY <1>2, <1>3
<1>5. updates'[s] = NewRow(p, k, t) /\ \A u \in Rows : updates'[u] = updates[u]
  BY <1>1, <1>2
<1>6. RowOK(NewRow(p, k, t)) /\ NewRow(p, k, t).idempotency_key = k
      /\ NewRow(p, k, t).status = "pending"
  BY NewRowOK DEF RowsInv
<1>7. QED
  BY <1>1, <1>3, <1>4, <1>5, <1>6 DEF Insert

-----------------------------------------------------------------------------
(***************************************************************************)
(* The step relation, once and for all: every step inserts a row, completes *)
(* one, or is quiet.                                                       *)
(***************************************************************************)
InsertCase ==
  \E s \in Updates, p \in Pairs, k \in Keys \cup {NULL}, t \in 0..now :
    Insert(s, p, k, t)

CompleteCase ==
  \E u \in Updates, a \in 1..MaxAttempts, p \in Pairs, q \in Quote : Complete(u, a, p, q)

\* Every step of the specification, stuttering and the clock included, is one
\* of the three.
LEMMA StepCases ==
  ASSUME RowsInv, [StoreNext]_storeVars
  PROVE  InsertCase \/ CompleteCase \/ (RowsStep /\ QuietStep /\ now' \in Nat)
<1>1. CASE UNCHANGED storeVars
  BY <1>1 DEF storeVars, RowsInv, RowsStep, QuietStep, Rows, Status
<1>2. CASE \E u \in Updates, locked \in SUBSET Updates : ClaimNext(u, locked)
  BY <1>2, ClaimStep DEF RowsInv
<1>3. CASE \E u \in Updates, a \in 1..(MaxAttempts - 1), d \in RetryDelays : Retry(u, a, d)
  BY <1>3, RetryStep DEF RowsInv
<1>4. CASE \E u \in Updates, a \in 1..MaxAttempts, c \in FailureCodes : Fail(u, a, c)
  BY <1>4, FailStep DEF RowsInv
<1>5. CASE \E B \in SUBSET Updates, locked \in SUBSET Updates, n \in 1..RecoveryBatch :
             RecoverExpired(B, locked, n)
  BY <1>5, RecoverStep DEF RowsInv
<1>6. CASE Tick
  BY <1>6 DEF Tick, RowsInv, RowsStep, QuietStep, Rows, Status
<1>7. QED
  BY <1>1, <1>2, <1>3, <1>4, <1>5, <1>6 DEF StoreNext, InsertCase, CompleteCase

-----------------------------------------------------------------------------
(***************************************************************************)
(* Type correctness, the shape of the rows, the attempt limit.             *)
(***************************************************************************)

\* Every row is well formed in the initial state.
LEMMA RowsInvInit == StoreInit => RowsInv
  BY DEF StoreInit, RowsInv, Rows

\* AdvanceLatest keeps latest_quotes typed.
LEMMA AdvanceTyped ==
  ASSUME DOMAIN latest \subseteq Pairs, latest \in [DOMAIN latest -> LatestRow],
         NEW u \in Updates, NEW p \in Pairs, NEW q \in Quote, AdvanceLatest(u, p, q)
  PROVE  DOMAIN latest' \subseteq Pairs /\ latest' \in [DOMAIN latest' -> LatestRow]
<1>1. [request_seq |-> u, quote |-> q] \in LatestRow
  BY DEF LatestRow
<1>2. QED
  BY <1>1 DEF AdvanceLatest

\* Every step keeps the rows well formed.
LEMMA RowsInvNext == RowsInv /\ [StoreNext]_storeVars => RowsInv'
<1> SUFFICES ASSUME RowsInv, [StoreNext]_storeVars PROVE RowsInv'
  OBVIOUS
<1>1. CASE InsertCase
  <2>1. PICK s \in Updates, p \in Pairs, k \in Keys \cup {NULL}, t \in 0..now :
          Insert(s, p, k, t)
    BY <1>1 DEF InsertCase
  <2>2. /\ s \in Updates /\ Rows' = Rows \cup {s}
        /\ updates' = [u \in Rows' |-> updates'[u]]
        /\ \A u \in Rows : updates'[u] = updates[u]
        /\ RowOK(updates'[s])
        /\ latest' = latest /\ now' = now
    BY <2>1, InsertStep
  <2>3. QED
    BY <2>2 DEF RowsInv
<1>2. CASE CompleteCase
  <2>1. PICK u \in Updates, a \in 1..MaxAttempts, p \in Pairs, q \in Quote :
          Complete(u, a, p, q)
    BY <1>2 DEF CompleteCase
  <2>2. RowsStep /\ AdvanceLatest(u, p, q) /\ now' = now
    BY <2>1, CompleteStep
  <2>3. DOMAIN latest' \subseteq Pairs /\ latest' \in [DOMAIN latest' -> LatestRow]
    BY <2>2, AdvanceTyped DEF RowsInv
  <2>4. QED
    BY <2>2, <2>3 DEF RowsInv, RowsStep
<1>3. CASE RowsStep /\ QuietStep /\ now' \in Nat
  BY <1>3 DEF RowsInv, RowsStep, QuietStep
<1>4. QED
  BY <1>1, <1>2, <1>3, StepCases

\* The invariant holds of every reachable state.
LEMMA RowsInvHolds == StoreSpec => []RowsInv
<1>1. StoreInit => RowsInv
  BY RowsInvInit
<1>2. RowsInv /\ [StoreNext]_storeVars => RowsInv'
  BY RowsInvNext
<1>3. QED
  BY <1>1, <1>2, PTL DEF StoreSpec

\* Whatever sequence of calls the store gets, its tables keep their column
\* types.
THEOREM StoreTypeCorrect == StoreSpec => []StoreTypeOK
<1>1. RowsInv => StoreTypeOK
  BY DEF RowsInv, RowOK, StoreTypeOK
<1>2. QED
  BY <1>1, RowsInvHolds, PTL

\* No statement of the store is ever refused by update_state_shape, in any of
\* the columns it reads.
THEOREM StateShapeHolds == StoreSpec => []StateShape
<1>1. RowsInv => StateShape
  BY DEF RowsInv, RowOK, UpdateStateShape, StateShape
<1>2. QED
  BY <1>1, RowsInvHolds, PTL

\* No job is claimed more than MAX_ATTEMPTS times.
THEOREM AttemptsBoundedHolds == StoreSpec => []AttemptsBounded
<1>1. RowsInv => AttemptsBounded
  BY DEF RowsInv, RowOK, RowBounded, AttemptsBounded
<1>2. QED
  BY <1>1, RowsInvHolds, PTL

\* One step from well-formed rows evolves every row as RowsEvolve says, a step
\* of the clock alone included.
LEMMA RowsEvolveNext ==
  ASSUME RowsInv, [StoreNext]_storeVars, NEW u \in Rows
  PROVE  /\ u \in Rows'
         /\ updates'[u].pair = updates[u].pair
         /\ updates'[u].idempotency_key = updates[u].idempotency_key
         /\ updates'[u].attempt >= updates[u].attempt
         /\ Status(u) \in TerminalStatus => updates'[u] = updates[u]
<1>1. updates[u].attempt \in Nat
  BY DEF RowsInv, RowOK, UpdateRow
<1>2. CASE RowsStep
  BY <1>1, <1>2 DEF RowsStep, RowKept, ActiveStatus, TerminalStatus
<1>3. CASE InsertCase
  <2>1. PICK s \in Updates, p \in Pairs, k \in Keys \cup {NULL}, t \in 0..now :
          Insert(s, p, k, t)
    BY <1>3 DEF InsertCase
  <2>2. Rows' = Rows \cup {s} /\ updates'[u] = updates[u]
    BY <2>1, InsertStep
  <2>3. QED
    BY <1>1, <2>2
<1>4. CASE CompleteCase
  BY <1>2, <1>4, CompleteStep DEF CompleteCase
<1>5. QED
  BY <1>2, <1>3, <1>4, StepCases

\* No operation removes a row, changes whose it is, or writes a finished one.
THEOREM RowsEvolveHolds == StoreSpec => RowsEvolve
<1> DEFINE Evolve ==
      \A u \in Rows :
        /\ u \in Rows'
        /\ updates'[u].pair = updates[u].pair
        /\ updates'[u].idempotency_key = updates[u].idempotency_key
        /\ updates'[u].attempt >= updates[u].attempt
        /\ Status(u) \in TerminalStatus => updates'[u] = updates[u]
<1>1. RowsInv /\ [StoreNext]_storeVars => [Evolve]_storeVars
  <2> SUFFICES ASSUME RowsInv, [StoreNext]_storeVars PROVE Evolve
    OBVIOUS
  <2> QED
    BY RowsEvolveNext
<1>2. QED
  BY <1>1, RowsInvHolds, PTL DEF StoreSpec, RowsEvolve

-----------------------------------------------------------------------------
(***************************************************************************)
(* Admission.                                                              *)
(***************************************************************************)

\* A key names at most one row.
OneUpdatePerKey ==
  \A u, v \in Rows :
    updates[u].idempotency_key = updates[v].idempotency_key
      /\ updates[u].idempotency_key # NULL => u = v

\* A step that keeps all rows keeps the keys unique.
LEMMA KeysNext ==
  ASSUME RowsInv, OneUpdatePerKey, [StoreNext]_storeVars
  PROVE  OneUpdatePerKey'
<1>1. CASE RowsStep
  <2>1. \A u \in Rows : updates'[u].idempotency_key = updates[u].idempotency_key
    BY <1>1 DEF RowsStep, RowKept
  <2>2. QED
    BY <1>1, <2>1 DEF RowsStep, OneUpdatePerKey
<1>2. CASE InsertCase
  <2>1. PICK s \in Updates, p \in Pairs, k \in Keys \cup {NULL}, t \in 0..now :
          Insert(s, p, k, t)
    BY <1>2 DEF InsertCase
  <2>2. /\ Rows' = Rows \cup {s} /\ updates'[s].idempotency_key = k
        /\ \A u \in Rows : updates'[u] = updates[u]
        /\ Existing(k) = {}
    BY <2>1, InsertStep
  <2>3. \A u \in Rows : k # NULL => updates[u].idempotency_key # k
    BY <2>2 DEF Existing
  <2>4. QED
    BY <2>2, <2>3 DEF OneUpdatePerKey
<1>3. QED
  BY <1>1, <1>2, StepCases, CompleteStep DEF CompleteCase

\* The UNIQUE constraint of the keys holds of the rows.
LEMMA OneUpdatePerKeyHolds == StoreSpec => []OneUpdatePerKey
<1>1. StoreInit => OneUpdatePerKey
  BY DEF StoreInit, OneUpdatePerKey, Rows
<1>2. QED
  BY <1>1, KeysNext, RowsInvHolds, PTL DEF StoreSpec

CapacityInv == IsFiniteSet(Rows) /\ ActiveWithinLimit

\* The queue is within its limit after every step from a state in which it is.
LEMMA CapacityNext ==
  ASSUME RowsInv, CapacityInv, [StoreNext]_storeVars
  PROVE  CapacityInv'
<1>1. IsFiniteSet(Active) /\ Cardinality(Active) \in Nat
  BY FS_Subset, FS_CardinalityType DEF CapacityInv, Active
<1>2. CASE RowsStep
  <2>1. Active' \subseteq Active
    BY <1>2 DEF RowsStep, Active, Status
  <2>2. IsFiniteSet(Active') /\ Cardinality(Active') <= Cardinality(Active)
    BY <1>1, <2>1, FS_Subset
  <2>3. Cardinality(Active') \in Nat
    BY <2>2, FS_CardinalityType
  <2>4. QED
    BY <1>1, <1>2, <2>2, <2>3, StoreAssumption DEF RowsStep, CapacityInv, ActiveWithinLimit
<1>3. CASE InsertCase
  <2>1. PICK s \in Updates, p \in Pairs, k \in Keys \cup {NULL}, t \in 0..now :
          Insert(s, p, k, t)
    BY <1>3 DEF InsertCase
  <2>2. /\ s \notin Rows /\ Rows' = Rows \cup {s} /\ updates'[s].status = "pending"
        /\ \A u \in Rows : updates'[u] = updates[u]
        /\ HasCapacity
    BY <2>1, InsertStep
  <2>3. Active' = Active \cup {s} /\ s \notin Active
    BY <2>2 DEF Active, Status, ActiveStatus
  <2>4. Cardinality(Active') = Cardinality(Active) + 1
    BY <1>1, <2>3, FS_AddElement
  <2>5. IsFiniteSet(Rows')
    BY <2>2, FS_AddElement DEF CapacityInv
  <2>6. QED
    BY <1>1, <2>2, <2>4, <2>5, StoreAssumption DEF CapacityInv, ActiveWithinLimit, HasCapacity
<1>4. QED
  BY <1>2, <1>3, StepCases, CompleteStep DEF CompleteCase

\* The number of unfinished jobs never exceeds MAX_ACTIVE.
THEOREM ActiveWithinLimitHolds == StoreSpec => []ActiveWithinLimit
<1>1. StoreInit => CapacityInv
  <2> SUFFICES ASSUME StoreInit PROVE CapacityInv
    OBVIOUS
  <2>1. Rows = {} /\ Active = {}
    BY DEF StoreInit, Rows, Active
  <2>2. QED
    BY <2>1, FS_EmptySet, StoreAssumption DEF CapacityInv, ActiveWithinLimit
<1>2. CapacityInv => ActiveWithinLimit
  BY DEF CapacityInv
<1>3. QED
  BY <1>1, <1>2, CapacityNext, RowsInvHolds, PTL DEF StoreSpec

-----------------------------------------------------------------------------
(***************************************************************************)
(* The latest quote of a pair.                                             *)
(***************************************************************************)

\* A row carries a quote if it is completed and nothing else if it is not.
LEMMA QuoteOfRow ==
  ASSUME NEW r, RowOK(r)
  PROVE  IF r.status = "completed" THEN QuoteOf(r) \in Quote /\ QuoteOf(r) # NULL
         ELSE QuoteOf(r) = NULL
<1>1. CASE r.status = "completed"
  <2>1. /\ r.rate \in Rates /\ r.provider \in Providers /\ r.source_date \in Dates
        /\ r.rate # NULL
    BY <1>1 DEF RowOK, UpdateStateShape, UpdateRow
  <2>2. QuoteOf(r) \in Quote
    BY <2>1 DEF QuoteOf, Quote
  <2>3. QED
    BY <1>1, <2>2, NullAssumption
<1>2. CASE r.status # "completed"
  BY <1>2 DEF RowOK, UpdateStateShape, QuoteOf
<1>3. QED
  BY <1>1, <1>2

\* A completed row carries a quote with a comparable date.
LEMMA CompletedQuote ==
  ASSUME RowsInv, NEW p, NEW u \in Completed(p)
  PROVE  /\ u \in Rows /\ u \in Nat
         /\ QuoteOf(updates[u]) \in Quote /\ QuoteOf(updates[u]).source_date \in Nat
<1>1. u \in Rows /\ u \in Nat /\ RowOK(updates[u]) /\ updates[u].status = "completed"
  BY StoreAssumption DEF Completed, RowsInv, Status
<1>2. QuoteOf(updates[u]) \in Quote
  BY <1>1, QuoteOfRow
<1>3. \A q \in Quote : q.source_date \in Nat
  BY StoreAssumption DEF Quote
<1>4. QED
  BY <1>1, <1>2, <1>3

\* (source_date, request_seq) is a total order: what does not supersede l
\* does not supersede what superseded l.
LEMMA SupersedesTransitive ==
  ASSUME NEW u \in Nat, NEW q, q.source_date \in Nat,
         NEW v \in Nat, NEW x, x.source_date \in Nat,
         NEW l, l.request_seq \in Nat, l.quote.source_date \in Nat,
         Supersedes(u, q, l), ~Supersedes(v, x, l)
  PROVE  ~Supersedes(v, x, [request_seq |-> u, quote |-> q])
  BY DEF Supersedes

\* A quiet step leaves the completed rows of every pair as they are.
LEMMA QuietKeepsCompleted ==
  ASSUME RowsStep, QuietStep, NEW p
  PROVE  Completed(p)' = Completed(p) /\ \A u \in Completed(p) : updates'[u] = updates[u]
<1>1. \A u \in Completed(p) : u \in Rows /\ updates'[u] = updates[u]
  BY DEF Completed, RowsStep, ActiveStatus, Status
<1>2. \A u \in Rows : Status(u)' = "completed" => updates'[u] = updates[u]
  BY DEF QuietStep
<1>3. QED
  BY <1>1, <1>2 DEF Completed, RowsStep, Status

\* What is newest for a pair stays newest while its completed rows and its
\* entry stay.
LEMMA LatestUnchanged ==
  ASSUME NEW p \in Pairs, NewestFor(p),
         Completed(p)' = Completed(p), \A u \in Completed(p) : updates'[u] = updates[u],
         p \in DOMAIN latest' <=> p \in DOMAIN latest,
         p \in DOMAIN latest => latest'[p] = latest[p]
  PROVE  NewestFor(p)'
  BY DEF NewestFor, Supersedes

\* Completing u adds u to the completed rows of its pair and to no other.
LEMMA CompletedGrows ==
  ASSUME RowsInv, NEW u, NEW a, NEW p, NEW q \in Quote, Complete(u, a, p, q), NEW x
  PROVE  /\ Completed(x)' = IF x = p THEN Completed(x) \cup {u} ELSE Completed(x)
         /\ \A v \in Completed(x) : updates'[v] = updates[v]
         /\ QuoteOf(updates'[u]) = q
<1>1. /\ Rows' = Rows /\ u \in Rows /\ Status(u) = "processing" /\ updates[u].pair = p
      /\ \A v \in Rows \ {u} : updates'[v] = updates[v]
      /\ updates'[u].status = "completed" /\ QuoteOf(updates'[u]) = q
      /\ updates'[u].pair = p
  BY CompleteStep DEF RowsStep
<1>2. u \notin Completed(x) /\ Completed(x) \subseteq Rows
  BY <1>1 DEF Completed
<1>3. QED
  BY <1>1, <1>2 DEF Completed, Status

\* Complete leaves latest_quotes with the newest quote of its pair, whatever
\* was completed before and in whatever order.
LEMMA CompleteKeepsNewest ==
  ASSUME RowsInv, LatestIsNewest, NEW u \in Updates, NEW a, NEW p \in Pairs,
         NEW q \in Quote, Complete(u, a, p, q)
  PROVE  LatestIsNewest'
<1> DEFINE new == [request_seq |-> u, quote |-> q]
<1>1. AdvanceLatest(u, p, q) /\ u \in Nat /\ q.source_date \in Nat
  BY CompleteStep, StoreAssumption DEF Quote
<1>2. ASSUME NEW x \in Pairs, x # p PROVE NewestFor(x)'
  <2>1. Completed(x)' = Completed(x) /\ \A v \in Completed(x) : updates'[v] = updates[v]
    BY <1>2, CompletedGrows
  <2>2. /\ x \in DOMAIN latest' <=> x \in DOMAIN latest
        /\ x \in DOMAIN latest => latest'[x] = latest[x]
    BY <1>1, <1>2 DEF AdvanceLatest
  <2>3. QED
    BY <2>1, <2>2, LatestUnchanged DEF LatestIsNewest
<1>3. NewestFor(p)'
  <2>1. /\ Completed(p)' = Completed(p) \cup {u} /\ QuoteOf(updates'[u]) = q
        /\ \A v \in Completed(p) : updates'[v] = updates[v]
    BY CompletedGrows
  <2>2. NewestFor(p)
    BY DEF LatestIsNewest
  <2>3. \A v \in Completed(p) : v \in Nat /\ QuoteOf(updates[v]).source_date \in Nat
    BY CompletedQuote
  <2>4. CASE p \in DOMAIN latest /\ ~Supersedes(u, q, latest[p])
    <3>1. latest' = latest
      BY <1>1, <2>4 DEF AdvanceLatest
    <3>2. QED
      BY <2>1, <2>2, <2>4, <3>1 DEF NewestFor, Supersedes
  <2>5. CASE ~(p \in DOMAIN latest /\ ~Supersedes(u, q, latest[p]))
    <3>1. p \in DOMAIN latest' /\ latest'[p] = new
      BY <1>1, <2>5 DEF AdvanceLatest
    <3>2. \A v \in Completed(p) : ~Supersedes(v, QuoteOf(updates[v]), new)
      <4>1. SUFFICES ASSUME NEW v \in Completed(p)
                     PROVE  ~Supersedes(v, QuoteOf(updates[v]), new)
        OBVIOUS
      <4>2. /\ p \in DOMAIN latest /\ Supersedes(u, q, latest[p])
            /\ latest[p].request_seq \in Nat /\ latest[p].quote.source_date \in Nat
            /\ ~Supersedes(v, QuoteOf(updates[v]), latest[p])
        BY <2>2, <2>3, <2>5, <4>1 DEF NewestFor
      <4>3. QED
        BY <1>1, <2>3, <4>1, <4>2, SupersedesTransitive
    <3>3. ~Supersedes(u, q, new)
      BY <1>1 DEF Supersedes
    <3>4. QED
      BY <2>1, <3>1, <3>2, <3>3 DEF NewestFor, Supersedes
  <2>6. QED
    BY <2>4, <2>5
<1>4. QED
  BY <1>2, <1>3 DEF LatestIsNewest

\* Every step keeps latest_quotes newest.
LEMMA LatestNext ==
  ASSUME RowsInv, LatestIsNewest, [StoreNext]_storeVars
  PROVE  LatestIsNewest'
<1>1. CASE InsertCase
  <2>1. PICK s \in Updates, p \in Pairs, k \in Keys \cup {NULL}, t \in 0..now :
          Insert(s, p, k, t)
    BY <1>1 DEF InsertCase
  <2>2. /\ Rows' = Rows \cup {s} /\ s \notin Rows /\ updates'[s].status = "pending"
        /\ \A u \in Rows : updates'[u] = updates[u]
        /\ latest' = latest
    BY <2>1, InsertStep
  <2>3. ASSUME NEW x \in Pairs PROVE NewestFor(x)'
    <3>1. Completed(x)' = Completed(x) /\ \A u \in Completed(x) : updates'[u] = updates[u]
      BY <2>2 DEF Completed, Status
    <3>2. QED
      BY <2>2, <3>1, LatestUnchanged DEF LatestIsNewest
  <2>4. QED
    BY <2>3 DEF LatestIsNewest
<1>2. CASE CompleteCase
  BY <1>2, CompleteKeepsNewest DEF CompleteCase
<1>3. CASE RowsStep /\ QuietStep
  <2>1. ASSUME NEW x \in Pairs PROVE NewestFor(x)'
    BY <1>3, QuietKeepsCompleted, LatestUnchanged DEF LatestIsNewest, QuietStep
  <2>2. QED
    BY <2>1 DEF LatestIsNewest
<1>4. QED
  BY <1>1, <1>2, <1>3, StepCases

\* latest_quotes always holds the completed update with the greatest
\* (source_date, request_seq) of each pair, in whatever order results arrive.
THEOREM LatestIsNewestHolds == StoreSpec => []LatestIsNewest
<1>1. StoreInit => LatestIsNewest
  BY DEF StoreInit, LatestIsNewest, NewestFor, Completed, Rows
<1>2. QED
  BY <1>1, LatestNext, RowsInvHolds, PTL DEF StoreSpec
===============================================================================

------------------------------ MODULE QuoteStore ------------------------------
(***************************************************************************)
(* The two tables of the service, quote_updates and latest_quotes, and the *)
(* operations of quote.Store (internal/usecase/quote/ports.go) on them,    *)
(* each as the one atomic step the port promises.                          *)
(*                                                                         *)
(* A row of quote_updates is named by its request_seq; the random UUID of  *)
(* newUpdateID only names the same row to clients.  A table is a function  *)
(* whose domain is the set of keys present in it, so that rows come into   *)
(* being by extending the domain.                                          *)
(***************************************************************************)
EXTENDS Integers, FiniteSets

CONSTANTS
  Pairs,          \* the directed currency pairs
  Keys,           \* the idempotency keys clients may send
  Rates,          \* exact decimal rates, opaque here
  Providers,      \* the names of rate providers
  Dates,          \* source dates, ordered as numbers
  Updates,        \* the values request_seq may take
  MaxActive,      \* FX_QUOTES_MAX_ACTIVE
  MaxAttempts,    \* FX_QUOTES_MAX_ATTEMPTS
  LeaseDuration,  \* FX_QUOTES_LEASE_DURATION, in clock ticks
  RetryDelays,    \* the delays RetryPolicy.Delay may return, in clock ticks
  RecoveryBatch,  \* recoveryBatchSize
  ClockBound,     \* the clock runs freely up to here (see Tick)
  NULL            \* SQL NULL, and the absent idempotency key

ASSUME StoreAssumption ==
  /\ Dates \subseteq Nat
  /\ Updates \subseteq Nat
  /\ MaxActive \in Nat \ {0}
  /\ MaxAttempts \in Nat \ {0}
  /\ LeaseDuration \in Nat \ {0}
  /\ RetryDelays \subseteq Nat
  /\ RecoveryBatch \in Nat \ {0}
  /\ ClockBound \in Nat

VARIABLES
  updates,        \* table quote_updates: request_seq -> row
  latest,         \* table latest_quotes: pair -> row
  now             \* the database clock

storeVars == <<updates, latest, now>>

-----------------------------------------------------------------------------
(***************************************************************************)
(* Rows.                                                                   *)
(***************************************************************************)
ActiveStatus == {"pending", "processing"}
TerminalStatus == {"completed", "failed"}
FailureCodes == {"provider_permanent", "attempts_exhausted"}

Quote == [rate : Rates, provider : Providers, source_date : Dates]

\* Of finished_at only the CHECK asks, whether it is set.
UpdateRow ==
  [ pair            : Pairs,
    idempotency_key : Keys \cup {NULL},
    status          : ActiveStatus \cup TerminalStatus,
    attempt         : Nat,
    next_attempt_at : Nat \cup {NULL},
    lease_until     : Nat \cup {NULL},
    finished_at     : {"set", NULL},
    rate            : Rates \cup {NULL},
    provider        : Providers \cup {NULL},
    source_date     : Dates \cup {NULL},
    failure_code    : FailureCodes \cup {NULL} ]

\* NULL is none of the values a column can hold.
ASSUME NullAssumption ==
  /\ NULL \notin Nat /\ NULL \notin Keys /\ NULL \notin FailureCodes
  /\ NULL \notin Rates /\ NULL \notin Providers /\ NULL # "set"
  /\ NULL \notin Quote

\* scanUpdate: the quote of a row, which it has if its rate is set.
QuoteOf(r) ==
  IF r.rate = NULL THEN NULL
  ELSE [rate |-> r.rate, provider |-> r.provider, source_date |-> r.source_date]

LatestRow == [request_seq : Updates, quote : Quote]

Rows == DOMAIN updates

Status(u) == updates[u].status

\* The rows that count against MAX_ACTIVE (index quote_updates_active).
Active == {u \in Rows : Status(u) \in ActiveStatus}

Completed(p) == {u \in Rows : Status(u) = "completed" /\ updates[u].pair = p}

-----------------------------------------------------------------------------
(***************************************************************************)
(* Admission: CreateOrGet.  The lookup, the capacity check and the insert  *)
(* are one statement under the advisory lock.                              *)
(***************************************************************************)

\* The row stored under a key, as a set; NULLIF makes the empty key match
\* nothing.
Existing(k) == {u \in Rows : k # NULL /\ updates[u].idempotency_key = k}

\* Mutant: only waiting jobs are counted.
HasCapacityPendingOnly ==
  Cardinality({u \in Rows : Status(u) = "pending"}) < MaxActive

HasCapacity == Cardinality(Active) < MaxActive

\* UNIQUE: PostgreSQL refuses a second row with the key.
IsUniqueKey(k) == \A u \in Rows : k # NULL => updates[u].idempotency_key # k

\* GENERATED ALWAYS AS IDENTITY: larger than every value handed out before.
\* A rolled-back insert leaves a gap.
IsNextSeq(s) == s \in Updates /\ \A u \in Rows : u < s

\* t is the clock when the statement ran; the row is committed no earlier.
NewRow(p, k, t) ==
  [ pair |-> p, idempotency_key |-> k, status |-> "pending", attempt |-> 0,
    next_attempt_at |-> t, lease_until |-> NULL, finished_at |-> NULL,
    rate |-> NULL, provider |-> NULL, source_date |-> NULL, failure_code |-> NULL ]

Insert(s, p, k, t) ==
  /\ Existing(k) = {}
  /\ HasCapacity
  /\ IsNextSeq(s) /\ IsUniqueKey(k)
  /\ updates' = [u \in Rows \cup {s} |->
                   IF u = s THEN NewRow(p, k, t) ELSE updates[u]]
  /\ UNCHANGED <<latest, now>>

-----------------------------------------------------------------------------
(***************************************************************************)
(* ClaimNext.                                                              *)
(***************************************************************************)
Ready == {u \in Rows : Status(u) = "pending" /\ updates[u].next_attempt_at <= now}

\* ORDER BY next_attempt_at, request_seq LIMIT 1.
IsFirstReady(u, S) ==
  /\ u \in S
  /\ \A v \in S \ {u} :
       \/ updates[u].next_attempt_at < updates[v].next_attempt_at
       \/ updates[u].next_attempt_at = updates[v].next_attempt_at /\ u < v

\* Mutant: a claim after a recovery reuses the attempt number.
ClaimedRowSameAttempt(r) ==
  [r EXCEPT !.status = "processing", !.attempt = IF @ = 0 THEN 1 ELSE @,
            !.next_attempt_at = NULL, !.lease_until = now + LeaseDuration]

ClaimedRow(r) ==
  [r EXCEPT !.status = "processing", !.attempt = @ + 1,
            !.next_attempt_at = NULL, !.lease_until = now + LeaseDuration]

\* Row u is claimed by a statement that skips the rows in locked, which other
\* sessions hold at that moment (FOR UPDATE SKIP LOCKED).
ClaimNext(u, locked) ==
  /\ IsFirstReady(u, Ready \ locked)
  /\ updates' = [updates EXCEPT ![u] = ClaimedRow(@)]
  /\ UNCHANGED <<latest, now>>

-----------------------------------------------------------------------------
(***************************************************************************)
(* The operations that settle a claimed attempt: Complete, Retry, Fail.    *)
(***************************************************************************)

\* Mutant: the status alone fences the write.
OwnsAnyAttempt(u, a) ==
  u \in Rows /\ Status(u) = "processing" /\ a \in Nat

\* Mutant: the attempt alone fences the write.
OwnsAnyStatus(u, a) == u \in Rows /\ updates[u].attempt = a

\* WHERE id=$1 AND status='processing' AND attempt=$2.
Owns(u, a) == u \in Rows /\ Status(u) = "processing" /\ updates[u].attempt = a

\* (EXCLUDED.source_date, EXCLUDED.request_seq) >
\*   (latest_quotes.source_date, latest_quotes.request_seq).
Supersedes(u, q, l) ==
  \/ q.source_date > l.quote.source_date
  \/ q.source_date = l.quote.source_date /\ u > l.request_seq

\* Mutant: the newest request wins, whatever its source date.
AdvanceLatestBySeq(u, p, q) ==
  latest' = IF p \in DOMAIN latest /\ u < latest[p].request_seq
            THEN latest
            ELSE [x \in DOMAIN latest \cup {p} |->
                    IF x = p THEN [request_seq |-> u, quote |-> q] ELSE latest[x]]

\* INSERT INTO latest_quotes ... ON CONFLICT (pair) DO UPDATE ... WHERE.
AdvanceLatest(u, p, q) ==
  latest' = IF p \in DOMAIN latest /\ ~Supersedes(u, q, latest[p])
            THEN latest
            ELSE [x \in DOMAIN latest \cup {p} |->
                    IF x = p THEN [request_seq |-> u, quote |-> q] ELSE latest[x]]

CompletedRow(r, q) ==
  [r EXCEPT !.status = "completed", !.lease_until = NULL, !.finished_at = "set",
            !.rate = q.rate, !.provider = q.provider, !.source_date = q.source_date]

Complete(u, a, p, q) ==
  /\ Owns(u, a)
  /\ updates[u].pair = p
  /\ updates' = [updates EXCEPT ![u] = CompletedRow(@, q)]
  /\ AdvanceLatest(u, p, q)
  /\ UNCHANGED now

RetriedRow(r, d) ==
  [r EXCEPT !.status = "pending", !.lease_until = NULL, !.next_attempt_at = now + d]

Retry(u, a, d) ==
  /\ Owns(u, a)
  /\ updates' = [updates EXCEPT ![u] = RetriedRow(@, d)]
  /\ UNCHANGED <<latest, now>>

FailedRow(r, code) ==
  [r EXCEPT !.status = "failed", !.lease_until = NULL, !.finished_at = "set",
            !.failure_code = code]

Fail(u, a, code) ==
  /\ Owns(u, a)
  /\ updates' = [updates EXCEPT ![u] = FailedRow(@, code)]
  /\ UNCHANGED <<latest, now>>

-----------------------------------------------------------------------------
(***************************************************************************)
(* RecoverExpired.                                                         *)
(***************************************************************************)
\* Mutant: whatever is being processed is taken back.
ExpiredAnyLease == {u \in Rows : Status(u) = "processing"}

Expired == {u \in Rows : Status(u) = "processing" /\ updates[u].lease_until <= now}

\* ORDER BY lease_until, request_seq LIMIT n.
IsBatch(B, S, n) ==
  /\ B \subseteq S
  /\ Cardinality(B) = IF Cardinality(S) < n THEN Cardinality(S) ELSE n
  /\ \A u \in B, v \in S \ B :
       \/ updates[u].lease_until < updates[v].lease_until
       \/ updates[u].lease_until = updates[v].lease_until /\ u < v

\* Mutant: the limit is compared with <=.
RecoveredRowOffByOne(r) ==
  IF r.attempt <= MaxAttempts
  THEN [r EXCEPT !.status = "pending", !.lease_until = NULL, !.next_attempt_at = now]
  ELSE [r EXCEPT !.status = "failed", !.lease_until = NULL, !.finished_at = "set",
                 !.failure_code = "attempts_exhausted"]

\* Mutant: a failure code the table does not know.
RecoveredRowUnknownCode(r) ==
  IF r.attempt < MaxAttempts
  THEN [r EXCEPT !.status = "pending", !.lease_until = NULL, !.next_attempt_at = now]
  ELSE [r EXCEPT !.status = "failed", !.lease_until = NULL, !.finished_at = "set",
                 !.failure_code = "lease_expired"]

\* Mutant: no CASE for finished_at.
RecoveredRowNotFinished(r) ==
  IF r.attempt < MaxAttempts
  THEN [r EXCEPT !.status = "pending", !.lease_until = NULL, !.next_attempt_at = now]
  ELSE [r EXCEPT !.status = "failed", !.lease_until = NULL,
                 !.failure_code = "attempts_exhausted"]

\* The four columns with CASE WHEN attempt < $1; without ELSE they become NULL.
RecoveredRow(r) ==
  IF r.attempt < MaxAttempts
  THEN [r EXCEPT !.status = "pending", !.lease_until = NULL, !.next_attempt_at = now,
                 !.finished_at = NULL, !.failure_code = NULL]
  ELSE [r EXCEPT !.status = "failed", !.lease_until = NULL, !.next_attempt_at = NULL,
                 !.finished_at = "set", !.failure_code = "attempts_exhausted"]

RecoverExpired(B, locked, n) ==
  /\ IsBatch(B, Expired \ locked, n)
  /\ updates' = [u \in Rows |-> IF u \in B THEN RecoveredRow(updates[u]) ELSE updates[u]]
  /\ UNCHANGED <<latest, now>>

-----------------------------------------------------------------------------
(***************************************************************************)
(* The database clock.  Past ClockBound it moves only while some row waits *)
(* for it, which keeps the state space finite and never strands a timer.   *)
(***************************************************************************)
Waiting(u) ==
  \/ Status(u) = "pending" /\ updates[u].next_attempt_at > now
  \/ Status(u) = "processing" /\ updates[u].lease_until > now

Tick ==
  /\ now < ClockBound \/ \E u \in Rows : Waiting(u)
  /\ now' = now + 1
  /\ UNCHANGED <<updates, latest>>

-----------------------------------------------------------------------------
(***************************************************************************)
(* The store used by any number of callers, who may hold any attempt       *)
(* number, stale ones included.  The one thing asked of a caller is what   *)
(* handleProviderFailure ensures: a retry is requested only for an attempt *)
(* below the limit.                                                        *)
(***************************************************************************)
StoreInit ==
  /\ updates = [u \in {} |-> NULL]
  /\ latest = [p \in {} |-> NULL]
  /\ now = 0

StoreNext ==
  \/ \E s \in Updates, p \in Pairs, k \in Keys \cup {NULL}, t \in 0..now :
       Insert(s, p, k, t)
  \/ \E u \in Updates, locked \in SUBSET Updates : ClaimNext(u, locked)
  \/ \E u \in Updates, a \in 1..MaxAttempts, p \in Pairs, q \in Quote :
       Complete(u, a, p, q)
  \/ \E u \in Updates, a \in 1..(MaxAttempts - 1), d \in RetryDelays : Retry(u, a, d)
  \/ \E u \in Updates, a \in 1..MaxAttempts, c \in FailureCodes : Fail(u, a, c)
  \/ \E B \in SUBSET Updates, locked \in SUBSET Updates, n \in 1..RecoveryBatch :
       RecoverExpired(B, locked, n)
  \/ Tick

StoreSpec == StoreInit /\ [][StoreNext]_storeVars

-----------------------------------------------------------------------------
(***************************************************************************)
(* What the tables promise.                                                *)
(***************************************************************************)

\* Every row of the two tables has the columns' types.
StoreTypeOK ==
  /\ Rows \subseteq Updates
  /\ updates \in [Rows -> UpdateRow]
  /\ DOMAIN latest \subseteq Pairs
  /\ latest \in [DOMAIN latest -> LatestRow]
  /\ now \in Nat

\* The CHECK constraint update_state_shape, column by column.  PostgreSQL would
\* refuse a statement that violates it, and the row would stay as it is for ever.
UpdateStateShape(r) ==
  /\ r.next_attempt_at # NULL <=> r.status = "pending"
  /\ r.lease_until # NULL <=> r.status = "processing"
  /\ r.finished_at # NULL <=> r.status \in TerminalStatus
  /\ r.rate # NULL <=> r.status = "completed"
  /\ r.provider # NULL <=> r.status = "completed"
  /\ r.source_date # NULL <=> r.status = "completed"
  /\ r.failure_code # NULL <=> r.status = "failed"
  /\ r.status # "pending" => r.attempt > 0

\* No sequence of claims, retries, recoveries and completions leads to a row
\* that update_state_shape refuses: no operation leaves a column set that the
\* next status does not allow, or unset one that it asks for.
StateShape == \A u \in Rows : UpdateStateShape(updates[u])

NewestFor(p) ==
  /\ p \in DOMAIN latest <=> Completed(p) # {}
  /\ p \in DOMAIN latest =>
       /\ latest[p].request_seq \in Completed(p)
       /\ latest[p].quote = QuoteOf(updates[latest[p].request_seq])
       /\ \A u \in Completed(p) : ~Supersedes(u, QuoteOf(updates[u]), latest[p])

\* latest_quotes holds, for each pair, the completed update with the greatest
\* (source_date, request_seq), however late and in whatever order the updates
\* of the pair were completed; and nothing for a pair without one.
LatestIsNewest == \A p \in Pairs : NewestFor(p)

\* The queue never outgrows MAX_ACTIVE, although the limit is read only on
\* admission: retries and recoveries put back what they took.
ActiveWithinLimit == Cardinality(Active) <= MaxActive

\* A job is claimed at most MAX_ATTEMPTS times: one that waits for a claim has
\* an attempt left, although ClaimNext itself does not look at the limit.
AttemptsBounded ==
  \A u \in Rows :
    LET r == updates[u] IN
    /\ r.attempt <= MaxAttempts
    /\ r.status = "pending" => r.attempt < MaxAttempts

\* A row never disappears and never changes its pair or key, the attempt never
\* goes back, and a finished row is never written again: what a client was
\* told of a terminal update stays true, whichever late owner still writes.
RowsEvolve ==
  [][\A u \in Rows :
       /\ u \in Rows'
       /\ updates'[u].pair = updates[u].pair
       /\ updates'[u].idempotency_key = updates[u].idempotency_key
       /\ updates'[u].attempt >= updates[u].attempt
       /\ Status(u) \in TerminalStatus => updates'[u] = updates[u]]_storeVars
===============================================================================

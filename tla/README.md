# fx-quotes in TLA+

A verification project for the fx-quotes service: TLA+ modules translated from
its Go and SQL sources, TLC configurations that check them on small instances,
and theorems, which TLAPS checks for every value of the constants, about the store
and its transactions, the replicas and the HTTP API that use it, the provider call, the
retry policy, the text of a rate, the migrations, the settings and the lifecycle of a
process.

## 1. The system

Clients ask for a currency pair to be refreshed (`POST /v1/quote-updates`). The
request becomes a row of `quote_updates`, worker goroutines fetch the rate from
the provider in the background, and `latest_quotes` keeps the newest rate of each
pair. Any number of replicas may run on one PostgreSQL database.

| Part | State it keeps | Operations | What is hard |
|---|---|---|---|
| Store (`internal/adapter/postgres`) | tables `quote_updates`, `latest_quotes`; `recoveryBatchSize` and `admissionGate` in memory | `CreateOrGet`, `ClaimNext`, `Complete`, `Retry`, `Fail`, `RecoverExpired`, two reads | concurrent replicas, row locks skipped, commits whose reply is lost, stale owners, results out of order |
| Service (`internal/usecase/quote`) | none | `CreateUpdate`, `ProcessNextUpdate`, `RecoverExpired`, queries | decides on the attempt number it read at the claim; an answer may come after the lease |
| RetryPolicy | none | `Delay` | doubling near the maximum, jitter within bounds |
| Worker pool (`internal/adapter/worker`) | the wakeup channel, goroutines | `Notify`, `Run`, `work`, `recoverExpiredUpdates`, `pause` | tokens dropped when the channel is full, timers, errors that must pause, first recovery before any claim |
| HTTP API (`internal/adapter/httpapi`) | none | `create`, `getUpdate`, `getLatest`, `ready` | crash or timeout between commit, notification and answer; replays |
| Frankfurter provider | none | `FetchRate` | classification of failures, cancellation |
| Lifecycle (`internal/app`) | readiness flag, contexts, the SQL pool | `Build`, `Run`, `serve` | stopping order, deadlines, everyone waiting for everyone |
| Migrations | `schema_migrations` | `runMigrations`, `applyMigration` | replicas that start together |
| Configuration, entities | none | parsing and validation | boundaries |

Interactions: the handler calls the service, which calls the store; after the
commit of a new row it drops a token into the wakeup channel of its own replica.
Workers call the store and the provider in turns, holding no database lock during
the provider call; the pair (id, attempt) is their only proof of ownership. The
recovery loop of every replica takes back jobs whose lease ran out. Replicas
share nothing but the database. `serve` stops HTTP, then the workers, then the
SQL pool.

What makes the parts correct:

* Store: rows keep a legal shape; a key names one row; the queue stays within
  `MAX_ACTIVE`; a job is claimed at most `MAX_ATTEMPTS` times; a finished row is
  never written again; `latest_quotes` is the maximum of what was completed.
* Workers and service: one owner per attempt, over all replicas and failures; an
  outcome belongs to the attempt that is recorded; a running lease is respected;
  every accepted job finishes; a notified job does not wait for a timer.
* Store, below its operations: each transaction takes effect as a whole, as if in
  one moment; admissions never keep the workers from the database.
* API: requests with the same key get the same update; every answer is a documented
  one and tells the truth about what was stored; what a client has read is not
  taken back.
* Provider: a job fails for good only because of an answer that no retry would
  better; a quote comes only from a whole answer; a rate loses no digit.
* Migrations: each file once, in order, by whichever replica.
* Settings: what is accepted keeps the promises the timeouts make to each other.
* Lifecycle: requests outlive nothing they need; the process ends.

`PROJECT.json` lists the hazards behind these properties at their source lines.

## 2. The modules

| Module | Models | Composition |
|---|---|---|
| `QuoteStore` | the two tables and the store port, one atomic action per operation | abstract contract, used by the next three |
| `QuoteService` | replicas: workers, recovery loop, wakeup channel, POST handler, crashes, lost replies | EXTENDS `QuoteStore`, its actions are conjuncts; `StoreSpec` is checked as a property of it |
| `PgStore` | the store's transactions, statement by statement, on PostgreSQL | INSTANCE `QuoteStore` WITH the committed tables; `StoreSpec` of that instance is checked as a property (`ImplementsQuoteStore`) |
| `HttpApi` | routing, validation, calls, answers and middleware, for one client among others | EXTENDS `QuoteStore`; everybody else takes `StoreNext` steps |
| `Frankfurter` | one provider call and the decision on its answer | independent; `Answer` of `QuoteService` is its abstraction |
| `RetryPolicy` | the delay before a retry | independent; `RetryDelays` of `QuoteStore` is its abstraction |
| `Rate` | the text of a rate on its way to the database and back | independent |
| `Migrate` | replicas that apply migrations at start-up | independent |
| `Config` | the bounded settings and the races they decide | independent |
| `Lifecycle` | one process from `Application.Run` to its exit | independent |
| `QuoteStoreProofs`, `RateProofs`, `LifecycleProofs` | theorems | each EXTENDS its module and `TLAPS` |
| `StartupProofs` | theorems about `Config` and `Migrate` | EXTENDS both, which therefore share no name |
| `AttemptProofs` | theorems about `Frankfurter` and `RetryPolicy` | EXTENDS both |
| `QuoteServiceProofs`, `HttpApiProofs` | theorems | each EXTENDS its module and `QuoteStoreProofs`, whose lemmas hold of its store steps |
| `PgStoreProofs` | theorems | EXTENDS `PgStore`; INSTANCE `QuoteStoreProofs` WITH the committed tables |
| `MC...` | constants for TLC | each EXTENDS its module |

Definitions named "Mutant" in a comment are deliberately wrong variants of the
definition that follows them. They are used by no specification; each shows that
some property notices that mistake.

### QuoteStore

`updates` and `latest` are functions whose domains are the keys present, so a
table grows by extending the domain. A row is named by its `request_seq`; the
random UUID names the same row to clients and is left out. A row has the columns of the
table except `created_at`; of `finished_at` it keeps whether it is set, which is what
`update_state_shape` asks. `QuoteOf` is what `scanUpdate` makes of the columns rate,
provider and source date. `latest_quotes` is modelled without `updated_at`, which is
only shown to clients. Times are ticks, dates numbers, rates and providers opaque.
`Insert` has the UNIQUE constraint of the keys (`IsUniqueKey`) beside the lookup: a
second row with a key is an error of the statement, never a row. `now` is the database
clock. Past `ClockBound` it moves only while a row
waits for a lease or a retry to come due, which keeps runs finite and strands no
timer.

`Insert`, `ClaimNext`, `Complete`, `Retry`, `Fail` and `RecoverExpired` take the
WHERE clause of the statement as guard. The `ORDER BY ... LIMIT ... SKIP LOCKED`
of `ClaimNext` and `RecoverExpired` is kept: a parameter `locked` is the set of
rows other sessions hold. The identity column may skip values (`IsNextSeq`),
because a rolled-back insert leaves a gap. `StoreNext` lets callers use any
attempt number, stale ones included; the one thing it asks of them is what
`handleProviderFailure` ensures, that `Retry` is called below the limit.

### QuoteService

| Variable | Code |
|---|---|
| `pc`, `job` | a goroutine in `Pool.work`: claiming, waiting for work (`poll`), pausing after an error (`delay`), in `FetchRate` (`fetch`), in `Complete`/`Retry`/`Fail` (`settle`) and the command it sends |
| `recovery`, `batch` | the recovery goroutine; `Store.recoveryBatchSize`, halved after a timeout |
| `wakeup` | tokens in `Pool.wakeup`, at most the number of workers |
| `request` | a POST: not sent, in `CreateOrGet`, committed but not notified, answered |
| `orphans` | commands whose caller gave up: the 1 s timeout, a lost connection, a crash. The server may execute one at any later time, or never |
| `faults` | faults so far, bounded by `MaxFaults` |
| `answers` | history: the provider's final answers by attempt, read only by a property |

A store call whose reply arrives is one step. A call without a reply is an
`...Error` step that leaves the command in `orphans`; `OrphanApplied` is its late
execution. `Crash` also stands for the cancelled context of a shutdown: in both
cases claimed attempts are left alone, in-flight commands become orphans, tokens
and the learned batch size are lost. The provider is a nondeterministic answer
(`Answer`): a quote, a retryable failure (temporary or throttled) or a permanent
one, after any time. Pauses may end at any time, so every relation between the
configured intervals is covered. Row locks seen by a claim are limited to as many
rows as other claims are under way; a recovery may find any rows locked.

### Lifecycle

`main` follows `Application.Run` and `serve`, `runner` and `goroutine` follow
`Pool.Run` and what it starts, `request` the HTTP requests, `sqlPool` the
connection pool, whose `Close` waits for connections in use. A signal or a failing
listener can come at any moment, also during the first recovery. `http.Server`
and `pgxpool` are modelled as the code uses them. While `Shutdown` waits, a request may
still come over a connection that was accepted before.

### PgStore

A table maps a key to its versions: the committed row and, while a transaction has
written it, the uncommitted row with its writer, who then holds the row's lock.
`Committed` is what a snapshot shows, and what `QuoteStore` calls its tables: the
refinement mapping is `updates <- Committed(heap), latest <- Committed(quotes)`.

`CreateOrGet` goes through the gate of its replica (`EnterGate`), takes a
connection (`BeginAdmission`), waits for the advisory lock of all replicas
(`AdvisoryLock`), takes a new snapshot for the statement with the CTEs
(`StartInsert`), executes it (`ExecuteInsert`), commits or rolls back, and returns
the gate (`LeaveGate`). The snapshot of the locking statement is kept in the state,
so that the comment in the code about stale snapshots is a question the model can
answer. `Complete` is an UPDATE that waits for its row and looks at it again
(`ExecuteUpdate`), an upsert that waits for the pair's row (`ExecuteUpsert`), and a
commit. `Retry` and `Fail` are single autocommitted statements that hold their
connection while they wait for the row (`BeginSettling`, `SettleInOneStatement`).
`ClaimNext` and `RecoverExpired` skip locked rows and are one step.

The unique index of the keys is no part of a snapshot: it knows the rows of open
transactions (`KeyHolders`). An INSERT waits for a transaction that holds its key and is
refused if the key is still there afterwards. `UniqueNeverRefuses` says that this
never happens: the advisory lock and the snapshot taken after it let the lookup see
every key the index knows.

`GiveUp` ends the context of a call at any of these places. The client returns
connection and gate at once; the server keeps the transaction, may still execute
the statement or the COMMIT it was sent, and at some time notices (`Rollback`).

The identity column skips no value here except by such a rollback. Reads
(`GetUpdate`, `GetLatest`, the readiness ping) take a connection for one statement
and wait for no lock; they are left out.

### HttpApi

One client sends requests one after another (`Receive` ends one); all the others,
the workers and the clock are `Others`, any step of `QuoteStore` between any two
steps of the handler. What is wrong with a request is the set of checks it would
fail (`defects`), so that the order of the checks matters and their texts do not:
the decoding of JSON, media types, UUIDs and header values is abstracted to
"passes" or "fails".

`resp.status` is 0 until the header is out, as in `responseWriter`. `Panic` may
strike in the call, in rendering or in writing, before or after the row was
committed; `Recover` answers 500 only if no header has gone out. `StoreFails`
covers every storage error and the request's deadline: the admission may have been
committed all the same. `told` and `seen` are what the client remembers.

### Frankfurter

`FetchRate` has one step per call or check that an outside event could come
between; `Cancel` ends the caller's context and `Timeout` fires the request's timer
at any of them. The response is any status, any `Retry-After` (absent, text,
number, date) and a body with any set of defects; reading it ends complete, too
long, truncated, broken or aborted. `SettleBy` and `Decide` are the part of the
service that turns the answer into `Complete`, `Retry`, `Fail` or nothing.
`ProviderError.Code` is left out: the provider never sets it.

### RetryPolicy, Rate

`RetryPolicy` starts with every policy, attempt and hint of a fixed-width signed
integer and takes one step per turn of the loop; products wrap around as Go's do.
`exact` is the growth without a limit, kept to compare with.

`Rate` parses every text over a small alphabet, writes it to the `NUMERIC` column
(which rounds what does not fit), reads it back as `rate::text` and parses it
again. The space stands for every white space that `strings.TrimSpace` removes.
Strings are sequences of characters here, since the property is about them,
and numbers are what their digits say (`Numeral`, `Spell`). `Readings` is the other
side of `AcceptsExactValues`: the ways to read a text as digits, a point and digits,
stated without `ParseRate`.

### Migrate

A step is a statement of `applyMigration`. Files are numbered in the order of their
names; a replica carries the files up to `Last[r]`, so old and new versions can
start together. Before the commit the file's SQL and its ledger row are the
transaction's own (`Effects` makes both visible). `Crash` is a failing statement,
which ends the process, or its death; `CommitUnanswered` a commit whose answer is
lost. That a server may notice a dead client late only delays the others.

### Config

`LoadFromLookup` reads each bounded setting from any environment, refuses or
starts. Then an attempt and a request run against the clock: the provider's timer
fires after `ProviderTimeout`, the request's context ends its work after
`RequestTimeout`, the server's read deadline ends the reading of a body after
`ReadTimeout` (in the handler, `ReadBody`, and after it, `DrainBody`), and what is
written at or after `WriteTimeout` does not reach the client. A timer that is due
fires before time goes on.

## 3. Runs

| Run | Question | Instance |
|---|---|---|
| `store` | do the tables stay consistent under every sequence of store calls? | 3 rows, 2 pairs, 1 key, 2 dates, 2 active, 2 attempts |
| `service_jobs` | is ownership by attempt exclusive, is every outcome justified, is a running lease respected, does the service use the store as `StoreSpec` allows, and does every accepted job finish? | 1 job, 2 replicas of 1 worker, 2 attempts, 2 rates, 1 fault, fair |
| `service_admission` | do requests with the same key agree, also when answers are lost, processes die and abandoned inserts commit late? can a notification be lost? | 2 requests, 2 pairs, 1 key, 1 replica that restarts, channel of 1, 2 faults |
| `pg_admission` | are admissions of two replicas serialised, can one run into the unique index, and can they keep the workers from the database? | 3 admissions that may stop for ever, on 2 replicas, 1 worker, 1 key, 1 active, pool of 2, fair worker |
| `pg_completion` | is a completion all or nothing, does the latest quote only move forward, can calls block each other, are gate and locks always returned? | 2 workers, 2 admissions, 2 updates of 1 pair, 2 attempts, pool of 2, 1 client gives up, fair |
| `http` | are answers documented, do they match what was stored, and can a client see something and later something older? | 2 rows, 2 pairs, 1 key, 2 dates, up to 2 defects, storage errors, 1 panic per request |
| `provider` | what becomes of an attempt, whatever the provider does and whenever the process is stopped? | 7 statuses, 7 header values around the limits, every set of defects, fair |
| `retry_policy` | is the delay as documented for every input? | integers of 5 bits |
| `rate` | are rates exact and canonical? | texts of up to 6 of the characters `0 1 9 . -` and space, precision 2 |
| `migrate` | once, in order, and does everybody start? | an old replica (1 file), 2 new ones (3 files), 3 failures, fair |
| `config` | do accepted settings keep the timeouts' promises? | all environments with values 0..6, unset or invalid |
| `lifecycle` | do the parts stop in order, and does the process end? | worker, recovery loop, 2 requests, fair |

All of them pass, and every property has a mutant of the code that breaks it.

Why these bounds are enough to be interesting: two attempts give a last and a
non-last one; two replicas give a stale and a present owner; one fault loses a
reply, kills a process or delays a command, two let a retried request fail again;
one or two active rows make the queue full; two jobs overflow a channel for one
token; two dates and three rows give every order of results. What takes several workers or jobs at once, a claim that
skips a row locked by another or a recovery with a halved batch, is hardly
exercised by the runs of the service, which have one worker or one job each; there the
theorems `NoLostWakeupHolds`, `AttemptHasOneOwnerHolds` and `ImplementsStore` carry the
safety for any number, and nothing is claimed of liveness with many jobs. Three
admissions are needed for the starvation of a worker: one makes its job, one holds the advisory
lock, one waits for it with the last connection. `LeaseDuration` and `RetryDelays` are
one tick, since only "not yet" and "due" differ. A pool of two connections is filled by the calls
of one replica when there is no gate; one admission is on the other replica, so that
the advisory lock can also be held from outside. Two defects make one
check hide another. Integers of five bits have every position of the maximum
between one and the overflow; a precision of two digits within six characters
leaves room for a number that is one digit too long on either side, a sign, a
second point or spaces. One file more than the old version's and then another
let replicas overlap at different files. The lifecycle has no bounds except its two
goroutines and two requests. Symmetry exchanges pairs and requests, and is used in
safety runs only. Deadlock
checking is off where the system may rest: a store that nobody calls, calls that
are all done, an algorithm that has returned.

### What the properties say

* `StateShape`: `update_state_shape` refuses no statement, with all the columns it
  looks at: schedule, lease, `finished_at`, rate, provider, source date, failure code.
* `LatestIsNewest`: the entry of a pair is its completed update with the greatest
  `(source_date, request_seq)`, and exists iff there is one.
* `ActiveWithinLimit`, `AttemptsBounded`: see their names; the second holds although
  `ClaimNext` does not look at the limit.
* `RowsEvolve`: rows never disappear, change identity, lose attempts, or change
  once finished.
* `AttemptHasOneOwner`: at most one worker or abandoned command holds a given
  `(id, attempt)`.
* `OutcomeJustified`: what a finished row says was answered to its last attempt.
* `LeaseProtectsOwner`: until the lease ends only the owner changes its row. After
  it, the owner may lose the job; an expired lease alone does not forbid its write.
* `IdempotentAnswers`: one update per key in all answers, one creator, conflicts
  only for another pair.
* `NoLostWakeup`: without faults, a notified job that nobody claimed implies that
  somebody is awake (`Awake`): a token waits at the replica that accepted the job,
  one of its workers has not started, or a worker, of whatever replica, is about to
  claim. The last is not always the replica's own: a claim that found the
  job's row locked by another replica's claim polls, and it is that other
  claim which goes on to look for more work. This is more than `Notify` promises
  (its comment says that polling makes up for lost tokens).
* `ImplementsQuoteStore`: every step of the transactions maps to one atomic
  operation of `QuoteStore` on the committed tables, or to none. With it, what is
  proved of `QuoteStore` is about the statements too.
* `DecisionsStand`: what an open transaction has decided (the key is new, there is
  room, the row is owned, the quote is newer) holds until it ends.
* `UniqueNeverRefuses`: an admission that has not found its key in its snapshot does not
  meet it in the unique index either, so that no repeated key is answered by a
  storage error.
* `CompletionsEnd`: a completion, a retry and a failure end although an admission holds the advisory lock
  for ever. `AdmissionsEnd`: an admission ends.
* `DocumentedAnswers`: status, code and headers are an entry of `api/openapi.yaml`
  for the route, also after a panic. `EffectsMatchAnswer`: a refused request leaves
  nothing behind, a 202 shows the row it made, a 200 a row of the same key and pair.
* `InternalErrorOnlyFromPanic`: `mapUpdate` can render every row the store can hold.
* `ReadsNeverGoBack`: a finished update stays as it was shown; after a quote was
  shown by either resource, the latest one is there and not older.
* `PermanentOnlyByAnswer`, `QuoteOnlyFromWholeAnswer`, `HintIsTheProviders`,
  `AttemptEnds`: failures are for good only by a whole answer, quotes are whole, a
  retry asks for exactly the provider's delay or a minute, also beyond 64 bits, a
  hanging provider ends the attempt.
* `BackoffIsCappedGrowth`, `DelayAsDocumented`: no overflow, and the interval of the
  comment on `RetryPolicy`.
* `AcceptsExactValues`, `CanonicalText`: exactly the decimals that fit, with their
  value, in one spelling each, before and after the database.
* `AppliedExactlyOnce`, `AppliedInOrder`, `ServesMigrated`, `AllStart`: see Migrate.
* `LeaseCoversAttempt`: with accepted settings, an attempt that loses less than the
  commit margin outside the provider call settles within its lease. What it may
  lose more (a claim or a write may take up to a second each) is why the fencing
  by attempt is needed.
* `LongerWriteTimeoutSuffices`: the advice of the repository's README is right, but for
  a client that is still sending its body at the write deadline.
* `EveryUpdateFinishes`, `SignalEndsProcess`: liveness.
* `ShutdownInOrder`: readiness, connections, requests, workers, SQL pool, each gone
  before the next (`UnreadyBeforeClosed`, `RequestsBeforeWorkers`,
  `WorkersBeforePool`).

Of the type invariants, `StoreTypeOK` is checked by a run. It is proved, and so is
`TypeOK` of `QuoteService`, `PgStore`, `HttpApi`, `Frankfurter`, `Migrate` and
`Lifecycle`; `DelayTypeOK` of `RetryPolicy`, `Typed` of `StartupProofs` (for `Config`)
and `RateInv` of `RateProofs`, which types what `Rate` accepted, are parts of inductive
invariants.

`validate` does not compare the HTTP write timeout with `REQUEST_TIMEOUT`, although
`src/README.md` (lines 194 and 195) says that the former has to exceed the latter,
so that the service can still return the error. The model starts with either
relation; `LongerWriteTimeoutSuffices` says what keeping the advice gives. It is not
quite what the sentence promises. The handler reads the body (`io.ReadAll` in `create`),
and the server reads what a handler has left of it; the deadline of
`WithRequestTimeout` ends neither, as the comment there says, only the read timeout
does, which is bounded on its own. With a read timeout of 1 m, a request timeout of 5 s and a
write timeout of 10 s, a client that takes 20 s for its body gets no answer. That
this is the only exception, and that it takes a read timeout at least as long as the
write timeout, is what is checked and proved. The defaults (read and write 10 s, request
5 s) keep the advice; a read timeout below the write timeout closes the gap.

### Fairness

`QuoteService`: weak fairness of goroutines, handlers, the clock and of an
unobstructed recovery, since Go schedules its goroutines, every store call ends
within a second and every provider call within its timeout. Strong fairness of an
unobstructed claim: a row lock is held for one statement, so a worker that
keeps claiming cannot find the row locked each time. Weak fairness of `Start` is an
assumption on the operator; `compose.yaml` sets no restart policy. Failing steps
and late commands have no fairness.

`PgStore`: weak fairness of the steps of a completion and of a Retry or Fail that was
sent (`WorkerFairSpec`), since the server
executes what it was sent, grants a free lock and notices a lost client; nothing
is assumed of admissions there. `AdmissionsEnd` states the same fairness of
admissions (`AdmissionFairness`) as its premise.

`Frankfurter`: weak fairness of the code, of the timer, and of `net/http` giving up a
request whose context has ended. None of the provider.

`Migrate`: weak fairness of each replica's next step, a restart included; as for
`QuoteService`, that somebody restarts a replica is an assumption.

`Lifecycle`: weak fairness of `serve`, the pool and of handlers whose context was
cancelled. Handlers that were not cancelled may hang; the shutdown deadline deals
with them.

## 4. Proofs

TLAPS checks these for all constants that satisfy the named assumptions of the
modules: any number of replicas, workers, requests, rows, attempts and failures.

| Module | Theorem | Statement |
|---|---|---|
| `QuoteStoreProofs` | `StoreTypeCorrect` | `StoreSpec => []StoreTypeOK` |
| | `StateShapeHolds` | `StoreSpec => []StateShape` |
| | `AttemptsBoundedHolds` | `StoreSpec => []AttemptsBounded` |
| | `RowsEvolveHolds` | `StoreSpec => RowsEvolve` |
| | `ActiveWithinLimitHolds` | `StoreSpec => []ActiveWithinLimit` |
| | `LatestIsNewestHolds` | `StoreSpec => []LatestIsNewest` |
| `QuoteServiceProofs` | `ServiceTypeCorrect` | `Spec => []TypeOK` |
| | `ImplementsStore` | `Spec => StoreSpec` |
| | `AttemptHasOneOwnerHolds` | `Spec => []AttemptHasOneOwner` |
| | `OutcomeJustifiedHolds` | `Spec => []OutcomeJustified` |
| | `LeaseProtectsOwnerHolds` | `Spec => LeaseProtectsOwner` |
| | `IdempotentAnswersHolds` | `Spec => []IdempotentAnswers` |
| | `NoLostWakeupHolds` | `Spec => []NoLostWakeup` |
| `PgStoreProofs` | `PgTypeCorrect` | `Spec => []TypeOK` |
| | `ImplementsQuoteStoreHolds` | `Spec => ImplementsQuoteStore` |
| | `DecisionsStandHolds` | `Spec => []DecisionsStand` |
| | `UniqueNeverRefusesHolds` | `Spec => []UniqueNeverRefuses` |
| `HttpApiProofs` | `ApiTypeCorrect` | `Spec => []TypeOK` |
| | `ApiUsesStore` | `Spec => StoreSpec` |
| | `DocumentedAnswersHolds` | `Spec => []DocumentedAnswers` |
| | `EffectsMatchAnswerHolds` | `Spec => []EffectsMatchAnswer` |
| | `InternalErrorOnlyFromPanicHolds` | `Spec => []InternalErrorOnlyFromPanic` |
| | `ReadsNeverGoBackHolds` | `Spec => ReadsNeverGoBack` |
| `AttemptProofs` | `FrankfurterTypeCorrect` | `Spec => []TypeOK` |
| | `PermanentOnlyByAnswerHolds` | `Spec => []PermanentOnlyByAnswer` |
| | `QuoteOnlyFromWholeAnswerHolds` | `Spec => []QuoteOnlyFromWholeAnswer` |
| | `HintIsTheProvidersHolds` | `Spec => []HintIsTheProviders` |
| | `BackoffCorrect` | `DelaySpec => []BackoffIsCappedGrowth` |
| | `DelayCorrect` | `DelaySpec => []DelayAsDocumented` |
| `StartupProofs` | `TypeCorrect` | `Spec => []TypeOK` |
| | `ExactlyOnce` | `Spec => []AppliedExactlyOnce` |
| | `InOrder` | `Spec => []AppliedInOrder` |
| | `Migrated` | `Spec => []ServesMigrated` |
| | `LeaseIsLongEnough` | `ConfigSpec => []LeaseCoversAttempt` |
| | `WriteTimeoutCondition` | `ConfigSpec => []LongerWriteTimeoutSuffices` |
| `RateProofs` | `AcceptsExactValuesHolds` | `Spec => []AcceptsExactValues` |
| | `CanonicalTextHolds` | `Spec => []CanonicalText` |
| `LifecycleProofs` | `LifecycleTypeCorrect` | `Spec => []TypeOK` |
| | `ShutdownInOrderHolds` | `Spec => []ShutdownInOrder` |

The three refinements, of the service, of the transactions and of the API, carry
the store's theorems over to each of them.

### The store

`RowOK` says of one row that it has its type, the shape the CHECK
asks for, and an attempt within the limit. These three need each other: a claim
keeps the attempt within the limit only because a pending row is below it, and a
completed row has a comparable date only because of its shape. One lemma
per operation shows that it turns a `RowOK` row into another. From them follows
`StepCases`: every step inserts a row, completes one, or is quiet (changes
unfinished rows in place, completes none, leaves `latest` alone). `RowsInv`, that
all rows are `RowOK` and `latest` is typed, is inductive; the other invariants
are proved relative to it, each by the three cases. For `LatestIsNewest` the case
of a completion uses that `(source_date, request_seq)` is a total order. For
`ActiveWithinLimit` the invariant is strengthened by the finiteness of the table.

### The service

The proof is in layers, each of which may use the ones before it.

* `ProcInv` is what the refinement of the store needs: the types, that each
  abandoned command asks for what the provider's answer allows (`CommandsInv`: it
  completes with an answered quote, retries below the limit, fails because of a
  permanent answer or the last attempt), that a request has an update once
  admitted (`RequestsInv`), and that no worker runs before its replica's first
  recovery (`StartInv`). With it every step is a `StoreNext` step or leaves the
  tables alone, and the store's invariants hold (`StoreInv`).
* `OwnersInv` says that the holders of an attempt, workers and abandoned commands
  alike, are unique, and that every held attempt was issued: the row's number has
  reached it. The second half makes the first inductive. A claim hands out
  a number above the row's, so nobody can hold it yet.
* `OutcomeJustified` needs `CommandsInv` and the uniqueness of the number: a row
  finishes by the attempt it records, and answers are only added.
* `LeaseProtectsOwner` is a step property: claims and recoveries take only what is
  due, and by `OwnersInv` no command but the owner's passes the fence.
* `AnswersInv` says that what a request was told of its update is what the row
  says, and that no two requests made the same update; the rest of
  `IdempotentAnswers` follows with the lemma `OneUpdatePerKeyHolds`: a key names at
  most one row.
* `NoLostWakeup` needs that an unclaimed job may be claimed at once (`FreshInv`), so
  that a worker that found nothing found rows locked or nothing to do, and that
  without faults nothing is in flight unattended (`NoFaultInv`). If a claim skipped
  a row, some other claim holds it, and that worker is awake.

An earlier form of `NoLostWakeup` asked for a worker of the accepting replica. The
attempt to prove it showed that it fails for two replicas, one of them with two
workers: one polls after the other replica's claim locked the row it looked
for. `Awake` names the right set of workers.

### The transactions

The invariant has one part for each thing a transaction relies on between two of
its statements.

* `LockInv`: from `AdvisoryLock` to its end an admission holds the advisory lock, so
  there is one such admission.
* `SnapInv`: the snapshot it then takes covers (`Covers`) the committed rows: every
  committed key is in it and every committed unfinished row is unfinished in it.
  Workers may finish rows meanwhile, which only makes room; no other admission can
  add one. This is the claim of the code's comment about stale snapshots.
* `InsertedInv`: the uncommitted row is the newest (`SeqInv`), its key is still new
  and there is still room. `CompletedInv`: an uncommitted completion is of a row in
  state `processing` with its worker's attempt. `LatestInv`: an uncommitted
  latest quote is the newer of the committed one and its worker's.

With them a commit is `Insert` or `Complete` of `QuoteStore` on the committed tables,
the single statements are the other operations, and every other step, losing the
client included, is a stutter: one lemma per action. `DecisionsStand` follows from
the same parts, and so does `UniqueNeverRefuses`: with `LockInv` no other transaction
holds a key while an admission is at its INSERT, and with `SnapInv` it sees the
committed ones (`IndexCovered`).

### The API

`MemoryInv` says that what the client remembers is true of the tables: a finished
update it was shown is the row's, and for the newest source date it has seen of a
pair some completed update of the pair has it or a later one. `RequestInv` says of the
request that what was asked passed the checks (`CallInv`), that what came back is
true, agrees with the memory and is the request's own (`ReturnedOK`), and that the
answer is a documented one that tells of what was made (`AnswerInv`). Between any
two steps everybody else may move the tables. One relation, `Stand`, says what they
cannot do to them: remove a row, change its identity or a finished row.
`RowsEvolve` gives it for every `StoreNext` step, and each part of the
invariant has one lemma that it survives `Stand`. That the latest quote never goes
back is `LatestIsNewest` together with `MemoryInv`.

### The provider and the delay

`FetchRate` loses no evidence: `ResultInv` says of each result what it rests on (a
permanent failure on an answer read as far as it is read, a rate on a whole and
well-formed one, a hint on the header of an answer that may be retried), `CommandInv`
says the same of each command, and `AbortInv` that only a context that ended aborts
a body. Which answer comes to rest on what is a lemma about `retryAfter`,
`responseFailure` and the checks after `ReadAll`.

The invariant of the delay relates the loop's backoff to the unbounded growth:
it is the smaller of that and the maximum. Doubling stays below the largest integer
because it happens only up to half of the maximum; this is where the width of the
integers, `MaxInt`, matters, and the theorems hold for every width, 64 bits included.

### The rate

The theorems hold for texts of every length, over every set of characters, and for
every precision, the code's 15 included; the run looks at six characters and a
precision of two. Three things had to be shown.

* What a string of digits stands for. `Numeral` is a recursive function, and its facts
  need an induction over the string. The library's induction theorems take an
  operator as a parameter, which the provers cannot instantiate; that `<` is
  well-founded on the naturals (`NatLessThanWellFounded`, `WFMin`) is a statement about
  sets. From it follow `LeastNumber` and `Induction`: a set of numbers with 0 and
  the successor of each of its elements has them all. `Iterates` names the function
  that a Horner scheme computes; there is one for every string and only one, so that
  `Numeral` may be reasoned about by its equations (`NumeralReads`). The number of
  a concatenation (`NumeralConcat`), its bound (`NumeralBound`), when it is zero
  (`NumeralZero`), and that `Spell` writes the digits `Numeral` has read (`SpellIs`)
  are proved this way.
* What the code does to a text. `PlainReads` and `ReadsPlain` say that `IsPlain` holds of
  the texts that read as digits, a point and digits, and of no others;
  `TrimLeftSplits` and `TrimRightSplits` what the trims leave; `CanonicalIs` that the text made of
  them is canonical (`IsCanonical`) and has the amount of the reading.
* What the column does. `NumericTextIs` says what PostgreSQL prints of a canonical text's
  amount, and `RoundTrip` that `ParseRate` turns it into the same text.

`RateInv` puts them together: a refused text has no reading but of zero, and an
accepted one is held as the canonical text of the amount that was sent. TLC checked
it on the instance of the run `rate` before it was proved.

### Migrations, settings, lifecycle

`AppliedExactlyOnce` alone is not inductive: that a replica about to
commit a file is the first to do so needs that it holds the lock (`LockInv`: who is
inside holds it, so there is one), that what it read under the lock is still so
(`ReadHolds`), and that a replica has passed only files of the ledger
(`Progress`, which with `ReadHolds` also gives the order).

The invariant of the settings says that those in use passed `validate`, that a
call has lasted at most `ProviderTimeout`, that a body is read until `ReadTimeout` at the
latest, and that the work goes on until `RequestTimeout` or, if the body took
longer, ends when it was read (`ServedBounded`). From it follows why a write came too late
(`CutExplained`); the rest is arithmetic.

The lifecycle's invariant has one part per stage of `serve`: who has closed the
listener is not ready (`UnreadyInv`), HTTP is left with no request in progress or
with their contexts cancelled (`HttpInv`), the workers' context ends on the way out
of `serve` and the SQL pool after they were joined (`StageInv`), and goroutines exist
only while `Pool.Run` does (`PoolInv`).

### Assumptions

Beyond the ranges of the constants, the theorems assume that every replica has a
worker (`ServiceAssumption`; `NewPool` refuses a concurrency below one), that
`MaxRetryAfter` is at most `MaxUint64` (a minute against 64 bits), and that `NULL` is none
of the values it stands beside. `PgStore` states the assumptions of `QuoteStore` about
the constants it hands on, and its proof discharges them for the instance. The
arms of `retryAfter` exclude each other, so that no order among them is assumed. TLC
evaluates every assumption in some run.

### Only model-checked

All liveness: `EveryUpdateFinishes`, `CompletionsEnd`, `AdmissionsEnd`, `AttemptEnds`,
`AllStart`, `SignalEndsProcess`. Fairness involves ENABLED, which the provers do not
support.

## 5. Not modelled, and what is left

Not modelled:

* logging, request identifiers, formatting of JSON and of times;
* the decoding of request texts (JSON tokens, media types, UUIDs, header values) below
  "passes" or "fails", and `ParsePair` and `ParseCurrency`, which compare with a
  fixed list: pure string handling without state, covered by the repository's table
  tests;
* the texts among the settings: addresses, URLs, the log level, and the composition
  of the database URL;
* `Build`'s assembly and its error paths, which close the pool and end the process;
* the OpenAPI file and the provider fixture used by tests.

Every safety property and action property that a run checks is also proved; liveness
stays with TLC.

----------------------------- MODULE QuoteService -----------------------------
(***************************************************************************)
(* The processes around the store: in every replica a worker pool          *)
(* (internal/adapter/worker) that runs Service.ProcessNextUpdate and       *)
(* Service.RecoverExpired, and the handler of POST /v1/quote-updates       *)
(* (internal/adapter/httpapi), all on the two tables of QuoteStore.        *)
(*                                                                         *)
(* A store call is one step here when its answer arrives.  When it does    *)
(* not (the 1 s operation timeout, a broken connection, a process that     *)
(* dies) the caller goes on without it while the command stays in          *)
(* `orphans', where the server may execute it at any later moment, or      *)
(* never: a timed out commit is ambiguous.                                 *)
(***************************************************************************)
EXTENDS QuoteStore

CONSTANTS
  Procs,          \* the replicas of the service
  Workers,        \* the worker goroutines of all replicas
  Host,           \* the replica a worker belongs to
  Requests,       \* the POST requests clients send
  MaxFaults       \* bound on failed store calls and process deaths

ASSUME ServiceAssumption ==
  /\ Host \in [Workers -> Procs]
  /\ \A p \in Procs : \E w \in Workers : Host[w] = p
  /\ IsFiniteSet(Workers)
  /\ MaxFaults \in Nat
  /\ NULL \notin {"created", "replayed", "conflict", "queue_full", "unavailable"}

VARIABLES
  pc,             \* where each worker is in Pool.work
  job,            \* its claimed attempt ("fetch") or settling command ("settle")
  recovery,       \* the recovery goroutine of each replica
  batch,          \* Store.recoveryBatchSize of each replica
  wakeup,         \* tokens in each replica's wakeup channel
  request,        \* the POST requests and their answers
  orphans,        \* store commands given up by their caller
  faults,         \* faults so far
  answers         \* history: the final answers of the provider, by attempt

procVars == <<pc, job, recovery, batch, wakeup>>
vars == <<updates, latest, now, pc, job, recovery, batch, wakeup, request,
          orphans, faults, answers>>

-----------------------------------------------------------------------------
WorkersOf(p) == {w \in Workers : Host[w] = p}
Concurrency(p) == Cardinality(WorkersOf(p))
Up(p) == recovery[p] # "off"

\* An answer of FetchRate.  "retryable" stands for FailureTemporary and
\* FailureThrottled, which differ only in the delay they ask for.
FinalAnswer ==
  [kind : {"quote"}, quote : Quote] \cup [kind : {"permanent"}, quote : {NULL}]
Answer == FinalAnswer \cup [kind : {"retryable"}, quote : {NULL}]

Task == [op : {"task"}, id : Updates, attempt : Nat, pair : Pairs]

SettleCommand ==
  [op : {"complete"}, id : Updates, attempt : Nat, pair : Pairs, quote : Quote]
  \cup [op : {"retry"}, id : Updates, attempt : Nat]
  \cup [op : {"fail"}, id : Updates, attempt : Nat, code : FailureCodes]

Command ==
  SettleCommand
  \cup [op : {"claim"}]
  \cup [op : {"create"}, pair : Pairs, key : Keys \cup {NULL}]
  \cup [op : {"recover"}, n : 1..RecoveryBatch]

Request ==
  [ pc   : {"new", "admit", "notify", "done"},
    proc : Procs \cup {NULL}, pair : Pairs \cup {NULL}, key : Keys \cup {NULL},
    id   : Updates \cup {NULL},
    code : {NULL, "created", "replayed", "conflict", "queue_full", "unavailable"} ]

\* Commands in flight that nobody waits for any more; no is the fault that
\* orphaned them, src who sent them.
Orphan == [no : 0..MaxFaults, src : Workers \cup Procs \cup Requests, cmd : Command]

Fault == faults < MaxFaults /\ faults' = faults + 1

Abandon(src, c) == orphans' = orphans \cup {[no |-> faults, src |-> src, cmd |-> c]}

\* n calls of Pool.Notify: the channel has room for Concurrency tokens, a full
\* one drops them.
Notify(p, n) ==
  wakeup' = [wakeup EXCEPT ![p] =
    IF @ + n < Concurrency(p) THEN @ + n ELSE Concurrency(p)]

-----------------------------------------------------------------------------
(***************************************************************************)
(* Processes come and go.                                                  *)
(***************************************************************************)

\* app.Run: the pool is built and Pool.Run begins with a recovery.
Start(p) ==
  /\ recovery[p] = "off"
  /\ recovery' = [recovery EXCEPT ![p] = "start"]
  /\ batch' = [batch EXCEPT ![p] = RecoveryBatch]
  /\ UNCHANGED <<storeVars, pc, job, wakeup, request, orphans, faults, answers>>

\* What replica p has in flight, with its sender.
InFlight(p) ==
  {<<w, [op |-> "claim"]>> : w \in {x \in WorkersOf(p) : pc[x] = "claim"}}
  \cup {<<w, job[w]>> : w \in {x \in WorkersOf(p) : pc[x] = "settle"}}
  \cup {<<p, [op |-> "recover", n |-> batch[p]]>>}
  \cup {<<r, [op |-> "create", pair |-> request[r].pair, key |-> request[r].key]>> :
          r \in {x \in Requests : request[x].pc = "admit" /\ request[x].proc = p}}

\* The process dies, or its context is cancelled: claimed attempts are left
\* as they are (ProcessNextUpdate returns without a write), tokens and the
\* learned batch size are gone, clients get no answer.
Crash(p) ==
  /\ Up(p)
  /\ Fault
  /\ recovery' = [recovery EXCEPT ![p] = "off"]
  /\ pc' = [w \in Workers |-> IF Host[w] = p THEN "off" ELSE pc[w]]
  /\ job' = [w \in Workers |-> IF Host[w] = p THEN NULL ELSE job[w]]
  /\ wakeup' = [wakeup EXCEPT ![p] = 0]
  /\ request' = [r \in Requests |->
                   IF request[r].proc = p /\ request[r].pc # "done"
                   THEN [request[r] EXCEPT !.pc = "done", !.code = NULL]
                   ELSE request[r]]
  /\ orphans' = orphans \cup {[no |-> faults, src |-> c[1], cmd |-> c[2]] : c \in InFlight(p)}
  /\ UNCHANGED <<storeVars, batch, answers>>

-----------------------------------------------------------------------------
(***************************************************************************)
(* A worker: Pool.work around Service.ProcessNextUpdate.                   *)
(***************************************************************************)
TaskOf(u) == [op |-> "task", id |-> u, attempt |-> updates[u].attempt,
              pair |-> updates[u].pair]

\* Row locks on waiting jobs are held only by other claims, one row each.
LockedByClaims(w) ==
  {S \in SUBSET Ready :
     Cardinality(S) <= Cardinality({v \in Workers \ {w} : pc[v] = "claim"})
                       + Cardinality({o \in orphans : o.cmd.op = "claim"})}

Claim(w) ==
  /\ pc[w] = "claim"
  /\ \E locked \in LockedByClaims(w), u \in Ready :
       /\ ClaimNext(u, locked)
       /\ job' = [job EXCEPT ![w] = TaskOf(u)']
  /\ pc' = [pc EXCEPT ![w] = "fetch"]
  /\ UNCHANGED <<recovery, batch, wakeup, request, orphans, faults, answers>>

\* ErrNoWork.
ClaimNothing(w) ==
  /\ pc[w] = "claim"
  /\ Ready \in LockedByClaims(w)
  /\ pc' = [pc EXCEPT ![w] = "poll"]
  /\ UNCHANGED <<storeVars, job, recovery, batch, wakeup, request, orphans, faults, answers>>

ClaimError(w) ==
  /\ pc[w] = "claim"
  /\ Fault
  /\ Abandon(w, [op |-> "claim"])
  /\ pc' = [pc EXCEPT ![w] = "delay"]
  /\ UNCHANGED <<storeVars, job, recovery, batch, wakeup, request, answers>>

\* Mutant: the last attempt is retried like any other.
SettleByOffByOne(t, ans) ==
  CASE ans.kind = "quote" ->
         [op |-> "complete", id |-> t.id, attempt |-> t.attempt, pair |-> t.pair,
          quote |-> ans.quote]
    [] ans.kind = "retryable" /\ t.attempt <= MaxAttempts ->
         [op |-> "retry", id |-> t.id, attempt |-> t.attempt]
    [] OTHER ->
         [op |-> "fail", id |-> t.id, attempt |-> t.attempt,
          code |-> IF ans.kind = "retryable" THEN "attempts_exhausted"
                   ELSE "provider_permanent"]

\* complete and handleProviderFailure: the command an answer leads to.  The
\* adapter never sets ProviderError.Code.
SettleBy(t, ans) ==
  CASE ans.kind = "quote" ->
         [op |-> "complete", id |-> t.id, attempt |-> t.attempt, pair |-> t.pair,
          quote |-> ans.quote]
    [] ans.kind = "retryable" /\ t.attempt < MaxAttempts ->
         [op |-> "retry", id |-> t.id, attempt |-> t.attempt]
    [] OTHER ->
         [op |-> "fail", id |-> t.id, attempt |-> t.attempt,
          code |-> IF ans.kind = "retryable" THEN "attempts_exhausted"
                   ELSE "provider_permanent"]

\* FetchRate answers, however long after the claim.
Fetch(w) ==
  /\ pc[w] = "fetch"
  /\ \E ans \in Answer :
       /\ job' = [job EXCEPT ![w] = SettleBy(@, ans)]
       /\ answers' = answers \cup
            {[id |-> job[w].id, attempt |-> job[w].attempt, answer |-> x] :
               x \in {ans} \cap FinalAnswer}
  /\ pc' = [pc EXCEPT ![w] = "settle"]
  /\ UNCHANGED <<storeVars, recovery, batch, wakeup, request, orphans, faults>>

\* The store executes a settling command that still owns its row.
Settled(c) ==
  \/ c.op = "complete" /\ Complete(c.id, c.attempt, c.pair, c.quote)
  \/ c.op = "retry" /\ \E d \in RetryDelays : Retry(c.id, c.attempt, d)
  \/ c.op = "fail" /\ Fail(c.id, c.attempt, c.code)

\* Mutant: after a job the worker waits for the next token.
SettleThenPoll(w) ==
  /\ pc[w] = "settle"
  /\ \/ Settled(job[w])
     \/ ~Owns(job[w].id, job[w].attempt) /\ UNCHANGED storeVars
  /\ pc' = [pc EXCEPT ![w] = "poll"]
  /\ job' = [job EXCEPT ![w] = NULL]
  /\ UNCHANGED <<recovery, batch, wakeup, request, orphans, faults, answers>>

\* Either way the worker goes straight on to the next claim; ErrLostOwnership
\* leaves the row alone.
Settle(w) ==
  /\ pc[w] = "settle"
  /\ \/ Settled(job[w])
     \/ ~Owns(job[w].id, job[w].attempt) /\ UNCHANGED storeVars
  /\ pc' = [pc EXCEPT ![w] = "claim"]
  /\ job' = [job EXCEPT ![w] = NULL]
  /\ UNCHANGED <<recovery, batch, wakeup, request, orphans, faults, answers>>

SettleError(w) ==
  /\ pc[w] = "settle"
  /\ Fault
  /\ Abandon(w, job[w])
  /\ pc' = [pc EXCEPT ![w] = "delay"]
  /\ job' = [job EXCEPT ![w] = NULL]
  /\ UNCHANGED <<storeVars, recovery, batch, wakeup, request, answers>>

\* Mutant: an idle worker waits for a notification and has no timer.
PauseEndWithoutPoll(w) ==
  /\ \/ pc[w] = "delay" /\ UNCHANGED wakeup
     \/ /\ pc[w] = "poll" /\ wakeup[Host[w]] > 0
        /\ wakeup' = [wakeup EXCEPT ![Host[w]] = @ - 1]
  /\ pc' = [pc EXCEPT ![w] = "claim"]
  /\ UNCHANGED <<storeVars, job, recovery, batch, request, orphans, faults, answers>>

\* pause: PollInterval and ErrorDelay run out; only the former wait can also
\* be ended by a token.
PauseEnd(w) ==
  /\ \/ pc[w] \in {"poll", "delay"} /\ UNCHANGED wakeup
     \/ /\ pc[w] = "poll" /\ wakeup[Host[w]] > 0
        /\ wakeup' = [wakeup EXCEPT ![Host[w]] = @ - 1]
  /\ pc' = [pc EXCEPT ![w] = "claim"]
  /\ UNCHANGED <<storeVars, job, recovery, batch, request, orphans, faults, answers>>

-----------------------------------------------------------------------------
(***************************************************************************)
(* The recovery goroutine.  Rows locked by a settling statement or by      *)
(* another recovery are skipped: any set, for any statement.               *)
(***************************************************************************)

\* The first recovery, successful or not, is followed by the workers' start.
AfterRecovery(p) ==
  /\ recovery' = [recovery EXCEPT ![p] = "pause"]
  /\ pc' = [w \in Workers |->
              IF Host[w] = p /\ recovery[p] = "start" THEN "claim" ELSE pc[w]]

RecoverSkipping(p, locked) ==
  /\ Up(p)
  /\ \E B \in SUBSET Expired :
       /\ RecoverExpired(B, locked, batch[p])
       /\ Notify(p, Cardinality(B))
  /\ AfterRecovery(p)
  /\ UNCHANGED <<job, batch, request, orphans, faults, answers>>

Recover(p) == \E locked \in SUBSET Expired : RecoverSkipping(p, locked)

\* RecoverExpired fails; after its own timeout the next batch is half as big.
RecoverError(p) ==
  /\ Up(p)
  /\ Fault
  /\ Abandon(p, [op |-> "recover", n |-> batch[p]])
  /\ \/ UNCHANGED batch
     \/ /\ batch[p] > 1
        /\ batch' = [batch EXCEPT ![p] = @ \div 2]
  /\ AfterRecovery(p)
  /\ UNCHANGED <<storeVars, job, wakeup, request, answers>>

-----------------------------------------------------------------------------
(***************************************************************************)
(* POST /v1/quote-updates: create, Service.CreateUpdate, CreateOrGet.      *)
(***************************************************************************)
Send(r) ==
  /\ request[r].pc = "new"
  /\ \E p \in Procs, x \in Pairs, k \in Keys \cup {NULL} :
       /\ Up(p)
       /\ request' = [request EXCEPT ![r].pc = "admit", ![r].proc = p,
                                     ![r].pair = x, ![r].key = k]
  /\ UNCHANGED <<storeVars, procVars, orphans, faults, answers>>

Reply(r, id, code) ==
  request' = [request EXCEPT ![r].pc = "done", ![r].id = id, ![r].code = code]

\* Committed, but neither notified nor answered yet.
Admit(r) ==
  /\ request[r].pc = "admit"
  /\ \E s \in Updates :
       /\ Insert(s, request[r].pair, request[r].key, now)
       /\ request' = [request EXCEPT ![r].pc = "notify", ![r].id = s]
  /\ UNCHANGED <<procVars, orphans, faults, answers>>

\* Mutant: a key is replayed without a look at its pair.
AdmitNothingNoConflict(r) ==
  /\ request[r].pc = "admit"
  /\ \/ \E u \in Existing(request[r].key) : Reply(r, u, "replayed")
     \/ Existing(request[r].key) = {} /\ ~HasCapacity /\ Reply(r, NULL, "queue_full")
  /\ UNCHANGED <<storeVars, procVars, orphans, faults, answers>>

\* Replay, conflict, queue full; a replay neither counts against the capacity
\* nor wakes a worker.
AdmitNothing(r) ==
  /\ request[r].pc = "admit"
  /\ \/ \E u \in Existing(request[r].key) :
          IF updates[u].pair = request[r].pair
          THEN Reply(r, u, "replayed")
          ELSE Reply(r, NULL, "conflict")
     \/ Existing(request[r].key) = {} /\ ~HasCapacity /\ Reply(r, NULL, "queue_full")
  /\ UNCHANGED <<storeVars, procVars, orphans, faults, answers>>

AdmitError(r) ==
  /\ request[r].pc = "admit"
  /\ Fault
  /\ Abandon(r, [op |-> "create", pair |-> request[r].pair, key |-> request[r].key])
  /\ Reply(r, NULL, "unavailable")
  /\ UNCHANGED <<storeVars, procVars, answers>>

NotifyAndReply(r) ==
  /\ request[r].pc = "notify"
  /\ Notify(request[r].proc, 1)
  /\ Reply(r, request[r].id, "created")
  /\ UNCHANGED <<storeVars, pc, job, recovery, batch, orphans, faults, answers>>

-----------------------------------------------------------------------------
(***************************************************************************)
(* The server executes an abandoned command after all.                     *)
(***************************************************************************)
OrphanApplied(o) ==
  /\ o \in orphans
  /\ \/ Settled(o.cmd)
     \/ o.cmd.op = "claim" /\ \E u \in Ready, locked \in SUBSET Ready : ClaimNext(u, locked)
     \/ o.cmd.op = "create" /\ \E s \in Updates : Insert(s, o.cmd.pair, o.cmd.key, now)
     \/ /\ o.cmd.op = "recover"
        /\ \E B \in (SUBSET Expired) \ {{}}, locked \in SUBSET Expired :
             RecoverExpired(B, locked, o.cmd.n)
  /\ orphans' = orphans \ {o}
  /\ UNCHANGED <<procVars, request, faults, answers>>

ClockTick == Tick /\ UNCHANGED <<procVars, request, orphans, faults, answers>>

-----------------------------------------------------------------------------
Init ==
  /\ StoreInit
  /\ pc = [w \in Workers |-> "off"]
  /\ job = [w \in Workers |-> NULL]
  /\ recovery = [p \in Procs |-> "off"]
  /\ batch = [p \in Procs |-> RecoveryBatch]
  /\ wakeup = [p \in Procs |-> 0]
  /\ request = [r \in Requests |->
       [pc |-> "new", proc |-> NULL, pair |-> NULL, key |-> NULL, id |-> NULL,
        code |-> NULL]]
  /\ orphans = {}
  /\ faults = 0
  /\ answers = {}

WorkerStep(w) ==
  Claim(w) \/ ClaimNothing(w) \/ Fetch(w) \/ Settle(w) \/ PauseEnd(w)

HandlerStep(r) == Admit(r) \/ AdmitNothing(r) \/ NotifyAndReply(r)

Next ==
  \/ \E p \in Procs : Start(p) \/ Crash(p) \/ Recover(p) \/ RecoverError(p)
  \/ \E w \in Workers : WorkerStep(w) \/ ClaimError(w) \/ SettleError(w)
  \/ \E r \in Requests : Send(r) \/ HandlerStep(r) \/ AdmitError(r)
  \/ \E o \in orphans : OrphanApplied(o)
  \/ ClockTick

Spec == Init /\ [][Next]_vars

(***************************************************************************)
(* Fairness.  Goroutines are scheduled, timers fire, the provider call     *)
(* ends within its timeout and the clock runs: weak fairness.  A row lock  *)
(* is held only for the length of one statement, so that a worker cannot   *)
(* find a waiting job locked for ever: strong fairness of an unobstructed  *)
(* claim, weak fairness of an unobstructed recovery.  Replicas are started *)
(* again by whoever operates them.  Nothing is assumed of the failing      *)
(* steps and of abandoned commands.                                        *)
(***************************************************************************)
ClaimUnlocked(w) == Claim(w) /\ \E u \in Ready : ClaimNext(u, {})

Fairness ==
  /\ \A p \in Procs : WF_vars(Start(p)) /\ WF_vars(RecoverSkipping(p, {}))
  /\ \A w \in Workers : WF_vars(WorkerStep(w)) /\ SF_vars(ClaimUnlocked(w))
  /\ \A r \in Requests : WF_vars(HandlerStep(r))
  /\ WF_vars(ClockTick)

FairSpec == Spec /\ Fairness

-----------------------------------------------------------------------------
(***************************************************************************)
(* Properties.                                                             *)
(***************************************************************************)

\* Every variable has its type.
TypeOK ==
  /\ StoreTypeOK
  /\ pc \in [Workers -> {"off", "claim", "poll", "delay", "fetch", "settle"}]
  /\ job \in [Workers -> Task \cup SettleCommand \cup {NULL}]
  /\ \A w \in Workers :
       CASE pc[w] = "fetch" -> job[w] \in Task
         [] pc[w] = "settle" -> job[w] \in SettleCommand
         [] OTHER -> job[w] = NULL
  /\ recovery \in [Procs -> {"off", "start", "pause"}]
  /\ batch \in [Procs -> 1..RecoveryBatch]
  /\ wakeup \in [Procs -> Nat]
  /\ \A p \in Procs : wakeup[p] <= Concurrency(p)
  /\ request \in [Requests -> Request]
  /\ orphans \subseteq Orphan
  /\ faults \in 0..MaxFaults
  /\ answers \subseteq [id : Updates, attempt : Nat, answer : FinalAnswer]

\* The claimed attempts somebody may still settle: a worker, or a settling
\* command that was abandoned.
Claims ==
  {[by |-> w, id |-> job[w].id, attempt |-> job[w].attempt] :
     w \in {x \in Workers : pc[x] \in {"fetch", "settle"}}}
  \cup {[by |-> <<o.no, o.src>>, id |-> o.cmd.id, attempt |-> o.cmd.attempt] :
     o \in {x \in orphans : x.cmd.op \in {"complete", "retry", "fail"}}}

\* The pair (id, attempt) identifies at most one owner among all replicas,
\* through expired leases, lost replies and restarts, and nobody holds an
\* attempt that was not handed out: this is what makes the fencing of Complete,
\* Retry and Fail by the attempt number sound.
AttemptHasOneOwner ==
  /\ \A c, d \in Claims : c.id = d.id /\ c.attempt = d.attempt => c = d
  /\ \A c \in Claims : c.id \in Rows /\ c.attempt \in 1..updates[c.id].attempt

\* A finished update tells what the provider answered to its last attempt: a
\* stored quote was fetched by that attempt, not by an earlier owner that
\* answered late, a permanent failure was reported to it, and a job is given
\* up as exhausted only when its attempts are used up.
OutcomeJustified ==
  \A u \in Rows :
    LET r == updates[u]
        Got(k, q) == [id |-> u, attempt |-> r.attempt,
                      answer |-> [kind |-> k, quote |-> q]] \in answers
    IN  /\ r.status = "completed" => Got("quote", QuoteOf(r))
        /\ r.failure_code = "provider_permanent" => Got("permanent", NULL)
        /\ r.failure_code = "attempts_exhausted" => r.attempt = MaxAttempts

\* Requests that carry the same key are all answered with the same update, at
\* most one of them as its creator, whichever replicas they reached, whatever
\* became of the first answer; the update has the pair they asked for, and a
\* conflict is reported only for another pair.
IdempotentAnswers ==
  \A r, s \in Requests :
    LET a == request[r] b == request[s] IN
    /\ a.id # NULL =>
         /\ a.id \in Rows
         /\ updates[a.id].pair = a.pair
         /\ updates[a.id].idempotency_key = a.key
    /\ a.id # NULL /\ b.id # NULL /\ a.key = b.key /\ a.key # NULL => a.id = b.id
    /\ r # s /\ a.code = "created" /\ b.code = "created" => a.id # b.id
    /\ a.code = "conflict" => \E u \in Existing(a.key) : updates[u].pair # a.pair

\* Somebody will look for work before replica p has nothing left but its poll
\* timer: a token waits for one of its workers, a worker has not started yet,
\* or a worker, here or elsewhere, is at work and claims again when done.
Awake(p) ==
  \/ wakeup[p] > 0
  \/ \E w \in WorkersOf(p) : pc[w] = "off"
  \/ \E w \in Workers : pc[w] \in {"claim", "fetch", "settle"}

\* While nothing fails, a job a replica accepted and notified never waits for
\* the poll timers alone: dropping a token when the channel is full loses no
\* wakeup, and neither does a claim that skips a locked row.
NoLostWakeup ==
  faults = 0 =>
    \A r \in Requests :
      request[r].code = "created" /\ updates[request[r].id].attempt = 0 =>
        Awake(request[r].proc)

\* Until its lease has run out, no step of anybody else takes a claimed
\* attempt away from the live worker that holds it: not a restarting replica's
\* recovery, not a late command of an earlier owner.
LeaseProtectsOwner ==
  [][\A w \in Workers, u \in Rows :
       /\ pc[w] \in {"fetch", "settle"}
       /\ job[w].id = u /\ Owns(u, job[w].attempt)
       /\ now < updates[u].lease_until
       => \/ updates'[u] = updates[u]
          \/ pc'[w] = "claim"]_vars

\* Every accepted update is finished in the end, through lost replies, dead
\* owners, missed wakeups and restarts.
EveryUpdateFinishes ==
  \A u \in Updates : u \in Rows ~> u \in Rows /\ Status(u) \in TerminalStatus
===============================================================================

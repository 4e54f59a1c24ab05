-------------------------- MODULE QuoteServiceProofs --------------------------
(***************************************************************************)
(* Proofs about QuoteService, for every number of replicas, workers,       *)
(* requests and faults: the processes use the store only as it may be      *)
(* used, and what they hold, store and answer is justified.                *)
(***************************************************************************)
EXTENDS QuoteService, QuoteStoreProofs

-----------------------------------------------------------------------------
(***************************************************************************)
(* The inductive invariant.                                                *)
(***************************************************************************)
SettleOps == {"complete", "retry", "fail"}

\* Who may still settle an attempt: the workers that hold one, and the
\* settling commands that were given up.
Holds(w) == pc[w] \in {"fetch", "settle"}
Settling == {o \in orphans : o.cmd.op \in SettleOps}

\* Among the answers A is one of kind k to the attempt of c.
Answered(A, c, k, q) ==
  [id |-> c.id, attempt |-> c.attempt, answer |-> [kind |-> k, quote |-> q]] \in A

\* A settling command asks for what the provider's answer allows.
CommandOK(A, c) ==
  /\ c.attempt \in 1..MaxAttempts
  /\ c.op = "complete" => Answered(A, c, "quote", c.quote)
  /\ c.op = "retry" => c.attempt < MaxAttempts
  /\ c.op = "fail" =>
       \/ c.code = "provider_permanent" /\ Answered(A, c, "permanent", NULL)
       \/ c.code = "attempts_exhausted" /\ c.attempt = MaxAttempts

CommandsInv ==
  /\ \A w \in Workers : pc[w] = "fetch" => job[w].attempt \in 1..MaxAttempts
  /\ \A w \in Workers : pc[w] = "settle" => CommandOK(answers, job[w])
  /\ \A o \in Settling : CommandOK(answers, o.cmd)

\* An attempt that was handed out: the number of its row in the table U has
\* reached it.
Issued(U, c) == c.id \in DOMAIN U /\ c.attempt \in 1..U[c.id].attempt

SameAttempt(c, d) == c.id = d.id /\ c.attempt = d.attempt

\* AttemptHasOneOwner without names for the owners: two holders are the same.
OwnersInv ==
  /\ \A v, w \in Workers : Holds(v) /\ Holds(w) /\ SameAttempt(job[v], job[w]) => v = w
  /\ \A w \in Workers, o \in Settling : Holds(w) => ~SameAttempt(job[w], o.cmd)
  /\ \A o, x \in Settling : SameAttempt(o.cmd, x.cmd) => o = x
  /\ \A w \in Workers : Holds(w) => Issued(updates, job[w])
  /\ \A o \in Settling : Issued(updates, o.cmd)

\* A request has an answer when it is done, an update when it was admitted.
RequestOK(a) ==
  /\ a.pc \in {"new", "admit"} => a.id = NULL
  /\ a.pc \in {"admit", "notify"} => a.proc \in Procs /\ a.pair \in Pairs
  /\ a.pc = "notify" => a.id \in Updates
  /\ a.code # NULL => a.pc = "done"
  /\ a.code = "created" => a.id \in Updates /\ a.proc \in Procs

RequestsInv == \A r \in Requests : RequestOK(request[r])

\* Whose insert made the update it names.
Creator(a) == a.pc = "notify" \/ a.code = "created"

\* What IdempotentAnswers says of one request, of the table U.
AnswerOK(U, a) ==
  /\ a.id # NULL =>
       a.id \in DOMAIN U /\ U[a.id].pair = a.pair /\ U[a.id].idempotency_key = a.key
  /\ a.code = "conflict" =>
       \E u \in DOMAIN U : /\ a.key # NULL /\ U[u].idempotency_key = a.key
                           /\ U[u].pair # a.pair

\* No two requests made the same update.
AnswersInv ==
  /\ \A r \in Requests : AnswerOK(updates, request[r])
  /\ \A r, s \in Requests :
       r # s /\ Creator(request[r]) /\ Creator(request[s]) => request[r].id # request[s].id

\* A job nobody has claimed may be claimed at once.
FreshInv == \A u \in Rows : updates[u].attempt = 0 => u \in Ready

\* Without faults nothing is in flight unattended and no worker pauses after
\* an error.
NoFaultInv == faults = 0 => orphans = {} /\ \A w \in Workers : pc[w] # "delay"

\* A replica's workers run only after its first recovery.
StartInv == \A w \in Workers : recovery[Host[w]] # "pause" => pc[w] = "off"

\* The tables are well formed, within their limits, with one update a key.
StoreInv == RowsInv /\ CapacityInv /\ OneUpdatePerKey

\* What the refinement of the store needs of the processes.
ProcInv == TypeOK /\ CommandsInv /\ RequestsInv /\ StartInv

Inv ==
  /\ StoreInv /\ ProcInv
  /\ OwnersInv /\ OutcomeJustified
  /\ AnswersInv /\ FreshInv /\ NoFaultInv /\ NoLostWakeup

-----------------------------------------------------------------------------
(***************************************************************************)
(* The commands.                                                           *)
(***************************************************************************)

\* The fields of a settling command.
LEMMA SettleFields ==
  ASSUME NEW c \in SettleCommand
  PROVE  /\ c.op \in SettleOps /\ c.id \in Updates /\ c.attempt \in Nat
         /\ c.op = "complete" => c.pair \in Pairs /\ c.quote \in Quote
         /\ c.op = "fail" => c.code \in FailureCodes
BY DEF SettleCommand, SettleOps

\* The operation tells the settling commands from the others.
LEMMA SettleOpsOnly ==
  ASSUME NEW c \in Command, c.op \in SettleOps
  PROVE  c \in SettleCommand
BY DEF Command, SettleOps

\* complete and handleProviderFailure send the claimed id and attempt on, and
\* ask for what the provider answered to them.
LEMMA SettleByOK ==
  ASSUME NEW t \in Task, t.attempt \in 1..MaxAttempts, NEW ans \in Answer, NEW A,
         {[id |-> t.id, attempt |-> t.attempt, answer |-> x] : x \in {ans} \cap FinalAnswer}
           \subseteq A
  PROVE  /\ SettleBy(t, ans) \in SettleCommand
         /\ SettleBy(t, ans).id = t.id /\ SettleBy(t, ans).attempt = t.attempt
         /\ CommandOK(A, SettleBy(t, ans))
<1>1. t.id \in Updates /\ t.attempt \in Nat /\ t.pair \in Pairs
  BY DEF Task
<1>2. CASE ans \in [kind : {"quote"}, quote : Quote]
  <2>1. SettleBy(t, ans) = [op |-> "complete", id |-> t.id, attempt |-> t.attempt,
                            pair |-> t.pair, quote |-> ans.quote]
    BY <1>2 DEF SettleBy
  <2>2. ans = [kind |-> "quote", quote |-> ans.quote] /\ ans \in FinalAnswer
    BY <1>2 DEF FinalAnswer
  <2>3. [id |-> t.id, attempt |-> t.attempt, answer |-> ans] \in A
    BY <2>2
  <2> QED
    BY <1>1, <1>2, <2>1, <2>2, <2>3 DEF SettleCommand, CommandOK, Answered
<1>3. CASE ans \in [kind : {"permanent"}, quote : {NULL}]
  <2>1. SettleBy(t, ans) = [op |-> "fail", id |-> t.id, attempt |-> t.attempt,
                            code |-> "provider_permanent"]
    BY <1>3 DEF SettleBy
  <2>2. ans = [kind |-> "permanent", quote |-> NULL] /\ ans \in FinalAnswer
    BY <1>3 DEF FinalAnswer
  <2>3. [id |-> t.id, attempt |-> t.attempt, answer |-> ans] \in A
    BY <2>2
  <2> QED
    BY <1>1, <2>1, <2>2, <2>3 DEF SettleCommand, CommandOK, Answered, FailureCodes
<1>4. CASE ans \in [kind : {"retryable"}, quote : {NULL}] /\ t.attempt < MaxAttempts
  <2>1. SettleBy(t, ans) = [op |-> "retry", id |-> t.id, attempt |-> t.attempt]
    BY <1>4 DEF SettleBy
  <2> QED
    BY <1>1, <1>4, <2>1 DEF SettleCommand, CommandOK
<1>5. CASE ans \in [kind : {"retryable"}, quote : {NULL}] /\ ~(t.attempt < MaxAttempts)
  <2>1. SettleBy(t, ans) = [op |-> "fail", id |-> t.id, attempt |-> t.attempt,
                            code |-> "attempts_exhausted"]
    BY <1>5 DEF SettleBy
  <2>2. t.attempt = MaxAttempts
    BY <1>1, <1>5, StoreAssumption
  <2> QED
    BY <1>1, <2>1, <2>2 DEF SettleCommand, CommandOK, FailureCodes
<1> QED
  BY <1>2, <1>3, <1>4, <1>5 DEF Answer, FinalAnswer

\* What the types say of the commands the processes hold.
LEMMA HeldCommands ==
  ASSUME TypeOK
  PROVE  /\ \A w \in Workers : pc[w] = "fetch" => job[w] \in Task
         /\ \A w \in Workers : pc[w] = "settle" => job[w] \in SettleCommand
         /\ \A w \in Workers : ~Holds(w) => job[w] = NULL
         /\ \A o \in Settling : o.cmd \in SettleCommand
<1>1. \A o \in Settling : o.cmd \in Command /\ o.cmd.op \in SettleOps
  BY DEF TypeOK, Settling, Orphan
<1>2. \A o \in Settling : o.cmd \in SettleCommand
  BY <1>1, SettleOpsOnly
<1> QED
  BY <1>2 DEF TypeOK, Holds

-----------------------------------------------------------------------------
(***************************************************************************)
(* What the processes do to the store.                                     *)
(***************************************************************************)

\* A step of the processes leaves the store alone or is one call of it, made
\* with what the caller holds.
StoreCase ==
  \/ UNCHANGED storeVars
  \/ \E w \in Workers : pc[w] = "settle" /\ pc'[w] = "claim" /\ Settled(job[w])
  \/ \E o \in Settling : Settled(o.cmd)
  \/ \E u \in Ready, locked \in SUBSET Updates : ClaimNext(u, locked)
  \/ \E s \in Updates, p \in Pairs, k \in Keys \cup {NULL} : Insert(s, p, k, now)
  \/ \E B \in SUBSET Updates, locked \in SUBSET Updates, n \in 1..RecoveryBatch :
       RecoverExpired(B, locked, n)
  \/ Tick

\* The claims, results, recoveries and inserts of the processes, and the
\* commands the server executes late, are all the steps the tables see.
LEMMA StoreCases == RowsInv /\ ProcInv /\ [Next]_vars => StoreCase
<1> SUFFICES ASSUME RowsInv, ProcInv, [Next]_vars PROVE StoreCase
  OBVIOUS
<1>a. Rows \subseteq Updates /\ Ready \subseteq Rows /\ Expired \subseteq Rows
  BY DEF RowsInv, Ready, Expired
<1>1. ASSUME NEW p \in Procs, Start(p) \/ Crash(p) \/ RecoverError(p) PROVE StoreCase
  BY <1>1 DEF Start, Crash, RecoverError, StoreCase
<1>2. ASSUME NEW p \in Procs, Recover(p) PROVE StoreCase
  <2>1. PICK locked \in SUBSET Expired, B \in SUBSET Expired :
          RecoverExpired(B, locked, batch[p])
    BY <1>2 DEF Recover, RecoverSkipping
  <2>2. batch[p] \in 1..RecoveryBatch
    BY DEF ProcInv, TypeOK
  <2> QED
    BY <1>a, <2>1, <2>2 DEF StoreCase
<1>3. ASSUME NEW w \in Workers, Claim(w) PROVE StoreCase
  <2>1. PICK locked \in SUBSET Ready, u \in Ready : ClaimNext(u, locked)
    BY <1>3 DEF Claim, LockedByClaims
  <2> QED
    BY <1>a, <2>1 DEF StoreCase
<1>4. ASSUME NEW w \in Workers, Settle(w) PROVE StoreCase
  <2>1. pc[w] = "settle" /\ pc'[w] = "claim"
    BY <1>4 DEF Settle, ProcInv, TypeOK
  <2> QED
    BY <1>4, <2>1 DEF Settle, StoreCase
<1>5. ASSUME NEW w \in Workers,
             ClaimNothing(w) \/ Fetch(w) \/ PauseEnd(w) \/ ClaimError(w) \/ SettleError(w)
      PROVE  StoreCase
  BY <1>5 DEF ClaimNothing, Fetch, PauseEnd, ClaimError, SettleError, StoreCase
<1>6. ASSUME NEW r \in Requests, Admit(r) PROVE StoreCase
  <2>1. PICK s \in Updates : Insert(s, request[r].pair, request[r].key, now)
    BY <1>6 DEF Admit
  <2>2. request[r].pair \in Pairs /\ request[r].key \in Keys \cup {NULL}
    BY <1>6 DEF Admit, ProcInv, TypeOK, RequestsInv, RequestOK, Request
  <2> QED
    BY <2>1, <2>2 DEF StoreCase
<1>7. ASSUME NEW r \in Requests,
             Send(r) \/ AdmitNothing(r) \/ AdmitError(r) \/ NotifyAndReply(r)
      PROVE  StoreCase
  BY <1>7 DEF Send, AdmitNothing, AdmitError, NotifyAndReply, StoreCase
<1>8. ASSUME NEW o \in orphans, OrphanApplied(o) PROVE StoreCase
  <2>0. o.cmd \in Command
    BY DEF ProcInv, TypeOK, Orphan
  <2>1. CASE Settled(o.cmd)
    <3>1. o \in Settling
      BY <2>1 DEF Settled, Settling, SettleOps
    <3> QED
      BY <2>1, <3>1 DEF StoreCase
  <2>2. CASE o.cmd.op = "claim" /\ \E u \in Ready, locked \in SUBSET Ready : ClaimNext(u, locked)
    BY <1>a, <2>2 DEF StoreCase
  <2>3. CASE o.cmd.op = "create" /\ \E s \in Updates : Insert(s, o.cmd.pair, o.cmd.key, now)
    <3>1. o.cmd.pair \in Pairs /\ o.cmd.key \in Keys \cup {NULL}
      BY <2>0, <2>3 DEF Command, SettleCommand
    <3> QED
      BY <2>3, <3>1 DEF StoreCase
  <2>4. CASE /\ o.cmd.op = "recover"
             /\ \E B \in (SUBSET Expired) \ {{}}, locked \in SUBSET Expired :
                  RecoverExpired(B, locked, o.cmd.n)
    <3>1. o.cmd.n \in 1..RecoveryBatch
      BY <2>0, <2>4 DEF Command, SettleCommand
    <3>2. PICK B \in SUBSET Updates, locked \in SUBSET Expired :
            RecoverExpired(B, locked, o.cmd.n)
      BY <1>a, <2>4
    <3> QED
      BY <1>a, <3>1, <3>2 DEF StoreCase
  <2> QED
    BY <1>8, <2>1, <2>2, <2>3, <2>4 DEF OrphanApplied
<1>9. CASE ClockTick \/ UNCHANGED vars
  BY <1>9 DEF ClockTick, vars, storeVars, StoreCase
<1> QED
  BY <1>1, <1>2, <1>3, <1>4, <1>5, <1>6, <1>7, <1>8, <1>9
  DEF Next, WorkerStep, HandlerStep

\* A settling command is sent with an attempt in range, a retry only with one
\* below the limit.
LEMMA SettledIsStoreStep ==
  ASSUME NEW c \in SettleCommand, NEW A, CommandOK(A, c), Settled(c)
  PROVE  StoreNext
<1>0. /\ c.id \in Updates /\ c.attempt \in 1..MaxAttempts
      /\ c.op = "complete" => c.pair \in Pairs /\ c.quote \in Quote
      /\ c.op = "fail" => c.code \in FailureCodes
      /\ c.op = "retry" => c.attempt \in 1..(MaxAttempts - 1)
  BY SettleFields, StoreAssumption DEF CommandOK
<1>1. CASE c.op = "complete" /\ Complete(c.id, c.attempt, c.pair, c.quote)
  BY <1>0, <1>1 DEF StoreNext
<1>2. CASE c.op = "retry" /\ \E d \in RetryDelays : Retry(c.id, c.attempt, d)
  BY <1>0, <1>2 DEF StoreNext
<1>3. CASE c.op = "fail" /\ Fail(c.id, c.attempt, c.code)
  BY <1>0, <1>3 DEF StoreNext
<1> QED
  BY <1>1, <1>2, <1>3 DEF Settled

\* Every step of the processes is a step of the store or leaves it alone.
LEMMA RefinesStore == RowsInv /\ ProcInv /\ [Next]_vars => [StoreNext]_storeVars
<1> SUFFICES ASSUME RowsInv, ProcInv, StoreCase PROVE [StoreNext]_storeVars
  BY StoreCases
<1>1. now \in 0..now
  BY DEF RowsInv
<1>2. CASE \E w \in Workers : pc[w] = "settle" /\ pc'[w] = "claim" /\ Settled(job[w])
  BY <1>2, HeldCommands, SettledIsStoreStep DEF ProcInv, CommandsInv
<1>3. CASE \E o \in Settling : Settled(o.cmd)
  BY <1>3, HeldCommands, SettledIsStoreStep DEF ProcInv, CommandsInv
<1>4. CASE \E u \in Ready, locked \in SUBSET Updates : ClaimNext(u, locked)
  BY <1>4 DEF StoreNext, Ready, RowsInv
<1>5. CASE \E s \in Updates, p \in Pairs, k \in Keys \cup {NULL} : Insert(s, p, k, now)
  BY <1>1, <1>5 DEF StoreNext
<1>6. CASE \E B \in SUBSET Updates, locked \in SUBSET Updates, n \in 1..RecoveryBatch :
             RecoverExpired(B, locked, n)
  BY <1>6 DEF StoreNext
<1>7. CASE UNCHANGED storeVars \/ Tick
  BY <1>7 DEF StoreNext
<1> QED
  BY <1>2, <1>3, <1>4, <1>5, <1>6, <1>7 DEF StoreCase

\* The tables stay well formed, within their limits and with one update a key.
LEMMA StoreInvNext == StoreInv /\ ProcInv /\ [Next]_vars => StoreInv'
BY RefinesStore, RowsInvNext, CapacityNext, KeysNext DEF StoreInv

-----------------------------------------------------------------------------
(***************************************************************************)
(* Types.                                                                  *)
(***************************************************************************)

\* A replica has as many tokens as it has workers: finitely many.
LEMMA ConcurrencyNat == \A p \in Procs : Concurrency(p) \in Nat
<1> SUFFICES ASSUME NEW p \in Procs PROVE Concurrency(p) \in Nat
  OBVIOUS
<1>1. IsFiniteSet(WorkersOf(p))
  BY ServiceAssumption, FS_Subset DEF WorkersOf
<1> QED
  BY <1>1, FS_CardinalityType DEF Concurrency

TokensOK == wakeup \in [Procs -> Nat] /\ \A p \in Procs : wakeup[p] <= Concurrency(p)

\* Notify never overfills the channel.
LEMMA NotifyTyped ==
  ASSUME TokensOK, NEW p \in Procs, NEW n \in Nat, Notify(p, n)
  PROVE  TokensOK'
BY ConcurrencyNat DEF TokensOK, Notify

\* What each worker holds, by where it is.
JobsOK ==
  /\ pc \in [Workers -> {"off", "claim", "poll", "delay", "fetch", "settle"}]
  /\ job \in [Workers -> Task \cup SettleCommand \cup {NULL}]
  /\ \A w \in Workers : pc[w] = "fetch" => job[w] \in Task
  /\ \A w \in Workers : pc[w] = "settle" => job[w] \in SettleCommand
  /\ \A w \in Workers : ~Holds(w) => job[w] = NULL

\* TypeOK by the parts that change together.
TypesByPart ==
  /\ StoreTypeOK /\ JobsOK
  /\ recovery \in [Procs -> {"off", "start", "pause"}]
  /\ batch \in [Procs -> 1..RecoveryBatch]
  /\ TokensOK
  /\ request \in [Requests -> Request]
  /\ orphans \subseteq Orphan
  /\ faults \in 0..MaxFaults
  /\ answers \subseteq [id : Updates, attempt : Nat, answer : FinalAnswer]

\* The parts make up the whole, in every state.
LEMMA TypeParts == (TypeOK <=> TypesByPart) /\ (TypeOK' <=> TypesByPart')
BY DEF TypeOK, TypesByPart, JobsOK, TokensOK, Holds

\* Faults are counted up to their bound.
LEMMA FaultTyped ==
  ASSUME faults \in 0..MaxFaults, Fault
  PROVE  faults' \in 0..MaxFaults
BY ServiceAssumption DEF Fault

\* What a dying replica leaves in flight are commands of its workers, of its
\* recovery and of its handlers.
LEMMA InFlightTyped ==
  ASSUME TypeOK, RequestsInv, NEW p \in Procs, NEW c \in InFlight(p)
  PROVE  /\ c[1] \in Workers \cup Procs \cup Requests /\ c[2] \in Command
         /\ c[2].op \in SettleOps =>
              \E w \in Workers : pc[w] = "settle" /\ Host[w] = p /\ c = <<w, job[w]>>
<1>1. CASE \E w \in Workers : c = <<w, [op |-> "claim"]>>
  BY <1>1 DEF Command, SettleOps
<1>2. CASE \E w \in Workers : pc[w] = "settle" /\ Host[w] = p /\ c = <<w, job[w]>>
  BY <1>2, HeldCommands DEF Command
<1>3. CASE c = <<p, [op |-> "recover", n |-> batch[p]]>>
  BY <1>3 DEF Command, SettleOps, TypeOK
<1>4. CASE \E r \in Requests : /\ request[r].pc = "admit"
                               /\ c = <<r, [op |-> "create", pair |-> request[r].pair,
                                            key |-> request[r].key]>>
  BY <1>4 DEF Command, SettleOps, TypeOK, Request, RequestsInv, RequestOK
<1> QED
  BY <1>1, <1>2, <1>3, <1>4 DEF InFlight, WorkersOf

\* The steps of a replica as a whole.
LEMMA ReplicaKeepsTypes ==
  ASSUME StoreInv, ProcInv, StoreTypeOK', NEW p \in Procs,
         Start(p) \/ Crash(p) \/ Recover(p) \/ RecoverError(p)
  PROVE  TypeOK'
<1>0. /\ TypeOK /\ TypesByPart /\ JobsOK /\ TokensOK /\ RequestsInv
  BY TypeParts DEF ProcInv, TypesByPart
<1> SUFFICES TypesByPart'
  BY TypeParts
<1>1. CASE Start(p)
  <2>1. JobsOK' /\ TokensOK'
    BY <1>0, <1>1 DEF Start, JobsOK, TokensOK, Holds
  <2> QED
    BY <1>0, <1>1, <2>1, StoreAssumption DEF Start, TypesByPart
<1>2. CASE Crash(p)
  <2>0. /\ Fault
        /\ recovery' = [recovery EXCEPT ![p] = "off"]
        /\ pc' = [w \in Workers |-> IF Host[w] = p THEN "off" ELSE pc[w]]
        /\ job' = [w \in Workers |-> IF Host[w] = p THEN NULL ELSE job[w]]
        /\ wakeup' = [wakeup EXCEPT ![p] = 0]
        /\ orphans' = orphans \cup
             {[no |-> faults, src |-> c[1], cmd |-> c[2]] : c \in InFlight(p)}
        /\ UNCHANGED <<batch, answers>>
    BY <1>2 DEF Crash
  <2>1. JobsOK'
    BY <1>0, <2>0 DEF JobsOK, Holds
  <2>2. TokensOK'
    BY <1>0, <2>0, ConcurrencyNat DEF TokensOK
  <2>3. faults \in 0..MaxFaults /\ faults' \in 0..MaxFaults
    BY <1>0, <2>0, FaultTyped DEF TypesByPart
  <2>4. \A c \in InFlight(p) : [no |-> faults, src |-> c[1], cmd |-> c[2]] \in Orphan
    BY <1>0, <2>3, InFlightTyped DEF Orphan
  <2>5. orphans' \subseteq Orphan
    BY <1>0, <2>0, <2>4 DEF TypesByPart
  <2>6. request' \in [Requests -> Request]
    BY <1>0, <1>2 DEF Crash, TypesByPart, Request
  <2> QED
    BY <1>0, <2>0, <2>1, <2>2, <2>3, <2>5, <2>6 DEF TypesByPart
<1>3. ASSUME AfterRecovery(p), UNCHANGED job
      PROVE  JobsOK' /\ recovery' \in [Procs -> {"off", "start", "pause"}]
  <2>1. ASSUME NEW w \in Workers, Host[w] = p, recovery[p] = "start"
        PROVE  ~Holds(w)
    BY <2>1 DEF ProcInv, StartInv, Holds
  <2>2. recovery' = [recovery EXCEPT ![p] = "pause"]
    BY <1>3 DEF AfterRecovery
  <2>3. \A w \in Workers :
          pc'[w] = IF Host[w] = p /\ recovery[p] = "start" THEN "claim" ELSE pc[w]
    BY <1>3 DEF AfterRecovery
  <2>4. pc' \in [Workers -> {"off", "claim", "poll", "delay", "fetch", "settle"}]
    BY <1>0, <1>3 DEF AfterRecovery, JobsOK
  <2> QED
    BY <1>0, <1>3, <2>1, <2>2, <2>3, <2>4 DEF JobsOK, Holds, TypesByPart
<1>4. CASE Recover(p)
  <2>1. PICK B \in SUBSET Expired : Notify(p, Cardinality(B))
    BY <1>4 DEF Recover, RecoverSkipping
  <2>2. Cardinality(B) \in Nat
    BY <2>1, FS_Subset, FS_CardinalityType DEF StoreInv, CapacityInv, Expired
  <2>3. TokensOK'
    BY <1>0, <2>1, <2>2, NotifyTyped
  <2>4. AfterRecovery(p) /\ UNCHANGED <<job, batch, request, orphans, faults, answers>>
    BY <1>4 DEF Recover, RecoverSkipping
  <2> QED
    BY <1>0, <1>3, <2>3, <2>4 DEF TypesByPart
<1>5. CASE RecoverError(p)
  <2>1. faults \in 0..MaxFaults /\ faults' \in 0..MaxFaults
    BY <1>0, <1>5, FaultTyped DEF RecoverError, TypesByPart
  <2>2. batch' \in [Procs -> 1..RecoveryBatch]
    <3>1. ASSUME batch[p] > 1 PROVE batch[p] \div 2 \in 1..RecoveryBatch
      BY <1>0, <3>1, StoreAssumption DEF TypesByPart
    <3> QED
      BY <1>0, <1>5, <3>1 DEF RecoverError, TypesByPart
  <2>3. [op |-> "recover", n |-> batch[p]] \in Command
    BY <1>0 DEF TypesByPart, Command
  <2>4. orphans' \subseteq Orphan
    BY <1>0, <1>5, <2>1, <2>3 DEF RecoverError, Abandon, Orphan, TypesByPart
  <2>5. AfterRecovery(p) /\ UNCHANGED <<job, wakeup, request, answers>>
    BY <1>5 DEF RecoverError
  <2>6. TokensOK'
    BY <1>0, <2>5 DEF TokensOK
  <2> QED
    BY <1>0, <1>3, <2>1, <2>2, <2>4, <2>5, <2>6 DEF TypesByPart
<1> QED
  BY <1>1, <1>2, <1>4, <1>5

\* TaskOf names the claimed row as it is after the claim: its new attempt is
\* one more than the last, and within the limit.
LEMMA ClaimedTask ==
  ASSUME RowsInv, NEW u \in Ready, NEW locked, ClaimNext(u, locked)
  PROVE  /\ TaskOf(u)' \in Task
         /\ TaskOf(u)'.id = u /\ TaskOf(u)'.attempt = updates[u].attempt + 1
         /\ TaskOf(u)'.attempt \in 1..MaxAttempts
         /\ updates'[u].attempt = updates[u].attempt + 1
<1>1. u \in Rows /\ u \in Updates /\ RowOK(updates[u]) /\ updates[u].status = "pending"
  BY DEF Ready, RowsInv, Status
<1>2. updates'[u] = ClaimedRow(updates[u])
  BY <1>1 DEF ClaimNext, Rows
<1>3. updates[u] \in UpdateRow /\ updates[u].attempt \in Nat /\ updates[u].pair \in Pairs
      /\ updates[u].attempt < MaxAttempts
  BY <1>1 DEF RowOK, RowBounded, UpdateRow
<1>4. updates'[u].attempt = updates[u].attempt + 1 /\ updates'[u].pair = updates[u].pair
  BY <1>2, <1>3 DEF ClaimedRow, UpdateRow
<1>5. TaskOf(u)' = [op |-> "task", id |-> u, attempt |-> updates'[u].attempt,
                    pair |-> updates'[u].pair]
  BY DEF TaskOf
<1> QED
  BY <1>1, <1>3, <1>4, <1>5, StoreAssumption DEF Task

\* Fetch turns a task into a settling command for the same attempt.
LEMMA FetchedCommand ==
  ASSUME TypeOK, CommandsInv, NEW w \in Workers, Fetch(w)
  PROVE  /\ job'[w] \in SettleCommand /\ SameAttempt(job'[w], job[w])
         /\ CommandOK(answers', job'[w])
         /\ answers \subseteq answers'
         /\ answers' \subseteq [id : Updates, attempt : Nat, answer : FinalAnswer]
<1>1. PICK ans \in Answer :
        /\ job' = [job EXCEPT ![w] = SettleBy(@, ans)]
        /\ answers' = answers \cup
             {[id |-> job[w].id, attempt |-> job[w].attempt, answer |-> x] :
                x \in {ans} \cap FinalAnswer}
  BY DEF Fetch
<1>2. job[w] \in Task /\ job[w].attempt \in 1..MaxAttempts
  BY HeldCommands DEF Fetch, CommandsInv
<1>3. job'[w] = SettleBy(job[w], ans)
  BY <1>1 DEF TypeOK
<1>4. /\ SettleBy(job[w], ans) \in SettleCommand
      /\ SettleBy(job[w], ans).id = job[w].id
      /\ SettleBy(job[w], ans).attempt = job[w].attempt
      /\ CommandOK(answers', SettleBy(job[w], ans))
  BY <1>1, <1>2, SettleByOK
<1> QED
  BY <1>1, <1>2, <1>3, <1>4 DEF SameAttempt, TypeOK, Task

\* The steps of a worker.
LEMMA WorkerKeepsTypes ==
  ASSUME StoreInv, ProcInv, StoreTypeOK', NEW w \in Workers,
         WorkerStep(w) \/ ClaimError(w) \/ SettleError(w)
  PROVE  TypeOK'
<1>0. TypeOK /\ TypesByPart /\ JobsOK /\ TokensOK /\ CommandsInv /\ RowsInv
  BY TypeParts DEF ProcInv, StoreInv, TypesByPart
<1> SUFFICES TypesByPart'
  BY TypeParts
<1>1. CASE Claim(w)
  <2>1. PICK u \in Ready, locked \in SUBSET Ready :
          ClaimNext(u, locked) /\ job' = [job EXCEPT ![w] = TaskOf(u)']
    BY <1>1 DEF Claim, LockedByClaims
  <2>2. TaskOf(u)' \in Task
    BY <1>0, <2>1, ClaimedTask
  <2>3. JobsOK'
    BY <1>0, <1>1, <2>1, <2>2 DEF Claim, JobsOK, Holds
  <2>4. TokensOK'
    BY <1>0, <1>1 DEF Claim, TokensOK
  <2> QED
    BY <1>0, <1>1, <2>3, <2>4 DEF Claim, TypesByPart
<1>2. CASE ClaimNothing(w)
  <2>1. JobsOK' /\ TokensOK'
    BY <1>0, <1>2 DEF ClaimNothing, JobsOK, TokensOK, Holds
  <2> QED
    BY <1>0, <1>2, <2>1 DEF ClaimNothing, TypesByPart
<1>3. CASE Fetch(w)
  <2>1. /\ job'[w] \in SettleCommand
        /\ answers' \subseteq [id : Updates, attempt : Nat, answer : FinalAnswer]
    BY <1>0, <1>3, FetchedCommand
  <2>2. JobsOK'
    BY <1>0, <1>3, <2>1 DEF Fetch, JobsOK, Holds
  <2>3. TokensOK'
    BY <1>0, <1>3 DEF Fetch, TokensOK
  <2> QED
    BY <1>0, <1>3, <2>1, <2>2, <2>3 DEF Fetch, TypesByPart
<1>4. CASE Settle(w)
  <2>1. JobsOK' /\ TokensOK'
    BY <1>0, <1>4 DEF Settle, JobsOK, TokensOK, Holds
  <2> QED
    BY <1>0, <1>4, <2>1 DEF Settle, TypesByPart
<1>5. CASE PauseEnd(w)
  <2>1. JobsOK'
    BY <1>0, <1>5 DEF PauseEnd, JobsOK, Holds
  <2>2. TokensOK'
    BY <1>0, <1>5, ConcurrencyNat, ServiceAssumption DEF PauseEnd, TokensOK
  <2> QED
    BY <1>0, <1>5, <2>1, <2>2 DEF PauseEnd, TypesByPart
<1>6. CASE ClaimError(w)
  <2>1. faults \in 0..MaxFaults /\ faults' \in 0..MaxFaults
    BY <1>0, <1>6, FaultTyped DEF ClaimError, TypesByPart
  <2>2. orphans' \subseteq Orphan
    BY <1>0, <1>6, <2>1 DEF ClaimError, Abandon, Orphan, Command, TypesByPart
  <2>3. JobsOK' /\ TokensOK'
    BY <1>0, <1>6 DEF ClaimError, JobsOK, TokensOK, Holds
  <2> QED
    BY <1>0, <1>6, <2>1, <2>2, <2>3 DEF ClaimError, TypesByPart
<1>7. CASE SettleError(w)
  <2>1. faults \in 0..MaxFaults /\ faults' \in 0..MaxFaults
    BY <1>0, <1>7, FaultTyped DEF SettleError, TypesByPart
  <2>2. job[w] \in Command
    BY <1>0, <1>7 DEF SettleError, JobsOK, Command
  <2>3. orphans' \subseteq Orphan
    BY <1>0, <1>7, <2>1, <2>2 DEF SettleError, Abandon, Orphan, TypesByPart
  <2>4. JobsOK' /\ TokensOK'
    BY <1>0, <1>7 DEF SettleError, JobsOK, TokensOK, Holds
  <2> QED
    BY <1>0, <1>7, <2>1, <2>3, <2>4 DEF SettleError, TypesByPart
<1> QED
  BY <1>1, <1>2, <1>3, <1>4, <1>5, <1>6, <1>7 DEF WorkerStep

\* What a handler's step does to its request, field by field: Send ...
LEMMA SendEffect ==
  ASSUME request \in [Requests -> Request], NEW r \in Requests, Send(r)
  PROVE  \E b \in Request :
           /\ request' = [request EXCEPT ![r] = b]
           /\ b.pc = "admit" /\ b.proc \in Procs /\ b.pair \in Pairs
           /\ b.id = request[r].id /\ b.code = request[r].code
<1>1. PICK p \in Procs, x \in Pairs, k \in Keys \cup {NULL} :
        request' = [request EXCEPT ![r].pc = "admit", ![r].proc = p,
                                   ![r].pair = x, ![r].key = k]
  BY DEF Send
<1> DEFINE b == [request[r] EXCEPT !.pc = "admit", !.proc = p, !.pair = x, !.key = k]
<1>2. request[r] \in Request
  OBVIOUS
<1>3. /\ b \in Request
      /\ b.pc = "admit" /\ b.proc = p /\ b.pair = x
      /\ b.id = request[r].id /\ b.code = request[r].code
  BY <1>2 DEF Request
<1>4. request' = [request EXCEPT ![r] = b]
  BY <1>1
<1> QED
  BY <1>3, <1>4

\* ... Admit ...
LEMMA AdmitEffect ==
  ASSUME request \in [Requests -> Request], NEW r \in Requests, Admit(r)
  PROVE  \E s \in Updates, b \in Request :
           /\ Insert(s, request[r].pair, request[r].key, now)
           /\ request' = [request EXCEPT ![r] = b]
           /\ b.pc = "notify" /\ b.id = s
           /\ b.proc = request[r].proc /\ b.pair = request[r].pair
           /\ b.key = request[r].key /\ b.code = request[r].code
<1>1. PICK s \in Updates :
        /\ Insert(s, request[r].pair, request[r].key, now)
        /\ request' = [request EXCEPT ![r].pc = "notify", ![r].id = s]
  BY DEF Admit
<1> DEFINE b == [request[r] EXCEPT !.pc = "notify", !.id = s]
<1>2. request[r] \in Request
  OBVIOUS
<1>3. /\ b \in Request
      /\ b.pc = "notify" /\ b.id = s
      /\ b.proc = request[r].proc /\ b.pair = request[r].pair
      /\ b.key = request[r].key /\ b.code = request[r].code
  BY <1>2 DEF Request
<1>4. request' = [request EXCEPT ![r] = b]
  BY <1>1
<1> QED
  BY <1>1, <1>3, <1>4

\* ... and every answer.
LEMMA ReplyEffect ==
  ASSUME request \in [Requests -> Request], NEW r \in Requests,
         NEW id \in Updates \cup {NULL},
         NEW code \in {"created", "replayed", "conflict", "queue_full", "unavailable"},
         Reply(r, id, code)
  PROVE  \E b \in Request :
           /\ request' = [request EXCEPT ![r] = b]
           /\ b.pc = "done" /\ b.id = id /\ b.code = code
           /\ b.proc = request[r].proc /\ b.pair = request[r].pair
           /\ b.key = request[r].key
<1> DEFINE b == [request[r] EXCEPT !.pc = "done", !.id = id, !.code = code]
<1>2. request[r] \in Request
  OBVIOUS
<1>3. /\ b \in Request
      /\ b.pc = "done" /\ b.id = id /\ b.code = code
      /\ b.proc = request[r].proc /\ b.pair = request[r].pair
      /\ b.key = request[r].key
  BY <1>2 DEF Request
<1>4. request' = [request EXCEPT ![r] = b]
  BY DEF Reply
<1> QED
  BY <1>3, <1>4

\* A request is answered without an insert in three ways.
LEMMA AdmitNothingCases ==
  ASSUME RowsInv, NEW r \in Requests, AdmitNothing(r)
  PROVE  \/ \E u \in Existing(request[r].key) :
              u \in Updates /\ updates[u].pair = request[r].pair /\ Reply(r, u, "replayed")
         \/ /\ \E u \in Existing(request[r].key) : updates[u].pair # request[r].pair
            /\ Reply(r, NULL, "conflict")
         \/ Reply(r, NULL, "queue_full")
BY DEF AdmitNothing, Existing, RowsInv

\* The steps of a handler, of the server and of the clock.
LEMMA HandlerKeepsTypes ==
  ASSUME StoreInv, ProcInv, StoreTypeOK', NEW r \in Requests,
         Send(r) \/ HandlerStep(r) \/ AdmitError(r)
  PROVE  TypeOK'
<1>0. TypeOK /\ TypesByPart /\ JobsOK /\ TokensOK /\ RowsInv /\ RequestOK(request[r])
  BY TypeParts DEF ProcInv, StoreInv, TypesByPart, RequestsInv
<1>00. request \in [Requests -> Request] /\ request[r] \in Request
  BY <1>0 DEF TypesByPart
<1> SUFFICES TypesByPart'
  BY TypeParts
<1>1. CASE Send(r)
  <2>1. request' \in [Requests -> Request]
    BY <1>00, <1>1, SendEffect
  <2>2. JobsOK' /\ TokensOK'
    BY <1>0, <1>1 DEF Send, procVars, JobsOK, TokensOK, Holds
  <2> QED
    BY <1>0, <1>1, <2>1, <2>2 DEF Send, procVars, TypesByPart
<1>2. CASE Admit(r)
  <2>1. request' \in [Requests -> Request]
    BY <1>00, <1>2, AdmitEffect
  <2>2. JobsOK' /\ TokensOK'
    BY <1>0, <1>2 DEF Admit, procVars, JobsOK, TokensOK, Holds
  <2> QED
    BY <1>0, <1>2, <2>1, <2>2 DEF Admit, procVars, TypesByPart
<1>3. CASE AdmitNothing(r)
  <2>1. request' \in [Requests -> Request]
    BY <1>0, <1>00, <1>3, AdmitNothingCases, ReplyEffect
  <2>2. JobsOK' /\ TokensOK'
    BY <1>0, <1>3 DEF AdmitNothing, procVars, JobsOK, TokensOK, Holds
  <2> QED
    BY <1>0, <1>3, <2>1, <2>2 DEF AdmitNothing, procVars, TypesByPart
<1>4. CASE AdmitError(r)
  <2>1. request' \in [Requests -> Request]
    BY <1>00, <1>4, ReplyEffect DEF AdmitError
  <2>2. JobsOK' /\ TokensOK'
    BY <1>0, <1>4 DEF AdmitError, procVars, JobsOK, TokensOK, Holds
  <2>3. faults \in 0..MaxFaults /\ faults' \in 0..MaxFaults
    BY <1>0, <1>4, FaultTyped DEF AdmitError, TypesByPart
  <2>4. [op |-> "create", pair |-> request[r].pair, key |-> request[r].key] \in Command
    BY <1>0, <1>00, <1>4 DEF AdmitError, RequestOK, Request, Command
  <2>5. orphans' \subseteq Orphan
    BY <1>0, <1>4, <2>3, <2>4 DEF AdmitError, Abandon, Orphan, TypesByPart
  <2> QED
    BY <1>0, <1>4, <2>1, <2>2, <2>3, <2>5 DEF AdmitError, procVars, TypesByPart
<1>5. CASE NotifyAndReply(r)
  <2>1. request' \in [Requests -> Request]
    BY <1>0, <1>00, <1>5, ReplyEffect DEF NotifyAndReply, RequestOK
  <2>2. request[r].proc \in Procs
    BY <1>0, <1>5 DEF NotifyAndReply, RequestOK
  <2>3. TokensOK'
    BY <1>0, <1>5, <2>2, NotifyTyped DEF NotifyAndReply
  <2>4. JobsOK'
    BY <1>0, <1>5 DEF NotifyAndReply, JobsOK, Holds
  <2> QED
    BY <1>0, <1>5, <2>1, <2>3, <2>4 DEF NotifyAndReply, TypesByPart
<1> QED
  BY <1>1, <1>2, <1>3, <1>4, <1>5 DEF HandlerStep

\* Every step keeps the types.
LEMMA TypeNext == StoreInv /\ ProcInv /\ [Next]_vars => TypeOK'
<1> SUFFICES ASSUME StoreInv, ProcInv, [Next]_vars PROVE TypeOK'
  OBVIOUS
<1>0. TypeOK /\ TypesByPart /\ JobsOK /\ TokensOK
  BY TypeParts DEF ProcInv, TypesByPart
<1>1. StoreTypeOK'
  BY StoreInvNext DEF StoreInv, RowsInv, RowOK, StoreTypeOK
<1>2. ASSUME NEW o \in orphans, OrphanApplied(o) PROVE TypesByPart'
  <2>1. JobsOK' /\ TokensOK'
    BY <1>0, <1>2 DEF OrphanApplied, procVars, JobsOK, TokensOK, Holds
  <2> QED
    BY <1>0, <1>1, <1>2, <2>1 DEF OrphanApplied, procVars, TypesByPart
<1>3. CASE ClockTick \/ UNCHANGED vars
  <2>1. JobsOK' /\ TokensOK'
    BY <1>0, <1>3 DEF ClockTick, vars, procVars, JobsOK, TokensOK, Holds
  <2> QED
    BY <1>0, <1>1, <1>3, <2>1, TypeParts DEF ClockTick, vars, procVars, TypesByPart
<1>4. ASSUME NEW p \in Procs, Start(p) \/ Crash(p) \/ Recover(p) \/ RecoverError(p)
      PROVE  TypeOK'
  BY <1>1, <1>4, ReplicaKeepsTypes
<1>5. ASSUME NEW w \in Workers, WorkerStep(w) \/ ClaimError(w) \/ SettleError(w)
      PROVE  TypeOK'
  BY <1>1, <1>5, WorkerKeepsTypes
<1>6. ASSUME NEW r \in Requests, Send(r) \/ HandlerStep(r) \/ AdmitError(r)
      PROVE  TypeOK'
  BY <1>1, <1>6, HandlerKeepsTypes
<1> QED
  BY <1>2, <1>3, <1>4, <1>5, <1>6, TypeParts DEF Next

-----------------------------------------------------------------------------
(***************************************************************************)
(* Who holds an attempt after a step.                                      *)
(***************************************************************************)

\* Workers in S lose what they were settling to commands nobody waits for; all
\* others keep what they hold or are rid of it.
HandedOver(S) ==
  /\ \A w \in S : pc[w] = "settle" /\ ~Holds(w)'
  /\ \A w \in Workers : Holds(w)' => pc[w] = pc'[w] /\ job'[w] = job[w]
  /\ \A o \in Settling' : \/ o \in Settling
                          \/ \E w \in S : o = [no |-> faults, src |-> w, cmd |-> job[w]]
  /\ answers' = answers

\* A claim gives a new attempt to a worker that holds none.
ClaimCase ==
  \E w \in Workers, u \in Ready, locked \in SUBSET Ready :
    /\ pc[w] = "claim" /\ ClaimNext(u, locked)
    /\ pc' = [pc EXCEPT ![w] = "fetch"] /\ job' = [job EXCEPT ![w] = TaskOf(u)']
    /\ UNCHANGED <<orphans, answers>>

\* Every step but a claim and a provider's answer only hands over.
HolderCase ==
  \/ \E S \in SUBSET Workers : HandedOver(S)
  \/ ClaimCase
  \/ \E w \in Workers : Fetch(w)

\* An abandoned command that settles nothing adds no claim.
LEMMA AbandonOther ==
  ASSUME NEW src, NEW c, c.op \notin SettleOps, Abandon(src, c)
  PROVE  Settling' = Settling
BY DEF Abandon, Settling

\* A step that leaves the workers and the orphans alone hands nothing over.
LEMMA NothingHandedOver ==
  ASSUME \A w \in Workers : Holds(w)' => pc[w] = pc'[w] /\ job'[w] = job[w],
         Settling' \subseteq Settling, answers' = answers
  PROVE  HandedOver({})
BY DEF HandedOver

\* What a replica that dies hands over is what its workers were settling.
LEMMA CrashHandsOver ==
  ASSUME ProcInv, NEW p \in Procs, Crash(p)
  PROVE  \E S \in SUBSET Workers : HandedOver(S)
<1> DEFINE S == {w \in WorkersOf(p) : pc[w] = "settle"}
<1>1. /\ pc' = [w \in Workers |-> IF Host[w] = p THEN "off" ELSE pc[w]]
      /\ job' = [w \in Workers |-> IF Host[w] = p THEN NULL ELSE job[w]]
      /\ orphans' = orphans \cup
           {[no |-> faults, src |-> c[1], cmd |-> c[2]] : c \in InFlight(p)}
      /\ answers' = answers
  BY DEF Crash
<1>2. S \in SUBSET Workers /\ \A w \in S : pc[w] = "settle" /\ ~Holds(w)'
  BY <1>1 DEF WorkersOf, Holds
<1>3. \A w \in Workers : Holds(w)' => pc[w] = pc'[w] /\ job'[w] = job[w]
  BY <1>1 DEF Holds
<1>4. ASSUME NEW o \in Settling', o \notin Settling
      PROVE  \E w \in S : o = [no |-> faults, src |-> w, cmd |-> job[w]]
  <2>1. PICK c \in InFlight(p) : o = [no |-> faults, src |-> c[1], cmd |-> c[2]]
    BY <1>1, <1>4 DEF Settling
  <2>2. c[2].op \in SettleOps
    BY <1>4, <2>1 DEF Settling
  <2>3. PICK w \in Workers : pc[w] = "settle" /\ Host[w] = p /\ c = <<w, job[w]>>
    BY <2>2, InFlightTyped DEF ProcInv
  <2> QED
    BY <2>1, <2>3 DEF WorkersOf
<1>5. HandedOver(S)
  BY <1>1, <1>2, <1>3, <1>4 DEF HandedOver
<1> QED
  BY <1>2, <1>5

\* What a settling worker gives up is its own command.
LEMMA SettleErrorHandsOver ==
  ASSUME ProcInv, NEW w \in Workers, SettleError(w)
  PROVE  HandedOver({w})
<1>1. /\ pc[w] = "settle"
      /\ orphans' = orphans \cup {[no |-> faults, src |-> w, cmd |-> job[w]]}
      /\ pc' = [pc EXCEPT ![w] = "delay"] /\ job' = [job EXCEPT ![w] = NULL]
      /\ answers' = answers
  BY DEF SettleError, Abandon
<1>2. ~Holds(w)' /\ \A v \in Workers : Holds(v)' => pc[v] = pc'[v] /\ job'[v] = job[v]
  BY <1>1 DEF Holds, ProcInv, TypeOK
<1>3. \A o \in Settling' : o \in Settling \/ o = [no |-> faults, src |-> w, cmd |-> job[w]]
  BY <1>1 DEF Settling
<1> QED
  BY <1>1, <1>2, <1>3 DEF HandedOver

\* Every step is one of the three cases.
LEMMA HolderCases == ProcInv /\ [Next]_vars => HolderCase
<1> SUFFICES ASSUME ProcInv, [Next]_vars PROVE HolderCase
  OBVIOUS
<1>0. JobsOK /\ StartInv
  BY TypeParts DEF ProcInv, TypesByPart
<1>h. HandedOver({}) => HolderCase
  BY DEF HolderCase
<1>1. ASSUME NEW p \in Procs, Start(p) PROVE HandedOver({})
  BY <1>1, NothingHandedOver DEF Start, Settling, Holds
<1>2. ASSUME NEW p \in Procs, Crash(p) PROVE HolderCase
  BY <1>2, CrashHandsOver DEF HolderCase
<1>3. ASSUME NEW p \in Procs, AfterRecovery(p), UNCHANGED job
      PROVE  \A w \in Workers : Holds(w)' => pc[w] = pc'[w] /\ job'[w] = job[w]
  BY <1>3 DEF AfterRecovery, Holds
<1>4. ASSUME NEW p \in Procs, Recover(p) PROVE HandedOver({})
  <2>1. AfterRecovery(p) /\ UNCHANGED <<job, orphans, answers>>
    BY <1>4 DEF Recover, RecoverSkipping
  <2> QED
    BY <1>3, <2>1, NothingHandedOver DEF Settling
<1>5. ASSUME NEW p \in Procs, RecoverError(p) PROVE HandedOver({})
  <2>1. Settling' = Settling
    BY <1>5, AbandonOther DEF RecoverError, SettleOps
  <2>2. AfterRecovery(p) /\ UNCHANGED <<job, answers>>
    BY <1>5 DEF RecoverError
  <2> QED
    BY <1>3, <2>1, <2>2, NothingHandedOver
<1>6. ASSUME NEW w \in Workers, Claim(w) PROVE ClaimCase
  BY <1>6 DEF Claim, LockedByClaims, ClaimCase
<1>7. ASSUME NEW w \in Workers, ClaimNothing(w) PROVE HandedOver({})
  BY <1>0, <1>7, NothingHandedOver DEF ClaimNothing, Settling, Holds, JobsOK
<1>8. ASSUME NEW w \in Workers, Settle(w) PROVE HandedOver({})
  BY <1>0, <1>8, NothingHandedOver DEF Settle, Settling, Holds, JobsOK
<1>9. ASSUME NEW w \in Workers, PauseEnd(w) PROVE HandedOver({})
  BY <1>0, <1>9, NothingHandedOver DEF PauseEnd, Settling, Holds, JobsOK
<1>10. ASSUME NEW w \in Workers, ClaimError(w) PROVE HandedOver({})
  <2>1. Settling' = Settling
    BY <1>10, AbandonOther DEF ClaimError, SettleOps
  <2> QED
    BY <1>0, <1>10, <2>1, NothingHandedOver DEF ClaimError, Holds, JobsOK
<1>11. ASSUME NEW w \in Workers, SettleError(w) PROVE HolderCase
  BY <1>11, SettleErrorHandsOver DEF HolderCase
<1>12. ASSUME NEW r \in Requests, Send(r) \/ Admit(r) \/ AdmitNothing(r) \/ NotifyAndReply(r)
       PROVE  HandedOver({})
  BY <1>12, NothingHandedOver
  DEF Send, Admit, AdmitNothing, NotifyAndReply, procVars, Settling, Holds
<1>13. ASSUME NEW r \in Requests, AdmitError(r) PROVE HandedOver({})
  <2>1. Settling' = Settling
    BY <1>13, AbandonOther DEF AdmitError, SettleOps
  <2> QED
    BY <1>13, <2>1, NothingHandedOver DEF AdmitError, procVars, Holds
<1>14. ASSUME NEW o \in orphans, OrphanApplied(o) PROVE HandedOver({})
  BY <1>14, NothingHandedOver DEF OrphanApplied, procVars, Settling, Holds
<1>15. CASE ClockTick \/ UNCHANGED vars
  BY <1>h, <1>15, NothingHandedOver DEF ClockTick, procVars, vars, Settling, Holds
<1> QED
  BY <1>h, <1>1, <1>2, <1>4, <1>5, <1>6, <1>7, <1>8, <1>9, <1>10, <1>11, <1>12, <1>13,
     <1>14, <1>15
  DEF Next, WorkerStep, HandlerStep, HolderCase

\* What an answer justified stays justified.
LEMMA AnswersGrow ==
  ASSUME NEW A, NEW B, A \subseteq B, NEW c, CommandOK(A, c)
  PROVE  CommandOK(B, c)
BY DEF CommandOK, Answered

\* Commands are made by Fetch only, and handed over as they are.
LEMMA CommandsNext == StoreInv /\ ProcInv /\ [Next]_vars => CommandsInv'
<1> SUFFICES ASSUME StoreInv, ProcInv, [Next]_vars PROVE CommandsInv'
  OBVIOUS
<1>0. CommandsInv /\ TypeOK /\ JobsOK /\ RowsInv
  BY TypeParts DEF ProcInv, TypesByPart, StoreInv
<1>1. ASSUME NEW S \in SUBSET Workers, HandedOver(S) PROVE CommandsInv'
  BY <1>0, <1>1 DEF HandedOver, CommandsInv, Holds
<1>2. CASE ClaimCase
  <2>1. PICK w \in Workers, u \in Ready, locked \in SUBSET Ready :
          /\ pc[w] = "claim" /\ ClaimNext(u, locked)
          /\ pc' = [pc EXCEPT ![w] = "fetch"] /\ job' = [job EXCEPT ![w] = TaskOf(u)']
          /\ UNCHANGED <<orphans, answers>>
    BY <1>2 DEF ClaimCase
  <2>2. job'[w].attempt \in 1..MaxAttempts
    BY <1>0, <2>1, ClaimedTask DEF JobsOK
  <2>3. \A v \in Workers \ {w} : pc'[v] = pc[v] /\ job'[v] = job[v]
    BY <1>0, <2>1 DEF JobsOK
  <2>4. pc'[w] = "fetch" /\ Settling' = Settling
    BY <1>0, <2>1 DEF JobsOK, Settling
  <2> QED
    BY <1>0, <2>1, <2>2, <2>3, <2>4 DEF CommandsInv
<1>3. ASSUME NEW w \in Workers, Fetch(w) PROVE CommandsInv'
  <2>1. CommandOK(answers', job'[w]) /\ answers \subseteq answers'
    BY <1>0, <1>3, FetchedCommand
  <2>2. \A v \in Workers \ {w} : pc'[v] = pc[v] /\ job'[v] = job[v]
    BY <1>0, <1>3 DEF Fetch, JobsOK
  <2>3. pc'[w] = "settle" /\ Settling' = Settling
    BY <1>0, <1>3 DEF Fetch, JobsOK, Settling
  <2> QED
    BY <1>0, <2>1, <2>2, <2>3, AnswersGrow DEF CommandsInv
<1> QED
  BY <1>1, <1>2, <1>3, HolderCases DEF HolderCase

-----------------------------------------------------------------------------
(***************************************************************************)
(* Requests and the replicas' start.                                       *)
(***************************************************************************)

\* What a step does to the requests: nothing, or one handler's step, or the
\* unanswered requests of a dying replica end without an answer.
RequestCase ==
  \/ request' = request
  \/ \E r \in Requests :
       Send(r) \/ Admit(r) \/ AdmitNothing(r) \/ AdmitError(r) \/ NotifyAndReply(r)
  \/ \A r \in Requests :
       \/ request'[r] = request[r]
       \/ /\ request[r].pc # "done"
          /\ request'[r] = [request[r] EXCEPT !.pc = "done", !.code = NULL]

\* Every step is one of the three cases.
LEMMA RequestCases == [Next]_vars => RequestCase
<1> SUFFICES ASSUME [Next]_vars PROVE RequestCase
  OBVIOUS
<1>1. ASSUME NEW p \in Procs, Start(p) \/ Recover(p) \/ RecoverError(p)
      PROVE  RequestCase
  BY <1>1 DEF Start, Recover, RecoverSkipping, RecoverError, RequestCase
<1>2. ASSUME NEW p \in Procs, Crash(p) PROVE RequestCase
  BY <1>2 DEF Crash, RequestCase
<1>3. ASSUME NEW w \in Workers, WorkerStep(w) \/ ClaimError(w) \/ SettleError(w)
      PROVE  RequestCase
  BY <1>3 DEF WorkerStep, Claim, ClaimNothing, Fetch, Settle, PauseEnd, ClaimError,
       SettleError, RequestCase
<1>4. ASSUME NEW r \in Requests, Send(r) \/ HandlerStep(r) \/ AdmitError(r)
      PROVE  RequestCase
  BY <1>4 DEF HandlerStep, RequestCase
<1>5. ASSUME NEW o \in orphans, OrphanApplied(o) PROVE RequestCase
  BY <1>5 DEF OrphanApplied, RequestCase
<1>6. CASE ClockTick \/ UNCHANGED vars
  BY <1>6 DEF ClockTick, vars, RequestCase
<1> QED
  BY <1>1, <1>2, <1>3, <1>4, <1>5, <1>6 DEF Next

\* NULL is no answer code.
LEMMA CodeNotNull ==
  NULL \notin {"created", "replayed", "conflict", "queue_full", "unavailable"}
BY ServiceAssumption

\* NULL is no update.
LEMMA UpdateNotNull == NULL \notin Updates
BY StoreAssumption, NullAssumption

\* A request that ends without an answer stays well formed.
LEMMA DroppedRequestOK ==
  ASSUME NEW a \in Request, RequestOK(a)
  PROVE  /\ RequestOK([a EXCEPT !.pc = "done", !.code = NULL])
         /\ ~Creator([a EXCEPT !.pc = "done", !.code = NULL])
BY CodeNotNull DEF RequestOK, Request, Creator

\* Requests go through new, admit, notify and done.
LEMMA RequestsNext == StoreInv /\ ProcInv /\ [Next]_vars => RequestsInv'
<1> SUFFICES ASSUME StoreInv, ProcInv, [Next]_vars PROVE RequestsInv'
  OBVIOUS
<1>0. /\ RequestsInv /\ RowsInv /\ request \in [Requests -> Request]
      /\ request' \in [Requests -> Request]
  BY TypeParts, TypeNext DEF ProcInv, TypesByPart, StoreInv
<1>1. ASSUME NEW r \in Requests, NEW b, request' = [request EXCEPT ![r] = b], RequestOK(b)
      PROVE  RequestsInv'
  BY <1>0, <1>1 DEF RequestsInv
<1>2. CASE request' = request
  BY <1>0, <1>2 DEF RequestsInv
<1>3. ASSUME NEW r \in Requests, Send(r) PROVE RequestsInv'
  <2>1. PICK b : /\ request' = [request EXCEPT ![r] = b]
                 /\ b.pc = "admit" /\ b.proc \in Procs /\ b.pair \in Pairs
                 /\ b.id = request[r].id /\ b.code = request[r].code
    BY <1>0, <1>3, SendEffect
  <2>2. request[r].pc = "new" /\ RequestOK(request[r])
    BY <1>0, <1>3 DEF Send, RequestsInv
  <2> QED
    BY <1>1, <2>1, <2>2, CodeNotNull DEF RequestOK
<1>4. ASSUME NEW r \in Requests, Admit(r) PROVE RequestsInv'
  <2>1. PICK s \in Updates, b \in Request :
          /\ request' = [request EXCEPT ![r] = b]
          /\ b.pc = "notify" /\ b.id = s
          /\ b.proc = request[r].proc /\ b.pair = request[r].pair
          /\ b.code = request[r].code
    BY <1>0, <1>4, AdmitEffect
  <2>2. request[r].pc = "admit" /\ RequestOK(request[r])
    BY <1>0, <1>4 DEF Admit, RequestsInv
  <2> QED
    BY <1>1, <2>1, <2>2, CodeNotNull DEF RequestOK
<1>5. ASSUME NEW r \in Requests, AdmitNothing(r) \/ AdmitError(r) PROVE RequestsInv'
  <2>1. \E id \in Updates \cup {NULL}, code \in {"replayed", "conflict", "queue_full", "unavailable"} :
          Reply(r, id, code)
    BY <1>0, <1>5, AdmitNothingCases DEF AdmitError
  <2>2. PICK b : /\ request' = [request EXCEPT ![r] = b]
                 /\ b.pc = "done" /\ b.code # "created"
    BY <1>0, <2>1, ReplyEffect
  <2> QED
    BY <1>1, <2>2 DEF RequestOK
<1>6. ASSUME NEW r \in Requests, NotifyAndReply(r) PROVE RequestsInv'
  <2>1. request[r].pc = "notify" /\ RequestOK(request[r])
    BY <1>0, <1>6 DEF NotifyAndReply, RequestsInv
  <2>2. request[r].id \in Updates /\ request[r].proc \in Procs
    BY <2>1 DEF RequestOK
  <2>3. PICK b : /\ request' = [request EXCEPT ![r] = b]
                 /\ b.pc = "done" /\ b.id \in Updates /\ b.proc \in Procs
    BY <1>0, <1>6, <2>2, ReplyEffect DEF NotifyAndReply
  <2> QED
    BY <1>1, <2>3 DEF RequestOK
<1>7. CASE \A r \in Requests :
             \/ request'[r] = request[r]
             \/ /\ request[r].pc # "done"
                /\ request'[r] = [request[r] EXCEPT !.pc = "done", !.code = NULL]
  <2>1. ASSUME NEW r \in Requests PROVE RequestOK(request'[r])
    <3>1. request[r] \in Request /\ RequestOK(request[r])
      BY <1>0 DEF RequestsInv
    <3> QED
      BY <1>7, <3>1, DroppedRequestOK
  <2> QED
    BY <2>1 DEF RequestsInv
<1> QED
  BY <1>2, <1>3, <1>4, <1>5, <1>6, <1>7, RequestCases DEF RequestCase

\* A replica's workers are off until its first recovery has ended.
LEMMA StartNext == ProcInv /\ [Next]_vars => StartInv'
<1> SUFFICES ASSUME ProcInv, [Next]_vars PROVE StartInv'
  OBVIOUS
<1>0. /\ StartInv /\ JobsOK /\ recovery \in [Procs -> {"off", "start", "pause"}]
      /\ Host \in [Workers -> Procs]
  BY TypeParts, ServiceAssumption DEF ProcInv, TypesByPart
<1>1. ASSUME NEW p \in Procs, Start(p) \/ Crash(p) PROVE StartInv'
  BY <1>0, <1>1 DEF Start, Crash, StartInv
<1>2. ASSUME NEW p \in Procs, AfterRecovery(p) PROVE StartInv'
  BY <1>0, <1>2 DEF AfterRecovery, StartInv
<1>3. ASSUME NEW w \in Workers, pc[w] # "off", recovery' = recovery,
             \A v \in Workers \ {w} : pc'[v] = pc[v]
      PROVE  StartInv'
  BY <1>0, <1>3 DEF StartInv
<1>4. ASSUME NEW w \in Workers, WorkerStep(w) \/ ClaimError(w) \/ SettleError(w)
      PROVE  StartInv'
  <2>1. /\ pc[w] # "off" /\ recovery' = recovery
        /\ \A v \in Workers \ {w} : pc'[v] = pc[v]
    BY <1>0, <1>4 DEF WorkerStep, Claim, ClaimNothing, Fetch, Settle, PauseEnd, ClaimError,
         SettleError, JobsOK
  <2> QED
    BY <1>3, <2>1
<1>5. CASE UNCHANGED <<pc, recovery>>
  BY <1>0, <1>5 DEF StartInv
<1>6. ASSUME NEW r \in Requests, Send(r) \/ HandlerStep(r) \/ AdmitError(r)
      PROVE  UNCHANGED <<pc, recovery>>
  BY <1>6 DEF Send, HandlerStep, Admit, AdmitNothing, NotifyAndReply, AdmitError, procVars
<1>7. ASSUME NEW o \in orphans, OrphanApplied(o) PROVE UNCHANGED <<pc, recovery>>
  BY <1>7 DEF OrphanApplied, procVars
<1>8. CASE ClockTick \/ UNCHANGED vars
  BY <1>5, <1>8 DEF ClockTick, procVars, vars
<1> QED
  BY <1>1, <1>2, <1>4, <1>5, <1>6, <1>7, <1>8
  DEF Next, Recover, RecoverSkipping, RecoverError

\* The part of the invariant that the refinement needs is inductive.
LEMMA ProcInvNext == StoreInv /\ ProcInv /\ [Next]_vars => ProcInv'
BY TypeNext, CommandsNext, RequestsNext, StartNext DEF ProcInv

\* No worker runs, no request was sent and nothing is stored at the beginning.
LEMMA ProcInvInit == Init => StoreInv /\ ProcInv
<1> SUFFICES ASSUME Init PROVE StoreInv /\ ProcInv
  OBVIOUS
<1>1. RowsInv /\ OneUpdatePerKey /\ Rows = {} /\ Active = {}
  BY RowsInvInit DEF Init, StoreInit, OneUpdatePerKey, Rows, Active
<1>2. StoreInv
  BY <1>1, FS_EmptySet, StoreAssumption DEF StoreInv, CapacityInv, ActiveWithinLimit
<1>3. StoreTypeOK
  BY <1>1 DEF RowsInv, RowOK, StoreTypeOK
<1>4. JobsOK
  BY DEF Init, JobsOK, Holds
<1>5. TokensOK
  BY ConcurrencyNat DEF Init, TokensOK
<1>6. request \in [Requests -> Request]
  BY DEF Init, Request
<1>7. TypeOK
  BY <1>3, <1>4, <1>5, <1>6, TypeParts, ServiceAssumption, StoreAssumption
  DEF Init, TypesByPart
<1>8. CommandsInv /\ StartInv
  BY ServiceAssumption DEF Init, CommandsInv, StartInv, Settling
<1>9. RequestsInv
  BY CodeNotNull DEF Init, RequestsInv, RequestOK
<1> QED
  BY <1>2, <1>7, <1>8, <1>9 DEF ProcInv

\* Both hold in every behaviour of the processes.
LEMMA ProcInvHolds == Spec => [](StoreInv /\ ProcInv)
BY ProcInvInit, StoreInvNext, ProcInvNext, PTL DEF Spec

\* The variables keep their types, the store's tables included.
THEOREM ServiceTypeCorrect == Spec => []TypeOK
<1>1. ProcInv => TypeOK
  BY DEF ProcInv
<1> QED
  BY <1>1, ProcInvHolds, PTL

\* The processes implement the store's specification: however many replicas
\* and workers there are, whatever dies and whatever the server executes late,
\* the tables see only calls the store was specified for.  All theorems about
\* StoreSpec hold of the processes.
THEOREM ImplementsStore == Spec => StoreSpec
<1>1. Init => StoreInit
  BY DEF Init
<1>2. StoreInv /\ ProcInv /\ [Next]_vars => [StoreNext]_storeVars
  BY RefinesStore DEF StoreInv
<1> QED
  BY <1>1, <1>2, ProcInvHolds, PTL DEF Spec, StoreSpec

-----------------------------------------------------------------------------
(***************************************************************************)
(* One owner for each attempt.                                             *)
(***************************************************************************)

\* What was handed out stays handed out: rows stay and attempts never go back.
LEMMA IssuedStays ==
  ASSUME RowsInv, [StoreNext]_storeVars, NEW c, Issued(updates, c)
  PROVE  Issued(updates', c)
<1>1. /\ c.id \in Rows' /\ updates'[c.id].attempt >= updates[c.id].attempt
      /\ c.attempt \in 1..updates[c.id].attempt
  BY RowsEvolveNext DEF Issued, Rows
<1>2. RowsInv'
  BY RowsInvNext
<1>3. updates'[c.id].attempt \in Nat /\ updates[c.id].attempt \in Nat
  BY <1>1, <1>2 DEF RowsInv, RowOK, UpdateRow, Issued, Rows
<1>4. c.attempt \in 1..updates'[c.id].attempt
  BY <1>1, <1>3
<1> QED
  BY <1>1, <1>4 DEF Issued, Rows

\* A claim is of an attempt nobody else can hold, and handing over keeps the
\* owners apart.
LEMMA OwnersNext == StoreInv /\ ProcInv /\ OwnersInv /\ [Next]_vars => OwnersInv'
<1> SUFFICES ASSUME StoreInv, ProcInv, OwnersInv, [Next]_vars PROVE OwnersInv'
  OBVIOUS
<1>0. JobsOK /\ TypeOK /\ CommandsInv /\ RowsInv /\ [StoreNext]_storeVars
  BY TypeParts, RefinesStore DEF ProcInv, TypesByPart, StoreInv
<1>1. \A c : Issued(updates, c) => Issued(updates', c)
  BY <1>0, IssuedStays
<1>2. ASSUME NEW S \in SUBSET Workers, HandedOver(S) PROVE OwnersInv'
  <2>1. \A w \in Workers : Holds(w)' => Holds(w) /\ job'[w] = job[w] /\ w \notin S
    BY <1>2 DEF HandedOver, Holds
  <2>2. \A o \in Settling' :
          o \in Settling \/ \E w \in S : /\ o = [no |-> faults, src |-> w, cmd |-> job[w]]
                                         /\ Holds(w)
    BY <1>2 DEF HandedOver, Holds
  <2>3. \A v, w \in Workers :
          Holds(v)' /\ Holds(w)' /\ SameAttempt(job'[v], job'[w]) => v = w
    BY <2>1 DEF OwnersInv
  <2>4. \A w \in Workers, o \in Settling' : Holds(w)' => ~SameAttempt(job'[w], o.cmd)
    BY <2>1, <2>2 DEF OwnersInv
  <2>5. \A o, x \in Settling' : SameAttempt(o.cmd, x.cmd) => o = x
    <3> SUFFICES ASSUME NEW o \in Settling', NEW x \in Settling', SameAttempt(o.cmd, x.cmd)
                 PROVE  o = x
      OBVIOUS
    <3>1. CASE o \in Settling /\ x \in Settling
      BY <3>1 DEF OwnersInv
    <3>2. CASE o \in Settling /\ x \notin Settling
      BY <2>2, <3>2 DEF OwnersInv, SameAttempt
    <3>3. CASE o \notin Settling /\ x \in Settling
      BY <2>2, <3>3 DEF OwnersInv, SameAttempt
    <3>4. CASE o \notin Settling /\ x \notin Settling
      BY <2>2, <3>4 DEF OwnersInv
    <3> QED
      BY <3>1, <3>2, <3>3, <3>4
  <2>6. /\ \A w \in Workers : Holds(w)' => Issued(updates', job'[w])
        /\ \A o \in Settling' : Issued(updates', o.cmd)
    BY <1>1, <2>1, <2>2 DEF OwnersInv
  <2> QED
    BY <2>3, <2>4, <2>5, <2>6 DEF OwnersInv
<1>3. CASE ClaimCase
  <2>1. PICK w \in Workers, u \in Ready, locked \in SUBSET Ready :
          /\ pc[w] = "claim" /\ ClaimNext(u, locked)
          /\ pc' = [pc EXCEPT ![w] = "fetch"] /\ job' = [job EXCEPT ![w] = TaskOf(u)']
          /\ UNCHANGED <<orphans, answers>>
    BY <1>3 DEF ClaimCase
  <2>2. /\ job'[w].id = u /\ job'[w].attempt = updates[u].attempt + 1
        /\ updates'[u].attempt = updates[u].attempt + 1 /\ updates[u].attempt \in Nat
        /\ u \in Rows /\ u \in Rows'
    BY <1>0, <2>1, ClaimedTask, RowsEvolveNext DEF JobsOK, Ready, RowsInv, RowOK, UpdateRow
  <2>3. \A v \in Workers \ {w} : (Holds(v)' <=> Holds(v)) /\ job'[v] = job[v]
    BY <1>0, <2>1 DEF JobsOK, Holds
  <2>4. Settling' = Settling
    BY <2>1 DEF Settling
  <2>5. \A c : Issued(updates, c) => ~SameAttempt(job'[w], c)
    BY <2>2 DEF Issued, SameAttempt
  <2>6. Issued(updates', job'[w])
    BY <2>2 DEF Issued, Rows
  <2>7. \A v, x \in Workers :
          Holds(v)' /\ Holds(x)' /\ SameAttempt(job'[v], job'[x]) => v = x
    BY <2>3, <2>5 DEF OwnersInv, SameAttempt
  <2>8. \A v \in Workers, o \in Settling' : Holds(v)' => ~SameAttempt(job'[v], o.cmd)
    BY <2>3, <2>4, <2>5 DEF OwnersInv
  <2>9. /\ \A v \in Workers : Holds(v)' => Issued(updates', job'[v])
        /\ \A o \in Settling' : Issued(updates', o.cmd)
    BY <1>1, <2>3, <2>4, <2>6 DEF OwnersInv
  <2> QED
    BY <2>4, <2>7, <2>8, <2>9 DEF OwnersInv
<1>4. ASSUME NEW w \in Workers, Fetch(w) PROVE OwnersInv'
  <2>1. SameAttempt(job'[w], job[w]) /\ Holds(w)
    BY <1>0, <1>4, FetchedCommand DEF Fetch, Holds
  <2>2. \A v \in Workers : (Holds(v)' <=> Holds(v)) /\ SameAttempt(job'[v], job[v])
    BY <1>0, <1>4, <2>1 DEF Fetch, JobsOK, Holds, SameAttempt
  <2>3. Settling' = Settling /\ updates' = updates
    BY <1>4 DEF Fetch, Settling, storeVars
  <2> QED
    BY <2>2, <2>3 DEF OwnersInv, SameAttempt, Issued
<1> QED
  BY <1>2, <1>3, <1>4, HolderCases DEF HolderCase

\* At the beginning nobody holds anything.
LEMMA OwnersInit == Init => OwnersInv
BY DEF Init, OwnersInv, Holds, Settling

\* In every behaviour the holders of attempts are apart.
LEMMA OwnersHold == Spec => []OwnersInv
BY OwnersInit, OwnersNext, ProcInvHolds, PTL DEF Spec

\* Through expired leases, lost replies and restarts of any number of replicas,
\* (id, attempt) identifies at most one owner.
THEOREM AttemptHasOneOwnerHolds == Spec => []AttemptHasOneOwner
<1>1. OwnersInv => AttemptHasOneOwner
  <2> SUFFICES ASSUME OwnersInv PROVE AttemptHasOneOwner
    OBVIOUS
  <2>1. \A c \in Claims :
          \/ \E w \in Workers : /\ Holds(w)
                                /\ c = [by |-> w, id |-> job[w].id, attempt |-> job[w].attempt]
          \/ \E o \in Settling : c = [by |-> <<o.no, o.src>>, id |-> o.cmd.id,
                                      attempt |-> o.cmd.attempt]
    BY DEF Claims, Holds, Settling, SettleOps
  <2>2. \A c, d \in Claims : c.id = d.id /\ c.attempt = d.attempt => c = d
    <3> SUFFICES ASSUME NEW c \in Claims, NEW d \in Claims,
                        c.id = d.id, c.attempt = d.attempt
                 PROVE  c = d
      OBVIOUS
    <3>1. CASE /\ \E w \in Workers : /\ Holds(w)
                    /\ c = [by |-> w, id |-> job[w].id, attempt |-> job[w].attempt]
               /\ \E w \in Workers : /\ Holds(w)
                    /\ d = [by |-> w, id |-> job[w].id, attempt |-> job[w].attempt]
      BY <3>1 DEF OwnersInv, SameAttempt
    <3>2. CASE /\ \E o \in Settling : c = [by |-> <<o.no, o.src>>, id |-> o.cmd.id,
                                           attempt |-> o.cmd.attempt]
               /\ \E o \in Settling : d = [by |-> <<o.no, o.src>>, id |-> o.cmd.id,
                                           attempt |-> o.cmd.attempt]
      BY <3>2 DEF OwnersInv, SameAttempt
    <3> QED
      BY <2>1, <3>1, <3>2 DEF OwnersInv, SameAttempt
  <2>3. \A c \in Claims : c.id \in Rows /\ c.attempt \in 1..updates[c.id].attempt
    BY <2>1 DEF OwnersInv, Issued, Rows
  <2> QED
    BY <2>2, <2>3 DEF AttemptHasOneOwner
<1> QED
  BY <1>1, OwnersHold, PTL

-----------------------------------------------------------------------------
(***************************************************************************)
(* What a finished update tells.                                           *)
(***************************************************************************)

\* OutcomeJustified for one row, from the answers A.
Outcome(A, u, r) ==
  LET c == [id |-> u, attempt |-> r.attempt] IN
  /\ r.status = "completed" => Answered(A, c, "quote", QuoteOf(r))
  /\ r.failure_code = "provider_permanent" => Answered(A, c, "permanent", NULL)
  /\ r.failure_code = "attempts_exhausted" => r.attempt = MaxAttempts

\* OutcomeJustified says it of every row.
LEMMA OutcomeByRow ==
  /\ OutcomeJustified <=> \A u \in Rows : Outcome(answers, u, updates[u])
  /\ OutcomeJustified' <=> \A u \in Rows' : Outcome(answers', u, updates'[u])
BY DEF OutcomeJustified, Outcome, Answered

\* An executed settling command owned its row and writes no other.
LEMMA SettledEffect ==
  ASSUME NEW c \in SettleCommand, Settled(c)
  PROVE  /\ Owns(c.id, c.attempt) /\ Rows' = Rows
         /\ \A v \in Rows \ {c.id} : updates'[v] = updates[v]
         /\ c.op = "complete" => updates'[c.id] = CompletedRow(updates[c.id], c.quote)
         /\ c.op = "retry" =>
              \E d \in RetryDelays : updates'[c.id] = RetriedRow(updates[c.id], d)
         /\ c.op = "fail" => updates'[c.id] = FailedRow(updates[c.id], c.code)
<1>1. CASE c.op = "complete" /\ Complete(c.id, c.attempt, c.pair, c.quote)
  BY <1>1 DEF Complete, Owns, Rows
<1>2. CASE c.op = "retry" /\ \E d \in RetryDelays : Retry(c.id, c.attempt, d)
  BY <1>2 DEF Retry, Owns, Rows
<1>3. CASE c.op = "fail" /\ Fail(c.id, c.attempt, c.code)
  BY <1>3 DEF Fail, Owns, Rows
<1> QED
  BY <1>1, <1>2, <1>3 DEF Settled

\* A row that waits or is being processed tells of no outcome.
LEMMA UnfinishedOutcome ==
  ASSUME NEW A, NEW u, NEW r, RowOK(r), r.status \in ActiveStatus
  PROVE  Outcome(A, u, r)
<1>1. r.failure_code = NULL /\ NULL \notin FailureCodes
  BY NullAssumption DEF RowOK, UpdateStateShape, TerminalStatus, ActiveStatus
<1>2. r.failure_code \notin {"provider_permanent", "attempts_exhausted"}
  BY <1>1 DEF FailureCodes
<1> QED
  BY <1>2 DEF Outcome, ActiveStatus

\* What a settling command writes is what the provider answered.
LEMMA SettledOutcome ==
  ASSUME RowsInv, NEW c \in SettleCommand, NEW A, CommandOK(A, c), Settled(c),
         RowOK(updates'[c.id])
  PROVE  Outcome(A, c.id, updates'[c.id])
<1> DEFINE r == updates[c.id]
           t == updates'[c.id]
<1>0. r \in UpdateRow /\ r.attempt = c.attempt /\ r.status = "processing" /\ r.failure_code = NULL
  BY SettledEffect, NullAssumption DEF Owns, Status, RowsInv, RowOK, UpdateStateShape, TerminalStatus
<1>00. "provider_permanent" # NULL /\ "attempts_exhausted" # NULL
  BY NullAssumption DEF FailureCodes
<1>1. CASE c.op = "complete"
  <2>1. /\ t.status = "completed" /\ t.attempt = c.attempt /\ t.failure_code = NULL
    BY <1>0, <1>1, SettledEffect DEF CompletedRow, UpdateRow
  <2>2. QuoteOf(t) = c.quote
    BY <1>0, <1>1, SettledEffect, SettleFields, CompletedRowOK
    DEF RowsInv, Owns
  <2> QED
    BY <1>00, <1>1, <2>1, <2>2 DEF CommandOK, Outcome, Answered
<1>2. CASE c.op = "retry"
  <2>1. t.status = "pending"
    BY <1>0, <1>2, SettledEffect DEF RetriedRow, UpdateRow
  <2> QED
    BY <2>1, UnfinishedOutcome DEF ActiveStatus
<1>3. CASE c.op = "fail"
  <2>1. /\ t.status = "failed" /\ t.attempt = c.attempt /\ t.failure_code = c.code
    BY <1>0, <1>3, SettledEffect DEF FailedRow, UpdateRow
  <2> QED
    BY <1>3, <2>1 DEF CommandOK, Outcome, Answered
<1> QED
  BY <1>1, <1>2, <1>3, SettleFields DEF SettleOps

\* A recovery gives a job up only at the limit.
LEMMA RecoveredOutcome ==
  ASSUME NEW A, NEW u, NEW r, RowOK(r), r.status = "processing", RowOK(RecoveredRow(r))
  PROVE  Outcome(A, u, RecoveredRow(r))
<1>0. r \in UpdateRow /\ r.attempt \in Nat /\ r.attempt <= MaxAttempts
  BY DEF RowOK, RowBounded, UpdateRow
<1>1. CASE r.attempt < MaxAttempts
  <2>1. RecoveredRow(r).status = "pending"
    BY <1>0, <1>1 DEF RecoveredRow, UpdateRow
  <2> QED
    BY <2>1, UnfinishedOutcome DEF ActiveStatus
<1>2. CASE ~(r.attempt < MaxAttempts)
  <2>1. /\ RecoveredRow(r).status = "failed" /\ RecoveredRow(r).attempt = r.attempt
        /\ RecoveredRow(r).failure_code = "attempts_exhausted"
    BY <1>0, <1>2 DEF RecoveredRow, UpdateRow
  <2>2. r.attempt = MaxAttempts
    BY <1>0, <1>2, StoreAssumption
  <2> QED
    BY <2>1, <2>2 DEF Outcome
<1> QED
  BY <1>1, <1>2

\* No step forgets an answer.
LEMMA AnswersKept == ProcInv /\ [Next]_vars => answers \subseteq answers'
<1> SUFFICES ASSUME ProcInv, [Next]_vars PROVE answers \subseteq answers'
  OBVIOUS
<1>1. ASSUME NEW w \in Workers, Fetch(w) PROVE answers \subseteq answers'
  BY <1>1, FetchedCommand DEF ProcInv
<1> QED
  BY <1>1, HolderCases DEF HolderCase, HandedOver, ClaimCase

\* Every row a step writes has an outcome the answers justify.
LEMMA OutcomeNext == StoreInv /\ ProcInv /\ OutcomeJustified /\ [Next]_vars => OutcomeJustified'
<1> SUFFICES ASSUME StoreInv, ProcInv, OutcomeJustified, [Next]_vars,
                    NEW u \in Rows'
             PROVE  Outcome(answers', u, updates'[u])
  BY OutcomeByRow
<1>0. /\ RowsInv /\ TypeOK /\ CommandsInv /\ answers \subseteq answers'
      /\ RowOK(updates'[u]) /\ StoreCase
  BY StoreInvNext, StoreCases, AnswersKept DEF StoreInv, ProcInv, RowsInv
<1>1. \A v \in Rows : RowOK(updates[v]) /\ Outcome(answers, v, updates[v])
  BY <1>0, OutcomeByRow DEF RowsInv
<1>2. SUFFICES Outcome(answers, u, updates'[u])
  BY <1>0 DEF Outcome, Answered
<1>3. CASE u \in Rows /\ updates'[u] = updates[u]
  BY <1>1, <1>3
<1>4. ASSUME NEW c \in SettleCommand, CommandOK(answers, c), Settled(c)
      PROVE  Outcome(answers, u, updates'[u])
  <2>1. CASE u = c.id
    BY <1>0, <1>4, <2>1, SettledOutcome
  <2>2. CASE u # c.id
    BY <1>1, <1>4, <2>2, SettledEffect
  <2> QED
    BY <2>1, <2>2
<1>5. ASSUME NEW v \in Ready, NEW locked, ClaimNext(v, locked)
      PROVE  Outcome(answers, u, updates'[u])
  <2>1. CASE u = v
    <3>1. updates[u] \in UpdateRow /\ updates'[u] = ClaimedRow(updates[u])
      BY <1>1, <1>5, <2>1 DEF ClaimNext, Ready, Rows, RowOK
    <3>2. updates'[u].status = "processing"
      BY <3>1 DEF ClaimedRow, UpdateRow
    <3> QED
      BY <1>0, <3>2, UnfinishedOutcome DEF ActiveStatus
  <2>2. CASE u # v
    BY <1>1, <1>5, <2>2 DEF ClaimNext, Rows
  <2> QED
    BY <2>1, <2>2
<1>6. ASSUME NEW s \in Updates, NEW p \in Pairs, NEW k \in Keys \cup {NULL},
             Insert(s, p, k, now)
      PROVE  Outcome(answers, u, updates'[u])
  <2>1. CASE u = s
    <3>1. updates'[u].status = "pending"
      BY <1>6, <2>1 DEF Insert, NewRow
    <3> QED
      BY <1>0, <3>1, UnfinishedOutcome DEF ActiveStatus
  <2>2. CASE u # s
    BY <1>1, <1>6, <2>2 DEF Insert, Rows
  <2> QED
    BY <2>1, <2>2
<1>7. ASSUME NEW B, NEW locked, NEW n, RecoverExpired(B, locked, n)
      PROVE  Outcome(answers, u, updates'[u])
  <2>1. /\ u \in Rows /\ updates'[u] = IF u \in B THEN RecoveredRow(updates[u]) ELSE updates[u]
        /\ B \subseteq Expired
    BY <1>7 DEF RecoverExpired, IsBatch, Rows
  <2>2. u \in B => updates[u].status = "processing"
    BY <2>1 DEF Expired, Status
  <2> QED
    BY <1>0, <1>1, <2>1, <2>2, RecoveredOutcome
<1>8. CASE UNCHANGED storeVars \/ Tick
  BY <1>1, <1>8 DEF storeVars, Tick, Rows
<1> QED
  BY <1>0, <1>4, <1>5, <1>6, <1>7, <1>8, HeldCommands DEF StoreCase, CommandsInv

\* A stored quote or permanent failure is what the provider answered to the
\* last attempt, and a job is given up as exhausted only at MAX_ATTEMPTS:
\* through late commands, lost replies and dead owners.
THEOREM OutcomeJustifiedHolds == Spec => []OutcomeJustified
<1>1. Init => OutcomeJustified
  BY DEF Init, StoreInit, OutcomeJustified, Rows
<1> QED
  BY <1>1, OutcomeNext, ProcInvHolds, PTL DEF Spec

-----------------------------------------------------------------------------
(***************************************************************************)
(* The lease protects its owner.                                           *)
(***************************************************************************)

\* While its lease runs, the row of a claimed attempt is written by its owner
\* alone: nobody else's command carries that attempt, a claim takes waiting
\* rows and a recovery expired ones.
LEMMA OnlyOwnerWrites ==
  ASSUME StoreInv, ProcInv, OwnersInv, StoreCase, NEW w \in Workers, Holds(w),
         NEW u \in Rows, job[w].id = u, Owns(u, job[w].attempt),
         now < updates[u].lease_until
  PROVE  updates'[u] = updates[u] \/ pc'[w] = "claim"
<1>0. RowsInv /\ TypeOK
  BY DEF StoreInv, ProcInv
<1>1. CASE \E x \in Workers : pc[x] = "settle" /\ pc'[x] = "claim" /\ Settled(job[x])
  <2>1. PICK x \in Workers : pc[x] = "settle" /\ pc'[x] = "claim" /\ Settled(job[x])
    BY <1>1
  <2>2. /\ Owns(job[x].id, job[x].attempt)
        /\ \A v \in Rows \ {job[x].id} : updates'[v] = updates[v]
    BY <1>0, <2>1, HeldCommands, SettledEffect
  <2>3. job[x].id = u => x = w
    BY <2>1, <2>2 DEF OwnersInv, Holds, SameAttempt, Owns
  <2> QED
    BY <2>1, <2>2, <2>3
<1>2. CASE \E o \in Settling : Settled(o.cmd)
  <2>1. PICK o \in Settling : Settled(o.cmd)
    BY <1>2
  <2>2. /\ Owns(o.cmd.id, o.cmd.attempt)
        /\ \A v \in Rows \ {o.cmd.id} : updates'[v] = updates[v]
    BY <1>0, <2>1, HeldCommands, SettledEffect
  <2>3. o.cmd.id # u
    BY <2>2 DEF OwnersInv, SameAttempt, Owns
  <2> QED
    BY <2>2, <2>3
<1>3. CASE \E v \in Ready, locked \in SUBSET Updates : ClaimNext(v, locked)
  BY <1>3 DEF ClaimNext, Ready, Owns, Status, Rows
<1>4. CASE \E s \in Updates, p \in Pairs, k \in Keys \cup {NULL} : Insert(s, p, k, now)
  <2>1. now \in 0..now
    BY <1>0 DEF RowsInv
  <2> QED
    BY <1>0, <1>4, <2>1, InsertStep
<1>5. CASE \E B \in SUBSET Updates, locked \in SUBSET Updates, n \in 1..RecoveryBatch :
             RecoverExpired(B, locked, n)
  <2>1. updates[u].lease_until \in Nat /\ now \in Nat
    BY <1>0 DEF Owns, Status, RowsInv, RowOK, UpdateStateShape, TerminalStatus, UpdateRow
  <2>2. u \notin Expired
    BY <2>1 DEF Expired
  <2> QED
    BY <1>5, <2>2 DEF RecoverExpired, IsBatch
<1>6. CASE UNCHANGED storeVars \/ Tick
  BY <1>6 DEF storeVars, Tick
<1> QED
  BY <1>1, <1>2, <1>3, <1>4, <1>5, <1>6 DEF StoreCase

\* Neither a restarting replica's recovery nor the late command of an earlier
\* owner takes a claimed attempt from the live worker that holds it, before
\* its lease has run out.
THEOREM LeaseProtectsOwnerHolds == Spec => LeaseProtectsOwner
<1> DEFINE Protected ==
      \A w \in Workers, u \in Rows :
        /\ pc[w] \in {"fetch", "settle"}
        /\ job[w].id = u /\ Owns(u, job[w].attempt)
        /\ now < updates[u].lease_until
        => \/ updates'[u] = updates[u]
           \/ pc'[w] = "claim"
<1>1. StoreInv /\ ProcInv /\ OwnersInv /\ [Next]_vars => [Protected]_vars
  <2> SUFFICES ASSUME StoreInv, ProcInv, OwnersInv, [Next]_vars PROVE Protected
    OBVIOUS
  <2>1. StoreCase
    BY StoreCases DEF StoreInv
  <2> QED
    BY <2>1, OnlyOwnerWrites DEF Holds
<1> QED
  BY <1>1, ProcInvHolds, OwnersHold, PTL DEF Spec, LeaseProtectsOwner

-----------------------------------------------------------------------------
(***************************************************************************)
(* What requests are answered.                                             *)
(***************************************************************************)

\* An answer about a row stays true: rows stay, with their pair and key.
LEMMA AnswerStays ==
  ASSUME RowsInv, [StoreNext]_storeVars, NEW a, AnswerOK(updates, a)
  PROVE  AnswerOK(updates', a)
<1>1. \A u \in Rows : /\ u \in Rows' /\ updates'[u].pair = updates[u].pair
                      /\ updates'[u].idempotency_key = updates[u].idempotency_key
  BY RowsEvolveNext
<1> QED
  BY <1>1 DEF AnswerOK, Rows

\* A request that ends without an answer claims nothing new.
LEMMA DroppedAnswerOK ==
  ASSUME NEW a \in Request, NEW U, AnswerOK(U, a)
  PROVE  AnswerOK(U, [a EXCEPT !.pc = "done", !.code = NULL])
BY CodeNotNull DEF AnswerOK, Request

\* The answers after a step that changes one request.
LEMMA OneAnswerNext ==
  ASSUME RowsInv, [StoreNext]_storeVars, request \in [Requests -> Request], AnswersInv,
         NEW r \in Requests, NEW b, request' = [request EXCEPT ![r] = b],
         AnswerOK(updates', b),
         Creator(b) => \A s \in Requests \ {r} : Creator(request[s]) => request[s].id # b.id
  PROVE  AnswersInv'
<1>1. request'[r] = b /\ \A s \in Requests \ {r} : request'[s] = request[s]
  OBVIOUS
<1>2. \A s \in Requests : AnswerOK(updates', request'[s])
  BY <1>1, AnswerStays DEF AnswersInv
<1>3. ASSUME NEW s \in Requests, NEW t \in Requests, s # t,
             Creator(request'[s]), Creator(request'[t])
      PROVE  request'[s].id # request'[t].id
  BY <1>1, <1>3 DEF AnswersInv
<1>4. \A s, t \in Requests :
        s # t /\ Creator(request'[s]) /\ Creator(request'[t]) => request'[s].id # request'[t].id
  BY <1>3
<1> QED
  BY <1>2, <1>4 DEF AnswersInv, Creator

\* A created update is one no other request made; a replay and a conflict are
\* told of the row stored under the key.
LEMMA AnswersNext == StoreInv /\ ProcInv /\ AnswersInv /\ [Next]_vars => AnswersInv'
<1> SUFFICES ASSUME StoreInv, ProcInv, AnswersInv, [Next]_vars PROVE AnswersInv'
  OBVIOUS
<1>0. /\ RequestsInv /\ RowsInv /\ request \in [Requests -> Request]
      /\ request' \in [Requests -> Request] /\ [StoreNext]_storeVars
  BY TypeParts, TypeNext, RefinesStore DEF ProcInv, TypesByPart, StoreInv
<1>1. \A r \in Requests : RequestOK(request[r]) /\ AnswerOK(updates', request[r])
  BY <1>0, AnswerStays DEF RequestsInv, AnswersInv
<1>2. CASE request' = request
  BY <1>1, <1>2 DEF AnswersInv
<1>3. ASSUME NEW r \in Requests, Send(r) PROVE AnswersInv'
  <2>1. PICK b : /\ request' = [request EXCEPT ![r] = b]
                 /\ b.pc = "admit" /\ b.id = request[r].id /\ b.code = request[r].code
    BY <1>0, <1>3, SendEffect
  <2>2. b.id = NULL /\ b.code = NULL
    BY <1>1, <1>3, <2>1 DEF Send, RequestOK
  <2>3. AnswerOK(updates', b) /\ ~Creator(b)
    BY <2>1, <2>2, CodeNotNull DEF AnswerOK, Creator
  <2> QED
    BY <1>0, <2>1, <2>3, OneAnswerNext
<1>4. ASSUME NEW r \in Requests, Admit(r) PROVE AnswersInv'
  <2>1. PICK s \in Updates, b \in Request :
          /\ Insert(s, request[r].pair, request[r].key, now)
          /\ request' = [request EXCEPT ![r] = b]
          /\ b.pc = "notify" /\ b.id = s
          /\ b.pair = request[r].pair /\ b.key = request[r].key
          /\ b.code = request[r].code
    BY <1>0, <1>4, AdmitEffect
  <2>2. /\ s \in DOMAIN updates' /\ updates'[s].pair = b.pair
        /\ updates'[s].idempotency_key = b.key /\ s \notin Rows
    BY <1>0, <2>1, StoreAssumption DEF Insert, IsNextSeq, NewRow, RowsInv
  <2>3. b.code = NULL
    BY <1>1, <1>4, <2>1 DEF Admit, RequestOK
  <2>4. AnswerOK(updates', b)
    BY <2>1, <2>2, <2>3, CodeNotNull DEF AnswerOK
  <2>5. \A t \in Requests : Creator(request[t]) => request[t].id \in Rows
    BY <1>1, UpdateNotNull DEF AnswersInv, AnswerOK, Creator, RequestOK, Rows
  <2> QED
    BY <1>0, <2>1, <2>2, <2>4, <2>5, OneAnswerNext
<1>5. ASSUME NEW r \in Requests, NEW id \in Updates \cup {NULL},
             NEW code \in {"replayed", "conflict", "queue_full", "unavailable"},
             Reply(r, id, code),
             AnswerOK(updates, [id |-> id, code |-> code, pair |-> request[r].pair,
                                key |-> request[r].key])
      PROVE  AnswersInv'
  <2>1. PICK b : /\ request' = [request EXCEPT ![r] = b]
                 /\ b.pc = "done" /\ b.id = id /\ b.code = code
                 /\ b.pair = request[r].pair /\ b.key = request[r].key
    BY <1>0, <1>5, ReplyEffect
  <2>2. AnswerOK(updates, b)
    BY <1>5, <2>1 DEF AnswerOK
  <2>3. AnswerOK(updates', b) /\ ~Creator(b)
    BY <1>0, <2>1, <2>2, AnswerStays DEF Creator
  <2> QED
    BY <1>0, <2>1, <2>3, OneAnswerNext
<1>6. ASSUME NEW r \in Requests, AdmitNothing(r) PROVE AnswersInv'
  <2>1. CASE \E u \in Existing(request[r].key) :
               u \in Updates /\ updates[u].pair = request[r].pair /\ Reply(r, u, "replayed")
    BY <1>5, <2>1 DEF AnswerOK, Existing, Rows
  <2>2. CASE /\ \E u \in Existing(request[r].key) : updates[u].pair # request[r].pair
             /\ Reply(r, NULL, "conflict")
    BY <1>5, <2>2 DEF AnswerOK, Existing, Rows
  <2>3. CASE Reply(r, NULL, "queue_full")
    BY <1>5, <2>3 DEF AnswerOK
  <2> QED
    BY <1>0, <1>6, <2>1, <2>2, <2>3, AdmitNothingCases
<1>7. ASSUME NEW r \in Requests, AdmitError(r) PROVE AnswersInv'
  <2>1. Reply(r, NULL, "unavailable")
    BY <1>7 DEF AdmitError
  <2> QED
    BY <1>5, <2>1 DEF AnswerOK
<1>8. ASSUME NEW r \in Requests, NotifyAndReply(r) PROVE AnswersInv'
  <2>1. request[r].pc = "notify" /\ request[r].id \in Updates
    BY <1>1, <1>8 DEF NotifyAndReply, RequestOK
  <2>2. PICK b : /\ request' = [request EXCEPT ![r] = b]
                 /\ b.pc = "done" /\ b.id = request[r].id /\ b.code = "created"
                 /\ b.pair = request[r].pair /\ b.key = request[r].key
    BY <1>0, <1>8, <2>1, ReplyEffect DEF NotifyAndReply
  <2>3. AnswerOK(updates', b)
    BY <1>1, <2>2 DEF AnswerOK
  <2>4. \A s \in Requests \ {r} : Creator(request[s]) => request[s].id # b.id
    BY <2>1, <2>2 DEF AnswersInv, Creator
  <2> QED
    BY <1>0, <2>2, <2>3, <2>4, OneAnswerNext
<1>9. CASE \A r \in Requests :
             \/ request'[r] = request[r]
             \/ /\ request[r].pc # "done"
                /\ request'[r] = [request[r] EXCEPT !.pc = "done", !.code = NULL]
  <2>1. ASSUME NEW r \in Requests
        PROVE  /\ AnswerOK(updates', request'[r])
               /\ Creator(request'[r]) => Creator(request[r]) /\ request'[r].id = request[r].id
    <3>1. request[r] \in Request /\ RequestOK(request[r]) /\ AnswerOK(updates', request[r])
      BY <1>0, <1>1
    <3> QED
      BY <1>9, <3>1, DroppedRequestOK, DroppedAnswerOK
  <2>2. \A s, t \in Requests :
          s # t /\ Creator(request'[s]) /\ Creator(request'[t]) => request'[s].id # request'[t].id
    BY <2>1 DEF AnswersInv
  <2> QED
    BY <2>1, <2>2 DEF AnswersInv, Creator
<1> QED
  BY <1>2, <1>3, <1>4, <1>6, <1>7, <1>8, <1>9, RequestCases DEF RequestCase

\* Requests with one key are answered with one update, made by at most one of
\* them, whichever replicas they reached and whatever became of the answers;
\* a conflict is reported only when the key is taken for another pair.
THEOREM IdempotentAnswersHolds == Spec => []IdempotentAnswers
<1>1. Init => AnswersInv
  BY CodeNotNull DEF Init, AnswersInv, AnswerOK, Creator
<1>2. StoreInv /\ ProcInv /\ AnswersInv => IdempotentAnswers
  <2> SUFFICES ASSUME StoreInv, AnswersInv, RequestsInv PROVE IdempotentAnswers
    BY DEF ProcInv
  <2>1. ASSUME NEW r \in Requests
        PROVE  /\ request[r].id # NULL =>
                    /\ request[r].id \in Rows
                    /\ updates[request[r].id].pair = request[r].pair
                    /\ updates[request[r].id].idempotency_key = request[r].key
               /\ request[r].code = "conflict" =>
                    \E u \in Existing(request[r].key) : updates[u].pair # request[r].pair
    BY DEF AnswersInv, AnswerOK, Existing, Rows
  <2>2. ASSUME NEW r \in Requests, NEW s \in Requests,
               request[r].id # NULL, request[s].id # NULL,
               request[r].key = request[s].key, request[r].key # NULL
        PROVE  request[r].id = request[s].id
    BY <2>1, <2>2 DEF StoreInv, OneUpdatePerKey
  <2>3. ASSUME NEW r \in Requests, NEW s \in Requests, r # s,
               request[r].code = "created", request[s].code = "created"
        PROVE  request[r].id # request[s].id
    BY <2>3 DEF AnswersInv, Creator
  <2> QED
    BY <2>1, <2>2, <2>3 DEF IdempotentAnswers
<1> QED
  BY <1>1, <1>2, AnswersNext, ProcInvHolds, PTL DEF Spec

-----------------------------------------------------------------------------
(***************************************************************************)
(* No wakeup is lost.                                                      *)
(***************************************************************************)

\* Rows get their first attempt by a claim only, and are inserted ready.
LEMMA FreshNext == StoreInv /\ ProcInv /\ FreshInv /\ [Next]_vars => FreshInv'
<1> SUFFICES ASSUME StoreInv, ProcInv, FreshInv, [Next]_vars,
                    NEW u \in Rows', updates'[u].attempt = 0
             PROVE  u \in Ready'
  BY DEF FreshInv
<1>0. /\ RowsInv /\ RowsInv' /\ TypeOK /\ StoreCase /\ [StoreNext]_storeVars /\ now \in Nat
  BY StoreInvNext, StoreCases, RefinesStore DEF StoreInv, ProcInv, RowsInv
<1>1. ASSUME u \in Rows, updates'[u] = updates[u], now' >= now, now' \in Nat
      PROVE  u \in Ready'
  <2>1. u \in Ready /\ RowOK(updates[u]) /\ updates[u].status = "pending"
    BY <1>0, <1>1 DEF FreshInv, Ready, RowsInv, Status
  <2>2. updates[u].next_attempt_at \in Nat /\ updates[u].next_attempt_at <= now
    BY <2>1 DEF RowOK, UpdateStateShape, TerminalStatus, UpdateRow, Ready
  <2>3. updates'[u].next_attempt_at <= now'
    BY <1>0, <1>1, <2>2
  <2> QED
    BY <1>1, <2>1, <2>3 DEF Ready, Status
<1>2. ASSUME u \in Rows PROVE updates[u].status = "pending" /\ updates[u].attempt = 0
  <2>1. updates[u].attempt \in Nat /\ updates'[u].attempt >= updates[u].attempt
    BY <1>0, <1>2, RowsEvolveNext DEF RowsInv, RowOK, UpdateRow
  <2> QED
    BY <1>0, <1>2, <2>1 DEF RowsInv, RowOK, UpdateStateShape, TerminalStatus
<1>3. ASSUME NEW c \in SettleCommand, Settled(c) PROVE u \in Ready'
  <2>1. /\ Owns(c.id, c.attempt) /\ Rows' = Rows /\ now' = now
        /\ \A v \in Rows \ {c.id} : updates'[v] = updates[v]
    BY <1>3, SettledEffect DEF Settled, Complete, Retry, Fail
  <2> QED
    BY <1>0, <1>1, <1>2, <2>1 DEF Owns, Status
<1>4. ASSUME NEW v \in Ready, NEW locked, ClaimNext(v, locked) PROVE u \in Ready'
  <2>1. Rows' = Rows /\ now' = now /\ \A x \in Rows \ {v} : updates'[x] = updates[x]
    BY <1>4 DEF ClaimNext, Rows
  <2>2. u # v
    BY <1>0, <1>2, <1>4, <2>1, ClaimedTask
  <2> QED
    BY <1>0, <1>1, <2>1, <2>2
<1>5. ASSUME NEW s \in Updates, NEW p \in Pairs, NEW k \in Keys \cup {NULL},
             Insert(s, p, k, now)
      PROVE  u \in Ready'
  <2>1. CASE u = s
    BY <1>0, <1>5, <2>1 DEF Insert, NewRow, Ready, Status
  <2>2. CASE u # s
    BY <1>0, <1>1, <1>5, <2>2 DEF Insert, Rows
  <2> QED
    BY <2>1, <2>2
<1>6. ASSUME NEW B, NEW locked, NEW n, RecoverExpired(B, locked, n) PROVE u \in Ready'
  <2>1. /\ u \in Rows /\ updates'[u] = IF u \in B THEN RecoveredRow(updates[u]) ELSE updates[u]
        /\ B \subseteq Expired /\ now' = now
    BY <1>6 DEF RecoverExpired, IsBatch, Rows
  <2>2. u \notin B
    BY <1>2, <2>1 DEF Expired, Status
  <2> QED
    BY <1>0, <1>1, <2>1, <2>2
<1>7. CASE UNCHANGED storeVars \/ Tick
  BY <1>0, <1>1, <1>7 DEF storeVars, Tick, Rows
<1> QED
  BY <1>0, <1>3, <1>4, <1>5, <1>6, <1>7, HeldCommands DEF StoreCase

\* Only a failing step gives a command up or sends a worker into its delay.
LEMMA NoFaultNext == ProcInv /\ NoFaultInv /\ [Next]_vars => NoFaultInv'
<1> SUFFICES ASSUME ProcInv, NoFaultInv, [Next]_vars, faults' = 0
             PROVE  orphans' = {} /\ \A w \in Workers : pc'[w] # "delay"
  BY DEF NoFaultInv
<1>0. faults \in Nat /\ JobsOK
  BY TypeParts, ServiceAssumption DEF ProcInv, TypesByPart
<1>1. ~Fault
  BY <1>0 DEF Fault
<1>2. ASSUME NEW p \in Procs, Start(p) \/ Recover(p)
      PROVE  faults = 0 /\ orphans' = {} /\ \A w \in Workers : pc'[w] # "delay"
  BY <1>2 DEF Start, Recover, RecoverSkipping, AfterRecovery, NoFaultInv
<1>3. ASSUME NEW w \in Workers, WorkerStep(w)
      PROVE  orphans' = {} /\ \A v \in Workers : pc'[v] # "delay"
  BY <1>0, <1>3
  DEF WorkerStep, Claim, ClaimNothing, Fetch, Settle, PauseEnd, NoFaultInv, JobsOK
<1>4. ASSUME NEW r \in Requests, Send(r) \/ HandlerStep(r)
      PROVE  orphans' = {} /\ \A w \in Workers : pc'[w] # "delay"
  BY <1>4 DEF Send, HandlerStep, Admit, AdmitNothing, NotifyAndReply, procVars, NoFaultInv
<1>5. ASSUME NEW o \in orphans, OrphanApplied(o) PROVE FALSE
  BY <1>5 DEF OrphanApplied, NoFaultInv
<1>6. CASE ClockTick \/ UNCHANGED vars
  BY <1>6 DEF ClockTick, procVars, vars, NoFaultInv
<1> QED
  BY <1>1, <1>2, <1>3, <1>4, <1>5, <1>6
  DEF Next, Crash, RecoverError, ClaimError, SettleError, AdmitError

\* Faults are only ever counted.
LEMMA FaultsGrow == [Next]_vars => faults' = faults \/ faults' = faults + 1
BY DEF Next, Start, Crash, Recover, RecoverSkipping, RecoverError, WorkerStep, Claim,
   ClaimNothing, Fetch, Settle, PauseEnd, ClaimError, SettleError, Send, HandlerStep, Admit,
   AdmitNothing, NotifyAndReply, AdmitError, OrphanApplied, ClockTick, Fault, vars

\* A replica's channel holds at least one token, which a notification leaves
\* there.
LEMMA NotifyWakes ==
  ASSUME TokensOK, NEW p \in Procs, NEW n \in Nat, Notify(p, n), NEW q \in Procs
  PROVE  /\ wakeup[q] > 0 => wakeup'[q] > 0
         /\ q = p /\ n > 0 => wakeup'[q] > 0
<1>1. Concurrency(p) \in Nat /\ Concurrency(p) # 0
  <2>1. IsFiniteSet(WorkersOf(p)) /\ WorkersOf(p) # {}
    BY ServiceAssumption, FS_Subset DEF WorkersOf
  <2> QED
    BY <2>1, ConcurrencyNat, FS_EmptySet DEF Concurrency
<1> QED
  BY <1>1 DEF Notify, TokensOK

\* Only a full sweep lets a worker go idle: a claim that finds nothing although
\* a job is ready found it locked, by a claim that is still under way.
LEMMA SkippedBySomebody ==
  ASSUME StoreInv, orphans = {}, NEW w \in Workers, ClaimNothing(w), Ready # {}
  PROVE  \E v \in Workers \ {w} : pc[v] = "claim"
<1> DEFINE C == {v \in Workers \ {w} : pc[v] = "claim"}
           O == {o \in orphans : o.cmd.op = "claim"}
<1>1. Cardinality(Ready) <= Cardinality(C) + Cardinality(O)
  BY DEF ClaimNothing, LockedByClaims
<1>2. Cardinality(O) = 0
  BY FS_EmptySet
<1>3. IsFiniteSet(Ready) /\ Cardinality(Ready) \in Nat /\ Cardinality(Ready) # 0
  BY FS_Subset, FS_CardinalityType, FS_EmptySet DEF StoreInv, CapacityInv, Ready
<1>4. C # {}
  <2>1. SUFFICES ASSUME C = {} PROVE FALSE
    OBVIOUS
  <2>2. Cardinality(C) = 0
    BY <2>1, FS_EmptySet
  <2> HIDE DEF C, O
  <2> QED
    BY <1>1, <1>2, <1>3, <2>2
<1> QED
  BY <1>4

\* While a job is ready and nothing fails, a replica stays awake.
LEMMA AwakeNext ==
  ASSUME StoreInv, ProcInv, NoFaultInv, [Next]_vars, faults' = 0,
         Ready # {}, NEW p \in Procs, Awake(p)
  PROVE  Awake(p)'
<1>0. faults \in Nat /\ JobsOK /\ TokensOK
  BY TypeParts, ServiceAssumption DEF ProcInv, TypesByPart
<1>1. ~Fault
  BY <1>0 DEF Fault
<1>2. CASE UNCHANGED <<pc, wakeup>>
  BY <1>2 DEF Awake
<1>3. ASSUME NEW q \in Procs, Recover(q) PROVE Awake(p)'
  <2>1. PICK B \in SUBSET Expired : Notify(q, Cardinality(B))
    BY <1>3 DEF Recover, RecoverSkipping
  <2>2. Cardinality(B) \in Nat
    BY <2>1, FS_Subset, FS_CardinalityType DEF StoreInv, CapacityInv, Expired
  <2>3. wakeup[p] > 0 => wakeup'[p] > 0
    BY <1>0, <2>1, <2>2, NotifyWakes
  <2>4. \A w \in Workers : pc'[w] = pc[w] \/ pc'[w] = "claim"
    BY <1>3 DEF Recover, RecoverSkipping, AfterRecovery
  <2>5. \A w \in WorkersOf(p) : w \in Workers
    BY DEF WorkersOf
  <2> QED
    BY <2>3, <2>4, <2>5 DEF Awake
<1>4. ASSUME NEW w \in Workers, Claim(w) \/ Fetch(w) \/ Settle(w) \/ PauseEnd(w)
      PROVE  Awake(p)'
  <2>1. pc'[w] \in {"claim", "fetch", "settle"}
    BY <1>0, <1>4 DEF Claim, Fetch, Settle, PauseEnd, JobsOK
  <2> QED
    BY <2>1 DEF Awake
<1>5. ASSUME NEW w \in Workers, ClaimNothing(w) PROVE Awake(p)'
  <2>1. faults = 0
    BY <1>5 DEF ClaimNothing
  <2>2. PICK v \in Workers \ {w} : pc[v] = "claim"
    BY <1>5, <2>1, SkippedBySomebody DEF NoFaultInv
  <2>3. pc'[v] = "claim"
    BY <1>0, <1>5, <2>2 DEF ClaimNothing, JobsOK
  <2> QED
    BY <2>3 DEF Awake
<1>6. ASSUME NEW r \in Requests, NotifyAndReply(r) PROVE Awake(p)'
  <2>1. request[r].proc \in Procs /\ Notify(request[r].proc, 1) /\ pc' = pc
    BY <1>6 DEF NotifyAndReply, ProcInv, RequestsInv, RequestOK
  <2>2. wakeup[p] > 0 => wakeup'[p] > 0
    BY <1>0, <2>1, NotifyWakes
  <2> QED
    BY <2>1, <2>2 DEF Awake
<1>7. ASSUME NEW r \in Requests, Send(r) \/ Admit(r) \/ AdmitNothing(r)
      PROVE  UNCHANGED <<pc, wakeup>>
  BY <1>7 DEF Send, Admit, AdmitNothing, procVars
<1>8. ASSUME NEW q \in Procs, Start(q) PROVE UNCHANGED <<pc, wakeup>>
  BY <1>8 DEF Start
<1>9. ASSUME NEW o \in orphans, OrphanApplied(o) PROVE UNCHANGED <<pc, wakeup>>
  BY <1>9 DEF OrphanApplied, procVars
<1>10. CASE ClockTick \/ UNCHANGED vars
  BY <1>2, <1>10 DEF ClockTick, procVars, vars
<1> QED
  BY <1>1, <1>2, <1>3, <1>4, <1>5, <1>6, <1>7, <1>8, <1>9, <1>10
  DEF Next, WorkerStep, HandlerStep, Crash, RecoverError, ClaimError, SettleError, AdmitError

\* A request is answered "created" only by the handler that notified the pool.
LEMMA CreatedCases ==
  ASSUME StoreInv, ProcInv, [Next]_vars, NEW r \in Requests,
         request'[r].code = "created"
  PROVE  \/ request'[r] = request[r]
         \/ NotifyAndReply(r) /\ request'[r].proc = request[r].proc
<1>0. /\ RequestsInv /\ RowsInv /\ request \in [Requests -> Request]
  BY TypeParts DEF ProcInv, TypesByPart, StoreInv
<1>1. ASSUME NEW s \in Requests, Send(s) \/ Admit(s) \/ AdmitNothing(s) \/ AdmitError(s)
      PROVE  request'[r] = request[r]
  <2>1. CASE Send(s) \/ Admit(s)
    <3>1. PICK b : request' = [request EXCEPT ![s] = b] /\ b.code = request[s].code
      BY <1>0, <2>1, SendEffect, AdmitEffect
    <3>2. request[s].code = NULL
      BY <1>0, <2>1 DEF Send, Admit, RequestsInv, RequestOK
    <3> QED
      BY <1>0, <3>1, <3>2, CodeNotNull
  <2>2. CASE AdmitNothing(s) \/ AdmitError(s)
    <3>1. \E id \in Updates \cup {NULL},
             code \in {"replayed", "conflict", "queue_full", "unavailable"} : Reply(s, id, code)
      BY <1>0, <2>2, AdmitNothingCases DEF AdmitError
    <3>2. PICK b : request' = [request EXCEPT ![s] = b] /\ b.code # "created"
      BY <1>0, <3>1, ReplyEffect
    <3> QED
      BY <1>0, <3>2
  <2> QED
    BY <1>1, <2>1, <2>2
<1>2. ASSUME NEW s \in Requests, NotifyAndReply(s)
      PROVE  \/ request'[r] = request[r]
             \/ NotifyAndReply(r) /\ request'[r].proc = request[r].proc
  <2>1. request[s].id \in Updates
    BY <1>0, <1>2 DEF NotifyAndReply, RequestsInv, RequestOK
  <2>2. PICK b : request' = [request EXCEPT ![s] = b] /\ b.proc = request[s].proc
    BY <1>0, <1>2, <2>1, ReplyEffect DEF NotifyAndReply
  <2> QED
    BY <1>0, <1>2, <2>2
<1>3. CASE \A s \in Requests :
             \/ request'[s] = request[s]
             \/ /\ request[s].pc # "done"
                /\ request'[s] = [request[s] EXCEPT !.pc = "done", !.code = NULL]
  BY <1>0, <1>3, CodeNotNull DEF Request
<1> QED
  BY <1>1, <1>2, <1>3, RequestCases DEF RequestCase

\* The token of a new job wakes its replica, and the replica stays awake until
\* the job is claimed.
LEMMA WakeupNext ==
  StoreInv /\ ProcInv /\ AnswersInv /\ FreshInv /\ NoFaultInv /\ NoLostWakeup /\ [Next]_vars
    => NoLostWakeup'
<1> SUFFICES ASSUME StoreInv, ProcInv, AnswersInv, FreshInv, NoFaultInv, NoLostWakeup,
                    [Next]_vars
             PROVE  NoLostWakeup'
  OBVIOUS
<1>0. /\ RowsInv /\ RowsInv' /\ RequestsInv /\ RequestsInv' /\ TokensOK
      /\ [StoreNext]_storeVars /\ faults \in Nat
  BY TypeParts, RefinesStore, StoreInvNext, RequestsNext, ServiceAssumption
  DEF ProcInv, TypesByPart, StoreInv
<1>1. ASSUME faults' = 0, NEW r \in Requests, NEW p, p = request'[r].proc,
             request'[r].code = "created", updates'[request'[r].id].attempt = 0
      PROVE  Awake(p)'
  <2>1. p \in Procs
    BY <1>0, <1>1 DEF RequestsInv, RequestOK
  <2>2. CASE NotifyAndReply(r) /\ p = request[r].proc
    <3>1. wakeup'[p] > 0
      BY <1>0, <2>1, <2>2, NotifyWakes DEF NotifyAndReply
    <3> QED
      BY <3>1 DEF Awake
  <2>3. CASE request'[r] = request[r]
    <3> DEFINE u == request[r].id
    <3>1. u \in Rows
      BY <1>0, <1>1, <2>3, UpdateNotNull DEF RequestsInv, RequestOK, AnswersInv, AnswerOK, Rows
    <3>2. /\ u \in Rows' /\ updates'[u].attempt >= updates[u].attempt
          /\ updates[u].attempt \in Nat
      BY <1>0, <3>1, RowsEvolveNext DEF RowsInv, RowOK, UpdateRow
    <3>3. updates[u].attempt = 0
      BY <1>1, <2>3, <3>2
    <3>4. Ready # {}
      BY <3>1, <3>3 DEF FreshInv
    <3>5. CASE faults = 0
      <4>1. Awake(p)
        BY <1>1, <2>3, <3>3, <3>5 DEF NoLostWakeup
      <4> QED
        BY <1>1, <2>1, <3>4, <4>1, AwakeNext
    <3>6. CASE faults # 0
      <4>1. faults' = faults \/ faults' = faults + 1
        BY FaultsGrow
      <4> QED
        BY <1>0, <1>1, <3>6, <4>1
    <3> QED
      BY <3>5, <3>6
  <2> QED
    BY <1>1, <2>2, <2>3, CreatedCases
<1> QED
  BY <1>1 DEF NoLostWakeup, Awake

\* While nothing fails, an accepted and notified job that was not claimed yet
\* has somebody who will look for it: with any number of replicas and workers,
\* tokens that are dropped and rows that claims skip.
THEOREM NoLostWakeupHolds == Spec => []NoLostWakeup
<1>1. Init => AnswersInv /\ FreshInv /\ NoFaultInv /\ NoLostWakeup
  BY CodeNotNull
  DEF Init, StoreInit, AnswersInv, AnswerOK, Creator, FreshInv, Rows, NoFaultInv, NoLostWakeup
<1> QED
  BY <1>1, AnswersNext, FreshNext, NoFaultNext, WakeupNext, ProcInvHolds, PTL DEF Spec
==============================================================================

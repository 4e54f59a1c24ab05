---------------------------- MODULE StartupProofs ----------------------------
(***************************************************************************)
(* Proofs about what a process does before it serves: about Config, for    *)
(* every bound, default, margin and environment, and about Migrate, for    *)
(* any set of replicas, any versions and any number of crashes.            *)
(***************************************************************************)
EXTENDS Config, Migrate, TLAPS

-----------------------------------------------------------------------------
(***************************************************************************)
(* The settings.                                                           *)
(***************************************************************************)

\* The variables have their types.
Typed ==
  /\ stage \in {"load", "refused", "running"}
  /\ env \in [Settings -> Values \cup {UNSET, INVALID}]
  /\ config \in [Settings -> Nat]
  /\ t \in Nat
  /\ attempt \in [phase : {"claimed", "calling", "returned", "settled"},
                  called : Nat, returned : Nat, settled : Nat]
  /\ request \in [phase : {"reading", "serving", "draining", "answered", "cut"}, read : Nat]

\* Nothing runs before the configuration was accepted.
Started ==
  /\ stage = "running" => validate(config)
  /\ stage # "running" => t = 0 /\ attempt.phase = "claimed" /\ request = Received

\* A call lasts at most ProviderTimeout.
CallBounded ==
  /\ attempt.phase = "calling" =>
       attempt.called <= t /\ t <= attempt.called + config["ProviderTimeout"]
  /\ attempt.phase \in {"returned", "settled"} =>
       attempt.returned <= attempt.called + config["ProviderTimeout"]

\* A request's body is read for at most ReadTimeout; its work lasts at most
\* RequestTimeout, or ends as soon as a body that took longer was read.
ServedBounded ==
  /\ request.read <= config["ReadTimeout"] \/ request.read <= config["RequestTimeout"]
  /\ request.phase = "reading" => t <= config["ReadTimeout"]
  /\ request.phase = "serving" => t <= config["RequestTimeout"] \/ t = request.read
  /\ request.phase = "draining" =>
       t <= config["RequestTimeout"] \/ t = request.read \/ t <= config["ReadTimeout"]

\* A write that came too late followed a deadline of the work that came too
\* late, or a read.
CutExplained ==
  request.phase = "cut" =>
    \/ config["WriteTimeout"] <= config["RequestTimeout"]
    \/ request.read >= config["WriteTimeout"]

\* The inductive invariant: the two promises speak of the end of a call and of
\* a request, and follow from how long each may have lasted.
ConfigInv == Typed /\ Started /\ CallBounded /\ ServedBounded /\ CutExplained

\* The five settings the two races depend on.
LEMMA NamedSettings ==
  ASSUME config \in [Settings -> Nat]
  PROVE  /\ config["ProviderTimeout"] \in Nat
         /\ config["LeaseDuration"] \in Nat
         /\ config["RequestTimeout"] \in Nat
         /\ config["ReadTimeout"] \in Nat
         /\ config["WriteTimeout"] \in Nat
BY ConfigAssumption

\* The numbers the timers compare.
Numbers ==
  /\ config["ProviderTimeout"] \in Nat
  /\ config["RequestTimeout"] \in Nat
  /\ config["ReadTimeout"] \in Nat
  /\ config["WriteTimeout"] \in Nat
  /\ t \in Nat
  /\ request.read \in Nat

\* They are natural numbers.
LEMMA NumbersHold == Typed => Numbers
BY NamedSettings DEF Typed, Numbers

\* ConfigInit establishes the invariant.
LEMMA InitConfig == ConfigInit => ConfigInv
<1> SUFFICES ASSUME ConfigInit PROVE ConfigInv
  OBVIOUS
<1>1. Typed
  BY DEF ConfigInit, Typed, Idle, Received
<1>2. Started /\ CallBounded
  BY DEF ConfigInit, Started, CallBounded, Idle
<1>3. ServedBounded /\ CutExplained
  BY <1>1, NamedSettings DEF ConfigInit, ServedBounded, CutExplained, Typed, Received
<1> QED
  BY <1>1, <1>2, <1>3 DEF ConfigInv

\* Every step keeps the invariant.
LEMMA NextConfig == ConfigInv /\ [ConfigNext]_configVars => ConfigInv'
<1> SUFFICES ASSUME ConfigInv, [ConfigNext]_configVars PROVE ConfigInv'
  OBVIOUS
<1>1. CASE LoadFromLookup
  <2>1. CASE stage' = "running" /\ config' = [k \in Settings |-> Read(k)]
    <3>1. \A k \in Settings : Read(k) \in Nat
      <4> SUFFICES ASSUME NEW k \in Settings PROVE Read(k) \in Nat
        OBVIOUS
      <4>1. Bounded(k)
        BY <1>1, <2>1 DEF LoadFromLookup
      <4>2. Read(k) # INVALID
        BY <4>1 DEF Bounded
      <4>3. env[k] \in Values \cup {UNSET, INVALID} /\ Default[k] \in Nat
        BY ConfigAssumption DEF ConfigInv, Typed
      <4> QED
        BY <4>2, <4>3, ConfigAssumption DEF Read
    <3>2. config' \in [Settings -> Nat]
      BY <2>1, <3>1
    <3>3. Typed'
      BY <1>1, <2>1, <3>2 DEF LoadFromLookup, ConfigInv, Typed
    <3>4. Started'
      BY <1>1, <2>1 DEF LoadFromLookup, Started
    <3>5. t = 0 /\ attempt.phase = "claimed" /\ request = Received
      BY <1>1 DEF LoadFromLookup, ConfigInv, Started
    <3>6. CallBounded'
      BY <1>1, <3>5 DEF LoadFromLookup, CallBounded
    <3>7. config'["RequestTimeout"] \in Nat /\ config'["ReadTimeout"] \in Nat
      BY <3>2, ConfigAssumption
    <3>8. ServedBounded' /\ CutExplained'
      BY <1>1, <3>5, <3>7 DEF LoadFromLookup, ServedBounded, CutExplained, Received
    <3> QED
      BY <3>3, <3>4, <3>6, <3>8 DEF ConfigInv
  <2>2. CASE stage' = "refused" /\ UNCHANGED config
    BY <1>1, <2>2 DEF LoadFromLookup, ConfigInv, Typed, Started, CallBounded, ServedBounded,
                      CutExplained
  <2> QED
    BY <1>1, <2>1, <2>2 DEF LoadFromLookup
<1>2. CASE CallProvider
  <2>1. config["ProviderTimeout"] \in Nat
    BY NamedSettings DEF ConfigInv, Typed
  <2>2. Typed' /\ Started'
    BY <1>2 DEF CallProvider, ConfigInv, Typed, Started, validate
  <2>3. CallBounded'
    BY <1>2, <2>1 DEF CallProvider, ConfigInv, Typed, CallBounded
  <2>4. ServedBounded' /\ CutExplained'
    BY <1>2 DEF CallProvider, ConfigInv, ServedBounded, CutExplained
  <2> QED
    BY <2>2, <2>3, <2>4 DEF ConfigInv
<1>3. CASE ProviderReturns
  <2>1. config["ProviderTimeout"] \in Nat
    BY NamedSettings DEF ConfigInv, Typed
  <2>2. Typed' /\ Started'
    BY <1>3 DEF ProviderReturns, ConfigInv, Typed, Started, validate
  <2>3. CallBounded'
    BY <1>3, <2>1 DEF ProviderReturns, ConfigInv, Typed, CallBounded
  <2>4. ServedBounded' /\ CutExplained'
    BY <1>3 DEF ProviderReturns, ConfigInv, ServedBounded, CutExplained
  <2> QED
    BY <2>2, <2>3, <2>4 DEF ConfigInv
<1>4. CASE Settle
  <2>1. config["ProviderTimeout"] \in Nat
    BY NamedSettings DEF ConfigInv, Typed
  <2>2. Typed' /\ Started'
    BY <1>4 DEF Settle, ConfigInv, Typed, Started, validate
  <2>3. CallBounded'
    BY <1>4, <2>1 DEF Settle, ConfigInv, Typed, CallBounded
  <2>4. ServedBounded' /\ CutExplained'
    BY <1>4 DEF Settle, ConfigInv, ServedBounded, CutExplained
  <2> QED
    BY <2>2, <2>3, <2>4 DEF ConfigInv
<1>5. CASE ReadBody
  <2>1. Numbers
    BY NumbersHold DEF ConfigInv
  <2>2. Typed' /\ Started' /\ CallBounded'
    BY <1>5 DEF ReadBody, ConfigInv, Typed, Started, CallBounded, validate
  <2>3. ServedBounded'
    BY <1>5, <2>1 DEF ReadBody, Numbers, ConfigInv, Typed, ServedBounded
  <2>4. CutExplained'
    BY <1>5, <2>1 DEF ReadBody, Numbers, ConfigInv, Typed, ServedBounded, CutExplained
  <2> QED
    BY <2>2, <2>3, <2>4 DEF ConfigInv
<1>6. CASE Answer
  <2>1. Numbers
    BY NumbersHold DEF ConfigInv
  <2>2. Typed' /\ Started' /\ CallBounded'
    BY <1>6 DEF Answer, Written, ConfigInv, Typed, Started, CallBounded, validate
  <2>3. ServedBounded'
    BY <1>6, <2>1 DEF Answer, Written, Numbers, ConfigInv, Typed, ServedBounded
  <2>4. CutExplained'
    BY <1>6, <2>1 DEF Answer, Written, Numbers, ConfigInv, Typed, ServedBounded, CutExplained
  <2> QED
    BY <2>2, <2>3, <2>4 DEF ConfigInv
<1>7. CASE LeaveBody
  <2>1. Numbers
    BY NumbersHold DEF ConfigInv
  <2>2. Typed' /\ Started' /\ CallBounded'
    BY <1>7 DEF LeaveBody, ConfigInv, Typed, Started, CallBounded, validate
  <2>3. ServedBounded'
    BY <1>7, <2>1 DEF LeaveBody, Numbers, ConfigInv, Typed, ServedBounded
  <2>4. CutExplained'
    BY <1>7, <2>1 DEF LeaveBody, Numbers, ConfigInv, Typed, ServedBounded, CutExplained
  <2> QED
    BY <2>2, <2>3, <2>4 DEF ConfigInv
<1>8. CASE DrainBody
  <2>1. Numbers
    BY NumbersHold DEF ConfigInv
  <2>2. Typed' /\ Started' /\ CallBounded'
    BY <1>8 DEF DrainBody, Written, ConfigInv, Typed, Started, CallBounded, validate
  <2>3. ServedBounded'
    BY <1>8, <2>1 DEF DrainBody, Written, Numbers, ConfigInv, Typed, ServedBounded
  <2>4. CutExplained'
    BY <1>8, <2>1 DEF DrainBody, Written, Numbers, ConfigInv, Typed, ServedBounded, CutExplained
  <2> QED
    BY <2>2, <2>3, <2>4 DEF ConfigInv
<1>9. CASE Tick
  <2>1. Numbers
    BY NumbersHold DEF ConfigInv
  <2>2. Typed' /\ Started'
    BY <1>9 DEF Tick, ConfigInv, Typed, Started, validate
  <2>3. CallBounded'
    BY <1>9, <2>1 DEF Tick, CallDue, Numbers, ConfigInv, Typed, CallBounded
  <2>4. ServedBounded'
    BY <1>9, <2>1 DEF Tick, RequestDue, ReadDue, Numbers, ConfigInv, Typed, ServedBounded
  <2>5. CutExplained'
    BY <1>9 DEF Tick, ConfigInv, CutExplained
  <2> QED
    BY <2>2, <2>3, <2>4, <2>5 DEF ConfigInv
<1>10. CASE UNCHANGED configVars
  BY <1>10 DEF configVars, ConfigInv, Typed, Started, CallBounded, ServedBounded, CutExplained,
               validate
<1> QED
  BY <1>1, <1>2, <1>3, <1>4, <1>5, <1>6, <1>7, <1>8, <1>9, <1>10 DEF ConfigNext

\* The inductive invariant holds of every behaviour.
LEMMA ConfigInvariance == ConfigSpec => []ConfigInv
<1>1. ConfigInit => ConfigInv
  BY InitConfig
<1>2. ConfigInv /\ [ConfigNext]_configVars => ConfigInv'
  BY NextConfig
<1> QED
  BY <1>1, <1>2, PTL DEF ConfigSpec

\* validate is what a lease needs: with any configuration it accepts, an
\* attempt that loses less than the margin around its call settles in time.
THEOREM LeaseIsLongEnough == ConfigSpec => []LeaseCoversAttempt
<1>1. ConfigInv => LeaseCoversAttempt
  <2> SUFFICES ASSUME ConfigInv, attempt.phase = "settled",
                      attempt.called + (attempt.settled - attempt.returned) < commitMargin
               PROVE  attempt.settled < config["LeaseDuration"]
    BY DEF LeaseCoversAttempt
  <2>1. /\ config["ProviderTimeout"] \in Nat
        /\ config["LeaseDuration"] \in Nat
        /\ commitMargin \in Nat
    BY NamedSettings, ConfigAssumption DEF ConfigInv, Typed
  <2>2. config["ProviderTimeout"] <= config["LeaseDuration"] - commitMargin
    BY DEF ConfigInv, Typed, Started, validate
  <2>3. attempt.returned <= attempt.called + config["ProviderTimeout"]
    BY DEF ConfigInv, CallBounded
  <2>4. attempt.called \in Nat /\ attempt.returned \in Nat /\ attempt.settled \in Nat
    BY DEF ConfigInv, Typed
  <2> QED
    BY <2>1, <2>2, <2>3, <2>4
<1> QED
  BY <1>1, ConfigInvariance, PTL

\* The condition the service's README names is sufficient, whatever the
\* bounds, except for a client that was still sending its body at the write
\* deadline; a read timeout below the write timeout rules that out too.
THEOREM WriteTimeoutCondition == ConfigSpec => []LongerWriteTimeoutSuffices
<1>1. ConfigInv => LongerWriteTimeoutSuffices
  <2> SUFFICES ASSUME ConfigInv, request.phase = "cut",
                      config["WriteTimeout"] > config["RequestTimeout"]
               PROVE  /\ request.read >= config["WriteTimeout"]
                      /\ config["ReadTimeout"] >= config["WriteTimeout"]
    BY DEF LongerWriteTimeoutSuffices
  <2>1. Numbers
    BY NumbersHold DEF ConfigInv
  <2>2. request.read >= config["WriteTimeout"]
    BY <2>1 DEF Numbers, ConfigInv, CutExplained
  <2> QED
    BY <2>1, <2>2 DEF Numbers, ConfigInv, ServedBounded
<1> QED
  BY <1>1, ConfigInvariance, PTL

-----------------------------------------------------------------------------
(***************************************************************************)
(* The migrations.                                                         *)
(***************************************************************************)

\* Exactly the holder of the lock is past the lock.
LockInv == \A r \in Replicas : pc[r] \in Locked <=> holder = r

\* A replica at a file is within its version and has every earlier file
\* behind it.
Progress ==
  \A r \in Replicas :
    /\ pc[r] \in InTransaction => at[r] <= Last[r]
    /\ pc[r] # "down" => \A i \in 1..(at[r] - 1) : i \in ledger
    /\ pc[r] = "done" => at[r] > Last[r]

\* What the holder read from the ledger is still so.
ReadHolds ==
  \A r \in Replicas :
    /\ pc[r] \in {"apply", "record", "commit"} => at[r] \notin ledger
    /\ pc[r] = "skip" => at[r] \in ledger

\* The inductive invariant.  AppliedExactlyOnce alone is not inductive: that
\* the file to be committed is still unapplied needs the lock.
IInv == TypeOK /\ LockInv /\ Progress /\ ReadHolds /\ AppliedExactlyOnce /\ AppliedInOrder

\* A file a replica is at, within its version, is one of Files.
LEMMA AtIsAFile ==
  ASSUME TypeOK, NEW r \in Replicas, at[r] <= Last[r]
  PROVE  at[r] \in Files
<1>1. at[r] \in Nat \ {0} /\ Last[r] \in Nat
  BY MigrateAssumption DEF TypeOK
<1>2. at[r] \in 1..Last[r]
  BY <1>1
<1> QED
  BY <1>2 DEF Files

\* Init establishes the invariant: nothing is locked, read or applied.
LEMMA InitIInv == Init => IInv
<1> SUFFICES ASSUME Init PROVE IInv
  OBVIOUS
<1>1. TypeOK
  BY DEF Init, TypeOK
<1>2. LockInv
  BY MigrateAssumption DEF Init, LockInv, Locked
<1>3. Progress
  BY DEF Init, Progress, InTransaction, Locked
<1>4. ReadHolds
  BY DEF Init, ReadHolds
<1>5. AppliedExactlyOnce /\ AppliedInOrder
  BY DEF Init, AppliedExactlyOnce, AppliedInOrder
<1> QED
  BY <1>1, <1>2, <1>3, <1>4, <1>5 DEF IInv

\* A step that leaves the tables alone and moves one replica keeps the
\* invariants of the tables.
LEMMA TablesKept ==
  ASSUME IInv, UNCHANGED <<ledger, runs>>
  PROVE  AppliedExactlyOnce' /\ AppliedInOrder'
BY DEF IInv, AppliedExactlyOnce, AppliedInOrder

\* Commit and CommitUnanswered: the tables after the holder's transaction.
LEMMA EffectsKeep ==
  ASSUME IInv, NEW r \in Replicas, pc[r] \in {"commit", "skip"}, Effects(r)
  PROVE  /\ AppliedExactlyOnce'
         /\ AppliedInOrder'
         /\ ledger' = ledger \cup {at[r]}
         /\ ledger' \subseteq Files
         /\ runs' \in [Files -> Nat]
<1>1. at[r] \in Files /\ at[r] \in Nat \ {0}
  <2>1. at[r] <= Last[r]
    BY DEF IInv, Progress, InTransaction, Locked
  <2> QED
    BY <2>1, AtIsAFile DEF IInv, TypeOK
<1>2. CASE pc[r] = "skip"
  <2>1. at[r] \in ledger /\ UNCHANGED <<ledger, runs>>
    BY <1>2 DEF IInv, ReadHolds, Effects
  <2> QED
    BY <2>1, TablesKept DEF IInv, TypeOK
<1>3. CASE pc[r] = "commit"
  <2>1. /\ at[r] \notin ledger
        /\ ledger' = ledger \cup {at[r]}
        /\ runs' = [runs EXCEPT ![at[r]] = @ + 1]
    BY <1>3 DEF IInv, ReadHolds, Effects
  <2>2. ledger' \subseteq Files /\ runs' \in [Files -> Nat]
    BY <1>1, <2>1 DEF IInv, TypeOK
  <2>3. AppliedExactlyOnce'
    <3> SUFFICES ASSUME NEW m \in Files
                 PROVE  runs'[m] = IF m \in ledger' THEN 1 ELSE 0
      BY DEF AppliedExactlyOnce
    <3>1. runs[m] = IF m \in ledger THEN 1 ELSE 0
      BY DEF IInv, AppliedExactlyOnce
    <3> QED
      BY <1>1, <2>1, <3>1 DEF IInv, TypeOK
  <2>4. AppliedInOrder'
    <3>1. \A i \in 1..(at[r] - 1) : i \in ledger
      BY <1>3 DEF IInv, Progress
    <3>2. \A i \in 1..at[r] : i \in ledger'
      BY <1>1, <2>1, <3>1
    <3>3. \A m \in ledger : \A i \in 1..m : i \in ledger'
      BY <2>1 DEF IInv, AppliedInOrder
    <3> QED
      BY <2>1, <3>2, <3>3 DEF AppliedInOrder
  <2> QED
    BY <2>1, <2>2, <2>3, <2>4
<1> QED
  BY <1>2, <1>3

\* The end of a transaction that committed what it had: Commit and
\* CommitUnanswered differ only in where the replica goes next.
LEMMA CommittedKeeps ==
  ASSUME IInv, NEW r \in Replicas, pc[r] \in {"commit", "skip"}, Effects(r), Release(r),
         crashes' \in Nat,
         \/ pc' = [pc EXCEPT ![r] = "begin"] /\ at' = [at EXCEPT ![r] = @ + 1]
         \/ pc' = [pc EXCEPT ![r] = "down"] /\ at' = at
  PROVE  IInv'
<1>1. /\ AppliedExactlyOnce' /\ AppliedInOrder'
      /\ ledger' = ledger \cup {at[r]}
      /\ ledger' \subseteq Files
      /\ runs' \in [Files -> Nat]
  BY EffectsKeep
<1>2. holder = r /\ holder' = NONE
  BY DEF IInv, LockInv, Locked, Release
<1>3. TypeOK'
  BY <1>1, <1>2 DEF IInv, TypeOK
<1>4. \A q \in Replicas : q # r => pc'[q] = pc[q] /\ at'[q] = at[q] /\ pc[q] \notin Locked
  BY <1>2 DEF IInv, TypeOK, LockInv
<1>5. LockInv'
  <2> SUFFICES ASSUME NEW q \in Replicas PROVE pc'[q] \notin Locked /\ holder' # q
    BY DEF LockInv
  <2>1. holder' # q
    BY <1>2, MigrateAssumption
  <2>2. pc'[q] \notin Locked
    BY <1>4 DEF IInv, TypeOK, Locked
  <2> QED
    BY <2>1, <2>2
<1>6. Progress'
  <2> SUFFICES ASSUME NEW q \in Replicas
               PROVE  /\ pc'[q] \in InTransaction => at'[q] <= Last[q]
                      /\ pc'[q] # "down" => \A i \in 1..(at'[q] - 1) : i \in ledger'
                      /\ pc'[q] = "done" => at'[q] > Last[q]
    BY DEF Progress
  <2>1. CASE q # r
    BY <1>1, <1>4, <2>1 DEF IInv, Progress
  <2>2. CASE q = r
    <3>1. at[r] \in Nat /\ (\A i \in 1..(at[r] - 1) : i \in ledger)
      BY DEF IInv, TypeOK, Progress
    <3>2. CASE pc' = [pc EXCEPT ![r] = "begin"] /\ at' = [at EXCEPT ![r] = @ + 1]
      <4>1. pc'[r] = "begin" /\ at'[r] = at[r] + 1
        BY <3>2 DEF IInv, TypeOK
      <4>2. \A i \in 1..at[r] : i \in ledger'
        BY <1>1, <3>1
      <4> QED
        BY <2>2, <3>1, <4>1, <4>2 DEF InTransaction, Locked
    <3>3. CASE pc' = [pc EXCEPT ![r] = "down"] /\ at' = at
      BY <2>2, <3>3 DEF IInv, TypeOK, InTransaction, Locked
    <3> QED
      BY <3>2, <3>3
  <2> QED
    BY <2>1, <2>2
<1>7. ReadHolds'
  <2> SUFFICES ASSUME NEW q \in Replicas
               PROVE  pc'[q] \notin {"apply", "record", "commit", "skip"}
    BY DEF ReadHolds
  <2> QED
    BY <1>4 DEF IInv, TypeOK, Locked
<1> QED
  BY <1>1, <1>3, <1>5, <1>6, <1>7 DEF IInv

\* Every step keeps the invariant.
LEMMA NextIInv == IInv /\ [Next]_vars => IInv'
<1> SUFFICES ASSUME IInv, [Next]_vars PROVE IInv'
  OBVIOUS
<1>1. ASSUME NEW r \in Replicas, Finish(r) PROVE IInv'
  <2>1. AppliedExactlyOnce' /\ AppliedInOrder'
    BY <1>1, TablesKept DEF Finish
  <2>2. TypeOK' /\ LockInv' /\ Progress' /\ ReadHolds'
    BY <1>1 DEF Finish, IInv, TypeOK, LockInv, Progress, ReadHolds, InTransaction, Locked
  <2> QED
    BY <2>1, <2>2 DEF IInv
<1>2. ASSUME NEW r \in Replicas, Begin(r) PROVE IInv'
  <2>1. AppliedExactlyOnce' /\ AppliedInOrder'
    BY <1>2, TablesKept DEF Begin
  <2>2. TypeOK' /\ LockInv' /\ Progress' /\ ReadHolds'
    BY <1>2 DEF Begin, IInv, TypeOK, LockInv, Progress, ReadHolds, InTransaction, Locked
  <2> QED
    BY <2>1, <2>2 DEF IInv
<1>3. ASSUME NEW r \in Replicas, Lock(r) PROVE IInv'
  <2>1. AppliedExactlyOnce' /\ AppliedInOrder'
    BY <1>3, TablesKept DEF Lock
  <2>2. TypeOK' /\ Progress' /\ ReadHolds'
    BY <1>3 DEF Lock, IInv, TypeOK, Progress, ReadHolds, InTransaction, Locked
  <2>3. LockInv'
    BY <1>3, MigrateAssumption DEF Lock, IInv, TypeOK, LockInv, Locked
  <2> QED
    BY <2>1, <2>2, <2>3 DEF IInv
<1>4. ASSUME NEW r \in Replicas, ReadLedger(r) PROVE IInv'
  <2>1. AppliedExactlyOnce' /\ AppliedInOrder'
    BY <1>4, TablesKept DEF ReadLedger
  <2>2. TypeOK' /\ LockInv' /\ Progress' /\ ReadHolds'
    BY <1>4 DEF ReadLedger, IInv, TypeOK, LockInv, Progress, ReadHolds, InTransaction, Locked
  <2> QED
    BY <2>1, <2>2 DEF IInv
<1>5. ASSUME NEW r \in Replicas, Apply(r) \/ Record(r) PROVE IInv'
  <2>1. AppliedExactlyOnce' /\ AppliedInOrder'
    BY <1>5, TablesKept DEF Apply, Record
  <2>2. TypeOK' /\ LockInv' /\ Progress' /\ ReadHolds'
    BY <1>5 DEF Apply, Record, IInv, TypeOK, LockInv, Progress, ReadHolds, InTransaction, Locked
  <2> QED
    BY <2>1, <2>2 DEF IInv
<1>6. ASSUME NEW r \in Replicas, Commit(r) PROVE IInv'
  <2>1. crashes' \in Nat
    BY <1>6 DEF Commit, IInv, TypeOK
  <2> QED
    BY <1>6, <2>1, CommittedKeeps DEF Commit
<1>7. ASSUME NEW r \in Replicas, Crash(r) PROVE IInv'
  <2>1. AppliedExactlyOnce' /\ AppliedInOrder'
    BY <1>7, TablesKept DEF Crash
  <2>2. TypeOK' /\ Progress' /\ ReadHolds'
    BY <1>7 DEF Crash, Release, IInv, TypeOK, Progress, ReadHolds, InTransaction, Locked
  <2>3. LockInv'
    BY <1>7, MigrateAssumption DEF Crash, Release, IInv, TypeOK, LockInv, Locked
  <2> QED
    BY <2>1, <2>2, <2>3 DEF IInv
<1>8. ASSUME NEW r \in Replicas, CommitUnanswered(r) PROVE IInv'
  <2>1. crashes' \in Nat
    BY <1>8 DEF CommitUnanswered, IInv, TypeOK
  <2> QED
    BY <1>8, <2>1, CommittedKeeps DEF CommitUnanswered
<1>9. ASSUME NEW r \in Replicas, Restart(r) PROVE IInv'
  <2>1. AppliedExactlyOnce' /\ AppliedInOrder'
    BY <1>9, TablesKept DEF Restart
  <2>2. TypeOK' /\ LockInv' /\ Progress' /\ ReadHolds'
    BY <1>9 DEF Restart, IInv, TypeOK, LockInv, Progress, ReadHolds, InTransaction, Locked
  <2> QED
    BY <2>1, <2>2 DEF IInv
<1>10. CASE UNCHANGED vars
  BY <1>10 DEF vars, IInv, TypeOK, LockInv, Progress, ReadHolds, AppliedExactlyOnce,
               AppliedInOrder
<1> QED
  BY <1>1, <1>2, <1>3, <1>4, <1>5, <1>6, <1>7, <1>8, <1>9, <1>10 DEF Next, Proceed

\* The inductive invariant holds of every behaviour.
LEMMA Invariance == Spec => []IInv
<1>1. Init => IInv
  BY InitIInv
<1>2. IInv /\ [Next]_vars => IInv'
  BY NextIInv
<1> QED
  BY <1>1, <1>2, PTL DEF Spec

\* Type correctness, for any replicas and versions.
THEOREM TypeCorrect == Spec => []TypeOK
<1>1. IInv => TypeOK
  BY DEF IInv
<1> QED
  BY <1>1, Invariance, PTL

\* However many replicas start together and wherever they die, the SQL of a
\* file is committed exactly once, together with its row in the ledger.
THEOREM ExactlyOnce == Spec => []AppliedExactlyOnce
<1>1. IInv => AppliedExactlyOnce
  BY DEF IInv
<1> QED
  BY <1>1, Invariance, PTL

\* Files are applied in the order of their names, whatever versions interleave.
THEOREM InOrder == Spec => []AppliedInOrder
<1>1. IInv => AppliedInOrder
  BY DEF IInv
<1> QED
  BY <1>1, Invariance, PTL

\* A replica that serves finds every file of its version applied.
THEOREM Migrated == Spec => []ServesMigrated
<1>1. IInv => ServesMigrated
  <2> SUFFICES ASSUME IInv, NEW r \in Replicas, pc[r] = "done", NEW i \in 1..Last[r]
               PROVE  i \in ledger
    BY DEF ServesMigrated
  <2>1. at[r] > Last[r] /\ (\A j \in 1..(at[r] - 1) : j \in ledger)
    BY DEF IInv, Progress
  <2>2. at[r] \in Nat /\ Last[r] \in Nat
    BY MigrateAssumption DEF IInv, TypeOK
  <2> QED
    BY <2>1, <2>2
<1> QED
  BY <1>1, Invariance, PTL
===============================================================================

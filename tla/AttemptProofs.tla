---------------------------- MODULE AttemptProofs -----------------------------
(***************************************************************************)
(* Proofs about the end of an attempt: what the provider's answer may ask  *)
(* of the store (Frankfurter), for every status, every Retry-After and     *)
(* every moment at which a context ends; and when the next attempt is due  *)
(* (RetryPolicy), for integers of every width and all defaults.            *)
(***************************************************************************)
EXTENDS Frankfurter, RetryPolicy, TLAPS

-----------------------------------------------------------------------------
(***************************************************************************)
(* The answer of the provider.                                             *)
(***************************************************************************)
\* The statuses after which another attempt may help.
RetryStatuses == {408, 429, 500, 502, 503, 504}

\* What FetchRate and the service return.
Results ==
  [kind : {"none", "cancelled", "temporary", "throttled", "permanent"}, hint : Nat]

\* Where FetchRate is says what it has: no timer yet, a response after Do, a body after
\* ReadAll, a result when it returned, a command when the service decided.
PhaseInv ==
  /\ pc = "call" => timer = "unset"
  /\ pc \in {"call", "do"} => response = NULL
  /\ pc \in {"read", "parent", "timer", "classify"} => response \in Response
  /\ pc \in {"parent", "timer", "classify"} =>
       body \in {"complete", "oversize", "truncated", "broken", "aborted"}
  /\ pc = "service" => result \in Results
  /\ pc # "done" => command = NULL

\* A body is aborted by a context, and a context that ended stays ended.
AbortInv == body = "aborted" => ContextEnded

\* A permanent failure rests on an answer that was read as far as it is read.
RejectedAnswer ==
  /\ response \in Response
  /\ \/ body = "oversize"
     \/ /\ body = "complete"
        /\ \/ response.status = 200 /\ response.defects # {}
           \/ response.status \notin RetryStatuses \cup {200}

\* A rate rests on a whole and well-formed answer.
AcceptedAnswer ==
  /\ response \in Response
  /\ body = "complete" /\ response.status = 200 /\ response.defects = {}

\* The hint of a retry is what the answer asks for, unless the timer has fired.
HintFrom(h) ==
  \/ h = IF AskedDelay > MaxRetryAfter THEN MaxRetryAfter ELSE AskedDelay
  \/ timer = "fired" /\ h = 0

\* Each kind of failure says what it rests on, until the service decides ...
ResultInv ==
  pc = "service" =>
    /\ result.kind = "cancelled" => parent
    /\ result.kind = "permanent" => RejectedAnswer
    /\ result.kind = "none" => AcceptedAnswer
    /\ result.kind \in {"temporary", "throttled"} => parent \/ HintFrom(result.hint)

\* ... and so does each command after it.
CommandInv ==
  pc = "done" =>
    /\ command.code = "provider_permanent" => RejectedAnswer
    /\ command.op = "complete" => AcceptedAnswer
    /\ command.op = "retry" => HintFrom(command.hint)

Inv == TypeOK /\ PhaseInv /\ AbortInv /\ ResultInv /\ CommandInv

-----------------------------------------------------------------------------
\* retryAfter, for every header the provider may send: what the header asks for,
\* however large, cut to the limit.
LEMMA RetryAfterIsAsked ==
  ASSUME NEW h \in RetryAfterHeader
  PROVE  /\ Asked(h) \in Nat /\ retryAfter(h) \in Nat
         /\ retryAfter(h) = IF Asked(h) > MaxRetryAfter THEN MaxRetryAfter ELSE Asked(h)
<1>1. CASE h \in [kind : {"absent", "text"}, value : {0}]
  BY <1>1, ProviderAssumption DEF retryAfter, Asked
<1>2. CASE h \in [kind : {"digits"}, value : HeaderValues \cap Nat]
  BY <1>2, ProviderAssumption DEF retryAfter, Asked
<1>3. CASE h \in [kind : {"date"}, value : HeaderValues]
  BY <1>3, ProviderAssumption DEF retryAfter, Asked
<1> QED
  BY <1>1, <1>2, <1>3 DEF RetryAfterHeader

\* What the response itself is made into rests on that response.
LEMMA ResponseFailureRests ==
  ASSUME NEW r \in Response, r.status # 200
  PROVE  LET f == responseFailure(r) IN
         /\ f \in [kind : {"temporary", "throttled", "permanent"}, hint : Nat]
         /\ f.kind = "permanent" <=> r.status \notin RetryStatuses
         /\ f.kind # "permanent" =>
              f.hint = IF Asked(r.header) > MaxRetryAfter THEN MaxRetryAfter
                       ELSE Asked(r.header)
<1>1. r.header \in RetryAfterHeader
  BY DEF Response
<1>2. /\ FailureKind(r.status) \in {"temporary", "throttled", "permanent"}
      /\ FailureKind(r.status) = "permanent" <=> r.status \notin RetryStatuses
  BY DEF FailureKind, RetryStatuses
<1> QED
  BY <1>1, <1>2, RetryAfterIsAsked DEF responseFailure, Failure

\* The types are kept by every step.
LEMMA TypeKept == Inv /\ [Next]_vars => TypeOK'
<1> SUFFICES ASSUME Inv, [Next]_vars PROVE TypeOK'
  OBVIOUS
<1> USE DEF Inv, TypeOK, PhaseInv, Return, Failure, Results
<1>1. CASE Call
  BY <1>1 DEF Call
<1>2. CASE DoFails
  BY <1>2 DEF DoFails
<1>3. CASE DoAnswers
  BY <1>3 DEF DoAnswers
<1>4. CASE ReadEnds
  BY <1>4 DEF ReadEnds
<1>5. CASE CheckParent
  BY <1>5 DEF CheckParent
<1>6. CASE CheckTimer
  BY <1>6 DEF CheckTimer, AbortInv
<1>7. CASE Classify
  <2>1. response \in Response
    BY <1>7 DEF Classify
  <2>2. response.status # 200 => responseFailure(response) \in Results
    BY <2>1, ResponseFailureRests, ProviderAssumption
  <2>3. decodeQuote(response) \in Results
    BY DEF decodeQuote
  <2>4. result' \in Results
    BY <1>7, <2>2, <2>3 DEF Classify
  <2> QED
    BY <1>7, <2>4 DEF Classify
<1>8. CASE Decide
  BY <1>8 DEF Decide, SettleBy, Command
<1>9. CASE Cancel \/ Timeout \/ UNCHANGED vars
  BY <1>9 DEF Cancel, Timeout, vars
<1> QED
  BY <1>1, <1>2, <1>3, <1>4, <1>5, <1>6, <1>7, <1>8, <1>9 DEF Next, Code

\* Classify is where an answer becomes a result.
LEMMA ClassifyRests ==
  ASSUME Inv, Classify
  PROVE  PhaseInv' /\ AbortInv' /\ ResultInv' /\ CommandInv'
<1> USE DEF Inv, TypeOK, PhaseInv, Classify, Return
<1>1. response \in Response /\ body # "aborted"
  OBVIOUS
<1>2. CASE body = "oversize"
  BY <1>1, <1>2 DEF Failure, AbortInv, ContextEnded, ResultInv, CommandInv, Results,
       RejectedAnswer
<1>3. CASE body \in {"truncated", "broken"}
  BY <1>1, <1>3, ProviderAssumption DEF Failure, AbortInv, ContextEnded, ResultInv,
       CommandInv, Results, HintFrom, AskedDelay
<1>4. CASE body = "complete" /\ response.status # 200
  <2> DEFINE f == responseFailure(response)
  <2>1. result' = f
    BY <1>4
  <2> HIDE DEF f
  <2>2. /\ f \in [kind : {"temporary", "throttled", "permanent"}, hint : Nat]
        /\ f.kind = "permanent" <=> response.status \notin RetryStatuses
        /\ f.kind # "permanent" =>
             f.hint = IF Asked(response.header) > MaxRetryAfter THEN MaxRetryAfter
                      ELSE Asked(response.header)
    BY <1>1, <1>4, ResponseFailureRests DEF f
  <2>3. /\ UNCHANGED <<response, body, timer, parent, command>>
        /\ response # NULL /\ pc' = "service"
    BY <1>1, NullAssumption
  <2>4. result'.kind # "permanent" => HintFrom(result.hint)'
    BY <1>4, <2>1, <2>2, <2>3 DEF HintFrom, AskedDelay, RetryStatuses
  <2>5. result'.kind = "permanent" => RejectedAnswer'
    BY <1>1, <1>4, <2>1, <2>2, <2>3 DEF RejectedAnswer
  <2> QED
    BY <1>1, <1>4, <2>1, <2>2, <2>3, <2>4, <2>5
    DEF AbortInv, ContextEnded, ResultInv, CommandInv, Results
<1>5. CASE body = "complete" /\ response.status = 200
  BY <1>1, <1>5 DEF decodeQuote, Failure, AbortInv, ContextEnded, ResultInv, CommandInv,
       Results, AcceptedAnswer, RejectedAnswer
<1> QED
  BY <1>1, <1>2, <1>3, <1>4, <1>5

\* Decide hands on what the result rests on.  A cancelled attempt, whose kind
\* the service would take for a permanent one, has its parent's context ended.
LEMMA DecideRests ==
  ASSUME Inv, Decide
  PROVE  PhaseInv' /\ AbortInv' /\ ResultInv' /\ CommandInv'
<1> USE DEF Inv, Decide, Command
<1>1. PhaseInv' /\ AbortInv' /\ ResultInv'
  BY DEF PhaseInv, AbortInv, ContextEnded, ResultInv
<1>2. result \in Results /\ pc' = "done"
  BY DEF PhaseInv
<1> SUFFICES CommandInv'
  BY <1>1
<1>3. CASE parent
  BY <1>2, <1>3, NullAssumption DEF CommandInv
<1>4. CASE ~parent /\ result.kind = "none"
  BY <1>2, <1>4, NullAssumption DEF SettleBy, CommandInv, ResultInv, AcceptedAnswer
<1>5. CASE ~parent /\ result.kind \in {"temporary", "throttled"}
  BY <1>2, <1>5, NullAssumption DEF SettleBy, CommandInv, ResultInv, HintFrom, AskedDelay
<1>6. CASE ~parent /\ result.kind = "permanent"
  BY <1>2, <1>6, NullAssumption DEF SettleBy, CommandInv, ResultInv, RejectedAnswer
<1> QED
  BY <1>2, <1>3, <1>4, <1>5, <1>6 DEF Results, ResultInv

\* The invariant is inductive.
LEMMA InvNext == Inv /\ [Next]_vars => Inv'
<1> SUFFICES ASSUME Inv, [Next]_vars PROVE Inv'
  OBVIOUS
<1>0. TypeOK'
  BY TypeKept
<1> USE DEF Inv, PhaseInv, AbortInv, ContextEnded, ResultInv, CommandInv, Return,
      Failure, RejectedAnswer, AcceptedAnswer, HintFrom, AskedDelay
<1>1. CASE Call
  BY <1>0, <1>1 DEF Call, Results, TypeOK
<1>2. CASE DoFails
  BY <1>0, <1>2, ProviderAssumption DEF DoFails, Results, TypeOK
<1>3. CASE DoAnswers
  BY <1>0, <1>3 DEF DoAnswers, TypeOK
<1>4. CASE ReadEnds
  BY <1>0, <1>4 DEF ReadEnds
<1>5. CASE CheckParent
  BY <1>0, <1>5 DEF CheckParent, Results
<1>6. CASE CheckTimer
  BY <1>0, <1>6, ProviderAssumption DEF CheckTimer, Results
<1>7. CASE Classify
  BY <1>0, <1>7, ClassifyRests
<1>8. CASE Decide
  BY <1>0, <1>8, DecideRests
<1>9. CASE Cancel \/ Timeout \/ UNCHANGED vars
  BY <1>0, <1>9 DEF Cancel, Timeout, vars
<1> QED
  BY <1>1, <1>2, <1>3, <1>4, <1>5, <1>6, <1>7, <1>8, <1>9 DEF Next, Code

\* An attempt begins with nothing sent, read, returned or decided.
LEMMA InvInit == Init => Inv
<1> USE DEF Init
<1>1. Init => TypeOK
  BY DEF TypeOK
<1>2. Init => PhaseInv /\ ResultInv /\ CommandInv
  BY DEF PhaseInv, ResultInv, CommandInv
<1>3. Init => AbortInv
  BY NullAssumption DEF AbortInv
<1> QED
  BY <1>1, <1>2, <1>3 DEF Inv

\* The whole invariant holds in every behaviour of an attempt.
LEMMA InvHolds == Spec => []Inv
BY InvInit, InvNext, PTL DEF Spec

\* The variables keep their types.
THEOREM FrankfurterTypeCorrect == Spec => []TypeOK
<1>1. Inv => TypeOK
  BY DEF Inv
<1> QED
  BY <1>1, InvHolds, PTL

\* Whatever the provider sends and whenever a context ends, a job is failed for
\* good only by an answer that no retry would better.
THEOREM PermanentOnlyByAnswerHolds == Spec => []PermanentOnlyByAnswer
<1>1. Inv => PermanentOnlyByAnswer
  BY NullAssumption DEF Inv, PhaseInv, CommandInv, RejectedAnswer, RetryStatuses, PermanentOnlyByAnswer
<1> QED
  BY <1>1, InvHolds, PTL

\* No quote is stored from a broken, refused or malformed answer.
THEOREM QuoteOnlyFromWholeAnswerHolds == Spec => []QuoteOnlyFromWholeAnswer
<1>1. Inv => QuoteOnlyFromWholeAnswer
  BY DEF Inv, PhaseInv, CommandInv, AcceptedAnswer, QuoteOnlyFromWholeAnswer
<1> QED
  BY <1>1, InvHolds, PTL

\* For every number a provider may put into Retry-After, the retry's hint is
\* that number cut to the limit: neither lost to an overflow nor negative, and
\* nothing for an answer without a say.
THEOREM HintIsTheProvidersHolds == Spec => []HintIsTheProviders
<1>1. Inv => HintIsTheProviders
  BY NullAssumption DEF Inv, PhaseInv, CommandInv, HintFrom, HintIsTheProviders
<1> QED
  BY <1>1, InvHolds, PTL

-----------------------------------------------------------------------------
(***************************************************************************)
(* The delay before the next attempt.                                      *)
(***************************************************************************)
\* The effective fields are positive.
LEMMA FieldsPositive ==
  ASSUME DelayTypeOK
  PROVE  initial \in 1..MaxInt /\ maximum \in 1..MaxInt
  BY PolicyAssumption DEF DelayTypeOK, Int64, initial, maximum

\* The parts of the argument: types, and the capped growth of the backoff.
DelayInv == DelayTypeOK /\ BackoffIsCappedGrowth /\ DelayAsDocumented

\* The first backoff is the smaller of the two fields.
LEMMA DelayInvInit == DelayInit => DelayInv
<1> SUFFICES ASSUME DelayInit PROVE DelayInv
  OBVIOUS
<1>1. initial \in 1..MaxInt /\ maximum \in 1..MaxInt
  BY PolicyAssumption DEF DelayInit, Int64, initial, maximum
<1>2. DelayTypeOK
  BY <1>1, PolicyAssumption DEF DelayInit, DelayTypeOK, Int64, Min
<1>3. BackoffIsCappedGrowth /\ DelayAsDocumented
  BY <1>1 DEF DelayInit, BackoffIsCappedGrowth, DelayAsDocumented, Min
<1> QED
  BY <1>2, <1>3 DEF DelayInv

\* A turn of the loop doubles the backoff or reaches the maximum, and the
\* product is computed only where it fits.
LEMMA LoopKeeps == DelayInv /\ Loop => DelayInv'
<1> SUFFICES ASSUME DelayInv, Loop PROVE DelayInv'
  OBVIOUS
<1>1. /\ maximum \in 1..MaxInt /\ maximum' = maximum
      /\ MaxInt \in Nat
  BY FieldsPositive, PolicyAssumption DEF DelayInv, Loop, maximum
<1>2. /\ backoff = exact /\ backoff \in 1..MaxInt /\ backoff < maximum
      /\ exact \in Nat \ {0}
  BY <1>1 DEF DelayInv, DelayTypeOK, BackoffIsCappedGrowth, Min, Loop
<1>3. /\ backoff' = IF backoff > maximum \div 2 THEN maximum ELSE Wrap(2 * backoff)
      /\ exact' = 2 * exact /\ n' = n + 1 /\ n < attempt
      /\ phase = "loop" /\ UNCHANGED <<policy, attempt, hint, phase, delay>>
  BY DEF Loop, Doubled
<1>4. backoff' = Min(maximum, exact') /\ backoff' \in 1..MaxInt
  BY <1>1, <1>2, <1>3 DEF Wrap, Min
<1>5. n' \in 1..MaxInt
  BY <1>1, <1>3 DEF DelayInv, DelayTypeOK, Int64
<1>6. DelayTypeOK'
  BY <1>1, <1>2, <1>3, <1>4, <1>5 DEF DelayInv, DelayTypeOK, Int64
<1>7. BackoffIsCappedGrowth' /\ DelayAsDocumented'
  BY <1>1, <1>3, <1>4 DEF BackoffIsCappedGrowth, DelayAsDocumented
<1> QED
  BY <1>6, <1>7 DEF DelayInv

\* The jitter stays between half the backoff and the backoff, whatever the
\* hash is, and the sum does not wrap around.
LEMMA JitterKeeps == DelayInv /\ Jitter => DelayInv'
<1> SUFFICES ASSUME DelayInv, Jitter PROVE DelayInv'
  OBVIOUS
<1>1. /\ maximum \in 1..MaxInt /\ maximum' = maximum
      /\ MaxInt \in Nat
  BY FieldsPositive, PolicyAssumption DEF DelayInv, Jitter, maximum
<1>2. backoff \in 1..MaxInt /\ backoff <= maximum /\ exact \in Nat /\ hint \in Int
  BY <1>1 DEF DelayInv, DelayTypeOK, BackoffIsCappedGrowth, Min, Int64
<1>3. Floor \in 1..backoff /\ Floor = Max(1, backoff \div 2)
  BY <1>2 DEF Floor, Max
<1>4. PICK j \in 0..(backoff - Floor) : delay' = Min(maximum, Max(Wrap(Floor + j), hint))
  BY DEF Jitter
<1>5. Floor + j \in Floor..backoff /\ Wrap(Floor + j) = Floor + j
  BY <1>1, <1>2, <1>3, <1>4 DEF Wrap
<1>6. /\ delay' \in Floor..maximum
      /\ delay' >= Min(maximum, hint)
      /\ hint <= backoff => delay' <= backoff
      /\ hint > backoff => delay' = Min(maximum, hint)
  BY <1>1, <1>2, <1>3, <1>4, <1>5 DEF Min, Max
<1>7. /\ phase = "loop" /\ phase' = "done" /\ ~(n < attempt /\ backoff < maximum)
      /\ UNCHANGED <<policy, attempt, hint, n, backoff, exact>>
  BY DEF Jitter
<1>8. DelayTypeOK'
  BY <1>1, <1>3, <1>6, <1>7 DEF DelayInv, DelayTypeOK, Int64
<1>9. BackoffIsCappedGrowth'
  <2>1. backoff = Min(maximum, exact) /\ n \in Int /\ attempt \in Int
    BY DEF DelayInv, BackoffIsCappedGrowth, DelayTypeOK, Int64
  <2>2. n >= attempt \/ exact >= maximum
    BY <1>1, <1>2, <1>7, <2>1 DEF Min
  <2> QED
    BY <1>1, <1>7, <2>1, <2>2 DEF BackoffIsCappedGrowth
<1>10. DelayAsDocumented'
  BY <1>1, <1>3, <1>6, <1>7 DEF DelayAsDocumented
<1> QED
  BY <1>8, <1>9, <1>10 DEF DelayInv

\* Nothing else changes the variables.
LEMMA DelayInvNext == DelayInv /\ [DelayNext]_delayVars => DelayInv'
<1> SUFFICES ASSUME DelayInv, [DelayNext]_delayVars PROVE DelayInv'
  OBVIOUS
<1>1. CASE Loop
  BY <1>1, LoopKeeps
<1>2. CASE Jitter
  BY <1>2, JitterKeeps
<1>3. CASE UNCHANGED delayVars
  BY <1>3 DEF delayVars, DelayInv, DelayTypeOK, BackoffIsCappedGrowth, DelayAsDocumented, maximum, Int64
<1> QED
  BY <1>1, <1>2, <1>3 DEF DelayNext

\* Delay never overflows: its backoff is the exponential growth cut off at the
\* maximum, for every width of the integers, every policy and every attempt.
THEOREM BackoffCorrect == DelaySpec => []BackoffIsCappedGrowth
<1>1. DelayInv => BackoffIsCappedGrowth
  BY DEF DelayInv
<1> QED
  BY <1>1, DelayInvInit, DelayInvNext, PTL DEF DelaySpec

\* What Delay returns lies in the documented interval, with any hash, hint and
\* policy.
THEOREM DelayCorrect == DelaySpec => []DelayAsDocumented
<1>1. DelayInv => DelayAsDocumented
  BY DEF DelayInv
<1> QED
  BY <1>1, DelayInvInit, DelayInvNext, PTL DEF DelaySpec
===============================================================================

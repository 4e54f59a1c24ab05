----------------------------- MODULE RetryPolicy ------------------------------
(***************************************************************************)
(* RetryPolicy.Delay (internal/usecase/quote/retry.go) in signed integers  *)
(* of a fixed width: every policy, attempt and hint, one step per turn of  *)
(* the doubling loop.  The hash that picks the jitter is any value.        *)
(***************************************************************************)
EXTENDS Integers

CONSTANTS
  MaxInt,         \* the largest integer; they wrap around to -MaxInt - 1
  Second, Minute  \* the defaults of the two fields

ASSUME PolicyAssumption ==
  /\ MaxInt \in Nat \ {0}
  /\ Second \in 1..MaxInt
  /\ Minute \in 1..MaxInt

Int64 == (-MaxInt - 1)..MaxInt

VARIABLES
  policy,             \* the fields Initial and Maximum
  attempt, hint,      \* the other arguments
  phase, n, backoff,  \* the loop
  delay,              \* the result
  exact               \* history: what exponential growth without a limit gives

delayVars == <<policy, attempt, hint, phase, n, backoff, delay, exact>>

-----------------------------------------------------------------------------
Min(a, b) == IF a < b THEN a ELSE b
Max(a, b) == IF a > b THEN a ELSE b

\* Go's integers wrap around.
Wrap(x) == IF x > MaxInt THEN x - 2 * (MaxInt + 1) ELSE x

initial == IF policy.Initial <= 0 THEN Second ELSE policy.Initial
maximum == IF policy.Maximum <= 0 THEN Minute ELSE policy.Maximum

DelayInit ==
  /\ policy \in [Initial : Int64, Maximum : Int64]
  /\ attempt \in Int64
  /\ hint \in Int64
  /\ phase = "loop"
  /\ n = 1
  /\ backoff = Min(initial, maximum)
  /\ delay = 0
  /\ exact = Min(initial, maximum)

\* Mutant: doubled first, compared afterwards.
DoubledThenCapped == Min(maximum, Wrap(2 * backoff))

Doubled == IF backoff > maximum \div 2 THEN maximum ELSE Wrap(2 * backoff)

Loop ==
  /\ phase = "loop" /\ n < attempt /\ backoff < maximum
  /\ backoff' = Doubled
  /\ exact' = 2 * exact
  /\ n' = n + 1
  /\ UNCHANGED <<policy, attempt, hint, phase, delay>>

\* Mutant: half of a nanosecond is nothing.
FloorOfZero == backoff \div 2

Floor == Max(1, backoff \div 2)

\* The remainder of the hash by backoff - floor + 1 is any of 0..backoff - floor.
Jitter ==
  /\ phase = "loop" /\ ~(n < attempt /\ backoff < maximum)
  /\ \E j \in 0..(backoff - Floor) :
       delay' = Min(maximum, Max(Wrap(Floor + j), hint))
  /\ phase' = "done"
  /\ UNCHANGED <<policy, attempt, hint, n, backoff, exact>>

DelayNext == Loop \/ Jitter
DelaySpec == DelayInit /\ [][DelayNext]_delayVars

-----------------------------------------------------------------------------
\* Every variable has its type.
DelayTypeOK ==
  /\ policy \in [Initial : Int64, Maximum : Int64]
  /\ attempt \in Int64 /\ hint \in Int64 /\ delay \in Int64
  /\ phase \in {"loop", "done"}
  /\ n \in 1..MaxInt
  /\ backoff \in Int64
  /\ exact \in Nat \ {0}

\* However high the attempt and however close to the largest integer the
\* maximum, the backoff is the exponential growth cut off at the maximum: it
\* never wraps around, and what the loop leaves out when it stops early would
\* not have changed it.
BackoffIsCappedGrowth ==
  /\ backoff = Min(maximum, exact)
  /\ phase = "done" => n >= attempt \/ exact >= maximum

\* The delay lies in [backoff/2, backoff], is at least a nanosecond and never
\* above the maximum; a hint only raises it, and not past the maximum.
DelayAsDocumented ==
  phase = "done" =>
    /\ delay \in Max(1, backoff \div 2)..maximum
    /\ delay >= Min(maximum, hint)
    /\ hint <= backoff => delay <= backoff
    /\ hint > backoff => delay = Min(maximum, hint)
===============================================================================

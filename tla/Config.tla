-------------------------------- MODULE Config --------------------------------
(***************************************************************************)
(* The settings (internal/app/config/config.go), and the two races of      *)
(* timers that their validation decides: an attempt against its lease, and *)
(* an answer against the server's write deadline.                          *)
(*                                                                         *)
(* Durations are numbers of clock ticks; the clock starts when the row is  *)
(* claimed and the request's header has been read.  Every bounded setting  *)
(* is read the same way, so an instance takes the ones it is about.        *)
(***************************************************************************)
EXTENDS Integers

CONSTANTS
  Settings,       \* the bounded settings
  Lower, Upper,   \* their documented bounds
  Default,        \* their values when the variable is not set
  Values,         \* the numbers the environment may give
  UNSET, INVALID, \* a variable that is absent, or not a number or duration
  commitMargin,   \* time.Second
  Horizon         \* the clock stops here

ASSUME ConfigAssumption ==
  /\ {"ProviderTimeout", "LeaseDuration", "RequestTimeout", "ReadTimeout",
      "WriteTimeout"} \subseteq Settings
  /\ Lower \in [Settings -> Nat]
  /\ Upper \in [Settings -> Nat]
  /\ Default \in [Settings -> Nat]
  /\ Values \subseteq Nat
  /\ UNSET \notin Nat
  /\ INVALID \notin Nat
  /\ commitMargin \in Nat
  /\ Horizon \in Nat

VARIABLES
  stage,          \* "load", "refused" or "running"
  env,            \* the environment variables
  config,         \* the Config in use
  t,              \* the clock
  attempt,        \* an attempt: its phase and when it got there
  request         \* a request: its phase and when its body was last read

configVars == <<stage, env, config, t, attempt, request>>

Idle == [phase |-> "claimed", called |-> 0, returned |-> 0, settled |-> 0]
Received == [phase |-> "reading", read |-> 0]

-----------------------------------------------------------------------------
(***************************************************************************)
(* LoadFromLookup.                                                         *)
(***************************************************************************)
\* lookup and value: the variable, or the default.
Read(k) == IF env[k] = UNSET THEN Default[k] ELSE env[k]

\* boundedDuration and boundedInt.
Bounded(k) == Read(k) # INVALID /\ Lower[k] <= Read(k) /\ Read(k) <= Upper[k]

\* Mutant: the margin for the commit is forgotten.
validateNoMargin(c) ==
  /\ c["LeaseDuration"] >= commitMargin
  /\ c["ProviderTimeout"] <= c["LeaseDuration"]

\* The relation validate asks for between two settings.
validate(c) ==
  /\ c["LeaseDuration"] >= commitMargin
  /\ c["ProviderTimeout"] <= c["LeaseDuration"] - commitMargin

LoadFromLookup ==
  /\ stage = "load"
  /\ IF /\ \A k \in Settings : Bounded(k)
        /\ validate([k \in Settings |-> Read(k)])
     THEN stage' = "running" /\ config' = [k \in Settings |-> Read(k)]
     ELSE stage' = "refused" /\ UNCHANGED config
  /\ UNCHANGED <<env, t, attempt, request>>

-----------------------------------------------------------------------------
(***************************************************************************)
(* An attempt: the row is claimed at 0 and leased for LeaseDuration; the   *)
(* provider's client gives up ProviderTimeout after the call.              *)
(***************************************************************************)
CallProvider ==
  /\ stage = "running"
  /\ attempt.phase = "claimed"
  /\ attempt' = [attempt EXCEPT !.phase = "calling", !.called = t]
  /\ UNCHANGED <<stage, env, config, t, request>>

ProviderReturns ==
  /\ stage = "running"
  /\ attempt.phase = "calling"
  /\ attempt' = [attempt EXCEPT !.phase = "returned", !.returned = t]
  /\ UNCHANGED <<stage, env, config, t, request>>

Settle ==
  /\ stage = "running"
  /\ attempt.phase = "returned"
  /\ attempt' = [attempt EXCEPT !.phase = "settled", !.settled = t]
  /\ UNCHANGED <<stage, env, config, t, request>>

-----------------------------------------------------------------------------
(***************************************************************************)
(* A request: the handler reads the body, then works and answers.          *)
(* WithRequestTimeout cancels the work after RequestTimeout but not the    *)
(* read, which only the server's ReadTimeout ends.  What is written after  *)
(* WriteTimeout does not reach the client.                                 *)
(***************************************************************************)
\* The body is complete, or its read failed; at once where there is no body.
ReadBody ==
  /\ stage = "running"
  /\ request.phase = "reading"
  /\ request' = [phase |-> "serving", read |-> t]
  /\ UNCHANGED <<stage, env, config, t, attempt>>

\* What becomes of an answer that is written now.
Written == IF t < config["WriteTimeout"] THEN "answered" ELSE "cut"

Answer ==
  /\ stage = "running"
  /\ request.phase = "serving"
  /\ request' = [request EXCEPT !.phase = Written]
  /\ UNCHANGED <<stage, env, config, t, attempt>>

\* The handler answered without reading the body: before it writes the answer,
\* the server of net/http reads what is left of it.
LeaveBody ==
  /\ stage = "running"
  /\ request.phase = "serving"
  /\ request' = [request EXCEPT !.phase = "draining"]
  /\ UNCHANGED <<stage, env, config, t, attempt>>

DrainBody ==
  /\ stage = "running"
  /\ request.phase = "draining"
  /\ request' = [phase |-> Written, read |-> t]
  /\ UNCHANGED <<stage, env, config, t, attempt>>

-----------------------------------------------------------------------------
\* Mutant: nothing cancels the work of a request.
RequestDueNever == FALSE

\* The deadline of the request's context is now: its work ends.
RequestDue == request.phase = "serving" /\ t >= config["RequestTimeout"]

\* The server's read deadline is now: a read of the body fails.  It is set
\* before the header is read, so it comes at this moment at the latest.
ReadDue == request.phase \in {"reading", "draining"} /\ t >= config["ReadTimeout"]

\* The timer of the provider's client fires now.
CallDue == attempt.phase = "calling" /\ t >= attempt.called + config["ProviderTimeout"]

\* Time passes; a timer that is due fires first.
Tick ==
  /\ stage = "running"
  /\ t < Horizon
  /\ ~RequestDue
  /\ ~ReadDue
  /\ ~CallDue
  /\ t' = t + 1
  /\ UNCHANGED <<stage, env, config, attempt, request>>

ConfigInit ==
  /\ stage = "load"
  /\ env \in [Settings -> Values \cup {UNSET, INVALID}]
  /\ config = [k \in Settings |-> 0]
  /\ t = 0
  /\ attempt = Idle
  /\ request = Received

ConfigNext ==
  \/ LoadFromLookup
  \/ CallProvider
  \/ ProviderReturns
  \/ Settle
  \/ ReadBody
  \/ Answer
  \/ LeaveBody
  \/ DrainBody
  \/ Tick

ConfigSpec == ConfigInit /\ [][ConfigNext]_configVars

-----------------------------------------------------------------------------
(***************************************************************************)
(* What the settings promise.                                              *)
(***************************************************************************)

\* With any configuration the service starts with, an attempt that loses less
\* than the commit margin before and after its call to the provider settles
\* while its lease still runs, even if the provider used up its timeout: no
\* other worker can have taken the row over.
LeaseCoversAttempt ==
  attempt.phase = "settled"
    /\ attempt.called + (attempt.settled - attempt.returned) < commitMargin
  => attempt.settled < config["LeaseDuration"]

\* If the write timeout exceeds the request timeout, as the README of the
\* service asks, a request that runs into its deadline still gets its answer
\* out, with one exception: a client that was still sending its body when the
\* write deadline came, which takes a read timeout as long as the write timeout.
LongerWriteTimeoutSuffices ==
  request.phase = "cut" /\ config["WriteTimeout"] > config["RequestTimeout"]
  => /\ request.read >= config["WriteTimeout"]
     /\ config["ReadTimeout"] >= config["WriteTimeout"]
===============================================================================

----------------------------- MODULE Frankfurter ------------------------------
(***************************************************************************)
(* One claimed attempt between Provider.FetchRate (adapter/frankfurter) and *)
(* what ProcessNextUpdate makes of its answer (usecase/quote/service.go).  *)
(* The provider may answer anything, break off or hang; the caller's       *)
(* context may be cancelled and the request's own timer may fire between   *)
(* any two steps.                                                          *)
(*                                                                         *)
(* Stored pairs have been parsed before, so that FetchRate's second        *)
(* ParsePair and NewRequestWithContext cannot fail.                        *)
(***************************************************************************)
EXTENDS Integers

CONSTANTS
  Statuses,       \* HTTP statuses the provider may answer with
  HeaderValues,   \* numbers in Retry-After: seconds, or a date's distance from now
  MaxUint64,      \* the largest number ParseUint reads
  MaxRetryAfter,  \* maxRetryAfter, in seconds
  NULL

ASSUME ProviderAssumption ==
  /\ Statuses \subseteq Nat
  /\ HeaderValues \subseteq Int
  /\ MaxUint64 \in Nat
  /\ MaxRetryAfter \in 0..MaxUint64

VARIABLES
  pc,
  parent,         \* has the caller's context ended?
  timer,          \* the request's timer: "unset", "set", "fired"
  response,       \* what the provider sends: status, headers, body; NULL before
  body,           \* how reading the body ended; NULL before
  result,         \* what FetchRate returned; NULL before
  last,           \* is this the job's last attempt?
  command         \* what the service asks of the store; NULL before

vars == <<pc, parent, timer, response, body, result, last, command>>

-----------------------------------------------------------------------------
\* What can be wrong with a complete body, in the order decodeQuote looks.
Defects == {"json", "suffix", "pair", "number", "rate", "date"}

RetryAfterHeader ==
  [kind : {"absent", "text"}, value : {0}]
  \cup [kind : {"digits"}, value : HeaderValues \cap Nat]
  \cup [kind : {"date"}, value : HeaderValues]

Response == [status : Statuses, header : RetryAfterHeader, defects : SUBSET Defects]

ASSUME NullAssumption ==
  /\ NULL \notin Response
  /\ NULL \notin {"aborted", "attempts_exhausted", "provider_permanent"}

\* ctx of FetchRate: it ends with its parent or by its own timer.
ContextEnded == parent \/ timer = "fired"

Failure(kind, hint) == [kind |-> kind, hint |-> hint]

Return(r) ==
  /\ result' = r
  /\ pc' = "service"

\* Mutant: a number that ParseUint cannot read asks for nothing.
retryAfterOverflowIsZero(h) ==
  LET capped == IF h.value >= MaxRetryAfter THEN MaxRetryAfter ELSE h.value
  IN CASE h.kind = "digits" -> IF h.value > MaxUint64 THEN 0 ELSE capped
       [] h.kind = "date" /\ h.value > 0 -> capped
       [] OTHER -> 0

retryAfter(h) ==
  LET capped == IF h.value >= MaxRetryAfter THEN MaxRetryAfter ELSE h.value
  IN CASE h.kind = "digits" -> IF h.value > MaxUint64 THEN MaxRetryAfter ELSE capped
       [] h.kind = "date" /\ h.value > 0 -> capped
       [] OTHER -> 0

FailureKind(status) ==
  CASE status = 429 -> "throttled"
    [] status \in {408, 500, 502, 503, 504} -> "temporary"
    [] OTHER -> "permanent"

responseFailure(r) ==
  Failure(FailureKind(r.status),
          IF FailureKind(r.status) = "permanent" THEN 0 ELSE retryAfter(r.header))

decodeQuote(r) ==
  IF r.defects = {} THEN Failure("none", 0) ELSE Failure("permanent", 0)

-----------------------------------------------------------------------------
(***************************************************************************)
(* FetchRate.                                                              *)
(***************************************************************************)
Call ==
  /\ pc = "call"
  /\ IF parent
     THEN Return(Failure("cancelled", 0)) /\ UNCHANGED timer
     ELSE pc' = "do" /\ timer' = "set" /\ UNCHANGED result
  /\ UNCHANGED <<parent, response, body, last, command>>

\* The request failed, was refused, or its context ended.
DoFails ==
  /\ pc = "do"
  /\ Return(Failure(IF parent THEN "cancelled" ELSE "temporary", 0))
  /\ UNCHANGED <<parent, timer, response, body, last, command>>

\* Redirects are answers like others (ErrUseLastResponse).
DoAnswers ==
  /\ pc = "do"
  /\ response' \in Response
  /\ pc' = "read"
  /\ UNCHANGED <<parent, timer, body, result, last, command>>

\* io.ReadAll of at most maxResponseBytes + 1.
ReadEnds ==
  /\ pc = "read"
  /\ body' \in {"complete", "oversize", "truncated", "broken"}
                 \cup (IF ContextEnded THEN {"aborted"} ELSE {})
  /\ pc' = "parent"
  /\ UNCHANGED <<parent, timer, response, result, last, command>>

CheckParent ==
  /\ pc = "parent"
  /\ IF parent
     THEN Return(Failure("cancelled", 0))
     ELSE pc' = "timer" /\ UNCHANGED result
  /\ UNCHANGED <<parent, timer, response, body, last, command>>

CheckTimer ==
  /\ pc = "timer"
  /\ IF ContextEnded
     THEN Return(Failure("temporary", 0))
     ELSE pc' = "classify" /\ UNCHANGED result
  /\ UNCHANGED <<parent, timer, response, body, last, command>>

\* Mutant: the error of ReadAll is forgotten.
ClassifyWhatArrived ==
  /\ pc = "classify"
  /\ Return(CASE body = "oversize" -> Failure("permanent", 0)
              [] body # "oversize" /\ response.status # 200 -> responseFailure(response)
              [] OTHER -> decodeQuote(response))
  /\ UNCHANGED <<parent, timer, response, body, last, command>>

Classify ==
  /\ pc = "classify"
  /\ Return(CASE body = "oversize" -> Failure("permanent", 0)
              [] body # "complete" /\ body # "oversize" -> Failure("temporary", 0)
              [] body = "complete" /\ response.status # 200 -> responseFailure(response)
              [] OTHER -> decodeQuote(response))
  /\ UNCHANGED <<parent, timer, response, body, last, command>>

-----------------------------------------------------------------------------
(***************************************************************************)
(* The rest of ProcessNextUpdate, complete and handleProviderFailure.      *)
(***************************************************************************)
Command(op, hint, code) == [op |-> op, hint |-> hint, code |-> code]

\* An error that is no ProviderError counts as permanent.
SettleBy(r) ==
  CASE r.kind = "none" -> Command("complete", 0, NULL)
    [] r.kind \in {"temporary", "throttled"} ->
         IF last THEN Command("fail", 0, "attempts_exhausted")
         ELSE Command("retry", r.hint, NULL)
    [] OTHER -> Command("fail", 0, "provider_permanent")

\* Mutant: the cancelled context is not looked at.
DecideAlways ==
  /\ pc = "service"
  /\ command' = SettleBy(result)
  /\ pc' = "done"
  /\ UNCHANGED <<parent, timer, response, body, result, last>>

\* A cancelled attempt is left to the recovery.
Decide ==
  /\ pc = "service"
  /\ command' = IF parent THEN Command("none", 0, NULL) ELSE SettleBy(result)
  /\ pc' = "done"
  /\ UNCHANGED <<parent, timer, response, body, result, last>>

-----------------------------------------------------------------------------
(***************************************************************************)
(* The process is stopped; the timer fires.                                *)
(***************************************************************************)
Cancel ==
  /\ ~parent /\ pc # "done"
  /\ parent' = TRUE
  /\ UNCHANGED <<pc, timer, response, body, result, last, command>>

Timeout ==
  /\ timer = "set" /\ result = NULL
  /\ timer' = "fired"
  /\ UNCHANGED <<pc, parent, response, body, result, last, command>>

Init ==
  /\ pc = "call"
  /\ parent \in BOOLEAN
  /\ timer = "unset"
  /\ response = NULL
  /\ body = NULL
  /\ result = NULL
  /\ last \in BOOLEAN
  /\ command = NULL

Code == Call \/ CheckParent \/ CheckTimer \/ Classify \/ Decide
Next == Code \/ DoFails \/ DoAnswers \/ ReadEnds \/ Cancel \/ Timeout
Spec == Init /\ [][Next]_vars

(***************************************************************************)
(* The goroutine is scheduled and its timer fires; net/http gives up a     *)
(* request whose context has ended.  A provider that hangs is allowed.     *)
(***************************************************************************)

\* Mutant: the request is bound to the caller's context only.
AbortedByParent == parent /\ (DoFails \/ ReadEnds)

Aborted == ContextEnded /\ (DoFails \/ ReadEnds)

FairSpec == Spec /\ WF_vars(Code) /\ WF_vars(Timeout) /\ WF_vars(Aborted)

-----------------------------------------------------------------------------
\* Every variable has its type.
TypeOK ==
  /\ pc \in {"call", "do", "read", "parent", "timer", "classify", "service", "done"}
  /\ parent \in BOOLEAN /\ last \in BOOLEAN
  /\ timer \in {"unset", "set", "fired"}
  /\ response \in Response \cup {NULL}
  /\ body \in {NULL, "complete", "oversize", "truncated", "broken", "aborted"}
  /\ pc = "classify" => body # "aborted"
  /\ result \in [kind : {"none", "cancelled", "temporary", "throttled", "permanent"},
                 hint : Nat] \cup {NULL}
  /\ command \in [op : {"none", "complete", "retry", "fail"}, hint : Nat,
                  code : {NULL, "attempts_exhausted", "provider_permanent"}] \cup {NULL}

\* A job is failed for good only by an answer of the provider that was read
\* to its end or past the size limit, and that no retry would better: never
\* because the process was stopping, the request timed out or the connection
\* broke, at whatever moment that happened.
PermanentOnlyByAnswer ==
  command # NULL /\ command.code = "provider_permanent" =>
    /\ response # NULL
    /\ \/ body = "oversize"
       \/ /\ body = "complete"
          /\ \/ response.status = 200 /\ response.defects # {}
             \/ response.status \notin {200, 408, 429, 500, 502, 503, 504}

\* A quote is stored only from a whole, well-formed answer with status 200.
QuoteOnlyFromWholeAnswer ==
  command # NULL /\ command.op = "complete" =>
    /\ body = "complete" /\ response.status = 200 /\ response.defects = {}

\* The delay a header asks for: its number, however large, or the time to its
\* date; none when the date has passed or the text is neither.
Asked(h) ==
  IF h.kind = "digits" \/ (h.kind = "date" /\ h.value > 0) THEN h.value ELSE 0

\* What the provider's answer asks for, if it is one that may be retried.
AskedDelay ==
  IF response # NULL /\ body = "complete"
     /\ response.status \in {408, 429, 500, 502, 503, 504}
  THEN Asked(response.header)
  ELSE 0

\* A retry asks for exactly the delay of the provider's own answer, cut to
\* MaxRetryAfter: numbers beyond 64 bits, dates ahead and dates in the past
\* included, and for none if there is no whole answer that may be retried.  Only
\* the timer of the request can take the answer's say away.
HintIsTheProviders ==
  command # NULL /\ command.op = "retry" =>
    \/ command.hint = IF AskedDelay > MaxRetryAfter THEN MaxRetryAfter ELSE AskedDelay
    \/ timer = "fired" /\ command.hint = 0

\* The attempt ends although the provider hangs, before its headers or in the
\* middle of its body.
AttemptEnds == <>(pc = "done")
===============================================================================

------------------------------ MODULE Lifecycle ------------------------------
(***************************************************************************)
(* One process from Application.Run to its exit: serve (lifecycle.go),     *)
(* which starts the HTTP server and the worker pool and stops them in      *)
(* order, the readiness gate, the goroutines of Pool.Run, the requests in  *)
(* progress, and the SQL pool they all take connections from.              *)
(***************************************************************************)
EXTENDS Integers

CONSTANTS
  Goroutines,     \* the workers and the recovery loop Pool.Run starts
  Requests        \* HTTP requests

VARIABLES
  main,           \* where Application.Run and serve are
  signalled,      \* SIGINT or SIGTERM cancelled the application context
  ready,          \* readinessGate.ready
  listener,       \* the listening socket
  cancelled,      \* http.Server.Close cancelled the requests' contexts
  stopped,        \* stopWorkers cancelled the workers' context
  runner,         \* where Pool.Run is
  goroutine,      \* what each goroutine of the pool does
  request,        \* what each HTTP request does
  sqlPool         \* pgxpool.Pool

vars == <<main, signalled, ready, listener, cancelled, stopped, runner, goroutine,
          request, sqlPool>>
httpVars == <<listener, cancelled, request>>
poolVars == <<runner, goroutine>>

InProgress == {r \in Requests : request[r] \in {"running", "sql"}}

\* Whoever holds an SQL connection.
Holders == {r \in Requests : request[r] = "sql"}
           \cup {g \in Goroutines : goroutine[g] = "sql"}
           \cup {x \in {"Run"} : runner = "recovering"}

Init ==
  /\ main = "serving"
  /\ signalled = FALSE
  /\ ready = TRUE
  /\ listener = "open"
  /\ cancelled = FALSE
  /\ stopped = FALSE
  /\ runner = "init"
  /\ goroutine = [g \in Goroutines |-> "none"]
  /\ request = [r \in Requests |-> "new"]
  /\ sqlPool = "open"

-----------------------------------------------------------------------------
(***************************************************************************)
(* serve and Application.Run.                                              *)
(***************************************************************************)
Signal ==
  /\ ~signalled /\ main # "exit"
  /\ signalled' = TRUE
  /\ UNCHANGED <<main, ready, httpVars, stopped, poolVars, sqlPool>>

ListenerFails ==
  /\ listener = "open"
  /\ listener' = "failed"
  /\ UNCHANGED <<main, signalled, ready, cancelled, stopped, poolVars, request, sqlPool>>

\* case err := <-listenerDone: the server is closed at once.
ListenerDone ==
  /\ main = "serving" /\ listener = "failed"
  /\ cancelled' = TRUE
  /\ main' = "stopWorkers"
  /\ UNCHANGED <<signalled, ready, listener, stopped, poolVars, request, sqlPool>>

\* case <-ctx.Done(): stopping() takes the readiness away first.
Stopping ==
  /\ main = "serving" /\ signalled
  /\ ready' = FALSE
  /\ main' = "shutdown"
  /\ UNCHANGED <<signalled, httpVars, stopped, poolVars, sqlPool>>

\* Shutdown closes the listener, then waits.
ShutdownBegins ==
  /\ main = "shutdown"
  /\ listener' = "closed"
  /\ main' = "draining"
  /\ UNCHANGED <<signalled, ready, cancelled, stopped, poolVars, request, sqlPool>>

Drained ==
  /\ main = "draining" /\ InProgress = {}
  /\ main' = "stopWorkers"
  /\ UNCHANGED <<signalled, ready, httpVars, stopped, poolVars, sqlPool>>

\* The deadline passes; Close cancels what is still in progress.
ShutdownTimeout ==
  /\ main = "draining"
  /\ cancelled' = TRUE
  /\ main' = "stopWorkers"
  /\ UNCHANGED <<signalled, ready, listener, stopped, poolVars, request, sqlPool>>

\* Mutant: only the deferred stopWorkers() is left.
StopWorkersDeferred ==
  /\ main = "stopWorkers"
  /\ main' = "join"
  /\ UNCHANGED <<signalled, ready, httpVars, stopped, poolVars, sqlPool>>

StopWorkers ==
  /\ main = "stopWorkers"
  /\ stopped' = TRUE
  /\ main' = "join"
  /\ UNCHANGED <<signalled, ready, httpVars, poolVars, sqlPool>>

\* Mutant: workersDone.Wait() is forgotten.
JoinAtOnce ==
  /\ main = "join"
  /\ main' = "closePool"
  /\ UNCHANGED <<signalled, ready, httpVars, stopped, poolVars, sqlPool>>

\* workersDone.Wait().
Join ==
  /\ main = "join" /\ runner = "returned"
  /\ main' = "closePool"
  /\ UNCHANGED <<signalled, ready, httpVars, stopped, poolVars, sqlPool>>

\* The deferred pool.Close() refuses new users and waits for the present ones,
\* the deferred SetReady(false) comes last.
ClosePool ==
  /\ main = "closePool"
  /\ \/ sqlPool = "open" /\ sqlPool' = "closing" /\ UNCHANGED <<main, ready>>
     \/ /\ sqlPool = "closing" /\ Holders = {}
        /\ sqlPool' = "closed" /\ ready' = FALSE /\ main' = "exit"
  /\ UNCHANGED <<signalled, httpVars, stopped, poolVars>>

-----------------------------------------------------------------------------
(***************************************************************************)
(* Pool.Run and its goroutines.  An SQL call returns soon, whether its     *)
(* context is cancelled or not.                                            *)
(***************************************************************************)
RunBegins ==
  /\ runner = "init"
  /\ runner' = IF stopped THEN "returned" ELSE "recovering"
  /\ UNCHANGED <<main, signalled, ready, httpVars, stopped, goroutine, sqlPool>>

\* The first recovery ended; the goroutines start unless it was interrupted.
RunRecovered ==
  /\ runner = "recovering"
  /\ IF stopped
     THEN runner' = "returned" /\ UNCHANGED goroutine
     ELSE runner' = "spawned" /\ goroutine' = [g \in Goroutines |-> "loop"]
  /\ UNCHANGED <<main, signalled, ready, httpVars, stopped, sqlPool>>

\* group.Wait().
RunReturns ==
  /\ runner = "spawned" /\ \A g \in Goroutines : goroutine[g] = "returned"
  /\ runner' = "returned"
  /\ UNCHANGED <<main, signalled, ready, httpVars, stopped, goroutine, sqlPool>>

\* The loop head looks at the context, then an SQL call follows.
GoroutineLoops(g) ==
  /\ goroutine[g] = "loop"
  /\ goroutine' = [goroutine EXCEPT ![g] = IF stopped THEN "returned" ELSE "sql"]
  /\ UNCHANGED <<main, signalled, ready, httpVars, stopped, runner, sqlPool>>

\* After the call: a provider call or a pause, both without a connection, or
\* the next round.
GoroutineCalled(g) ==
  /\ goroutine[g] = "sql"
  /\ \E next \in IF stopped THEN {"returned"} ELSE {"loop", "waiting"} :
       goroutine' = [goroutine EXCEPT ![g] = next]
  /\ UNCHANGED <<main, signalled, ready, httpVars, stopped, runner, sqlPool>>

\* The provider answered or the timer fired: the result is written or the loop
\* goes on; a cancelled context ends both waits and writes nothing.
GoroutineWaited(g) ==
  /\ goroutine[g] = "waiting"
  /\ \E next \in IF stopped THEN {"returned"} ELSE {"loop", "sql"} :
       goroutine' = [goroutine EXCEPT ![g] = next]
  /\ UNCHANGED <<main, signalled, ready, httpVars, stopped, runner, sqlPool>>

-----------------------------------------------------------------------------
(***************************************************************************)
(* HTTP requests.                                                          *)
(***************************************************************************)
\* A request comes over a new connection or over one that is kept alive; while
\* Shutdown waits, also over one that was accepted before.
Accept(r) ==
  /\ request[r] = "new" /\ ~cancelled
  /\ listener # "closed" \/ main = "draining"
  /\ request' = [request EXCEPT ![r] = "running"]
  /\ UNCHANGED <<main, signalled, ready, listener, cancelled, stopped, poolVars, sqlPool>>

\* A handler takes a connection; one whose context is cancelled, or that finds
\* the pool closed, gets an error instead.
Acquire(r) ==
  /\ request[r] = "running" /\ ~cancelled /\ sqlPool = "open"
  /\ request' = [request EXCEPT ![r] = "sql"]
  /\ UNCHANGED <<main, signalled, ready, listener, cancelled, stopped, poolVars, sqlPool>>

\* The handler returns, its answer sent or its connection closed under it.
Finish(r) ==
  /\ r \in InProgress /\ main # "exit"
  /\ request' = [request EXCEPT ![r] = IF cancelled THEN "aborted" ELSE "answered"]
  /\ UNCHANGED <<main, signalled, ready, listener, cancelled, stopped, poolVars, sqlPool>>

-----------------------------------------------------------------------------
MainStep ==
  \/ ListenerDone \/ Stopping \/ ShutdownBegins \/ Drained \/ ShutdownTimeout
  \/ StopWorkers \/ Join \/ ClosePool

PoolStep ==
  \/ RunBegins \/ RunRecovered \/ RunReturns

GoroutineStep(g) == GoroutineLoops(g) \/ GoroutineCalled(g) \/ GoroutineWaited(g)

\* The process ended.
Exited == main = "exit" /\ UNCHANGED vars

Next ==
  \/ Signal \/ ListenerFails \/ MainStep \/ PoolStep
  \/ \E g \in Goroutines : GoroutineStep(g)
  \/ \E r \in Requests : Accept(r) \/ Acquire(r) \/ Finish(r)
  \/ Exited

Spec == Init /\ [][Next]_vars

\* The goroutines run, the shutdown timer fires, a cancelled handler returns.
\* Nothing is assumed of a handler that was not cancelled.
Fairness ==
  /\ WF_vars(MainStep) /\ WF_vars(PoolStep)
  /\ \A g \in Goroutines : WF_vars(GoroutineStep(g))
  /\ \A r \in Requests : WF_vars(cancelled /\ Finish(r))

FairSpec == Spec /\ Fairness

-----------------------------------------------------------------------------
\* Every variable has its type.
TypeOK ==
  /\ main \in {"serving", "shutdown", "draining", "stopWorkers", "join", "closePool", "exit"}
  /\ <<signalled, ready, cancelled, stopped>> \in BOOLEAN \X BOOLEAN \X BOOLEAN \X BOOLEAN
  /\ listener \in {"open", "failed", "closed"}
  /\ runner \in {"init", "recovering", "spawned", "returned"}
  /\ goroutine \in [Goroutines -> {"none", "loop", "sql", "waiting", "returned"}]
  /\ request \in [Requests -> {"new", "running", "sql", "answered", "aborted"}]
  /\ sqlPool \in {"open", "closing", "closed"}

\* serve stops HTTP before it cancels the workers and their provider calls: a
\* request that was not cut off never sees the workers stopped, the SQL pool
\* closed or the process gone.
RequestsBeforeWorkers ==
  InProgress # {} /\ ~cancelled => ~stopped /\ sqlPool = "open" /\ main # "exit"

\* No goroutine of the pool ever meets a closed SQL pool, not even one that was
\* still in its first recovery when the signal came.
WorkersBeforePool ==
  sqlPool # "open" =>
    /\ runner = "returned"
    /\ \A g \in Goroutines : goroutine[g] \in {"none", "returned"}

\* After a signal the service reports itself unready before it stops to
\* accept connections, and it does so whenever it has ended.
UnreadyBeforeClosed == listener = "closed" \/ main = "exit" => ~ready

\* serve and Run take the process down in one order, whenever the signal or the
\* failure of the listener comes: readiness, connections, requests, workers,
\* the SQL pool.
ShutdownInOrder == UnreadyBeforeClosed /\ RequestsBeforeWorkers /\ WorkersBeforePool

\* A signal ends the process, whatever its requests and goroutines do at that
\* moment: nobody waits for anybody for ever.
SignalEndsProcess == signalled ~> main = "exit"
==============================================================================

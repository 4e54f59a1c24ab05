--------------------------- MODULE LifecycleProofs ---------------------------
(***************************************************************************)
(* The process goes down in one order, for every number of requests and of *)
(* goroutines: proofs about Lifecycle.                                     *)
(***************************************************************************)
EXTENDS Lifecycle, TLAPS

\* The stages of serve and Run, from the end: HTTP was left, the workers are
\* cancelled, the workers have ended.
HttpLeft == main \in {"stopWorkers", "join", "closePool", "exit"}
WorkersLeft == main \in {"join", "closePool", "exit"}
WorkersJoined == main \in {"closePool", "exit"}

\* Readiness and the listener, by the stage of main.
UnreadyInv ==
  /\ main \notin {"serving", "stopWorkers", "join", "closePool"} => ~ready
  /\ listener = "closed" => ~ready /\ main \notin {"serving", "shutdown"}
  /\ main = "draining" => listener = "closed"

\* HTTP is left only when no request is in progress and none can come, or
\* after the requests' contexts were cancelled.
HttpInv == HttpLeft => cancelled \/ (InProgress = {} /\ listener = "closed")

\* The workers' context is cancelled on the way out of serve only, and the SQL
\* pool is touched only after the workers were joined.
StageInv ==
  /\ stopped => WorkersLeft
  /\ sqlPool # "open" => WorkersJoined
  /\ WorkersJoined => runner = "returned"

\* The goroutines exist between RunRecovered and RunReturns only.
PoolInv ==
  /\ runner \in {"init", "recovering"} => \A g \in Goroutines : goroutine[g] = "none"
  /\ runner = "returned" => \A g \in Goroutines : goroutine[g] \in {"none", "returned"}

Inv == TypeOK /\ UnreadyInv /\ HttpInv /\ StageInv /\ PoolInv

-----------------------------------------------------------------------------
\* Every step of serve, of Run, of a goroutine and of a request keeps the types.
LEMMA TypeKept == TypeOK /\ [Next]_vars => TypeOK'
<1> USE DEF TypeOK, httpVars, poolVars
<1> SUFFICES ASSUME TypeOK, [Next]_vars PROVE TypeOK'
  OBVIOUS
<1>1. CASE Signal
  BY <1>1 DEF Signal
<1>2. CASE ListenerFails
  BY <1>2 DEF ListenerFails
<1>3. CASE MainStep
  BY <1>3 DEF MainStep, ListenerDone, Stopping, ShutdownBegins, Drained,
       ShutdownTimeout, StopWorkers, Join, ClosePool
<1>4. CASE PoolStep
  BY <1>4 DEF PoolStep, RunBegins, RunRecovered, RunReturns
<1>5. ASSUME NEW g \in Goroutines, GoroutineStep(g) PROVE TypeOK'
  BY <1>5 DEF GoroutineStep, GoroutineLoops, GoroutineCalled, GoroutineWaited
<1>6. ASSUME NEW r \in Requests, Accept(r) \/ Acquire(r) \/ Finish(r) PROVE TypeOK'
  BY <1>6 DEF Accept, Acquire, Finish
<1>7. CASE Exited \/ UNCHANGED vars
  BY <1>7 DEF Exited, vars
<1> QED
  BY <1>1, <1>2, <1>3, <1>4, <1>5, <1>6, <1>7 DEF Next

\* The steps of main: what a stage promises is established on the way into it.
LEMMA MainKeepsInv == Inv /\ MainStep => Inv'
<1> USE DEF TypeOK, Inv, UnreadyInv, HttpInv, StageInv, PoolInv, HttpLeft,
      WorkersLeft, WorkersJoined, InProgress, httpVars, poolVars
<1> SUFFICES ASSUME Inv, MainStep PROVE Inv'
  OBVIOUS
<1>0. TypeOK'
  BY TypeKept DEF Next
<1>1. CASE ListenerDone
  BY <1>0, <1>1 DEF ListenerDone
<1>2. CASE Stopping
  BY <1>0, <1>2 DEF Stopping
<1>3. CASE ShutdownBegins
  BY <1>0, <1>3 DEF ShutdownBegins
<1>4. CASE Drained
  BY <1>0, <1>4 DEF Drained
<1>5. CASE ShutdownTimeout
  BY <1>0, <1>5 DEF ShutdownTimeout
<1>6. CASE StopWorkers
  BY <1>0, <1>6 DEF StopWorkers
<1>7. CASE Join
  BY <1>0, <1>7 DEF Join
<1>8. CASE ClosePool
  BY <1>0, <1>8 DEF ClosePool
<1> QED
  BY <1>1, <1>2, <1>3, <1>4, <1>5, <1>6, <1>7, <1>8 DEF MainStep

\* The steps of Run and its goroutines touch nothing but their own state.
LEMMA PoolKeepsInv ==
  ASSUME Inv, PoolStep \/ \E g \in Goroutines : GoroutineStep(g)
  PROVE  Inv'
<1> USE DEF TypeOK, Inv, UnreadyInv, HttpInv, StageInv, PoolInv, HttpLeft,
      WorkersLeft, WorkersJoined, InProgress, httpVars, poolVars
<1>0. TypeOK'
  BY TypeKept DEF Next
<1>1. CASE RunBegins
  BY <1>0, <1>1 DEF RunBegins
<1>2. CASE RunRecovered
  BY <1>0, <1>2 DEF RunRecovered
<1>3. CASE RunReturns
  BY <1>0, <1>3 DEF RunReturns
<1>4. ASSUME NEW g \in Goroutines, GoroutineLoops(g) PROVE Inv'
  BY <1>0, <1>4 DEF GoroutineLoops
<1>5. ASSUME NEW g \in Goroutines, GoroutineCalled(g) PROVE Inv'
  BY <1>0, <1>5 DEF GoroutineCalled
<1>6. ASSUME NEW g \in Goroutines, GoroutineWaited(g) PROVE Inv'
  BY <1>0, <1>6 DEF GoroutineWaited
<1> QED
  BY <1>1, <1>2, <1>3, <1>4, <1>5, <1>6 DEF PoolStep, GoroutineStep

\* A request that is accepted or goes on finds HTTP still served, or is one of
\* those that were cancelled.
LEMMA RequestsKeepInv ==
  ASSUME Inv, NEW r \in Requests, Accept(r) \/ Acquire(r) \/ Finish(r)
  PROVE  Inv'
<1> USE DEF TypeOK, Inv, UnreadyInv, HttpInv, StageInv, PoolInv, HttpLeft,
      WorkersLeft, WorkersJoined, InProgress, httpVars, poolVars
<1>0. TypeOK'
  BY TypeKept DEF Next
<1>1. CASE Accept(r)
  BY <1>0, <1>1 DEF Accept
<1>2. CASE Acquire(r)
  BY <1>0, <1>2 DEF Acquire
<1>3. CASE Finish(r)
  BY <1>0, <1>3 DEF Finish
<1> QED
  BY <1>1, <1>2, <1>3

\* The whole invariant is inductive.
LEMMA InvNext == Inv /\ [Next]_vars => Inv'
<1> SUFFICES ASSUME Inv, [Next]_vars PROVE Inv'
  OBVIOUS
<1>1. CASE Signal
  <2>1. TypeOK'
    BY TypeKept DEF Inv
  <2> QED
    BY <1>1, <2>1 DEF Signal, Inv, UnreadyInv, HttpInv, StageInv, PoolInv, HttpLeft,
         WorkersLeft, WorkersJoined, InProgress, httpVars, poolVars
<1>2. CASE ListenerFails
  <2>1. TypeOK'
    BY TypeKept DEF Inv
  <2> QED
    BY <1>2, <2>1 DEF ListenerFails, Inv, UnreadyInv, HttpInv, StageInv, PoolInv,
         HttpLeft, WorkersLeft, WorkersJoined, InProgress, poolVars
<1>3. CASE Exited \/ UNCHANGED vars
  BY <1>3 DEF Exited, vars, Inv, TypeOK, UnreadyInv, HttpInv, StageInv, PoolInv,
       HttpLeft, WorkersLeft, WorkersJoined, InProgress
<1> QED
  BY <1>1, <1>2, <1>3, MainKeepsInv, PoolKeepsInv, RequestsKeepInv DEF Next

\* A process begins with its listener open, its SQL pool open and no goroutine.
LEMMA InvInit == Init => Inv
BY DEF Init, Inv, TypeOK, UnreadyInv, HttpInv, StageInv, PoolInv, HttpLeft,
       WorkersLeft, WorkersJoined, InProgress

\* The variables keep their types in every behaviour of a process.
THEOREM LifecycleTypeCorrect == Spec => []TypeOK
<1>1. Init => TypeOK
  BY InvInit DEF Inv
<1> QED
  BY <1>1, TypeKept, PTL DEF Spec

\* Whatever the moment of the signal, of a failing listener or of the shutdown
\* deadline: serve and Run take down readiness, connections, requests, workers
\* and the SQL pool in this order.
THEOREM ShutdownInOrderHolds == Spec => []ShutdownInOrder
<1>1. Inv => ShutdownInOrder
  BY DEF Inv, TypeOK, UnreadyInv, HttpInv, StageInv, PoolInv, HttpLeft, WorkersLeft,
         WorkersJoined, ShutdownInOrder, UnreadyBeforeClosed, RequestsBeforeWorkers,
         WorkersBeforePool
<1> QED
  BY <1>1, InvInit, InvNext, PTL DEF Spec
==============================================================================

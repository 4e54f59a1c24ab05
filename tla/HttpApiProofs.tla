---------------------------- MODULE HttpApiProofs ----------------------------
(***************************************************************************)
(* Proofs about HttpApi, for any number of updates, keys, pairs and        *)
(* defects, and whatever everybody else does to the tables meanwhile: what *)
(* an answer says is documented, true and not taken back later.            *)
(***************************************************************************)
EXTENDS HttpApi, QuoteStoreProofs

-----------------------------------------------------------------------------
(***************************************************************************)
(* The inductive invariant.  U is a table of updates, q a request, m the   *)
(* update it made, T and S what the client was told and has seen.          *)
(***************************************************************************)
NoAnswer == [status |-> 0, headers |-> {}, body |-> NULL]

\* Some update of pair p was completed with a quote no older than d.
Known(U, p, d) ==
  \E u \in DOMAIN U :
    U[u].status = "completed" /\ U[u].pair = p /\ QuoteOf(U[u]).source_date >= d

\* What the client sees of an update was once true of its row, and still is if
\* the row had finished by then.
ViewOK(U, v) ==
  /\ v \in UpdateView /\ v.id \in DOMAIN U /\ v.pair = U[v.id].pair
  /\ v.quote # NULL => v.status = "completed"
  /\ mapUpdate(v)
  /\ v.status \in TerminalStatus => v = View(v.id, U[v.id])

\* It says the same as an earlier answer that called the update finished.
Consistent(T, v) == v.id \in DOMAIN T /\ T[v.id] # NULL => v = T[v.id]

\* What the client sees of a latest quote: a completed update has it or a newer
\* one, and the client has seen no newer one.
QuoteOK(U, S, q, v) ==
  /\ v \in QuoteView /\ v.pair = q.pair
  /\ Known(U, v.pair, v.quote.source_date)
  /\ S[v.pair] # NULL => v.quote.source_date >= S[v.pair]

\* The update a create shows has its pair and key; it is new, or the key was
\* not empty.
CreatedOK(U, q, m, v) ==
  /\ v.id \in DOMAIN U
  /\ U[v.id].pair = q.pair /\ U[v.id].idempotency_key = q.key
  /\ m = NULL => q.key # NULL
  /\ m # NULL => m = v.id /\ v.status = "pending"

\* What the client was told of a finished update is what its row says.
ToldOK(U, T) ==
  \A u \in DOMAIN T :
    /\ u \in DOMAIN U
    /\ T[u] # NULL => T[u] = View(u, U[u]) /\ U[u].status \in TerminalStatus

\* A source date the client has seen was that of a completed update.
SeenOK(U, S) == \A p \in Pairs : S[p] # NULL => Known(U, p, S[p])

\* A request the service was called for.
AskedOK(q) ==
  /\ q.defects = {} /\ q.route \in {"create", "update", "latest", "ready"}
  /\ q.route = "create" => q.pair \in Pairs /\ q.key \in Keys \cup {NULL}
  /\ q.route = "update" => q.id \in Updates
  /\ q.route = "latest" => q.pair \in Pairs

\* What the service returned for it.
ReturnedOK(U, T, S, q, m, v) ==
  /\ q.route \in {"create", "update", "latest"}
  /\ q.route = "create" => CreatedOK(U, q, m, v)
  /\ q.route # "create" => m = NULL
  /\ q.route # "latest" => ViewOK(U, v) /\ Consistent(T, v)
  /\ q.route = "latest" => QuoteOK(U, S, q, v)

\* An answer to q the OpenAPI document lists.
Listed(q, status, code, headers) ==
  q.route \in Routes => <<status, code, headers>> \in Documented[q.route]

\* The header of an answer and its body, sent or not.
AnswerOK(U, q, m, pk, r, b) ==
  /\ b \in Answer /\ r.status # 0
  /\ Listed(q, r.status, b.code, r.headers)
  /\ r.status = 500 => pk
  /\ q.defects # {} => m = NULL /\ r.status \in 400..499
  /\ m # NULL => r.status = 202 \/ b.code = "storage_unavailable" \/ pk
  /\ r.status = 202 => m # NULL /\ q.route = "create"
  /\ q.route = "create" /\ r.status = 200 => m = NULL
  /\ q.route = "create" /\ r.status \in {200, 202} => CreatedOK(U, q, m, b.view)

\* The body that is about to be sent, beside what the client knows.
ShownOK(U, T, S, q, r, v) ==
  /\ v # NULL => q.route \in {"create", "update", "latest"}
  /\ v # NULL /\ q.route # "latest" => ViewOK(U, v) /\ Consistent(T, v)
  /\ q.route = "latest" /\ (v # NULL \/ r.status = 200) => QuoteOK(U, S, q, v)
  /\ q.route = "update" /\ r.status = 404 => q.id \notin DOMAIN T
  /\ q.route = "latest" /\ r.status = 404 => S[q.pair] = NULL

\* The client's memory is true of the tables.
MemoryInv == ToldOK(updates, told) /\ SeenOK(updates, seen)

\* Nothing has been answered yet.
FreshInv ==
  /\ pc \in {"idle", "store"} => made = NULL
  /\ pc \in {"idle", "store", "map"} => resp = NoAnswer /\ ~panicked

\* What the service was asked and what it returned.
CallInv ==
  /\ pc \in {"store", "map"} => AskedOK(req)
  /\ pc = "map" => ReturnedOK(updates, told, seen, req, made, out)

\* The answer until the client has it, its body sent, broken off or still to come.
AnswerInv ==
  /\ pc \in {"body", "answered"} => AnswerOK(updates, req, made, panicked, resp, out)
  /\ pc = "body" => resp.body = NULL /\ ShownOK(updates, told, seen, req, resp, out.view)
  /\ pc = "answered" => resp.body = out \/ (resp.body = NULL /\ panicked)

\* The request, wherever it is on its way.
RequestInv == FreshInv /\ CallInv /\ AnswerInv

\* The store's invariants, which no step of a client or the handler breaks.
TablesInv == RowsInv /\ LatestIsNewest

\* The whole.
Inv == TablesInv /\ TypeOK /\ MemoryInv /\ RequestInv

-----------------------------------------------------------------------------
(***************************************************************************)
(* What the steps of the store leave standing.                             *)
(***************************************************************************)

\* From table U to table V no row disappears or changes its pair or key, and a
\* finished one is as it was.
Stand(U, V) ==
  \A u \in DOMAIN U :
    /\ u \in DOMAIN V
    /\ V[u].pair = U[u].pair /\ V[u].idempotency_key = U[u].idempotency_key
    /\ U[u].status \in TerminalStatus => V[u] = U[u]

\* Every step of the store keeps the tables in order and lets the rows stand.
LEMMA TablesNext ==
  TablesInv /\ [StoreNext]_storeVars => TablesInv' /\ Stand(updates, updates')
<1> SUFFICES ASSUME TablesInv, [StoreNext]_storeVars
             PROVE  TablesInv' /\ Stand(updates, updates')
  OBVIOUS
<1>1. TablesInv'
  BY RowsInvNext, LatestNext DEF TablesInv
<1>2. Stand(updates, updates')
  BY RowsEvolveNext DEF TablesInv, Stand, Rows, Status
<1> QED
  BY <1>1, <1>2

\* A quote that was completed stays so.
LEMMA KnownStands ==
  ASSUME NEW U, NEW V, Stand(U, V), NEW p, NEW d, Known(U, p, d)
  PROVE  Known(V, p, d)
BY DEF Stand, Known, TerminalStatus

\* What was true of a row, in the sense of ViewOK, stays so.
LEMMA ViewStands ==
  ASSUME NEW U, NEW V, Stand(U, V), NEW v, ViewOK(U, v)
  PROVE  ViewOK(V, v)
<1>1. /\ v.id \in DOMAIN V /\ V[v.id].pair = U[v.id].pair
      /\ U[v.id].status \in TerminalStatus => V[v.id] = U[v.id]
  BY DEF Stand, ViewOK
<1>2. v.status \in TerminalStatus => U[v.id].status = v.status
  <2> SUFFICES ASSUME v.status \in TerminalStatus PROVE U[v.id].status = v.status
    OBVIOUS
  <2>1. v = View(v.id, U[v.id])
    BY DEF ViewOK
  <2>2. View(v.id, U[v.id]).status = U[v.id].status
    BY DEF View
  <2> QED
    BY <2>1, <2>2
<1> QED
  BY <1>1, <1>2 DEF ViewOK

\* What the client remembers stays true.
LEMMA MemoryStands ==
  ASSUME NEW U, NEW V, Stand(U, V), NEW T, NEW S, ToldOK(U, T), SeenOK(U, S)
  PROVE  ToldOK(V, T) /\ SeenOK(V, S)
<1>1. ToldOK(V, T)
  BY DEF Stand, ToldOK
<1>2. SeenOK(V, S)
  BY KnownStands DEF SeenOK
<1> QED
  BY <1>1, <1>2

\* What a create shows stays the update of its pair and key.
LEMMA CreatedStands ==
  ASSUME NEW U, NEW V, Stand(U, V), NEW q, NEW m, NEW v, CreatedOK(U, q, m, v)
  PROVE  CreatedOK(V, q, m, v)
BY DEF Stand, CreatedOK

\* What a read of the latest quote shows stays known.
LEMMA QuoteStands ==
  ASSUME NEW U, NEW V, Stand(U, V), NEW S, NEW q, NEW v, QuoteOK(U, S, q, v)
  PROVE  QuoteOK(V, S, q, v)
BY KnownStands DEF QuoteOK

\* What the service returned stays right until it is rendered ...
LEMMA ReturnedStands ==
  ASSUME NEW U, NEW V, Stand(U, V), NEW T, NEW S, NEW q, NEW m, NEW v,
         ReturnedOK(U, T, S, q, m, v)
  PROVE  ReturnedOK(V, T, S, q, m, v)
BY ViewStands, CreatedStands, QuoteStands DEF ReturnedOK

\* ... and the answer until the client has it.
LEMMA AnswerStands ==
  ASSUME NEW U, NEW V, Stand(U, V), NEW q, NEW m, NEW pk, NEW r, NEW b,
         AnswerOK(U, q, m, pk, r, b)
  PROVE  AnswerOK(V, q, m, pk, r, b)
BY CreatedStands DEF AnswerOK

\* ... and so does what its body shows.
LEMMA ShownStands ==
  ASSUME NEW U, NEW V, Stand(U, V), NEW T, NEW S, NEW q, NEW r, NEW v,
         ShownOK(U, T, S, q, r, v)
  PROVE  ShownOK(V, T, S, q, r, v)
BY ViewStands, QuoteStands DEF ShownOK

-----------------------------------------------------------------------------
(***************************************************************************)
(* What the service reads from the tables.                                 *)
(***************************************************************************)

\* The rows of a table are in order.
TableOK(U) == \A u \in DOMAIN U : u \in Updates /\ RowOK(U[u])

\* So are the stored ones, before and after a step.
LEMMA RowsInOrder ==
  /\ TablesInv => TableOK(updates)
  /\ TablesInv' => TableOK(updates')
BY DEF TablesInv, RowsInv, Rows, TableOK

\* A row as a client sees it, which mapUpdate can render.
LEMMA RowViewed ==
  ASSUME NEW U, TableOK(U), NEW u \in DOMAIN U
  PROVE  /\ ViewOK(U, View(u, U[u]))
         /\ View(u, U[u]).id = u
<1>1. u \in Updates /\ RowOK(U[u])
  BY DEF TableOK
<1>2. /\ U[u].pair \in Pairs
      /\ U[u].status \in ActiveStatus \cup TerminalStatus
      /\ QuoteOf(U[u]) \in Quote \cup {NULL}
      /\ U[u].failure_code \in FailureCodes \cup {NULL}
  BY <1>1, QuoteOfRow DEF RowOK, UpdateRow
<1>3. /\ U[u].status = "completed" <=> QuoteOf(U[u]) # NULL
      /\ U[u].status = "failed" <=> U[u].failure_code # NULL
  BY <1>1, QuoteOfRow DEF RowOK, UpdateStateShape, TerminalStatus
<1>4. /\ View(u, U[u]) \in UpdateView
      /\ View(u, U[u]).id = u
      /\ View(u, U[u]).pair = U[u].pair
      /\ View(u, U[u]).status = U[u].status
      /\ View(u, U[u]).quote = QuoteOf(U[u])
      /\ View(u, U[u]).failure_code = U[u].failure_code
  BY <1>1, <1>2 DEF View, UpdateView
<1>5. mapUpdate(View(u, U[u]))
  BY <1>2, <1>3, <1>4 DEF mapUpdate, TerminalStatus
<1> QED
  BY <1>3, <1>4, <1>5 DEF ViewOK

\* A finished update the client was told of is read as it was told.
LEMMA RowConsistent ==
  ASSUME NEW U, NEW T, ToldOK(U, T), NEW u
  PROVE  Consistent(T, View(u, U[u]))
<1>1. View(u, U[u]).id = u
  BY DEF View
<1>2. u \in DOMAIN T /\ T[u] # NULL => T[u] = View(u, U[u])
  BY DEF ToldOK
<1> QED
  BY <1>1, <1>2 DEF Consistent

\* The dates of completed updates are numbers.
LEMMA KnownDates ==
  ASSUME TablesInv, NEW u \in DOMAIN updates, updates[u].status = "completed"
  PROVE  QuoteOf(updates[u]) \in Quote /\ QuoteOf(updates[u]).source_date \in Nat
BY CompletedQuote DEF TablesInv, Completed, Rows, Status

\* What the client may know of a pair is in latest_quotes, or something newer.
LEMMA KnownIsLatest ==
  ASSUME TablesInv, NEW p \in Pairs, NEW d \in Nat, Known(updates, p, d)
  PROVE  p \in DOMAIN latest /\ latest[p].quote.source_date >= d
<1>1. PICK u \in DOMAIN updates : /\ updates[u].status = "completed"
                                 /\ updates[u].pair = p
                                 /\ QuoteOf(updates[u]).source_date >= d
  BY DEF Known
<1>2. u \in Completed(p) /\ QuoteOf(updates[u]).source_date \in Nat
  BY <1>1, KnownDates DEF Completed, Rows, Status
<1>3. NewestFor(p)
  BY DEF TablesInv, LatestIsNewest
<1>4. p \in DOMAIN latest /\ ~Supersedes(u, QuoteOf(updates[u]), latest[p])
  BY <1>2, <1>3 DEF NewestFor
<1>5. latest[p].quote.source_date \in Nat
  BY <1>4, StoreAssumption DEF TablesInv, RowsInv, LatestRow, Quote
<1> QED
  BY <1>1, <1>2, <1>4, <1>5 DEF Supersedes

\* And what latest_quotes holds was completed.
LEMMA LatestIsKnown ==
  ASSUME TablesInv, NEW p \in Pairs, p \in DOMAIN latest
  PROVE  /\ latest[p].quote \in Quote /\ latest[p].quote.source_date \in Nat
         /\ Known(updates, p, latest[p].quote.source_date)
<1>1. latest[p].quote \in Quote /\ latest[p].quote.source_date \in Nat
  BY StoreAssumption DEF TablesInv, RowsInv, LatestRow, Quote
<1>2. /\ latest[p].request_seq \in Completed(p)
      /\ latest[p].quote = QuoteOf(updates[latest[p].request_seq])
  BY DEF TablesInv, LatestIsNewest, NewestFor
<1> QED
  BY <1>1, <1>2 DEF Known, Completed, Rows, Status

-----------------------------------------------------------------------------
(***************************************************************************)
(* The steps of a request are steps of the store, or of none.              *)
(***************************************************************************)

\* The handler calls the store with what its checks let through.
LEMMA InsertIsStoreStep ==
  ASSUME Inv, pc = "store", req.route = "create",
         NEW s \in Updates, Insert(s, req.pair, req.key, now)
  PROVE  StoreNext
<1>1. req.pair \in Pairs /\ req.key \in Keys \cup {NULL} /\ now \in 0..now
  BY DEF Inv, RequestInv, CallInv, AskedOK, TablesInv, RowsInv
<1> QED
  BY <1>1 DEF StoreNext

\* Every step is a step of the store or leaves it alone.
LEMMA StoreSteps == Inv /\ [Next]_vars => [StoreNext]_storeVars
<1> SUFFICES ASSUME Inv, [Next]_vars PROVE [StoreNext]_storeVars
  OBVIOUS
<1>1. CASE CreateNew
  BY <1>1, InsertIsStoreStep DEF CreateNew, Serving
<1>2. CASE StoreFails
  BY <1>2, InsertIsStoreStep DEF StoreFails, Serving
<1>3. CASE Others
  BY <1>3 DEF Others
<1>4. CASE Unroutable \/ Refuse \/ AnswerStatic \/ CallService
  BY <1>4 DEF Unroutable, Refuse, AnswerStatic, CallService, Arrive
<1>5. CASE CreateReplay \/ CreateRefused \/ GetUpdate \/ GetLatest \/ ReadyProbe
  BY <1>5 DEF CreateReplay, CreateRefused, GetUpdate, GetLatest, ReadyProbe
<1>6. CASE Render \/ WriteBody \/ Panic \/ Receive
  BY <1>6 DEF Render, WriteBody, Panic, Receive
<1>7. CASE UNCHANGED vars
  BY <1>7 DEF vars, storeVars
<1> QED
  BY <1>1, <1>2, <1>3, <1>4, <1>5, <1>6, <1>7 DEF Next

\* So each leaves the tables in order, the rows standing, and what the client
\* remembers true until it learns more.
LEMMA StepFacts ==
  Inv /\ [Next]_vars =>
    /\ TablesInv' /\ Stand(updates, updates')
    /\ UNCHANGED <<told, seen>> => MemoryInv'
<1> SUFFICES ASSUME Inv, [Next]_vars
             PROVE  /\ TablesInv' /\ Stand(updates, updates')
                    /\ UNCHANGED <<told, seen>> => MemoryInv'
  OBVIOUS
<1>1. TablesInv' /\ Stand(updates, updates')
  BY StoreSteps, TablesNext DEF Inv
<1>2. ToldOK(updates', told) /\ SeenOK(updates', seen)
  BY <1>1, MemoryStands DEF Inv, MemoryInv
<1> QED
  BY <1>1, <1>2 DEF MemoryInv

-----------------------------------------------------------------------------
(***************************************************************************)
(* Answers that are under way.                                             *)
(***************************************************************************)
Headers == {"Location", "Allow", "Retry-After"}

Sent(status, headers) == [status |-> status, headers |-> headers, body |-> NULL]

AnswerTyped ==
  /\ out \in UpdateView \cup QuoteView \cup Answer \cup {NULL}
  /\ resp \in [status : Nat, headers : SUBSET Headers, body : Answer \cup {NULL}]

\* writeJSON and writeProblem begin an answer: it has to be right for the
\* request, and its body for the client.
LEMMA AnswerStarts ==
  ASSUME NEW st \in Nat \ {0}, NEW hd \in SUBSET Headers, NEW b \in Answer,
         StartAnswer(st, hd, b),
         AnswerOK(updates', req', made', panicked', Sent(st, hd), b),
         ShownOK(updates', told', seen', req', Sent(st, hd), b.view)
  PROVE  RequestInv' /\ AnswerTyped'
<1>1. resp' = Sent(st, hd) /\ out' = b /\ pc' = "body"
  BY DEF StartAnswer, Sent
<1>2. Sent(st, hd).body = NULL
  BY DEF Sent
<1>3. Sent(st, hd) \in [status : Nat, headers : SUBSET Headers, body : Answer \cup {NULL}]
  BY DEF Sent
<1> QED
  BY <1>1, <1>2, <1>3 DEF RequestInv, FreshInv, CallInv, AnswerInv, AnswerTyped

\* The routes, one by one.
LEMMA RouteNames ==
  Routes = {"create", "update", "latest", "live", "ready", "openapi"}
BY DEF Routes, route

\* A problem shows no update.
LEMMA ProblemStarts ==
  ASSUME NEW st \in 400..503, NEW hd \in SUBSET Headers, NEW c \in Codes,
         StartAnswer(st, hd, Problem(c)),
         Listed(req', st, c, hd),
         st = 500 => panicked',
         req'.defects # {} => made' = NULL /\ st \in 400..499,
         made' # NULL => c = "storage_unavailable" \/ panicked',
         req'.route = "update" /\ st = 404 => req'.id \notin DOMAIN told',
         req'.route = "latest" /\ st = 404 => seen'[req'.pair] = NULL
  PROVE  RequestInv' /\ AnswerTyped'
<1>1. Problem(c) \in Answer /\ Problem(c).code = c /\ Problem(c).view = NULL
  BY DEF Problem, Answer
<1>2. Sent(st, hd).status = st /\ Sent(st, hd).headers = hd
  BY DEF Sent
<1>3. AnswerOK(updates', req', made', panicked', Sent(st, hd), Problem(c))
  BY <1>1, <1>2 DEF AnswerOK
<1>4. ShownOK(updates', told', seen', req', Sent(st, hd), Problem(c).view)
  BY <1>1, <1>2 DEF ShownOK
<1> QED
  BY <1>1, <1>3, <1>4, AnswerStarts

\* A body that shows nothing, for the probes and the document.
LEMMA StaticStarts ==
  ASSUME StartAnswer(200, {}, Body(NULL)), req'.route \in {"live", "ready", "openapi"},
         req'.defects = {}, made' = NULL
  PROVE  RequestInv' /\ AnswerTyped'
<1>1. Body(NULL) \in Answer /\ Body(NULL).code = "ok" /\ Body(NULL).view = NULL
  BY DEF Body, Answer, Codes
<1>2. Sent(200, {}).status = 200 /\ Sent(200, {}).headers = {}
  BY DEF Sent
<1>3. Listed(req', 200, "ok", {})
  BY DEF Listed, Documented
<1>4. AnswerOK(updates', req', made', panicked', Sent(200, {}), Body(NULL))
  BY <1>1, <1>2, <1>3 DEF AnswerOK
<1>5. ShownOK(updates', told', seen', req', Sent(200, {}), Body(NULL).view)
  BY <1>1, <1>2 DEF ShownOK
<1> QED
  BY <1>1, <1>4, <1>5, AnswerStarts

\* The errors of the service, for the routes that may meet them.
LEMMA ErrorStarts ==
  ASSUME req' = req, AskedOK(req),
         \/ /\ writeError("ErrIdempotencyConflict") \/ writeError("ErrCapacityExceeded")
            /\ req.route = "create" /\ made' = NULL
         \/ /\ writeError("ErrNotFound") /\ made' = NULL
            /\ \/ req.route = "update" /\ req.id \notin DOMAIN told'
               \/ req.route = "latest" /\ seen'[req.pair] = NULL
         \/ writeError("storage") /\ req.route \in {"create", "update", "latest"}
  PROVE  RequestInv' /\ AnswerTyped'
<1>0. /\ req'.defects = {} /\ req'.route = req.route
      /\ {"idempotency_conflict", "queue_full", "not_found", "storage_unavailable"}
           \subseteq Codes
  BY DEF AskedOK, Codes
<1>1. CASE writeError("ErrIdempotencyConflict") /\ req.route = "create" /\ made' = NULL
  <2>1. StartAnswer(409, {}, Problem("idempotency_conflict"))
    BY <1>1 DEF writeError
  <2>2. Listed(req', 409, "idempotency_conflict", {})
    BY <1>0, <1>1 DEF Listed, Documented
  <2> QED
    BY <1>0, <1>1, <2>1, <2>2, ProblemStarts
<1>2. CASE writeError("ErrCapacityExceeded") /\ req.route = "create" /\ made' = NULL
  <2>1. StartAnswer(503, {"Retry-After"}, Problem("queue_full"))
    BY <1>2 DEF writeError
  <2>2. Listed(req', 503, "queue_full", {"Retry-After"})
    BY <1>0, <1>2 DEF Listed, Documented
  <2>3. {"Retry-After"} \in SUBSET Headers
    BY DEF Headers
  <2> QED
    BY <1>0, <1>2, <2>1, <2>2, <2>3, ProblemStarts
<1>3. CASE /\ writeError("ErrNotFound") /\ made' = NULL
           /\ \/ req.route = "update" /\ req.id \notin DOMAIN told'
              \/ req.route = "latest" /\ seen'[req.pair] = NULL
  <2>1. StartAnswer(404, {}, Problem("not_found"))
    BY <1>3 DEF writeError
  <2>2. Listed(req', 404, "not_found", {})
    BY <1>0, <1>3 DEF Listed, Documented, Reading
  <2> QED
    BY <1>0, <1>3, <2>1, <2>2, ProblemStarts
<1>4. CASE writeError("storage") /\ req.route \in {"create", "update", "latest"}
  <2>1. StartAnswer(503, {}, Problem("storage_unavailable"))
    BY <1>4 DEF writeError
  <2>2. Listed(req', 503, "storage_unavailable", {})
    BY <1>0, <1>4 DEF Listed, Documented, Unavailable
  <2> QED
    BY <1>0, <1>4, <2>1, <2>2, ProblemStarts
<1> QED
  BY <1>1, <1>2, <1>3, <1>4

-----------------------------------------------------------------------------
(***************************************************************************)
(* The steps of a request, one by one.  What the store and the client's    *)
(* memory are after a step is known from StepFacts.                        *)
(***************************************************************************)
StepEnds ==
  /\ Inv
  /\ TablesInv' /\ Stand(updates, updates')
  /\ UNCHANGED <<told, seen>> => MemoryInv'

\* The request stays in its place after a step.
Kept == RequestInv' /\ AnswerTyped' /\ (req' \in Request \cup {NULL}) /\ made' \in Updates \cup {NULL}

\* Every check refuses with a documented problem.
LEMMA ChecksListed ==
  ASSUME NEW q, q.route \in Routes, NEW i \in DOMAIN Checks(q.route)
  PROVE  /\ Checks(q.route)[i].status \in 400..499
         /\ Checks(q.route)[i].status # 404
         /\ Checks(q.route)[i].code \in Codes
         /\ Listed(q, Checks(q.route)[i].status, Checks(q.route)[i].code, {})
<1>1. CASE q.route = "create"
  <2>1. Checks(q.route) = CreateChecks
    BY <1>1 DEF Checks
  <2>2. DOMAIN CreateChecks = 1..5
    BY DEF CreateChecks
  <2>3. i = 1 \/ i = 2 \/ i = 3 \/ i = 4 \/ i = 5
    BY <2>1, <2>2
  <2>4. /\ Listed(q, 415, "unsupported_media_type", {})
        /\ Listed(q, 413, "payload_too_large", {})
        /\ Listed(q, 400, "invalid_request", {})
    BY <1>1 DEF Listed, Documented
  <2>5. CreateChecks[i] \in
          { [fails |-> "media", status |-> 415, code |-> "unsupported_media_type"],
            [fails |-> "size",  status |-> 413, code |-> "payload_too_large"],
            [fails |-> "read",  status |-> 400, code |-> "invalid_request"],
            [fails |-> "json",  status |-> 400, code |-> "invalid_request"],
            [fails |-> "key",   status |-> 400, code |-> "invalid_request"] }
    BY <2>3 DEF CreateChecks
  <2> QED
    BY <2>1, <2>4, <2>5 DEF Codes
<1>2. CASE q.route \in {"update", "latest"}
  <2>1. Checks(q.route) = ReadChecks
    BY <1>2 DEF Checks
  <2>2. i = 1
    BY <2>1 DEF ReadChecks
  <2> QED
    BY <1>2, <2>1, <2>2 DEF ReadChecks, Codes, Listed, Documented, Reading
<1>3. CASE q.route \notin {"create", "update", "latest"}
  <2>1. Checks(q.route) = << >>
    BY <1>3 DEF Checks
  <2> QED
    BY <2>1
<1> QED
  BY <1>1, <1>2, <1>3

\* What no check stops has no defect.
LEMMA AdmittedSound ==
  ASSUME NEW D \in DefectsOf("create"), Admit("create", D)
  PROVE  D = {}
<1>1. D \subseteq {"media", "size", "read", "json", "key"}
  BY DEF DefectsOf
<1>2. Checks("create") = CreateChecks /\ DOMAIN CreateChecks = 1..5
  BY DEF Checks, CreateChecks
<1>3. \A i \in 1..5 : CreateChecks[i].fails \notin D
  BY <1>2 DEF Admit
<1>4. /\ CreateChecks[1].fails = "media" /\ CreateChecks[2].fails = "size"
      /\ CreateChecks[3].fails = "read" /\ CreateChecks[4].fails = "json"
      /\ CreateChecks[5].fails = "key"
  BY DEF CreateChecks
<1> QED
  BY <1>1, <1>3, <1>4

\* A request that is answered without the service.
LEMMA UnroutableKept == StepEnds /\ Unroutable => Kept
<1> SUFFICES ASSUME StepEnds, Unroutable PROVE Kept
  OBVIOUS
<1>0. "not_found" \in Codes /\ "method_not_allowed" \in Codes /\ {"Allow"} \in SUBSET Headers
  BY DEF Codes, Headers
<1>1. pc = "idle" /\ UNCHANGED <<made, panicked, told, seen>> /\ made = NULL
  BY DEF Unroutable, Arrive, StepEnds, Inv, RequestInv, FreshInv
<1>2. CASE \E mth \in Methods :
             /\ Arrive([route |-> "unmatched", method |-> mth, defects |-> {},
                        pair |-> NULL, key |-> NULL, id |-> NULL])
             /\ StartAnswer(404, {}, Problem("not_found"))
  <2>1. /\ req' \in Request /\ req'.route = "unmatched" /\ req'.defects = {}
    BY <1>2 DEF Arrive, Request
  <2>2. Listed(req', 404, "not_found", {})
    BY <2>1, RouteNames DEF Listed
  <2> QED
    BY <1>0, <1>1, <1>2, <2>1, <2>2, ProblemStarts DEF Kept
<1>3. ASSUME NEW r \in Routes, NEW mth \in Methods,
             Arrive([route |-> r, method |-> mth, defects |-> {},
                     pair |-> NULL, key |-> NULL, id |-> NULL]),
             StartAnswer(405, {"Allow"}, Problem("method_not_allowed"))
      PROVE  Kept
  <2>1. req' \in Request /\ req'.route = r /\ req'.defects = {}
    BY <1>3 DEF Arrive, Request
  <2>2. Listed(req', 405, "method_not_allowed", {"Allow"})
    BY <2>1, RouteNames DEF Listed, Documented, Refusals
  <2> QED
    BY <1>0, <1>1, <1>3, <2>1, <2>2, ProblemStarts DEF Kept
<1> QED
  BY <1>2, <1>3 DEF Unroutable

\* A request that fails one of its checks.
LEMMA RefuseKept == StepEnds /\ Refuse => Kept
<1> SUFFICES ASSUME StepEnds, Refuse PROVE Kept
  OBVIOUS
<1>1. pc = "idle" /\ UNCHANGED <<made, panicked, told, seen>> /\ made = NULL
  BY DEF Refuse, Arrive, StepEnds, Inv, RequestInv, FreshInv
<1> DEFINE Refused(r, D, i) ==
      /\ Arrive([route |-> r, method |-> route[r], defects |-> D,
                 pair |-> NULL, key |-> NULL, id |-> NULL])
      /\ StartAnswer(Checks(r)[i].status, {}, Problem(Checks(r)[i].code))
<1>r. PICK r \in Routes : \E D \in DefectsOf(r) : \E i \in DOMAIN Checks(r) : Refused(r, D, i)
  BY DEF Refuse
<1>d. PICK D \in DefectsOf(r) : \E i \in DOMAIN Checks(r) : Refused(r, D, i)
  BY <1>r
<1>2. PICK i \in DOMAIN Checks(r) : Refused(r, D, i)
  BY <1>d
<1>3. D \subseteq {"media", "size", "read", "json", "key", "syntax"} /\ route[r] \in Methods
  BY RouteNames DEF DefectsOf, Methods, route
<1>4. req' \in Request /\ req'.route = r
  BY <1>2, <1>3 DEF Arrive, Request
<1>5. /\ Checks(r)[i].status \in 400..499 /\ Checks(r)[i].status # 404
      /\ Checks(r)[i].code \in Codes
      /\ Listed(req', Checks(r)[i].status, Checks(r)[i].code, {})
  BY <1>4, ChecksListed
<1>6. Checks(r)[i].status \in 400..503 /\ Checks(r)[i].status # 500
  BY <1>5
<1> QED
  BY <1>1, <1>2, <1>4, <1>5, <1>6, ProblemStarts DEF Kept

\* The health probe and the document.
LEMMA AnswerStaticKept == StepEnds /\ AnswerStatic => Kept
<1> SUFFICES ASSUME StepEnds, AnswerStatic PROVE Kept
  OBVIOUS
<1>1. pc = "idle" /\ UNCHANGED <<made, panicked, told, seen>> /\ made = NULL
  BY DEF AnswerStatic, Arrive, StepEnds, Inv, RequestInv, FreshInv
<1>2. PICK r \in {"live", "openapi"} : Arrive(Sound(r, NULL, NULL, NULL))
  BY DEF AnswerStatic
<1>3. route[r] \in Methods
  BY DEF Methods, route
<1>4. req' \in Request /\ req'.route = r /\ req'.defects = {}
  BY <1>2, <1>3, RouteNames DEF Arrive, Sound, Request
<1> QED
  BY <1>1, <1>4, StaticStarts DEF Kept, AnswerStatic

\* A request that goes on to the service.
LEMMA CallServiceKept == StepEnds /\ CallService => Kept
<1> SUFFICES ASSUME StepEnds, CallService PROVE Kept
  OBVIOUS
<1>1. /\ pc = "idle" /\ pc' = "store" /\ made = NULL /\ resp = NoAnswer /\ ~panicked
      /\ UNCHANGED <<made, panicked, told, seen, out, resp>>
  BY DEF CallService, Arrive, StepEnds, Inv, RequestInv, FreshInv
<1>2. /\ route["create"] \in Methods /\ route["update"] \in Methods
      /\ route["latest"] \in Methods /\ route["ready"] \in Methods
  BY DEF Methods, route
<1>3. AskedOK(req') /\ req' \in Request
  <2>1. CASE \E p \in Pairs, k \in Keys \cup {NULL}, D \in DefectsOf("create") :
               /\ Admit("create", D)
               /\ Arrive([Sound("create", p, k, NULL) EXCEPT !.defects = D])
    BY <1>2, <2>1, AdmittedSound, RouteNames DEF Arrive, Sound, AskedOK, Request
  <2>2. CASE \E u \in Updates : Arrive(Sound("update", NULL, NULL, u))
    BY <1>2, <2>2, RouteNames DEF Arrive, Sound, AskedOK, Request
  <2>3. CASE \E p \in Pairs : Arrive(Sound("latest", p, NULL, NULL))
    BY <1>2, <2>3, RouteNames DEF Arrive, Sound, AskedOK, Request
  <2>4. CASE Arrive(Sound("ready", NULL, NULL, NULL))
    BY <1>2, <2>4, RouteNames DEF Arrive, Sound, AskedOK, Request
  <2> QED
    BY <2>1, <2>2, <2>3, <2>4 DEF CallService
<1> QED
  BY <1>1, <1>3
  DEF Kept, RequestInv, FreshInv, CallInv, AnswerInv, AnswerTyped, StepEnds, Inv, TypeOK, Headers

-----------------------------------------------------------------------------
(***************************************************************************)
(* The calls of the service.                                               *)
(***************************************************************************)

\* Where a call is, and what it leaves alone.
LEMMA ServingFacts ==
  ASSUME StepEnds, NEW r, Serving(r)
  PROVE  /\ req.route = r /\ AskedOK(req) /\ req' \in Request \cup {NULL}
         /\ made = NULL /\ resp = NoAnswer /\ ~panicked
         /\ UNCHANGED <<req, panicked, told, seen>>
         /\ ToldOK(updates, told) /\ SeenOK(updates, seen)
         /\ ToldOK(updates', told) /\ SeenOK(updates', seen)
         /\ TablesInv /\ TableOK(updates) /\ TableOK(updates')
<1>1. pc = "store" /\ req.route = r /\ UNCHANGED <<req, panicked, told, seen>>
  BY DEF Serving
<1>2. /\ AskedOK(req) /\ made = NULL /\ resp = NoAnswer /\ ~panicked
      /\ ToldOK(updates, told) /\ SeenOK(updates, seen) /\ TablesInv
  BY <1>1 DEF StepEnds, Inv, RequestInv, CallInv, FreshInv, MemoryInv
<1>3. ToldOK(updates', told) /\ SeenOK(updates', seen)
  BY <1>1 DEF StepEnds, MemoryInv
<1>4. TableOK(updates) /\ TableOK(updates')
  BY <1>2, RowsInOrder DEF StepEnds
<1> QED
  BY <1>1, <1>2, <1>3, <1>4 DEF StepEnds, Inv, TypeOK

\* The service hands on what it read.
LEMMA ReturnedKept ==
  ASSUME StepEnds, NEW r, Serving(r), NEW v \in UpdateView \cup QuoteView,
         Returned(v), made' \in Updates \cup {NULL},
         ReturnedOK(updates', told, seen, req, made', v)
  PROVE  Kept
<1>1. out' = v /\ pc' = "map" /\ resp' = resp
  BY DEF Returned
<1>2. resp \in [status : Nat, headers : SUBSET Headers, body : Answer \cup {NULL}]
  BY DEF StepEnds, Inv, TypeOK, Headers
<1> QED
  BY <1>1, <1>2, ServingFacts
  DEF Kept, RequestInv, FreshInv, CallInv, AnswerInv, AnswerTyped

\* A new update is returned pending, under the request's pair and key.
LEMMA CreateNewKept == StepEnds /\ CreateNew => Kept
<1> SUFFICES ASSUME StepEnds, CreateNew PROVE Kept
  OBVIOUS
<1>1. /\ req.route = "create" /\ AskedOK(req) /\ made = NULL
      /\ ToldOK(updates', told) /\ TableOK(updates')
  BY ServingFacts DEF CreateNew
<1>2. PICK s \in Updates : /\ Insert(s, req.pair, req.key, now)
                           /\ made' = s
                           /\ Returned(View(s, NewRow(req.pair, req.key, now)))
  BY DEF CreateNew
<1>3. s \in DOMAIN updates' /\ updates'[s] = NewRow(req.pair, req.key, now)
  BY <1>2 DEF Insert
<1>4. /\ ViewOK(updates', View(s, updates'[s])) /\ View(s, updates'[s]).id = s
      /\ Consistent(told, View(s, updates'[s]))
  BY <1>1, <1>3, RowViewed, RowConsistent
<1>5. /\ updates'[s].pair = req.pair /\ updates'[s].idempotency_key = req.key
      /\ View(s, updates'[s]).status = "pending"
  BY <1>3 DEF NewRow, View
<1>6. s # NULL
  BY StoreAssumption, NullAssumption
<1>7. ReturnedOK(updates', told, seen, req, s, View(s, updates'[s]))
  BY <1>1, <1>3, <1>4, <1>5, <1>6 DEF ReturnedOK, CreatedOK
<1>8. View(s, updates'[s]) \in UpdateView
  BY <1>4 DEF ViewOK
<1> QED
  BY <1>2, <1>3, <1>7, <1>8, ReturnedKept DEF CreateNew

\* A row that is read, not made, for the routes that show updates.
LEMMA ReadKept ==
  ASSUME StepEnds, NEW r, Serving(r), UNCHANGED <<made, storeVars>>,
         NEW u \in Rows, Returned(View(u, updates[u])),
         \/ r = "update"
         \/ /\ r = "create" /\ req.key # NULL
            /\ updates[u].pair = req.pair /\ updates[u].idempotency_key = req.key
  PROVE  Kept
<1>1. /\ req.route = r /\ made = NULL /\ ToldOK(updates, told) /\ TableOK(updates)
  BY ServingFacts
<1>2. u \in DOMAIN updates /\ updates' = updates
  BY DEF Rows, storeVars
<1>3. /\ ViewOK(updates, View(u, updates[u])) /\ View(u, updates[u]).id = u
      /\ Consistent(told, View(u, updates[u]))
  BY <1>1, <1>2, RowViewed, RowConsistent
<1>4. ReturnedOK(updates', told, seen, req, made', View(u, updates[u]))
  BY <1>1, <1>2, <1>3 DEF ReturnedOK, CreatedOK
<1>5. View(u, updates[u]) \in UpdateView /\ made' = NULL
  BY <1>1, <1>3 DEF ViewOK
<1> QED
  BY <1>4, <1>5, ReturnedKept

\* The key has an update already: the same request is shown it, another refused.
LEMMA CreateReplayKept == StepEnds /\ CreateReplay => Kept
<1> SUFFICES ASSUME StepEnds, CreateReplay PROVE Kept
  OBVIOUS
<1>1. PICK u \in Existing(req.key) :
        IF updates[u].pair = req.pair
        THEN Returned(View(u, updates[u]))
        ELSE writeError("ErrIdempotencyConflict")
  BY DEF CreateReplay
<1>2. u \in Rows /\ req.key # NULL /\ updates[u].idempotency_key = req.key
  BY DEF Existing
<1>3. Serving("create") /\ UNCHANGED <<made, storeVars>>
  BY DEF CreateReplay
<1>4. CASE updates[u].pair = req.pair
  BY <1>1, <1>2, <1>3, <1>4, ReadKept
<1>5. CASE updates[u].pair # req.pair
  <2>1. /\ writeError("ErrIdempotencyConflict") /\ AskedOK(req) /\ req' = req
        /\ req.route = "create" /\ made' = NULL /\ req' \in Request \cup {NULL}
    BY <1>1, <1>3, <1>5, ServingFacts
  <2> QED
    BY <2>1, ErrorStarts DEF Kept
<1> QED
  BY <1>4, <1>5

\* The queue is full.
LEMMA CreateRefusedKept == StepEnds /\ CreateRefused => Kept
<1> SUFFICES ASSUME StepEnds, CreateRefused PROVE Kept
  OBVIOUS
<1>1. /\ writeError("ErrCapacityExceeded") /\ AskedOK(req) /\ req' = req
      /\ req.route = "create" /\ made' = NULL /\ req' \in Request \cup {NULL}
  BY ServingFacts DEF CreateRefused
<1> QED
  BY <1>1, ErrorStarts DEF Kept

\* The update is there, or the client was never told of it.
LEMMA GetUpdateKept == StepEnds /\ GetUpdate => Kept
<1> SUFFICES ASSUME StepEnds, GetUpdate PROVE Kept
  OBVIOUS
<1>1. Serving("update") /\ UNCHANGED <<made, storeVars>>
  BY DEF GetUpdate
<1>2. CASE req.id \in Rows
  BY <1>1, <1>2, ReadKept DEF GetUpdate
<1>3. CASE req.id \notin Rows
  <2>1. /\ writeError("ErrNotFound") /\ AskedOK(req) /\ req' = req
        /\ req.route = "update" /\ made' = NULL /\ req' \in Request \cup {NULL}
        /\ ToldOK(updates, told) /\ told' = told
    BY <1>1, <1>3, ServingFacts DEF GetUpdate
  <2>2. req.id \notin DOMAIN told'
    BY <1>3, <2>1 DEF ToldOK, Rows
  <2> QED
    BY <2>1, <2>2, ErrorStarts DEF Kept
<1> QED
  BY <1>2, <1>3

\* The latest quote is not older than anything the client has seen of its
\* pair, and it is there if the client has seen anything.
LEMMA GetLatestKept == StepEnds /\ GetLatest => Kept
<1> SUFFICES ASSUME StepEnds, GetLatest PROVE Kept
  OBVIOUS
<1>1. /\ Serving("latest") /\ UNCHANGED <<made, storeVars>> /\ updates' = updates
  BY DEF GetLatest, storeVars
<1>2. /\ AskedOK(req) /\ req' = req /\ req.route = "latest" /\ req.pair \in Pairs
      /\ made' = NULL /\ req' \in Request \cup {NULL}
      /\ SeenOK(updates, seen) /\ seen' = seen /\ TablesInv
  BY <1>1, ServingFacts DEF AskedOK
<1>3. seen[req.pair] # NULL => /\ req.pair \in DOMAIN latest
                               /\ latest[req.pair].quote.source_date >= seen[req.pair]
  <2> SUFFICES ASSUME seen[req.pair] # NULL
               PROVE  /\ req.pair \in DOMAIN latest
                      /\ latest[req.pair].quote.source_date >= seen[req.pair]
    OBVIOUS
  <2>1. seen[req.pair] \in Nat
    BY <1>2, StoreAssumption DEF StepEnds, Inv, TypeOK
  <2>2. Known(updates, req.pair, seen[req.pair])
    BY <1>2 DEF SeenOK
  <2> QED
    BY <1>2, <2>1, <2>2, KnownIsLatest
<1>4. CASE req.pair \in DOMAIN latest
  <2> DEFINE v == [pair |-> req.pair, quote |-> latest[req.pair].quote]
  <2>1. Returned(v)
    BY <1>4 DEF GetLatest
  <2>2. v \in QuoteView /\ v.pair = req.pair /\ v.quote = latest[req.pair].quote
    BY <1>2, <1>4, LatestIsKnown DEF QuoteView
  <2>3. Known(updates, v.pair, v.quote.source_date)
    BY <1>2, <1>4, <2>2, LatestIsKnown
  <2>4. QuoteOK(updates, seen, req, v)
    BY <1>3, <2>2, <2>3 DEF QuoteOK
  <2>5. ReturnedOK(updates', told, seen, req, made', v)
    BY <1>1, <1>2, <2>4 DEF ReturnedOK
  <2> HIDE DEF v
  <2> QED
    BY <1>1, <1>2, <2>1, <2>2, <2>5, ReturnedKept
<1>5. CASE req.pair \notin DOMAIN latest
  <2>1. writeError("ErrNotFound")
    BY <1>5 DEF GetLatest
  <2> QED
    BY <1>2, <1>3, <1>5, <2>1, ErrorStarts DEF Kept
<1> QED
  BY <1>4, <1>5

\* The readiness probe asks the store for nothing but an answer.
LEMMA ReadyProbeKept == StepEnds /\ ReadyProbe => Kept
<1> SUFFICES ASSUME StepEnds, ReadyProbe PROVE Kept
  OBVIOUS
<1>1. /\ req' = req /\ req'.route = "ready" /\ req'.defects = {} /\ made' = NULL
      /\ req' \in Request \cup {NULL}
  BY ServingFacts DEF ReadyProbe, AskedOK
<1>2. CASE StartAnswer(200, {}, Body(NULL))
  BY <1>1, <1>2, StaticStarts DEF Kept
<1>3. CASE StartAnswer(503, {}, Problem("storage_unavailable"))
  <2>1. Listed(req', 503, "storage_unavailable", {}) /\ "storage_unavailable" \in Codes
    BY <1>1 DEF Listed, Documented, Unavailable, Codes
  <2> QED
    BY <1>1, <1>3, <2>1, ProblemStarts DEF Kept
<1> QED
  BY <1>2, <1>3 DEF ReadyProbe

\* A failed call becomes a documented problem.
LEMMA StoreFailsKept == StepEnds /\ StoreFails => Kept
<1> SUFFICES ASSUME StepEnds, StoreFails PROVE Kept
  OBVIOUS
<1>1. PICK r \in {"create", "update", "latest"} :
        /\ Serving(r) /\ writeError("storage")
        /\ made' = made \/ made' \in Updates
  BY DEF StoreFails
<1>2. /\ AskedOK(req) /\ req' = req /\ req.route = r
      /\ made' \in Updates \cup {NULL} /\ req' \in Request \cup {NULL}
  BY <1>1, ServingFacts
<1> QED
  BY <1>1, <1>2, ErrorStarts DEF Kept

-----------------------------------------------------------------------------
(***************************************************************************)
(* The answer on its way, and everybody else.                              *)
(***************************************************************************)

\* A returned update or quote is rendered: mapUpdate never refuses it.
LEMMA RenderKept == StepEnds /\ Render => Kept
<1> SUFFICES ASSUME StepEnds, Render PROVE Kept
  OBVIOUS
<1>1. /\ pc = "map" /\ UNCHANGED <<req, made, panicked, told, seen>> /\ updates' = updates
      /\ req' \in Request \cup {NULL} /\ made' \in Updates \cup {NULL}
  BY DEF Render, storeVars, StepEnds, Inv, TypeOK
<1>2. /\ req.defects = {} /\ req.route \in {"create", "update", "latest"}
      /\ ReturnedOK(updates, told, seen, req, made, out)
  BY <1>1 DEF StepEnds, Inv, RequestInv, CallInv, AskedOK, ReturnedOK
<1>3. Body(out) \in Answer /\ Body(out).code = "ok" /\ Body(out).view = out
  <2>1. out \in UpdateView \cup QuoteView
    BY <1>2 DEF ReturnedOK, ViewOK, QuoteOK
  <2> QED
    BY <2>1 DEF Body, Answer, Codes
<1>4. CASE req.route = "create"
  <2> DEFINE st == IF made = out.id THEN 202 ELSE 200
  <2>1. /\ ViewOK(updates, out) /\ Consistent(told, out) /\ CreatedOK(updates, req, made, out)
    BY <1>2, <1>4 DEF ReturnedOK
  <2>2. StartAnswer(st, {"Location"}, Body(out))
    BY <1>4, <2>1 DEF Render, ViewOK
  <2>3. Sent(st, {"Location"}).status = st /\ Sent(st, {"Location"}).headers = {"Location"}
    BY DEF Sent
  <2>4. Listed(req, 200, "ok", {"Location"}) /\ Listed(req, 202, "ok", {"Location"})
    BY <1>4 DEF Listed, Documented
  <2>5. st \in {200, 202} /\ (st = 202 <=> made = out.id)
    OBVIOUS
  <2>6. out.id # NULL
    BY <2>1, StoreAssumption, NullAssumption DEF ViewOK, UpdateView
  <2>7. made # NULL <=> made = out.id
    BY <2>1, <2>6 DEF CreatedOK
  <2> HIDE DEF st
  <2>8. AnswerOK(updates', req', made', panicked', Sent(st, {"Location"}), Body(out))
    BY <1>1, <1>2, <1>3, <1>4, <2>1, <2>3, <2>4, <2>5, <2>7 DEF AnswerOK
  <2>9. ShownOK(updates', told', seen', req', Sent(st, {"Location"}), Body(out).view)
    BY <1>1, <1>3, <1>4, <2>1, <2>3, <2>5 DEF ShownOK
  <2>10. st \in Nat \ {0} /\ {"Location"} \in SUBSET Headers
    BY <2>5 DEF Headers
  <2> QED
    BY <1>1, <1>3, <2>2, <2>8, <2>9, <2>10, AnswerStarts DEF Kept
<1>5. CASE req.route # "create"
  <2>1. /\ made = NULL
        /\ req.route = "update" => ViewOK(updates, out) /\ Consistent(told, out)
        /\ req.route = "latest" => QuoteOK(updates, seen, req, out)
    BY <1>2, <1>5 DEF ReturnedOK
  <2>2. StartAnswer(200, {}, Body(out))
    BY <1>2, <1>5, <2>1 DEF Render, ViewOK
  <2>3. Sent(200, {}).status = 200 /\ Sent(200, {}).headers = {}
    BY DEF Sent
  <2>4. Listed(req, 200, "ok", {})
    BY <1>2, <1>5 DEF Listed, Documented, Reading
  <2>5. AnswerOK(updates', req', made', panicked', Sent(200, {}), Body(out))
    BY <1>1, <1>2, <1>3, <1>5, <2>1, <2>3, <2>4 DEF AnswerOK
  <2>6. ShownOK(updates', told', seen', req', Sent(200, {}), Body(out).view)
    BY <1>1, <1>2, <1>3, <1>5, <2>1, <2>3 DEF ShownOK
  <2> QED
    BY <1>1, <1>3, <2>2, <2>5, <2>6, AnswerStarts DEF Kept
<1> QED
  BY <1>4, <1>5

\* What an answer was right about before its body was sent, it is after.
LEMMA SentAnswerOK ==
  ASSUME NEW U, NEW q, NEW m, NEW pk, NEW pl, pk => pl, NEW r, NEW s, NEW b,
         AnswerOK(U, q, m, pk, r, b), s.status = r.status, s.headers = r.headers
  PROVE  AnswerOK(U, q, m, pl, s, b)
BY DEF AnswerOK, Listed

\* The client learns what it may rely on.
LEMMA Learned ==
  ASSUME StepEnds, pc = "body", UNCHANGED <<req, storeVars>>,
         out.view # NULL, Learn(out.view)
  PROVE  /\ MemoryInv' /\ told' \in [DOMAIN told' -> UpdateView \cup {NULL}]
         /\ DOMAIN told' \subseteq Updates /\ seen' \in [Pairs -> Dates \cup {NULL}]
<1> DEFINE v == out.view
<1>1. /\ updates' = updates /\ req.route \in {"create", "update", "latest"}
      /\ req.route # "latest" => ViewOK(updates, v) /\ Consistent(told, v)
      /\ req.route = "latest" => QuoteOK(updates, seen, req, v)
      /\ ToldOK(updates, told) /\ SeenOK(updates, seen)
      /\ told \in [DOMAIN told -> UpdateView \cup {NULL}]
      /\ DOMAIN told \subseteq Updates /\ seen \in [Pairs -> Dates \cup {NULL}]
  BY DEF storeVars, StepEnds, Inv, RequestInv, AnswerInv, ShownOK, MemoryInv, TypeOK
<1>2. /\ told' = IF req.route \in {"create", "update"}
                 THEN [u \in DOMAIN told \cup {v.id} |->
                         IF u # v.id THEN told[u]
                         ELSE IF v.status \in TerminalStatus THEN v ELSE NULL]
                 ELSE told
      /\ seen' = IF v.quote # NULL
                      /\ (seen[v.pair] = NULL \/ seen[v.pair] < v.quote.source_date)
                 THEN [seen EXCEPT ![v.pair] = v.quote.source_date]
                 ELSE seen
  BY DEF Learn
<1>3. /\ v.pair \in Pairs /\ v.quote \in Quote \cup {NULL}
      /\ v.quote # NULL => Known(updates, v.pair, v.quote.source_date)
  <2>1. CASE req.route = "latest"
    BY <1>1, <2>1 DEF QuoteOK, QuoteView
  <2>2. CASE req.route # "latest"
    <3>1. /\ v \in UpdateView /\ v.id \in DOMAIN updates /\ v.pair = updates[v.id].pair
          /\ v.quote # NULL => v.status = "completed" /\ v = View(v.id, updates[v.id])
      BY <1>1, <2>2 DEF ViewOK, TerminalStatus
    <3>2. v.pair \in Pairs /\ v.quote \in Quote \cup {NULL}
      BY <3>1 DEF UpdateView
    <3>3. ASSUME v.quote # NULL PROVE Known(updates, v.pair, v.quote.source_date)
      <4>1. updates[v.id].status = "completed" /\ QuoteOf(updates[v.id]) = v.quote
        BY <3>1, <3>3 DEF View
      <4>2. v.quote.source_date \in Nat
        BY <3>2, <3>3, StoreAssumption DEF Quote
      <4> QED
        BY <3>1, <4>1, <4>2 DEF Known
    <3> QED
      BY <3>2, <3>3
  <2> QED
    BY <2>1, <2>2
<1>4. ToldOK(updates', told') /\ told' \in [DOMAIN told' -> UpdateView \cup {NULL}]
      /\ DOMAIN told' \subseteq Updates
  <2>1. CASE req.route = "latest"
    BY <1>1, <1>2, <2>1
  <2>2. CASE req.route # "latest"
    <3>1. /\ v \in UpdateView /\ v.id \in DOMAIN updates /\ v.id \in Updates
          /\ v.status \in TerminalStatus =>
               v = View(v.id, updates[v.id]) /\ updates[v.id].status \in TerminalStatus
      BY <1>1, <2>2 DEF ViewOK, UpdateView, View
    <3>2. told' = [u \in DOMAIN told \cup {v.id} |->
                     IF u # v.id THEN told[u]
                     ELSE IF v.status \in TerminalStatus THEN v ELSE NULL]
      BY <1>1, <1>2, <2>2
    <3> HIDE DEF v
    <3>3. ToldOK(updates', told')
      BY <1>1, <3>1, <3>2 DEF ToldOK
    <3> QED
      BY <1>1, <3>1, <3>2, <3>3
  <2> QED
    BY <2>1, <2>2
<1>5. SeenOK(updates', seen') /\ seen' \in [Pairs -> Dates \cup {NULL}]
  <2>1. v.quote # NULL => v.quote.source_date \in Dates
    BY <1>3 DEF Quote
  <2> HIDE DEF v
  <2> QED
    BY <1>1, <1>2, <1>3, <2>1 DEF SeenOK
<1> QED
  BY <1>4, <1>5 DEF MemoryInv

\* The client learns what the body shows, and that is true of the tables.
LEMMA WriteBodyKept ==
  StepEnds /\ WriteBody =>
    /\ Kept /\ MemoryInv' /\ told' \in [DOMAIN told' -> UpdateView \cup {NULL}]
    /\ DOMAIN told' \subseteq Updates /\ seen' \in [Pairs -> Dates \cup {NULL}]
<1> SUFFICES ASSUME StepEnds, WriteBody
             PROVE  /\ Kept /\ MemoryInv'
                    /\ told' \in [DOMAIN told' -> UpdateView \cup {NULL}]
                    /\ DOMAIN told' \subseteq Updates
                    /\ seen' \in [Pairs -> Dates \cup {NULL}]
  OBVIOUS
<1>1. /\ pc = "body" /\ pc' = "answered" /\ resp' = [resp EXCEPT !.body = out]
      /\ UNCHANGED <<req, out, made, panicked, storeVars>> /\ updates' = updates
      /\ req' \in Request \cup {NULL} /\ made' \in Updates \cup {NULL}
      /\ resp \in [status : Nat, headers : SUBSET Headers, body : Answer \cup {NULL}]
  BY DEF WriteBody, storeVars, StepEnds, Inv, TypeOK, Headers
<1>2. AnswerOK(updates, req, made, panicked, resp, out) /\ out \in Answer
  BY <1>1 DEF StepEnds, Inv, RequestInv, AnswerInv, AnswerOK
<1>3. /\ resp'.status = resp.status /\ resp'.headers = resp.headers /\ resp'.body = out
      /\ resp' \in [status : Nat, headers : SUBSET Headers, body : Answer \cup {NULL}]
  BY <1>1, <1>2
<1>4. AnswerOK(updates', req', made', panicked', resp', out')
  BY <1>1, <1>2, <1>3, SentAnswerOK
<1>5. Kept
  BY <1>1, <1>2, <1>3, <1>4
  DEF Kept, RequestInv, FreshInv, CallInv, AnswerInv, AnswerTyped
<1>6. CASE out.view = NULL
  <2>1. UNCHANGED <<told, seen>>
    BY <1>6 DEF WriteBody
  <2> QED
    BY <1>5, <2>1 DEF StepEnds, Inv, TypeOK
<1>7. CASE out.view # NULL
  BY <1>1, <1>5, <1>7, Learned DEF WriteBody
<1> QED
  BY <1>6, <1>7

\* A panic is answered 500 if nothing has gone out; it spoils no answer that
\* has begun.
LEMMA PanicKept == StepEnds /\ Panic => Kept
<1> SUFFICES ASSUME StepEnds, Panic PROVE Kept
  OBVIOUS
<1>1. /\ pc \in {"store", "map", "body"} /\ panicked' = TRUE /\ Recover
      /\ UNCHANGED <<req, made, told, seen>> /\ updates' = updates
      /\ req' \in Request \cup {NULL} /\ made' \in Updates \cup {NULL}
  BY DEF Panic, storeVars, StepEnds, Inv, TypeOK
<1>2. CASE pc \in {"store", "map"}
  <2>1. AskedOK(req) /\ resp.status = 0
    BY <1>2 DEF StepEnds, Inv, RequestInv, FreshInv, CallInv, NoAnswer
  <2>2. StartAnswer(500, {}, Problem("internal_error"))
    BY <1>1, <2>1 DEF Recover
  <2>3. Listed(req', 500, "internal_error", {}) /\ "internal_error" \in Codes
    BY <1>1, <2>1 DEF AskedOK, Listed, Documented, Refusals, Codes
  <2> QED
    BY <1>1, <2>1, <2>2, <2>3, ProblemStarts DEF AskedOK, Kept
<1>3. CASE pc = "body"
  <2>1. AnswerOK(updates, req, made, panicked, resp, out) /\ resp.body = NULL
    BY <1>3 DEF StepEnds, Inv, RequestInv, AnswerInv
  <2>2. pc' = "answered" /\ UNCHANGED <<out, resp>>
    BY <1>1, <2>1 DEF Recover, AnswerOK
  <2>3. AnswerOK(updates', req', made', panicked', resp', out')
    BY <1>1, <2>1, <2>2, SentAnswerOK
  <2> QED
    BY <1>1, <2>1, <2>2, <2>3
    DEF Kept, RequestInv, FreshInv, CallInv, AnswerInv, AnswerTyped, StepEnds, Inv, TypeOK, Headers
<1> QED
  BY <1>1, <1>2, <1>3

\* The client has its answer and may send another request.
LEMMA ReceiveKept == StepEnds /\ Receive => Kept
BY DEF StepEnds, Receive, Kept, RequestInv, FreshInv, CallInv, AnswerInv, AnswerTyped,
       NoAnswer, Headers

\* What everybody else does to the tables takes nothing back.
LEMMA OthersKept == StepEnds /\ UNCHANGED apiVars => Kept
<1> SUFFICES ASSUME StepEnds, UNCHANGED apiVars PROVE Kept
  OBVIOUS
<1>1. UNCHANGED <<pc, req, out, resp, made, panicked, told, seen>>
  BY DEF apiVars
<1>2. RequestInv'
  <2>1. FreshInv'
    BY <1>1 DEF StepEnds, Inv, RequestInv, FreshInv
  <2>2. CallInv'
    BY <1>1, ReturnedStands DEF StepEnds, Inv, RequestInv, CallInv
  <2>3. AnswerInv'
    BY <1>1, AnswerStands, ShownStands DEF StepEnds, Inv, RequestInv, AnswerInv
  <2> QED
    BY <2>1, <2>2, <2>3 DEF RequestInv
<1> QED
  BY <1>1, <1>2 DEF Kept, AnswerTyped, StepEnds, Inv, TypeOK, Headers

-----------------------------------------------------------------------------
(***************************************************************************)
(* The invariant and the theorems.                                         *)
(***************************************************************************)
\* Each step keeps each part.
LEMMA InvNext == Inv /\ [Next]_vars => Inv'
<1> SUFFICES ASSUME Inv, [Next]_vars PROVE Inv'
  OBVIOUS
<1>1. StepEnds
  BY StepFacts DEF StepEnds
<1>2. /\ Kept /\ MemoryInv' /\ told' \in [DOMAIN told' -> UpdateView \cup {NULL}]
      /\ DOMAIN told' \subseteq Updates /\ seen' \in [Pairs -> Dates \cup {NULL}]
      /\ pc' \in {"idle", "store", "map", "body", "answered"} /\ panicked' \in BOOLEAN
  <2>1. CASE WriteBody
    <3>1. pc' = "answered" /\ panicked' = panicked
      BY <2>1 DEF WriteBody
    <3> QED
      BY <1>1, <2>1, <3>1, WriteBodyKept DEF Inv, TypeOK
  <2>2. CASE ~WriteBody
    <3>1. Kept
      BY <1>1, <2>2, UnroutableKept, RefuseKept, AnswerStaticKept, CallServiceKept,
         CreateNewKept, CreateReplayKept, CreateRefusedKept, GetUpdateKept,
         GetLatestKept, ReadyProbeKept, StoreFailsKept, RenderKept, PanicKept,
         ReceiveKept, OthersKept
      DEF Next, Others, vars
    <3>2. UNCHANGED <<told, seen>>
      BY <2>2 DEF Next, Unroutable, Refuse, AnswerStatic, CallService, CreateNew,
         CreateReplay, CreateRefused, GetUpdate, GetLatest, ReadyProbe, StoreFails,
         Render, Panic, Receive, Others, Arrive, Serving, apiVars, vars
    <3>3. panicked' \in BOOLEAN
      BY <2>2 DEF Inv, TypeOK, Next, Unroutable, Refuse, AnswerStatic, CallService,
         CreateNew, CreateReplay, CreateRefused, GetUpdate, GetLatest, ReadyProbe,
         StoreFails, Render, Panic, Receive, Others, Arrive, Serving, apiVars, vars
    <3>4. pc' \in {"idle", "store", "map", "body", "answered"}
      BY <2>2 DEF Inv, TypeOK, Next, Unroutable, Refuse, AnswerStatic, CallService,
         CreateNew, CreateReplay, CreateRefused, GetUpdate, GetLatest, ReadyProbe,
         StoreFails, Render, Panic, Receive, Others, Arrive, Serving, apiVars, vars,
         StartAnswer, Returned, writeError, Recover
    <3> QED
      BY <1>1, <3>1, <3>2, <3>3, <3>4 DEF StepEnds, Inv, TypeOK
  <2> QED
    BY <2>1, <2>2
<1>3. TablesInv' /\ StoreTypeOK'
  BY <1>1 DEF StepEnds, TablesInv, RowsInv, RowOK, StoreTypeOK
<1>4. TypeOK'
  BY <1>2, <1>3 DEF TypeOK, Kept, AnswerTyped, Headers
<1> QED
  BY <1>2, <1>3, <1>4 DEF Inv, Kept

\* Before the first request nothing was told.
LEMMA InvInit == Init => Inv
<1> SUFFICES ASSUME Init PROVE Inv
  OBVIOUS
<1>1. StoreInit /\ TablesInv /\ StoreTypeOK
  BY RowsInvInit
  DEF Init, StoreInit, TablesInv, LatestIsNewest, NewestFor, Completed, Rows, StoreTypeOK
<1>2. TypeOK
  BY <1>1 DEF Init, TypeOK
<1>3. MemoryInv
  BY DEF Init, MemoryInv, ToldOK, SeenOK
<1>4. RequestInv
  BY DEF Init, RequestInv, FreshInv, CallInv, AnswerInv, NoAnswer
<1> QED
  BY <1>1, <1>2, <1>3, <1>4 DEF Inv

\* The invariant holds throughout.
LEMMA InvHolds == Spec => []Inv
BY InvInit, InvNext, PTL DEF Spec

\* The state of a request, its answer and the client's memory keeps its types.
THEOREM ApiTypeCorrect == Spec => []TypeOK
<1>1. Inv => TypeOK
  BY DEF Inv
<1> QED
  BY <1>1, InvHolds, PTL

\* Whatever a client sends and wherever the handler fails or panics, the API
\* uses the store only as QuoteStore allows.
THEOREM ApiUsesStore == Spec => StoreSpec
<1>1. Init => StoreInit
  BY DEF Init
<1> QED
  BY <1>1, InvHolds, StoreSteps, PTL DEF Spec, StoreSpec

\* Every answer is one its OpenAPI entry lists: status, code and headers
\* belong to one answer, after a panic too.
THEOREM DocumentedAnswersHolds == Spec => []DocumentedAnswers
<1>1. Inv => DocumentedAnswers
  <2> SUFFICES ASSUME Inv, pc = "answered", req.route \in Routes
               PROVE  \E a \in Documented[req.route] :
                        /\ resp.status = a[1]
                        /\ resp.headers = a[3]
                        /\ resp.body # NULL => resp.body.code = a[2]
    BY DEF DocumentedAnswers
  <2>1. /\ <<resp.status, out.code, resp.headers>> \in Documented[req.route]
        /\ resp.body = out \/ resp.body = NULL
    BY DEF Inv, RequestInv, AnswerInv, AnswerOK, Listed
  <2> QED
    BY <2>1
<1> QED
  BY <1>1, InvHolds, PTL

\* An answer tells what the request left behind.
THEOREM EffectsMatchAnswerHolds == Spec => []EffectsMatchAnswer
<1>1. Inv => EffectsMatchAnswer
  <2> SUFFICES ASSUME Inv, pc = "answered" PROVE EffectsMatchAnswer
    BY DEF EffectsMatchAnswer
  <2>1. /\ AnswerOK(updates, req, made, panicked, resp, out)
        /\ resp.body = out \/ (resp.body = NULL /\ panicked)
    BY DEF Inv, RequestInv, AnswerInv
  <2>2. resp.body # NULL => resp.body = out
    BY <2>1
  <2>3. /\ req.route = "create" /\ resp.status \in {200, 202} =>
             CreatedOK(updates, req, made, out.view)
        /\ resp.status = 202 => made # NULL /\ req.route = "create"
        /\ req.route = "create" /\ resp.status = 200 => made = NULL
        /\ made # NULL => resp.status = 202 \/ out.code = "storage_unavailable" \/ panicked
        /\ req.defects # {} => made = NULL /\ resp.status \in 400..499
    BY <2>1 DEF AnswerOK
  <2>4. ASSUME resp.status = 202
        PROVE  /\ made # NULL
               /\ updates[made].pair = req.pair /\ updates[made].idempotency_key = req.key
               /\ resp.body # NULL =>
                    resp.body.view.id = made /\ resp.body.view.status = "pending"
    <3>1. made # NULL /\ CreatedOK(updates, req, made, out.view)
      BY <2>3, <2>4
    <3> QED
      BY <2>2, <3>1 DEF CreatedOK
  <2>5. ASSUME req.route = "create", resp.status = 200, resp.body # NULL
        PROVE  LET u == resp.body.view.id IN
               /\ made = NULL /\ req.key # NULL
               /\ updates[u].pair = req.pair /\ updates[u].idempotency_key = req.key
    <3>1. made = NULL /\ CreatedOK(updates, req, made, out.view) /\ resp.body = out
      BY <2>2, <2>3, <2>5
    <3> QED
      BY <3>1 DEF CreatedOK
  <2>6. made # NULL =>
          \/ resp.status = 202
          \/ resp.body # NULL /\ resp.body.code = "storage_unavailable"
          \/ panicked
    BY <2>1, <2>3, AnswerAssumption DEF AnswerOK
  <2> QED
    BY <2>3, <2>4, <2>5, <2>6 DEF EffectsMatchAnswer
<1> QED
  BY <1>1, InvHolds, PTL

\* mapUpdate renders every row the store can hold.
THEOREM InternalErrorOnlyFromPanicHolds == Spec => []InternalErrorOnlyFromPanic
<1>1. Inv => InternalErrorOnlyFromPanic
  <2> SUFFICES ASSUME Inv, resp.status = 500 PROVE panicked
    BY DEF InternalErrorOnlyFromPanic
  <2>1. pc \in {"body", "answered"}
    BY DEF Inv, TypeOK, RequestInv, FreshInv, NoAnswer
  <2> QED
    BY <2>1 DEF Inv, RequestInv, AnswerInv, AnswerOK
<1> QED
  BY <1>1, InvHolds, PTL

\* What a client has been shown of an update that had finished, and of the
\* latest quote of a pair, no later answer takes back.
THEOREM ReadsNeverGoBackHolds == Spec => ReadsNeverGoBack
<1> DEFINE Stands ==
      pc = "body" /\ pc' = "answered" /\ resp'.body # NULL =>
       /\ out.view # NULL /\ req.route \in {"create", "update"}
            /\ out.view.id \in DOMAIN told
            /\ told[out.view.id] # NULL
          => out.view = told[out.view.id]
       /\ req.route = "update" /\ resp.status = 404 => req.id \notin DOMAIN told
       /\ req.route = "latest" /\ resp.status = 404 => seen[req.pair] = NULL
       /\ req.route = "latest" /\ resp.status = 200 /\ seen[req.pair] # NULL =>
            out.view.quote.source_date >= seen[req.pair]
<1>1. Inv => Stands
  <2> SUFFICES ASSUME Inv, pc = "body" PROVE Stands
    OBVIOUS
  <2>1. ShownOK(updates, told, seen, req, resp, out.view)
    BY DEF Inv, RequestInv, AnswerInv
  <2> QED
    BY <2>1 DEF ShownOK, Consistent, QuoteOK
<1>2. Inv /\ [Next]_vars => [Stands]_vars
  BY <1>1
<1> QED
  BY <1>2, InvHolds, PTL DEF Spec, ReadsNeverGoBack
===============================================================================

------------------------------- MODULE HttpApi -------------------------------
(***************************************************************************)
(* The HTTP API (internal/adapter/httpapi) as one client meets it: requests *)
(* sent one after another, each routed, validated, handed to the service   *)
(* and answered, while everybody else uses the same two tables (the steps  *)
(* of QuoteStore).  A handler may panic at any call it makes; the          *)
(* middleware recovers.                                                    *)
(*                                                                         *)
(* What is wrong with a request is abstracted to the set of checks it      *)
(* would fail; a request_seq stands for the UUID of its row.               *)
(***************************************************************************)
EXTENDS QuoteStore

CONSTANT MaxDefects     \* how many checks one request fails at most

VARIABLES
  pc,         \* where the request is: "idle", "store", "map", "body", "answered"
  req,        \* the request
  out,        \* the row the service returned, then the body to be written
  resp,       \* what went out: status (0: no header yet), headers and body
  made,       \* the row this request inserted, or NULL
  panicked,   \* whether the handler panicked
  told,       \* the client: update -> its final view if received, else NULL
  seen        \* the client: pair -> the latest source date received, or NULL

apiVars == <<pc, req, out, resp, made, panicked, told, seen>>
vars == <<apiVars, storeVars>>

-----------------------------------------------------------------------------
(***************************************************************************)
(* Requests.                                                               *)
(***************************************************************************)
Methods == {"GET", "POST"}

\* The method each route accepts; a path outside the table is unmatched.
route == [create |-> "POST", update |-> "GET", latest |-> "GET", live |-> "GET",
          ready |-> "GET", openapi |-> "GET"]

Routes == DOMAIN route

\* Mutant: the idempotency key is not looked at.
CreateChecksNoKey ==
  << [fails |-> "media", status |-> 415, code |-> "unsupported_media_type"],
     [fails |-> "size",  status |-> 413, code |-> "payload_too_large"],
     [fails |-> "read",  status |-> 400, code |-> "invalid_request"],
     [fails |-> "json",  status |-> 400, code |-> "invalid_request"] >>

\* The checks of create, in order: Content-Type, MaxBytesReader, the read of
\* the body, decodePair, and the Idempotency-Key header.
CreateChecks ==
  << [fails |-> "media", status |-> 415, code |-> "unsupported_media_type"],
     [fails |-> "size",  status |-> 413, code |-> "payload_too_large"],
     [fails |-> "read",  status |-> 400, code |-> "invalid_request"],
     [fails |-> "json",  status |-> 400, code |-> "invalid_request"],
     [fails |-> "key",   status |-> 400, code |-> "invalid_request"] >>

\* The one check of getUpdate (the UUID) and of getLatest (the query).
ReadChecks == << [fails |-> "syntax", status |-> 400, code |-> "invalid_request"] >>

Checks(r) ==
  CASE r = "create" -> CreateChecks
    [] r \in {"update", "latest"} -> ReadChecks
    [] OTHER -> << >>

\* The checks a request on route r may fail; a read that breaks off has not
\* met the size limit.
DefectsOf(r) ==
  {D \in SUBSET (CASE r = "create" -> {"media", "size", "read", "json", "key"}
                   [] r \in {"update", "latest"} -> {"syntax"}
                   [] OTHER -> {}) :
     Cardinality(D) <= MaxDefects /\ ~({"size", "read"} \subseteq D)}

Request ==
  [ route : Routes \cup {"unmatched"}, method : Methods,
    defects : SUBSET {"media", "size", "read", "json", "key", "syntax"},
    pair : Pairs \cup {NULL}, key : Keys \cup {NULL}, id : Updates \cup {NULL} ]

\* A request the handler sends to the service.
Sound(r, p, k, u) ==
  [route |-> r, method |-> route[r], defects |-> {}, pair |-> p, key |-> k, id |-> u]

-----------------------------------------------------------------------------
(***************************************************************************)
(* Answers.                                                                *)
(***************************************************************************)
UpdateView ==
  [ id : Updates, pair : Pairs, status : ActiveStatus \cup TerminalStatus,
    quote : Quote \cup {NULL}, failure_code : FailureCodes \cup {NULL} ]

QuoteView == [pair : Pairs, quote : Quote]

Codes ==
  {"ok", "invalid_request", "unsupported_media_type", "payload_too_large",
   "not_found", "method_not_allowed", "idempotency_conflict", "queue_full",
   "storage_unavailable", "internal_error"}

\* A body is a problem, told apart by its code, or shows something.
Answer == [code : Codes, view : UpdateView \cup QuoteView \cup {NULL}]

\* NULL, the body of an answer that broke off, is none of them.
ASSUME AnswerAssumption == NULL \notin Answer

Problem(code) == [code |-> code, view |-> NULL]
Body(view) == [code |-> "ok", view |-> view]

\* writeJSON and writeProblem: the header goes out, then the body.
StartAnswer(status, headers, body) ==
  /\ resp' = [status |-> status, headers |-> headers, body |-> NULL]
  /\ out' = body
  /\ pc' = "body"

\* ErrInvalidIdempotencyKey does not come up: visibleASCII has refused a longer
\* key before.
writeError(err) ==
  CASE err = "ErrIdempotencyConflict" -> StartAnswer(409, {}, Problem("idempotency_conflict"))
    [] err = "ErrNotFound" -> StartAnswer(404, {}, Problem("not_found"))
    [] err = "ErrCapacityExceeded" -> StartAnswer(503, {"Retry-After"}, Problem("queue_full"))
    [] OTHER -> StartAnswer(503, {}, Problem("storage_unavailable"))

\* What a client sees of an update: attempts, leases and schedules are hidden.
View(u, r) ==
  [id |-> u, pair |-> r.pair, status |-> r.status, quote |-> QuoteOf(r),
   failure_code |-> r.failure_code]

\* Mutant: the second failure code was forgotten.
mapUpdateOneCode(v) ==
  \/ v.status \in ActiveStatus
  \/ v.status = "completed" /\ v.quote # NULL
  \/ v.status = "failed" /\ v.failure_code = "provider_permanent"

\* Whether mapUpdate can render the update.
mapUpdate(v) ==
  \/ v.status \in ActiveStatus
  \/ v.status = "completed" /\ v.quote # NULL
  \/ v.status = "failed" /\ v.failure_code \in FailureCodes

-----------------------------------------------------------------------------
(***************************************************************************)
(* Routing and validation: a request that is refused never reaches the     *)
(* service.                                                                *)
(***************************************************************************)
Arrive(r) ==
  /\ pc = "idle"
  /\ req' = r
  /\ UNCHANGED <<made, panicked, told, seen, storeVars>>

\* serveHTTP: an unknown path, or another method than the route's.
Unroutable ==
  \/ \E mth \in Methods :
       /\ Arrive([route |-> "unmatched", method |-> mth, defects |-> {},
                  pair |-> NULL, key |-> NULL, id |-> NULL])
       /\ StartAnswer(404, {}, Problem("not_found"))
  \/ \E r \in Routes, mth \in Methods :
       /\ mth # route[r]
       /\ Arrive([route |-> r, method |-> mth, defects |-> {},
                  pair |-> NULL, key |-> NULL, id |-> NULL])
       /\ StartAnswer(405, {"Allow"}, Problem("method_not_allowed"))

\* The first check that fails answers.
Refuse ==
  \E r \in Routes : \E D \in DefectsOf(r) \ {{}} : \E i \in DOMAIN Checks(r) :
    /\ Checks(r)[i].fails \in D
    /\ \A j \in 1..(i - 1) : Checks(r)[j].fails \notin D
    /\ Arrive([route |-> r, method |-> route[r], defects |-> D,
               pair |-> NULL, key |-> NULL, id |-> NULL])
    /\ StartAnswer(Checks(r)[i].status, {}, Problem(Checks(r)[i].code))

\* Live and openapi.yaml are answered without the service.
AnswerStatic ==
  \E r \in {"live", "openapi"} :
    /\ Arrive(Sound(r, NULL, NULL, NULL))
    /\ StartAnswer(200, {}, Body(NULL))

\* A request that no check stops is handed to the service; a check the
\* handler does not make stops nothing.
Admit(r, D) == \A i \in DOMAIN Checks(r) : Checks(r)[i].fails \notin D

CallService ==
  /\ \/ \E p \in Pairs, k \in Keys \cup {NULL}, D \in DefectsOf("create") :
          /\ Admit("create", D)
          /\ Arrive([Sound("create", p, k, NULL) EXCEPT !.defects = D])
     \/ \E u \in Updates : Arrive(Sound("update", NULL, NULL, u))
     \/ \E p \in Pairs : Arrive(Sound("latest", p, NULL, NULL))
     \/ Arrive(Sound("ready", NULL, NULL, NULL))
  /\ pc' = "store"
  /\ UNCHANGED <<out, resp>>

-----------------------------------------------------------------------------
(***************************************************************************)
(* The calls of the service, each one step of the store.                   *)
(***************************************************************************)
Serving(r) ==
  /\ pc = "store"
  /\ req.route = r
  /\ UNCHANGED <<req, panicked, told, seen>>

\* The service returned an update, or a quote, to be rendered.
Returned(v) == out' = v /\ pc' = "map" /\ UNCHANGED resp

CreateNew ==
  /\ Serving("create")
  /\ \E s \in Updates :
       /\ Insert(s, req.pair, req.key, now)
       /\ made' = s
       /\ Returned(View(s, NewRow(req.pair, req.key, now)))

CreateReplay ==
  /\ Serving("create")
  /\ \E u \in Existing(req.key) :
       IF updates[u].pair = req.pair
       THEN Returned(View(u, updates[u]))
       ELSE writeError("ErrIdempotencyConflict")
  /\ UNCHANGED <<made, storeVars>>

CreateRefused ==
  /\ Serving("create")
  /\ Existing(req.key) = {}
  /\ ~HasCapacity
  /\ writeError("ErrCapacityExceeded")
  /\ UNCHANGED <<made, storeVars>>

GetUpdate ==
  /\ Serving("update")
  /\ IF req.id \in Rows
     THEN Returned(View(req.id, updates[req.id]))
     ELSE writeError("ErrNotFound")
  /\ UNCHANGED <<made, storeVars>>

\* The quote comes back without the update it belongs to.
GetLatest ==
  /\ Serving("latest")
  /\ IF req.pair \in DOMAIN latest
     THEN Returned([pair |-> req.pair, quote |-> latest[req.pair].quote])
     ELSE writeError("ErrNotFound")
  /\ UNCHANGED <<made, storeVars>>

\* The gate is closed, the ping failed or a second went by: 503.
ReadyProbe ==
  /\ Serving("ready")
  /\ \/ StartAnswer(200, {}, Body(NULL))
     \/ StartAnswer(503, {}, Problem("storage_unavailable"))
  /\ UNCHANGED <<made, storeVars>>

\* Any call may fail, or outlive the request's deadline; a failed admission
\* may have been committed all the same.
StoreFails ==
  \E r \in {"create", "update", "latest"} :
    /\ Serving(r)
    /\ \/ UNCHANGED <<made, storeVars>>
       \/ \E s \in Updates :
            r = "create" /\ Insert(s, req.pair, req.key, now) /\ made' = s
    /\ writeError("storage")

-----------------------------------------------------------------------------
(***************************************************************************)
(* Rendering the answer, and the middleware around the handler.  The       *)
(* worker is notified of a new update before the answer; a notifier that   *)
(* panics is recovered on the spot and changes nothing here.               *)
(***************************************************************************)
Render ==
  /\ pc = "map"
  /\ IF req.route # "latest" /\ ~mapUpdate(out)
     THEN StartAnswer(500, {}, Problem("internal_error"))
     ELSE IF req.route = "create"
     THEN StartAnswer(IF made = out.id THEN 202 ELSE 200, {"Location"}, Body(out))
     ELSE StartAnswer(200, {}, Body(out))
  /\ UNCHANGED <<req, made, panicked, told, seen, storeVars>>

\* The client learns what the view shows.
Learn(v) ==
  /\ told' = IF req.route \in {"create", "update"}
             THEN [u \in DOMAIN told \cup {v.id} |->
                     IF u # v.id THEN told[u]
                     ELSE IF v.status \in TerminalStatus THEN v ELSE NULL]
             ELSE told
  /\ seen' = IF v.quote # NULL
                  /\ (seen[v.pair] = NULL \/ seen[v.pair] < v.quote.source_date)
             THEN [seen EXCEPT ![v.pair] = v.quote.source_date]
             ELSE seen

WriteBody ==
  /\ pc = "body"
  /\ resp' = [resp EXCEPT !.body = out]
  /\ pc' = "answered"
  /\ IF out.view # NULL THEN Learn(out.view) ELSE UNCHANGED <<told, seen>>
  /\ UNCHANGED <<req, out, made, panicked, storeVars>>

\* Mutant: the recovered panic is always reported.
RecoverAlways ==
  IF resp.status = 0
  THEN StartAnswer(500, {}, Problem("internal_error"))
  ELSE /\ resp' = [resp EXCEPT !.body = Problem("internal_error")]
       /\ pc' = "answered"
       /\ UNCHANGED out

\* The deferred recovery: a 500 if no header has gone out; otherwise the answer
\* breaks off where it is.
Recover ==
  IF resp.status = 0
  THEN StartAnswer(500, {}, Problem("internal_error"))
  ELSE pc' = "answered" /\ UNCHANGED <<out, resp>>

\* The service panics before or after its call took effect, or the writing of
\* the body does.
Panic ==
  /\ pc \in {"store", "map", "body"}
  /\ ~panicked
  /\ panicked' = TRUE
  /\ Recover
  /\ UNCHANGED <<req, made, told, seen, storeVars>>

\* The client has the answer and may send its next request.
Receive ==
  /\ pc = "answered"
  /\ pc' = "idle"
  /\ req' = NULL
  /\ out' = NULL
  /\ resp' = [status |-> 0, headers |-> {}, body |-> NULL]
  /\ made' = NULL
  /\ panicked' = FALSE
  /\ UNCHANGED <<told, seen, storeVars>>

-----------------------------------------------------------------------------
Init ==
  /\ StoreInit
  /\ pc = "idle"
  /\ req = NULL
  /\ out = NULL
  /\ resp = [status |-> 0, headers |-> {}, body |-> NULL]
  /\ made = NULL
  /\ panicked = FALSE
  /\ told = [u \in {} |-> NULL]
  /\ seen = [p \in Pairs |-> NULL]

\* Everybody else: other clients, the workers and the clock.
Others == StoreNext /\ UNCHANGED apiVars

Next ==
  \/ Unroutable
  \/ Refuse
  \/ AnswerStatic
  \/ CallService
  \/ CreateNew
  \/ CreateReplay
  \/ CreateRefused
  \/ GetUpdate
  \/ GetLatest
  \/ ReadyProbe
  \/ StoreFails
  \/ Render
  \/ WriteBody
  \/ Panic
  \/ Receive
  \/ Others

Spec == Init /\ [][Next]_vars

-----------------------------------------------------------------------------
(***************************************************************************)
(* What a client can rely on.                                              *)
(***************************************************************************)

\* The variables have their types, and the store keeps its own.
TypeOK ==
  /\ StoreTypeOK
  /\ pc \in {"idle", "store", "map", "body", "answered"}
  /\ req \in Request \cup {NULL}
  /\ out \in UpdateView \cup QuoteView \cup Answer \cup {NULL}
  /\ resp \in [ status : Nat, headers : SUBSET {"Location", "Allow", "Retry-After"},
                body : Answer \cup {NULL} ]
  /\ made \in Updates \cup {NULL}
  /\ panicked \in BOOLEAN
  /\ DOMAIN told \subseteq Updates
  /\ told \in [DOMAIN told -> UpdateView \cup {NULL}]
  /\ seen \in [Pairs -> Dates \cup {NULL}]

\* api/openapi.yaml: status, code and required headers of every answer of a
\* route.
Refusals == {<<405, "method_not_allowed", {"Allow"}>>, <<500, "internal_error", {}>>}
Unavailable == {<<503, "storage_unavailable", {}>>}
Reading == {<<200, "ok", {}>>, <<400, "invalid_request", {}>>, <<404, "not_found", {}>>}

Documented ==
  [ create |-> Refusals \cup Unavailable \cup
      { <<202, "ok", {"Location"}>>, <<200, "ok", {"Location"}>>,
        <<400, "invalid_request", {}>>, <<409, "idempotency_conflict", {}>>,
        <<413, "payload_too_large", {}>>, <<415, "unsupported_media_type", {}>>,
        <<503, "queue_full", {"Retry-After"}>> },
    update |-> Refusals \cup Unavailable \cup Reading,
    latest |-> Refusals \cup Unavailable \cup Reading,
    live |-> Refusals \cup {<<200, "ok", {}>>},
    ready |-> Refusals \cup Unavailable \cup {<<200, "ok", {}>>},
    openapi |-> Refusals \cup {<<200, "ok", {}>>} ]

\* Every answer of a route is one its OpenAPI entry lists, with the headers
\* that entry requires, whatever combination of checks the request fails and
\* wherever the handler panics: status, headers and body always belong to one
\* answer.
DocumentedAnswers ==
  pc = "answered" /\ req.route \in Routes =>
    \E a \in Documented[req.route] :
      /\ resp.status = a[1]
      /\ resp.headers = a[3]
      /\ resp.body # NULL => resp.body.code = a[2]

\* A request leaves an update behind only if its answer admits it: a refused
\* one never, a 202 exactly the one it shows, a 200 replays an update of the
\* same pair and key; only a storage error or a panic leaves it open.
EffectsMatchAnswer ==
  pc = "answered" =>
    /\ req.defects # {} => made = NULL /\ resp.status \in 400..499
    /\ made # NULL =>
         \/ resp.status = 202
         \/ resp.body # NULL /\ resp.body.code = "storage_unavailable"
         \/ panicked
    /\ resp.status = 202 =>
         /\ made # NULL
         /\ updates[made].pair = req.pair /\ updates[made].idempotency_key = req.key
         /\ resp.body # NULL =>
              resp.body.view.id = made /\ resp.body.view.status = "pending"
    /\ req.route = "create" /\ resp.status = 200 /\ resp.body # NULL =>
         LET u == resp.body.view.id IN
         /\ made = NULL
         /\ req.key # NULL
         /\ updates[u].pair = req.pair /\ updates[u].idempotency_key = req.key

\* mapUpdate renders whatever the store can hold: a 500 is always a panic's.
InternalErrorOnlyFromPanic == resp.status = 500 => panicked

\* What the client has been shown stands: a finished update is shown the same
\* ever after, no update it knows is answered 404, and once a quote of a pair
\* was shown, by either resource, the latest quote of the pair is never
\* missing and never of an earlier source date.
ReadsNeverGoBack ==
  [][pc = "body" /\ pc' = "answered" /\ resp'.body # NULL =>
       /\ out.view # NULL /\ req.route \in {"create", "update"}
            /\ out.view.id \in DOMAIN told
            /\ told[out.view.id] # NULL
          => out.view = told[out.view.id]
       /\ req.route = "update" /\ resp.status = 404 => req.id \notin DOMAIN told
       /\ req.route = "latest" /\ resp.status = 404 => seen[req.pair] = NULL
       /\ req.route = "latest" /\ resp.status = 200 /\ seen[req.pair] # NULL =>
            out.view.quote.source_date >= seen[req.pair]]_vars
===============================================================================

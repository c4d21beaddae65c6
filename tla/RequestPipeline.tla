----------------------------- MODULE RequestPipeline -----------------------------
(***************************************************************************)
(* The life of the requests that the engine serves (app.js, proxy.js,      *)
(* upgrade-proxy.js): one turn decides who answers, from the switches, the *)
(* configuration and the routes of that moment; then delays, bodies, user  *)
(* scripts, timeouts, the backend and clients that leave interleave, while *)
(* an administrator changes what later requests meet.                      *)
(***************************************************************************)
EXTENDS Integers, FiniteSets

CONSTANTS Requests,
          Backends,   \* values of BACKEND_URL
          NoBackend,  \* it is not configured
          Configs,    \* what the configuration may be
          Routes,     \* what the registry may decide
          Transforms, \* versions of a proxy middleware
          NoTransform,
          Chunks,     \* pieces of a request body, its end included
          MaxChanges  \* bound on the changes of the administrator

ASSUME PipelineAssumption ==
  /\ Chunks \in Nat \ {0}
  /\ NoBackend \notin Backends /\ NoTransform \notin Transforms
  /\ Configs \subseteq [backend : Backends \cup {NoBackend}, fallback : BOOLEAN, cors : BOOLEAN,
                        delay : BOOLEAN, delayAll : BOOLEAN]
  /\ Routes \subseteq [mode : {"mock", "handler", "sse", "ws", "none"}, needsBody : BOOLEAN,
                       file : BOOLEAN, ownDelay : BOOLEAN]

VARIABLES
  switches,   \* ServerStateStore: [enabled, proxyAll]
  config,     \* what RuntimeConfigStore publishes
  route,      \* the decision of the registry for the path
  transform,  \* the proxy middleware of the path
  req,        \* the requests
  calls,      \* HandlerStateStore: the calls counted for the endpoint
  changes

pipelineVars == <<switches, config, route, transform, req, calls, changes>>

\* phase: where the dispatcher of the request waits; out: what its response has become;
\* source: the header that tells who answered; flow, left, reading, got: its body.
NewRequest ==
  [phase |-> "new", out |-> "none", mode |-> "proxy", source |-> "none",
   monitored |-> FALSE, cfg |-> [backend |-> NoBackend], transforms |-> FALSE,
   transform |-> NoTransform, to |-> NoBackend, needsBody |-> FALSE, file |-> FALSE,
   flow |-> FALSE, left |-> Chunks, reading |-> FALSE, got |-> 0, complete |-> FALSE,
   answers |-> 0, records |-> 0, finalized |-> FALSE, entry |-> 0]

Switches == [enabled : BOOLEAN, proxyAll : BOOLEAN]

InitPipeline ==
  /\ switches = [enabled |-> TRUE, proxyAll |-> FALSE]
  /\ config \in Configs /\ route \in Routes
  /\ transform \in Transforms \cup {NoTransform}
  /\ req = [r \in Requests |-> NewRequest]
  /\ calls = 0 /\ changes = 0

UsesMocks == switches.enabled /\ ~switches.proxyAll
IsMonitoring == switches.enabled

Gone(q) == q.out \in {"gone", "broken"}
HeadersSent(q) == q.answers > 0

Goes(r, q) ==
  /\ req' = [req EXCEPT ![r] = q]
  /\ UNCHANGED <<switches, config, route, transform, calls, changes>>

-------------------------------------------------------------------------------
(* Steps shared by the branches.                                           *)

\* res.status().json(), send() or end(): the whole response.  A client that left hears nothing.
Answered(q, source) ==
  [q EXCEPT !.phase = "done", !.source = source, !.answers = @ + 1,
            !.out = IF @ = "none" THEN "ended" ELSE @]

\* The headers leave and the body follows.
Started(q, source, phase) ==
  [q EXCEPT !.phase = phase, !.source = source, !.answers = @ + 1,
            !.out = IF @ = "none" THEN "started" ELSE @]

\* A listener of 'data' or a pipe: the body flows, to it as well.
Reading(q, phase) == [q EXCEPT !.phase = phase, !.reading = TRUE, !.flow = TRUE]

\* Mutant: the body goes on flowing to the capture of the monitor alone.
Waiting_NotPaused(q, phase) == [q EXCEPT !.phase = phase]

\* req.pause() before the delay of a proxied request.
Waiting(q, phase) == [q EXCEPT !.phase = phase, !.flow = FALSE]

\* Mutant: the backend of the moment, not that of the entry.
Forwarded_Current(q) ==
  [Reading(q, "upstream") EXCEPT
     !.to = config.backend,
     !.transform = IF q.transforms THEN transform ELSE NoTransform]

\* forwardToBackend: the middleware is that of this moment, the rest that of the entry.
Forwarded(q) ==
  [Reading(q, "upstream") EXCEPT
     !.to = q.cfg.backend,
     !.transform = IF q.transforms THEN transform ELSE NoTransform]

\* Mutant: every 'finish' and 'close' writes an entry of the monitor.
Finalized_Twice(q) ==
  [q EXCEPT !.finalized = TRUE,
            !.records = IF q.monitored /\ q.source # "cors-preflight" THEN @ + 1 ELSE @]

\* finalizeMonitoring.
Finalized(q) ==
  IF q.finalized THEN q
  ELSE [q EXCEPT !.finalized = TRUE,
                 !.records = IF q.monitored /\ q.source # "cors-preflight" THEN @ + 1 ELSE @]

-------------------------------------------------------------------------------
(* The turn of the entry: the logger and the dispatcher.                   *)

\* What the entry has read, once for the whole request.
Entered(r) ==
  [req[r] EXCEPT !.cfg = config, !.monitored = IsMonitoring, !.flow = IsMonitoring,
                 !.entry = [cfg |-> config, switches |-> switches]]

\* To the backend, after the delay of proxied requests when there is one.
ToBackend(q) ==
  IF q.cfg.backend = NoBackend
  THEN Answered([q EXCEPT !.mode = "backend-unconfigured"], "backend-unconfigured")
  ELSE IF q.cfg.delay /\ q.cfg.delayAll THEN Waiting(q, "proxyDelay") ELSE Forwarded(q)

\* respondWithMock once its delay is over.
MockRendered(q) ==
  IF q.needsBody THEN Reading(q, "mockBody")
  ELSE IF q.file THEN [q EXCEPT !.phase = "file"] ELSE Answered(q, "mock")

\* The branch of the decision.
Decided(q, preflight) ==
  LET named == [q EXCEPT !.mode = route.mode, !.needsBody = route.needsBody,
                         !.file = route.file, !.transforms = TRUE]
  IN IF q.cfg.cors /\ preflight /\ route.mode \notin {"mock", "handler"}
     THEN Answered([q EXCEPT !.mode = "cors-preflight"], "cors-preflight")
     ELSE CASE route.mode = "mock" ->
                 IF route.ownDelay \/ q.cfg.delay THEN [named EXCEPT !.phase = "mockDelay"]
                 ELSE MockRendered(named)
            [] route.mode = "handler" -> Reading(named, "handlerBody")
            [] route.mode = "sse" -> Started(named, "sse", "streaming")
            [] route.mode = "ws" -> Answered([named EXCEPT !.mode = "ws-upgrade-required"], "ws")
            [] route.mode = "none" ->
                 IF ~q.cfg.fallback
                 THEN Answered([q EXCEPT !.mode = "mock-only-miss"], "mock-only")
                 ELSE ToBackend([q EXCEPT !.transforms = TRUE])

\* Mutant: the decision is taken whatever the switches.
Dispatch_IgnoresSwitches(r) ==
  /\ req[r].phase = "new"
  /\ \E preflight \in BOOLEAN : Goes(r, Decided(Entered(r), preflight))

\* A request arrives.
Dispatch(r) ==
  /\ req[r].phase = "new"
  /\ IF UsesMocks THEN \E preflight \in BOOLEAN : Goes(r, Decided(Entered(r), preflight))
     ELSE Goes(r, ToBackend(Entered(r)))

\* The delay is over.
DelayOver(r) ==
  \/ req[r].phase = "mockDelay" /\ Goes(r, MockRendered(req[r]))
  \/ req[r].phase = "proxyDelay" /\ Goes(r, Forwarded(req[r]))

-------------------------------------------------------------------------------
(* The body of the request.                                                *)

\* A piece is emitted, to whoever listens: the capture, a reader, the backend.
BodyFlows(r) ==
  LET q == req[r] IN
  /\ q.phase # "new" /\ q.flow /\ q.left > 0 /\ ~Gone(q)
  /\ Goes(r, [q EXCEPT !.left = @ - 1,
                       !.got = IF q.reading THEN @ + 1 ELSE @,
                       !.complete = q.reading /\ q.left = 1])

\* The template is rendered with the body, or without one that broke off.
MockBodyRead(r) ==
  LET q == req[r] IN
  /\ q.phase = "mockBody" /\ (q.complete \/ (q.out = "gone" /\ q.left > 0))
  /\ Goes(r, Answered(q, "mock"))

\* respondWithHandler with the body read: the script runs, unless its client left.
HandlerBodyRead(r) ==
  LET q == req[r] IN
  /\ q.phase = "handlerBody" /\ (q.complete \/ Gone(q))
  /\ IF Gone(q)
     THEN Goes(r, [q EXCEPT !.phase = "done"])
     ELSE /\ req' = [req EXCEPT ![r].phase = "handler"]
          /\ calls' = calls + 1
          /\ UNCHANGED <<switches, config, route, transform, changes>>

\* A body over the limit: 413.
HandlerBodyTooLarge(r) ==
  /\ req[r].phase = "handlerBody" /\ req[r].got > 0 /\ req[r].left > 0 /\ ~Gone(req[r])
  /\ Goes(r, Answered(req[r], "handler"))

\* The end of a handler; nobody is answered who left.
HandlerOver(q) == IF Gone(q) THEN [q EXCEPT !.phase = "done"] ELSE Answered(q, "handler")

\* The script returns or throws, if it ever does.
HandlerSettles(r) == req[r].phase = "handler" /\ Goes(r, HandlerOver(req[r]))

\* Mutant: the script runs without a timer.
HandlerTimesOut_Never(r) == FALSE

\* runWithTimeout: the timer wins the race, a late result is ignored.
HandlerTimesOut(r) == req[r].phase = "handler" /\ Goes(r, HandlerOver(req[r]))

\* sendFileMockResponse: the file is gone since the load, is sent, or breaks off.
FileMissing(r) == req[r].phase = "file" /\ Goes(r, Answered(req[r], "mock"))
FileOpened(r) == req[r].phase = "file" /\ Goes(r, Started(req[r], "mock", "sending"))
FileSent(r) ==
  LET q == req[r] IN
  /\ q.phase = "sending"
  /\ \E end \in {"ended", "broken"} :
       Goes(r, [q EXCEPT !.phase = "done", !.out = IF @ = "started" THEN end ELSE @])

-------------------------------------------------------------------------------
(* forwardToBackend.                                                       *)

\* The error of the request to the backend: a 502 if nothing was sent, else a visible end.
Failed(q) ==
  IF ~HeadersSent(q) /\ ~Gone(q) THEN Answered(q, "backend")
  ELSE [q EXCEPT !.phase = "done", !.out = IF @ = "started" THEN "broken" ELSE @]

\* The backend refuses, is silent until the timeout, or breaks off before its headers.
UpstreamFails(r) == req[r].phase = "upstream" /\ Goes(r, Failed(req[r]))

\* Its headers: the response streams through, is buffered for the middleware, or bypasses it.
UpstreamHeaders(r) ==
  /\ req[r].phase = "upstream"
  /\ IF req[r].transform = NoTransform
     THEN Goes(r, Started(req[r], "backend", "piping"))
     ELSE \/ Goes(r, [req[r] EXCEPT !.phase = "buffering"])
          \/ Goes(r, Started(req[r], "backend", "bypassing"))

\* A response larger than the buffer bypasses the middleware too.
BufferFull(r) == req[r].phase = "buffering" /\ Goes(r, Started(req[r], "backend", "bypassing"))

\* The response is over.
UpstreamEnds(r) ==
  LET q == req[r] IN
  \/ /\ q.phase \in {"piping", "bypassing"}
     /\ Goes(r, [q EXCEPT !.phase = "done", !.out = IF @ = "started" THEN "ended" ELSE @])
  \/ q.phase = "buffering" /\ Goes(r, [q EXCEPT !.phase = "transform"])

\* Mutant: a response that breaks off while it streams is ended as if it were whole.
UpstreamBreaks_Silent(r) ==
  LET q == req[r] IN
  \/ q.phase \in {"piping", "bypassing"} /\ Goes(r, [q EXCEPT !.phase = "done"])
  \/ q.phase = "buffering" /\ Goes(r, Failed(q))

\* It breaks off: the streaming response is destroyed, the bypassing one is left as it is.
UpstreamBreaks(r) ==
  LET q == req[r] IN
  \/ q.phase \in {"piping", "buffering"} /\ Goes(r, Failed(q))
  \/ q.phase = "bypassing" /\ Goes(r, [q EXCEPT !.phase = "done"])

\* The backend resets the connection that still carries the body of the request.
UploadFails(r) ==
  LET q == req[r] IN
  /\ q.phase \in {"piping", "buffering", "bypassing", "transform"} /\ q.left > 0 /\ ~Gone(q)
  /\ Goes(r, [Failed(q) EXCEPT !.phase = IF q.phase = "transform" THEN q.phase ELSE @,
                                !.left = 0])

\* Mutant: the result of a middleware is sent without looking at the response.
TransformSettles_NoGuard(r) ==
  req[r].phase = "transform" /\ Goes(r, Answered(req[r], "middleware"))

\* transformResponse returns or throws, or its timer wins the race and the response of the
\* backend is sent as it is; writing after the headers throws, and is caught.
TransformSettles(r) ==
  /\ req[r].phase = "transform"
  /\ Goes(r, IF HeadersSent(req[r]) THEN [req[r] EXCEPT !.phase = "done"]
             ELSE Answered(req[r], "middleware"))

-------------------------------------------------------------------------------
(* Upgrade requests, which do not pass through the dispatcher nor the      *)
(* monitor.                                                                *)

\* A mocked WebSocket, a refusal, or the handshake with the backend of this moment.
Upgrade(r) ==
  LET q == [Entered(r) EXCEPT !.mode = "upgrade", !.monitored = FALSE, !.flow = FALSE] IN
  /\ req[r].phase = "new"
  /\ Goes(r, IF UsesMocks /\ route.mode = "ws" THEN Started(q, "ws", "streaming")
             ELSE IF q.cfg.backend = NoBackend THEN Answered(q, "backend-unconfigured")
             ELSE IF UsesMocks /\ ~q.cfg.fallback THEN Answered(q, "mock-only")
             ELSE [q EXCEPT !.phase = "handshake", !.to = q.cfg.backend])

\* The answer of the backend: 101, or a refusal that is passed on, or cut off when it breaks.
HandshakeAnswered(r) ==
  \/ /\ req[r].phase = "handshake"
     /\ \/ Goes(r, Started(req[r], "backend", "tunnel"))
        \/ Goes(r, [req[r] EXCEPT !.phase = "refusal"])
  \/ /\ req[r].phase = "refusal"
     /\ \/ Goes(r, Answered(req[r], "backend"))
        \/ Goes(r, [req[r] EXCEPT !.phase = "done", !.out = "broken"])

\* Mutant: the error of an established tunnel is answered as one of the handshake.
HandshakeFails_Always502(r) ==
  req[r].phase \in {"handshake", "tunnel"} /\ Goes(r, Answered(req[r], "backend"))

\* The backend fails, or is silent until the timeout: a 502 until the tunnel exists.
HandshakeFails(r) ==
  \/ req[r].phase = "handshake" /\ Goes(r, Answered(req[r], "backend"))
  \/ req[r].phase = "tunnel" /\ Goes(r, [req[r] EXCEPT !.phase = "done", !.out = "broken"])

-------------------------------------------------------------------------------
(* The response and its client.                                            *)

\* 'finish': the response was handed over whole.
Finish(r) ==
  /\ req[r].out = "ended"
  /\ Goes(r, [Finalized(req[r]) EXCEPT !.out = "finished"])

\* The script of an SSE ends its response, or a reload or the shutdown does.
StreamEnds(r) ==
  /\ req[r].phase = "streaming"
  /\ Goes(r, [req[r] EXCEPT !.phase = "done", !.out = "ended"])

\* 'close' after 'finish': it counts for an SSE only.
ClosedAfter(r) ==
  /\ req[r].out = "finished" /\ req[r].mode = "sse"
  /\ Goes(r, [Finalized(req[r]) EXCEPT !.out = "over"])

\* The client leaves: 'close' without 'finish'.  What waits for the backend is destroyed.
ClientLeaves(r) ==
  LET q == req[r]
      left == [q EXCEPT !.out = "gone",
                 !.phase = IF @ \in {"upstream", "piping", "bypassing", "buffering", "streaming",
                                     "handshake", "refusal", "tunnel"}
                           THEN "done" ELSE @]
  IN /\ q.phase # "new" /\ q.out \in {"none", "started", "ended"}
     /\ Goes(r, IF q.mode = "sse" THEN Finalized(left) ELSE left)

-------------------------------------------------------------------------------
(* The administrator: the switches, PATCH /config, and a reload, which     *)
(* clears the memory of the handlers of a sequence that changed.           *)

Change ==
  /\ changes < MaxChanges /\ changes' = changes + 1
  /\ UNCHANGED req
  /\ \/ /\ \E e, p \in BOOLEAN : switches' = [enabled |-> e, proxyAll |-> p]
        /\ UNCHANGED <<config, route, transform, calls>>
     \/ config' \in Configs /\ UNCHANGED <<switches, route, transform, calls>>
     \/ /\ route' \in Routes /\ transform' \in Transforms \cup {NoTransform}
        /\ calls' \in {calls, 0}
        /\ UNCHANGED <<switches, config>>

ServeStep(r) ==
  \/ Dispatch(r) \/ DelayOver(r) \/ BodyFlows(r) \/ MockBodyRead(r)
  \/ HandlerBodyRead(r) \/ HandlerBodyTooLarge(r)
  \/ HandlerSettles(r) \/ HandlerTimesOut(r)
  \/ FileMissing(r) \/ FileOpened(r) \/ FileSent(r)
  \/ UpstreamFails(r) \/ UpstreamHeaders(r) \/ BufferFull(r) \/ UpstreamEnds(r)
  \/ UpstreamBreaks(r) \/ UploadFails(r) \/ TransformSettles(r)
  \/ Upgrade(r) \/ HandshakeAnswered(r) \/ HandshakeFails(r)
  \/ Finish(r) \/ StreamEnds(r) \/ ClosedAfter(r) \/ ClientLeaves(r)

PipelineStep == Change \/ \E r \in Requests : ServeStep(r)

PipelineSpec == InitPipeline /\ [][PipelineStep]_pipelineVars

\* Timers fire, scripts settle or lose their race, the backend answers within the timeout and
\* ends or drops what it began, and a body that flows arrives.
PipelineFairness ==
  \A r \in Requests :
    /\ WF_pipelineVars(DelayOver(r)) /\ WF_pipelineVars(BodyFlows(r))
    /\ WF_pipelineVars(MockBodyRead(r)) /\ WF_pipelineVars(HandlerBodyRead(r))
    /\ WF_pipelineVars(HandlerTimesOut(r)) /\ WF_pipelineVars(TransformSettles(r))
    /\ WF_pipelineVars(FileOpened(r)) /\ WF_pipelineVars(FileSent(r))
    /\ WF_pipelineVars(UpstreamFails(r))
    /\ WF_pipelineVars(UpstreamEnds(r) \/ UpstreamBreaks(r))
    /\ WF_pipelineVars(HandshakeFails(r)) /\ WF_pipelineVars(HandshakeAnswered(r))
    /\ WF_pipelineVars(Finish(r))

-------------------------------------------------------------------------------
(* Properties.                                                             *)

\* One instant explains a request (PATCH /config: "a request waiting on its delay" keeps the
\* configuration of its arrival): whatever changed while it waited for delays, bodies and
\* scripts, the backend it reached, the monitoring and the branch are those of its entry; no
\* local answer and no middleware for a request that entered while the mocks were not in use.
OneInstant ==
  \A r \in Requests : LET q == req[r] IN q.phase # "new" =>
    LET e == q.entry IN
    /\ q.to \in {NoBackend, e.cfg.backend}
    /\ q.records > 0 => e.switches.enabled
    /\ ~(e.switches.enabled /\ ~e.switches.proxyAll) =>
         /\ q.source \in {"none", "backend", "backend-unconfigured"}
         /\ q.transform = NoTransform
    /\ e.switches.enabled /\ ~e.switches.proxyAll /\ ~e.cfg.fallback => q.to = NoBackend

\* The monitor has one entry for a request that it watched at the entry and whose response
\* was handed over, one for a watched SSE however it ended, and none for any other: 'finish'
\* and 'close' of an SSE that ends by itself both arrive.
RecordedOnce ==
  \A r \in Requests : LET q == req[r] IN
    q.records = IF /\ q.monitored /\ q.source # "cors-preflight"
                   /\ q.out \in {"finished", "over"} \/ (q.out = "gone" /\ q.mode = "sse")
                THEN 1 ELSE 0

\* A request is answered at most once, and exactly once when anything was sent: the timeout
\* of a script against its late result, the error of the upload against the result of the
\* middleware, the failure of a tunnel after its 101.
OneAnswer ==
  \A r \in Requests : /\ req[r].answers <= 1
                      /\ req[r].out \in {"started", "ended", "finished", "over"} =>
                           req[r].answers = 1

\* However the ways of ending a request race, the client has one answer and the monitor one
\* entry of it.
AnsweredAndRecorded == OneAnswer /\ RecordedOnce

\* The handler and the backend receive the whole body, although the capture of the monitor
\* makes it flow from the entry and the request may wait for a delay in between.
BodyWhole ==
  \A r \in Requests : LET q == req[r] IN
    /\ q.phase = "handler" => q.got = Chunks
    /\ q.phase \in {"handlerBody", "upstream", "piping", "buffering"} => q.got + q.left = Chunks

\* The same for a template that uses the body (RESPONSE.md: "the request's JSON body, read
\* only when referenced"; delayMs only moves the response).
TemplateBodyWhole ==
  \A r \in Requests : LET q == req[r] IN q.phase = "mockBody" => q.got + q.left = Chunks

\* A response that was begun is never left open by its dispatcher: it is ended, or destroyed
\* so that the client sees the truncation (comment of forwardToBackend).
TruncationVisible ==
  \A r \in Requests : req[r].phase = "done" => req[r].out \notin {"none", "started"}

\* The two ways a request is known not to end: see TemplateBodyWhole and TruncationVisible.
KnownStuck(q) ==
  \/ q.phase = "mockBody" /\ q.got + q.left < Chunks
  \/ q.phase = "done" /\ q.out = "started"

\* Every request comes to an end, with an answer, a visible truncation or its client gone,
\* even when its script or its middleware never settles and its backend never answers (the
\* timeouts of runWithTimeout and of forwardToBackend); not a stream or a tunnel.
EverySettles ==
  \A r \in Requests :
    (req[r].phase # "new") ~>
      \/ req[r].out \in {"finished", "over", "broken", "gone"} \/ KnownStuck(req[r])
      \/ req[r].mode = "sse" \/ req[r].phase \in {"streaming", "tunnel"}
==============================================================================

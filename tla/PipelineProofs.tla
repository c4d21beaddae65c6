---------------------------- MODULE PipelineProofs ----------------------------
(***************************************************************************)
(* Proofs about RequestPipeline, for any number of requests, any routes,   *)
(* configurations and lengths of bodies, and any changes meanwhile, about  *)
(* the pages of the monitor that records them and the live list that its   *)
(* stream feeds (Monitoring), for any sizes of the buffer and of a page,   *)
(* and about the pages of a mocked list (ListQuery), for any elements,     *)
(* filters and size.                                                       *)
(***************************************************************************)
EXTENDS RequestPipeline, Monitoring, ListQuery, FiniteSetTheorems, WellFoundedInduction, TLAPS

-------------------------------------------------------------------------------
(* The invariant of a request.                                             *)

Phases ==
  {"new", "mockDelay", "proxyDelay", "mockBody", "handlerBody", "handler", "file", "sending",
   "upstream", "piping", "buffering", "bypassing", "transform", "streaming", "handshake",
   "refusal", "tunnel", "done"}
Outs == {"none", "started", "ended", "finished", "over", "broken", "gone"}
Sources ==
  {"none", "mock", "handler", "sse", "ws", "mock-only", "cors-preflight", "backend",
   "backend-unconfigured", "middleware"}

\* The phases of a request that has been sent nothing yet.
Unanswered ==
  {"new", "mockDelay", "proxyDelay", "mockBody", "handlerBody", "handler", "file", "upstream",
   "buffering", "handshake", "refusal"}

\* Those of a request that goes, or has gone, to a backend.
Outbound ==
  {"proxyDelay", "upstream", "piping", "buffering", "bypassing", "transform", "handshake",
   "refusal", "tunnel"}

\* Those that need no mock.
Plain == {"new", "done", "proxyDelay", "upstream", "piping", "handshake", "refusal", "tunnel"}

\* The types of the fields.
WellFormed(q) ==
  /\ DOMAIN q = {"phase", "out", "mode", "source", "monitored", "cfg", "transforms", "transform",
                 "to", "needsBody", "file", "flow", "left", "reading", "got", "complete", "answers",
                 "records", "finalized", "entry"}
  /\ q.phase \in Phases /\ q.out \in Outs /\ q.source \in Sources
  /\ q.left \in Nat /\ q.got \in Nat /\ q.answers \in Nat /\ q.records \in Nat
  /\ q.finalized \in BOOLEAN /\ q.monitored \in BOOLEAN /\ q.transforms \in BOOLEAN
  /\ q.flow \in BOOLEAN /\ q.reading \in BOOLEAN /\ q.complete \in BOOLEAN

\* Its response was handed over, or its SSE was left.
Recorded(q) == q.out \in {"finished", "over"} \/ (q.out = "gone" /\ q.mode = "sse")

\* The answers and the entries of the monitor.
AnswersInv(q) ==
  /\ q.answers <= 1
  /\ q.phase \in Unanswered => q.answers = 0
  /\ q.out \in {"started", "ended", "finished", "over"} => q.answers = 1
  /\ q.out \in {"ended", "finished", "over"} => q.phase \in {"done", "transform"}
  /\ q.mode = "sse" => q.phase \in {"streaming", "done"}
  /\ q.phase = "streaming" => q.out = "started"
  /\ q.finalized <=> Recorded(q)
  /\ q.records = IF Recorded(q) /\ q.monitored /\ q.source # "cors-preflight" THEN 1 ELSE 0

\* The body.
BodyInv(q) ==
  /\ q.complete => q.left = 0
  /\ q.phase \in {"new", "proxyDelay"} => q.got = 0 /\ q.left = Chunks /\ ~q.complete
  /\ q.phase = "proxyDelay" => ~q.flow
  /\ q.phase = "handler" => q.got = Chunks /\ q.left = 0
  /\ q.phase \in {"handlerBody", "upstream", "piping", "buffering"} =>
       q.reading /\ q.got + q.left = Chunks

\* The mocks were in use at its entry.
Mocked(q) == q.entry.switches.enabled /\ ~q.entry.switches.proxyAll

\* What was read at the entry explains the rest.
Explained(q) ==
  /\ q.entry \in [cfg : Configs, switches : Switches] /\ q.cfg = q.entry.cfg
  /\ q.monitored => q.entry.switches.enabled
  /\ q.to \in {NoBackend, q.cfg.backend}
  /\ ~Mocked(q) => /\ q.phase \in Plain /\ ~q.transforms /\ q.transform = NoTransform
                   /\ q.source \in {"none", "backend", "backend-unconfigured"}
  /\ Mocked(q) /\ ~q.cfg.fallback => q.to = NoBackend /\ q.phase \notin Outbound

\* It has not arrived yet.
Blank(q) ==
  /\ q.out = "none" /\ q.mode = "proxy" /\ q.source = "none"
  /\ q.to = NoBackend /\ q.transform = NoTransform /\ ~q.transforms

EntryInv(q) == IF q.phase = "new" THEN Blank(q) ELSE Explained(q)

\* The dispatcher has it, and has not decided.
Arrived(q) ==
  /\ WellFormed(q) /\ AnswersInv(q) /\ BodyInv(q) /\ Explained(q)
  /\ q.phase = "new" /\ q.out = "none" /\ q.source = "none" /\ q.to = NoBackend
  /\ q.transform = NoTransform

RequestInv(q) == WellFormed(q) /\ AnswersInv(q) /\ BodyInv(q) /\ EntryInv(q)

-------------------------------------------------------------------------------
(* The ways to answer.                                                     *)

\* A request that was sent nothing is answered as a whole.
LEMMA AnsweredKeeps ==
  ASSUME NEW q, WellFormed(q), AnswersInv(q), BodyInv(q), Explained(q), q.answers = 0,
         q.mode # "sse", NEW s \in Sources,
         ~Mocked(q) => s \in {"backend", "backend-unconfigured"}
  PROVE  RequestInv(Answered(q, s))
<1>1. WellFormed(Answered(q, s))
      BY DEF Answered, WellFormed, Phases, Outs
<1>2. AnswersInv(Answered(q, s))
      BY DEF Answered, AnswersInv, WellFormed, Recorded, Unanswered, Outs
<1>3. BodyInv(Answered(q, s))
      BY DEF Answered, BodyInv, WellFormed
<1>4. EntryInv(Answered(q, s))
      BY DEF Answered, EntryInv, Explained, Mocked, WellFormed, Plain, Outbound
<1> QED
    BY <1>1, <1>2, <1>3, <1>4 DEF RequestInv

\* Its headers leave, and phase p goes on with the body.
LEMMA StartedKeeps ==
  ASSUME NEW q, WellFormed(q), AnswersInv(q), BodyInv(q), Explained(q), q.answers = 0,
         q.mode # "sse", NEW s \in Sources, NEW p \in Phases \ (Unanswered \cup {"done"}),
         ~Mocked(q) => s = "backend" /\ p \in Plain,
         p \in Outbound => q.phase \in Outbound,
         p = "piping" => q.phase = "upstream",
         p = "streaming" => q.out = "none"
  PROVE  RequestInv(Started(q, s, p))
<1>1. WellFormed(Started(q, s, p))
      BY DEF Started, WellFormed, Outs
<1>2. AnswersInv(Started(q, s, p))
      BY DEF Started, AnswersInv, WellFormed, Recorded, Outs
<1>3. BodyInv(Started(q, s, p))
      BY DEF Started, BodyInv, WellFormed, Unanswered
<1>4. EntryInv(Started(q, s, p))
      BY DEF Started, EntryInv, Explained, Mocked, WellFormed, Unanswered
<1> QED
    BY <1>1, <1>2, <1>3, <1>4 DEF RequestInv

\* The dispatcher has nothing more to do; a response that was begun may be ended, or destroyed.
LEMMA OverKeeps ==
  ASSUME NEW q, RequestInv(q), q.phase # "new", NEW end \in {"started", "ended", "broken"}
  PROVE  RequestInv([q EXCEPT !.phase = "done", !.out = IF @ = "started" THEN end ELSE @])
<1> DEFINE d == [q EXCEPT !.phase = "done", !.out = IF @ = "started" THEN end ELSE @]
<1>1. WellFormed(d)
      BY DEF RequestInv, WellFormed, Phases, Outs
<1>2. AnswersInv(d)
      BY DEF RequestInv, AnswersInv, WellFormed, Recorded, Unanswered
<1>3. BodyInv(d) /\ EntryInv(d)
      BY DEF RequestInv, BodyInv, WellFormed, EntryInv, Explained, Mocked, Plain, Outbound
<1> QED
    BY <1>1, <1>2, <1>3 DEF RequestInv

LEMMA FailedKeeps ==
  ASSUME NEW q, RequestInv(q), q.phase # "new", q.mode # "sse"
  PROVE  RequestInv(Failed(q))
<1>1. CASE ~HeadersSent(q) /\ ~Gone(q)
  <2>1. Failed(q) = Answered(q, "backend")
        BY <1>1 DEF Failed
  <2>2. q.answers = 0 /\ Explained(q)
        BY <1>1 DEF RequestInv, WellFormed, HeadersSent, EntryInv
  <2> QED
      BY <2>1, <2>2, AnsweredKeeps DEF RequestInv, Sources
<1>2. CASE ~(~HeadersSent(q) /\ ~Gone(q))
      BY <1>2, OverKeeps DEF Failed
<1> QED
    BY <1>1, <1>2

-------------------------------------------------------------------------------
(* The turn of the entry.                                                  *)

LEMMA EnteredArrives ==
  ASSUME config \in Configs, switches \in Switches, NEW r \in Requests,
         RequestInv(req[r]), req[r].phase = "new"
  PROVE  /\ Arrived(Entered(r)) /\ Entered(r).mode = "proxy" /\ ~Entered(r).transforms
         /\ Entered(r).flow = Entered(r).monitored
         /\ Mocked(Entered(r)) <=> UsesMocks
<1> DEFINE q == req[r]
           e == Entered(r)
           n == [cfg |-> config, switches |-> switches]
<1>1. /\ WellFormed(q) /\ AnswersInv(q) /\ BodyInv(q) /\ Blank(q) /\ q.phase = "new"
      /\ e = [q EXCEPT !.cfg = config, !.monitored = IsMonitoring, !.flow = IsMonitoring, !.entry = n]
      BY DEF RequestInv, EntryInv, Entered
<1>2. /\ n \in [cfg : Configs, switches : Switches] /\ n.cfg = config /\ n.switches = switches
      /\ IsMonitoring \in BOOLEAN /\ IsMonitoring = switches.enabled
      BY DEF IsMonitoring, Switches
<1> HIDE DEF q, e, n
<1>3. /\ DOMAIN e = DOMAIN q /\ e.cfg = config /\ e.monitored = switches.enabled /\ e.monitored \in BOOLEAN
      /\ e.flow = e.monitored /\ e.entry = n
      /\ e.phase = "new" /\ e.out = "none" /\ e.mode = "proxy" /\ e.source = "none"
      /\ e.transforms = q.transforms /\ e.transform = q.transform /\ e.to = q.to
      /\ e.left = q.left /\ e.reading = q.reading /\ e.got = q.got /\ e.complete = q.complete
      /\ e.answers = q.answers /\ e.records = q.records /\ e.finalized = q.finalized
      BY <1>1, <1>2 DEF WellFormed, Blank
<1>4. WellFormed(e) /\ ~e.transforms /\ e.to = NoBackend /\ e.transform = NoTransform
      BY <1>1, <1>3 DEF WellFormed, Blank
<1>5. AnswersInv(e)
      BY <1>1, <1>3 DEF AnswersInv, Recorded, Unanswered, Blank
<1>6. BodyInv(e)
      BY <1>1, <1>3 DEF BodyInv
<1>7. Explained(e) /\ (Mocked(e) <=> UsesMocks)
      BY <1>2, <1>3, <1>4 DEF Explained, Mocked, UsesMocks, Plain, Outbound
<1>8. Arrived(e) /\ e.mode = "proxy" /\ e.flow = e.monitored
      BY <1>3, <1>4, <1>5, <1>6, <1>7 DEF Arrived
<1> QED
    BY <1>4, <1>7, <1>8 DEF e

LEMMA ForwardedKeeps ==
  ASSUME NEW q, WellFormed(q), AnswersInv(q), BodyInv(q), Explained(q), q.answers = 0,
         q.mode # "sse", q.phase \in {"new", "proxyDelay"}, q.transforms => Mocked(q),
         Mocked(q) => q.cfg.fallback
  PROVE  RequestInv(Forwarded(q))
<1>1. WellFormed(Forwarded(q))
      BY DEF Forwarded, Reading, WellFormed, Phases
<1>2. AnswersInv(Forwarded(q))
      BY DEF Forwarded, Reading, AnswersInv, WellFormed, Recorded, Unanswered
<1>3. BodyInv(Forwarded(q))
      BY PipelineAssumption DEF Forwarded, Reading, BodyInv, WellFormed
<1>4. EntryInv(Forwarded(q))
      BY DEF Forwarded, Reading, EntryInv, Explained, Mocked, WellFormed, Plain, Outbound
<1> QED
    BY <1>1, <1>2, <1>3, <1>4 DEF RequestInv

\* What a request takes from the decision of the registry.
LEMMA NamedArrived ==
  ASSUME NEW q, Arrived(q), Mocked(q), route.mode # "sse",
         NEW d, d = [q EXCEPT !.mode = route.mode, !.needsBody = route.needsBody,
                              !.file = route.file, !.transforms = TRUE]
  PROVE  /\ Arrived(d) /\ d.mode = route.mode /\ d.answers = 0 /\ d.transforms
         /\ d.cfg = q.cfg /\ Mocked(d)
<1>1. WellFormed(q) /\ AnswersInv(q) /\ BodyInv(q) /\ Explained(q) /\ q.phase = "new"
      BY DEF Arrived
<1>2. WellFormed(d) /\ d.mode = route.mode /\ d.transforms /\ d.cfg = q.cfg
      BY <1>1 DEF WellFormed
<1>3. AnswersInv(d)
      BY <1>1 DEF AnswersInv, WellFormed, Recorded, Unanswered, Arrived
<1>4. BodyInv(d)
      BY <1>1 DEF BodyInv, WellFormed
<1>5. Explained(d) /\ Mocked(d)
      BY <1>1 DEF Explained, WellFormed, Mocked
<1>6. d.phase = "new" /\ d.out = "none" /\ d.source = "none" /\ d.to = NoBackend /\ d.transform = NoTransform
      BY <1>1 DEF Arrived, WellFormed
<1>7. d.answers = 0
      BY <1>3, <1>6 DEF AnswersInv, Unanswered
<1> QED
    BY <1>2, <1>3, <1>4, <1>5, <1>6, <1>7 DEF Arrived

LEMMA ToBackendKeeps ==
  ASSUME NEW q, Arrived(q), q.mode # "sse", q.transforms => Mocked(q), Mocked(q) => q.cfg.fallback
  PROVE  RequestInv(ToBackend(q))
<1>1. /\ WellFormed(q) /\ AnswersInv(q) /\ BodyInv(q) /\ Explained(q) /\ q.phase = "new"
      /\ q.answers = 0
      BY DEF Arrived, AnswersInv, Unanswered
<1>2. CASE q.cfg.backend = NoBackend
  <2> DEFINE d == [q EXCEPT !.mode = "backend-unconfigured"]
  <2>1. /\ WellFormed(d) /\ d.mode = "backend-unconfigured" /\ d.answers = 0
        BY <1>1 DEF WellFormed
  <2>2. AnswersInv(d) /\ BodyInv(d)
        BY <1>1 DEF AnswersInv, BodyInv, WellFormed, Recorded, Arrived, Unanswered
  <2>3. Explained(d)
        BY <1>1 DEF Explained, WellFormed, Mocked
  <2>4. ToBackend(q) = Answered(d, "backend-unconfigured")
        BY <1>2 DEF ToBackend
  <2> HIDE DEF d
  <2> QED
      BY <2>1, <2>2, <2>3, <2>4, AnsweredKeeps DEF Sources
<1>3. CASE q.cfg.backend # NoBackend /\ q.cfg.delay /\ q.cfg.delayAll
  <2> DEFINE d == Waiting(q, "proxyDelay")
  <2>1. WellFormed(d) /\ AnswersInv(d) /\ BodyInv(d)
        BY <1>1 DEF Waiting, WellFormed, AnswersInv, BodyInv, Recorded, Unanswered, Phases
  <2>2. EntryInv(d)
        BY <1>1 DEF Waiting, WellFormed, EntryInv, Explained, Mocked, Plain, Arrived
  <2>3. ToBackend(q) = d
        BY <1>3 DEF ToBackend
  <2> QED
      BY <2>1, <2>2, <2>3 DEF RequestInv
<1>4. CASE q.cfg.backend # NoBackend /\ ~(q.cfg.delay /\ q.cfg.delayAll)
      BY <1>1, <1>4, ForwardedKeeps DEF ToBackend
<1> QED
    BY <1>2, <1>3, <1>4

LEMMA MockRenderedKeeps ==
  ASSUME NEW q, WellFormed(q), AnswersInv(q), BodyInv(q), Explained(q), Mocked(q),
         q.mode # "sse", q.phase \in {"new", "mockDelay"}
  PROVE  RequestInv(MockRendered(q))
<1>1. q.answers = 0
      BY DEF AnswersInv, Unanswered
<1>2. CASE q.needsBody
  <2> DEFINE d == Reading(q, "mockBody")
  <2>1. WellFormed(d) /\ AnswersInv(d) /\ BodyInv(d)
        BY <1>1 DEF Reading, WellFormed, AnswersInv, BodyInv, Recorded, Unanswered, Phases
  <2>2. EntryInv(d)
        BY DEF Reading, WellFormed, EntryInv, Explained, Mocked, Outbound
  <2> QED
      BY <1>2, <2>1, <2>2 DEF MockRendered, RequestInv
<1>3. CASE ~q.needsBody /\ q.file
  <2> DEFINE d == [q EXCEPT !.phase = "file"]
  <2>1. WellFormed(d) /\ AnswersInv(d) /\ BodyInv(d)
        BY <1>1 DEF WellFormed, AnswersInv, BodyInv, Recorded, Unanswered, Phases
  <2>2. EntryInv(d)
        BY DEF WellFormed, EntryInv, Explained, Mocked, Outbound
  <2> QED
      BY <1>3, <2>1, <2>2 DEF MockRendered, RequestInv
<1>4. CASE ~q.needsBody /\ ~q.file
      BY <1>1, <1>4, AnsweredKeeps DEF MockRendered, Sources
<1> QED
    BY <1>2, <1>3, <1>4

LEMMA DecidedKeeps ==
  ASSUME NEW q, Arrived(q), q.mode = "proxy", ~q.transforms, Mocked(q), route \in Routes,
         NEW preflight \in BOOLEAN
  PROVE  RequestInv(Decided(q, preflight))
<1> DEFINE named == [q EXCEPT !.mode = route.mode, !.needsBody = route.needsBody,
                              !.file = route.file, !.transforms = TRUE]
           Refused(m) == [q EXCEPT !.mode = m]
<1>1. route.mode \in {"mock", "handler", "sse", "ws", "none"}
      BY PipelineAssumption
<1>2. /\ WellFormed(q) /\ AnswersInv(q) /\ BodyInv(q) /\ Explained(q) /\ q.answers = 0
      /\ q.phase = "new" /\ q.out = "none"
      BY DEF Arrived, AnswersInv, Unanswered
<1>3. ASSUME NEW m, m # "sse", NEW s \in Sources
      PROVE  RequestInv(Answered(Refused(m), s))
  <2> DEFINE d == Refused(m)
  <2>1. WellFormed(d) /\ d.mode = m /\ d.answers = 0
        BY <1>2 DEF WellFormed
  <2>2. AnswersInv(d) /\ BodyInv(d)
        BY <1>2, <1>3 DEF AnswersInv, BodyInv, WellFormed, Recorded, Unanswered
  <2>3. Explained(d) /\ Mocked(d)
        BY <1>2 DEF Explained, WellFormed, Mocked
  <2> HIDE DEF d
  <2>4. RequestInv(Answered(d, s))
        BY <1>3, <2>1, <2>2, <2>3, AnsweredKeeps
  <2> QED
      BY <2>4 DEF d
<1>4. route.mode # "sse" =>
        /\ Arrived(named) /\ named.mode = route.mode /\ named.answers = 0 /\ named.transforms
        /\ named.cfg = q.cfg /\ Mocked(named)
  <2> DEFINE d == named
  <2>1. d = [q EXCEPT !.mode = route.mode, !.needsBody = route.needsBody, !.file = route.file,
                      !.transforms = TRUE]
        OBVIOUS
  <2> HIDE DEF d
  <2>2. route.mode # "sse" =>
          /\ Arrived(d) /\ d.mode = route.mode /\ d.answers = 0 /\ d.transforms
          /\ d.cfg = q.cfg /\ Mocked(d)
        BY <2>1, NamedArrived
  <2> QED
      BY <2>2 DEF d
<1>5. CASE q.cfg.cors /\ preflight /\ route.mode \notin {"mock", "handler"}
  <2>1. Decided(q, preflight) = Answered(Refused("cors-preflight"), "cors-preflight")
        BY <1>5 DEF Decided
  <2> QED
      BY <1>3, <2>1 DEF Sources
<1>6. CASE route.mode = "mock"
  <2> DEFINE d == [named EXCEPT !.phase = "mockDelay"]
  <2>1. CASE route.ownDelay \/ q.cfg.delay
    <3>1. Decided(q, preflight) = d
          BY <1>6, <2>1 DEF Decided
    <3>2. /\ WellFormed(named) /\ AnswersInv(named) /\ BodyInv(named) /\ Explained(named) /\ Mocked(named)
          /\ named.out = "none" /\ named.mode = "mock" /\ named.answers = 0
          BY <1>4, <1>6 DEF Arrived
    <3> HIDE DEF named
    <3>3. WellFormed(d) /\ AnswersInv(d) /\ BodyInv(d)
          BY <3>2 DEF WellFormed, AnswersInv, BodyInv, Recorded, Unanswered, Phases
    <3>4. EntryInv(d)
          BY <3>2 DEF WellFormed, EntryInv, Explained, Mocked, Outbound
    <3> QED
        BY <3>1, <3>3, <3>4 DEF RequestInv
  <2>2. CASE ~(route.ownDelay \/ q.cfg.delay)
    <3>1. Decided(q, preflight) = MockRendered(named)
          BY <1>6, <2>2 DEF Decided
    <3>2. /\ WellFormed(named) /\ AnswersInv(named) /\ BodyInv(named) /\ Explained(named) /\ Mocked(named)
          /\ named.phase = "new" /\ named.mode # "sse"
          BY <1>4, <1>6 DEF Arrived
    <3> HIDE DEF named
    <3> QED
        BY <3>1, <3>2, MockRenderedKeeps
  <2> QED
      BY <2>1, <2>2
<1>7. CASE route.mode = "handler"
  <2> DEFINE d == Reading(named, "handlerBody")
  <2>1. Decided(q, preflight) = d
        BY <1>7 DEF Decided
  <2>2. /\ WellFormed(named) /\ AnswersInv(named) /\ BodyInv(named) /\ Explained(named) /\ Mocked(named)
        /\ named.out = "none" /\ named.mode = "handler" /\ named.phase = "new" /\ named.answers = 0
        BY <1>4, <1>7 DEF Arrived
  <2> HIDE DEF named
  <2>3. WellFormed(d) /\ AnswersInv(d) /\ BodyInv(d)
        BY <2>2, PipelineAssumption
        DEF Reading, WellFormed, AnswersInv, BodyInv, Recorded, Unanswered, Phases
  <2>4. EntryInv(d)
        BY <2>2 DEF Reading, WellFormed, EntryInv, Explained, Mocked, Outbound
  <2> QED
      BY <2>1, <2>3, <2>4 DEF RequestInv
<1>8. CASE route.mode = "sse" /\ ~(q.cfg.cors /\ preflight)
  <2> DEFINE d == Started(named, "sse", "streaming")
  <2>1. Decided(q, preflight) = d
        BY <1>8 DEF Decided
  <2>2. /\ DOMAIN named = DOMAIN q /\ named.mode = "sse" /\ named.phase = "new" /\ named.out = "none"
        /\ named.cfg = q.cfg /\ named.entry = q.entry /\ named.monitored = q.monitored
        /\ named.transform = q.transform /\ named.to = q.to /\ named.transforms \in BOOLEAN
        /\ named.answers = q.answers /\ named.records = q.records /\ named.finalized = q.finalized
        /\ named.flow = q.flow /\ named.left = q.left /\ named.got = q.got
        /\ named.reading = q.reading /\ named.complete = q.complete /\ named.source = q.source
        BY <1>2, <1>8 DEF WellFormed
  <2> HIDE DEF named
  <2>3. WellFormed(d) /\ d.mode = "sse" /\ d.phase = "streaming" /\ d.out = "started"
        BY <1>2, <2>2 DEF Started, WellFormed, Phases, Outs, Sources
  <2>4. AnswersInv(d)
        BY <1>2, <2>2 DEF Started, WellFormed, AnswersInv, Recorded, Unanswered
  <2>5. BodyInv(d)
        BY <1>2, <2>2 DEF Started, WellFormed, BodyInv
  <2>6. EntryInv(d)
        BY <1>2, <2>2 DEF Started, WellFormed, EntryInv, Explained, Mocked, Outbound
  <2> QED
      BY <2>1, <2>3, <2>4, <2>5, <2>6 DEF RequestInv
<1>9. CASE route.mode = "ws" /\ ~(q.cfg.cors /\ preflight)
  <2> DEFINE d == [named EXCEPT !.mode = "ws-upgrade-required"]
  <2>1. Decided(q, preflight) = Answered(d, "ws")
        BY <1>9 DEF Decided
  <2>2. /\ WellFormed(named) /\ AnswersInv(named) /\ BodyInv(named) /\ Explained(named) /\ Mocked(named)
        /\ named.out = "none" /\ named.answers = 0 /\ named.phase = "new"
        BY <1>4, <1>9 DEF Arrived
  <2> HIDE DEF named
  <2>3. WellFormed(d) /\ d.mode = "ws-upgrade-required" /\ d.answers = 0
        BY <2>2 DEF WellFormed
  <2>4. AnswersInv(d) /\ BodyInv(d)
        BY <2>2 DEF AnswersInv, BodyInv, WellFormed, Recorded, Unanswered
  <2>5. Explained(d) /\ Mocked(d)
        BY <2>2 DEF Explained, WellFormed, Mocked
  <2> HIDE DEF d
  <2> QED
      BY <2>1, <2>3, <2>4, <2>5, AnsweredKeeps DEF Sources
<1>10. CASE route.mode = "none" /\ ~(q.cfg.cors /\ preflight)
  <2>1. CASE ~q.cfg.fallback
        BY <1>3, <1>10, <2>1 DEF Decided, Sources
  <2>2. CASE q.cfg.fallback
    <3> DEFINE d == [q EXCEPT !.transforms = TRUE]
    <3>1. Decided(q, preflight) = ToBackend(d)
          BY <1>10, <2>2 DEF Decided
    <3>2. WellFormed(d) /\ d.transforms /\ d.mode = "proxy" /\ d.cfg.fallback
          BY <1>2, <2>2 DEF WellFormed
    <3>3. AnswersInv(d) /\ BodyInv(d)
          BY <1>2 DEF AnswersInv, BodyInv, WellFormed, Recorded, Unanswered
    <3>4. Explained(d) /\ Mocked(d)
          BY <1>2 DEF Explained, WellFormed, Mocked
    <3>5. /\ d.phase = "new" /\ d.out = "none" /\ d.source = "none" /\ d.to = NoBackend
          /\ d.transform = NoTransform
          BY DEF Arrived, WellFormed
    <3> HIDE DEF d
    <3> QED
        BY <3>1, <3>2, <3>3, <3>4, <3>5, ToBackendKeeps DEF Arrived
  <2> QED
      BY <2>1, <2>2
<1> QED
    BY <1>1, <1>5, <1>6, <1>7, <1>8, <1>9, <1>10

-------------------------------------------------------------------------------
(* The other steps of a request, each as what it makes of its record.      *)

LEMMA BodyFlowsKeeps ==
  ASSUME NEW q, RequestInv(q), q.phase # "new", q.flow, q.left > 0
  PROVE  RequestInv([q EXCEPT !.left = @ - 1, !.got = IF q.reading THEN @ + 1 ELSE @,
                              !.complete = q.reading /\ q.left = 1])
<1> DEFINE d == [q EXCEPT !.left = @ - 1, !.got = IF q.reading THEN @ + 1 ELSE @,
                          !.complete = q.reading /\ q.left = 1]
<1>1. WellFormed(d)
  <2>1. q.left - 1 \in Nat /\ q.got + 1 \in Nat /\ (q.reading /\ q.left = 1) \in BOOLEAN
        BY DEF RequestInv, WellFormed
  <2> QED
      BY <2>1 DEF RequestInv, WellFormed
<1>2. AnswersInv(d)
      BY DEF RequestInv, WellFormed, AnswersInv, Recorded
<1>3. BodyInv(d)
      BY DEF RequestInv, WellFormed, BodyInv
<1>4. EntryInv(d)
      BY DEF RequestInv, WellFormed, EntryInv, Explained, Mocked
<1> QED
    BY <1>1, <1>2, <1>3, <1>4 DEF RequestInv

\* A phase that neither sends nor reads, in the middle of the same branch.
LEMMA PassesKeeps ==
  ASSUME NEW q, RequestInv(q), q.phase # "new", NEW p \in {"handler", "buffering", "transform", "refusal"},
         p = "handler" => q.phase = "handlerBody" /\ q.complete,
         p = "buffering" => q.phase = "upstream" /\ q.transform # NoTransform,
         p = "transform" => q.phase = "buffering",
         p = "refusal" => q.phase = "handshake"
  PROVE  RequestInv([q EXCEPT !.phase = p])
<1> DEFINE d == [q EXCEPT !.phase = p]
<1>1. WellFormed(d) /\ AnswersInv(d)
      BY DEF RequestInv, WellFormed, AnswersInv, Recorded, Unanswered, Phases
<1>2. BodyInv(d)
      BY DEF RequestInv, WellFormed, BodyInv
<1>3. EntryInv(d)
      BY DEF RequestInv, WellFormed, EntryInv, Explained, Mocked, Plain, Outbound
<1> QED
    BY <1>1, <1>2, <1>3 DEF RequestInv

\* The client leaves.
LEMMA LeavesKeeps ==
  ASSUME NEW q, RequestInv(q), q.phase # "new", q.out \in {"none", "started", "ended"},
         NEW p \in {q.phase, "done"}, q.phase = "streaming" => p = "done"
  PROVE  LET left == [q EXCEPT !.out = "gone", !.phase = p] IN
         RequestInv(IF q.mode = "sse" THEN Finalized(left) ELSE left)
<1> DEFINE left == [q EXCEPT !.out = "gone", !.phase = p]
<1>1. /\ DOMAIN left = DOMAIN q /\ left.out = "gone" /\ left.phase = p /\ p \in Phases
      /\ left.mode = q.mode /\ left.source = q.source /\ left.monitored = q.monitored
      /\ left.cfg = q.cfg /\ left.transforms = q.transforms /\ left.transform = q.transform
      /\ left.to = q.to /\ left.flow = q.flow /\ left.left = q.left /\ left.reading = q.reading
      /\ left.got = q.got /\ left.complete = q.complete /\ left.answers = q.answers
      /\ left.records = q.records /\ left.finalized = q.finalized /\ left.entry = q.entry
      BY DEF RequestInv, WellFormed, Phases
<1>2. q.records = 0 /\ ~q.finalized
      BY DEF RequestInv, WellFormed, AnswersInv, Recorded
<1> HIDE DEF left
<1>3. WellFormed(left) /\ BodyInv(left) /\ EntryInv(left)
      BY <1>1 DEF RequestInv, WellFormed, BodyInv, EntryInv, Explained, Mocked, Plain, Outbound, Outs
<1>4. CASE q.mode # "sse"
  <2>1. AnswersInv(left)
        BY <1>1, <1>2, <1>4 DEF RequestInv, AnswersInv, Recorded, Unanswered, WellFormed
  <2> QED
      BY <1>3, <1>4, <2>1 DEF RequestInv, left
<1>5. CASE q.mode = "sse"
  <2> DEFINE d == Finalized(left)
             n == IF left.monitored /\ left.source # "cors-preflight" THEN left.records + 1 ELSE left.records
  <2>1. d = [left EXCEPT !.finalized = TRUE, !.records = n]
        BY <1>1, <1>2 DEF Finalized
  <2>2. n \in Nat /\ n = IF q.monitored /\ q.source # "cors-preflight" THEN 1 ELSE 0
        BY <1>1, <1>2
  <2> HIDE DEF d, n
  <2>3. WellFormed(d)
        BY <1>3, <2>1, <2>2 DEF WellFormed
  <2>4. AnswersInv(d)
        BY <1>1, <1>2, <1>3, <1>5, <2>1, <2>2 DEF RequestInv, AnswersInv, Recorded, Unanswered, WellFormed
  <2>5. BodyInv(d) /\ EntryInv(d)
        BY <1>3, <2>1 DEF WellFormed, BodyInv, EntryInv, Explained, Blank, Mocked
  <2> QED
      BY <1>5, <2>3, <2>4, <2>5 DEF RequestInv, left, d
<1> QED
    BY <1>4, <1>5

\* 'finish', and the 'close' that follows.
LEMMA FinishKeeps ==
  ASSUME NEW q, RequestInv(q), q.out \in {"ended", "finished"}, NEW out \in {"finished", "over"},
         q.out = "ended" => out = "finished"
  PROVE  RequestInv([Finalized(q) EXCEPT !.out = out])
<1> DEFINE n == IF ~q.finalized /\ q.monitored /\ q.source # "cors-preflight" THEN q.records + 1 ELSE q.records
           d == [Finalized(q) EXCEPT !.out = out]
<1>1. q.phase \in {"done", "transform"} /\ q.answers = 1 /\ q.finalized \in BOOLEAN /\ q.records \in Nat
      BY DEF RequestInv, AnswersInv, WellFormed
<1>2. n \in Nat /\ n = IF q.monitored /\ q.source # "cors-preflight" THEN 1 ELSE 0
      BY DEF RequestInv, AnswersInv, WellFormed, Recorded
<1>3. /\ DOMAIN d = DOMAIN q /\ d.out = out /\ d.phase = q.phase /\ d.finalized /\ d.records = n
      /\ d.finalized \in BOOLEAN
      /\ d.mode = q.mode /\ d.source = q.source /\ d.monitored = q.monitored
      /\ d.cfg = q.cfg /\ d.transforms = q.transforms /\ d.transform = q.transform
      /\ d.to = q.to /\ d.flow = q.flow /\ d.left = q.left /\ d.reading = q.reading
      /\ d.got = q.got /\ d.complete = q.complete /\ d.answers = q.answers /\ d.entry = q.entry
      BY <1>1 DEF Finalized, RequestInv, WellFormed
<1> HIDE DEF d, n
<1>4. WellFormed(d)
      BY <1>2, <1>3 DEF RequestInv, WellFormed, Outs
<1>5. AnswersInv(d)
      BY <1>1, <1>2, <1>3 DEF RequestInv, AnswersInv, Recorded, Unanswered
<1>6. BodyInv(d) /\ EntryInv(d)
      BY <1>1, <1>3 DEF RequestInv, BodyInv, EntryInv, Explained, Mocked
<1> QED
    BY <1>4, <1>5, <1>6 DEF RequestInv, d

LEMMA DispatchKeeps ==
  ASSUME config \in Configs, switches \in Switches, route \in Routes, NEW r \in Requests,
         RequestInv(req[r]), req[r].phase = "new", NEW preflight \in BOOLEAN
  PROVE  /\ UsesMocks => RequestInv(Decided(Entered(r), preflight))
         /\ ~UsesMocks => RequestInv(ToBackend(Entered(r)))
<1> DEFINE e == Entered(r)
<1>1. /\ Arrived(e) /\ e.mode = "proxy" /\ ~e.transforms /\ (Mocked(e) <=> UsesMocks)
      BY EnteredArrives
<1> HIDE DEF e
<1>2. /\ UsesMocks => RequestInv(Decided(e, preflight))
      /\ ~UsesMocks => RequestInv(ToBackend(e))
      BY <1>1, DecidedKeeps, ToBackendKeeps
<1> QED
    BY <1>2 DEF e

LEMMA UpgradeKeeps ==
  ASSUME config \in Configs, switches \in Switches, NEW r \in Requests,
         RequestInv(req[r]), Upgrade(r)
  PROVE  \E q : RequestInv(q) /\ Goes(r, q)
<1> DEFINE e == Entered(r)
           u == [e EXCEPT !.mode = "upgrade", !.monitored = FALSE, !.flow = FALSE]
           h == [u EXCEPT !.phase = "handshake", !.to = u.cfg.backend]
<1>1. Arrived(e) /\ (Mocked(e) <=> UsesMocks)
      BY EnteredArrives DEF Upgrade
<1>2. Goes(r, IF UsesMocks /\ route.mode = "ws" THEN Started(u, "ws", "streaming")
              ELSE IF u.cfg.backend = NoBackend THEN Answered(u, "backend-unconfigured")
              ELSE IF UsesMocks /\ ~u.cfg.fallback THEN Answered(u, "mock-only")
              ELSE h)
      BY DEF Upgrade
<1> HIDE DEF e
<1>3. /\ WellFormed(u) /\ u.mode = "upgrade" /\ u.out = "none" /\ u.phase = "new"
      BY <1>1 DEF Arrived, WellFormed
<1>4. AnswersInv(u) /\ BodyInv(u) /\ u.answers = 0
      BY <1>1 DEF Arrived, WellFormed, AnswersInv, BodyInv, Recorded, Unanswered
<1>5. Explained(u) /\ (Mocked(u) <=> UsesMocks) /\ u.to = NoBackend
      BY <1>1 DEF Arrived, WellFormed, Explained, Mocked
<1> HIDE DEF u
<1>6. UsesMocks => RequestInv(Started(u, "ws", "streaming"))
      BY <1>3, <1>4, <1>5, StartedKeeps DEF Sources, Phases, Unanswered, Outbound
<1>7. RequestInv(Answered(u, "backend-unconfigured"))
      BY <1>3, <1>4, <1>5, AnsweredKeeps DEF Sources
<1>8. UsesMocks => RequestInv(Answered(u, "mock-only"))
      BY <1>3, <1>4, <1>5, AnsweredKeeps DEF Sources
<1>9. (UsesMocks => u.cfg.fallback) => RequestInv(h)
  <2> SUFFICES ASSUME UsesMocks => u.cfg.fallback PROVE RequestInv(h)
      OBVIOUS
  <2>1. WellFormed(h)
        BY <1>3 DEF WellFormed, Phases
  <2>2. AnswersInv(h) /\ BodyInv(h)
        BY <1>3, <1>4 DEF WellFormed, AnswersInv, BodyInv, Recorded, Unanswered
  <2>3. EntryInv(h)
        BY <1>3, <1>5 DEF WellFormed, EntryInv, Explained, Mocked, Plain
  <2> QED
      BY <2>1, <2>2, <2>3 DEF RequestInv
<1> HIDE DEF h
<1> QED
    BY <1>2, <1>6, <1>7, <1>8, <1>9

\* What a request that has arrived, and was sent nothing, can be answered with.
LEMMA LateAnswerKeeps ==
  ASSUME NEW q, RequestInv(q), q.phase # "new", q.answers = 0, q.mode # "sse",
         NEW s \in Sources, s = "backend" \/ q.phase \notin Plain
  PROVE  RequestInv(Answered(q, s))
<1>1. WellFormed(q) /\ AnswersInv(q) /\ BodyInv(q) /\ Explained(q)
      BY DEF RequestInv, EntryInv
<1>2. ~Mocked(q) => s \in {"backend", "backend-unconfigured"}
      BY <1>1 DEF Explained
<1> QED
    BY <1>1, <1>2, AnsweredKeeps

LEMMA LateStartKeeps ==
  ASSUME NEW q, RequestInv(q), q.phase # "new", q.answers = 0, q.mode # "sse",
         NEW s \in Sources, NEW p \in {"sending", "piping", "bypassing", "tunnel"},
         ~Mocked(q) => s = "backend" /\ p \in Plain,
         p \in Outbound => q.phase \in Outbound,
         p = "piping" => q.phase = "upstream"
  PROVE  RequestInv(Started(q, s, p))
<1>1. WellFormed(q) /\ AnswersInv(q) /\ BodyInv(q) /\ Explained(q)
      BY DEF RequestInv, EntryInv
<1>2. p \in Phases \ (Unanswered \cup {"done"}) /\ p # "streaming"
      BY DEF Phases, Unanswered
<1> QED
    BY <1>1, <1>2, StartedKeeps

LEMMA UploadKeeps ==
  ASSUME NEW q, RequestInv(q), q.phase \in {"piping", "buffering", "bypassing", "transform"}
  PROVE  RequestInv([Failed(q) EXCEPT !.phase = IF q.phase = "transform" THEN q.phase ELSE @, !.left = 0])
<1> DEFINE f == Failed(q)
           d == [f EXCEPT !.phase = IF q.phase = "transform" THEN q.phase ELSE @, !.left = 0]
<1>1. q.mode # "sse" /\ q.phase # "new"
      BY DEF RequestInv, AnswersInv
<1>2. RequestInv(f)
      BY <1>1, FailedKeeps
<1>3. /\ f.phase = "done" /\ f.mode = q.mode /\ f.entry = q.entry /\ f.cfg = q.cfg
      BY DEF Failed, Answered, RequestInv, WellFormed
<1> HIDE DEF f
<1>4. WellFormed(d) /\ BodyInv(d)
      BY <1>2, <1>3 DEF RequestInv, WellFormed, BodyInv, Phases
<1>5. AnswersInv(d)
      BY <1>1, <1>2, <1>3 DEF RequestInv, WellFormed, AnswersInv, Recorded, Unanswered
<1>6. EntryInv(d)
  <2>1. Explained(f) /\ Explained(q)
        BY <1>1, <1>2, <1>3 DEF RequestInv, EntryInv
  <2>2. q.phase = "transform" => Mocked(q) /\ q.cfg.fallback
        BY <2>1 DEF Explained, Plain, Outbound
  <2> QED
      BY <1>2, <1>3, <2>1, <2>2 DEF RequestInv, WellFormed, EntryInv, Explained, Mocked
<1> QED
    BY <1>4, <1>5, <1>6 DEF RequestInv, f, d

\* A stream, a tunnel or a refusal that is cut off.
LEMMA CutKeeps ==
  ASSUME NEW q, RequestInv(q), NEW out \in {"ended", "broken"},
         IF out = "ended" THEN q.phase = "streaming" ELSE q.phase \in {"refusal", "tunnel"}
  PROVE  RequestInv([q EXCEPT !.phase = "done", !.out = out])
<1> DEFINE d == [q EXCEPT !.phase = "done", !.out = out]
<1>1. WellFormed(d) /\ BodyInv(d)
      BY DEF RequestInv, WellFormed, BodyInv, Phases, Outs
<1>2. AnswersInv(d)
      BY DEF RequestInv, WellFormed, AnswersInv, Recorded, Unanswered
<1>3. EntryInv(d)
      BY DEF RequestInv, WellFormed, EntryInv, Explained, Mocked, Plain, Outbound
<1> QED
    BY <1>1, <1>2, <1>3 DEF RequestInv

-------------------------------------------------------------------------------
(* The specification.                                                      *)

PipelineInv ==
  /\ switches \in Switches /\ config \in Configs /\ route \in Routes
  /\ DOMAIN req = Requests /\ \A r \in Requests : RequestInv(req[r])

\* A step of a request gives it another record for which the invariant holds.
LEMMA ServeGoes ==
  ASSUME PipelineInv, NEW r \in Requests, ServeStep(r)
  PROVE  /\ UNCHANGED <<switches, config, route>>
         /\ \E q : RequestInv(q) /\ req' = [req EXCEPT ![r] = q]
<1> DEFINE q == req[r]
           Right(n) == RequestInv(n) /\ Goes(r, n)
<1>1. RequestInv(q) /\ config \in Configs /\ switches \in Switches /\ route \in Routes
      BY DEF PipelineInv
<1>2. q.phase \in Unanswered => q.answers = 0 /\ q.mode # "sse"
      BY <1>1 DEF RequestInv, AnswersInv, Unanswered
<1>3. ~Mocked(q) /\ q.phase # "new" => q.phase \in Plain /\ q.transform = NoTransform
      BY <1>1 DEF RequestInv, EntryInv, Explained
<1>4. HandlerBodyRead(r) => \/ \E n : Right(n)
                            \/ /\ UNCHANGED <<switches, config, route>>
                               /\ \E n : RequestInv(n) /\ req' = [req EXCEPT ![r] = n]
  <2> SUFFICES ASSUME HandlerBodyRead(r)
               PROVE  \/ \E n : Right(n)
                      \/ /\ UNCHANGED <<switches, config, route>>
                         /\ \E n : RequestInv(n) /\ req' = [req EXCEPT ![r] = n]
      OBVIOUS
  <2>1. CASE Gone(q)
    <3> DEFINE n == [q EXCEPT !.phase = "done", !.out = IF @ = "started" THEN "started" ELSE @]
    <3>1. RequestInv(n)
          BY <1>1, OverKeeps DEF HandlerBodyRead
    <3>2. n = [q EXCEPT !.phase = "done"]
          BY <1>1 DEF RequestInv, WellFormed
    <3> QED
        BY <2>1, <3>1, <3>2 DEF HandlerBodyRead
  <2>2. CASE ~Gone(q)
    <3>1. q.phase = "handlerBody" /\ q.complete
          BY <2>2 DEF HandlerBodyRead
    <3>2. RequestInv([q EXCEPT !.phase = "handler"])
          BY <1>1, <3>1, PassesKeeps
    <3> QED
        BY <2>2, <3>2 DEF HandlerBodyRead
  <2> QED
      BY <2>1, <2>2
<1>5. Dispatch(r) => \E n : Right(n)
      BY <1>1, DispatchKeeps DEF Dispatch
<1>6. DelayOver(r) => \E n : Right(n)
  <2>1. q.phase = "mockDelay" => RequestInv(MockRendered(q))
        BY <1>1, <1>2, <1>3, MockRenderedKeeps DEF RequestInv, EntryInv, Unanswered, Plain
  <2>2. q.phase = "proxyDelay" => RequestInv(Forwarded(q))
    <3> SUFFICES ASSUME q.phase = "proxyDelay" PROVE RequestInv(Forwarded(q))
        OBVIOUS
    <3>1. Explained(q) /\ q.answers = 0 /\ q.mode # "sse"
          BY <1>1, <1>2 DEF RequestInv, EntryInv, Unanswered
    <3>2. (q.transforms => Mocked(q)) /\ (Mocked(q) => q.cfg.fallback)
          BY <3>1 DEF Explained, Outbound
    <3> QED
        BY <1>1, <3>1, <3>2, ForwardedKeeps DEF RequestInv
  <2> QED
      BY <2>1, <2>2 DEF DelayOver
<1>7. BodyFlows(r) => \E n : Right(n)
      BY <1>1, BodyFlowsKeeps DEF BodyFlows
<1>8. MockBodyRead(r) \/ HandlerBodyTooLarge(r) \/ FileMissing(r) => \E n : Right(n)
      BY <1>1, <1>2, LateAnswerKeeps
      DEF MockBodyRead, HandlerBodyTooLarge, FileMissing, Unanswered, Plain, Sources
<1>9. HandlerSettles(r) \/ HandlerTimesOut(r) => \E n : Right(n)
  <2> SUFFICES ASSUME q.phase = "handler" PROVE RequestInv(HandlerOver(q))
      BY DEF HandlerSettles, HandlerTimesOut
  <2>1. ~Gone(q) => RequestInv(HandlerOver(q))
        BY <1>1, <1>2, LateAnswerKeeps DEF HandlerOver, Unanswered, Plain, Sources
  <2>2. Gone(q) => HandlerOver(q) = [q EXCEPT !.phase = "done", !.out = IF @ = "started" THEN "ended" ELSE @]
        BY <1>1 DEF HandlerOver, Gone, RequestInv, WellFormed
  <2> QED
      BY <1>1, <2>1, <2>2, OverKeeps
<1>10. FileOpened(r) => \E n : Right(n)
      BY <1>1, <1>2, <1>3, LateStartKeeps DEF FileOpened, Unanswered, Plain, Sources, Outbound
<1>11. FileSent(r) => \E n : Right(n)
      BY <1>1, OverKeeps DEF FileSent
<1>12. UpstreamFails(r) => \E n : Right(n)
      BY <1>1, <1>2, FailedKeeps DEF UpstreamFails, Unanswered
<1>13. UpstreamHeaders(r) \/ BufferFull(r) => \E n : Right(n)
  <2>1. q.phase \in {"upstream", "buffering"} /\ Mocked(q) => RequestInv(Started(q, "backend", "bypassing"))
        BY <1>1, <1>2, LateStartKeeps DEF Unanswered, Sources, Outbound
  <2>2. q.phase = "upstream" => RequestInv(Started(q, "backend", "piping"))
        BY <1>1, <1>2, LateStartKeeps DEF Unanswered, Sources, Outbound, Plain
  <2>3. q.phase = "upstream" /\ q.transform # NoTransform => RequestInv([q EXCEPT !.phase = "buffering"])
        BY <1>1, PassesKeeps
  <2>4. q.phase = "buffering" => Mocked(q)
        BY <1>3 DEF Plain
  <2> QED
      BY <1>3, <2>1, <2>2, <2>3, <2>4 DEF UpstreamHeaders, BufferFull
<1>14. UpstreamEnds(r) => \E n : Right(n)
  <2>1. q.phase = "buffering" => RequestInv([q EXCEPT !.phase = "transform"])
        BY <1>1, PassesKeeps
  <2> QED
      BY <1>1, <2>1, OverKeeps DEF UpstreamEnds
<1>15. UpstreamBreaks(r) => \E n : Right(n)
  <2>1. q.phase \in {"piping", "buffering"} => RequestInv(Failed(q))
        BY <1>1, FailedKeeps DEF RequestInv, AnswersInv
  <2>2. q.phase = "bypassing" => RequestInv([q EXCEPT !.phase = "done"])
    <3>1. [q EXCEPT !.phase = "done"] = [q EXCEPT !.phase = "done", !.out = IF @ = "started" THEN "started" ELSE @]
          BY <1>1 DEF RequestInv, WellFormed
    <3> QED
        BY <1>1, <3>1, OverKeeps
  <2> QED
      BY <2>1, <2>2 DEF UpstreamBreaks
<1>16. UploadFails(r) => \E n : Right(n)
      BY <1>1, UploadKeeps DEF UploadFails
<1>17. TransformSettles(r) => \E n : Right(n)
  <2> SUFFICES ASSUME q.phase = "transform"
               PROVE  RequestInv(IF HeadersSent(q) THEN [q EXCEPT !.phase = "done"] ELSE Answered(q, "middleware"))
      BY DEF TransformSettles
  <2>1. CASE HeadersSent(q)
    <3>1. [q EXCEPT !.phase = "done"] = [q EXCEPT !.phase = "done", !.out = IF @ = "started" THEN "started" ELSE @]
          BY <1>1 DEF RequestInv, WellFormed
    <3> QED
        BY <1>1, <2>1, <3>1, OverKeeps
  <2>2. CASE ~HeadersSent(q)
    <3>1. q.answers = 0 /\ q.mode # "sse"
          BY <1>1, <2>2 DEF HeadersSent, RequestInv, WellFormed, AnswersInv
    <3> QED
        BY <1>1, <2>2, <3>1, LateAnswerKeeps DEF Plain, Sources
  <2> QED
      BY <2>1, <2>2
<1>18. Upgrade(r) => \E n : Right(n)
      BY <1>1, UpgradeKeeps
<1>19. HandshakeAnswered(r) => \E n : Right(n)
  <2>1. q.phase = "handshake" => RequestInv(Started(q, "backend", "tunnel"))
        BY <1>1, <1>2, LateStartKeeps DEF Unanswered, Sources, Outbound, Plain
  <2>2. q.phase = "handshake" => RequestInv([q EXCEPT !.phase = "refusal"])
        BY <1>1, PassesKeeps
  <2>3. q.phase = "refusal" => RequestInv(Answered(q, "backend"))
        BY <1>1, <1>2, LateAnswerKeeps DEF Unanswered, Sources
  <2>4. q.phase = "refusal" => RequestInv([q EXCEPT !.phase = "done", !.out = "broken"])
        BY <1>1, CutKeeps
  <2> QED
      BY <2>1, <2>2, <2>3, <2>4 DEF HandshakeAnswered
<1>20. HandshakeFails(r) => \E n : Right(n)
  <2>1. q.phase = "handshake" => RequestInv(Answered(q, "backend"))
        BY <1>1, <1>2, LateAnswerKeeps DEF Unanswered, Sources
  <2>2. q.phase = "tunnel" => RequestInv([q EXCEPT !.phase = "done", !.out = "broken"])
        BY <1>1, CutKeeps
  <2> QED
      BY <2>1, <2>2 DEF HandshakeFails
<1>21. Finish(r) => \E n : Right(n)
      BY <1>1, FinishKeeps DEF Finish
<1>22. StreamEnds(r) => \E n : Right(n)
      BY <1>1, CutKeeps DEF StreamEnds
<1>23. ClosedAfter(r) => \E n : Right(n)
      BY <1>1, FinishKeeps DEF ClosedAfter
<1>24. ClientLeaves(r) => \E n : Right(n)
  <2> DEFINE p == IF q.phase \in {"upstream", "piping", "bypassing", "buffering", "streaming",
                                  "handshake", "refusal", "tunnel"}
                  THEN "done" ELSE q.phase
             left == [q EXCEPT !.out = "gone", !.phase = p]
  <2> SUFFICES ASSUME q.phase # "new", q.out \in {"none", "started", "ended"}
               PROVE  RequestInv(IF q.mode = "sse" THEN Finalized(left) ELSE left)
      BY DEF ClientLeaves
  <2>1. p \in {q.phase, "done"} /\ (q.phase = "streaming" => p = "done")
        OBVIOUS
  <2> HIDE DEF p
  <2> QED
      BY <1>1, <2>1, LeavesKeeps
<1> HIDE DEF q
<1>25. (\E n : Right(n)) => /\ UNCHANGED <<switches, config, route>>
                            /\ \E n : RequestInv(n) /\ req' = [req EXCEPT ![r] = n]
      BY DEF Goes
<1> HIDE DEF Right
<1> QED
    BY <1>4, <1>5, <1>6, <1>7, <1>8, <1>9, <1>10, <1>11, <1>12, <1>13, <1>14, <1>15, <1>16, <1>17,
       <1>18, <1>19, <1>20, <1>21, <1>22, <1>23, <1>24, <1>25 DEF ServeStep

LEMMA PipelineNext ==
  ASSUME PipelineInv, [PipelineStep]_pipelineVars
  PROVE  PipelineInv'
<1>1. CASE UNCHANGED pipelineVars
      BY <1>1 DEF pipelineVars, PipelineInv
<1>2. CASE Change
  <2>1. switches' \in Switches /\ config' \in Configs /\ route' \in Routes /\ UNCHANGED req
        BY <1>2 DEF Change, PipelineInv, Switches
  <2> QED
      BY <2>1 DEF PipelineInv
<1>3. ASSUME NEW r \in Requests, ServeStep(r) PROVE PipelineInv'
  <2>1. UNCHANGED <<switches, config, route>>
        BY <1>3, ServeGoes
  <2>2. PICK q : RequestInv(q) /\ req' = [req EXCEPT ![r] = q]
        BY <1>3, ServeGoes
  <2>3. DOMAIN req' = Requests /\ \A p \in Requests : req'[p] = IF p = r THEN q ELSE req[p]
        BY <2>2 DEF PipelineInv
  <2>4. \A p \in Requests : RequestInv(req'[p])
        BY <2>2, <2>3 DEF PipelineInv
  <2> QED
      BY <2>1, <2>3, <2>4 DEF PipelineInv
<1> QED
    BY <1>1, <1>2, <1>3 DEF PipelineStep

LEMMA PipelineInit ==
  ASSUME InitPipeline
  PROVE  PipelineInv
<1> DEFINE q == NewRequest
<1>1. WellFormed(q)
      BY PipelineAssumption DEF NewRequest, WellFormed, Phases, Outs, Sources
<1>2. AnswersInv(q) /\ BodyInv(q) /\ EntryInv(q)
      BY DEF NewRequest, AnswersInv, BodyInv, EntryInv, Blank, Recorded
<1> HIDE DEF q
<1>3. req = [r \in Requests |-> q] /\ switches \in Switches
      BY DEF InitPipeline, Switches, q
<1> QED
    BY <1>1, <1>2, <1>3 DEF PipelineInv, RequestInv, InitPipeline

\* The whole invariant, request by request.
THEOREM PipelineHolds == PipelineSpec => []PipelineInv
BY PipelineInit, PipelineNext, PTL DEF PipelineSpec

\* Whatever the administrator changes while a request waits, the backend that it reaches, its
\* monitoring and the branch that answers it are those of its entry (OneInstant).
THEOREM OneInstantHolds == PipelineSpec => []OneInstant
<1>1. PipelineInv => OneInstant
  <2> SUFFICES ASSUME NEW q, RequestInv(q), q.phase # "new"
               PROVE  /\ q.to \in {NoBackend, q.entry.cfg.backend}
                      /\ q.records > 0 => q.entry.switches.enabled
                      /\ ~Mocked(q) => /\ q.source \in {"none", "backend", "backend-unconfigured"}
                                       /\ q.transform = NoTransform
                      /\ Mocked(q) /\ ~q.entry.cfg.fallback => q.to = NoBackend
      BY DEF PipelineInv, OneInstant, Mocked
  <2>1. Explained(q) /\ AnswersInv(q)
        BY DEF RequestInv, EntryInv
  <2>2. q.records > 0 => q.monitored
        BY <2>1 DEF AnswersInv
  <2> QED
      BY <2>1, <2>2 DEF Explained
<1> QED
    BY <1>1, PipelineHolds, PTL

\* A request has one answer at most, and the monitor one entry of it, or none as the case may
\* be, however its timeouts, failures and client race (AnsweredAndRecorded).
THEOREM AnsweredAndRecordedHolds == PipelineSpec => []AnsweredAndRecorded
<1>1. PipelineInv => AnsweredAndRecorded
      BY DEF PipelineInv, RequestInv, AnswersInv, Recorded, AnsweredAndRecorded, OneAnswer, RecordedOnce
<1> QED
    BY <1>1, PipelineHolds, PTL

\* The handler and the backend receive the whole body (BodyWhole).
THEOREM BodyWholeHolds == PipelineSpec => []BodyWhole
<1>1. PipelineInv => BodyWhole
      BY DEF PipelineInv, RequestInv, BodyInv, BodyWhole
<1> QED
    BY <1>1, PipelineHolds, PTL

-------------------------------------------------------------------------------
(* The pages of the monitor: numbers, smallest and largest.                *)

\* A set of subsets of a finite set has one that contains no other.
Family(T, S) == T \subseteq SUBSET S /\ T # {}
Innermost(T, x) == \A y \in T : y \subseteq x => y = x

LEMMA HasInnermost ==
  ASSUME NEW S, IsFiniteSet(S), NEW T, Family(T, S)
  PROVE  \E x \in T : Innermost(T, x)
<1> DEFINE R == StrictSubsetOrdering(S)
<1>1. IsWellFoundedOn(R, SUBSET S)
  BY FS_StrictSubsetOrderingWellFounded, FS_FiniteSubsetsOfFinite
<1> USE DEF Family
<1>2. \A x, y \in SUBSET S : <<y, x>> \in R <=> y \subseteq x /\ y # x
  BY DEF StrictSubsetOrdering
<1> HIDE DEF R
<1>3. \E x \in T : \A y \in T : ~ (<<y, x>> \in R)
  BY <1>1, WFMin
<1> QED
  BY <1>2, <1>3, Zenon DEF Innermost

\* A bounded, nonempty set of numbers has a smallest and a largest one.
LEMMA Extremes ==
  ASSUME NEW N \in Nat, NEW S \in SUBSET (0..N), S # {}
  PROVE  /\ \E n \in S : \A m \in S : n <= m
         /\ \E n \in S : \A m \in S : n >= m
<1>1. S \in SUBSET Nat
  OBVIOUS
<1>2. IsFiniteSet(S)
  <2>1. IsFiniteSet(0..N)
    BY FS_Interval
  <2> HIDE DEF IsFiniteSet
  <2> QED
    BY <2>1, FS_Subset, Zenon
<1>3. \E n \in S : \A m \in S : n <= m
  <2> DEFINE Below(n) == {m \in S : m < n}
             All == {Below(n) : n \in S}
  <2>1. \A n \in S : Below(n) \in SUBSET S /\ \A m \in S : m \in Below(n) <=> m < n
    OBVIOUS
  <2> HIDE DEF Below
  <2>2. All \in SUBSET (SUBSET S) /\ All # {} /\ \A n \in S : Below(n) \in All
    BY <2>1
  <2>3. PICK x \in All : Innermost(All, x)
    <3>1. Family(All, S)
      BY <2>2 DEF Family
    <3> HIDE DEF All
    <3> QED
      BY <1>2, <3>1, HasInnermost
  <2>4. PICK n \in S : x = Below(n)
    BY <2>3
  <2> HIDE DEF All
  <2>5. ASSUME NEW m \in S, m < n PROVE FALSE
    <3>1. \A k \in S : k \in Below(m) => k \in Below(n)
      BY <1>1, <2>1, <2>5
    <3>2. Below(m) \subseteq Below(n)
      BY <2>1, <3>1
    <3>3. Below(m) = Below(n)
      BY <2>2, <2>3, <2>4, <3>2 DEF Innermost
    <3> QED
      BY <1>1, <2>1, <2>5, <3>3
  <2> QED
    BY <1>1, <2>5
<1>4. \E n \in S : \A m \in S : n >= m
  <2> DEFINE Above(n) == {m \in S : m > n}
             All == {Above(n) : n \in S}
  <2>1. \A n \in S : Above(n) \in SUBSET S /\ \A m \in S : m \in Above(n) <=> m > n
    OBVIOUS
  <2> HIDE DEF Above
  <2>2. All \in SUBSET (SUBSET S) /\ All # {} /\ \A n \in S : Above(n) \in All
    BY <2>1
  <2>3. PICK x \in All : Innermost(All, x)
    <3>1. Family(All, S)
      BY <2>2 DEF Family
    <3> HIDE DEF All
    <3> QED
      BY <1>2, <3>1, HasInnermost
  <2>4. PICK n \in S : x = Above(n)
    BY <2>3
  <2> HIDE DEF All
  <2>5. ASSUME NEW m \in S, m > n PROVE FALSE
    <3>1. \A k \in S : k \in Above(m) => k \in Above(n)
      BY <1>1, <2>1, <2>5
    <3>2. Above(m) \subseteq Above(n)
      BY <2>1, <3>1
    <3>3. Above(m) = Above(n)
      BY <2>2, <2>3, <2>4, <3>2 DEF Innermost
    <3> QED
      BY <1>1, <2>1, <2>5, <3>3
  <2> QED
    BY <1>1, <2>5
<1> QED
  BY <1>3, <1>4

LEMMA Largest ==
  ASSUME NEW N \in Nat, NEW S \in SUBSET (0..N), S # {}
  PROVE  Max(S) \in S /\ \A n \in S : n <= Max(S)
<1>1. PICK n \in S : \A m \in S : n >= m
  BY Extremes
<1>2. Max(S) \in S /\ \A m \in S : Max(S) >= m
  BY <1>1 DEF Max
<1> QED
  BY <1>2

-------------------------------------------------------------------------------
(* The invariant.                                                          *)

\* The number of the i-th entry.
First == nextId - Len(entries)

BufferInv ==
  /\ runtime \in 1..MaxRuntime /\ generation \in 1..MaxGeneration /\ nextId \in 1..(MaxId + 1)
  /\ entries \in Seq([id : Nat, kind : Kind])
  /\ Len(entries) < nextId
  /\ \A i \in 1..Len(entries) : entries[i].id = nextId - Len(entries) - 1 + i

\* A cursor is of this engine or of an earlier one; what came after a clear is beyond it.
CursorInv ==
  cursor # None =>
    /\ cursor \in [runtime : Nat, generation : Nat, since : Nat]
    /\ cursor.runtime <= runtime
    /\ cursor.runtime = runtime =>
         /\ cursor.since < nextId /\ cursor.generation <= generation
         /\ cursor.generation # generation => cursor.since < nextId - Len(entries)

\* What was delivered is not beyond the cursor.
SeenInv ==
  /\ cursor = None => seen = {}
  /\ seen \subseteq Nat \X Nat
  /\ \A p \in seen :
       p[1] <= cursor.runtime /\ (p[1] = cursor.runtime => p[2] <= cursor.since)

OwedInv == cursor # None /\ ~Gap(cursor) => owed = Matches(cursor)

PagesInv == BufferInv /\ CursorInv /\ SeenInv /\ OwedInv

\* The numbers of the buffer: a window that ends at the last one.
LEMMA Window ==
  ASSUME BufferInv
  PROVE  /\ \A i \in 1..Len(entries) :
              entries[i].id \in First..(nextId - 1) /\ entries[i].kind \in Kind
         /\ First \in Nat \ {0}
         /\ entries # <<>> => entries[1].id = First
         /\ entries # <<>> <=> Len(entries) > 0
<1>1. Len(entries) \in Nat /\ nextId \in Nat
  BY MonitorBoundAssumption DEF BufferInv
<1>2. entries # <<>> <=> Len(entries) > 0
  BY DEF BufferInv
<1>3. First \in Nat \ {0}
  BY <1>1 DEF BufferInv, First
<1>4. ASSUME NEW i \in 1..Len(entries)
      PROVE  entries[i].id \in First..(nextId - 1) /\ entries[i].kind \in Kind
  <2>1. entries[i].id = nextId - Len(entries) - 1 + i
    BY DEF BufferInv
  <2>2. entries[i] \in [id : Nat, kind : Kind]
    <3> DEFINE E == [id : Nat, kind : Kind]
    <3>1. entries \in Seq(E)
      BY DEF BufferInv
    <3> HIDE DEF E
    <3>2. entries[i] \in E
      BY <1>4, <3>1
    <3> QED
      BY <3>2 DEF E
  <2> QED
    BY <1>1, <2>1, <2>2 DEF First
<1>5. entries # <<>> => entries[1].id = First
  BY <1>1, <1>2 DEF BufferInv, First
<1> QED
  BY <1>2, <1>3, <1>4, <1>5

LEMMA MatchesInWindow ==
  ASSUME BufferInv, NEW c
  PROVE  /\ Matches(c) \subseteq First..(nextId - 1)
         /\ Matches(c) \subseteq 0..(MaxId + 1)
         /\ IsFiniteSet(Matches(c)) /\ Cardinality(Matches(c)) \in Nat
         /\ \A n \in Matches(c) : n > After(c)
<1>1. nextId \in 1..(MaxId + 1) /\ MaxId \in Nat /\ DOMAIN entries = 1..Len(entries)
  BY MonitorBoundAssumption DEF BufferInv
<1>2. Matches(c) \subseteq First..(nextId - 1)
  BY Window, <1>1 DEF Matches
<1>3. Matches(c) \subseteq 0..(MaxId + 1)
  BY <1>1, <1>2, Window
<1>4. \A n \in Matches(c) : n > After(c)
  BY DEF Matches
<1>5. IsFiniteSet(0..(MaxId + 1))
  BY <1>1, FS_Interval
<1>6. IsFiniteSet(Matches(c))
  BY <1>3, <1>5, FS_Subset
<1> QED
  BY <1>2, <1>3, <1>4, <1>6, FS_CardinalityType

\* The items of a page are the first of the matching entries: where there are more, those
\* up to the largest of them, and all of them otherwise.
LEMMA FirstItems ==
  ASSUME BufferInv, NEW c
  PROVE  /\ Items(c) \subseteq Matches(c)
         /\ ~HasMore(c) => Items(c) = Matches(c)
         /\ HasMore(c) => /\ Max(Items(c)) \in Items(c)
                          /\ Items(c) = {n \in Matches(c) : n <= Max(Items(c))}
<1> DEFINE M == Matches(c)
           Before(n) == {m \in M : m < n}
<1>1. M \subseteq 0..(MaxId + 1) /\ IsFiniteSet(M) /\ Cardinality(M) \in Nat
  BY MatchesInWindow
<1>2. PageLimit \in Nat \ {0} /\ MaxId + 1 \in Nat
  BY LimitAssumption, MonitorBoundAssumption
<1>3. Items(c) = {n \in M : Cardinality(Before(n)) < PageLimit}
  BY DEF Items
<1>4. HasMore(c) <=> Cardinality(M) > PageLimit
  BY DEF HasMore
<1> HIDE DEF M
<1>5. \A n \in M : IsFiniteSet(Before(n)) /\ Cardinality(Before(n)) \in Nat
  BY <1>1, FS_Subset, FS_CardinalityType
<1>6. ASSUME ~HasMore(c) PROVE Items(c) = M
  <2>1. ASSUME NEW n \in M PROVE Cardinality(Before(n)) < PageLimit
    <3>1. IsFiniteSet(M \ {n}) /\ Cardinality(M \ {n}) = Cardinality(M) - 1
      BY <1>1, FS_RemoveElement
    <3>2. Before(n) \in SUBSET (M \ {n})
      BY <1>1
    <3>3. Cardinality(Before(n)) <= Cardinality(M \ {n})
      BY <3>1, <3>2, FS_Subset
    <3> QED
      BY <1>1, <1>2, <1>4, <1>5, <1>6, <3>1, <3>3
  <2> QED
    BY <1>3, <2>1
<1>7. ASSUME HasMore(c)
      PROVE  Max(Items(c)) \in Items(c) /\ Items(c) = {n \in M : n <= Max(Items(c))}
  <2>1. M # {}
    BY <1>1, <1>2, <1>4, <1>7, FS_EmptySet
  <2>2. PICK first \in M : \A n \in M : first <= n
    <3>1. M \in SUBSET (0..(MaxId + 1))
      BY <1>1
    <3> QED
      BY <1>2, <2>1, <3>1, Extremes
  <2>3. Before(first) = {}
    <3>1. ASSUME NEW m \in M, m < first PROVE FALSE
      <4>1. m \in Nat /\ first \in Nat /\ first <= m
        BY <1>1, <2>2
      <4> QED
        BY <3>1, <4>1
    <3> QED
      BY <3>1
  <2>4. first \in Items(c)
    BY <1>2, <1>3, <2>2, <2>3, FS_EmptySet
  <2>5. Items(c) \in SUBSET (0..(MaxId + 1))
    BY <1>1, <1>3
  <2>6. Max(Items(c)) \in Items(c) /\ \A n \in Items(c) : n <= Max(Items(c))
    BY <1>2, <2>4, <2>5, Largest
  <2>7. ASSUME NEW n \in M, n <= Max(Items(c)) PROVE n \in Items(c)
    <3> DEFINE last == Max(Items(c))
    <3>1. last \in M /\ Cardinality(Before(last)) < PageLimit /\ n <= last
      BY <1>3, <2>6, <2>7
    <3> HIDE DEF last
    <3>2. Before(n) \in SUBSET Before(last)
      <4>1. \A m \in M : m < n => m < last
        BY <1>1, <3>1
      <4> QED
        BY <4>1
    <3>5. Before(n) \in SUBSET M /\ Before(last) \in SUBSET M
      OBVIOUS
    <3> HIDE DEF Before
    <3>3. Cardinality(Before(n)) <= Cardinality(Before(last))
      BY <1>5, <3>1, <3>2, FS_Subset
    <3>4. Cardinality(Before(n)) < PageLimit
      BY <1>2, <1>5, <3>1, <3>3
    <3> QED
      BY <1>3, <3>4
  <2> QED
    BY <1>3, <2>6, <2>7
<1> QED
  BY <1>3, <1>6, <1>7 DEF M

-------------------------------------------------------------------------------
(* The numbers of a buffer.                                                *)

Entry == [id : Nat, kind : Kind]
Numbers(es, a) == {es[i].id : i \in {j \in DOMAIN es : es[j].kind \in Filter /\ es[j].id > a}}

LEMMA NumbersOfAppend ==
  ASSUME NEW es \in Seq(Entry), NEW e \in Entry, NEW a \in Nat, e.id > a
  PROVE  Numbers(Append(es, e), a)
           = Numbers(es, a) \cup (IF e.kind \in Filter THEN {e.id} ELSE {})
<1> DEFINE all == Append(es, e)
<1>1. /\ DOMAIN all = 1..(Len(es) + 1) /\ DOMAIN es = 1..Len(es) /\ Len(es) \in Nat
      /\ all[Len(es) + 1] = e
      /\ \A i \in 1..Len(es) : all[i] = es[i]
  BY DEF Entry
<1> HIDE DEF all
<1>2. \A i \in DOMAIN all : i \in DOMAIN es \/ i = Len(es) + 1
  BY <1>1
<1>3. \A i \in DOMAIN es : i \in DOMAIN all /\ all[i] = es[i]
  BY <1>1
<1>4. Len(es) + 1 \in DOMAIN all
  BY <1>1
<1>5. ASSUME NEW n \in Numbers(all, a)
      PROVE  n \in Numbers(es, a) \/ (e.kind \in Filter /\ n = e.id)
  <2>1. PICK i \in DOMAIN all : n = all[i].id /\ all[i].kind \in Filter /\ all[i].id > a
    BY <1>5 DEF Numbers
  <2> QED
    BY <1>1, <1>2, <1>3, <2>1 DEF Numbers
<1>6. ASSUME NEW n \in Numbers(es, a) PROVE n \in Numbers(all, a)
  <2>1. PICK i \in DOMAIN es : n = es[i].id /\ es[i].kind \in Filter /\ es[i].id > a
    BY <1>6 DEF Numbers
  <2> QED
    BY <1>3, <2>1 DEF Numbers
<1>7. ASSUME e.kind \in Filter PROVE e.id \in Numbers(all, a)
  BY <1>1, <1>4, <1>7 DEF Numbers
<1>8. \A n : n \in Numbers(all, a)
        <=> n \in Numbers(es, a) \cup (IF e.kind \in Filter THEN {e.id} ELSE {})
  BY <1>5, <1>6, <1>7
<1> QED
  BY <1>8 DEF all

LEMMA NumbersOfTail ==
  ASSUME NEW es \in Seq(Entry), es # <<>>, NEW a \in Nat, es[1].id <= a
  PROVE  Numbers(Tail(es), a) = Numbers(es, a)
<1> DEFINE rest == Tail(es)
<1>1. /\ DOMAIN es = 1..Len(es) /\ Len(es) \in Nat \ {0}
      /\ DOMAIN rest = 1..(Len(es) - 1)
      /\ \A i \in 1..(Len(es) - 1) : rest[i] = es[i + 1]
  BY DEF Entry
<1> HIDE DEF rest
<1>2. \A i \in DOMAIN rest : i + 1 \in DOMAIN es /\ rest[i] = es[i + 1]
  BY <1>1
<1>3. \A i \in DOMAIN es : i # 1 => i - 1 \in DOMAIN rest /\ rest[i - 1] = es[i]
  BY <1>1
<1>4. es[1].id \in Nat
  <2>1. es[1] \in Entry
    BY <1>1
  <2> QED
    BY <2>1 DEF Entry
<1>5. ASSUME NEW n \in Numbers(rest, a) PROVE n \in Numbers(es, a)
  <2>1. PICK i \in DOMAIN rest : n = rest[i].id /\ rest[i].kind \in Filter /\ rest[i].id > a
    BY <1>5 DEF Numbers
  <2> QED
    BY <1>2, <2>1 DEF Numbers
<1>6. ASSUME NEW n \in Numbers(es, a) PROVE n \in Numbers(rest, a)
  <2>1. PICK i \in DOMAIN es : n = es[i].id /\ es[i].kind \in Filter /\ es[i].id > a
    BY <1>6 DEF Numbers
  <2>2. i # 1
    BY <1>4, <2>1
  <2> QED
    BY <1>3, <2>1, <2>2 DEF Numbers
<1> QED
  BY <1>5, <1>6 DEF rest

-------------------------------------------------------------------------------
(* The steps.                                                              *)

LEMMA PagesBegin == InitBuffer /\ InitPages => PagesInv
<1> SUFFICES ASSUME InitBuffer, InitPages PROVE PagesInv
  OBVIOUS
<1>1. BufferInv
  BY MonitorBoundAssumption DEF InitBuffer, BufferInv
<1> QED
  BY <1>1 DEF InitPages, PagesInv, CursorInv, SeenInv, OwedInv

\* What holds of a cursor when the buffer goes on.
LEMMA RecordKeeps ==
  ASSUME PagesInv, NEW kind \in Kind, RecordRequest(kind)
  PROVE  PagesInv'
<1> DEFINE e == [id |-> nextId, kind |-> kind]
           all == Append(entries, e)
<1>1. /\ nextId <= MaxId /\ nextId' = nextId + 1
      /\ entries' = IF Len(all) > BufferLimit THEN Tail(all) ELSE all
      /\ owed' = IF cursor # None /\ kind \in Filter THEN owed \cup {nextId} ELSE owed
      /\ UNCHANGED <<runtime, generation, cursor, seen>>
  BY DEF RecordRequest
<1>2. /\ runtime \in 1..MaxRuntime /\ generation \in 1..MaxGeneration /\ nextId \in 1..(MaxId + 1)
      /\ entries \in Seq(Entry) /\ Len(entries) < nextId /\ Len(entries) \in Nat
      /\ \A i \in 1..Len(entries) : entries[i].id = nextId - Len(entries) - 1 + i
  BY DEF PagesInv, BufferInv, Entry
<1>3. e \in Entry /\ nextId \in Nat /\ MaxId \in Nat /\ BufferLimit \in Nat \ {0}
  BY <1>2, MonitorBoundAssumption, LimitAssumption DEF Entry
<1>4. e.id = nextId /\ e.kind = kind
  OBVIOUS
<1> HIDE DEF e
<1>5. /\ all \in Seq(Entry) /\ Len(all) = Len(entries) + 1
      /\ \A i \in 1..Len(all) : all[i].id = nextId - Len(entries) - 1 + i
  <2>1. /\ all \in Seq(Entry) /\ Len(all) = Len(entries) + 1 /\ all[Len(entries) + 1] = e
        /\ \A i \in 1..Len(entries) : all[i] = entries[i]
    BY <1>2, <1>3
  <2> HIDE DEF all
  <2>2. ASSUME NEW i \in 1..Len(all)
        PROVE  all[i].id = nextId - Len(entries) - 1 + i
    <3>1. CASE i \in 1..Len(entries)
      BY <1>2, <2>1, <3>1
    <3>2. CASE i = Len(entries) + 1
      BY <1>2, <1>3, <1>4, <2>1, <3>2
    <3> QED
      BY <1>2, <2>1, <2>2, <3>1, <3>2
  <2> QED
    BY <2>1, <2>2
<1> HIDE DEF all
<1>6. /\ entries' \in Seq(Entry) /\ Len(entries') \in Nat
      /\ Len(entries') \in {Len(entries), Len(entries) + 1} /\ Len(entries') > 0
      /\ \A i \in 1..Len(entries') : entries'[i].id = nextId' - Len(entries') - 1 + i
  <2>1. CASE Len(all) > BufferLimit
    <3>1. entries' = Tail(all) /\ all # <<>>
      BY <1>1, <1>3, <1>5, <2>1
    <3>2. /\ entries' \in Seq(Entry) /\ Len(entries') = Len(entries)
          /\ \A i \in 1..Len(entries') : entries'[i] = all[i + 1]
      BY <1>2, <1>5, <3>1
    <3>3. Len(entries) > 0
      BY <1>2, <1>3, <1>5, <2>1
    <3>4. ASSUME NEW i \in 1..Len(entries')
          PROVE  entries'[i].id = nextId' - Len(entries') - 1 + i
      <4>1. i \in Nat /\ i + 1 \in 1..Len(all) /\ entries'[i] = all[i + 1]
        BY <1>2, <1>5, <3>2, <3>4
      <4>2. all[i + 1].id = nextId - Len(entries) - 1 + (i + 1)
        BY <1>5, <4>1
      <4>3. /\ nextId' = nextId + 1 /\ nextId \in Nat /\ Len(entries) \in Nat
            /\ Len(entries') = Len(entries)
        BY <1>1, <1>2, <1>3, <3>2
      <4>4. nextId - Len(entries) - 1 + (i + 1) = nextId' - Len(entries') - 1 + i
        BY <4>1, <4>3
      <4> QED
        BY <4>1, <4>2, <4>4
    <3> QED
      BY <1>2, <3>2, <3>3, <3>4
  <2>2. CASE ~(Len(all) > BufferLimit)
    <3>1. entries' = all /\ Len(entries') = Len(entries) + 1 /\ entries' \in Seq(Entry)
      BY <1>1, <1>5, <2>2
    <3>2. ASSUME NEW i \in 1..Len(entries')
          PROVE  entries'[i].id = nextId' - Len(entries') - 1 + i
      <4>1. i \in Nat /\ entries'[i].id = nextId - Len(entries) - 1 + i
        BY <1>2, <1>5, <3>1, <3>2
      <4>2. /\ nextId' = nextId + 1 /\ nextId \in Nat /\ Len(entries) \in Nat
            /\ Len(entries') = Len(entries) + 1
        BY <1>1, <1>2, <1>3, <3>1
      <4>3. nextId - Len(entries) - 1 + i = nextId' - Len(entries') - 1 + i
        BY <4>1, <4>2
      <4> QED
        BY <4>1, <4>3
    <3> QED
      BY <1>2, <3>1, <3>2
  <2> QED
    BY <2>1, <2>2
<1>7. BufferInv'
  <2>1. nextId' \in 1..(MaxId + 1) /\ Len(entries') < nextId'
    BY <1>1, <1>2, <1>3, <1>6
  <2>2. entries' \in Seq([id : Nat, kind : Kind])
    BY <1>6 DEF Entry
  <2> QED
    BY <1>1, <1>2, <1>6, <2>1, <2>2 DEF BufferInv
<1>8. CursorInv'
  <2>1. CursorInv
    BY DEF PagesInv
  <2> SUFFICES ASSUME cursor # None PROVE CursorInv'
    BY <1>1 DEF CursorInv
  <2>2. cursor.since \in Nat
    <3>1. cursor \in [runtime : Nat, generation : Nat, since : Nat]
      BY <2>1 DEF CursorInv
    <3> QED
      BY <3>1
  <2>3. cursor.since < nextId => cursor.since < nextId'
    BY <1>1, <1>3, <2>2
  <2>4. cursor.since < nextId - Len(entries) => cursor.since < nextId' - Len(entries')
    <3>1. /\ nextId' = nextId + 1 /\ nextId \in Nat /\ Len(entries) \in Nat
          /\ Len(entries') = Len(entries) \/ Len(entries') = Len(entries) + 1
      BY <1>1, <1>2, <1>3, <1>6
    <3> QED
      BY <2>2, <3>1
  <2> QED
    BY <1>1, <2>1, <2>3, <2>4 DEF CursorInv
<1>9. SeenInv'
  BY <1>1 DEF PagesInv, SeenInv
<1>10. OwedInv'
  <2> SUFFICES ASSUME cursor # None, ~Gap(cursor)' PROVE owed' = Matches(cursor)'
    BY <1>1 DEF OwedInv
  <2>1. cursor \in [runtime : Nat, generation : Nat, since : Nat]
    BY DEF PagesInv, CursorInv
  <2>2. cursor.since \in Nat /\ ~Foreign(cursor) /\ cursor.since < nextId
    <3>1. cursor.since \in Nat
      BY <2>1
    <3>2. ~Foreign(cursor)
      BY <1>1 DEF Gap, Foreign
    <3> QED
      BY <3>1, <3>2 DEF Foreign, PagesInv, CursorInv
  <2>3. entries' # <<>> /\ entries'[1].id = nextId - Len(entries')  + 1
    <3>1. /\ nextId' = nextId + 1 /\ nextId \in Nat /\ Len(entries') \in Nat
          /\ 1 \in 1..Len(entries')
      BY <1>1, <1>3, <1>6
    <3>2. entries'[1].id = nextId' - Len(entries') - 1 + 1
      BY <1>6, <3>1
    <3>3. entries' # <<>>
      BY <1>6
    <3> QED
      BY <3>1, <3>2, <3>3
  <2>4. cursor.since >= entries'[1].id - 1
    <3>1. ~(cursor.since < entries'[1].id - 1)
      BY <1>1, <2>3 DEF Gap, Evicted
    <3>2. entries'[1].id \in Int
      BY <1>3, <1>6, <2>3
    <3> QED
      BY <2>2, <3>1, <3>2
  <2>5. ~Evicted(cursor)
    BY <1>2, <1>3, <1>6, <2>2, <2>3, <2>4 DEF Evicted, highWatermark
  <2>6. ~Gap(cursor) /\ After(cursor) = cursor.since
    BY <2>2, <2>5 DEF Gap, After
  <2>7. After(cursor)' = cursor.since
    BY <1>1 DEF After
  <2>8. owed = Numbers(entries, cursor.since)
    BY <2>6 DEF PagesInv, OwedInv, Matches, Numbers
  <2>9. Matches(cursor)' = Numbers(entries', cursor.since)
    BY <1>1, <2>7 DEF Matches, Numbers
  <2>10. Numbers(all, cursor.since) = owed'
    <3>1. Numbers(all, cursor.since)
            = Numbers(entries, cursor.since) \cup (IF e.kind \in Filter THEN {e.id} ELSE {})
      BY <1>2, <1>3, <1>4, <2>2, NumbersOfAppend DEF all
    <3> QED
      BY <1>1, <1>4, <2>8, <3>1
  <2>11. Numbers(entries', cursor.since) = Numbers(all, cursor.since)
    <3>1. CASE Len(all) > BufferLimit
      <4>1. all # <<>> /\ entries' = Tail(all) /\ Len(entries') = Len(entries)
        BY <1>1, <1>3, <1>5, <3>1
      <4>2. all[1].id <= cursor.since
        BY <1>2, <1>3, <1>5, <2>2, <2>3, <2>4, <4>1
      <4> QED
        BY <1>5, <2>2, <4>1, <4>2, NumbersOfTail
    <3>2. CASE ~(Len(all) > BufferLimit)
      BY <1>1, <3>2
    <3> QED
      BY <3>1, <3>2
  <2> QED
    BY <2>9, <2>10, <2>11
<1> QED
  BY <1>7, <1>8, <1>9, <1>10 DEF PagesInv

LEMMA ClearKeeps ==
  ASSUME PagesInv, ClearBuffer
  PROVE  PagesInv'
<1>1. /\ generation < MaxGeneration /\ generation' = generation + 1
      /\ entries' = <<>> /\ nextId' = nextId
      /\ UNCHANGED <<runtime, cursor, owed, seen>>
  BY DEF ClearBuffer, Cleared, pageVars
<1>2. /\ runtime \in 1..MaxRuntime /\ generation \in 1..MaxGeneration /\ nextId \in 1..(MaxId + 1)
      /\ Len(entries) \in Nat
  BY DEF PagesInv, BufferInv
<1>3. MaxGeneration \in Nat /\ MaxId \in Nat /\ nextId \in Nat /\ nextId > 0
  BY <1>2, MonitorBoundAssumption
<1>4. BufferInv'
  BY <1>1, <1>2, <1>3 DEF BufferInv
<1>5. CursorInv'
  <2> SUFFICES ASSUME cursor # None PROVE CursorInv'
    BY <1>1 DEF CursorInv
  <2>1. cursor \in [runtime : Nat, generation : Nat, since : Nat]
    BY DEF PagesInv, CursorInv
  <2>2. cursor.since \in Nat /\ cursor.generation \in Nat
    BY <2>1
  <2>3. cursor.runtime <= runtime
    BY DEF PagesInv, CursorInv
  <2>4. ASSUME cursor.runtime = runtime
        PROVE  /\ cursor.since < nextId' /\ cursor.generation <= generation'
               /\ cursor.since < nextId' - Len(entries')
    <3>1. cursor.since < nextId /\ cursor.generation <= generation
      BY <2>4 DEF PagesInv, CursorInv
    <3>2. Len(entries') = 0
      BY <1>1
    <3> QED
      BY <1>1, <1>2, <1>3, <2>2, <3>1, <3>2
  <2> QED
    BY <1>1, <2>1, <2>3, <2>4 DEF CursorInv
<1>6. SeenInv'
  BY <1>1 DEF PagesInv, SeenInv
<1>7. cursor # None => Gap(cursor)'
  <2> SUFFICES ASSUME cursor # None, cursor.runtime = runtime
               PROVE  cursor.generation # generation + 1
    BY <1>1 DEF Gap, Foreign
  <2>1. cursor \in [runtime : Nat, generation : Nat, since : Nat] /\ cursor.generation <= generation
    BY DEF PagesInv, CursorInv
  <2> QED
    BY <1>2, <2>1
<1>8. OwedInv'
  BY <1>1, <1>7 DEF OwedInv
<1> QED
  BY <1>4, <1>5, <1>6, <1>8 DEF PagesInv

LEMMA RestartKeeps ==
  ASSUME PagesInv, Restart
  PROVE  PagesInv'
<1>1. /\ runtime < MaxRuntime /\ runtime' = runtime + 1 /\ generation' = 1 /\ nextId' = 1
      /\ entries' = <<>>
      /\ UNCHANGED <<cursor, owed, seen>>
  BY DEF Restart, pageVars
<1>2. runtime \in 1..MaxRuntime /\ MaxRuntime \in Nat
  BY MonitorBoundAssumption DEF PagesInv, BufferInv
<1>3. BufferInv'
  BY <1>1, <1>2, MonitorBoundAssumption DEF BufferInv
<1>4. cursor # None => cursor.runtime <= runtime' /\ cursor.runtime # runtime'
  <2> SUFFICES ASSUME cursor # None PROVE cursor.runtime <= runtime' /\ cursor.runtime # runtime'
    OBVIOUS
  <2>1. cursor \in [runtime : Nat, generation : Nat, since : Nat] /\ cursor.runtime <= runtime
    BY DEF PagesInv, CursorInv
  <2>2. cursor.runtime \in Nat
    BY <2>1
  <2> QED
    BY <1>1, <1>2, <2>1, <2>2
<1>5. CursorInv'
  BY <1>1, <1>4 DEF PagesInv, CursorInv
<1>6. SeenInv'
  BY <1>1 DEF PagesInv, SeenInv
<1>7. OwedInv'
  BY <1>1, <1>4 DEF OwedInv, Gap, Foreign
<1> QED
  BY <1>3, <1>5, <1>6, <1>7 DEF PagesInv

\* A new cursor at most at the last number, and not before the one it follows.
LEMMA NewCursor ==
  ASSUME PagesInv, NEW since \in Nat, since < nextId,
         cursor # None /\ cursor.runtime = runtime => cursor.since <= since,
         NEW brought \in SUBSET Nat, \A n \in brought : n <= since,
         cursor' = [runtime |-> runtime, generation |-> generation, since |-> since],
         seen' = seen \cup {<<runtime, n>> : n \in brought},
         UNCHANGED bufferVars
  PROVE  /\ BufferInv' /\ CursorInv' /\ SeenInv'
         /\ ~Gap(cursor)' => Matches(cursor)' = Numbers(entries, since)
<1>1. /\ runtime \in 1..MaxRuntime /\ generation \in 1..MaxGeneration /\ nextId \in 1..(MaxId + 1)
      /\ MaxRuntime \in Nat /\ MaxGeneration \in Nat /\ MaxId \in Nat
  BY MonitorBoundAssumption DEF PagesInv, BufferInv
<1>2. cursor' \in [runtime : 1..MaxRuntime, generation : 1..MaxGeneration, since : 0..MaxId]
  BY <1>1
<1>3. cursor' # None
  BY <1>2, NoCursorAssumption
<1>4. UNCHANGED <<runtime, generation, nextId, entries>>
  BY DEF bufferVars
<1>5. BufferInv'
  BY <1>4 DEF PagesInv, BufferInv
<1>6. /\ cursor'.runtime = runtime /\ cursor'.generation = generation /\ cursor'.since = since
  OBVIOUS
<1>7. CursorInv'
  <2>1. cursor' \in [runtime : Nat, generation : Nat, since : Nat]
    BY <1>1
  <2> QED
    BY <1>1, <1>4, <1>6, <2>1 DEF CursorInv
<1>8. SeenInv'
  <2>1. seen' \subseteq Nat \X Nat
    BY <1>1 DEF PagesInv, SeenInv
  <2>2. ASSUME NEW p \in seen'
        PROVE  p[1] <= runtime /\ (p[1] = runtime => p[2] <= since)
    <3>1. CASE p \in seen
      <4>1. /\ cursor # None
            /\ p[1] <= cursor.runtime /\ (p[1] = cursor.runtime => p[2] <= cursor.since)
            /\ p[1] \in Nat /\ p[2] \in Nat
        BY <3>1 DEF PagesInv, SeenInv
      <4>2. cursor \in [runtime : Nat, generation : Nat, since : Nat] /\ cursor.runtime <= runtime
        BY <4>1 DEF PagesInv, CursorInv
      <4>3. cursor.runtime \in Nat /\ cursor.since \in Nat
        BY <4>2
      <4> QED
        BY <1>1, <4>1, <4>2, <4>3
    <3>2. CASE p \in {<<runtime, n>> : n \in brought}
      BY <1>1, <3>2
    <3> QED
      BY <2>2, <3>1, <3>2
  <2> QED
    BY <1>3, <1>6, <2>1, <2>2 DEF SeenInv
<1>9. ASSUME ~Gap(cursor)' PROVE Matches(cursor)' = Numbers(entries, since)
  <2>1. After(cursor)' = since
    BY <1>3, <1>6, <1>9 DEF After
  <2> QED
    BY <1>4, <2>1 DEF Matches, Numbers
<1> QED
  BY <1>5, <1>7, <1>8, <1>9

LEMMA LatestKeeps ==
  ASSUME PagesInv, ReadLatest
  PROVE  PagesInv'
<1>1. /\ cursor' = [runtime |-> runtime, generation |-> generation, since |-> nextId - 1]
      /\ owed' = {} /\ UNCHANGED bufferVars /\ seen' = seen
  BY DEF ReadLatest, highWatermark
<1>2. nextId - 1 \in Nat /\ nextId - 1 < nextId
  BY MonitorBoundAssumption DEF PagesInv, BufferInv
<1>3. cursor # None /\ cursor.runtime = runtime => cursor.since <= nextId - 1
  <2> SUFFICES ASSUME cursor # None, cursor.runtime = runtime PROVE cursor.since <= nextId - 1
    OBVIOUS
  <2>1. cursor \in [runtime : Nat, generation : Nat, since : Nat] /\ cursor.since < nextId
    BY DEF PagesInv, CursorInv
  <2>2. cursor.since \in Nat
    BY <2>1
  <2>3. nextId \in Nat
    BY MonitorBoundAssumption DEF PagesInv, BufferInv
  <2> QED
    BY <2>1, <2>2, <2>3
<1>4. seen' = seen \cup {<<runtime, n>> : n \in {}}
  BY <1>1
<1>5. /\ BufferInv' /\ CursorInv' /\ SeenInv'
      /\ ~Gap(cursor)' => Matches(cursor)' = Numbers(entries, nextId - 1)
  <2>1. {} \in SUBSET Nat /\ \A n \in {} : n <= nextId - 1
    OBVIOUS
  <2> DEFINE since == nextId - 1
             none == {}
  <2>2. /\ since \in Nat /\ since < nextId
        /\ cursor # None /\ cursor.runtime = runtime => cursor.since <= since
        /\ none \in SUBSET Nat /\ \A n \in none : n <= since
        /\ cursor' = [runtime |-> runtime, generation |-> generation, since |-> since]
        /\ seen' = seen \cup {<<runtime, n>> : n \in none}
        /\ UNCHANGED bufferVars
    BY <1>1, <1>2, <1>3, <1>4, <2>1
  <2>3. /\ BufferInv' /\ CursorInv' /\ SeenInv'
        /\ ~Gap(cursor)' => Matches(cursor)' = Numbers(entries, since)
    <3> HIDE DEF since, none
    <3> QED
      BY <2>2, NewCursor
  <2> QED
    BY <2>3
<1>6. Numbers(entries, nextId - 1) = {}
  <2>1. \A i \in DOMAIN entries : ~(entries[i].id > nextId - 1)
    <3>1. DOMAIN entries = 1..Len(entries) /\ BufferInv /\ nextId \in Nat
      BY MonitorBoundAssumption DEF PagesInv, BufferInv
    <3>2. First \in Nat /\ \A i \in 1..Len(entries) : entries[i].id \in First..(nextId - 1)
      BY <3>1, Window
    <3> QED
      BY <3>1, <3>2
  <2> QED
    BY <2>1 DEF Numbers
<1>7. OwedInv'
  BY <1>1, <1>5, <1>6 DEF OwedInv
<1> QED
  BY <1>5, <1>7 DEF PagesInv

\* The page: what it does not bring is what its cursor has before it.
LEMMA PageKeeps ==
  ASSUME PagesInv, ReadPage
  PROVE  PagesInv'
<1> DEFINE since == IF HasMore(cursor) THEN Max(Items(cursor)) ELSE nextId - 1
           brought == Items(cursor)
<1>1. /\ cursor' = [runtime |-> runtime, generation |-> generation, since |-> since]
      /\ owed' = (IF cursor = None \/ (cursor # None /\ Gap(cursor))
                  THEN Matches(cursor) ELSE owed) \ brought
      /\ seen' = seen \cup {<<runtime, n>> : n \in brought}
      /\ UNCHANGED bufferVars
  BY DEF ReadPage, NextCursor, highWatermark
<1>2. BufferInv /\ nextId \in 1..(MaxId + 1) /\ nextId \in Nat /\ MaxId \in Nat
  BY MonitorBoundAssumption DEF PagesInv, BufferInv
<1>3. /\ Matches(cursor) \subseteq First..(nextId - 1) /\ First \in Nat
      /\ \A n \in Matches(cursor) : n > After(cursor) /\ n \in Nat /\ n < nextId
  BY <1>2, MatchesInWindow, Window
<1>4. /\ brought \subseteq Matches(cursor)
      /\ ~HasMore(cursor) => brought = Matches(cursor)
      /\ HasMore(cursor) => since \in brought /\ brought = {n \in Matches(cursor) : n <= since}
  BY <1>2, FirstItems
<1>5. ~HasMore(cursor) => since = nextId - 1
  OBVIOUS
<1> HIDE DEF since, brought
<1>6. since \in Nat /\ since < nextId /\ brought \in SUBSET Nat
  BY <1>2, <1>3, <1>4, <1>5
<1>7. \A n \in brought : n <= since
  BY <1>2, <1>3, <1>4, <1>5
<1>8. After(cursor) \in Nat /\ After(cursor) <= since
  <2>1. After(cursor) \in Nat
    <3>1. CASE cursor = None
      BY <3>1 DEF After
    <3>2. CASE cursor # None
      <4>1. cursor \in [runtime : Nat, generation : Nat, since : Nat]
        BY <3>2 DEF PagesInv, CursorInv
      <4>2. cursor.since \in Nat
        BY <4>1
      <4> QED
        BY <3>2, <4>2 DEF After
    <3> QED
      BY <3>1, <3>2
  <2>2. CASE HasMore(cursor)
    BY <1>3, <1>4, <1>6, <2>1, <2>2
  <2>3. CASE ~HasMore(cursor)
    <3>1. CASE cursor = None \/ Gap(cursor)
      BY <1>6, <3>1 DEF After
    <3>2. CASE cursor # None /\ ~Gap(cursor)
      <4>1. cursor \in [runtime : Nat, generation : Nat, since : Nat] /\ cursor.since < nextId
        BY <3>2 DEF PagesInv, CursorInv, Gap, Foreign
      <4>2. cursor.since \in Nat
        BY <4>1
      <4> QED
        BY <1>2, <1>5, <2>3, <3>2, <4>1, <4>2 DEF After
    <3> QED
      BY <3>1, <3>2
  <2> QED
    BY <2>1, <2>2, <2>3
<1>9. cursor # None /\ cursor.runtime = runtime => cursor.since <= since
  <2> SUFFICES ASSUME cursor # None, cursor.runtime = runtime PROVE cursor.since <= since
    OBVIOUS
  <2>1. /\ cursor \in [runtime : Nat, generation : Nat, since : Nat]
        /\ cursor.since < nextId
        /\ cursor.generation # generation => cursor.since < First
    BY DEF PagesInv, CursorInv, First
  <2>2. cursor.since \in Nat
    BY <2>1
  <2>3. CASE ~Gap(cursor)
    BY <1>8, <2>3 DEF After
  <2>4. CASE ~HasMore(cursor)
    BY <1>2, <1>5, <2>1, <2>2, <2>4
  <2>5. CASE Gap(cursor) /\ HasMore(cursor)
    <3>1. since \in First..(nextId - 1) /\ First <= since
      BY <1>3, <1>4, <2>5
    <3>2. cursor.since < First
      <4>1. CASE cursor.generation # generation
        BY <2>1, <4>1
      <4>2. CASE Evicted(cursor)
        <5>1. entries # <<>>
          <6>1. Matches(cursor) # {}
            BY <1>4, <2>5
          <6> QED
            BY <6>1 DEF Matches
        <5>2. cursor.since < entries[1].id - 1 /\ entries[1].id = First
          BY <1>2, <4>2, <5>1, Window DEF Evicted
        <5> QED
          BY <1>3, <2>2, <5>2
      <4> QED
        BY <2>5, <4>1, <4>2 DEF Gap, Foreign
    <3> QED
      BY <1>3, <1>6, <2>2, <3>1, <3>2
  <2> QED
    BY <2>3, <2>4, <2>5
<1>10. /\ BufferInv' /\ CursorInv' /\ SeenInv'
       /\ ~Gap(cursor)' => Matches(cursor)' = Numbers(entries, since)
  BY <1>1, <1>6, <1>7, <1>9, NewCursor
<1>11. owed' = Matches(cursor) \ brought
  BY <1>1 DEF PagesInv, OwedInv
<1>12. Numbers(entries, since) = Matches(cursor) \ brought
  <2>1. Numbers(entries, since) = {n \in Matches(cursor) : n > since}
    <3>1. \A i \in DOMAIN entries : entries[i].id \in Nat
      <4>1. DOMAIN entries = 1..Len(entries)
        BY DEF PagesInv, BufferInv
      <4>2. \A i \in 1..Len(entries) : entries[i].id \in First..(nextId - 1)
        BY <1>2, Window
      <4> QED
        BY <1>3, <4>1, <4>2
    <3>2. \A i \in DOMAIN entries : entries[i].id > since => entries[i].id > After(cursor)
      BY <1>6, <1>8, <3>1
    <3> QED
      BY <3>2 DEF Numbers, Matches
  <2>2. CASE HasMore(cursor)
    <3>1. \A n \in Matches(cursor) : n > since <=> n \notin brought
      BY <1>3, <1>4, <1>6, <2>2
    <3> QED
      BY <2>1, <3>1
  <2>3. CASE ~HasMore(cursor)
    BY <1>2, <1>3, <1>4, <1>5, <2>1, <2>3
  <2> QED
    BY <2>2, <2>3
<1>13. OwedInv'
  BY <1>10, <1>11, <1>12 DEF OwedInv
<1> QED
  BY <1>10, <1>13 DEF PagesInv

LEMMA PagesInvSound == PagesInv => PagesFollow
<1> SUFFICES ASSUME PagesInv, cursor # None
             PROVE  /\ ~Ahead(cursor)
                    /\ {<<runtime, n>> : n \in Matches(cursor)} \cap seen = {}
                    /\ ~Gap(cursor) => Matches(cursor) = owed
  BY DEF PagesFollow
<1>1. cursor \in [runtime : Nat, generation : Nat, since : Nat] /\ cursor.runtime <= runtime
  BY DEF PagesInv, CursorInv
<1>2. cursor.since \in Nat /\ cursor.runtime \in Nat
  BY <1>1
<1>3. BufferInv /\ nextId \in Nat /\ runtime \in Nat
  BY MonitorBoundAssumption DEF PagesInv, BufferInv
<1>4. ~Ahead(cursor)
  <2> SUFFICES ASSUME ~Foreign(cursor) PROVE ~(cursor.since > highWatermark)
    BY DEF Ahead
  <2>1. cursor.since < nextId
    BY DEF PagesInv, CursorInv, Foreign
  <2> QED
    BY <1>2, <1>3, <2>1 DEF highWatermark
<1>5. ASSUME NEW n \in Matches(cursor), <<runtime, n>> \in seen PROVE FALSE
  <2>1. /\ runtime <= cursor.runtime /\ (runtime = cursor.runtime => n <= cursor.since)
    BY <1>5 DEF PagesInv, SeenInv
  <2>2. runtime = cursor.runtime /\ n <= cursor.since
    BY <1>1, <1>2, <1>3, <2>1
  <2>3. /\ n \in First..(nextId - 1) /\ First \in Nat /\ n > After(cursor)
    BY <1>3, <1>5, MatchesInWindow, Window
  <2>4. CASE ~Gap(cursor)
    BY <1>2, <2>2, <2>3, <2>4 DEF After
  <2>5. CASE Gap(cursor)
    <3>1. entries # <<>>
      BY <1>5 DEF Matches
    <3>2. CASE cursor.generation # generation
      <4>1. cursor.since < First
        BY <2>2, <3>2 DEF PagesInv, CursorInv, First
      <4> QED
        BY <1>2, <2>2, <2>3, <4>1
    <3>3. CASE Evicted(cursor)
      <4>1. cursor.since < entries[1].id - 1 /\ entries[1].id = First
        BY <1>3, <3>1, <3>3, Window DEF Evicted
      <4> QED
        BY <1>2, <2>2, <2>3, <4>1
    <3> QED
      BY <2>2, <2>5, <3>2, <3>3 DEF Gap, Foreign
  <2> QED
    BY <2>4, <2>5
<1> QED
  BY <1>4, <1>5 DEF PagesInv, OwedInv

\* Whatever happens, what holds of the cursor goes on holding.
LEMMA PagesKeep == PagesInv /\ [Next]_vars => PagesInv'
<1> SUFFICES ASSUME PagesInv, [Next]_vars PROVE PagesInv'
  OBVIOUS
<1>1. ASSUME NEW kind \in Kind, Record(kind) PROVE PagesInv'
  BY <1>1, RecordKeeps DEF Record
<1>2. CASE Clear
  BY <1>2, ClearKeeps DEF Clear
<1>3. CASE EngineRestarts
  BY <1>3, RestartKeeps DEF EngineRestarts
<1>4. CASE FollowPages
  BY <1>4, PageKeeps, LatestKeeps DEF FollowPages
<1>5. CASE UNCHANGED monitorVars
  BY <1>5 DEF monitorVars, PagesInv, BufferInv, CursorInv, SeenInv, OwedInv, Gap, Foreign, Evicted,
              highWatermark, Matches, After
<1>6. CASE FollowStream \/ WriteAndReadDump \/ UNCHANGED vars
  BY <1>5, <1>6 DEF FollowStream, WriteAndReadDump, vars
<1> QED
  BY <1>1, <1>2, <1>3, <1>4, <1>6 DEF Next

\* Whatever the engine records, clears and loses at a restart, and whatever else follows
\* its buffer: the client of the pages gets every matching request once, or is told that
\* some were lost.
THEOREM PagesFollowHolds == Spec => []PagesFollow
<1>1. Init => PagesInv
  BY PagesBegin DEF Init
<1> QED
  BY <1>1, PagesKeep, PagesInvSound, PTL DEF Spec

-------------------------------------------------------------------------------
(* What filter returns.                                                    *)

\* The order of the naturals.
NatLess == {p \in Nat \X Nat : p[1] < p[2]}

\* A set of naturals has a least member.
LEMMA SmallestNat ==
  ASSUME NEW X \in SUBSET Nat, X # {}
  PROVE  \E x \in X : \A y \in X : x <= y
<1>1. IsWellFoundedOn(NatLess, Nat)
      BY NatLessThanWellFounded DEF OpToRel, NatLess
<1>2. PICK x \in X : \A y \in X : ~(<<y, x>> \in NatLess)
      BY <1>1, WFMin
<1>3. ASSUME NEW y \in X PROVE x <= y
  <2>1. x \in Nat /\ y \in Nat /\ <<y, x>> \notin NatLess
        BY <1>2
  <2>2. QED
        BY <2>1 DEF NatLess
<1>4. QED
      BY <1>3

\* it computes filter on the first m members.
KeptBy(it, s, P, m) ==
  it = [n \in 0..m |-> IF n = 0 THEN <<>>
                       ELSE IF n \in P THEN Append(it[n - 1], s[n]) ELSE it[n - 1]]

\* filter is what one such computation says of the whole.
LEMMA KeptDef ==
  ASSUME NEW s, NEW P PROVE Kept(s, P) = (CHOOSE it : KeptBy(it, s, P, Len(s)))[Len(s)]
BY DEF Kept, KeptBy

\* A computation goes one member further.
LEMMA KeptFurther ==
  ASSUME NEW s, NEW P, NEW k \in Nat, NEW it, KeptBy(it, s, P, k)
  PROVE  \E new : KeptBy(new, s, P, k + 1)
<1> DEFINE new == [n \in 0..(k + 1) |->
                     IF n <= k THEN it[n]
                     ELSE IF n \in P THEN Append(it[n - 1], s[n]) ELSE it[n - 1]]
<1>1. \A n \in 0..k : it[n] = IF n = 0 THEN <<>>
                              ELSE IF n \in P THEN Append(it[n - 1], s[n]) ELSE it[n - 1]
      BY DEF KeptBy
<1>2. \A n \in 0..k : new[n] = it[n]
      OBVIOUS
<1>3. new[k + 1] = IF k + 1 \in P THEN Append(it[k], s[k + 1]) ELSE it[k]
      OBVIOUS
<1>4. new = [n \in 0..(k + 1) |-> new[n]]
      OBVIOUS
<1> HIDE DEF new
<1>5. ASSUME NEW n \in 0..(k + 1)
      PROVE  new[n] = IF n = 0 THEN <<>>
                      ELSE IF n \in P THEN Append(new[n - 1], s[n]) ELSE new[n - 1]
  <2>1. CASE n = 0
        BY <1>1, <1>2, <2>1
  <2>2. CASE n \in 1..k
    <3>1. n \in 0..k /\ n - 1 \in 0..k /\ n # 0
          BY <2>2
    <3>2. QED
          BY <1>1, <1>2, <3>1
  <2>3. CASE n = k + 1
        BY <1>2, <1>3, <2>3
  <2>4. QED
        BY <2>1, <2>2, <2>3
<1>6. KeptBy(new, s, P, k + 1)
      BY <1>4, <1>5 DEF KeptBy
<1>7. QED
      BY <1>6

\* Every sequence has one.
LEMMA KeptExists ==
  ASSUME NEW s, NEW P, NEW m \in Nat
  PROVE  \E it : KeptBy(it, s, P, m)
<1> DEFINE X == {k \in Nat : ~\E it : KeptBy(it, s, P, k)}
<1>1. SUFFICES ASSUME X # {} PROVE FALSE
      OBVIOUS
<1>2. PICK k \in X : \A j \in X : k <= j
  <2>1. X \in SUBSET Nat
        OBVIOUS
  <2>2. QED
    <3> HIDE DEF X
    <3>1. QED
          BY <1>1, <2>1, SmallestNat
<1>3. k \in Nat /\ ~\E it : KeptBy(it, s, P, k)
      BY <1>2
<1>4. CASE k = 0
  <2>1. KeptBy([n \in 0..0 |-> <<>>], s, P, 0)
        BY DEF KeptBy
  <2>2. QED
        BY <1>3, <1>4, <2>1
<1>5. CASE k # 0
  <2>1. k - 1 \in Nat /\ k - 1 \notin X
        BY <1>2, <1>3, <1>5
  <2>2. PICK it : KeptBy(it, s, P, k - 1)
        BY <2>1
  <2> HIDE DEF X
  <2>3. \E new : KeptBy(new, s, P, (k - 1) + 1)
        BY <2>1, <2>2, KeptFurther
  <2>4. (k - 1) + 1 = k
        BY <1>3
  <2>5. QED
        BY <1>3, <2>3, <2>4
<1>6. QED
      BY <1>4, <1>5

\* at enumerates a set of positions in their order.
Enumerates(at, m, P) ==
  /\ at \in [1..m -> P]
  /\ \A i, j \in 1..m : i < j => at[i] < at[j]
  /\ \A p \in P : \E i \in 1..m : at[i] = p

\* filter has gone k members far, and kept those at the positions asked.
KeptSoFar(value, s, P, k) ==
  \E m \in Nat : \E at : /\ Enumerates(at, m, P \cap (1..k))
                         /\ value = [i \in 1..m |-> s[at[i]]]

\* A later position goes at the end.
LEMMA EnumeratesMore ==
  ASSUME NEW m \in Nat, NEW at, NEW Q \in SUBSET Nat, Enumerates(at, m, Q),
         NEW k \in Nat, \A p \in Q : p < k
  PROVE  Enumerates([i \in 1..(m + 1) |-> IF i = m + 1 THEN k ELSE at[i]], m + 1, Q \cup {k})
<1> DEFINE new == [i \in 1..(m + 1) |-> IF i = m + 1 THEN k ELSE at[i]]
<1>1. \A i \in 1..m : at[i] \in Q
      BY DEF Enumerates
<1>2. \A i \in 1..m : new[i] = at[i]
      OBVIOUS
<1>3. \A i \in 1..m : new[i] = at[i] /\ at[i] \in Q /\ at[i] < k
      BY <1>1, <1>2
<1>4. new[m + 1] = k
      OBVIOUS
<1>5. new \in [1..(m + 1) -> Q \cup {k}]
  <2>1. \A i \in 1..(m + 1) : (IF i = m + 1 THEN k ELSE at[i]) \in Q \cup {k}
        BY <1>1
  <2>2. QED
        BY <2>1
<1> HIDE DEF new
<1>6. ASSUME NEW i \in 1..(m + 1), NEW j \in 1..(m + 1), i < j PROVE new[i] < new[j]
  <2>1. i \in 1..m
        BY <1>6
  <2>2. CASE j = m + 1
        BY <1>3, <1>4, <2>1, <2>2
  <2>3. CASE j \in 1..m
        BY <1>3, <1>6, <2>1, <2>3 DEF Enumerates
  <2>4. QED
        BY <2>2, <2>3
<1>7. ASSUME NEW p \in Q \cup {k} PROVE \E i \in 1..(m + 1) : new[i] = p
  <2>1. CASE p = k
        BY <1>4, <2>1
  <2>2. CASE p \in Q
    <3>1. PICK i \in 1..m : at[i] = p
          BY <2>2 DEF Enumerates
    <3>2. i \in 1..(m + 1) /\ new[i] = p
          BY <1>3, <3>1
    <3>3. QED
          BY <3>2
  <2>3. QED
        BY <2>1, <2>2
<1>8. Enumerates(new, m + 1, Q \cup {k})
      BY <1>5, <1>6, <1>7 DEF Enumerates
<1>9. QED
      BY <1>8 DEF new

\* One member further.
LEMMA KeptStep ==
  ASSUME NEW s, NEW P, NEW k \in Nat \ {0}, NEW value, KeptSoFar(value, s, P, k - 1)
  PROVE  KeptSoFar(IF k \in P THEN Append(value, s[k]) ELSE value, s, P, k)
<1>1. PICK m \in Nat : \E at : /\ Enumerates(at, m, P \cap (1..(k - 1)))
                               /\ value = [i \in 1..m |-> s[at[i]]]
      BY DEF KeptSoFar
<1>2. PICK at : /\ Enumerates(at, m, P \cap (1..(k - 1)))
                /\ value = [i \in 1..m |-> s[at[i]]]
      BY <1>1
<1>3. CASE k \notin P
  <2>1. P \cap (1..k) = P \cap (1..(k - 1))
        BY <1>3
  <2>2. QED
        BY <1>2, <1>3, <2>1 DEF KeptSoFar
<1>4. CASE k \in P
  <2> DEFINE Q == P \cap (1..(k - 1))
             new == [i \in 1..(m + 1) |-> IF i = m + 1 THEN k ELSE at[i]]
  <2>1. P \cap (1..k) = Q \cup {k}
        BY <1>4
  <2>2. Q \in SUBSET Nat /\ \A p \in Q : p < k
        OBVIOUS
  <2>3. Enumerates(new, m + 1, Q \cup {k})
    <3> HIDE DEF Q
    <3>1. QED
          BY <1>2, <2>2, EnumeratesMore DEF Q
  <2>4. Append(value, s[k]) = [i \in 1..(m + 1) |-> s[new[i]]]
    <3>1. Len(value) = m /\ \A i \in 1..m : value[i] = s[at[i]]
          BY <1>2
    <3>2. Append(value, s[k]) = [i \in 1..(m + 1) |-> IF i = m + 1 THEN s[k] ELSE value[i]]
          BY <1>2, <3>1
    <3>3. \A i \in 1..(m + 1) : (IF i = m + 1 THEN s[k] ELSE value[i]) = s[new[i]]
          BY <3>1
    <3>4. QED
          BY <3>2, <3>3
  <2>5. QED
    <3> HIDE DEF Q, new
    <3>1. m + 1 \in Nat
          OBVIOUS
    <3>2. QED
          BY <1>4, <2>1, <2>3, <2>4, <3>1 DEF KeptSoFar
<1>5. QED
      BY <1>3, <1>4

\* What filter returns: the members at the positions asked, each once and in their order.
LEMMA KeptAt ==
  ASSUME NEW S, NEW s \in Seq(S), NEW P \in SUBSET (1..Len(s))
  PROVE  \E m \in Nat : \E at : /\ Enumerates(at, m, P)
                                /\ Kept(s, P) = [i \in 1..m |-> s[at[i]]]
<1> DEFINE it == CHOOSE i : KeptBy(i, s, P, Len(s))
           X == {k \in 0..Len(s) : ~KeptSoFar(it[k], s, P, k)}
<1>1. Len(s) \in Nat
      OBVIOUS
<1>2. KeptBy(it, s, P, Len(s))
      BY <1>1, KeptExists
<1>3. Kept(s, P) = it[Len(s)]
      BY KeptDef
<1> HIDE DEF it
<1>4. X = {}
  <2>1. SUFFICES ASSUME X # {} PROVE FALSE
        OBVIOUS
  <2>2. PICK k \in X : \A j \in X : k <= j
    <3>1. X \in SUBSET Nat
          BY <1>1
    <3>2. QED
      <4> HIDE DEF X
      <4>1. QED
            BY <2>1, <3>1, SmallestNat
  <2>3. k \in 0..Len(s) /\ ~KeptSoFar(it[k], s, P, k)
        BY <2>2
  <2>4. CASE k = 0
    <3>1. it[0] = <<>>
          BY <1>1, <1>2 DEF KeptBy
    <3>2. Enumerates(<<>>, 0, P \cap (1..0)) /\ <<>> = [i \in 1..0 |-> s[(<<>>)[i]]]
          BY DEF Enumerates
    <3>3. KeptSoFar(<<>>, s, P, 0)
      <4>1. 0 \in Nat /\ \E at : /\ Enumerates(at, 0, P \cap (1..0))
                                 /\ <<>> = [i \in 1..0 |-> s[at[i]]]
            BY <3>2
      <4> HIDE DEF X
      <4>2. QED
            BY <4>1 DEF KeptSoFar
    <3>4. QED
          BY <2>3, <2>4, <3>1, <3>3
  <2>5. CASE k # 0
    <3>1. k - 1 \in 0..Len(s) /\ k - 1 \notin X /\ k \in Nat \ {0}
          BY <1>1, <2>2, <2>3, <2>5
    <3>2. KeptSoFar(it[k - 1], s, P, k - 1)
          BY <3>1
    <3>3. it[k] = IF k \in P THEN Append(it[k - 1], s[k]) ELSE it[k - 1]
          BY <1>1, <1>2, <2>3, <2>5 DEF KeptBy
    <3> HIDE DEF X
    <3>4. QED
          BY <2>3, <3>1, <3>2, <3>3, KeptStep
  <2>6. QED
        BY <2>4, <2>5
<1>5. KeptSoFar(it[Len(s)], s, P, Len(s))
      BY <1>1, <1>4
<1>6. P \cap (1..Len(s)) = P
      OBVIOUS
<1>7. QED
      BY <1>3, <1>5, <1>6 DEF KeptSoFar

-------------------------------------------------------------------------------
(* The pages of a list.                                                    *)

\* What the filters keep.
Answer == Filtered(params, items)

\* As much of the list as n elements, or all of it.
FirstOf(list, n) == SubSeq(list, 1, IF n < Len(list) THEN n ELSE Len(list))

\* What was read is the first page * size elements of the list.
ListInv ==
  /\ page \in Nat /\ size \in Nat
  /\ items \in Seq(Elements) /\ params \subseteq Params
  /\ shape # "other" /\ size > 0 =>
       /\ read = FirstOf(Answer, page * size)
       /\ page > 0 => total = Len(Answer)

\* The positions that the filters admit are those that were asked for.
LEMMA AdmittedAsAsked ==
  ASSUME params \subseteq Params
  PROVE  Answer = Kept(items, Asked)
<1>1. \A p \in params : NotScalar \notin p.values
      BY ParamAssumption
<1>2. {i \in DOMAIN items : \A f \in FiltersOf(params, items) : Admits(f, items[i])} = Asked
      BY <1>1 DEF FiltersOf, Admits, Asked
<1>3. QED
      BY <1>2 DEF Answer, Filtered

\* What the answer is made of: the elements asked for, in their order.
LEMMA AnswerAt ==
  ASSUME items \in Seq(Elements), params \subseteq Params
  PROVE  /\ Answer \in Seq(Elements)
         /\ \E at \in [1..Cardinality(Asked) -> Asked] :
              /\ \A m, n \in DOMAIN at : m < n => at[m] < at[n]
              /\ Answer = [n \in DOMAIN at |-> items[at[n]]]
<1>1. Asked \in SUBSET (1..Len(items))
      BY DEF Asked
<1>2. PICK m \in Nat : \E at : /\ Enumerates(at, m, Asked)
                               /\ Kept(items, Asked) = [i \in 1..m |-> items[at[i]]]
  <2> HIDE DEF Asked
  <2>1. QED
        BY <1>1, KeptAt
<1>3. PICK at : /\ Enumerates(at, m, Asked)
                /\ Kept(items, Asked) = [i \in 1..m |-> items[at[i]]]
      BY <1>2
<1>4. at \in [1..m -> Asked] /\ \A i, j \in 1..m : i < j => at[i] < at[j]
      BY <1>3 DEF Enumerates
<1>5. Cardinality(Asked) = m
  <2>1. \A i, j \in 1..m : at[i] = at[j] => i = j
    <3>1. \A p \in Asked : p \in Nat
          BY <1>1
    <3>2. \A i \in 1..m : at[i] \in Asked
          BY <1>4
    <3>3. \A i \in 1..m : at[i] \in Nat
          BY <3>1, <3>2
    <3>4. QED
          BY <1>4, <3>3
  <2>2. at \in Bijection(1..m, Asked)
        BY <1>3, <1>4, <2>1 DEF Enumerates, Bijection, Injection, Surjection, IsInjective
  <2>3. QED
        BY <2>2, FS_CountingElements DEF ExistsBijection
<1>6. DOMAIN at = 1..m
      BY <1>4
<1>7. Answer = [n \in DOMAIN at |-> items[at[n]]]
      BY <1>3, <1>6, AdmittedAsAsked
<1>8. \A i \in 1..m : items[at[i]] \in Elements
  <2>1. \A p \in 1..Len(items) : items[p] \in Elements
        OBVIOUS
  <2>2. QED
        BY <1>1, <1>4, <2>1
<1>9. Answer \in Seq(Elements)
      BY <1>6, <1>7, <1>8
<1>10. QED
      BY <1>4, <1>5, <1>6, <1>7, <1>9

\* Two sequences with the same members are one.
LEMMA SameList ==
  ASSUME NEW S, NEW u \in Seq(S), NEW v \in Seq(S), Len(u) = Len(v),
         \A i \in 1..Len(u) : u[i] = v[i]
  PROVE  u = v
OBVIOUS

\* A page goes on where the one before ended.
LEMMA PageJoins ==
  ASSUME NEW S, NEW list \in Seq(S), NEW a \in Nat, NEW b \in Nat
  PROVE  FirstOf(list, a) \o SubSeq(list, a + 1, IF a + b < Len(list) THEN a + b ELSE Len(list))
           = FirstOf(list, a + b)
<1> DEFINE c == IF a + b < Len(list) THEN a + b ELSE Len(list)
<1>1. c \in Nat /\ c <= Len(list) /\ Len(list) \in Nat
      OBVIOUS
<1>2. CASE a >= Len(list)
  <2>1. c = Len(list) /\ SubSeq(list, a + 1, c) = <<>>
        BY <1>2
  <2>2. FirstOf(list, a) = SubSeq(list, 1, Len(list)) /\ FirstOf(list, a + b) = SubSeq(list, 1, Len(list))
        BY <1>2 DEF FirstOf
  <2>3. SubSeq(list, 1, Len(list)) \o <<>> = SubSeq(list, 1, Len(list))
        OBVIOUS
  <2>4. QED
        BY <2>1, <2>2, <2>3
<1>3. CASE a < Len(list)
  <2>1. FirstOf(list, a) = SubSeq(list, 1, a) /\ FirstOf(list, a + b) = SubSeq(list, 1, c) /\ a <= c
        BY <1>3 DEF FirstOf
  <2> HIDE DEF c
  <2> DEFINE x == SubSeq(list, 1, a)
             y == SubSeq(list, a + 1, c)
             z == SubSeq(list, 1, c)
  <2>2. /\ x \in Seq(S) /\ Len(x) = a /\ \A i \in 1..a : x[i] = list[i]
        /\ y \in Seq(S) /\ Len(y) = c - a /\ \A i \in 1..(c - a) : y[i] = list[a + i]
        /\ z \in Seq(S) /\ Len(z) = c /\ \A i \in 1..c : z[i] = list[i]
        BY <1>1, <1>3, <2>1
  <2> HIDE DEF x, y, z
  <2>3. x \o y \in Seq(S) /\ Len(x \o y) = c
    <3>1. x \o y \in Seq(S)
          BY <2>2
    <3>2. Len(x \o y) = Len(x) + Len(y)
          BY <2>2
    <3>3. QED
          BY <1>1, <2>1, <2>2, <3>1, <3>2
  <2>4. \A i \in 1..c : (x \o y)[i] = z[i]
    <3> SUFFICES ASSUME NEW i \in 1..c PROVE (x \o y)[i] = z[i]
        OBVIOUS
    <3>1. CASE i <= a
          BY <1>1, <2>1, <2>2, <3>1
    <3>2. CASE i > a
      <4>1. (x \o y)[i] = y[i - a]
            BY <1>1, <2>1, <2>2, <3>2
      <4>2. i - a \in 1..(c - a) /\ a + (i - a) = i
            BY <1>1, <3>2
      <4>3. QED
            BY <2>2, <4>1, <4>2
    <3>3. i <= a \/ i > a
          BY <1>1
    <3>4. QED
          BY <3>1, <3>2, <3>3
  <2>5. x \o y = z
    <3> DEFINE w == x \o y
    <3>1. w \in Seq(S) /\ Len(w) = Len(z) /\ \A i \in 1..Len(w) : w[i] = z[i]
          BY <2>2, <2>3, <2>4
    <3> HIDE DEF w
    <3>2. w = z
          BY <2>2, <3>1, SameList
    <3>3. QED
          BY <3>2 DEF w
  <2>6. QED
        BY <2>1, <2>5 DEF x, y, z, c
<1>4. a >= Len(list) \/ a < Len(list)
      BY <1>1
<1>5. QED
  <2> HIDE DEF c
  <2>1. FirstOf(list, a) \o SubSeq(list, a + 1, c) = FirstOf(list, a + b)
        BY <1>2, <1>3, <1>4 DEF c
  <2>2. QED
        BY <2>1 DEF c

\* Nothing is read yet.
LEMMA ListBegins == InitList => ListInv
<1> SUFFICES ASSUME InitList PROVE ListInv
    OBVIOUS
<1>1. items \in Seq(Elements)
      BY ListAssumption DEF InitList, SeqOf
<1>2. page \in Nat /\ size \in Nat /\ params \subseteq Params
      BY ListAssumption DEF InitList
<1>3. Answer \in Seq(Elements)
      BY <1>1, <1>2, AnswerAt
<1>4. read = FirstOf(Answer, page * size)
  <2>1. page * size = 0
        BY <1>2 DEF InitList
  <2>2. FirstOf(Answer, 0) = <<>>
        BY <1>3 DEF FirstOf
  <2>3. QED
        BY <2>1, <2>2 DEF InitList
<1>5. QED
      BY <1>1, <1>2, <1>4 DEF ListInv, InitList

\* One page further.
LEMMA ListNext == ListInv /\ [ReadNextPage]_listVars => ListInv'
<1> SUFFICES ASSUME ListInv, [ReadNextPage]_listVars PROVE ListInv'
    OBVIOUS
<1>1. CASE UNCHANGED listVars
      BY <1>1 DEF listVars, ListInv, Answer
<1>2. CASE ReadNextPage
  <2>1. /\ page \in Nat /\ size \in Nat /\ page' = page + 1
        /\ UNCHANGED <<shape, items, params, size>>
        BY <1>2 DEF ListInv, ReadNextPage
  <2>2. Answer' = Answer /\ Answer \in Seq(Elements)
        BY <2>1, AnswerAt DEF Answer, ListInv
  <2>3. ASSUME shape # "other", size > 0
        PROVE  read' = FirstOf(Answer, page' * size) /\ total' = Len(Answer)
    <3> DEFINE a == page * size
    <3>1. a \in Nat /\ page' * size = a + size
          BY <2>1
    <3>2. /\ read' = read \o SubSeq(Answer, a + 1, IF a + size < Len(Answer) THEN a + size ELSE Len(Answer))
          /\ total' = Len(Answer)
          BY <1>2, <2>3 DEF ReadNextPage, Payload, Answer
    <3>3. read = FirstOf(Answer, a)
          BY <2>3 DEF ListInv
    <3> HIDE DEF a
    <3>4. QED
          BY <2>1, <2>2, <3>1, <3>2, <3>3, PageJoins
  <2>4. QED
        BY <2>1, <2>2, <2>3 DEF ListInv
<1>3. QED
      BY <1>1, <1>2

\* Page after page, a client reads what passes every filter, each element once
\* and in the order of the mock, and is told how many they are (PagesPartition).
THEOREM PagesPartitionHolds == ListSpec => []PagesPartition
<1>1. ListInv => PagesPartition
  <2> SUFFICES ASSUME ListInv, shape # "other", size > 0, page > 0
               PROVE  \E at \in [1..Cardinality(Asked) -> Asked] :
                        LET all == [n \in DOMAIN at |-> items[at[n]]] IN
                        /\ \A m, n \in DOMAIN at : m < n => at[m] < at[n]
                        /\ read = SubSeq(all, 1, IF page * size < Len(all) THEN page * size ELSE Len(all))
                        /\ total = Len(all)
      BY DEF PagesPartition
  <2>1. PICK at \in [1..Cardinality(Asked) -> Asked] :
          /\ \A m, n \in DOMAIN at : m < n => at[m] < at[n]
          /\ Answer = [n \in DOMAIN at |-> items[at[n]]]
        BY AnswerAt DEF ListInv
  <2>2. read = FirstOf(Answer, page * size) /\ total = Len(Answer)
        BY DEF ListInv
  <2>3. QED
        BY <2>1, <2>2 DEF FirstOf
<1>2. QED
      BY <1>1, ListBegins, ListNext, PTL DEF ListSpec

-------------------------------------------------------------------------------
(* The live list of the interface.                                         *)

Item == Nat \X Nat

\* What a stream carries.
Event ==
  [type : {"snapshot"}, runtime : Nat, items : Seq(Item)] \cup [type : {"request"}, item : Item]
    \cup [type : {"clear"}]

\* The connection; it feeds the list only while that streams.
LinkTyped ==
  /\ shown \in Seq(Item)
  /\ link # NoLink => /\ link \in [accepted : BOOLEAN, broken : BOOLEAN, feed : Seq(Event)]
                      /\ ~link.accepted => link.feed = <<>>
                      /\ streaming

\* The engine that what f carries belongs to: the one it declares, or declared before.
FedBy(f, declared) ==
  IF f # <<>> /\ f[1].type = "snapshot" THEN f[1].runtime ELSE declared

\* Only the first event is a snapshot, and all is of one engine.
Fed(f, by) ==
  \A i \in 1..Len(f) :
    /\ f[i].type = "request" => f[i].item[1] = by
    /\ f[i].type = "snapshot" => /\ i = 1 /\ IsInjective(f[i].items)
                                 /\ \A k \in 1..Len(f[i].items) : f[i].items[k][1] = by

\* After L events, f only has requests.
OnlyRequests(f, L) ==
  /\ \A i \in (L + 1)..Len(f) : f[i].type = "request"
  /\ L > 0 => f[L].type # "request"

\* The list that these requests meet.
Met(f, L, list) ==
  IF L = 0 THEN list ELSE IF f[L].type = "snapshot" THEN f[L].items ELSE <<>>

\* The last requests have the last numbers, in their turn.
InTurn(f, L, rt, next) == \A i \in (L + 1)..Len(f) : f[i].item = <<rt, next - (Len(f) + 1 - i)>>

\* The numbers of a list are before those of the last requests.
Before(list, later, next) == \A k \in 1..Len(list) : list[k][2] < next - later

\* With the last requests in front, a list begins with a buffer of held entries.
GoesOn(list, later, rt, next, held) ==
  /\ held <= later + Len(list)
  /\ \A k \in 1..Len(list) : k + later <= held => list[k] = <<rt, next - later - k>>

\* What f will make of the list: the requests up to the last recorded, each in its turn,
\* in front of a list that only they are missing from, which from events or more have made.
LeadsTo(f, list, rt, next, held, from) ==
  \A L \in 0..Len(f) :
    OnlyRequests(f, L) =>
      /\ InTurn(f, L, rt, next)
      /\ Before(Met(f, L, list), Len(f) - L, next)
      /\ L >= from => GoesOn(Met(f, L, list), Len(f) - L, rt, next, held)

\* Each request is listed once, and all are of the engine declared.
ShownInv ==
  /\ IsInjective(shown)
  /\ shownRuntime # 0 => \A i \in 1..Len(shown) : shown[i][1] = shownRuntime

\* A wiped list does not count: an event of the stream must come first.
From == IF wiped THEN 1 ELSE 0

\* What is on its way is of one engine; that of an open stream leads to its buffer.
FeedInv ==
  link # NoLink /\ link.accepted =>
    /\ Fed(link.feed, FedBy(link.feed, shownRuntime))
    /\ ~link.broken => /\ FedBy(link.feed, shownRuntime) = runtime
                       /\ LeadsTo(link.feed, shown, runtime, nextId, Len(entries), From)

StreamInv == LinkTyped /\ ShownInv /\ FeedInv

\* What the provers read off an event.
LEMMA EventFields ==
  ASSUME NEW e \in Event
  PROVE  /\ e.type \in {"snapshot", "request", "clear"}
         /\ e.type = "snapshot" => e.items \in Seq(Item) /\ e.runtime \in Nat
         /\ e.type = "request" => e.item \in Item
BY DEF Event

\* One event more.
LEMMA OneMore ==
  ASSUME NEW S, NEW f \in Seq(S), NEW e \in S
  PROVE  /\ Append(f, e) \in Seq(S) /\ Len(Append(f, e)) = Len(f) + 1 /\ Len(f) \in Nat
         /\ Append(f, e)[Len(f) + 1] = e /\ Append(f, e) # <<>>
         /\ \A i \in 1..Len(f) : Append(f, e)[i] = f[i]
OBVIOUS

\* One event less.
LEMMA OneLess ==
  ASSUME NEW S, NEW f \in Seq(S), f # <<>>
  PROVE  /\ Tail(f) \in Seq(S) /\ Len(Tail(f)) = Len(f) - 1 /\ Len(f) \in Nat \ {0}
         /\ Head(f) = f[1] /\ f[1] \in S
         /\ \A i \in 1..(Len(f) - 1) : Tail(f)[i] = f[i + 1]
OBVIOUS

\* The list that the last requests meet is a list.
LEMMA MetTyped ==
  ASSUME NEW f \in Seq(Event), NEW list \in Seq(Item), NEW L \in 0..Len(f)
  PROVE  Met(f, L, list) \in Seq(Item) /\ Len(Met(f, L, list)) \in Nat
<1>1. CASE L = 0
      BY <1>1 DEF Met
<1>2. CASE L # 0
  <2>1. f[L] \in Event
        BY <1>2
  <2>2. f[L].type = "snapshot" => f[L].items \in Seq(Item)
        BY <2>1, EventFields
  <2>3. QED
        BY <1>2, <2>2 DEF Met
<1>3. QED
      BY <1>1, <1>2

\* g is f with one event more.
More(f, g) == Len(g) = Len(f) + 1 /\ g # <<>> /\ \A i \in 1..Len(f) : g[i] = f[i]

\* A request is recorded: its number is the last, and the buffer grows by one at most.
LEMMA LeadsOnRequest ==
  ASSUME NEW f \in Seq(Event), NEW g, NEW list \in Seq(Item), NEW rt, NEW next, NEW next2,
         NEW held, NEW held2, NEW from \in {0, 1}, next \in Nat, next2 \in Nat, held \in Nat,
         held2 \in Nat, More(f, g), next2 = next + 1, held2 <= held + 1,
         g[Len(f) + 1].type = "request", g[Len(f) + 1].item = <<rt, next>>,
         LeadsTo(f, list, rt, next, held, from)
  PROVE  LeadsTo(g, list, rt, next2, held2, from)
<1> DEFINE n == Len(f)
<1>1. /\ Len(g) = n + 1 /\ n \in Nat /\ \A i \in 1..n : g[i] = f[i]
      /\ g[n + 1].type = "request" /\ g[n + 1].item = <<rt, next>>
      BY DEF More
<1> HIDE DEF n
<1>2. SUFFICES ASSUME NEW L \in 0..Len(g), OnlyRequests(g, L)
               PROVE  /\ InTurn(g, L, rt, next2)
                      /\ Before(Met(g, L, list), Len(g) - L, next2)
                      /\ L >= from => GoesOn(Met(g, L, list), Len(g) - L, rt, next2, held2)
      BY DEF LeadsTo
<1>3. L \in 0..n
  <2>1. L = n + 1 => g[L].type # "request"
        BY <1>1, <1>2 DEF OnlyRequests
  <2>2. QED
        BY <1>1, <1>2, <2>1
<1>4. OnlyRequests(f, L)
      BY <1>1, <1>2, <1>3 DEF OnlyRequests, n
<1>5. /\ InTurn(f, L, rt, next)
      /\ Before(Met(f, L, list), n - L, next)
      /\ L >= from => GoesOn(Met(f, L, list), n - L, rt, next, held)
      BY <1>3, <1>4 DEF LeadsTo, n
<1>6. Met(g, L, list) = Met(f, L, list)
      BY <1>1, <1>3 DEF Met
<1>7. InTurn(g, L, rt, next2)
  <2> SUFFICES ASSUME NEW i \in (L + 1)..Len(g)
               PROVE  g[i].item = <<rt, next2 - (Len(g) + 1 - i)>>
      BY DEF InTurn
  <2>1. CASE i = n + 1
    <3>1. Len(g) + 1 - i = 1 /\ g[i].item = <<rt, next>>
          BY <1>1, <2>1
    <3>2. next2 - 1 = next
          OBVIOUS
    <3>3. QED
          BY <3>1, <3>2
  <2>2. CASE i \in (L + 1)..n
    <3>1. g[i] = f[i] /\ f[i].item = <<rt, next - (n + 1 - i)>> /\ i \in Nat
          BY <1>1, <1>3, <1>5, <2>2 DEF InTurn, n
    <3>2. Len(g) + 1 - i = n + 1 - i + 1
          BY <1>1, <3>1
    <3>3. next2 - (n + 1 - i + 1) = next - (n + 1 - i)
          BY <1>1, <3>1
    <3>4. QED
          BY <3>1, <3>2, <3>3
  <2>3. QED
        BY <1>1, <1>3, <2>1, <2>2
<1> DEFINE met == Met(f, L, list)
           later == n - L
<1>8. later \in Nat /\ Len(g) - L = later + 1 /\ Len(met) \in Nat
      BY <1>1, <1>3, MetTyped DEF n
<1>9. Before(met, later, next) /\ (L >= from => GoesOn(met, later, rt, next, held))
      BY <1>5
<1> HIDE DEF met, later
<1>10. next2 - (later + 1) = next - later
      BY <1>8
<1>11. Before(met, later + 1, next2)
      BY <1>8, <1>9, <1>10 DEF Before
<1>12. ASSUME GoesOn(met, later, rt, next, held)
       PROVE  GoesOn(met, later + 1, rt, next2, held2)
  <2>1. held2 <= later + 1 + Len(met)
        BY <1>8, <1>12 DEF GoesOn
  <2>2. ASSUME NEW k \in 1..Len(met), k + (later + 1) <= held2
        PROVE  met[k] = <<rt, next2 - (later + 1) - k>>
    <3>1. k + later <= held
          BY <1>8, <2>2
    <3>2. met[k] = <<rt, next - later - k>>
          BY <1>12, <3>1 DEF GoesOn
    <3>3. QED
          BY <1>8, <1>10, <3>2
  <2>3. QED
        BY <1>8, <2>1, <2>2 DEF GoesOn
<1>13. QED
      BY <1>6, <1>7, <1>8, <1>9, <1>11, <1>12 DEF met

\* The buffer is cleared: so will be the list.
LEMMA LeadsOnClear ==
  ASSUME NEW f \in Seq(Event), NEW g, More(f, g), NEW list, NEW rt, NEW next \in Nat,
         NEW from \in {0, 1}, g[Len(f) + 1].type = "clear"
  PROVE  LeadsTo(g, list, rt, next, 0, from)
<1>1. SUFFICES ASSUME NEW L \in 0..Len(g), OnlyRequests(g, L)
               PROVE  /\ InTurn(g, L, rt, next)
                      /\ Before(Met(g, L, list), Len(g) - L, next)
                      /\ GoesOn(Met(g, L, list), Len(g) - L, rt, next, 0)
      BY DEF LeadsTo
<1>2. L = Len(f) + 1 /\ L = Len(g) /\ L \in Nat \ {0}
  <2>1. Len(g) = Len(f) + 1 /\ Len(f) \in Nat
        BY DEF More
  <2>2. L < Len(f) + 1 => Len(f) + 1 \in (L + 1)..Len(g)
        BY <1>1, <2>1
  <2>3. QED
        BY <1>1, <2>1, <2>2 DEF OnlyRequests
<1>3. Met(g, L, list) = <<>>
      BY <1>2 DEF Met
<1>4. InTurn(g, L, rt, next)
      BY <1>2 DEF InTurn
<1>5. Before(<<>>, 0, next) /\ GoesOn(<<>>, 0, rt, next, 0)
      BY DEF Before, GoesOn
<1>6. Len(g) - L = 0
      BY <1>2
<1>7. QED
      BY <1>3, <1>4, <1>5, <1>6

\* A stream begins: the snapshot is the buffer.
LEMMA LeadsFromSnapshot ==
  ASSUME NEW g, NEW list, NEW rt, NEW next \in Nat, NEW held \in Nat, NEW from \in {0, 1},
         Len(g) = 1, g[1].type = "snapshot",
         Before(g[1].items, 0, next), GoesOn(g[1].items, 0, rt, next, held)
  PROVE  LeadsTo(g, list, rt, next, held, from)
<1>1. SUFFICES ASSUME NEW L \in 0..Len(g), OnlyRequests(g, L)
               PROVE  /\ InTurn(g, L, rt, next)
                      /\ Before(Met(g, L, list), Len(g) - L, next)
                      /\ GoesOn(Met(g, L, list), Len(g) - L, rt, next, held)
      BY DEF LeadsTo
<1>2. L = 1
  <2>1. L = 0 => 1 \in (L + 1)..Len(g)
        OBVIOUS
  <2>2. QED
        BY <1>1, <2>1 DEF OnlyRequests
<1>3. Met(g, L, list) = g[1].items
      BY <1>2 DEF Met
<1>4. InTurn(g, L, rt, next)
      BY <1>2 DEF InTurn
<1>5. Len(g) - L = 0
      BY <1>2
<1>6. QED
      BY <1>3, <1>4, <1>5

\* The answer of an own clear empties the list: what was listed, unless it was empty or the
\* clear is still on its way, counts as wiped.
LEMMA LeadsOnWipe ==
  ASSUME NEW f \in Seq(Event), NEW list \in Seq(Item), NEW rt, NEW next \in Nat, NEW held \in Nat,
         NEW from \in {0, 1}, NEW from2 \in {0, 1}, LeadsTo(f, list, rt, next, held, from), from <= from2,
         list # <<>> /\ ~(\E i \in 1..Len(f) : f[i].type = "clear") => from2 = 1
  PROVE  LeadsTo(f, <<>>, rt, next, held, from2)
<1>1. SUFFICES ASSUME NEW L \in 0..Len(f), OnlyRequests(f, L)
               PROVE  /\ InTurn(f, L, rt, next)
                      /\ Before(Met(f, L, <<>>), Len(f) - L, next)
                      /\ L >= from2 => GoesOn(Met(f, L, <<>>), Len(f) - L, rt, next, held)
      BY DEF LeadsTo
<1>2. /\ InTurn(f, L, rt, next)
      /\ Before(Met(f, L, list), Len(f) - L, next)
      /\ L >= from => GoesOn(Met(f, L, list), Len(f) - L, rt, next, held)
      BY <1>1 DEF LeadsTo
<1>3. CASE L # 0 \/ list = <<>>
  <2>1. Met(f, L, <<>>) = Met(f, L, list)
        BY <1>3 DEF Met
  <2>2. QED
        BY <1>2, <2>1
<1>4. CASE L = 0 /\ list # <<>>
  <2>1. \A i \in 1..Len(f) : f[i].type = "request"
        BY <1>1, <1>4 DEF OnlyRequests
  <2>2. ~(L >= from2)
        BY <1>4, <2>1
  <2>3. Before(<<>>, Len(f) - L, next)
        BY DEF Before
  <2>4. Met(f, L, <<>>) = <<>>
        BY <1>4 DEF Met
  <2>5. QED
        BY <1>2, <1>4, <2>2, <2>3, <2>4
<1>5. QED
      BY <1>3, <1>4

\* g is what is left of f when its first event is delivered.
Rest(f, g) ==
  /\ f # <<>> /\ Len(g) = Len(f) - 1
  /\ \A i \in 1..(Len(f) - 1) : g[i] = f[i + 1]

\* What is in its turn stays so, counted from the end.
LEMMA TurnOfRest ==
  ASSUME NEW f \in Seq(Event), NEW g, Rest(f, g), NEW rt, NEW next \in Nat,
         NEW L \in 0..Len(g), NEW M \in {0, L + 1}, InTurn(f, M, rt, next)
  PROVE  InTurn(g, L, rt, next)
<1> DEFINE n == Len(f)
<1>1. n \in Nat \ {0} /\ Len(g) = n - 1 /\ \A i \in 1..(n - 1) : g[i] = f[i + 1]
      BY DEF Rest
<1> HIDE DEF n
<1> SUFFICES ASSUME NEW i \in (L + 1)..Len(g)
             PROVE  g[i].item = <<rt, next - (Len(g) + 1 - i)>>
    BY DEF InTurn
<1>2. i \in Nat /\ i \in 1..(n - 1) /\ i + 1 \in (M + 1)..n
      BY <1>1
<1>3. g[i] = f[i + 1] /\ f[i + 1].item = <<rt, next - (n + 1 - (i + 1))>>
      BY <1>1, <1>2 DEF InTurn, n
<1>4. n + 1 - (i + 1) = Len(g) + 1 - i
      BY <1>1, <1>2
<1>5. QED
      BY <1>3, <1>4

\* The events that only requests come after are the same, one place further.
LEMMA RequestsOfRest ==
  ASSUME NEW f \in Seq(Event), NEW g, Rest(f, g), NEW L \in 0..Len(g), OnlyRequests(g, L)
  PROVE  /\ L # 0 \/ f[1].type # "request" => OnlyRequests(f, L + 1)
         /\ L = 0 /\ f[1].type = "request" => OnlyRequests(f, 0)
<1> DEFINE n == Len(f)
<1>1. n \in Nat \ {0} /\ Len(g) = n - 1 /\ \A i \in 1..(n - 1) : g[i] = f[i + 1]
      BY DEF Rest
<1> HIDE DEF n
<1>2. L \in Nat /\ L <= n - 1
      BY <1>1
<1>3. \A i \in (L + 2)..n : f[i].type = "request"
  <2> SUFFICES ASSUME NEW i \in (L + 2)..n PROVE f[i].type = "request"
      OBVIOUS
  <2>1. i - 1 \in (L + 1)..Len(g) /\ i - 1 \in 1..(n - 1) /\ (i - 1) + 1 = i
        BY <1>1, <1>2
  <2>2. g[i - 1].type = "request" /\ g[i - 1] = f[i]
        BY <1>1, <2>1 DEF OnlyRequests
  <2>3. QED
        BY <2>2
<1>4. ASSUME L # 0 \/ f[1].type # "request" PROVE OnlyRequests(f, L + 1)
  <2>1. L + 1 \in 1..n /\ (L + 1) + 1 = L + 2
        BY <1>1, <1>2
  <2>2. f[L + 1].type # "request"
    <3>1. CASE L = 0
          BY <1>4, <3>1
    <3>2. CASE L # 0
      <4>1. L \in 1..(n - 1) /\ L > 0
            BY <1>2, <3>2
      <4>2. QED
            BY <1>1, <4>1 DEF OnlyRequests
    <3>3. QED
          BY <3>1, <3>2
  <2>3. QED
        BY <1>3, <2>1, <2>2 DEF OnlyRequests, n
<1>5. ASSUME L = 0, f[1].type = "request" PROVE OnlyRequests(f, 0)
  <2>1. \A i \in 1..n : i = 1 \/ i \in (L + 2)..n
        BY <1>1, <1>5
  <2>2. QED
        BY <1>3, <1>5, <2>1 DEF OnlyRequests, n
<1>6. QED
      BY <1>4, <1>5

\* The first event is not one of the last requests: their list is the same.
LEMMA RestBeyond ==
  ASSUME NEW f \in Seq(Event), NEW g, Rest(f, g), NEW list, NEW rt, NEW next \in Nat,
         NEW held, NEW from \in {0, 1}, LeadsTo(f, list, rt, next, held, from),
         NEW L \in 0..Len(g), OnlyRequests(g, L), L # 0 \/ f[1].type # "request"
  PROVE  /\ InTurn(g, L, rt, next)
         /\ Before(Met(f, L + 1, list), Len(g) - L, next)
         /\ GoesOn(Met(f, L + 1, list), Len(g) - L, rt, next, held)
<1>1. L + 1 \in 0..Len(f) /\ L + 1 # 0 /\ Len(f) - (L + 1) = Len(g) - L
  <2>1. Len(f) \in Nat /\ Len(g) = Len(f) - 1
        BY DEF Rest
  <2>2. QED
        BY <2>1
<1>2. OnlyRequests(f, L + 1)
      BY RequestsOfRest
<1>3. /\ InTurn(f, L + 1, rt, next)
      /\ Before(Met(f, L + 1, list), Len(f) - (L + 1), next)
      /\ GoesOn(Met(f, L + 1, list), Len(f) - (L + 1), rt, next, held)
      BY <1>1, <1>2 DEF LeadsTo
<1>4. InTurn(g, L, rt, next)
      BY <1>3, TurnOfRest
<1>5. QED
      BY <1>1, <1>3, <1>4

\* It is the first of them: it has its turn, and the list lacks them all.
LEMMA RestOfRequests ==
  ASSUME NEW f \in Seq(Event), NEW g, Rest(f, g), NEW list, NEW rt, NEW next \in Nat,
         NEW held, NEW from \in {0, 1}, LeadsTo(f, list, rt, next, held, from),
         OnlyRequests(g, 0), f[1].type = "request"
  PROVE  /\ InTurn(g, 0, rt, next) /\ f[1].item = <<rt, next - Len(f)>>
         /\ Before(list, Len(f), next)
         /\ 0 >= from => GoesOn(list, Len(f), rt, next, held)
<1>1. Len(f) \in Nat \ {0} /\ Len(g) = Len(f) - 1 /\ 0 \in 0..Len(g) /\ 0 \in 0..Len(f) /\ Len(f) - 0 = Len(f)
      BY DEF Rest
<1>2. OnlyRequests(f, 0)
      BY <1>1, RequestsOfRest
<1>3. /\ InTurn(f, 0, rt, next)
      /\ Before(list, Len(f), next)
      /\ 0 >= from => GoesOn(list, Len(f), rt, next, held)
      BY <1>1, <1>2 DEF LeadsTo, Met
<1>4. f[1].item = <<rt, next - Len(f)>>
  <2>1. 1 \in (0 + 1)..Len(f) /\ next - (Len(f) + 1 - 1) = next - Len(f)
        BY <1>1
  <2>2. f[1].item = <<rt, next - (Len(f) + 1 - 1)>>
        BY <1>3, <2>1 DEF InTurn
  <2>3. QED
        BY <2>1, <2>2
<1>5. InTurn(g, 0, rt, next)
      BY <1>1, <1>3, TurnOfRest
<1>6. QED
      BY <1>3, <1>4, <1>5

\* A snapshot or a clear is delivered: it makes the list that the requests after it meet.
LEMMA LeadsPastOther ==
  ASSUME NEW f \in Seq(Event), NEW g, NEW list, NEW list2, NEW rt, NEW next,
         NEW held, NEW from \in {0, 1}, NEW from2 \in {0, 1}, next \in Nat,
         Rest(f, g), LeadsTo(f, list, rt, next, held, from),
         f[1].type # "request", list2 = Met(f, 1, list)
  PROVE  LeadsTo(g, list2, rt, next, held, from2)
<1>1. SUFFICES ASSUME NEW L \in 0..Len(g), OnlyRequests(g, L)
               PROVE  /\ InTurn(g, L, rt, next)
                      /\ Before(Met(g, L, list2), Len(g) - L, next)
                      /\ GoesOn(Met(g, L, list2), Len(g) - L, rt, next, held)
      BY DEF LeadsTo
<1>2. /\ InTurn(g, L, rt, next)
      /\ Before(Met(f, L + 1, list), Len(g) - L, next)
      /\ GoesOn(Met(f, L + 1, list), Len(g) - L, rt, next, held)
      BY <1>1, RestBeyond
<1>3. Met(g, L, list2) = Met(f, L + 1, list)
  <2>1. L = 0 \/ L \in 1..(Len(f) - 1)
        BY DEF Rest
  <2>2. QED
        BY <2>1 DEF Met, Rest
<1>4. QED
      BY <1>2, <1>3

\* A request is delivered: it goes in front; were none of its number listed, of all the list.
LEMMA LeadsPastRequest ==
  ASSUME NEW f \in Seq(Event), NEW g, NEW list \in Seq(Item), NEW list2, NEW rt, NEW next,
         NEW held, NEW from \in {0, 1}, next \in Nat, held \in Nat,
         Rest(f, g), LeadsTo(f, list, rt, next, held, from),
         f[1].type = "request",
         (\A k \in 1..Len(list) : list[k][2] # f[1].item[2]) =>
           /\ Len(list2) = Len(list) + 1 /\ list2[1] = f[1].item
           /\ \A k \in 1..Len(list) : list2[k + 1] = list[k]
  PROVE  LeadsTo(g, list2, rt, next, held, from)
<1>1. SUFFICES ASSUME NEW L \in 0..Len(g), OnlyRequests(g, L)
               PROVE  /\ InTurn(g, L, rt, next)
                      /\ Before(Met(g, L, list2), Len(g) - L, next)
                      /\ L >= from => GoesOn(Met(g, L, list2), Len(g) - L, rt, next, held)
      BY DEF LeadsTo
<1>2. CASE L # 0
  <2>1. /\ InTurn(g, L, rt, next)
        /\ Before(Met(f, L + 1, list), Len(g) - L, next)
        /\ GoesOn(Met(f, L + 1, list), Len(g) - L, rt, next, held)
        BY <1>1, <1>2, RestBeyond
  <2>2. Met(g, L, list2) = Met(f, L + 1, list)
    <3>1. L \in 1..(Len(f) - 1)
          BY <1>2 DEF Rest
    <3>2. QED
          BY <1>2, <3>1 DEF Met, Rest
  <2>3. QED
        BY <2>1, <2>2
<1>3. CASE L = 0
  <2> DEFINE n == Len(f)
  <2>3. OnlyRequests(g, 0)
        BY <1>1, <1>3
  <2>6. /\ InTurn(g, 0, rt, next) /\ f[1].item = <<rt, next - Len(f)>>
        /\ Before(list, Len(f), next)
        /\ 0 >= from => GoesOn(list, Len(f), rt, next, held)
        BY <2>3, RestOfRequests
  <2>1. n \in Nat \ {0} /\ Len(g) - 0 = n - 1
        BY DEF Rest
  <2>2. /\ InTurn(g, 0, rt, next) /\ f[1].item = <<rt, next - n>>
        /\ Before(list, n, next)
        /\ 0 >= from => GoesOn(list, n, rt, next, held)
        BY <2>6
  <2>4. Met(g, 0, list2) = list2
        BY DEF Met
  <2>5. f[1].item[2] = next - n
        BY <2>2
  <2> HIDE DEF n
  <2>7. ASSUME NEW k \in 1..Len(list) PROVE list[k][2] # f[1].item[2] /\ list[k][2] < next - n
    <3>1. list[k] \in Item
          OBVIOUS
    <3>2. list[k][2] \in Nat
          BY <3>1 DEF Item
    <3>3. list[k][2] < next - n
          BY <2>2 DEF Before
    <3>4. QED
          BY <2>1, <2>5, <3>2, <3>3
  <2>8. /\ Len(list2) = Len(list) + 1 /\ list2[1] = <<rt, next - n>> /\ Len(list) \in Nat
        /\ \A k \in 1..Len(list) : list2[k + 1] = list[k]
        BY <2>2, <2>7
  <2>9. \A k \in 1..Len(list2) : k = 1 \/ (k - 1 \in 1..Len(list) /\ list2[k] = list[k - 1])
    <3> SUFFICES ASSUME NEW k \in 1..Len(list2), k # 1
                 PROVE  k - 1 \in 1..Len(list) /\ list2[k] = list[k - 1]
        OBVIOUS
    <3>1. k - 1 \in 1..Len(list) /\ (k - 1) + 1 = k
          BY <2>8
    <3>2. QED
          BY <2>8, <3>1
  <2>10. Before(list2, n - 1, next)
    <3> SUFFICES ASSUME NEW k \in 1..Len(list2) PROVE list2[k][2] < next - (n - 1)
        BY DEF Before
    <3>1. CASE k = 1
      <4>1. list2[k][2] = next - n
            BY <2>8, <3>1
      <4>2. QED
            BY <2>1, <4>1
    <3>2. CASE k # 1
      <4>1. k - 1 \in 1..Len(list) /\ list2[k] = list[k - 1]
            BY <2>9, <3>2
      <4>2. list[k - 1] \in Item
            BY <4>1
      <4>3. list[k - 1][2] \in Nat /\ list[k - 1][2] < next - n
            BY <2>7, <4>1, <4>2 DEF Item
      <4>4. \A x \in Nat : x < next - n => x < next - (n - 1)
            BY <2>1
      <4>5. QED
            BY <4>1, <4>3, <4>4
    <3>3. QED
          BY <3>1, <3>2
  <2>11. ASSUME GoesOn(list, n, rt, next, held) PROVE GoesOn(list2, n - 1, rt, next, held)
    <3>1. held <= (n - 1) + Len(list2)
          BY <2>1, <2>8, <2>11 DEF GoesOn
    <3>2. ASSUME NEW k \in 1..Len(list2), k + (n - 1) <= held
          PROVE  list2[k] = <<rt, next - (n - 1) - k>>
      <4>1. CASE k = 1
        <5>1. next - (n - 1) - k = next - n
              BY <2>1, <4>1
        <5>2. QED
              BY <2>8, <4>1, <5>1
      <4>2. CASE k # 1
        <5>1. k - 1 \in 1..Len(list) /\ list2[k] = list[k - 1]
              BY <2>9, <4>2
        <5>2. (k - 1) + n <= held /\ next - n - (k - 1) = next - (n - 1) - k
              BY <2>1, <3>2, <2>8
        <5>3. list[k - 1] = <<rt, next - n - (k - 1)>>
              BY <2>11, <5>1, <5>2 DEF GoesOn
        <5>4. QED
              BY <5>1, <5>2, <5>3
      <4>3. QED
            BY <4>1, <4>2
    <3>3. QED
          BY <3>1, <3>2, <2>1 DEF GoesOn
  <2>12. QED
        BY <1>3, <2>1, <2>2, <2>4, <2>10, <2>11
<1>4. QED
      BY <1>2, <1>3

\* All the positions: filter leaves the sequence as it is.
LEMMA KeptAll ==
  ASSUME NEW S, NEW s \in Seq(S), NEW P, 1..Len(s) \subseteq P
  PROVE  Kept(s, P) = s
<1> DEFINE it == CHOOSE i : KeptBy(i, s, P, Len(s))
           X == {k \in 0..Len(s) : it[k] # SubSeq(s, 1, k)}
<1>1. Len(s) \in Nat
      OBVIOUS
<1>2. KeptBy(it, s, P, Len(s))
      BY <1>1, KeptExists
<1>3. Kept(s, P) = it[Len(s)]
      BY KeptDef
<1> HIDE DEF it
<1>4. X = {}
  <2>1. SUFFICES ASSUME X # {} PROVE FALSE
        OBVIOUS
  <2>2. PICK k \in X : \A j \in X : k <= j
    <3>1. X \in SUBSET Nat
          BY <1>1
    <3>2. QED
      <4> HIDE DEF X
      <4>1. QED
            BY <2>1, <3>1, SmallestNat
  <2>3. k \in 0..Len(s) /\ it[k] # SubSeq(s, 1, k)
        BY <2>2
  <2>4. CASE k = 0
    <3>1. it[0] = <<>> /\ SubSeq(s, 1, 0) = <<>>
          BY <1>1, <1>2 DEF KeptBy
    <3>2. QED
          BY <2>3, <2>4, <3>1
  <2>5. CASE k # 0
    <3>1. k - 1 \in 0..Len(s) /\ k - 1 \notin X /\ k \in 1..Len(s) /\ k \in P
          BY <1>1, <2>2, <2>3, <2>5
    <3>2. it[k - 1] = SubSeq(s, 1, k - 1)
          BY <3>1
    <3>3. it[k] = Append(it[k - 1], s[k])
          BY <1>1, <1>2, <2>3, <2>5, <3>1 DEF KeptBy
    <3>4. Append(SubSeq(s, 1, k - 1), s[k]) = SubSeq(s, 1, k)
      <4> HIDE DEF X
      <4> DEFINE a == SubSeq(s, 1, k - 1)
                 b == SubSeq(s, 1, k)
      <4>1. /\ a \in Seq(S) /\ Len(a) = k - 1 /\ \A i \in 1..(k - 1) : a[i] = s[i]
            /\ b \in Seq(S) /\ Len(b) = k /\ \A i \in 1..k : b[i] = s[i]
            BY <1>1, <3>1
      <4>2. s[k] \in S
            BY <3>1
      <4> HIDE DEF a, b
      <4>3. Append(a, s[k]) \in Seq(S) /\ Len(Append(a, s[k])) = Len(b)
            BY <3>1, <4>1, <4>2
      <4>4. \A i \in 1..Len(b) : Append(a, s[k])[i] = b[i]
            BY <3>1, <4>1, <4>2
      <4>5. Append(a, s[k]) = b
            BY <4>1, <4>3, <4>4, SameList
      <4>6. QED
            BY <4>5 DEF a, b
    <3>5. QED
          BY <2>3, <3>2, <3>3, <3>4
  <2>6. QED
        BY <2>4, <2>5
<1>5. it[Len(s)] = SubSeq(s, 1, Len(s))
      BY <1>1, <1>4
<1>6. SubSeq(s, 1, Len(s)) = s
      OBVIOUS
<1>7. QED
      BY <1>3, <1>5, <1>6

\* An event that is no snapshot, of the same engine, goes at the end.
LEMMA FedMore ==
  ASSUME NEW f \in Seq(Event), NEW g, More(f, g), NEW declared, NEW by,
         FedBy(f, declared) = by, Fed(f, by), g[Len(f) + 1].type # "snapshot",
         g[Len(f) + 1].type = "request" => g[Len(f) + 1].item[1] = by
  PROVE  FedBy(g, declared) = by /\ Fed(g, by)
<1>1. /\ Len(f) \in Nat /\ (f = <<>> <=> Len(f) = 0)
      /\ Len(g) = Len(f) + 1 /\ g # <<>> /\ \A i \in 1..Len(f) : g[i] = f[i]
      BY DEF More
<1>2. FedBy(g, declared) = by
  <2>1. CASE f = <<>>
    <3>1. g[1].type # "snapshot"
          BY <1>1, <2>1
    <3>2. QED
          BY <2>1, <3>1 DEF FedBy
  <2>2. CASE f # <<>>
    <3>1. g[1] = f[1]
          BY <1>1, <2>2
    <3>2. QED
          BY <1>1, <2>2, <3>1 DEF FedBy
  <2>3. QED
        BY <2>1, <2>2
<1>3. Fed(g, by)
  <2>1. \A i \in 1..Len(g) : i \in 1..Len(f) \/ i = Len(f) + 1
        BY <1>1
  <2>2. QED
        BY <1>1, <2>1 DEF Fed
<1>4. QED
      BY <1>2, <1>3

\* The first is delivered: what it declares is declared for the rest.
LEMMA FedLess ==
  ASSUME NEW f \in Seq(Event), NEW g \in Seq(Event), Rest(f, g), NEW declared, NEW declared2,
         declared2 = FedBy(f, declared), Fed(f, FedBy(f, declared))
  PROVE  FedBy(g, declared2) = declared2 /\ Fed(g, declared2)
<1>1. Len(f) \in Nat \ {0} /\ Len(g) = Len(f) - 1 /\ \A i \in 1..(Len(f) - 1) : g[i] = f[i + 1]
      BY DEF Rest
<1>2. \A i \in 1..Len(g) : i + 1 \in 1..Len(f) /\ g[i] = f[i + 1] /\ i + 1 # 1
      BY <1>1
<1>3. \A i \in 1..Len(g) :
        /\ g[i].type # "snapshot"
        /\ g[i].type = "request" => g[i].item[1] = declared2
      BY <1>2 DEF Fed
<1>4. Fed(g, declared2)
      BY <1>3 DEF Fed
<1>5. FedBy(g, declared2) = declared2
  <2> SUFFICES ASSUME g # <<>>, g[1].type = "snapshot" PROVE FALSE
      BY DEF FedBy
  <2>1. 1 \in 1..Len(g)
        OBVIOUS
  <2>2. QED
        BY <1>3, <2>1
<1>6. QED
      BY <1>4, <1>5

\* The buffer newest first: numbers that go down one by one from the last.
LEMMA NewestOf ==
  ASSUME BufferInv
  PROVE  /\ Newest(entries) \in Seq(Item) /\ Len(Newest(entries)) = Len(entries)
         /\ Len(entries) \in Nat /\ runtime \in Nat /\ nextId \in Nat
         /\ \A k \in 1..Len(entries) : Newest(entries)[k] = <<runtime, nextId - k>>
         /\ IsInjective(Newest(entries))
         /\ Before(Newest(entries), 0, nextId)
         /\ GoesOn(Newest(entries), 0, runtime, nextId, Len(entries))
<1> DEFINE n == Len(entries)
           list == Newest(entries)
<1>1. n \in Nat /\ runtime \in Nat /\ nextId \in Nat /\ n < nextId /\ DOMAIN entries = 1..n
      BY MonitorBoundAssumption DEF BufferInv
<1>2. list = [k \in 1..n |-> <<runtime, entries[(n - k) + 1].id>>]
  <2> DEFINE s == [i \in DOMAIN entries |-> <<runtime, entries[i].id>>]
  <2>1. Len(s) = n
        BY <1>1
  <2>2. \A k \in 1..n : s[(n - k) + 1] = <<runtime, entries[(n - k) + 1].id>>
        BY <1>1
  <2>3. list = Reverse(s)
        BY DEF Newest
  <2> HIDE DEF s, list, n
  <2>4. Reverse(s) = [k \in 1..n |-> s[(n - k) + 1]]
        BY <2>1 DEF Reverse
  <2>5. QED
        BY <2>2, <2>3, <2>4 DEF n
<1>3. \A k \in 1..n : <<runtime, entries[(n - k) + 1].id>> = <<runtime, nextId - k>>
  <2> SUFFICES ASSUME NEW k \in 1..n PROVE entries[(n - k) + 1].id = nextId - k
      OBVIOUS
  <2>1. (n - k) + 1 \in 1..n /\ nextId - n - 1 + ((n - k) + 1) = nextId - k
        BY <1>1
  <2>2. QED
        BY <2>1 DEF BufferInv
<1> HIDE DEF list
<1>4. list = [k \in 1..n |-> <<runtime, nextId - k>>]
      BY <1>2, <1>3
<1>5. \A k \in 1..n : <<runtime, nextId - k>> \in Item
  <2>1. \A k \in 1..n : nextId - k \in Nat
        BY <1>1
  <2>2. QED
        BY <1>1, <2>1 DEF Item
<1>6. list \in Seq(Item) /\ Len(list) = n
      BY <1>1, <1>4, <1>5
<1>7. \A k \in 1..n : list[k] = <<runtime, nextId - k>>
      BY <1>4
<1>8. IsInjective(list)
  <2>1. ASSUME NEW a \in 1..n, NEW b \in 1..n, list[a] = list[b] PROVE a = b
    <3>1. nextId - a = nextId - b
          BY <1>7, <2>1
    <3>2. QED
          BY <1>1, <3>1
  <2>2. DOMAIN list = 1..n
        BY <1>4
  <2>3. QED
        BY <2>1, <2>2 DEF IsInjective
<1>9. Before(list, 0, nextId)
  <2>1. \A k \in 1..n : list[k][2] = nextId - k /\ nextId - k < nextId - 0
        BY <1>1, <1>7
  <2>2. QED
        BY <1>6, <2>1 DEF Before
<1>10. GoesOn(list, 0, runtime, nextId, n)
  <2>1. n <= 0 + n /\ nextId - 0 = nextId
        BY <1>1
  <2>2. QED
        BY <1>6, <1>7, <2>1 DEF GoesOn
<1>11. QED
      BY <1>1, <1>6, <1>7, <1>8, <1>9, <1>10 DEF list

\* A request goes in front, in the place of an entry with its number.
LEMMA ListedAs ==
  ASSUME shown \in Seq(Item), IsInjective(shown), NEW item \in Item
  PROVE  /\ Listed(item) \in Seq(Item) /\ IsInjective(Listed(item))
         /\ \A i \in 1..Len(Listed(item)) :
              Listed(item)[i] = item \/ \E j \in 1..Len(shown) : Listed(item)[i] = shown[j]
         /\ (\A k \in 1..Len(shown) : shown[k][2] # item[2]) =>
              /\ Len(Listed(item)) = Len(shown) + 1 /\ Listed(item)[1] = item
              /\ \A k \in 1..Len(shown) : Listed(item)[k + 1] = shown[k]
<1> DEFINE P == {i \in DOMAIN shown : shown[i][2] # item[2]}
           kept == Kept(shown, P)
<1>1. DOMAIN shown = 1..Len(shown) /\ Len(shown) \in Nat
      OBVIOUS
<1>2. P \in SUBSET (1..Len(shown)) /\ \A p \in P : shown[p] \in Item /\ shown[p][2] # item[2]
      BY <1>1
<1>3. (\A k \in 1..Len(shown) : shown[k][2] # item[2]) => kept = shown
  <2>1. ASSUME \A k \in 1..Len(shown) : shown[k][2] # item[2] PROVE 1..Len(shown) \subseteq P
        BY <1>1, <2>1
  <2> HIDE DEF P
  <2>2. QED
        BY <2>1, KeptAll
<1> HIDE DEF P
<1>4. PICK m \in Nat : \E at : Enumerates(at, m, P) /\ kept = [i \in 1..m |-> shown[at[i]]]
      BY <1>2, KeptAt
<1>5. PICK at : Enumerates(at, m, P) /\ kept = [i \in 1..m |-> shown[at[i]]]
      BY <1>4
<1> HIDE DEF kept
<1>6. \A i \in 1..m : at[i] \in P /\ kept[i] = shown[at[i]] /\ kept[i] \in Item /\ kept[i][2] # item[2]
      BY <1>2, <1>5 DEF Enumerates
<1>7. kept \in Seq(Item) /\ Len(kept) = m
      BY <1>5, <1>6
<1>8. \A i, j \in 1..m : kept[i] = kept[j] => i = j
  <2> SUFFICES ASSUME NEW i \in 1..m, NEW j \in 1..m, kept[i] = kept[j] PROVE i = j
      OBVIOUS
  <2>1. at[i] \in 1..Len(shown) /\ at[j] \in 1..Len(shown)
        BY <1>2, <1>6
  <2>2. at[i] = at[j]
        BY <1>1, <1>6, <2>1 DEF IsInjective
  <2>3. ~(i < j) /\ ~(j < i)
        BY <1>5, <2>1, <2>2 DEF Enumerates
  <2>4. QED
        BY <2>3
<1>9. Listed(item) = <<item>> \o kept
      BY DEF Listed, kept, P
<1> DEFINE all == <<item>> \o kept
<1>10. /\ all \in Seq(Item) /\ Len(all) = m + 1 /\ all[1] = item
       /\ \A k \in 1..m : all[k + 1] = kept[k]
      BY <1>7
<1> HIDE DEF all
<1>11. \A i \in 1..(m + 1) : i = 1 \/ (i - 1 \in 1..m /\ all[i] = kept[i - 1])
  <2> SUFFICES ASSUME NEW i \in 1..(m + 1), i # 1 PROVE i - 1 \in 1..m /\ all[i] = kept[i - 1]
      OBVIOUS
  <2>1. i - 1 \in 1..m /\ (i - 1) + 1 = i
        OBVIOUS
  <2>2. QED
        BY <1>10, <2>1
<1>12. ASSUME NEW i \in 1..(m + 1), NEW j \in 1..(m + 1), all[i] = all[j] PROVE i = j
  <2>1. CASE i = 1 /\ j = 1
        BY <2>1
  <2>2. CASE i = 1 /\ j # 1
        BY <1>6, <1>10, <1>11, <1>12, <2>2
  <2>3. CASE i # 1 /\ j = 1
        BY <1>6, <1>10, <1>11, <1>12, <2>3
  <2>4. CASE i # 1 /\ j # 1
    <3>1. i - 1 \in 1..m /\ j - 1 \in 1..m /\ kept[i - 1] = kept[j - 1]
          BY <1>11, <1>12, <2>4
    <3>2. i - 1 = j - 1
          BY <1>8, <3>1
    <3>3. QED
          BY <3>2
  <2>5. QED
        BY <2>1, <2>2, <2>3, <2>4
<1>13. IsInjective(all)
  <2>1. DOMAIN all = 1..(m + 1)
        BY <1>10
  <2>2. QED
        BY <1>12, <2>1 DEF IsInjective
<1>14. \A i \in 1..Len(all) : all[i] = item \/ \E j \in 1..Len(shown) : all[i] = shown[j]
  <2> SUFFICES ASSUME NEW i \in 1..(m + 1), i # 1 PROVE \E j \in 1..Len(shown) : all[i] = shown[j]
      BY <1>10
  <2>1. i - 1 \in 1..m /\ all[i] = kept[i - 1]
        BY <1>11
  <2>2. at[i - 1] \in 1..Len(shown) /\ all[i] = shown[at[i - 1]]
        BY <1>2, <1>6, <2>1
  <2>3. QED
        BY <2>2
<1>15. (\A k \in 1..Len(shown) : shown[k][2] # item[2]) =>
         /\ Len(all) = Len(shown) + 1 /\ all[1] = item
         /\ \A k \in 1..Len(shown) : all[k + 1] = shown[k]
      BY <1>3, <1>7, <1>10
<1>16. QED
      BY <1>9, <1>10, <1>13, <1>14, <1>15 DEF all

-------------------------------------------------------------------------------
(* The steps of the live list.                                             *)

\* The list is empty, and the stream opens.
LEMMA StreamBegins == InitStream => StreamInv
<1> SUFFICES ASSUME InitStream PROVE StreamInv
    OBVIOUS
<1>1. shown = <<>> /\ shownRuntime = 0 /\ streaming = TRUE /\ link = Opening
      BY DEF InitStream
<1>2. Opening \in [accepted : BOOLEAN, broken : BOOLEAN, feed : Seq(Event)]
      /\ Opening.accepted = FALSE /\ Opening.feed = <<>>
      BY DEF Opening
<1>3. LinkTyped
      BY <1>1, <1>2 DEF LinkTyped
<1>4. ShownInv /\ FeedInv
      BY <1>1, <1>2 DEF ShownInv, FeedInv, IsInjective
<1>5. QED
      BY <1>3, <1>4 DEF StreamInv

\* The stream closes or opens again; what is listed may be declared of no known engine.
LEMMA ReopenKeeps ==
  ASSUME StreamInv, shown' = shown, shownRuntime' \in {shownRuntime, 0},
         link' \in {NoLink, Opening}, link' # NoLink => streaming'
  PROVE  StreamInv'
<1>1. Opening \in [accepted : BOOLEAN, broken : BOOLEAN, feed : Seq(Event)]
      /\ Opening.accepted = FALSE /\ Opening.feed = <<>>
      BY DEF Opening
<1>2. LinkTyped'
      BY <1>1 DEF StreamInv, LinkTyped
<1>3. ShownInv'
      BY DEF StreamInv, ShownInv
<1>4. FeedInv'
      BY <1>1 DEF FeedInv
<1>5. QED
      BY <1>2, <1>3, <1>4 DEF StreamInv

\* Nothing that the stream or its buffer is made of changes.
LEMMA UnmovedKeeps ==
  ASSUME StreamInv, UNCHANGED <<shown, shownRuntime, streaming, link, wiped, runtime, nextId, entries>>
  PROVE  StreamInv'
BY DEF StreamInv, LinkTyped, ShownInv, FeedInv, From

\* What there is to know of a connection.
LEMMA LinkFields ==
  ASSUME LinkTyped, link # NoLink
  PROVE  /\ link.accepted \in BOOLEAN /\ link.broken \in BOOLEAN /\ link.feed \in Seq(Event)
         /\ DOMAIN link = {"accepted", "broken", "feed"}
         /\ link = [accepted |-> link.accepted, broken |-> link.broken, feed |-> link.feed]
         /\ streaming
BY DEF LinkTyped

\* The wiped list does not count.
LEMMA FromTyped == From \in {0, 1}
BY DEF From

\* The subscription of the stream hears of a request or of a clear.
LEMMA HearsKeeps ==
  ASSUME StreamInv, BufferInv, NEW e \in Event, link' = Hears(e),
         UNCHANGED <<shown, shownRuntime, streaming, wiped, runtime>>,
         \/ /\ e.type = "request" /\ e.item = <<runtime, nextId>> /\ nextId' = nextId + 1
            /\ Len(entries') \in Nat /\ Len(entries') <= Len(entries) + 1
         \/ e.type = "clear" /\ nextId' = nextId /\ Len(entries') = 0
  PROVE  StreamInv'
<1>1. LinkTyped /\ ShownInv /\ FeedInv
      BY DEF StreamInv
<1>2. ShownInv'
      BY <1>1 DEF ShownInv
<1>3. From' = From /\ From \in {0, 1}
      BY DEF From
<1>4. CASE link # NoLink /\ link.accepted /\ ~link.broken
  <2> DEFINE f == link.feed
             g == Append(link.feed, e)
  <2>1. link' = [link EXCEPT !.feed = g]
        BY <1>4 DEF Hears
  <2>2. /\ f \in Seq(Event) /\ DOMAIN link = {"accepted", "broken", "feed"} /\ streaming
        /\ link.accepted \in BOOLEAN /\ link.broken \in BOOLEAN
        BY <1>1, <1>4, LinkFields
  <2>3. g \in Seq(Event) /\ More(f, g) /\ g[Len(f) + 1] = e
        BY <2>2, OneMore DEF More
  <2> HIDE DEF g
  <2>4. link' = [accepted |-> TRUE, broken |-> FALSE, feed |-> g]
        BY <1>1, <1>4, <2>1, LinkFields
  <2>5. /\ Fed(f, runtime) /\ FedBy(f, shownRuntime) = runtime
        /\ LeadsTo(f, shown, runtime, nextId, Len(entries), From)
        BY <1>1, <1>4 DEF FeedInv
  <2>6. shown \in Seq(Item)
        BY <1>1 DEF LinkTyped
  <2>7. nextId \in Nat /\ Len(entries) \in Nat
        BY MonitorBoundAssumption DEF BufferInv
  <2> HIDE DEF f
  <2>8. e.type # "snapshot" /\ (e.type = "request" => e.item[1] = runtime)
        OBVIOUS
  <2>9. FedBy(g, shownRuntime) = runtime /\ Fed(g, runtime)
        BY <2>2, <2>3, <2>5, <2>8, FedMore
  <2>10. LeadsTo(g, shown, runtime, nextId', Len(entries'), From)
    <3>1. CASE e.type = "request"
      <4>1. e.item = <<runtime, nextId>> /\ nextId' = nextId + 1
            /\ Len(entries') \in Nat /\ Len(entries') <= Len(entries) + 1
            BY <3>1
      <4> DEFINE held == Len(entries)
                 held2 == Len(entries')
      <4>2. /\ held \in Nat /\ held2 \in Nat /\ held2 <= held + 1
            /\ LeadsTo(f, shown, runtime, nextId, held, From)
            BY <2>5, <2>7, <4>1
      <4> HIDE DEF held, held2
      <4>3. f \in Seq(Event) /\ More(f, g) /\ From \in {0, 1}
            BY <1>3, <2>2, <2>3
      <4>5. nextId \in Nat /\ nextId' \in Nat /\ nextId' = nextId + 1
            BY <2>7, <4>1
      <4>6. g[Len(f) + 1].type = "request" /\ g[Len(f) + 1].item = <<runtime, nextId>>
            BY <2>3, <3>1, <4>1
      <4>7. LeadsTo(g, shown, runtime, nextId', held2, From)
            BY <2>6, <4>2, <4>3, <4>5, <4>6, LeadsOnRequest
      <4>4. QED
            BY <4>7 DEF held2
    <3>2. CASE e.type = "clear"
      <4>1. nextId' = nextId /\ Len(entries') = 0
            BY <3>2
      <4>2. LeadsTo(g, shown, runtime, nextId, 0, From)
            BY <1>3, <2>2, <2>3, <2>7, <3>2, LeadsOnClear
      <4>3. QED
            BY <4>1, <4>2
    <3>3. QED
          BY <3>1, <3>2
  <2>11. link'.feed = g /\ link'.accepted = TRUE /\ link'.broken = FALSE
         BY <2>4
  <2>12. LinkTyped'
    <3>1. link' \in [accepted : BOOLEAN, broken : BOOLEAN, feed : Seq(Event)]
          BY <2>3, <2>4
    <3>2. QED
          BY <2>2, <2>6, <2>11, <3>1 DEF LinkTyped
  <2>13. FeedInv'
         BY <1>3, <2>9, <2>10, <2>11 DEF FeedInv
  <2>14. QED
         BY <1>2, <2>12, <2>13 DEF StreamInv
<1>5. CASE ~(link # NoLink /\ link.accepted /\ ~link.broken)
  <2>1. link' = link
        BY <1>5 DEF Hears
  <2>2. LinkTyped' /\ FeedInv'
        BY <1>1, <1>5, <2>1 DEF LinkTyped, FeedInv
  <2>3. QED
        BY <1>2, <2>2 DEF StreamInv
<1>6. QED
      BY <1>4, <1>5

\* The engine goes down: what the broken connection still carries stays of one engine.
LEMMA RestartLeaves ==
  ASSUME StreamInv, HearsRestart
  PROVE  StreamInv'
<1>1. LinkTyped /\ ShownInv /\ FeedInv
      BY DEF StreamInv
<1>2. UNCHANGED <<shown, shownRuntime, streaming>>
      BY DEF HearsRestart
<1>3. ShownInv'
      BY <1>1, <1>2 DEF ShownInv
<1>4. CASE link = NoLink
  <2>1. link' = NoLink
        BY <1>4 DEF HearsRestart
  <2>2. LinkTyped' /\ FeedInv'
        BY <1>1, <1>2, <2>1 DEF LinkTyped, FeedInv
  <2>3. QED
        BY <1>3, <2>2 DEF StreamInv
<1>5. CASE link # NoLink
  <2>1. link' = [link EXCEPT !.broken = TRUE]
        BY <1>5 DEF HearsRestart
  <2>2. /\ link'.accepted = link.accepted /\ link'.broken = TRUE /\ link'.feed = link.feed
        /\ link' \in [accepted : BOOLEAN, broken : BOOLEAN, feed : Seq(Event)]
        BY <1>1, <1>5, <2>1 DEF LinkTyped
  <2>3. LinkTyped'
        BY <1>1, <1>2, <1>5, <2>2 DEF LinkTyped
  <2>4. FeedInv'
        BY <1>1, <1>2, <1>5, <2>2 DEF FeedInv
  <2>5. QED
        BY <1>3, <2>3, <2>4 DEF StreamInv
<1>6. QED
      BY <1>4, <1>5

\* The stream is accepted: it begins with the buffer.
LEMMA AcceptKeeps ==
  ASSUME StreamInv, BufferInv, StreamAccepted, UNCHANGED monitorVars
  PROVE  StreamInv'
<1>1. LinkTyped /\ ShownInv
      BY DEF StreamInv
<1>2. /\ link # NoLink /\ link' = [link EXCEPT !.accepted = TRUE, !.feed = <<Snapshot>>]
      /\ UNCHANGED <<shown, shownRuntime, streaming, wiped, runtime, nextId, entries>>
      /\ ~link.broken
      BY DEF StreamAccepted, monitorVars
<1>3. link' = [accepted |-> TRUE, broken |-> FALSE, feed |-> <<Snapshot>>] /\ streaming
      BY <1>1, <1>2, LinkFields
<1> DEFINE g == <<Snapshot>>
<1>4. /\ Newest(entries) \in Seq(Item) /\ IsInjective(Newest(entries)) /\ runtime \in Nat
      /\ Len(Newest(entries)) = Len(entries) /\ Len(entries) \in Nat /\ nextId \in Nat
      /\ \A k \in 1..Len(entries) : Newest(entries)[k] = <<runtime, nextId - k>>
      /\ Before(Newest(entries), 0, nextId)
      /\ GoesOn(Newest(entries), 0, runtime, nextId, Len(entries))
      BY NewestOf
<1>5. /\ Snapshot.type = "snapshot" /\ Snapshot.runtime = runtime /\ Snapshot.items = Newest(entries)
      /\ Snapshot \in Event
      BY <1>4 DEF Snapshot, Event
<1>6. Len(g) = 1 /\ g[1] = Snapshot /\ g # <<>> /\ g \in Seq(Event)
      BY <1>5
<1> HIDE DEF g
<1>7. FedBy(g, shownRuntime) = runtime
      BY <1>5, <1>6 DEF FedBy
<1>8. Fed(g, runtime)
  <2>1. \A k \in 1..Len(entries) : Newest(entries)[k][1] = runtime
        BY <1>4
  <2>2. \A i \in 1..Len(g) : i = 1
        BY <1>6
  <2>3. QED
        BY <1>4, <1>5, <1>6, <2>1, <2>2 DEF Fed
<1>9. LeadsTo(g, shown, runtime, nextId, Len(entries), From)
      BY <1>4, <1>5, <1>6, FromTyped, LeadsFromSnapshot
<1>10. link'.accepted = TRUE /\ link'.broken = FALSE /\ link'.feed = g
       BY <1>3 DEF g
<1>11. LinkTyped'
  <2>1. link' \in [accepted : BOOLEAN, broken : BOOLEAN, feed : Seq(Event)]
        BY <1>3, <1>6 DEF g
  <2>2. QED
        BY <1>1, <1>2, <1>3, <1>10, <2>1 DEF LinkTyped
<1>12. FeedInv'
  <2>1. From' = From
        BY <1>2 DEF From
  <2>2. QED
        BY <1>2, <1>7, <1>8, <1>9, <1>10, <2>1 DEF FeedInv
<1>13. ShownInv'
       BY <1>1, <1>2 DEF ShownInv
<1>14. QED
       BY <1>11, <1>12, <1>13 DEF StreamInv

\* An event is delivered: what is left leads the new list to the buffer.
LEMMA DeliverKeeps ==
  ASSUME StreamInv, BufferInv, Deliver, UNCHANGED monitorVars
  PROVE  StreamInv'
<1> DEFINE f == link.feed
           g == Tail(link.feed)
           event == Head(link.feed)
<1>1. LinkTyped /\ ShownInv /\ FeedInv
      BY DEF StreamInv
<1>2. /\ link # NoLink /\ f # <<>> /\ link' = [link EXCEPT !.feed = g]
      /\ UNCHANGED <<streaming, runtime, nextId, entries>>
      BY DEF Deliver, monitorVars
<1>3. /\ f \in Seq(Event) /\ DOMAIN link = {"accepted", "broken", "feed"} /\ streaming
      /\ link.accepted \in BOOLEAN /\ link.broken \in BOOLEAN
      /\ link = [accepted |-> link.accepted, broken |-> link.broken, feed |-> f]
      BY <1>1, <1>2, LinkFields
<1>4. link.accepted
      BY <1>1, <1>2, <1>3 DEF LinkTyped
<1>5. g \in Seq(Event) /\ Rest(f, g) /\ event = f[1] /\ event \in Event /\ Len(f) \in Nat \ {0}
  <2>1. /\ g \in Seq(Event) /\ Len(g) = Len(f) - 1 /\ Len(f) \in Nat \ {0}
        /\ event = f[1] /\ f[1] \in Event
        /\ \A i \in 1..(Len(f) - 1) : g[i] = f[i + 1]
        BY <1>2, <1>3, OneLess
  <2>2. QED
        BY <1>2, <2>1 DEF Rest
<1>6. /\ event.type \in {"snapshot", "request", "clear"}
      /\ event.type = "snapshot" => event.items \in Seq(Item)
      /\ event.type = "request" => event.item \in Item
      BY <1>5, EventFields
<1>7. /\ event.type = "snapshot" => shownRuntime' = event.runtime /\ shown' = event.items /\ wiped' = FALSE
      /\ event.type = "clear" => shown' = <<>> /\ wiped' = FALSE /\ shownRuntime' = shownRuntime
      /\ event.type = "request" =>
           shown' = Listed(event.item) /\ shownRuntime' = shownRuntime /\ wiped' = wiped
      BY <1>6 DEF Deliver
<1>8. link' = [accepted |-> TRUE, broken |-> link.broken, feed |-> g]
      BY <1>2, <1>3, <1>4
<1> HIDE DEF f, g, event
<1>9. link'.accepted = TRUE /\ link'.broken = link.broken /\ link'.feed = g
      BY <1>8
<1>10. shown \in Seq(Item) /\ IsInjective(shown)
       BY <1>1 DEF LinkTyped, ShownInv
<1>11. /\ event.type = "request" =>
            /\ Listed(event.item) \in Seq(Item) /\ IsInjective(Listed(event.item))
            /\ \A i \in 1..Len(Listed(event.item)) :
                 Listed(event.item)[i] = event.item
                   \/ \E j \in 1..Len(shown) : Listed(event.item)[i] = shown[j]
            /\ (\A k \in 1..Len(shown) : shown[k][2] # event.item[2]) =>
                 /\ Len(Listed(event.item)) = Len(shown) + 1 /\ Listed(event.item)[1] = event.item
                 /\ \A k \in 1..Len(shown) : Listed(event.item)[k + 1] = shown[k]
       BY <1>6, <1>10, ListedAs
<1>12. shown' \in Seq(Item)
  <2>1. CASE event.type = "snapshot"
        BY <1>6, <1>7, <2>1
  <2>2. CASE event.type = "clear"
        BY <1>7, <2>2
  <2>3. CASE event.type = "request"
        BY <1>7, <1>11, <2>3
  <2>4. QED
        BY <1>6, <2>1, <2>2, <2>3
<1>13. LinkTyped'
  <2>1. link' \in [accepted : BOOLEAN, broken : BOOLEAN, feed : Seq(Event)]
        BY <1>3, <1>5, <1>8
  <2>2. QED
        BY <1>2, <1>3, <1>9, <1>12, <2>1 DEF LinkTyped
<1>14. Fed(f, FedBy(f, shownRuntime))
       BY <1>1, <1>2, <1>4 DEF FeedInv, f
<1>15. shownRuntime' = FedBy(f, shownRuntime)
       BY <1>2, <1>5, <1>6, <1>7 DEF FedBy
<1>16. FedBy(g, shownRuntime') = shownRuntime' /\ Fed(g, shownRuntime')
       BY <1>3, <1>5, <1>14, <1>15, FedLess
<1>17. ShownInv'
  <2>1. /\ event.type = "request" => event.item[1] = shownRuntime'
        /\ event.type = "snapshot" => /\ IsInjective(event.items)
                                      /\ \A k \in 1..Len(event.items) : event.items[k][1] = shownRuntime'
    <3>1. 1 \in 1..Len(f)
          BY <1>5
    <3>2. QED
          BY <1>5, <1>14, <1>15, <3>1 DEF Fed
  <2>2. CASE event.type = "snapshot"
        BY <1>7, <2>1, <2>2 DEF ShownInv
  <2>3. CASE event.type = "clear"
    <3>1. shown' = <<>> /\ IsInjective(<<>>)
          BY <1>7, <2>3 DEF IsInjective
    <3>2. QED
          BY <3>1 DEF ShownInv
  <2>4. CASE event.type = "request"
    <3>1. shown' = Listed(event.item) /\ shownRuntime' = shownRuntime /\ event.item[1] = shownRuntime
          BY <1>7, <2>1, <2>4
    <3>2. IsInjective(shown')
          BY <1>11, <2>4, <3>1
    <3>3. ASSUME shownRuntime' # 0, NEW i \in 1..Len(shown') PROVE shown'[i][1] = shownRuntime'
      <4>1. shown'[i] = event.item \/ \E j \in 1..Len(shown) : shown'[i] = shown[j]
            BY <1>11, <2>4, <3>1, <3>3
      <4>2. \A j \in 1..Len(shown) : shown[j][1] = shownRuntime
            BY <1>1, <3>1, <3>3 DEF ShownInv
      <4>3. QED
            BY <3>1, <4>1, <4>2
    <3>4. QED
          BY <3>2, <3>3 DEF ShownInv
  <2>5. QED
        BY <1>6, <2>2, <2>3, <2>4
<1>18. ASSUME ~link.broken
       PROVE  /\ shownRuntime' = runtime
              /\ LeadsTo(g, shown', runtime, nextId, Len(entries), From')
  <2>1. /\ FedBy(f, shownRuntime) = runtime
        /\ LeadsTo(f, shown, runtime, nextId, Len(entries), From)
        BY <1>1, <1>2, <1>4, <1>18 DEF FeedInv, f
  <2>2. nextId \in Nat /\ Len(entries) \in Nat
        BY MonitorBoundAssumption DEF BufferInv
  <2>3. From \in {0, 1} /\ From' \in {0, 1}
        BY DEF From
  <2>4. CASE event.type = "request"
    <3>1. From' = From /\ shown' = Listed(event.item)
          BY <1>7, <2>4 DEF From
    <3>2. (\A k \in 1..Len(shown) : shown[k][2] # f[1].item[2]) =>
            /\ Len(shown') = Len(shown) + 1 /\ shown'[1] = f[1].item
            /\ \A k \in 1..Len(shown) : shown'[k + 1] = shown[k]
          BY <1>5, <1>11, <2>4, <3>1
    <3>3. f[1].type = "request"
          BY <1>5, <2>4
    <3>4. LeadsTo(g, shown', runtime, nextId, Len(entries), From)
      <4> DEFINE list == shown
                 list2 == shown'
                 next == nextId
                 held == Len(entries)
                 from == From
      <4>1. f \in Seq(Event) /\ list \in Seq(Item) /\ from \in {0, 1} /\ next \in Nat /\ held \in Nat
            BY <1>3, <1>10, <2>2, <2>3
      <4>2. Rest(f, g) /\ LeadsTo(f, list, runtime, next, held, from) /\ f[1].type = "request"
            BY <1>5, <2>1, <3>3
      <4>3. (\A k \in 1..Len(list) : list[k][2] # f[1].item[2]) =>
              /\ Len(list2) = Len(list) + 1 /\ list2[1] = f[1].item
              /\ \A k \in 1..Len(list) : list2[k + 1] = list[k]
            BY <3>2
      <4> HIDE DEF list, list2, next, held, from
      <4>4. LeadsTo(g, list2, runtime, next, held, from)
            BY <4>1, <4>2, <4>3, LeadsPastRequest
      <4>5. QED
            BY <4>4 DEF list, list2, next, held, from
    <3>5. QED
          BY <1>15, <2>1, <3>1, <3>4
  <2>5. CASE event.type # "request"
    <3>1. f[1].type # "request"
          BY <1>5, <2>5
    <3>2. shown' = Met(f, 1, shown)
          BY <1>5, <1>6, <1>7, <2>5 DEF Met
    <3>3. LeadsTo(g, shown', runtime, nextId, Len(entries), From')
          BY <1>3, <1>5, <2>1, <2>2, <2>3, <3>1, <3>2, LeadsPastOther
    <3>4. QED
          BY <1>15, <2>1, <3>3
  <2>6. QED
        BY <2>4, <2>5
<1>19. FeedInv'
       BY <1>2, <1>9, <1>16, <1>18 DEF FeedInv
<1>20. QED
       BY <1>13, <1>17, <1>19 DEF StreamInv

\* The answer of an own clear empties the list.
LEMMA WipeKeeps ==
  ASSUME StreamInv, BufferInv, ClearAnswered, UNCHANGED monitorVars
  PROVE  StreamInv'
<1>1. LinkTyped /\ ShownInv /\ FeedInv
      BY DEF StreamInv
<1>2. /\ shown' = <<>> /\ UNCHANGED <<shownRuntime, streaming, link, runtime, nextId, entries>>
      /\ wiped' = (wiped \/ (shown # <<>>
                     /\ ~\E i \in 1..(IF link = NoLink THEN 0 ELSE Len(link.feed)) :
                           link.feed[i].type = "clear"))
      BY DEF ClearAnswered, monitorVars
<1>3. LinkTyped'
      BY <1>1, <1>2 DEF LinkTyped
<1>4. ShownInv'
      BY <1>2 DEF ShownInv, IsInjective
<1>5. FeedInv'
  <2> SUFFICES ASSUME link # NoLink, link.accepted, ~link.broken
               PROVE  LeadsTo(link.feed, <<>>, runtime, nextId, Len(entries), From')
      BY <1>1, <1>2 DEF FeedInv
  <2>1. LeadsTo(link.feed, shown, runtime, nextId, Len(entries), From)
        BY <1>1 DEF FeedInv
  <2>2. link.feed \in Seq(Event) /\ shown \in Seq(Item)
        BY <1>1, LinkFields DEF LinkTyped
  <2>3. nextId \in Nat /\ Len(entries) \in Nat
        BY MonitorBoundAssumption DEF BufferInv
  <2>4. From \in {0, 1} /\ From' \in {0, 1} /\ From <= From'
    <3>1. wiped => wiped'
          BY <1>2
    <3>2. QED
          BY <3>1 DEF From
  <2>5. shown # <<>> /\ ~(\E i \in 1..Len(link.feed) : link.feed[i].type = "clear") => From' = 1
    <3>1. shown # <<>> /\ ~(\E i \in 1..Len(link.feed) : link.feed[i].type = "clear") => wiped'
          BY <1>2
    <3>2. QED
          BY <3>1 DEF From
  <2>6. QED
        BY <2>1, <2>2, <2>3, <2>4, <2>5, LeadsOnWipe
<1>6. QED
      BY <1>3, <1>4, <1>5 DEF StreamInv

\* The other steps of the interface close the stream, open it again or leave it alone.
LEMMA OthersKeep ==
  ASSUME StreamInv, UNCHANGED monitorVars,
         StreamFails \/ RetryTimer \/ SyncRuntime \/ SyncAgain \/ PauseOrResume \/ AskClear
  PROVE  StreamInv'
<1>1. UNCHANGED <<runtime, nextId, entries>> /\ LinkTyped
      BY DEF monitorVars, StreamInv
<1>2. CASE StreamFails
  <2>1. shown' = shown /\ shownRuntime' = shownRuntime /\ link' = NoLink
        BY <1>2 DEF StreamFails
  <2>2. QED
        BY <2>1, ReopenKeeps
<1>3. ASSUME Resumed, UNCHANGED <<shown, shownRuntime>> PROVE StreamInv'
      BY <1>3, ReopenKeeps DEF Resumed
<1>4. ASSUME UNCHANGED <<shown, shownRuntime, streaming, link, wiped>> PROVE StreamInv'
      BY <1>1, <1>4, UnmovedKeeps
<1>5. CASE RetryTimer
      BY <1>3, <1>4, <1>5 DEF RetryTimer
<1>6. CASE SyncRuntime
  <2>1. CASE known = 0
        BY <1>4, <1>6, <2>1 DEF SyncRuntime
  <2>2. CASE known # 0
    <3>1. shown' = shown /\ shownRuntime' = 0
          BY <1>6, <2>2 DEF SyncRuntime
    <3>2. CASE streaming \/ interrupted
      <4>1. streaming' = TRUE /\ link' = Opening
            BY <1>6, <2>2, <3>2 DEF SyncRuntime, Resumed
      <4>2. QED
            BY <3>1, <4>1, ReopenKeeps
    <3>3. CASE ~streaming /\ ~interrupted
      <4>1. link' = link /\ link = NoLink
            BY <1>1, <1>6, <2>2, <3>3 DEF SyncRuntime, LinkTyped
      <4>2. QED
            BY <3>1, <4>1, ReopenKeeps
    <3>4. QED
          BY <3>2, <3>3
  <2>3. QED
        BY <2>1, <2>2
<1>7. CASE SyncAgain
      BY <1>3, <1>4, <1>7 DEF SyncAgain
<1>8. CASE PauseOrResume
  <2>1. shown' = shown /\ shownRuntime' = shownRuntime /\ (link' = NoLink \/ Resumed)
        BY <1>8 DEF PauseOrResume
  <2>2. QED
        BY <1>3, <2>1, ReopenKeeps
<1>9. CASE AskClear
      BY <1>4, <1>9 DEF AskClear
<1>10. QED
       BY <1>2, <1>5, <1>6, <1>7, <1>8, <1>9

\* An open stream that has delivered everything shows the buffer.
LEMMA StreamInvSound == StreamInv /\ BufferInv => StreamAgrees
<1> SUFFICES ASSUME StreamInv, BufferInv PROVE StreamAgrees
    OBVIOUS
<1>1. LinkTyped /\ ShownInv /\ FeedInv
      BY DEF StreamInv
<1>2. shown \in Seq(Item) /\ DOMAIN shown = 1..Len(shown)
      BY <1>1 DEF LinkTyped
<1>3. ASSUME Live
      PROVE  (~wiped => IsPrefix(Newest(entries), shown)) /\ shownRuntime = runtime
  <2>1. /\ link # NoLink /\ link.accepted /\ ~link.broken /\ link.feed = <<>>
        BY <1>3 DEF Live
  <2>2. /\ FedBy(<<>>, shownRuntime) = runtime
        /\ LeadsTo(<<>>, shown, runtime, nextId, Len(entries), From)
        BY <1>1, <2>1 DEF FeedInv
  <2>3. shownRuntime = runtime
        BY <2>2 DEF FedBy
  <2>4. ASSUME ~wiped PROVE IsPrefix(Newest(entries), shown)
    <3>1. From = 0
          BY <2>4 DEF From
    <3>2. 0 \in 0..Len(<<>>) /\ OnlyRequests(<<>>, 0) /\ Met(<<>>, 0, shown) = shown /\ Len(<<>>) - 0 = 0
          BY DEF OnlyRequests, Met
    <3>3. GoesOn(shown, 0, runtime, nextId, Len(entries))
          BY <2>2, <3>1, <3>2 DEF LeadsTo
    <3> DEFINE n == Len(entries)
               newest == Newest(entries)
    <3>4. /\ newest \in Seq(Item) /\ Len(newest) = n /\ n \in Nat /\ nextId \in Nat
          /\ \A k \in 1..n : newest[k] = <<runtime, nextId - k>>
          BY NewestOf
    <3>5. n <= Len(shown) /\ \A k \in 1..Len(shown) : k <= n => shown[k] = <<runtime, nextId - k>>
      <4>1. nextId - 0 = nextId /\ \A k \in Nat : k + 0 = k
            BY <3>4
      <4>2. n <= 0 + Len(shown)
            BY <3>3 DEF GoesOn
      <4>3. \A k \in 1..Len(shown) : k + 0 <= n => shown[k] = <<runtime, nextId - 0 - k>>
            BY <3>3 DEF GoesOn
      <4>4. QED
            BY <1>2, <4>1, <4>2, <4>3
    <3> HIDE DEF n, newest
    <3>6. SubSeq(newest, 1, n) = SubSeq(shown, 1, n)
      <4> DEFINE u == SubSeq(newest, 1, n)
                 v == SubSeq(shown, 1, n)
      <4>1. /\ u \in Seq(Item) /\ Len(u) = n /\ \A i \in 1..n : u[i] = newest[i]
            /\ v \in Seq(Item) /\ Len(v) = n /\ \A i \in 1..n : v[i] = shown[i]
            BY <1>2, <3>4, <3>5
      <4> HIDE DEF u, v
      <4>2. ASSUME NEW i \in 1..n PROVE u[i] = v[i]
        <5>1. i \in 1..Len(shown) /\ i <= n
              BY <1>2, <3>4, <3>5
        <5>2. newest[i] = shown[i]
              BY <3>4, <3>5, <5>1
        <5>3. QED
              BY <4>1, <5>2
      <4>3. u = v
            BY <4>1, <4>2, SameList
      <4>4. QED
            BY <4>3 DEF u, v
    <3>7. QED
          BY <3>4, <3>5, <3>6 DEF IsPrefix, n, newest
  <2>5. QED
        BY <2>3, <2>4
<1>4. QED
      BY <1>1, <1>2, <1>3 DEF StreamAgrees, ShownInv

\* What the buffer does as it records, is cleared and begins again, the stream hears of.
LEMMA EngineKeeps ==
  ASSUME StreamInv, BufferInv,
         (\E kind \in Kind : Record(kind)) \/ Clear \/ EngineRestarts
  PROVE  StreamInv'
<1>1. ASSUME NEW kind \in Kind, Record(kind) PROVE StreamInv'
  <2> DEFINE e == [type |-> "request", item |-> <<runtime, nextId>>]
             one == [id |-> nextId, kind |-> kind]
             all == Append(entries, one)
  <2>1. /\ link' = Hears(e) /\ UNCHANGED <<shown, shownRuntime, streaming, wiped, runtime>>
        /\ nextId' = nextId + 1 /\ entries' = IF Len(all) > BufferLimit THEN Tail(all) ELSE all
        BY <1>1 DEF Record, RecordRequest, HearsRequest
  <2>2. runtime \in Nat /\ nextId \in Nat /\ entries \in Seq(Entry) /\ one \in Entry
        BY MonitorBoundAssumption DEF BufferInv, Entry
  <2>3. e \in Event /\ e.type = "request" /\ e.item = <<runtime, nextId>>
        BY <2>2 DEF Event, Item
  <2> HIDE DEF e, one
  <2>4. Len(entries') \in Nat /\ Len(entries') <= Len(entries) + 1
    <3>1. all \in Seq(Entry) /\ Len(all) = Len(entries) + 1 /\ Len(entries) \in Nat /\ all # <<>>
          BY <2>2
    <3> HIDE DEF all
    <3>2. Len(Tail(all)) = Len(all) - 1
          BY <3>1
    <3>3. QED
          BY <2>1, <3>1, <3>2
  <2>5. QED
        BY <2>1, <2>3, <2>4, HearsKeeps
<1>2. CASE Clear
  <2> DEFINE e == [type |-> "clear"]
  <2>1. /\ link' = Hears(e) /\ UNCHANGED <<shown, shownRuntime, streaming, wiped, runtime>>
        /\ nextId' = nextId /\ entries' = <<>>
        BY <1>2 DEF Clear, ClearBuffer, Cleared, HearsClear, HearsOwnClear
  <2>2. e \in Event /\ e.type = "clear" /\ Len(entries') = 0
        BY <2>1 DEF Event
  <2> HIDE DEF e
  <2>3. QED
        BY <2>1, <2>2, HearsKeeps
<1>3. CASE EngineRestarts
      BY <1>3, RestartLeaves DEF EngineRestarts
<1>4. QED
      BY <1>1, <1>2, <1>3

\* Over broken connections, pauses, clears and restarts of the engine, whatever is delivered
\* when: once an open stream has delivered everything the list begins with the buffer, each
\* request once, and it is declared of the engine its requests belong to.
THEOREM StreamAgreesHolds == Spec => []StreamAgrees
<1>1. Init => PagesInv /\ StreamInv
      BY PagesBegin, StreamBegins DEF Init
<1>2. PagesInv /\ StreamInv /\ [Next]_vars => PagesInv' /\ StreamInv'
  <2> SUFFICES ASSUME PagesInv, StreamInv, [Next]_vars PROVE PagesInv' /\ StreamInv'
      OBVIOUS
  <2>1. PagesInv' /\ BufferInv
        BY PagesKeep DEF PagesInv
  <2>2. CASE (\E kind \in Kind : Record(kind)) \/ Clear \/ EngineRestarts
        BY <2>1, <2>2, EngineKeeps
  <2>3. CASE FollowPages
    <3>1. UNCHANGED <<bufferVars, streamVars>>
          BY <2>3 DEF FollowPages, ReadPage, ReadLatest
    <3>2. QED
          BY <2>1, <3>1, UnmovedKeeps DEF bufferVars, streamVars
  <2>4. CASE FollowStream
    <3>1. UNCHANGED monitorVars
          BY <2>4 DEF FollowStream
    <3>2. CASE StreamAccepted
          BY <2>1, <3>1, <3>2, AcceptKeeps
    <3>3. CASE Deliver
          BY <2>1, <3>1, <3>3, DeliverKeeps
    <3>4. CASE ClearAnswered
          BY <2>1, <3>1, <3>4, WipeKeeps
    <3>5. CASE StreamFails \/ RetryTimer \/ SyncRuntime \/ SyncAgain \/ PauseOrResume \/ AskClear
          BY <2>1, <3>1, <3>5, OthersKeep
    <3>6. QED
          BY <2>4, <3>2, <3>3, <3>4, <3>5 DEF FollowStream, StreamStep
  <2>5. CASE WriteAndReadDump \/ UNCHANGED vars
    <3>1. UNCHANGED <<monitorVars, streamVars>>
          BY <2>5 DEF WriteAndReadDump, vars
    <3>2. QED
          BY <2>1, <3>1, UnmovedKeeps DEF monitorVars, streamVars
  <2>6. QED
        BY <2>2, <2>3, <2>4, <2>5 DEF Next
<1>3. PagesInv /\ StreamInv => StreamAgrees
      BY StreamInvSound DEF PagesInv
<1>4. QED
      BY <1>1, <1>2, <1>3, PTL DEF Spec
==============================================================================

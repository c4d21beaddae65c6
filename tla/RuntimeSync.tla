------------------------------- MODULE RuntimeSync -------------------------------
(***************************************************************************)
(* How the interface learns that something changed in the engine           *)
(* (RuntimeSyncStore, mockxy-ui/src/app/shared/runtime-sync.store.ts): it  *)
(* asks GET /info every two seconds while the window is visible, one       *)
(* request at a time, and at once when the window gets the focus; it       *)
(* compares the answer with the previous one and tells the stores.         *)
(*                                                                         *)
(* The engine is what this needs of it: an instance (run), the workspace   *)
(* it serves, the content of the resource a store shows, and its revision  *)
(* (ObservedRevision, src/src/runtime-info.js).  ver numbers the contents  *)
(* since the beginning, restarts included; no code sees it.  left bounds   *)
(* what the environment does: changes of the engine, requests that fail,   *)
(* movements of the window and actions of the user, and all of them.       *)
(***************************************************************************)
EXTENDS Integers

CONSTANT NoInfo   \* no GET /info was answered yet

VARIABLES engine, sync, left

syncVars == <<engine, sync, left>>

\* ObservedRevision.observe: the revision grows when the fingerprint is not the last one.
ObserveRevision(e) ==
  IF e.content = e.last THEN e ELSE [e EXCEPT !.rev = @ + 1, !.last = e.content]
\* A write is observed at once, so that going back and forth between two polls counts.
Write(e, c) ==
  ObserveRevision([e EXCEPT !.content = c, !.ver = IF c = e.content THEN @ ELSE @ + 1])
\* createRuntimeIdentity: a new instance, with the state of a start.
Restarted(e, ws, c) ==
  [run |-> e.run + 1, ws |-> ws, content |-> c, ver |-> e.ver + 1, rev |-> 1, last |-> c]

Quiet == [at |-> "none", resync |-> FALSE, info |-> NoInfo]

\* check(resync): a request in flight is not doubled, the full reread follows it.
Check(s, resync) ==
  LET asked == s.pending \/ resync IN
  IF s.poll.at # "none" THEN [s EXCEPT !.pending = asked]
  ELSE [s EXCEPT !.pending = FALSE, !.timer = FALSE,
                 !.poll = [at |-> "sent", resync |-> asked, info |-> NoInfo]]

\* apply: what the stores are told when the request in flight ends.
Event(s) ==
  LET p == s.poll
      quiet(k) == [kind |-> k, moved |-> FALSE]
      again == p.resync \/ ~s.connected
  IN IF p.at = "failed" THEN quiet("none")
     ELSE IF s.info = NoInfo THEN quiet(IF again THEN "resync" ELSE "none")
     ELSE IF p.info.run # s.info.run
       THEN [kind |-> "runtime", moved |-> p.info.ws # s.info.ws]
     ELSE IF again THEN quiet("resync")
     ELSE quiet(IF p.info.rev # s.info.rev THEN "revisions" ELSE "none")

\* The request ended: what was read is kept, then a reread that waited starts, or
\* the timer (schedule).
PollEnded(s) ==
  LET kept == IF s.poll.at = "failed" THEN [s EXCEPT !.connected = FALSE, !.poll = Quiet]
              ELSE [s EXCEPT !.info = s.poll.info, !.connected = TRUE, !.poll = Quiet]
  IN IF kept.pending THEN Check(kept, FALSE) ELSE [kept EXCEPT !.timer = kept.visible]

\* start(): the first check.
InitSync(c, ws, budget) ==
  /\ engine = [run |-> 1, ws |-> ws, content |-> c, ver |-> 1, rev |-> 1, last |-> c]
  /\ left = budget
  /\ sync = Check([info |-> NoInfo, connected |-> TRUE, poll |-> Quiet, pending |-> FALSE,
                   timer |-> FALSE, visible |-> TRUE], FALSE)

Spend(what) ==
  /\ left[what] > 0 /\ left.total > 0
  /\ left' = [left EXCEPT ![what] = @ - 1, !.total = @ - 1]

\* GET /info is a snapshot; it observes the revisions itself.
AnswerInfo ==
  /\ sync.poll.at = "sent"
  /\ engine' = ObserveRevision(engine)
  /\ sync' = [sync EXCEPT !.poll = [@ EXCEPT !.at = "answered",
                !.info = [run |-> engine.run, ws |-> engine.ws, rev |-> engine'.rev]]]
  /\ UNCHANGED left
LoseInfo ==
  /\ sync.poll.at = "sent" /\ Spend("failures")
  /\ sync' = [sync EXCEPT !.poll = [@ EXCEPT !.at = "failed"]]
  /\ UNCHANGED engine
\* The stores act on Event(sync) in the same step.
EndPoll ==
  /\ sync.poll.at \in {"answered", "failed"}
  /\ sync' = PollEnded(sync) /\ UNCHANGED <<engine, left>>
PollTick == sync.timer /\ sync' = Check(sync, FALSE) /\ UNCHANGED <<engine, left>>
Focus == sync.visible /\ Spend("window") /\ sync' = Check(sync, TRUE) /\ UNCHANGED engine
\* visibilitychange: the timer stops with the window, and a return asks for everything.
HideWindow ==
  /\ sync.visible /\ Spend("window")
  /\ sync' = [sync EXCEPT !.visible = FALSE, !.timer = FALSE] /\ UNCHANGED engine
ShowWindow ==
  /\ ~sync.visible
  /\ sync' = Check([sync EXCEPT !.visible = TRUE], TRUE) /\ UNCHANGED <<engine, left>>

\* Everything but the end of a request, which the stores take part in.
SyncStep == AnswerInfo \/ LoseInfo \/ PollTick \/ Focus \/ HideWindow \/ ShowWindow

==============================================================================

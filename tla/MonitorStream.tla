------------------------------ MODULE MonitorStream ------------------------------
(***************************************************************************)
(* The live list of the interface (mockxy-ui/src/app/shared/               *)
(* monitor-stream.store.ts) and the stream of the engine that feeds it     *)
(* (admin-api.js): a snapshot of the buffer, then every event since, over  *)
(* connections that break, pauses, clears and restarts of the engine.      *)
(***************************************************************************)
EXTENDS RequestMonitor, Filtering

CONSTANTS MaxFailures,   \* bounds of the checked instance
          MaxUserActions,
          NoLink

ASSUME StreamBoundAssumption == MaxFailures \in Nat /\ MaxUserActions \in Nat

VARIABLES
  shown,         \* the requests listed, newest first: <<engine, number>>
  shownRuntime,  \* the engine they belong to, 0 when unknown
  streaming, interrupted,
  retryArmed,    \* the timer of the next attempt
  link,          \* NoLink, or [accepted, broken, feed]: the connection and what it carries
  known,         \* the engine that GET /info last reported, 0 before the first answer
  clearing,      \* an own DELETE: "no", "asked", "cleared" while its answer is held
  wiped,         \* history: its answer emptied entries newer than the clear
  failures, userActions

streamVars == <<shown, shownRuntime, streaming, interrupted, retryArmed, link, known, clearing,
                wiped, failures, userActions>>

Newest(s) == Reverse([i \in DOMAIN s |-> <<runtime, s[i].id>>])

Opening == [accepted |-> FALSE, broken |-> FALSE, feed |-> <<>>]

\* The constructor opens the stream.
InitStream ==
  /\ shown = <<>> /\ shownRuntime = 0
  /\ streaming = TRUE /\ interrupted = FALSE /\ retryArmed = FALSE
  /\ link = Opening /\ known = 0
  /\ clearing = "no" /\ wiped = FALSE /\ failures = 0 /\ userActions = 0

-------------------------------------------------------------------------------
(* The engine's side.                                                      *)

\* Mutant: a new stream begins with the next request.
Snapshot_Empty == [type |-> "snapshot", runtime |-> runtime, items |-> <<>>]

\* The first event declares the engine and carries the buffer.
Snapshot == [type |-> "snapshot", runtime |-> runtime, items |-> Newest(entries)]

\* GET /monitoring/requests/stream: the snapshot and the subscription, in one turn.
StreamAccepted ==
  /\ link # NoLink /\ ~link.accepted /\ ~link.broken
  /\ link' = [link EXCEPT !.accepted = TRUE, !.feed = <<Snapshot>>]
  /\ UNCHANGED <<shown, shownRuntime, streaming, interrupted, retryArmed, known, clearing,
                 wiped, failures, userActions>>

\* What the subscription of a connection makes of an event of the buffer.
Hears(event) ==
  IF link # NoLink /\ link.accepted /\ ~link.broken
  THEN [link EXCEPT !.feed = Append(@, event)] ELSE link

HearsRequest ==
  /\ link' = Hears([type |-> "request", item |-> <<runtime, nextId>>])
  /\ UNCHANGED <<shown, shownRuntime, streaming, interrupted, retryArmed, known, clearing,
                 wiped, failures, userActions>>

\* DELETE /monitoring/requests of another client.
HearsClear ==
  /\ link' = Hears([type |-> "clear"])
  /\ UNCHANGED <<shown, shownRuntime, streaming, interrupted, retryArmed, known, clearing,
                 wiped, failures, userActions>>

\* The engine goes down: the connection breaks, and an own DELETE is never answered.
HearsRestart ==
  /\ link' = IF link = NoLink THEN link ELSE [link EXCEPT !.broken = TRUE]
  /\ clearing' = "no"
  /\ UNCHANGED <<shown, shownRuntime, streaming, interrupted, retryArmed, known, wiped,
                 failures, userActions>>

-------------------------------------------------------------------------------
(* The store.                                                              *)

Resumed == streaming' = TRUE /\ link' = Opening

\* A request goes in front, in the place of an entry with the same number.
Listed(item) == <<item>> \o Kept(shown, {i \in DOMAIN shown : shown[i][2] # item[2]})

\* applyStreamEvent.
Deliver ==
  /\ link # NoLink /\ link.feed # <<>>
  /\ LET event == Head(link.feed) IN
       /\ CASE event.type = "snapshot" -> /\ shownRuntime' = event.runtime
                                          /\ shown' = event.items
                                          /\ wiped' = FALSE
            [] event.type = "clear" -> shown' = <<>> /\ wiped' = FALSE /\ UNCHANGED shownRuntime
            [] event.type = "request" -> /\ shown' = Listed(event.item)
                                         /\ UNCHANGED <<shownRuntime, wiped>>
  /\ link' = [link EXCEPT !.feed = Tail(@)]
  /\ interrupted' = FALSE
  /\ UNCHANGED <<streaming, retryArmed, known, clearing, failures, userActions>>

\* Mutant: the failed stream waits for the synchronisation to open it again.
RetryAfterError_None == retryArmed

\* scheduleRetry.
RetryAfterError == TRUE

StreamFails ==
  /\ link # NoLink
  /\ link.broken \/ failures < MaxFailures
  /\ failures' = IF link.broken THEN failures ELSE failures + 1
  /\ link' = NoLink /\ streaming' = FALSE
  /\ interrupted' = TRUE /\ retryArmed' = RetryAfterError
  /\ UNCHANGED <<shown, shownRuntime, known, clearing, wiped, userActions>>

RetryTimer ==
  /\ retryArmed /\ retryArmed' = FALSE
  /\ IF interrupted /\ ~streaming THEN Resumed ELSE UNCHANGED <<streaming, link>>
  /\ UNCHANGED <<shown, shownRuntime, interrupted, known, clearing, wiped, failures, userActions>>

\* GET /info reports another engine: what is listed is no longer its traffic, and the
\* stream opens again, also over an open one, unless it was paused.
SyncRuntime ==
  /\ known # runtime /\ known' = runtime
  /\ IF known = 0 THEN UNCHANGED <<shownRuntime, streaming, retryArmed, link>>
     ELSE /\ shownRuntime' = 0
          /\ IF streaming \/ interrupted THEN retryArmed' = FALSE /\ Resumed
             ELSE UNCHANGED <<streaming, retryArmed, link>>
  /\ UNCHANGED <<shown, interrupted, clearing, wiped, failures, userActions>>

\* The window comes back, or GET /info answers again.
SyncAgain ==
  /\ known = runtime /\ interrupted
  /\ retryArmed' = FALSE
  /\ IF streaming THEN UNCHANGED <<streaming, link>> ELSE Resumed
  /\ UNCHANGED <<shown, shownRuntime, interrupted, known, clearing, wiped, failures, userActions>>

UserActs == userActions < MaxUserActions /\ userActions' = userActions + 1

\* setStreaming of the bar.
PauseOrResume ==
  /\ UserActs
  /\ IF streaming
     THEN /\ streaming' = FALSE /\ link' = NoLink
          /\ interrupted' = FALSE /\ retryArmed' = FALSE
     ELSE Resumed /\ UNCHANGED <<interrupted, retryArmed>>
  /\ UNCHANGED <<shown, shownRuntime, known, clearing, wiped, failures>>

AskClear ==
  /\ UserActs /\ clearing = "no"
  /\ clearing' = "asked"
  /\ UNCHANGED <<shown, shownRuntime, streaming, interrupted, retryArmed, link, known, wiped,
                 failures>>

\* The engine empties the buffer and tells the streams; the answer is held until the
\* revision of the catalog is published.
HearsOwnClear ==
  /\ clearing = "asked" /\ clearing' = "cleared"
  /\ link' = Hears([type |-> "clear"])
  /\ UNCHANGED <<shown, shownRuntime, streaming, interrupted, retryArmed, known, wiped,
                 failures, userActions>>

\* The answer empties the list, whatever was streamed since the clear.
ClearAnswered ==
  /\ clearing = "cleared" /\ clearing' = "no"
  /\ shown' = <<>>
  /\ wiped' = (wiped \/ (shown # <<>>
                 /\ ~\E i \in 1..(IF link = NoLink THEN 0 ELSE Len(link.feed)) :
                       link.feed[i].type = "clear"))
  /\ UNCHANGED <<shownRuntime, streaming, interrupted, retryArmed, link, known, failures,
                 userActions>>

-------------------------------------------------------------------------------
StreamStep ==
  \/ StreamAccepted \/ Deliver \/ StreamFails \/ RetryTimer
  \/ SyncRuntime \/ SyncAgain \/ PauseOrResume \/ AskClear \/ ClearAnswered

\* The timers run, the network delivers what it carries or reports that it broke.
StreamFairness ==
  /\ WF_streamVars(StreamAccepted) /\ WF_streamVars(Deliver) /\ WF_streamVars(RetryTimer)
  /\ WF_streamVars(link # NoLink /\ link.broken /\ StreamFails)

Live == link # NoLink /\ link.accepted /\ ~link.broken /\ link.feed = <<>>

\* Once an open stream has delivered everything, the list begins with the buffer of the
\* running engine, newest first and each request once, across interruptions, restarts
\* and clears, unless the answer of an own clear emptied it of what was streamed
\* meanwhile.  At every moment the engine it declares is the one its requests belong to,
\* so that a mock created from a number is made from the request that was shown.
StreamAgrees ==
  /\ Live => /\ ~wiped => IsPrefix(Newest(entries), shown)
             /\ shownRuntime = runtime
  /\ IsInjective(shown)
  /\ shownRuntime # 0 => \A i \in DOMAIN shown : shown[i][1] = shownRuntime

\* An interrupted stream recovers by itself: it delivers again, or the user pauses it,
\* also when only the stream broke and GET /info answered all along.
StreamRecovers == []<>~interrupted
==============================================================================

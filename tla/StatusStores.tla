------------------------------- MODULE StatusStores -------------------------------
(***************************************************************************)
(* The stores of the status bar: the switches of the server                *)
(* (server-status.store.ts), the dump (monitor-dump.store.ts), the         *)
(* configuration (runtime-config.store.ts) and the diagnostics             *)
(* (runtime-diagnostics.store.ts), all in mockxy-ui/src/app/shared.  Each  *)
(* shows one state of the engine, reads it again when RuntimeSync says so, *)
(* repeats a read that failed (read-retry.ts) and lets the user change it. *)
(* They do not share state, so one of them, kind, is chosen for good.      *)
(*                                                                         *)
(* The state shown is two switches: on and all.  The server has both, the  *)
(* dump only on, an override of the configuration is all, the diagnostics  *)
(* is whatever the engine says.  Two reads of one store are told apart by  *)
(* marks instead of the counters the code compares: latest (readSeq) and   *)
(* fresh (changeEpoch, generation).                                        *)
(***************************************************************************)
EXTENDS RuntimeSync, FiniteSets

CONSTANTS Unknown,      \* nothing was read yet
          StatusBudget  \* by kind: [changes, failures, window, acts, total] of one behaviour

VARIABLE store

statusVars == <<engine, sync, left, store>>

Kinds == {"server", "dump", "config", "diagnostics"}
Default == [on |-> TRUE, all |-> FALSE]
Contents == [on : BOOLEAN, all : BOOLEAN]

\* A change of one switch; "none" is the flush of the dump.
Changes(k) ==
  CASE k = "server" -> [field : {"on", "all"}, value : BOOLEAN]
    [] k = "dump" -> [field : {"on", "none"}, value : BOOLEAN]
    [] k = "config" -> [field : {"all"}, value : {FALSE}]
    [] OTHER -> {}
Changed(c, ch) == IF ch.field = "none" THEN c ELSE [c EXCEPT ![ch.field] = ch.value]
\* What agents, other windows and the engine itself do to it.
Foreign(k) == IF k \in {"dump", "server"} THEN {"on"} ELSE {"all"}

\* Two stores run one read at a time and queue one; the other two let a new read
\* supersede the ones in flight.
Queues(k) == k \in {"config", "diagnostics"}

SentRead(first) ==
  [first |-> first, latest |-> TRUE, fresh |-> TRUE, at |-> "sent", content |-> Unknown, ver |-> 0]
\* readTicket: the read becomes the latest.
StartRead(s, first) ==
  [s EXCEPT !.retry = FALSE,
            !.reads = {[r EXCEPT !.latest = FALSE] : r \in @} \cup {SentRead(first)}]

\* refresh() / load(): with an action of the user in flight, or a read where reads
\* queue, it is put off (rereadAfterChange, rereadAfterAction, reloadQueued).
Refresh(s) ==
  LET off == IF Queues(s.kind) THEN s.reads # {} ELSE s.patches # {}
  IN IF off THEN [s EXCEPT !.retry = FALSE, !.reread = TRUE] ELSE StartRead(s, FALSE)

\* A state read is shown.  floor, late and crossed are history: the newest version the
\* interface was told of, whether a read older than it was shown, and see ChangeFailed.
Applied(s, r) ==
  [s EXCEPT !.retry = FALSE, !.shown = r.content, !.crossed = FALSE,
            !.late = @ \/ r.ver < s.floor, !.floor = IF r.ver > @ THEN r.ver ELSE @]
\* Mutant: a failed read is not repeated.
ReadFailed_NoRetry(s, r) ==
  [s EXCEPT !.shown = IF s.kind = "dump" /\ r.first THEN Unknown ELSE @]
\* ReadRetry.failed: the timer of the next attempt.  The first read of the dump
\* hides its control until one succeeds.
ReadFailed(s, r) ==
  [s EXCEPT !.retry = TRUE, !.shown = IF s.kind = "dump" /\ r.first THEN Unknown ELSE @]

\* Mutant: a read overtaken by an action of the user is shown when it arrives.
SettledRead_Late(s, r) ==
  LET rest == [s EXCEPT !.reads = @ \ {r}]
  IN IF ~r.latest THEN rest
     ELSE IF s.patches # {} THEN Refresh(rest)
     ELSE IF r.at = "failed" THEN ReadFailed(rest, r) ELSE Applied(rest, r)
\* settleRead: a read superseded by another leaves it to that one; one overtaken by an
\* action of the user is repeated when the action is over.
SettledRead(s, r) ==
  LET rest == [s EXCEPT !.reads = @ \ {r}]
  IN IF ~r.latest THEN rest
     ELSE IF ~r.fresh \/ s.patches # {} THEN Refresh(rest)
     ELSE IF r.at = "failed" THEN ReadFailed(rest, r) ELSE Applied(rest, r)

\* load() of the other two: a read that began before a change is dropped, and the one
\* in the queue follows.
QueuedRead(s, r) ==
  LET rest == [s EXCEPT !.reads = @ \ {r}]
      done == IF r.at = "failed" THEN ReadFailed(rest, r)
              ELSE IF r.fresh THEN Applied(rest, r) ELSE [rest EXCEPT !.retry = FALSE]
  IN IF s.reread THEN Refresh([done EXCEPT !.reread = FALSE]) ELSE done

\* The stores load when they are created, the synchronisation starts with them.
InitStatus ==
  \E k \in Kinds :
    /\ InitSync(Default, "A", StatusBudget[k])
    /\ store = [kind |-> k, shown |-> IF k = "server" THEN Default ELSE Unknown,
                reads |-> {SentRead(k = "dump")}, patches |-> {}, retry |-> FALSE, reread |-> FALSE,
                floor |-> 0, late |-> FALSE, crossed |-> FALSE, early |-> FALSE, told |-> FALSE]

\* History: a change that came before the first GET /info was answered, and whether
\* the store was told anything since.
Moved(s) == [s EXCEPT !.early = @ \/ sync.info = NoInfo]

EndPollStatus ==
  /\ EndPoll
  /\ store' = IF Event(sync).kind = "none" THEN store ELSE Refresh([store EXCEPT !.told = TRUE])

RetryTick == store.retry /\ store' = Refresh(store) /\ UNCHANGED syncVars

AnswerRead(r) ==
  /\ r.at = "sent"
  /\ store' = [store EXCEPT !.reads = (@ \ {r}) \cup
                 {[r EXCEPT !.at = "answered", !.content = engine.content, !.ver = engine.ver]}]
  /\ UNCHANGED syncVars
LoseRead(r) ==
  /\ r.at = "sent" /\ Spend("failures")
  /\ store' = [store EXCEPT !.reads = (@ \ {r}) \cup {[r EXCEPT !.at = "failed"]}]
  /\ UNCHANGED <<engine, sync>>
EndRead(r) ==
  /\ r.at # "sent"
  /\ store' = IF Queues(store.kind) THEN QueuedRead(store, r) ELSE SettledRead(store, r)
  /\ UNCHANGED syncVars

\* The user moves a switch: the server's at once (patch, optimistic), one action at a
\* time on the others.
Change(ch) ==
  /\ store.kind # "server" => store.patches = {}
  /\ store.shown # Unknown
  /\ ch.field # "none" => ch.value # store.shown[ch.field]
  /\ Spend("acts")
  /\ store' = [store EXCEPT
       !.patches = @ \cup {[ch |-> ch, at |-> "sent", previous |-> store.shown,
                            over |-> store.patches # {}, content |-> Unknown, ver |-> 0]},
       !.shown = IF store.kind = "server" THEN Changed(@, ch) ELSE @,
       !.reads = IF store.kind = "config" THEN @ ELSE {[r EXCEPT !.fresh = FALSE] : r \in @}]
  /\ UNCHANGED <<engine, sync>>

AnswerChange(p) ==
  /\ p.at = "sent"
  /\ engine' = Write(engine, Changed(engine.content, p.ch))
  /\ store' = Moved([store EXCEPT !.patches = (@ \ {p}) \cup
       {[p EXCEPT !.at = "answered", !.content = engine'.content, !.ver = engine'.ver]}])
  /\ UNCHANGED <<sync, left>>
\* Lost on the way there, or the answer on the way back.
LoseChange(p) ==
  /\ p.at \in {"sent", "answered"} /\ Spend("failures")
  /\ store' = [store EXCEPT !.patches = (@ \ {p}) \cup {[p EXCEPT !.at = "failed"]}]
  /\ UNCHANGED <<engine, sync>>

\* patchSettled, actionSettled: the reread that waited for the last action.
Released(s) ==
  IF s.patches = {} /\ s.reread /\ ~Queues(s.kind) THEN Refresh([s EXCEPT !.reread = FALSE]) ELSE s

\* The answer of the engine is shown, but for a reset of the configuration, which
\* drops the reads in flight and reads again.
ChangeDone(s, p) ==
  LET told == [s EXCEPT !.patches = @ \ {p}, !.floor = IF p.ver > @ THEN p.ver ELSE @]
  IN IF s.kind = "config"
     THEN Refresh([told EXCEPT !.reads = {[r EXCEPT !.fresh = FALSE] : r \in @}])
     ELSE Released([told EXCEPT !.shown = p.content])
\* The server's switches return to what they were at the click.  crossed: that was
\* itself the unconfirmed value of another click.
ChangeFailed(s, p) ==
  LET rest == [s EXCEPT !.patches = @ \ {p}]
  IN Released(IF s.kind = "server"
              THEN [rest EXCEPT !.shown = p.previous, !.crossed = @ \/ p.over] ELSE rest)
EndChange(p) ==
  /\ p.at # "sent"
  /\ store' = IF p.at = "failed" THEN ChangeFailed(store, p) ELSE ChangeDone(store, p)
  /\ UNCHANGED syncVars

\* An agent or another window changes the state, or the engine starts again.
ChangedElsewhere(f) ==
  /\ Spend("changes")
  /\ engine' = Write(engine, [engine.content EXCEPT ![f] = ~@])
  /\ store' = Moved(store) /\ UNCHANGED sync
RestartEngine ==
  /\ Spend("changes")
  /\ engine' = Restarted(engine, engine.ws, Default)
  /\ store' = Moved(store) /\ UNCHANGED sync

StatusStep ==
  \/ SyncStep /\ UNCHANGED store
  \/ EndPollStatus
  \/ RetryTick
  \/ \E r \in store.reads : AnswerRead(r) \/ LoseRead(r) \/ EndRead(r)
  \/ \E ch \in Changes(store.kind) : Change(ch)
  \/ \E p \in store.patches : AnswerChange(p) \/ LoseChange(p) \/ EndChange(p)
  \/ \E f \in Foreign(store.kind) : ChangedElsewhere(f)
  \/ RestartEngine

\* The engine answers, the browser delivers, the timers fire; nothing is expected of
\* the user, of agents, or of the network not to fail.
StatusFairness ==
  /\ WF_statusVars(AnswerInfo /\ UNCHANGED store) /\ WF_statusVars(EndPollStatus)
  /\ WF_statusVars(PollTick /\ UNCHANGED store) /\ WF_statusVars(RetryTick)
  /\ WF_statusVars(\E r \in store.reads : AnswerRead(r))
  /\ WF_statusVars(\E r \in store.reads : EndRead(r))
  /\ WF_statusVars(\E p \in store.patches : AnswerChange(p))
  /\ WF_statusVars(\E p \in store.patches : EndChange(p))

StatusSpec == InitStatus /\ [][StatusStep]_statusVars /\ StatusFairness

\* Once changes and failures are over, a visible window shows the state of the engine,
\* whatever was lost, overtaken or put off on the way.  Two cases are left out, and the
\* README tells them: a change between the first read of a store and the first answer of
\* GET /info, which nothing announces until the next event; and two clicks in flight that
\* both fail, where the second one puts back the value of the first.
StatusConverges ==
  <>[](sync.visible => \/ store.shown = engine.content
                       \/ store.early /\ ~store.told
                       \/ store.crossed)

\* A read that arrives late never shows a state older than one the interface was already
\* told of, by another read or by the answer to a change (PIANO-PILOTAGGIO-DA-AGENT.md:218).
LateReadsLose == ~store.late
==============================================================================

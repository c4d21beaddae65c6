------------------------------ MODULE SequenceCursor ------------------------------
(***************************************************************************)
(* The cursor of the response sequence of an endpoint (SequenceStateStore  *)
(* in src/src/mocks/sequence-state.js, called by the registry's            *)
(* matchRequest): which step answers a request, counted and timed lazily,  *)
(* at the requests themselves.                                             *)
(*                                                                         *)
(* One endpoint: the cursors of two endpoints never meet.  The signature   *)
(* of a sequence is the sequence with the name of its file.  Steps are     *)
(* numbered from 1.  Time is Date.now(): the wall clock, which may also    *)
(* jump back.                                                              *)
(***************************************************************************)
EXTENDS Integers, Sequences

CONSTANTS Sequence,   \* normalized sequences: [file, steps, onEnd, resetAfterMs]
          Time,       \* what the clock can show
          MaxServed,  \* servedInStep is counted up to here
          None

\* normalizeSequenceResponse: a step has one criterion, the last one of a
\* sequence that stays may have none.
Step == [by : {"times", "forMs"}, n : Nat \ {0}] \cup [by : {"end"}]
Valid(s) ==
  /\ s.steps \in Seq(Step) /\ Len(s.steps) >= 2
  /\ s.onEnd \in {"stay", "loop"}
  /\ s.resetAfterMs \in (Nat \ {0}) \cup {None}
  /\ \A i \in 1..Len(s.steps) :
       s.steps[i].by = "end" => i = Len(s.steps) /\ s.onEnd = "stay"

ASSUME SequenceAssumption == \A s \in Sequence : Valid(s)
ASSUME TimeAssumption == Time \subseteq Int
ASSUME ServedAssumption ==
         /\ MaxServed \in Nat \ {0}
         /\ \A s \in Sequence : \A i \in 1..Len(s.steps) :
              s.steps[i].by = "times" => s.steps[i].n <= MaxServed

VARIABLES
  seq,     \* the sequence installed on the endpoint, or None
  now,     \* the clock
  entry,   \* the cursor, or None
  answer   \* the step that answered the last request, 0 for none

vars == <<seq, now, entry, answer>>

Cursor == [signature : Sequence, stepIndex : Nat \ {0}, servedInStep : 0..MaxServed,
           stepStartedAt : Time \cup {None}, lastRequestAt : Time \cup {None},
           terminal : BOOLEAN]

ASSUME NoneAssumption ==
         /\ None \notin Sequence /\ None \notin Int /\ None \notin Cursor
         /\ None \notin [step : Nat, run : Nat, since : Int, last : Int]

TypeOK ==
  /\ seq \in Sequence \cup {None}
  /\ now \in Time
  /\ entry # None => entry \in Cursor /\ entry.stepIndex <= Len(entry.signature.steps)
  /\ answer \in Nat

-------------------------------------------------------------------------------
(* The cursor.                                                             *)

CreateEntry(s) ==
  [signature |-> s, stepIndex |-> 1, servedInStep |-> 0, stepStartedAt |-> None,
   lastRequestAt |-> None, terminal |-> FALSE]

MoveTo(e, i) == [e EXCEPT !.stepIndex = i, !.servedInStep = 0, !.stepStartedAt = None]

Advance_KeepsTimer(e) ==             \* mutant: the timer of the step before goes on
  IF e.stepIndex < Len(e.signature.steps) \/ e.signature.onEnd = "loop"
  THEN [e EXCEPT !.stepIndex = (@ % Len(e.signature.steps)) + 1, !.servedInStep = 0]
  ELSE [e EXCEPT !.terminal = TRUE]

Advance(e) ==
  IF e.stepIndex < Len(e.signature.steps) THEN MoveTo(e, e.stepIndex + 1)
  ELSE IF e.signature.onEnd = "loop" THEN MoveTo(e, 1)
  ELSE [e EXCEPT !.terminal = TRUE]

StepOf(e) == e.signature.steps[e.stepIndex]

Idle_SinceStep(e) ==                 \* mutant: idle since the step started
  /\ e.signature.resetAfterMs # None /\ e.stepStartedAt # None
  /\ now - e.stepStartedAt >= e.signature.resetAfterMs
Idle(e) ==
  /\ e.signature.resetAfterMs # None /\ e.lastRequestAt # None
  /\ now - e.lastRequestAt >= e.signature.resetAfterMs

Restarts == entry = None \/ entry.signature # seq \/ Idle(entry)

Expired(e) ==
  /\ ~e.terminal
  /\ StepOf(e).by = "forMs" /\ e.stepStartedAt # None
  /\ now - e.stepStartedAt >= StepOf(e).n

\* The loop runs at most once: the step it moves to has not started.
SkipExpired(e) == IF Expired(e) THEN Advance(e) ELSE e

Count(n) == IF n < MaxServed THEN n + 1 ELSE n

Served(e) ==
  [e EXCEPT !.stepStartedAt = IF @ = None THEN now ELSE @,
            !.servedInStep = Count(@),
            !.lastRequestAt = now]

AdvanceEarly_Off(e) == e             \* mutant: never left

\* A step with "times" that has just given its last answer is left at once.
AdvanceEarly(e) ==
  IF ~e.terminal /\ StepOf(e).by = "times" /\ e.servedInStep >= StepOf(e).n
  THEN Advance(e) ELSE e

\* The cursor with which a request made now is answered.
Chosen == SkipExpired(IF Restarts THEN CreateEntry(seq) ELSE entry)

-------------------------------------------------------------------------------
Init ==
  /\ seq \in Sequence \cup {None}
  /\ now \in Time
  /\ entry = None
  /\ answer = 0

Clock == now' \in Time /\ UNCHANGED <<seq, entry, answer>>

\* matchRequest and resolveStep.
Request ==
  /\ seq # None
  /\ answer' = Chosen.stepIndex
  /\ entry' = AdvanceEarly(Served(Chosen))
  /\ UNCHANGED <<seq, now>>

\* A reload: setRouteGroups and reconcile.
Install(s) ==
  /\ seq' = s
  /\ entry' = IF s = seq THEN entry ELSE None
  /\ UNCHANGED <<now, answer>>

\* reset: by hand, or by the admin mutation that changed the scenario.
Reset == entry' = None /\ UNCHANGED <<seq, now, answer>>

Next ==
  \/ Clock
  \/ Request
  \/ \E s \in Sequence \cup {None} : Install(s)
  \/ Reset

Spec == Init /\ [][Next]_vars

-------------------------------------------------------------------------------
\* getState, for a reader who sees the definition that is installed.
Shown == IF entry = None \/ entry.signature # seq THEN 1 ELSE entry.stepIndex

==============================================================================

----------------------------- MODULE SequenceHistory -----------------------------
(***************************************************************************)
(* SequenceCursor with the history its clients see: how many times in a    *)
(* row the last step answered, and since when.  With it, the cursor        *)
(* implements SequencePromise.                                             *)
(***************************************************************************)
EXTENDS SequenceCursor

VARIABLES run, since

varsH == <<seq, now, entry, answer, run, since>>

InitH == Init /\ run = 0 /\ since = now

RequestH ==
  /\ Request
  /\ IF ~Restarts /\ answer' = answer
     THEN run' = Count(run) /\ UNCHANGED since
     ELSE run' = 1 /\ since' = now

OtherH ==
  /\ \/ Clock
     \/ \E s \in Sequence \cup {None} : Install(s)
     \/ Reset
  /\ UNCHANGED <<run, since>>

NextH == RequestH \/ OtherH

SpecH == InitH /\ [][NextH]_varsH

round ==
  IF entry = None THEN None
  ELSE [step |-> answer, run |-> run, since |-> since, last |-> entry.lastRequestAt]

Promise == INSTANCE SequencePromise WITH seq <- seq, now <- now, round <- round

\* The answers are those that the sequence promises, whatever the requests,
\* the clock, the reloads and the resets.
PromiseKept == Promise!Spec

-------------------------------------------------------------------------------
(* What the cursor says of the history.                                    *)

\* The step that answered last is not over: the cursor is still on it.
OnStep ==
  /\ entry.stepIndex = answer
  /\ entry.servedInStep = run /\ entry.stepStartedAt = since
  /\ entry.terminal => answer = Len(seq.steps) /\ seq.onEnd = "stay"
  /\ ~entry.terminal /\ StepOf(entry).by = "times" => run < StepOf(entry).n

\* The step that answered last has given its last answer: the cursor waits on
\* the step after it, not started.
PastStep ==
  /\ answer \in 1..Len(seq.steps)
  /\ seq.steps[answer].by = "times" /\ run >= seq.steps[answer].n
  /\ answer < Len(seq.steps) \/ seq.onEnd = "loop"
  /\ entry.stepIndex = IF answer < Len(seq.steps) THEN answer + 1 ELSE 1
  /\ entry.servedInStep = 0 /\ entry.stepStartedAt = None /\ ~entry.terminal

\* The cursor stands where the answers given so far have led: the counter, the
\* timer and the terminal flag are never off by one with respect to them.
CursorFollowsAnswers ==
  entry # None =>
    /\ entry.signature = seq /\ seq \in Sequence
    /\ entry.lastRequestAt \in Time
    /\ OnStep \/ PastStep

PromisedNext ==
  IF round = None \/ Promise!Idle THEN 1
  ELSE IF ~Promise!Over THEN answer
  ELSE IF answer < Len(seq.steps) THEN answer + 1 ELSE 1

\* The step shown to the admin is the one that is promised to the next request,
\* until a period of time runs out.
ShownAnswersNext ==
  seq # None /\ (round # None => ~Promise!Idle /\ Promise!Step.by # "forMs")
    => Shown = PromisedNext

\* The cursor is where the answers have led, and what the admin is shown of it answers next.
CursorSound == CursorFollowsAnswers /\ ShownAnswersNext
==============================================================================

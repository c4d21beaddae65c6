----------------------------- MODULE SequencePromise -----------------------------
(***************************************************************************)
(* What the sequence on an endpoint promises to its clients, in terms of   *)
(* the answers alone: which step answered last, how many times in a row,   *)
(* since when, and when the last request came.  No cursor, no timer, no    *)
(* terminal flag: SequenceCursor implements it with those.                 *)
(*                                                                         *)
(* A step with "times" answers that many requests, a step with "forMs"     *)
(* the requests of a period that starts with its first one; then the next  *)
(* step answers, the last being followed by the first one if the sequence  *)
(* loops, and by itself if it stays.                                       *)
(***************************************************************************)
EXTENDS Integers, Sequences

CONSTANTS Sequence, Time, MaxServed, None

VARIABLES seq, now, round

Counted(n) == IF n < MaxServed THEN n + 1 ELSE n

Init ==
  /\ seq \in Sequence \cup {None}
  /\ now \in Time
  /\ round = None

Clock == now' \in Time /\ UNCHANGED <<seq, round>>

\* Another sequence, or none, takes the place of this one.
Install ==
  /\ seq' \in Sequence \cup {None}
  /\ seq' # seq
  /\ round' = None
  /\ UNCHANGED now

Reset == round' = None /\ UNCHANGED <<seq, now>>

Step == seq.steps[round.step]

Idle == seq.resetAfterMs # None /\ now - round.last >= seq.resetAfterMs

Over ==
  /\ \/ Step.by = "times" /\ round.run >= Step.n
     \/ Step.by = "forMs" /\ now - round.since >= Step.n
  /\ round.step < Len(seq.steps) \/ seq.onEnd = "loop"

AnswerWith(i) ==
  /\ round' = [step |-> i, run |-> 1, since |-> now, last |-> now]
  /\ UNCHANGED <<seq, now>>

StartOver == seq # None /\ (round = None \/ Idle) /\ AnswerWith(1)

GoOn ==
  /\ seq # None /\ round # None /\ ~Idle /\ Over
  /\ AnswerWith(IF round.step < Len(seq.steps) THEN round.step + 1 ELSE 1)

AnswerAgain ==
  /\ seq # None /\ round # None /\ ~Idle /\ ~Over
  /\ round' = [step |-> round.step, run |-> Counted(round.run), since |-> round.since,
               last |-> now]
  /\ UNCHANGED <<seq, now>>

Next == Clock \/ Install \/ Reset \/ StartOver \/ GoOn \/ AnswerAgain

Spec == Init /\ [][Next]_<<seq, now, round>>
==============================================================================

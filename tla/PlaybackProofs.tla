------------------------------ MODULE PlaybackProofs ------------------------------
(***************************************************************************)
(* Proofs about what the engine plays back.  SequenceCursor and            *)
(* SequenceHistory: for all valid sequences and any clock, the cursor      *)
(* gives the answers that SequencePromise promises.  StreamConnections:    *)
(* whatever timers, pushes, replies and reloads come in between, a client  *)
(* hears the script in order and the console tells what it heard.          *)
(***************************************************************************)
EXTENDS SequenceHistory, StreamConnections, FiniteSetTheorems, WellFoundedInduction, TLAPS


\* The bound of the counters is a positive number.
LEMMA BoundType == MaxServed \in Nat /\ MaxServed >= 1
BY ServedAssumption

\* The shape of a valid sequence.
LEMMA SequenceShape ==
  ASSUME NEW s \in Sequence
  PROVE  /\ Len(s.steps) \in Nat /\ Len(s.steps) >= 2
         /\ s.onEnd \in {"stay", "loop"}
         /\ \A i \in 1..Len(s.steps) : s.steps[i] \in Step
         /\ \A i \in 1..Len(s.steps) :
              s.steps[i].by = "end" => i = Len(s.steps) /\ s.onEnd = "stay"
         /\ s.resetAfterMs # None => s.resetAfterMs \in Nat
BY SequenceAssumption DEF Valid

\* The history holds a count and an instant.
HistoryType == run \in 0..MaxServed /\ since \in Time

HistoryInv == TypeOK /\ HistoryType /\ CursorFollowsAnswers

-------------------------------------------------------------------------------
(* The cursor.                                                             *)

\* The fields of a cursor moved to the beginning of a step.
LEMMA MoveToFields ==
  ASSUME NEW c \in Cursor, NEW i \in Nat \ {0}
  PROVE  LET m == MoveTo(c, i)
         IN  /\ m \in Cursor /\ m.signature = c.signature /\ m.stepIndex = i
             /\ m.servedInStep = 0 /\ m.stepStartedAt = None
             /\ m.lastRequestAt = c.lastRequestAt /\ m.terminal = c.terminal
<1> DEFINE m == MoveTo(c, i)
<1>1. 0 \in 0..MaxServed
      BY BoundType
<1>2. m \in Cursor
      BY <1>1, Zenon DEF Cursor, MoveTo
<1>3. /\ m.signature = c.signature /\ m.stepIndex = i
      /\ m.servedInStep = 0 /\ m.stepStartedAt = None
      /\ m.lastRequestAt = c.lastRequestAt /\ m.terminal = c.terminal
      BY DEF Cursor, MoveTo
<1>4. QED
      BY <1>2, <1>3

\* The fields of a cursor that reached the end of its sequence.
LEMMA TerminalFields ==
  ASSUME NEW c \in Cursor
  PROVE  LET m == [c EXCEPT !.terminal = TRUE]
         IN  /\ m \in Cursor /\ m.signature = c.signature /\ m.stepIndex = c.stepIndex
             /\ m.servedInStep = c.servedInStep /\ m.stepStartedAt = c.stepStartedAt
             /\ m.lastRequestAt = c.lastRequestAt /\ m.terminal
<1> DEFINE m == [c EXCEPT !.terminal = TRUE]
<1>1. m \in Cursor
      BY Zenon DEF Cursor
<1>2. /\ m.signature = c.signature /\ m.stepIndex = c.stepIndex
      /\ m.servedInStep = c.servedInStep /\ m.stepStartedAt = c.stepStartedAt
      /\ m.lastRequestAt = c.lastRequestAt /\ m.terminal
      BY DEF Cursor
<1>3. QED
      BY <1>1, <1>2

\* The fields of a cursor that counted a request.
LEMMA ServedFields ==
  ASSUME NEW c \in Cursor, now \in Time
  PROVE  LET m == Served(c)
         IN  /\ m \in Cursor /\ m.signature = c.signature /\ m.stepIndex = c.stepIndex
             /\ m.servedInStep = Count(c.servedInStep)
             /\ m.stepStartedAt = IF c.stepStartedAt = None THEN now ELSE c.stepStartedAt
             /\ m.lastRequestAt = now /\ m.terminal = c.terminal
<1>1. Count(c.servedInStep) \in 0..MaxServed
      BY BoundType DEF Count, Cursor
<1> DEFINE m == Served(c)
<1>2. m \in Cursor
      BY <1>1, Zenon DEF Cursor, Served
<1>3. /\ m.signature = c.signature /\ m.stepIndex = c.stepIndex
      /\ m.servedInStep = Count(c.servedInStep)
      /\ m.stepStartedAt = IF c.stepStartedAt = None THEN now ELSE c.stepStartedAt
      /\ m.lastRequestAt = now /\ m.terminal = c.terminal
      BY DEF Cursor, Served
<1>4. QED
      BY <1>2, <1>3

\* The fields of a new cursor.
LEMMA CreateFields ==
  ASSUME NEW s \in Sequence
  PROVE  CreateEntry(s) \in Cursor
<1>1. 0 \in 0..MaxServed /\ 1 \in Nat \ {0}
      BY BoundType
<1>2. QED
      BY <1>1, Zenon DEF Cursor, CreateEntry

\* A cursor that can answer: well typed, on a step of the installed sequence,
\* terminal only at the end of a sequence that stays.
Ready(c) ==
  /\ c \in Cursor /\ c.signature = seq
  /\ c.stepIndex \in 1..Len(seq.steps)
  /\ c.terminal => c.stepIndex = Len(seq.steps) /\ seq.onEnd = "stay"

Successor(i) == IF i < Len(seq.steps) THEN i + 1 ELSE 1

\* What Advance does to a cursor that can answer.
LEMMA AdvanceResult ==
  ASSUME NEW c, Ready(c), seq \in Sequence
  PROVE  /\ Ready(Advance(c))
         /\ Advance(c).lastRequestAt = c.lastRequestAt
         /\ IF c.stepIndex < Len(seq.steps) \/ seq.onEnd = "loop"
            THEN Advance(c) = MoveTo(c, Successor(c.stepIndex))
            ELSE Advance(c) = [c EXCEPT !.terminal = TRUE]
<1>1. Len(seq.steps) \in Nat /\ Len(seq.steps) >= 2 /\ seq.onEnd \in {"stay", "loop"}
      BY SequenceShape
<1>2. /\ c \in Cursor /\ c.signature = seq
      /\ c.stepIndex \in Nat /\ c.stepIndex <= Len(seq.steps) /\ c.stepIndex >= 1
      /\ c.terminal => c.stepIndex = Len(seq.steps) /\ seq.onEnd = "stay"
      BY <1>1 DEF Ready
<1>3. CASE c.stepIndex < Len(seq.steps) \/ seq.onEnd = "loop"
  <2> DEFINE i == Successor(c.stepIndex)
  <2>1. Advance(c) = MoveTo(c, i)
        BY <1>1, <1>2, <1>3 DEF Advance, Successor
  <2>2. i \in 1..Len(seq.steps) /\ i \in Nat \ {0}
        BY <1>1, <1>2 DEF Successor
  <2>3. ~c.terminal \/ i = Len(seq.steps)
        BY <1>1, <1>2, <1>3
  <2> HIDE DEF i
  <2>4. QED
        BY <1>2, <1>3, <2>1, <2>2, <2>3, MoveToFields DEF Ready, i
<1>4. CASE ~(c.stepIndex < Len(seq.steps) \/ seq.onEnd = "loop")
  <2>1. Advance(c) = [c EXCEPT !.terminal = TRUE]
        BY <1>2, <1>4 DEF Advance
  <2>2. c.stepIndex = Len(seq.steps) /\ seq.onEnd = "stay"
        BY <1>1, <1>2, <1>4
  <2>3. QED
        BY <1>2, <1>4, <2>1, <2>2, TerminalFields DEF Ready
<1>5. QED
      BY <1>3, <1>4

\* The step after an expired one has not started: the loop of resolveStep never
\* moves twice.
LEMMA LoopRunsOnce ==
  ASSUME NEW c, Ready(c), seq \in Sequence
  PROVE  ~Expired(SkipExpired(c))
<1>1. CASE ~Expired(c)
      BY <1>1 DEF SkipExpired
<1>2. CASE Expired(c)
  <2>1. SkipExpired(c) = Advance(c)
        BY <1>2 DEF SkipExpired
  <2>2. c \in Cursor /\ Successor(c.stepIndex) \in Nat \ {0}
        BY SequenceShape DEF Ready, Successor
  <2>3. CASE Advance(c) = MoveTo(c, Successor(c.stepIndex))
        BY <2>1, <2>2, <2>3, MoveToFields DEF Expired
  <2>4. CASE Advance(c) = [c EXCEPT !.terminal = TRUE]
        BY <2>1, <2>2, <2>4, TerminalFields DEF Expired
  <2>5. QED
        BY <2>3, <2>4, AdvanceResult
<1>3. QED
      BY <1>1, <1>2

\* Answering with a cursor counts the request; then the cursor stays on its
\* step, or leaves it if that was its last answer.
LEMMA ServedResult ==
  ASSUME NEW c, Ready(c), seq \in Sequence, now \in Time,
         NEW f, f = AdvanceEarly(Served(c))
  PROVE  /\ Ready(f) /\ f.lastRequestAt = now
         /\ \/ /\ f.stepIndex = c.stepIndex
               /\ f.servedInStep = Count(c.servedInStep)
               /\ f.stepStartedAt = IF c.stepStartedAt = None THEN now ELSE c.stepStartedAt
               /\ ~f.terminal /\ StepOf(f).by = "times" => f.servedInStep < StepOf(f).n
            \/ /\ StepOf(c).by = "times" /\ Count(c.servedInStep) >= StepOf(c).n
               /\ c.stepIndex < Len(seq.steps) \/ seq.onEnd = "loop"
               /\ f.stepIndex = Successor(c.stepIndex)
               /\ f.servedInStep = 0 /\ f.stepStartedAt = None /\ ~f.terminal
<1> DEFINE e == Served(c)
<1>1. /\ Ready(e) /\ e.lastRequestAt = now /\ e.stepIndex = c.stepIndex
      /\ e.servedInStep = Count(c.servedInStep) /\ e.terminal = c.terminal
      /\ e.stepStartedAt = IF c.stepStartedAt = None THEN now ELSE c.stepStartedAt
      BY ServedFields DEF Ready
<1>2. StepOf(e) = StepOf(c)
      BY <1>1 DEF StepOf, Ready
<1>3. StepOf(c).by = "times" => StepOf(c).n \in Nat /\ Count(c.servedInStep) \in Nat
  <2>1. StepOf(c) \in Step
        BY SequenceShape DEF StepOf, Ready
  <2>2. StepOf(c).by = "times" => StepOf(c).n \in Nat
        BY <2>1 DEF Step
  <2>3. QED
        BY <2>2, BoundType DEF Count, Ready, Cursor
<1> HIDE DEF e
<1>4. CASE ~(~e.terminal /\ StepOf(e).by = "times" /\ e.servedInStep >= StepOf(e).n)
  <2>1. f = e
        BY <1>4 DEF AdvanceEarly, e
  <2>2. QED
        BY <1>1, <1>2, <1>3, <1>4, <2>1
<1>5. CASE ~e.terminal /\ StepOf(e).by = "times" /\ e.servedInStep >= StepOf(e).n
  <2>1. f = Advance(e)
        BY <1>5 DEF AdvanceEarly, e
  <2>2. Ready(f) /\ f.lastRequestAt = now
        BY <1>1, <2>1, AdvanceResult
  <2>3. CASE e.stepIndex < Len(seq.steps) \/ seq.onEnd = "loop"
    <3>1. f = MoveTo(e, Successor(e.stepIndex))
          BY <1>1, <2>1, <2>3, AdvanceResult
    <3>2. /\ f.stepIndex = Successor(e.stepIndex) /\ f.servedInStep = 0
          /\ f.stepStartedAt = None /\ ~f.terminal
      <4>1. e \in Cursor /\ Successor(e.stepIndex) \in Nat \ {0}
            BY <1>1, SequenceShape DEF Ready, Successor
      <4>2. QED
            BY <1>5, <3>1, <4>1, MoveToFields
    <3>3. QED
          BY <1>1, <1>2, <1>5, <2>2, <2>3, <3>2
  <2>4. CASE ~(e.stepIndex < Len(seq.steps) \/ seq.onEnd = "loop")
    <3>1. f = [e EXCEPT !.terminal = TRUE]
          BY <1>1, <2>1, <2>4, AdvanceResult
    <3>2. /\ f.stepIndex = e.stepIndex /\ f.servedInStep = e.servedInStep
          /\ f.stepStartedAt = e.stepStartedAt /\ f.terminal
          BY <1>1, <3>1, TerminalFields DEF Ready
    <3>3. QED
          BY <1>1, <2>2, <3>2
  <2>5. QED
        BY <2>3, <2>4
<1>6. QED
      BY <1>4, <1>5

-------------------------------------------------------------------------------
(* A request.                                                              *)

\* The cursor chosen for a request is a new one, the one at hand, or the one at
\* hand moved over an expired step.
LEMMA ChosenReady ==
  ASSUME HistoryInv, seq # None
  PROVE  /\ Ready(Chosen) /\ seq \in Sequence
         /\ Restarts => Chosen = CreateEntry(seq)
         /\ ~Restarts => Ready(entry) /\ Chosen = SkipExpired(entry)
<1>1. seq \in Sequence
      BY DEF HistoryInv, TypeOK
<1>2. CASE Restarts
  <2>1. /\ CreateEntry(seq) \in Cursor /\ CreateEntry(seq).signature = seq
        /\ CreateEntry(seq).stepIndex = 1 /\ CreateEntry(seq).stepStartedAt = None
        /\ ~CreateEntry(seq).terminal
        BY <1>1, CreateFields DEF CreateEntry
  <2>2. Ready(CreateEntry(seq))
        BY <1>1, <2>1, SequenceShape DEF Ready
  <2>3. Chosen = CreateEntry(seq)
        BY <1>2, <2>1 DEF Chosen, SkipExpired, Expired
  <2>4. QED
        BY <1>1, <1>2, <2>2, <2>3
<1>3. CASE ~Restarts
  <2>1. entry # None /\ entry.signature = seq /\ entry \in Cursor
        BY <1>3 DEF Restarts, HistoryInv, TypeOK
  <2>2. entry.stepIndex \in 1..Len(seq.steps)
        BY <1>1, <2>1, SequenceShape DEF HistoryInv, TypeOK, Cursor
  <2>3. entry.terminal => entry.stepIndex = Len(seq.steps) /\ seq.onEnd = "stay"
        BY <2>1 DEF HistoryInv, CursorFollowsAnswers, OnStep, PastStep
  <2>4. Ready(entry)
        BY <2>1, <2>2, <2>3 DEF Ready
  <2>5. Chosen = SkipExpired(entry)
        BY <1>3 DEF Chosen
  <2>6. Ready(SkipExpired(entry))
        BY <1>1, <2>4, AdvanceResult DEF SkipExpired
  <2>7. QED
        BY <1>1, <1>3, <2>4, <2>5, <2>6
<1>4. QED
      BY <1>2, <1>3

\* How the chosen cursor relates to the answers: it starts a run on a step that
\* did not answer last, or it continues the run of the one that did.
LEMMA ChosenFollows ==
  ASSUME HistoryInv, seq # None, ~Restarts
  PROVE  \/ /\ Promise!Over /\ Chosen.stepIndex = Successor(answer)
            /\ Chosen.servedInStep = 0 /\ Chosen.stepStartedAt = None
         \/ /\ ~Promise!Over /\ Chosen.stepIndex = answer
            /\ Chosen.servedInStep = run /\ Chosen.stepStartedAt = since
<1>1. /\ entry # None /\ entry \in Cursor /\ seq \in Sequence
      /\ Ready(entry) /\ Chosen = SkipExpired(entry)
      BY ChosenReady DEF Restarts, HistoryInv, TypeOK
<1>2. round.step = answer /\ round.run = run /\ round.since = since
      BY <1>1 DEF round
<1>3. Promise!Over <=>
        /\ \/ seq.steps[answer].by = "times" /\ run >= seq.steps[answer].n
           \/ seq.steps[answer].by = "forMs" /\ now - since >= seq.steps[answer].n
        /\ answer < Len(seq.steps) \/ seq.onEnd = "loop"
      BY <1>2 DEF Promise!Over, Promise!Step
<1>4. OnStep \/ PastStep
      BY <1>1 DEF HistoryInv, CursorFollowsAnswers
<1>5. Successor(answer) = IF answer < Len(seq.steps) THEN answer + 1 ELSE 1
      BY DEF Successor
<1>6. CASE PastStep
  <2>1. Chosen = entry
        BY <1>1, <1>6 DEF PastStep, SkipExpired, Expired
  <2>2. QED
        BY <1>3, <1>5, <1>6, <2>1 DEF PastStep
<1>7. CASE OnStep
  <2>1. StepOf(entry) = seq.steps[answer]
        BY <1>1, <1>7 DEF OnStep, StepOf, Ready
  <2>2. since \in Int /\ run \in Nat /\ now \in Int /\ since # None
        BY BoundType, TimeAssumption, NoneAssumption DEF HistoryInv, HistoryType, TypeOK
  <2>3. answer \in 1..Len(seq.steps) /\ Len(seq.steps) \in Nat
        BY <1>1, <1>7, SequenceShape DEF OnStep, Ready
  <2>4. seq.steps[answer] \in Step
        BY <1>1, <2>3, SequenceShape
  <2>5. seq.steps[answer].by \in {"times", "forMs"} => seq.steps[answer].n \in Nat
        BY <2>4 DEF Step
  <2>6. Expired(entry) <=>
          /\ ~entry.terminal /\ seq.steps[answer].by = "forMs"
          /\ now - since >= seq.steps[answer].n
        BY <1>7, <2>1, <2>2 DEF Expired, OnStep
  <2>7. CASE Expired(entry)
    <3>1. Chosen = Advance(entry)
          BY <1>1, <2>7 DEF SkipExpired
    <3>2. CASE answer < Len(seq.steps) \/ seq.onEnd = "loop"
      <4>1. Chosen = MoveTo(entry, Successor(answer))
            BY <1>1, <1>7, <3>1, <3>2, AdvanceResult DEF OnStep
      <4>2. Successor(answer) \in Nat \ {0}
            BY <2>3 DEF Successor
      <4>3. QED
            BY <1>1, <1>3, <2>6, <2>7, <3>2, <4>1, <4>2, MoveToFields
    <3>3. CASE ~(answer < Len(seq.steps) \/ seq.onEnd = "loop")
      <4>1. Chosen = [entry EXCEPT !.terminal = TRUE]
            BY <1>1, <1>7, <3>1, <3>3, AdvanceResult DEF OnStep
      <4>2. QED
            BY <1>1, <1>3, <1>7, <3>3, <4>1, TerminalFields DEF OnStep
    <3>4. QED
          BY <3>2, <3>3
  <2>8. CASE ~Expired(entry)
    <3>1. Chosen = entry
          BY <1>1, <2>8 DEF SkipExpired
    <3>2. ~Promise!Over
      <4>1. CASE entry.terminal
            BY <1>3, <1>7, <2>3, <4>1 DEF OnStep
      <4>2. CASE ~entry.terminal
            BY <1>3, <1>7, <2>1, <2>2, <2>5, <2>6, <2>8, <4>2 DEF OnStep
      <4>3. QED
            BY <4>1, <4>2
    <3>3. QED
          BY <1>7, <3>1, <3>2 DEF OnStep
  <2>9. QED
        BY <2>7, <2>8
<1>8. QED
      BY <1>4, <1>6, <1>7

\* What a request leaves behind agrees with what it answered.
LEMMA RequestFollows ==
  ASSUME HistoryInv, RequestH
  PROVE  /\ HistoryInv'
         /\ entry' # None /\ entry'.lastRequestAt = now
         /\ answer' = Chosen.stepIndex /\ seq' = seq /\ now' = now
<1> DEFINE c == Chosen
           f == AdvanceEarly(Served(Chosen))
<1>1. /\ seq # None /\ seq \in Sequence /\ now \in Time /\ Ready(c)
      /\ entry' = f /\ answer' = c.stepIndex /\ seq' = seq /\ now' = now
      BY ChosenReady DEF RequestH, Request, HistoryInv, TypeOK
<1>2. /\ Ready(f) /\ f.lastRequestAt = now
      /\ \/ /\ f.stepIndex = c.stepIndex
            /\ f.servedInStep = Count(c.servedInStep)
            /\ f.stepStartedAt = IF c.stepStartedAt = None THEN now ELSE c.stepStartedAt
            /\ ~f.terminal /\ StepOf(f).by = "times" => f.servedInStep < StepOf(f).n
         \/ /\ StepOf(c).by = "times" /\ Count(c.servedInStep) >= StepOf(c).n
            /\ c.stepIndex < Len(seq.steps) \/ seq.onEnd = "loop"
            /\ f.stepIndex = Successor(c.stepIndex)
            /\ f.servedInStep = 0 /\ f.stepStartedAt = None /\ ~f.terminal
      BY <1>1, ServedResult
<1>3. /\ f \in Cursor /\ f.signature = seq /\ f # None
      /\ f.stepIndex \in 1..Len(seq.steps) /\ Len(seq.steps) \in Nat
      /\ f.terminal => f.stepIndex = Len(seq.steps) /\ seq.onEnd = "stay"
      BY <1>1, <1>2, NoneAssumption, SequenceShape DEF Ready
<1>4. c \in Cursor /\ c.signature = seq /\ c.stepIndex \in 1..Len(seq.steps)
      BY <1>1 DEF Ready
<1>5. run' = Count(c.servedInStep)
      /\ since' = IF c.stepStartedAt = None THEN now ELSE c.stepStartedAt
  <2>1. CASE Restarts
    <3>1. c.servedInStep = 0 /\ c.stepStartedAt = None
          BY <1>1, <2>1, ChosenReady DEF CreateEntry
    <3>2. run' = 1 /\ since' = now
          BY <2>1 DEF RequestH
    <3>3. QED
          BY <3>1, <3>2, BoundType DEF Count
  <2>2. CASE ~Restarts
    <3>1. answer \in 1..Len(seq.steps)
          BY <1>1, <1>3, <2>2, ChosenReady
          DEF Restarts, HistoryInv, CursorFollowsAnswers, OnStep, PastStep, Ready
    <3>2. CASE /\ Promise!Over /\ c.stepIndex = Successor(answer)
               /\ c.servedInStep = 0 /\ c.stepStartedAt = None
      <4>1. Successor(answer) # answer
            BY <1>1, <1>3, <3>1, SequenceShape DEF Successor
      <4>2. run' = 1 /\ since' = now
            BY <1>1, <3>2, <4>1 DEF RequestH
      <4>3. QED
            BY <3>2, <4>2, BoundType DEF Count
    <3>3. CASE /\ ~Promise!Over /\ c.stepIndex = answer
               /\ c.servedInStep = run /\ c.stepStartedAt = since
      <4>1. run' = Count(run) /\ since' = since
            BY <1>1, <2>2, <3>3 DEF RequestH
      <4>2. since # None
            BY NoneAssumption, TimeAssumption DEF HistoryInv, HistoryType
      <4>3. QED
            BY <3>3, <4>1, <4>2
    <3>4. QED
          BY <1>1, <2>2, <3>2, <3>3, ChosenFollows
  <2>3. QED
        BY <2>1, <2>2
<1>6. HistoryType'
  <2>1. Count(c.servedInStep) \in 0..MaxServed
        BY <1>4, BoundType DEF Count, Cursor
  <2>2. c.stepStartedAt \in Time \cup {None}
        BY <1>4 DEF Cursor
  <2>3. QED
        BY <1>1, <1>5, <2>1, <2>2 DEF HistoryType
<1> HIDE DEF c, f
<1>7. TypeOK'
  <2>1. answer' \in Nat
        BY <1>1, <1>3, <1>4
  <2>2. f.stepIndex <= Len(f.signature.steps)
        BY <1>3
  <2>3. QED
        BY <1>1, <1>3, <2>1, <2>2 DEF TypeOK
<1>8. CursorFollowsAnswers'
  <2>1. StepOf(c) = seq.steps[c.stepIndex] /\ StepOf(f) = seq.steps[f.stepIndex]
        BY <1>3, <1>4 DEF StepOf
  <2>2. CASE /\ f.stepIndex = c.stepIndex
             /\ f.servedInStep = Count(c.servedInStep)
             /\ f.stepStartedAt = IF c.stepStartedAt = None THEN now ELSE c.stepStartedAt
             /\ ~f.terminal /\ StepOf(f).by = "times" => f.servedInStep < StepOf(f).n
    <3>1. OnStep'
          BY <1>1, <1>3, <1>5, <2>2 DEF OnStep, StepOf
    <3>2. QED
          BY <1>1, <1>2, <1>3, <3>1 DEF CursorFollowsAnswers
  <2>3. CASE /\ StepOf(c).by = "times" /\ Count(c.servedInStep) >= StepOf(c).n
             /\ c.stepIndex < Len(seq.steps) \/ seq.onEnd = "loop"
             /\ f.stepIndex = Successor(c.stepIndex)
             /\ f.servedInStep = 0 /\ f.stepStartedAt = None /\ ~f.terminal
    <3>1. PastStep'
          BY <1>1, <1>4, <1>5, <2>1, <2>3 DEF PastStep, Successor
    <3>2. QED
          BY <1>1, <1>2, <1>3, <3>1 DEF CursorFollowsAnswers
  <2>4. QED
        BY <1>2, <2>2, <2>3
<1>9. QED
      BY <1>1, <1>2, <1>3, <1>6, <1>7, <1>8 DEF HistoryInv, c

-------------------------------------------------------------------------------
(* The specification.                                                      *)

\* Nothing is answered yet in an initial state.
LEMMA HistoryInit == InitH => HistoryInv
<1> SUFFICES ASSUME InitH PROVE HistoryInv
    OBVIOUS
<1>1. TypeOK
      BY DEF InitH, Init, TypeOK
<1>2. HistoryType
      BY BoundType DEF InitH, Init, HistoryType
<1>3. CursorFollowsAnswers
      BY DEF InitH, Init, CursorFollowsAnswers
<1>4. QED
      BY <1>1, <1>2, <1>3 DEF HistoryInv

\* Every step keeps the cursor where the answers have led.
LEMMA HistoryNext == HistoryInv /\ [NextH]_varsH => HistoryInv'
<1> SUFFICES ASSUME HistoryInv, [NextH]_varsH PROVE HistoryInv'
    OBVIOUS
<1>1. CASE RequestH
      BY <1>1, RequestFollows
<1>2. ASSUME Clock, UNCHANGED <<run, since>> PROVE HistoryInv'
  <2>1. TypeOK' /\ HistoryType'
        BY <1>2 DEF Clock, HistoryInv, TypeOK, HistoryType
  <2>2. CursorFollowsAnswers'
        BY <1>2 DEF Clock, HistoryInv, CursorFollowsAnswers, OnStep, PastStep, StepOf
  <2>3. QED
        BY <2>1, <2>2 DEF HistoryInv
<1>3. ASSUME NEW s \in Sequence \cup {None}, Install(s), UNCHANGED <<run, since>>
      PROVE  HistoryInv'
  <2>1. TypeOK' /\ HistoryType'
        BY <1>3 DEF Install, HistoryInv, TypeOK, HistoryType
  <2>2. s = seq => CursorFollowsAnswers'
        BY <1>3 DEF Install, HistoryInv, CursorFollowsAnswers, OnStep, PastStep, StepOf
  <2>3. s # seq => CursorFollowsAnswers'
        BY <1>3 DEF Install, CursorFollowsAnswers
  <2>4. QED
        BY <2>1, <2>2, <2>3 DEF HistoryInv
<1>4. ASSUME Reset, UNCHANGED <<run, since>> PROVE HistoryInv'
      BY <1>4 DEF Reset, HistoryInv, TypeOK, HistoryType, CursorFollowsAnswers
<1>5. CASE UNCHANGED varsH
      BY <1>5 DEF varsH, HistoryInv, TypeOK, HistoryType, CursorFollowsAnswers, OnStep,
                  PastStep, StepOf
<1>6. QED
      BY <1>1, <1>2, <1>3, <1>4, <1>5 DEF NextH, OtherH

\* The invariant of the cursor and its history.
LEMMA HistoryHolds == SpecH => []HistoryInv
BY HistoryInit, HistoryNext, PTL DEF SpecH

\* The cursor keeps its type, for any set of valid sequences and any clock.
THEOREM SequenceTypeCorrect == SpecH => []TypeOK
<1>1. HistoryInv => TypeOK
      BY DEF HistoryInv
<1>2. QED
      BY <1>1, HistoryHolds, PTL

\* The cursor stands where the answers given so far have led.
THEOREM CursorFollows == SpecH => []CursorFollowsAnswers
<1>1. HistoryInv => CursorFollowsAnswers
      BY DEF HistoryInv
<1>2. QED
      BY <1>1, HistoryHolds, PTL

\* With a step counted by requests, the admin sees the step that answers next.
THEOREM ShownHolds == SpecH => []ShownAnswersNext
<1>1. HistoryInv => ShownAnswersNext
  <2> SUFFICES ASSUME HistoryInv, seq # None,
                      round # None => ~Promise!Idle /\ Promise!Step.by # "forMs"
               PROVE  Shown = PromisedNext
      BY DEF ShownAnswersNext
  <2>1. CASE entry = None
        BY <2>1 DEF Shown, PromisedNext, round
  <2>2. CASE entry # None
    <3>1. round = [step |-> answer, run |-> run, since |-> since,
                   last |-> entry.lastRequestAt]
          BY <2>2 DEF round
    <3>2. /\ entry.signature = seq /\ seq \in Sequence /\ entry.lastRequestAt \in Time
          /\ entry \in Cursor /\ (OnStep \/ PastStep)
          BY <2>2 DEF HistoryInv, CursorFollowsAnswers, TypeOK
    <3>3. answer \in Nat /\ run \in Nat /\ since \in Int /\ entry.lastRequestAt \in Int
          BY <3>2, BoundType, TimeAssumption DEF HistoryInv, HistoryType, TypeOK
    <3>4. round # None
          BY <3>1, <3>3, NoneAssumption
    <3>5. ~Promise!Idle /\ seq.steps[answer].by # "forMs"
          BY <3>1, <3>4 DEF Promise!Step
    <3>6. Promise!Over <=>
            /\ seq.steps[answer].by = "times" /\ run >= seq.steps[answer].n
            /\ answer < Len(seq.steps) \/ seq.onEnd = "loop"
          BY <3>1, <3>5 DEF Promise!Over, Promise!Step
    <3>7. Shown = entry.stepIndex
          BY <2>2, <3>2 DEF Shown
    <3>8. CASE PastStep
          BY <3>4, <3>5, <3>6, <3>7, <3>8 DEF PastStep, PromisedNext
    <3>9. CASE OnStep
      <4>1. answer \in 1..Len(seq.steps) /\ Len(seq.steps) \in Nat
            BY <2>2, <3>2, <3>3, <3>9, SequenceShape DEF OnStep, HistoryInv, TypeOK, Cursor
      <4>2. seq.steps[answer].by = "times" => seq.steps[answer].n \in Nat
            BY <3>2, <4>1, SequenceShape DEF Step
      <4>3. ~Promise!Over
            BY <3>2, <3>3, <3>6, <3>9, <4>1, <4>2 DEF OnStep, StepOf
      <4>4. QED
            BY <3>4, <3>5, <3>7, <3>9, <4>3 DEF OnStep, PromisedNext
    <3>10. QED
          BY <3>2, <3>8, <3>9
  <2>3. QED
        BY <2>1, <2>2
<1>2. QED
      BY <1>1, HistoryHolds, PTL

-------------------------------------------------------------------------------
(* The refinement.                                                         *)

\* A request gives the answer that is promised: the first step, the next one
\* or the same one.
LEMMA RequestRefines ==
  ASSUME HistoryInv, RequestH
  PROVE  Promise!StartOver \/ Promise!GoOn \/ Promise!AnswerAgain
<1>1. /\ seq # None /\ entry' # None /\ entry'.lastRequestAt = now
      /\ answer' = Chosen.stepIndex /\ seq' = seq /\ now' = now
      BY RequestFollows DEF RequestH, Request
<1>2. round' = [step |-> answer', run |-> run', since |-> since', last |-> now]
      BY <1>1 DEF round
<1>3. CASE Restarts
  <2>1. answer' = 1 /\ run' = 1 /\ since' = now
        BY <1>1, <1>3, ChosenReady DEF CreateEntry, RequestH
  <2>2. entry = None \/ (Idle(entry) /\ entry.signature = seq /\ entry # None)
        BY <1>3 DEF Restarts, HistoryInv, CursorFollowsAnswers
  <2>3. round = None \/ Promise!Idle
        BY <2>2 DEF round, Promise!Idle, Idle
  <2>4. QED
        BY <1>1, <1>2, <2>1, <2>3 DEF Promise!StartOver, Promise!AnswerWith
<1>4. CASE ~Restarts
  <2>1. /\ entry # None /\ ~Idle(entry) /\ entry.signature = seq
        /\ entry.lastRequestAt \in Time
        BY <1>4 DEF Restarts, HistoryInv, CursorFollowsAnswers
  <2>2. round = [step |-> answer, run |-> run, since |-> since, last |-> entry.lastRequestAt]
        BY <2>1 DEF round
  <2>3. /\ answer \in Nat /\ run \in Nat /\ since \in Int /\ entry.lastRequestAt \in Int
        BY <2>1, BoundType, TimeAssumption DEF HistoryInv, HistoryType, TypeOK
  <2>4. round # None
        BY <2>2, <2>3, NoneAssumption
  <2>5. ~Promise!Idle
        BY <2>1, <2>2, NoneAssumption, TimeAssumption DEF Promise!Idle, Idle
  <2>6. Ready(entry) /\ Len(seq.steps) \in Nat /\ Len(seq.steps) >= 2
        BY <1>1, <1>4, ChosenReady, SequenceShape
  <2>7. answer \in 1..Len(seq.steps)
        BY <2>1, <2>6 DEF HistoryInv, CursorFollowsAnswers, OnStep, PastStep, Ready
  <2>8. CASE Promise!Over /\ Chosen.stepIndex = Successor(answer)
    <3>1. answer' # answer /\ answer' = Successor(answer)
          BY <1>1, <2>6, <2>7, <2>8 DEF Successor
    <3>2. run' = 1 /\ since' = now
          BY <3>1 DEF RequestH
    <3>3. Successor(answer) = IF round.step < Len(seq.steps) THEN round.step + 1 ELSE 1
          BY <2>2 DEF Successor
    <3>4. QED
          BY <1>1, <1>2, <2>4, <2>5, <2>8, <3>1, <3>2, <3>3
          DEF Promise!GoOn, Promise!AnswerWith
  <2>9. CASE ~Promise!Over /\ Chosen.stepIndex = answer
    <3>1. answer' = answer /\ run' = Count(run) /\ since' = since
          BY <1>1, <1>4, <2>9 DEF RequestH
    <3>2. Promise!Counted(run) = Count(run)
          BY DEF Promise!Counted, Count
    <3>3. round' = [step |-> round.step, run |-> Promise!Counted(round.run),
                    since |-> round.since, last |-> now]
          BY <1>2, <2>2, <3>1, <3>2
    <3>4. QED
          BY <1>1, <2>4, <2>5, <2>9, <3>3 DEF Promise!AnswerAgain
  <2>10. QED
        BY <1>1, <1>4, <2>8, <2>9, ChosenFollows
<1>5. QED
      BY <1>3, <1>4

\* Every step of the cursor is a step of the promise, or leaves it alone.
LEMMA StepRefines == HistoryInv /\ [NextH]_varsH => [Promise!Next]_<<seq, now, round>>
<1> SUFFICES ASSUME HistoryInv, [NextH]_varsH
             PROVE  Promise!Next \/ UNCHANGED <<seq, now, round>>
    OBVIOUS
<1>1. CASE RequestH
      BY <1>1, RequestRefines DEF Promise!Next
<1>2. ASSUME Clock, UNCHANGED <<run, since>> PROVE Promise!Clock
      BY <1>2 DEF Clock, Promise!Clock, round
<1>3. ASSUME NEW s \in Sequence \cup {None}, Install(s), UNCHANGED <<run, since>>
      PROVE  Promise!Install \/ UNCHANGED <<seq, now, round>>
      BY <1>3 DEF Install, Promise!Install, round
<1>4. ASSUME Reset PROVE Promise!Reset
      BY <1>4 DEF Reset, Promise!Reset, round
<1>5. CASE UNCHANGED varsH
      BY <1>5 DEF varsH, round
<1>6. QED
      BY <1>1, <1>2, <1>3, <1>4, <1>5 DEF NextH, OtherH, Promise!Next

\* The cursor implements the promise, for any set of valid sequences, any
\* clock, any reloads and resets.
THEOREM CursorKeepsPromise == SpecH => PromiseKept
<1>1. InitH => Promise!Init
      BY DEF InitH, Init, Promise!Init, round
<1>2. QED
      BY <1>1, StepRefines, HistoryHolds, PTL DEF SpecH, PromiseKept, Promise!Spec

\* The cursor follows the answers and is shown as it will answer (CursorSound).
THEOREM CursorSoundHolds == SpecH => []CursorSound
BY CursorFollows, ShownHolds, PTL DEF CursorSound

-------------------------------------------------------------------------------
(* The invariant of the connections.                                       *)

Origins == {"script", "rule"}
PlayList == [origin : Origins, of : Nat, next : Nat, len : Nat]
Connection ==
  [key : Keys, stream : Streams, phase : {"open", "ending", "closed"}, registered : BOOLEAN,
   lists : SUBSET PlayList, index : Nat, sent : Nat, received : Nat, since : Nat]
Message == {"script", "rule", "manual"} \X Nat \X Nat
Item == Nat \X {"script", "rule", "manual", "received"} \X Nat \X Nat

HeardIn(w, origin, of) == {i \in DOMAIN w : w[i][1] = origin /\ w[i][2] = of}

InOrder(w, heard, len, again) ==
  \A i \in heard :
    /\ w[i][3] <= len
    /\ (\A j \in heard : i <= j) => w[i][3] = 1
    /\ \A j \in heard : (j < i /\ \A m \in heard : m <= j \/ m >= i) =>
         w[i][3] = IF again /\ w[j][3] = len THEN 1 ELSE w[j][3] + 1

\* The next message of a list is the one after the last that was heard of it.
Continues(w, heard, next, len, again) ==
  /\ heard = {} => next = 1
  /\ \A i \in heard : (\A j \in heard : j <= i) =>
       next = IF again /\ w[i][3] = len THEN 1 ELSE w[i][3] + 1

Loops(r) == r.stream.onEnd = "loop"

\* A list of a connection.
ListInv(r, l) ==
  /\ l.next \in 1..l.len
  /\ l.origin = "script" => l.of = 0 /\ l.len = r.stream.len
  /\ l.origin = "rule" => l.of \in 1..r.received /\ l.len = r.stream.reply

\* The console shows the number of the last message of the script.
IndexInv(r, w) ==
  /\ HeardIn(w, "script", 0) = {} => r.index = 0
  /\ \A i \in HeardIn(w, "script", 0) : (\A j \in HeardIn(w, "script", 0) : j <= i) =>
       r.index = IF r.stream.kind = "ws" /\ Loops(r) /\ w[i][3] = r.stream.len THEN 0 ELSE w[i][3]

PlayInv(r, w) ==
  /\ r \in Connection /\ w \in Seq(Message)
  /\ r.phase = "open" => r.registered
  /\ r.phase = "closed" => r.lists = {} /\ ~r.registered
  /\ \A l \in r.lists : ListInv(r, l)
  /\ \A l, m \in r.lists : l.origin = m.origin /\ l.of = m.of => l = m
  /\ \A i \in DOMAIN w : w[i][1] = "rule" => w[i][2] \in 1..r.received
  /\ InOrder(w, HeardIn(w, "script", 0), r.stream.len, Loops(r))
  /\ \A of \in Nat : InOrder(w, HeardIn(w, "rule", of), r.stream.reply, FALSE)
  /\ r.phase = "open" =>
       /\ \A l \in r.lists :
            Continues(w, HeardIn(w, l.origin, l.of), l.next, l.len, l.origin = "script" /\ Loops(r))
       /\ IndexInv(r, w)
       /\ r.sent = Len(w)

\* What a history tells of a connection, and how much of it comes after a place.
Concerns(e, c, from) == e[2] # "received" /\ (e[1] = c \/ (e[1] = 0 /\ e[4] > from))
ToldIn(h, c, from) == {i \in DOMAIN h : Concerns(h[i], c, from)}
Later(T, i) == Cardinality({j \in T : j > i})
Tells(h, w, T) ==
  /\ \A i \in T : /\ Later(T, i) < Len(w)
                  /\ w[Len(w) - Later(T, i)] = <<h[i][2], h[i][3], h[i][4]>>
  /\ Len(h) < HistoryLimit => Cardinality(T) = Len(w)

EntriesInv ==
  /\ history \in [Keys -> Seq(Item)]
  /\ \A k \in Keys :
       /\ Len(history[k]) <= HistoryLimit
       /\ \A i \in DOMAIN history[k] :
            /\ history[k][i][1] <= Len(conn)
            /\ history[k][i][1] = 0 => history[k][i][4] <= pushes

TellInv(c, r, w) ==
  r.phase = "open" =>
    Tells(history[r.key], w, ToldIn(history[r.key], c, r.since))

ConnectionsInv ==
  /\ pushes \in Nat
  /\ installed \in [Keys -> Streams \cup {Off}]
  /\ conn \in Seq(Connection) /\ wire \in Seq(Seq(Message)) /\ Len(wire) = Len(conn)
  /\ EntriesInv
  /\ \A c \in 1..Len(conn) :
       PlayInv(conn[c], wire[c]) /\ TellInv(c, conn[c], wire[c]) /\ conn[c].since <= pushes

-------------------------------------------------------------------------------
(* What a client has heard.                                                *)

LEMMA AppendIs ==
  ASSUME NEW S, NEW w \in Seq(S), NEW m \in S
  PROVE  /\ Append(w, m) \in Seq(S)
         /\ DOMAIN w = 1..Len(w) /\ Len(w) \in Nat
         /\ DOMAIN Append(w, m) = 1..(Len(w) + 1) /\ Len(Append(w, m)) = Len(w) + 1
         /\ Append(w, m)[Len(w) + 1] = m
         /\ \A i \in 1..Len(w) : Append(w, m)[i] = w[i]
  OBVIOUS

\* A message of another list changes nothing for this one.
SameHeard(w, m, origin, of) ==
  /\ HeardIn(Append(w, m), origin, of) = HeardIn(w, origin, of)
  /\ \A i \in HeardIn(w, origin, of) : Append(w, m)[i] = w[i]

LEMMA HearOther ==
  ASSUME NEW w \in Seq(Message), NEW m \in Message, NEW origin, NEW of,
         m[1] # origin \/ m[2] # of
  PROVE  SameHeard(w, m, origin, of)
<1> DEFINE v == Append(w, m)
<1>1. /\ DOMAIN w = 1..Len(w) /\ Len(w) \in Nat /\ DOMAIN v = 1..(Len(w) + 1)
      /\ v[Len(w) + 1] = m /\ \A i \in 1..Len(w) : v[i] = w[i]
  BY AppendIs
<1> HIDE DEF v
<1>2. \A i \in DOMAIN v : i \in DOMAIN w \/ i = Len(w) + 1
  BY <1>1
<1>3. \A i \in DOMAIN w : i \in DOMAIN v /\ v[i] = w[i]
  BY <1>1
<1>4. HeardIn(v, origin, of) = HeardIn(w, origin, of)
  BY <1>1, <1>2, <1>3 DEF HeardIn
<1> QED
  BY <1>3, <1>4 DEF v, HeardIn, SameHeard

LEMMA OrderOther ==
  ASSUME NEW w \in Seq(Message), NEW m \in Message, NEW origin, NEW of,
         m[1] # origin \/ m[2] # of, NEW len, NEW again, NEW next
  PROVE  /\ InOrder(w, HeardIn(w, origin, of), len, again) =>
              InOrder(Append(w, m), HeardIn(Append(w, m), origin, of), len, again)
         /\ Continues(w, HeardIn(w, origin, of), next, len, again) =>
              Continues(Append(w, m), HeardIn(Append(w, m), origin, of), next, len, again)
<1> DEFINE v == Append(w, m)
           heard == HeardIn(w, origin, of)
<1>1. HeardIn(v, origin, of) = heard /\ \A i \in heard : v[i] = w[i]
  <2>1. SameHeard(w, m, origin, of)
    BY HearOther
  <2> QED
    BY <2>1 DEF SameHeard
<1> HIDE DEF v, heard
<1>2. InOrder(w, heard, len, again) => InOrder(v, heard, len, again)
  BY <1>1 DEF InOrder
<1>3. Continues(w, heard, next, len, again) => Continues(v, heard, next, len, again)
  BY <1>1 DEF Continues
<1> QED
  BY <1>1, <1>2, <1>3 DEF v, heard

\* The next message of a list.
HeardNext(w, origin, of, next, len, again) ==
  LET v == Append(w, <<origin, of, next>>)
      heard == HeardIn(v, origin, of) IN
  /\ <<origin, of, next>> \in Message
  /\ InOrder(v, heard, len, again)
  /\ \A i \in heard : (\A j \in heard : j <= i) => v[i][3] = next
  /\ Len(w) + 1 \in heard

LEMMA HearNext ==
  ASSUME NEW w \in Seq(Message), NEW origin \in Origins, NEW of \in Nat, NEW len \in Nat,
         NEW again \in BOOLEAN, NEW next \in 1..len,
         InOrder(w, HeardIn(w, origin, of), len, again),
         Continues(w, HeardIn(w, origin, of), next, len, again)
  PROVE  HeardNext(w, origin, of, next, len, again)
<1> DEFINE m == <<origin, of, next>>
           v == Append(w, m)
           old == HeardIn(w, origin, of)
           heard == HeardIn(v, origin, of)
           n == Len(w) + 1
<1>1. m \in Message /\ m[1] = origin /\ m[2] = of /\ m[3] = next
  BY DEF Message, Origins
<1> HIDE DEF m
<1>2. /\ DOMAIN w = 1..Len(w) /\ Len(w) \in Nat /\ DOMAIN v = 1..n /\ v[n] = m
      /\ \A i \in 1..Len(w) : v[i] = w[i]
  BY <1>1, AppendIs
<1> HIDE DEF v
<1>3. heard = old \cup {n}
  <2>1. \A i \in DOMAIN v : i \in DOMAIN w \/ i = n
    BY <1>2
  <2>2. \A i \in DOMAIN w : i \in DOMAIN v /\ v[i] = w[i]
    BY <1>2
  <2>3. n \in DOMAIN v
    BY <1>2
  <2> HIDE DEF n
  <2> QED
    BY <1>1, <1>2, <2>1, <2>2, <2>3 DEF HeardIn
<1>4. \A i \in old : i \in Nat /\ i < n /\ v[i] = w[i]
  BY <1>2 DEF HeardIn
<1>5. n \in Nat
  BY <1>2
<1> HIDE DEF heard, old, n
<1>6. ASSUME NEW i \in old
      PROVE  /\ v[i][3] <= len
             /\ (\A j \in heard : i <= j) => v[i][3] = 1
             /\ \A j \in heard : (j < i /\ \A k \in heard : k <= j \/ k >= i) =>
                  v[i][3] = IF again /\ v[j][3] = len THEN 1 ELSE v[j][3] + 1
  <2>1. InOrder(w, old, len, again)
    BY DEF old
  <2>2. w[i][3] <= len /\ ((\A j \in old : i <= j) => w[i][3] = 1)
    BY <2>1 DEF InOrder
  <2>3. \A j \in old : (j < i /\ \A k \in old : k <= j \/ k >= i) =>
          w[i][3] = IF again /\ w[j][3] = len THEN 1 ELSE w[j][3] + 1
    BY <2>1 DEF InOrder
  <2>4. \A j \in heard : j < i => j \in old
    BY <1>3, <1>4, <1>5
  <2>5. \A j \in old : j \in heard
    BY <1>3
  <2> QED
    BY <1>4, <2>2, <2>3, <2>4, <2>5
<1>7. /\ v[n][3] = next
      /\ (\A j \in heard : n <= j) => v[n][3] = 1
      /\ \A j \in heard : (j < n /\ \A k \in heard : k <= j \/ k >= n) =>
           v[n][3] = IF again /\ v[j][3] = len THEN 1 ELSE v[j][3] + 1
  <2>1. Continues(w, old, next, len, again)
    BY DEF old
  <2>2. v[n][3] = next
    BY <1>1, <1>2
  <2>3. ASSUME \A j \in heard : n <= j PROVE old = {}
    BY <1>3, <1>4, <1>5, <2>3
  <2>4. ASSUME NEW j \in heard, j < n, \A k \in heard : k <= j \/ k >= n
        PROVE  next = IF again /\ v[j][3] = len THEN 1 ELSE v[j][3] + 1
    <3>1. j \in old
      BY <1>3, <1>5, <2>4
    <3>2. \A k \in old : k <= j
      BY <1>3, <1>4, <1>5, <2>4
    <3> QED
      BY <1>4, <2>1, <3>1, <3>2 DEF Continues
  <2> QED
    BY <2>1, <2>2, <2>3, <2>4 DEF Continues
<1>8. InOrder(v, heard, len, again)
  <2>1. \A i \in heard : i \in old \/ i = n
    BY <1>3
  <2>2. v[n][3] <= len
    BY <1>7
  <2> QED
    BY <1>6, <1>7, <2>1, <2>2 DEF InOrder
<1>9. \A i \in heard : (\A j \in heard : j <= i) => v[i][3] = next
  BY <1>3, <1>4, <1>5, <1>7
<1> QED
  BY <1>1, <1>3, <1>8, <1>9 DEF v, heard, m, n, HeardNext

-------------------------------------------------------------------------------
(* What a bounded history tells.                                           *)

LEMMA CountOneMore ==
  ASSUME NEW n \in Nat, NEW T \in SUBSET (1..n)
  PROVE  /\ IsFiniteSet(T) /\ Cardinality(T) \in Nat
         /\ Cardinality(T \cup {n + 1}) = Cardinality(T) + 1
         /\ \A i \in T : Later(T, i) \in Nat /\ Later(T \cup {n + 1}, i) = Later(T, i) + 1
         /\ Later(T \cup {n + 1}, n + 1) = 0
<1>1. IsFiniteSet(1..n)
  BY FS_Interval
<1>2. \A U \in SUBSET (1..n) : /\ IsFiniteSet(U) /\ Cardinality(U) \in Nat
                               /\ Cardinality(U \cup {n + 1}) = Cardinality(U) + 1
  <2> SUFFICES ASSUME NEW U \in SUBSET (1..n)
               PROVE  /\ IsFiniteSet(U) /\ Cardinality(U) \in Nat
                      /\ Cardinality(U \cup {n + 1}) = Cardinality(U) + 1
    OBVIOUS
  <2>1. IsFiniteSet(U)
    BY <1>1, FS_Subset
  <2>2. n + 1 \notin U
    OBVIOUS
  <2>3. Cardinality(U \cup {n + 1}) = Cardinality(U) + 1
    BY <2>1, <2>2, FS_AddElement
  <2> QED
    BY <2>1, <2>3, FS_CardinalityType
<1>3. ASSUME NEW i \in T
      PROVE  Later(T, i) \in Nat /\ Later(T \cup {n + 1}, i) = Later(T, i) + 1
  <2> DEFINE U == {j \in T : j > i}
  <2>1. {j \in T \cup {n + 1} : j > i} = U \cup {n + 1}
    OBVIOUS
  <2>2. U \in SUBSET (1..n)
    OBVIOUS
  <2> HIDE DEF U
  <2>3. Cardinality(U) \in Nat /\ Cardinality(U \cup {n + 1}) = Cardinality(U) + 1
    BY <1>2, <2>2
  <2> QED
    BY <2>1, <2>3 DEF Later, U
<1>4. Later(T \cup {n + 1}, n + 1) = 0
  <2>1. \A j \in T \cup {n + 1} : ~(j > n + 1)
    OBVIOUS
  <2>2. {j \in T \cup {n + 1} : j > n + 1} = {}
    BY <2>1
  <2> QED
    BY <2>2, FS_EmptySet DEF Later
<1> QED
  BY <1>2, <1>3, <1>4

LEMMA CountShifted ==
  ASSUME NEW n \in Nat, NEW T \in SUBSET (1..(n + 1)), NEW U \in SUBSET (1..n),
         \A i \in 1..n : i \in U <=> i + 1 \in T
  PROVE  \A i \in U : Later(U, i) = Later(T, i + 1)
<1> SUFFICES ASSUME NEW i \in U PROVE Later(U, i) = Later(T, i + 1)
  OBVIOUS
<1> DEFINE A == {j \in U : j > i}
           B == {j \in T : j > i + 1}
           f == [j \in A |-> j + 1]
<1>1. IsFiniteSet(A)
  <2>1. IsFiniteSet(1..n)
    BY FS_Interval
  <2>2. A \in SUBSET (1..n)
    OBVIOUS
  <2> HIDE DEF A
  <2> QED
    BY <2>1, <2>2, FS_Subset
<1>2. f \in [A -> B]
  <2>1. \A j \in A : j + 1 \in B
    OBVIOUS
  <2> QED
    BY <2>1
<1>3. \A a, b \in A : f[a] = f[b] => a = b
  OBVIOUS
<1>4. \A t \in B : \E a \in A : f[a] = t
  <2> SUFFICES ASSUME NEW t \in B PROVE \E a \in A : f[a] = t
    OBVIOUS
  <2>1. t - 1 \in A /\ (t - 1) + 1 = t
    OBVIOUS
  <2> QED
    BY <2>1
<1> HIDE DEF f, A, B
<1>5. f \in Bijection(A, B)
  <2>1. f \in Injection(A, B)
    BY <1>2, <1>3 DEF Injection, IsInjective
  <2>2. f \in Surjection(A, B)
    BY <1>2, <1>4 DEF Surjection
  <2> QED
    BY <2>1, <2>2 DEF Bijection
<1>6. Cardinality(B) = Cardinality(A)
  BY <1>1, <1>5, FS_Bijection DEF ExistsBijection
<1> QED
  BY <1>6 DEF Later, A, B

LEMMA RecordedIs ==
  ASSUME NEW h \in Seq(Item), NEW e \in Item, Len(h) <= HistoryLimit
  PROVE  /\ Recorded(h, e) \in Seq(Item) /\ Len(Recorded(h, e)) <= HistoryLimit
         /\ Len(h) < HistoryLimit => Recorded(h, e) = Append(h, e)
         /\ Len(h) = HistoryLimit =>
              /\ Len(Recorded(h, e)) = HistoryLimit
              /\ \A i \in 1..HistoryLimit : Recorded(h, e)[i] = Append(h, e)[i + 1]
<1> DEFINE all == Append(h, e)
<1>1. all \in Seq(Item) /\ Len(all) = Len(h) + 1 /\ Len(h) \in Nat
  BY AppendIs
<1>2. HistoryLimit \in Nat \ {0}
  BY StreamAssumption
<1>3. Recorded(h, e) = IF Len(all) - HistoryLimit > 0
                       THEN SubSeq(all, (Len(all) - HistoryLimit) + 1, Len(all)) ELSE all
  BY DEF Recorded
<1> HIDE DEF all
<1>4. CASE Len(h) < HistoryLimit
  BY <1>1, <1>2, <1>3, <1>4 DEF all
<1>5. CASE Len(h) = HistoryLimit
  <2>1. Recorded(h, e) = SubSeq(all, 2, Len(all))
    BY <1>1, <1>2, <1>3, <1>5
  <2>2. /\ Recorded(h, e) \in Seq(Item) /\ Len(Recorded(h, e)) = HistoryLimit
        /\ \A i \in 1..HistoryLimit : Recorded(h, e)[i] = all[i + 1]
    BY <1>1, <1>2, <1>5, <2>1
  <2> QED
    BY <1>2, <1>5, <2>2 DEF all
<1> QED
  BY <1>1, <1>2, <1>4, <1>5

\* A new entry in the history, and what it stands for given to a connection that it concerns.
LEMMA RecordTells ==
  ASSUME NEW h \in Seq(Item), NEW e \in Item, Len(h) <= HistoryLimit,
         NEW w \in Seq(Message), NEW v \in Seq(Message), NEW c \in Nat, NEW from \in Nat,
         Tells(h, w, ToldIn(h, c, from)),
         Concerns(e, c, from) => <<e[2], e[3], e[4]>> \in Message /\ v = Append(w, <<e[2], e[3], e[4]>>),
         ~Concerns(e, c, from) => v = w
  PROVE  Tells(Recorded(h, e), v, ToldIn(Recorded(h, e), c, from))
<1> DEFINE all == Append(h, e)
           n == Len(h)
           T == ToldIn(h, c, from)
           Tall == ToldIn(all, c, from)
           message == <<e[2], e[3], e[4]>>
<1>1. /\ DOMAIN h = 1..n /\ n \in Nat /\ DOMAIN all = 1..(n + 1) /\ Len(all) = n + 1
      /\ all[n + 1] = e /\ \A i \in 1..n : all[i] = h[i]
      /\ all \in Seq(Item)
  BY AppendIs
<1>2. Len(w) \in Nat
  OBVIOUS
<1>3. Concerns(e, c, from) => /\ Len(v) = Len(w) + 1 /\ v[Len(w) + 1] = message
                              /\ \A i \in 1..Len(w) : v[i] = w[i]
  BY AppendIs
<1> HIDE DEF all, message, n
<1>4. Tall = IF Concerns(e, c, from) THEN T \cup {n + 1} ELSE T
  <2>1. \A i \in DOMAIN all : i \in DOMAIN h \/ i = n + 1
    BY <1>1
  <2>2. \A i \in DOMAIN h : i \in DOMAIN all /\ all[i] = h[i]
    BY <1>1
  <2>3. n + 1 \in DOMAIN all /\ n + 1 \notin DOMAIN h
    BY <1>1
  <2>4. \A i : i \in Tall <=> i \in T \/ (i = n + 1 /\ Concerns(e, c, from))
    BY <1>1, <2>1, <2>2, <2>3 DEF ToldIn
  <2> HIDE DEF T, Tall
  <2> QED
    BY <2>4
<1>5. T \in SUBSET (1..n) /\ \A i \in T : i \in Nat /\ i # n + 1
  BY <1>1 DEF ToldIn
<1>6. /\ \A i \in T : /\ Later(T, i) < Len(w) /\ Later(T, i) \in Nat
                      /\ w[Len(w) - Later(T, i)] = <<h[i][2], h[i][3], h[i][4]>>
      /\ n < HistoryLimit => Cardinality(T) = Len(w)
  BY <1>1, <1>5, CountOneMore DEF Tells, n
<1> HIDE DEF T, Tall
\* As it would be without a limit.
<1>7. /\ \A i \in Tall : /\ Later(Tall, i) < Len(v) /\ Later(Tall, i) \in Nat
                         /\ v[Len(v) - Later(Tall, i)] = <<all[i][2], all[i][3], all[i][4]>>
      /\ n < HistoryLimit => Cardinality(Tall) = Len(v)
  <2>1. CASE Concerns(e, c, from)
    <3>1. Tall = T \cup {n + 1}
      BY <1>4, <2>1
    <3>2. /\ Cardinality(Tall) = Cardinality(T) + 1
          /\ \A i \in T : Later(Tall, i) = Later(T, i) + 1
          /\ Later(Tall, n + 1) = 0
      BY <1>1, <1>5, <3>1, CountOneMore
    <3>3. ASSUME NEW i \in Tall
          PROVE  /\ Later(Tall, i) < Len(v) /\ Later(Tall, i) \in Nat
                 /\ v[Len(v) - Later(Tall, i)] = <<all[i][2], all[i][3], all[i][4]>>
      <4>1. CASE i \in T
        <5>1. /\ Later(T, i) < Len(w) /\ Later(T, i) \in Nat
              /\ w[Len(w) - Later(T, i)] = <<h[i][2], h[i][3], h[i][4]>>
          BY <1>6, <4>1
        <5>2. Len(v) - Later(Tall, i) = Len(w) - Later(T, i)
          BY <1>2, <1>3, <2>1, <3>2, <4>1, <5>1
        <5>3. Len(w) - Later(T, i) \in 1..Len(w)
          BY <1>2, <5>1
        <5>4. v[Len(w) - Later(T, i)] = w[Len(w) - Later(T, i)]
          BY <1>3, <2>1, <5>3
        <5>5. all[i] = h[i]
          BY <1>1, <1>5, <4>1
        <5>6. Later(Tall, i) < Len(v) /\ Later(Tall, i) \in Nat
          BY <1>2, <1>3, <2>1, <3>2, <4>1, <5>1
        <5> QED
          BY <5>1, <5>2, <5>4, <5>5, <5>6
      <4>2. CASE i = n + 1
        <5>1. Later(Tall, i) = 0 /\ Len(v) - 0 = Len(w) + 1
          BY <1>2, <1>3, <2>1, <3>2, <4>2
        <5> QED
          BY <1>1, <1>2, <1>3, <2>1, <4>2, <5>1 DEF message
      <4> QED
        BY <3>1, <3>3, <4>1, <4>2
    <3> QED
      BY <1>3, <1>6, <2>1, <3>2, <3>3
  <2>2. CASE ~Concerns(e, c, from)
    <3>1. Tall = T /\ v = w
      BY <1>4, <2>2
    <3>2. \A i \in T : all[i] = h[i]
      BY <1>1, <1>5
    <3> QED
      BY <1>6, <3>1, <3>2
  <2> QED
    BY <2>1, <2>2
<1>8. CASE n < HistoryLimit
  <2>1. Recorded(h, e) = all
    BY <1>8, RecordedIs DEF n, all
  <2> QED
    BY <1>7, <1>8, <2>1 DEF Tells, Tall
<1>9. CASE n = HistoryLimit
  <2> DEFINE g == Recorded(h, e)
             U == ToldIn(g, c, from)
  <2>1. g \in Seq(Item) /\ Len(g) = n /\ \A i \in 1..n : g[i] = all[i + 1]
    BY <1>9, RecordedIs DEF n, all
  <2> HIDE DEF g
  <2>2. DOMAIN g = 1..n
    BY <2>1
  <2>3. Tall \in SUBSET (1..(n + 1)) /\ U \in SUBSET (1..n)
    BY <1>1, <2>2 DEF ToldIn, Tall
  <2>4. \A i \in 1..n : i + 1 \in DOMAIN all /\ i \in DOMAIN g
    BY <1>1, <2>2
  <2>5. \A i \in 1..n : i \in U <=> i + 1 \in Tall
    BY <2>1, <2>4 DEF ToldIn, Tall
  <2> HIDE DEF U
  <2>6. \A i \in U : Later(U, i) = Later(Tall, i + 1)
    BY <1>1, <2>3, <2>5, CountShifted
  <2>7. \A i \in U : i \in 1..n /\ i + 1 \in Tall
    BY <2>3, <2>5
  <2>8. \A i \in U : /\ Later(U, i) < Len(v)
                     /\ v[Len(v) - Later(U, i)] = <<g[i][2], g[i][3], g[i][4]>>
    BY <1>7, <2>1, <2>6, <2>7
  <2>9. ~(Len(g) < HistoryLimit)
    BY <1>1, <1>9, <2>1
  <2> QED
    BY <2>8, <2>9 DEF Tells, g, U
<1>10. n < HistoryLimit \/ n = HistoryLimit
  <2>1. n <= HistoryLimit /\ HistoryLimit \in Nat
    BY StreamAssumption DEF n
  <2> QED
    BY <1>1, <2>1
<1> QED
  BY <1>8, <1>9, <1>10

-------------------------------------------------------------------------------
(* The lists that play.                                                    *)

LEMMA StreamIs ==
  ASSUME NEW s \in Streams
  PROVE  /\ s.kind \in {"sse", "ws"} /\ s.len \in Nat /\ s.reply \in Nat
         /\ s.onEnd \in {"keep-open", "close", "loop"}
         /\ s.onEnd = "loop" => s.len > 0
<1>1. s \in [kind : {"sse", "ws"}, len : Nat, onEnd : {"keep-open", "close", "loop"}, reply : Nat]
  BY StreamAssumption
<1>2. s.onEnd = "loop" => s.len > 0
  BY LoopAssumption
<1> QED
  BY <1>1, <1>2

LEMMA ConnectionIs ==
  ASSUME NEW r \in Connection
  PROVE  /\ r.key \in Keys /\ r.stream \in Streams /\ r.phase \in {"open", "ending", "closed"}
         /\ r.registered \in BOOLEAN /\ r.lists \subseteq PlayList
         /\ r.index \in Nat /\ r.sent \in Nat /\ r.received \in Nat /\ r.since \in Nat
  BY DEF Connection

\* What PlayNext leaves of a connection.
NextIs(q, r, l) ==
  LET over == l.next > l.len
      script == l.origin = "script" IN
  /\ q \in Connection
  /\ q.key = r.key /\ q.stream = r.stream /\ q.registered = r.registered
  /\ q.sent = r.sent /\ q.received = r.received /\ q.since = r.since
  /\ q.phase = IF over /\ script /\ r.stream.onEnd = "close" /\ r.phase = "open" THEN "ending"
               ELSE r.phase
  /\ q.index = IF over /\ script /\ Loops(r) /\ r.stream.kind = "ws" THEN 0 ELSE r.index
  /\ q.lists = IF ~over THEN r.lists \cup {l}
               ELSE IF script /\ Loops(r)
               THEN (r.lists \ {l}) \cup {Playing("script", 0, r.stream.len)}
               ELSE r.lists \ {l}

LEMMA PlayNextIs ==
  ASSUME NEW r \in Connection, NEW l \in PlayList
  PROVE  NextIs(PlayNext(r, l), r, l)
<1> USE DEF NextIs
<1>1. /\ r.stream \in Streams /\ r.lists \subseteq PlayList /\ l.origin \in Origins
      /\ l.next \in Nat /\ l.len \in Nat
  BY ConnectionIs DEF PlayList
<1>2. r.stream.onEnd \in {"keep-open", "close", "loop"} /\ r.stream.len \in Nat
  BY <1>1, StreamIs
<1>3. Playing("script", 0, r.stream.len) \in PlayList
  BY <1>2 DEF Playing, PlayList, Origins
<1> DEFINE p == Playing("script", 0, r.stream.len)
<1> HIDE DEF p
<1>4. CASE ~(l.next > l.len)
  <2>1. PlayNext(r, l) = [r EXCEPT !.lists = @ \cup {l}]
    BY <1>4 DEF PlayNext
  <2> QED
    BY <1>1, <1>4, <2>1 DEF Connection
<1>5. CASE l.next > l.len /\ (l.origin = "rule" \/ r.stream.onEnd = "keep-open")
  <2>1. PlayNext(r, l) = [r EXCEPT !.lists = @ \ {l}]
    BY <1>5 DEF PlayNext, Ended
  <2>2. ~(l.origin = "script" /\ r.stream.onEnd \in {"close", "loop"})
    BY <1>5
  <2> QED
    BY <1>1, <1>5, <2>1, <2>2 DEF Connection, Loops
<1>6. CASE l.next > l.len /\ l.origin = "script" /\ r.stream.onEnd = "close"
  <2>1. PlayNext(r, l) =
          [r EXCEPT !.lists = @ \ {l}, !.phase = IF @ = "open" THEN "ending" ELSE @]
    BY <1>6 DEF PlayNext, Ended
  <2> DEFINE ls == r.lists \ {l}
             ph == IF r.phase = "open" THEN "ending" ELSE r.phase
  <2>2. PlayNext(r, l) = [r EXCEPT !.lists = ls, !.phase = ph]
    BY <2>1
  <2>3. ls \in SUBSET PlayList /\ ph \in {"open", "ending", "closed"}
    BY <1>1, ConnectionIs
  <2> HIDE DEF ls, ph
  <2>4. /\ PlayNext(r, l) \in Connection
        /\ PlayNext(r, l).key = r.key /\ PlayNext(r, l).stream = r.stream
        /\ PlayNext(r, l).registered = r.registered
        /\ PlayNext(r, l).sent = r.sent /\ PlayNext(r, l).received = r.received
        /\ PlayNext(r, l).since = r.since /\ PlayNext(r, l).phase = ph
        /\ PlayNext(r, l).index = r.index /\ PlayNext(r, l).lists = ls
    BY <1>1, <2>2, <2>3 DEF Connection
  <2> QED
    BY <1>6, <2>4 DEF Loops, ls, ph
<1>7. CASE l.next > l.len /\ l.origin = "script" /\ r.stream.onEnd = "loop"
  <2> DEFINE ls == (r.lists \ {l}) \cup {p}
             ix == IF r.stream.kind = "ws" THEN 0 ELSE r.index
  <2>1. PlayNext(r, l) = [r EXCEPT !.lists = ls, !.index = ix]
    BY <1>7 DEF PlayNext, Ended, p
  <2>2. ls \in SUBSET PlayList /\ ix \in Nat
    BY <1>1, <1>3, ConnectionIs DEF p
  <2> HIDE DEF ls, ix
  <2>3. /\ PlayNext(r, l) \in Connection
        /\ PlayNext(r, l).key = r.key /\ PlayNext(r, l).stream = r.stream
        /\ PlayNext(r, l).registered = r.registered
        /\ PlayNext(r, l).sent = r.sent /\ PlayNext(r, l).received = r.received
        /\ PlayNext(r, l).since = r.since /\ PlayNext(r, l).phase = r.phase
        /\ PlayNext(r, l).index = ix /\ PlayNext(r, l).lists = ls
    BY <1>1, <2>1, <2>2 DEF Connection
  <2> QED
    BY <1>7, <2>3 DEF Loops, p, ls, ix
<1> QED
  BY <1>1, <1>2, <1>4, <1>5, <1>6, <1>7 DEF Origins

\* A connection that is opened.
LEMMA OpeningPlays ==
  ASSUME NEW k \in Keys, NEW s \in Streams, NEW n \in Nat,
         NEW r, r = [key |-> k, stream |-> s, phase |-> "open", registered |-> TRUE,
                     lists |-> {}, index |-> 0, sent |-> 0, received |-> 0, since |-> n],
         NEW w, w = <<>>
  PROVE  LET q == PlayNext(r, Playing("script", 0, s.len)) IN
         PlayInv(q, w) /\ q \in Connection /\ q.key = k /\ q.since = n
<1> DEFINE l == Playing("script", 0, s.len)
           q == PlayNext(r, l)
<1>1. s.len \in Nat /\ (s.onEnd = "loop" => s.len > 0)
  BY StreamIs
<1>2. l \in PlayList /\ l.origin = "script" /\ l.of = 0 /\ l.next = 1 /\ l.len = s.len
  BY <1>1 DEF Playing, PlayList, Origins
<1>3. r \in Connection
  BY DEF Connection, PlayList
<1>4. /\ r.key = k /\ r.stream = s /\ r.phase = "open" /\ r.registered = TRUE
      /\ r.lists = {} /\ r.index = 0 /\ r.sent = 0 /\ r.received = 0 /\ r.since = n
  OBVIOUS
<1> HIDE DEF l
<1>5. /\ q \in Connection /\ q.key = k /\ q.stream = s /\ q.registered = TRUE
      /\ q.sent = 0 /\ q.received = 0 /\ q.since = n
      /\ q.phase \in {"open", "ending"} /\ q.index = 0
      /\ q.lists \subseteq {l} /\ (q.lists # {} => l.next <= l.len)
  <2>1. ~(l.next > l.len) => l.next <= l.len
    BY <1>1, <1>2
  <2>2. l.next > l.len => s.onEnd # "loop"
    BY <1>1, <1>2
  <2> QED
    <3>1. NextIs(q, r, l)
      BY <1>2, <1>3, PlayNextIs
    <3> HIDE DEF q
    <3> QED
      BY <1>2, <1>4, <2>1, <2>2, <3>1 DEF NextIs, Loops
<1> HIDE DEF q
<1>6. w \in Seq(Message) /\ DOMAIN w = {} /\ Len(w) = 0
  OBVIOUS
<1>7. \A origin, of : HeardIn(w, origin, of) = {}
  BY <1>6 DEF HeardIn
<1>8. \A m \in q.lists : m = l /\ ListInv(q, m)
  BY <1>1, <1>2, <1>5 DEF ListInv
<1>9. IndexInv(q, w)
  BY <1>5, <1>7 DEF IndexInv
<1>10. \A m \in q.lists : Continues(w, HeardIn(w, m.origin, m.of), m.next, m.len,
                                    m.origin = "script" /\ Loops(q))
  BY <1>2, <1>7, <1>8 DEF Continues
<1>11. \A len, again : InOrder(w, {}, len, again)
  BY DEF InOrder
<1>12. PlayInv(q, w)
  <2>1. \A origin, of, len, again : InOrder(w, HeardIn(w, origin, of), len, again)
    BY <1>7, <1>11
  <2>2. \A a, b \in q.lists : a = b
    BY <1>5
  <2>3. q.sent = Len(w) /\ q.registered /\ q.phase # "closed" /\ w \in Seq(Message)
    BY <1>5, <1>6
  <2>4. \A i \in DOMAIN w : FALSE
    BY <1>6
  <2> QED
    BY ONLY <1>5, <1>8, <1>9, <1>10, <2>1, <2>2, <2>3, <2>4 DEF PlayInv
<1> QED
  BY <1>5, <1>12 DEF q, l

\* The number shown stays right when nothing of the script was heard.
LEMMA IndexStays ==
  ASSUME NEW r, NEW q, NEW w, NEW v, IndexInv(r, w),
         q.stream = r.stream, q.index = r.index,
         HeardIn(v, "script", 0) = HeardIn(w, "script", 0),
         \A i \in HeardIn(w, "script", 0) : v[i] = w[i]
  PROVE  IndexInv(q, v)
<1> DEFINE heard == HeardIn(w, "script", 0)
<1>1. heard = {} => r.index = 0
  BY DEF IndexInv
<1>2. \A i \in heard : (\A j \in heard : j <= i) =>
        r.index = IF r.stream.kind = "ws" /\ Loops(r) /\ w[i][3] = r.stream.len THEN 0 ELSE w[i][3]
  BY DEF IndexInv
<1>3. HeardIn(v, "script", 0) = heard /\ \A i \in heard : v[i] = w[i]
  OBVIOUS
<1> HIDE DEF heard
<1>4. \A i \in heard : (\A j \in heard : j <= i) =>
        q.index = IF q.stream.kind = "ws" /\ Loops(q) /\ v[i][3] = q.stream.len THEN 0 ELSE v[i][3]
  <2> SUFFICES ASSUME NEW i \in heard, \A j \in heard : j <= i
               PROVE  q.index = IF q.stream.kind = "ws" /\ Loops(q) /\ v[i][3] = q.stream.len
                                THEN 0 ELSE v[i][3]
    OBVIOUS
  <2>1. r.index = IF r.stream.kind = "ws" /\ Loops(r) /\ w[i][3] = r.stream.len THEN 0 ELSE w[i][3]
    BY <1>2
  <2>2. v[i] = w[i]
    BY <1>3
  <2> QED
    BY <2>1, <2>2 DEF Loops
<1> QED
  BY <1>1, <1>3, <1>4 DEF IndexInv

\* A message of one of its lists.
LEMMA SendingPlays ==
  ASSUME NEW r, NEW w, PlayInv(r, w), NEW l \in r.lists,
         NEW v, v = IF r.phase = "open" THEN Append(w, <<l.origin, l.of, l.next>>) ELSE w
  PROVE  LET q == Advanced(r, l) IN
         /\ PlayInv(q, v) /\ q \in Connection
         /\ q.key = r.key /\ q.since = r.since /\ q.stream = r.stream
         /\ q.phase = "open" => r.phase = "open"
         /\ <<l.origin, l.of, l.next>> \in Message
         /\ l.origin \in Origins /\ l.of \in Nat /\ l.next \in Nat
<1> DEFINE again == l.origin = "script" /\ Loops(r)
           ix == IF l.origin = "script" THEN l.next ELSE r.index
           r1 == [r EXCEPT !.lists = @ \ {l}, !.sent = @ + 1,
                           !.index = IF l.origin = "script" THEN l.next ELSE @]
           l1 == [l EXCEPT !.next = @ + 1]
           q == Advanced(r, l)
           nx == IF again /\ l.next = l.len THEN 1 ELSE l.next + 1
           new == [l EXCEPT !.next = nx]
<1>1. /\ r \in Connection /\ w \in Seq(Message) /\ l \in PlayList /\ ListInv(r, l)
      /\ r.stream \in Streams /\ r.lists \subseteq PlayList /\ r.sent \in Nat /\ r.index \in Nat
  BY ConnectionIs DEF PlayInv
<1>2. /\ l.origin \in Origins /\ l.of \in Nat /\ l.len \in Nat /\ l.next \in Nat /\ l.next \in 1..l.len
      /\ l.origin = "script" => l.of = 0 /\ l.len = r.stream.len
      /\ l.origin = "rule" => l.of \in 1..r.received /\ l.len = r.stream.reply
  BY <1>1 DEF PlayList, ListInv
<1>3. /\ l1 \in PlayList /\ l1.origin = l.origin /\ l1.of = l.of /\ l1.len = l.len
      /\ l1.next = l.next + 1
  BY <1>1, <1>2 DEF PlayList
<1>4. /\ r1 \in Connection /\ r1.key = r.key /\ r1.stream = r.stream /\ r1.registered = r.registered
      /\ r1.received = r.received /\ r1.since = r.since /\ r1.phase = r.phase
      /\ r1.lists = r.lists \ {l} /\ r1.sent = r.sent + 1 /\ r1.index = ix
  <2> DEFINE ls == r.lists \ {l}
             st == r.sent + 1
  <2>1. r1 = [r EXCEPT !.lists = ls, !.sent = st, !.index = ix]
    BY Zenon
  <2>2. ix \in Nat /\ st \in Nat /\ ls \in SUBSET PlayList
    BY <1>1, <1>2
  <2> HIDE DEF ix, r1, st, ls
  <2>3. /\ r1 \in Connection /\ r1.key = r.key /\ r1.stream = r.stream
        /\ r1.registered = r.registered /\ r1.received = r.received /\ r1.since = r.since
        /\ r1.phase = r.phase /\ r1.lists = ls /\ r1.sent = st /\ r1.index = ix
    BY <1>1, <2>1, <2>2 DEF Connection
  <2> QED
    BY <2>3 DEF ls, st
<1>5. q = PlayNext(r1, l1)
  BY Zenon DEF Advanced
<1> HIDE DEF r1, l1, q, ix
<1>6. NextIs(q, r1, l1)
  BY <1>3, <1>4, <1>5, PlayNextIs
<1>7. /\ q \in Connection /\ q.key = r.key /\ q.stream = r.stream /\ q.registered = r.registered
      /\ q.received = r.received /\ q.since = r.since /\ q.sent = r.sent + 1
      /\ q.phase \in {r.phase, IF r.phase = "open" THEN "ending" ELSE r.phase}
  BY <1>4, <1>6 DEF NextIs
<1>8. Loops(r1) = Loops(r) /\ (Loops(r) => r.stream.len > 0) /\ r.stream.len \in Nat
  BY <1>1, <1>4, StreamIs DEF Loops
<1>9. /\ new \in PlayList /\ new.origin = l.origin /\ new.of = l.of /\ new.len = l.len /\ new.next = nx
      /\ nx \in Nat
  <2>1. nx \in Nat
    BY <1>2
  <2> HIDE DEF nx
  <2> QED
    BY <1>1, <2>1 DEF PlayList
<1>10. \A m \in q.lists : (m \in r.lists /\ m # l) \/ (m = new /\ nx \in 1..l.len)
  <2>1. CASE ~(l1.next > l1.len)
    <3>1. q.lists = (r.lists \ {l}) \cup {l1}
      BY <1>4, <1>6, <2>1 DEF NextIs
    <3>2. nx = l.next + 1 /\ nx \in 1..l.len
      BY <1>2, <1>3, <2>1
    <3>3. l1 = new
      BY <3>2 DEF l1
    <3> QED
      BY <3>1, <3>2, <3>3
  <2>2. CASE l1.next > l1.len /\ again
    <3>1. q.lists = ((r.lists \ {l}) \ {l1}) \cup {Playing("script", 0, r.stream.len)}
      BY <1>3, <1>4, <1>6, <1>8, <2>2 DEF NextIs
    <3>2. l.next = l.len /\ nx = 1 /\ l.len = r.stream.len /\ l.of = 0
      BY <1>2, <1>3, <2>2
    <3>3. Playing("script", 0, r.stream.len) = new
      <4> DEFINE p == Playing("script", 0, r.stream.len)
      <4>1. /\ p \in PlayList /\ p.origin = "script" /\ p.of = 0 /\ p.next = 1
            /\ p.len = r.stream.len
        BY <1>8 DEF Playing, PlayList, Origins
      <4>2. \A f, g \in PlayList :
              f.origin = g.origin /\ f.of = g.of /\ f.next = g.next /\ f.len = g.len => f = g
        BY DEF PlayList
      <4>3. /\ new \in PlayList /\ new.origin = "script" /\ new.of = 0 /\ new.next = 1
            /\ new.len = r.stream.len
        BY <1>9, <2>2, <3>2
      <4> HIDE DEF p, new
      <4>4. p = new
        BY <4>1, <4>2, <4>3
      <4> QED
        BY <4>4 DEF p
    <3>4. nx \in 1..l.len
      BY <1>8, <2>2, <3>2
    <3> QED
      BY <3>1, <3>3, <3>4
  <2>3. CASE l1.next > l1.len /\ ~again
    <3>1. q.lists = (r.lists \ {l}) \ {l1}
      BY <1>3, <1>4, <1>6, <1>8, <2>3 DEF NextIs
    <3> QED
      BY <3>1
  <2> QED
    BY <2>1, <2>2, <2>3
<1>11. q.index = IF again /\ r.stream.kind = "ws" /\ l.next = l.len THEN 0 ELSE ix
  <2>1. l1.next > l1.len <=> l.next = l.len
    BY <1>2, <1>3
  <2> QED
    BY <1>3, <1>4, <1>6, <1>8, <2>1 DEF NextIs
<1> HIDE DEF new, nx
<1> DEFINE m == <<l.origin, l.of, l.next>>
<1>12. m \in Message /\ m[1] = l.origin /\ m[2] = l.of /\ m[3] = l.next
  BY <1>2 DEF Message, Origins
<1>13. \A a \in q.lists : ListInv(q, a)
  <2> SUFFICES ASSUME NEW a \in q.lists PROVE ListInv(q, a)
    OBVIOUS
  <2>1. CASE a \in r.lists
    <3>1. ListInv(r, a)
      BY <2>1 DEF PlayInv
    <3> QED
      BY <1>7, <3>1 DEF ListInv
  <2>2. CASE a = new /\ nx \in 1..l.len
    BY <1>2, <1>7, <1>9, <2>2 DEF ListInv
  <2> QED
    BY <1>10, <2>1, <2>2
<1>14. \A a, b \in q.lists : a.origin = b.origin /\ a.of = b.of => a = b
  <2>1. \A a, b \in r.lists : a.origin = b.origin /\ a.of = b.of => a = b
    BY DEF PlayInv
  <2> QED
    BY <1>9, <1>10, <2>1
<1>15. q.phase = "closed" => q.lists = {} /\ ~q.registered
  <2>1. r.phase # "closed"
    BY DEF PlayInv
  <2> QED
    BY <1>7, <2>1
<1>16. q.phase = "open" => r.phase = "open" /\ q.registered
  BY <1>7 DEF PlayInv
\* The orders of what it heard.
<1>17. /\ InOrder(w, HeardIn(w, "script", 0), r.stream.len, Loops(r))
       /\ \A of \in Nat : InOrder(w, HeardIn(w, "rule", of), r.stream.reply, FALSE)
       /\ \A i \in DOMAIN w : w[i][1] = "rule" => w[i][2] \in 1..r.received
  BY DEF PlayInv
<1>18. ASSUME r.phase = "open"
       PROVE  /\ InOrder(w, HeardIn(w, l.origin, l.of), l.len, again)
              /\ Continues(w, HeardIn(w, l.origin, l.of), l.next, l.len, again)
              /\ v = Append(w, m)
  <2>1. InOrder(w, HeardIn(w, l.origin, l.of), l.len, again)
    <3>1. CASE l.origin = "script"
      <4>1. again = Loops(r) /\ l.of = 0 /\ l.len = r.stream.len
        BY <1>2, <3>1 DEF Loops
      <4> HIDE DEF again
      <4> QED
        BY <1>17, <3>1, <4>1
    <3>2. CASE l.origin = "rule"
      <4>1. again = FALSE /\ l.of \in Nat /\ l.len = r.stream.reply
        BY <1>2, <3>2
      <4> HIDE DEF again
      <4> QED
        BY <1>17, <3>2, <4>1
    <3> QED
      BY <1>2, <3>1, <3>2 DEF Origins
  <2> QED
    BY <1>18, <2>1 DEF PlayInv
<1> HIDE DEF m
<1>19. ASSUME r.phase = "open"
       PROVE  /\ InOrder(v, HeardIn(v, l.origin, l.of), l.len, again)
              /\ \A i \in HeardIn(v, l.origin, l.of) :
                   (\A j \in HeardIn(v, l.origin, l.of) : j <= i) => v[i][3] = l.next
              /\ Len(w) + 1 \in HeardIn(v, l.origin, l.of)
  <2>1. again \in BOOLEAN /\ v = Append(w, <<l.origin, l.of, l.next>>)
    BY <1>18, <1>19 DEF m
  <2> HIDE DEF again
  <2>2. HeardNext(w, l.origin, l.of, l.next, l.len, again)
    BY <1>1, <1>2, <1>18, <1>19, <2>1, HearNext
  <2> QED
    BY <2>1, <2>2 DEF HeardNext
<1>20. v \in Seq(Message) /\ DOMAIN v = 1..Len(v)
       /\ (r.phase = "open" => Len(v) = Len(w) + 1 /\ v[Len(w) + 1] = m
                               /\ \A i \in DOMAIN v : i = Len(w) + 1 \/ (i \in DOMAIN w /\ v[i] = w[i]))
  <2>1. CASE r.phase = "open"
    <3>1. /\ Append(w, m) \in Seq(Message) /\ Len(Append(w, m)) = Len(w) + 1 /\ Len(w) \in Nat
          /\ DOMAIN Append(w, m) = 1..(Len(w) + 1) /\ DOMAIN w = 1..Len(w)
          /\ Append(w, m)[Len(w) + 1] = m /\ \A i \in 1..Len(w) : Append(w, m)[i] = w[i]
      BY <1>1, <1>12, AppendIs
    <3>2. v = Append(w, m)
      BY <1>18, <2>1
    <3> QED
      BY <3>1, <3>2
  <2>2. CASE r.phase # "open"
    BY <1>1, <2>2
  <2> QED
    BY <2>1, <2>2
<1>21. ASSUME NEW origin, NEW of, l.origin # origin \/ l.of # of, r.phase = "open",
              NEW len, NEW ag, NEW next
       PROVE  /\ InOrder(w, HeardIn(w, origin, of), len, ag) => InOrder(v, HeardIn(v, origin, of), len, ag)
              /\ Continues(w, HeardIn(w, origin, of), next, len, ag) =>
                   Continues(v, HeardIn(v, origin, of), next, len, ag)
              /\ HeardIn(v, origin, of) = HeardIn(w, origin, of)
              /\ \A i \in HeardIn(w, origin, of) : v[i] = w[i]
  <2>1. v = Append(w, m)
    BY <1>18, <1>21
  <2>2. m[1] # origin \/ m[2] # of
    BY <1>12, <1>21
  <2>3. SameHeard(w, m, origin, of)
    BY <1>1, <1>12, <2>2, HearOther
  <2>4. /\ InOrder(w, HeardIn(w, origin, of), len, ag) =>
              InOrder(Append(w, m), HeardIn(Append(w, m), origin, of), len, ag)
        /\ Continues(w, HeardIn(w, origin, of), next, len, ag) =>
              Continues(Append(w, m), HeardIn(Append(w, m), origin, of), next, len, ag)
    BY <1>1, <1>12, <2>2, OrderOther
  <2> QED
    BY <2>1, <2>3, <2>4 DEF SameHeard
<1>22. InOrder(v, HeardIn(v, "script", 0), r.stream.len, Loops(r))
  <2>1. CASE r.phase # "open"
    BY <1>17, <2>1
  <2>2. CASE r.phase = "open" /\ l.origin = "script"
    <3>1. again = Loops(r) /\ l.of = 0 /\ l.len = r.stream.len
      BY <1>2, <2>2 DEF Loops
    <3> HIDE DEF again
    <3> QED
      BY <1>19, <2>2, <3>1
  <2>3. CASE r.phase = "open" /\ l.origin # "script"
    BY <1>17, <1>21, <2>3
  <2> QED
    BY <2>1, <2>2, <2>3
<1>23. \A of \in Nat : InOrder(v, HeardIn(v, "rule", of), r.stream.reply, FALSE)
  <2> SUFFICES ASSUME NEW of \in Nat
               PROVE  InOrder(v, HeardIn(v, "rule", of), r.stream.reply, FALSE)
    OBVIOUS
  <2>1. CASE r.phase # "open"
    BY <1>17, <2>1
  <2>2. CASE r.phase = "open" /\ l.origin = "rule" /\ l.of = of
    <3>1. ~again /\ l.len = r.stream.reply
      BY <1>2, <2>2
    <3> QED
      BY <1>19, <2>2, <3>1
  <2>3. CASE r.phase = "open" /\ ~(l.origin = "rule" /\ l.of = of)
    BY <1>17, <1>21, <2>3
  <2> QED
    BY <2>1, <2>2, <2>3
<1>24. \A i \in DOMAIN v : v[i][1] = "rule" => v[i][2] \in 1..r.received
  BY <1>2, <1>12, <1>17, <1>20
<1>25. ASSUME r.phase = "open", NEW a \in q.lists
       PROVE  Continues(v, HeardIn(v, a.origin, a.of), a.next, a.len, a.origin = "script" /\ Loops(r))
  <2>1. CASE a \in r.lists /\ a # l
    <3>1. a.origin # l.origin \/ a.of # l.of
      BY <2>1 DEF PlayInv
    <3>2. Continues(w, HeardIn(w, a.origin, a.of), a.next, a.len, a.origin = "script" /\ Loops(r))
      BY <1>25, <2>1 DEF PlayInv
    <3> QED
      BY <1>21, <1>25, <3>1, <3>2
  <2>2. CASE a = new
    <3>1. HeardIn(v, l.origin, l.of) # {}
      BY <1>19, <1>25
    <3>2. Continues(v, HeardIn(v, l.origin, l.of), nx, l.len, again)
      BY <1>19, <1>25, <3>1 DEF Continues, nx
    <3> QED
      BY <1>9, <2>2, <3>2
  <2> QED
    BY <1>10, <1>25, <2>1, <2>2
<1>26. ASSUME r.phase = "open" PROVE IndexInv(q, v)
  <2>1. CASE l.origin = "script"
    <3>1. HeardIn(v, "script", 0) # {} /\ l.of = 0 /\ l.len = r.stream.len /\ ix = l.next
      BY <1>2, <1>19, <1>26, <2>1 DEF ix
    <3>2. \A i \in HeardIn(v, "script", 0) : (\A j \in HeardIn(v, "script", 0) : j <= i) => v[i][3] = l.next
      BY <1>19, <1>26, <2>1, <3>1
    <3>3. q.index = IF r.stream.kind = "ws" /\ Loops(r) /\ l.next = r.stream.len THEN 0 ELSE l.next
      BY <1>11, <2>1, <3>1
    <3>4. q.stream = r.stream /\ (Loops(q) <=> Loops(r))
      BY <1>7 DEF Loops
    <3> DEFINE heard == HeardIn(v, "script", 0)
    <3>5. heard # {} /\ \A i \in heard : (\A j \in heard : j <= i) => v[i][3] = l.next
      BY <3>1, <3>2
    <3> HIDE DEF heard
    <3>6. \A i \in heard : (\A j \in heard : j <= i) =>
            q.index = IF q.stream.kind = "ws" /\ Loops(q) /\ v[i][3] = q.stream.len THEN 0 ELSE v[i][3]
      <4> SUFFICES ASSUME NEW i \in heard, \A j \in heard : j <= i
                   PROVE  q.index = IF q.stream.kind = "ws" /\ Loops(q) /\ v[i][3] = q.stream.len
                                    THEN 0 ELSE v[i][3]
        OBVIOUS
      <4>1. v[i][3] = l.next
        BY <3>5
      <4> QED
        BY <3>3, <3>4, <4>1
    <3> QED
      BY <3>5, <3>6 DEF IndexInv, heard
  <2>2. CASE l.origin # "script"
    <3>1. HeardIn(v, "script", 0) = HeardIn(w, "script", 0) /\ \A i \in HeardIn(w, "script", 0) : v[i] = w[i]
      BY <1>21, <1>26, <2>2
    <3>2. q.index = r.index /\ IndexInv(r, w)
      BY <1>11, <1>26, <2>2 DEF PlayInv, ix
    <3> QED
      BY <1>7, <3>1, <3>2, IndexStays
  <2> QED
    BY <2>1, <2>2
<1>27. r.phase = "open" => q.sent = Len(v)
  BY <1>7, <1>20 DEF PlayInv
<1>28. PlayInv(q, v)
  <2>1. Loops(q) = Loops(r)
    BY <1>7 DEF Loops
  <2> QED
    BY <1>7, <1>13, <1>14, <1>15, <1>16, <1>20, <1>22, <1>23, <1>24, <1>25, <1>26, <1>27, <2>1 DEF PlayInv
<1> QED
  BY <1>2, <1>7, <1>12, <1>16, <1>28 DEF m, q

\* A connection that sends nothing from now on.
LEMMA StoppingPlays ==
  ASSUME NEW r, NEW w, PlayInv(r, w),
         NEW q \in Connection, q.stream = r.stream, q.received = r.received,
         q.lists \subseteq r.lists, q.phase # "open",
         q.phase = "closed" => q.lists = {} /\ ~q.registered
  PROVE  PlayInv(q, w)
<1>1. \A l \in q.lists : ListInv(q, l)
  <2> SUFFICES ASSUME NEW l \in q.lists PROVE ListInv(q, l)
    OBVIOUS
  <2>1. ListInv(r, l)
    BY DEF PlayInv
  <2> QED
    BY <2>1 DEF ListInv
<1>2. Loops(q) = Loops(r)
  BY DEF Loops
<1> QED
  BY <1>1, <1>2 DEF PlayInv

\* A message of its client, and the reply of the first rule that matches it.
LEMMA HearingPlays ==
  ASSUME NEW r, NEW w, PlayInv(r, w), r.phase # "closed",
         NEW n, n = r.received + 1, NEW heard, heard = [r EXCEPT !.received = n],
         NEW q, q = heard \/ (r.stream.reply > 0 /\ q = PlayNext(heard, Playing("rule", n, r.stream.reply)))
  PROVE  /\ PlayInv(q, w) /\ q \in Connection
         /\ q.key = r.key /\ q.since = r.since /\ q.stream = r.stream
         /\ q.phase = r.phase /\ q.index = r.index
<1> DEFINE l == Playing("rule", n, r.stream.reply)
<1>1. /\ r \in Connection /\ w \in Seq(Message) /\ r.stream \in Streams /\ r.received \in Nat
      /\ r.stream.reply \in Nat /\ n \in Nat /\ r.lists \subseteq PlayList
  BY ConnectionIs, StreamIs DEF PlayInv
<1>2. /\ heard \in Connection /\ heard.key = r.key /\ heard.stream = r.stream
      /\ heard.phase = r.phase /\ heard.registered = r.registered /\ heard.lists = r.lists
      /\ heard.index = r.index /\ heard.sent = r.sent /\ heard.received = n /\ heard.since = r.since
  BY <1>1 DEF Connection
<1>3. /\ l \in PlayList /\ l.origin = "rule" /\ l.of = n /\ l.next = 1 /\ l.len = r.stream.reply
  BY <1>1 DEF Playing, PlayList, Origins
<1> HIDE DEF l
<1>4. /\ q \in Connection /\ q.key = r.key /\ q.stream = r.stream /\ q.phase = r.phase
      /\ q.registered = r.registered /\ q.index = r.index /\ q.sent = r.sent
      /\ q.received = n /\ q.since = r.since
      /\ q.lists \subseteq r.lists \cup {l} /\ (l \in q.lists => l \in r.lists \/ r.stream.reply > 0)
  <2>1. CASE q = heard
    BY <1>2, <2>1
  <2>2. CASE r.stream.reply > 0 /\ q = PlayNext(heard, l)
    <3>1. NextIs(q, heard, l)
      BY <1>2, <1>3, <2>2, PlayNextIs
    <3>2. ~(l.next > l.len)
      BY <1>1, <1>3, <2>2
    <3> QED
      BY <1>2, <2>2, <3>1, <3>2 DEF NextIs
  <2> QED
    BY <2>1, <2>2 DEF l
<1>5. Loops(q) = Loops(r)
  BY <1>4 DEF Loops
<1>6. \A m \in r.lists : ListInv(r, m) /\ (m.origin = "rule" => m.of # n)
  BY <1>1 DEF PlayInv, ListInv
<1>7. \A m \in q.lists : m \in r.lists \/ (m = l /\ r.stream.reply > 0)
  BY <1>4
<1>8. \A m \in q.lists : ListInv(q, m)
  <2> SUFFICES ASSUME NEW m \in q.lists PROVE ListInv(q, m)
    OBVIOUS
  <2>1. CASE m \in r.lists
    BY <1>1, <1>4, <1>6, <2>1 DEF ListInv
  <2>2. CASE m = l /\ r.stream.reply > 0
    BY <1>1, <1>3, <1>4, <2>2 DEF ListInv
  <2> QED
    BY <1>7, <2>1, <2>2
<1>9. \A a, b \in q.lists : a.origin = b.origin /\ a.of = b.of => a = b
  <2>1. \A a, b \in r.lists : a.origin = b.origin /\ a.of = b.of => a = b
    BY DEF PlayInv
  <2> QED
    BY <1>3, <1>6, <1>7, <2>1
<1>10. \A i \in DOMAIN w : w[i][1] = "rule" => w[i][2] \in 1..q.received /\ w[i][2] # n
  <2>1. \A i \in DOMAIN w : w[i][1] = "rule" => w[i][2] \in 1..r.received
    BY DEF PlayInv
  <2> QED
    BY <1>1, <1>4, <2>1
<1>11. ASSUME r.phase = "open", NEW m \in q.lists
       PROVE  Continues(w, HeardIn(w, m.origin, m.of), m.next, m.len, m.origin = "script" /\ Loops(q))
  <2>1. CASE m \in r.lists
    BY <1>5, <1>11, <2>1 DEF PlayInv
  <2>2. CASE m = l
    <3>1. HeardIn(w, m.origin, m.of) = {}
      BY <1>3, <1>10, <2>2 DEF HeardIn
    <3> QED
      BY <1>3, <2>2, <3>1 DEF Continues
  <2> QED
    BY <1>7, <1>11, <2>1, <2>2
<1>12. r.phase = "open" => IndexInv(q, w)
  <2>1. r.phase = "open" => IndexInv(r, w)
    BY DEF PlayInv
  <2> QED
    BY <1>4, <1>5, <2>1 DEF IndexInv
<1>13. PlayInv(q, w)
  <2>1. /\ InOrder(w, HeardIn(w, "script", 0), q.stream.len, Loops(q))
        /\ \A of \in Nat : InOrder(w, HeardIn(w, "rule", of), q.stream.reply, FALSE)
    BY <1>4, <1>5 DEF PlayInv
  <2>2. q.phase = "open" => q.registered /\ q.sent = Len(w)
    BY <1>4 DEF PlayInv
  <2>3. q.phase # "closed"
    BY <1>4
  <2> QED
    BY ONLY <1>1, <1>4, <1>8, <1>9, <1>10, <1>11, <1>12, <2>1, <2>2, <2>3 DEF PlayInv
<1> QED
  BY <1>4, <1>13

\* A message pushed from the console.
PushedTo(r, w, n, q, v) ==
  /\ q = [r EXCEPT !.sent = @ + 1]
  /\ v = IF r.phase = "open" THEN Append(w, <<"manual", 0, n>>) ELSE w

LEMMA PushingPlays ==
  ASSUME NEW r, NEW w, PlayInv(r, w), r.registered, NEW n \in Nat,
         NEW q, NEW v, PushedTo(r, w, n, q, v)
  PROVE  /\ PlayInv(q, v) /\ q \in Connection
         /\ q.key = r.key /\ q.since = r.since /\ q.stream = r.stream
         /\ q.phase = r.phase /\ q.index = r.index /\ <<"manual", 0, n>> \in Message
<1> DEFINE m == <<"manual", 0, n>>
<1>1. r \in Connection /\ w \in Seq(Message) /\ r.sent \in Nat
  BY ConnectionIs DEF PlayInv
<1>2. m \in Message /\ m[1] = "manual" /\ m[1] \notin Origins
  BY DEF Message, Origins
<1> HIDE DEF m
<1>3. /\ q \in Connection /\ q.key = r.key /\ q.stream = r.stream /\ q.phase = r.phase
      /\ q.registered = r.registered /\ q.lists = r.lists /\ q.index = r.index
      /\ q.sent = r.sent + 1 /\ q.received = r.received /\ q.since = r.since
  <2> DEFINE st == r.sent + 1
  <2>1. q = [r EXCEPT !.sent = st] /\ st \in Nat
    BY <1>1 DEF PushedTo
  <2> HIDE DEF st
  <2>2. /\ q \in Connection /\ q.key = r.key /\ q.stream = r.stream /\ q.phase = r.phase
        /\ q.registered = r.registered /\ q.lists = r.lists /\ q.index = r.index
        /\ q.sent = st /\ q.received = r.received /\ q.since = r.since
    BY <1>1, <2>1 DEF Connection
  <2> QED
    BY <2>2 DEF st
<1>4. Loops(q) = Loops(r)
  BY <1>3 DEF Loops
<1>5. \A l \in q.lists : ListInv(q, l) /\ l \in r.lists /\ l.origin \in Origins
  <2> SUFFICES ASSUME NEW l \in q.lists
               PROVE  ListInv(q, l) /\ l \in r.lists /\ l.origin \in Origins
    OBVIOUS
  <2>1. ListInv(r, l) /\ l \in PlayList
    BY <1>1, <1>3, ConnectionIs DEF PlayInv
  <2> QED
    BY <1>3, <2>1 DEF ListInv, PlayList
<1>6. CASE r.phase # "open"
  <2>1. v = w /\ q.phase # "open"
    BY <1>3, <1>6 DEF PushedTo
  <2> QED
    BY <1>2, <1>3, <1>4, <1>5, <2>1 DEF PlayInv, m
<1>7. CASE r.phase = "open"
  <2>1. v = Append(w, m)
    BY <1>7 DEF m, PushedTo
  <2>2. /\ v \in Seq(Message) /\ Len(v) = Len(w) + 1 /\ v[Len(w) + 1] = m /\ Len(w) \in Nat
        /\ \A i \in DOMAIN v : i = Len(w) + 1 \/ (i \in DOMAIN w /\ v[i] = w[i])
    <3>1. /\ Append(w, m) \in Seq(Message) /\ Len(Append(w, m)) = Len(w) + 1 /\ Len(w) \in Nat
          /\ DOMAIN Append(w, m) = 1..(Len(w) + 1) /\ DOMAIN w = 1..Len(w)
          /\ Append(w, m)[Len(w) + 1] = m /\ \A i \in 1..Len(w) : Append(w, m)[i] = w[i]
      BY <1>1, <1>2, AppendIs
    <3>2. DOMAIN v = 1..(Len(w) + 1) /\ \A i \in 1..Len(w) : v[i] = w[i]
      BY <2>1, <3>1
    <3>3. \A i \in 1..(Len(w) + 1) : i = Len(w) + 1 \/ i \in 1..Len(w)
      BY <3>1
    <3>4. v \in Seq(Message) /\ Len(v) = Len(w) + 1 /\ v[Len(w) + 1] = m
      BY <2>1, <3>1
    <3> QED
      BY <3>1, <3>2, <3>3, <3>4
  <2>3. ASSUME NEW origin \in Origins, NEW of, NEW len, NEW ag, NEW next
        PROVE  /\ InOrder(w, HeardIn(w, origin, of), len, ag) => InOrder(v, HeardIn(v, origin, of), len, ag)
               /\ Continues(w, HeardIn(w, origin, of), next, len, ag) =>
                    Continues(v, HeardIn(v, origin, of), next, len, ag)
               /\ HeardIn(v, origin, of) = HeardIn(w, origin, of)
               /\ \A i \in HeardIn(w, origin, of) : v[i] = w[i]
    <3>1. m[1] # origin
      BY <1>2
    <3>2. SameHeard(w, m, origin, of)
      BY <1>1, <1>2, <3>1, HearOther
    <3>3. /\ InOrder(w, HeardIn(w, origin, of), len, ag) =>
                InOrder(Append(w, m), HeardIn(Append(w, m), origin, of), len, ag)
          /\ Continues(w, HeardIn(w, origin, of), next, len, ag) =>
                Continues(Append(w, m), HeardIn(Append(w, m), origin, of), next, len, ag)
      BY <1>1, <1>2, <3>1, OrderOther
    <3> QED
      BY <2>1, <3>2, <3>3 DEF SameHeard
  <2>4. "script" \in Origins /\ "rule" \in Origins
    BY DEF Origins
  <2>5. InOrder(v, HeardIn(v, "script", 0), q.stream.len, Loops(q))
    <3>1. InOrder(w, HeardIn(w, "script", 0), r.stream.len, Loops(r))
      BY DEF PlayInv
    <3> QED
      BY <1>3, <1>4, <2>3, <2>4, <3>1
  <2>6. \A of \in Nat : InOrder(v, HeardIn(v, "rule", of), q.stream.reply, FALSE)
    <3>1. \A of \in Nat : InOrder(w, HeardIn(w, "rule", of), r.stream.reply, FALSE)
      BY DEF PlayInv
    <3> QED
      BY <1>3, <2>3, <2>4, <3>1
  <2>7. \A i \in DOMAIN v : v[i][1] = "rule" => v[i][2] \in 1..q.received
    <3>1. \A i \in DOMAIN w : w[i][1] = "rule" => w[i][2] \in 1..r.received
      BY DEF PlayInv
    <3> QED
      BY <1>2, <1>3, <2>2, <3>1
  <2>8. \A l \in q.lists :
          Continues(v, HeardIn(v, l.origin, l.of), l.next, l.len, l.origin = "script" /\ Loops(q))
    <3> SUFFICES ASSUME NEW l \in q.lists
                 PROVE  Continues(v, HeardIn(v, l.origin, l.of), l.next, l.len,
                                  l.origin = "script" /\ Loops(q))
      OBVIOUS
    <3>1. Continues(w, HeardIn(w, l.origin, l.of), l.next, l.len, l.origin = "script" /\ Loops(r))
      BY <1>3, <1>7 DEF PlayInv
    <3> QED
      BY <1>4, <1>5, <2>3, <3>1
  <2>9. IndexInv(q, v)
    <3>1. IndexInv(r, w)
      BY <1>7 DEF PlayInv
    <3>2. HeardIn(v, "script", 0) = HeardIn(w, "script", 0) /\ \A i \in HeardIn(w, "script", 0) : v[i] = w[i]
      BY <2>3, <2>4
    <3> QED
      BY <1>3, <3>1, <3>2, IndexStays
  <2>10. q.registered /\ q.sent = Len(v) /\ q.phase # "closed"
         /\ \A a, b \in q.lists : a.origin = b.origin /\ a.of = b.of => a = b
    BY <1>3, <1>7, <2>2 DEF PlayInv
  <2>11. PlayInv(q, v)
    BY ONLY <1>3, <1>5, <2>2, <2>5, <2>6, <2>7, <2>8, <2>9, <2>10 DEF PlayInv
  <2> QED
    BY <1>2, <1>3, <2>11 DEF m
<1> QED
  BY <1>6, <1>7

-------------------------------------------------------------------------------
(* The steps.                                                              *)

LEMMA FunctionIsSequence ==
  ASSUME NEW S, NEW n \in Nat, NEW f \in [1..n -> S]
  PROVE  f \in Seq(S) /\ Len(f) = n /\ DOMAIN f = 1..n
  OBVIOUS

LEMMA ReplaceIs ==
  ASSUME NEW S, NEW s \in Seq(S), NEW c \in 1..Len(s), NEW x \in S
  PROVE  /\ [s EXCEPT ![c] = x] \in Seq(S) /\ Len([s EXCEPT ![c] = x]) = Len(s)
         /\ [s EXCEPT ![c] = x][c] = x
         /\ \A d \in 1..Len(s) : d # c => [s EXCEPT ![c] = x][d] = s[d]
         /\ [s EXCEPT ![c] = s[c]] = s
  OBVIOUS

\* The last entry is the new one; the others were already there.
LEMMA EntriesAre ==
  ASSUME NEW h \in Seq(Item), NEW e \in Item, Len(h) <= HistoryLimit
  PROVE  /\ Last(Recorded(h, e)) = e
         /\ \A i \in DOMAIN Recorded(h, e) :
              Recorded(h, e)[i] = e \/ \E j \in DOMAIN h : Recorded(h, e)[i] = h[j]
<1> DEFINE all == Append(h, e)
           g == Recorded(h, e)
           n == Len(h)
<1>1. /\ DOMAIN h = 1..n /\ n \in Nat /\ DOMAIN all = 1..(n + 1) /\ Len(all) = n + 1
      /\ all[n + 1] = e /\ \A i \in 1..n : all[i] = h[i]
  BY AppendIs
<1>2. HistoryLimit \in Nat \ {0}
  BY StreamAssumption
<1>3. /\ g \in Seq(Item)
      /\ n < HistoryLimit => g = all
      /\ n = HistoryLimit => Len(g) = n /\ \A i \in 1..n : g[i] = all[i + 1]
  BY RecordedIs
<1> HIDE DEF all, g, n
<1>4. \A i \in 1..(n + 1) : all[i] = e \/ \E j \in DOMAIN h : all[i] = h[j]
  BY <1>1
<1>5. CASE n < HistoryLimit
  <2>1. g = all
    BY <1>3, <1>5
  <2> QED
    BY <1>1, <1>4, <2>1 DEF Last, g
<1>6. CASE n = HistoryLimit
  <2>1. Len(g) = n /\ \A i \in 1..n : g[i] = all[i + 1]
    BY <1>3, <1>6
  <2>2. DOMAIN g = 1..n /\ n \in 1..n
    BY <1>1, <1>2, <1>3, <1>6, <2>1
  <2>3. \A i \in 1..n : i + 1 \in 1..(n + 1)
    BY <1>1
  <2> QED
    BY <1>1, <1>4, <2>1, <2>2, <2>3 DEF Last, g
<1>7. n < HistoryLimit \/ n = HistoryLimit
  <2>1. n <= HistoryLimit
    BY DEF n
  <2> QED
    BY <1>1, <1>2, <2>1
<1> QED
  BY <1>5, <1>6, <1>7 DEF g

LEMMA HistoryKept ==
  ASSUME EntriesInv, history' = history, Len(conn) \in Nat, Len(conn') \in Nat,
         Len(conn) <= Len(conn'), pushes' = pushes
  PROVE  EntriesInv'
<1> SUFFICES ASSUME NEW k \in Keys, NEW i \in DOMAIN history[k]
             PROVE  history[k][i][1] <= Len(conn')
  BY DEF EntriesInv
<1>1. history[k][i] \in Item /\ history[k][i][1] <= Len(conn)
  BY DEF EntriesInv
<1>2. history[k][i][1] \in Nat
  BY <1>1 DEF Item
<1> QED
  BY <1>1, <1>2

LEMMA HistoryGrows ==
  ASSUME EntriesInv, Len(conn') = Len(conn), pushes \in Nat, pushes' \in Nat, pushes <= pushes',
         NEW k \in Keys, NEW e \in Item, e[1] <= Len(conn), e[1] = 0 => e[4] <= pushes',
         history' = [history EXCEPT ![k] = Recorded(@, e)]
  PROVE  /\ EntriesInv'
         /\ history'[k] = Recorded(history[k], e)
         /\ \A j \in Keys : j # k => history'[j] = history[j]
<1>1. history \in [Keys -> Seq(Item)] /\ Len(history[k]) <= HistoryLimit
  BY DEF EntriesInv
<1> DEFINE g == Recorded(history[k], e)
<1>2. /\ g \in Seq(Item) /\ Len(g) <= HistoryLimit
      /\ \A i \in DOMAIN g : g[i] = e \/ \E j \in DOMAIN history[k] : g[i] = history[k][j]
  BY <1>1, RecordedIs, EntriesAre
<1>3. history' = [history EXCEPT ![k] = g]
  OBVIOUS
<1> HIDE DEF g
<1>4. /\ history' \in [Keys -> Seq(Item)] /\ history'[k] = g
      /\ \A j \in Keys : j # k => history'[j] = history[j]
  BY <1>1, <1>2, <1>3
<1>5. \A j \in Keys : \A i \in DOMAIN history[j] :
        /\ history[j][i][1] <= Len(conn)
        /\ history[j][i][1] = 0 => history[j][i][4] <= pushes'
  <2> SUFFICES ASSUME NEW j \in Keys, NEW i \in DOMAIN history[j]
               PROVE  /\ history[j][i][1] <= Len(conn)
                      /\ history[j][i][1] = 0 => history[j][i][4] <= pushes'
    OBVIOUS
  <2>1. /\ history[j][i] \in Item /\ history[j][i][1] <= Len(conn)
        /\ history[j][i][1] = 0 => history[j][i][4] <= pushes
    BY DEF EntriesInv
  <2>2. history[j][i][4] \in Nat
    BY <2>1 DEF Item
  <2> QED
    BY <2>1, <2>2
<1>6. \A i \in DOMAIN g : g[i][1] <= Len(conn) /\ (g[i][1] = 0 => g[i][4] <= pushes')
  BY <1>2, <1>5
<1>7. \A j \in Keys : /\ Len(history'[j]) <= HistoryLimit
                      /\ \A i \in DOMAIN history'[j] :
                           /\ history'[j][i][1] <= Len(conn')
                           /\ history'[j][i][1] = 0 => history'[j][i][4] <= pushes'
  <2> SUFFICES ASSUME NEW j \in Keys
               PROVE  /\ Len(history'[j]) <= HistoryLimit
                      /\ \A i \in DOMAIN history'[j] :
                           /\ history'[j][i][1] <= Len(conn')
                           /\ history'[j][i][1] = 0 => history'[j][i][4] <= pushes'
    OBVIOUS
  <2>1. CASE j = k
    BY <1>2, <1>4, <1>6, <2>1
  <2>2. CASE j # k
    <3>1. Len(history[j]) <= HistoryLimit
      BY DEF EntriesInv
    <3> QED
      BY <1>4, <1>5, <2>2, <3>1
  <2> QED
    BY <2>1, <2>2
<1> QED
  BY <1>4, <1>7 DEF EntriesInv, g

\* What a step does to one connection: nothing that the console lists, or a new entry of its own.
ChangesOne(c, q, v) ==
  /\ conn' = [conn EXCEPT ![c] = q] /\ wire' = [wire EXCEPT ![c] = v]
  /\ installed' = installed /\ pushes' = pushes
  /\ PlayInv(q, v)
  /\ q.key = conn[c].key /\ q.since = conn[c].since
  /\ q.phase = "open" => conn[c].phase = "open"

\* What is then true of every connection.
Changed(c, q, v) ==
  /\ pushes' \in Nat /\ installed' \in [Keys -> Streams \cup {Off}]
  /\ conn' \in Seq(Connection) /\ wire' \in Seq(Seq(Message))
  /\ Len(wire') = Len(conn') /\ Len(conn') = Len(conn) /\ Len(conn) \in Nat
  /\ conn'[c] = q /\ wire'[c] = v
  /\ \A d \in 1..Len(conn) : d # c => conn'[d] = conn[d] /\ wire'[d] = wire[d]
  /\ \A d \in 1..Len(conn) : PlayInv(conn'[d], wire'[d]) /\ conn'[d].since <= pushes'
  /\ c \in 1..Len(conn)

LEMMA OneConnection ==
  ASSUME ConnectionsInv, NEW c \in Ids, NEW q, NEW v, ChangesOne(c, q, v)
  PROVE  Changed(c, q, v)
<1>1. /\ pushes \in Nat /\ installed \in [Keys -> Streams \cup {Off}]
      /\ conn \in Seq(Connection) /\ wire \in Seq(Seq(Message)) /\ Len(wire) = Len(conn)
      /\ \A d \in 1..Len(conn) : PlayInv(conn[d], wire[d]) /\ conn[d].since <= pushes
  BY DEF ConnectionsInv
<1>2. c \in 1..Len(conn) /\ Len(conn) \in Nat
  BY <1>1 DEF Ids
<1>3. /\ conn' = [conn EXCEPT ![c] = q] /\ wire' = [wire EXCEPT ![c] = v]
      /\ installed' = installed /\ pushes' = pushes /\ PlayInv(q, v)
      /\ q \in Connection /\ v \in Seq(Message) /\ q.since = conn[c].since
  BY DEF ChangesOne, PlayInv
<1>4. /\ conn' \in Seq(Connection) /\ Len(conn') = Len(conn) /\ conn'[c] = q
      /\ \A d \in 1..Len(conn) : d # c => conn'[d] = conn[d]
  BY <1>1, <1>2, <1>3, ReplaceIs
<1>5. /\ wire' \in Seq(Seq(Message)) /\ Len(wire') = Len(wire) /\ wire'[c] = v
      /\ \A d \in 1..Len(wire) : d # c => wire'[d] = wire[d]
  BY <1>1, <1>2, <1>3, ReplaceIs
<1>6. \A d \in 1..Len(conn) : PlayInv(conn'[d], wire'[d]) /\ conn'[d].since <= pushes'
  <2> SUFFICES ASSUME NEW d \in 1..Len(conn)
               PROVE  PlayInv(conn'[d], wire'[d]) /\ conn'[d].since <= pushes'
    OBVIOUS
  <2>1. CASE d = c
    BY <1>1, <1>2, <1>3, <1>4, <1>5, <2>1
  <2>2. CASE d # c
    BY <1>1, <1>3, <1>4, <1>5, <2>2
  <2> QED
    BY <2>1, <2>2
<1> QED
  BY <1>1, <1>2, <1>3, <1>4, <1>5, <1>6 DEF Changed

LEMMA OneQuietly ==
  ASSUME ConnectionsInv, NEW c \in Ids, NEW q, ChangesOne(c, q, wire[c]), history' = history
  PROVE  ConnectionsInv'
<1>1. /\ pushes' \in Nat /\ installed' \in [Keys -> Streams \cup {Off}]
      /\ conn' \in Seq(Connection) /\ wire' \in Seq(Seq(Message))
      /\ Len(wire') = Len(conn') /\ Len(conn') = Len(conn) /\ Len(conn) \in Nat
      /\ conn'[c] = q /\ wire'[c] = wire[c]
      /\ \A d \in 1..Len(conn) : d # c => conn'[d] = conn[d] /\ wire'[d] = wire[d]
      /\ \A d \in 1..Len(conn) : PlayInv(conn'[d], wire'[d]) /\ conn'[d].since <= pushes'
      /\ c \in 1..Len(conn)
  <2>1. Changed(c, q, wire[c])
    BY OneConnection
  <2> QED
    BY <2>1 DEF Changed
<1>2. EntriesInv /\ pushes' = pushes
      /\ q.key = conn[c].key /\ q.since = conn[c].since /\ (q.phase = "open" => conn[c].phase = "open")
  BY DEF ConnectionsInv, ChangesOne
<1>3. EntriesInv'
  BY <1>1, <1>2, HistoryKept
<1>4. \A d \in 1..Len(conn) : TellInv(d, conn[d], wire[d])'
  <2> SUFFICES ASSUME NEW d \in 1..Len(conn) PROVE TellInv(d, conn[d], wire[d])'
    OBVIOUS
  <2>1. TellInv(d, conn[d], wire[d])
    BY DEF ConnectionsInv
  <2>2. CASE d = c
    BY <1>1, <1>2, <2>1, <2>2 DEF TellInv
  <2>3. CASE d # c
    BY <1>1, <2>1, <2>3 DEF TellInv
  <2> QED
    BY <2>2, <2>3
<1> QED
  BY <1>1, <1>3, <1>4 DEF ConnectionsInv

LEMMA OneRecorded ==
  ASSUME ConnectionsInv, NEW c \in Ids, NEW q, NEW v, ChangesOne(c, q, v),
         NEW e \in Item, e[1] = c,
         history' = [history EXCEPT ![conn[c].key] = Recorded(@, e)],
         conn[c].phase = "open" =>
           IF e[2] = "received" THEN v = wire[c]
           ELSE <<e[2], e[3], e[4]>> \in Message /\ v = Append(wire[c], <<e[2], e[3], e[4]>>)
  PROVE  ConnectionsInv'
<1>1. /\ pushes' \in Nat /\ installed' \in [Keys -> Streams \cup {Off}]
      /\ conn' \in Seq(Connection) /\ wire' \in Seq(Seq(Message))
      /\ Len(wire') = Len(conn') /\ Len(conn') = Len(conn) /\ Len(conn) \in Nat
      /\ conn'[c] = q /\ wire'[c] = v
      /\ \A d \in 1..Len(conn) : d # c => conn'[d] = conn[d] /\ wire'[d] = wire[d]
      /\ \A d \in 1..Len(conn) : PlayInv(conn'[d], wire'[d]) /\ conn'[d].since <= pushes'
      /\ c \in 1..Len(conn)
  <2>1. Changed(c, q, v)
    BY OneConnection
  <2> QED
    BY ONLY <2>1 DEF Changed
<1>2. EntriesInv /\ pushes' = pushes /\ pushes \in Nat
      /\ q.key = conn[c].key /\ q.since = conn[c].since /\ (q.phase = "open" => conn[c].phase = "open")
  BY DEF ConnectionsInv, ChangesOne
<1> DEFINE k == conn[c].key
<1>3. k \in Keys
  BY <1>1, ConnectionIs DEF ConnectionsInv, PlayInv
<1>4. /\ EntriesInv' /\ history'[k] = Recorded(history[k], e)
      /\ \A j \in Keys : j # k => history'[j] = history[j]
  <2>1. history' = [history EXCEPT ![k] = Recorded(@, e)] /\ pushes <= pushes' /\ e[1] <= Len(conn) /\ e[1] # 0
    BY <1>1, <1>2
  <2> HIDE DEF k
  <2> QED
    BY <1>1, <1>2, <1>3, <2>1, HistoryGrows
<1>5. \A j \in Keys : history[j] \in Seq(Item) /\ Len(history[j]) <= HistoryLimit
  BY <1>2 DEF EntriesInv
<1> HIDE DEF k
<1>6. \A d \in 1..Len(conn) : TellInv(d, conn[d], wire[d])'
  <2> SUFFICES ASSUME NEW d \in 1..Len(conn), conn'[d].phase = "open"
               PROVE  Tells(history'[conn'[d].key], wire'[d],
                            ToldIn(history'[conn'[d].key], d, conn'[d].since))
    BY DEF TellInv
  <2>1. /\ PlayInv(conn[d], wire[d]) /\ TellInv(d, conn[d], wire[d])
        /\ conn[d] \in Connection /\ wire[d] \in Seq(Message) /\ d \in Nat
        /\ PlayInv(conn'[d], wire'[d]) /\ wire'[d] \in Seq(Message)
    <3>1. PlayInv(conn[d], wire[d]) /\ TellInv(d, conn[d], wire[d])
      BY DEF ConnectionsInv
    <3>2. PlayInv(conn'[d], wire'[d]) /\ d \in Nat
      BY <1>1
    <3> QED
      BY <3>1, <3>2 DEF PlayInv
  <2>2. /\ conn[d].key \in Keys /\ conn[d].since \in Nat
    BY <2>1, ConnectionIs
  <2>3. /\ conn'[d].key = conn[d].key /\ conn'[d].since = conn[d].since /\ conn[d].phase = "open"
    BY <1>1, <1>2
  <2>4. Tells(history[conn[d].key], wire[d], ToldIn(history[conn[d].key], d, conn[d].since))
    BY <2>1, <2>3 DEF TellInv
  <2>5. CASE conn[d].key # k
    BY SMTT(30), <1>1, <1>4, <2>2, <2>3, <2>4, <2>5 DEF k
  <2>6. CASE conn[d].key = k
    <3>1. Concerns(e, d, conn[d].since) =>
            <<e[2], e[3], e[4]>> \in Message /\ wire'[d] = Append(wire[d], <<e[2], e[3], e[4]>>)
      BY SMTT(30), <1>1, <2>3 DEF Concerns
    <3>2. ~Concerns(e, d, conn[d].since) => wire'[d] = wire[d]
      BY <1>1, <2>3 DEF Concerns
    <3>3. Tells(Recorded(history[k], e), wire'[d], ToldIn(Recorded(history[k], e), d, conn[d].since))
      BY <1>3, <1>5, <2>1, <2>2, <2>4, <2>6, <3>1, <3>2, RecordTells
    <3> QED
      BY <1>4, <2>3, <2>6, <3>3
  <2> QED
    BY <2>5, <2>6
<1> QED
  BY <1>1, <1>4, <1>6 DEF ConnectionsInv

LEMMA ConnectionFacts ==
  ASSUME ConnectionsInv, NEW c \in Ids
  PROVE  /\ c \in 1..Len(conn) /\ c \in Nat /\ c > 0 /\ Len(conn) \in Nat
         /\ PlayInv(conn[c], wire[c]) /\ conn[c] \in Connection /\ wire[c] \in Seq(Message)
         /\ conn[c].key \in Keys /\ conn[c].stream \in Streams
         /\ [wire EXCEPT ![c] = wire[c]] = wire
<1>1. c \in 1..Len(conn) /\ Len(conn) \in Nat /\ wire \in Seq(Seq(Message)) /\ Len(wire) = Len(conn)
  BY DEF ConnectionsInv, Ids
<1>2. PlayInv(conn[c], wire[c])
  BY <1>1 DEF ConnectionsInv
<1>3. conn[c] \in Connection /\ wire[c] \in Seq(Message)
  BY <1>2 DEF PlayInv
<1>4. [wire EXCEPT ![c] = wire[c]] = wire
  BY <1>1, ReplaceIs
<1> QED
  BY <1>1, <1>2, <1>3, <1>4, ConnectionIs

LEMMA TimerKeeps ==
  ASSUME ConnectionsInv, NEW c \in Ids, TimerFires(c) PROVE ConnectionsInv'
<1>1. /\ c \in 1..Len(conn) /\ c \in Nat /\ PlayInv(conn[c], wire[c]) /\ conn[c] \in Connection
      /\ wire[c] \in Seq(Message) /\ [wire EXCEPT ![c] = wire[c]] = wire
  BY ConnectionFacts
<1>2. PICK l \in conn[c].lists :
        IF Silenced(conn[c])
        THEN /\ conn' = [conn EXCEPT ![c].lists = @ \ {l}]
             /\ UNCHANGED <<installed, history, wire, pushes, streamReloads>>
        ELSE /\ conn[c].sent < MaxSent
             /\ conn' = [conn EXCEPT ![c] = Advanced(@, l)]
             /\ wire' = [wire EXCEPT ![c] = Given(c, <<l.origin, l.of, l.next>>)]
             /\ history' = [history EXCEPT ![conn[c].key] =
                              Recorded(@, <<c, l.origin, l.of, l.next>>)]
             /\ UNCHANGED <<installed, pushes, streamReloads>>
  BY DEF TimerFires
<1>3. CASE Silenced(conn[c])
  <2> DEFINE q == [conn[c] EXCEPT !.lists = @ \ {l}]
  <2>1. /\ q \in Connection /\ q.key = conn[c].key /\ q.stream = conn[c].stream
        /\ q.phase = conn[c].phase /\ q.registered = conn[c].registered
        /\ q.lists = conn[c].lists \ {l} /\ q.received = conn[c].received /\ q.since = conn[c].since
    BY <1>1, ConnectionIs DEF Connection
  <2>2. conn' = [conn EXCEPT ![c] = q] /\ UNCHANGED <<installed, history, wire, pushes>>
    BY <1>2, <1>3
  <2> HIDE DEF q
  <2>3. conn[c].phase # "open"
    BY <1>3 DEF Silenced
  <2>4. conn[c].phase = "closed" => conn[c].lists = {} /\ ~conn[c].registered
    BY <1>1 DEF PlayInv
  <2>5. PlayInv(q, wire[c])
    BY <1>1, <2>1, <2>3, <2>4, StoppingPlays
  <2>6. ChangesOne(c, q, wire[c])
    BY <1>1, <2>1, <2>2, <2>3, <2>5 DEF ChangesOne
  <2> QED
    BY <2>2, <2>6, OneQuietly
<1>4. CASE ~Silenced(conn[c])
  <2> DEFINE q == Advanced(conn[c], l)
             v == Given(c, <<l.origin, l.of, l.next>>)
             e == <<c, l.origin, l.of, l.next>>
  <2>1. /\ conn' = [conn EXCEPT ![c] = q] /\ wire' = [wire EXCEPT ![c] = v]
        /\ history' = [history EXCEPT ![conn[c].key] = Recorded(@, e)]
        /\ UNCHANGED <<installed, pushes>>
    BY <1>2, <1>4
  <2>2. v = IF conn[c].phase = "open" THEN Append(wire[c], <<l.origin, l.of, l.next>>) ELSE wire[c]
    BY DEF Given
  <2> HIDE DEF v
  <2>3. /\ PlayInv(q, v) /\ q \in Connection
        /\ q.key = conn[c].key /\ q.since = conn[c].since /\ q.stream = conn[c].stream
        /\ q.phase = "open" => conn[c].phase = "open"
        /\ <<l.origin, l.of, l.next>> \in Message
        /\ l.origin \in Origins /\ l.of \in Nat /\ l.next \in Nat
    BY <1>1, <1>2, <2>2, SendingPlays
  <2>4. e \in Item /\ e[1] = c /\ e[2] # "received" /\ <<e[2], e[3], e[4]>> = <<l.origin, l.of, l.next>>
    BY <1>1, <2>3 DEF Item, Origins
  <2> HIDE DEF q, e
  <2>5. ChangesOne(c, q, v)
    BY <2>1, <2>3 DEF ChangesOne
  <2>6. conn[c].phase = "open" =>
          IF e[2] = "received" THEN v = wire[c]
          ELSE <<e[2], e[3], e[4]>> \in Message /\ v = Append(wire[c], <<e[2], e[3], e[4]>>)
    BY <2>2, <2>3, <2>4
  <2> QED
    BY <2>1, <2>4, <2>5, <2>6, OneRecorded
<1> QED
  BY <1>3, <1>4

\* What a message of a client does to its connection.
HearsOne(c, q, e) ==
  /\ conn' = [conn EXCEPT ![c] = q] /\ q \in Connection
  /\ q.stream = conn[c].stream /\ q.phase = conn[c].phase /\ q.index = conn[c].index
  /\ ChangesOne(c, q, wire[c])
  /\ e \in Item /\ e[1] = c /\ e[2] = "received"
  /\ history' = [history EXCEPT ![conn[c].key] = Recorded(@, e)]

LEMMA HearingOne ==
  ASSUME ConnectionsInv, NEW c \in Ids, ClientSends(c)
  PROVE  \E q, e : HearsOne(c, q, e)
<1>1. /\ c \in 1..Len(conn) /\ c \in Nat /\ PlayInv(conn[c], wire[c]) /\ conn[c] \in Connection
      /\ wire[c] \in Seq(Message) /\ [wire EXCEPT ![c] = wire[c]] = wire
  BY ConnectionFacts
<1> DEFINE n == conn[c].received + 1
           heard == [conn[c] EXCEPT !.received = n]
           e == <<c, "received", n, 1>>
<1>2. PICK replied \in {FALSE, conn[c].stream.reply > 0} :
        conn' = [conn EXCEPT ![c] =
          IF replied THEN PlayNext(heard, Playing("rule", n, conn[c].stream.reply)) ELSE heard]
  BY DEF ClientSends
<1> DEFINE q == IF replied THEN PlayNext(heard, Playing("rule", n, conn[c].stream.reply)) ELSE heard
<1>3. /\ conn' = [conn EXCEPT ![c] = q] /\ conn[c].phase # "closed"
      /\ history' = [history EXCEPT ![conn[c].key] = Recorded(@, e)]
      /\ wire' = wire /\ installed' = installed /\ pushes' = pushes
  BY <1>2 DEF ClientSends
<1>4. q = heard \/ (conn[c].stream.reply > 0 /\ q = PlayNext(heard, Playing("rule", n, conn[c].stream.reply)))
  BY <1>2
<1> HIDE DEF q
<1>5. /\ PlayInv(q, wire[c]) /\ q \in Connection
      /\ q.key = conn[c].key /\ q.since = conn[c].since /\ q.stream = conn[c].stream
      /\ q.phase = conn[c].phase /\ q.index = conn[c].index
  BY <1>1, <1>3, <1>4, HearingPlays
<1>6. n \in Nat
  BY <1>1, ConnectionIs
<1>7. e \in Item /\ e[1] = c /\ e[2] = "received"
  BY <1>1, <1>6 DEF Item
<1> HIDE DEF n, heard, e
<1>8. ChangesOne(c, q, wire[c])
  BY <1>1, <1>3, <1>5 DEF ChangesOne
<1> QED
  BY <1>3, <1>5, <1>7, <1>8 DEF HearsOne

LEMMA HearingKeeps ==
  ASSUME ConnectionsInv, NEW c \in Ids, ClientSends(c) PROVE ConnectionsInv'
<1>1. PICK q, e : HearsOne(c, q, e)
  BY HearingOne
<1>2. /\ ChangesOne(c, q, wire[c]) /\ e \in Item /\ e[1] = c /\ e[2] = "received"
      /\ history' = [history EXCEPT ![conn[c].key] = Recorded(@, e)]
  BY <1>1 DEF HearsOne
<1> QED
  BY <1>2, OneRecorded

LEMMA CloseKeeps ==
  ASSUME ConnectionsInv, NEW c \in Ids, CloseEvent(c) PROVE ConnectionsInv'
<1>1. /\ c \in 1..Len(conn) /\ PlayInv(conn[c], wire[c]) /\ conn[c] \in Connection
      /\ wire[c] \in Seq(Message) /\ [wire EXCEPT ![c] = wire[c]] = wire
  BY ConnectionFacts
<1> DEFINE q == [conn[c] EXCEPT !.phase = "closed", !.registered = FALSE, !.lists = {}]
<1>2. /\ q \in Connection /\ q.key = conn[c].key /\ q.stream = conn[c].stream
      /\ q.phase = "closed" /\ q.registered = FALSE
      /\ q.lists = {} /\ q.received = conn[c].received /\ q.since = conn[c].since
  BY <1>1 DEF Connection
<1>3. conn' = [conn EXCEPT ![c] = q] /\ UNCHANGED <<installed, history, wire, pushes>>
  BY DEF CloseEvent
<1> HIDE DEF q
<1>4. PlayInv(q, wire[c])
  BY <1>1, <1>2, StoppingPlays
<1>5. ChangesOne(c, q, wire[c])
  BY <1>1, <1>2, <1>3, <1>4 DEF ChangesOne
<1> QED
  BY <1>3, <1>5, OneQuietly

LEMMA OpeningKeeps ==
  ASSUME ConnectionsInv, NEW k \in Keys, OpenConnection(k) PROVE ConnectionsInv'
<1> DEFINE s == installed[k]
           n == Len(conn) + 1
           r == [key |-> k, stream |-> s, phase |-> "open", registered |-> TRUE,
                 lists |-> {}, index |-> 0, sent |-> 0, received |-> 0, since |-> pushes]
           q == PlayNext(r, Playing("script", 0, s.len))
<1>1. /\ pushes \in Nat /\ installed \in [Keys -> Streams \cup {Off}]
      /\ conn \in Seq(Connection) /\ wire \in Seq(Seq(Message)) /\ Len(wire) = Len(conn)
      /\ Len(conn) \in Nat /\ EntriesInv
      /\ \A d \in 1..Len(conn) :
           PlayInv(conn[d], wire[d]) /\ TellInv(d, conn[d], wire[d]) /\ conn[d].since <= pushes
  BY DEF ConnectionsInv
<1>2. s \in Streams
  BY <1>1 DEF OpenConnection
<1>3. /\ conn' = Append(conn, q) /\ wire' = Append(wire, <<>>)
      /\ installed' = installed /\ history' = history /\ pushes' = pushes
  BY DEF OpenConnection
<1> HIDE DEF s
<1>4. PlayInv(q, <<>>) /\ q \in Connection /\ q.key = k /\ q.since = pushes
  BY <1>1, <1>2, OpeningPlays
<1> HIDE DEF q, r
<1>5. /\ conn' \in Seq(Connection) /\ Len(conn') = n /\ conn'[n] = q
      /\ \A d \in 1..Len(conn) : conn'[d] = conn[d]
  BY <1>1, <1>3, <1>4, AppendIs
<1>6. /\ wire' \in Seq(Seq(Message)) /\ Len(wire') = n /\ wire'[n] = <<>>
      /\ \A d \in 1..Len(conn) : wire'[d] = wire[d]
  <2>1. <<>> \in Seq(Message)
    OBVIOUS
  <2> QED
    BY <1>1, <1>3, <2>1, AppendIs
<1>7. EntriesInv'
  BY <1>1, <1>3, <1>5, HistoryKept
<1>8. Tells(history[k], <<>>, ToldIn(history[k], n, pushes))
  <2>1. ASSUME NEW i \in DOMAIN history[k] PROVE ~Concerns(history[k][i], n, pushes)
    <3>1. /\ history[k][i] \in Item /\ history[k][i][1] <= Len(conn)
          /\ history[k][i][1] = 0 => history[k][i][4] <= pushes
      BY <1>1, <2>1 DEF EntriesInv
    <3>2. history[k][i][1] \in Nat /\ history[k][i][4] \in Nat
      BY <3>1 DEF Item
    <3> QED
      BY <1>1, <3>1, <3>2 DEF Concerns
  <2>2. ToldIn(history[k], n, pushes) = {}
    BY <2>1 DEF ToldIn
  <2>3. Cardinality({}) = 0 /\ Len(<<>>) = 0
    BY FS_EmptySet
  <2> QED
    BY <2>2, <2>3 DEF Tells
<1>9. \A d \in 1..n : d = n \/ d \in 1..Len(conn)
  BY <1>1
<1> HIDE DEF n
<1>10. ASSUME NEW d \in 1..n
       PROVE  PlayInv(conn[d], wire[d])' /\ TellInv(d, conn[d], wire[d])' /\ conn'[d].since <= pushes'
  <2>1. CASE d = n
    <3>1. TellInv(d, conn[d], wire[d])'
      BY <1>3, <1>4, <1>5, <1>6, <1>8, <2>1 DEF TellInv
    <3>2. PlayInv(conn[d], wire[d])'
      BY <1>4, <1>5, <1>6, <2>1
    <3> QED
      BY <1>1, <1>3, <1>4, <1>5, <2>1, <3>1, <3>2
  <2>2. CASE d \in 1..Len(conn)
    <3>1. PlayInv(conn[d], wire[d]) /\ TellInv(d, conn[d], wire[d]) /\ conn[d].since <= pushes
      BY <1>1, <2>2
    <3>2. TellInv(d, conn[d], wire[d])'
      BY <1>3, <1>5, <1>6, <2>2, <3>1 DEF TellInv
    <3> QED
      BY <1>3, <1>5, <1>6, <2>2, <3>1, <3>2
  <2> QED
    BY <1>9, <1>10, <2>1, <2>2
<1>11. pushes' \in Nat /\ installed' \in [Keys -> Streams \cup {Off}]
  BY <1>1, <1>3
<1> QED
  BY <1>5, <1>6, <1>7, <1>10, <1>11 DEF ConnectionsInv

LEMMA PushKeeps ==
  ASSUME ConnectionsInv, NEW k \in Keys, Push(k) PROVE ConnectionsInv'
<1> DEFINE n == pushes + 1
           m == <<"manual", 0, n>>
           e == <<0, "manual", 0, n>>
<1>1. /\ pushes \in Nat /\ installed \in [Keys -> Streams \cup {Off}]
      /\ conn \in Seq(Connection) /\ wire \in Seq(Seq(Message)) /\ Len(wire) = Len(conn)
      /\ Len(conn) \in Nat /\ EntriesInv /\ DOMAIN conn = 1..Len(conn)
      /\ \A d \in 1..Len(conn) :
           PlayInv(conn[d], wire[d]) /\ TellInv(d, conn[d], wire[d]) /\ conn[d].since <= pushes
  BY DEF ConnectionsInv
<1>2. /\ pushes' = n /\ installed' = installed
      /\ conn' = [c \in 1..Len(conn) |-> IF c \in Registered(k) THEN [conn[c] EXCEPT !.sent = @ + 1]
                                         ELSE conn[c]]
      /\ wire' = [c \in 1..Len(conn) |-> IF c \in Registered(k) THEN Given(c, m) ELSE wire[c]]
      /\ history' = [history EXCEPT ![k] = Recorded(@, e)]
  BY <1>1 DEF Push, Ids
<1>3. n \in Nat /\ pushes <= n
  BY <1>1
<1>4. e \in Item /\ e[1] = 0 /\ e[4] = n /\ e[2] # "received" /\ <<e[2], e[3], e[4]>> = m
  BY <1>3 DEF Item
<1> HIDE DEF n, e, m
<1>5. \A c \in 1..Len(conn) : c \in Registered(k) <=> conn[c].key = k /\ conn[c].registered
  BY <1>1 DEF Registered, Ids
<1>6. ASSUME NEW c \in 1..Len(conn)
      PROVE  /\ PlayInv(conn'[c], wire'[c])
             /\ conn'[c].key = conn[c].key /\ conn'[c].since = conn[c].since
             /\ conn'[c].phase = conn[c].phase
             /\ conn[c].phase = "open" =>
                  wire'[c] = IF conn[c].key = k THEN Append(wire[c], m) ELSE wire[c]
             /\ m \in Message
  <2>1. PlayInv(conn[c], wire[c]) /\ (conn[c].phase = "open" => conn[c].registered)
    BY <1>1, <1>6 DEF PlayInv
  <2>2. m \in Message
    BY <1>3 DEF m, Message
  <2>3. CASE c \in Registered(k)
    <3>1. conn[c].key = k /\ conn[c].registered
      BY <1>5, <1>6, <2>3
    <3>2. /\ conn'[c] = [conn[c] EXCEPT !.sent = @ + 1]
          /\ wire'[c] = IF conn[c].phase = "open" THEN Append(wire[c], <<"manual", 0, n>>) ELSE wire[c]
      BY <1>2, <1>6, <2>3 DEF Given, m
    <3>3. /\ PlayInv(conn'[c], wire'[c]) /\ conn'[c].key = conn[c].key
          /\ conn'[c].since = conn[c].since /\ conn'[c].phase = conn[c].phase
      <4>1. PushedTo(conn[c], wire[c], n, conn'[c], wire'[c])
        BY <3>2 DEF PushedTo
      <4> QED
        <5>1. PlayInv(conn[c], wire[c])
          BY <2>1
        <5>2. conn[c].registered
          BY <3>1
        <5>3. n \in Nat
          BY <1>3
        <5>4. PlayInv(conn'[c], wire'[c])
          BY <4>1, <5>1, <5>2, <5>3, PushingPlays, Zenon
        <5>5. /\ conn'[c].key = conn[c].key
              /\ conn'[c].since = conn[c].since /\ conn'[c].phase = conn[c].phase
          <6> DEFINE q == [conn[c] EXCEPT !.sent = @ + 1]
          <6>1. conn[c] \in Connection
            BY <5>1 DEF PlayInv
          <6>2. q.key = conn[c].key /\ q.since = conn[c].since /\ q.phase = conn[c].phase
            BY <6>1 DEF Connection
          <6>3. conn'[c] = q
            BY <3>2
          <6> HIDE DEF q
          <6> QED
            BY <6>2, <6>3
        <5> QED
          BY <5>4, <5>5
    <3>4. wire'[c] = IF conn[c].phase = "open" THEN Append(wire[c], m) ELSE wire[c]
      BY <3>2 DEF m
    <3> QED
      BY <2>2, <3>1, <3>2, <3>3, <3>4
  <2>4. CASE c \notin Registered(k)
    <3>1. conn'[c] = conn[c] /\ wire'[c] = wire[c]
      BY <1>2, <1>6, <2>4
    <3>2. conn[c].phase = "open" => conn[c].key # k
      BY <1>5, <1>6, <2>1, <2>4
    <3> QED
      BY <2>1, <2>2, <3>1, <3>2
  <2> QED
    BY <2>3, <2>4
<1>7. /\ conn' \in Seq(Connection) /\ Len(conn') = Len(conn)
      /\ wire' \in Seq(Seq(Message)) /\ Len(wire') = Len(conn)
  <2>1. \A c \in 1..Len(conn) : conn'[c] \in Connection /\ wire'[c] \in Seq(Message)
    BY <1>6 DEF PlayInv
  <2>2. conn' \in [1..Len(conn) -> Connection] /\ wire' \in [1..Len(conn) -> Seq(Message)]
    BY <1>2, <2>1
  <2> QED
    BY <1>1, <2>2, FunctionIsSequence
<1>8. /\ EntriesInv' /\ history'[k] = Recorded(history[k], e)
      /\ \A j \in Keys : j # k => history'[j] = history[j]
  <2>1. e[1] <= Len(conn) /\ (e[1] = 0 => e[4] <= pushes') /\ pushes <= pushes' /\ pushes' \in Nat
    BY <1>1, <1>2, <1>3, <1>4
  <2> QED
    BY <1>1, <1>2, <1>4, <1>7, <2>1, HistoryGrows
<1>9. \A j \in Keys : history[j] \in Seq(Item) /\ Len(history[j]) <= HistoryLimit
  BY <1>1 DEF EntriesInv
<1>10. \A c \in 1..Len(conn) : TellInv(c, conn[c], wire[c])'
  <2> SUFFICES ASSUME NEW c \in 1..Len(conn), conn'[c].phase = "open"
               PROVE  Tells(history'[conn'[c].key], wire'[c],
                            ToldIn(history'[conn'[c].key], c, conn'[c].since))
    BY DEF TellInv
  <2>1. /\ PlayInv(conn[c], wire[c]) /\ TellInv(c, conn[c], wire[c]) /\ conn[c].since <= pushes
        /\ conn[c].phase = "open" /\ conn'[c].key = conn[c].key /\ conn'[c].since = conn[c].since
        /\ PlayInv(conn'[c], wire'[c]) /\ c \in Nat
        /\ wire'[c] = IF conn[c].key = k THEN Append(wire[c], m) ELSE wire[c]
    BY <1>1, <1>6
  <2>2. /\ conn[c].key \in Keys /\ conn[c].since \in Nat
        /\ wire[c] \in Seq(Message) /\ wire'[c] \in Seq(Message)
    BY <2>1, ConnectionIs DEF PlayInv
  <2>3. Tells(history[conn[c].key], wire[c], ToldIn(history[conn[c].key], c, conn[c].since))
    BY <2>1 DEF TellInv
  <2>4. CASE conn[c].key # k
    BY <1>8, <2>1, <2>2, <2>3, <2>4
  <2>5. CASE conn[c].key = k
    <3>1. Concerns(e, c, conn[c].since)
      BY <1>1, <1>3, <1>4, <2>1, <2>2 DEF Concerns, n
    <3>2. <<e[2], e[3], e[4]>> \in Message /\ wire'[c] = Append(wire[c], <<e[2], e[3], e[4]>>)
      BY <1>4, <1>6, <2>1, <2>5
    <3>3. Tells(Recorded(history[k], e), wire'[c], ToldIn(Recorded(history[k], e), c, conn[c].since))
      BY <1>4, <1>9, <2>1, <2>2, <2>3, <2>5, <3>1, <3>2, RecordTells
    <3> QED
      BY <1>8, <2>1, <2>5, <3>3
  <2> QED
    BY <2>4, <2>5
<1>11. \A c \in 1..Len(conn) : conn'[c].since <= pushes'
  <2> SUFFICES ASSUME NEW c \in 1..Len(conn) PROVE conn'[c].since <= pushes'
    OBVIOUS
  <2>1. conn'[c].since = conn[c].since /\ conn[c].since <= pushes /\ conn[c] \in Connection
    BY <1>1, <1>6 DEF PlayInv
  <2>2. conn[c].since \in Nat
    BY <2>1, ConnectionIs
  <2> QED
    BY <1>1, <1>2, <1>3, <2>1, <2>2
<1> QED
  BY <1>1, <1>2, <1>3, <1>6, <1>7, <1>8, <1>10, <1>11 DEF ConnectionsInv

LEMMA ReinstallKeeps ==
  ASSUME ConnectionsInv, NEW k \in Keys, NEW s \in Streams \cup {Off}, Reinstall(k, s)
  PROVE  ConnectionsInv'
<1>1. /\ pushes \in Nat /\ installed \in [Keys -> Streams \cup {Off}]
      /\ conn \in Seq(Connection) /\ wire \in Seq(Seq(Message)) /\ Len(wire) = Len(conn)
      /\ Len(conn) \in Nat /\ EntriesInv /\ DOMAIN conn = 1..Len(conn)
      /\ \A d \in 1..Len(conn) :
           PlayInv(conn[d], wire[d]) /\ TellInv(d, conn[d], wire[d]) /\ conn[d].since <= pushes
  BY DEF ConnectionsInv
<1>2. /\ installed' = [installed EXCEPT ![k] = s]
      /\ conn' = IF s # installed[k] THEN KeyClosed({k}) ELSE conn
      /\ history' = history /\ wire' = wire /\ pushes' = pushes
  BY DEF Reinstall
<1>3. ASSUME NEW c \in 1..Len(conn)
      PROVE  /\ PlayInv(conn'[c], wire'[c]) /\ conn'[c] \in Connection
             /\ conn'[c].key = conn[c].key /\ conn'[c].since = conn[c].since
             /\ conn'[c].phase = "open" => conn[c].phase = "open"
  <2>1. PlayInv(conn[c], wire[c]) /\ wire'[c] = wire[c]
    BY <1>1, <1>2, <1>3
  <2>2. conn[c] \in Connection /\ (conn[c].phase = "closed" => ~conn[c].registered)
    BY <2>1 DEF PlayInv
  <2>3. CASE conn'[c] = conn[c]
    BY <2>1, <2>2, <2>3
  <2>4. CASE conn[c].registered /\ conn'[c] = [conn[c] EXCEPT !.registered = FALSE, !.phase = "ending"]
    <3>1. /\ conn'[c] \in Connection /\ conn'[c].key = conn[c].key /\ conn'[c].stream = conn[c].stream
          /\ conn'[c].phase = "ending" /\ conn'[c].lists = conn[c].lists
          /\ conn'[c].received = conn[c].received /\ conn'[c].since = conn[c].since
      <4> DEFINE q == [conn[c] EXCEPT !.registered = FALSE, !.phase = "ending"]
      <4>1. /\ q \in Connection /\ q.key = conn[c].key /\ q.stream = conn[c].stream
            /\ q.phase = "ending" /\ q.lists = conn[c].lists
            /\ q.received = conn[c].received /\ q.since = conn[c].since
        BY <2>2 DEF Connection
      <4> HIDE DEF q
      <4>2. conn'[c] = q
        BY <2>4 DEF q
      <4> QED
        BY <4>1, <4>2
    <3>2. PlayInv(conn'[c], wire[c])
      BY <2>1, <3>1, StoppingPlays
    <3> QED
      BY <2>1, <3>1, <3>2
  <2> QED
    BY <1>1, <1>2, <2>3, <2>4 DEF KeyClosed, Ids
<1>4. conn' \in Seq(Connection) /\ Len(conn') = Len(conn)
  <2>1. CASE s = installed[k]
    BY <1>1, <1>2, <2>1
  <2>2. CASE s # installed[k]
    <3>1. conn' \in [1..Len(conn) -> Connection]
      BY <1>1, <1>2, <1>3, <2>2 DEF KeyClosed, Ids
    <3> QED
      BY <1>1, <3>1, FunctionIsSequence
  <2> QED
    BY <2>1, <2>2
<1>5. EntriesInv'
  BY <1>1, <1>2, <1>4, HistoryKept
<1>6. \A c \in 1..Len(conn) : TellInv(c, conn[c], wire[c])'
  BY <1>1, <1>2, <1>3 DEF TellInv
<1>7. \A c \in 1..Len(conn) : conn'[c].since <= pushes'
  BY <1>1, <1>2, <1>3
<1>8. installed' \in [Keys -> Streams \cup {Off}]
  BY <1>1, <1>2
<1> QED
  BY <1>1, <1>2, <1>3, <1>4, <1>5, <1>6, <1>7, <1>8 DEF ConnectionsInv

-------------------------------------------------------------------------------
(* The properties.                                                         *)

LEMMA ConnectionsBegin ==
  ASSUME InitConnections PROVE ConnectionsInv
<1>1. /\ installed \in [Keys -> Streams \cup {Off}] /\ conn = <<>> /\ wire = <<>>
      /\ history = [k \in Keys |-> <<>>] /\ pushes = 0
  BY DEF InitConnections
<1>2. conn \in Seq(Connection) /\ wire \in Seq(Seq(Message)) /\ Len(conn) = 0 /\ Len(wire) = 0
  BY <1>1
<1>3. EntriesInv
  <2>1. <<>> \in Seq(Item) /\ Len(<<>>) = 0 /\ DOMAIN <<>> = {}
    OBVIOUS
  <2>2. \A k \in Keys : history[k] = <<>>
    BY <1>1
  <2>3. HistoryLimit \in Nat
    BY StreamAssumption
  <2> QED
    BY <1>1, <2>1, <2>2, <2>3 DEF EntriesInv
<1> QED
  BY <1>1, <1>2, <1>3 DEF ConnectionsInv

ConnectionsNext ==
  ConnectionStep \/ \E k \in Keys, s \in Streams \cup {Off} : Reinstall(k, s)

LEMMA ConnectionsKeep ==
  ASSUME ConnectionsInv, [ConnectionsNext]_streamVars PROVE ConnectionsInv'
<1>1. CASE ConnectionsNext
  BY <1>1, TimerKeeps, HearingKeeps, CloseKeeps, OpeningKeeps, PushKeeps, ReinstallKeeps
     DEF ConnectionsNext, ConnectionStep
<1>2. CASE UNCHANGED streamVars
  BY <1>2 DEF streamVars, ConnectionsInv, EntriesInv, TellInv
<1> QED
  BY <1>1, <1>2

LEMMA AgreeNow ==
  ASSUME ConnectionsInv PROVE PlaysInOrder /\ ConsoleTells
<1>1. ASSUME NEW c \in Ids
      PROVE  PlayInv(conn[c], wire[c]) /\ TellInv(c, conn[c], wire[c]) /\ conn[c].received \in Nat
  <2>1. c \in 1..Len(conn)
    BY <1>1, ConnectionFacts
  <2> QED
    BY <1>1, <2>1, ConnectionFacts, ConnectionIs DEF ConnectionsInv
<1>2. PlaysInOrder
  <2> SUFFICES ASSUME NEW c \in Ids
               PROVE  LET s == conn[c].stream
                          script == Heard(c, "script", 0)
                          again == s.onEnd = "loop"
                      IN /\ HeardFromFirst(c, script, s.len, again)
                         /\ \A of \in 1 .. conn[c].received :
                              HeardFromFirst(c, Heard(c, "rule", of), s.reply, FALSE)
                         /\ conn[c].phase = "open" =>
                              /\ script = {} => conn[c].index = 0
                              /\ \A i \in script : (\A j \in script : j <= i) =>
                                   conn[c].index = IF s.kind = "ws" /\ again /\ wire[c][i][3] = s.len
                                                   THEN 0 ELSE wire[c][i][3]
                              /\ conn[c].sent = Len(wire[c])
    BY DEF PlaysInOrder
  <2>1. \A origin, of : Heard(c, origin, of) = HeardIn(wire[c], origin, of)
    BY DEF Heard, HeardIn
  <2>2. \A heard, len, again : HeardFromFirst(c, heard, len, again) <=> InOrder(wire[c], heard, len, again)
    BY DEF HeardFromFirst, InOrder
  <2>3. \A of \in 1 .. conn[c].received : of \in Nat
    BY <1>1
  <2>4. /\ InOrder(wire[c], HeardIn(wire[c], "script", 0), conn[c].stream.len, Loops(conn[c]))
        /\ \A of \in Nat : InOrder(wire[c], HeardIn(wire[c], "rule", of), conn[c].stream.reply, FALSE)
        /\ conn[c].phase = "open" => IndexInv(conn[c], wire[c]) /\ conn[c].sent = Len(wire[c])
    BY <1>1 DEF PlayInv
  <2>5. HeardFromFirst(c, Heard(c, "script", 0), conn[c].stream.len, conn[c].stream.onEnd = "loop")
    BY <2>1, <2>2, <2>4 DEF Loops
  <2>6. \A of \in 1 .. conn[c].received :
          HeardFromFirst(c, Heard(c, "rule", of), conn[c].stream.reply, FALSE)
    BY <2>1, <2>2, <2>3, <2>4
  <2>7. ASSUME conn[c].phase = "open"
        PROVE  /\ Heard(c, "script", 0) = {} => conn[c].index = 0
               /\ \A i \in Heard(c, "script", 0) : (\A j \in Heard(c, "script", 0) : j <= i) =>
                    conn[c].index = IF conn[c].stream.kind = "ws" /\ conn[c].stream.onEnd = "loop"
                                       /\ wire[c][i][3] = conn[c].stream.len
                                    THEN 0 ELSE wire[c][i][3]
               /\ conn[c].sent = Len(wire[c])
    <3>1. IndexInv(conn[c], wire[c]) /\ conn[c].sent = Len(wire[c])
      BY <2>4, <2>7
    <3>2. Heard(c, "script", 0) = HeardIn(wire[c], "script", 0)
      BY <2>1
    <3> QED
      BY <3>1, <3>2 DEF Loops, IndexInv
  <2> QED
    BY <2>5, <2>6, <2>7
<1>3. ConsoleTells
  <2> SUFFICES ASSUME NEW c \in Ids, conn[c].phase = "open"
               PROVE  LET h == history[conn[c].key]
                          FromTheEnd(i) == Cardinality({j \in Told(c) : j > i})
                      IN /\ \A i \in Told(c) :
                              /\ FromTheEnd(i) < Len(wire[c])
                              /\ wire[c][Len(wire[c]) - FromTheEnd(i)] = <<h[i][2], h[i][3], h[i][4]>>
                         /\ Len(h) < HistoryLimit => Cardinality(Told(c)) = Len(wire[c])
    BY DEF ConsoleTells
  <2>1. Told(c) = ToldIn(history[conn[c].key], c, conn[c].since)
    BY DEF Told, ToldIn, Concerns
  <2>2. Tells(history[conn[c].key], wire[c], Told(c))
    BY <1>1, <2>1 DEF TellInv
  <2> QED
    BY <2>2 DEF Tells, Later
<1> QED
  BY <1>2, <1>3

\* What a step may not do to one connection.
QuietFor(c) ==
  /\ conn[c].phase = "closed" => conn'[c] = conn[c]
  /\ conn[c].stream.kind = "ws" /\ conn[c].phase = "ending" =>
       /\ conn'[c].index = conn[c].index
       /\ LET h == history'[conn[c].key] IN
          h # history[conn[c].key] => Last(h)[1] # c \/ Last(h)[2] = "received"

LEMMA QuietWhenUntouched ==
  ASSUME NEW c, conn'[c] = conn[c], history'[conn[c].key] = history[conn[c].key]
  PROVE  QuietFor(c)
  BY DEF QuietFor

\* A connection that a step does not touch, while the history gets an entry of another one.
LEMMA QuietWhenOther ==
  ASSUME ConnectionsInv, NEW c \in Ids, NEW k \in Keys, NEW e \in Item,
         history' = [history EXCEPT ![k] = Recorded(@, e)],
         e[1] # c \/ e[2] = "received" \/ conn[c].phase = "open" \/ conn[c].stream.kind # "ws",
         conn[c].phase = "closed" => conn'[c] = conn[c],
         conn'[c].index = conn[c].index \/ conn[c].phase = "open" \/ conn[c].stream.kind # "ws"
  PROVE  QuietFor(c)
<1>1. history \in [Keys -> Seq(Item)] /\ Len(history[k]) <= HistoryLimit
  BY DEF ConnectionsInv, EntriesInv
<1>2. Last(Recorded(history[k], e)) = e
  BY <1>1, EntriesAre
<1>3. conn[c].key \in Keys
  BY ConnectionFacts
<1> DEFINE g == Recorded(history[k], e)
<1>4. history' = [history EXCEPT ![k] = g]
  OBVIOUS
<1> HIDE DEF g
<1>5. history'[conn[c].key] = g \/ history'[conn[c].key] = history[conn[c].key]
  BY <1>1, <1>3, <1>4
<1> QED
  BY <1>2, <1>5 DEF QuietFor, g

LEMMA QuietNow ==
  ASSUME ConnectionsInv, [ConnectionsNext]_streamVars, NEW c \in Ids
  PROVE  QuietFor(c)
<1>1. /\ c \in 1..Len(conn) /\ c \in Nat /\ c > 0 /\ Len(conn) \in Nat
      /\ PlayInv(conn[c], wire[c]) /\ conn[c] \in Connection
      /\ conn[c].key \in Keys /\ conn \in Seq(Connection) /\ DOMAIN conn = 1..Len(conn)
  BY ConnectionFacts DEF ConnectionsInv
<1>2. conn[c].phase = "closed" => conn[c].lists = {} /\ ~conn[c].registered
  BY <1>1 DEF PlayInv
<1>3. ASSUME NEW d \in Ids, TimerFires(d) PROVE QuietFor(c)
  <2>1. PICK l \in conn[d].lists :
          IF Silenced(conn[d])
          THEN /\ conn' = [conn EXCEPT ![d].lists = @ \ {l}]
               /\ UNCHANGED <<installed, history, wire, pushes, streamReloads>>
          ELSE /\ conn[d].sent < MaxSent
               /\ conn' = [conn EXCEPT ![d] = Advanced(@, l)]
               /\ wire' = [wire EXCEPT ![d] = Given(d, <<l.origin, l.of, l.next>>)]
               /\ history' = [history EXCEPT ![conn[d].key] =
                                Recorded(@, <<d, l.origin, l.of, l.next>>)]
               /\ UNCHANGED <<installed, pushes, streamReloads>>
    BY <1>3 DEF TimerFires
  <2>2. conn[c].phase = "closed" => d # c
    BY <1>2, <2>1
  <2>3. CASE Silenced(conn[d])
    <3>1. conn' = [conn EXCEPT ![d].lists = @ \ {l}] /\ history' = history
      BY <2>1, <2>3
    <3>2. CASE d = c
      <4>1. conn'[c] = [conn[c] EXCEPT !.lists = @ \ {l}]
        BY <1>1, <3>1, <3>2
      <4>2. conn'[c].index = conn[c].index
        BY <1>1, <4>1 DEF Connection
      <4> QED
        BY <2>2, <3>1, <3>2, <4>2 DEF QuietFor
    <3>3. CASE d # c
      <4>1. conn'[c] = conn[c]
        BY <1>1, <3>1, <3>3
      <4> QED
        BY <3>1, <4>1, QuietWhenUntouched
    <3> QED
      BY <3>2, <3>3
  <2>4. CASE ~Silenced(conn[d])
    <3> DEFINE e == <<d, l.origin, l.of, l.next>>
    <3>1. /\ conn' = [conn EXCEPT ![d] = Advanced(@, l)]
          /\ history' = [history EXCEPT ![conn[d].key] = Recorded(@, e)]
      BY <2>1, <2>4
    <3>2. e \in Item /\ e[1] = d
      <4>1. d \in Nat /\ PlayInv(conn[d], wire[d])
        BY ConnectionFacts
      <4>2. l \in PlayList
        BY <2>1, <4>1, ConnectionIs DEF PlayInv
      <4> QED
        BY <4>1, <4>2 DEF Item, PlayList, Origins
    <3> HIDE DEF e
    <3>3. conn[d].key \in Keys
      BY ConnectionFacts
    <3>4. d # c => conn'[c] = conn[c]
      BY <1>1, <3>1
    <3>5. d = c => conn[c].phase = "open" \/ conn[c].stream.kind # "ws"
      BY <2>4 DEF Silenced
    <3>6. /\ e[1] # c \/ e[2] = "received" \/ conn[c].phase = "open" \/ conn[c].stream.kind # "ws"
          /\ conn[c].phase = "closed" => conn'[c] = conn[c]
          /\ conn'[c].index = conn[c].index \/ conn[c].phase = "open" \/ conn[c].stream.kind # "ws"
      BY <2>2, <3>2, <3>4, <3>5
    <3> QED
      BY <3>1, <3>2, <3>3, <3>6, QuietWhenOther
  <2> QED
    BY <2>3, <2>4
<1>4. ASSUME NEW d \in Ids, ClientSends(d) PROVE QuietFor(c)
  <2>1. PICK q, e : HearsOne(d, q, e)
    BY <1>4, HearingOne
  <2>2. /\ conn' = [conn EXCEPT ![d] = q] /\ q.index = conn[d].index
        /\ e \in Item /\ e[2] = "received"
        /\ history' = [history EXCEPT ![conn[d].key] = Recorded(@, e)]
    BY <2>1 DEF HearsOne
  <2>3. conn[d].key \in Keys /\ conn[d].phase # "closed"
    BY <1>4, ConnectionFacts DEF ClientSends
  <2>4. conn'[c] = IF d = c THEN q ELSE conn[c]
    BY <1>1, <2>2
  <2>5. (conn[c].phase = "closed" => conn'[c] = conn[c]) /\ conn'[c].index = conn[c].index
    BY <2>2, <2>3, <2>4
  <2> QED
    BY <2>2, <2>3, <2>5, QuietWhenOther
<1>5. ASSUME NEW d \in Ids, CloseEvent(d) PROVE QuietFor(c)
  <2>1. /\ conn' = [conn EXCEPT ![d].phase = "closed", ![d].registered = FALSE, ![d].lists = {}]
        /\ history' = history /\ conn[d].phase # "closed"
    BY <1>5 DEF CloseEvent
  <2>2. CASE d = c
    <3>1. conn'[c] = [conn[c] EXCEPT !.phase = "closed", !.registered = FALSE, !.lists = {}]
      BY <1>1, <2>1, <2>2
    <3>2. conn'[c].index = conn[c].index
      BY <1>1, <3>1 DEF Connection
    <3> QED
      BY <2>1, <2>2, <3>2 DEF QuietFor
  <2>3. CASE d # c
    <3>1. conn'[c] = conn[c]
      BY <1>1, <2>1, <2>3
    <3> QED
      BY <2>1, <3>1, QuietWhenUntouched
  <2> QED
    BY <2>2, <2>3
<1>6. ASSUME NEW k \in Keys, OpenConnection(k) PROVE QuietFor(c)
  <2>1. conn'[c] = conn[c]
    <3> DEFINE q == PlayNext([key |-> k, stream |-> installed[k], phase |-> "open", registered |-> TRUE,
                              lists |-> {}, index |-> 0, sent |-> 0, received |-> 0, since |-> pushes],
                             Playing("script", 0, installed[k].len))
    <3>1. conn' = Append(conn, q)
      BY <1>6 DEF OpenConnection
    <3> HIDE DEF q
    <3> QED
      BY <1>1, <3>1
  <2>2. history' = history
    BY <1>6 DEF OpenConnection
  <2> QED
    BY <2>1, <2>2, QuietWhenUntouched
<1>7. ASSUME NEW k \in Keys, Push(k) PROVE QuietFor(c)
  <2> DEFINE e == <<0, "manual", 0, pushes + 1>>
  <2>1. /\ history' = [history EXCEPT ![k] = Recorded(@, e)]
        /\ conn'[c] = IF c \in Registered(k) THEN [conn[c] EXCEPT !.sent = @ + 1] ELSE conn[c]
    BY <1>7 DEF Push
  <2>2. e \in Item /\ e[1] # c
    BY <1>1 DEF Item, ConnectionsInv
  <2> HIDE DEF e
  <2>3. conn'[c].index = conn[c].index
    BY <1>1, <2>1 DEF Connection
  <2>4. conn[c].phase = "closed" => conn'[c] = conn[c]
    BY <1>2, <2>1 DEF Registered
  <2> QED
    BY <2>1, <2>2, <2>3, <2>4, QuietWhenOther
<1>8. ASSUME NEW k \in Keys, NEW s \in Streams \cup {Off}, Reinstall(k, s) PROVE QuietFor(c)
  <2>1. /\ history' = history
        /\ conn' = IF s # installed[k] THEN KeyClosed({k}) ELSE conn
    BY <1>8 DEF Reinstall
  <2>2. \/ conn'[c] = conn[c]
        \/ conn[c].registered /\ conn'[c] = [conn[c] EXCEPT !.registered = FALSE, !.phase = "ending"]
    BY <2>1 DEF KeyClosed
  <2>3. conn'[c].index = conn[c].index
    <3> DEFINE q == [conn[c] EXCEPT !.registered = FALSE, !.phase = "ending"]
    <3>1. q.index = conn[c].index
      BY <1>1 DEF Connection
    <3> HIDE DEF q
    <3>2. conn'[c] = conn[c] \/ conn'[c] = q
      BY <2>2 DEF q
    <3> QED
      BY <3>1, <3>2
  <2>4. conn[c].phase = "closed" => conn'[c] = conn[c]
    BY <1>2, <2>2
  <2> QED
    BY <2>1, <2>3, <2>4 DEF QuietFor
<1>9. CASE UNCHANGED streamVars
  BY <1>9, QuietWhenUntouched DEF streamVars
<1> QED
  BY <1>3, <1>4, <1>5, <1>6, <1>7, <1>8, <1>9 DEF ConnectionsNext, ConnectionStep

\* The client hears the script in order and the console tells just what it heard, whatever
\* timers, pushes, replies and reloads come in between, and after the end nothing more.
THEOREM ClientAndConsoleAgreeHolds == ConnectionsSpec => ClientAndConsoleAgree
<1>1. InitConnections => ConnectionsInv
  BY ConnectionsBegin
<1>2. ConnectionsInv /\ [ConnectionsNext]_streamVars => ConnectionsInv'
  BY ConnectionsKeep
<1>3. ConnectionsInv => PlaysInOrder /\ ConsoleTells
  BY AgreeNow
<1>4. ConnectionsInv /\ [ConnectionsNext]_streamVars => \A c \in Ids : QuietFor(c)
  BY QuietNow
<1>5. ConnectionsSpec => [](PlaysInOrder /\ ConsoleTells)
  BY <1>1, <1>2, <1>3, PTL DEF ConnectionsSpec, ConnectionsNext
<1>6. ConnectionsSpec => [][\A c \in Ids : QuietFor(c)]_streamVars
  BY <1>1, <1>2, <1>4, PTL DEF ConnectionsSpec, ConnectionsNext
<1>7. ConnectionsSpec => QuietAfterClose
  BY <1>6 DEF QuietAfterClose, QuietFor
<1> QED
  BY <1>5, <1>7 DEF ClientAndConsoleAgree
=============================================================================

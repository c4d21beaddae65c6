-------------------------------- MODULE MCServing --------------------------------
(***************************************************************************)
(* What the engine serves, for TLC: a request through the pipeline, the    *)
(* connections of a stream, a client that reads a list, or the answers of  *)
(* a sequence.  They share no state, so subject is chosen once and the     *)
(* state spaces add up; the variables of the others keep one arbitrary     *)
(* initial value.                                                          *)
(***************************************************************************)
EXTENDS RequestPipeline, StreamConnections, ListQuery, SequenceHistory

CONSTANTS Subjects, r1, t1, k1, b1, b2, a, b

Config(backend, fallback, cors, delay) ==
  [backend |-> backend, fallback |-> fallback, cors |-> cors, delay |-> delay, delayAll |-> delay]
ConfigsDef ==
  {Config(b1, TRUE, FALSE, TRUE), Config(b2, TRUE, FALSE, FALSE),
   Config(b1, FALSE, TRUE, FALSE), Config(NoBackend, TRUE, TRUE, FALSE)}

Route(mode, needsBody, file) ==
  [mode |-> mode, needsBody |-> needsBody, file |-> file, ownDelay |-> FALSE]
RoutesDef ==
  {Route("mock", TRUE, FALSE), Route("mock", FALSE, TRUE), Route("handler", FALSE, FALSE),
   Route("sse", FALSE, FALSE), Route("ws", FALSE, FALSE), Route("none", FALSE, FALSE)}

Stream(kind, len, onEnd, reply) == [kind |-> kind, len |-> len, onEnd |-> onEnd, reply |-> reply]
StreamsDef ==
  {Stream("sse", 2, "loop", 0), Stream("sse", 1, "close", 0), Stream("ws", 1, "loop", 2),
   Stream("ws", 1, "close", 0)}

ElementsDef == {<<>>} \cup {[x \in {a} |-> v] : v \in {1, 2}}
              \cup {[x \in {a, b} |-> IF x = a THEN 1 ELSE v] : v \in {1, NotScalar}}
ParamsDef == {[name |-> a, values |-> {1}], [name |-> a, values |-> {1, 2}],
              [name |-> b, values |-> {1}]}

Times(k) == [by |-> "times", n |-> k]
ForMs(k) == [by |-> "forMs", n |-> k]
End == [by |-> "end"]
Steps(f, s, e, r) == [file |-> f, steps |-> s, onEnd |-> e, resetAfterMs |-> r]

\* Every kind of step at the beginning, in the middle and at the end, both ends,
\* with and without a reset; the last two differ by the file only.
SequencesDef ==
  {Steps("a", <<Times(2), ForMs(2), End>>, "stay", None),
   Steps("a", <<Times(1), ForMs(1)>>, "loop", 3),
   Steps("a", <<ForMs(2), Times(3)>>, "loop", None),
   Steps("a", <<ForMs(1), Times(2)>>, "stay", 4),
   Steps("a", <<Times(1), Times(1), End>>, "stay", 2),
   Steps("b", <<Times(1), Times(2), ForMs(2)>>, "stay", 2),
   Steps("c", <<Times(1), Times(2), ForMs(2)>>, "stay", 2)}
TimeDef == 0..6

VARIABLE subject

IdlePipeline ==
  /\ config = Config(b1, TRUE, FALSE, TRUE) /\ route = Route("ws", FALSE, FALSE)
  /\ transform = NoTransform /\ InitPipeline
IdleConnections == installed = [k \in Keys |-> Off] /\ InitConnections
IdleList == shape = "other" /\ items = <<>> /\ params = {} /\ size = 0 /\ InitList
IdleSequence == seq = None /\ now = 0 /\ InitH

MCInit ==
  /\ subject \in Subjects
  /\ CASE subject = "requests" -> InitPipeline /\ IdleConnections /\ IdleList /\ IdleSequence
       [] subject = "streams" -> IdlePipeline /\ InitConnections /\ IdleList /\ IdleSequence
       [] subject = "lists" -> IdlePipeline /\ IdleConnections /\ InitList /\ IdleSequence
       [] subject = "sequences" -> IdlePipeline /\ IdleConnections /\ IdleList /\ InitH

MCNext ==
  /\ UNCHANGED subject
  /\ \/ subject = "requests" /\ PipelineStep /\ UNCHANGED <<streamVars, listVars, varsH>>
     \/ /\ subject = "streams" /\ UNCHANGED <<pipelineVars, listVars, varsH>>
        /\ \/ ConnectionStep
           \/ \E k \in Keys, s \in {Off, Stream("ws", 1, "close", 0)} : Reinstall(k, s)
     \/ subject = "lists" /\ ReadNextPage /\ UNCHANGED <<pipelineVars, streamVars, varsH>>
     \/ subject = "sequences" /\ NextH /\ UNCHANGED <<pipelineVars, streamVars, listVars>>

MCSpec ==
  MCInit /\ [][MCNext]_<<pipelineVars, streamVars, listVars, varsH, subject>> /\ PipelineFairness
==============================================================================

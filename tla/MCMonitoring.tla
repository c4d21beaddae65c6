------------------------------ MODULE MCMonitoring -------------------------------
(***************************************************************************)
(* Monitoring for TLC.  The followers of the buffer neither change it nor  *)
(* see each other, so each behaviour is checked with one of them at work:  *)
(* follower is chosen once, and the state spaces add up instead of         *)
(* multiplying.                                                            *)
(***************************************************************************)
EXTENDS Monitoring

CONSTANTS k1, k2

KindDef == {k1, k2}
FilterDef == {k1}
WantedDef == {1, 3}

VARIABLE follower

MCInit == Init /\ follower \in {"pages", "stream", "dump"}

\* The kind of a request is for the filters of the pages, and the dump ignores a clear.
Engine ==
  \/ \E kind \in IF follower = "pages" THEN Kind ELSE {k1} : Record(kind)
  \/ follower # "dump" /\ Clear
  \/ EngineRestarts

MCNext ==
  /\ UNCHANGED follower
  /\ \/ Engine
     \/ follower = "pages" /\ FollowPages
     \/ follower = "stream" /\ FollowStream
     \/ follower = "dump" /\ WriteAndReadDump

MCSpec == MCInit /\ [][MCNext]_<<vars, follower>> /\ StreamFairness
==============================================================================

------------------------------- MODULE Monitoring --------------------------------
(***************************************************************************)
(* The monitoring of the traffic: the buffer of the engine with everything *)
(* that follows it: the clients that page through it, the live list of the *)
(* interface and the writer of the durable history.                        *)
(***************************************************************************)
EXTENDS MonitorStream, MonitorDump

vars == <<monitorVars, streamVars, dumpVars>>

Init == InitBuffer /\ InitPages /\ InitStream /\ InitDump

\* recordRequest broadcasts to the subscribers: the streams, and the dump when enabled.
Record(kind) ==
  /\ RecordRequest(kind)
  /\ HearsRequest
  /\ IF enabled THEN Capture ELSE UNCHANGED dumpVars

\* clear() of another client, or of the interface.  The dump ignores it.
Clear ==
  /\ ClearBuffer
  /\ HearsClear \/ HearsOwnClear
  /\ UNCHANGED dumpVars

\* The engine ends, stopped or killed, and another starts.
EngineRestarts == Restart /\ HearsRestart /\ DumpDown

FollowPages == (ReadPage \/ ReadLatest) /\ UNCHANGED <<streamVars, dumpVars>>
FollowStream == StreamStep /\ UNCHANGED <<monitorVars, dumpVars>>
WriteAndReadDump == DumpStep /\ UNCHANGED <<monitorVars, streamVars>>

Next ==
  \/ \E kind \in Kind : Record(kind)
  \/ Clear \/ EngineRestarts
  \/ FollowPages \/ FollowStream \/ WriteAndReadDump

Spec == Init /\ [][Next]_vars
FairSpec == Spec /\ StreamFairness
==============================================================================

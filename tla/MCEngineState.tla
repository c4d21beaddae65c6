------------------------------ MODULE MCEngineState ------------------------------
(***************************************************************************)
(* What an engine keeps while requests come and go, for TLC: the resources *)
(* that handlers share, or the calls to reload and the rounds that answer  *)
(* them.  They share no state, so subject is chosen once and the state     *)
(* spaces add up; the variables of the other keep their first value.       *)
(***************************************************************************)
EXTENDS SharedState

CONSTANTS c1, c2, n1, n2, s1, g1, g2, k1, a1,
          Absent, Broken, Disabled, Unloadable, Watcher

VARIABLES disk, fsEvent, call, expects, queuedWaiters, roundWaiters, phase, listed, scanned,
          applied, routes, middlewares, lastStatus, errors, cursor, memory, inFlight, stream

reloadVars == <<disk, fsEvent, call, expects, queuedWaiters, roundWaiters, phase, listed, scanned,
                applied, routes, middlewares, lastStatus, errors, cursor, memory, inFlight, stream>>

\* Two files that compete for a key, one caller besides the watcher; scans may fail.
MockDef == [kind |-> "mock", sig |-> "m"]
Reload == INSTANCE RuntimeReload
  WITH waiters <- roundWaiters, status <- lastStatus,
       File <- {1, 2}, Key <- {k1}, Def <- {MockDef},
       Content <- {Absent, Broken, [key |-> k1, serve |-> MockDef]},
       Caller <- {a1}, Conn <- {}, MaxCalls <- 1, FatalScans <- TRUE

\* The properties of the calls, as RuntimeReload states them.
AnsweredWriteServed == Reload!AnsweredWriteServed
CallsAndRoutesSettle == Reload!CallsAndRoutesSettle

VARIABLE subject

MCInit ==
  /\ subject \in {"store", "reload"} /\ Init /\ Reload!Init
  /\ subject = "store" => disk = [f \in {1, 2} |-> Absent]

MCNext ==
  /\ UNCHANGED subject
  /\ \/ subject = "store" /\ Next /\ UNCHANGED reloadVars
     \/ subject = "reload" /\ Reload!Next /\ UNCHANGED vars

\* Nothing of the other is ever enabled, so its fairness asks for nothing.
MCSpec == MCInit /\ [][MCNext]_<<vars, reloadVars, subject>> /\ Fairness /\ Reload!Fairness
==================================================================================

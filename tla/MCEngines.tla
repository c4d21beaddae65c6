-------------------------------- MODULE MCEngines --------------------------------
(***************************************************************************)
(* The engines of the desktop application, for TLC: the reload rounds of   *)
(* one engine, or the pool of engines under the commands of the window.    *)
(* They share no state, so subject is chosen once and the state spaces add *)
(* up; the variables of the other keep an arbitrary initial value.         *)
(***************************************************************************)
EXTENDS RuntimeReload, Desktop

CONSTANTS Subjects, k1, c1, r1, r2, p1, p2, p3

D(kind, sig) == [kind |-> kind, sig |-> sig]

\* Rounds: two files that can each be a sequence, a stream or a middleware; or a handler in
\* the first, alone.
RoundDef == {D("sequence", "s"), D("stream", "s"), D("middleware", "w"), D("handler", "h")}
RoundContent == {Absent, Broken} \cup {[key |-> k1, serve |-> d] : d \in RoundDef}
IsHandler(c) == Parsed(c) /\ c.serve = D("handler", "h")
HandlerAlone ==
  (\E f \in File : IsHandler(disk[f]) \/ IsHandler(scanned[f])) \/
  (\E k \in Key : routes[k] # None /\ routes[k].def.kind = "handler") =>
    /\ disk[2] = Absent /\ (Parsed(disk[1]) => IsHandler(disk[1]))
    /\ \A k \in Key : cursor[k] = None
    /\ \A c \in Conn : stream[c] = None

\* Two workspaces and three ports, of which the commands, the failures, the ends of the
\* process and what others take are few; or, for the comments the code does not keep,
\* commands alone.
DesktopBudgetDef == [commands |-> 4, failures |-> 2, stops |-> 1, taken |-> 1]
CommandsOnlyDef == [commands |-> 4, failures |-> 0, stops |-> 0, taken |-> 0]

VARIABLE subject

MCInit ==
  /\ subject \in Subjects /\ Init /\ InitDesktop
  /\ subject # "rounds" => disk = [f \in File |-> Absent]
  /\ settings[r1] = p1 /\ settings[r2] \in (IF subject = "desktop" THEN {p1, p2} ELSE {p1})

MCNext ==
  /\ UNCHANGED subject
  /\ \/ subject = "rounds" /\ Next /\ UNCHANGED desktopVars
     \/ subject = "desktop" /\ DesktopStep /\ UNCHANGED vars

MCSpec == MCInit /\ [][MCNext]_<<vars, desktopVars, subject>>
==================================================================================

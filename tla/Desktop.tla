--------------------------------- MODULE Desktop ---------------------------------
(***************************************************************************)
(* The desktop application: the pool of engines, one for each open         *)
(* workspace (electron/server-pool.js), the commands of the window that    *)
(* open, close and restart them (app-main.js), the session written at      *)
(* every change and restored at the next start (workspace-session.js,      *)
(* global-prefs.js), and the checks for a new version (update-service.js). *)
(*                                                                         *)
(* Commands are asynchronous: they stop while an engine starts or shuts    *)
(* down, and others run meanwhile.  The workspaces have no order here; the *)
(* code takes the first open one where the model takes any.                *)
(***************************************************************************)
EXTENDS Integers, FiniteSets

CONSTANTS Roots, Ports, NoRoot, NoPort,
          DesktopBudget   \* [commands, failures, stops, taken]

ASSUME DesktopAssumption ==
  /\ NoRoot \notin Roots /\ NoPort \notin Ports
  /\ DesktopBudget \in [{"commands", "failures", "stops", "taken"} -> Nat]

VARIABLES app, session, settings, world

desktopVars == <<app, session, settings, world>>

\* engines: what runs, in the pool or not; pool: by workspace, the port of its entry;
\* active: the workspace the window shows; commands: those of the window under way.
\* Three parts are history: doubled, the workspaces that two launches at once were started
\* for; unsaved, those a restart brought back when the session no longer named them;
\* failed, those whose restart failed; the last two since the session was written.
NotRunning ==
  [up |-> FALSE, engines |-> {}, pool |-> [r \in Roots |-> NoPort], active |-> NoRoot,
   commands |-> {}, doubled |-> {}, unsaved |-> {}, failed |-> {}]
InitDesktop ==
  /\ app = NotRunning
  /\ session = [open |-> {}, active |-> NoRoot]
  /\ settings \in [Roots -> Ports]
  /\ world = [left |-> DesktopBudget, folders |-> Roots, taken |-> {}, release |-> 0,
              latest |-> 0, ignored |-> 0, checking |-> FALSE, recent |-> FALSE, asked |-> {}]

Pooled(a) == {r \in Roots : a.pool[r] # NoPort}
Busy == world.taken \cup {e.port : e \in app.engines}
Pay(what) == world.left[what] > 0
Paid(what) == [world EXCEPT !.left[what] = @ - 1]

\* Mutant: a workspace that is closed stays in the saved session.
Persisted_Union(a) == [open |-> Pooled(a) \cup session.open, active |-> a.active]
\* setOpenWorkspaceSession: the active workspace only when it is open.
Persisted(a) ==
  [open |-> Pooled(a), active |-> IF a.active \in Pooled(a) THEN a.active ELSE NoRoot]
\* persistWorkspaceSession, after what the command did.
PersistSession(a) ==
  session' = Persisted(a) /\ app' = [a EXCEPT !.unsaved = {}, !.failed = {}]

\* A command stops twice at most: while the engine on port shuts down, and while one
\* launches with the port read from the settings.  The numbers keep equal commands apart.
NewCommand(kind, root) ==
  [kind |-> kind, root |-> root, at |-> "launch", port |-> NoPort, id |-> world.left.commands]
CommandOver(a, c) == [a EXCEPT !.commands = @ \ {c}]
Launching(a) == {c.root : c \in {d \in a.commands : d.at = "launch"}}
Stopping(a) == {[root |-> c.root, port |-> c.port] : c \in {d \in a.commands : d.at = "shutdown"}}

\* open of a workspace that is not in the pool, although another may be launching it.
Open(a, c, port) ==
  [a EXCEPT !.commands = @ \cup {[c EXCEPT !.at = "launch", !.port = port]},
            !.doubled = @ \cup ({c.root} \cap Launching(a))]
\* Mutant: it leaves the pool once its engine is off, which nothing waits for.
Close_Kept(a, c) ==
  [a EXCEPT !.commands = @ \cup {[c EXCEPT !.at = "shutdown", !.port = a.pool[c.root]]}]
\* close of one that is: it leaves the pool, and then its engine shuts down.
Close(a, c) ==
  [a EXCEPT !.commands = @ \cup {[c EXCEPT !.at = "shutdown", !.port = a.pool[c.root]]},
            !.pool[c.root] = NoPort]

\* showWorkspace: the one in the pool is shown at once, another waits for its engine.
ShowWorkspace(root) ==
  /\ app.up /\ Pay("commands")
  /\ world' = Paid("commands") /\ UNCHANGED settings
  /\ \/ root \notin world.folders /\ PersistSession(app)
     \/ root \in world.folders \cap Pooled(app) /\ PersistSession([app EXCEPT !.active = root])
     \/ /\ root \in world.folders \ Pooled(app)
        /\ app' = Open(app, NewCommand("show", root), settings[root]) /\ UNCHANGED session

\* What the window lists, as it last asked: what is open, shown, closing or restarting.
Tabs == Pooled(app) \cup {app.active} \cup {c.root : c \in {d \in app.commands : d.kind # "show"}}

\* closeWorkspace once the engine is off: another open workspace is shown, at once because
\* its engine runs, or the welcome page, if the one that is closed was the active one.
Closed(a, root) ==
  \/ root # a.active /\ PersistSession(a)
  \/ root = a.active /\ Pooled(a) = {} /\ PersistSession([a EXCEPT !.active = NoRoot])
  \/ root = a.active /\ \E r \in Pooled(a) : PersistSession([a EXCEPT !.active = r])
CloseWorkspace(root) ==
  /\ app.up /\ root \in Tabs \cap Roots /\ Pay("commands")
  /\ world' = Paid("commands") /\ UNCHANGED settings
  /\ \/ root \in Pooled(app) /\ app' = Close(app, NewCommand("close", root)) /\ UNCHANGED session
     \/ root \notin Pooled(app) /\ Closed(app, root)

\* workspace:update, with a change that takes a restart: another port, free now, or not.
UpdateWorkspace(root) ==
  /\ app.up /\ root \in Tabs \cap Roots /\ Pay("commands")
  /\ world' = Paid("commands") /\ UNCHANGED session
  /\ \E port \in {settings[root]} \cup (Ports \ Busy) :
       /\ settings' = [settings EXCEPT ![root] = port]
       /\ app' = IF root \in Pooled(app) THEN Close(app, NewCommand("update", root))
                 ELSE Open(app, NewCommand("update", root), port)

\* launchEngine: on the port that was read, or on a free one that becomes the setting.
\* Mutant: the port of a fallback is not written.
PortWritten_Not(p, root) == settings
PortWritten(p, root) == [settings EXCEPT ![root] = p]
PortFor(c, p) == p \notin Busy /\ (p = c.port \/ c.port \in Busy)

\* The engine runs and enters the pool.  A restart writes no session.
EngineUp(a, c, p) ==
  [CommandOver(a, c) EXCEPT !.engines = @ \cup {[root |-> c.root, port |-> p]}, !.pool[c.root] = p]
Launched(c, p) ==
  /\ c.at = "launch" /\ PortFor(c, p) /\ UNCHANGED world
  /\ settings' = IF p = c.port THEN settings ELSE PortWritten(p, c.root)
  /\ \/ c.kind = "show" /\ PersistSession([EngineUp(app, c, p) EXCEPT !.active = c.root])
     \/ /\ c.kind = "update" /\ UNCHANGED session
        /\ app' = [EngineUp(app, c, p) EXCEPT !.unsaved = @ \cup ({c.root} \ session.open)]
LaunchFails(c) ==
  /\ c.at = "launch" /\ Pay("failures")
  /\ world' = Paid("failures") /\ UNCHANGED settings
  /\ \/ c.kind = "show" /\ PersistSession(CommandOver(app, c))
     \/ /\ c.kind = "update" /\ UNCHANGED session
        /\ app' = [CommandOver(app, c) EXCEPT !.failed = @ \cup {c.root}]

\* The shutdown is over: a close ends, a restart opens the workspace unless another
\* command did.
EngineOff(a, c) ==
  [CommandOver(a, c) EXCEPT !.engines = @ \ {[root |-> c.root, port |-> c.port]}]
ShutDown(c) ==
  LET off == EngineOff(app, c)
  IN /\ c.at = "shutdown" /\ UNCHANGED <<settings, world>>
     /\ \/ c.kind = "close" /\ Closed(off, c.root)
        \/ /\ c.kind = "update" /\ UNCHANGED session
           /\ app' = IF c.root \in Pooled(off) THEN off ELSE Open(off, c, settings[c.root])

\* The process ends, by a crash or because the window was closed: the engines end with
\* it, the session stays as it was last written.
ApplicationEnds ==
  /\ app.up /\ Pay("stops") /\ UNCHANGED <<session, settings>>
  /\ world' = [Paid("stops") EXCEPT !.checking = FALSE] /\ app' = NotRunning
\* Opened one after the other, each on the port of its settings unless it is taken by then.
PortsFor(opened, ports) ==
  \E order \in [opened -> 1..Cardinality(opened)] :
    \A r \in opened :
      /\ \A q \in opened \ {r} : ports[q] # ports[r] /\ order[q] # order[r]
      /\ \/ ports[r] = settings[r] \/ settings[r] \in world.taken
         \/ \E q \in opened : order[q] < order[r] /\ ports[q] = settings[r]
\* restoreWorkspaceSession, before the window accepts commands: the saved workspaces
\* that exist and start, the one that was active or any of them.
RestoreSession ==
  /\ ~app.up /\ UNCHANGED world
  /\ \E opened \in SUBSET (session.open \cap world.folders) :
       /\ opened = session.open \cap world.folders \/ Pay("failures")
       /\ \E ports \in [opened -> Ports \ world.taken] :
            /\ PortsFor(opened, ports)
            /\ settings' = [r \in Roots |-> IF r \in opened THEN ports[r] ELSE settings[r]]
            /\ \E r \in IF opened = {} THEN {NoRoot}
                        ELSE IF session.active \in opened THEN {session.active} ELSE opened :
                 LET up == [NotRunning EXCEPT !.up = TRUE, !.active = r,
                              !.engines = {[root |-> q, port |-> ports[q]] : q \in opened},
                              !.pool = [q \in Roots |-> IF q \in opened THEN ports[q] ELSE NoPort]]
                 IN PersistSession(up)

\* Someone deletes the folder of a workspace that is not open, or takes a port.
FolderGone(root) ==
  /\ Pay("taken") /\ root \in world.folders \ (Pooled(app) \cup {app.active})
  /\ \A c \in app.commands : c.root # root
  /\ world' = [Paid("taken") EXCEPT !.folders = @ \ {root}] /\ UNCHANGED <<app, session, settings>>
PortTaken(p) ==
  /\ Pay("taken") /\ p \notin Busy /\ Cardinality(Busy) + 1 < Cardinality(Ports)
  /\ world' = [Paid("taken") EXCEPT !.taken = @ \cup {p}] /\ UNCHANGED <<app, session, settings>>

---------------------------------------------------------------------------------
\* Updates.  recent: the last successful check is less than a day old; release is what
\* the site publishes, latest what the preferences keep of it.

\* check(): automatic ones only after a day, one request for all the callers.
CheckUpdates(automatic) ==
  /\ app.up /\ ~world.checking /\ Pay("commands") /\ (automatic => ~world.recent)
  /\ world' = [Paid("commands") EXCEPT !.checking = TRUE] /\ UNCHANGED <<app, session, settings>>
\* Mutant: the version that is ignored is forgotten with the release before.
Recorded_Resets(w) == [w EXCEPT !.latest = w.release, !.ignored = 0]
\* recordSuccessfulUpdateCheck: the preferences are read again at that moment.
Recorded(w) == [w EXCEPT !.latest = w.release]
UpdatesChecked ==
  /\ world.checking /\ UNCHANGED <<app, session, settings>>
  /\ \/ world' = [Recorded(world) EXCEPT !.checking = FALSE, !.recent = TRUE]
     \/ Pay("failures") /\ world' = [Paid("failures") EXCEPT !.checking = FALSE]
\* ignore(version): the one that is shown.
IgnoreUpdate ==
  /\ app.up /\ world.latest > 0 /\ world.latest \notin world.asked /\ UNCHANGED <<app, session, settings>>
  /\ world' = [world EXCEPT !.ignored = world.latest, !.asked = @ \cup {world.latest}]
Published ==
  /\ world.release < 2 /\ Pay("taken") /\ UNCHANGED <<app, session, settings>>
  /\ world' = [Paid("taken") EXCEPT !.release = @ + 1]
DayPasses ==
  /\ world.recent /\ world' = [world EXCEPT !.recent = FALSE] /\ UNCHANGED <<app, session, settings>>

DesktopStep ==
  \/ \E r \in Roots : ShowWorkspace(r) \/ CloseWorkspace(r) \/ UpdateWorkspace(r) \/ FolderGone(r)
  \/ \E c \in app.commands : LaunchFails(c) \/ ShutDown(c) \/ \E p \in Ports : Launched(c, p)
  \/ ApplicationEnds \/ RestoreSession
  \/ \E p \in Ports : PortTaken(p)
  \/ \E automatic \in BOOLEAN : CheckUpdates(automatic)
  \/ UpdatesChecked \/ IgnoreUpdate \/ Published \/ DayPasses

DesktopSpec == InitDesktop /\ [][DesktopStep]_desktopVars

---------------------------------------------------------------------------------
Pooled1(a) == {[root |-> r, port |-> a.pool[r]] : r \in Pooled(a)}

\* At every moment, whatever commands overlap, of one workspace or of several, and whichever
\* fail: the pool names no engine that is gone; and, except for a workspace that two launches
\* at once were started for, which may end with two engines (OneEngineEach), every engine is
\* the pool's or is being shut down, and the pool's is on the port of the settings.
EnginesInPool ==
  /\ Pooled1(app) \subseteq app.engines
  /\ \A e \in app.engines : e.root \in app.doubled \/ e \in Pooled1(app) \cup Stopping(app)
  /\ \A r \in Pooled(app) \ app.doubled : app.pool[r] = settings[r]

\* At every moment, the session the next start would read, after a crash too, names what is
\* open, except for a workspace that a restart brought back after another command had written
\* the session without it (OpenTabsSaved); and it names nothing else but what is closing,
\* restarting or failed to restart, and no other workspace as the one shown.
SessionAsShown ==
  app.up =>
    /\ Pooled(app) \subseteq session.open \cup app.unsaved
    /\ session.open \subseteq Pooled(app) \cup {c.root : c \in app.commands} \cup app.failed
    /\ app.active \in session.open => session.active = app.active

\* Engines, pool, port settings and saved session tell the same story while commands
\* overlap and fail, but for the two exceptions the module names, each with a property that the
\* code does not keep.
EnginesAndSession == EnginesInPool /\ SessionAsShown

\* What the comment of the pool's open promises (server-pool.js:23): once no command is under
\* way, no workspace has two engines.  Two opens that overlap break it.
OneEngineEach ==
  app.commands = {} => \A d, e \in app.engines : d.root = e.root => d = e

\* What the comment of persistWorkspaceSession promises (app-main.js:229-230): while an open
\* workspace is shown and no command is under way, the session that a crash leaves has every
\* open tab, and the one that is shown.  A restart that ends after the session was written
\* without its workspace breaks it.
OpenTabsSaved ==
  app.commands = {} /\ app.active \in Pooled(app) =>
    Pooled(app) \subseteq session.open /\ session.active = app.active

\* At least one of the two comments is kept at every moment.  The code reaches a state that
\* breaks both, which refutes each of them.
PoolOrSessionAsPromised == OneEngineEach \/ OpenTabsSaved

\* A version the user ignored stays ignored while it is the latest, through checks that
\* were in flight, failed or ran in another session.
IgnoredStaysIgnored == world.latest \in world.asked => world.ignored = world.latest
==============================================================================

----------------------------- MODULE RuntimeReload -----------------------------
(***************************************************************************)
(* The hot reload of the workspace (createReloadHandler in                 *)
(* src/src/server.js): endpoint files on disk, edited at any time by       *)
(* people, tools and the admin API; rounds that scan them file by file and *)
(* install the routes in one synchronous step; the callers waiting for a   *)
(* round; the status published for each attempt; and the runtime state     *)
(* that an installation must keep or drop: sequence cursors, handler       *)
(* memory, open streams.                                                   *)
(*                                                                         *)
(* A file stands for an endpoint definition together with its selected     *)
(* response, read in one go.  A key stands for a method and path.          *)
(***************************************************************************)
EXTENDS Integers

CONSTANTS File,        \* endpoint files; their order is that of the listing
          Key,         \* "METHOD path"
          Def,         \* what a loaded response serves: [kind, sig]
          Content,     \* what an endpoint file can hold, see below
          Caller,      \* callers of reload() other than the watcher
          Conn,        \* stream connections
          MaxCalls,    \* bound on the calls a cursor or a memory counts
          FatalScans,  \* whether a scan may fail as a whole
          Absent, Broken, Disabled, Unloadable,
          Watcher, None

Kind == {"mock", "handler", "sequence", "stream", "middleware"}
LocalKind == Kind \ {"middleware"}

ASSUME FileAssumption == File \subseteq Nat
ASSUME DefAssumption == \A d \in Def : d.kind \in Kind /\ d.sig # None
ASSUME CallsAssumption == MaxCalls \in Nat \ {0}
ASSUME FatalAssumption == FatalScans \in BOOLEAN
ASSUME SentinelAssumption ==
         /\ None \notin [file : File, def : Def]
         /\ Disabled \notin Def /\ Unloadable \notin Def
         /\ Disabled # Unloadable /\ Absent # Broken
         /\ Watcher \notin Caller

\* A file that parses claims its key; then it is disabled, or its response does
\* not load, or it serves a definition.  Absent: no such file.  Broken: the file
\* cannot be read, or is not a valid endpoint.
Endpoint == [key : Key, serve : Def \cup {Disabled, Unloadable}]
ASSUME ContentAssumption ==
         /\ Absent \notin Endpoint /\ Broken \notin Endpoint
         /\ Content \subseteq Endpoint \cup {Absent, Broken}
         /\ {Absent, Broken} \subseteq Content

Entry == [file : File, def : Def]
Sig == {d.sig : d \in Def}

VARIABLES
  disk,           \* the workspace: File -> Content
  fsEvent,        \* a change the watcher has yet to report
  call,           \* a caller: "none", "writing", "waiting", "applied", "failed"
  expects,        \* what a caller wrote, unless somebody wrote over it since
  queuedWaiters,  \* callers of the next round
  waiters,        \* callers of this round
  phase,          \* of the drain: idle, listing, reading, installed, recorded
  listed,         \* files of this round still to read
  scanned,        \* what this round read
  applied,        \* outcome of this round
  routes,         \* the local registry: Key -> Entry or None
  middlewares,    \* the proxy middleware registry
  status,         \* lastAttempt.status
  errors,         \* the published errors: File -> serving
  cursor,         \* SequenceStateStore: Key -> [sig, calls] or None
  memory,         \* HandlerStateStore: Key -> callCount, 0 for no entry
  inFlight,       \* keys of handler requests matched and reading their body
  stream          \* Conn -> [key, sig] or None

diskVars == <<disk, fsEvent>>
callVars == <<call, expects>>
scanVars == <<listed, scanned>>
registries == <<routes, middlewares>>
statusVars == <<status, errors>>
runtimeVars == <<cursor, memory, inFlight, stream>>
vars == <<disk, fsEvent, call, expects, queuedWaiters, waiters, phase, listed,
          scanned, applied, routes, middlewares, status, errors, cursor, memory,
          inFlight, stream>>

-------------------------------------------------------------------------------
(* What a scan makes of the files, s being what it read of each.           *)

Parsed(c) == c # Absent /\ c # Broken

\* seenEndpointKeys: the first file of the listing that parses claims the key,
\* even if it is disabled or its response does not load afterwards.
Owns(s, f) ==
  /\ Parsed(s[f])
  /\ \A g \in File : g < f /\ Parsed(s[g]) => s[g].key # s[f].key

LoadErrors(s) ==
  {f \in File : \/ s[f] = Broken
                \/ Parsed(s[f]) /\ (~Owns(s, f) \/ s[f].serve = Unloadable)}

Serves(s, f, k) == Owns(s, f) /\ s[f].key = k /\ s[f].serve \in Def

\* The routes of the given kinds (mergeLocalRouteGroups for the local ones).
Loaded(s, kinds) ==
  [k \in Key |->
     LET on == {f \in File : Serves(s, f, k) /\ s[f].serve.kind \in kinds}
     IN  IF on = {} THEN None
         ELSE LET f == CHOOSE f \in on : TRUE
              IN  [file |-> f, def |-> s[f].serve]]

Graft_AnyFile(next, previous, errored) ==   \* mutant: whoever lost the key
  [k \in Key |-> IF next[k] # None THEN next[k] ELSE previous[k]]

Graft_Never(next, previous, errored) == next  \* mutant: errors drop routes

\* graftPreviousRoutes: a file that does not load keeps the route it had,
\* unless the key has an entry again.
Graft(next, previous, errored) ==
  [k \in Key |-> IF next[k] # None THEN next[k]
                 ELSE IF previous[k] # None /\ previous[k].file \in errored
                      THEN previous[k] ELSE None]

-------------------------------------------------------------------------------
(* What the registries serve.                                              *)

\* The dispatcher looks at the middlewares only when the local registry has no
\* match.
Answer(k) == IF routes[k] # None THEN routes[k] ELSE middlewares[k]

Installed(f) ==
  \E k \in Key : \/ routes[k] # None /\ routes[k].file = f
                 \/ middlewares[k] # None /\ middlewares[k].file = f

SigOf(r, k, kind) ==
  IF r[k] # None /\ r[k].def.kind = kind THEN r[k].def.sig ELSE None

Scenario(r, k) == SigOf(r, k, "sequence")     \* activeSignatures
StreamSig(r, k) == SigOf(r, k, "stream")      \* collectStreamSignatures

TypeOK ==
  /\ disk \in [File -> Content]
  /\ fsEvent \in BOOLEAN
  /\ call \in [Caller -> {"none", "writing", "waiting", "applied", "failed"}]
  /\ expects \in [Caller -> [file : File, content : Content] \cup {None}]
  /\ queuedWaiters \subseteq Caller \cup {Watcher}
  /\ waiters \subseteq Caller \cup {Watcher}
  /\ phase \in {"idle", "listing", "reading", "installed", "recorded"}
  /\ listed \subseteq File
  /\ scanned \in [File -> Content]
  /\ applied \in BOOLEAN
  /\ routes \in [Key -> Entry \cup {None}]
  /\ middlewares \in [Key -> Entry \cup {None}]
  /\ status \in {"applied", "degraded", "failed"}
  /\ errors \in [File -> {"none", "retained", "missing"}]
  /\ cursor \in [Key -> [sig : Sig, calls : 1..MaxCalls] \cup {None}]
  /\ memory \in [Key -> 0..MaxCalls]
  /\ inFlight \subseteq Key
  /\ stream \in [Conn -> [key : Key, sig : Sig] \cup {None}]

Unread == [f \in File |-> Absent]

ErrorsOf_LocalOnly(s, r, m) ==   \* mutant: one registry only
  [f \in File |->
     IF f \notin LoadErrors(s) THEN "none"
     ELSE IF \E k \in Key : r[k] # None /\ r[k].file = f
          THEN "retained" ELSE "missing"]

\* describeLoadError: is an entry of the file in one of the registries?
ErrorsOf(s, r, m) ==
  [f \in File |->
     IF f \notin LoadErrors(s) THEN "none"
     ELSE IF \E k \in Key : \/ r[k] # None /\ r[k].file = f
                            \/ m[k] # None /\ m[k].file = f
          THEN "retained" ELSE "missing"]

\* createServerRuntime: one scan, nothing to graft, the attempt recorded.
Init ==
  /\ disk \in [File -> Content]
  /\ fsEvent = FALSE
  /\ call = [a \in Caller |-> "none"]
  /\ expects = [a \in Caller |-> None]
  /\ queuedWaiters = {} /\ waiters = {}
  /\ phase = "idle"
  /\ listed = {} /\ scanned = Unread
  /\ applied = TRUE
  /\ routes = Loaded(disk, LocalKind)
  /\ middlewares = Loaded(disk, {"middleware"})
  /\ status = IF LoadErrors(disk) = {} THEN "applied" ELSE "degraded"
  /\ errors = ErrorsOf(disk, routes, middlewares)
  /\ cursor = [k \in Key |-> None]
  /\ memory = [k \in Key |-> 0]
  /\ inFlight = {}
  /\ stream = [c \in Conn |-> None]

-------------------------------------------------------------------------------
(* The workspace and the callers.                                          *)

\* What the callers expect once somebody else has written f.
Overwritten(f) ==
  [a \in Caller |-> IF expects[a] # None /\ expects[a].file = f THEN None
                                                                ELSE expects[a]]

\* External: a person, a script or git changes, creates or deletes an endpoint.
Edit(f, c) ==
  /\ disk[f] # c
  /\ disk' = [disk EXCEPT ![f] = c]
  /\ fsEvent' = TRUE
  /\ expects' = Overwritten(f)
  /\ UNCHANGED <<call, queuedWaiters, waiters, phase, scanVars, applied,
                 registries, statusVars, runtimeVars>>

\* commit(): an admin mutation writes, and asks for a reload afterwards.
CommitWrite(a, f, c) ==
  /\ call[a] = "none"
  /\ call' = [call EXCEPT ![a] = "writing"]
  /\ disk' = [disk EXCEPT ![f] = c]
  /\ fsEvent' = TRUE
  /\ expects' = [Overwritten(f) EXCEPT ![a] = [file |-> f, content |-> c]]
  /\ UNCHANGED <<queuedWaiters, waiters, phase, scanVars, applied, registries,
                 statusVars, runtimeVars>>

\* Mutant: a call during a round is answered by that round.
Enqueue_JoinsRound(w) ==
  IF phase = "idle"
  THEN /\ phase' = "listing" /\ waiters' = {w}
       /\ UNCHANGED queuedWaiters
  ELSE /\ waiters' = waiters \cup {w}
       /\ UNCHANGED <<phase, queuedWaiters>>

\* reload(): the call joins the queue, and starts the drain if none is running;
\* the drain takes the queue at once.
Enqueue(w) ==
  IF phase = "idle"
  THEN /\ phase' = "listing" /\ waiters' = queuedWaiters \cup {w}
       /\ queuedWaiters' = {}
  ELSE /\ queuedWaiters' = queuedWaiters \cup {w}
       /\ UNCHANGED <<phase, waiters>>

CallReload(a) ==
  /\ call[a] = "writing"
  /\ call' = [call EXCEPT ![a] = "waiting"]
  /\ Enqueue(a)
  /\ UNCHANGED <<diskVars, expects, scanVars, applied, registries, statusVars,
                 runtimeVars>>

\* The watcher reports, some time after the change; its promise is dropped.
WatcherEvent ==
  /\ fsEvent
  /\ fsEvent' = FALSE
  /\ Enqueue(Watcher)
  /\ UNCHANGED <<disk, callVars, scanVars, applied, registries, statusVars,
                 runtimeVars>>

\* The caller has its answer.
CallerContinues(a) ==
  /\ call[a] \in {"applied", "failed"}
  /\ call' = [call EXCEPT ![a] = "none"]
  /\ expects' = [expects EXCEPT ![a] = None]
  /\ UNCHANGED <<diskVars, queuedWaiters, waiters, phase, scanVars, applied,
                 registries, statusVars, runtimeVars>>

-------------------------------------------------------------------------------
(* A round.                                                                *)

ListEndpointFiles ==
  /\ phase = "listing"
  /\ phase' = "reading"
  /\ listed' = {f \in File : disk[f] # Absent}
  /\ UNCHANGED <<diskVars, callVars, queuedWaiters, waiters, scanned, applied,
                 registries, statusVars, runtimeVars>>

\* The listing throws (a folder disappears under it): nothing is installed.
ScanFails ==
  /\ FatalScans
  /\ phase = "listing"
  /\ phase' = "installed"
  /\ applied' = FALSE
  /\ UNCHANGED <<diskVars, callVars, queuedWaiters, waiters, scanVars,
                 registries, statusVars, runtimeVars>>

\* A file listed and deleted since is a load error, not an absent file.
ReadEndpoint(f) ==
  /\ phase = "reading"
  /\ f \in listed
  /\ \A g \in listed : f <= g
  /\ listed' = listed \ {f}
  /\ scanned' = [scanned EXCEPT ![f] = IF disk[f] = Absent THEN Broken ELSE disk[f]]
  /\ UNCHANGED <<diskVars, callVars, queuedWaiters, waiters, phase, applied,
                 registries, statusVars, runtimeVars>>

\* SequenceStateStore.reconcile: keys whose scenario came, went or changed.
ChangedScenarios_Entering(r) ==      \* mutant: a scenario that ends is kept
  {k \in Key : Scenario(r, k) # None /\ Scenario(r, k) # Scenario(routes, k)}
ChangedScenarios_All(r) == Key       \* mutant: every reload starts afresh
ChangedScenarios(r) == {k \in Key : Scenario(routes, k) # Scenario(r, k)}

DropScenarios(K) ==
  /\ cursor' = [k \in Key |-> IF k \in K THEN None ELSE cursor[k]]
  /\ memory' = [k \in Key |-> IF k \in K THEN 0 ELSE memory[k]]

StreamsToClose_Gone(r) ==            \* mutant: only streams that disappeared
  {c \in Conn : stream[c] # None /\ StreamSig(r, stream[c].key) = None}
\* reconcileStreamConnections.
StreamsToClose(r) ==
  {c \in Conn : /\ stream[c] # None
                /\ \/ StreamSig(routes, stream[c].key) = None
                   \/ StreamSig(routes, stream[c].key) # StreamSig(r, stream[c].key)}

\* From the end of the scan to the return of loadAndInstall nothing is awaited.
Install ==
  LET errored == LoadErrors(scanned)
      r == Graft(Loaded(scanned, LocalKind), routes, errored)
      m == Graft(Loaded(scanned, {"middleware"}), middlewares, errored)
  IN  /\ phase = "reading"
      /\ listed = {}
      /\ phase' = "installed"
      /\ applied' = TRUE
      /\ routes' = r
      /\ middlewares' = m
      /\ DropScenarios(ChangedScenarios(r))
      /\ stream' = [c \in Conn |-> IF c \in StreamsToClose(r) THEN None ELSE stream[c]]
      /\ UNCHANGED <<diskVars, callVars, queuedWaiters, waiters, scanVars,
                     statusVars, inFlight>>

\* The attempt is published; after a fatal one the errors stay those of the
\* registries still in use.
RecordAttempt ==
  /\ phase = "installed"
  /\ phase' = "recorded"
  /\ IF applied
     THEN /\ status' = IF LoadErrors(scanned) = {} THEN "applied" ELSE "degraded"
          /\ errors' = ErrorsOf(scanned, routes, middlewares)
     ELSE /\ status' = "failed"
          /\ UNCHANGED errors
  /\ UNCHANGED <<diskVars, callVars, queuedWaiters, waiters, scanVars, applied,
                 registries, runtimeVars>>

TakeQueue_Stops ==                   \* mutant: the drain ends with the round
  /\ waiters' = {} /\ phase' = "idle"
  /\ UNCHANGED queuedWaiters
\* The head of the loop of drainReloadQueue.
TakeQueue ==
  /\ waiters' = queuedWaiters
  /\ queuedWaiters' = {}
  /\ phase' = IF queuedWaiters = {} THEN "idle" ELSE "listing"

\* The catalog revision is refreshed, the callers of the round are answered.
FinishRound ==
  /\ phase = "recorded"
  /\ call' = [a \in Caller |-> IF a \notin waiters THEN call[a]
                               ELSE IF applied THEN "applied" ELSE "failed"]
  /\ TakeQueue
  /\ listed' = {} /\ scanned' = Unread
  /\ UNCHANGED <<diskVars, expects, applied, registries, statusVars, runtimeVars>>

-------------------------------------------------------------------------------
(* Requests.  Matching and what follows it synchronously is one step.      *)

Cap(n) == IF n < MaxCalls THEN n + 1 ELSE n

\* resolveStep counts the call on the cursor of the definition that matched; a
\* handler step goes on to read its body.
ServeSequence(k) ==
  /\ Scenario(routes, k) # None
  /\ cursor' = [cursor EXCEPT ![k] =
       [sig |-> Scenario(routes, k),
        calls |-> IF cursor[k] # None /\ cursor[k].sig = Scenario(routes, k)
                  THEN Cap(cursor[k].calls) ELSE 1]]
  /\ \/ inFlight' = inFlight \cup {k}
     \/ UNCHANGED inFlight
  /\ UNCHANGED <<diskVars, callVars, queuedWaiters, waiters, phase, scanVars,
                 applied, registries, statusVars, memory, stream>>

MatchHandler(k) ==
  /\ routes[k] # None /\ routes[k].def.kind = "handler"
  /\ inFlight' = inFlight \cup {k}
  /\ UNCHANGED <<diskVars, callVars, queuedWaiters, waiters, phase, scanVars,
                 applied, registries, statusVars, cursor, memory, stream>>

\* The body arrived: handlerStates.enter(key), whatever was installed since.
\* Another request on the key may still be in flight.
EnterHandler(k) ==
  /\ k \in inFlight
  /\ memory' = [memory EXCEPT ![k] = Cap(@)]
  /\ \/ inFlight' = inFlight \ {k}
     \/ UNCHANGED inFlight
  /\ UNCHANGED <<diskVars, callVars, queuedWaiters, waiters, phase, scanVars,
                 applied, registries, statusVars, cursor, stream>>

\* The client went away before its body was complete.
AbandonHandler(k) ==
  /\ k \in inFlight
  /\ inFlight' = inFlight \ {k}
  /\ UNCHANGED <<diskVars, callVars, queuedWaiters, waiters, phase, scanVars,
                 applied, registries, statusVars, cursor, memory, stream>>

\* invalidateScenario and POST /mocks/:id/sequence/reset.
InvalidateScenario(k) ==
  /\ DropScenarios({k})
  /\ UNCHANGED <<diskVars, callVars, queuedWaiters, waiters, phase, scanVars,
                 applied, registries, statusVars, inFlight, stream>>

OpenStream(c, k) ==
  /\ stream[c] = None
  /\ StreamSig(routes, k) # None
  /\ stream' = [stream EXCEPT ![c] = [key |-> k, sig |-> StreamSig(routes, k)]]
  /\ UNCHANGED <<diskVars, callVars, queuedWaiters, waiters, phase, scanVars,
                 applied, registries, statusVars, cursor, memory, inFlight>>

\* The client closes, or the script ends with onEnd "close".
CloseStream(c) ==
  /\ stream[c] # None
  /\ stream' = [stream EXCEPT ![c] = None]
  /\ UNCHANGED <<diskVars, callVars, queuedWaiters, waiters, phase, scanVars,
                 applied, registries, statusVars, cursor, memory, inFlight>>

-------------------------------------------------------------------------------
RoundStep ==
  \/ ListEndpointFiles
  \/ ScanFails
  \/ \E f \in File : ReadEndpoint(f)
  \/ Install
  \/ RecordAttempt
  \/ FinishRound

CallerStep(a) ==
  \/ \E f \in File, c \in Content : CommitWrite(a, f, c)
  \/ CallReload(a)
  \/ CallerContinues(a)

RequestStep ==
  \/ \E k \in Key : \/ ServeSequence(k)
                    \/ MatchHandler(k)
                    \/ EnterHandler(k)
                    \/ AbandonHandler(k)
                    \/ InvalidateScenario(k)
  \/ \E c \in Conn : \/ \E k \in Key : OpenStream(c, k)
                     \/ CloseStream(c)

Next ==
  \/ \E f \in File, c \in Content : Edit(f, c)
  \/ \E a \in Caller : CallerStep(a)
  \/ WatcherEvent
  \/ RoundStep
  \/ RequestStep

Spec == Init /\ [][Next]_vars

\* Reads return, promise reactions run and the watcher reports every change.
Fairness ==
  /\ WF_vars(RoundStep)
  /\ WF_vars(WatcherEvent)
  /\ \A a \in Caller : WF_vars(CallReload(a))

FairSpec == Spec /\ Fairness

-------------------------------------------------------------------------------
(* Safety.                                                                 *)

\* The endpoints f serves, and those a file with content c should serve.
ServedBy(f) ==
  {kd \in Key \X Def : [file |-> f, def |-> kd[2]] \in {routes[kd[1]], middlewares[kd[1]]}}
Asked(c) ==
  IF Parsed(c) /\ c.serve \in Def THEN {<<c.key, c.serve>>} ELSE {}

\* What the admin mutations rely on ("una scrittura e' stata vista"): when a
\* caller is answered by a round that installed, that round read what the caller
\* had written, and either reports the file as an error or serves exactly it,
\* whatever was edited, queued or half read when the caller wrote.
AnsweredWriteServed ==
  \A a \in Caller \cap waiters :
    phase \in {"installed", "recorded"} /\ applied /\ expects[a] # None =>
      LET f == expects[a].file
          c == expects[a].content
      IN  /\ scanned[f] = c
          /\ f \in LoadErrors(scanned) \/ ServedBy(f) = Asked(c)

\* Whatever a file went through (moved to another key, taken over, broken and
\* repaired, turned from a local response into a middleware), a single entry of
\* it is installed: grafting never adds a second one.
OneEntryPerFile ==
  \A k1, k2 \in Key :
    /\ routes[k1] # None /\ routes[k2] # None /\ routes[k1].file = routes[k2].file
         => k1 = k2
    /\ middlewares[k1] # None /\ middlewares[k2] # None
         /\ middlewares[k1].file = middlewares[k2].file => k1 = k2
    /\ routes[k1] # None /\ middlewares[k2] # None
         => routes[k1].file # middlewares[k2].file

\* The status says of every file in error whether an entry of it is installed,
\* also after later rounds failed as a whole; only between an installation and
\* the record of its attempt is it that of the previous one.
StatusTruthful ==
  phase # "installed" \/ ~applied =>
    \A f \in File : errors[f] # "none" => (errors[f] = "retained" <=> Installed(f))

\* A cursor exists only for the scenario that is installed: none survives the
\* end of its scenario to be resumed when the same sequence comes back.
CursorOfInstalled ==
  \A k \in Key : cursor[k] # None => cursor[k].sig = Scenario(routes, k)

\* An open connection plays the stream that is installed on its key.
StreamOfInstalled ==
  \A c \in Conn :
    stream[c] # None => stream[c].sig = StreamSig(routes, stream[c].key)

\* What runs belongs to what is installed: both of them.
RuntimeOfInstalled == CursorOfInstalled /\ StreamOfInstalled

\* Whatever broke, moved and was grafted, the registries hold each file once, the
\* published errors say the truth about them, and what runs belongs to what they hold.
RegistriesTruthful == OneEntryPerFile /\ StatusTruthful /\ RuntimeOfInstalled

\* A key that answered stops answering only if its file stopped asking for it:
\* an error never lets a mocked route slip through to the backend.
ErrorsKeepServing ==
  [][\A k \in Key :
       Answer(k) # None /\ Answer(k)' = None
         => Answer(k).file \notin LoadErrors(scanned)]_vars

\* An installation that leaves the scenario, or the stream, of a key as it was
\* does not disturb the polling round, the memory or the connections on it.
UntouchedUndisturbed ==
  [][phase = "reading" /\ phase' = "installed" =>
       /\ \A k \in Key : Scenario(routes', k) = Scenario(routes, k)
                          => cursor'[k] = cursor[k] /\ memory'[k] = memory[k]
       /\ \A c \in Conn :
            stream[c] # None /\ StreamSig(routes', stream[c].key) = stream[c].sig
              => stream'[c] = stream[c]]_vars

\* An installation disturbs only what it is about: a file in error goes on answering, and
\* cursors, memories and connections of what did not change go on.
InstallDisturbsOnlyItsOwn == ErrorsKeepServing /\ UntouchedUndisturbed

-------------------------------------------------------------------------------
(* Liveness.                                                               *)

\* reload() never rejects and always answers: no call is lost between two
\* rounds, whether the scans succeed or not.  No caller waits for ever.
EveryCallAnswered == \A a \in Caller : []<>(call[a] # "waiting")

InSync ==
  \A f \in File : f \in LoadErrors(disk) \/ ServedBy(f) = Asked(disk[f])

\* Once nobody writes any more, what is served becomes what is on disk, or the status
\* says that the last scan failed as a whole: no edit falls between a read already done
\* and a round already started, and none is lost in silence.
Converges == <>[][UNCHANGED disk]_vars => <>[](InSync \/ status = "failed")

\* The queue of rounds forgets nothing: every call is answered, and after the last edit the
\* routes come in line with the disk or the status tells why not.
CallsAndRoutesSettle == EveryCallAnswered /\ Converges
===============================================================================

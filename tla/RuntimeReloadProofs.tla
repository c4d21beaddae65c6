-------------------------- MODULE RuntimeReloadProofs --------------------------
(***************************************************************************)
(* Proofs about RuntimeReload, for every set of files, keys, definitions,  *)
(* callers and connections.                                                *)
(***************************************************************************)
EXTENDS RuntimeReload, TLAPS

USE FileAssumption, DefAssumption, CallsAssumption, FatalAssumption,
    SentinelAssumption, ContentAssumption

\* The tuples of variables that the actions leave alone.
USE DEF diskVars, callVars, scanVars, registries, statusVars, runtimeVars

-------------------------------------------------------------------------------
(* The scan.                                                               *)

Table == [Key -> Entry \cup {None}]

\* The loader returns, for any kinds, a table of entries.
LEMMA LoadedType ==
  ASSUME NEW s \in [File -> Content], NEW kinds
  PROVE  Loaded(s, kinds) \in Table
<1> SUFFICES ASSUME NEW k \in Key PROVE Loaded(s, kinds)[k] \in Entry \cup {None}
    BY DEF Loaded, Table
<1> DEFINE on == {f \in File : Serves(s, f, k) /\ s[f].serve.kind \in kinds}
<1>1. CASE on = {}
      BY <1>1 DEF Loaded
<1>2. CASE on # {}
  <2>1. PICK f \in on : f = CHOOSE g \in on : TRUE
        BY <1>2
  <2>2. f \in File /\ s[f].serve \in Def
        BY <2>1 DEF Serves
  <2>3. Loaded(s, kinds)[k] = [file |-> f, def |-> s[f].serve]
        BY <1>2, <2>1 DEF Loaded
  <2>4. QED
        BY <2>2, <2>3 DEF Entry
<1>3. QED
      BY <1>1, <1>2

\* Entry e is what file f serves for the key, of one of the kinds.
EntryOf(s, kinds, k, f, e) ==
  /\ Serves(s, f, k) /\ s[f].serve.kind \in kinds
  /\ e = [file |-> f, def |-> s[f].serve]

\* An entry that was loaded is that of a file that serves the key.
LEMMA LoadedEntry ==
  ASSUME NEW s, NEW kinds, NEW k \in Key, Loaded(s, kinds)[k] # None
  PROVE  \E f \in File : EntryOf(s, kinds, k, f, Loaded(s, kinds)[k])
<1> DEFINE on == {f \in File : Serves(s, f, k) /\ s[f].serve.kind \in kinds}
<1>1. on # {}
      BY DEF Loaded
<1>2. PICK f \in on : f = CHOOSE g \in on : TRUE
      BY <1>1
<1>3. Loaded(s, kinds)[k] = [file |-> f, def |-> s[f].serve]
      BY <1>1, <1>2 DEF Loaded
<1>4. QED
      BY <1>2, <1>3 DEF EntryOf

\* At most one file serves a key.
LEMMA OneOwner ==
  ASSUME NEW s, NEW f \in File, NEW g \in File, NEW k \in Key,
         Serves(s, f, k), Serves(s, g, k)
  PROVE  f = g
<1>1. f \in Int /\ g \in Int
      OBVIOUS
<1>2. ~(f < g) /\ ~(g < f)
      BY DEF Serves, Owns
<1>3. QED
      BY <1>1, <1>2

\* A file that serves a key is loaded for it.
LEMMA ServedIsLoaded ==
  ASSUME NEW s, NEW kinds, NEW f \in File, NEW k \in Key,
         Serves(s, f, k), s[f].serve.kind \in kinds
  PROVE  Loaded(s, kinds)[k] = [file |-> f, def |-> s[f].serve]
<1> DEFINE on == {g \in File : Serves(s, g, k) /\ s[g].serve.kind \in kinds}
<1>1. on = {f}
      BY OneOwner
<1>2. (CHOOSE g \in on : TRUE) = f
      BY <1>1
<1>3. QED
      BY <1>1, <1>2 DEF Loaded

\* Grafting one table on another gives a table.
LEMMA GraftType ==
  ASSUME NEW r \in Table, NEW p \in Table, NEW E
  PROVE  Graft(r, p, E) \in Table
BY DEF Graft, Table

\* What is grafted belongs to a file in error; nothing loaded is lost.
LEMMA GraftEntry ==
  ASSUME NEW r, NEW p, NEW E, NEW k \in Key
  PROVE  /\ r[k] # None => Graft(r, p, E)[k] = r[k]
         /\ r[k] = None /\ Graft(r, p, E)[k] # None
              => Graft(r, p, E)[k] = p[k] /\ p[k] # None /\ p[k].file \in E
         /\ p[k] # None /\ p[k].file \in E => Graft(r, p, E)[k] # None
BY DEF Graft

\* What a key serves has the signature of some definition.
LEMMA SigType ==
  ASSUME NEW r \in Table, NEW k \in Key, NEW kind
  PROVE  SigOf(r, k, kind) \in Sig \cup {None}
<1>1. CASE r[k] = None
      BY <1>1 DEF SigOf
<1>2. CASE r[k] # None
  <2>1. r[k].def \in Def
        BY <1>2 DEF Table, Entry
  <2>2. QED
        BY <2>1 DEF SigOf, Sig
<1>3. QED
      BY <1>1, <1>2

-------------------------------------------------------------------------------
(* Type correctness.                                                       *)

\* A scan of the initial disk, with nothing to graft, gives a well typed state.
LEMMA TypeInit == Init => TypeOK
<1> SUFFICES ASSUME Init PROVE TypeOK
    OBVIOUS
<1>1. disk \in [File -> Content]
      BY DEF Init
<1>2. routes \in [Key -> Entry \cup {None}] /\ middlewares \in [Key -> Entry \cup {None}]
      BY <1>1, LoadedType DEF Init, Table
<1>3. errors \in [File -> {"none", "retained", "missing"}]
      BY DEF Init, ErrorsOf
<1>4. scanned \in [File -> Content]
      BY DEF Init, Unread
<1>5. memory \in [Key -> 0..MaxCalls]
      BY DEF Init
<1>6. cursor \in [Key -> [sig : Sig, calls : 1..MaxCalls] \cup {None}]
      /\ stream \in [Conn -> [key : Key, sig : Sig] \cup {None}]
      BY DEF Init
<1>7. QED
      BY <1>1, <1>2, <1>3, <1>4, <1>5, <1>6 DEF Init, TypeOK

\* Every action keeps the types.
LEMMA TypeNext == TypeOK /\ [Next]_vars => TypeOK'
<1> SUFFICES ASSUME TypeOK, [Next]_vars PROVE TypeOK'
    OBVIOUS
<1> USE DEF TypeOK
<1>1. ASSUME NEW f \in File, NEW c \in Content, Edit(f, c) PROVE TypeOK'
      BY <1>1 DEF Edit, Overwritten
<1>2. ASSUME NEW a \in Caller, NEW f \in File, NEW c \in Content, CommitWrite(a, f, c)
      PROVE TypeOK'
  <2>1. Overwritten(f) \in [Caller -> [file : File, content : Content] \cup {None}]
        BY DEF Overwritten
  <2>2. QED
        BY <1>2, <2>1 DEF CommitWrite
<1>3. ASSUME NEW a \in Caller, CallReload(a) PROVE TypeOK'
      BY <1>3 DEF CallReload, Enqueue
<1>4. ASSUME WatcherEvent PROVE TypeOK'
      BY <1>4 DEF WatcherEvent, Enqueue
<1>5. ASSUME NEW a \in Caller, CallerContinues(a) PROVE TypeOK'
      BY <1>5 DEF CallerContinues
<1>6. ASSUME ListEndpointFiles PROVE TypeOK'
      BY <1>6 DEF ListEndpointFiles
<1>7. ASSUME ScanFails PROVE TypeOK'
      BY <1>7 DEF ScanFails
<1>8. ASSUME NEW f \in File, ReadEndpoint(f) PROVE TypeOK'
      BY <1>8 DEF ReadEndpoint
<1>9. ASSUME Install PROVE TypeOK'
  <2>1. routes' \in [Key -> Entry \cup {None}] /\ middlewares' \in [Key -> Entry \cup {None}]
        BY <1>9, LoadedType, GraftType DEF Install, Table
  <2>2. cursor' \in [Key -> [sig : Sig, calls : 1..MaxCalls] \cup {None}]
        /\ memory' \in [Key -> 0..MaxCalls]
        BY <1>9 DEF Install, DropScenarios
  <2>3. stream' \in [Conn -> [key : Key, sig : Sig] \cup {None}]
        BY <1>9 DEF Install
  <2>4. QED
        BY <1>9, <2>1, <2>2, <2>3 DEF Install
<1>10. ASSUME RecordAttempt PROVE TypeOK'
  <2>1. errors' \in [File -> {"none", "retained", "missing"}]
        BY <1>10 DEF RecordAttempt, ErrorsOf
  <2>2. QED
        BY <1>10, <2>1 DEF RecordAttempt
<1>11. ASSUME FinishRound PROVE TypeOK'
      BY <1>11 DEF FinishRound, TakeQueue, Unread
<1>12. ASSUME NEW k \in Key, ServeSequence(k) PROVE TypeOK'
  <2>1. Scenario(routes, k) \in Sig
        BY <1>12, SigType DEF ServeSequence, Scenario, Table
  <2>2. \A n \in 1..MaxCalls : Cap(n) \in 1..MaxCalls
        BY DEF Cap
  <2>3. cursor[k] # None => cursor[k].calls \in 1..MaxCalls
        OBVIOUS
  <2>4. cursor' \in [Key -> [sig : Sig, calls : 1..MaxCalls] \cup {None}]
        BY <1>12, <2>1, <2>2, <2>3 DEF ServeSequence
  <2>5. QED
        BY <1>12, <2>4 DEF ServeSequence
<1>13. ASSUME NEW k \in Key, MatchHandler(k) PROVE TypeOK'
      BY <1>13 DEF MatchHandler
<1>14. ASSUME NEW k \in Key, EnterHandler(k) PROVE TypeOK'
  <2>1. Cap(memory[k]) \in 0..MaxCalls
        BY DEF Cap
  <2>2. QED
        BY <1>14, <2>1 DEF EnterHandler
<1>15. ASSUME NEW k \in Key, AbandonHandler(k) PROVE TypeOK'
      BY <1>15 DEF AbandonHandler
<1>16. ASSUME NEW k \in Key, InvalidateScenario(k) PROVE TypeOK'
      BY <1>16 DEF InvalidateScenario, DropScenarios
<1>17. ASSUME NEW c \in Conn, NEW k \in Key, OpenStream(c, k) PROVE TypeOK'
  <2>1. StreamSig(routes, k) \in Sig
        BY <1>17, SigType DEF OpenStream, StreamSig, Table
  <2>2. QED
        BY <1>17, <2>1 DEF OpenStream
<1>18. ASSUME NEW c \in Conn, CloseStream(c) PROVE TypeOK'
      BY <1>18 DEF CloseStream
<1>19. CASE UNCHANGED vars
      BY <1>19 DEF vars
<1>20. QED
      BY <1>1, <1>2, <1>3, <1>4, <1>5, <1>6, <1>7, <1>8, <1>9, <1>10, <1>11, <1>12,
         <1>13, <1>14, <1>15, <1>16, <1>17, <1>18, <1>19
      DEF Next, CallerStep, RoundStep, RequestStep

\* The state of the reload keeps its types, for any workspace and any callers.
THEOREM ReloadTypeCorrect == Spec => []TypeOK
<1>1. Init => TypeOK
      BY TypeInit
<1>2. TypeOK /\ [Next]_vars => TypeOK'
      BY TypeNext
<1>3. QED
      BY <1>1, <1>2, PTL DEF Spec

-------------------------------------------------------------------------------
(* The tables after an installation.                                       *)

\* An entry of a new table was either loaded from a file without errors, or
\* grafted from the previous table for a file in error.
LEMMA NewEntry ==
  ASSUME NEW s \in [File -> Content], NEW p, NEW kinds, NEW k \in Key, NEW e,
         e = Graft(Loaded(s, kinds), p, LoadErrors(s))[k], e # None
  PROVE  \/ /\ e.file \in File /\ Serves(s, e.file, k)
            /\ s[e.file].serve.kind \in kinds
            /\ e.file \notin LoadErrors(s)
            /\ e.def = s[e.file].serve
         \/ e = p[k] /\ p[k] # None /\ e.file \in LoadErrors(s)
<1>1. CASE Loaded(s, kinds)[k] # None
  <2>1. e = Loaded(s, kinds)[k]
        BY <1>1, GraftEntry
  <2> DEFINE l == Loaded(s, kinds)[k]
  <2>2. \E f \in File : EntryOf(s, kinds, k, f, l)
        BY <1>1, LoadedEntry
  <2>3. PICK f \in File : EntryOf(s, kinds, k, f, l)
        BY <2>2
  <2>4. f \notin LoadErrors(s)
        BY <2>3 DEF EntryOf, LoadErrors, Serves, Owns, Parsed
  <2>5. QED
        BY <2>1, <2>3, <2>4 DEF EntryOf
<1>2. CASE Loaded(s, kinds)[k] = None
      BY <1>2, GraftEntry
<1>3. QED
      BY <1>1, <1>2

\* A file without errors that serves a key is installed on it.
LEMMA ServedIsInstalled ==
  ASSUME NEW s, NEW p, NEW kinds, NEW f \in File, NEW k \in Key,
         Serves(s, f, k), s[f].serve.kind \in kinds
  PROVE  Graft(Loaded(s, kinds), p, LoadErrors(s))[k] = [file |-> f, def |-> s[f].serve]
<1>1. Loaded(s, kinds)[k] = [file |-> f, def |-> s[f].serve]
      BY ServedIsLoaded
<1>2. [file |-> f, def |-> s[f].serve] \in Entry
      BY DEF Serves, Entry
<1>3. Loaded(s, kinds)[k] # None
      BY <1>1, <1>2 DEF Entry
<1>4. QED
      BY <1>1, <1>3, GraftEntry

\* Only an installation changes the registries.
LEMMA OnlyInstall == [Next]_vars => Install \/ UNCHANGED registries
BY DEF Next, CallerStep, RoundStep, RequestStep, vars, Edit, CommitWrite, CallReload,
       WatcherEvent, CallerContinues, ListEndpointFiles, ScanFails, ReadEndpoint,
       RecordAttempt, FinishRound, ServeSequence, MatchHandler, EnterHandler,
       AbandonHandler, InvalidateScenario, OpenStream, CloseStream

-------------------------------------------------------------------------------
(* One entry per file.                                                     *)

\* Two tables that disagree on no file keep disagreeing on none when what one
\* scan loads is grafted on them: loaded and grafted files are disjoint.
LEMMA OneEntryInstalled ==
  ASSUME TypeOK, OneEntryPerFile, Install
  PROVE  OneEntryPerFile'
<1> DEFINE r == Graft(Loaded(scanned, LocalKind), routes, LoadErrors(scanned))
           m == Graft(Loaded(scanned, {"middleware"}), middlewares, LoadErrors(scanned))
<1>1. scanned \in [File -> Content] /\ routes' = r /\ middlewares' = m
      BY DEF TypeOK, Install
<1> SUFFICES ASSUME NEW k1 \in Key, NEW k2 \in Key
             PROVE  /\ r[k1] # None /\ r[k2] # None /\ r[k1].file = r[k2].file
                         => k1 = k2
                    /\ m[k1] # None /\ m[k2] # None /\ m[k1].file = m[k2].file
                         => k1 = k2
                    /\ r[k1] # None /\ m[k2] # None => r[k1].file # m[k2].file
    BY <1>1 DEF OneEntryPerFile
<1> DEFINE Fresh(e, k, kinds) == /\ Serves(scanned, e.file, k)
                                 /\ scanned[e.file].serve.kind \in kinds
                                 /\ e.file \notin LoadErrors(scanned)
           Kept(e, p, k) == e = p[k] /\ p[k] # None /\ e.file \in LoadErrors(scanned)
<1>2. \A k \in Key : r[k] # None => Fresh(r[k], k, LocalKind) \/ Kept(r[k], routes, k)
      BY <1>1, NewEntry
<1>3. \A k \in Key : m[k] # None => Fresh(m[k], k, {"middleware"}) \/ Kept(m[k], middlewares, k)
      BY <1>1, NewEntry
<1>4. \A f \in File : Serves(scanned, f, k1) /\ Serves(scanned, f, k2) => k1 = k2
      BY DEF Serves
<1>5. "middleware" \notin LocalKind
      BY DEF LocalKind
<1> HIDE DEF r, m
<1>6. ASSUME r[k1] # None, r[k2] # None, r[k1].file = r[k2].file PROVE k1 = k2
  <2>1. CASE Kept(r[k1], routes, k1) /\ Kept(r[k2], routes, k2)
        BY <1>6, <2>1 DEF OneEntryPerFile
  <2>2. CASE Fresh(r[k1], k1, LocalKind) /\ Fresh(r[k2], k2, LocalKind)
        BY <1>6, <2>2 DEF Serves
  <2>3. QED
        BY <1>2, <1>6, <2>1, <2>2
<1>7. ASSUME m[k1] # None, m[k2] # None, m[k1].file = m[k2].file PROVE k1 = k2
  <2>1. CASE Kept(m[k1], middlewares, k1) /\ Kept(m[k2], middlewares, k2)
        BY <1>7, <2>1 DEF OneEntryPerFile
  <2>2. CASE Fresh(m[k1], k1, {"middleware"}) /\ Fresh(m[k2], k2, {"middleware"})
        BY <1>7, <2>2 DEF Serves
  <2>3. QED
        BY <1>3, <1>7, <2>1, <2>2
<1>8. ASSUME r[k1] # None, m[k2] # None, r[k1].file = m[k2].file PROVE FALSE
  <2>1. CASE Kept(r[k1], routes, k1) /\ Kept(m[k2], middlewares, k2)
        BY <1>8, <2>1 DEF OneEntryPerFile
  <2>2. CASE Fresh(r[k1], k1, LocalKind) /\ Fresh(m[k2], k2, {"middleware"})
        BY <1>5, <1>8, <2>2
  <2>3. QED
        BY <1>2, <1>3, <1>8, <2>1, <2>2
<1>9. QED
      BY <1>6, <1>7, <1>8

\* The first scan installs each file at most once.
LEMMA OneEntryInit == Init => OneEntryPerFile
<1> SUFFICES ASSUME Init PROVE OneEntryPerFile
    OBVIOUS
<1>1. \A k \in Key : routes[k] # None =>
        routes[k].file \in File /\ Serves(disk, routes[k].file, k)
        /\ disk[routes[k].file].serve.kind \in LocalKind
  <2> SUFFICES ASSUME NEW k \in Key, routes[k] # None
               PROVE  routes[k].file \in File /\ Serves(disk, routes[k].file, k)
                      /\ disk[routes[k].file].serve.kind \in LocalKind
      OBVIOUS
  <2>1. \E f \in File : EntryOf(disk, LocalKind, k, f, routes[k])
        BY LoadedEntry DEF Init
  <2>2. QED
        BY <2>1 DEF EntryOf
<1>2. \A k \in Key : middlewares[k] # None =>
        middlewares[k].file \in File /\ Serves(disk, middlewares[k].file, k)
        /\ disk[middlewares[k].file].serve.kind \in {"middleware"}
  <2> SUFFICES ASSUME NEW k \in Key, middlewares[k] # None
               PROVE  middlewares[k].file \in File /\ Serves(disk, middlewares[k].file, k)
                      /\ disk[middlewares[k].file].serve.kind \in {"middleware"}
      OBVIOUS
  <2>1. \E f \in File : EntryOf(disk, {"middleware"}, k, f, middlewares[k])
        BY LoadedEntry DEF Init
  <2>2. QED
        BY <2>1 DEF EntryOf
<1>3. QED
      BY <1>1, <1>2 DEF OneEntryPerFile, Serves, LocalKind

\* Grafting never gives a file a second entry.
THEOREM OneEntryHolds == Spec => []OneEntryPerFile
<1>1. TypeOK /\ OneEntryPerFile /\ [Next]_vars => OneEntryPerFile'
  <2> SUFFICES ASSUME TypeOK, OneEntryPerFile, [Next]_vars PROVE OneEntryPerFile'
      OBVIOUS
  <2>1. CASE Install
        BY <2>1, OneEntryInstalled
  <2>2. CASE UNCHANGED registries
        BY <2>2 DEF OneEntryPerFile
  <2>3. QED
        BY <2>1, <2>2, OnlyInstall
<1>2. QED
      BY <1>1, OneEntryInit, ReloadTypeCorrect, PTL DEF Spec

-------------------------------------------------------------------------------
(* Runtime state and registries.                                           *)

RuntimeInv == CursorOfInstalled /\ StreamOfInstalled

\* What an installation keeps is what it did not change; a request counts and a
\* connection plays what is installed when it starts.
LEMMA RuntimeNext == TypeOK /\ RuntimeInv /\ [Next]_vars => RuntimeInv'
<1> SUFFICES ASSUME TypeOK, RuntimeInv, [Next]_vars PROVE RuntimeInv'
    OBVIOUS
<1> USE DEF RuntimeInv, CursorOfInstalled, StreamOfInstalled
<1>1. ASSUME Install PROVE RuntimeInv'
  <2>1. CursorOfInstalled'
        BY <1>1 DEF Install, DropScenarios, ChangedScenarios, Scenario, TypeOK
  <2>2. \A c \in Conn : stream'[c] # None =>
             /\ c \notin StreamsToClose(routes')
             /\ stream'[c] = stream[c]
        BY <1>1 DEF Install, TypeOK
  <2>3. StreamOfInstalled'
        BY <2>2 DEF StreamsToClose, StreamSig, TypeOK
  <2>4. QED
        BY <2>1, <2>3
<1>2. ASSUME NEW k \in Key, ServeSequence(k) PROVE RuntimeInv'
      BY <1>2 DEF ServeSequence, Scenario, StreamSig, TypeOK
<1>3. ASSUME NEW k \in Key, InvalidateScenario(k) PROVE RuntimeInv'
      BY <1>3 DEF InvalidateScenario, DropScenarios, Scenario, StreamSig, TypeOK
<1>4. ASSUME NEW c \in Conn, NEW k \in Key, OpenStream(c, k) PROVE RuntimeInv'
  <2>1. stream'[c] = [key |-> k, sig |-> StreamSig(routes, k)]
        BY <1>4 DEF OpenStream, TypeOK
  <2>2. \A d \in Conn \ {c} : stream'[d] = stream[d]
        BY <1>4 DEF OpenStream, TypeOK
  <2>3. routes' = routes /\ cursor' = cursor
        BY <1>4 DEF OpenStream
  <2>4. QED
        BY <2>1, <2>2, <2>3 DEF Scenario, StreamSig
<1>5. ASSUME NEW c \in Conn, CloseStream(c) PROVE RuntimeInv'
      BY <1>5 DEF CloseStream, Scenario, StreamSig, TypeOK
<1>6. CASE UNCHANGED <<routes, cursor, stream>>
      BY <1>6 DEF Scenario, StreamSig
<1>7. QED
      BY <1>1, <1>2, <1>3, <1>4, <1>5, <1>6
      DEF Next, CallerStep, RoundStep, RequestStep, vars, Edit, CommitWrite, CallReload,
          WatcherEvent, CallerContinues, ListEndpointFiles, ScanFails, ReadEndpoint,
          RecordAttempt, FinishRound, MatchHandler, EnterHandler, AbandonHandler

\* The cursors and the connections are those of the installed definitions.
LEMMA RuntimeHolds == Spec => []RuntimeInv
<1>1. Init => RuntimeInv
      BY DEF Init, RuntimeInv, CursorOfInstalled, StreamOfInstalled
<1>2. QED
      BY <1>1, RuntimeNext, ReloadTypeCorrect, PTL DEF Spec

\* No cursor outlives the scenario it counts, and no connection plays a stream
\* that is no longer the installed one.
THEOREM InstalledHolds == Spec => []RuntimeOfInstalled
<1>1. RuntimeInv => RuntimeOfInstalled
      BY DEF RuntimeInv, RuntimeOfInstalled
<1>2. QED
      BY <1>1, RuntimeHolds, PTL

\* An installation drops the state of what it changes, and no other state.
THEOREM UntouchedHolds == Spec => UntouchedUndisturbed
<1> DEFINE Kept ==
      phase = "reading" /\ phase' = "installed" =>
       /\ \A k \in Key : Scenario(routes', k) = Scenario(routes, k)
                          => cursor'[k] = cursor[k] /\ memory'[k] = memory[k]
       /\ \A c \in Conn :
            stream[c] # None /\ StreamSig(routes', stream[c].key) = stream[c].sig
              => stream'[c] = stream[c]
<1>1. TypeOK /\ RuntimeInv /\ [Next]_vars => [Kept]_vars
  <2> SUFFICES ASSUME TypeOK, RuntimeInv, Next, phase = "reading", phase' = "installed"
               PROVE  Kept
      BY DEF vars
  <2>1. Install
        BY DEF Next, CallerStep, RoundStep, RequestStep, Edit, CommitWrite, CallReload,
               Enqueue, WatcherEvent, CallerContinues, ListEndpointFiles, ScanFails,
               ReadEndpoint, RecordAttempt, FinishRound, TakeQueue, ServeSequence,
               MatchHandler, EnterHandler, AbandonHandler, InvalidateScenario,
               OpenStream, CloseStream
  <2>2. \A k \in Key : Scenario(routes', k) = Scenario(routes, k)
                          => cursor'[k] = cursor[k] /\ memory'[k] = memory[k]
        BY <2>1 DEF Install, DropScenarios, ChangedScenarios
  <2>3. \A c \in Conn :
            stream[c] # None /\ StreamSig(routes', stream[c].key) = stream[c].sig
              => stream'[c] = stream[c]
    <3> SUFFICES ASSUME NEW c \in Conn, stream[c] # None,
                        StreamSig(routes', stream[c].key) = stream[c].sig,
                        c \in StreamsToClose(routes')
                 PROVE  FALSE
        BY <2>1 DEF Install
    <3>1. StreamSig(routes, stream[c].key) = None
          BY DEF StreamsToClose, RuntimeInv, StreamOfInstalled
    <3>2. stream[c].sig = None
          BY <3>1 DEF RuntimeInv, StreamOfInstalled
    <3>3. stream[c].sig \in Sig
          BY DEF TypeOK
    <3>4. QED
          BY <3>2, <3>3 DEF Sig
  <2>4. QED
        BY <2>2, <2>3
<1>2. QED
      BY <1>1, RuntimeHolds, ReloadTypeCorrect, PTL DEF Spec, UntouchedUndisturbed

-------------------------------------------------------------------------------
(* Status.                                                                 *)

\* The published status of a file in error is the truth about the registries.
THEOREM StatusHolds == Spec => []StatusTruthful
<1>1. Init => StatusTruthful
      BY DEF Init, StatusTruthful, ErrorsOf, Installed
<1>2. TypeOK /\ StatusTruthful /\ [Next]_vars => StatusTruthful'
  <2> SUFFICES ASSUME TypeOK, StatusTruthful, [Next]_vars PROVE StatusTruthful'
      OBVIOUS
  <2>1. CASE Install
        BY <2>1 DEF Install, StatusTruthful
  <2>2. CASE RecordAttempt
        BY <2>2 DEF RecordAttempt, StatusTruthful, ErrorsOf, Installed, TypeOK
  <2>3. CASE ScanFails \/ FinishRound \/ ListEndpointFiles
             \/ (\E f \in File : ReadEndpoint(f))
        BY <2>3 DEF ScanFails, FinishRound, TakeQueue, ListEndpointFiles, ReadEndpoint,
                    StatusTruthful, Installed
  <2>4. CASE WatcherEvent \/ \E a \in Caller : CallReload(a)
        BY <2>4 DEF WatcherEvent, CallReload, Enqueue, StatusTruthful, Installed
  <2>5. CASE UNCHANGED <<phase, applied, registries, errors>>
        BY <2>5 DEF StatusTruthful, Installed
  <2>6. QED
        BY <2>1, <2>2, <2>3, <2>4, <2>5
        DEF Next, CallerStep, RoundStep, RequestStep, vars, Edit, CommitWrite,
            CallerContinues, ServeSequence, MatchHandler, EnterHandler,
            AbandonHandler, InvalidateScenario, OpenStream, CloseStream
<1>3. QED
      BY <1>1, <1>2, ReloadTypeCorrect, PTL DEF Spec

\* A route disappears only if its file was read without errors.
THEOREM ErrorsKeepServingHolds == Spec => ErrorsKeepServing
<1> DEFINE Keeps == \A k \in Key :
       Answer(k) # None /\ Answer(k)' = None => Answer(k).file \notin LoadErrors(scanned)
<1>1. [Next]_vars => [Keeps]_vars
  <2> SUFFICES ASSUME Next, NEW k \in Key, Answer(k) # None, Answer(k)' = None,
                      Answer(k).file \in LoadErrors(scanned)
               PROVE  FALSE
      BY DEF vars
  <2>1. CASE UNCHANGED registries
        BY <2>1 DEF Answer
  <2>2. CASE Install
    <3>1. routes'[k] = None /\ middlewares'[k] = None
          BY DEF Answer
    <3>2. \/ routes[k] # None /\ routes[k].file \in LoadErrors(scanned)
          \/ middlewares[k] # None /\ middlewares[k].file \in LoadErrors(scanned)
          BY DEF Answer
    <3>3. QED
          BY <2>2, <3>1, <3>2, GraftEntry DEF Install
  <2>3. QED
        BY <2>1, <2>2, OnlyInstall
<1>2. QED
      BY <1>1, PTL DEF Spec, ErrorsKeepServing

-------------------------------------------------------------------------------
(* Answers to the callers.                                                 *)

\* What a caller expects is still on disk: whoever writes over it clears it.
ExpectsOnDisk ==
  \A a \in Caller : expects[a] # None => disk[expects[a].file] = expects[a].content

\* A caller waits in one queue at most, and only while it is waiting.
WaitsOnce ==
  \A a \in Caller : /\ a \in waiters \cup queuedWaiters => call[a] = "waiting"
                    /\ ~(a \in waiters /\ a \in queuedWaiters)

\* Nothing is scanned between the rounds.
ScanEmpty == phase \in {"idle", "listing"} => listed = {} /\ scanned = Unread

\* The round of a waiter has read what the waiter expects, or will read it.
RoundReads ==
  phase = "reading" =>
    \A a \in Caller \cap waiters : expects[a] # None =>
      IF expects[a].file \in listed THEN expects[a].content # Absent
      ELSE scanned[expects[a].file] = expects[a].content

AnswerInv == ExpectsOnDisk /\ WaitsOnce /\ ScanEmpty /\ RoundReads /\ AnsweredWriteServed

\* Installing a scan makes every file it read without errors served exactly as
\* that file asks.
LEMMA InstallServes ==
  ASSUME TypeOK, Install, NEW f \in File, f \notin LoadErrors(scanned)
  PROVE  ServedBy(f)' = Asked(scanned[f])
<1> DEFINE r == Graft(Loaded(scanned, LocalKind), routes, LoadErrors(scanned))
           m == Graft(Loaded(scanned, {"middleware"}), middlewares, LoadErrors(scanned))
<1>1. scanned \in [File -> Content] /\ routes' = r /\ middlewares' = m
      BY DEF TypeOK, Install
<1>2. \A k \in Key : r[k] # None /\ r[k].file = f =>
        Serves(scanned, f, k) /\ r[k].def = scanned[f].serve
      BY <1>1, NewEntry
<1>3. \A k \in Key : m[k] # None /\ m[k].file = f =>
        Serves(scanned, f, k) /\ m[k].def = scanned[f].serve
      BY <1>1, NewEntry
<1>4. \A k \in Key : Serves(scanned, f, k) =>
        [file |-> f, def |-> scanned[f].serve] \in {r[k], m[k]}
  <2> SUFFICES ASSUME NEW k \in Key, Serves(scanned, f, k)
               PROVE  [file |-> f, def |-> scanned[f].serve] \in {r[k], m[k]}
      OBVIOUS
  <2>1. scanned[f].serve.kind \in LocalKind \/ scanned[f].serve.kind \in {"middleware"}
        BY DEF Serves, LocalKind
  <2>2. QED
        BY <2>1, ServedIsInstalled
<1>5. Serves(scanned, f, scanned[f].key)
        <=> Parsed(scanned[f]) /\ scanned[f].serve \in Def
      BY DEF LoadErrors, Serves, Owns
<1>6. \A k \in Key : Serves(scanned, f, k) =>
        k = scanned[f].key /\ scanned[f].serve \in Def
      BY DEF Serves
<1>7. Parsed(scanned[f]) => scanned[f].key \in Key
      BY <1>1 DEF Parsed, Endpoint
<1> HIDE DEF r, m
<1>8. \A k \in Key, d \in Def :
        [file |-> f, def |-> d] \in {r[k], m[k]} <=>
          Serves(scanned, f, k) /\ d = scanned[f].serve
  <2> SUFFICES ASSUME NEW k \in Key, NEW d \in Def
               PROVE  [file |-> f, def |-> d] \in {r[k], m[k]} <=>
                        Serves(scanned, f, k) /\ d = scanned[f].serve
      OBVIOUS
  <2> DEFINE e == [file |-> f, def |-> d]
  <2>1. e # None /\ e.file = f /\ e.def = d
        OBVIOUS
  <2>2. e \in {r[k], m[k]} => Serves(scanned, f, k) /\ d = scanned[f].serve
        BY <1>2, <1>3, <2>1
  <2>3. QED
        BY <1>4, <2>2
<1>9. \A kd \in Key \X Def :
        [file |-> f, def |-> kd[2]] \in {r[kd[1]], m[kd[1]]} <=>
          Parsed(scanned[f]) /\ scanned[f].serve \in Def
            /\ kd[1] = scanned[f].key /\ kd[2] = scanned[f].serve
      BY <1>5, <1>6, <1>8
<1>10. ServedBy(f)' = {kd \in Key \X Def :
          Parsed(scanned[f]) /\ scanned[f].serve \in Def
            /\ kd[1] = scanned[f].key /\ kd[2] = scanned[f].serve}
      BY <1>1, <1>9 DEF ServedBy, r, m
<1>11. CASE Parsed(scanned[f]) /\ scanned[f].serve \in Def
      BY <1>7, <1>10, <1>11 DEF Asked
<1>12. CASE ~(Parsed(scanned[f]) /\ scanned[f].serve \in Def)
      BY <1>10, <1>12 DEF Asked
<1>13. QED
      BY <1>11, <1>12

\* The promise survives a step that leaves the scan and the registries alone
\* and at most forgets what a waiter expects.
LEMMA AnswerFrame ==
  ASSUME AnsweredWriteServed,
         UNCHANGED <<waiters, phase, scanned, applied, routes, middlewares>>,
         \A a \in Caller \cap waiters : expects'[a] # None => expects'[a] = expects[a]
  PROVE  AnsweredWriteServed'
BY SMTT(60) DEF AnsweredWriteServed, LoadErrors, Owns, ServedBy

\* Each step keeps the promise made to the callers.
LEMMA AnswerNext == TypeOK /\ AnswerInv /\ [Next]_vars => AnswerInv'
<1> SUFFICES ASSUME TypeOK, AnswerInv, [Next]_vars PROVE AnswerInv'
    OBVIOUS
<1> USE DEF AnswerInv
<1>1. ASSUME NEW f \in File, NEW c \in Content, Edit(f, c) PROVE AnswerInv'
  <2>1. \A a \in Caller : expects'[a] # None =>
             expects'[a] = expects[a] /\ expects[a].file # f
        BY <1>1 DEF Edit, Overwritten
  <2>2. \A g \in File \ {f} : disk'[g] = disk[g]
        BY <1>1 DEF Edit, TypeOK
  <2>3. \A a \in Caller : expects[a] # None => expects[a].file \in File
        BY DEF TypeOK
  <2>4. ExpectsOnDisk'
        BY ZenonT(30), <2>1, <2>2, <2>3 DEF ExpectsOnDisk
  <2>5. WaitsOnce' /\ ScanEmpty'
        BY <1>1 DEF Edit, WaitsOnce, ScanEmpty, Unread
  <2>6. RoundReads'
        BY <1>1, <2>1 DEF Edit, RoundReads
  <2>7. AnsweredWriteServed'
        BY <1>1, <2>1, AnswerFrame DEF Edit
  <2>8. QED
        BY <2>4, <2>5, <2>6, <2>7
<1>2. ASSUME NEW b \in Caller, NEW f \in File, NEW c \in Content, CommitWrite(b, f, c)
      PROVE AnswerInv'
  <2>1. \A a \in Caller \ {b} : expects'[a] # None =>
             expects'[a] = expects[a] /\ expects[a].file # f
        BY <1>2 DEF CommitWrite, Overwritten
  <2>2. expects'[b] = [file |-> f, content |-> c]
        BY <1>2 DEF CommitWrite, Overwritten
  <2>3. disk'[f] = c /\ \A g \in File \ {f} : disk'[g] = disk[g]
        BY <1>2 DEF CommitWrite, TypeOK
  <2>4. \A a \in Caller : expects[a] # None => expects[a].file \in File
        BY DEF TypeOK
  <2>5. b \notin waiters \cup queuedWaiters
        BY <1>2 DEF CommitWrite, WaitsOnce
  <2>6. ExpectsOnDisk'
    <3> SUFFICES ASSUME NEW a \in Caller, expects'[a] # None
                 PROVE  disk'[expects'[a].file] = expects'[a].content
        BY DEF ExpectsOnDisk
    <3>1. CASE a = b
          BY <2>2, <2>3, <3>1
    <3>2. CASE a # b
          BY <2>1, <2>3, <2>4, <3>2 DEF ExpectsOnDisk
    <3>3. QED
          BY <3>1, <3>2
  <2>7. WaitsOnce' /\ ScanEmpty'
        BY <1>2, <2>5 DEF CommitWrite, WaitsOnce, ScanEmpty, Unread, TypeOK
  <2>8. RoundReads'
        BY <1>2, <2>1, <2>5 DEF CommitWrite, RoundReads
  <2>9. AnsweredWriteServed'
        BY <1>2, <2>1, <2>5, AnswerFrame DEF CommitWrite
  <2>10. QED
        BY <2>6, <2>7, <2>8, <2>9
<1>3. ASSUME NEW b \in Caller, CallReload(b) PROVE AnswerInv'
  <2>1. b \notin waiters \cup queuedWaiters
        BY <1>3 DEF CallReload, WaitsOnce
  <2>2. ExpectsOnDisk'
        BY <1>3 DEF CallReload, ExpectsOnDisk
  <2>3. WaitsOnce'
        BY <1>3, <2>1 DEF CallReload, Enqueue, WaitsOnce, TypeOK
  <2>4. ScanEmpty' /\ RoundReads' /\ AnsweredWriteServed'
        BY <1>3 DEF CallReload, Enqueue, ScanEmpty, Unread, RoundReads,
                    AnsweredWriteServed, LoadErrors, Owns, ServedBy
  <2>5. QED
        BY <2>2, <2>3, <2>4
<1>4. ASSUME WatcherEvent PROVE AnswerInv'
  <2>1. ExpectsOnDisk' /\ WaitsOnce'
        BY <1>4 DEF WatcherEvent, Enqueue, ExpectsOnDisk, WaitsOnce
  <2>2. ScanEmpty' /\ RoundReads' /\ AnsweredWriteServed'
        BY <1>4 DEF WatcherEvent, Enqueue, ScanEmpty, Unread, RoundReads,
                    AnsweredWriteServed, LoadErrors, Owns, ServedBy
  <2>3. QED
        BY <2>1, <2>2
<1>5. ASSUME NEW b \in Caller, CallerContinues(b) PROVE AnswerInv'
  <2>1. b \notin waiters \cup queuedWaiters
        BY <1>5 DEF CallerContinues, WaitsOnce
  <2>2. \A a \in Caller : expects'[a] # None => expects'[a] = expects[a]
        BY <1>5 DEF CallerContinues, TypeOK
  <2>3. ExpectsOnDisk' /\ RoundReads'
        BY <1>5, <2>2 DEF CallerContinues, ExpectsOnDisk, RoundReads
  <2>4. WaitsOnce' /\ ScanEmpty'
        BY <1>5, <2>1 DEF CallerContinues, WaitsOnce, ScanEmpty, Unread, TypeOK
  <2>5. AnsweredWriteServed'
        BY <1>5, <2>2, AnswerFrame DEF CallerContinues
  <2>6. QED
        BY <2>3, <2>4, <2>5
<1>6. ASSUME ListEndpointFiles PROVE AnswerInv'
  <2>1. ExpectsOnDisk' /\ WaitsOnce' /\ ScanEmpty' /\ AnsweredWriteServed'
        BY <1>6 DEF ListEndpointFiles, ExpectsOnDisk, WaitsOnce, ScanEmpty,
                    AnsweredWriteServed
  <2>2. RoundReads'
    <3> SUFFICES ASSUME NEW a \in Caller, expects[a] # None
                 PROVE  LET f == expects[a].file
                            c == expects[a].content
                        IN  IF f \in listed' THEN c # Absent ELSE scanned[f] = c
        BY <1>6 DEF ListEndpointFiles, RoundReads
    <3>1. expects[a].file \in File /\ disk[expects[a].file] = expects[a].content
          BY DEF TypeOK, ExpectsOnDisk
    <3>2. scanned[expects[a].file] = Absent
          BY <1>6, <3>1 DEF ListEndpointFiles, ScanEmpty, Unread
    <3>3. QED
          BY <1>6, <3>1, <3>2 DEF ListEndpointFiles
  <2>3. QED
        BY <2>1, <2>2
<1>7. ASSUME ScanFails PROVE AnswerInv'
      BY <1>7 DEF ScanFails, ExpectsOnDisk, WaitsOnce, ScanEmpty, RoundReads,
                  AnsweredWriteServed
<1>8. ASSUME NEW f \in File, ReadEndpoint(f) PROVE AnswerInv'
  <2>1. ExpectsOnDisk' /\ WaitsOnce' /\ ScanEmpty' /\ AnsweredWriteServed'
        BY <1>8 DEF ReadEndpoint, ExpectsOnDisk, WaitsOnce, ScanEmpty,
                    AnsweredWriteServed
  <2>2. RoundReads'
        BY <1>8 DEF ReadEndpoint, RoundReads, ExpectsOnDisk, TypeOK
  <2>3. QED
        BY <2>1, <2>2
<1>9. ASSUME Install PROVE AnswerInv'
  <2>1. ExpectsOnDisk' /\ WaitsOnce' /\ ScanEmpty' /\ RoundReads'
        BY <1>9 DEF Install, ExpectsOnDisk, WaitsOnce, ScanEmpty, RoundReads
  <2>2. ASSUME NEW a \in Caller \cap waiters, expects[a] # None
        PROVE  \E f \in File :
                 /\ f = expects[a].file
                 /\ scanned[f] = expects[a].content
                 /\ f \in LoadErrors(scanned) \/ ServedBy(f)' = Asked(expects[a].content)
    <3>1. PICK f \in File : f = expects[a].file
          BY <2>2 DEF TypeOK
    <3>2. scanned[f] = expects[a].content
          BY <1>9, <2>2, <3>1 DEF Install, RoundReads
    <3>3. f \in LoadErrors(scanned) \/ ServedBy(f)' = Asked(scanned[f])
          BY <1>9, InstallServes
    <3>4. QED
          BY <3>1, <3>2, <3>3
  <2>3. waiters' = waiters /\ expects' = expects /\ scanned' = scanned
        BY <1>9 DEF Install
  <2>4. LoadErrors(scanned)' = LoadErrors(scanned)
        BY <2>3 DEF LoadErrors, Owns
  <2>5. AnsweredWriteServed'
        BY <2>2, <2>3, <2>4 DEF AnsweredWriteServed
  <2>6. QED
        BY <2>1, <2>5
<1>10. ASSUME RecordAttempt PROVE AnswerInv'
      BY <1>10 DEF RecordAttempt, ExpectsOnDisk, WaitsOnce, ScanEmpty, RoundReads,
                   AnsweredWriteServed, LoadErrors, Owns, ServedBy
<1>11. ASSUME FinishRound PROVE AnswerInv'
  <2>1. ExpectsOnDisk'
        BY <1>11 DEF FinishRound, ExpectsOnDisk
  <2>2. WaitsOnce' /\ ScanEmpty'
        BY <1>11 DEF FinishRound, TakeQueue, WaitsOnce, ScanEmpty, Unread, TypeOK
  <2>3. RoundReads' /\ AnsweredWriteServed'
        BY <1>11 DEF FinishRound, TakeQueue, RoundReads, AnsweredWriteServed
  <2>4. QED
        BY <2>1, <2>2, <2>3
<1>12. CASE UNCHANGED <<diskVars, callVars, queuedWaiters, waiters, phase, scanVars,
                        applied, registries>>
      BY <1>12 DEF ExpectsOnDisk, WaitsOnce, ScanEmpty, Unread, RoundReads,
                   AnsweredWriteServed, LoadErrors, Owns, ServedBy
<1>13. QED
      BY <1>1, <1>2, <1>3, <1>4, <1>5, <1>6, <1>7, <1>8, <1>9, <1>10, <1>11, <1>12
      DEF Next, CallerStep, RoundStep, RequestStep, vars, ServeSequence, MatchHandler,
          EnterHandler, AbandonHandler, InvalidateScenario, OpenStream, CloseStream

\* A caller is answered by a round that read what it wrote, and its file is
\* either reported as an error or served exactly as it asks.
THEOREM AnswersHold == Spec => []AnsweredWriteServed
<1>1. Init => AnswerInv
      BY DEF Init, AnswerInv, ExpectsOnDisk, WaitsOnce, ScanEmpty, RoundReads,
             AnsweredWriteServed
<1>2. AnswerInv => AnsweredWriteServed
      BY DEF AnswerInv
<1>3. QED
      BY <1>1, <1>2, AnswerNext, ReloadTypeCorrect, PTL DEF Spec

\* The registries hold each file once, the published errors tell the truth about them and
\* what runs belongs to what they hold (RegistriesTruthful), from the three invariants.
THEOREM RegistriesHold == Spec => []RegistriesTruthful
BY OneEntryHolds, StatusHolds, InstalledHolds, PTL DEF RegistriesTruthful

\* An installation disturbs only its own (InstallDisturbsOnlyItsOwn).
THEOREM InstallHolds == Spec => InstallDisturbsOnlyItsOwn
BY ErrorsKeepServingHolds, UntouchedHolds, PTL DEF InstallDisturbsOnlyItsOwn
===============================================================================

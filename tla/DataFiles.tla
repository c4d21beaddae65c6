-------------------------------- MODULE DataFiles --------------------------------
(***************************************************************************)
(* The data files that handlers read with data(name), and the operations   *)
(* of the admin API on them (src/src/admin/admin-data-files.js), above all *)
(* the rename that also rewrites the references to the file: a rewritten   *)
(* source, a moved file and a reload are one mutation, rolled back         *)
(* together when any part of it fails.                                     *)
(*                                                                         *)
(* A source is the script of a handler or middleware: the names it refers  *)
(* to as literals, and whether it loads.  Admin mutations take turns;      *)
(* other programs, and the watcher's reloads, come in between.  The        *)
(* restores of a rollback, which AdminTransaction takes apart, are one     *)
(* step here.                                                              *)
(***************************************************************************)
EXTENDS Naturals

CONSTANTS DataName, DataContent, Source,
          SourceRefs,   \* what the sources may refer to at first: [Source -> SUBSET DataName]
          NoFile, NotServed,
          MaxRenames, MaxDataEdits   \* bounds of the checked instance

ASSUME DataAssumption ==
  /\ NoFile \notin DataContent /\ \A S \in SUBSET DataName : NotServed # S
  /\ SourceRefs \subseteq [Source -> SUBSET DataName] /\ MaxDataEdits \in Nat /\ MaxRenames \in Nat

VARIABLES
  dataFile,   \* name -> content, or NoFile
  source,     \* source -> [refs, sound]
  endpointIs, \* its endpoint file: "on", "off" or "bad" (not readable)
  loaded,     \* the references of the module that is served, or NotServed
  turn,       \* the rename with references under way, or the one that just ended
  touched,    \* another program wrote during the turn
  done        \* [renames, edits]: how many so far

dataVars == <<dataFile, source, endpointIs, loaded, turn, touched, done>>

NoTurn == [at |-> "none"]
Between == turn.at \in {"none", "renamed", "restored", "unrestored"}

-------------------------------------------------------------------------------
\* rewriteDataReferences.
RewrittenSource(s, from, to) == [s EXCEPT !.refs = (@ \ {from}) \cup {to}]

\* Mutant: a source is looked for through the endpoints that are enabled.
Referencing_Enabled(name) == {x \in Source : endpointIs[x] = "on" /\ name \in source[x].refs}

\* collectReferencingSources: the source of an endpoint that cannot be read is skipped.
Referencing(name) == {x \in Source : endpointIs[x] # "bad" /\ name \in source[x].refs}

\* A reload: what does not load keeps the version installed before, and is reported.
Errors == {x \in Source : endpointIs[x] = "bad" \/ (endpointIs[x] = "on" /\ ~source[x].sound)}
Installed(x, before) ==
  IF x \in Errors THEN before ELSE IF endpointIs[x] = "on" THEN source[x].refs ELSE NotServed
ReloadScripts == loaded' = [x \in Source |-> Installed(x, loaded[x])]

\* validateReloadedEndpoints: the rewritten endpoints load, and are served if enabled.
RenameAccepted(plan) ==
  /\ plan \cap Errors = {}
  /\ \A x \in plan : endpointIs[x] = "on" => Installed(x, loaded[x]) # NotServed

\* findUnrestoredDefinition.
BackAsServed(plan, before) ==
  \A x \in plan :
    /\ (Installed(x, loaded[x]) = NotServed) = (before[x] = NotServed)
    /\ x \in Errors => Installed(x, loaded[x]) = before[x]

-------------------------------------------------------------------------------
\* Each source is served from its source, or its source or endpoint no longer loads.
InitData ==
  /\ dataFile \in [DataName -> DataContent \cup {NoFile}]
  /\ \E refs \in SourceRefs, sound \in [Source -> BOOLEAN] :
       source = [x \in Source |-> [refs |-> refs[x], sound |-> sound[x]]]
  /\ endpointIs \in [Source -> {"on", "off", "bad"}]
  /\ \E old \in {NotServed} \cup {{n} : n \in DataName} :
       loaded = [x \in Source |-> Installed(x, old)]
  /\ turn = NoTurn /\ touched = FALSE /\ done = [renames |-> 0, edits |-> 0]

\* putAdminDataFile and deleteAdminDataFile: a single write, nothing is reloaded.
DataWritten(n, c) ==
  /\ Between /\ dataFile[n] # c /\ done.edits < MaxDataEdits
  /\ dataFile' = [dataFile EXCEPT ![n] = c]
  /\ turn' = NoTurn /\ touched' = FALSE /\ done' = [done EXCEPT !.edits = @ + 1]
  /\ UNCHANGED <<source, endpointIs, loaded>>
PutData(n, c) == c # NoFile /\ DataWritten(n, c)
DeleteData(n) == DataWritten(n, NoFile)

FileMoved(from, to) == [dataFile EXCEPT ![to] = dataFile[from], ![from] = NoFile]

\* renameAdminDataFile: refused, or the sources are planned and everything is backed up.
\* With no source to rewrite, the file is moved and nothing is reloaded.
BeginRename(from, to, rewrite) ==
  LET plan == IF rewrite THEN Referencing(from) ELSE {} IN
  /\ Between /\ done.renames < MaxRenames
  /\ dataFile[from] # NoFile /\ dataFile[to] = NoFile
  /\ turn' = IF plan = {} THEN NoTurn
             ELSE [at |-> "writing", from |-> from, to |-> to, plan |-> plan, todo |-> plan,
                   files |-> dataFile, sources |-> source, served |-> loaded,
                   endpoints |-> endpointIs]
  /\ dataFile' = IF plan = {} THEN FileMoved(from, to) ELSE dataFile
  /\ touched' = FALSE /\ done' = [done EXCEPT !.renames = @ + 1]
  /\ UNCHANGED <<source, endpointIs, loaded>>

\* commit(): one source after the other, as planned; then the file.
RewriteScript(x) ==
  /\ turn.at = "writing" /\ x \in turn.todo
  /\ source' = [source EXCEPT ![x] = RewrittenSource(turn.sources[x], turn.from, turn.to)]
  /\ turn' = [turn EXCEPT !.todo = @ \ {x}]
  /\ UNCHANGED <<dataFile, endpointIs, loaded, touched, done>>
MoveFile ==
  /\ turn.at = "writing" /\ turn.todo = {} /\ dataFile[turn.from] # NoFile
  /\ dataFile' = FileMoved(turn.from, turn.to)
  /\ turn' = [turn EXCEPT !.at = "moved"]
  /\ UNCHANGED <<source, endpointIs, loaded, touched, done>>
CommitRefused ==
  /\ turn.at = "writing" /\ turn' = [turn EXCEPT !.at = "failed"]
  /\ UNCHANGED <<dataFile, source, endpointIs, loaded, touched, done>>

\* The reload and its check; it may also fail as a whole.
ReloadMoved ==
  /\ turn.at = "moved"
  /\ \/ /\ ReloadScripts
        /\ turn' = [turn EXCEPT !.at = IF RenameAccepted(turn.plan) THEN "renamed" ELSE "failed"]
     \/ UNCHANGED loaded /\ turn' = [turn EXCEPT !.at = "failed"]
  /\ UNCHANGED <<dataFile, source, endpointIs, touched, done>>

\* Mutant: the place the file was moved to is not part of the backup.
Backups_NoTarget(t) == {t.from} \cup t.plan
\* readBackup: both names of the file, and the sources.
Backups(t) == {t.from, t.to} \cup t.plan

\* restoreBackup: of the backups, those of S are written.
RestoreBackup(S) ==
  /\ turn.at = "failed" /\ S \subseteq Backups(turn)
  /\ dataFile' = [n \in DataName |-> IF n \in S THEN turn.files[n] ELSE dataFile[n]]
  /\ source' = [x \in Source |-> IF x \in S THEN turn.sources[x] ELSE source[x]]
  /\ turn' = [turn EXCEPT !.at = IF S = Backups(turn) THEN "recovering" ELSE "unrestored"]
  /\ UNCHANGED <<endpointIs, loaded, touched, done>>
ReloadBack ==
  /\ turn.at = "recovering"
  /\ \/ /\ ReloadScripts
        /\ turn' = [turn EXCEPT !.at = IF BackAsServed(turn.plan, turn.served)
                                       THEN "restored" ELSE "unrestored"]
     \/ UNCHANGED loaded /\ turn' = [turn EXCEPT !.at = "unrestored"]
  /\ UNCHANGED <<dataFile, source, endpointIs, touched, done>>

\* Another program writes a source, an endpoint or a data file; the watcher reloads.
Edited ==
  /\ done.edits < MaxDataEdits /\ done' = [done EXCEPT !.edits = @ + 1]
  /\ IF Between THEN turn' = NoTurn /\ touched' = FALSE ELSE UNCHANGED turn /\ touched' = TRUE
  /\ UNCHANGED loaded
EditScript(x, refs, sound) ==
  /\ Edited /\ source' = [source EXCEPT ![x] = [refs |-> refs, sound |-> sound]]
  /\ UNCHANGED <<dataFile, endpointIs>>
EditEndpoint(x, is) ==
  /\ Edited /\ endpointIs' = [endpointIs EXCEPT ![x] = is] /\ UNCHANGED <<dataFile, source>>
EditData(n, c) ==
  /\ ~Between /\ Edited /\ dataFile' = [dataFile EXCEPT ![n] = c]
  /\ UNCHANGED <<source, endpointIs>>
WatcherReloads ==
  /\ ReloadScripts
  /\ IF Between THEN turn' = NoTurn /\ touched' = FALSE ELSE UNCHANGED <<turn, touched>>
  /\ UNCHANGED <<dataFile, source, endpointIs, done>>

DataStep ==
  \/ \E n \in DataName, c \in DataContent \cup {NoFile} : PutData(n, c) \/ EditData(n, c)
  \/ \E n \in DataName : DeleteData(n)
  \/ \E from, to \in DataName, rewrite \in BOOLEAN : BeginRename(from, to, rewrite)
  \/ \E x \in Source : RewriteScript(x)
  \/ MoveFile \/ CommitRefused \/ ReloadMoved \/ ReloadBack \/ WatcherReloads
  \/ \E S \in SUBSET (DataName \cup Source) : RestoreBackup(S)
  \/ \E x \in Source, refs \in SUBSET DataName, sound \in BOOLEAN : EditScript(x, refs, sound)
  \/ \E x \in Source, is \in {"on", "off", "bad"} : EditEndpoint(x, is)
DataSpec == InitData /\ [][DataStep]_dataVars

-------------------------------------------------------------------------------
\* The module in memory is that of the source on disk, of an endpoint that is enabled.
Current(x) == turn.endpoints[x] = "on" /\ turn.served[x] = turn.sources[x].refs
Found(refs, files) == \A n \in refs : files[n] # NoFile

\* A rename with references that is confirmed breaks nobody: the file is there under its
\* new name, no source of a readable endpoint has the old one, switched off or not, and
\* every module that was up to date and found its files finds them still.
RenamedWhole ==
  turn.at = "renamed" /\ ~touched =>
    /\ dataFile[turn.to] = turn.files[turn.from] /\ dataFile[turn.from] = NoFile
    /\ \A x \in Source : endpointIs[x] # "bad" => turn.from \notin source[x].refs
    /\ \A x \in Source :
         Current(x) /\ Found(turn.served[x], turn.files)
           => loaded[x] # NotServed /\ Found(loaded[x], dataFile)

\* One that is refused and reported as restored has left no trace: files and sources are
\* as they were, and what it was about to rewrite is served from them or by the module
\* it had.
RenameUndone ==
  turn.at = "restored" /\ ~touched =>
    /\ dataFile = turn.files /\ source = turn.sources
    /\ \A x \in turn.plan :
         loaded[x] = turn.served[x] \/ (x \notin Errors /\ loaded[x] = source[x].refs)

RenameAllOrNothing == RenamedWhole /\ RenameUndone
==============================================================================

------------------------------ MODULE AdminTransaction ------------------------------
(***************************************************************************)
(* The protocol every admin mutation follows (commitWithRollback in        *)
(* src/src/admin/admin-fs.js) and the queue of turns it runs in            *)
(* (runInMutationQueue in src/src/admin/admin-api.js): back up the files,  *)
(* write them, have the runtime reload, check what it serves now; at any   *)
(* error write the backups again, reload again, and tell apart a state     *)
(* that is restored from one that is not.                                  *)
(*                                                                         *)
(* A file is an endpoint with all its files; its content is a version.     *)
(* Writes fail, reloads fail, other programs edit the files at any moment  *)
(* and the watcher's own reloads come in between.  A reload is one step:   *)
(* RuntimeReload shows that a call is answered by a round that began after *)
(* it.  A file that does not load keeps the definition installed before.   *)
(***************************************************************************)
EXTENDS Naturals, Sequences, FiniteSets

CONSTANTS File,      \* the endpoints
          Mutation,  \* requests to the admin API
          Good,      \* versions that load and are served
          Broken,    \* versions that do not load
          Off,       \* a disabled endpoint
          Absent,    \* no endpoint
          MaxEdits   \* bound on the edits made by other programs

Version == Good \cup Broken \cup {Off, Absent}
Kinds   == {"update", "enable", "disable", "delete"}

ASSUME VersionAssumption ==
  Good \cap Broken = {} /\ Off # Absent /\ {Off, Absent} \cap (Good \cup Broken) = {}
ASSUME EditsAssumption == MaxEdits \in Nat

VARIABLES
  disk,      \* what is on disk
  served,    \* the version of the installed definition, or Absent
  kept,      \* in a turn: the installed definition is the one of definitionsBefore
  queue,     \* mutations not answered yet: the running one, then those that wait
  pc,        \* where the running mutation is; "idle" between two turns
  kind, files, written,   \* what it does, to which endpoints, with which contents
  unwritten, \* the writes of commit() still to do
  backup,    \* backups
  before,    \* definitionsBefore
  result,    \* the last reload: errors and installed definitions
  inFlight,  \* restores that were started and have not ended
  unrestored,\* some restore has failed
  outcome,   \* of the turn: applied, restored, unrestored
  answered,  \* mutations whose turn has ended
  disturbed, \* somebody else edited the involved files since they were backed up
  edits

turnVars == <<kind, files, written, unwritten, backup, before, result, inFlight, unrestored>>
vars == <<disk, served, kept, queue, pc, turnVars, outcome, answered, disturbed, edits>>

Waiting == {queue[i] : i \in DOMAIN queue}

------------------------------------------------------------------------------
(* The runtime, as the mutations see it                                     *)

\* What a file is served as once a reload has read version v of it.
Loaded(v, previous) == IF v \in Good THEN v ELSE IF v \in Broken THEN previous ELSE Absent

\* A reload that does not fail as a whole: broken files keep their definition and are
\* reported; files that load get a new one.
Reload ==
  /\ served' = [f \in File |-> Loaded(disk[f], served[f])]
  /\ kept' = [f \in File |-> kept[f] /\ disk[f] \notin Good]
  /\ result' = [errors    |-> {f \in File : disk[f] \in Broken},
                installed |-> {f \in File : Loaded(disk[f], served[f]) # Absent}]

\* mutant: an endpoint counts as served as soon as it is installed
Reflected_NoErrors ==
  \A f \in files :
    /\ kind = "update" => disk[f] # Absent
    /\ IF kind = "enable" \/ (kind = "update" /\ disk[f] \notin {Off, Absent})
         THEN f \in result.installed ELSE f \notin result.installed
\* validateReloadedEndpoints: the reload's result shows the effect that was asked for.
\* The update of one endpoint reads again whether the file on disk is enabled, and fails
\* when it is gone.
Reflected ==
  \A f \in files :
    /\ kind = "update" => disk[f] # Absent
    /\ IF kind = "enable" \/ (kind = "update" /\ disk[f] \notin {Off, Absent})
         THEN f \notin result.errors /\ f \in result.installed
         ELSE f \notin result.installed

\* mutant: what the runtime kept in place of a file that fails to load is not compared
ServedAgain_AnyVersion == \A f \in files : (before[f] = Absent) = (f \notin result.installed)
\* findUnrestoredDefinition: the involved endpoints are served, or not, as before, and
\* one that fails to load keeps the very definition it had before the mutation.
ServedAgain ==
  \A f \in files :
    /\ (before[f] = Absent) = (f \notin result.installed)
    /\ f \in result.errors /\ f \in result.installed => kept[f]

------------------------------------------------------------------------------
(* A turn                                                                   *)

\* A request reaches the admin API.
Submit(m) ==
  /\ m \notin Waiting \cup answered
  /\ queue' = Append(queue, m)
  /\ UNCHANGED <<disk, served, kept, pc, turnVars, outcome, answered, disturbed, edits>>

\* The writes of each kind of mutation.  Enabling writes only what is not enabled yet,
\* disabling only what is; deleting removes every file.
Contents(k, fs) ==
  {w \in [File -> Version] :
     /\ \A f \in File \ fs : w[f] = disk[f]
     /\ \A f \in fs :
          CASE k = "update"  -> w[f] \notin {Absent}
            [] k = "enable"  -> IF disk[f] = Off THEN w[f] \in Good \cup Broken
                                ELSE w[f] = disk[f]
            [] k = "disable" -> w[f] = Off
            [] k = "delete"  -> w[f] = Absent}

\* The turn begins: the involved files are chosen and backed up.
Begin(k, fs, w) ==
  /\ pc = "idle" /\ queue # <<>>
  /\ fs # {} /\ (k = "update" => Cardinality(fs) = 1)
  /\ k \in {"enable", "disable", "delete"} => \A f \in fs : disk[f] # Absent
  /\ w \in Contents(k, fs)
  /\ pc' = "backed_up"
  /\ kind' = k /\ files' = fs /\ written' = w
  /\ unwritten' = {f \in fs : w[f] # disk[f] \/ k = "update"}
  /\ backup' = disk
  /\ inFlight' = {} /\ unrestored' = FALSE /\ disturbed' = FALSE
  /\ UNCHANGED <<disk, served, kept, queue, before, result, outcome, answered, edits>>

\* commitWithRollback remembers the definitions served before it writes anything.
Snapshot ==
  /\ pc = "backed_up"
  /\ pc' = "writing"
  /\ before' = served /\ kept' = [f \in File |-> TRUE]
  /\ UNCHANGED <<disk, served, queue, kind, files, written, unwritten, backup, result,
                 inFlight, unrestored, outcome, answered, disturbed, edits>>

Write(f) ==
  /\ pc = "writing" /\ f \in unwritten
  /\ disk' = [disk EXCEPT ![f] = written[f]]
  /\ unwritten' = unwritten \ {f}
  /\ UNCHANGED <<served, kept, queue, pc, kind, files, written, backup, before, result,
                 inFlight, unrestored, outcome, answered, disturbed, edits>>

\* The catch of commitWithRollback: every restore is started at once.
Recover ==
  /\ pc' = "restoring"
  /\ inFlight' = files
  /\ UNCHANGED <<disk, queue, kind, files, written, unwritten, backup, before, unrestored,
                 outcome, answered, disturbed, edits>>

\* A write fails, or commit() rejects what it has written.
CommitFails ==
  /\ pc = "writing"
  /\ Recover
  /\ UNCHANGED <<served, kept, result>>

\* The reload after the writes; when it fails as a whole nothing is installed.
ReloadWritten ==
  /\ pc = "writing" /\ unwritten = {}
  /\ pc' = "reloaded"
  /\ Reload
  /\ UNCHANGED <<disk, queue, kind, files, written, unwritten, backup, before, inFlight,
                 unrestored, outcome, answered, disturbed, edits>>

ReloadFails ==
  /\ pc = "writing" /\ unwritten = {}
  /\ Recover
  /\ UNCHANGED <<served, kept, result>>

NoResult == [errors |-> {}, installed |-> {}]

\* The turn ends; what it knew of the reload and of its writes goes out of scope.
End(how) ==
  /\ pc' = "idle"
  /\ unwritten' = {} /\ unrestored' = FALSE /\ result' = NoResult
  /\ kept' = [f \in File |-> TRUE]
  /\ outcome' = how
  /\ answered' = answered \cup {Head(queue)}
  /\ queue' = Tail(queue)

Applied ==
  /\ pc = "reloaded" /\ Reflected
  /\ End("applied")
  /\ UNCHANGED <<disk, served, kind, files, written, backup, before, inFlight, disturbed, edits>>

Rejected ==
  /\ pc = "reloaded" /\ ~Reflected
  /\ Recover
  /\ UNCHANGED <<served, kept, result>>

\* One restore ends, well or not.
Restore(f) ==
  /\ f \in inFlight
  /\ inFlight' = inFlight \ {f}
  /\ \/ disk' = [disk EXCEPT ![f] = backup[f]] /\ UNCHANGED unrestored
     \/ unrestored' = TRUE /\ UNCHANGED disk
  /\ UNCHANGED <<served, kept, queue, pc, kind, files, written, unwritten, backup, before,
                 result, outcome, answered, disturbed, edits>>

\* mutant: the first restore that fails is reported at once (Promise.all)
RestoreFailed_AtOnce == unrestored
\* restoreBackup waits for every restore before it reports one that failed.
RestoreFailed == inFlight = {} /\ unrestored

RestoreFails ==
  /\ pc = "restoring" /\ RestoreFailed
  /\ End("unrestored")
  /\ UNCHANGED <<disk, served, kind, files, written, backup, before, inFlight, disturbed, edits>>

\* The reload of the restored files, and its failure.
ReloadRestored ==
  /\ pc = "restoring" /\ inFlight = {} /\ ~unrestored
  /\ pc' = "restored"
  /\ Reload
  /\ UNCHANGED <<disk, queue, kind, files, written, unwritten, backup, before, inFlight,
                 unrestored, outcome, answered, disturbed, edits>>

RecoveryFails ==
  /\ pc = "restoring" /\ inFlight = {} /\ ~unrestored
  /\ End("unrestored")
  /\ UNCHANGED <<disk, served, kind, files, written, backup, before, inFlight, disturbed, edits>>

Recovered ==
  /\ pc = "restored"
  /\ End(IF ServedAgain THEN "restored" ELSE "unrestored")
  /\ UNCHANGED <<disk, served, kind, files, written, backup, before, inFlight, disturbed, edits>>

------------------------------------------------------------------------------
(* Everybody else                                                           *)

\* A file is written by an editor, a script, git.
ExternalEdit(f, v) ==
  /\ edits < MaxEdits /\ v # disk[f]
  /\ disk' = [disk EXCEPT ![f] = v]
  /\ edits' = edits + 1
  /\ disturbed' = (disturbed \/ f \in files)
  /\ UNCHANGED <<served, kept, queue, pc, turnVars, outcome, answered>>

\* A reload asked for by the watcher.
WatcherReload ==
  /\ served' = [f \in File |-> Loaded(disk[f], served[f])]
  /\ kept' = [f \in File |-> kept[f] /\ (disk[f] \in Good => pc = "idle")]
  /\ UNCHANGED <<disk, queue, pc, turnVars, outcome, answered, disturbed, edits>>

------------------------------------------------------------------------------
Init ==
  /\ disk \in [File -> Version] /\ served \in [File -> Good \cup {Absent}]
  /\ \A f \in File : served[f] = Loaded(disk[f], served[f])
  /\ kept = [f \in File |-> TRUE]
  /\ queue = <<>> /\ pc = "idle"
  /\ kind = "update" /\ files = {} /\ written = disk /\ unwritten = {}
  /\ backup = disk /\ before = served /\ result = NoResult
  /\ inFlight = {} /\ unrestored = FALSE
  /\ outcome = "none" /\ answered = {} /\ disturbed = FALSE /\ edits = 0

Turn ==
  \/ \E k \in Kinds, fs \in SUBSET File : \E w \in Contents(k, fs) : Begin(k, fs, w)
  \/ Snapshot \/ CommitFails \/ ReloadWritten \/ ReloadFails \/ Applied \/ Rejected
  \/ RestoreFails \/ ReloadRestored \/ RecoveryFails \/ Recovered
  \/ \E f \in File : Write(f) \/ Restore(f)

Next ==
  \/ Turn
  \/ \E m \in Mutation : Submit(m)
  \/ \E f \in File, v \in Version : ExternalEdit(f, v)
  \/ WatcherReload

Spec == Init /\ [][Next]_vars

------------------------------------------------------------------------------
(* Properties                                                               *)

TypeOK ==
  /\ disk \in [File -> Version] /\ written \in [File -> Version] /\ backup \in [File -> Version]
  /\ served \in [File -> Good \cup {Absent}] /\ before \in [File -> Good \cup {Absent}]
  /\ kept \in [File -> BOOLEAN]
  /\ queue \in Seq(Mutation) /\ answered \subseteq Mutation
  /\ pc \in {"idle", "backed_up", "writing", "reloaded", "restoring", "restored"}
  /\ kind \in Kinds /\ files \subseteq File /\ unwritten \subseteq files /\ inFlight \subseteq files
  /\ result \in [errors : SUBSET File, installed : SUBSET File]
  /\ unrestored \in BOOLEAN /\ disturbed \in BOOLEAN
  /\ outcome \in {"none", "applied", "restored", "unrestored"}
  /\ edits \in 0..MaxEdits

Ended(how) == pc = "idle" /\ outcome = how

\* rollback: "restored" is the truth: the files of the mutation are those that were backed
\* up (unless another program has written them), and each is served from them or by the
\* definition it had before; none has appeared or disappeared.
RestoredIsBefore ==
  Ended("restored") /\ ~disturbed =>
    \A f \in files :
      /\ disk[f] = backup[f]
      /\ served[f] \in {before[f], Loaded(backup[f], before[f])}
      /\ (served[f] = Absent) = (before[f] = Absent)

\* A mutation that is confirmed is on disk and is what clients get: the version it wrote,
\* never the one a failed load has left in place.
AppliedIsServed ==
  Ended("applied") /\ ~disturbed =>
    \A f \in files : disk[f] = written[f] /\ served[f] = Loaded(written[f], Absent)

\* A turn ends with nothing under way: no restore of one mutation lands on the files that
\* the next one has written.
NothingInFlight == pc # "restoring" => inFlight = {}

\* Whichever the outcome that a mutation reports, it is the truth about the files and about
\* what is served, and nothing that it began can still change them.
AnswerIsTrue == RestoredIsBefore /\ AppliedIsServed /\ NothingInFlight
==============================================================================

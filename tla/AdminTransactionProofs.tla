------------------------- MODULE AdminTransactionProofs -------------------------
(***************************************************************************)
(* Proofs about AdminTransaction: for any number of endpoints, versions    *)
(* and mutations, whatever fails and whoever edits or reloads in between,  *)
(* the outcome that a mutation reports is the truth.                       *)
(***************************************************************************)
EXTENDS AdminTransaction, TLAPS

\* Where a turn stands: it has noted what is served, or a reload of its own is behind it.
Noted == pc \in {"writing", "reloaded", "restoring", "restored"}
Reloaded == pc \in {"reloaded", "restored"}

\* A turn belongs to a mutation, and restores run only while it restores.
TurnInv ==
  /\ pc # "idle" => queue # <<>>
  /\ inFlight # {} => pc = "restoring"

\* How far the files are, unless somebody else has written them.
DiskInv ==
  ~disturbed =>
    /\ pc \in {"backed_up", "writing"} => \A f \in files \ unwritten : disk[f] = written[f]
    /\ pc = "reloaded" => \A f \in files : disk[f] = written[f]
    /\ pc = "restoring" /\ ~unrestored => \A f \in files \ inFlight : disk[f] = backup[f]
    /\ pc = "restored" => \A f \in files : disk[f] = backup[f]

\* A definition that has been kept is the one noted before, or is gone.
KeptInv == Noted => \A f \in File : kept[f] => served[f] \in {before[f], Absent}

\* What the result of a reload says is still so, unless somebody else has written the files.
ResultInv ==
  Reloaded /\ ~disturbed =>
    \A f \in files :
      /\ served[f] = Loaded(disk[f], served[f])
      /\ f \in result.errors <=> disk[f] \in Broken
      /\ f \in result.installed <=> served[f] # Absent

\* A turn that was confirmed or undone has left the runtime in line with its files.
EndInv ==
  (Ended("applied") \/ Ended("restored")) /\ ~disturbed =>
    \A f \in files : served[f] = Loaded(disk[f], served[f])

TransactionInv ==
  /\ TypeOK /\ TurnInv /\ DiskInv /\ KeptInv /\ ResultInv /\ EndInv
  /\ RestoredIsBefore /\ AppliedIsServed

-------------------------------------------------------------------------------
(* The operators.                                                          *)

\* What a file is served as is a version that loads, or nothing.
LEMMA LoadedType ==
  ASSUME NEW v, NEW p \in Good \cup {Absent}
  PROVE  Loaded(v, p) \in Good \cup {Absent}
BY DEF Loaded

\* A reload that finds a file as it was leaves what is served as it is.
LEMMA LoadedAgain ==
  ASSUME NEW v, NEW p \in Good \cup {Absent}
  PROVE  Loaded(v, Loaded(v, p)) = Loaded(v, p)
BY DEF Loaded

\* What the first of a queue leaves is a queue.
LEMMA QueueType ==
  ASSUME NEW q \in Seq(Mutation), q # <<>>
  PROVE  Head(q) \in Mutation /\ Tail(q) \in Seq(Mutation)
OBVIOUS
-------------------------------------------------------------------------------
(* Each action keeps the invariant.                                        *)

\* The invariant holds at the start.
LEMMA TransactionInit == Init => TransactionInv
<1> SUFFICES ASSUME Init PROVE TransactionInv
    OBVIOUS
<1>1. TypeOK
  <2>1. kept \in [File -> BOOLEAN] /\ result \in [errors : SUBSET File, installed : SUBSET File]
        BY DEF Init, NoResult
  <2>2. queue \in Seq(Mutation) /\ edits \in 0..MaxEdits /\ kind \in Kinds
        BY EditsAssumption DEF Init, Kinds
  <2> QED
      BY <2>1, <2>2 DEF Init, TypeOK
<1>2. TurnInv /\ DiskInv /\ KeptInv /\ ResultInv
      BY DEF Init, TurnInv, DiskInv, KeptInv, ResultInv, Noted, Reloaded
<1>3. EndInv /\ RestoredIsBefore /\ AppliedIsServed
      BY DEF Init, EndInv, RestoredIsBefore, AppliedIsServed, Ended
<1> QED
    BY <1>1, <1>2, <1>3 DEF TransactionInv

\* A mutation that waits disturbs nobody.
LEMMA SubmitKeeps ==
  ASSUME TransactionInv, NEW m \in Mutation, Submit(m)
  PROVE  TransactionInv'
<1> USE DEF TransactionInv, Submit, turnVars
<1>1. TypeOK'
      BY DEF TypeOK
<1>2. TurnInv'
  <2>1. queue' # <<>>
        BY DEF TypeOK
  <2> QED
      BY <2>1 DEF TurnInv
<1>3. DiskInv' /\ KeptInv' /\ ResultInv' /\ EndInv'
      BY DEF DiskInv, KeptInv, ResultInv, EndInv, Noted, Reloaded, Ended
<1>4. RestoredIsBefore' /\ AppliedIsServed'
      BY DEF RestoredIsBefore, AppliedIsServed, Ended
<1> QED
    BY <1>1, <1>2, <1>3, <1>4

\* The turn begins with its files as they are on disk.
LEMMA BeginKeeps ==
  ASSUME TransactionInv, NEW k \in Kinds, NEW fs \in SUBSET File, NEW w \in Contents(k, fs),
         Begin(k, fs, w)
  PROVE  TransactionInv'
<1> USE DEF TransactionInv, Begin
<1>1. w \in [File -> Version]
      BY DEF Contents
<1>2. TypeOK'
      BY <1>1 DEF TypeOK
<1>3. TurnInv' /\ DiskInv'
      BY <1>1 DEF TurnInv, DiskInv, TypeOK
<1>4. KeptInv' /\ ResultInv' /\ EndInv' /\ RestoredIsBefore' /\ AppliedIsServed'
      BY DEF KeptInv, ResultInv, EndInv, RestoredIsBefore, AppliedIsServed, Noted, Reloaded, Ended
<1> QED
    BY <1>2, <1>3, <1>4

\* What is served is noted: from here on everything is compared with it.
LEMMA SnapshotKeeps ==
  ASSUME TransactionInv, Snapshot
  PROVE  TransactionInv'
<1> USE DEF TransactionInv, Snapshot
<1>1. TypeOK'
      BY DEF TypeOK
<1>2. TurnInv' /\ DiskInv'
      BY DEF TurnInv, DiskInv
<1>3. KeptInv'
      BY DEF KeptInv, TypeOK
<1>4. ResultInv' /\ EndInv' /\ RestoredIsBefore' /\ AppliedIsServed'
      BY DEF ResultInv, EndInv, RestoredIsBefore, AppliedIsServed, Reloaded, Ended
<1> QED
    BY <1>1, <1>2, <1>3, <1>4

\* A file of the mutation is written.
LEMMA WriteKeeps ==
  ASSUME TransactionInv, NEW f \in File, Write(f)
  PROVE  TransactionInv'
<1> USE DEF TransactionInv, Write
<1>1. TypeOK'
      BY DEF TypeOK
<1>2. TurnInv' /\ DiskInv'
      BY DEF TurnInv, DiskInv, TypeOK
<1>3. KeptInv' /\ ResultInv' /\ EndInv' /\ RestoredIsBefore' /\ AppliedIsServed'
      BY DEF KeptInv, ResultInv, EndInv, RestoredIsBefore, AppliedIsServed, Noted, Reloaded, Ended
<1> QED
    BY <1>1, <1>2, <1>3

\* Whatever failed, every restore is under way and none has ended.
LEMMA RecoverKeeps ==
  ASSUME TransactionInv, pc \in {"writing", "reloaded"}, Recover, UNCHANGED <<served, kept, result>>
  PROVE  TransactionInv'
<1> USE DEF TransactionInv, Recover
<1>1. TypeOK'
      BY DEF TypeOK
<1>2. TurnInv' /\ DiskInv'
      BY DEF TurnInv, DiskInv
<1>3. KeptInv'
      BY DEF KeptInv, Noted
<1>4. ResultInv' /\ EndInv' /\ RestoredIsBefore' /\ AppliedIsServed'
      BY DEF ResultInv, EndInv, RestoredIsBefore, AppliedIsServed, Reloaded, Ended
<1> QED
    BY <1>1, <1>2, <1>3, <1>4

\* A restore ends, well or not.
LEMMA RestoreKeeps ==
  ASSUME TransactionInv, NEW f \in File, Restore(f)
  PROVE  TransactionInv'
<1> USE DEF TransactionInv, Restore
<1>1. TypeOK'
      BY DEF TypeOK
<1>2. pc = "restoring"
      BY DEF TurnInv
<1>3. TurnInv' /\ DiskInv'
      BY <1>2 DEF TurnInv, DiskInv, TypeOK
<1>4. KeptInv' /\ ResultInv' /\ EndInv' /\ RestoredIsBefore' /\ AppliedIsServed'
      BY <1>2 DEF KeptInv, ResultInv, EndInv, RestoredIsBefore, AppliedIsServed, Noted, Reloaded, Ended
<1> QED
    BY <1>1, <1>3, <1>4

\* What any reload does, the turn's own or the watcher's: what it leaves installed is in
\* line with the files, and what was kept is what was there before.
LEMMA ReloadServes ==
  ASSUME TransactionInv, served' = [f \in File |-> Loaded(disk[f], served[f])]
  PROVE  /\ served' \in [File -> Good \cup {Absent}]
         /\ \A f \in File : served'[f] = Loaded(disk[f], served'[f])
         /\ \A f \in File : served'[f] = served[f] \/ disk[f] \in Good \/ served'[f] = Absent
         /\ \A f \in File : served[f] = Loaded(disk[f], served[f]) => served'[f] = served[f]
<1> USE DEF TransactionInv, TypeOK
<1>1. \A f \in File : Loaded(disk[f], served[f]) \in Good \cup {Absent}
      BY LoadedType
<1>2. \A f \in File : Loaded(disk[f], Loaded(disk[f], served[f])) = Loaded(disk[f], served[f])
      BY LoadedAgain
<1>3. \A f \in File : \/ Loaded(disk[f], served[f]) = served[f] \/ disk[f] \in Good
                        \/ Loaded(disk[f], served[f]) = Absent
      BY DEF Loaded
<1> QED
    BY <1>1, <1>2, <1>3

\* The reload after the writes.
LEMMA ReloadWrittenKeeps ==
  ASSUME TransactionInv, ReloadWritten
  PROVE  TransactionInv'
<1> USE DEF TransactionInv, ReloadWritten, Reload
<1>1. /\ served' \in [File -> Good \cup {Absent}]
      /\ \A f \in File : served'[f] = Loaded(disk[f], served'[f])
      /\ \A f \in File : served'[f] = served[f] \/ disk[f] \in Good \/ served'[f] = Absent
      BY ReloadServes
<1>2. TypeOK'
      BY <1>1 DEF TypeOK
<1>3. TurnInv' /\ DiskInv'
      BY DEF TurnInv, DiskInv
<1>4. KeptInv'
      BY <1>1 DEF KeptInv, Noted, TypeOK
<1>5. ResultInv'
      BY <1>1 DEF ResultInv, TypeOK
<1>6. EndInv' /\ RestoredIsBefore' /\ AppliedIsServed'
      BY DEF EndInv, RestoredIsBefore, AppliedIsServed, Ended
<1> QED
    BY <1>2, <1>3, <1>4, <1>5, <1>6

\* The reload of the restored files.
LEMMA ReloadRestoredKeeps ==
  ASSUME TransactionInv, ReloadRestored
  PROVE  TransactionInv'
<1> USE DEF TransactionInv, ReloadRestored, Reload
<1>1. /\ served' \in [File -> Good \cup {Absent}]
      /\ \A f \in File : served'[f] = Loaded(disk[f], served'[f])
      /\ \A f \in File : served'[f] = served[f] \/ disk[f] \in Good \/ served'[f] = Absent
      BY ReloadServes
<1>2. TypeOK'
      BY <1>1 DEF TypeOK
<1>3. TurnInv' /\ DiskInv'
      BY DEF TurnInv, DiskInv
<1>4. KeptInv'
      BY <1>1 DEF KeptInv, Noted, TypeOK
<1>5. ResultInv'
      BY <1>1 DEF ResultInv, TypeOK
<1>6. EndInv' /\ RestoredIsBefore' /\ AppliedIsServed'
      BY DEF EndInv, RestoredIsBefore, AppliedIsServed, Ended
<1> QED
    BY <1>2, <1>3, <1>4, <1>5, <1>6

\* A reload of the watcher changes nothing that a turn relies upon.
LEMMA WatcherKeeps ==
  ASSUME TransactionInv, WatcherReload
  PROVE  TransactionInv'
<1> USE DEF TransactionInv, WatcherReload, turnVars
<1>1. /\ served' \in [File -> Good \cup {Absent}]
      /\ \A f \in File : served'[f] = Loaded(disk[f], served'[f])
      /\ \A f \in File : served'[f] = served[f] \/ disk[f] \in Good \/ served'[f] = Absent
      /\ \A f \in File : served[f] = Loaded(disk[f], served[f]) => served'[f] = served[f]
      BY ReloadServes
<1>2. TypeOK'
      BY <1>1 DEF TypeOK
<1>3. TurnInv' /\ DiskInv'
      BY DEF TurnInv, DiskInv
<1>4. KeptInv'
      BY <1>1 DEF KeptInv, Noted, TypeOK
<1>5. ResultInv'
      BY <1>1 DEF ResultInv, Reloaded, TypeOK
<1>6. EndInv'
      BY <1>1 DEF EndInv, Ended, TypeOK
<1>7. RestoredIsBefore' /\ AppliedIsServed'
      BY <1>1 DEF EndInv, RestoredIsBefore, AppliedIsServed, Ended, TypeOK
<1> QED
    BY <1>2, <1>3, <1>4, <1>5, <1>6, <1>7

\* Somebody writes a file: one of the turn disturbs it, another one does not.
LEMMA ExternalEditKeeps ==
  ASSUME TransactionInv, NEW f \in File, NEW v \in Version, ExternalEdit(f, v)
  PROVE  TransactionInv'
<1> USE DEF TransactionInv, ExternalEdit, turnVars
<1>1. TypeOK'
      BY EditsAssumption DEF TypeOK
<1>2. TurnInv' /\ KeptInv'
      BY DEF TurnInv, KeptInv, Noted
<1>3. ~disturbed' => ~disturbed /\ \A g \in files : disk'[g] = disk[g]
      BY DEF TypeOK
<1>4. DiskInv'
      BY <1>3 DEF DiskInv, TypeOK
<1>5. ResultInv' /\ EndInv'
      BY <1>3 DEF ResultInv, EndInv, Reloaded, Ended, TypeOK
<1>6. RestoredIsBefore' /\ AppliedIsServed'
      BY <1>3 DEF RestoredIsBefore, AppliedIsServed, Ended, TypeOK
<1> QED
    BY <1>1, <1>2, <1>4, <1>5, <1>6

-------------------------------------------------------------------------------
(* The end of a turn.                                                      *)

\* The end itself keeps the types and leaves nothing under way.
LEMMA EndTypes ==
  ASSUME TransactionInv, pc # "idle", inFlight = {}, NEW how \in {"applied", "restored", "unrestored"}, End(how),
         UNCHANGED <<disk, served, kind, files, written, backup, before, inFlight, disturbed, edits>>
  PROVE  /\ TypeOK' /\ TurnInv' /\ DiskInv' /\ KeptInv' /\ ResultInv'
         /\ pc' = "idle" /\ outcome' = how
<1> USE DEF TransactionInv, End
<1>1. Head(queue) \in Mutation /\ Tail(queue) \in Seq(Mutation)
      BY QueueType DEF TypeOK, TurnInv
<1>2. TypeOK'
      BY <1>1 DEF TypeOK, NoResult
<1>3. TurnInv' /\ DiskInv' /\ KeptInv' /\ ResultInv'
      BY DEF TurnInv, DiskInv, KeptInv, ResultInv, Noted, Reloaded
<1> QED
    BY <1>2, <1>3

\* What is confirmed is on disk and is served.
LEMMA AppliedKeeps ==
  ASSUME TransactionInv, Applied
  PROVE  TransactionInv'
<1> USE DEF TransactionInv, Applied
<1>1. /\ TypeOK' /\ TurnInv' /\ DiskInv' /\ KeptInv' /\ ResultInv'
      /\ pc' = "idle" /\ outcome' = "applied"
      BY EndTypes DEF TurnInv
<1>2. EndInv'
      BY <1>1 DEF EndInv, Ended, ResultInv, Reloaded
<1>3. RestoredIsBefore'
      BY <1>1 DEF RestoredIsBefore, Ended
<1>4. ASSUME ~disturbed, NEW f \in files
      PROVE  disk[f] = written[f] /\ served[f] = Loaded(written[f], Absent)
  <2>1. disk[f] = written[f] /\ f \in File
        BY <1>4 DEF DiskInv, TypeOK
  <2>2. /\ served[f] = Loaded(disk[f], served[f])
        /\ f \in result.errors <=> disk[f] \in Broken
        /\ f \in result.installed <=> served[f] # Absent
        BY <1>4 DEF ResultInv, Reloaded
  <2>3. f \notin result.errors \/ f \notin result.installed
        BY <1>4 DEF Reflected
  <2> QED
      BY <2>1, <2>2, <2>3 DEF Loaded
<1>5. AppliedIsServed'
      BY <1>4 DEF AppliedIsServed
<1> QED
    BY <1>1, <1>2, <1>3, <1>5

\* What is reported restored is as it was before.
LEMMA RecoveredKeeps ==
  ASSUME TransactionInv, Recovered
  PROVE  TransactionInv'
<1> USE DEF TransactionInv, Recovered
<1> DEFINE how == IF ServedAgain THEN "restored" ELSE "unrestored"
<1>1. /\ TypeOK' /\ TurnInv' /\ DiskInv' /\ KeptInv' /\ ResultInv'
      /\ pc' = "idle" /\ outcome' = how
      BY EndTypes DEF TurnInv
<1>2. EndInv' /\ AppliedIsServed'
      BY <1>1 DEF EndInv, AppliedIsServed, Ended, ResultInv, Reloaded
<1>3. ASSUME ServedAgain, ~disturbed, NEW f \in files
      PROVE  /\ disk[f] = backup[f]
             /\ served[f] \in {before[f], Loaded(backup[f], before[f])}
             /\ (served[f] = Absent) = (before[f] = Absent)
  <2>1. disk[f] = backup[f] /\ f \in File
        BY <1>3 DEF DiskInv, TypeOK
  <2>2. /\ served[f] = Loaded(disk[f], served[f])
        /\ f \in result.errors <=> disk[f] \in Broken
        /\ f \in result.installed <=> served[f] # Absent
        BY <1>3 DEF ResultInv, Reloaded
  <2>3. (before[f] = Absent) = (f \notin result.installed)
        BY <1>3 DEF ServedAgain
  <2>4. f \in result.errors /\ f \in result.installed => served[f] = before[f]
        BY <1>3, <2>1, <2>2 DEF ServedAgain, KeptInv, Noted
  <2>5. disk[f] \notin Broken => served[f] = Loaded(backup[f], before[f])
        BY <2>1, <2>2 DEF Loaded
  <2>6. served[f] = Absent => served[f] = before[f]
        BY <2>2, <2>3
  <2> QED
      BY <2>1, <2>2, <2>3, <2>4, <2>5, <2>6
<1>4. RestoredIsBefore'
      BY <1>1, <1>3 DEF RestoredIsBefore, Ended
<1> QED
    BY <1>1, <1>2, <1>4

\* A state that could not be restored is reported as such, and nothing is claimed of it.
LEMMA UnrestoredKeeps ==
  ASSUME TransactionInv, RestoreFails \/ RecoveryFails
  PROVE  TransactionInv'
<1> USE DEF TransactionInv, RestoreFails, RecoveryFails, RestoreFailed
<1>1. /\ TypeOK' /\ TurnInv' /\ DiskInv' /\ KeptInv' /\ ResultInv'
      /\ pc' = "idle" /\ outcome' = "unrestored"
      BY EndTypes
<1>2. EndInv' /\ RestoredIsBefore' /\ AppliedIsServed'
      BY <1>1 DEF EndInv, RestoredIsBefore, AppliedIsServed, Ended
<1> QED
    BY <1>1, <1>2

-------------------------------------------------------------------------------
\* Every step keeps the invariant.
LEMMA TransactionNext == TransactionInv /\ [Next]_vars => TransactionInv'
<1> SUFFICES ASSUME TransactionInv, [Next]_vars PROVE TransactionInv'
    OBVIOUS
<1>1. CASE UNCHANGED vars
  <2> USE DEF TransactionInv, vars, turnVars
  <2>1. TypeOK' /\ TurnInv' /\ DiskInv' /\ KeptInv'
        BY <1>1 DEF TypeOK, TurnInv, DiskInv, KeptInv, Noted
  <2>2. ResultInv' /\ EndInv' /\ RestoredIsBefore' /\ AppliedIsServed'
        BY <1>1 DEF ResultInv, EndInv, RestoredIsBefore, AppliedIsServed, Reloaded, Ended
  <2> QED
      BY <2>1, <2>2
<1>2. CASE \E m \in Mutation : Submit(m)
      BY <1>2, SubmitKeeps
<1>3. CASE \E f \in File, v \in Version : ExternalEdit(f, v)
      BY <1>3, ExternalEditKeeps
<1>4. CASE WatcherReload
      BY <1>4, WatcherKeeps
<1>5. CASE \E k \in Kinds, fs \in SUBSET File : \E w \in Contents(k, fs) : Begin(k, fs, w)
      BY <1>5, BeginKeeps
<1>6. CASE Snapshot
      BY <1>6, SnapshotKeeps
<1>7. CASE CommitFails \/ ReloadFails \/ Rejected
      BY <1>7, RecoverKeeps DEF CommitFails, ReloadFails, Rejected
<1>8. CASE ReloadWritten \/ ReloadRestored
      BY <1>8, ReloadWrittenKeeps, ReloadRestoredKeeps
<1>9. CASE Applied \/ Recovered
      BY <1>9, AppliedKeeps, RecoveredKeeps
<1>10. CASE RestoreFails \/ RecoveryFails
      BY <1>10, UnrestoredKeeps
<1>11. CASE \E f \in File : Write(f) \/ Restore(f)
      BY <1>11, WriteKeeps, RestoreKeeps
<1> QED
    BY <1>1, <1>2, <1>3, <1>4, <1>5, <1>6, <1>7, <1>8, <1>9, <1>10, <1>11 DEF Next, Turn

\* The invariant holds in every state.
LEMMA TransactionHolds == Spec => []TransactionInv
BY TransactionInit, TransactionNext, PTL DEF Spec

\* Whichever the outcome that a mutation reports, it is the truth about the files and about
\* what is served, and nothing that it began can still change them.
THEOREM AnswersAreTrue == Spec => []AnswerIsTrue
<1>1. TransactionInv => AnswerIsTrue
      BY DEF TransactionInv, TurnInv, AnswerIsTrue, NothingInFlight
<1> QED
    BY <1>1, TransactionHolds, PTL

\* The state of the mutations and of the runtime is well typed.
THEOREM TransactionTypeCorrect == Spec => []TypeOK
<1>1. TransactionInv => TypeOK
      BY DEF TransactionInv
<1> QED
    BY <1>1, TransactionHolds, PTL
===============================================================================

---------------------------- MODULE CatalogRevision ----------------------------
(***************************************************************************)
(* The tracker of the catalog revision (src/src/catalog-revision.js) and   *)
(* its users: the reloads and catalog reads that ask for a scan, the       *)
(* detail reads that observe files without waiting for one, and the admin  *)
(* mutations, whose answer is held until a scan has seen what they wrote.  *)
(*                                                                         *)
(* A file is known by a STAMP (its mtime and size) and its content.  A     *)
(* scan reuses what it knows while the stamp is the same.  Scans run one   *)
(* at a time; observations overlap with them and with each other, and a    *)
(* logical clock numbers the reads so that the one that started last wins. *)
(*                                                                         *)
(* A content stands for its digest and determines what the file refers to. *)
(* A scan visits what it has found in any order.  The revision counts the  *)
(* changes of the fingerprint; the model keeps the fingerprint.            *)
(***************************************************************************)
EXTENDS Naturals, Sequences, Functions

CONSTANTS File,          \* the files that can be part of the catalog
          Listed,        \* those found by listing the folders (endpoint files)
          Collections,   \* .collections.json, visited whether it exists or not
          Content,       \* contents
          Holds,         \* Holds[f]: those that file f may have
          Unreadable,    \* the content of a file that cannot be read
          Gone,          \* what a read finds of a file removed after its stat
          Refs,          \* Refs[f][c]: the files that f refers to with content c
          Observer,      \* detail reads under way at a time
          Detail,        \* the sets of files that a detail read covers
          Start,         \* what the disk may hold when the engine starts
          Absent, None,
          MaxEdits, MaxClock, MaxQueue   \* bounds of the checked instance

ASSUME FileAssumption ==
         /\ Listed \cup {Collections} \subseteq File /\ Collections \notin Listed
         /\ Refs \in [File -> [Content \cup {Gone} -> SUBSET File]]
         /\ \A f \in File : Refs[f][Gone] = {} /\ Collections \notin UNION Range(Refs[f])
ASSUME HoldsAssumption == Holds \in [File -> SUBSET Content]
ASSUME DetailAssumption == Detail \subseteq SUBSET File
ASSUME StartAssumption ==
         Start \subseteq [File -> {Absent} \cup [content : Content, stamp : {0}]]
ASSUME BoundAssumption == MaxEdits \in Nat /\ MaxClock \in Nat /\ MaxQueue \in Nat

VARIABLES
  disk,         \* file -> Absent or [content, stamp]
  stamps,       \* how many stamps have been used
  forged,       \* files whose content changed under the stamp they have
  files,        \* the tracker's map: file -> [digest, stamp, seq]
  missing,      \* structure: visited files that were not there
  clock,        \* the logical clock of reads
  queue,        \* scans asked for: the sets of files they must read again
  scan,         \* the running scan, or None
  observing,    \* observer -> None or its reads so far
  mutation,     \* the last mutation: [file, content, answered], or None
  scannedSince  \* a scan that began after the last change of the disk has ended

diskVars == <<disk, stamps, forged>>
vars == <<disk, stamps, forged, files, missing, clock, queue, scan, observing,
          mutation, scannedSince>>

Entry == [digest : Content \cup {Gone}, stamp : Nat, seq : Nat]
Reading == [file : File, stamp : Nat, seq : Nat]
Table == UNION {[S -> Entry] : S \in SUBSET File}
Scan == [started : Nat, invalid : SUBSET File, listed : BOOLEAN, todo : SUBSET File,
         visited : SUBSET File, read : Table, missing : SUBSET File,
         reading : Reading \cup {None}, fresh : BOOLEAN]
Observation == [todo : SUBSET File, reading : Reading \cup {None}, got : Table]
Mutation == [file : File, content : Content \cup {Absent, None}, answered : BOOLEAN]
Present == [content : Content, stamp : Nat]

ASSUME SentinelAssumption ==
         /\ Unreadable \in Content /\ Gone \notin Content
         /\ Absent \notin Content \cup {None} \cup Present
         /\ None \notin File \cup Content \cup Reading \cup Scan \cup Observation \cup Mutation

TypeOK ==
  /\ disk \in [File -> Present \cup {Absent}] /\ stamps \in Nat /\ forged \subseteq File
  /\ files \in Table /\ missing \subseteq File /\ clock \in Nat
  /\ queue \in Seq(SUBSET File) /\ scan \in Scan \cup {None}
  /\ observing \in [Observer -> Observation \cup {None}]
  /\ mutation \in Mutation \cup {None} /\ scannedSince \in BOOLEAN

-------------------------------------------------------------------------------
(* The catalog as a scan sees it.                                          *)

\* sameReferences.
SameReferences(f, c, d) == Refs[f][c] = Refs[f][d]

\* fingerprint: what publish() makes a digest of.
fingerprint == <<missing, [f \in DOMAIN files |-> files[f].digest]>>

\* listRoots.
Roots == {Collections} \cup {f \in Listed : disk[f] # Absent}

\* What the files of S refer to, as they are on disk, is in S.
Closed(S) == \A f \in S : disk[f] # Absent => Refs[f][disk[f].content] \subseteq S

\* The files reached from the roots through the contents on disk: the least closed set.
Perimeter == {f \in File : \A S \in SUBSET File : Roots \subseteq S /\ Closed(S) => f \in S}

\* The files through which f may be part of the catalog, and f.
LeadsInto(p, S) == \E c \in Content : Refs[p][c] \cap S # {}
Above(f) ==
  {p \in File : \A S \in SUBSET File :
     f \in S /\ (\A q \in File : LeadsInto(q, S) => q \in S) => p \in S}

\* What a scan of the disk as it is would publish.
TrueMissing == {f \in Perimeter \ {Collections} : disk[f] = Absent}
TrueFiles == {f \in Perimeter : disk[f] # Absent}

-------------------------------------------------------------------------------
\* The engine serves nobody before its first scan has ended.
Init ==
  /\ disk \in Start
  /\ stamps = 0 /\ forged = {}
  /\ files = [f \in TrueFiles |-> [digest |-> disk[f].content, stamp |-> 0, seq |-> 0]]
  /\ missing = TrueMissing /\ clock = 0 /\ queue = <<>>
  /\ scan = None
  /\ observing = [o \in Observer |-> None]
  /\ mutation = None
  /\ scannedSince = TRUE

-------------------------------------------------------------------------------
(* The disk.                                                               *)

\* The file is written or removed.  A quiet write leaves its stamp as it was.
WriteFile(f, c, quiet) ==
  /\ stamps < MaxEdits
  /\ stamps' = stamps + 1
  /\ IF c = Absent
     THEN /\ ~quiet /\ disk[f] # Absent
          /\ disk' = [disk EXCEPT ![f] = Absent]
          /\ forged' = forged \ {f}
     ELSE IF quiet
     THEN /\ disk[f] # Absent /\ disk[f].content # c
          /\ disk' = [disk EXCEPT ![f].content = c]
          /\ forged' = forged \cup {f}
     ELSE /\ disk[f] # Absent => disk[f].content # c
          /\ disk' = [disk EXCEPT ![f] = [content |-> c, stamp |-> stamps + 1]]
          /\ forged' = forged \ {f}
  /\ scannedSince' = FALSE
  /\ scan' = IF scan = None THEN None ELSE [scan EXCEPT !.fresh = FALSE]

\* Somebody else edits a file.  What the last mutation wrote may be gone, or out
\* of the catalog.
ExternalEdit(f, c, quiet) ==
  /\ WriteFile(f, c, quiet)
  /\ mutation' = IF mutation # None /\ f \in Above(mutation.file)
                 THEN IF mutation.answered THEN None ELSE [mutation EXCEPT !.content = None]
                 ELSE mutation
  /\ UNCHANGED <<files, missing, clock, queue, observing>>

\* An admin mutation writes a file; its answer is held until a scan that must
\* read that file again is over.
MutationWrite(f, c, quiet) ==
  /\ mutation # None => mutation.answered
  /\ WriteFile(f, c, quiet)
  /\ mutation' = [file |-> f, content |-> c, answered |-> FALSE]
  /\ queue' = Append(queue, {f})
  /\ UNCHANGED <<files, missing, clock, observing>>

-------------------------------------------------------------------------------
(* Scans, one at a time.                                                   *)

\* refresh(): after a reload, or after GET /mocks.
Refresh ==
  /\ Len(queue) < MaxQueue
  /\ queue' = Append(queue, {})
  /\ UNCHANGED <<diskVars, files, missing, clock, scan, observing, mutation,
                 scannedSince>>

\* The next task of the tail: scan() notes the clock.
StartScan ==
  /\ scan = None /\ queue # <<>>
  /\ scan' = [started |-> clock, invalid |-> Head(queue), listed |-> FALSE,
              todo |-> {}, visited |-> {}, read |-> <<>>, missing |-> {},
              reading |-> None, fresh |-> TRUE]
  /\ queue' = Tail(queue)
  /\ UNCHANGED <<diskVars, files, missing, clock, observing, mutation, scannedSince>>

ListRoots ==
  /\ scan # None /\ ~scan.listed
  /\ scan' = [scan EXCEPT !.listed = TRUE, !.todo = Roots, !.visited = Roots]
  /\ UNCHANGED <<diskVars, files, missing, clock, queue, observing, mutation,
                 scannedSince>>

\* Map m with entry e for file f.
Known(m, f, e) == [g \in DOMAIN m \cup {f} |-> IF g = f THEN e ELSE m[g]]

\* visit() goes on to the references that have not been visited.
Visited(s, f, entry) ==
  LET found == Refs[f][entry.digest] \ s.visited IN
    [s EXCEPT !.read = Known(@, f, entry), !.todo = (@ \ {f}) \cup found,
              !.visited = @ \cup found, !.reading = None]

\* Mutant: an explicit invalidation is not looked at.
Reusable_Always(f) == f \in DOMAIN files /\ files[f].stamp = disk[f].stamp

\* What is known of the file can be used again.
Reusable(f) ==
  /\ f \in DOMAIN files /\ files[f].stamp = disk[f].stamp
  /\ f \notin scan.invalid

\* visit(): the stat of a file, and the number of the read if one is needed.
ScanStat(f) ==
  /\ scan # None /\ scan.reading = None /\ f \in scan.todo
  /\ IF disk[f] = Absent
     THEN /\ scan' = [scan EXCEPT !.todo = @ \ {f},
                                  !.missing = @ \cup ({f} \ {Collections})]
          /\ UNCHANGED clock
     ELSE IF Reusable(f)
     THEN scan' = Visited(scan, f, files[f]) /\ UNCHANGED clock
     ELSE /\ clock < MaxClock
          /\ clock' = clock + 1
          /\ scan' = [scan EXCEPT !.reading =
                        [file |-> f, stamp |-> disk[f].stamp, seq |-> clock + 1]]
  /\ UNCHANGED <<diskVars, files, missing, queue, observing, mutation, scannedSince>>

\* readDigest().
DigestOf(f) == IF disk[f] = Absent THEN Gone ELSE disk[f].content

ReadEntry(r) == [digest |-> DigestOf(r.file), stamp |-> r.stamp, seq |-> r.seq]

ScanRead ==
  /\ scan # None /\ scan.reading # None
  /\ scan' = Visited(scan, scan.reading.file, ReadEntry(scan.reading))
  /\ UNCHANGED <<diskVars, files, missing, clock, queue, observing, mutation,
                 scannedSince>>

\* Mutant: what the scan has read replaces what was observed meanwhile.
Merge_ScanWins(read, started) == read

\* The later read wins; what was observed during the scan and not visited stays.
Merge(read, started) ==
  LET kept == {f \in DOMAIN files : f \notin DOMAIN read /\ files[f].seq > started} IN
    [f \in DOMAIN read \cup kept |->
       IF f \in DOMAIN read /\ ~(f \in DOMAIN files /\ files[f].seq > read[f].seq)
       THEN read[f] ELSE files[f]]

EndScan ==
  /\ scan # None /\ scan.listed /\ scan.reading = None /\ scan.todo = {}
  /\ files' = Merge(scan.read, scan.started)
  /\ missing' = scan.missing
  /\ scannedSince' = (scannedSince \/ scan.fresh)
  /\ scan' = None
  /\ mutation' = IF scan.invalid = {} THEN mutation
                 ELSE IF mutation.content = None THEN None
                 ELSE [mutation EXCEPT !.answered = TRUE]
  /\ UNCHANGED <<diskVars, clock, queue, observing>>

-------------------------------------------------------------------------------
(* Observations, beside the scans.                                         *)

\* observeFiles() is called by a detail read.
Observe(o, S) ==
  /\ observing[o] = None
  /\ observing' = [observing EXCEPT ![o] = [todo |-> S, reading |-> None, got |-> <<>>]]
  /\ UNCHANGED <<diskVars, files, missing, clock, queue, scan, mutation, scannedSince>>

\* The stat of a file; the number of its read is taken just before the read.
ObserveStat(o, f) ==
  /\ observing[o] # None /\ observing[o].reading = None /\ f \in observing[o].todo
  /\ IF disk[f] = Absent
     THEN /\ observing' = [observing EXCEPT ![o].todo = @ \ {f}]
          /\ UNCHANGED clock
     ELSE /\ clock < MaxClock
          /\ clock' = clock + 1
          /\ observing' = [observing EXCEPT ![o].todo = @ \ {f},
               ![o].reading = [file |-> f, stamp |-> disk[f].stamp, seq |-> clock + 1]]
  /\ UNCHANGED <<diskVars, files, missing, queue, scan, mutation, scannedSince>>

\* A file that could not be read is not an observation.
ObserveRead(o) ==
  /\ observing[o] # None /\ observing[o].reading # None
  /\ LET entry == ReadEntry(observing[o].reading) IN
       observing' = [observing EXCEPT ![o].reading = None,
         ![o].got = IF entry.digest \in {Gone, Unreadable} THEN @
                    ELSE Known(@, observing[o].reading.file, entry)]
  /\ UNCHANGED <<diskVars, files, missing, clock, queue, scan, mutation, scannedSince>>

\* Mutant: the observation that ends last wins, not the one that read last.
Newer_Always(got) == DOMAIN got

\* The observations that no later read has overtaken.
Newer(got) == {f \in DOMAIN got : ~(f \in DOMAIN files /\ files[f].seq > got[f].seq)}

\* Mutant: a file that the tracker did not know is not a change of structure.
ChangesStructure_Known(f, entry) ==
  f \in DOMAIN files /\ ~SameReferences(f, files[f].digest, entry.digest)

\* structureChanged.
ChangesStructure(f, entry) ==
  f \in DOMAIN files => ~SameReferences(f, files[f].digest, entry.digest)

\* The synchronous end of observeFiles().  A scan is asked for, and not awaited,
\* when the set of files to look at may have changed.
ObserveApply(o) ==
  /\ observing[o] # None /\ observing[o].reading = None /\ observing[o].todo = {}
  /\ LET got == observing[o].got
         new == Newer(got) IN
       /\ files' = [f \in DOMAIN files \cup new |-> IF f \in new THEN got[f] ELSE files[f]]
       /\ queue' = IF \E f \in new : ChangesStructure(f, got[f])
                   THEN Append(queue, {}) ELSE queue
  /\ observing' = [observing EXCEPT ![o] = None]
  /\ UNCHANGED <<diskVars, missing, clock, scan, mutation, scannedSince>>

-------------------------------------------------------------------------------
Next ==
  \/ \E f \in File : \E c \in Holds[f] \cup {Absent}, quiet \in BOOLEAN :
       ExternalEdit(f, c, quiet) \/ MutationWrite(f, c, quiet)
  \/ Refresh \/ StartScan \/ ListRoots \/ ScanRead \/ EndScan
  \/ \E f \in File : ScanStat(f)
  \/ \E o \in Observer :
       \/ \E S \in Detail : Observe(o, S)
       \/ \E f \in File : ObserveStat(o, f)
       \/ ObserveRead(o) \/ ObserveApply(o)

Spec == Init /\ [][Next]_vars

-------------------------------------------------------------------------------
(* Properties.                                                             *)

\* A later read of a file is never replaced by an earlier one, whether it was a
\* scan or an observation that read it, and whichever of them ended first.
LatestReadWins ==
  [][\A f \in DOMAIN files : f \in DOMAIN files' => files'[f].seq >= files[f].seq]_vars

\* What the tracker would use again without reading it is what the file holds.
StampTells(f, entry) ==
  disk[f] # Absent /\ entry.stamp = disk[f].stamp /\ f \notin forged
    => entry.digest = disk[f].content
StampsTell == \A f \in DOMAIN files : StampTells(f, files[f])

\* Once a scan that began after the last edit has ended and nothing is under
\* way, everything published is what the disk holds, and nothing of the catalog
\* is left out.  A file that was observed during a scan which no longer found it
\* in the catalog may stay, with what it holds, until the next scan.  An edit
\* that kept the stamp of a file may be missed.
Idle == scan = None /\ queue = <<>> /\ \A o \in Observer : observing[o] = None
SettledAgrees ==
  Idle /\ scannedSince /\ forged = {} =>
    /\ missing = TrueMissing /\ TrueFiles \subseteq DOMAIN files
    /\ \A f \in DOMAIN files : disk[f] # Absent /\ files[f].digest = disk[f].content

\* When a mutation is answered, the published revision knows what it wrote, also
\* when the stamp of the file did not change and whatever was being read in the
\* meantime.  A file that was removed may come back from an observation that had
\* read it before, until the scan that this observation asks for.
MutationPublished ==
  mutation # None /\ mutation.answered
    /\ mutation.file \in Perimeter /\ forged \cap Above(mutation.file) \subseteq {mutation.file}
    => LET f == mutation.file IN
       IF mutation.content # Absent
       THEN f \in DOMAIN files /\ files[f].digest = mutation.content
       ELSE f \notin DOMAIN files \/ queue # <<>> \/ scan # None

\* The published revision is that of the disk: when everything is at rest, and at the answer
\* of a mutation for what it wrote.
PublishedIsDisk == SettledAgrees /\ MutationPublished
==============================================================================

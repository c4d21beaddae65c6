----------------------------- MODULE CatalogProofs -----------------------------
(***************************************************************************)
(* Proofs about CatalogRevision, for any files, contents and references,   *)
(* and for any overlap of scans, observations, mutations and edits; and    *)
(* about CatalogStore, for any endpoints, actions and budget, and for any  *)
(* order in which answers, polls and changes of workspace arrive.          *)
(***************************************************************************)
EXTENDS CatalogRevision, CatalogStore, FiniteSetTheorems, TLAPS

USE DEF diskVars

-------------------------------------------------------------------------------
(* Tables.                                                                 *)

LEMMA TableFields ==
  ASSUME NEW m \in Table
  PROVE  DOMAIN m \subseteq File /\ \A f \in DOMAIN m : m[f] \in Entry
BY DEF Table

LEMMA TableIntro ==
  ASSUME NEW S \in SUBSET File, NEW m \in [S -> Entry]
  PROVE  m \in Table
BY DEF Table

\* A table with one more entry.
LEMMA KnownTable ==
  ASSUME NEW m \in Table, NEW f \in File, NEW e \in Entry
  PROVE  /\ Known(m, f, e) \in Table /\ DOMAIN Known(m, f, e) = DOMAIN m \cup {f}
         /\ Known(m, f, e)[f] = e
         /\ \A g \in DOMAIN m : g # f => Known(m, f, e)[g] = m[g]
<1>1. Known(m, f, e) \in [DOMAIN m \cup {f} -> Entry]
      BY TableFields DEF Known
<1> QED
    BY <1>1, TableFields, TableIntro DEF Known

-------------------------------------------------------------------------------
(* The perimeter.                                                          *)

LEMMA RefsFile ==
  ASSUME NEW f \in File, NEW c \in Content \cup {Gone}
  PROVE  Refs[f][c] \subseteq File
BY FileAssumption

LEMMA PerimeterLeast ==
  ASSUME NEW S \in SUBSET File, Roots \subseteq S, Closed(S)
  PROVE  Perimeter \subseteq S
BY DEF Perimeter

LEMMA PerimeterClosed ==
  ASSUME TypeOK
  PROVE  /\ Roots \subseteq Perimeter
         /\ \A f \in Perimeter : disk[f] # Absent => Refs[f][disk[f].content] \subseteq Perimeter
<1>1. Roots \subseteq Perimeter
      BY FileAssumption DEF Perimeter, Roots
<1>2. ASSUME NEW f \in Perimeter, disk[f] # Absent, NEW g \in Refs[f][disk[f].content]
      PROVE  g \in Perimeter
  <2>1. f \in File /\ disk[f].content \in Content
        BY <1>2 DEF Perimeter, TypeOK, Present
  <2>2. g \in File
        BY <1>2, <2>1, RefsFile
  <2>3. \A S \in SUBSET File : Roots \subseteq S /\ Closed(S) => g \in S
        BY <1>2 DEF Perimeter, Closed
  <2> QED
      BY <2>2, <2>3 DEF Perimeter
<1> QED
    BY <1>1, <1>2

LEMMA AboveFacts ==
  ASSUME NEW f \in File
  PROVE  /\ f \in Above(f) /\ Above(f) \subseteq File
         /\ \A p \in File, c \in Content : p \notin Above(f) => Refs[p][c] \cap Above(f) = {}
<1>1. f \in Above(f) /\ Above(f) \subseteq File
      BY DEF Above
<1>2. ASSUME NEW p \in File, NEW c \in Content, NEW g \in Refs[p][c], g \in Above(f)
      PROVE  p \in Above(f)
  <2>1. \A S \in SUBSET File : g \in S => LeadsInto(p, S)
        BY <1>2 DEF LeadsInto
  <2> QED
      BY <1>2, <2>1 DEF Above
<1> QED
    BY <1>1, <1>2

\* The files that lead to f are enough to find it.
LEMMA InSight ==
  ASSUME TypeOK, NEW f \in Perimeter, NEW V \in SUBSET File, Roots \cap Above(f) \subseteq V,
         \A p \in V \cap Above(f) : p # f /\ disk[p] # Absent => Refs[p][disk[p].content] \subseteq V
  PROVE  f \in V
<1> SUFFICES ASSUME f \notin V PROVE FALSE
    OBVIOUS
<1> DEFINE S == V \cup (File \ Above(f))
<1>1. f \in File
      BY DEF Perimeter
<1>2. Roots \subseteq S
      BY FileAssumption DEF Roots
<1>3. ASSUME NEW p \in S, disk[p] # Absent PROVE Refs[p][disk[p].content] \subseteq S
  <2>1. p \in File /\ disk[p].content \in Content
        BY <1>3 DEF TypeOK, Present
  <2>2. CASE p \in V /\ p \in Above(f)
        BY <1>3, <2>2
  <2>3. CASE p \notin Above(f)
        BY <1>1, <2>1, <2>3, AboveFacts, RefsFile
  <2> QED
      BY <1>3, <2>1, <2>2, <2>3
<1>4. f \in S
      BY <1>2, <1>3, PerimeterLeast DEF Closed
<1> QED
    BY <1>1, <1>4, AboveFacts

\* An edit of a file that does not lead to f leaves f in the catalog or out of it.
LEMMA PerimeterLocal ==
  ASSUME TypeOK, TypeOK', NEW f \in File, \A p \in Above(f) : disk'[p] = disk[p], f \in Perimeter'
  PROVE  f \in Perimeter
<1> SUFFICES ASSUME NEW S \in SUBSET File, Roots \subseteq S, Closed(S), f \notin S PROVE FALSE
    BY DEF Perimeter
<1> DEFINE T == S \cup (File \ Above(f))
<1>1. Roots' \subseteq T
      BY FileAssumption, AboveFacts DEF Roots
<1>2. ASSUME NEW p \in T, disk'[p] # Absent PROVE Refs[p][disk'[p].content] \subseteq T
  <2>1. p \in File /\ disk'[p].content \in Content
        BY <1>2 DEF TypeOK, Present
  <2>2. CASE p \in S /\ p \in Above(f)
        BY <1>2, <2>2 DEF Closed
  <2>3. CASE p \notin Above(f)
        BY <2>1, <2>3, AboveFacts, RefsFile
  <2> QED
      BY <1>2, <2>1, <2>2, <2>3
<1>3. f \in T
      BY <1>1, <1>2 DEF Perimeter, Closed
<1> QED
    BY <1>3, AboveFacts

-------------------------------------------------------------------------------
(* What is known of the files, and the invariant.                          *)

\* File f is there, with stamp st.
Current(f, st) == disk[f] # Absent /\ st = disk[f].stamp

\* Entry e is what somebody holds of file f.
Has(f, e) ==
  \/ f \in DOMAIN files /\ e = files[f]
  \/ scan # None /\ f \in DOMAIN scan.read /\ e = scan.read[f]
  \/ \E o \in Observer : /\ observing[o] # None /\ f \in DOMAIN observing[o].got
                         /\ e = observing[o].got[f]

\* Read r is under way.
Reads(r) ==
  \/ scan # None /\ scan.reading # None /\ r = scan.reading
  \/ \E o \in Observer : observing[o] # None /\ observing[o].reading # None /\ r = observing[o].reading

\* Somebody holds or reads f as of stamp st, with read number sq.
Noted(f, st, sq) ==
  \/ \E e \in Entry : Has(f, e) /\ st = e.stamp /\ sq = e.seq
  \/ \E r \in Reading : Reads(r) /\ f = r.file /\ st = r.stamp /\ sq = r.seq

\* The numbers of the reads and the stamps grow together.
NumbersInv ==
  /\ \A f \in File : disk[f] # Absent => disk[f].stamp <= stamps
  /\ \A f \in File, st, sq \in Nat : Noted(f, st, sq) =>
       sq <= clock /\ st <= stamps /\ (disk[f] # Absent => st <= disk[f].stamp)
  /\ \A f \in File, st, sq, st2, sq2 \in Nat :
       Noted(f, st, sq) /\ Noted(f, st2, sq2) /\ sq <= sq2 => st <= st2

TellsInv == \A f \in File, e \in Entry : Has(f, e) => StampTells(f, e)

\* What the scan has found of the files in A is what they are now.
ScanRight(A) ==
  /\ \A f \in DOMAIN scan.read \cap A : Current(f, scan.read[f].stamp)
  /\ scan.reading # None /\ scan.reading.file \in A => Current(scan.reading.file, scan.reading.stamp)
  /\ \A f \in (scan.visited \ scan.todo) \cap A : f \in DOMAIN scan.read \/ disk[f] = Absent
  /\ \A f \in scan.missing \cap A : disk[f] = Absent
  /\ scan.listed => Roots \cap A \subseteq scan.visited
  /\ \A f \in A, st, sq \in Nat : Noted(f, st, sq) /\ sq > scan.started => Current(f, st)

\* How the scan goes from file to file.
ScanLinks ==
  /\ \A f \in DOMAIN scan.read : Refs[f][scan.read[f].digest] \subseteq scan.visited
  /\ DOMAIN scan.read \cup scan.missing \cup scan.todo \subseteq scan.visited
  /\ Collections \notin scan.missing
  /\ scan.visited \ scan.todo \subseteq DOMAIN scan.read \cup scan.missing \cup {Collections}
  /\ ~scan.listed => scan.visited = {}
  /\ scan.reading # None => scan.reading.file \in scan.visited

ScanInv ==
  scan # None =>
    /\ ScanLinks
    /\ scan.fresh => ScanRight(File) /\ (forged = {} => scan.visited \subseteq Perimeter)
    /\ scannedSince => scan.fresh

Agrees ==
  /\ missing = TrueMissing /\ TrueFiles \subseteq DOMAIN files
  /\ \A f \in DOMAIN files : Current(f, files[f].stamp)

SettledInv == scannedSince /\ forged = {} /\ scan = None /\ queue = <<>> => Agrees

\* At most one scan has a file that it must read again: that of the mutation under way.
Pending == mutation # None /\ ~mutation.answered
InvalidInv ==
  /\ \A i \in DOMAIN queue : queue[i] # {} => /\ Pending /\ queue[i] = {mutation.file}
                                              /\ scan = None \/ scan.invalid = {}
  /\ \A i, j \in DOMAIN queue : queue[i] # {} /\ queue[j] # {} => i = j
  /\ scan # None /\ scan.invalid # {} => Pending /\ scan.invalid = {mutation.file}

\* Whatever was read of f at number s or later has content c.
RightFrom(f, c, s) == \A e \in Entry : Has(f, e) /\ e.seq >= s => e.digest = c

MutationRight(f, c) ==
  /\ IF c = Absent THEN disk[f] = Absent ELSE disk[f] # Absent /\ disk[f].content = c
  /\ scan # None /\ (mutation.answered \/ scan.invalid # {}) => ScanRight(Above(f))
  /\ scan # None /\ scan.invalid # {} /\ c # Absent =>
       /\ scan.reading # None /\ scan.reading.file = f => RightFrom(f, c, scan.reading.seq)
       /\ f \in DOMAIN scan.read => RightFrom(f, c, scan.read[f].seq)
  /\ mutation.answered /\ f \in Perimeter /\ forged \cap Above(f) \subseteq {f} =>
       IF c # Absent THEN f \in DOMAIN files /\ RightFrom(f, c, files[f].seq)
       ELSE f \notin DOMAIN files \/ queue # <<>> \/ scan # None

MutationInv ==
  mutation # None =>
    IF mutation.content = None THEN ~mutation.answered
    ELSE MutationRight(mutation.file, mutation.content)

CatalogInv ==
  TypeOK /\ NumbersInv /\ TellsInv /\ ScanInv /\ SettledInv /\ InvalidInv /\ MutationInv

-------------------------------------------------------------------------------
(* Reads.                                                                  *)

\* A step that leaves the disk alone: an entry is copied, or completes a read; a read
\* begins with the present stamp and the next number.
Grows ==
  /\ UNCHANGED diskVars /\ clock' \in {clock, clock + 1}
  /\ \A f \in File, e \in Entry :
       Has(f, e)' => Has(f, e) \/ \E r \in Reading : Reads(r) /\ r.file = f /\ e = ReadEntry(r)
  /\ \A r \in Reading :
       Reads(r)' => \/ Reads(r)
                    \/ Current(r.file, r.stamp) /\ r.seq = clock + 1 /\ clock' = clock + 1

LEMMA GrowsNoted ==
  ASSUME Grows, NEW f \in File, NEW st, NEW sq, Noted(f, st, sq)'
  PROVE  Noted(f, st, sq) \/ (Current(f, st) /\ sq = clock + 1 /\ clock' = clock + 1)
<1>1. CASE \E e \in Entry : Has(f, e)' /\ st = e.stamp /\ sq = e.seq
  <2>1. PICK e \in Entry : Has(f, e)' /\ st = e.stamp /\ sq = e.seq
        BY <1>1
  <2>2. CASE Has(f, e)
        BY <2>1, <2>2 DEF Noted
  <2>3. CASE \E r \in Reading : Reads(r) /\ r.file = f /\ e = ReadEntry(r)
    <3>1. PICK r \in Reading : Reads(r) /\ r.file = f /\ e = ReadEntry(r)
          BY <2>3
    <3>2. st = r.stamp /\ sq = r.seq
          BY <2>1, <3>1 DEF ReadEntry
    <3> QED
        BY <3>1, <3>2 DEF Noted
  <2> QED
      BY <2>1, <2>2, <2>3 DEF Grows
<1>2. CASE \E r \in Reading : Reads(r)' /\ f = r.file /\ st = r.stamp /\ sq = r.seq
      BY <1>2 DEF Grows, Noted
<1> QED
    BY <1>1, <1>2 DEF Noted

LEMMA GrowsNumbers ==
  ASSUME TypeOK, NumbersInv, Grows
  PROVE  NumbersInv'
<1>1. \A f \in File : disk'[f] # Absent => disk'[f].stamp <= stamps'
      BY DEF Grows, NumbersInv
<1>2. ASSUME NEW f \in File, NEW st \in Nat, NEW sq \in Nat, Noted(f, st, sq)'
      PROVE  sq <= clock' /\ st <= stamps' /\ (disk'[f] # Absent => st <= disk'[f].stamp)
      BY <1>2, GrowsNoted DEF Grows, NumbersInv, Current, TypeOK, Present
<1>3. ASSUME NEW f \in File, NEW st \in Nat, NEW sq \in Nat, NEW st2 \in Nat, NEW sq2 \in Nat,
             Noted(f, st, sq)', Noted(f, st2, sq2)', sq <= sq2
      PROVE  st <= st2
  <2>1. CASE Noted(f, st2, sq2)
    <3>1. sq2 <= clock
          BY <2>1 DEF NumbersInv
    <3>2. Noted(f, st, sq)
          BY <1>3, <3>1, GrowsNoted DEF TypeOK
    <3> QED
        BY <1>3, <2>1, <3>2 DEF NumbersInv
  <2>2. CASE Current(f, st2) /\ sq2 = clock + 1
    <3>1. CASE Noted(f, st, sq)
          BY <2>2, <3>1 DEF NumbersInv, Current
    <3>2. CASE Current(f, st)
          BY <2>2, <3>2 DEF Current, TypeOK, Present
    <3> QED
        BY <1>3, <3>1, <3>2, GrowsNoted
  <2> QED
      BY <1>3, <2>1, <2>2, GrowsNoted
<1> QED
    BY <1>1, <1>2, <1>3 DEF NumbersInv

LEMMA GrowsTells ==
  ASSUME TypeOK, TellsInv, Grows
  PROVE  TellsInv'
<1> SUFFICES ASSUME NEW f \in File, NEW e \in Entry, Has(f, e)' PROVE StampTells(f, e)'
    BY DEF TellsInv
<1>1. CASE Has(f, e)
      BY <1>1 DEF TellsInv, StampTells, Grows
<1>2. CASE \E r \in Reading : Reads(r) /\ r.file = f /\ e = ReadEntry(r)
      BY <1>2 DEF ReadEntry, DigestOf, StampTells, Grows
<1> QED
    BY <1>1, <1>2 DEF Grows

\* What was read of f since read number s has the content that f still has.
LEMMA GrowsRight ==
  ASSUME Grows, NEW f \in File, NEW c, disk[f] # Absent, disk[f].content = c,
         NEW s, RightFrom(f, c, s)
  PROVE  RightFrom(f, c, s)'
<1> SUFFICES ASSUME NEW e \in Entry, Has(f, e)', e.seq >= s PROVE e.digest = c
    BY DEF RightFrom, Grows
<1>1. CASE Has(f, e)
      BY <1>1 DEF RightFrom
<1>2. CASE \E r \in Reading : Reads(r) /\ r.file = f /\ e = ReadEntry(r)
      BY <1>2 DEF ReadEntry, DigestOf
<1> QED
    BY <1>1, <1>2 DEF Grows

\* An entry that was read when a current one was, or later, is current.
LEMMA LaterCurrent ==
  ASSUME TypeOK, NumbersInv, NEW f \in File, NEW e \in Entry, Has(f, e), Current(f, e.stamp),
         NEW d \in Entry, Has(f, d), d.seq >= e.seq
  PROVE  Current(f, d.stamp)
<1>1. Noted(f, e.stamp, e.seq) /\ Noted(f, d.stamp, d.seq)
      BY DEF Noted
<1>2. e.stamp <= d.stamp /\ d.stamp <= disk[f].stamp
      BY <1>1 DEF NumbersInv, Current, Entry
<1> QED
    BY <1>2 DEF Current, Entry, TypeOK, Present

-------------------------------------------------------------------------------
(* The steps beside the scan.                                              *)

LEMMA BesideRight ==
  ASSUME Grows, scan # None, UNCHANGED scan, NEW A \in SUBSET File, ScanRight(A)
  PROVE  ScanRight(A)'
<1>1. ASSUME NEW f \in A, NEW st \in Nat, NEW sq \in Nat, Noted(f, st, sq)', sq > scan.started
      PROVE  Current(f, st)
      BY <1>1, GrowsNoted DEF ScanRight
<1> QED
    BY <1>1 DEF ScanRight, Grows, Current, Roots

LEMMA BesideScan ==
  ASSUME CatalogInv, Grows, UNCHANGED <<scan, mutation, scannedSince>>,
         queue' \in {queue, Append(queue, {})}
  PROVE  ScanInv' /\ InvalidInv'
<1>1. UNCHANGED disk /\ UNCHANGED forged
      BY DEF Grows
<1>2. UNCHANGED Perimeter
      BY <1>1 DEF Perimeter, Roots, Closed
<1>3. ScanInv'
      BY <1>1, <1>2, BesideRight DEF CatalogInv, ScanInv, ScanLinks
<1>4. queue \in Seq(SUBSET File)
      BY DEF CatalogInv, TypeOK
<1>5. InvalidInv'
  <2>1. CASE queue' = queue
        BY <2>1 DEF CatalogInv, InvalidInv, Pending
  <2>2. CASE queue' = Append(queue, {})
    <3>1. \A i \in DOMAIN queue' : queue'[i] # {} => i \in DOMAIN queue /\ queue'[i] = queue[i]
          BY <1>4, <2>2
    <3> QED
        BY <3>1 DEF CatalogInv, InvalidInv, Pending
  <2> QED
      BY <2>1, <2>2
<1> QED
    BY <1>3, <1>5

\* What the mutation wrote, but for what the tracker publishes of it.
LEMMA BesideMutation ==
  ASSUME CatalogInv, Grows, UNCHANGED <<scan, mutation>>, NEW f \in File, NEW c, MutationRight(f, c),
         mutation.answered /\ f \in Perimeter /\ forged \cap Above(f) \subseteq {f} =>
           IF c # Absent THEN (f \in DOMAIN files /\ RightFrom(f, c, files[f].seq))'
           ELSE f \notin DOMAIN files' \/ queue' # <<>> \/ scan # None
  PROVE  MutationRight(f, c)'
<1>1. UNCHANGED disk /\ UNCHANGED forged
      BY DEF Grows
<1>2. UNCHANGED Perimeter
      BY <1>1 DEF Perimeter, Roots, Closed
<1>3. scan # None /\ (mutation.answered \/ scan.invalid # {}) => ScanRight(Above(f))'
      BY AboveFacts, BesideRight DEF MutationRight
<1>4. \A s : c # Absent /\ RightFrom(f, c, s) => RightFrom(f, c, s)'
      BY GrowsRight DEF MutationRight
<1> QED
    BY <1>1, <1>2, <1>3, <1>4 DEF MutationRight

\* The steps that publish nothing.
LEMMA BesideKeeps ==
  ASSUME CatalogInv, TypeOK', Grows, UNCHANGED <<files, missing, scan, mutation, scannedSince>>,
         queue' \in {queue, Append(queue, {})}
  PROVE  CatalogInv'
<1>1. UNCHANGED disk /\ UNCHANGED forged
      BY DEF Grows
<1>2. UNCHANGED Perimeter
      BY <1>1 DEF Perimeter, Roots, Closed
<1>3. NumbersInv' /\ TellsInv' /\ ScanInv' /\ InvalidInv'
      BY GrowsNumbers, GrowsTells, BesideScan DEF CatalogInv
<1>4. queue' = <<>> => queue = <<>>
      BY DEF CatalogInv, TypeOK
<1>5. SettledInv'
      BY <1>1, <1>2, <1>4 DEF CatalogInv, SettledInv, Agrees, TrueMissing, TrueFiles, Current
<1>6. ASSUME NEW f \in File, NEW c, MutationRight(f, c) PROVE MutationRight(f, c)'
  <2>1. \A s : c # Absent /\ RightFrom(f, c, s) => RightFrom(f, c, s)'
        BY <1>6, GrowsRight DEF MutationRight
  <2>2. mutation.answered /\ f \in Perimeter /\ forged \cap Above(f) \subseteq {f} =>
           IF c # Absent THEN (f \in DOMAIN files /\ RightFrom(f, c, files[f].seq))'
           ELSE f \notin DOMAIN files' \/ queue' # <<>> \/ scan # None
        BY <1>4, <1>6, <2>1 DEF MutationRight
  <2> QED
      BY <1>6, <2>2, BesideMutation
<1>7. mutation # None => mutation.file \in File
      BY DEF CatalogInv, TypeOK, Mutation
<1>8. MutationInv'
      BY <1>6, <1>7 DEF CatalogInv, MutationInv
<1> QED
    BY <1>3, <1>5, <1>8 DEF CatalogInv

\* Observer o goes on to b.
LEMMA ObserverGrows ==
  ASSUME TypeOK, NEW o \in Observer, NEW b \in Observation \cup {None},
         observing' = [observing EXCEPT ![o] = b],
         UNCHANGED <<diskVars, scan>>, clock' \in {clock, clock + 1},
         \A f \in DOMAIN files' : Has(f, files'[f]),
         b # None => \A f \in DOMAIN b.got :
            Has(f, b.got[f]) \/ \E r \in Reading : Reads(r) /\ r.file = f /\ b.got[f] = ReadEntry(r),
         b # None /\ b.reading # None =>
            \/ Reads(b.reading)
            \/ /\ Current(b.reading.file, b.reading.stamp)
               /\ b.reading.seq = clock + 1 /\ clock' = clock + 1
  PROVE  Grows
<1>1. observing'[o] = b /\ \A p \in Observer : p # o => observing'[p] = observing[p]
      BY DEF TypeOK
<1>2. ASSUME NEW f \in File, NEW e \in Entry, Has(f, e)'
      PROVE  Has(f, e) \/ \E r \in Reading : Reads(r) /\ r.file = f /\ e = ReadEntry(r)
      BY <1>1, <1>2 DEF Has
<1>3. ASSUME NEW r \in Reading, Reads(r)'
      PROVE  \/ Reads(r)
             \/ Current(r.file, r.stamp) /\ r.seq = clock + 1 /\ clock' = clock + 1
      BY <1>1, <1>3 DEF Reads
<1> QED
    BY <1>2, <1>3 DEF Grows

LEMMA FilesHeld ==
  ASSUME TypeOK
  PROVE  \A f \in DOMAIN files : Has(f, files[f])
BY DEF Has

LEMMA RefreshKeeps ==
  ASSUME CatalogInv, Refresh
  PROVE  CatalogInv'
<1>1. TypeOK'
      BY DEF CatalogInv, TypeOK, Refresh
<1>2. Grows
      BY DEF Refresh, Grows, Has, Reads
<1> QED
    BY <1>1, <1>2, BesideKeeps DEF Refresh

LEMMA ObserveKeeps ==
  ASSUME CatalogInv, NEW o \in Observer, NEW S \in Detail, Observe(o, S)
  PROVE  CatalogInv'
<1> DEFINE b == [todo |-> S, reading |-> None, got |-> <<>>]
<1>1. <<>> \in Table
  <2>1. <<>> \in [{} -> Entry]
        OBVIOUS
  <2> QED
      BY <2>1, TableIntro
<1>2. b \in Observation
      BY <1>1, DetailAssumption DEF Observation
<1>3. DOMAIN b.got = {}
      OBVIOUS
<1>4. observing' = [observing EXCEPT ![o] = b]
      BY DEF Observe
<1> HIDE DEF b
<1>5. TypeOK'
      BY <1>2, <1>4 DEF CatalogInv, TypeOK, Observe
<1>6. b.reading = None
      BY DEF b
<1>7. Grows
      BY <1>2, <1>3, <1>4, <1>6, ObserverGrows, FilesHeld DEF CatalogInv, Observe
<1> QED
    BY <1>5, <1>7, BesideKeeps DEF Observe

LEMMA ObserveStatKeeps ==
  ASSUME CatalogInv, NEW o \in Observer, NEW f \in File, ObserveStat(o, f)
  PROVE  CatalogInv'
<1> DEFINE a == observing[o]
           r == [file |-> f, stamp |-> disk[f].stamp, seq |-> clock + 1]
<1>1. a \in Observation /\ a # None /\ a.reading = None
      BY DEF CatalogInv, TypeOK, ObserveStat
<1>2. \A g \in DOMAIN a.got : Has(g, a.got[g])
      BY <1>1 DEF Has
<1>3. CASE disk[f] = Absent
  <2> DEFINE b == [a EXCEPT !.todo = @ \ {f}]
  <2>1. /\ observing' = [observing EXCEPT ![o] = b] /\ b \in Observation
        /\ b.reading = None /\ b.got = a.got
        BY <1>1, <1>3 DEF ObserveStat, Observation
  <2> HIDE DEF b
  <2>2. TypeOK'
        BY <1>3, <2>1 DEF CatalogInv, TypeOK, ObserveStat
  <2>3. Grows
        BY <1>2, <1>3, <2>1, ObserverGrows, FilesHeld DEF CatalogInv, ObserveStat
  <2> QED
      BY <2>2, <2>3, BesideKeeps DEF ObserveStat
<1>4. CASE disk[f] # Absent
  <2> DEFINE b == [a EXCEPT !.todo = @ \ {f}, !.reading = r]
  <2>1. disk[f].stamp \in Nat /\ clock \in Nat /\ clock' = clock + 1
        BY <1>4 DEF CatalogInv, TypeOK, Present, ObserveStat
  <2>2. r \in Reading /\ r # None
        BY <2>1, SentinelAssumption DEF Reading
  <2>3. /\ observing' = [observing EXCEPT ![o] = b] /\ b \in Observation
        /\ b.reading = r /\ b.got = a.got
        BY <1>1, <1>4, <2>2 DEF ObserveStat, Observation
  <2>4. Current(r.file, r.stamp) /\ r.seq = clock + 1
        BY <1>4 DEF Current
  <2> HIDE DEF b, r
  <2>5. TypeOK'
        BY <2>1, <2>3 DEF CatalogInv, TypeOK, ObserveStat
  <2>6. Grows
        BY <1>2, <2>1, <2>3, <2>4, ObserverGrows, FilesHeld DEF CatalogInv, ObserveStat
  <2> QED
      BY <2>5, <2>6, BesideKeeps DEF ObserveStat
<1> QED
    BY <1>3, <1>4

\* A read that ends gives an entry.
LEMMA ReadEntryType ==
  ASSUME TypeOK, NEW r \in Reading
  PROVE  ReadEntry(r) \in Entry
BY DEF TypeOK, Reading, Entry, ReadEntry, DigestOf, Present

LEMMA ObserveReadKeeps ==
  ASSUME CatalogInv, NEW o \in Observer, ObserveRead(o)
  PROVE  CatalogInv'
<1> DEFINE a == observing[o]
           r == a.reading
           e == ReadEntry(r)
           got == IF e.digest \in {Gone, Unreadable} THEN a.got ELSE Known(a.got, r.file, e)
           b == [a EXCEPT !.reading = None, !.got = got]
<1>1. a \in Observation /\ a # None /\ r \in Reading /\ Reads(r) /\ r.file \in File /\ a.got \in Table
      BY DEF CatalogInv, TypeOK, ObserveRead, Observation, Reads, Reading
<1>2. e \in Entry
      BY <1>1, ReadEntryType DEF CatalogInv
<1>3. observing' = [observing EXCEPT ![o] = b]
      BY DEF ObserveRead
<1> HIDE DEF e
<1>4. got \in Table /\ (got = a.got \/ got = Known(a.got, r.file, e))
      BY <1>1, <1>2, KnownTable
<1> HIDE DEF got
<1>5. \A g \in DOMAIN got : Has(g, got[g]) \/ (g = r.file /\ got[g] = e)
  <2>1. \A g \in DOMAIN a.got : Has(g, a.got[g])
        BY <1>1 DEF Has
  <2>2. CASE got = a.got
        BY <2>1, <2>2
  <2>3. CASE got = Known(a.got, r.file, e)
    <3>1. /\ DOMAIN got = DOMAIN a.got \cup {r.file} /\ got[r.file] = e
          /\ \A g \in DOMAIN a.got : g # r.file => got[g] = a.got[g]
      <4> DEFINE m == a.got
                 f == r.file
      <4>1. m \in Table /\ f \in File /\ e \in Entry /\ got = Known(m, f, e)
            BY <1>1, <1>2, <2>3
      <4> HIDE DEF m, f
      <4>2. DOMAIN got = DOMAIN m \cup {f} /\ got[f] = e /\ \A g \in DOMAIN m : g # f => got[g] = m[g]
            BY <4>1, KnownTable
      <4> QED
          BY <4>2 DEF m, f
    <3> QED
        BY <2>1, <3>1
  <2> QED
      BY <1>4, <2>2, <2>3
<1>6. b \in Observation /\ b.reading = None /\ b.got = got
      BY <1>1, <1>4 DEF Observation
<1> HIDE DEF b
<1>7. TypeOK'
      BY ZenonT(30), <1>3, <1>6 DEF CatalogInv, TypeOK, ObserveRead
<1>8. e = ReadEntry(r)
      BY DEF e
<1>9. \A g \in DOMAIN b.got :
        Has(g, b.got[g]) \/ \E q \in Reading : Reads(q) /\ q.file = g /\ b.got[g] = ReadEntry(q)
      BY <1>1, <1>5, <1>6, <1>8
<1> HIDE DEF a, r
<1>10. Grows
      BY <1>3, <1>6, <1>9, ObserverGrows, FilesHeld DEF CatalogInv, ObserveRead
<1> QED
    BY <1>7, <1>10, BesideKeeps DEF ObserveRead

\* What is published of a file is replaced only by what was read of it later.
LaterOnly == \A f \in DOMAIN files : f \in DOMAIN files' => files'[f].seq >= files[f].seq

\* What the end of an observation publishes.
LEMMA ApplyFields ==
  ASSUME TypeOK, NEW o \in Observer, ObserveApply(o)
  PROVE  /\ files' \in Table /\ DOMAIN files \subseteq DOMAIN files' /\ LaterOnly
         /\ \A f \in DOMAIN files' : Has(f, files'[f])
         /\ \A f \in DOMAIN files' : f \notin DOMAIN files => queue' = Append(queue, {})
<1> DEFINE got == observing[o].got
           new == Newer(got)
<1>1. observing[o] \in Observation /\ observing[o] # None /\ got \in Table
      BY DEF TypeOK, ObserveApply, Observation
<1>2. /\ DOMAIN files \subseteq File /\ \A f \in DOMAIN files : files[f] \in Entry
      /\ DOMAIN got \subseteq File /\ \A f \in DOMAIN got : got[f] \in Entry /\ Has(f, got[f])
      /\ new \subseteq DOMAIN got
      BY <1>1, TableFields DEF TypeOK, Has, Newer
<1>3. /\ files' = [f \in DOMAIN files \cup new |-> IF f \in new THEN got[f] ELSE files[f]]
      /\ queue' = IF \E f \in new : ChangesStructure(f, got[f]) THEN Append(queue, {}) ELSE queue
      BY DEF ObserveApply
<1> HIDE DEF got
<1>4. files' \in [DOMAIN files \cup new -> Entry]
      BY <1>2, <1>3
<1>5. files' \in Table
      BY <1>2, <1>4, TableIntro
<1>6. \A f \in DOMAIN files' : Has(f, files'[f])
      BY <1>2, <1>3, FilesHeld
<1>7. LaterOnly
      BY <1>2, <1>3 DEF LaterOnly, Newer, Entry
<1>8. \A f \in new : f \notin DOMAIN files => ChangesStructure(f, got[f])
      BY DEF ChangesStructure
<1> QED
    BY <1>3, <1>5, <1>6, <1>7, <1>8

LEMMA ObserveApplyKeeps ==
  ASSUME CatalogInv, NEW o \in Observer, ObserveApply(o)
  PROVE  CatalogInv'
<1>1. TypeOK'
  <2>1. files' \in Table
        BY ApplyFields DEF CatalogInv
  <2>2. queue' \in Seq(SUBSET File)
        BY DEF CatalogInv, TypeOK, ObserveApply
  <2> QED
      BY <2>1, <2>2 DEF CatalogInv, TypeOK, ObserveApply
<1>2. Grows
      BY ApplyFields, ObserverGrows DEF CatalogInv, ObserveApply
<1>3. UNCHANGED disk /\ UNCHANGED forged
      BY <1>2 DEF Grows
<1>4. UNCHANGED Perimeter
      BY <1>3 DEF Perimeter, Roots, Closed
<1>5. NumbersInv' /\ TellsInv' /\ ScanInv' /\ InvalidInv'
      BY <1>2, GrowsNumbers, GrowsTells, BesideScan DEF CatalogInv, ObserveApply
<1>6. /\ files \in Table /\ files' \in Table
      /\ DOMAIN files \subseteq DOMAIN files' /\ LaterOnly
      /\ \A f \in DOMAIN files' : Has(f, files'[f])
      /\ \A f \in DOMAIN files' : f \notin DOMAIN files => queue' = Append(queue, {})
      BY ApplyFields DEF CatalogInv, TypeOK
<1>7. Append(queue, {}) # <<>> /\ (queue' = <<>> => queue = <<>>)
      BY DEF CatalogInv, TypeOK, ObserveApply
<1>8. SettledInv'
  <2> SUFFICES ASSUME scannedSince', forged' = {}, scan' = None, queue' = <<>> PROVE Agrees'
      BY DEF SettledInv
  <2>1. Agrees
        BY <1>3, <1>7 DEF CatalogInv, SettledInv, ObserveApply
  <2>2. DOMAIN files' = DOMAIN files
        BY <1>6, <1>7
  <2>3. ASSUME NEW f \in DOMAIN files' PROVE Current(f, files'[f].stamp)
    <3>1. /\ f \in File /\ files[f] \in Entry /\ files'[f] \in Entry
          /\ files'[f].seq >= files[f].seq
          BY <1>6, <2>2, <2>3, TableFields DEF LaterOnly
    <3>2. Has(f, files[f]) /\ Has(f, files'[f]) /\ Current(f, files[f].stamp)
          BY <1>6, <2>1, <2>2, <2>3 DEF Has, Agrees
    <3> QED
        BY <3>1, <3>2, LaterCurrent DEF CatalogInv
  <2> QED
      BY <1>3, <1>4, <2>1, <2>2, <2>3 DEF Agrees, TrueMissing, TrueFiles, Current, ObserveApply
<1>9. ASSUME NEW f \in File, NEW c, MutationRight(f, c) PROVE MutationRight(f, c)'
  <2> SUFFICES ASSUME mutation.answered, f \in Perimeter, forged \cap Above(f) \subseteq {f}
               PROVE  IF c # Absent THEN (f \in DOMAIN files /\ RightFrom(f, c, files[f].seq))'
                      ELSE f \notin DOMAIN files' \/ queue' # <<>> \/ scan # None
      BY <1>2, <1>9, BesideMutation DEF ObserveApply
  <2>1. CASE c # Absent
    <3>1. f \in DOMAIN files /\ RightFrom(f, c, files[f].seq)
          BY <1>9, <2>1 DEF MutationRight
    <3>2. f \in DOMAIN files' /\ files'[f].seq >= files[f].seq /\ files'[f].seq \in Nat /\ files[f].seq \in Nat
          BY <1>6, <3>1, TableFields DEF LaterOnly, Entry
    <3>3. \A s : RightFrom(f, c, s) => RightFrom(f, c, s)'
          BY <1>2, <1>9, <2>1, GrowsRight DEF MutationRight
    <3>4. \A e \in Entry : Has(f, e)' /\ e.seq >= files[f].seq => e.digest = c
          BY <3>1, <3>3 DEF RightFrom
    <3>5. \A e \in Entry : e.seq >= files'[f].seq => e.seq >= files[f].seq
          BY <3>2 DEF Entry
    <3> QED
        BY <2>1, <3>2, <3>4, <3>5 DEF RightFrom
  <2>2. CASE c = Absent
        BY <1>6, <1>7, <1>9, <2>2 DEF MutationRight
  <2> QED
      BY <2>1, <2>2
<1>10. mutation # None => mutation.file \in File
      BY DEF CatalogInv, TypeOK, Mutation
<1>11. MutationInv'
      BY <1>9, <1>10 DEF CatalogInv, MutationInv, ObserveApply
<1> QED
    BY <1>1, <1>5, <1>8, <1>11 DEF CatalogInv

-------------------------------------------------------------------------------
(* The steps of the scan.                                                  *)

\* What a step that goes on with the scan leaves alone.
Continues ==
  /\ scan \in Scan /\ scan' \in Scan /\ scan # None /\ scan' # None
  /\ scan'.started = scan.started /\ scan'.invalid = scan.invalid /\ scan'.fresh = scan.fresh
  /\ UNCHANGED <<files, missing, queue, observing, mutation, scannedSince>>

LEMMA ContinuesGrows ==
  ASSUME TypeOK, Continues, UNCHANGED diskVars, clock' \in {clock, clock + 1},
         \A f \in DOMAIN scan'.read :
            \/ Has(f, scan'.read[f])
            \/ \E r \in Reading : Reads(r) /\ r.file = f /\ scan'.read[f] = ReadEntry(r),
         scan'.reading # None =>
            \/ Reads(scan'.reading)
            \/ /\ Current(scan'.reading.file, scan'.reading.stamp)
               /\ scan'.reading.seq = clock + 1 /\ clock' = clock + 1
  PROVE  Grows
<1>1. ASSUME NEW f \in File, NEW e \in Entry, Has(f, e)'
      PROVE  Has(f, e) \/ \E r \in Reading : Reads(r) /\ r.file = f /\ e = ReadEntry(r)
      BY <1>1 DEF Has, Continues
<1>2. ASSUME NEW r \in Reading, Reads(r)'
      PROVE  \/ Reads(r)
             \/ Current(r.file, r.stamp) /\ r.seq = clock + 1 /\ clock' = clock + 1
      BY <1>2 DEF Reads, Continues
<1> QED
    BY <1>1, <1>2 DEF Grows

\* The scan goes on: what is particular to the step are what it has found, and the
\* reads of what the mutation wrote.
LEMMA ContinuesKeeps ==
  ASSUME CatalogInv, TypeOK', Grows, Continues, ScanLinks',
         \A A \in SUBSET File : ScanRight(A) => ScanRight(A)',
         scan.fresh /\ forged = {} => scan'.visited \subseteq Perimeter,
         \A f \in File : scan.invalid = {f} /\ disk[f] # Absent /\ MutationRight(f, disk[f].content) =>
            /\ scan'.reading # None /\ scan'.reading.file = f =>
                 RightFrom(f, disk[f].content, scan'.reading.seq)
            /\ f \in DOMAIN scan'.read => RightFrom(f, disk[f].content, scan'.read[f].seq)
  PROVE  CatalogInv'
<1>1. UNCHANGED <<disk, forged, files, missing, queue, mutation, scannedSince>> /\ scan # None /\ scan' # None
      BY DEF Grows, Continues
<1>2. UNCHANGED Perimeter
      BY <1>1 DEF Perimeter, Roots, Closed
<1>3. NumbersInv' /\ TellsInv' /\ InvalidInv'
  <2>1. InvalidInv'
        BY <1>1 DEF CatalogInv, InvalidInv, Pending, Continues
  <2> QED
      BY <2>1, GrowsNumbers, GrowsTells DEF CatalogInv
<1>4. ScanInv'
  <2>1. ScanLinks /\ (scan.fresh => ScanRight(File)) /\ (scannedSince => scan.fresh)
        BY <1>1 DEF CatalogInv, ScanInv
  <2>2. scan'.fresh = scan.fresh
        BY DEF Continues
  <2>3. scan.fresh => ScanRight(File)'
        BY <2>1
  <2> QED
      BY <1>1, <1>2, <2>1, <2>2, <2>3 DEF ScanInv
<1>5. SettledInv'
      BY <1>1 DEF SettledInv
<1>6. ASSUME NEW f \in File, NEW c, mutation # None, mutation.file = f, MutationRight(f, c)
      PROVE  MutationRight(f, c)'
  <2>1. scan'.invalid = scan.invalid /\ Above(f) \in SUBSET File
        BY AboveFacts DEF Continues
  <2>2. scan # None /\ (mutation.answered \/ scan.invalid # {}) => ScanRight(Above(f))'
        BY <1>6, <2>1 DEF MutationRight
  <2>3. c # Absent => disk[f] # Absent /\ disk[f].content = c
        BY <1>6 DEF MutationRight
  <2>4. \A s : c # Absent /\ RightFrom(f, c, s) => RightFrom(f, c, s)'
        BY <2>3, GrowsRight
  <2>5. scan.invalid # {} => scan.invalid = {f}
        BY <1>1, <1>6 DEF CatalogInv, InvalidInv
  <2>6. scan.invalid # {} /\ c # Absent =>
          /\ scan'.reading # None /\ scan'.reading.file = f => RightFrom(f, c, scan'.reading.seq)
          /\ f \in DOMAIN scan'.read => RightFrom(f, c, scan'.read[f].seq)
        BY <1>6, <2>3, <2>5
  <2>7. scan.invalid # {} /\ c # Absent =>
          (/\ scan.reading # None /\ scan.reading.file = f => RightFrom(f, c, scan.reading.seq)
           /\ f \in DOMAIN scan.read => RightFrom(f, c, scan.read[f].seq))'
        BY <2>4, <2>6
  <2> QED
      BY <1>1, <1>2, <1>6, <2>1, <2>2, <2>3, <2>4, <2>7 DEF MutationRight
<1>7. mutation # None => mutation.file \in File
      BY DEF CatalogInv, TypeOK, Mutation
<1>8. MutationInv'
      BY <1>1, <1>6, <1>7 DEF CatalogInv, MutationInv
<1> QED
    BY <1>3, <1>4, <1>5, <1>8 DEF CatalogInv

\* The part of ScanRight about the numbers.
LEMMA ContinuesNoted ==
  ASSUME Grows, Continues, NEW A \in SUBSET File, ScanRight(A)
  PROVE  /\ \A f \in A, st, sq \in Nat : Noted(f, st, sq)' /\ sq > scan'.started => Current(f, st)'
         /\ UNCHANGED <<disk, Roots>>
<1>1. ASSUME NEW f \in A, NEW st \in Nat, NEW sq \in Nat, Noted(f, st, sq)', sq > scan.started
      PROVE  Current(f, st)
      BY <1>1, GrowsNoted DEF ScanRight
<1> QED
    BY <1>1 DEF Grows, Continues, Current, Roots

LEMMA ListRootsKeeps ==
  ASSUME CatalogInv, ListRoots
  PROVE  CatalogInv'
<1>1. scan \in Scan /\ scan # None /\ ~scan.listed
      BY DEF CatalogInv, TypeOK, ListRoots
<1>2. Roots \subseteq File
      BY FileAssumption DEF Roots
<1>3. /\ scan' \in Scan /\ scan'.started = scan.started /\ scan'.invalid = scan.invalid
      /\ scan'.fresh = scan.fresh /\ scan'.listed /\ scan'.todo = Roots /\ scan'.visited = Roots
      /\ scan'.read = scan.read /\ scan'.missing = scan.missing /\ scan'.reading = scan.reading
      BY <1>1, <1>2 DEF ListRoots, Scan
<1>4. Continues /\ TypeOK'
      BY <1>1, <1>3, SentinelAssumption DEF Continues, ListRoots, CatalogInv, TypeOK
<1>5. \A f \in DOMAIN scan.read : Has(f, scan.read[f])
      BY <1>1 DEF Has
<1>6. Grows
      BY <1>1, <1>3, <1>4, <1>5, ContinuesGrows DEF ListRoots, CatalogInv, Reads
<1>7. scan.visited = {} /\ DOMAIN scan.read = {} /\ scan.missing = {} /\ scan.reading = None
      BY <1>1 DEF CatalogInv, ScanInv, ScanLinks
<1>8. ScanLinks'
      BY <1>3, <1>7 DEF ScanLinks
<1>9. ASSUME NEW A \in SUBSET File, ScanRight(A) PROVE ScanRight(A)'
  <2>1. /\ \A f \in A, st, sq \in Nat : Noted(f, st, sq)' /\ sq > scan'.started => Current(f, st)'
        /\ UNCHANGED <<disk, Roots>>
        BY <1>4, <1>6, <1>9, ContinuesNoted
  <2> QED
      BY <1>3, <1>7, <2>1 DEF ScanRight
<1>10. scan'.visited \subseteq Perimeter
      BY <1>3, PerimeterClosed DEF CatalogInv
<1> QED
    BY <1>3, <1>4, <1>6, <1>7, <1>8, <1>9, <1>10, ContinuesKeeps

\* The fields of the scan after it has visited f.
LEMMA VisitFields ==
  ASSUME TypeOK, scan # None, NEW f \in File, NEW e \in Entry, scan' = Visited(scan, f, e)
  PROVE  /\ scan \in Scan /\ scan' \in Scan /\ scan' # None
         /\ scan'.started = scan.started /\ scan'.invalid = scan.invalid
         /\ scan'.listed = scan.listed /\ scan'.fresh = scan.fresh
         /\ scan'.missing = scan.missing /\ scan'.reading = None
         /\ scan'.visited = scan.visited \cup Refs[f][e.digest]
         /\ scan'.todo = (scan.todo \ {f}) \cup (Refs[f][e.digest] \ scan.visited)
         /\ DOMAIN scan'.read = DOMAIN scan.read \cup {f} /\ scan'.read[f] = e
         /\ \A g \in DOMAIN scan.read : g # f => scan'.read[g] = scan.read[g]
<1> DEFINE found == Refs[f][e.digest] \ scan.visited
<1>1. scan \in Scan /\ scan.read \in Table /\ found \subseteq File
      BY RefsFile DEF TypeOK, Scan, Entry
<1>2. /\ Known(scan.read, f, e) \in Table /\ DOMAIN Known(scan.read, f, e) = DOMAIN scan.read \cup {f}
      /\ Known(scan.read, f, e)[f] = e
      /\ \A g \in DOMAIN scan.read : g # f => Known(scan.read, f, e)[g] = scan.read[g]
      BY <1>1, KnownTable
<1>3. scan' = [scan EXCEPT !.read = Known(scan.read, f, e), !.todo = (@ \ {f}) \cup found,
                           !.visited = @ \cup found, !.reading = None]
      BY DEF Visited
<1> HIDE DEF found
<1>4. /\ scan' \in Scan /\ scan'.started = scan.started /\ scan'.invalid = scan.invalid
      /\ scan'.listed = scan.listed /\ scan'.fresh = scan.fresh
      /\ scan'.missing = scan.missing /\ scan'.reading = None
      /\ scan'.visited = scan.visited \cup found /\ scan'.todo = (scan.todo \ {f}) \cup found
      /\ scan'.read = Known(scan.read, f, e)
      BY ZenonT(30), <1>1, <1>2, <1>3 DEF Scan
<1> QED
    BY <1>1, <1>2, <1>4, SentinelAssumption DEF found

\* The scan visits f, with an entry that is current if what it has found is right, and
\* that has what the mutation wrote if the scan is the one that must read it again.
LEMMA VisitKeeps ==
  ASSUME CatalogInv, scan # None, NEW f \in scan.visited, NEW e \in Entry,
         scan' = Visited(scan, f, e),
         UNCHANGED <<diskVars, clock, files, missing, queue, observing, mutation, scannedSince>>,
         Has(f, e) \/ \E r \in Reading : Reads(r) /\ r.file = f /\ e = ReadEntry(r),
         \A A \in SUBSET File : ScanRight(A) /\ f \in A => Current(f, e.stamp),
         scan.invalid = {f} /\ disk[f] # Absent /\ MutationRight(f, disk[f].content) =>
           RightFrom(f, disk[f].content, e.seq)
  PROVE  CatalogInv'
<1>1. f \in File /\ e.digest \in Content \cup {Gone}
      BY DEF CatalogInv, TypeOK, Scan, Entry
<1>2. /\ scan \in Scan /\ scan' \in Scan /\ scan' # None
      /\ scan'.started = scan.started /\ scan'.invalid = scan.invalid
      /\ scan'.listed = scan.listed /\ scan'.fresh = scan.fresh
      /\ scan'.missing = scan.missing /\ scan'.reading = None
      /\ scan'.visited = scan.visited \cup Refs[f][e.digest]
      /\ scan'.todo = (scan.todo \ {f}) \cup (Refs[f][e.digest] \ scan.visited)
      /\ DOMAIN scan'.read = DOMAIN scan.read \cup {f} /\ scan'.read[f] = e
      /\ \A g \in DOMAIN scan.read : g # f => scan'.read[g] = scan.read[g]
      BY <1>1, VisitFields DEF CatalogInv
<1>3. Continues
      BY <1>2 DEF Continues
<1>4. TypeOK'
      BY <1>2 DEF CatalogInv, TypeOK
<1>5. \A g \in DOMAIN scan.read : Has(g, scan.read[g])
      BY DEF Has
<1>6. Grows
  <2>1. \A g \in DOMAIN scan'.read :
          Has(g, scan'.read[g]) \/ \E r \in Reading : Reads(r) /\ r.file = g /\ scan'.read[g] = ReadEntry(r)
        BY <1>2, <1>5
  <2> QED
      BY <1>2, <1>3, <2>1, ContinuesGrows DEF CatalogInv
<1>7. ScanLinks
      BY DEF CatalogInv, ScanInv
<1>8. ScanLinks'
      BY <1>2, <1>7 DEF ScanLinks
<1>9. ASSUME NEW A \in SUBSET File, ScanRight(A) PROVE ScanRight(A)'
  <2>1. /\ \A g \in A, st, sq \in Nat : Noted(g, st, sq)' /\ sq > scan'.started => Current(g, st)'
        /\ UNCHANGED <<disk, Roots>>
        BY <1>3, <1>6, <1>9, ContinuesNoted
  <2>2. f \in A => Current(f, e.stamp)
        BY <1>9
  <2>3. \A g \in DOMAIN scan'.read \cap A : Current(g, scan'.read[g].stamp)
        BY <1>2, <1>9, <2>2 DEF ScanRight
  <2>4. \A g \in (scan'.visited \ scan'.todo) \cap A : g \in DOMAIN scan'.read \/ disk'[g] = Absent
        BY <1>2, <1>9, <2>1 DEF ScanRight
  <2> QED
      BY <1>2, <1>9, <2>1, <2>3, <2>4 DEF ScanRight, Current
<1>10. scan.fresh /\ forged = {} => scan'.visited \subseteq Perimeter
  <2> SUFFICES ASSUME scan.fresh, forged = {} PROVE scan'.visited \subseteq Perimeter
      OBVIOUS
  <2>1. ScanRight(File) /\ scan.visited \subseteq Perimeter
        BY DEF CatalogInv, ScanInv
  <2>2. Current(f, e.stamp)
        BY <1>1, <2>1
  <2>3. Has(f, e)'
        BY <1>2 DEF Has
  <2>4. TellsInv'
        BY <1>6, GrowsTells DEF CatalogInv
  <2>5. e.digest = disk[f].content
        BY <1>1, <2>2, <2>3, <2>4 DEF TellsInv, StampTells, Current
  <2> QED
      BY <1>2, <2>1, <2>2, <2>5, PerimeterClosed DEF CatalogInv, Current
<1>11. ASSUME NEW g \in File, scan.invalid = {g}, disk[g] # Absent, MutationRight(g, disk[g].content),
              g \in DOMAIN scan'.read
       PROVE  RightFrom(g, disk[g].content, scan'.read[g].seq)
  <2>1. CASE g = f
        BY <1>2, <1>11, <2>1
  <2>2. CASE g # f
    <3>1. disk[g].content # Absent
          BY <1>11, SentinelAssumption DEF CatalogInv, TypeOK, Present
    <3> QED
        BY <1>2, <1>11, <2>2, <3>1 DEF MutationRight
  <2> QED
      BY <2>1, <2>2
<1> QED
    BY <1>2, <1>3, <1>4, <1>6, <1>8, <1>9, <1>10, <1>11, ContinuesKeeps

\* What is known of a file that its stamp still describes is used again.
LEMMA ScanReuseKeeps ==
  ASSUME CatalogInv, NEW f \in File, ScanStat(f), disk[f] # Absent, Reusable(f)
  PROVE  CatalogInv'
<1>1. scan \in Scan /\ scan # None /\ scan.reading = None /\ f \in scan.todo
      BY DEF CatalogInv, TypeOK, ScanStat
<1>2. f \in scan.visited
      BY <1>1 DEF CatalogInv, ScanInv, ScanLinks
<1>3. files[f] \in Entry /\ Has(f, files[f]) /\ Current(f, files[f].stamp) /\ f \notin scan.invalid
      BY TableFields DEF CatalogInv, TypeOK, Reusable, Has, Current
<1>4. /\ scan' = Visited(scan, f, files[f])
      /\ UNCHANGED <<diskVars, clock, files, missing, queue, observing, mutation, scannedSince>>
      BY DEF ScanStat
<1> DEFINE e == files[f]
<1>5. e \in Entry /\ Has(f, e) /\ Current(f, e.stamp) /\ scan' = Visited(scan, f, e)
      BY <1>3, <1>4
<1> HIDE DEF e
<1> QED
    BY <1>1, <1>2, <1>3, <1>4, <1>5, VisitKeeps

LEMMA ScanReadKeeps ==
  ASSUME CatalogInv, ScanRead
  PROVE  CatalogInv'
<1> DEFINE r == scan.reading
           e == ReadEntry(r)
           f == r.file
<1>1. scan \in Scan /\ scan # None /\ r \in Reading /\ r # None
      BY DEF CatalogInv, TypeOK, ScanRead, Scan
<1>2. f \in scan.visited
      BY <1>1 DEF CatalogInv, ScanInv, ScanLinks
<1>3. e \in Entry /\ Reads(r) /\ r.file = f /\ e.stamp = r.stamp /\ e.seq = r.seq /\ e = ReadEntry(r)
      BY <1>1, ReadEntryType DEF CatalogInv, Reads, ReadEntry
<1>4. /\ scan' = Visited(scan, f, e)
      /\ UNCHANGED <<diskVars, clock, files, missing, queue, observing, mutation, scannedSince>>
      BY DEF ScanRead
<1>5. \A A \in SUBSET File : ScanRight(A) /\ f \in A => Current(f, e.stamp)
      BY <1>1, <1>3 DEF ScanRight
<1>6. scan.invalid = {f} /\ disk[f] # Absent /\ MutationRight(f, disk[f].content) =>
        RightFrom(f, disk[f].content, e.seq)
  <2> SUFFICES ASSUME scan.invalid = {f}, disk[f] # Absent, MutationRight(f, disk[f].content)
               PROVE  RightFrom(f, disk[f].content, e.seq)
      OBVIOUS
  <2>1. disk[f].content # Absent
        BY <1>1, SentinelAssumption DEF CatalogInv, TypeOK, Present, Reading
  <2> QED
      BY <1>1, <1>3, <2>1 DEF MutationRight
<1> HIDE DEF r, e, f
<1> QED
    BY <1>1, <1>2, <1>3, <1>4, <1>5, <1>6, VisitKeeps

\* The file is not there.
LEMMA ScanAbsentKeeps ==
  ASSUME CatalogInv, NEW f \in File, ScanStat(f), disk[f] = Absent
  PROVE  CatalogInv'
<1>1. scan \in Scan /\ scan # None /\ scan.reading = None /\ f \in scan.todo
      BY DEF CatalogInv, TypeOK, ScanStat
<1>2. /\ scan' \in Scan /\ scan'.started = scan.started /\ scan'.invalid = scan.invalid
      /\ scan'.fresh = scan.fresh /\ scan'.listed = scan.listed /\ scan'.todo = scan.todo \ {f}
      /\ scan'.visited = scan.visited /\ scan'.read = scan.read /\ scan'.reading = None
      /\ scan'.missing = scan.missing \cup ({f} \ {Collections})
  <2> DEFINE lost == {f} \ {Collections}
  <2>1. scan' = [scan EXCEPT !.todo = @ \ {f}, !.missing = @ \cup lost] /\ lost \subseteq File
        BY DEF ScanStat
  <2> HIDE DEF lost
  <2>2. /\ scan' \in Scan /\ scan'.started = scan.started /\ scan'.invalid = scan.invalid
        /\ scan'.fresh = scan.fresh /\ scan'.listed = scan.listed /\ scan'.todo = scan.todo \ {f}
        /\ scan'.visited = scan.visited /\ scan'.read = scan.read /\ scan'.reading = None
        /\ scan'.missing = scan.missing \cup lost
        BY <1>1, <2>1 DEF Scan
  <2> QED
      BY <2>2 DEF lost
<1>3. Continues /\ TypeOK'
      BY <1>1, <1>2, SentinelAssumption DEF Continues, ScanStat, CatalogInv, TypeOK
<1>4. \A g \in DOMAIN scan.read : Has(g, scan.read[g])
      BY <1>1 DEF Has
<1>5. Grows
      BY <1>1, <1>2, <1>3, <1>4, ContinuesGrows DEF ScanStat, CatalogInv
<1>6. ScanLinks /\ (scan.fresh /\ forged = {} => scan.visited \subseteq Perimeter)
      BY <1>1 DEF CatalogInv, ScanInv
<1>7. ScanLinks'
      BY <1>1, <1>2, <1>6 DEF ScanLinks
<1>8. ASSUME NEW A \in SUBSET File, ScanRight(A) PROVE ScanRight(A)'
  <2>1. /\ \A g \in A, st, sq \in Nat : Noted(g, st, sq)' /\ sq > scan'.started => Current(g, st)'
        /\ UNCHANGED <<disk, Roots>>
        BY <1>3, <1>5, <1>8, ContinuesNoted
  <2> QED
      BY <1>2, <1>8, <2>1 DEF ScanRight, Current
<1>9. ASSUME NEW g \in File, scan.invalid = {g}, disk[g] # Absent, MutationRight(g, disk[g].content),
             g \in DOMAIN scan'.read
      PROVE  RightFrom(g, disk[g].content, scan'.read[g].seq)
  <2>1. disk[g].content # Absent
        BY <1>9, SentinelAssumption DEF CatalogInv, TypeOK, Present
  <2> QED
      BY <1>1, <1>2, <1>9, <2>1 DEF MutationRight
<1> QED
    BY <1>2, <1>3, <1>5, <1>6, <1>7, <1>8, <1>9, ContinuesKeeps

\* A read begins, with a number that nothing has yet.
LEMMA ScanFirstStatKeeps ==
  ASSUME CatalogInv, NEW f \in File, ScanStat(f), disk[f] # Absent, ~Reusable(f)
  PROVE  CatalogInv'
<1> DEFINE r == [file |-> f, stamp |-> disk[f].stamp, seq |-> clock + 1]
<1>1. scan \in Scan /\ scan # None /\ scan.reading = None /\ f \in scan.todo
      BY DEF CatalogInv, TypeOK, ScanStat
<1>2. disk[f].stamp \in Nat /\ clock \in Nat /\ clock' = clock + 1
      BY DEF CatalogInv, TypeOK, Present, ScanStat
<1>3. /\ r \in Reading /\ r # None /\ Current(f, r.stamp)
      /\ r.file = f /\ r.seq = clock + 1 /\ scan' = [scan EXCEPT !.reading = r]
      BY <1>2, SentinelAssumption DEF Reading, Current, ScanStat
<1> HIDE DEF r
<1>4. /\ scan' \in Scan /\ scan'.started = scan.started /\ scan'.invalid = scan.invalid
      /\ scan'.fresh = scan.fresh /\ scan'.listed = scan.listed /\ scan'.todo = scan.todo
      /\ scan'.visited = scan.visited /\ scan'.read = scan.read /\ scan'.reading = r
      /\ scan'.missing = scan.missing
      BY <1>1, <1>3 DEF Scan
<1>5. Continues /\ TypeOK'
      BY <1>1, <1>2, <1>4, SentinelAssumption DEF Continues, ScanStat, CatalogInv, TypeOK
<1>6. \A g \in DOMAIN scan.read : Has(g, scan.read[g])
      BY <1>1 DEF Has
<1>7. Grows
      BY <1>2, <1>3, <1>4, <1>5, <1>6, ContinuesGrows DEF ScanStat, CatalogInv
<1>8. ScanLinks /\ (scan.fresh /\ forged = {} => scan.visited \subseteq Perimeter)
      BY <1>1 DEF CatalogInv, ScanInv
<1>9. ScanLinks'
      BY <1>1, <1>3, <1>4, <1>8 DEF ScanLinks
<1>10. ASSUME NEW A \in SUBSET File, ScanRight(A) PROVE ScanRight(A)'
  <2>1. /\ \A g \in A, st, sq \in Nat : Noted(g, st, sq)' /\ sq > scan'.started => Current(g, st)'
        /\ UNCHANGED <<disk, Roots>>
        BY <1>5, <1>7, <1>10, ContinuesNoted
  <2> QED
      BY <1>3, <1>4, <1>10, <2>1 DEF ScanRight, Current
<1>11. ASSUME NEW g \in File, scan.invalid = {g}, disk[g] # Absent, MutationRight(g, disk[g].content)
       PROVE  /\ r.file = g => RightFrom(g, disk[g].content, r.seq)
              /\ g \in DOMAIN scan'.read => RightFrom(g, disk[g].content, scan'.read[g].seq)
  <2>1. disk[g].content # Absent
        BY <1>11, SentinelAssumption DEF CatalogInv, TypeOK, Present
  <2>2. ASSUME NEW e \in Entry, Has(g, e) PROVE ~(e.seq >= r.seq)
    <3>1. Noted(g, e.stamp, e.seq) /\ e.seq \in Nat /\ e.stamp \in Nat
          BY <2>2 DEF Noted, Entry
    <3> QED
        BY <1>2, <1>3, <3>1 DEF CatalogInv, NumbersInv
  <2> QED
      BY <1>1, <1>4, <1>11, <2>1, <2>2 DEF MutationRight, RightFrom
<1> QED
    BY <1>4, <1>5, <1>7, <1>8, <1>9, <1>10, <1>11, ContinuesKeeps

LEMMA ScanStatKeeps ==
  ASSUME CatalogInv, NEW f \in File, ScanStat(f)
  PROVE  CatalogInv'
BY ScanAbsentKeeps, ScanReuseKeeps, ScanFirstStatKeeps

\* A scan begins: it knows nothing yet, and no read has a number above the clock.
LEMMA StartScanKeeps ==
  ASSUME CatalogInv, StartScan
  PROVE  CatalogInv'
<1>1. queue \in Seq(SUBSET File) /\ queue # <<>> /\ scan = None /\ clock \in Nat
      BY DEF CatalogInv, TypeOK, StartScan
<1>2. /\ queue' \in Seq(SUBSET File) /\ Head(queue) = queue[1] /\ 1 \in DOMAIN queue
      /\ Head(queue) \in SUBSET File
      /\ \A i \in DOMAIN queue' : i + 1 \in DOMAIN queue /\ queue'[i] = queue[i + 1] /\ i + 1 # 1
      BY <1>1 DEF StartScan
<1>3. <<>> \in Table
  <2>1. <<>> \in [{} -> Entry]
        OBVIOUS
  <2> QED
      BY <2>1, TableIntro
<1>4. /\ scan' \in Scan /\ scan'.started = clock /\ scan'.invalid = queue[1] /\ ~scan'.listed
      /\ scan'.todo = {} /\ scan'.visited = {} /\ scan'.read = <<>> /\ scan'.missing = {}
      /\ scan'.reading = None /\ scan'.fresh
      BY <1>1, <1>2, <1>3 DEF StartScan, Scan
<1>5. scan' # None /\ DOMAIN scan'.read = {}
      BY <1>4, SentinelAssumption
<1>6. UNCHANGED <<disk, stamps, forged, files, missing, clock, observing, mutation, scannedSince>>
      BY DEF StartScan
<1>7. TypeOK'
      BY <1>2, <1>4, <1>6 DEF CatalogInv, TypeOK
<1>8. Grows
      BY <1>4, <1>5, <1>6 DEF Grows, Has, Reads
<1>9. NumbersInv' /\ TellsInv'
      BY <1>8, GrowsNumbers, GrowsTells DEF CatalogInv
<1>10. UNCHANGED Perimeter /\ UNCHANGED Roots
      BY <1>6 DEF Perimeter, Roots, Closed
<1>11. ASSUME NEW A \in SUBSET File PROVE ScanRight(A)'
  <2>1. ASSUME NEW f \in File, NEW st \in Nat, NEW sq \in Nat, Noted(f, st, sq)' PROVE ~(sq > scan'.started)
    <3>1. sq <= clock'
          BY <1>9, <2>1 DEF NumbersInv
    <3> QED
        BY <1>1, <1>4, <1>6, <3>1
  <2> QED
      BY <1>4, <1>5, <2>1 DEF ScanRight
<1>12. ScanInv'
      BY <1>4, <1>5, <1>11 DEF ScanInv, ScanLinks
<1>13. SettledInv'
      BY <1>5 DEF SettledInv
<1>14. InvalidInv'
  <2>1. InvalidInv
        BY DEF CatalogInv
  <2>2. ASSUME NEW i \in DOMAIN queue', queue'[i] # {}
        PROVE  Pending' /\ queue'[i] = {mutation'.file} /\ scan'.invalid = {}
    <3>1. queue[i + 1] # {} /\ i + 1 \in DOMAIN queue /\ i + 1 # 1
          BY <1>2, <2>2
    <3> QED
        BY <1>2, <1>4, <1>6, <2>1, <3>1 DEF InvalidInv, Pending
  <2>3. ASSUME NEW i \in DOMAIN queue', NEW j \in DOMAIN queue', queue'[i] # {}, queue'[j] # {}
        PROVE  i = j
    <3>1. i + 1 \in DOMAIN queue /\ queue[i + 1] # {} /\ i \in Nat
          BY <1>2, <2>3
    <3>2. j + 1 \in DOMAIN queue /\ queue[j + 1] # {} /\ j \in Nat
          BY <1>2, <2>3
    <3>3. i + 1 = j + 1
          BY <2>1, <3>1, <3>2 DEF InvalidInv
    <3> QED
        BY <3>1, <3>2, <3>3
  <2>4. scan'.invalid # {} => Pending' /\ scan'.invalid = {mutation'.file}
        BY <1>2, <1>4, <1>6, <2>1 DEF InvalidInv, Pending
  <2> QED
      BY <2>2, <2>3, <2>4 DEF InvalidInv
<1>15. ASSUME NEW f \in File, NEW c, MutationRight(f, c) PROVE MutationRight(f, c)'
  <2>1. \A s : c # Absent /\ RightFrom(f, c, s) => RightFrom(f, c, s)'
        BY <1>8, <1>15, GrowsRight DEF MutationRight
  <2>2. ScanRight(Above(f))'
        BY <1>11, AboveFacts
  <2> QED
      BY <1>1, <1>4, <1>5, <1>6, <1>10, <1>15, <2>1, <2>2 DEF MutationRight
<1>16. MutationInv'
  <2>1. mutation # None => mutation.file \in File
        BY DEF CatalogInv, TypeOK, Mutation
  <2> QED
      BY <1>6, <1>15, <2>1 DEF CatalogInv, MutationInv
<1> QED
    BY <1>7, <1>9, <1>12, <1>13, <1>14, <1>16 DEF CatalogInv

\* What the end of a scan publishes.
LEMMA EndFields ==
  ASSUME TypeOK, EndScan
  PROVE  /\ files' \in Table /\ LaterOnly /\ DOMAIN scan.read \subseteq DOMAIN files'
         /\ \A f \in DOMAIN files' : Has(f, files'[f])
         /\ \A f \in DOMAIN scan.read : files'[f].seq >= scan.read[f].seq
         /\ \A f \in DOMAIN files' : f \notin DOMAIN scan.read =>
              f \in DOMAIN files /\ files'[f] = files[f] /\ files[f].seq > scan.started
<1> DEFINE read == scan.read
           kept == {f \in DOMAIN files : f \notin DOMAIN read /\ files[f].seq > scan.started}
           newer(f) == f \in DOMAIN files /\ files[f].seq > read[f].seq
<1>1. scan \in Scan /\ scan # None /\ read \in Table
      BY DEF TypeOK, EndScan, Scan
<1>2. /\ DOMAIN files \subseteq File /\ \A f \in DOMAIN files : files[f] \in Entry /\ Has(f, files[f])
      /\ DOMAIN read \subseteq File /\ \A f \in DOMAIN read : read[f] \in Entry /\ Has(f, read[f])
      BY <1>1, TableFields DEF TypeOK, Has
<1>3. files' = [f \in DOMAIN read \cup kept |-> IF f \in DOMAIN read /\ ~newer(f) THEN read[f] ELSE files[f]]
      BY DEF EndScan, Merge
<1> HIDE DEF read
<1>4. files' \in [DOMAIN read \cup kept -> Entry]
      BY <1>2, <1>3
<1>5. files' \in Table
      BY <1>2, <1>4, TableIntro
<1>6. \A f \in DOMAIN files' : Has(f, files'[f])
      BY <1>2, <1>3
<1>7. LaterOnly
      BY <1>2, <1>3 DEF LaterOnly, Entry
<1>8. \A f \in DOMAIN read : f \in DOMAIN files' /\ files'[f].seq >= read[f].seq
      BY <1>2, <1>3 DEF Entry
<1>9. \A f \in DOMAIN files' : f \notin DOMAIN read =>
        f \in DOMAIN files /\ files'[f] = files[f] /\ files[f].seq > scan.started
      BY <1>3
<1> QED
    BY <1>5, <1>6, <1>7, <1>8, <1>9 DEF read

\* A scan that is right about what leads to f, and whose stamps tell, has visited f.
LEMMA EndFinds ==
  ASSUME CatalogInv, EndScan, NEW f \in Perimeter, ScanRight(Above(f)), forged \cap Above(f) \subseteq {f}
  PROVE  f \in scan.visited
<1>1. scan \in Scan /\ scan # None /\ scan.listed /\ scan.todo = {} /\ f \in File /\ ScanLinks
      BY DEF CatalogInv, TypeOK, EndScan, Perimeter, ScanInv
<1>2. scan.visited \in SUBSET File /\ scan.read \in Table
      BY <1>1 DEF Scan
<1>3. Roots \cap Above(f) \subseteq scan.visited
      BY <1>1 DEF ScanRight
<1>4. ASSUME NEW p \in scan.visited \cap Above(f), p # f, disk[p] # Absent
      PROVE  Refs[p][disk[p].content] \subseteq scan.visited
  <2>1. p \in DOMAIN scan.read /\ Current(p, scan.read[p].stamp) /\ p \in File
        BY <1>1, <1>2, <1>4 DEF ScanRight
  <2>2. Has(p, scan.read[p]) /\ scan.read[p] \in Entry
        BY <1>1, <1>2, <2>1, TableFields DEF Has
  <2>3. scan.read[p].digest = disk[p].content
        BY <1>4, <2>1, <2>2 DEF CatalogInv, TellsInv, StampTells, Current
  <2> QED
      BY <1>1, <2>1, <2>3 DEF ScanLinks
<1> QED
    BY <1>2, <1>3, <1>4, InSight DEF CatalogInv

\* A scan that began after the last edit publishes what the disk holds.
LEMMA EndSettles ==
  ASSUME CatalogInv, EndScan, scan.fresh, forged = {}
  PROVE  Agrees'
<1>1. /\ scan \in Scan /\ scan # None /\ scan.listed /\ scan.todo = {} /\ scan.read \in Table
      /\ ScanLinks /\ ScanRight(File) /\ scan.visited \subseteq Perimeter /\ Perimeter \subseteq File
      BY DEF CatalogInv, TypeOK, EndScan, ScanInv, Scan, Perimeter
<1>2. Perimeter = scan.visited
  <2>1. ASSUME NEW f \in Perimeter PROVE f \in scan.visited
    <3>1. Above(f) \subseteq File
          BY <1>1, AboveFacts
    <3>2. ScanRight(Above(f))
          BY <1>1, <3>1 DEF ScanRight
    <3> QED
        BY <3>2, EndFinds
  <2> QED
      BY <1>1, <2>1
<1>3. UNCHANGED <<disk, forged>> /\ missing' = scan.missing
      BY DEF EndScan
<1>4. UNCHANGED Perimeter
      BY <1>3 DEF Perimeter, Roots, Closed
<1>5. \A f \in DOMAIN scan.read : f \in File /\ Current(f, scan.read[f].stamp)
      BY <1>1, TableFields DEF ScanRight
<1>6. scan.missing = TrueMissing
      BY <1>1, <1>2, <1>5 DEF ScanLinks, ScanRight, TrueMissing, Current
<1>7. TrueFiles \subseteq DOMAIN scan.read
      BY <1>1, <1>2 DEF ScanRight, TrueFiles
<1>8. ASSUME NEW f \in DOMAIN files' PROVE Current(f, files'[f].stamp)
  <2>1. files' \in Table /\ f \in File /\ files'[f] \in Entry /\ Has(f, files'[f])
        BY EndFields, TableFields DEF CatalogInv
  <2>2. CASE f \in DOMAIN scan.read
    <3>1. scan.read[f] \in Entry /\ Has(f, scan.read[f]) /\ files'[f].seq >= scan.read[f].seq
          BY <1>1, <2>2, EndFields, TableFields DEF CatalogInv, Has
    <3> QED
        BY <1>5, <2>1, <2>2, <3>1, LaterCurrent DEF CatalogInv
  <2>3. CASE f \notin DOMAIN scan.read
    <3>1. files'[f].seq > scan.started
          BY <2>3, EndFields DEF CatalogInv
    <3>2. Noted(f, files'[f].stamp, files'[f].seq) /\ files'[f].seq \in Nat /\ files'[f].stamp \in Nat
          BY <2>1 DEF Noted, Entry
    <3> QED
        BY <1>1, <2>1, <3>1, <3>2 DEF ScanRight
  <2> QED
      BY <2>2, <2>3
<1>9. DOMAIN scan.read \subseteq DOMAIN files'
      BY EndFields DEF CatalogInv
<1> QED
    BY <1>3, <1>4, <1>6, <1>7, <1>8, <1>9 DEF Agrees, TrueMissing, TrueFiles, Current

\* What the end of a scan publishes of the file that the last mutation wrote.
LEMMA EndPublishes ==
  ASSUME CatalogInv, EndScan, NEW f \in Perimeter, NEW c, MutationRight(f, c),
         mutation.answered \/ scan.invalid # {}, forged \cap Above(f) \subseteq {f}
  PROVE  IF c # Absent THEN (f \in DOMAIN files /\ RightFrom(f, c, files[f].seq))'
         ELSE f \notin DOMAIN files'
<1>1. /\ scan \in Scan /\ scan # None /\ scan.todo = {} /\ scan.read \in Table
      /\ f \in File /\ ScanRight(Above(f)) /\ f \in Above(f)
      BY AboveFacts DEF CatalogInv, TypeOK, EndScan, Scan, Perimeter, MutationRight
<1>2. f \in scan.visited
      BY <1>1, EndFinds
<1>3. Grows
      BY EndFields DEF CatalogInv, EndScan, Grows, Has, Reads
<1>4. CASE c # Absent
  <2>1. f \in DOMAIN scan.read
        BY <1>1, <1>2, <1>4 DEF ScanRight, MutationRight
  <2>2. /\ f \in DOMAIN files' /\ files'[f].seq >= scan.read[f].seq
        /\ files'[f].seq \in Nat /\ scan.read[f].seq \in Nat
        BY <1>1, <2>1, EndFields, TableFields DEF CatalogInv, Entry
  <2>3. f \in DOMAIN files => files'[f].seq >= files[f].seq /\ files[f].seq \in Nat
        BY <2>2, EndFields, TableFields DEF CatalogInv, TypeOK, LaterOnly, Entry
  <2>4. \A s : RightFrom(f, c, s) => RightFrom(f, c, s)'
        BY <1>1, <1>3, <1>4, GrowsRight DEF MutationRight
  <2>5. PICK s \in Nat : s <= files'[f].seq /\ RightFrom(f, c, s)
    <3>1. CASE scan.invalid # {}
          BY <1>1, <1>4, <2>1, <2>2, <3>1 DEF MutationRight
    <3>2. CASE scan.invalid = {}
      <4>1. f \in DOMAIN files /\ RightFrom(f, c, files[f].seq)
            BY <1>1, <1>4, <3>2 DEF MutationRight
      <4> QED
          BY <2>2, <2>3, <4>1
    <3> QED
        BY <3>1, <3>2
  <2>6. \A e \in Entry : Has(f, e)' /\ e.seq >= s => e.digest = c
        BY <2>4, <2>5 DEF RightFrom
  <2>7. \A e \in Entry : e.seq >= files'[f].seq => e.seq >= s
        BY <2>2, <2>5 DEF Entry
  <2> QED
      BY <1>4, <2>2, <2>6, <2>7 DEF RightFrom
<1>5. CASE c = Absent
  <2>1. disk[f] = Absent
        BY <1>5 DEF MutationRight
  <2>2. f \notin DOMAIN scan.read
        BY <1>1, <2>1 DEF ScanRight, Current
  <2> SUFFICES ASSUME f \in DOMAIN files' PROVE FALSE
      BY <1>5
  <2>3. /\ files' \in Table /\ files'[f] \in Entry /\ Has(f, files'[f])
        /\ files'[f].seq > scan.started
        BY <2>2, EndFields, TableFields DEF CatalogInv
  <2>4. Noted(f, files'[f].stamp, files'[f].seq) /\ files'[f].seq \in Nat /\ files'[f].stamp \in Nat
        BY <2>3 DEF Noted, Entry
  <2> QED
      BY <1>1, <2>1, <2>3, <2>4 DEF ScanRight, Current
<1> QED
    BY <1>4, <1>5

LEMMA EndScanKeeps ==
  ASSUME CatalogInv, EndScan
  PROVE  CatalogInv'
<1>1. scan \in Scan /\ scan # None /\ InvalidInv /\ scan' = None
      BY DEF CatalogInv, TypeOK, EndScan
<1>2. UNCHANGED <<disk, stamps, forged, clock, queue, observing>>
      BY DEF EndScan
<1>3. \/ mutation' = mutation /\ scan.invalid = {}
      \/ mutation' = None
      \/ /\ mutation # None /\ mutation.content # None /\ scan.invalid # {} /\ mutation' \in Mutation
         /\ mutation' = [mutation EXCEPT !.answered = TRUE] /\ mutation'.answered
         /\ mutation'.file = mutation.file /\ mutation'.content = mutation.content
      BY <1>1 DEF EndScan, InvalidInv, Pending, CatalogInv, TypeOK, Mutation
<1>4. TypeOK'
  <2>1. files' \in Table /\ missing' \subseteq File /\ scannedSince' \in BOOLEAN
        BY <1>1, EndFields DEF CatalogInv, TypeOK, EndScan, Scan
  <2> QED
      BY <1>1, <1>2, <1>3, <2>1 DEF CatalogInv, TypeOK
<1>5. Grows
      BY <1>1, <1>2, EndFields DEF CatalogInv, Grows, Has, Reads
<1>6. NumbersInv' /\ TellsInv'
      BY <1>5, GrowsNumbers, GrowsTells DEF CatalogInv
<1>7. ScanInv'
      BY <1>1 DEF ScanInv
<1>8. SettledInv'
  <2> SUFFICES ASSUME scannedSince', forged' = {} PROVE Agrees'
      BY DEF SettledInv
  <2>1. scan.fresh
        BY <1>1 DEF CatalogInv, ScanInv, EndScan
  <2> QED
      BY <1>2, <2>1, EndSettles
<1>9. InvalidInv'
  <2>1. ASSUME NEW i \in DOMAIN queue, queue[i] # {} PROVE mutation' = mutation
        BY <1>1, <1>3, <2>1 DEF InvalidInv, EndScan
  <2> QED
      BY <1>1, <1>2, <2>1 DEF InvalidInv, Pending
<1>10. UNCHANGED Perimeter
      BY <1>2 DEF Perimeter, Roots, Closed
<1>11. MutationInv'
  <2> SUFFICES ASSUME mutation' # None, mutation'.content # None
               PROVE  MutationRight(mutation.file, mutation.content)'
      BY <1>3 DEF CatalogInv, MutationInv
  <2>0. mutation # None /\ mutation.file \in File
        BY <1>3 DEF CatalogInv, TypeOK, Mutation
  <2> PICK f \in File, c \in {mutation.content} : f = mutation.file
      BY <2>0
  <2>1. mutation # None /\ mutation'.file = f /\ mutation'.content = c /\ c # None
        BY <1>3, <2>0
  <2>2. MutationRight(f, c)
        BY <2>1 DEF CatalogInv, MutationInv
  <2>3. mutation'.answered => mutation.answered \/ scan.invalid # {}
        BY <1>3
  <2>4. mutation'.answered /\ f \in Perimeter /\ forged \cap Above(f) \subseteq {f} =>
          IF c # Absent THEN (f \in DOMAIN files /\ RightFrom(f, c, files[f].seq))'
          ELSE f \notin DOMAIN files'
        BY <2>2, <2>3, EndPublishes
  <2>5. IF c = Absent THEN disk[f] = Absent ELSE disk[f] # Absent /\ disk[f].content = c
        BY <2>2 DEF MutationRight
  <2>6. MutationRight(f, c)'
        BY <1>1, <1>2, <1>10, <2>4, <2>5 DEF MutationRight
  <2> QED
      BY <2>1, <2>6
<1> QED
    BY <1>4, <1>6, <1>7, <1>8, <1>9, <1>11 DEF CatalogInv

-------------------------------------------------------------------------------
(* Edits of the disk.                                                      *)

\* A write changes one file, and nothing of what anybody holds.
LEMMA WriteFields ==
  ASSUME TypeOK, NEW f \in File, NEW c \in Content \cup {Absent}, NEW quiet \in BOOLEAN,
         WriteFile(f, c, quiet), UNCHANGED <<files, observing, clock>>
  PROVE  /\ stamps' = stamps + 1 /\ ~scannedSince'
         /\ disk' \in [File -> Present \cup {Absent}] /\ forged' \subseteq File
         /\ \A p \in File : p # f => disk'[p] = disk[p] /\ (p \in forged' <=> p \in forged)
         /\ IF c = Absent THEN disk'[f] = Absent ELSE disk'[f] # Absent /\ disk'[f].content = c
         /\ disk'[f] # Absent =>
              \/ f \in forged' /\ disk[f] # Absent /\ disk'[f].stamp = disk[f].stamp
              \/ disk'[f].stamp = stamps + 1
         /\ scan = None => scan' = None
         /\ scan # None =>
              /\ scan' \in Scan /\ scan' # None /\ ~scan'.fresh
              /\ scan'.started = scan.started /\ scan'.invalid = scan.invalid
              /\ scan'.listed = scan.listed /\ scan'.todo = scan.todo
              /\ scan'.visited = scan.visited /\ scan'.read = scan.read
              /\ scan'.missing = scan.missing /\ scan'.reading = scan.reading
<1>1. stamps' = stamps + 1 /\ ~scannedSince' /\ stamps \in Nat
      BY DEF WriteFile, TypeOK
<1>2. /\ scan = None => scan' = None
      /\ scan # None =>
              /\ scan' \in Scan /\ scan' # None /\ ~scan'.fresh
              /\ scan'.started = scan.started /\ scan'.invalid = scan.invalid
              /\ scan'.listed = scan.listed /\ scan'.todo = scan.todo
              /\ scan'.visited = scan.visited /\ scan'.read = scan.read
              /\ scan'.missing = scan.missing /\ scan'.reading = scan.reading
  <2> SUFFICES ASSUME scan # None
               PROVE  /\ scan' \in Scan /\ ~scan'.fresh
                      /\ scan'.started = scan.started /\ scan'.invalid = scan.invalid
                      /\ scan'.listed = scan.listed /\ scan'.todo = scan.todo
                      /\ scan'.visited = scan.visited /\ scan'.read = scan.read
                      /\ scan'.missing = scan.missing /\ scan'.reading = scan.reading
      BY SentinelAssumption DEF WriteFile
  <2>1. scan \in Scan /\ scan' = [scan EXCEPT !.fresh = FALSE]
        BY DEF TypeOK, WriteFile
  <2> QED
      BY <2>1 DEF Scan
<1>3. CASE c = Absent
      BY <1>1, <1>2, <1>3 DEF WriteFile, TypeOK
<1>4. CASE c # Absent /\ quiet
  <2>1. /\ disk[f] \in Present /\ disk' = [disk EXCEPT ![f] = [disk[f] EXCEPT !.content = c]]
        /\ forged' = forged \cup {f}
        BY <1>4 DEF WriteFile, TypeOK
  <2> DEFINE d == [disk[f] EXCEPT !.content = c]
  <2>2. d \in Present /\ d.content = c /\ d.stamp = disk[f].stamp
        BY <1>4, <2>1 DEF Present
  <2>3. d # Absent /\ disk[f] # Absent
        BY <2>1, <2>2, SentinelAssumption
  <2>4. disk' = [disk EXCEPT ![f] = d]
        BY <2>1
  <2> HIDE DEF d
  <2> QED
      BY <1>1, <1>2, <1>4, <2>1, <2>2, <2>3, <2>4 DEF TypeOK
<1>5. CASE c # Absent /\ ~quiet
  <2> DEFINE d == [content |-> c, stamp |-> stamps + 1]
  <2>1. disk' = [disk EXCEPT ![f] = d] /\ forged' = forged \ {f}
        BY <1>5 DEF WriteFile
  <2>2. d \in Present /\ d.content = c /\ d.stamp = stamps + 1
        BY <1>1, <1>5 DEF Present
  <2>3. d # Absent
        BY <2>2, SentinelAssumption
  <2> HIDE DEF d
  <2> QED
      BY <1>1, <1>2, <1>5, <2>1, <2>2, <2>3 DEF TypeOK
<1> QED
    BY <1>3, <1>4, <1>5

\* What is held says as much of the disk after a write as before it, but for the file that
\* was written.
LEMMA WriteKeeps ==
  ASSUME CatalogInv, NEW f \in File, NEW c \in Content \cup {Absent}, NEW quiet \in BOOLEAN,
         WriteFile(f, c, quiet), UNCHANGED <<files, observing, clock>>
  PROVE  /\ NumbersInv' /\ TellsInv' /\ ScanInv' /\ SettledInv'
         /\ \A A \in SUBSET File : f \notin A /\ scan # None /\ ScanRight(A) => ScanRight(A)'
         /\ \A g \in File, e \in Entry : Has(g, e)' <=> Has(g, e)
<1>1. /\ stamps' = stamps + 1 /\ ~scannedSince'
      /\ disk' \in [File -> Present \cup {Absent}] /\ forged' \subseteq File
      /\ \A p \in File : p # f => disk'[p] = disk[p] /\ (p \in forged' <=> p \in forged)
      /\ disk'[f] # Absent =>
              \/ f \in forged' /\ disk[f] # Absent /\ disk'[f].stamp = disk[f].stamp
              \/ disk'[f].stamp = stamps + 1
      /\ scan = None => scan' = None
      /\ scan # None =>
              /\ scan' \in Scan /\ scan' # None /\ ~scan'.fresh
              /\ scan'.started = scan.started /\ scan'.invalid = scan.invalid
              /\ scan'.listed = scan.listed /\ scan'.todo = scan.todo
              /\ scan'.visited = scan.visited /\ scan'.read = scan.read
              /\ scan'.missing = scan.missing /\ scan'.reading = scan.reading
      BY WriteFields DEF CatalogInv
<1>2. \A g \in File, e \in Entry : Has(g, e)' <=> Has(g, e)
      BY <1>1 DEF Has
<1>3. \A r \in Reading : Reads(r)' <=> Reads(r)
      BY <1>1 DEF Reads
<1>4. \A g \in File, st, sq \in Nat : Noted(g, st, sq)' <=> Noted(g, st, sq)
      BY <1>2, <1>3 DEF Noted
<1>5. NumbersInv'
  <2>1. stamps \in Nat /\ \A p \in File : disk[p] # Absent => disk[p].stamp \in Nat /\ disk[p].stamp <= stamps
        BY DEF CatalogInv, TypeOK, Present, NumbersInv
  <2>2. \A p \in File : disk'[p] # Absent => disk'[p].stamp <= stamps'
        BY <1>1, <2>1
  <2>3. ASSUME NEW g \in File, NEW st \in Nat, NEW sq \in Nat, Noted(g, st, sq)
        PROVE  sq <= clock' /\ st <= stamps' /\ (disk'[g] # Absent => st <= disk'[g].stamp)
    <3>1. sq <= clock /\ st <= stamps /\ (disk[g] # Absent => st <= disk[g].stamp)
          BY <2>3 DEF CatalogInv, NumbersInv
    <3> QED
        BY <1>1, <2>1, <3>1
  <2>4. \A g \in File, st, sq, st2, sq2 \in Nat :
          Noted(g, st, sq)' /\ Noted(g, st2, sq2)' /\ sq <= sq2 => st <= st2
        BY <1>4 DEF CatalogInv, NumbersInv
  <2> QED
      BY <1>4, <2>2, <2>3, <2>4 DEF NumbersInv
<1>6. TellsInv'
  <2> SUFFICES ASSUME NEW g \in File, NEW e \in Entry, Has(g, e) PROVE StampTells(g, e)'
      BY <1>2 DEF TellsInv
  <2>1. e.stamp <= stamps /\ e.stamp \in Nat /\ stamps \in Nat
    <3>1. Noted(g, e.stamp, e.seq) /\ e.stamp \in Nat /\ e.seq \in Nat
          BY DEF Noted, Entry
    <3> QED
        BY <3>1 DEF CatalogInv, NumbersInv, TypeOK
  <2>2. StampTells(g, e)
        BY DEF CatalogInv, TellsInv
  <2>3. CASE g = f
        BY <1>1, <2>1, <2>3 DEF StampTells
  <2> QED
      BY <1>1, <2>2, <2>3 DEF StampTells
<1>7. ScanInv'
  <2> SUFFICES ASSUME scan' # None PROVE ScanLinks'
      BY <1>1 DEF ScanInv
  <2>1. ScanLinks
        BY <1>1 DEF CatalogInv, ScanInv
  <2> QED
      BY <1>1, <2>1 DEF ScanLinks
<1>8. ASSUME NEW A \in SUBSET File, f \notin A, scan # None, ScanRight(A)
      PROVE  ScanRight(A)'
  <2>1. \A p \in A : disk'[p] = disk[p]
        BY <1>1, <1>8
  <2>2. Roots' \cap A = Roots \cap A
        BY <2>1 DEF Roots
  <2> QED
      BY <1>1, <1>4, <1>8, <2>1, <2>2 DEF ScanRight, Current
<1> QED
    BY <1>1, <1>2, <1>5, <1>6, <1>7, <1>8 DEF SettledInv

LEMMA ExternalEditKeeps ==
  ASSUME CatalogInv, NEW f \in File, NEW c \in Content \cup {Absent}, NEW quiet \in BOOLEAN,
         ExternalEdit(f, c, quiet)
  PROVE  CatalogInv'
<1>1. /\ disk' \in [File -> Present \cup {Absent}] /\ forged' \subseteq File
      /\ stamps' = stamps + 1 /\ ~scannedSince'
      /\ \A p \in File : p # f => disk'[p] = disk[p] /\ (p \in forged' <=> p \in forged)
      /\ scan = None => scan' = None
      /\ scan # None => scan' \in Scan /\ scan' # None /\ scan'.invalid = scan.invalid
      BY WriteFields DEF CatalogInv, ExternalEdit
<1>2. /\ NumbersInv' /\ TellsInv' /\ ScanInv' /\ SettledInv'
      /\ \A A \in SUBSET File : f \notin A /\ scan # None /\ ScanRight(A) => ScanRight(A)'
      /\ \A g \in File, e \in Entry : Has(g, e)' <=> Has(g, e)
      BY WriteKeeps DEF ExternalEdit
<1>3. UNCHANGED <<files, missing, clock, queue, observing>>
      BY DEF ExternalEdit
<1>4. mutation # None => mutation \in Mutation /\ mutation.file \in File
      BY DEF CatalogInv, TypeOK, Mutation
<1>5. \/ mutation = None /\ mutation' = None
      \/ mutation # None /\ f \notin Above(mutation.file) /\ mutation' = mutation
      \/ mutation # None /\ mutation.answered /\ mutation' = None
      \/ /\ mutation # None /\ mutation' \in Mutation /\ ~mutation.answered /\ ~mutation'.answered
         /\ mutation'.file = mutation.file /\ mutation'.content = None
  <2>1. CASE mutation # None /\ f \in Above(mutation.file) /\ ~mutation.answered
    <3>1. mutation' = [mutation EXCEPT !.content = None] /\ mutation \in Mutation
          BY <1>4, <2>1 DEF ExternalEdit
    <3> QED
        BY <2>1, <3>1 DEF Mutation
  <2> QED
      BY <2>1 DEF ExternalEdit
<1>6. mutation # None /\ mutation' # None => mutation' \in Mutation /\ mutation'.file = mutation.file
                                            /\ mutation'.answered = mutation.answered
  <2>1. mutation \in Mutation /\ ~mutation.answered /\ mutation' \in Mutation /\ ~mutation'.answered =>
          mutation'.answered = mutation.answered
        BY DEF Mutation
  <2> QED
      BY <1>4, <1>5, <2>1
<1>7. TypeOK'
  <2>1. stamps' \in Nat /\ scannedSince' = FALSE
    <3>1. scannedSince' = FALSE
          BY DEF ExternalEdit, WriteFile
    <3> QED
        BY <1>1, <3>1 DEF CatalogInv, TypeOK
  <2>2. scan' \in Scan \cup {None} /\ mutation' \in Mutation \cup {None}
        BY <1>1, <1>4, <1>5
  <2> QED
      BY <1>1, <1>3, <2>1, <2>2 DEF CatalogInv, TypeOK
<1>8. InvalidInv'
  <2>1. Pending => Pending' /\ mutation'.file = mutation.file
    <3> SUFFICES ASSUME mutation # None, ~mutation.answered
                 PROVE  mutation' # None /\ ~mutation'.answered /\ mutation'.file = mutation.file
        BY DEF Pending
    <3>1. mutation' # None
          BY <1>4, <1>5, SentinelAssumption
    <3> QED
        BY <1>6, <3>1
  <2> QED
      BY <1>1, <1>3, <2>1 DEF CatalogInv, InvalidInv
<1>9. MutationInv'
  <2> SUFFICES ASSUME mutation' # None
               PROVE  IF mutation'.content = None THEN ~mutation'.answered
                      ELSE MutationRight(mutation.file, mutation.content)'
      BY DEF MutationInv
  <2>1. CASE mutation'.content = None
        BY <1>5, <2>1 DEF CatalogInv, MutationInv
  <2>2. CASE mutation'.content # None
    <3>1. mutation # None /\ mutation' = mutation /\ f \notin Above(mutation.file) /\ mutation.file \in File
          BY <1>4, <1>5, <2>2
    <3> PICK m \in File, d \in {mutation.content} : m = mutation.file
        BY <3>1
    <3>2. MutationRight(m, d) /\ m \in Above(m) /\ Above(m) \in SUBSET File /\ f \notin Above(m) /\ m # f
          BY <2>2, <3>1, AboveFacts DEF CatalogInv, MutationInv
    <3>3. disk'[m] = disk[m] /\ \A p \in Above(m) : disk'[p] = disk[p]
          BY <1>1, <3>2
    <3>4. m \in Perimeter' => m \in Perimeter
          BY <1>7, <3>3, PerimeterLocal DEF CatalogInv
    <3>5. forged' \cap Above(m) = forged \cap Above(m)
          BY <1>1, <3>2
    <3>6. \A s : RightFrom(m, d, s) => RightFrom(m, d, s)'
          BY <1>2 DEF RightFrom
    <3>7. scan # None /\ ScanRight(Above(m)) => ScanRight(Above(m))'
          BY <1>2, <3>2
    <3>8. /\ scan' # None => scan # None /\ scan'.invalid = scan.invalid
                             /\ scan'.reading = scan.reading /\ scan'.read = scan.read
          /\ scan # None => scan' # None
          BY <1>1, WriteFields DEF CatalogInv, ExternalEdit
    <3>9. MutationRight(m, d)'
      <4>1. (IF d = Absent THEN disk[m] = Absent ELSE disk[m] # Absent /\ disk[m].content = d)'
            BY <3>2, <3>3 DEF MutationRight
      <4>2. (scan # None /\ (mutation.answered \/ scan.invalid # {}))' => ScanRight(Above(m))'
            BY <3>1, <3>2, <3>7, <3>8 DEF MutationRight
      <4>3. (scan # None /\ scan.invalid # {} /\ d # Absent =>
               /\ scan.reading # None /\ scan.reading.file = m => RightFrom(m, d, scan.reading.seq)
               /\ m \in DOMAIN scan.read => RightFrom(m, d, scan.read[m].seq))'
            BY <3>2, <3>6, <3>8 DEF MutationRight
      <4>4. (mutation.answered /\ m \in Perimeter /\ forged \cap Above(m) \subseteq {m} =>
               IF d # Absent THEN m \in DOMAIN files /\ RightFrom(m, d, files[m].seq)
               ELSE m \notin DOMAIN files \/ queue # <<>> \/ scan # None)'
            BY <1>3, <3>1, <3>2, <3>4, <3>5, <3>6, <3>8 DEF MutationRight
      <4> QED
          BY <4>1, <4>2, <4>3, <4>4 DEF MutationRight
    <3> QED
        BY <2>2, <3>1, <3>9
  <2> QED
      BY <2>1, <2>2
<1> QED
    BY <1>2, <1>7, <1>8, <1>9 DEF CatalogInv

LEMMA MutationWriteKeeps ==
  ASSUME CatalogInv, NEW f \in File, NEW c \in Content \cup {Absent}, NEW quiet \in BOOLEAN,
         MutationWrite(f, c, quiet)
  PROVE  CatalogInv'
<1>1. /\ disk' \in [File -> Present \cup {Absent}] /\ forged' \subseteq File
      /\ stamps' = stamps + 1 /\ ~scannedSince'
      /\ IF c = Absent THEN disk'[f] = Absent ELSE disk'[f] # Absent /\ disk'[f].content = c
      /\ scan = None => scan' = None
      /\ scan # None => scan' \in Scan /\ scan' # None /\ scan'.invalid = scan.invalid
      BY WriteFields DEF CatalogInv, MutationWrite
<1>2. NumbersInv' /\ TellsInv' /\ ScanInv' /\ SettledInv'
      BY WriteKeeps DEF MutationWrite
<1>3. UNCHANGED <<files, missing, clock, observing>> /\ queue' = Append(queue, {f})
      BY DEF MutationWrite
<1>4. /\ mutation' \in Mutation /\ mutation' # None /\ mutation'.file = f /\ mutation'.content = c
      /\ ~mutation'.answered
  <2>1. mutation' = [file |-> f, content |-> c, answered |-> FALSE]
        BY DEF MutationWrite
  <2>2. mutation' \in Mutation
        BY <2>1 DEF Mutation
  <2> QED
      BY <2>1, <2>2, SentinelAssumption
<1>5. c # None
      BY SentinelAssumption
<1>6. TypeOK'
  <2>1. stamps' \in Nat /\ scannedSince' = FALSE
    <3>1. scannedSince' = FALSE
          BY DEF MutationWrite, WriteFile
    <3> QED
        BY <1>1, <3>1 DEF CatalogInv, TypeOK
  <2>2. scan' \in Scan \cup {None} /\ mutation' \in Mutation \cup {None}
        BY <1>1, <1>4 DEF CatalogInv, TypeOK
  <2>3. queue' \in Seq(SUBSET File)
        BY <1>3 DEF CatalogInv, TypeOK
  <2> QED
      BY <1>1, <1>3, <2>1, <2>2, <2>3 DEF CatalogInv, TypeOK
<1>7. ~Pending
      BY DEF MutationWrite, Pending
<1>8. (\A i \in DOMAIN queue : queue[i] = {}) /\ (scan' # None => scan'.invalid = {})
      BY <1>1, <1>7 DEF CatalogInv, InvalidInv
<1>9. InvalidInv'
  <2>1. queue \in Seq(SUBSET File)
        BY DEF CatalogInv, TypeOK
  <2>2. \A i \in DOMAIN queue' : queue'[i] # {} => i = Len(queue) + 1 /\ queue'[i] = {f}
        BY <1>3, <1>8, <2>1
  <2>3. Pending'
        BY <1>4 DEF Pending
  <2> QED
      BY <1>4, <1>8, <2>2, <2>3 DEF InvalidInv
<1>10. MutationInv'
  <2>1. MutationRight(f, c)'
        BY <1>1, <1>4, <1>8 DEF MutationRight
  <2> QED
      BY <1>4, <1>5, <2>1 DEF MutationInv
<1> QED
    BY <1>2, <1>6, <1>9, <1>10 DEF CatalogInv

-------------------------------------------------------------------------------
(* The specification.                                                      *)

LEMMA CatalogBegins ==
  ASSUME Init
  PROVE  CatalogInv
<1>1. disk \in [File -> {Absent} \cup [content : Content, stamp : {0}]]
      BY StartAssumption DEF Init
<1>2. \A f \in File : disk[f] # Absent => disk[f] \in Present /\ disk[f].stamp = 0 /\ disk[f].content \in Content
      BY <1>1 DEF Present
<1>3. TrueFiles \subseteq File /\ TrueMissing \subseteq File /\ \A f \in TrueFiles : disk[f] # Absent
      BY DEF TrueFiles, TrueMissing, Perimeter
<1>4. /\ DOMAIN files = TrueFiles
      /\ \A f \in TrueFiles : files[f] = [digest |-> disk[f].content, stamp |-> 0, seq |-> 0]
      BY DEF Init
<1>5. files \in Table
  <2>1. files \in [TrueFiles -> Entry]
        BY <1>2, <1>3 DEF Init, Entry
  <2> QED
      BY <1>3, <2>1, TableIntro
<1>6. TypeOK
      BY <1>1, <1>3, <1>5 DEF Init, TypeOK, Present
<1>7. \A f \in File, e \in Entry : Has(f, e) => f \in TrueFiles /\ e = files[f]
      BY <1>4 DEF Init, Has
<1>8. \A r \in Reading : ~Reads(r)
      BY DEF Init, Reads
<1>9. \A f \in File, st, sq \in Nat : Noted(f, st, sq) => st = 0 /\ sq = 0
      BY <1>4, <1>7, <1>8 DEF Noted
<1>10. NumbersInv
      BY <1>2, <1>9 DEF NumbersInv, Init
<1>11. TellsInv
      BY <1>4, <1>7 DEF TellsInv, StampTells
<1>12. SettledInv
      BY <1>2, <1>3, <1>4 DEF SettledInv, Agrees, Current, Init
<1> QED
    BY <1>6, <1>10, <1>11, <1>12 DEF CatalogInv, ScanInv, InvalidInv, MutationInv, Init

LEMMA CatalogNext ==
  ASSUME CatalogInv, [Next]_vars
  PROVE  CatalogInv'
<1>1. ASSUME NEW f \in File, NEW c \in Holds[f] \cup {Absent}, NEW quiet \in BOOLEAN,
             ExternalEdit(f, c, quiet) \/ MutationWrite(f, c, quiet)
      PROVE  CatalogInv'
  <2>1. c \in Content \cup {Absent}
        BY HoldsAssumption
  <2> QED
      BY <1>1, <2>1, ExternalEditKeeps, MutationWriteKeeps
<1>2. CASE UNCHANGED vars
  <2>1. TypeOK'
        BY <1>2 DEF CatalogInv, TypeOK, vars
  <2>2. Grows
        BY <1>2 DEF Grows, Has, Reads, vars
  <2> QED
      BY <1>2, <2>1, <2>2, BesideKeeps DEF vars
<1>3. ASSUME NEW o \in Observer,
             \/ \E S \in Detail : Observe(o, S)
             \/ \E f \in File : ObserveStat(o, f)
             \/ ObserveRead(o) \/ ObserveApply(o)
      PROVE  CatalogInv'
      BY <1>3, ObserveKeeps, ObserveStatKeeps, ObserveReadKeeps, ObserveApplyKeeps
<1> QED
    BY <1>1, <1>2, <1>3, RefreshKeeps, StartScanKeeps, ListRootsKeeps, ScanReadKeeps, EndScanKeeps,
       ScanStatKeeps DEF Next

\* The whole invariant.
THEOREM CatalogHolds == Spec => []CatalogInv
<1>1. Init => CatalogInv
      BY CatalogBegins
<1>2. CatalogInv /\ [Next]_vars => CatalogInv'
      BY CatalogNext
<1> QED
    BY <1>1, <1>2, PTL DEF Spec

\* The tracker's state and the states of the reads under way are of their types.
THEOREM CatalogTypeCorrect == Spec => []TypeOK
<1>1. CatalogInv => TypeOK
      BY DEF CatalogInv
<1> QED
    BY <1>1, CatalogHolds, PTL

\* What the tracker would use again because its stamp is the same is what the file holds,
\* unless somebody changed the file under its stamp.
THEOREM StampsTellHolds == Spec => []StampsTell
<1>1. CatalogInv => StampsTell
      BY TableFields DEF CatalogInv, TypeOK, TellsInv, Has, StampsTell
<1> QED
    BY <1>1, CatalogHolds, PTL

\* At rest after a scan that began after the last edit, what is published is what the disk
\* holds; and a mutation is answered only when what it wrote is published.
THEOREM PublishedIsDiskHolds == Spec => []PublishedIsDisk
<1>1. CatalogInv => SettledAgrees
  <2> SUFFICES ASSUME CatalogInv, Idle, scannedSince, forged = {}
               PROVE  /\ missing = TrueMissing /\ TrueFiles \subseteq DOMAIN files
                      /\ \A f \in DOMAIN files : disk[f] # Absent /\ files[f].digest = disk[f].content
      BY DEF SettledAgrees
  <2>1. Agrees
        BY DEF CatalogInv, SettledInv, Idle
  <2>2. \A f \in DOMAIN files : StampTells(f, files[f])
        BY TableFields DEF CatalogInv, TypeOK, TellsInv, Has
  <2> QED
      BY <2>1, <2>2 DEF Agrees, StampTells, Current
<1>2. CatalogInv => MutationPublished
  <2> SUFFICES ASSUME CatalogInv, mutation # None, mutation.answered, mutation.file \in Perimeter,
                      forged \cap Above(mutation.file) \subseteq {mutation.file}
               PROVE  IF mutation.content # Absent
                      THEN mutation.file \in DOMAIN files /\ files[mutation.file].digest = mutation.content
                      ELSE mutation.file \notin DOMAIN files \/ queue # <<>> \/ scan # None
      BY DEF MutationPublished
  <2>1. MutationRight(mutation.file, mutation.content)
        BY DEF CatalogInv, MutationInv
  <2>2. \A f \in DOMAIN files : files[f] \in Entry /\ files[f].seq \in Nat /\ Has(f, files[f])
        BY TableFields DEF CatalogInv, TypeOK, Has, Entry
  <2> QED
      BY <2>1, <2>2 DEF MutationRight, RightFrom
<1> QED
    BY <1>1, <1>2, CatalogHolds, PTL DEF PublishedIsDisk

\* No step replaces what was read of a file by what was read of it before, whether a scan or
\* an observation read it, and whichever ended first.
THEOREM LatestReadWinsHolds == Spec => LatestReadWins
<1>1. TypeOK /\ [Next]_vars => [LaterOnly]_vars
  <2> SUFFICES ASSUME TypeOK, Next PROVE LaterOnly
      OBVIOUS
  <2>1. UNCHANGED files => LaterOnly
        BY TableFields DEF TypeOK, LaterOnly, Entry
  <2>2. EndScan => LaterOnly
        BY EndFields
  <2>3. \A o \in Observer : ObserveApply(o) => LaterOnly
        BY ApplyFields
  <2> QED
      BY <2>1, <2>2, <2>3 DEF Next, ExternalEdit, MutationWrite, Refresh, StartScan, ListRoots,
         ScanRead, ScanStat, Observe, ObserveStat, ObserveRead
<1> QED
    BY <1>1, CatalogTypeCorrect, PTL DEF Spec, LatestReadWins, LaterOnly

-------------------------------------------------------------------------------
(* The store of the Mocks page.                                            *)

OpFields == {"n", "kind", "id", "at", "todo", "epoch", "items", "tree", "sel", "list", "got"}
UiFields == {"items", "tree", "sel", "gone", "stale", "busy", "epoch", "told", "queued", "ops"}
IsList(x) ==
  DOMAIN x = {"tag", "inst", "ver", "ids"} /\ x.tag \in Nat /\ x.inst \in Nat /\ x.ver \in Nat
IsDetail(x) ==
  DOMAIN x = {"tag", "id", "inst", "ver"} /\ x.tag \in Nat /\ x.inst \in Nat /\ x.ver \in Nat
IsOp(o) ==
  /\ DOMAIN o = OpFields /\ o.epoch \in Nat
  /\ IsList(o.items) /\ IsList(o.tree) /\ IsDetail(o.sel) /\ IsList(o.list) /\ IsDetail(o.got)

\* The actions whose end shows the detail that their answer carried.
Detailed == {"detail", "create", "toggle", "assign"}
\* What an operation has got by the time its end looks at it.
Holding(o) ==
  /\ o.at = "listed" => o.list # NoList
  /\ o.at = "read" => o.got # NoDetail
  /\ o.kind \in Detailed /\ o.at \in {"acted", "list", "listed"} => o.got # NoDetail
  /\ o.kind = "direct" /\ o.at = "acted" => o.list # NoList
  /\ o.kind = "sync" => o.at \in {"list", "listed", "item", "read", "failed"}

\* Nothing is newer than the engine, and what was asked for in this workspace is of it.
SoundOp(o, u, e) ==
  /\ IsOp(o) /\ Holding(o) /\ o.epoch <= u.epoch
  /\ o.items.ver <= e.ver /\ o.tree.ver <= e.ver /\ o.sel.ver <= e.ver
  /\ o.list.ver <= e.ver /\ o.got.ver <= e.ver
  /\ o.epoch = u.epoch =>
       (o.list = NoList \/ o.list.inst >= u.told) /\ (o.got = NoDetail \/ o.got.inst >= u.told)

\* What carries the tag that a reread has kept is not newer than what the reread brings.
Behind(x, tag, then) == x.tag = tag => x.ver <= then.ver
Sees(o, u) ==
  o.kind = "sync" =>
    /\ o.list # NoList =>
         /\ Behind(u.items, o.items.tag, o.list) /\ Behind(u.tree, o.tree.tag, o.list)
         /\ \A p \in u.ops : /\ Behind(p.items, o.items.tag, o.list)
                             /\ Behind(p.tree, o.tree.tag, o.list)
    /\ o.got # NoDetail => Behind(u.sel, o.sel.tag, o.got)

Shown(u, e) ==
  /\ DOMAIN u = UiFields /\ IsFiniteSet(u.ops)
  /\ IsList(u.items) /\ IsList(u.tree) /\ IsDetail(u.sel)
  /\ u.epoch \in Nat /\ u.told \in Nat /\ u.told <= e.run
  /\ u.items.ver <= e.ver /\ u.tree.ver <= e.ver /\ u.sel.ver <= e.ver
StoreSound(u, e) == Shown(u, e) /\ \A o \in u.ops : SoundOp(o, u, e) /\ Sees(o, u)

IsEngine(e) ==
  DOMAIN e = {"run", "ws", "content", "ver", "rev", "last"} /\ e.run \in Nat \ {0} /\ e.ver \in Nat
PollSound(s, e) ==
  /\ DOMAIN s = {"info", "connected", "poll", "pending", "timer", "visible"}
  /\ DOMAIN s.poll = {"at", "resync", "info"}
  /\ s.poll.at = "answered" => s.poll.info.run \in Nat /\ s.poll.info.run <= e.run
StoreInv == IsEngine(engine) /\ PollSound(sync, engine) /\ StoreSound(ui, engine)

LEMMA UnionBound ==
  ASSUME NEW S, NEW T, IsFiniteSet(S), IsFiniteSet(T), NEW a \in Nat, NEW b \in Nat,
         Cardinality(S) <= a, Cardinality(T) <= b
  PROVE  IsFiniteSet(S \cup T) /\ Cardinality(S \cup T) <= a + b
<1>1. /\ IsFiniteSet(S \cup T)
      /\ Cardinality(S \cup T) = Cardinality(S) + Cardinality(T) - Cardinality(S \cap T)
      BY FS_Union
<1>2. S \cap T \in SUBSET S
      OBVIOUS
<1>3. IsFiniteSet(S \cap T)
      BY <1>2, FS_Subset
<1>4. Cardinality(S) \in Nat /\ Cardinality(T) \in Nat /\ Cardinality(S \cap T) \in Nat
      BY <1>3, FS_CardinalityType
<1> QED
    BY <1>1, <1>4

LEMMA FreshTagFree ==
  ASSUME NEW u, IsFiniteSet(u.ops)
  PROVE  FreshTag(u) \in Nat /\ FreshTag(u) # 0 /\ FreshTag(u) \notin Held(u)
<1> DEFINE A == {o.items.tag : o \in u.ops}
           B == {o.tree.tag : o \in u.ops}
           C == {o.sel.tag : o \in u.ops}
           D == {u.items.tag, u.tree.tag, u.sel.tag}
           k == 3 * Cardinality(u.ops) + 4
<1>0. Cardinality(u.ops) \in Nat /\ k \in Nat
      BY FS_CardinalityType
<1>1. IsFiniteSet(A) /\ Cardinality(A) <= Cardinality(u.ops)
  <2> DEFINE f == [o \in u.ops |-> o.items.tag]
  <2>1. f \in Surjection(u.ops, A)
        BY DEF Surjection
  <2> QED BY <2>1, FS_Surjection
<1>2. IsFiniteSet(B) /\ Cardinality(B) <= Cardinality(u.ops)
  <2> DEFINE f == [o \in u.ops |-> o.tree.tag]
  <2>1. f \in Surjection(u.ops, B)
        BY DEF Surjection
  <2> QED BY <2>1, FS_Surjection
<1>3. IsFiniteSet(C) /\ Cardinality(C) <= Cardinality(u.ops)
  <2> DEFINE f == [o \in u.ops |-> o.sel.tag]
  <2>1. f \in Surjection(u.ops, C)
        BY DEF Surjection
  <2> QED BY <2>1, FS_Surjection
<1>4. IsFiniteSet(D) /\ Cardinality(D) <= 3
  <2>1. ASSUME NEW x
        PROVE  IsFiniteSet({x}) /\ Cardinality({x}) <= 1
    <3>1. IsFiniteSet({x}) /\ Cardinality({x}) = 1
          BY FS_Singleton
    <3> QED BY <3>1
  <2>2. /\ IsFiniteSet({u.items.tag} \cup {u.tree.tag})
        /\ Cardinality({u.items.tag} \cup {u.tree.tag}) <= 1 + 1
        BY <2>1, UnionBound
  <2>a. Cardinality({u.items.tag} \cup {u.tree.tag}) <= 2
        BY <2>2
  <2>3. /\ IsFiniteSet(({u.items.tag} \cup {u.tree.tag}) \cup {u.sel.tag})
        /\ Cardinality(({u.items.tag} \cup {u.tree.tag}) \cup {u.sel.tag}) <= 2 + 1
        BY <2>1, <2>2, <2>a, UnionBound
  <2>4. D = ({u.items.tag} \cup {u.tree.tag}) \cup {u.sel.tag}
        OBVIOUS
  <2> QED BY <2>3, <2>4
<1> HIDE DEF A, B, C, D
<1>5. /\ IsFiniteSet(((D \cup A) \cup B) \cup C)
      /\ Cardinality(((D \cup A) \cup B) \cup C) <= 3 * Cardinality(u.ops) + 3
  <2> DEFINE n == Cardinality(u.ops)
  <2>0. /\ n \in Nat /\ 3 + n \in Nat /\ (3 + n) + n \in Nat
        /\ Cardinality(A) <= n /\ Cardinality(B) <= n /\ Cardinality(C) <= n
        BY <1>0, <1>1, <1>2, <1>3
  <2> HIDE DEF n
  <2>1. IsFiniteSet(D \cup A) /\ Cardinality(D \cup A) <= 3 + n
        BY <1>1, <1>4, <2>0, UnionBound
  <2>2. IsFiniteSet((D \cup A) \cup B) /\ Cardinality((D \cup A) \cup B) <= (3 + n) + n
        BY <1>2, <2>0, <2>1, UnionBound
  <2>3. /\ IsFiniteSet(((D \cup A) \cup B) \cup C)
        /\ Cardinality(((D \cup A) \cup B) \cup C) <= ((3 + n) + n) + n
        BY <1>3, <2>0, <2>2, UnionBound
  <2> QED BY <2>0, <2>3 DEF n
<1>6. Held(u) = ((D \cup A) \cup B) \cup C
      BY DEF Held, A, B, C, D
<1>7. \E t \in 1..k : t \notin Held(u)
  <2> SUFFICES ASSUME 1..k \subseteq Held(u)
               PROVE  FALSE
      OBVIOUS
  <2>1. Cardinality(1..k) = k
        BY <1>0, FS_Interval
  <2>2. Cardinality(1..k) <= Cardinality(Held(u))
        BY <1>5, <1>6, FS_Subset
  <2> HIDE DEF k
  <2>3. Cardinality(Held(u)) <= 3 * Cardinality(u.ops) + 3
        BY <1>5, <1>6
  <2>4. Cardinality(Held(u)) \in Nat
        BY <1>5, <1>6, FS_CardinalityType
  <2> QED BY <1>0, <2>1, <2>2, <2>3, <2>4 DEF k
<1> QED
    BY <1>0, <1>7 DEF FreshTag

-------------------------------------------------------------------------------
(* Changes of the operations, and of what is shown.                        *)

SameShown(u, v) ==
  /\ v.items = u.items /\ v.tree = u.tree /\ v.sel = u.sel
  /\ v.told = u.told /\ v.epoch = u.epoch
NewActs(u, v) == \A o \in v.ops : o \in u.ops \/ o.at # "act" \/ o.epoch = v.epoch
\* An operation that holds of the lists only what something already holds.
HoldsOld(o, u) ==
  /\ o.items.ver = 0 \/ o.items = u.items \/ \E p \in u.ops : o.items = p.items
  /\ o.tree.ver = 0 \/ o.tree = u.tree \/ \E p \in u.ops : o.tree = p.tree

LEMMA OpsChange ==
  ASSUME NEW u, NEW e, NEW v, StoreSound(u, e), DOMAIN v = UiFields, SameShown(u, v),
         IsFiniteSet(v.ops),
         \A o \in v.ops : o \in u.ops \/ (SoundOp(o, u, e) /\ Sees(o, u) /\ HoldsOld(o, u))
  PROVE  StoreSound(v, e)
<1>1. Shown(v, e)
      BY DEF StoreSound, Shown, SameShown
<1>2. ASSUME NEW o \in v.ops PROVE SoundOp(o, v, e)
      BY <1>2 DEF StoreSound, SoundOp, SameShown
<1>3. ASSUME NEW o \in v.ops PROVE Sees(o, u) /\ IsOp(o)
      BY <1>3 DEF StoreSound, SoundOp
<1>4. ASSUME NEW o \in v.ops, o.kind = "sync", o.list # NoList, NEW p \in v.ops
      PROVE  Behind(p.items, o.items.tag, o.list) /\ Behind(p.tree, o.tree.tag, o.list)
  <2>1. /\ Behind(u.items, o.items.tag, o.list) /\ Behind(u.tree, o.tree.tag, o.list)
        /\ \A q \in u.ops : Behind(q.items, o.items.tag, o.list) /\ Behind(q.tree, o.tree.tag, o.list)
        BY <1>3, <1>4 DEF Sees
  <2>2. p \in u.ops \/ HoldsOld(p, u)
        BY <1>4
  <2>3. o.list.ver \in Nat
        BY <1>3, <1>4 DEF IsOp, IsList
  <2> QED BY <2>1, <2>2, <2>3 DEF HoldsOld, Behind
<1>5. ASSUME NEW o \in v.ops PROVE Sees(o, v)
  <2>1. CASE o.kind = "sync"
        BY <1>3, <1>4, <1>5, <2>1 DEF Sees, SameShown
  <2>2. CASE o.kind # "sync"
        BY <2>2 DEF Sees
  <2> QED BY <2>1, <2>2
<1> QED
    BY <1>1, <1>2, <1>5 DEF StoreSound

\* What can be shown instead: what something holds, or something under a tag of its own.
ListFor(x, now, u, e) ==
  \/ x = now
  \/ IsList(x) /\ x.tag = now.tag /\ x.ver = now.ver
  \/ IsList(x) /\ x.ver <= e.ver /\ x.tag \notin Held(u)
DetailFor(x, u, e) ==
  \/ x = u.sel
  \/ x = NoDetail
  \/ IsDetail(x) /\ x.ver <= e.ver /\ x.tag \notin Held(u)

LEMMA ShownChange ==
  ASSUME NEW u, NEW e, NEW v, StoreSound(u, e), IsEngine(e), DOMAIN v = UiFields,
         v.ops = u.ops, v.told = u.told, v.epoch = u.epoch,
         ListFor(v.items, u.items, u, e) \/ \E p \in u.ops : v.items = p.items,
         ListFor(v.tree, u.tree, u, e) \/ \E p \in u.ops : v.tree = p.tree,
         DetailFor(v.sel, u, e)
  PROVE  StoreSound(v, e)
<1>0. e.ver \in Nat
      BY DEF IsEngine
<1>1. \A o \in u.ops : SoundOp(o, u, e) /\ Sees(o, u) /\ IsOp(o)
      BY DEF StoreSound, SoundOp
<1>2. Shown(v, e)
  <2>1. IsList(v.items) /\ v.items.ver <= e.ver
        BY <1>1 DEF ListFor, StoreSound, Shown, SoundOp, IsOp
  <2>2. IsList(v.tree) /\ v.tree.ver <= e.ver
        BY <1>1 DEF ListFor, StoreSound, Shown, SoundOp, IsOp
  <2>3. IsDetail(NoDetail) /\ NoDetail.ver <= e.ver
        BY <1>0 DEF IsDetail, NoDetail
  <2>4. IsDetail(v.sel) /\ v.sel.ver <= e.ver
        BY <2>3 DEF DetailFor, StoreSound, Shown
  <2> QED BY <2>1, <2>2, <2>4 DEF StoreSound, Shown
<1>3. \A o \in v.ops : SoundOp(o, v, e)
      BY <1>1 DEF SoundOp
<1>4. \A o \in u.ops : o.items.tag \in Held(u) /\ o.tree.tag \in Held(u) /\ o.sel.tag \in Held(u)
      BY DEF Held
<1>5. ASSUME NEW o \in u.ops, o.kind = "sync", o.list # NoList
      PROVE  Behind(v.items, o.items.tag, o.list) /\ Behind(v.tree, o.tree.tag, o.list)
  <2>1. /\ Behind(u.items, o.items.tag, o.list) /\ Behind(u.tree, o.tree.tag, o.list)
        /\ \A q \in u.ops : Behind(q.items, o.items.tag, o.list) /\ Behind(q.tree, o.tree.tag, o.list)
        BY <1>1, <1>5 DEF Sees
  <2>2. Behind(v.items, o.items.tag, o.list)
        BY <1>4, <1>5, <2>1 DEF ListFor, Behind
  <2>3. Behind(v.tree, o.tree.tag, o.list)
        BY <1>4, <1>5, <2>1 DEF ListFor, Behind
  <2> QED BY <2>2, <2>3
<1>6. ASSUME NEW o \in u.ops, o.kind = "sync", o.got # NoDetail
      PROVE  Behind(v.sel, o.sel.tag, o.got)
  <2>1. Behind(u.sel, o.sel.tag, o.got) /\ o.got.ver \in Nat
        BY <1>1, <1>6 DEF Sees, IsOp, IsDetail
  <2>2. Behind(NoDetail, o.sel.tag, o.got)
        BY <2>1 DEF Behind, NoDetail
  <2> QED BY <1>4, <1>6, <2>1, <2>2 DEF DetailFor, Behind
<1>7. ASSUME NEW o \in v.ops PROVE Sees(o, v)
  <2>1. CASE o.kind = "sync"
        BY <1>1, <1>5, <1>6, <1>7, <2>1 DEF Sees
  <2>2. CASE o.kind # "sync"
        BY <2>2 DEF Sees
  <2> QED BY <2>1, <2>2
<1> QED
    BY <1>2, <1>3, <1>7 DEF StoreSound

-------------------------------------------------------------------------------
(* What the steps of the store are made of.                                *)

\* What may have changed of what is shown came from the workspace it is told of.
Follows(u, v) ==
  /\ v.told = u.told /\ v.epoch = u.epoch
  /\ v.items.inst = u.items.inst \/ v.items.inst >= v.told
  /\ v.tree.inst = u.tree.inst \/ v.tree.inst >= v.told
  /\ \/ v.sel = u.sel \/ v.sel = NoDetail \/ v.sel.inst >= v.told
     \/ u.sel # NoDetail /\ v.sel.inst = u.sel.inst
  /\ NewActs(u, v)

LEMMA FollowsOn ==
  ASSUME NEW u, NEW v, NEW w, Follows(u, v), Follows(v, w)
  PROVE  Follows(u, w)
BY DEF Follows, NewActs

LEMMA SameFollows ==
  ASSUME NEW u, NEW v, SameShown(u, v), NewActs(u, v)
  PROVE  Follows(u, v)
BY DEF Follows, SameShown

\* What an operation can begin with.
Beginning(kind, at) ==
  /\ at \in {"act", "list", "item"}
  /\ at = "list" => kind \notin Detailed
  /\ kind = "sync" => at = "list"

LEMMA Begins ==
  ASSUME NEW u, NEW e, StoreSound(u, e), IsEngine(e),
         NEW kind, NEW id, NEW at, NEW todo, Beginning(kind, at)
  PROVE  /\ StoreSound(Begin(u, kind, id, at, todo), e)
         /\ SameShown(u, Begin(u, kind, id, at, todo))
         /\ NewActs(u, Begin(u, kind, id, at, todo))
         /\ u.ops \subseteq Begin(u, kind, id, at, todo).ops
         /\ DOMAIN Begin(u, kind, id, at, todo) = UiFields
<1> DEFINE v == Begin(u, kind, id, at, todo)
           part(p, now) == IF kind = "sync" THEN [NoList EXCEPT !.tag = now.tag]
                           ELSE IF p \in Optimistic(kind) \/ kind = "removeMany" THEN now
                           ELSE NoList
           new == [n |-> CHOOSE n \in 1..(Cardinality(u.ops) + 1) : \A o \in u.ops : o.n # n,
                   kind |-> kind, id |-> id, at |-> at, todo |-> todo, epoch |-> u.epoch,
                   items |-> part("items", u.items), tree |-> part("tree", u.tree),
                   sel |-> IF kind \in {"sync", "reread", "removeMany"} THEN u.sel ELSE NoDetail,
                   list |-> NoList, got |-> NoDetail]
<1>0. v = [u EXCEPT !.ops = @ \cup {new}]
      BY DEF Begin
<1>a. DOMAIN u = UiFields /\ IsFiniteSet(u.ops) /\ e.ver \in Nat
      BY DEF StoreSound, Shown, IsEngine
<1> HIDE DEF new, v
<1>1. /\ DOMAIN v = UiFields /\ SameShown(u, v) /\ v.ops = u.ops \cup {new}
      BY <1>0, <1>a DEF UiFields, SameShown
<1>2. IsFiniteSet(v.ops)
      BY <1>1, <1>a, FS_AddElement
<1>3. /\ IsList(NoList) /\ NoList.ver = 0 /\ IsDetail(NoDetail) /\ NoDetail.ver = 0
      BY DEF IsList, NoList, IsDetail, NoDetail
<1>4. ASSUME NEW now, IsList(now)
      PROVE  LET x == [NoList EXCEPT !.tag = now.tag] IN IsList(x) /\ x.ver = 0
      BY <1>4 DEF IsList, NoList
<1>b. /\ IsList(u.items) /\ IsList(u.tree) /\ IsDetail(u.sel) /\ u.epoch \in Nat
      /\ u.items.ver <= e.ver /\ u.tree.ver <= e.ver /\ u.sel.ver <= e.ver
      BY DEF StoreSound, Shown
<1>5. /\ IsList(part("items", u.items)) /\ part("items", u.items).ver <= e.ver
      /\ part("items", u.items).ver = 0 \/ part("items", u.items) = u.items
      BY <1>3, <1>4, <1>a, <1>b
<1>6. /\ IsList(part("tree", u.tree)) /\ part("tree", u.tree).ver <= e.ver
      /\ part("tree", u.tree).ver = 0 \/ part("tree", u.tree) = u.tree
      BY <1>3, <1>4, <1>a, <1>b
<1> HIDE DEF part
<1>7. /\ DOMAIN new = OpFields /\ new.kind = kind /\ new.at = at /\ new.epoch = u.epoch
      /\ new.items = part("items", u.items) /\ new.tree = part("tree", u.tree)
      /\ new.sel = u.sel \/ new.sel = NoDetail
      /\ new.list = NoList /\ new.got = NoDetail
      BY DEF OpFields, new
<1>8. IsOp(new)
      BY <1>3, <1>5, <1>6, <1>7, <1>b DEF IsOp
<1>9. Holding(new)
      BY <1>7 DEF Holding, Beginning, Detailed
<1>10. SoundOp(new, u, e)
      BY <1>3, <1>5, <1>6, <1>7, <1>8, <1>9, <1>a, <1>b DEF SoundOp
<1>11. Sees(new, u) /\ HoldsOld(new, u)
      BY <1>5, <1>6, <1>7 DEF Sees, HoldsOld
<1>12. StoreSound(v, e)
  <2>1. \A o \in v.ops : o \in u.ops \/ (SoundOp(o, u, e) /\ Sees(o, u) /\ HoldsOld(o, u))
        BY <1>1, <1>10, <1>11
  <2> QED BY <1>1, <1>2, <2>1, OpsChange
<1>13. NewActs(u, v)
      BY <1>1, <1>7 DEF NewActs, SameShown
<1> QED
    BY <1>1, <1>12, <1>13 DEF v

\* Operations end.
LEMMA Fewer ==
  ASSUME NEW u, NEW e, StoreSound(u, e), NEW v, DOMAIN v = UiFields, SameShown(u, v),
         v.ops \subseteq u.ops
  PROVE  StoreSound(v, e) /\ Follows(u, v)
<1>1. IsFiniteSet(v.ops)
      BY FS_Subset DEF StoreSound, Shown
<1>2. StoreSound(v, e)
      BY <1>1, OpsChange
<1> QED
    BY <1>2, SameFollows DEF NewActs

LEMMA WithoutOne ==
  ASSUME NEW u, NEW e, StoreSound(u, e), NEW o
  PROVE  /\ StoreSound(Without(u, o), e) /\ Follows(u, Without(u, o))
         /\ SameShown(u, Without(u, o)) /\ Without(u, o).ops = u.ops \ {o}
<1>1. DOMAIN u = UiFields
      BY DEF StoreSound, Shown
<1>2. /\ DOMAIN Without(u, o) = UiFields /\ SameShown(u, Without(u, o))
      /\ Without(u, o).ops = u.ops \ {o}
      BY <1>1 DEF Without, UiFields, SameShown
<1> QED
    BY <1>2, Fewer

LEMMA SettledOne ==
  ASSUME NEW u, NEW e, StoreSound(u, e), NEW o
  PROVE  /\ StoreSound(Settled(u, o), e) /\ Follows(u, Settled(u, o))
         /\ SameShown(u, Settled(u, o)) /\ Settled(u, o).ops = u.ops \ {o}
<1> DEFINE w == Without(u, o)
<1>1. DOMAIN w = UiFields /\ SameShown(u, w) /\ w.ops = u.ops \ {o}
      BY WithoutOne DEF StoreSound, Shown
<1>2. Settled(u, o) = [w EXCEPT !.busy = @ \ Indicator(o.kind)]
      BY DEF Settled
<1> HIDE DEF w
<1>3. /\ DOMAIN Settled(u, o) = UiFields /\ SameShown(u, Settled(u, o))
      /\ Settled(u, o).ops = u.ops \ {o}
      BY <1>1, <1>2 DEF UiFields, SameShown
<1> QED
    BY <1>3, Fewer

LEMMA Applies ==
  ASSUME NEW u, NEW e, StoreSound(u, e), IsEngine(e), NEW list, IsList(list), list.ver <= e.ver
  PROVE  LET v == ApplyCatalogResponse(u, list)
         IN /\ StoreSound(v, e)
            /\ v.items.inst = list.inst /\ v.items.ver = list.ver
            /\ v.tree.inst = list.inst /\ v.tree.ver = list.ver
            /\ v.sel = u.sel /\ v.told = u.told /\ v.epoch = u.epoch /\ v.ops = u.ops
<1> DEFINE shown == [list EXCEPT !.tag = FreshTag(u)]
           v == ApplyCatalogResponse(u, list)
<1>1. DOMAIN u = UiFields /\ IsFiniteSet(u.ops)
      BY DEF StoreSound, Shown
<1>2. FreshTag(u) \in Nat /\ FreshTag(u) \notin Held(u)
      BY <1>1, FreshTagFree
<1>3. /\ IsList(shown) /\ shown.ver = list.ver /\ shown.inst = list.inst /\ shown.tag \notin Held(u)
      BY <1>2 DEF IsList
<1>4. v = [u EXCEPT !.items = shown, !.tree = shown]
      BY DEF ApplyCatalogResponse
<1> HIDE DEF shown
<1>5. /\ DOMAIN v = UiFields /\ v.items = shown /\ v.tree = shown /\ v.sel = u.sel
      /\ v.told = u.told /\ v.epoch = u.epoch /\ v.ops = u.ops
      BY <1>1, <1>4 DEF UiFields
<1> HIDE DEF v
<1>6. StoreSound(v, e)
      BY <1>3, <1>5, ShownChange DEF ListFor, DetailFor
<1> QED
    BY <1>3, <1>5, <1>6 DEF v

LEMMA Selects ==
  ASSUME NEW u, NEW e, StoreSound(u, e), IsEngine(e), NEW d, IsDetail(d), d.ver <= e.ver
  PROVE  LET v == SetSelected(u, d)
         IN /\ StoreSound(v, e) /\ v.sel.inst = d.inst /\ v.sel.ver = d.ver
            /\ v.items = u.items /\ v.tree = u.tree
            /\ v.told = u.told /\ v.epoch = u.epoch /\ v.ops = u.ops
<1> DEFINE shown == [d EXCEPT !.tag = FreshTag(u)]
           v == SetSelected(u, d)
<1>1. DOMAIN u = UiFields /\ IsFiniteSet(u.ops)
      BY DEF StoreSound, Shown
<1>2. FreshTag(u) \in Nat /\ FreshTag(u) \notin Held(u)
      BY <1>1, FreshTagFree
<1>3. /\ IsDetail(shown) /\ shown.ver = d.ver /\ shown.inst = d.inst /\ shown.tag \notin Held(u)
      BY <1>2 DEF IsDetail
<1>4. v = [u EXCEPT !.sel = shown, !.gone = FALSE]
      BY DEF SetSelected
<1> HIDE DEF shown
<1>5. /\ DOMAIN v = UiFields /\ v.sel = shown /\ v.items = u.items /\ v.tree = u.tree
      /\ v.told = u.told /\ v.epoch = u.epoch /\ v.ops = u.ops
      BY <1>1, <1>4 DEF UiFields
<1> HIDE DEF v
<1>6. StoreSound(v, e)
      BY <1>3, <1>5, ShownChange DEF ListFor, DetailFor
<1> QED
    BY <1>3, <1>5, <1>6 DEF v

LEMMA Clears ==
  ASSUME NEW u, NEW e, StoreSound(u, e), IsEngine(e)
  PROVE  LET v == ClearSelected(u)
         IN StoreSound(v, e) /\ Follows(u, v) /\ v.ops = u.ops
<1> DEFINE v == ClearSelected(u)
<1>1. DOMAIN u = UiFields
      BY DEF StoreSound, Shown
<1>2. /\ DOMAIN v = UiFields /\ v.sel = NoDetail /\ v.items = u.items /\ v.tree = u.tree
      /\ v.told = u.told /\ v.epoch = u.epoch /\ v.ops = u.ops
      BY <1>1 DEF ClearSelected, UiFields
<1> HIDE DEF v
<1>3. StoreSound(v, e)
      BY <1>2, ShownChange DEF ListFor, DetailFor
<1> QED
    BY <1>2, <1>3 DEF v, Follows, NewActs

\* Only what nobody holds changes: flags, and what is busy or queued.
LEMMA FlagsOnly ==
  ASSUME NEW u, NEW e, StoreSound(u, e), NEW v, DOMAIN v = UiFields, SameShown(u, v),
         v.ops = u.ops
  PROVE  StoreSound(v, e) /\ Follows(u, v)
BY Fewer

\* An operation goes on, with what the engine has answered or without.
LEMMA Replaced ==
  ASSUME NEW u, NEW e, StoreSound(u, e), IsEngine(e), NEW o \in u.ops, NEW new,
         DOMAIN new = OpFields, Holding(new), new.kind = o.kind, new.epoch = o.epoch,
         new.items = o.items, new.tree = o.tree, new.sel = o.sel,
         \/ new.list \in {o.list, NoList}
         \/ IsList(new.list) /\ new.list.ver = e.ver /\ new.list.inst = e.run,
         \/ new.got \in {o.got, NoDetail}
         \/ IsDetail(new.got) /\ new.got.ver = e.ver /\ new.got.inst = e.run,
         new.at = "act" => o.epoch = u.epoch
  PROVE  LET v == [u EXCEPT !.ops = (@ \ {o}) \cup {new}]
         IN StoreSound(v, e) /\ SameShown(u, v) /\ NewActs(u, v) /\ u.ops \ {o} \subseteq v.ops
<1> DEFINE v == [u EXCEPT !.ops = (@ \ {o}) \cup {new}]
<1>1. /\ DOMAIN u = UiFields /\ IsFiniteSet(u.ops) /\ u.told \in Nat /\ u.told <= e.run
      /\ e.ver \in Nat /\ e.run \in Nat
      /\ u.items.ver <= e.ver /\ u.tree.ver <= e.ver /\ u.sel.ver <= e.ver
      BY DEF StoreSound, Shown, IsEngine
<1>2. DOMAIN v = UiFields /\ SameShown(u, v) /\ v.ops = (u.ops \ {o}) \cup {new}
      BY <1>1 DEF UiFields, SameShown
<1> HIDE DEF v
<1>3. IsFiniteSet(v.ops)
  <2>1. IsFiniteSet(u.ops \ {o})
        BY <1>1, FS_RemoveElement
  <2> QED BY <1>2, <2>1, FS_AddElement
<1>4. \A q \in u.ops : SoundOp(q, u, e) /\ Sees(q, u)
      BY DEF StoreSound
<1>5. /\ IsList(NoList) /\ NoList.ver = 0 /\ IsDetail(NoDetail) /\ NoDetail.ver = 0
      BY DEF IsList, NoList, IsDetail, NoDetail
<1>6. SoundOp(new, u, e)
  <2>1. IsOp(new) /\ new.list.ver <= e.ver /\ new.got.ver <= e.ver
        BY <1>1, <1>4, <1>5 DEF SoundOp, IsOp
  <2>2. new.list = NoList \/ new.list = o.list \/ new.list.inst >= u.told
        BY <1>1
  <2>3. new.got = NoDetail \/ new.got = o.got \/ new.got.inst >= u.told
        BY <1>1
  <2> QED BY <1>4, <2>1, <2>2, <2>3 DEF SoundOp
<1>7. Sees(new, u)
  <2>1. ASSUME new.kind = "sync", new.list # NoList
        PROVE  /\ Behind(u.items, new.items.tag, new.list) /\ Behind(u.tree, new.tree.tag, new.list)
               /\ \A q \in u.ops : /\ Behind(q.items, new.items.tag, new.list)
                                   /\ Behind(q.tree, new.tree.tag, new.list)
    <3>1. CASE new.list = o.list
          BY <1>4, <2>1, <3>1 DEF Sees
    <3>2. CASE new.list.ver = e.ver
          BY <1>1, <1>4, <3>2 DEF Behind, SoundOp
    <3> QED BY <2>1, <3>1, <3>2
  <2>2. ASSUME new.kind = "sync", new.got # NoDetail
        PROVE  Behind(u.sel, new.sel.tag, new.got)
    <3>1. CASE new.got = o.got
          BY <1>4, <2>2, <3>1 DEF Sees
    <3>2. CASE new.got.ver = e.ver
          BY <1>1, <3>2 DEF Behind
    <3> QED BY <2>2, <3>1, <3>2
  <2> QED BY <2>1, <2>2 DEF Sees
<1>8. HoldsOld(new, u)
      BY DEF HoldsOld
<1>9. StoreSound(v, e)
  <2>1. \A q \in v.ops : q \in u.ops \/ (SoundOp(q, u, e) /\ Sees(q, u) /\ HoldsOld(q, u))
        BY <1>2, <1>6, <1>7, <1>8
  <2> QED BY <1>2, <1>3, <2>1, OpsChange
<1>10. NewActs(u, v)
      BY <1>2 DEF NewActs, SameShown
<1> QED
    BY <1>2, <1>9, <1>10 DEF v

\* The engine only moves on.
LEMMA Later ==
  ASSUME NEW u, NEW e, NEW d, StoreSound(u, e), IsEngine(e), IsEngine(d),
         e.run <= d.run, e.ver <= d.ver
  PROVE  StoreSound(u, d)
<1>1. \A o \in u.ops : /\ IsList(o.items) /\ IsList(o.tree) /\ IsDetail(o.sel)
                       /\ IsList(o.list) /\ IsDetail(o.got)
      BY DEF StoreSound, SoundOp, IsOp
<1>2. Shown(u, d)
      BY DEF StoreSound, Shown, IsEngine, IsList, IsDetail
<1>3. \A o \in u.ops : SoundOp(o, u, d)
      BY <1>1 DEF StoreSound, SoundOp, IsEngine, IsList, IsDetail
<1> QED
    BY <1>2, <1>3 DEF StoreSound

LEMMA Writes ==
  ASSUME NEW e, IsEngine(e), NEW c
  PROVE  IsEngine(Write(e, c)) /\ Write(e, c).run = e.run /\ e.ver <= Write(e, c).ver
<1> DEFINE w == [e EXCEPT !.content = c, !.ver = IF c = e.content THEN @ ELSE @ + 1]
<1>1. IsEngine(w) /\ w.run = e.run /\ e.ver <= w.ver
      BY DEF IsEngine
<1>2. Write(e, c) = IF w.content = w.last THEN w ELSE [w EXCEPT !.rev = @ + 1, !.last = w.content]
      BY DEF Write, ObserveRevision
<1> HIDE DEF w
<1> QED
    BY <1>1, <1>2 DEF IsEngine

LEMMA Observes ==
  ASSUME NEW e, IsEngine(e)
  PROVE  LET w == ObserveRevision(e) IN IsEngine(w) /\ w.run = e.run /\ w.ver = e.ver
BY DEF ObserveRevision, IsEngine

LEMMA Restarts ==
  ASSUME NEW e, IsEngine(e), NEW ws, NEW c
  PROVE  LET w == Restarted(e, ws, c) IN IsEngine(w) /\ e.run <= w.run /\ e.ver <= w.ver
BY DEF Restarted, IsEngine

LEMMA Checks ==
  ASSUME NEW e, NEW s, PollSound(s, e), NEW r
  PROVE  PollSound(Check(s, r), e)
BY DEF PollSound, Check

LEMMA PollsEnd ==
  ASSUME NEW e, NEW s, PollSound(s, e)
  PROVE  PollSound(PollEnded(s), e)
<1> DEFINE kept == IF s.poll.at = "failed" THEN [s EXCEPT !.connected = FALSE, !.poll = Quiet]
                   ELSE [s EXCEPT !.info = s.poll.info, !.connected = TRUE, !.poll = Quiet]
<1>1. PollSound(kept, e)
      BY DEF PollSound, Quiet
<1>2. PollEnded(s) = IF kept.pending THEN Check(kept, FALSE) ELSE [kept EXCEPT !.timer = kept.visible]
      BY DEF PollEnded
<1> HIDE DEF kept
<1>3. PollSound([kept EXCEPT !.timer = kept.visible], e)
      BY <1>1 DEF PollSound
<1> QED
    BY <1>1, <1>2, <1>3, Checks

-------------------------------------------------------------------------------
(* The helpers of the store, each a move that ends nothing but o.          *)

Moves(o, u, v, e) == StoreSound(v, e) /\ Follows(u, v) /\ u.ops \ {o} \subseteq v.ops

LEMMA MovesOn ==
  ASSUME NEW o, NEW e, NEW u, NEW v, NEW w, Moves(o, u, v, e), Moves(o, v, w, e)
  PROVE  Moves(o, u, w, e)
BY FollowsOn DEF Moves

LEMMA Stays ==
  ASSUME NEW o, NEW u, NEW e, StoreSound(u, e)
  PROVE  Moves(o, u, u, e)
BY DEF Moves, Follows, NewActs

LEMMA BeginMoves ==
  ASSUME NEW o, NEW u, NEW e, StoreSound(u, e), IsEngine(e),
         NEW kind, NEW id, NEW at, NEW todo, Beginning(kind, at)
  PROVE  /\ Moves(o, u, Begin(u, kind, id, at, todo), e)
         /\ SameShown(u, Begin(u, kind, id, at, todo))
BY Begins, SameFollows DEF Moves

LEMMA ApplyMoves ==
  ASSUME NEW o, NEW u, NEW e, StoreSound(u, e), IsEngine(e), NEW list, IsList(list),
         list.ver <= e.ver, list.inst >= u.told
  PROVE  /\ Moves(o, u, ApplyCatalogResponse(u, list), e)
         /\ ApplyCatalogResponse(u, list).told = u.told
BY Applies DEF Moves, Follows, NewActs

LEMMA SelectedMoves ==
  ASSUME NEW o, NEW u, NEW e, StoreSound(u, e), IsEngine(e), NEW d, IsDetail(d),
         d.ver <= e.ver, d.inst >= u.told
  PROVE  Moves(o, u, SetSelected(u, d), e)
BY Selects DEF Moves, Follows, NewActs

LEMMA RealignMoves ==
  ASSUME NEW o, NEW u, NEW e, StoreSound(u, e), IsEngine(e)
  PROVE  Moves(o, u, Realigned(u), e)
<1>1. IsDetail(u.sel) /\ u.sel.ver <= e.ver
      BY DEF StoreSound, Shown
<1>2. CASE u.sel # NoDetail /\ u.sel.id \in u.items.ids
  <2>1. Realigned(u) = SetSelected(u, u.sel)
        BY <1>2 DEF Realigned
  <2> QED BY <1>1, <1>2, <2>1, Selects DEF Moves, Follows, NewActs
<1>3. CASE ~(u.sel # NoDetail /\ u.sel.id \in u.items.ids)
      BY <1>3, Stays DEF Realigned
<1> QED
    BY <1>2, <1>3

LEMMA ClearMoves ==
  ASSUME NEW o, NEW u, NEW e, StoreSound(u, e), IsEngine(e)
  PROVE  Moves(o, u, ClearSelected(u), e)
BY Clears DEF Moves

LEMMA FlagMoves ==
  ASSUME NEW o, NEW u, NEW e, StoreSound(u, e), NEW v, DOMAIN v = UiFields, SameShown(u, v),
         v.ops = u.ops
  PROVE  Moves(o, u, v, e)
BY FlagsOnly DEF Moves

LEMMA OpenMoves ==
  ASSUME NEW o, NEW u, NEW e, StoreSound(u, e), IsEngine(e), NEW d, IsDetail(d),
         d.ver <= e.ver, d.inst >= u.told
  PROVE  Moves(o, u, Open(u, d), e)
<1> DEFINE v == [u EXCEPT !.stale = FALSE]
<1>1. DOMAIN v = UiFields /\ SameShown(u, v) /\ v.ops = u.ops
      BY DEF StoreSound, Shown, UiFields, SameShown
<1>2. Open(u, d) = SetSelected(v, d)
      BY DEF Open
<1> HIDE DEF v
<1>3. Moves(o, u, v, e)
      BY <1>1, FlagMoves
<1>4. Moves(o, v, SetSelected(v, d), e)
      BY <1>1, <1>3, SelectedMoves DEF Moves, SameShown
<1> QED
    BY <1>2, <1>3, <1>4, MovesOn

LEMMA SelectMockMoves ==
  ASSUME NEW o, NEW u, NEW e, StoreSound(u, e), IsEngine(e), NEW id
  PROVE  Moves(o, u, SelectMock(u, id), e)
<1>1. Beginning("select", "item")
      BY DEF Beginning
<1> QED
    BY <1>1, BeginMoves, Stays DEF SelectMock

LEMMA LoadMoves ==
  ASSUME NEW o, NEW u, NEW e, StoreSound(u, e), IsEngine(e)
  PROVE  Moves(o, u, LoadCatalog(u), e)
<1>1. Beginning("load", "list")
      BY DEF Beginning, Detailed
<1> QED
    BY <1>1, BeginMoves DEF LoadCatalog

LEMMA OpenOneMoves ==
  ASSUME NEW o, NEW u, NEW e, StoreSound(u, e), IsEngine(e), NEW ids, NEW w, OpenOne(u, ids, w)
  PROVE  Moves(o, u, ui', e)
BY Stays, SelectMockMoves DEF OpenOne

LEMMA WithoutMoves ==
  ASSUME NEW o, NEW u, NEW e, StoreSound(u, e)
  PROVE  Moves(o, u, Without(u, o), e) /\ SameShown(u, Without(u, o))
BY WithoutOne DEF Moves

LEMMA SettledMoves ==
  ASSUME NEW o, NEW u, NEW e, StoreSound(u, e)
  PROVE  Moves(o, u, Settled(u, o), e) /\ SameShown(u, Settled(u, o))
BY SettledOne DEF Moves

LEMMA SyncRefreshMoves ==
  ASSUME NEW o, NEW u, NEW e, StoreSound(u, e), IsEngine(e)
  PROVE  Moves(o, u, SyncRefresh(u), e) /\ SameShown(u, SyncRefresh(u))
<1>1. Beginning("sync", "list")
      BY DEF Beginning, Detailed
<1>2. /\ Moves(o, u, [u EXCEPT !.queued = TRUE], e) /\ SameShown(u, [u EXCEPT !.queued = TRUE])
  <2> DEFINE v == [u EXCEPT !.queued = TRUE]
  <2>1. DOMAIN v = UiFields /\ SameShown(u, v) /\ v.ops = u.ops
        BY DEF StoreSound, Shown, UiFields, SameShown
  <2> HIDE DEF v
  <2>2. Moves(o, u, v, e)
        BY <2>1, FlagMoves
  <2> QED BY <2>1, <2>2 DEF v
<1>3. Moves(o, u, u, e) /\ SameShown(u, u)
      BY Stays DEF SameShown
<1>4. ASSUME NEW id
      PROVE  Moves(o, u, Begin(u, "sync", id, "list", {}), e) /\ SameShown(u, Begin(u, "sync", id, "list", {}))
      BY <1>1, BeginMoves
<1> QED
    BY <1>2, <1>3, <1>4 DEF SyncRefresh

LEMMA SyncOverMoves ==
  ASSUME NEW o, NEW u, NEW e, StoreSound(u, e), IsEngine(e)
  PROVE  Moves(o, u, SyncOver(u, o), e) /\ SameShown(u, SyncOver(u, o))
<1> DEFINE w == Without(u, o)
           v == [w EXCEPT !.queued = FALSE]
<1>1. Moves(o, u, w, e) /\ SameShown(u, w)
      BY WithoutMoves
<1> HIDE DEF w
<1>2. DOMAIN v = UiFields /\ SameShown(w, v) /\ v.ops = w.ops
      BY <1>1 DEF Moves, StoreSound, Shown, UiFields, SameShown
<1>3. SyncOver(u, o) = IF u.queued THEN SyncRefresh(v) ELSE w
      BY DEF SyncOver, w
<1> HIDE DEF v
<1>4. Moves(o, w, v, e)
      BY <1>1, <1>2, FlagMoves DEF Moves
<1>5. Moves(o, v, SyncRefresh(v), e) /\ SameShown(v, SyncRefresh(v))
      BY <1>4, SyncRefreshMoves DEF Moves
<1>6. Moves(o, u, SyncRefresh(v), e)
      BY <1>1, <1>4, <1>5, MovesOn
<1>7. SameShown(u, SyncRefresh(v))
      BY <1>1, <1>2, <1>5 DEF SameShown
<1> QED
    BY <1>1, <1>3, <1>6, <1>7

LEMMA ReplaceMoves ==
  ASSUME NEW u, NEW e, StoreSound(u, e), IsEngine(e), NEW o \in u.ops, NEW new,
         DOMAIN new = OpFields, Holding(new), new.kind = o.kind, new.epoch = o.epoch,
         new.items = o.items, new.tree = o.tree, new.sel = o.sel,
         \/ new.list \in {o.list, NoList}
         \/ IsList(new.list) /\ new.list.ver = e.ver /\ new.list.inst = e.run,
         \/ new.got \in {o.got, NoDetail}
         \/ IsDetail(new.got) /\ new.got.ver = e.ver /\ new.got.inst = e.run,
         new.at = "act" => o.epoch = u.epoch
  PROVE  LET v == [u EXCEPT !.ops = (@ \ {o}) \cup {new}] IN Moves(o, u, v, e) /\ SameShown(u, v)
<1> DEFINE v == [u EXCEPT !.ops = (@ \ {o}) \cup {new}]
<1>1. StoreSound(v, e) /\ SameShown(u, v) /\ NewActs(u, v) /\ u.ops \ {o} \subseteq v.ops
      BY Replaced
<1> HIDE DEF v
<1>2. Moves(o, u, v, e)
      BY <1>1, SameFollows DEF Moves
<1> QED
    BY <1>1, <1>2 DEF v

-------------------------------------------------------------------------------
(* The steps, each shown to keep what is sound and to bring nothing back.  *)

Native(u, v) ==
  /\ \A part \in {"items", "tree"} :
       v[part].inst # u[part].inst =>
         \/ v[part].inst >= v.told
         \/ \E o \in u.ops \ v.ops : o.at = "failed" /\ o.epoch = u.epoch
  /\ v.sel.inst # u.sel.inst /\ v.sel # NoDetail => v.sel.inst >= v.told
  /\ \A o \in v.ops \ u.ops : o.at = "act" => o.epoch = v.epoch
Rising(u, v) ==
  \A o \in u.ops : o.kind = "sync" /\ o \notin v.ops =>
    /\ v.items.ver >= u.items.ver /\ v.tree.ver >= u.tree.ver
    /\ v.sel.id = u.sel.id => v.sel.ver >= u.sel.ver
Safe(u, v, e) == StoreSound(v, e) /\ Native(u, v) /\ Rising(u, v)

LEMMA FollowsIsNative ==
  ASSUME NEW u, NEW v, Follows(u, v)
  PROVE  Native(u, v)
BY DEF Follows, Native, NewActs

LEMMA MovesAreSafe ==
  ASSUME NEW u, NEW v, NEW e, NEW o \in u.ops, o.kind # "sync", Moves(o, u, v, e)
  PROVE  Safe(u, v, e)
BY FollowsIsNative DEF Moves, Safe, Rising

LEMMA SameIsSafe ==
  ASSUME NEW u, NEW v, NEW e, NEW o, StoreSound(u, e), Moves(o, u, v, e), SameShown(u, v)
  PROVE  Safe(u, v, e)
<1>1. u.items.ver \in Nat /\ u.tree.ver \in Nat /\ u.sel.ver \in Nat
      BY DEF StoreSound, Shown, IsList, IsDetail
<1> QED
    BY <1>1, FollowsIsNative DEF Moves, Safe, Rising, SameShown

LEMMA SelectSafe ==
  ASSUME StoreSound(ui, engine), IsEngine(engine), NEW id, Select(id)
  PROVE  Safe(ui, ui', engine)
<1>1. Beginning("select", "item")
      BY DEF Beginning
<1>2. ui' = Begin(ui, "select", id, "item", {})
      BY DEF Select, SelectMock
<1> QED
    BY <1>1, <1>2, BeginMoves, SameIsSafe

LEMMA ReloadSafe ==
  ASSUME StoreSound(ui, engine), IsEngine(engine), Reload
  PROVE  Safe(ui, ui', engine)
<1>1. Beginning("reload", "list")
      BY DEF Beginning, Detailed
<1> QED
    BY <1>1, BeginMoves, SameIsSafe DEF Reload

LEMMA ReloadSelectedDetailSafe ==
  ASSUME StoreSound(ui, engine), IsEngine(engine), ReloadSelectedDetail
  PROVE  Safe(ui, ui', engine)
<1>1. Beginning("reread", "item")
      BY DEF Beginning
<1> QED
    BY <1>1, BeginMoves, SameIsSafe DEF ReloadSelectedDetail

LEMMA MutateSafe ==
  ASSUME StoreSound(ui, engine), IsEngine(engine), "sync" \notin CatalogActs,
         NEW kind, NEW id, Mutate(kind, id)
  PROVE  Safe(ui, ui', engine)
<1> DEFINE begun == Begin(ui, kind, id, "act", IF Batch(kind) THEN ui.items.ids \ {id} ELSE {})
           shown(part) == part \in Optimistic(kind)
           tag == FreshTag(begun)
           fst == [begun EXCEPT !.busy = @ \cup Indicator(kind)]
<1>0. Beginning(kind, "act")
      BY DEF Beginning, Mutate
<1>1. /\ StoreSound(begun, engine) /\ SameShown(ui, begun) /\ NewActs(ui, begun)
      /\ ui.ops \subseteq begun.ops /\ DOMAIN begun = UiFields
      BY <1>0, Begins
<1>2. ui' = [begun EXCEPT !.busy = @ \cup Indicator(kind),
                          !.items.tag = IF shown("items") THEN tag ELSE @,
                          !.tree.tag = IF shown("tree") THEN tag ELSE @]
      BY DEF Mutate
<1>3. IsList(begun.items) /\ IsList(begun.tree)
      BY <1>1 DEF StoreSound, Shown
<1>4. tag \in Nat /\ tag \notin Held(begun)
      BY <1>1, FreshTagFree DEF StoreSound, Shown
<1> HIDE DEF begun, tag, shown
<1>5. /\ DOMAIN ui' = UiFields /\ ui'.sel = begun.sel /\ ui'.ops = begun.ops
      /\ ui'.told = begun.told /\ ui'.epoch = begun.epoch
      /\ ui'.items = [begun.items EXCEPT !.tag = IF shown("items") THEN tag ELSE @]
      /\ ui'.tree = [begun.tree EXCEPT !.tag = IF shown("tree") THEN tag ELSE @]
      BY <1>1, <1>2 DEF UiFields
<1>6. /\ IsList(ui'.items) /\ ui'.items.ver = begun.items.ver /\ ui'.items.inst = begun.items.inst
      /\ ui'.items.tag = tag \/ ui'.items.tag = begun.items.tag
      BY <1>3, <1>4, <1>5 DEF IsList
<1>7. /\ IsList(ui'.tree) /\ ui'.tree.ver = begun.tree.ver /\ ui'.tree.inst = begun.tree.inst
      /\ ui'.tree.tag = tag \/ ui'.tree.tag = begun.tree.tag
      BY <1>3, <1>4, <1>5 DEF IsList
<1>8. begun.items.ver <= engine.ver /\ begun.tree.ver <= engine.ver
      BY <1>1 DEF StoreSound, Shown
<1>9. StoreSound(ui', engine)
  <2>1. ListFor(ui'.items, begun.items, begun, engine)
        BY <1>4, <1>6, <1>8 DEF ListFor
  <2>2. ListFor(ui'.tree, begun.tree, begun, engine)
        BY <1>4, <1>7, <1>8 DEF ListFor
  <2>3. DetailFor(ui'.sel, begun, engine)
        BY <1>5 DEF DetailFor
  <2> QED BY <1>1, <1>5, <2>1, <2>2, <2>3, ShownChange
<1>10. Follows(ui, ui')
      BY <1>1, <1>5, <1>6, <1>7 DEF Follows, SameShown, NewActs
<1>11. Rising(ui, ui')
      BY <1>1, <1>5 DEF Rising
<1> QED
    BY <1>9, <1>10, <1>11, FollowsIsNative DEF Safe

LEMMA AnswerActSafe ==
  ASSUME StoreSound(ui, engine), IsEngine(engine), NEW o \in ui.ops, AnswerAct(o)
  PROVE  IsEngine(engine') /\ Safe(ui, ui', engine') /\ engine'.run = engine.run
<1>1. IsOp(o) /\ Holding(o) /\ o.at = "act"
      BY DEF StoreSound, SoundOp, AnswerAct
<1>2. o.kind # "sync"
      BY <1>1 DEF Holding
<1>3. IsEngine(engine') /\ engine'.run = engine.run /\ engine.ver <= engine'.ver
  <2>1. CASE engine' = engine
        BY <2>1 DEF IsEngine
  <2>2. CASE engine' # engine
        BY <2>2, Writes DEF AnswerAct
  <2> QED BY <2>1, <2>2
<1>4. StoreSound(ui, engine')
      BY <1>3, Later DEF IsEngine
<1>5. CASE Allowed(engine.content, o)
  <2> DEFINE new == [o EXCEPT !.at = "acted", !.got = DetailOf(engine', o.id),
                              !.list = IF o.kind = "direct" THEN ListOf(engine') ELSE @]
  <2>1. ui' = [ui EXCEPT !.ops = (@ \ {o}) \cup {new}]
        BY <1>5 DEF AnswerAct, Answered
  <2>2. /\ IsDetail(DetailOf(engine', o.id)) /\ DetailOf(engine', o.id).inst = engine'.run
        /\ DetailOf(engine', o.id).ver = engine'.ver /\ DetailOf(engine', o.id) # NoDetail
        BY <1>3 DEF IsEngine, DetailOf, IsDetail, NoDetail
  <2>3. /\ IsList(ListOf(engine')) /\ ListOf(engine').inst = engine'.run
        /\ ListOf(engine').ver = engine'.ver /\ ListOf(engine') # NoList
        BY <1>3 DEF IsEngine, ListOf, IsList, NoList
  <2>4. /\ DOMAIN new = OpFields /\ new.at = "acted" /\ new.kind = o.kind /\ new.epoch = o.epoch
        /\ new.items = o.items /\ new.tree = o.tree /\ new.sel = o.sel
        /\ new.got = DetailOf(engine', o.id)
        /\ new.list = IF o.kind = "direct" THEN ListOf(engine') ELSE o.list
        BY <1>1 DEF IsOp, OpFields
  <2> HIDE DEF new
  <2>5. Holding(new)
        BY <1>2, <2>2, <2>3, <2>4 DEF Holding
  <2>6. Moves(o, ui, ui', engine')
        BY <1>3, <1>4, <2>1, <2>2, <2>3, <2>4, <2>5, ReplaceMoves
  <2> QED BY <1>2, <1>3, <2>6, MovesAreSafe
<1>6. CASE ~Allowed(engine.content, o)
  <2> DEFINE new == [o EXCEPT !.at = "failed"]
  <2>1. ui' = [ui EXCEPT !.ops = (@ \ {o}) \cup {new}]
        BY <1>6 DEF AnswerAct, Answered
  <2>2. /\ DOMAIN new = OpFields /\ new.at = "failed" /\ new.kind = o.kind /\ new.epoch = o.epoch
        /\ new.items = o.items /\ new.tree = o.tree /\ new.sel = o.sel
        /\ new.got = o.got /\ new.list = o.list
        BY <1>1 DEF IsOp, OpFields
  <2> HIDE DEF new
  <2>3. Holding(new)
        BY <1>2, <2>2 DEF Holding
  <2>4. Moves(o, ui, ui', engine')
        BY <1>3, <1>4, <2>1, <2>2, <2>3, ReplaceMoves
  <2> QED BY <1>2, <1>3, <2>4, MovesAreSafe
<1> QED
    BY <1>5, <1>6

LEMMA AnswerListSafe ==
  ASSUME StoreSound(ui, engine), IsEngine(engine), NEW o \in ui.ops, AnswerList(o)
  PROVE  Safe(ui, ui', engine)
<1> DEFINE new == [o EXCEPT !.at = "listed", !.list = ListOf(engine)]
<1>1. IsOp(o) /\ Holding(o) /\ o.at = "list"
      BY DEF StoreSound, SoundOp, AnswerList
<1>2. ui' = [ui EXCEPT !.ops = (@ \ {o}) \cup {new}]
      BY DEF AnswerList, Answered
<1>3. /\ IsList(ListOf(engine)) /\ ListOf(engine).inst = engine.run
      /\ ListOf(engine).ver = engine.ver /\ ListOf(engine) # NoList
      BY DEF IsEngine, ListOf, IsList, NoList
<1>4. /\ DOMAIN new = OpFields /\ new.at = "listed" /\ new.kind = o.kind /\ new.epoch = o.epoch
      /\ new.items = o.items /\ new.tree = o.tree /\ new.sel = o.sel
      /\ new.got = o.got /\ new.list = ListOf(engine)
      BY <1>1 DEF IsOp, OpFields
<1> HIDE DEF new
<1>5. Holding(new)
      BY <1>1, <1>3, <1>4 DEF Holding
<1>6. Moves(o, ui, ui', engine) /\ SameShown(ui, ui')
      BY <1>2, <1>3, <1>4, <1>5, ReplaceMoves
<1> QED
    BY <1>6, SameIsSafe

LEMMA AnswerItemSafe ==
  ASSUME StoreSound(ui, engine), IsEngine(engine), NEW o \in ui.ops, AnswerItem(o)
  PROVE  Safe(ui, ui', engine)
<1> DEFINE new == IF o.id \in engine.content.ids
                  THEN [o EXCEPT !.at = "read", !.got = DetailOf(engine, o.id)]
                  ELSE [o EXCEPT !.at = "failed"]
<1>1. IsOp(o) /\ Holding(o) /\ o.at = "item"
      BY DEF StoreSound, SoundOp, AnswerItem
<1>2. ui' = [ui EXCEPT !.ops = (@ \ {o}) \cup {new}]
      BY DEF AnswerItem, Answered
<1>3. /\ IsDetail(DetailOf(engine, o.id)) /\ DetailOf(engine, o.id).inst = engine.run
      /\ DetailOf(engine, o.id).ver = engine.ver /\ DetailOf(engine, o.id) # NoDetail
      BY DEF IsEngine, DetailOf, IsDetail, NoDetail
<1>4. /\ DOMAIN new = OpFields /\ new.kind = o.kind /\ new.epoch = o.epoch
      /\ new.items = o.items /\ new.tree = o.tree /\ new.sel = o.sel /\ new.list = o.list
      /\ \/ new.at = "read" /\ new.got = DetailOf(engine, o.id)
         \/ new.at = "failed" /\ new.got = o.got
      BY <1>1 DEF IsOp, OpFields
<1> HIDE DEF new
<1>5. Holding(new)
      BY <1>1, <1>3, <1>4 DEF Holding
<1>6. Moves(o, ui, ui', engine) /\ SameShown(ui, ui')
      BY <1>2, <1>3, <1>4, <1>5, ReplaceMoves
<1> QED
    BY <1>6, SameIsSafe

LEMMA LoseSafe ==
  ASSUME StoreSound(ui, engine), IsEngine(engine), NEW o \in ui.ops, Lose(o)
  PROVE  Safe(ui, ui', engine)
<1> DEFINE new == [o EXCEPT !.at = "failed", !.list = IF o.at = "listed" THEN NoList ELSE @,
                            !.got = IF o.at = "read" THEN NoDetail ELSE @]
<1>1. IsOp(o) /\ Holding(o)
      BY DEF StoreSound, SoundOp
<1>2. ui' = [ui EXCEPT !.ops = (@ \ {o}) \cup {new}]
      BY DEF Lose
<1>3. /\ DOMAIN new = OpFields /\ new.at = "failed" /\ new.kind = o.kind /\ new.epoch = o.epoch
      /\ new.items = o.items /\ new.tree = o.tree /\ new.sel = o.sel
      /\ new.list \in {o.list, NoList} /\ new.got \in {o.got, NoDetail}
      BY <1>1 DEF IsOp, OpFields
<1> HIDE DEF new
<1>4. Holding(new)
      BY <1>1, <1>3 DEF Holding
<1>5. Moves(o, ui, ui', engine) /\ SameShown(ui, ui')
      BY <1>2, <1>3, <1>4, ReplaceMoves
<1> QED
    BY <1>5, SameIsSafe

-------------------------------------------------------------------------------
(* What an answer does.                                                    *)

LEMMA Heard ==
  ASSUME NEW u, NEW e, StoreSound(u, e), NEW o \in u.ops
  PROVE  /\ IsOp(o) /\ Holding(o) /\ IsList(o.list) /\ IsDetail(o.got)
         /\ o.list.ver <= e.ver /\ o.got.ver <= e.ver
         /\ o.epoch = u.epoch /\ o.list # NoList => o.list.inst >= u.told
         /\ o.epoch = u.epoch /\ o.got # NoDetail => o.got.inst >= u.told
BY DEF StoreSound, SoundOp, IsOp

LEMMA Next1Moves ==
  ASSUME NEW u, NEW e, StoreSound(u, e), IsEngine(e), NEW o \in u.ops, NEW at,
         Holding([o EXCEPT !.at = at]), at # "act"
  PROVE  Moves(o, u, Next1(u, o, at), e) /\ SameShown(u, Next1(u, o, at))
<1> DEFINE new == [o EXCEPT !.at = at]
<1>1. /\ DOMAIN new = OpFields /\ new.at = at /\ new.kind = o.kind /\ new.epoch = o.epoch
      /\ new.items = o.items /\ new.tree = o.tree /\ new.sel = o.sel
      /\ new.got = o.got /\ new.list = o.list
      BY Heard DEF IsOp, OpFields
<1>2. Holding(new)
      OBVIOUS
<1>3. Next1(u, o, at) = [u EXCEPT !.ops = (@ \ {o}) \cup {new}]
      BY DEF Next1
<1> HIDE DEF new
<1> QED
    BY <1>1, <1>2, <1>3, ReplaceMoves

LEMMA EndActSafe ==
  ASSUME StoreSound(ui, engine), IsEngine(engine), NEW o \in ui.ops, EndAct(o)
  PROVE  Safe(ui, ui', engine)
<1>1. IsOp(o) /\ Holding(o) /\ o.at = "acted"
      BY Heard DEF EndAct
<1>2. o.kind # "sync"
      BY <1>1 DEF Holding
<1>3. Moves(o, ui, Without(ui, o), engine) /\ SameShown(ui, Without(ui, o))
      BY WithoutMoves
<1>4. Moves(o, ui, Settled(ui, o), engine) /\ SameShown(ui, Settled(ui, o))
      BY SettledMoves
<1>5. CASE Discarded(ui, o)
      BY <1>2, <1>3, <1>5, MovesAreSafe DEF EndAct
<1>6. CASE ~Discarded(ui, o) /\ o.todo # {}
  <2>1. PICK id \in o.todo :
          ui' = [ui EXCEPT !.ops = (@ \ {o}) \cup
                   {[o EXCEPT !.at = "act", !.id = id, !.todo = @ \ {id}]}]
        BY <1>6 DEF EndAct
  <2> DEFINE new == [o EXCEPT !.at = "act", !.id = id, !.todo = @ \ {id}]
  <2>2. /\ DOMAIN new = OpFields /\ new.at = "act" /\ new.kind = o.kind /\ new.epoch = o.epoch
        /\ new.items = o.items /\ new.tree = o.tree /\ new.sel = o.sel
        /\ new.got = o.got /\ new.list = o.list
        BY <1>1 DEF IsOp, OpFields
  <2>3. ui' = [ui EXCEPT !.ops = (@ \ {o}) \cup {new}]
        BY <2>1
  <2> HIDE DEF new
  <2>4. Holding(new) /\ o.epoch = ui.epoch
        BY <1>2, <1>6, <2>2 DEF Holding, Discarded
  <2>5. Moves(o, ui, ui', engine)
        BY <2>2, <2>3, <2>4, ReplaceMoves
  <2> QED BY <1>2, <2>5, MovesAreSafe
<1>7. CASE ~Discarded(ui, o) /\ o.todo = {} /\ o.kind = "direct"
  <2>1. o.list # NoList /\ o.epoch = ui.epoch
        BY <1>1, <1>2, <1>7 DEF Holding, Discarded
  <2> DEFINE listed == ApplyCatalogResponse(Settled(ui, o), o.list)
  <2>2. ui' = Realigned(listed)
        BY <1>7 DEF EndAct
  <2>3. Moves(o, Settled(ui, o), listed, engine)
        BY <1>4, <2>1, ApplyMoves, Heard DEF Moves, SameShown
  <2> HIDE DEF listed
  <2>4. Moves(o, listed, ui', engine)
        BY <2>2, <2>3, RealignMoves DEF Moves
  <2> QED BY <1>2, <1>4, <2>3, <2>4, MovesOn, MovesAreSafe
<1>8. CASE ~Discarded(ui, o) /\ o.todo = {} /\ o.kind = "removeMany"
  <2> DEFINE w == IF o.sel.id \in o.items.ids THEN ClearSelected(Without(ui, o)) ELSE Without(ui, o)
  <2>1. ui' = LoadCatalog(w)
        BY <1>8 DEF EndAct
  <2>2. Moves(o, Without(ui, o), w, engine)
        BY <1>3, Stays, ClearMoves DEF Moves
  <2> HIDE DEF w
  <2>3. Moves(o, w, ui', engine)
        BY <2>1, <2>2, LoadMoves DEF Moves
  <2> QED BY <1>2, <1>3, <2>2, <2>3, MovesOn, MovesAreSafe
<1>9. CASE ~Discarded(ui, o) /\ o.todo = {} /\ o.kind \notin {"direct", "removeMany"}
  <2>1. ui' = Next1(ui, o, "list")
        BY <1>9 DEF EndAct
  <2>2. Holding([o EXCEPT !.at = "list"])
    <3> DEFINE new == [o EXCEPT !.at = "list"]
    <3>1. new.at = "list" /\ new.kind = o.kind /\ new.got = o.got /\ new.list = o.list
          BY <1>1 DEF IsOp, OpFields
    <3> HIDE DEF new
    <3>2. Holding(new)
          BY <1>1, <1>2, <3>1 DEF Holding
    <3> QED BY <3>2 DEF new
  <2>3. Moves(o, ui, ui', engine)
        BY <2>1, <2>2, Next1Moves
  <2> QED BY <1>2, <2>3, MovesAreSafe
<1> QED
    BY <1>5, <1>6, <1>7, <1>8, <1>9

LEMMA EndItemSafe ==
  ASSUME StoreSound(ui, engine), IsEngine(engine), NEW o \in ui.ops, EndItem(o)
  PROVE  Safe(ui, ui', engine)
<1> DEFINE over == Without(ui, o)
<1>1. Holding(o) /\ o.at = "read" /\ o.kind # "sync" /\ IsDetail(o.got) /\ o.got.ver <= engine.ver
      BY Heard DEF EndItem
<1>2. Moves(o, ui, over, engine) /\ SameShown(ui, over)
      BY WithoutMoves
<1>3. ui' = IF Discarded(ui, o) THEN over
            ELSE CASE o.kind = "refetch" -> SetSelected(over, o.got)
                   [] o.kind = "reread" /\ ui.sel.tag # o.sel.tag -> over
                   [] OTHER -> Open(over, o.got)
      BY DEF EndItem
<1> HIDE DEF over
<1>4. CASE ui' = over
      BY <1>1, <1>2, <1>4, MovesAreSafe
<1>5. CASE ~Discarded(ui, o)
  <2>1. o.got.inst >= over.told
        BY <1>1, <1>2, <1>5, Heard DEF Discarded, Holding, SameShown
  <2>2. Moves(o, over, SetSelected(over, o.got), engine) /\ Moves(o, over, Open(over, o.got), engine)
        BY <1>1, <1>2, <2>1, SelectedMoves, OpenMoves DEF Moves
  <2>3. ui' = over \/ ui' = SetSelected(over, o.got) \/ ui' = Open(over, o.got)
        BY <1>3, <1>5
  <2> QED BY <1>1, <1>2, <1>4, <2>2, <2>3, MovesOn, MovesAreSafe
<1> QED
    BY <1>3, <1>4, <1>5

LEMMA EndFailedSafe ==
  ASSUME StoreSound(ui, engine), IsEngine(engine), NEW o \in ui.ops, EndFailed(o)
  PROVE  Safe(ui, ui', engine)
<1>1. IsOp(o) /\ o.kind # "sync" /\ o.at = "failed"
      BY Heard DEF EndFailed
<1>2. Moves(o, ui, Without(ui, o), engine)
      BY WithoutMoves
<1>3. CASE Discarded(ui, o)
      BY <1>1, <1>2, <1>3, MovesAreSafe DEF EndFailed
<1>4. CASE ~Discarded(ui, o) /\ o.kind = "removeMany"
  <2>1. ui' = LoadCatalog(Without(ui, o))
        BY <1>4 DEF EndFailed
  <2>2. Moves(o, Without(ui, o), ui', engine)
        BY <1>2, <2>1, LoadMoves DEF Moves
  <2> QED BY <1>1, <1>2, <2>2, MovesOn, MovesAreSafe
<1>5. CASE ~Discarded(ui, o) /\ o.kind # "removeMany"
  <2> DEFINE settled == Settled(ui, o)
             items == IF "items" \in Optimistic(o.kind) THEN o.items ELSE settled.items
             tree == IF "tree" \in Optimistic(o.kind) THEN o.tree ELSE settled.tree
             w == [ui EXCEPT !.items = items, !.tree = tree]
  <2>0. o.epoch = ui.epoch
        BY <1>1, <1>5 DEF Discarded
  <2>1. /\ Moves(o, ui, settled, engine) /\ SameShown(ui, settled) /\ settled.ops = ui.ops \ {o}
        /\ DOMAIN settled = UiFields /\ DOMAIN ui = UiFields
        BY SettledMoves, SettledOne DEF Moves, StoreSound, Shown
  <2>2. ui' = [settled EXCEPT !.items = items, !.tree = tree]
        BY <1>5 DEF EndFailed, RolledBack
  <2> HIDE DEF settled
  <2>3. /\ items = ui.items \/ items = o.items
        /\ tree = ui.tree \/ tree = o.tree
        BY <2>1 DEF SameShown
  <2> HIDE DEF items, tree
  <2>4. /\ DOMAIN w = UiFields /\ w.ops = ui.ops /\ w.told = ui.told /\ w.epoch = ui.epoch
        /\ w.items = items /\ w.tree = tree /\ w.sel = ui.sel
        BY <2>1 DEF UiFields
  <2>5. /\ DOMAIN ui' = UiFields /\ ui'.ops = ui.ops \ {o} /\ ui'.told = ui.told
        /\ ui'.epoch = ui.epoch /\ ui'.items = items /\ ui'.tree = tree /\ ui'.sel = ui.sel
        BY <2>1, <2>2 DEF UiFields, SameShown
  <2> HIDE DEF w
  <2>6. StoreSound(w, engine)
        BY <2>3, <2>4, ShownChange DEF ListFor, DetailFor
  <2>7. StoreSound(ui', engine)
        BY <2>4, <2>5, <2>6, Fewer DEF SameShown
  <2>8. Native(ui, ui')
        BY <1>1, <2>0, <2>5 DEF Native
  <2>9. Rising(ui, ui')
        BY <1>1, <2>5 DEF Rising
  <2> QED BY <2>7, <2>8, <2>9 DEF Safe
<1> QED
    BY <1>3, <1>4, <1>5

LEMMA EndListSafe ==
  ASSUME StoreSound(ui, engine), IsEngine(engine), NEW o \in ui.ops, NEW w, EndList(o, w)
  PROVE  Safe(ui, ui', engine)
<1> DEFINE settled == Settled(ui, o)
           listed == ApplyCatalogResponse(settled, o.list)
           detailed == SetSelected(listed, o.got)
           ids == o.list.ids
<1>1. Holding(o) /\ o.at = "listed" /\ o.kind # "sync"
      BY Heard DEF EndList
<1>2. CASE Discarded(ui, o)
  <2>1. Moves(o, ui, ui', engine)
        BY <1>2, WithoutMoves DEF EndList
  <2> QED BY <1>1, <2>1, MovesAreSafe
<1>3. CASE ~Discarded(ui, o)
  <2>1. o.list # NoList /\ o.epoch = ui.epoch
        BY <1>1, <1>3 DEF Holding, Discarded
  <2>2. Moves(o, ui, settled, engine) /\ settled.told = ui.told
        BY SettledMoves DEF SameShown
  <2> HIDE DEF settled
  <2>3. Moves(o, settled, listed, engine) /\ listed.told = ui.told
        BY <2>1, <2>2, ApplyMoves, Heard DEF Moves
  <2> HIDE DEF listed
  <2>a. Moves(o, ui, listed, engine)
        BY <2>2, <2>3, MovesOn
  <2>4. Moves(o, listed, ClearSelected(listed), engine)
        BY <2>3, ClearMoves DEF Moves
  <2>5. o.kind \in Detailed => Moves(o, listed, detailed, engine)
        BY <1>1, <2>1, <2>3, SelectedMoves, Heard DEF Moves, Holding
  <2> HIDE DEF detailed
  <2>6. SUFFICES Moves(o, listed, ui', engine)
        BY <1>1, <2>a, MovesOn, MovesAreSafe
  <2>7. Moves(o, listed, listed, engine)
        BY <2>3, Stays DEF Moves
  <2>8. CASE o.kind = "load"
        BY <1>3, <2>3, <2>7, <2>8, OpenOneMoves DEF EndList, Moves, listed, settled
  <2>9. CASE o.kind = "reload"
    <3> DEFINE v == [ClearSelected(listed) EXCEPT !.stale = FALSE]
    <3>1. Moves(o, ClearSelected(listed), v, engine)
      <4>1. DOMAIN v = UiFields /\ SameShown(ClearSelected(listed), v) /\ v.ops = ClearSelected(listed).ops
            BY <2>4 DEF Moves, StoreSound, Shown, UiFields, SameShown
      <4> HIDE DEF v
      <4> QED BY <2>4, <4>1, FlagMoves DEF Moves
    <3>2. Moves(o, listed, v, engine)
          BY <2>4, <3>1, MovesOn
    <3>3. IF o.id \in ids THEN ui' = Begin(listed, "refetch", o.id, "item", {}) ELSE OpenOne(v, ids, w)
          BY <1>3, <2>9 DEF EndList, listed, settled
    <3> HIDE DEF v
    <3>4. Beginning("refetch", "item")
          BY DEF Beginning
    <3>5. Moves(o, listed, Begin(listed, "refetch", o.id, "item", {}), engine)
          BY <2>7, <3>4, BeginMoves DEF Moves
    <3>6. OpenOne(v, ids, w) => Moves(o, v, ui', engine)
          BY <3>2, OpenOneMoves DEF Moves
    <3> QED BY <3>2, <3>3, <3>5, <3>6, MovesOn
  <2>10. CASE o.kind = "remove"
    <3>1. OpenOne(ClearSelected(listed), ids, w)
          BY <1>3, <2>10 DEF EndList, listed, settled
    <3>2. Moves(o, ClearSelected(listed), ui', engine)
          BY <2>4, <3>1, OpenOneMoves DEF Moves
    <3> QED BY <2>4, <3>2, MovesOn
  <2>11. CASE o.kind \notin {"load", "reload", "remove"}
    <3>1. ui' = CASE o.kind \in {"detail", "create"} -> detailed
                  [] o.kind \in {"toggle", "assign"} -> IF ui.sel.id = o.id THEN detailed ELSE listed
                  [] o.kind = "erase" -> IF ui.sel.id \in ids THEN listed ELSE ClearSelected(listed)
                  [] OTHER -> listed
          BY <1>3, <2>11 DEF EndList, listed, settled, detailed
    <3>2. (ui' = detailed /\ o.kind \in Detailed) \/ ui' = listed \/ ui' = ClearSelected(listed)
          BY <3>1 DEF Detailed
    <3> QED BY <2>4, <2>5, <2>7, <3>2
  <2> QED BY <2>8, <2>9, <2>10, <2>11
<1> QED
    BY <1>2, <1>3

LEMMA EndSyncReadSafe ==
  ASSUME StoreSound(ui, engine), IsEngine(engine), NEW o \in ui.ops, EndSyncRead(o)
  PROVE  Safe(ui, ui', engine)
<1>1. Holding(o) /\ o.kind = "sync" /\ IsList(o.list) /\ IsDetail(o.got)
      /\ o.list.ver <= engine.ver /\ o.got.ver <= engine.ver /\ Sees(o, ui)
      BY Heard DEF EndSyncRead, StoreSound
<1>2. CASE o.at = "listed" /\ o.epoch = ui.epoch /\ o.id \in o.list.ids
  <2>1. ui' = Next1(ui, o, "item")
        BY <1>2 DEF EndSyncRead
  <2>2. Holding([o EXCEPT !.at = "item"])
    <3> DEFINE new == [o EXCEPT !.at = "item"]
    <3>1. new.at = "item" /\ new.kind = o.kind /\ new.got = o.got /\ new.list = o.list
          BY Heard DEF IsOp, OpFields
    <3> HIDE DEF new
    <3>2. Holding(new)
          BY <1>1, <3>1 DEF Holding
    <3> QED BY <3>2 DEF new
  <2>3. Moves(o, ui, ui', engine) /\ SameShown(ui, ui')
        BY <2>1, <2>2, Next1Moves
  <2> QED BY <2>3, SameIsSafe
<1>3. CASE ui' = SyncOver(ui, o)
      BY <1>3, SyncOverMoves, SameIsSafe
<1>4. CASE o.list # NoList /\ ui' = SyncOver(SyncResult(ui, o), o)
  <2> DEFINE listed == ApplyCatalogResponse(ui, o.list)
             r == SyncResult(ui, o)
  <2>1. CASE r = ui
        BY <1>3, <1>4, <2>1
  <2>2. CASE r # ui
    <3>1. /\ ui.items.tag = o.items.tag /\ ui.tree.tag = o.tree.tag /\ ui.sel.tag = o.sel.tag
          /\ o.epoch = ui.epoch
          /\ r = IF o.got # NoDetail THEN SetSelected(listed, o.got)
                 ELSE IF o.id # NoEndpoint THEN [listed EXCEPT !.gone = o.id \notin o.list.ids]
                 ELSE listed
          BY <2>2 DEF SyncResult
    <3>2. /\ ui.items.ver <= o.list.ver /\ ui.tree.ver <= o.list.ver
          /\ o.got # NoDetail => ui.sel.ver <= o.got.ver
          BY <1>1, <1>4, <3>1 DEF Sees, Behind
    <3>3. /\ Moves(o, ui, listed, engine) /\ listed.told = ui.told
          /\ listed.items.ver = o.list.ver /\ listed.tree.ver = o.list.ver /\ listed.sel = ui.sel
      <4>1. o.list.inst >= ui.told
            BY <1>4, <3>1, Heard
      <4> QED BY <1>1, <4>1, ApplyMoves, Applies
    <3> HIDE DEF listed, r
    <3>4. /\ Moves(o, listed, r, engine) /\ r.items.ver = o.list.ver /\ r.tree.ver = o.list.ver
          /\ r.sel = ui.sel \/ r.sel.ver >= ui.sel.ver
      <4>1. CASE o.got # NoDetail
        <5>1. r = SetSelected(listed, o.got) /\ o.got.inst >= listed.told
              BY <3>1, <3>3, <4>1, Heard
        <5>2. Moves(o, listed, r, engine)
              BY <1>1, <3>3, <5>1, SelectedMoves DEF Moves
        <5>3. r.items = listed.items /\ r.tree = listed.tree /\ r.sel.ver = o.got.ver
              BY <1>1, <3>3, <5>1, Selects DEF Moves
        <5>4. r.sel.ver \in Nat /\ ui.sel.ver \in Nat
              BY <1>1, <5>3 DEF StoreSound, Shown, IsDetail
        <5> QED BY <3>2, <3>3, <4>1, <5>2, <5>3, <5>4
      <4>2. CASE o.got = NoDetail /\ o.id # NoEndpoint
        <5>1. r = [listed EXCEPT !.gone = o.id \notin o.list.ids]
              BY <3>1, <4>2
        <5>2. DOMAIN r = UiFields /\ SameShown(listed, r) /\ r.ops = listed.ops
              BY <3>3, <5>1 DEF Moves, StoreSound, Shown, UiFields, SameShown
        <5>3. Moves(o, listed, r, engine)
              BY <3>3, <5>2, FlagMoves DEF Moves
        <5> QED BY <3>3, <5>2, <5>3 DEF SameShown
      <4>3. CASE o.got = NoDetail /\ o.id = NoEndpoint
        <5>1. r = listed
              BY <3>1, <4>3
        <5> QED BY <3>3, <5>1, Stays DEF Moves
      <4> QED BY <4>1, <4>2, <4>3
    <3>5. Moves(o, r, ui', engine) /\ SameShown(r, ui')
          BY <1>4, <3>4, SyncOverMoves DEF Moves, r
    <3>6. Moves(o, ui, ui', engine)
          BY <3>3, <3>4, <3>5, MovesOn
    <3>7. /\ ui'.items.ver >= ui.items.ver /\ ui'.tree.ver >= ui.tree.ver
          /\ ui'.sel.ver >= ui.sel.ver
      <4>1. ui.items.ver \in Nat /\ ui.tree.ver \in Nat /\ ui.sel.ver \in Nat /\ o.list.ver \in Nat
            BY <1>1 DEF StoreSound, Shown, IsList, IsDetail
      <4> QED BY <3>2, <3>4, <3>5, <4>1 DEF SameShown
    <3> QED BY <3>6, <3>7, FollowsIsNative DEF Safe, Moves, Rising
  <2> QED BY <2>1, <2>2
<1> QED
    BY <1>2, <1>3, <1>4 DEF EndSyncRead

-------------------------------------------------------------------------------
(* The engine, the poll, and the whole.                                    *)

LEMMA IdleSafe ==
  ASSUME StoreSound(ui, engine), IsEngine(engine), NEW e, IsEngine(e),
         engine.run <= e.run, engine.ver <= e.ver, ui' = ui
  PROVE  Safe(ui, ui', e)
<1>1. StoreSound(ui, e)
      BY Later
<1> QED
    BY <1>1, Stays, SameIsSafe DEF SameShown

LEMMA EndPollCatalogSafe ==
  ASSUME StoreInv, EndPollCatalog
  PROVE  PollSound(sync', engine) /\ Safe(ui, ui', engine)
<1>1. PollSound(sync', engine) /\ sync.poll.at \in {"answered", "failed"}
      BY PollsEnd DEF StoreInv, EndPollCatalog, EndPoll
<1>2. StoreSound(ui, engine) /\ IsEngine(engine)
      BY DEF StoreInv
<1>3. CASE ui' = ui
      BY <1>1, <1>2, <1>3, IdleSafe DEF IsEngine
<1>4. CASE ui' = SyncRefresh(ui)
      BY <1>1, <1>2, <1>4, SyncRefreshMoves, SameIsSafe
<1>5. CASE ui' = WorkspaceChanged(ui, sync.poll.info.run) /\ Event(sync).kind # "none"
  <2> DEFINE run == sync.poll.info.run
             v == [ui EXCEPT !.epoch = @ + 1, !.busy = {}, !.stale = ui.sel.id # NoEndpoint,
                             !.gone = FALSE, !.told = run]
  <2>1. run \in Nat /\ run <= engine.run
        BY <1>1, <1>5 DEF Event, StoreInv, PollSound
  <2>2. ui' = SyncRefresh(v)
        BY <1>5 DEF WorkspaceChanged
  <2> HIDE DEF run
  <2>3. /\ DOMAIN ui = UiFields /\ IsFiniteSet(ui.ops) /\ ui.epoch \in Nat
        /\ \A o \in ui.ops : SoundOp(o, ui, engine) /\ Sees(o, ui) /\ o.epoch \in Nat
        BY <1>2 DEF StoreSound, Shown, SoundOp, IsOp
  <2>4. /\ DOMAIN v = UiFields /\ v.ops = ui.ops /\ v.told = run /\ v.epoch = ui.epoch + 1
        /\ v.items = ui.items /\ v.tree = ui.tree /\ v.sel = ui.sel
        BY <2>3 DEF UiFields
  <2> HIDE DEF v
  <2>5. Shown(v, engine)
        BY <1>2, <2>1, <2>3, <2>4 DEF StoreSound, Shown
  <2>6. ASSUME NEW o \in v.ops PROVE SoundOp(o, v, engine) /\ Sees(o, v)
    <3>1. o.epoch <= ui.epoch
          BY <2>3, <2>4 DEF SoundOp
    <3>2. SoundOp(o, v, engine)
          BY <2>3, <2>4, <3>1 DEF SoundOp
    <3>3. Sees(o, v)
          BY <2>3, <2>4 DEF Sees
    <3> QED BY <3>2, <3>3
  <2>7. StoreSound(v, engine)
        BY <2>5, <2>6 DEF StoreSound
  <2>8. Safe(v, ui', engine)
        BY <1>2, <2>2, <2>7, SyncRefreshMoves, SameIsSafe
  <2>9. SameShown(v, ui')
        BY <1>2, <2>2, <2>7, SyncRefreshMoves
  <2>10. Native(ui, ui')
        BY <2>4, <2>8, <2>9 DEF Safe, Native, SameShown
  <2>11. Rising(ui, ui')
        BY <2>4, <2>8, <2>9 DEF Safe, Rising, SameShown
  <2> QED BY <1>1, <2>8, <2>10, <2>11 DEF Safe
<1> QED
    BY <1>1, <1>3, <1>4, <1>5 DEF EndPollCatalog

LEMMA StoreBegins == InitCatalog => StoreInv
<1> SUFFICES ASSUME InitCatalog PROVE StoreInv
    OBVIOUS
<1> DEFINE list == [ListOf(engine) EXCEPT !.tag = 1]
<1>1. IsEngine(engine) /\ engine.run = 1 /\ engine.ver = 1
      BY DEF InitCatalog, IsEngine
<1>2. PollSound(sync, engine)
      BY DEF InitCatalog, PollSound, Quiet
<1>3. PICK id \in Endpoints :
        ui = [items |-> list, tree |-> list, sel |-> [DetailOf(engine, id) EXCEPT !.tag = 2],
              gone |-> FALSE, stale |-> FALSE, busy |-> {}, epoch |-> 0, told |-> 0,
              queued |-> FALSE, ops |-> {}]
      BY DEF InitCatalog
<1>4. IsList(list) /\ list.ver = 1
      BY <1>1 DEF IsList, ListOf
<1> DEFINE sel == [DetailOf(engine, id) EXCEPT !.tag = 2]
<1>5. IsDetail(sel) /\ sel.ver = 1
      BY <1>1 DEF IsDetail, DetailOf
<1> HIDE DEF list, sel
<1>6. /\ DOMAIN ui = UiFields /\ ui.items = list /\ ui.tree = list /\ ui.sel = sel
      /\ ui.epoch = 0 /\ ui.told = 0 /\ ui.ops = {}
      BY <1>3 DEF UiFields, sel
<1>7. StoreSound(ui, engine)
      BY <1>1, <1>4, <1>5, <1>6, FS_EmptySet DEF StoreSound, Shown
<1> QED
    BY <1>1, <1>2, <1>7 DEF StoreInv

LEMMA StoreStepSafe ==
  ASSUME StoreInv, CatalogStep
  PROVE  StoreInv' /\ Native(ui, ui') /\ Rising(ui, ui')
<1>0. IsEngine(engine) /\ PollSound(sync, engine) /\ StoreSound(ui, engine)
      BY DEF StoreInv
<1>1. SUFFICES IsEngine(engine') /\ PollSound(sync', engine') /\ Safe(ui, ui', engine')
      BY DEF StoreInv, Safe
<1>2. CASE SyncStep /\ UNCHANGED ui
  <2>1. IsEngine(engine') /\ engine'.run = engine.run /\ engine'.ver = engine.ver
    <3>1. CASE AnswerInfo
          BY <1>0, <3>1, Observes DEF AnswerInfo
    <3>2. CASE engine' = engine
          BY <1>0, <3>2
    <3> QED BY <1>2, <3>1, <3>2 DEF SyncStep, LoseInfo, PollTick, Focus, HideWindow, ShowWindow
  <2>2. PollSound(sync', engine')
    <3>1. CASE AnswerInfo
      <4>1. sync' = [sync EXCEPT !.poll = [@ EXCEPT !.at = "answered",
                       !.info = [run |-> engine.run, ws |-> engine.ws, rev |-> engine'.rev]]]
            BY <3>1 DEF AnswerInfo
      <4>2. engine.run \in Nat /\ engine.run <= engine'.run
            BY <1>0, <2>1 DEF IsEngine
      <4> QED BY <1>0, <4>1, <4>2 DEF PollSound
    <3>2. CASE LoseInfo
          BY <1>0, <3>2 DEF LoseInfo, PollSound
    <3>3. CASE PollTick \/ Focus
          BY <1>0, <3>3, Checks DEF PollTick, Focus
    <3>4. CASE HideWindow
          BY <1>0, <3>4 DEF HideWindow, PollSound
    <3>5. CASE ShowWindow
      <4> DEFINE s == [sync EXCEPT !.visible = TRUE]
      <4>1. PollSound(s, engine) /\ sync' = Check(s, TRUE) /\ engine' = engine
            BY <1>0, <3>5 DEF ShowWindow, PollSound
      <4> HIDE DEF s
      <4> QED BY <4>1, Checks
    <3> QED BY <1>2, <3>1, <3>2, <3>3, <3>4, <3>5 DEF SyncStep
  <2>3. Safe(ui, ui', engine')
        BY <1>0, <1>2, <2>1, IdleSafe DEF IsEngine
  <2> QED BY <2>1, <2>2, <2>3
<1>3. CASE EndPollCatalog
      BY <1>0, <1>3, EndPollCatalogSafe DEF EndPollCatalog, EndPoll
<1>4. CASE \E id \in Endpoints : Select(id)
      BY <1>0, <1>4, SelectSafe DEF Select
<1>5. CASE Reload
      BY <1>0, <1>5, ReloadSafe DEF Reload
<1>6. CASE ReloadSelectedDetail
      BY <1>0, <1>6, ReloadSelectedDetailSafe DEF ReloadSelectedDetail
<1>7. CASE \E kind \in CatalogActs, id \in Endpoints : Mutate(kind, id)
  <2>1. PICK kind \in CatalogActs, id \in Endpoints : Mutate(kind, id)
        BY <1>7
  <2>2. engine' = engine /\ sync' = sync
        BY <2>1 DEF Mutate
  <2>3. "sync" \notin CatalogActs
        BY CatalogActsAssumption
  <2> QED BY <1>0, <2>1, <2>2, <2>3, MutateSafe
<1>8. CASE \E o \in ui.ops : AnswerAct(o)
  <2>1. PICK o \in ui.ops : AnswerAct(o)
        BY <1>8
  <2>2. IsEngine(engine') /\ Safe(ui, ui', engine') /\ engine'.run = engine.run
        BY <1>0, <2>1, AnswerActSafe
  <2>3. sync' = sync
        BY <2>1 DEF AnswerAct, Answered
  <2> QED BY <1>0, <2>2, <2>3 DEF PollSound
<1>9. CASE \E o \in ui.ops : AnswerList(o) \/ AnswerItem(o) \/ Lose(o)
  <2>1. PICK o \in ui.ops : AnswerList(o) \/ AnswerItem(o) \/ Lose(o)
        BY <1>9
  <2>2. engine' = engine /\ sync' = sync
        BY <2>1 DEF AnswerList, AnswerItem, Lose, Answered
  <2> QED BY <1>0, <2>1, <2>2, AnswerListSafe, AnswerItemSafe, LoseSafe
<1>10. CASE \E o \in ui.ops : Arrival(o)
  <2>1. PICK o \in ui.ops : Arrival(o)
        BY <1>10
  <2>2. engine' = engine /\ sync' = sync
        BY <2>1 DEF Arrival, EndAct, EndItem, EndFailed, EndSyncRead, EndList, syncVars
  <2>3. Safe(ui, ui', engine)
        BY <1>0, <2>1, EndActSafe, EndItemSafe, EndFailedSafe, EndSyncReadSafe, EndListSafe DEF Arrival
  <2> QED BY <1>0, <2>2, <2>3
<1>11. CASE CatalogChanged
  <2>1. PICK c : engine' = Write(engine, c)
        BY <1>11 DEF CatalogChanged
  <2>2. IsEngine(engine') /\ engine'.run = engine.run /\ engine.ver <= engine'.ver
        BY <1>0, <2>1, Writes
  <2>3. sync' = sync /\ ui' = ui
        BY <1>11 DEF CatalogChanged
  <2> QED BY <1>0, <2>2, <2>3, IdleSafe DEF IsEngine, PollSound
<1>12. CASE \E ws \in {"A", "B"} : EngineStarts(ws)
  <2>1. PICK ws \in {"A", "B"} : EngineStarts(ws)
        BY <1>12
  <2>2. IsEngine(engine') /\ engine.run <= engine'.run /\ engine.ver <= engine'.ver
        BY <1>0, <2>1, Restarts DEF EngineStarts
  <2>3. sync' = sync /\ ui' = ui
        BY <2>1 DEF EngineStarts
  <2> QED BY <1>0, <2>2, <2>3, IdleSafe DEF IsEngine, PollSound
<1> QED
    BY <1>2, <1>3, <1>4, <1>5, <1>6, <1>7, <1>8, <1>9, <1>10, <1>11, <1>12 DEF CatalogStep

\* The page of the mocks brings nothing back that it has left: once it is told of another
\* workspace no late answer shows the old one, and no silent reread shows an older state.
THEOREM NothingComesBackHolds == CatalogSpec => NothingComesBack
<1>1. InitCatalog => StoreInv
      BY StoreBegins
<1>2. StoreInv /\ [CatalogStep]_catalogVars => StoreInv'
      BY StoreStepSafe DEF catalogVars, StoreInv
<1>3. StoreInv /\ [CatalogStep]_catalogVars
        => [/\ \A part \in {"items", "tree"} :
                 ui'[part].inst # ui[part].inst =>
                   \/ ui'[part].inst >= ui'.told
                   \/ \E o \in ui.ops \ ui'.ops : o.at = "failed" /\ o.epoch = ui.epoch
            /\ ui'.sel.inst # ui.sel.inst /\ ui'.sel # NoDetail => ui'.sel.inst >= ui'.told
            /\ \A o \in ui'.ops \ ui.ops : o.at = "act" => o.epoch = ui'.epoch]_catalogVars
      BY StoreStepSafe DEF Native
<1>4. StoreInv /\ [CatalogStep]_catalogVars
        => [\A o \in ui.ops : o.kind = "sync" /\ o \notin ui'.ops =>
              /\ ui'.items.ver >= ui.items.ver /\ ui'.tree.ver >= ui.tree.ver
              /\ ui'.sel.id = ui.sel.id => ui'.sel.ver >= ui.sel.ver]_catalogVars
      BY StoreStepSafe DEF Rising
<1> QED
    BY <1>1, <1>2, <1>3, <1>4, PTL DEF CatalogSpec, NothingComesBack, NothingForeign, SyncNeverGoesBack
================================================================================

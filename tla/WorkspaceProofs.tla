----------------------------- MODULE WorkspaceProofs -----------------------------
(***************************************************************************)
(* Theorems about the workspaces: their files, and the desktop application *)
(* that opens them, with its updates.  EndpointFiles: for any number       *)
(* of responses and any extensions, no sequence of operations leaves an    *)
(* endpoint incomplete or unserved.  DataFiles: a rename that rewrites the *)
(* sources that refer to the file happens as a whole or leaves no trace,   *)
(* whatever data files, sources and references there are.  Desktop: the    *)
(* inductive invariants of the versions and of the engines and sessions.   *)
(* CollectionTree: whatever the file of the collections holds, the tree    *)
(* stays whole; the filters and sequences it is made of come first.        *)
(***************************************************************************)
EXTENDS EndpointFiles, DataFiles, Desktop, CollectionTree, FiniteSetTheorems,
        WellFoundedInduction, TLAPS

\* What every operation keeps of the files of an endpoint, served or not.
Sound(d) ==
  d \in Disk /\ ListedOnDisk(d) /\ AssetsPresent(d) /\ StepsListed(d) /\ OwnContent(d)

-------------------------------------------------------------------------------
(* Parts of a directory.                                                   *)

\* The fields of a directory.
LEMMA DiskFields ==
  ASSUME NEW d \in Disk
  PROVE  /\ d.listed \subseteq Index /\ d.selected \in Index \cup {None} /\ d.enabled \in BOOLEAN
         /\ d.variant \in [Index -> Variant \cup {None}]
         /\ d.content \in [Asset -> (0..MaxIndex) \cup {None}]
BY DEF Disk

\* A listed response has a definition.
LEMMA ListedVariant ==
  ASSUME NEW d, Sound(d), NEW n \in d.listed
  PROVE  /\ n \in Index /\ n \in Int /\ n # 0 /\ d.variant[n] \in Variant
         /\ d.variant[n].asset \in Asset \cup {None}
         /\ d.variant[n].steps \subseteq d.listed \ {n}
<1>1. n \in Index /\ d.variant[n] \in Variant
      BY DiskFields DEF Sound, ListedOnDisk
<1>2. n \in Int /\ n # 0
      BY <1>1, IndexAssumption DEF Index
<1>3. d.variant[n].asset \in Asset \cup {None}
      BY <1>1 DEF Variant
<1> QED
    BY <1>1, <1>2, <1>3 DEF Sound, StepsListed

\* Two directories with the same responses and the same contents are as sound as each other.
LEMMA SoundAlike ==
  ASSUME NEW d, NEW e \in Disk, Sound(d), d.listed # {},
         e.listed = d.listed, e.variant = d.variant, e.content = d.content, e.selected \in e.listed
  PROVE  Sound(e)
BY DEF Sound, ListedOnDisk, AssetsPresent, AssetThere, StepsListed, OwnContent

\* Response n gets definition v, new or not, and its asset, if it has one, is there
\* already or is written for it.
LEMMA SoundPut ==
  ASSUME NEW d, NEW e \in Disk, Sound(d), NEW n \in Index, NEW v \in Variant,
         e.listed = d.listed \cup {n}, e.selected \in e.listed,
         e.variant = [d.variant EXCEPT ![n] = v],
         v.type = "sequence" <=> v.steps # {}, v.steps \subseteq e.listed \ {n},
         ByProgram(v.asset) => v.asset[1] = n,
         \/ /\ e.content = d.content
            /\ v.asset # None => e.content[v.asset] # None
            /\ ByProgram(v.asset) => e.content[v.asset] = n
         \/ v.asset # None /\ e.content = [d.content EXCEPT ![v.asset] = n]
  PROVE  Sound(e)
<1> USE DEF Sound
<1>1. /\ d.variant \in [Index -> Variant \cup {None}] /\ d.listed \subseteq Index
      /\ d.content \in [Asset -> (0..MaxIndex) \cup {None}]
      BY DiskFields
<1>2. /\ e.variant[n] = v /\ v # None /\ v.asset \in Asset \cup {None} /\ n \in Int /\ n # 0 /\ n # None
      /\ \A m \in Index : m # n => e.variant[m] = d.variant[m]
      BY <1>1, NoneAssumption, IndexAssumption DEF Variant, Index
<1>3. ListedOnDisk(e)
      BY <1>1, <1>2 DEF ListedOnDisk
<1>4. \A a \in Asset : e.content[a] = d.content[a] \/ (a = v.asset /\ e.content[a] = n)
      BY <1>1, <1>2
<1>5. AssetsPresent(e)
  <2>1. AssetThere(e, n)
        BY <1>1, <1>2 DEF AssetThere
  <2>2. ASSUME NEW m \in e.listed, m # n PROVE AssetThere(e, m)
    <3>1. m \in d.listed /\ e.variant[m] = d.variant[m]
          BY <2>2, <1>1, <1>2
    <3>2. AssetThere(d, m) /\ d.variant[m].asset \in Asset \cup {None}
          BY <3>1, ListedVariant DEF AssetsPresent
    <3> QED
        BY <3>1, <3>2, <1>2, <1>4 DEF AssetThere
  <2> QED
      BY <2>1, <2>2 DEF AssetsPresent
<1>6. StepsListed(e)
  <2>1. ASSUME NEW m \in e.listed, m # n
        PROVE  /\ e.variant[m].type = "sequence" <=> e.variant[m].steps # {}
               /\ e.variant[m].steps \subseteq e.listed \ {m}
    <3>1. m \in d.listed /\ e.variant[m] = d.variant[m]
          BY <2>1, <1>1, <1>2
    <3> QED
        BY <3>1 DEF StepsListed
  <2> QED
      BY <2>1, <1>2 DEF StepsListed
<1>7. OwnContent(e)
  <2>1. ASSUME NEW m \in e.listed, m # n, ByProgram(e.variant[m].asset)
        PROVE  e.variant[m].asset[1] = m /\ e.content[e.variant[m].asset] = m
    <3>1. m \in d.listed /\ e.variant[m] = d.variant[m]
          BY <2>1, <1>1, <1>2
    <3> DEFINE a == d.variant[m].asset
    <3>2. a \in Asset /\ a[1] = m /\ d.content[a] = m
          BY <2>1, <3>1, ListedVariant DEF OwnContent, ByProgram
    <3>3. a # v.asset
          BY <2>1, <3>1, <3>2, ListedVariant DEF ByProgram
    <3> QED
        BY <3>1, <3>2, <3>3, <1>4
  <2>2. ByProgram(v.asset) => v.asset[1] = n /\ e.content[v.asset] = n
        BY <1>1, <1>2 DEF ByProgram
  <2> QED
      BY <2>1, <2>2, <1>2 DEF OwnContent
<1> QED
    BY <1>3, <1>5, <1>6, <1>7

\* An asset that no response names is removed: every response loads as it did.
LEMMA SoundRemove ==
  ASSUME NEW d, Sound(d), d.listed # {}, NEW a \in Asset, \A m \in d.listed : d.variant[m].asset # a
  PROVE  /\ Sound(RemoveAsset(d, a))
         /\ ServedWhenEnabled(d) => ServedWhenEnabled(RemoveAsset(d, a))
<1> DEFINE e == RemoveAsset(d, a)
<1>1. /\ e \in Disk /\ e.listed = d.listed /\ e.selected = d.selected /\ e.enabled = d.enabled
      /\ e.variant = d.variant /\ e.content = [d.content EXCEPT ![a] = None]
      BY NoneAssumption DEF Sound, Disk, RemoveAsset
<1>2. \A m \in d.listed : d.variant[m].asset # None => e.content[d.variant[m].asset] = d.content[d.variant[m].asset]
      BY <1>1, ListedVariant, DiskFields DEF Sound
<1>3. Sound(e)
      BY <1>1, <1>2 DEF Sound, ListedOnDisk, AssetsPresent, AssetThere, StepsListed, OwnContent, ByProgram
<1>4. \A m \in d.listed : LoadsAlone(d, m) => LoadsAlone(e, m)
      BY <1>1, <1>2 DEF LoadsAlone, AssetThere
<1>5. \A m \in d.listed : Loads(d, m) => Loads(e, m)
      BY <1>1, <1>4, ListedVariant DEF Loads, StepsLoad
<1>6. ServedWhenEnabled(d) => ServedWhenEnabled(e)
      BY <1>1, <1>5 DEF ServedWhenEnabled, Sound, ListedOnDisk
<1> QED
    BY <1>3, <1>6

-------------------------------------------------------------------------------
(* The operations.                                                         *)

EndpointInv == Sound(disk) /\ ServedWhenEnabled(disk)

\* Directory e answers for every response but n as the disk does, or with a source that
\* somebody named by hand for several responses.
OnlyTouches(e, n) ==
  \A m \in (disk.listed \cap e.listed) \ {n} :
     \/ Served(e, m) = Served(disk, m)
     \/ e.variant[m] = disk.variant[m] /\ disk.variant[m].asset[1] = 0

\* What a step gives.
EndpointKept == EndpointInv' /\ \E n \in Index : OnlyTouches(disk', n)

\* Writing the definition of n and an asset of its own, or one named by hand.
LEMMA PutTouches ==
  ASSUME EndpointInv, NEW e, NEW n \in Index, NEW v, e.variant = [disk.variant EXCEPT ![n] = v],
         NEW a \in Asset \cup {None}, ByProgram(a) => a[1] = n,
         e.content = disk.content \/ (a # None /\ e.content = [disk.content EXCEPT ![a] = n])
  PROVE  OnlyTouches(e, n)
<1> SUFFICES ASSUME NEW m \in disk.listed, m # n
             PROVE  \/ Served(e, m) = Served(disk, m)
                    \/ e.variant[m] = disk.variant[m] /\ disk.variant[m].asset[1] = 0
    BY DEF OnlyTouches
<1>1. /\ e.variant[m] = disk.variant[m] /\ m \in Index
      /\ disk.variant[m].asset \in Asset \cup {None}
      BY ListedVariant, DiskFields DEF EndpointInv, Sound
<1>2. CASE disk.variant[m].asset = None \/ e.content[disk.variant[m].asset] = disk.content[disk.variant[m].asset]
      BY <1>1, <1>2 DEF Served
<1>3. CASE disk.variant[m].asset # None /\ e.content[disk.variant[m].asset] # disk.content[disk.variant[m].asset]
  <2>1. disk.variant[m].asset = a
        BY <1>1, <1>3, DiskFields DEF EndpointInv, Sound
  <2>2. a[1] = 0
        BY <2>1, <1>3 DEF EndpointInv, Sound, OwnContent, ByProgram
  <2> QED
      BY <1>1, <2>1, <2>2
<1> QED
    BY <1>2, <1>3

\* Removing an asset that no listed response names.
LEMMA RemoveTouches ==
  ASSUME NEW e, Sound(e), NEW n, OnlyTouches(e, n), NEW a \in Asset,
         \A m \in e.listed : e.variant[m].asset # a
  PROVE  OnlyTouches(RemoveAsset(e, a), n)
<1> DEFINE r == RemoveAsset(e, a)
<1>1. r.listed = e.listed /\ r.variant = e.variant /\ r.content = [e.content EXCEPT ![a] = None]
      BY NoneAssumption DEF RemoveAsset, Sound, Disk
<1>2. \A m \in e.listed : Served(r, m) = Served(e, m)
      BY <1>1, ListedVariant, DiskFields DEF Served, Sound
<1> QED
    BY <1>1, <1>2 DEF OnlyTouches

\* What is committed is served, if it is enabled.
LEMMA CommitKeeps ==
  ASSUME NEW d, Sound(d), Commit(d), NEW n \in Index, OnlyTouches(d, n)
  PROVE  EndpointKept
BY DEF EndpointKept, Commit, Accepted, EndpointInv, ServedWhenEnabled, Sound

\* The asset that n named before is swept only if no response names it.
LEMMA SweepKeeps ==
  ASSUME NEW d, Sound(d), NEW n \in d.listed, NEW old \in Asset \cup {None},
         CommitAndSweep(d, n, old), OnlyTouches(d, n)
  PROVE  EndpointKept
<1>1. ServedWhenEnabled(d)
      BY DEF CommitAndSweep, Accepted, ServedWhenEnabled
<1>2. n \in Index
      BY ListedVariant
<1>3. CASE disk' = d
      BY <1>1, <1>2, <1>3 DEF EndpointInv, EndpointKept
<1>4. CASE /\ old \notin {None, d.variant[n].asset} /\ ~Referenced(d, n, old)
           /\ disk' = RemoveAsset(d, old)
  <2>1. old \in Asset /\ d.listed # {}
        BY <1>4
  <2>2. \A m \in d.listed : d.variant[m].asset # old
        BY <1>4, ListedVariant, NoneAssumption DEF Referenced
  <2> QED
      BY <1>1, <1>2, <1>4, <2>1, <2>2, SoundRemove, RemoveTouches DEF EndpointInv, EndpointKept
<1> QED
    BY <1>3, <1>4 DEF CommitAndSweep

\* The fields of a directory after a response and its asset are written.
LEMMA WriteFields ==
  ASSUME NEW d \in Disk, NEW a \in Asset \cup {None}, NEW n \in Index
  PROVE  LET e == WriteAsset(d, a, n) IN
         /\ e \in Disk /\ e.listed = d.listed /\ e.selected = d.selected /\ e.enabled = d.enabled
         /\ e.variant = d.variant
         /\ a = None => e.content = d.content
         /\ a # None => e.content = [d.content EXCEPT ![a] = n]
<1>1. n \in 0..MaxIndex
      BY IndexAssumption DEF Index
<1> QED
    BY <1>1 DEF WriteAsset, Disk

\* A definition is of one of the types, and has steps or an asset.
LEMMA ResponseFields ==
  ASSUME NEW t \in Types, NEW a \in Asset \cup {None}, NEW steps \in SUBSET Index
  PROVE  /\ Response(t, a, steps) \in Variant /\ Response(t, a, steps).type = t
         /\ Response(t, a, steps).asset = a /\ Response(t, a, steps).steps = steps
BY DEF Response, Variant

\* The names that the program gives.
LEMMA OwnAssetName ==
  ASSUME NEW n \in Index, NEW x \in Suffix
  PROVE  OwnAsset(n, x) \in Asset /\ OwnAsset(n, x)[1] = n /\ OwnAsset(n, x) # None
BY IndexAssumption, NoneAssumption DEF OwnAsset, Asset, Index

LEMMA CreateEndpointKeeps ==
  ASSUME EndpointInv, NEW t \in Types, NEW enabled \in BOOLEAN, CreateEndpoint(t, enabled)
  PROVE  EndpointKept
<1> DEFINE a == IF t = "mock" THEN None ELSE OwnAsset(1, t)
           v == Response(t, a, {})
           b == [disk EXCEPT !.listed = {1}, !.selected = 1, !.enabled = enabled, !.variant[1] = v]
           e == WriteAsset(b, a, 1)
<1>1. disk \in Disk /\ 1 \in Index /\ disk.listed = {} /\ Sound(disk)
      BY IndexAssumption DEF EndpointInv, Sound, CreateEndpoint, Exists, Index
<1>2. a \in Asset \cup {None} /\ (ByProgram(a) => a[1] = 1) /\ t # "sequence"
      BY <1>1, OwnAssetName DEF CreateEndpoint, Suffix, ByProgram, Scripts
<1>3. v \in Variant /\ v.type = t /\ v.asset = a /\ v.steps = {}
      BY <1>2, ResponseFields
<1>4. /\ b \in Disk /\ b.listed = {1} /\ b.selected = 1
      /\ b.variant = [disk.variant EXCEPT ![1] = v] /\ b.content = disk.content
      BY <1>1, <1>3 DEF Disk
<1> HIDE DEF a, v, b
<1>5. /\ e \in Disk /\ e.listed = b.listed /\ e.selected = b.selected /\ e.variant = b.variant
      /\ a = None => e.content = b.content
      /\ a # None => e.content = [b.content EXCEPT ![a] = 1]
      BY <1>1, <1>2, <1>4, WriteFields
<1> HIDE DEF e
<1>6. Sound(e)
      BY <1>1, <1>2, <1>3, <1>4, <1>5, SoundPut DEF ByProgram
<1>7. Commit(e)
      BY DEF CreateEndpoint, a, v, b, e
<1>8. OnlyTouches(e, 1)
      BY <1>1 DEF OnlyTouches
<1> QED
    BY <1>1, <1>6, <1>7, <1>8, CommitKeeps

LEMMA SelectKeeps ==
  ASSUME EndpointInv, NEW e, Commit(e), disk.listed # {},
         \/ \E enabled \in BOOLEAN : e = [disk EXCEPT !.enabled = enabled]
         \/ \E n \in disk.listed : e = [disk EXCEPT !.selected = n]
  PROVE  EndpointKept
<1>1. /\ e \in Disk /\ e.listed = disk.listed /\ e.variant = disk.variant /\ e.content = disk.content
      BY DiskFields DEF EndpointInv, Sound, Disk
<1>2. Sound(e)
      BY <1>1, SoundAlike DEF EndpointInv, Commit, Accepted
<1>3. 1 \in Index /\ OnlyTouches(e, 1)
      BY <1>1, IndexAssumption DEF OnlyTouches, Served, Index
<1> QED
    BY <1>2, <1>3, CommitKeeps

LEMMA DeleteEndpointKeeps ==
  ASSUME DeleteEndpoint
  PROVE  EndpointKept
<1>1. Sound(Empty)
      BY NoneAssumption DEF Empty, Sound, Disk, ListedOnDisk, AssetsPresent, StepsListed, OwnContent
<1>2. DeleteEndpoint => 1 \in Index /\ OnlyTouches(disk', 1)
      BY IndexAssumption DEF DeleteEndpoint, OnlyTouches, Empty, Index
<1> QED
    BY <1>1, <1>2 DEF DeleteEndpoint, EndpointInv, ServedWhenEnabled, Empty, EndpointKept

LEMMA UpdateMockKeeps ==
  ASSUME EndpointInv, NEW t \in Types, NEW enabled \in BOOLEAN, UpdateMock(t, enabled)
  PROVE  EndpointKept
<1> DEFINE n == disk.selected
           a == IF t = "mock" THEN None
                ELSE IF t = disk.variant[n].type THEN disk.variant[n].asset ELSE OwnAsset(n, t)
           v == Response(t, a, {})
           b == [disk EXCEPT !.enabled = enabled, !.variant[n] = v]
           e == WriteAsset(b, a, n)
<1>1. /\ disk \in Disk /\ disk.listed # {} /\ Sound(disk) /\ n \in disk.listed /\ n \in Index
      /\ t \in Scripts \cup {"mock"} /\ t # "sequence"
      BY ListedVariant DEF EndpointInv, Sound, ListedOnDisk, UpdateMock, Exists, Scripts
<1>2. a \in Asset \cup {None} /\ (ByProgram(a) => a[1] = n)
      BY <1>1, OwnAssetName, ListedVariant DEF Suffix, ByProgram, Sound, OwnContent
<1>3. v \in Variant /\ v.type = t /\ v.asset = a /\ v.steps = {}
      BY <1>2, ResponseFields
<1>4. /\ b \in Disk /\ b.listed = disk.listed /\ b.selected = disk.selected
      /\ b.variant = [disk.variant EXCEPT ![n] = v] /\ b.content = disk.content
      BY <1>1, <1>3 DEF Disk
<1>5. e = Rewritten(disk, n, t, enabled)
      BY <1>1 DEF Rewritten, Mock, Script, WriteAsset
<1> HIDE DEF n, a, v, b
<1>6. /\ e \in Disk /\ e.listed = b.listed /\ e.selected = b.selected /\ e.variant = b.variant
      /\ a = None => e.content = b.content
      /\ a # None => e.content = [b.content EXCEPT ![a] = n]
      BY <1>1, <1>2, <1>4, WriteFields
<1> HIDE DEF e
<1>7. disk.selected = n
      BY DEF n
<1>8. Sound(e)
      BY <1>1, <1>2, <1>3, <1>4, <1>6, <1>7, SoundPut DEF ByProgram
<1>9. Commit(e)
      BY <1>5 DEF UpdateMock, n
<1>10. OnlyTouches(e, n)
      BY <1>1, <1>2, <1>4, <1>6, PutTouches
<1> QED
    BY <1>1, <1>8, <1>9, <1>10, CommitKeeps

LEMMA CreateResponseKeeps ==
  ASSUME EndpointInv, NEW t \in Types, NEW body \in BOOLEAN, NEW steps \in SUBSET disk.listed,
         NEW select \in BOOLEAN, CreateResponse(t, body, steps, select)
  PROVE  EndpointKept
<1> DEFINE n == NextIndex
           old == disk.variant[disk.selected]
           new == t # old.type
           a == IF ~new THEN ClonedAsset(old, n, body)
                ELSE IF t \in Scripts THEN OwnAsset(n, t) ELSE None
           v == Response(t, a, steps)
           b == [disk EXCEPT !.listed = @ \cup {n}, !.selected = IF select THEN n ELSE @,
                             !.variant[n] = v]
           e == WriteAsset(b, a, n)
<1>1. /\ disk \in Disk /\ disk.listed # {} /\ Sound(disk) /\ disk.selected \in disk.listed
      /\ n \in Index /\ disk.variant[n] = None /\ n \notin disk.listed
      /\ old \in Variant /\ old.asset \in Asset \cup {None}
      BY ListedVariant DEF EndpointInv, Sound, ListedOnDisk, CreateResponse, Exists
<1>2. a \in Asset \cup {None} /\ (a # None => a[1] = n)
  <2>1. CASE ~new /\ a # None
    <3>1. old.asset \in Asset /\ a = OwnAsset(n, old.asset[2])
          BY <1>1, <2>1 DEF ClonedAsset
    <3> QED
        BY <1>1, <3>1, OwnAssetName DEF Asset
  <2>2. CASE new
        BY <1>1, <2>2, OwnAssetName DEF Suffix
  <2> QED
      BY <2>1, <2>2
<1>3. v \in Variant /\ v.type = t /\ v.asset = a /\ v.steps = steps
      BY <1>1, <1>2, ResponseFields, DiskFields
<1>4. /\ b \in Disk /\ b.listed = disk.listed \cup {n} /\ b.selected \in b.listed
      /\ b.variant = [disk.variant EXCEPT ![n] = v] /\ b.content = disk.content
      BY <1>1, <1>3 DEF Disk
<1>5. (t = "sequence") = (steps # {}) /\ Commit(e)
      BY DEF CreateResponse
<1> HIDE DEF n, a, v, b
<1>6. /\ e \in Disk /\ e.listed = b.listed /\ e.selected = b.selected /\ e.variant = b.variant
      /\ a = None => e.content = b.content
      /\ a # None => e.content = [b.content EXCEPT ![a] = n]
      BY <1>1, <1>2, <1>4, WriteFields
<1> HIDE DEF e
<1>7. Sound(e)
      BY <1>1, <1>2, <1>3, <1>4, <1>5, <1>6, SoundPut DEF ByProgram
<1>8. OnlyTouches(e, n)
      BY <1>1, <1>2, <1>4, <1>6, PutTouches DEF ByProgram
<1> QED
    BY <1>1, <1>5, <1>7, <1>8, CommitKeeps

LEMMA UpdateResponseKeeps ==
  ASSUME EndpointInv, NEW n \in Index, NEW body \in BOOLEAN, NEW steps \in SUBSET disk.listed,
         UpdateResponse(n, body, steps)
  PROVE  EndpointKept
<1> DEFINE old == disk.variant[n]
           a == IF old.type = "mock" /\ body THEN None ELSE old.asset
           v == Response(old.type, a, steps)
           b == [disk EXCEPT !.variant[n] = v]
           e == IF old.type \in Scripts THEN WriteAsset(b, a, n) ELSE b
<1>1. /\ disk \in Disk /\ disk.listed # {} /\ Sound(disk) /\ n \in disk.listed
      /\ old \in Variant /\ old.type \in Types /\ old.asset \in Asset \cup {None}
      BY ListedVariant DEF EndpointInv, Sound, UpdateResponse, Variant
<1>2. /\ a \in Asset \cup {None} /\ (ByProgram(a) => a[1] = n /\ disk.content[a] = n)
      /\ a # None => disk.content[a] # None
      BY <1>1 DEF ByProgram, Sound, OwnContent, AssetsPresent, AssetThere
<1>3. v \in Variant /\ v.type = old.type /\ v.asset = a /\ v.steps = steps
  <2>1. old.type \in Types /\ a \in Asset \cup {None} /\ steps \in SUBSET Index
        BY <1>1, <1>2, DiskFields
  <2> HIDE DEF old, a
  <2> QED
      BY <2>1, ResponseFields
<1>4. /\ b \in Disk /\ b.listed = disk.listed /\ b.selected = disk.selected
      /\ b.variant = [disk.variant EXCEPT ![n] = v] /\ b.content = disk.content
      BY <1>1, <1>3 DEF Disk
<1>5. /\ (old.type = "sequence") = (steps # {}) /\ StepsLoad(e, n)
      /\ CommitAndSweep(e, n, old.asset)
      BY DEF UpdateResponse
<1> HIDE DEF a, v, b
<1>6. /\ e \in Disk /\ e.listed = b.listed /\ e.selected = b.selected /\ e.variant = b.variant
      /\ e.content = b.content \/ (a # None /\ e.content = [b.content EXCEPT ![a] = n])
      BY <1>1, <1>2, <1>4, WriteFields
<1> HIDE DEF e
<1>7. n \notin steps
  <2>1. e.variant[n] = v
        BY <1>1, <1>4, <1>6, DiskFields
  <2>2. steps # {} => \A s \in steps : e.variant[s].type \in {"mock", "handler"}
        BY <1>3, <1>5, <2>1 DEF StepsLoad
  <2> QED
      BY <1>3, <1>5, <2>1, <2>2
<1>8. disk.selected \in disk.listed
      BY <1>1 DEF Sound, ListedOnDisk
<1>9. Sound(e)
      BY <1>1, <1>2, <1>3, <1>4, <1>5, <1>6, <1>7, <1>8, SoundPut
<1>10. n \in e.listed
      BY <1>1, <1>4, <1>6
<1>11. OnlyTouches(e, n)
      BY <1>2, <1>4, <1>6, PutTouches
<1> QED
    BY <1>1, <1>5, <1>9, <1>10, <1>11, SweepKeeps

LEMMA SetResponseFileKeeps ==
  ASSUME EndpointInv, NEW n \in Index, NEW x \in Uploads, SetResponseFile(n, x)
  PROVE  EndpointKept
<1> DEFINE a == OwnAsset(n, x)
           v == Response("mock", a, {})
           b == [disk EXCEPT !.variant[n] = v]
           e == WriteAsset(b, a, n)
<1>1. /\ disk \in Disk /\ disk.listed # {} /\ Sound(disk) /\ n \in disk.listed
      /\ disk.selected \in disk.listed /\ disk.variant[n].asset \in Asset \cup {None}
      BY ListedVariant DEF EndpointInv, Sound, ListedOnDisk, SetResponseFile
<1>2. a \in Asset /\ a[1] = n /\ a # None
      BY OwnAssetName DEF Suffix
<1>3. v \in Variant /\ v.type = "mock" /\ v.asset = a /\ v.steps = {}
      BY <1>2, ResponseFields DEF Types
<1>4. /\ b \in Disk /\ b.listed = disk.listed /\ b.selected = disk.selected
      /\ b.variant = [disk.variant EXCEPT ![n] = v] /\ b.content = disk.content
      BY <1>1, <1>3 DEF Disk
<1>5. CommitAndSweep(e, n, disk.variant[n].asset)
      BY DEF SetResponseFile, Mock
<1> HIDE DEF a, v, b
<1>6. /\ e \in Disk /\ e.listed = b.listed /\ e.selected = b.selected /\ e.variant = b.variant
      /\ e.content = [b.content EXCEPT ![a] = n]
      BY <1>2, <1>4, WriteFields
<1> HIDE DEF e
<1>7. Sound(e)
      BY <1>1, <1>2, <1>3, <1>4, <1>6, SoundPut
<1>8. OnlyTouches(e, n)
      BY <1>2, <1>4, <1>6, PutTouches
<1> QED
    BY <1>1, <1>4, <1>5, <1>6, <1>7, <1>8, SweepKeeps

\* A response that is no step of another goes, with its asset if nobody else names it.
LEMMA DeleteResponseKeeps ==
  ASSUME EndpointInv, NEW n \in Index, DeleteResponse(n)
  PROVE  EndpointKept
<1> DEFINE rest == disk.listed \ {n}
           a == disk.variant[n].asset
           b == [disk EXCEPT !.listed = rest, !.variant[n] = None,
                             !.selected = IF @ = n THEN Promoted(rest, n) ELSE @]
           e == IF Referenced(disk, n, a) THEN b ELSE RemoveAsset(b, a)
<1>1. /\ disk \in Disk /\ Sound(disk) /\ n \in disk.listed /\ rest # {} /\ disk.selected \in disk.listed
      /\ a \in Asset \cup {None} /\ Commit(e) /\ StepOf(disk, n) = {}
      BY ListedVariant DEF EndpointInv, Sound, ListedOnDisk, DeleteResponse
<1>2. /\ e.listed = b.listed /\ e.selected = b.selected
      BY DEF RemoveAsset
<1>3. b.listed = rest /\ b.selected \in rest
      BY <1>1, <1>2 DEF Commit, Accepted, Disk
<1>4. /\ b \in Disk /\ b.variant = [disk.variant EXCEPT ![n] = None] /\ b.content = disk.content
      BY <1>1, <1>3 DEF Disk
<1> HIDE DEF b
<1>5. /\ n \in Index /\ b.variant[n] = None
      /\ \A m \in Index : m # n => b.variant[m] = disk.variant[m]
      BY <1>1, <1>4, DiskFields
<1>6. Sound(b)
  <2>1. ListedOnDisk(b)
        BY <1>1, <1>3, <1>4, <1>5 DEF Sound, ListedOnDisk
  <2>2. \A m \in rest : /\ b.variant[m] = disk.variant[m]
                        /\ disk.variant[m].type = "sequence" => n \notin disk.variant[m].steps
        BY <1>1, <1>5, DiskFields DEF StepOf
  <2>3. AssetsPresent(b) /\ OwnContent(b)
        BY <1>1, <1>3, <1>4, <2>2 DEF Sound, AssetsPresent, AssetThere, OwnContent
  <2>4. ASSUME NEW m \in rest
        PROVE  /\ b.variant[m].type = "sequence" <=> b.variant[m].steps # {}
               /\ b.variant[m].steps \subseteq rest \ {m}
    <3>1. /\ disk.variant[m].type = "sequence" <=> disk.variant[m].steps # {}
          /\ disk.variant[m].steps \subseteq disk.listed \ {m}
          BY <1>1, <2>4 DEF Sound, StepsListed
    <3>2. n \notin disk.variant[m].steps
          BY <2>2, <2>4, <3>1
    <3> QED
        BY <2>2, <2>4, <3>1, <3>2
  <2>5. StepsListed(b)
        BY <1>3, <2>4 DEF StepsListed
  <2> QED
      BY <1>4, <2>1, <2>3, <2>5 DEF Sound
<1>7. ~Referenced(disk, n, a) /\ a # None => \A m \in b.listed : b.variant[m].asset # a
      BY <1>1, <1>3, <1>5, ListedVariant, NoneAssumption DEF Referenced
<1>8. OnlyTouches(b, n)
      BY <1>4, PutTouches DEF ByProgram
<1>9. Sound(e) /\ OnlyTouches(e, n)
  <2>1. CASE e = b
        BY <1>6, <1>8, <2>1
  <2>2. CASE e # b
    <3>1. a \in Asset /\ ~Referenced(disk, n, a) /\ a # None /\ e = RemoveAsset(b, a)
          BY <1>1, <2>2 DEF RemoveAsset
    <3> QED
        BY <1>1, <1>3, <1>6, <1>7, <1>8, <3>1, SoundRemove, RemoveTouches
  <2> QED
      BY <2>1, <2>2
<1> QED
    BY <1>1, <1>9, CommitKeeps

-------------------------------------------------------------------------------
(* The copy.                                                               *)

\* What a copy holds.
LEMMA CopyFields ==
  ASSUME NEW d, Sound(d), d.listed # {}, NEW all \in BOOLEAN
  PROVE  LET c == CopyOf(d, all) IN
         /\ c \in Disk /\ c.listed = Copied(d, all) /\ c.listed \subseteq d.listed
         /\ d.selected \in c.listed /\ c.selected = d.selected /\ c.enabled = d.enabled
         /\ \A n \in Index : c.variant[n] = IF n \in c.listed THEN d.variant[n] ELSE None
         /\ \A n \in c.listed : d.variant[n].asset # None =>
               c.content[d.variant[n].asset] = d.content[d.variant[n].asset]
<1> DEFINE c == CopyOf(d, all)
           assets == {d.variant[n].asset : n \in Copied(d, all)}
<1>1. d \in Disk /\ d.selected \in d.listed
      BY DEF Sound, ListedOnDisk
<1>2. Copied(d, all) \subseteq d.listed /\ d.selected \in Copied(d, all)
      BY <1>1, ListedVariant DEF Copied
<1>3. c = [d EXCEPT !.listed = Copied(d, all),
                    !.variant = [n \in Index |-> IF n \in Copied(d, all) THEN d.variant[n] ELSE None],
                    !.content = [a \in Asset |-> IF a \in assets THEN d.content[a] ELSE None]]
      BY Zenon DEF CopyOf
<1>4. /\ c.listed = Copied(d, all) /\ c.selected = d.selected /\ c.enabled = d.enabled
      /\ c.variant = [n \in Index |-> IF n \in Copied(d, all) THEN d.variant[n] ELSE None]
      /\ c.content = [a \in Asset |-> IF a \in assets THEN d.content[a] ELSE None]
      /\ c = [listed |-> c.listed, selected |-> c.selected, enabled |-> c.enabled,
              variant |-> c.variant, content |-> c.content]
      BY <1>1, <1>3 DEF Disk
<1> HIDE DEF c
<1>5. c.variant \in [Index -> Variant \cup {None}]
      BY <1>1, <1>4, DiskFields
<1>6. c.content \in [Asset -> (0..MaxIndex) \cup {None}]
      BY <1>1, <1>4, DiskFields
<1>7. c \in Disk
      BY <1>1, <1>2, <1>4, <1>5, <1>6, DiskFields DEF Disk
<1>8. \A n \in c.listed : d.variant[n].asset # None =>
        d.variant[n].asset \in Asset /\ d.variant[n].asset \in assets
      BY <1>2, <1>4, ListedVariant
<1>9. \A n \in c.listed : d.variant[n].asset # None =>
        c.content[d.variant[n].asset] = d.content[d.variant[n].asset]
      BY <1>4, <1>8
<1> QED
    BY <1>1, <1>2, <1>4, <1>7, <1>9 DEF c

LEMMA CopyEndpointKeeps ==
  ASSUME EndpointInv, NEW all \in BOOLEAN, CopyEndpoint(all)
  PROVE  EndpointKept
<1> DEFINE c == CopyOf(disk, all)
<1>1. /\ disk.listed # {} /\ Sound(disk) /\ Commit(c)
      /\ \A n \in c.listed : StepsLoad(c, n)
      BY DEF EndpointInv, CopyEndpoint, Exists
<1>2. /\ c \in Disk /\ c.listed \subseteq disk.listed /\ c.selected \in c.listed
      /\ \A n \in Index : c.variant[n] = IF n \in c.listed THEN disk.variant[n] ELSE None
      /\ \A n \in c.listed : disk.variant[n].asset # None =>
            c.content[disk.variant[n].asset] = disk.content[disk.variant[n].asset]
      BY <1>1, CopyFields
<1> HIDE DEF c
<1>3. \A n \in c.listed : n \in Index /\ c.variant[n] = disk.variant[n] /\ disk.variant[n] \in Variant
      BY <1>1, <1>2, ListedVariant
<1>4. ListedOnDisk(c)
      BY <1>2, <1>3, NoneAssumption DEF ListedOnDisk
<1>5. AssetsPresent(c) /\ OwnContent(c)
      BY <1>1, <1>2, <1>3 DEF Sound, AssetsPresent, AssetThere, OwnContent, ByProgram
<1>6. StepsListed(c)
  <2>1. ASSUME NEW n \in c.listed PROVE c.variant[n].steps \subseteq c.listed \ {n}
    <3>1. /\ c.variant[n].type = "sequence" <=> c.variant[n].steps # {}
          BY <1>1, <1>2, <1>3, <2>1 DEF Sound, StepsListed
    <3>2. c.variant[n].steps # {} => \A s \in c.variant[n].steps : s \in c.listed
          BY <1>1, <2>1, <3>1 DEF StepsLoad, LoadsAlone
    <3>3. n \notin c.variant[n].steps
          BY <1>1, <1>2, <1>3, <2>1 DEF Sound, StepsListed
    <3> QED
        BY <3>2, <3>3
  <2>2. \A n \in c.listed : c.variant[n].type = "sequence" <=> c.variant[n].steps # {}
        BY <1>1, <1>2, <1>3 DEF Sound, StepsListed
  <2> QED
      BY <2>1, <2>2 DEF StepsListed
<1>7. Sound(c)
      BY <1>2, <1>4, <1>5, <1>6 DEF Sound
<1>8. 1 \in Index /\ OnlyTouches(c, 1)
      BY <1>2, <1>3, IndexAssumption DEF OnlyTouches, Served, Index
<1> QED
    BY <1>1, <1>7, <1>8, CommitKeeps

\* A copy of the selected response of a served endpoint loads, with all that it takes along.
LEMMA CopyLoads == EndpointInv => CopyServes
<1> DEFINE c == CopyOf(disk, FALSE)
<1> SUFFICES ASSUME EndpointInv, disk.listed # {}, disk.enabled
             PROVE  Loads(c, c.selected) /\ \A n \in c.listed : Loads(c, n)
    BY DEF CopyServes, Exists
<1>1. Sound(disk) /\ Loads(disk, disk.selected)
      BY DEF EndpointInv, ServedWhenEnabled
<1>2. /\ c \in Disk /\ c.listed \subseteq disk.listed /\ c.selected \in c.listed
      /\ c.selected = disk.selected
      /\ c.listed = {disk.selected} \cup disk.variant[disk.selected].steps
      /\ \A n \in Index : c.variant[n] = IF n \in c.listed THEN disk.variant[n] ELSE None
      /\ \A n \in c.listed : disk.variant[n].asset # None =>
            c.content[disk.variant[n].asset] = disk.content[disk.variant[n].asset]
      BY <1>1, CopyFields DEF Copied
<1> HIDE DEF c
<1>3. \A n \in c.listed :
        n \in Index /\ c.variant[n] = disk.variant[n] /\ disk.variant[n] \in Variant
      BY <1>1, <1>2, ListedVariant
<1>4. \A n \in c.listed : AssetThere(c, n)
      BY <1>1, <1>2, <1>3 DEF Sound, AssetsPresent, AssetThere
<1>5. \A n \in disk.variant[disk.selected].steps : disk.variant[n].type \in {"mock", "handler"}
      BY <1>1, <1>2 DEF Sound, StepsListed, Loads, StepsLoad
<1>6. \A n \in c.listed : LoadsAlone(c, n)
  <2>1. ASSUME NEW n \in c.listed, c.variant[n].type = "sequence"
        PROVE  c.variant[n].steps \subseteq c.listed
        BY <1>2, <1>3, <1>5, <2>1
  <2> QED
      BY <1>3, <1>4, <2>1, NoneAssumption DEF LoadsAlone
<1>7. \A n \in c.listed : StepsLoad(c, n)
  <2>1. ASSUME NEW n \in c.listed, c.variant[n].type = "sequence", NEW s \in c.variant[n].steps
        PROVE  LoadsAlone(c, s) /\ c.variant[s].type \in {"mock", "handler"}
    <3>1. n = disk.selected
          BY <1>2, <1>3, <1>5, <2>1
    <3>2. s \in c.listed /\ c.variant[s] = disk.variant[s]
          BY <1>2, <1>3, <2>1, <3>1
    <3> QED
        BY <1>3, <1>5, <1>6, <2>1, <3>1, <3>2
  <2> QED
      BY <2>1 DEF StepsLoad
<1> QED
    BY <1>2, <1>6, <1>7 DEF Loads

-------------------------------------------------------------------------------
LEMMA EndpointNext == EndpointInv /\ Next => EndpointKept
<1> SUFFICES ASSUME EndpointInv, Next PROVE EndpointKept
    OBVIOUS
<1>2. CASE \E t \in Types, enabled \in BOOLEAN : CreateEndpoint(t, enabled) \/ UpdateMock(t, enabled)
      BY <1>2, CreateEndpointKeeps, UpdateMockKeeps
<1>3. CASE \E enabled \in BOOLEAN : SetEnabled(enabled)
      BY <1>3, SelectKeeps DEF SetEnabled, Exists
<1>4. CASE DeleteEndpoint
      BY <1>4, DeleteEndpointKeeps
<1>5. CASE \E n \in Index : Select(n) \/ DeleteResponse(n)
  <2>1. ASSUME NEW n \in Index, Select(n) PROVE EndpointKept
        BY <2>1, SelectKeeps DEF Select
  <2> QED
      BY <1>5, <2>1, DeleteResponseKeeps
<1>6. CASE \E t \in Types \ {"sequence"}, body, select \in BOOLEAN : CreateResponse(t, body, {}, select)
      BY <1>6, CreateResponseKeeps
<1>7. CASE \E steps \in SUBSET disk.listed, select \in BOOLEAN :
             CreateResponse("sequence", FALSE, steps, select)
      BY <1>7, CreateResponseKeeps DEF Types
<1>8. CASE \E n \in Index, body \in BOOLEAN : UpdateResponse(n, body, {})
      BY <1>8, UpdateResponseKeeps
<1>9. CASE \E n \in Index, steps \in SUBSET disk.listed \ {{}} : UpdateResponse(n, FALSE, steps)
      BY <1>9, UpdateResponseKeeps
<1>10. CASE \E n \in Index, x \in Uploads : SetResponseFile(n, x)
      BY <1>10, SetResponseFileKeeps
<1>11. CASE \E all \in BOOLEAN : CopyEndpoint(all)
      BY <1>11, CopyEndpointKeeps
<1> QED
    BY <1>2, <1>3, <1>4, <1>5, <1>6, <1>7, <1>8, <1>9, <1>10, <1>11 DEF Next

LEMMA EndpointHolds == Spec => []EndpointInv
<1>1. Init => EndpointInv
      BY WorkspacesAssumption DEF Init, Regular, EndpointInv, Sound
<1>2. EndpointInv /\ [Next]_disk => EndpointInv'
      BY EndpointNext DEF EndpointKept, EndpointInv
<1> QED
    BY <1>1, <1>2, PTL DEF Spec

\* Nothing that a response needs disappears, nothing is left over, and no response gets the
\* files of another (Complete).
THEOREM CompleteHolds == Spec => []Complete
<1>1. EndpointInv => Complete
      BY DEF EndpointInv, Sound, Complete
<1> QED
    BY <1>1, EndpointHolds, PTL

\* An enabled endpoint is served, and a copy of its selected response would be
\* (EndpointServes).
THEOREM EndpointServesHolds == Spec => []EndpointServes
<1>1. EndpointInv => EndpointServes
      BY CopyLoads DEF EndpointInv, EndpointServes
<1> QED
    BY <1>1, EndpointHolds, PTL

\* An operation changes what one response answers with, at most (OthersUntouched).
THEOREM OthersUntouchedHolds == Spec => OthersUntouched
<1>1. EndpointInv /\ [Next]_disk =>
        [\E n \in Index : \A m \in (disk.listed \cap disk'.listed) \ {n} :
            \/ Served(disk', m) = Served(disk, m)
            \/ disk'.variant[m] = disk.variant[m] /\ disk.variant[m].asset[1] = 0]_disk
      BY EndpointNext DEF EndpointKept, OnlyTouches
<1> QED
    BY <1>1, EndpointHolds, PTL DEF Spec, OthersUntouched

-------------------------------------------------------------------------------
(* The data files and the sources that refer to them.                      *)

Sources == [Source -> [refs : SUBSET DataName, sound : BOOLEAN]]
DataFilesOf == [DataName -> DataContent \cup {NoFile}]
Serving == [Source -> (SUBSET DataName) \cup {NotServed}]
EndpointKinds == [Source -> {"on", "off", "bad"}]

DataTyped ==
  /\ dataFile \in DataFilesOf /\ source \in Sources /\ loaded \in Serving /\ endpointIs \in EndpointKinds
  /\ touched \in BOOLEAN

TurnFields == {"at", "from", "to", "plan", "todo", "files", "sources", "served", "endpoints"}
TurnTyped ==
  \/ turn = NoTurn
  \/ /\ DOMAIN turn = TurnFields
     /\ turn.at \in {"writing", "moved", "failed", "recovering", "renamed", "restored", "unrestored"}
     /\ turn.from \in DataName /\ turn.to \in DataName
     /\ turn.plan \subseteq Source /\ turn.todo \subseteq turn.plan
     /\ turn.files \in DataFilesOf /\ turn.sources \in Sources /\ turn.served \in Serving
     /\ turn.endpoints \in EndpointKinds

\* What the turn rewrites a source to, and where it moves the file.
TurnRewrite(x) == RewrittenSource(turn.sources[x], turn.from, turn.to)
TurnMoved == [turn.files EXCEPT ![turn.to] = turn.files[turn.from], ![turn.from] = NoFile]

\* What a turn nobody came between knows: the plan, the sources as they were or rewritten,
\* and that what does not load is served as before the turn.
Planned ==
  /\ turn.from # turn.to /\ turn.files[turn.from] # NoFile /\ turn.files[turn.to] = NoFile
  /\ endpointIs = turn.endpoints
  /\ turn.plan = {x \in Source : endpointIs[x] # "bad" /\ turn.from \in turn.sources[x].refs}
  /\ \A x \in Source : source[x] = turn.sources[x] \/ (x \in turn.plan /\ source[x] = TurnRewrite(x))
  /\ \A x \in Errors : loaded[x] = turn.served[x]

\* How far the turn is.
Staged ==
  /\ turn.at \in {"writing", "recovering", "restored"} => dataFile = turn.files
  /\ turn.at \in {"moved", "renamed"} => dataFile = TurnMoved
  /\ turn.at = "failed" => dataFile \in {turn.files, TurnMoved}
  /\ turn.at = "writing" => \A x \in turn.plan \ turn.todo : source[x] = TurnRewrite(x)
  /\ turn.at \in {"moved", "renamed"} => \A x \in turn.plan : source[x] = TurnRewrite(x)
  /\ turn.at \in {"recovering", "restored"} => source = turn.sources

DataInv ==
  /\ DataTyped /\ TurnTyped
  /\ turn # NoTurn /\ ~touched => Planned /\ Staged
  /\ RenameAllOrNothing

LEMMA DataInit == InitData => DataInv
<1> SUFFICES ASSUME InitData PROVE DataInv
  OBVIOUS
<1>1. PICK refs \in SourceRefs, sound \in [Source -> BOOLEAN] :
        source = [x \in Source |-> [refs |-> refs[x], sound |-> sound[x]]]
  BY DEF InitData
<1>2. refs \in [Source -> SUBSET DataName]
  BY DataAssumption
<1>3. source \in Sources
  BY <1>1, <1>2 DEF Sources
<1>4. PICK old \in {NotServed} \cup {{n} : n \in DataName} : loaded = [x \in Source |-> Installed(x, old)]
  BY DEF InitData
<1>5. loaded \in Serving
  BY <1>3, <1>4 DEF Serving, Installed, Sources
<1> QED
  BY <1>3, <1>5 DEF InitData, DataInv, DataTyped, TurnTyped, NoTurn, RenameAllOrNothing, RenamedWhole,
     RenameUndone, DataFilesOf, EndpointKinds

\* A reload installs what loads, and leaves what does not as it was.
LEMMA Reloaded ==
  ASSUME DataTyped, ReloadScripts
  PROVE  /\ loaded' \in Serving
         /\ \A x \in Source : loaded'[x] = Installed(x, loaded[x])
         /\ \A x \in Errors : loaded'[x] = loaded[x]
<1>1. \A x \in Source : Installed(x, loaded[x]) \in (SUBSET DataName) \cup {NotServed}
  BY DEF DataTyped, Installed, Sources, Serving
<1>2. \A x \in Errors : x \in Source /\ Installed(x, loaded[x]) = loaded[x]
  BY DEF Installed, Errors
<1>3. loaded' = [x \in Source |-> Installed(x, loaded[x])]
  BY DEF ReloadScripts
<1> QED
  BY <1>1, <1>2, <1>3 DEF Serving

\* When a turn is over, nothing is asked of what follows but its types.
LEMMA TurnOver ==
  ASSUME DataTyped', turn' = NoTurn PROVE DataInv'
BY DEF DataInv, TurnTyped, NoTurn, RenameAllOrNothing, RenamedWhole, RenameUndone

\* Nor when somebody came between.
LEMMA TurnTouched ==
  ASSUME DataTyped', TurnTyped', touched' = TRUE PROVE DataInv'
BY DEF DataInv, RenameAllOrNothing, RenamedWhole, RenameUndone

LEMMA WrittenKeeps ==
  ASSUME DataInv, NEW n \in DataName, NEW c \in DataContent \cup {NoFile}, DataWritten(n, c) PROVE DataInv'
<1>1. DataTyped'
  BY DEF DataInv, DataTyped, DataWritten, DataFilesOf
<1> QED
  BY <1>1, TurnOver DEF DataWritten

LEMMA EditedKeeps ==
  ASSUME DataInv, Edited, dataFile' \in DataFilesOf, source' \in Sources, endpointIs' \in EndpointKinds
  PROVE  DataInv'
<1>1. DataTyped'
  BY DEF DataInv, DataTyped, Edited
<1>2. CASE Between
  BY <1>1, <1>2, TurnOver DEF Edited
<1>3. CASE ~Between
  <2>1. touched' = TRUE /\ UNCHANGED turn
    BY <1>3 DEF Edited
  <2>2. TurnTyped'
    BY <2>1 DEF DataInv, TurnTyped
  <2> QED
    BY <1>1, <2>1, <2>2, TurnTouched
<1> QED
  BY <1>2, <1>3

LEMMA BeginKeeps ==
  ASSUME DataInv, NEW from \in DataName, NEW to \in DataName, NEW rewrite \in BOOLEAN,
         BeginRename(from, to, rewrite)
  PROVE  DataInv'
<1>1. PICK plan : /\ plan = IF rewrite THEN Referencing(from) ELSE {}
                  /\ turn' = IF plan = {} THEN NoTurn
                             ELSE [at |-> "writing", from |-> from, to |-> to, plan |-> plan, todo |-> plan,
                                   files |-> dataFile, sources |-> source, served |-> loaded,
                                   endpoints |-> endpointIs]
                  /\ dataFile' = IF plan = {} THEN FileMoved(from, to) ELSE dataFile
  BY DEF BeginRename
<1>2. /\ dataFile[from] # NoFile /\ dataFile[to] = NoFile
      /\ touched' = FALSE /\ done' = [done EXCEPT !.renames = @ + 1]
      /\ UNCHANGED <<source, endpointIs, loaded>>
  BY DEF BeginRename
<1>3. DataTyped'
  BY <1>1, <1>2 DEF DataInv, DataTyped, FileMoved, DataFilesOf
<1>4. CASE plan = {}
  BY <1>1, <1>3, <1>4, TurnOver
<1>5. CASE plan # {}
  <2>1. /\ DOMAIN turn' = TurnFields /\ turn'.at = "writing" /\ turn'.from = from /\ turn'.to = to
        /\ turn'.plan = plan /\ turn'.todo = plan /\ turn'.files = dataFile /\ turn'.sources = source
        /\ turn'.served = loaded /\ turn'.endpoints = endpointIs /\ dataFile' = dataFile
    BY <1>1, <1>5 DEF TurnFields
  <2>2. plan = {x \in Source : endpointIs[x] # "bad" /\ from \in source[x].refs}
    BY <1>1, <1>5 DEF Referencing
  <2>3. TurnTyped'
    BY <2>1, <2>2 DEF DataInv, DataTyped, TurnTyped
  <2>4. Planned'
    BY <1>2, <2>1, <2>2 DEF Planned, Errors
  <2>5. Staged'
    BY <2>1 DEF Staged
  <2>6. RenameAllOrNothing'
    BY <2>1 DEF RenameAllOrNothing, RenamedWhole, RenameUndone
  <2> QED
    BY <1>3, <2>3, <2>4, <2>5, <2>6 DEF DataInv
<1> QED
  BY <1>4, <1>5

\* A step of the turn changes its stage, perhaps what is left to write, and nothing else of it.
Steps(at) ==
  /\ turn # NoTurn /\ turn'.at = at /\ turn'.todo \subseteq turn.todo /\ DOMAIN turn' = TurnFields
  /\ \A f \in TurnFields \ {"at", "todo"} : turn'[f] = turn[f]
  /\ UNCHANGED <<endpointIs, touched>>
  /\ at \in {"writing", "moved", "failed", "recovering", "renamed", "restored", "unrestored"}

LEMMA StepTyped ==
  ASSUME TurnTyped, NEW at, Steps(at) PROVE TurnTyped'
BY DEF TurnTyped, Steps, TurnFields

\* Such a step keeps the plan when it writes sources as planned or back, and reloads if at all.
LEMMA StepPlanned ==
  ASSUME DataTyped, TurnTyped, Planned, NEW at, Steps(at), source' \in Sources,
         \A x \in Source : source'[x] \in {source[x], turn.sources[x]}
                           \/ (x \in turn.plan /\ source'[x] = TurnRewrite(x)),
         UNCHANGED loaded \/ ReloadScripts
  PROVE  Planned' /\ Errors' = Errors
<1>1. /\ turn'.from = turn.from /\ turn'.to = turn.to /\ turn'.plan = turn.plan /\ turn'.files = turn.files
      /\ turn'.sources = turn.sources /\ turn'.served = turn.served /\ turn'.endpoints = turn.endpoints
      /\ endpointIs' = endpointIs
  BY DEF Steps, TurnFields
<1>2. \A x \in Source : TurnRewrite(x)' = TurnRewrite(x)
  BY <1>1 DEF TurnRewrite
<1>3. \A x \in Source : TurnRewrite(x).sound = turn.sources[x].sound
  BY DEF TurnTyped, TurnRewrite, RewrittenSource, Sources, Steps
<1>4. \A x \in Source : source'[x].sound = source[x].sound
  BY <1>3 DEF Planned
<1>5. Errors' = Errors
  BY <1>1, <1>4 DEF Errors
<1>6. \A x \in Errors : loaded'[x] = loaded[x]
  BY Reloaded
<1>7. \A x \in Source : source'[x] = turn'.sources[x]
                        \/ (x \in turn'.plan /\ source'[x] = TurnRewrite(x)')
  BY <1>1, <1>2 DEF Planned
<1> QED
  BY <1>1, <1>5, <1>6, <1>7 DEF Planned

LEMMA WatcherKeeps ==
  ASSUME DataInv, WatcherReloads PROVE DataInv'
<1>1. /\ ReloadScripts /\ UNCHANGED <<dataFile, source, endpointIs, done>>
      /\ Between => turn' = NoTurn /\ touched' = FALSE
      /\ ~Between => UNCHANGED <<turn, touched>>
  BY DEF WatcherReloads
<1>2. DataTyped'
  BY <1>1, Reloaded DEF DataInv, DataTyped
<1>3. CASE Between
  BY <1>1, <1>2, <1>3, TurnOver
<1>4. CASE ~Between
  <2>1. UNCHANGED <<turn, touched, endpointIs, source, dataFile>>
    BY <1>1, <1>4
  <2>2. TurnTyped'
    BY <2>1 DEF DataInv, TurnTyped
  <2>3. ASSUME turn # NoTurn, ~touched PROVE Planned' /\ Staged'
    <3>1. Planned /\ Staged /\ Errors' = Errors
      BY <2>1, <2>3 DEF DataInv, Errors
    <3>2. \A x \in Errors : loaded'[x] = loaded[x]
      BY <1>1, Reloaded DEF DataInv
    <3> QED
      BY <2>1, <3>1, <3>2 DEF Planned, Staged, TurnRewrite, TurnMoved
  <2>4. turn'.at \notin {"renamed", "restored"}
    BY <1>4, <2>1 DEF Between
  <2> QED
    BY <1>2, <2>1, <2>2, <2>3, <2>4 DEF DataInv, RenameAllOrNothing, RenamedWhole, RenameUndone
<1> QED
  BY <1>3, <1>4

LEMMA RewriteKeeps ==
  ASSUME DataInv, NEW x \in Source, RewriteScript(x) PROVE DataInv'
<1>1. /\ turn.at = "writing" /\ x \in turn.todo
      /\ source' = [source EXCEPT ![x] = TurnRewrite(x)]
      /\ turn' = [turn EXCEPT !.todo = @ \ {x}]
      /\ UNCHANGED <<dataFile, endpointIs, loaded, touched, done>>
  BY DEF RewriteScript, TurnRewrite
<1>2. turn # NoTurn /\ DOMAIN turn = TurnFields
  BY <1>1 DEF DataInv, TurnTyped, NoTurn
<1>3. Steps("writing") /\ turn'.todo = turn.todo \ {x}
  BY <1>1, <1>2 DEF Steps, TurnFields
<1>4. TurnTyped'
  BY <1>3, StepTyped DEF DataInv
<1>5. TurnRewrite(x) \in [refs : SUBSET DataName, sound : BOOLEAN]
  BY <1>2 DEF DataInv, TurnTyped, TurnRewrite, RewrittenSource, Sources
<1>6. source' \in Sources /\ \A y \in Source : source'[y] = IF y = x THEN TurnRewrite(x) ELSE source[y]
  BY <1>1, <1>5 DEF DataInv, DataTyped, Sources
<1>7. DataTyped'
  BY <1>1, <1>6 DEF DataInv, DataTyped
<1>8. ASSUME ~touched PROVE Planned' /\ Staged'
  <2>1. Planned /\ Staged /\ x \in turn.plan
    BY <1>1, <1>2, <1>8 DEF DataInv, TurnTyped
  <2>2. Planned'
    <3>1. \A y \in Source : source'[y] \in {source[y], turn.sources[y]}
                            \/ (y \in turn.plan /\ source'[y] = TurnRewrite(y))
      BY <2>1, <1>6
    <3> QED
      BY <2>1, <3>1, <1>1, <1>3, <1>6, StepPlanned DEF DataInv
  <2>3. /\ turn'.from = turn.from /\ turn'.to = turn.to /\ turn'.plan = turn.plan
        /\ turn'.files = turn.files /\ turn'.sources = turn.sources
    BY <1>3 DEF Steps, TurnFields
  <2>4. \A y \in Source : TurnRewrite(y)' = TurnRewrite(y)
    BY <2>3 DEF TurnRewrite
  <2>5. \A y \in turn'.plan \ turn'.todo : y \in Source /\ source'[y] = TurnRewrite(y)'
    BY ZenonT(30), <2>1, <2>3, <2>4, <1>1, <1>3, <1>4, <1>6 DEF Staged, TurnTyped, DataInv
  <2>6. Staged'
    BY <2>1, <2>3, <2>5, <1>1, <1>3 DEF Staged, Steps
  <2> QED
    BY <2>2, <2>6
<1>9. turn'.at = "writing"
  BY <1>3 DEF Steps
<1> QED
  BY <1>1, <1>4, <1>7, <1>8, <1>9 DEF DataInv, RenameAllOrNothing, RenamedWhole, RenameUndone

LEMMA MoveKeeps ==
  ASSUME DataInv, MoveFile PROVE DataInv'
<1>1. /\ turn.at = "writing" /\ turn.todo = {}
      /\ dataFile' = FileMoved(turn.from, turn.to)
      /\ turn' = [turn EXCEPT !.at = "moved"]
      /\ UNCHANGED <<source, endpointIs, loaded, touched, done>>
  BY DEF MoveFile
<1>2. turn # NoTurn /\ DOMAIN turn = TurnFields
  BY <1>1 DEF DataInv, TurnTyped, NoTurn
<1>3. Steps("moved")
  BY <1>1, <1>2 DEF Steps, TurnFields
<1>4. TurnTyped'
  BY <1>3, StepTyped DEF DataInv
<1>5. DataTyped'
  BY <1>1, <1>2 DEF DataInv, DataTyped, FileMoved, TurnTyped, DataFilesOf
<1>6. turn'.at = "moved"
  BY <1>3 DEF Steps
<1>7. ASSUME ~touched PROVE Planned' /\ Staged'
  <2>1. Planned /\ Staged
    BY <1>2, <1>7 DEF DataInv
  <2>2. Planned'
    <3>1. \A y \in Source : source'[y] \in {source[y], turn.sources[y]}
                            \/ (y \in turn.plan /\ source'[y] = TurnRewrite(y))
      BY <1>1
    <3> QED
      BY <2>1, <3>1, <1>1, <1>3, <1>5, StepPlanned DEF DataInv, DataTyped
  <2>3. /\ turn'.from = turn.from /\ turn'.to = turn.to /\ turn'.plan = turn.plan
        /\ turn'.files = turn.files /\ turn'.sources = turn.sources
    BY <1>3 DEF Steps, TurnFields
  <2>4. dataFile' = TurnMoved'
    BY <2>1, <2>3, <1>1 DEF Staged, TurnMoved, FileMoved
  <2>5. \A y \in turn'.plan : source'[y] = TurnRewrite(y)'
    BY <2>1, <2>3, <1>1 DEF Staged, TurnRewrite
  <2>6. Staged'
    BY <2>4, <2>5, <1>6 DEF Staged
  <2> QED
    BY <2>2, <2>6
<1> QED
  BY <1>1, <1>4, <1>5, <1>6, <1>7 DEF DataInv, RenameAllOrNothing, RenamedWhole, RenameUndone

LEMMA RefusedKeeps ==
  ASSUME DataInv, CommitRefused PROVE DataInv'
<1>1. /\ turn.at = "writing" /\ turn' = [turn EXCEPT !.at = "failed"]
      /\ UNCHANGED <<dataFile, source, endpointIs, loaded, touched, done>>
  BY DEF CommitRefused
<1>2. turn # NoTurn /\ DOMAIN turn = TurnFields
  BY <1>1 DEF DataInv, TurnTyped, NoTurn
<1>3. Steps("failed")
  BY <1>1, <1>2 DEF Steps, TurnFields
<1>4. TurnTyped' /\ DataTyped' /\ turn'.at = "failed"
  BY <1>1, <1>3, StepTyped DEF DataInv, DataTyped, Steps
<1>5. ASSUME ~touched PROVE Planned' /\ Staged'
  <2>1. Planned /\ Staged
    BY <1>2, <1>5 DEF DataInv
  <2>2. Planned'
    BY <2>1, <1>1, <1>3, StepPlanned DEF DataInv, DataTyped
  <2>3. dataFile' = turn'.files
    BY <2>1, <1>1, <1>3 DEF Staged, Steps, TurnFields
  <2> QED
    BY <2>2, <2>3, <1>4 DEF Staged
<1> QED
  BY <1>1, <1>4, <1>5 DEF DataInv, RenameAllOrNothing, RenamedWhole, RenameUndone

LEMMA ReloadKeeps ==
  ASSUME DataInv, ReloadMoved PROVE DataInv'
<1>1. PICK at :
        /\ turn.at = "moved" /\ turn' = [turn EXCEPT !.at = at]
        /\ \/ ReloadScripts /\ at = IF RenameAccepted(turn.plan) THEN "renamed" ELSE "failed"
           \/ UNCHANGED loaded /\ at = "failed"
        /\ UNCHANGED <<dataFile, source, endpointIs, touched, done>>
  BY DEF ReloadMoved
<1>2. turn # NoTurn /\ DOMAIN turn = TurnFields
  BY <1>1 DEF DataInv, TurnTyped, NoTurn
<1>3. Steps(at) /\ at \in {"renamed", "failed"}
  BY <1>1, <1>2 DEF Steps, TurnFields
<1>4. TurnTyped' /\ turn'.at = at
  BY <1>3, StepTyped DEF DataInv, Steps
<1>5. DataTyped'
  BY <1>1, Reloaded DEF DataInv, DataTyped
<1>6. /\ turn'.from = turn.from /\ turn'.to = turn.to /\ turn'.plan = turn.plan
      /\ turn'.files = turn.files /\ turn'.sources = turn.sources /\ turn'.served = turn.served
      /\ turn'.endpoints = turn.endpoints
  BY <1>3 DEF Steps, TurnFields
<1>7. ASSUME ~touched PROVE Planned' /\ Staged' /\ Errors' = Errors /\ Planned /\ Staged
  <2>1. Planned /\ Staged
    BY <1>2, <1>7 DEF DataInv
  <2>2. Planned' /\ Errors' = Errors
    BY <2>1, <1>1, <1>3, StepPlanned DEF DataInv, DataTyped
  <2>3. dataFile' = TurnMoved'
    BY <2>1, <1>1, <1>6 DEF Staged, TurnMoved
  <2>4. \A y \in turn'.plan : source'[y] = TurnRewrite(y)'
    BY <2>1, <1>6, <1>1 DEF Staged, TurnRewrite
  <2> QED
    BY <2>1, <2>2, <2>3, <2>4, <1>3, <1>4 DEF Staged
<1>8. RenamedWhole'
  <2> SUFFICES ASSUME turn'.at = "renamed", ~touched'
               PROVE  /\ dataFile'[turn'.to] = turn'.files[turn'.from] /\ dataFile'[turn'.from] = NoFile
                      /\ \A x \in Source : endpointIs'[x] # "bad" => turn'.from \notin source'[x].refs
                      /\ \A x \in Source : Current(x)' /\ Found(turn'.served[x], turn'.files)
                           => loaded'[x] # NotServed /\ Found(loaded'[x], dataFile')
    BY DEF RenamedWhole, Found
  <2>1. Planned /\ Staged /\ Planned' /\ Staged' /\ Errors' = Errors
    BY <1>1, <1>7
  <2>2. ReloadScripts /\ RenameAccepted(turn.plan)
    BY <1>1, <1>3, <1>4
  <2>3. /\ turn.from \in DataName /\ turn.to \in DataName /\ turn.files \in DataFilesOf
        /\ turn.from # turn.to /\ turn.files[turn.from] # NoFile
        /\ turn.sources \in Sources
    BY <2>1, <1>2 DEF DataInv, TurnTyped, Planned
  <2>4. \A n \in DataName : dataFile'[n] = IF n = turn.from THEN NoFile
                                           ELSE IF n = turn.to THEN turn.files[turn.from] ELSE turn.files[n]
    BY <2>1, <2>3, <1>1 DEF Staged, TurnMoved, DataFilesOf
  <2>5. \A x \in Source : source'[x].refs = IF x \in turn.plan
                                            THEN (turn.sources[x].refs \ {turn.from}) \cup {turn.to}
                                            ELSE turn.sources[x].refs
    <3>1. \A x \in turn.plan : TurnRewrite(x).refs = (turn.sources[x].refs \ {turn.from}) \cup {turn.to}
      BY <2>3, <1>2 DEF DataInv, TurnTyped, TurnRewrite, RewrittenSource, Sources
    <3>2. \A x \in turn.plan : source[x] = TurnRewrite(x)
      BY <2>1, <1>1 DEF Staged
    <3>3. \A x \in Source \ turn.plan : source[x] = turn.sources[x]
      BY <2>1 DEF Planned
    <3> QED
      BY <3>1, <3>2, <3>3, <1>1
  <2>6. \A x \in Source : endpointIs'[x] # "bad" => turn'.from \notin source'[x].refs
    <3>1. turn.plan = {x \in Source : endpointIs[x] # "bad" /\ turn.from \in turn.sources[x].refs}
      BY <2>1 DEF Planned
    <3>2. \A x \in Source : endpointIs[x] # "bad" => turn.from \notin source'[x].refs
      BY <3>1, <2>3, <2>5
    <3> QED
      BY <3>2, <1>1, <1>6
  <2>7. ASSUME NEW x \in Source, Current(x)', Found(turn'.served[x], turn'.files)
        PROVE  loaded'[x] # NotServed /\ Found(loaded'[x], dataFile')
    <3>1. /\ endpointIs[x] = "on" /\ turn.served[x] = turn.sources[x].refs
          /\ \A n \in turn.served[x] : turn.files[n] # NoFile
      BY <2>1, <2>7, <1>6 DEF Current, Found, Planned
    <3>2. turn.sources[x].refs \subseteq DataName /\ turn.served[x] # NotServed
      BY <2>3, <3>1, DataAssumption DEF Sources
    <3>3. loaded'[x] = source'[x].refs \/ (x \notin turn.plan /\ loaded'[x] = turn.served[x])
      <4>1. CASE x \in Errors
        <5>1. x \notin turn.plan
          BY <2>2, <4>1 DEF RenameAccepted
        <5>2. loaded'[x] = loaded[x]
          BY <2>2, <4>1, Reloaded DEF DataInv
        <5>3. loaded[x] = turn.served[x]
          BY <2>1, <4>1 DEF Planned
        <5> QED
          BY <5>1, <5>2, <5>3
      <4>2. CASE x \notin Errors
        <5>1. loaded'[x] = Installed(x, loaded[x])
          BY <2>2, Reloaded DEF DataInv
        <5> QED
          BY <5>1, <4>2, <3>1, <1>1 DEF Installed
      <4> QED
        BY <4>1, <4>2
    <3>4. x \notin turn.plan => turn.from \notin turn.sources[x].refs
      BY <2>1, <3>1 DEF Planned
    <3>5. loaded'[x] \subseteq turn.served[x] \cup {turn.to} /\ turn.from \notin loaded'[x]
      BY <2>3, <2>5, <3>1, <3>3, <3>4
    <3>6. \A n \in loaded'[x] : dataFile'[n] # NoFile
      BY <2>3, <2>4, <3>1, <3>2, <3>5
    <3>7. loaded'[x] \in SUBSET DataName
      BY <2>3, <3>1, <3>2, <3>5
    <3> QED
      BY <3>6, <3>7, DataAssumption DEF Found
  <2> QED
    BY <2>3, <2>4, <2>6, <2>7, <1>6
<1>9. RenameUndone'
  BY <1>3, <1>4 DEF RenameUndone
<1> QED
  BY <1>1, <1>4, <1>5, <1>7, <1>8, <1>9 DEF DataInv, RenameAllOrNothing

LEMMA RestoreBackupKeeps ==
  ASSUME DataInv, NEW S, RestoreBackup(S) PROVE DataInv'
<1>1. PICK at :
        /\ turn.at = "failed" /\ S \subseteq Backups(turn)
        /\ dataFile' = [n \in DataName |-> IF n \in S THEN turn.files[n] ELSE dataFile[n]]
        /\ source' = [x \in Source |-> IF x \in S THEN turn.sources[x] ELSE source[x]]
        /\ at = IF S = Backups(turn) THEN "recovering" ELSE "unrestored"
        /\ turn' = [turn EXCEPT !.at = at]
        /\ UNCHANGED <<endpointIs, loaded, touched, done>>
  BY DEF RestoreBackup
<1>2. turn # NoTurn /\ DOMAIN turn = TurnFields
  BY <1>1 DEF DataInv, TurnTyped, NoTurn
<1>3. Steps(at) /\ at \in {"recovering", "unrestored"}
  BY <1>1, <1>2 DEF Steps, TurnFields
<1>4. TurnTyped' /\ turn'.at = at
  BY <1>3, StepTyped DEF DataInv, Steps
<1>5. dataFile' \in DataFilesOf /\ source' \in Sources
  BY <1>1, <1>2 DEF DataInv, DataTyped, TurnTyped, DataFilesOf, Sources
<1>6. DataTyped'
  BY <1>1, <1>5 DEF DataInv, DataTyped
<1>7. ASSUME ~touched PROVE Planned' /\ Staged'
  <2>1. Planned /\ Staged
    BY <1>2, <1>7 DEF DataInv
  <2>2. \A x \in Source : source'[x] \in {source[x], turn.sources[x]}
    BY <1>1
  <2>3. Planned'
    BY <2>1, <2>2, <1>1, <1>3, <1>5, StepPlanned DEF DataInv
  <2>4. /\ turn'.files = turn.files /\ turn'.sources = turn.sources
    BY <1>3 DEF Steps, TurnFields
  <2>5. ASSUME at = "recovering" PROVE dataFile' = turn.files /\ source' = turn.sources
    <3>1. S = {turn.from, turn.to} \cup turn.plan
      BY <2>5, <1>1 DEF Backups
    <3>2. \A n \in DataName : n \notin {turn.from, turn.to} => dataFile[n] = turn.files[n]
      BY <2>1, <1>1, <1>2 DEF Staged, TurnMoved, DataInv, TurnTyped, DataFilesOf
    <3>3. \A x \in Source : x \notin turn.plan => source[x] = turn.sources[x]
      BY <2>1 DEF Planned
    <3>4. turn.files = [n \in DataName |-> turn.files[n]] /\ turn.sources = [x \in Source |-> turn.sources[x]]
      BY <1>2 DEF DataInv, TurnTyped, DataFilesOf, Sources
    <3> QED
      BY <3>1, <3>2, <3>3, <3>4, <1>1
  <2>6. Staged'
    BY <2>4, <2>5, <1>3, <1>4 DEF Staged
  <2> QED
    BY <2>3, <2>6
<1> QED
  BY <1>1, <1>3, <1>4, <1>6, <1>7 DEF DataInv, RenameAllOrNothing, RenamedWhole, RenameUndone

LEMMA ReloadBackKeeps ==
  ASSUME DataInv, ReloadBack PROVE DataInv'
<1>1. PICK at :
        /\ turn.at = "recovering" /\ turn' = [turn EXCEPT !.at = at]
        /\ \/ /\ ReloadScripts
              /\ at = IF BackAsServed(turn.plan, turn.served) THEN "restored" ELSE "unrestored"
           \/ UNCHANGED loaded /\ at = "unrestored"
        /\ UNCHANGED <<dataFile, source, endpointIs, touched, done>>
  BY DEF ReloadBack
<1>2. turn # NoTurn /\ DOMAIN turn = TurnFields
  BY <1>1 DEF DataInv, TurnTyped, NoTurn
<1>3. Steps(at) /\ at \in {"restored", "unrestored"}
  BY <1>1, <1>2 DEF Steps, TurnFields
<1>4. TurnTyped' /\ turn'.at = at
  BY <1>3, StepTyped DEF DataInv, Steps
<1>5. DataTyped'
  BY <1>1, Reloaded DEF DataInv, DataTyped
<1>6. /\ turn'.files = turn.files /\ turn'.sources = turn.sources /\ turn'.served = turn.served
      /\ turn'.plan = turn.plan /\ turn.plan \subseteq Source
  BY <1>2, <1>3 DEF Steps, TurnFields, DataInv, TurnTyped
<1>7. ASSUME ~touched PROVE Planned' /\ Staged' /\ Errors' = Errors /\ Staged
  <2>1. Planned /\ Staged
    BY <1>2, <1>7 DEF DataInv
  <2>2. Planned' /\ Errors' = Errors
    BY <2>1, <1>1, <1>3, StepPlanned DEF DataInv, DataTyped
  <2> QED
    BY <2>1, <2>2, <1>1, <1>3, <1>4, <1>6 DEF Staged
<1>8. RenameUndone'
  <2> SUFFICES ASSUME turn'.at = "restored", ~touched'
               PROVE  /\ dataFile' = turn'.files /\ source' = turn'.sources
                      /\ \A x \in turn'.plan : loaded'[x] = turn'.served[x]
                                               \/ (x \notin Errors' /\ loaded'[x] = source'[x].refs)
    BY DEF RenameUndone
  <2>1. Staged /\ Errors' = Errors /\ Staged'
    BY <1>1, <1>7
  <2>2. ReloadScripts /\ BackAsServed(turn.plan, turn.served)
    BY <1>1, <1>3, <1>4
  <2>3. ASSUME NEW x \in turn.plan
        PROVE  loaded'[x] = turn.served[x] \/ (x \notin Errors /\ loaded'[x] = source[x].refs)
    <3>1. loaded'[x] = Installed(x, loaded[x])
      BY <2>2, <1>6, Reloaded DEF DataInv
    <3>2. /\ (Installed(x, loaded[x]) = NotServed) = (turn.served[x] = NotServed)
          /\ x \in Errors => Installed(x, loaded[x]) = turn.served[x]
      BY <2>2 DEF BackAsServed
    <3> QED
      BY <3>1, <3>2 DEF Installed
  <2> QED
    BY <2>1, <2>3, <1>1, <1>4, <1>6 DEF Staged
<1>9. RenamedWhole'
  BY <1>3, <1>4 DEF RenamedWhole
<1> QED
  BY <1>1, <1>4, <1>5, <1>7, <1>8, <1>9 DEF DataInv, RenameAllOrNothing

LEMMA DataStutters == ASSUME DataInv, UNCHANGED dataVars PROVE DataInv'
BY DEF dataVars, DataInv, DataTyped, TurnTyped, Planned, Staged, TurnRewrite, TurnMoved, RenameAllOrNothing,
   RenamedWhole, RenameUndone, Errors, Current, Found, Installed

LEMMA DataKept == DataInv /\ [DataStep]_dataVars => DataInv'
<1> SUFFICES ASSUME DataInv, DataStep \/ UNCHANGED dataVars PROVE DataInv'
  OBVIOUS
<1>1. CASE UNCHANGED dataVars
  BY <1>1, DataStutters
<1>2. ASSUME NEW n \in DataName, NEW c \in DataContent \cup {NoFile}, PutData(n, c) \/ EditData(n, c)
      PROVE  DataInv'
  <2>1. CASE PutData(n, c)
    BY <2>1, WrittenKeeps DEF PutData
  <2>2. CASE EditData(n, c)
    <3>1. dataFile' \in DataFilesOf /\ source' \in Sources /\ endpointIs' \in EndpointKinds
      BY <2>2 DEF EditData, DataInv, DataTyped, DataFilesOf
    <3> QED
      BY <2>2, <3>1, EditedKeeps DEF EditData
  <2> QED
    BY <1>2, <2>1, <2>2
<1>3. ASSUME NEW n \in DataName, DeleteData(n) PROVE DataInv'
  BY <1>3, WrittenKeeps DEF DeleteData
<1>4. ASSUME NEW x \in Source, NEW refs \in SUBSET DataName, NEW sound \in BOOLEAN, EditScript(x, refs, sound)
      PROVE  DataInv'
  <2>1. dataFile' \in DataFilesOf /\ source' \in Sources /\ endpointIs' \in EndpointKinds
    BY <1>4 DEF EditScript, DataInv, DataTyped, Sources
  <2> QED
    BY <1>4, <2>1, EditedKeeps DEF EditScript
<1>5. ASSUME NEW x \in Source, NEW is \in {"on", "off", "bad"}, EditEndpoint(x, is) PROVE DataInv'
  <2>1. dataFile' \in DataFilesOf /\ source' \in Sources /\ endpointIs' \in EndpointKinds
    BY <1>5 DEF EditEndpoint, DataInv, DataTyped, EndpointKinds
  <2> QED
    BY <1>5, <2>1, EditedKeeps DEF EditEndpoint
<1> QED
  BY <1>1, <1>2, <1>3, <1>4, <1>5, BeginKeeps, RewriteKeeps, MoveKeeps, RefusedKeeps, ReloadKeeps,
     ReloadBackKeeps, WatcherKeeps, RestoreBackupKeeps DEF DataStep

\* A rename that rewrites the sources that refer to the file happens as a whole or leaves no
\* trace, unless it says so or another program came between (RenameAllOrNothing).
THEOREM RenameAllOrNothingHolds == DataSpec => []RenameAllOrNothing
<1>1. DataInv => RenameAllOrNothing
  BY DEF DataInv
<1> QED
  BY <1>1, DataInit, DataKept, PTL DEF DataSpec

-------------------------------------------------------------------------------
(* The desktop application: versions that are ignored.                     *)

WorldFields ==
  {"left", "folders", "taken", "release", "latest", "ignored", "checking", "recent", "asked"}

\* Every version asked about was the latest once, and the latest is one that was published.
UpdatesInv ==
  /\ DOMAIN world = WorldFields
  /\ world.release \in Nat /\ world.latest \in Nat /\ world.latest <= world.release
  /\ \A v \in world.asked : v \in Nat /\ v <= world.latest
  /\ IgnoredStaysIgnored

LEMMA UpdatesInit == InitDesktop => UpdatesInv
BY DEF InitDesktop, UpdatesInv, WorldFields, IgnoredStaysIgnored

\* What a command pays leaves the versions alone.
LEMMA VersionsKept ==
  ASSUME UpdatesInv, NEW what,
         \/ world' = world \/ world' = Paid(what)
         \/ \E f : world' = [Paid(what) EXCEPT !.checking = f]
         \/ \E f : world' = [Paid(what) EXCEPT !.folders = f]
         \/ \E f : world' = [Paid(what) EXCEPT !.taken = f]
  PROVE  UpdatesInv'
<1>1. /\ DOMAIN world' = WorldFields
      /\ world'.release = world.release /\ world'.latest = world.latest
      /\ world'.ignored = world.ignored /\ world'.asked = world.asked
      BY DEF UpdatesInv, WorldFields, Paid
<1> QED
    BY <1>1 DEF UpdatesInv, IgnoredStaysIgnored

LEMMA UpdatesKept == ASSUME UpdatesInv, [DesktopStep]_desktopVars PROVE UpdatesInv'
<1>1. CASE UNCHANGED desktopVars
      BY <1>1, VersionsKept DEF desktopVars
<1>2. ASSUME NEW r \in Roots, ShowWorkspace(r) \/ FolderGone(r) PROVE UpdatesInv'
      BY <1>2, VersionsKept DEF ShowWorkspace, FolderGone
<1>3. ASSUME NEW r \in Roots, CloseWorkspace(r) \/ UpdateWorkspace(r) PROVE UpdatesInv'
      BY <1>3, VersionsKept DEF CloseWorkspace, UpdateWorkspace
<1>4. ASSUME NEW c, LaunchFails(c) \/ ShutDown(c) \/ \E p \in Ports : Launched(c, p) PROVE UpdatesInv'
      BY <1>4, VersionsKept DEF LaunchFails, ShutDown, Launched
<1>5. CASE ApplicationEnds \/ RestoreSession
      BY <1>5, VersionsKept DEF ApplicationEnds, RestoreSession
<1>6. ASSUME NEW p \in Ports, PortTaken(p) PROVE UpdatesInv'
      BY <1>6, VersionsKept DEF PortTaken
<1>7. ASSUME NEW a \in BOOLEAN, CheckUpdates(a) PROVE UpdatesInv'
      BY <1>7, VersionsKept DEF CheckUpdates
<1>8. CASE UpdatesChecked
  <2>1. CASE world' = [Recorded(world) EXCEPT !.checking = FALSE, !.recent = TRUE]
    <3>1. /\ DOMAIN world' = WorldFields
          /\ world'.release = world.release /\ world'.latest = world.release
          /\ world'.ignored = world.ignored /\ world'.asked = world.asked
          BY <2>1 DEF UpdatesInv, WorldFields, Recorded
    <3>2. world.release \in world.asked => world.release = world.latest
          BY DEF UpdatesInv
    <3> QED
        BY <3>1, <3>2 DEF UpdatesInv, IgnoredStaysIgnored
  <2> QED
      BY <1>8, <2>1, VersionsKept DEF UpdatesChecked
<1>9. CASE IgnoreUpdate
      BY <1>9 DEF IgnoreUpdate, UpdatesInv, WorldFields, IgnoredStaysIgnored
<1>10. CASE Published
  <2>1. /\ DOMAIN world' = WorldFields
        /\ world'.release = world.release + 1 /\ world'.latest = world.latest
        /\ world'.ignored = world.ignored /\ world'.asked = world.asked
        BY <1>10 DEF Published, Paid, UpdatesInv, WorldFields
  <2> QED
      BY <2>1 DEF UpdatesInv, IgnoredStaysIgnored
<1>11. CASE DayPasses
      BY <1>11 DEF DayPasses, UpdatesInv, WorldFields, IgnoredStaysIgnored
<1> QED
    BY <1>1, <1>2, <1>3, <1>4, <1>5, <1>6, <1>7, <1>8, <1>9, <1>10, <1>11 DEF DesktopStep

\* A version the user ignored stays ignored while it is the latest (IgnoredStaysIgnored).
THEOREM IgnoredHolds == DesktopSpec => []IgnoredStaysIgnored
<1>1. UpdatesInv => IgnoredStaysIgnored
      BY DEF UpdatesInv
<1> QED
    BY <1>1, UpdatesInit, UpdatesKept, PTL DEF DesktopSpec

-------------------------------------------------------------------------------
(* The desktop application: engines, pool, settings and session.           *)

AppFields == {"up", "engines", "pool", "active", "commands", "doubled", "unsaved", "failed"}
CommandFields == {"kind", "root", "at", "port", "id"}
Engine == [root : Roots, port : Ports]

\* A command that begins, and one under way.
NewKind(c) == DOMAIN c = CommandFields /\ c.kind \in {"show", "close", "update"} /\ c.root \in Roots
Command(c) == NewKind(c) /\ c.at \in {"launch", "shutdown"} /\ c.port \in Ports

WindowTyped(a, s) ==
  /\ DOMAIN a = AppFields
  /\ a.engines \subseteq Engine /\ a.pool \in [Roots -> Ports \cup {NoPort}]
  /\ \A c \in a.commands : Command(c)
  /\ s \in [Roots -> Ports]

\* The engine of an entry of the pool runs; one that runs is that of its entry or shuts
\* down, or its workspace had two launches at once.
EnginesKnown(a) ==
  /\ \A r \in Roots : a.pool[r] # NoPort => [root |-> r, port |-> a.pool[r]] \in a.engines
  /\ \A e \in a.engines :
       \/ e.root \in a.doubled
       \/ a.pool[e.root] = e.port
       \/ \E c \in a.commands : c.at = "shutdown" /\ c.root = e.root /\ c.port = e.port

\* What shuts down runs until then, out of the pool, for one command.
StopsKnown(a) ==
  /\ \A c \in a.commands : c.at = "shutdown" =>
       [root |-> c.root, port |-> c.port] \in a.engines /\ a.pool[c.root] # c.port
  /\ \A c, d \in a.commands :
       c.at = "shutdown" /\ d.at = "shutdown" /\ c.root = d.root /\ c.port = d.port => c = d

\* Unless its workspace had two launches at once: what is launched is not in the pool, has
\* one launch, with the port of the settings, and the entry of the pool is on that port.
LaunchesKnown(a, s) ==
  /\ \A c, d \in a.commands :
       c.at = "launch" /\ d.at = "launch" /\ c.root = d.root => c = d \/ c.root \in a.doubled
  /\ \A c \in a.commands :
       c.at = "launch" => c.root \in a.doubled \/ (a.pool[c.root] = NoPort /\ c.port = s[c.root])
  /\ \A r \in Roots : a.pool[r] # NoPort => r \in a.doubled \/ a.pool[r] = s[r]

WindowSound(a, s) == WindowTyped(a, s) /\ EnginesKnown(a) /\ StopsKnown(a) /\ LaunchesKnown(a, s)

\* The session has what is in the pool, and what leaves it until the session is written.
SessionFollows(a, written) ==
  /\ \A r \in Roots : a.pool[r] # NoPort => r \in written.open \/ r \in a.unsaved
  /\ \A r \in written.open :
       a.pool[r] # NoPort \/ r \in a.failed \/ \E c \in a.commands : c.root = r
  /\ a.active \in written.open => written.active = a.active

DesktopInv ==
  /\ WindowSound(app, settings) /\ session.open \subseteq Roots
  /\ app.up => SessionFollows(app, session)

LEMMA DesktopInit == InitDesktop => DesktopInv
<1> SUFFICES ASSUME InitDesktop PROVE DesktopInv
    OBVIOUS
<1>1. /\ DOMAIN app = AppFields /\ app.up = FALSE /\ app.engines = {} /\ app.commands = {}
      /\ app.pool = [r \in Roots |-> NoPort] /\ settings \in [Roots -> Ports] /\ session.open = {}
      BY DEF InitDesktop, NotRunning, AppFields
<1>2. WindowSound(app, settings)
      BY <1>1 DEF WindowSound, WindowTyped, EnginesKnown, StopsKnown, LaunchesKnown
<1> QED
    BY <1>1, <1>2 DEF DesktopInv

\* What the window does alone changes neither engines nor pool nor commands.
LEMMA SameWindow ==
  ASSUME NEW a, NEW b, NEW s, WindowSound(a, s), DOMAIN b = AppFields,
         b.engines = a.engines, b.pool = a.pool, b.commands = a.commands, b.doubled = a.doubled
  PROVE  WindowSound(b, s)
BY DEF WindowSound, WindowTyped, EnginesKnown, StopsKnown, LaunchesKnown

\* The session just written is that of the pool.
LEMMA PersistKeeps == ASSUME NEW a, WindowSound(a, settings'), PersistSession(a) PROVE DesktopInv'
<1>1. DOMAIN a = AppFields
      BY DEF WindowSound, WindowTyped
<1>2. /\ DOMAIN app' = AppFields /\ app'.active = a.active
      /\ app'.engines = a.engines /\ app'.pool = a.pool /\ app'.commands = a.commands
      /\ app'.doubled = a.doubled
      BY <1>1 DEF PersistSession, AppFields
<1>3. /\ session'.open = {r \in Roots : a.pool[r] # NoPort}
      /\ a.active \in session'.open => session'.active = a.active
      BY DEF PersistSession, Persisted, Pooled
<1>4. WindowSound(app', settings')
      BY <1>2, SameWindow
<1>5. SessionFollows(app', session')
      BY <1>2, <1>3 DEF SessionFollows
<1> QED
    BY <1>3, <1>4, <1>5 DEF DesktopInv

\* A workspace that is not in the pool is opened, by a command that begins or goes on.
LEMMA OpenFields ==
  ASSUME NEW a, DOMAIN a = AppFields, NEW c, NewKind(c), NEW port
  PROVE  \E d : /\ NewKind(d) /\ d.kind = c.kind /\ d.root = c.root /\ d.at = "launch" /\ d.port = port
                /\ DOMAIN Open(a, c, port) = AppFields
                /\ Open(a, c, port).up = a.up /\ Open(a, c, port).active = a.active
                /\ Open(a, c, port).engines = a.engines /\ Open(a, c, port).pool = a.pool
                /\ Open(a, c, port).commands = a.commands \cup {d}
                /\ Open(a, c, port).doubled = a.doubled \cup ({c.root} \cap Launching(a))
                /\ Open(a, c, port).unsaved = a.unsaved /\ Open(a, c, port).failed = a.failed
<1>1. PICK d : d = [c EXCEPT !.at = "launch", !.port = port]
      OBVIOUS
<1>2. NewKind(d) /\ d.kind = c.kind /\ d.root = c.root /\ d.at = "launch" /\ d.port = port
      BY <1>1 DEF NewKind, CommandFields
<1>3. Open(a, c, port) = [a EXCEPT !.commands = @ \cup {d},
                                   !.doubled = @ \cup ({c.root} \cap Launching(a))]
      BY <1>1 DEF Open
<1> QED
    BY <1>1, <1>2, <1>3 DEF AppFields

LEMMA OpenSound ==
  ASSUME NEW a, NEW s, NEW new, NEW c, NEW port \in Ports,
         WindowSound(a, s), NewKind(c), a.pool[c.root] = NoPort,
         new \in [Roots -> Ports], new[c.root] = port, \A q \in Roots : q # c.root => new[q] = s[q]
  PROVE  WindowSound(Open(a, c, port), new)
<1>0. DOMAIN a = AppFields /\ c.root \in Roots
      BY DEF WindowSound, WindowTyped, NewKind
<1>1. PICK b : b = Open(a, c, port)
      OBVIOUS
<1>2. PICK d : /\ NewKind(d) /\ d.root = c.root /\ d.at = "launch" /\ d.port = port
               /\ DOMAIN b = AppFields /\ b.engines = a.engines /\ b.pool = a.pool
               /\ b.commands = a.commands \cup {d}
               /\ b.doubled = a.doubled \cup ({c.root} \cap Launching(a))
      BY <1>0, <1>1, OpenFields
<1>3. \A q \in a.commands : q.at = "launch" /\ q.root = c.root => c.root \in b.doubled
      BY <1>2 DEF Launching
<1>4. WindowTyped(b, new)
      BY <1>2 DEF WindowSound, WindowTyped, Command
<1>5. EnginesKnown(b)
      BY <1>2 DEF WindowSound, EnginesKnown
<1>6. StopsKnown(b)
      BY <1>2 DEF WindowSound, StopsKnown
<1>7. LaunchesKnown(b, new)
  <2>1. \A q \in a.commands : q.root \in Roots
        BY DEF WindowSound, WindowTyped, Command, NewKind
  <2>2. \A p, q \in b.commands :
          p.at = "launch" /\ q.at = "launch" /\ p.root = q.root => p = q \/ p.root \in b.doubled
        BY <1>2, <1>3 DEF WindowSound, LaunchesKnown
  <2>3. \A q \in b.commands :
          q.at = "launch" => q.root \in b.doubled \/ (b.pool[q.root] = NoPort /\ q.port = new[q.root])
        BY <1>2, <1>3, <2>1 DEF WindowSound, LaunchesKnown
  <2>4. \A r \in Roots : b.pool[r] # NoPort => r \in b.doubled \/ b.pool[r] = new[r]
        BY <1>2 DEF WindowSound, LaunchesKnown
  <2> QED
      BY <2>2, <2>3, <2>4 DEF LaunchesKnown
<1> QED
    BY <1>1, <1>4, <1>5, <1>6, <1>7 DEF WindowSound

\* One that is in the pool leaves it, and its engine shuts down.
LEMMA CloseFields ==
  ASSUME NEW a, NEW s, WindowTyped(a, s), NEW c, NewKind(c)
  PROVE  \E d : /\ NewKind(d) /\ d.kind = c.kind /\ d.root = c.root /\ d.at = "shutdown"
                /\ d.port = a.pool[c.root]
                /\ DOMAIN Close(a, c) = AppFields
                /\ Close(a, c).up = a.up /\ Close(a, c).active = a.active
                /\ Close(a, c).engines = a.engines
                /\ Close(a, c).pool \in [Roots -> Ports \cup {NoPort}]
                /\ Close(a, c).pool[c.root] = NoPort
                /\ \A q \in Roots : q # c.root => Close(a, c).pool[q] = a.pool[q]
                /\ Close(a, c).commands = a.commands \cup {d}
                /\ Close(a, c).doubled = a.doubled
                /\ Close(a, c).unsaved = a.unsaved /\ Close(a, c).failed = a.failed
<1>1. PICK d : d = [c EXCEPT !.at = "shutdown", !.port = a.pool[c.root]]
      OBVIOUS
<1>2. NewKind(d) /\ d.kind = c.kind /\ d.root = c.root /\ d.at = "shutdown" /\ d.port = a.pool[c.root]
      BY <1>1 DEF NewKind, CommandFields
<1>3. PICK pool : pool = [a.pool EXCEPT ![c.root] = NoPort]
      OBVIOUS
<1>4. /\ pool \in [Roots -> Ports \cup {NoPort}] /\ pool[c.root] = NoPort
      /\ \A q \in Roots : q # c.root => pool[q] = a.pool[q]
      BY <1>3 DEF WindowTyped, NewKind
<1>5. Close(a, c) = [a EXCEPT !.commands = @ \cup {d}, !.pool = pool]
      BY <1>1, <1>3 DEF Close, WindowTyped, AppFields
<1> QED
    BY <1>2, <1>4, <1>5 DEF WindowTyped, AppFields

LEMMA CloseSound ==
  ASSUME NEW a, NEW s, NEW new, NEW c, WindowSound(a, s), NewKind(c), a.pool[c.root] # NoPort,
         new \in [Roots -> Ports], \A q \in Roots : q # c.root => new[q] = s[q]
  PROVE  WindowSound(Close(a, c), new)
<1>0. WindowTyped(a, s) /\ c.root \in Roots /\ a.pool[c.root] \in Ports /\ \A q \in a.commands : q.root \in Roots
      BY DEF WindowSound, WindowTyped, Command, NewKind
<1>1. PICK b : b = Close(a, c)
      OBVIOUS
<1>2. PICK d : /\ NewKind(d) /\ d.root = c.root /\ d.at = "shutdown" /\ d.port = a.pool[c.root]
               /\ DOMAIN b = AppFields /\ b.engines = a.engines
               /\ b.pool \in [Roots -> Ports \cup {NoPort}] /\ b.pool[c.root] = NoPort
               /\ \A q \in Roots : q # c.root => b.pool[q] = a.pool[q]
               /\ b.commands = a.commands \cup {d} /\ b.doubled = a.doubled
      BY <1>0, <1>1, CloseFields
<1>3. WindowTyped(b, new)
      BY <1>0, <1>2 DEF WindowTyped, Command
<1>4. EnginesKnown(b)
  <2>1. \A r \in Roots : b.pool[r] # NoPort => [root |-> r, port |-> b.pool[r]] \in b.engines
        BY <1>2 DEF WindowSound, EnginesKnown
  <2>2. ASSUME NEW e \in b.engines
        PROVE  \/ e.root \in b.doubled
               \/ b.pool[e.root] = e.port
               \/ \E q \in b.commands : q.at = "shutdown" /\ q.root = e.root /\ q.port = e.port
    <3>1. e.root \in Roots
          BY <1>0, <1>2, <2>2 DEF WindowTyped, Engine
    <3> QED
        BY <3>1, <1>2, <2>2 DEF WindowSound, EnginesKnown
  <2> QED
      BY <2>1, <2>2 DEF EnginesKnown
<1>5. StopsKnown(b)
  <2>1. [root |-> c.root, port |-> a.pool[c.root]] \in a.engines
        BY <1>0 DEF WindowSound, EnginesKnown
  <2>2. \A q \in a.commands : q.at = "shutdown" /\ q.root = c.root => q.port # a.pool[c.root]
        BY DEF WindowSound, StopsKnown
  <2>3. \A q \in b.commands : q.at = "shutdown" =>
          [root |-> q.root, port |-> q.port] \in b.engines /\ b.pool[q.root] # q.port
    <3>1. \A q \in b.commands : q.port \in Ports /\ q.port # NoPort
          BY <1>3, DesktopAssumption DEF WindowTyped, Command
    <3> QED
        BY <3>1, <1>0, <1>2, <2>1 DEF WindowSound, StopsKnown
  <2>4. \A p, q \in b.commands :
          p.at = "shutdown" /\ q.at = "shutdown" /\ p.root = q.root /\ p.port = q.port => p = q
        BY <1>2, <2>2 DEF WindowSound, StopsKnown
  <2> QED
      BY <2>3, <2>4 DEF StopsKnown
<1>6. LaunchesKnown(b, new)
  <2>1. \A p, q \in b.commands :
          p.at = "launch" /\ q.at = "launch" /\ p.root = q.root => p = q \/ p.root \in b.doubled
        BY <1>2 DEF WindowSound, LaunchesKnown
  <2>2. \A q \in b.commands :
          q.at = "launch" => q.root \in b.doubled \/ (b.pool[q.root] = NoPort /\ q.port = new[q.root])
        BY <1>0, <1>2 DEF WindowSound, LaunchesKnown
  <2>3. \A r \in Roots : b.pool[r] # NoPort => r \in b.doubled \/ b.pool[r] = new[r]
        BY <1>2 DEF WindowSound, LaunchesKnown
  <2> QED
      BY <2>1, <2>2, <2>3 DEF LaunchesKnown
<1> QED
    BY <1>1, <1>3, <1>4, <1>5, <1>6 DEF WindowSound

\* A command ends.
LEMMA OverFields ==
  ASSUME NEW a, DOMAIN a = AppFields, NEW c
  PROVE  /\ DOMAIN CommandOver(a, c) = AppFields
         /\ CommandOver(a, c).up = a.up /\ CommandOver(a, c).active = a.active
         /\ CommandOver(a, c).engines = a.engines /\ CommandOver(a, c).pool = a.pool
         /\ CommandOver(a, c).commands = a.commands \ {c}
         /\ CommandOver(a, c).doubled = a.doubled
         /\ CommandOver(a, c).unsaved = a.unsaved /\ CommandOver(a, c).failed = a.failed
BY DEF CommandOver, AppFields

\* A launch that fails leaves no engine.
LEMMA FailedSound ==
  ASSUME NEW a, NEW s, NEW c \in a.commands, WindowSound(a, s), c.at = "launch"
  PROVE  WindowSound(CommandOver(a, c), s)
<1>1. PICK b : b = CommandOver(a, c)
      OBVIOUS
<1>2. /\ DOMAIN b = AppFields /\ b.engines = a.engines /\ b.pool = a.pool
      /\ b.commands = a.commands \ {c} /\ b.doubled = a.doubled
      BY <1>1, OverFields DEF WindowSound, WindowTyped
<1>3. WindowTyped(b, s)
      BY <1>2 DEF WindowSound, WindowTyped
<1>4. EnginesKnown(b)
      BY <1>2 DEF WindowSound, EnginesKnown
<1>5. StopsKnown(b) /\ LaunchesKnown(b, s)
      BY <1>2 DEF WindowSound, StopsKnown, LaunchesKnown
<1> QED
    BY <1>1, <1>3, <1>4, <1>5 DEF WindowSound

\* An engine that is off is that of the command alone.
LEMMA OffFields ==
  ASSUME NEW a, DOMAIN a = AppFields, NEW c
  PROVE  /\ EngineOff(a, c).up = a.up /\ EngineOff(a, c).active = a.active
         /\ EngineOff(a, c).pool = a.pool /\ EngineOff(a, c).commands = a.commands \ {c}
         /\ EngineOff(a, c).unsaved = a.unsaved /\ EngineOff(a, c).failed = a.failed
BY OverFields DEF EngineOff, AppFields
LEMMA OffSound ==
  ASSUME NEW a, NEW s, NEW c \in a.commands, WindowSound(a, s), c.at = "shutdown"
  PROVE  WindowSound(EngineOff(a, c), s)
<1>0. DOMAIN a = AppFields /\ Command(c)
      BY DEF WindowSound, WindowTyped
<1>1. PICK off : off = EngineOff(a, c)
      OBVIOUS
<1>2. PICK b : b = CommandOver(a, c)
      OBVIOUS
<1>3. /\ DOMAIN b = AppFields /\ b.engines = a.engines /\ b.pool = a.pool
      /\ b.commands = a.commands \ {c} /\ b.doubled = a.doubled
      BY <1>0, <1>2, OverFields
<1>4. /\ DOMAIN off = AppFields
      /\ off.engines = a.engines \ {[root |-> c.root, port |-> c.port]}
      /\ off.pool = a.pool /\ off.commands = a.commands \ {c} /\ off.doubled = a.doubled
      BY <1>1, <1>2, <1>3 DEF EngineOff, AppFields
<1>5. WindowTyped(off, s)
      BY <1>4 DEF WindowSound, WindowTyped
<1>6. EnginesKnown(off)
  <2>1. \A r \in Roots : off.pool[r] # NoPort => [root |-> r, port |-> off.pool[r]] \in off.engines
    <3>1. a.pool[c.root] # c.port
          BY DEF WindowSound, StopsKnown
    <3>2. \A r \in Roots : a.pool[r] # NoPort => [root |-> r, port |-> a.pool[r]] \in a.engines
          BY DEF WindowSound, EnginesKnown
    <3>3. \A r : [root |-> r, port |-> a.pool[r]] = [root |-> c.root, port |-> c.port] => FALSE
      <4> SUFFICES ASSUME NEW r, [root |-> r, port |-> a.pool[r]] = [root |-> c.root, port |-> c.port]
                   PROVE  FALSE
          OBVIOUS
      <4>1. [root |-> r, port |-> a.pool[r]].root = r /\ [root |-> r, port |-> a.pool[r]].port = a.pool[r]
            OBVIOUS
      <4> QED
          BY <4>1, <3>1
    <3> QED
        BY <1>4, <3>2, <3>3
  <2>2. ASSUME NEW e \in off.engines
        PROVE  \/ e.root \in off.doubled
               \/ off.pool[e.root] = e.port
               \/ \E q \in off.commands : q.at = "shutdown" /\ q.root = e.root /\ q.port = e.port
    <3>1. e \in Engine /\ e \in a.engines /\ e # [root |-> c.root, port |-> c.port]
          BY <1>4, <2>2 DEF WindowSound, WindowTyped
    <3>2. ~(e.root = c.root /\ e.port = c.port)
          BY <3>1 DEF Engine
    <3> QED
        BY <3>1, <3>2, <1>4 DEF WindowSound, EnginesKnown
  <2> QED
      BY <2>1, <2>2 DEF EnginesKnown
<1>7. StopsKnown(off)
  <2>1. ASSUME NEW q \in off.commands, q.at = "shutdown"
        PROVE  [root |-> q.root, port |-> q.port] \in off.engines /\ off.pool[q.root] # q.port
    <3>1. q \in a.commands /\ q # c
          BY <1>4, <2>1
    <3>2. ~(q.root = c.root /\ q.port = c.port)
          BY <3>1, <2>1 DEF WindowSound, StopsKnown
    <3>3. [root |-> q.root, port |-> q.port] # [root |-> c.root, port |-> c.port]
          BY <3>2
    <3> QED
        BY <3>1, <3>3, <1>4, <2>1 DEF WindowSound, StopsKnown
  <2>2. \A p, q \in off.commands :
          p.at = "shutdown" /\ q.at = "shutdown" /\ p.root = q.root /\ p.port = q.port => p = q
        BY <1>4 DEF WindowSound, StopsKnown
  <2> QED
      BY <2>1, <2>2 DEF StopsKnown
<1>8. LaunchesKnown(off, s)
      BY <1>4 DEF WindowSound, LaunchesKnown
<1> QED
    BY <1>1, <1>5, <1>6, <1>7, <1>8 DEF WindowSound

\* An engine that starts is on a port of its own, the one of the settings.
LEMMA UpFields ==
  ASSUME NEW a, NEW s, WindowTyped(a, s), NEW c, c.root \in Roots, NEW p \in Ports
  PROVE  /\ DOMAIN EngineUp(a, c, p) = AppFields
         /\ EngineUp(a, c, p).up = a.up /\ EngineUp(a, c, p).active = a.active
         /\ EngineUp(a, c, p).engines = a.engines \cup {[root |-> c.root, port |-> p]}
         /\ EngineUp(a, c, p).pool \in [Roots -> Ports \cup {NoPort}]
         /\ EngineUp(a, c, p).pool[c.root] = p
         /\ \A q \in Roots : q # c.root => EngineUp(a, c, p).pool[q] = a.pool[q]
         /\ EngineUp(a, c, p).commands = a.commands \ {c}
         /\ EngineUp(a, c, p).doubled = a.doubled
         /\ EngineUp(a, c, p).unsaved = a.unsaved /\ EngineUp(a, c, p).failed = a.failed
<1>0. DOMAIN a = AppFields /\ a.pool \in [Roots -> Ports \cup {NoPort}]
      BY DEF WindowTyped
<1>1. PICK b : b = CommandOver(a, c)
      OBVIOUS
<1>2. /\ DOMAIN b = AppFields /\ b.up = a.up /\ b.active = a.active
      /\ b.engines = a.engines /\ b.pool = a.pool /\ b.commands = a.commands \ {c}
      /\ b.doubled = a.doubled /\ b.unsaved = a.unsaved /\ b.failed = a.failed
      BY <1>0, <1>1, OverFields
<1>3. PICK pool : pool = [a.pool EXCEPT ![c.root] = p]
      OBVIOUS
<1>4. /\ pool \in [Roots -> Ports \cup {NoPort}] /\ pool[c.root] = p
      /\ \A q \in Roots : q # c.root => pool[q] = a.pool[q]
      BY <1>0, <1>3
<1>5. EngineUp(a, c, p) = [b EXCEPT !.engines = a.engines \cup {[root |-> c.root, port |-> p]},
                                    !.pool = pool]
      BY <1>1, <1>2, <1>3 DEF AppFields, EngineUp
<1> QED
    BY <1>2, <1>4, <1>5 DEF AppFields
LEMMA LaunchedSound ==
  ASSUME NEW a, NEW s, NEW new, NEW c \in a.commands, NEW p \in Ports,
         WindowSound(a, s), c.at = "launch", \A e \in a.engines : e.port # p,
         new = IF p = c.port THEN s ELSE [s EXCEPT ![c.root] = p]
  PROVE  WindowSound(EngineUp(a, c, p), new)
<1>0. /\ WindowTyped(a, s) /\ Command(c) /\ c.root \in Roots /\ p # NoPort /\ s \in [Roots -> Ports]
      BY DesktopAssumption DEF WindowSound, WindowTyped, Command, NewKind
<1>1. PICK up : up = EngineUp(a, c, p)
      OBVIOUS
<1>6. /\ DOMAIN up = AppFields /\ up.pool \in [Roots -> Ports \cup {NoPort}]
      /\ up.pool[c.root] = p /\ \A q \in Roots : q # c.root => up.pool[q] = a.pool[q]
      /\ up.engines = a.engines \cup {[root |-> c.root, port |-> p]}
      /\ up.commands = a.commands \ {c} /\ up.doubled = a.doubled
      BY <1>0, <1>1, UpFields
<1>7. /\ new \in [Roots -> Ports] /\ \A q \in Roots : q # c.root => new[q] = s[q]
      /\ c.root \in a.doubled \/ new[c.root] = p
      BY <1>0 DEF WindowSound, LaunchesKnown
<1>8. \A q \in a.commands : q.root \in Roots
      BY DEF WindowSound, WindowTyped, Command, NewKind
<1>9. WindowTyped(up, new)
  <2>1. [root |-> c.root, port |-> p] \in Engine
        BY <1>0 DEF Engine
  <2> QED
      BY <2>1, <1>6, <1>7 DEF WindowSound, WindowTyped
<1>10. EnginesKnown(up)
  <2>1. \A r \in Roots : up.pool[r] # NoPort => [root |-> r, port |-> up.pool[r]] \in up.engines
        BY <1>6 DEF WindowSound, EnginesKnown
  <2>2. ASSUME NEW e \in up.engines
        PROVE  \/ e.root \in up.doubled
               \/ up.pool[e.root] = e.port
               \/ \E q \in up.commands : q.at = "shutdown" /\ q.root = e.root /\ q.port = e.port
    <3>1. CASE e = [root |-> c.root, port |-> p]
      <4>1. e.root = c.root /\ e.port = p
            BY <3>1
      <4> QED
          BY <4>1, <1>6
    <3>2. CASE e \in a.engines
      <4>1. e.root \in Roots /\ e.port # NoPort
            BY <3>2, DesktopAssumption DEF WindowSound, WindowTyped, Engine
      <4>2. a.pool[e.root] = e.port => e.root \in a.doubled \/ e.root # c.root
            BY <4>1 DEF WindowSound, LaunchesKnown
      <4> QED
          BY <3>2, <4>1, <4>2, <1>6 DEF WindowSound, EnginesKnown
    <3> QED
        BY <2>2, <3>1, <3>2, <1>6
  <2> QED
      BY <2>1, <2>2 DEF EnginesKnown
<1>11. StopsKnown(up)
  <2>1. ASSUME NEW q \in up.commands, q.at = "shutdown"
        PROVE  [root |-> q.root, port |-> q.port] \in up.engines /\ up.pool[q.root] # q.port
    <3>1. [root |-> q.root, port |-> q.port] \in a.engines /\ a.pool[q.root] # q.port
          BY <1>6, <2>1 DEF WindowSound, StopsKnown
    <3>2. q.port # p
          BY <3>1
    <3> QED
        BY <3>1, <3>2, <1>6, <1>8, <2>1
  <2>2. \A d, q \in up.commands :
          d.at = "shutdown" /\ q.at = "shutdown" /\ d.root = q.root /\ d.port = q.port => d = q
        BY <1>6 DEF WindowSound, StopsKnown
  <2> QED
      BY <2>1, <2>2 DEF StopsKnown
<1>12. LaunchesKnown(up, new)
  <2>1. \A d, q \in up.commands :
          d.at = "launch" /\ q.at = "launch" /\ d.root = q.root => d = q \/ d.root \in up.doubled
        BY <1>6 DEF WindowSound, LaunchesKnown
  <2>2. ASSUME NEW q \in up.commands, q.at = "launch"
        PROVE  q.root \in up.doubled \/ (up.pool[q.root] = NoPort /\ q.port = new[q.root])
    <3>1. q \in a.commands /\ q # c /\ q.root \in Roots
          BY <1>6, <1>8, <2>2
    <3>2. q.root = c.root => q.root \in a.doubled
          BY <3>1, <2>2 DEF WindowSound, LaunchesKnown
    <3> QED
        BY <3>1, <3>2, <1>6, <1>7, <2>2 DEF WindowSound, LaunchesKnown
  <2>3. \A r \in Roots : up.pool[r] # NoPort => r \in up.doubled \/ up.pool[r] = new[r]
        BY <1>6, <1>7 DEF WindowSound, LaunchesKnown
  <2> QED
      BY <2>1, <2>2, <2>3 DEF LaunchesKnown
<1> QED
    BY <1>1, <1>9, <1>10, <1>11, <1>12 DEF WindowSound

\* What is in the pool of a window is open.
LEMMA PooledIs == ASSUME NEW a, NEW r \in Roots PROVE r \in Pooled(a) <=> a.pool[r] # NoPort
BY DEF Pooled

\* A command that begins.
LEMMA NewCommandKind ==
  ASSUME NEW kind \in {"show", "close", "update"}, NEW r \in Roots
  PROVE  NewKind(NewCommand(kind, r)) /\ NewCommand(kind, r).root = r
BY DEF NewCommand, NewKind, CommandFields

\* The active workspace is another, or none, when the session is written.
LEMMA ShownKeeps ==
  ASSUME NEW a, NEW r, WindowSound(a, settings'), PersistSession([a EXCEPT !.active = r])
  PROVE  DesktopInv'
<1>1. PICK b : b = [a EXCEPT !.active = r]
      OBVIOUS
<1>2. /\ DOMAIN b = AppFields /\ b.engines = a.engines /\ b.pool = a.pool
      /\ b.commands = a.commands /\ b.doubled = a.doubled
      BY <1>1 DEF WindowSound, WindowTyped, AppFields
<1>3. WindowSound(b, settings')
      BY <1>2, SameWindow
<1> QED
    BY <1>1, <1>3, PersistKeeps
LEMMA ClosedKeeps ==
  ASSUME NEW a, NEW r, WindowSound(a, settings'), Closed(a, r) PROVE DesktopInv'
BY PersistKeeps, ShownKeeps DEF Closed

\* A workspace is opened, or leaves the pool, and the session is not written yet.
LEMMA OpenKeeps ==
  ASSUME DesktopInv, NEW c, NEW port \in Ports, NewKind(c), app.pool[c.root] = NoPort,
         app' = Open(app, c, port), UNCHANGED session,
         settings' \in [Roots -> Ports], settings'[c.root] = port,
         \A q \in Roots : q # c.root => settings'[q] = settings[q]
  PROVE  DesktopInv'
<1>1. WindowSound(app', settings')
  <2>1. WindowSound(app, settings)
        BY DEF DesktopInv
  <2> QED
      BY <2>1, OpenSound
<1>2. PICK d : /\ app'.up = app.up /\ app'.active = app.active /\ app'.pool = app.pool
               /\ d.root = c.root /\ app'.commands = app.commands \cup {d}
               /\ app'.unsaved = app.unsaved /\ app'.failed = app.failed
  <2>1. DOMAIN app = AppFields
        BY DEF DesktopInv, WindowSound, WindowTyped
  <2> QED
      BY <2>1, OpenFields
<1>3. app.up => SessionFollows(app', session)
      BY <1>2 DEF DesktopInv, SessionFollows
<1> QED
    BY <1>1, <1>2, <1>3 DEF DesktopInv
LEMMA CloseKeeps ==
  ASSUME DesktopInv, NEW c, NewKind(c), app.pool[c.root] # NoPort,
         app' = Close(app, c), UNCHANGED session,
         settings' \in [Roots -> Ports], \A q \in Roots : q # c.root => settings'[q] = settings[q]
  PROVE  DesktopInv'
<1>0. WindowSound(app, settings) /\ WindowTyped(app, settings) /\ session.open \subseteq Roots
      BY DEF DesktopInv, WindowSound
<1>1. WindowSound(app', settings')
      BY <1>0, CloseSound
<1>2. PICK d : /\ app'.up = app.up /\ app'.active = app.active /\ d.root = c.root
               /\ app'.pool[c.root] = NoPort /\ \A q \in Roots : q # c.root => app'.pool[q] = app.pool[q]
               /\ app'.commands = app.commands \cup {d}
               /\ app'.unsaved = app.unsaved /\ app'.failed = app.failed
      BY <1>0, CloseFields
<1>3. app.up => SessionFollows(app', session)
      BY <1>0, <1>2 DEF DesktopInv, SessionFollows
<1> QED
    BY <1>0, <1>1, <1>2, <1>3 DEF DesktopInv

LEMMA ShowKeeps == ASSUME DesktopInv, NEW r \in Roots, ShowWorkspace(r) PROVE DesktopInv'
<1>1. WindowSound(app, settings') /\ settings' = settings /\ settings \in [Roots -> Ports]
      BY DEF ShowWorkspace, DesktopInv, WindowSound, WindowTyped
<1>2. CASE PersistSession(app) \/ PersistSession([app EXCEPT !.active = r])
      BY <1>1, <1>2, PersistKeeps, ShownKeeps
<1>3. CASE r \notin Pooled(app) /\ app' = Open(app, NewCommand("show", r), settings[r]) /\ UNCHANGED session
  <2>1. PICK c : c = NewCommand("show", r)
        OBVIOUS
  <2>2. NewKind(c) /\ c.root = r /\ app.pool[r] = NoPort /\ settings[r] \in Ports
        BY <1>1, <1>3, <2>1, NewCommandKind, PooledIs
  <2> QED
      BY <1>1, <1>3, <2>1, <2>2, OpenKeeps
<1> QED
    BY <1>2, <1>3 DEF ShowWorkspace

LEMMA CloseWorkspaceKeeps == ASSUME DesktopInv, NEW r \in Roots, CloseWorkspace(r) PROVE DesktopInv'
<1>1. WindowSound(app, settings') /\ settings' = settings /\ settings \in [Roots -> Ports]
      BY DEF CloseWorkspace, DesktopInv, WindowSound, WindowTyped
<1>2. CASE r \in Pooled(app) /\ app' = Close(app, NewCommand("close", r)) /\ UNCHANGED session
  <2>1. PICK c : c = NewCommand("close", r)
        OBVIOUS
  <2>2. NewKind(c) /\ c.root = r /\ app.pool[r] # NoPort
        BY <1>2, <2>1, NewCommandKind, PooledIs
  <2> QED
      BY <1>1, <1>2, <2>1, <2>2, CloseKeeps
<1>3. CASE Closed(app, r)
      BY <1>1, <1>3, ClosedKeeps
<1> QED
    BY <1>2, <1>3 DEF CloseWorkspace

LEMMA UpdateWorkspaceKeeps == ASSUME DesktopInv, NEW r \in Roots, UpdateWorkspace(r) PROVE DesktopInv'
<1>1. settings \in [Roots -> Ports]
      BY DEF DesktopInv, WindowSound, WindowTyped
<1>2. PICK c : c = NewCommand("update", r)
      OBVIOUS
<1>3. NewKind(c) /\ c.root = r
      BY <1>2, NewCommandKind
<1>4. PICK port \in Ports :
        /\ settings' = [settings EXCEPT ![r] = port] /\ UNCHANGED session
        /\ app' = IF r \in Pooled(app) THEN Close(app, c) ELSE Open(app, c, port)
      BY <1>1, <1>2 DEF UpdateWorkspace
<1>5. /\ settings' \in [Roots -> Ports] /\ settings'[r] = port
      /\ \A q \in Roots : q # r => settings'[q] = settings[q]
      BY <1>1, <1>4
<1>6. CASE r \in Pooled(app)
  <2>1. app.pool[r] # NoPort
        BY <1>6, PooledIs
  <2> QED
      BY <2>1, <1>3, <1>4, <1>5, <1>6, CloseKeeps
<1>7. CASE r \notin Pooled(app)
  <2>1. app.pool[r] = NoPort
        BY <1>7, PooledIs
  <2> QED
      BY <2>1, <1>3, <1>4, <1>5, <1>7, OpenKeeps
<1> QED
    BY <1>6, <1>7

LEMMA LaunchFailsKeeps == ASSUME DesktopInv, NEW c \in app.commands, LaunchFails(c) PROVE DesktopInv'
<1>1. PICK b : b = CommandOver(app, c)
      OBVIOUS
<1>2. WindowSound(b, settings)
  <2>1. WindowSound(app, settings) /\ c.at = "launch"
        BY DEF DesktopInv, LaunchFails
  <2> QED
      BY <1>1, <2>1, FailedSound
<1>3. UNCHANGED settings
      BY DEF LaunchFails
<1>4. CASE PersistSession(b)
      BY <1>2, <1>3, <1>4, PersistKeeps
<1>5. CASE UNCHANGED session /\ app' = [b EXCEPT !.failed = @ \cup {c.root}]
  <2>1. /\ DOMAIN b = AppFields /\ b.up = app.up /\ b.active = app.active /\ b.pool = app.pool
        /\ b.commands = app.commands \ {c} /\ b.unsaved = app.unsaved /\ b.failed = app.failed
        BY <1>1, OverFields DEF DesktopInv, WindowSound, WindowTyped
  <2>2. /\ DOMAIN app' = AppFields /\ app'.up = app.up /\ app'.active = app.active /\ app'.pool = app.pool
        /\ app'.engines = b.engines /\ app'.commands = b.commands /\ app'.doubled = b.doubled
        /\ app'.unsaved = app.unsaved /\ app'.failed = app.failed \cup {c.root}
        BY <1>5, <2>1 DEF AppFields
  <2>3. WindowSound(app', settings')
        BY <1>2, <1>3, <2>1, <2>2, SameWindow
  <2>4. app.up => SessionFollows(app', session)
        BY <2>1, <2>2 DEF DesktopInv, SessionFollows
  <2> QED
      BY <1>5, <2>2, <2>3, <2>4 DEF DesktopInv
<1> QED
    BY <1>1, <1>4, <1>5 DEF LaunchFails

LEMMA LaunchedKeeps ==
  ASSUME DesktopInv, NEW c \in app.commands, NEW p \in Ports, Launched(c, p) PROVE DesktopInv'
<1>1. PICK up : up = EngineUp(app, c, p)
      OBVIOUS
<1>2. /\ c.at = "launch" /\ settings' = IF p = c.port THEN settings ELSE [settings EXCEPT ![c.root] = p]
      /\ \/ PersistSession([up EXCEPT !.active = c.root])
         \/ UNCHANGED session /\ app' = [up EXCEPT !.unsaved = @ \cup ({c.root} \ session.open)]
      /\ \A e \in app.engines : e.port # p
      BY <1>1 DEF Launched, PortFor, PortWritten, Busy
<1>3. /\ WindowSound(up, settings') /\ DOMAIN up = AppFields
      /\ up.up = app.up /\ up.active = app.active /\ up.commands = app.commands \ {c}
      /\ up.pool[c.root] = p /\ \A q \in Roots : q # c.root => up.pool[q] = app.pool[q]
      /\ up.unsaved = app.unsaved /\ up.failed = app.failed
  <2>1. WindowSound(app, settings) /\ WindowTyped(app, settings) /\ c.root \in Roots
        BY DEF DesktopInv, WindowSound, WindowTyped, Command, NewKind
  <2>2. c.at = "launch" /\ \A e \in app.engines : e.port # p
        BY <1>2
  <2>3. settings' = IF p = c.port THEN settings ELSE [settings EXCEPT ![c.root] = p]
        BY <1>2
  <2>4. WindowSound(up, settings')
        BY <1>1, <2>1, <2>2, <2>3, LaunchedSound
  <2> QED
      BY <1>1, <2>1, <2>4, UpFields
<1>4. CASE PersistSession([up EXCEPT !.active = c.root])
      BY <1>3, <1>4, ShownKeeps
<1>5. CASE UNCHANGED session /\ app' = [up EXCEPT !.unsaved = @ \cup ({c.root} \ session.open)]
  <2>1. /\ DOMAIN app' = AppFields /\ app'.up = up.up /\ app'.active = up.active /\ app'.pool = up.pool
        /\ app'.engines = up.engines /\ app'.commands = up.commands /\ app'.doubled = up.doubled
        /\ app'.unsaved = up.unsaved \cup ({c.root} \ session.open) /\ app'.failed = up.failed
        BY <1>3, <1>5 DEF AppFields
  <2>2. WindowSound(app', settings')
        BY <1>3, <2>1, SameWindow
  <2>3. p # NoPort /\ session.open \subseteq Roots
        BY DesktopAssumption DEF DesktopInv
  <2>4. app.up => SessionFollows(app', session)
        BY <1>3, <2>1, <2>3 DEF DesktopInv, SessionFollows
  <2> QED
      BY <1>3, <1>5, <2>1, <2>2, <2>3, <2>4 DEF DesktopInv
<1> QED
    BY <1>2, <1>4, <1>5

LEMMA ShutDownKeeps == ASSUME DesktopInv, NEW c \in app.commands, ShutDown(c) PROVE DesktopInv'
<1>1. PICK off : off = EngineOff(app, c)
      OBVIOUS
<1>2. /\ c.at = "shutdown" /\ UNCHANGED settings
      /\ \/ Closed(off, c.root)
         \/ /\ UNCHANGED session
            /\ app' = IF c.root \in Pooled(off) THEN off ELSE Open(off, c, settings[c.root])
      BY <1>1 DEF ShutDown
<1>3. /\ WindowSound(off, settings) /\ off.up = app.up /\ off.active = app.active /\ off.pool = app.pool
      /\ off.commands = app.commands \ {c} /\ off.unsaved = app.unsaved /\ off.failed = app.failed
  <2>1. WindowSound(app, settings) /\ c.at = "shutdown" /\ DOMAIN app = AppFields
        BY <1>2 DEF DesktopInv, WindowSound, WindowTyped
  <2>2. WindowSound(off, settings)
        BY <1>1, <2>1, OffSound
  <2> QED
      BY <1>1, <2>1, <2>2, OffFields
<1>4. NewKind(c) /\ c.root \in Roots /\ settings \in [Roots -> Ports] /\ DOMAIN off = AppFields
      BY <1>3 DEF DesktopInv, WindowSound, WindowTyped, Command, NewKind
<1>5. CASE Closed(off, c.root)
      BY <1>2, <1>3, <1>5, ClosedKeeps
<1>6. CASE UNCHANGED session /\ c.root \in Pooled(off) /\ app' = off
  <2>1. app.up => SessionFollows(app', session)
        BY <1>3, <1>4, <1>6, PooledIs DEF DesktopInv, SessionFollows
  <2> QED
      BY <1>2, <1>3, <1>6, <2>1 DEF DesktopInv
<1>7. CASE UNCHANGED session /\ c.root \notin Pooled(off) /\ app' = Open(off, c, settings[c.root])
  <2>1. off.pool[c.root] = NoPort /\ settings[c.root] \in Ports
        BY <1>4, <1>7, PooledIs
  <2>2. WindowSound(app', settings')
        BY <1>2, <1>3, <1>4, <1>7, <2>1, OpenSound
  <2>3. PICK d : /\ app'.up = off.up /\ app'.active = off.active /\ app'.pool = off.pool /\ d.root = c.root
                 /\ app'.commands = off.commands \cup {d}
                 /\ app'.unsaved = off.unsaved /\ app'.failed = off.failed
        BY <1>4, <1>7, OpenFields
  <2>4. app.up => SessionFollows(app', session)
        BY <1>3, <2>3 DEF DesktopInv, SessionFollows
  <2> QED
      BY <1>3, <1>7, <2>2, <2>3, <2>4 DEF DesktopInv
<1> QED
    BY <1>2, <1>5, <1>6, <1>7

LEMMA EndsKeeps == ASSUME DesktopInv, ApplicationEnds PROVE DesktopInv'
<1>1. UNCHANGED <<session, settings>> /\ app' = NotRunning
      BY DEF ApplicationEnds
<1>2. /\ DOMAIN app' = AppFields /\ app'.up = FALSE /\ app'.engines = {} /\ app'.commands = {}
      /\ app'.pool = [r \in Roots |-> NoPort]
      BY <1>1 DEF NotRunning, AppFields
<1>3. WindowSound(app', settings')
      BY <1>1, <1>2 DEF DesktopInv, WindowSound, WindowTyped, EnginesKnown, StopsKnown, LaunchesKnown
<1> QED
    BY <1>1, <1>2, <1>3 DEF DesktopInv

\* What is opened again at the start has its engines, its ports and its session.
LEMMA RestoreKeeps == ASSUME DesktopInv, RestoreSession PROVE DesktopInv'
<1> DEFINE Opened(r, opened, ports) ==
             [NotRunning EXCEPT !.up = TRUE, !.active = r,
                !.engines = {[root |-> q, port |-> ports[q]] : q \in opened},
                !.pool = [q \in Roots |-> IF q \in opened THEN ports[q] ELSE NoPort]]
<1>1. PICK opened \in SUBSET (session.open \cap world.folders) :
        \E ports \in [opened -> Ports \ world.taken] :
          /\ settings' = [q \in Roots |-> IF q \in opened THEN ports[q] ELSE settings[q]]
          /\ \E r \in IF opened = {} THEN {NoRoot}
                     ELSE IF session.active \in opened THEN {session.active} ELSE opened :
               PersistSession(Opened(r, opened, ports))
      BY ZenonT(30) DEF RestoreSession
<1>2. PICK ports \in [opened -> Ports \ world.taken] :
        /\ settings' = [q \in Roots |-> IF q \in opened THEN ports[q] ELSE settings[q]]
        /\ \E r : PersistSession(Opened(r, opened, ports))
      BY ZenonT(30), <1>1
<1>3. PICK a, r : a = Opened(r, opened, ports) /\ PersistSession(a)
      BY <1>2
<1>4. /\ DOMAIN a = AppFields /\ a.commands = {} /\ a.doubled = {}
      /\ a.engines = {[root |-> q, port |-> ports[q]] : q \in opened}
      /\ a.pool = [q \in Roots |-> IF q \in opened THEN ports[q] ELSE NoPort]
      BY <1>3 DEF NotRunning, AppFields
<1> HIDE DEF Opened
<1>5. /\ opened \subseteq Roots /\ settings \in [Roots -> Ports]
      /\ \A q \in opened : ports[q] \in Ports /\ ports[q] # NoPort
      BY <1>1, <1>2, DesktopAssumption DEF DesktopInv, WindowSound, WindowTyped
<1>6. WindowTyped(a, settings')
  <2>1. a.pool \in [Roots -> Ports \cup {NoPort}] /\ settings' \in [Roots -> Ports]
        BY <1>2, <1>4, <1>5
  <2>2. a.engines \subseteq Engine
        BY <1>4, <1>5 DEF Engine
  <2> QED
      BY <2>1, <2>2, <1>4 DEF WindowTyped
<1>7. EnginesKnown(a)
  <2>1. \A q \in Roots : a.pool[q] # NoPort => [root |-> q, port |-> a.pool[q]] \in a.engines
        BY <1>4
  <2>2. \A e \in a.engines : a.pool[e.root] = e.port
        BY <1>4, <1>5
  <2> QED
      BY <2>1, <2>2 DEF EnginesKnown
<1>8. StopsKnown(a) /\ LaunchesKnown(a, settings')
      BY <1>2, <1>4 DEF StopsKnown, LaunchesKnown
<1> QED
    BY <1>3, <1>6, <1>7, <1>8, PersistKeeps DEF WindowSound

LEMMA DesktopKept == ASSUME DesktopInv, [DesktopStep]_desktopVars PROVE DesktopInv'
<1>1. CASE UNCHANGED <<app, session, settings>>
      BY <1>1 DEF DesktopInv
<1>2. ASSUME NEW r \in Roots, FolderGone(r) PROVE DesktopInv'
      BY <1>1, <1>2 DEF FolderGone
<1>3. ASSUME NEW p \in Ports, PortTaken(p) PROVE DesktopInv'
      BY <1>1, <1>3 DEF PortTaken
<1>4. ASSUME NEW automatic \in BOOLEAN, CheckUpdates(automatic) PROVE DesktopInv'
      BY <1>1, <1>4 DEF CheckUpdates
<1>5. CASE UpdatesChecked \/ IgnoreUpdate \/ Published \/ DayPasses
      BY <1>1, <1>5 DEF UpdatesChecked, IgnoreUpdate, Published, DayPasses
<1>6. CASE UNCHANGED desktopVars
      BY <1>1, <1>6 DEF desktopVars
<1> QED
    BY <1>2, <1>3, <1>4, <1>5, <1>6, ShowKeeps, CloseWorkspaceKeeps, UpdateWorkspaceKeeps,
       LaunchFailsKeeps, LaunchedKeeps, ShutDownKeeps, EndsKeeps, RestoreKeeps DEF DesktopStep

\* The inductive invariant of the desktop application: what runs, what shuts down and what is
\* launched are those of the pool and of the commands, and the session follows the pool.
THEOREM DesktopHolds == DesktopSpec => []DesktopInv
BY DesktopInit, DesktopKept, PTL DEF DesktopSpec

\* At every moment, while any commands of any workspaces overlap and fail: engines, pool, ports of
\* the settings and saved session tell the same story (EnginesAndSession), but for a workspace
\* with two launches at once, which may have two engines, and for one that a restart brought back
\* when the session no longer named it.
THEOREM EnginesAndSessionHolds == DesktopSpec => []EnginesAndSession
<1>1. DesktopInv => EnginesAndSession
  <2> SUFFICES ASSUME DesktopInv PROVE EnginesInPool /\ SessionAsShown
      BY DEF EnginesAndSession
  <2>0. /\ app.engines \subseteq Engine /\ app.pool \in [Roots -> Ports \cup {NoPort}]
        /\ session.open \subseteq Roots
        BY DEF DesktopInv, WindowSound, WindowTyped
  <2>1. EnginesInPool
    <3>1. Pooled1(app) \subseteq app.engines
          BY DEF DesktopInv, WindowSound, EnginesKnown, Pooled1, Pooled
    <3>2. ASSUME NEW e \in app.engines
          PROVE  e.root \in app.doubled \/ e \in Pooled1(app) \cup Stopping(app)
      <4>1. e.root \in Roots /\ e.port # NoPort /\ e = [root |-> e.root, port |-> e.port]
            BY <2>0, <3>2, DesktopAssumption DEF Engine
      <4>2. app.pool[e.root] = e.port => e \in Pooled1(app)
            BY <4>1 DEF Pooled1, Pooled
      <4>3. \A c \in app.commands :
              c.at = "shutdown" /\ c.root = e.root /\ c.port = e.port => e \in Stopping(app)
            BY <4>1 DEF Stopping
      <4> QED
          BY <4>2, <4>3 DEF DesktopInv, WindowSound, EnginesKnown
    <3>3. \A r \in Pooled(app) \ app.doubled : app.pool[r] = settings[r]
          BY DEF DesktopInv, WindowSound, LaunchesKnown, Pooled
    <3> QED
        BY <3>1, <3>2, <3>3 DEF EnginesInPool
  <2>2. SessionAsShown
        BY <2>0 DEF DesktopInv, SessionFollows, SessionAsShown, Pooled
  <2> QED
      BY <2>1, <2>2
<1> QED
    BY <1>1, DesktopHolds, PTL

-------------------------------------------------------------------------------
(* What filter returns; the collections and their orders are filtered.     *)

\* The order of the naturals.
NatLess == {p \in Nat \X Nat : p[1] < p[2]}

\* A set of naturals has a least member.
LEMMA SmallestNat ==
  ASSUME NEW X \in SUBSET Nat, X # {}
  PROVE  \E x \in X : \A y \in X : x <= y
<1>1. IsWellFoundedOn(NatLess, Nat)
      BY NatLessThanWellFounded DEF OpToRel, NatLess
<1>2. PICK x \in X : \A y \in X : ~(<<y, x>> \in NatLess)
      BY <1>1, WFMin
<1>3. ASSUME NEW y \in X PROVE x <= y
  <2>1. x \in Nat /\ y \in Nat /\ <<y, x>> \notin NatLess
        BY <1>2
  <2>2. QED
        BY <2>1 DEF NatLess
<1>4. QED
      BY <1>3

\* it computes filter on the first m members.
KeptBy(it, s, P, m) ==
  it = [n \in 0..m |-> IF n = 0 THEN <<>>
                       ELSE IF n \in P THEN Append(it[n - 1], s[n]) ELSE it[n - 1]]

\* filter is what one such computation says of the whole.
LEMMA KeptDef ==
  ASSUME NEW s, NEW P PROVE Kept(s, P) = (CHOOSE it : KeptBy(it, s, P, Len(s)))[Len(s)]
BY DEF Kept, KeptBy

\* A computation goes one member further.
LEMMA KeptFurther ==
  ASSUME NEW s, NEW P, NEW k \in Nat, NEW it, KeptBy(it, s, P, k)
  PROVE  \E new : KeptBy(new, s, P, k + 1)
<1> DEFINE new == [n \in 0..(k + 1) |->
                     IF n <= k THEN it[n]
                     ELSE IF n \in P THEN Append(it[n - 1], s[n]) ELSE it[n - 1]]
<1>1. \A n \in 0..k : it[n] = IF n = 0 THEN <<>>
                              ELSE IF n \in P THEN Append(it[n - 1], s[n]) ELSE it[n - 1]
      BY DEF KeptBy
<1>2. \A n \in 0..k : new[n] = it[n]
      OBVIOUS
<1>3. new[k + 1] = IF k + 1 \in P THEN Append(it[k], s[k + 1]) ELSE it[k]
      OBVIOUS
<1>4. new = [n \in 0..(k + 1) |-> new[n]]
      OBVIOUS
<1> HIDE DEF new
<1>5. ASSUME NEW n \in 0..(k + 1)
      PROVE  new[n] = IF n = 0 THEN <<>>
                      ELSE IF n \in P THEN Append(new[n - 1], s[n]) ELSE new[n - 1]
  <2>1. CASE n = 0
        BY <1>1, <1>2, <2>1
  <2>2. CASE n \in 1..k
    <3>1. n \in 0..k /\ n - 1 \in 0..k /\ n # 0
          BY <2>2
    <3>2. QED
          BY <1>1, <1>2, <3>1
  <2>3. CASE n = k + 1
        BY <1>2, <1>3, <2>3
  <2>4. QED
        BY <2>1, <2>2, <2>3
<1>6. KeptBy(new, s, P, k + 1)
      BY <1>4, <1>5 DEF KeptBy
<1>7. QED
      BY <1>6

\* Every sequence has one.
LEMMA KeptExists ==
  ASSUME NEW s, NEW P, NEW m \in Nat
  PROVE  \E it : KeptBy(it, s, P, m)
<1> DEFINE X == {k \in Nat : ~\E it : KeptBy(it, s, P, k)}
<1>1. SUFFICES ASSUME X # {} PROVE FALSE
      OBVIOUS
<1>2. PICK k \in X : \A j \in X : k <= j
  <2>1. X \in SUBSET Nat
        OBVIOUS
  <2>2. QED
    <3> HIDE DEF X
    <3>1. QED
          BY <1>1, <2>1, SmallestNat
<1>3. k \in Nat /\ ~\E it : KeptBy(it, s, P, k)
      BY <1>2
<1>4. CASE k = 0
  <2>1. KeptBy([n \in 0..0 |-> <<>>], s, P, 0)
        BY DEF KeptBy
  <2>2. QED
        BY <1>3, <1>4, <2>1
<1>5. CASE k # 0
  <2>1. k - 1 \in Nat /\ k - 1 \notin X
        BY <1>2, <1>3, <1>5
  <2>2. PICK it : KeptBy(it, s, P, k - 1)
        BY <2>1
  <2> HIDE DEF X
  <2>3. \E new : KeptBy(new, s, P, (k - 1) + 1)
        BY <2>1, <2>2, KeptFurther
  <2>4. (k - 1) + 1 = k
        BY <1>3
  <2>5. QED
        BY <1>3, <2>3, <2>4
<1>6. QED
      BY <1>4, <1>5

\* at enumerates a set of positions in their order.
Enumerates(at, m, P) ==
  /\ at \in [1..m -> P]
  /\ \A i, j \in 1..m : i < j => at[i] < at[j]
  /\ \A p \in P : \E i \in 1..m : at[i] = p

\* filter has gone k members far, and kept those at the positions asked.
KeptSoFar(value, s, P, k) ==
  \E m \in Nat : \E at : /\ Enumerates(at, m, P \cap (1..k))
                         /\ value = [i \in 1..m |-> s[at[i]]]

\* A later position goes at the end.
LEMMA EnumeratesMore ==
  ASSUME NEW m \in Nat, NEW at, NEW Q \in SUBSET Nat, Enumerates(at, m, Q),
         NEW k \in Nat, \A p \in Q : p < k
  PROVE  Enumerates([i \in 1..(m + 1) |-> IF i = m + 1 THEN k ELSE at[i]], m + 1, Q \cup {k})
<1> DEFINE new == [i \in 1..(m + 1) |-> IF i = m + 1 THEN k ELSE at[i]]
<1>1. \A i \in 1..m : at[i] \in Q
      BY DEF Enumerates
<1>2. \A i \in 1..m : new[i] = at[i]
      OBVIOUS
<1>3. \A i \in 1..m : new[i] = at[i] /\ at[i] \in Q /\ at[i] < k
      BY <1>1, <1>2
<1>4. new[m + 1] = k
      OBVIOUS
<1>5. new \in [1..(m + 1) -> Q \cup {k}]
  <2>1. \A i \in 1..(m + 1) : (IF i = m + 1 THEN k ELSE at[i]) \in Q \cup {k}
        BY <1>1
  <2>2. QED
        BY <2>1
<1> HIDE DEF new
<1>6. ASSUME NEW i \in 1..(m + 1), NEW j \in 1..(m + 1), i < j PROVE new[i] < new[j]
  <2>1. i \in 1..m
        BY <1>6
  <2>2. CASE j = m + 1
        BY <1>3, <1>4, <2>1, <2>2
  <2>3. CASE j \in 1..m
        BY <1>3, <1>6, <2>1, <2>3 DEF Enumerates
  <2>4. QED
        BY <2>2, <2>3
<1>7. ASSUME NEW p \in Q \cup {k} PROVE \E i \in 1..(m + 1) : new[i] = p
  <2>1. CASE p = k
        BY <1>4, <2>1
  <2>2. CASE p \in Q
    <3>1. PICK i \in 1..m : at[i] = p
          BY <2>2 DEF Enumerates
    <3>2. i \in 1..(m + 1) /\ new[i] = p
          BY <1>3, <3>1
    <3>3. QED
          BY <3>2
  <2>3. QED
        BY <2>1, <2>2
<1>8. Enumerates(new, m + 1, Q \cup {k})
      BY <1>5, <1>6, <1>7 DEF Enumerates
<1>9. QED
      BY <1>8 DEF new

\* One member further.
LEMMA KeptStep ==
  ASSUME NEW s, NEW P, NEW k \in Nat \ {0}, NEW value, KeptSoFar(value, s, P, k - 1)
  PROVE  KeptSoFar(IF k \in P THEN Append(value, s[k]) ELSE value, s, P, k)
<1>1. PICK m \in Nat : \E at : /\ Enumerates(at, m, P \cap (1..(k - 1)))
                               /\ value = [i \in 1..m |-> s[at[i]]]
      BY DEF KeptSoFar
<1>2. PICK at : /\ Enumerates(at, m, P \cap (1..(k - 1)))
                /\ value = [i \in 1..m |-> s[at[i]]]
      BY <1>1
<1>3. CASE k \notin P
  <2>1. P \cap (1..k) = P \cap (1..(k - 1))
        BY <1>3
  <2>2. QED
        BY <1>2, <1>3, <2>1 DEF KeptSoFar
<1>4. CASE k \in P
  <2> DEFINE Q == P \cap (1..(k - 1))
             new == [i \in 1..(m + 1) |-> IF i = m + 1 THEN k ELSE at[i]]
  <2>1. P \cap (1..k) = Q \cup {k}
        BY <1>4
  <2>2. Q \in SUBSET Nat /\ \A p \in Q : p < k
        OBVIOUS
  <2>3. Enumerates(new, m + 1, Q \cup {k})
    <3> HIDE DEF Q
    <3>1. QED
          BY <1>2, <2>2, EnumeratesMore DEF Q
  <2>4. Append(value, s[k]) = [i \in 1..(m + 1) |-> s[new[i]]]
    <3>1. Len(value) = m /\ \A i \in 1..m : value[i] = s[at[i]]
          BY <1>2
    <3>2. Append(value, s[k]) = [i \in 1..(m + 1) |-> IF i = m + 1 THEN s[k] ELSE value[i]]
          BY <1>2, <3>1
    <3>3. \A i \in 1..(m + 1) : (IF i = m + 1 THEN s[k] ELSE value[i]) = s[new[i]]
          BY <3>1
    <3>4. QED
          BY <3>2, <3>3
  <2>5. QED
    <3> HIDE DEF Q, new
    <3>1. m + 1 \in Nat
          OBVIOUS
    <3>2. QED
          BY <1>4, <2>1, <2>3, <2>4, <3>1 DEF KeptSoFar
<1>5. QED
      BY <1>3, <1>4

\* What filter returns: the members at the positions asked, each once and in their order.
LEMMA KeptAt ==
  ASSUME NEW S, NEW s \in Seq(S), NEW P \in SUBSET (1..Len(s))
  PROVE  \E m \in Nat : \E at : /\ Enumerates(at, m, P)
                                /\ Kept(s, P) = [i \in 1..m |-> s[at[i]]]
<1> DEFINE it == CHOOSE i : KeptBy(i, s, P, Len(s))
           X == {k \in 0..Len(s) : ~KeptSoFar(it[k], s, P, k)}
<1>1. Len(s) \in Nat
      OBVIOUS
<1>2. KeptBy(it, s, P, Len(s))
      BY <1>1, KeptExists
<1>3. Kept(s, P) = it[Len(s)]
      BY KeptDef
<1> HIDE DEF it
<1>4. X = {}
  <2>1. SUFFICES ASSUME X # {} PROVE FALSE
        OBVIOUS
  <2>2. PICK k \in X : \A j \in X : k <= j
    <3>1. X \in SUBSET Nat
          BY <1>1
    <3>2. QED
      <4> HIDE DEF X
      <4>1. QED
            BY <2>1, <3>1, SmallestNat
  <2>3. k \in 0..Len(s) /\ ~KeptSoFar(it[k], s, P, k)
        BY <2>2
  <2>4. CASE k = 0
    <3>1. it[0] = <<>>
          BY <1>1, <1>2 DEF KeptBy
    <3>2. Enumerates(<<>>, 0, P \cap (1..0)) /\ <<>> = [i \in 1..0 |-> s[(<<>>)[i]]]
          BY DEF Enumerates
    <3>3. KeptSoFar(<<>>, s, P, 0)
      <4>1. 0 \in Nat /\ \E at : /\ Enumerates(at, 0, P \cap (1..0))
                                 /\ <<>> = [i \in 1..0 |-> s[at[i]]]
            BY <3>2
      <4> HIDE DEF X
      <4>2. QED
            BY <4>1 DEF KeptSoFar
    <3>4. QED
          BY <2>3, <2>4, <3>1, <3>3
  <2>5. CASE k # 0
    <3>1. k - 1 \in 0..Len(s) /\ k - 1 \notin X /\ k \in Nat \ {0}
          BY <1>1, <2>2, <2>3, <2>5
    <3>2. KeptSoFar(it[k - 1], s, P, k - 1)
          BY <3>1
    <3>3. it[k] = IF k \in P THEN Append(it[k - 1], s[k]) ELSE it[k - 1]
          BY <1>1, <1>2, <2>3, <2>5 DEF KeptBy
    <3> HIDE DEF X
    <3>4. QED
          BY <2>3, <3>1, <3>2, <3>3, KeptStep
  <2>6. QED
        BY <2>4, <2>5
<1>5. KeptSoFar(it[Len(s)], s, P, Len(s))
      BY <1>1, <1>4
<1>6. P \cap (1..Len(s)) = P
      OBVIOUS
<1>7. QED
      BY <1>3, <1>5, <1>6 DEF KeptSoFar

-------------------------------------------------------------------------------
(* What filtering and joining do to the members of a sequence.             *)

\* A sequence, whatever its members.
Listed(s) == s \in Seq(ToSet(s))

LEMMA ListedIs ==
  ASSUME NEW s
  PROVE  Listed(s) <=> \E n \in Nat : /\ s = [i \in 1..n |-> s[i]]
                                      /\ Len(s) = n /\ DOMAIN s = 1..n
<1>1. ASSUME Listed(s) PROVE \E n \in Nat : s = [i \in 1..n |-> s[i]] /\ Len(s) = n /\ DOMAIN s = 1..n
      BY <1>1 DEF Listed
<1>2. ASSUME NEW n \in Nat, s = [i \in 1..n |-> s[i]] PROVE Listed(s)
  <2>1. DOMAIN s = 1..n
        BY <1>2
  <2>2. \A i \in 1..n : s[i] \in ToSet(s)
        BY <2>1 DEF ToSet
  <2>3. [i \in 1..n |-> s[i]] \in Seq(ToSet(s))
        BY <2>2
  <2> QED  BY <1>2, <2>3 DEF Listed
<1> QED  BY <1>1, <1>2

LEMMA SeqIsListed ==
  ASSUME NEW S, NEW s \in Seq(S)
  PROVE  Listed(s) /\ ToSet(s) \subseteq S /\ ToSet(s) = {s[i] : i \in 1..Len(s)}
<1>1. DOMAIN s = 1..Len(s) /\ Len(s) \in Nat /\ \A i \in 1..Len(s) : s[i] \in S
      OBVIOUS
<1>2. s = [i \in 1..Len(s) |-> s[i]]
      OBVIOUS
<1> QED  BY <1>1, <1>2, ListedIs DEF ToSet

LEMMA KeptLaws ==
  ASSUME NEW s, Listed(s), NEW P \in SUBSET (1..Len(s))
  PROVE  /\ Listed(Kept(s, P))
         /\ ToSet(Kept(s, P)) = {s[i] : i \in P}
         /\ (\A i, j \in P : s[i] = s[j] => i = j) => IsInjective(Kept(s, P))
<1>1. PICK m \in Nat : \E at : /\ Enumerates(at, m, P)
                               /\ Kept(s, P) = [i \in 1..m |-> s[at[i]]]
  <2>1. s \in Seq(ToSet(s))
        BY DEF Listed
  <2> QED  BY <2>1, KeptAt
<1>2. PICK at : /\ Enumerates(at, m, P)
                /\ Kept(s, P) = [i \in 1..m |-> s[at[i]]]
      BY <1>1
<1>3. DOMAIN Kept(s, P) = 1..m /\ \A i \in 1..m : Kept(s, P)[i] = s[at[i]]
      BY <1>2
<1>4. Listed(Kept(s, P))
  <2>1. Kept(s, P) = [i \in 1..m |-> Kept(s, P)[i]]
        BY <1>2, <1>3
  <2>2. Len(Kept(s, P)) = m
        BY <1>2
  <2> QED  BY <1>3, <2>1, <2>2, ListedIs
<1>5. ToSet(Kept(s, P)) = {s[i] : i \in P}
  <2>1. ToSet(Kept(s, P)) = {s[at[i]] : i \in 1..m}
        BY <1>3 DEF ToSet
  <2>2. \A i \in 1..m : at[i] \in P
        BY <1>2 DEF Enumerates
  <2>3. \A p \in P : \E i \in 1..m : at[i] = p
        BY <1>2 DEF Enumerates
  <2> QED  BY <2>1, <2>2, <2>3
<1>6. ASSUME \A i, j \in P : s[i] = s[j] => i = j
      PROVE  IsInjective(Kept(s, P))
  <2>1. \A i \in 1..m : at[i] \in P
        BY <1>2 DEF Enumerates
  <2>2. \A i, j \in 1..m : at[i] = at[j] => i = j
    <3>1. \A i, j \in 1..m : i < j => at[i] < at[j]
          BY <1>2 DEF Enumerates
    <3>2. \A i \in 1..m : at[i] \in Nat
      <4>1. \A p \in P : p \in Nat
            OBVIOUS
      <4> QED  BY <2>1, <4>1
    <3> QED  BY <3>1, <3>2
  <2>3. ASSUME NEW i \in 1..m, NEW j \in 1..m, Kept(s, P)[i] = Kept(s, P)[j] PROVE i = j
    <3>1. s[at[i]] = s[at[j]] /\ at[i] \in P /\ at[j] \in P
          BY <1>3, <2>1, <2>3
    <3>2. at[i] = at[j]
          BY <1>6, <3>1
    <3> QED  BY <2>2, <3>2
  <2> QED  BY <1>3, <2>3 DEF IsInjective
<1> QED  BY <1>4, <1>5, <1>6

\* What Only returns.
LEMMA OnlyLaws ==
  ASSUME NEW s, Listed(s), NEW T
  PROVE  /\ Listed(Only(s, T))
         /\ ToSet(Only(s, T)) = ToSet(s) \cap T
         /\ IsInjective(s) => IsInjective(Only(s, T))
<1> DEFINE P == {i \in DOMAIN s : s[i] \in T}
<1>1. CASE \A i \in DOMAIN s : s[i] \in T
  <2>1. Only(s, T) = s
        BY <1>1 DEF Only
  <2> QED  BY <1>1, <2>1 DEF ToSet
<1>2. CASE ~\A i \in DOMAIN s : s[i] \in T
  <2>1. Only(s, T) = Kept(s, P)
        BY <1>2 DEF Only
  <2>2. P \in SUBSET (1..Len(s))
        BY ListedIs
  <2>3. IsInjective(s) => \A i, j \in P : s[i] = s[j] => i = j
        BY DEF IsInjective
  <2>4. {s[i] : i \in P} = ToSet(s) \cap T
        BY DEF ToSet
  <2> HIDE DEF P
  <2> QED  BY <2>1, <2>2, <2>3, <2>4, KeptLaws
<1> QED  BY <1>1, <1>2

\* What Firsts returns.
LEMMA FirstsLaws ==
  ASSUME NEW s, Listed(s)
  PROVE  /\ Listed(Firsts(s)) /\ ToSet(Firsts(s)) = ToSet(s) /\ IsInjective(Firsts(s))
<1> DEFINE P == {i \in DOMAIN s : \A j \in 1..(i - 1) : s[j] # s[i]}
<1>1. DOMAIN s = 1..Len(s) /\ Len(s) \in Nat
      BY ListedIs
<1>2. P \in SUBSET (1..Len(s))
      BY <1>1
<1>3. \A i, j \in P : s[i] = s[j] => i = j
  <2> SUFFICES ASSUME NEW i \in P, NEW j \in P, s[i] = s[j], i # j PROVE FALSE
      OBVIOUS
  <2>1. i \in Nat /\ j \in Nat /\ i >= 1 /\ j >= 1
        BY <1>1
  <2>2. i \in 1..(j - 1) \/ j \in 1..(i - 1)
        BY <2>1
  <2> QED  BY <2>2
<1>4. {s[i] : i \in P} = ToSet(s)
  <2>1. ASSUME NEW x \in ToSet(s) PROVE \E i \in P : s[i] = x
    <3> DEFINE X == {i \in DOMAIN s : s[i] = x}
    <3>1. X \in SUBSET Nat /\ X # {}
          BY <1>1 DEF ToSet
    <3>2. PICK i \in X : \A j \in X : i <= j
      <4> HIDE DEF X
      <4> QED  BY <3>1, SmallestNat
    <3>3. ASSUME NEW j \in 1..(i - 1), s[j] = s[i] PROVE FALSE
      <4>1. j \in DOMAIN s /\ j < i
            BY <1>1
      <4>2. j \in X
            BY <3>3, <4>1
      <4> QED  BY <3>1, <3>2, <4>1, <4>2
    <3> QED  BY <3>2, <3>3
  <2> QED  BY <2>1 DEF ToSet
<1> HIDE DEF P
<1>5. Firsts(s) = Kept(s, P)
      BY DEF Firsts, P
<1>6. Listed(Kept(s, P)) /\ ToSet(Kept(s, P)) = {s[i] : i \in P} /\ IsInjective(Kept(s, P))
      BY <1>2, <1>3, KeptLaws
<1> QED  BY <1>4, <1>5, <1>6

\* One after the other.
LEMMA JoinLaws ==
  ASSUME NEW s, NEW z, Listed(s), Listed(z)
  PROVE  /\ Listed(s \o z) /\ ToSet(s \o z) = ToSet(s) \cup ToSet(z)
         /\ Len(s \o z) = Len(s) + Len(z)
         /\ \A i \in 1..Len(s) : (s \o z)[i] = s[i]
         /\ \A i \in 1..Len(z) : (s \o z)[Len(s) + i] = z[i]
         /\ IsInjective(s) /\ IsInjective(z) /\ ToSet(s) \cap ToSet(z) = {} => IsInjective(s \o z)
<1> DEFINE S == ToSet(s) \cup ToSet(z)
           w == s \o z
           m == Len(s)
           n == Len(z)
<1>1. /\ DOMAIN s = 1..m /\ m \in Nat /\ \A i \in 1..m : s[i] \in ToSet(s)
      /\ DOMAIN z = 1..n /\ n \in Nat /\ \A i \in 1..n : z[i] \in ToSet(z)
      BY ListedIs DEF ToSet
<1>2. s \in Seq(S) /\ z \in Seq(S)
  <2>1. s = [i \in 1..m |-> s[i]] /\ z = [i \in 1..n |-> z[i]]
        BY ListedIs
  <2> QED  BY <1>1, <2>1
<1>3. /\ w \in Seq(S) /\ Len(w) = m + n /\ DOMAIN w = 1..(m + n)
      /\ \A i \in 1..m : w[i] = s[i]
      /\ \A i \in 1..(m + n) : i > m => w[i] = z[i - m]
  <2> HIDE DEF S
  <2> QED  BY <1>1, <1>2
<1>4. \A i \in 1..n : w[m + i] = z[i]
  <2> HIDE DEF w
  <2> SUFFICES ASSUME NEW i \in 1..n PROVE w[m + i] = z[i]
      OBVIOUS
  <2>1. m + i \in 1..(m + n) /\ m + i > m /\ (m + i) - m = i
        BY <1>1
  <2> QED  BY <1>3, <2>1
<1>5. Listed(w)
      BY <1>3, SeqIsListed
<1>6. \A i \in 1..(m + n) : i \in 1..m \/ \E j \in 1..n : i = m + j
  <2> SUFFICES ASSUME NEW i \in 1..(m + n), i \notin 1..m PROVE \E j \in 1..n : i = m + j
      OBVIOUS
  <2>1. i - m \in 1..n /\ i = m + (i - m)
        BY <1>1
  <2> QED  BY <2>1
<1>7. \A i \in 1..n : m + i \in 1..(m + n)
      BY <1>1
<1>8. \A i \in 1..m : i \in 1..(m + n)
      BY <1>1
<1> HIDE DEF w, S
<1>9. ToSet(w) = ToSet(s) \cup ToSet(z)
  <2>1. ASSUME NEW x \in ToSet(w) PROVE x \in ToSet(s) \cup ToSet(z)
    <3>1. PICK i \in 1..(m + n) : x = w[i]
          BY <1>3, <2>1 DEF ToSet
    <3> QED  BY <1>1, <1>3, <1>4, <1>6, <3>1
  <2>2. ASSUME NEW x \in ToSet(s) PROVE x \in ToSet(w)
    <3>1. PICK i \in 1..m : x = s[i]
          BY <1>1, <2>2 DEF ToSet
    <3> QED  BY <1>3, <1>8, <3>1 DEF ToSet
  <2>3. ASSUME NEW x \in ToSet(z) PROVE x \in ToSet(w)
    <3>1. PICK i \in 1..n : x = z[i]
          BY <1>1, <2>3 DEF ToSet
    <3> QED  BY <1>3, <1>4, <1>7, <3>1 DEF ToSet
  <2> QED  BY <2>1, <2>2, <2>3
<1>10. ASSUME IsInjective(s), IsInjective(z), ToSet(s) \cap ToSet(z) = {} PROVE IsInjective(w)
  <2> SUFFICES ASSUME NEW a \in 1..(m + n), NEW b \in 1..(m + n), w[a] = w[b] PROVE a = b
      BY <1>3 DEF IsInjective
  <2>1. CASE a \in 1..m /\ b \in 1..m
        BY <1>1, <1>3, <1>10, <2>1 DEF IsInjective
  <2>2. CASE a \in 1..m /\ b \notin 1..m
        BY <1>1, <1>3, <1>4, <1>6, <1>10, <2>2
  <2>3. CASE a \notin 1..m /\ b \in 1..m
        BY <1>1, <1>3, <1>4, <1>6, <1>10, <2>3
  <2>4. CASE a \notin 1..m /\ b \notin 1..m
    <3>1. PICK i \in 1..n : a = m + i
          BY <1>6, <2>4
    <3>2. PICK j \in 1..n : b = m + j
          BY <1>6, <2>4
    <3>3. z[i] = z[j]
          BY <1>4, <3>1, <3>2
    <3> QED  BY <1>1, <1>10, <3>1, <3>2, <3>3 DEF IsInjective
  <2> QED  BY <2>1, <2>2, <2>3, <2>4
<1> QED  BY <1>3, <1>4, <1>5, <1>9, <1>10 DEF w

\* it joins the first m of some sequences.
Joins(it, ss, m) == it = [i \in 1..m |-> IF i = 1 THEN ss[i] ELSE it[i - 1] \o ss[i]]

LEMMA FlattenDef ==
  ASSUME NEW ss, Len(ss) # 0
  PROVE  FlattenSeq(ss) = (CHOOSE it : Joins(it, ss, Len(ss)))[Len(ss)]
BY DEF FlattenSeq, Joins

\* A join of k goes one further.
LEMMA JoinsFurther ==
  ASSUME NEW ss, NEW k \in Nat, NEW it, Joins(it, ss, k)
  PROVE  \E new : Joins(new, ss, k + 1)
<1> DEFINE new == [i \in 1..(k + 1) |-> IF i <= k THEN it[i]
                                        ELSE IF i = 1 THEN ss[i] ELSE it[i - 1] \o ss[i]]
<1>1. \A i \in 1..k : it[i] = IF i = 1 THEN ss[i] ELSE it[i - 1] \o ss[i]
      BY DEF Joins
<1>2. \A i \in 1..k : new[i] = it[i]
      OBVIOUS
<1>3. new[k + 1] = IF k + 1 = 1 THEN ss[k + 1] ELSE it[k] \o ss[k + 1]
      OBVIOUS
<1>4. new = [i \in 1..(k + 1) |-> new[i]]
      OBVIOUS
<1> HIDE DEF new
<1>5. ASSUME NEW i \in 1..(k + 1)
      PROVE  new[i] = IF i = 1 THEN ss[i] ELSE new[i - 1] \o ss[i]
  <2>1. CASE i = 1 /\ i <= k
        BY <1>1, <1>2, <2>1
  <2>2. CASE i # 1 /\ i <= k
    <3>1. i \in 1..k /\ i - 1 \in 1..k
          BY <2>2
    <3> QED  BY <1>1, <1>2, <2>2, <3>1
  <2>3. CASE i = k + 1
    <3>1. k \in 1..k \/ k = 0
          OBVIOUS
    <3> QED  BY <1>2, <1>3, <2>3, <3>1
  <2> QED  BY <2>1, <2>2, <2>3
<1>6. Joins(new, ss, k + 1)
      BY <1>4, <1>5 DEF Joins
<1> QED  BY <1>6

\* Some sequences always have a join.
LEMMA JoinsExists == ASSUME NEW ss, NEW m \in Nat PROVE \E it : Joins(it, ss, m)
<1> DEFINE X == {k \in Nat : ~\E it : Joins(it, ss, k)}
<1>1. SUFFICES ASSUME X # {} PROVE FALSE
      OBVIOUS
<1>2. PICK k \in X : \A j \in X : k <= j
  <2>1. X \in SUBSET Nat
        OBVIOUS
  <2> HIDE DEF X
  <2> QED  BY <1>1, <2>1, SmallestNat
<1>3. k \in Nat /\ ~\E it : Joins(it, ss, k)
      BY <1>2
<1>4. CASE k = 0
  <2>1. Joins(<<>>, ss, 0)
        BY DEF Joins
  <2> QED  BY <1>3, <1>4, <2>1
<1>5. CASE k # 0
  <2>1. k - 1 \in Nat /\ k - 1 \notin X /\ (k - 1) + 1 = k
        BY <1>2, <1>3, <1>5
  <2>2. PICK it : Joins(it, ss, k - 1)
        BY <2>1
  <2> HIDE DEF X
  <2>3. \E new : Joins(new, ss, (k - 1) + 1)
        BY <2>1, <2>2, JoinsFurther
  <2> QED  BY <1>3, <2>1, <2>3
<1> QED  BY <1>4, <1>5

\* The members of the first m of some sequences.
Members(ss, m) == UNION {ToSet(ss[i]) : i \in 1..m}
Apart(ss, n) ==
  /\ \A i \in 1..n : IsInjective(ss[i])
  /\ \A i, j \in 1..n : i # j => ToSet(ss[i]) \cap ToSet(ss[j]) = {}
Joined(value, ss, m, n) ==
  Listed(value) /\ ToSet(value) = Members(ss, m) /\ (Apart(ss, n) => IsInjective(value))

LEMMA MembersMore ==
  ASSUME NEW ss, NEW m \in Nat
  PROVE  Members(ss, m + 1) = Members(ss, m) \cup ToSet(ss[m + 1])
<1>1. 1..(m + 1) = 1..m \cup {m + 1}
      OBVIOUS
<1> QED  BY <1>1 DEF Members

\* What FlattenSeq returns: the members of all, and each once when none is in two.
LEMMA FlattenLaws ==
  ASSUME NEW ss, NEW n \in Nat, ss = [i \in 1..n |-> ss[i]], \A i \in 1..n : Listed(ss[i])
  PROVE  Joined(FlattenSeq(ss), ss, n, n)
<1>1. Len(ss) = n
      OBVIOUS
<1>2. CASE n = 0
  <2>1. FlattenSeq(ss) = ss
        BY <1>1, <1>2 DEF FlattenSeq
  <2>4. DOMAIN ss = {}
        BY <1>2
  <2>5. Listed(ss)
        BY <1>1, ListedIs
  <2>2. ToSet(ss) = {} /\ IsInjective(ss)
        BY <2>4 DEF ToSet, IsInjective
  <2>3. Members(ss, n) = {}
        BY <1>2 DEF Members
  <2> QED  BY <2>1, <2>2, <2>3, <2>5 DEF Joined
<1>3. CASE n # 0
  <2> DEFINE it == CHOOSE i : Joins(i, ss, n)
             X == {k \in 1..n : ~Joined(it[k], ss, k, n)}
  <2>1. Joins(it, ss, n)
        BY JoinsExists
  <2>2. FlattenSeq(ss) = it[n]
        BY <1>1, <1>3, FlattenDef
  <2> HIDE DEF it
  <2>3. \A i \in 1..n : it[i] = IF i = 1 THEN ss[i] ELSE it[i - 1] \o ss[i]
        BY <2>1 DEF Joins
  <2>4. X = {}
    <3>1. SUFFICES ASSUME X # {} PROVE FALSE
          OBVIOUS
    <3>2. PICK k \in X : \A j \in X : k <= j
      <4>1. X \in SUBSET Nat
            OBVIOUS
      <4> HIDE DEF X
      <4> QED  BY <3>1, <4>1, SmallestNat
    <3>3. k \in 1..n /\ ~Joined(it[k], ss, k, n)
          BY <3>2
    <3>4. CASE k = 1
      <4>1. it[k] = ss[1]
            BY <2>3, <3>3, <3>4
      <4>2. Members(ss, 1) = ToSet(ss[1])
        <5>1. 1..1 = {1}
              OBVIOUS
        <5> QED  BY <5>1 DEF Members
      <4>3. Apart(ss, n) => IsInjective(ss[1])
            BY <3>3, <3>4 DEF Apart
      <4> QED  BY <3>3, <3>4, <4>1, <4>2, <4>3 DEF Joined
    <3>5. CASE k # 1
      <4>1. k - 1 \in 1..n /\ k - 1 \notin X /\ k - 1 \in Nat /\ (k - 1) + 1 = k
            BY <3>2, <3>3, <3>5
      <4>2. Joined(it[k - 1], ss, k - 1, n)
            BY <4>1
      <4> HIDE DEF X
      <4>3. it[k] = it[k - 1] \o ss[k]
            BY <2>3, <3>3, <3>5
      <4>4. Listed(it[k]) /\ ToSet(it[k]) = ToSet(it[k - 1]) \cup ToSet(ss[k])
        <5>1. Listed(it[k - 1]) /\ Listed(ss[k])
              BY <3>3, <4>2 DEF Joined
        <5> QED  BY <4>3, <5>1, JoinLaws
      <4>5. Members(ss, k) = Members(ss, k - 1) \cup ToSet(ss[k])
            BY <4>1, MembersMore
      <4>6. ASSUME Apart(ss, n) PROVE IsInjective(it[k])
        <5>1. \A i \in 1..(k - 1) : ToSet(ss[i]) \cap ToSet(ss[k]) = {}
          <6> SUFFICES ASSUME NEW i \in 1..(k - 1) PROVE ToSet(ss[i]) \cap ToSet(ss[k]) = {}
              OBVIOUS
          <6>1. i \in 1..n /\ i # k
                BY <3>3
          <6> QED  BY <3>3, <4>6, <6>1 DEF Apart
        <5>2. Members(ss, k - 1) \cap ToSet(ss[k]) = {}
              BY <5>1 DEF Members
        <5>3. IsInjective(ss[k]) /\ IsInjective(it[k - 1]) /\ Listed(it[k - 1]) /\ Listed(ss[k])
              BY <3>3, <4>2, <4>6 DEF Apart, Joined
        <5>4. ToSet(it[k - 1]) \cap ToSet(ss[k]) = {}
              BY <4>2, <5>2 DEF Joined
        <5> QED  BY <4>3, <5>3, <5>4, JoinLaws
      <4> QED  BY <3>3, <4>2, <4>4, <4>5, <4>6 DEF Joined
    <3> QED  BY <3>4, <3>5
  <2>5. Joined(it[n], ss, n, n)
        BY <1>3, <2>4
  <2> QED  BY <2>2, <2>5
<1> QED  BY <1>2, <1>3

-------------------------------------------------------------------------------
(* Going down the tree.                                                    *)

\* A set of finite sets has a least member for inclusion.
LEMMA SmallestSet ==
  ASSUME NEW S, IsFiniteSet(S), NEW X \in SUBSET SUBSET S, X # {}
  PROVE  \E x \in X : \A y \in X : ~(y \subseteq x /\ y # x)
<1>1. IsWellFoundedOn(StrictSubsetOrdering(S), FiniteSubsetsOf(S))
      BY FS_StrictSubsetOrderingWellFounded
<1>2. SUBSET S = FiniteSubsetsOf(S)
      BY FS_FiniteSubsetsOfFinite
<1>3. \E x \in X : \A y \in X : ~(<<y, x>> \in StrictSubsetOrdering(S))
      BY <1>1, <1>2, WFMin
<1>4. QED
      BY <1>3 DEF StrictSubsetOrdering

\* One bucket, with what f says is below each of its references.
Level(order, w, k, f) ==
  FlattenSeq([i \in DOMAIN order[k] |->
     <<order[k][i]>> \o (IF order[k][i] \in w THEN f[<<w \ {order[k][i]}, order[k][i]>>] ELSE <<>>)])
Walks(it, order, W) == it = [p \in (SUBSET W) \X Key |-> Level(order, p[1], p[2], it)]

LEMMA WalkDef ==
  ASSUME NEW order, NEW ids, NEW k
  PROVE  Walk(order, ids, k) = (CHOOSE it : Walks(it, order, ids))[<<ids, k>>]
BY DEF Walk, Walks, Level

LEMMA WalksAt ==
  ASSUME NEW order, NEW W, NEW f, Walks(f, order, W), NEW w \in SUBSET W, NEW k \in Key
  PROVE  f[<<w, k>>] = Level(order, w, k, f)
BY DEF Walks

LEMMA LevelSame ==
  ASSUME NEW order, NEW w, NEW k, NEW f, NEW g,
         \A r \in w : f[<<w \ {r}, r>>] = g[<<w \ {r}, r>>]
  PROVE  Level(order, w, k, f) = Level(order, w, k, g)
<1> DEFINE part(h, i) == <<order[k][i]>> \o (IF order[k][i] \in w
                            THEN h[<<w \ {order[k][i]}, order[k][i]>>] ELSE <<>>)
<1>1. \A i : part(f, i) = part(g, i)
      OBVIOUS
<1>2. Level(order, w, k, f) = FlattenSeq([i \in DOMAIN order[k] |-> part(f, i)])
      BY DEF Level
<1>3. Level(order, w, k, g) = FlattenSeq([i \in DOMAIN order[k] |-> part(g, i)])
      BY DEF Level
<1> HIDE DEF part
<1>4. [i \in DOMAIN order[k] |-> part(f, i)] = [i \in DOMAIN order[k] |-> part(g, i)]
      BY <1>1
<1> QED  BY <1>2, <1>3, <1>4

\* Two walks agree on what they share.
LEMMA WalksOnce ==
  ASSUME NEW order, NEW V, NEW W, NEW f, NEW g, IsFiniteSet(V), V \subseteq Id,
         Walks(f, order, V), Walks(g, order, W), NEW w, w \subseteq V, w \subseteq W, NEW k \in Key
  PROVE  f[<<w, k>>] = g[<<w, k>>]
<1> DEFINE X == {v \in SUBSET V : v \subseteq W /\ \E b \in Key : f[<<v, b>>] # g[<<v, b>>]}
<1>1. SUFFICES ASSUME X # {} PROVE FALSE
      OBVIOUS
<1>2. PICK v \in X : \A y \in X : ~(y \subseteq v /\ y # v)
  <2>1. X \in SUBSET SUBSET V
        OBVIOUS
  <2> HIDE DEF X
  <2> QED  BY <1>1, <2>1, SmallestSet
<1>3. v \in SUBSET V /\ v \in SUBSET W
      BY <1>2
<1>4. PICK b \in Key : f[<<v, b>>] # g[<<v, b>>]
      BY <1>2
<1>5. \A r \in v : f[<<v \ {r}, r>>] = g[<<v \ {r}, r>>]
  <2> SUFFICES ASSUME NEW r \in v PROVE f[<<v \ {r}, r>>] = g[<<v \ {r}, r>>]
      OBVIOUS
  <2>1. v \ {r} \notin X
        BY <1>2
  <2>2. v \ {r} \in SUBSET V /\ v \ {r} \subseteq W /\ r \in Key
        BY <1>3 DEF Key
  <2> QED  BY <2>1, <2>2
<1>6. Level(order, v, b, f) = Level(order, v, b, g)
      BY <1>5, LevelSame
<1> QED  BY <1>3, <1>4, <1>6, WalksAt

\* There is one for every finite set.
LEMMA WalksExists ==
  ASSUME NEW order, NEW W, IsFiniteSet(W), W \subseteq Id
  PROVE  \E it : Walks(it, order, W)
<1> DEFINE X == {v \in SUBSET W : ~\E it : Walks(it, order, v)}
<1>1. SUFFICES ASSUME X # {} PROVE FALSE
      OBVIOUS
<1>2. PICK v \in X : \A y \in X : ~(y \subseteq v /\ y # v)
  <2>1. X \in SUBSET SUBSET W
        OBVIOUS
  <2> HIDE DEF X
  <2> QED  BY <1>1, <2>1, SmallestSet
<1> DEFINE Of(w) == CHOOSE it : Walks(it, order, w)
           all == [p \in (SUBSET v) \X Key |-> Of(p[1])[<<p[1], p[2]>>]]
           new == [p \in (SUBSET v) \X Key |-> Level(order, p[1], p[2], all)]
<1>3. v \in SUBSET W /\ ~\E it : Walks(it, order, v)
      BY <1>2
<1>4. ASSUME NEW w, w \subseteq v, w # v PROVE Walks(Of(w), order, w)
  <2>1. w \notin X /\ w \in SUBSET W
        BY <1>2, <1>3, <1>4
  <2>2. \E it : Walks(it, order, w)
        BY <2>1
  <2> HIDE DEF X
  <2> QED  BY <2>2
<1>5. \A w \in SUBSET v : \A k \in Key : all[<<w, k>>] = Of(w)[<<w, k>>]
  <2> HIDE DEF Of, X
  <2> QED  OBVIOUS
<1>6. \A w \in SUBSET v : \A k \in Key : new[<<w, k>>] = Level(order, w, k, all)
  <2> HIDE DEF all, X
  <2> QED  OBVIOUS
<1>7. new = [p \in (SUBSET v) \X Key |-> new[p]]
      OBVIOUS
<1> HIDE DEF Of, all, new, X
<1>8. ASSUME NEW u, u \subseteq v, u # v, NEW k \in Key
      PROVE  new[<<u, k>>] = all[<<u, k>>]
  <2>1. Walks(Of(u), order, u) /\ IsFiniteSet(u) /\ u \subseteq Id
        BY <1>3, <1>4, <1>8, FS_Subset
  <2>2. ASSUME NEW r \in u PROVE all[<<u \ {r}, r>>] = Of(u)[<<u \ {r}, r>>]
    <3>1. u \ {r} \subseteq v /\ u \ {r} # v /\ r \in Key
          BY <1>8, <2>1, <2>2 DEF Key
    <3>2. Walks(Of(u \ {r}), order, u \ {r})
          BY <1>4, <3>1
    <3>3. all[<<u \ {r}, r>>] = Of(u \ {r})[<<u \ {r}, r>>]
          BY <1>5, <3>1
    <3>4. Of(u)[<<u \ {r}, r>>] = Of(u \ {r})[<<u \ {r}, r>>]
          BY <2>1, <3>1, <3>2, WalksOnce
    <3> QED  BY <3>3, <3>4
  <2>3. Level(order, u, k, all) = Level(order, u, k, Of(u))
        BY <2>2, LevelSame
  <2>4. Of(u)[<<u, k>>] = Level(order, u, k, Of(u))
        BY <2>1, <1>8, WalksAt
  <2> QED  BY <1>5, <1>6, <1>8, <2>3, <2>4
<1>9. ASSUME NEW p \in (SUBSET v) \X Key PROVE new[p] = Level(order, p[1], p[2], new)
  <2>1. p = <<p[1], p[2]>> /\ p[1] \subseteq v /\ p[2] \in Key
        BY <1>9
  <2>2. \A r \in p[1] : new[<<p[1] \ {r}, r>>] = all[<<p[1] \ {r}, r>>]
    <3> SUFFICES ASSUME NEW r \in p[1] PROVE new[<<p[1] \ {r}, r>>] = all[<<p[1] \ {r}, r>>]
        OBVIOUS
    <3>1. p[1] \ {r} \subseteq v /\ p[1] \ {r} # v /\ r \in Key
          BY <1>3, <2>1 DEF Key
    <3> QED  BY <1>8, <3>1
  <2>3. Level(order, p[1], p[2], new) = Level(order, p[1], p[2], all)
        BY <2>2, LevelSame
  <2>4. new[<<p[1], p[2]>>] = Level(order, p[1], p[2], all)
        BY <1>6, <2>1
  <2> QED  BY <2>1, <2>3, <2>4
<1>10. Walks(new, order, v)
  <2>1. [p \in (SUBSET v) \X Key |-> new[p]] = [p \in (SUBSET v) \X Key |-> Level(order, p[1], p[2], new)]
        BY <1>9
  <2> QED  BY <1>7, <2>1 DEF Walks
<1> QED  BY <1>3, <1>10

\* The pieces a walk is made of.
Piece(order, ids, r) == <<r>> \o (IF r \in ids THEN Walk(order, ids \ {r}, r) ELSE <<>>)

\* A walk goes through the references of its bucket, each with what is below it.
LEMMA WalkIs ==
  ASSUME NEW order, NEW ids, IsFiniteSet(ids), ids \subseteq Id, NEW k \in Key
  PROVE  Walk(order, ids, k) = FlattenSeq([i \in DOMAIN order[k] |-> Piece(order, ids, order[k][i])])
<1> DEFINE Of(w) == CHOOSE it : Walks(it, order, w)
<1>1. \A w : w \subseteq ids => Walks(Of(w), order, w)
      BY WalksExists, FS_Subset
<1>2. \A w, b : Walk(order, w, b) = Of(w)[<<w, b>>]
      BY WalkDef
<1> HIDE DEF Of
<1>3. Walk(order, ids, k) = Level(order, ids, k, Of(ids))
      BY <1>1, <1>2, WalksAt
<1>4. ASSUME NEW r \in ids PROVE Of(ids)[<<ids \ {r}, r>>] = Walk(order, ids \ {r}, r)
  <2>1. ids \ {r} \subseteq ids /\ r \in Key
        BY DEF Key
  <2>2. Walks(Of(ids), order, ids) /\ Walks(Of(ids \ {r}), order, ids \ {r})
        BY <1>1, <2>1
  <2>3. Of(ids)[<<ids \ {r}, r>>] = Of(ids \ {r})[<<ids \ {r}, r>>]
        BY <2>1, <2>2, WalksOnce
  <2> QED  BY <1>2, <2>3
<1> DEFINE part(i) == <<order[k][i]>> \o (IF order[k][i] \in ids
                         THEN Of(ids)[<<ids \ {order[k][i]}, order[k][i]>>] ELSE <<>>)
<1>5. Level(order, ids, k, Of(ids)) = FlattenSeq([i \in DOMAIN order[k] |-> part(i)])
      BY DEF Level
<1>6. \A i : part(i) = Piece(order, ids, order[k][i])
      BY <1>4 DEF Piece
<1> HIDE DEF part
<1>7. [i \in DOMAIN order[k] |-> part(i)] = [i \in DOMAIN order[k] |-> Piece(order, ids, order[k][i])]
      BY <1>6
<1> QED  BY <1>3, <1>5, <1>7

-------------------------------------------------------------------------------
(* A tree, and orders for its buckets.                                     *)

\* No collection is its own ancestor.
Rooted(t) ==
  /\ Collected(t) \subseteq Id /\ IsFiniteSet(Collected(t))
  /\ \A c \in Collected(t) : t.parent[c] \in Collected(t) \cup {Nil}
  /\ \A e \in Endpoint : t.memberships[e] \in Collected(t) \cup {Nil}
  /\ \A Q \in SUBSET Collected(t) : (\A x \in Q : t.parent[x] \in Q) => Q = {}

Refs(t) == Endpoint \cup Collected(t)

\* Each bucket lists some of what lives there, once.
Ordered(t, order) ==
  \A k \in Key : /\ Listed(order[k]) /\ IsInjective(order[k])
                 /\ \A r \in ToSet(order[k]) : r \in Refs(t) /\ HomeOf(t, r) = k

\* Where things live.
LEMMA Homes ==
  ASSUME NEW t, Rooted(t), NEW r \in Refs(t)
  PROVE  /\ HomeOf(t, r) \in Collected(t) \cup {Root, Unsorted} /\ HomeOf(t, r) \in Key
         /\ r \in Collected(t) => /\ r \in Key /\ HomeOf(t, r) \in Collected(t) \cup {Root}
                                  /\ HomeOf(t, r) # Root => HomeOf(t, r) = t.parent[r]
         /\ r \in Endpoint => /\ r \notin Key /\ r \notin Collected(t)
                              /\ HomeOf(t, r) \in Collected(t) \cup {Unsorted}
BY LabelAssumption DEF Rooted, Refs, HomeOf, Key

\* Nothing lives inside itself.
LEMMA NothingInItself ==
  ASSUME NEW t, Rooted(t), NEW P \in SUBSET Refs(t), \A q \in P : HomeOf(t, q) \in P
  PROVE  P = {}
<1> SUFFICES ASSUME NEW p \in P PROVE FALSE
    OBVIOUS
<1> DEFINE Q == P \cap Collected(t)
<1>1. ASSUME NEW q \in P PROVE HomeOf(t, q) \in Q /\ HomeOf(t, q) # Root
  <2>1. q \in Refs(t) /\ HomeOf(t, q) \in Refs(t)
        BY <1>1
  <2>2. HomeOf(t, q) \in Key
        BY <2>1, Homes
  <2>3. HomeOf(t, q) \notin Endpoint
        BY <2>2, LabelAssumption
  <2>4. HomeOf(t, q) # Root
        BY <2>1, <2>3, LabelAssumption DEF Refs, Rooted
  <2> QED  BY <2>1, <2>3, <2>4, <1>1 DEF Refs
<1>2. \A q \in Q : t.parent[q] \in Q
  <2> SUFFICES ASSUME NEW q \in Q PROVE t.parent[q] \in Q
      OBVIOUS
  <2>1. HomeOf(t, q) \in Q /\ HomeOf(t, q) # Root
        BY <1>1
  <2>2. HomeOf(t, q) = t.parent[q]
        BY <2>1, Homes
  <2> QED  BY <2>1, <2>2
<1>3. Q = {}
      BY <1>2 DEF Rooted
<1> QED
    BY <1>1, <1>3

\* What a walk from k returns: things that live in k or in something it returns, each once,
\* and with each collection it enters what its bucket lists.
Walked(t, order, ids, k, w) ==
  /\ Listed(w) /\ IsInjective(w) /\ ToSet(w) \subseteq Refs(t)
  /\ \A q \in ToSet(w) : HomeOf(t, q) \in {k} \cup ToSet(w) /\ q \in ToSet(order[HomeOf(t, q)])
  /\ ToSet(order[k]) \subseteq ToSet(w)
  /\ \A p \in ToSet(w) \cap ids : ToSet(order[p]) \subseteq ToSet(w)

\* Where it starts is not among them.
LEMMA StartIsAbove ==
  ASSUME NEW t, NEW order, NEW ids, NEW k, NEW w, Rooted(t), Walked(t, order, ids, k, w)
  PROVE  k \notin ToSet(w)
<1> SUFFICES ASSUME k \in ToSet(w) PROVE FALSE
    OBVIOUS
<1>1. ToSet(w) \in SUBSET Refs(t) /\ \A q \in ToSet(w) : HomeOf(t, q) \in ToSet(w)
      BY DEF Walked
<1>2. ToSet(w) = {}
      BY <1>1, NothingInItself
<1> QED  BY <1>2

\* One reference with what is below it.
LEMMA PieceLaws ==
  ASSUME NEW t, NEW order, NEW ids, NEW k \in Key, NEW r, Rooted(t), Ordered(t, order),
         ids \subseteq Collected(t), r \in ToSet(order[k]),
         r \in ids => Walked(t, order, ids \ {r}, r, Walk(order, ids \ {r}, r))
  PROVE  LET w == Piece(order, ids, r)
         IN  /\ Listed(w) /\ IsInjective(w) /\ ToSet(w) \subseteq Refs(t) /\ r \in ToSet(w)
             /\ k \notin ToSet(w)
             /\ \A q \in ToSet(w) : q # r => HomeOf(t, q) \in ToSet(w)
             /\ \A q \in ToSet(w) : q \in ToSet(order[HomeOf(t, q)])
             /\ \A p \in ToSet(w) \cap ids : ToSet(order[p]) \subseteq ToSet(w)
<1> DEFINE w == Piece(order, ids, r)
<1>1. r \in Refs(t) /\ HomeOf(t, r) = k
      BY DEF Ordered
<1>2. Listed(<<r>>) /\ IsInjective(<<r>>) /\ ToSet(<<r>>) = {r}
  <2>1. <<r>> \in Seq({r})
        OBVIOUS
  <2>2. DOMAIN <<r>> = {1} /\ <<r>>[1] = r
        OBVIOUS
  <2>3. ToSet(<<r>>) = {r}
        BY <2>2 DEF ToSet
  <2> QED  BY <2>1, <2>2, <2>3, SeqIsListed DEF IsInjective
<1>3. CASE r \notin ids
  <2>1. w = <<r>> \o <<>>
        BY <1>3 DEF Piece
  <2>2. w = <<r>>
        BY <2>1
  <2>3. k # r
    <3>1. ASSUME k = r PROVE FALSE
      <4>1. {r} \in SUBSET Refs(t) /\ \A q \in {r} : HomeOf(t, q) \in {r}
            BY <1>1, <3>1
      <4>2. {r} = {}
            BY <4>1, NothingInItself
      <4> QED  BY <4>2
    <3> QED  BY <3>1
  <2> HIDE DEF w
  <2>4. Listed(w) /\ IsInjective(w) /\ ToSet(w) = {r}
        BY <1>2, <2>2
  <2> QED  BY <1>1, <1>3, <2>3, <2>4 DEF w
<1>4. CASE r \in ids
  <2> DEFINE z == Walk(order, ids \ {r}, r)
             P == {r} \cup ToSet(z)
  <2>1. w = <<r>> \o z
        BY <1>4 DEF Piece
  <2> HIDE DEF w, z
  <2>2. Walked(t, order, ids \ {r}, r, z)
        BY <1>4 DEF z
  <2>3. r \notin ToSet(z)
        BY <2>2, StartIsAbove
  <2>4. Listed(z) /\ IsInjective(z) /\ ToSet(z) \subseteq Refs(t)
        BY <2>2 DEF Walked
  <2>5. Listed(w) /\ IsInjective(w) /\ ToSet(w) = P
    <3>1. ToSet(<<r>>) \cap ToSet(z) = {}
          BY <1>2, <2>3
    <3> QED  BY <1>2, <2>1, <2>4, <3>1, JoinLaws
  <2>6. \A q \in P : /\ q # r => HomeOf(t, q) \in P
                     /\ q \in ToSet(order[HomeOf(t, q)])
        BY <1>1, <2>2 DEF Walked
  <2>7. k \notin P
    <3>1. ASSUME k \in P PROVE FALSE
      <4>1. P \in SUBSET Refs(t) /\ \A q \in P : HomeOf(t, q) \in P
            BY <1>1, <2>4, <2>6, <3>1
      <4> HIDE DEF P
      <4>2. P = {}
            BY <4>1, NothingInItself
      <4> QED  BY <3>1, <4>2
    <3> QED  BY <3>1
  <2>8. \A p \in P \cap ids : ToSet(order[p]) \subseteq P
        BY <2>2 DEF Walked
  <2> QED  BY <1>1, <2>4, <2>5, <2>6, <2>7, <2>8 DEF w
<1> QED  BY <1>3, <1>4

\* Two of them have nothing in common.
LEMMA PiecesApart ==
  ASSUME NEW t, Rooted(t), NEW k, NEW r, NEW z, NEW P \in SUBSET Refs(t), NEW Q \in SUBSET Refs(t),
         r # z, HomeOf(t, r) = k, HomeOf(t, z) = k, k \notin P, k \notin Q,
         \A q \in P : q # r => HomeOf(t, q) \in P, \A q \in Q : q # z => HomeOf(t, q) \in Q
  PROVE  P \cap Q = {}
<1>1. \A q \in P \cap Q : HomeOf(t, q) \in P \cap Q
      OBVIOUS
<1>2. P \cap Q \in SUBSET Refs(t)
      OBVIOUS
<1> QED  BY <1>1, <1>2, NothingInItself

\* One level of a walk.
LEMMA WalkOnceMore ==
  ASSUME NEW t, NEW order, NEW ids, NEW k \in Key, Rooted(t), Ordered(t, order),
         ids \subseteq Collected(t),
         \A r \in ids : Walked(t, order, ids \ {r}, r, Walk(order, ids \ {r}, r))
  PROVE  Walked(t, order, ids, k, Walk(order, ids, k))
<1> DEFINE n == Len(order[k])
           ss == [i \in 1..n |-> Piece(order, ids, order[k][i])]
           w == FlattenSeq(ss)
           B == UNION {ToSet(ss[i]) : i \in 1..n}
<1>1. /\ Listed(order[k]) /\ IsInjective(order[k]) /\ DOMAIN order[k] = 1..n /\ n \in Nat
      /\ ToSet(order[k]) = {order[k][i] : i \in 1..n}
  <2>1. Listed(order[k]) /\ IsInjective(order[k])
        BY DEF Ordered
  <2>2. DOMAIN order[k] = 1..n /\ n \in Nat
        BY <2>1, ListedIs
  <2> QED  BY <2>1, <2>2 DEF ToSet
<1>2. Walk(order, ids, k) = w
  <2>1. IsFiniteSet(ids) /\ ids \subseteq Id
        BY FS_Subset DEF Rooted
  <2> QED  BY <1>1, <2>1, WalkIs
<1>3. ASSUME NEW i \in 1..n
      PROVE  /\ Listed(ss[i]) /\ IsInjective(ss[i]) /\ ToSet(ss[i]) \subseteq Refs(t)
             /\ order[k][i] \in ToSet(ss[i]) /\ k \notin ToSet(ss[i])
             /\ \A q \in ToSet(ss[i]) : q # order[k][i] => HomeOf(t, q) \in ToSet(ss[i])
             /\ \A q \in ToSet(ss[i]) : q \in ToSet(order[HomeOf(t, q)])
             /\ \A p \in ToSet(ss[i]) \cap ids : ToSet(order[p]) \subseteq ToSet(ss[i])
             /\ HomeOf(t, order[k][i]) = k
  <2>1. order[k][i] \in ToSet(order[k])
        BY <1>1
  <2>2. ss[i] = Piece(order, ids, order[k][i])
        OBVIOUS
  <2>3. HomeOf(t, order[k][i]) = k
        BY <2>1 DEF Ordered
  <2> HIDE DEF ss
  <2>4. order[k][i] \in ids => Walked(t, order, ids \ {order[k][i]}, order[k][i],
                                      Walk(order, ids \ {order[k][i]}, order[k][i]))
        OBVIOUS
  <2> DEFINE r == order[k][i]
             z == Piece(order, ids, r)
  <2>5. /\ Listed(z) /\ IsInjective(z) /\ ToSet(z) \subseteq Refs(t) /\ r \in ToSet(z)
        /\ k \notin ToSet(z)
        /\ \A q \in ToSet(z) : q # r => HomeOf(t, q) \in ToSet(z)
        /\ \A q \in ToSet(z) : q \in ToSet(order[HomeOf(t, q)])
        /\ \A p \in ToSet(z) \cap ids : ToSet(order[p]) \subseteq ToSet(z)
    <3> HIDE DEF r
    <3> QED  BY <2>1, <2>4, PieceLaws DEF r
  <2>6. ss[i] = z
        BY <2>2
  <2> HIDE DEF z
  <2> QED  BY <2>3, <2>5, <2>6
<1>4. ss = [i \in 1..n |-> ss[i]]
      OBVIOUS
<1> HIDE DEF ss
<1>5. Joined(w, ss, n, n)
      BY <1>1, <1>3, <1>4, FlattenLaws
<1>6. Apart(ss, n)
  <2> SUFFICES ASSUME NEW i \in 1..n, NEW j \in 1..n, i # j
               PROVE  ToSet(ss[i]) \cap ToSet(ss[j]) = {}
      BY <1>3 DEF Apart
  <2>1. order[k][i] # order[k][j]
        BY <1>1 DEF IsInjective
  <2> DEFINE P == ToSet(ss[i])
             Q == ToSet(ss[j])
             r == order[k][i]
             z == order[k][j]
  <2>2. /\ P \in SUBSET Refs(t) /\ HomeOf(t, r) = k /\ k \notin P
        /\ \A q \in P : q # r => HomeOf(t, q) \in P
        BY <1>3
  <2>3. /\ Q \in SUBSET Refs(t) /\ HomeOf(t, z) = k /\ k \notin Q
        /\ \A q \in Q : q # z => HomeOf(t, q) \in Q
        BY <1>3
  <2>4. r # z
        BY <2>1
  <2> HIDE DEF P, Q, r, z
  <2>5. P \cap Q = {}
        BY <2>2, <2>3, <2>4, PiecesApart
  <2> QED  BY <2>5 DEF P, Q
<1>7. Listed(w) /\ IsInjective(w) /\ ToSet(w) = B
      BY <1>5, <1>6 DEF Joined, Members
<1>8. B \subseteq Refs(t) /\ \A q \in B : HomeOf(t, q) \in {k} \cup B /\ q \in ToSet(order[HomeOf(t, q)])
  <2> SUFFICES ASSUME NEW i \in 1..n
               PROVE  /\ ToSet(ss[i]) \subseteq Refs(t)
                      /\ \A q \in ToSet(ss[i]) : /\ HomeOf(t, q) \in {k} \cup ToSet(ss[i])
                                                  /\ q \in ToSet(order[HomeOf(t, q)])
      OBVIOUS
  <2>1. ToSet(ss[i]) \subseteq Refs(t) /\ HomeOf(t, order[k][i]) = k
        BY <1>3
  <2>2. \A q \in ToSet(ss[i]) : q # order[k][i] => HomeOf(t, q) \in ToSet(ss[i])
        BY <1>3
  <2>3. \A q \in ToSet(ss[i]) : q \in ToSet(order[HomeOf(t, q)])
        BY <1>3
  <2> QED  BY <2>1, <2>2, <2>3
<1>9. ToSet(order[k]) \subseteq B /\ \A p \in B \cap ids : ToSet(order[p]) \subseteq B
  <2>1. \A i \in 1..n : order[k][i] \in B
        BY <1>3
  <2>2. ASSUME NEW p \in B \cap ids PROVE ToSet(order[p]) \subseteq B
    <3>1. PICK i \in 1..n : p \in ToSet(ss[i])
          BY <2>2
    <3>2. ToSet(order[p]) \subseteq ToSet(ss[i])
          BY <1>3, <2>2, <3>1
    <3> QED  BY <3>2
  <2> HIDE DEF B, n
  <2> QED  BY <1>1, <2>1, <2>2
<1> HIDE DEF w, B
<1> QED  BY <1>2, <1>7, <1>8, <1>9 DEF Walked

\* Every walk.
LEMMA WalkLaws ==
  ASSUME NEW t, NEW order, Rooted(t), Ordered(t, order)
  PROVE  \A ids \in SUBSET Collected(t), k \in Key : Walked(t, order, ids, k, Walk(order, ids, k))
<1> DEFINE X == {v \in SUBSET Collected(t) :
                   \E b \in Key : ~Walked(t, order, v, b, Walk(order, v, b))}
<1>1. SUFFICES ASSUME X # {} PROVE FALSE
      OBVIOUS
<1>2. PICK v \in X : \A y \in X : ~(y \subseteq v /\ y # v)
  <2>1. X \in SUBSET SUBSET Collected(t)
        OBVIOUS
  <2>2. IsFiniteSet(Collected(t))
        BY DEF Rooted
  <2> HIDE DEF X
  <2> QED  BY <1>1, <2>1, <2>2, SmallestSet
<1>3. v \in SUBSET Collected(t) /\ \E b \in Key : ~Walked(t, order, v, b, Walk(order, v, b))
      BY <1>2
<1>4. \A r \in v : Walked(t, order, v \ {r}, r, Walk(order, v \ {r}, r))
  <2> SUFFICES ASSUME NEW r \in v PROVE Walked(t, order, v \ {r}, r, Walk(order, v \ {r}, r))
      OBVIOUS
  <2>1. v \ {r} \notin X /\ v \ {r} \in SUBSET Collected(t)
        BY <1>2, <1>3
  <2>2. r \in Key
        BY <1>3 DEF Rooted, Key
  <2> QED  BY <2>1, <2>2
<1> HIDE DEF X
<1> QED  BY <1>3, <1>4, WalkOnceMore

\* From the root every collection is met, when each is listed where it lives.
LEMMA WalkMeetsAll ==
  ASSUME NEW t, NEW order, Rooted(t), Ordered(t, order),
         \A c \in Collected(t) : c \in ToSet(order[HomeOf(t, c)])
  PROVE  Collected(t) \subseteq ToSet(Walk(order, Collected(t), Root))
<1> DEFINE B == ToSet(Walk(order, Collected(t), Root))
           Q == Collected(t) \ B
<1>1. Walked(t, order, Collected(t), Root, Walk(order, Collected(t), Root))
      BY WalkLaws DEF Key
<1>2. ToSet(order[Root]) \subseteq B /\ \A p \in B \cap Collected(t) : ToSet(order[p]) \subseteq B
      BY <1>1 DEF Walked
<1> HIDE DEF B
<1>3. ASSUME NEW q \in Q PROVE HomeOf(t, q) \in Q
  <2>1. HomeOf(t, q) \in Collected(t) \cup {Root}
        BY Homes DEF Refs
  <2>2. q \in ToSet(order[HomeOf(t, q)]) /\ q \notin B
        OBVIOUS
  <2> QED  BY <1>2, <2>1, <2>2
<1>4. Q \in SUBSET Refs(t)
      BY DEF Refs
<1>5. Q = {}
  <2> HIDE DEF Q
  <2> QED  BY <1>3, <1>4, NothingInItself
<1> QED  BY <1>5 DEF B

-------------------------------------------------------------------------------
(* What the catalog shows of a tree.                                       *)

\* What normalizeCollectionState leaves.
Normal(t) ==
  /\ DOMAIN t = DOMAIN NoCollections
  /\ DOMAIN t.parent = Id /\ DOMAIN t.memberships = Endpoint /\ DOMAIN t.childOrder = Key
  /\ Rooted(t) /\ t.collections \in Seq(Id) /\ IsInjective(t.collections)
  /\ \A k \in Key : /\ Listed(t.childOrder[k]) /\ IsInjective(t.childOrder[k])
                    /\ \A r \in ToSet(t.childOrder[k]) : HomeOf(t, r) = k

\* Endpoints sorted into the buckets where they live.
Sorted(t, items) ==
  \A k \in Key : /\ Listed(items[k]) /\ IsInjective(items[k]) /\ ToSet(items[k]) \subseteq Endpoint
                 /\ \A e \in ToSet(items[k]) : HomeOf(t, e) = k

\* What a bucket holds: the endpoints, then the collections.
LEMMA DesiredLaws ==
  ASSUME NEW t, Normal(t), NEW items, Sorted(t, items), NEW k \in Key
  PROVE  LET d == items[k] \o Only(t.collections, Children(t, k))
         IN  /\ Listed(d) /\ IsInjective(d) /\ ToSet(d) = ToSet(items[k]) \cup Children(t, k)
             /\ \A r \in ToSet(d) : r \in Refs(t) /\ HomeOf(t, r) = k
<1> DEFINE c == Only(t.collections, Children(t, k))
<1>1. Listed(items[k]) /\ IsInjective(items[k]) /\ ToSet(items[k]) \subseteq Endpoint
      BY DEF Sorted
<1>2. Listed(t.collections) /\ IsInjective(t.collections)
      BY SeqIsListed DEF Normal
<1>3. Listed(c) /\ IsInjective(c) /\ ToSet(c) = Children(t, k)
  <2>1. Children(t, k) \subseteq ToSet(t.collections)
        BY DEF Children, Collected
  <2>2. Listed(c) /\ IsInjective(c) /\ ToSet(c) = ToSet(t.collections) \cap Children(t, k)
        BY <1>2, OnlyLaws
  <2> QED  BY <2>1, <2>2
<1>4. ToSet(items[k]) \cap Children(t, k) = {}
  <2>1. Endpoint \cap Id = {}
        BY LabelAssumption DEF Key
  <2>2. Children(t, k) \subseteq Id
        BY DEF Children, Normal, Rooted
  <2> QED  BY <1>1, <2>1, <2>2
<1>5. \A r \in ToSet(items[k]) \cup Children(t, k) : r \in Refs(t) /\ HomeOf(t, r) = k
      BY <1>1 DEF Sorted, Children, Refs
<1> HIDE DEF c
<1>6. Listed(items[k] \o c) /\ IsInjective(items[k] \o c) /\ ToSet(items[k] \o c) = ToSet(items[k]) \cup ToSet(c)
      BY <1>1, <1>3, <1>4, JoinLaws
<1> QED  BY <1>3, <1>5, <1>6 DEF c

\* What resolveChildOrder returns: all of it, in another order.
LEMMA ResolvedLaws ==
  ASSUME NEW t, Normal(t), NEW items, Sorted(t, items), NEW k \in Key
  PROVE  LET s == resolveChildOrder(t, items)[k]
         IN  /\ Listed(s) /\ IsInjective(s) /\ ToSet(s) = ToSet(items[k]) \cup Children(t, k)
             /\ \A r \in ToSet(s) : r \in Refs(t) /\ HomeOf(t, r) = k
<1> DEFINE d == items[k] \o Only(t.collections, Children(t, k))
           f == Firsts(t.childOrder[k])
           known == Only(f, ToSet(d))
           rest == Only(d, ToSet(d) \ ToSet(known))
<1>1. resolveChildOrder(t, items)[k] = known \o rest
      BY DEF resolveChildOrder
<1>2. /\ Listed(d) /\ IsInjective(d) /\ ToSet(d) = ToSet(items[k]) \cup Children(t, k)
      /\ \A r \in ToSet(d) : r \in Refs(t) /\ HomeOf(t, r) = k
  <2> HIDE DEF d
  <2> QED  BY DesiredLaws DEF d
<1> HIDE DEF d
<1>3. Listed(t.childOrder[k])
      BY DEF Normal
<1>4. Listed(f) /\ IsInjective(f)
      BY <1>3, FirstsLaws
<1> HIDE DEF f
<1>5. Listed(known) /\ IsInjective(known) /\ ToSet(known) \subseteq ToSet(d)
      BY <1>4, OnlyLaws
<1> HIDE DEF known
<1>6. Listed(rest) /\ IsInjective(rest) /\ ToSet(rest) = ToSet(d) \cap (ToSet(d) \ ToSet(known))
      BY <1>2, OnlyLaws
<1> HIDE DEF rest
<1>7. ToSet(known) \cap ToSet(rest) = {} /\ ToSet(known) \cup ToSet(rest) = ToSet(d)
      BY <1>5, <1>6
<1>8. /\ Listed(known \o rest) /\ IsInjective(known \o rest)
      /\ ToSet(known \o rest) = ToSet(known) \cup ToSet(rest)
      BY <1>5, <1>6, <1>7, JoinLaws
<1> QED  BY <1>1, <1>2, <1>7, <1>8

\* The readable endpoints of a bucket.
Readable(t, k) == {e \in Endpoint : onDisk[e] = "ok" /\ HomeOf(t, e) = k}

\* What listAdminMocks returns.
LEMMA ListedMocks ==
  ASSUME NEW t, Normal(t)
  PROVE  /\ Sorted(t, listAdminMocks(t))
         /\ \A k \in Key : ToSet(listAdminMocks(t)[k]) = Readable(t, k)
<1> DEFINE raw == [k \in Key |-> Only(Listing, Readable(t, k))]
<1>1. Listed(Listing) /\ IsInjective(Listing) /\ ToSet(Listing) = Endpoint
      BY ListingAssumption, SeqIsListed DEF Endpoint
<1>2. ASSUME NEW k \in Key
      PROVE  Listed(raw[k]) /\ IsInjective(raw[k]) /\ ToSet(raw[k]) = Readable(t, k)
  <2>1. raw[k] = Only(Listing, Readable(t, k))
        OBVIOUS
  <2>2. Readable(t, k) \subseteq Endpoint
        BY DEF Readable
  <2>3. /\ Listed(Only(Listing, Readable(t, k))) /\ IsInjective(Only(Listing, Readable(t, k)))
        /\ ToSet(Only(Listing, Readable(t, k))) = ToSet(Listing) \cap Readable(t, k)
        BY <1>1, OnlyLaws
  <2> QED  BY <1>1, <2>1, <2>2, <2>3
<1>3. listAdminMocks(t) = sortAdminItems(t, raw)
      BY DEF listAdminMocks, Readable
<1> HIDE DEF raw
<1>4. Sorted(t, raw)
      BY <1>2 DEF Sorted, Readable
<1>5. ASSUME NEW k \in Key
      PROVE  LET s == listAdminMocks(t)[k] IN Listed(s) /\ IsInjective(s) /\ ToSet(s) = Readable(t, k)
  <2> DEFINE w == resolveChildOrder(t, raw)[k]
  <2>1. listAdminMocks(t)[k] = Only(w, Endpoint)
        BY <1>3 DEF sortAdminItems
  <2>2. Listed(w) /\ IsInjective(w) /\ ToSet(w) = ToSet(raw[k]) \cup Children(t, k)
        BY <1>4, ResolvedLaws
  <2> HIDE DEF w
  <2>3. Listed(Only(w, Endpoint)) /\ IsInjective(Only(w, Endpoint)) /\ ToSet(Only(w, Endpoint)) = ToSet(w) \cap Endpoint
        BY <2>2, OnlyLaws
  <2>4. Children(t, k) \cap Endpoint = {}
        BY LabelAssumption DEF Children, Normal, Rooted, Key
  <2>5. Readable(t, k) \subseteq Endpoint
        BY DEF Readable
  <2> QED  BY <1>2, <2>1, <2>2, <2>3, <2>4, <2>5
<1>6. \A k \in Key : Readable(t, k) \subseteq Endpoint /\ \A e \in Readable(t, k) : HomeOf(t, e) = k
      BY DEF Readable
<1> QED  BY <1>5, <1>6 DEF Sorted

\* The references that the forest is built from.
ForestRefs(items, t, order) ==
  [b \in Key |->
     LET desired == items[b] \o Only(t.collections, Children(t, b))
     IN  Firsts(Only(order[b], ToSet(desired)) \o desired)]

LEMMA ForestRefsLaws ==
  ASSUME NEW t, Normal(t), NEW items, Sorted(t, items), NEW order, \A k \in Key : Listed(order[k])
  PROVE  /\ Ordered(t, ForestRefs(items, t, order))
         /\ \A k \in Key : ToSet(ForestRefs(items, t, order)[k]) = ToSet(items[k]) \cup Children(t, k)
<1> SUFFICES ASSUME NEW k \in Key
             PROVE  LET s == ForestRefs(items, t, order)[k]
                    IN  /\ Listed(s) /\ IsInjective(s)
                        /\ \A r \in ToSet(s) : r \in Refs(t) /\ HomeOf(t, r) = k
                        /\ ToSet(s) = ToSet(items[k]) \cup Children(t, k)
    BY DEF Ordered
<1> DEFINE d == items[k] \o Only(t.collections, Children(t, k))
           first == Only(order[k], ToSet(d))
<1>1. ForestRefs(items, t, order)[k] = Firsts(first \o d)
      BY DEF ForestRefs
<1>2. /\ Listed(d) /\ ToSet(d) = ToSet(items[k]) \cup Children(t, k)
      /\ \A r \in ToSet(d) : r \in Refs(t) /\ HomeOf(t, r) = k
  <2> HIDE DEF d
  <2> QED  BY DesiredLaws DEF d
<1> HIDE DEF d
<1>3. Listed(first) /\ ToSet(first) \subseteq ToSet(d)
      BY OnlyLaws
<1> HIDE DEF first
<1>4. Listed(first \o d) /\ ToSet(first \o d) = ToSet(d)
      BY <1>2, <1>3, JoinLaws
<1>5. /\ Listed(Firsts(first \o d)) /\ IsInjective(Firsts(first \o d))
      /\ ToSet(Firsts(first \o d)) = ToSet(first \o d)
      BY <1>4, FirstsLaws
<1> QED  BY <1>1, <1>2, <1>4, <1>5

\* The forest of the root and that of Unsorted hold every endpoint of the list once.
LEMMA ForestLaws ==
  ASSUME NEW t, Normal(t), NEW items, Sorted(t, items), NEW order, \A k \in Key : Listed(order[k])
  PROVE  LET fr == Forest(items, t, order, Root)
             fu == Forest(items, t, order, Unsorted)
         IN  /\ Listed(fr) /\ IsInjective(fr) /\ Listed(fu) /\ IsInjective(fu)
             /\ ToSet(fr) \cap ToSet(fu) = {}
             /\ ToSet(fr) \cup ToSet(fu) = UNION {ToSet(items[k]) : k \in Key}
<1> DEFINE refs == ForestRefs(items, t, order)
           w(k) == Walk(refs, Collected(t), k)
           A == ToSet(w(Root))
           B == ToSet(w(Unsorted))
<1>1. Ordered(t, refs) /\ \A k \in Key : ToSet(refs[k]) = ToSet(items[k]) \cup Children(t, k)
      BY ForestRefsLaws
<1>2. \A k : Forest(items, t, order, k) = Only(w(k), Endpoint)
      BY DEF Forest, ForestRefs
<1>0. Rooted(t)
      BY DEF Normal
<1> HIDE DEF refs
<1>3. Walked(t, refs, Collected(t), Root, w(Root)) /\ Walked(t, refs, Collected(t), Unsorted, w(Unsorted))
      BY <1>0, <1>1, WalkLaws DEF Key
<1>4. Collected(t) \subseteq A
  <2>1. \A c \in Collected(t) : c \in ToSet(refs[HomeOf(t, c)])
        BY <1>0, <1>1, Homes DEF Children, Refs
  <2> QED  BY <1>0, <1>1, <2>1, WalkMeetsAll
<1> HIDE DEF w
<1>5. /\ Listed(w(Root)) /\ IsInjective(w(Root)) /\ A \subseteq Refs(t)
      /\ \A q \in A : HomeOf(t, q) \in {Root} \cup A /\ q \in ToSet(refs[HomeOf(t, q)])
      /\ \A p \in Collected(t) : ToSet(refs[p]) \subseteq A
      BY <1>3, <1>4 DEF Walked
<1>6. /\ Listed(w(Unsorted)) /\ IsInjective(w(Unsorted)) /\ B \subseteq Refs(t)
      /\ \A q \in B : HomeOf(t, q) \in {Unsorted} \cup B /\ q \in ToSet(refs[HomeOf(t, q)])
      /\ ToSet(refs[Unsorted]) \subseteq B
      BY <1>3 DEF Walked
<1> HIDE DEF A, B
<1>7. B \cap Collected(t) = {}
  <2> DEFINE Q == B \cap Collected(t)
  <2>1. ASSUME NEW q \in Q PROVE HomeOf(t, q) \in Q
    <3>1. HomeOf(t, q) \in Collected(t) \cup {Root}
          BY <1>0, Homes DEF Refs
    <3>2. HomeOf(t, q) \in B
          BY <1>6, <3>1, <1>0, LabelAssumption DEF Rooted
    <3>3. Root \notin B
          BY <1>0, <1>6, LabelAssumption DEF Refs, Rooted, Key
    <3> QED  BY <3>1, <3>2, <3>3
  <2>2. Q \in SUBSET Refs(t)
        BY <1>6
  <2> HIDE DEF Q
  <2>3. Q = {}
        BY <1>0, <2>1, <2>2, NothingInItself
  <2> QED  BY <2>3 DEF Q
<1>8. \A q \in B : q \in Endpoint /\ HomeOf(t, q) = Unsorted
  <2> SUFFICES ASSUME NEW q \in B PROVE q \in Endpoint /\ HomeOf(t, q) = Unsorted
      OBVIOUS
  <2>1. q \in Endpoint
        BY <1>6, <1>7 DEF Refs
  <2>2. HomeOf(t, q) \in Collected(t) \cup {Unsorted}
        BY <1>0, <2>1, Homes DEF Refs
  <2> QED  BY <1>6, <1>7, <2>1, <2>2
<1>9. \A q \in A : HomeOf(t, q) # Unsorted
  <2>1. Unsorted \notin A /\ Unsorted # Root
        BY <1>0, <1>5, LabelAssumption DEF Refs, Rooted, Key
  <2> QED  BY <1>5, <2>1
<1>10. \A q \in A \cup B : q \in Endpoint => q \in ToSet(items[HomeOf(t, q)]) /\ HomeOf(t, q) \in Key
  <2> SUFFICES ASSUME NEW q \in A \cup B, q \in Endpoint
               PROVE  q \in ToSet(items[HomeOf(t, q)]) /\ HomeOf(t, q) \in Key
      OBVIOUS
  <2>1. HomeOf(t, q) \in Key /\ q \notin Collected(t)
        BY <1>0, Homes DEF Refs
  <2>2. q \in ToSet(refs[HomeOf(t, q)])
        BY <1>5, <1>6
  <2> QED  BY <1>1, <2>1, <2>2 DEF Children
<1>11. ASSUME NEW k \in Key, NEW e \in ToSet(items[k]) PROVE e \in Endpoint /\ e \in A \cup B
  <2>1. e \in Endpoint /\ HomeOf(t, e) = k
        BY <1>11 DEF Sorted
  <2>2. k \in Collected(t) \cup {Unsorted}
        BY <1>0, <2>1, Homes DEF Refs
  <2>3. e \in ToSet(refs[k])
        BY <1>1
  <2> QED  BY <1>5, <1>6, <2>1, <2>2, <2>3
<1> DEFINE fr == Forest(items, t, order, Root)
           fu == Forest(items, t, order, Unsorted)
<1>12. Listed(fr) /\ IsInjective(fr) /\ ToSet(fr) = A \cap Endpoint
  <2>1. fr = Only(w(Root), Endpoint)
        BY <1>2
  <2> QED  BY <1>5, <2>1, OnlyLaws DEF A
<1>13. Listed(fu) /\ IsInjective(fu) /\ ToSet(fu) = B \cap Endpoint
  <2>1. fu = Only(w(Unsorted), Endpoint)
        BY <1>2
  <2> QED  BY <1>6, <2>1, OnlyLaws DEF B
<1>14. (A \cap Endpoint) \cap (B \cap Endpoint) = {}
       BY <1>8, <1>9
<1>15. (A \cap Endpoint) \cup (B \cap Endpoint) = UNION {ToSet(items[k]) : k \in Key}
       BY <1>10, <1>11
<1> HIDE DEF fr, fu
<1>16. /\ Listed(fr) /\ IsInjective(fr) /\ Listed(fu) /\ IsInjective(fu)
       /\ ToSet(fr) \cap ToSet(fu) = {} /\ ToSet(fr) \cup ToSet(fu) = UNION {ToSet(items[k]) : k \in Key}
       BY <1>12, <1>13, <1>14, <1>15
<1> QED  BY <1>16 DEF fr, fu

\* A normal tree is shown whole.
LEMMA NormalShownWhole ==
  ASSUME NEW t, Normal(t)
  PROVE  LET items == listAdminMocks(t)
             shown == Forest(items, t, resolveChildOrder(t, listAdminMocks(t)), Root)
                        \o Forest(items, t, resolveChildOrder(t, listAdminMocks(t)), Unsorted)
         IN  IsInjective(shown) /\ ToSet(shown) = {e \in Endpoint : onDisk[e] = "ok"}
<1> DEFINE items == listAdminMocks(t)
           order == resolveChildOrder(t, items)
           fr == Forest(items, t, order, Root)
           fu == Forest(items, t, order, Unsorted)
<1>1. Sorted(t, items) /\ \A k \in Key : ToSet(items[k]) = Readable(t, k)
      BY ListedMocks
<1> HIDE DEF items
<1>2. \A k \in Key : Listed(order[k])
      BY <1>1, ResolvedLaws
<1> HIDE DEF order
<1>3. /\ Listed(fr) /\ IsInjective(fr) /\ Listed(fu) /\ IsInjective(fu)
      /\ ToSet(fr) \cap ToSet(fu) = {} /\ ToSet(fr) \cup ToSet(fu) = UNION {ToSet(items[k]) : k \in Key}
      BY <1>1, <1>2, ForestLaws
<1> HIDE DEF fr, fu
<1>4. IsInjective(fr \o fu) /\ ToSet(fr \o fu) = UNION {ToSet(items[k]) : k \in Key}
      BY <1>3, JoinLaws
<1>5. UNION {ToSet(items[k]) : k \in Key} = {e \in Endpoint : onDisk[e] = "ok"}
  <2>1. ASSUME NEW e \in Endpoint, onDisk[e] = "ok"
        PROVE  HomeOf(t, e) \in Key /\ e \in ToSet(items[HomeOf(t, e)])
    <3>1. HomeOf(t, e) \in Key
          BY Homes DEF Normal, Refs
    <3>2. e \in Readable(t, HomeOf(t, e))
          BY <2>1 DEF Readable
    <3> QED  BY <1>1, <3>1, <3>2
  <2>2. \A k \in Key : ToSet(items[k]) \subseteq {e \in Endpoint : onDisk[e] = "ok"}
        BY <1>1 DEF Readable
  <2> QED  BY <2>1, <2>2
<1>6. IsInjective(fr \o fu) /\ ToSet(fr \o fu) = {e \in Endpoint : onDisk[e] = "ok"}
      BY <1>4, <1>5
<1> QED  BY <1>6 DEF fr, fu, order, items

-------------------------------------------------------------------------------
(* What is written is normal.                                              *)

\* What any file of collections holds at least.
Raw(t) ==
  /\ DOMAIN t = DOMAIN NoCollections
  /\ t.collections \in Seq(Id) /\ IsInjective(t.collections)
  /\ \A k \in Key : Listed(t.childOrder[k])

\* Nothing is in the empty sequence.
LEMMA EmptyIs == <<>> \in Seq(Id) /\ Listed(<<>>) /\ IsInjective(<<>>) /\ ToSet(<<>>) = {}
<1>1. <<>> \in Seq(Id) /\ <<>> \in Seq({})
      OBVIOUS
<1>2. DOMAIN <<>> = {}
      OBVIOUS
<1>3. Listed(<<>>)
      BY <1>1, SeqIsListed
<1>4. IsInjective(<<>>)
      BY <1>2 DEF IsInjective
<1>5. ToSet(<<>>) = {}
      BY <1>2 DEF ToSet
<1> QED  BY <1>1, <1>3, <1>4, <1>5

LEMMA RawFiles == \A t \in RawTrees \cup {NoCollections} : Raw(t)
<1>1. \A t \in RawTrees : Raw(t)
      BY RawAssumption DEF Raw, Listed
<1>2. Raw(NoCollections)
  <2>1. NoCollections.collections = <<>> /\ \A k \in Key : NoCollections.childOrder[k] = <<>>
        BY DEF NoCollections
  <2> QED  BY <2>1, EmptyIs DEF Raw
<1> QED  BY <1>1, <1>2

\* The collections and memberships of the tree that is read.
Pruned(raw) ==
  [raw EXCEPT
     !.parent = [c \in Id |-> IF c \in Collected(raw) THEN resolveCollectionParentId(raw, c) ELSE Nil],
     !.memberships = [e \in Endpoint |-> IF @[e] \in Collected(raw) THEN @[e] ELSE Nil]]

LEMMA PrunedIs ==
  ASSUME NEW raw, Raw(raw)
  PROVE  LET t == Pruned(raw)
             n == normalizeCollectionState(raw)
         IN  /\ t.collections = raw.collections /\ Collected(t) = Collected(raw)
             /\ \A c \in Id : t.parent[c] = IF c \in Collected(raw) THEN resolveCollectionParentId(raw, c)
                                            ELSE Nil
             /\ \A e \in Endpoint : t.memberships[e] = IF raw.memberships[e] \in Collected(raw)
                                                       THEN raw.memberships[e] ELSE Nil
             /\ DOMAIN n = DOMAIN NoCollections
             /\ DOMAIN n.parent = Id /\ DOMAIN n.memberships = Endpoint /\ DOMAIN n.childOrder = Key
             /\ n.collections = t.collections
             /\ n.parent = t.parent /\ n.memberships = t.memberships
             /\ \A k \in Key : n.childOrder[k] =
                  IF k \notin Collected(raw) \cup {Root, Unsorted} THEN <<>>
                  ELSE IF raw.legacy THEN deriveLegacyChildOrder(raw, t, k)
                  ELSE normalizeChildOrder(raw, t, k)
<1> DEFINE t == Pruned(raw)
           n == normalizeCollectionState(raw)
<1>1. DOMAIN raw = {"collections", "parent", "memberships", "childOrder", "legacy"}
      BY DEF Raw, NoCollections
<1>2. /\ t.collections = raw.collections /\ DOMAIN t = DOMAIN raw
      /\ t.parent = [c \in Id |-> IF c \in Collected(raw) THEN resolveCollectionParentId(raw, c) ELSE Nil]
      /\ t.memberships = [e \in Endpoint |-> IF raw.memberships[e] \in Collected(raw)
                                             THEN raw.memberships[e] ELSE Nil]
      BY <1>1 DEF Pruned
<1>3. n = [t EXCEPT
             !.childOrder = [k \in Key |->
                IF k \notin Collected(raw) \cup {Root, Unsorted} THEN <<>>
                ELSE IF raw.legacy THEN deriveLegacyChildOrder(raw, t, k)
                ELSE normalizeChildOrder(raw, t, k)],
             !.legacy = FALSE]
      BY DEF normalizeCollectionState, Pruned
<1> HIDE DEF t, n
<1>4. /\ DOMAIN n = DOMAIN raw /\ n.collections = t.collections /\ n.parent = t.parent
      /\ n.memberships = t.memberships
      /\ n.childOrder = [k \in Key |->
                IF k \notin Collected(raw) \cup {Root, Unsorted} THEN <<>>
                ELSE IF raw.legacy THEN deriveLegacyChildOrder(raw, t, k)
                ELSE normalizeChildOrder(raw, t, k)]
      BY <1>1, <1>2, <1>3
<1>5. /\ Collected(t) = Collected(raw) /\ DOMAIN n.parent = Id /\ DOMAIN n.memberships = Endpoint
      /\ DOMAIN n.childOrder = Key
      BY <1>2, <1>4 DEF Collected
<1>6. DOMAIN raw = DOMAIN NoCollections
      BY DEF Raw
<1>7. \A c \in Id : t.parent[c] = IF c \in Collected(raw) THEN resolveCollectionParentId(raw, c) ELSE Nil
      BY <1>2
<1>8. \A e \in Endpoint : t.memberships[e] = IF raw.memberships[e] \in Collected(raw)
                                             THEN raw.memberships[e] ELSE Nil
      BY <1>2
<1>9. \A k \in Key : n.childOrder[k] =
                  IF k \notin Collected(raw) \cup {Root, Unsorted} THEN <<>>
                  ELSE IF raw.legacy THEN deriveLegacyChildOrder(raw, t, k)
                  ELSE normalizeChildOrder(raw, t, k)
      BY <1>4
<1> QED  BY <1>2, <1>4, <1>5, <1>6, <1>7, <1>8, <1>9 DEF t, n

\* The collections of a sequence are finitely many.
LEMMA CollectedFinite ==
  ASSUME NEW t, t.collections \in Seq(Id)
  PROVE  IsFiniteSet(Collected(t)) /\ Collected(t) \subseteq Id
<1> DEFINE s == t.collections
<1>1. Len(s) \in Nat /\ DOMAIN s = 1..Len(s) /\ \A i \in 1..Len(s) : s[i] \in Id
      OBVIOUS
<1>2. ToSet(s) = {s[i] : i \in 1..Len(s)}
      BY <1>1 DEF ToSet
<1>3. IsFiniteSet(1..Len(s))
      BY <1>1, FS_Interval
<1> HIDE DEF s
<1>4. IsFiniteSet({s[i] : i \in 1..Len(s)})
  <2> DEFINE f == [i \in 1..Len(s) |-> s[i]]
             T == {s[i] : i \in 1..Len(s)}
  <2>1. f \in Surjection(1..Len(s), T)
        BY DEF Surjection
  <2> HIDE DEF f, T
  <2>2. IsFiniteSet(T)
        BY <1>3, <2>1, FS_Surjection
  <2> QED  BY <2>2 DEF T
<1> QED  BY <1>1, <1>2, <1>4 DEF Collected, s

LEMMA PrunedRooted ==
  ASSUME NEW raw, Raw(raw)
  PROVE  Rooted(Pruned(raw))
<1> DEFINE t == Pruned(raw)
<1>1. /\ Collected(t) = Collected(raw) /\ t.collections = raw.collections
      /\ \A c \in Id : t.parent[c] = IF c \in Collected(raw) THEN resolveCollectionParentId(raw, c) ELSE Nil
      /\ \A e \in Endpoint : t.memberships[e] = IF raw.memberships[e] \in Collected(raw)
                                                THEN raw.memberships[e] ELSE Nil
  <2> HIDE DEF t
  <2> QED  BY PrunedIs DEF t
<1> HIDE DEF t
<1>2. IsFiniteSet(Collected(t)) /\ Collected(t) \subseteq Id
      BY <1>1, CollectedFinite DEF Raw
<1>3. \A c \in Collected(t) : /\ t.parent[c] \in Collected(t) \cup {Nil}
                              /\ t.parent[c] # Nil => t.parent[c] = raw.parent[c] /\ ~Loops(raw, c)
      BY <1>1, <1>2 DEF resolveCollectionParentId
<1>4. ASSUME NEW Q \in SUBSET Collected(t), \A x \in Q : t.parent[x] \in Q, NEW q \in Q PROVE FALSE
  <2>1. Nil \notin Q
        BY <1>2, LabelAssumption
  <2>2. \A x \in Q : raw.parent[x] \in Q
        BY <1>3, <1>4, <2>1
  <2>3. Loops(raw, q)
        BY <1>1, <1>4, <2>2 DEF Loops
  <2> QED  BY <1>3, <1>4, <2>1, <2>3
<1>5. \A Q \in SUBSET Collected(t) : (\A x \in Q : t.parent[x] \in Q) => Q = {}
      BY <1>4
<1>6. \A e \in Endpoint : t.memberships[e] \in Collected(t) \cup {Nil}
      BY <1>1
<1> QED  BY <1>2, <1>3, <1>5, <1>6 DEF Rooted, t

\* Where things live depends on the collections, their parents and the memberships.
LEMMA SameHomes ==
  ASSUME NEW t, NEW u, t.collections = u.collections, t.parent = u.parent, t.memberships = u.memberships
  PROVE  /\ Collected(t) = Collected(u) /\ \A r : HomeOf(t, r) = HomeOf(u, r)
         /\ \A k : Children(t, k) = Children(u, k)
         /\ Rooted(t) <=> Rooted(u)
<1>1. Collected(t) = Collected(u)
      BY DEF Collected
<1>2. \A r : HomeOf(t, r) = HomeOf(u, r)
      BY <1>1 DEF HomeOf
<1> QED  BY <1>1, <1>2 DEF Children, Rooted

\* A bucket that is read.
LEMMA BucketRead ==
  ASSUME NEW raw, Raw(raw), NEW t, Rooted(t), t.collections = raw.collections, NEW k \in Key
  PROVE  \A s \in {normalizeChildOrder(raw, t, k), deriveLegacyChildOrder(raw, t, k)} :
           /\ Listed(s) /\ IsInjective(s) /\ \A r \in ToSet(s) : HomeOf(t, r) = k
<1> DEFINE f == Firsts(raw.childOrder[k])
           a == normalizeChildOrder(raw, t, k)
           e == Only(a, Endpoint)
           c == Only(t.collections, Children(t, k))
<1>1. Listed(f) /\ IsInjective(f)
      BY FirstsLaws DEF Raw
<1>2. a = Only(f, {r \in ToSet(f) : HomeOf(t, r) = k})
      BY DEF normalizeChildOrder
<1> HIDE DEF f
<1>3. Listed(a) /\ IsInjective(a) /\ ToSet(a) = ToSet(f) \cap {r \in ToSet(f) : HomeOf(t, r) = k}
  <2> DEFINE S == {r \in ToSet(f) : HomeOf(t, r) = k}
  <2> HIDE DEF S, a
  <2>1. a = Only(f, S)
        BY <1>2 DEF S
  <2>2. Listed(a) /\ IsInjective(a) /\ ToSet(a) = ToSet(f) \cap S
        BY <1>1, <2>1, OnlyLaws
  <2> QED  BY <2>2 DEF S
<1>4. deriveLegacyChildOrder(raw, t, k) = e \o c
      BY DEF deriveLegacyChildOrder
<1> HIDE DEF a
<1>5. Listed(e) /\ IsInjective(e) /\ ToSet(e) = ToSet(a) \cap Endpoint
      BY <1>3, OnlyLaws
<1>6. Listed(c) /\ IsInjective(c) /\ ToSet(c) = ToSet(t.collections) \cap Children(t, k)
  <2>1. Listed(t.collections) /\ IsInjective(t.collections)
        BY SeqIsListed DEF Raw
  <2> QED  BY <2>1, OnlyLaws
<1> HIDE DEF e, c
<1>7. ToSet(e) \cap ToSet(c) = {} /\ \A r \in ToSet(e) \cup ToSet(c) : HomeOf(t, r) = k
  <2>1. Children(t, k) \cap Endpoint = {}
        BY LabelAssumption DEF Children, Rooted, Key
  <2> QED  BY <1>3, <1>5, <1>6, <2>1 DEF Children
<1>8. Listed(e \o c) /\ IsInjective(e \o c) /\ ToSet(e \o c) = ToSet(e) \cup ToSet(c)
      BY <1>5, <1>6, <1>7, JoinLaws
<1> QED  BY <1>3, <1>4, <1>7, <1>8 DEF a

\* Whatever an operation made of it.
LEMMA NormalizedIsNormal ==
  ASSUME NEW raw, Raw(raw)
  PROVE  Normal(normalizeCollectionState(raw))
<1> DEFINE t == Pruned(raw)
           n == normalizeCollectionState(raw)
<1>1. Rooted(t)
      BY PrunedRooted
<1>2. /\ t.collections = raw.collections /\ Collected(t) = Collected(raw)
      /\ DOMAIN n = DOMAIN NoCollections /\ n.collections = t.collections
      /\ DOMAIN n.parent = Id /\ DOMAIN n.memberships = Endpoint /\ DOMAIN n.childOrder = Key
      /\ n.parent = t.parent /\ n.memberships = t.memberships
  <2> HIDE DEF t, n
  <2> QED  BY PrunedIs DEF t, n
<1>3. \A k \in Key : n.childOrder[k] \in {<<>>, normalizeChildOrder(raw, t, k), deriveLegacyChildOrder(raw, t, k)}
  <2> HIDE DEF t, n
  <2>1. \A k \in Key : n.childOrder[k] =
                  IF k \notin Collected(raw) \cup {Root, Unsorted} THEN <<>>
                  ELSE IF raw.legacy THEN deriveLegacyChildOrder(raw, t, k)
                  ELSE normalizeChildOrder(raw, t, k)
        BY PrunedIs DEF t, n
  <2> QED  BY <2>1
<1> HIDE DEF t, n
<1>4. Rooted(n) /\ \A r : HomeOf(n, r) = HomeOf(t, r)
      BY <1>1, <1>2, SameHomes
<1>5. Listed(<<>>) /\ IsInjective(<<>>) /\ ToSet(<<>>) = {}
      BY EmptyIs
<1>6. ASSUME NEW k \in Key
      PROVE  Listed(n.childOrder[k]) /\ IsInjective(n.childOrder[k]) /\ \A r \in ToSet(n.childOrder[k]) : HomeOf(n, r) = k
  <2>1. \A s \in {normalizeChildOrder(raw, t, k), deriveLegacyChildOrder(raw, t, k)} :
           /\ Listed(s) /\ IsInjective(s) /\ \A r \in ToSet(s) : HomeOf(t, r) = k
        BY <1>1, <1>2, BucketRead
  <2> QED  BY <1>3, <1>4, <1>5, <2>1
<1> QED  BY <1>2, <1>4, <1>6 DEF Normal, Raw, n

\* A depth-first pass meets every collection.
LEMMA DepthFirstWhole ==
  ASSUME NEW t, Normal(t), NEW order, Ordered(t, order),
         \A c \in Collected(t) : c \in ToSet(order[HomeOf(t, c)])
  PROVE  LET s == DepthFirst(order, Collected(t))
         IN  Listed(s) /\ IsInjective(s) /\ ToSet(s) = Collected(t)
<1> DEFINE w == Walk(order, Collected(t), Root)
<1>1. Rooted(t)
      BY DEF Normal
<1>2. Collected(t) \subseteq ToSet(w)
      BY <1>1, WalkMeetsAll
<1>3. Listed(w) /\ IsInjective(w)
      BY <1>1, WalkLaws DEF Walked, Key
<1> HIDE DEF w
<1>4. /\ Listed(Only(w, Collected(t))) /\ IsInjective(Only(w, Collected(t)))
      /\ ToSet(Only(w, Collected(t))) = ToSet(w) \cap Collected(t)
      BY <1>3, OnlyLaws
<1> QED  BY <1>2, <1>4 DEF DepthFirst, w

\* The order of creation is one.
LEMMA CreationOrder ==
  ASSUME NEW t, Normal(t)
  PROVE  ToSet(DepthFirst([k \in Key |-> Only(t.collections, Children(t, k))], Collected(t))) = Collected(t)
<1> DEFINE order == [k \in Key |-> Only(t.collections, Children(t, k))]
<1>1. ASSUME NEW k \in Key
      PROVE  Listed(order[k]) /\ IsInjective(order[k]) /\ ToSet(order[k]) = Children(t, k)
  <2>1. Listed(t.collections) /\ IsInjective(t.collections)
        BY SeqIsListed DEF Normal
  <2> DEFINE c == Only(t.collections, Children(t, k))
  <2>2. Listed(c) /\ IsInjective(c) /\ ToSet(c) = ToSet(t.collections) \cap Children(t, k)
        BY <2>1, OnlyLaws
  <2>3. order[k] = c
        OBVIOUS
  <2> HIDE DEF c, order
  <2> QED  BY <2>2, <2>3 DEF Children, Collected
<1> HIDE DEF order
<1>2. Ordered(t, order)
      BY <1>1 DEF Ordered, Children, Refs
<1>3. \A c \in Collected(t) : c \in ToSet(order[HomeOf(t, c)])
      BY <1>1, Homes DEF Children, Refs, Normal
<1>4. ToSet(DepthFirst(order, Collected(t))) = Collected(t)
      BY <1>2, <1>3, DepthFirstWhole
<1> QED  BY <1>4 DEF order

-------------------------------------------------------------------------------
(* What the operations do to the orders: always to sequences.              *)

\* A part of a sequence.
LEMMA PartListed ==
  ASSUME NEW s, Listed(s), NEW m \in Nat \ {0}, NEW n \in 0..Len(s), m <= n + 1
  PROVE  Listed(SubSeq(s, m, n))
<1>1. s \in Seq(ToSet(s))
      BY DEF Listed
<1>2. SubSeq(s, m, n) \in Seq(ToSet(s))
  <2> DEFINE S == ToSet(s)
  <2> HIDE DEF S
  <2>1. s \in Seq(S)
        BY <1>1 DEF S
  <2>2. SubSeq(s, m, n) \in Seq(S)
        BY <2>1
  <2> QED  BY <2>2 DEF S
<1> QED  BY <1>2, SeqIsListed

LEMMA OneListed == \A r : Listed(<<r>>) /\ ToSet(<<r>>) = {r} /\ IsInjective(<<r>>)
<1> SUFFICES ASSUME NEW r PROVE Listed(<<r>>) /\ ToSet(<<r>>) = {r} /\ IsInjective(<<r>>)
    OBVIOUS
<1>1. <<r>> \in Seq({r}) /\ DOMAIN <<r>> = {1} /\ <<r>>[1] = r
      OBVIOUS
<1>2. ToSet(<<r>>) = {r}
      BY <1>1 DEF ToSet
<1> QED  BY <1>1, <1>2, SeqIsListed DEF IsInjective

LEMMA WithoutListed ==
  ASSUME NEW order, NEW refs, \A k \in Key : Listed(order[k])
  PROVE  DOMAIN Without(order, refs) = Key /\ \A k \in Key : Listed(Without(order, refs)[k])
<1>1. \A k \in Key : Without(order, refs)[k] = Only(order[k], ToSet(order[k]) \ refs)
      BY DEF Without
<1>2. \A k \in Key : Listed(Only(order[k], ToSet(order[k]) \ refs))
      BY OnlyLaws
<1>3. DOMAIN Without(order, refs) = Key
      BY DEF Without
<1> QED  BY <1>1, <1>2, <1>3

LEMMA InsertedListed ==
  ASSUME NEW order, DOMAIN order = Key, \A k \in Key : Listed(order[k]),
         NEW ref, NEW b \in Key, NEW index \in Nat
  PROVE  \A k \in Key : Listed(Inserted(order, ref, b, index)[k])
<1> DEFINE s == Only(order[b], ToSet(order[b]) \ {ref})
           n == (IF index < Len(s) THEN index ELSE Len(s)) + 1
           front == SubSeq(s, 1, n - 1)
           back == SubSeq(s, n, Len(s))
<1>1. Listed(s)
      BY OnlyLaws
<1>2. Inserted(order, ref, b, index) = [order EXCEPT ![b] = InsertAt(s, n, ref)]
      BY DEF Inserted
<1>3. InsertAt(s, n, ref) = (front \o <<ref>>) \o back
      BY DEF InsertAt
<1> HIDE DEF s
<1>4. n \in Nat \ {0} /\ n - 1 \in 0..Len(s) /\ n <= Len(s) + 1 /\ Len(s) \in 0..Len(s)
  <2>1. Len(s) \in Nat
        BY <1>1, ListedIs
  <2> QED  BY <2>1
<1> HIDE DEF n
<1>5. Listed(front)
      BY <1>1, <1>4, PartListed
<1>6. Listed(back)
      BY <1>1, <1>4, PartListed
<1> HIDE DEF front, back
<1>7. Listed(front \o <<ref>>)
      BY <1>5, OneListed, JoinLaws
<1>8. Listed((front \o <<ref>>) \o back)
      BY <1>6, <1>7, JoinLaws
<1> QED  BY <1>2, <1>3, <1>8

\* The first part has the places, the second what is left of new.
LEMMA InPlaceListed ==
  ASSUME NEW s, Listed(s), NEW refs, NEW new, Listed(new)
  PROVE  Listed(InPlace(s, refs, new))
<1> DEFINE met(i) == Cardinality({j \in 1..i : s[j] \in refs})
           first == [i \in DOMAIN s |-> IF s[i] \in refs THEN new[met(i)] ELSE s[i]]
           m == met(Len(s))
<1>1. PICK n \in Nat : Len(s) = n /\ DOMAIN s = 1..n
      BY ListedIs
<1>2. InPlace(s, refs, new) = first \o SubSeq(new, m + 1, Len(new))
      BY DEF InPlace
<1>3. m \in Nat
  <2>1. IsFiniteSet({j \in 1..n : s[j] \in refs})
    <3>1. IsFiniteSet(1..n)
          BY FS_Interval
    <3> QED  BY <3>1, FS_Subset
  <2> QED  BY <1>1, <2>1, FS_CardinalityType
<1> HIDE DEF m
<1>4. Listed(first)
  <2>1. first = [i \in 1..n |-> first[i]]
        BY <1>1
  <2>2. DOMAIN first = 1..n
        BY <1>1
  <2> HIDE DEF first
  <2>3. Len(first) = n
        BY <2>1
  <2> QED  BY <2>1, <2>2, <2>3, ListedIs
<1> HIDE DEF first
<1>5. Listed(SubSeq(new, m + 1, Len(new)))
  <2>0. Len(new) \in Nat
        BY ListedIs
  <2>1. CASE m <= Len(new)
    <3>1. m + 1 \in Nat \ {0} /\ Len(new) \in 0..Len(new) /\ m + 1 <= Len(new) + 1
          BY <1>3, <2>0, <2>1
    <3> QED  BY <3>1, PartListed
  <2>2. CASE m > Len(new)
    <3>1. SubSeq(new, m + 1, Len(new)) = <<>>
      <4>1. new \in Seq(ToSet(new))
            BY DEF Listed
      <4> DEFINE S == ToSet(new)
      <4>2. new \in Seq(S)
            BY <4>1
      <4> HIDE DEF S
      <4> QED  BY <1>3, <2>0, <2>2, <4>2
    <3> QED  BY <3>1, EmptyIs
  <2> QED  BY <1>3, <2>0, <2>1, <2>2
<1> QED  BY <1>2, <1>4, <1>5, JoinLaws

\* What a drag asks for is a sequence of the same.
LEMMA ReordersListed ==
  ASSUME NEW s, Listed(s)
  PROVE  \A q \in Reorders(s) : Listed(q)
<1> DEFINE S == ToSet(s)
<1>1. s \in Seq(S) /\ Len(s) \in Nat
      BY DEF Listed
<1>2. CASE Len(s) < 2
      BY <1>2 DEF Reorders
<1>3. CASE ~(Len(s) < 2)
  <2> HIDE DEF S
  <2>1. Reverse(s) \in Seq(S)
        BY <1>1 DEF Reverse
  <2>2. Append(Tail(s), Head(s)) \in Seq(S)
        BY <1>1, <1>3
  <2>3. Listed(Reverse(s)) /\ Listed(Append(Tail(s), Head(s)))
        BY <2>1, <2>2, SeqIsListed
  <2> QED  BY <1>3, <2>3 DEF Reorders
<1> QED  BY <1>1, <1>2, <1>3

\* it is what the first m looks of a subtree have met.
Meets(it, t, c, m) ==
  it = [n \in 0..m |->
          IF n = 0 THEN <<c>>
          ELSE LET s == it[n - 1]
                   x == t.collections[((n - 1) % Len(t.collections)) + 1]
               IN  s \o (IF x \notin ToSet(s) /\ t.parent[x] \in ToSet(s) THEN <<x>> ELSE <<>>)]

LEMMA MetDef ==
  ASSUME NEW t, NEW c
  PROVE  LET m == Len(t.collections) * Len(t.collections)
         IN  readCollectionSubtreeIds(t, c) = Only((CHOOSE it : Meets(it, t, c, m))[m], Subtree(t, c))
BY DEF readCollectionSubtreeIds, Meets

\* One look more.
Look(t, s, n) ==
  LET x == t.collections[((n - 1) % Len(t.collections)) + 1]
  IN  s \o (IF x \notin ToSet(s) /\ t.parent[x] \in ToSet(s) THEN <<x>> ELSE <<>>)

LEMMA MeetsAt ==
  ASSUME NEW it, NEW t, NEW c, NEW m \in Nat, Meets(it, t, c, m)
  PROVE  /\ it[0] = <<c>>
         /\ \A n \in 1..m : it[n] = Look(t, it[n - 1], n)
<1>0. it = [n \in 0..m |-> IF n = 0 THEN <<c>> ELSE Look(t, it[n - 1], n)]
      BY DEF Meets, Look
<1>1. it[0] = <<c>>
  <2>1. 0 \in 0..m
        OBVIOUS
  <2> QED  BY <1>0, <2>1
<1>2. ASSUME NEW n \in 1..m PROVE it[n] = Look(t, it[n - 1], n)
  <2>1. n \in 0..m /\ n # 0
        OBVIOUS
  <2> QED  BY <1>0, <2>1
<1> QED  BY <1>1, <1>2

LEMMA MeetsFurther ==
  ASSUME NEW t, NEW c, NEW m \in Nat, NEW it, Meets(it, t, c, m)
  PROVE  \E new : Meets(new, t, c, m + 1)
<1> DEFINE new == [n \in 0..(m + 1) |-> IF n <= m THEN it[n] ELSE Look(t, it[m], n)]
<1>1. it[0] = <<c>> /\ \A n \in 1..m : it[n] = Look(t, it[n - 1], n)
      BY MeetsAt
<1>2. \A n \in 0..m : new[n] = it[n]
      OBVIOUS
<1>3. new[m + 1] = Look(t, it[m], m + 1)
      OBVIOUS
<1>4. new = [n \in 0..(m + 1) |-> new[n]]
      OBVIOUS
<1> HIDE DEF new
<1>5. ASSUME NEW n \in 0..(m + 1)
      PROVE  new[n] = IF n = 0 THEN <<c>> ELSE Look(t, new[n - 1], n)
  <2>1. CASE n = 0
        BY <1>1, <1>2, <2>1
  <2>2. CASE n # 0 /\ n <= m
    <3>1. n \in 1..m /\ n - 1 \in 0..m /\ n \in 0..m
          BY <2>2
    <3> QED  BY <1>1, <1>2, <2>2, <3>1
  <2>3. CASE n = m + 1
    <3>1. (m + 1) - 1 = m /\ m \in 0..m /\ n # 0
          BY <2>3
    <3>2. new[n - 1] = it[m]
          BY <1>2, <2>3, <3>1
    <3> QED  BY <1>3, <2>3, <3>1, <3>2
  <2> QED  BY <2>1, <2>2, <2>3
<1>6. [n \in 0..(m + 1) |-> new[n]] = [n \in 0..(m + 1) |-> IF n = 0 THEN <<c>> ELSE Look(t, new[n - 1], n)]
      BY <1>5
<1>7. Meets(new, t, c, m + 1)
      BY <1>4, <1>6 DEF Meets, Look
<1> QED  BY <1>7

LEMMA MeetsExists == ASSUME NEW t, NEW c, NEW m \in Nat PROVE \E it : Meets(it, t, c, m)
<1> DEFINE X == {k \in Nat : ~\E it : Meets(it, t, c, k)}
<1>1. SUFFICES ASSUME X # {} PROVE FALSE
      OBVIOUS
<1>2. PICK k \in X : \A j \in X : k <= j
  <2>1. X \in SUBSET Nat
        OBVIOUS
  <2> HIDE DEF X
  <2> QED  BY <1>1, <2>1, SmallestNat
<1>3. k \in Nat /\ ~\E it : Meets(it, t, c, k)
      BY <1>2
<1>4. CASE k = 0
  <2> DEFINE it == [n \in 0..0 |-> <<c>>]
  <2>1. Meets(it, t, c, 0)
    <3>1. \A n \in 0..0 : n = 0
          OBVIOUS
    <3>2. [n \in 0..0 |-> <<c>>] = [n \in 0..0 |-> IF n = 0 THEN <<c>> ELSE Look(t, it[n - 1], n)]
          BY <3>1
    <3> HIDE DEF it
    <3> QED  BY <3>2 DEF Meets, Look, it
  <2> HIDE DEF it
  <2> QED  BY <1>3, <1>4, <2>1
<1>5. CASE k # 0
  <2>1. k - 1 \in Nat /\ k - 1 \notin X /\ (k - 1) + 1 = k
        BY <1>2, <1>3, <1>5
  <2>2. PICK it : Meets(it, t, c, k - 1)
        BY <2>1
  <2> HIDE DEF X
  <2>3. \E new : Meets(new, t, c, (k - 1) + 1)
        BY <2>1, <2>2, MeetsFurther
  <2> QED  BY <1>3, <2>1, <2>3
<1> QED  BY <1>4, <1>5

\* The order of a subtree.
LEMMA SubtreeListed ==
  ASSUME NEW t, NEW c, Listed(t.collections)
  PROVE  Listed(readCollectionSubtreeIds(t, c)) /\ ToSet(readCollectionSubtreeIds(t, c)) \subseteq Subtree(t, c)
<1> DEFINE m == Len(t.collections) * Len(t.collections)
           it == CHOOSE it : Meets(it, t, c, m)
           X == {n \in 0..m : ~Listed(it[n])}
<1>0. m \in Nat
  <2>1. Len(t.collections) \in Nat
        BY ListedIs
  <2> QED  BY <2>1
<1>1. readCollectionSubtreeIds(t, c) = Only(it[m], Subtree(t, c))
      BY MetDef
<1> HIDE DEF m
<1>2. Meets(it, t, c, m)
      BY <1>0, MeetsExists
<1> HIDE DEF it
<1>3. it[0] = <<c>> /\ \A n \in 1..m : it[n] = Look(t, it[n - 1], n)
      BY <1>0, <1>2, MeetsAt
<1>4. X = {}
  <2>1. SUFFICES ASSUME X # {} PROVE FALSE
        OBVIOUS
  <2>2. PICK n \in X : \A j \in X : n <= j
    <3>1. X \in SUBSET Nat
          OBVIOUS
    <3> HIDE DEF X
    <3> QED  BY <2>1, <3>1, SmallestNat
  <2>3. n \in 0..m /\ ~Listed(it[n])
        BY <2>2
  <2>4. n # 0
        BY <1>3, <2>3, OneListed
  <2>5. n - 1 \in 0..m /\ n - 1 \notin X /\ n \in 1..m
        BY <1>0, <2>2, <2>3, <2>4
  <2>6. Listed(it[n - 1])
        BY <2>5
  <2> HIDE DEF X
  <2> DEFINE s == it[n - 1]
             x == t.collections[((n - 1) % Len(t.collections)) + 1]
             z == IF x \notin ToSet(s) /\ t.parent[x] \in ToSet(s) THEN <<x>> ELSE <<>>
  <2>7. it[n] = s \o z
        BY <1>3, <2>5 DEF Look
  <2>8. Listed(z)
    <3> HIDE DEF s, x
    <3> QED  BY OneListed, EmptyIs
  <2> HIDE DEF s, z
  <2>9. Listed(s \o z)
        BY <2>6, <2>8, JoinLaws DEF s
  <2> QED  BY <2>3, <2>7, <2>9
<1>5. Listed(it[m])
      BY <1>0, <1>4
<1>6. Listed(Only(it[m], Subtree(t, c))) /\ ToSet(Only(it[m], Subtree(t, c))) = ToSet(it[m]) \cap Subtree(t, c)
      BY <1>5, OnlyLaws
<1> QED  BY <1>1, <1>6

\* What a subtree is closed under.
LEMMA SubtreeLaws ==
  ASSUME NEW t, NEW c
  PROVE  /\ Subtree(t, c) \subseteq Collected(t)
         /\ c \in Collected(t) => c \in Subtree(t, c)
         /\ \A y \in Collected(t) : t.parent[y] \in Subtree(t, c) => y \in Subtree(t, c)
<1>1. ASSUME NEW y \in Collected(t), t.parent[y] \in Subtree(t, c) PROVE y \in Subtree(t, c)
  <2> SUFFICES ASSUME NEW S \in SUBSET Collected(t), c \in S,
                      \A z \in Collected(t) : t.parent[z] \in S => z \in S
               PROVE  y \in S
      BY DEF Subtree
  <2>1. t.parent[y] \in S
        BY <1>1 DEF Subtree
  <2> QED  BY <2>1
<1> QED  BY <1>1 DEF Subtree

-------------------------------------------------------------------------------
(* What an operation makes of a normal tree can be written.                *)

LEMMA NormalIsRaw == ASSUME NEW t, Normal(t) PROVE Raw(t) /\ Listed(t.collections)
BY SeqIsListed DEF Normal, Raw

LEMMA ListedInSeq == ASSUME NEW s, Listed(s), NEW S, ToSet(s) \subseteq S PROVE s \in Seq(S)
<1>1. PICK n \in Nat : s = [i \in 1..n |-> s[i]] /\ DOMAIN s = 1..n
      BY ListedIs
<1>2. \A i \in 1..n : s[i] \in S
      BY <1>1 DEF ToSet
<1>3. [i \in 1..n |-> s[i]] \in Seq(S)
      BY <1>2
<1> QED  BY <1>1, <1>3

\* Some of the collections.
LEMMA FewerCollections ==
  ASSUME NEW t, Normal(t), NEW S
  PROVE  LET s == Only(t.collections, S)
         IN  s \in Seq(Id) /\ IsInjective(s) /\ ToSet(s) = Collected(t) \cap S
<1> DEFINE s == Only(t.collections, S)
<1>1. Listed(t.collections) /\ IsInjective(t.collections)
      BY NormalIsRaw DEF Normal
<1>2. Listed(s) /\ IsInjective(s) /\ ToSet(s) = ToSet(t.collections) \cap S
      BY <1>1, OnlyLaws
<1> HIDE DEF s
<1>3. ToSet(s) \subseteq Id /\ ToSet(s) = Collected(t) \cap S
      BY <1>2 DEF Normal, Rooted, Collected
<1> QED  BY <1>2, <1>3, ListedInSeq DEF s

\* The number of a new collection.
LEMMA NewId ==
  ASSUME NEW t, NEW label \in Label, <<label, MaxSame>> \notin Collected(t)
  PROVE  LET c == buildCollectionId(t, label)
         IN  c \in Id /\ c \notin Collected(t) /\ c[1] = label
<1> DEFINE X == {n \in 1..MaxSame : <<label, n>> \notin Collected(t)}
           Free(n) == /\ <<label, n>> \notin Collected(t)
                      /\ \A m \in 1..(n - 1) : <<label, m>> \in Collected(t)
           n == CHOOSE n \in 1..MaxSame : Free(n)
<1>0. MaxSame \in Nat \ {0} /\ MaxSame \in 1..MaxSame
      BY TreeBoundAssumption
<1>1. PICK x \in X : \A y \in X : x <= y
  <2>1. X \in SUBSET Nat /\ X # {}
        BY <1>0
  <2> HIDE DEF X
  <2> QED  BY <2>1, SmallestNat
<1>2. x \in 1..MaxSame /\ <<label, x>> \notin Collected(t)
      BY <1>1
<1>3. ASSUME NEW m \in 1..(x - 1) PROVE <<label, m>> \in Collected(t)
  <2>1. m \in 1..MaxSame /\ m < x
        BY <1>0, <1>2
  <2>2. m \notin X
        BY <1>0, <1>1, <1>2, <2>1
  <2> QED  BY <2>1, <2>2
<1>4. Free(x)
      BY <1>2, <1>3
<1> HIDE DEF X, Free
<1>5. n \in 1..MaxSame /\ Free(n)
      BY <1>2, <1>4
<1>6. buildCollectionId(t, label) = <<label, n>>
      BY DEF buildCollectionId, Free
<1> HIDE DEF n
<1>7. <<label, n>> \in Id /\ <<label, n>>[1] = label /\ <<label, n>> \notin Collected(t)
      BY <1>5 DEF Id, Free
<1> QED  BY <1>6, <1>7

\* What is known of a mutation that writes.
JobShape(j) ==
  /\ Normal(j.known)
  /\ Listed(j.req.order) /\ \A k \in Key : Listed(j.items[k])
  /\ j.req.index \in Nat
  /\ j.req.op = "create" /\ j.req.target # Reserved =>
       j.req.target \in Label /\ <<j.req.target, MaxSame>> \notin Collected(j.known)

LEMMA CreatedIs ==
  ASSUME NEW j, JobShape(j), j.req.op = "create", ~Refused(j)
  PROVE  LET u == Created(j.known, j.req)
             c == buildCollectionId(j.known, j.req.target)
         IN  /\ Raw(u) /\ c \in Id /\ c \notin Collected(j.known) /\ c[1] = j.req.target
             /\ Collected(u) = Collected(j.known) \cup {c}
             /\ u.parent = [j.known.parent EXCEPT ![c] = IF j.req.into = Root THEN Nil ELSE j.req.into]
             /\ u.memberships = j.known.memberships
             /\ j.req.into \in Collected(j.known) \cup {Root}
             /\ ~LabelTaken(j.known, j.req.target, j.req.into, Nil)
<1> DEFINE t == j.known
           r == j.req
           u == Created(t, r)
           c == buildCollectionId(t, r.target)
           order == Inserted(t.childOrder, c, r.into, IF r.into = Root THEN LastIndex ELSE 0)
<1>1. /\ r.target # Reserved /\ r.into \in Collected(t) \cup {Root}
      /\ ~LabelTaken(t, r.target, r.into, Nil)
      BY DEF Refused
<1>2. Normal(t) /\ r.target \in Label /\ <<r.target, MaxSame>> \notin Collected(t)
      BY <1>1 DEF JobShape
<1> HIDE DEF t, r
<1>3. c \in Id /\ c \notin Collected(t) /\ c[1] = r.target
      BY <1>2, NewId
<1>4. u = [t EXCEPT !.collections = Append(@, c), !.parent[c] = IF r.into = Root THEN Nil ELSE r.into,
                    !.childOrder = order]
      BY DEF Created
<1> HIDE DEF c, u, order
<1>5. /\ DOMAIN u = DOMAIN t /\ u.collections = Append(t.collections, c)
      /\ u.parent = [t.parent EXCEPT ![c] = IF r.into = Root THEN Nil ELSE r.into]
      /\ u.memberships = t.memberships /\ u.childOrder = order
  <2>1. DOMAIN t = {"collections", "parent", "memberships", "childOrder", "legacy"}
        BY <1>2 DEF Normal, NoCollections
  <2> QED  BY <1>4, <2>1
<1>6. \A k \in Key : Listed(order[k])
  <2>1. r.into \in Key
        BY <1>1, <1>2 DEF Normal, Rooted, Key
  <2>2. (IF r.into = Root THEN LastIndex ELSE 0) \in Nat
        BY TreeBoundAssumption
  <2> QED  BY <1>2, <2>1, <2>2, InsertedListed DEF Normal, order
<1>7. /\ Append(t.collections, c) \in Seq(Id) /\ IsInjective(Append(t.collections, c))
      /\ ToSet(Append(t.collections, c)) = ToSet(t.collections) \cup {c}
  <2> DEFINE s == t.collections
  <2>1. s \in Seq(Id) /\ IsInjective(s) /\ c \notin ToSet(s)
        BY <1>2, <1>3 DEF Normal, Collected
  <2> HIDE DEF s
  <2>2. Append(s, c) = s \o <<c>> /\ Append(s, c) \in Seq(Id)
        BY <1>3, <2>1
  <2>3. Listed(s)
        BY <2>1, SeqIsListed
  <2>4. IsInjective(s \o <<c>>) /\ ToSet(s \o <<c>>) = ToSet(s) \cup {c}
        BY <2>1, <2>3, OneListed, JoinLaws
  <2> QED  BY <2>2, <2>4 DEF s
<1>8. Raw(u) /\ Collected(u) = Collected(t) \cup {c}
      BY <1>2, <1>5, <1>6, <1>7 DEF Raw, Normal, Collected
<1>9. /\ Raw(u) /\ c \in Id /\ c \notin Collected(t) /\ c[1] = r.target
      /\ Collected(u) = Collected(t) \cup {c}
      /\ u.parent = [t.parent EXCEPT ![c] = IF r.into = Root THEN Nil ELSE r.into]
      /\ u.memberships = t.memberships /\ r.into \in Collected(t) \cup {Root}
      /\ ~LabelTaken(t, r.target, r.into, Nil)
      BY <1>1, <1>3, <1>5, <1>8
<1> QED  BY <1>9 DEF u, c, t, r

LEMMA DissolvedIs ==
  ASSUME NEW t, Normal(t), NEW c
  PROVE  LET u == Dissolved(t, c)
         IN  Raw(u) /\ u.parent = t.parent /\ Collected(u) = Collected(t) \ Subtree(t, c)
<1> DEFINE u == Dissolved(t, c)
           gone == Subtree(t, c)
           met == readCollectionSubtreeIds(t, c)
           left == Without(t.childOrder, Collected(t))
           parts == [i \in DOMAIN met |-> left[met[i]]]
           placed == FlattenSeq(parts)
           others == Only(Listing, {e \in Endpoint : t.memberships[e] \in gone})
           moved == Firsts(placed \o others)
           rest == Without(t.childOrder, gone \cup ToSet(moved))
<1>1. u = [t EXCEPT
             !.collections = Only(@, Collected(t) \ gone),
             !.memberships = [e \in Endpoint |-> IF @[e] \in gone THEN Nil ELSE @[e]],
             !.childOrder = [k \in Key |-> IF k = Unsorted THEN rest[k] \o moved
                                           ELSE IF k \in gone THEN <<>> ELSE rest[k]]]
      BY DEF Dissolved
<1>0. \A k \in Key : Listed(t.childOrder[k])
      BY DEF Normal
<1>2. Listed(moved)
  <2>1. Listed(met) /\ ToSet(met) \subseteq Key
    <3>1. Listed(met) /\ ToSet(met) \subseteq gone
          BY NormalIsRaw, SubtreeListed
    <3> QED  BY <3>1, SubtreeLaws DEF Normal, Rooted, Key
  <2>2. \A k \in Key : Listed(left[k])
        BY <1>0, WithoutListed
  <2> HIDE DEF met, left
  <2>3. PICK n \in Nat : DOMAIN met = 1..n /\ \A i \in 1..n : met[i] \in Key
        BY <2>1, ListedIs DEF ToSet
  <2>4. parts = [i \in 1..n |-> parts[i]] /\ \A i \in 1..n : Listed(parts[i])
        BY <2>2, <2>3
  <2> HIDE DEF parts
  <2>5. Listed(placed)
        BY <2>4, FlattenLaws DEF Joined
  <2> HIDE DEF placed
  <2>6. Listed(others)
        BY ListingAssumption, SeqIsListed, OnlyLaws
  <2> HIDE DEF others
  <2> QED  BY <2>5, <2>6, JoinLaws, FirstsLaws
<1> HIDE DEF moved
<1>3. \A k \in Key : Listed(rest[k])
      BY <1>0, WithoutListed
<1>4. \A k \in Key : Listed(rest[k] \o moved)
      BY <1>2, <1>3, JoinLaws
<1> HIDE DEF rest, gone
<1>5. /\ DOMAIN u = DOMAIN t /\ u.collections = Only(t.collections, Collected(t) \ gone) /\ u.parent = t.parent
      /\ u.childOrder = [k \in Key |-> IF k = Unsorted THEN rest[k] \o moved
                                       ELSE IF k \in gone THEN <<>> ELSE rest[k]]
  <2>1. DOMAIN t = {"collections", "parent", "memberships", "childOrder", "legacy"}
        BY DEF Normal, NoCollections
  <2> HIDE DEF u
  <2> QED  BY <1>1, <2>1
<1> HIDE DEF u
<1>6. \A k \in Key : Listed(u.childOrder[k])
      BY <1>3, <1>4, <1>5, EmptyIs
<1>7. u.collections \in Seq(Id) /\ IsInjective(u.collections) /\ ToSet(u.collections) = Collected(t) \ gone
  <2> DEFINE S == Collected(t) \ gone
  <2> HIDE DEF S
  <2>1. Only(t.collections, S) \in Seq(Id) /\ IsInjective(Only(t.collections, S))
        /\ ToSet(Only(t.collections, S)) = Collected(t) \cap S
        BY FewerCollections
  <2>2. u.collections = Only(t.collections, S)
        BY <1>5 DEF S
  <2> QED  BY <2>1, <2>2 DEF S
<1>8. Raw(u)
      BY <1>5, <1>6, <1>7 DEF Raw, Normal
<1> QED  BY <1>5, <1>7, <1>8 DEF Collected, u, gone

LEMMA ErasedIs ==
  ASSUME NEW t, Normal(t), NEW endpoints, NEW gone
  PROVE  LET u == Erased(t, endpoints, gone)
         IN  Raw(u) /\ u.parent = t.parent /\ Collected(u) = Collected(t) \ gone
<1> DEFINE u == Erased(t, endpoints, gone)
           rest == Without(t.childOrder, endpoints \cup gone)
<1>1. u = [t EXCEPT
             !.collections = Only(@, Collected(t) \ gone),
             !.memberships = [e \in Endpoint |-> IF e \in endpoints \/ @[e] \in gone THEN Nil ELSE @[e]],
             !.childOrder = [k \in Key |-> IF k \in gone THEN <<>> ELSE rest[k]]]
      BY DEF Erased
<1>3. \A k \in Key : Listed(rest[k])
      BY WithoutListed DEF Normal
<1> HIDE DEF rest
<1>5. /\ DOMAIN u = DOMAIN t /\ u.collections = Only(t.collections, Collected(t) \ gone) /\ u.parent = t.parent
      /\ u.childOrder = [k \in Key |-> IF k \in gone THEN <<>> ELSE rest[k]]
  <2>1. DOMAIN t = {"collections", "parent", "memberships", "childOrder", "legacy"}
        BY DEF Normal, NoCollections
  <2> HIDE DEF u
  <2> QED  BY <1>1, <2>1
<1> HIDE DEF u
<1>6. \A k \in Key : Listed(u.childOrder[k])
      BY <1>3, <1>5, EmptyIs
<1>7. u.collections \in Seq(Id) /\ IsInjective(u.collections) /\ ToSet(u.collections) = Collected(t) \ gone
  <2> DEFINE S == Collected(t) \ gone
  <2> HIDE DEF S
  <2>1. Only(t.collections, S) \in Seq(Id) /\ IsInjective(Only(t.collections, S))
        /\ ToSet(Only(t.collections, S)) = Collected(t) \cap S
        BY FewerCollections
  <2>2. u.collections = Only(t.collections, S)
        BY <1>5 DEF S
  <2> QED  BY <2>1, <2>2 DEF S
<1>8. Raw(u)
      BY <1>5, <1>6, <1>7 DEF Raw, Normal
<1> QED  BY <1>5, <1>7, <1>8 DEF Collected, u

\* The order a list is resolved to is one, even when the list is of another tree.
LEMMA ResolvedListed ==
  ASSUME NEW t, Normal(t), NEW items, \A k \in Key : Listed(items[k])
  PROVE  DOMAIN resolveChildOrder(t, items) = Key /\ \A k \in Key : Listed(resolveChildOrder(t, items)[k])
<1>1. DOMAIN resolveChildOrder(t, items) = Key
      BY DEF resolveChildOrder
<1>2. ASSUME NEW k \in Key PROVE Listed(resolveChildOrder(t, items)[k])
  <2> DEFINE c == Only(t.collections, Children(t, k))
             d == items[k] \o c
             f == Firsts(t.childOrder[k])
             known == Only(f, ToSet(d))
             rest == Only(d, ToSet(d) \ ToSet(known))
  <2>1. resolveChildOrder(t, items)[k] = known \o rest
        BY DEF resolveChildOrder
  <2>2. Listed(c)
        BY NormalIsRaw, OnlyLaws
  <2> HIDE DEF c
  <2>3. Listed(d)
        BY <2>2, JoinLaws
  <2>4. Listed(f)
        BY FirstsLaws DEF Normal
  <2> HIDE DEF d, f
  <2>5. Listed(known)
        BY <2>4, OnlyLaws
  <2>6. Listed(rest)
        BY <2>3, OnlyLaws
  <2> HIDE DEF known, rest
  <2> QED  BY <2>1, <2>5, <2>6, JoinLaws
<1> QED  BY <1>1, <1>2

\* The operations that only change parents, memberships or orders.
LEMMA OnlyOrdersChange ==
  ASSUME NEW t, Normal(t), NEW u, DOMAIN u = DOMAIN t, u.collections = t.collections,
         \A k \in Key : Listed(u.childOrder[k])
  PROVE  Raw(u) /\ Collected(u) = Collected(t)
BY DEF Raw, Normal, Collected

LEMMA ReparentedIs ==
  ASSUME NEW t, Normal(t), NEW r, r.into \in Key, r.index \in Nat
  PROVE  LET u == Reparented(t, r)
         IN  /\ Raw(u) /\ Collected(u) = Collected(t) /\ u.memberships = t.memberships
             /\ u.parent = [t.parent EXCEPT ![r.target] = IF r.into = Root THEN Nil ELSE r.into]
<1> DEFINE u == Reparented(t, r)
           order == Inserted(Without(t.childOrder, {r.target}), r.target, r.into, r.index)
<1>1. u = [t EXCEPT !.parent[r.target] = IF r.into = Root THEN Nil ELSE r.into, !.childOrder = order]
      BY DEF Reparented
<1>2. \A k \in Key : Listed(order[k])
  <2> DEFINE w == Without(t.childOrder, {r.target})
  <2>1. DOMAIN w = Key /\ \A k \in Key : Listed(w[k])
        BY WithoutListed DEF Normal
  <2> HIDE DEF w
  <2>2. order = Inserted(w, r.target, r.into, r.index)
        BY DEF w
  <2> HIDE DEF order
  <2> QED  BY <2>1, <2>2, InsertedListed
<1> HIDE DEF u, order
<1>3. /\ DOMAIN u = DOMAIN t /\ u.collections = t.collections /\ u.memberships = t.memberships
      /\ u.parent = [t.parent EXCEPT ![r.target] = IF r.into = Root THEN Nil ELSE r.into]
      /\ u.childOrder = order
  <2>1. DOMAIN t = {"collections", "parent", "memberships", "childOrder", "legacy"}
        BY DEF Normal, NoCollections
  <2> QED  BY <1>1, <2>1
<1>4. Raw(u) /\ Collected(u) = Collected(t)
      BY <1>2, <1>3, OnlyOrdersChange
<1> QED  BY <1>3, <1>4 DEF u

LEMMA AssignedIs ==
  ASSUME NEW t, NEW r, NEW items, Normal(t), r.into \in Key, r.index \in Nat, \A k \in Key : Listed(items[k])
  PROVE  LET u == Assigned(t, r, items)
         IN  /\ Raw(u) /\ Collected(u) = Collected(t) /\ u.parent = t.parent
             /\ r.target \in Endpoint =>
                  u.memberships[r.target] = IF r.into = Unsorted THEN Nil ELSE r.into
<1> DEFINE u == Assigned(t, r, items)
           order == Inserted(Without(resolveChildOrder(t, items), {r.target}), r.target, r.into, r.index)
<1>1. u = [t EXCEPT !.memberships[r.target] = IF r.into = Unsorted THEN Nil ELSE r.into,
                    !.childOrder = order]
      BY DEF Assigned
<1>2. \A k \in Key : Listed(order[k])
  <2> DEFINE w == Without(resolveChildOrder(t, items), {r.target})
  <2>1. DOMAIN w = Key /\ \A k \in Key : Listed(w[k])
        BY WithoutListed, ResolvedListed
  <2> HIDE DEF w
  <2>2. order = Inserted(w, r.target, r.into, r.index)
        BY DEF w
  <2> HIDE DEF order
  <2> QED  BY <2>1, <2>2, InsertedListed
<1> HIDE DEF u, order
<1>3. /\ DOMAIN u = DOMAIN t /\ u.collections = t.collections /\ u.parent = t.parent
      /\ u.memberships = [t.memberships EXCEPT ![r.target] = IF r.into = Unsorted THEN Nil ELSE r.into]
      /\ u.childOrder = order
  <2>1. DOMAIN t = {"collections", "parent", "memberships", "childOrder", "legacy"}
        BY DEF Normal, NoCollections
  <2> QED  BY <1>1, <2>1
<1>4. Raw(u) /\ Collected(u) = Collected(t)
      BY <1>2, <1>3, OnlyOrdersChange
<1>5. r.target \in Endpoint => u.memberships[r.target] = IF r.into = Unsorted THEN Nil ELSE r.into
      BY <1>3 DEF Normal
<1> QED  BY <1>3, <1>4, <1>5 DEF u

\* A new order of one bucket.
LEMMA ReorderedIs ==
  ASSUME NEW t, NEW r, NEW items, Normal(t), Listed(r.order), r.into \in Key, \A k \in Key : Listed(items[k])
  PROVE  \A u \in {CollectionsReordered(t, r), ItemsReordered(t, r, items), ChildrenReordered(t, r, items)} :
           Raw(u) /\ Collected(u) = Collected(t) /\ u.parent = t.parent /\ u.memberships = t.memberships
<1> DEFINE w == resolveChildOrder(t, items)
           a == CollectionsReordered(t, r)
           b == ItemsReordered(t, r, items)
           c == ChildrenReordered(t, r, items)
           ia == InPlace(t.childOrder[r.into], ToSet(r.order), r.order)
           ib == InPlace(w[r.into], ToSet(r.order), r.order)
<1>1. DOMAIN w = Key /\ \A k \in Key : Listed(w[k])
      BY ResolvedListed
<1>2. DOMAIN t.childOrder = Key /\ \A k \in Key : Listed(t.childOrder[k])
      BY DEF Normal
<1>3. Listed(ia) /\ Listed(ib)
  <2> HIDE DEF w
  <2> QED  BY <1>1, <1>2, InPlaceListed
<1>4. /\ a = [t EXCEPT !.childOrder[r.into] = ia]
      /\ b = [t EXCEPT !.childOrder = [w EXCEPT ![r.into] = ib]]
      /\ c = [t EXCEPT !.childOrder = [w EXCEPT ![r.into] = r.order]]
      BY DEF CollectionsReordered, ItemsReordered, ChildrenReordered
<1> HIDE DEF w, a, b, c, ia, ib
<1>5. DOMAIN t = {"collections", "parent", "memberships", "childOrder", "legacy"}
      BY DEF Normal, NoCollections
<1>6. \A u \in {a, b, c} : /\ DOMAIN u = DOMAIN t /\ u.collections = t.collections
                           /\ u.parent = t.parent /\ u.memberships = t.memberships
                           /\ \A k \in Key : Listed(u.childOrder[k])
  <2>1. /\ a.childOrder = [t.childOrder EXCEPT ![r.into] = ia]
        /\ b.childOrder = [w EXCEPT ![r.into] = ib] /\ c.childOrder = [w EXCEPT ![r.into] = r.order]
        BY <1>4, <1>5
  <2>2. \A u \in {a, b, c} : /\ DOMAIN u = DOMAIN t /\ u.collections = t.collections
                             /\ u.parent = t.parent /\ u.memberships = t.memberships
        BY <1>4, <1>5
  <2>4. \A k \in Key : Listed(a.childOrder[k])
        BY <1>2, <1>3, <2>1
  <2>5. \A k \in Key : Listed(b.childOrder[k])
        BY <1>1, <1>3, <2>1
  <2>6. \A k \in Key : Listed(c.childOrder[k])
        BY <1>1, <2>1
  <2>3. \A u \in {a, b, c} : \A k \in Key : Listed(u.childOrder[k])
        BY <2>4, <2>5, <2>6
  <2> QED  BY <2>2, <2>3
<1>7. \A u \in {a, b, c} : Raw(u) /\ Collected(u) = Collected(t)
      BY <1>6, OnlyOrdersChange
<1> QED  BY <1>6, <1>7 DEF a, b, c

-------------------------------------------------------------------------------
(* Siblings, before and after an operation.                                *)

\* Parents without a loop stay as they are.
LEMMA ParentsStay ==
  ASSUME NEW u, Raw(u), \A c \in Collected(u) : u.parent[c] \in Collected(u) \cup {Nil},
         \A Q \in SUBSET Collected(u) : (\A x \in Q : u.parent[x] \in Q) => Q = {}
  PROVE  LET n == normalizeCollectionState(u)
         IN  /\ Collected(n) = Collected(u)
             /\ \A c \in Collected(u) : n.parent[c] = u.parent[c] /\ HomeOf(n, c) = HomeOf(u, c)
             /\ \A e \in Endpoint : n.memberships[e] = IF u.memberships[e] \in Collected(u)
                                                       THEN u.memberships[e] ELSE Nil
<1> DEFINE n == normalizeCollectionState(u)
           t == Pruned(u)
<1>1. /\ Collected(t) = Collected(u) /\ n.collections = t.collections /\ n.parent = t.parent
      /\ t.collections = u.collections /\ n.memberships = t.memberships
      /\ \A c \in Id : t.parent[c] = IF c \in Collected(u) THEN resolveCollectionParentId(u, c) ELSE Nil
      /\ \A e \in Endpoint : t.memberships[e] = IF u.memberships[e] \in Collected(u)
                                                THEN u.memberships[e] ELSE Nil
  <2> HIDE DEF n, t
  <2> QED  BY PrunedIs DEF n, t
<1> HIDE DEF n, t
<1>2. Collected(u) \subseteq Id
      BY CollectedFinite DEF Raw
<1>3. \A c \in Collected(u) : ~Loops(u, c)
      BY DEF Loops
<1>4. \A c \in Collected(u) : n.parent[c] = u.parent[c]
      BY <1>1, <1>2, <1>3 DEF resolveCollectionParentId
<1>5. Collected(n) = Collected(u)
      BY <1>1 DEF Collected
<1>6. \A c \in Collected(u) : HomeOf(n, c) = HomeOf(u, c)
      BY <1>4, <1>5 DEF HomeOf
<1> QED  BY <1>1, <1>4, <1>5, <1>6 DEF n

LEMMA SiblingsSame ==
  ASSUME NEW n, NEW u, Collected(n) = Collected(u), \A c \in Collected(u) : HomeOf(n, c) = HomeOf(u, c),
         SiblingsDiffer(u)
  PROVE  SiblingsDiffer(n)
BY DEF SiblingsDiffer

\* What is left when some collections go with all that is below them.
LEMMA SiblingsFewer ==
  ASSUME NEW t, Normal(t), SiblingsDiffer(t), NEW u, Raw(u), NEW gone, u.parent = t.parent,
         Collected(u) = Collected(t) \ gone,
         \A y \in Collected(t) : t.parent[y] \in gone => y \in gone
  PROVE  SiblingsDiffer(normalizeCollectionState(u))
<1> DEFINE n == normalizeCollectionState(u)
<1>1. \A c \in Collected(u) : u.parent[c] \in Collected(u) \cup {Nil}
      BY DEF Normal, Rooted
<1>2. \A Q \in SUBSET Collected(u) : (\A x \in Q : u.parent[x] \in Q) => Q = {}
      BY DEF Normal, Rooted
<1>3. Collected(n) = Collected(u) /\ \A c \in Collected(u) : HomeOf(n, c) = HomeOf(u, c)
  <2> HIDE DEF n
  <2> QED  BY <1>1, <1>2, ParentsStay DEF n
<1>4. \A c \in Collected(u) : HomeOf(u, c) = HomeOf(t, c)
      BY DEF HomeOf
<1>5. SiblingsDiffer(u)
      BY <1>4 DEF SiblingsDiffer
<1> HIDE DEF n
<1>6. SiblingsDiffer(n)
      BY <1>3, <1>5, SiblingsSame
<1> QED  BY <1>6 DEF n

\* One more, whose label is not taken.
LEMMA SiblingsCreated ==
  ASSUME NEW t, Normal(t), SiblingsDiffer(t), NEW u, Raw(u), NEW c \in Id, NEW k \in Collected(t) \cup {Root},
         c \notin Collected(t), Collected(u) = Collected(t) \cup {c},
         u.parent = [t.parent EXCEPT ![c] = IF k = Root THEN Nil ELSE k],
         ~LabelTaken(t, c[1], k, Nil)
  PROVE  SiblingsDiffer(normalizeCollectionState(u)) /\ Collected(normalizeCollectionState(u)) = Collected(u)
<1> DEFINE n == normalizeCollectionState(u)
           p == IF k = Root THEN Nil ELSE k
<1>0. /\ Collected(t) \subseteq Id /\ DOMAIN t.parent = Id /\ Nil \notin Id /\ Root \notin Id
      /\ \A x \in Collected(t) : t.parent[x] \in Collected(t) \cup {Nil}
      /\ \A Q \in SUBSET Collected(t) : (\A x \in Q : t.parent[x] \in Q) => Q = {}
      BY LabelAssumption DEF Normal, Rooted
<1>1. u.parent[c] = p /\ \A x \in Collected(t) : u.parent[x] = t.parent[x]
      BY <1>0
<1>2. \A x \in Collected(u) : u.parent[x] \in Collected(u) \cup {Nil}
      BY <1>0, <1>1
<1>3. ASSUME NEW Q \in SUBSET Collected(u), \A x \in Q : u.parent[x] \in Q PROVE Q = {}
  <2>1. \A x \in Q \ {c} : t.parent[x] \in Q \ {c}
        BY <1>0, <1>1, <1>3
  <2>2. Q \ {c} = {}
        BY <1>0, <2>1
  <2>3. c \notin Q
        BY <1>0, <1>1, <1>3, <2>2
  <2> QED  BY <2>2, <2>3
<1>4. Collected(n) = Collected(u) /\ \A x \in Collected(u) : HomeOf(n, x) = HomeOf(u, x)
  <2> HIDE DEF n
  <2> QED  BY <1>2, <1>3, ParentsStay DEF n
<1>5. /\ \A x \in Collected(t) : HomeOf(u, x) = HomeOf(t, x)
      /\ HomeOf(u, c) = k
      BY <1>0, <1>1 DEF HomeOf
<1>6. \A x \in Collected(t) : HomeOf(t, x) = k => x[1] # c[1]
      BY <1>0 DEF LabelTaken
<1>7. SiblingsDiffer(u)
      BY <1>5, <1>6 DEF SiblingsDiffer
<1> HIDE DEF n
<1>8. SiblingsDiffer(n)
      BY <1>4, <1>7, SiblingsSame
<1> QED  BY <1>4, <1>8 DEF n

\* One that moves, not below itself and not beside its like.
LEMMA SiblingsReparented ==
  ASSUME NEW t, Normal(t), SiblingsDiffer(t), NEW u, Raw(u), NEW c \in Collected(t),
         NEW k \in Collected(t) \cup {Root}, k \notin Subtree(t, c), Collected(u) = Collected(t),
         u.parent = [t.parent EXCEPT ![c] = IF k = Root THEN Nil ELSE k],
         ~LabelTaken(t, c[1], k, c)
  PROVE  SiblingsDiffer(normalizeCollectionState(u))
<1> DEFINE n == normalizeCollectionState(u)
           p == IF k = Root THEN Nil ELSE k
           S == Subtree(t, c)
<1>0. /\ Collected(t) \subseteq Id /\ DOMAIN t.parent = Id /\ Nil \notin Id /\ Root \notin Id
      /\ \A x \in Collected(t) : t.parent[x] \in Collected(t) \cup {Nil}
      /\ \A Q \in SUBSET Collected(t) : (\A x \in Q : t.parent[x] \in Q) => Q = {}
      BY LabelAssumption DEF Normal, Rooted
<1>1. u.parent[c] = p /\ \A x \in Collected(t) : x # c => u.parent[x] = t.parent[x]
      BY <1>0
<1>2. \A x \in Collected(u) : u.parent[x] \in Collected(u) \cup {Nil}
      BY <1>0, <1>1
<1>9. S \subseteq Collected(t) /\ c \in S /\ \A y \in Collected(t) : t.parent[y] \in S => y \in S
      BY SubtreeLaws
<1>3. ASSUME NEW Q \in SUBSET Collected(u), \A x \in Q : u.parent[x] \in Q PROVE Q = {}
  <2> HIDE DEF S
  <2>1. \A x \in Q \ S : t.parent[x] \in Q \ S
        BY <1>0, <1>1, <1>3, <1>9
  <2>2. Q \ S = {}
        BY <1>0, <2>1
  <2>3. c \notin Q
    <3>1. ASSUME c \in Q PROVE FALSE
      <4>1. p \in Q /\ p \in S
            BY <1>1, <1>3, <2>2, <3>1
      <4>2. p = k
            BY <1>0, <1>9, <4>1
      <4> QED  BY <4>1, <4>2 DEF S
    <3> QED  BY <3>1
  <2>4. \A x \in Q : t.parent[x] \in Q
        BY <1>1, <1>3, <2>3
  <2> QED  BY <1>0, <2>4
<1>4. Collected(n) = Collected(u) /\ \A x \in Collected(u) : HomeOf(n, x) = HomeOf(u, x)
  <2> HIDE DEF n
  <2> QED  BY <1>2, <1>3, ParentsStay DEF n
<1>5. /\ \A x \in Collected(t) : x # c => HomeOf(u, x) = HomeOf(t, x)
      /\ HomeOf(u, c) = k
      BY <1>0, <1>1 DEF HomeOf
<1>6. \A x \in Collected(t) : x # c /\ HomeOf(t, x) = k => x[1] # c[1]
      BY <1>0 DEF LabelTaken
<1>7. SiblingsDiffer(u)
      BY <1>5, <1>6 DEF SiblingsDiffer
<1> HIDE DEF n
<1>8. SiblingsDiffer(n)
      BY <1>4, <1>7, SiblingsSame
<1> QED  BY <1>8 DEF n

\* What the subtree of an erasure is, read when nobody edits.
SubtreeRead(j) ==
  /\ j.req.op = "deleteMock" => j.subtree = {}
  /\ j.req.op = "erase" => j.subtree \in {{Unsorted}, {}, Subtree(j.known, j.req.target)}

\* An operation that is not refused writes a file that can be read.
LEMMA ChangedIsRaw ==
  ASSUME NEW j, JobShape(j), ~Refused(j)
  PROVE  Raw(Changed(j))
<1> DEFINE t == j.known
           r == j.req
<1>0. /\ Normal(t) /\ Listed(r.order) /\ (\A k \in Key : Listed(j.items[k])) /\ r.index \in Nat
      /\ Collected(t) \cup {Root, Unsorted} \subseteq Key
      BY DEF JobShape, Normal, Rooted, Key
<1>1. CASE r.op = "create"
  <2>1. Raw(Created(t, r))
        BY <1>1, CreatedIs
  <2> QED  BY <1>1, <2>1 DEF Changed
<1>2. CASE r.op = "delete"
  <2>1. Raw(Dissolved(t, r.target))
        BY <1>0, DissolvedIs
  <2> QED  BY <1>2, <2>1 DEF Changed
<1>3. CASE r.op = "reparent"
  <2>1. r.into \in Key
        BY <1>0, <1>3 DEF Refused
  <2> HIDE DEF t, r
  <2>2. Raw(Reparented(t, r))
        BY <1>0, <2>1, ReparentedIs
  <2> QED  BY <1>3, <2>2 DEF Changed, t, r
<1>4. CASE r.op = "assign"
  <2>1. r.into \in Key
        BY <1>0, <1>4 DEF Refused
  <2> HIDE DEF t, r
  <2>2. Raw(Assigned(t, r, j.items))
        BY <1>0, <2>1, AssignedIs
  <2> QED  BY <1>4, <2>2 DEF Changed, t, r
<1>5. CASE r.op \in {"reorderCollections", "reorderItems", "reorderChildren"}
  <2>1. r.into \in Key
        BY <1>0, <1>5 DEF Refused
  <2> HIDE DEF t, r
  <2>2. \A u \in {CollectionsReordered(t, r), ItemsReordered(t, r, j.items), ChildrenReordered(t, r, j.items)} : Raw(u)
        BY <1>0, <2>1, ReorderedIs
  <2>3. Changed(j) \in {CollectionsReordered(t, r), ItemsReordered(t, r, j.items), ChildrenReordered(t, r, j.items)}
        BY <1>5 DEF Changed, t, r
  <2> QED  BY <2>2, <2>3
<1>6. CASE r.op \in {"erase", "deleteMock"}
  <2>1. Raw(Erased(t, Targets(j), j.subtree \ {Unsorted}))
        BY <1>0, ErasedIs
  <2> QED  BY <1>6, <2>1 DEF Changed
<1>7. CASE r.op \notin {"create", "delete", "reparent", "assign", "reorderCollections", "reorderItems",
                        "reorderChildren", "erase", "deleteMock"}
  <2>1. Changed(j) = t
        BY <1>7 DEF Changed
  <2> QED  BY <1>0, <2>1, NormalIsRaw
<1> QED  BY <1>1, <1>2, <1>3, <1>4, <1>5, <1>6, <1>7

\* It makes no siblings of two collections with one label.
LEMMA SiblingsKept ==
  ASSUME NEW j, JobShape(j), ~Refused(j), SubtreeRead(j), SiblingsDiffer(j.known)
  PROVE  SiblingsDiffer(normalizeCollectionState(Changed(j)))
<1> DEFINE t == j.known
           r == j.req
           u == Changed(j)
<1>0. /\ Normal(t) /\ Listed(r.order) /\ (\A k \in Key : Listed(j.items[k])) /\ r.index \in Nat
      /\ Collected(t) \cup {Root, Unsorted} \subseteq Key
      BY DEF JobShape, Normal, Rooted, Key
<1>8. Raw(u)
      BY ChangedIsRaw
<1>9. ASSUME u.parent = t.parent, Collected(u) = Collected(t) PROVE SiblingsDiffer(normalizeCollectionState(u))
  <2> DEFINE none == {}
  <2>1. Collected(u) = Collected(t) \ none /\ \A y \in Collected(t) : t.parent[y] \in none => y \in none
        BY <1>9
  <2>2. SiblingsDiffer(t)
        OBVIOUS
  <2>3. u.parent = t.parent
        BY <1>9
  <2> HIDE DEF t, u, none
  <2>4. SiblingsDiffer(normalizeCollectionState(u))
        BY <1>0, <1>8, <2>1, <2>2, <2>3, SiblingsFewer
  <2> QED  BY <2>4
<1>1. CASE r.op = "create"
  <2> DEFINE c == buildCollectionId(t, r.target)
  <2>1. u = Created(t, r)
        BY <1>1 DEF Changed
  <2>2. /\ c \in Id /\ c \notin Collected(t) /\ c[1] = r.target
        /\ Collected(u) = Collected(t) \cup {c}
        /\ u.parent = [t.parent EXCEPT ![c] = IF r.into = Root THEN Nil ELSE r.into]
        /\ r.into \in Collected(t) \cup {Root}
        /\ ~LabelTaken(t, r.target, r.into, Nil)
        BY <1>1, <2>1, CreatedIs
  <2> HIDE DEF t, u, r, c
  <2>3. SiblingsDiffer(t)
        BY DEF t
  <2>4. ~LabelTaken(t, c[1], r.into, Nil)
        BY <2>2
  <2>5. SiblingsDiffer(normalizeCollectionState(u))
        BY <1>0, <1>8, <2>2, <2>3, <2>4, SiblingsCreated
  <2> QED  BY <2>5 DEF u
<1>2. CASE r.op = "delete"
  <2>1. u = Dissolved(t, r.target)
        BY <1>2 DEF Changed
  <2>2. u.parent = t.parent /\ Collected(u) = Collected(t) \ Subtree(t, r.target)
        BY <1>0, <2>1, DissolvedIs
  <2>3. \A y \in Collected(t) : t.parent[y] \in Subtree(t, r.target) => y \in Subtree(t, r.target)
        BY SubtreeLaws
  <2> HIDE DEF t, u, r
  <2>4. SiblingsDiffer(t)
        BY DEF t
  <2>5. SiblingsDiffer(normalizeCollectionState(u))
        BY <1>0, <1>8, <2>2, <2>3, <2>4, SiblingsFewer
  <2> QED  BY <2>5 DEF u
<1>3. CASE r.op = "reparent"
  <2>1. u = Reparented(t, r)
        BY <1>3 DEF Changed
  <2>2. /\ r.target \in Collected(t) /\ r.into \in Collected(t) \cup {Root}
        /\ r.into \notin Subtree(t, r.target) /\ ~LabelTaken(t, r.target[1], r.into, r.target)
        BY <1>3 DEF Refused
  <2> HIDE DEF t, u, r
  <2>3. r.into \in Key
        BY <1>0, <2>2
  <2>4. /\ Collected(u) = Collected(t)
        /\ u.parent = [t.parent EXCEPT ![r.target] = IF r.into = Root THEN Nil ELSE r.into]
        BY <1>0, <2>1, <2>3, ReparentedIs
  <2>5. SiblingsDiffer(t)
        BY DEF t
  <2>6. SiblingsDiffer(normalizeCollectionState(u))
        BY <1>0, <1>8, <2>2, <2>4, <2>5, SiblingsReparented
  <2> QED  BY <2>6 DEF u
<1>4. CASE r.op = "assign"
  <2>1. r.into \in Key /\ u = Assigned(t, r, j.items)
        BY <1>0, <1>4 DEF Refused, Changed
  <2> DEFINE items == j.items
  <2>4. \A k \in Key : Listed(items[k])
        BY <1>0
  <2> HIDE DEF t, r, u, items
  <2>5. Normal(t) /\ r.index \in Nat /\ r.into \in Key
        BY <1>0, <2>1
  <2>3. Collected(Assigned(t, r, items)) = Collected(t) /\ Assigned(t, r, items).parent = t.parent
        BY <2>4, <2>5, AssignedIs
  <2>2. Collected(u) = Collected(t) /\ u.parent = t.parent
        BY <2>1, <2>3 DEF items
  <2> QED  BY <1>9, <2>2 DEF u
<1>5. CASE r.op \in {"reorderCollections", "reorderItems", "reorderChildren"}
  <2>1. r.into \in Key
        BY <1>0, <1>5 DEF Refused
  <2>2. u \in {CollectionsReordered(t, r), ItemsReordered(t, r, j.items), ChildrenReordered(t, r, j.items)}
        BY <1>5 DEF Changed
  <2> HIDE DEF t, r, u
  <2>3. Collected(u) = Collected(t) /\ u.parent = t.parent
        BY <1>0, <2>1, <2>2, ReorderedIs
  <2> QED  BY <1>9, <2>3 DEF u
<1>6. CASE r.op \in {"erase", "deleteMock"}
  <2> DEFINE gone == j.subtree \ {Unsorted}
  <2>1. u = Erased(t, Targets(j), gone)
        BY <1>6 DEF Changed
  <2>2. u.parent = t.parent /\ Collected(u) = Collected(t) \ gone
        BY <1>0, <2>1, ErasedIs
  <2>3. \A y \in Collected(t) : t.parent[y] \in gone => y \in gone
    <3>1. Unsorted \notin Collected(t)
          BY <1>0, LabelAssumption DEF Normal, Rooted
    <3>2. gone = {} \/ gone = Subtree(t, r.target)
      <4>1. Subtree(t, r.target) \subseteq Collected(t)
            BY SubtreeLaws
      <4> QED  BY <1>6, <3>1, <4>1 DEF SubtreeRead
    <3> QED  BY <3>2, SubtreeLaws
  <2> HIDE DEF t, u, gone
  <2>4. SiblingsDiffer(t)
        BY DEF t
  <2>5. SiblingsDiffer(normalizeCollectionState(u))
        BY <1>0, <1>8, <2>2, <2>3, <2>4, SiblingsFewer
  <2> QED  BY <2>5 DEF u
<1>7. CASE r.op \notin {"create", "delete", "reparent", "assign", "reorderCollections", "reorderItems",
                        "reorderChildren", "erase", "deleteMock"}
  <2>1. u = t
        BY <1>7 DEF Changed
  <2> QED  BY <1>9, <2>1
<1> QED  BY <1>1, <1>2, <1>3, <1>4, <1>5, <1>6, <1>7

-------------------------------------------------------------------------------
(* The inductive invariant.                                                *)

\* The subtree of an erasure is what it says, once it is read.
SubtreeKnown(j) == j.phase \in {"reread", "write"} => SubtreeRead(j)

Phases == {"list", "subtree", "reread", "write", "done"}
JobFields == {"req", "quiet", "backup", "known", "items", "subtree", "shown", "phase"}

\* A mutation j when the file is t.
JobFine(j, t) ==
  /\ DOMAIN j = JobFields /\ JobShape(j) /\ Normal(j.backup)
  /\ j.phase \in Phases
  /\ j.phase = "list" => j.req.op \in {"assign", "reorderItems", "reorderChildren", "enable"}
  /\ j.phase \in {"subtree", "reread"} => j.req.op = "erase"
  /\ j.quiet => SubtreeKnown(j)
  /\ j.quiet /\ j.phase # "done" => j.known = t
  /\ j.quiet /\ j.phase = "done" => (SiblingsDiffer(j.known) => SiblingsDiffer(t))

\* The steps of an import.
Make(i) == Request("create", i.tag, Root, 0, <<>>)
Put(i) == Request("createMock", i.endpoint, Root, 0, <<>>)
Place(i) == Request("assign", i.endpoint, Unsorted, LastIndex, <<>>)
Todos(i) == {<<Make(i), Put(i), Place(i)>>, <<Put(i), Place(i)>>, <<Place(i)>>, <<>>}

\* The request that the first of the steps becomes.
Became(i, r) == IF r.op = "assign" THEN [r EXCEPT !.into = i.ids[i.tag]] ELSE r

\* The tree is as the steps of the import that are left need it.
Homed(i, t, files) ==
  /\ i.todo = <<Make(i), Put(i), Place(i)>> => \A c \in Collected(t) : c[1] # i.tag
  /\ i.todo \in {<<Put(i), Place(i)>>, <<Place(i)>>} =>
       i.ids[i.tag] \in Collected(t) /\ i.ids[i.tag][1] = i.tag
  /\ i.todo = <<>> /\ files[i.endpoint] = "ok" =>
       t.memberships[i.endpoint] # Nil /\ t.memberships[i.endpoint][1] = i.tag

ImportFields == {"endpoint", "tag", "quiet", "ids", "todo"}
ImportShape(i) ==
  /\ DOMAIN i = ImportFields
  /\ i.endpoint \in Endpoint /\ i.tag \in Label \cup {Reserved} /\ DOMAIN i.ids = Label
  /\ i.todo \in Todos(i)
  /\ i.todo = <<Make(i), Put(i), Place(i)>> => i.tag \in Label

\* The mutation that runs is the first of the steps.
RunsFirst(i, j) ==
  /\ i.quiet => j.quiet
  /\ j.phase # "done" => /\ i.todo # <<>> /\ j.req = Became(i, Head(i.todo))
                         /\ j.req.op = "assign" => i.tag \in Label

ImportFine(i, j, t, files) ==
  /\ ImportShape(i)
  /\ j # Nil => RunsFirst(i, j)
  /\ i.quiet /\ i.tag \in Label => Homed(i, t, files)

TreeInv ==
  /\ Normal(tree)
  /\ job # Nil => JobFine(job, tree)
  /\ import # Nil => ImportFine(import, job, tree, onDisk)

\* The invariant says of the tree what the property does.
LEMMA TreeInvIsWhole == ASSUME TreeInv PROVE TreeWhole
<1>1. CatalogShowsAll
  <2>1. Normal(tree)
        BY DEF TreeInv
  <2> QED  BY <2>1, NormalShownWhole DEF CatalogShowsAll, Shown
<1>2. TreeStaysSound
  <2> SUFFICES ASSUME job # Nil, job.phase = "done", job.quiet
               PROVE  /\ ToSet(DepthFirst([k \in Key |-> Only(tree.collections, Children(tree, k))],
                                          Collected(tree))) = Collected(tree)
                      /\ \A k \in Key : /\ IsInjective(tree.childOrder[k])
                                        /\ \A r \in ToSet(tree.childOrder[k]) : HomeOf(tree, r) = k
                      /\ SiblingsDiffer(job.known) => SiblingsDiffer(tree)
      BY DEF TreeStaysSound
  <2>1. Normal(tree) /\ JobFine(job, tree)
        BY DEF TreeInv
  <2>2. ToSet(DepthFirst([k \in Key |-> Only(tree.collections, Children(tree, k))], Collected(tree)))
          = Collected(tree)
        BY <2>1, CreationOrder
  <2>3. \A k \in Key : /\ IsInjective(tree.childOrder[k])
                       /\ \A r \in ToSet(tree.childOrder[k]) : HomeOf(tree, r) = k
        BY <2>1 DEF Normal
  <2>4. SiblingsDiffer(job.known) => SiblingsDiffer(tree)
        BY <2>1 DEF JobFine
  <2> QED  BY <2>2, <2>3, <2>4
<1>3. ImportPlaced
  <2> SUFFICES ASSUME import # Nil, import.todo = <<>>, import.quiet, import.tag # Reserved,
                      onDisk[import.endpoint] = "ok"
               PROVE  tree.memberships[import.endpoint] # Nil /\ tree.memberships[import.endpoint][1] = import.tag
      BY DEF ImportPlaced
  <2>1. ImportFine(import, job, tree, onDisk)
        BY DEF TreeInv
  <2>2. import.tag \in Label
        BY <2>1 DEF ImportFine, ImportShape
  <2>3. Homed(import, tree, onDisk)
        BY <2>1, <2>2 DEF ImportFine
  <2> QED  BY <2>3 DEF Homed
<1> QED  BY <1>1, <1>2, <1>3 DEF TreeWhole

LEMMA TreeStarts == ASSUME InitTree PROVE TreeInv
<1>1. PICK t \in RawTrees \cup {NoCollections} : tree = normalizeCollectionState(t)
      BY DEF InitTree
<1>2. Raw(t)
      BY RawFiles
<1>3. Normal(tree)
      BY <1>1, <1>2, NormalizedIsNormal
<1> QED  BY <1>3 DEF TreeInv, InitTree

\* What is shown is in order.
LEMMA ShownLaws ==
  ASSUME Normal(tree)
  PROVE  /\ Ordered(tree, Shown) /\ \A c \in Collected(tree) : c \in ToSet(Shown[HomeOf(tree, c)])
         /\ \A k \in Key : Listed(Shown[k])
         /\ \A k \in Key : Listed(listAdminMocks(tree)[k])
<1> DEFINE items == listAdminMocks(tree)
<1>1. Sorted(tree, items)
      BY ListedMocks
<1> HIDE DEF items
<1>2. ASSUME NEW k \in Key
      PROVE  /\ Listed(Shown[k]) /\ IsInjective(Shown[k]) /\ Children(tree, k) \subseteq ToSet(Shown[k])
             /\ \A r \in ToSet(Shown[k]) : r \in Refs(tree) /\ HomeOf(tree, r) = k
  <2> DEFINE s == resolveChildOrder(tree, items)[k]
  <2>1. /\ Listed(s) /\ IsInjective(s) /\ ToSet(s) = ToSet(items[k]) \cup Children(tree, k)
        /\ \A r \in ToSet(s) : r \in Refs(tree) /\ HomeOf(tree, r) = k
        BY <1>1, ResolvedLaws
  <2>2. s = Shown[k]
        BY DEF Shown, items
  <2> HIDE DEF s
  <2> QED  BY <2>1, <2>2
<1>3. \A c \in Collected(tree) : c \in ToSet(Shown[HomeOf(tree, c)])
  <2> SUFFICES ASSUME NEW c \in Collected(tree) PROVE c \in ToSet(Shown[HomeOf(tree, c)])
      OBVIOUS
  <2>1. HomeOf(tree, c) \in Key
        BY Homes DEF Normal, Refs
  <2>2. c \in Children(tree, HomeOf(tree, c))
        BY DEF Children
  <2> QED  BY <1>2, <2>1, <2>2
<1>4. \A k \in Key : Listed(items[k])
      BY <1>1 DEF Sorted
<1> QED  BY <1>2, <1>3, <1>4 DEF Ordered, items

\* What the administrator asks for.
LEMMA RequestsAre ==
  ASSUME Normal(tree), NEW r \in Requests
  PROVE  /\ Listed(r.order) /\ r.index \in Nat
         /\ r.op = "create" => r.target \in Label \cup {Reserved}
<1> DEFINE Fine(q) == /\ Listed(q.order) /\ q.index \in Nat
                      /\ q.op = "create" => q.target \in Label \cup {Reserved}
           cs == Collected(tree)
           there == {e \in Endpoint : onDisk[e] # "absent"}
           only(k, S) == Only(Shown[k], S)
<1>0. cs \subseteq Key /\ Root \in Key /\ Unsorted \in Key
      BY DEF Normal, Rooted, Key
<1>1. \A op, x, k : \A n \in Nat : op # "create" => Fine(Request(op, x, k, n, <<>>))
      BY EmptyIs DEF Request
<1>2. \A op, x, k, q : op # "create" /\ Listed(q) => Fine(Request(op, x, k, 0, q))
      BY DEF Request
<1>3. \A l \in Label \cup {Reserved} : \A k : Fine(Request("create", l, k, 0, <<>>))
      BY EmptyIs DEF Request
<1>4. \A k \in Key : \A S : \A q \in Reorders(only(k, S)) : Listed(q)
  <2> SUFFICES ASSUME NEW k \in Key, NEW S, NEW q \in Reorders(only(k, S)) PROVE Listed(q)
      OBVIOUS
  <2>1. Listed(Shown[k])
        BY ShownLaws
  <2>2. Listed(only(k, S))
        BY <2>1, OnlyLaws
  <2> HIDE DEF only
  <2> QED  BY <2>2, ReordersListed
<1>5. \A k \in Key : \A q \in Reorders(Shown[k]) : Listed(q)
      BY ShownLaws, ReordersListed
<1>6. Indices \subseteq Nat /\ {0, 1} \subseteq Nat
      BY TreeBoundAssumption
<1> DEFINE A == {Request("create", l, k, 0, <<>>) : l \in Label \cup {Reserved}, k \in cs \cup {Root}}
           B == {Request("delete", c, Root, 0, <<>>) : c \in cs}
           C == {Request("erase", c, Root, 0, <<>>) : c \in cs \cup {Unsorted}}
           D == {Request("enable", c, Root, n, <<>>) : c \in cs, n \in {0, 1}}
           E == {Request("reparent", c, k, n, <<>>) : c \in cs, k \in cs \cup {Root}, n \in Indices}
           F == {Request("assign", e, k, n, <<>>) : e \in there, k \in cs \cup {Unsorted}, n \in Indices}
           GK(k) == {Request("reorderCollections", Nil, k, 0, q) : q \in Reorders(only(k, Id))}
           HK(k) == {Request("reorderItems", Nil, k, 0, q) : q \in Reorders(only(k, Endpoint))}
           IK(k) == {Request("reorderChildren", Nil, k, 0, q) : q \in Reorders(Shown[k])}
           G == UNION {GK(k) : k \in cs \cup {Root}}
           H == UNION {HK(k) : k \in cs \cup {Unsorted}}
           I == UNION {IK(k) : k \in Key}
           J == {Request("createMock", e, Root, 0, <<>>) : e \in Endpoint \ there}
           K == {Request("deleteMock", e, Root, 0, <<>>) : e \in there}
<1>7. r \in A \cup B \cup C \cup D \cup E \cup F \cup G \cup H \cup I \cup J \cup K
      BY DEF Requests
<1> HIDE DEF Fine, cs, there, only
<1>10. ASSUME NEW k \in Key PROVE \A q \in GK(k) \cup HK(k) \cup IK(k) : Fine(q)
  <2>1. \A q \in GK(k) : Fine(q)
        BY <1>2, <1>4
  <2>2. \A q \in HK(k) : Fine(q)
        BY <1>2, <1>4
  <2>3. \A q \in IK(k) : Fine(q)
        BY <1>2, <1>5
  <2> QED  BY <2>1, <2>2, <2>3
<1>11. \A q \in A : Fine(q)
       BY <1>3
<1>12. \A q \in B \cup C \cup J \cup K : Fine(q)
       BY <1>1
<1>13. (\A q \in D : Fine(q)) /\ (\A q \in E : Fine(q)) /\ (\A q \in F : Fine(q))
       BY <1>1, <1>6
<1> HIDE DEF A, B, C, D, E, F, GK, HK, IK, J, K
<1>14. ASSUME r \in G PROVE Fine(r)
       BY <1>0, <1>10, <1>14
<1>15. ASSUME r \in H PROVE Fine(r)
       BY <1>0, <1>10, <1>15
<1>16. ASSUME r \in I PROVE Fine(r)
       BY <1>10, <1>16
<1> HIDE DEF G, H, I
<1>8. Fine(r)
      BY <1>7, <1>11, <1>12, <1>13, <1>14, <1>15, <1>16
<1> QED  BY <1>8 DEF Fine

\* A mutation that leaves the queue.
LEMMA StartedFine ==
  ASSUME Normal(tree), NEW r, Listed(r.order), r.index \in Nat,
         r.op = "create" => r.target \in Label \cup {Reserved}, HasRoom(r), Started(r)
  PROVE  JobFine(job', tree) /\ job'.req = r /\ job'.quiet = TRUE /\ job'.phase # "done"
<1> DEFINE items == IF r.op = "erase" THEN listAdminMocks(tree) ELSE NoItems
           phase == IF r.op \in {"assign", "reorderItems", "reorderChildren", "enable"} THEN "list"
                    ELSE IF r.op = "erase" THEN "subtree" ELSE "write"
<1>1. job' = [req |-> r, quiet |-> TRUE, backup |-> tree, known |-> tree, items |-> items,
              subtree |-> {}, shown |-> NoItems, phase |-> phase]
      BY DEF Started
<1>2. \A k \in Key : Listed(items[k])
      BY ShownLaws, EmptyIs DEF NoItems
<1>3. /\ phase \in Phases /\ phase # "done" /\ phase # "reread"
      /\ phase = "list" => r.op \in {"assign", "reorderItems", "reorderChildren", "enable"}
      /\ phase = "subtree" => r.op = "erase"
      /\ phase = "write" => r.op # "erase"
      BY DEF Phases
<1> HIDE DEF items, phase
<1>4. /\ DOMAIN job' = JobFields /\ job'.req = r /\ job'.quiet = TRUE /\ job'.backup = tree
      /\ job'.known = tree /\ job'.items = items /\ job'.subtree = {} /\ job'.phase = phase
      BY <1>1 DEF JobFields
<1>5. JobShape(job')
      BY <1>2, <1>4, LabelAssumption DEF JobShape, HasRoom
<1>6. SubtreeKnown(job')
      BY <1>3, <1>4 DEF SubtreeKnown, SubtreeRead
<1> QED  BY <1>3, <1>4, <1>5, <1>6 DEF JobFine

-------------------------------------------------------------------------------
(* Every step keeps it.                                                    *)

\* What the invariant of an import says does not depend on the phase of the mutation, unless
\* it is done.
LEMMA ImportSame ==
  ASSUME NEW i, NEW j, NEW k, NEW t, NEW files, ImportFine(i, j, t, files), j # Nil,
         k.quiet = j.quiet, k.req = j.req, j.phase = "done" => k.phase = "done"
  PROVE  ImportFine(i, k, t, files)
BY DEF ImportFine, RunsFirst

LEMMA KeepsAsk == ASSUME TreeInv, Ask PROVE TreeInv'
<1>1. PICK r \in Requests : HasRoom(r) /\ Started(r)
      BY DEF Ask
<1>2. Normal(tree)
      BY DEF TreeInv
<1>3. JobFine(job', tree)
      BY <1>1, <1>2, RequestsAre, StartedFine
<1>4. UNCHANGED <<tree, onDisk, import>> /\ import = Nil
      BY DEF Ask
<1> QED  BY <1>2, <1>3, <1>4 DEF TreeInv

LEMMA KeepsListItems == ASSUME TreeInv, ListItems PROVE TreeInv'
<1> DEFINE below == IF job.req.op = "enable" /\ job.req.target \in Collected(job.known)
                    THEN Subtree(job.known, job.req.target) ELSE {}
<1>1. /\ job # Nil /\ job.phase = "list"
      /\ job' = [job EXCEPT !.phase = "write", !.items = listAdminMocks(tree), !.subtree = below]
      /\ UNCHANGED <<tree, onDisk, import>>
      BY DEF ListItems
<1>2. Normal(tree) /\ JobFine(job, tree)
      BY <1>1 DEF TreeInv
<1> HIDE DEF below
<1>3. /\ DOMAIN job' = JobFields /\ job'.req = job.req /\ job'.quiet = job.quiet /\ job'.backup = job.backup
      /\ job'.known = job.known /\ job'.items = listAdminMocks(tree) /\ job'.phase = "write"
  <2>1. DOMAIN job = JobFields
        BY <1>2 DEF JobFine
  <2> QED  BY <1>1, <2>1 DEF JobFields
<1>4. JobShape(job')
  <2>1. \A k \in Key : Listed(job'.items[k])
        BY <1>2, <1>3, ShownLaws
  <2> QED  BY <1>2, <1>3, <2>1 DEF JobFine, JobShape
<1>5. SubtreeKnown(job')
      BY <1>1, <1>2, <1>3 DEF SubtreeKnown, SubtreeRead, JobFine
<1>6. JobFine(job', tree)
      BY <1>1, <1>2, <1>3, <1>4, <1>5 DEF JobFine, Phases
<1>7. import # Nil => ImportFine(import, job', tree, onDisk)
  <2>1. import # Nil => ImportFine(import, job, tree, onDisk)
        BY DEF TreeInv
  <2> QED  BY <1>1, <1>3, <2>1, ImportSame
<1> QED  BY <1>1, <1>2, <1>6, <1>7 DEF TreeInv

LEMMA KeepsReadSubtree == ASSUME TreeInv, ReadSubtree PROVE TreeInv'
<1> DEFINE c == job.req.target
           below == IF c = Unsorted THEN {Unsorted}
                    ELSE IF c \in Collected(tree) THEN Subtree(tree, c) ELSE {}
<1>1. /\ job # Nil /\ job.phase = "subtree"
      /\ job' = [job EXCEPT !.phase = "reread", !.subtree = below]
      /\ UNCHANGED <<tree, onDisk, import>>
      BY DEF ReadSubtree
<1>2. Normal(tree) /\ JobFine(job, tree)
      BY <1>1 DEF TreeInv
<1>0. below \in {{Unsorted}, {}, Subtree(tree, c)}
      OBVIOUS
<1> HIDE DEF below
<1>3. /\ DOMAIN job' = JobFields /\ job'.req = job.req /\ job'.quiet = job.quiet /\ job'.backup = job.backup
      /\ job'.known = job.known /\ job'.items = job.items /\ job'.phase = "reread" /\ job'.subtree = below
  <2>1. DOMAIN job = JobFields
        BY <1>2 DEF JobFine
  <2> QED  BY <1>1, <2>1 DEF JobFields
<1>4. JobShape(job')
      BY <1>2, <1>3 DEF JobFine, JobShape
<1>5. job'.quiet => SubtreeKnown(job')
  <2> SUFFICES ASSUME job.quiet PROVE SubtreeRead(job')
      BY <1>3 DEF SubtreeKnown
  <2>1. job.known = tree /\ job.req.op = "erase"
        BY <1>1, <1>2 DEF JobFine
  <2> QED  BY <1>0, <1>3, <2>1 DEF SubtreeRead
<1>6. JobFine(job', tree)
      BY <1>1, <1>2, <1>3, <1>4, <1>5 DEF JobFine, Phases
<1>7. import # Nil => ImportFine(import, job', tree, onDisk)
  <2>1. import # Nil => ImportFine(import, job, tree, onDisk)
        BY DEF TreeInv
  <2> QED  BY <1>1, <1>3, <2>1, ImportSame
<1> QED  BY <1>1, <1>2, <1>6, <1>7 DEF TreeInv

LEMMA KeepsReread == ASSUME TreeInv, Reread PROVE TreeInv'
<1>1. /\ job # Nil /\ job.phase = "reread"
      /\ job' = [job EXCEPT !.phase = "write", !.backup = tree, !.known = tree]
      /\ UNCHANGED <<tree, onDisk, import>>
      BY DEF Reread
<1>2. Normal(tree) /\ JobFine(job, tree)
      BY <1>1 DEF TreeInv
<1>3. /\ DOMAIN job' = JobFields /\ job'.req = job.req /\ job'.quiet = job.quiet /\ job'.backup = tree
      /\ job'.known = tree /\ job'.items = job.items /\ job'.phase = "write" /\ job'.subtree = job.subtree
  <2>1. DOMAIN job = JobFields
        BY <1>2 DEF JobFine
  <2> QED  BY <1>1, <2>1 DEF JobFields
<1>0. job.req.op = "erase"
      BY <1>1, <1>2 DEF JobFine
<1>4. JobShape(job')
      BY <1>0, <1>2, <1>3 DEF JobFine, JobShape
<1>5. job'.quiet => SubtreeKnown(job')
  <2> SUFFICES ASSUME job.quiet PROVE SubtreeRead(job')
      BY <1>3 DEF SubtreeKnown
  <2>1. job.known = tree /\ SubtreeRead(job)
        BY <1>1, <1>2 DEF JobFine, SubtreeKnown
  <2> QED  BY <1>0, <1>3, <2>1 DEF SubtreeRead
<1>6. JobFine(job', tree)
      BY <1>0, <1>2, <1>3, <1>4, <1>5 DEF JobFine, Phases
<1>7. import # Nil => ImportFine(import, job', tree, onDisk)
  <2>1. import # Nil => ImportFine(import, job, tree, onDisk)
        BY DEF TreeInv
  <2> QED  BY <1>1, <1>3, <2>1, ImportSame
<1> QED  BY <1>1, <1>2, <1>6, <1>7 DEF TreeInv

LEMMA KeepsAnswer == ASSUME TreeInv, Answer PROVE TreeInv'
<1>1. job' = Nil /\ UNCHANGED <<tree, onDisk, import>>
      BY DEF Answer
<1> QED  BY <1>1 DEF TreeInv, ImportFine

\* Another program edits the workspace: nothing is said of the order of things any more.
LEMMA KeepsTouch == ASSUME TreeInv, Touch PROVE TreeInv'
<1>1. job' = Disturbed(job) /\ import' = Disturbed(import)
      BY DEF Touch
<1>2. Normal(tree')
  <2>1. CASE tree' = tree
        BY <2>1 DEF TreeInv
  <2>2. CASE \E t \in RawTrees : tree' = normalizeCollectionState(t)
    <3>1. PICK t \in RawTrees : tree' = normalizeCollectionState(t)
          BY <2>2
    <3>2. Raw(t)
          BY RawFiles
    <3> QED  BY <3>1, <3>2, NormalizedIsNormal
  <2> QED  BY <2>1, <2>2 DEF Touch
<1>3. ASSUME job # Nil PROVE JobFine(job', tree') /\ job'.quiet = FALSE /\ job'.req = job.req /\ job'.phase = job.phase
  <2>1. JobFine(job, tree)
        BY <1>3 DEF TreeInv
  <2>2. job' = [job EXCEPT !.quiet = FALSE]
        BY <1>1, <1>3 DEF Disturbed
  <2>3. /\ DOMAIN job' = JobFields /\ job'.req = job.req /\ job'.quiet = FALSE /\ job'.backup = job.backup
        /\ job'.known = job.known /\ job'.items = job.items /\ job'.phase = job.phase
    <3>1. DOMAIN job = JobFields
          BY <2>1 DEF JobFine
    <3> QED  BY <2>2, <3>1 DEF JobFields
  <2>4. JobShape(job')
        BY <2>1, <2>3 DEF JobFine, JobShape
  <2> QED  BY <2>1, <2>3, <2>4 DEF JobFine
<1>4. ASSUME import # Nil PROVE ImportFine(import', job', tree', onDisk')
  <2>1. ImportFine(import, job, tree, onDisk)
        BY <1>4 DEF TreeInv
  <2>2. import' = [import EXCEPT !.quiet = FALSE]
        BY <1>1, <1>4 DEF Disturbed
  <2>3. /\ DOMAIN import' = ImportFields /\ import'.endpoint = import.endpoint /\ import'.tag = import.tag
        /\ import'.quiet = FALSE /\ import'.ids = import.ids /\ import'.todo = import.todo
    <3>1. DOMAIN import = ImportFields
          BY <2>1 DEF ImportFine, ImportShape
    <3> QED  BY <2>2, <3>1 DEF ImportFields
  <2>4. /\ Make(import') = Make(import) /\ Put(import') = Put(import) /\ Place(import') = Place(import)
        /\ \A r : Became(import', r) = Became(import, r)
        BY <2>3 DEF Make, Put, Place, Became
  <2>5. ImportShape(import')
        BY <2>1, <2>3, <2>4 DEF ImportFine, ImportShape, Todos
  <2>6. job' # Nil => RunsFirst(import', job')
    <3> SUFFICES ASSUME job' # Nil PROVE RunsFirst(import', job')
        OBVIOUS
    <3>1. job # Nil
          BY <1>1 DEF Disturbed
    <3> QED  BY <1>3, <2>1, <2>3, <2>4, <3>1 DEF RunsFirst, ImportFine
  <2> QED  BY <2>3, <2>5, <2>6 DEF ImportFine
<1>5. (job' # Nil => job # Nil) /\ (import' # Nil => import # Nil)
      BY <1>1 DEF Disturbed
<1> QED  BY <1>2, <1>3, <1>4, <1>5 DEF TreeInv

-------------------------------------------------------------------------------
(* The steps that write, and those of an import.                           *)

\* What is read back has the collections that were written, and the memberships in them.
LEMMA WrittenIsRead ==
  ASSUME NEW u, Raw(u)
  PROVE  LET n == normalizeCollectionState(u)
         IN  /\ Collected(n) = Collected(u)
             /\ \A e \in Endpoint : u.memberships[e] \in Collected(u) => n.memberships[e] = u.memberships[e]
<1> DEFINE n == normalizeCollectionState(u)
           t == Pruned(u)
<1>1. /\ Collected(t) = Collected(u) /\ n.collections = t.collections /\ n.memberships = t.memberships
      /\ \A e \in Endpoint : t.memberships[e] = IF u.memberships[e] \in Collected(u)
                                                THEN u.memberships[e] ELSE Nil
      BY PrunedIs
<1> HIDE DEF n, t
<1>2. Collected(n) = Collected(t)
      BY <1>1 DEF Collected
<1>3. /\ Collected(n) = Collected(u)
      /\ \A e \in Endpoint : u.memberships[e] \in Collected(u) => n.memberships[e] = u.memberships[e]
      BY <1>1, <1>2
<1> QED  BY <1>3 DEF n

\* The steps of an import that are left.
LEMMA TodosAre ==
  ASSUME NEW i, i.todo \in Todos(i), i.todo # <<>>
  PROVE  /\ Tail(i.todo) \in Todos(i) /\ Tail(i.todo) # <<Make(i), Put(i), Place(i)>>
         /\ \/ i.todo = <<Make(i), Put(i), Place(i)>> /\ Head(i.todo) = Make(i) /\ Tail(i.todo) # <<>>
            \/ /\ i.todo \in {<<Put(i), Place(i)>>, <<Place(i)>>} /\ i.todo # <<Place(i)>>
               /\ Head(i.todo) = Put(i) /\ Tail(i.todo) = <<Place(i)>>
            \/ i.todo = <<Place(i)>> /\ Head(i.todo) = Place(i) /\ Tail(i.todo) = <<>>
<1> DEFINE a == Make(i)
           b == Put(i)
           c == Place(i)
<1>1. /\ Tail(<<a, b, c>>) = <<b, c>> /\ Head(<<a, b, c>>) = a
      /\ Tail(<<b, c>>) = <<c>> /\ Head(<<b, c>>) = b
      /\ Tail(<<c>>) = <<>> /\ Head(<<c>>) = c
      OBVIOUS
<1>2. Len(<<a, b, c>>) = 3 /\ Len(<<b, c>>) = 2 /\ Len(<<c>>) = 1 /\ Len(<<>>) = 0
      OBVIOUS
<1>3. i.todo \in {<<a, b, c>>, <<b, c>>, <<c>>}
      BY DEF Todos
<1> HIDE DEF a, b, c
<1>4. <<a, b, c>> # <<b, c>> /\ <<a, b, c>> # <<c>> /\ <<a, b, c>> # <<>> /\ <<b, c>> # <<c>>
      /\ <<b, c>> # <<>>
      BY <1>2
<1> QED  BY <1>1, <1>3, <1>4 DEF Todos, a, b, c

\* An import after one of its steps.
LEMMA GoesOn ==
  ASSUME NEW ok, import # Nil, job # Nil, job.phase # "done", ImportFine(import, job, tree, onDisk),
         import' = ImportAfter(ok)
  PROVE  /\ ImportShape(import') /\ import'.endpoint = import.endpoint /\ import'.tag = import.tag
         /\ import'.quiet => import.quiet /\ job.quiet
         /\ import'.todo = Tail(import.todo)
         /\ \A l \in Label : import'.ids[l] =
              IF job.req.op = "create" /\ l = job.req.target
              THEN (IF ok THEN buildCollectionId(job.known, l) ELSE Nil)
              ELSE import.ids[l]
         /\ Make(import') = Make(import) /\ Put(import') = Put(import) /\ Place(import') = Place(import)
<1>1. /\ DOMAIN import = ImportFields /\ DOMAIN import.ids = Label /\ import.todo \in Todos(import)
      /\ import.todo # <<>> /\ import.endpoint \in Endpoint /\ import.tag \in Label \cup {Reserved}
      BY DEF ImportFine, ImportShape, RunsFirst
<1> DEFINE x == IF ok THEN buildCollectionId(job.known, job.req.target) ELSE Nil
           ids == IF job.req.op = "create" THEN [import.ids EXCEPT ![job.req.target] = x] ELSE import.ids
<1>2. import' = [import EXCEPT !.todo = Tail(@), !.quiet = @ /\ job.quiet, !.ids = ids]
      BY DEF ImportAfter
<1>3. /\ DOMAIN ids = Label
      /\ \A l \in Label : ids[l] = IF job.req.op = "create" /\ l = job.req.target
                                   THEN (IF ok THEN buildCollectionId(job.known, l) ELSE Nil)
                                   ELSE import.ids[l]
      BY <1>1
<1> HIDE DEF ids
<1>4. /\ DOMAIN import' = ImportFields /\ import'.endpoint = import.endpoint /\ import'.tag = import.tag
      /\ import'.quiet = (import.quiet /\ job.quiet)
      /\ import'.todo = Tail(import.todo) /\ import'.ids = ids
      BY <1>1, <1>2 DEF ImportFields
<1>5. Make(import') = Make(import) /\ Put(import') = Put(import) /\ Place(import') = Place(import)
      BY <1>4 DEF Make, Put, Place
<1>6. Tail(import.todo) \in Todos(import) /\ Tail(import.todo) # <<Make(import), Put(import), Place(import)>>
      BY <1>1, TodosAre
<1>7. ImportShape(import')
      BY <1>1, <1>3, <1>4, <1>5, <1>6 DEF ImportShape, Todos
<1> QED  BY <1>3, <1>4, <1>5, <1>7

\* A step of an import that nobody disturbs leaves the tree as the others need it.
LEMMA StaysHomed ==
  ASSUME NEW i, NEW n, NEW t, NEW u, NEW files, NEW after, NEW r,
         Normal(t), ImportShape(i), i.tag \in Label, i.todo # <<>>, Homed(i, t, files), r = Became(i, Head(i.todo)),
         n.endpoint = i.endpoint, n.tag = i.tag, n.todo = Tail(i.todo),
         Make(n) = Make(i), Put(n) = Put(i), Place(n) = Place(i),
         r = Make(i) => n.ids[i.tag] \in Collected(u) /\ n.ids[i.tag][1] = i.tag,
         r = Put(i) => u = t /\ n.ids[i.tag] = i.ids[i.tag],
         r.op = "assign" /\ r.target = i.endpoint /\ r.into = i.ids[i.tag] /\ r.into \in Collected(t) =>
           u.memberships[i.endpoint] = i.ids[i.tag]
  PROVE  Homed(n, u, after)
<1>0. i.todo \in Todos(i)
      BY DEF ImportShape
<1>1. Tail(i.todo) # <<Make(i), Put(i), Place(i)>>
      BY <1>0, TodosAre
<1>2. \/ i.todo = <<Make(i), Put(i), Place(i)>> /\ Head(i.todo) = Make(i) /\ Tail(i.todo) # <<>>
      \/ /\ i.todo \in {<<Put(i), Place(i)>>, <<Place(i)>>} /\ i.todo # <<Place(i)>>
         /\ Head(i.todo) = Put(i) /\ Tail(i.todo) = <<Place(i)>>
      \/ i.todo = <<Place(i)>> /\ Head(i.todo) = Place(i) /\ Tail(i.todo) = <<>>
      BY <1>0, TodosAre
<1>3. ASSUME i.todo = <<Make(i), Put(i), Place(i)>>, Head(i.todo) = Make(i), Tail(i.todo) # <<>>
      PROVE  Homed(n, u, after)
  <2>1. r = Make(i)
        BY <1>3 DEF Became, Make, Request
  <2>2. n.ids[i.tag] \in Collected(u) /\ n.ids[i.tag][1] = i.tag
        BY <2>1
  <2> QED  BY <1>1, <1>3, <2>2 DEF Homed
<1>4. ASSUME i.todo \in {<<Put(i), Place(i)>>, <<Place(i)>>}, Head(i.todo) = Put(i), Tail(i.todo) = <<Place(i)>>
      PROVE  Homed(n, u, after)
  <2>1. r = Put(i)
        BY <1>4 DEF Became, Put, Request
  <2>2. Tail(i.todo) # <<>>
        BY <1>4
  <2> QED  BY <1>1, <1>4, <2>1, <2>2 DEF Homed
<1>5. ASSUME i.todo = <<Place(i)>>, Head(i.todo) = Place(i), Tail(i.todo) = <<>> PROVE Homed(n, u, after)
  <2>1. r.op = "assign" /\ r.target = i.endpoint /\ r.into = i.ids[i.tag]
        BY <1>5 DEF Became, Place, Request
  <2>2. i.ids[i.tag] \in Collected(t) /\ i.ids[i.tag][1] = i.tag
        BY <1>5 DEF Homed
  <2>3. u.memberships[i.endpoint] = i.ids[i.tag]
        BY <2>1, <2>2
  <2>4. <<>> # <<Put(i), Place(i)>> /\ <<>> # <<Place(i)>>
        OBVIOUS
  <2>5. i.ids[i.tag] # Nil
        BY <2>2, LabelAssumption DEF Normal, Rooted
  <2> QED  BY <1>1, <1>5, <2>2, <2>3, <2>4, <2>5 DEF Homed
<1> QED  BY <1>2, <1>3, <1>4, <1>5

LEMMA KeepsWrite == ASSUME TreeInv, Write PROVE TreeInv'
<1> DEFINE written == normalizeCollectionState(Changed(job))
           plain == job.req.op \in {"enable", "createMock"}
<1>1. /\ job # Nil /\ job.phase = "write" /\ ~Refused(job)
      /\ tree' = IF plain THEN tree ELSE written
      /\ job' = [job EXCEPT !.phase = "done", !.shown = Shown] /\ import' = ImportAfter(TRUE)
      BY DEF Write
<1>2. Normal(tree) /\ JobFine(job, tree) /\ JobShape(job)
      BY <1>1 DEF TreeInv, JobFine
<1>3. Raw(Changed(job)) /\ Normal(written)
      BY <1>1, <1>2, ChangedIsRaw, NormalizedIsNormal
<1>4. /\ DOMAIN job' = JobFields /\ job'.req = job.req /\ job'.quiet = job.quiet /\ job'.backup = job.backup
      /\ job'.known = job.known /\ job'.items = job.items /\ job'.phase = "done"
  <2>1. DOMAIN job = JobFields
        BY <1>2 DEF JobFine
  <2> QED  BY <1>1, <2>1 DEF JobFields
<1>5. ASSUME job.quiet, SiblingsDiffer(job.known) PROVE SiblingsDiffer(tree')
  <2>1. SubtreeRead(job) /\ job.known = tree
        BY <1>1, <1>2, <1>5 DEF JobFine, SubtreeKnown
  <2>2. SiblingsDiffer(written)
        BY <1>1, <1>2, <1>5, <2>1, SiblingsKept
  <2> HIDE DEF written
  <2> QED  BY <1>1, <1>5, <2>1, <2>2
<1> HIDE DEF written
<1>6. JobFine(job', tree')
  <2>1. JobShape(job')
        BY <1>2, <1>4 DEF JobShape
  <2> QED  BY <1>2, <1>4, <1>5, <2>1 DEF JobFine, Phases, SubtreeKnown
<1>7. ASSUME import # Nil PROVE ImportFine(import', job', tree', onDisk')
  <2>1. ImportFine(import, job, tree, onDisk)
        BY <1>7 DEF TreeInv
  <2>2. /\ ImportShape(import') /\ import'.endpoint = import.endpoint /\ import'.tag = import.tag
        /\ import'.quiet => import.quiet /\ job.quiet
        /\ import'.todo = Tail(import.todo)
        /\ \A l \in Label : import'.ids[l] =
             IF job.req.op = "create" /\ l = job.req.target THEN buildCollectionId(job.known, l)
             ELSE import.ids[l]
        /\ Make(import') = Make(import) /\ Put(import') = Put(import) /\ Place(import') = Place(import)
        BY <1>1, <1>7, <2>1, GoesOn
  <2>3. RunsFirst(import', job')
        BY <1>4, <2>2 DEF RunsFirst
  <2>4. ASSUME import'.quiet, import'.tag \in Label PROVE Homed(import', tree', onDisk')
    <3>1. /\ import.quiet /\ job.quiet /\ import.tag \in Label /\ job.known = tree
          /\ ImportShape(import) /\ Homed(import, tree, onDisk)
          /\ import.todo # <<>> /\ job.req = Became(import, Head(import.todo))
          BY <1>1, <1>2, <2>1, <2>2, <2>4 DEF ImportFine, JobFine, RunsFirst
    <3>2. ASSUME job.req = Make(import)
          PROVE  import'.ids[import.tag] \in Collected(tree') /\ import'.ids[import.tag][1] = import.tag
      <4> DEFINE c == buildCollectionId(job.known, job.req.target)
      <4>1. job.req.op = "create" /\ job.req.target = import.tag /\ tree' = written
            BY <1>1, <3>2 DEF Make, Request
      <4>2. import'.ids[import.tag] = c
            BY <2>2, <3>1, <4>1
      <4>3. c \in Collected(Created(job.known, job.req)) /\ c[1] = import.tag
            BY <1>1, <1>2, <4>1, CreatedIs
      <4> HIDE DEF c
      <4>4. Changed(job) = Created(job.known, job.req)
            BY <4>1 DEF Changed
      <4>5. Collected(written) = Collected(Changed(job))
            BY <1>3, WrittenIsRead DEF written
      <4> QED  BY <4>1, <4>2, <4>3, <4>4, <4>5
    <3>3. ASSUME job.req = Put(import)
          PROVE  tree' = tree /\ import'.ids[import.tag] = import.ids[import.tag]
      <4>1. job.req.op = "createMock"
            BY <3>3 DEF Put, Request
      <4> QED  BY <1>1, <2>2, <3>1, <4>1
    <3>4. ASSUME job.req.op = "assign", job.req.target = import.endpoint,
                 job.req.into = import.ids[import.tag], job.req.into \in Collected(tree)
          PROVE  tree'.memberships[import.endpoint] = import.ids[import.tag]
      <4> DEFINE t == job.known
                 r == job.req
                 items == job.items
                 u == Assigned(t, r, items)
      <4>1. tree' = written /\ Changed(job) = u
            BY <1>1, <3>4 DEF Changed
      <4>2. /\ Normal(t) /\ r.into \in Id /\ r.into \in Key /\ r.into # Unsorted
            /\ r.index \in Nat /\ (\A k \in Key : Listed(items[k]))
            /\ r.target = import.endpoint /\ r.target \in Endpoint /\ r.into \in Collected(t)
        <5>1. r.into \in Id
              BY <1>2, <3>4 DEF Normal, Rooted
        <5> QED  BY <1>2, <3>1, <3>4, <5>1, LabelAssumption DEF Key, JobShape, ImportShape
      <4> HIDE DEF t, r, items
      <4>3. Collected(u) = Collected(t) /\ u.memberships[r.target] = r.into
            BY <4>2, AssignedIs
      <4> HIDE DEF u
      <4>4. written.memberships[r.target] = r.into
            BY <1>3, <4>1, <4>2, <4>3, WrittenIsRead DEF written
      <4> QED  BY <3>4, <4>1, <4>2, <4>4 DEF r
    <3> QED  BY <1>2, <2>2, <3>1, <3>2, <3>3, <3>4, StaysHomed
  <2> QED  BY <2>2, <2>3, <2>4 DEF ImportFine
<1>8. import' # Nil => import # Nil
      BY <1>1 DEF ImportAfter
<1> QED  BY <1>1, <1>2, <1>3, <1>6, <1>7, <1>8 DEF TreeInv

\* An import whose step leaves the tree as it was, undone or refused.
LEMMA StepFails ==
  ASSUME TreeInv, import # Nil, job # Nil, job.phase # "done", tree' = tree, job' = Nil,
         import' = ImportAfter(FALSE),
         import.quiet /\ import.tag \in Label => job.req = Put(import)
  PROVE  ImportFine(import', job', tree', onDisk')
<1>1. ImportFine(import, job, tree, onDisk) /\ Normal(tree)
      BY DEF TreeInv
<1>2. /\ ImportShape(import') /\ import'.endpoint = import.endpoint /\ import'.tag = import.tag
      /\ import'.quiet => import.quiet /\ job.quiet
      /\ import'.todo = Tail(import.todo)
      /\ \A l \in Label : import'.ids[l] =
           IF job.req.op = "create" /\ l = job.req.target THEN Nil ELSE import.ids[l]
      /\ Make(import') = Make(import) /\ Put(import') = Put(import) /\ Place(import') = Place(import)
      BY <1>1, GoesOn
<1>3. ASSUME import'.quiet, import'.tag \in Label PROVE Homed(import', tree', onDisk')
  <2>1. /\ import.quiet /\ import.tag \in Label /\ ImportShape(import) /\ Homed(import, tree, onDisk)
        /\ import.todo # <<>> /\ job.req = Became(import, Head(import.todo)) /\ job.req = Put(import)
        BY <1>1, <1>2, <1>3 DEF ImportFine, RunsFirst
  <2>2. job.req.op = "createMock" /\ job.req # Make(import)
        BY <2>1 DEF Put, Make, Request
  <2>3. import'.ids[import.tag] = import.ids[import.tag]
        BY <1>2, <2>1, <2>2
  <2> QED  BY <1>1, <1>2, <2>1, <2>2, <2>3, StaysHomed
<1> QED  BY <1>2, <1>3 DEF ImportFine

LEMMA KeepsRefuse == ASSUME TreeInv, Refuse PROVE TreeInv'
<1>1. /\ job # Nil /\ job.phase = "write" /\ (Refused(job) \/ Unwritable(job))
      /\ job' = Nil /\ import' = ImportAfter(FALSE) /\ tree' = tree
      BY DEF Refuse
<1>2. Normal(tree) /\ JobFine(job, tree)
      BY <1>1 DEF TreeInv
<1>3. ASSUME import # Nil, import.quiet, import.tag \in Label PROVE job.req = Put(import)
  <2>1. ImportFine(import, job, tree, onDisk)
        BY <1>3 DEF TreeInv
  <2>2. /\ job.quiet /\ job.known = tree /\ ImportShape(import) /\ Homed(import, tree, onDisk)
        /\ import.todo # <<>> /\ job.req = Became(import, Head(import.todo)) /\ import.todo \in Todos(import)
        BY <1>1, <1>2, <1>3, <2>1 DEF ImportFine, JobFine, RunsFirst, ImportShape
  <2>3. ASSUME import.todo = <<Make(import), Put(import), Place(import)>>, Head(import.todo) = Make(import)
        PROVE  FALSE
    <3>1. job.req.op = "create" /\ job.req.target = import.tag /\ job.req.into = Root
          BY <2>2, <2>3 DEF Became, Make, Request
    <3>2. \A c \in Collected(tree) : c[1] # import.tag
          BY <2>2, <2>3 DEF Homed
    <3>3. ~Refused(job)
          BY <1>3, <2>2, <3>1, <3>2, LabelAssumption DEF Refused, LabelTaken
    <3>4. ~Unwritable(job)
          BY <3>1 DEF Unwritable, Targets
    <3> QED  BY <1>1, <3>3, <3>4
  <2>4. ASSUME Head(import.todo) = Put(import) PROVE job.req = Put(import)
        BY <2>2, <2>4 DEF Became, Put, Request
  <2>5. ASSUME import.todo = <<Place(import)>>, Head(import.todo) = Place(import) PROVE FALSE
    <3>1. job.req.op = "assign" /\ job.req.into = import.ids[import.tag]
          BY <2>2, <2>5 DEF Became, Place, Request
    <3>2. job.req.into \in Collected(tree)
          BY <2>2, <2>5, <3>1 DEF Homed
    <3>3. ~Refused(job)
          BY <2>2, <3>1, <3>2 DEF Refused
    <3>4. ~Unwritable(job)
          BY <3>1 DEF Unwritable, Targets
    <3> QED  BY <1>1, <3>3, <3>4
  <2> QED  BY <2>2, <2>3, <2>4, <2>5, TodosAre
<1>4. import # Nil => ImportFine(import', job', tree', onDisk')
      BY <1>1, <1>3, StepFails
<1>5. import' # Nil => import # Nil
      BY <1>1 DEF ImportAfter
<1> QED  BY <1>1, <1>2, <1>4, <1>5 DEF TreeInv

LEMMA KeepsRollBack == ASSUME TreeInv, RollBack PROVE TreeInv'
<1>1. /\ job # Nil /\ job.phase = "write"
      /\ job.req.op \in {"erase", "deleteMock", "enable", "createMock"}
      /\ tree' = IF job.req.op \in {"erase", "deleteMock"} THEN job.backup ELSE tree
      /\ job' = Nil /\ import' = ImportAfter(FALSE)
      BY DEF RollBack
<1>2. Normal(tree) /\ JobFine(job, tree)
      BY <1>1 DEF TreeInv
<1>3. Normal(tree')
      BY <1>1, <1>2 DEF JobFine
<1>4. ASSUME import # Nil PROVE ImportFine(import', job', tree', onDisk')
  <2>1. ImportFine(import, job, tree, onDisk)
        BY <1>4 DEF TreeInv
  <2>2. /\ import.todo # <<>> /\ job.req = Became(import, Head(import.todo)) /\ import.todo \in Todos(import)
        BY <1>1, <2>1 DEF ImportFine, RunsFirst, ImportShape
  <2>3. Head(import.todo) \in {Make(import), Put(import), Place(import)}
        BY <2>2, TodosAre
  <2>4. job.req = Put(import)
        BY <1>1, <2>2, <2>3 DEF Became, Make, Put, Place, Request
  <2>5. tree' = tree
        BY <1>1, <2>4 DEF Put, Request
  <2> QED  BY <1>1, <1>4, <2>4, <2>5, StepFails
<1>5. import' # Nil => import # Nil
      BY <1>1 DEF ImportAfter
<1> QED  BY <1>1, <1>3, <1>4, <1>5 DEF TreeInv

\* One before two.
LEMMA OneBeforeTwo ==
  ASSUME NEW a, NEW b, NEW p
  PROVE  <<a>> \o <<b, p>> = <<a, b, p>> /\ <<>> \o <<b, p>> = <<b, p>>
<1> DEFINE s == <<a>> \o <<b, p>>
           z == <<a, b, p>>
<1>1. <<b, p>> \in Seq({a, b, p}) /\ <<a>> \in Seq({a, b, p}) /\ z \in Seq({a, b, p})
      OBVIOUS
<1>2. s \in Seq({a, b, p}) /\ Len(s) = 3 /\ Len(z) = 3
      BY <1>1
<1>3. s[1] = a /\ s[2] = b /\ s[3] = p /\ z[1] = a /\ z[2] = b /\ z[3] = p
      BY <1>1
<1>4. <<>> \o <<b, p>> = <<b, p>>
      BY <1>1
<1> HIDE DEF s, z
<1>5. \A i \in 1..3 : s[i] = z[i]
      BY <1>3
<1>6. s = z
      BY <1>1, <1>2, <1>5
<1> QED  BY <1>4, <1>6 DEF s, z

LEMMA KeepsImport == ASSUME TreeInv, Import PROVE TreeInv'
<1>1. PICK e \in Endpoint, l \in Label \cup {Reserved} :
        LET labelled == Only(DepthFirst(Shown, Collected(tree)), {c \in Id : c[1] = l})
            make == IF l = Reserved \/ labelled # <<>> THEN <<>>
                    ELSE <<Request("create", l, Root, 0, <<>>)>>
        IN  import' = [endpoint |-> e, tag |-> l, quiet |-> TRUE,
                       ids |-> [x \in Label |-> IF x = l /\ labelled # <<>> THEN labelled[1] ELSE Nil],
                       todo |-> make \o <<Request("createMock", e, Root, 0, <<>>),
                                          Request("assign", e, Unsorted, LastIndex, <<>>)>>]
      BY DEF Import
<1>2. job = Nil /\ UNCHANGED <<tree, onDisk, job>> /\ Normal(tree)
      BY DEF Import, TreeInv
<1> DEFINE all == DepthFirst(Shown, Collected(tree))
           mine == {c \in Id : c[1] = l}
           labelled == Only(all, mine)
           a == Request("create", l, Root, 0, <<>>)
           b == Request("createMock", e, Root, 0, <<>>)
           p == Request("assign", e, Unsorted, LastIndex, <<>>)
           make == IF l = Reserved \/ labelled # <<>> THEN <<>> ELSE <<a>>
           ids == [x \in Label |-> IF x = l /\ labelled # <<>> THEN labelled[1] ELSE Nil]
<1>3. Listed(labelled) /\ ToSet(labelled) = Collected(tree) \cap mine
  <2>1. Listed(all) /\ ToSet(all) = Collected(tree)
        BY <1>2, ShownLaws, DepthFirstWhole
  <2> HIDE DEF all, mine
  <2> QED  BY <2>1, OnlyLaws
<1>4. Collected(tree) \subseteq Id
      BY <1>2 DEF Normal, Rooted
<1>5. labelled = <<>> => \A c \in Collected(tree) : c[1] # l
  <2> HIDE DEF labelled
  <2>1. labelled = <<>> => Collected(tree) \cap mine = {}
        BY <1>3, EmptyIs
  <2> QED  BY <1>4, <2>1
<1>6. labelled # <<>> => labelled[1] \in Collected(tree) /\ labelled[1][1] = l
  <2> HIDE DEF labelled
  <2>1. labelled # <<>> => labelled[1] \in ToSet(labelled)
        BY <1>3 DEF Listed
  <2> QED  BY <1>3, <2>1
<1>7. import' = [endpoint |-> e, tag |-> l, quiet |-> TRUE, ids |-> ids, todo |-> make \o <<b, p>>]
      BY <1>1
<1>8. make \o <<b, p>> = IF l = Reserved \/ labelled # <<>> THEN <<b, p>> ELSE <<a, b, p>>
  <2> HIDE DEF labelled, a, b, p
  <2>1. <<>> \o <<b, p>> = <<b, p>> /\ <<a>> \o <<b, p>> = <<a, b, p>>
        BY OneBeforeTwo
  <2> QED  BY <2>1
<1>9. DOMAIN ids = Label /\ (l \in Label /\ labelled # <<>> => ids[l] = labelled[1])
      OBVIOUS
<1>10. /\ DOMAIN import' = ImportFields /\ import'.endpoint = e /\ import'.tag = l /\ import'.ids = ids
       /\ Make(import') = a /\ Put(import') = b /\ Place(import') = p
       /\ import'.todo = IF l = Reserved \/ labelled # <<>> THEN <<b, p>> ELSE <<a, b, p>>
  <2> HIDE DEF labelled, ids, make
  <2> QED  BY <1>7, <1>8 DEF ImportFields, Make, Put, Place
<1> HIDE DEF labelled, ids, a, b, p
<1>11. <<a, b, p>> # <<b, p>> /\ <<a, b, p>> # <<p>> /\ <<a, b, p>> # <<>> /\ <<b, p>> # <<>> /\ <<b, p>> # <<p>>
  <2>1. Len(<<a, b, p>>) = 3 /\ Len(<<b, p>>) = 2 /\ Len(<<p>>) = 1 /\ Len(<<>>) = 0
        OBVIOUS
  <2> QED  BY <2>1
<1>12. ImportShape(import')
       BY <1>9, <1>10, <1>11 DEF ImportShape, Todos
<1>13. l \in Label => Homed(import', tree, onDisk)
       BY <1>5, <1>6, <1>9, <1>10, <1>11, LabelAssumption DEF Homed
<1>14. ImportFine(import', Nil, tree, onDisk)
       BY <1>10, <1>12, <1>13 DEF ImportFine
<1> QED  BY <1>2, <1>14 DEF TreeInv

\* The request of a step.
LEMMA StepRequest ==
  ASSUME NEW i, ImportShape(i), i.todo # <<>>
  PROVE  LET r == Head(i.todo)
         IN  /\ Listed(r.order) /\ r.index \in Nat /\ (r.op = "create" => r.target \in Label)
             /\ r.op = "assign" => Listed([r EXCEPT !.into = i.ids[i.tag]].order)
             /\ [r EXCEPT !.into = i.ids[i.tag]].index = r.index /\ [r EXCEPT !.into = i.ids[i.tag]].op = r.op
             /\ [r EXCEPT !.into = i.ids[i.tag]].target = r.target
<1>1. i.todo \in Todos(i) /\ (i.todo = <<Make(i), Put(i), Place(i)>> => i.tag \in Label)
      BY DEF ImportShape
<1>2. Head(i.todo) \in {Make(i), Put(i), Place(i)} /\ (Head(i.todo) = Make(i) => i.tag \in Label)
  <2>1. Make(i) # Put(i) /\ Make(i) # Place(i)
        BY DEF Make, Put, Place, Request
  <2> QED  BY <1>1, <2>1, TodosAre
<1>3. LastIndex \in Nat /\ Listed(<<>>)
      BY TreeBoundAssumption, EmptyIs
<1> QED  BY <1>2, <1>3 DEF Make, Put, Place, Request

LEMMA KeepsImportStep == ASSUME TreeInv, ImportStep PROVE TreeInv'
<1> DEFINE r == Head(import.todo)
           id == IF import.tag = Reserved THEN Nil ELSE import.ids[import.tag]
           drops == r.op = "assign" /\ (id = Nil \/ onDisk[r.target] = "absent")
           q == IF r.op = "assign" THEN [r EXCEPT !.into = id] ELSE r
<1>1. /\ job = Nil /\ import # Nil /\ import.todo # <<>> /\ tree' = tree /\ onDisk' = onDisk
      /\ drops => job' = job /\ import' = [import EXCEPT !.todo = <<>>]
      /\ ~drops => HasRoom(r) /\ Started(q) /\ import' = import
      BY DEF ImportStep
<1>2. Normal(tree) /\ ImportFine(import, job, tree, onDisk) /\ ImportShape(import)
      BY <1>1 DEF TreeInv, ImportFine
<1>3. ASSUME drops PROVE ImportFine(import', job', tree', onDisk')
  <2>1. /\ DOMAIN import' = ImportFields /\ import'.endpoint = import.endpoint /\ import'.tag = import.tag
        /\ import'.quiet = import.quiet /\ import'.ids = import.ids /\ import'.todo = <<>>
    <3>1. DOMAIN import = ImportFields
          BY <1>2 DEF ImportShape
    <3> QED  BY <1>1, <1>3, <3>1 DEF ImportFields
  <2>2. /\ Make(import') = Make(import) /\ Put(import') = Put(import) /\ Place(import') = Place(import)
        BY <2>1 DEF Make, Put, Place
  <2>3. <<>> # <<Make(import), Put(import), Place(import)>> /\ <<>> # <<Put(import), Place(import)>>
        /\ <<>> # <<Place(import)>>
        OBVIOUS
  <2>4. ImportShape(import')
        BY <1>2, <2>1, <2>2, <2>3 DEF ImportShape, Todos
  <2>5. ASSUME import.quiet, import.tag \in Label PROVE onDisk[import.endpoint] # "ok"
    <3>1. Homed(import, tree, onDisk) /\ import.todo \in Todos(import) /\ import.tag # Reserved
          BY <1>2, <2>5, LabelAssumption DEF ImportFine, ImportShape
    <3>2. r = Place(import)
      <4>1. r \in {Make(import), Put(import), Place(import)}
            BY <1>1, <3>1, TodosAre
      <4> QED  BY <1>3, <4>1 DEF Make, Put, Place, Request
    <3>3. import.todo = <<Place(import)>>
      <4>1. Make(import) # Place(import) /\ Put(import) # Place(import)
            BY DEF Make, Put, Place, Request
      <4> QED  BY <1>1, <3>1, <3>2, <4>1, TodosAre
    <3>4. id \in Collected(tree)
          BY <3>1, <3>3 DEF Homed
    <3>5. id # Nil
          BY <1>2, <3>4, LabelAssumption DEF Normal, Rooted
    <3>6. r.target = import.endpoint
          BY <3>2 DEF Place, Request
    <3> QED  BY <1>3, <3>5, <3>6
  <2>6. import'.quiet /\ import'.tag \in Label => Homed(import', tree, onDisk)
        BY <2>1, <2>2, <2>3, <2>5 DEF Homed
  <2> QED  BY <1>1, <1>3, <2>4, <2>6 DEF ImportFine
<1>4. ASSUME ~drops PROVE JobFine(job', tree) /\ ImportFine(import', job', tree', onDisk')
  <2>1. import.tag = Reserved => r.op # "assign"
        BY <1>4
  <2>2. q = Became(import, r)
        BY <2>1 DEF Became
  <2>3. /\ Listed(q.order) /\ q.index \in Nat /\ (q.op = "create" => q.target \in Label \cup {Reserved})
        /\ q.op = r.op /\ q.target = r.target
    <3>1. /\ Listed(r.order) /\ r.index \in Nat /\ (r.op = "create" => r.target \in Label)
          /\ r.op = "assign" => Listed([r EXCEPT !.into = import.ids[import.tag]].order)
          /\ [r EXCEPT !.into = import.ids[import.tag]].index = r.index
          /\ [r EXCEPT !.into = import.ids[import.tag]].op = r.op
          /\ [r EXCEPT !.into = import.ids[import.tag]].target = r.target
          BY <1>1, <1>2, StepRequest
    <3> HIDE DEF q, r
    <3> QED  BY <2>2, <3>1 DEF Became
  <2> HIDE DEF q
  <2>4. HasRoom(q) /\ Started(q)
        BY <1>1, <1>4, <2>3 DEF HasRoom
  <2>5. JobFine(job', tree) /\ job'.req = q /\ job'.quiet = TRUE /\ job'.phase # "done"
        BY <1>2, <2>3, <2>4, StartedFine
  <2>6. RunsFirst(import, job')
    <3>1. q.op = "assign" => import.tag \in Label
          BY <1>2, <2>1, <2>3 DEF ImportShape
    <3> QED  BY <1>1, <2>2, <2>5, <3>1 DEF RunsFirst
  <2>7. ImportFine(import, job', tree, onDisk)
        BY <1>2, <2>6 DEF ImportFine
  <2> QED  BY <1>1, <1>4, <2>5, <2>7
<1>5. CASE drops
      BY <1>1, <1>2, <1>3, <1>5 DEF TreeInv
<1>6. CASE ~drops
      BY <1>1, <1>2, <1>4, <1>6 DEF TreeInv
<1> QED  BY <1>5, <1>6

LEMMA KeepsImportEnds == ASSUME TreeInv, ImportEnds PROVE TreeInv'
<1>1. job = Nil /\ import' = Nil /\ UNCHANGED <<tree, job>>
      BY DEF ImportEnds
<1> QED  BY <1>1 DEF TreeInv

LEMMA KeepsStutter == ASSUME TreeInv, UNCHANGED treeVars PROVE TreeInv'
BY DEF TreeInv, treeVars, ImportFine

LEMMA TreeInvHolds == TreeSpec => []TreeInv
<1>1. InitTree => TreeInv
      BY TreeStarts
<1>2. TreeInv /\ [TreeStep]_treeVars => TreeInv'
  <2> SUFFICES ASSUME TreeInv, [TreeStep]_treeVars PROVE TreeInv'
      OBVIOUS
  <2> QED  BY KeepsAsk, KeepsListItems, KeepsReadSubtree, KeepsReread, KeepsWrite, KeepsRefuse,
              KeepsRollBack, KeepsImport, KeepsImportStep, KeepsImportEnds, KeepsTouch, KeepsAnswer,
              KeepsStutter DEF TreeStep
<1> QED  BY <1>1, <1>2, PTL DEF TreeSpec

\* Whatever was written in the file of the collections by hand, before or meanwhile, GET
\* /mocks shows every readable endpoint once; what a mutation writes is a tree that the
\* root reaches, with every reference once and in its own bucket, and it gives no two siblings
\* one label; and an import that nobody disturbs ends with its endpoint in a collection with
\* the label of its tag (TreeWhole).
THEOREM TreeWholeHolds == TreeSpec => []TreeWhole
<1>1. TreeInv => TreeWhole
      BY TreeInvIsWhole
<1> QED  BY <1>1, TreeInvHolds, PTL
==================================================================================

------------------------------ MODULE EndpointFiles ------------------------------
(***************************************************************************)
(* The files of one endpoint and the admin operations that rewrite them    *)
(* (src/src/admin/endpoint-operations.js): the endpoint file with the list *)
(* of its responses and the selected one, the response files, and the      *)
(* assets (uploaded payloads, script sources) the responses name.          *)
(*                                                                         *)
(* Mutations of one workspace run one at a time, and commitWithRollback    *)
(* puts the files back when the runtime rejects them: an operation that    *)
(* ends is one step, and one that is refused leaves the disk as it was.    *)
(* What is left is the hard part: names derived from other names, files    *)
(* removed after the commit, and responses that refer to one another.      *)
(*                                                                         *)
(* Response file 00n.response.json is the number n.  An asset is a pair of *)
(* the base of its name and what follows the first dot; base 0 is a name   *)
(* written by hand.  responseFiles only ever grows by its highest number   *)
(* plus one, so its order is that of the numbers and a set is enough.      *)
(* Statuses, headers, bodies and the text of a script are left out: a      *)
(* content is the response it was last written for.                        *)
(***************************************************************************)
EXTENDS Integers, FiniteSets, FiniteSetsExt

CONSTANTS MaxIndex,     \* bound on the number of a response file
          Uploads,      \* extensions of uploaded payloads
          MaxAssets,    \* bound on the payloads and sources kept on disk
          Workspaces,   \* what may be on disk at the start
          None

Index   == 1..MaxIndex
Scripts == {"handler", "middleware"}
Types   == Scripts \cup {"mock", "stream", "sequence"}
Suffix  == Scripts \cup Uploads
Asset   == (0..MaxIndex) \X Suffix
Variant == [type : Types, asset : Asset \cup {None}, steps : SUBSET Index]
Disk    == [listed : SUBSET Index, selected : Index \cup {None}, enabled : BOOLEAN,
            variant : [Index -> Variant \cup {None}],
            content : [Asset -> (0..MaxIndex) \cup {None}]]

ASSUME IndexAssumption == MaxIndex \in Nat \ {0}
ASSUME NoneAssumption == None \notin Int /\ None \notin Variant /\ None \notin Asset
ASSUME SuffixAssumption == Uploads \cap Scripts = {}

VARIABLE disk

\* No endpoint file and no responses directory.
Empty == [listed |-> {}, selected |-> None, enabled |-> FALSE,
          variant |-> [n \in Index |-> None], content |-> [a \in Asset |-> None]]

Response(t, a, steps) == [type |-> t, asset |-> a, steps |-> steps]
Mock(a)     == Response("mock", a, {})
Script(t, a) == Response(t, a, {})

------------------------------------------------------------------------------
(* What the loader accepts                                                  *)

AssetThere(d, n) == d.variant[n].asset # None => d.content[d.variant[n].asset] # None

\* A response by itself: its asset exists; a sequence only names listed responses.
LoadsAlone(d, n) ==
  /\ n \in d.listed /\ d.variant[n] # None
  /\ AssetThere(d, n)
  /\ d.variant[n].type = "sequence" => d.variant[n].steps \subseteq d.listed

\* The steps of a sequence: mock or handler, each loading by itself.
StepsLoad(d, n) ==
  d.variant[n].type = "sequence" =>
    \A s \in d.variant[n].steps :
      LoadsAlone(d, s) /\ d.variant[s].type \in {"mock", "handler"}

Loads(d, n) == LoadsAlone(d, n) /\ StepsLoad(d, n)

------------------------------------------------------------------------------
(* What a directory holds                                                   *)

\* The response files on disk are exactly those the endpoint lists and one of them
\* is selected; a deleted endpoint leaves nothing that the next one of the same path
\* would find in its place.
ListedOnDisk(d) ==
  /\ d.listed = {n \in Index : d.variant[n] # None}
  /\ d.listed # {} => d.selected \in d.listed
  /\ d.listed = {} => d = Empty

\* Every payload and every source that some response names is there.
AssetsPresent(d) == \A n \in d.listed : AssetThere(d, n)

\* Sequences, and nothing else, have steps, and every step is another listed response.
StepsListed(d) ==
  \A n \in d.listed :
    /\ d.variant[n].type = "sequence" <=> d.variant[n].steps # {}
    /\ d.variant[n].steps \subseteq d.listed \ {n}

ByProgram(a) == a # None /\ a[1] # 0

\* The source or payload a response names is named after that response and was written
\* for it, whenever the name is one the program gave.
OwnContent(d) ==
  \A n \in d.listed :
    LET a == d.variant[n].asset IN ByProgram(a) => a[1] = n /\ d.content[a] = n

\* An enabled endpoint can be loaded and served.
ServedWhenEnabled(d) == d.listed # {} /\ d.enabled => Loads(d, d.selected)

Regular(d) ==
  /\ ListedOnDisk(d) /\ AssetsPresent(d) /\ StepsListed(d) /\ OwnContent(d)
  /\ ServedWhenEnabled(d)

ASSUME WorkspacesAssumption == \A d \in Workspaces : d \in Disk /\ Regular(d)

------------------------------------------------------------------------------
(* The outcome of a mutation                                                *)

\* mutant: the outcome of the reload is not checked
Accepted_Unchecked(d) == d.selected \in d.listed
\* The reload after the writes and the check of its outcome: a disabled endpoint
\* is not loaded, an enabled one must be served.
Accepted(d) == d.selected \in d.listed /\ (d.enabled => Loads(d, d.selected))

Exists == disk.listed # {}
\* The bound of the instance, not a check of the program.
Fits(d) == Cardinality({a \in Asset : d.content[a] # None}) <= MaxAssets
Commit(d) == Accepted(d) /\ Fits(d) /\ disk' = d

------------------------------------------------------------------------------
(* Names and references                                                     *)

NextIndex == Max(disk.listed) + 1

\* mutant: only the base of the endpoint's first response is used
OwnAsset_First(n, suffix) == <<1, suffix>>
\* createClonedResponseAssetFileName, and the name of a new source or upload.
OwnAsset(n, suffix) == <<n, suffix>>

\* mutant: only the selected response is asked
Referenced_Selected(d, n, a) == d.selected # n /\ d.variant[d.selected].asset = a
\* isResponseAssetReferenced: does a listed response other than n name asset a?
Referenced(d, n, a) ==
  \E m \in d.listed \ {n} : d.variant[m] # None /\ d.variant[m].asset = a

\* readSequenceReferenceIndex without n itself: the sequences that have n as a step.
StepOf(d, n) ==
  {m \in d.listed \ {n} : d.variant[m].type = "sequence" /\ n \in d.variant[m].steps}

WriteAsset(d, a, n) == IF a = None THEN d ELSE [d EXCEPT !.content[a] = n]
RemoveAsset(d, a)   == IF a = None THEN d ELSE [d EXCEPT !.content[a] = None]

\* The asset n named before is removed after the commit, when n names another one
\* now and no other response does; a failure of that removal is ignored.
CommitAndSweep(d, n, old) ==
  /\ Accepted(d) /\ Fits(d)
  /\ \/ disk' = d
     \/ /\ old \notin {None, d.variant[n].asset} /\ ~Referenced(d, n, old)
        /\ disk' = RemoveAsset(d, old)

------------------------------------------------------------------------------
(* Operations on the endpoint                                               *)

\* createAdminEndpointFromMock and createAdminEndpointFromScript.
CreateEndpoint(t, enabled) ==
  /\ ~Exists
  /\ t \in Scripts \cup {"mock"}
  /\ LET a == IF t = "mock" THEN None ELSE OwnAsset(1, t) IN
     Commit(WriteAsset([disk EXCEPT !.listed = {1}, !.selected = 1, !.enabled = enabled,
                                    !.variant[1] = Response(t, a, {})], a, 1))

\* updateAdminEndpoint, and one endpoint of setEndpointsEnabledAtomically.
SetEnabled(enabled) ==
  /\ Exists
  /\ Commit([disk EXCEPT !.enabled = enabled])

\* deleteAdminMocksUnlocked: the endpoint file and the whole responses directory.
DeleteEndpoint ==
  /\ Exists
  /\ disk' = Empty

\* updateAdminMock with selectedResponseFile.
Select(n) ==
  /\ n \in disk.listed /\ disk.variant[n] # None
  /\ StepsLoad(disk, n)
  /\ Commit([disk EXCEPT !.selected = n])

\* mutant: the source of a script is named after the first response
Rewritten_FixedName(d, n, t, enabled) ==
  IF t = "mock" THEN [d EXCEPT !.enabled = enabled, !.variant[n] = Mock(None)]
  ELSE LET a == IF t = d.variant[n].type THEN d.variant[n].asset ELSE OwnAsset(1, t) IN
       WriteAsset([d EXCEPT !.enabled = enabled, !.variant[n] = Script(t, a)], a, n)
\* The selected response after the other form of updateAdminMock, which may change
\* its type: a script keeps its source when the type stays, else it gets one named
\* after the response; a mock gets a body.  The asset it named before stays on disk.
Rewritten(d, n, t, enabled) ==
  IF t = "mock" THEN [d EXCEPT !.enabled = enabled, !.variant[n] = Mock(None)]
  ELSE LET a == IF t = d.variant[n].type THEN d.variant[n].asset ELSE OwnAsset(n, t) IN
       WriteAsset([d EXCEPT !.enabled = enabled, !.variant[n] = Script(t, a)], a, n)

UpdateMock(t, enabled) ==
  /\ Exists /\ disk.variant[disk.selected] # None
  /\ disk.variant[disk.selected].type \notin {"stream", "sequence"}
  /\ t \in Scripts \cup {"mock"}
  /\ Commit(Rewritten(disk, disk.selected, t, enabled))

------------------------------------------------------------------------------
(* Operations on a response                                                 *)

\* buildEndpointResponseClone: a body given with the request replaces the file.
ClonedAsset(v, n, body) ==
  IF v.type \notin Scripts \cup {"mock"} \/ v.asset = None \/ (v.type = "mock" /\ body)
    THEN None ELSE OwnAsset(n, v.asset[2])

\* createAdminResponse: a new response of type t, or, when the selected one has that
\* type, a clone of it (steps and body as given, or those of the original).  Steps are
\* responses the endpoint lists.
CreateResponse(t, body, steps, select) ==
  /\ Exists /\ steps \subseteq disk.listed /\ NextIndex \in Index /\ disk.variant[NextIndex] = None
  /\ LET n    == NextIndex
         v    == disk.variant[disk.selected]
         new  == t # v.type
         a    == IF ~new THEN ClonedAsset(v, n, body)
                 ELSE IF t \in Scripts THEN OwnAsset(n, t) ELSE None
         next == WriteAsset([disk EXCEPT
                    !.listed = @ \cup {n},
                    !.selected = IF select THEN n ELSE @,
                    !.variant[n] = Response(t, a, steps)], a, n)
     IN /\ v # None
        /\ body => ~new /\ t = "mock"
        /\ (t = "sequence") = (steps # {})
        /\ (~new /\ a # None) => disk.content[v.asset] # None
        /\ a # None => disk.content[a] = None
        /\ StepsLoad(next, n) /\ AssetThere(next, n)
        /\ Commit(next)

\* updateAdminResponse: the type stays; a body takes a mock off its file, steps
\* replace those of a sequence, the source of a script is written where it is.
UpdateResponse(n, body, steps) ==
  /\ n \in disk.listed /\ steps \subseteq disk.listed /\ disk.variant[n] # None
  /\ LET v    == disk.variant[n]
         a    == IF v.type = "mock" /\ body THEN None ELSE v.asset
         base == [disk EXCEPT !.variant[n] = Response(v.type, a, steps)]
         next == IF v.type \in Scripts THEN WriteAsset(base, a, n) ELSE base
     IN /\ body => v.type = "mock"
        /\ (v.type = "sequence") = (steps # {})
        /\ v.type \in Scripts => disk.content[a] # None
        /\ StepsLoad(next, n) /\ AssetThere(next, n)
        /\ CommitAndSweep(next, n, v.asset)

\* setAdminResponseFile: a mock gets an uploaded payload.
SetResponseFile(n, x) ==
  /\ n \in disk.listed /\ disk.variant[n] # None
  /\ disk.variant[n].type = "mock"
  /\ LET a == OwnAsset(n, x) IN
     CommitAndSweep(WriteAsset([disk EXCEPT !.variant[n] = Mock(a)], a, n),
                    n, disk.variant[n].asset)

\* The response selected when n is deleted: the one right before it, or the first.
Promoted(rest, n) ==
  LET before == {m \in rest : m < n} IN IF before = {} THEN Min(rest) ELSE Max(before)

\* deleteAdminResponse
DeleteResponse(n) ==
  /\ n \in disk.listed /\ disk.variant[n] # None
  /\ disk.listed # {n}
  /\ StepOf(disk, n) = {}
  /\ LET rest == disk.listed \ {n}
         a    == disk.variant[n].asset
         base == [disk EXCEPT !.listed = rest, !.variant[n] = None,
                              !.selected = IF @ = n THEN Promoted(rest, n) ELSE @]
     IN Commit(IF Referenced(disk, n, a) THEN base ELSE RemoveAsset(base, a))

------------------------------------------------------------------------------
(* The copy of an endpoint                                                  *)

\* mutant: the steps of a selected sequence are not copied
Copied_SelectedOnly(d, all) == IF all THEN d.listed ELSE {d.selected}
\* The responses planAdminEndpointCopy takes: all of them, or the selected one with
\* the steps it needs.
Copied(d, all) == IF all THEN d.listed ELSE {d.selected} \cup d.variant[d.selected].steps

\* The directory of the copy: those responses, under the same names, and their assets.
CopyOf(d, all) ==
  LET kept   == Copied(d, all)
      assets == {d.variant[n].asset : n \in kept} IN
  [d EXCEPT !.listed = kept,
            !.variant = [n \in Index |-> IF n \in kept THEN d.variant[n] ELSE None],
            !.content = [a \in Asset |-> IF a \in assets THEN d.content[a] ELSE None]]

\* copyAdminEndpoint: from here on the copy is the endpoint that is followed.
CopyEndpoint(all) ==
  /\ Exists /\ disk.variant[disk.selected] # None
  /\ \A n \in Copied(disk, all) : disk.variant[n] # None /\ AssetThere(disk, n)
  /\ LET copy == CopyOf(disk, all) IN
     /\ \A n \in copy.listed : StepsLoad(copy, n)
     /\ Commit(copy)

------------------------------------------------------------------------------
Init == disk \in Workspaces

Next ==
  \/ \E t \in Types, enabled \in BOOLEAN : CreateEndpoint(t, enabled) \/ UpdateMock(t, enabled)
  \/ \E enabled \in BOOLEAN : SetEnabled(enabled)
  \/ DeleteEndpoint
  \/ \E n \in Index : Select(n) \/ DeleteResponse(n)
  \/ \E t \in Types \ {"sequence"}, body, select \in BOOLEAN : CreateResponse(t, body, {}, select)
  \/ \E steps \in SUBSET disk.listed, select \in BOOLEAN :
       CreateResponse("sequence", FALSE, steps, select)
  \/ \E n \in Index, body \in BOOLEAN : UpdateResponse(n, body, {})
  \/ \E n \in Index, steps \in SUBSET disk.listed \ {{}} : UpdateResponse(n, FALSE, steps)
  \/ \E n \in Index, x \in Uploads : SetResponseFile(n, x)
  \/ \E all \in BOOLEAN : CopyEndpoint(all)

Spec == Init /\ [][Next]_disk

------------------------------------------------------------------------------
(* Properties                                                               *)

\* The directory holds an endpoint with its responses, or nothing.
TypeOK == disk \in Disk

\* Nothing that a response needs disappears, not by the deletion of another response and
\* not by the sweeping that follows a commit, when no reload will notice any more; nothing
\* is left over, and no response gets the files of another, whichever names are used again.
Complete == ListedOnDisk(disk) /\ AssetsPresent(disk) /\ StepsListed(disk) /\ OwnContent(disk)

\* The copy of the selected response alone is served wherever its original is: it takes
\* along every step and every asset that is needed, and nothing that is broken.
CopyServes ==
  Exists /\ disk.enabled =>
    LET copy == CopyOf(disk, FALSE) IN
    Loads(copy, copy.selected) /\ \A n \in copy.listed : Loads(copy, n)

\* After every operation an enabled endpoint is served, whichever response an operation on
\* another one has left selected, and a copy of its selected response would be.
EndpointServes == ServedWhenEnabled(disk) /\ CopyServes

\* What clients are answered with by response n.
Served(d, n) ==
  <<d.variant[n], IF d.variant[n].asset = None THEN None ELSE d.content[d.variant[n].asset]>>

\* An operation changes what one response answers with, at most: every other response
\* that is still listed keeps its definition, its payload and its source.  Two responses
\* can answer with one source only where somebody named it by hand.
OthersUntouched ==
  [][\E n \in Index : \A m \in (disk.listed \cap disk'.listed) \ {n} :
        \/ Served(disk', m) = Served(disk, m)
        \/ disk'.variant[m] = disk.variant[m] /\ disk.variant[m].asset[1] = 0]_disk

==============================================================================

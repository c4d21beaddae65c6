--------------------------- MODULE MCWorkspaceFiles ---------------------------
(***************************************************************************)
(* What the administrator's operations leave in a workspace, for TLC: the  *)
(* files of one endpoint, the tree of the collections, or the data files   *)
(* and the handlers that read them.  They share no state, so subject is    *)
(* chosen once and the state spaces add up.                                *)
(***************************************************************************)
EXTENDS EndpointFiles, CollectionTree, DataFiles

CONSTANTS e1, e2, la, lb, s1, s2, dx, dy

\* Written by hand: responses v, the first one selected, and one asset.
Shared(a, v) ==
  [Empty EXCEPT !.listed = 1..Len(v), !.selected = 1, !.enabled = TRUE,
                !.variant = [n \in Index |-> IF n <= Len(v) THEN v[n] ELSE None],
                !.content[a] = 0]
\* No endpoint; two mocks served from one file.
MCWorkspaces ==
  {Empty, Shared(<<0, "bin">>, <<Mock(<<0, "bin">>), Mock(<<0, "bin">>)>>)}

\* Two endpoints, and three files of collections written by hand: one with a
\* cycle, one in the format before childOrder, one with a collection among the
\* endpoints.
ListingDef == <<e1, e2>>
a1 == <<la, 1>>
a2 == <<la, 2>>
b1 == <<lb, 1>>
Written(cs, up, in, order, old) ==
  [collections |-> cs,
   parent |-> [c \in Id |-> IF c \in DOMAIN up THEN up[c] ELSE Nil],
   memberships |-> [e \in Endpoint |-> IF e \in DOMAIN in THEN in[e] ELSE Nil],
   childOrder |-> [k \in Key |-> IF k \in DOMAIN order THEN order[k] ELSE <<>>],
   legacy |-> old]
RawTreesDef ==
  {Written(<<a1, b1, a2>>, (a1 :> b1) @@ (b1 :> a1) @@ (a2 :> a1), (e1 :> a2) @@ (e2 :> a1),
           (Root :> <<b1>>) @@ (a1 :> <<e2, a2, e1>>), FALSE),
   Written(<<a1, b1>>, (b1 :> a1), (e1 :> a1) @@ (e2 :> a1), (a1 :> <<e2, e1>>), TRUE),
   Written(<<a1, b1>>, (b1 :> a1), (e1 :> a1) @@ (e2 :> a1),
           (Root :> <<a1>>) @@ (a1 :> <<e1, b1, e2>>), FALSE)}

\* One handler reads a file, the other both or none.
SourceRefsDef == {[s \in {s1, s2} |-> IF s = s1 THEN {dx} ELSE refs] : refs \in {{dx, dy}, {}}}

VARIABLE subject

NoTree == InitTree /\ tree = NoCollections /\ onDisk = [e \in Endpoint |-> "ok"]
NoData ==
  /\ dataFile = [n \in DataName |-> NoFile]
  /\ source = [x \in Source |-> [refs |-> {}, sound |-> FALSE]]
  /\ endpointIs = [x \in Source |-> "off"] /\ loaded = [x \in Source |-> NotServed]
  /\ turn = NoTurn /\ touched = FALSE /\ done = [renames |-> 0, edits |-> 0]

MCInit ==
  \/ subject = "endpoint" /\ Init /\ NoTree /\ NoData
  \/ subject = "tree" /\ disk = Empty /\ InitTree /\ NoData
  \/ subject = "data" /\ disk = Empty /\ NoTree /\ InitData

MCNext ==
  /\ UNCHANGED subject
  /\ \/ subject = "endpoint" /\ Next /\ UNCHANGED <<treeVars, dataVars>>
     \/ subject = "tree" /\ TreeStep /\ UNCHANGED <<disk, dataVars>>
     \/ subject = "data" /\ DataStep /\ UNCHANGED <<disk, treeVars>>

MCSpec == MCInit /\ [][MCNext]_<<disk, treeVars, dataVars, subject>>
===============================================================================

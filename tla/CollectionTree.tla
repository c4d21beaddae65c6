---------------------------- MODULE CollectionTree ----------------------------
(***************************************************************************)
(* The collections of a workspace: the tree kept in .collections.json      *)
(* (src/src/admin/collections-state.js), the administrator's operations on *)
(* it (collection-operations.js, the deletions of endpoint-operations.js,  *)
(* openapi-admin-import.js), and the catalog that GET /mocks and the UI    *)
(* make of it (mock-catalog.js, mocks-next.store.ts).                      *)
(*                                                                         *)
(* Mutations run one at a time.  Each reads the file, most list the        *)
(* endpoints, then they write; other programs edit the workspace between   *)
(* any two of these steps, and GET reads the file three times outside the  *)
(* queue.  A collection id is <<label, n>>, the n-th made from that label. *)
(* An endpoint is known by its path; a broken one is on disk but cannot be *)
(* read and so is not listed.                                              *)
(***************************************************************************)
EXTENDS Naturals, FiniteSets, Sequences, SequencesExt, Filtering

CONSTANTS Listing,            \* all endpoint paths, in the order of a listing
          Label,              \* collection labels
          Reserved,           \* the label of the virtual collection
          MaxSame,            \* collections per label
          RawTrees,           \* hand-written contents of .collections.json
          Root, Unsorted, Nil,
          Indices,            \* where a drag may ask to drop, LastIndex for the end
          LastIndex,
          MaxTurns, MaxTouches   \* bounds of the checked instance

Endpoint == ToSet(Listing)
Id == Label \X (1..MaxSame)
Key == Id \cup {Root, Unsorted}

ASSUME ListingAssumption == Listing \in Seq(Endpoint) /\ IsInjective(Listing)
ASSUME LabelAssumption ==
         /\ Reserved \notin Label /\ Nil \notin Endpoint \cup Id
         /\ Root # Unsorted /\ {Root, Unsorted} \cap (Id \cup {Nil}) = {}
         /\ Endpoint \cap Key = {}
ASSUME TreeBoundAssumption == MaxSame \in Nat \ {0} /\ LastIndex \in Nat /\ Indices \subseteq Nat

VARIABLES
  tree,      \* the file as it is read: [collections, parent, memberships, childOrder]
  onDisk,    \* endpoint -> "absent", "broken" or "ok"
  disabled,  \* endpoints switched off
  job,       \* the running mutation, or Nil
  import,    \* the import it is part of, or Nil
  turns, touches

treeVars == <<tree, onDisk, disabled, job, import, turns, touches>>

-------------------------------------------------------------------------------
(* The tree.                                                               *)

\* createEmptyCollectionState; a file that does not exist reads like this.
NoCollections ==
  [collections |-> <<>>, parent |-> [c \in Id |-> Nil],
   memberships |-> [e \in Endpoint |-> Nil], childOrder |-> [k \in Key |-> <<>>],
   legacy |-> FALSE]
ASSUME RawAssumption ==
         \A t \in RawTrees : /\ DOMAIN t = DOMAIN NoCollections
                             /\ t.collections \in Seq(Id) /\ IsInjective(t.collections)
                             /\ \A k \in Key : t.childOrder[k] \in Seq(ToSet(t.childOrder[k]))

Collected(t) == ToSet(t.collections)

\* The chain of parents from c never ends: c is in a set of collections that holds the
\* parent of each of its members.
Loops(t, c) == \E S \in SUBSET Collected(t) : c \in S /\ \A x \in S : t.parent[x] \in S

\* Mutant: the parent is taken as it is written.
resolveCollectionParentId_AsWritten(t, c) ==
  IF t.parent[c] \in Collected(t) THEN t.parent[c] ELSE Nil

\* resolveCollectionParentId: a parent that is not there, or above which the
\* chain comes back, does not count.
resolveCollectionParentId(t, c) ==
  IF t.parent[c] \in Collected(t) /\ ~Loops(t, c) THEN t.parent[c] ELSE Nil

\* readCollectionOrderParentKey and readCollectionOrderKey: where a reference
\* lives.  An id that is not a collection reads like the path of a file nobody
\* assigned.
HomeOf(t, ref) ==
  IF ref \in Collected(t) THEN (IF t.parent[ref] = Nil THEN Root ELSE t.parent[ref])
  ELSE IF ref \in Endpoint /\ t.memberships[ref] # Nil THEN t.memberships[ref]
  ELSE Unsorted

\* The collections directly in k.
Children(t, k) == {c \in Collected(t) : HomeOf(t, c) = k}

\* Each reference where it comes first.
Firsts(s) == Kept(s, {i \in DOMAIN s : \A j \in 1..(i - 1) : s[j] # s[i]})

\* normalizeChildOrder: the references of a bucket that belong there.
normalizeChildOrder(raw, t, k) ==
  LET refs == Firsts(raw.childOrder[k]) IN Only(refs, {r \in ToSet(refs) : HomeOf(t, r) = k})

\* deriveLegacyChildOrder: of a file written before childOrder existed, whose
\* orders hold endpoints only.
deriveLegacyChildOrder(raw, t, k) ==
  Only(normalizeChildOrder(raw, t, k), Endpoint) \o Only(t.collections, Children(t, k))

\* normalizeCollectionState.
normalizeCollectionState(raw) ==
  LET t == [raw EXCEPT
              !.parent = [c \in Id |-> IF c \in Collected(raw) THEN resolveCollectionParentId(raw, c)
                                       ELSE Nil],
              !.memberships = [e \in Endpoint |-> IF @[e] \in Collected(raw) THEN @[e] ELSE Nil]]
  IN  [t EXCEPT
         !.childOrder = [k \in Key |->
            IF k \notin Collected(raw) \cup {Root, Unsorted} THEN <<>>
            ELSE IF raw.legacy THEN deriveLegacyChildOrder(raw, t, k)
            ELSE normalizeChildOrder(raw, t, k)],
         !.legacy = FALSE]

\* resolveChildOrder: the stored order of what exists, then what it does not
\* know: endpoints as listed, collections as created.
resolveChildOrder(t, items) ==
  [k \in Key |->
     LET desired == items[k] \o Only(t.collections, Children(t, k))
         known == Only(Firsts(t.childOrder[k]), ToSet(desired))
     IN  known \o Only(desired, ToSet(desired) \ ToSet(known))]

\* sortAdminItems: within each bucket, in the resolved order.
sortAdminItems(t, items) ==
  [k \in Key |-> Only(resolveChildOrder(t, items)[k], Endpoint)]

\* listAdminMocks: the readable endpoints of each bucket.
listAdminMocks(t) ==
  sortAdminItems(t, [k \in Key |->
                       Only(Listing, {e \in Endpoint : onDisk[e] = "ok" /\ HomeOf(t, e) = k})])

\* What the catalog shows of the workspace as it is now.
Shown == resolveChildOrder(tree, listAdminMocks(tree))

\* readCollectionSubtreeIds: what lies below c, itself included.
Subtree(t, c) ==
  {x \in Collected(t) : \A S \in SUBSET Collected(t) :
      c \in S /\ (\A y \in Collected(t) : t.parent[y] \in S => y \in S) => x \in S}

\* The order it is met in: passes over the collections until nothing is added, in single
\* steps each of which looks at the next collection.
readCollectionSubtreeIds(t, c) ==
  LET all == t.collections
      met[n \in 0..(Len(all) * Len(all))] ==
        IF n = 0 THEN <<c>>
        ELSE LET s == met[n - 1]
                 x == all[((n - 1) % Len(all)) + 1]
             IN  s \o (IF x \notin ToSet(s) /\ t.parent[x] \in ToSet(s) THEN <<x>> ELSE <<>>)
  IN  Only(met[Len(all) * Len(all)], Subtree(t, c))

\* What is met going down from k, each collection before what it contains and none of ids
\* entered again.
Walk(order, ids, k) ==
  LET below[p \in (SUBSET ids) \X Key] ==
        FlattenSeq([i \in DOMAIN order[p[2]] |->
          LET r == order[p[2]][i]
          IN  <<r>> \o (IF r \in p[1] THEN below[<<p[1] \ {r}, r>>] ELSE <<>>)])
  IN  below[<<ids, k>>]

\* computeCollectionDfsOrder.
DepthFirst(order, ids) == Only(Walk(order, ids, Root), ids)

\* removeRefFromChildOrder, for each reference of a set.
Without(order, refs) == [k \in Key |-> Only(order[k], ToSet(order[k]) \ refs)]

\* insertRefIntoChildOrder.
Inserted(order, ref, k, index) ==
  LET s == Only(order[k], ToSet(order[k]) \ {ref})
  IN  [order EXCEPT ![k] = InsertAt(s, (IF index < Len(s) THEN index ELSE Len(s)) + 1, ref)]

\* Mutant: the collections come after the endpoints they were among.
InPlace_AtEnd(s, refs, new) == Only(s, ToSet(s) \ refs) \o new

\* The places that hold members of refs, filled with them in a new order.
InPlace(s, refs, new) ==
  LET met(i) == Cardinality({j \in 1..i : s[j] \in refs})
  IN  [i \in DOMAIN s |-> IF s[i] \in refs THEN new[met(i)] ELSE s[i]]
        \o SubSeq(new, met(Len(s)) + 1, Len(new))

-------------------------------------------------------------------------------
(* The operations: when one is refused, and what it writes.                *)

\* Mutant: labels are compared at the top level only.
LabelTaken_TopLevel(t, label, k, except) ==
  k = Root /\ \E c \in Collected(t) \ {except} : HomeOf(t, c) = k /\ c[1] = label

\* compareCollectionLabels among the children of k.
LabelTaken(t, label, k, except) ==
  \E c \in Collected(t) \ {except} : HomeOf(t, c) = k /\ c[1] = label

\* buildCollectionId: the first free number.
buildCollectionId(t, label) ==
  <<label, CHOOSE n \in 1..MaxSame : /\ <<label, n>> \notin Collected(t)
                                     /\ \A m \in 1..(n - 1) : <<label, m>> \in Collected(t)>>

\* The endpoints that a deletion or a mass update is about.
Targets(j) ==
  CASE j.req.op \in {"erase", "enable"} -> UNION {ToSet(j.items[k]) : k \in j.subtree}
    [] j.req.op \in {"deleteMock", "createMock"} -> {j.req.target}
    [] OTHER -> {}

Covers(asked, s) == IsInjective(asked) /\ ToSet(asked) = ToSet(s)

\* The early returns of the operations.
Refused(j) ==
  LET r == j.req
      t == j.known
  IN
  CASE r.op = "create" -> \/ r.target = Reserved \/ r.into \notin Collected(t) \cup {Root}
                          \/ LabelTaken(t, r.target, r.into, Nil)
    [] r.op = "delete" -> r.target \notin Collected(t)
    [] r.op = "reparent" ->
         \/ r.target \notin Collected(t) \/ r.into \notin Collected(t) \cup {Root}
         \/ r.into \in Subtree(t, r.target)
         \/ LabelTaken(t, r.target[1], r.into, r.target)
    [] r.op = "reorderCollections" ->
         \/ r.into \notin Collected(t) \cup {Root}
         \/ ~Covers(r.order, Only(t.collections, Children(t, r.into)))
    [] r.op = "assign" -> r.into \notin Collected(t) \cup {Unsorted}
    [] r.op = "reorderItems" ->
         r.into \notin Collected(t) \cup {Unsorted} \/ ~Covers(r.order, j.items[r.into])
    [] r.op = "reorderChildren" ->
         \/ r.into \notin Collected(t) \cup {Root, Unsorted}
         \/ ~Covers(r.order, resolveChildOrder(t, j.items)[r.into])
    [] r.op = "enable" -> r.target \notin Collected(t)
    [] r.op = "erase" -> r.target # Unsorted /\ j.subtree = {}
    [] r.op = "createMock" -> onDisk[r.target] # "absent"
    [] OTHER -> FALSE

\* deleteAdminCollection: the endpoints go to the end of Unsorted, those with a
\* place first.
Dissolved(t, c) ==
  LET gone == Subtree(t, c)
      met == readCollectionSubtreeIds(t, c)
      placed == FlattenSeq([i \in DOMAIN met |-> Without(t.childOrder, Collected(t))[met[i]]])
      moved == Firsts(placed \o Only(Listing, {e \in Endpoint : t.memberships[e] \in gone}))
      rest == Without(t.childOrder, gone \cup ToSet(moved))
  IN  [t EXCEPT
         !.collections = Only(@, Collected(t) \ gone),
         !.memberships = [e \in Endpoint |-> IF @[e] \in gone THEN Nil ELSE @[e]],
         !.childOrder = [k \in Key |-> IF k = Unsorted THEN rest[k] \o moved
                                       ELSE IF k \in gone THEN <<>> ELSE rest[k]]]

\* Mutant: a bucket that loses something loses its order.
Erased_ForgetsBucket(t, endpoints, gone) ==
  [t EXCEPT
     !.collections = Only(@, Collected(t) \ gone),
     !.memberships = [e \in Endpoint |-> IF e \in endpoints \/ @[e] \in gone THEN Nil ELSE @[e]],
     !.childOrder = [k \in Key |->
        IF k \in gone \/ ToSet(@[k]) \cap (endpoints \cup gone) # {} THEN <<>> ELSE @[k]]]

\* deleteAdminMocks with mutateCollectionState of eraseAdminCollection.
Erased(t, endpoints, gone) ==
  [t EXCEPT
     !.collections = Only(@, Collected(t) \ gone),
     !.memberships = [e \in Endpoint |-> IF e \in endpoints \/ @[e] \in gone THEN Nil ELSE @[e]],
     !.childOrder = [k \in Key |-> IF k \in gone THEN <<>>
                                   ELSE Without(@, endpoints \cup gone)[k]]]

\* createAdminCollection: first among what its parent holds, last at the top.
Created(t, r) ==
  LET c == buildCollectionId(t, r.target)
  IN  [t EXCEPT !.collections = Append(@, c),
                !.parent[c] = IF r.into = Root THEN Nil ELSE r.into,
                !.childOrder = Inserted(@, c, r.into, IF r.into = Root THEN LastIndex ELSE 0)]

\* reparentAdminCollection, in the stored order.
Reparented(t, r) ==
  [t EXCEPT !.parent[r.target] = IF r.into = Root THEN Nil ELSE r.into,
            !.childOrder = Inserted(Without(@, {r.target}), r.target, r.into, r.index)]

\* reorderAdminCollections, in the stored order.
CollectionsReordered(t, r) ==
  [t EXCEPT !.childOrder[r.into] = InPlace(@, ToSet(r.order), r.order)]

\* assignAdminCollection, in the order synchronised with the list.
Assigned(t, r, items) ==
  [t EXCEPT !.memberships[r.target] = IF r.into = Unsorted THEN Nil ELSE r.into,
            !.childOrder = Inserted(Without(resolveChildOrder(t, items), {r.target}),
                                    r.target, r.into, r.index)]

\* reorderAdminCollectionItems.
ItemsReordered(t, r, items) ==
  [t EXCEPT !.childOrder = [resolveChildOrder(t, items) EXCEPT
                              ![r.into] = InPlace(@, ToSet(r.order), r.order)]]

\* reorderAdminCollectionChildren.
ChildrenReordered(t, r, items) ==
  [t EXCEPT !.childOrder = [resolveChildOrder(t, items) EXCEPT ![r.into] = r.order]]

\* What an operation that is not refused makes of the tree it read.
Changed(j) ==
  LET r == j.req
      t == j.known
  IN
  CASE r.op = "create" -> Created(t, r)
    [] r.op = "delete" -> Dissolved(t, r.target)
    [] r.op = "reparent" -> Reparented(t, r)
    [] r.op = "reorderCollections" -> CollectionsReordered(t, r)
    [] r.op = "assign" -> Assigned(t, r, j.items)
    [] r.op = "reorderItems" -> ItemsReordered(t, r, j.items)
    [] r.op = "reorderChildren" -> ChildrenReordered(t, r, j.items)
    [] r.op \in {"erase", "deleteMock"} -> Erased(t, Targets(j), j.subtree \ {Unsorted})
    [] OTHER -> t

\* updateAdminCollectionEnabled and setEndpointsEnabledAtomically: the endpoints
\* of the subtree, on or off.
Switched(j) == IF j.req.index = 1 THEN disabled \ Targets(j) ELSE disabled \cup Targets(j)

-------------------------------------------------------------------------------
(* The steps.                                                              *)

InitTree ==
  /\ tree \in {normalizeCollectionState(t) : t \in RawTrees \cup {NoCollections}}
  /\ onDisk \in [Endpoint -> {"absent", "ok"}]
  /\ disabled = {} /\ job = Nil /\ import = Nil
  /\ turns = 0 /\ touches = 0

NoItems == [k \in Key |-> <<>>]
Request(op, target, into, index, order) ==
  [op |-> op, target |-> target, into |-> into, index |-> index, order |-> order]

\* Two orders of s that a drag could ask for.
Reorders(s) == IF Len(s) < 2 THEN {s} ELSE {Reverse(s), Append(Tail(s), Head(s))}

\* What the administrator asks for, seeing the catalog as it is.
Requests ==
  LET cs == Collected(tree)
      there == {e \in Endpoint : onDisk[e] # "absent"}
      only(k, S) == Only(Shown[k], S)
  IN  {Request("create", l, k, 0, <<>>) : l \in Label \cup {Reserved}, k \in cs \cup {Root}}
      \cup {Request("delete", c, Root, 0, <<>>) : c \in cs}
      \cup {Request("erase", c, Root, 0, <<>>) : c \in cs \cup {Unsorted}}
      \cup {Request("enable", c, Root, n, <<>>) : c \in cs, n \in {0, 1}}
      \cup {Request("reparent", c, k, n, <<>>) : c \in cs, k \in cs \cup {Root}, n \in Indices}
      \cup {Request("assign", e, k, n, <<>>) : e \in there, k \in cs \cup {Unsorted}, n \in Indices}
      \cup (UNION {{Request("reorderCollections", Nil, k, 0, q) : q \in Reorders(only(k, Id))}
                     : k \in cs \cup {Root}})
      \cup (UNION {{Request("reorderItems", Nil, k, 0, q) : q \in Reorders(only(k, Endpoint))}
                     : k \in cs \cup {Unsorted}})
      \cup (UNION {{Request("reorderChildren", Nil, k, 0, q) : q \in Reorders(Shown[k])} : k \in Key})
      \cup {Request("createMock", e, Root, 0, <<>>) : e \in Endpoint \ there}
      \cup {Request("deleteMock", e, Root, 0, <<>>) : e \in there}

\* Bound: a label still has a number for a new collection.
HasRoom(r) ==
  r.op = "create" /\ r.target # Reserved => <<r.target, MaxSame>> \notin Collected(tree)

\* A mutation leaves the queue and does its first read: the file, or for an
\* erasure the list.
Started(r) ==
  job' = [req |-> r, quiet |-> TRUE, backup |-> tree,
          known |-> tree, items |-> IF r.op = "erase" THEN listAdminMocks(tree) ELSE NoItems,
          subtree |-> {}, shown |-> NoItems,
          phase |-> IF r.op \in {"assign", "reorderItems", "reorderChildren", "enable"} THEN "list"
                    ELSE IF r.op = "erase" THEN "subtree" ELSE "write"]

Ask ==
  /\ job = Nil /\ import = Nil /\ turns < MaxTurns
  /\ \E r \in Requests :
       /\ HasRoom(r)
       /\ r.op = "assign" => onDisk[r.target] # "absent"
       /\ Started(r)
  /\ turns' = turns + 1
  /\ UNCHANGED <<tree, onDisk, disabled, import, touches>>

\* The second read of an operation that lists the endpoints.
ListItems ==
  /\ job # Nil /\ job.phase = "list"
  /\ job' = [job EXCEPT !.phase = "write", !.items = listAdminMocks(tree),
                        !.subtree = IF job.req.op = "enable" /\ job.req.target \in Collected(job.known)
                                    THEN Subtree(job.known, job.req.target)
                                    ELSE {}]
  /\ UNCHANGED <<tree, onDisk, disabled, import, turns, touches>>

\* eraseAdminCollection reads what it erases, deleteAdminMocks reads the file again.
ReadSubtree ==
  /\ job # Nil /\ job.phase = "subtree"
  /\ LET c == job.req.target
     IN  job' = [job EXCEPT !.phase = "reread",
                            !.subtree = IF c = Unsorted THEN {Unsorted}
                                        ELSE IF c \in Collected(tree)
                                             THEN Subtree(tree, c)
                                        ELSE {}]
  /\ UNCHANGED <<tree, onDisk, disabled, import, turns, touches>>

Reread ==
  /\ job # Nil /\ job.phase = "reread"
  /\ job' = [job EXCEPT !.phase = "write", !.backup = tree, !.known = tree]
  /\ UNCHANGED <<tree, onDisk, disabled, import, turns, touches>>

\* A failed or refused operation leaves its own subject as it was.
Unwritable(j) == \E e \in Targets(j) : j.req.op # "createMock" /\ onDisk[e] # "ok"

Disturbed(p) == IF p = Nil THEN Nil ELSE [p EXCEPT !.quiet = FALSE]

\* Mutant: a collection made for a tag is not remembered.
ImportAfter_Forgets(ok) ==
  IF import = Nil THEN Nil ELSE [import EXCEPT !.todo = Tail(@), !.quiet = @ /\ job.quiet]

\* The import goes on with the next step.
ImportAfter(ok) ==
  IF import = Nil THEN Nil
  ELSE [import EXCEPT
          !.todo = Tail(@),
          !.quiet = @ /\ job.quiet,
          !.ids = IF job.req.op = "create"
                  THEN [@ EXCEPT ![job.req.target] = IF ok THEN buildCollectionId(job.known, job.req.target)
                                                     ELSE Nil]
                  ELSE @]

\* writeCollectionsState: what is written is normalised first.
Write ==
  /\ job # Nil /\ job.phase = "write" /\ ~Refused(job) /\ ~Unwritable(job)
  /\ tree' = IF job.req.op \in {"enable", "createMock"} THEN tree
               ELSE normalizeCollectionState(Changed(job))
  /\ onDisk' = [e \in Endpoint |->
                  IF e \notin Targets(job) \/ job.req.op = "enable" THEN onDisk[e]
                  ELSE IF job.req.op = "createMock" THEN "ok" ELSE "absent"]
  /\ disabled' = IF job.req.op = "enable" THEN Switched(job)
                 ELSE disabled \ {e \in Targets(job) : onDisk'[e] = "absent"}
  /\ job' = [job EXCEPT !.phase = "done", !.shown = Shown] /\ import' = ImportAfter(TRUE)
  /\ UNCHANGED <<turns, touches>>

\* The answer, and the queue is free.
Answer ==
  /\ job # Nil /\ job.phase = "done"
  /\ job' = Nil
  /\ UNCHANGED <<tree, onDisk, disabled, import, turns, touches>>

Refuse ==
  /\ job # Nil /\ job.phase = "write" /\ (Refused(job) \/ Unwritable(job))
  /\ job' = Nil /\ import' = ImportAfter(FALSE)
  /\ UNCHANGED <<tree, onDisk, disabled, turns, touches>>

\* The reload rejects it and commitWithRollback restores what the backup holds.
RollBack ==
  /\ job # Nil /\ job.phase = "write" /\ ~Refused(job) /\ ~Unwritable(job)
  /\ job.req.op \in {"erase", "deleteMock", "enable", "createMock"}
  /\ tree' = IF job.req.op \in {"erase", "deleteMock"} THEN job.backup ELSE tree
  /\ job' = Nil /\ import' = ImportAfter(FALSE)
  /\ UNCHANGED <<onDisk, disabled, turns, touches>>

\* importAdminOpenapi: for each tag the first collection with its label, or one
\* to create; then the endpoints; then where they go.
Import ==
  /\ job = Nil /\ import = Nil /\ turns < MaxTurns
  /\ \E e \in Endpoint, l \in Label \cup {Reserved} :
       LET labelled == Only(DepthFirst(Shown, Collected(tree)), {c \in Id : c[1] = l})
           make == IF l = Reserved \/ labelled # <<>> THEN <<>>
                   ELSE <<Request("create", l, Root, 0, <<>>)>>
       IN  /\ onDisk[e] = "absent"
           /\ import' = [endpoint |-> e, tag |-> l, quiet |-> TRUE,
                         ids |-> [x \in Label |-> IF x = l /\ labelled # <<>> THEN labelled[1]
                                                  ELSE Nil],
                         todo |-> make \o <<Request("createMock", e, Root, 0, <<>>),
                                            Request("assign", e, Unsorted, LastIndex, <<>>)>>]
  /\ turns' = turns + 1
  /\ UNCHANGED <<tree, onDisk, disabled, job, touches>>

ImportStep ==
  /\ job = Nil /\ import # Nil /\ import.todo # <<>>
  /\ LET r == Head(import.todo)
         id == IF import.tag = Reserved THEN Nil ELSE import.ids[import.tag]
     IN  IF r.op = "assign" /\ (id = Nil \/ onDisk[r.target] = "absent")
         THEN job' = job /\ import' = [import EXCEPT !.todo = <<>>]
         ELSE /\ HasRoom(r)
              /\ Started(IF r.op = "assign" THEN [r EXCEPT !.into = id] ELSE r)
              /\ UNCHANGED import
  /\ UNCHANGED <<tree, onDisk, disabled, turns, touches>>

ImportEnds ==
  /\ job = Nil /\ import # Nil /\ import.todo = <<>>
  /\ import' = Nil
  /\ UNCHANGED <<tree, onDisk, disabled, job, turns, touches>>

\* Another program edits the workspace.
Touch ==
  /\ touches < MaxTouches /\ touches' = touches + 1
  /\ \/ tree' \in {normalizeCollectionState(t) : t \in RawTrees} \ {tree} /\ UNCHANGED onDisk
     \/ \E e \in Endpoint : /\ onDisk' \in {[onDisk EXCEPT ![e] = x] : x \in {"absent", "broken", "ok"}}
                            /\ onDisk' # onDisk /\ UNCHANGED tree
  /\ job' = Disturbed(job)
  /\ import' = Disturbed(import)
  /\ disabled' = {e \in disabled : onDisk'[e] # "absent"}
  /\ UNCHANGED turns

TreeStep == \/ Ask \/ ListItems \/ ReadSubtree \/ Reread \/ Write \/ Refuse \/ RollBack
            \/ Import \/ ImportStep \/ ImportEnds \/ Touch \/ Answer
TreeSpec == InitTree /\ [][TreeStep]_treeVars


-------------------------------------------------------------------------------
(* Properties.                                                             *)

\* GET /mocks and buildCatalogForest: what the UI shows below k, from its three
\* parts: the items, the collections and the order.
Forest(items, t, order, k) ==
  LET refs == [b \in Key |->
                LET desired == items[b] \o Only(t.collections, Children(t, b))
                IN  Firsts(Only(order[b], ToSet(desired)) \o desired)]
  IN  Only(Walk(refs, Collected(t), k), Endpoint)

\* The catalog on screen has every readable endpoint once, whatever was written
\* in the file by hand, when nothing changes while it is read.
CatalogShowsAll ==
  job = Nil =>
  LET items == listAdminMocks(tree)
      shown == Forest(items, tree, Shown, Root) \o Forest(items, tree, Shown, Unsorted)
  IN  IsInjective(shown) /\ ToSet(shown) = {e \in Endpoint : onDisk[e] = "ok"}

\* A mutation has written, with nobody editing since it began.
DoneAlone == job # Nil /\ job.phase = "done" /\ job.quiet

\* What an operation is about: the rest must stay in order.
Moved(j) ==
  CASE j.req.op \in {"reparent", "assign", "deleteMock"} -> {j.req.target}
    [] j.req.op \in {"reorderCollections", "reorderItems", "reorderChildren"} -> ToSet(j.req.order)
    [] j.req.op = "delete" -> LET gone == Subtree(j.known, j.req.target)
                              IN  gone \cup {e \in Endpoint : j.known.memberships[e] \in gone}
    [] OTHER -> {}

\* Whatever is done to one part of the tree, what it is not about keeps its order
\* where it stays.  Only the whole file is ever written, from a normalised copy
\* and, for some operations, from a list of the endpoints: order is what such a
\* rewrite loses.
OthersKeepOrder ==
  DoneAlone =>
    \A k \in Key :
      LET before == job.shown[k]
          after == Shown[k]
          both == (ToSet(before) \cap ToSet(after)) \ Moved(job)
      IN  Only(before, both) = Only(after, both)

\* The members of S keep their places among the others.
SamePlaces(S, s, z) == Len(s) = Len(z) /\ \A i \in DOMAIN s : s[i] \in S \/ z[i] \in S => s[i] = z[i]

\* What was asked is what is shown: a thing that was moved is at the index where
\* it was dropped, a new order is the one asked and leaves the other kind where
\* it was, an erasure and a mass update reach the whole subtree and no more.
\* What moves collections counts stored places, so it promises an index only
\* when they are those shown.
DoneAsAsked ==
  DoneAlone =>
    LET r == job.req
        s == Shown[r.into]
        was == job.shown[r.into]
        at == IF r.index < Len(s) THEN r.index + 1 ELSE Len(s)
        counted == job.known.childOrder[r.into] = was
        under == ToSet(Forest([k \in Key |-> Only(job.shown[k], Endpoint)],
                              job.known, job.shown, r.target))
        here == {e \in Endpoint : onDisk[e] = "ok"}
    IN  CASE r.op = "assign" -> onDisk[r.target] = "ok" => s[at] = r.target
          [] r.op = "reparent" -> r.target \in ToSet(s) /\ (counted => s[at] = r.target)
          [] r.op = "create" -> \E c \in (ToSet(s) \ ToSet(was)) \cap Id : c[1] = r.target
          [] r.op = "reorderItems" -> /\ Only(s, Endpoint) = r.order
                                      /\ SamePlaces(Id, was, s)
          [] r.op = "reorderCollections" -> /\ Only(s, Id) = r.order
                                            /\ counted => SamePlaces(Endpoint, was, s)
          [] r.op = "reorderChildren" -> s = r.order
          [] r.op = "delete" -> under \subseteq ToSet(Shown[Unsorted])
          [] r.op = "erase" -> /\ under \cap here = {} /\ r.target \notin Collected(tree)
                               /\ UNION {ToSet(job.shown[k]) \cap Endpoint : k \in Key} \ under = here
          [] r.op = "enable" -> IF r.index = 1 THEN under \cap disabled = {} ELSE under \subseteq disabled
          [] OTHER -> TRUE

\* An operation on the tree does what was asked, where it was asked, and moves nothing else.
OrderKept == OthersKeepOrder /\ DoneAsAsked

SiblingsDiffer(t) ==
  \A c, d \in Collected(t) : c # d /\ HomeOf(t, c) = HomeOf(t, d) => c[1] # d[1]

\* Whatever an earlier hand edit left in the file, what the program writes is a
\* tree that the root reaches, with one place for every reference, in its own
\* bucket; and it never makes siblings of two collections with one label.
TreeStaysSound ==
  job # Nil /\ job.phase = "done" /\ job.quiet =>
    /\ ToSet(DepthFirst([k \in Key |-> Only(tree.collections, Children(tree, k))], Collected(tree)))
         = Collected(tree)
    /\ \A k \in Key : /\ IsInjective(tree.childOrder[k])
                      /\ \A r \in ToSet(tree.childOrder[k]) : HomeOf(tree, r) = k
    /\ SiblingsDiffer(job.known) => SiblingsDiffer(tree)

\* An imported endpoint is in a collection with the label of its tag; only the
\* reserved label makes none.
ImportPlaced ==
  import # Nil /\ import.todo = <<>> /\ import.quiet /\ import.tag # Reserved =>
    LET c == tree.memberships[import.endpoint]
    IN  onDisk[import.endpoint] = "ok" => c # Nil /\ c[1] = import.tag

\* The tree is whole: what is written is a tree, the catalog shows every endpoint of it
\* once, and an import lands in its collection.
TreeWhole == CatalogShowsAll /\ TreeStaysSound /\ ImportPlaced

===============================================================================

------------------------------- MODULE CatalogDnd -------------------------------
(***************************************************************************)
(* Moving an endpoint or a collection in the catalog                       *)
(* (mockxy-ui/.../mocks-next/catalog/catalog-dnd.ts and the handlers of    *)
(* mocks-next-catalog.ts): the flat list of the rows on screen, what a     *)
(* drop at a height would do, and the change asked of the store, which     *)
(* shows it at once.  What the server makes of it is CollectionTree's.     *)
(*                                                                         *)
(* A row is eight high: its middle band has both its ends, and the halves  *)
(* their boundary.                                                         *)
(***************************************************************************)
EXTENDS Integers, Sequences, FiniteSets, FiniteSetsExt, SequencesExt, Functions

CONSTANTS EndpointRow, CollectionRow,   \* the ids
          RootOrder, UnsortedOrder,     \* ROOT_ORDER_KEY, UNSORTED_COLLECTION_ID
          NoMove,
          StartOrders,                  \* childOrder at first
          MaxFolded                     \* bound: rows folded at once

ASSUME DndAssumption ==
  EndpointRow \cap CollectionRow = {} /\ {RootOrder, UnsortedOrder} \cap (EndpointRow \cup CollectionRow) = {}

VARIABLES
  childOrder,   \* parent -> the refs of its children, in order
  folded,       \* collapsed: the collections, or Unsorted, whose rows are hidden
  lastMove      \* the last move: what was dropped where, and the order before it; or NoMove

dndVars == <<childOrder, folded, lastMove>>

Ref == EndpointRow \cup CollectionRow
ParentKey == CollectionRow \cup {RootOrder, UnsortedOrder}

-------------------------------------------------------------------------------
(* The rows. *)

ParentIn(order, r) == CHOOSE k \in ParentKey : r \in ToSet(order[k])

\* What is below k, itself left out; bounded, for an order with a cycle has no end.
DescendantRefs(order, k) ==
  LET within[n \in 0..Cardinality(CollectionRow)] ==
        IF n = 0 THEN {}
        ELSE LET more == within[n - 1] IN
               UNION {ToSet(order[p]) : p \in {k} \cup (more \cap CollectionRow)}
  IN  IF k \in CollectionRow THEN within[Cardinality(CollectionRow)] ELSE {}

\* flattenNode: the rows below k, without those of folded collections.
RowsBelow(order, folds, k, depth) ==
  LET below[n \in 0..(Cardinality(CollectionRow) + 1), p \in ParentKey] ==
        IF n = 0 \/ p \in folds THEN <<>>
        ELSE FoldLeft(LAMBDA acc, r :
               acc \o <<[ref |-> r, parent |-> p, depth |-> depth + Cardinality(CollectionRow) + 1 - n]>>
                   \o (IF r \in CollectionRow THEN below[n - 1, r] ELSE <<>>),
               <<>>, order[p])
  IN  below[Cardinality(CollectionRow) + 1, k]
\* buildCatalogRows: the unsorted endpoints, then the roots.
Rows(order, folds) ==
  RowsBelow(order, folds, UnsortedOrder, 1) \o RowsBelow(order, folds, RootOrder, 0)
At(rows, r) == CHOOSE i \in DOMAIN rows : rows[i].ref = r

-------------------------------------------------------------------------------
(* The decision.  hidden says that the row being dragged has no height.    *)

Nothing == [kind |-> "none"]
Into(c) == [kind |-> "into", parent |-> c, at |-> 0]
Line(above, parent, at) == [kind |-> "line", above |-> above, parent |-> parent, at |-> at]

Top(d, hidden, i) == 8 * (i - 1 - (IF hidden /\ i > d THEN 1 ELSE 0))
HasHeight(d, hidden, i) == ~(hidden /\ i = d)
Under(rows, d, hidden, y) ==
  {i \in DOMAIN rows : HasHeight(d, hidden, i) /\ Top(d, hidden, i) <= y /\ y < Top(d, hidden, i) + 8}

\* The rows above the line: those before the first whose middle is below the pointer.
RowsAbove(rows, d, hidden, y) ==
  LET below == {i \in DOMAIN rows : HasHeight(d, hidden, i) /\ y < Top(d, hidden, i) + 4}
  IN  IF below = {} THEN Len(rows) ELSE Min(below) - 1

\* Mutant: only the dragged row itself refuses the drop.
Banned_Self(order, ref) == {ref}
Banned(order, ref) == {ref} \cup DescendantRefs(order, ref)

\* The dragged row with the rows of its subtree, which follow it.
Span(rows, d) ==
  d..Max({e \in d..Len(rows) : \A i \in (d + 1)..e : rows[i].depth > rows[d].depth})

\* An endpoint is never at the root, a collection never in Unsorted.
Adjusted(ref, parent) ==
  IF ref \in EndpointRow /\ parent = RootOrder THEN UnsortedOrder
  ELSE IF ref \in CollectionRow /\ parent = UnsortedOrder THEN RootOrder ELSE parent

IndexIn(s, r) == IF r \in ToSet(s) THEN CHOOSE i \in DOMAIN s : s[i] = r ELSE 0
Others(order, parent, ref) == SelectSeq(order[parent], LAMBDA r : r # ref)
\* Mutant: the index counts the dragged row itself.
TargetChildRefs_All(order, parent, ref) == order[parent]
TargetChildRefs(order, parent, ref) == Others(order, parent, ref)

\* Mutant: a line under an open collection is a line after it.
FirstChild_Never(rows, above, below) == FALSE
\* The line is under the header of an open collection that shows something.
FirstChild(rows, above, below) ==
  below # 0 /\ rows[below].depth > rows[above].depth /\ rows[above].ref \in CollectionRow

LineAt(order, rows, ref, gap) ==
  LET others == {i \in DOMAIN rows : rows[i].ref \notin Banned(order, ref)}
      above == Max({0} \cup {i \in others : i <= gap})
      below == IF \E i \in others : i > gap THEN Min({i \in others : i > gap}) ELSE 0
      first == above # 0 /\ FirstChild(rows, above, below)
      parent == Adjusted(ref, IF above = 0 THEN RootOrder
                              ELSE IF first THEN rows[above].ref ELSE rows[above].parent)
  IN  IF above = 0 THEN Line(ref, parent, 0)
      ELSE Line(rows[above].ref, parent,
                IF first THEN 0 ELSE IndexIn(TargetChildRefs(order, parent, ref), rows[above].ref))

\* computeDropDecision
Decision(order, rows, ref, y, hidden) ==
  LET d == At(rows, ref)
      into == {i \in Under(rows, d, hidden, y) :
                 /\ rows[i].ref \in CollectionRow \ Banned(order, ref)
                 /\ y - Top(d, hidden, i) \in 2..6}   \* the middle band, both ends included
      gap == RowsAbove(rows, d, hidden, y)
  IN  IF into # {} THEN Into(rows[CHOOSE i \in into : TRUE].ref)
      ELSE IF gap + 1 \in Span(rows, d) \/ gap \in Span(rows, d) THEN Nothing
      ELSE LineAt(order, rows, ref, gap)

-------------------------------------------------------------------------------
(* The moves. *)

InitDnd ==
  /\ childOrder \in StartOrders
  /\ folded \in {f \in SUBSET (CollectionRow \cup {UnsortedOrder}) : Cardinality(f) <= MaxFolded}
  /\ lastMove = NoMove

\* applyMove: reorderChildren, assignCollection or reparentCollection, each shown at once.
Relocated(order, ref, parent, at) ==
  LET without == [k \in ParentKey |-> Others(order, k, ref)]
      index == IF at > Len(without[parent]) THEN Len(without[parent]) ELSE at
  IN  [without EXCEPT ![parent] = InsertAt(@, index + 1, ref)]

Done(ref, what, order) ==
  /\ childOrder' = order
  /\ lastMove' = [ref |-> ref, what |-> what, before |-> childOrder]
  /\ UNCHANGED folded

DropRow(ref, y, hidden) ==
  LET rows == Rows(childOrder, folded) IN
  /\ lastMove = NoMove
  /\ \E i \in DOMAIN rows : rows[i].ref = ref
  /\ LET do == Decision(childOrder, rows, ref, y, hidden) IN
       do # Nothing /\ Done(ref, do, Relocated(childOrder, ref, do.parent, do.at))

\* moveCollection: one place up or down among the collections of its parent.
MoveInMenu(c, by) ==
  LET parent == ParentIn(childOrder, c)
      s == SelectSeq(childOrder[parent], LAMBDA r : r \in CollectionRow)
      i == IndexIn(s, c)
      swapped == [s EXCEPT ![i] = s[i + by], ![i + by] = c]
      nth(r) == IndexIn(s, r)
  IN  /\ lastMove = NoMove /\ i + by \in DOMAIN s
      /\ Done(c, [kind |-> "swap", with |-> s[i + by]],
              [childOrder EXCEPT ![parent] =
                 [j \in DOMAIN @ |-> IF @[j] \in CollectionRow THEN swapped[nth(@[j])] ELSE @[j]]])

\* reparentTargets: the root, or any collection that is not below this one.
ReparentInMenu(c, parent) ==
  /\ lastMove = NoMove /\ parent \in (CollectionRow \cup {RootOrder}) \ Banned(childOrder, c)
  /\ parent # ParentIn(childOrder, c)
  /\ Done(c, [kind |-> "last", parent |-> parent],
          Relocated(childOrder, c, parent, Len(childOrder[parent])))

\* The list is seen again, as it is or with other folds.
Settle ==
  /\ lastMove # NoMove /\ lastMove' = NoMove /\ UNCHANGED <<childOrder, folded>>
ToggleCollapse(k) ==
  /\ lastMove = NoMove
  /\ folded' = IF k \in folded THEN folded \ {k} ELSE folded \cup {k}
  /\ Cardinality(folded') <= MaxFolded
  /\ UNCHANGED <<childOrder, lastMove>>

DndStep ==
  \/ \E ref \in Ref, y \in -1..(8 * Cardinality(Ref)), hidden \in BOOLEAN : DropRow(ref, y, hidden)
  \/ \E c \in CollectionRow, by \in {-1, 1} : MoveInMenu(c, by)
  \/ \E c \in CollectionRow, p \in ParentKey : ReparentInMenu(c, p)
  \/ Settle
  \/ \E k \in CollectionRow \cup {UnsortedOrder} : ToggleCollapse(k)

-------------------------------------------------------------------------------
\* Every row has one place: under the root or under a collection that the root reaches,
\* with endpoints never at the root and collections never in Unsorted.
ForestWhole ==
  /\ \A r \in Ref : Cardinality({<<k, i>> \in ParentKey \X (1..Cardinality(Ref)) :
                                   i \in DOMAIN childOrder[k] /\ childOrder[k][i] = r}) = 1
  /\ ToSet(childOrder[RootOrder]) \subseteq CollectionRow
  /\ ToSet(childOrder[UnsortedOrder]) \subseteq EndpointRow
  /\ \A c \in CollectionRow : c \notin DescendantRefs(childOrder, c)

\* The rows of s in the order of rows.
WithoutRows(rows, s) == SelectSeq(rows, LAMBDA x : x.ref \notin s)

\* What was moved is where the line was: right under the row above it, or at the top.  A
\* row that cannot be there, for the line is in the list of the other kind, goes to the top
\* of its own.
AtTheLine(m, rows) ==
  LET i == At(rows, m.ref)
      topmost == m.what.above = m.ref
      home == IF m.ref \in EndpointRow THEN UnsortedOrder ELSE RootOrder
  IN  \/ /\ m.ref \in {x.ref : x \in ToSet(rows)}
         /\ IF topmost THEN i = 1 ELSE i > 1 /\ rows[i - 1].ref = m.what.above
      \/ /\ topmost \/ (m.what.above \notin ToSet(childOrder[home])
                        /\ ~\E x \in ToSet(rows) : x.parent = m.what.above)
         /\ IndexIn(childOrder[home], m.ref) = 1

\* A move puts the row where the list showed it would go, and moves nothing else.
DropsWhereShown ==
  /\ ForestWhole
  /\ lastMove # NoMove =>
       LET m == lastMove
           own == {m.ref} \cup DescendantRefs(m.before, m.ref)
           rows == Rows(childOrder, folded)
           was == Rows(m.before, folded)
       IN  CASE m.what.kind = "swap" ->
                  \A k \in ParentKey :
                    SelectSeq(childOrder[k], LAMBDA r : r \notin {m.ref, m.what.with})
                      = SelectSeq(m.before[k], LAMBDA r : r \notin {m.ref, m.what.with})
             [] OTHER ->
                  /\ WithoutRows(rows, own) = WithoutRows(was, own)
                  /\ \A k \in own : k \in CollectionRow => childOrder[k] = m.before[k]
                  /\ CASE m.what.kind = "line" -> AtTheLine(m, rows)
                       [] m.what.kind = "into" -> IndexIn(childOrder[m.what.parent], m.ref) = 1
                       [] m.what.kind = "last" -> childOrder[m.what.parent][Len(childOrder[m.what.parent])] = m.ref
===============================================================================

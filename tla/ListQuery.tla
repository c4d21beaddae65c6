-------------------------------- MODULE ListQuery --------------------------------
(***************************************************************************)
(* The automatic filters and pages of the mocked lists (buildMockPayload   *)
(* of app.js, docs/en/LISTE.md), and a client that reads a list page after *)
(* page with the same filters.                                             *)
(***************************************************************************)
EXTENDS Integers, Sequences, FiniteSets, SequencesExt, Filtering

CONSTANTS Shapes,   \* "array", "wrapped" (one top-level array), "other"
          Elements, \* functions from some of the names to scalars or NotScalar
          NotScalar,
          Params,   \* a parameter of the query: [name, values]
          Sizes,    \* values of ?size, 0 included: invalid, as when it is absent
          MaxItems, MaxPage

ASSUME ListAssumption == MaxItems \in Nat /\ MaxPage \in Nat /\ Sizes \subseteq Nat
\* A query carries scalars.
ASSUME ParamAssumption == \A p \in Params : NotScalar \notin p.values

VARIABLES shape, items, params, size, page, read, total

listVars == <<shape, items, params, size, page, read, total>>

\* A total that no X-Total-Count header tells.
NoTotal == -1

\* resolveListFilters: a parameter is a filter only when some element has its name.
FiltersOf(ps, list) == {p \in ps : \E i \in DOMAIN list : p.name \in DOMAIN list[i]}

\* Mutant: the values of one parameter must all be there.
Admits_All(filter, item) ==
  /\ filter.name \in DOMAIN item /\ item[filter.name] # NotScalar
  /\ \A v \in filter.values : v = item[filter.name]

\* One of the values of the parameter; the element has the name, with a scalar.
Admits(filter, item) ==
  /\ filter.name \in DOMAIN item /\ item[filter.name] # NotScalar
  /\ item[filter.name] \in filter.values

\* applyListFilters.
Filtered(ps, list) ==
  Kept(list, {i \in DOMAIN list : \A f \in FiltersOf(ps, list) : Admits(f, list[i])})

\* Mutant: the page is cut before the filters are applied.
Payload_CutFirst(ps, sz, pg) ==
  IF shape = "other" THEN [items |-> items, total |-> NoTotal]
  ELSE IF sz > 0
  THEN LET start == pg * sz
           cut == SubSeq(items, start + 1, IF start + sz < Len(items) THEN start + sz ELSE Len(items))
       IN [items |-> Filtered(ps, cut), total |-> Len(Filtered(ps, items))]
  ELSE [items |-> Filtered(ps, items),
        total |-> IF FiltersOf(ps, items) = {} THEN NoTotal ELSE Len(Filtered(ps, items))]

\* buildMockPayload: the filters first, then the page; the total is that of the filters.
Payload(ps, sz, pg) ==
  LET kept == Filtered(ps, items)
      start == pg * sz
      last == IF start + sz < Len(kept) THEN start + sz ELSE Len(kept)
  IN IF shape = "other" THEN [items |-> items, total |-> NoTotal]
     ELSE IF sz > 0 THEN [items |-> SubSeq(kept, start + 1, last), total |-> Len(kept)]
     ELSE [items |-> kept, total |-> IF FiltersOf(ps, items) = {} THEN NoTotal ELSE Len(kept)]

InitList ==
  /\ shape \in Shapes /\ items \in SeqOf(Elements, MaxItems)
  /\ params \in {ps \in SUBSET Params : \A p, q \in ps : p.name = q.name => p = q}
  /\ size \in Sizes
  /\ page = 0 /\ read = <<>> /\ total = NoTotal

\* The client asks for the next page, with the same filters.
ReadNextPage ==
  /\ page <= MaxPage /\ page' = page + 1
  /\ LET answer == Payload(params, size, page) IN
     /\ read' = read \o answer.items
     /\ total' = answer.total
  /\ UNCHANGED <<shape, items, params, size>>

-------------------------------------------------------------------------------
ListSpec == InitList /\ [][ReadNextPage]_listVars

\* The positions of the elements that every parameter with a known name admits (reference).
Asked ==
  {i \in DOMAIN items :
     \A p \in params : (\E j \in DOMAIN items : p.name \in DOMAIN items[j]) =>
       p.name \in DOMAIN items[i] /\ \E v \in p.values : items[i][p.name] = v}

\* The pages partition the filtered list: page after page, a client reads the elements that
\* pass every filter (LISTE.md: distinct parameters combine as AND, repeated ones as OR,
\* unknown names are ignored), each exactly once and in the order of the mock, and every page
\* declares the number of them all.
PagesPartition ==
  (shape # "other" /\ size > 0 /\ page > 0) =>
    \E at \in [1..Cardinality(Asked) -> Asked] :
      LET all == [n \in DOMAIN at |-> items[at[n]]] IN
      /\ \A m, n \in DOMAIN at : m < n => at[m] < at[n]
      /\ read = SubSeq(all, 1, IF page * size < Len(all) THEN page * size ELSE Len(all))
      /\ total = Len(all)
==============================================================================

--------------------------- MODULE SharedStateProofs ---------------------------
(***************************************************************************)
(* Proofs about SharedState, for every set of requests, names, generations *)
(* and sizes and every value of the limits.                                *)
(***************************************************************************)
EXTENDS SharedState, FiniteSetTheorems, WellFoundedInduction, TLAPS

-------------------------------------------------------------------------------
(* What a sum over a finite set is, whatever order the elements come in.   *)
(* Each law that needs induction looks at a smallest set that breaks it.   *)

\* A set of finite sets has a least member for inclusion.
LEMMA SmallestSet ==
  ASSUME NEW S, IsFiniteSet(S), NEW X \in SUBSET SUBSET S, X # {}
  PROVE  \E x \in X : \A y \in X : ~(y \subseteq x /\ y # x)
<1>1. IsWellFoundedOn(StrictSubsetOrdering(S), FiniteSubsetsOf(S))
      BY FS_StrictSubsetOrderingWellFounded
<1>2. SUBSET S = FiniteSubsetsOf(S)
      BY FS_FiniteSubsetsOfFinite
<1>3. \E x \in X : \A y \in X : ~(<<y, x>> \in StrictSubsetOrdering(S))
      BY <1>1, <1>2, WFMin
<1>4. QED
      BY <1>3 DEF StrictSubsetOrdering

\* The sum of f over S, as the community modules compute it: a function over the
\* subsets of S, defined by taking one chosen element away.
Sum(f, S) == SumFunctionOnSet(f, S)
Pick(s) == CHOOSE x \in s : TRUE
Computes(it, f, S) ==
  it = [s \in SUBSET S |-> IF s = {} THEN 0 ELSE f[Pick(s)] + it[s \ {Pick(s)}]]

\* The sum reads the chosen computation at the whole set.
LEMMA SumDef == ASSUME NEW f, NEW S PROVE Sum(f, S) = (CHOOSE it : Computes(it, f, S))[S]
BY DEF Sum, SumFunctionOnSet, FoldFunctionOnSet, MapThenFoldSet, Computes, Pick

\* The element chosen is one of the set.
LEMMA PickIn == ASSUME NEW s, s # {} PROVE Pick(s) \in s
BY DEF Pick

\* Two computations agree on the sets they share.
LEMMA ComputesOnce ==
  ASSUME NEW f, NEW S, NEW T, NEW i, NEW j, IsFiniteSet(S),
         Computes(i, f, S), Computes(j, f, T), NEW u \in SUBSET S, u \subseteq T
  PROVE  i[u] = j[u]
<1> DEFINE X == {v \in SUBSET S : v \subseteq T /\ i[v] # j[v]}
<1>1. SUFFICES ASSUME X # {} PROVE FALSE
      OBVIOUS
<1>2. PICK v \in X : \A w \in X : ~(w \subseteq v /\ w # v)
  <2>1. X \in SUBSET SUBSET S
        OBVIOUS
  <2>2. QED
    <3> HIDE DEF X
    <3>1. QED
          BY <1>1, <2>1, SmallestSet
<1>3. CASE v = {}
      BY <1>3, <1>2 DEF Computes
<1>4. CASE v # {}
  <2>1. Pick(v) \in v
        BY <1>4, PickIn
  <2>2. i[v \ {Pick(v)}] = j[v \ {Pick(v)}]
        BY <1>2, <2>1
  <2>3. i[v] = f[Pick(v)] + i[v \ {Pick(v)}] /\ j[v] = f[Pick(v)] + j[v \ {Pick(v)}]
        BY <1>2, <1>4 DEF Computes
  <2>4. QED
        BY <1>2, <2>2, <2>3
<1>5. QED
      BY <1>3, <1>4

\* Every finite set has one.
LEMMA ComputesExists ==
  ASSUME NEW f, NEW S, IsFiniteSet(S)
  PROVE  \E it : Computes(it, f, S)
<1> DEFINE X == {v \in SUBSET S : ~\E it : Computes(it, f, v)}
<1>1. SUFFICES ASSUME X # {} PROVE FALSE
      OBVIOUS
<1>2. PICK v \in X : \A w \in X : ~(w \subseteq v /\ w # v)
  <2>1. X \in SUBSET SUBSET S
        OBVIOUS
  <2>2. QED
    <3> HIDE DEF X
    <3>1. QED
          BY <1>1, <2>1, SmallestSet
<1> DEFINE Of(w) == CHOOSE it : Computes(it, f, w)
           step(w) == IF w = {} THEN 0
                      ELSE f[Pick(w)] + Of(w \ {Pick(w)})[w \ {Pick(w)}]
           new == [w \in SUBSET v |-> step(w)]
<1>3. \A w : w \subseteq v /\ w # v => Computes(Of(w), f, w)
      BY <1>2
<1>4. ASSUME NEW w, w \subseteq v, w # {}
      PROVE  new[w \ {Pick(w)}] = Of(w \ {Pick(w)})[w \ {Pick(w)}]
  <2> DEFINE u == w \ {Pick(w)}
  <2>1. u \subseteq v /\ u # v /\ u # w
        BY <1>4, PickIn
  <2>2. Computes(Of(u), f, u)
        BY <1>3, <2>1
  <2>3. new[u] = step(u)
        BY <2>1
  <2>4. CASE u = {}
        BY <2>2, <2>3, <2>4 DEF Computes
  <2>5. CASE u # {}
    <3> DEFINE t == u \ {Pick(u)}
    <3>1. t \subseteq u /\ t # u
          BY <2>5, PickIn
    <3>2. Computes(Of(t), f, t)
          BY <1>3, <3>1, <2>1
    <3>3. Of(t)[t] = Of(u)[t]
          BY <3>1, <3>2, <2>1, <2>2, ComputesOnce, FS_Subset
    <3>4. Of(u)[u] = f[Pick(u)] + Of(u)[t]
          BY <2>2, <2>5 DEF Computes
    <3>5. QED
          BY <2>3, <2>5, <3>3, <3>4
  <2>6. QED
        BY <2>4, <2>5
<1>5. Computes(new, f, v)
  <2>0. \A w \in SUBSET v : new[w] = step(w)
        OBVIOUS
  <2>1. \A w \in SUBSET v :
          new[w] = IF w = {} THEN 0 ELSE f[Pick(w)] + new[w \ {Pick(w)}]
    <3> HIDE DEF new, Of
    <3>1. QED
          BY <1>4, <2>0
  <2>2. new = [w \in SUBSET v |-> new[w]]
        OBVIOUS
  <2>3. QED
    <3> HIDE DEF new
    <3>1. QED
          BY <2>1, <2>2 DEF Computes
<1>6. QED
      BY <1>2, <1>5

\* The defining equation of the sum.
LEMMA SumUnfolds ==
  ASSUME NEW f, NEW S, IsFiniteSet(S)
  PROVE  Sum(f, S) = IF S = {} THEN 0 ELSE f[Pick(S)] + Sum(f, S \ {Pick(S)})
<1> DEFINE it == CHOOSE i : Computes(i, f, S)
           T == S \ {Pick(S)}
           jt == CHOOSE i : Computes(i, f, T)
<1>1. Computes(it, f, S) /\ Computes(jt, f, T)
      BY ComputesExists, FS_Subset
<1>2. it[T] = jt[T]
  <2> HIDE DEF it, jt
  <2>1. QED
        BY <1>1, ComputesOnce
<1>3. it[S] = IF S = {} THEN 0 ELSE f[Pick(S)] + it[T]
  <2> HIDE DEF it
  <2>1. QED
        BY <1>1 DEF Computes
<1>4. Sum(f, S) = it[S] /\ Sum(f, T) = jt[T]
      BY SumDef
<1>5. QED
  <2> HIDE DEF it, jt
  <2>1. QED
        BY <1>2, <1>3, <1>4

\* Nothing to add.
LEMMA SumEmpty == ASSUME NEW f PROVE Sum(f, {}) = 0
BY SumUnfolds, FS_EmptySet

\* A finite sum of integers is an integer.
LEMMA SumInt ==
  ASSUME NEW f, NEW S, IsFiniteSet(S), \A x \in S : f[x] \in Int
  PROVE  Sum(f, S) \in Int
<1> DEFINE X == {v \in SUBSET S : Sum(f, v) \notin Int}
<1>1. SUFFICES ASSUME X # {} PROVE FALSE
      OBVIOUS
<1>2. PICK v \in X : \A w \in X : ~(w \subseteq v /\ w # v)
  <2>1. X \in SUBSET SUBSET S
        OBVIOUS
  <2>2. QED
    <3> HIDE DEF X
    <3>1. QED
          BY <1>1, <2>1, SmallestSet
<1>3. IsFiniteSet(v)
      BY <1>2, FS_Subset
<1>4. v # {} => Pick(v) \in v /\ Sum(f, v \ {Pick(v)}) \in Int
      BY <1>2, PickIn
<1>5. Sum(f, v) = IF v = {} THEN 0 ELSE f[Pick(v)] + Sum(f, v \ {Pick(v)})
      BY <1>3, SumUnfolds
<1>6. v # {} => f[Pick(v)] \in Int
      BY <1>2, <1>4
<1>7. Sum(f, v) \in Int
      BY <1>4, <1>5, <1>6
<1>8. QED
      BY <1>2, <1>7

\* Any element can be taken out first.
LEMMA SumTakes ==
  ASSUME NEW f, NEW S, IsFiniteSet(S), \A x \in S : f[x] \in Int, NEW y \in S
  PROVE  Sum(f, S) = f[y] + Sum(f, S \ {y})
<1> DEFINE X == {v \in SUBSET S : \E x \in v : Sum(f, v) # f[x] + Sum(f, v \ {x})}
<1>1. SUFFICES ASSUME X # {} PROVE FALSE
      OBVIOUS
<1>2. PICK v \in X : \A w \in X : ~(w \subseteq v /\ w # v)
  <2>1. X \in SUBSET SUBSET S
        OBVIOUS
  <2>2. QED
    <3> HIDE DEF X
    <3>1. QED
          BY <1>1, <2>1, SmallestSet
<1>3. PICK x \in v : Sum(f, v) # f[x] + Sum(f, v \ {x})
      BY <1>2
<1> DEFINE p == Pick(v)
<1>4. p \in v /\ v \subseteq S
      BY <1>2, <1>3, PickIn
<1> HIDE DEF p
<1>5. /\ IsFiniteSet(v) /\ IsFiniteSet(v \ {x}) /\ IsFiniteSet(v \ {p})
      /\ IsFiniteSet((v \ {x}) \ {p})
      BY <1>4, FS_Subset
<1>6. Sum(f, v) = f[p] + Sum(f, v \ {p})
      BY <1>3, <1>5, SumUnfolds DEF p
<1>7. x # p
      BY <1>3, <1>6
<1>a. ASSUME NEW w \in SUBSET v, w # v, NEW z \in w
      PROVE  Sum(f, w) = f[z] + Sum(f, w \ {z})
  <2>1. w \in SUBSET S /\ w \notin X
        BY <1>a, <1>2
  <2>2. QED
        BY <2>1
<1>8. Sum(f, v \ {p}) = f[x] + Sum(f, (v \ {p}) \ {x})
      BY <1>a, <1>4, <1>7
<1>9. Sum(f, v \ {x}) = f[p] + Sum(f, (v \ {x}) \ {p})
      BY <1>a, <1>3, <1>4, <1>7
<1>10. (v \ {p}) \ {x} = (v \ {x}) \ {p}
      OBVIOUS
<1>11. Sum(f, (v \ {x}) \ {p}) \in Int
      BY <1>4, <1>5, SumInt
<1>12. f[x] \in Int /\ f[p] \in Int
      BY <1>3, <1>4
<1>13. Sum(f, v) = f[x] + Sum(f, v \ {x})
  <2> DEFINE r == Sum(f, (v \ {x}) \ {p})
             vp == Sum(f, v \ {p})
             vx == Sum(f, v \ {x})
  <2>1. /\ r \in Int /\ vp = f[x] + r /\ vx = f[p] + r
        /\ Sum(f, v) = f[p] + vp
        BY <1>6, <1>8, <1>9, <1>10, <1>11
  <2> HIDE DEF r, vp, vx
  <2>2. Sum(f, v) = f[x] + vx
        BY <2>1, <1>12
  <2>3. QED
        BY <2>2 DEF vx
<1>14. QED
      BY <1>3, <1>13

\* Only the values at the elements count.
LEMMA SumAgrees ==
  ASSUME NEW f, NEW g, NEW S, IsFiniteSet(S), \A x \in S : f[x] = g[x]
  PROVE  Sum(f, S) = Sum(g, S)
<1> DEFINE X == {v \in SUBSET S : Sum(f, v) # Sum(g, v)}
<1>1. SUFFICES ASSUME X # {} PROVE FALSE
      OBVIOUS
<1>2. PICK v \in X : \A w \in X : ~(w \subseteq v /\ w # v)
  <2>1. X \in SUBSET SUBSET S
        OBVIOUS
  <2>2. QED
    <3> HIDE DEF X
    <3>1. QED
          BY <1>1, <2>1, SmallestSet
<1>3. IsFiniteSet(v)
      BY <1>2, FS_Subset
<1>4. v # {} => Pick(v) \in v /\ Sum(f, v \ {Pick(v)}) = Sum(g, v \ {Pick(v)})
      BY <1>2, PickIn
<1>5. /\ Sum(f, v) = IF v = {} THEN 0 ELSE f[Pick(v)] + Sum(f, v \ {Pick(v)})
      /\ Sum(g, v) = IF v = {} THEN 0 ELSE g[Pick(v)] + Sum(g, v \ {Pick(v)})
      BY <1>3, SumUnfolds
<1>6. v # {} => f[Pick(v)] = g[Pick(v)]
      BY <1>2, <1>4
<1>7. QED
      BY <1>2, <1>4, <1>5, <1>6

-------------------------------------------------------------------------------
(* The store.                                                              *)

USE NoneAssumption, SizeAssumption, LimitAssumption, NameAssumption

\* The fields of the store and of its entries start with their types.
LEMMA TypeInit == Init => TypeOK
<1> SUFFICES ASSUME Init PROVE TypeOK
    OBVIOUS
<1>1. handles \in SUBSET (Ctx \X Gen) /\ closed \in BOOLEAN
      BY DEF Init
<1>2. opens \in [Ctx -> [Gen -> {"none", "waiting", "ready", "failed"}]]
      BY DEF Init
<1>3. waiters \in [Gen -> SUBSET Ctx] /\ waitingEntries \in [Ctx -> SUBSET Gen]
      BY DEF Init
<1>4. QED
      BY <1>1, <1>2, <1>3 DEF Init, TypeOK

\* Every operation of the store keeps the types of what it writes.
LEMMA TypeNext == TypeOK /\ [Next]_vars => TypeOK'
<1> SUFFICES ASSUME TypeOK, [Next]_vars PROVE TypeOK'
    OBVIOUS
<1> USE DEF TypeOK
<1>1. ASSUME NEW c \in Ctx, CreateRequestFacade(c) PROVE TypeOK'
      BY <1>1 DEF CreateRequestFacade, entryVars, waitVars
<1>2. ASSUME NEW c \in Ctx, CloseRequestContext(c) PROVE TypeOK'
      BY <1>2 DEF CloseRequestContext, SignalClose, entryVars
<1>3. ASSUME NEW c \in Ctx, RetireRequest(c) PROVE TypeOK'
      BY <1>3 DEF RetireRequest, entryVars, waitVars
<1>4. ASSUME NEW c \in Ctx, NEW g \in Gen, SettleOpen(c, g) PROVE TypeOK'
      BY <1>4 DEF SettleOpen, entryVars, waitVars
<1>5. ASSUME NEW c \in Ctx, NEW n \in Name, NEW s \in Seed, NEW g \in Gen,
             StartInitialization(c, n, s, g)
      PROVE TypeOK'
      BY <1>5 DEF StartInitialization
<1>6. ASSUME NEW c \in Ctx, NEW n \in Name, NEW s \in Seed, NEW g \in Gen,
             JoinInitialization(c, n, s, g)
      PROVE TypeOK'
      BY <1>6 DEF JoinInitialization, entryVars
<1>7. ASSUME NEW c \in Ctx, NEW n \in Name, NEW s \in Seed, NEW g \in Gen,
             OpenReady(c, n, s, g)
      PROVE TypeOK'
      BY <1>7 DEF OpenReady, entryVars, waitVars
<1>8. ASSUME NEW c \in Ctx, NEW g \in Gen, NEW size \in Size, Write(c, g, size)
      PROVE TypeOK'
      BY <1>8 DEF Write, Account, waitVars
<1>9. ASSUME NEW g \in Gen, ReenterStore(g) PROVE TypeOK'
      BY <1>9 DEF ReenterStore, entryVars, waitVars
<1>10. ASSUME NEW g \in Gen, InitializerThrows(g) PROVE TypeOK'
      BY <1>10 DEF InitializerThrows, entryVars, waitVars
<1>11. ASSUME NEW g \in Gen, FailInitialization(g) PROVE TypeOK'
      BY <1>11 DEF FailInitialization, Release, ClearWaiters, SignalOpens, entryVars
<1>12. ASSUME NEW g \in Gen, NEW size \in Size, RefuseInitialValue(g, size)
       PROVE TypeOK'
      BY <1>12 DEF RefuseInitialValue, entryVars, waitVars
<1>13. ASSUME NEW g \in Gen, NEW size \in Size, DiscardInitialValue(g, size)
       PROVE TypeOK'
      BY <1>13 DEF DiscardInitialValue, entryVars, waitVars
<1>14. ASSUME NEW g \in Gen, NEW size \in Size, CommitInitialization(g, size)
       PROVE TypeOK'
      BY <1>14 DEF CommitInitialization, ClearWaiters, SignalOpens
<1>15. ASSUME NEW n \in Name, Reset(n) PROVE TypeOK'
  <2>1. entries[n] \in Gen
        BY <1>15 DEF Reset
  <2>2. totalBytes' \in Int
        BY <1>15, <2>1 DEF Reset
  <2>3. waiters' \in [Gen -> SUBSET Ctx] /\ waitingEntries' \in [Ctx -> SUBSET Gen]
        BY <1>15, <2>1 DEF Reset, ClearWaiters, waitVars
  <2>4. opens' \in [Ctx -> [Gen -> {"none", "waiting", "ready", "failed"}]]
        BY <1>15, <2>1 DEF Reset, SignalOpens
  <2>5. QED
        BY <1>15, <2>2, <2>3, <2>4 DEF Reset, entryVars
<1>16. CASE ResetAll
      BY <1>16 DEF ResetAll, DropEverything, ClearWaiters, SignalOpens, entryVars
<1>17. CASE Close
      BY <1>17 DEF Close, DropEverything, ClearWaiters, SignalOpens, entryVars
<1>18. ASSUME NEW g \in Gen, Collect(g) PROVE TypeOK'
      BY <1>18 DEF Collect, waitVars
<1>19. CASE UNCHANGED vars
      BY <1>19 DEF vars
<1>20. QED
      BY <1>1, <1>2, <1>3, <1>4, <1>5, <1>6, <1>7, <1>8, <1>9, <1>10, <1>11, <1>12,
         <1>13, <1>14, <1>15, <1>16, <1>17, <1>18, <1>19
      DEF Next, RequestStep, InitializerStep, AdminStep

\* Type correctness of the store.
THEOREM TypeCorrect == Spec => []TypeOK
BY TypeInit, TypeNext, PTL DEF Spec

-------------------------------------------------------------------------------
(* The structural invariant.  None of its parts is inductive alone: that   *)
(* nobody waits for a dead entry, for instance, rests on a reservation     *)
(* leaving the map only with its waiters, hence on the two waiter sets     *)
(* being one relation.                                                     *)

\* The empty store satisfies the inductive invariant.
LEMMA StructureInit == Init => StructureInv
BY DEF Init, StructureInv, WaitersAgree, NobodyWaitsForTheDead, EntryLifecycle,
       ReservationHasWaiter, ClosedIsEmpty, Current, Reserved

\* Each operation keeps the map, the entries and the two sides of the waiting
\* relation in step: what it takes out of the map, it also takes out of the waiters.
LEMMA StructureNext == TypeOK /\ StructureInv /\ [Next]_vars => StructureInv'
<1> SUFFICES ASSUME TypeOK, StructureInv, [Next]_vars PROVE StructureInv'
    OBVIOUS
<1>0. TypeOK /\ TypeOK'
      BY TypeNext
<1> USE DEF StructureInv, Current, Reserved
<1>1. ASSUME NEW c \in Ctx, CreateRequestFacade(c)
      PROVE StructureInv'
      BY <1>1, <1>0 DEF CreateRequestFacade, entryVars, waitVars, TypeOK,
           WaitersAgree,
         NobodyWaitsForTheDead, EntryLifecycle, ReservationHasWaiter,
           ClosedIsEmpty
<1>2. ASSUME NEW c \in Ctx, CloseRequestContext(c)
      PROVE StructureInv'
  <2>1. WaitersAgree'
        BY <1>2, <1>0 DEF CloseRequestContext, Abandoned, SignalClose,
           entryVars, WaitersAgree, TypeOK
  <2>2. NobodyWaitsForTheDead'
        BY <1>2, <1>0 DEF CloseRequestContext, Abandoned, SignalClose,
           entryVars, NobodyWaitsForTheDead, WaitersAgree, TypeOK
  <2>3. EntryLifecycle'
        BY <1>2, <1>0 DEF CloseRequestContext, Abandoned, SignalClose,
           entryVars, EntryLifecycle, NobodyWaitsForTheDead, WaitersAgree,
           TypeOK
  <2>4. ReservationHasWaiter'
    <3> SUFFICES ASSUME NEW g \in Gen, Current(g)', status'[g] = "initializing"
                 PROVE  /\ waiters'[g] # {}
                        /\ \A d \in waiters'[g] : request'[d] = "open"
        BY DEF ReservationHasWaiter
    <3>1. Current(g) /\ g \notin Abandoned(c)
          BY <1>2, <1>0, NoneAssumption DEF CloseRequestContext, TypeOK
    <3>2. status[g] = "initializing"
          BY <1>2 DEF CloseRequestContext, entryVars
    <3>3. /\ waiters[g] # {} /\ waiters[g] \subseteq Ctx
          /\ \A d \in waiters[g] : request[d] = "open"
          BY <3>1, <3>2, <1>0 DEF ReservationHasWaiter, TypeOK
    <3>4. waiters'[g] = waiters[g] \ {c}
          BY <1>2, <1>0 DEF CloseRequestContext, WaitersAgree, TypeOK
    <3>5. ~(waiters[g] \subseteq {c})
          BY <3>1, <3>2, <3>3, <1>0 DEF Abandoned, WaitersAgree, TypeOK
    <3>6. \A d \in waiters[g] \ {c} : request'[d] = "open"
          BY <1>2, <1>0, <3>3 DEF CloseRequestContext, TypeOK
    <3>7. QED
          BY <3>4, <3>5, <3>6
  <2>5. ClosedIsEmpty'
        BY <1>2, <1>0 DEF CloseRequestContext, Abandoned, SignalClose,
           entryVars, ClosedIsEmpty, WaitersAgree, NobodyWaitsForTheDead, TypeOK
  <2>6. QED
        BY <2>1, <2>2, <2>3, <2>4, <2>5
<1>3. ASSUME NEW c \in Ctx, RetireRequest(c)
      PROVE StructureInv'
      BY <1>3, <1>0 DEF RetireRequest, entryVars, waitVars, TypeOK,
           WaitersAgree,
         NobodyWaitsForTheDead, EntryLifecycle, ReservationHasWaiter,
           ClosedIsEmpty
<1>4. ASSUME NEW c \in Ctx, NEW g \in Gen, SettleOpen(c, g)
      PROVE StructureInv'
      BY <1>4, <1>0 DEF SettleOpen, Usable, MayUse, entryVars, waitVars,
           TypeOK, WaitersAgree,
         NobodyWaitsForTheDead, EntryLifecycle, ReservationHasWaiter,
           ClosedIsEmpty
<1>5. ASSUME NEW c \in Ctx, NEW n \in Name, NEW s \in Seed, NEW g \in Gen,
             StartInitialization(c, n, s, g)
      PROVE StructureInv'
  <2>1. WaitersAgree'
        BY <1>5, <1>0 DEF StartInitialization, MayUse, WaitersAgree,
           NobodyWaitsForTheDead, EntryLifecycle, TypeOK
  <2>2. NobodyWaitsForTheDead'
        BY <1>5, <1>0 DEF StartInitialization, MayUse, NobodyWaitsForTheDead,
           WaitersAgree, TypeOK
  <2>3. EntryLifecycle'
        BY <1>5, <1>0 DEF StartInitialization, MayUse, EntryLifecycle,
           NobodyWaitsForTheDead, WaitersAgree, TypeOK
  <2>4. ReservationHasWaiter'
        BY <1>5, <1>0 DEF StartInitialization, MayUse, ReservationHasWaiter,
           EntryLifecycle, NobodyWaitsForTheDead, WaitersAgree, TypeOK
  <2>5. ClosedIsEmpty'
        BY <1>5, <1>0 DEF StartInitialization, MayUse, ClosedIsEmpty,
           WaitersAgree, NobodyWaitsForTheDead, TypeOK
  <2>6. QED
        BY <2>1, <2>2, <2>3, <2>4, <2>5
<1>6. ASSUME NEW c \in Ctx, NEW n \in Name, NEW s \in Seed, NEW g \in Gen,
             JoinInitialization(c, n, s, g)
      PROVE StructureInv'
      BY SMTT(30), <1>6, <1>0 DEF JoinInitialization, MayUse, entryVars, TypeOK,
           WaitersAgree,
         NobodyWaitsForTheDead, EntryLifecycle, ReservationHasWaiter,
           ClosedIsEmpty
<1>7. ASSUME NEW c \in Ctx, NEW n \in Name, NEW s \in Seed, NEW g \in Gen,
             OpenReady(c, n, s, g)
      PROVE StructureInv'
      BY <1>7, <1>0 DEF OpenReady, MayUse, entryVars, waitVars, TypeOK,
           WaitersAgree,
         NobodyWaitsForTheDead, EntryLifecycle, ReservationHasWaiter,
           ClosedIsEmpty
<1>8. ASSUME NEW c \in Ctx, NEW g \in Gen, NEW size \in Size, Write(c, g, size)
      PROVE StructureInv'
      BY <1>8, <1>0 DEF Write, Account, FitsLimits, Usable, MayUse, waitVars,
           TypeOK, WaitersAgree,
         NobodyWaitsForTheDead, EntryLifecycle, ReservationHasWaiter,
           ClosedIsEmpty
<1>9. ASSUME NEW g \in Gen, ReenterStore(g)
      PROVE StructureInv'
      BY <1>9, <1>0 DEF ReenterStore, entryVars, waitVars, TypeOK, WaitersAgree,
         NobodyWaitsForTheDead, EntryLifecycle, ReservationHasWaiter,
           ClosedIsEmpty
<1>10. ASSUME NEW g \in Gen, InitializerThrows(g)
      PROVE StructureInv'
      BY <1>10, <1>0 DEF InitializerThrows, entryVars, waitVars, TypeOK,
           WaitersAgree,
         NobodyWaitsForTheDead, EntryLifecycle, ReservationHasWaiter,
           ClosedIsEmpty
<1>11. ASSUME NEW g \in Gen, FailInitialization(g)
      PROVE StructureInv'
      BY <1>11, <1>0 DEF FailInitialization, Release, ClearWaiters,
           SignalOpens, entryVars, TypeOK, WaitersAgree,
         NobodyWaitsForTheDead, EntryLifecycle, ReservationHasWaiter,
           ClosedIsEmpty
<1>12. ASSUME NEW g \in Gen, NEW size \in Size, RefuseInitialValue(g, size)
      PROVE StructureInv'
      BY <1>12, <1>0 DEF RefuseInitialValue, entryVars, waitVars, TypeOK,
           WaitersAgree,
         NobodyWaitsForTheDead, EntryLifecycle, ReservationHasWaiter,
           ClosedIsEmpty
<1>13. ASSUME NEW g \in Gen, NEW size \in Size, DiscardInitialValue(g, size)
      PROVE StructureInv'
  <2>1. WaitersAgree'
        BY <1>13, <1>0 DEF DiscardInitialValue, Committable, entryVars,
           waitVars, WaitersAgree, TypeOK
  <2>2. NobodyWaitsForTheDead'
        BY <1>13, <1>0 DEF DiscardInitialValue, Committable, entryVars,
           waitVars, NobodyWaitsForTheDead, WaitersAgree, ClosedIsEmpty, TypeOK
  <2>3. EntryLifecycle'
        BY <1>13, <1>0 DEF DiscardInitialValue, Committable, entryVars,
           waitVars, EntryLifecycle, NobodyWaitsForTheDead, WaitersAgree,
           ReservationHasWaiter, ClosedIsEmpty, TypeOK
  <2>4. ReservationHasWaiter'
        BY <1>13, <1>0 DEF DiscardInitialValue, Committable, entryVars,
           waitVars, ReservationHasWaiter, EntryLifecycle,
           NobodyWaitsForTheDead, WaitersAgree, TypeOK
  <2>5. ClosedIsEmpty'
        BY <1>13, <1>0 DEF DiscardInitialValue, Committable, entryVars,
           waitVars, ClosedIsEmpty, WaitersAgree, NobodyWaitsForTheDead, TypeOK
  <2>6. QED
        BY <2>1, <2>2, <2>3, <2>4, <2>5
<1>14. ASSUME NEW g \in Gen, NEW size \in Size, CommitInitialization(g, size)
      PROVE StructureInv'
  <2>1. WaitersAgree'
        BY <1>14, <1>0 DEF CommitInitialization, Committable, FitsLimits,
           ClearWaiters, SignalOpens, WaitersAgree, TypeOK
  <2>2. NobodyWaitsForTheDead'
        BY <1>14, <1>0 DEF CommitInitialization, Committable, FitsLimits,
           ClearWaiters, SignalOpens, NobodyWaitsForTheDead, WaitersAgree,
           TypeOK
  <2>3. EntryLifecycle'
        BY <1>14, <1>0 DEF CommitInitialization, Committable, FitsLimits,
           ClearWaiters, SignalOpens, EntryLifecycle, NobodyWaitsForTheDead,
           WaitersAgree, TypeOK
  <2>4. ReservationHasWaiter'
        BY <1>14, <1>0 DEF CommitInitialization, ClearWaiters,
           ReservationHasWaiter, TypeOK
  <2>5. ClosedIsEmpty'
        BY <1>14, <1>0 DEF CommitInitialization, Committable, FitsLimits,
           ClearWaiters, SignalOpens, ClosedIsEmpty, WaitersAgree,
           NobodyWaitsForTheDead, TypeOK
  <2>6. QED
        BY <2>1, <2>2, <2>3, <2>4, <2>5
<1>15. ASSUME NEW n \in Name, Reset(n)
      PROVE StructureInv'
  <2>1. WaitersAgree'
        BY <1>15, <1>0 DEF Reset, ClearWaiters, SignalOpens, entryVars,
           waitVars, WaitersAgree, TypeOK
  <2>2. NobodyWaitsForTheDead'
        BY <1>15, <1>0 DEF Reset, ClearWaiters, SignalOpens, entryVars,
           waitVars, NobodyWaitsForTheDead, WaitersAgree, TypeOK
  <2>3. EntryLifecycle'
        BY <1>15, <1>0 DEF Reset, ClearWaiters, SignalOpens, entryVars,
           waitVars, EntryLifecycle, NobodyWaitsForTheDead, WaitersAgree, TypeOK
  <2>4. ReservationHasWaiter'
        BY <1>15, <1>0 DEF Reset, ClearWaiters, SignalOpens, entryVars,
           waitVars, ReservationHasWaiter, EntryLifecycle,
           NobodyWaitsForTheDead, WaitersAgree, TypeOK
  <2>5. ClosedIsEmpty'
        BY <1>15, <1>0 DEF Reset, ClearWaiters, SignalOpens, entryVars,
           waitVars, ClosedIsEmpty, WaitersAgree, NobodyWaitsForTheDead, TypeOK
  <2>6. QED
        BY <2>1, <2>2, <2>3, <2>4, <2>5
<1>16. CASE ResetAll
  <2>1. WaitersAgree'
        BY <1>16, <1>0 DEF ResetAll, DropEverything, ClearWaiters, SignalOpens,
           entryVars, WaitersAgree, NobodyWaitsForTheDead, TypeOK
  <2>2. NobodyWaitsForTheDead'
        BY <1>16, <1>0 DEF ResetAll, DropEverything, ClearWaiters, SignalOpens,
           entryVars, NobodyWaitsForTheDead, WaitersAgree, TypeOK
  <2>3. EntryLifecycle'
        BY <1>16, <1>0 DEF ResetAll, DropEverything, ClearWaiters, SignalOpens,
           entryVars, EntryLifecycle, NobodyWaitsForTheDead, WaitersAgree,
           TypeOK
  <2>4. ReservationHasWaiter'
        BY <1>16, <1>0 DEF ResetAll, DropEverything, ClearWaiters, SignalOpens,
           entryVars, ReservationHasWaiter, EntryLifecycle,
           NobodyWaitsForTheDead, WaitersAgree, TypeOK
  <2>5. ClosedIsEmpty'
        BY <1>16, <1>0 DEF ResetAll, DropEverything, ClearWaiters, SignalOpens,
           entryVars, ClosedIsEmpty, WaitersAgree, NobodyWaitsForTheDead, TypeOK
  <2>6. QED
        BY <2>1, <2>2, <2>3, <2>4, <2>5
<1>17. CASE Close
  <2>1. WaitersAgree'
        BY <1>17, <1>0 DEF Close, DropEverything, ClearWaiters, SignalOpens,
           entryVars, WaitersAgree, NobodyWaitsForTheDead, TypeOK
  <2>2. NobodyWaitsForTheDead'
        BY <1>17, <1>0 DEF Close, DropEverything, ClearWaiters, SignalOpens,
           entryVars, NobodyWaitsForTheDead, WaitersAgree, TypeOK
  <2>3. EntryLifecycle'
        BY <1>17, <1>0 DEF Close, DropEverything, ClearWaiters, SignalOpens,
           entryVars, EntryLifecycle, NobodyWaitsForTheDead, WaitersAgree,
           TypeOK
  <2>4. ReservationHasWaiter'
        BY <1>17, <1>0 DEF Close, DropEverything, ClearWaiters, SignalOpens,
           entryVars, ReservationHasWaiter, EntryLifecycle,
           NobodyWaitsForTheDead, WaitersAgree, TypeOK
  <2>5. ClosedIsEmpty'
        BY <1>17, <1>0 DEF Close, DropEverything, ClearWaiters, SignalOpens,
           entryVars, ClosedIsEmpty, WaitersAgree, NobodyWaitsForTheDead, TypeOK
  <2>6. QED
        BY <2>1, <2>2, <2>3, <2>4, <2>5
<1>18. ASSUME NEW g \in Gen, Collect(g)
      PROVE StructureInv'
  <2>1. status' = [status EXCEPT ![g] = "free"] /\ ~Current(g)
        BY <1>18 DEF Collect
  <2>2. WaitersAgree' /\ NobodyWaitsForTheDead'
        BY <1>18, <1>0, <2>1
        DEF Collect, waitVars, WaitersAgree, NobodyWaitsForTheDead, TypeOK
  <2>3. EntryLifecycle'
    <3>1. \A n \in Name : entries'[n] # None =>
             name'[entries'[n]] = n /\ status'[entries'[n]] # "free"
          BY <1>18, <1>0, <2>1 DEF Collect, EntryLifecycle, TypeOK
    <3>2. \A h \in Gen : /\ status'[h] = "free" <=> init'[h] = "none"
                         /\ status'[h] = "ready" => init'[h] = "settled"
                         /\ Current(h)' /\ init'[h] = "settled"
                              => status'[h] = "ready"
          BY <1>18, <1>0, <2>1 DEF Collect, EntryLifecycle, TypeOK
    <3>3. \A c \in Ctx, h \in Gen :
             <<c, h>> \in handles' \/ opens'[c][h] = "ready" => status'[h] = "ready"
          BY <1>18, <1>0, <2>1 DEF Collect, EntryLifecycle, TypeOK
    <3>4. QED
          BY <3>1, <3>2, <3>3 DEF EntryLifecycle
  <2>4. ReservationHasWaiter'
        BY <1>18, <1>0, <2>1 DEF Collect, waitVars, ReservationHasWaiter, TypeOK
  <2>5. ClosedIsEmpty'
        BY <1>18 DEF Collect, ClosedIsEmpty
  <2>6. QED
        BY <2>2, <2>3, <2>4, <2>5
<1>19. CASE UNCHANGED vars
      BY <1>19 DEF vars, WaitersAgree, NobodyWaitsForTheDead, EntryLifecycle,
         ReservationHasWaiter, ClosedIsEmpty
<1>20. QED
      BY <1>1, <1>2, <1>3, <1>4, <1>5, <1>6, <1>7, <1>8, <1>9, <1>10, <1>11, <1>12,
         <1>13, <1>14, <1>15, <1>16, <1>17, <1>18, <1>19
      DEF Next, RequestStep, InitializerStep, AdminStep

\* The waiting relations, the map and the life of the entries agree in every
\* reachable state.
THEOREM StructureHolds == Spec => []StructureInv
<1>1. Init => TypeOK /\ StructureInv
      BY TypeInit, StructureInit
<1>2. TypeOK /\ StructureInv /\ [Next]_vars => (TypeOK /\ StructureInv)'
      BY TypeNext, StructureNext
<1>3. QED
      BY <1>1, <1>2, PTL DEF Spec

-------------------------------------------------------------------------------
(* The bytes accounted.                                                    *)

\* What leaves the total and the sizes held alone keeps them equal.
LEMMA SameHeld ==
  ASSUME BytesAccounted, UNCHANGED totalBytes,
         ReadyNames' = ReadyNames,
         \A n \in ReadyNames : sizeBytes'[entries'[n]] = sizeBytes[entries[n]]
  PROVE  BytesAccounted'
<1>1. HeldSizes' = HeldSizes
      BY DEF HeldSizes
<1>2. QED
      BY <1>1 DEF BytesAccounted

\* The total of the sizes held is a sum over the names that are ready.
LEMMA SumOfDomain == ASSUME NEW f PROVE SumFunction(f) = Sum(f, DOMAIN f)
BY DEF SumFunction, FoldFunction, Sum, SumFunctionOnSet

\* The sum is finite and its terms are the integers the entries carry.
LEMMA HeldSum ==
  ASSUME TypeOK
  PROVE  /\ IsFiniteSet(ReadyNames)
         /\ \A n \in ReadyNames : HeldSizes[n] = sizeBytes[entries[n]] /\ HeldSizes[n] \in Int
         /\ BytesAccounted <=> totalBytes = Sum(HeldSizes, ReadyNames)
<1>1. IsFiniteSet(ReadyNames)
      BY FS_Subset DEF ReadyNames, Reserved
<1>2. \A n \in ReadyNames : HeldSizes[n] = sizeBytes[entries[n]] /\ HeldSizes[n] \in Int
      BY DEF HeldSizes, ReadyNames, Reserved, TypeOK
<1>3. DOMAIN HeldSizes = ReadyNames
      BY DEF HeldSizes
<1>4. QED
      BY <1>1, <1>2, <1>3, SumOfDomain DEF BytesAccounted

\* The same of the next state.
LEMMA HeldSumNext ==
  ASSUME TypeOK'
  PROVE  /\ IsFiniteSet(ReadyNames')
         /\ \A n \in ReadyNames' : HeldSizes'[n] = sizeBytes'[entries'[n]] /\ HeldSizes'[n] \in Int
         /\ BytesAccounted' <=> totalBytes' = Sum(HeldSizes', ReadyNames')
<1>1. IsFiniteSet(ReadyNames')
      BY FS_Subset DEF ReadyNames, Reserved
<1>2. \A n \in ReadyNames' : HeldSizes'[n] = sizeBytes'[entries'[n]] /\ HeldSizes'[n] \in Int
      BY DEF HeldSizes, ReadyNames, Reserved, TypeOK
<1>3. DOMAIN HeldSizes' = ReadyNames'
      BY DEF HeldSizes
<1>4. QED
      BY <1>1, <1>2, <1>3, SumOfDomain DEF BytesAccounted

\* Changing one term changes the sum by the difference.
LEMMA SumOfOther ==
  ASSUME NEW f, NEW g, NEW S, IsFiniteSet(S), NEW n \in S,
         \A x \in S : f[x] \in Int /\ g[x] \in Int,
         \A x \in S \ {n} : f[x] = g[x]
  PROVE  Sum(g, S) = Sum(f, S) - f[n] + g[n]
<1>1. Sum(f, S) = f[n] + Sum(f, S \ {n}) /\ Sum(g, S) = g[n] + Sum(g, S \ {n})
      BY SumTakes
<1>2. IsFiniteSet(S \ {n})
      BY FS_Subset
<1>3. Sum(f, S \ {n}) = Sum(g, S \ {n}) /\ Sum(f, S \ {n}) \in Int
      BY <1>2, SumAgrees, SumInt
<1>4. f[n] \in Int /\ g[n] \in Int
      OBVIOUS
<1> DEFINE r == Sum(f, S \ {n})
<1>5. r \in Int /\ Sum(f, S) = f[n] + r /\ Sum(g, S) = g[n] + r
      BY <1>1, <1>3
<1> HIDE DEF r
<1>6. QED
      BY <1>4, <1>5

\* _write adds the difference, and only one name leads to the entry it writes.
LEMMA WriteBytes ==
  ASSUME TypeOK, TypeOK', EntryLifecycle, BytesAccounted,
         NEW c \in Ctx, NEW g \in Gen, NEW size \in Size, Write(c, g, size)
  PROVE  BytesAccounted'
<1>1. PICK n \in Name : entries[n] = g
      BY DEF Write, Usable, Current
<1>2. ReadyNames' = ReadyNames /\ n \in ReadyNames
      BY <1>1 DEF Write, Usable, ReadyNames, Reserved
<1>3. \A m \in ReadyNames \ {n} : entries[m] # g
      BY <1>1, <1>2 DEF EntryLifecycle, ReadyNames
<1>4. /\ UNCHANGED entries
      /\ sizeBytes' = [sizeBytes EXCEPT ![g] = size]
      /\ totalBytes' = totalBytes - sizeBytes[g] + size
      BY DEF Write, Account
<1>5. /\ \A m \in ReadyNames \ {n} : HeldSizes'[m] = HeldSizes[m]
      /\ HeldSizes[n] = sizeBytes[g] /\ HeldSizes'[n] = size
  <2>1. \A m \in ReadyNames : /\ HeldSizes[m] = sizeBytes[entries[m]]
                              /\ HeldSizes'[m] = sizeBytes'[entries[m]]
        BY <1>2, <1>4 DEF HeldSizes
  <2>2. \A m \in ReadyNames \ {n} : entries[m] \in Gen \ {g}
        BY <1>3 DEF ReadyNames, Reserved, TypeOK
  <2>3. DOMAIN sizeBytes = Gen /\ g \in Gen /\ entries[n] = g /\ n \in ReadyNames
        BY <1>1, <1>2 DEF TypeOK
  <2>4. sizeBytes'[g] = size /\ \A h \in Gen \ {g} : sizeBytes'[h] = sizeBytes[h]
        BY <1>4, <2>3
  <2>5. QED
        BY <2>1, <2>2, <2>3, <2>4
<1>6. /\ IsFiniteSet(ReadyNames)
      /\ \A m \in ReadyNames : HeldSizes[m] \in Int /\ HeldSizes'[m] \in Int
      /\ totalBytes = Sum(HeldSizes, ReadyNames)
      /\ BytesAccounted' <=> totalBytes' = Sum(HeldSizes', ReadyNames')
  <2>1. /\ IsFiniteSet(ReadyNames')
        /\ \A m \in ReadyNames' : HeldSizes'[m] \in Int
        /\ BytesAccounted' <=> totalBytes' = Sum(HeldSizes', ReadyNames')
        BY HeldSumNext
  <2>2. QED
        BY <1>2, <2>1, HeldSum
<1>7. Sum(HeldSizes', ReadyNames) = Sum(HeldSizes, ReadyNames) - HeldSizes[n] + HeldSizes'[n]
      BY <1>2, <1>5, <1>6, SumOfOther
<1>8. QED
      BY <1>2, <1>4, <1>5, <1>6, <1>7


\* A commit adds an entry that was not counted: it was initializing until now.
LEMMA CommitBytes ==
  ASSUME TypeOK, TypeOK', EntryLifecycle, BytesAccounted,
         NEW g \in Gen, NEW size \in Size, CommitInitialization(g, size)
  PROVE  BytesAccounted'
<1>1. PICK n \in Name : entries[n] = g
      BY DEF CommitInitialization, Committable, Current
<1>2. \A m \in Name \ {n} : entries[m] # g
      BY <1>1 DEF EntryLifecycle, Reserved
<1>3. /\ UNCHANGED entries
      /\ status' = [status EXCEPT ![g] = "ready"]
      /\ sizeBytes' = [sizeBytes EXCEPT ![g] = size]
      /\ totalBytes' = totalBytes + size
      /\ status[g] # "ready"
      BY DEF CommitInitialization, EntryLifecycle
<1>4. n \notin ReadyNames /\ ReadyNames' = ReadyNames \cup {n}
      BY <1>1, <1>2, <1>3 DEF ReadyNames, Reserved, TypeOK
<1>5. /\ \A m \in ReadyNames : HeldSizes'[m] = HeldSizes[m] /\ HeldSizes[m] \in Int
      /\ HeldSizes'[n] = size /\ size \in Int
  <2>1. \A m \in ReadyNames : entries[m] \in Gen \ {g}
        BY <1>2, <1>4 DEF ReadyNames, Reserved, TypeOK
  <2>2. /\ \A m \in ReadyNames : HeldSizes'[m] = sizeBytes'[entries[m]]
        /\ HeldSizes'[n] = sizeBytes'[g]
        BY <1>1, <1>3, <1>4 DEF HeldSizes
  <2>3. \A h \in Gen \ {g} : sizeBytes'[h] = sizeBytes[h]
        BY <1>3 DEF TypeOK
  <2>4. sizeBytes'[g] = size /\ size \in Int
        BY <1>3 DEF TypeOK
  <2>5. \A m \in ReadyNames : HeldSizes[m] = sizeBytes[entries[m]] /\ HeldSizes[m] \in Int
        BY HeldSum
  <2>6. QED
        BY <2>1, <2>2, <2>3, <2>4, <2>5
<1>6. /\ IsFiniteSet(ReadyNames) /\ IsFiniteSet(ReadyNames')
      /\ totalBytes = Sum(HeldSizes, ReadyNames)
      /\ BytesAccounted' <=> totalBytes' = Sum(HeldSizes', ReadyNames')
      BY HeldSum, HeldSumNext
<1>7. Sum(HeldSizes', ReadyNames') = HeldSizes'[n] + Sum(HeldSizes', ReadyNames' \ {n})
      BY <1>4, <1>6, HeldSumNext, SumTakes
<1>8. Sum(HeldSizes', ReadyNames' \ {n}) = Sum(HeldSizes, ReadyNames)
  <2>1. ReadyNames' \ {n} = ReadyNames
        BY <1>4
  <2>2. QED
        BY <2>1, <1>5, <1>6, SumAgrees
<1>9. totalBytes \in Int
      BY DEF TypeOK
<1>10. QED
      BY <1>3, <1>5, <1>6, <1>7, <1>8, <1>9

\* reset() subtracts what the name counted for, nothing if it was initializing.
LEMMA ResetBytes ==
  ASSUME TypeOK, TypeOK', BytesAccounted, NEW n \in Name, Reset(n)
  PROVE  BytesAccounted'
<1>1. entries' = [entries EXCEPT ![n] = None] /\ UNCHANGED <<status, sizeBytes>>
      /\ entries[n] \in Gen
      BY DEF Reset, entryVars, TypeOK
<1>2. ReadyNames' = ReadyNames \ {n}
      BY <1>1 DEF ReadyNames, Reserved, TypeOK
<1>3. \A m \in ReadyNames' : HeldSizes'[m] = HeldSizes[m]
  <2>1. \A m \in ReadyNames' : m # n /\ m \in ReadyNames /\ m \in Name
        BY <1>2 DEF ReadyNames, Reserved
  <2>2. DOMAIN entries = Name
        BY DEF TypeOK
  <2>3. \A m \in ReadyNames' : entries'[m] = entries[m] /\ sizeBytes' = sizeBytes
        BY <1>1, <2>1, <2>2
  <2>4. \A m \in ReadyNames' : HeldSizes'[m] = sizeBytes'[entries'[m]]
        BY HeldSumNext
  <2>5. \A m \in ReadyNames : HeldSizes[m] = sizeBytes[entries[m]]
        BY HeldSum
  <2>6. QED
        BY <2>1, <2>3, <2>4, <2>5
<1>4. /\ IsFiniteSet(ReadyNames) /\ IsFiniteSet(ReadyNames')
      /\ totalBytes = Sum(HeldSizes, ReadyNames)
      /\ BytesAccounted' <=> totalBytes' = Sum(HeldSizes', ReadyNames')
      BY HeldSum, HeldSumNext
<1>5. Sum(HeldSizes', ReadyNames') = Sum(HeldSizes, ReadyNames')
      BY <1>3, <1>4, SumAgrees
<1>6. CASE status[entries[n]] = "ready"
  <2>1. n \in ReadyNames
        BY <1>1, <1>6 DEF ReadyNames, Reserved
  <2>2. Sum(HeldSizes, ReadyNames) = HeldSizes[n] + Sum(HeldSizes, ReadyNames')
        BY <1>2, <1>4, <2>1, HeldSum, SumTakes
  <2>3. totalBytes' = totalBytes - HeldSizes[n] /\ HeldSizes[n] \in Int
        BY <1>6, <2>1, HeldSum DEF Reset
  <2>4. Sum(HeldSizes, ReadyNames') \in Int
        BY <1>2, <1>4, HeldSum, SumInt
  <2>5. QED
        BY <1>4, <1>5, <2>2, <2>3, <2>4
<1>7. CASE status[entries[n]] # "ready"
  <2>1. ReadyNames' = ReadyNames
        BY <1>2, <1>7 DEF ReadyNames
  <2>2. UNCHANGED totalBytes
        BY <1>7 DEF Reset
  <2>3. QED
        BY <1>4, <1>5, <2>1, <2>2
<1>8. QED
      BY <1>6, <1>7

\* resetAll() and close() leave nothing to add up.
LEMMA DropBytes ==
  ASSUME TypeOK', DropEverything
  PROVE  BytesAccounted'
<1>1. ReadyNames' = {} /\ totalBytes' = 0
      BY DEF DropEverything, ReadyNames, Reserved
<1>2. QED
      BY <1>1, HeldSumNext, SumEmpty

\* The other operations move no byte that is counted: what they take out of the
\* map or put into it is not ready.
LEMMA OtherBytes ==
  ASSUME TypeOK, EntryLifecycle, [Next]_vars,
         ~\E c \in Ctx, g \in Gen, size \in Size : Write(c, g, size),
         ~\E g \in Gen, size \in Size : CommitInitialization(g, size),
         ~\E n \in Name : Reset(n),
         ~ResetAll, ~Close
  PROVE  /\ UNCHANGED totalBytes
         /\ ReadyNames' = ReadyNames
         /\ \A n \in ReadyNames : sizeBytes'[entries'[n]] = sizeBytes[entries[n]]
<1> DEFINE Kept == /\ UNCHANGED totalBytes
                   /\ ReadyNames' = ReadyNames
                   /\ \A n \in ReadyNames : sizeBytes'[entries'[n]] = sizeBytes[entries[n]]
<1>0. ASSUME UNCHANGED <<entries, status, sizeBytes, totalBytes>> PROVE Kept
      BY <1>0 DEF ReadyNames, Reserved
<1>1. ASSUME NEW c \in Ctx, RequestStep(c) PROVE Kept
  <2>1. CASE CloseRequestContext(c)
    <3>1. \A n \in Name : \/ entries'[n] = entries[n]
                          \/ /\ entries'[n] = None /\ entries[n] \in Gen
                             /\ status[entries[n]] = "initializing"
          BY <2>1 DEF CloseRequestContext, Abandoned, TypeOK
    <3>2. UNCHANGED <<status, sizeBytes, totalBytes>>
          BY <2>1 DEF CloseRequestContext, entryVars
    <3>3. QED
          BY <3>1, <3>2 DEF ReadyNames, Reserved
  <2>2. ASSUME NEW n \in Name, NEW s \in Seed, NEW g \in Gen, StartInitialization(c, n, s, g)
        PROVE  Kept
    <3>1. \A m \in Name : entries[m] # g
          BY <2>2 DEF StartInitialization, EntryLifecycle, Reserved
    <3>2. /\ entries' = [entries EXCEPT ![n] = g] /\ entries[n] = None
          /\ status' = [status EXCEPT ![g] = "initializing"]
          /\ UNCHANGED <<sizeBytes, totalBytes>>
          BY <2>2 DEF StartInitialization
    <3>3. \A m \in Name : m # n => entries'[m] = entries[m]
          BY <3>2 DEF TypeOK
    <3>4. \A h \in Gen : h # g => status'[h] = status[h]
          BY <3>2 DEF TypeOK
    <3>5. status'[entries'[n]] # "ready" /\ n \notin ReadyNames
          BY <3>2 DEF TypeOK, ReadyNames, Reserved
    <3>6. ReadyNames' = ReadyNames
      <4>1. \A m \in Name : m # n => (m \in ReadyNames' <=> m \in ReadyNames)
            BY <3>1, <3>3, <3>4 DEF ReadyNames, Reserved, TypeOK
      <4>2. n \notin ReadyNames'
            BY <3>5 DEF ReadyNames
      <4>3. ReadyNames \subseteq Name /\ ReadyNames' \subseteq Name
            BY DEF ReadyNames, Reserved
      <4>4. QED
            BY <3>5, <4>1, <4>2, <4>3
    <3>7. QED
          BY <3>2, <3>3, <3>5, <3>6 DEF ReadyNames, Reserved
  <2>3. CASE \/ CreateRequestFacade(c) \/ RetireRequest(c)
             \/ \E g \in Gen : SettleOpen(c, g)
             \/ \E n \in Name, s \in Seed, g \in Gen :
                  JoinInitialization(c, n, s, g) \/ OpenReady(c, n, s, g)
    <3>1. UNCHANGED <<entries, status, sizeBytes, totalBytes>>
          BY <2>3 DEF CreateRequestFacade, RetireRequest, SettleOpen,
             JoinInitialization, OpenReady, entryVars
    <3>2. QED
          BY <1>0, <3>1
  <2>4. QED
        BY <1>1, <2>1, <2>2, <2>3 DEF RequestStep
<1>2. ASSUME NEW g \in Gen, InitializerStep(g) PROVE Kept
  <2>1. CASE FailInitialization(g)
    <3>1. status[g] # "ready"
          BY <2>1 DEF FailInitialization, EntryLifecycle
    <3>2. \A n \in Name : \/ entries'[n] = entries[n]
                          \/ entries'[n] = None /\ entries[n] = g
          BY <2>1 DEF FailInitialization, Release
    <3>3. UNCHANGED <<status, sizeBytes, totalBytes>>
          BY <2>1 DEF FailInitialization, entryVars
    <3>4. QED
          BY <3>1, <3>2, <3>3 DEF ReadyNames, Reserved
  <2>2. CASE ~FailInitialization(g)
    <3>1. UNCHANGED <<entries, status, sizeBytes, totalBytes>>
          BY <1>2, <2>2 DEF InitializerStep, ReenterStore, InitializerThrows,
             RefuseInitialValue, DiscardInitialValue, entryVars
    <3>2. QED
          BY <1>0, <3>1
  <2>3. QED
        BY <2>1, <2>2
<1>3. ASSUME NEW g \in Gen, Collect(g) PROVE Kept
  <2>1. /\ \A n \in Name : entries[n] # g
        /\ UNCHANGED <<entries, totalBytes>>
        /\ status' = [status EXCEPT ![g] = "free"]
        /\ sizeBytes' = [sizeBytes EXCEPT ![g] = 0]
        BY <1>3 DEF Collect, Current
  <2>2. \A n \in Name : entries[n] # None =>
          /\ status'[entries[n]] = status[entries[n]]
          /\ sizeBytes'[entries[n]] = sizeBytes[entries[n]]
        BY <2>1 DEF TypeOK
  <2>3. QED
        BY <2>1, <2>2 DEF ReadyNames, Reserved
<1>4. CASE UNCHANGED vars
      BY <1>0, <1>4 DEF vars
<1>5. QED
      BY <1>1, <1>2, <1>3, <1>4 DEF Next, AdminStep

\* The total that the limits are checked against is, after every history of
\* commits, writes, resets and late results, the sum of the sizes of the values
\* the map holds: nothing is added twice and nothing leaves without its bytes.
THEOREM BytesHold == Spec => []BytesAccounted
<1> DEFINE BInv == TypeOK /\ StructureInv /\ BytesAccounted
<1>1. Init => BInv
  <2> SUFFICES ASSUME Init PROVE BInv
      OBVIOUS
  <2>1. TypeOK /\ StructureInv
        BY TypeInit, StructureInit
  <2>2. ReadyNames = {} /\ totalBytes = 0
        BY DEF Init, ReadyNames, Reserved
  <2>3. BytesAccounted
        BY <2>1, <2>2, HeldSum, SumEmpty
  <2>4. QED
        BY <2>1, <2>3
<1>2. BInv /\ [Next]_vars => BInv'
  <2> SUFFICES ASSUME BInv, [Next]_vars PROVE BInv'
      OBVIOUS
  <2>1. TypeOK' /\ StructureInv' /\ EntryLifecycle
        BY TypeNext, StructureNext DEF StructureInv
  <2>2. CASE \E c \in Ctx, g \in Gen, size \in Size : Write(c, g, size)
        BY <2>1, <2>2, WriteBytes
  <2>3. CASE \E g \in Gen, size \in Size : CommitInitialization(g, size)
        BY <2>1, <2>3, CommitBytes
  <2>4. CASE \E n \in Name : Reset(n)
        BY <2>1, <2>4, ResetBytes
  <2>5. CASE ResetAll \/ Close
        BY <2>1, <2>5, DropBytes DEF ResetAll, Close
  <2>6. CASE ~ (\/ \E c \in Ctx, g \in Gen, size \in Size : Write(c, g, size)
                \/ \E g \in Gen, size \in Size : CommitInitialization(g, size)
                \/ \E n \in Name : Reset(n)
                \/ ResetAll \/ Close)
        BY <2>1, <2>6, OtherBytes, SameHeld
  <2>7. QED
        BY <2>2, <2>3, <2>4, <2>5, <2>6
<1>3. QED
      BY <1>1, <1>2, PTL DEF Spec

-------------------------------------------------------------------------------
(* The limits.                                                             *)

\* A value out of the map still counts: its slot may come back to the map only
\* through Collect, which clears it.
SizesBounded == \A g \in Gen : sizeBytes[g] <= MaxEntryBytes

\* The map holds finitely many names, so that their number can be compared.
LEMMA ReservedFinite == IsFiniteSet(Reserved)
BY FS_Subset DEF Reserved

\* Only the start of an initialization adds a name to the map, and one at most.
LEMMA ReservedGrowth ==
  ASSUME TypeOK, [Next]_vars
  PROVE  \/ Reserved' \subseteq Reserved
         \/ /\ Cardinality(Reserved) < MaxEntries
            /\ \E n \in Name : Reserved' = Reserved \cup {n}
<1> USE DEF Reserved, TypeOK
<1>1. ASSUME NEW c \in Ctx, NEW n \in Name, NEW s \in Seed, NEW g \in Gen,
             StartInitialization(c, n, s, g)
      PROVE  /\ Cardinality(Reserved) < MaxEntries
             /\ Reserved' = Reserved \cup {n}
      BY <1>1 DEF StartInitialization
<1>2. ASSUME \A n \in Name : entries'[n] \in {entries[n], None}
      PROVE  Reserved' \subseteq Reserved
      BY <1>2
<1>3. ASSUME NEW c \in Ctx, RequestStep(c),
             ~\E n \in Name, s \in Seed, g \in Gen : StartInitialization(c, n, s, g)
      PROVE  \A n \in Name : entries'[n] \in {entries[n], None}
      BY <1>3 DEF RequestStep, CreateRequestFacade, CloseRequestContext,
         RetireRequest, SettleOpen, JoinInitialization, OpenReady, Write
<1>4. ASSUME NEW g \in Gen, InitializerStep(g)
      PROVE  \A n \in Name : entries'[n] \in {entries[n], None}
      BY <1>4 DEF InitializerStep, ReenterStore, InitializerThrows,
         FailInitialization, Release, RefuseInitialValue, DiscardInitialValue,
         CommitInitialization
<1>5. ASSUME AdminStep
      PROVE  \A n \in Name : entries'[n] \in {entries[n], None}
      BY <1>5 DEF AdminStep, Reset, ResetAll, Close, DropEverything
<1>6. ASSUME NEW g \in Gen, Collect(g)
      PROVE  \A n \in Name : entries'[n] \in {entries[n], None}
      BY <1>6 DEF Collect
<1>7. QED
      BY <1>1, <1>2, <1>3, <1>4, <1>5, <1>6 DEF Next, vars

\* The two sums of bytes move only where a limit was checked, or down.
LEMMA BytesNext ==
  ASSUME TypeOK, SizesBounded, totalBytes <= MaxTotalBytes, [Next]_vars
  PROVE  SizesBounded' /\ totalBytes' <= MaxTotalBytes
<1> USE DEF SizesBounded, TypeOK
<1>1. ASSUME NEW c \in Ctx, RequestStep(c)
      PROVE  SizesBounded' /\ totalBytes' <= MaxTotalBytes
  <2>1. ASSUME NEW g \in Gen, NEW size \in Size, Write(c, g, size)
        PROVE  SizesBounded' /\ totalBytes' <= MaxTotalBytes
        BY <2>1 DEF Write, Account, FitsLimits
  <2>2. ASSUME ~\E g \in Gen, size \in Size : Write(c, g, size)
        PROVE  UNCHANGED <<sizeBytes, totalBytes>>
        BY <1>1, <2>2 DEF RequestStep, CreateRequestFacade, CloseRequestContext,
           RetireRequest, SettleOpen, StartInitialization, JoinInitialization,
           OpenReady, entryVars
  <2>3. QED
        BY <2>1, <2>2
<1>2. ASSUME NEW g \in Gen, InitializerStep(g)
      PROVE  SizesBounded' /\ totalBytes' <= MaxTotalBytes
  <2>1. ASSUME NEW size \in Size, CommitInitialization(g, size)
        PROVE  SizesBounded' /\ totalBytes' <= MaxTotalBytes
        BY <2>1 DEF CommitInitialization, FitsLimits
  <2>2. ASSUME ~\E size \in Size : CommitInitialization(g, size)
        PROVE  UNCHANGED <<sizeBytes, totalBytes>>
        BY <1>2, <2>2 DEF InitializerStep, ReenterStore, InitializerThrows,
           FailInitialization, RefuseInitialValue, DiscardInitialValue, entryVars
  <2>3. QED
        BY <2>1, <2>2
<1>3. ASSUME NEW n \in Name, Reset(n)
      PROVE  SizesBounded' /\ totalBytes' <= MaxTotalBytes
      BY <1>3 DEF Reset, entryVars
<1>4. CASE ResetAll \/ Close
      BY <1>4 DEF ResetAll, Close, DropEverything, entryVars
<1>5. ASSUME NEW g \in Gen, Collect(g)
      PROVE  SizesBounded' /\ totalBytes' <= MaxTotalBytes
      BY <1>5 DEF Collect
<1>6. CASE UNCHANGED vars
      BY <1>6 DEF vars
<1>7. QED
      BY <1>1, <1>2, <1>3, <1>4, <1>5, <1>6 DEF Next, AdminStep

\* No history of opens, late commits, writes and resets gets past maxEntries,
\* maxEntryBytes or maxTotalBytes.
THEOREM LimitsHold == Spec => []LimitsRespected
<1> DEFINE LInv == TypeOK /\ SizesBounded /\ LimitsRespected
<1>1. Init => LInv
  <2> SUFFICES ASSUME Init PROVE LInv
      OBVIOUS
  <2>1. TypeOK /\ SizesBounded /\ Reserved = {}
        BY TypeInit DEF Init, SizesBounded, Reserved
  <2>2. QED
        BY <2>1, FS_EmptySet DEF Init, LimitsRespected
<1>2. LInv /\ [Next]_vars => LInv'
  <2> SUFFICES ASSUME LInv, [Next]_vars PROVE LInv'
      OBVIOUS
  <2>1. TypeOK' /\ SizesBounded' /\ totalBytes' <= MaxTotalBytes
        BY TypeNext, BytesNext DEF LimitsRespected
  <2>2. Cardinality(Reserved') <= MaxEntries
    <3>1. /\ IsFiniteSet(Reserved) /\ IsFiniteSet(Reserved')
          /\ Cardinality(Reserved) \in Nat /\ Cardinality(Reserved') \in Nat
          BY ReservedFinite, FS_Subset, FS_CardinalityType DEF Reserved
    <3>2. CASE Reserved' \subseteq Reserved
          BY <3>1, <3>2, FS_Subset DEF LimitsRespected
    <3>3. CASE /\ Cardinality(Reserved) < MaxEntries
               /\ \E n \in Name : Reserved' = Reserved \cup {n}
          BY <3>1, <3>3, FS_AddElement
    <3>4. QED
          BY <3>2, <3>3, ReservedGrowth
  <2>3. \A n \in Name : entries'[n] # None => sizeBytes'[entries'[n]] <= MaxEntryBytes
        BY <2>1 DEF SizesBounded, TypeOK
  <2>4. QED
        BY <2>1, <2>2, <2>3 DEF LimitsRespected, Reserved
<1>3. LInv => LimitsRespected
      OBVIOUS
<1>4. QED
      BY <1>1, <1>2, <1>3, PTL DEF Spec

-------------------------------------------------------------------------------
(* What a step may never do.                                               *)

\* No operation puts an entry back that has left the map, nor writes its value.
LEMMA DeadStep ==
  ASSUME TypeOK, [Next]_vars, NEW g \in Gen, status[g] # "free", ~Current(g)
  PROVE  /\ ~Current(g)'
         /\ \/ status'[g] = "free"
            \/ status'[g] = status[g] /\ sizeBytes'[g] = sizeBytes[g]
<1> USE DEF TypeOK, Current
<1>1. ASSUME NEW c \in Ctx, RequestStep(c)
      PROVE  ~Current(g)' /\ status'[g] = status[g] /\ sizeBytes'[g] = sizeBytes[g]
  <2>1. ASSUME NEW n \in Name, NEW s \in Seed, NEW h \in Gen,
               StartInitialization(c, n, s, h)
        PROVE  ~Current(g)' /\ status'[g] = status[g] /\ sizeBytes'[g] = sizeBytes[g]
        BY <2>1 DEF StartInitialization
  <2>2. ASSUME NEW h \in Gen, NEW size \in Size, Write(c, h, size)
        PROVE  ~Current(g)' /\ status'[g] = status[g] /\ sizeBytes'[g] = sizeBytes[g]
        BY <2>2 DEF Write, Account, Usable
  <2>3. ASSUME NEW n \in Name, NEW s \in Seed, NEW h \in Gen,
               JoinInitialization(c, n, s, h) \/ OpenReady(c, n, s, h)
        PROVE  UNCHANGED <<entries, status, sizeBytes>>
        BY <2>3 DEF JoinInitialization, OpenReady, entryVars
  <2>4. CASE \/ CreateRequestFacade(c) \/ CloseRequestContext(c) \/ RetireRequest(c)
             \/ \E h \in Gen : SettleOpen(c, h)
        BY <2>4 DEF CreateRequestFacade, CloseRequestContext, RetireRequest,
           SettleOpen, entryVars
  <2>5. QED
        BY <1>1, <2>1, <2>2, <2>3, <2>4 DEF RequestStep
<1>2. ASSUME NEW h \in Gen, InitializerStep(h)
      PROVE  ~Current(g)' /\ status'[g] = status[g] /\ sizeBytes'[g] = sizeBytes[g]
      BY <1>2 DEF InitializerStep, ReenterStore, InitializerThrows,
         FailInitialization, Release, RefuseInitialValue, DiscardInitialValue,
         CommitInitialization, Committable, entryVars
<1>3. ASSUME AdminStep
      PROVE  ~Current(g)' /\ status'[g] = status[g] /\ sizeBytes'[g] = sizeBytes[g]
      BY <1>3 DEF AdminStep, Reset, ResetAll, Close, DropEverything, entryVars
<1>4. ASSUME NEW h \in Gen, Collect(h)
      PROVE  /\ ~Current(g)'
             /\ \/ status'[g] = "free"
                \/ status'[g] = status[g] /\ sizeBytes'[g] = sizeBytes[g]
      BY <1>4 DEF Collect
<1>5. QED
      BY <1>1, <1>2, <1>3, <1>4 DEF Next, vars

\* An entry that left the map never returns to it and its value never changes,
\* whatever its initializer and the handles on it still do.
THEOREM DeadStaysDead == Spec => DeadGenerationStaysDead
<1>1. TypeOK /\ [Next]_vars =>
        [\A g \in Gen :
           status[g] # "free" /\ ~Current(g) =>
             /\ ~Current(g)'
             /\ \/ status'[g] = "free"
                \/ status'[g] = status[g] /\ sizeBytes'[g] = sizeBytes[g]]_vars
      BY DeadStep
<1>2. QED
      BY <1>1, TypeCorrect, PTL DEF Spec, DeadGenerationStaysDead

\* A context is closed by closeRequestContext only.
LEMMA ClosingStep ==
  ASSUME TypeOK, [Next]_vars,
         NEW c \in Ctx, request[c] = "open", request'[c] = "closed"
  PROVE  CloseRequestContext(c)
<1> USE DEF TypeOK
<1>1. ASSUME NEW d \in Ctx, RequestStep(d)
      PROVE  CloseRequestContext(c)
      BY <1>1 DEF RequestStep, CreateRequestFacade, CloseRequestContext,
         RetireRequest, SettleOpen, StartInitialization, JoinInitialization,
         OpenReady, Write
<1>2. ASSUME NEW g \in Gen, InitializerStep(g) \/ Collect(g)
      PROVE  UNCHANGED request
      BY <1>2 DEF InitializerStep, ReenterStore, InitializerThrows,
         FailInitialization, RefuseInitialValue, DiscardInitialValue,
         CommitInitialization, Collect
<1>3. ASSUME AdminStep
      PROVE  UNCHANGED request
      BY <1>3 DEF AdminStep, Reset, ResetAll, Close, DropEverything
<1>4. QED
      BY <1>1, <1>2, <1>3 DEF Next, vars

\* closeRequestContext frees an entry only when no other request waits for it.
LEMMA OthersStep ==
  ASSUME TypeOK, StructureInv, [Next]_vars,
         NEW c \in Ctx, NEW d \in Ctx, NEW g \in Gen, c # d,
         request[c] = "open", request'[c] = "closed", opens[d][g] = "waiting"
  PROVE  opens'[d][g] = "waiting" /\ Current(g)'
<1>1. CloseRequestContext(c)
      BY ClosingStep
<1>2. d \in waiters[g] /\ Current(g)
      BY DEF StructureInv, WaitersAgree, NobodyWaitsForTheDead
<1>3. g \notin Abandoned(c)
      BY <1>2 DEF Abandoned
<1>4. Current(g)'
      BY <1>1, <1>2, <1>3 DEF CloseRequestContext, Current, TypeOK
<1>5. opens'[d][g] = "waiting"
      BY <1>1 DEF CloseRequestContext, SignalClose, TypeOK
<1>6. QED
      BY <1>4, <1>5

\* The close of one request leaves the opens of the others racing, on an entry
\* that is still in the map.
THEOREM OthersWait == Spec => OthersKeepWaiting
<1>1. TypeOK /\ StructureInv /\ [Next]_vars =>
        [\A c, d \in Ctx, g \in Gen :
           /\ c # d
           /\ request[c] = "open" /\ request'[c] = "closed"
           /\ opens[d][g] = "waiting"
           => opens'[d][g] = "waiting" /\ Current(g)']_vars
      BY OthersStep
<1>2. StructureInv <=> /\ WaitersAgree
                       /\ NobodyWaitsForTheDead
                       /\ EntryLifecycle
                       /\ ReservationHasWaiter
                       /\ ClosedIsEmpty
      BY DEF StructureInv
<1>3. QED
      BY <1>1, <1>2, TypeCorrect, StructureHolds, PTL DEF Spec, OthersKeepWaiting

\* Generations and requests leave each other alone (GenerationsApart), from the two above.
THEOREM GenerationsHold == Spec => GenerationsApart
BY DeadStaysDead, OthersWait, PTL DEF GenerationsApart
================================================================================

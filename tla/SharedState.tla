------------------------------ MODULE SharedState ------------------------------
(***************************************************************************)
(* The store of named resources that handler scripts share                 *)
(* (src/src/mocks/shared-state.js) together with the life of the requests  *)
(* that use it (respondWithHandler in src/src/app.js).                     *)
(*                                                                         *)
(* A name is bound to a GENERATION: the entry created by the open() that   *)
(* found the name absent.  The initializer of that entry runs once for all *)
(* the requests waiting for it; a reset, the close of the last waiting     *)
(* request or the close of the store takes the entry out of the map while  *)
(* the initializer, which JavaScript cannot cancel, keeps running.         *)
(*                                                                         *)
(* Every operation of the class is synchronous, so each is one action; the *)
(* interleaving is that of promise reactions, timers and sockets.  A value *)
(* is represented by the size of its JSON text: the store inspects nothing *)
(* else of it.  Gen and Ctx are identities, given back by Collect and      *)
(* RetireRequest when no code can refer to them any more, so that a small  *)
(* set of them stands for an unbounded history.                            *)
(***************************************************************************)
EXTENDS Integers, FiniteSets, FiniteSetsExt

CONSTANTS Ctx,            \* request contexts (createRequestFacade)
          Name,           \* canonical resource names
          Seed,           \* seedKey values
          Gen,            \* entries, i.e. generations of a name
          Size,           \* byte sizes a serialized value can have
          MaxEntries,     \* limits.maxEntries
          MaxEntryBytes,  \* limits.maxEntryBytes
          MaxTotalBytes,  \* limits.maxTotalBytes
          None            \* no entry, no name, no seed

ASSUME NoneAssumption == None \notin Gen /\ None \notin Name /\ None \notin Seed
ASSUME SizeAssumption == Size \subseteq Nat
ASSUME LimitAssumption ==
         MaxEntries \in Nat /\ MaxEntryBytes \in Nat /\ MaxTotalBytes \in Nat
ASSUME NameAssumption == IsFiniteSet(Name)

VARIABLES
  request,         \* a context: "idle" (not created), "open", "closed"
  closed,          \* the store's own flag
  entries,         \* the map: Name -> generation or None
  name, seedKey, status, sizeBytes,     \* fields of an entry
  init,            \* the initializer of an entry and its violation marker
  waiters,         \* entry.waiters
  waitingEntries,  \* context.waitingEntries
  opens,           \* the promise open() returned to a context for an entry
  handles,         \* the handles that exist: <<context, generation>>
  totalBytes

entryVars == <<name, seedKey, status, sizeBytes>>
waitVars  == <<waiters, waitingEntries>>
vars == <<request, closed, entries, name, seedKey, status, sizeBytes, init,
          waiters, waitingEntries, opens, handles, totalBytes>>

TypeOK ==
  /\ request \in [Ctx -> {"idle", "open", "closed"}]
  /\ closed \in BOOLEAN
  /\ entries \in [Name -> Gen \cup {None}]
  /\ name \in [Gen -> Name \cup {None}]
  /\ seedKey \in [Gen -> Seed \cup {None}]
  /\ status \in [Gen -> {"free", "initializing", "ready"}]
  /\ sizeBytes \in [Gen -> Nat]
  /\ init \in [Gen -> {"none", "running", "violated", "failing", "settled"}]
  /\ waiters \in [Gen -> SUBSET Ctx]
  /\ waitingEntries \in [Ctx -> SUBSET Gen]
  /\ opens \in [Ctx -> [Gen -> {"none", "waiting", "ready", "failed"}]]
  /\ handles \in SUBSET (Ctx \X Gen)
  /\ totalBytes \in Int

Init ==
  /\ request = [c \in Ctx |-> "idle"]
  /\ closed = FALSE
  /\ entries = [n \in Name |-> None]
  /\ name = [g \in Gen |-> None]
  /\ seedKey = [g \in Gen |-> None]
  /\ status = [g \in Gen |-> "free"]
  /\ sizeBytes = [g \in Gen |-> 0]
  /\ init = [g \in Gen |-> "none"]
  /\ waiters = [g \in Gen |-> {}]
  /\ waitingEntries = [c \in Ctx |-> {}]
  /\ opens = [c \in Ctx |-> [g \in Gen |-> "none"]]
  /\ handles = {}
  /\ totalBytes = 0

-------------------------------------------------------------------------------
Reserved == {n \in Name : entries[n] # None}

\* The entry is the one the map holds under its name.
Current(g) == \E n \in Name : entries[n] = g

\* Mutant: compares the total before the write, not after it.
FitsLimits_OldTotal(next, previous) ==
  next <= MaxEntryBytes /\ totalBytes <= MaxTotalBytes

\* _assertSizeLimits(entry, next, previous).
FitsLimits(next, previous) ==
  /\ next <= MaxEntryBytes
  /\ totalBytes - previous + next <= MaxTotalBytes

\* Mutant: forgets the side of the contexts.
ClearWaiters_OneSided(G) ==
  /\ waiters' = [g \in Gen |-> IF g \in G THEN {} ELSE waiters[g]]
  /\ UNCHANGED waitingEntries

\* The waiter sets once the entries in G have been through _clearWaiters.
ClearWaiters(G) ==
  /\ waiters' = [g \in Gen |-> IF g \in G THEN {} ELSE waiters[g]]
  /\ waitingEntries' =
       [c \in Ctx |-> waitingEntries[c] \ {g \in G : c \in waiters[g]}]

\* A signal reaches the promises still racing for an entry in G: the first one
\* decides the outcome, which the promise reaction delivers later (SettleOpen).
SignalOpens(G, outcome) ==
  opens' = [c \in Ctx |-> [g \in Gen |->
              IF g \in G /\ opens[c][g] = "waiting" THEN outcome ELSE opens[c][g]]]

\* The closeSignal of a context reaches all its racing promises.
SignalClose_NotRaced(c) == UNCHANGED opens   \* mutant: not part of the race
SignalClose(c) ==
  opens' = [opens EXCEPT ![c] = [g \in Gen |->
              IF opens[c][g] = "waiting" THEN "failed" ELSE opens[c][g]]]

\* _assertStoreOpen and _assertContextOpen.
MayUse_ContextOnly(c) == request[c] = "open"   \* mutant: store not checked
MayUse(c) == ~closed /\ request[c] = "open"

\* _assertEntry / _resolveHandleEntry: the generation is current and ready.
Usable_NotCurrent(c, g) == MayUse(c) /\ status[g] = "ready"   \* mutant: no token
Usable(c, g) == MayUse(c) /\ Current(g) /\ status[g] = "ready"

-------------------------------------------------------------------------------
(* Requests.                                                               *)

CreateRequestFacade(c) ==
  /\ request[c] = "idle"
  /\ request' = [request EXCEPT ![c] = "open"]
  /\ UNCHANGED <<closed, entries, entryVars, init, waitVars, opens, handles,
                 totalBytes>>

\* The reservations that only c was waiting for.
Abandoned_Never(c) == {}   \* mutant: the name is left to its initializer
Abandoned_Always(c) ==     \* mutant: the other waiters are not looked at
  {g \in waitingEntries[c] : status[g] = "initializing" /\ Current(g)}
Abandoned(c) ==
  {g \in waitingEntries[c] :
     status[g] = "initializing" /\ waiters[g] \subseteq {c} /\ Current(g)}

\* The handler returned, threw or timed out, or its client went away: the
\* context leaves every waiter set, and an initialization nobody waits for any
\* more frees its name at once.
CloseRequestContext(c) ==
  /\ request[c] = "open"
  /\ request' = [request EXCEPT ![c] = "closed"]
  /\ waiters' = [g \in Gen |-> IF g \in waitingEntries[c] THEN waiters[g] \ {c}
                                                           ELSE waiters[g]]
  /\ waitingEntries' = [waitingEntries EXCEPT ![c] = {}]
  /\ entries' = [n \in Name |-> IF entries[n] \in Abandoned(c) THEN None
                                                               ELSE entries[n]]
  /\ SignalClose(c)
  /\ UNCHANGED <<closed, entryVars, init, handles, totalBytes>>

\* External: the script has let go of everything it got from a closed context.
RetireRequest(c) ==
  /\ request[c] = "closed"
  /\ \A g \in Gen : opens[c][g] = "none"
  /\ request' = [request EXCEPT ![c] = "idle"]
  /\ handles' = {h \in handles : h[1] # c}
  /\ UNCHANGED <<closed, entries, entryVars, init, waitVars, opens, totalBytes>>

-------------------------------------------------------------------------------
(* open(name, {seedKey, initialize}).  A call that a check rejects (closed *)
(* store or context, SEED_CONFLICT, ENTRY_LIMIT) changes nothing.          *)

StartInitialization(c, n, s, g) ==
  /\ MayUse(c)
  /\ entries[n] = None
  /\ Cardinality(Reserved) < MaxEntries
  /\ status[g] = "free"
  /\ entries' = [entries EXCEPT ![n] = g]
  /\ name' = [name EXCEPT ![g] = n]
  /\ seedKey' = [seedKey EXCEPT ![g] = s]
  /\ status' = [status EXCEPT ![g] = "initializing"]
  /\ init' = [init EXCEPT ![g] = "running"]
  /\ waiters' = [waiters EXCEPT ![g] = {c}]
  /\ waitingEntries' = [waitingEntries EXCEPT ![c] = @ \cup {g}]
  /\ opens' = [opens EXCEPT ![c][g] = "waiting"]
  /\ UNCHANGED <<request, closed, sizeBytes, handles, totalBytes>>

JoinInitialization(c, n, s, g) ==
  /\ MayUse(c)
  /\ entries[n] = g
  /\ seedKey[g] = s
  /\ status[g] = "initializing"
  /\ opens[c][g] = "none"
  /\ waiters' = [waiters EXCEPT ![g] = @ \cup {c}]
  /\ waitingEntries' = [waitingEntries EXCEPT ![c] = @ \cup {g}]
  /\ opens' = [opens EXCEPT ![c][g] = "waiting"]
  /\ UNCHANGED <<request, closed, entries, entryVars, init, handles, totalBytes>>

OpenReady(c, n, s, g) ==
  /\ MayUse(c)
  /\ entries[n] = g
  /\ seedKey[g] = s
  /\ status[g] = "ready"
  /\ opens[c][g] = "none"
  /\ opens' = [opens EXCEPT ![c][g] = "ready"]
  /\ UNCHANGED <<request, closed, entries, entryVars, init, waitVars, handles,
                 totalBytes>>

\* The reaction of the promise open() returned.  A lost race rejects; a won one
\* creates the handle only if the generation is still usable by this request.
SettleOpen(c, g) ==
  /\ opens[c][g] \in {"ready", "failed"}
  /\ opens' = [opens EXCEPT ![c][g] = "none"]
  /\ handles' = IF opens[c][g] = "ready" /\ Usable(c, g)
                THEN handles \cup {<<c, g>>} ELSE handles
  /\ UNCHANGED <<request, closed, entries, entryVars, init, waitVars, totalBytes>>

-------------------------------------------------------------------------------
(* The initializer, run once per generation under the async marker.        *)

\* The initializer, or anything it started, called the store: the call throws
\* and the marker remembers, even if the script catches the exception.  After
\* close() the marker is gone and the call is refused without leaving a trace.
ReenterStore(g) ==
  /\ init[g] = "running"
  /\ ~closed
  /\ init' = [init EXCEPT ![g] = "violated"]
  /\ UNCHANGED <<request, closed, entries, entryVars, waitVars, opens, handles,
                 totalBytes>>

\* It threw, rejected, or returned what is not JSON: the catch comes later.
InitializerThrows(g) ==
  /\ init[g] \in {"running", "violated"}
  /\ init' = [init EXCEPT ![g] = "failing"]
  /\ UNCHANGED <<request, closed, entries, entryVars, waitVars, opens, handles,
                 totalBytes>>

\* It returned a value that the marker or the limits refuse.
RefuseInitialValue(g, size) ==
  /\ \/ init[g] = "violated"
     \/ init[g] = "running" /\ ~FitsLimits(size, 0)
  /\ init' = [init EXCEPT ![g] = "failing"]
  /\ UNCHANGED <<request, closed, entries, entryVars, waitVars, opens, handles,
                 totalBytes>>

Committable_Late(g) == ~closed   \* mutant: whatever became of the generation
Committable(g) == ~closed /\ Current(g) /\ waiters[g] # {}

\* It returned a value for a generation that nobody can use any more.
DiscardInitialValue(g, size) ==
  /\ init[g] = "running"
  /\ FitsLimits(size, 0)
  /\ ~Committable(g)
  /\ init' = [init EXCEPT ![g] = "settled"]
  /\ UNCHANGED <<request, closed, entries, entryVars, waitVars, opens, handles,
                 totalBytes>>

CommitInitialization(g, size) ==
  /\ init[g] = "running"
  /\ FitsLimits(size, 0)
  /\ Committable(g)
  /\ init' = [init EXCEPT ![g] = "settled"]
  /\ status' = [status EXCEPT ![g] = "ready"]
  /\ sizeBytes' = [sizeBytes EXCEPT ![g] = size]
  /\ totalBytes' = totalBytes + size
  /\ ClearWaiters({g})
  /\ SignalOpens({g}, "ready")
  /\ UNCHANGED <<request, closed, entries, name, seedKey, handles>>

\* The name is freed only if it is still this generation's.
Release_ByName(g) ==     \* mutant: takes away a successor too
  entries' = [n \in Name |-> IF n = name[g] THEN None ELSE entries[n]]
Release_Never(g) == UNCHANGED entries   \* mutant: a failure keeps the name
Release(g) ==
  entries' = [n \in Name |-> IF entries[n] = g THEN None ELSE entries[n]]

\* The catch of initPromise: every waiter is refused with the same error.
FailInitialization(g) ==
  /\ init[g] = "failing"
  /\ Release(g)
  /\ init' = [init EXCEPT ![g] = "settled"]
  /\ ClearWaiters({g})
  /\ SignalOpens({g}, "failed")
  /\ UNCHANGED <<request, closed, entryVars, handles, totalBytes>>

-------------------------------------------------------------------------------
(* The handle.  mutate() runs its callback and replace() its validation    *)
(* between the check of the handle and the write, without yielding; a call *)
(* that a check, the callback or a limit refuses changes nothing.          *)

Account_Delta(g, size) ==   \* mutant: keeps the difference as the size
  /\ totalBytes' = totalBytes - sizeBytes[g] + size
  /\ sizeBytes' = [sizeBytes EXCEPT ![g] = size - sizeBytes[g]]
Account(g, size) ==
  /\ totalBytes' = totalBytes - sizeBytes[g] + size
  /\ sizeBytes' = [sizeBytes EXCEPT ![g] = size]

Write(c, g, size) ==
  /\ <<c, g>> \in handles
  /\ Usable(c, g)
  /\ FitsLimits(size, sizeBytes[g])
  /\ Account(g, size)
  /\ UNCHANGED <<request, closed, entries, name, seedKey, status, init, waitVars,
                 opens, handles>>

-------------------------------------------------------------------------------
(* Administration: reset(name), resetAll(), close().                       *)

Reset(n) ==
  /\ ~closed
  /\ entries[n] # None
  /\ entries' = [entries EXCEPT ![n] = None]
  /\ \/ /\ status[entries[n]] = "ready"
        /\ totalBytes' = totalBytes - sizeBytes[entries[n]]
        /\ UNCHANGED <<waitVars, opens>>
     \/ /\ status[entries[n]] # "ready"
        /\ ClearWaiters({entries[n]})
        /\ SignalOpens({entries[n]}, "failed")
        /\ UNCHANGED totalBytes
  /\ UNCHANGED <<request, closed, entryVars, init, handles>>

\* What resetAll() and close() have in common.
DropEverything ==
  LET held == {g \in Gen : Current(g)}
  IN  /\ entries' = [n \in Name |-> None]
      /\ totalBytes' = 0
      /\ ClearWaiters(held)
      /\ SignalOpens({g \in held : status[g] = "initializing"}, "failed")
      /\ UNCHANGED <<request, entryVars, init, handles>>

ResetAll ==
  /\ ~closed
  /\ Reserved # {}
  /\ DropEverything
  /\ UNCHANGED closed

Close ==
  /\ ~closed
  /\ closed' = TRUE
  /\ DropEverything

\* External: nothing refers to the entry any more and the engine collects it.
Collect(g) ==
  /\ init[g] = "settled"
  /\ ~Current(g)
  /\ \A c \in Ctx : opens[c][g] = "none" /\ <<c, g>> \notin handles
  /\ name' = [name EXCEPT ![g] = None]
  /\ seedKey' = [seedKey EXCEPT ![g] = None]
  /\ status' = [status EXCEPT ![g] = "free"]
  /\ sizeBytes' = [sizeBytes EXCEPT ![g] = 0]
  /\ init' = [init EXCEPT ![g] = "none"]
  /\ UNCHANGED <<request, closed, entries, waitVars, opens, handles, totalBytes>>

-------------------------------------------------------------------------------
RequestStep(c) ==
  \/ CreateRequestFacade(c)
  \/ CloseRequestContext(c)
  \/ RetireRequest(c)
  \/ \E g \in Gen : SettleOpen(c, g)
  \/ \E n \in Name, s \in Seed, g \in Gen :
       \/ StartInitialization(c, n, s, g)
       \/ JoinInitialization(c, n, s, g)
       \/ OpenReady(c, n, s, g)
  \/ \E g \in Gen, size \in Size : Write(c, g, size)

InitializerStep(g) ==
  \/ ReenterStore(g)
  \/ InitializerThrows(g)
  \/ FailInitialization(g)
  \/ \E size \in Size :
       \/ RefuseInitialValue(g, size)
       \/ DiscardInitialValue(g, size)
       \/ CommitInitialization(g, size)

AdminStep ==
  \/ \E n \in Name : Reset(n)
  \/ ResetAll
  \/ Close

Next ==
  \/ \E c \in Ctx : RequestStep(c)
  \/ \E g \in Gen : InitializerStep(g)
  \/ AdminStep
  \/ \E g \in Gen : Collect(g)

Spec == Init /\ [][Next]_vars

\* Promise reactions always run; respondWithHandler closes the context of every
\* request in a finally after runWithTimeout.  Nothing is assumed of scripts:
\* an initializer may hang for ever.
Fairness ==
  /\ \A c \in Ctx : WF_vars(CloseRequestContext(c))
  /\ \A c \in Ctx, g \in Gen : WF_vars(SettleOpen(c, g))
  /\ \A g \in Gen : WF_vars(FailInitialization(g))

FairSpec == Spec /\ Fairness

-------------------------------------------------------------------------------
(* Safety.                                                                 *)

\* waiters and waitingEntries are one relation kept in two places, and it is
\* exactly the set of promises still racing: each of the five operations that
\* update it (_addWaiter, _clearWaiters, closeRequestContext and the two ways a
\* promise is signalled) must keep the three in step, or a closing request
\* would miss a reservation it holds.
WaitersAgree ==
  \A c \in Ctx, g \in Gen :
    /\ c \in waiters[g] <=> g \in waitingEntries[c]
    /\ c \in waiters[g] <=> opens[c][g] = "waiting"

\* Whoever waits, waits for an entry the map still holds and whose initializer
\* has not settled: no path that takes an entry out of the map (failure, reset,
\* last close, store close) leaves a caller waiting for a dead generation, nor
\* takes out a successor that others wait for.
NobodyWaitsForTheDead ==
  \A g \in Gen :
    waiters[g] # {} =>
      Current(g) /\ status[g] = "initializing" /\ init[g] # "settled"

\* The map, the status of an entry and its initializer tell one story: an entry
\* is under its own name only, a reservation never outlives its initializer and
\* only a committed generation has handles.
EntryLifecycle ==
  /\ \A n \in Reserved : name[entries[n]] = n /\ status[entries[n]] # "free"
  /\ \A g \in Gen :
       /\ status[g] = "free" <=> init[g] = "none"
       /\ status[g] = "ready" => init[g] = "settled"
       /\ Current(g) /\ init[g] = "settled" => status[g] = "ready"
  /\ \A c \in Ctx, g \in Gen :
       <<c, g>> \in handles \/ opens[c][g] = "ready" => status[g] = "ready"

\* A name is held by an unfinished initialization only while some request that
\* is still open waits for it: a hung initializer whose callers are gone does
\* not occupy the name or the quota (closeRequestContext, reset).
ReservationHasWaiter ==
  \A g \in Gen :
    Current(g) /\ status[g] = "initializing" =>
      /\ waiters[g] # {}
      /\ \A c \in waiters[g] : request[c] = "open"

\* The sizes of the values the map holds, by name.
ReadyNames == {n \in Reserved : status[entries[n]] = "ready"}
HeldSizes == [n \in ReadyNames |-> sizeBytes[entries[n]]]

\* totalBytes, maintained by differences over commits, writes, resets and late
\* results, is the sum of the sizes of the values the map holds.
BytesAccounted == totalBytes = SumFunction(HeldSizes)

\* No order of concurrent initializations, writes and resets gets past the
\* limits, although an initialization reserves no bytes while it runs.
LimitsRespected ==
  /\ totalBytes <= MaxTotalBytes
  /\ Cardinality(Reserved) <= MaxEntries
  /\ \A n \in Reserved : sizeBytes[entries[n]] <= MaxEntryBytes

\* After close() the map is empty, nothing is accounted and no caller is left
\* waiting for an initializer, whatever is still in flight.
ClosedIsEmpty ==
  closed =>
    /\ Reserved = {}
    /\ totalBytes = 0
    /\ \A c \in Ctx, g \in Gen : opens[c][g] # "waiting"

\* The five together: whatever takes an entry out of the map, also takes out
\* exactly those who wait for it, and nobody else.
StructureInv ==
  /\ WaitersAgree
  /\ NobodyWaitsForTheDead
  /\ EntryLifecycle
  /\ ReservationHasWaiter
  /\ ClosedIsEmpty

\* An entry out of the map (reset, abandoned, failed, store closed) is dead: a
\* late initializer does not put it back and no handle changes its value.
DeadGenerationStaysDead ==
  [][\A g \in Gen :
       status[g] # "free" /\ ~Current(g) =>
         /\ ~Current(g)'
         /\ \/ status'[g] = "free"
            \/ status'[g] = status[g] /\ sizeBytes'[g] = sizeBytes[g]]_vars

\* Closing one request never takes from another what it is waiting for: the
\* other's promise keeps racing and the reservation stays in the map.
OthersKeepWaiting ==
  [][\A c, d \in Ctx, g \in Gen :
       /\ c # d
       /\ request[c] = "open" /\ request'[c] = "closed"
       /\ opens[d][g] = "waiting"
       => opens'[d][g] = "waiting" /\ Current(g)']_vars

\* What one request or generation does leaves the others alone: the dead stay dead (a late
\* initializer, a stale handle), and a close takes nothing from those that still wait.
GenerationsApart == DeadGenerationStaysDead /\ OthersKeepWaiting

-------------------------------------------------------------------------------
(* Liveness.                                                               *)

\* Every promise returned by open() settles, whatever the initializer does: its
\* own request ends at the latest by timeout and wins the race.  None is pending for ever.
OpensSettle == \A c \in Ctx, g \in Gen : []<>(opens[c][g] = "none")

Joined(g) == \E c \in Ctx : opens[c][g] = "none" /\ opens'[c][g] = "waiting"

\* A hung initializer holds its name only as long as requests keep joining it:
\* once they stop, the reservation leaves the map without waiting for it.
AbandonedNameFreed ==
  \A g \in Gen :
    <>[][~Joined(g)]_vars => []<>~(Current(g) /\ status[g] = "initializing")

\* Every open comes to an end: for the handler that waits, and for the name it reserved.
EveryOpenEnds == OpensSettle /\ AbandonedNameFreed
===============================================================================

----------------------------- MODULE RequestMonitor -----------------------------
(***************************************************************************)
(* The request monitor (src/src/monitoring/request-monitor.js) and its     *)
(* pages (request-monitor-page.js): a bounded buffer of the requests       *)
(* served, in memory, and a client that follows it with the cursor of the  *)
(* page before, over evictions, clears and restarts of the engine.         *)
(*                                                                         *)
(* A request is known by its number and by what the filter of the client   *)
(* tells apart; captured headers and bodies are left out.                  *)
(***************************************************************************)
EXTENDS Naturals, Sequences, FiniteSets, SequencesExt

CONSTANTS Kind,        \* what a request can be to a filter
          Filter,      \* the kinds that the client asks for
          BufferLimit, \* entries that the buffer keeps
          PageLimit,   \* items of a page
          MaxId, MaxGeneration, MaxRuntime,   \* bounds of the checked instance
          None

ASSUME FilterAssumption == Filter \subseteq Kind
ASSUME LimitAssumption == BufferLimit \in Nat \ {0} /\ PageLimit \in Nat \ {0}
ASSUME MonitorBoundAssumption ==
         MaxId \in Nat /\ MaxGeneration \in Nat \ {0} /\ MaxRuntime \in Nat \ {0}
ASSUME NoCursorAssumption ==
         None \notin [runtime : 1..MaxRuntime, generation : 1..MaxGeneration, since : 0..MaxId]

VARIABLES
  runtime,     \* the identity of the running engine
  generation,  \* grows with every clear
  nextId,
  entries,     \* the buffer, oldest first: [id, kind]
  cursor,      \* of the client: [runtime, generation, since], or None
  owed,        \* history: the matching ids recorded and not delivered to the client
  seen         \* history: <<runtime, id>> of what was delivered to it

bufferVars == <<runtime, generation, nextId, entries>>
pageVars == <<cursor, owed, seen>>
monitorVars == <<runtime, generation, nextId, entries, cursor, owed, seen>>

highWatermark == nextId - 1

-------------------------------------------------------------------------------
\* createServerRuntime: the buffer of a new engine.
InitBuffer == runtime = 1 /\ generation = 1 /\ nextId = 1 /\ entries = <<>>

InitPages == cursor = None /\ owed = {} /\ seen = {}

\* recordRequest: the new entry pushes out the oldest beyond the limit.
RecordRequest(kind) ==
  /\ nextId <= MaxId
  /\ LET all == Append(entries, [id |-> nextId, kind |-> kind]) IN
       entries' = IF Len(all) > BufferLimit THEN Tail(all) ELSE all
  /\ nextId' = nextId + 1
  /\ owed' = IF cursor # None /\ kind \in Filter THEN owed \cup {nextId} ELSE owed
  /\ UNCHANGED <<runtime, generation, cursor, seen>>

\* The next number after a clear.
Cleared(n) == n

\* clear(): also of an empty buffer.
ClearBuffer ==
  /\ generation < MaxGeneration
  /\ generation' = generation + 1
  /\ entries' = <<>> /\ nextId' = Cleared(nextId)
  /\ UNCHANGED <<runtime, pageVars>>

\* The engine stops and starts again.
Restart ==
  /\ runtime < MaxRuntime
  /\ runtime' = runtime + 1
  /\ generation' = 1 /\ nextId' = 1 /\ entries' = <<>>
  /\ UNCHANGED pageVars

-------------------------------------------------------------------------------
(* readMonitorPage.                                                        *)

\* Mutant: the cursor may stand one entry before the oldest available one.
Evicted_OffByOne(c) ==
  IF entries # <<>> THEN c.since + 1 < entries[1].id - 1 ELSE c.since < highWatermark

\* Something between the cursor and the first entry available is gone.
Evicted(c) ==
  IF entries # <<>> THEN c.since < entries[1].id - 1 ELSE c.since < highWatermark

Foreign(c) == c.runtime # runtime \/ c.generation # generation

\* CURSOR_AHEAD: the page is refused.
Ahead(c) == ~Foreign(c) /\ c.since > highWatermark

Gap(c) == Foreign(c) \/ Evicted(c)

\* The number after which the page starts; with a gap, at the first available.
After(c) == IF c = None THEN 0 ELSE IF Gap(c) THEN 0 ELSE c.since

\* The numbers of the matching entries; the buffer has them in order.
Matches(c) ==
  {entries[i].id : i \in {j \in DOMAIN entries : entries[j].kind \in Filter /\ entries[j].id > After(c)}}

HasMore(c) == Cardinality(Matches(c)) > PageLimit
\* The first PageLimit of them.
Items(c) == {n \in Matches(c) : Cardinality({m \in Matches(c) : m < n}) < PageLimit}

NextCursor(c) ==
  [runtime |-> runtime, generation |-> generation,
   since |-> IF HasMore(c) THEN Max(Items(c)) ELSE highWatermark]

\* GET /monitoring/requests?view=page: the client goes on from its cursor, or starts
\* with what is available.  A declared gap tells it that it may have lost entries.
ReadPage ==
  /\ cursor # None => ~Ahead(cursor)
  /\ cursor' = NextCursor(cursor)
  /\ owed' = (IF cursor = None \/ (cursor # None /\ Gap(cursor))
              THEN Matches(cursor) ELSE owed) \ Items(cursor)
  /\ seen' = seen \cup {<<runtime, n>> : n \in Items(cursor)}
  /\ UNCHANGED bufferVars

\* With since=latest: from now on.
ReadLatest ==
  /\ cursor' = [runtime |-> runtime, generation |-> generation, since |-> highWatermark]
  /\ owed' = {}
  /\ UNCHANGED <<bufferVars, seen>>

-------------------------------------------------------------------------------
\* A client that follows the cursors gets every matching request exactly once, or is
\* told that some were lost: the page after its cursor holds what it has not had and
\* nothing it has had, whatever was evicted, cleared or renumbered by a restart, and
\* the cursor is never refused.
PagesFollow ==
  cursor # None =>
    /\ ~Ahead(cursor)
    /\ {<<runtime, n>> : n \in Matches(cursor)} \cap seen = {}
    /\ ~Gap(cursor) => Matches(cursor) = owed
==============================================================================

------------------------------ MODULE CatalogStore ------------------------------
(***************************************************************************)
(* The store of the Mocks page (MocksStore,                                *)
(* mockxy-ui/src/app/pages/mocks-next/mocks-next.store.ts): the list of    *)
(* the endpoints, the tree they hang in, the endpoint that is open, the    *)
(* actions of the user with their optimistic values, and the silent        *)
(* rereads RuntimeSync asks for.  What JavaScript compares by identity     *)
(* (the arrays and the detail of before a reread) carries a tag, free for  *)
(* use again when nothing holds it.  A detail the engine cannot compose    *)
(* after a mutation is left out.                                           *)
(***************************************************************************)
EXTENDS RuntimeSync, FiniteSets

CONSTANTS Endpoints,      \* ids, the same in every workspace
          NoEndpoint,
          CatalogActs,    \* the kinds of actions the user takes
          CatalogBudget

\* Only mutations leave with an indicator and an optimistic value.
ASSUME CatalogActsAssumption ==
  CatalogActs \subseteq {"toggle", "assign", "reorder", "create", "detail", "remove", "erase",
                         "direct", "collection", "assignMany", "removeMany"}

VARIABLE ui

catalogVars == <<engine, sync, left, ui>>

\* Actions with an indicator, which a silent reread waits for (mutationInFlight).
Indicator(kind) ==
  CASE kind \in {"toggle", "assign", "detail", "remove"} -> {"saving"}
    [] kind = "create" -> {"creating"}
    [] kind = "erase" -> {"erasing"}
    [] OTHER -> {}
\* What an action shows before the engine answers, and puts back when it fails.
Optimistic(kind) ==
  CASE kind = "toggle" -> {"items"}
    [] kind = "assign" -> {"items", "tree"}
    [] kind = "reorder" -> {"tree"}
    [] OTHER -> {}
\* Several requests in a row (batchInWorkspace).
Batch(kind) == kind \in {"assignMany", "removeMany"}

NoDetail == [tag |-> 0, id |-> NoEndpoint, inst |-> 0, ver |-> 0]
NoList == [tag |-> 0, inst |-> 0, ver |-> 0, ids |-> {}]
ListOf(e) == [tag |-> 0, inst |-> e.run, ver |-> e.ver, ids |-> e.content.ids]
DetailOf(e, id) == [tag |-> 0, id |-> id, inst |-> e.run, ver |-> e.ver]

\* The tags that something holds, and one that nothing does.
Held(u) ==
  {u.items.tag, u.tree.tag, u.sel.tag} \cup {o.items.tag : o \in u.ops}
    \cup {o.tree.tag : o \in u.ops} \cup {o.sel.tag : o \in u.ops}
FreshTag(u) ==
  CHOOSE t \in 1..(3 * Cardinality(u.ops) + 4) : t \notin Held(u)

\* applyCatalogResponse.
ApplyCatalogResponse(u, list) ==
  LET shown == [list EXCEPT !.tag = FreshTag(u)] IN [u EXCEPT !.items = shown, !.tree = shown]
SetSelected(u, detail) ==
  [u EXCEPT !.sel = [detail EXCEPT !.tag = FreshTag(u)], !.gone = FALSE]
ClearSelected(u) == [u EXCEPT !.sel = NoDetail, !.gone = FALSE]
\* leaveStaleWorkspace, then the detail of the new instance.
Open(u, detail) == SetSelected([u EXCEPT !.stale = FALSE], detail)

\* A request leaves: the operation keeps the epoch and what it will need of that moment.
Begin(u, kind, id, at, todo) ==
  LET part(p, now) == IF kind = "sync" THEN [NoList EXCEPT !.tag = now.tag]
                      ELSE IF p \in Optimistic(kind) \/ kind = "removeMany" THEN now
                      ELSE NoList
  IN [u EXCEPT !.ops = @ \cup {
       [n |-> CHOOSE n \in 1..(Cardinality(u.ops) + 1) : \A o \in u.ops : o.n # n,
        kind |-> kind, id |-> id, at |-> at, todo |-> todo, epoch |-> u.epoch,
        items |-> part("items", u.items), tree |-> part("tree", u.tree),
        sel |-> IF kind \in {"sync", "reread", "removeMany"} THEN u.sel ELSE NoDetail,
        list |-> NoList, got |-> NoDetail]}]
Without(u, o) == [u EXCEPT !.ops = @ \ {o}]
Next1(u, o, at) == [u EXCEPT !.ops = (@ \ {o}) \cup {[o EXCEPT !.at = at]}]

\* selectMock(id): nothing to do for the endpoint that is open.
SelectMock(u, id) ==
  IF u.sel.id = id /\ ~u.stale THEN u ELSE Begin(u, "select", id, "item", {})
\* loadCatalog().
LoadCatalog(u) == Begin(u, "load", NoEndpoint, "list", {})

Syncing(u) == \E o \in u.ops : o.kind = "sync"
\* syncRefresh: one at a time, one more in the queue; with a mutation in flight none.
SyncRefresh(u) ==
  IF Syncing(u) THEN [u EXCEPT !.queued = TRUE]
  ELSE IF u.busy # {} THEN u
  ELSE Begin(u, "sync", IF u.stale THEN NoEndpoint ELSE u.sel.id, "list", {})

\* Mutant: the result is applied whatever was shown meanwhile.
SyncResult_Always(u, o) ==
  IF o.epoch # u.epoch \/ u.busy # {} THEN u
  ELSE LET listed == ApplyCatalogResponse(u, o.list)
       IN IF o.got # NoDetail THEN SetSelected(listed, o.got)
          ELSE [listed EXCEPT !.gone = @ \/ (o.id # NoEndpoint /\ o.id \notin o.list.ids)]
\* The result of a reread is dropped when what was shown at its start has changed, the
\* workspace has, or a mutation is in flight.
SyncResult(u, o) ==
  LET unchanged == <<u.items.tag, u.tree.tag, u.sel.tag>> = <<o.items.tag, o.tree.tag, o.sel.tag>>
      listed == ApplyCatalogResponse(u, o.list)
  IN IF ~unchanged \/ o.epoch # u.epoch \/ u.busy # {} THEN u
     ELSE IF o.got # NoDetail THEN SetSelected(listed, o.got)
     ELSE IF o.id # NoEndpoint THEN [listed EXCEPT !.gone = o.id \notin o.list.ids]
     ELSE listed
\* finalize: the reread in the queue starts.
SyncOver(u, o) ==
  LET over == Without(u, o) IN IF u.queued THEN SyncRefresh([over EXCEPT !.queued = FALSE]) ELSE over

\* onWorkspaceChanged.  told is history: the instance of the last change of workspace.
WorkspaceChanged(u, run) ==
  SyncRefresh([u EXCEPT !.epoch = @ + 1, !.busy = {}, !.stale = u.sel.id # NoEndpoint,
                        !.gone = FALSE, !.told = run])

CatalogContent(ids) == [ids |-> ids, mark |-> FALSE]

\* The page was opened, loadCatalog showed the list and one endpoint, and GET /info was
\* answered since.
InitCatalog ==
  LET list == [ListOf(engine) EXCEPT !.tag = 1]
  IN /\ engine = [run |-> 1, ws |-> "A", content |-> CatalogContent(Endpoints), ver |-> 1, rev |-> 1,
                  last |-> CatalogContent(Endpoints)]
     /\ sync = [info |-> [run |-> 1, ws |-> "A", rev |-> 1], connected |-> TRUE, poll |-> Quiet,
                pending |-> FALSE, timer |-> TRUE, visible |-> TRUE]
     /\ left = CatalogBudget
     /\ \E id \in Endpoints :
          ui = [items |-> list, tree |-> list, sel |-> [DetailOf(engine, id) EXCEPT !.tag = 2],
                gone |-> FALSE, stale |-> FALSE, busy |-> {}, epoch |-> 0, told |-> 0,
                queued |-> FALSE, ops |-> {}]

EndPollCatalog ==
  /\ EndPoll
  /\ ui' = LET event == Event(sync)
           IN IF event.kind = "none" THEN ui
              ELSE IF event.moved THEN WorkspaceChanged(ui, sync.poll.info.run)
              ELSE SyncRefresh(ui)

---------------------------------------------------------------------------------
\* The user.

\* Select, reload, and the reread of the detail (selectMock, reload, reloadSelectedDetail).
Select(id) ==
  /\ id \in ui.items.ids /\ SelectMock(ui, id) # ui /\ Spend("acts")
  /\ ui' = SelectMock(ui, id) /\ UNCHANGED <<engine, sync>>
Reload ==
  /\ Spend("acts")
  /\ ui' = Begin(ui, "reload", IF ui.stale THEN NoEndpoint ELSE ui.sel.id, "list", {})
  /\ UNCHANGED <<engine, sync>>
ReloadSelectedDetail ==
  /\ ui.sel.id # NoEndpoint /\ Spend("acts")
  /\ ui' = Begin(ui, "reread", ui.sel.id, "item", {}) /\ UNCHANGED <<engine, sync>>

\* A mutation leaves; its indicator goes on and its optimistic values are shown.
Mutate(kind, id) ==
  /\ kind \in CatalogActs /\ Spend("acts")
  /\ CASE kind = "create" -> id \notin ui.items.ids
       [] kind \in {"detail", "remove"} -> id = ui.sel.id /\ id # NoEndpoint
       [] OTHER -> id \in ui.items.ids
  /\ kind = "erase" => "erasing" \notin ui.busy
  /\ LET begun == Begin(ui, kind, id, "act", IF Batch(kind) THEN ui.items.ids \ {id} ELSE {})
         shown(part) == part \in Optimistic(kind)
         tag == FreshTag(begun)
     IN ui' = [begun EXCEPT !.busy = @ \cup Indicator(kind),
                            !.items.tag = IF shown("items") THEN tag ELSE @,
                            !.tree.tag = IF shown("tree") THEN tag ELSE @]
  /\ UNCHANGED <<engine, sync>>

---------------------------------------------------------------------------------
\* The engine, and the network.

Allowed(c, o) ==
  CASE o.kind = "create" -> o.id \notin c.ids
    [] o.kind \in {"reorder", "erase", "direct", "collection"} -> TRUE
    [] OTHER -> o.id \in c.ids
Effect(c, o) ==
  CASE o.kind = "create" -> [c EXCEPT !.ids = @ \cup {o.id}]
    [] o.kind \in {"remove", "erase", "removeMany"} -> [c EXCEPT !.ids = @ \ {o.id}]
    [] OTHER -> [c EXCEPT !.mark = ~@]

Answered(o, new) == ui' = [ui EXCEPT !.ops = (@ \ {o}) \cup {new}] /\ UNCHANGED <<sync, left>>
\* The answer of a mutation; only "direct" has the list in it.
AnswerAct(o) ==
  /\ o.at = "act"
  /\ IF Allowed(engine.content, o)
     THEN /\ engine' = Write(engine, Effect(engine.content, o))
          /\ Answered(o, [o EXCEPT !.at = "acted", !.got = DetailOf(engine', o.id),
                                   !.list = IF o.kind = "direct" THEN ListOf(engine') ELSE @])
     ELSE Answered(o, [o EXCEPT !.at = "failed"]) /\ UNCHANGED engine
AnswerList(o) ==
  /\ o.at = "list" /\ UNCHANGED engine
  /\ Answered(o, [o EXCEPT !.at = "listed", !.list = ListOf(engine)])
AnswerItem(o) ==
  /\ o.at = "item" /\ UNCHANGED engine
  /\ Answered(o, IF o.id \in engine.content.ids
                 THEN [o EXCEPT !.at = "read", !.got = DetailOf(engine, o.id)]
                 ELSE [o EXCEPT !.at = "failed"])
\* What a lost answer had in it is lost with it.
Lose(o) ==
  /\ o.at # "failed" /\ Spend("failures")
  /\ ui' = [ui EXCEPT !.ops = (@ \ {o}) \cup
              {[o EXCEPT !.at = "failed", !.list = IF o.at = "listed" THEN NoList ELSE @,
                                          !.got = IF o.at = "read" THEN NoDetail ELSE @]}]
  /\ UNCHANGED <<engine, sync>>

---------------------------------------------------------------------------------
\* What an answer does.

\* Mutant: the outcome of a mutation is applied in whatever workspace it arrives.
Discarded_Never(u, o) == o.kind \in {"sync", "select", "load", "reload"} /\ o.epoch # u.epoch
\* sameWorkspace, settle and the checks of the reads: outcomes of another workspace.
Discarded(u, o) == o.kind # "sync" /\ o.epoch # u.epoch

\* settle: the indicator goes off.
Settled(u, o) == [Without(u, o) EXCEPT !.busy = @ \ Indicator(o.kind)]
\* What an optimistic action had replaced.
RolledBack(u, o) ==
  LET settled == Settled(u, o)
      back(part, now, then) == IF part \in Optimistic(o.kind) THEN then ELSE now
  IN [settled EXCEPT !.items = back("items", @, o.items), !.tree = back("tree", @, o.tree)]
\* A detail from here on is read for an endpoint of the list, any of them.
OpenOne(u, ids, w) == IF w = NoEndpoint THEN ids = {} /\ ui' = u ELSE w \in ids /\ ui' = SelectMock(u, w)

\* A switch turned for a collection, or for several endpoints: the detail that is open takes
\* its own from the list, and is another object (setCollectionEnabled, setEndpointsEnabled).
Realigned(u) ==
  IF u.sel # NoDetail /\ u.sel.id \in u.items.ids THEN SetSelected(u, u.sel) ELSE u

\* The mutation itself is over: the list is read, but for the actions that have it, and
\* for a batch with requests left.
EndAct(o) ==
  /\ o.at = "acted" /\ UNCHANGED syncVars
  /\ IF Discarded(ui, o) THEN ui' = Without(ui, o)
     ELSE IF o.todo # {}
     THEN \E id \in o.todo :
            ui' = [ui EXCEPT !.ops = (@ \ {o}) \cup
                     {[o EXCEPT !.at = "act", !.id = id, !.todo = @ \ {id}]}]
     ELSE CASE o.kind = "direct" -> ui' = Realigned(ApplyCatalogResponse(Settled(ui, o), o.list))
            [] o.kind = "removeMany" ->
                 ui' = LoadCatalog(IF o.sel.id \in o.items.ids THEN ClearSelected(Without(ui, o))
                                   ELSE Without(ui, o))
            [] OTHER -> ui' = Next1(ui, o, "list")

\* The list arrives: alone, or after the mutation it follows.
EndList(o, w) ==
  /\ o.at = "listed" /\ o.kind # "sync" /\ UNCHANGED syncVars
  /\ IF Discarded(ui, o) THEN w = NoEndpoint /\ ui' = Without(ui, o)
     ELSE LET listed == ApplyCatalogResponse(Settled(ui, o), o.list)
              detailed == SetSelected(listed, o.got)
              ids == o.list.ids
          IN CASE o.kind = "load" ->
                    IF listed.sel = NoDetail THEN OpenOne(listed, ids, w) ELSE w = NoEndpoint /\ ui' = listed
               [] o.kind = "reload" ->
                    IF o.id \in ids
                    THEN w = NoEndpoint /\ ui' = Begin(listed, "refetch", o.id, "item", {})
                    ELSE OpenOne([ClearSelected(listed) EXCEPT !.stale = FALSE], ids, w)
               [] o.kind = "remove" -> OpenOne(ClearSelected(listed), ids, w)
               [] OTHER ->
                    /\ w = NoEndpoint
                    /\ ui' = CASE o.kind \in {"detail", "create"} -> detailed
                               [] o.kind \in {"toggle", "assign"} ->
                                    IF ui.sel.id = o.id THEN detailed ELSE listed
                               [] o.kind = "erase" ->
                                    IF ui.sel.id \in ids THEN listed ELSE ClearSelected(listed)
                               [] OTHER -> listed

\* The detail arrives.  A reread on request counts only for the detail it was asked for.
EndItem(o) ==
  /\ o.at = "read" /\ o.kind # "sync" /\ UNCHANGED syncVars
  /\ LET over == Without(ui, o)
     IN ui' = IF Discarded(ui, o) THEN over
              ELSE CASE o.kind = "refetch" -> SetSelected(over, o.got)
                     [] o.kind = "reread" /\ ui.sel.tag # o.sel.tag -> over
                     [] OTHER -> Open(over, o.got)

EndFailed(o) ==
  /\ o.at = "failed" /\ o.kind # "sync" /\ UNCHANGED syncVars
  /\ ui' = IF Discarded(ui, o) THEN Without(ui, o)
           ELSE IF o.kind = "removeMany" THEN LoadCatalog(Without(ui, o))
           ELSE RolledBack(ui, o)

\* The silent reread: the list, then the detail if the list still has it.  A list that
\* fails is not asked for again; a detail that fails leaves the one shown.
EndSyncRead(o) ==
  /\ o.kind = "sync" /\ o.at \in {"listed", "read", "failed"} /\ UNCHANGED syncVars
  /\ ui' = IF o.at = "listed" /\ o.epoch = ui.epoch /\ o.id \in o.list.ids
           THEN Next1(ui, o, "item")
           ELSE IF o.list = NoList \/ (o.at = "listed" /\ o.epoch # ui.epoch)
           THEN SyncOver(ui, o)
           ELSE SyncOver(SyncResult(ui, o), o)

---------------------------------------------------------------------------------
\* Agents, other windows, the desktop application.
CatalogChanged ==
  /\ Spend("changes") /\ UNCHANGED <<sync, ui>>
  /\ \E c \in {[engine.content EXCEPT !.mark = ~@]} \cup
              {[engine.content EXCEPT !.ids = @ \ {id}] : id \in engine.content.ids} :
       engine' = Write(engine, c)
EngineStarts(ws) ==
  /\ Spend("changes") /\ UNCHANGED <<sync, ui>>
  /\ engine' = Restarted(engine, ws, IF ws = engine.ws THEN engine.content ELSE CatalogContent(Endpoints))

Arrival(o) ==
  \/ EndAct(o) \/ EndItem(o) \/ EndFailed(o) \/ EndSyncRead(o)
  \/ \E w \in Endpoints \cup {NoEndpoint} : EndList(o, w)

CatalogStep ==
  \/ SyncStep /\ UNCHANGED ui
  \/ EndPollCatalog
  \/ \E id \in Endpoints : Select(id)
  \/ Reload
  \/ ReloadSelectedDetail
  \/ \E kind \in CatalogActs, id \in Endpoints : Mutate(kind, id)
  \/ \E o \in ui.ops : AnswerAct(o) \/ AnswerList(o) \/ AnswerItem(o) \/ Lose(o) \/ Arrival(o)
  \/ CatalogChanged
  \/ \E ws \in {"A", "B"} : EngineStarts(ws)

CatalogSpec == InitCatalog /\ [][CatalogStep]_catalogVars

CatalogFairness ==
  /\ WF_catalogVars(AnswerInfo /\ UNCHANGED ui) /\ WF_catalogVars(EndPollCatalog)
  /\ WF_catalogVars(PollTick /\ UNCHANGED ui)
  /\ WF_catalogVars(\E o \in ui.ops : AnswerAct(o) \/ AnswerList(o) \/ AnswerItem(o))
  /\ WF_catalogVars(\E o \in ui.ops : Arrival(o))

---------------------------------------------------------------------------------
\* After the interface was told of another workspace, nothing of the one before comes
\* back: not with a late list or detail, not with the end of an action, and no request
\* of a batch still to be sent goes out.  Only an action begun on the old list while it
\* was still shown may put that back when it fails (the README tells when).
NothingForeign ==
  [][/\ \A part \in {"items", "tree"} :
          ui'[part].inst # ui[part].inst =>
            \/ ui'[part].inst >= ui'.told
            \/ \E o \in ui.ops \ ui'.ops : o.at = "failed" /\ o.epoch = ui.epoch
     /\ ui'.sel.inst # ui.sel.inst /\ ui'.sel # NoDetail => ui'.sel.inst >= ui'.told
     /\ \A o \in ui'.ops \ ui.ops : o.at = "act" => o.epoch = ui'.epoch
    ]_catalogVars

\* A silent reread never replaces what is shown with something older, though answers
\* to actions, selections and reloads arrive before and after it
\* (PIANO-PILOTAGGIO-DA-AGENT.md:218).
SyncNeverGoesBack ==
  [][\A o \in ui.ops : o.kind = "sync" /\ o \notin ui'.ops =>
        /\ ui'.items.ver >= ui.items.ver /\ ui'.tree.ver >= ui.tree.ver
        /\ ui'.sel.id = ui.sel.id => ui'.sel.ver >= ui.sel.ver]_catalogVars

\* Nothing that the page has left behind comes back: neither another workspace nor, by a
\* silent reread, an older state.
NothingComesBack == NothingForeign /\ SyncNeverGoesBack

\* A visible window ends up showing the catalog of the engine
\* (PIANO-PILOTAGGIO-DA-AGENT.md:216).
CatalogConverges == <>[](sync.visible => ui.items.ver = engine.ver /\ ui.tree.ver = engine.ver)
==============================================================================

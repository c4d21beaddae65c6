------------------------------ MODULE CaptureBatch ------------------------------
(***************************************************************************)
(* Mocks created from captured traffic: the choice made on the page of the *)
(* monitor or of the history, and the batch in the admin API that writes   *)
(* the files and reloads once (src/src/admin/capture-to-mock.js).          *)
(*                                                                         *)
(* A capture is <<run, id>>: an engine that restarts counts its requests   *)
(* from one again, so an id alone names different requests.  It stands for *)
(* the method and path of its request (a Key).  A file declares a key, and *)
(* its variants are what was there at first or <<batch, capture>>.         *)
(***************************************************************************)
EXTENDS Integers, Sequences, FiniteSets, SequencesExt

CONSTANTS RouteKey, FileCount,
          Home,          \* the file in the folder derived from a path: [RouteKey -> BatchFile]
          WrittenByHand, \* what the files may be at first: a set of [BatchFile -> file]
          OwnVariant, BadVariant, NoEndpointFile, Unserved,
          MaxRuns, MaxCaptures, MaxBatches, MaxHandEdits   \* bounds of the checked instance

BatchFile == 1..FileCount
CaptureRef == Nat \X Nat
MockVariant == {OwnVariant, BadVariant} \cup (Nat \X CaptureRef)
FileRecord ==
  [key : RouteKey, on : BOOLEAN, readable : BOOLEAN, variants : Seq(MockVariant), selected : Nat]
MockUse == [key : RouteKey, variant : MockVariant]

ASSUME BatchAssumption ==
  /\ FileCount \in Nat /\ Home \in [RouteKey -> BatchFile]
  /\ OwnVariant # BadVariant
  /\ OwnVariant \notin Nat \X CaptureRef /\ BadVariant \notin Nat \X CaptureRef
  /\ NoEndpointFile \notin FileRecord /\ Unserved \notin MockUse
  /\ WrittenByHand \subseteq [BatchFile -> {NoEndpointFile} \cup FileRecord]
  /\ \A files \in WrittenByHand : \A f \in BatchFile :
       files[f] # NoEndpointFile =>
         /\ files[f].variants \in Seq({OwnVariant, BadVariant})
         /\ files[f].selected \in DOMAIN files[f].variants

VARIABLES
  traffic,    \* the engine: [run, last], its requests are 1..last
  keyOf,      \* every capture ever made -> its key
  view,       \* the Monitor page: [run, shown, sel, anchor, prompt, ticked]
  batch,      \* the request under way, or NoBatch
  endpointFile, \* file -> [key, on, readable, variants, selected], or NoEndpointFile
  inUse,      \* file -> [key, variant], or Unserved
  meddled,    \* files that others have touched, or a restart reloaded, since the batch began
  spent       \* [batches, edits]

batchVars == <<traffic, keyOf, view, batch, endpointFile, inUse, meddled, spent>>

NoBatch == [at |-> "none"]
NoSelection == [run |-> 0, ids |-> {}]

-------------------------------------------------------------------------------
(* The files and the reload. *)

OnDisk(f) == endpointFile[f] # NoEndpointFile
Chosen(file) == file.variants[file.selected]
Loadable(disk, f) ==
  disk[f] # NoEndpointFile /\ disk[f].readable /\ disk[f].on /\ Chosen(disk[f]) # BadVariant
\* Of two files with one key the first is served, if it can be; the other is an error even
\* when either is switched off.
Readable(disk, f) == disk[f] # NoEndpointFile /\ disk[f].readable
Taken(disk, f) ==
  Readable(disk, f) /\ \E g \in 1..(f - 1) : Readable(disk, g) /\ disk[g].key = disk[f].key
LoadErrors(disk) ==
  {f \in BatchFile : disk[f] # NoEndpointFile /\
     (~disk[f].readable \/ Taken(disk, f) \/ (disk[f].on /\ Chosen(disk[f]) = BadVariant))}
InUseAfter(disk, f) ==
  IF f \in LoadErrors(disk)
  THEN IF inUse[f] # Unserved
          /\ \E g \in BatchFile \ LoadErrors(disk) : Loadable(disk, g) /\ disk[g].key = inUse[f].key
       THEN Unserved ELSE inUse[f]
  ELSE IF Loadable(disk, f) THEN [key |-> disk[f].key, variant |-> Chosen(disk[f])] ELSE Unserved
Reloaded == [f \in BatchFile |-> InUseAfter(endpointFile, f)]

\* readDestinations: the files of the catalog that declare a key.
Destinations(k) == {f \in BatchFile : OnDisk(f) /\ endpointFile[f].readable /\ endpointFile[f].key = k}

-------------------------------------------------------------------------------
(* The Monitor page. *)

\* selectedIds: a selection of another engine is not shown and not valid.
SelectedIds(v) == IF v.sel.run = v.run THEN v.sel.ids ELSE {}

InitBatch ==
  /\ traffic = [run |-> 1, last |-> 0] /\ keyOf = << >>
  /\ view = [run |-> 1, shown |-> {}, sel |-> NoSelection, anchor |-> 0,
             prompt |-> NoBatch, ticked |-> {}]
  /\ batch = NoBatch
  /\ endpointFile \in WrittenByHand
  /\ \E kept \in BOOLEAN :   \* a file in error may be served as it was before
       inUse = [f \in BatchFile |->
                  IF f \in LoadErrors(endpointFile)
                  THEN IF kept /\ ~Taken(endpointFile, f)
                       THEN [key |-> endpointFile[f].key, variant |-> OwnVariant] ELSE Unserved
                  ELSE IF Loadable(endpointFile, f)
                  THEN [key |-> endpointFile[f].key, variant |-> Chosen(endpointFile[f])]
                  ELSE Unserved]
  /\ meddled = {} /\ spent = [batches |-> 0, edits |-> 0]

\* Bounds: MaxBatches batches, and then one more for the dialog that the last may open.
Room == spent.batches < MaxBatches
Open == Room \/ view.prompt # NoBatch
Idle == batch = NoBatch /\ Open

\* A request passes; the monitor and the dump have it.
RequestPasses(k) ==
  /\ Idle /\ Cardinality(DOMAIN keyOf) < MaxCaptures
  /\ LET c == <<traffic.run, traffic.last + 1>> IN
       keyOf' = [x \in DOMAIN keyOf \cup {c} |-> IF x = c THEN k ELSE keyOf[x]]
  /\ traffic' = [traffic EXCEPT !.last = @ + 1]
  /\ UNCHANGED <<view, batch, endpointFile, inUse, meddled, spent>>

\* The engine restarts: its queue and the batch in it are gone, the page is not told yet.
Restart ==
  /\ traffic.run < MaxRuns
  /\ traffic' = [run |-> traffic.run + 1, last |-> 0]
  /\ inUse' = [f \in BatchFile |->
                 IF f \in LoadErrors(endpointFile) THEN Unserved ELSE InUseAfter(endpointFile, f)]
  /\ meddled' = IF batch.at = "answered" THEN BatchFile ELSE {}
  /\ batch' = IF batch.at \in {"none", "answered"} THEN batch ELSE [batch EXCEPT !.at = "lost"]
  /\ UNCHANGED <<keyOf, view, endpointFile, spent>>

\* The stream brings a snapshot or an entry.
FollowStream ==
  /\ Open \/ batch # NoBatch
  /\ view' = [view EXCEPT !.run = traffic.run, !.shown = 1..traffic.last]
  /\ UNCHANGED <<traffic, keyOf, batch, endpointFile, inUse, meddled, spent>>

\* toggleListSelection: one entry, or the interval from the last one ticked.
Interval(from, to) == {i \in view.shown : (from <= i /\ i <= to) \/ (to <= i /\ i <= from)}
Toggle(id, range) ==
  LET now == SelectedIds(view)
      ranged == range /\ view.anchor \in view.shown
      more == IF ranged THEN Interval(view.anchor, id) ELSE {id}
      on == ranged \/ id \notin now
      mine == {<<view.run, i>> : i \in more}
  IN /\ Idle /\ id \in view.shown
     /\ view' = [view EXCEPT !.anchor = id,
                   !.sel = [run |-> view.run, ids |-> IF on THEN now \cup more ELSE now \ more],
                   !.ticked = IF on THEN @ \cup mine ELSE @ \ mine]
     /\ UNCHANGED <<traffic, keyOf, batch, endpointFile, inUse, meddled, spent>>

Unticked(v) == [v EXCEPT !.sel = NoSelection, !.anchor = 0, !.ticked = {}]

\* clearLog, or Esc: the page empties its list, or only what is ticked.
Cleared(log) ==
  /\ Idle
  /\ view' = [Unticked(view) EXCEPT !.shown = IF log THEN {} ELSE @]
  /\ UNCHANGED <<traffic, keyOf, batch, endpointFile, inUse, meddled, spent>>

\* A request leaves the page; options: [add, select, enable].
Send(kind, run, refs, options, wanted) ==
  /\ batch = NoBatch /\ refs # <<>>
  /\ batch' = [at |-> "queued", kind |-> kind, run |-> run, todo |-> refs, options |-> options,
               wanted |-> wanted, captures |-> << >>, dests |-> << >>, items |-> <<>>,
               before |-> << >>, was |-> << >>, outcome |-> "none"]
  /\ spent' = [spent EXCEPT !.batches = @ + 1]
  /\ UNCHANGED <<traffic, keyOf, endpointFile, inUse, meddled>>

SkipExisting(enable) == [add |-> FALSE, select |-> FALSE, enable |-> enable]

\* The ids of the selection are sent in ascending order.
Ascending(S) == {s \in [1..Cardinality(S) -> S] : \A i, j \in DOMAIN s : i < j => s[i] < s[j]}
CreateFromSelected(enable) ==
  /\ Room /\ view.prompt = NoBatch /\ UNCHANGED view
  /\ \E ids \in Ascending(SelectedIds(view)) :
       Send("selected", view.sel.run, ids, SkipExisting(enable), view.ticked)
CreateFromEntry(id) ==
  /\ Room /\ id \in view.shown /\ view.prompt = NoBatch /\ UNCHANGED view
  /\ Send("single", view.run, <<id>>, SkipExisting(TRUE), {<<view.run, id>>})

\* Mutant: the dialog asks the engine that the page follows now.
PromptRun_Current(v) == v.run
\* confirmAddResponseToExisting: the engine that answered, not the one shown now.
PromptRun(v) == v.prompt.run
ConfirmAdd(activate) ==
  LET p == view.prompt IN
  /\ p # NoBatch /\ view' = [view EXCEPT !.prompt = NoBatch]
  /\ Send("confirm", PromptRun(view), <<p.id>>,
          [add |-> TRUE, select |-> activate, enable |-> activate], p.wanted)
CancelAdd ==
  /\ view.prompt # NoBatch /\ view' = [view EXCEPT !.prompt = NoBatch]
  /\ UNCHANGED <<traffic, keyOf, batch, endpointFile, inUse, meddled, spent>>

\* The history page: keys that it has read, in the order they were ticked.
CreateFromDump(captures) ==
  /\ Room /\ view.prompt = NoBatch /\ UNCHANGED view
  /\ Send("dump", 0, captures, SkipExisting(TRUE), ToSet(captures))

\* A client of the admin API, which may ask for what no page does: to add and select.
CreateByClient(ids) ==
  /\ Room /\ view.prompt = NoBatch /\ UNCHANGED view
  /\ Send("client", traffic.run, ids, [add |-> TRUE, select |-> TRUE, enable |-> TRUE],
          {<<traffic.run, i>> : i \in ToSet(ids)})

-------------------------------------------------------------------------------
(* The batch. *)

\* Mutant: the ids are looked up in whatever engine has come since.
RunAccepted_Any(b) == TRUE
\* The route refuses ids of another engine.
RunAccepted(b) == b.kind = "dump" \/ b.run = traffic.run

\* The capture that a reference names.
Capture(b, ref) == IF b.kind = "dump" THEN ref ELSE <<traffic.run, ref>>

\* The turn begins: the captures are copied and the destinations read, both once.  Some of
\* the captures may have been evicted, cleared or pruned.
StartBatch(gone) ==
  /\ batch.at = "queued"
  /\ batch' =
       IF ~RunAccepted(batch) THEN [batch EXCEPT !.at = "answered", !.outcome = "refused"]
       ELSE [batch EXCEPT !.at = "items",
               !.captures = [i \in DOMAIN batch.todo |->
                               [of |-> Capture(batch, batch.todo[i]),
                                there |-> Capture(batch, batch.todo[i]) \in DOMAIN keyOf \ gone]],
               !.dests = [k \in RouteKey |-> Destinations(k)],
               !.before = [f \in BatchFile |-> {inUse[f], Reloaded[f]}],
               !.was = endpointFile]
  /\ meddled' = {} /\ UNCHANGED <<traffic, keyOf, view, endpointFile, inUse, spent>>

Item(c, f, write, n, selects, expects) ==
  [of |-> c, file |-> f, write |-> write, variant |-> n, selects |-> selects, expects |-> expects,
   superseded |-> FALSE, runtime |-> "not_applicable"]
Failed(c) == Item(c, 0, "failed", 0, FALSE, FALSE)

VariantOf(c) == <<spent.batches, c>>
\* Mutant: the variant is always selected, as when it is created by hand.
Selection_Always(file, select) == Len(file.variants) + 1
\* createAdminResponse: the new variant is selected only when asked.
Selection(file, select) == IF select THEN Len(file.variants) + 1 ELSE file.selected
WithVariant(f, c, select) ==
  LET file == endpointFile[f] IN
  [endpointFile EXCEPT ![f] = [file EXCEPT !.variants = Append(@, VariantOf(c)),
                                           !.selected = Selection(file, select)]]
WithEndpoint(k, c, enable) ==
  [endpointFile EXCEPT ![Home[k]] =
     [key |-> k, on |-> enable, readable |-> TRUE, variants |-> <<VariantOf(c)>>, selected |-> 1]]

\* The head of what is left to do ends as item; files' are what it leaves.
Processed(item) ==
  /\ batch' = [batch EXCEPT !.items = Append(@, item), !.todo = Tail(@), !.captures = Tail(@)]
  /\ UNCHANGED <<traffic, keyOf, view, inUse, meddled, spent>>
\* A write that fails is undone and the item fails; undone badly, it stops the batch.
Unwritten(c, files) ==
  \/ Processed(Failed(c)) /\ UNCHANGED endpointFile
  \/ /\ endpointFile' \in {endpointFile, files}
     /\ batch' = [batch EXCEPT !.items = Append(@, Failed(c)), !.todo = <<>>, !.captures = <<>>,
                               !.outcome = "interrupted"]
     /\ UNCHANGED <<traffic, keyOf, view, inUse, meddled, spent>>

ProcessItem ==
  /\ batch.at = "items" /\ batch.todo # <<>>
  /\ LET c == Head(batch.captures).of
         k == keyOf[c]
         found == batch.dests[k]
         f == CHOOSE x \in found : TRUE
         o == batch.options
     IN IF ~Head(batch.captures).there
        THEN Processed(Item(c, 0, "unavailable", 0, FALSE, FALSE)) /\ UNCHANGED endpointFile
        ELSE IF Cardinality(found) > 1 THEN Processed(Failed(c)) /\ UNCHANGED endpointFile
        ELSE IF found # {} /\ ~o.add
        THEN Processed(Item(c, f, "skipped", 0, FALSE, FALSE)) /\ UNCHANGED endpointFile
        ELSE IF found # {}
        THEN IF ~OnDisk(f) \/ ~endpointFile[f].readable
             THEN Processed(Failed(c)) /\ UNCHANGED endpointFile
             ELSE \/ /\ endpointFile' = WithVariant(f, c, o.select)
                     /\ Processed(Item(c, f, "variant_added", Len(endpointFile[f].variants) + 1,
                                       o.select, o.select /\ batch.was[f].on))
                  \/ Unwritten(c, WithVariant(f, c, o.select))
        ELSE IF OnDisk(Home[k]) THEN Processed(Failed(c)) /\ UNCHANGED endpointFile
        ELSE \/ /\ endpointFile' = WithEndpoint(k, c, o.enable)
                /\ batch' = [batch EXCEPT
                      !.items = Append(@, Item(c, Home[k], "created", 1, TRUE, o.enable)),
                      !.dests[k] = {Home[k]}, !.was[Home[k]] = endpointFile'[Home[k]],
                      !.todo = Tail(@), !.captures = Tail(@)]
                /\ UNCHANGED <<traffic, keyOf, view, inUse, meddled, spent>>
             \/ Unwritten(c, WithEndpoint(k, c, o.enable))

\* Mutant: every selection is reported as applied.
Superseded_Never(items, i) == FALSE
\* markSupersededSelections: another item of the batch selects later in the same file.
Superseded(items, i) ==
  items[i].selects /\ \E j \in DOMAIN items : j > i /\ items[j].selects /\ items[j].file = items[i].file

\* applyBatchRuntimeOutcome: what the final reload says of each item.
Served(f, used) == f \notin LoadErrors(endpointFile) /\ used[f] # Unserved
Outcomes(items, ok, used) ==
  [i \in DOMAIN items |->
     [items[i] EXCEPT
        !.superseded = Superseded(items, i),
        !.runtime = IF ~items[i].expects \/ Superseded(items, i) THEN "not_applicable"
                    ELSE IF ok /\ Served(items[i].file, used) THEN "applied" ELSE "not_applied"]]

\* finalizeBatch: one reload, which may fail as a whole; an interruption prevails.
FinishBatch(ok) ==
  /\ batch.at = "items" /\ batch.todo = <<>>
  /\ inUse' = IF ok THEN Reloaded ELSE inUse
  /\ batch' = [batch EXCEPT !.at = "answered", !.items = Outcomes(@, ok, inUse'),
                            !.outcome = IF @ = "interrupted" THEN @ ELSE IF ok THEN "done" ELSE "failed"]
  /\ UNCHANGED <<traffic, keyOf, view, endpointFile, meddled, spent>>

\* The answer reaches the page, or is lost on the way.
EndBatch ==
  LET done == batch.at = "answered" /\ batch.outcome = "done"
      exists == batch.kind = "single" /\ done /\ batch.items[1].write = "skipped"
  IN /\ batch.at \in {"answered", "lost"}
     /\ \/ view' = IF done /\ batch.kind = "selected" THEN Unticked(view)
                   ELSE IF exists THEN [view EXCEPT !.prompt = [run |-> batch.run, wanted |-> batch.wanted,
                                                                id |-> batch.items[1].of[2]]]
                   ELSE view
        \/ UNCHANGED view
     /\ batch' = NoBatch
     /\ UNCHANGED <<traffic, keyOf, endpointFile, inUse, meddled, spent>>

\* Another program removes a file under the batch (what it does before, the initial states
\* have); the watcher, which the batch's own files wake too, reloads.
HandRemove(f) ==
  /\ batch.at = "items" /\ batch.todo # <<>> /\ OnDisk(f)
  /\ batch.items = <<>> /\ spent.edits < MaxHandEdits   \* bound: before the first item
  /\ spent' = [spent EXCEPT !.edits = @ + 1] /\ meddled' = meddled \cup {f}
  /\ endpointFile' = [endpointFile EXCEPT ![f] = NoEndpointFile]
  /\ UNCHANGED <<traffic, keyOf, view, batch, inUse>>
WatcherReload ==
  /\ batch.at = "items" /\ inUse' = Reloaded
  /\ UNCHANGED <<traffic, keyOf, view, batch, endpointFile, meddled, spent>>

BatchStep ==
  \/ \E k \in RouteKey : RequestPasses(k)
  \/ Restart \/ FollowStream
  \/ \E log \in BOOLEAN : Cleared(log)
  \/ \E id \in view.shown, range \in BOOLEAN : Toggle(id, range)
  \/ \E enable \in BOOLEAN : CreateFromSelected(enable)
  \/ \E id \in view.shown : CreateFromEntry(id)
  \/ \E activate \in BOOLEAN : ConfirmAdd(activate)
  \/ CancelAdd
  \/ \E c, d \in DOMAIN keyOf : c # d /\ CreateFromDump(<<c, d>>)   \* bound: two at a time
  \/ traffic.last >= 2 /\ CreateByClient(<<1, 2>>)   \* bound: two at a time
  \/ \E gone \in {{}} \cup {{c} : c \in DOMAIN keyOf} : StartBatch(gone)
  \/ ProcessItem \/ EndBatch \/ WatcherReload
  \/ \E ok \in BOOLEAN : FinishBatch(ok)
  \/ \E f \in BatchFile : HandRemove(f)

BatchSpec == InitBatch /\ [][BatchStep]_batchVars

-------------------------------------------------------------------------------
Ended == batch.at = "answered" /\ batch.outcome # "refused"
Written(item) == item.write \in {"created", "variant_added"}

\* No mock comes from a request that the user has not chosen: after a restart the same ids
\* are other requests, and a page, a selection, a dialog or a batch may still hold the old.
OnlyWhatWasChosen ==
  batch.at \in {"items", "answered"} => \A c \in ToSet(batch.captures) : c.there => c.of \in batch.wanted

\* What the answer says of every item is true of the files and of what is served: written
\* or not written, applied or not, and nothing says applied of a variant that a later item
\* has put aside.
OutcomesTrue ==
  Ended => \A i \in DOMAIN batch.items :
      batch.items[i].file \notin meddled =>
      LET item == batch.items[i]
          mine == <<spent.batches, item.of>>
          use == [key |-> keyOf[item.of], variant |-> mine]
      IN /\ Written(item) => endpointFile[item.file].variants[item.variant] = mine
         /\ item.write \in {"skipped", "unavailable"} =>
              \A f \in BatchFile : OnDisk(f) => mine \notin ToSet(endpointFile[f].variants)
         \* an item that could not be undone may have taken the place of one applied before
         /\ item.runtime = "applied" /\ batch.outcome # "interrupted" => inUse[item.file] = use
         /\ item.runtime = "not_applied" /\ batch.outcome = "done" => inUse[item.file] # use

\* A batch that was not asked to activate anything changes nothing of what was or would be
\* served without it (an earlier reload may have failed), and none makes an endpoint that was switched off answer.
NothingActivated ==
  Ended /\ meddled = {} =>
    \A f \in BatchFile :
      /\ ~batch.options.select /\ Unserved \notin batch.before[f] /\ f \notin LoadErrors(endpointFile)
           => inUse[f] \in batch.before[f]
      /\ OnDisk(f) /\ batch.was[f] # NoEndpointFile => endpointFile[f].on = batch.was[f].on

\* Traffic becomes just the mocks that were chosen, reported as they are.
MocksAsChosen == OnlyWhatWasChosen /\ OutcomesTrue /\ NothingActivated
===============================================================================

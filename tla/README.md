# Verification of Mockxy

Mockxy serves HTTP, SSE and WebSocket mocks from a workspace of JSON files, forwards what it
does not mock to a backend, and lets a user interface, an admin API, editors and git change
that workspace while clients are being served. The engine is one Node process: nothing runs in
parallel, but every `await`, timer, socket event and promise reaction is a point where
something else happens. The interface is a client of it whose requests are lost, late and
overtaken. What is modelled here is what those points can do to one another.

Paths are relative to the repository (`src/` in `PROJECT.json` is the repository itself, so the
engine's files appear there as `src/src/...`).

## Inventory

| Part | State | Operations | Used by |
|---|---|---|---|
| Shared runtime state, `src/mocks/shared-state.js` | map of named entries (generation, status, bytes), waiters on both sides, total of bytes | open (start, join, ready), the initializer's outcomes, write, reset, reset all, close, end of a request | handler scripts, admin API |
| Hot reload and registries, `src/server.js`, `src/mocks/mock-registry.js`, `src/proxy/proxy-middleware-registry.js` | queue of waiters, running round, routes, published status | request a round, scan file by file, install, publish, answer | watcher, every admin mutation |
| Handler memory, `src/mocks/handler-state.js` | per endpoint: calls and a free object | enter, reset | requests, reload |
| Sequence cursor, `src/mocks/sequence-state.js` | per endpoint: step, answers given, two instants, terminal flag | answer a request, reset, reconcile with a reload, show | requests, admin API, reload |
| Pipeline and proxy, `src/app.js`, `src/proxy/` | switches, effective configuration, one context per request | dispatch, delay, render, run a script, forward, upgrade, patch | clients, admin API |
| Lists, `src/app.js` `buildMockPayload` | none | filter, sort, page | clients |
| Streams, `src/mocks/sse-connections.js`, `ws-connections.js`, `ws-serving.js` | open connections, what they play, history of messages | open, play, push, reply, close | clients, reload, admin API |
| Traffic monitor, `src/monitoring/request-monitor*.js` | bounded buffer with a generation, numbers | record, clear, page | requests, admin API |
| Durable history, `src/monitoring/monitor-dump*.js` | pending entries, chain of tasks, current file, files | batch, append, rotate, prune, page both ways | monitor, admin API |
| Endpoint files, `src/admin/endpoint-operations.js` | endpoint file, response files, payloads and sources | create, update, select, copy, delete endpoints and responses, upload | admin API |
| Collections, `src/admin/collections-state.js`, `collection-operations.js` | tree in `.collections.json` | create, move, reorder, assign, dissolve, erase, import | admin API |
| Data files, `src/admin/admin-data-files.js` | the files that scripts read by name | write, delete, rename with the references | admin API |
| Admin transaction, `src/admin/admin-fs.js`, `admin-api.js` | queue of turns, backups | write, reload, verify, restore, reload again | every admin mutation |
| Mocks from traffic, `src/admin/capture-to-mock.js` and the pages that choose | choice, batch with its items | tick, choose, create or add a variant | user, agents |
| Catalog revision, `src/catalog-revision.js` | digest, stamp and read order of each file | scan, observe, publish | admin API, reload |
| Synchronisation, `mockxy-ui/.../runtime-sync.store.ts` and the stores of the status bar | last answer of `GET /info`; what is shown, reads and changes in flight | poll, tell, read, retry, change | user |
| Live list, `mockxy-ui/.../monitor-stream.store.ts` | the list, its engine, the connection | open, hear, break, retry, pause, clear | user |
| Mocks page, `mocks-next.store.ts`, `draft-guard.ts` | list, tree, open endpoint, actions in flight; the draft with its revision | act with an optimistic value, reread silently, change workspace; edit, save | user |
| Catalog page, `catalog-dnd.ts` | rows, folds | drop, move | user |
| Data page, `dati.page.ts` | list, selection, preview, forms | select, rename, delete, upload | user |
| Desktop application, `electron/` | engines, ports, session, updates | open, close, restart, restore, check | user |

How they interact. An admin mutation takes its turn in the queue of its workspace, writes files
inside a transaction, and asks for a reload; the reload scans the disk, replaces both registries
in one synchronous step, and drops the cursors, memories and connections of what it has changed;
requests read the registries once and keep state of their own across their awaits; the watcher
asks for reloads whenever anybody else edits a file. What a request did enters the monitor's buffer,
which feeds the pages, the live stream and the durable history. The catalog revision tells
`GET /info` that something changed, the interface polls that, and its stores read again.

### What is hard, and what makes each part correct

* **Shared state.** An initializer cannot be cancelled: it goes on after its name was reset,
  abandoned or given to another generation, and its late result must change nothing. The waiting
  relation is kept twice and must agree. Limits are checked when nothing is reserved.
* **Hot reload.** Files change while they are read. Who has written must be answered by a scan
  that began later; a file in error must keep its route without taking one from a valid file; the
  published state must be true after rounds that failed; the runtime state of what has not changed
  must survive, and that of what has changed must not.
* **Sequences.** Steps by count advance after an answer, steps by time before one, and inactivity
  is found out by the request that comes after it. A left-over counter, timer or flag is visible
  only many requests later.
* **Requests.** Timeouts, scripts, backends, bodies and clients race for one answer; the
  configuration changes while a request waits; the monitor makes bodies flow before anybody reads.
* **Streams.** Timers, pushes and replies outlive a reload, and the history is bounded.
* **Monitor and history.** Cursors outlive evictions, clears and restarts; batches are written in
  pieces, fail, rotate and are pruned under a reader.
* **Files.** Names are derived from names, numbers are used again, files are removed after the commit
  when nothing is validated any more; trees are edited by hand between two reads of one operation.
* **Transactions.** Writes, reloads and restores fail anywhere; other reloads come in between; a
  broken file keeps an old definition installed, so being installed proves neither that a
  change was applied nor that it was undone.
* **The interface.** Answers of another workspace, engine or moment arrive late. An optimistic value
  is put back over something newer. A draft is saved over a revision read long before. Commands of the
  desktop application stop half way while others run.

`PROJECT.json` lists each hazard at its line with the properties that would catch it.

## Modules

| Module | Models |
|---|---|
| `SharedState` | the store, its entries and the requests that use them |
| `RuntimeReload` | disk, watcher, callers, rounds, registries, status; cursors, memories and connections as far as a reload touches them |
| `SequencePromise` | abstract: what a sequence promises, in terms of its answers only |
| `SequenceCursor`, `SequenceHistory` | the cursor of one endpoint; with the history its clients see, and its refinement of `SequencePromise` |
| `RequestPipeline` | the life of requests, from the switches to the record of the monitor |
| `StreamConnections` | the connections of mocked streams, their timers, pushes and console |
| `ListQuery` | filters and pages of a mocked list |
| `Filtering` | JavaScript's `filter`, as a function that can be reasoned about; `ListQuery` and `CollectionTree` are made of it |
| `RequestMonitor`, `MonitorStream`, `MonitorDump`, `Monitoring` | the buffer and its pages; the live list; the durable history and its pages; all of them together |
| `EndpointFiles` | the files of one endpoint and every admin operation on them |
| `CollectionTree` | the tree of the collections, as stored, resolved and shown |
| `DataFiles` | data files, and the rename that rewrites the scripts |
| `AdminTransaction` | the turns of several mutations: backup, writes, reload, verdict, restore, verdict |
| `CatalogRevision` | the tracker of the revision, with scans and observations that overlap |
| `CaptureBatch` | the choice of captured requests, and the batch that makes mocks of them |
| `RuntimeSync`, `StatusStores` | the poll of `GET /info` and what it tells; the four stores of the status bar |
| `CatalogStore`, `DraftGuard` | the store of the Mocks page; the draft of a variant |
| `CatalogDnd`, `DataPage` | drops and moves in the catalog; the page of the data files |
| `Desktop` | the commands of the window, the pool of engines, the session, the checks for updates |
| `MC*` | the instances for TLC: sets, bounds, and the choice of the subject |
| `*Proofs` | the theorems |

The header of each module says what stands for what. Some correspondences are worth telling here.

**SharedState.** Every method of `SharedStateStore` is synchronous, so each is one action;
interleaving is that of promise reactions. A generation `g` is an entry object; `entries` is the
map; `waiters` and `waitingEntries` are the two sides of the waiting relation; `opens[c][g]` is the
promise that `open()` gave to request `c`. `SignalOpens` and `SignalClose` are the signals of the
race: the first one decides, and `SettleOpen` delivers it later. A value is its size in bytes.
Generations and contexts that nobody can reach any more are given back (`Collect`,
`RetireRequest`), so a small set of identities stands for an unbounded history.

**RuntimeReload.** A file is an endpoint with its selected response, read at once; its order in
the listing is its number. `phase` follows `drainReloadQueue` and `performReload`: listing, one file
after another, one synchronous installation, publication, answer. `Graft` is `graftPreviousRoutes`,
for each registry by itself. `expects` remembers what a caller wrote, unless somebody wrote over it.
The watcher's debounce is one boolean: some change has not been reported yet.

**SequenceCursor.** `now` may take any value of `Time` at any moment: `Date.now()` can jump, also
backwards. `Request` is `resolveStep`, with the lazy reset, the expired steps and the early
advance; its loop is written as one move, and `LoopRunsOnce` proves that it does no more.

**RequestPipeline.** A request keeps what `createApp` read at its entry in one record; `Dispatch`
is the synchronous part up to the first await, and every later event is an action. A body is a
number of pieces; `BodyFlows` happens whenever the stream is in flowing mode, whether or not
anybody listens. Matching a path with its pattern is an input: the route that matched.

**StreamConnections.** A list that plays is the rest of it; `wire` is a history variable with all
that each connection gave its client, which no code sees.

**MonitorDump.** A file is a sequence of lines and the size it really has; a line that was cut by a
crash is one byte that does not parse. A cursor is the position the code gives the client.

**EndpointFiles.** Response file `00n.response.json` is `n`; an asset is a base and a suffix, base
0 being a name given by hand; a content is the response it was last written for. An operation takes
effect only if `Accepted`: the reload and its verification. `CommitAndSweep` removes the asset that
was replaced after the commit, or fails to, which the code ignores. After `CopyEndpoint` the copy is
the endpoint that is followed.

**AdminTransaction.** A file is an endpoint with all its files, its content a version that loads,
does not load, is disabled or is absent. `served` is the version installed; `kept` says whether it
still is the object of `definitionsBefore`, which is what the code compares. Writes happen in any
order, each restore ends on its own, any of them may fail, another program may edit a file at any
moment and the watcher's reloads come at any moment.

**CatalogStore, StatusStores, DraftGuard.** What the code tells apart by identity or by a counter
is a tag or a mark, given back when nothing holds it. `ver` numbers the states of the engine and is
seen by no code: it is how the properties tell an older state from a newer one.

**Desktop.** A command is a record that says where it awaits, an engine that shuts down or one that
launches; the code between two awaits is one step. Nothing keeps commands apart, of one workspace or of
several. The two findings are told apart from everything else by history: `doubled` has the workspaces
that two launches at once were ever started for, `unsaved` those that a restart put back into the pool
when the session no longer named them, `failed` those whose restart failed, the last two since the session
was written. `EnginesAndSession` holds at every moment and not only at rest, and sets aside
exactly these: a `doubled` workspace may have an engine more and another port, an `unsaved` one
may be missing from the session, a `failed` one may still be in it.

The modules are joined by what one shows and the next one assumes. `RuntimeReload` shows that a
call is answered by a round that began after it (`AnsweredWriteServed`); that lets
`AdminTransaction`, `DataFiles` and `CaptureBatch` treat a reload as one step. `AdminTransaction`
shows that a mutation that is refused is undone, and that nothing of it is under way when the next
one begins; that lets `EndpointFiles` and `CollectionTree` treat a refusal as a step that leaves
things as they were. `RuntimeReload` drops a cursor when its signature changes, which is `Install`
in `SequenceCursor`. `Monitoring` is one composition proper: the buffer with its three followers.
`StatusStores` and `CatalogStore` extend `RuntimeSync`, whose steps they react to.

## Runs

| Run | Question | States |
|---|---|---|
| `engine_state` | Two requests, two names, two generations, limits of two places and one byte: do the waiting relations, the map and the bytes agree, and does every open end? Or a caller of reload with scans that fail as a whole: what does it get, and do the routes come in line with the disk? | 313 thousand |
| `engines` | What do rounds make of two files that compete for a key and break, and of cursors, memory and connections? Or the desktop: what do overlapping commands of the window, failures, ends of the process and checks for updates leave of engines, ports, session and preferences? | 1.9 million |
| `monitoring` | Do pages, live list and history tell the traffic over clears, restarts, breaks, crashes and pruning? | 575 thousand |
| `serving` | A request, a stream, a list, a sequence: does each client get what it should, whole and once? | 565 thousand |
| `workspace_files` | What do all operations leave of an endpoint, of a tree, of the data files? | 819 thousand |
| `admin_transaction` | Is the answer of a mutation true? | 1.2 million (symmetric) |
| `catalog` | Is what is published what is on disk, and does nothing old come back on the page? | 2.9 million |
| `interface` | Status bar, draft, mocks from traffic, data page, drops | 1.2 million |
| `serving_template`, `serving_truncated`, `catalog_stale`, `desktop_promises` | the disagreements below | stop at the violation |

Several modules share a run where they do not share state: `subject` (or `follower`) is chosen in the
initial state and never changes, so that the state spaces add up instead of multiplying. In
`engines` the constraint `HandlerAlone` keeps a handler apart from the other kinds of
definitions: it competes for keys as they do, and what it adds is its memory. Failed scans are
left to `engine_state` and to the proofs, which have both. `MCEngineState` has `RuntimeReload` by
`INSTANCE`, because both its modules name things alike; `MCEngines` extends it, so that its assumptions
are evaluated too.

Why the bounds are enough. Two generations show one that is dead beside its successor; two requests
show a closing one and one that stays. A graft needs two files that compete for a key. The buffer
holds two entries and a page one, so eviction, gaps and continuation all happen within three
numbers; two engines and two generations show every kind of foreign cursor. Seven sequences have
every kind of step at every place, both ends, with and without reset, and two that differ by the
file only. Two writes in pieces or failed are a line cut short with the next batch running into it.
A stream of two messages loops over a history of two, so the console forgets. Three responses are a
sequence, its step and a bystander; four assets are one each and one left behind. Two operations on
a tree written by hand, with one edit by another program, are one that could undo the order of the
other. Two mutations are one whose restores could land on the other. Two edits and three reads of
the tracker are a scan, an observation and the one that must win. Four commands of the window on two
workspaces are two opens of one, its restart and a show of the other, which is the longest overlap
that a comment is about; three ports, one of which another program may take, make a launch fall
back. Two changes of the engine and one action are a change of workspace with an answer of the old
one still in flight. Numbers, tags and ports are freed and used again within each bound. The
theorems remove the bounds where they are proved.

Deadlock is checked in `engine_state`, where something can always happen. The others may really
stop: every operation may be refused, all requests answered, all budgets spent.

Every property has a mutant, a plausible mistake written beside the definition it changes
(`Graft_Never`, `Committable_Late`, ...), under which the property's own run fails. Some properties
are conjunctions, named for their parts in the module (`AnsweredAndRecorded` is `OneAnswer` and
`RecordedOnce`); each part is stated, commented and proved or checked by itself.

### Fairness

* `SharedState`: promise reactions run (`SettleOpen`, `FailInitialization`), and a request is
  closed, because `respondWithHandler` closes its context in a `finally` after `runWithTimeout`. The
  timeout is positive by default and can be patched only to values of at least 1; an engine started
  with `REQUEST_TIMEOUT_MS=0` has none, and then a hung script is closed by its client only. Nothing
  is assumed of initializers. `AbandonedNameFreed` supposes that no new request joins for ever: the
  code lets endless overlapping joiners keep a hung name, and so does the model.
* `RuntimeReload`: file reads return, the watcher reports changes, a caller that has written calls
  `reload`. Nothing is assumed of edits and requests. `Converges` says that once edits stop the
  installed routes agree with the disk, or the last attempt is published as failed: the code does
  not retry a listing that failed for a moment.
* `MonitorStream`: a connection is accepted, what it carries is delivered, the retry timer fires, and
  a broken link is reported. Nothing is assumed of the user, the polls or the network staying up.
* `RequestPipeline`: delays end, bodies that flow arrive, timeouts fire, files are opened and sent or
  fail, the backend ends or drops what it began or fails within the timeout, a handshake is answered
  or fails, a finished response is flushed. A handler and a client need do nothing. `EverySettles` leaves
  out the two states of the findings (`KnownStuck`), which would never end.
* `StatusStores`, `CatalogStore`: the engine answers, the browser delivers, the timers of polls and
  retries fire. Nothing is assumed of users, agents, the window or the network, which spend budgets.

## What is proved

All theorems hold for every value of the constants under the assumptions named in the modules:
sentinels differ from data, sizes, limits and budgets are naturals, the set of names is finite, files
are numbered, routes and configurations have their fields, scripts that loop have something to play,
the filters of a query are scalars,
the workspaces that `EndpointFiles` begins with are regular, a listing names each endpoint once, the
collections of a hand-written file have different ids, none of them an endpoint's path, and its orders
are lists, of anything. Budgets bound what TLC explores; no proof
uses how large one is. Every theorem rests on an inductive invariant, which TLC checked before it was
proved; a property is seldom inductive by itself.

| Theorems | Inductive invariant, and why it is needed |
|---|---|
| `SharedStateProofs`: `StructureHolds`, `LimitsHold`, `GenerationsHold` | `StructureInv`. What one operation takes out of the map another part must know to have no waiters, so none of its five parts is inductive. The limits follow from the checks at commit and write, given that sums only move there or down |
| `SharedStateProofs`: `BytesHold` | `TypeOK`, `StructureInv` and `BytesAccounted` together: what an operation adds to the count it adds to one name, and the laws of a sum over a finite set are proved from smallest counterexamples |
| `RuntimeReloadProofs`: `RegistriesHold`, `InstallHolds` | `RuntimeInv` with types and `OneEntryPerFile`: what is grafted belongs to files in error, what is loaded does not |
| `RuntimeReloadProofs`: `AnswersHold` | `AnswerInv`: while a caller waits for the next round the disk has what it expects; once its round runs, a file that was read has it and one that was not has it on disk |
| `PlaybackProofs`: `CursorKeepsPromise`, `CursorSoundHolds` | `CursorFollowsAnswers`: the cursor is on the step that answered last, with its counter and timer, or just past it and not started. With it every step of the cursor is a step of `SequencePromise` or a stutter: the refinement is proved, not only checked. `LoopRunsOnce` is what the comment in `resolveStep` claims |
| `PlaybackProofs`: `ClientAndConsoleAgreeHolds` | `ConnectionsInv`: where each list that plays continues, and what the bounded history still holds of each connection, counted from its end |
| `PipelineProofs`: `OneInstantHolds`, `AnsweredAndRecordedHolds`, `BodyWholeHolds` | `PipelineInv`, one `RequestInv` for each request: in which phases nothing was sent, where a body is read or paused, what the entry explains |
| `PipelineProofs`: `PagesFollowHolds` | `PagesInv`: the buffer is a window of consecutive numbers, the cursor is of this engine or an earlier one, nothing was delivered beyond it, and what the client is owed is what matches unless a gap was declared |
| `PipelineProofs`: `PagesPartitionHolds` | `ListInv`: what was read is the first elements of the filtered list, as many as the pages asked for hold; the filter enumerates the admitted positions, in their order |
| `PipelineProofs`: `StreamAgreesHolds` | `StreamInv`: what a connection carries is of one engine and only its first event is a snapshot; after its last snapshot or clear the requests on their way have the last numbers in their turn, and the list shown misses nothing but them, unless the user wiped it |
| `WorkspaceProofs`: `CompleteHolds`, `EndpointServesHolds`, `OthersUntouchedHolds` | `EndpointInv`: what is listed is on disk with its assets and its steps, contents belong to who names them, and an enabled endpoint is served |
| `WorkspaceProofs`: `RenameAllOrNothingHolds` | `DataInv`: while nobody else wrote, the plan is that of the beginning, each source is as it was or rewritten, and what does not load is served as before |
| `WorkspaceProofs`: `TreeWholeHolds` | `TreeInv`: the tree is always one that `normalizeCollectionState` returns (no cycle, no dangling parent, every reference once and in its bucket); an undisturbed mutation has read the tree that is there, and an erasure its subtree; what is left of an import finds the collection it needs |
| `AdminTransactionProofs`: `AnswersAreTrue` | `TransactionInv`: at each stage what is on disk, what may still be written, which definitions are still those of before, and what each verdict rests on |
| `CatalogProofs`: `PublishedIsDiskHolds`, `LatestReadWinsHolds`, `StampsTellHolds` | `CatalogInv`: the numbers of reads and the stamps grow together, a scan begun after the last edit is right about all it has found, and only the mutation under way has made a scan read a file again |
| `CatalogProofs`: `NothingComesBackHolds` | `StoreInv`: nothing shown or held is newer than the engine, what was asked in this workspace is of it, and what carries a tag that a reread has kept is not newer than what the reread brings |
| `WorkspaceProofs`: `EnginesAndSessionHolds`, `IgnoredHolds` | `DesktopInv`: what shuts down runs, is out of the pool and is one command's; a workspace that is being launched is not in the pool and has one launch, with the port of the settings, unless it ever had two launches at once; the session has what the pool has, but for what a restart brought back since it was written. The exceptions are the two findings: `OneEngineEach` and `OpenTabsSaved` are false |
| `InterfaceProofs`: `DraftSafeHolds` | `DraftInv`: a draft keeps the revision it was opened on, and what was read later has told it |
| `InterfaceProofs`: `LateReadsLoseHolds` | `StatusInv`: which reads may still be applied, and that none of these is older than what is shown |
| `InterfaceProofs`: `MocksAsChosenHolds` | `CaptureInv`: each request of a batch is in one place and was chosen, what an item says it wrote is in its file and nothing else of the batch is, a file selects what the last item that selects in it wrote, and no file that is served of the batch is in error |
| `InterfaceProofs`: `DataPageTrueHolds` | `DataInv` of that module: the changes in flight are one group of uploads or one other change, and every difference between a read that was served, the list, the preview and the disk is explained by one of them |

The sequence, stream, list, pipeline, monitor, workspace, catalog and interface theorems are about the
specifications of their modules (`SpecH`, `ConnectionsSpec`, `ListSpec`, `PipelineSpec`, `Monitoring`'s
`Spec`, ...),
without fairness; the runs that compose several of them only choose between them.

### What is only model-checked, and why

* **Liveness**: `EveryOpenEnds`, `CallsAndRoutesSettle`, `StreamRecovers`, `EverySettles`,
  `StatusConverges`. Fairness is about `ENABLED`, which the prover does not reason about.
* **Recursion and order over data**: `HistoryWhole` (lines of files read both ways), `OrderKept` (what
  a rewrite leaves in its order, and at which index), `DropsWhereShown` (the rows of a tree). They speak
  of what recursive definitions compute, and the prover cannot instantiate an induction theorem. Where
  the definition is a function and a few laws of it are enough, these are proved from a smallest
  counterexample: a sum, `filter`, and, for `TreeWhole`, the walk down the collections.

`TreeWhole` is proved in three parts. The laws of `filter`, of joining and of the walk say that an order
in which each reference is in the bucket of its own parent is walked without meeting anything twice, and
that nothing is missed: the collections that are missed would be a set that holds the parent of each of
its members, which `resolveCollectionParentId` excludes. Then every operation is shown to write a tree
that a normalisation makes sound, whatever list of endpoints it read, and to keep siblings apart.
Last, each step keeps `TreeInv`; an edit by another program only ends what is promised of the mutation
and of the import that it falls in. The laws of `filter` are in `PipelineProofs` too, because the two
modules of theorems cannot extend each other's specifications.

## Disagreements found

* **The body of a template is lost during a delay** (`serving_template`, `TemplateBodyWhole`).
  `respondWithMock` waits (`src/app.js:782`) without pausing the request, which the monitor's capture has
  already set flowing; the template then waits for an end that has passed and the request hangs.
  `docs/en/RESPONSE.md:83` promises the body; the passthrough pauses for this very reason.
* **A truncated backend response stays open** (`serving_truncated`, `TruncationVisible`).
  `streamUpstreamPassthrough` (`src/proxy/proxy.js:409`) resolves when the backend breaks and neither
  ends nor destroys the response, where the comment at `:868` wants the truncation visible.
* **A dropped silent reread is never repeated** (`catalog_stale`, `CatalogConverges`). The Mocks page
  (`mocks-next.store.ts:377`) discards a reread overtaken by the user, or skips it during a mutation, and
  nothing asks for it again; `docs/progetto/PIANO-PILOTAGGIO-DA-AGENT.md:216` wants changes visible
  within five seconds. The stores of the status bar put the reread off instead.
* **Two opens of one workspace launch two engines** (`desktop_promises`, by `OneEngineEach`). The pool
  looks its map up before it awaits the launch and enters the engine after it
  (`electron/server-pool.js:25-31`), so an open that comes meanwhile launches again; the last entry replaces
  the one before, whose engine is never shut down. The comment at `:23` says "niente doppioni", no
  doubles. Shows and restarts of one workspace whose launches overlap all do it.
* **A restart drops a workspace from the saved session** (`desktop_promises`, by `OpenTabsSaved`).
  `workspace:update` takes the workspace out of the pool and puts it back
  (`electron/app-main.js:478-481`) without writing the session; when another command writes it in between,
  the workspace is missing from it until the next command, and a crash loses it. The comment at
  `:229-230` says that every mutation is saved, so that a crash too leaves an up-to-date picture of
  the tabs that were open.

`desktop_promises` checks `PoolOrSessionAsPromised`, that one of these two comments is kept at any
moment. Its trace ends where neither is: two engines of one workspace run, and the session names
only the other one. `OneEngineEach` and `OpenTabsSaved` say what each comment promises by itself.

## Observations

Things the models showed or had to decide that no document clearly forbids.

**Engine.** The comment of `handler-state.js:8-12` says that a hot reload does not clear the memory of
a handler; `server.js:139` clears that of every changed endpoint. A handler matched before a reload
enters its memory after it, and starts the new scenario with a call of the old one
(`MatchHandler`, `Install`, `EnterHandler`). A file in error that is published as `retained`
(`docs/en/ADMIN-API.md:289`) may be hidden: each registry is grafted by itself, so a middleware
kept there loses to a mock that took its key. The step shown with `times`
(`docs/progetto/DESIGN-SEQUENZE.md:103`) is not the one that answers next after `resetAfterMs`, because
showing does not look at the clock; without the reset it is, and `ShownAnswersNext` is proved. The
request of a client that is gone during the delay of the proxy is still sent to the backend.

**Monitor.** The answer of an own clear wipes the requests streamed meanwhile. A page read while a
batch is half written skips the entry that is cut. After a deletion the cursors of a reading point into
other files: going forward nothing is delivered twice, and that is all `PagesComplete` promises then.

**Files.** `PUT /mocks/:id` turns a step of a sequence into a type that
`docs/progetto/ANALISI-SEQUENCE-COME-VARIANTE.md:43` does not admit as one; an enabled endpoint stays
servable (`EndpointServes`). Moves of collections insert into the order that is stored, without
bringing it in line with the disk first. An assignment made while an endpoint file is broken drops its
place; a path removed by hand and created again gets its membership back. The three reads of
`GET /mocks` may mix two trees. A source that belongs to an endpoint file that cannot be read is
skipped by a rename; between the move and the reload a request answers 500; a crash leaves a rename
half done. An external edit between the read and the write of a mutation is overwritten.

**Mocks from traffic.** A batch that was interrupted may report as applied an item whose place was taken
by an item that was not undone. The anchor of an interval survives a restart of the engine; ticks made
while a batch runs are cleared with its answer.

**Interface.** A change between a store's first read and the first answer of `GET /info` is announced
by nothing; two clicks in flight that both fail put back the value of the first, which was never
confirmed. `StatusConverges` leaves out these two. In the Mocks page an action that is begun after the
interface was told of another workspace, but while the list of the old one is still shown, keeps that
list; when it fails it is put back, even over the new one, and `NothingForeign` leaves out this case
alone. A failed reorder, move or assignment also rolls back over a newer list of the same workspace;
two selections may be answered out of order; a list that fails in a silent reread is not asked for
again. In the Data page a file that is dropped during a rename clears its `busy`, a deletion confirmed
on an uploaded file may apply to the renamed one, and a lost answer may leave a preview under another
name; `DataPageTrue` leaves out changes that cross, reads that come late and calls that are lost. In the catalog an endpoint dropped under a
closed or empty root collection goes to the top of Unsorted.

## Not modelled, and why

`PROJECT.json` gives the reason for each part. Conversions (OpenAPI import, templates, header, cookie
and CORS handling, parsing of the environment) keep almost no state and are within reach of unit tests.
Matching a path with its pattern is an input of the models: what two patterns of one shape, a rest
parameter or a grafted route without its sort key do is not in them. Dialogs, translations, editors,
search and the keyboard show and convert; the runtime tab of the data page, and the order in which
Angular runs effects, are left out (an effect is modelled at once). A detail that the engine cannot
compose after a mutation is left out of `CatalogStore`. Windows, menus and packaging of the desktop
application are wiring of the platform. The startup and the shutdown of the engine are left out.

## Plan

1. The proofs of `OrderKept` and `DropsWhereShown`, from the laws of the walk that `TreeWhole` rests on.
2. Abstract specifications: a register for each name of `SharedState`; for `RuntimeReload`, "a served
   version is one the disk had after it was asked for".
3. Path matching and the order of the routes within the registries.
4. Startup and shutdown of the engine, with the streams and the requests that are still open.

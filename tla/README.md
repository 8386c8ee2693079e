# MooshieUI specifications

TLA+ models of MooshieUI. On the server (`src-tauri/src`): how a generation
request travels from the HTTP handler through the fair queue to a ComfyUI
worker and back, and who may read what it produced. In the browser (`src/lib`,
`src/App.svelte`): what a page makes of the events about its prompts, the
gallery against the directory on the server, the image viewer with its blobs,
the synchronisation of preferences, and the undo history of the canvas. TLC
checks the models on small instances, TLAPS proves the central invariants for
every instance.

## The system

MooshieUI is a Tauri desktop application that is also a multi-user web server.
The Rust backend owns a pool of ComfyUI processes, one per GPU, submits
workflows to them over HTTP and follows their progress over a WebSocket each.
All parts of the backend are tokio tasks that share one `AppState`.

| Part | State | Operations | Talks to |
|---|---|---|---|
| Prompt queue (`state.rs`, `PromptQueue`) | owners, worker map, ordered queue, held list, aliases, parked finishes, cancelled ids, each behind a lock of its own; `drain_notify` | insert, finish, cancel, bind and resolve aliases, park a finish, take the next held prompt, reorder, clear | every handler, both reactors, the watchdog |
| GPU workers (`comfyui/gpu_manager.rs`) | status, reservation, process of each worker; `worker_available` | reserve, submit, release, mark idle or failed, interrupt | submitters, cleanup reactor, watchdog, process lifecycle |
| Generation pipeline (`webserver.rs`) | the background task of each request; the cleanup reactor, drain reactor and stuck-worker watchdog | generate, preview, cancel, reorder, clear; react to completions | prompt queue, workers, event broadcast |
| Output ownership (`output_owners.rs`) | bounded map from file to prompt and account, dirty flag, saved file | record, assign an owner, look up, flush, restore | cleanup reactor, submitters, image proxy |
| ComfyUI WebSocket (`comfyui/websocket.rs`) | current prompt, backoff | forward events, reconnect, make up a missed completion | event broadcast |
| ComfyUI processes (`comfyui/process.rs`) | child processes, lifecycle lock per worker | start, wait for readiness, stop, restart | GPU workers |
| Assistant's model server (`prompt_assistant/server.rs`) | one child, start lock, in-flight count, idle clock | ensure running, chat, unload when idle | VRAM handoff with ComfyUI |
| Companion, OAuth, providers | pending requests, tokens | RPC over a child's stdio, token refresh | assistant |
| Accounts, secrets, preferences | files behind locks | login, sessions, roles | web server |
| Report proxy (`report-proxy`) | rate limit windows, dedup table | accept, limit, forward | GitHub |
| Progress of prompts (`App.svelte`, `progress.svelte.ts`, `ipc.ts`) | tracked prompts, the active one, preview, fetches and images per prompt, last activity | react to events, fetch images, complete, reconcile with the server's queue every five seconds | event stream, `get_queue`, temp image cache, gallery |
| Gallery store (`gallery.svelte.ts`) | images, session images, boards, metadata, promises of saves, of the scan and of the reading of metadata | add, save, insert a clip, scan, refresh, delete one or a session, assign boards | gallery commands of the server |
| Image viewer (`gallery.svelte.ts`) | lightbox and comparison: image, URL, owned blobs, tokens | open, step, swap, close; decode, revoke | gallery store, the browser's blobs |
| Preferences (`prefsSync.svelte.ts`, `serverPrefs.ts`, `syncTrigger.ts`) | debounce timer, push in flight, push wanted | load and apply, push, flush when hidden or closed | every store that persists, `_user/prefs` |
| Canvas history (`canvasHistory.svelte.ts`, `canvas.svelte.ts`, `CanvasStage.svelte`) | undo and redo stacks of partial entries, Konva nodes | record, undo, redo, roll back, clear | the canvas operations, pointer handlers |
| Other frontend stores and views | settings, styles, music, video timeline, components | | event stream, commands |
| Everything else | templates, metadata, gallery, NovelAI, music and video jobs, setup | pure functions, parsers, file and network I/O | |

What makes it hard:

- **A request has two ids.** The client is answered with a placeholder before
  anything is submitted; ComfyUI's own id is known only when its answer to
  `/prompt` arrives, and ComfyUI may have finished the prompt by then. Events,
  ownership, worker bookkeeping and outputs are all keyed by one id or the
  other, and are joined by an alias that is bound, resolved and dropped by
  different tasks.
- **Every step can be overtaken.** The queue's methods lock one map after the
  other, submissions await HTTP answers of up to two minutes, the reactor
  reads the id of an event in one step and acts on it in the next.
- **Work is passed on by signals.** A held prompt is submitted by another task
  than the one that waits for it, woken by a `Notify` with one stored permit.
- **A worker is released by whoever sees the end**: the submitter (a failed
  post), the cleanup reactor (completion, error), the submitter again (a
  completion that came too early), or the watchdog.
- **The page awaits in the middle of everything.** A handler of the frontend is
  atomic up to its `await`; then other handlers, timers and clicks run, and what
  it read before may be stale: a directory listing, the queue of the server, the
  selected image, the boards.
- **Events are lost.** The stream reconnects; what ended in the gap is found
  only by comparing the tracked prompts with the queue.
- **Blobs are freed by hand**, by whoever is last to show them.
- **The ownership map survives the process**, is saved in the background, and
  has to be right about its age and its owners after a crash at any time.

What makes each part correct:

- Queue and pipeline: nobody sees another account's prompt; a request is in one
  hand and is posted once; a waiting task is told; accepted prompts leave the
  queue; the drain reactor serves the held list.
- Workers: a reservation ends; one prompt per reservation.
- Output ownership: only the sender reads; a bounded map that evicts the oldest;
  what is clean is saved; lifetimes survive restarts.
- Progress: every tracked prompt ends, with all of its images, once; a prompt is
  given up only when the server has forgotten it.
- Gallery: a scan loses nothing that is not saved or was saved meanwhile, shows
  nothing twice, and brings nothing back that was deleted; boards are kept;
  nobody waits for ever.
- Viewer: what is shown is what was selected, its URL works, no blob leaks.
- Preferences: what an open page shows becomes what the server has; a clean
  close loses nothing.
- Canvas history: partial entries behave as a history of whole documents.
- WebSocket: every completion is delivered or made up.
- Processes: a stopped or disabled worker gets no prompts, and no child is
  orphaned.
- Model server: one child at most, never killed under a request.

## Modules

| Module | Models |
|---|---|
| `SeqRetain` | `Vec::retain`, and `Array.filter` of the tracked prompts, as a recursive function one can prove about |
| `PromptQueue` | `PromptQueue` as a data type: a record `pq` with a field per map, an operator per method |
| `GpuManager` | the worker records as a data type: `gpu.status`, `gpu.reserved` |
| `GenerationServer` | the state machine over both: handlers, submissions, ComfyUI, cleanup reactor, drain reactor, watchdog |
| `OwnerMap` | `Inner` of `output_owners.rs` as a data type: insertion, eviction, compaction |
| `OutputOwners` | the state machine over it: recording, binding, saving, crash and restore |
| `PromptOutputs` | the browser's prompts: tracking, fetching, completing, reconciling, with the server as far as the browser can tell |
| `GalleryStore` | the gallery store against the gallery directory |
| `ImageViewer` | the lightbox and the comparison, and the blobs behind them |
| `PrefsSync` | pushes, flushes and the load of a user's preferences, over several launches of the page |
| `LinearHistory` | the abstract undo history: a list of whole documents |
| `CanvasHistory` | the canvas history with its partial entries, which implements it |
| `MCGenerationServer`, `MCOutputOwners`, `MCPromptOutputs`, `MCGalleryStore`, `MCImageViewer`, `MCPrefsSync`, `MCCanvasHistory` | the small instances for TLC |
| `SeqRetainProofs`, `GenerationServerProofs`, `OutputOwnersProofs`, `PromptOutputsProofs`, `GalleryStoreProofs`, `ImageViewerProofs`, `PrefsSyncProofs`, `CanvasHistoryProofs` | the theorems |

`GenerationServer` composes `PromptQueue` and `GpuManager`, `OutputOwners`
composes `OwnerMap` with the binding of prompts; `PromptOutputs` sees
`GenerationServer` through `srv` and the event channel only, and hands its
images to what `GalleryStore` starts from (`AddImages`). `CanvasHistory`
instantiates `LinearHistory` as the specification it refines.

### GenerationServer

A request is named by its placeholder, an element of `Prompts`. The id ComfyUI
answers with is the pair of the request and the number of its post, so a model
of a repeated post has a second id, and `JobOf` says what no program state
does: which request an id was really issued for. `UserOf` gives the sender.

| Variable | Code |
|---|---|
| `pq` | `AppState.prompt_queue` |
| `gpu` | `AppState.gpu_manager.workers` |
| `comfy` | the queue of each ComfyUI process, the first of which it runs (external) |
| `posts` | how often each request was accepted (history) |
| `events` | the broadcast channel as the cleanup reactor reads it |
| `sub` | the program counter of each background task and of the drain reactor, with what it has in its local variables |
| `result` | `HeldPrompt.result`, notified by `submitted` |
| `reactor` | the cleanup reactor between two calls |
| `drainPermit` | the stored permit of `drain_notify` |
| `aliasGC` | the spawned tasks that sleep five seconds and call `cleanup_alias` |
| `overtaken` | the requests whose end was received before their answer was recorded, as long as no parked finish made up for it (history) |

The steps of a request: `CheckHold` (the `needs_hold` line), `InsertAndSpawn`,
then in the background task `HoldPrompt` or `SubmitDirectly`. A submission
(`Submit(s)`, the same for the task and for the drain reactor) selects an idle
worker and reserves it, or takes a running one, or waits for one; posts; and
then binds the alias and records the worker, or finds that the completion was
parked and gives the worker back. A preview request posts first and inserts the
real id afterwards. The cleanup reactor takes an event in up to three steps:
resolve, finish, then park or release; each can be overtaken by a submitter.

Decisions worth knowing:

- Each call of a `PromptQueue` method is one step. The methods lock several
  maps in turn; their inner interleavings are not in the model.
- `queue` is a set: the fair position of a prompt in it decides what is
  displayed, not what is submitted (the held list is a sequence, in order of
  arrival). `music_prompts` and `inserted_at` are not in the model.
- Finding an available worker, reserving it and marking it as running are one
  step: between them nobody else can take the worker. Who waits for an available
  worker and loses it to another submitter goes back to the selection, as the
  loop of `submit_prompt_preferring` does, and may then take a running one.
- Nothing orders the answer to a post and the end of the execution. A completion
  that is received while the answer is unrecorded makes the request `overtaken`;
  a parked finish that the binding finds ends that. What stays overtaken once
  the answer is recorded is `Missed`, and a worker recorded for it `Forgotten`:
  the code has no step left that would take the one out or give the other back
  (but for the watchdog, when no record is left), and the properties say so.
- ComfyUI sends `executing` with a null node after every execution, also after
  an `execution_error`. The channel loses nothing; disconnects, lag and restarts
  of workers are not in this module.
- Failed posts, lost answers and failed executions share the bound `MaxFaults`.
  A lost answer is one ComfyUI acted upon.
- A parked finish expires after ten minutes, longer than a post may take, so
  `ReactorPark` expires only ids that no submitter has in its hands. The
  watchdog's ten minutes are modelled the same way: no submitter holds the
  reservation any more.

### OutputOwners

`ReadOwner`, `Record`, `MarkRecorded` are `record_output_owners` with the
locks it takes; `BindOwner`, `Assign`, `MarkAssigned` are `bind_prompt_alias`;
`SwapDirty`, `Snapshot`, then `Rename`, or `Truncate` and `WriteInPlace`, or
`SaveFails` are `flush`; `Restart` and `RestoreNext` are a crash and
`enable_persistence` of the next process. `MountedFile` says which of the two
ways of `write_private_file_atomic` the file system allows. Time is a number
of ticks for both clocks; jumps of the wall clock, and files that are corrupt
otherwise than by truncation, are left out (both start the map empty).
`OwnerMap` states the eviction loop by its result: the least number of pops
after which the loop's conditions stop it.

### PromptOutputs

`srv`, `unshielded`, `cache` and `chan` are the server as the browser sees it:
where a prompt is (held, running, ended, forgotten), whether `get_queue` still
shields it, the outputs kept for recovery, and the events on the stream.
`link` has the connections: whether the stream is open, whether the sockets to
ComfyUI are, the news of these on its way (`comfyui:connection`, sent once each
time), and what the page made of it, `connection.connected`, without which the
reconciler does not run.
`pending`, `active`, `preview` are fields of `ProgressStore`; `activity` and
`aged` stand for `promptLastActivity` and `enqueuedAt`, as far as the 30 second
guard can tell; `fetching`, `registered` and `images` are the output fetches of
`App.svelte`; `closing` and `tick` hold where a handler of `executing` or a
callback of the reconciling interval awaits, with what it has read.

Each listener is one action up to its first await (`OnQueued`, `OnExecuting`,
`OnPreview`, `OnOutput`, `OnDone`, `OnError`, `OnCleared`, `OnConnection`); what
follows the awaits are `OutputFetched`, `PreviewFetched`, `CloseAfterFetches`,
`CloseAfterRecovery` and the steps of a tick. A recovery may bring all, some or
none of the images. `Disconnect` loses what is on the stream, and so does `Lag`
while the stream stays open: the listener was too slow for the broadcast, or the
prompt has lost its owner. `Reconnect` replays the positions and, if the page
takes ComfyUI for connected, resets the guard. A look at the queue is answered
within half a minute (`QueueKnown`) or, as a fault, later (`QueueLate`).
`shown`, `added`, `gallery`, `lost` and `missed` are history.

### GalleryStore

An image object is its file's name and how it was made: from pixels, from the
event of a clip, or from a listing. The order of the lists is left out, an image
whose listing cannot be parsed as well. `saves` is where `persistImages` has
each image, `scan` is `_loadFromDisk` (one at a time, `_diskLoadPromise`),
`reading` is `_metadataHydrationPromise`, `removal` and `sweep` are
`deleteImage` and `deleteAllSessionImages` between their awaits; `sweep.failed`
has the images a sweep took off the lists although their deletion failed
(history). A save falls back from the temporary file to the pixels within its
one step. Whether a file has metadata is a property of the file (`Tagged`). The
model starts when the page has loaded its directory. Closing the viewer of what
is deleted belongs to `ImageViewer`.

### ImageViewer

A call that may wait takes a slot of `calls` and runs up to its await; the
answer is another action, and a call that a later one of the same viewer has
made stale (`_lightboxToken`, `_compareToken`) only frees what it brought.
A video is selected before its URL is awaited (`OpenVideo`, `VideoShown`), and
an image of the session waits for its save (`Upgrade`, `NeverSaved`).
`decoded` is the blobs made from JXL files, `alive` the session images whose
blob URL has not been revoked. `swapped` records that `swapCompare` ran while a
side was loading. Every image has a URL or a file: `addImages` is given entries
with a `url`, and what is saved or scanned has a file name and `fullImageUrl`,
so the end of `openLightbox` that is for neither is not reached.

### PrefsSync

A store's preferences are the number of their last change. `local` is what the
browser keeps, `server` what is in the user's file, `net` the requests in the
order they were sent; the pushes and fetches of earlier launches may still be
there. `load` is `loadAndApply`, whose `applyAll` awaits twice, so that the
stores after the second await keep what they had a little longer
(`LateStores`). `Quiet` stores persist without triggering a sync.

### CanvasHistory

A document is its list of layers, their pixels and its settings. A gesture
records the pixels of one layer when the pointer goes down (`BeginStroke`). The
brush, the eraser and the move tool are `live`: they change the layer from then
on, and what they did stays when the pointer goes up or leaves the stage. A
rectangle, an ellipse or a lasso is a `shape`: it is drawn when the pointer goes
up (`DrawShape`), or dropped. Nothing keeps the keys of the toolbar from working
in the middle of it: every other operation is enabled then, ends the gesture's
claim on its entry (`recorded`), and cuts a live one off when it replaces the
nodes of its layer. What an interrupted gesture paints all the same goes to
`strayed`: no entry was recorded for it.

`AddLayer`, `DuplicateLayer`, `RemoveLayer`, `RepaintLayer`, `EditSettings` and
`ResizeDocument` are the kinds of operations that call `snapshotDocument`;
`ResizeFails` leaves any half result and then restores what its entry saved. The
variables `past` and `future` are history: the whole documents the entries stand
for. `LinearHistory` is the same with whole documents on its stacks, and a
gesture that nothing has interrupted mapped to `open`.

## Runs

Passing runs:

| Run | Instance | Shows |
|---|---|---|
| `generation_server` | 3 requests (two of alice, bob's a preview), 2 workers, 2 posts each, 1 fault; 6.0M states | `OwnershipIsolation`, `NoOrphanWaiter`, `PostedAtMostOnce`, `OneHolder`, `AcceptedEnds`, `ReservationIsWatched`, `SignalKept` in every interleaving, completions before answers included |
| `generation_server_live` | 3 requests of alice, one a preview, 1 worker, 1 post each, 1 fault; 2.0M states | `DrainComesBack`, `AcceptedLeavesQueue`, `ReservationEnds`, `HeldHeadIsDrained` |
| `owner_map` | 3 files, capacity 2, 6 records, 3 ticks | `Bounded`, `OrderSound`, `EvictsOldest` |
| `output_owners` | 2 files, 2 accounts, 2 flushers, 3 records, 1 failed save, 1 restart; 3.2M states | `LifetimeKept`, `SavedWhenClean`, `ReadIsolation` |
| `output_owners_live` | 1 file written in place, 1 flusher, 1 failed save, 1 restart | `EventuallySaved` |
| `canvas_history` | 2 painted layers and a control layer, 2 contents, 2 settings, limit 2; 363,000 states | `UndoReturns`, `CopiesAccounted`, `RoomToRedo`, and that it implements `LinearHistory` |
| `prefs_sync` | a store of each kind, 4 versions, 2 launches, aborted requests, 1 fault | `PushInFlight`, `CleanCloseKeeps`, `Converges` |
| `prompt_outputs` | a prompt with a picture and its refinement, 1 disconnect or gap, 1 fault; 0.9M states | `OncePerTracking`, `AllOutputsShown`, `FramesAreLive`, `EveryPromptEnds` |
| `prompts_given_up` | 2 prompts of which one waits in the queue, 1 disconnect or gap; 4.7M states | `GivenUpWhenGone` |
| `image_viewer` | an image of the session, a JXL file and a video, 5 blobs, 3 calls of which 2 wait at once; 1.8M states | `DecodedIsOnShow`, `LightboxShowsSelected`, `LoadingIsUnderWay`, `ListedIsAlive` |
| `gallery_store` | a generated image and a clip, 2 scans, a deletion or a sweep, a move, a fault; 2.1M states | `DeletedIsGone`, `NeverStuck`, `NothingLost`, `StaysDeleted`, `ShownOnce`, `BoardsKept` |

Three requests are the least with which one is submitted, one held and one of
another user on the way. In the liveness run all three are of one user: the
preview runs while both others are held, so that one waits at the head while the
drain reactor serves the other, and signals merge in its one permit. Two workers
are the least with which a choice exists, and one is enough for sharing and for
starvation. Two posts let a second post happen if anything allowed it. A
capacity of two with three files has evictions, and six records re-record a file
beyond the length at which the order is compacted. Two flushers are what the
process has.

The bounds of the frontend models: `MaxEvents` keeps the server from running
ahead of the page by more than six events, twice what one prompt sends; one
disconnect or gap and one fault each suffice to lose any event or image, and the
news that ComfyUI is back. `Waiting` is the prompts whose turn does not come, so
that one is in the queue when another completes. Five blobs are the most two
viewers and two calls can hold. Two scans let one begin on what the other left;
one deletion (of an object, or of the session) meets every stage of a save and
of a scan. Four versions and two launches let a change be made before, during
and after a push, and be fetched again. Three calls of the viewer are the least
of which one is answered after two later ones. A canvas limit of two drops an
entry with undone ones above it.

Deadlock is checked for `canvas_history` only: elsewhere requests, calls or
launches are bounded, and a program that has answered them all rightly waits.
`NeverStuck` says for the gallery what a deadlock check could not: somebody who
waits is always waiting for something that can still happen. It names the steps
that can (`SavingGoesOn`, `ScanGoesOn`, `DeletionGoesOn`, `SweepingGoesOn`)
instead of using `ENABLED`, which could not be proved about; TLC found the two
forms equivalent in all 2.1M states of the instance of `gallery_store`.

Types are not checked by runs: what `TypeOK` says is proved (`TypeCorrect`) for
the modules with theorems.

Every property is violated when one definition is replaced by a plausible fault
(`mutants` in `PROJECT.json`; the faulty operators stand before the ones they
replace, marked as faults to test with).

What the code does otherwise than its comments say. `held_is_not_lost` is a run
of the project: `get_queue` stops listing a prompt that has been held for two
minutes, and the reconciler tells the user that it is lost. The following have
configurations of their own beside the modules (the property named in each is
violated); they document the races, and TLC finds each within a minute:

| Configuration | What happens |
|---|---|
| `OnePromptPerUser` | two requests checked together are both submitted |
| `HoldEnds` | a prompt is pushed to the held list after the signal it should have been drained by, and waits forever |
| `BoundIdWasFinished` | a completion that was resolved before the binding and parked after it is dropped |
| `WatchdogReleases` | a worker recorded after its prompt's completion blinds the watchdog |
| `ReservationIsExclusive` | a shared worker is released by the first of two completions and reserved again |
| `UntrackedIsVisible` | untracked prompts are hidden, the comment says visible |
| `BoundOutputsAreOwned` | an output recorded across the binding keeps no owner |
| `StrokeCanBeUndone` | undo while dragging takes the entry of the stroke, which then cannot be undone |
| `FlushKeepsChanges` | a change made during a push is not pushed when the page is closed, and the next launch overwrites it |
| `AllStoresConverge` | changes of boards are saved without triggering a sync |
| `CompareShowsItsImages` | a side that loads while the sides are swapped arrives on the wrong one |
| `NothingComesBack` | an image that was on show without a file when a scan began, then was saved, listed and deleted, comes back when the scan ends |
| `ConnectionNewsIsLost` | the news that a worker's socket is open again falls into a gap of the stream; the page takes ComfyUI for disconnected, the reconciler rests, and a prompt whose last event was in the gap, too, never ends |

Others were met while modelling and are left out of the properties, which say
so:

- Gallery: a sweep writes back an old copy of the boards (`BoardsKept`), and
  takes images off the lists whose deletion failed (`sweep.failed`); a clip that
  is announced after a scan has shown its file is on show twice until the next
  scan (`ShownOnce` is about the end of a scan); a board given to an image
  before it is saved is under another key afterwards; a clip or a scan that
  arrives while metadata is read stays without metadata (a second caller gets
  the promise of the first); a save whose answer is lost leaves a file the page
  does not know (`AnswerLost`).
- Prompts: when the stream has been opened again the page puts the times of its
  prompts back, and the next callback gives up any prompt its look at the queue
  does not list, also one that was added after the look; an answer of
  `get_queue` that takes half a minute has the same effect (`GivenUpWhenGone` is
  about the guard `aged`, the others are recorded in `lost`).
- Viewer: while the URL of a video is awaited the lightbox names the video and
  shows what it showed before, without a spinner (`LightboxShowsSelected`).
- Canvas: what a gesture paints after undo, redo or another operation has
  interrupted it has no entry (`strayed`), so the pixels of that layer are not
  brought back (`UndoReturns`).

### Fairness

Every task that can run is polled by the runtime, so each background task, the
drain reactor, the cleanup reactor and the delayed alias cleanup are weakly
fair; timeouts are part of the step they end, so a submission never waits
forever. ComfyUI is assumed to end what it starts. Clients need not send
anything (`Request` is not fair). Within a submission fairness does not choose
between an answer and a failure: failures are bounded by `MaxFaults`.

The tasks are not fair one by one but together (`WF_vars(Serve)`): the server
does not rest while one of its tasks can go on. The requests take finitely many
steps in all of them, so each gets its turn, and the assumption is weaker than
fairness to each.

`AcceptedLeavesQueue` and `ReservationEnds` except the requests whose completion
was missed (`Missed`, `Forgotten`). Without the exception they are false of the
code: `BoundIdWasFinished` and `WatchdogReleases` show both races.

In the browser what goes on by itself is fair: requests are answered, the
stream is opened again, timers and intervals fire, callbacks run. What users and
prompts do is not, nor are failures and closed pages. `PromptOutputs` assumes
in addition that half a minute without an event passes once an event-less
prompt has nothing on the stream (`Age`), which the interval of five seconds
outlasts, that ComfyUI takes what it has, except the prompts in `Waiting`, and
that a worker's socket is opened again (`WorkerReturns`, the retries of
`websocket.rs`). That the page learns of it is not assumed: `EveryPromptEnds`
has `<>[]link.connected` as its hypothesis, which a lost piece of news makes
false, and `EndsInAnyCase` (`ConnectionNewsIsLost.cfg`) shows that it is needed.

For output ownership the reactor, the submitters and the saver's timer are
fair; the shutdown flush, restarts and failures are not. The fairness of
`Flush` lets any failed attempt be repeated, as the five-second timer does.

## Proofs

| Theorem | Argument |
|---|---|
| `GenerationServerProofs!TypeCorrect` | `TypeOK` is inductive: with the shapes it says what each step of a submission has in its hands |
| `GenerationServerProofs!OwnershipIsolated` | strengthened by `RealsSound` (the real id a submitter holds was issued for its prompt) and `QueueSound` (every alias, owner and queue entry belongs to the request its id was issued for): an owner entry alone says nothing of the alias it is reached by |
| `GenerationServerProofs!RequestsInOneHand` | `OneHolder` with `TypeOK` is inductive; every step is shown to be one of a few moves of one submitter |
| `GenerationServerProofs!NeverPostedTwice` | from `OneHolder`: what a hand posts has not been posted |
| `GenerationServerProofs!NoWaiterIsOrphaned` | from `OneHolder` and a case analysis of who drops a held prompt |
| `GenerationServerProofs!SignalsAreKept` | an action property, from `OneHolder` and `DrainSignals`: when the drain reactor has its answer in hand, what it posted, the event of its end, or the reaction to it is still ahead. Each step either leaves the bearer of the signal alone, hands it on, or is the reactor's last, which stores the permit. A permit merged with another is no loss: serving one prompt ends in the next signal |
| `GenerationServerProofs!AcceptedComesOut` | `TrackInv`: an alias belongs to an accepted request and stays until its end has been resolved (`AliasSound`); the answer in a submitter's hands is up to date, its execution still running or announced, unless the request is overtaken (`HandsKept`); what is in the queue, and what a worker is recorded for, has its end coming, or is overtaken (`Ending`, `Recorded`); what has ended is out of the queue (`Dropped`). So the queue entry, the alias and the event refer to each other at every point between the calls, whichever of answer and completion comes first |
| `GenerationServerProofs!ReservationsAreWatched` | from `TrackInv`, in which a worker is recorded only for a prompt whose end is on its way (`Recorded`), and `Watched`: the submitter that reserved a worker hands it to the record, the record to the reactor, the reactor releases it, or the record is of an overtaken request. A worker shared by several prompts is released by the first; the proof shows that nobody reserves it without watching it |
| `OutputOwnersProofs!TypeCorrect` | inductive, with lemmas on what `InsertRecord` and `AssignOwner` return |
| `OutputOwnersProofs!ReadsIsolated`, `LifetimesKept` | `OwnersSound`: every place an owner passes through (the queue, the recorder, the map, a flusher's copy, the file, what is being loaded) names the sender of its prompt or nobody; the map alone is not inductive, since a restart fills it from the file |
| `OutputOwnersProofs!CleanIsSaved` | `SaveSound`: one saver at a time, what is being loaded is in the file, and with nothing pending the copy on its way to the file, or else the file, is complete. It rests on the order in `flush`: the flag is cleared before the copy is taken |
| `OutputOwnersProofs!OrderIsSound` | the order is strictly increasing and each record has its pair in it; a re-recording appends a younger pair and leaves the old one to be skipped, a compaction leaves exactly one pair per record |
| `OutputOwnersProofs!StaysBounded` | each record has its pair in the order, so the eviction loop cannot run dry before the map is within its capacity; after a compaction the order maps one to one into the known files |
| `OutputOwnersProofs!OldestEvicted` | records expire in the order they were made and what a restart restores goes in oldest first, so the loop pops a record that has not expired only when the map holds one too many, and then stops |
| `CanvasHistoryProofs!UndoAlwaysReturns` | up to the pixels of the layers in `strayed`, each entry of a stack, restored over the document that the entry above it brings back (the topmost: over the present one), gives the document it stands for; the steps that record, undo and redo shift this relation by one place, whether a gesture is under way or not; a gesture that was not interrupted still has its entry on top, and that entry saves its layer |
| `CanvasHistoryProofs!NoCopyLeaks` | `CopiesIn` counts the pairs of an entry and a layer it saves; appending an entry, taking the newest away and letting the oldest fall off change it by that entry's own number (a bijection shifts the rest), and `StackInv` adds up what each step does; with the keys used at any time |
| `CanvasHistoryProofs!RedoHasRoom`, `TypeCorrect` | `StackInv`, too: both stacks together never hold more than the limit; the listed layers are the ones that have pixels |
| `CanvasHistoryProofs!HistoryIsLinear` | refinement by step mapping: with the documents of `past` and `future` for the stacks and a gesture in progress for `open`, each step is one of `LinearHistory` or a stutter, as long as `strayed` is empty |
| `GalleryStoreProofs!DeletedHasNoFile` | what no later step takes back: a file that was written is not written again, an image that is settled has no save under way, and an object on show has its file or a save that was asked for; every deletion waits for `Settled` before it removes |
| `GalleryStoreProofs!ScanLosesNothing`, `BoardsStay` | from the same invariant: what was saved when a scan began is in its listing or has no file, and a listed file whose save is under way is waited for |
| `GalleryStoreProofs!DeletedStays`, `OneObjectEach` | in addition (`ShowInv`), while a scan runs: the objects made by scans were on show when it began, and a saved object of a listed file replaces its listing |
| `GalleryStoreProofs!NobodyIsStuck` | of the saves that are under way the earliest of its batch can go on (`SomeSaveGoesOn`, from the order of the batches), and who waits for none of them has an answer due; the waiting is well founded: saves wait for nobody but earlier saves, the reading of metadata for nobody, a scan for these two, a deletion or a sweep for saves |
| `ImageViewerProofs!BlobsAreOnShow` | each decoded blob has one owner: the lightbox, the comparison, or a call that was answered one of its two images. The comparison owns what its sides show; the latest call for a side remembers what that side shows, so that it releases nothing else |
| `ImageViewerProofs!SelectedIsShown`, `SpinnerHasItsCall` | a call of the lightbox no later one has made stale is for the image selected, a call of the comparison no later one has made stale is the only one, and `loading` says that it exists |
| `ImageViewerProofs!ListedStaysAlive` | inductive as it stands, with the types |
| `PrefsSyncProofs!SyncingIsAPush`, `TypeCorrect` | `FlightInv`: exactly one of the requests on their way is a push the present page counts with `_syncing`, or none; requests of earlier launches are not counted, and none names a later launch |
| `PrefsSyncProofs!CleanCloseSaves` | `CleanInv`, for each store that syncs: what the browser keeps is on the server, or in the last push on its way, or a timer or a noted push will send it (`Saved`); the fetch of a launch stands behind the pushes of the launch before (`AskedAfter`), so that what it brings is no older than what was kept when the page opened |
| `PromptOutputsProofs!TypeCorrect` | with `Busy`: a callback of the interval that is in its loop has a prompt at hand |
| `PromptOutputsProofs!FramesOfTrackedPrompts` | step by step: who sets `preview` has looked at `pendingPrompts` in the same step |
| `PromptOutputsProofs!ShownOnce` | `OnceInv` counts: each time a prompt was added stands for its images having been put on show, or for the entry that is still tracked, or for the one handler or callback that took it and waits for what it recovers. Who waits for fetches has not taken the entry, and looks for it again afterwards |
| `PromptOutputsProofs!GivenUpIsGone` | `LeftInv`: every prompt that is tracked, or whose position is on the stream, has been accepted by the server, and what a callback found quiet, and its look at the queue did not list, the server has forgotten or shields no more. The prompts were tracked when it looked, so a prompt accepted since is not among them |
| `PromptOutputsProofs!ShownInFull` | `SparedInv`, for each prompt of which nothing was lost or late: the browser tracks it by the time an image or the end of it is taken from the stream (`TrackedThen`), and its end comes last; until then every image is fetched, being fetched or on the stream, and nothing was shown; afterwards the page has all of them or none (`ImagesKept`). The callbacks of the interval give it up only when no more is heard of it, and who waits for fetches waits for all that are left (`Waits`) |

They hold for any sets of requests, users, workers, files, accounts, layers,
images, clips, prompts, outputs and stores, any bounds and any capacity, under
the named assumptions of the modules: ids, placeholders and owners are distinct,
bounds are naturals, the capacity is not zero, the prompts of a page and the
callbacks of its interval are finitely many (they are sent and read as lists),
a change can be made at all (`MaxChanges` is positive), the images that wait
for each other in a batch are in an order with a first one (`persistImages`
loops over a list), `None` is nothing else.

`AcceptedComesOut` and `ReservationsAreWatched` make no assumption on the order of
answers and completions. Their exceptions are the requests that were `Missed`,
and these cannot be dropped, since `BoundIdWasFinished` and `WatchdogReleases`
show what is left behind: a queue entry, or a reservation, that nobody will end.
The theorems say that these races are the only way to get there: completions
that are parked in time, failed posts, lost answers, failed executions, shared
workers and the delayed removal of aliases never do. They are the safety half of
`AcceptedLeavesQueue` and `ReservationEnds`, for any number of requests, workers,
posts and failures; that what is on its way arrives is fairness, and TLC's.

`CleanCloseSaves` has one hypothesis more: `Resaving` is not empty, that is,
some store saves itself when a snapshot is applied to it. The code has one:
`applyServerPrefs` of `accessibility.svelte.ts` ends in `saveSettings`, which
calls `triggerSync`. Without it the theorem is false, as TLC shows with
`Resaving = {}` in `PrefsSync.cfg`: a change made while a page loads pushes the
page's old values of the other stores over the server's newer ones; the snapshot
read before brings the newer ones to the page, and nothing sends them again. What
the server ends up with hangs on one store that happens to save what it is given.

`SeqRetainProofs` proves what `Without` keeps by taking a least
counterexample of the length, since induction theorems with an operator
parameter cannot be used.

Only model-checked: the liveness properties `DrainComesBack`,
`AcceptedLeavesQueue`, `ReservationEnds`, `HeldHeadIsDrained`,
`EventuallySaved`, `Converges` and `EveryPromptEnds` (fairness and `ENABLED`
are beyond the provers). Every other property of a passing run is a theorem, and
for most of these the state that must not be lost on the way is in one:
`SignalKept` for the held list, `AcceptedEnds` and `ReservationIsWatched` for
the queue and the workers, `SavedWhenClean` for the saved file, `CleanCloseKeeps`
for the preferences, `AllOutputsShown` for the prompts of a page.

## Not modelled

See `components` in `PROJECT.json` for every part and its reason. The largest
share of the repository by lines is locales, views and stores of settings:
texts, markup and assignments that hold no protocol. Parsers, templates, media
jobs, installers and the desktop shell are data and I/O. Control that is left
out, and why:

- The queue operations of clients (reorder, cancel, clear) act on
  `GenerationServer`'s state in several calls each, over its six million
  states; they would need a coarser model of the submissions first.
- Start, stop and readiness of worker processes, and the WebSocket to each: the
  pipeline has every event delivered and every worker up.
- The fair position of a prompt decides what is displayed, not what runs.
- The assistant's model server and companion: a child process, an idle clock
  and a map of pending requests, apart from everything modelled here.
- The flag `connection.connected` is set by the startup and by the settings as
  well; the model has the page already started, and the events only.
- Of the modelled stores: sorting into boards by metadata, `rescanMetadata`,
  the videos of a prompt, regional chains and grids of `App.svelte`, and
  everything that only formats.

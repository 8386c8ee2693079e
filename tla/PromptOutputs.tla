---------------------------- MODULE PromptOutputs ----------------------------
(***************************************************************************)
(* What one browser makes of its prompts: it tracks the ones it has sent   *)
(* or is told of, collects their output images as the server announces     *)
(* them, and completes each from its last event, or, when events were      *)
(* lost, from a look at the server's queue.  Handlers are atomic up to     *)
(* their awaits.                                                           *)
(*                                                                         *)
(* The server is modelled as far as the browser can tell: where a prompt   *)
(* is, the events about it and the outputs it keeps for recovery.          *)
(***************************************************************************)
EXTENDS Integers, Sequences, FiniteSets, SequencesExt, SeqRetain

CONSTANTS
  Prompts,
  OutputsOf,      \* the output images of each prompt
  Waiting,        \* bound: prompts whose turn does not come
  Ticks,          \* callbacks of the reconciling interval under way at once
  None,
  MaxEvents,      \* bound: events on their way before the server acts again
  MaxDrops,       \* bound: lost connections, and gaps in the event stream
  MaxFaults       \* bound: failed executions, failed or slow requests, and
                  \* failures of a worker's socket

ASSUME OutputsAssumption ==
  /\ DOMAIN OutputsOf = Prompts
  /\ IsFiniteSet(Prompts) /\ IsFiniteSet(Ticks)
  /\ None \notin Prompts /\ Waiting \subseteq Prompts
  /\ MaxEvents \in Nat /\ MaxDrops \in Nat /\ MaxFaults \in Nat

VARIABLES
  srv,         \* where the server has each prompt
  unshielded,  \* prompts that were held for longer than get_queue shields them
  answered,    \* the answer to the generate request
  cache,       \* output_image_cache
  link,        \* the event stream is open, the sockets to ComfyUI are up, the
               \* news of them on its way, and what the page makes of it:
               \* connection.connected
  chan,        \* the events on their way
  pending,     \* pendingPrompts
  active,      \* activePromptId
  preview,     \* the prompt that previewImage shows a frame of
  previewing,  \* the prompts of which a frame is being fetched
  activity,    \* promptLastActivity, as far as its age matters
  aged,        \* the prompts with an enqueuedAt of 30 seconds ago
  fetching,    \* the output images being fetched
  registered,  \* pendingOutputFetches
  images,      \* pendingOutputImages
  closing,     \* the handler of the last event of each prompt
  tick,        \* the callbacks of the interval
  shown,       \* how often finalizeOutputImages put images on show
  gallery,     \* the images it last put on show
  added,       \* how often a prompt was added to pendingPrompts
  lost,        \* the prompts given up, and what their guard said
  missed,      \* the prompts that were interrupted, or may have lost an
               \* event or an image, or were judged by an old look at the queue
  drops, faults

server == <<srv, unshielded, answered, cache>>
stream == <<link, chan>>
view == <<active, preview, previewing>>
collected == <<fetching, registered, images>>
outcome == <<shown, gallery, lost>>
bounds == <<drops, faults>>
vars == <<srv, unshielded, answered, cache, link, chan, pending, active, preview,
          previewing, activity, aged, fetching, registered, images, closing, tick,
          shown, gallery, added, lost, missed, drops, faults>>

Outputs == UNION {OutputsOf[p] : p \in Prompts}

Event ==
  [kind : {"queued", "executing", "preview", "done", "error"}, prompt : Prompts]
    \cup [kind : {"output"}, prompt : Prompts, output : Outputs]
    \cup [kind : {"cleared"}]

About(e, p) == e.kind # "cleared" /\ e.prompt = p

(* Why a callback gives a prompt up: no event for half a minute before it  *)
(* looked at the queue, the times put back by a reconnection, or an answer *)
(* so late that the half minute has passed since.                          *)
Guards == {"aged", "reset", "late"}

Links == [open : BOOLEAN, comfy : BOOLEAN, news : {"none", "up", "down"}, connected : BOOLEAN]

Handler == [pc : {"idle", "await", "recover"}, waits : SUBSET Outputs]

Reconciler ==
  [pc : {"idle", "query", "answered", "loop", "await", "recover"},
   snap : SUBSET Prompts, todo : Seq(Prompts), old : SUBSET Prompts,
   silent : SUBSET Prompts, late : BOOLEAN, waits : SUBSET Outputs, guard : Guards]

TypeOK ==
  /\ srv \in [Prompts -> {"none", "held", "running", "ended", "gone"}]
  /\ unshielded \subseteq Prompts
  /\ answered \in [Prompts -> {"none", "sent", "tracked"}]
  /\ cache \in [Prompts -> SUBSET Outputs]
  /\ link \in Links /\ chan \in Seq(Event)
  /\ pending \in Seq(Prompts) /\ IsInjective(pending)
  /\ active \in Prompts \cup {None} /\ preview \in Prompts \cup {None}
  /\ previewing \subseteq Prompts /\ aged \subseteq Prompts
  /\ activity \in [Prompts -> {"none", "recent", "aged", "reset"}]
  /\ fetching \in [Prompts -> SUBSET Outputs]
  /\ registered \in [Prompts -> SUBSET Outputs]
  /\ images \in [Prompts -> SUBSET Outputs]
  /\ closing \in [Prompts -> Handler]
  /\ tick \in [Ticks -> Reconciler]
  /\ shown \in [Prompts -> Nat] /\ added \in [Prompts -> Nat]
  /\ gallery \in [Prompts -> SUBSET Outputs]
  /\ lost \in [Prompts -> {"no"} \cup Guards]
  /\ missed \subseteq Prompts
  /\ drops \in 0..MaxDrops /\ faults \in 0..MaxFaults
  /\ active # None => active \in Range(pending)

Resting == [pc |-> "idle", waits |-> {}]

Sleeping == [pc |-> "idle", snap |-> {}, todo |-> <<>>, old |-> {}, silent |-> {},
             late |-> FALSE, waits |-> {}, guard |-> "aged"]

Init ==
  /\ srv = [p \in Prompts |-> "none"]
  /\ unshielded = {}
  /\ answered = [p \in Prompts |-> "none"]
  /\ cache = [p \in Prompts |-> {}]
  /\ link = [open |-> TRUE, comfy |-> TRUE, news |-> "none", connected |-> TRUE]
  /\ chan = <<>>
  /\ pending = <<>>
  /\ active = None /\ preview = None /\ previewing = {}
  /\ activity = [p \in Prompts |-> "none"] /\ aged = {}
  /\ fetching = [p \in Prompts |-> {}]
  /\ registered = [p \in Prompts |-> {}]
  /\ images = [p \in Prompts |-> {}]
  /\ closing = [p \in Prompts |-> Resting]
  /\ tick = [r \in Ticks |-> Sleeping]
  /\ shown = [p \in Prompts |-> 0] /\ added = [p \in Prompts |-> 0]
  /\ gallery = [p \in Prompts |-> {}]
  /\ lost = [p \in Prompts |-> "no"]
  /\ missed = {}
  /\ drops = 0 /\ faults = 0

Tracked(p) == p \in Range(pending)

-----------------------------------------------------------------------------
(***************************************************************************)
(* The server.  An event nobody listens to is lost; what a listener that   *)
(* lags, or no longer owns the prompt, does not get is lost in Lag.        *)
(***************************************************************************)
client == <<pending, view, activity, aged, collected, closing, tick, added, outcome>>

OfKind(kind, p) == [kind |-> kind, prompt |-> p]

Emit(events) ==
  \/ link.open /\ Len(chan) + Len(events) <= MaxEvents /\ chan' = chan \o events
  \/ ~link.open /\ UNCHANGED chan

(* Events about p that matter are missed while nobody listens. *)
EmitOf(p, events) ==
  /\ Emit(events)
  /\ missed' = IF link.open THEN missed ELSE missed \cup {p}

InQueue == {p \in Prompts : srv[p] \in {"held", "running", "ended"}}

(* An event for each of the prompts, in whatever order. *)
ForEach(kind, ps) == [i \in 1..Cardinality(ps) |-> OfKind(kind, SetToSeq(ps)[i])]

(* generate: the placeholder is in the queue before the answer is sent. *)
Accept(p) ==
  /\ srv[p] = "none"
  /\ srv' = [srv EXCEPT ![p] = "held"]
  /\ answered' = [answered EXCEPT ![p] = "sent"]
  /\ Emit(<<OfKind("queued", p)>>)
  /\ UNCHANGED <<unshielded, cache, link, missed, client, bounds>>

(* A held prompt has waited for longer than SUBMISSION_SHIELD_SECS. *)
Unshield(p) ==
  /\ srv[p] = "held" /\ p \notin unshielded
  /\ \E q \in Prompts \ {p} : srv[q] = "running"
  /\ unshielded' = unshielded \cup {p}
  /\ UNCHANGED <<srv, answered, cache, stream, missed, client, bounds>>

(* ComfyUI runs one prompt at a time. *)
Run(p) ==
  /\ srv[p] = "held" /\ p \notin Waiting
  /\ \A q \in Prompts : srv[q] # "running"
  /\ srv' = [srv EXCEPT ![p] = "running"]
  /\ EmitOf(p, <<OfKind("executing", p), OfKind("preview", p)>>)
  /\ UNCHANGED <<unshielded, answered, cache, link, client, bounds>>

Output(p, o) ==
  /\ srv[p] = "running" /\ o \in OutputsOf[p] \ cache[p]
  /\ cache' = [cache EXCEPT ![p] = @ \cup {o}]
  /\ EmitOf(p, <<[kind |-> "output", prompt |-> p, output |-> o]>>)
  /\ UNCHANGED <<srv, unshielded, answered, link, client, bounds>>

End(p) ==
  /\ srv[p] = "running" /\ cache[p] = OutputsOf[p]
  /\ srv' = [srv EXCEPT ![p] = "ended"]
  /\ EmitOf(p, <<OfKind("done", p)>>)
  /\ UNCHANGED <<unshielded, answered, cache, link, client, bounds>>

Break(p) ==
  /\ srv[p] = "running" /\ faults < MaxFaults
  /\ faults' = faults + 1
  /\ srv' = [srv EXCEPT ![p] = "ended"]
  /\ Emit(<<OfKind("error", p)>>)
  /\ missed' = missed \cup {p}
  /\ UNCHANGED <<unshielded, answered, cache, link, client, drops>>

(* The cleanup reactor has taken the prompt out of the queue, and tells    *)
(* the others their positions.                                             *)
Forget(p) ==
  /\ srv[p] = "ended"
  /\ srv' = [srv EXCEPT ![p] = "gone"]
  /\ Emit(ForEach("queued", InQueue \ {p}))
  /\ UNCHANGED <<unshielded, answered, cache, link, missed, client, bounds>>

(* Somebody of the staff clears the queue. *)
Clear ==
  /\ \E p \in Prompts : srv[p] \in {"held", "running"}
  /\ faults < MaxFaults
  /\ faults' = faults + 1
  /\ srv' = [p \in Prompts |-> IF srv[p] \in {"held", "running"} THEN "gone" ELSE srv[p]]
  /\ Emit(<<[kind |-> "cleared"]>>)
  /\ missed' = missed \cup {p \in Prompts : srv[p] \in {"held", "running"}}
  /\ UNCHANGED <<unshielded, answered, cache, link, client, drops>>

-----------------------------------------------------------------------------
(***************************************************************************)
(* The event stream, which is opened again after it broke.                 *)
(***************************************************************************)
Disconnect ==
  /\ link.open /\ drops < MaxDrops
  /\ drops' = drops + 1
  /\ link' = [link EXCEPT !.open = FALSE, !.news = "none"]
  /\ chan' = <<>>
  /\ missed' = missed \cup {p \in Prompts : \E e \in Range(chan) : About(e, p)}
  /\ UNCHANGED <<server, client, faults>>

(* The stream stays open, and what is on its way does not arrive: the      *)
(* listener lags behind the broadcast, or the prompt has no owner by now.  *)
Lag ==
  /\ link.open /\ drops < MaxDrops
  /\ drops' = drops + 1
  /\ link' = [link EXCEPT !.news = "none"]
  /\ chan' = <<>>
  /\ missed' = missed \cup {p \in Prompts : \E e \in Range(chan) : About(e, p)}
  /\ UNCHANGED <<server, client, faults>>

(* The socket to a worker breaks, and is opened again: the browser is told *)
(* each time, once.  The prompts of other workers go on.                   *)
Tell(news) == IF link.open THEN news ELSE link.news

WorkerBreaks ==
  /\ link.comfy /\ faults < MaxFaults
  /\ faults' = faults + 1
  /\ link' = [link EXCEPT !.comfy = FALSE, !.news = Tell("down")]
  /\ UNCHANGED <<server, chan, missed, client, drops>>

WorkerReturns ==
  /\ ~link.comfy
  /\ link' = [link EXCEPT !.comfy = TRUE, !.news = Tell("up")]
  /\ UNCHANGED <<server, chan, missed, client, bounds>>

(* comfyui:connection *)
OnConnection ==
  /\ link.news # "none"
  /\ link' = [link EXCEPT !.news = "none", !.connected = link.news = "up"]
  /\ UNCHANGED <<server, chan, missed, client, bounds>>

Connection == WorkerBreaks \/ WorkerReturns \/ OnConnection

(* The server starts with the positions and the last frames of the prompts *)
(* in its queue; onopen has the reconciler look at every prompt again, if  *)
(* the page takes ComfyUI for connected.                                   *)
Reconnect ==
  /\ ~link.open
  /\ link' = [link EXCEPT !.open = TRUE]
  /\ chan' = ForEach("queued", InQueue)
             \o ForEach("preview", {p \in InQueue : srv[p] # "held"})
  /\ activity' = [p \in Prompts |-> IF link.connected /\ Tracked(p) THEN "reset"
                                     ELSE activity[p]]
  /\ missed' = missed \cup Range(pending)
  /\ UNCHANGED <<server, pending, view, aged, collected, closing, tick, added,
                 outcome, bounds>>

(* Half a minute passes without an event of the prompt: longer than an     *)
(* event is on its way.                                                    *)
Age(p) ==
  /\ Tracked(p)
  /\ activity[p] # "aged" \/ p \notin aged
  /\ \A e \in Range(chan) : ~About(e, p)
  /\ aged' = aged \cup {p}
  /\ activity' = [activity EXCEPT ![p] = IF @ = "recent" THEN "aged" ELSE @]
  /\ UNCHANGED <<server, stream, pending, view, collected, closing, tick, added,
                 outcome, missed, bounds>>

-----------------------------------------------------------------------------
(***************************************************************************)
(* The progress store.                                                     *)
(***************************************************************************)

(* enqueue and restoreFromSnapshot: a prompt that is tracked stays as it is*)
Enqueue(p) ==
  IF Tracked(p)
  THEN UNCHANGED <<pending, added, aged>>
  ELSE /\ pending' = Append(pending, p)
       /\ added' = [added EXCEPT ![p] = @ + 1]
       /\ aged' = aged \ {p}

(* completePrompt and removePrompt, as far as pendingPrompts goes. *)
Others(p) == Without(pending, {p})

SetActivePrompt(p) ==
  /\ active' = p
  /\ preview' = IF active = p THEN preview ELSE None

(* The answer to generate. *)
Track(p) ==
  /\ answered[p] = "sent"
  /\ answered' = [answered EXCEPT ![p] = "tracked"]
  /\ Enqueue(p)
  /\ UNCHANGED <<srv, unshielded, cache, stream, view, activity, collected, closing,
                 tick, outcome, missed, bounds>>

(* A fault to test with: the entry is left for others to take. *)
CompleteAndKeep(p) ==
  /\ activity' = [activity EXCEPT ![p] = "none"]
  /\ UNCHANGED <<pending, active, preview>>

(* completePrompt: whoever calls it first takes the entry, and with it the *)
(* duty to finalize the images.                                            *)
CompletePrompt(p) ==
  /\ pending' = Others(p)
  /\ activity' = [activity EXCEPT ![p] = "none"]
  /\ IF active = p THEN active' = None /\ preview' = None
                   ELSE UNCHANGED <<active, preview>>

(* removePrompt *)
RemovePrompt(p) ==
  /\ pending' = Others(p)
  /\ IF active = p \/ Others(p) = <<>> THEN active' = None /\ preview' = None
                                         ELSE UNCHANGED <<active, preview>>

(* cancelAll *)
CancelAll ==
  /\ pending' = <<>>
  /\ active' = None /\ preview' = None

(* finalizeOutputImages *)
Finalize(p, imgs) ==
  /\ shown' = [shown EXCEPT ![p] = @ + (IF imgs = {} THEN 0 ELSE 1)]
  /\ gallery' = [gallery EXCEPT ![p] = IF imgs = {} THEN @ ELSE imgs]

-----------------------------------------------------------------------------
(***************************************************************************)
(* The handlers of the events, in the order of the stream.                 *)
(***************************************************************************)
NextIs(kind) == chan # <<>> /\ Head(chan).kind = kind

Taken == chan' = Tail(chan) /\ UNCHANGED <<server, link, bounds>>

OnQueued ==
  /\ NextIs("queued")
  /\ Taken
  /\ Enqueue(Head(chan).prompt)
  /\ UNCHANGED <<view, activity, collected, closing, tick, outcome, missed>>

(* An event of the prompt counts for the callbacks on their way, too. *)
Heard(p) ==
  /\ activity' = [activity EXCEPT ![p] = "recent"]
  /\ tick' = [r \in Ticks |-> [tick[r] EXCEPT !.silent = @ \ {p}]]

OnExecuting ==
  /\ NextIs("executing")
  /\ Taken
  /\ LET p == Head(chan).prompt
     IN  IF Tracked(p)
         THEN Heard(p) /\ SetActivePrompt(p)
         ELSE UNCHANGED <<activity, tick, active, preview>>
  /\ UNCHANGED <<pending, aged, previewing, collected, closing, added, outcome, missed>>

(* May a frame of the prompt be shown? *)
Wanted(p) == Tracked(p) /\ active \in {p, None}

OnPreview ==
  /\ NextIs("preview")
  /\ Taken
  /\ LET p == Head(chan).prompt
     IN  previewing' = IF Wanted(p) THEN previewing \cup {p} ELSE previewing
  /\ UNCHANGED <<pending, active, preview, activity, aged, collected, closing, tick,
                 added, outcome, missed>>

(* A fault to test with: what became of the prompt meanwhile is not asked. *)
ShowFrame(p) ==
  /\ p \in previewing
  /\ previewing' = previewing \ {p}
  /\ preview' = p
  /\ UNCHANGED <<server, stream, pending, active, activity, aged, collected, closing,
                 tick, added, outcome, missed, bounds>>

(* The frame is here: the prompt may have completed meanwhile. *)
PreviewFetched(p) ==
  /\ p \in previewing
  /\ previewing' = previewing \ {p}
  /\ preview' = IF Wanted(p) THEN p ELSE preview
  /\ UNCHANGED <<server, stream, pending, active, activity, aged, collected, closing,
                 tick, added, outcome, missed, bounds>>

(* The fetch is registered before anything is awaited. *)
OnOutput ==
  /\ NextIs("output")
  /\ Taken
  /\ LET p == Head(chan).prompt
         o == Head(chan).output
     IN  IF Tracked(p)
         THEN /\ fetching' = [fetching EXCEPT ![p] = @ \cup {o}]
              /\ registered' = [registered EXCEPT ![p] = @ \cup {o}]
         ELSE UNCHANGED <<fetching, registered>>
  /\ UNCHANGED <<pending, view, activity, aged, images, closing, tick, added, outcome,
                 missed>>

OutputFetched(p, o) ==
  /\ o \in fetching[p]
  /\ fetching' = [fetching EXCEPT ![p] = @ \ {o}]
  /\ images' = [images EXCEPT ![p] = @ \cup {o}]
  /\ UNCHANGED <<server, stream, pending, view, activity, aged, registered, closing,
                 tick, added, outcome, missed, bounds>>

(* Four attempts have failed. *)
OutputFetchFails(p, o) ==
  /\ o \in fetching[p] /\ faults < MaxFaults
  /\ faults' = faults + 1
  /\ fetching' = [fetching EXCEPT ![p] = @ \ {o}]
  /\ missed' = missed \cup {p}
  /\ UNCHANGED <<server, stream, pending, view, activity, aged, registered, images,
                 closing, tick, added, outcome, drops>>

(* What both completions do once the fetches are settled: with no image,   *)
(* the server's copies are asked for.                                      *)
Complete(p) ==
  /\ CompletePrompt(p)
  /\ IF Tracked(p)
     THEN Finalize(p, images[p]) /\ images' = [images EXCEPT ![p] = {}]
     ELSE UNCHANGED <<shown, gallery, images>>

NothingToShow(p) == Tracked(p) /\ images[p] = {}

CloseNow(p) ==
  /\ Complete(p)
  /\ closing' = [closing EXCEPT ![p] = [pc |-> IF NothingToShow(p) THEN "recover" ELSE "idle",
                                        waits |-> {}]]

(* A fault to test with: the fetches are not waited for. *)
OnDoneAtOnce ==
  /\ NextIs("done")
  /\ Taken
  /\ LET p == Head(chan).prompt
     IN  IF Tracked(p) THEN CloseNow(p)
         ELSE UNCHANGED <<pending, active, preview, activity, images, closing, shown, gallery>>
  /\ UNCHANGED <<aged, previewing, fetching, registered, tick, added, lost, missed>>

(* executing with no node: the prompt is done.  The fetches registered by  *)
(* now are waited for.                                                     *)
OnDone ==
  /\ NextIs("done")
  /\ Taken
  /\ LET p == Head(chan).prompt
     IN  \/ /\ ~Tracked(p)
            /\ UNCHANGED <<pending, active, preview, activity, images, closing, tick,
                           shown, gallery>>
         \/ /\ Tracked(p) /\ registered[p] = {}
            /\ CloseNow(p)
            /\ UNCHANGED tick
         \/ /\ Tracked(p) /\ registered[p] # {}
            /\ closing' = [closing EXCEPT ![p] = [pc |-> "await", waits |-> registered[p]]]
            /\ Heard(p)
            /\ UNCHANGED <<pending, active, preview, images, shown, gallery>>
  /\ UNCHANGED <<aged, previewing, fetching, registered, added, lost, missed>>

(* The fetches are settled, or 45 seconds have passed. *)
Settled(p, waits) ==
  \/ waits \cap fetching[p] = {} /\ UNCHANGED <<faults, missed>>
  \/ /\ waits \cap fetching[p] # {} /\ faults < MaxFaults
     /\ faults' = faults + 1 /\ missed' = missed \cup {p}

CloseAfterFetches(p) ==
  /\ closing[p].pc = "await"
  /\ Settled(p, closing[p].waits)
  /\ registered' = [registered EXCEPT ![p] = {}]
  /\ CloseNow(p)
  /\ UNCHANGED <<server, stream, aged, previewing, fetching, tick, added, lost, drops>>

(* recoverMissingOutputImages: the images are asked for one by one, and    *)
(* some may not come, or none.                                             *)
Recovered(p, imgs) ==
  \/ imgs = cache[p] /\ UNCHANGED <<faults, missed>>
  \/ /\ imgs \subseteq cache[p] /\ imgs # cache[p] /\ faults < MaxFaults
     /\ faults' = faults + 1 /\ missed' = missed \cup {p}

CloseAfterRecovery(p) ==
  /\ closing[p].pc = "recover"
  /\ \E imgs \in SUBSET OutputsOf[p] : Recovered(p, imgs) /\ Finalize(p, imgs)
  /\ closing' = [closing EXCEPT ![p] = Resting]
  /\ UNCHANGED <<server, stream, pending, view, activity, aged, collected, tick, added,
                 lost, drops>>

(* execution_error: tracked or not, what is known of the prompt goes. *)
OnError ==
  /\ NextIs("error")
  /\ Taken
  /\ LET p == Head(chan).prompt
     IN  /\ RemovePrompt(p)
         /\ images' = [images EXCEPT ![p] = {}]
         /\ registered' = [registered EXCEPT ![p] = {}]
         /\ activity' = [activity EXCEPT ![p] = "none"]
  /\ UNCHANGED <<aged, previewing, fetching, closing, tick, added, outcome, missed>>

OnCleared ==
  /\ NextIs("cleared")
  /\ Taken
  /\ CancelAll
  /\ activity' = [p \in Prompts |-> "none"]
  /\ UNCHANGED <<aged, previewing, collected, closing, tick, added, outcome, missed>>

-----------------------------------------------------------------------------
(***************************************************************************)
(* The reconciler: every five seconds it compares the tracked prompts with *)
(* the server's queue.  The interval does not wait for its callbacks.      *)
(***************************************************************************)
TickStarts(r) ==
  /\ tick[r].pc = "idle" /\ pending # <<>> /\ link.connected
  /\ tick' = [tick EXCEPT ![r] = [Sleeping EXCEPT !.pc = "query"]]
  /\ UNCHANGED <<server, stream, pending, view, activity, aged, collected, closing,
                 added, outcome, missed, bounds>>

(* get_queue: a prompt that waited for too long is left out, and surfaces  *)
(* as lost.                                                                *)
GetQueue(r) ==
  /\ tick[r].pc = "query"
  /\ tick' = [tick EXCEPT ![r].pc = "answered",
                          ![r].old = Range(pending), ![r].silent = Range(pending),
                          ![r].snap = {p \in InQueue :
                                        srv[p] = "held" => p \notin unshielded}]
  /\ UNCHANGED <<server, stream, pending, view, activity, aged, collected, closing,
                 added, outcome, missed, bounds>>

(* The loop runs over the entries there are now, with the time it is now.  *)
(* The answer took less than half a minute: what is quiet now was there,   *)
(* and was quiet, when the server looked at its queue.                     *)
InLoop(t) ==
  [t EXCEPT !.pc = "loop", !.todo = pending, !.old = t.old \cap aged,
            !.silent = {p \in t.silent : activity[p] = "aged"}]

QueueKnown(r) ==
  /\ tick[r].pc = "answered"
  /\ tick' = [tick EXCEPT ![r] = IF pending = <<>> THEN Sleeping ELSE InLoop(@)]
  /\ missed' = missed \cup {p \in Prompts : \E e \in Range(chan) : About(e, p)}
  /\ UNCHANGED <<server, stream, pending, view, activity, aged, collected, closing,
                 added, outcome, bounds>>

(* The answer took longer, over a slow connection or while the computer    *)
(* slept: what is quiet now may have been added since the look.            *)
InLoopLate(t) ==
  [t EXCEPT !.pc = "loop", !.todo = pending, !.old = Range(pending) \cap aged, !.late = TRUE,
            !.silent = {p \in Range(pending) : activity[p] = "aged"}]

QueueLate(r) ==
  /\ tick[r].pc = "answered" /\ faults < MaxFaults
  /\ faults' = faults + 1
  /\ tick' = [tick EXCEPT ![r] = IF pending = <<>> THEN Sleeping ELSE InLoopLate(@)]
  /\ missed' = missed \cup Range(pending)
  /\ UNCHANGED <<server, stream, pending, view, activity, aged, collected, closing,
                 added, outcome, drops>>

(* A fault to test with: a prompt without events is taken for alive. *)
QuietIfHeard(t, p) == activity[p] = "reset" \/ p \in t.silent

(* A fault to test with: when the prompt was added does not count. *)
QuietOrNew(t, p) == activity[p] = "none" \/ QuietIfHeard(t, p)

(* Had the prompt no event in the half minute before callback t read the   *)
(* clock, and was not added in it, either?                                 *)
Quiet(t, p) ==
  CASE activity[p] = "none" -> p \in t.old
    [] activity[p] = "reset" -> TRUE
    [] OTHER -> p \in t.silent

GuardOf(t, p) ==
  IF activity[p] = "reset" THEN "reset" ELSE IF t.late THEN "late" ELSE "aged"

Overdue(t, p) == Quiet(t, p) /\ p \notin t.snap

(* Callback t goes on to its next entry, or ends. *)
GoOn(t) == IF Len(t.todo) <= 1 THEN Sleeping
           ELSE [t EXCEPT !.pc = "loop", !.todo = Tail(@), !.waits = {}]

TickSkips(r) ==
  /\ tick[r].pc = "loop"
  /\ ~Overdue(tick[r], Head(tick[r].todo))
  /\ tick' = [tick EXCEPT ![r] = GoOn(@)]
  /\ UNCHANGED <<server, stream, pending, view, activity, aged, collected, closing,
                 added, outcome, missed, bounds>>

GiveUpNow(r, p, guard) ==
  /\ Complete(p)
  /\ tick' = [tick EXCEPT ![r] =
               IF NothingToShow(p)
               THEN [@ EXCEPT !.pc = "recover", !.waits = {}, !.guard = guard]
               ELSE GoOn(@)]

TickCompletes(r) ==
  /\ tick[r].pc = "loop"
  /\ LET p == Head(tick[r].todo)
     IN  Overdue(tick[r], p) /\ registered[p] = {} /\ GiveUpNow(r, p, GuardOf(tick[r], p))
  /\ UNCHANGED <<server, stream, previewing, aged, fetching, registered, closing, added,
                 lost, missed, bounds>>

TickWaits(r) ==
  /\ tick[r].pc = "loop"
  /\ LET p == Head(tick[r].todo)
     IN  /\ Overdue(tick[r], p) /\ registered[p] # {}
         /\ tick' = [tick EXCEPT ![r].pc = "await", ![r].waits = registered[p],
                                 ![r].guard = GuardOf(tick[r], p)]
  /\ UNCHANGED <<server, stream, pending, view, activity, aged, collected, closing,
                 added, outcome, missed, bounds>>

TickAfterFetches(r) ==
  /\ tick[r].pc = "await"
  /\ LET p == Head(tick[r].todo)
     IN  /\ Settled(p, tick[r].waits)
         /\ registered' = [registered EXCEPT ![p] = {}]
         /\ GiveUpNow(r, p, tick[r].guard)
  /\ UNCHANGED <<server, stream, previewing, aged, fetching, closing, added, lost, drops>>

(* Nothing was recovered: the user is told that the prompt is lost. *)
TickAfterRecovery(r) ==
  /\ tick[r].pc = "recover"
  /\ LET p == Head(tick[r].todo)
     IN  \E imgs \in SUBSET OutputsOf[p] :
           /\ Recovered(p, imgs)
           /\ Finalize(p, imgs)
           /\ lost' = [lost EXCEPT ![p] = IF imgs = {} THEN tick[r].guard ELSE @]
  /\ tick' = [tick EXCEPT ![r] = GoOn(@)]
  /\ UNCHANGED <<server, stream, pending, view, activity, aged, collected, closing,
                 added, drops>>

-----------------------------------------------------------------------------
ServerWorks == \E p \in Prompts : Run(p) \/ End(p) \/ Forget(p) \/ \E o \in Outputs : Output(p, o)

Handles == OnQueued \/ OnExecuting \/ OnPreview \/ OnOutput \/ OnDone \/ OnError \/ OnCleared

Closes(p) == CloseAfterFetches(p) \/ CloseAfterRecovery(p)

Reconciles(r) ==
  \/ TickStarts(r) \/ GetQueue(r) \/ QueueKnown(r) \/ QueueLate(r) \/ TickSkips(r)
  \/ TickCompletes(r) \/ TickWaits(r) \/ TickAfterFetches(r) \/ TickAfterRecovery(r)

Next ==
  \/ ServerWorks \/ Handles \/ Clear \/ Disconnect \/ Lag \/ Reconnect \/ Connection
  \/ \E p \in Prompts : \/ Accept(p) \/ Unshield(p) \/ Break(p) \/ Age(p) \/ Track(p)
                        \/ PreviewFetched(p) \/ Closes(p)
                        \/ \E o \in Outputs : OutputFetched(p, o) \/ OutputFetchFails(p, o)
  \/ \E r \in Ticks : Reconciles(r)

Spec == Init /\ [][Next]_vars

(* ComfyUI executes what it has, the stream and the sockets are opened     *)
(* again, requests are answered and the interval fires.  Half a minute     *)
(* without events passes although there is a look at the queue every five  *)
(* seconds.                                                                *)
FairSpec ==
  /\ Spec
  /\ WF_vars(ServerWorks) /\ WF_vars(Reconnect) /\ WF_vars(Handles)
  /\ WF_vars(WorkerReturns) /\ WF_vars(OnConnection)
  /\ \A p \in Prompts :
       /\ WF_vars(Track(p)) /\ WF_vars(Age(p)) /\ WF_vars(Closes(p))
       /\ \A o \in Outputs : WF_vars(OutputFetched(p, o))
  /\ \A r \in Ticks : WF_vars(Reconciles(r))

-----------------------------------------------------------------------------
(* The images of a prompt are put on show at most once for each time it    *)
(* was added to the tracked prompts, whoever of the two handlers and the   *)
(* overlapping callbacks of the interval gets to it.                       *)
OncePerTracking == \A p \in Prompts : shown[p] <= added[p]

(* If a prompt was not interrupted, and no event or image of it was lost   *)
(* or late, what is put on show is all of its output, although every image *)
(* is fetched on its own.                                                  *)
AllOutputsShown ==
  \A p \in Prompts \ (missed \cup unshielded) : shown[p] > 0 => gallery[p] = OutputsOf[p]

(* "The prompt may have completed while the fetch was in flight": no frame *)
(* replaces what is displayed unless its prompt is still tracked.          *)
FramesAreLive == [][preview' \notin {preview, None} => Tracked(preview')]_vars

(* A prompt that was quiet for half a minute is given up only when the     *)
(* server has forgotten it, or did not submit it for two minutes.  Left    *)
(* out are looks at the queue that are answered half a minute later, and   *)
(* prompts whose times a reconnection has put back: they are given up on a *)
(* look from before they were added.                                       *)
GivenUpWhenGone ==
  \A r \in Ticks :
    tick[r].pc \in {"await", "recover"} /\ tick[r].guard = "aged" =>
      LET p == Head(tick[r].todo) IN srv[p] = "gone" \/ p \in unshielded

(* Whatever is lost on the way, every prompt the browser tracks ends, if   *)
(* the page knows in the end that ComfyUI is connected.                    *)
EveryPromptEnds ==
  <>[]link.connected => \A p \in Prompts \ Waiting : Tracked(p) ~> ~Tracked(p)

(* Without that it is not so: the news that a socket is up again is sent   *)
(* once, and the reconciler rests until it arrives (ConnectionNewsIsLost). *)
EndsInAnyCase == \A p \in Prompts \ Waiting : Tracked(p) ~> ~Tracked(p)

(* get_queue includes the prompts "held in the fair queue", so that the    *)
(* reconciler does not "falsely [conclude] these prompts have vanished".   *)
HeldIsNotLost == \A p \in Prompts : lost[p] = "aged" => srv[p] # "held"

=============================================================================

--------------------------- MODULE GenerationServer ---------------------------
(***************************************************************************)
(* How a generate request travels through the server: the request handler  *)
(* and its background task, the fair queue's drain reactor, the pool of    *)
(* GPU workers, ComfyUI on each of them, and the reactor that cleans up    *)
(* after ComfyUI's completion events.  Every await, and every call of      *)
(* PromptQueue that another task can overtake, is the end of a step.       *)
(*                                                                         *)
(* A submitter is whoever calls submit_prompt: the background task of a    *)
(* request, or the drain reactor for a held prompt.                        *)
(***************************************************************************)
EXTENDS PromptQueue, GpuManager

CONSTANTS
  Previews,       \* the requests that are submitted before they are inserted
  Drain,          \* the drain reactor as a submitter
  MaxFaults       \* bound: failed posts and failed executions in a behaviour

ASSUME ServerAssumption ==
  /\ Previews \subseteq Prompts
  /\ Drain \notin Prompts
  /\ MaxFaults \in Nat

VARIABLES
  pq,          \* the PromptQueue
  gpu,         \* the GpuManager's workers
  comfy,       \* ComfyUI on each worker: its queue, the first of which it runs
  posts,       \* how often each request has been accepted by ComfyUI
  events,      \* the broadcast channel, as far as the cleanup reactor reads it
  sub,         \* where each submitter is
  result,      \* the result slot of each held prompt, notified once it is set
  reactor,     \* the cleanup reactor
  drainPermit, \* the stored permit of drain_notify
  aliasGC,     \* the prompts whose delayed cleanup_alias is due
  overtaken,   \* history: the requests whose end was received before their
               \* answer was recorded, as long as nothing made up for that
  faults       \* faults so far

vars == <<pq, gpu, comfy, posts, events, sub, result, reactor, drainPermit,
          aliasGC, overtaken, faults>>

Submitters == Prompts \cup {Drain}

TaskPC == {"new", "checked", "spawned", "waiting", "select", "waitWorker",
           "posting", "responded", "inserted", "bound", "deferred", "done", "idle"}

Submission == [pc : TaskPC, hold : BOOLEAN, prompt : Prompts \cup {None},
               worker : Workers \cup {None}, exclusive : BOOLEAN,
               real : Reals \cup {None}]

(* A submission has the prompt, worker and real id that its step needs. *)
SubmissionOK(x) ==
  /\ IF x.pc = "idle" THEN x.prompt = None ELSE x.prompt \in Prompts
  /\ x.pc \in {"posting", "responded", "inserted", "bound", "deferred"} =>
       x.worker \in Workers
  /\ x.pc \in {"responded", "inserted", "bound", "deferred"} => x.real \in Reals

(* Only ComfyUI announces an end, by the id it knows. *)
Event == [kind : {"done"}, id : Reals] \cup [kind : {"error"}, id : Ids]

Reaction == [pc : {"recv", "finish", "park", "release"}, kind : {"done", "error"},
             raw : Ids \cup {None}, pid : Ids \cup {None},
             worker : Workers \cup {None}]

TypeOK ==
  /\ pq \in QueueType
  /\ gpu \in GpuType(Workers)
  /\ comfy \in [Workers -> Seq(Reals)]
  /\ posts \in [Prompts -> 0..MaxPosts]
  /\ events \in Seq(Event)
  /\ sub \in [Submitters -> Submission]
  /\ \A p \in Prompts : sub[p].prompt = p
  /\ \A s \in Submitters : SubmissionOK(sub[s])
  /\ result \in [Prompts -> {"none", "ok", "err"}]
  /\ reactor \in Reaction
  /\ reactor.pc # "recv" => /\ [kind |-> reactor.kind, id |-> reactor.raw] \in Event
                            /\ reactor.pid \in Ids
  /\ reactor.pc = "park" => reactor.kind = "done"
  /\ reactor.pc = "release" => reactor.worker \in Workers
  /\ drainPermit \in BOOLEAN
  /\ aliasGC \subseteq Prompts
  /\ overtaken \subseteq Prompts
  /\ faults \in 0..MaxFaults

(* A submitter with nothing in its hands. *)
At(pc, prompt) == [pc |-> pc, hold |-> FALSE, prompt |-> prompt, worker |-> None,
                   exclusive |-> FALSE, real |-> None]

Receiving == [pc |-> "recv", kind |-> "done", raw |-> None, pid |-> None,
              worker |-> None]

Init ==
  /\ pq = EmptyQueue
  /\ gpu = AllIdle(Workers)
  /\ comfy = [w \in Workers |-> <<>>]
  /\ posts = [p \in Prompts |-> 0]
  /\ events = <<>>
  /\ sub = [s \in Submitters |-> IF s = Drain THEN At("idle", None)
                                              ELSE At("new", s)]
  /\ result = [p \in Prompts |-> "none"]
  /\ reactor = Receiving
  /\ drainPermit = FALSE
  /\ aliasGC = {}
  /\ overtaken = {}
  /\ faults = 0

-----------------------------------------------------------------------------
(***************************************************************************)
(* The request handler and its background task.                            *)
(***************************************************************************)

(* A named account's prompt is held while another of its prompts is active.*)
(* The admin's prompts go straight to ComfyUI.                             *)
NeedsHold(u) == u # Admin /\ ActiveCountForUser(pq, u) > 0

(* Whether the prompt will be held is decided before it is inserted. *)
CheckHold(p) ==
  /\ p \notin Previews
  /\ sub[p].pc = "new"
  /\ sub' = [sub EXCEPT ![p] = [@ EXCEPT !.pc = "checked",
                                         !.hold = NeedsHold(UserOf[p])]]
  /\ UNCHANGED <<pq, gpu, comfy, posts, events, result, reactor, drainPermit,
                 aliasGC, faults, overtaken>>

(* The placeholder is inserted, the background task spawned, and the       *)
(* client answered.  The task first waits for the assistant's VRAM.        *)
InsertAndSpawn(p) ==
  /\ sub[p].pc = "checked"
  /\ pq' = Insert(pq, p)
  /\ sub' = [sub EXCEPT ![p].pc = "spawned"]
  /\ UNCHANGED <<gpu, comfy, posts, events, result, reactor, drainPermit,
                 aliasGC, faults, overtaken>>

(* A fault to test with: the task pushes the prompt to the held list and   *)
(* goes on to submit it.                                                   *)
HoldAndSubmit(p) ==
  /\ sub[p].pc = "spawned"
  /\ sub[p].hold
  /\ pq' = Hold(pq, p)
  /\ sub' = [sub EXCEPT ![p].pc = "select"]
  /\ UNCHANGED <<gpu, comfy, posts, events, result, reactor, drainPermit,
                 aliasGC, faults, overtaken>>

HoldPrompt(p) ==
  /\ sub[p].pc = "spawned"
  /\ sub[p].hold
  /\ pq' = Hold(pq, p)
  /\ sub' = [sub EXCEPT ![p].pc = "waiting"]
  /\ UNCHANGED <<gpu, comfy, posts, events, result, reactor, drainPermit,
                 aliasGC, faults, overtaken>>

SubmitDirectly(p) ==
  /\ sub[p].pc = "spawned"
  /\ ~ sub[p].hold
  /\ sub' = [sub EXCEPT ![p].pc = "select"]
  /\ UNCHANGED <<pq, gpu, comfy, posts, events, result, reactor, drainPermit,
                 aliasGC, faults, overtaken>>

(* A preview request submits at once. *)
SubmitPreview(p) ==
  /\ p \in Previews
  /\ sub[p].pc = "new"
  /\ sub' = [sub EXCEPT ![p].pc = "select"]
  /\ UNCHANGED <<pq, gpu, comfy, posts, events, result, reactor, drainPermit,
                 aliasGC, faults, overtaken>>

(* The task of a held prompt wakes up with the drain reactor's result.  A  *)
(* failed one is untracked and reported as an execution error.             *)
TakeResult(p) ==
  /\ sub[p].pc = "waiting"
  /\ result[p] # "none"
  /\ sub' = [sub EXCEPT ![p] = At("done", p)]
  /\ IF result[p] = "err"
     THEN /\ pq' = CleanupAlias(Finish(pq, p), p)
          /\ events' = Append(events, [kind |-> "error", id |-> p])
     ELSE UNCHANGED <<pq, events>>
  /\ UNCHANGED <<gpu, comfy, posts, result, reactor, drainPermit, aliasGC,
                 faults, overtaken>>

-----------------------------------------------------------------------------
(***************************************************************************)
(* submit_prompt.                                                          *)
(***************************************************************************)

(* A fault to test with: the waiter of a held prompt is not told. *)
SubmitFailedSilently(s) ==
  IF s = Drain
  THEN /\ sub' = [sub EXCEPT ![s] = At("idle", None)]
       /\ UNCHANGED <<pq, events, result>>
  ELSE /\ sub' = [sub EXCEPT ![s] = At("done", s)]
       /\ IF s \in Previews
          THEN UNCHANGED <<pq, events>>
          ELSE /\ pq' = Finish(pq, s)
               /\ events' = Append(events, [kind |-> "error", id |-> s])
       /\ UNCHANGED result

(* What a submitter does with an error of submit_prompt. *)
SubmitFailed(s) ==
  IF s = Drain
  THEN /\ sub' = [sub EXCEPT ![s] = At("idle", None)]
       /\ result' = [result EXCEPT ![sub[s].prompt] = "err"]
       /\ UNCHANGED <<pq, events>>
  ELSE /\ sub' = [sub EXCEPT ![s] = At("done", s)]
       /\ IF s \in Previews
          THEN UNCHANGED <<pq, events>>
          ELSE /\ pq' = Finish(pq, s)
               /\ events' = Append(events, [kind |-> "error", id |-> s])
       /\ UNCHANGED result

(* An available worker is found, reserved and marked as running. *)
SelectIdle(s) ==
  /\ sub[s].pc \in {"select", "waitWorker"}
  /\ \E w \in Workers :
       /\ IsAvailable(gpu, w)
       /\ gpu' = ReserveAndRun(gpu, w)
       /\ sub' = [sub EXCEPT ![s] = [@ EXCEPT !.pc = "posting", !.worker = w,
                                              !.exclusive = TRUE]]
  /\ UNCHANGED <<pq, comfy, posts, events, result, reactor, drainPermit,
                 aliasGC, faults, overtaken>>

(* With no worker available the prompt goes to the queue of a running one, *)
(* whose reservation stays what it is.  So it does from the wait for an    *)
(* available worker: one can only run by now if it became available and    *)
(* another submitter reserved it first, and whoever loses that race goes   *)
(* back to the selection.                                                  *)
SelectRunning(s) ==
  /\ sub[s].pc \in {"select", "waitWorker"}
  /\ \A w \in Workers : ~ IsAvailable(gpu, w)
  /\ \E w \in Workers :
       /\ gpu.status[w] = "running"
       /\ sub' = [sub EXCEPT ![s] = [@ EXCEPT !.pc = "posting", !.worker = w]]
  /\ UNCHANGED <<pq, gpu, comfy, posts, events, result, reactor, drainPermit,
                 aliasGC, faults, overtaken>>

(* With none running either the submitter waits for a worker to become     *)
(* available; that one starts to run does not wake it.                     *)
SelectNone(s) ==
  /\ sub[s].pc = "select"
  /\ \A w \in Workers : ~ IsAvailable(gpu, w) /\ gpu.status[w] # "running"
  /\ sub' = [sub EXCEPT ![s].pc = "waitWorker"]
  /\ UNCHANGED <<pq, gpu, comfy, posts, events, result, reactor, drainPermit,
                 aliasGC, faults, overtaken>>

(* A fault to test with: the wait has no timeout. *)
WaitForever(s) == FALSE

(* No worker turned up within the timeout: none became available, others   *)
(* took them, or the release of one was notified to another waiter.        *)
SelectTimeout(s) ==
  /\ sub[s].pc = "waitWorker"
  /\ SubmitFailed(s)
  /\ UNCHANGED <<gpu, comfy, posts, reactor, drainPermit, aliasGC, faults,
                 overtaken>>

(* ComfyUI accepts the post: the prompt is in its queue under a new id,    *)
(* while the answer is on its way.                                         *)
PostAccepted(s) ==
  LET p == sub[s].prompt
      r == <<p, posts[p] + 1>>
  IN  /\ sub[s].pc = "posting"
      /\ posts[p] < MaxPosts
      /\ posts' = [posts EXCEPT ![p] = @ + 1]
      /\ comfy' = [comfy EXCEPT ![sub[s].worker] = Append(@, r)]
      /\ sub' = [sub EXCEPT ![s] = [@ EXCEPT !.pc = "responded", !.real = r]]
      /\ UNCHANGED <<pq, gpu, events, result, reactor, drainPermit, aliasGC,
                     faults, overtaken>>

(* The post fails: refused with an HTTP error, or no connection.  Only the *)
(* submitter that reserved the worker gives it back.                       *)
PostFailed(s) ==
  /\ sub[s].pc = "posting"
  /\ faults < MaxFaults
  /\ faults' = faults + 1
  /\ \E status \in {"idle", "error"} :
       gpu' = IF sub[s].exclusive THEN ReleaseAs(gpu, sub[s].worker, status)
                                  ELSE gpu
  /\ SubmitFailed(s)
  /\ UNCHANGED <<comfy, posts, reactor, drainPermit, aliasGC, overtaken>>

(* ComfyUI has the prompt but the answer is lost: the request times out,   *)
(* or the body cannot be read.  Nothing is left to be recorded.            *)
AnswerLost(s) ==
  /\ sub[s].pc = "responded"
  /\ faults < MaxFaults
  /\ faults' = faults + 1
  /\ gpu' \in IF sub[s].exclusive
              THEN {ReleaseAs(gpu, sub[s].worker, "error"),
                    MarkWorkerIdle(gpu, sub[s].worker)}
              ELSE {gpu}
  /\ SubmitFailed(s)
  /\ overtaken' = overtaken \ {sub[s].prompt}
  /\ UNCHANGED <<comfy, posts, reactor, drainPermit, aliasGC>>

-----------------------------------------------------------------------------
(***************************************************************************)
(* What a submitter records of the answer.                                 *)
(***************************************************************************)

Bind(s) ==
  /\ sub[s].pc = "responded"
  /\ s \notin Previews
  /\ pq' = BindAlias(pq, sub[s].prompt, sub[s].real)
  /\ sub' = [sub EXCEPT ![s].pc = IF WasDeferred(pq, sub[s].real)
                                  THEN "deferred" ELSE "bound"]
  /\ overtaken' = IF WasDeferred(pq, sub[s].real)
                  THEN overtaken \ {sub[s].prompt} ELSE overtaken
  /\ UNCHANGED <<gpu, comfy, posts, events, result, reactor, drainPermit,
                 aliasGC, faults>>

InsertPreview(s) ==
  /\ sub[s].pc = "responded"
  /\ s \in Previews
  /\ pq' = Insert(pq, sub[s].real)
  /\ sub' = [sub EXCEPT ![s].pc = "inserted"]
  /\ UNCHANGED <<gpu, comfy, posts, events, result, reactor, drainPermit,
                 aliasGC, faults, overtaken>>

(* The submitter is through with the prompt. *)
Settled(s, outcome) ==
  IF s = Drain
  THEN /\ sub' = [sub EXCEPT ![s] = At("idle", None)]
       /\ result' = [result EXCEPT ![sub[s].prompt] = outcome]
  ELSE /\ sub' = [sub EXCEPT ![s] = At("done", s)]
       /\ UNCHANGED result

RecordWorker(s) ==
  /\ sub[s].pc \in {"bound", "inserted"}
  /\ pq' = SetWorker(pq, IF sub[s].pc = "inserted" THEN sub[s].real
                                                   ELSE sub[s].prompt,
                     sub[s].worker)
  /\ Settled(s, "ok")
  /\ UNCHANGED <<gpu, comfy, posts, events, reactor, drainPermit, aliasGC,
                 faults, overtaken>>

(* The completion came before the binding, which ended the placeholder:    *)
(* the worker is given back and the drain reactor woken.  The drain        *)
(* reactor reports its prompt as failed.                                   *)
ReleaseDeferred(s) ==
  /\ sub[s].pc = "deferred"
  /\ gpu' = MarkWorkerErrorThenIdle(gpu, sub[s].worker)
  /\ drainPermit' = TRUE
  /\ aliasGC' = IF s = Drain THEN aliasGC ELSE aliasGC \cup {s}
  /\ Settled(s, "err")
  /\ UNCHANGED <<pq, comfy, posts, events, reactor, faults, overtaken>>

(* A fault to test with: the permit is kept, and the prompt held, until    *)
(* its user has no other in the queue.                                     *)
DrainWhenFree ==
  /\ sub[Drain].pc = "idle"
  /\ drainPermit
  /\ pq.held # <<>> => ~ NeedsHold(UserOf[Head(pq.held).prompt])
  /\ drainPermit' = FALSE
  /\ IF pq.held = <<>>
     THEN UNCHANGED <<pq, sub>>
     ELSE /\ sub' = [sub EXCEPT ![Drain] = At("select", Head(pq.held).prompt)]
          /\ pq' = DropNextHeld(pq)
  /\ UNCHANGED <<gpu, comfy, posts, events, result, reactor, aliasGC,
                 faults, overtaken>>

(* The drain reactor takes one held prompt per signal. *)
DrainWake ==
  /\ sub[Drain].pc = "idle"
  /\ drainPermit
  /\ drainPermit' = FALSE
  /\ IF pq.held = <<>>
     THEN UNCHANGED <<pq, sub>>
     ELSE /\ sub' = [sub EXCEPT ![Drain] = At("select", Head(pq.held).prompt)]
          /\ pq' = DropNextHeld(pq)
  /\ UNCHANGED <<gpu, comfy, posts, events, result, reactor, aliasGC, faults,
                 overtaken>>

-----------------------------------------------------------------------------
(***************************************************************************)
(* ComfyUI on a worker: one prompt at a time, in the order of its queue.   *)
(***************************************************************************)

(* The end of an execution is announced by `executing` with a null node,   *)
(* after an `execution_error` when it failed.                              *)
ExecutionEnds(w) ==
  LET r    == Head(comfy[w])
      done == [kind |-> "done", id |-> r]
  IN  /\ comfy[w] # <<>>
      /\ comfy' = [comfy EXCEPT ![w] = Tail(@)]
      /\ \/ /\ events' = Append(events, done)
            /\ UNCHANGED faults
         \/ /\ faults < MaxFaults
            /\ faults' = faults + 1
            /\ events' = events \o <<[kind |-> "error", id |-> r], done>>
      /\ UNCHANGED <<pq, gpu, posts, sub, result, reactor, drainPermit,
                     aliasGC, overtaken>>

-----------------------------------------------------------------------------
(***************************************************************************)
(* The cleanup reactor.                                                    *)
(***************************************************************************)

(* The id under which the queue tracks a request. *)
TrackedId(p) == IF p \in Previews THEN <<p, 1>> ELSE p

(* The event comes too early for a submitter that has the answer and not   *)
(* yet recorded it: the end of the execution, or an error that ends a      *)
(* request whose id is already bound.                                      *)
Overtakes(e, s) ==
  /\ sub[s].real = e.id
  /\ \/ e.kind = "done" /\ sub[s].pc \in {"responded", "inserted", "bound"}
     \/ e.kind = "error" /\ sub[s].pc = "bound"

(* An event is received and its id resolved. *)
ReactorRecv ==
  /\ reactor.pc = "recv"
  /\ events # <<>>
  /\ LET e == Head(events)
     IN  /\ reactor' = [pc |-> "finish", kind |-> e.kind, raw |-> e.id,
                        pid |-> ResolveAlias(pq, e.id), worker |-> None]
         /\ overtaken' = overtaken \cup
              {sub[s].prompt : s \in {t \in Submitters : Overtakes(e, t)}}
  /\ events' = Tail(events)
  /\ UNCHANGED <<pq, gpu, comfy, posts, sub, result, drainPermit, aliasGC,
                 faults>>

(* A fault to test with: the drain reactor is not woken. *)
ReactedQuietly ==
  /\ reactor' = Receiving
  /\ aliasGC' = aliasGC \cup ({reactor.pid} \cap Prompts)
  /\ UNCHANGED drainPermit

(* How the reaction to an event ends: the aliases are to be dropped after  *)
(* a while, and the drain reactor is woken.                                *)
Reacted ==
  /\ reactor' = Receiving
  /\ drainPermit' = TRUE
  /\ aliasGC' = aliasGC \cup ({reactor.pid} \cap Prompts)

ReactorFinish ==
  LET worker == pq.workerMap[reactor.pid]
  IN  /\ reactor.pc = "finish"
      /\ pq' = Finish(pq, reactor.pid)
      /\ \/ /\ worker # None
            /\ reactor' = [reactor EXCEPT !.pc = "release", !.worker = worker]
            /\ overtaken' = {p \in overtaken : TrackedId(p) # reactor.pid}
            /\ UNCHANGED <<drainPermit, aliasGC>>
         \/ /\ worker = None
            /\ reactor.kind = "done"
            /\ reactor' = [reactor EXCEPT !.pc = "park"]
            /\ UNCHANGED <<drainPermit, aliasGC, overtaken>>
         \/ /\ worker = None
            /\ reactor.kind = "error"
            /\ Reacted
            /\ UNCHANGED overtaken
      /\ UNCHANGED <<gpu, comfy, posts, events, sub, result, faults>>

(* Parked ids older than the time to live go: longer than a post may take, *)
(* so no submitter is still waiting to bind one of them.                   *)
ReactorPark ==
  LET late == {r \in Elems(pq.deferred) :
                 \A s \in Submitters : sub[s].pc = "responded" => sub[s].real # r}
  IN  /\ reactor.pc = "park"
      /\ \E expired \in {{}, late} :
           pq' = ParkDeferredFinish(pq, reactor.raw, expired)
      /\ Reacted
      /\ UNCHANGED <<gpu, comfy, posts, events, sub, result, faults,
                     overtaken>>

ReactorRelease ==
  /\ reactor.pc = "release"
  /\ gpu' = IF reactor.kind = "done"
            THEN MarkWorkerIdle(gpu, reactor.worker)
            ELSE MarkWorkerErrorThenIdle(gpu, reactor.worker)
  /\ Reacted
  /\ UNCHANGED <<pq, comfy, posts, events, sub, result, faults, overtaken>>

AliasCleanup ==
  /\ \E p \in aliasGC : /\ pq' = CleanupAlias(pq, p)
                        /\ aliasGC' = aliasGC \ {p}
  /\ UNCHANGED <<gpu, comfy, posts, events, sub, result, reactor, drainPermit,
                 faults, overtaken>>

(* s is between its reservation of w and the record of its prompt. *)
Holds(s, w) ==
  /\ sub[s].exclusive
  /\ sub[s].worker = w
  /\ sub[s].pc \in {"posting", "responded", "inserted", "bound", "deferred"}

(* The watchdog releases a worker that has been reserved for ten minutes   *)
(* and runs no prompt of worker_map.  A post is given up after two, so     *)
(* nobody is still submitting under that reservation.                      *)
Watchdog(w) ==
  /\ gpu.status[w] = "running"
  /\ gpu.reserved[w]
  /\ \A i \in Ids : pq.workerMap[i] # w
  /\ \A s \in Submitters : ~ Holds(s, w)
  /\ gpu' = MarkWorkerIdle(gpu, w)
  /\ UNCHANGED <<pq, comfy, posts, events, sub, result, reactor, drainPermit,
                 aliasGC, faults, overtaken>>

-----------------------------------------------------------------------------
Request(p) == CheckHold(p) \/ SubmitPreview(p)

Submit(s) ==
  \/ SelectIdle(s) \/ SelectRunning(s) \/ SelectNone(s) \/ SelectTimeout(s)
  \/ PostAccepted(s) \/ PostFailed(s) \/ AnswerLost(s)
  \/ Bind(s) \/ InsertPreview(s) \/ RecordWorker(s) \/ ReleaseDeferred(s)

Task(p) ==
  \/ InsertAndSpawn(p) \/ HoldPrompt(p) \/ SubmitDirectly(p) \/ TakeResult(p)
  \/ Submit(p)

DrainReactor == DrainWake \/ Submit(Drain)

CleanupReactor == ReactorRecv \/ ReactorFinish \/ ReactorPark \/ ReactorRelease

(* What the runtime, ComfyUI and the timers do, whatever clients send. *)
Serve ==
  \/ \E p \in Prompts : Task(p)
  \/ DrainReactor
  \/ CleanupReactor
  \/ AliasCleanup
  \/ \E w \in Workers : ExecutionEnds(w) \/ Watchdog(w)

(* Every request has been answered and nothing is left to do: the server   *)
(* waits for the next one, which the bounded set of requests does not have.*)
Next == Serve \/ \E p \in Prompts : Request(p)

Spec == Init /\ [][Next]_vars

(* The server does not rest as long as it can do anything: the runtime     *)
(* polls a task that can run, ComfyUI ends what it starts, and timers      *)
(* fire.  A request takes finitely many steps in each of them, so none has *)
(* to be fair to the others.  Clients may send nothing more.               *)
Fairness == WF_vars(Serve)

FairSpec == Spec /\ Fairness

-----------------------------------------------------------------------------
(***************************************************************************)
(* Properties.                                                             *)
(***************************************************************************)

(* Events, outputs and queue operations are filtered by is_owned_by of the *)
(* resolved id: whatever id a named account passes this filter with, real  *)
(* or placeholder, bound, forgotten or never bound, it sent that request.  *)
OwnershipIsolation ==
  \A i \in Ids, u \in Users :
    IsOwnedBy(pq, ResolveAlias(pq, i), u) => UserOfId(i) = u

(* A task that awaits `submitted` will be notified: its prompt is held, in *)
(* the hands of the drain reactor, or its result is there.                 *)
NoOrphanWaiter ==
  \A p \in Prompts : sub[p].pc = "waiting" =>
    \/ result[p] # "none"
    \/ sub[Drain].prompt = p
    \/ [prompt |-> p, awaited |-> TRUE] \in Elems(pq.held)

(* No request reaches ComfyUI twice, over its own task and the drain       *)
(* reactor and whatever the order of events.                               *)
PostedAtMostOnce == \A p \in Prompts : posts[p] <= 1

(* The steps before a post, and a request nobody has posted or answered.  *)
Unposted == {"new", "checked", "spawned", "select", "waitWorker", "posting"}

Fresh(p) == posts[p] = 0 /\ result[p] = "none"

IsHeld(p) == \E k \in 1..Len(pq.held) : pq.held[k].prompt = p

(* A request is in one pair of hands: what the held list or the drain      *)
(* reactor has is waited for by its task, has no result yet, and until the *)
(* drain reactor posts it it has never been posted; the held list has it   *)
(* once, and never while the drain reactor has it.                         *)
OneHolder ==
  /\ \A j, k \in 1..Len(pq.held) :
       pq.held[j].prompt = pq.held[k].prompt => j = k
  /\ \A p \in Prompts :
       /\ sub[p].pc \in Unposted => Fresh(p)
       /\ IsHeld(p) => sub[p].pc = "waiting" /\ Fresh(p) /\ sub[Drain].prompt # p
       /\ sub[Drain].prompt = p =>
            /\ sub[p].pc = "waiting"
            /\ result[p] = "none"
            /\ sub[Drain].pc \in Unposted => Fresh(p)

(* Nothing that wakes the drain reactor is lost while it is busy with      *)
(* another prompt: as long as something in flight still ends in a          *)
(* completion signal, the prompt at the head of the held list gets its     *)
(* turn.                                                                   *)
CompletionAhead ==
  \/ drainPermit
  \/ sub[Drain].pc # "idle"
  \/ events # <<>>
  \/ reactor.pc # "recv"
  \/ \E w \in Workers : comfy[w] # <<>>

(* A failed prompt's own task reports the failure, which is a signal, too. *)
SignalAhead ==
  CompletionAhead \/ \E p \in Prompts : sub[p].pc = "waiting" /\ result[p] = "err"

(* A signal that is on its way while prompts are held stays on its way,    *)
(* whichever task has it, until the drain reactor takes a prompt for it,   *)
(* and serving one prompt ends in the signal for the next.                 *)
SignalKept == [][SignalAhead /\ pq.held # <<>> => SignalAhead']_vars

HeldHead(p) == pq.held # <<>> /\ Head(pq.held).prompt = p

(* The head of the held list does not stay there while a signal is ahead,  *)
(* whatever the drain reactor does for other prompts meanwhile: as no      *)
(* signal gets lost (SignalKept), one that comes is served.                *)
HeldHeadIsDrained ==
  \A p \in Prompts : []<> ~ (HeldHead(p) /\ SignalAhead)

(* The drain reactor serves every held prompt: whatever happens to one     *)
(* submission, it comes back for the next signal.                          *)
DrainComesBack == []<> (sub[Drain].pc = "idle")

(* The end of the request was handled between the answer to its post and   *)
(* the record of it, and no parked finish made up for that: the binding    *)
(* lost it to the reactor's own steps, the map of parked ids was full, or  *)
(* the step that came late was the insertion of a preview or the record of *)
(* the worker.  The code then forgets the request (see BoundIdWasFinished  *)
(* and WatchdogReleases).                                                  *)
Missed(p) ==
  /\ p \in overtaken
  /\ \A s \in Submitters : sub[s].prompt = p => sub[s].pc # "responded"

(* A prompt ComfyUI has accepted leaves the queue, so that its user's next *)
(* request is not held forever, also when its completion comes before its  *)
(* answer, unless the completion was missed.                               *)
AcceptedLeavesQueue ==
  \A p \in Prompts :
    []<> (posts[p] > 0 => TrackedId(p) \notin pq.queue \/ Missed(p))

(* The completion that will be resolved to i is on its way: ComfyUI has    *)
(* the prompt, its end is in the channel, or the reactor is about to       *)
(* finish i.                                                               *)
InComfy(r) == \E w \in Workers : r \in Elems(comfy[w])

OnItsWay(i) ==
  \/ \E r \in Reals : /\ ResolveAlias(pq, r) = i
                      /\ InComfy(r) \/ [kind |-> "done", id |-> r] \in Elems(events)
  \/ reactor.pc = "finish" /\ reactor.pid = i

(* An accepted prompt that is still in the queue has something coming that *)
(* takes it out: a completion under the id it is tracked by, a submitter   *)
(* with the answer in its hands, or a failure its task will find; unless   *)
(* its completion was missed.  A completion that comes before the answer   *)
(* is parked and takes the prompt out as the answer is bound.              *)
AcceptedEnds ==
  \A p \in Prompts : posts[p] > 0 /\ TrackedId(p) \in pq.queue =>
    \/ OnItsWay(TrackedId(p))
    \/ \E s \in Submitters : sub[s].prompt = p /\ sub[s].pc = "responded"
    \/ sub[p].pc = "waiting" /\ result[p] = "err"
    \/ Missed(p)

(* The worker is recorded for a request whose end was missed. *)
Forgotten(w) ==
  \E p \in Prompts : Missed(p) /\ pq.workerMap[TrackedId(p)] = w

(* A reserved worker has somebody who gives it back: the submitter that    *)
(* reserved it, the end of a prompt that is recorded for it, or the        *)
(* reactor; unless the end of such a prompt was missed.                    *)
ReservationIsWatched ==
  \A w \in Workers : gpu.reserved[w] =>
    \/ \E s \in Submitters : Holds(s, w)
    \/ \E i \in Ids : pq.workerMap[i] = w /\ OnItsWay(i)
    \/ reactor.pc = "release" /\ reactor.worker = w
    \/ Forgotten(w)

(* A reserved worker is released again, also when its completion comes     *)
(* before the answer and when prompts share it, unless it is recorded for  *)
(* a request whose end was missed.                                         *)
ReservationEnds ==
  \A w \in Workers : []<> (gpu.reserved[w] => Forgotten(w))

-----------------------------------------------------------------------------
(***************************************************************************)
(* What the documentation of the code says, and the code does not do.      *)
(***************************************************************************)

(* state.rs on HeldPrompt: only one prompt per user is submitted at a time.*)
SubmittedOf(u) ==
  {p \in Prompts : /\ UserOf[p] = u
                   /\ p \in pq.queue
                   /\ \E r \in Reals : pq.aliases[r] = p}

OnePromptPerUser == \A u \in Users : Cardinality(SubmittedOf(u)) <= 1

(* webserver.rs on the drain reactor and the hold: a prompt is held until  *)
(* a slot opens for its user, and a finishing prompt submits the next one. *)
HoldEnds == \A p \in Prompts : sub[p].pc = "waiting" ~> sub[p].pc # "waiting"

(* state.rs on park_deferred_finish: an id that is already bound as an     *)
(* alias was finished through its own record.                              *)
BoundIdWasFinished ==
  (reactor.pc = "park" /\ reactor.raw \in Reals) =>
    (pq.aliases[reactor.raw] # None => pq.aliases[reactor.raw] \notin pq.queue)

(* webserver.rs on the watchdog: a worker that stays reserved without a    *)
(* queue entry is released.                                                *)
Stuck(w) ==
  /\ gpu.status[w] = "running"
  /\ gpu.reserved[w]
  /\ \A i \in pq.queue : pq.workerMap[i] # w

WatchdogReleases == \A w \in Workers : Stuck(w) ~> ~ Stuck(w)

(* gpu_manager.rs: workers are reserved atomically, one prompt at a time   *)
(* per GPU.                                                                *)
ReservationIsExclusive ==
  \A s, t \in Submitters : \A w \in Workers : Holds(s, w) /\ Holds(t, w) => s = t

(* state.rs on is_owned_by: true if the prompt is untracked.               *)
UntrackedIsVisible ==
  \A i \in Ids, u \in Users : pq.owners[i] = None => IsOwnedBy(pq, i, u)

=============================================================================

------------------------ MODULE GenerationServerProofs ------------------------
(***************************************************************************)
(* The safety properties of GenerationServer, for any number of requests,  *)
(* users and workers.                                                      *)
(***************************************************************************)
EXTENDS GenerationServer, SeqRetainProofs

(* What every method of the PromptQueue preserves, whoever calls it and in *)
(* whatever order: the type of the queue, and the soundness of the two     *)
(* maps that decide who may see a prompt.                                  *)

(* A resolved id belongs to the request it was resolved from, and an entry *)
(* of the owner map is the sender of the request or the admin.             *)
AliasesSound(q) == \A r \in Reals : q.aliases[r] \in {None, JobOf(r)}

OwnersSound(q) == \A i \in Ids : q.owners[i] \in {None, Admin, UserOfId(i)}

QueueSound(q) == AliasesSound(q) /\ OwnersSound(q)

-----------------------------------------------------------------------------
(* Types. *)

(* The request of a real id is one of the requests, and it has an owner.   *)
LEMMA JobType ==
  /\ \A r \in Reals : JobOf(r) \in Prompts
  /\ \A i \in Ids : UserOfId(i) \in Owners
<1>1. \A r \in Reals : JobOf(r) \in Prompts
  BY DEF Reals, JobOf
<1>2. \A i \in Ids : UserOfId(i) \in Owners
  BY <1>1, OwnersAssumption DEF Ids, UserOfId
<1> QED
  BY <1>1, <1>2

(* A new queue has the queue's type and no unsound entry.                  *)
LEMMA EmptyQueueType == EmptyQueue \in QueueType /\ QueueSound(EmptyQueue)
<1>1. EmptyQueue \in QueueType
  BY DEF EmptyQueue, QueueType
<1>2. QueueSound(EmptyQueue)
  BY DEF EmptyQueue, QueueSound, AliasesSound, OwnersSound, Ids
<1> QED
  BY <1>1, <1>2

(* insert, set_worker, finish and the pushes to and pops from the held     *)
(* list keep the type of the queue.                                        *)
LEMMA InsertType ==
  ASSUME NEW q \in QueueType, NEW i \in Ids
  PROVE  Insert(q, i) \in QueueType
BY JobType DEF Insert, QueueType

(* set_worker keeps the type of the queue.                                 *)
LEMMA SetWorkerType ==
  ASSUME NEW q \in QueueType, NEW i \in Ids, NEW w \in Workers
  PROVE  SetWorker(q, i, w) \in QueueType
BY DEF SetWorker, QueueType

(* finish keeps the type of the queue.                                     *)
LEMMA FinishType ==
  ASSUME NEW q \in QueueType, NEW i \in Ids
  PROVE  Finish(q, i) \in QueueType
BY DEF Finish, QueueType

(* Pushing a prompt to the held list keeps the type of the queue.          *)
LEMMA HoldType ==
  ASSUME NEW q \in QueueType, NEW p \in Prompts
  PROVE  Hold(q, p) \in QueueType
<1>1. [prompt |-> p, awaited |-> TRUE] \in HeldPrompt
  BY DEF HeldPrompt
<1> QED
  BY <1>1, AppendProperties DEF Hold, QueueType

(* take_next_held keeps the type of the queue and returns a held prompt.   *)
LEMMA DropNextHeldType ==
  ASSUME NEW q \in QueueType, q.held # <<>>
  PROVE  /\ DropNextHeld(q) \in QueueType
         /\ Head(q.held) \in HeldPrompt
<1>1. q.held \in Seq(HeldPrompt)
  BY DEF QueueType
<1>2. Head(q.held) \in HeldPrompt /\ Tail(q.held) \in Seq(HeldPrompt)
  BY <1>1, HeadTailProperties
<1> QED
  BY <1>2 DEF DropNextHeld, QueueType

(* bind_alias keeps the type of the queue.                                 *)
LEMMA BindAliasType ==
  ASSUME NEW q \in QueueType, NEW p \in Prompts, NEW r \in Reals
  PROVE  BindAlias(q, p, r) \in QueueType
<1> DEFINE owner == IF q.owners[p] = None THEN Admin ELSE q.owners[p]
<1>1. p \in Ids /\ r \in Ids
  BY DEF Ids
<1>2. owner \in Owners
  BY <1>1 DEF QueueType, Owners
<1>3. Without(q.deferred, {r}) \in Seq(Reals)
  BY WithoutProperties DEF QueueType
<1> HIDE DEF owner
<1> DEFINE bound == [q EXCEPT !.aliases[r] = p, !.owners[r] = owner,
                               !.deferred = Without(@, {r})]
<1>4. bound \in QueueType
  BY <1>1, <1>2, <1>3 DEF QueueType
<1>5. [bound EXCEPT !.workerMap[p] = None, !.queue = @ \ {p}, !.owners[p] = None]
        \in QueueType
  <2> HIDE DEF bound
  <2> QED
    BY <1>1, <1>4 DEF QueueType
<1> QED
  BY <1>4, <1>5 DEF BindAlias, owner

(* park_deferred_finish keeps the type of the queue.                       *)
LEMMA ParkType ==
  ASSUME NEW q \in QueueType, NEW i \in Reals, NEW D
  PROVE  ParkDeferredFinish(q, i, D) \in QueueType
<1> DEFINE fresh == Without(q.deferred, D)
           room  == IF Len(fresh) >= DeferredCap THEN Tail(fresh) ELSE fresh
<1>1. fresh \in Seq(Reals)
  BY WithoutProperties DEF QueueType
<1>2. room \in Seq(Reals)
  <2> HIDE DEF fresh
  <2>1. CASE Len(fresh) >= DeferredCap
    <3>1. fresh # <<>>
      BY <2>1, BoundsAssumption, <1>1
    <3> QED
      BY <3>1, <1>1, <2>1, HeadTailProperties
  <2>2. CASE ~ (Len(fresh) >= DeferredCap)
    BY <2>2, <1>1
  <2> QED
    BY <2>1, <2>2
<1>3. Without(room, {i}) \in Seq(Reals)
  <2> HIDE DEF room
  <2> QED
    BY <1>2, WithoutProperties
<1>4. Append(Without(room, {i}), i) \in Seq(Reals)
  BY <1>3, AppendProperties
<1> QED
  BY <1>4 DEF ParkDeferredFinish, QueueType

(* cleanup_alias keeps the type of the queue.                              *)
LEMMA CleanupAliasType ==
  ASSUME NEW q \in QueueType, NEW p \in Prompts
  PROVE  CleanupAlias(q, p) \in QueueType
BY DEF CleanupAlias, QueueType

(* A resolved id is an id.                                                 *)
LEMMA ResolveAliasType ==
  ASSUME NEW q \in QueueType, NEW i \in Ids
  PROVE  ResolveAlias(q, i) \in Ids
BY DEF ResolveAlias, QueueType, Ids

-----------------------------------------------------------------------------
(* Soundness of the owner and alias maps. *)

(* insert records the sender of the request as the owner.                  *)
LEMMA InsertSound ==
  ASSUME NEW q \in QueueType, QueueSound(q), NEW i \in Ids
  PROVE  QueueSound(Insert(q, i))
BY DEF Insert, QueueType, QueueSound, AliasesSound, OwnersSound

(* set_worker and the held list do not touch the maps.                     *)
LEMMA UntouchedSound ==
  ASSUME NEW q \in QueueType, QueueSound(q)
  PROVE  /\ \A i \in Ids, w \in Workers : QueueSound(SetWorker(q, i, w))
         /\ \A i \in Ids : QueueSound(Finish(q, i))
         /\ \A p \in Prompts : QueueSound(Hold(q, p))
         /\ QueueSound(DropNextHeld(q))
         /\ \A i, D : QueueSound(ParkDeferredFinish(q, i, D))
BY DEF SetWorker, Finish, Hold, DropNextHeld, ParkDeferredFinish, QueueType,
       QueueSound, AliasesSound, OwnersSound

(* bind_alias copies the owner of a request to an id of the same request.  *)
LEMMA BindAliasSound ==
  ASSUME NEW q \in QueueType, QueueSound(q), NEW r \in Reals
  PROVE  QueueSound(BindAlias(q, JobOf(r), r))
<1> DEFINE p == JobOf(r)
           owner == IF q.owners[p] = None THEN Admin ELSE q.owners[p]
           bound == [q EXCEPT !.aliases[r] = p, !.owners[r] = owner,
                               !.deferred = Without(@, {r})]
<1>1. p \in Prompts /\ p \in Ids /\ r \in Ids
  BY JobType DEF Ids
<1>2. r \notin Prompts /\ UserOfId(r) = UserOfId(p)
  BY <1>1, IdsAssumption DEF UserOfId
<1>3. owner \in {Admin, UserOfId(r)}
  BY <1>1, <1>2 DEF QueueSound, OwnersSound
<1> HIDE DEF owner
<1>4. QueueSound(bound) /\ bound.owners \in [Ids -> Owners \cup {None, owner}]
  BY <1>1, <1>3 DEF QueueType, QueueSound, AliasesSound, OwnersSound
<1> HIDE DEF bound, p
<1>5. QueueSound([bound EXCEPT !.workerMap[p] = None, !.queue = @ \ {p},
                               !.owners[p] = None])
  BY <1>1, <1>4 DEF QueueSound, AliasesSound, OwnersSound
<1> QED
  BY <1>4, <1>5 DEF BindAlias, bound, owner, p

(* cleanup_alias only removes aliases.                                     *)
LEMMA CleanupAliasSound ==
  ASSUME NEW q \in QueueType, QueueSound(q), NEW p \in Prompts
  PROVE  QueueSound(CleanupAlias(q, p))
BY DEF CleanupAlias, QueueType, QueueSound, AliasesSound, OwnersSound

(* With sound maps the filter of events, outputs and queue operations lets *)
(* a named account see its own requests only.                              *)
LEMMA SoundIsolation ==
  ASSUME NEW q \in QueueType, QueueSound(q), NEW i \in Ids, NEW u \in Users,
         IsOwnedBy(q, ResolveAlias(q, i), u)
  PROVE  UserOfId(i) = u
<1> DEFINE j == ResolveAlias(q, i)
<1>1. j \in Ids /\ UserOfId(j) = UserOfId(i)
  BY JobType, IdsAssumption
     DEF ResolveAlias, QueueType, QueueSound, AliasesSound, UserOfId, Ids
<1>2. u # Admin /\ u # None
  BY OwnersAssumption DEF Owners
<1>3. q.owners[j] = u
  BY <1>2 DEF IsOwnedBy
<1> HIDE DEF j
<1> QED
  BY <1>1, <1>2, <1>3 DEF QueueSound, OwnersSound

-----------------------------------------------------------------------------

(* The part of TypeOK about the submitters.                                *)
SubType ==
  /\ sub \in [Submitters -> Submission]
  /\ \A p \in Prompts : sub[p].prompt = p
  /\ \A s \in Submitters : SubmissionOK(sub[s])

(* A submitter that takes a step to a well-formed submission keeps them    *)
(* all well-formed.                                                        *)
LEMMA SubStep ==
  ASSUME SubType, NEW s \in Submitters, NEW x \in Submission, SubmissionOK(x),
         s \in Prompts => x.prompt = s, sub' = [sub EXCEPT ![s] = x]
  PROVE  SubType'
BY DEF SubType, Submitters

(* A submitter with nothing in its hands is well-formed.                   *)
LEMMA AtType ==
  /\ At("idle", None) \in Submission /\ SubmissionOK(At("idle", None))
  /\ \A p \in Prompts, pc \in {"new", "select", "done"} :
       /\ At(pc, p) \in Submission
       /\ SubmissionOK(At(pc, p))
       /\ At(pc, p).prompt = p
<1>1. At("idle", None) \in Submission /\ SubmissionOK(At("idle", None))
  BY DEF At, Submission, SubmissionOK, TaskPC
<1>2. ASSUME NEW p \in Prompts, NEW pc \in {"new", "select", "done"}
      PROVE  At(pc, p) \in Submission /\ SubmissionOK(At(pc, p)) /\ At(pc, p).prompt = p
  BY DEF At, Submission, SubmissionOK, TaskPC
<1> QED
  BY <1>1, <1>2

(* What a submission may be turned into: its step, hold flag, worker,      *)
(* reservation and real id change, never its prompt.                       *)
LEMMA SubmissionStep ==
  ASSUME NEW y \in Submission, SubmissionOK(y), y.pc # "idle"
  PROVE  /\ \A h \in BOOLEAN :
              LET x == [y EXCEPT !.pc = "checked", !.hold = h]
              IN  x \in Submission /\ SubmissionOK(x) /\ x.prompt = y.prompt
         /\ \A pc \in {"spawned", "waiting", "select", "waitWorker"} :
              LET x == [y EXCEPT !.pc = pc]
              IN  x \in Submission /\ SubmissionOK(x) /\ x.prompt = y.prompt
         /\ \A w \in Workers :
              LET x == [y EXCEPT !.pc = "posting", !.worker = w]
              IN  x \in Submission /\ SubmissionOK(x) /\ x.prompt = y.prompt
         /\ \A w \in Workers :
              LET x == [y EXCEPT !.pc = "posting", !.worker = w, !.exclusive = TRUE]
              IN  x \in Submission /\ SubmissionOK(x) /\ x.prompt = y.prompt
         /\ \A r \in Reals :
              LET x == [y EXCEPT !.pc = "responded", !.real = r]
              IN  y.pc = "posting" =>
                    x \in Submission /\ SubmissionOK(x) /\ x.prompt = y.prompt
         /\ \A pc \in {"inserted", "bound", "deferred"} :
              LET x == [y EXCEPT !.pc = pc]
              IN  y.pc = "responded" =>
                    x \in Submission /\ SubmissionOK(x) /\ x.prompt = y.prompt
<1> USE DEF Submission, SubmissionOK, TaskPC
<1>1. ASSUME NEW h \in BOOLEAN
      PROVE  LET x == [y EXCEPT !.pc = "checked", !.hold = h]
             IN  x \in Submission /\ SubmissionOK(x) /\ x.prompt = y.prompt
  OBVIOUS
<1>2. ASSUME NEW pc \in {"spawned", "waiting", "select", "waitWorker"}
      PROVE  LET x == [y EXCEPT !.pc = pc]
             IN  x \in Submission /\ SubmissionOK(x) /\ x.prompt = y.prompt
  OBVIOUS
<1>3. ASSUME NEW w \in Workers
      PROVE  LET x == [y EXCEPT !.pc = "posting", !.worker = w]
             IN  x \in Submission /\ SubmissionOK(x) /\ x.prompt = y.prompt
  OBVIOUS
<1>4. ASSUME NEW w \in Workers
      PROVE  LET x == [y EXCEPT !.pc = "posting", !.worker = w, !.exclusive = TRUE]
             IN  x \in Submission /\ SubmissionOK(x) /\ x.prompt = y.prompt
  OBVIOUS
<1>5. ASSUME NEW r \in Reals, y.pc = "posting"
      PROVE  LET x == [y EXCEPT !.pc = "responded", !.real = r]
             IN  x \in Submission /\ SubmissionOK(x) /\ x.prompt = y.prompt
  BY <1>5
<1>6. ASSUME NEW pc \in {"inserted", "bound", "deferred"}, y.pc = "responded"
      PROVE  LET x == [y EXCEPT !.pc = pc]
             IN  x \in Submission /\ SubmissionOK(x) /\ x.prompt = y.prompt
  BY <1>6
<1> HIDE DEF Submission, SubmissionOK, TaskPC
<1> QED
  BY <1>1, <1>2, <1>3, <1>4, <1>5, <1>6

(* TypeOK holds initially.                                                 *)
LEMMA InitType == Init => TypeOK
<1> SUFFICES ASSUME Init PROVE TypeOK
  OBVIOUS
<1>1. pq \in QueueType
  BY EmptyQueueType DEF Init
<1>2. gpu \in GpuType(Workers)
  BY DEF Init, AllIdle, GpuType, WorkerStatus
<1>3. /\ sub \in [Submitters -> Submission]
      /\ \A p \in Prompts : sub[p].prompt = p
      /\ \A s \in Submitters : SubmissionOK(sub[s])
  <2>1. sub[Drain] = At("idle", None) /\ \A p \in Prompts : sub[p] = At("new", p)
    BY ServerAssumption DEF Init, Submitters
  <2>2. /\ \A s \in Submitters : sub[s] \in Submission /\ SubmissionOK(sub[s])
        /\ \A p \in Prompts : sub[p].prompt = p
    BY <2>1, AtType DEF Submitters
  <2>3. sub \in [Submitters -> Submission]
    BY <2>2 DEF Init
  <2> QED
    BY <2>2, <2>3
<1>4. reactor \in Reaction
  BY DEF Init, Receiving, Reaction
<1>5. reactor.pc = "recv"
  BY DEF Init, Receiving
<1>6. comfy \in [Workers -> Seq(Reals)]
  <2>1. <<>> \in Seq(Reals)
    OBVIOUS
  <2> QED
    BY <2>1 DEF Init
<1>7. /\ posts \in [Prompts -> 0..MaxPosts]
      /\ events \in Seq(Event)
      /\ result \in [Prompts -> {"none", "ok", "err"}]
      /\ aliasGC \subseteq Prompts
      /\ overtaken \subseteq Prompts
      /\ faults \in 0..MaxFaults
  BY ServerAssumption, BoundsAssumption DEF Init
<1>8. drainPermit \in BOOLEAN
  BY Zenon DEF Init
<1> QED
  BY <1>1, <1>2, <1>3, <1>4, <1>5, <1>6, <1>7, <1>8 DEF TypeOK

(* What the submitters are, read off TypeOK.                               *)
LEMMA SubFacts ==
  ASSUME TypeOK
  PROVE  /\ SubType
         /\ \A s \in Submitters : sub[s] \in Submission /\ SubmissionOK(sub[s])
         /\ \A p \in Prompts : p \in Submitters /\ sub[p].prompt = p
         /\ \A s \in Submitters : sub[s].pc # "idle" => sub[s].prompt \in Prompts
         /\ Drain \in Submitters
BY DEF TypeOK, SubType, Submitters, SubmissionOK

(* The end of a failed submission keeps the types of what it changes.      *)
LEMMA SubmitFailedType ==
  ASSUME TypeOK, NEW s \in Submitters, sub[s].pc # "idle", SubmitFailed(s)
  PROVE  /\ SubType'
         /\ pq' \in QueueType
         /\ events' \in Seq(Event)
         /\ result' \in [Prompts -> {"none", "ok", "err"}]
<1>1. CASE s = Drain
  <2>1. SubType'
    BY <1>1, AtType, SubFacts, SubStep, ServerAssumption DEF SubmitFailed
  <2> QED
    BY <1>1, <2>1, SubFacts DEF SubmitFailed, TypeOK
<1>2. CASE s # Drain
  <2>1. s \in Prompts /\ s \in Ids
    BY <1>2 DEF Submitters, Ids
  <2>2. SubType'
    BY <1>2, <2>1, AtType, SubFacts, SubStep DEF SubmitFailed
  <2>3. [kind |-> "error", id |-> s] \in Event
    BY <2>1 DEF Event
  <2>4. events \in Seq(Event) /\ pq \in QueueType
    BY DEF TypeOK
  <2>5. pq' \in QueueType /\ events' \in Seq(Event)
    BY <1>2, <2>1, <2>3, <2>4, FinishType, AppendProperties DEF SubmitFailed
  <2> QED
    BY <1>2, <2>2, <2>5 DEF SubmitFailed, TypeOK
<1> QED
  BY <1>1, <1>2

(* The end of a submission keeps the types of what it changes.             *)
LEMMA SettledType ==
  ASSUME TypeOK, NEW s \in Submitters, sub[s].pc # "idle",
         NEW outcome \in {"ok", "err"}, Settled(s, outcome)
  PROVE  /\ SubType'
         /\ result' \in [Prompts -> {"none", "ok", "err"}]
<1>1. CASE s = Drain
  <2>1. SubType'
    BY <1>1, AtType, SubFacts, SubStep, ServerAssumption DEF Settled
  <2> QED
    BY <1>1, <2>1, SubFacts DEF Settled, TypeOK
<1>2. CASE s # Drain
  <2>1. s \in Prompts
    BY <1>2 DEF Submitters
  <2>2. SubType'
    BY <1>2, <2>1, AtType, SubFacts, SubStep DEF Settled
  <2> QED
    BY <1>2, <2>2 DEF Settled, TypeOK
<1> QED
  BY <1>1, <1>2

(* Every operation of the GpuManager keeps the type of the workers.        *)
LEMMA GpuStepType ==
  ASSUME NEW g \in GpuType(Workers), NEW w \in Workers
  PROVE  /\ ReserveAndRun(g, w) \in GpuType(Workers)
         /\ \A status \in {"idle", "error"} : ReleaseAs(g, w, status) \in GpuType(Workers)
         /\ MarkWorkerIdle(g, w) \in GpuType(Workers)
         /\ MarkWorkerErrorThenIdle(g, w) \in GpuType(Workers)
BY DEF GpuType, ReserveAndRun, ReleaseAs, MarkWorkerIdle, MarkWorkerErrorThenIdle,
       WorkerStatus

(* The request handler and its task keep TypeOK.                           *)
LEMMA TaskType ==
  ASSUME TypeOK, NEW p \in Prompts,
         \/ Request(p) \/ InsertAndSpawn(p) \/ HoldPrompt(p)
         \/ SubmitDirectly(p) \/ TakeResult(p)
  PROVE  TypeOK'
<1>0. p \in Submitters /\ p \in Ids /\ sub[p] \in Submission /\ SubmissionOK(sub[p])
      /\ sub[p].prompt = p
  BY SubFacts DEF Ids
<1>1. CASE CheckHold(p)
  <2> DEFINE x == [sub[p] EXCEPT !.pc = "checked", !.hold = NeedsHold(UserOf[p])]
  <2>1. NeedsHold(UserOf[p]) \in BOOLEAN
    BY DEF NeedsHold
  <2>2. x \in Submission /\ SubmissionOK(x) /\ x.prompt = p
    BY <1>0, <1>1, <2>1, SubmissionStep DEF CheckHold
  <2>3. SubType'
    BY <1>0, <1>1, <2>2, SubFacts, SubStep DEF CheckHold
  <2> QED
    BY <1>1, <2>3 DEF CheckHold, TypeOK, SubType
<1>2. CASE InsertAndSpawn(p)
  <2> DEFINE x == [sub[p] EXCEPT !.pc = "spawned"]
  <2>1. x \in Submission /\ SubmissionOK(x) /\ x.prompt = p
    BY <1>0, <1>2, SubmissionStep DEF InsertAndSpawn
  <2>2. SubType'
    BY <1>0, <1>2, <2>1, SubFacts, SubStep DEF InsertAndSpawn
  <2>3. pq' \in QueueType
    BY <1>0, <1>2, InsertType DEF InsertAndSpawn, TypeOK
  <2> QED
    BY <1>2, <2>2, <2>3 DEF InsertAndSpawn, TypeOK, SubType
<1>3. CASE HoldPrompt(p)
  <2> DEFINE x == [sub[p] EXCEPT !.pc = "waiting"]
  <2>1. x \in Submission /\ SubmissionOK(x) /\ x.prompt = p
    BY <1>0, <1>3, SubmissionStep DEF HoldPrompt
  <2>2. SubType'
    BY <1>0, <1>3, <2>1, SubFacts, SubStep DEF HoldPrompt
  <2>3. pq' \in QueueType
    BY <1>0, <1>3, HoldType DEF HoldPrompt, TypeOK
  <2> QED
    BY <1>3, <2>2, <2>3 DEF HoldPrompt, TypeOK, SubType
<1>4. CASE SubmitDirectly(p) \/ SubmitPreview(p)
  <2> DEFINE x == [sub[p] EXCEPT !.pc = "select"]
  <2>1. x \in Submission /\ SubmissionOK(x) /\ x.prompt = p
    BY <1>0, <1>4, SubmissionStep DEF SubmitDirectly, SubmitPreview
  <2>2. SubType'
    BY <1>0, <1>4, <2>1, SubFacts, SubStep DEF SubmitDirectly, SubmitPreview
  <2> QED
    BY <1>4, <2>2 DEF SubmitDirectly, SubmitPreview, TypeOK, SubType
<1>5. CASE TakeResult(p)
  <2>1. SubType'
    BY <1>0, <1>5, AtType, SubFacts, SubStep DEF TakeResult
  <2>2. [kind |-> "error", id |-> p] \in Event
    BY <1>0 DEF Event
  <2>3. Append(events, [kind |-> "error", id |-> p]) \in Seq(Event)
    BY <2>2, AppendProperties DEF TypeOK
  <2>4. CleanupAlias(Finish(pq, p), p) \in QueueType
    BY <1>0, FinishType, CleanupAliasType DEF TypeOK
  <2>5. pq' \in QueueType /\ events' \in Seq(Event)
    BY <1>5, <2>3, <2>4 DEF TakeResult, TypeOK
  <2> QED
    BY <1>5, <2>1, <2>5 DEF TakeResult, TypeOK, SubType
<1> QED
  BY <1>1, <1>2, <1>3, <1>4, <1>5 DEF Request

(* submit_prompt and what a submitter records of its answer keep TypeOK.   *)
LEMMA SubmitType ==
  ASSUME TypeOK, NEW s \in Submitters, Submit(s)
  PROVE  TypeOK'
<1>0. sub[s] \in Submission /\ SubmissionOK(sub[s]) /\ (s \in Prompts => sub[s].prompt = s)
  BY SubFacts
<1>1. CASE SelectIdle(s)
  <2>1. PICK w \in Workers :
          /\ gpu' = ReserveAndRun(gpu, w)
          /\ sub' = [sub EXCEPT ![s] = [@ EXCEPT !.pc = "posting", !.worker = w,
                                                 !.exclusive = TRUE]]
    BY <1>1 DEF SelectIdle
  <2> DEFINE x == [sub[s] EXCEPT !.pc = "posting", !.worker = w, !.exclusive = TRUE]
  <2>2. x \in Submission /\ SubmissionOK(x) /\ x.prompt = sub[s].prompt
    BY <1>0, <1>1, SubmissionStep DEF SelectIdle
  <2>3. SubType'
    BY <1>0, <2>1, <2>2, SubFacts, SubStep
  <2>4. gpu' \in GpuType(Workers)
    BY <2>1, GpuStepType DEF TypeOK
  <2> QED
    BY <1>1, <2>3, <2>4 DEF SelectIdle, TypeOK, SubType
<1>2. CASE SelectRunning(s)
  <2>1. PICK w \in Workers :
          sub' = [sub EXCEPT ![s] = [@ EXCEPT !.pc = "posting", !.worker = w]]
    BY <1>2 DEF SelectRunning
  <2> DEFINE x == [sub[s] EXCEPT !.pc = "posting", !.worker = w]
  <2>2. x \in Submission /\ SubmissionOK(x) /\ x.prompt = sub[s].prompt
    BY <1>0, <1>2, SubmissionStep DEF SelectRunning
  <2>3. SubType'
    BY <1>0, <2>1, <2>2, SubFacts, SubStep
  <2> QED
    BY <1>2, <2>3 DEF SelectRunning, TypeOK, SubType
<1>10. CASE SelectNone(s)
  <2> DEFINE x == [sub[s] EXCEPT !.pc = "waitWorker"]
  <2>1. x \in Submission /\ SubmissionOK(x) /\ x.prompt = sub[s].prompt
    BY <1>0, <1>10, SubmissionStep DEF SelectNone
  <2>2. SubType'
    BY <1>0, <1>10, <2>1, SubFacts, SubStep DEF SelectNone
  <2> QED
    BY <1>10, <2>2 DEF SelectNone, TypeOK, SubType
<1>3. CASE SelectTimeout(s)
  <2>1. sub[s].pc # "idle" /\ SubmitFailed(s)
    BY <1>3 DEF SelectTimeout
  <2> QED
    BY <1>3, <2>1, SubmitFailedType DEF SelectTimeout, TypeOK, SubType
<1>4. CASE PostAccepted(s)
  <2> DEFINE p == sub[s].prompt
             r == <<p, posts[p] + 1>>
             w == sub[s].worker
             x == [sub[s] EXCEPT !.pc = "responded", !.real = r]
  <2>1. p \in Prompts /\ w \in Workers /\ posts[p] \in 0..MaxPosts /\ posts[p] < MaxPosts
    BY <1>0, <1>4 DEF PostAccepted, SubmissionOK, TypeOK
  <2>2. r \in Reals /\ posts[p] + 1 \in 0..MaxPosts
    BY <2>1, BoundsAssumption DEF Reals
  <2>3. posts' \in [Prompts -> 0..MaxPosts]
    BY <1>4, <2>1, <2>2 DEF PostAccepted, TypeOK
  <2>4. comfy' \in [Workers -> Seq(Reals)]
    <3>1. Append(comfy[w], r) \in Seq(Reals)
      BY <2>1, <2>2, AppendProperties DEF TypeOK
    <3>2. comfy' = [comfy EXCEPT ![w] = Append(@, r)]
      BY <1>4 DEF PostAccepted
    <3> QED
      BY <2>1, <3>1, <3>2 DEF TypeOK
  <2>5. x \in Submission /\ SubmissionOK(x) /\ x.prompt = p
    BY <1>0, <1>4, <2>2, SubmissionStep DEF PostAccepted
  <2>6. SubType'
    BY <1>0, <1>4, <2>5, SubFacts, SubStep DEF PostAccepted
  <2> QED
    BY <1>4, <2>3, <2>4, <2>6 DEF PostAccepted, TypeOK, SubType
<1>5. CASE PostFailed(s) \/ AnswerLost(s)
  <2>1. sub[s].pc \in {"posting", "responded"} /\ SubmitFailed(s)
    BY <1>5 DEF PostFailed, AnswerLost
  <2>2. sub[s].worker \in Workers
    BY <1>0, <2>1 DEF SubmissionOK
  <2>3. gpu' \in GpuType(Workers)
    BY <1>5, <2>2, GpuStepType DEF PostFailed, AnswerLost, TypeOK
  <2>4. faults' \in 0..MaxFaults
    BY <1>5, ServerAssumption DEF PostFailed, AnswerLost, TypeOK
  <2>5. /\ SubType'
        /\ pq' \in QueueType
        /\ events' \in Seq(Event)
        /\ result' \in [Prompts -> {"none", "ok", "err"}]
    BY <2>1, SubmitFailedType
  <2> QED
    BY <1>5, <2>3, <2>4, <2>5 DEF PostFailed, AnswerLost, TypeOK, SubType
<1>6. CASE Bind(s)
  <2> DEFINE p == sub[s].prompt
             r == sub[s].real
             pc == IF WasDeferred(pq, r) THEN "deferred" ELSE "bound"
             x == [sub[s] EXCEPT !.pc = pc]
  <2>1. p \in Prompts /\ r \in Reals
    BY <1>0, <1>6 DEF Bind, SubmissionOK
  <2>2. pq' \in QueueType
    BY <1>6, <2>1, BindAliasType DEF Bind, TypeOK
  <2>3. x \in Submission /\ SubmissionOK(x) /\ x.prompt = p
    BY <1>0, <1>6, SubmissionStep DEF Bind
  <2>4. SubType'
    BY <1>0, <1>6, <2>3, SubFacts, SubStep DEF Bind
  <2> QED
    BY <1>6, <2>2, <2>4 DEF Bind, TypeOK, SubType
<1>7. CASE InsertPreview(s)
  <2> DEFINE x == [sub[s] EXCEPT !.pc = "inserted"]
  <2>1. sub[s].real \in Ids
    BY <1>0, <1>7 DEF InsertPreview, SubmissionOK, Ids
  <2>2. pq' \in QueueType
    BY <1>7, <2>1, InsertType DEF InsertPreview, TypeOK
  <2>3. x \in Submission /\ SubmissionOK(x) /\ x.prompt = sub[s].prompt
    BY <1>0, <1>7, SubmissionStep DEF InsertPreview
  <2>4. SubType'
    BY <1>0, <1>7, <2>3, SubFacts, SubStep DEF InsertPreview
  <2> QED
    BY <1>7, <2>2, <2>4 DEF InsertPreview, TypeOK, SubType
<1>8. CASE RecordWorker(s)
  <2>1. sub[s].pc # "idle" /\ Settled(s, "ok")
    BY <1>8 DEF RecordWorker
  <2>2. sub[s].worker \in Workers /\ sub[s].real \in Ids /\ sub[s].prompt \in Ids
    BY <1>0, <1>8 DEF RecordWorker, SubmissionOK, Ids
  <2>3. pq' \in QueueType
    BY <1>8, <2>2, SetWorkerType DEF RecordWorker, TypeOK
  <2>4. SubType' /\ result' \in [Prompts -> {"none", "ok", "err"}]
    BY <2>1, SettledType
  <2> QED
    BY <1>8, <2>3, <2>4 DEF RecordWorker, TypeOK, SubType
<1>9. CASE ReleaseDeferred(s)
  <2>1. sub[s].pc # "idle" /\ Settled(s, "err")
    BY <1>9 DEF ReleaseDeferred
  <2>2. sub[s].worker \in Workers
    BY <1>0, <1>9 DEF ReleaseDeferred, SubmissionOK
  <2>3. gpu' \in GpuType(Workers)
    BY <1>9, <2>2, GpuStepType DEF ReleaseDeferred, TypeOK
  <2>4. aliasGC' \subseteq Prompts
    BY <1>9 DEF ReleaseDeferred, TypeOK, Submitters
  <2>5. drainPermit' \in BOOLEAN
    BY <1>9, Zenon DEF ReleaseDeferred
  <2>6. SubType' /\ result' \in [Prompts -> {"none", "ok", "err"}]
    BY <2>1, SettledType
  <2> QED
    BY <1>9, <2>3, <2>4, <2>5, <2>6 DEF ReleaseDeferred, TypeOK, SubType
<1> QED
  BY <1>1, <1>2, <1>3, <1>4, <1>5, <1>6, <1>7, <1>8, <1>9, <1>10 DEF Submit

(* Taking the next held prompt keeps TypeOK.                               *)
LEMMA DrainWakeType == TypeOK /\ DrainWake => TypeOK'
<1> SUFFICES ASSUME TypeOK, DrainWake PROVE TypeOK'
  OBVIOUS
<1>1. drainPermit' \in BOOLEAN
  BY Zenon DEF DrainWake
<1>2. pq' \in QueueType /\ SubType'
  <2>1. CASE pq.held = <<>>
    BY <2>1, SubFacts DEF DrainWake, TypeOK, SubType
  <2>2. CASE pq.held # <<>>
    <3>1. DropNextHeld(pq) \in QueueType /\ Head(pq.held).prompt \in Prompts
      BY <2>2, DropNextHeldType DEF TypeOK, HeldPrompt
    <3>2. SubType'
      BY <2>2, <3>1, AtType, SubFacts, SubStep, ServerAssumption DEF DrainWake
    <3> QED
      BY <2>2, <3>1, <3>2 DEF DrainWake
  <2> QED
    BY <2>1, <2>2
<1> QED
  BY <1>1, <1>2 DEF DrainWake, TypeOK, SubType

(* ComfyUI and the watchdog keep TypeOK.                                   *)
LEMMA ComfyType ==
  ASSUME TypeOK, NEW w \in Workers, ExecutionEnds(w) \/ Watchdog(w)
  PROVE  TypeOK'
<1>0. comfy \in [Workers -> Seq(Reals)] /\ comfy[w] \in Seq(Reals)
  BY DEF TypeOK
<1>1. CASE ExecutionEnds(w)
  <2> DEFINE r == Head(comfy[w])
             done == [kind |-> "done", id |-> r]
             error == [kind |-> "error", id |-> r]
  <2>1. r \in Reals /\ Tail(comfy[w]) \in Seq(Reals)
    BY <1>0, <1>1, HeadTailProperties DEF ExecutionEnds
  <2>2. done \in Event /\ error \in Event
    BY <2>1 DEF Event, Ids
  <2>3. events \in Seq(Event)
    BY DEF TypeOK
  <2>4. Append(events, done) \in Seq(Event)
    BY <2>2, <2>3, AppendProperties
  <2>5. events \o <<error, done>> \in Seq(Event)
    <3> HIDE DEF done, error
    <3>1. <<error, done>> \in Seq(Event)
      BY <2>2
    <3> QED
      BY <2>3, <3>1, ConcatProperties
  <2>6. events' \in Seq(Event)
    BY <1>1, <2>4, <2>5 DEF ExecutionEnds
  <2>7. faults' \in 0..MaxFaults
    BY <1>1, ServerAssumption DEF ExecutionEnds, TypeOK
  <2>8. comfy' \in [Workers -> Seq(Reals)]
    BY <1>0, <1>1, <2>1 DEF ExecutionEnds
  <2> QED
    BY <1>1, <2>6, <2>7, <2>8 DEF ExecutionEnds, TypeOK
<1>2. CASE Watchdog(w)
  <2>1. gpu' \in GpuType(Workers)
    BY <1>2, GpuStepType DEF Watchdog, TypeOK
  <2> QED
    BY <1>2, <2>1 DEF Watchdog, TypeOK
<1> QED
  BY <1>1, <1>2

(* The end of a reaction keeps the types of what it changes.               *)
LEMMA ReactedType ==
  ASSUME TypeOK, Reacted
  PROVE  /\ reactor' \in Reaction
         /\ reactor'.pc = "recv"
         /\ drainPermit' \in BOOLEAN
         /\ aliasGC' \subseteq Prompts
<1>1. reactor' \in Reaction /\ reactor'.pc = "recv"
  BY DEF Reacted, Receiving, Reaction
<1>2. drainPermit' \in BOOLEAN
  BY Zenon DEF Reacted
<1>3. aliasGC' \subseteq Prompts
  BY DEF Reacted, TypeOK
<1> QED
  BY <1>1, <1>2, <1>3

(* The cleanup reactor and the delayed cleanup of aliases keep TypeOK.     *)
LEMMA ReactorType ==
  ASSUME TypeOK, CleanupReactor \/ AliasCleanup
  PROVE  TypeOK'
<1>1. CASE ReactorRecv
  <2> DEFINE e == Head(events)
             pid == ResolveAlias(pq, e.id)
  <2>1. e \in Event /\ Tail(events) \in Seq(Event)
    BY <1>1, HeadTailProperties DEF ReactorRecv, TypeOK
  <2>2. e.kind \in {"done", "error"} /\ e.id \in Ids /\ e = [kind |-> e.kind, id |-> e.id]
    BY <2>1 DEF Event, Ids
  <2>3. pid \in Ids
    BY <2>2, ResolveAliasType DEF TypeOK
  <2> HIDE DEF e, pid
  <2>4. reactor' = [pc |-> "finish", kind |-> e.kind, raw |-> e.id, pid |-> pid,
                    worker |-> None]
    BY <1>1 DEF ReactorRecv, e, pid
  <2>5. /\ reactor' \in Reaction
        /\ [kind |-> reactor'.kind, id |-> reactor'.raw] \in Event
        /\ reactor'.pid \in Ids
        /\ reactor'.pc = "finish"
    BY <2>1, <2>2, <2>3, <2>4 DEF Reaction
  <2>6. events' \in Seq(Event)
    BY <1>1, <2>1 DEF ReactorRecv, e
  <2>7. overtaken' \subseteq Prompts
    <3>1. \A s \in Submitters : Overtakes(e, s) => sub[s].prompt \in Prompts
      BY SubFacts DEF Overtakes, SubmissionOK
    <3>2. overtaken' = overtaken \cup
            {sub[s].prompt : s \in {u \in Submitters : Overtakes(e, u)}}
      BY <1>1 DEF ReactorRecv, e
    <3> QED
      BY <3>1, <3>2 DEF TypeOK
  <2> QED
    BY <1>1, <2>5, <2>6, <2>7 DEF ReactorRecv, TypeOK
<1>2. CASE ReactorFinish
  <2> DEFINE worker == pq.workerMap[reactor.pid]
  <2>1. reactor.pc = "finish" /\ reactor \in Reaction /\ reactor.pid \in Ids
    BY <1>2 DEF ReactorFinish, TypeOK
  <2>2. pq' \in QueueType /\ worker \in Workers \cup {None}
    BY <1>2, <2>1, FinishType DEF ReactorFinish, TypeOK, QueueType
  <2>3. CASE reactor' = [reactor EXCEPT !.pc = "release", !.worker = worker]
             /\ worker # None /\ UNCHANGED <<drainPermit, aliasGC>>
    <3>1. /\ reactor' \in Reaction
          /\ reactor'.pc = "release" /\ reactor'.worker \in Workers
          /\ reactor'.kind = reactor.kind /\ reactor'.raw = reactor.raw
          /\ reactor'.pid = reactor.pid
      BY <2>1, <2>2, <2>3 DEF Reaction
    <3> QED
      BY <1>2, <2>1, <2>2, <2>3, <3>1 DEF ReactorFinish, TypeOK
  <2>4. CASE reactor' = [reactor EXCEPT !.pc = "park"] /\ reactor.kind = "done"
             /\ UNCHANGED <<drainPermit, aliasGC>>
    <3>1. /\ reactor' \in Reaction
          /\ reactor'.pc = "park"
          /\ reactor'.kind = reactor.kind /\ reactor'.raw = reactor.raw
          /\ reactor'.pid = reactor.pid
      BY <2>1, <2>4 DEF Reaction
    <3> QED
      BY <1>2, <2>1, <2>2, <2>4, <3>1 DEF ReactorFinish, TypeOK
  <2>5. CASE Reacted
    BY <1>2, <2>2, <2>5, ReactedType DEF ReactorFinish, TypeOK
  <2> QED
    BY <1>2, <2>3, <2>4, <2>5 DEF ReactorFinish
<1>3. CASE ReactorPark
  <2>1. reactor.raw \in Reals
    BY <1>3, IdsAssumption DEF ReactorPark, TypeOK, Event
  <2>2. pq' \in QueueType
    BY <1>3, <2>1, ParkType DEF ReactorPark, TypeOK
  <2>3. Reacted
    BY <1>3 DEF ReactorPark
  <2> QED
    BY <1>3, <2>2, <2>3, ReactedType DEF ReactorPark, TypeOK
<1>4. CASE ReactorRelease
  <2>1. gpu' \in GpuType(Workers)
    BY <1>4, GpuStepType DEF ReactorRelease, TypeOK
  <2>2. Reacted
    BY <1>4 DEF ReactorRelease
  <2> QED
    BY <1>4, <2>1, <2>2, ReactedType DEF ReactorRelease, TypeOK
<1>5. CASE AliasCleanup
  <2>1. PICK p \in aliasGC : pq' = CleanupAlias(pq, p) /\ aliasGC' = aliasGC \ {p}
    BY <1>5 DEF AliasCleanup
  <2>2. pq' \in QueueType /\ aliasGC' \subseteq Prompts
    BY <2>1, CleanupAliasType DEF TypeOK
  <2> QED
    BY <1>5, <2>2 DEF AliasCleanup, TypeOK
<1> QED
  BY <1>1, <1>2, <1>3, <1>4, <1>5 DEF CleanupReactor

(* Every step of the server keeps TypeOK.                                  *)
LEMMA NextType == TypeOK /\ [Next]_vars => TypeOK'
<1> SUFFICES ASSUME TypeOK, [Next]_vars PROVE TypeOK'
  OBVIOUS
<1>1. ASSUME NEW p \in Prompts, Request(p) \/ Task(p) PROVE TypeOK'
  <2>1. CASE Submit(p)
    BY <2>1, SubmitType, SubFacts
  <2>2. CASE ~ Submit(p)
    BY <1>1, <2>2, TaskType DEF Task
  <2> QED
    BY <2>1, <2>2
<1>2. CASE DrainReactor
  BY <1>2, SubmitType, DrainWakeType, SubFacts DEF DrainReactor
<1>3. CASE CleanupReactor \/ AliasCleanup
  BY <1>3, ReactorType
<1>4. ASSUME NEW w \in Workers, ExecutionEnds(w) \/ Watchdog(w) PROVE TypeOK'
  BY <1>4, ComfyType
<1>5. CASE UNCHANGED vars
  BY <1>5 DEF vars, TypeOK, SubmissionOK
<1> QED
  BY <1>1, <1>2, <1>3, <1>4, <1>5 DEF Next, Serve

(* The state of the server is well-formed in every behaviour: in           *)
(* particular a submitter that posts has a worker, one that records an     *)
(* answer has a real id, and only ids of ComfyUI are parked.               *)
THEOREM TypeCorrect == Spec => []TypeOK
<1> QED
  BY InitType, NextType, PTL DEF Spec

-----------------------------------------------------------------------------
(* Ownership. *)

(* The real id in a submitter's hands was issued for its prompt.           *)
RealsSound ==
  \A s \in Submitters :
    sub[s].pc \in {"responded", "inserted", "bound", "deferred"} =>
      JobOf(sub[s].real) = sub[s].prompt

OwnershipInv == TypeOK /\ QueueSound(pq) /\ RealsSound

(* Every step keeps the real ids with their prompts.                       *)
LEMMA RealsStep == TypeOK /\ RealsSound /\ [Next]_vars => RealsSound'
<1> SUFFICES ASSUME TypeOK, RealsSound, [Next]_vars PROVE RealsSound'
  OBVIOUS
<1> DEFINE With == {"responded", "inserted", "bound", "deferred"}
<1>1. ASSUME NEW s \in Submitters, NEW x, sub' = [sub EXCEPT ![s] = x],
             x.pc \in With => JobOf(x.real) = x.prompt
      PROVE  RealsSound'
  <2>1. \A t \in Submitters : sub'[t] = IF t = s THEN x ELSE sub[t]
    BY <1>1 DEF TypeOK
  <2> QED
    BY <1>1, <2>1 DEF RealsSound
<1>2. ASSUME NEW s \in Submitters, NEW pc \in TaskPC, NEW p,
             pc \notin With, sub' = [sub EXCEPT ![s] = At(pc, p)]
      PROVE  RealsSound'
  BY <1>1, <1>2 DEF At
<1>3. ASSUME NEW s \in Submitters, SubmitFailed(s) PROVE RealsSound'
  BY <1>2, <1>3, SubFacts DEF SubmitFailed, TaskPC
<1>4. ASSUME NEW s \in Submitters, NEW o, Settled(s, o) PROVE RealsSound'
  BY <1>2, <1>4 DEF Settled, TaskPC
<1>5. ASSUME NEW s \in Submitters, Submit(s) PROVE RealsSound'
  <2>0. sub[s] \in Submission /\ (sub[s].pc \in With => JobOf(sub[s].real) = sub[s].prompt)
    BY SubFacts DEF RealsSound
  <2>1. CASE SelectIdle(s) \/ SelectRunning(s)
    <3>1. PICK w \in Workers :
            \/ sub' = [sub EXCEPT ![s] = [@ EXCEPT !.pc = "posting", !.worker = w]]
            \/ sub' = [sub EXCEPT ![s] = [@ EXCEPT !.pc = "posting", !.worker = w,
                                                   !.exclusive = TRUE]]
      BY <2>1 DEF SelectIdle, SelectRunning
    <3>2. /\ [sub[s] EXCEPT !.pc = "posting", !.worker = w].pc \notin With
          /\ [sub[s] EXCEPT !.pc = "posting", !.worker = w, !.exclusive = TRUE].pc
               \notin With
      BY <2>0 DEF Submission
    <3> QED
      BY <1>1, <3>1, <3>2
  <2>4. CASE SelectNone(s)
    <3> DEFINE x == [sub[s] EXCEPT !.pc = "waitWorker"]
    <3>1. x.pc \notin With
      BY <2>0 DEF Submission
    <3>2. sub' = [sub EXCEPT ![s] = x]
      BY <2>4 DEF SelectNone
    <3> QED
      BY <1>1, <3>1, <3>2
  <2>2. CASE PostAccepted(s)
    <3> DEFINE r == <<sub[s].prompt, posts[sub[s].prompt] + 1>>
               x == [sub[s] EXCEPT !.pc = "responded", !.real = r]
    <3>1. JobOf(x.real) = x.prompt
      BY <2>0 DEF JobOf, Submission
    <3>2. sub' = [sub EXCEPT ![s] = x]
      BY <2>2 DEF PostAccepted
    <3> QED
      BY <1>1, <3>1, <3>2
  <2>3. CASE Bind(s) \/ InsertPreview(s)
    <3>1. PICK pc \in With : sub' = [sub EXCEPT ![s].pc = pc]
      BY <2>3 DEF Bind, InsertPreview
    <3> DEFINE x == [sub[s] EXCEPT !.pc = pc]
    <3>2. JobOf(x.real) = x.prompt
      BY <2>0, <2>3 DEF Bind, InsertPreview, Submission
    <3>3. sub' = [sub EXCEPT ![s] = x]
      BY <3>1
    <3> QED
      BY <1>1, <3>2, <3>3
  <2> QED
    BY <1>3, <1>4, <1>5, <2>1, <2>2, <2>3, <2>4
       DEF Submit, SelectTimeout, PostFailed, AnswerLost, RecordWorker, ReleaseDeferred
<1>6. ASSUME NEW p \in Prompts, Request(p) \/ Task(p), ~ Submit(p) PROVE RealsSound'
  <2>0. p \in Submitters /\ sub[p] \in Submission
    BY SubFacts
  <2>1. CASE TakeResult(p)
    BY <1>2, <2>0, <2>1 DEF TakeResult, TaskPC
  <2>2. CASE CheckHold(p)
    <3>1. [sub[p] EXCEPT !.pc = "checked", !.hold = NeedsHold(UserOf[p])].pc \notin With
      BY <2>0 DEF Submission
    <3> QED
      BY <1>1, <2>0, <2>2, <3>1 DEF CheckHold
  <2>3. CASE ~ TakeResult(p) /\ ~ CheckHold(p)
    <3>1. PICK pc \in {"spawned", "waiting", "select"} : sub' = [sub EXCEPT ![p].pc = pc]
      BY <1>6, <2>3 DEF Request, Task, InsertAndSpawn, HoldPrompt, SubmitDirectly,
                        SubmitPreview
    <3>2. [sub[p] EXCEPT !.pc = pc].pc \notin With
      BY <2>0 DEF Submission
    <3> QED
      BY <1>1, <2>0, <3>1, <3>2
  <2> QED
    BY <2>1, <2>2, <2>3
<1>7. CASE DrainWake
  <2>1. \/ UNCHANGED sub
        \/ sub' = [sub EXCEPT ![Drain] = At("select", Head(pq.held).prompt)]
    BY <1>7 DEF DrainWake
  <2> QED
    BY <1>2, <2>1, SubFacts DEF RealsSound, TaskPC
<1>8. CASE UNCHANGED sub
  BY <1>8 DEF RealsSound
<1>9. ASSUME \/ CleanupReactor \/ AliasCleanup
             \/ \E w \in Workers : ExecutionEnds(w) \/ Watchdog(w)
             \/ UNCHANGED vars
      PROVE  UNCHANGED sub
  BY <1>9 DEF CleanupReactor, ReactorRecv, ReactorFinish, ReactorPark, ReactorRelease,
     AliasCleanup, ExecutionEnds, Watchdog, vars
<1> QED
  BY <1>5, <1>6, <1>7, <1>8, <1>9, SubFacts DEF Next, Serve, Task, DrainReactor

(* Every step keeps the owner and alias maps sound: the only step that     *)
(* writes an alias or copies an owner, Bind, does so for a real id and the *)
(* prompt it was issued for.                                               *)
LEMMA QueueSoundStep ==
  TypeOK /\ QueueSound(pq) /\ RealsSound /\ [Next]_vars => QueueSound(pq)'
<1> SUFFICES ASSUME TypeOK, QueueSound(pq), RealsSound, [Next]_vars
             PROVE  QueueSound(pq')
  BY DEF QueueSound, AliasesSound, OwnersSound
<1>0. pq \in QueueType
  BY DEF TypeOK
<1>1. ASSUME NEW s \in Submitters, Submit(s) PROVE QueueSound(pq')
  <2>0. SubmissionOK(sub[s]) /\ (s # Drain => s \in Prompts /\ s \in Ids)
    BY SubFacts DEF Submitters, Ids
  <2>1. ASSUME SubmitFailed(s) PROVE QueueSound(pq')
    BY <1>0, <2>0, <2>1, UntouchedSound DEF SubmitFailed
  <2>2. CASE Bind(s)
    <3>1. sub[s].real \in Reals /\ JobOf(sub[s].real) = sub[s].prompt
      BY <2>0, <2>2 DEF Bind, SubmissionOK, RealsSound
    <3>2. pq' = BindAlias(pq, JobOf(sub[s].real), sub[s].real)
      BY <2>2, <3>1 DEF Bind
    <3> QED
      BY <1>0, <3>1, <3>2, BindAliasSound
  <2>3. CASE InsertPreview(s)
    <3>1. sub[s].real \in Ids
      BY <2>0, <2>3 DEF InsertPreview, SubmissionOK, Ids
    <3> QED
      BY <1>0, <2>3, <3>1, InsertSound DEF InsertPreview
  <2>4. CASE RecordWorker(s)
    <3>1. sub[s].worker \in Workers /\ sub[s].real \in Ids /\ sub[s].prompt \in Ids
      BY <2>0, <2>4 DEF RecordWorker, SubmissionOK, Ids
    <3> QED
      BY <1>0, <2>4, <3>1, UntouchedSound DEF RecordWorker
  <2> QED
    BY <1>1, <2>1, <2>2, <2>3, <2>4
       DEF Submit, SelectIdle, SelectRunning, SelectNone, SelectTimeout, PostAccepted,
           PostFailed, AnswerLost, ReleaseDeferred
<1>2. ASSUME NEW p \in Prompts, Request(p) \/ Task(p), ~ Submit(p)
      PROVE  QueueSound(pq')
  <2>0. p \in Ids
    BY DEF Ids
  <2>1. CASE TakeResult(p)
    <3>1. QueueSound(Finish(pq, p)) /\ Finish(pq, p) \in QueueType
      BY <1>0, <2>0, UntouchedSound, FinishType
    <3>2. QueueSound(CleanupAlias(Finish(pq, p), p))
      BY <3>1, CleanupAliasSound
    <3> QED
      BY <2>1, <3>2 DEF TakeResult
  <2>2. CASE ~ TakeResult(p)
    BY <1>0, <1>2, <2>0, <2>2, InsertSound, UntouchedSound
       DEF Request, Task, CheckHold, InsertAndSpawn, HoldPrompt, SubmitDirectly,
           SubmitPreview
  <2> QED
    BY <2>1, <2>2
<1>3. CASE DrainWake
  BY <1>0, <1>3, UntouchedSound DEF DrainWake
<1>4. CASE CleanupReactor
  <2>1. reactor.pc # "recv" => reactor.pid \in Ids
    BY DEF TypeOK
  <2> QED
    BY <1>0, <1>4, <2>1, UntouchedSound
       DEF CleanupReactor, ReactorRecv, ReactorFinish, ReactorPark, ReactorRelease
<1>5. CASE AliasCleanup
  BY <1>0, <1>5, CleanupAliasSound DEF AliasCleanup, TypeOK
<1>6. CASE (\E w \in Workers : ExecutionEnds(w) \/ Watchdog(w)) \/ UNCHANGED vars
  BY <1>6 DEF ExecutionEnds, Watchdog, vars
<1> QED
  BY <1>1, <1>2, <1>3, <1>4, <1>5, <1>6, SubFacts DEF Next, Serve, Task, DrainReactor

(* Whatever id a named account passes the ownership filter with, it sent   *)
(* that request, in every state of the server.                             *)
THEOREM OwnershipIsolated == Spec => []OwnershipIsolation
<1>1. Init => OwnershipInv
  <2> SUFFICES ASSUME Init PROVE OwnershipInv
    OBVIOUS
  <2>1. QueueSound(pq)
    BY EmptyQueueType DEF Init
  <2>2. \A s \in Submitters : sub[s].pc \in {"new", "idle"}
    BY DEF Init, At
  <2>3. RealsSound
    BY <2>2 DEF RealsSound
  <2> QED
    BY <2>1, <2>3, InitType DEF OwnershipInv
<1>2. OwnershipInv /\ [Next]_vars => OwnershipInv'
  BY NextType, QueueSoundStep, RealsStep DEF OwnershipInv
<1>3. OwnershipInv => OwnershipIsolation
  BY SoundIsolation DEF OwnershipInv, OwnershipIsolation, TypeOK
<1> QED
  BY <1>1, <1>2, <1>3, PTL DEF Spec

-----------------------------------------------------------------------------
(* Who has a request in hand. *)

(* Only hold and take_next_held change the held list.                      *)
LEMMA HeldKept ==
  ASSUME NEW q \in QueueType
  PROVE  /\ \A i : Insert(q, i).held = q.held /\ Finish(q, i).held = q.held
         /\ \A i, w : SetWorker(q, i, w).held = q.held
         /\ \A p, r : BindAlias(q, p, r).held = q.held
         /\ \A i, D : ParkDeferredFinish(q, i, D).held = q.held
         /\ \A p : CleanupAlias(q, p).held = q.held
         /\ \A i, p : CleanupAlias(Finish(q, i), p).held = q.held
BY DEF QueueType, Insert, Finish, SetWorker, BindAlias, ParkDeferredFinish, CleanupAlias

(* A step of a submitter that neither posts nor ends a wait.               *)
QuietMove(s, x) ==
  /\ sub' = [sub EXCEPT ![s] = x]
  /\ UNCHANGED <<pq.held, posts, result>>

(* A post that ComfyUI accepts.                                            *)
PostMove(s, x) ==
  /\ sub[s].pc = "posting"
  /\ x.pc = "responded"
  /\ x.prompt = sub[s].prompt
  /\ sub' = [sub EXCEPT ![s] = x]
  /\ posts' = [posts EXCEPT ![sub[s].prompt] = @ + 1]
  /\ UNCHANGED <<pq.held, result>>

(* Every step of a request's task is one of four moves.                    *)
LEMMA TaskMoves ==
  ASSUME TypeOK, NEW p \in Prompts, Request(p) \/ Task(p)
  PROVE  \/ HoldPrompt(p)
         \/ TakeResult(p)
         \/ \E x : PostMove(p, x)
         \/ \E x : /\ QuietMove(p, x)
                   /\ sub[p].pc # "waiting"
                   /\ x.pc # "waiting"
                   /\ x.pc \in Unposted => sub[p].pc \in Unposted
<1>0. /\ p \in Submitters /\ sub[p] \in Submission /\ sub[p].prompt = p /\ p # Drain
      /\ pq \in QueueType
  BY SubFacts, ServerAssumption DEF TypeOK
<1>1. ASSUME Settled(p, "ok") \/ Settled(p, "err") \/ SubmitFailed(p)
      PROVE  sub' = [sub EXCEPT ![p] = At("done", p)] /\ UNCHANGED result
             /\ At("done", p).pc = "done"
  BY <1>0, <1>1 DEF Settled, SubmitFailed, At
<1>2. CASE CheckHold(p)
  <2> DEFINE x == [sub[p] EXCEPT !.pc = "checked", !.hold = NeedsHold(UserOf[p])]
  <2>1. x.pc = "checked" /\ QuietMove(p, x) /\ sub[p].pc = "new"
    BY <1>0, <1>2 DEF CheckHold, QuietMove, Submission
  <2> QED
    BY <2>1 DEF Unposted
<1>3. CASE InsertAndSpawn(p) \/ SubmitDirectly(p) \/ SubmitPreview(p)
  <2>1. PICK pc \in {"spawned", "select"} : sub' = [sub EXCEPT ![p].pc = pc]
    BY <1>3 DEF InsertAndSpawn, SubmitDirectly, SubmitPreview
  <2> DEFINE x == [sub[p] EXCEPT !.pc = pc]
  <2>2. x.pc = pc /\ sub[p].pc \in {"new", "checked", "spawned"}
    BY <1>0, <1>3 DEF InsertAndSpawn, SubmitDirectly, SubmitPreview, Submission
  <2>3. QuietMove(p, x)
    BY <1>0, <1>3, <2>1, HeldKept
       DEF InsertAndSpawn, SubmitDirectly, SubmitPreview, QuietMove
  <2> QED
    BY <2>2, <2>3 DEF Unposted
<1>4. CASE SelectIdle(p) \/ SelectRunning(p)
  <2>1. PICK x : sub' = [sub EXCEPT ![p] = x] /\ x.pc = "posting"
    <3>1. PICK w \in Workers :
            \/ sub' = [sub EXCEPT ![p] = [@ EXCEPT !.pc = "posting", !.worker = w]]
            \/ sub' = [sub EXCEPT ![p] = [@ EXCEPT !.pc = "posting", !.worker = w,
                                                   !.exclusive = TRUE]]
      BY <1>4 DEF SelectIdle, SelectRunning
    <3>2. /\ [sub[p] EXCEPT !.pc = "posting", !.worker = w].pc = "posting"
          /\ [sub[p] EXCEPT !.pc = "posting", !.worker = w, !.exclusive = TRUE].pc
               = "posting"
      BY <1>0 DEF Submission
    <3> QED
      BY <3>1, <3>2
  <2> QED
    BY <1>4, <2>1 DEF SelectIdle, SelectRunning, QuietMove, Unposted
<1>9. CASE SelectNone(p)
  <2> DEFINE x == [sub[p] EXCEPT !.pc = "waitWorker"]
  <2>1. x.pc = "waitWorker" /\ QuietMove(p, x) /\ sub[p].pc = "select"
    BY <1>0, <1>9 DEF SelectNone, QuietMove, Submission
  <2> QED
    BY <2>1 DEF Unposted
<1>5. CASE SelectTimeout(p) \/ PostFailed(p) \/ AnswerLost(p)
  <2>1. SubmitFailed(p) /\ sub[p].pc \in {"waitWorker", "posting", "responded"}
        /\ UNCHANGED posts
    BY <1>5 DEF SelectTimeout, PostFailed, AnswerLost
  <2>2. UNCHANGED pq.held
    BY <1>0, <2>1, HeldKept DEF SubmitFailed
  <2> QED
    BY <1>1, <2>1, <2>2 DEF QuietMove, Unposted
<1>6. CASE PostAccepted(p)
  <2> DEFINE x == [sub[p] EXCEPT !.pc = "responded", !.real = <<p, posts[p] + 1>>]
  <2>1. PostMove(p, x)
    BY <1>0, <1>6 DEF PostAccepted, PostMove, Submission
  <2> QED
    BY <2>1
<1>7. CASE Bind(p) \/ InsertPreview(p)
  <2>1. PICK pc \in {"inserted", "bound", "deferred"} : sub' = [sub EXCEPT ![p].pc = pc]
    BY <1>7 DEF Bind, InsertPreview
  <2> DEFINE x == [sub[p] EXCEPT !.pc = pc]
  <2>2. x.pc = pc /\ sub[p].pc = "responded"
    BY <1>0, <1>7 DEF Bind, InsertPreview, Submission
  <2>3. QuietMove(p, x)
    BY <1>0, <1>7, <2>1, HeldKept DEF Bind, InsertPreview, QuietMove
  <2> QED
    BY <2>2, <2>3 DEF Unposted
<1>8. CASE RecordWorker(p) \/ ReleaseDeferred(p)
  <2>1. (Settled(p, "ok") \/ Settled(p, "err")) /\ UNCHANGED posts
        /\ sub[p].pc \in {"bound", "inserted", "deferred"}
    BY <1>8 DEF RecordWorker, ReleaseDeferred
  <2>2. UNCHANGED pq.held
    BY <1>0, <1>8, HeldKept DEF RecordWorker, ReleaseDeferred
  <2> QED
    BY <1>1, <2>1, <2>2 DEF QuietMove, Unposted
<1> QED
  BY <1>2, <1>3, <1>4, <1>5, <1>6, <1>7, <1>8, <1>9 DEF Request, Task, Submit

(* Every step of the drain reactor is one of four moves, too.              *)
LEMMA DrainMoves ==
  ASSUME TypeOK, DrainReactor
  PROVE  \/ DrainWake
         \/ \E x : PostMove(Drain, x)
         \/ \E x : /\ QuietMove(Drain, x)
                   /\ sub[Drain].pc # "idle"
                   /\ x.prompt = sub[Drain].prompt
                   /\ x.pc \in Unposted => sub[Drain].pc \in Unposted
         \/ \E o \in {"ok", "err"} :
              /\ sub[Drain].pc # "idle"
              /\ sub' = [sub EXCEPT ![Drain] = At("idle", None)]
              /\ result' = [result EXCEPT ![sub[Drain].prompt] = o]
              /\ UNCHANGED <<pq.held, posts>>
<1> DEFINE y == sub[Drain]
<1>0. Drain \in Submitters /\ y \in Submission /\ pq \in QueueType
  BY SubFacts DEF TypeOK
<1>1. CASE SelectIdle(Drain) \/ SelectRunning(Drain)
  <2>1. PICK x : sub' = [sub EXCEPT ![Drain] = x] /\ x.prompt = y.prompt
    <3>1. PICK w \in Workers :
            \/ sub' = [sub EXCEPT ![Drain] = [@ EXCEPT !.pc = "posting", !.worker = w]]
            \/ sub' = [sub EXCEPT ![Drain] = [@ EXCEPT !.pc = "posting", !.worker = w,
                                                       !.exclusive = TRUE]]
      BY <1>1 DEF SelectIdle, SelectRunning
    <3> QED
      BY <1>0, <3>1 DEF Submission
  <2> QED
    BY <1>1, <2>1 DEF SelectIdle, SelectRunning, QuietMove, Unposted
<1>10. CASE SelectNone(Drain)
  <2> DEFINE x == [y EXCEPT !.pc = "waitWorker"]
  <2>1. x.prompt = y.prompt /\ QuietMove(Drain, x) /\ y.pc = "select"
    BY <1>0, <1>10 DEF SelectNone, QuietMove, Submission
  <2> QED
    BY <2>1 DEF Unposted
<1>2. CASE SelectTimeout(Drain) \/ PostFailed(Drain) \/ AnswerLost(Drain)
  BY <1>2 DEF SelectTimeout, PostFailed, AnswerLost, SubmitFailed
<1>3. CASE PostAccepted(Drain)
  <2> DEFINE x == [y EXCEPT !.pc = "responded", !.real = <<y.prompt, posts[y.prompt] + 1>>]
  <2>1. PostMove(Drain, x)
    BY <1>0, <1>3 DEF PostAccepted, PostMove, Submission
  <2> QED
    BY <2>1
<1>4. CASE Bind(Drain) \/ InsertPreview(Drain)
  <2>1. PICK pc \in {"inserted", "bound", "deferred"} :
          sub' = [sub EXCEPT ![Drain].pc = pc]
    BY <1>4 DEF Bind, InsertPreview
  <2> DEFINE x == [y EXCEPT !.pc = pc]
  <2>2. x.pc = pc /\ x.prompt = y.prompt /\ y.pc = "responded"
    BY <1>0, <1>4 DEF Bind, InsertPreview, Submission
  <2>3. QuietMove(Drain, x)
    BY <1>0, <1>4, <2>1, HeldKept DEF Bind, InsertPreview, QuietMove
  <2> QED
    BY <2>2, <2>3 DEF Unposted
<1>5. CASE RecordWorker(Drain) \/ ReleaseDeferred(Drain)
  <2>1. UNCHANGED pq.held
    BY <1>0, <1>5, HeldKept DEF RecordWorker, ReleaseDeferred
  <2> QED
    BY <1>5, <2>1 DEF RecordWorker, ReleaseDeferred, Settled
<1> QED
  BY <1>1, <1>2, <1>3, <1>4, <1>5, <1>10 DEF DrainReactor, Submit

(* Nobody else moves a request.                                            *)
LEMMA OtherMoves ==
  ASSUME TypeOK, \/ CleanupReactor \/ AliasCleanup
                 \/ \E w \in Workers : ExecutionEnds(w) \/ Watchdog(w)
                 \/ UNCHANGED vars
  PROVE  UNCHANGED <<pq.held, posts, result, sub>>
<1>0. pq \in QueueType
  BY DEF TypeOK
<1>1. CASE CleanupReactor
  BY <1>0, <1>1, HeldKept
     DEF CleanupReactor, ReactorRecv, ReactorFinish, ReactorPark, ReactorRelease
<1>2. CASE AliasCleanup
  BY <1>0, <1>2, HeldKept DEF AliasCleanup
<1>3. CASE \/ \E w \in Workers : ExecutionEnds(w) \/ Watchdog(w)
           \/ UNCHANGED vars
  BY <1>3 DEF ExecutionEnds, Watchdog, vars
<1> QED
  BY <1>1, <1>2, <1>3

HolderInv == TypeOK /\ OneHolder

(* What OneHolder says of one request.                                     *)
HolderOf(p) ==
  /\ sub[p].pc \in Unposted => Fresh(p)
  /\ IsHeld(p) => sub[p].pc = "waiting" /\ Fresh(p) /\ sub[Drain].prompt # p
  /\ sub[Drain].prompt = p =>
       /\ sub[p].pc = "waiting"
       /\ result[p] = "none"
       /\ sub[Drain].pc \in Unposted => Fresh(p)

HeldOnce == \A j, k \in 1..Len(pq.held) : pq.held[j].prompt = pq.held[k].prompt => j = k

(* The move of a request's own task keeps every request in one hand.       *)
LEMMA TaskHolder ==
  ASSUME HolderInv, NEW p \in Prompts, Request(p) \/ Task(p)
  PROVE  OneHolder'
<1>0. /\ p \in Submitters /\ p # Drain /\ sub[p] \in Submission /\ sub[p].prompt = p
      /\ posts \in [Prompts -> 0..MaxPosts] /\ pq.held \in Seq(HeldPrompt)
      /\ sub \in [Submitters -> Submission] /\ Drain \in Submitters
      /\ \A q \in Prompts : q \in Submitters
  BY SubFacts, ServerAssumption DEF HolderInv, TypeOK, QueueType
<1>1. HeldOnce /\ \A q \in Prompts : HolderOf(q)
  BY DEF HolderInv, OneHolder, HeldOnce, HolderOf, Unposted
<1>2. SUFFICES HeldOnce' /\ \A q \in Prompts : HolderOf(q)'
  BY DEF OneHolder, HeldOnce, HolderOf, Unposted
<1>3. CASE HoldPrompt(p)
  <2> DEFINE h == [prompt |-> p, awaited |-> TRUE]
  <2>1. /\ pq'.held = Append(pq.held, h)
        /\ sub' = [sub EXCEPT ![p].pc = "waiting"]
        /\ UNCHANGED <<posts, result>>
        /\ sub[p].pc = "spawned"
    BY <1>3 DEF HoldPrompt, Hold, HolderInv, TypeOK, QueueType
  <2>2. ~ IsHeld(p) /\ Fresh(p) /\ sub[Drain].prompt # p
    BY <1>1, <2>1 DEF HolderOf, Unposted
  <2>3. h \in HeldPrompt /\ h.prompt = p
    BY DEF HeldPrompt
  <2> HIDE DEF h
  <2>4. /\ Len(pq'.held) = Len(pq.held) + 1
        /\ \A k \in 1..Len(pq.held) : pq'.held[k] = pq.held[k]
        /\ pq'.held[Len(pq.held) + 1] = h
    BY <1>0, <2>1, <2>3, AppendProperties
  <2>5. HeldOnce'
    <3> DEFINE n == Len(pq.held)
    <3>1. n \in Nat /\ 1..Len(pq'.held) = 1..n \cup {n + 1}
      BY <1>0, <2>4
    <3>2. \A j \in 1..n : pq'.held[j].prompt = pq.held[j].prompt /\ pq.held[j].prompt # p
      BY <2>2, <2>4 DEF IsHeld
    <3>3. pq'.held[n + 1].prompt = p
      BY <2>3, <2>4
    <3> SUFFICES ASSUME NEW j \in 1..n \cup {n + 1}, NEW k \in 1..n \cup {n + 1},
                        pq'.held[j].prompt = pq'.held[k].prompt
                 PROVE  j = k
      BY <3>1 DEF HeldOnce
    <3>4. CASE j \in 1..n /\ k \in 1..n
      BY <1>1, <3>2, <3>4 DEF HeldOnce
    <3>5. CASE j = n + 1 \/ k = n + 1
      BY <3>2, <3>3, <3>5
    <3> QED
      BY <3>4, <3>5
  <2>6. \A q \in Prompts : IsHeld(q)' => IsHeld(q) \/ q = p
    BY <1>0, <2>3, <2>4 DEF IsHeld
  <2>7. /\ sub'[p].pc = "waiting" /\ sub'[Drain] = sub[Drain]
        /\ \A q \in Prompts \ {p} : sub'[q] = sub[q]
    BY <1>0, <2>1 DEF Submission
  <2> QED
    BY <1>1, <2>1, <2>2, <2>5, <2>6, <2>7 DEF HolderOf, Fresh, Unposted
<1>4. ASSUME NEW x, sub' = [sub EXCEPT ![p] = x], UNCHANGED <<pq.held, result>>,
             \A q \in Prompts \ {p} : posts'[q] = posts[q],
             ~ IsHeld(p), sub[Drain].prompt # p, x.pc \in Unposted => Fresh(p)'
      PROVE  HeldOnce' /\ \A q \in Prompts : HolderOf(q)'
  <2>1. HeldOnce' /\ \A q \in Prompts : IsHeld(q)' = IsHeld(q)
    BY <1>1, <1>4 DEF HeldOnce, IsHeld
  <2>2. /\ sub'[p] = x /\ sub'[Drain] = sub[Drain]
        /\ \A q \in Prompts \ {p} : sub'[q] = sub[q]
    BY <1>0, <1>4
  <2>3. HolderOf(p)'
    BY <1>4, <2>1, <2>2 DEF HolderOf
  <2>4. ASSUME NEW q \in Prompts \ {p} PROVE HolderOf(q)'
    BY <1>1, <1>4, <2>1, <2>2 DEF HolderOf, Fresh
  <2> QED
    BY <2>1, <2>3, <2>4
<1>5. CASE TakeResult(p)
  <2>1. result[p] # "none" /\ sub' = [sub EXCEPT ![p] = At("done", p)]
        /\ UNCHANGED <<posts, result>>
    BY <1>5 DEF TakeResult
  <2>2. UNCHANGED pq.held
    BY <1>5, HeldKept DEF TakeResult, HolderInv, TypeOK
  <2>3. ~ IsHeld(p) /\ sub[Drain].prompt # p
    BY <1>1, <2>1 DEF HolderOf, Fresh
  <2>4. At("done", p).pc \notin Unposted
    BY DEF At, Unposted
  <2> QED
    BY <1>4, <2>1, <2>2, <2>3, <2>4
<1>6. ASSUME NEW x, PostMove(p, x) PROVE HeldOnce' /\ \A q \in Prompts : HolderOf(q)'
  <2>1. ~ IsHeld(p) /\ sub[Drain].prompt # p
    BY <1>1, <1>6 DEF HolderOf, PostMove
  <2> QED
    BY <1>0, <1>4, <1>6, <2>1 DEF PostMove, Unposted
<1>7. ASSUME NEW x, QuietMove(p, x), sub[p].pc # "waiting", x.pc # "waiting",
             x.pc \in Unposted => sub[p].pc \in Unposted
      PROVE  HeldOnce' /\ \A q \in Prompts : HolderOf(q)'
  <2>1. ~ IsHeld(p) /\ sub[Drain].prompt # p
    BY <1>1, <1>7 DEF HolderOf
  <2>2. x.pc \in Unposted => Fresh(p)'
    BY <1>1, <1>7 DEF HolderOf, QuietMove, Fresh
  <2> QED
    BY <1>4, <1>7, <2>1, <2>2 DEF QuietMove
<1> QED
  BY <1>3, <1>5, <1>6, <1>7, TaskMoves DEF HolderInv

(* A move of the drain reactor keeps every request in one hand.            *)
LEMMA DrainHolder ==
  ASSUME HolderInv, DrainReactor
  PROVE  OneHolder'
<1>0. /\ Drain \notin Prompts /\ sub[Drain] \in Submission
      /\ posts \in [Prompts -> 0..MaxPosts] /\ pq.held \in Seq(HeldPrompt)
      /\ result \in [Prompts -> {"none", "ok", "err"}]
      /\ sub \in [Submitters -> Submission] /\ Drain \in Submitters
      /\ \A q \in Prompts : q \in Submitters
      /\ sub[Drain].pc # "idle" => sub[Drain].prompt \in Prompts
      /\ None \notin Prompts
  BY SubFacts, ServerAssumption, IdsAssumption DEF HolderInv, TypeOK, QueueType, Ids
<1>1. HeldOnce /\ \A q \in Prompts : HolderOf(q)
  BY DEF HolderInv, OneHolder, HeldOnce, HolderOf, Unposted
<1>2. SUFFICES HeldOnce' /\ \A q \in Prompts : HolderOf(q)'
  BY DEF OneHolder, HeldOnce, HolderOf, Unposted
<1>3. ASSUME NEW x, sub' = [sub EXCEPT ![Drain] = x]
      PROVE  sub'[Drain] = x /\ \A q \in Prompts : sub'[q] = sub[q]
  BY <1>0, <1>3
<1>4. ASSUME UNCHANGED pq.held
      PROVE  HeldOnce' /\ \A q \in Prompts : IsHeld(q)' = IsHeld(q)
  BY <1>1, <1>4 DEF HeldOnce, IsHeld
<1>5. CASE DrainWake
  <2>1. CASE pq.held = <<>>
    <3>1. UNCHANGED <<pq, sub, posts, result>>
      BY <1>5, <2>1 DEF DrainWake
    <3> QED
      BY <1>1, <3>1 DEF HeldOnce, HolderOf, IsHeld, Fresh
  <2>2. CASE pq.held # <<>>
    <3> DEFINE q == Head(pq.held).prompt
    <3>1. /\ sub' = [sub EXCEPT ![Drain] = At("select", q)]
          /\ pq'.held = Tail(pq.held)
          /\ UNCHANGED <<posts, result>>
      BY <1>5, <2>2 DEF DrainWake, DropNextHeld, HolderInv, TypeOK, QueueType
    <3>2. /\ Len(pq.held) >= 1 /\ q = pq.held[1].prompt
          /\ Len(pq'.held) = Len(pq.held) - 1
          /\ \A k \in 1..Len(pq'.held) : pq'.held[k] = pq.held[k + 1]
      BY <1>0, <2>2, <3>1, HeadTailProperties, EmptySeq
    <3>3. HeldOnce'
      <4> SUFFICES ASSUME NEW j \in 1..Len(pq'.held), NEW k \in 1..Len(pq'.held),
                          pq'.held[j].prompt = pq'.held[k].prompt
                   PROVE  j = k
        BY DEF HeldOnce
      <4>1. /\ j + 1 \in 1..Len(pq.held) /\ k + 1 \in 1..Len(pq.held)
            /\ pq.held[j + 1].prompt = pq.held[k + 1].prompt
        BY <1>0, <3>2
      <4>2. j + 1 = k + 1
        BY <1>1, <4>1 DEF HeldOnce
      <4> QED
        BY <4>2
    <3>4. \A r \in Prompts : IsHeld(r)' => IsHeld(r) /\ r # q
      <4> SUFFICES ASSUME NEW r \in Prompts, NEW k \in 1..Len(pq'.held),
                          pq'.held[k].prompt = r
                   PROVE  IsHeld(r) /\ r # q
        BY DEF IsHeld
      <4>1. k + 1 \in 1..Len(pq.held) /\ 1 \in 1..Len(pq.held) /\ k + 1 # 1
            /\ pq.held[k + 1].prompt = r
        BY <1>0, <3>2
      <4> QED
        BY <1>1, <3>2, <4>1 DEF HeldOnce, IsHeld
    <3>5. IsHeld(q)
      BY <1>0, <3>2 DEF IsHeld
    <3>6. At("select", q).prompt = q
      BY DEF At
    <3>7. sub'[Drain].prompt = q /\ \A r \in Prompts : sub'[r] = sub[r]
      BY <1>3, <3>1, <3>6
    <3> HIDE DEF q
    <3>8. ASSUME NEW r \in Prompts PROVE HolderOf(r)'
      <4>1. IsHeld(r)' => IsHeld(r) /\ r # q
        BY <3>4
      <4>2. HolderOf(r) /\ Fresh(r)' = Fresh(r)
        BY <1>1, <3>1 DEF Fresh
      <4> QED
        BY <3>1, <3>5, <3>7, <4>1, <4>2 DEF HolderOf, Fresh
    <3> QED
      BY <3>3, <3>8
  <2> QED
    BY <2>1, <2>2
<1>6. ASSUME NEW x, PostMove(Drain, x)
      PROVE  HeldOnce' /\ \A q \in Prompts : HolderOf(q)'
  <2>0. PICK q \in Prompts : q = sub[Drain].prompt
    BY <1>0, <1>6 DEF PostMove
  <2>1. HolderOf(q) /\ ~ IsHeld(q) /\ sub[q].pc = "waiting" /\ result[q] = "none"
    BY <1>1, <2>0 DEF HolderOf
  <2>2. sub'[Drain] = x /\ (\A r \in Prompts : sub'[r] = sub[r])
        /\ x.prompt = q /\ x.pc = "responded"
    BY <1>3, <1>6, <2>0 DEF PostMove
  <2>3. UNCHANGED <<pq.held, result>> /\ \A r \in Prompts \ {q} : posts'[r] = posts[r]
    BY <1>0, <1>6, <2>0 DEF PostMove
  <2>4. HeldOnce' /\ \A r \in Prompts : IsHeld(r)' = IsHeld(r)
    BY <1>4, <2>3
  <2>5. HolderOf(q)'
    BY <2>1, <2>2, <2>3, <2>4 DEF HolderOf, Unposted
  <2>6. ASSUME NEW r \in Prompts \ {q} PROVE HolderOf(r)'
    BY <1>1, <2>0, <2>2, <2>3, <2>4 DEF HolderOf, Fresh
  <2> QED
    BY <2>4, <2>5, <2>6
<1>7. ASSUME NEW x, QuietMove(Drain, x), x.prompt = sub[Drain].prompt,
             x.pc \in Unposted => sub[Drain].pc \in Unposted
      PROVE  HeldOnce' /\ \A q \in Prompts : HolderOf(q)'
  <2>1. sub'[Drain] = x /\ (\A r \in Prompts : sub'[r] = sub[r])
    BY <1>3, <1>7 DEF QuietMove
  <2>2. HeldOnce' /\ \A r \in Prompts : IsHeld(r)' = IsHeld(r)
    BY <1>1, <1>4, <1>7 DEF QuietMove
  <2>3. \A r \in Prompts : Fresh(r)' = Fresh(r) /\ result'[r] = result[r]
    BY <1>7 DEF QuietMove, Fresh
  <2>4. ASSUME NEW r \in Prompts PROVE HolderOf(r)'
    BY <1>1, <1>7, <2>1, <2>2, <2>3 DEF HolderOf
  <2> QED
    BY <2>2, <2>4
<1>8. ASSUME NEW o, sub[Drain].pc # "idle", sub' = [sub EXCEPT ![Drain] = At("idle", None)],
             result' = [result EXCEPT ![sub[Drain].prompt] = o],
             UNCHANGED <<pq.held, posts>>
      PROVE  HeldOnce' /\ \A q \in Prompts : HolderOf(q)'
  <2> DEFINE q == sub[Drain].prompt
  <2>1. q \in Prompts /\ ~ IsHeld(q) /\ sub[q].pc = "waiting"
    BY <1>0, <1>1, <1>8 DEF HolderOf
  <2>2. At("idle", None).prompt = None
    BY DEF At
  <2>3. \A r \in Prompts \ {q} : result'[r] = result[r]
    BY <1>0, <1>8
  <2> HIDE DEF q
  <2> QED
    BY <1>0, <1>1, <1>3, <1>4, <1>8, <2>1, <2>2, <2>3 DEF HolderOf, Fresh, Unposted
<1> QED
  BY <1>5, <1>6, <1>7, <1>8, DrainMoves DEF HolderInv

(* Every step keeps every request in one hand.                             *)
LEMMA HolderStep == HolderInv /\ [Next]_vars => HolderInv'
<1> SUFFICES ASSUME HolderInv, [Next]_vars PROVE OneHolder'
  BY NextType DEF HolderInv
<1>1. CASE DrainReactor
  BY <1>1, DrainHolder
<1>2. ASSUME NEW p \in Prompts, Request(p) \/ Task(p) PROVE OneHolder'
  BY <1>2, TaskHolder
<1>3. CASE UNCHANGED <<pq.held, posts, result, sub>>
  BY <1>3 DEF HolderInv, OneHolder, IsHeld, Fresh
<1> QED
  BY <1>1, <1>2, <1>3, OtherMoves DEF Next, Serve, HolderInv

(* It holds initially: nothing is held, posted or answered.                *)
LEMMA InitHolder == Init => HolderInv
<1> SUFFICES ASSUME Init PROVE OneHolder
  BY InitType DEF HolderInv
<1>1. sub[Drain].prompt = None /\ \A p \in Prompts : p # None /\ Fresh(p)
  BY IdsAssumption DEF Init, At, Fresh, Ids, Submitters
<1>2. pq.held = <<>>
  BY DEF Init, EmptyQueue
<1> QED
  BY <1>1, <1>2 DEF OneHolder, IsHeld

(* In every state, what the held list or the drain reactor has of a        *)
(* request is its only copy.                                               *)
THEOREM RequestsInOneHand == Spec => []OneHolder
<1>1. HolderInv => OneHolder
  BY DEF HolderInv
<1> QED
  BY <1>1, InitHolder, HolderStep, PTL DEF Spec

(* ComfyUI gets no request twice, whatever the order of events, however    *)
(* often a post may be repeated (MaxPosts) and whoever submits it: only    *)
(* the one hand that has it posts it, and it has not been posted before.   *)
THEOREM NeverPostedTwice == Spec => []PostedAtMostOnce
<1> DEFINE Inv == HolderInv /\ PostedAtMostOnce
<1>1. Init => Inv
  <2> SUFFICES ASSUME Init PROVE PostedAtMostOnce
    BY InitHolder
  <2> QED
    BY DEF Init, PostedAtMostOnce
<1>2. Inv /\ [Next]_vars => Inv'
  <2> SUFFICES ASSUME HolderInv, PostedAtMostOnce, [Next]_vars PROVE PostedAtMostOnce'
    BY HolderStep
  <2>0. /\ posts \in [Prompts -> 0..MaxPosts]
        /\ \A p \in Prompts : sub[p].prompt = p
        /\ sub[Drain].pc # "idle" => sub[Drain].prompt \in Prompts
    BY SubFacts DEF HolderInv, TypeOK
  <2>1. CASE UNCHANGED posts
    BY <2>1 DEF PostedAtMostOnce
  <2>2. ASSUME NEW s \in Submitters, NEW x, PostMove(s, x) PROVE PostedAtMostOnce'
    <3>1. PICK p \in Prompts : p = sub[s].prompt
      BY <2>0, <2>2 DEF PostMove, Submitters
    <3>2. posts[p] = 0
      BY <2>0, <2>2, <3>1 DEF PostMove, HolderInv, OneHolder, Fresh, Submitters, Unposted
    <3>3. posts' = [posts EXCEPT ![p] = 1]
      BY <2>0, <2>2, <3>1, <3>2 DEF PostMove
    <3> QED
      BY <2>0, <3>3 DEF PostedAtMostOnce
  <2>3. ASSUME NEW p \in Prompts, Request(p) \/ Task(p) PROVE PostedAtMostOnce'
    <3>1. p \in Submitters
      BY DEF Submitters
    <3> QED
      BY <2>1, <2>2, <2>3, <3>1, TaskMoves DEF HolderInv, HoldPrompt, TakeResult, QuietMove
  <2>4. CASE DrainReactor
    <3>1. Drain \in Submitters
      BY DEF Submitters
    <3> QED
      BY <2>1, <2>2, <2>4, <3>1, DrainMoves DEF HolderInv, DrainWake, QuietMove
  <2> QED
    BY <2>1, <2>3, <2>4, OtherMoves DEF Next, Serve, HolderInv
<1>3. Inv => PostedAtMostOnce
  OBVIOUS
<1> HIDE DEF Inv
<1> QED
  BY <1>1, <1>2, <1>3, PTL DEF Spec

(* Every task that waits for the drain reactor's answer is in its hands,   *)
(* in the held list with someone to be notified, or answered.              *)
THEOREM NoWaiterIsOrphaned == Spec => []NoOrphanWaiter
<1> DEFINE Inv == HolderInv /\ NoOrphanWaiter
<1>1. Init => Inv
  <2> SUFFICES ASSUME Init PROVE NoOrphanWaiter
    BY InitHolder
  <2>1. \A p \in Prompts : sub[p].pc # "waiting"
    BY DEF Init, At, Submitters
  <2> QED
    BY <2>1 DEF NoOrphanWaiter
<1>2. Inv /\ [Next]_vars => Inv'
  <2> SUFFICES ASSUME HolderInv, NoOrphanWaiter, [Next]_vars PROVE NoOrphanWaiter'
    BY HolderStep
  <2> DEFINE H(p) == [prompt |-> p, awaited |-> TRUE]
  <2>0. /\ \A p \in Prompts : p \in Submitters /\ p # Drain /\ sub[p].prompt = p
        /\ Drain \in Submitters /\ sub \in [Submitters -> Submission]
        /\ pq \in QueueType /\ pq.held \in Seq(HeldPrompt)
        /\ result \in [Prompts -> {"none", "ok", "err"}]
        /\ sub[Drain].pc # "idle" => sub[Drain].prompt \in Prompts
    BY SubFacts, ServerAssumption DEF HolderInv, TypeOK, QueueType
  <2>1. CASE UNCHANGED <<pq.held, posts, result, sub>>
    BY <2>1 DEF NoOrphanWaiter
  <2>2. ASSUME NEW p \in Prompts, Request(p) \/ Task(p) PROVE NoOrphanWaiter'
    <3>1. ASSUME NEW x, sub' = [sub EXCEPT ![p] = x], UNCHANGED <<pq.held, result>>,
                 x.pc # "waiting"
          PROVE  NoOrphanWaiter'
      BY <2>0, <3>1 DEF NoOrphanWaiter
    <3>2. CASE HoldPrompt(p)
      <4>1. /\ sub' = [sub EXCEPT ![p].pc = "waiting"] /\ UNCHANGED result
            /\ pq'.held = Append(pq.held, H(p))
        BY <2>0, <3>2 DEF HoldPrompt, Hold, QueueType
      <4>2. H(p) \in HeldPrompt
        BY DEF HeldPrompt
      <4>3. Elems(pq'.held) = Elems(pq.held) \cup {H(p)}
        <5> HIDE DEF H
        <5> QED
          BY <2>0, <4>1, <4>2, AppendProperties DEF Elems
      <4>4. sub'[Drain] = sub[Drain] /\ \A q \in Prompts \ {p} : sub'[q] = sub[q]
        BY <2>0, <4>1
      <4> QED
        BY <4>1, <4>3, <4>4 DEF NoOrphanWaiter
    <3>3. CASE TakeResult(p)
      <4>1. At("done", p).pc # "waiting" /\ UNCHANGED <<pq.held, result>>
        BY <2>0, <3>3, HeldKept DEF TakeResult, At
      <4> QED
        BY <3>1, <3>3, <4>1 DEF TakeResult
    <3> QED
      BY <2>2, <3>1, <3>2, <3>3, TaskMoves DEF HolderInv, PostMove, QuietMove
  <2>3. CASE DrainReactor
    <3>1. ASSUME NEW x, sub' = [sub EXCEPT ![Drain] = x], UNCHANGED <<pq.held, result>>,
                 x.prompt = sub[Drain].prompt
          PROVE  NoOrphanWaiter'
      BY <2>0, <3>1 DEF NoOrphanWaiter
    <3>2. CASE DrainWake
      <4>0. sub[Drain].prompt = None /\ None \notin Prompts
        BY <2>0, <3>2, SubFacts, IdsAssumption DEF DrainWake, HolderInv, Ids, SubmissionOK
      <4>1. CASE pq.held = <<>>
        <5>1. UNCHANGED <<pq.held, posts, result, sub>>
          BY <3>2, <4>1 DEF DrainWake
        <5> QED
          BY <2>1, <5>1
      <4>2. CASE pq.held # <<>>
        <5>1. /\ sub' = [sub EXCEPT ![Drain] = At("select", Head(pq.held).prompt)]
              /\ pq'.held = Tail(pq.held) /\ UNCHANGED result
          BY <2>0, <3>2, <4>2 DEF DrainWake, DropNextHeld, QueueType
        <5>2. \A k \in 1..Len(pq.held) :
                pq.held[k] = Head(pq.held) \/ pq.held[k] \in Elems(pq'.held)
          <6>1. /\ Len(pq.held) >= 1 /\ Head(pq.held) = pq.held[1]
                /\ Len(pq'.held) = Len(pq.held) - 1
                /\ \A k \in 1..Len(pq'.held) : pq'.held[k] = pq.held[k + 1]
            BY <2>0, <4>2, <5>1, HeadTailProperties, EmptySeq
          <6> SUFFICES ASSUME NEW k \in 1..Len(pq.held), k # 1
                       PROVE  pq.held[k] \in Elems(pq'.held)
            BY <6>1
          <6>2. k - 1 \in 1..Len(pq'.held) /\ pq'.held[k - 1] = pq.held[k]
            BY <2>0, <6>1
          <6> QED
            BY <6>2 DEF Elems
        <5>3. /\ sub'[Drain].prompt = Head(pq.held).prompt
              /\ \A q \in Prompts : sub'[q] = sub[q]
          BY <2>0, <5>1 DEF At
        <5>4. ASSUME NEW p \in Prompts, sub'[p].pc = "waiting", result'[p] = "none",
                     sub'[Drain].prompt # p
              PROVE  H(p) \in Elems(pq'.held)
          <6>1. H(p) \in Elems(pq.held)
            BY <4>0, <5>1, <5>3, <5>4 DEF NoOrphanWaiter
          <6>2. PICK k \in 1..Len(pq.held) : pq.held[k] = H(p)
            BY <6>1 DEF Elems
          <6>3. H(p) # Head(pq.held)
            BY <5>3, <5>4
          <6> QED
            BY <5>2, <6>2, <6>3
        <5> QED
          BY <5>4 DEF NoOrphanWaiter
      <4> QED
        BY <4>1, <4>2
    <3>3. ASSUME NEW o \in {"ok", "err"}, sub[Drain].pc # "idle",
                 sub' = [sub EXCEPT ![Drain] = At("idle", None)],
                 result' = [result EXCEPT ![sub[Drain].prompt] = o],
                 UNCHANGED pq.held
          PROVE  NoOrphanWaiter'
      BY <2>0, <3>3 DEF NoOrphanWaiter
    <3> QED
      BY <2>3, <3>1, <3>2, <3>3, DrainMoves DEF HolderInv, PostMove, QuietMove
  <2> QED
    BY <2>1, <2>2, <2>3, OtherMoves DEF Next, Serve, HolderInv
<1>3. Inv => NoOrphanWaiter
  OBVIOUS
<1> HIDE DEF Inv
<1> QED
  BY <1>1, <1>2, <1>3, PTL DEF Spec

-----------------------------------------------------------------------------
(* What a step leaves in the hands of the submitters. *)

(* A submitter's own step leaves the other submitters alone.               *)
LEMMA OwnStep ==
  ASSUME TypeOK, NEW s \in Submitters, NEW x, sub' = [sub EXCEPT ![s] = x]
  PROVE  sub'[s] = x /\ \A t \in Submitters \ {s} : sub'[t] = sub[t]
BY DEF TypeOK

(* Choosing a worker: the prompt stays the same, and the reservation is    *)
(* the one the submitter will post under.                                  *)
LEMMA SelectAfter ==
  ASSUME TypeOK, NEW s \in Submitters, SelectIdle(s) \/ SelectRunning(s) \/ SelectNone(s)
  PROVE  /\ \A t \in Submitters \ {s} : sub'[t] = sub[t]
         /\ sub[s].pc \in {"select", "waitWorker"}
         /\ sub'[s].pc \in {"posting", "waitWorker"}
         /\ sub'[s].prompt = sub[s].prompt
         /\ SelectIdle(s) => /\ sub'[s].pc = "posting" /\ sub'[s].exclusive
                             /\ gpu' = ReserveAndRun(gpu, sub'[s].worker)
         /\ ~ SelectIdle(s) => UNCHANGED gpu
<1>0. sub[s] \in Submission
  BY SubFacts
<1>1. CASE SelectIdle(s)
  <2>1. PICK w \in Workers :
          /\ gpu' = ReserveAndRun(gpu, w)
          /\ sub' = [sub EXCEPT ![s] = [@ EXCEPT !.pc = "posting", !.worker = w,
                                                 !.exclusive = TRUE]]
    BY <1>1 DEF SelectIdle
  <2> DEFINE x == [sub[s] EXCEPT !.pc = "posting", !.worker = w, !.exclusive = TRUE]
  <2>2. x.pc = "posting" /\ x.worker = w /\ x.exclusive /\ x.prompt = sub[s].prompt
    BY <1>0 DEF Submission
  <2>3. sub'[s] = x /\ \A t \in Submitters \ {s} : sub'[t] = sub[t]
    BY <2>1, OwnStep
  <2>4. sub[s].pc \in {"select", "waitWorker"}
    BY <1>1 DEF SelectIdle
  <2> HIDE DEF x
  <2> QED
    BY <1>1, <2>1, <2>2, <2>3, <2>4
<1>2. CASE SelectRunning(s) /\ ~ SelectIdle(s)
  <2>1. PICK w \in Workers :
          sub' = [sub EXCEPT ![s] = [@ EXCEPT !.pc = "posting", !.worker = w]]
    BY <1>2 DEF SelectRunning
  <2> DEFINE x == [sub[s] EXCEPT !.pc = "posting", !.worker = w]
  <2>2. x.pc = "posting" /\ x.prompt = sub[s].prompt
    BY <1>0 DEF Submission
  <2>3. sub'[s] = x /\ \A t \in Submitters \ {s} : sub'[t] = sub[t]
    BY <2>1, OwnStep
  <2>4. sub[s].pc \in {"select", "waitWorker"} /\ UNCHANGED gpu
    BY <1>2 DEF SelectRunning
  <2> HIDE DEF x
  <2> QED
    BY <1>2, <2>2, <2>3, <2>4
<1>3. CASE SelectNone(s) /\ ~ SelectIdle(s)
  <2> DEFINE x == [sub[s] EXCEPT !.pc = "waitWorker"]
  <2>2. x.pc = "waitWorker" /\ x.prompt = sub[s].prompt
    BY <1>0 DEF Submission
  <2>3. sub'[s] = x /\ \A t \in Submitters \ {s} : sub'[t] = sub[t]
    BY <1>3, OwnStep DEF SelectNone
  <2>4. sub[s].pc = "select" /\ UNCHANGED gpu
    BY <1>3 DEF SelectNone
  <2> HIDE DEF x
  <2> QED
    BY <1>3, <2>2, <2>3, <2>4
<1> QED
  BY <1>1, <1>2, <1>3

(* An accepted post, and the two ways to record that it was accepted.      *)
LEMMA AnswerAfter ==
  ASSUME TypeOK, NEW s \in Submitters, PostAccepted(s) \/ Bind(s) \/ InsertPreview(s)
  PROVE  /\ \A t \in Submitters \ {s} : sub'[t] = sub[t]
         /\ sub'[s].prompt = sub[s].prompt
         /\ sub'[s].worker = sub[s].worker
         /\ sub'[s].exclusive = sub[s].exclusive
         /\ PostAccepted(s) => /\ sub[s].pc = "posting"
                               /\ sub'[s].pc = "responded"
                               /\ sub'[s].real = <<sub[s].prompt, posts[sub[s].prompt] + 1>>
         /\ ~ PostAccepted(s) => sub[s].pc = "responded" /\ sub'[s].real = sub[s].real
         /\ Bind(s) => sub'[s].pc = IF WasDeferred(pq, sub[s].real) THEN "deferred"
                                                                    ELSE "bound"
         /\ InsertPreview(s) => sub'[s].pc = "inserted"
<1>0. sub[s] \in Submission
  BY SubFacts
<1>1. CASE PostAccepted(s)
  <2> DEFINE r == <<sub[s].prompt, posts[sub[s].prompt] + 1>>
             x == [sub[s] EXCEPT !.pc = "responded", !.real = r]
  <2>1. sub'[s] = x /\ \A t \in Submitters \ {s} : sub'[t] = sub[t]
    BY <1>1, OwnStep DEF PostAccepted
  <2>2. /\ x.pc = "responded" /\ x.real = r /\ x.prompt = sub[s].prompt
        /\ x.worker = sub[s].worker /\ x.exclusive = sub[s].exclusive
    BY <1>0 DEF Submission
  <2>3. sub[s].pc = "posting" /\ ~ Bind(s) /\ ~ InsertPreview(s)
    BY <1>1 DEF PostAccepted, Bind, InsertPreview
  <2> HIDE DEF x
  <2> QED
    BY <1>1, <2>1, <2>2, <2>3
<1>2. CASE Bind(s) \/ InsertPreview(s)
  <2>1. sub[s].pc = "responded" /\ ~ PostAccepted(s)
    BY <1>2 DEF PostAccepted, Bind, InsertPreview
  <2>2. PICK pc :
          /\ sub' = [sub EXCEPT ![s].pc = pc]
          /\ Bind(s) => pc = IF WasDeferred(pq, sub[s].real) THEN "deferred" ELSE "bound"
          /\ InsertPreview(s) => pc = "inserted"
    BY <1>2 DEF Bind, InsertPreview
  <2> DEFINE x == [sub[s] EXCEPT !.pc = pc]
  <2>3. sub'[s] = x /\ \A t \in Submitters \ {s} : sub'[t] = sub[t]
    BY <2>2, OwnStep
  <2>4. /\ x.pc = pc /\ x.real = sub[s].real /\ x.prompt = sub[s].prompt
        /\ x.worker = sub[s].worker /\ x.exclusive = sub[s].exclusive
    BY <1>0 DEF Submission
  <2> HIDE DEF x
  <2> QED
    BY <1>2, <2>1, <2>2, <2>3, <2>4
<1> QED
  BY <1>1, <1>2

(* A submitter that is through with a prompt has nothing in its hands.     *)
LEMMA ThroughAfter ==
  ASSUME TypeOK, NEW s \in Submitters,
         \/ SelectTimeout(s) \/ PostFailed(s) \/ AnswerLost(s)
         \/ RecordWorker(s) \/ ReleaseDeferred(s)
  PROVE  /\ \A t \in Submitters \ {s} : sub'[t] = sub[t]
         /\ s = Drain => sub'[s].pc = "idle" /\ sub'[s].prompt = None
         /\ s # Drain => sub'[s].pc = "done" /\ sub'[s].prompt = s
         /\ ~ sub'[s].exclusive
<1> DEFINE x == IF s = Drain THEN At("idle", None) ELSE At("done", s)
<1>1. sub' = [sub EXCEPT ![s] = x]
  BY DEF SelectTimeout, PostFailed, AnswerLost, RecordWorker, ReleaseDeferred,
         SubmitFailed, Settled
<1>2. sub'[s] = x /\ \A t \in Submitters \ {s} : sub'[t] = sub[t]
  BY <1>1, OwnStep
<1> QED
  BY <1>2 DEF At

(* The steps of a request's task before and after it submits.              *)
LEMMA TaskAfter ==
  ASSUME TypeOK, NEW p \in Prompts, Request(p) \/ Task(p), ~ Submit(p)
  PROVE  /\ \A t \in Submitters \ {p} : sub'[t] = sub[t]
         /\ sub'[p].prompt = p
         /\ CheckHold(p) => sub[p].pc = "new" /\ sub'[p].pc = "checked" /\ p \notin Previews
         /\ InsertAndSpawn(p) => sub[p].pc = "checked" /\ sub'[p].pc = "spawned"
         /\ HoldPrompt(p) => sub[p].pc = "spawned" /\ sub'[p].pc = "waiting"
         /\ SubmitDirectly(p) => sub[p].pc = "spawned" /\ sub'[p].pc = "select"
         /\ SubmitPreview(p) => sub[p].pc = "new" /\ sub'[p].pc = "select"
         /\ TakeResult(p) => sub[p].pc = "waiting" /\ sub'[p].pc = "done"
         /\ sub'[p].pc \in {"checked", "spawned", "waiting", "select", "done"}
<1>0. sub[p] \in Submission /\ p \in Submitters /\ sub[p].prompt = p
  BY SubFacts
<1>1. CASE CheckHold(p)
  <2> DEFINE x == [sub[p] EXCEPT !.pc = "checked", !.hold = NeedsHold(UserOf[p])]
  <2>1. sub'[p] = x /\ \A t \in Submitters \ {p} : sub'[t] = sub[t]
    BY <1>0, <1>1, OwnStep DEF CheckHold
  <2>2. x.pc = "checked" /\ x.prompt = p
    BY <1>0 DEF Submission
  <2>3. sub[p].pc = "new" /\ p \notin Previews
    BY <1>1 DEF CheckHold
  <2> HIDE DEF x
  <2> QED
    BY <2>1, <2>2, <2>3
       DEF InsertAndSpawn, HoldPrompt, SubmitDirectly, SubmitPreview, TakeResult
<1>2. CASE InsertAndSpawn(p) \/ HoldPrompt(p) \/ SubmitDirectly(p) \/ SubmitPreview(p)
  <2>1. PICK pc \in {"spawned", "waiting", "select"} :
          /\ sub' = [sub EXCEPT ![p].pc = pc]
          /\ InsertAndSpawn(p) => pc = "spawned"
          /\ HoldPrompt(p) => pc = "waiting"
          /\ SubmitDirectly(p) \/ SubmitPreview(p) => pc = "select"
    <3>1. CASE InsertAndSpawn(p)
      BY <3>1 DEF InsertAndSpawn, HoldPrompt, SubmitDirectly, SubmitPreview
    <3>2. CASE HoldPrompt(p)
      BY <3>2 DEF InsertAndSpawn, HoldPrompt, SubmitDirectly, SubmitPreview
    <3>3. CASE SubmitDirectly(p) \/ SubmitPreview(p)
      BY <3>3 DEF InsertAndSpawn, HoldPrompt, SubmitDirectly, SubmitPreview
    <3> QED
      BY <1>2, <3>1, <3>2, <3>3
  <2> DEFINE x == [sub[p] EXCEPT !.pc = pc]
  <2>2. sub'[p] = x /\ \A t \in Submitters \ {p} : sub'[t] = sub[t]
    BY <1>0, <2>1, OwnStep
  <2>3. x.pc = pc /\ x.prompt = p
    BY <1>0 DEF Submission
  <2>4. ~ CheckHold(p) \/ sub[p].pc = "new"
    BY DEF CheckHold
  <2>5. ~ TakeResult(p)
    BY <1>2 DEF TakeResult, InsertAndSpawn, HoldPrompt, SubmitDirectly, SubmitPreview
  <2>6. ~ CheckHold(p)
    BY <1>2, <2>2, <2>3
       DEF CheckHold, InsertAndSpawn, HoldPrompt, SubmitDirectly, SubmitPreview
  <2> HIDE DEF x
  <2> QED
    BY <2>1, <2>2, <2>3, <2>5, <2>6
       DEF InsertAndSpawn, HoldPrompt, SubmitDirectly, SubmitPreview
<1>3. CASE TakeResult(p)
  <2>1. sub'[p] = At("done", p) /\ \A t \in Submitters \ {p} : sub'[t] = sub[t]
    BY <1>0, <1>3, OwnStep DEF TakeResult
  <2> QED
    BY <1>3, <2>1
       DEF At, TakeResult, CheckHold, InsertAndSpawn, HoldPrompt, SubmitDirectly, SubmitPreview
<1> QED
  BY <1>1, <1>2, <1>3 DEF Request, Task

(* The drain reactor takes a prompt when one is held.                      *)
LEMMA DrainAfter ==
  ASSUME TypeOK, DrainWake
  PROVE  /\ \A t \in Submitters \ {Drain} : sub'[t] = sub[t]
         /\ sub[Drain].pc = "idle"
         /\ pq.held = <<>> => UNCHANGED sub
         /\ pq.held # <<>> => /\ sub'[Drain].pc = "select"
                              /\ sub'[Drain].prompt = Head(pq.held).prompt
<1>0. Drain \in Submitters
  BY SubFacts
<1>1. CASE pq.held = <<>>
  BY <1>1 DEF DrainWake
<1>2. CASE pq.held # <<>>
  <2>1. sub'[Drain] = At("select", Head(pq.held).prompt)
        /\ \A t \in Submitters \ {Drain} : sub'[t] = sub[t]
    BY <1>0, <1>2, OwnStep DEF DrainWake
  <2> QED
    BY <1>2, <2>1 DEF DrainWake, At
<1> QED
  BY <1>1, <1>2

-----------------------------------------------------------------------------
(* Signals for the drain reactor. *)

(* A signal is stored, or something goes on that ends in one.              *)
InFlight ==
  \/ drainPermit
  \/ events # <<>>
  \/ reactor.pc # "recv"
  \/ \E w \in Workers : comfy[w] # <<>>

(* While the drain reactor waits for an answer to its post, or records it, *)
(* the prompt it has posted is still to end: nobody else takes a signal.   *)
DrainSignals ==
  sub[Drain].pc \in {"responded", "inserted", "bound"} => InFlight

(* A sequence that something is appended to is not empty.                  *)
LEMMA AppendedNotEmpty ==
  ASSUME NEW T, NEW s \in Seq(T), NEW t \in Seq(T), t # <<>>
  PROVE  s \o t # <<>> /\ \A x \in T : Append(s, x) # <<>>
<1>1. Len(t) > 0 /\ Len(s) >= 0 /\ Len(s \o t) = Len(s) + Len(t)
  BY EmptySeq, ConcatProperties, LenProperties
<1>2. \A x \in T : Len(Append(s, x)) = Len(s) + 1
  BY AppendProperties
<1> QED
  BY <1>1, <1>2, EmptySeq

(* An accepted post is in the queue of the submitter's worker.             *)
LEMMA AcceptedInQueue ==
  ASSUME TypeOK, NEW s \in Submitters, PostAccepted(s)
  PROVE  \E w \in Workers, r \in Reals :
           /\ r = <<sub[s].prompt, posts[sub[s].prompt] + 1>>
           /\ comfy'[w] = Append(comfy[w], r)
           /\ comfy'[w] # <<>>
           /\ \A v \in Workers \ {w} : comfy'[v] = comfy[v]
<1> DEFINE w == sub[s].worker
           p == sub[s].prompt
           r == <<p, posts[p] + 1>>
<1>1. /\ w \in Workers /\ p \in Prompts /\ posts[p] \in 0..MaxPosts /\ posts[p] < MaxPosts
      /\ comfy \in [Workers -> Seq(Reals)]
  BY SubFacts DEF PostAccepted, SubmissionOK, TypeOK
<1>2. r \in Reals
  BY <1>1, BoundsAssumption DEF Reals
<1>3. comfy' = [comfy EXCEPT ![w] = Append(@, r)]
  BY DEF PostAccepted
<1> HIDE DEF w, r
<1>4. /\ comfy'[w] = Append(comfy[w], r)
      /\ \A v \in Workers \ {w} : comfy'[v] = comfy[v]
  BY <1>1, <1>3
<1>5. Append(comfy[w], r) # <<>>
  BY <1>1, <1>2, AppendProperties, EmptySeq
<1> QED
  BY <1>1, <1>2, <1>4, <1>5 DEF r

(* What is in ComfyUI stays there or ends in the channel, what is in the   *)
(* channel goes to the cleanup reactor, and that ends in a signal: only    *)
(* the drain reactor takes signals away.                                   *)
LEMMA InFlightStays ==
  ASSUME TypeOK, [Next]_vars, ~ DrainWake, InFlight
  PROVE  InFlight'
<1>0. events \in Seq(Event) /\ comfy \in [Workers -> Seq(Reals)]
  BY DEF TypeOK
<1>1. ASSUME UNCHANGED <<drainPermit, events, reactor, comfy>> PROVE InFlight'
  BY <1>1 DEF InFlight
<1>2. ASSUME NEW i \in Ids, events' = Append(events, [kind |-> "error", id |-> i])
      PROVE  InFlight'
  <2>1. [kind |-> "error", id |-> i] \in Event
    BY DEF Event
  <2>2. events' # <<>>
    BY <1>0, <1>2, <2>1, AppendProperties, EmptySeq
  <2> QED
    BY <2>2 DEF InFlight
<1>3. ASSUME NEW s \in Submitters, Submit(s) PROVE InFlight'
  <2>1. CASE PostAccepted(s)
    BY <2>1, AcceptedInQueue DEF InFlight
  <2>2. CASE SelectTimeout(s) \/ PostFailed(s) \/ AnswerLost(s)
    <3>1. UNCHANGED <<drainPermit, reactor, comfy>> /\ SubmitFailed(s)
      BY <2>2 DEF SelectTimeout, PostFailed, AnswerLost
    <3>2. UNCHANGED events \/ (s \in Ids /\ events' = Append(events, [kind |-> "error", id |-> s]))
      BY <3>1 DEF SubmitFailed, Submitters, Ids
    <3> QED
      BY <1>1, <1>2, <3>1, <3>2
  <2>3. CASE ReleaseDeferred(s)
    BY <2>3 DEF ReleaseDeferred, InFlight
  <2> QED
    BY <1>1, <1>3, <2>1, <2>2, <2>3
       DEF Submit, SelectIdle, SelectRunning, SelectNone, Bind, InsertPreview, RecordWorker
<1>4. ASSUME NEW p \in Prompts, Request(p) \/ Task(p), ~ Submit(p) PROVE InFlight'
  BY <1>1, <1>2, <1>4 DEF Request, Task, CheckHold, InsertAndSpawn, HoldPrompt,
     SubmitDirectly, SubmitPreview, TakeResult, Ids
<1>5. CASE CleanupReactor
  <2>1. CASE Reacted
    BY <2>1, Zenon DEF Reacted, InFlight
  <2>2. CASE ~ Reacted
    <3>1. CASE ReactorRecv
      BY <3>1 DEF ReactorRecv, InFlight
    <3>2. CASE ReactorFinish
      <4>1. PICK pc \in {"release", "park"} : reactor'.pc = pc
        BY <2>2, <3>2 DEF ReactorFinish, TypeOK, Reaction
      <4> QED
        BY <4>1 DEF InFlight
    <3> QED
      BY <1>5, <2>2, <3>1, <3>2 DEF CleanupReactor, ReactorPark, ReactorRelease
  <2> QED
    BY <2>1, <2>2
<1>6. ASSUME NEW w \in Workers, ExecutionEnds(w) PROVE InFlight'
  <2>1. PICK r \in Reals : r = Head(comfy[w])
    BY <1>0, <1>6, HeadTailProperties DEF ExecutionEnds
  <2>2. [kind |-> "done", id |-> r] \in Event /\ [kind |-> "error", id |-> r] \in Event
    BY DEF Event, Ids
  <2>3. \/ events' = Append(events, [kind |-> "done", id |-> r])
        \/ events' = events \o <<[kind |-> "error", id |-> r], [kind |-> "done", id |-> r]>>
    BY <1>6, <2>1 DEF ExecutionEnds
  <2>4. events' # <<>>
    <3> DEFINE t == <<[kind |-> "error", id |-> r], [kind |-> "done", id |-> r]>>
    <3>1. t \in Seq(Event) /\ t # <<>>
      BY <2>2
    <3> HIDE DEF t
    <3>2. events \o t # <<>> /\ Append(events, [kind |-> "done", id |-> r]) # <<>>
      BY <1>0, <2>2, <3>1, AppendedNotEmpty
    <3> QED
      BY <2>3, <3>2 DEF t
  <2> QED
    BY <2>4 DEF InFlight
<1>7. CASE AliasCleanup \/ (\E w \in Workers : Watchdog(w)) \/ UNCHANGED vars
  BY <1>1, <1>7 DEF AliasCleanup, Watchdog, vars
<1> QED
  BY <1>3, <1>4, <1>5, <1>6, <1>7, SubFacts DEF Next, Serve, Task, DrainReactor

(* A post is in ComfyUI's queue as soon as its answer is awaited.          *)
LEMMA DrainSignalsStep ==
  ASSUME TypeOK, DrainSignals, [Next]_vars
  PROVE  DrainSignals'
<1> SUFFICES ASSUME sub'[Drain].pc \in {"responded", "inserted", "bound"} PROVE InFlight'
  BY DEF DrainSignals
<1>0. Drain \in Submitters /\ Drain \notin Prompts
  BY SubFacts, ServerAssumption
<1>1. ~ DrainWake
  BY DrainAfter DEF DrainWake
<1>2. CASE PostAccepted(Drain)
  BY <1>0, <1>2, AcceptedInQueue DEF InFlight
<1>3. CASE ~ PostAccepted(Drain)
  <2>1. sub[Drain].pc \in {"responded", "inserted", "bound"}
    <3>1. CASE Submit(Drain)
      BY <1>0, <1>3, <3>1, SelectAfter, AnswerAfter, ThroughAfter DEF Submit
    <3>2. ASSUME NEW p \in Prompts, Request(p) \/ Task(p) PROVE UNCHANGED sub[Drain]
      <4>1. CASE Submit(p)
        BY <1>0, <4>1, SubFacts, SelectAfter, AnswerAfter, ThroughAfter DEF Submit
      <4> QED
        BY <1>0, <3>2, <4>1, TaskAfter
    <3>3. CASE ~ Submit(Drain) /\ ~ \E p \in Prompts : Request(p) \/ Task(p)
      BY <1>1, <3>3, OtherMoves DEF Next, Serve, DrainReactor
    <3> QED
      BY <3>1, <3>2, <3>3
  <2> QED
    BY <1>1, <2>1, InFlightStays DEF DrainSignals
<1> QED
  BY <1>2, <1>3

(* No signal is lost: as long as prompts are held, a signal that is on its *)
(* way stays on its way until the drain reactor takes one of them for it,  *)
(* and when it is through with that one, the next signal is on its way.    *)
THEOREM SignalsAreKept == Spec => SignalKept
<1> DEFINE Inv == HolderInv /\ DrainSignals
           Kept == SignalAhead /\ pq.held # <<>> => SignalAhead'
           Failed(p) == sub[p].pc = "waiting" /\ result[p] = "err"
<1>1. Init => Inv
  <2>1. ASSUME Init PROVE DrainSignals
    BY <2>1 DEF Init, At, DrainSignals, Submitters
  <2> QED
    BY <2>1, InitHolder
<1>2. Inv /\ [Next]_vars => Inv'
  BY HolderStep, DrainSignalsStep DEF HolderInv
<1>3. ASSUME Inv, [Next]_vars PROVE Kept
  <2> SUFFICES ASSUME SignalAhead, pq.held # <<>> PROVE SignalAhead'
    OBVIOUS
  <2>0. /\ Drain \in Submitters /\ Drain \notin Prompts /\ TypeOK
        /\ result \in [Prompts -> {"none", "ok", "err"}]
        /\ \A p \in Prompts : p \in Submitters
    BY <1>3, SubFacts, ServerAssumption DEF HolderInv, TypeOK
  <2>1. InFlight' \/ sub'[Drain].pc # "idle" \/ (\E p \in Prompts : Failed(p)') => SignalAhead'
    BY DEF InFlight, SignalAhead, CompletionAhead
  <2>2. CASE DrainWake
    BY <2>0, <2>1, <2>2, DrainAfter
  <2>3. CASE InFlight /\ ~ DrainWake
    BY <1>3, <2>0, <2>1, <2>3, InFlightStays
  <2>4. CASE sub[Drain].pc # "idle" /\ ~ InFlight
    <3>1. CASE SelectTimeout(Drain) \/ PostFailed(Drain) \/ AnswerLost(Drain)
      <4>1. PICK p \in Prompts : p = sub[Drain].prompt /\ sub[p].pc = "waiting"
        BY <1>3, <2>0, <2>4, SubFacts DEF HolderInv, OneHolder
      <4>2. result' = [result EXCEPT ![p] = "err"] /\ sub'[p] = sub[p]
        BY <2>0, <3>1, <4>1, ThroughAfter
           DEF SelectTimeout, PostFailed, AnswerLost, SubmitFailed
      <4>3. Failed(p)'
        BY <2>0, <4>1, <4>2
      <4> QED
        BY <2>1, <4>3
    <3>2. CASE RecordWorker(Drain)
      BY <1>3, <2>4, <3>2 DEF RecordWorker, DrainSignals
    <3>3. CASE ReleaseDeferred(Drain)
      BY <2>1, <3>3, Zenon DEF ReleaseDeferred, InFlight
    <3>4. CASE \/ SelectIdle(Drain) \/ SelectRunning(Drain) \/ SelectNone(Drain)
               \/ PostAccepted(Drain) \/ Bind(Drain) \/ InsertPreview(Drain)
      <4>1. sub'[Drain].pc # "idle"
        BY <2>0, <3>4, SelectAfter, AnswerAfter
      <4> QED
        BY <2>1, <4>1
    <3>5. ASSUME NEW p \in Prompts, Request(p) \/ Task(p) PROVE SignalAhead'
      <4>1. UNCHANGED sub[Drain]
        BY <2>0, <3>5, SubFacts, SelectAfter, AnswerAfter, ThroughAfter, TaskAfter DEF Submit
      <4> QED
        BY <2>1, <2>4, <4>1
    <3>6. CASE UNCHANGED sub
      BY <2>1, <2>4, <3>6
    <3> QED
      BY <1>3, <2>0, <2>2, <3>1, <3>2, <3>3, <3>4, <3>5, <3>6, OtherMoves
         DEF Next, Serve, DrainReactor, Submit
  <2>5. ASSUME NEW p \in Prompts, Failed(p) PROVE SignalAhead'
    <3>1. CASE TakeResult(p)
      <4>1. /\ events' = Append(events, [kind |-> "error", id |-> p])
            /\ [kind |-> "error", id |-> p] \in Event /\ events \in Seq(Event)
        BY <2>0, <2>5, <3>1 DEF TakeResult, Event, Ids, TypeOK
      <4>2. events' # <<>>
        BY <4>1, AppendProperties, EmptySeq
      <4> QED
        BY <2>1, <4>2 DEF InFlight
    <3>2. CASE ~ TakeResult(p)
      <4>1. UNCHANGED <<sub[p], result[p]>>
        <5>1. ASSUME NEW s \in Submitters, Submit(s) PROVE UNCHANGED <<sub[p], result[p]>>
          <6>1. s # p /\ (s = Drain => sub[s].prompt # p)
            BY <1>3, <2>0, <2>5, <5>1, SubFacts
               DEF HolderInv, OneHolder, Submit, SelectIdle, SelectRunning, SelectNone,
                   SelectTimeout, PostAccepted, PostFailed, AnswerLost, Bind,
                   InsertPreview, RecordWorker, ReleaseDeferred
          <6>2. UNCHANGED sub[p]
            BY <2>0, <5>1, <6>1, SelectAfter, AnswerAfter, ThroughAfter DEF Submit
          <6>3. UNCHANGED result \/ (s = Drain /\ \E o : result' = [result EXCEPT ![sub[s].prompt] = o])
            BY <5>1 DEF Submit, SelectIdle, SelectRunning, SelectNone,
                   SelectTimeout, PostAccepted, PostFailed, AnswerLost, Bind,
                   InsertPreview, RecordWorker, ReleaseDeferred, SubmitFailed, Settled
          <6> QED
            BY <2>0, <6>1, <6>2, <6>3
        <5>2. ASSUME NEW q \in Prompts, Request(q) \/ Task(q), ~ Submit(q)
              PROVE  UNCHANGED <<sub[p], result[p]>>
          <6>1. UNCHANGED result
            BY <5>2 DEF Request, Task, CheckHold, InsertAndSpawn, HoldPrompt,
                        SubmitDirectly, SubmitPreview, TakeResult
          <6>2. q # p
            BY <2>5, <3>2, <5>2 DEF Request, Task, CheckHold, InsertAndSpawn, HoldPrompt,
                                    SubmitDirectly, SubmitPreview
          <6> QED
            BY <2>0, <5>2, <6>1, <6>2, TaskAfter
        <5>3. CASE DrainWake
          BY <2>0, <5>3, DrainAfter DEF DrainWake
        <5> QED
          BY <1>3, <2>0, <5>1, <5>2, <5>3, OtherMoves DEF Next, Serve, DrainReactor, Task
      <4> QED
        BY <2>1, <2>5, <4>1
    <3> QED
      BY <3>1, <3>2
  <2> QED
    <3>1. \/ InFlight
          \/ sub[Drain].pc # "idle"
          \/ \E p \in Prompts : Failed(p)
      BY DEF SignalAhead, CompletionAhead, InFlight
    <3> HIDE DEF Failed
    <3> QED
      BY <2>2, <2>3, <2>4, <2>5, <3>1
<1>4. Inv /\ [Next]_vars => [Kept]_vars
  BY <1>3
<1> HIDE DEF Inv
<1> QED
  BY <1>1, <1>2, <1>4, PTL DEF Spec, SignalKept

-----------------------------------------------------------------------------
(* When a prompt is over. *)

(* The request an id belongs to.                                           *)
JobId(i) == IF i \in Prompts THEN i ELSE JobOf(i)

InHand == {"responded", "inserted", "bound"}

(* ComfyUI has had the request, or never will, and no submitter has an     *)
(* answer for it in its hands: nothing enters it into the queue or records *)
(* a worker for it any more.                                               *)
Over(p) ==
  /\ posts[p] = 1 \/ sub[p].pc = "done"
  /\ \A s \in Submitters : sub[s].prompt = p => sub[s].pc \notin InHand

(* The elements of a sequence that grows by two.                           *)
LEMMA PairElems ==
  ASSUME NEW T, NEW s \in Seq(T), NEW x \in T, NEW y \in T
  PROVE  Elems(s \o <<x, y>>) = Elems(s) \cup {x, y}
<1> DEFINE t == <<x, y>>
           u == s \o t
<1>1. t \in Seq(T) /\ Len(t) = 2 /\ t[1] = x /\ t[2] = y
  <2>1. <<x, y>> \in Seq(T)
    OBVIOUS
  <2> QED
    BY <2>1
<1> HIDE DEF t
<1>2. /\ Len(s) \in Nat /\ Len(u) = Len(s) + 2
      /\ \A i \in 1..Len(s) + 2 : u[i] = IF i <= Len(s) THEN s[i] ELSE t[i - Len(s)]
  <2>1. Len(u) = Len(s) + Len(t)
        /\ \A i \in 1..Len(s) + Len(t) : u[i] = IF i <= Len(s) THEN s[i] ELSE t[i - Len(s)]
    BY <1>1, ConcatProperties, Zenon
  <2>2. Len(s) \in Nat
    OBVIOUS
  <2> HIDE DEF u
  <2> QED
    BY <1>1, <2>1, <2>2
<1> HIDE DEF u
<1>3. u[Len(s) + 1] = x /\ u[Len(s) + 2] = y /\ \A i \in 1..Len(s) : u[i] = s[i]
  BY <1>1, <1>2
<1>4. \A i \in 1..Len(u) : i \in 1..Len(s) \/ i = Len(s) + 1 \/ i = Len(s) + 2
  BY <1>2
<1>5. 1..Len(s) \subseteq 1..Len(u) /\ Len(s) + 1 \in 1..Len(u) /\ Len(s) + 2 \in 1..Len(u)
  BY <1>2
<1>6. Elems(u) = Elems(s) \cup {x, y}
  BY <1>3, <1>4, <1>5 DEF Elems
<1> QED
  BY <1>6 DEF u, t

(* A sequence is its head and its tail.                                    *)
LEMMA HeadElems ==
  ASSUME NEW T, NEW s \in Seq(T), s # <<>>
  PROVE  Head(s) \in Elems(s) /\ Elems(s) = Elems(Tail(s)) \cup {Head(s)}
<1>1. /\ Len(s) \in Nat /\ Len(s) >= 1 /\ Head(s) = s[1]
      /\ Len(Tail(s)) = Len(s) - 1
      /\ \A i \in 1..Len(Tail(s)) : Tail(s)[i] = s[i + 1]
  BY HeadTailProperties, EmptySeq
<1>2. ASSUME NEW i \in 1..Len(s), i # 1 PROVE s[i] \in Elems(Tail(s))
  <2>1. i - 1 \in 1..Len(Tail(s)) /\ Tail(s)[i - 1] = s[i]
    BY <1>1, <1>2
  <2> QED
    BY <2>1 DEF Elems
<1>3. ASSUME NEW i \in 1..Len(Tail(s)) PROVE Tail(s)[i] \in Elems(s)
  <2>1. i + 1 \in 1..Len(s) /\ Tail(s)[i] = s[i + 1]
    BY <1>1, <1>3
  <2> QED
    BY <2>1 DEF Elems
<1> QED
  BY <1>1, <1>2, <1>3 DEF Elems

(* While a submitter works on a prompt, nobody else does: only the task    *)
(* that waits for the drain reactor has the same prompt.                   *)
LEMMA OneSubmitter ==
  ASSUME HolderInv, NEW s \in Submitters, NEW t \in Submitters, s # t,
         sub[s].prompt = sub[t].prompt, sub[s].pc \notin {"waiting", "idle"}
  PROVE  s = Drain /\ t = sub[s].prompt /\ sub[t].pc = "waiting"
<1>1. sub[s].prompt \in Prompts
  BY SubFacts DEF HolderInv
<1>2. s \in Prompts => s = sub[s].prompt
  BY SubFacts DEF HolderInv
<1>3. t \in Prompts => t = sub[t].prompt
  BY SubFacts DEF HolderInv
<1> QED
  BY <1>1, <1>2, <1>3 DEF HolderInv, OneHolder, Submitters

(* A request is posted for the first time when it is posted.               *)
LEMMA PostedFirst ==
  ASSUME HolderInv, NEW s \in Submitters, PostAccepted(s)
  PROVE  /\ sub[s].prompt \in Prompts
         /\ posts[sub[s].prompt] = 0
         /\ posts' = [posts EXCEPT ![sub[s].prompt] = 1]
         /\ sub[sub[s].prompt].pc # "done"
         /\ sub'[s].real = <<sub[s].prompt, 1>>
<1>1. PICK p \in Prompts : p = sub[s].prompt
  BY SubFacts DEF HolderInv, PostAccepted
<1>2. sub[s].pc = "posting" /\ (s = p \/ s = Drain)
  BY <1>1, SubFacts DEF PostAccepted, HolderInv, Submitters
<1>3. posts[p] = 0 /\ sub[p].pc # "done"
  BY <1>1, <1>2 DEF HolderInv, OneHolder, Unposted, Fresh
<1>4. posts' = [posts EXCEPT ![p] = 1]
  BY <1>1, <1>3 DEF PostAccepted, HolderInv, TypeOK
<1>5. sub'[s].real = <<p, 1>>
  BY <1>1, <1>3, AnswerAfter DEF HolderInv
<1> QED
  BY <1>1, <1>3, <1>4, <1>5

(* Only an accepted post changes the count.                                *)
LEMMA PostsKept ==
  ASSUME HolderInv, [Next]_vars, ~ \E s \in Submitters : PostAccepted(s)
  PROVE  UNCHANGED posts
<1>1. ASSUME NEW s \in Submitters, Submit(s) PROVE UNCHANGED posts
  BY <1>1 DEF Submit, SelectIdle, SelectRunning, SelectNone, SelectTimeout, PostFailed,
              AnswerLost, Bind, InsertPreview, RecordWorker, ReleaseDeferred
<1>2. ASSUME NEW p \in Prompts, Request(p) \/ Task(p), ~ Submit(p) PROVE UNCHANGED posts
  BY <1>2 DEF Request, Task, CheckHold, InsertAndSpawn, HoldPrompt, SubmitDirectly,
              SubmitPreview, TakeResult
<1>3. CASE DrainWake
  BY <1>3 DEF DrainWake
<1> QED
  BY <1>1, <1>2, <1>3, SubFacts, OtherMoves DEF Next, Serve, Task, DrainReactor, HolderInv

(* A submitter that has an answer in its hands has just got it, or had it  *)
(* before, for the same prompt and under the same id.                      *)
LEMMA HandsAfter ==
  ASSUME HolderInv, [Next]_vars, NEW s \in Submitters, sub'[s].pc \in InHand
  PROVE  /\ sub'[s].prompt = sub[s].prompt
         /\ \/ PostAccepted(s) /\ sub'[s].pc = "responded"
            \/ /\ sub[s].pc \in InHand /\ sub'[s].real = sub[s].real
               /\ \/ UNCHANGED sub[s]
                  \/ Bind(s) /\ sub'[s].pc = "bound"
                  \/ InsertPreview(s) /\ sub'[s].pc = "inserted"
<1>0. TypeOK /\ (\A p \in Prompts : p \in Submitters) /\ Drain \in Submitters
  BY SubFacts DEF HolderInv
<1>1. CASE Submit(s)
  BY <1>0, <1>1, SelectAfter, AnswerAfter, ThroughAfter DEF Submit, InHand
<1>2. ASSUME NEW t \in Submitters, Submit(t), t # s PROVE UNCHANGED sub[s]
  BY <1>0, <1>2, SelectAfter, AnswerAfter, ThroughAfter DEF Submit
<1>3. ASSUME NEW p \in Prompts, Request(p) \/ Task(p), ~ Submit(p) PROVE UNCHANGED sub[s]
  BY <1>0, <1>3, TaskAfter DEF InHand
<1>4. CASE DrainWake
  BY <1>0, <1>4, DrainAfter DEF InHand
<1>5. CASE UNCHANGED sub
  BY <1>5
<1> QED
  BY <1>0, <1>1, <1>2, <1>3, <1>4, <1>5, OtherMoves DEF Next, Serve, Task, DrainReactor

(* A request's task that is done stays done.                               *)
LEMMA DoneStays ==
  ASSUME HolderInv, [Next]_vars, NEW p \in Prompts, sub[p].pc = "done"
  PROVE  sub'[p].pc = "done"
<1>0. TypeOK /\ (\A q \in Prompts : q \in Submitters) /\ Drain \in Submitters
  BY SubFacts DEF HolderInv
<1>1. sub[Drain].prompt # p
  BY DEF HolderInv, OneHolder
<1>2. ASSUME NEW s \in Submitters, Submit(s) PROVE UNCHANGED sub[p]
  <2>1. s # p
    BY <1>2 DEF Submit, SelectIdle, SelectRunning, SelectNone, SelectTimeout,
          PostAccepted, PostFailed, AnswerLost, Bind, InsertPreview, RecordWorker,
          ReleaseDeferred
  <2> QED
    BY <1>0, <1>2, <2>1, SelectAfter, AnswerAfter, ThroughAfter DEF Submit
<1>3. ASSUME NEW q \in Prompts, Request(q) \/ Task(q), ~ Submit(q) PROVE UNCHANGED sub[p]
  <2>1. q # p
    BY <1>3 DEF Request, Task, CheckHold, InsertAndSpawn, HoldPrompt,
                      SubmitDirectly, SubmitPreview, TakeResult
  <2> QED
    BY <1>0, <1>3, <2>1, TaskAfter
<1>4. ASSUME DrainWake PROVE UNCHANGED sub[p]
  BY <1>0, <1>4, DrainAfter, ServerAssumption
<1>5. UNCHANGED sub[p]
  BY <1>0, <1>2, <1>3, <1>4, OtherMoves DEF Next, Serve, Task, DrainReactor
<1> QED
  BY <1>5

(* What is over stays over.                                                *)
LEMMA OverStays ==
  ASSUME HolderInv, [Next]_vars, NEW p \in Prompts, Over(p)
  PROVE  Over(p)'
<1>0. /\ posts \in [Prompts -> 0..MaxPosts] /\ TypeOK
      /\ (\A q \in Prompts : q \in Submitters) /\ Drain \in Submitters
  BY SubFacts DEF HolderInv, TypeOK
<1>1. posts[p] = 1 => posts'[p] = 1
  BY <1>0, PostedFirst, PostsKept
<1>2. sub[p].pc = "done" => sub'[p].pc = "done"
  BY DoneStays
<1>3. ASSUME NEW s \in Submitters, sub'[s].prompt = p, sub'[s].pc \in InHand
      PROVE  FALSE
  <2>1. sub[s].prompt = p /\ (PostAccepted(s) \/ sub[s].pc \in InHand)
    BY <1>3, HandsAfter
  <2>2. PostAccepted(s)
    BY <2>1 DEF Over
  <2> QED
    BY <2>1, <2>2, PostedFirst DEF Over
<1> QED
  BY <1>1, <1>2, <1>3 DEF Over

(* ComfyUI has a prompt from its post to the end of its execution.         *)
LEMMA ComfyAfter ==
  ASSUME TypeOK, [Next]_vars, NEW r \in Reals
  PROVE  /\ InComfy(r)' =>
              InComfy(r) \/ \E s \in Submitters : PostAccepted(s) /\ r = sub'[s].real
         /\ InComfy(r) =>
              InComfy(r)' \/ \E w \in Workers : ExecutionEnds(w) /\ r = Head(comfy[w])
         /\ \A s \in Submitters : PostAccepted(s) /\ r = sub'[s].real => InComfy(r)'
<1>0. comfy \in [Workers -> Seq(Reals)]
  BY DEF TypeOK
<1>1. ASSUME NEW s \in Submitters, PostAccepted(s)
      PROVE  InComfy(r)' <=> InComfy(r) \/ r = sub'[s].real
  <2>1. PICK w \in Workers, x \in Reals :
           /\ x = <<sub[s].prompt, posts[sub[s].prompt] + 1>>
           /\ comfy'[w] = Append(comfy[w], x)
           /\ \A v \in Workers \ {w} : comfy'[v] = comfy[v]
    BY <1>1, AcceptedInQueue
  <2>2. x = sub'[s].real
    BY <1>1, <2>1, AnswerAfter
  <2>3. Elems(comfy'[w]) = Elems(comfy[w]) \cup {x}
    <3>1. comfy[w] \in Seq(Reals)
      BY <1>0
    <3>2. Elems(Append(comfy[w], x)) = Elems(comfy[w]) \cup {x}
      BY <3>1, AppendElems
    <3> QED
      BY <2>1, <3>2
  <2>4. r \in Elems(comfy'[w]) <=> r \in Elems(comfy[w]) \/ r = x
    BY <2>1, <2>3
  <2> QED
    BY <2>1, <2>2, <2>4 DEF InComfy
<1>2. ASSUME NEW w \in Workers, ExecutionEnds(w)
      PROVE  /\ InComfy(r)' => InComfy(r)
             /\ InComfy(r) => InComfy(r)' \/ r = Head(comfy[w])
  <2>1. /\ comfy'[w] = Tail(comfy[w]) /\ comfy[w] # <<>>
        /\ \A v \in Workers \ {w} : comfy'[v] = comfy[v]
    BY <1>0, <1>2 DEF ExecutionEnds
  <2>2. comfy[w] \in Seq(Reals)
    BY <1>0
  <2>3. Elems(comfy[w]) = Elems(comfy'[w]) \cup {Head(comfy[w])}
    BY <2>1, <2>2, HeadElems
  <2>4. /\ r \in Elems(comfy'[w]) => r \in Elems(comfy[w])
        /\ r \in Elems(comfy[w]) => r \in Elems(comfy'[w]) \/ r = Head(comfy[w])
    BY <2>3
  <2> QED
    BY <2>1, <2>4 DEF InComfy
<1>3. ASSUME UNCHANGED comfy PROVE InComfy(r)' <=> InComfy(r)
  BY <1>3 DEF InComfy
<1>4. ASSUME ~ (\E s \in Submitters : PostAccepted(s)),
             ~ (\E w \in Workers : ExecutionEnds(w))
      PROVE  UNCHANGED comfy
  <2>1. ASSUME NEW s \in Submitters, Submit(s) PROVE UNCHANGED comfy
    BY <1>4, <2>1 DEF Submit, SelectIdle, SelectRunning, SelectNone, SelectTimeout,
         PostFailed, AnswerLost, Bind, InsertPreview, RecordWorker, ReleaseDeferred
  <2>2. ASSUME NEW p \in Prompts, Request(p) \/ Task(p), ~ Submit(p) PROVE UNCHANGED comfy
    BY <2>2 DEF Request, Task, CheckHold, InsertAndSpawn, HoldPrompt, SubmitDirectly,
                SubmitPreview, TakeResult
  <2>3. CASE DrainWake \/ CleanupReactor \/ AliasCleanup
    BY <2>3 DEF DrainWake, CleanupReactor, ReactorRecv, ReactorFinish, ReactorPark,
                ReactorRelease, AliasCleanup
  <2>4. ASSUME NEW w \in Workers, Watchdog(w) PROVE UNCHANGED comfy
    BY <2>4 DEF Watchdog
  <2>5. CASE UNCHANGED vars
    BY <2>5 DEF vars
  <2> QED
    BY <1>4, <2>1, <2>2, <2>3, <2>4, <2>5, SubFacts DEF Next, Serve, Task, DrainReactor
<1>5. ASSUME NEW s \in Submitters, PostAccepted(s)
      PROVE  /\ ~ \E w \in Workers : ExecutionEnds(w)
             /\ \A t \in Submitters : PostAccepted(t) => t = s
  <2>1. sub'[s].pc # sub[s].pc
    BY <1>5, AnswerAfter
  <2>2. \A t \in Submitters \ {s} : ~ PostAccepted(t)
    BY <2>1, AnswerAfter
  <2> QED
    BY <2>1, <2>2 DEF ExecutionEnds
<1> QED
  BY <1>1, <1>2, <1>3, <1>4, <1>5

Reports(p) == TakeResult(p) \/ SelectTimeout(p) \/ PostFailed(p) \/ AnswerLost(p)

(* What is announced: the failure of a task's prompt, or the end of what a *)
(* worker runs; the cleanup reactor takes one event at a time.             *)
LEMMA EventsAfter ==
  ASSUME TypeOK, [Next]_vars
  PROVE  /\ \A e \in Elems(events') :
              \/ e \in Elems(events)
              \/ \E p \in Prompts : /\ e.id = p /\ Reports(p)
                                    /\ p \in Previews => TakeResult(p)
              \/ \E w \in Workers : ExecutionEnds(w) /\ e.id = Head(comfy[w])
         /\ \A e \in Elems(events) :
              e \in Elems(events') \/ (ReactorRecv /\ e = Head(events))
         /\ \A w \in Workers : ExecutionEnds(w) =>
              [kind |-> "done", id |-> Head(comfy[w])] \in Elems(events')
<1>0. events \in Seq(Event) /\ Drain \notin Prompts
  BY ServerAssumption DEF TypeOK
<1>1. ASSUME NEW w \in Workers, ExecutionEnds(w)
      PROVE  /\ \A e \in Elems(events') :
                  e \in Elems(events) \/ e.id = Head(comfy[w])
             /\ Elems(events) \subseteq Elems(events')
             /\ [kind |-> "done", id |-> Head(comfy[w])] \in Elems(events')
  <2>1. PICK r \in Reals : r = Head(comfy[w])
    BY <1>1, HeadTailProperties DEF ExecutionEnds, TypeOK
  <2> DEFINE d == [kind |-> "done", id |-> r]
             f == [kind |-> "error", id |-> r]
  <2>2. d \in Event /\ f \in Event /\ d.id = r /\ f.id = r
    BY DEF Event, Ids
  <2>3. events' = Append(events, d) \/ events' = events \o <<f, d>>
    BY <1>1, <2>1 DEF ExecutionEnds
  <2> HIDE DEF d, f
  <2>4. Elems(events') = Elems(events) \cup {d} \/ Elems(events') = Elems(events) \cup {f, d}
    <3>1. Elems(Append(events, d)) = Elems(events) \cup {d}
      BY <1>0, <2>2, AppendElems
    <3>2. Elems(events \o <<f, d>>) = Elems(events) \cup {f, d}
      BY <1>0, <2>2, PairElems
    <3> QED
      BY <2>3, <3>1, <3>2, Zenon
  <2>5. d \in Elems(events') /\ \A e \in Elems(events') : e \in Elems(events) \/ e.id = r
    BY <2>2, <2>4
  <2> QED
    BY <2>1, <2>4, <2>5, Zenon DEF d
<1>2. ASSUME NEW p \in Prompts, events' = Append(events, [kind |-> "error", id |-> p])
      PROVE  /\ \A e \in Elems(events') : e \in Elems(events) \/ e.id = p
             /\ Elems(events) \subseteq Elems(events')
  <2> DEFINE f == [kind |-> "error", id |-> p]
  <2>1. f \in Event /\ f.id = p
    BY DEF Event, Ids
  <2> HIDE DEF f
  <2>2. Elems(events') = Elems(events) \cup {f}
    BY <1>0, <1>2, <2>1, AppendElems DEF f
  <2> QED
    BY <2>1, <2>2
<1>3. ASSUME NEW s \in Submitters, Submit(s)
      PROVE  UNCHANGED events \/ /\ s \in Prompts \ Previews /\ Reports(s)
                                 /\ events' = Append(events, [kind |-> "error", id |-> s])
  <2>1. CASE SelectTimeout(s) \/ PostFailed(s) \/ AnswerLost(s)
    BY <2>1 DEF SelectTimeout, PostFailed, AnswerLost, SubmitFailed, Submitters, Reports
  <2> QED
    BY <1>3, <2>1 DEF Submit, SelectIdle, SelectRunning, SelectNone, PostAccepted, Bind,
                      InsertPreview, RecordWorker, ReleaseDeferred
<1>4. ASSUME NEW p \in Prompts, Request(p) \/ Task(p), ~ Submit(p)
      PROVE  UNCHANGED events \/ /\ TakeResult(p)
                                 /\ events' = Append(events, [kind |-> "error", id |-> p])
  BY <1>4 DEF Request, Task, CheckHold, InsertAndSpawn, HoldPrompt, SubmitDirectly,
              SubmitPreview, TakeResult
<1>5. CASE ReactorRecv
  <2>1. events # <<>> /\ events' = Tail(events)
    BY <1>5 DEF ReactorRecv
  <2>2. Elems(events) = Elems(events') \cup {Head(events)}
    BY <1>0, <2>1, HeadElems
  <2>3. \A w \in Workers : ~ ExecutionEnds(w)
    BY <1>5 DEF ReactorRecv, ExecutionEnds
  <2> QED
    BY <1>5, <2>2, <2>3
<1>6. CASE DrainWake \/ (CleanupReactor /\ ~ ReactorRecv) \/ AliasCleanup \/ UNCHANGED vars
           \/ \E w \in Workers : Watchdog(w)
  <2>1. UNCHANGED events
    BY <1>6 DEF DrainWake, CleanupReactor, ReactorFinish, ReactorPark, ReactorRelease,
                AliasCleanup, vars, Watchdog
  <2> QED
    BY <1>1, <2>1
<1> HIDE DEF Reports
<1>7. ASSUME NEW s \in Submitters, Submit(s)
      PROVE  /\ \A e \in Elems(events') :
                  \/ e \in Elems(events)
                  \/ \E p \in Prompts : /\ e.id = p /\ Reports(p)
                                        /\ p \in Previews => TakeResult(p)
             /\ Elems(events) \subseteq Elems(events')
  BY <1>2, <1>3, <1>7
<1>8. ASSUME NEW p \in Prompts, Request(p) \/ Task(p), ~ Submit(p)
      PROVE  /\ \A e \in Elems(events') :
                  \/ e \in Elems(events)
                  \/ e.id = p /\ Reports(p) /\ TakeResult(p)
             /\ Elems(events) \subseteq Elems(events')
  BY <1>2, <1>4, <1>8 DEF Reports
<1> QED
  BY <1>1, <1>5, <1>6, <1>7, <1>8, SubFacts DEF Next, Serve, Task, DrainReactor

-----------------------------------------------------------------------------
(* What ends has begun. *)

(* A submitter is moved by its own steps only.                             *)
LEMMA MovedBySelf ==
  ASSUME TypeOK, [Next]_vars, NEW s \in Submitters
  PROVE  \/ UNCHANGED sub[s]
         \/ Submit(s)
         \/ s \in Prompts /\ (Request(s) \/ Task(s)) /\ ~ Submit(s)
         \/ s = Drain /\ DrainWake
<1>0. (\A p \in Prompts : p \in Submitters) /\ Drain \in Submitters
  BY SubFacts
<1>1. ASSUME NEW t \in Submitters, Submit(t), t # s PROVE UNCHANGED sub[s]
  BY <1>1, SelectAfter, AnswerAfter, ThroughAfter DEF Submit
<1>2. ASSUME NEW p \in Prompts, Request(p) \/ Task(p), ~ Submit(p), p # s
      PROVE  UNCHANGED sub[s]
  BY <1>2, TaskAfter
<1>3. CASE DrainWake
  BY <1>3, DrainAfter
<1>4. CASE UNCHANGED sub
  BY <1>4
<1> QED
  BY <1>0, <1>1, <1>2, <1>3, <1>4, OtherMoves DEF Next, Serve, Task, DrainReactor

(* The first post of a request is the only one.                            *)
Issued(r) == r[2] = 1 /\ posts[r[1]] = 1

(* The ids ComfyUI and the submitters have are those of the first posts.   *)
IssuedSound ==
  /\ \A r \in Reals : InComfy(r) => Issued(r)
  /\ \A s \in Submitters : sub[s].pc \in InHand => Issued(sub[s].real)

(* Previews are inserted when the answer is there, and never held or bound;*)
(* other requests are inserted when they arrive.                           *)
HandsSound ==
  /\ \A p \in Previews :
       sub[p].pc \notin {"checked", "spawned", "waiting", "bound", "deferred"}
  /\ \A s \in Submitters \ Previews : sub[s].pc # "inserted"

(* A request that ComfyUI has had, or will never have.                     *)
Handled(p) == posts[p] = 1 \/ sub[p].pc = "done"

(* An id that may be announced: of a request that has failed, or of a post.*)
Begun(i) == IF i \in Prompts THEN sub[i].pc = "done" ELSE Issued(i)

(* Whatever has been announced, is being reacted to or is to be forgotten  *)
(* has begun before.                                                       *)
EndsSound ==
  /\ \A e \in Elems(events) : Begun(e.id)
  /\ reactor.pc # "recv" => JobId(reactor.pid) = JobId(reactor.raw) /\ Begun(reactor.raw)
  /\ \A p \in aliasGC : Handled(p)
  /\ \A p \in overtaken : posts[p] = 1
  /\ \A s \in Submitters : sub[s].pc = "deferred" => posts[sub[s].prompt] = 1

EndInv ==
  /\ HolderInv /\ QueueSound(pq) /\ RealsSound
  /\ IssuedSound /\ HandsSound /\ EndsSound

(* A post that was accepted stays accepted.                                *)
LEMMA PostsStay ==
  ASSUME HolderInv, [Next]_vars, NEW p \in Prompts, posts[p] = 1
  PROVE  posts'[p] = 1
<1>1. posts \in [Prompts -> 0..MaxPosts]
  BY DEF HolderInv, TypeOK
<1> QED
  BY <1>1, PostedFirst, PostsKept

(* An id that was issued stays issued.                                     *)
LEMMA IssuedStays ==
  ASSUME HolderInv, [Next]_vars, NEW r \in Reals, Issued(r)
  PROVE  Issued(r)'
<1>1. r[1] \in Prompts
  BY JobType DEF JobOf
<1> QED
  BY <1>1, PostsStay DEF Issued

(* What has begun stays begun.                                             *)
LEMMA BegunStays ==
  ASSUME HolderInv, [Next]_vars
  PROVE  /\ \A p \in Prompts : Handled(p) => Handled(p)'
         /\ \A i \in Ids : Begun(i) => Begun(i)'
BY DoneStays, PostsStay, IssuedStays DEF Handled, Begun, Ids

(* The request of an id that has begun is handled.                         *)
LEMMA BegunIsHandled ==
  ASSUME NEW i \in Ids, Begun(i)
  PROVE  Handled(JobId(i))
<1>1. CASE i \in Prompts
  BY <1>1 DEF Begun, Handled, JobId
<1>2. CASE i \notin Prompts
  BY <1>2 DEF Begun, Handled, JobId, Issued, JobOf
<1> QED
  BY <1>1, <1>2

(* The ids that are in use stay those of the first posts.                  *)
LEMMA IssuedStep ==
  ASSUME HolderInv, IssuedSound, [Next]_vars
  PROVE  IssuedSound'
<1>0. posts \in [Prompts -> 0..MaxPosts] /\ TypeOK /\ TypeOK'
  BY NextType DEF HolderInv, TypeOK
<1>1. ASSUME NEW s \in Submitters, PostAccepted(s)
      PROVE  Issued(sub[s].real)'
  BY <1>0, <1>1, PostedFirst DEF Issued
<1>2. ASSUME NEW r \in Reals, Issued(r) PROVE Issued(r)'
  BY <1>2, IssuedStays
<1>3. ASSUME NEW r \in Reals, InComfy(r)' PROVE Issued(r)'
  BY <1>0, <1>1, <1>2, <1>3, ComfyAfter DEF IssuedSound
<1>4. ASSUME NEW s \in Submitters, sub'[s].pc \in InHand PROVE Issued(sub[s].real)'
  <2>1. CASE PostAccepted(s)
    BY <1>1, <2>1
  <2>2. CASE ~ PostAccepted(s)
    <3>1. sub[s].pc \in InHand /\ sub'[s].real = sub[s].real
      BY <1>4, <2>2, HandsAfter
    <3>2. sub[s].real \in Reals
      BY <1>0, <3>1, SubFacts DEF SubmissionOK, InHand
    <3> QED
      BY <1>2, <3>1, <3>2 DEF IssuedSound
  <2> QED
    BY <2>1, <2>2
<1> QED
  BY <1>3, <1>4 DEF IssuedSound

(* A submitter with an answer has it for the first post of its prompt,     *)
(* which is no preview unless it is the submitter's own.                   *)
LEMMA InHandFacts ==
  ASSUME EndInv, NEW s \in Submitters, sub[s].pc \in InHand
  PROVE  /\ sub[s].prompt \in Prompts
         /\ sub[s].real = <<sub[s].prompt, 1>>
         /\ posts[sub[s].prompt] = 1
         /\ s \in Previews <=> sub[s].prompt \in Previews
         /\ sub[s].prompt \in Previews => s = sub[s].prompt
<1>0. TypeOK
  BY DEF EndInv, HolderInv
<1>1. PICK p \in Prompts : p = sub[s].prompt
  BY <1>0, SubFacts DEF InHand
<1>2. sub[s].real \in Reals /\ JobOf(sub[s].real) = p /\ Issued(sub[s].real)
  BY <1>0, <1>1, SubFacts DEF EndInv, RealsSound, IssuedSound, InHand, SubmissionOK
<1>3. sub[s].real = <<p, 1>> /\ posts[p] = 1
  BY <1>2 DEF Issued, JobOf, Reals
<1>4. CASE s \in Prompts
  BY <1>0, <1>1, <1>3, <1>4, SubFacts
<1>5. CASE s = Drain
  <2>1. sub[p].pc = "waiting"
    BY <1>1, <1>5 DEF EndInv, HolderInv, OneHolder
  <2>2. p \notin Previews
    BY <2>1 DEF EndInv, HandsSound
  <2> QED
    BY <1>1, <1>3, <1>5, <2>2, ServerAssumption
<1> QED
  BY <1>4, <1>5 DEF Submitters

(* A submitter that finds its completion parked has had the answer before, *)
(* and it is none of a preview.                                            *)
LEMMA DeferredAfter ==
  ASSUME EndInv, [Next]_vars, NEW s \in Submitters, sub'[s].pc = "deferred"
  PROVE  /\ sub'[s].prompt = sub[s].prompt
         /\ posts[sub[s].prompt] = 1
         /\ \/ UNCHANGED sub[s]
            \/ /\ Bind(s) /\ sub[s].pc = "responded"
               /\ WasDeferred(pq, sub[s].real)
<1>0. TypeOK
  BY DEF EndInv, HolderInv
<1>1. CASE UNCHANGED sub[s]
  BY <1>1 DEF EndInv, EndsSound
<1>2. CASE Submit(s)
  <2>1. Bind(s)
    BY <1>0, <1>2, SelectAfter, AnswerAfter, ThroughAfter DEF Submit
  <2>2. /\ sub[s].pc = "responded" /\ WasDeferred(pq, sub[s].real)
        /\ sub'[s].prompt = sub[s].prompt
    BY <1>0, <2>1, AnswerAfter DEF Bind
  <2>3. posts[sub[s].prompt] = 1
    BY <2>2, InHandFacts DEF InHand
  <2> QED
    BY <2>1, <2>2, <2>3
<1>3. ASSUME s \in Prompts, Request(s) \/ Task(s), ~ Submit(s) PROVE FALSE
  BY <1>0, <1>3, TaskAfter
<1>4. ASSUME s = Drain, DrainWake PROVE UNCHANGED sub[s]
  BY <1>0, <1>4, DrainAfter
<1> QED
  BY <1>0, <1>1, <1>2, <1>3, <1>4, MovedBySelf

(* Previews go their own way.                                              *)
LEMMA HandsStep ==
  ASSUME EndInv, [Next]_vars
  PROVE  HandsSound'
<1>0. TypeOK /\ (\A p \in Previews : p \in Prompts /\ p \in Submitters /\ p # Drain)
  BY SubFacts, ServerAssumption DEF EndInv, HolderInv
<1>1. ASSUME NEW s \in Submitters, Submit(s)
      PROVE  /\ sub'[s].pc \notin {"checked", "spawned", "waiting"}
             /\ s \in Previews => sub'[s].pc \notin {"bound", "deferred"}
             /\ s \notin Previews => sub'[s].pc # "inserted"
  <2>1. CASE SelectIdle(s) \/ SelectRunning(s) \/ SelectNone(s)
    BY <2>1, <1>0, SelectAfter
  <2>2. CASE PostAccepted(s)
    BY <2>2, <1>0, AnswerAfter
  <2>3. CASE Bind(s)
    <3>1. s \notin Previews
      BY <2>3 DEF Bind
    <3>2. sub'[s].pc \in {"deferred", "bound"}
      BY <1>0, <2>3, AnswerAfter
    <3> QED
      BY <3>1, <3>2
  <2>4. CASE InsertPreview(s)
    <3>1. s \in Previews /\ sub'[s].pc = "inserted"
      BY <2>4, <1>0, AnswerAfter DEF InsertPreview
    <3> QED
      BY <3>1
  <2>5. CASE SelectTimeout(s) \/ PostFailed(s) \/ AnswerLost(s) \/ RecordWorker(s) \/ ReleaseDeferred(s)
    <3>1. sub'[s].pc \in {"done", "idle"}
      BY <2>5, <1>0, ThroughAfter
    <3> QED
      BY <3>1
  <2> QED
    BY <1>1, <2>1, <2>2, <2>3, <2>4, <2>5 DEF Submit
<1>2. ASSUME NEW p \in Prompts, Request(p) \/ Task(p), ~ Submit(p)
      PROVE  /\ sub'[p].pc \notin {"deferred", "bound", "inserted"}
             /\ p \in Previews => sub'[p].pc \notin {"checked", "spawned", "waiting"}
  <2>1. sub'[p].pc \in {"checked", "spawned", "waiting", "select", "done"}
    BY <1>0, <1>2, TaskAfter
  <2>2. ASSUME p \in Previews PROVE sub'[p].pc \notin {"checked", "spawned", "waiting"}
    <3>1. sub[p].pc \notin {"checked", "spawned", "waiting"}
      BY <2>2 DEF EndInv, HandsSound
    <3>2. SubmitPreview(p)
      BY <1>0, <1>2, <2>2, <3>1, TaskAfter DEF Request, Task
    <3> QED
      BY <1>0, <1>2, <3>2, TaskAfter
  <2> QED
    BY <2>1, <2>2
<1>3. DrainWake => sub'[Drain].pc = "select" \/ UNCHANGED sub[Drain]
  BY <1>0, DrainAfter
<1>4. ASSUME NEW s \in Submitters
      PROVE  /\ s \in Previews =>
                  sub'[s].pc \notin {"checked", "spawned", "waiting", "bound", "deferred"}
             /\ s \notin Previews => sub'[s].pc # "inserted"
  <2>1. /\ s \in Previews =>
             sub[s].pc \notin {"checked", "spawned", "waiting", "bound", "deferred"}
        /\ s \notin Previews => sub[s].pc # "inserted"
    BY DEF EndInv, HandsSound
  <2>2. \/ UNCHANGED sub[s]
        \/ Submit(s)
        \/ s \in Prompts /\ (Request(s) \/ Task(s)) /\ ~ Submit(s)
        \/ s = Drain /\ DrainWake
    BY <1>0, MovedBySelf
  <2> QED
    BY <1>0, <1>1, <1>2, <1>3, <2>1, <2>2
<1> QED
  BY <1>0, <1>4 DEF HandsSound

(* The reactor keeps the event it is busy with; what it has taken is the   *)
(* oldest of the channel, under the id it resolves to.                     *)
LEMMA ReactorAfter ==
  ASSUME TypeOK, [Next]_vars
  PROVE  \/ UNCHANGED reactor
         \/ /\ reactor' = Receiving /\ Reacted
            /\ ReactorFinish \/ ReactorPark \/ ReactorRelease
         \/ /\ ReactorRecv
            /\ reactor'.pc = "finish"
            /\ reactor'.raw = Head(events).id
            /\ reactor'.kind = Head(events).kind
            /\ reactor'.pid = ResolveAlias(pq, reactor'.raw)
         \/ /\ ReactorFinish
            /\ reactor.pc = "finish"
            /\ reactor'.pc = "release" /\ reactor'.worker = pq.workerMap[reactor.pid]
            /\ reactor'.raw = reactor.raw /\ reactor'.pid = reactor.pid
         \/ /\ ReactorFinish
            /\ reactor.pc = "finish"
            /\ reactor'.pc = "park" /\ pq.workerMap[reactor.pid] = None
            /\ reactor'.raw = reactor.raw /\ reactor'.pid = reactor.pid
<1>0. reactor \in Reaction
  BY DEF TypeOK
<1>1. ASSUME NEW s \in Submitters, Submit(s) PROVE UNCHANGED reactor
  BY <1>1 DEF Submit, SelectIdle, SelectRunning, SelectNone, SelectTimeout, PostAccepted,
         PostFailed, AnswerLost, Bind, InsertPreview, RecordWorker, ReleaseDeferred
<1>2. ASSUME NEW p \in Prompts, Request(p) \/ Task(p), ~ Submit(p) PROVE UNCHANGED reactor
  BY <1>2 DEF Request, Task, CheckHold, InsertAndSpawn, HoldPrompt,
     SubmitDirectly, SubmitPreview, TakeResult
<1>3. CASE \/ DrainWake \/ AliasCleanup \/ UNCHANGED vars
           \/ \E w \in Workers : ExecutionEnds(w) \/ Watchdog(w)
  <2>1. UNCHANGED reactor
    BY <1>3 DEF DrainWake, AliasCleanup, vars, ExecutionEnds, Watchdog
  <2> QED
    BY <2>1
<1>4. CASE ReactorRecv
  BY <1>4 DEF ReactorRecv
<1>5. CASE ReactorPark \/ ReactorRelease
  BY <1>5 DEF ReactorPark, ReactorRelease, Reacted
<1>6. CASE ReactorFinish
  <2>1. CASE Reacted
    BY <1>6, <2>1 DEF Reacted
  <2>2. CASE ~ Reacted
    <3>1. \/ /\ pq.workerMap[reactor.pid] # None
             /\ reactor' = [reactor EXCEPT !.pc = "release",
                                           !.worker = pq.workerMap[reactor.pid]]
          \/ /\ pq.workerMap[reactor.pid] = None
             /\ reactor' = [reactor EXCEPT !.pc = "park"]
      BY <1>6, <2>2 DEF ReactorFinish
    <3>2. reactor.pc = "finish"
      BY <1>6 DEF ReactorFinish
    <3> QED
      BY <1>0, <1>6, <3>1, <3>2 DEF Reaction
  <2> QED
    BY <2>1, <2>2
<1> QED
  BY <1>1, <1>2, <1>3, <1>4, <1>5, <1>6, SubFacts DEF Next, Serve, Task, DrainReactor, CleanupReactor

(* The reactor has a prompt forgotten: the one it has just finished; and so*)
(* has the task that found its completion parked.                          *)
LEMMA ForgottenAfter ==
  ASSUME TypeOK, [Next]_vars, NEW p \in aliasGC'
  PROVE  \/ p \in aliasGC
         \/ /\ p = reactor.pid /\ p \in Prompts
            /\ \/ ReactorFinish /\ reactor.pc = "finish"
               \/ reactor.pc \in {"park", "release"}
         \/ p \in Prompts /\ ReleaseDeferred(p)
<1>1. ASSUME NEW s \in Submitters, Submit(s)
      PROVE  p \in aliasGC \/ (p \in Prompts /\ ReleaseDeferred(p))
  <2>1. CASE ReleaseDeferred(s)
    BY <2>1 DEF ReleaseDeferred, Submitters
  <2> QED
    BY <1>1, <2>1 DEF Submit, SelectIdle, SelectRunning, SelectNone, SelectTimeout,
       PostAccepted, PostFailed, AnswerLost, Bind, InsertPreview, RecordWorker
<1>2. ASSUME NEW q \in Prompts, Request(q) \/ Task(q), ~ Submit(q) PROVE UNCHANGED aliasGC
  BY <1>2 DEF Request, Task, CheckHold, InsertAndSpawn, HoldPrompt,
     SubmitDirectly, SubmitPreview, TakeResult
<1>3. CASE \/ DrainWake \/ AliasCleanup \/ UNCHANGED vars
           \/ \E w \in Workers : ExecutionEnds(w) \/ Watchdog(w)
  <2>1. aliasGC' \subseteq aliasGC
    BY <1>3 DEF DrainWake, AliasCleanup, vars, ExecutionEnds, Watchdog
  <2> QED
    BY <2>1
<1>4. CASE ReactorFinish
  BY <1>4 DEF ReactorFinish, Reacted
<1>5. CASE ReactorPark \/ ReactorRelease
  BY <1>5 DEF ReactorPark, ReactorRelease, Reacted
<1>6. CASE ReactorRecv
  BY <1>6 DEF ReactorRecv
<1> QED
  BY <1>1, <1>2, <1>3, <1>4, <1>5, <1>6, SubFacts DEF Next, Serve, Task, DrainReactor, CleanupReactor

(* A request is overtaken when an event is received that a submitter with  *)
(* its answer has not waited for; a lost answer, a parked finish and the   *)
(* release of its worker make up for it.                                   *)
LEMMA OvertakenAfter ==
  ASSUME TypeOK, [Next]_vars, NEW p \in Prompts
  PROVE  /\ p \in overtaken' =>
              \/ p \in overtaken
              \/ /\ ReactorRecv
                 /\ \E s \in Submitters : Overtakes(Head(events), s) /\ sub[s].prompt = p
         /\ p \in overtaken =>
              \/ p \in overtaken'
              \/ \E s \in Submitters : AnswerLost(s) /\ sub[s].prompt = p
              \/ \E s \in Submitters : /\ Bind(s) /\ sub[s].prompt = p
                                       /\ WasDeferred(pq, sub[s].real)
              \/ /\ ReactorFinish /\ reactor.pid = TrackedId(p)
                 /\ pq.workerMap[reactor.pid] # None
         /\ \A s \in Submitters :
              ReactorRecv /\ Overtakes(Head(events), s) => sub[s].prompt \in overtaken'
<1>1. ASSUME NEW s \in Submitters, Submit(s)
      PROVE  \/ UNCHANGED overtaken
             \/ /\ overtaken' = overtaken \ {sub[s].prompt}
                /\ AnswerLost(s) \/ (Bind(s) /\ WasDeferred(pq, sub[s].real))
  BY <1>1 DEF Submit, SelectIdle, SelectRunning, SelectNone, SelectTimeout, PostAccepted,
         PostFailed, AnswerLost, Bind, InsertPreview, RecordWorker, ReleaseDeferred
<1>2. ASSUME NEW q \in Prompts, Request(q) \/ Task(q), ~ Submit(q) PROVE UNCHANGED overtaken
  BY <1>2 DEF Request, Task, CheckHold, InsertAndSpawn, HoldPrompt,
     SubmitDirectly, SubmitPreview, TakeResult
<1>3. ASSUME \/ DrainWake \/ AliasCleanup \/ UNCHANGED vars \/ ReactorPark \/ ReactorRelease
             \/ \E w \in Workers : ExecutionEnds(w) \/ Watchdog(w)
      PROVE  UNCHANGED overtaken
  BY <1>3 DEF DrainWake, AliasCleanup, vars, ReactorPark, ReactorRelease, ExecutionEnds,
              Watchdog
<1>4. ASSUME ReactorFinish
      PROVE  \/ UNCHANGED overtaken
             \/ /\ pq.workerMap[reactor.pid] # None
                /\ overtaken' = {q \in overtaken : TrackedId(q) # reactor.pid}
  BY <1>4 DEF ReactorFinish
<1>5. ASSUME ReactorRecv
      PROVE  overtaken' = overtaken \cup
               {sub[s].prompt : s \in {t \in Submitters : Overtakes(Head(events), t)}}
  BY <1>5 DEF ReactorRecv
<1>6. ReactorRecv => /\ ~ ReactorFinish
                     /\ \A s \in Submitters : ~ Submit(s)
  <2>1. ReactorRecv => reactor.pc = "recv" /\ reactor'.pc = "finish" /\ UNCHANGED sub
    BY DEF ReactorRecv
  <2>2. ASSUME NEW s \in Submitters, Submit(s) PROVE UNCHANGED reactor
    BY <2>2 DEF Submit, SelectIdle, SelectRunning, SelectNone, SelectTimeout, PostAccepted,
           PostFailed, AnswerLost, Bind, InsertPreview, RecordWorker, ReleaseDeferred
  <2> QED
    BY <2>1, <2>2 DEF ReactorFinish
<1>7. CASE ReactorRecv
  BY <1>5, <1>6, <1>7
<1>8. CASE ~ ReactorRecv
  BY <1>1, <1>2, <1>3, <1>4, <1>8, SubFacts DEF Next, Serve, Task, DrainReactor, CleanupReactor
<1> QED
  BY <1>7, <1>8

(* What ends was begun before it ends.                                     *)
LEMMA EndsStep ==
  ASSUME EndInv, HolderInv', [Next]_vars
  PROVE  EndsSound'
<1>0. /\ TypeOK /\ (\A p \in Prompts : p \in Submitters) /\ events \in Seq(Event)
      /\ comfy \in [Workers -> Seq(Reals)] /\ HolderInv /\ aliasGC \subseteq Prompts
      /\ overtaken \subseteq Prompts /\ overtaken' \subseteq Prompts
  BY SubFacts DEF EndInv, HolderInv, TypeOK
<1>1. /\ \A p \in Prompts : Handled(p) => Handled(p)'
      /\ \A i \in Ids : Begun(i) => Begun(i)'
      /\ \A p \in Prompts : posts[p] = 1 => posts'[p] = 1
  BY <1>0, BegunStays, PostsStay
<1>2. \A i \in Ids : JobId(i) \in Prompts
  BY JobType DEF JobId, Ids
<1>3. \A p \in Prompts : JobId(p) = p
  BY DEF JobId
<1>4. \A r \in Reals : JobId(r) = JobOf(r) /\ r \notin Prompts
  BY IdsAssumption DEF JobId
<1>5. \A e \in Elems(events) : e \in Event /\ e.id \in Ids
  BY <1>0 DEF Elems, Event, Ids
<1>6. ASSUME NEW e \in Elems(events') PROVE Begun(e.id)'
  <2>1. CASE e \in Elems(events)
    BY <1>1, <1>5, <2>1 DEF EndInv, EndsSound
  <2>2. ASSUME NEW p \in Prompts, e.id = p, Reports(p) PROVE Begun(e.id)'
    <3>1. sub'[p].pc = "done"
      <4>1. p # Drain
        BY ServerAssumption
      <4>2. CASE TakeResult(p)
        <5>1. ~ Submit(p)
          BY <4>2 DEF TakeResult, Submit, SelectIdle, SelectRunning, SelectNone, SelectTimeout,
             PostAccepted, PostFailed, AnswerLost, Bind, InsertPreview, RecordWorker,
             ReleaseDeferred
        <5> QED
          BY <1>0, <4>2, <5>1, TaskAfter DEF Task
      <4>3. CASE SelectTimeout(p) \/ PostFailed(p) \/ AnswerLost(p)
        BY <1>0, <4>1, <4>3, ThroughAfter
      <4> QED
        BY <2>2, <4>2, <4>3 DEF Reports
    <3> QED
      BY <2>2, <3>1 DEF Begun
  <2>3. ASSUME NEW w \in Workers, ExecutionEnds(w), e.id = Head(comfy[w])
        PROVE  Begun(e.id)'
    <3>1. comfy[w] \in Seq(Reals) /\ comfy[w] # <<>>
      BY <1>0, <2>3 DEF ExecutionEnds
    <3>2. PICK r \in Reals : r = Head(comfy[w]) /\ r \in Elems(comfy[w])
      BY <3>1, HeadElems, HeadTailProperties
    <3>3. Issued(r)
      BY <3>2 DEF InComfy, EndInv, IssuedSound
    <3>4. Issued(r)'
      BY <1>0, <3>3, IssuedStays
    <3> QED
      BY <1>4, <2>3, <3>2, <3>4 DEF Begun, Issued
  <2> QED
    BY <1>0, <2>1, <2>2, <2>3, EventsAfter
<1>7. ASSUME reactor'.pc # "recv"
      PROVE  JobId(reactor.pid)' = JobId(reactor.raw)' /\ Begun(reactor.raw)'
  <2>1. CASE UNCHANGED <<reactor.raw, reactor.pid>> /\ reactor.pc # "recv"
    <3>1. reactor.raw \in Ids
      BY <1>0, <2>1 DEF TypeOK, Event, Ids
    <3>2. \A i \in Ids : i = reactor.raw => Begun(i)'
      BY <1>1, <2>1 DEF EndInv, EndsSound
    <3> QED
      BY <2>1, <3>1, <3>2 DEF EndInv, EndsSound, JobId, Begun, Issued
  <2>2. CASE ReactorRecv
    <3>1. /\ reactor'.raw = Head(events).id /\ reactor'.pid = ResolveAlias(pq, reactor'.raw)
          /\ Head(events) \in Elems(events)
      BY <1>0, <2>2, HeadElems DEF ReactorRecv
    <3>2. PICK i \in Ids : i = reactor'.raw
      BY <1>5, <3>1
    <3>3. Begun(i)'
      BY <1>1, <3>1, <3>2 DEF EndInv, EndsSound
    <3>4. JobId(ResolveAlias(pq, i)) = JobId(i)
      <4>1. CASE i \in Reals /\ pq.aliases[i] # None
        <5>1. ResolveAlias(pq, i) = JobOf(i) /\ JobOf(i) \in Prompts
          BY <4>1, JobType DEF ResolveAlias, EndInv, QueueSound, AliasesSound
        <5> QED
          BY <1>3, <1>4, <4>1, <5>1
      <4>2. CASE ~ (i \in Reals /\ pq.aliases[i] # None)
        BY <4>2 DEF ResolveAlias
      <4> QED
        BY <4>1, <4>2
    <3> QED
      BY <3>1, <3>2, <3>3, <3>4 DEF JobId, Begun, Issued
  <2>3. reactor' # Receiving
    BY <1>7 DEF Receiving
  <2> QED
    BY <1>0, <1>7, <2>1, <2>2, <2>3, ReactorAfter
<1>8. ASSUME NEW p \in aliasGC' PROVE Handled(p)'
  <2>1. CASE p \in aliasGC
    BY <1>0, <1>1, <2>1 DEF EndInv, EndsSound
  <2>2. CASE reactor.pc # "recv" /\ p = reactor.pid /\ p \in Prompts
    <3>1. PICK i \in Ids : i = reactor.raw /\ Begun(i) /\ JobId(i) = p
      BY <1>0, <1>3, <2>2 DEF TypeOK, Event, Ids, EndInv, EndsSound
    <3> QED
      BY <1>1, <2>2, <3>1, BegunIsHandled
  <2>3. CASE p \in Prompts /\ ReleaseDeferred(p)
    <3>1. sub'[p].pc = "done"
      BY <1>0, <2>3, ThroughAfter, ServerAssumption
    <3> QED
      BY <3>1 DEF Handled
  <2>4. reactor.pc # "recv" <=> reactor.pc \in {"finish", "park", "release"}
    BY <1>0 DEF TypeOK, Reaction
  <2> QED
    BY <1>0, <2>1, <2>2, <2>3, <2>4, ForgottenAfter
<1>9. ASSUME NEW p \in overtaken' PROVE posts'[p] = 1
  <2>1. CASE p \in overtaken
    BY <1>0, <1>1, <2>1 DEF EndInv, EndsSound
  <2>2. ASSUME NEW s \in Submitters, Overtakes(Head(events), s), sub[s].prompt = p
        PROVE  posts'[p] = 1
    <3>1. sub[s].pc \in InHand
      BY <2>2 DEF Overtakes, InHand
    <3> QED
      BY <1>0, <1>1, <2>2, <3>1, InHandFacts
  <2> QED
    BY <1>0, <2>1, <2>2, OvertakenAfter
<1>10. ASSUME NEW s \in Submitters, sub'[s].pc = "deferred" PROVE posts'[sub'[s].prompt] = 1
  <2>1. sub'[s].prompt = sub[s].prompt /\ posts[sub[s].prompt] = 1
    BY <1>10, DeferredAfter
  <2>2. sub'[s].prompt \in Prompts
    BY <1>10, SubFacts DEF HolderInv, TypeOK, SubmissionOK
  <2> QED
    BY <1>1, <2>1, <2>2
<1> QED
  BY <1>6, <1>7, <1>8, <1>9, <1>10 DEF EndsSound

(* Initially nothing has ended.                                            *)
LEMMA InitEnds == Init => EndInv
<1> SUFFICES ASSUME Init PROVE EndInv
  OBVIOUS
<1>1. HolderInv /\ QueueSound(pq)
  BY InitHolder, EmptyQueueType DEF Init
<1>2. \A s \in Submitters : sub[s].pc \in {"new", "idle"}
  BY DEF Init, At
<1>3. RealsSound /\ HandsSound
  BY <1>2, ServerAssumption DEF RealsSound, HandsSound, Submitters
<1>4. IssuedSound
  <2>1. \A r \in Reals : ~ InComfy(r)
    <3>1. Elems(<<>>) = {}
      BY DEF Elems
    <3>2. \A w \in Workers : comfy[w] = <<>>
      BY DEF Init
    <3> QED
      BY <3>1, <3>2 DEF InComfy
  <2> QED
    BY <1>2, <2>1 DEF IssuedSound, InHand
<1>5. EndsSound
  <2>1. Elems(<<>>) = {}
    BY DEF Elems
  <2> QED
    BY <1>2, <2>1 DEF Init, EndsSound, Receiving
<1> QED
  BY <1>1, <1>3, <1>4, <1>5 DEF EndInv

(* What has ended has begun, in every state.                               *)
LEMMA EndStep ==
  ASSUME EndInv, [Next]_vars
  PROVE  EndInv'
<1>1. HolderInv'
  BY HolderStep DEF EndInv
<1>2. QueueSound(pq)' /\ RealsSound'
  BY QueueSoundStep, RealsStep DEF EndInv, HolderInv
<1>3. IssuedSound' /\ HandsSound' /\ EndsSound'
  BY <1>1, IssuedStep, HandsStep, EndsStep DEF EndInv
<1> QED
  BY <1>1, <1>2, <1>3 DEF EndInv

-----------------------------------------------------------------------------
(* What the queue tracks. *)

(* insert tracks an id.                                                    *)
LEMMA InsertTracks ==
  ASSUME NEW q \in QueueType, NEW i
  PROVE  /\ Insert(q, i).queue = q.queue \cup {i}
         /\ Insert(q, i).workerMap = q.workerMap
         /\ Insert(q, i).aliases = q.aliases
BY DEF Insert, QueueType

(* finish stops tracking it.                                               *)
LEMMA FinishTracks ==
  ASSUME NEW q \in QueueType, NEW i
  PROVE  /\ Finish(q, i).queue = q.queue \ {i}
         /\ Finish(q, i).workerMap = [q.workerMap EXCEPT ![i] = None]
         /\ Finish(q, i).aliases = q.aliases
BY DEF Finish, QueueType

(* set_worker records its worker.                                          *)
LEMMA SetWorkerTracks ==
  ASSUME NEW q \in QueueType
  PROVE  \A i, w : /\ SetWorker(q, i, w).queue = q.queue
                   /\ \A j \in Ids : SetWorker(q, i, w).workerMap[j] =
                                        IF j = i THEN w ELSE q.workerMap[j]
                   /\ SetWorker(q, i, w).aliases = q.aliases
BY DEF SetWorker, QueueType

(* cleanup_alias forgets what resolves to it.                              *)
LEMMA CleanupTracks ==
  ASSUME NEW q \in QueueType, NEW p
  PROVE  /\ CleanupAlias(q, p).queue = q.queue
         /\ CleanupAlias(q, p).workerMap = q.workerMap
         /\ \A r \in Reals : CleanupAlias(q, p).aliases[r] =
                               IF q.aliases[r] = p THEN None ELSE q.aliases[r]
BY DEF CleanupAlias, QueueType

(* bind_alias adds an alias, and untracks the prompt if its finish was     *)
(* parked.                                                                 *)
LEMMA BindTracks ==
  ASSUME NEW q \in QueueType, NEW p \in Prompts, NEW r \in Reals
  PROVE  /\ ~ WasDeferred(q, r) =>
              /\ BindAlias(q, p, r).queue = q.queue
              /\ BindAlias(q, p, r).workerMap = q.workerMap
         /\ WasDeferred(q, r) =>
              /\ BindAlias(q, p, r).queue = q.queue \ {p}
              /\ BindAlias(q, p, r).workerMap = [q.workerMap EXCEPT ![p] = None]
         /\ BindAlias(q, p, r).aliases = [q.aliases EXCEPT ![r] = p]
BY DEF BindAlias, QueueType

(* The id a submitter records a worker for.                                *)
RecordedId(s) == IF sub[s].pc = "inserted" THEN sub[s].real ELSE sub[s].prompt

(* The failures a task reports itself, and untracks its prompt.            *)
FailsItself(p) ==
  /\ p \notin Previews
  /\ SelectTimeout(p) \/ PostFailed(p) \/ AnswerLost(p)

TrackingMove ==
  \/ UNCHANGED <<pq.queue, pq.workerMap, pq.aliases>>
  \/ \E p \in Prompts : InsertAndSpawn(p) /\ pq' = Insert(pq, p)
  \/ \E s \in Submitters : InsertPreview(s) /\ pq' = Insert(pq, sub[s].real)
  \/ \E s \in Submitters : /\ RecordWorker(s)
                           /\ pq' = SetWorker(pq, RecordedId(s), sub[s].worker)
  \/ \E s \in Submitters : /\ Bind(s)
                           /\ pq' = BindAlias(pq, sub[s].prompt, sub[s].real)
  \/ \E p \in Prompts : FailsItself(p) /\ pq' = Finish(pq, p)
  \/ \E p \in Prompts : /\ TakeResult(p) /\ result[p] = "err"
                        /\ pq' = CleanupAlias(Finish(pq, p), p)
  \/ ReactorFinish /\ pq' = Finish(pq, reactor.pid)
  \/ \E p \in aliasGC : AliasCleanup /\ pq' = CleanupAlias(pq, p)

(* Every step does one thing to what is tracked, or nothing.               *)
LEMMA TrackingMoves ==
  ASSUME EndInv, [Next]_vars
  PROVE  TrackingMove
<1>0. pq \in QueueType /\ TypeOK /\ Drain \notin Prompts
  BY ServerAssumption DEF EndInv, HolderInv, TypeOK
<1>1. ASSUME NEW s \in Submitters, Submit(s)
      PROVE  \/ UNCHANGED <<pq.queue, pq.workerMap, pq.aliases>>
             \/ InsertPreview(s) /\ pq' = Insert(pq, sub[s].real)
             \/ RecordWorker(s) /\ pq' = SetWorker(pq, RecordedId(s), sub[s].worker)
             \/ Bind(s) /\ pq' = BindAlias(pq, sub[s].prompt, sub[s].real)
             \/ s \in Prompts /\ FailsItself(s) /\ pq' = Finish(pq, s)
  <2>1. CASE SelectTimeout(s) \/ PostFailed(s) \/ AnswerLost(s)
    <3>1. SubmitFailed(s)
      BY <2>1 DEF SelectTimeout, PostFailed, AnswerLost
    <3> QED
      BY <2>1, <3>1 DEF SubmitFailed, FailsItself, Submitters
  <2>2. CASE Bind(s)
    BY <2>2 DEF Bind
  <2>3. CASE InsertPreview(s)
    BY <2>3 DEF InsertPreview
  <2>4. CASE RecordWorker(s)
    BY <2>4 DEF RecordWorker, RecordedId
  <2>5. CASE \/ SelectIdle(s) \/ SelectRunning(s) \/ SelectNone(s)
             \/ PostAccepted(s) \/ ReleaseDeferred(s)
    <3>1. UNCHANGED pq
      BY <2>5 DEF SelectIdle, SelectRunning, SelectNone, PostAccepted, ReleaseDeferred
    <3> QED
      BY <3>1
  <2> QED
    BY <1>1, <2>1, <2>2, <2>3, <2>4, <2>5 DEF Submit
<1>2. ASSUME NEW p \in Prompts, Request(p) \/ Task(p), ~ Submit(p)
      PROVE  \/ UNCHANGED <<pq.queue, pq.workerMap, pq.aliases>>
             \/ InsertAndSpawn(p) /\ pq' = Insert(pq, p)
             \/ TakeResult(p) /\ result[p] = "err" /\ pq' = CleanupAlias(Finish(pq, p), p)
  <2>1. CASE HoldPrompt(p)
    BY <1>0, <2>1 DEF HoldPrompt, Hold, QueueType
  <2>2. CASE ~ HoldPrompt(p)
    BY <1>2, <2>2 DEF Request, Task, CheckHold, InsertAndSpawn, SubmitDirectly,
                      SubmitPreview, TakeResult
  <2> QED
    BY <2>1, <2>2
<1>3. DrainWake => UNCHANGED <<pq.queue, pq.workerMap, pq.aliases>>
  BY <1>0 DEF DrainWake, DropNextHeld, QueueType
<1>4. CleanupReactor => \/ UNCHANGED <<pq.queue, pq.workerMap, pq.aliases>>
                        \/ ReactorFinish /\ pq' = Finish(pq, reactor.pid)
  <2>1. ReactorFinish => pq' = Finish(pq, reactor.pid)
    BY DEF ReactorFinish
  <2>2. ReactorPark => UNCHANGED <<pq.queue, pq.workerMap, pq.aliases>>
    BY <1>0 DEF ReactorPark, ParkDeferredFinish, QueueType
  <2>3. ReactorRecv \/ ReactorRelease => UNCHANGED pq
    BY DEF ReactorRecv, ReactorRelease
  <2> QED
    BY <2>1, <2>2, <2>3 DEF CleanupReactor
<1>5. AliasCleanup => \E p \in aliasGC : pq' = CleanupAlias(pq, p)
  BY DEF AliasCleanup
<1>6. (\E w \in Workers : ExecutionEnds(w) \/ Watchdog(w)) \/ UNCHANGED vars => UNCHANGED pq
  BY DEF ExecutionEnds, Watchdog, vars
<1> HIDE DEF FailsItself, RecordedId
<1> QED
  <2>1. ASSUME NEW s \in Submitters, Submit(s) PROVE TrackingMove
    BY <1>1, <2>1 DEF TrackingMove
  <2>2. ASSUME NEW p \in Prompts, Request(p) \/ Task(p), ~ Submit(p) PROVE TrackingMove
    BY <1>2, <2>2 DEF TrackingMove
  <2>3. CASE DrainWake \/ CleanupReactor \/ AliasCleanup
    BY <1>3, <1>4, <1>5, <2>3 DEF TrackingMove
  <2>4. CASE (\E w \in Workers : ExecutionEnds(w) \/ Watchdog(w)) \/ UNCHANGED vars
    BY <1>6, <2>4 DEF TrackingMove
  <2> QED
    BY <1>0, <2>1, <2>2, <2>3, <2>4, SubFacts DEF Next, Serve, Task, DrainReactor

Untracked(i) == i \notin pq.queue /\ pq.workerMap[i] = None

(* The prompt and the id of a submitter that binds them.                   *)
LEMMA BindFacts ==
  ASSUME EndInv, NEW s \in Submitters, Bind(s)
  PROVE  /\ sub[s].pc \in InHand
         /\ sub[s].prompt \in Prompts \ Previews
         /\ sub[s].real = <<sub[s].prompt, 1>>
         /\ sub[s].real \in Reals
<1>1. sub[s].pc \in InHand /\ s \notin Previews
  BY DEF Bind, InHand
<1>2. PICK p \in Prompts : p = sub[s].prompt /\ sub[s].real = <<p, 1>> /\ p \notin Previews
  BY <1>1, InHandFacts
<1>3. <<p, 1>> \in Reals
  BY BoundsAssumption DEF Reals
<1> QED
  BY <1>1, <1>2, <1>3

(* What binding an answer leaves.                                          *)
LEMMA BindAfter ==
  ASSUME EndInv, NEW s \in Submitters, Bind(s)
  PROVE  /\ ~ WasDeferred(pq, sub[s].real) =>
              pq'.queue = pq.queue /\ pq'.workerMap = pq.workerMap
         /\ WasDeferred(pq, sub[s].real) =>
              /\ pq'.queue = pq.queue \ {sub[s].prompt}
              /\ pq'.workerMap = [pq.workerMap EXCEPT ![sub[s].prompt] = None]
         /\ pq'.aliases = [pq.aliases EXCEPT ![sub[s].real] = sub[s].prompt]
<1>1. PICK p \in Prompts, r \in Reals : p = sub[s].prompt /\ r = sub[s].real
  BY BindFacts
<1>2. pq \in QueueType
  BY DEF EndInv, HolderInv, TypeOK
<1>3. pq' = BindAlias(pq, p, r)
  BY <1>1, Zenon DEF Bind
<1>4. /\ ~ WasDeferred(pq, r) =>
           /\ BindAlias(pq, p, r).queue = pq.queue
           /\ BindAlias(pq, p, r).workerMap = pq.workerMap
      /\ WasDeferred(pq, r) =>
           /\ BindAlias(pq, p, r).queue = pq.queue \ {p}
           /\ BindAlias(pq, p, r).workerMap = [pq.workerMap EXCEPT ![p] = None]
      /\ BindAlias(pq, p, r).aliases = [pq.aliases EXCEPT ![r] = p]
  BY <1>2, BindTracks
<1>5. /\ ~ WasDeferred(pq, r) =>
           pq'.queue = pq.queue /\ pq'.workerMap = pq.workerMap
      /\ WasDeferred(pq, r) =>
           /\ pq'.queue = pq.queue \ {p}
           /\ pq'.workerMap = [pq.workerMap EXCEPT ![p] = None]
      /\ pq'.aliases = [pq.aliases EXCEPT ![r] = p]
  BY <1>3, <1>4, Zenon
<1> QED
  BY <1>1, <1>5, Zenon

(* What comes to be tracked, or stops to be.                               *)
LEMMA TrackedAfter ==
  ASSUME EndInv, [Next]_vars, NEW i \in Ids
  PROVE  /\ i \in pq'.queue =>
              \/ i \in pq.queue
              \/ i \in Prompts /\ InsertAndSpawn(i)
              \/ \E s \in Submitters : InsertPreview(s) /\ i = sub[s].real
         /\ pq'.workerMap[i] # None =>
              \/ pq'.workerMap[i] = pq.workerMap[i]
              \/ \E s \in Submitters : /\ RecordWorker(s) /\ i = RecordedId(s)
                                       /\ pq'.workerMap[i] = sub[s].worker
         /\ pq.workerMap[i] # None =>
              \/ pq'.workerMap[i] = pq.workerMap[i]
              \/ \E s \in Submitters : RecordWorker(s) /\ i = RecordedId(s)
              \/ i \in Prompts /\ FailsItself(i)
              \/ i \in Prompts /\ TakeResult(i) /\ result[i] = "err"
              \/ ReactorFinish /\ i = reactor.pid
              \/ \E s \in Submitters : /\ Bind(s) /\ WasDeferred(pq, sub[s].real)
                                       /\ i = sub[s].prompt
<1>0. pq \in QueueType /\ TypeOK /\ pq.workerMap \in [Ids -> Workers \cup {None}]
  BY DEF EndInv, HolderInv, TypeOK, QueueType
<1>1. CASE UNCHANGED <<pq.queue, pq.workerMap, pq.aliases>>
  BY <1>1
<1>2. ASSUME NEW p \in Prompts, InsertAndSpawn(p), pq' = Insert(pq, p)
      PROVE  UNCHANGED pq.workerMap /\ pq'.queue = pq.queue \cup {p}
  BY <1>0, <1>2, InsertTracks
<1>3. ASSUME NEW s \in Submitters, pq' = Insert(pq, sub[s].real)
      PROVE  UNCHANGED pq.workerMap /\ pq'.queue = pq.queue \cup {sub[s].real}
  BY <1>0, <1>3, InsertTracks
<1>4. ASSUME NEW s \in Submitters, pq' = SetWorker(pq, RecordedId(s), sub[s].worker)
      PROVE  /\ UNCHANGED pq.queue
             /\ \A j \in Ids : pq'.workerMap[j] = IF j = RecordedId(s) THEN sub[s].worker
                                                                       ELSE pq.workerMap[j]
  BY <1>0, <1>4, SetWorkerTracks
<1>5. ASSUME NEW s \in Submitters, Bind(s),
             pq' = BindAlias(pq, sub[s].prompt, sub[s].real)
      PROVE  \/ UNCHANGED <<pq.queue, pq.workerMap>>
             \/ /\ WasDeferred(pq, sub[s].real)
                /\ pq'.queue = pq.queue \ {sub[s].prompt}
                /\ pq'.workerMap = [pq.workerMap EXCEPT ![sub[s].prompt] = None]
  BY <1>5, BindAfter
<1>6. ASSUME NEW j, pq' = Finish(pq, j)
      PROVE  /\ pq'.queue = pq.queue \ {j}
             /\ pq'.workerMap = [pq.workerMap EXCEPT ![j] = None]
  BY <1>0, <1>6, FinishTracks
<1>7. ASSUME NEW p \in Prompts, pq' = CleanupAlias(Finish(pq, p), p)
      PROVE  /\ pq'.queue = pq.queue \ {p}
             /\ pq'.workerMap = [pq.workerMap EXCEPT ![p] = None]
  <2>1. Finish(pq, p) \in QueueType
    BY <1>0, FinishType DEF Ids
  <2> QED
    <3>1. /\ Finish(pq, p).queue = pq.queue \ {p}
          /\ Finish(pq, p).workerMap = [pq.workerMap EXCEPT ![p] = None]
      BY <1>0, FinishTracks, Zenon
    <3>2. /\ CleanupAlias(Finish(pq, p), p).queue = Finish(pq, p).queue
          /\ CleanupAlias(Finish(pq, p), p).workerMap = Finish(pq, p).workerMap
      BY <2>1, CleanupTracks, Zenon
    <3> QED
      BY <1>7, <3>1, <3>2
<1>8. ASSUME NEW p, pq' = CleanupAlias(pq, p)
      PROVE  UNCHANGED <<pq.queue, pq.workerMap>>
  BY <1>0, <1>8, CleanupTracks
<1>9. ASSUME NEW j, pq'.queue = pq.queue \ {j},
             pq'.workerMap = [pq.workerMap EXCEPT ![j] = None]
      PROVE  /\ i \in pq'.queue => i \in pq.queue
             /\ pq'.workerMap[i] # None => pq'.workerMap[i] = pq.workerMap[i]
             /\ i # j => pq'.workerMap[i] = pq.workerMap[i]
  BY <1>0, <1>9
<1>11. CASE \E s \in Submitters : /\ RecordWorker(s)
                                  /\ pq' = SetWorker(pq, RecordedId(s), sub[s].worker)
  BY <1>4, <1>11
<1>12. CASE \E p \in Prompts : FailsItself(p) /\ pq' = Finish(pq, p)
  BY <1>6, <1>9, <1>12
<1>13. CASE \E p \in Prompts : /\ TakeResult(p) /\ result[p] = "err"
                               /\ pq' = CleanupAlias(Finish(pq, p), p)
  BY <1>7, <1>9, <1>13
<1>14. CASE ReactorFinish /\ pq' = Finish(pq, reactor.pid)
  BY <1>6, <1>9, <1>14
<1>15. CASE \E s \in Submitters : /\ Bind(s)
                                  /\ pq' = BindAlias(pq, sub[s].prompt, sub[s].real)
  BY <1>5, <1>9, <1>15
<1> QED
  BY <1>1, <1>2, <1>3, <1>8, <1>11, <1>12, <1>13, <1>14, <1>15, TrackingMoves
     DEF TrackingMove

(* What is ended is untracked.                                             *)
LEMMA UntrackedAfter ==
  ASSUME EndInv, [Next]_vars, NEW i \in Ids,
         \/ i \in Prompts /\ FailsItself(i)
         \/ i \in Prompts /\ TakeResult(i) /\ result[i] = "err"
         \/ ReactorFinish /\ i = reactor.pid
         \/ \E s \in Submitters : Bind(s) /\ WasDeferred(pq, sub[s].real) /\ i = sub[s].prompt
  PROVE  Untracked(i)'
<1>0. pq \in QueueType /\ pq.workerMap \in [Ids -> Workers \cup {None}]
  BY DEF EndInv, HolderInv, TypeOK, QueueType
<1>1. ASSUME NEW s \in Submitters, Bind(s), WasDeferred(pq, sub[s].real), i = sub[s].prompt
      PROVE  pq'.queue = pq.queue \ {i} /\ pq'.workerMap = [pq.workerMap EXCEPT ![i] = None]
  BY <1>1, BindAfter
<1>2. ASSUME ~ \E s \in Submitters : /\ Bind(s) /\ WasDeferred(pq, sub[s].real)
                                     /\ i = sub[s].prompt
      PROVE  pq' = Finish(pq, i) \/ (i \in Prompts /\ pq' = CleanupAlias(Finish(pq, i), i))
  <2>1. CASE i \in Prompts /\ FailsItself(i)
    <3>1. SubmitFailed(i) /\ i # Drain /\ i \notin Previews
      BY <2>1, ServerAssumption DEF FailsItself, SelectTimeout, PostFailed, AnswerLost
    <3> QED
      BY <3>1 DEF SubmitFailed
  <2>2. CASE i \in Prompts /\ TakeResult(i) /\ result[i] = "err"
    BY <2>2 DEF TakeResult
  <2>3. CASE ReactorFinish /\ i = reactor.pid
    BY <2>3 DEF ReactorFinish
  <2> QED
    BY <1>2, <2>1, <2>2, <2>3
<1>3. Finish(pq, i) \in QueueType
  BY <1>0, FinishType
<1>4. Finish(pq, i).queue = pq.queue \ {i}
      /\ Finish(pq, i).workerMap = [pq.workerMap EXCEPT ![i] = None]
  BY <1>0, FinishTracks
<1>5. pq'.queue = pq.queue \ {i} /\ pq'.workerMap = [pq.workerMap EXCEPT ![i] = None]
  BY <1>2, <1>3, <1>4, <1>1, CleanupTracks
<1> QED
  BY <1>0, <1>5 DEF Untracked

(* What a real id comes to resolve to.                                     *)
LEMMA AliasesAfter ==
  ASSUME EndInv, [Next]_vars, NEW r \in Reals
  PROVE  \/ pq'.aliases[r] = pq.aliases[r] /\ ~ \E s \in Submitters : Bind(s) /\ r = sub[s].real
         \/ \E s \in Submitters : /\ Bind(s) /\ r = sub[s].real
                                  /\ pq'.aliases[r] = sub[s].prompt
         \/ /\ pq'.aliases[r] = None
            /\ ~ \E s \in Submitters : Bind(s)
            /\ \E p \in Prompts : /\ pq.aliases[r] = p
                                  /\ p \in aliasGC \/ (TakeResult(p) /\ result[p] = "err")
<1>0. pq \in QueueType /\ TypeOK /\ pq.aliases \in [Reals -> Prompts \cup {None}]
      /\ aliasGC \subseteq Prompts
  BY DEF EndInv, HolderInv, TypeOK, QueueType
<1>1. ASSUME NEW s \in Submitters, Bind(s)
      PROVE  pq'.aliases = [pq.aliases EXCEPT ![sub[s].real] = sub[s].prompt]
  BY <1>1, BindAfter
<1>2. ASSUME NEW s \in Submitters, Bind(s), r # sub[s].real
      PROVE  /\ pq'.aliases[r] = pq.aliases[r]
             /\ ~ \E t \in Submitters : Bind(t) /\ r = sub[t].real
  <2>1. pq'.aliases[r] = pq.aliases[r]
    BY <1>0, <1>1, <1>2
  <2>2. \A t \in Submitters \ {s} : ~ Bind(t)
    <3>1. sub'[s].pc # sub[s].pc
      BY <1>0, <1>2, AnswerAfter
    <3> QED
      BY <1>0, <3>1, AnswerAfter
  <2> QED
    BY <1>2, <2>1, <2>2
<1>3. ASSUME NEW s \in Submitters, Bind(s), r = sub[s].real
      PROVE  pq'.aliases[r] = sub[s].prompt
  BY <1>0, <1>1, <1>3
<1>4. ASSUME ~ \E s \in Submitters : Bind(s)
      PROVE  \/ UNCHANGED pq.aliases
             \/ \E p \in Prompts : /\ p \in aliasGC \/ (TakeResult(p) /\ result[p] = "err")
                                   /\ pq'.aliases[r] = IF pq.aliases[r] = p THEN None
                                                                           ELSE pq.aliases[r]
  <2>1. ASSUME NEW p \in Prompts, pq' = CleanupAlias(Finish(pq, p), p)
        PROVE  pq'.aliases[r] = IF pq.aliases[r] = p THEN None ELSE pq.aliases[r]
    <3>1. Finish(pq, p) \in QueueType
      BY <1>0, FinishType DEF Ids
    <3>2. Finish(pq, p).aliases = pq.aliases
      BY <1>0, FinishTracks
    <3> QED
      BY <2>1, <3>1, <3>2, CleanupTracks
  <2>2. ASSUME NEW p \in aliasGC, pq' = CleanupAlias(pq, p)
        PROVE  pq'.aliases[r] = IF pq.aliases[r] = p THEN None ELSE pq.aliases[r]
    BY <1>0, <2>2, CleanupTracks
  <2>3. ASSUME \E i : \/ pq' = Insert(pq, i) \/ pq' = Finish(pq, i)
                      \/ \E w : pq' = SetWorker(pq, i, w)
        PROVE  UNCHANGED pq.aliases
    <3>1. \A i, w : SetWorker(pq, i, w).aliases = pq.aliases
      BY <1>0, SetWorkerTracks
    <3>2. \A i : Insert(pq, i).aliases = pq.aliases /\ Finish(pq, i).aliases = pq.aliases
      BY <1>0, InsertTracks, FinishTracks, Zenon
    <3> QED
      BY <2>3, <3>1, <3>2
  <2> QED
    BY <1>0, <1>4, <2>1, <2>2, <2>3, TrackingMoves DEF TrackingMove
<1> QED
  BY <1>0, <1>2, <1>3, <1>4

-----------------------------------------------------------------------------
(* What is tracked comes to its end. *)

(* ComfyUI has the prompt, or its completion is in the channel.            *)
Pending(r) == InComfy(r) \/ [kind |-> "done", id |-> r] \in Elems(events)

(* An id is bound for a request of a task, when its answer is recorded.    *)
AliasSound ==
  \A r \in Reals : pq.aliases[r] # None =>
    /\ Issued(r)
    /\ JobOf(r) \notin Previews
    /\ \A s \in Submitters : sub[s].prompt = JobOf(r) => sub[s].pc # "responded"

(* The answer in the hands of s is up to date: the execution has not been  *)
(* reacted to, and the id that was bound is still bound.                   *)
Handed(s) ==
  /\ sub[s].pc = "bound" => pq.aliases[sub[s].real] = sub[s].prompt
  /\ Pending(sub[s].real)
  /\ sub[s].prompt \notin aliasGC
  /\ reactor.pc # "recv" => reactor.pid # sub[s].prompt

HandsKept ==
  \A s \in Submitters :
    sub[s].pc \in InHand /\ sub[s].prompt \notin overtaken => Handed(s)

(* The completion that will be resolved to the tracked id of p is on its   *)
(* way; p is posted once, so there is one id to look for.                  *)
Coming(p) ==
  \/ ResolveAlias(pq, <<p, 1>>) = TrackedId(p) /\ Pending(<<p, 1>>)
  \/ reactor.pc = "finish" /\ reactor.pid = TrackedId(p)

(* A worker is recorded for a prompt that has been accepted and whose end  *)
(* is on its way, or came too early.                                       *)
Recorded(i) ==
  /\ i = TrackedId(JobId(i))
  /\ Over(JobId(i))
  /\ posts[JobId(i)] = 1
  /\ sub[JobId(i)].pc = "waiting" => result[JobId(i)] = "ok"
  /\ Coming(JobId(i)) \/ JobId(i) \in overtaken

(* What takes an accepted prompt out of the queue, unless it is overtaken. *)
Ending(p) ==
  \/ Coming(p)
  \/ p \in overtaken
  \/ \E s \in Submitters : sub[s].prompt = p /\ sub[s].pc = "responded"
  \/ sub[p].pc = "waiting" /\ result[p] = "err"

(* The reactor, or the submitter that found its completion parked, is      *)
(* through with the placeholder.                                           *)
Ended(p) ==
  \/ p \in aliasGC
  \/ reactor.pc \in {"park", "release"} /\ reactor.pid = p
  \/ \E s \in Submitters : sub[s].pc = "deferred" /\ sub[s].prompt = p

Dropped(p) == p \notin pq.queue /\ (pq.workerMap[p] = None \/ p \in overtaken)

TrackInv ==
  /\ EndInv /\ AliasSound /\ HandsKept
  /\ \A i \in Ids : pq.workerMap[i] # None => Recorded(i)
  /\ \A p \in Prompts : posts[p] = 1 /\ TrackedId(p) \in pq.queue => Ending(p)
  /\ \A r \in Reals : r \in pq.queue => Issued(r) /\ sub[JobOf(r)].pc # "responded"
  /\ \A p \in Prompts : Ended(p) => Dropped(p)

(* Ids of one request.                                                     *)
LEMMA TrackedIdFacts ==
  ASSUME NEW p \in Prompts
  PROVE  /\ <<p, 1>> \in Reals /\ JobOf(<<p, 1>>) = p /\ <<p, 1>> \notin Prompts
         /\ JobId(<<p, 1>>) = p /\ JobId(p) = p
         /\ TrackedId(p) \in Ids /\ JobId(TrackedId(p)) = p
         /\ p # None /\ p \in Ids
<1>1. <<p, 1>> \in Reals /\ JobOf(<<p, 1>>) = p
  BY BoundsAssumption DEF Reals, JobOf
<1>2. <<p, 1>> \notin Prompts
  BY <1>1, IdsAssumption
<1> QED
  BY <1>1, <1>2, IdsAssumption DEF JobId, TrackedId, Ids

(* Whoever has the answer of an accepted request has had it before.        *)
LEMMA HandStays ==
  ASSUME EndInv, [Next]_vars, NEW p \in Prompts, posts[p] = 1,
         NEW s \in Submitters, sub'[s].prompt = p, sub'[s].pc \in InHand
  PROVE  /\ sub[s].prompt = p /\ sub[s].pc \in InHand
         /\ sub[s].real = <<p, 1>> /\ sub'[s].real = <<p, 1>>
         /\ \/ UNCHANGED sub[s]
            \/ Bind(s) /\ sub[s].pc = "responded" /\ sub'[s].pc = "bound"
            \/ InsertPreview(s) /\ sub[s].pc = "responded" /\ sub'[s].pc = "inserted"
<1>0. HolderInv
  BY DEF EndInv
<1>1. ~ PostAccepted(s)
  <2>1. sub'[s].prompt = sub[s].prompt
    BY <1>0, HandsAfter
  <2> QED
    BY <1>0, <2>1, PostedFirst
<1>2. /\ sub[s].prompt = p /\ sub[s].pc \in InHand /\ sub'[s].real = sub[s].real
      /\ \/ UNCHANGED sub[s]
         \/ Bind(s) /\ sub'[s].pc = "bound"
         \/ InsertPreview(s) /\ sub'[s].pc = "inserted"
  BY <1>0, <1>1, HandsAfter
<1>3. sub[s].real = <<p, 1>>
  BY <1>2, InHandFacts
<1> QED
  BY <1>2, <1>3 DEF Bind, InsertPreview

(* There is one submitter with an answer for a request, and its task is    *)
(* none of the others that have to do with it.                             *)
LEMMA HandIsAlone ==
  ASSUME EndInv, NEW p \in Prompts, NEW s \in Submitters, sub[s].prompt = p,
         sub[s].pc \in InHand
  PROVE  /\ \A t \in Submitters :
              sub[t].prompt = p /\ sub[t].pc \in InHand \cup {"deferred"} => t = s
         /\ sub[p].pc # "done"
         /\ ~ (sub[p].pc = "waiting" /\ result[p] # "none")
<1>0. HolderInv /\ TypeOK /\ p \in Submitters /\ sub[p].prompt = p
  BY SubFacts DEF EndInv, HolderInv
<1>1. ASSUME NEW t \in Submitters, sub[t].prompt = p, sub[t].pc \in InHand \cup {"deferred"},
             t # s
      PROVE  FALSE
  BY <1>0, <1>1, OneSubmitter DEF InHand
<1>2. CASE s = p
  BY <1>1, <1>2 DEF InHand
<1>3. CASE s # p
  <2>1. s = Drain /\ sub[p].pc = "waiting"
    BY <1>0, <1>3, OneSubmitter DEF InHand
  <2>2. result[p] = "none"
    BY <1>0, <2>1 DEF HolderInv, OneHolder
  <2> QED
    BY <1>1, <2>1, <2>2
<1> QED
  BY <1>2, <1>3

(* What is pending stays so until the reactor receives the completion.     *)
LEMMA PendingStays ==
  ASSUME TypeOK, [Next]_vars, NEW r \in Reals, Pending(r)
  PROVE  \/ Pending(r)'
         \/ ReactorRecv /\ Head(events) = [kind |-> "done", id |-> r]
<1>1. CASE InComfy(r)
  <2>1. InComfy(r)' \/ \E w \in Workers : ExecutionEnds(w) /\ r = Head(comfy[w])
    BY <1>1, ComfyAfter
  <2>2. ASSUME NEW w \in Workers, ExecutionEnds(w), r = Head(comfy[w])
        PROVE  [kind |-> "done", id |-> r] \in Elems(events')
    BY <2>2, EventsAfter
  <2> QED
    BY <2>1, <2>2 DEF Pending
<1>2. CASE [kind |-> "done", id |-> r] \in Elems(events)
  BY <1>2, EventsAfter DEF Pending
<1> QED
  BY <1>1, <1>2 DEF Pending

(* Ids are bound for requests of tasks only, once for each.                *)
LEMMA AliasSoundStep ==
  ASSUME EndInv, AliasSound, [Next]_vars
  PROVE  AliasSound'
<1>0. HolderInv /\ TypeOK
  BY DEF EndInv, HolderInv
<1> SUFFICES ASSUME NEW r \in Reals, pq'.aliases[r] # None
             PROVE  /\ Issued(r)'
                    /\ JobOf(r) \notin Previews
                    /\ \A s \in Submitters :
                         sub'[s].prompt = JobOf(r) => sub'[s].pc # "responded"
  BY DEF AliasSound
<1>1. PICK p \in Prompts : p = JobOf(r)
  BY JobType
<1>2. CASE pq.aliases[r] # None
  <2>1. /\ Issued(r) /\ p \notin Previews
        /\ \A s \in Submitters : sub[s].prompt = p => sub[s].pc # "responded"
    BY <1>1, <1>2 DEF AliasSound
  <2>2. posts[p] = 1
    BY <1>1, <2>1 DEF Issued, JobOf
  <2>3. ASSUME NEW s \in Submitters, sub'[s].prompt = p, sub'[s].pc = "responded"
        PROVE  FALSE
    <3>1. sub[s].prompt = p /\ sub[s].pc = "responded"
      BY <2>2, <2>3, HandStays DEF InHand
    <3> QED
      BY <2>1, <3>1
  <2> QED
    BY <1>0, <1>1, <2>1, <2>3, IssuedStays
<1>3. ASSUME NEW s \in Submitters, Bind(s), r = sub[s].real
      PROVE  /\ Issued(r)'
             /\ p \notin Previews
             /\ \A t \in Submitters : sub'[t].prompt = p => sub'[t].pc # "responded"
  <2>1. /\ sub[s].pc \in InHand /\ sub[s].prompt \in Prompts \ Previews
        /\ sub[s].real = <<sub[s].prompt, 1>>
    BY <1>3, BindFacts
  <2>2. sub[s].prompt = p /\ p \notin Previews
    BY <1>1, <1>3, <2>1, TrackedIdFacts
  <2>3. posts[p] = 1 /\ Issued(r)
    BY <1>3, <2>1, <2>2, InHandFacts DEF EndInv, IssuedSound
  <2>4. ASSUME NEW t \in Submitters, sub'[t].prompt = p, sub'[t].pc = "responded"
        PROVE  FALSE
    <3>1. sub[t].prompt = p /\ sub[t].pc \in InHand /\ UNCHANGED sub[t]
      BY <2>3, <2>4, HandStays DEF InHand
    <3>2. t = s
      BY <2>1, <2>2, <3>1, HandIsAlone
    <3>3. sub'[s].pc # "responded"
      BY <1>0, <1>3, AnswerAfter
    <3> QED
      BY <2>4, <3>2, <3>3
  <2> QED
    BY <1>0, <2>2, <2>3, <2>4, IssuedStays
<1> QED
  BY <1>1, <1>2, <1>3, AliasesAfter

(* A request that is recorded stays overtaken, unless the reactor releases *)
(* its worker; one in hand does so while its answer is.                    *)
LEMMA StaysOvertaken ==
  ASSUME EndInv, [Next]_vars, NEW p \in Prompts, p \in overtaken
  PROVE  \/ p \in overtaken'
         \/ \E s \in Submitters : /\ sub[s].prompt = p /\ sub[s].pc = "responded"
                                  /\ \/ AnswerLost(s)
                                     \/ Bind(s) /\ WasDeferred(pq, sub[s].real)
         \/ /\ ReactorFinish /\ reactor.pid = TrackedId(p)
            /\ pq.workerMap[TrackedId(p)] # None
<1>0. TypeOK
  BY DEF EndInv, HolderInv
<1>1. \A s \in Submitters : AnswerLost(s) \/ Bind(s) => sub[s].pc = "responded"
  BY DEF AnswerLost, Bind
<1> QED
  BY <1>0, <1>1, OvertakenAfter

(* The reactor does not come to a request that is in hand but by an event  *)
(* that overtakes it.                                                      *)
LEMMA ReceivedIsOvertaken ==
  ASSUME EndInv, AliasSound, [Next]_vars, ReactorRecv,
         NEW p \in Prompts, NEW s \in Submitters, sub[s].prompt = p, sub[s].pc \in InHand,
         reactor'.pid = p
  PROVE  p \in overtaken'
<1>0. TypeOK /\ events \in Seq(Event) /\ events # <<>>
  BY DEF EndInv, HolderInv, TypeOK, ReactorRecv
<1>1. PICK e \in Event : e = Head(events) /\ e \in Elems(events)
  BY <1>0, HeadElems DEF Elems
<1>2. reactor'.pid = ResolveAlias(pq, e.id)
  BY <1>0, <1>1 DEF ReactorRecv
<1>3. e.id \in Ids /\ Begun(e.id) /\ e.kind \in {"done", "error"}
  BY <1>1 DEF EndInv, EndsSound, Event, Ids
<1>4. e.id # p
  BY <1>3, HandIsAlone DEF Begun
<1>5. e.id \in Reals /\ pq.aliases[e.id] = p
  BY <1>2, <1>4 DEF ResolveAlias
<1>6. PICK r \in Reals : r = e.id
  BY <1>5
<1>7. /\ JobOf(r) = p /\ Issued(r) /\ p \notin Previews
      /\ sub[s].pc # "responded"
  BY <1>5, <1>6, TrackedIdFacts DEF AliasSound, EndInv, QueueSound, AliasesSound
<1>8. sub[s].real = r
  <2>1. r = <<p, 1>>
    BY <1>7 DEF Issued, JobOf, Reals
  <2> QED
    BY <2>1, InHandFacts
<1>9. sub[s].pc = "bound"
  <2>1. s \notin Previews
    BY <1>7, InHandFacts
  <2> QED
    BY <1>7, <2>1 DEF EndInv, HandsSound, InHand
<1>10. Overtakes(Head(events), s)
  BY <1>1, <1>3, <1>6, <1>8, <1>9 DEF Overtakes
<1> QED
  BY <1>0, <1>10, OvertakenAfter

(* The answers in hand stay up to date, or are overtaken.                  *)
LEMMA HandsKeptStep ==
  ASSUME TrackInv, [Next]_vars
  PROVE  HandsKept'
<1>0. TypeOK /\ HolderInv /\ EndInv /\ AliasSound
  BY DEF TrackInv, EndInv, HolderInv
<1> SUFFICES ASSUME NEW s \in Submitters, sub'[s].pc \in InHand,
                    sub'[s].prompt \notin overtaken'
             PROVE  /\ sub'[s].pc = "bound" => pq'.aliases[sub'[s].real] = sub'[s].prompt
                    /\ Pending(sub[s].real)'
                    /\ sub'[s].prompt \notin aliasGC'
                    /\ reactor'.pc # "recv" => reactor'.pid # sub'[s].prompt
  BY DEF HandsKept, Handed
<1>1. CASE PostAccepted(s)
  <2>1. PICK p \in Prompts : /\ p = sub[s].prompt /\ sub'[s].real = <<p, 1>>
                             /\ posts[p] = 0 /\ sub[p].pc # "done"
    BY <1>0, <1>1, PostedFirst
  <2>2. sub'[s].prompt = p /\ sub'[s].pc = "responded"
    BY <1>0, <1>1, <2>1, AnswerAfter
  <2>3. ~ Handled(p)
    BY <2>1 DEF Handled
  <2>4. UNCHANGED <<aliasGC, reactor>>
    BY <1>1 DEF PostAccepted
  <2>5. p \notin aliasGC
    BY <1>0, <2>3 DEF EndInv, EndsSound
  <2>6. ASSUME reactor.pc # "recv", reactor.pid = p PROVE FALSE
    <3>1. reactor.raw \in Ids /\ JobId(reactor.raw) = p /\ Begun(reactor.raw)
      BY <1>0, <2>6, TrackedIdFacts DEF TypeOK, Event, Ids, EndInv, EndsSound
    <3> QED
      BY <2>3, <3>1, BegunIsHandled
  <2>7. InComfy(<<p, 1>>)'
    BY <1>0, <1>1, <2>1, TrackedIdFacts, ComfyAfter
  <2>8. Pending(sub[s].real)'
    BY <2>1, <2>7 DEF Pending, InComfy
  <2> QED
    BY <2>2, <2>4, <2>5, <2>6, <2>8
<1>2. CASE ~ PostAccepted(s)
  <2>1. /\ sub'[s].prompt = sub[s].prompt /\ sub'[s].real = sub[s].real /\ sub[s].pc \in InHand
        /\ \/ UNCHANGED sub[s]
           \/ Bind(s) /\ sub'[s].pc = "bound"
           \/ InsertPreview(s) /\ sub'[s].pc = "inserted"
    BY <1>0, <1>2, HandsAfter
  <2>2. PICK p \in Prompts : /\ p = sub[s].prompt /\ sub[s].real = <<p, 1>> /\ posts[p] = 1
    BY <1>0, <2>1, InHandFacts
  <2>3. p \notin overtaken
    <3>1. ASSUME NEW t \in Submitters, sub[t].prompt = p, sub[t].pc = "responded",
                 AnswerLost(t) \/ (Bind(t) /\ WasDeferred(pq, sub[t].real))
          PROVE  FALSE
      <4>1. t = s
        BY <1>0, <2>1, <2>2, <3>1, HandIsAlone DEF InHand
      <4>2. AnswerLost(s) => sub'[s].pc \in {"done", "idle"}
        BY <1>0, ThroughAfter
      <4>3. Bind(s) /\ WasDeferred(pq, sub[s].real) => sub'[s].pc = "deferred"
        BY <1>0, AnswerAfter
      <4> QED
        BY <3>1, <4>1, <4>2, <4>3 DEF InHand
    <3>2. pq.workerMap[TrackedId(p)] = None
      <4>1. TrackedId(p) \in Ids /\ JobId(TrackedId(p)) = p
        BY TrackedIdFacts
      <4>2. ~ Over(p)
        BY <2>1, <2>2 DEF Over
      <4> QED
        BY <4>1, <4>2 DEF TrackInv, Recorded
    <3> QED
      BY <1>0, <2>1, <2>2, <3>1, <3>2, StaysOvertaken
  <2>4. Handed(s)
    BY <2>1, <2>2, <2>3 DEF TrackInv, HandsKept
  <2>5. Pending(<<p, 1>>)'
    <3>1. ASSUME ReactorRecv, Head(events) = [kind |-> "done", id |-> <<p, 1>>] PROVE FALSE
      <4>1. Overtakes(Head(events), s)
        BY <2>1, <2>2, <3>1 DEF Overtakes, InHand
      <4> QED
        BY <1>0, <2>1, <2>2, <3>1, <4>1, OvertakenAfter
    <3> QED
      BY <1>0, <2>2, <2>4, <3>1, PendingStays, TrackedIdFacts DEF Handed
  <2>6. p \notin aliasGC'
    <3>1. ~ ReleaseDeferred(p)
      BY <1>0, <2>1, <2>2, HandIsAlone, SubFacts DEF ReleaseDeferred, InHand
    <3>2. p \notin aliasGC /\ (reactor.pc # "recv" => reactor.pid # p)
      BY <2>2, <2>4 DEF Handed
    <3> QED
      BY <1>0, <3>1, <3>2, ForgottenAfter
  <2>7. ASSUME reactor'.pc # "recv", reactor'.pid = p PROVE FALSE
    <3>1. reactor.pc # "recv" => reactor.pid # p
      BY <2>2, <2>4 DEF Handed
    <3>2. ReactorRecv
      BY <1>0, <2>7, <3>1, ReactorAfter DEF Receiving
    <3> QED
      BY <1>0, <2>1, <2>2, <2>7, <3>2, ReceivedIsOvertaken
  <2>8. ASSUME sub'[s].pc = "bound" PROVE pq'.aliases[<<p, 1>>] = p
    <3>1. ASSUME Bind(s) PROVE pq'.aliases[<<p, 1>>] = p
      <4>1. \/ pq'.aliases[<<p, 1>>] = p
            \/ \E t \in Submitters : /\ Bind(t) /\ <<p, 1>> = sub[t].real
                                     /\ pq'.aliases[<<p, 1>>] = sub[t].prompt
        BY <1>0, <2>2, <3>1, AliasesAfter, TrackedIdFacts
      <4>2. ASSUME NEW t \in Submitters, Bind(t), <<p, 1>> = sub[t].real
            PROVE  sub[t].prompt = p
        BY <1>0, <4>2, BindFacts
      <4> QED
        BY <4>1, <4>2
    <3>2. ASSUME UNCHANGED sub[s] PROVE pq'.aliases[<<p, 1>>] = p
      <4>1. pq.aliases[<<p, 1>>] = p
        BY <2>2, <2>4, <2>8, <3>2 DEF Handed
      <4>2. p \notin aliasGC /\ ~ (TakeResult(p) /\ result[p] = "err")
        BY <1>0, <2>1, <2>2, <2>4, HandIsAlone DEF Handed, TakeResult
      <4>3. ASSUME NEW t \in Submitters, Bind(t), <<p, 1>> = sub[t].real
            PROVE  sub[t].prompt = p
        BY <1>0, <4>3, BindFacts
      <4> QED
        BY <1>0, <4>1, <4>2, <4>3, AliasesAfter, TrackedIdFacts
    <3> QED
      BY <2>1, <2>8, <3>1, <3>2
  <2>9. Pending(sub[s].real)'
    BY <2>1, <2>2, <2>5 DEF Pending, InComfy
  <2> QED
    BY <2>1, <2>2, <2>6, <2>7, <2>8, <2>9
<1> QED
  BY <1>1, <1>2

(* A submitter that is about to record the worker of its prompt.           *)
LEMMA RecorderFacts ==
  ASSUME EndInv, AliasSound, HandsKept, NEW s \in Submitters,
         sub[s].pc \in {"bound", "inserted"}
  PROVE  /\ RecordedId(s) = TrackedId(sub[s].prompt)
         /\ JobId(RecordedId(s)) = sub[s].prompt
         /\ sub[s].prompt \notin overtaken =>
              /\ ResolveAlias(pq, <<sub[s].prompt, 1>>) = TrackedId(sub[s].prompt)
              /\ Pending(<<sub[s].prompt, 1>>)
<1>1. PICK p \in Prompts : /\ p = sub[s].prompt /\ sub[s].real = <<p, 1>>
                           /\ s \in Previews <=> p \in Previews
  BY InHandFacts DEF InHand
<1>2. p \notin overtaken => Handed(s)
  BY <1>1 DEF HandsKept, InHand
<1>3. CASE sub[s].pc = "bound"
  <2>1. p \notin Previews
    BY <1>1, <1>3 DEF EndInv, HandsSound
  <2>2. p \notin overtaken => pq.aliases[<<p, 1>>] = p /\ p # None /\ Pending(<<p, 1>>)
    BY <1>1, <1>2, <1>3, TrackedIdFacts DEF Handed
  <2>3. p \notin overtaken => ResolveAlias(pq, <<p, 1>>) = p
    BY <2>2, TrackedIdFacts DEF ResolveAlias
  <2> QED
    BY <1>1, <1>3, <2>1, <2>2, <2>3, TrackedIdFacts DEF RecordedId, TrackedId
<1>4. CASE sub[s].pc = "inserted"
  <2>1. p \in Previews
    BY <1>1, <1>4 DEF EndInv, HandsSound
  <2>2. pq.aliases[<<p, 1>>] = None
    BY <2>1, TrackedIdFacts DEF AliasSound
  <2>3. ResolveAlias(pq, <<p, 1>>) = <<p, 1>>
    BY <2>2 DEF ResolveAlias
  <2>4. p \notin overtaken => Pending(<<p, 1>>)
    BY <1>1, <1>2 DEF Handed
  <2> QED
    BY <1>1, <1>4, <2>1, <2>3, <2>4, TrackedIdFacts DEF RecordedId, TrackedId
<1> QED
  BY <1>3, <1>4

(* A request whose answer is about to be recorded comes to its end, or has *)
(* been overtaken.                                                         *)
RecordersEnd ==
  \A s \in Submitters : sub[s].pc \in {"bound", "inserted"} =>
    Coming(sub[s].prompt) \/ sub[s].prompt \in overtaken

LEMMA RecorderEnds == EndInv /\ AliasSound /\ HandsKept => RecordersEnd
BY RecorderFacts DEF RecordersEnd, Coming

(* What has ended has begun.                                               *)
LEMMA EndedIsHandled ==
  ASSUME EndInv, NEW p \in Prompts, Ended(p)
  PROVE  Handled(p)
<1>1. CASE reactor.pc \in {"park", "release"} /\ reactor.pid = p
  <2>1. reactor.raw \in Ids /\ JobId(reactor.raw) = p /\ Begun(reactor.raw)
    BY <1>1, TrackedIdFacts DEF EndInv, HolderInv, TypeOK, Event, Ids, EndsSound
  <2> QED
    BY <2>1, BegunIsHandled
<1>2. CASE p \in aliasGC \/ \E s \in Submitters : sub[s].pc = "deferred" /\ sub[s].prompt = p
  BY <1>2 DEF EndInv, EndsSound, Handled
<1> QED
  BY <1>1, <1>2 DEF Ended

(* Who still has an answer for what has ended has been overtaken.          *)
LEMMA EndedHands ==
  ASSUME EndInv, HandsKept, NEW p \in Prompts, Ended(p),
         NEW s \in Submitters, sub[s].prompt = p, sub[s].pc \in InHand
  PROVE  p \in overtaken
<1> SUFFICES ASSUME p \notin overtaken PROVE FALSE
  OBVIOUS
<1>1. Handed(s)
  BY DEF HandsKept
<1>2. PICK t \in Submitters : sub[t].pc = "deferred" /\ sub[t].prompt = p
  BY <1>1 DEF Ended, Handed
<1> QED
  BY <1>2, HandIsAlone DEF InHand

(* What has ended and been dropped from the queue is not queued again, and *)
(* no worker is recorded for it unless it was overtaken.                   *)
LEMMA DroppedStays ==
  ASSUME TrackInv, [Next]_vars, NEW p \in Prompts, Ended(p)
  PROVE  Dropped(p)'
<1>0. TypeOK /\ HolderInv /\ EndInv /\ AliasSound /\ HandsKept /\ p \in Submitters
      /\ p \in Ids /\ JobId(p) = p /\ p \notin Reals
  BY SubFacts, TrackedIdFacts, IdsAssumption DEF TrackInv, EndInv, HolderInv
<1>1. Dropped(p) /\ Handled(p)
  BY <1>0, EndedIsHandled DEF TrackInv
<1>2. p \notin pq'.queue
  <2>1. ~ InsertAndSpawn(p)
    <3>1. ASSUME InsertAndSpawn(p) PROVE FALSE
      <4>1. sub[p].pc = "checked"
        BY <3>1 DEF InsertAndSpawn
      <4>2. posts[p] = 0
        BY <1>0, <4>1 DEF HolderInv, OneHolder, Unposted, Fresh
      <4> QED
        BY <1>1, <4>1, <4>2 DEF Handled
    <3> QED
      BY <3>1
  <2>2. ASSUME NEW s \in Submitters, InsertPreview(s), p = sub[s].real PROVE FALSE
    <3>1. sub[s].pc = "responded"
      BY <2>2 DEF InsertPreview
    <3> QED
      BY <1>0, <2>2, <3>1, SubFacts DEF SubmissionOK
  <2> QED
    BY <1>0, <1>1, <2>1, <2>2, TrackedAfter DEF Dropped
<1>3. ASSUME NEW s \in Submitters, RecordWorker(s), p = RecordedId(s)
      PROVE  p \in overtaken'
  <2>1. sub[s].pc \in {"bound", "inserted"} /\ UNCHANGED overtaken
    BY <1>3 DEF RecordWorker
  <2>2. sub[s].prompt = p
    BY <1>0, <1>3, <2>1, RecorderFacts
  <2> QED
    BY <1>0, <2>1, <2>2, EndedHands DEF InHand
<1>4. ASSUME pq.workerMap[p] # None, pq'.workerMap[p] # None PROVE p \in overtaken'
  <2>1. p \in overtaken /\ Over(p) /\ p = TrackedId(p)
    BY <1>0, <1>1, <1>4 DEF Dropped, TrackInv, Recorded
  <2>2. ~ (ReactorFinish /\ reactor.pid = p)
    BY <1>0, <1>4, UntrackedAfter DEF Untracked
  <2> QED
    BY <1>0, <2>1, <2>2, StaysOvertaken DEF Over, InHand
<1> QED
  BY <1>0, <1>2, <1>3, <1>4, TrackedAfter DEF Dropped

(* What ends is dropped from the queue.                                    *)
LEMMA EndedStep ==
  ASSUME TrackInv, [Next]_vars, NEW p \in Prompts, Ended(p)'
  PROVE  Dropped(p)'
<1>0. TypeOK /\ EndInv /\ p \in Ids /\ p \in Submitters
  BY SubFacts, TrackedIdFacts DEF TrackInv, EndInv, HolderInv
<1>1. CASE Ended(p)
  BY <1>1, DroppedStays
<1>2. Untracked(p)' => Dropped(p)'
  BY DEF Untracked, Dropped
<1>3. ReactorFinish /\ reactor.pid = p => Dropped(p)'
  BY <1>0, <1>2, UntrackedAfter
<1>4. CASE p \in aliasGC'
  <2>1. \/ Ended(p)
        \/ ReactorFinish /\ reactor.pid = p
    <3>1. ReleaseDeferred(p) => Ended(p)
      BY <1>0, SubFacts DEF ReleaseDeferred, Ended
    <3> QED
      BY <1>0, <1>4, <3>1, ForgottenAfter DEF Ended
  <2> QED
    BY <1>1, <1>3, <2>1
<1>5. CASE reactor'.pc \in {"park", "release"} /\ reactor'.pid = p
  <2>1. Ended(p) \/ (ReactorFinish /\ reactor.pid = p)
    BY <1>0, <1>5, ReactorAfter DEF Receiving, Ended
  <2> QED
    BY <1>1, <1>3, <2>1
<1>6. ASSUME NEW s \in Submitters, sub'[s].pc = "deferred", sub'[s].prompt = p
      PROVE  Dropped(p)'
  <2>1. CASE UNCHANGED sub[s]
    BY <1>1, <1>6, <2>1 DEF Ended
  <2>2. CASE Bind(s) /\ WasDeferred(pq, sub[s].real)
    <3>1. p = sub[s].prompt
      BY <1>0, <1>6, DeferredAfter
    <3> QED
      BY <1>0, <1>2, <2>2, <3>1, UntrackedAfter
  <2> QED
    BY <1>0, <1>6, <2>1, <2>2, DeferredAfter
<1> QED
  BY <1>4, <1>5, <1>6 DEF Ended

(* The result of a held prompt is the drain reactor's.                     *)
LEMMA ResultAfter ==
  ASSUME TypeOK, [Next]_vars, NEW p \in Prompts
  PROVE  result'[p] = result[p] \/ (sub[Drain].prompt = p /\ Submit(Drain))
<1>0. result \in [Prompts -> {"none", "ok", "err"}]
  BY DEF TypeOK
<1>1. ASSUME NEW s \in Submitters, Submit(s)
      PROVE  \/ UNCHANGED result
             \/ s = Drain /\ \E o : result' = [result EXCEPT ![sub[s].prompt] = o]
  BY <1>1 DEF Submit, SelectIdle, SelectRunning, SelectNone, SelectTimeout, PostAccepted,
     PostFailed, AnswerLost, Bind, InsertPreview, RecordWorker, ReleaseDeferred,
     SubmitFailed, Settled
<1>2. ASSUME NEW q \in Prompts, Request(q) \/ Task(q), ~ Submit(q) PROVE UNCHANGED result
  BY <1>2 DEF Request, Task, CheckHold, InsertAndSpawn, HoldPrompt,
              SubmitDirectly, SubmitPreview, TakeResult
<1>3. CASE DrainWake
  BY <1>3 DEF DrainWake
<1>4. ASSUME NEW s \in Submitters, Submit(s)
      PROVE  result'[p] = result[p] \/ (sub[Drain].prompt = p /\ Submit(Drain))
  BY <1>0, <1>1, <1>4
<1> QED
  BY <1>0, <1>2, <1>3, <1>4, SubFacts, OtherMoves DEF Next, Serve, Task, DrainReactor

(* A task that waits for a prompt that is already posted and answered has  *)
(* waited and been answered before.                                        *)
LEMMA WaitingAfter ==
  ASSUME HolderInv, [Next]_vars, NEW p \in Prompts, posts[p] = 1, sub'[p].pc = "waiting"
  PROVE  /\ sub[p].pc = "waiting"
         /\ result[p] # "none" => result'[p] = result[p]
<1>0. TypeOK /\ p \in Submitters /\ p # Drain
  BY SubFacts, ServerAssumption DEF HolderInv
<1>1. sub[p].pc = "waiting"
  <2>1. ASSUME Submit(p) PROVE FALSE
    BY <1>0, <2>1, SelectAfter, AnswerAfter, ThroughAfter DEF Submit
  <2>2. ASSUME Request(p) \/ Task(p), ~ Submit(p) PROVE FALSE
    <3>1. HoldPrompt(p)
      BY <1>0, <2>2, TaskAfter DEF Request, Task
    <3>2. sub[p].pc = "spawned"
      BY <3>1 DEF HoldPrompt
    <3>3. posts[p] = 0
      BY <3>2 DEF HolderInv, OneHolder, Unposted, Fresh
    <3> QED
      BY <3>3
  <2>3. UNCHANGED sub[p]
    BY <1>0, <2>1, <2>2, MovedBySelf
  <2> QED
    BY <2>3
<1>2. result[p] # "none" => sub[Drain].prompt # p
  BY DEF HolderInv, OneHolder
<1> QED
  BY <1>0, <1>1, <1>2, ResultAfter

(* What is on its way arrives: the reactor finishes the prompt, unless its *)
(* task has found a failure first, or its worker was recorded too late.    *)
LEMMA ComingStays ==
  ASSUME TrackInv, AliasSound', [Next]_vars, NEW p \in Prompts, Coming(p),
         ~ Untracked(TrackedId(p))
  PROVE  \/ Coming(p)'
         \/ p \in overtaken
         \/ ReactorFinish /\ reactor.pid = TrackedId(p)
         \/ TakeResult(p) /\ result[p] = "err"
<1>0. TypeOK /\ EndInv
  BY DEF TrackInv, EndInv, HolderInv
<1>1. PICK r \in Reals : r = <<p, 1>> /\ JobOf(r) = p
  BY TrackedIdFacts
<1>2. CASE reactor.pc = "finish" /\ reactor.pid = TrackedId(p)
  <2>1. ~ ReactorFinish => UNCHANGED reactor
    <3>1. ~ ReactorRecv /\ ~ ReactorPark /\ ~ ReactorRelease
      BY <1>2 DEF ReactorRecv, ReactorPark, ReactorRelease
    <3> QED
      BY <1>0, <3>1, ReactorAfter
  <2> QED
    BY <1>2, <2>1 DEF Coming
<1>3. CASE ResolveAlias(pq, r) = TrackedId(p) /\ Pending(r)
  <2>1. \/ ResolveAlias(pq', r) = TrackedId(p)
        \/ p \in overtaken
        \/ TakeResult(p) /\ result[p] = "err"
    <3>1. CASE pq'.aliases[r] = pq.aliases[r]
      BY <1>3, <3>1 DEF ResolveAlias
    <3>2. ASSUME NEW s \in Submitters, Bind(s), r = sub[s].real,
                 pq'.aliases[r] = sub[s].prompt
          PROVE  ResolveAlias(pq', r) = TrackedId(p)
      <4>1. sub[s].prompt = p
        BY <1>0, <1>1, <3>2, BindFacts
      <4>2. p # None /\ p \notin Previews
        BY <1>0, <3>2, <4>1, BindFacts, TrackedIdFacts
      <4> QED
        BY <3>2, <4>1, <4>2 DEF ResolveAlias, TrackedId
    <3>3. ASSUME NEW q \in Prompts, pq.aliases[r] = q,
                 q \in aliasGC \/ (TakeResult(q) /\ result[q] = "err")
          PROVE  p \in overtaken \/ (TakeResult(p) /\ result[p] = "err")
      <4>1. q = p /\ pq.aliases[r] # None
        BY <1>0, <1>1, <3>3, TrackedIdFacts DEF EndInv, QueueSound, AliasesSound
      <4>2. p \notin Previews
        BY <1>1, <4>1 DEF TrackInv, AliasSound
      <4>3. TrackedId(p) = p
        BY <4>2 DEF TrackedId
      <4>4. p \in aliasGC => p \in overtaken
        BY <4>3 DEF TrackInv, Ended, Dropped, Untracked
      <4> QED
        BY <3>3, <4>1, <4>4
    <3> QED
      BY <1>0, <3>1, <3>2, <3>3, AliasesAfter
  <2>2. Pending(r)' \/ (reactor'.pc = "finish" /\ reactor'.pid = TrackedId(p))
    <3>1. ASSUME ReactorRecv, Head(events) = [kind |-> "done", id |-> r]
          PROVE  reactor'.pc = "finish" /\ reactor'.pid = TrackedId(p)
      <4>1. Head(events).id = r
        BY <3>1
      <4>2. reactor'.pc = "finish" /\ reactor'.pid = ResolveAlias(pq, Head(events).id)
        BY <3>1 DEF ReactorRecv
      <4> QED
        BY <1>3, <4>1, <4>2
    <3> QED
      BY <1>0, <1>3, <3>1, PendingStays
  <2>3. Coming(p)' <=> \/ ResolveAlias(pq', r) = TrackedId(p) /\ Pending(r)'
                       \/ reactor'.pc = "finish" /\ reactor'.pid = TrackedId(p)
    BY <1>1 DEF Coming, Pending, InComfy
  <2> QED
    BY <2>1, <2>2, <2>3
<1> QED
  BY <1>1, <1>2, <1>3 DEF Coming

(* A recorded prompt is over, and its end is on its way or came too early. *)
LEMMA RecordedStep ==
  ASSUME TrackInv, AliasSound', [Next]_vars, NEW i \in Ids, pq'.workerMap[i] # None
  PROVE  Recorded(i)'
<1>0. TypeOK /\ HolderInv /\ EndInv /\ (\A p \in Prompts : p \in Submitters)
      /\ result \in [Prompts -> {"none", "ok", "err"}] /\ AliasSound /\ HandsKept
  BY SubFacts DEF TrackInv, EndInv, HolderInv, TypeOK
<1>1. PICK p \in Prompts : p = JobId(i)
  BY JobType DEF JobId, Ids
<1>2. SUFFICES /\ i = TrackedId(p)
               /\ Over(p)'
               /\ posts'[p] = 1
               /\ sub'[p].pc = "waiting" => result'[p] = "ok"
               /\ Coming(p)' \/ p \in overtaken'
  BY <1>1 DEF Recorded, JobId, Over, Coming, Pending, InComfy, TrackedId
<1>3. ASSUME NEW s \in Submitters, RecordWorker(s), i = RecordedId(s)
      PROVE  /\ i = TrackedId(p) /\ Over(p)' /\ posts'[p] = 1
             /\ sub'[p].pc = "waiting" => result'[p] = "ok"
             /\ Coming(p)' \/ p \in overtaken'
  <2>1. sub[s].pc \in {"bound", "inserted"} /\ sub[s].pc \in InHand
    BY <1>3 DEF RecordWorker, InHand
  <2>2. /\ p = sub[s].prompt /\ i = TrackedId(p) /\ posts[p] = 1
        /\ p \notin overtaken =>
             ResolveAlias(pq, <<p, 1>>) = TrackedId(p) /\ Pending(<<p, 1>>)
    BY <1>0, <1>1, <1>3, <2>1, RecorderFacts, InHandFacts
  <2>3. UNCHANGED <<posts, comfy, events, overtaken>> /\ Settled(s, "ok")
    BY <1>3 DEF RecordWorker
  <2>4. Over(p)'
    <3>1. ASSUME NEW t \in Submitters, sub'[t].prompt = p, sub'[t].pc \in InHand
          PROVE  FALSE
      <4>1. sub[t].prompt = p /\ sub[t].pc \in InHand
        BY <1>0, <2>2, <3>1, HandStays
      <4>2. t = s
        BY <1>0, <2>1, <2>2, <4>1, HandIsAlone
      <4> QED
        BY <1>0, <1>3, <3>1, <4>2, ThroughAfter DEF InHand
    <3> QED
      BY <2>2, <2>3, <3>1 DEF Over
  <2>5. sub'[p].pc = "waiting" => result'[p] = "ok"
    <3>1. CASE s = Drain
      BY <1>0, <2>2, <2>3, <3>1 DEF Settled
    <3>2. CASE s # Drain
      <4>1. s = p
        BY <1>0, <2>2, <3>2, SubFacts DEF Submitters
      <4> QED
        BY <1>0, <1>3, <3>2, <4>1, ThroughAfter
    <3> QED
      BY <3>1, <3>2
  <2>6. Coming(p)' \/ p \in overtaken'
    <3>1. UNCHANGED pq.aliases
      BY <1>0, <1>3, SetWorkerTracks DEF RecordWorker, TypeOK
    <3>2. ResolveAlias(pq', <<p, 1>>) = ResolveAlias(pq, <<p, 1>>)
      BY <3>1 DEF ResolveAlias
    <3>3. Pending(<<p, 1>>) => Pending(<<p, 1>>)'
      BY <2>3 DEF Pending, InComfy
    <3> QED
      BY <2>2, <2>3, <3>2, <3>3 DEF Coming
  <2> QED
    BY <2>2, <2>3, <2>4, <2>5, <2>6
<1>4. ASSUME pq.workerMap[i] # None
      PROVE  /\ i = TrackedId(p) /\ Over(p)' /\ posts'[p] = 1
             /\ sub'[p].pc = "waiting" => result'[p] = "ok"
             /\ Coming(p)' \/ p \in overtaken'
  <2>1. /\ i = TrackedId(p) /\ Over(p) /\ posts[p] = 1
        /\ Coming(p) \/ p \in overtaken
        /\ sub[p].pc = "waiting" => result[p] = "ok"
    BY <1>1, <1>4 DEF TrackInv, Recorded
  <2>2. Over(p)' /\ posts'[p] = 1
    BY <1>0, <2>1, OverStays, PostsStay
  <2>3. sub'[p].pc = "waiting" => result'[p] = "ok"
    BY <1>0, <2>1, WaitingAfter
  <2>4. ~ (ReactorFinish /\ reactor.pid = TrackedId(p))
    BY <1>0, <2>1, UntrackedAfter DEF Untracked
  <2>5. p \in overtaken => p \in overtaken'
    BY <1>0, <2>1, <2>4, StaysOvertaken DEF Over, InHand
  <2>6. Coming(p)' \/ p \in overtaken'
    <3>1. ~ Untracked(TrackedId(p))
      BY <1>4, <2>1 DEF Untracked
    <3>2. ~ (TakeResult(p) /\ result[p] = "err")
      BY <2>1 DEF TakeResult
    <3> QED
      BY <2>1, <2>4, <2>5, <3>1, <3>2, ComingStays
  <2> QED
    BY <2>1, <2>2, <2>3, <2>6
<1> QED
  BY <1>0, <1>3, <1>4, TrackedAfter

(* What takes an accepted prompt out of the queue is replaced by the next  *)
(* thing that does, until the prompt is out of the queue or overtaken.     *)
LEMMA EndingStays ==
  ASSUME TrackInv, AliasSound', RecordersEnd', [Next]_vars,
         NEW p \in Prompts, posts[p] = 1, TrackedId(p) \in pq.queue, Ending(p),
         TrackedId(p) \in pq'.queue
  PROVE  Ending(p)'
<1>0. /\ TypeOK /\ HolderInv /\ EndInv /\ p \in Submitters /\ Drain \in Submitters
      /\ result \in [Prompts -> {"none", "ok", "err"}] /\ p # Drain
  BY SubFacts, ServerAssumption DEF TrackInv, EndInv, HolderInv, TypeOK
<1>1. ~ (TakeResult(p) /\ result[p] = "err")
  <2>1. ASSUME TakeResult(p), result[p] = "err" PROVE FALSE
    <3>1. p \notin Previews /\ p \in Ids
      BY <1>0, <2>1 DEF TakeResult, EndInv, HandsSound, Ids
    <3>2. Untracked(p)'
      BY <1>0, <2>1, <3>1, UntrackedAfter
    <3> QED
      BY <3>1, <3>2 DEF Untracked, TrackedId
  <2> QED
    BY <2>1
<1>2. ~ (ReactorFinish /\ reactor.pid = TrackedId(p))
  BY <1>0, TrackedIdFacts, UntrackedAfter DEF Untracked
<1>3. ASSUME NEW s \in Submitters, sub[s].prompt = p, sub[s].pc = "responded", AnswerLost(s)
      PROVE  Ending(p)'
  <2>1. CASE s = Drain
    <3>1. sub[p].pc = "waiting"
      BY <1>0, <1>3, <2>1 DEF HolderInv, OneHolder
    <3>2. UNCHANGED sub[p] /\ result' = [result EXCEPT ![p] = "err"]
      BY <1>0, <1>3, <2>1, ThroughAfter DEF AnswerLost, SubmitFailed
    <3> QED
      BY <1>0, <3>1, <3>2 DEF Ending
  <2>2. CASE s # Drain
    <3>1. s = p /\ p \in Ids
      BY <1>0, <1>3, <2>2, SubFacts, TrackedIdFacts DEF Submitters
    <3>2. p \notin Previews
      BY <1>3, <3>1, TrackedIdFacts DEF TrackInv, TrackedId
    <3>3. Untracked(p)'
      BY <1>0, <1>3, <3>1, <3>2, UntrackedAfter DEF FailsItself
    <3> QED
      BY <3>2, <3>3 DEF Untracked, TrackedId
  <2> QED
    BY <2>1, <2>2
<1>4. ASSUME NEW s \in Submitters, sub[s].prompt = p, sub[s].pc = "responded", Bind(s)
      PROVE  sub'[s].pc = "bound" /\ sub'[s].prompt = p
  <2>1. p \notin Previews /\ p \in Ids
    BY <1>0, <1>4, BindFacts, TrackedIdFacts
  <2>2. ~ WasDeferred(pq, sub[s].real)
    BY <1>0, <1>4, <2>1, UntrackedAfter DEF Untracked, TrackedId
  <2> QED
    BY <1>0, <1>4, <2>2, AnswerAfter
<1>5. CASE p \in overtaken
  <2>1. ~ \E s \in Submitters : /\ sub[s].prompt = p /\ sub[s].pc = "responded"
                                /\ Bind(s) /\ WasDeferred(pq, sub[s].real)
    BY <1>0, <1>4, AnswerAfter
  <2> QED
    BY <1>0, <1>2, <1>3, <1>5, <2>1, StaysOvertaken DEF Ending
<1>6. CASE Coming(p)
  <2>1. ~ Untracked(TrackedId(p))
    BY DEF Untracked
  <2> QED
    BY <1>1, <1>2, <1>5, <1>6, <2>1, ComingStays DEF Ending
<1>7. ASSUME NEW s \in Submitters, sub[s].prompt = p, sub[s].pc = "responded"
      PROVE  Ending(p)'
  <2>1. CASE UNCHANGED sub[s]
    BY <1>7, <2>1 DEF Ending
  <2>2. CASE Bind(s) \/ InsertPreview(s)
    <3>1. sub'[s].pc \in {"bound", "inserted"} /\ sub'[s].prompt = p
      BY <1>0, <1>4, <1>7, <2>2, AnswerAfter
    <3>2. Coming(p)' \/ p \in overtaken'
      <4>1. \A q : q = sub'[s].prompt => Coming(q)' \/ q \in overtaken'
        BY <3>1 DEF RecordersEnd, Coming, Pending, InComfy
      <4> QED
        BY <3>1, <4>1
    <3> QED
      BY <3>2 DEF Ending
  <2>3. CASE AnswerLost(s)
    BY <1>3, <1>7, <2>3
  <2>4. ASSUME Submit(s), ~ Bind(s), ~ AnswerLost(s), ~ InsertPreview(s) PROVE FALSE
    BY <1>7, <2>4 DEF Submit, SelectIdle, SelectRunning, SelectNone, SelectTimeout,
       PostAccepted, PostFailed, RecordWorker, ReleaseDeferred
  <2>5. ASSUME s \in Prompts, Request(s) \/ Task(s), ~ Submit(s) PROVE FALSE
    BY <1>0, <1>7, <2>5, TaskAfter DEF Request, Task
  <2>6. ASSUME s = Drain, DrainWake PROVE FALSE
    BY <1>7, <2>6 DEF DrainWake
  <2> QED
    BY <1>0, <2>1, <2>2, <2>3, <2>4, <2>5, <2>6, MovedBySelf
<1>8. CASE sub[p].pc = "waiting" /\ result[p] = "err"
  <2>1. UNCHANGED sub[p]
    <3>1. ~ Submit(p)
      BY <1>8 DEF Submit, SelectIdle, SelectRunning, SelectNone, SelectTimeout,
         PostAccepted, PostFailed, AnswerLost, Bind, InsertPreview, RecordWorker,
         ReleaseDeferred
    <3>2. ~ (Request(p) \/ Task(p))
      BY <1>0, <1>1, <1>8, <3>1, TaskAfter DEF Request, Task
    <3> QED
      BY <1>0, <3>1, <3>2, MovedBySelf
  <2>2. result'[p] = result[p]
    BY <1>0, <1>8, ResultAfter DEF HolderInv, OneHolder
  <2> QED
    BY <1>8, <2>1, <2>2 DEF Ending
<1> QED
  BY <1>5, <1>6, <1>7, <1>8 DEF Ending

(* An accepted prompt in the queue has something coming that takes it out, *)
(* unless it is overtaken.                                                 *)
LEMMA QueuedStep ==
  ASSUME TrackInv, AliasSound', RecordersEnd', [Next]_vars,
         NEW p \in Prompts, posts'[p] = 1, TrackedId(p) \in pq'.queue
  PROVE  Ending(p)'
<1>0. /\ TypeOK /\ HolderInv /\ EndInv /\ p \in Submitters
      /\ posts \in [Prompts -> 0..MaxPosts]
      /\ TrackedId(p) \in Ids
  BY SubFacts, TrackedIdFacts DEF TrackInv, EndInv, HolderInv, TypeOK
<1>1. ASSUME NEW s \in Submitters, PostAccepted(s), sub[s].prompt = p
      PROVE  Ending(p)'
  <2>1. sub'[s].prompt = p /\ sub'[s].pc = "responded"
    BY <1>0, <1>1, AnswerAfter
  <2> QED
    BY <2>1 DEF Ending
<1>2. CASE ~ \E s \in Submitters : PostAccepted(s) /\ sub[s].prompt = p
  <2>1. posts[p] = 1
    BY <1>0, <1>2, PostedFirst, PostsKept
  <2>2. ASSUME InsertAndSpawn(p) PROVE FALSE
    BY <2>1, <2>2 DEF InsertAndSpawn, TrackInv, EndInv, HolderInv, OneHolder, Unposted, Fresh
  <2>3. ASSUME NEW s \in Submitters, InsertPreview(s), TrackedId(p) = sub[s].real
        PROVE  Ending(p)'
    <3>1. sub[s].pc \in InHand /\ sub'[s].pc = "inserted" /\ sub'[s].prompt = sub[s].prompt
      BY <1>0, <2>3, AnswerAfter DEF InsertPreview, InHand
    <3>2. PICK q \in Prompts : q = sub[s].prompt /\ sub[s].real = <<q, 1>>
      BY <1>0, <3>1, InHandFacts
    <3>3. q = p
      BY <2>3, <3>2, TrackedIdFacts
    <3>4. Coming(p)' \/ p \in overtaken'
      <4>1. \A x : x = sub'[s].prompt => Coming(x)' \/ x \in overtaken'
        BY <3>1 DEF RecordersEnd, Coming, Pending, InComfy
      <4> QED
        BY <3>1, <3>2, <3>3, <4>1
    <3> QED
      BY <3>4 DEF Ending
  <2>4. CASE TrackedId(p) \in pq.queue
    <3>1. Ending(p)
      BY <2>1, <2>4 DEF TrackInv
    <3> QED
      BY <2>1, <2>4, <3>1, EndingStays
  <2>5. TrackedId(p) \in Prompts => TrackedId(p) = p
    BY TrackedIdFacts DEF TrackedId
  <2> QED
    BY <1>0, <2>2, <2>3, <2>4, <2>5, TrackedAfter
<1> QED
  BY <1>1, <1>2

(* A real id in the queue is one of a preview whose answer is recorded.    *)
LEMMA RealsStepInQueue ==
  ASSUME TrackInv, [Next]_vars, NEW r \in Reals, r \in pq'.queue
  PROVE  Issued(r)' /\ sub'[JobOf(r)].pc # "responded"
<1>0. /\ TypeOK /\ HolderInv /\ EndInv /\ r \in Ids /\ r \notin Prompts
  BY IdsAssumption DEF TrackInv, EndInv, HolderInv, Ids
<1>1. PICK p \in Prompts : p = JobOf(r) /\ p \in Submitters /\ sub'[p].prompt = p
  <2>1. TypeOK'
    BY <1>0, NextType
  <2> QED
    BY <1>0, <2>1, JobType, SubFacts DEF TypeOK
<1>2. CASE r \in pq.queue
  <2>1. Issued(r) /\ sub[p].pc # "responded"
    BY <1>1, <1>2 DEF TrackInv
  <2>2. posts[p] = 1
    BY <1>1, <2>1 DEF Issued, JobOf
  <2>3. sub'[p].pc # "responded"
    BY <1>0, <1>1, <2>1, <2>2, HandStays DEF InHand
  <2> QED
    BY <1>0, <1>1, <2>1, <2>3, IssuedStays
<1>3. ASSUME NEW s \in Submitters, InsertPreview(s), r = sub[s].real
      PROVE  Issued(r)' /\ sub'[p].pc # "responded"
  <2>1. sub[s].pc \in InHand /\ s \in Previews /\ sub'[s].pc = "inserted"
    BY <1>0, <1>3, AnswerAfter DEF InsertPreview, InHand
  <2>2. Issued(r)
    BY <1>0, <1>3, <2>1 DEF EndInv, IssuedSound
  <2>3. s = p
    <3>1. PICK q \in Prompts : q = sub[s].prompt /\ r = <<q, 1>> /\ s = q
      BY <1>0, <1>3, <2>1, InHandFacts
    <3> QED
      BY <1>1, <3>1, TrackedIdFacts
  <2> QED
    BY <1>0, <2>1, <2>2, <2>3, IssuedStays
<1> QED
  BY <1>0, <1>1, <1>2, <1>3, TrackedAfter

(* Every step keeps what is tracked on its way to its end.                 *)
LEMMA TrackStep == TrackInv /\ [Next]_vars => TrackInv'
<1>1. TrackInv /\ [Next]_vars => EndInv' /\ AliasSound' /\ HandsKept'
  <2> SUFFICES ASSUME TrackInv, [Next]_vars PROVE EndInv' /\ AliasSound' /\ HandsKept'
    OBVIOUS
  <2>1. EndInv /\ AliasSound
    BY DEF TrackInv
  <2> QED
    BY <2>1, EndStep, AliasSoundStep, HandsKeptStep
<1>2. TrackInv /\ [Next]_vars => RecordersEnd'
  BY <1>1, RecorderEnds, PTL
<1>3. SUFFICES ASSUME TrackInv, [Next]_vars PROVE TrackInv'
  OBVIOUS
<1>4. EndInv' /\ AliasSound' /\ HandsKept' /\ RecordersEnd'
  BY <1>1, <1>2, <1>3
<1>5. \A i \in Ids : pq'.workerMap[i] # None => Recorded(i)'
  BY <1>3, <1>4, RecordedStep
<1>6. \A p \in Prompts : posts'[p] = 1 /\ TrackedId(p) \in pq'.queue => Ending(p)'
  BY <1>3, <1>4, QueuedStep
<1>7. \A r \in Reals : r \in pq'.queue => Issued(r)' /\ sub'[JobOf(r)].pc # "responded"
  BY <1>3, RealsStepInQueue
<1>8. \A p \in Prompts : Ended(p)' => Dropped(p)'
  BY <1>3, EndedStep
<1> QED
  BY <1>4, <1>5, <1>6, <1>7, <1>8 DEF TrackInv

(* Initially nothing is tracked.                                           *)
LEMMA InitTrack == Init => TrackInv
<1> SUFFICES ASSUME Init PROVE TrackInv
  OBVIOUS
<1>1. EndInv
  BY InitEnds
<1>2. \A s \in Submitters : sub[s].pc \in {"new", "idle"}
  BY DEF Init, At
<1>3. /\ \A i \in Ids : pq.workerMap[i] = None
      /\ \A r \in Reals : pq.aliases[r] = None
      /\ pq.queue = {} /\ aliasGC = {} /\ reactor.pc = "recv"
  BY DEF Init, EmptyQueue, Receiving
<1>4. AliasSound /\ HandsKept
  BY <1>2, <1>3 DEF AliasSound, HandsKept, InHand
<1>5. \A p \in Prompts : ~ Ended(p)
  BY <1>2, <1>3 DEF Ended
<1> QED
  BY <1>1, <1>3, <1>4, <1>5 DEF TrackInv

(* Every accepted prompt in the queue has something coming that takes it   *)
(* out, whichever of its answer and its completion comes first: no entry   *)
(* is left behind that would hold its user's next request forever, unless  *)
(* the completion was missed.                                              *)
THEOREM AcceptedComesOut == Spec => []AcceptedEnds
<1>1. Spec => []PostedAtMostOnce
  BY NeverPostedTwice
<1>2. TrackInv /\ PostedAtMostOnce => AcceptedEnds
  <2> SUFFICES ASSUME TrackInv, PostedAtMostOnce,
                      NEW p \in Prompts, posts[p] > 0, TrackedId(p) \in pq.queue
               PROVE  \/ OnItsWay(TrackedId(p))
                      \/ \E s \in Submitters : sub[s].prompt = p /\ sub[s].pc = "responded"
                      \/ sub[p].pc = "waiting" /\ result[p] = "err"
                      \/ Missed(p)
    BY DEF AcceptedEnds
  <2>1. posts[p] \in 0..MaxPosts /\ posts[p] <= 1
    BY DEF TrackInv, EndInv, HolderInv, TypeOK, PostedAtMostOnce
  <2>2. posts[p] = 1
    BY <2>1, BoundsAssumption
  <2>3. Ending(p)
    BY <2>2 DEF TrackInv
  <2>4. Coming(p) => OnItsWay(TrackedId(p))
    BY TrackedIdFacts DEF Coming, Pending, OnItsWay
  <2> QED
    BY <2>3, <2>4 DEF Ending, Missed
<1> QED
  BY <1>1, <1>2, InitTrack, TrackStep, PTL DEF Spec

-----------------------------------------------------------------------------
(* Who gives a worker back. *)

(* The methods of the GpuManager change one worker's reservation.          *)
LEMMA ReservedAfter ==
  ASSUME NEW g \in GpuType(Workers), NEW v \in Workers, NEW w \in Workers
  PROVE  /\ ReserveAndRun(g, v).reserved[w] => g.reserved[w] \/ w = v
         /\ \A x : ReleaseAs(g, v, x).reserved[w] => g.reserved[w] /\ w # v
         /\ MarkWorkerIdle(g, v).reserved[w] => g.reserved[w] /\ w # v
         /\ MarkWorkerErrorThenIdle(g, v).reserved[w] => g.reserved[w] /\ w # v
<1>1. ReserveAndRun(g, v).reserved[w] => g.reserved[w] \/ w = v
  BY DEF GpuType, ReserveAndRun
<1>2. \A x : ReleaseAs(g, v, x).reserved[w] => g.reserved[w] /\ w # v
  BY DEF GpuType, ReleaseAs
<1> QED
  BY <1>1, <1>2 DEF MarkWorkerIdle, MarkWorkerErrorThenIdle

(* A worker is reserved by the submitter that has chosen it; a submitter   *)
(* that gives up under its own reservation gives it back, and so do the    *)
(* reactor and the watchdog.                                               *)
LEMMA GpuAfter ==
  ASSUME TypeOK, [Next]_vars, NEW w \in Workers, gpu'.reserved[w]
  PROVE  /\ \/ gpu.reserved[w]
            \/ \E s \in Submitters : SelectIdle(s) /\ sub'[s].worker = w
         /\ \A s \in Submitters :
              PostFailed(s) \/ AnswerLost(s) => ~ (sub[s].exclusive /\ sub[s].worker = w)
         /\ \A s \in Submitters : ReleaseDeferred(s) => sub[s].worker # w
         /\ ReactorRelease => reactor.worker # w
<1>0. gpu \in GpuType(Workers) /\ \A s \in Submitters : SubmissionOK(sub[s])
  BY DEF TypeOK
<1>1. ASSUME NEW s \in Submitters, PostFailed(s) \/ AnswerLost(s)
      PROVE  gpu.reserved[w] /\ ~ (sub[s].exclusive /\ sub[s].worker = w)
  <2>1. CASE ~ sub[s].exclusive
    BY <1>1, <2>1 DEF PostFailed, AnswerLost
  <2>2. CASE sub[s].exclusive
    <3>1. PICK v \in Workers : v = sub[s].worker
      BY <1>0, <1>1 DEF PostFailed, AnswerLost, SubmissionOK
    <3>2. \/ \E x : gpu' = ReleaseAs(gpu, v, x)
          \/ gpu' = MarkWorkerIdle(gpu, v)
      BY <1>1, <2>2, <3>1 DEF PostFailed, AnswerLost
    <3> QED
      BY <1>0, <3>1, <3>2, ReservedAfter
  <2> QED
    BY <2>1, <2>2
<1>2. ASSUME NEW s \in Submitters, ReleaseDeferred(s)
      PROVE  gpu.reserved[w] /\ sub[s].worker # w
  <2>1. PICK v \in Workers : v = sub[s].worker
    BY <1>0, <1>2 DEF ReleaseDeferred, SubmissionOK
  <2>2. gpu' = MarkWorkerErrorThenIdle(gpu, v)
    BY <1>2, <2>1 DEF ReleaseDeferred
  <2> QED
    BY <1>0, <2>1, <2>2, ReservedAfter
<1>3. ASSUME ReactorRelease PROVE gpu.reserved[w] /\ reactor.worker # w
  <2>1. PICK v \in Workers : v = reactor.worker
    BY <1>3 DEF ReactorRelease, TypeOK
  <2>2. gpu' = MarkWorkerIdle(gpu, v) \/ gpu' = MarkWorkerErrorThenIdle(gpu, v)
    BY <1>3, <2>1 DEF ReactorRelease
  <2> QED
    BY <1>0, <2>1, <2>2, ReservedAfter
<1>4. ASSUME NEW v \in Workers, Watchdog(v) PROVE gpu.reserved[w]
  <2>1. gpu' = MarkWorkerIdle(gpu, v)
    BY <1>4 DEF Watchdog
  <2> QED
    BY <1>0, <2>1, ReservedAfter
<1>5. ASSUME NEW s \in Submitters, SelectIdle(s)
      PROVE  gpu.reserved[w] \/ sub'[s].worker = w
  <2>1. gpu' = ReserveAndRun(gpu, sub'[s].worker) /\ sub'[s].pc = "posting"
    BY <1>5, SelectAfter
  <2>2. PICK v \in Workers : v = sub'[s].worker
    <3>1. SubmissionOK(sub'[s])
      BY NextType DEF TypeOK, SubmissionOK
    <3> QED
      BY <2>1, <3>1 DEF SubmissionOK
  <2> QED
    BY <1>0, <2>1, <2>2, ReservedAfter
<1>6. \/ UNCHANGED gpu
      \/ \E s \in Submitters : SelectIdle(s) \/ PostFailed(s) \/ AnswerLost(s) \/ ReleaseDeferred(s)
      \/ ReactorRelease
      \/ \E v \in Workers : Watchdog(v)
  <2>1. ASSUME NEW s \in Submitters, Submit(s)
        PROVE  \/ UNCHANGED gpu
               \/ SelectIdle(s) \/ PostFailed(s) \/ AnswerLost(s) \/ ReleaseDeferred(s)
    BY <2>1 DEF Submit, SelectRunning, SelectNone, SelectTimeout, PostAccepted, Bind,
                InsertPreview, RecordWorker
  <2>2. ASSUME NEW p \in Prompts, Request(p) \/ Task(p), ~ Submit(p) PROVE UNCHANGED gpu
    BY <2>2 DEF Request, Task, CheckHold, InsertAndSpawn, HoldPrompt, SubmitDirectly,
                SubmitPreview, TakeResult
  <2>3. CASE \/ DrainWake \/ AliasCleanup \/ UNCHANGED vars
             \/ CleanupReactor /\ ~ ReactorRelease
             \/ \E v \in Workers : ExecutionEnds(v)
    BY <2>3 DEF DrainWake, AliasCleanup, vars, CleanupReactor, ReactorRecv, ReactorFinish,
                ReactorPark, ExecutionEnds
  <2> QED
    BY <2>1, <2>2, <2>3, SubFacts DEF Next, Serve, Task, DrainReactor
<1>7. UNCHANGED gpu => gpu.reserved[w]
  OBVIOUS
<1> QED
  BY <1>1, <1>2, <1>3, <1>4, <1>5, <1>6, <1>7

(* Somebody gives w back, or it is recorded for a prompt.                  *)
Watched(w) ==
  \/ \E s \in Submitters : Holds(s, w)
  \/ \E i \in Ids : pq.workerMap[i] = w
  \/ reactor.pc = "release" /\ reactor.worker = w

(* The submitter that holds a worker keeps it, gives it back or records    *)
(* its prompt for it.                                                      *)
LEMMA HolderWatches ==
  ASSUME TrackInv, [Next]_vars, NEW w \in Workers, gpu'.reserved[w],
         NEW s \in Submitters, Holds(s, w)
  PROVE  Watched(w)'
<1>0. TypeOK /\ EndInv /\ pq \in QueueType
  BY DEF TrackInv, EndInv, HolderInv, TypeOK
<1>1. CASE UNCHANGED sub[s]
  BY <1>1 DEF Watched, Holds
<1>2. CASE PostAccepted(s) \/ Bind(s) \/ InsertPreview(s)
  <2>1. /\ sub'[s].exclusive /\ sub'[s].worker = w
        /\ sub'[s].pc \in {"responded", "bound", "deferred", "inserted"}
    BY <1>0, <1>2, AnswerAfter DEF Holds
  <2> QED
    BY <2>1 DEF Watched, Holds
<1>3. CASE RecordWorker(s)
  <2>1. sub[s].pc \in {"bound", "inserted"} /\ sub[s].worker = w
    BY <1>3 DEF RecordWorker, Holds
  <2>2. PICK p \in Prompts : p = sub[s].prompt
    BY <1>0, <2>1, InHandFacts DEF InHand
  <2>3. PICK i \in Ids : i = RecordedId(s)
    BY <2>1, <2>2, RecorderFacts, TrackedIdFacts DEF TrackInv
  <2>4. pq' = SetWorker(pq, i, w)
    BY <1>3, <2>1, <2>3 DEF RecordWorker, RecordedId
  <2>5. pq'.workerMap[i] = w
    BY <1>0, <2>4, SetWorkerTracks
  <2> QED
    BY <2>5 DEF Watched
<1>4. CASE PostFailed(s) \/ AnswerLost(s) \/ ReleaseDeferred(s)
  BY <1>0, <1>4, GpuAfter DEF Holds
<1>5. CASE SelectIdle(s) \/ SelectRunning(s) \/ SelectNone(s) \/ SelectTimeout(s)
  BY <1>5 DEF Holds, SelectIdle, SelectRunning, SelectNone, SelectTimeout
<1>6. ASSUME s \in Prompts, Request(s) \/ Task(s), ~ Submit(s) PROVE FALSE
  BY <1>0, <1>6, TaskAfter DEF Request, Task, Holds
<1>7. ASSUME DrainWake, s = Drain PROVE FALSE
  BY <1>7 DEF DrainWake, Holds
<1> QED
  BY <1>0, <1>1, <1>2, <1>3, <1>4, <1>5, <1>6, <1>7, MovedBySelf DEF Submit

(* The record of a worker stays until the reactor has taken it.            *)
LEMMA RecordWatches ==
  ASSUME TrackInv, [Next]_vars, NEW w \in Workers, NEW i \in Ids, pq.workerMap[i] = w
  PROVE  Watched(w)'
<1>0. TypeOK /\ EndInv /\ HolderInv /\ w # None
  BY IdsAssumption DEF TrackInv, EndInv, HolderInv
<1>1. PICK p \in Prompts : p = JobId(i)
  BY JobType DEF JobId, Ids
<1>2. /\ i = TrackedId(p) /\ Over(p) /\ posts[p] = 1
      /\ sub[p].pc = "waiting" => result[p] = "ok"
  BY <1>0, <1>1 DEF TrackInv, Recorded
<1>3. CASE pq'.workerMap[i] = w
  BY <1>3 DEF Watched
<1>4. ASSUME NEW s \in Submitters, RecordWorker(s), i = RecordedId(s) PROVE FALSE
  <2>1. sub[s].pc \in {"bound", "inserted"}
    BY <1>4 DEF RecordWorker
  <2>2. p = sub[s].prompt
    BY <1>0, <1>1, <1>4, <2>1, RecorderFacts DEF TrackInv
  <2> QED
    BY <1>2, <2>1, <2>2 DEF Over, InHand
<1>5. ASSUME i \in Prompts, FailsItself(i) PROVE FALSE
  <2>1. p = i /\ i \in Submitters /\ sub[i].prompt = i
    BY <1>0, <1>1, <1>5, SubFacts DEF JobId
  <2>2. sub[i].pc \in {"waitWorker", "posting", "responded"}
    BY <1>5 DEF FailsItself, SelectTimeout, PostFailed, AnswerLost
  <2>3. sub[i].pc \notin Unposted
    BY <1>0, <1>2, <2>1 DEF HolderInv, OneHolder, Fresh
  <2> QED
    BY <1>2, <2>1, <2>2, <2>3 DEF Over, InHand, Unposted
<1>6. ASSUME i \in Prompts, TakeResult(i), result[i] = "err" PROVE FALSE
  <2>1. p = i
    BY <1>1, <1>6 DEF JobId
  <2> QED
    BY <1>2, <1>6, <2>1 DEF TakeResult
<1>7. ASSUME NEW s \in Submitters, Bind(s), i = sub[s].prompt PROVE FALSE
  <2>1. sub[s].pc \in InHand /\ JobId(i) = i
    BY <1>0, <1>7, BindFacts DEF JobId
  <2> QED
    BY <1>1, <1>2, <1>7, <2>1 DEF Over
<1>8. CASE ReactorFinish /\ i = reactor.pid
  <2>1. reactor' = [reactor EXCEPT !.pc = "release", !.worker = w]
    BY <1>0, <1>8 DEF ReactorFinish
  <2>2. reactor \in Reaction
    BY <1>0 DEF TypeOK
  <2>3. reactor'.pc = "release" /\ reactor'.worker = w
    BY <2>1, <2>2 DEF Reaction
  <2> QED
    BY <2>3 DEF Watched
<1> QED
  BY <1>0, <1>3, <1>4, <1>5, <1>6, <1>7, <1>8, TrackedAfter

(* The reactor keeps the worker until it has released it.                  *)
LEMMA ReactorWatches ==
  ASSUME TypeOK, [Next]_vars, NEW w \in Workers, gpu'.reserved[w],
         reactor.pc = "release", reactor.worker = w
  PROVE  Watched(w)'
<1>1. ~ ReactorRelease
  BY GpuAfter
<1>2. ~ ReactorRecv /\ ~ ReactorFinish /\ ~ ReactorPark
  BY DEF ReactorRecv, ReactorFinish, ReactorPark
<1>3. UNCHANGED reactor
  BY <1>1, <1>2, ReactorAfter
<1> QED
  BY <1>3 DEF Watched

(* Every reserved worker has somebody who gives it back, also when prompts *)
(* share it and when its completion comes before the answer; if that is    *)
(* the end of the prompt recorded for it, that end is on its way, unless   *)
(* it was missed: but for these the watchdog is not needed.                *)
THEOREM ReservationsAreWatched == Spec => []ReservationIsWatched
<1> DEFINE AllWatched == \A w \in Workers : gpu.reserved[w] => Watched(w)
           Inv == TrackInv /\ AllWatched
<1>1. Init => Inv
  <2>1. ASSUME Init PROVE AllWatched
    BY <2>1 DEF Init, AllIdle
  <2> QED
    BY <2>1, InitTrack
<1>2. Inv /\ [Next]_vars => Inv'
  <2> SUFFICES ASSUME TrackInv, AllWatched, [Next]_vars, NEW w \in Workers, gpu'.reserved[w]
               PROVE  Watched(w)'
    BY TrackStep
  <2>0. TypeOK
    BY DEF TrackInv, EndInv, HolderInv
  <2>1. CASE gpu.reserved[w]
    BY <2>0, <2>1, HolderWatches, RecordWatches, ReactorWatches DEF Watched
  <2>2. ASSUME NEW s \in Submitters, SelectIdle(s), sub'[s].worker = w PROVE Watched(w)'
    <3>1. sub'[s].pc = "posting" /\ sub'[s].exclusive
      BY <2>0, <2>2, SelectAfter
    <3> QED
      BY <2>2, <3>1 DEF Watched, Holds
  <2> QED
    BY <2>0, <2>1, <2>2, GpuAfter
<1>3. Inv => ReservationIsWatched
  <2> SUFFICES ASSUME TrackInv, AllWatched, NEW w \in Workers, gpu.reserved[w]
               PROVE  \/ \E s \in Submitters : Holds(s, w)
                      \/ \E i \in Ids : pq.workerMap[i] = w /\ OnItsWay(i)
                      \/ reactor.pc = "release" /\ reactor.worker = w
                      \/ Forgotten(w)
    BY DEF ReservationIsWatched
  <2>1. ASSUME NEW i \in Ids, pq.workerMap[i] = w PROVE OnItsWay(i) \/ Forgotten(w)
    <3>1. PICK p \in Prompts : p = JobId(i)
      BY JobType DEF JobId, Ids
    <3>2. i = TrackedId(p) /\ Over(p) /\ (Coming(p) \/ p \in overtaken)
      BY <2>1, <3>1, IdsAssumption DEF TrackInv, Recorded
    <3>3. Coming(p) => OnItsWay(i)
      BY <3>2, TrackedIdFacts DEF Coming, Pending, OnItsWay
    <3>4. p \in overtaken => Forgotten(w)
      BY <2>1, <3>2 DEF Over, InHand, Missed, Forgotten
    <3> QED
      BY <3>2, <3>3, <3>4
  <2> QED
    BY <2>1 DEF Watched
<1> HIDE DEF Inv
<1> QED
  BY <1>1, <1>2, <1>3, PTL DEF Spec

=============================================================================

----------------------------- MODULE PromptQueue -----------------------------
(***************************************************************************)
(* The PromptQueue of src-tauri/src/state.rs as a data type: a record pq   *)
(* of its maps and lists, and one operator per method, from a state of the *)
(* queue to the state the method leaves.  A method takes one lock after    *)
(* the other; here each call is one step.  The display order of the queue  *)
(* (insert's fair position, the reordering) is not in this module: queue   *)
(* is the set of tracked ids.                                              *)
(*                                                                         *)
(* A generate request gets a placeholder id, an element of Prompts; what   *)
(* ComfyUI accepts for it gets a fresh real id, the pair of the request    *)
(* and the number of the post.  A preview is a request whose own id is its *)
(* real id: it is submitted first and inserted afterwards.                 *)
(***************************************************************************)
EXTENDS Integers, Sequences, FiniteSets, SeqRetain

CONSTANTS
  Prompts,      \* the requests, each named by its placeholder id
  Users,        \* the named accounts
  Admin,        \* the admin or local user, `None` in the code
  UserOf,       \* who sent each request
  Workers,      \* the GPU workers
  MaxPosts,     \* bound: how often one request is posted to ComfyUI
  DeferredCap,  \* DEFERRED_FINISH_CAP
  None          \* no entry in a map, no worker, no id

Owners == Users \cup {Admin}
Reals == Prompts \X (1..MaxPosts)
Ids == Prompts \cup Reals

(* The request a ComfyUI id was issued for. *)
JobOf(r) == r[1]

ASSUME OwnersAssumption ==
  /\ UserOf \in [Prompts -> Owners]
  /\ Admin \notin Users
  /\ None \notin Owners

ASSUME IdsAssumption ==
  /\ Prompts \cap Reals = {}
  /\ None \notin Ids
  /\ None \notin Workers

ASSUME BoundsAssumption == MaxPosts \in Nat \ {0} /\ DeferredCap \in Nat \ {0}

(* A prompt of the fair queue that waits to be submitted.  The task that   *)
(* pushed it awaits its result slot; nobody awaits one that was held again *)
(* by a reorder.                                                           *)
HeldPrompt == [prompt : Prompts, awaited : BOOLEAN]

QueueType ==
  [owners    : [Ids -> Owners \cup {None}],
   workerMap : [Ids -> Workers \cup {None}],
   queue     : SUBSET Ids,
   held      : Seq(HeldPrompt),
   aliases   : [Reals -> Prompts \cup {None}],
   deferred  : Seq(Reals),
   cancelled : SUBSET Ids]

EmptyQueue ==
  [owners    |-> [i \in Ids |-> None],
   workerMap |-> [i \in Ids |-> None],
   queue     |-> {},
   held      |-> <<>>,
   aliases   |-> [r \in Reals |-> None],
   deferred  |-> <<>>,
   cancelled |-> {}]

-----------------------------------------------------------------------------
(* Ids and owners. *)

(* The user an id was inserted for: the username of its queue entry. *)
UserOfId(i) == IF i \in Prompts THEN UserOf[i] ELSE UserOf[JobOf(i)]

ResolveAlias(pq, i) ==
  IF i \in Reals /\ pq.aliases[i] # None THEN pq.aliases[i] ELSE i

(* A fault to test with: an untracked prompt is everybody's. *)
IsOwnedByOrUntracked(pq, i, u) == u = Admin \/ pq.owners[i] \in {u, None}

(* May user u see what happens to the prompt i? *)
IsOwnedBy(pq, i, u) == u = Admin \/ pq.owners[i] = u

(* Entries of the queue that are not held: saturating_sub keeps it at 0. *)
ActiveCountForUser(pq, u) ==
  LET queued == Cardinality({i \in pq.queue : UserOfId(i) = u})
      holding == Cardinality({k \in 1..Len(pq.held) :
                                UserOf[pq.held[k].prompt] = u})
  IN  IF queued > holding THEN queued - holding ELSE 0

-----------------------------------------------------------------------------
(* Tracking a prompt from its insertion to its end. *)

Insert(pq, i) ==
  [pq EXCEPT !.owners[i] = UserOfId(i), !.queue = @ \cup {i}]

SetWorker(pq, i, w) == [pq EXCEPT !.workerMap[i] = w]

(* A fault to test with: the entry of the queue is left behind. *)
FinishInMapsOnly(pq, i) == [pq EXCEPT !.workerMap[i] = None]

(* finish returns pq.workerMap[i] and keeps the owner of i. *)
Finish(pq, i) == [pq EXCEPT !.workerMap[i] = None, !.queue = @ \ {i}]

Hold(pq, p) ==
  [pq EXCEPT !.held = Append(@, [prompt |-> p, awaited |-> TRUE])]

(* A fault to test with: the prompt is copied instead of taken. *)
PeekNextHeld(pq) == pq

(* take_next_held takes Head(pq.held) off the list. *)
DropNextHeld(pq) == [pq EXCEPT !.held = Tail(@)]

WasDeferred(pq, r) == r \in Elems(pq.deferred)

(* A fault to test with: a parked finish is dropped. *)
BindAliasOnly(pq, p, r) ==
  [pq EXCEPT !.aliases[r] = p,
             !.owners[r] = IF pq.owners[p] = None THEN Admin ELSE pq.owners[p],
             !.deferred = Without(@, {r})]

(* Binding the id ComfyUI answered with.  The owner is copied to the real  *)
(* id, `flatten` making an unknown owner the admin.  A finish that was     *)
(* parked for this id is consumed: it ends the placeholder.                *)
BindAlias(pq, p, r) ==
  LET owner == IF pq.owners[p] = None THEN Admin ELSE pq.owners[p]
      bound == [pq EXCEPT !.aliases[r] = p,
                          !.owners[r] = owner,
                          !.deferred = Without(@, {r})]
  IN  IF WasDeferred(pq, r)
      THEN [bound EXCEPT !.workerMap[p] = None,
                         !.queue = @ \ {p},
                         !.owners[p] = None]
      ELSE bound

(* Only ids the queue has never seen are parked, by their unresolved id.   *)
(* The ids in expired are past DEFERRED_FINISH_TTL; the oldest one is      *)
(* dropped when the map is full.  HashMap::insert replaces an entry.       *)
KnownId(pq, i) ==
  \/ i \in Reals /\ pq.aliases[i] # None
  \/ pq.owners[i] # None

ParkDeferredFinish(pq, r, expired) ==
  LET fresh == Without(pq.deferred, expired)
      room  == IF Len(fresh) >= DeferredCap THEN Tail(fresh) ELSE fresh
  IN  IF KnownId(pq, r) THEN pq
      ELSE [pq EXCEPT !.deferred = Append(Without(room, {r}), r)]

CleanupAlias(pq, p) ==
  [pq EXCEPT !.aliases = [r \in Reals |-> IF @[r] = p THEN None ELSE @[r]],
             !.cancelled = @ \ {p}]

=============================================================================

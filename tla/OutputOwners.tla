----------------------------- MODULE OutputOwners -----------------------------
(***************************************************************************)
(* Who may fetch an output file, over the life of the process and over     *)
(* restarts: the reactor records the files of an `executed` event, a       *)
(* submitter binds a prompt to its account and hands it the files recorded *)
(* before, and the map is saved behind a dirty flag and loaded again when  *)
(* the process comes back.                                                 *)
(*                                                                         *)
(* The wall clock and the monotonic clock run alike: their jumps against   *)
(* each other are left out.                                                *)
(***************************************************************************)
EXTENDS OwnerMap

CONSTANTS
  SenderOf,    \* the account that sent each prompt, NoOne for the admin
  Flushers,    \* the callers of flush: the periodic saver, the shutdown
  TTL,         \* OUTPUT_OWNER_TTL
  MountedFile, \* TRUE: the file cannot be replaced by rename and is written in place
  MaxClock,    \* bound: the clock
  MaxSeq,      \* bound: records made by one process
  MaxFaults,   \* bound: failed saves
  MaxRestarts  \* bound: restarts

ASSUME OwnersAssumption ==
  /\ SenderOf \in [Jobs -> Accounts \cup {NoOne}]
  /\ TTL \in Nat \ {0}
  /\ MountedFile \in BOOLEAN
  /\ MaxClock \in Nat /\ MaxSeq \in Nat /\ MaxFaults \in Nat /\ MaxRestarts \in Nat

VARIABLES
  map,       \* the OwnerMap of the process
  dirty,     \* whether the map changed since it was last saved
  file,      \* what the saved file holds; nothing when missing or corrupt
  flush,     \* where each caller of flush is, and the snapshot it writes
  recorder,  \* the reactor between two steps of recording a file
  bind,      \* where each prompt's submitter is
  ownerOf,   \* the owner the PromptQueue has for each ComfyUI id
  loading,   \* what enable_persistence still has to restore
  clock, faults, restarts

vars == <<map, dirty, file, flush, recorder, bind, ownerOf, loading, clock,
          faults, restarts>>

(* rank stands for the place in the file, oldest first. *)
PersistedOutput == [key : Keys, prompt : Jobs, owner : Accounts \cup {NoOne},
                    recorded : Nat, rank : Nat]

FlushPC == {"idle", "snapshot", "write", "inPlace"}

TypeOK ==
  /\ map \in MapType
  /\ dirty \in BOOLEAN
  /\ file \in SUBSET PersistedOutput
  /\ flush \in [Flushers -> [pc : FlushPC, snap : SUBSET PersistedOutput]]
  /\ recorder \in [pc : {"idle"}] \cup
                  [pc : {"insert"}, prompt : Jobs, key : Keys,
                   owner : Accounts \cup {NoOne}] \cup
                  [pc : {"mark"}]
  /\ bind \in [Jobs -> {"posted", "assign", "mark", "bound", "lost"}]
  /\ ownerOf \in [Jobs -> Accounts \cup {NoOne}]
  /\ loading \in SUBSET PersistedOutput
  /\ clock \in 0..MaxClock
  /\ faults \in 0..MaxFaults
  /\ restarts \in 0..MaxRestarts

Init ==
  /\ map = EmptyMap
  /\ dirty = FALSE
  /\ file = {}
  /\ flush = [f \in Flushers |-> [pc |-> "idle", snap |-> {}]]
  /\ recorder = [pc |-> "idle"]
  /\ bind = [p \in Jobs |-> "posted"]
  /\ ownerOf = [p \in Jobs |-> NoOne]
  /\ loading = {}
  /\ clock = 0
  /\ faults = 0
  /\ restarts = 0

(* The process has finished enable_persistence. *)
Running == loading = {}

-----------------------------------------------------------------------------
(* record_output_owners: the owner is read from the PromptQueue, the       *)
(* record inserted, and the map marked as dirty once it is unlocked.       *)

ReadOwner(p, k) ==
  /\ Running
  /\ recorder.pc = "idle"
  /\ map.nextSeq < MaxSeq
  /\ recorder' = [pc |-> "insert", prompt |-> p, key |-> k, owner |-> ownerOf[p]]
  /\ UNCHANGED <<map, dirty, file, flush, bind, ownerOf, loading, clock, faults,
                 restarts>>

Record ==
  /\ Running
  /\ recorder.pc = "insert"
  /\ map' = InsertRecord(map, recorder.key, recorder.prompt, recorder.owner,
                         clock + TTL, clock, clock)
  /\ recorder' = [pc |-> "mark"]
  /\ UNCHANGED <<dirty, file, flush, bind, ownerOf, loading, clock, faults, restarts>>

MarkRecorded ==
  /\ Running
  /\ recorder.pc = "mark"
  /\ dirty' = TRUE
  /\ recorder' = [pc |-> "idle"]
  /\ UNCHANGED <<map, file, flush, bind, ownerOf, loading, clock, faults, restarts>>

-----------------------------------------------------------------------------
(* bind_prompt_alias. *)

BindOwner(p) ==
  /\ Running
  /\ bind[p] = "posted"
  /\ ownerOf' = [ownerOf EXCEPT ![p] = SenderOf[p]]
  /\ bind' = [bind EXCEPT ![p] = IF SenderOf[p] = NoOne THEN "bound" ELSE "assign"]
  /\ UNCHANGED <<map, dirty, file, flush, recorder, loading, clock, faults, restarts>>

Assign(p) ==
  /\ Running
  /\ bind[p] = "assign"
  /\ map' = AssignOwner(map, p, ownerOf[p])
  /\ bind' = [bind EXCEPT ![p] = IF Unassigned(map.entries, p) = {} THEN "bound"
                                                                    ELSE "mark"]
  /\ UNCHANGED <<dirty, file, flush, recorder, ownerOf, loading, clock, faults,
                 restarts>>

MarkAssigned(p) ==
  /\ Running
  /\ bind[p] = "mark"
  /\ dirty' = TRUE
  /\ bind' = [bind EXCEPT ![p] = "bound"]
  /\ UNCHANGED <<map, file, flush, recorder, ownerOf, loading, clock, faults, restarts>>

-----------------------------------------------------------------------------
(* flush, under save_lock: dirty is cleared, the unexpired entries are     *)
(* copied, and the copy replaces the file.                                 *)

Saved(k) == [key |-> k, prompt |-> map.entries[k].prompt, owner |-> map.entries[k].owner,
             recorded |-> map.entries[k].recorded, rank |-> map.entries[k].seq]

(* A fault to test with: two callers of flush save at the same time. *)
SwapDirtyUnlocked(f) ==
  /\ Running
  /\ flush[f].pc = "idle"
  /\ dirty
  /\ dirty' = FALSE
  /\ flush' = [flush EXCEPT ![f].pc = "snapshot"]
  /\ UNCHANGED <<map, file, recorder, bind, ownerOf, loading, clock, faults, restarts>>

SwapDirty(f) ==
  /\ Running
  /\ \A g \in Flushers : flush[g].pc = "idle"
  /\ dirty
  /\ dirty' = FALSE
  /\ flush' = [flush EXCEPT ![f].pc = "snapshot"]
  /\ UNCHANGED <<map, file, recorder, bind, ownerOf, loading, clock, faults, restarts>>

Snapshot(f) ==
  /\ Running
  /\ flush[f].pc = "snapshot"
  /\ flush' = [flush EXCEPT
                 ![f] = [pc |-> "write",
                         snap |-> {Saved(k) : k \in {j \in Keys : LookupHits(map, j, clock)}}]]
  /\ UNCHANGED <<map, dirty, file, recorder, bind, ownerOf, loading, clock, faults,
                 restarts>>

FlushEnds(f) == flush' = [flush EXCEPT ![f] = [pc |-> "idle", snap |-> {}]]

(* The staged copy is renamed over the file. *)
Rename(f) ==
  /\ Running
  /\ ~ MountedFile
  /\ flush[f].pc = "write"
  /\ file' = flush[f].snap
  /\ FlushEnds(f)
  /\ UNCHANGED <<map, dirty, recorder, bind, ownerOf, loading, clock, faults, restarts>>

(* Where rename is refused the file is truncated, then written. *)
Truncate(f) ==
  /\ Running
  /\ MountedFile
  /\ flush[f].pc = "write"
  /\ file' = {}
  /\ flush' = [flush EXCEPT ![f].pc = "inPlace"]
  /\ UNCHANGED <<map, dirty, recorder, bind, ownerOf, loading, clock, faults, restarts>>

WriteInPlace(f) ==
  /\ Running
  /\ flush[f].pc = "inPlace"
  /\ file' = flush[f].snap
  /\ FlushEnds(f)
  /\ UNCHANGED <<map, dirty, recorder, bind, ownerOf, loading, clock, faults, restarts>>

(* A fault to test with: a failed save is not tried again. *)
SaveGivenUp(f) ==
  /\ Running
  /\ flush[f].pc \in {"write", "inPlace"}
  /\ faults < MaxFaults
  /\ faults' = faults + 1
  /\ FlushEnds(f)
  /\ UNCHANGED <<map, dirty, file, recorder, bind, ownerOf, loading, clock, restarts>>

(* A failed save makes the map dirty again.  The file is as it was, or     *)
(* empty once it has been truncated.                                       *)
SaveFails(f) ==
  /\ Running
  /\ flush[f].pc \in {"write", "inPlace"}
  /\ faults < MaxFaults
  /\ faults' = faults + 1
  /\ dirty' = TRUE
  /\ FlushEnds(f)
  /\ UNCHANGED <<map, file, recorder, bind, ownerOf, loading, clock, restarts>>

Flush(f) ==
  \/ SwapDirty(f) \/ Snapshot(f) \/ Rename(f)
  \/ Truncate(f) \/ WriteInPlace(f) \/ SaveFails(f)

-----------------------------------------------------------------------------
(* A crash, and enable_persistence of the next process, which runs before  *)
(* the reactor starts.                                                     *)

(* Older first: by the time of the record, then by the place in the file.  *)
Newer(e, d) ==
  e.recorded > d.recorded \/ (e.recorded = d.recorded /\ e.rank > d.rank)

Restorable ==
  LET fresh == {e \in file : clock < e.recorded + TTL}
  IN  {e \in fresh : Cardinality({d \in fresh : Newer(d, e)}) < Capacity}

Restart ==
  /\ restarts < MaxRestarts
  /\ restarts' = restarts + 1
  /\ map' = EmptyMap
  /\ dirty' = FALSE
  /\ flush' = [f \in Flushers |-> [pc |-> "idle", snap |-> {}]]
  /\ recorder' = [pc |-> "idle"]
  /\ bind' = [p \in Jobs |-> IF bind[p] = "bound" THEN "bound" ELSE "lost"]
  /\ ownerOf' = [p \in Jobs |-> NoOne]
  /\ loading' = Restorable
  /\ UNCHANGED <<file, clock, faults>>

(* A fault to test with: a restored record gets a whole new life. *)
RestoreAfresh ==
  /\ \E e \in loading :
       /\ \A d \in loading \ {e} : Newer(d, e)
       /\ loading' = loading \ {e}
       /\ map' = IF map.entries[e.key] # NoOne THEN map
                 ELSE InsertRecord(map, e.key, e.prompt, e.owner,
                                   clock + TTL, e.recorded, clock)
  /\ UNCHANGED <<dirty, file, flush, recorder, bind, ownerOf, clock, faults, restarts>>

RestoreNext ==
  /\ \E e \in loading :
       /\ \A d \in loading \ {e} : Newer(d, e)
       /\ loading' = loading \ {e}
       /\ map' = IF map.entries[e.key] # NoOne THEN map
                 ELSE InsertRecord(map, e.key, e.prompt, e.owner,
                                   clock + (TTL - (clock - e.recorded)), e.recorded, clock)
  /\ UNCHANGED <<dirty, file, flush, recorder, bind, ownerOf, clock, faults, restarts>>

Tick ==
  /\ Running
  /\ clock < MaxClock
  /\ clock' = clock + 1
  /\ UNCHANGED <<map, dirty, file, flush, recorder, bind, ownerOf, loading, faults,
                 restarts>>

-----------------------------------------------------------------------------
Reactor == Record \/ MarkRecorded

Submitter(p) == Assign(p) \/ MarkAssigned(p)

Next ==
  \/ \E p \in Jobs, k \in Keys : ReadOwner(p, k)
  \/ Reactor
  \/ \E p \in Jobs : BindOwner(p) \/ Submitter(p)
  \/ \E f \in Flushers : Flush(f)
  \/ Restart \/ RestoreNext \/ Tick

Spec == Init /\ [][Next]_vars

(* Tasks that can run do; the saver's timer fires again and again.  The    *)
(* shutdown flush need not come, nor a restart.                            *)
Fairness ==
  /\ WF_vars(Reactor)
  /\ \A p \in Jobs : WF_vars(Submitter(p))
  /\ WF_vars(\E f \in Flushers : Flush(f))
  /\ WF_vars(RestoreNext)

FairSpec == Spec /\ Fairness

-----------------------------------------------------------------------------
(* Properties. *)

(* The map stays within its capacity and the order within twice of it,     *)
(* however often files are recorded again and whatever is restored.        *)
Bounded ==
  /\ Cardinality(Known(map.entries)) <= Capacity
  /\ Len(map.order) <= 2 * Capacity

(* The order can be trusted to find the oldest record: every record has    *)
(* its pair there, in the order in which the records were made.            *)
OrderSound ==
  /\ \A k \in Known(map.entries) : <<k, map.entries[k].seq>> \in Elems(map.order)
  /\ \A i, j \in 1..Len(map.order) : i < j => map.order[i][2] < map.order[j][2]

(* A record that has not expired is given up only by a full map, and then  *)
(* it is older than everything that stays.                                 *)
EvictsOldest ==
  [][\A k \in Keys :
       (LookupHits(map, k, clock) /\ map'.entries[k] = NoOne /\ restarts' = restarts) =>
         /\ Cardinality(Known(map'.entries)) = Capacity
         /\ \A j \in Known(map'.entries) : map'.entries[j].seq > map.entries[k].seq]_vars

(* A restart neither extends nor cuts short the life of a record.          *)
LifetimeKept ==
  \A k \in Known(map.entries) :
    map.entries[k].expires = map.entries[k].recorded + TTL

(* Nothing is forgotten by the saver: when the map is clean, nobody is     *)
(* saving and nobody is about to mark it, the file holds every record that *)
(* has not expired, with its owner, so that a restart loses none of them.  *)
Settled ==
  /\ Running
  /\ ~ dirty
  /\ \A f \in Flushers : flush[f].pc = "idle"
  /\ recorder.pc # "mark"
  /\ \A p \in Jobs : bind[p] # "mark"

SavedWhenClean ==
  Settled => \A k \in Keys : LookupHits(map, k, clock) =>
    \E e \in file : /\ e.key = k
                    /\ e.prompt = map.entries[k].prompt
                    /\ e.owner = map.entries[k].owner
                    /\ e.recorded = map.entries[k].recorded

(* caller_may_read: the record names the caller, or names nobody and the   *)
(* PromptQueue knows the prompt as the caller's.                           *)
MayRead(k, u) ==
  /\ LookupHits(map, k, clock)
  /\ \/ map.entries[k].owner = u
     \/ map.entries[k].owner = NoOne /\ ownerOf[map.entries[k].prompt] = u

(* A named account gets only what its own prompts produced, before and     *)
(* after a restart.                                                        *)
ReadIsolation ==
  \A k \in Keys, u \in Accounts : MayRead(k, u) => SenderOf[map.entries[k].prompt] = u

(* A record is saved in the end, unless it is replaced, evicted or expires *)
(* first, or the process dies.                                             *)
EventuallySaved ==
  \A k \in Keys, p \in Jobs :
    LET holds == LookupHits(map, k, clock) /\ map.entries[k].prompt = p
    IN  holds ~> (~ holds \/ \E e \in file : e.key = k /\ e.prompt = p)

(* state.rs on bind_prompt_alias: the files recorded before the binding    *)
(* are handed to the prompt's owner, or they would be the admin's only     *)
(* once the PromptQueue forgets the id.                                    *)
BoundOutputsAreOwned ==
  \A k \in Known(map.entries) :
    LET p == map.entries[k].prompt
    IN  (bind[p] = "bound" /\ ownerOf[p] # NoOne) => map.entries[k].owner # NoOne

=============================================================================

------------------------------- MODULE OwnerMap -------------------------------
(***************************************************************************)
(* The bounded map of output_owners.rs from an output file to the prompt   *)
(* that produced it (`Inner`) as a data type: entries, the insertion order *)
(* as pairs of a key and a sequence number, and the next sequence number.  *)
(* A file recorded again leaves its old pair behind in the order.          *)
(***************************************************************************)
EXTENDS Integers, Sequences, FiniteSets, SeqRetain

CONSTANTS
  Keys,      \* the output files
  Jobs,      \* the ids ComfyUI gives to prompts
  Accounts,  \* the named accounts
  Capacity,  \* MAX_OUTPUT_OWNERS
  NoOne      \* no record; as an owner: the admin, or not known

ASSUME MapAssumption ==
  /\ Capacity \in Nat \ {0}
  /\ NoOne \notin Accounts

OutputRecord == [prompt : Jobs, owner : Accounts \cup {NoOne}, expires : Nat,
                 recorded : Nat, seq : Nat]

ASSUME RecordAssumption == NoOne \notin OutputRecord

MapType == [entries : [Keys -> OutputRecord \cup {NoOne}],
            order   : Seq(Keys \X Nat),
            nextSeq : Nat]

EmptyMap == [entries |-> [k \in Keys |-> NoOne], order |-> <<>>, nextSeq |-> 0]

Known(entries) == {k \in Keys : entries[k] # NoOne}

(* A pair of the order that is not left behind by a later record. *)
IsLive(entries, pair) ==
  /\ entries[pair[1]] # NoOne
  /\ entries[pair[1]].seq = pair[2]

-----------------------------------------------------------------------------
(* The eviction loop of insert.  It pops pairs off the front: stale ones,  *)
(* expired records, and live ones while the map is over its capacity.      *)

(* The entries once the first n pairs have been popped. *)
Popped(entries, order, n) ==
  [k \in Keys |->
     IF \E i \in 1..n : order[i][1] = k /\ IsLive(entries, order[i])
     THEN NoOne ELSE entries[k]]

(* A fault to test with: the loop makes room for one more record. *)
StopsBelow(entries, order, n, now) ==
  \/ n = Len(order)
  \/ LET front == order[n + 1]
     IN  /\ IsLive(entries, front)
         /\ Cardinality(Known(Popped(entries, order, n))) < Capacity
         /\ now < entries[front[1]].expires

(* The loop ends at n pops: nothing is left, or the front has to stay. *)
Stops(entries, order, n, now) ==
  \/ n = Len(order)
  \/ LET front == order[n + 1]
     IN  /\ IsLive(entries, front)
         /\ Cardinality(Known(Popped(entries, order, n))) <= Capacity
         /\ now < entries[front[1]].expires

Pops(entries, order, now) ==
  CHOOSE n \in 0..Len(order) :
    /\ Stops(entries, order, n, now)
    /\ \A m \in 0..Len(order) : Stops(entries, order, m, now) => n <= m

(* Faults to test with: no compaction, and one that keeps the wrong pairs. *)
NotCompacted(entries, order) == order

CompactedAway(entries, order) ==
  IF Len(order) > 2 * Capacity
  THEN Without(order, {pair \in Elems(order) : IsLive(entries, pair)})
  ELSE order

(* A long order is rid of its stale pairs. *)
Compacted(entries, order) ==
  IF Len(order) > 2 * Capacity
  THEN Without(order, {pair \in Elems(order) : ~ IsLive(entries, pair)})
  ELSE order

InsertRecord(map, k, prompt, owner, expires, recorded, now) ==
  LET seq     == map.nextSeq
      entries == [map.entries EXCEPT
                    ![k] = [prompt |-> prompt, owner |-> owner, expires |-> expires,
                            recorded |-> recorded, seq |-> seq]]
      order   == Append(map.order, <<k, seq>>)
      n       == Pops(entries, order, now)
      left    == Popped(entries, order, n)
  IN  [entries |-> left,
       order   |-> Compacted(left, SubSeq(order, n + 1, Len(order))),
       nextSeq |-> seq + 1]

(* A fault to test with: whatever has no owner is handed out. *)
UnassignedByAnyone(entries, prompt) ==
  {k \in Known(entries) : entries[k].owner = NoOne}

(* assign_owner: the records of a prompt that were made without an owner   *)
(* get it.                                                                 *)
Unassigned(entries, prompt) ==
  {k \in Known(entries) : entries[k].prompt = prompt /\ entries[k].owner = NoOne}

AssignOwner(map, prompt, owner) ==
  [map EXCEPT !.entries =
     [k \in Keys |-> IF k \in Unassigned(map.entries, prompt)
                     THEN [map.entries[k] EXCEPT !.owner = owner]
                     ELSE map.entries[k]]]

(* lookup returns a record only while it has not expired. *)
LookupHits(map, k, now) == map.entries[k] # NoOne /\ now < map.entries[k].expires

=============================================================================

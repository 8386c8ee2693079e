------------------------------ MODULE SeqRetain ------------------------------
(***************************************************************************)
(* Rust's `Vec::retain`, the way every list of the queue is pruned.  It is *)
(* written as a recursive function instead of with SelectSeq, about which  *)
(* nothing can be proved: SeqRetainProofs proves what it keeps.            *)
(***************************************************************************)
EXTENDS Integers, Sequences

(* The set of the elements of a sequence. *)
Elems(s) == {s[i] : i \in 1..Len(s)}

(* s without its elements that are in D, the others in their order. *)
Without(s, D) ==
  LET kept[i \in 0..Len(s)] ==
        IF i = 0 THEN <<>>
        ELSE IF s[i] \in D THEN kept[i - 1] ELSE Append(kept[i - 1], s[i])
  IN  kept[Len(s)]

=============================================================================

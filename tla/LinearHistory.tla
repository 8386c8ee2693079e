---------------------------- MODULE LinearHistory ----------------------------
(***************************************************************************)
(* What an undo history promises, said with whole documents: past holds    *)
(* the documents that can be gone back to, future those that have been     *)
(* undone, the next one at the end of each.  CanvasHistory implements this *)
(* with partial copies.                                                    *)
(*                                                                         *)
(* A change of the document is one step, or the first of a gesture, which  *)
(* is open until it ends or something else happens.                        *)
(***************************************************************************)
EXTENDS Naturals, Sequences

CONSTANTS
  Docs,        \* the documents
  MaxHistory   \* how many documents are remembered, at least two

VARIABLES doc, past, future, open

vars == <<doc, past, future, open>>

(* The oldest one is forgotten when there is no more room. *)
Push(s, x) == Append(IF Len(s) < MaxHistory THEN s ELSE Tail(s), x)

Top(s) == s[Len(s)]
Pop(s) == SubSeq(s, 1, Len(s) - 1)

Init ==
  /\ doc \in Docs
  /\ past = <<>>
  /\ future = <<>>
  /\ open = FALSE

Record == past' = Push(past, doc) /\ future' = <<>>

Do == Record /\ doc' \in Docs /\ open' \in BOOLEAN

GoOn == open /\ doc' \in Docs /\ open' \in BOOLEAN /\ UNCHANGED <<past, future>>

Undo ==
  /\ past # <<>>
  /\ doc' = Top(past)
  /\ past' = Pop(past)
  /\ future' = Push(future, doc)
  /\ open' = FALSE

Redo ==
  /\ future # <<>>
  /\ doc' = Top(future)
  /\ future' = Pop(future)
  /\ past' = Push(past, doc)
  /\ open' = FALSE

(* A change that fails leaves the document as it was, but has used the     *)
(* history: there is nothing to redo any more.                             *)
Fail ==
  /\ past' = Pop(Push(past, doc))
  /\ future' = <<>>
  /\ open' = FALSE
  /\ UNCHANGED doc

(* Another document is opened. *)
Reset ==
  /\ doc' \in Docs
  /\ past' = <<>>
  /\ future' = <<>>
  /\ open' = FALSE

Next == Do \/ GoOn \/ Undo \/ Redo \/ Fail \/ Reset

Spec == Init /\ [][Next]_vars

=============================================================================

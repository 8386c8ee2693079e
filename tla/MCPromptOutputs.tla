--------------------------- MODULE MCPromptOutputs ---------------------------
(***************************************************************************)
(* Small instances of PromptOutputs: one prompt with a picture and its     *)
(* refinement, or two of which one makes a picture.                        *)
(***************************************************************************)
EXTENDS PromptOutputs, TLC

CONSTANTS p1, p2, t1, t2

Refined == [x \in Prompts |-> {"base", "refined"}]

OnePlain == [x \in Prompts |-> IF x = p1 THEN {"base"} ELSE {}]

=============================================================================

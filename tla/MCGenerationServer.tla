------------------------- MODULE MCGenerationServer -------------------------
(***************************************************************************)
(* Small instances of GenerationServer: who sends which request.           *)
(***************************************************************************)
EXTENDS GenerationServer, TLC

CONSTANTS a, b, c, alice, bob, root, w1, w2

(* Two requests of one user, one of another: holding, draining and sharing *)
(* of workers all occur.                                                   *)
TwoAndOne == (a :> alice) @@ (b :> alice) @@ (c :> bob)

AllAlice == [p \in Prompts |-> alice]

WorkerSymmetry == Permutations(Workers)

=============================================================================

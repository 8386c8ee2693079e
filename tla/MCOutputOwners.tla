---------------------------- MODULE MCOutputOwners ----------------------------
(***************************************************************************)
(* Small instances of OutputOwners: who sent which prompt.                 *)
(***************************************************************************)
EXTENDS OutputOwners, TLC

CONSTANTS j1, j2, alice, bob, k1, k2, k3, saver, shutdown

OneEach == (j1 :> alice) @@ (j2 :> bob)

FromAlice == j1 :> alice

Interchangeable == Permutations(Keys) \cup Permutations(Flushers)

=============================================================================

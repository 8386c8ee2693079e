---------------------------- MODULE MCPrefsSync ----------------------------
(***************************************************************************)
(* Small instances of PrefsSync: one store of each kind.                   *)
(***************************************************************************)
EXTENDS PrefsSync

CONSTANTS generation, boards, accessibility

=============================================================================

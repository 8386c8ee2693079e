---------------------------- MODULE MCGalleryStore ----------------------------
(***************************************************************************)
(* Small instances of GalleryStore.                                        *)
(***************************************************************************)
EXTENDS GalleryStore

CONSTANTS old1, gen1, gen2, vid1

OneByOne == {{n} : n \in Generated}

Together == {Generated}

FirstSaved(n) == IF n = gen2 THEN {gen1} ELSE {}

=============================================================================

--------------------------- MODULE MCCanvasHistory ---------------------------
(***************************************************************************)
(* Small instances of CanvasHistory: two painted layers and one control    *)
(* layer.                                                                  *)
(***************************************************************************)
EXTENDS CanvasHistory, TLC

CONSTANTS raster, mask, control

PaintedAlike == Permutations({raster, mask})

=============================================================================

SPECIFICATION Spec
CONSTANTS
  raster = raster
  mask = mask
  control = control
  Layers = {raster, mask, control}
  Spatial = {raster, mask}
  Contents = {blank, paint}
  Blank = blank
  Settings = {before, after}
  MaxHistory = 2
  None = None
INVARIANTS
  UndoReturns
  CopiesAccounted
  RoomToRedo
SYMMETRY PaintedAlike
PROPERTIES
  ImplementsLinearHistory

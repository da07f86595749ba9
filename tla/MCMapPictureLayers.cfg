\* A layer is switched while the bake runs.
SPECIFICATION Spec
CONSTANTS
  GridWidth = 3
  GridHeight = 2
  Full = 5
  Sub = 2
  MaxScratch = 16
  Levels <- MCFewLevels
  TileSizes = {2}
  Densities = {2, 3}
  Word = 16
  MaskBits = 2
  MaxEdits = 1
INVARIANT MaskNamesLayers
\* A bake whose files have been shown is over.
CHECK_DEADLOCK FALSE

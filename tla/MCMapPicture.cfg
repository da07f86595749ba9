\* Every set of layers, tiles that fit the grid or not, one edit at any time.
SPECIFICATION Spec
CONSTANTS
  GridWidth = 3
  GridHeight = 2
  Full = 5
  Sub = 2
  MaxScratch = 16
  Levels <- MCLevels
  TileSizes = {1, 2, 4}
  Densities = {2, 3}
  Word = 16
  MaskBits = 2
  MaxEdits = 1
INVARIANTS
  PictureIsVegetation
  ViewsAgree
  StaysInside
\* A bake whose files have been shown is over.
CHECK_DEADLOCK FALSE

\* Three terrains, every set of baked groups, eight sequences of numbers.
SPECIFICATION ProcVegSpec
CONSTANTS
  Terrains <- MCTerrains
  Generators = {0, 1, 2, 3, 4, 5, 6, 7}
  LayersOf <- MCLayersOf
  Jitter = 4
  Fine = 4
  Units = 4
  MaxObjects = 4
  MaxLevels = 2
  Draw <- MCDraw
  Types <- MCTypes
  Creates <- MCCreates
  Rows <- MCRows
  Suits <- MCSuits
INVARIANT InSyncWithEngine
\* A level's vegetation is generated once.
CHECK_DEADLOCK FALSE

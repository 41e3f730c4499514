\* Two other nodes and room for one, two failures of the flash or power cuts in the midst of a save.
SPECIFICATION Spec
CONSTANTS
  Files <- MCFiles
  FullAtomic <- MCFullAtomic
  NoValue = NoValue
  MaxFaults = 2
  Self = self
  NoNode = none
  b = b
  c = c
  Others = {b, c}
  MaxNodes = 2
  Spare = 1
  Keys = {k1, k2}
  NoKey = nokey
SYMMETRY MCSymmetry
INVARIANTS TypeOK OldOrNew KeyKept FavouritesKept ConfigSaved

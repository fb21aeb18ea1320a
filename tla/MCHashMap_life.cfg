SPECIFICATION MapSpec
CONSTANTS
  Threads = {t1, t2}
  NoOne = NoOne
  Nestings = {}
  k1 = k1
  k2 = k2
  k3 = k3
  Keys <- MCKeys
  ContentOf <- MCContentOf
  HashOf <- MCHashOf
  OneWord = 4
  Types <- MCTypes
  SmallTable = 1
  Multiplier = 2
  Top = 16
  Values = {v1, v2}
  null = null
  None = None
SYMMETRY Symmetry
INVARIANTS TableIsWellFormed FreedOnce
PROPERTY IsMap

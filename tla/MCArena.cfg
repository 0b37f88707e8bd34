\* Three regions of four words and up.
CONSTANTS
  Sizes <- SomeSizes
  DefaultCapacity = 4
  MaxRegions = 3
SPECIFICATION Spec
INVARIANTS
  TypeOK
  NoOverlap
  EveryWordOwned

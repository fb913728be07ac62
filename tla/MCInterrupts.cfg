SPECIFICATION Spec
CONSTANTS
  e1 = e1  e2 = e2  q = q  h1 = h1  h2 = h2
  Null = Null  Wild = Wild
  Vectors <- MCVectors
  IrqVectors <- MCIrqVectors
  Handlers <- MCHandlers
  FlagSets <- MCFlagSets
  Garbage = {FALSE, TRUE}
  ByteSize = 2
  MaxChain = 3
SYMMETRY MCSymmetry
INVARIANTS CallsOnlyRegistered
PROPERTIES LockStopsGrowth

SPECIFICATION ComposedSpec
CONSTANTS
  PageSize <- MCPageSize
  Start <- MCStart
  MinSize <- MCMinSize
  InitialEnd <- MCInitialEnd
  MaxAddress <- MCMaxAddress
  NPages <- MCNPages
  WordSize <- MCWordSize
  Magic <- MCMagic
  Sizes = {1, 6, 20}
  Aligns = {FALSE, TRUE}
  MaxLive = 4
  MaxRequests = 4
  Regime = "any"
  NFrames = 32
  Zeroed = 32
  WordBits <- MCWordBits
  FrameSize <- MCFrameSize
  TableSpan <- MCTableSpan
  KernelEnd = 2
  HeapFirst = 18
  HeapInitial = 5
  Residue <- WordsReturned
  TableSize = 8
  MaxDepth = 3
CHECK_DEADLOCK FALSE
INVARIANTS ArenaBacked
PROPERTIES HeapStarts AllocReturns ImplementsHeap

SPECIFICATION Spec
CONSTANTS
  NFrames = 20
  Zeroed = 16
  WordBits <- MCWordBits
  FrameSize <- MCFrameSize
  TableSpan <- MCTableSpan
  KernelEnd = 3
  HeapFirst = 12
  HeapInitial = 2
  NPages = 17
  Residue <- WordsReturned
INVARIANTS IdentityComplete NoSharedFrame
PROPERTIES BootEnds

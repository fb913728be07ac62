SPECIFICATION Spec
CONSTANTS
  MinPages = 4
  InitialPages = 5
  MaxPages = 12
  PageSize <- MCPageSize
  Start <- MCStart
  MinSize <- MCMinSize
  InitialEnd <- MCInitialEnd
  MaxAddress <- MCMaxAddress
  WordSize <- MCWordSize
  Magic <- MCMagic
  Mapped <- MCMapped
  Sizes = {1, 6, 13}
  Aligns = {FALSE}
  MaxLive = 4
  MaxRequests = 6
  Regime = "contained"
CHECK_DEADLOCK FALSE
INVARIANTS TypeOK EndInBounds Tiling Coalesced IndexFits TagsConsistent PayloadKept
PROPERTIES ImplementsAbstractHeap PanicsAtTheEdgeOnly

SPECIFICATION Spec
CONSTANTS
  MinPages = 6
  InitialPages = 7
  MaxPages = 7
  PageSize <- MCPageSize
  Start <- MCStart
  MinSize <- MCMinSize
  InitialEnd <- MCInitialEnd
  MaxAddress <- MCMaxAddress
  WordSize <- MCWordSize
  Magic <- MCMagic
  Mapped <- MCMapped
  Sizes = {1, 6}
  Aligns = {FALSE}
  MaxLive = 3
  MaxRequests = 4
  Regime = "no_right_hole"
CHECK_DEADLOCK FALSE
INVARIANTS IndexSorted

SPECIFICATION Spec
CONSTANTS
  Lengths <- MCLengths
  Headers = 3
  Location = 10
  Room = 6
  LogFile = 2
  LogSizes = {1, 2}
  BufSize = 2
  WordSize <- MCWordSize
  Tails = {"zero", "junk"}
  Keys = {"enter", "other"}
INVARIANT LogConfined
PROPERTIES OpenShowsFile ListsEachFile OpenReturns

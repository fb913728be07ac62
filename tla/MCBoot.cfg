SPECIFICATION Spec
CONSTANTS
  DelayTicks = 1
  Lines <- MCLines
  Exceptions <- MCExceptions
  SoftVectors <- MCSoftVectors
INVARIANT CleanEntryAndReturn
PROPERTIES FaultHalts BootEnds KeysAreRead
CHECK_DEADLOCK FALSE

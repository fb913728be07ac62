SPECIFICATION Spec
CONSTANTS
  Registers <- MCRegisters
  HoursRegister = 3
  Starts <- MCStarts
  MaxTicks = 2
PROPERTIES TimeWasShown CallReturns

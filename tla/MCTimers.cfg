SPECIFICATION Spec
CONSTANTS
  l1 = l1  l2 = l2  l3 = l3
  Null = Null
  Listeners <- MCListeners
  Enabling = {}
  Durations = {1, 2}
  Capacity = 3
  MaxTicks = 4
  MaxNesting = 1
INVARIANTS NeverEarly FiresOnce PromptAfterTick
PROPERTIES EveryTimerFires MainProgress

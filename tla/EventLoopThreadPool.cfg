SPECIFICATION Spec
CONSTANTS
  Numbers <- MCNumbers
  MaxThreads = 4
INVARIANTS TypeOK RoundRobin LoopsAreServed NoThreadLeft
PROPERTIES UsesServedLoops StartReturns DestroyReturns
CHECK_DEADLOCK FALSE

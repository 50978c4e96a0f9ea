SPECIFICATION Spec
CONSTANTS
  LoopThread = LoopThread
  WakeupChannel_ = WakeupChannel_
  c1 = c1
  c2 = c2
  f1 = f1
  f2 = f2
  f3 = f3
  ch1 = ch1
  Clients <- MCClients
  Functors <- MCFunctors
  UserChannels <- MCUserChannels
INVARIANTS TypeOK NoLostWakeup
PROPERTIES ImplementsFunctorQueue FunctorsRun FunctorsRunByWakeup QuitStopsLoop

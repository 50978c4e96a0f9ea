SPECIFICATION Spec
CONSTANTS
  Creator = Creator
  LoopThread = LoopThread
  WakeupChannel_ = WakeupChannel_
  f1 = f1
  f2 = f2
  ch1 = ch1
  Functors <- MCFunctors
  UserChannels <- MCUserChannels
  Quitters <- NoQuitters
INVARIANTS WakeupReachesLoop

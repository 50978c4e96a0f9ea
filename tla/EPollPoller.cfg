SPECIFICATION Spec
CONSTANTS
  c1 = c1
  c2 = c2
  c3 = c3
  fd1 = fd1
  fd2 = fd2
  None = None
  Channels <- MCChannels
  Fds <- MCFds
  fd_ <- MCFd
  callbacks <- MCCallbacks
  Tied <- MCTied
  Conditions <- MCConditions
  Busy <- MCBusy
  kInitEventListSize = 1
INVARIANTS TypeOK EpollAgrees NeverFatal NoDanglingCall
PROPERTIES PollLosesNoEvent ReadyChannelIsHandled

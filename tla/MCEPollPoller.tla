--------------------------- MODULE MCEPollPoller ----------------------------
(* Instances of EPollPoller for TLC: two channels that share a descriptor,   *)
(* one after the other, and one with a descriptor of its own.                *)
EXTENDS EPollPoller

CONSTANTS c1, c2, c3, fd1, fd2

MCChannels == {c1, c2, c3}
MCFds == {fd1, fd2}
MCFd == [c \in MCChannels |-> IF c = c3 THEN fd2 ELSE fd1]

\* A listening socket's channel, c3, has a read handler only.
MCCallbacks ==
  [c \in MCChannels |-> IF c = c3 THEN {"read"} ELSE {"close", "error", "read", "write"}]
MCTied == {c1, c2}
MCConditions == {"IN", "HUP"}

\* c3 always has something to read, and fd1 may compete with it at every poll.
MCBusy == {fd2}
=============================================================================

---------------------------- MODULE MCEventLoop -----------------------------
(* Instances of EventLoop for TLC. *)
EXTENDS EventLoop

CONSTANTS c1, c2, f1, f2, f3, ch1

MCClients == {c1, c2}
MCOneClient == {c1}
MCFunctors == {f1, f2, f3}
MCTwoFunctors == {f1, f2}
MCUserChannels == {ch1}

=============================================================================

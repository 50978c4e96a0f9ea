------------------------- MODULE MCEventLoopThread --------------------------
(* Instances of EventLoopThread for TLC. *)
EXTENDS EventLoopThread

CONSTANTS f1, f2, ch1

MCFunctors == {f1, f2}
MCUserChannels == {ch1}
NoQuitters == {}
LoopQuits == {LoopThread}
=============================================================================

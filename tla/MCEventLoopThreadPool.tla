----------------------- MODULE MCEventLoopThreadPool ------------------------
(* Instances of EventLoopThreadPool for TLC. *)
EXTENDS EventLoopThreadPool

MCNumbers == 0 .. 3
=============================================================================

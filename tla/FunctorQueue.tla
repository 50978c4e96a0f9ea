---------------------------- MODULE FunctorQueue ----------------------------
(***************************************************************************)
(* What an EventLoop promises to the threads that hand it callbacks: one   *)
(* unbounded FIFO queue.  A callback (functor) is submitted at most once,  *)
(* waits behind everything submitted before it, and is executed by being   *)
(* taken off the head.  runInLoop called on the loop's own thread is the   *)
(* exception: the functor overtakes the queue and runs at once.            *)
(*                                                                         *)
(* There is no lock, no batch, no wakeup and no poll here.  EventLoop.tla  *)
(* is shown to implement this specification.                               *)
(***************************************************************************)
EXTENDS Sequences

CONSTANT Functors     \* the callbacks, each submitted at most once

VARIABLES
  fresh,   \* functors nobody has submitted yet
  queue,   \* functors waiting, oldest first
  ran      \* functors executed so far, in execution order

vars == <<fresh, queue, ran>>

Init ==
  /\ fresh = Functors
  /\ queue = <<>>
  /\ ran = <<>>

Submit(f) ==
  /\ f \in fresh
  /\ fresh' = fresh \ {f}
  /\ queue' = Append(queue, f)
  /\ UNCHANGED ran

ExecuteNow(f) ==
  /\ f \in fresh
  /\ fresh' = fresh \ {f}
  /\ ran' = Append(ran, f)
  /\ UNCHANGED queue

Execute ==
  /\ queue # <<>>
  /\ ran' = Append(ran, Head(queue))
  /\ queue' = Tail(queue)
  /\ UNCHANGED fresh

Next == (\E f \in Functors : Submit(f) \/ ExecuteNow(f)) \/ Execute

Spec == Init /\ [][Next]_vars
=============================================================================

-------------------------- MODULE EventLoop_proofs --------------------------
(***************************************************************************)
(* Theorems about EventLoop.tla, for every set of clients, functors and    *)
(* channels, wired or not: type correctness, NoLostWakeup, the refinement of  *)
(* FunctorQueue.tla, and ExactlyOnce, which is derived from the refinement.*)
(***************************************************************************)
EXTENDS EventLoop, SequenceTheorems, TLAPS

-----------------------------------------------------------------------------
(* Sequences *)

\* What is appended to the second of two sequences is appended to their
\* concatenation.
LEMMA ConcatAppend ==
  ASSUME NEW S, NEW s \in Seq(S), NEW t \in Seq(S), NEW e \in S
  PROVE  s \o Append(t, e) = Append(s \o t, e)
<1>1. <<e>> \in Seq(S)
  OBVIOUS
<1>2. s \o Append(t, e) = s \o (t \o <<e>>)
  BY AppendIsConcat
<1>3. Append(s \o t, e) = (s \o t) \o <<e>>
  BY AppendIsConcat, ConcatProperties
<1> QED
  BY <1>1, <1>2, <1>3, ConcatAssociative

\* The head of a concatenation is the head of its first part.
LEMMA ConcatHeadTail ==
  ASSUME NEW S, NEW s \in Seq(S), NEW t \in Seq(S), s # <<>>
  PROVE  /\ s \o t # <<>>
         /\ Head(s \o t) = Head(s)
         /\ Tail(s \o t) = Tail(s) \o t
<1>1. Len(s) >= 1 /\ Len(s) \in Nat /\ Len(t) \in Nat
  BY LenProperties, EmptySeq
<1>2. s \o t \in Seq(S) /\ Len(s \o t) = Len(s) + Len(t)
  BY ConcatProperties
<1>3. s \o t # <<>>
  BY <1>1, <1>2
<1>4. Head(s \o t) = Head(s)
  BY <1>1, ConcatProperties, <1>2, <1>3
<1>5. Tail(s) \in Seq(S) /\ Tail(s \o t) \in Seq(S)
  BY <1>2, <1>3, HeadTailProperties
<1>6. Tail(s) \o t \in Seq(S)
  BY <1>5, ConcatProperties
<1>7. Len(Tail(s \o t)) = Len(Tail(s) \o t)
  BY <1>1, <1>2, <1>3, <1>5, HeadTailProperties, ConcatProperties
<1>8. \A i \in 1 .. Len(Tail(s \o t)) : Tail(s \o t)[i] = (Tail(s) \o t)[i]
  <2> SUFFICES ASSUME NEW i \in 1 .. Len(Tail(s \o t))
               PROVE  Tail(s \o t)[i] = (Tail(s) \o t)[i]
    OBVIOUS
  <2>1. Len(Tail(s)) = Len(s) - 1 /\ Len(Tail(s \o t)) = Len(s) + Len(t) - 1
    BY <1>2, <1>3, HeadTailProperties
  <2>2. Tail(s \o t)[i] = (s \o t)[i + 1]
    BY <1>2, <1>3, HeadTailProperties
  <2>3. (s \o t)[i + 1] = IF i + 1 <= Len(s) THEN s[i + 1] ELSE t[i + 1 - Len(s)]
    BY <1>1, <2>1, ConcatProperties
  <2>4. (Tail(s) \o t)[i] = IF i <= Len(Tail(s)) THEN Tail(s)[i] ELSE t[i - Len(Tail(s))]
    BY <1>1, <1>5, <2>1, ConcatProperties
  <2>5. i <= Len(Tail(s)) => Tail(s)[i] = s[i + 1]
    BY <1>1, <2>1, HeadTailProperties
  <2> QED
    BY <1>1, <2>1, <2>2, <2>3, <2>4, <2>5
<1> QED
  BY <1>3, <1>4, <1>2, <1>5, <1>6, <1>7, <1>8, SeqEqual

\* Putting a new element between two sequences adds it to the range and keeps
\* the elements distinct.
LEMMA Insert ==
  ASSUME NEW S, NEW s \in Seq(S), NEW t \in Seq(S), NEW e \in S,
         IsInjective(s \o t), e \notin Range(s \o t)
  PROVE  /\ IsInjective(Append(s, e) \o t)
         /\ Range(Append(s, e) \o t) = Range(s \o t) \cup {e}
<1> DEFINE a == Append(s, e)
           old == s \o t
           new == a \o t
           n == Len(s)
<1>1. n \in Nat /\ Len(t) \in Nat
  BY LenProperties
<1>2. a \in Seq(S) /\ Len(a) = n + 1 /\ a[n + 1] = e /\ \A i \in 1 .. n : a[i] = s[i]
  BY AppendProperties
<1>3. old \in Seq(S) /\ Len(old) = n + Len(t)
      /\ \A i \in 1 .. n + Len(t) : old[i] = IF i <= n THEN s[i] ELSE t[i - n]
  BY ConcatProperties
<1>4. new \in Seq(S) /\ Len(new) = n + 1 + Len(t)
      /\ \A i \in 1 .. n + 1 + Len(t) : new[i] = IF i <= n + 1 THEN a[i] ELSE t[i - (n + 1)]
  BY <1>1, <1>2, ConcatProperties
<1>5. DOMAIN old = 1 .. n + Len(t) /\ DOMAIN new = 1 .. n + 1 + Len(t)
  BY <1>3, <1>4, LenProperties
<1> HIDE DEF a, old, new
<1>6. \A i \in DOMAIN new : /\ i <= n => i \in DOMAIN old /\ new[i] = old[i]
                            /\ i = n + 1 => new[i] = e
                            /\ i > n + 1 => i - 1 \in DOMAIN old /\ new[i] = old[i - 1]
  <2> SUFFICES ASSUME NEW i \in DOMAIN new
               PROVE  /\ i <= n => i \in DOMAIN old /\ new[i] = old[i]
                      /\ i = n + 1 => new[i] = e
                      /\ i > n + 1 => i - 1 \in DOMAIN old /\ new[i] = old[i - 1]
    OBVIOUS
  <2>1. i \in Int /\ 1 <= i /\ i <= n + 1 + Len(t)
    BY <1>1, <1>5
  <2>2. CASE i <= n
    <3>1. i \in 1 .. n /\ i \in DOMAIN old
      BY <1>1, <1>5, <2>1, <2>2
    <3>2. new[i] = a[i] /\ a[i] = s[i]
      BY <1>1, <1>2, <1>4, <1>5, <2>2, <3>1
    <3>3. old[i] = s[i]
      BY <1>1, <1>3, <1>5, <2>2, <3>1
    <3> QED
      BY <1>1, <2>1, <2>2, <3>1, <3>2, <3>3
  <2>3. CASE i = n + 1
    BY <1>1, <1>2, <1>4, <1>5, <2>1, <2>3
  <2>4. CASE i > n + 1
    <3>1. new[i] = t[i - (n + 1)]
      BY <1>1, <1>4, <1>5, <2>1, <2>4
    <3>2. i - 1 \in 1 .. n + Len(t) /\ i - 1 > n /\ (i - 1) - n = i - (n + 1)
      BY <1>1, <2>1, <2>4
    <3>3. old[i - 1] = t[i - (n + 1)]
      BY <1>1, <1>3, <3>2
    <3> QED
      BY <1>1, <1>5, <2>1, <2>4, <3>1, <3>2, <3>3
  <2> QED
    BY <1>1, <2>1, <2>2, <2>3, <2>4
<1>7. \A i \in DOMAIN old : old[i] # e
  BY DEF Range, old
<1>8. IsInjective(new)
  <2> SUFFICES ASSUME NEW i \in DOMAIN new, NEW j \in DOMAIN new, new[i] = new[j]
               PROVE  i = j
    BY DEF IsInjective
  <2>1. i \in Int /\ j \in Int
    BY <1>1, <1>5
  <2>2. \A k, l \in DOMAIN old : old[k] = old[l] => k = l
    BY DEF IsInjective, old
  <2> QED
    BY <1>1, <1>6, <1>7, <2>1, <2>2
<1>9. Range(new) = Range(old) \cup {e}
  <2>1. \A x \in Range(new) : x \in Range(old) \cup {e}
    <3> SUFFICES ASSUME NEW i \in DOMAIN new
                 PROVE  new[i] \in Range(old) \cup {e}
      BY DEF Range
    <3>1. i \in Int
      BY <1>1, <1>5
    <3> QED
      BY <1>1, <1>6, <3>1 DEF Range
  <2>2. \A i \in DOMAIN old : old[i] \in Range(new)
    <3> SUFFICES ASSUME NEW i \in DOMAIN old
                 PROVE  old[i] \in Range(new)
      OBVIOUS
    <3>1. i \in Int /\ 1 <= i /\ i <= n + Len(t)
      BY <1>1, <1>5
    <3>2. CASE i <= n
      BY <1>1, <1>5, <1>6, <3>1, <3>2 DEF Range
    <3>3. CASE i > n
      <4>1. i + 1 \in DOMAIN new /\ (i + 1) - 1 = i /\ i + 1 > n + 1
        BY <1>1, <1>5, <3>1, <3>3
      <4>2. new[i + 1] = old[i]
        BY <1>6, <4>1
      <4> QED
        BY <4>1, <4>2 DEF Range
    <3> QED
      BY <1>1, <3>1, <3>2, <3>3
  <2>3. n + 1 \in DOMAIN new /\ new[n + 1] = e
    BY <1>1, <1>5, <1>6
  <2> QED
    BY <2>1, <2>2, <2>3 DEF Range
<1> QED
  BY <1>8, <1>9 DEF a, old, new

\* The same at the end of one sequence.
LEMMA AppendNew ==
  ASSUME NEW S, NEW s \in Seq(S), NEW e \in S, IsInjective(s), e \notin Range(s)
  PROVE  /\ IsInjective(Append(s, e))
         /\ Range(Append(s, e)) = Range(s) \cup {e}
<1> DEFINE t == <<>>
<1>1. t \in Seq(S)
  OBVIOUS
<1>2. s \o t = s /\ Append(s, e) \o t = Append(s, e)
  BY AppendProperties, ConcatEmptySeq
<1> HIDE DEF t
<1>3. IsInjective(s \o t) /\ e \notin Range(s \o t)
  BY <1>2
<1>4. /\ IsInjective(Append(s, e) \o t)
      /\ Range(Append(s, e) \o t) = Range(s \o t) \cup {e}
  BY <1>1, <1>3, Insert
<1> QED
  BY <1>2, <1>4

-----------------------------------------------------------------------------
(* The inductive invariant *)

\* The local batch is empty outside doPendingFunctors and at the swap.
BatchIsLocal == pc \notin {"batch", "functor"} => functors = <<>>

\* The loop thread writes its own eventfd only for a functor that a functor
\* queued: quit and runInLoop on the loop thread write nothing.
WakesItself == call[LoopThread] = "waking" => pc = "functor"

\* Places from which the loop thread may reach epoll_wait without another swap.
PastSwap == {"outside", "test", "poll", "batch", "functor"}

\* Past the swap, whatever is in the vector was followed by a wakeup, which
\* nothing consumes before the next swap: handleRead runs before it.
QueuedIsSignalled ==
  pc \in PastSwap /\ pendingFunctors_ # <<>> =>
    WakeupComes \/ queuedOutside \/ call[LoopThread] = "waking"

\* quit_ was FALSE when the loop thread left "test" for epoll_wait.
QuitIsSignalled == pc = "poll" /\ quit_ => WakeupComes

Signalling == BatchIsLocal /\ WakesItself /\ QueuedIsSignalled /\ QuitIsSignalled

IInv == TypeOK /\ Signalling

LEMMA InitIInv == Init => IInv
<1> SUFFICES ASSUME Init PROVE IInv
  OBVIOUS
<1>1. <<>> \in Seq(Functors)
  OBVIOUS
<1> QED
  BY <1>1, ThreadsAssumption
     DEF Init, IInv, Signalling, TypeOK, BatchIsLocal, WakesItself, QueuedIsSignalled,
         QuitIsSignalled, PastSwap, UserCode, Threads

\* No step leaves the types.
LEMMA TypeStep == TypeOK /\ [Next]_vars => TypeOK'
<1> SUFFICES ASSUME TypeOK, [Next]_vars PROVE TypeOK'
  OBVIOUS
<1> USE DEF TypeOK, UserCode, loopVars, sharedVars, callVars, history
<1>1. ASSUME NEW t \in Threads, NEW f \in Functors, queueInLoop(t, f)
      PROVE  TypeOK'
  <2>1. pendingFunctors_' \in Seq(Functors)
    BY <1>1, AppendProperties DEF queueInLoop
  <2> QED
    BY <1>1, <2>1 DEF queueInLoop
<1>2. ASSUME NEW t \in Threads, NEW f \in Functors, runInLoop(t, f)
      PROVE  TypeOK'
  <2>1. CASE isInLoopThread(t)
    <3>1. /\ ran' = Append(ran, f) /\ fresh' \subseteq Functors
          /\ UNCHANGED <<loopVars, sharedVars, registered, call, queuedOutside>>
      BY <1>2, <2>1 DEF runInLoop
    <3>2. ran' \in Seq(Functors)
      BY <3>1, AppendProperties
    <3> QED
      BY <3>1, <3>2
  <2>2. CASE ~isInLoopThread(t)
    BY <1>1, <1>2, <2>2 DEF runInLoop
  <2> QED
    BY <2>1, <2>2
<1>3. ASSUME NEW t \in Threads, quit(t)
      PROVE  TypeOK'
  BY <1>3 DEF quit
<1>4. ASSUME NEW t \in Threads, wakeup(t)
      PROVE  TypeOK'
  BY <1>4 DEF wakeup
<1>5. CASE EnterLoop
  BY <1>5 DEF EnterLoop
<1>6. CASE KeepLooping
  BY <1>6 DEF KeepLooping
<1>7. CASE LeaveLoop
  BY <1>7 DEF LeaveLoop
<1>8. CASE PollEvents
  <2>1. activeChannels_' \subseteq registered
    BY <1>8 DEF PollEvents, Readable
  <2> QED
    BY <1>8, <2>1 DEF PollEvents
<1>9. CASE PollTimeout
  BY <1>9 DEF PollTimeout, AfterTimeout
<1>10. CASE handleRead
  BY <1>10 DEF handleRead
<1>11. CASE CallHandler
  BY <1>11 DEF CallHandler
<1>12. CASE BeginPending
  BY <1>12 DEF BeginPending
<1>13. CASE SwapPending
  <2>1. pendingFunctors_' \in Seq(Functors)
    BY <1>13 DEF SwapPending, Swapped
  <2> QED
    BY <1>13, <2>1 DEF SwapPending
<1>14. CASE CallFunctor
  <2>1. ran' \in Seq(Functors) /\ functors' \in Seq(Functors)
    BY <1>14, HeadTailProperties, AppendProperties DEF CallFunctor
  <2> QED
    BY <1>14, <2>1 DEF CallFunctor
<1>15. CASE EndPending
  BY <1>15 DEF EndPending
<1>16. CASE Return
  BY <1>16 DEF Return
<1>17. CASE UNCHANGED vars
  BY <1>17 DEF vars
<1> QED
  BY <1>1, <1>2, <1>3, <1>4, <1>5, <1>6, <1>7, <1>8, <1>9, <1>10, <1>11, <1>12,
     <1>13, <1>14, <1>15, <1>16, <1>17 DEF Next, LoopStep

\* No step leaves the rest of the inductive invariant.
LEMMA SignallingStep == IInv /\ [Next]_vars => Signalling'
<1> SUFFICES ASSUME IInv, [Next]_vars PROVE Signalling'
  OBVIOUS
<1>a. Signalling
  BY DEF IInv
<1>b. call \in [Threads -> {"none", "waking"}]
  BY DEF IInv, TypeOK
<1>c. callingPendingFunctors_ <=> pc \in {"swap", "batch", "functor"}
  BY DEF IInv, TypeOK
<1> USE <1>a, <1>b, <1>c, ThreadsAssumption
<1> USE DEF Signalling, BatchIsLocal, WakesItself, QueuedIsSignalled, QuitIsSignalled, WakeupComes,
            PastSwap, UserCode, Threads, loopVars, sharedVars, callVars, history
<1>1. ASSUME NEW t \in Threads, NEW f \in Functors, queueInLoop(t, f)
      PROVE  Signalling'
  <2>1. CASE t = LoopThread
    BY <1>1, <2>1 DEF queueInLoop, Wakes, MayCall, isInLoopThread
  <2>2. CASE t \in Clients
    BY <1>1, <2>2 DEF queueInLoop, Wakes, MayCall, isInLoopThread
  <2> QED
    BY <2>1, <2>2
<1>2. ASSUME NEW t \in Threads, NEW f \in Functors, runInLoop(t, f)
      PROVE  Signalling'
  <2>1. CASE isInLoopThread(t)
    BY <1>2, <2>1 DEF runInLoop
  <2>2. CASE ~isInLoopThread(t)
    BY <1>1, <1>2, <2>2 DEF runInLoop
  <2> QED
    BY <2>1, <2>2
<1>3. ASSUME NEW t \in Threads, quit(t)
      PROVE  Signalling'
  BY <1>3 DEF quit, QuitWakes, MayCall, isInLoopThread
<1>4. ASSUME NEW t \in Threads, wakeup(t)
      PROVE  Signalling'
  BY <1>4 DEF wakeup
<1>5. CASE EnterLoop
  BY <1>5 DEF EnterLoop
<1>6. CASE KeepLooping
  BY <1>6 DEF KeepLooping
<1>7. CASE LeaveLoop
  BY <1>7 DEF LeaveLoop
<1>8. CASE PollEvents
  BY <1>8 DEF PollEvents
<1>9. CASE PollTimeout
  BY <1>9 DEF PollTimeout, AfterTimeout
<1>10. CASE handleRead
  BY <1>10 DEF handleRead
<1>11. CASE CallHandler
  BY <1>11 DEF CallHandler
<1>12. CASE BeginPending
  BY <1>12 DEF BeginPending
<1>13. CASE SwapPending
  BY <1>13 DEF SwapPending, Swapped
<1>14. CASE CallFunctor
  BY <1>14 DEF CallFunctor
<1>15. CASE EndPending
  BY <1>15 DEF EndPending
<1>16. CASE Return
  BY <1>16 DEF Return
<1>17. CASE UNCHANGED vars
  BY <1>17 DEF vars
<1> QED
  BY <1>1, <1>2, <1>3, <1>4, <1>5, <1>6, <1>7, <1>8, <1>9, <1>10, <1>11, <1>12,
     <1>13, <1>14, <1>15, <1>16, <1>17 DEF Next, LoopStep

LEMMA Invariance == Spec => []IInv
<1>1. Init => IInv
  BY InitIInv
<1>2. IInv /\ [Next]_vars => IInv'
  BY TypeStep, SignallingStep DEF IInv
<1> QED
  BY <1>1, <1>2, PTL DEF Spec

-----------------------------------------------------------------------------
(* Invariants *)

\* Type correctness of the EventLoop and the threads that call it.
THEOREM TypeCorrect == Spec => []TypeOK
<1>1. IInv => TypeOK
  BY DEF IInv
<1> QED
  BY <1>1, Invariance, PTL

\* No wakeup is lost between queueInLoop or quit and epoll_wait, whatever the
\* number of threads and functors and whatever is registered.
THEOREM NoWakeupIsLost == Spec => []NoLostWakeup
<1>1. IInv => NoLostWakeup
  BY DEF IInv, Signalling, WakesItself, QueuedIsSignalled, QuitIsSignalled, PastSwap, NoLostWakeup
<1> QED
  BY <1>1, Invariance, PTL

-----------------------------------------------------------------------------
(* Refinement of FunctorQueue *)

LEMMA InitRefines == Init => FQ!Init
<1> SUFFICES ASSUME Init PROVE FQ!Init
  OBVIOUS
<1>1. Waiting = <<>>
  BY DEF Init, Waiting
<1> QED
  BY <1>1 DEF Init, FQ!Init

\* Handing over, running at once and running from the batch are the queue's
\* three actions; the swap and every other step are stutters.
LEMMA StepRefines == IInv /\ [Next]_vars => [FQ!Next]_FQ!vars
<1> SUFFICES ASSUME IInv, [Next]_vars PROVE [FQ!Next]_FQ!vars
  OBVIOUS
<1>a. functors \in Seq(Functors) /\ pendingFunctors_ \in Seq(Functors)
  BY DEF IInv, TypeOK
<1> USE DEF loopVars, sharedVars, callVars, history
<1> DEFINE Stutters == UNCHANGED <<fresh, functors, pendingFunctors_, ran>>
<1>b. Stutters => UNCHANGED FQ!vars
  BY DEF FQ!vars, Waiting
<1>1. ASSUME NEW t \in Threads, NEW f \in Functors, queueInLoop(t, f)
      PROVE  FQ!Next
  <2>1. Waiting' = Append(Waiting, f)
    BY <1>1, <1>a, ConcatAppend DEF queueInLoop, Waiting
  <2>2. FQ!Submit(f)
    BY <1>1, <2>1 DEF queueInLoop, FQ!Submit
  <2> QED
    BY <2>2 DEF FQ!Next
<1>2. ASSUME NEW t \in Threads, NEW f \in Functors, runInLoop(t, f)
      PROVE  FQ!Next
  <2>1. CASE isInLoopThread(t)
    <3>1. FQ!ExecuteNow(f)
      BY <1>2, <2>1 DEF runInLoop, FQ!ExecuteNow, Waiting
    <3> QED
      BY <3>1 DEF FQ!Next
  <2>2. CASE ~isInLoopThread(t)
    BY <1>1, <1>2, <2>2 DEF runInLoop
  <2> QED
    BY <2>1, <2>2
<1>3. CASE \E t \in Threads : quit(t) \/ wakeup(t)
  BY <1>3, <1>b DEF quit, wakeup
<1>4. CASE EnterLoop \/ PollTimeout
  BY <1>4, <1>b DEF EnterLoop, PollTimeout
<1>5. CASE KeepLooping \/ LeaveLoop \/ PollEvents \/ handleRead \/ CallHandler
  BY <1>5, <1>b DEF KeepLooping, LeaveLoop, PollEvents, handleRead, CallHandler
<1>6. CASE BeginPending \/ EndPending \/ Return
  BY <1>6, <1>b DEF BeginPending, EndPending, Return
<1>7. CASE SwapPending
  <2>1. functors = <<>>
    BY <1>7 DEF IInv, Signalling, BatchIsLocal, SwapPending
  <2>2. Waiting' = Waiting
    BY <1>7, <1>a, <2>1, ConcatEmptySeq DEF SwapPending, Swapped, Waiting
  <2> QED
    BY <1>7, <2>2 DEF SwapPending, FQ!vars
<1>8. CASE CallFunctor
  <2>1. functors # <<>>
    BY <1>8 DEF CallFunctor
  <2>2. /\ Waiting # <<>>
        /\ Head(Waiting) = Head(functors)
        /\ Tail(Waiting) = Tail(functors) \o pendingFunctors_
    BY <1>a, <2>1, ConcatHeadTail DEF Waiting
  <2>3. FQ!Execute
    BY <1>8, <2>2 DEF CallFunctor, FQ!Execute, Waiting
  <2> QED
    BY <2>3 DEF FQ!Next
<1>9. CASE UNCHANGED vars
  BY <1>9, <1>b DEF vars
<1> QED
  BY <1>1, <1>2, <1>3, <1>4, <1>5, <1>6, <1>7, <1>8, <1>9 DEF Next, LoopStep

\* The mutex-protected vector, the swapped batch and runInLoop's inline call
\* together are one FIFO queue.
THEOREM Refinement == Spec => ImplementsFunctorQueue
<1>1. Init => FQ!Init
  BY InitRefines
<1>2. IInv /\ [Next]_vars => [FQ!Next]_FQ!vars
  BY StepRefines
<1> QED
  BY <1>1, <1>2, Invariance, PTL DEF Spec, ImplementsFunctorQueue, FQ!Spec

-----------------------------------------------------------------------------
(* ExactlyOnce, from the refinement *)

\* The abstract queue's steps keep every functor in one place: submitting and
\* executing at once insert a fresh functor into ran \o Waiting, and executing
\* the head moves the border between the two.
LEMMA ExactlyOnceStep ==
  ASSUME TypeOK, ExactlyOnce, [FQ!Next]_FQ!vars
  PROVE  ExactlyOnce'
<1>a. ran \in Seq(Functors) /\ Waiting \in Seq(Functors) /\ fresh \subseteq Functors
  BY ConcatProperties DEF TypeOK, Waiting
<1> DEFINE all == ran \o Waiting
<1>b. all \in Seq(Functors) /\ IsInjective(all) /\ Range(all) = Functors \ fresh
  BY <1>a, ConcatProperties DEF ExactlyOnce
<1> USE DEF ExactlyOnce
<1>1. ASSUME NEW f \in Functors, FQ!Submit(f)
      PROVE  ExactlyOnce'
  <2>1. all' = Append(all, f)
    BY <1>1, <1>a, ConcatAppend DEF FQ!Submit
  <2>2. f \notin Range(all)
    BY <1>1, <1>b DEF FQ!Submit
  <2>3. IsInjective(Append(all, f)) /\ Range(Append(all, f)) = Range(all) \cup {f}
    <3> HIDE DEF all
    <3> QED
      BY <1>b, <2>2, AppendNew
  <2>4. fresh' = fresh \ {f} /\ f \in fresh
    BY <1>1 DEF FQ!Submit
  <2> QED
    BY <1>a, <1>b, <2>1, <2>3, <2>4
<1>2. ASSUME NEW f \in Functors, FQ!ExecuteNow(f)
      PROVE  ExactlyOnce'
  <2>1. all' = Append(ran, f) \o Waiting
    BY <1>2 DEF FQ!ExecuteNow
  <2>2. fresh' = fresh \ {f} /\ f \in fresh
    BY <1>2 DEF FQ!ExecuteNow
  <2>3. IsInjective(all') /\ Range(all') = Range(all) \cup {f}
    BY <1>a, <1>b, <2>1, <2>2, Insert
  <2> QED
    BY <1>a, <1>b, <2>2, <2>3
<1>3. CASE FQ!Execute
  <2>1. /\ Head(Waiting) \in Functors
        /\ Tail(Waiting) \in Seq(Functors)
        /\ Waiting = <<Head(Waiting)>> \o Tail(Waiting)
    BY <1>a, <1>3, HeadTailProperties, SeqEqual DEF FQ!Execute
  <2>2. all' = Append(ran, Head(Waiting)) \o Tail(Waiting)
    BY <1>3 DEF FQ!Execute
  <2>3. <<Head(Waiting)>> \in Seq(Functors)
    BY <2>1
  <2>4. all' = (ran \o <<Head(Waiting)>>) \o Tail(Waiting)
    BY <1>a, <2>1, <2>2, AppendIsConcat
  <2>5. all' = all
    BY <1>a, <2>1, <2>3, <2>4, ConcatAssociative
  <2>6. fresh' = fresh
    BY <1>3 DEF FQ!Execute
  <2> QED
    BY <1>b, <2>5, <2>6
<1>4. CASE UNCHANGED FQ!vars
  BY <1>4 DEF FQ!vars
<1> QED
  BY <1>1, <1>2, <1>3, <1>4 DEF FQ!Next

\* No functor is lost and none runs twice, whatever the interleaving of
\* queueInLoop with the swap.
THEOREM EachFunctorOnce == Spec => []ExactlyOnce
<1>1. Init => ExactlyOnce
  <2> SUFFICES ASSUME Init PROVE ExactlyOnce
    OBVIOUS
  <2>1. ran \o Waiting = <<>> /\ fresh = Functors
    BY DEF Init, Waiting
  <2> QED
    BY <2>1 DEF ExactlyOnce, IsInjective, Range
<1>2. IInv /\ ExactlyOnce /\ [Next]_vars => ExactlyOnce'
  BY StepRefines, ExactlyOnceStep DEF IInv
<1> QED
  BY <1>1, <1>2, Invariance, PTL DEF Spec
=============================================================================

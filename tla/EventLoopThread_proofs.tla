------------------------ MODULE EventLoopThread_proofs ------------------------
(***************************************************************************)
(* Theorems about EventLoopThread.tla, for any functors and channels and   *)
(* whoever quits the loop: type correctness, PublishedLoopIsAlive,         *)
(* StartedLoopStays and NoThreadOutlivesObject; that the loop inside is an *)
(* EventLoop, to which the theorems of EventLoop_proofs therefore apply;   *)
(* and that the handshake around it implements ServedLoop.                 *)
(***************************************************************************)
EXTENDS EventLoopThread, TLAPS

ELP == INSTANCE EventLoop_proofs WITH Clients <- {Creator}

-----------------------------------------------------------------------------
(* What the steps of the EventLoop mean for the thread around it *)

\* The part of TypeOK that is not EventLoop's.
OwnTypes ==
  /\ loop_ \in {"null", "loop"}
  /\ alive \in BOOLEAN /\ started_ \in BOOLEAN /\ joined_ \in BOOLEAN
  /\ thread \in {"none", "starting", "constructing", "initcb", "published",
                 "looping", "clearing", "leaving", "dead"}
  /\ creator \in {"idle", "semwait", "checking", "waiting", "started", "testing",
                  "quitting", "joining", "unwinding", "gone", "crashed"}
  /\ userQuit \in BOOLEAN
  /\ thread # "none" => started_

LEMMA TypeParts ==
  /\ TypeOK <=> EL!TypeOK /\ OwnTypes
  /\ TypeOK' <=> EL!TypeOK' /\ OwnTypes'
BY DEF TypeOK, OwnTypes

LEMMA Threads == ELP!ThreadsAssumption
BY TwoThreadsAssumption DEF ELP!ThreadsAssumption

\* Inside loop(), the thread leaves it only when quit_ is set, and does not
\* set it.
LEMMA LoopKeepsQuit ==
  ASSUME EL!LoopStep \/ EL!PollTimeout
  PROVE  quit_' = quit_ /\ (pc' = "outside" => quit_)
<1> USE DEF EL!sharedVars, EL!callVars, EL!history
<1>1. CASE EL!KeepLooping \/ EL!LeaveLoop \/ EL!PollEvents \/ EL!PollTimeout \/ EL!handleRead
  BY <1>1 DEF EL!KeepLooping, EL!LeaveLoop, EL!PollEvents, EL!PollTimeout, EL!AfterTimeout,
              EL!handleRead
<1>2. CASE EL!CallHandler \/ EL!BeginPending \/ EL!SwapPending \/ EL!CallFunctor
  BY <1>2 DEF EL!CallHandler, EL!BeginPending, EL!SwapPending, EL!CallFunctor
<1>3. CASE EL!EndPending \/ EL!Return
  BY <1>3 DEF EL!EndPending, EL!Return
<1> QED
  BY <1>1, <1>2, <1>3 DEF EL!LoopStep

\* Calls other than quit change neither quit_ nor the place of the loop thread.
LEMMA CallsKeepQuit ==
  ASSUME NEW t \in {Creator, LoopThread},
         EL!wakeup(t) \/ \E f \in Functors : EL!queueInLoop(t, f) \/ EL!runInLoop(t, f)
  PROVE  quit_' = quit_ /\ pc' = pc
BY DEF EL!wakeup, EL!queueInLoop, EL!runInLoop, EL!loopVars, EL!sharedVars

\* Every step of the EventLoop here is one of EventLoop.tla.
LEMMA LoopSteps ==
  ASSUME \/ EL!LoopStep \/ EL!PollTimeout \/ EL!EnterLoop \/ UNCHANGED elVars
         \/ \E t \in {Creator, LoopThread} :
              \/ EL!wakeup(t) \/ EL!quit(t)
              \/ \E f \in Functors : EL!queueInLoop(t, f) \/ EL!runInLoop(t, f)
  PROVE  [EL!Next]_EL!vars
BY DEF EL!Next, EL!vars, EL!Threads, EL!loopVars, EL!sharedVars, EL!callVars, EL!history, elVars

\* The loop of the model and the loop of EventLoop_proofs are the same.
LEMMA SameLoop ==
  /\ EL!Init <=> ELP!Init
  /\ EL!TypeOK <=> ELP!TypeOK
  /\ EL!TypeOK' <=> ELP!TypeOK'
  /\ [EL!Next]_EL!vars <=> [ELP!Next]_ELP!vars
<1>1. EL!Init <=> ELP!Init
  BY DEF EL!Init, ELP!Init, EL!Threads, ELP!Threads
<1>2. (EL!TypeOK <=> ELP!TypeOK) /\ (EL!TypeOK' <=> ELP!TypeOK')
  BY DEF EL!TypeOK, ELP!TypeOK, EL!Threads, ELP!Threads, EL!UserCode, ELP!UserCode
<1>3. [EL!Next]_EL!vars <=> [ELP!Next]_ELP!vars
  BY DEF EL!Threads, ELP!Threads, EL!isInLoopThread, ELP!isInLoopThread, EL!UserCode,
         ELP!UserCode, EL!MayCall, ELP!MayCall, EL!Wakes, ELP!Wakes, EL!QuitWakes,
         ELP!QuitWakes, EL!queueInLoop, ELP!queueInLoop, EL!runInLoop, ELP!runInLoop,
         EL!quit, ELP!quit, EL!wakeup, ELP!wakeup, EL!EnterLoop, ELP!EnterLoop,
         EL!KeepLooping, ELP!KeepLooping, EL!LeaveLoop, ELP!LeaveLoop, EL!Readable,
         ELP!Readable, EL!PollEvents, ELP!PollEvents, EL!AfterTimeout, ELP!AfterTimeout,
         EL!PollTimeout, ELP!PollTimeout, EL!handleRead, ELP!handleRead, EL!CallHandler,
         ELP!CallHandler, EL!BeginPending, ELP!BeginPending, EL!Swapped, ELP!Swapped,
         EL!SwapPending, ELP!SwapPending, EL!CallFunctor, ELP!CallFunctor, EL!EndPending,
         ELP!EndPending, EL!Return, ELP!Return, EL!LoopStep, ELP!LoopStep, EL!Next,
         ELP!Next, EL!loopVars, ELP!loopVars, EL!sharedVars, ELP!sharedVars, EL!callVars,
         ELP!callVars, EL!history, ELP!history, EL!vars, ELP!vars
<1> QED
  BY <1>1, <1>2, <1>3

LEMMA LoopTypeStep ==
  ASSUME EL!TypeOK, [EL!Next]_EL!vars
  PROVE  EL!TypeOK'
BY Threads, ELP!TypeStep, SameLoop

\* What each step of the model does to the loop inside it.
LEMMA StepRunsLoop ==
  ASSUME [Next]_vars
  PROVE  [EL!Next]_EL!vars
<1> SUFFICES \/ EL!LoopStep \/ EL!PollTimeout \/ EL!EnterLoop \/ UNCHANGED elVars
             \/ \E t \in {Creator, LoopThread} :
                  \/ EL!wakeup(t) \/ EL!quit(t)
                  \/ \E f \in Functors : EL!queueInLoop(t, f) \/ EL!runInLoop(t, f)
  BY LoopSteps
<1>1. CASE LoopStep \/ PollTimeout \/ \E t \in {Creator, LoopThread} : UserCalls(t) \/ Wakeup(t)
  BY <1>1 DEF LoopStep, PollTimeout, UserCalls, Wakeup
<1>2. CASE UNCHANGED vars \/ Finished
  BY <1>2 DEF vars, Finished, elVars
<1> USE DEF Moves
<1>3. CASE Start \/ StartFails \/ Destroy \/ SpuriousWakeup
  BY <1>3 DEF Start, StartFails, Destroy, SpuriousWakeup
<1>4. CASE CreatorStep
  BY <1>4 DEF CreatorStep, SemWaitReturns, CheckLoop, TestLoop, QuitLoop, Join, Unwind
<1>5. CASE ThreadStep
  BY <1>5 DEF ThreadStep, PostTid, ConstructLoop, Publish, EnterLoop, ClearLoop, ReleaseLock,
              DestroyLoop
<1> QED
  BY <1>1, <1>2, <1>3, <1>4, <1>5 DEF Next

-----------------------------------------------------------------------------
(* The inductive invariant *)

Ready == {"published", "looping"}
Ended == {"clearing", "leaving", "dead"}

\* loop_ and alive follow the new thread.
PointerFollows ==
  /\ loop_ = "loop" <=> thread \in Ready
  /\ alive <=> thread \in {"initcb", "published", "looping", "clearing", "leaving"}

\* The creator is ahead of the handshake only where there is no thread.
CreatorFollows ==
  /\ thread = "none" => creator \in {"idle", "testing", "unwinding", "gone", "crashed"}
  /\ creator = "idle" => thread = "none"
  /\ creator = "quitting" => thread # "none"
  /\ creator \in {"started", "testing", "quitting"} /\ thread # "none" =>
       thread \in Ready \cup Ended

\* Unless user code asked, only the destructor stops the loop, and it waits.
StopIsAsked ==
  userQuit \/
    /\ thread = "looping" /\ (quit_ \/ pc = "outside") => creator = "joining"
    /\ thread \in {"clearing", "leaving"} => creator = "joining"
    /\ thread = "dead" => creator \in {"joining", "unwinding", "gone"}
    /\ creator \in {"unwinding", "gone"} => thread \in {"none", "dead"}

Handshake == PointerFollows /\ CreatorFollows /\ StopIsAsked

IInv == TypeOK /\ Handshake

LEMMA InitIInv == Init => IInv
<1> SUFFICES ASSUME Init PROVE IInv
  OBVIOUS
<1>1. EL!TypeOK
  BY Threads, SameLoop, ELP!InitIInv DEF Init, ELP!IInv
<1>2. OwnTypes
  BY DEF Init, OwnTypes
<1>3. Handshake
  BY DEF Init, Handshake, PointerFollows, CreatorFollows, StopIsAsked, Ready, Ended
<1> QED
  BY <1>1, <1>2, <1>3, TypeParts DEF IInv

\* The creator and the new thread outside the loop.
LEMMA HandshakeStep ==
  ASSUME IInv,
         \/ Start \/ StartFails \/ Destroy \/ SpuriousWakeup \/ SemWaitReturns \/ CheckLoop \/ TestLoop
         \/ QuitLoop \/ Join \/ Unwind
         \/ ThreadStep
  PROVE  IInv'
<1>a. EL!TypeOK /\ OwnTypes /\ Handshake
  BY TypeParts DEF IInv
<1>b. EL!TypeOK' /\ OwnTypes' /\ Handshake' => IInv'
  BY TypeParts DEF IInv
<1>1. EL!TypeOK'
  <2>1. [Next]_vars
    BY DEF Next, CreatorStep
  <2> QED
    BY <1>a, <2>1, StepRunsLoop, LoopTypeStep
<1> USE DEF OwnTypes, Handshake, PointerFollows, CreatorFollows, StopIsAsked, Ready, Ended,
            members, elVars
<1>2. OwnTypes' /\ Handshake'
  <2>1. CASE Start
    BY <1>a, <2>1 DEF Start
  <2>15. CASE StartFails
    BY <1>a, <2>15 DEF StartFails
  <2>2. CASE Destroy
    BY <1>a, <2>2 DEF Destroy, Moves
  <2>3. CASE SpuriousWakeup \/ SemWaitReturns
    BY <1>a, <2>3 DEF SpuriousWakeup, SemWaitReturns, Moves
  <2>4. CASE CheckLoop
    BY <1>a, <2>4 DEF CheckLoop, AfterCheck, Moves
  <2>5. CASE TestLoop
    BY <1>a, <2>5 DEF TestLoop, Moves
  <2>6. CASE QuitLoop
    <3>1. CASE Moves("quitting", "crashed") /\ loop_ = "null"
      BY <1>a, <3>1 DEF Moves
    <3>2. CASE /\ creator = "quitting" /\ loop_ = "loop" /\ creator' = "joining"
               /\ EL!quit(Creator) /\ UNCHANGED <<members, thread, userQuit>>
      BY <1>a, <3>2
    <3> QED
      BY <2>6, <3>1, <3>2 DEF QuitLoop
  <2>7. CASE Join
    BY <1>a, <2>7 DEF Join, MayJoin
  <2>8. CASE Unwind
    <3>1. CASE DetachesNothing
      BY <1>a, <2>8, <3>1 DEF Unwind, Moves, DetachesNothing
    <3>2. CASE ~DetachesNothing
      BY <1>a, <2>8, <3>2 DEF Unwind, Moves
    <3> QED
      BY <3>1, <3>2
  <2>9. CASE PostTid
    BY <1>a, <2>9 DEF PostTid
  <2>14. CASE ConstructLoop
    BY <1>a, <2>14 DEF ConstructLoop
  <2>10. CASE Publish
    BY <1>a, <2>10 DEF Publish, Notified
  <2>11. CASE EnterLoop
    BY <1>a, <2>11 DEF EnterLoop, EL!EnterLoop
  <2>12. CASE ClearLoop
    BY <1>a, <2>12 DEF ClearLoop, Cleared
  <2>13. CASE ReleaseLock \/ DestroyLoop
    BY <1>a, <2>13 DEF ReleaseLock, DestroyLoop
  <2> QED
    BY <2>1, <2>2, <2>3, <2>4, <2>5, <2>6, <2>7, <2>8, <2>9, <2>10, <2>11, <2>12, <2>13,
       <2>14, <2>15 DEF ThreadStep
<1> QED
  BY <1>b, <1>1, <1>2

\* The loop and its users.
LEMMA LoopStepIInv ==
  ASSUME IInv,
         \/ LoopStep \/ PollTimeout
         \/ \E t \in {Creator, LoopThread} : UserCalls(t) \/ Wakeup(t)
         \/ UNCHANGED vars
  PROVE  IInv'
<1>a. EL!TypeOK /\ OwnTypes /\ Handshake
  BY TypeParts DEF IInv
<1>1. EL!TypeOK'
  <2>1. [Next]_vars
    BY DEF Next
  <2> QED
    BY <1>a, <2>1, StepRunsLoop, LoopTypeStep
<1>2. UNCHANGED ownVars
  BY DEF LoopStep, PollTimeout, UserCalls, Wakeup, vars
<1>3. userQuit' = userQuit \/ userQuit' = TRUE
  BY DEF LoopStep, PollTimeout, UserCalls, Wakeup, vars
<1>4. userQuit' = TRUE \/ (quit_' = quit_ /\ (pc' = "outside" => pc = "outside" \/ quit_))
  <2>1. CASE LoopStep \/ PollTimeout
    BY <2>1, LoopKeepsQuit DEF LoopStep, PollTimeout
  <2>2. ASSUME NEW t \in {Creator, LoopThread}, UserCalls(t) \/ Wakeup(t)
        PROVE  userQuit' = TRUE \/ (quit_' = quit_ /\ pc' = pc)
    BY <2>2, CallsKeepQuit DEF UserCalls, Wakeup
  <2>3. CASE UNCHANGED vars
    BY <2>3 DEF vars, elVars
  <2> QED
    BY <2>1, <2>2, <2>3
<1>5. OwnTypes'
  BY <1>a, <1>2, <1>3 DEF OwnTypes, ownVars, members
<1>6. Handshake'
  <2>1. PointerFollows' /\ CreatorFollows'
    BY <1>a, <1>2 DEF Handshake, PointerFollows, CreatorFollows, ownVars, members
  <2>2. StopIsAsked'
    BY <1>a, <1>2, <1>3, <1>4 DEF OwnTypes, Handshake, StopIsAsked, ownVars
  <2> QED
    BY <2>1, <2>2 DEF Handshake
<1> QED
  BY <1>1, <1>5, <1>6, TypeParts DEF IInv

LEMMA StepIInv == IInv /\ [Next]_vars => IInv'
<1> SUFFICES ASSUME IInv, [Next]_vars PROVE IInv'
  OBVIOUS
<1>1. \/ \/ Start \/ StartFails \/ Destroy \/ SpuriousWakeup \/ SemWaitReturns \/ CheckLoop \/ TestLoop
         \/ QuitLoop \/ Join \/ Unwind
         \/ ThreadStep
      \/ \/ LoopStep \/ PollTimeout
         \/ \E t \in {Creator, LoopThread} : UserCalls(t) \/ Wakeup(t)
         \/ UNCHANGED vars
  BY DEF Next, CreatorStep, Finished
<1> QED
  BY <1>1, HandshakeStep, LoopStepIInv

LEMMA Invariance == Spec => []IInv
  BY InitIInv, StepIInv, PTL DEF Spec

-----------------------------------------------------------------------------
(* Invariants *)

\* Type correctness of the handshake and of the loop inside it; no thread exists
\* without started_.
THEOREM TypeCorrect == Spec => []TypeOK
<1>1. IInv => TypeOK
  BY DEF IInv
<1> QED
  BY <1>1, Invariance, PTL

\* The published pointer never dangles, whoever quits the loop.
THEOREM PublishedIsAlive == Spec => []PublishedLoopIsAlive
<1>1. IInv => PublishedLoopIsAlive
  BY DEF IInv, Handshake, PointerFollows, PublishedLoopIsAlive, Ready
<1> QED
  BY <1>1, Invariance, PTL

\* What startLoop returned stays good up to the destructor's quit.
THEOREM StartedStays == Spec => []StartedLoopStays
<1>1. IInv => StartedLoopStays
  BY TypeParts DEF IInv, OwnTypes, Handshake, PointerFollows, CreatorFollows, StopIsAsked,
                   StartedLoopStays, Ready, Ended
<1> QED
  BY <1>1, Invariance, PTL

\* A destructor that stops the loop leaves no thread behind.
THEOREM ObjectOutlivesThread == Spec => []NoThreadOutlivesObject
<1>1. IInv => NoThreadOutlivesObject
  BY DEF IInv, Handshake, StopIsAsked, NoThreadOutlivesObject
<1> QED
  BY <1>1, Invariance, PTL

-----------------------------------------------------------------------------
(* The loop inside: what EventLoop_proofs shows holds for it *)

\* The part of EL!Spec that is not fairness.
THEOREM RunsEventLoop == Spec => EL!Init /\ [][EL!Next]_EL!vars
<1>1. Init => EL!Init
  BY DEF Init
<1> QED
  BY <1>1, StepRunsLoop, PTL DEF Spec

LEMMA LoopInvariance == Spec => []ELP!IInv
<1>1. Init => ELP!IInv
  BY Threads, SameLoop, ELP!InitIInv DEF Init
<1>2. ELP!IInv /\ [Next]_vars => ELP!IInv'
  <2> SUFFICES ASSUME ELP!IInv, [Next]_vars PROVE ELP!IInv'
    OBVIOUS
  <2>1. [ELP!Next]_ELP!vars
    BY StepRunsLoop, SameLoop
  <2>2. ELP!TypeOK'
    BY <2>1, Threads, ELP!TypeStep DEF ELP!IInv
  <2>3. ELP!Signalling'
    BY <2>1, Threads, ELP!SignallingStep
  <2> QED
    BY <2>2, <2>3 DEF ELP!IInv
<1> QED
  BY <1>1, <1>2, PTL DEF Spec

\* A loop asleep in epoll_wait over a functor or a quit has a write of the
\* eventfd behind or before it, in an EventLoopThread too.
LEMMA LoopIsSignalled == ELP!IInv => EL!NoLostWakeup
BY DEF ELP!IInv, ELP!Signalling, ELP!WakesItself, ELP!QueuedIsSignalled, ELP!QuitIsSignalled,
       ELP!PastSwap, ELP!WakeupComes, EL!NoLostWakeup, EL!WakeupComes

\* NoLostWakeup of EventLoop.tla holds of the loop in its thread: what the
\* creator and the loop's handlers queue or quit, it does not sleep on.
THEOREM NoWakeupIsLost == Spec => []EL!NoLostWakeup
  BY LoopIsSignalled, LoopInvariance, PTL

LEMMA SameQueue ==
  /\ EL!FQ!Init <=> ELP!FQ!Init
  /\ [EL!FQ!Next]_EL!FQ!vars <=> [ELP!FQ!Next]_ELP!FQ!vars
BY DEF EL!FQ!Init, ELP!FQ!Init, EL!FQ!Next, ELP!FQ!Next, EL!FQ!vars, ELP!FQ!vars, EL!Waiting,
       ELP!Waiting, EL!FQ!Submit, ELP!FQ!Submit, EL!FQ!ExecuteNow, ELP!FQ!ExecuteNow,
       EL!FQ!Execute, ELP!FQ!Execute

\* From the creator's and the loop's user code alike, callbacks go through one
\* FIFO queue, before, during and after the handshake.
THEOREM LoopIsFunctorQueue == Spec => EL!ImplementsFunctorQueue
<1>1. Init => EL!FQ!Init
  BY Threads, SameLoop, SameQueue, ELP!InitRefines DEF Init
<1>2. ELP!IInv /\ [Next]_vars => [EL!FQ!Next]_EL!FQ!vars
  BY StepRunsLoop, SameLoop, SameQueue, Threads, ELP!StepRefines
<1> QED
  BY <1>1, <1>2, LoopInvariance, PTL DEF Spec, EL!ImplementsFunctorQueue, EL!FQ!Spec

-----------------------------------------------------------------------------
(* Refinement of ServedLoop *)

\* Once entered, the loop is left because of quit_, which nothing resets.
LeftOnQuit ==
  /\ thread = "looping" /\ pc = "outside" => quit_
  /\ thread \in {"clearing", "leaving"} => quit_

\* While startLoop waits on the condition variable, the notify is still ahead:
\* the new thread has not published its loop yet.  (Unless user code quit the
\* loop first: it may be cleared before the creator looks.)
NotifyIsToCome == creator = "waiting" => thread \in {"constructing", "initcb"} \/ userQuit

\* The creator looks at loop_ only when the new thread has posted its tid, and
\* waits only for a publication to come.
WaitIsHeard ==
  /\ creator \in {"checking", "waiting"} => thread \notin {"none", "starting"}
  /\ NotifyIsToCome

LEMMA ServiceStep ==
  ASSUME IInv, LeftOnQuit, WaitIsHeard, [Next]_vars
  PROVE  LeftOnQuit' /\ WaitIsHeard'
<1>a. OwnTypes /\ Handshake
  BY TypeParts DEF IInv
<1> USE DEF LeftOnQuit, WaitIsHeard, NotifyIsToCome
<1>1. CASE LoopStep \/ PollTimeout
  <2>1. quit_' = quit_ /\ (pc' = "outside" => quit_)
    BY <1>1, LoopKeepsQuit DEF LoopStep, PollTimeout
  <2> QED
    BY <1>1, <2>1 DEF LoopStep, PollTimeout, ownVars
<1>2. ASSUME NEW t \in {Creator, LoopThread}, UserCalls(t) \/ Wakeup(t)
      PROVE  LeftOnQuit' /\ WaitIsHeard'
  <2>1. pc' = pc /\ (quit_' = quit_ \/ quit_' = TRUE)
    BY <1>2 DEF UserCalls, Wakeup, EL!quit, EL!wakeup, EL!queueInLoop, EL!runInLoop,
                EL!loopVars, EL!sharedVars
  <2>2. UNCHANGED ownVars /\ (userQuit' = userQuit \/ userQuit' = TRUE)
    BY <1>2 DEF UserCalls, Wakeup
  <2> QED
    BY <2>1, <2>2 DEF ownVars
<1>3. CASE QuitLoop
  <2>1. pc' = pc /\ (quit_' = quit_ \/ quit_' = TRUE)
    BY <1>3 DEF QuitLoop, Moves, elVars, EL!quit, EL!loopVars
  <2>2. /\ creator' \in {"joining", "crashed"}
        /\ thread' = thread
    BY <1>3 DEF QuitLoop, Moves
  <2> QED
    BY <2>1, <2>2
<1> USE DEF Moves, elVars, members
<1>4. CASE Start \/ StartFails \/ Destroy \/ SpuriousWakeup
  BY <1>4 DEF Start, StartFails, Destroy, SpuriousWakeup
<1>5. CASE SemWaitReturns \/ TestLoop \/ Join \/ Unwind
  BY <1>5, <1>a DEF SemWaitReturns, TestLoop, Join, Unwind, OwnTypes, Handshake, CreatorFollows
<1>6. CASE CheckLoop
  BY <1>6, <1>a DEF CheckLoop, AfterCheck, OwnTypes, Handshake, PointerFollows, StopIsAsked, Ready
<1>7. CASE PostTid \/ ConstructLoop \/ Publish
  BY <1>7 DEF PostTid, ConstructLoop, Publish, Notified
<1>8. CASE EnterLoop
  BY <1>8, <1>a DEF EnterLoop, EL!EnterLoop, OwnTypes, Handshake, CreatorFollows
<1>9. CASE ClearLoop \/ ReleaseLock \/ DestroyLoop
  BY <1>9, <1>a DEF ClearLoop, ReleaseLock, DestroyLoop, OwnTypes, Handshake, CreatorFollows
<1>10. CASE UNCHANGED vars
  BY <1>10 DEF vars, ownVars
<1> QED
  BY <1>1, <1>2, <1>3, <1>4, <1>5, <1>6, <1>7, <1>8, <1>9, <1>10
     DEF Next, CreatorStep, ThreadStep, Finished

Service == IInv /\ LeftOnQuit /\ WaitIsHeard

LEMMA ServiceInvariance == Spec => []Service
<1>1. Init => Service
  BY InitIInv DEF Init, Service, LeftOnQuit, WaitIsHeard, NotifyIsToCome
<1>2. Service /\ [Next]_vars => Service'
  BY StepIInv, ServiceStep DEF Service
<1> QED
  BY <1>1, <1>2, PTL DEF Spec

\* startLoop waits only while the notify is still to come.
THEOREM WaitingIsNotified == Spec => []NotifyIsToCome
<1>1. Service => NotifyIsToCome
  BY DEF Service, WaitIsHeard
<1> QED
  BY <1>1, ServiceInvariance, PTL

\* Starting, the handing over and the end of startLoop, the destructor's quit
\* and join, and the thread's four places are ServedLoop's actions.
LEMMA ServedStep ==
  ASSUME Service, [Next]_vars
  PROVE  [SL!Next]_SL!vars
<1>a. OwnTypes /\ Handshake /\ LeftOnQuit /\ WaitIsHeard
  BY TypeParts DEF Service, IInv
<1> USE DEF Place, Owner, SL!vars, SL!InService
<1>1. CASE LoopStep \/ PollTimeout
  <2>1. quit_' = quit_
    BY <1>1, LoopKeepsQuit DEF LoopStep, PollTimeout
  <2> QED
    BY <1>1, <2>1 DEF LoopStep, PollTimeout, ownVars, members
<1>2. ASSUME NEW t \in {Creator, LoopThread}, UserCalls(t) \/ Wakeup(t)
      PROVE  [SL!Next]_SL!vars
  <2>1. UNCHANGED ownVars
    BY <1>2 DEF UserCalls, Wakeup
  <2>2. CASE quit_' = quit_ /\ userQuit' = userQuit
    BY <2>1, <2>2 DEF ownVars, members
  <2>3. CASE UserCalls(t) /\ quit_' = TRUE /\ userQuit' = TRUE
    <3>1. thread \notin {"none", "dead"}
      BY <2>3, <1>a DEF UserCalls, InUserCode, Handshake, PointerFollows
    <3>2. SL!UserQuit
      BY <1>a, <2>1, <2>3, <3>1 DEF ownVars, members, SL!UserQuit, OwnTypes
    <3> QED
      BY <3>2 DEF SL!Next
  <2> QED
    BY <1>2, <2>2, <2>3, CallsKeepQuit DEF UserCalls, Wakeup, EL!quit
<1>3. CASE QuitLoop
  <2>1. CASE /\ creator = "quitting" /\ loop_ = "loop"
             /\ EL!quit(Creator) /\ creator' = "joining"
             /\ UNCHANGED <<members, thread, userQuit>>
    <3>1. SL!Quit
      BY <1>a, <2>1 DEF members, SL!Quit, EL!quit, OwnTypes, Handshake, PointerFollows, Ready
    <3> QED
      BY <3>1 DEF SL!Next
  <2>2. CASE loop_ = "null" /\ Moves("quitting", "crashed")
    <3>1. userQuit /\ thread # "none"
      BY <1>a, <2>2 DEF Moves, OwnTypes, Handshake, PointerFollows, CreatorFollows, StopIsAsked,
                        Ready, Ended
    <3>2. SL!Abandon
      BY <2>2, <3>1 DEF Moves, members, elVars, SL!Abandon
    <3> QED
      BY <3>2 DEF SL!Next
  <2> QED
    BY <1>3, <2>1, <2>2 DEF QuitLoop
<1> USE DEF Moves, elVars, members
<1>4. CASE Start
  <2>1. SL!Start
    BY <1>4, <1>a DEF Start, SL!Start, Handshake, CreatorFollows
  <2> QED
    BY <2>1 DEF SL!Next
<1>5. CASE StartFails \/ Destroy \/ SpuriousWakeup \/ SemWaitReturns \/ Unwind
  <2>1. UNCHANGED SL!vars
    BY <1>5, <1>a DEF StartFails, Destroy, SpuriousWakeup, SemWaitReturns, Unwind, OwnTypes, Handshake,
                      CreatorFollows
  <2> QED
    BY <2>1
<1>6. CASE CheckLoop
  <2>1. CASE loop_ = "null"
    BY <1>6, <2>1 DEF CheckLoop, AfterCheck
  <2>2. CASE loop_ = "loop"
    <3>1. SL!Return
      BY <1>6, <1>a, <2>2 DEF CheckLoop, AfterCheck, SL!Return, OwnTypes, Handshake,
                              PointerFollows, Ready
    <3> QED
      BY <3>1 DEF SL!Next
  <2> QED
    BY <1>a, <2>1, <2>2 DEF OwnTypes
<1>7. CASE TestLoop
  <2>1. CASE thread = "none"
    <3>1. loop_ = "null"
      BY <1>a, <2>1 DEF OwnTypes, Handshake, PointerFollows, Ready
    <3>2. SL!Discard
      BY <1>7, <2>1, <3>1 DEF TestLoop, SL!Discard
    <3> QED
      BY <3>2 DEF SL!Next
  <2>2. CASE thread # "none" /\ loop_ = "loop"
    BY <1>7, <2>2 DEF TestLoop
  <2>3. CASE thread # "none" /\ loop_ = "null"
    <3>1. userQuit
      BY <1>7, <1>a, <2>3 DEF TestLoop, OwnTypes, Handshake, PointerFollows, CreatorFollows,
                              StopIsAsked, Ready, Ended
    <3>2. SL!Abandon
      BY <1>7, <2>3, <3>1 DEF TestLoop, SL!Abandon
    <3> QED
      BY <3>2 DEF SL!Next
  <2> QED
    BY <1>a, <2>1, <2>2, <2>3 DEF OwnTypes
<1>8. CASE Join
  <2>1. SL!Join
    BY <1>8 DEF Join, MayJoin, SL!Join
  <2> QED
    BY <2>1 DEF SL!Next
<1>9. CASE PostTid \/ ConstructLoop \/ ClearLoop \/ ReleaseLock
  BY <1>9 DEF PostTid, ConstructLoop, ClearLoop, ReleaseLock
<1>10. CASE Publish
  <2>1. SL!Publish
    BY <1>10 DEF Publish, Notified, SL!Publish
  <2> QED
    BY <2>1 DEF SL!Next
<1>11. CASE EnterLoop
  <2>1. SL!EnterLoop
    BY <1>11 DEF EnterLoop, EL!EnterLoop, SL!EnterLoop
  <2> QED
    BY <2>1 DEF SL!Next
<1>12. CASE DestroyLoop
  <2>1. SL!LeaveLoop
    BY <1>12, <1>a DEF DestroyLoop, LeftOnQuit, SL!LeaveLoop
  <2> QED
    BY <2>1 DEF SL!Next
<1>13. CASE UNCHANGED vars
  BY <1>13 DEF vars, ownVars
<1> QED
  BY <1>1, <1>2, <1>3, <1>4, <1>5, <1>6, <1>7, <1>8, <1>9, <1>10, <1>11, <1>12, <1>13
     DEF Next, CreatorStep, ThreadStep, Finished

\* An EventLoopThread, whole EventLoop included, keeps its promise to its owner.
THEOREM ServesItsOwner == Spec => ImplementsServedLoop
<1>1. Init => SL!Init
  BY DEF Init, EL!Init, SL!Init, Place, Owner
<1>2. Service /\ [Next]_vars => [SL!Next]_SL!vars
  BY ServedStep
<1> QED
  BY <1>1, <1>2, ServiceInvariance, PTL DEF Spec, ImplementsServedLoop, SL!Spec
=============================================================================

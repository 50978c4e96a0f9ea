-------------------------- MODULE EventLoopThread ---------------------------
(***************************************************************************)
(* EventLoopThread.cc over Thread.cc and EventLoop.cc: a creator thread    *)
(* starts a loop thread, waits on a condition variable for the address of  *)
(* the EventLoop on that thread's stack, uses the loop, and destroys the   *)
(* EventLoopThread, which quits the loop and joins the thread.             *)
(*                                                                         *)
(* The loop itself is EventLoop.tla, whole.  Its user code on the loop     *)
(* thread is the ThreadInitCallback before loop() and the handlers and     *)
(* functors inside it; its only client is the creator.                     *)
(*                                                                         *)
(* Abstractions.  mutex_ is held across several actions only where         *)
(* threadFunc ends (loop_ = nullptr, then the lock's destructor), because  *)
(* ~EventLoopThread reads loop_ without it.  tid_ and exiting_ are written *)
(* and never read: they are left out, the semaphore they ride on is not.   *)
(* A user who knows that the loop is gone does not call it.                *)
(***************************************************************************)
EXTENDS Sequences

CONSTANTS
  Creator, LoopThread,    \* the two threads
  Functors,               \* callbacks the creator and the loop's user code queue
  Quitters,               \* threads whose user code calls loop->quit() itself
  WakeupChannel_, UserChannels

ASSUME TwoThreadsAssumption ==
  /\ Creator # LoopThread /\ WakeupChannel_ \notin UserChannels
  /\ Quitters \subseteq {Creator, LoopThread}

VARIABLES
  looping_, quit_, callingPendingFunctors_, pendingFunctors_, functors,
  activeChannels_, wakeupFd_, registered, pc, call, fresh, ran, queuedOutside,
  loop_,     \* EventLoopThread::loop_, "null" or "loop"
  alive,     \* is the EventLoop on the loop thread's stack constructed?
  started_,  \* Thread::started_
  joined_,   \* Thread::joined_
  thread,    \* where the new thread is in Thread's lambda and threadFunc
  creator,   \* where the creator is in startLoop and ~EventLoopThread
  userQuit   \* history: user code has called quit

EL == INSTANCE EventLoop WITH Clients <- {Creator}

elVars == <<looping_, quit_, callingPendingFunctors_, pendingFunctors_, functors,
            activeChannels_, wakeupFd_, registered, pc, call, fresh, ran, queuedOutside>>
members == <<loop_, alive, started_, joined_>>
ownVars == <<members, thread, creator>>
vars == <<elVars, ownVars, userQuit>>

Init ==
  /\ EL!Init
  /\ loop_ = "null"
  /\ alive = FALSE
  /\ started_ = FALSE
  /\ joined_ = FALSE
  /\ thread = "none"
  /\ creator = "idle"
  /\ userQuit = FALSE

-----------------------------------------------------------------------------
(* The creator: startLoop *)

MutexFree == thread # "clearing"

(* As in EventLoop.tla, operators named ...Bug are slips in the operator after *)
(* them; no specification uses them.                                          *)

\* started_ is forgotten.
StartBug ==
  /\ creator = "idle" /\ creator' = "semwait"
  /\ thread' = "starting"
  /\ UNCHANGED <<elVars, members, userQuit>>

\* Thread::start up to the creation of the std::thread.
Start ==
  /\ creator = "idle" /\ creator' = "semwait"
  /\ started_' = TRUE /\ thread' = "starting"
  /\ UNCHANGED <<elVars, loop_, alive, joined_, userQuit>>

\* The constructor of std::thread throws, out of startLoop too: thread_ stays
\* null and started_ set.  The owner may try again.
StartFails ==
  /\ creator = "idle"
  /\ started_' = TRUE
  /\ UNCHANGED <<elVars, loop_, alive, joined_, thread, creator, userQuit>>

\* What the creator does next, with nothing else changed.
Moves(from, to) ==
  /\ creator = from /\ creator' = to
  /\ UNCHANGED <<elVars, members, thread, userQuit>>

\* sem_wait returns once the new thread has posted its tid.
SemWaitReturns == thread # "starting" /\ Moves("semwait", "checking")

\* No test of loop_ at all.
AfterCheckBug == "started"

AfterCheck == IF loop_ = "null" THEN "waiting" ELSE "started"

\* while(loop_ == nullptr) cond_.wait(lock), then loop = loop_ and return.
CheckLoop == MutexFree /\ Moves("checking", AfterCheck)

\* A condition variable may wake without a notify.
SpuriousWakeup == Moves("waiting", "checking")

-----------------------------------------------------------------------------
(* The creator: ~EventLoopThread, with or without a thread started *)

Destroy ==
  /\ call[Creator] = "none"
  /\ Moves("idle", "testing") \/ Moves("started", "testing")

\* if(loop_ != nullptr), read without mutex_.
TestLoop == Moves("testing", IF loop_ = "null" THEN "unwinding" ELSE "quitting")

\* Joins a loop that was never asked to stop.
QuitLoopBug == Moves("quitting", "joining")

\* loop_->quit() reads loop_ again: through a null pointer if threadFunc has
\* cleared it since the test.
QuitLoop ==
  \/ /\ creator = "quitting" /\ loop_ = "loop"
     /\ EL!quit(Creator) /\ creator' = "joining"
     /\ UNCHANGED <<members, thread, userQuit>>
  \/ loop_ = "null" /\ Moves("quitting", "crashed")

\* detach() in place of join().
MayJoinBug == call[Creator] = "none"

MayJoin == call[Creator] = "none" /\ thread = "dead"

\* Thread::join, called when quit has returned, returns when the thread ends.
\* (The code sets joined_ before it waits; only this thread reads it, later.)
Join ==
  /\ creator = "joining" /\ MayJoin
  /\ joined_' = TRUE /\ creator' = "unwinding"
  /\ UNCHANGED <<elVars, loop_, alive, started_, thread, userQuit>>

\* detach() is called through the null pointer of a start that failed.
DetachesNothing == started_ /\ ~joined_ /\ thread = "none"

\* The members are destroyed: the mutex, and in ~Thread the std::thread,
\* detached if it was started and not joined.
Unwind == Moves("unwinding", IF DetachesNothing THEN "crashed" ELSE "gone")

-----------------------------------------------------------------------------
(* The new thread: Thread's lambda, then threadFunc *)

\* tid_ is set and the semaphore posted.
PostTid ==
  /\ thread = "starting" /\ thread' = "constructing"
  /\ UNCHANGED <<elVars, members, creator, userQuit>>

\* EventLoop loop; then callback_(&loop), user code, runs in "initcb".
ConstructLoop ==
  /\ thread = "constructing" /\ thread' = "initcb"
  /\ alive' = TRUE
  /\ UNCHANGED <<elVars, loop_, started_, joined_, creator, userQuit>>

\* Without the notify_one.
NotifiedBug == creator

Notified == IF creator = "waiting" THEN "checking" ELSE creator

\* The callback has returned: loop_ = &loop and notify_one, under mutex_.
Publish ==
  /\ thread = "initcb" /\ thread' = "published"
  /\ call[LoopThread] = "none"
  /\ loop_' = "loop" /\ creator' = Notified
  /\ UNCHANGED <<elVars, alive, started_, joined_, userQuit>>

EnterLoop ==
  /\ thread = "published" /\ thread' = "looping"
  /\ EL!EnterLoop
  /\ UNCHANGED <<members, creator, userQuit>>

\* Leaves the address of the dying loop in place.
ClearedBug == loop_

Cleared == "null"

\* loop() has returned: the lock is taken and loop_ cleared.
ClearLoop ==
  /\ thread = "looping" /\ thread' = "clearing"
  /\ pc = "outside"
  /\ loop_' = Cleared
  /\ UNCHANGED <<elVars, alive, started_, joined_, creator, userQuit>>

\* The end of the scope: the lock is destroyed first, then the EventLoop.
ReleaseLock ==
  /\ thread = "clearing" /\ thread' = "leaving"
  /\ UNCHANGED <<elVars, members, creator, userQuit>>

DestroyLoop ==
  /\ thread = "leaving" /\ thread' = "dead"
  /\ alive' = FALSE
  /\ UNCHANGED <<elVars, loop_, started_, joined_, creator, userQuit>>

-----------------------------------------------------------------------------
(* The loop and its users *)

InUserCode(t) ==
  \/ t = Creator /\ creator = "started" /\ alive
  \/ t = LoopThread /\ thread = "initcb"
  \/ t = LoopThread /\ thread = "looping" /\ pc # "outside"

UserCalls(t) ==
  /\ InUserCode(t)
  /\ \/ (\E f \in Functors : EL!queueInLoop(t, f) \/ EL!runInLoop(t, f)) /\ UNCHANGED userQuit
     \/ t \in Quitters /\ EL!quit(t) /\ userQuit' = TRUE
  /\ UNCHANGED ownVars

Wakeup(t) == EL!wakeup(t) /\ UNCHANGED <<ownVars, userQuit>>

LoopStep == thread = "looping" /\ EL!LoopStep /\ UNCHANGED <<ownVars, userQuit>>

PollTimeout == thread = "looping" /\ EL!PollTimeout /\ UNCHANGED <<ownVars, userQuit>>

\* Both threads are through, or the process is: nothing is left to happen.
Finished ==
  /\ creator \in {"gone", "crashed"} /\ thread \in {"none", "dead"}
  /\ UNCHANGED vars

CreatorStep == SemWaitReturns \/ CheckLoop \/ TestLoop \/ QuitLoop \/ Join \/ Unwind
ThreadStep ==
  PostTid \/ ConstructLoop \/ Publish \/ EnterLoop \/ ClearLoop \/ ReleaseLock \/ DestroyLoop

Next ==
  \/ Start \/ StartFails \/ Destroy \/ SpuriousWakeup \/ CreatorStep
  \/ ThreadStep \/ LoopStep \/ PollTimeout
  \/ \E t \in {Creator, LoopThread} : UserCalls(t) \/ Wakeup(t)
  \/ Finished

\* A thread inside the library keeps running and epoll_wait times out; no one
\* must start, use or destroy the object.
Fairness ==
  /\ WF_vars(CreatorStep)
  /\ WF_vars(ThreadStep)
  /\ WF_vars(LoopStep /\ (pc = "poll" => EL!Readable # {}))
  /\ WF_vars(PollTimeout)
  /\ \A t \in {Creator, LoopThread} : WF_vars(Wakeup(t))

Spec == Init /\ [][Next]_vars /\ Fairness

-----------------------------------------------------------------------------
(* Properties *)

\* Type invariant of the handshake's own variables and of the loop's; no thread
\* exists without Thread::started_, by which ~Thread detaches it.
TypeOK ==
  /\ EL!TypeOK
  /\ loop_ \in {"null", "loop"}
  /\ alive \in BOOLEAN /\ started_ \in BOOLEAN /\ joined_ \in BOOLEAN
  /\ thread \in {"none", "starting", "constructing", "initcb", "published",
                 "looping", "clearing", "leaving", "dead"}
  /\ creator \in {"idle", "semwait", "checking", "waiting", "started", "testing",
                  "quitting", "joining", "unwinding", "gone", "crashed"}
  /\ userQuit \in BOOLEAN
  /\ thread # "none" => started_

\* PublishedLoopIsAlive: loop_ never points to an EventLoop that is not yet
\* constructed or already destroyed (threadFunc clears it before the scope
\* ends), so startLoop never returns such an address.
PublishedLoopIsAlive == loop_ = "loop" => alive

\* StartedLoopStays: the pointer that startLoop returned stays good until
\* ~EventLoopThread has used it: its two unlocked reads of loop_ (the test and
\* the quit) see the same live loop, unless user code quit that loop itself.
StartedLoopStays ==
  thread # "none" /\ creator \in {"started", "testing", "quitting"} =>
    userQuit \/ (loop_ = "loop" /\ alive)

\* NoThreadOutlivesObject: no loop thread survives ~EventLoopThread when it is
\* the destructor that stops the loop: threadFunc uses the object's mutex_,
\* loop_ and callback_ to its last line.  (If a handler quit the loop, the
\* destructor may find loop_ null, join nothing, and leave threadFunc with a
\* destroyed mutex.)
NoThreadOutlivesObject ==
  creator = "gone" => thread \in {"none", "dead"} \/ userQuit

\* The handshake as its owner sees it: constructed, published, looping, dead.
Place ==
  CASE thread \in {"starting", "constructing", "initcb"} -> "starting"
    [] thread \in {"looping", "clearing", "leaving"} -> "looping"
    [] OTHER -> thread

Owner ==
  CASE creator = "idle" \/ (creator = "testing" /\ thread = "none") -> "idle"
    [] creator \in {"semwait", "checking", "waiting"} -> "waiting"
    [] creator \in {"started", "testing", "quitting"} /\ thread # "none" -> "using"
    [] creator = "joining" -> "joining"
    [] OTHER -> "gone"

SL == INSTANCE ServedLoop WITH place <- Place, quit <- quit_, owner <- Owner, stray <- userQuit

\* ImplementsServedLoop: the semaphore, the condition variable, the two unlocked
\* reads of loop_ and the loop itself do for the owner what ServedLoop says: the
\* loop is handed over once and in service, it is left only when it was quit,
\* and only a quit that is not the destructor's lets the owner go without
\* joining.
ImplementsServedLoop == SL!Spec

\* StartReturns: startLoop returns: no notify between the test of loop_ and
\* the wait is lost.  (A handler that quits first makes loop_ null again before
\* the creator looks, which then waits for ever.)
StartReturns == creator = "semwait" ~> (creator = "started" \/ userQuit)

\* DestructorReturnsOnceLooping: a destructor that runs after the thread has
\* entered loop() returns, with the thread ended and joined.
DestructorReturnsOnceLooping ==
  (creator = "testing" /\ thread = "looping" /\ pc # "outside")
    ~> (userQuit \/ (creator = "gone" /\ joined_ /\ thread = "dead"))

\* DestructorReturns: EventLoop.hpp:38 says of quit: leave the event loop.  So
\* the quit in ~EventLoopThread ends the loop it then joins.
DestructorReturns == creator = "quitting" ~> creator = "gone"

\* WakeupReachesLoop: EventLoop.cc:136 says that a quit from another thread
\* wakes the thread of the loop, to test quit_ in loop().  So the EventLoop is
\* still there when quit comes to its wakeup().
WakeupReachesLoop == call[Creator] = "waking" => alive

=============================================================================

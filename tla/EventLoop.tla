----------------------------- MODULE EventLoop ------------------------------
(***************************************************************************)
(* EventLoop.cc: one reactor, its own thread, and the other threads that   *)
(* hand it callbacks with runInLoop/queueInLoop or stop it with quit.      *)
(*                                                                         *)
(* Abstractions.                                                           *)
(*  - A critical section under mutex_ is one action: pendingFunctors_ is   *)
(*    touched nowhere else.                                                *)
(*  - A callback body (functor or channel handler) is user code.  While    *)
(*    the loop thread is inside one it may make any number of calls back   *)
(*    into the loop, then returns.                                         *)
(*  - The eventfd is the Boolean "counter > 0": all that epoll and read(2) *)
(*    (which resets the counter) let the program see.                      *)
(*  - Channels stand for their handlers.  registered is the set of         *)
(*    channels in the epoll interest list.  In this commit WakeupChannel_  *)
(*    is not in it: enableReading ends in Channel::update, whose call to   *)
(*    updateChannel is commented out (Channel.cc:51-58), and no caller     *)
(*    outside EventLoop can name the private WakeupChannel_.  Init takes   *)
(*    this program and the one with the call; properties that need the     *)
(*    call say Wired.                                                      *)
(***************************************************************************)
EXTENDS Sequences, Functions, FiniteSets

CONSTANTS
  Clients,         \* threads other than the loop's own
  LoopThread,      \* the thread that constructs the EventLoop and runs loop()
  Functors,        \* callbacks they may hand over, each once
  WakeupChannel_,  \* the loop's own channel on the eventfd
  UserChannels     \* the channels that users registered in the poller

ASSUME ThreadsAssumption ==
  LoopThread \notin Clients /\ WakeupChannel_ \notin UserChannels

VARIABLES
  looping_,                \* std::atomic_bool
  quit_,                   \* std::atomic_bool
  callingPendingFunctors_, \* std::atomic_bool
  pendingFunctors_,        \* the shared vector, guarded by mutex_
  functors,                \* rest of the batch local to doPendingFunctors
  activeChannels_,         \* reported channels not handled yet
  wakeupFd_,               \* is the eventfd readable?
  registered,              \* the channels that poll() can report
  pc,                      \* where the loop thread is in (or outside) loop()
  call,                    \* where each thread is in an API call
  fresh,                   \* history: functors not handed over yet
  ran,                     \* history: functors run, in order
  queuedOutside            \* history: the owner queued a functor outside
                           \* loop() and no batch has been taken since

loopVars   == <<looping_, callingPendingFunctors_, functors, activeChannels_, pc>>
sharedVars == <<quit_, pendingFunctors_, wakeupFd_>>
callVars   == <<registered, call, fresh>>
history    == <<ran, queuedOutside>>
vars == <<loopVars, sharedVars, callVars, history>>

Threads == Clients \cup {LoopThread}

isInLoopThread(t) == t = LoopThread

\* Places of the loop thread at which user code runs on it: before, between
\* and after calls of loop(), in a channel's handler, and in a functor.
UserCode == {"outside", "handler", "functor"}

MayCall(t) ==
  /\ call[t] = "none"
  /\ isInLoopThread(t) => pc \in UserCode

-----------------------------------------------------------------------------
\* The constructor ends in WakeupChannel_->enableReading().  In this commit its
\* Channel::update makes no call and the channel stays out of the poller; both
\* this and the program with the call are checked.
Init ==
  /\ looping_ = FALSE
  /\ quit_ = FALSE
  /\ callingPendingFunctors_ = FALSE
  /\ pendingFunctors_ = <<>>
  /\ functors = <<>>
  /\ activeChannels_ = {}
  /\ wakeupFd_ = FALSE
  /\ registered \in {UserChannels, UserChannels \cup {WakeupChannel_}}
  /\ pc = "outside"
  /\ call = [t \in Threads |-> "none"]
  /\ fresh = Functors
  /\ ran = <<>>
  /\ queuedOutside = FALSE

-----------------------------------------------------------------------------
(* The calls open to every thread *)

(* Operators whose names end in "Bug" are slips a programmer could make in   *)
(* the operator defined after them.  No specification uses them: they show   *)
(* that each property below can fail.                                        *)

\* Wakes the loop only while it runs functors.
WakesSilentBug(t) == callingPendingFunctors_

\* Forgets that a functor may queue a functor.
WakesNestedBug(t) == ~isInLoopThread(t)

\* Does queueInLoop write the eventfd?
Wakes(t) == ~isInLoopThread(t) \/ callingPendingFunctors_

\* queueInLoop up to the end of its critical section.  Whether a wakeup
\* follows is decided here: only the loop thread reads (line 161, after the
\* ||) and writes callingPendingFunctors_, so nothing can change it between.
queueInLoop(t, f) ==
  /\ MayCall(t)
  /\ f \in fresh
  /\ fresh' = fresh \ {f}
  /\ pendingFunctors_' = Append(pendingFunctors_, f)
  /\ call' = [call EXCEPT ![t] = IF Wakes(t) THEN "waking" ELSE "none"]
  /\ queuedOutside' = (queuedOutside \/ (isInLoopThread(t) /\ pc = "outside"))
  /\ UNCHANGED <<loopVars, quit_, wakeupFd_, registered, ran>>

\* runInLoop on the loop's own thread calls the functor; its body is part of
\* the user code that called.  On another thread it is queueInLoop.
runInLoop(t, f) ==
  \/ /\ isInLoopThread(t)
     /\ MayCall(t)
     /\ f \in fresh
     /\ fresh' = fresh \ {f}
     /\ ran' = Append(ran, f)
     /\ UNCHANGED <<loopVars, sharedVars, registered, call, queuedOutside>>
  \/ ~isInLoopThread(t) /\ queueInLoop(t, f)

\* Nobody is woken.
QuitWakesBug(t) == FALSE

QuitWakes(t) == ~isInLoopThread(t)

\* quit sets the flag first and wakes the loop afterwards, unless it is the
\* loop's own thread.
quit(t) ==
  /\ MayCall(t)
  /\ quit_' = TRUE
  /\ call' = [call EXCEPT ![t] = IF QuitWakes(t) THEN "waking" ELSE "none"]
  /\ UNCHANGED <<loopVars, pendingFunctors_, wakeupFd_, registered, fresh, history>>

\* The write(2) to the eventfd that ends queueInLoop and quit.
wakeup(t) ==
  /\ call[t] = "waking"
  /\ wakeupFd_' = TRUE
  /\ call' = [call EXCEPT ![t] = "none"]
  /\ UNCHANGED <<loopVars, quit_, pendingFunctors_, registered, fresh, history>>

-----------------------------------------------------------------------------
(* The loop thread: loop(), poll, dispatch *)

\* loop() is entered by its owner; quit_ = false forgets an earlier quit.
EnterLoop ==
  /\ pc = "outside" /\ call[LoopThread] = "none"
  /\ looping_' = TRUE /\ quit_' = FALSE /\ pc' = "test"
  /\ UNCHANGED <<callingPendingFunctors_, pendingFunctors_, functors, activeChannels_,
                 wakeupFd_, callVars, history>>

\* while(!quit_) goes round: the list is cleared and epoll_wait entered.
KeepLooping ==
  /\ pc = "test" /\ ~quit_
  /\ activeChannels_' = {} /\ pc' = "poll"
  /\ UNCHANGED <<looping_, callingPendingFunctors_, functors, sharedVars, callVars, history>>

LeaveLoop ==
  /\ pc = "test" /\ quit_
  /\ looping_' = FALSE /\ pc' = "outside"
  /\ UNCHANGED <<callingPendingFunctors_, functors, activeChannels_, sharedVars, callVars, history>>

\* The channels epoll must report: level-triggered and readable.
Readable == IF wakeupFd_ THEN registered \cap {WakeupChannel_} ELSE {}

\* epoll_wait reports events.  Whether a user's channel is ready is up to its
\* peer; the kernel's order is arbitrary, hence a set.
PollEvents ==
  /\ pc = "poll"
  /\ \E others \in SUBSET UserChannels : activeChannels_' = Readable \cup others
  /\ activeChannels_' # {}
  /\ pc' = "dispatch"
  /\ UNCHANGED <<looping_, callingPendingFunctors_, functors, sharedVars, callVars, history>>

\* No event, so on to the next round: the functors are skipped.
AfterTimeoutBug == "test"

AfterTimeout == "dispatch"

\* epoll_wait returns 0 after kPollTimeMs, or -1 on a signal: no channel.
PollTimeout ==
  /\ pc = "poll" /\ Readable = {}
  /\ pc' = AfterTimeout
  /\ UNCHANGED <<looping_, callingPendingFunctors_, functors, activeChannels_, sharedVars,
                 callVars, history>>

\* WakeupChannel_'s read callback: read(2) resets the counter.
handleRead ==
  /\ pc = "dispatch" /\ WakeupChannel_ \in activeChannels_
  /\ activeChannels_' = activeChannels_ \ {WakeupChannel_}
  /\ wakeupFd_' = FALSE
  /\ UNCHANGED <<looping_, quit_, callingPendingFunctors_, pendingFunctors_, functors, pc,
                 callVars, history>>

\* channel->handleEvent enters the handler of a user's channel.
CallHandler ==
  /\ pc = "dispatch"
  /\ \E ch \in activeChannels_ \ {WakeupChannel_} : activeChannels_' = activeChannels_ \ {ch}
  /\ pc' = "handler"
  /\ UNCHANGED <<looping_, callingPendingFunctors_, functors, sharedVars, callVars, history>>

-----------------------------------------------------------------------------
(* The loop thread: doPendingFunctors *)

BeginPending ==
  /\ pc = "dispatch" /\ activeChannels_ = {}
  /\ callingPendingFunctors_' = TRUE /\ pc' = "swap"
  /\ UNCHANGED <<looping_, functors, activeChannels_, sharedVars, callVars, history>>

\* What the swap leaves in pendingFunctors_: the batch that was run.
Swapped == functors

\* functors.swap(pendingFunctors_), functors being empty, under the mutex.
SwapPending ==
  /\ pc = "swap"
  /\ functors' = pendingFunctors_ /\ pendingFunctors_' = Swapped
  /\ queuedOutside' = FALSE /\ pc' = "batch"
  /\ UNCHANGED <<looping_, callingPendingFunctors_, activeChannels_, quit_, wakeupFd_,
                 callVars, ran>>

\* Runs the batch from its back.
CallFunctorBug ==
  /\ pc = "batch" /\ functors # <<>>
  /\ ran' = Append(ran, functors[Len(functors)])
  /\ functors' = SubSeq(functors, 1, Len(functors) - 1)
  /\ pc' = "functor"
  /\ UNCHANGED <<looping_, callingPendingFunctors_, activeChannels_, sharedVars, callVars,
                 queuedOutside>>

CallFunctor ==
  /\ pc = "batch" /\ functors # <<>>
  /\ ran' = Append(ran, Head(functors)) /\ functors' = Tail(functors)
  /\ pc' = "functor"
  /\ UNCHANGED <<looping_, callingPendingFunctors_, activeChannels_, sharedVars, callVars,
                 queuedOutside>>

\* callingPendingFunctors_ stays set.
EndPendingBug ==
  /\ pc = "batch" /\ functors = <<>>
  /\ pc' = "test"
  /\ UNCHANGED <<looping_, callingPendingFunctors_, functors, activeChannels_, sharedVars,
                 callVars, history>>

EndPending ==
  /\ pc = "batch" /\ functors = <<>>
  /\ callingPendingFunctors_' = FALSE /\ pc' = "test"
  /\ UNCHANGED <<looping_, functors, activeChannels_, sharedVars, callVars, history>>

\* User code returns to the loop that called it.
Return ==
  /\ call[LoopThread] = "none"
  /\ \/ pc = "handler" /\ pc' = "dispatch"
     \/ pc = "functor" /\ pc' = "batch"
  /\ UNCHANGED <<looping_, callingPendingFunctors_, functors, activeChannels_, sharedVars,
                 callVars, history>>

-----------------------------------------------------------------------------

\* What the loop thread does of itself once inside loop(), but for the timeout.
LoopStep ==
  \/ KeepLooping \/ LeaveLoop
  \/ PollEvents \/ handleRead \/ CallHandler
  \/ BeginPending \/ SwapPending \/ CallFunctor \/ EndPending
  \/ Return

Next ==
  \/ \E t \in Threads, f \in Functors : queueInLoop(t, f) \/ runInLoop(t, f)
  \/ \E t \in Threads : quit(t) \/ wakeup(t)
  \/ EnterLoop \/ LoopStep \/ PollTimeout

\* Threads that are inside the library keep running, callbacks return, and
\* nothing obliges a user to call, a channel to become ready, or an owner to
\* enter loop().  PollEvents is fair only when the eventfd makes it certain.
FairCalls == \A t \in Threads : WF_vars(wakeup(t))
FairLoop  == WF_vars(LoopStep /\ (pc = "poll" => Readable # {}))

Spec == Init /\ [][Next]_vars /\ FairCalls /\ FairLoop

\* epoll_wait is given kPollTimeMs = 10000, so it does return.  Properties that
\* need this say so.
FairTimeout == WF_vars(PollTimeout)

-----------------------------------------------------------------------------
(* Properties *)

\* Type invariant of the EventLoop's members and of the threads' positions, with
\* what the two flags of the loop thread tell of its place: looping_ that it is
\* in loop(), and callingPendingFunctors_, by which queueInLoop decides whether
\* to write the eventfd, that it is in doPendingFunctors.
TypeOK ==
  /\ looping_ \in BOOLEAN
  /\ quit_ \in BOOLEAN
  /\ callingPendingFunctors_ \in BOOLEAN
  /\ pendingFunctors_ \in Seq(Functors)
  /\ functors \in Seq(Functors)
  /\ registered \in {UserChannels, UserChannels \cup {WakeupChannel_}}
  /\ activeChannels_ \subseteq registered
  /\ wakeupFd_ \in BOOLEAN
  /\ pc \in {"test", "poll", "dispatch", "swap", "batch"} \cup UserCode
  /\ call \in [Threads -> {"none", "waking"}]
  /\ fresh \subseteq Functors
  /\ ran \in Seq(Functors)
  /\ queuedOutside \in BOOLEAN
  /\ looping_ <=> pc # "outside"
  /\ callingPendingFunctors_ <=> pc \in {"swap", "batch", "functor"}

\* Everything handed over and not run yet, in the order it will run.
Waiting == functors \o pendingFunctors_

\* ExactlyOnce: across the swap of pendingFunctors_ with the local batch and
\* whatever other threads append meanwhile, every functor handed over is either
\* run or waiting, in one place, once; none is lost and none runs twice
\* (queueInLoop, runInLoop, doPendingFunctors).
ExactlyOnce ==
  LET all == ran \o Waiting
  IN  IsInjective(all) /\ Range(all) = Functors \ fresh

\* A write to the eventfd is there to be seen, or is about to be made.
WakeupComes == wakeupFd_ \/ \E c \in Clients : call[c] = "waking"

\* NoLostWakeup: the loop thread is never in epoll_wait with a functor queued
\* or a quit requested unless the eventfd is readable or a thread is about to
\* write it: the read in handleRead never consumes the wakeup of a functor the
\* next batch misses.  The exception is a functor queued by the loop's own
\* thread outside loop(), for which queueInLoop writes nothing.
NoLostWakeup ==
  pc = "poll" =>
    /\ quit_ => WakeupComes
    /\ pendingFunctors_ # <<>> => WakeupComes \/ queuedOutside

\* ImplementsFunctorQueue: the locked vector, the swapped batch and the inline
\* call of runInLoop together behave as the FIFO queue of FunctorQueue.tla.
FQ == INSTANCE FunctorQueue WITH queue <- Waiting
ImplementsFunctorQueue == FQ!Spec

\* FunctorsRun: given the timeout, a functor handed over is run, unless the
\* loop is left first (a functor queued after the last swap before quit stays
\* in the vector).
FunctorsRun ==
  FairTimeout =>
    \A f \in Functors :
      f \in Range(Waiting) ~> (f \in Range(ran) \/ pc = "outside")

Wired == WakeupChannel_ \in registered

\* FunctorsRunByWakeup: with WakeupChannel_ in the poller the same holds with no
\* help from the timeout, for every functor that waits while none waits that
\* the owner queued outside loop().
FunctorsRunByWakeup ==
  Wired =>
    \A f \in Functors :
      (f \in Range(Waiting) /\ ~queuedOutside) ~> (f \in Range(ran) \/ pc = "outside")

\* QuitStopsLoop: a quit made while loop() runs, by any thread, ends it: at the
\* wakeup if WakeupChannel_ is in the poller, at the timeout if not.
QuitStopsLoop ==
  Wired \/ FairTimeout => ((quit_ /\ pc # "outside") ~> (pc = "outside"))

\* EventLoop.hpp:48 says wakeup() wakes the thread of the loop.  So epoll_wait
\* does not run into its timeout with the eventfd written.
WakeupEndsPoll == [][PollTimeout => ~wakeupFd_]_vars

=============================================================================

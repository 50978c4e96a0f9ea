---------------------------- MODULE EPollPoller -----------------------------
(***************************************************************************)
(* EPollPoller.cc and Channel.cc on the loop's thread: channels register   *)
(* what they wait for, poll() fills activeChannels_, and loop() lets each  *)
(* of them call its handlers, which may change any registration.           *)
(*                                                                         *)
(*  - Users: a descriptor has one Channel at a time, which is freed by a   *)
(*    pending functor, or in its own handler if it is tied to the object   *)
(*    that owns it.  Channel::update and Channel::remove do nothing in     *)
(*    this commit, so users call updateChannel and removeChannel on the    *)
(*    EventLoop, and may do so late or never.                              *)
(*  - The kernel's interest list is epoll and interest.  It may report the *)
(*    ready descriptors in any order, and which they are is up to their    *)
(*    peers, except that those in Busy are always readable.                *)
(*  - LOG_FATAL is exit(-1): fatal stops everything.  A failed DEL is only *)
(*    logged.                                                              *)
(***************************************************************************)
EXTENDS ChannelEvents, Naturals, Sequences, FiniteSets, Functions

CONSTANTS
  Channels, Fds,
  fd_,                 \* the descriptor of each channel
  callbacks,           \* the handlers set on each channel
  Tied,                \* the channels tied to the object that owns them
  Conditions,          \* what the kernel may report
  Busy,                \* descriptors that always have something to read
  kInitEventListSize,
  None                 \* no channel

ASSUME PollerAssumption ==
  /\ fd_ \in [Channels -> Fds]
  /\ None \notin Channels
  /\ IsFiniteSet(Fds)
  /\ Busy \subseteq Fds
  /\ kInitEventListSize \in Nat \ {0}

VARIABLES
  events_, index_, revents_,   \* members of each Channel
  channels_,                   \* Poller's map from descriptors to channels
  eventListSize,               \* events_.size(), the room for reports
  activeChannels_,             \* EventLoop's vector, from the next channel on
  pc,                          \* "dispatch" in loop()'s for, else "functors"
  current,                     \* the channel in handleEvent
  todo,                        \* handlers it still calls, the running one first
  alive,                       \* channels constructed and not freed
  released,                    \* of these, those kept only by handleEvent's guard
  epoll, interest,             \* the kernel's list: data.ptr and events
  fatal                        \* has the process exited in LOG_FATAL?

chanVars   == <<events_, index_, revents_>>
kernelVars == <<epoll, interest>>
loopVars   == <<eventListSize, activeChannels_, pc, current, todo>>
vars == <<chanVars, channels_, loopVars, alive, released, kernelVars, fatal>>

kNew == "kNew"
kAdded == "kAdded"
kDeleted == "kDeleted"

hasChannel(c) == channels_[fd_[c]] = c

\* User code: a pending functor, or the handler that is running.
UserCode == ~fatal /\ (pc = "functors" \/ todo # <<>>)

Init ==
  /\ events_ = [c \in Channels |-> {}]
  /\ index_ = [c \in Channels |-> kNew]
  /\ revents_ = [c \in Channels |-> {}]
  /\ channels_ = [d \in Fds |-> None]
  /\ eventListSize = kInitEventListSize
  /\ activeChannels_ = <<>>
  /\ pc = "functors"
  /\ current = None
  /\ todo = <<>>
  /\ alive = {}
  /\ released = {}
  /\ epoll = [d \in Fds |-> None]
  /\ interest = [d \in Fds |-> {}]
  /\ fatal = FALSE

-----------------------------------------------------------------------------
(* Life of a channel *)

\* A descriptor is opened and a Channel made for it.
Construct(c) ==
  /\ UserCode
  /\ \A other \in alive : fd_[other] # fd_[c]
  /\ alive' = alive \cup {c}
  /\ UNCHANGED <<chanVars, channels_, loopVars, released, kernelVars, fatal>>

\* ~Acceptor, ~EventLoop: disableAll and remove, which reach nobody, and the
\* descriptor is closed, which takes it out of epoll.
Free(c) ==
  /\ alive' = alive \ {c}
  /\ released' = released \ {c}
  /\ events_' = [events_ EXCEPT ![c] = {}]
  /\ index_' = [index_ EXCEPT ![c] = kNew]
  /\ revents_' = [revents_ EXCEPT ![c] = {}]
  /\ epoll' = [epoll EXCEPT ![fd_[c]] = None]
  /\ interest' = [interest EXCEPT ![fd_[c]] = {}]

Destroy(c) ==
  /\ UserCode /\ pc = "functors" /\ c \in alive
  /\ Free(c)
  /\ UNCHANGED <<channels_, loopVars, fatal>>

(* As in EventLoop.tla, operators named ...Bug are slips in the operator after *)
(* them; no specification uses them.                                          *)

\* handleEvent tests the weak pointer and does not hold it.
ReleaseBug(c) ==
  /\ UserCode /\ c = current /\ c \in Tied
  /\ Free(c)
  /\ UNCHANGED <<channels_, loopVars, fatal>>

\* The last reference to the owner of a tied channel goes in the channel's own
\* handler: the guard in handleEvent keeps both until it returns.
Release(c) ==
  /\ UserCode /\ c = current /\ c \in Tied
  /\ released' = released \cup {c}
  /\ UNCHANGED <<chanVars, channels_, loopVars, alive, kernelVars, fatal>>

-----------------------------------------------------------------------------
(* Channel's setters: events_ changes, and nothing else does *)

SetEvents(c, events) ==
  /\ UserCode /\ c \in alive
  /\ events_' = [events_ EXCEPT ![c] = events]
  /\ UNCHANGED <<index_, revents_, channels_, loopVars, alive, released, kernelVars, fatal>>

enableReading(c)  == SetEvents(c, events_[c] \cup kReadEvent)
disableReading(c) == SetEvents(c, events_[c] \ kReadEvent)
enableWriting(c)  == SetEvents(c, events_[c] \cup kWriteEvent)
\* events_ &= kWriteEvent, without the ~: writing stays and reading goes.
disableWriting(c) == SetEvents(c, events_[c] \cap kWriteEvent)
disableAll(c)     == SetEvents(c, {})

-----------------------------------------------------------------------------
(* updateChannel and removeChannel, with EPollPoller::update in each *)

\* EPOLL_CTL_ADD: EEXIST is fatal.
CtlAdd(c) ==
  LET d == fd_[c]
  IN  /\ fatal' = (epoll[d] # None)
      /\ epoll' = IF epoll[d] # None THEN epoll ELSE [epoll EXCEPT ![d] = c]
      /\ interest' = IF epoll[d] # None THEN interest ELSE [interest EXCEPT ![d] = events_[c]]

\* EPOLL_CTL_MOD: ENOENT is fatal.
CtlMod(c) ==
  LET d == fd_[c]
  IN  /\ fatal' = (epoll[d] = None)
      /\ epoll' = IF epoll[d] = None THEN epoll ELSE [epoll EXCEPT ![d] = c]
      /\ interest' = IF epoll[d] = None THEN interest ELSE [interest EXCEPT ![d] = events_[c]]

CtlDel(c) ==
  /\ epoll' = [epoll EXCEPT ![fd_[c]] = None]
  /\ interest' = [interest EXCEPT ![fd_[c]] = {}]
  /\ UNCHANGED fatal

\* The new channel is not entered in channels_.
AddNewBug(c) ==
  /\ UserCode /\ c \in alive /\ index_[c] = kNew
  /\ index_' = [index_ EXCEPT ![c] = kAdded]
  /\ CtlAdd(c)
  /\ UNCHANGED <<events_, revents_, channels_, loopVars, alive, released>>

AddNew(c) ==
  /\ UserCode /\ c \in alive /\ index_[c] = kNew
  /\ channels_' = [channels_ EXCEPT ![fd_[c]] = c]
  /\ index_' = [index_ EXCEPT ![c] = kAdded]
  /\ CtlAdd(c)
  /\ UNCHANGED <<events_, revents_, loopVars, alive, released>>

\* Without a test for events: a second update adds an idle channel again.
AddAgain(c) ==
  /\ UserCode /\ c \in alive /\ index_[c] = kDeleted /\ hasChannel(c)
  /\ index_' = [index_ EXCEPT ![c] = kAdded]
  /\ CtlAdd(c)
  /\ UNCHANGED <<events_, revents_, channels_, loopVars, alive, released>>

\* set_index(kDeleted) is forgotten.
DelIdleBug(c) ==
  /\ UserCode /\ c \in alive /\ index_[c] = kAdded /\ events_[c] = {}
  /\ CtlDel(c)
  /\ UNCHANGED <<chanVars, channels_, loopVars, alive, released>>

DelIdle(c) ==
  /\ UserCode /\ c \in alive /\ index_[c] = kAdded /\ events_[c] = {}
  /\ CtlDel(c)
  /\ index_' = [index_ EXCEPT ![c] = kDeleted]
  /\ UNCHANGED <<events_, revents_, channels_, loopVars, alive, released>>

ModAdded(c) ==
  /\ UserCode /\ c \in alive /\ index_[c] = kAdded /\ events_[c] # {}
  /\ CtlMod(c)
  /\ UNCHANGED <<chanVars, channels_, loopVars, alive, released>>

updateChannel(c) == AddNew(c) \/ AddAgain(c) \/ DelIdle(c) \/ ModAdded(c)

\* Leaves the descriptor in epoll.
removeChannelBug(c) ==
  /\ UserCode /\ c \in alive /\ hasChannel(c) /\ events_[c] = {} /\ index_[c] # kNew
  /\ channels_' = [channels_ EXCEPT ![fd_[c]] = None]
  /\ index_' = [index_ EXCEPT ![c] = kNew]
  /\ UNCHANGED <<events_, revents_, loopVars, alive, released, kernelVars, fatal>>

\* A channel that is not in the map, or still waits for something, is silently
\* left where it is: that call is a stuttering step.
removeChannel(c) ==
  /\ UserCode /\ c \in alive /\ hasChannel(c) /\ events_[c] = {} /\ index_[c] # kNew
  /\ channels_' = [channels_ EXCEPT ![fd_[c]] = None]
  /\ IF index_[c] = kAdded THEN CtlDel(c) ELSE UNCHANGED <<kernelVars, fatal>>
  /\ index_' = [index_ EXCEPT ![c] = kNew]
  /\ UNCHANGED <<events_, revents_, loopVars, alive, released>>

-----------------------------------------------------------------------------
(* poll and fillActiveChannels *)

\* What epoll reports of descriptor d whose state is ready: hangups and errors
\* are reported whether asked for or not.
Report(d, ready) ==
  IF epoll[d] = None THEN {} ELSE ready \cap (interest[d] \cup {"ERR", "HUP"})

\* The kernel's state of the descriptors, as it may be at an epoll_wait.
Readiness ==
  {ready \in [Fds -> SUBSET Conditions] : \A d \in Busy : "IN" \in ready[d]}

\* epoll_wait fills the event list with as many ready descriptors as fit.
Reports(ready) ==
  LET ds == {d \in Fds : Report(d, ready[d]) # {}}
      n  == IF Cardinality(ds) < eventListSize THEN Cardinality(ds) ELSE eventListSize
  IN  {list \in [1 .. n -> ds] : IsInjective(list)}

\* The check of fillActiveChannels: does the map hold the event's channel?
Matches(d) == hasChannel(epoll[d])

\* The list never grows.
GrownBug(n) == eventListSize

\* The event list doubles when it was filled.
Grown(n) == IF n = eventListSize THEN eventListSize * 2 ELSE eventListSize

\* poll, from the call to the for loop.  fillActiveChannels copies the first k
\* events: it returns at the first that does not match.
Poll ==
  /\ pc = "functors" /\ ~fatal
  /\ \E ready \in Readiness : \E list \in Reports(ready) : \E k \in 0 .. Len(list) :
       /\ \A i \in 1 .. k : Matches(list[i])
       /\ k < Len(list) => ~Matches(list[k + 1])
       /\ activeChannels_' = [i \in 1 .. k |-> epoll[list[i]]]
       /\ revents_' = [c \in Channels |->
            IF \E i \in 1 .. k : epoll[list[i]] = c
            THEN Report(fd_[c], ready[fd_[c]]) ELSE revents_[c]]
       /\ eventListSize' = Grown(Len(list))
  /\ pc' = "dispatch"
  /\ UNCHANGED <<events_, index_, channels_, current, todo, alive, released, kernelVars, fatal>>

-----------------------------------------------------------------------------
(* loop()'s for and handleEvent *)

Calls(c, callback) ==
  IF callback \in callbacks[c] /\ Triggered(callback, revents_[c]) THEN <<callback>> ELSE <<>>

\* What handleEventWithGuard calls, in its order; revents_ does not change
\* before the next poll.
Called(c) == Calls(c, "close") \o Calls(c, "error") \o Calls(c, "read") \o Calls(c, "write")

\* The owner's lock never fails: a channel does not outlive its owner.
handleEvent ==
  /\ pc = "dispatch" /\ ~fatal /\ current = None /\ activeChannels_ # <<>>
  /\ current' = Head(activeChannels_)
  /\ activeChannels_' = Tail(activeChannels_)
  /\ todo' = Called(current')
  /\ UNCHANGED <<chanVars, channels_, eventListSize, pc, alive, released, kernelVars, fatal>>

CallbackReturns ==
  /\ ~fatal /\ todo # <<>>
  /\ todo' = Tail(todo)
  /\ UNCHANGED <<chanVars, channels_, eventListSize, activeChannels_, pc, current,
                 alive, released, kernelVars, fatal>>

\* handleEvent returns, and the guard gives up the last reference if it has it.
HandleEventReturns ==
  /\ ~fatal /\ current # None /\ todo = <<>>
  /\ current' = None
  /\ IF current \in released THEN Free(current)
                             ELSE UNCHANGED <<chanVars, alive, released, kernelVars>>
  /\ UNCHANGED <<channels_, eventListSize, activeChannels_, pc, todo, fatal>>

\* The functors come while the last handler runs.
EndDispatchBug ==
  /\ pc = "dispatch" /\ ~fatal /\ activeChannels_ = <<>>
  /\ pc' = "functors"
  /\ UNCHANGED <<chanVars, channels_, eventListSize, activeChannels_, current, todo,
                 alive, released, kernelVars, fatal>>

\* On to doPendingFunctors.
EndDispatch ==
  /\ pc = "dispatch" /\ ~fatal /\ current = None /\ activeChannels_ = <<>>
  /\ pc' = "functors"
  /\ UNCHANGED <<chanVars, channels_, eventListSize, activeChannels_, current, todo,
                 alive, released, kernelVars, fatal>>

-----------------------------------------------------------------------------
Setters(c) ==
  \/ enableReading(c) \/ disableReading(c)
  \/ enableWriting(c) \/ disableWriting(c) \/ disableAll(c)

LoopStep == handleEvent \/ CallbackReturns \/ HandleEventReturns \/ EndDispatch

Next ==
  \/ \E c \in Channels :
       \/ Construct(c) \/ Destroy(c) \/ Release(c) \/ Setters(c)
       \/ updateChannel(c) \/ removeChannel(c)
  \/ Poll \/ LoopStep

\* The thread keeps running loop(), and functors and handlers return.
Spec == Init /\ [][Next]_vars /\ WF_vars(Poll) /\ WF_vars(LoopStep)

-----------------------------------------------------------------------------
(* Properties *)

Interest == SUBSET (kReadEvent \cup kWriteEvent)

\* Type invariant, with where the loop thread can be: no channel is being
\* handled, or waits to be, while the functors run.
TypeOK ==
  /\ events_ \in [Channels -> Interest]
  /\ index_ \in [Channels -> {kNew, kAdded, kDeleted}]
  /\ revents_ \in [Channels -> SUBSET Conditions]
  /\ channels_ \in [Fds -> Channels \cup {None}]
  /\ eventListSize \in Nat \ {0}
  /\ activeChannels_ \in Seq(Channels)
  /\ pc \in {"functors", "dispatch"}
  /\ current \in Channels \cup {None}
  /\ todo \in Seq({"close", "error", "read", "write"})
  /\ alive \subseteq Channels /\ released \subseteq alive
  /\ epoll \in [Fds -> Channels \cup {None}]
  /\ interest \in [Fds -> Interest]
  /\ fatal \in BOOLEAN
  /\ pc = "functors" => current = None /\ activeChannels_ = <<>>
  /\ current = None => todo = <<>>

\* EpollAgrees: however updates, removals, frees and reuses of a descriptor
\* alternate, index_, channels_ and the kernel tell the same story: the kernel
\* holds exactly the live channels that are kAdded, each under its own
\* descriptor, and a channel that is not kNew is in the map.
EpollAgrees ==
  /\ \A d \in Fds : epoll[d] # None =>
       epoll[d] \in alive /\ fd_[epoll[d]] = d /\ index_[epoll[d]] = kAdded
  /\ \A c \in alive :
       /\ index_[c] = kAdded => epoll[fd_[c]] = c
       /\ index_[c] # kNew => hasChannel(c)

\* NeverFatal: no order of legal calls leads EPollPoller::update to an
\* epoll_ctl that fails and ends the process.
NeverFatal == ~fatal

\* NoDanglingCall: loop() never calls handleEvent on a freed channel, nor is a
\* channel freed under its own handler, though handlers remove channels that
\* are still to come in activeChannels_.
NoDanglingCall ==
  Range(activeChannels_) \cup {current} \subseteq alive \cup {None}

\* PollLosesNoEvent: fillActiveChannels, which gives up at the first event it
\* does not know, never does: after poll all the channels reported are active,
\* as many as there was room for and no fewer than are surely ready.
PollLosesNoEvent ==
  [][pc = "functors" /\ pc' = "dispatch" =>
       \/ Len(activeChannels_') = eventListSize
       \/ \A d \in Busy : epoll[d] # None /\ "IN" \in interest[d] =>
                          epoll[d] \in Range(activeChannels_')]_vars

\* ReadyChannelIsHandled: a registered channel that stays readable is handled,
\* though more descriptors are ready than poll has room for and the kernel may
\* prefer the others: the event list grows until all of them fit.
ReadyChannelIsHandled ==
  \A c \in Channels :
    (fd_[c] \in Busy /\ epoll[fd_[c]] = c /\ "IN" \in interest[fd_[c]])
      ~> (current = c \/ epoll[fd_[c]] # c \/ "IN" \notin interest[fd_[c]])

\* Does a handler of the current channel start at this step?
HandlerStarts == todo' # <<>> /\ todo' # todo

\* RemovedChannelIsSilent: Channel.hpp:54 says of tie that it keeps a channel
\* that was removed by hand from still executing callbacks.  So no handler of a
\* tied channel starts when the channel is no longer in the poller, whether an
\* earlier channel of the batch has removed it or an earlier handler of its own.
RemovedChannelIsSilent ==
  [][HandlerStarts /\ current' \in Tied => hasChannel(current')]_vars

=============================================================================

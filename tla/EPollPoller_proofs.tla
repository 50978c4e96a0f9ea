------------------------- MODULE EPollPoller_proofs -------------------------
(***************************************************************************)
(* Theorems about EPollPoller.tla, for every set of channels, descriptors  *)
(* and conditions: type correctness, the agreement of index_, channels_    *)
(* and epoll, that LOG_FATAL is never reached, that no freed channel is    *)
(* called, that fillActiveChannels never gives an event up, that a channel *)
(* is handled once per poll, and the bound of the event list.              *)
(***************************************************************************)
EXTENDS EPollPoller, SequenceTheorems, FiniteSetTheorems, TLAPS

-----------------------------------------------------------------------------
(* The inductive invariant *)

OneChannelPerFd == \A c, other \in alive : fd_[c] = fd_[other] => c = other

\* A channel constructed again starts with index -1.
FreedIsNew == \A c \in Channels \ alive : index_[c] = kNew

\* Only handleEvent's guard, for the channel it handles, outlives the owner.
ReleasedIsCurrent == released \subseteq {current}

\* The channels still to come are alive, all different, and different from the
\* one being handled, so freeing that one when it returns harms none of them.
AheadIsAlive ==
  /\ current # None => current \in alive
  /\ \A i \in 1 .. Len(activeChannels_) :
       /\ activeChannels_[i] \in alive
       /\ activeChannels_[i] # current
       /\ \A j \in 1 .. Len(activeChannels_) :
            activeChannels_[i] = activeChannels_[j] => i = j

Registry == EpollAgrees /\ OneChannelPerFd /\ FreedIsNew /\ NeverFatal
Batch == ReleasedIsCurrent /\ AheadIsAlive

IInv == TypeOK /\ Registry /\ Batch

LEMMA InitIInv == Init => IInv
<1> SUFFICES ASSUME Init PROVE IInv
  OBVIOUS
<1> USE PollerAssumption DEF Init
<1>0. <<>> \in Seq(Channels) /\ <<>> \in Seq({"close", "error", "read", "write"})
  OBVIOUS
<1>1. TypeOK
  BY <1>0 DEF TypeOK, Interest
<1>2. Registry
  BY DEF Registry, EpollAgrees, OneChannelPerFd, FreedIsNew, NeverFatal
<1>3. Batch
  BY DEF Batch, ReleasedIsCurrent, AheadIsAlive
<1> QED
  BY <1>1, <1>2, <1>3 DEF IInv

-----------------------------------------------------------------------------
(* What epoll_wait reports *)

\* Is there room for every descriptor?
RoomForAll == Cardinality(Fds) <= eventListSize

\* The list of reports is injective, holds registered descriptors only, and all
\* of the ready ones unless it is full and too short for them.
LEMMA ReportsFacts ==
  ASSUME TypeOK, NEW ready \in Readiness, NEW list \in Reports(ready)
  PROVE  /\ Len(list) \in Nat /\ list \in [1 .. Len(list) -> Fds]
         /\ \A i \in 1 .. Len(list) : Report(list[i], ready[list[i]]) # {}
         /\ \A i, j \in 1 .. Len(list) : list[i] = list[j] => i = j
         /\ Len(list) # eventListSize \/ RoomForAll =>
              \A d \in Fds : Report(d, ready[d]) # {} => \E i \in 1 .. Len(list) : list[i] = d
<1> DEFINE ds == {d \in Fds : Report(d, ready[d]) # {}}
           n  == IF Cardinality(ds) < eventListSize THEN Cardinality(ds) ELSE eventListSize
<1>1. /\ IsFiniteSet(ds) /\ Cardinality(ds) \in Nat
      /\ Cardinality(Fds) \in Nat /\ Cardinality(ds) <= Cardinality(Fds)
  BY PollerAssumption, FS_Subset, FS_CardinalityType
<1>2. n \in Nat
  BY <1>1 DEF TypeOK
<1>3. list \in [1 .. n -> ds] /\ IsInjective(list)
  BY DEF Reports
<1>4. n # eventListSize \/ RoomForAll => n = Cardinality(ds)
  BY <1>1 DEF RoomForAll, TypeOK
<1>5. \A d : d \in ds <=> d \in Fds /\ Report(d, ready[d]) # {}
  OBVIOUS
<1> HIDE DEF ds, n
<1>6. Len(list) = n
  BY <1>2, <1>3
<1>7. \A i, j \in 1 .. n : list[i] = list[j] => i = j
  BY <1>3 DEF IsInjective
<1>8. ASSUME n # eventListSize \/ RoomForAll, NEW d \in ds
      PROVE  \E i \in 1 .. n : list[i] = d
  <2>1. IsFiniteSet(1 .. n) /\ Cardinality(1 .. n) = n
    BY <1>2, FS_Interval
  <2>2. list \in Injection(1 .. n, ds)
    BY <1>3, <1>7 DEF Injection, IsInjective
  <2>3. list \in Surjection(1 .. n, ds)
    BY <1>1, <1>4, <1>8, <2>1, <2>2, FS_Injection
  <2> QED
    BY <1>8, <2>3 DEF Surjection
<1>9. list \in [1 .. n -> Fds]
  BY <1>3, <1>5
<1>10. \A i \in 1 .. n : Report(list[i], ready[list[i]]) # {}
  BY <1>3, <1>5
<1> QED
  BY <1>2, <1>5, <1>6, <1>7, <1>8, <1>9, <1>10

\* As long as the map and epoll agree, every event passes the check.
LEMMA ReportedMatches ==
  ASSUME TypeOK, EpollAgrees, NEW ready \in Readiness, NEW d \in Fds,
         Report(d, ready[d]) # {}
  PROVE  /\ epoll[d] # None /\ epoll[d] \in alive /\ fd_[epoll[d]] = d
         /\ Matches(d)
  BY DEF EpollAgrees, Report, Matches, kNew, kAdded

\* Poll's outcome when fillActiveChannels copies every event of list.
Filled(ready, list) ==
  /\ activeChannels_' = [i \in 1 .. Len(list) |-> epoll[list[i]]]
  /\ revents_' = [c \in Channels |->
       IF \E i \in 1 .. Len(list) : epoll[list[i]] = c
       THEN Report(fd_[c], ready[fd_[c]]) ELSE revents_[c]]
  /\ eventListSize' = Grown(Len(list))

\* It always does: its early return is never taken.
LEMMA PollFills ==
  ASSUME IInv, Poll
  PROVE  \E ready \in Readiness : \E list \in Reports(ready) : Filled(ready, list)
<1> DEFINE Outcome(ready, list, k) ==
             /\ k < Len(list) => ~Matches(list[k + 1])
             /\ activeChannels_' = [i \in 1 .. k |-> epoll[list[i]]]
             /\ revents_' = [c \in Channels |->
                  IF \E i \in 1 .. k : epoll[list[i]] = c
                  THEN Report(fd_[c], ready[fd_[c]]) ELSE revents_[c]]
             /\ eventListSize' = Grown(Len(list))
<1>1. \E ready \in Readiness : \E list \in Reports(ready) : \E k \in 0 .. Len(list) :
        Outcome(ready, list, k)
  BY DEF Poll
<1> HIDE DEF Outcome
<1>2. PICK ready \in Readiness : \E list \in Reports(ready) : \E k \in 0 .. Len(list) :
        Outcome(ready, list, k)
  BY <1>1
<1>3. PICK list \in Reports(ready) : \E k \in 0 .. Len(list) : Outcome(ready, list, k)
  BY <1>2
<1>4. PICK k \in 0 .. Len(list) : Outcome(ready, list, k)
  BY <1>3
<1>5. TypeOK /\ EpollAgrees
  BY DEF IInv, Registry
<1>6. /\ Len(list) \in Nat /\ list \in [1 .. Len(list) -> Fds]
      /\ \A i \in 1 .. Len(list) : Report(list[i], ready[list[i]]) # {}
  BY <1>5, ReportsFacts
<1>7. \A i \in 1 .. Len(list) : Matches(list[i])
  BY <1>5, <1>6, ReportedMatches
<1>a. k \in 0 .. Len(list)
  OBVIOUS
<1>b. Len(list) \in Nat
  BY <1>6
<1>8. k = Len(list)
  <2>1. k < Len(list) => ~Matches(list[k + 1])
    BY <1>4 DEF Outcome
  <2>2. k < Len(list) => k + 1 \in 1 .. Len(list)
    BY <1>6
  <2>3. ~(k < Len(list))
    BY <1>7, <2>1, <2>2
  <2> QED
    BY <1>a, <1>b, <2>3
<1>9. Filled(ready, list)
  BY <1>4, <1>8 DEF Outcome, Filled
<1> QED
  BY <1>9

-----------------------------------------------------------------------------
(* Types *)

LEMMA FreeTypes ==
  ASSUME TypeOK, NEW c \in Channels, Free(c)
  PROVE  /\ events_' \in [Channels -> Interest]
         /\ index_' \in [Channels -> {kNew, kAdded, kDeleted}]
         /\ revents_' \in [Channels -> SUBSET Conditions]
         /\ alive' \subseteq Channels /\ released' \subseteq alive'
         /\ epoll' \in [Fds -> Channels \cup {None}]
         /\ interest' \in [Fds -> Interest]
  BY PollerAssumption DEF TypeOK, Free, Interest

LEMMA CtlTypes ==
  ASSUME TypeOK, NEW c \in Channels, CtlAdd(c) \/ CtlMod(c) \/ CtlDel(c)
  PROVE  /\ epoll' \in [Fds -> Channels \cup {None}]
         /\ interest' \in [Fds -> Interest]
         /\ fatal' \in BOOLEAN
<1>1. fd_[c] \in Fds /\ events_[c] \in Interest /\ {} \in Interest
  BY PollerAssumption DEF TypeOK, Interest
<1>2. CASE CtlAdd(c)
  BY <1>1, <1>2 DEF TypeOK, CtlAdd
<1>3. CASE CtlMod(c)
  BY <1>1, <1>3 DEF TypeOK, CtlMod
<1>4. CASE CtlDel(c)
  BY <1>1, <1>4 DEF TypeOK, CtlDel
<1> QED
  BY <1>2, <1>3, <1>4

Kinds == {"close", "error", "read", "write"}

LEMMA CalledType == ASSUME NEW c PROVE Called(c) \in Seq(Kinds)
<1>1. \A k \in Kinds : Calls(c, k) \in Seq(Kinds)
  BY DEF Calls
<1>2. /\ Calls(c, "close") \in Seq(Kinds) /\ Calls(c, "error") \in Seq(Kinds)
      /\ Calls(c, "read") \in Seq(Kinds) /\ Calls(c, "write") \in Seq(Kinds)
  BY <1>1 DEF Kinds
<1> QED
  BY <1>2, ConcatProperties DEF Called

\* No step leaves the types.
LEMMA TypeStep == IInv /\ [Next]_vars => TypeOK'
<1> SUFFICES ASSUME IInv, [Next]_vars PROVE TypeOK'
  OBVIOUS
<1>t. TypeOK
  BY DEF IInv
<1> USE PollerAssumption, <1>t
<1>1. ASSUME NEW c \in Channels, Construct(c) PROVE TypeOK'
  BY <1>1 DEF TypeOK, Construct, chanVars, loopVars, kernelVars
<1>2. ASSUME NEW c \in Channels, Destroy(c) PROVE TypeOK'
  BY <1>2, FreeTypes DEF TypeOK, Destroy, loopVars
<1>3. ASSUME NEW c \in Channels, Release(c) PROVE TypeOK'
  <2>1. released' \subseteq alive
    BY <1>3 DEF Release, IInv, Batch, AheadIsAlive, TypeOK
  <2> QED
    BY <1>3, <2>1 DEF TypeOK, Release, chanVars, loopVars, kernelVars
<1>4. ASSUME NEW c \in Channels, Setters(c) PROVE TypeOK'
  <2>1. PICK events \in Interest : SetEvents(c, events)
    <3>1. events_[c] \in Interest
      BY DEF TypeOK
    <3> QED
      BY <1>4, <3>1 DEF Setters, enableReading, disableReading, enableWriting, disableWriting,
                        disableAll, Interest
  <2> QED
    BY <2>1 DEF TypeOK, SetEvents, loopVars, kernelVars
<1>5. ASSUME NEW c \in Channels, updateChannel(c) PROVE TypeOK'
  <2>1. CtlAdd(c) \/ CtlMod(c) \/ CtlDel(c)
    BY <1>5 DEF updateChannel, AddNew, AddAgain, DelIdle, ModAdded
  <2>2. /\ epoll' \in [Fds -> Channels \cup {None}] /\ interest' \in [Fds -> Interest]
        /\ fatal' \in BOOLEAN
    BY <2>1, CtlTypes
  <2>3. /\ index_' \in [Channels -> {kNew, kAdded, kDeleted}]
        /\ channels_' \in [Fds -> Channels \cup {None}]
    BY <1>5 DEF TypeOK, updateChannel, AddNew, AddAgain, DelIdle, ModAdded, chanVars
  <2>4. UNCHANGED <<events_, revents_, loopVars, alive, released>>
    BY <1>5 DEF updateChannel, AddNew, AddAgain, DelIdle, ModAdded, chanVars
  <2> QED
    BY <2>2, <2>3, <2>4 DEF TypeOK, loopVars
<1>6. ASSUME NEW c \in Channels, removeChannel(c) PROVE TypeOK'
  <2>1. CtlDel(c) \/ UNCHANGED <<kernelVars, fatal>>
    BY <1>6 DEF removeChannel
  <2>2. /\ epoll' \in [Fds -> Channels \cup {None}] /\ interest' \in [Fds -> Interest]
        /\ fatal' \in BOOLEAN
    BY <2>1, CtlTypes DEF kernelVars, TypeOK
  <2> QED
    BY <1>6, <2>2 DEF TypeOK, removeChannel, loopVars
<1>7. CASE Poll
  <2>0. PICK ready \in Readiness : \E list \in Reports(ready) : Filled(ready, list)
    BY <1>7, PollFills
  <2>1. PICK list \in Reports(ready) : Filled(ready, list)
    BY <2>0
  <2>2. /\ Len(list) \in Nat /\ list \in [1 .. Len(list) -> Fds]
        /\ \A i \in 1 .. Len(list) : Report(list[i], ready[list[i]]) # {}
    BY ReportsFacts
  <2>3. \A i \in 1 .. Len(list) : epoll[list[i]] \in Channels
    BY <2>2 DEF Report, TypeOK
  <2>4. activeChannels_' \in Seq(Channels)
    BY <2>1, <2>2, <2>3 DEF Filled
  <2>5. revents_' \in [Channels -> SUBSET Conditions]
    BY <2>1 DEF TypeOK, Report, Readiness, Filled
  <2>6. eventListSize' \in Nat \ {0}
    <3>1. PICK size \in Nat \ {0} : size = eventListSize
      BY DEF TypeOK
    <3>2. size * 2 \in Nat \ {0}
      BY <3>1
    <3> QED
      BY <2>1, <3>1, <3>2 DEF Grown, Filled
  <2> QED
    BY <1>7, <2>4, <2>5, <2>6 DEF TypeOK, Poll, kernelVars
<1>8. CASE handleEvent
  <2>1. current' \in Channels /\ activeChannels_' \in Seq(Channels)
    BY <1>8, HeadTailProperties DEF TypeOK, handleEvent
  <2>2. todo' \in Seq(Kinds)
    BY <1>8, CalledType DEF handleEvent
  <2> QED
    BY <1>8, <2>1, <2>2 DEF TypeOK, handleEvent, chanVars, kernelVars, Kinds
<1>9. CASE CallbackReturns
  <2>1. todo' \in Seq(Kinds)
    BY <1>9, HeadTailProperties DEF TypeOK, CallbackReturns, Kinds
  <2> QED
    BY <1>9, <2>1 DEF TypeOK, CallbackReturns, chanVars, kernelVars, Kinds
<1>10. CASE HandleEventReturns
  <2>1. current \in Channels
    BY <1>10 DEF HandleEventReturns, TypeOK
  <2>2. CASE current \in released
    <3>1. Free(current)
      BY <1>10, <2>2 DEF HandleEventReturns
    <3> QED
      BY <1>10, <2>1, <3>1, FreeTypes DEF TypeOK, HandleEventReturns
  <2>3. CASE current \notin released
    BY <1>10, <2>3 DEF TypeOK, HandleEventReturns, chanVars, kernelVars
  <2> QED
    BY <2>2, <2>3
<1>11. CASE EndDispatch
  BY <1>11 DEF TypeOK, EndDispatch, chanVars, kernelVars
<1>12. CASE UNCHANGED vars
  BY <1>12 DEF TypeOK, vars, chanVars, loopVars, kernelVars
<1> QED
  BY <1>1, <1>2, <1>3, <1>4, <1>5, <1>6, <1>7, <1>8, <1>9, <1>10, <1>11, <1>12
     DEF Next, LoopStep

-----------------------------------------------------------------------------
(* The registry *)

\* Freeing a channel leaves the others, and its descriptor, registered as told.
LEMMA FreeKeepsRegistry ==
  ASSUME TypeOK, Registry, NEW c \in alive, Free(c), UNCHANGED <<channels_, fatal>>
  PROVE  Registry'
<1>1. c \in Channels /\ alive' = alive \ {c}
  BY DEF TypeOK, Free
<1>2. \A other \in Channels \ {c} : index_'[other] = index_[other]
  BY <1>1 DEF TypeOK, Free
<1>3. \A other \in alive \ {c} : fd_[other] # fd_[c]
  BY <1>1 DEF Registry, OneChannelPerFd
<1>4. \A other \in alive \ {c} : epoll'[fd_[other]] = epoll[fd_[other]]
  BY <1>1, <1>3, PollerAssumption DEF TypeOK, Free
<1>5. \A d \in Fds : epoll'[d] # None => epoll'[d] = epoll[d] /\ epoll[d] # c
  BY <1>1, PollerAssumption DEF TypeOK, Free, Registry, EpollAgrees
<1>6. EpollAgrees'
  BY <1>1, <1>2, <1>4, <1>5 DEF TypeOK, Registry, EpollAgrees, hasChannel
<1>7. OneChannelPerFd' /\ FreedIsNew' /\ NeverFatal'
  BY <1>1, <1>2 DEF TypeOK, Free, Registry, OneChannelPerFd, FreedIsNew, NeverFatal
<1> QED
  BY <1>6, <1>7 DEF Registry

\* The registry depends on five variables only.
LEMMA RegistryUnchanged ==
  ASSUME Registry, UNCHANGED <<index_, channels_, alive, epoll, fatal>>
  PROVE  Registry'
  BY DEF Registry, EpollAgrees, OneChannelPerFd, FreedIsNew, NeverFatal, hasChannel

\* A channel that is not kAdded finds its descriptor free in epoll, and one
\* that is finds itself there.
LEMMA CtlSucceeds ==
  ASSUME TypeOK, Registry, NEW c \in alive
  PROVE  epoll[fd_[c]] = IF index_[c] = kAdded THEN c ELSE None
<1>1. c \in Channels /\ fd_[c] \in Fds /\ c # None
  BY PollerAssumption DEF TypeOK
<1> QED
  BY <1>1 DEF Registry, EpollAgrees, OneChannelPerFd

LEMMA RegistryStep == IInv /\ [Next]_vars => Registry'
<1> SUFFICES ASSUME IInv, [Next]_vars PROVE Registry'
  OBVIOUS
<1>t. TypeOK /\ Registry /\ Batch
  BY DEF IInv
<1> USE PollerAssumption, <1>t
<1>1. ASSUME NEW c \in Channels, Construct(c) PROVE Registry'
  <2>1. /\ alive' = alive \cup {c} /\ UNCHANGED <<index_, channels_, epoll, fatal>>
        /\ \A other \in alive : fd_[other] # fd_[c]
    BY <1>1 DEF Construct, chanVars, kernelVars
  <2>2. index_[c] = kNew
    BY <2>1 DEF Registry, FreedIsNew
  <2>3. EpollAgrees'
    BY <2>1, <2>2 DEF Registry, EpollAgrees, hasChannel, kNew, kAdded
  <2> QED
    BY <2>1, <2>3 DEF Registry, OneChannelPerFd, FreedIsNew, NeverFatal
<1>2. ASSUME NEW c \in Channels, Destroy(c) PROVE Registry'
  BY <1>2, FreeKeepsRegistry DEF Destroy
<1>3. ASSUME NEW c \in Channels, Release(c) PROVE Registry'
  BY <1>3, RegistryUnchanged DEF Release, chanVars, kernelVars
<1>4. ASSUME NEW c \in Channels, Setters(c) PROVE Registry'
  <2>1. UNCHANGED <<index_, channels_, alive, epoll, fatal>>
    BY <1>4 DEF Setters, enableReading, disableReading, enableWriting, disableWriting,
                disableAll, SetEvents, kernelVars
  <2> QED
    BY <2>1, RegistryUnchanged
<1>5. ASSUME NEW c \in Channels, updateChannel(c) PROVE Registry'
  <2>1. c \in alive /\ fd_[c] \in Fds /\ ~fatal /\ UNCHANGED alive
    BY <1>5 DEF updateChannel, AddNew, AddAgain, DelIdle, ModAdded, UserCode
  <2>2. epoll[fd_[c]] = IF index_[c] = kAdded THEN c ELSE None
    BY <2>1, CtlSucceeds
  <2>3. \A other \in alive \ {c} : fd_[other] # fd_[c]
    BY <2>1 DEF Registry, OneChannelPerFd
  <2>4. CASE AddNew(c) \/ AddAgain(c)
    <3>1. /\ ~fatal' /\ epoll' = [epoll EXCEPT ![fd_[c]] = c]
          /\ index_' = [index_ EXCEPT ![c] = kAdded]
      BY <2>2, <2>4 DEF AddNew, AddAgain, CtlAdd, kNew, kAdded, kDeleted
    <3>2. channels_' = [channels_ EXCEPT ![fd_[c]] = c]
      BY <2>4 DEF AddNew, AddAgain, hasChannel, TypeOK
    <3>3. EpollAgrees'
      BY <2>1, <2>3, <3>1, <3>2 DEF Registry, EpollAgrees, TypeOK, hasChannel
    <3> QED
      BY <2>1, <3>1, <3>3 DEF Registry, OneChannelPerFd, FreedIsNew, NeverFatal, TypeOK
  <2>5. CASE DelIdle(c)
    <3>1. /\ ~fatal' /\ epoll' = [epoll EXCEPT ![fd_[c]] = None] /\ UNCHANGED channels_
          /\ index_' = [index_ EXCEPT ![c] = kDeleted] /\ index_[c] = kAdded
      BY <2>1, <2>5 DEF DelIdle, CtlDel
    <3>2. EpollAgrees'
      BY <2>1, <2>3, <3>1 DEF Registry, EpollAgrees, TypeOK, hasChannel, kNew, kAdded, kDeleted
    <3> QED
      BY <2>1, <3>1, <3>2 DEF Registry, OneChannelPerFd, FreedIsNew, NeverFatal, TypeOK
  <2>6. CASE ModAdded(c)
    <3>1. epoll[fd_[c]] # None /\ epoll[fd_[c]] = c
      BY <2>2, <2>6 DEF ModAdded, TypeOK
    <3>2. UNCHANGED fatal /\ epoll' = epoll
      BY <2>1, <2>6, <3>1 DEF ModAdded, CtlMod, TypeOK
    <3> QED
      BY <2>1, <2>6, <3>2, RegistryUnchanged DEF ModAdded, chanVars
  <2> QED
    BY <1>5, <2>4, <2>5, <2>6 DEF updateChannel
<1>6. ASSUME NEW c \in Channels, removeChannel(c) PROVE Registry'
  <2>1. /\ c \in alive /\ fd_[c] \in Fds /\ ~fatal /\ ~fatal' /\ UNCHANGED alive
        /\ channels_' = [channels_ EXCEPT ![fd_[c]] = None]
        /\ index_' = [index_ EXCEPT ![c] = kNew]
    BY <1>6 DEF removeChannel, UserCode, CtlDel
  <2>2. epoll[fd_[c]] = IF index_[c] = kAdded THEN c ELSE None
    BY <2>1, CtlSucceeds
  <2>3. \A other \in alive \ {c} : fd_[other] # fd_[c]
    BY <2>1 DEF Registry, OneChannelPerFd
  <2>4. epoll' = [epoll EXCEPT ![fd_[c]] = None]
    BY <1>6, <2>1, <2>2 DEF removeChannel, CtlDel, kernelVars, TypeOK
  <2>5. EpollAgrees'
    BY <2>1, <2>3, <2>4 DEF Registry, EpollAgrees, TypeOK, hasChannel, kNew, kAdded
  <2> QED
    BY <2>1, <2>5 DEF Registry, OneChannelPerFd, FreedIsNew, NeverFatal, TypeOK
<1>7. CASE Poll
  BY <1>7, RegistryUnchanged DEF Poll, kernelVars
<1>8. CASE handleEvent
  BY <1>8, RegistryUnchanged DEF handleEvent, chanVars, kernelVars
<1>9. CASE CallbackReturns
  BY <1>9, RegistryUnchanged DEF CallbackReturns, chanVars, kernelVars
<1>10. CASE HandleEventReturns
  <2>1. CASE current \in released
    <3>1. current \in alive /\ Free(current) /\ UNCHANGED <<channels_, fatal>>
      BY <1>10, <2>1 DEF HandleEventReturns, TypeOK
    <3> QED
      BY <3>1, FreeKeepsRegistry
  <2>2. CASE current \notin released
    BY <1>10, <2>2, RegistryUnchanged DEF HandleEventReturns, chanVars, kernelVars
  <2> QED
    BY <2>1, <2>2
<1>11. CASE EndDispatch
  BY <1>11, RegistryUnchanged DEF EndDispatch, chanVars, kernelVars
<1>12. CASE UNCHANGED vars
  BY <1>12, RegistryUnchanged DEF vars, chanVars, kernelVars
<1> QED
  BY <1>1, <1>2, <1>3, <1>4, <1>5, <1>6, <1>7, <1>8, <1>9, <1>10, <1>11, <1>12
     DEF Next, LoopStep

-----------------------------------------------------------------------------
(* The batch *)

\* The batch depends on four variables only, and more live channels do no harm.
LEMMA BatchUnchanged ==
  ASSUME Batch, UNCHANGED <<activeChannels_, current>>, released' \subseteq released,
         alive \subseteq alive'
  PROVE  Batch'
  BY DEF Batch, ReleasedIsCurrent, AheadIsAlive

LEMMA BatchStep == IInv /\ [Next]_vars => Batch'
<1> SUFFICES ASSUME IInv, [Next]_vars PROVE Batch'
  OBVIOUS
<1>t. TypeOK /\ Registry /\ Batch
  BY DEF IInv
<1> USE PollerAssumption, <1>t
<1>1. ASSUME NEW c \in Channels, Construct(c) PROVE Batch'
  BY <1>1, BatchUnchanged DEF Construct, loopVars
<1>2. ASSUME NEW c \in Channels, Destroy(c) PROVE Batch'
  <2>1. /\ activeChannels_' = <<>> /\ current' = None /\ current = None
        /\ released' = released \ {c}
    BY <1>2 DEF Destroy, TypeOK, loopVars, Free
  <2> QED
    BY <2>1 DEF Batch, ReleasedIsCurrent, AheadIsAlive
<1>3. ASSUME NEW c \in Channels, Release(c) PROVE Batch'
  BY <1>3 DEF Release, Batch, ReleasedIsCurrent, AheadIsAlive, loopVars
<1>4. ASSUME NEW c \in Channels, Setters(c) PROVE Batch'
  <2>1. UNCHANGED <<activeChannels_, current, released, alive>>
    BY <1>4 DEF Setters, enableReading, disableReading, enableWriting, disableWriting,
                disableAll, SetEvents, loopVars
  <2> QED
    BY <2>1, BatchUnchanged
<1>5. ASSUME NEW c \in Channels, updateChannel(c) PROVE Batch'
  <2>1. UNCHANGED <<activeChannels_, current, released, alive>>
    BY <1>5 DEF updateChannel, AddNew, AddAgain, DelIdle, ModAdded, loopVars
  <2> QED
    BY <2>1, BatchUnchanged
<1>6. ASSUME NEW c \in Channels, removeChannel(c) PROVE Batch'
  BY <1>6, BatchUnchanged DEF removeChannel, loopVars
<1>7. CASE Poll
  <2>1. PICK ready \in Readiness : \E list \in Reports(ready) : Filled(ready, list)
    BY <1>7, PollFills
  <2>2. PICK list \in Reports(ready) : Filled(ready, list)
    BY <2>1
  <2>3. /\ Len(list) \in Nat /\ list \in [1 .. Len(list) -> Fds]
        /\ \A i \in 1 .. Len(list) : Report(list[i], ready[list[i]]) # {}
        /\ \A i, j \in 1 .. Len(list) : list[i] = list[j] => i = j
    BY ReportsFacts
  <2>4. \A i \in 1 .. Len(list) : epoll[list[i]] \in alive /\ fd_[epoll[list[i]]] = list[i]
    BY <2>3, ReportedMatches DEF Registry
  <2>5. /\ Len(activeChannels_') = Len(list)
        /\ \A i \in 1 .. Len(list) : activeChannels_'[i] = epoll[list[i]]
    BY <2>2, <2>3 DEF Filled
  <2>6. current' = None /\ current = None /\ UNCHANGED <<alive, released>>
    BY <1>7 DEF Poll, TypeOK
  <2>7. None \notin alive
    BY DEF TypeOK
  <2> QED
    BY <2>3, <2>4, <2>5, <2>6, <2>7 DEF Batch, ReleasedIsCurrent, AheadIsAlive
<1>8. CASE handleEvent
  <2>1. /\ current = None /\ current' = Head(activeChannels_)
        /\ activeChannels_' = Tail(activeChannels_) /\ UNCHANGED <<alive, released>>
        /\ activeChannels_ \in Seq(Channels) /\ activeChannels_ # <<>>
    BY <1>8 DEF handleEvent, TypeOK
  <2>2. /\ Len(activeChannels_) \in Nat \ {0}
        /\ current' = activeChannels_[1]
        /\ Len(activeChannels_') = Len(activeChannels_) - 1
        /\ \A i \in 1 .. Len(activeChannels_') : activeChannels_'[i] = activeChannels_[i + 1]
    BY <2>1, HeadTailProperties, EmptySeq, LenProperties
  <2>3. released = {}
    BY <2>1 DEF Batch, ReleasedIsCurrent, TypeOK
  <2>4. \A i, j \in 1 .. Len(activeChannels_) :
          activeChannels_[i] \in alive /\ (activeChannels_[i] = activeChannels_[j] => i = j)
    BY DEF Batch, AheadIsAlive
  <2>5. \A i \in 1 .. Len(activeChannels_') : i + 1 \in 1 .. Len(activeChannels_) /\ i + 1 # 1
    BY <2>2
  <2>6. 1 \in 1 .. Len(activeChannels_)
    BY <2>2
  <2>7. \A i, j \in 1 .. Len(activeChannels_') :
          activeChannels_'[i] = activeChannels_'[j] => i = j
    <3> SUFFICES ASSUME NEW i \in 1 .. Len(activeChannels_'), NEW j \in 1 .. Len(activeChannels_'),
                        activeChannels_'[i] = activeChannels_'[j]
                 PROVE  i = j
      OBVIOUS
    <3>1. i + 1 = j + 1
      BY <2>2, <2>4, <2>5
    <3> QED
      BY <2>2, <3>1
  <2>8. \A i \in 1 .. Len(activeChannels_') :
          activeChannels_'[i] \in alive /\ activeChannels_'[i] # current'
    BY <2>2, <2>4, <2>5, <2>6
  <2>9. current' \in alive
    BY <2>2, <2>4, <2>6
  <2> QED
    BY <2>1, <2>3, <2>7, <2>8, <2>9 DEF Batch, ReleasedIsCurrent, AheadIsAlive
<1>9. CASE CallbackReturns
  BY <1>9, BatchUnchanged DEF CallbackReturns
<1>10. CASE HandleEventReturns
  <2>1. current' = None /\ UNCHANGED activeChannels_
    BY <1>10 DEF HandleEventReturns
  <2>2. released' \subseteq {} /\ alive \ {current} \subseteq alive'
    BY <1>10 DEF HandleEventReturns, Free, Batch, ReleasedIsCurrent
  <2>3. None \notin alive
    BY DEF TypeOK
  <2> QED
    BY <2>1, <2>2, <2>3 DEF Batch, ReleasedIsCurrent, AheadIsAlive
<1>11. CASE EndDispatch
  BY <1>11, BatchUnchanged DEF EndDispatch
<1>12. CASE UNCHANGED vars
  BY <1>12, BatchUnchanged DEF vars, loopVars
<1> QED
  BY <1>1, <1>2, <1>3, <1>4, <1>5, <1>6, <1>7, <1>8, <1>9, <1>10, <1>11, <1>12
     DEF Next, LoopStep

-----------------------------------------------------------------------------
(* The theorems *)

LEMMA Invariance == Spec => []IInv
<1>1. IInv /\ [Next]_vars => IInv'
  BY TypeStep, RegistryStep, BatchStep DEF IInv
<1> QED
  BY InitIInv, <1>1, PTL DEF Spec

\* Every reachable state is in the types, and the functors never run with a
\* channel of the last batch still to handle.
THEOREM TypeCorrect == Spec => []TypeOK
<1>1. IInv => TypeOK
  BY DEF IInv
<1> QED
  BY Invariance, <1>1, PTL

\* Any number of channels, descriptors reused in any order: index_, channels_
\* and epoll agree.
THEOREM RegistryAgrees == Spec => []EpollAgrees
<1>1. IInv => EpollAgrees
  BY DEF IInv, Registry
<1> QED
  BY Invariance, <1>1, PTL

\* The LOG_FATAL of EPollPoller::update is never reached.
THEOREM CtlNeverFails == Spec => []NeverFatal
<1>1. IInv => NeverFatal
  BY DEF IInv, Registry
<1> QED
  BY Invariance, <1>1, PTL

\* loop() handles live channels only.
THEOREM HandledIsAlive == Spec => []NoDanglingCall
<1>1. IInv => NoDanglingCall
  <2> SUFFICES ASSUME IInv, NEW c \in Range(activeChannels_) \cup {current}
               PROVE  c \in alive \cup {None}
    BY DEF NoDanglingCall
  <2>1. activeChannels_ \in Seq(Channels)
    BY DEF IInv, TypeOK
  <2>2. c \in Range(activeChannels_) => \E i \in 1 .. Len(activeChannels_) : c = activeChannels_[i]
    BY <2>1 DEF Range
  <2> QED
    BY <2>2 DEF IInv, Batch, AheadIsAlive
<1> QED
  BY Invariance, <1>1, PTL

\* Poll and fillActiveChannels make active what was ready, unless the list was
\* full.
LEMMA ReadyIsActive ==
  ASSUME IInv, [Next]_vars, pc = "functors", pc' = "dispatch",
         Len(activeChannels_') # eventListSize \/ RoomForAll,
         NEW d \in Busy, epoll[d] # None, "IN" \in interest[d]
  PROVE  epoll[d] \in Range(activeChannels_')
<1>t. TypeOK
  BY DEF IInv
<1>1. Poll
  BY DEF Next, vars, LoopStep, Construct, Destroy, Release, Setters, enableReading,
         disableReading, enableWriting, disableWriting, disableAll, SetEvents, updateChannel,
         AddNew, AddAgain, DelIdle, ModAdded, removeChannel, handleEvent, CallbackReturns,
         HandleEventReturns, EndDispatch, loopVars
<1>2. PICK ready \in Readiness : \E list \in Reports(ready) : Filled(ready, list)
  BY <1>1, PollFills
<1>3. PICK list \in Reports(ready) : Filled(ready, list)
  BY <1>2
<1>4. Len(list) \in Nat /\ Len(activeChannels_') = Len(list)
  BY <1>t, <1>3, ReportsFacts DEF Filled
<1>5. d \in Fds /\ Report(d, ready[d]) # {}
  BY PollerAssumption DEF Readiness, Report
<1>6. \A e \in Fds : Report(e, ready[e]) # {} => \E i \in 1 .. Len(list) : list[i] = e
  BY <1>t, <1>4, ReportsFacts
<1>7. PICK i \in 1 .. Len(list) : list[i] = d
  BY <1>5, <1>6
<1>8. DOMAIN activeChannels_' = 1 .. Len(list) /\ activeChannels_'[i] = epoll[d]
  BY <1>3, <1>4, <1>7 DEF Filled
<1> QED
  BY <1>7, <1>8 DEF Range

\* fillActiveChannels hands on all the channels that epoll_wait reported.
THEOREM NoEventIsLost == Spec => PollLosesNoEvent
<1> DEFINE Kept == pc = "functors" /\ pc' = "dispatch" =>
       \/ Len(activeChannels_') = eventListSize
       \/ \A d \in Busy : epoll[d] # None /\ "IN" \in interest[d] =>
                          epoll[d] \in Range(activeChannels_')
<1>1. IInv /\ [Next]_vars => [Kept]_vars
  BY ReadyIsActive
<1> QED
  BY Invariance, <1>1, PTL DEF Spec, PollLosesNoEvent

\* EventLoop.tla lets one poll report every ready channel: so it is, from a list
\* with room for all the descriptors on.
LargeListMissesNone ==
  [][pc = "functors" /\ pc' = "dispatch" /\ RoomForAll =>
       \A d \in Busy : epoll[d] # None /\ "IN" \in interest[d] =>
                       epoll[d] \in Range(activeChannels_')]_vars

THEOREM OnePollReportsAll == Spec => LargeListMissesNone
<1> DEFINE All == pc = "functors" /\ pc' = "dispatch" /\ RoomForAll =>
       \A d \in Busy : epoll[d] # None /\ "IN" \in interest[d] =>
                       epoll[d] \in Range(activeChannels_')
<1>1. IInv /\ [Next]_vars => [All]_vars
  BY ReadyIsActive
<1> QED
  BY Invariance, <1>1, PTL DEF Spec, LargeListMissesNone

\* One poll makes loop() handle a channel once: those still to come are all
\* different, and the one being handled is not among them.
HandledOncePerPoll ==
  /\ \A i, j \in 1 .. Len(activeChannels_) : activeChannels_[i] = activeChannels_[j] => i = j
  /\ \A i \in 1 .. Len(activeChannels_) : activeChannels_[i] # current

\* epoll names each descriptor's channel, no channel has two, and what handlers
\* do to the registrations does not reach the list.
THEOREM EachOncePerPoll == Spec => []HandledOncePerPoll
<1>1. IInv => HandledOncePerPoll
  BY DEF IInv, Batch, AheadIsAlive, HandledOncePerPoll
<1> QED
  BY Invariance, <1>1, PTL

-----------------------------------------------------------------------------
(* The event list *)

\* Only a full list grows, and it is full of different descriptors; poll fills
\* activeChannels_ with no more than there was room for.
ListBounded ==
  /\ \/ eventListSize = kInitEventListSize
     \/ eventListSize <= 2 * Cardinality(Fds)
  /\ Len(activeChannels_) <= eventListSize

\* epoll_wait reports no more than the list has room for, nor more than there
\* are descriptors.
LEMMA ReportsFit ==
  ASSUME TypeOK, NEW ready \in Readiness, NEW list \in Reports(ready)
  PROVE  Len(list) <= eventListSize /\ Len(list) <= Cardinality(Fds)
<1> DEFINE ds == {d \in Fds : Report(d, ready[d]) # {}}
           n  == IF Cardinality(ds) < eventListSize THEN Cardinality(ds) ELSE eventListSize
<1>1. /\ Cardinality(ds) \in Nat /\ Cardinality(ds) <= Cardinality(Fds)
      /\ Cardinality(Fds) \in Nat
  BY PollerAssumption, FS_Subset, FS_CardinalityType
<1>2. n \in Nat /\ n <= eventListSize /\ n <= Cardinality(Fds)
  BY <1>1 DEF TypeOK
<1>3. list \in [1 .. n -> ds]
  BY DEF Reports
<1> HIDE DEF ds, n
<1>4. Len(list) = n
  BY <1>2, <1>3
<1> QED
  BY <1>2, <1>4

LEMMA ListStep == IInv /\ ListBounded /\ [Next]_vars => ListBounded'
<1> SUFFICES ASSUME IInv, ListBounded, [Next]_vars PROVE ListBounded'
  OBVIOUS
<1>t. TypeOK
  BY DEF IInv
<1>1. ASSUME UNCHANGED <<eventListSize, activeChannels_>>
      PROVE  ListBounded'
  BY <1>1 DEF ListBounded
<1>2. CASE Poll
  <2>1. PICK ready \in Readiness : \E list \in Reports(ready) : Filled(ready, list)
    BY <1>2, PollFills
  <2>2. PICK list \in Reports(ready) : Filled(ready, list)
    BY <2>1
  <2>3. /\ Len(list) \in Nat /\ Len(list) <= eventListSize
        /\ Len(list) <= Cardinality(Fds)
    BY <1>t, ReportsFacts, ReportsFit
  <2>4. eventListSize' = Grown(Len(list)) /\ Len(activeChannels_') = Len(list)
    BY <2>2, <2>3 DEF Filled
  <2>5. eventListSize \in Nat \ {0} /\ Cardinality(Fds) \in Nat
    BY <1>t, PollerAssumption, FS_CardinalityType DEF TypeOK
  <2> QED
    BY <2>3, <2>4, <2>5 DEF Grown, ListBounded
<1>3. CASE handleEvent
  <2>1. /\ UNCHANGED eventListSize /\ activeChannels_' = Tail(activeChannels_)
        /\ activeChannels_ \in Seq(Channels) /\ activeChannels_ # <<>>
    BY <1>t, <1>3 DEF handleEvent, TypeOK
  <2>2. Len(activeChannels_') = Len(activeChannels_) - 1 /\ Len(activeChannels_) \in Nat
    BY <2>1, HeadTailProperties, LenProperties
  <2> QED
    BY <1>t, <2>1, <2>2 DEF ListBounded, TypeOK
<1>4. CASE ~Poll /\ ~handleEvent
  BY <1>1, <1>4
     DEF Next, vars, LoopStep, Construct, Destroy, Release, Setters, enableReading,
         disableReading, enableWriting, disableWriting, disableAll, SetEvents, updateChannel,
         AddNew, AddAgain, DelIdle, ModAdded, removeChannel, CallbackReturns,
         HandleEventReturns, EndDispatch, loopVars
<1> QED
  BY <1>2, <1>3, <1>4

\* The doubling of the event list ends: it never has room for more than twice
\* the descriptors there are, unless it started with more.
THEOREM EventListIsBounded == Spec => []ListBounded
<1>1. Init => ListBounded
  BY PollerAssumption DEF Init, ListBounded
<1> QED
  BY <1>1, ListStep, Invariance, PTL DEF Spec
=============================================================================

# C11Minmuduo in TLA+

Specifications of the reactor library in `src/mymuduo`: TLA+ modules translated
from its code, TLC configurations that check them on small instances, and TLAPS
proofs of the main safety properties for instances of any size. Line references
are to the files of `src/mymuduo`.

Contents: [the system](#the-system) · [modules](#modules) ·
[runs](#runs) · [bounds](#bounds) · [fairness](#fairness) ·
[what the code does not keep](#what-the-code-does-not-keep) ·
[proofs](#proofs) · [only model-checked](#only-model-checked) ·
[not modelled](#not-modelled) · [plan](#plan)

## The system

A C++17 rewrite of muduo's core: one event loop per thread. Each loop sleeps in
`epoll_wait`, lets the channels that are ready call their handlers, then runs
the callbacks ("functors") other threads have handed to it.

| component | state | operations | talks to |
|---|---|---|---|
| `EventLoop` | `looping_`, `quit_`, `callingPendingFunctors_`, `pendingFunctors_` under `mutex_`, `activeChannels_`, `wakeupFd_` | `loop`, `quit`, `runInLoop`, `queueInLoop`, `wakeup`, `handleRead`, `doPendingFunctors` | its poller (calls), other threads (locked vector, eventfd), channels (callbacks) |
| `Channel` | `events_`, `revents_`, `index_`, handlers, `tie_` | interest setters, `handleEvent`, `tie`, `update`, `remove` | its owner (callbacks), its loop (in this commit `update` and `remove` are empty) |
| `EPollPoller` | `channels_`, `events_` (room for reports), the kernel's list | `poll`, `fillActiveChannels`, `updateChannel`, `removeChannel` | the kernel, channels (raw pointers in `epoll_data`) |
| `EventLoopThread`, `Thread` | `loop_`, `mutex_`, `cond_`, `started_`, `joined_` | `startLoop`, `threadFunc`, the destructor; `start`, `join` | the loop on the other thread's stack (raw pointer) |
| `Buffer` | `buffer_`, `readerIndex_`, `writerIndex_` | `append`, `retrieve…`, `readFd`, `writeFd`, `makeSpace` | its connection |
| `EventLoopThreadPool` | `threads_`, `loops_`, `next_` | `start`, `getNextLoop`, `getAllLoops` | several `EventLoopThread`s |
| `TcpConnection` | `state_`, two Buffers, a Channel, callbacks | the four handlers; `send`, `shutdown`, `connectEstablished`, `connectDestroyed` are declared and not defined | its channel, its loop |
| `Acceptor`, `Socket` | `listening_`, `NewConnectionCallBack_`, a listening descriptor | constructor, `listen`, `handleRead`, destructor | its channel, the kernel's backlog, its owner (callback) |
| `TcpServer` | an Acceptor and a pool | constructor; every other body is empty | — |
| `Logger` | `logLevel_`, shared by all threads without a lock | `setLogLevel`, `log` | every component |
| value classes | — | `InetAddress`, `Timestamp`, `CurrentThread`, `DefaultPoller` | — |

What is hard in it, and the properties that say it goes right:

- **Handing work to a sleeping thread** (EventLoop.cc:152-165, 195-210). A
  functor is appended under the mutex, the eventfd is written after it, the loop
  swaps the vector and may itself be in a functor that queues another one. No
  functor may be lost, run twice or overtaken, and the loop may not sleep on one
  (`ImplementsFunctorQueue`, `NoLostWakeup`, `FunctorsRun`).
- **Stopping** (EventLoop.cc:132-141). The flag comes first and the wakeup after
  it; the loop may be about to start, about to sleep, or already gone
  (`QuitStopsLoop`, `DestructorReturns`, `WakeupReachesLoop`).
- **Publishing a pointer to another thread's stack** (EventLoopThread.cc:36-77):
  `PublishedLoopIsAlive`, `StartedLoopStays`, `StartReturns`, `NoThreadOutlivesObject`,
  `ImplementsServedLoop`.
- **Keeping three registries the same**: `index_` in the channel, `channels_` in
  the poller, and the kernel's list, while handlers change all of them in the
  middle of a batch of raw pointers (`EpollAgrees`, `NeverFatal`, `NoDanglingCall`,
  `PollLosesNoEvent`, `ReadyChannelIsHandled`).
- **One set of events, several ends of a connection** (TcpConnection.cc:71-134 under
  Channel.cc:82-108). Data, the end of the stream, an error and a hangup may be
  reported together, writes take a part, and callbacks are queued for later
  (`ImplementsConversation`, `ClosedOnce`, `UnreadOnlyIfSilenced`, `CompletionPerSend`,
  `OutputPrecedesFin`, `SentIsWritten`, `ReaderSeesPeerEnd`).
- **A pool that is started again, or half-way** (EventLoopThreadPool.cc:29-67):
  `RoundRobin`, `LoopsAreServed`, `NoThreadLeft`, `UsesServedLoops`, `StartReturns`,
  `DestroyReturns`.
- **Accepting in a process that runs out of descriptors** (Acceptor.cc:60-83,
  Socket.cc:44-59): accept fails, is only logged, and is tried again; connections
  may come with nobody to take them (`DescriptorsAccounted`, `BacklogDrains`).
- **Index arithmetic over a sliding vector** (Buffer.hpp:65-145, Buffer.cc:20-47):
  `ImplementsByteQueue`, `SizeBounded`.

`PROJECT.json` lists every hazard at its line with the properties that cover it.

## Modules

| module | what it is | corresponds to |
|---|---|---|
| `FunctorQueue` | abstract: one FIFO queue of callbacks | EventLoop.hpp:43-46 |
| `EventLoop` | the loop thread step by step, any set of client threads | EventLoop.cc |
| `EventLoop_proofs` | its theorems | |
| `ServedLoop` | abstract: what the owner of a loop thread and the thread promise each other | EventLoopThread.cc:25-55 |
| `EventLoopThread` | creator and loop thread, with a whole `EventLoop` inside (`EL == INSTANCE EventLoop`) | EventLoopThread.cc, Thread.cc |
| `EventLoopThread_proofs` | its theorems | |
| `EventLoopThreadPool` | the base thread and its threads, each abstracted to the handshake of `EventLoopThread` | EventLoopThreadPool.cc |
| `EventLoopThreadPool_proofs` | its theorems | |
| `ChannelEvents` | the interest masks and which events trigger which handler; shared by the next two | Channel.cc:17-19, 82-108 |
| `EPollPoller` | channels, poller, kernel list and the dispatch of one batch | EPollPoller.cc, Channel.cc, Poller.cc, EventLoop.cc:92-112 |
| `EPollPoller_proofs` | its theorems | |
| `Conversation` | abstract: two byte streams, the callbacks owed, one end | TcpConnection.hpp:40-79, Callbacks.hpp |
| `TcpConnection` | one connection, its socket, its peer and the rounds of its loop | TcpConnection.cc, Channel.cc:82-108 |
| `TcpConnection_proofs` | its theorems | |
| `Acceptor` | a listening socket, its backlog and the process's descriptors | Acceptor.cc, Socket.cc:22-59 |
| `Acceptor_proofs` | its theorems | |
| `ByteQueue` | abstract: a FIFO queue of bytes | Buffer.hpp:60-95 |
| `Buffer` | the methods as operators on Buffer values, and one owner that calls them | Buffer.hpp, Buffer.cc |
| `Buffer_proofs` | its theorems | |
| `MC…` | the sets and model values of the runs | |

Operators whose names end in `Bug` are mutated forms of the operator that
follows them. No specification uses them; `PROJECT.json` pairs each with the
property it breaks, which shows that the property depends on that code.

### EventLoop

`pc` is where the loop thread is (`outside` the loop, at the `test` of `quit_`,
in `poll`, in `dispatch`, in a channel's `handler`, before the `swap`, in the
`batch`, in a `functor`); `looping_` and `callingPendingFunctors_` are checked against
it in `TypeOK`, because queueInLoop trusts the second; `call[t]` is where thread `t` is in an API call. One
action is one step between accesses to state that another thread can see: a
critical section is one action, `quit_ = true` and the following `wakeup()` are
two. User code runs in `outside`, `handler` and `functor` and may there make any
number of calls back into the loop. `fresh` and `ran` are history variables
(functors not yet handed over, functors run), and `queuedOutside` remembers that
the loop's own thread queued something outside `loop()`.

`registered` is the set of channels that epoll can report: it never changes, and
has two initial values. As committed it does not contain `WakeupChannel_`:
`enableReading` in the constructor ends in `Channel::update`, whose only call is
commented out (Channel.cc:51-58), and nobody outside `EventLoop` can name the
channel; `handleRead` is then unreachable. In the other initial value the channel
is there, which is the program with that comment removed (the wired program), so
that the wakeup handshake itself is checked and proved too. The properties say
which of the two they are about: `Wired` in `FunctorsRunByWakeup` and
`QuitStopsLoop`, and both in all the others.

### EventLoopThread

`thread` walks through `Thread`'s lambda and `threadFunc`, `creator` through
`startLoop` and the destructor; `alive` says whether the `EventLoop` on the new
thread's stack exists. `StartFails` is the constructor of `std::thread` throwing:
`started_` is set and `thread_` null, the owner may start again, and a destructor
without a later start detaches through the null pointer (Thread.cc:30-31), the
end `crashed`. Spurious wakeups of the condition variable are a step of
their own. The destructor's reads of `loop_` (line 28 and again line 30) are
separate steps because neither holds `mutex_`. `Quitters` are the threads whose
user code calls `quit()` itself. In the passing run a handler or functor on the
loop's own thread may (`LoopQuits`); then the destructor can meet a null `loop_`
between its two reads (`QuitLoop` ends in `crashed`), or join nothing. `userQuit`
remembers that it happened, and the properties excuse what follows from it; the
two runs that are refuted have no `Quitters`, so that no user is to blame.

`ServedLoop` is the same thread seen by its owner, without semaphore, mutex or
condition variable: a loop is handed over once and in service, it is left only
when it was quit, the owner's quit is its last use and comes before the join, and
only a quit that is not the destructor's (`stray`) lets the owner go without
joining. Its `EnterLoop` forgets a quit that came before, as the code does: it is
the contract that this code keeps, not the one it should.

### EventLoopThreadPool

`base` is where the base thread is in `start` or in the destructor, `threads_[t]`
how far the t-th `EventLoopThread` has come. `EnterLoop` resets `quit_` as `loop()`
does, so the lost quit of `EventLoopThread` shows here as a `joining` that never
ends; that is why the run does not ask about deadlock. `CreateFails` is the
constructor of `std::thread` throwing: `threads_` already has the object, `loops_`
does not, and a later destruction detaches through a null pointer
(Thread.cc:28-33), the end `crashed`. `recent` is a history of the last results of
`getNextLoop`, at most one round of them; it starts over when `loops_` grows,
because `next_` stays where it was.

That `threads_[t]` may stand for an `EventLoopThread` is what `UsesServedLoops` says:
for every `t` the steps of the pool are steps of `SL(t)`, a `ServedLoop` whose owner is
the base thread, with nobody else to quit it. `EventLoopThread` implements
`ServedLoop`, so the two modules meet in it from both sides.

### EPollPoller

All of it runs on the loop's thread, so the difficulty is not threads but order:
while `todo # <<>>` a handler is running, and user code may construct, update,
remove or release channels; the rest of the batch is in `activeChannels_`.
`updateChannel` is the disjunction of the four paths of EPollPoller.cc:93-122,
each with its `epoll_ctl`; a failing ADD or MOD sets `fatal` (LOG_FATAL is
`exit(-1)`), a failing DEL is only logged. `Poll` is `epoll_wait` and
`fillActiveChannels` with its early return at the first event that does not match
the map. The kernel may report what is ready in any order, up to the room there
is; `Busy` descriptors are always readable.

The user's side of the contract is explicit: one live Channel per descriptor; a
channel is freed by a pending functor, or in its own handler if it is tied to
its owner. Freeing is what ~EventLoop and ~Acceptor do: `disableAll` and `remove`
(which do nothing here), then `close`. Calls of `updateChannel` and
`removeChannel` may come at any time or never, so the behaviours include those
of a `Channel::update` that makes its call. A tied channel does not outlive its
owner, as in `TcpConnection`, which holds its channel by `unique_ptr`: the lock in
`handleEvent` never fails on a live channel.

`EventLoop` abstracts this module: its `PollEvents` is `Poll`, its `CallHandler`
is `handleEvent` with all the handlers of one channel taken as one piece of user
code. `EventLoop` assumes that a poll reports all the ready channels at once,
which `OnePollReportsAll` proves of an event list with room for every descriptor;
the list starts with 16 entries and doubles whenever it was filled.

### TcpConnection

The loop goes round through `poll`, `dispatch` (`todo` is what `handleEvent` has still
to call, in the order of Channel.cc:82-108) and `functors`. The peer writes,
finishes or resets at any moment; `Conditions` is the poll mask that tcp then
shows, of which `Report` is what epoll passes on. The two Buffers are the byte
queues they are shown to implement in `Buffer`; the n-th byte of a stream is the
number n. Reads and writes take any part of what there is.

Three assumptions, because of what this commit leaves out. Epoll waits for
`events_`, as with the call in `Channel::update` in place; as committed nothing
registers the channel and no handler runs. `connectEstablished`, `send`, `shutdown`
and `shutdownInLoop` are declared without a definition and do the least that the
handlers rely on; they are marked external. And the descriptor does not block.
`writeCompleteCallback_` is a constant, whether the user has set one: TLC checks a
connection that has, the silenced run one that has not, and the proofs cover both.
A write on a connection that was reset or shut down raises SIGPIPE, which
nothing in the repository ignores: it may end the process (`pc = "killed"`), and for
that end the run does not ask about deadlock.

`Conversation` is what is left without channel, events and errors: reads, sends,
writes, callbacks owed and paid, a shutdown and one end. `Phase` maps `state_` to it,
the interest in `IN` is `reading`, and the queued functors are the callbacks `owed`. It may end
only when nothing is owed and, if it still reads, nothing is unread; its `Transmit` may
lose the interest in the input where the output drains (Channel.hpp:65). What such a
connection leaves unread when it closes is the exception that `UnreadOnlyIfSilenced`
names (`Silenced`): every other close, by a hangup or a read of 0 bytes, comes after the
peer's last byte.

### Acceptor

One event is one `accept`: `Report` is the level-triggered poll, `handleRead` takes
the head of `backlog` (`Accepted`), loses it because accept's uninitialised `len`
was negative (`Rejected`), or fails at the limit (`LimitReached`). `open` are the
process's descriptors, `held` those the user's callback was given; a peer names
its own connection. `Construct` covers `createNonblocking`, whose failure is only
logged, and `bindAddress`, which then ends the process (`Exit`, as does a failing
`listen`); for that end the run does not ask about deadlock. An Acceptor may be
destroyed and another made. `wired` is as in `EventLoop`: as committed the
listening socket is never in the poller and no connection is accepted.

### Buffer

The methods are operators (`append(b, data)`, `retrieve(b, len)`, `makeSpace(b, len)`,
…) on records with the three members. `received(b, data)` is `readFd` once
`readv` has delivered `data`: first into the writable bytes, then through
`extrabuf` and `append`. `Content(b)` is the refinement mapping to `ByteQueue`.

## Runs

Passing runs:

| run | asks | distinct states |
|---|---|---|
| `EventLoop` | do any interleavings of two clients and the loop thread lose, duplicate or reorder functors, or sleep on one; does every functor run and every quit end the loop, by the wakeups alone when wired, and by the poll timeout as committed? | 23 508 |
| `EventLoopThread` | does the handshake publish, use and retire the pointer correctly, when the destructor quits and when a handler does, and after a thread that could not be created; is it, over the whole loop, `ServedLoop`? | 11 476 |
| `EPollPoller` | do map, index and kernel agree, are all calls on live channels, whatever handlers do; does a full event list lose events or starve a channel? | 341 668 |
| `EventLoopThreadPool` | are loops handed out in turn and only while served, through repeated and failing starts; does the pool use its threads as `ServedLoop` allows; do start and the destruction return? | 16 334 |
| `TcpConnection` | do the handlers implement `Conversation`, through every mix of events; is the close called once, and after the data of a connection that was not silenced (`Silenced`), the write-complete once per drained output? | 5 985 |
| `Acceptor` | does every open descriptor have an owner, and does the backlog drain once descriptors are closed, through failing accepts and Acceptors that come and go? | 2 008 |
| `Buffer` | is the Buffer a byte queue, with a bounded vector? | 26 154 |

Runs that TLC must refute are in
[what the code does not keep](#what-the-code-does-not-keep).

## Bounds

- Functors are handed over at most once each (`Functors`, two or three of them): that
  is what makes "exactly once" expressible. Three functors give a batch with one
  in front, one running and one queued meanwhile; two clients give a wakeup
  between another's append and write.
- One user channel next to the wakeup channel: handlers only matter as places
  where user code runs.
- `EPollPoller`: three channels on two descriptors, so that a descriptor changes
  hands and a batch has a channel behind the current one; of the five conditions
  `IN`, which is reported when asked for, and `HUP`, which is reported always
  (`PRI` and `OUT` are of the first kind, `ERR` of the second). One descriptor is
  always readable and the other may be ready at every poll. The event list starts at one entry so that it overflows; it is bounded by
  twice the number of descriptors of itself.
- `EventLoopThreadPool`: `setThreadNum` of 0 to 3 and four threads in all
  (`MaxThreads`), enough for a second start in the middle of a round, three loops in
  turn, and a failed thread before, between and after good ones.
- `TcpConnection`: the peer writes two bytes and the user sends three: a byte that is
  read, one that waits when the connection ends; an output that drains, one sent
  after it, and a partial write in between.
- `Acceptor`: four peers and three descriptors, one of them the Acceptor's: two
  connections are held, one meets the limit, and one waits behind it.
- `Buffer`: `MaxReadable = 4` unread bytes (the guard `Fits`) and messages up to three
  bytes against a vector of two, an `extrabuf` of two and a prepend area of one:
  every branch of `makeSpace` and both sizes of `readFd`'s second vector occur.
  Without `Fits` the state space is infinite; the vector's own bound is then
  the property `SizeBounded`.

The proofs have none of these bounds except as parameters: `Fits`, `MaxReceived` and
`MaxSent` are arbitrary numbers there.

## Fairness

Weak fairness of what a running thread does next, never of what a user chooses
to do:

- `EventLoop`: a thread inside `wakeup()` gets to its `write`; the loop thread keeps
  taking the steps of `loop()` and callbacks return; `epoll_wait` is fair only
  when a report is certain. That `epoll_wait` ends after `kPollTimeMs = 10000`
  (EventLoop.cc:25,95) is `FairTimeout`; it is no part of `Spec` but the hypothesis
  of the properties that need it, so that the others show what holds without.
- `EventLoopThread`: both threads keep running inside the library. Nobody must
  start, use or destroy the object. A spurious wakeup is never fair.
- `EventLoopThreadPool`: the base thread inside `start` and the destructor, and every
  thread of the pool, keep running; a loop that was told to quit sees it (which
  `QuitStopsLoop` of `EventLoop` shows).
- `TcpConnection`: the loop keeps running (weak fairness of `LoopStep`). A peer that does
  not end the connection reads what it is sent: strong fairness of polls that
  find room and of writes that take something. Nothing makes the peer, or the
  user, act.
- `Acceptor`: the loop keeps polling and dispatching (`Report`, `handleRead`). That
  owners close their connections some day is `FairClose`, the hypothesis of
  `BacklogDrains`: without it the limit may stay reached for ever.
- `EPollPoller`: `Poll` and the steps of the dispatch are fair; the kernel's choice
  among ready descriptors is not, which is why the growing event list is needed.

## What the code does not keep

Each of these runs checks one property taken from a comment in the repository,
and TLC refutes it. `PROJECT.json` quotes the comments.

| run | property | what happens |
|---|---|---|
| `EventLoop_deaf` | `WakeupEndsPoll` | a written eventfd does not end the poll: it is not in epoll, since `Channel::update` is empty (Channel.cc:51-58) |
| `EventLoopThread_quit_lost` | `DestructorReturns` | `quit_ = false` at the entry of `loop()` erases the destructor's quit; the join never returns (EventLoop.cc:88) |
| `EventLoopThread_late_wakeup` | `WakeupReachesLoop` | the loop is destroyed between `quit_ = true` and `wakeup()` (EventLoop.cc:135-138) |
| `EPollPoller_removed` | `RemovedChannelIsSilent` | a tied channel that the handler of an earlier channel of the batch has removed still has its own handlers called: the guard of `tie` asks only whether the owner is alive (EventLoop.cc:97-103, Channel.cc:67-78) |
| `TcpConnection_silenced` | `PeerEndIsClosed` | `disableWriting` drops the interest in reading and keeps the one in writing (Channel.hpp:65), so after its first drained output a connection never sees its peer's end |

The passing runs show how far each of them reaches: `FunctorsRun` holds in
spite of the deaf loop, ten seconds late; `DestructorReturnsOnceLooping` holds for
a destructor that runs after `loop()` was entered; `EpollAgrees` and `NoDanglingCall`
hold although `Channel::remove` is empty (Channel.cc:61-64) and a freed channel stays
in `channels_`, because a new channel on the same descriptor overwrites the entry
before a report can meet it. `ReaderSeesPeerEnd` holds for a connection whose
interest in reading was not lost to `disableWriting`, and `CompletionPerSend` holds
although such a connection is reported writable for ever.

## Proofs

Checked by TLAPS with Z3, Zenon and LS4, for all values of the constants that satisfy
the named assumptions (`ThreadsAssumption`, `PollerAssumption`, `BufferAssumption`,
`ConnectionAssumption`, `TwoThreadsAssumption`, `PoolAssumption`, `AcceptorAssumption`).

**EventLoop** — `TypeCorrect`, `NoWakeupIsLost`, `Refinement` (of `FunctorQueue`),
`EachFunctorOnce`. `NoLostWakeup` speaks only of a thread in `poll` and is not
inductive. `Signalling` follows the wakeup to every place from which `poll` can be
reached without another swap (`PastSwap`): whatever is in the vector there was followed
by a wakeup that is written, or about to be, or will be written by the loop thread
itself at the end of its functor. It holds because `handleRead` comes before the swap in
every round, and needs of `TypeOK` that `callingPendingFunctors_` is set exactly in
`doPendingFunctors`, and `BatchIsLocal` and `WakesItself`. `EachFunctorOnce` follows from `Refinement`:
exactly-once is an invariant of the abstract queue.

The theorems are about both initial values of `registered`. `ExactlyOnce` is not asked
of the run, which checks `ImplementsFunctorQueue`: it is a consequence of that.

**EventLoopThread** — `TypeCorrect`, `PublishedIsAlive`, `StartedStays`,
`ObjectOutlivesThread`, `RunsEventLoop`, `NoWakeupIsLost`, `LoopIsFunctorQueue`,
`WaitingIsNotified`, `ServesItsOwner` (the refinement of
`ServedLoop`). Each step of the composition is a step of `EventLoop` with the creator as
its one client, or leaves its variables alone (`StepRunsLoop`, `RunsEventLoop`). So the
inductive invariant of `EventLoop_proofs` holds here through an instance (`ELP`), and
with it that no wakeup is lost and that the callbacks go through one FIFO queue: the
handshake around the loop, its late entry and its destruction take nothing away from
that. The prover does not see that `EL` and `ELP`, two instances of the same module with
the same substitution, define the same operators; `SameLoop` and `SameQueue` say it, by
unfolding both.

The invariant `Handshake` places the two threads against each other: `loop_` and `alive`
follow the new thread (`PointerFollows`), the creator is past `startLoop` only once the
loop was published (`CreatorFollows`), and, the one that makes `StartedLoopStays`
inductive, a loop that no user quit has `quit_` set only while the destructor waits in
`join` (`StopIsAsked`).

`ServesItsOwner` adds to `Handshake` that the loop is left only because of `quit_`,
which nothing resets until the thread is dead (`LeftOnQuit`), and that the creator, when
it looks at `loop_` or waits for it, waits for a publication to come (`WaitIsHeard`).
From these each step is one of `ServedLoop` or a stutter (`ServedStep`). The two steps
that need the whole invariant are the destructor's: `TestLoop` and `QuitLoop` may find
`loop_` null only after a stray quit (`Abandon`), and otherwise the loop is in service.

**EventLoopThreadPool** — `TypeCorrect`, `HandedOutIsServed`, `LoopsTakeTurns`,
`EveryThreadEnds`, `KeepsProtocol` (for every thread, the steps of `ServedLoop`).
`RoundRobin` is not inductive: the invariant says that `recent` is the stretch of
`loops_` that ends before `next_`, going round (`RecentIsWindow`), and that `loops_`
holds no loop twice (`LoopsOnce`). `LoopsAreServed` needs that the destructor empties
`loops_` before it quits the first thread (`QuitsComeLast`), and `NoThreadLeft` that the
first `i` threads are dead while it goes on (`JoinedAreDead`). `KeepsProtocol` needs of
each thread (`InTurn`) that it is unpublished only while `startLoop` waits for it, quit
only when the destructor has come to it, and dead only after that; a step of one thread
leaves the `ServedLoop` of every other alone (`OthersServe`).

**EPollPoller** — `TypeCorrect`, `RegistryAgrees`, `CtlNeverFails`, `HandledIsAlive`,
`NoEventIsLost`, `EachOncePerPoll`, `OnePollReportsAll`, `EventListIsBounded`. The
invariant is `Registry` (`EpollAgrees`, one live channel per descriptor, a freed channel
starts over at `kNew`, not fatal) and `Batch` (the channels ahead are alive, distinct
and different from the current one; only the current one can be kept by its guard
alone). Distinctness is what makes freeing the current channel harmless; it comes from
the kernel reporting a descriptor once and `EpollAgrees` making the descriptor determine
the channel. `NoEventIsLost` uses that an injection into a finite set of its own size is
onto. `EventListIsBounded` adds that a list is full only of different descriptors, so
that its doubling ends at twice their number at most, or never begins.

**TcpConnection** — `TypeCorrect`, `StreamsKeepOrder`, `ClosesOnce`, `CompletesPerSend`,
`FinComesLast`, `UnreadIsSilenced`, `CompletesBeforeClose`, `WaitingOutputIsWatched`,
`HoldsConversation` (the refinement of `Conversation`). The byte streams are their own
invariant. The others hang together in `Control`: the interest in urgent data implies
the one in reading (`ReadingIsWhole`); interests and handlers exist only between
establishment and close (`OnlyEstablished`); the close handler is called directly only
on a channel that does not read, so no read handler follows it (`CloseIsAlone`: a
reading channel with a hangup is readable, and closes through its read of 0 bytes); a
completion is queued by the last handler of a batch (`CompletionIsLast`); and nothing
waits or is sent after our direction is shut down (`FinIsLast`). For the refinement,
`Interest` relates the handlers to come and the output to what the channel watches
(`ReadIsWanted`, `OutputIsWatched`, `NothingOwedBefore`, `DrainSilences`): the read
handler runs only on a channel that still reads, waiting output is watched until the
end, `disableWriting`'s slip notwithstanding, and an established connection either reads
or has drained an output, which with `CloseIsAlone` gives `UnreadIsSilenced`. `StreamsKeepOrder` and `CompletesBeforeClose`
are proved of properties that no run lists; the run checks `ImplementsConversation`,
whose actions keep both.

**Acceptor** — `TypeCorrect`, `NoDescriptorLeaks`, `HandedOutOnce`.
`DescriptorsAccounted` is inductive with the types: each step that opens a descriptor
gives it to somebody. `OnePlace` is inductive with them too: a peer is absent, once in
the backlog, held or gone.

**Buffer** — `IndexesInOrder`, `VectorIsBounded`, `Refinement` (of `ByteQueue`). The
lemmas say what `makeSpace`, `ensureWritableBytes`, `append`, `received` and `retrieve`
do to the content, the indexes and the length of the vector; the invariant adds to the
order of the indexes the bound on the unread bytes.

## Only model-checked

- Liveness (`FunctorsRun`, `FunctorsRunByWakeup`, `QuitStopsLoop`, `StartReturns`,
  `DestructorReturnsOnceLooping`, `ReadyChannelIsHandled`, `SentIsWritten`, `ReaderSeesPeerEnd`,
  `DestroyReturns`, `BacklogDrains`): fairness and ENABLED are
  outside what the prover handles.
- Every invariant, every action property and every refinement that a run checks is
  proved; what remains is liveness.
- No recursive definition is needed so far, so no result about one is missing.

## Not modelled

- `TcpServer`: apart from the constructor, its bodies are empty in this commit.
- `send`, `shutdown`, `connectEstablished`, `connectDestroyed` of `TcpConnection`,
  `Thread::numCreated_` and `Logger::Logger()` are declared and not defined: the
  library links only as far as nobody uses them.
- `tid_`, names, `exiting_`, `pollReturnTime_`,
  `eventHandling_`, `addedToLoop_`, `logHup_`, `currentActiveChannel_`: never read.
- `Logger`: one int, set before each message and read while it is printed, without
  synchronisation, so a message may carry another's label. Nothing else in the
  library depends on it. The exit of LOG_FATAL is modelled where it bites. The log lines of `poll` (an error
  logged after every successful poll, a timeout branch that cannot be reached,
  EPollPoller.cc:63-72) change nothing.
- `MUDUO_USE_POLL` makes `newDefaultPoller` return a null pointer (DefaultPoller.cc):
  the models are of the default.
- Address formatting, time formatting, socket options, the address that `accept` fills
  in, and `Socket::shutdownWrite`, whose only caller is declared without a body.
- Surviving SIGPIPE: `TcpConnection` has the end of the process as a state, and no line
  of the repository claims that it is not reached.
- `idleFd_` of `Acceptor` is never used. `Acceptor` is not composed with `EPollPoller`: that
  its channel is freed while it is reported is a matter of `EPollPoller`'s contract.

## Plan

Done, in this order: `FunctorQueue`, `EventLoop`, its proofs, `EventLoopThread`,
`ByteQueue`, `Buffer`, its proofs, `EPollPoller`, its proofs, `TcpConnection`, its
proofs, `EventLoopThreadPool`, the wired program inside `EventLoop`, `Acceptor`, its
proofs, the proofs of `EventLoopThreadPool` and of `EventLoopThread`; then `ServedLoop`
and `Conversation` with the refinements of `EventLoopThread`, `EventLoopThreadPool` and
`TcpConnection`, and the composition of `EventLoopThread` with the theorems of `EventLoop`.

Left:

1. `EPollPoller` and `EventLoop` joined by an abstract specification of a poll and its
   batch, of which `EachOncePerPoll` and `OnePollReportsAll` are the parts proved so far.
2. `TcpServer`, `send`, `shutdown` and the establishment of connections, once they have
   bodies; then the path of a new connection from `Acceptor` through the pool's
   `getNextLoop` to the loop of another thread.
3. `Logger`, if a level ever decides more than a label.

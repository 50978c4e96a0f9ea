------------------------ MODULE EventLoopThreadPool -------------------------
(***************************************************************************)
(* EventLoopThreadPool.cc: the base thread starts a number of              *)
(* EventLoopThreads one after the other, hands out their loops in turn,    *)
(* may start more, and destroys them in order.                             *)
(*                                                                         *)
(*  - An EventLoopThread is its handshake, as EventLoopThread.tla has it:  *)
(*    the new thread publishes its loop, enters loop(), where quit_ is     *)
(*    reset, and leaves it when quit_ is seen.  Nobody else quits a loop.  *)
(*  - The constructor of std::thread may throw, out of startLoop and       *)
(*    start; the user catches it and goes on.                              *)
(*  - Loops and threads are numbered by their place in threads_; the base  *)
(*    loop is 0.  The pool is used by the base thread only.                *)
(***************************************************************************)
EXTENDS Naturals, Sequences, Functions

CONSTANTS
  Numbers,       \* arguments of setThreadNum
  MaxThreads     \* bound: no start that would make threads_ longer

ASSUME PoolAssumption == Numbers \subseteq Nat /\ MaxThreads \in Nat

VARIABLES
  started_, numThreads_, next_, loops_,   \* members
  threads_,    \* where each thread is
  quit_,       \* the quit_ of each thread's loop
  base,        \* where the base thread is
  i,           \* start's index, or how many threads were destroyed before this
  recent       \* history: the last results of getNextLoop, at most a round

members == <<started_, numThreads_, next_, loops_>>
rest == <<i, recent>>
vars == <<members, threads_, quit_, base, rest>>

BaseLoop == 0

Init ==
  /\ started_ = FALSE /\ numThreads_ = 0 /\ next_ = 0
  /\ loops_ = <<>> /\ threads_ = <<>> /\ quit_ = <<>>
  /\ base = "idle" /\ i = 0
  /\ recent = <<>>

-----------------------------------------------------------------------------
(* The new threads *)

\* threadFunc up to loop_ = &loop, the ThreadInitCallback included.
Publish(t) ==
  /\ threads_[t] = "starting"
  /\ threads_' = [threads_ EXCEPT ![t] = "published"]
  /\ UNCHANGED <<members, quit_, base, rest>>

\* loop() resets quit_ when it begins.
EnterLoop(t) ==
  /\ threads_[t] = "published"
  /\ threads_' = [threads_ EXCEPT ![t] = "looping"]
  /\ quit_' = [quit_ EXCEPT ![t] = FALSE]
  /\ UNCHANGED <<members, base, rest>>

\* loop() sees quit_ and the thread ends.
LeaveLoop(t) ==
  /\ threads_[t] = "looping" /\ quit_[t]
  /\ threads_' = [threads_ EXCEPT ![t] = "dead"]
  /\ UNCHANGED <<members, quit_, base, rest>>

-----------------------------------------------------------------------------
(* start *)

setThreadNum(n) ==
  /\ base = "idle"
  /\ numThreads_' = n
  /\ UNCHANGED <<started_, next_, loops_, threads_, quit_, base, rest>>

\* Nothing asks whether the pool was started before.
start ==
  /\ base = "idle" /\ Len(threads_) + numThreads_ <= MaxThreads
  /\ started_' = TRUE
  /\ base' = "starting" /\ i' = 0
  /\ UNCHANGED <<numThreads_, next_, loops_, threads_, quit_, recent>>

\* Another EventLoopThread in threads_, with Thread::started_ set.
Push(place) ==
  /\ base = "starting" /\ i < numThreads_
  /\ threads_' = Append(threads_, place) /\ quit_' = Append(quit_, FALSE)
  /\ UNCHANGED <<members, rest>>

\* startLoop waits for the loop of the new thread.
CreateThread == Push("starting") /\ base' = "waiting"

(* As in EventLoop.tla, operators named ...Bug are slips in the operator after *)
(* them; no specification uses them.                                          *)

\* Swallows the exception and waits.
CreateFailsBug == Push("failed") /\ base' = "waiting"

\* std::thread throws: there is no thread, and start ends.
CreateFails == Push("failed") /\ base' = "idle"

\* Does not wait for the publication.
PublishedBug(t) == TRUE

Published(t) == threads_[t] \in {"published", "looping"}

\* startLoop returns the published loop.
StartLoopReturns ==
  /\ base = "waiting" /\ Published(Len(threads_))
  /\ loops_' = Append(loops_, Len(threads_))
  /\ i' = i + 1 /\ base' = "starting" /\ recent' = <<>>
  /\ UNCHANGED <<started_, numThreads_, next_, threads_, quit_>>

StartReturn ==
  /\ base = "starting" /\ i >= numThreads_
  /\ base' = "idle"
  /\ UNCHANGED <<members, threads_, quit_, rest>>

-----------------------------------------------------------------------------
(* Handing out loops *)

getAllLoops == IF loops_ = <<>> THEN <<BaseLoop>> ELSE loops_

\* The result goes to recent, which keeps a round of them.
Return(loop) ==
  LET all == Append(recent, loop)
  IN  recent' = IF Len(all) > Len(getAllLoops) THEN Tail(all) ELSE all

\* Wraps too late.
WrappedLateBug(n) == IF loops_ = <<>> \/ n > Len(loops_) THEN 0 ELSE n

\* Wraps too early.
WrappedEarlyBug(n) == IF n >= Len(loops_) - 1 THEN 0 ELSE n

\* next_ after ++next_ and the test; it stays 0 while there are no loops.
Wrapped(n) == IF loops_ = <<>> \/ n >= Len(loops_) THEN 0 ELSE n

getNextLoop ==
  /\ base = "idle"
  /\ Return(IF loops_ = <<>> THEN BaseLoop ELSE loops_[next_ + 1])
  /\ next_' = Wrapped(next_ + 1)
  /\ UNCHANGED <<started_, numThreads_, loops_, threads_, quit_, base, i>>

-----------------------------------------------------------------------------
(* ~EventLoopThreadPool: loops_ first, then the threads from the first on *)

Destroy ==
  /\ base = "idle"
  /\ base' = "destroying" /\ i' = 0
  /\ loops_' = <<>> /\ recent' = <<>>
  /\ UNCHANGED <<started_, numThreads_, next_, threads_, quit_>>

\* Does not quit the loop.
QuitBug(t) == quit_

Quit(t) == [quit_ EXCEPT ![t] = TRUE]

\* ~EventLoopThread finds a loop_, quits it and joins.
QuitThread ==
  /\ base = "destroying" /\ i < Len(threads_) /\ threads_[i + 1] # "failed"
  /\ quit_' = Quit(i + 1) /\ base' = "joining"
  /\ UNCHANGED <<members, threads_, rest>>

\* ~EventLoopThread finds none; ~Thread detaches through a null thread_.
DetachNothing ==
  /\ base = "destroying" /\ i < Len(threads_) /\ threads_[i + 1] = "failed"
  /\ base' = "crashed"
  /\ UNCHANGED <<members, threads_, quit_, rest>>

\* Detaches instead.
EndedBug(t) == TRUE

Ended(t) == threads_[t] = "dead"

Join ==
  /\ base = "joining" /\ Ended(i + 1)
  /\ i' = i + 1 /\ base' = "destroying"
  /\ UNCHANGED <<members, threads_, quit_, recent>>

Gone ==
  /\ base = "destroying" /\ i >= Len(threads_)
  /\ base' = "gone"
  /\ UNCHANGED <<members, threads_, quit_, rest>>

-----------------------------------------------------------------------------

ThreadStep(t) == Publish(t) \/ EnterLoop(t) \/ LeaveLoop(t)

BaseStep ==
  \/ CreateThread \/ CreateFails \/ StartLoopReturns \/ StartReturn
  \/ QuitThread \/ DetachNothing \/ Join \/ Gone

Next ==
  \/ \E n \in Numbers : setThreadNum(n)
  \/ start \/ getNextLoop \/ Destroy
  \/ BaseStep
  \/ base # "crashed" /\ \E t \in DOMAIN threads_ : ThreadStep(t)

\* Threads keep running; nobody must use or destroy the pool.
Fairness ==
  /\ WF_vars(BaseStep)
  /\ \A t \in 1 .. MaxThreads :
       WF_vars(base # "crashed" /\ t \in DOMAIN threads_ /\ ThreadStep(t))

Spec == Init /\ [][Next]_vars /\ Fairness

-----------------------------------------------------------------------------
(* Properties *)

\* Type invariant; next_ is a valid index of loops_ whenever there are loops,
\* through any number of starts.
TypeOK ==
  /\ started_ \in BOOLEAN /\ numThreads_ \in Nat /\ next_ \in Nat /\ i \in Nat
  /\ threads_ \in Seq({"starting", "published", "looping", "dead", "failed"})
  /\ quit_ \in Seq(BOOLEAN) /\ Len(quit_) = Len(threads_)
  /\ loops_ \in Seq(DOMAIN threads_)
  /\ recent \in Seq({BaseLoop} \cup DOMAIN threads_)
  /\ base \in {"idle", "starting", "waiting", "destroying", "joining", "gone", "crashed"}
  /\ loops_ # <<>> => next_ < Len(loops_)

\* RoundRobin: getNextLoop gives no loop a second time before each of
\* getAllLoops has had its turn, and only loops of getAllLoops, also when a
\* start has failed half-way or another one has added loops.
RoundRobin ==
  /\ IsInjective(recent)
  /\ Range(recent) \subseteq Range(getAllLoops)

\* LoopsAreServed: every loop that the pool can hand out is published and its
\* thread is in loop() or about to be.
LoopsAreServed ==
  \A k \in DOMAIN loops_ : threads_[loops_[k]] \in {"published", "looping"}

\* NoThreadLeft: when the pool is gone so are all its threads, those included
\* of a start that failed before it came to their successors.
NoThreadLeft ==
  base = "gone" => \A t \in DOMAIN threads_ : threads_[t] = "dead"

\* The t-th thread as ServedLoop has it; one whose std::thread was never made is
\* not there.
Exists(t) == t \in DOMAIN threads_ /\ threads_[t] # "failed"

Place(t) == IF Exists(t) THEN threads_[t] ELSE "none"

Asked(t) == Exists(t) /\ quit_[t]

Owner(t) ==
  CASE ~Exists(t) -> "idle"
    [] Exists(t) /\ base = "waiting" /\ t = Len(threads_) -> "waiting"
    [] Exists(t) /\ base = "joining" /\ t = i + 1 -> "joining"
    [] Exists(t) /\ base \in {"destroying", "joining", "gone", "crashed"} /\ t <= i -> "gone"
    [] OTHER -> "using"

SL(t) == INSTANCE ServedLoop
           WITH place <- Place(t), quit <- Asked(t), owner <- Owner(t), stray <- FALSE

\* UsesServedLoops: toward each of its threads the pool is the owner that
\* ServedLoop describes: it waits for the loop, quits it only in service and
\* last, joins it only then, and nobody else quits it; a start that fails
\* half-way and one that follows it change none of that.
UsesServedLoops ==
  /\ \A t \in 1 .. MaxThreads : SL(t)!Init
  /\ [][\A t \in 1 .. MaxThreads : SL(t)!Next \/ UNCHANGED SL(t)!vars]_vars

\* StartReturns: start comes back, with all its loops or by the exception.
StartReturns == base = "starting" ~> base = "idle"

\* DestroyReturns: a pool whose threads have all entered their loops is
\* destroyed to the end.  (A quit before loop() is lost, see EventLoopThread.)
DestroyReturns ==
  (base = "destroying" /\ \A t \in DOMAIN threads_ : threads_[t] = "looping")
    ~> base = "gone"

=============================================================================

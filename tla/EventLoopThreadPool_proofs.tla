--------------------- MODULE EventLoopThreadPool_proofs ----------------------
(***************************************************************************)
(* Theorems about EventLoopThreadPool.tla, for any arguments of            *)
(* setThreadNum and any bound on the threads: type correctness,            *)
(* LoopsAreServed, RoundRobin and NoThreadLeft, and that the pool keeps to *)
(* what ServedLoop asks of the owner of each of its threads.               *)
(***************************************************************************)
EXTENDS EventLoopThreadPool, SequenceTheorems, TLAPS

-----------------------------------------------------------------------------
(* The inductive invariant *)

Places == {"starting", "published", "looping", "dead", "failed"}

Ending == {"destroying", "joining", "gone", "crashed"}

\* loops_ holds each loop once, and not yet the one that startLoop waits for.
LoopsOnce ==
  /\ IsInjective(loops_)
  /\ base = "waiting" => Len(threads_) > 0 /\ \A k \in DOMAIN loops_ : loops_[k] # Len(threads_)

\* The destructor empties loops_ before it quits any of them; until then next_
\* is 0 without loops.
QuitsComeLast ==
  IF base \in Ending THEN loops_ = <<>>
                     ELSE /\ \A t \in DOMAIN quit_ : quit_[t] = FALSE
                          /\ loops_ = <<>> => next_ = 0

\* recent is the stretch of loops_ that ends before next_, going round.
Slot(k) == IF k >= 1 THEN k ELSE k + Len(loops_)
RecentIsWindow ==
  IF loops_ = <<>>
  THEN Len(recent) <= 1 /\ \A j \in DOMAIN recent : recent[j] = BaseLoop
  ELSE /\ Len(recent) <= Len(loops_)
       /\ \A j \in DOMAIN recent : recent[j] = loops_[Slot(next_ - Len(recent) + j)]

\* The destructor has joined the first i threads.
JoinedAreDead ==
  /\ base \in {"destroying", "joining", "gone"} =>
       \A t \in DOMAIN threads_ : t <= i => threads_[t] = "dead"
  /\ base = "joining" => i < Len(threads_)
  /\ base = "gone" => i >= Len(threads_)

IInv ==
  /\ TypeOK /\ LoopsOnce /\ QuitsComeLast /\ LoopsAreServed
  /\ RecentIsWindow /\ JoinedAreDead

LEMMA InitIInv == Init => IInv
<1> SUFFICES ASSUME Init PROVE IInv
  OBVIOUS
<1>1. /\ loops_ \in Seq(DOMAIN threads_) /\ recent \in Seq({BaseLoop} \cup DOMAIN threads_)
      /\ threads_ \in Seq(Places) /\ quit_ \in Seq(BOOLEAN)
      /\ Len(quit_) = Len(threads_) /\ Len(recent) = 0
      /\ DOMAIN loops_ = {} /\ DOMAIN threads_ = {} /\ DOMAIN quit_ = {} /\ DOMAIN recent = {}
  BY DEF Init
<1>2. TypeOK
  BY <1>1 DEF Init, TypeOK, Places
<1>3. LoopsOnce /\ LoopsAreServed
  BY <1>1 DEF Init, LoopsOnce, LoopsAreServed, IsInjective
<1>4. QuitsComeLast /\ RecentIsWindow /\ JoinedAreDead
  BY <1>1 DEF Init, QuitsComeLast, RecentIsWindow, JoinedAreDead, Ending
<1> QED
  BY <1>2, <1>3, <1>4 DEF IInv

\* What the type invariant says of the sequences and their domains.
LEMMA Typed ==
  ASSUME TypeOK
  PROVE  /\ threads_ \in Seq(Places) /\ quit_ \in Seq(BOOLEAN)
         /\ loops_ \in Seq(DOMAIN threads_)
         /\ Len(threads_) \in Nat /\ Len(loops_) \in Nat /\ Len(recent) \in Nat
         /\ Len(quit_) = Len(threads_)
         /\ DOMAIN threads_ = 1 .. Len(threads_) /\ DOMAIN quit_ = 1 .. Len(threads_)
         /\ DOMAIN loops_ = 1 .. Len(loops_) /\ DOMAIN recent = 1 .. Len(recent)
         /\ \A k \in DOMAIN loops_ : loops_[k] \in DOMAIN threads_
<1>1. /\ threads_ \in Seq(Places) /\ quit_ \in Seq(BOOLEAN) /\ loops_ \in Seq(DOMAIN threads_)
      /\ recent \in Seq({BaseLoop} \cup DOMAIN threads_) /\ Len(quit_) = Len(threads_)
  BY DEF TypeOK, Places
<1> QED
  BY <1>1, LenProperties, ElementOfSeq

-----------------------------------------------------------------------------
(* The steps of a thread *)

\* One thread goes to another place; quit_ may only be cleared.
LEMMA ThreadStepIInv ==
  ASSUME IInv, NEW t \in DOMAIN threads_, ThreadStep(t)
  PROVE  IInv'
<1>a. TypeOK
  BY DEF IInv
<1>1. PICK p \in {"published", "looping", "dead"} :
        /\ threads_' = [threads_ EXCEPT ![t] = p]
        /\ threads_[t] \in {"starting", "published", "looping"}
        /\ p = "dead" => quit_[t]
        /\ threads_[t] = "looping" => p = "dead"
        /\ threads_[t] = "published" => p = "looping"
  BY DEF ThreadStep, Publish, EnterLoop, LeaveLoop
<1>2. quit_' = quit_ \/ quit_' = [quit_ EXCEPT ![t] = FALSE]
  BY DEF ThreadStep, Publish, EnterLoop, LeaveLoop
<1>3. UNCHANGED <<members, base, i, recent>>
  BY DEF ThreadStep, Publish, EnterLoop, LeaveLoop, rest, members
<1>4. /\ threads_' \in Seq(Places) /\ Len(threads_') = Len(threads_)
      /\ DOMAIN threads_' = DOMAIN threads_
      /\ \A u \in DOMAIN threads_ : threads_'[u] = IF u = t THEN p ELSE threads_[u]
  BY <1>a, <1>1, Typed, ExceptSeq DEF Places
<1>5. /\ quit_' \in Seq(BOOLEAN) /\ Len(quit_') = Len(quit_) /\ DOMAIN quit_' = DOMAIN quit_
      /\ \A u \in DOMAIN quit_ : quit_'[u] = TRUE => quit_[u] = TRUE
  <2>1. CASE quit_' = quit_
    BY <1>a, <2>1, Typed
  <2>2. CASE quit_' = [quit_ EXCEPT ![t] = FALSE]
    BY <1>a, <2>2, Typed, ExceptSeq
  <2> QED
    BY <1>2, <2>1, <2>2
<1>6. \A u \in DOMAIN quit_' : quit_'[u] \in BOOLEAN
  BY <1>5, ElementOfSeq, LenProperties
<1>7. TypeOK'
  BY <1>a, <1>3, <1>4, <1>5 DEF TypeOK, Places, members
<1>8. LoopsOnce' /\ RecentIsWindow'
  BY <1>3, <1>4 DEF IInv, LoopsOnce, RecentIsWindow, Slot, members
<1>9. QuitsComeLast'
  BY <1>3, <1>5, <1>6 DEF IInv, QuitsComeLast, members
<1>10. LoopsAreServed'
  <2> SUFFICES ASSUME NEW k \in DOMAIN loops_
               PROVE  threads_'[loops_[k]] \in {"published", "looping"}
    BY <1>3 DEF LoopsAreServed, members
  <2>1. loops_[k] \in DOMAIN threads_ /\ threads_[loops_[k]] \in {"published", "looping"}
    BY <1>a, Typed DEF IInv, LoopsAreServed
  <2>2. loops_ # <<>>
    BY <1>a, Typed
  <2>3. quit_[t] = FALSE
    BY <1>a, <2>2, Typed DEF IInv, QuitsComeLast
  <2> QED
    BY <1>1, <1>4, <2>1, <2>3
<1>11. JoinedAreDead'
  BY <1>1, <1>3, <1>4 DEF IInv, JoinedAreDead
<1> QED
  BY <1>7, <1>8, <1>9, <1>10, <1>11 DEF IInv

-----------------------------------------------------------------------------
(* The steps of the base thread *)

\* A thread more, which no loop of loops_ belongs to.
LEMMA PushIInv ==
  ASSUME IInv, CreateThread \/ CreateFails
  PROVE  IInv'
<1>a. TypeOK /\ base = "starting"
  BY DEF IInv, CreateThread, CreateFails, Push
<1>1. PICK p \in {"starting", "failed"} :
        threads_' = Append(threads_, p) /\ base' \in {"waiting", "idle"}
  BY DEF CreateThread, CreateFails, Push
<1>2. quit_' = Append(quit_, FALSE) /\ UNCHANGED <<members, i, recent>>
  BY DEF CreateThread, CreateFails, Push, rest
<1>3. /\ threads_' \in Seq(Places) /\ Len(threads_') = Len(threads_) + 1
      /\ DOMAIN threads_' = 1 .. Len(threads_) + 1
      /\ \A u \in DOMAIN threads_ : threads_'[u] = threads_[u]
  BY <1>a, <1>1, Typed, AppendProperties, LenProperties DEF Places
<1>4. /\ quit_' \in Seq(BOOLEAN) /\ Len(quit_') = Len(quit_) + 1
      /\ DOMAIN quit_' = 1 .. Len(quit_) + 1
      /\ \A u \in DOMAIN quit_ : quit_'[u] = quit_[u]
      /\ quit_'[Len(quit_) + 1] = FALSE
  <2>1. quit_ \in Seq(BOOLEAN)
    BY <1>a, Typed
  <2>2. Append(quit_, FALSE) \in Seq(BOOLEAN) /\ Len(Append(quit_, FALSE)) = Len(quit_) + 1
    BY <2>1, AppendProperties
  <2>3. DOMAIN Append(quit_, FALSE) = 1 .. Len(quit_) + 1 /\ DOMAIN quit_ = 1 .. Len(quit_)
    BY <2>1, <2>2, LenProperties
  <2>4. /\ \A u \in 1 .. Len(quit_) : Append(quit_, FALSE)[u] = quit_[u]
        /\ Append(quit_, FALSE)[Len(quit_) + 1] = FALSE
    BY <2>1, AppendProperties
  <2> QED
    BY <1>2, <2>2, <2>3, <2>4
<1>5. DOMAIN threads_ \subseteq DOMAIN threads_'
  BY <1>a, <1>3, Typed
<1>6. TypeOK'
  <2>1. loops_' \in Seq(DOMAIN threads_')
    BY <1>a, <1>2, <1>5, SeqMonotonic DEF TypeOK, members
  <2>2. recent' \in Seq({BaseLoop} \cup DOMAIN threads_')
    BY <1>a, <1>2, <1>5, SeqMonotonic DEF TypeOK
  <2> QED
    BY <1>a, <1>1, <1>2, <1>3, <1>4, <2>1, <2>2 DEF TypeOK, Places, members
<1>7. LoopsOnce'
  BY <1>a, <1>2, <1>3, Typed DEF IInv, LoopsOnce, members
<1>8. QuitsComeLast'
  BY <1>a, <1>1, <1>2, <1>4, Typed DEF IInv, QuitsComeLast, Ending, members
<1>9. LoopsAreServed'
  BY <1>a, <1>2, <1>3, Typed DEF IInv, LoopsAreServed, members
<1>10. RecentIsWindow' /\ JoinedAreDead'
  BY <1>1, <1>2 DEF IInv, RecentIsWindow, JoinedAreDead, Slot, members
<1> QED
  BY <1>6, <1>7, <1>8, <1>9, <1>10 DEF IInv

\* The published loop enters loops_, and a new round begins.
LEMMA StartLoopReturnsIInv ==
  ASSUME IInv, StartLoopReturns
  PROVE  IInv'
<1> DEFINE n == Len(threads_)
<1>a. TypeOK
  BY DEF IInv
<1>1. /\ base = "waiting" /\ base' = "starting" /\ threads_[n] \in {"published", "looping"}
      /\ loops_' = Append(loops_, n) /\ recent' = <<>> /\ i' = i + 1
      /\ UNCHANGED <<started_, numThreads_, next_, threads_, quit_>>
  BY DEF StartLoopReturns, Published
<1>2. n \in DOMAIN threads_ /\ \A k \in DOMAIN loops_ : loops_[k] # n
  BY <1>a, <1>1, Typed DEF IInv, LoopsOnce
<1>3. /\ loops_' \in Seq(DOMAIN threads_) /\ loops_' # <<>> /\ Len(loops_') = Len(loops_) + 1
      /\ DOMAIN loops_' = 1 .. Len(loops_) + 1
      /\ \A k \in DOMAIN loops_ : loops_'[k] = loops_[k]
      /\ loops_'[Len(loops_) + 1] = n
  <2>1. loops_ \in Seq(DOMAIN threads_) /\ DOMAIN loops_ = 1 .. Len(loops_)
    BY <1>a, Typed
  <2>2. /\ Append(loops_, n) \in Seq(DOMAIN threads_) /\ Append(loops_, n) # <<>>
        /\ Len(Append(loops_, n)) = Len(loops_) + 1
    BY <1>2, <2>1, AppendProperties
  <2>3. DOMAIN Append(loops_, n) = 1 .. Len(loops_) + 1
    BY <2>2, LenProperties
  <2>4. /\ \A k \in 1 .. Len(loops_) : Append(loops_, n)[k] = loops_[k]
        /\ Append(loops_, n)[Len(loops_) + 1] = n
    BY <1>2, <2>1, AppendProperties
  <2> QED
    BY <1>1, <2>1, <2>2, <2>3, <2>4
<1>4. recent' \in Seq({BaseLoop} \cup DOMAIN threads_) /\ Len(recent') = 0 /\ DOMAIN recent' = {}
  BY <1>1
<1>5. next_' < Len(loops_')
  <2>1. loops_ = <<>> => next_ = 0
    BY <1>1 DEF IInv, QuitsComeLast, Ending
  <2> QED
    BY <1>a, <1>1, <1>3, <2>1, Typed DEF TypeOK
<1>6. TypeOK'
  BY <1>a, <1>1, <1>3, <1>4, <1>5 DEF TypeOK
<1>7. LoopsOnce'
  <2>1. IsInjective(loops_)
    BY DEF IInv, LoopsOnce
  <2>2. IsInjective(loops_')
    <3>1. \A k \in DOMAIN loops_' : k \in DOMAIN loops_ \/ k = Len(loops_) + 1
      BY <1>a, <1>3, Typed
    <3> SUFFICES ASSUME NEW k \in DOMAIN loops_', NEW l \in DOMAIN loops_',
                        loops_'[k] = loops_'[l]
                 PROVE  k = l
      BY DEF IsInjective
    <3>2. CASE k \in DOMAIN loops_ /\ l \in DOMAIN loops_
      BY <1>3, <2>1, <3>2 DEF IsInjective
    <3>3. CASE k = Len(loops_) + 1 \/ l = Len(loops_) + 1
      BY <1>2, <1>3, <3>1, <3>3
    <3> QED
      BY <3>1, <3>2, <3>3
  <2> QED
    BY <1>1, <2>2 DEF LoopsOnce
<1>8. QuitsComeLast'
  BY <1>1, <1>3 DEF IInv, QuitsComeLast, Ending
<1>9. LoopsAreServed'
  BY <1>a, <1>1, <1>3, Typed DEF IInv, LoopsAreServed
<1>10. RecentIsWindow'
  BY <1>a, <1>3, <1>4, Typed DEF RecentIsWindow
<1>11. JoinedAreDead'
  BY <1>1 DEF JoinedAreDead
<1> QED
  BY <1>6, <1>7, <1>8, <1>9, <1>10, <1>11 DEF IInv

\* What Return makes of recent: one more at the end, the oldest goes if it is
\* a round already.
LEMMA Returned ==
  ASSUME NEW S, recent \in Seq(S), NEW loop \in S, Return(loop),
         Len(getAllLoops) \in Nat \ {0}, Len(recent) <= Len(getAllLoops)
  PROVE  /\ recent' \in Seq(S)
         /\ Len(recent') = IF Len(recent) < Len(getAllLoops) THEN Len(recent) + 1
                                                             ELSE Len(recent)
         /\ DOMAIN recent' = 1 .. Len(recent')
         /\ recent'[Len(recent')] = loop
         /\ \A j \in 1 .. Len(recent') - 1 :
              recent'[j] = recent[j + (Len(recent) + 1 - Len(recent'))]
<1> DEFINE m == Len(recent)
           all == Append(recent, loop)
<1>1. m \in Nat
  BY LenProperties
<1>2. all \in Seq(S) /\ all # <<>> /\ Len(all) = m + 1 /\ all[m + 1] = loop
      /\ \A j \in 1 .. m : all[j] = recent[j]
  BY AppendProperties
<1>3. recent' = IF Len(all) > Len(getAllLoops) THEN Tail(all) ELSE all
  BY DEF Return
<1>4. /\ Tail(all) \in Seq(S) /\ Len(Tail(all)) = m
      /\ \A j \in 1 .. m : Tail(all)[j] = all[j + 1]
  BY <1>1, <1>2, HeadTailProperties
<1> HIDE DEF all, m
<1>5. CASE m < Len(getAllLoops)
  <2>1. recent' = all
    BY <1>1, <1>2, <1>3, <1>5
  <2>2. DOMAIN all = 1 .. m + 1
    BY <1>2, LenProperties
  <2> QED
    BY <1>1, <1>2, <1>5, <2>1, <2>2 DEF m
<1>6. CASE m = Len(getAllLoops)
  <2>1. recent' = Tail(all)
    BY <1>1, <1>2, <1>3, <1>6
  <2>2. DOMAIN Tail(all) = 1 .. m
    BY <1>4, LenProperties
  <2>3. Tail(all)[m] = loop
    BY <1>1, <1>2, <1>4, <1>6
  <2>4. \A j \in 1 .. m - 1 : Tail(all)[j] = recent[j + 1]
    BY <1>1, <1>2, <1>4
  <2> QED
    BY <1>1, <1>4, <1>6, <2>1, <2>2, <2>3, <2>4 DEF m
<1> QED
  BY <1>1, <1>5, <1>6 DEF m

\* Counting back from the next index, going round: moving it on by one moves
\* the window of the last k results on by one.
Back(n, k, j, L) == IF n - k + j >= 1 THEN n - k + j ELSE n - k + j + L

\* Of L loops the n-th was next and the n1-th is now; m results were kept and
\* k are now; j is the place of one of these.
Moved(L, n, n1, m, k, j) ==
  /\ L \in Nat /\ n \in Nat /\ n1 \in Nat /\ m \in Nat /\ k \in Nat /\ j \in 1 .. k
  /\ n < L /\ m <= L /\ 1 <= k /\ k <= L
  /\ k = m + 1 \/ (k = m /\ m = L)
  /\ n1 = IF n + 1 = L THEN 0 ELSE n + 1

LEMMA WindowMoves ==
  ASSUME NEW L, NEW n, NEW n1, NEW m, NEW k, NEW j, Moved(L, n, n1, m, k, j)
  PROVE  /\ j = k => Back(n1, k, j, L) = n + 1
         /\ j < k => /\ j + (m + 1 - k) \in 1 .. m
                     /\ Back(n1, k, j, L) = Back(n, m, j + (m + 1 - k), L)
<1> DEFINE o == j + (m + 1 - k)
           new == Back(n1, k, j, L)
<1> USE DEF Back, Moved
<1>1. CASE n + 1 = L
  <2>1. n1 = 0
    BY <1>1
  <2>2. j = k => new = n + 1
    BY <1>1, <2>1
  <2>3. j < k => new = n + 1 - k + j /\ n - m + o = n + 1 - k + j /\ n - m + o >= 1
    BY <1>1, <2>1
  <2> QED
    BY <2>2, <2>3
<1>2. CASE n + 1 # L
  <2>1. n1 = n + 1
    BY <1>2
  <2>2. n1 - k + j = n - m + o
    BY <2>1
  <2>3. j = k => new = n + 1
    BY <2>1
  <2> QED
    BY <2>1, <2>2, <2>3
<1> QED
  BY <1>1, <1>2

\* The next loop continues the window.
LEMMA GetNextLoopIInv ==
  ASSUME IInv, getNextLoop
  PROVE  IInv'
<1> DEFINE L == Len(loops_)
           m == Len(recent)
           loop == IF loops_ = <<>> THEN BaseLoop ELSE loops_[next_ + 1]
<1>a. TypeOK /\ base = "idle"
  BY DEF IInv, getNextLoop
<1>b. next_ \in Nat /\ L \in Nat /\ m \in Nat /\ (loops_ # <<>> => next_ < L /\ L > 0)
      /\ DOMAIN loops_ = 1 .. L /\ DOMAIN recent = 1 .. m
  BY <1>a, Typed DEF TypeOK
<1>1. /\ Return(loop) /\ next_' = Wrapped(next_ + 1)
      /\ UNCHANGED <<started_, numThreads_, loops_, threads_, quit_, base, i>>
  BY DEF getNextLoop
<1>2. next_' \in Nat /\ (loops_ # <<>> => next_' = IF next_ + 1 = L THEN 0 ELSE next_ + 1)
      /\ (loops_ = <<>> => next_' = 0) /\ (loops_ # <<>> => next_' < L)
  <2>1. next_' = IF loops_ = <<>> \/ next_ + 1 >= L THEN 0 ELSE next_ + 1
    BY <1>1 DEF Wrapped
  <2> HIDE DEF L
  <2>2. CASE loops_ = <<>>
    BY <2>1, <2>2
  <2>3. CASE loops_ # <<>> /\ next_ + 1 = L
    BY <1>b, <2>1, <2>3
  <2>4. CASE loops_ # <<>> /\ next_ + 1 < L
    BY <1>b, <2>1, <2>4
  <2> QED
    BY <1>b, <2>2, <2>3, <2>4
<1>3. loop \in {BaseLoop} \cup DOMAIN threads_
  <2>1. CASE loops_ = <<>>
    BY <2>1
  <2>2. CASE loops_ # <<>>
    <3>1. next_ + 1 \in DOMAIN loops_
      BY <1>b, <2>2
    <3> QED
      BY <1>a, <2>2, <3>1, Typed
  <2> QED
    BY <2>1, <2>2
<1>4. /\ Len(getAllLoops) = IF loops_ = <<>> THEN 1 ELSE L
      /\ m <= Len(getAllLoops)
  BY DEF getAllLoops, IInv, RecentIsWindow
<1> DEFINE k == Len(recent')
<1>5. /\ recent' \in Seq({BaseLoop} \cup DOMAIN threads_)
      /\ k = IF m < Len(getAllLoops) THEN m + 1 ELSE m
      /\ DOMAIN recent' = 1 .. k
      /\ recent'[k] = loop
      /\ \A j \in 1 .. k - 1 : recent'[j] = recent[j + (m + 1 - k)]
  <2>1. recent \in Seq({BaseLoop} \cup DOMAIN threads_)
    BY <1>a DEF TypeOK
  <2>2. Len(getAllLoops) \in Nat \ {0}
    BY <1>b, <1>4
  <2> HIDE DEF loop
  <2> QED
    BY <1>1, <1>3, <1>4, <2>1, <2>2, Returned
<1> HIDE DEF loop, L, m, k
<1>6. TypeOK'
  BY <1>a, <1>1, <1>2, <1>5 DEF TypeOK, L
<1>7. LoopsOnce' /\ LoopsAreServed' /\ JoinedAreDead'
  BY <1>1 DEF IInv, LoopsOnce, LoopsAreServed, JoinedAreDead
<1>8. QuitsComeLast'
  BY <1>a, <1>1, <1>2 DEF IInv, QuitsComeLast, Ending
<1>9. RecentIsWindow'
  <2>1. CASE loops_ = <<>>
    <3>1. m <= 1 /\ k = 1 /\ recent'[1] = BaseLoop
      BY <1>b, <1>4, <1>5, <2>1 DEF loop
    <3>2. \A j \in DOMAIN recent' : j = 1
      BY <1>5, <3>1
    <3> QED
      BY <1>1, <2>1, <3>1, <3>2 DEF RecentIsWindow, k
  <2>2. CASE loops_ # <<>>
    <3>1. m <= L /\ k \in Nat /\ 1 <= k /\ k <= L /\ (k = m + 1 \/ (k = m /\ m = L))
      BY <1>b, <1>4, <1>5, <2>2
    <3>2. \A j \in 1 .. m : recent[j] = loops_[Back(next_, m, j, L)]
      BY <1>b, <2>2 DEF IInv, RecentIsWindow, Slot, Back, L, m
    <3> SUFFICES ASSUME NEW j \in 1 .. k
                 PROVE  recent'[j] = loops_[Back(next_', k, j, L)]
      BY <1>1, <1>5, <2>2, <3>1 DEF RecentIsWindow, Slot, Back, L, k
    <3> DEFINE o == j + (m + 1 - k)
    <3>3. /\ j = k => Back(next_', k, j, L) = next_ + 1
          /\ j < k => o \in 1 .. m /\ Back(next_', k, j, L) = Back(next_, m, o, L)
      <4>1. L \in Nat /\ next_ \in Nat /\ next_ < L /\ m \in Nat /\ next_' \in Nat
            /\ next_' = IF next_ + 1 = L THEN 0 ELSE next_ + 1
        BY <1>b, <1>2, <2>2
      <4> QED
        <5>1. Moved(L, next_, next_', m, k, j)
          BY <3>1, <4>1 DEF Moved
        <5> QED
          BY <5>1, WindowMoves
    <3>4. j = k => recent'[j] = loops_[next_ + 1]
      BY <1>5, <2>2 DEF loop
    <3>5. j < k => recent'[j] = recent[o]
      BY <1>5, <3>1
    <3>6. j = k \/ j < k
      BY <3>1
    <3> HIDE DEF o
    <3> QED
      BY <3>2, <3>3, <3>4, <3>5, <3>6
  <2> QED
    BY <2>1, <2>2
<1> QED
  BY <1>6, <1>7, <1>8, <1>9 DEF IInv

\* Everything that the destructor does, from its first step to its end.
LEMMA DestroyIInv ==
  ASSUME IInv, Destroy \/ QuitThread \/ DetachNothing \/ Join \/ Gone
  PROVE  IInv'
<1>a. TypeOK /\ base \notin {"waiting", "gone", "crashed", "starting"}
  BY DEF IInv, Destroy, QuitThread, DetachNothing, Join, Gone
<1>b. /\ i \in Nat /\ Len(threads_) \in Nat /\ DOMAIN threads_ = 1 .. Len(threads_)
      /\ DOMAIN quit_ = 1 .. Len(threads_)
  BY <1>a, Typed DEF TypeOK
<1>1. CASE Destroy
  <2>1. loops_' \in Seq(DOMAIN threads_) /\ recent' \in Seq({BaseLoop} \cup DOMAIN threads_)
        /\ loops_' = <<>> /\ DOMAIN loops_' = {} /\ DOMAIN recent' = {} /\ Len(recent') = 0
    BY <1>1 DEF Destroy
  <2>2. TypeOK'
    BY <1>a, <1>1, <2>1 DEF Destroy, TypeOK
  <2>3. LoopsOnce' /\ LoopsAreServed'
    BY <1>1, <2>1 DEF Destroy, LoopsOnce, LoopsAreServed, IsInjective
  <2>4. QuitsComeLast' /\ RecentIsWindow'
    BY <1>1, <2>1 DEF Destroy, QuitsComeLast, RecentIsWindow, Ending
  <2>5. JoinedAreDead'
    BY <1>1, <1>b DEF Destroy, JoinedAreDead
  <2> QED
    BY <2>2, <2>3, <2>4, <2>5 DEF IInv
<1>2. CASE QuitThread
  <2>1. i + 1 \in DOMAIN threads_
    BY <1>2, <1>b DEF QuitThread
  <2>2. quit_' \in Seq(BOOLEAN) /\ Len(quit_') = Len(quit_)
    BY <1>2, <1>a, <1>b, <2>1, Typed, ExceptSeq DEF QuitThread, Quit
  <2>3. TypeOK'
    BY <1>a, <1>2, <2>2 DEF QuitThread, TypeOK, members, rest
  <2>4. LoopsOnce' /\ LoopsAreServed' /\ RecentIsWindow'
    BY <1>2 DEF QuitThread, IInv, LoopsOnce, LoopsAreServed, RecentIsWindow, Slot, members, rest
  <2>5. QuitsComeLast' /\ JoinedAreDead'
    BY <1>2 DEF QuitThread, IInv, QuitsComeLast, JoinedAreDead, Ending, members, rest
  <2> QED
    BY <2>3, <2>4, <2>5 DEF IInv
<1>3. CASE DetachNothing \/ Gone
  <2>1. /\ base = "destroying" /\ base' \in {"crashed", "gone"}
        /\ base' = "gone" => i >= Len(threads_)
        /\ UNCHANGED <<members, threads_, quit_, i, recent>>
    BY <1>3 DEF DetachNothing, Gone, rest
  <2>2. TypeOK'
    BY <1>a, <2>1 DEF TypeOK, members
  <2>3. LoopsOnce' /\ LoopsAreServed' /\ RecentIsWindow'
    BY <2>1 DEF IInv, LoopsOnce, LoopsAreServed, RecentIsWindow, Slot, members
  <2>4. QuitsComeLast' /\ JoinedAreDead'
    BY <2>1 DEF IInv, QuitsComeLast, JoinedAreDead, Ending, members
  <2> QED
    BY <2>2, <2>3, <2>4 DEF IInv
<1>4. CASE Join
  <2>1. /\ base = "joining" /\ base' = "destroying" /\ i' = i + 1 /\ threads_[i + 1] = "dead"
        /\ UNCHANGED <<members, threads_, quit_, recent>>
    BY <1>4 DEF Join, Ended
  <2>2. TypeOK'
    BY <1>a, <2>1 DEF TypeOK, members
  <2>3. LoopsOnce' /\ LoopsAreServed' /\ RecentIsWindow'
    BY <2>1 DEF IInv, LoopsOnce, LoopsAreServed, RecentIsWindow, Slot, members
  <2>4. QuitsComeLast'
    BY <2>1 DEF IInv, QuitsComeLast, Ending, members
  <2>5. JoinedAreDead'
    <3> SUFFICES ASSUME NEW t \in DOMAIN threads_, t <= i + 1
                 PROVE  threads_[t] = "dead"
      BY <2>1 DEF JoinedAreDead
    <3>1. t <= i \/ t = i + 1
      BY <1>b
    <3> QED
      BY <2>1, <3>1 DEF IInv, JoinedAreDead
  <2> QED
    BY <2>2, <2>3, <2>4, <2>5 DEF IInv
<1> QED
  BY <1>1, <1>2, <1>3, <1>4

LEMMA StepIInv == IInv /\ [Next]_vars => IInv'
<1> SUFFICES ASSUME IInv, [Next]_vars PROVE IInv'
  OBVIOUS
<1>1. ASSUME NEW n \in Numbers, setThreadNum(n)
      PROVE  IInv'
  <2>1. n \in Nat
    BY PoolAssumption
  <2> QED
    BY <1>1, <2>1 DEF setThreadNum, rest, IInv, TypeOK, LoopsOnce, QuitsComeLast, LoopsAreServed,
                      RecentIsWindow, JoinedAreDead, Slot
<1>2. CASE start
  BY <1>2 DEF start, IInv, TypeOK, LoopsOnce, QuitsComeLast, LoopsAreServed, RecentIsWindow,
              JoinedAreDead, Slot, Ending
<1>3. CASE StartReturn
  BY <1>3 DEF StartReturn, IInv, TypeOK, LoopsOnce, QuitsComeLast, LoopsAreServed,
              RecentIsWindow, JoinedAreDead, Slot, Ending, members, rest
<1>4. CASE UNCHANGED vars
  BY <1>4 DEF vars, members, rest, IInv, TypeOK, LoopsOnce, QuitsComeLast, LoopsAreServed,
              RecentIsWindow, JoinedAreDead, Slot
<1> QED
  BY <1>1, <1>2, <1>3, <1>4, ThreadStepIInv, PushIInv, StartLoopReturnsIInv, GetNextLoopIInv,
     DestroyIInv DEF Next, BaseStep

LEMMA Invariance == Spec => []IInv
  BY InitIInv, StepIInv, PTL DEF Spec

-----------------------------------------------------------------------------
(* Invariants *)

\* Type correctness of the pool; next_ is a valid index through any starts.
THEOREM TypeCorrect == Spec => []TypeOK
<1>1. IInv => TypeOK
  BY DEF IInv
<1> QED
  BY <1>1, Invariance, PTL

\* Every loop that can be handed out is published and not asked to quit.
THEOREM HandedOutIsServed == Spec => []LoopsAreServed
<1>1. IInv => LoopsAreServed
  BY DEF IInv
<1> QED
  BY <1>1, Invariance, PTL

\* A window of loops_ that is at most one round long repeats nothing.
LEMMA WindowRepeatsNothing == IInv => RoundRobin
<1> SUFFICES ASSUME IInv PROVE RoundRobin
  OBVIOUS
<1> DEFINE L == Len(loops_)
           m == Len(recent)
           at(j) == IF next_ - m + j >= 1 THEN next_ - m + j ELSE next_ - m + j + L
<1>1. next_ \in Nat /\ L \in Nat /\ m \in Nat /\ (loops_ # <<>> => next_ < L)
      /\ DOMAIN loops_ = 1 .. L /\ DOMAIN recent = 1 .. m
  BY Typed DEF IInv, TypeOK
<1>2. CASE loops_ = <<>>
  <2>1. m <= 1 /\ \A j \in DOMAIN recent : recent[j] = BaseLoop
    BY <1>2 DEF IInv, RecentIsWindow
  <2>2. \A j, k \in DOMAIN recent : j = k
    BY <1>1, <2>1
  <2>3. Range(getAllLoops) = {BaseLoop}
    BY <1>2 DEF getAllLoops, Range
  <2> QED
    BY <2>1, <2>2, <2>3 DEF RoundRobin, IsInjective, Range
<1>3. CASE loops_ # <<>>
  <2>1. m <= L /\ \A j \in DOMAIN recent : recent[j] = loops_[at(j)]
    BY <1>3 DEF IInv, RecentIsWindow, Slot
  <2>2. \A j \in DOMAIN recent : at(j) \in DOMAIN loops_
    BY <1>1, <1>3, <2>1
  <2>3. \A j, k \in DOMAIN recent : at(j) = at(k) => j = k
    BY <1>1, <1>3, <2>1
  <2> HIDE DEF at, L, m
  <2>4. IsInjective(recent)
    BY <2>1, <2>2, <2>3 DEF IInv, LoopsOnce, IsInjective
  <2>5. Range(recent) \subseteq Range(loops_)
    BY <2>1, <2>2 DEF Range
  <2> QED
    BY <1>3, <2>4, <2>5 DEF RoundRobin, getAllLoops
<1> QED
  BY <1>2, <1>3

\* The loops are handed out in turn, whatever starts come in between.
THEOREM LoopsTakeTurns == Spec => []RoundRobin
  BY WindowRepeatsNothing, Invariance, PTL

\* A pool that is gone has joined every thread it started.
THEOREM EveryThreadEnds == Spec => []NoThreadLeft
<1>1. IInv => NoThreadLeft
  <2> SUFFICES ASSUME IInv, base = "gone", NEW t \in DOMAIN threads_
               PROVE  threads_[t] = "dead"
    BY DEF NoThreadLeft
  <2>1. i \in Nat /\ DOMAIN threads_ = 1 .. Len(threads_) /\ Len(threads_) \in Nat
    BY Typed DEF IInv, TypeOK
  <2>2. t <= i
    BY <2>1 DEF IInv, JoinedAreDead
  <2> QED
    BY <2>2 DEF IInv, JoinedAreDead
<1> QED
  BY <1>1, Invariance, PTL

-----------------------------------------------------------------------------
(* The pool and its threads: refinement of ServedLoop *)

\* A thread that has not published is the one startLoop waits for; only the
\* destructor quits, one thread after the other, and a thread is dead only then.
InTurn(t) ==
  /\ threads_[t] = "starting" => base = "waiting" /\ t = Len(threads_)
  /\ threads_[t] = "dead" => quit_[t]
  /\ quit_[t] => base \in Ending /\ (t <= i \/ (base = "joining" /\ t = i + 1))

ThreadsInTurn == \A t \in DOMAIN threads_ : InTurn(t)

\* Where the threads are and what the base thread is at, as in IInv.
LEMMA Pool ==
  ASSUME IInv
  PROVE  /\ i \in Nat /\ Len(threads_) \in Nat /\ Len(quit_) = Len(threads_)
         /\ DOMAIN threads_ = 1 .. Len(threads_) /\ DOMAIN quit_ = 1 .. Len(threads_)
         /\ \A t \in DOMAIN threads_ : threads_[t] \in Places /\ quit_[t] \in BOOLEAN
         /\ base \in {"idle", "starting", "waiting"} \cup Ending
         /\ base = "waiting" => Len(threads_) > 0
<1>1. TypeOK /\ LoopsOnce
  BY DEF IInv
<1>2. \A t \in DOMAIN threads_ : threads_[t] \in Places /\ quit_[t] \in BOOLEAN
  BY <1>1, Typed, ElementOfSeq
<1> QED
  BY <1>1, <1>2, Typed DEF TypeOK, LoopsOnce, Ending

LEMMA PushKeeps ==
  ASSUME IInv, NEW p, Push(p)
  PROVE  /\ Len(threads_') = Len(threads_) + 1
         /\ DOMAIN threads_' = 1 .. Len(threads_) + 1
         /\ \A t \in DOMAIN threads_ : threads_'[t] = threads_[t] /\ quit_'[t] = quit_[t]
         /\ threads_'[Len(threads_) + 1] = p /\ quit_'[Len(threads_) + 1] = FALSE
BY Pool DEF Push

LEMMA InTurnStep ==
  ASSUME IInv, ThreadsInTurn, [Next]_vars
  PROVE  ThreadsInTurn'
<1>a. /\ i \in Nat /\ Len(threads_) \in Nat
      /\ DOMAIN threads_ = 1 .. Len(threads_) /\ DOMAIN quit_ = 1 .. Len(threads_)
      /\ \A t \in DOMAIN threads_ : threads_[t] \in Places /\ quit_[t] \in BOOLEAN
  BY Pool
<1> SUFFICES ASSUME NEW t \in DOMAIN threads_'
             PROVE  InTurn(t)'
  BY DEF ThreadsInTurn
<1>1. ASSUME NEW u \in DOMAIN threads_, ThreadStep(u)
      PROVE  InTurn(t)'
  <2>1. t \in DOMAIN threads_ /\ InTurn(t) /\ UNCHANGED <<base, i>>
        /\ Len(threads_') = Len(threads_)
    BY <1>1, <1>a DEF ThreadStep, Publish, EnterLoop, LeaveLoop, rest, ThreadsInTurn
  <2>2. CASE u # t
    <3>1. threads_'[t] = threads_[t] /\ quit_'[t] = quit_[t]
      BY <1>1, <1>a, <2>1, <2>2 DEF ThreadStep, Publish, EnterLoop, LeaveLoop
    <3> QED
      BY <2>1, <3>1 DEF InTurn
  <2>3. CASE u = t
    <3>1. CASE Publish(t)
      BY <1>a, <2>1, <3>1 DEF Publish, InTurn
    <3>2. CASE EnterLoop(t)
      BY <1>a, <2>1, <3>2 DEF EnterLoop, InTurn
    <3>3. CASE LeaveLoop(t)
      BY <1>a, <2>1, <3>3 DEF LeaveLoop, InTurn
    <3> QED
      BY <1>1, <2>3, <3>1, <3>2, <3>3 DEF ThreadStep
  <2> QED
    BY <2>2, <2>3
<1>2. CASE CreateThread \/ CreateFails
  <2>1. PICK p \in {"starting", "failed"} :
          Push(p) /\ base = "starting" /\ (p = "starting" => base' = "waiting") /\ i' = i
    BY <1>2 DEF CreateThread, CreateFails, Push, rest
  <2>2. CASE t \in DOMAIN threads_
    BY <1>a, <2>1, <2>2, PushKeeps DEF ThreadsInTurn, InTurn, Ending
  <2>3. CASE t = Len(threads_) + 1
    BY <1>a, <2>1, <2>3, PushKeeps DEF InTurn
  <2>4. DOMAIN threads_' = 1 .. Len(threads_) + 1
    BY <2>1, PushKeeps
  <2> QED
    BY <1>a, <2>2, <2>3, <2>4
<1>3. CASE StartLoopReturns
  BY <1>3, <1>a DEF StartLoopReturns, Published, ThreadsInTurn, InTurn, Ending
<1>4. CASE QuitThread
  <2>1. /\ base = "destroying" /\ base' = "joining" /\ UNCHANGED <<threads_, i>>
        /\ quit_' = [quit_ EXCEPT ![i + 1] = TRUE]
    BY <1>4 DEF QuitThread, Quit, rest
  <2>2. quit_'[t] = IF t = i + 1 THEN TRUE ELSE quit_[t]
    BY <1>a, <2>1
  <2> QED
    BY <1>a, <2>1, <2>2 DEF ThreadsInTurn, InTurn, Ending
<1>5. CASE Join
  BY <1>5, <1>a DEF Join, ThreadsInTurn, InTurn, Ending
<1>6. CASE StartReturn \/ DetachNothing \/ Gone
  BY <1>6, <1>a DEF StartReturn, DetachNothing, Gone, rest, ThreadsInTurn, InTurn, Ending
<1>7. CASE start \/ Destroy
  BY <1>7, <1>a DEF start, Destroy, ThreadsInTurn, InTurn, Ending
<1>8. CASE getNextLoop \/ \E n \in Numbers : setThreadNum(n)
  BY <1>8 DEF getNextLoop, setThreadNum, rest, ThreadsInTurn, InTurn
<1>9. CASE UNCHANGED vars
  BY <1>9 DEF vars, rest, ThreadsInTurn, InTurn
<1> QED
  BY <1>1, <1>2, <1>3, <1>4, <1>5, <1>6, <1>7, <1>8, <1>9 DEF Next, BaseStep

\* The steps of a thread.
LEMMA ThreadServes ==
  ASSUME IInv, ThreadsInTurn, NEW u \in DOMAIN threads_, ThreadStep(u),
         NEW t \in 1 .. MaxThreads
  PROVE  SL(t)!Next \/ UNCHANGED SL(t)!vars
<1>a. /\ i \in Nat /\ Len(threads_) \in Nat
      /\ DOMAIN threads_ = 1 .. Len(threads_) /\ DOMAIN quit_ = 1 .. Len(threads_)
      /\ \A v \in DOMAIN threads_ : threads_[v] \in Places /\ quit_[v] \in BOOLEAN
  BY Pool
<1>1. /\ UNCHANGED <<base, i>>
      /\ DOMAIN threads_' = DOMAIN threads_ /\ Len(threads_') = Len(threads_)
      /\ \A v \in DOMAIN threads_ : v # u => threads_'[v] = threads_[v] /\ quit_'[v] = quit_[v]
      /\ threads_[u] # "failed" /\ threads_'[u] # "failed"
  BY <1>a DEF ThreadStep, Publish, EnterLoop, LeaveLoop, rest
<1>2. UNCHANGED Owner(t)
  BY <1>1 DEF Owner, Exists
<1>3. CASE t # u
  <2>1. UNCHANGED <<Place(t), Asked(t)>>
    BY <1>1, <1>3 DEF Place, Asked, Exists
  <2> QED
    BY <1>2, <2>1 DEF SL!vars
<1>4. CASE t = u /\ Publish(t)
  <2>1. Place(t) = "starting" /\ Place(t)' = "published" /\ UNCHANGED Asked(t)
    BY <1>a, <1>4 DEF Publish, Place, Asked, Exists
  <2> QED
    BY <1>2, <2>1 DEF SL!Publish, SL!Next
<1>5. CASE t = u /\ EnterLoop(t)
  <2>1. Place(t) = "published" /\ Place(t)' = "looping" /\ Asked(t)' = FALSE
    BY <1>a, <1>5 DEF EnterLoop, Place, Asked, Exists
  <2> QED
    BY <1>2, <2>1 DEF SL!EnterLoop, SL!Next
<1>6. CASE t = u /\ LeaveLoop(t)
  <2>1. Place(t) = "looping" /\ Place(t)' = "dead" /\ Asked(t) /\ UNCHANGED Asked(t)
    BY <1>a, <1>6 DEF LeaveLoop, Place, Asked, Exists
  <2> QED
    BY <1>2, <2>1 DEF SL!LeaveLoop, SL!Next
<1> QED
  BY <1>3, <1>4, <1>5, <1>6 DEF ThreadStep

\* The thread at the end of threads_: made, waited for and returned.
LEMMA StartServes ==
  ASSUME IInv, ThreadsInTurn, CreateThread \/ CreateFails \/ StartLoopReturns,
         NEW t \in 1 .. MaxThreads
  PROVE  SL(t)!Next \/ UNCHANGED SL(t)!vars
<1>a. /\ i \in Nat /\ Len(threads_) \in Nat
      /\ DOMAIN threads_ = 1 .. Len(threads_) /\ DOMAIN quit_ = 1 .. Len(threads_)
      /\ \A v \in DOMAIN threads_ : threads_[v] \in Places /\ quit_[v] \in BOOLEAN
  BY Pool
<1>1. CASE StartLoopReturns
  <2>1. /\ base = "waiting" /\ base' = "starting" /\ UNCHANGED <<threads_, quit_>>
        /\ threads_[Len(threads_)] \in {"published", "looping"}
    BY <1>1 DEF StartLoopReturns, Published
  <2>2. UNCHANGED <<Place(t), Asked(t), Exists(t)>>
    BY <2>1 DEF Place, Asked, Exists
  <2>3. CASE t = Len(threads_) /\ Exists(t)
    <3>1. Owner(t) = "waiting" /\ Owner(t)' = "using"
      BY <2>1, <2>2, <2>3 DEF Owner
    <3>2. SL(t)!InService
      BY <2>1, <2>3 DEF SL!InService, Place
    <3> QED
      BY <2>2, <3>1, <3>2 DEF SL!Return, SL!Next
  <2>4. CASE t # Len(threads_) \/ ~Exists(t)
    <3>1. UNCHANGED Owner(t)
      BY <2>1, <2>2, <2>4 DEF Owner
    <3> QED
      BY <2>2, <3>1 DEF SL!vars
  <2> QED
    BY <2>3, <2>4
<1>2. CASE CreateThread \/ CreateFails
  <2>1. PICK p \in {"starting", "failed"} :
          /\ Push(p) /\ base = "starting" /\ i' = i
          /\ base' = IF p = "starting" THEN "waiting" ELSE "idle"
    BY <1>2 DEF CreateThread, CreateFails, Push, rest
  <2>2. /\ Len(threads_') = Len(threads_) + 1
        /\ DOMAIN threads_' = 1 .. Len(threads_) + 1
        /\ \A v \in DOMAIN threads_ : threads_'[v] = threads_[v] /\ quit_'[v] = quit_[v]
        /\ threads_'[Len(threads_) + 1] = p /\ quit_'[Len(threads_) + 1] = FALSE
    BY <2>1, PushKeeps
  <2>3. CASE t \in DOMAIN threads_
    <3>1. UNCHANGED <<Place(t), Asked(t), Exists(t)>>
      BY <1>a, <2>2, <2>3 DEF Place, Asked, Exists
    <3>2. t # Len(threads_')
      BY <1>a, <2>2, <2>3
    <3>3. UNCHANGED Owner(t)
      BY <2>1, <3>1, <3>2 DEF Owner
    <3> QED
      BY <3>1, <3>3 DEF SL!vars
  <2>4. CASE t \notin DOMAIN threads_'
    <3>1. ~Exists(t) /\ ~Exists(t)'
      BY <1>a, <2>2, <2>4 DEF Exists
    <3> QED
      BY <3>1 DEF Owner, Place, Asked, SL!vars
  <2>5. CASE t = Len(threads_) + 1
    <3>1. ~Exists(t) /\ (Exists(t)' <=> p = "starting")
      BY <1>a, <2>1, <2>2, <2>5 DEF Exists
    <3>2. CASE p = "failed"
      BY <3>1, <3>2 DEF Owner, Place, Asked, SL!vars
    <3>3. CASE p = "starting"
      <4>1. Place(t) = "none" /\ Place(t)' = "starting" /\ ~Asked(t) /\ ~Asked(t)'
        BY <2>2, <2>5, <3>1, <3>3 DEF Place, Asked
      <4>2. Owner(t) = "idle" /\ Owner(t)' = "waiting"
        BY <2>1, <2>2, <2>5, <3>1, <3>3 DEF Owner
      <4>3. UNCHANGED Asked(t)
        BY <3>1, <2>2, <2>5 DEF Asked
      <4> QED
        BY <4>1, <4>2, <4>3 DEF SL!Start, SL!Next
    <3> QED
      BY <2>1, <3>2, <3>3
  <2> QED
    BY <1>a, <2>2, <2>3, <2>4, <2>5
<1> QED
  BY <1>1, <1>2

\* The destructor's turn at one thread.
LEMMA EndServes ==
  ASSUME IInv, ThreadsInTurn, QuitThread \/ Join, NEW t \in 1 .. MaxThreads
  PROVE  SL(t)!Next \/ UNCHANGED SL(t)!vars
<1>a. /\ i \in Nat /\ Len(threads_) \in Nat
      /\ DOMAIN threads_ = 1 .. Len(threads_) /\ DOMAIN quit_ = 1 .. Len(threads_)
      /\ \A v \in DOMAIN threads_ : threads_[v] \in Places /\ quit_[v] \in BOOLEAN
  BY Pool
<1>1. CASE QuitThread
  <2>1. /\ base = "destroying" /\ base' = "joining" /\ UNCHANGED <<threads_, i>>
        /\ quit_' = [quit_ EXCEPT ![i + 1] = TRUE] /\ i + 1 \in DOMAIN threads_
        /\ threads_[i + 1] # "failed"
    BY <1>1, <1>a DEF QuitThread, Quit, rest
  <2>2. UNCHANGED <<Place(t), Exists(t)>>
    BY <2>1 DEF Place, Exists
  <2>3. CASE t # i + 1
    <3>1. UNCHANGED Asked(t)
      BY <1>a, <2>1, <2>3 DEF Asked, Exists
    <3>2. UNCHANGED Owner(t)
      BY <2>1, <2>2, <2>3 DEF Owner
    <3> QED
      BY <2>2, <3>1, <3>2 DEF SL!vars
  <2>4. CASE t = i + 1
    <3>1. Exists(t) /\ Exists(t)' /\ Asked(t)' = TRUE
      BY <1>a, <2>1, <2>4 DEF Exists, Asked
    <3>2. Owner(t) = "using" /\ Owner(t)' = "joining"
      BY <1>a, <2>1, <2>4, <3>1 DEF Owner
    <3>3. InTurn(t)
      BY <2>1, <2>4 DEF ThreadsInTurn
    <3>4. threads_[t] \in {"published", "looping"}
      BY <1>a, <2>1, <2>4, <3>3 DEF InTurn, Places
    <3>5. SL(t)!InService
      BY <3>1, <3>4 DEF SL!InService, Place
    <3> QED
      BY <2>2, <3>1, <3>2, <3>5 DEF SL!Quit, SL!Next
  <2> QED
    BY <2>3, <2>4
<1>2. CASE Join
  <2>1. /\ base = "joining" /\ base' = "destroying" /\ UNCHANGED <<threads_, quit_>>
        /\ i' = i + 1 /\ threads_[i + 1] = "dead"
    BY <1>2 DEF Join, Ended
  <2>2. UNCHANGED <<Place(t), Exists(t), Asked(t)>>
    BY <2>1 DEF Place, Exists, Asked
  <2>3. CASE t # i + 1 \/ ~Exists(t)
    <3>1. UNCHANGED Owner(t)
      <4>1. t <= i + 1 <=> t <= i \/ t = i + 1
        BY <1>a
      <4> QED
        BY <2>1, <2>2, <2>3, <4>1 DEF Owner
    <3> QED
      BY <2>2, <3>1 DEF SL!vars
  <2>4. CASE t = i + 1 /\ Exists(t)
    <3>1. Owner(t) = "joining" /\ Owner(t)' = "gone"
      BY <1>a, <2>1, <2>2, <2>4 DEF Owner
    <3>2. Place(t) = "dead"
      BY <2>1, <2>4 DEF Place
    <3> QED
      BY <2>2, <3>1, <3>2 DEF SL!Join, SL!Next
  <2> QED
    BY <2>3, <2>4
<1> QED
  BY <1>1, <1>2

\* Every other step leaves the threads and their owner where they are.
LEMMA OthersServe ==
  ASSUME IInv, NEW t \in 1 .. MaxThreads,
         \/ start \/ getNextLoop \/ Destroy \/ \E n \in Numbers : setThreadNum(n)
         \/ StartReturn \/ DetachNothing \/ Gone
         \/ UNCHANGED vars
  PROVE  UNCHANGED SL(t)!vars
<1>a. i \in Nat /\ t > 0
  BY Pool
<1>1. UNCHANGED <<threads_, quit_>>
  BY DEF start, getNextLoop, Destroy, setThreadNum, StartReturn, DetachNothing, Gone, vars, rest
<1>2. UNCHANGED <<Place(t), Exists(t), Asked(t)>>
  BY <1>1 DEF Place, Exists, Asked
<1>3. \/ UNCHANGED <<base, i>>
      \/ base = "destroying" /\ base' \in {"crashed", "gone"} /\ i' = i
      \/ base \in {"idle", "starting"} /\ base' \in {"idle", "starting"}
      \/ base = "idle" /\ base' = "destroying" /\ i' = 0
  BY DEF start, getNextLoop, Destroy, setThreadNum, StartReturn, DetachNothing, Gone, vars, rest
<1>4. UNCHANGED Owner(t)
  BY <1>a, <1>1, <1>2, <1>3 DEF Owner
<1> QED
  BY <1>2, <1>4 DEF SL!vars

\* Toward each thread, for any number of them and of starts, the pool keeps to
\* the protocol of ServedLoop.
THEOREM KeepsProtocol == Spec => UsesServedLoops
<1>1. Init => \A t \in 1 .. MaxThreads : SL(t)!Init
  BY DEF Init, SL!Init, Place, Asked, Owner, Exists
<1>2. Init => ThreadsInTurn
  BY DEF Init, ThreadsInTurn
<1>3. IInv /\ ThreadsInTurn /\ [Next]_vars =>
        [\A t \in 1 .. MaxThreads : SL(t)!Next \/ UNCHANGED SL(t)!vars]_vars
  <2> SUFFICES ASSUME IInv, ThreadsInTurn, Next, NEW t \in 1 .. MaxThreads
               PROVE  SL(t)!Next \/ UNCHANGED SL(t)!vars
    OBVIOUS
  <2>1. CASE \E u \in DOMAIN threads_ : ThreadStep(u)
    BY <2>1, ThreadServes
  <2>2. CASE CreateThread \/ CreateFails \/ StartLoopReturns
    BY <2>2, StartServes
  <2>3. CASE QuitThread \/ Join
    BY <2>3, EndServes
  <2>4. CASE \/ start \/ getNextLoop \/ Destroy \/ \E n \in Numbers : setThreadNum(n)
             \/ StartReturn \/ DetachNothing \/ Gone
    BY <2>4, OthersServe
  <2> QED
    BY <2>1, <2>2, <2>3, <2>4 DEF Next, BaseStep
<1> QED
  BY <1>1, <1>2, <1>3, InTurnStep, Invariance, PTL DEF Spec, UsesServedLoops
=============================================================================

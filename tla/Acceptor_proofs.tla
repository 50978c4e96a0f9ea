-------------------------- MODULE Acceptor_proofs ---------------------------
(***************************************************************************)
(* Theorems about Acceptor.tla, for any set of peers and any limit:        *)
(* type correctness, DescriptorsAccounted, which is inductive with it, and *)
(* that each connection waits once and is handed out at most once.         *)
(***************************************************************************)
EXTENDS Acceptor, SequenceTheorems, TLAPS

IInv == TypeOK /\ DescriptorsAccounted

LEMMA InitIInv == Init => IInv
<1> SUFFICES ASSUME Init PROVE IInv
  OBVIOUS
<1>1. backlog \in Seq(Peers)
  BY DEF Init
<1> QED
  BY <1>1 DEF Init, IInv, TypeOK, DescriptorsAccounted

\* The end of the process leaves nothing open.
LEMMA ExitIInv ==
  ASSUME IInv, Exit
  PROVE  IInv'
<1>1. backlog' \in Seq(Peers)
  BY DEF Exit
<1> QED
  BY <1>1 DEF Exit, IInv, TypeOK, DescriptorsAccounted

\* accept keeps the account: what it opens it gives away.
LEMMA HandleReadIInv ==
  ASSUME IInv, handleRead
  PROVE  IInv'
<1> USE DEF IInv, TypeOK, DescriptorsAccounted, handleRead, world, InterestAfter
<1>1. backlog \in Seq(Peers) /\ backlog # <<>>
  OBVIOUS
<1>2. Head(backlog) \in Peers /\ Tail(backlog) \in Seq(Peers)
  BY <1>1, HeadTailProperties
<1>3. CASE Accepted
  <2>1. CASE NewConnectionCallBack_
    BY <1>2, <1>3, <2>1 DEF Accepted, Opened
  <2>2. CASE ~NewConnectionCallBack_
    BY <1>2, <1>3, <2>2 DEF Accepted, Opened
  <2> QED
    BY <2>1, <2>2
<1>4. CASE Rejected
  BY <1>2, <1>4 DEF Rejected
<1>5. CASE LimitReached
  BY <1>5 DEF LimitReached
<1> QED
  BY <1>3, <1>4, <1>5

LEMMA StepIInv == IInv /\ [Next]_vars => IInv'
<1> SUFFICES ASSUME IInv, [Next]_vars PROVE IInv'
  OBVIOUS
<1>a. Exit => IInv'
  BY ExitIInv
<1>b. handleRead => IInv'
  BY HandleReadIInv
<1> USE AcceptorAssumption DEF IInv, TypeOK, DescriptorsAccounted, world, objectVars
<1>1. CASE Construct
  <2>1. CASE Exit
    BY <2>1, <1>a
  <2>2. CASE ~Exit
    <3>1. /\ exists' = TRUE /\ open' = open \cup {Listener}
          /\ UNCHANGED <<listening_, NewConnectionCallBack_, interest, reported, backlog,
                         held, world>>
      BY <1>1, <2>2 DEF Construct
    <3>2. ~exists
      BY <1>1 DEF Construct
    <3>3. TypeOK'
      BY <3>1
    <3>4. DescriptorsAccounted'
      BY <3>1, <3>2
    <3> QED
      BY <3>3, <3>4
  <2> QED
    BY <2>1, <2>2
<1>2. CASE setNewConnectionCallBack
  BY <1>2 DEF setNewConnectionCallBack
<1>3. CASE listen
  <2>1. CASE Exit
    BY <2>1, <1>a
  <2>2. CASE ~Exit
    <3>1. /\ exists /\ listening_' = TRUE /\ interest' = wired
          /\ UNCHANGED <<exists, NewConnectionCallBack_, reported, backlog, open, held, world>>
      BY <1>3, <2>2 DEF listen
    <3>2. TypeOK'
      BY <3>1
    <3>3. DescriptorsAccounted'
      BY <3>1
    <3> QED
      BY <3>2, <3>3
  <2> QED
    BY <2>1, <2>2
<1>4. CASE Destroy
  <2>1. backlog' \in Seq(Peers)
    BY <1>4 DEF Destroy
  <2> QED
    BY <1>4, <2>1 DEF Destroy, InterestLeft
<1>5. ASSUME NEW p \in Peers, Connect(p)
      PROVE  IInv'
  <2>1. backlog' \in Seq(Peers) /\ backlog' # <<>>
    BY <1>5, AppendProperties DEF Connect
  <2> QED
    BY <1>5, <2>1 DEF Connect
<1>6. ASSUME NEW p \in Peers, UserCloses(p)
      PROVE  IInv'
  BY <1>6 DEF UserCloses
<1>7. CASE Report
  BY <1>7 DEF Report
<1>8. CASE UNCHANGED vars
  BY <1>8 DEF vars
<1> QED
  BY <1>1, <1>2, <1>3, <1>4, <1>5, <1>6, <1>7, <1>8, <1>b DEF Next

LEMMA Invariance == Spec => []IInv
  BY InitIInv, StepIInv, PTL DEF Spec

\* Type correctness of the Acceptor; with it, the poller never reports the
\* channel of an Acceptor that does not listen or is gone.
THEOREM TypeCorrect == Spec => []TypeOK
<1>1. IInv => TypeOK
  BY DEF IInv
<1> QED
  BY <1>1, Invariance, PTL

\* No descriptor leaks and none is used after it was closed, whatever the
\* limit, the number of peers and the outcomes of accept.
THEOREM NoDescriptorLeaks == Spec => []DescriptorsAccounted
<1>1. IInv => DescriptorsAccounted
  BY DEF IInv
<1> QED
  BY <1>1, Invariance, PTL

-----------------------------------------------------------------------------
(* A connection from its peer to the user *)

\* A peer has not come yet, or its connection waits once in the backlog, or the
\* user holds it, or it is gone: never two of these.
OnePlace ==
  /\ \A i, j \in 1 .. Len(backlog) : backlog[i] = backlog[j] => i = j
  /\ \A i \in 1 .. Len(backlog) : backlog[i] \notin absent \cup held
  /\ held \cap absent = {}

\* A peer that connects was nowhere else.
LEMMA ConnectPlace ==
  ASSUME TypeOK, OnePlace, NEW p \in Peers, Connect(p)
  PROVE  OnePlace'
<1>1. /\ backlog \in Seq(Peers) /\ p \in absent
      /\ backlog' = Append(backlog, p) /\ absent' = absent \ {p} /\ UNCHANGED held
  BY DEF TypeOK, Connect
<1> DEFINE n == Len(backlog)
<1>2. /\ n \in Nat /\ Len(backlog') = n + 1 /\ backlog'[n + 1] = p
      /\ \A i \in 1 .. n : backlog'[i] = backlog[i]
  BY <1>1, AppendProperties, LenProperties
<1>3. \A i \in 1 .. n : backlog[i] # p /\ backlog[i] \notin absent' \cup held
  BY <1>1 DEF OnePlace
<1>4. \A i \in 1 .. n + 1 : i \in 1 .. n \/ i = n + 1
  BY <1>2
<1>5. \A i, j \in 1 .. n + 1 : backlog'[i] = backlog'[j] => i = j
  BY <1>2, <1>3, <1>4 DEF OnePlace
<1>6. p \notin absent' \cup held /\ held \cap absent' = {}
  BY <1>1 DEF OnePlace
<1> QED
  BY <1>1, <1>2, <1>3, <1>4, <1>5, <1>6 DEF OnePlace

\* handleRead takes the first connection that waits, and the others move up.
LEMMA HandleReadPlace ==
  ASSUME TypeOK, OnePlace, handleRead
  PROVE  OnePlace'
<1>1. backlog \in Seq(Peers) /\ backlog # <<>> /\ UNCHANGED absent
  BY DEF TypeOK, handleRead, world
<1>2. CASE LimitReached
  BY <1>1, <1>2 DEF LimitReached, OnePlace
<1>3. CASE Accepted \/ Rejected
  <2>1. backlog' = Tail(backlog) /\ held' \subseteq held \cup {Head(backlog)}
    BY <1>3 DEF Accepted, Rejected
  <2> DEFINE n == Len(backlog')
  <2>2. /\ n \in Nat /\ Len(backlog) = n + 1 /\ Head(backlog) = backlog[1]
        /\ \A i \in 1 .. n : backlog'[i] = backlog[i + 1]
    BY <1>1, <2>1, HeadTailProperties, LenProperties
  <2>3. \A i \in 1 .. n : i + 1 \in 1 .. Len(backlog) /\ i + 1 # 1
    BY <2>2
  <2>4. 1 \in 1 .. Len(backlog)
    BY <2>2
  <2>5. \A i \in 1 .. n : backlog'[i] # Head(backlog) /\ backlog'[i] \notin absent \cup held
    BY <2>2, <2>3, <2>4 DEF OnePlace
  <2>6. \A i, j \in 1 .. n : backlog'[i] = backlog'[j] => i + 1 = j + 1
    BY <2>2, <2>3 DEF OnePlace
  <2>7. \A i, j \in 1 .. n : i + 1 = j + 1 => i = j
    BY <2>2
  <2>8. Head(backlog) \notin absent /\ held \cap absent = {}
    BY <2>2, <2>4 DEF OnePlace
  <2> QED
    BY <1>1, <2>1, <2>5, <2>6, <2>7, <2>8 DEF OnePlace
<1> QED
  BY <1>2, <1>3 DEF handleRead

LEMMA PlaceStep == TypeOK /\ OnePlace /\ [Next]_vars => OnePlace'
<1> SUFFICES ASSUME TypeOK, OnePlace, [Next]_vars PROVE OnePlace'
  OBVIOUS
<1>1. ASSUME backlog' = <<>>, held' \subseteq held, UNCHANGED absent
      PROVE  OnePlace'
  BY <1>1 DEF OnePlace
<1>2. ASSUME UNCHANGED <<backlog, absent>>, held' \subseteq held
      PROVE  OnePlace'
  BY <1>2 DEF OnePlace
<1>3. CASE Construct
  BY <1>1, <1>2, <1>3 DEF Construct, Exit, world
<1>4. CASE setNewConnectionCallBack
  BY <1>2, <1>4 DEF setNewConnectionCallBack, world
<1>5. CASE listen
  BY <1>1, <1>2, <1>5 DEF listen, Exit, world
<1>6. CASE Destroy
  BY <1>1, <1>6 DEF Destroy, world
<1>7. ASSUME NEW p \in Peers, Connect(p) PROVE OnePlace'
  BY <1>7, ConnectPlace
<1>8. ASSUME NEW p \in Peers, UserCloses(p) PROVE OnePlace'
  BY <1>2, <1>8 DEF UserCloses, world
<1>9. CASE Report
  BY <1>2, <1>9 DEF Report, world
<1>10. CASE handleRead
  BY <1>10, HandleReadPlace
<1>11. CASE UNCHANGED vars
  BY <1>2, <1>11 DEF vars, world
<1> QED
  BY <1>3, <1>4, <1>5, <1>6, <1>7, <1>8, <1>9, <1>10, <1>11 DEF Next

\* No connection is handed out twice: what waits in the backlog was not given
\* to the user before, and waits there once (Acceptor::handleRead).
THEOREM HandedOutOnce == Spec => []OnePlace
<1>1. Init => OnePlace
  BY DEF Init, OnePlace
<1> QED
  BY <1>1, PlaceStep, TypeCorrect, PTL DEF Spec
=============================================================================

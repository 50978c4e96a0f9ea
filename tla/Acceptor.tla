------------------------------ MODULE Acceptor ------------------------------
(***************************************************************************)
(* Acceptor.cc over Socket.cc: a listening socket on the loop's thread,    *)
(* whose channel hands one connection per event to the user's callback,    *)
(* in a process that may hold only so many descriptors.                    *)
(*                                                                         *)
(*  - acceptChannel_ is in the poller only in the program with the call in *)
(*    Channel::update (wired); as committed, no connection is accepted.    *)
(*  - Socket::accept passes an uninitialised len.  A length that reads as  *)
(*    negative makes the kernel close the connection it has taken and fail *)
(*    with EINVAL; any other yields a descriptor, with an address that is  *)
(*    cut short if len is.  No property looks at addresses.                *)
(*  - LOG_FATAL is exit(-1).  The options that setReuseAddr and            *)
(*    setReusePort set let an Acceptor be bound again after another.       *)
(*  - The object is not destroyed between a report and its handler, which  *)
(*    would call a freed channel (EPollPoller.tla).                        *)
(***************************************************************************)
EXTENDS Sequences, FiniteSets, Naturals

CONSTANTS
  Peers,      \* the clients, each of which connects once
  MaxOpen,    \* the limit of the process on descriptors
  Listener    \* names the descriptor of acceptSocket_, as a peer names its own

ASSUME AcceptorAssumption ==
  IsFiniteSet(Peers) /\ Listener \notin Peers /\ MaxOpen \in Nat /\ MaxOpen > 1

VARIABLES
  exists,                  \* is there an Acceptor?
  listening_,
  NewConnectionCallBack_,  \* is one set?
  interest,                \* is acceptChannel_ in the interest list?
  reported,                \* has epoll_wait reported it for this round?
  backlog,                 \* connections that wait for accept
  open,                    \* descriptors in use
  held,                    \* connections that the user's callback was given
  wired,                   \* does Channel::update make its call?
  exited,                  \* has LOG_FATAL ended the process?
  absent                   \* peers that have not connected yet

objectVars == <<exists, listening_, NewConnectionCallBack_, interest>>
world      == <<wired, exited, absent>>
vars == <<objectVars, reported, backlog, open, held, world>>

Init ==
  /\ exists = FALSE /\ listening_ = FALSE /\ NewConnectionCallBack_ = FALSE
  /\ interest = FALSE /\ reported = FALSE
  /\ backlog = <<>> /\ open = {} /\ held = {}
  /\ wired \in BOOLEAN /\ exited = FALSE /\ absent = Peers

Full == Cardinality(open) >= MaxOpen

\* LOG_FATAL: the process and all it had open are gone.
Exit ==
  /\ exited' = TRUE
  /\ exists' = FALSE /\ listening_' = FALSE /\ NewConnectionCallBack_' = FALSE
  /\ interest' = FALSE /\ reported' = FALSE
  /\ backlog' = <<>> /\ open' = {} /\ held' = {}
  /\ UNCHANGED <<wired, absent>>

-----------------------------------------------------------------------------
(* The user, on the loop's thread *)

\* createNonblocking and bindAddress.  Without a descriptor, bind fails too; it
\* may fail with one (the address is taken).
Construct ==
  /\ ~exists /\ ~exited
  /\ \/ ~Full /\ exists' = TRUE /\ open' = open \cup {Listener}
        /\ UNCHANGED <<listening_, NewConnectionCallBack_, interest, reported, backlog, held, world>>
     \/ Exit

setNewConnectionCallBack ==
  /\ exists
  /\ NewConnectionCallBack_' = TRUE
  /\ UNCHANGED <<exists, listening_, interest, reported, backlog, open, held, world>>

listen ==
  /\ exists
  /\ \/ listening_' = TRUE /\ interest' = wired
        /\ UNCHANGED <<exists, NewConnectionCallBack_, reported, backlog, open, held, world>>
     \/ Exit

(* Operators named ...Bug are slips in the operator after them; no             *)
(* specification uses them.                                                   *)

\* The destructor without disableAll.
InterestLeftBug == interest

InterestLeft == FALSE

\* disableAll and remove, then ~Socket closes the descriptor: who waits in the
\* backlog is reset.
Destroy ==
  /\ exists /\ ~reported
  /\ exists' = FALSE /\ listening_' = FALSE /\ NewConnectionCallBack_' = FALSE
  /\ interest' = InterestLeft
  /\ open' = open \ {Listener} /\ backlog' = <<>>
  /\ UNCHANGED <<reported, held, world>>

\* A connection's owner closes it.
UserCloses(p) ==
  /\ p \in held
  /\ held' = held \ {p} /\ open' = open \ {p}
  /\ UNCHANGED <<objectVars, reported, backlog, world>>

-----------------------------------------------------------------------------
(* The peers, the poller and handleRead *)

Connect(p) ==
  /\ listening_ /\ p \in absent
  /\ absent' = absent \ {p} /\ backlog' = Append(backlog, p)
  /\ UNCHANGED <<objectVars, reported, open, held, wired, exited>>

\* Level-triggered: as long as a connection waits, each poll reports it.
Report ==
  /\ interest /\ ~reported /\ backlog # <<>>
  /\ reported' = TRUE
  /\ UNCHANGED <<objectVars, backlog, open, held, world>>

\* Forgets ::close in the branch without a callback.
OpenedBug(p) == {p}

\* The descriptors that stay open after accept returned one for p.
Opened(p) == IF NewConnectionCallBack_ THEN {p} ELSE {}

\* accept returns a descriptor: the callback is called with it, or it is closed.
Accepted ==
  LET p == Head(backlog)
  IN  /\ ~Full
      /\ open' = open \cup Opened(p)
      /\ held' = IF NewConnectionCallBack_ THEN held \cup {p} ELSE held
      /\ backlog' = Tail(backlog)

\* len was negative: the connection is gone.
Rejected == ~Full /\ backlog' = Tail(backlog) /\ UNCHANGED <<open, held>>

\* EMFILE: the kernel looks for a free descriptor first.
LimitReached == Full /\ UNCHANGED <<open, held, backlog>>

\* Gives up accepting after an error.
InterestAfterBug == interest /\ ~Full

InterestAfter == interest

\* Both failures are only logged.
handleRead ==
  /\ reported /\ reported' = FALSE
  /\ Accepted \/ Rejected \/ LimitReached
  /\ interest' = InterestAfter
  /\ UNCHANGED <<exists, listening_, NewConnectionCallBack_, world>>

-----------------------------------------------------------------------------

Next ==
  \/ Construct \/ setNewConnectionCallBack \/ listen \/ Destroy
  \/ \E p \in Peers : Connect(p) \/ UserCloses(p)
  \/ Report \/ handleRead

\* The loop goes on polling and dispatching (EventLoop.tla).
Spec == Init /\ [][Next]_vars /\ WF_vars(Report) /\ WF_vars(handleRead)

\* The owners of connections close them some day.  Properties say where they
\* need this.
FairClose == \A p \in Peers : WF_vars(UserCloses(p))

-----------------------------------------------------------------------------
(* Properties *)

\* Type invariant of the Acceptor and its surroundings; the poller knows
\* acceptChannel_, and may have reported it, only while the object listens.
TypeOK ==
  /\ exists \in BOOLEAN /\ NewConnectionCallBack_ \in BOOLEAN
  /\ wired \in BOOLEAN /\ exited \in BOOLEAN
  /\ listening_ \in BOOLEAN /\ (listening_ => exists)
  /\ interest = (wired /\ listening_)
  /\ reported \in BOOLEAN /\ (reported => interest /\ backlog # <<>>)
  /\ backlog \in Seq(Peers)
  /\ open \subseteq Peers \cup {Listener} /\ held \subseteq Peers
  /\ absent \subseteq Peers

\* DescriptorsAccounted: across accepts with and without a callback, failures
\* at the limit, and Acceptors destroyed with connections waiting, every open
\* descriptor belongs to the Acceptor or to somebody who was given it, and
\* everybody's descriptor is open (handleRead, ~Acceptor, ~Socket).
DescriptorsAccounted == open = held \cup (IF exists THEN {Listener} ELSE {})

\* BacklogDrains: if the owners of connections close them some day, no
\* connection waits for ever: neither a failure at the descriptor limit, which
\* is only logged (Acceptor.cc:75), nor one of accept with a bad length stops
\* the accepting of those behind.
BacklogDrains ==
  FairClose /\ wired =>
    \A p \in Peers :
      (\E i \in DOMAIN backlog : backlog[i] = p)
        ~> ~(\E i \in DOMAIN backlog : backlog[i] = p)

=============================================================================

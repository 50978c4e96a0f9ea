--------------------------- MODULE TcpConnection ----------------------------
(***************************************************************************)
(* TcpConnection.cc: the four handlers that a connection's channel calls   *)
(* on the loop's thread, against a kernel socket and a peer that writes,   *)
(* finishes its stream or resets the connection at any moment.             *)
(*                                                                         *)
(*  - The two Buffers are the byte queues that Buffer.tla implements; the  *)
(*    n-th byte of a stream is the number n.                               *)
(*  - epoll waits for events_: this is the program with the call in        *)
(*    Channel::update, which EPollPoller.tla models; as committed nothing  *)
(*    registers the channel and no handler is ever called.                 *)
(*  - connectEstablished, send, shutdown and shutdownInLoop are declared   *)
(*    and have no definition: here they do the least that the handlers     *)
(*    rely on, and send gives up unless the connection is connected.       *)
(*  - The descriptor does not block, and the connection outlives its       *)
(*    handlers (EPollPoller.tla has the guard of tie).                     *)
(***************************************************************************)
EXTENDS ChannelEvents, Naturals, Sequences

CONSTANTS
  MaxReceived,             \* bound: bytes the peer writes
  MaxSent,                 \* bound: bytes the user sends
  writeCompleteCallback_   \* has the user set one?

ASSUME ConnectionAssumption ==
  MaxReceived \in Nat /\ MaxSent \in Nat /\ writeCompleteCallback_ \in BOOLEAN

VARIABLES
  state_, inputBuffer_, outputBuffer_,   \* members of the connection
  events_,             \* member of its channel
  todo,                \* handlers handleEvent has still to call
  pc,                  \* of the loop: "poll", "dispatch", "functors"; or "killed"
  pendingFunctors_,    \* write-complete functors in EventLoop's vector
  peer,                \* "open", "finished" (its end of stream) or "reset"
  inbound,             \* the socket's receive queue
  sockError,           \* is SO_ERROR set?
  fin,                 \* have we shut our direction down?
  peerSent, sent,      \* history: bytes the peer, and the user, has written
  written,             \* history: bytes the kernel has taken
  completions,         \* history: write-complete functors ever queued
  closes               \* history: calls of closeCallback_

connVars   == <<state_, inputBuffer_, outputBuffer_, events_>>
loopVars   == <<todo, pc, pendingFunctors_>>
socketVars == <<peer, inbound, sockError, fin>>
history    == <<peerSent, sent, written, completions, closes>>
vars == <<connVars, loopVars, socketVars, history>>

\* The constructor; reading_ is never read.
Init ==
  /\ state_ = "KConnecting" /\ inputBuffer_ = <<>> /\ outputBuffer_ = <<>>
  /\ events_ = {}
  /\ todo = {} /\ pc = "poll" /\ pendingFunctors_ = 0
  /\ peer = "open" /\ inbound = <<>> /\ sockError = FALSE /\ fin = FALSE
  /\ peerSent = 0 /\ sent = 0 /\ written = <<>> /\ completions = 0 /\ closes = 0

-----------------------------------------------------------------------------
(* The peer and the kernel *)

PeerWrites ==
  /\ pc # "killed" /\ peer = "open" /\ peerSent < MaxReceived
  /\ peerSent' = peerSent + 1
  /\ inbound' = Append(inbound, peerSent + 1)
  /\ UNCHANGED <<connVars, loopVars, peer, sockError, fin, sent, written, completions, closes>>

PeerFinishes ==
  /\ pc # "killed" /\ peer = "open"
  /\ peer' = "finished"
  /\ UNCHANGED <<connVars, loopVars, inbound, sockError, fin, history>>

\* What was received before a reset can still be read.
PeerResets ==
  /\ pc # "killed" /\ peer # "reset"
  /\ peer' = "reset" /\ sockError' = TRUE
  /\ UNCHANGED <<connVars, loopVars, inbound, fin, history>>

\* The condition of the socket; room in its send queue and urgent data come
\* and go.
Conditions(room, urgent) ==
  {e \in {"IN", "PRI", "OUT", "HUP", "ERR"} :
    CASE e = "IN"  -> inbound # <<>> \/ peer # "open"
      [] e = "PRI" -> urgent
      [] e = "OUT" -> room \/ fin \/ peer = "reset"
      [] e = "HUP" -> peer = "reset" \/ (fin /\ peer = "finished")
      [] e = "ERR" -> sockError}

\* Nothing is reported of a descriptor that is not in epoll.
Report(room, urgent) ==
  IF events_ = {} THEN {} ELSE Conditions(room, urgent) \cap (events_ \cup {"HUP", "ERR"})

-----------------------------------------------------------------------------
(* The loop around the handlers *)

\* handleEventWithGuard: the handlers it calls, and those that come before h.
Called(revents) == {h \in {"close", "error", "read", "write"} : Triggered(h, revents)}

Before(h) ==
  CASE h = "close" -> {}
    [] h = "error" -> {"close"}
    [] h = "read"  -> {"close", "error"}
    [] h = "write" -> {"close", "error", "read"}

\* epoll_wait and handleEvent; it may also end with other channels' events, or
\* with none.
PollWith(room, urgent) ==
  /\ pc = "poll"
  /\ pc' = "dispatch"
  /\ todo' = Called(Report(room, urgent))
  /\ UNCHANGED <<connVars, pendingFunctors_, socketVars, history>>

Poll == \E room, urgent \in BOOLEAN : PollWith(room, urgent)

(* As in EventLoop.tla, operators named ...Bug are slips in the operator after *)
(* them; no specification uses them.                                          *)

\* The functors come while a handler is still to be called.
DispatchedBug == TRUE

Dispatched == todo = {}

EndDispatch ==
  /\ pc = "dispatch" /\ Dispatched
  /\ pc' = "functors"
  /\ UNCHANGED <<connVars, todo, pendingFunctors_, socketVars, history>>

\* doPendingFunctors calls writeCompleteCallback_, which holds the connection.
RunFunctor ==
  /\ pc = "functors" /\ pendingFunctors_ > 0
  /\ pendingFunctors_' = pendingFunctors_ - 1
  /\ UNCHANGED <<connVars, todo, pc, socketVars, history>>

\* Functors are left for the next round.
FunctorsRunBug == TRUE

FunctorsRun == pendingFunctors_ = 0

EndFunctors ==
  /\ pc = "functors" /\ FunctorsRun
  /\ pc' = "poll"
  /\ UNCHANGED <<connVars, todo, pendingFunctors_, socketVars, history>>

-----------------------------------------------------------------------------
(* The handlers *)

Handling(h) ==
  /\ pc = "dispatch" /\ h \in todo /\ todo \cap Before(h) = {}
  /\ todo' = todo \ {h}

\* disableAll is forgotten.
EventsClosedBug == events_

EventsClosed == {}

\* Up to both callbacks, in which the user can do nothing more to it.
handleClose ==
  /\ state_' = "kDisconnected" /\ events_' = EventsClosed
  /\ closes' = closes + 1
  /\ UNCHANGED <<inputBuffer_, outputBuffer_, pc, pendingFunctors_, peer, inbound, fin,
                 peerSent, sent, written, completions>>

\* getsockopt(SO_ERROR) clears the error; the rest is logged.
handleError ==
  /\ sockError' = FALSE
  /\ UNCHANGED <<connVars, pc, pendingFunctors_, peer, inbound, fin, history>>

\* readv: data first, then a pending error, then the end of the stream; an open
\* socket with nothing in it gives EAGAIN.
ReadData ==
  \E n \in 1 .. Len(inbound) :
    /\ inputBuffer_' = inputBuffer_ \o SubSeq(inbound, 1, n)
    /\ inbound' = SubSeq(inbound, n + 1, Len(inbound))
    /\ UNCHANGED <<state_, outputBuffer_, events_, pc, pendingFunctors_, peer, sockError, fin,
                   history>>

\* A read of nothing goes to handleError as a failed one does.
handleReadBug ==
  \/ ReadData
  \/ inbound = <<>> /\ handleError

handleRead ==
  \/ ReadData
  \/ /\ inbound = <<>> /\ ~sockError /\ peer # "open"
     /\ handleClose /\ UNCHANGED sockError
  \/ /\ inbound = <<>> /\ (sockError \/ peer = "open")
     /\ handleError

\* events_ &= kWriteEvent, without the ~: writing stays and reading goes.
disableWriting(events) == events \cap kWriteEvent

\* Socket::shutdownWrite.
shutdownInLoop == fin' = TRUE

\* Queues the write-complete callback, if there is one.
QueueCompletion ==
  IF writeCompleteCallback_
  THEN pendingFunctors_' = pendingFunctors_ + 1 /\ completions' = completions + 1
  ELSE UNCHANGED <<pendingFunctors_, completions>>

\* The branch taken when the kernel has taken all of the output.
Drained ==
  /\ events_' = disableWriting(events_)
  /\ QueueCompletion
  /\ IF state_ = "kDisconnecting" THEN shutdownInLoop ELSE UNCHANGED fin

\* outputBuffer_.retrieve(n)
Unwritten(n) == SubSeq(outputBuffer_, n + 1, Len(outputBuffer_))

\* Does not ask whether all of the output was taken.
AllWrittenBug(n) == TRUE

AllWritten(n) == Unwritten(n) = <<>>

\* write takes n bytes.
WriteData ==
  \E n \in 1 .. Len(outputBuffer_) :
    /\ peer # "reset" /\ ~fin
    /\ written' = written \o SubSeq(outputBuffer_, 1, n)
    /\ outputBuffer_' = Unwritten(n)
    /\ IF AllWritten(n) THEN Drained
                        ELSE UNCHANGED <<events_, pendingFunctors_, completions, fin>>
    /\ UNCHANGED <<state_, inputBuffer_, pc, peer, inbound, sockError, peerSent, sent, closes>>

\* Gives the channel up when nothing could be written.
WriteNothingBug ==
  /\ events_' = {}
  /\ UNCHANGED <<state_, inputBuffer_, outputBuffer_, pc, pendingFunctors_, socketVars, history>>

\* write takes nothing: there is nothing, or no room.
WriteNothing == UNCHANGED <<connVars, pc, pendingFunctors_, socketVars, history>>

\* write fails with the pending error, or raises SIGPIPE: also with a length of
\* zero.  The process may be ignoring the signal.
WriteFails ==
  /\ peer = "reset" \/ fin
  /\ sockError' = FALSE
  /\ pc' \in IF sockError THEN {pc} ELSE {pc, "killed"}
  /\ UNCHANGED <<connVars, pendingFunctors_, peer, inbound, fin, history>>

\* An empty write counts as one that drained the output.
handleWriteBug ==
  \/ "OUT" \in events_ /\ (WriteData \/ WriteFails)
  \/ /\ "OUT" \in events_ /\ outputBuffer_ = <<>> /\ Drained
     /\ UNCHANGED <<state_, inputBuffer_, outputBuffer_, pc, peer, inbound, sockError,
                    peerSent, sent, written, closes>>
  \/ ("OUT" \in events_ => peer # "reset" /\ ~fin) /\ WriteNothing

handleWrite ==
  \/ "OUT" \in events_ /\ (WriteData \/ WriteFails)
  \/ ("OUT" \in events_ => peer # "reset" /\ ~fin) /\ WriteNothing

-----------------------------------------------------------------------------
(* The user, in a callback of this or another connection or in a functor *)

UserCode == pc \in {"dispatch", "functors"}

connectEstablished ==
  /\ UserCode /\ state_ = "KConnecting"
  /\ state_' = "kConnected"
  /\ events_' = events_ \cup kReadEvent
  /\ UNCHANGED <<inputBuffer_, outputBuffer_, loopVars, socketVars, history>>

send ==
  /\ UserCode /\ state_ = "kConnected" /\ sent < MaxSent
  /\ sent' = sent + 1
  /\ outputBuffer_' = Append(outputBuffer_, sent + 1)
  /\ events_' = events_ \cup kWriteEvent
  /\ UNCHANGED <<state_, inputBuffer_, loopVars, socketVars, peerSent, written, completions, closes>>

shutdown ==
  /\ UserCode /\ state_ = "kConnected"
  /\ state_' = "kDisconnecting"
  /\ IF outputBuffer_ = <<>> THEN shutdownInLoop ELSE UNCHANGED fin
  /\ UNCHANGED <<inputBuffer_, outputBuffer_, events_, loopVars, peer, inbound, sockError, history>>

-----------------------------------------------------------------------------
HandleClose == Handling("close") /\ handleClose /\ UNCHANGED sockError
HandleError == Handling("error") /\ handleError
HandleRead  == Handling("read") /\ handleRead
HandleWrite == Handling("write") /\ handleWrite

LoopStep ==
  \/ Poll \/ HandleClose \/ HandleError \/ HandleRead \/ HandleWrite
  \/ EndDispatch \/ RunFunctor \/ EndFunctors

Next ==
  \/ PeerWrites \/ PeerFinishes \/ PeerResets
  \/ LoopStep
  \/ connectEstablished \/ send \/ shutdown

\* The loop keeps running, and a peer that does not end the connection reads
\* what it is sent: there is room again and again, and some write succeeds.
Spec ==
  /\ Init /\ [][Next]_vars
  /\ WF_vars(LoopStep)
  /\ SF_vars(\E urgent \in BOOLEAN : PollWith(TRUE, urgent))
  /\ SF_vars(HandleWrite /\ written' # written)

-----------------------------------------------------------------------------
(* Properties *)

Bytes(n) == [i \in 1 .. n |-> i]

\* Type invariant, with the two bounds that relate a history to its queue.
TypeOK ==
  /\ state_ \in {"KConnecting", "kConnected", "kDisconnecting", "kDisconnected"}
  /\ events_ \subseteq kReadEvent \cup kWriteEvent
  /\ todo \subseteq {"close", "error", "read", "write"}
  /\ pc \in {"poll", "dispatch", "functors", "killed"}
  /\ pc \in {"poll", "functors"} => todo = {}
  /\ pc = "poll" => pendingFunctors_ = 0
  /\ pendingFunctors_ \in 0 .. completions
  /\ peer \in {"open", "finished", "reset"}
  /\ sockError \in BOOLEAN /\ (sockError => peer = "reset") /\ fin \in BOOLEAN
  /\ peerSent \in 0 .. MaxReceived /\ sent \in 0 .. MaxSent
  /\ completions \in Nat /\ closes \in Nat
  /\ {inputBuffer_, inbound, outputBuffer_, written} \subseteq Seq(Nat)

\* BytesInOrder: through partial reads and writes, errors, hangups and the end
\* of either stream, no byte is lost, repeated or overtaken between the peer
\* and inputBuffer_, nor between send and the kernel.
BytesInOrder ==
  /\ inputBuffer_ \o inbound = Bytes(peerSent)
  /\ written \o outputBuffer_ = Bytes(sent)

\* ClosedOnce: closeCallback_, from which the server drops the connection, is
\* called at most once, though handleClose is reached from a hangup and from a
\* read of 0 bytes, the same event set can trigger both, and a hangup is
\* reported again as long as the descriptor is in epoll.
ClosedOnce == closes = IF state_ = "kDisconnected" THEN 1 ELSE 0

\* Has disableWriting, which comes behind a drained output, taken the interest
\* in reading and left the one in writing (Channel.hpp:65)?
Silenced == events_ = kWriteEvent /\ written # <<>>

\* UnreadOnlyIfSilenced: a connection that closes, on a hangup or on a read of 0
\* bytes, has read what the peer wrote, also when data, the end of the stream
\* and a hangup or a reset are reported together.  Bytes are left unread only by
\* a connection that has drained an output and lost its interest in reading.
UnreadOnlyIfSilenced ==
  [][closes' # closes => inbound = <<>> \/ Silenced]_vars

\* CompletionPerSend: the write-complete callback comes at most once for each
\* send, and output that is still waiting has its own to come, although the
\* channel goes on reporting that it can be written (disableWriting leaves it
\* writing) and handleWrite is called with nothing to write.
CompletionPerSend ==
  completions + (IF outputBuffer_ # <<>> THEN 1 ELSE 0) <= sent

\* CompletionPrecedesClose: the write-complete functor is queued for later, yet
\* it never finds the connection disconnected: the close handler comes before
\* the write handler in a batch of events, and functors before the next poll.
CompletionPrecedesClose ==
  [][pendingFunctors_' < pendingFunctors_ => state_ # "kDisconnected"]_vars

\* OutputPrecedesFin: the connection is shut down only after the kernel has
\* taken every byte that was sent before the shutdown.
OutputPrecedesFin == fin => written = Bytes(sent)

Phase ==
  CASE state_ = "KConnecting"    -> "connecting"
    [] state_ = "kConnected"     -> "up"
    [] state_ = "kDisconnecting" -> "closing"
    [] state_ = "kDisconnected"  -> "ended"

CV == INSTANCE Conversation
        WITH notifies <- writeCompleteCallback_, phase <- Phase, reading <- "IN" \in events_,
             arrived <- inbound, delivered <- inputBuffer_,
             waiting <- outputBuffer_, taken <- written, owed <- pendingFunctors_

\* ImplementsConversation: whatever events are reported together, and however
\* the reads and writes are cut and fail, the four handlers and the functor they
\* queue do what Conversation.tla says: the connection reads, writes and pays
\* its write-complete callbacks only while it is established, each byte once and
\* in order, and ends once, with nothing owed and, if it still reads, nothing
\* unread.
ImplementsConversation == CV!Spec

\* SentIsWritten: every byte sent is handed to the kernel as long as nobody ends
\* the connection: a partial write keeps the interest in writing.
SentIsWritten ==
  \A n \in 1 .. MaxSent :
    sent >= n ~> (Len(written) >= n \/ state_ = "kDisconnected" \/ peer = "reset")

\* ReaderSeesPeerEnd: a connection that keeps reading is closed when its peer
\* has finished or reset, through errors, hangups and any data before them.
ReaderSeesPeerEnd ==
  (peer # "open" /\ "IN" \in events_)
    ~> (closes = 1 \/ pc = "killed" \/ events_ = kWriteEvent)

\* PeerEndIsClosed: TcpConnection.cc:78 says of a read of 0 bytes that the
\* client has disconnected, and closes.  So the end of the peer's stream closes
\* a connection that is established.
PeerEndIsClosed ==
  (peer # "open" /\ state_ = "kConnected") ~> (closes = 1 \/ pc = "killed")

=============================================================================

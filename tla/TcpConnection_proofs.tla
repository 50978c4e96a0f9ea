------------------------ MODULE TcpConnection_proofs ------------------------
(***************************************************************************)
(* Theorems about TcpConnection.tla, for any number of bytes in either     *)
(* direction: type correctness, the order of the bytes, the single close,  *)
(* what precedes it, the write-complete callback, and that all of it       *)
(* together implements Conversation.                                       *)
(***************************************************************************)
EXTENDS TcpConnection, SequenceTheorems, TLAPS

-----------------------------------------------------------------------------
(* The inductive invariant *)

\* The channel reads with both events or with none.
ReadingIsWhole == "PRI" \in events_ => "IN" \in events_

\* A connection has events, and handlers to call, only between its
\* establishment and its close.
OnlyEstablished ==
  /\ state_ = "KConnecting" => events_ = {} /\ todo = {}
  /\ state_ = "kDisconnected" => events_ = {} /\ todo \cap {"close", "read"} = {}

\* The close handler is called directly only of a channel that does not read,
\* so the read handler does not follow it.
CloseIsAlone == "close" \in todo => "IN" \notin events_ /\ "read" \notin todo

\* A write-complete functor was queued by the last handler of this batch.
CompletionIsLast == pendingFunctors_ > 0 => todo = {} /\ state_ # "kDisconnected"

\* Nothing waits, and nothing more is sent, once our direction is shut down.
FinIsLast == fin => outputBuffer_ = <<>> /\ state_ \notin {"KConnecting", "kConnected"}

Control ==
  /\ ReadingIsWhole /\ OnlyEstablished /\ CloseIsAlone /\ CompletionIsLast /\ FinIsLast
  /\ ClosedOnce /\ CompletionPerSend

-----------------------------------------------------------------------------
(* Byte strings *)

\* A string cut in two.
LEMMA Cut ==
  ASSUME NEW s \in Seq(Nat), NEW n \in 1 .. Len(s)
  PROVE  /\ SubSeq(s, 1, n) \in Seq(Nat)
         /\ SubSeq(s, n + 1, Len(s)) \in Seq(Nat)
         /\ SubSeq(s, 1, n) \o SubSeq(s, n + 1, Len(s)) = s
<1>1. Len(s) \in Nat /\ n \in Nat /\ n <= Len(s)
  BY LenProperties
<1>2. SubSeq(s, 1, n) \in Seq(Nat) /\ SubSeq(s, n + 1, Len(s)) \in Seq(Nat)
  BY <1>1, SubSeqProperties
<1>3. SubSeq(s, 1, n) \o SubSeq(s, n + 1, Len(s)) = SubSeq(s, 1, Len(s))
  BY <1>1, ConcatAdjacentSubSeq
<1> QED
  BY <1>2, <1>3, SubSeqFull

LEMMA Join ==
  ASSUME NEW a \in Seq(Nat), NEW front \in Seq(Nat), NEW back \in Seq(Nat)
  PROVE  /\ a \o front \in Seq(Nat)
         /\ (a \o front) \o back = a \o (front \o back)
BY ConcatAssociative, ConcatProperties

\* Moving the first n elements from the second string to the first.
LEMMA Move ==
  ASSUME NEW a \in Seq(Nat), NEW b \in Seq(Nat), NEW n \in 1 .. Len(b)
  PROVE  /\ a \o SubSeq(b, 1, n) \in Seq(Nat)
         /\ SubSeq(b, n + 1, Len(b)) \in Seq(Nat)
         /\ (a \o SubSeq(b, 1, n)) \o SubSeq(b, n + 1, Len(b)) = a \o b
<1> DEFINE front == SubSeq(b, 1, n)
           back == SubSeq(b, n + 1, Len(b))
<1>1. front \in Seq(Nat) /\ back \in Seq(Nat) /\ front \o back = b
  BY Cut
<1> HIDE DEF front, back
<1>2. front \in Seq(Nat) /\ back \in Seq(Nat)
  BY <1>1
<1>3. a \o front \in Seq(Nat)
  BY <1>2, Join
<1>4. (a \o front) \o back = a \o (front \o back)
  BY <1>2, Join
<1> QED
  BY <1>1, <1>3, <1>4 DEF front, back

LEMMA AppendByte ==
  ASSUME NEW n \in Nat
  PROVE  Append(Bytes(n), n + 1) = Bytes(n + 1)
BY DEF Bytes

\* The next byte.
LEMMA NextByte ==
  ASSUME NEW n \in Nat, NEW a \in Seq(Nat), NEW b \in Seq(Nat), a \o b = Bytes(n)
  PROVE  Append(b, n + 1) \in Seq(Nat) /\ a \o Append(b, n + 1) = Bytes(n + 1)
<1> DEFINE k == n + 1
           x == <<k>>
<1>1. k \in Nat /\ x \in Seq(Nat)
  OBVIOUS
<1>2. Append(Bytes(n), k) = Bytes(k)
  BY AppendByte
<1>3. Bytes(n) \in Seq(Nat)
  BY DEF Bytes
<1> HIDE DEF k
<1>4. Append(b, k) = b \o x /\ Append(b, k) \in Seq(Nat)
  BY <1>1, AppendIsConcat, AppendProperties
<1>5. Append(Bytes(n), k) = Bytes(n) \o x
  BY <1>1, <1>3, AppendIsConcat
<1> HIDE DEF x
<1>6. (a \o b) \o x = a \o (b \o x)
  BY <1>1, Join
<1> QED
  BY <1>2, <1>4, <1>5, <1>6 DEF k

-----------------------------------------------------------------------------
(* Type correctness *)

LEMMA InitTyped == Init => TypeOK
<1> SUFFICES ASSUME Init PROVE TypeOK
  OBVIOUS
<1>1. {inputBuffer_, inbound, outputBuffer_, written} \subseteq Seq(Nat)
  BY DEF Init
<1>2. sockError \in BOOLEAN /\ (sockError => peer = "reset") /\ fin \in BOOLEAN
  BY DEF Init
<1> QED
  BY <1>1, <1>2, ConnectionAssumption DEF Init, TypeOK

LEMMA NextTyped == TypeOK /\ [Next]_vars => TypeOK'
<1> SUFFICES ASSUME TypeOK, [Next]_vars PROVE TypeOK'
  OBVIOUS
<1> USE ConnectionAssumption
<1>1. CASE PeerWrites
  BY <1>1, AppendProperties DEF TypeOK, PeerWrites, connVars, loopVars
<1>2. CASE PeerFinishes
  BY <1>2 DEF TypeOK, PeerFinishes, connVars, loopVars, history
<1>3. CASE PeerResets
  BY <1>3 DEF TypeOK, PeerResets, connVars, loopVars, history
<1>4. ASSUME NEW room \in BOOLEAN, NEW urgent \in BOOLEAN, PollWith(room, urgent) PROVE TypeOK'
  BY <1>4 DEF TypeOK, PollWith, Called, connVars, socketVars, history
<1>5. CASE HandleClose
  BY <1>5 DEF TypeOK, HandleClose, Handling, handleClose, EventsClosed
<1>6. CASE HandleError
  BY <1>6 DEF TypeOK, HandleError, Handling, handleError, connVars, history
<1>7. CASE HandleRead
  <2> USE <1>7 DEF HandleRead, Handling
  <2>1. CASE ReadData
    <3>1. PICK n \in 1 .. Len(inbound) :
            /\ inputBuffer_' = inputBuffer_ \o SubSeq(inbound, 1, n)
            /\ inbound' = SubSeq(inbound, n + 1, Len(inbound))
      BY <2>1 DEF ReadData
    <3>2. inputBuffer_ \in Seq(Nat) /\ inbound \in Seq(Nat)
      BY DEF TypeOK
    <3>3. inputBuffer_' \in Seq(Nat) /\ inbound' \in Seq(Nat)
      BY <3>1, <3>2, Move
    <3> QED
      BY <2>1, <3>3 DEF TypeOK, ReadData, history
  <2>2. CASE handleClose /\ UNCHANGED sockError
    BY <2>2 DEF TypeOK, handleClose, EventsClosed
  <2>3. CASE handleError
    BY <2>3 DEF TypeOK, handleError, connVars, history
  <2> QED
    BY <2>1, <2>2, <2>3 DEF handleRead
<1>8. CASE HandleWrite
  <2> USE <1>8 DEF HandleWrite, Handling
  <2>1. CASE WriteData
    <3>1. written' \in Seq(Nat) /\ outputBuffer_' \in Seq(Nat)
      <4>1. PICK n \in 1 .. Len(outputBuffer_) :
              /\ written' = written \o SubSeq(outputBuffer_, 1, n)
              /\ outputBuffer_' = SubSeq(outputBuffer_, n + 1, Len(outputBuffer_))
        BY <2>1 DEF WriteData, Unwritten, AllWritten
      <4> QED
        BY <4>1, Move DEF TypeOK
    <3>2. CASE outputBuffer_' = <<>>
      <4>1. /\ Drained /\ pc = "dispatch"
            /\ UNCHANGED <<state_, inputBuffer_, pc, peer, inbound, sockError, peerSent, sent, closes>>
        BY <2>1, <3>2 DEF WriteData, Unwritten, AllWritten
      <4>2. events_' \subseteq kReadEvent \cup kWriteEvent
        BY <4>1 DEF TypeOK, Drained, disableWriting
      <4>3. pendingFunctors_' \in 0 .. completions' /\ completions' \in Nat
        BY <4>1 DEF TypeOK, Drained, QueueCompletion
      <4>4. fin' \in BOOLEAN
        BY <4>1 DEF TypeOK, Drained, shutdownInLoop
      <4> QED
        BY <3>1, <4>1, <4>2, <4>3, <4>4 DEF TypeOK
    <3>3. CASE outputBuffer_' # <<>>
      BY <2>1, <3>1, <3>3 DEF TypeOK, WriteData, Unwritten, AllWritten
    <3> QED
      BY <3>2, <3>3
  <2>2. CASE WriteNothing
    BY <2>2 DEF TypeOK, WriteNothing, connVars, socketVars, history
  <2>3. CASE WriteFails
    BY <2>3 DEF TypeOK, WriteFails, connVars, history
  <2> QED
    BY <2>1, <2>2, <2>3 DEF handleWrite
<1>9. CASE EndDispatch
  BY <1>9 DEF TypeOK, EndDispatch, Dispatched, connVars, socketVars, history
<1>10. CASE RunFunctor
  BY <1>10 DEF TypeOK, RunFunctor, connVars, socketVars, history
<1>11. CASE EndFunctors
  BY <1>11 DEF TypeOK, EndFunctors, FunctorsRun, connVars, socketVars, history
<1>12. CASE connectEstablished
  BY <1>12 DEF TypeOK, connectEstablished, loopVars, socketVars, history
<1>13. CASE send
  BY <1>13, AppendProperties DEF TypeOK, send, loopVars, socketVars, kWriteEvent
<1>14. CASE shutdown
  BY <1>14 DEF TypeOK, shutdown, shutdownInLoop, loopVars, history
<1>15. CASE UNCHANGED vars
  BY <1>15 DEF TypeOK, vars, connVars, loopVars, socketVars, history
<1> QED
  BY <1>1, <1>2, <1>3, <1>4, <1>5, <1>6, <1>7, <1>8, <1>9, <1>10, <1>11, <1>12, <1>13,
     <1>14, <1>15 DEF Next, LoopStep, Poll

\* The connection's state, its loop's, the socket's and the histories have the
\* types of TypeOK.
THEOREM TypeCorrect == Spec => []TypeOK
BY InitTyped, NextTyped, PTL DEF Spec

-----------------------------------------------------------------------------
(* The bytes *)

LEMMA InitBytes == Init => BytesInOrder
<1>1. <<>> \o <<>> = <<>> /\ Bytes(0) = <<>>
  BY DEF Bytes
<1> QED
  BY <1>1 DEF Init, BytesInOrder

LEMMA NextBytes == TypeOK /\ BytesInOrder /\ [Next]_vars => BytesInOrder'
<1> SUFFICES ASSUME TypeOK, BytesInOrder, [Next]_vars PROVE BytesInOrder'
  OBVIOUS
<1>a. /\ inputBuffer_ \in Seq(Nat) /\ inbound \in Seq(Nat) /\ peerSent \in Nat
      /\ outputBuffer_ \in Seq(Nat) /\ written \in Seq(Nat) /\ sent \in Nat
  BY ConnectionAssumption DEF TypeOK
<1>1. CASE PeerWrites
  <2>1. inputBuffer_ \o Append(inbound, peerSent + 1) = Bytes(peerSent + 1)
    BY <1>a, NextByte DEF BytesInOrder
  <2> QED
    BY <1>1, <2>1 DEF PeerWrites, BytesInOrder, connVars
<1>2. CASE send
  <2>1. written \o Append(outputBuffer_, sent + 1) = Bytes(sent + 1)
    BY <1>a, NextByte DEF BytesInOrder
  <2> QED
    BY <1>2, <2>1 DEF send, BytesInOrder, socketVars
<1>3. CASE ReadData
  <2>1. PICK n \in 1 .. Len(inbound) :
          /\ inputBuffer_' = inputBuffer_ \o SubSeq(inbound, 1, n)
          /\ inbound' = SubSeq(inbound, n + 1, Len(inbound))
    BY <1>3 DEF ReadData
  <2>2. inputBuffer_' \o inbound' = inputBuffer_ \o inbound
    BY <1>a, <2>1, Move
  <2> QED
    BY <1>3, <2>2 DEF ReadData, BytesInOrder, history
<1>4. CASE WriteData
  <2>1. PICK n \in 1 .. Len(outputBuffer_) :
          /\ written' = written \o SubSeq(outputBuffer_, 1, n)
          /\ outputBuffer_' = SubSeq(outputBuffer_, n + 1, Len(outputBuffer_))
    BY <1>4 DEF WriteData, Unwritten, AllWritten
  <2>2. written' \o outputBuffer_' = written \o outputBuffer_
    BY <1>a, <2>1, Move
  <2> QED
    BY <1>4, <2>2 DEF WriteData, Unwritten, AllWritten, BytesInOrder
<1>5. ASSUME UNCHANGED <<inputBuffer_, inbound, peerSent, outputBuffer_, written, sent>>
      PROVE  BytesInOrder'
  BY <1>5 DEF BytesInOrder
<1>6. \/ PeerWrites \/ send \/ ReadData \/ WriteData
      \/ UNCHANGED <<inputBuffer_, inbound, peerSent, outputBuffer_, written, sent>>
  BY DEF Next, LoopStep, Poll, vars, connVars, loopVars, socketVars, history,
         PeerFinishes, PeerResets, PollWith, EndDispatch, Dispatched, RunFunctor,
         EndFunctors, FunctorsRun,
         HandleClose, HandleError, HandleRead, HandleWrite, handleClose, EventsClosed, handleError,
         handleRead, handleWrite, WriteNothing, WriteFails, connectEstablished, shutdown
<1> QED
  BY <1>1, <1>2, <1>3, <1>4, <1>5, <1>6

\* BytesInOrder: for any number of bytes, no byte is lost, repeated or
\* overtaken between the peer and inputBuffer_, nor between send and the
\* kernel.
THEOREM StreamsKeepOrder == Spec => []BytesInOrder
BY InitTyped, NextTyped, InitBytes, NextBytes, PTL DEF Spec

-----------------------------------------------------------------------------
(* The control *)

LEMMA InitControl == Init => Control
BY DEF Init, Control, ReadingIsWhole, OnlyEstablished, CloseIsAlone, CompletionIsLast,
       FinIsLast, ClosedOnce, CompletionPerSend

\* What a poll finds to call.
LEMMA PollControl ==
  ASSUME TypeOK, Control, NEW room \in BOOLEAN, NEW urgent \in BOOLEAN, PollWith(room, urgent)
  PROVE  Control'
<1> DEFINE rev == Report(room, urgent)
<1>1. /\ pc = "poll" /\ todo = {} /\ pendingFunctors_ = 0
      /\ todo' = Called(rev) /\ UNCHANGED <<connVars, pendingFunctors_, socketVars, history>>
  BY DEF PollWith, TypeOK
<1>2. rev \subseteq events_ \cup {"HUP", "ERR"} /\ (events_ = {} => rev = {})
  BY DEF Report
<1>3. "HUP" \in rev /\ "IN" \in events_ => "IN" \in rev
  BY DEF Report, Conditions
<1>4. "close" \in todo' => "HUP" \in rev /\ "IN" \notin rev
  BY <1>1 DEF Called, Triggered
<1>5. "read" \in todo' => "IN" \in rev \/ "PRI" \in rev
  BY <1>1 DEF Called, Triggered
<1>6. events_ = {} => todo' = {}
  BY <1>1, <1>2 DEF Called, Triggered
<1> HIDE DEF rev
<1>7. CloseIsAlone'
  BY <1>1, <1>2, <1>3, <1>4, <1>5 DEF Control, CloseIsAlone, ReadingIsWhole, connVars
<1>8. OnlyEstablished'
  BY <1>1, <1>6 DEF Control, OnlyEstablished, connVars
<1> QED
  BY <1>1, <1>7, <1>8 DEF Control, ReadingIsWhole, CompletionIsLast, FinIsLast, ClosedOnce,
     CompletionPerSend, connVars, socketVars, history

\* handleClose, called directly or by handleRead.
LEMMA CloseControl ==
  ASSUME TypeOK, Control, handleClose,
         \/ Handling("close")
         \/ Handling("read")
  PROVE  Control'
<1>1. state_ # "kDisconnected" /\ state_ # "KConnecting"
  BY DEF Control, OnlyEstablished, Handling
<1>2. todo' \cap {"close", "read"} = {}
  BY DEF Handling, Before, Control, CloseIsAlone
<1>3. pendingFunctors_ \in Nat /\ ~(pendingFunctors_ > 0)
  BY DEF Handling, Control, CompletionIsLast, TypeOK
<1> QED
  BY <1>1, <1>2, <1>3 DEF handleClose, EventsClosed, Control, ReadingIsWhole,
                              OnlyEstablished, CloseIsAlone,
     CompletionIsLast, FinIsLast, ClosedOnce, CompletionPerSend

\* A successful write.
LEMMA WriteControl ==
  ASSUME TypeOK, Control, Handling("write"), "OUT" \in events_, WriteData
  PROVE  Control'
<1>1. state_ # "kDisconnected" /\ state_ # "KConnecting"
  BY DEF Control, OnlyEstablished
<1>2. todo' = {}
  BY DEF Handling, Before, TypeOK
<1>3. outputBuffer_ # <<>>
  BY DEF WriteData, Unwritten, AllWritten, TypeOK
<1>4. UNCHANGED <<state_, sent, closes>> /\ ~fin
  BY DEF WriteData, Unwritten, AllWritten
<1>5. CASE outputBuffer_' = <<>>
  <2>1. Drained
    BY <1>5 DEF WriteData, Unwritten, AllWritten
  <2>2. completions' \in Nat /\ completions' <= sent
    BY <1>3, <2>1 DEF Drained, QueueCompletion, Control, CompletionPerSend, TypeOK
  <2>3. ReadingIsWhole' /\ OnlyEstablished' /\ CloseIsAlone' /\ CompletionIsLast'
    BY <1>1, <1>2, <1>4, <2>1 DEF Drained, disableWriting, kWriteEvent, ReadingIsWhole,
       OnlyEstablished, CloseIsAlone, CompletionIsLast
  <2>4. FinIsLast'
    BY <1>1, <1>4, <1>5, <2>1 DEF Drained, FinIsLast
  <2>5. ClosedOnce' /\ CompletionPerSend'
    BY <1>4, <1>5, <2>2 DEF Control, ClosedOnce, CompletionPerSend
  <2> QED
    BY <2>3, <2>4, <2>5 DEF Control
<1>6. CASE outputBuffer_' # <<>>
  <2>1. UNCHANGED <<events_, pendingFunctors_, completions, fin>>
    BY <1>6 DEF WriteData, Unwritten, AllWritten
  <2> QED
    BY <1>1, <1>2, <1>3, <1>4, <1>6, <2>1 DEF Control, ReadingIsWhole, OnlyEstablished,
       CloseIsAlone, CompletionIsLast, FinIsLast, ClosedOnce, CompletionPerSend
<1> QED
  BY <1>5, <1>6

LEMMA NextControl == TypeOK /\ Control /\ [Next]_vars => Control'
<1> SUFFICES ASSUME TypeOK, Control, [Next]_vars PROVE Control'
  OBVIOUS
<1>0. ASSUME UNCHANGED <<connVars, fin, sent, completions, closes>>,
             todo' \subseteq todo, pendingFunctors_' \in 0 .. pendingFunctors_
      PROVE  Control'
  <2>1. pendingFunctors_ \in Nat /\ (pendingFunctors_' > 0 => pendingFunctors_ > 0)
    BY <1>0 DEF TypeOK
  <2> QED
    BY <1>0, <2>1 DEF connVars, Control, ReadingIsWhole, OnlyEstablished, CloseIsAlone,
       CompletionIsLast, FinIsLast, ClosedOnce, CompletionPerSend
<1>a. pendingFunctors_ \in 0 .. pendingFunctors_ /\ pendingFunctors_ \in Nat
  BY DEF TypeOK
<1>1. CASE PeerWrites
  BY <1>0, <1>1, <1>a DEF PeerWrites, loopVars
<1>2. CASE PeerFinishes
  BY <1>0, <1>2, <1>a DEF PeerFinishes, loopVars, history
<1>3. CASE PeerResets
  BY <1>0, <1>3, <1>a DEF PeerResets, loopVars, history
<1>4. ASSUME NEW room \in BOOLEAN, NEW urgent \in BOOLEAN, PollWith(room, urgent) PROVE Control'
  BY <1>4, PollControl
<1>5. CASE HandleClose
  BY <1>5, CloseControl DEF HandleClose
<1>6. CASE HandleError
  BY <1>0, <1>6, <1>a DEF HandleError, Handling, handleError, history
<1>7. CASE HandleRead
  <2>1. Handling("read") /\ todo' \subseteq todo
    BY <1>7 DEF HandleRead, Handling
  <2>2. CASE ReadData
    <3>1. UNCHANGED <<state_, outputBuffer_, events_, pendingFunctors_, fin, history>>
      BY <2>2 DEF ReadData
    <3> QED
      BY <2>1, <3>1 DEF history, Control, ReadingIsWhole, OnlyEstablished, CloseIsAlone,
         CompletionIsLast, FinIsLast, ClosedOnce, CompletionPerSend
  <2>3. CASE handleClose
    BY <2>1, <2>3, CloseControl
  <2>4. CASE handleError
    BY <1>0, <1>a, <2>1, <2>4 DEF handleError, history
  <2> QED
    BY <1>7, <2>2, <2>3, <2>4 DEF HandleRead, handleRead
<1>8. CASE HandleWrite
  <2>1. Handling("write") /\ todo' \subseteq todo
    BY <1>8 DEF HandleWrite, Handling
  <2>2. CASE "OUT" \in events_ /\ WriteData
    BY <2>1, <2>2, WriteControl
  <2>3. CASE WriteNothing
    BY <1>0, <1>a, <2>1, <2>3 DEF WriteNothing, socketVars, history
  <2>4. CASE WriteFails
    BY <1>0, <1>a, <2>1, <2>4 DEF WriteFails, history
  <2> QED
    BY <1>8, <2>2, <2>3, <2>4 DEF HandleWrite, handleWrite
<1>9. CASE EndDispatch
  BY <1>0, <1>9, <1>a DEF EndDispatch, Dispatched, socketVars, history
<1>10. CASE RunFunctor
  <2>1. pendingFunctors_' \in 0 .. pendingFunctors_
    BY <1>10, <1>a DEF RunFunctor
  <2> QED
    BY <1>0, <1>10, <2>1 DEF RunFunctor, socketVars, history
<1>11. CASE EndFunctors
  BY <1>0, <1>11, <1>a DEF EndFunctors, FunctorsRun, socketVars, history
<1>12. CASE connectEstablished
  BY <1>12 DEF connectEstablished, kReadEvent, loopVars, socketVars, history, Control,
     ReadingIsWhole, OnlyEstablished, CloseIsAlone, CompletionIsLast, FinIsLast, ClosedOnce,
     CompletionPerSend
<1>13. CASE send
  <2>1. completions' + 1 <= sent'
    BY <1>13 DEF send, Control, CompletionPerSend, TypeOK
  <2>2. outputBuffer_' # <<>>
    <3>1. outputBuffer_ \in Seq(Nat) /\ sent + 1 \in Nat
      BY DEF TypeOK
    <3>2. Append(outputBuffer_, sent + 1) # <<>>
      BY <3>1, AppendProperties
    <3> QED
      BY <1>13, <3>2 DEF send
  <2>3. CompletionPerSend'
    BY <2>1, <2>2 DEF CompletionPerSend
  <2> QED
    BY <1>13, <2>3 DEF send, kWriteEvent, loopVars, socketVars, Control, ReadingIsWhole,
       OnlyEstablished, CloseIsAlone, CompletionIsLast, FinIsLast, ClosedOnce
<1>14. CASE shutdown
  BY <1>14 DEF shutdown, shutdownInLoop, loopVars, history, Control, ReadingIsWhole,
     OnlyEstablished, CloseIsAlone, CompletionIsLast, FinIsLast, ClosedOnce, CompletionPerSend
<1>15. CASE UNCHANGED vars
  BY <1>0, <1>15, <1>a DEF vars, loopVars, socketVars, history
<1> QED
  BY <1>1, <1>2, <1>3, <1>4, <1>5, <1>6, <1>7, <1>8, <1>9, <1>10, <1>11, <1>12, <1>13,
     <1>14, <1>15 DEF Next, LoopStep, Poll

LEMMA ControlHolds == Spec => [](TypeOK /\ Control)
BY InitTyped, NextTyped, InitControl, NextControl, PTL DEF Spec

\* ClosedOnce: no sequence of events makes handleClose run twice.
THEOREM ClosesOnce == Spec => []ClosedOnce
<1>1. Control => ClosedOnce
  BY DEF Control
<1> QED
  BY <1>1, ControlHolds, PTL

\* CompletionPerSend: as many write-complete callbacks as sends at most, and
\* one is still to come while output waits.
THEOREM CompletesPerSend == Spec => []CompletionPerSend
<1>1. Control => CompletionPerSend
  BY DEF Control
<1> QED
  BY <1>1, ControlHolds, PTL

\* OutputPrecedesFin: the end of our stream comes behind its last byte.
THEOREM FinComesLast == Spec => []OutputPrecedesFin
<1>1. TypeOK /\ Control /\ BytesInOrder => OutputPrecedesFin
  <2> SUFFICES ASSUME TypeOK, Control, BytesInOrder, fin PROVE written = Bytes(sent)
    BY DEF OutputPrecedesFin
  <2>1. outputBuffer_ = <<>> /\ written \in Seq(Nat)
    BY DEF Control, FinIsLast, TypeOK
  <2>2. written \o <<>> = written
    BY <2>1, ConcatEmptySeq
  <2> QED
    BY <2>1, <2>2 DEF BytesInOrder
<1> QED
  BY <1>1, ControlHolds, StreamsKeepOrder, PTL

\* CompletionPrecedesClose: a write-complete functor never finds the connection
\* disconnected.
THEOREM CompletesBeforeClose == Spec => CompletionPrecedesClose
<1>1. TypeOK /\ Control /\ [Next]_vars =>
        [pendingFunctors_' < pendingFunctors_ => state_ # "kDisconnected"]_vars
  <2> SUFFICES ASSUME TypeOK, Control, pendingFunctors_' < pendingFunctors_, [Next]_vars
               PROVE  state_ # "kDisconnected"
    OBVIOUS
  <2>1. pendingFunctors_ \in Nat
    BY DEF TypeOK
  <2>2. CASE pendingFunctors_ > 0
    BY <2>2 DEF Control, CompletionIsLast
  <2>3. CASE pendingFunctors_ = 0
    <3>1. pendingFunctors_' \in Nat
      BY NextTyped DEF TypeOK
    <3> QED
      BY <2>3, <3>1
  <2> QED
    BY <2>1, <2>2, <2>3
<1> QED
  BY <1>1, ControlHolds, PTL DEF Spec, CompletionPrecedesClose

-----------------------------------------------------------------------------
(* Interest: what the channel is asked to watch *)

\* The read handler is called only of a channel that reads; output that waits
\* is watched for room until the connection ends.
ReadIsWanted == "read" \in todo => "IN" \in events_

OutputIsWatched == outputBuffer_ # <<>> /\ state_ # "kDisconnected" => "OUT" \in events_

\* Nothing is owed of a connection that was never established.
NothingOwedBefore == state_ = "KConnecting" => pendingFunctors_ = 0

\* A connection that is established reads, or disableWriting has silenced it.
DrainSilences ==
  state_ \in {"kConnected", "kDisconnecting"} => "IN" \in events_ \/ Silenced

Interest == ReadIsWanted /\ OutputIsWatched /\ NothingOwedBefore /\ DrainSilences

\* What a write has taken is never nothing.
LEMMA SomethingWritten ==
  ASSUME TypeOK, WriteData
  PROVE  written' # <<>>
<1>1. PICK n \in 1 .. Len(outputBuffer_) : written' = written \o SubSeq(outputBuffer_, 1, n)
  BY DEF WriteData
<1>2. written \in Seq(Nat) /\ outputBuffer_ \in Seq(Nat)
  BY DEF TypeOK
<1>3. n \in Nat /\ 1 <= n /\ n <= Len(outputBuffer_) /\ Len(outputBuffer_) \in Nat
  BY <1>2, LenProperties
<1>4. SubSeq(outputBuffer_, 1, n) \in Seq(Nat) /\ Len(SubSeq(outputBuffer_, 1, n)) = n
  BY <1>2, <1>3, SubSeqProperties
<1>5. Len(written') = Len(written) + n /\ Len(written) \in Nat
  BY <1>1, <1>2, <1>4, ConcatProperties, LenProperties
<1> QED
  BY <1>3, <1>5

LEMMA InterestStep ==
  ASSUME TypeOK, Control, Interest, [Next]_vars
  PROVE  Interest'
<1> USE DEF Interest, ReadIsWanted, OutputIsWatched, NothingOwedBefore, DrainSilences, Silenced
<1>1. CASE PeerWrites \/ PeerFinishes \/ PeerResets
  BY <1>1 DEF PeerWrites, PeerFinishes, PeerResets, connVars, loopVars, history
<1>2. ASSUME NEW room \in BOOLEAN, NEW urgent \in BOOLEAN, PollWith(room, urgent)
      PROVE  Interest'
  <2>1. "read" \in todo' => {"IN", "PRI"} \cap events_ # {}
    BY <1>2 DEF PollWith, Called, Triggered, Report
  <2> QED
    BY <1>2, <2>1 DEF PollWith, Control, ReadingIsWhole, connVars, history
<1>3. ASSUME handleClose, Handling("close") \/ Handling("read")
      PROVE  Interest'
  <2>1. "read" \notin todo'
    BY <1>3 DEF Handling, Control, CloseIsAlone
  <2> QED
    BY <1>3, <2>1 DEF handleClose
<1>4. ASSUME handleError, Handling("error") \/ Handling("read")
      PROVE  Interest'
  BY <1>4 DEF handleError, Handling, connVars, history
<1>5. ASSUME Handling("read"), ReadData
      PROVE  Interest'
  BY <1>5 DEF ReadData, Handling
<1>6. CASE HandleWrite
  <2>1. todo' = {}
    BY <1>6 DEF HandleWrite, Handling, Before, TypeOK
  <2>2. CASE "OUT" \in events_ /\ WriteData
    BY <2>1, <2>2, SomethingWritten DEF WriteData, AllWritten, Drained, disableWriting,
                                        kWriteEvent, Control, OnlyEstablished
  <2>3. CASE WriteNothing \/ WriteFails
    BY <2>1, <2>3 DEF WriteNothing, WriteFails, connVars, history
  <2> QED
    BY <1>6, <2>2, <2>3 DEF HandleWrite, handleWrite
<1>7. CASE EndDispatch \/ RunFunctor \/ EndFunctors
  BY <1>7 DEF EndDispatch, RunFunctor, EndFunctors, connVars, history
<1>8. CASE connectEstablished \/ send \/ shutdown
  BY <1>8 DEF connectEstablished, send, shutdown, kReadEvent, kWriteEvent, loopVars, history
<1>9. CASE UNCHANGED vars
  BY <1>9 DEF vars, connVars, loopVars, history
<1> QED
  BY <1>1, <1>2, <1>3, <1>4, <1>5, <1>6, <1>7, <1>8, <1>9
     DEF Next, LoopStep, Poll, HandleClose, HandleError, HandleRead, handleRead

Lively == TypeOK /\ Control /\ BytesInOrder /\ Interest

LEMMA LivelyStep == Lively /\ [Next]_vars => Lively'
BY NextTyped, NextControl, NextBytes, InterestStep DEF Lively

LEMMA LivelyHolds == Spec => []Lively
<1>1. Init => Interest
  BY DEF Init, Interest, ReadIsWanted, OutputIsWatched, NothingOwedBefore, DrainSilences
<1>2. Init => Lively
  BY <1>1, InitTyped, InitControl, InitBytes DEF Lively
<1> QED
  BY <1>2, LivelyStep, PTL DEF Spec

\* Output is never stranded: through partial, failed and empty writes and
\* disableWriting's slip, a connection that still has output to write waits for
\* room to write it.
THEOREM WaitingOutputIsWatched == Spec => []OutputIsWatched
<1>1. Lively => OutputIsWatched
  BY DEF Lively, Interest
<1> QED
  BY <1>1, LivelyHolds, PTL

\* UnreadOnlyIfSilenced: a connection that closes with bytes of its peer unread
\* had its interest in reading taken away behind a drained output.
THEOREM UnreadIsSilenced == Spec => UnreadOnlyIfSilenced
<1>1. Lively /\ [Next]_vars => [closes' # closes => inbound = <<>> \/ Silenced]_vars
  <2> SUFFICES ASSUME Lively, [Next]_vars, closes' # closes
               PROVE  inbound = <<>> \/ Silenced
    OBVIOUS
  <2>1. HandleClose \/ HandleRead
    BY DEF Next, LoopStep, Poll, PollWith, vars, history, PeerWrites, PeerFinishes, PeerResets,
       HandleError, handleError, HandleWrite, handleWrite, WriteData, WriteNothing, WriteFails,
       EndDispatch, RunFunctor, EndFunctors, connectEstablished, send, shutdown
  <2>2. CASE HandleClose
    <3>1. state_ \in {"kConnected", "kDisconnecting"} /\ "IN" \notin events_
      BY <2>2 DEF HandleClose, Handling, Lively, Control, OnlyEstablished, CloseIsAlone, TypeOK
    <3> QED
      BY <3>1 DEF Lively, Interest, DrainSilences
  <2>3. CASE HandleRead
    BY <2>3 DEF HandleRead, handleRead, ReadData, history
  <2> QED
    BY <2>1, <2>2, <2>3
<1> QED
  BY <1>1, LivelyHolds, PTL DEF Spec, UnreadOnlyIfSilenced

-----------------------------------------------------------------------------
(* Refinement of Conversation *)

\* The next byte of a stream that is cut in two.
LEMMA NextIsLength ==
  ASSUME NEW n \in Nat, NEW a \in Seq(Nat), NEW b \in Seq(Nat), a \o b = Bytes(n)
  PROVE  n + 1 = Len(a) + Len(b) + 1
<1>1. Len(a) \in Nat /\ Len(b) \in Nat /\ Len(a \o b) = Len(a) + Len(b)
  BY ConcatProperties, LenProperties
<1>2. Len(Bytes(n)) = n
  BY DEF Bytes
<1> QED
  BY <1>1, <1>2

LEMMA Streams ==
  ASSUME TypeOK, BytesInOrder
  PROVE  /\ peerSent \in Nat /\ inputBuffer_ \in Seq(Nat) /\ inbound \in Seq(Nat)
         /\ inputBuffer_ \o inbound = Bytes(peerSent)
         /\ sent \in Nat /\ written \in Seq(Nat) /\ outputBuffer_ \in Seq(Nat)
         /\ written \o outputBuffer_ = Bytes(sent)
BY ConnectionAssumption DEF TypeOK, BytesInOrder

\* handleClose, called directly or by handleRead, is the end.
LEMMA CloseEnds ==
  ASSUME Lively, handleClose,
         \/ Handling("close")
         \/ Handling("read") /\ inbound = <<>>
  PROVE  CV!End
<1>1. /\ TypeOK /\ OnlyEstablished /\ CloseIsAlone /\ CompletionIsLast
  BY DEF Lively, Control
<1>2. state_ \in {"kConnected", "kDisconnecting"}
  BY <1>1 DEF OnlyEstablished, Handling, TypeOK
<1>3. pendingFunctors_ = 0
  BY <1>1 DEF CompletionIsLast, Handling, TypeOK
<1>4. "IN" \in events_ => inbound = <<>>
  BY <1>1 DEF CloseIsAlone, Handling
<1>5. /\ CV!Established /\ Phase' = "ended"
  BY <1>2 DEF handleClose, CV!Established, Phase
<1>6. ~("IN" \in events_)'
  BY DEF handleClose, EventsClosed
<1> QED
  BY <1>3, <1>4, <1>5, <1>6 DEF handleClose, CV!End, CV!input, CV!output

\* A write that took something.
LEMMA WriteTransmits ==
  ASSUME Lively, "OUT" \in events_, WriteData
  PROVE  CV!Transmit
<1>1. PICK n \in 1 .. Len(outputBuffer_) :
        /\ written' = written \o SubSeq(outputBuffer_, 1, n)
        /\ outputBuffer_' = SubSeq(outputBuffer_, n + 1, Len(outputBuffer_))
        /\ IF outputBuffer_' = <<>> THEN Drained
           ELSE UNCHANGED <<events_, pendingFunctors_, completions, fin>>
        /\ UNCHANGED <<state_, inputBuffer_, inbound>> /\ ~fin
  BY DEF WriteData, Unwritten, AllWritten
<1>2. state_ \in {"kConnected", "kDisconnecting"}
  BY DEF Lively, Control, OnlyEstablished, TypeOK
<1>3. CV!Established /\ UNCHANGED Phase /\ (Phase = "closing" <=> state_ = "kDisconnecting")
  BY <1>1, <1>2 DEF CV!Established, Phase
<1>4. CASE outputBuffer_' # <<>>
  BY <1>1, <1>3, <1>4 DEF CV!Transmit, CV!input
<1>5. CASE outputBuffer_' = <<>>
  <2>1. Drained
    BY <1>1, <1>5
  <2>2. pendingFunctors_' =
          IF writeCompleteCallback_ THEN pendingFunctors_ + 1 ELSE pendingFunctors_
    BY <2>1 DEF Drained, QueueCompletion
  <2>3. ("IN" \in events_)' = FALSE
    BY <2>1 DEF Drained, disableWriting, kWriteEvent
  <2>4. fin' = (state_ = "kDisconnecting")
    BY <1>1, <2>1 DEF Drained, shutdownInLoop, Lively, TypeOK
  <2> QED
    BY <1>1, <1>3, <1>5, <2>2, <2>3, <2>4 DEF CV!Transmit, CV!input
<1> QED
  BY <1>4, <1>5

\* Steps of the peer and of the loop's handlers.
LEMMA HandlersConverse ==
  ASSUME Lively, PeerWrites \/ HandleClose \/ HandleRead \/ HandleWrite
  PROVE  [CV!Next]_CV!vars
<1>a. TypeOK /\ Control /\ BytesInOrder /\ Interest
  BY DEF Lively
<1>1. CASE PeerWrites
  <2>1. peerSent + 1 = Len(inputBuffer_) + Len(inbound) + 1
    BY <1>a, Streams, NextIsLength
  <2>2. CV!PeerWrites
    BY <1>1, <2>1 DEF PeerWrites, CV!PeerWrites, CV!output, connVars, loopVars, Phase
  <2> QED
    BY <2>2 DEF CV!Next
<1>2. CASE HandleClose
  BY <1>2, CloseEnds DEF HandleClose, CV!Next
<1> USE DEF CV!vars, CV!input, CV!output, Phase
<1>3. CASE HandleRead
  <2>1. CASE ReadData
    <3>1. CV!Established /\ "IN" \in events_
      BY <1>3, <1>a DEF HandleRead, Handling, Control, OnlyEstablished, Interest, ReadIsWanted,
                        CV!Established, TypeOK
    <3>2. CV!Deliver
      BY <2>1, <3>1 DEF ReadData, CV!Deliver, history
    <3> QED
      BY <3>2 DEF CV!Next
  <2>2. CASE inbound = <<>> /\ handleClose
    BY <1>3, <2>2, CloseEnds DEF HandleRead, CV!Next
  <2>3. CASE handleError
    BY <2>3 DEF handleError, connVars, history
  <2> QED
    BY <1>3, <2>1, <2>2, <2>3 DEF HandleRead, handleRead
<1>4. CASE HandleWrite
  <2>1. CASE "OUT" \in events_ /\ WriteData
    BY <2>1, WriteTransmits DEF CV!Next
  <2>2. CASE WriteNothing
    BY <2>2 DEF WriteNothing, connVars, socketVars, history
  <2>3. CASE WriteFails
    BY <2>3 DEF WriteFails, connVars, history
  <2> QED
    BY <1>4, <2>1, <2>2, <2>3 DEF HandleWrite, handleWrite
<1> QED
  BY <1>1, <1>2, <1>3, <1>4

\* Steps of the user and of the loop around the handlers.
LEMMA OthersConverse ==
  ASSUME Lively,
         \/ connectEstablished \/ send \/ shutdown
         \/ PeerFinishes \/ PeerResets \/ Poll \/ HandleError
         \/ EndDispatch \/ RunFunctor \/ EndFunctors \/ UNCHANGED vars
  PROVE  [CV!Next]_CV!vars
<1>a. TypeOK /\ Control /\ BytesInOrder /\ Interest
  BY DEF Lively
<1> USE DEF CV!vars, CV!input, CV!output, Phase, connVars, loopVars, socketVars, history
<1>1. CASE connectEstablished
  <2>1. ~("IN" \in events_) /\ "IN" \in events_'
    BY <1>1, <1>a DEF connectEstablished, kReadEvent, Control, OnlyEstablished
  <2>2. CV!Open
    BY <1>1, <2>1 DEF connectEstablished, CV!Open
  <2> QED
    BY <2>2 DEF CV!Next
<1>2. CASE send
  <2>1. sent + 1 = Len(written) + Len(outputBuffer_) + 1
    BY <1>a, Streams, NextIsLength
  <2>2. ("IN" \in events_)' = ("IN" \in events_)
    BY <1>2 DEF send, kWriteEvent
  <2>3. CV!Send
    BY <1>2, <2>1, <2>2 DEF send, CV!Send
  <2> QED
    BY <2>3 DEF CV!Next
<1>3. CASE shutdown
  <2>1. ~fin
    BY <1>3, <1>a DEF shutdown, Control, FinIsLast
  <2>2. fin' = (outputBuffer_ = <<>>)
    BY <1>3, <1>a, <2>1 DEF shutdown, shutdownInLoop, TypeOK
  <2>3. CV!Shutdown
    BY <1>3, <2>2 DEF shutdown, CV!Shutdown
  <2> QED
    BY <2>3 DEF CV!Next
<1>4. CASE RunFunctor
  <2>1. state_ \in {"kConnected", "kDisconnecting"}
    BY <1>4, <1>a DEF RunFunctor, Control, CompletionIsLast, Interest, NothingOwedBefore, TypeOK
  <2>2. CV!Established
    BY <2>1 DEF CV!Established
  <2>3. CV!Complete
    BY <1>4, <2>2 DEF RunFunctor, CV!Complete
  <2> QED
    BY <2>3 DEF CV!Next
<1>5. CASE PeerFinishes \/ PeerResets \/ HandleError \/ UNCHANGED vars
  BY <1>5 DEF PeerFinishes, PeerResets, HandleError, handleError, vars
<1>6. CASE Poll \/ EndDispatch \/ EndFunctors
  BY <1>6 DEF Poll, PollWith, EndDispatch, EndFunctors
<1> QED
  BY <1>1, <1>2, <1>3, <1>4, <1>5, <1>6

\* A connection holds the conversation that Conversation.tla describes, for any
\* number of bytes and whatever its peer and its user do.
THEOREM HoldsConversation == Spec => ImplementsConversation
<1>1. Init => CV!Init
  BY DEF Init, CV!Init, Phase
<1>2. Lively /\ [Next]_vars => [CV!Next]_CV!vars
  BY HandlersConverse, OthersConverse DEF Next, LoopStep
<1> QED
  BY <1>1, <1>2, LivelyHolds, PTL DEF Spec, ImplementsConversation, CV!Spec
=============================================================================

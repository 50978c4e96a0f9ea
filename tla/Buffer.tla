------------------------------- MODULE Buffer -------------------------------
(***************************************************************************)
(* Buffer.hpp and Buffer.cc: a byte vector with a read and a write index   *)
(* that slides its content to the front, or grows, when room is short.     *)
(*                                                                         *)
(* The methods are operators on Buffer values, so that a connection can    *)
(* hold two; the specification is one owner (the loop thread) that calls   *)
(* every method in any order.                                              *)
(*                                                                         *)
(*  - A byte is a member of Byte; Zero is what resize fills with.          *)
(*  - A std::copy past the end of the vector is undefined: here the bytes  *)
(*    beyond the end are lost, which the properties notice.                *)
(*  - size_t arithmetic does not wrap: every length is below the size of   *)
(*    the address space, and no subtraction below goes under zero (TypeOK).*)
(***************************************************************************)
EXTENDS Sequences, Integers

CONSTANTS
  Byte, Zero, Space,      \* the bytes, 0 and ' '
  kCheapPrepend, initialSize,
  sizeofExtrabuf,         \* room in readFd's array on the stack
  Messages,               \* byte strings appended or received
  Lengths,                \* lengths asked for in retrieve and retrieveAsString
  MaxReadable,            \* bound: no more readable bytes than this
  MaxMessage              \* no message is longer than this

ASSUME BufferAssumption ==
  /\ Zero \in Byte /\ Space \in Byte
  /\ {kCheapPrepend, initialSize, sizeofExtrabuf, MaxReadable, MaxMessage} \subseteq Nat
  /\ Messages \subseteq Seq(Byte)
  /\ \A data \in Messages : Len(data) <= MaxMessage
  /\ Lengths \subseteq Nat

VARIABLES
  buf,   \* the Buffer: its three members
  out    \* history: what the last call returned, or wrote to the fd

vars == <<buf, out>>

-----------------------------------------------------------------------------
(* The methods, on a Buffer value b *)

Zeros(n) == [i \in 1 .. n |-> Zero]

newBuffer ==
  [buffer_      |-> Zeros(kCheapPrepend + initialSize),
   readerIndex_ |-> kCheapPrepend,
   writerIndex_ |-> kCheapPrepend]

readableBytes(b)    == b.writerIndex_ - b.readerIndex_
writableBytes(b)    == Len(b.buffer_) - b.writerIndex_
prependableBytes(b) == b.readerIndex_

\* The n bytes from peek() on.
peek(b, n) == SubSeq(b.buffer_, b.readerIndex_ + 1, b.readerIndex_ + n)

Content(b) == peek(b, readableBytes(b))

retrieveAll(b) ==
  [b EXCEPT !.readerIndex_ = kCheapPrepend, !.writerIndex_ = kCheapPrepend]

\* (As in EventLoop.tla, operators named ...Bug are slips in the operator after
\* them; no specification uses them.)  Retrieves more than there is.
retrieveBug(b, len) == [b EXCEPT !.readerIndex_ = @ + len]

retrieve(b, len) ==
  IF len < readableBytes(b)
  THEN [b EXCEPT !.readerIndex_ = @ + len]
  ELSE retrieveAll(b)

\* std::copy of data to offset at.
Copy(bytes, at, data) ==
  [i \in 1 .. Len(bytes) |->
    IF i \in at + 1 .. at + Len(data) THEN data[i - at] ELSE bytes[i]]

\* Slides the indexes and not the bytes.
makeSpaceBug(b, len) ==
  IF writableBytes(b) + prependableBytes(b) <= len + kCheapPrepend
  THEN [b EXCEPT !.buffer_ = @ \o Zeros(b.writerIndex_ + len - Len(b.buffer_))]
  ELSE [b EXCEPT !.readerIndex_ = kCheapPrepend,
                 !.writerIndex_ = kCheapPrepend + readableBytes(b)]

\* Grows, or slides the content to the front if something was retrieved.
makeSpace(b, len) ==
  IF writableBytes(b) + prependableBytes(b) <= len + kCheapPrepend
  THEN [b EXCEPT !.buffer_ = @ \o Zeros(b.writerIndex_ + len - Len(b.buffer_))]
  ELSE IF kCheapPrepend < b.readerIndex_
  THEN [buffer_      |-> Copy(b.buffer_, kCheapPrepend, Content(b)),
        readerIndex_ |-> kCheapPrepend,
        writerIndex_ |-> kCheapPrepend + readableBytes(b)]
  ELSE b

\* Makes space whether or not there is enough.
ensureWritableBytesBug(b, len) ==
  [b EXCEPT !.buffer_ = @ \o Zeros(len)]

ensureWritableBytes(b, len) ==
  IF writableBytes(b) < len THEN makeSpace(b, len) ELSE b

append(b, data) ==
  LET roomy == ensureWritableBytes(b, Len(data))
  IN  [roomy EXCEPT !.buffer_ = Copy(@, roomy.writerIndex_, data),
                    !.writerIndex_ = @ + Len(data)]

-----------------------------------------------------------------------------
(* readFd: readv into the writable bytes and, if they are few, extrabuf *)

\* The most that readv can return.
readvRoom(b) ==
  writableBytes(b) + (IF writableBytes(b) < sizeofExtrabuf THEN sizeofExtrabuf ELSE 0)

\* The Buffer after readv has delivered data, which fits readvRoom.
received(b, data) ==
  LET writable == writableBytes(b)
      first    == [b EXCEPT !.buffer_ = Copy(@, b.writerIndex_, data)]
  IN  IF Len(data) < writable
      THEN [first EXCEPT !.writerIndex_ = @ + Len(data)]
      ELSE append([first EXCEPT !.writerIndex_ = Len(b.buffer_)],
                  SubSeq(data, writable + 1, Len(data)))

-----------------------------------------------------------------------------
Init == buf = newBuffer /\ out = <<>>

\* The bound on the state space.
Fits(data) == readableBytes(buf) + Len(data) <= MaxReadable

Append_(data) ==
  /\ Fits(data)
  /\ buf' = append(buf, data)
  /\ out' = <<>>

Retrieve(len) ==
  /\ buf' = retrieve(buf, len)
  /\ out' = <<>>

\* retrieveAsString; with every readable byte it is retrieveAllAsString.
RetrieveAsString(len) ==
  \/ /\ len <= readableBytes(buf)
     /\ out' = peek(buf, len)
     /\ buf' = retrieve(buf, len)
  \/ /\ len > readableBytes(buf)
     /\ out' = <<Space>>
     /\ UNCHANGED buf

\* readv delivers data; the empty message is the end of the stream.
ReadFd(data) ==
  /\ Len(data) <= readvRoom(buf) /\ Fits(data)
  /\ buf' = received(buf, data)
  /\ out' = <<>>

\* readv or write fails: only *saveError is written.
FdError == UNCHANGED buf /\ out' = <<>>

\* write(2) takes n of the readable bytes; they are retrieved by the caller.
WriteFd(n) ==
  /\ n \in 0 .. readableBytes(buf)
  /\ out' = peek(buf, n)
  /\ UNCHANGED buf

Next ==
  \/ \E data \in Messages : Append_(data) \/ ReadFd(data)
  \/ \E len \in Lengths \cup {readableBytes(buf)} : Retrieve(len) \/ RetrieveAsString(len)
  \/ \E n \in 0 .. MaxReadable : WriteFd(n)
  \/ FdError

Spec == Init /\ [][Next]_vars

-----------------------------------------------------------------------------
(* Properties *)

Buffers == [buffer_ : Seq(Byte), readerIndex_ : Nat, writerIndex_ : Nat]

\* TypeOK: the order of the indexes drawn in Buffer.hpp:27-32, and a read index
\* never below the prepend area: no size_t difference is negative.
InOrder(b) ==
  kCheapPrepend <= b.readerIndex_ /\ b.readerIndex_ <= b.writerIndex_
    /\ b.writerIndex_ <= Len(b.buffer_)

TypeOK == buf \in Buffers /\ InOrder(buf) /\ out \in Seq(Byte)

\* ImplementsByteQueue: through every slide, growth and reset of the indexes,
\* and through readFd's two arrays, the bytes come out as they went in.
BQ == INSTANCE ByteQueue WITH content <- Content(buf), Refusal <- <<Space>>
ImplementsByteQueue == BQ!Spec

\* SizeBounded: a connection that never holds more than MaxReadable unread
\* bytes has a bounded vector, however many bytes pass through it: makeSpace
\* grows it only when sliding would not do.
SizeBounded ==
  Len(buf.buffer_) <= kCheapPrepend
    + (IF initialSize > MaxReadable + MaxMessage THEN initialSize ELSE MaxReadable + MaxMessage)

=============================================================================

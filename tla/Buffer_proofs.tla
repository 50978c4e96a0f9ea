--------------------------- MODULE Buffer_proofs ----------------------------
(***************************************************************************)
(* Theorems about Buffer.tla, for every prepend area, initial size, size   *)
(* of readFd's array, set of messages and set of lengths: the order of the *)
(* indexes, the room that ensureWritableBytes makes, the bound on the      *)
(* vector, and the refinement of ByteQueue.tla.                            *)
(***************************************************************************)
EXTENDS Buffer, SequenceTheorems, TLAPS

-----------------------------------------------------------------------------
(* Byte strings *)

\* The n bytes after the first r.
LEMMA Segment ==
  ASSUME NEW s \in Seq(Byte), NEW r \in Nat, NEW n \in Nat, r + n <= Len(s)
  PROVE  /\ SubSeq(s, r + 1, r + n) \in Seq(Byte)
         /\ Len(SubSeq(s, r + 1, r + n)) = n
         /\ \A i \in 1 .. n : SubSeq(s, r + 1, r + n)[i] = s[r + i]
OBVIOUS

\* A byte string cut in two.
LEMMA Cut ==
  ASSUME NEW s \in Seq(Byte), NEW k \in Nat, k <= Len(s)
  PROVE  /\ SubSeq(s, 1, k) \in Seq(Byte) /\ Len(SubSeq(s, 1, k)) = k
         /\ \A i \in 1 .. k : SubSeq(s, 1, k)[i] = s[i]
         /\ SubSeq(s, k + 1, Len(s)) \in Seq(Byte)
         /\ Len(SubSeq(s, k + 1, Len(s))) = Len(s) - k
         /\ s = SubSeq(s, 1, k) \o SubSeq(s, k + 1, Len(s))
<1> DEFINE a == SubSeq(s, 1, k)
           b == SubSeq(s, k + 1, Len(s))
<1>1. Len(s) \in Nat
  OBVIOUS
<1>2. /\ a \in Seq(Byte) /\ Len(a) = k
      /\ \A i \in 1 .. k : a[i] = s[i]
  BY <1>1
<1>3. /\ b \in Seq(Byte) /\ Len(b) = Len(s) - k
      /\ \A i \in 1 .. Len(s) - k : b[i] = s[k + i]
  BY <1>1
<1> HIDE DEF a, b
<1>4. /\ a \o b \in Seq(Byte) /\ Len(a \o b) = Len(s)
      /\ \A i \in 1 .. Len(s) : (a \o b)[i] = IF i <= k THEN a[i] ELSE b[i - k]
  <2>1. Len(a) + Len(b) = Len(s)
    BY <1>1, <1>2, <1>3
  <2> QED
    BY <1>2, <1>3, <2>1, ConcatProperties
<1>5. \A i \in 1 .. Len(s) : (a \o b)[i] = s[i]
  <2> SUFFICES ASSUME NEW i \in 1 .. Len(s) PROVE (a \o b)[i] = s[i]
    OBVIOUS
  <2>1. CASE i <= k
    <3>1. i \in 1 .. k
      BY <1>1, <2>1
    <3> QED
      BY <1>2, <1>4, <2>1, <3>1
  <2>2. CASE ~(i <= k)
    <3>1. i - k \in 1 .. Len(s) - k /\ k + (i - k) = i
      BY <1>1, <2>2
    <3> QED
      BY <1>3, <1>4, <2>2, <3>1
  <2> QED
    BY <2>1, <2>2
<1>6. s = a \o b
  BY <1>4, <1>5, SeqEqual
<1> QED
  BY <1>2, <1>3, <1>6 DEF a, b

\* Copy keeps the length and changes the bytes it says.
LEMMA CopyBytes ==
  ASSUME NEW s \in Seq(Byte), NEW at \in Nat, NEW data \in Seq(Byte)
  PROVE  /\ Copy(s, at, data) \in Seq(Byte)
         /\ Len(Copy(s, at, data)) = Len(s)
         /\ \A i \in 1 .. Len(s) : Copy(s, at, data)[i] =
              IF i \in at + 1 .. at + Len(data) THEN data[i - at] ELSE s[i]
<1>1. Len(s) \in Nat /\ Len(data) \in Nat
  OBVIOUS
<1>2. \A i \in 1 .. Len(s) :
        (IF i \in at + 1 .. at + Len(data) THEN data[i - at] ELSE s[i]) \in Byte
  <2> SUFFICES ASSUME NEW i \in 1 .. Len(s)
               PROVE  (IF i \in at + 1 .. at + Len(data) THEN data[i - at] ELSE s[i]) \in Byte
    OBVIOUS
  <2>1. s[i] \in Byte
    OBVIOUS
  <2>2. ASSUME i \in at + 1 .. at + Len(data) PROVE data[i - at] \in Byte
    <3>1. i - at \in 1 .. Len(data)
      BY <1>1, <2>2
    <3> QED
      BY <3>1
  <2> QED
    BY <2>1, <2>2
<1> QED
  BY <1>1, <1>2 DEF Copy

\* Zeros extend a vector.
LEMMA ZerosExtend ==
  ASSUME NEW s \in Seq(Byte), NEW n \in Nat
  PROVE  /\ s \o Zeros(n) \in Seq(Byte)
         /\ Len(s \o Zeros(n)) = Len(s) + n
         /\ \A i \in 1 .. Len(s) : (s \o Zeros(n))[i] = s[i]
<1>1. Zeros(n) \in Seq(Byte) /\ Len(Zeros(n)) = n
  BY BufferAssumption DEF Zeros
<1>2. Len(s) \in Nat /\ 1 .. Len(s) \subseteq 1 .. Len(s) + Len(Zeros(n))
  BY <1>1
<1>3. \A i \in 1 .. Len(s) : i <= Len(s)
  BY <1>2
<1> QED
  BY <1>1, <1>2, <1>3, ConcatProperties

\* Growing the vector leaves a segment as it is.
LEMMA GrowKeeps ==
  ASSUME NEW s \in Seq(Byte), NEW n \in Nat, NEW r \in Nat, NEW k \in Nat, r + k <= Len(s)
  PROVE  SubSeq(s \o Zeros(n), r + 1, r + k) = SubSeq(s, r + 1, r + k)
<1> DEFINE g == s \o Zeros(n)
<1>1. /\ g \in Seq(Byte) /\ Len(g) = Len(s) + n
      /\ \A i \in 1 .. Len(s) : g[i] = s[i]
  BY ZerosExtend
<1> HIDE DEF g
<1>2. Len(s) \in Nat
  OBVIOUS
<1>3. /\ SubSeq(g, r + 1, r + k) \in Seq(Byte) /\ Len(SubSeq(g, r + 1, r + k)) = k
      /\ \A i \in 1 .. k : SubSeq(g, r + 1, r + k)[i] = g[r + i]
  BY <1>1, <1>2, Segment
<1>4. \A i \in 1 .. k : g[r + i] = s[r + i]
  BY <1>1, <1>2
<1> QED
  BY <1>3, <1>4, Segment, SeqEqual DEF g

\* Sliding a segment to the front keeps it, though the two may overlap.
LEMMA SlideKeeps ==
  ASSUME NEW s \in Seq(Byte), NEW front \in Nat, NEW r \in Nat, NEW k \in Nat,
         front <= r, r + k <= Len(s)
  PROVE  SubSeq(Copy(s, front, SubSeq(s, r + 1, r + k)), front + 1, front + k)
           = SubSeq(s, r + 1, r + k)
<1> DEFINE seg == SubSeq(s, r + 1, r + k)
           c == Copy(s, front, seg)
<1>1. seg \in Seq(Byte) /\ Len(seg) = k
  BY Segment
<1> HIDE DEF seg
<1>2. /\ c \in Seq(Byte) /\ Len(c) = Len(s)
      /\ \A i \in 1 .. Len(s) : c[i] =
           IF i \in front + 1 .. front + Len(seg) THEN seg[i - front] ELSE s[i]
  BY <1>1, CopyBytes
<1> HIDE DEF c
<1>3. Len(s) \in Nat
  OBVIOUS
<1>4. /\ SubSeq(c, front + 1, front + k) \in Seq(Byte)
      /\ Len(SubSeq(c, front + 1, front + k)) = k
      /\ \A i \in 1 .. k : SubSeq(c, front + 1, front + k)[i] = c[front + i]
  BY <1>2, <1>3, Segment
<1>5. \A i \in 1 .. k : c[front + i] = seg[i]
  <2> SUFFICES ASSUME NEW i \in 1 .. k PROVE c[front + i] = seg[i]
    OBVIOUS
  <2>1. /\ front + i \in 1 .. Len(s) /\ front + i \in front + 1 .. front + Len(seg)
        /\ (front + i) - front = i
    BY <1>1, <1>3
  <2> QED
    BY <1>2, <2>1
<1>6. SubSeq(c, front + 1, front + k) = seg
  BY <1>1, <1>4, <1>5, SeqEqual
<1> QED
  BY <1>6 DEF seg, c

\* Copying data behind a segment adds it to the segment.
LEMMA FillAdds ==
  ASSUME NEW s \in Seq(Byte), NEW r \in Nat, NEW k \in Nat, NEW data \in Seq(Byte),
         r + k + Len(data) <= Len(s)
  PROVE  SubSeq(Copy(s, r + k, data), r + 1, r + (k + Len(data)))
           = SubSeq(s, r + 1, r + k) \o data
<1> DEFINE d == Len(data)
           c == Copy(s, r + k, data)
           old == SubSeq(s, r + 1, r + k)
           new == SubSeq(c, r + 1, r + (k + d))
<1>1. Len(s) \in Nat /\ d \in Nat /\ r + k \in Nat /\ k + d \in Nat /\ r + k <= Len(s)
      /\ r + k + d <= Len(s)
  OBVIOUS
<1>2. /\ c \in Seq(Byte) /\ Len(c) = Len(s)
      /\ \A i \in 1 .. Len(s) : c[i] =
           IF i \in (r + k) + 1 .. (r + k) + d THEN data[i - (r + k)] ELSE s[i]
  BY <1>1, CopyBytes
<1> HIDE DEF c
<1>3. /\ old \in Seq(Byte) /\ Len(old) = k
      /\ \A i \in 1 .. k : old[i] = s[r + i]
  BY <1>1, Segment
<1>4. /\ new \in Seq(Byte) /\ Len(new) = k + d
      /\ \A i \in 1 .. k + d : new[i] = c[r + i]
  <2>1. r + (k + d) <= Len(c)
    BY <1>1, <1>2
  <2> HIDE DEF d
  <2> QED
    BY <1>1, <1>2, <2>1, Segment
<1> HIDE DEF old, new
<1>5. /\ old \o data \in Seq(Byte) /\ Len(old \o data) = k + d
      /\ \A i \in 1 .. k + d : (old \o data)[i] = IF i <= k THEN old[i] ELSE data[i - k]
  BY <1>1, <1>3, ConcatProperties
<1>6. \A i \in 1 .. k + d : new[i] = (old \o data)[i]
  <2> SUFFICES ASSUME NEW i \in 1 .. k + d PROVE new[i] = (old \o data)[i]
    OBVIOUS
  <2> HIDE DEF d
  <2>1. r + i \in 1 .. Len(s) /\ i \in Int
    BY <1>1
  <2>2. CASE i <= k
    <3>1. r + i \notin (r + k) + 1 .. (r + k) + d /\ i \in 1 .. k
      BY <1>1, <2>1, <2>2
    <3> QED
      BY <1>2, <1>3, <1>4, <1>5, <2>1, <2>2, <3>1
  <2>3. CASE ~(i <= k)
    <3>1. r + i \in (r + k) + 1 .. (r + k) + d /\ (r + i) - (r + k) = i - k
      BY <1>1, <2>1, <2>3
    <3> QED
      BY <1>2, <1>4, <1>5, <2>1, <2>3, <3>1
  <2> QED
    BY <2>2, <2>3
<1>7. new = old \o data
  BY <1>1, <1>4, <1>5, <1>6, SeqEqual
<1> QED
  BY <1>7 DEF new, old, c

-----------------------------------------------------------------------------
(* Buffers *)

Good(b) == b \in Buffers /\ InOrder(b)

\* The sizes are natural numbers and the differences do not wrap.
LEMMA Sizes ==
  ASSUME NEW b, Good(b)
  PROVE  /\ b.readerIndex_ \in Nat /\ b.writerIndex_ \in Nat /\ kCheapPrepend \in Nat
         /\ b.buffer_ \in Seq(Byte) /\ Len(b.buffer_) \in Nat
         /\ readableBytes(b) \in Nat /\ writableBytes(b) \in Nat
         /\ b.writerIndex_ = b.readerIndex_ + readableBytes(b)
         /\ Len(b.buffer_) = b.writerIndex_ + writableBytes(b)
         /\ kCheapPrepend <= b.readerIndex_
         /\ b.readerIndex_ + readableBytes(b) <= Len(b.buffer_)
         /\ Content(b) = SubSeq(b.buffer_, b.readerIndex_ + 1,
                                b.readerIndex_ + readableBytes(b))
         /\ Content(b) \in Seq(Byte) /\ Len(Content(b)) = readableBytes(b)
<1>1. b.buffer_ \in Seq(Byte) /\ b.readerIndex_ \in Nat /\ b.writerIndex_ \in Nat
  BY DEF Good, Buffers
<1>2. kCheapPrepend \in Nat /\ Len(b.buffer_) \in Nat
  BY <1>1, BufferAssumption
<1>3. /\ readableBytes(b) \in Nat /\ writableBytes(b) \in Nat
      /\ b.writerIndex_ = b.readerIndex_ + readableBytes(b)
      /\ Len(b.buffer_) = b.writerIndex_ + writableBytes(b)
      /\ kCheapPrepend <= b.readerIndex_
      /\ b.readerIndex_ + readableBytes(b) <= Len(b.buffer_)
  BY <1>1, <1>2 DEF Good, InOrder, readableBytes, writableBytes
<1>4. Content(b) = SubSeq(b.buffer_, b.readerIndex_ + 1, b.readerIndex_ + readableBytes(b))
  BY DEF Content, peek
<1>5. Content(b) \in Seq(Byte) /\ Len(Content(b)) = readableBytes(b)
  <2> DEFINE s == b.buffer_
             r == b.readerIndex_
             n == readableBytes(b)
  <2>1. s \in Seq(Byte) /\ r \in Nat /\ n \in Nat /\ r + n <= Len(s)
    BY <1>1, <1>3
  <2>2. Content(b) = SubSeq(s, r + 1, r + n)
    BY <1>4
  <2> HIDE DEF s, r, n
  <2>3. Content(b) \in Seq(Byte) /\ Len(Content(b)) = n
    BY <2>1, <2>2, Segment
  <2> QED
    BY <2>3 DEF n
<1> QED
  BY <1>1, <1>2, <1>3, <1>4, <1>5

\* A limit for the vector after room for len bytes was asked for.
Limit(b, len) == kCheapPrepend + readableBytes(b) + len + len

Bounded(b, c, len) == Len(c.buffer_) = Len(b.buffer_) \/ Len(c.buffer_) <= Limit(b, len)

\* makeSpace, called when room is short, makes room and keeps the content: by
\* growing the vector, or by sliding the content to the front, for which the
\* bytes already retrieved are then enough.
LEMMA SpaceIsMade ==
  ASSUME NEW b, Good(b), NEW len \in Nat, writableBytes(b) < len
  PROVE  LET c == makeSpace(b, len)
         IN  /\ Good(c) /\ writableBytes(c) >= len
             /\ readableBytes(c) = readableBytes(b) /\ Content(c) = Content(b)
             /\ Bounded(b, c, len)
<1>1. PICK s \in Seq(Byte), r \in Nat, n \in Nat, room \in Nat :
        /\ b.buffer_ = s /\ b.readerIndex_ = r /\ b.writerIndex_ = r + n
        /\ readableBytes(b) = n /\ writableBytes(b) = room
        /\ Len(s) = (r + n) + room /\ kCheapPrepend <= r
        /\ Content(b) = SubSeq(s, r + 1, r + n)
  BY Sizes
<1>2. kCheapPrepend \in Nat /\ b \in Buffers /\ room < len /\ r + n <= Len(s)
  BY <1>1, BufferAssumption DEF Good
<1> DEFINE c == makeSpace(b, len)
<1>3. CASE room + r <= len + kCheapPrepend
  <2> DEFINE more == (r + n) + len - Len(s)
             grown == s \o Zeros(more)
  <2>1. more \in Nat /\ Len(s) + more = (r + n) + len
    BY <1>1, <1>2
  <2>2. c = [b EXCEPT !.buffer_ = grown]
    BY <1>1, <1>3 DEF makeSpace, prependableBytes
  <2> HIDE DEF more, c
  <2>3. /\ grown \in Seq(Byte) /\ Len(grown) = (r + n) + len
        /\ SubSeq(grown, r + 1, r + n) = SubSeq(s, r + 1, r + n)
    <3>1. grown \in Seq(Byte) /\ Len(grown) = Len(s) + more
      BY <2>1, ZerosExtend
    <3>2. SubSeq(grown, r + 1, r + n) = SubSeq(s, r + 1, r + n)
      BY <1>2, <2>1, GrowKeeps
    <3> QED
      BY <2>1, <3>1, <3>2
  <2> HIDE DEF grown
  <2>4. /\ c \in Buffers /\ c.buffer_ = grown /\ c.readerIndex_ = r
        /\ c.writerIndex_ = r + n
    BY <1>1, <1>2, <2>2, <2>3 DEF Buffers
  <2>5. /\ Good(c) /\ readableBytes(c) = n /\ writableBytes(c) = Len(grown) - (r + n)
        /\ Content(c) = Content(b)
    <3>1. readableBytes(c) = n /\ writableBytes(c) = Len(grown) - (r + n)
      BY <2>4 DEF readableBytes, writableBytes
    <3>2. r <= r + n /\ r + n <= Len(grown)
      BY <1>2, <2>3
    <3>3. Good(c)
      BY <1>1, <2>4, <3>2 DEF Good, InOrder
    <3> QED
      BY <1>1, <2>3, <2>4, <3>1, <3>3 DEF Content, peek
  <2>6. writableBytes(c) >= len /\ Len(grown) <= kCheapPrepend + n + len + len
    BY <1>1, <1>2, <1>3, <2>3, <2>5
  <2> QED
    BY <1>1, <2>4, <2>5, <2>6 DEF c, Bounded, Limit
<1>4. CASE ~(room + r <= len + kCheapPrepend)
  <2>1. kCheapPrepend < r
    BY <1>2, <1>4
  <2> DEFINE slid == Copy(s, kCheapPrepend, Content(b))
  <2>2. c = [buffer_ |-> slid, readerIndex_ |-> kCheapPrepend,
             writerIndex_ |-> kCheapPrepend + n]
    BY <1>1, <1>4, <2>1 DEF makeSpace, prependableBytes
  <2> HIDE DEF c
  <2>3. /\ slid \in Seq(Byte) /\ Len(slid) = Len(s)
        /\ SubSeq(slid, kCheapPrepend + 1, kCheapPrepend + n) = Content(b)
    <3>1. Content(b) \in Seq(Byte) /\ Len(Content(b)) = n
      BY <1>1, <1>2, Segment
    <3>2. slid \in Seq(Byte) /\ Len(slid) = Len(s)
      BY <1>2, <3>1, CopyBytes
    <3>3. SubSeq(Copy(s, kCheapPrepend, SubSeq(s, r + 1, r + n)),
                 kCheapPrepend + 1, kCheapPrepend + n) = SubSeq(s, r + 1, r + n)
      <4>1. kCheapPrepend <= r
        BY <1>1
      <4> QED
        BY <1>2, <4>1, SlideKeeps
    <3> QED
      BY <1>1, <3>2, <3>3
  <2> HIDE DEF slid
  <2>4. /\ c \in Buffers /\ c.buffer_ = slid /\ c.readerIndex_ = kCheapPrepend
        /\ c.writerIndex_ = kCheapPrepend + n
    BY <1>2, <2>2, <2>3 DEF Buffers
  <2>5. kCheapPrepend + n <= Len(slid)
    BY <1>1, <1>2, <2>1, <2>3
  <2>6. /\ Good(c) /\ readableBytes(c) = n
        /\ writableBytes(c) = Len(slid) - (kCheapPrepend + n)
        /\ Content(c) = Content(b)
    <3>1. /\ readableBytes(c) = n
          /\ writableBytes(c) = Len(slid) - (kCheapPrepend + n)
      BY <1>2, <2>4 DEF readableBytes, writableBytes
    <3>2. kCheapPrepend <= kCheapPrepend + n
      BY <1>2
    <3>3. Good(c)
      BY <1>2, <2>4, <2>5, <3>2 DEF Good, InOrder
    <3> QED
      BY <2>3, <2>4, <3>1, <3>3 DEF Content, peek
  <2>7. writableBytes(c) >= len
    BY <1>1, <1>2, <1>4, <2>3, <2>6
  <2> QED
    BY <1>1, <2>3, <2>4, <2>6, <2>7 DEF c, Bounded
<1> QED
  BY <1>3, <1>4

\* After ensureWritableBytes there is room, and the content is what it was.
LEMMA RoomIsEnsured ==
  ASSUME NEW b, Good(b), NEW len \in Nat
  PROVE  LET c == ensureWritableBytes(b, len)
         IN  /\ Good(c) /\ writableBytes(c) >= len
             /\ readableBytes(c) = readableBytes(b) /\ Content(c) = Content(b)
             /\ Bounded(b, c, len)
<1>1. CASE writableBytes(b) < len
  BY <1>1, SpaceIsMade DEF ensureWritableBytes
<1>2. CASE ~(writableBytes(b) < len)
  <2>1. ensureWritableBytes(b, len) = b /\ writableBytes(b) >= len
    BY <1>2, Sizes DEF ensureWritableBytes
  <2> QED
    BY <2>1 DEF Bounded
<1> QED
  BY <1>1, <1>2

\* Bytes copied to the write index, for which there is room, and counted, are
\* added to the content.
LEMMA FilledIn ==
  ASSUME NEW b, Good(b), NEW data \in Seq(Byte), Len(data) <= writableBytes(b)
  PROVE  LET c == [b EXCEPT !.buffer_ = Copy(b.buffer_, b.writerIndex_, data),
                            !.writerIndex_ = b.writerIndex_ + Len(data)]
         IN  /\ Good(c) /\ Len(c.buffer_) = Len(b.buffer_)
             /\ readableBytes(c) = readableBytes(b) + Len(data)
             /\ Content(c) = Content(b) \o data
<1>1. PICK s \in Seq(Byte), r \in Nat, n \in Nat, d \in Nat :
        /\ b.buffer_ = s /\ b.readerIndex_ = r /\ b.writerIndex_ = r + n
        /\ readableBytes(b) = n /\ Len(data) = d
        /\ r + n + d <= Len(s) /\ kCheapPrepend <= r
        /\ Content(b) = SubSeq(s, r + 1, r + n)
  <2>1. Len(data) \in Nat
    OBVIOUS
  <2>2. b.readerIndex_ + readableBytes(b) + Len(data) <= Len(b.buffer_)
    <3>1. /\ Len(b.buffer_) = b.writerIndex_ + writableBytes(b)
          /\ b.writerIndex_ = b.readerIndex_ + readableBytes(b)
          /\ b.readerIndex_ \in Nat /\ readableBytes(b) \in Nat /\ writableBytes(b) \in Nat
      BY Sizes
    <3> QED
      BY <2>1, <3>1
  <2> QED
    BY <2>1, <2>2, Sizes
<1>2. b \in Buffers /\ r + n \in Nat /\ n + d \in Nat /\ r + n + d = r + (n + d)
  BY DEF Good
<1> DEFINE full == Copy(s, r + n, data)
           c == [b EXCEPT !.buffer_ = full, !.writerIndex_ = (r + n) + d]
<1>3. /\ full \in Seq(Byte) /\ Len(full) = Len(s)
      /\ SubSeq(full, r + 1, r + (n + d)) = Content(b) \o data
  <2>1. full \in Seq(Byte) /\ Len(full) = Len(s)
    BY <1>2, CopyBytes
  <2>2. SubSeq(Copy(s, r + n, data), r + 1, r + (n + Len(data)))
          = SubSeq(s, r + 1, r + n) \o data
    <3>1. r + n + Len(data) <= Len(s)
      BY <1>1
    <3> QED
      BY <3>1, FillAdds
  <2> QED
    BY <1>1, <2>1, <2>2
<1> HIDE DEF full
<1>4. /\ c \in Buffers /\ c.buffer_ = full /\ c.readerIndex_ = r
      /\ c.writerIndex_ = r + (n + d)
  <2>1. (r + n) + d = r + (n + d) /\ r + (n + d) \in Nat
    BY <1>2
  <2>2. c = [b EXCEPT !.buffer_ = full, !.writerIndex_ = r + (n + d)]
    BY <2>1
  <2> HIDE DEF c
  <2> QED
    BY <1>1, <1>2, <1>3, <2>1, <2>2 DEF Buffers
<1>5. c = [b EXCEPT !.buffer_ = Copy(b.buffer_, b.writerIndex_, data),
                    !.writerIndex_ = b.writerIndex_ + Len(data)]
  BY <1>1 DEF full
<1> HIDE DEF c
<1>6. /\ Good(c) /\ readableBytes(c) = n + d
      /\ Content(c) = Content(b) \o data
  <2>1. r + (n + d) <= Len(full) /\ r <= r + (n + d)
    BY <1>1, <1>2, <1>3
  <2>2. readableBytes(c) = n + d
    BY <1>2, <1>4 DEF readableBytes
  <2>3. Good(c)
    BY <1>1, <1>4, <2>1 DEF Good, InOrder
  <2> QED
    BY <1>3, <1>4, <2>2, <2>3 DEF Content, peek
<1> QED
  BY <1>1, <1>3, <1>4, <1>5, <1>6

\* append adds the data, whatever the room there was.
LEMMA Appended ==
  ASSUME NEW b, Good(b), NEW data \in Seq(Byte)
  PROVE  LET c == append(b, data)
         IN  /\ Good(c) /\ readableBytes(c) = readableBytes(b) + Len(data)
             /\ Content(c) = Content(b) \o data
             /\ Bounded(b, c, Len(data))
<1> DEFINE e == ensureWritableBytes(b, Len(data))
           c == append(b, data)
<1>1. Len(data) \in Nat
  OBVIOUS
<1>2. /\ Good(e) /\ Len(data) <= writableBytes(e)
      /\ readableBytes(e) = readableBytes(b) /\ Content(e) = Content(b)
      /\ Bounded(b, e, Len(data))
  <2>1. /\ Good(e) /\ writableBytes(e) >= Len(data)
        /\ readableBytes(e) = readableBytes(b) /\ Content(e) = Content(b)
        /\ Bounded(b, e, Len(data))
    BY <1>1, RoomIsEnsured
  <2> HIDE DEF e
  <2>2. writableBytes(e) \in Nat
    BY <2>1, Sizes
  <2> QED
    BY <1>1, <2>1, <2>2
<1>3. c = [e EXCEPT !.buffer_ = Copy(e.buffer_, e.writerIndex_, data),
                    !.writerIndex_ = e.writerIndex_ + Len(data)]
  BY DEF append
<1> HIDE DEF e, c
<1>4. /\ Good(c) /\ Len(c.buffer_) = Len(e.buffer_)
      /\ readableBytes(c) = readableBytes(e) + Len(data)
      /\ Content(c) = Content(e) \o data
  BY <1>2, <1>3, FilledIn
<1> QED
  BY <1>2, <1>4 DEF Bounded, c

\* Only the bytes that fit are copied.
LEMMA CopyFits ==
  ASSUME NEW s \in Seq(Byte), NEW w \in Nat, NEW data \in Seq(Byte),
         NEW head \in Seq(Byte), Len(s) = w + Len(head), Len(head) <= Len(data),
         \A i \in 1 .. Len(head) : head[i] = data[i]
  PROVE  Copy(s, w, data) = Copy(s, w, head)
<1>1. /\ Copy(s, w, data) \in Seq(Byte) /\ Len(Copy(s, w, data)) = Len(s)
      /\ Copy(s, w, head) \in Seq(Byte) /\ Len(Copy(s, w, head)) = Len(s)
  BY CopyBytes
<1>2. \A i \in 1 .. Len(s) : Copy(s, w, data)[i] = Copy(s, w, head)[i]
  <2> SUFFICES ASSUME NEW i \in 1 .. Len(s)
               PROVE  Copy(s, w, data)[i] = Copy(s, w, head)[i]
    OBVIOUS
  <2>1. Copy(s, w, data)[i] = IF i \in w + 1 .. w + Len(data) THEN data[i - w] ELSE s[i]
    BY CopyBytes
  <2>2. Copy(s, w, head)[i] = IF i \in w + 1 .. w + Len(head) THEN head[i - w] ELSE s[i]
    BY CopyBytes
  <2>3. Len(data) \in Nat /\ Len(head) \in Nat
    OBVIOUS
  <2>4. i \in w + 1 .. w + Len(data) <=> i \in w + 1 .. w + Len(head)
    BY <2>3
  <2>5. i \in w + 1 .. w + Len(head) => data[i - w] = head[i - w]
    BY <2>3
  <2> QED
    BY <2>1, <2>2, <2>4, <2>5
<1> QED
  BY <1>1, <1>2, SeqEqual

\* readFd's two arrays receive as append would: the first bytes in place, the
\* rest appended to a Buffer that is full.
LEMMA Received ==
  ASSUME NEW b, Good(b), NEW data \in Seq(Byte)
  PROVE  LET c == received(b, data)
         IN  /\ Good(c) /\ readableBytes(c) = readableBytes(b) + Len(data)
             /\ Content(c) = Content(b) \o data
             /\ Bounded(b, c, Len(data))
<1>1. PICK s \in Seq(Byte), w \in Nat, room \in Nat, n \in Nat, old \in Seq(Byte) :
        /\ b.buffer_ = s /\ b.writerIndex_ = w /\ writableBytes(b) = room
        /\ Len(s) = w + room /\ readableBytes(b) = n /\ Content(b) = old
  BY Sizes
<1>2. PICK d \in Nat : Len(data) = d
  OBVIOUS
<1>3. CASE d < room
  <2> DEFINE c == received(b, data)
  <2>1. c = [b EXCEPT !.buffer_ = Copy(b.buffer_, b.writerIndex_, data),
                      !.writerIndex_ = b.writerIndex_ + Len(data)]
    BY <1>1, <1>2, <1>3 DEF received
  <2>2. Len(data) <= writableBytes(b)
    BY <1>1, <1>2, <1>3
  <2> HIDE DEF c
  <2>3. /\ Good(c) /\ Len(c.buffer_) = Len(b.buffer_)
        /\ readableBytes(c) = readableBytes(b) + Len(data)
        /\ Content(c) = Content(b) \o data
    BY <2>1, <2>2, FilledIn
  <2> QED
    BY <2>3 DEF Bounded, c
<1>4. CASE ~(d < room)
  <2>1. PICK head \in Seq(Byte), rest \in Seq(Byte) :
          /\ head = SubSeq(data, 1, room) /\ rest = SubSeq(data, room + 1, Len(data))
          /\ Len(head) = room /\ Len(rest) = d - room /\ data = head \o rest
          /\ \A i \in 1 .. room : head[i] = data[i]
    <3>1. room <= Len(data)
      BY <1>2, <1>4
    <3> QED
      BY <1>2, <3>1, Cut
  <2>2. d - room \in Nat
    BY <1>4
  <2>3. Copy(b.buffer_, b.writerIndex_, data) = Copy(b.buffer_, b.writerIndex_, head)
    <3>1. room <= Len(data)
      BY <1>2, <1>4
    <3>2. Copy(s, w, data) = Copy(s, w, head)
      <4>1. /\ Len(s) = w + Len(head) /\ Len(head) <= Len(data)
            /\ \A i \in 1 .. Len(head) : head[i] = data[i]
        BY <1>1, <2>1, <3>1
      <4> QED
        BY <4>1, CopyFits
    <3> QED
      BY <1>1, <3>2
  <2>4. PICK full : full = [b EXCEPT !.buffer_ = Copy(b.buffer_, b.writerIndex_, head),
                                     !.writerIndex_ = b.writerIndex_ + Len(head)]
    OBVIOUS
  <2>5. received(b, data) = append(full, rest)
    <3>1. b.writerIndex_ + Len(head) = Len(b.buffer_)
      BY <1>1, <2>1
    <3>2. full = [b EXCEPT !.buffer_ = Copy(b.buffer_, b.writerIndex_, data),
                           !.writerIndex_ = Len(b.buffer_)]
      BY <2>3, <2>4, <3>1
    <3> QED
      BY <1>1, <1>2, <1>4, <2>1, <3>2 DEF received
  <2>6. Len(head) <= writableBytes(b)
    BY <1>1, <2>1
  <2>7. /\ Good(full) /\ Len(full.buffer_) = Len(b.buffer_)
        /\ readableBytes(full) = readableBytes(b) + Len(head)
        /\ Content(full) = Content(b) \o head
    BY <2>4, <2>6, FilledIn
  <2>8. PICK c : c = append(full, rest)
    OBVIOUS
  <2>9. /\ Good(c) /\ readableBytes(c) = readableBytes(full) + Len(rest)
        /\ Content(c) = Content(full) \o rest
        /\ Bounded(full, c, Len(rest))
    BY <2>7, <2>8, Appended
  <2>10. readableBytes(c) = readableBytes(b) + Len(data)
    BY <1>1, <1>2, <2>1, <2>2, <2>7, <2>9
  <2>11. Content(c) = Content(b) \o data
    <3>1. (old \o head) \o rest = old \o (head \o rest)
      BY ConcatAssociative
    <3> QED
      BY <1>1, <2>1, <2>7, <2>9, <3>1
  <2>12. Bounded(b, c, Len(data))
    <3>a. readableBytes(full) = n + room /\ readableBytes(b) = n /\ kCheapPrepend \in Nat
      BY <1>1, <2>1, <2>7, BufferAssumption
    <3>b. Len(rest) = d - room /\ Len(data) = d
      BY <1>2, <2>1
    <3>1. Limit(full, Len(rest)) <= Limit(b, Len(data))
      <4>1. /\ Limit(full, Len(rest)) = kCheapPrepend + (n + room) + (d - room) + (d - room)
            /\ Limit(b, Len(data)) = kCheapPrepend + n + d + d
        BY <3>a, <3>b DEF Limit
      <4> QED
        BY <3>a, <4>1
    <3>2. Limit(full, Len(rest)) \in Int /\ Limit(b, Len(data)) \in Int
      BY <2>2, <3>a, <3>b DEF Limit
    <3>3. Len(c.buffer_) \in Nat
      BY <2>9, Sizes
    <3> QED
      BY <2>7, <2>9, <3>1, <3>2, <3>3 DEF Bounded
  <2> QED
    BY <2>5, <2>8, <2>9, <2>10, <2>11, <2>12
<1> QED
  BY <1>3, <1>4

\* Segments of a segment.
LEMMA Nested ==
  ASSUME NEW s \in Seq(Byte), NEW r \in Nat, NEW k \in Nat, NEW n \in Nat,
         n <= k, r + k <= Len(s)
  PROVE  /\ SubSeq(SubSeq(s, r + 1, r + k), 1, n) = SubSeq(s, r + 1, r + n)
         /\ SubSeq(SubSeq(s, r + 1, r + k), n + 1, k)
              = SubSeq(s, (r + n) + 1, (r + n) + (k - n))
<1>1. PICK t \in Seq(Byte) :
        /\ t = SubSeq(s, r + 1, r + k) /\ Len(t) = k
        /\ \A i \in 1 .. k : t[i] = s[r + i]
  BY Segment
<1>2. Len(s) \in Nat /\ r + n <= Len(s) /\ k - n \in Nat /\ r + n \in Nat
      /\ (r + n) + (k - n) = r + k /\ 0 + n = n /\ n + (k - n) = k /\ 0 + 1 = 1
  OBVIOUS
<1>3. SubSeq(t, 1, n) = SubSeq(s, r + 1, r + n)
  <2>1. /\ SubSeq(t, 0 + 1, 0 + n) \in Seq(Byte) /\ Len(SubSeq(t, 0 + 1, 0 + n)) = n
        /\ \A i \in 1 .. n : SubSeq(t, 0 + 1, 0 + n)[i] = t[0 + i]
    BY <1>1, <1>2, Segment
  <2>2. /\ SubSeq(s, r + 1, r + n) \in Seq(Byte) /\ Len(SubSeq(s, r + 1, r + n)) = n
        /\ \A i \in 1 .. n : SubSeq(s, r + 1, r + n)[i] = s[r + i]
    BY <1>2, Segment
  <2>3. \A i \in 1 .. n : t[0 + i] = s[r + i]
    BY <1>1
  <2> QED
    BY <1>2, <2>1, <2>2, <2>3, SeqEqual
<1>4. SubSeq(t, n + 1, k) = SubSeq(s, (r + n) + 1, (r + n) + (k - n))
  <2>1. /\ SubSeq(t, n + 1, n + (k - n)) \in Seq(Byte)
        /\ Len(SubSeq(t, n + 1, n + (k - n))) = k - n
        /\ \A i \in 1 .. k - n : SubSeq(t, n + 1, n + (k - n))[i] = t[n + i]
    BY <1>1, <1>2, Segment
  <2>2. /\ SubSeq(s, (r + n) + 1, (r + n) + (k - n)) \in Seq(Byte)
        /\ Len(SubSeq(s, (r + n) + 1, (r + n) + (k - n))) = k - n
        /\ \A i \in 1 .. k - n :
             SubSeq(s, (r + n) + 1, (r + n) + (k - n))[i] = s[(r + n) + i]
    BY <1>2, Segment
  <2>3. \A i \in 1 .. k - n : t[n + i] = s[(r + n) + i]
    <3> SUFFICES ASSUME NEW i \in 1 .. k - n PROVE t[n + i] = s[(r + n) + i]
      OBVIOUS
    <3>1. n + i \in 1 .. k /\ r + (n + i) = (r + n) + i
      BY <1>2
    <3> QED
      BY <1>1, <3>1
  <2>4. SubSeq(t, n + 1, n + (k - n)) = SubSeq(s, (r + n) + 1, (r + n) + (k - n))
    BY <2>1, <2>2, <2>3, SeqEqual
  <2> QED
    BY <1>2, <2>4
<1> QED
  BY <1>1, <1>3, <1>4

\* What peek shows is a prefix of the content.
LEMMA Peeked ==
  ASSUME NEW b, Good(b), NEW n \in 0 .. readableBytes(b)
  PROVE  peek(b, n) = SubSeq(Content(b), 1, n)
<1>1. PICK s \in Seq(Byte), r \in Nat, k \in Nat :
        /\ b.buffer_ = s /\ b.readerIndex_ = r /\ readableBytes(b) = k
        /\ r + k <= Len(s) /\ Content(b) = SubSeq(s, r + 1, r + k)
  BY Sizes
<1>2. n \in Nat /\ n <= k
  BY <1>1
<1>3. SubSeq(SubSeq(s, r + 1, r + k), 1, n) = SubSeq(s, r + 1, r + n)
  BY <1>1, <1>2, Nested
<1> QED
  BY <1>1, <1>3 DEF peek

\* retrieve drops the first bytes, or all of them.
LEMMA Retrieved ==
  ASSUME NEW b, Good(b), NEW len \in Nat
  PROVE  LET c == retrieve(b, len)
         IN  /\ Good(c) /\ c.buffer_ = b.buffer_ /\ readableBytes(c) <= readableBytes(b)
             /\ Content(c) = IF len < readableBytes(b)
                             THEN SubSeq(Content(b), len + 1, readableBytes(b)) ELSE <<>>
<1>1. PICK s \in Seq(Byte), r \in Nat, k \in Nat :
        /\ b.buffer_ = s /\ b.readerIndex_ = r /\ b.writerIndex_ = r + k
        /\ readableBytes(b) = k /\ r + k <= Len(s) /\ kCheapPrepend <= r
        /\ Content(b) = SubSeq(s, r + 1, r + k)
  BY Sizes
<1>2. b \in Buffers /\ kCheapPrepend \in Nat /\ Len(s) \in Nat
  BY BufferAssumption DEF Good
<1>3. PICK c : c = retrieve(b, len)
  OBVIOUS
<1>4. CASE len < k
  <2>1. c = [b EXCEPT !.readerIndex_ = r + len]
    BY <1>1, <1>3, <1>4 DEF retrieve
  <2>2. c \in Buffers /\ c.buffer_ = s /\ c.readerIndex_ = r + len /\ c.writerIndex_ = r + k
    <3>1. PICK to \in Nat : to = r + len
      OBVIOUS
    <3>2. c = [b EXCEPT !.readerIndex_ = to]
      BY <2>1, <3>1
    <3> QED
      BY <1>1, <1>2, <3>1, <3>2 DEF Buffers
  <2>3. readableBytes(c) = k - len /\ k - len <= k
    BY <1>4, <2>2 DEF readableBytes
  <2>4. kCheapPrepend <= r + len /\ r + len <= r + k
    BY <1>1, <1>2, <1>4
  <2>5. Good(c)
    BY <1>1, <2>2, <2>4 DEF Good, InOrder
  <2>6. Content(c) = SubSeq(s, (r + len) + 1, (r + len) + (k - len))
    BY <2>2, <2>3 DEF Content, peek
  <2>7. SubSeq(SubSeq(s, r + 1, r + k), len + 1, k)
          = SubSeq(s, (r + len) + 1, (r + len) + (k - len))
    BY <1>1, <1>4, Nested
  <2> QED
    BY <1>1, <1>3, <1>4, <2>2, <2>3, <2>5, <2>6, <2>7
<1>5. CASE ~(len < k)
  <2>1. c = [b EXCEPT !.readerIndex_ = kCheapPrepend, !.writerIndex_ = kCheapPrepend]
    BY <1>1, <1>3, <1>5 DEF retrieve, retrieveAll
  <2>2. /\ c \in Buffers /\ c.buffer_ = s /\ c.readerIndex_ = kCheapPrepend
        /\ c.writerIndex_ = kCheapPrepend
    BY <1>1, <1>2, <2>1 DEF Buffers
  <2>3. readableBytes(c) = 0
    BY <1>2, <2>2 DEF readableBytes
  <2>4. kCheapPrepend <= Len(s)
    BY <1>1, <1>2
  <2>5. Good(c)
    BY <1>2, <2>2, <2>4 DEF Good, InOrder
  <2>6. Content(c) \in Seq(Byte) /\ Len(Content(c)) = 0
    BY <2>3, <2>5, Sizes
  <2>7. Content(c) = <<>>
    BY <2>6, EmptySeq
  <2> QED
    BY <1>1, <1>3, <1>5, <2>2, <2>3, <2>5, <2>7
<1> QED
  BY <1>4, <1>5

-----------------------------------------------------------------------------
(* The inductive invariant *)

\* The bound in Fits holds of every state, which bounds the vector: it grows
\* only to hold a content within the bound and one more message.
IInv == TypeOK /\ readableBytes(buf) <= MaxReadable /\ SizeBounded

\* The vector's bound, as one number.
Most == IF initialSize > MaxReadable + MaxMessage THEN initialSize ELSE MaxReadable + MaxMessage

LEMMA Start ==
  /\ Good(newBuffer) /\ readableBytes(newBuffer) = 0 /\ Content(newBuffer) = <<>>
  /\ Len(newBuffer.buffer_) = kCheapPrepend + initialSize
<1>1. kCheapPrepend \in Nat /\ initialSize \in Nat /\ Zero \in Byte
  BY BufferAssumption
<1>2. PICK n \in Nat : n = kCheapPrepend + initialSize
  BY <1>1
<1>z. Zeros(n) \in Seq(Byte) /\ Len(Zeros(n)) = n
  BY <1>1 DEF Zeros
<1>3. PICK s \in Seq(Byte) : s = Zeros(n) /\ Len(s) = n
  BY <1>z
<1>4. PICK b : b = newBuffer
  OBVIOUS
<1>5. /\ b \in Buffers /\ b.buffer_ = s /\ b.readerIndex_ = kCheapPrepend
      /\ b.writerIndex_ = kCheapPrepend
  BY <1>1, <1>2, <1>3, <1>4 DEF newBuffer, Buffers
<1>6. Good(b) /\ readableBytes(b) = 0
  BY <1>1, <1>2, <1>3, <1>5 DEF Good, InOrder, readableBytes
<1>7. Content(b) = <<>>
  BY <1>6, Sizes, EmptySeq
<1> QED
  BY <1>2, <1>3, <1>4, <1>5, <1>6, <1>7

\* A message within the bound leaves the invariant, whichever way it comes in.
LEMMA PutStep ==
  ASSUME IInv, NEW data \in Messages, Fits(data),
         buf' = append(buf, data) \/ buf' = received(buf, data), out' = <<>>
  PROVE  IInv' /\ BQ!Put(data)
<1>1. data \in Seq(Byte) /\ Len(data) <= MaxMessage /\ Len(data) \in Nat
  BY BufferAssumption
<1>2. Good(buf)
  BY DEF IInv, TypeOK, Good
<1>3. /\ Good(buf') /\ readableBytes(buf') = readableBytes(buf) + Len(data)
      /\ Content(buf') = Content(buf) \o data
      /\ Bounded(buf, buf', Len(data))
  BY <1>1, <1>2, Appended, Received
<1>4. out' \in Seq(Byte)
  OBVIOUS
<1>5. TypeOK'
  BY <1>3, <1>4 DEF TypeOK, Good, InOrder
<1>6. readableBytes(buf') <= MaxReadable
  BY <1>3 DEF Fits
<1>7. PICK n \in Nat, d \in Nat, z \in Nat, z1 \in Nat :
        /\ readableBytes(buf) = n /\ Len(data) = d
        /\ Len(buf.buffer_) = z /\ Len(buf'.buffer_) = z1
  BY <1>1, <1>2, <1>3, Sizes
<1>8. {kCheapPrepend, initialSize, MaxReadable, MaxMessage} \subseteq Nat
  BY BufferAssumption
<1>9. z1 = z \/ z1 <= kCheapPrepend + n + d + d
  BY <1>3, <1>7 DEF Bounded, Limit
<1>10. z <= kCheapPrepend + Most /\ n + d <= MaxReadable /\ d <= MaxMessage
  BY <1>1, <1>7 DEF IInv, SizeBounded, Most, Fits
<1>11. z1 <= kCheapPrepend + Most
  BY <1>8, <1>9, <1>10 DEF Most
<1>12. SizeBounded'
  BY <1>7, <1>11 DEF SizeBounded, Most
<1>13. BQ!Put(data)
  BY <1>3 DEF BQ!Put
<1> QED
  BY <1>5, <1>6, <1>12, <1>13 DEF IInv

\* Retrieving leaves the invariant.
LEMMA RetrieveStep ==
  ASSUME IInv, NEW len \in Nat, buf' = retrieve(buf, len), out' \in Seq(Byte)
  PROVE  IInv'
<1>1. Good(buf)
  BY DEF IInv, TypeOK, Good
<1>2. /\ Good(buf') /\ buf'.buffer_ = buf.buffer_
      /\ readableBytes(buf') <= readableBytes(buf)
  BY <1>1, Retrieved
<1>3. readableBytes(buf') \in Nat /\ readableBytes(buf) \in Nat /\ MaxReadable \in Nat
  BY <1>1, <1>2, Sizes, BufferAssumption
<1>4. TypeOK'
  BY <1>2 DEF TypeOK, Good, InOrder
<1>5. readableBytes(buf') <= MaxReadable
  BY <1>2, <1>3 DEF IInv
<1>6. SizeBounded'
  BY <1>2 DEF IInv, SizeBounded
<1> QED
  BY <1>4, <1>5, <1>6 DEF IInv

\* A call that leaves the Buffer alone leaves the invariant.
LEMMA ReadOnlyStep ==
  ASSUME IInv, buf' = buf, out' \in Seq(Byte)
  PROVE  IInv'
BY DEF IInv, TypeOK, InOrder, SizeBounded, readableBytes

\* Every call preserves the invariant and is a call on the queue of bytes.
LEMMA Step == IInv /\ [Next]_vars => IInv' /\ [BQ!Next]_BQ!vars
<1> SUFFICES ASSUME IInv, [Next]_vars PROVE IInv' /\ [BQ!Next]_BQ!vars
  OBVIOUS
<1>a. Good(buf)
  BY DEF IInv, TypeOK, Good
<1>b. PICK k \in Nat : readableBytes(buf) = k /\ Len(Content(buf)) = k
  BY <1>a, Sizes
<1>c. \A len \in Lengths \cup {readableBytes(buf)} : len \in Nat
  BY <1>b, BufferAssumption
<1>d. \A n \in 0 .. k : peek(buf, n) = SubSeq(Content(buf), 1, n) /\ peek(buf, n) \in Seq(Byte)
  <2> SUFFICES ASSUME NEW n \in 0 .. k
               PROVE  peek(buf, n) = SubSeq(Content(buf), 1, n) /\ peek(buf, n) \in Seq(Byte)
    OBVIOUS
  <2>1. peek(buf, n) = SubSeq(Content(buf), 1, n)
    BY <1>a, <1>b, Peeked
  <2>2. Content(buf) \in Seq(Byte) /\ Len(Content(buf)) = k
    BY <1>a, <1>b, Sizes
  <2>3. SubSeq(Content(buf), 1, n) \in Seq(Byte)
    BY <2>2, Cut
  <2> QED
    BY <2>1, <2>3
<1>1. ASSUME NEW data \in Messages, Append_(data) \/ ReadFd(data)
      PROVE  IInv' /\ BQ!Next
  BY <1>1, PutStep DEF Append_, ReadFd, BQ!Next
<1>2. ASSUME NEW len \in Lengths \cup {readableBytes(buf)}, Retrieve(len)
      PROVE  IInv' /\ BQ!Next
  <2>1. len \in Nat /\ buf' = retrieve(buf, len) /\ out' = <<>> /\ out' \in Seq(Byte)
    BY <1>2, <1>c DEF Retrieve
  <2>2. Content(buf') = IF len < k THEN SubSeq(Content(buf), len + 1, k) ELSE <<>>
    BY <1>a, <1>b, <2>1, Retrieved
  <2>3. BQ!Discard(len)
    BY <1>b, <2>1, <2>2 DEF BQ!Discard, BQ!Suffix
  <2>4. IInv'
    BY <2>1, RetrieveStep
  <2> QED
    BY <1>2, <1>b, <2>3, <2>4 DEF BQ!Next
<1>3. ASSUME NEW len \in Lengths \cup {readableBytes(buf)}, RetrieveAsString(len)
      PROVE  IInv' /\ BQ!Next
  <2>1. len \in Nat
    BY <1>c
  <2>2. CASE len <= k
    <3>1. out' = peek(buf, len) /\ buf' = retrieve(buf, len)
      BY <1>3, <1>b, <2>1, <2>2 DEF RetrieveAsString
    <3>2. out' = SubSeq(Content(buf), 1, len) /\ out' \in Seq(Byte)
      BY <1>d, <2>1, <2>2, <3>1
    <3>3. Content(buf') = SubSeq(Content(buf), len + 1, k)
      <4>1. Content(buf') = IF len < k THEN SubSeq(Content(buf), len + 1, k) ELSE <<>>
        BY <1>a, <1>b, <2>1, <3>1, Retrieved
      <4>2. CASE len < k
        BY <4>1, <4>2
      <4>3. CASE len = k
        <5>1. PICK t \in Seq(Byte) : t = Content(buf) /\ Len(t) = k
          BY <1>a, <1>b, Sizes
        <5>2. SubSeq(t, k + 1, k) = <<>>
          BY <5>1
        <5> QED
          BY <4>1, <4>3, <5>1, <5>2
      <4> QED
        BY <2>1, <2>2, <4>2, <4>3
    <3>4. BQ!Take(len)
      BY <1>b, <2>2, <3>2, <3>3 DEF BQ!Take, BQ!Prefix, BQ!Suffix
    <3>5. IInv'
      BY <2>1, <3>1, <3>2, RetrieveStep
    <3> QED
      BY <1>3, <1>b, <3>4, <3>5 DEF BQ!Next
  <2>3. CASE ~(len <= k)
    <3>1. out' = <<Space>> /\ buf' = buf
      BY <1>3, <1>b, <2>1, <2>3 DEF RetrieveAsString
    <3>2. out' \in Seq(Byte)
      BY <3>1, BufferAssumption
    <3>3. BQ!Take(len)
      BY <1>b, <2>3, <3>1 DEF BQ!Take
    <3>4. IInv'
      BY <3>1, <3>2, ReadOnlyStep
    <3> QED
      BY <1>3, <1>b, <3>3, <3>4 DEF BQ!Next
  <2> QED
    BY <2>2, <2>3
<1>4. ASSUME NEW n \in 0 .. MaxReadable, WriteFd(n)
      PROVE  IInv' /\ BQ!Next
  <2>1. n \in 0 .. k /\ out' = peek(buf, n) /\ buf' = buf
    BY <1>4, <1>b DEF WriteFd
  <2>2. out' = SubSeq(Content(buf), 1, n) /\ out' \in Seq(Byte) /\ n <= Len(Content(buf))
    BY <1>b, <1>d, <2>1
  <2>3. BQ!Show(n)
    BY <2>1, <2>2 DEF BQ!Show, BQ!Prefix
  <2>4. IInv'
    BY <2>1, <2>2, ReadOnlyStep
  <2> QED
    BY <1>b, <2>1, <2>3, <2>4 DEF BQ!Next
<1>5. CASE FdError
  <2>1. buf' = buf /\ out' = <<>> /\ out' \in Seq(Byte)
    BY <1>5 DEF FdError
  <2>2. IInv'
    BY <2>1, ReadOnlyStep
  <2>3. BQ!Idle
    BY <2>1 DEF BQ!Idle
  <2> QED
    BY <2>2, <2>3 DEF BQ!Next
<1>6. CASE UNCHANGED vars
  <2>1. buf' = buf /\ out' = out
    BY <1>6 DEF vars
  <2>2. IInv'
    BY <2>1, ReadOnlyStep DEF IInv, TypeOK
  <2> QED
    BY <2>1, <2>2 DEF BQ!vars
<1> QED
  BY <1>1, <1>2, <1>3, <1>4, <1>5, <1>6 DEF Next

LEMMA InitIInv == Init => IInv /\ BQ!Init
<1> SUFFICES ASSUME Init PROVE IInv /\ BQ!Init
  OBVIOUS
<1>1. buf = newBuffer /\ out = <<>> /\ out \in Seq(Byte)
  BY DEF Init
<1>2. {kCheapPrepend, initialSize, MaxReadable, MaxMessage} \subseteq Nat
  BY BufferAssumption
<1>3. /\ Good(buf) /\ readableBytes(buf) = 0 /\ Content(buf) = <<>>
      /\ Len(buf.buffer_) = kCheapPrepend + initialSize
  BY <1>1, Start
<1>4. TypeOK
  BY <1>1, <1>3 DEF TypeOK, Good
<1>5. SizeBounded
  BY <1>2, <1>3 DEF SizeBounded
<1>6. BQ!Init
  BY <1>1, <1>3 DEF BQ!Init
<1> QED
  BY <1>2, <1>3, <1>4, <1>5, <1>6 DEF IInv

LEMMA Invariance == Spec => []IInv
<1>1. Init => IInv
  BY InitIInv
<1>2. IInv /\ [Next]_vars => IInv'
  BY Step
<1> QED
  BY <1>1, <1>2, PTL DEF Spec

-----------------------------------------------------------------------------
(* Theorems *)

\* The indexes keep their order, so no size_t difference ever goes below zero.
THEOREM IndexesInOrder == Spec => []TypeOK
<1>1. IInv => TypeOK
  BY DEF IInv
<1> QED
  BY <1>1, Invariance, PTL

\* The vector of a connection whose unread bytes are bounded is bounded.
THEOREM VectorIsBounded == Spec => []SizeBounded
<1>1. IInv => SizeBounded
  BY DEF IInv
<1> QED
  BY <1>1, Invariance, PTL

\* The vector with its two indexes is a FIFO queue of bytes.
THEOREM Refinement == Spec => ImplementsByteQueue
<1>1. Init => BQ!Init
  BY InitIInv
<1>2. IInv /\ [Next]_vars => [BQ!Next]_BQ!vars
  BY Step
<1> QED
  BY <1>1, <1>2, Invariance, PTL DEF Spec, ImplementsByteQueue, BQ!Spec
=============================================================================

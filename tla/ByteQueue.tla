----------------------------- MODULE ByteQueue ------------------------------
(***************************************************************************)
(* What a Buffer promises its owner: an unbounded FIFO queue of bytes.     *)
(* There are no indexes, no spare room and no copying here.  Buffer.tla    *)
(* is shown to implement this specification.                               *)
(***************************************************************************)
EXTENDS Sequences, Integers

CONSTANTS
  Messages,   \* the byte strings that can be put in
  Lengths,    \* the lengths the owner may ask for
  Refusal     \* what a call that asks for too much returns

VARIABLES
  content,    \* the bytes in the queue, oldest first
  out         \* what the last call gave to its caller, or to the fd

vars == <<content, out>>

Prefix(n) == SubSeq(content, 1, n)
Suffix(n) == SubSeq(content, n + 1, Len(content))

Init == content = <<>> /\ out = <<>>

Put(data) == content' = content \o data /\ out' = <<>>

\* Bytes are shown to the fd and stay in the queue until they are discarded.
Show(n) == n <= Len(content) /\ out' = Prefix(n) /\ content' = content

\* Asking to discard more than there is discards everything.
Discard(n) ==
  /\ content' = IF n < Len(content) THEN Suffix(n) ELSE <<>>
  /\ out' = <<>>

\* Asking to take more than there is takes nothing.
Take(n) ==
  IF n <= Len(content)
  THEN out' = Prefix(n) /\ content' = Suffix(n)
  ELSE out' = Refusal /\ content' = content

Idle == content' = content /\ out' = <<>>

Next ==
  \/ \E data \in Messages : Put(data)
  \/ \E n \in Lengths \cup {Len(content)} : Discard(n) \/ Take(n)
  \/ \E n \in 0 .. Len(content) : Show(n)
  \/ Idle

Spec == Init /\ [][Next]_vars
=============================================================================

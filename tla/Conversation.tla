---------------------------- MODULE Conversation ----------------------------
(***************************************************************************)
(* What a TcpConnection promises its user: two streams that keep their     *)
(* order, a write-complete callback (if the user has set one) owed when    *)
(* the output has drained and paid before the connection ends, our end of  *)
(* stream behind the last byte of output, and one end, which leaves        *)
(* nothing unread of a connection that is still reading.                   *)
(*                                                                         *)
(* There is no channel, no event and no error here.  The n-th byte of a    *)
(* stream is the number n.                                                 *)
(***************************************************************************)
EXTENDS Naturals, Sequences

CONSTANT notifies   \* is there a write-complete callback?

VARIABLES
  phase,      \* "connecting", "up", "closing" (we have asked to) or "ended"
  reading,    \* is the input still wanted?
  arrived,    \* bytes of the peer that wait to be read
  delivered,  \* bytes of the peer that were read
  waiting,    \* bytes of the user that wait to be written
  taken,      \* bytes of the user that were written
  owed,       \* write-complete callbacks to come
  fin         \* has our stream been ended?

input  == <<arrived, delivered>>
output == <<waiting, taken, owed, fin>>
vars == <<phase, reading, input, output>>

Init ==
  /\ phase = "connecting" /\ reading = FALSE
  /\ arrived = <<>> /\ delivered = <<>>
  /\ waiting = <<>> /\ taken = <<>> /\ owed = 0 /\ fin = FALSE

Established == phase \in {"up", "closing"}

Open ==
  /\ phase = "connecting" /\ phase' = "up"
  /\ reading' = TRUE
  /\ UNCHANGED <<input, output>>

\* The peer does not know what became of us.
PeerWrites ==
  /\ arrived' = Append(arrived, Len(delivered) + Len(arrived) + 1)
  /\ UNCHANGED <<phase, reading, delivered, output>>

Deliver ==
  /\ Established /\ reading
  /\ \E n \in 1 .. Len(arrived) :
       /\ delivered' = delivered \o SubSeq(arrived, 1, n)
       /\ arrived' = SubSeq(arrived, n + 1, Len(arrived))
  /\ UNCHANGED <<phase, reading, output>>

Send ==
  /\ phase = "up"
  /\ waiting' = Append(waiting, Len(taken) + Len(waiting) + 1)
  /\ UNCHANGED <<phase, reading, input, taken, owed, fin>>

\* A part of the output is written, or all of it: then a callback is owed, and
\* our stream ends if that was asked for.  (The interest in the input may be
\* lost there: Channel.hpp:65.)
Transmit ==
  /\ Established /\ ~fin
  /\ \E n \in 1 .. Len(waiting) :
       /\ taken' = taken \o SubSeq(waiting, 1, n)
       /\ waiting' = SubSeq(waiting, n + 1, Len(waiting))
  /\ \/ waiting' # <<>> /\ UNCHANGED <<reading, owed, fin>>
     \/ /\ waiting' = <<>> /\ owed' = IF notifies THEN owed + 1 ELSE owed
        /\ fin' = (phase = "closing")
        /\ reading' \in {reading, FALSE}
  /\ UNCHANGED <<phase, input>>

Complete ==
  /\ Established /\ owed > 0
  /\ owed' = owed - 1
  /\ UNCHANGED <<phase, reading, input, waiting, taken, fin>>

Shutdown ==
  /\ phase = "up" /\ phase' = "closing"
  /\ fin' = (waiting = <<>>)
  /\ UNCHANGED <<reading, input, waiting, taken, owed>>

End ==
  /\ Established /\ phase' = "ended"
  /\ owed = 0 /\ (reading => arrived = <<>>)
  /\ reading' = FALSE
  /\ UNCHANGED <<input, output>>

Next ==
  \/ Open \/ PeerWrites \/ Deliver \/ Send \/ Transmit \/ Complete \/ Shutdown \/ End

Spec == Init /\ [][Next]_vars
=============================================================================

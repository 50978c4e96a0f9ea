--------------------------- MODULE ChannelEvents ----------------------------
(***************************************************************************)
(* What Channel.cc does with a set of epoll events: the masks of its       *)
(* setters, and which handler each event calls.                            *)
(***************************************************************************)
EXTENDS Sequences

kReadEvent  == {"IN", "PRI"}
kWriteEvent == {"OUT"}

\* As in EventLoop.tla, operators named ...Bug are slips in the operator after
\* them; no specification uses them.  This one forgets !(revents_ & EPOLLIN).
TriggeredBug(callback, revents) ==
  CASE callback = "close" -> "HUP" \in revents
    [] callback = "error" -> "ERR" \in revents
    [] callback = "read"  -> revents \cap {"IN", "PRI"} # {}
    [] callback = "write" -> "OUT" \in revents

Triggered(callback, revents) ==
  CASE callback = "close" -> "HUP" \in revents /\ "IN" \notin revents
    [] callback = "error" -> "ERR" \in revents
    [] callback = "read"  -> revents \cap {"IN", "PRI"} # {}
    [] callback = "write" -> "OUT" \in revents

=============================================================================

----------------------------- MODULE ServedLoop -----------------------------
(***************************************************************************)
(* What an EventLoopThread promises the one thread that owns it: the loop  *)
(* is handed over once, when it can be used; it is served until somebody   *)
(* quits it; and as long as nobody else does, it is the owner's own quit,  *)
(* its last use, that ends the thread the owner then joins.                *)
(***************************************************************************)

VARIABLES
  place,   \* where the loop's thread is
  quit,    \* has the loop been told to leave?
  owner,   \* where the owner is
  stray    \* has anyone but the owner's destructor told it to?

vars == <<place, quit, owner, stray>>

Init == place = "none" /\ quit = FALSE /\ owner = "idle" /\ stray = FALSE

-----------------------------------------------------------------------------
(* The owner *)

Start ==
  /\ owner = "idle" /\ owner' = "waiting"
  /\ place' = "starting"
  /\ UNCHANGED <<quit, stray>>

\* A loop that can be used, or waited for.
InService == place \in {"published", "looping"}

Return ==
  /\ owner = "waiting" /\ owner' = "using"
  /\ InService
  /\ UNCHANGED <<place, quit, stray>>

Quit ==
  /\ owner = "using" /\ owner' = "joining"
  /\ InService
  /\ quit' = TRUE
  /\ UNCHANGED <<place, stray>>

Join ==
  /\ owner = "joining" /\ owner' = "gone"
  /\ place = "dead"
  /\ UNCHANGED <<place, quit, stray>>

\* An object that has no thread: it was never started, or could not be.
Discard ==
  /\ owner = "idle" /\ owner' = "gone"
  /\ UNCHANGED <<place, quit, stray>>

\* A loop that somebody else has quit may have gone from under its owner.
Abandon ==
  /\ owner = "using" /\ owner' = "gone"
  /\ stray
  /\ UNCHANGED <<place, quit, stray>>

-----------------------------------------------------------------------------
(* The thread *)

Publish ==
  /\ place = "starting" /\ place' = "published"
  /\ UNCHANGED <<quit, owner, stray>>

\* A quit that came before is forgotten.
EnterLoop ==
  /\ place = "published" /\ place' = "looping"
  /\ quit' = FALSE
  /\ UNCHANGED <<owner, stray>>

LeaveLoop ==
  /\ place = "looping" /\ place' = "dead"
  /\ quit
  /\ UNCHANGED <<quit, owner, stray>>

UserQuit ==
  /\ place \notin {"none", "dead"}
  /\ quit' = TRUE /\ stray' = TRUE
  /\ UNCHANGED <<place, owner>>

Next ==
  \/ Start \/ Return \/ Quit \/ Join \/ Discard \/ Abandon
  \/ Publish \/ EnterLoop \/ LeaveLoop \/ UserQuit

Spec == Init /\ [][Next]_vars
=============================================================================

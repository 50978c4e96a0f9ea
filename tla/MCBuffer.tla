------------------------------ MODULE MCBuffer ------------------------------
(* Instances of Buffer for TLC: two bytes beside 0 and ' ', messages up to     *)
(* three bytes long.                                                           *)
EXTENDS Buffer, SequencesExt

MCByte == {0, 32, 1, 2}
MCMessages == SeqOf({1, 2}, 3)
MCLengths == 0 .. 4
=============================================================================

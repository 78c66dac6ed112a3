---------------------------- MODULE MCSharedPipe ----------------------------
(***************************************************************************)
(* SharedPipe for TLC: a ring of a few cells, so that every transfer can   *)
(* wrap around and the ring is full and empty many times in one behaviour. *)
(***************************************************************************)
EXTENDS SharedPipe

LengthsUpTo3 == 1..3
AllModes == {"blocking", "poll", "ready"}
BlockingOnly == {"blocking"}
=============================================================================

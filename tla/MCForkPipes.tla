----------------------------- MODULE MCForkPipes -----------------------------
(***************************************************************************)
(* Two pipes, two descriptors for each process and three threads: a        *)
(* process that forks twice, or forks a child with two threads, or has     *)
(* three threads.                                                          *)
(***************************************************************************)
EXTENDS ForkPipes
=============================================================================

----------------------------- MODULE MCPipePool -----------------------------
(***************************************************************************)
(* PipePool for TLC: three workers and a pool of a few words, so that they *)
(* race for the last region as well as for the first.                      *)
(***************************************************************************)
EXTENDS PipePool

CONSTANTS w1, w2, w3

ThreeWorkers == {w1, w2, w3}
TwoSizes == {4, 8}
=============================================================================

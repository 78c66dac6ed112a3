---------------------------- MODULE MCInstanceRun ----------------------------
(***************************************************************************)
(* InstanceRun for TLC.                                                    *)
(***************************************************************************)
EXTENDS InstanceRun
=============================================================================

--------------------------- MODULE MCSchedulerPool ---------------------------
(***************************************************************************)
(* SchedulerPool for TLC: two or three jobs, which wait for each other.    *)
(***************************************************************************)
EXTENDS SchedulerPool

CONSTANTS j1, j2, j3

TwoJobs == {j1, j2}
ThreeJobs == {j1, j2, j3}

AllKinds == j1 :> "async" @@ j2 :> "wasm" @@ j3 :> "sleep"
TwoBlocking == j1 :> "blocking" @@ j2 :> "blocking"

NoTwoWaits == [j \in TwoJobs |-> {}]
\* The wasm job waits for the async one and both for the sleep.  The relation is
\* transitive, so StuckAtStart and HeldUp see what a job waits for in the end.
Chain == j1 :> {j3} @@ j2 :> {j1, j3} @@ j3 :> {}
=============================================================================

----------------------------- MODULE MCHostExec -----------------------------
(***************************************************************************)
(* HostExec for TLC: one program with two sessions of two messages each.   *)
(***************************************************************************)
EXTENDS HostExec

CONSTANT w1

OneWorker == {w1}
OneSession == 1..1
TwoSessions == 1..2
AllOps == {"read", "try_read", "poll"}
OnlyRead == {"read"}

\* Nothing is claimed of what follows an early answer but TypeOK and
\* PendingMeansEmpty, which are proved: the run stops at the first one.
UntilEarly == ~early

=============================================================================

--------------------------- MODULE BoundedStream ---------------------------
(***************************************************************************)
(* What a SharedPipe promises to the two processes that use it: a stream   *)
(* of bytes that is delivered in the order in which it was accepted, with  *)
(* no byte lost, duplicated or invented, never holding more than Limit     *)
(* bytes, and accepting nothing once it has been shut.                     *)
(*                                                                         *)
(* The bytes of the stream are numbered: the k-th byte accepted is k, so   *)
(* that a sequence of delivered bytes shows every loss or reordering.      *)
(***************************************************************************)
EXTENDS Integers, Sequences

CONSTANT Limit     \* the most bytes accepted and not yet delivered

VARIABLES accepted,   \* how many bytes write calls have been told they wrote
          delivered,  \* the bytes read calls have returned, in order
          shut        \* TRUE once the write side has signalled end-of-file

svars == <<accepted, delivered, shut>>

\* Bytes first .. first + n - 1 of the stream.
StreamSlice(first, n) == [i \in 1..n |-> first + i - 1]

Init == /\ accepted = 0
        /\ delivered = <<>>
        /\ shut = FALSE

\* A write returns Ok(n): the writer may have been overtaken by nothing but
\* its own close, so the stream is still open.
Accept(n) ==
    /\ ~shut
    /\ accepted + n - Len(delivered) <= Limit
    /\ accepted' = accepted + n
    /\ UNCHANGED <<delivered, shut>>

\* A read returns n > 0 bytes: the oldest ones not delivered yet.
Deliver(n) ==
    /\ Len(delivered) + n <= accepted
    /\ delivered' = delivered \o StreamSlice(Len(delivered) + 1, n)
    /\ UNCHANGED <<accepted, shut>>

Shut == /\ shut' = TRUE
        /\ UNCHANGED <<accepted, delivered>>

Next == \/ \E n \in 1..Limit : Accept(n) \/ Deliver(n)
        \/ Shut

Spec == Init /\ [][Next]_svars
=============================================================================

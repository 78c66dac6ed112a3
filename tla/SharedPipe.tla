----------------------------- MODULE SharedPipe -----------------------------
(***************************************************************************)
(* One SharedPipe of src/pipes/mod.rs: a ring buffer in a region of the    *)
(* SharedArrayBuffer pool, one transmit end (SharedPipeTx) used by one     *)
(* worker and one receive end (SharedPipeRx) used by another.              *)
(*                                                                         *)
(* The header words are read and written with Atomics, and the data bytes  *)
(* with plain Uint8Array accesses.  Each access is a step of its own, in   *)
(* program order, so the two ends interleave as two workers do.            *)
(*                                                                         *)
(* The bytes a writer sends are numbered 1, 2, ...: the value in a cell    *)
(* tells which byte of the stream it holds.                                *)
(***************************************************************************)
EXTENDS Integers, Sequences

CONSTANTS Capacity,    \* data_capacity: buffer_size - HEADER_SIZE
          Lengths,     \* lengths of the slices given to write and read calls
          ReadModes,   \* the read entry points the reader uses
          MaxBytes     \* bound: bytes the writer tries to send in all

ASSUME PipeAssumption ==
    /\ Capacity \in Nat \ {0}
    /\ Lengths \subseteq Nat
    /\ ReadModes \subseteq {"blocking", "poll", "ready"}
    /\ MaxBytes \in Nat

VARIABLES
    write_pos, read_pos, closed,   \* the header words
    data,                          \* the ring, cells 0 .. Capacity - 1
    t,                             \* the transmit end's program counter and locals
    r,                             \* the receive end's program counter and locals
    sent,                          \* bytes for which write_data has published Ok
    got,                           \* bytes returned by the read calls, in order
    eof                            \* a read has returned 0 bytes for end-of-file

header == <<write_pos, read_pos, closed>>
vars == <<write_pos, read_pos, closed, data, t, r, sent, got, eof>>

-----------------------------------------------------------------------------
(* Arithmetic of the ring.                                                 *)

Least(a, b) == IF a <= b THEN a ELSE b

(* Faulty variants of a definition stand just before it, named after it:   *)
(* each run is repeated with such a variant to see its properties fail.    *)

\* Without the cell that tells a full ring from an empty one.
free_space_NoGap(wp, rp) == IF wp >= rp THEN Capacity - (wp - rp) ELSE rp - wp

\* SharedPipeTx::free_space, from the two words as they were loaded.
free_space(wp, rp) == IF wp >= rp THEN Capacity - (wp - rp) - 1 ELSE rp - wp - 1

\* The wrapped case forgotten.
data_available_NoWrap(wp, rp) == IF wp >= rp THEN wp - rp ELSE 0

\* SharedPipeRx::data_available, from the two words as they were loaded.
data_available(wp, rp) == IF wp >= rp THEN wp - rp ELSE Capacity - rp + wp

\* The cell of the i-th byte of a transfer that starts at pos: the first
\* chunk runs to the end of the ring, the second one from its start.
Cell(pos, i) == IF i < Capacity - pos THEN pos + i ELSE i - (Capacity - pos)

\* The position stored after a transfer of n bytes.
Advance(pos, n) == (pos + n) % Capacity

-----------------------------------------------------------------------------
TxSteps == {"idle", "load_wp", "load_rp", "base", "store", "publish",
            "notify", "close", "close_notify", "dropped"}
RxSteps == {"idle", "load_wp", "load_rp", "closed1", "closed2", "base",
            "load", "publish", "enter", "wait"}

Init ==
    /\ write_pos = 0 /\ read_pos = 0 /\ closed = 0
    /\ data = [c \in 0..Capacity - 1 |-> 0]
    /\ t = [pc |-> "idle", len |-> 0, wp |-> 0, n |-> 0, base |-> 0, i |-> 0]
    /\ r = [pc |-> "idle", mode |-> "blocking", len |-> 0, wp |-> 0, n |-> 0,
            base |-> 0, i |-> 0, buf |-> <<>>, late |-> FALSE]
    /\ sent = 0 /\ got = <<>> /\ eof = FALSE

-----------------------------------------------------------------------------
(* The transmit end.                                                       *)

\* The closed flag not looked at.
WriteCall_NoClosedCheck(len) ==
    /\ t.pc = "idle"
    /\ len > 0 /\ sent + len <= MaxBytes
    /\ t' = [t EXCEPT !.pc = "load_wp", !.len = len]
    /\ UNCHANGED <<header, data, r, sent, got, eof>>

\* write_data and poll_write, up to the load of the closed flag.  A closed
\* pipe is BrokenPipe and an empty slice Ok(0): neither changes anything.
WriteCall(len) ==
    /\ t.pc = "idle"
    /\ closed = 0 /\ len > 0 /\ sent + len <= MaxBytes
    /\ t' = [t EXCEPT !.pc = "load_wp", !.len = len]
    /\ UNCHANGED <<header, data, r, sent, got, eof>>

TxLoadWritePos ==
    /\ t.pc = "load_wp"
    /\ t' = [t EXCEPT !.pc = "load_rp", !.wp = write_pos]
    /\ UNCHANGED <<header, data, r, sent, got, eof>>

\* free_space's second load.  With no room the call is WouldBlock, which
\* poll_write turns into Pending.
TxLoadReadPos ==
    /\ t.pc = "load_rp"
    /\ LET free == free_space(t.wp, read_pos)
       IN t' = IF free = 0
               THEN [t EXCEPT !.pc = "idle"]
               ELSE [t EXCEPT !.pc = "base", !.n = Least(t.len, free)]
    /\ UNCHANGED <<header, data, r, sent, got, eof>>

\* write_pos stored before the bytes are.
TxLoadBase_PublishFirst ==
    /\ t.pc = "base"
    /\ write_pos' = Advance(write_pos, t.n)
    /\ t' = [t EXCEPT !.pc = "store", !.base = write_pos, !.i = 0]
    /\ UNCHANGED <<read_pos, closed, data, r, sent, got, eof>>

TxLoadBase ==
    /\ t.pc = "base"
    /\ t' = [t EXCEPT !.pc = "store", !.base = write_pos, !.i = 0]
    /\ UNCHANGED <<header, data, r, sent, got, eof>>

TxStoreByte ==
    /\ t.pc = "store"
    /\ data' = [data EXCEPT ![Cell(t.base, t.i)] = sent + t.i + 1]
    /\ t' = [t EXCEPT !.i = t.i + 1,
                      !.pc = IF t.i + 1 = t.n THEN "publish" ELSE "store"]
    /\ UNCHANGED <<header, r, sent, got, eof>>

TxPublish ==
    /\ t.pc = "publish"
    /\ write_pos' = Advance(t.base, t.n)
    /\ sent' = sent + t.n
    /\ t' = [t EXCEPT !.pc = "notify"]
    /\ UNCHANGED <<read_pos, closed, data, r, got, eof>>

\* Atomics.notify wakes the reader only if it is in Atomics.wait by now.
Woken == IF r.pc = "wait" THEN [r EXCEPT !.pc = "load_wp"] ELSE r

TxNotify ==
    /\ t.pc = "notify"
    /\ t' = [t EXCEPT !.pc = "idle"]
    /\ r' = Woken
    /\ UNCHANGED <<header, data, sent, got, eof>>

\* close: by poll_shutdown, after which the end can still be used, or by the
\* Drop of the last transmit end.
TxClose(last) ==
    /\ t.pc = "idle"
    /\ closed' = 1
    /\ t' = [t EXCEPT !.pc = IF last THEN "close_notify" ELSE "notify"]
    /\ UNCHANGED <<write_pos, read_pos, data, r, sent, got, eof>>

TxCloseNotify ==
    /\ t.pc = "close_notify"
    /\ t' = [t EXCEPT !.pc = "dropped"]
    /\ r' = Woken
    /\ UNCHANGED <<header, data, sent, got, eof>>

-----------------------------------------------------------------------------
(* The receive end.  "blocking" is read_blocking, "poll" is poll_read and  *)
(* "ready" is poll_read_ready, which only looks.                           *)

\* late remembers that the pipe was already closed when the call was made.
ReadCall(mode, len) ==
    /\ r.pc = "idle" /\ len > 0
    /\ r' = [r EXCEPT !.pc = "load_wp", !.mode = mode, !.len = len,
                      !.late = (closed = 1)]
    /\ UNCHANGED <<header, data, t, sent, got, eof>>

RxLoadWritePos ==
    /\ r.pc = "load_wp"
    /\ r' = [r EXCEPT !.pc = "load_rp", !.wp = write_pos]
    /\ UNCHANGED <<header, data, t, sent, got, eof>>

RxLoadReadPos ==
    /\ r.pc = "load_rp"
    /\ LET available == data_available(r.wp, read_pos)
       IN r' = IF available = 0 THEN [r EXCEPT !.pc = "closed1"]
               ELSE IF r.mode = "ready" THEN [r EXCEPT !.pc = "idle"]
               ELSE [r EXCEPT !.pc = "base", !.n = Least(r.len, available)]
    /\ UNCHANGED <<header, data, t, sent, got, eof>>

\* The closed flag is loaded after the ring was found empty: by try_read,
\* then once more by its caller; poll_read_ready loads it once.
RxLoadClosed ==
    /\ r.pc \in {"closed1", "closed2"}
    /\ r' = [r EXCEPT !.pc = IF closed = 1 THEN "idle"
                             ELSE IF r.pc = "closed1" /\ r.mode # "ready"
                             THEN "closed2" ELSE "enter"]
    /\ eof' = (eof \/ (closed = 1 /\ r.mode # "ready"))
    /\ UNCHANGED <<header, data, t, sent, got>>

\* read_pos stored before the bytes are copied out.
RxLoadBase_ReleaseFirst ==
    /\ r.pc = "base"
    /\ read_pos' = Advance(read_pos, r.n)
    /\ r' = [r EXCEPT !.pc = "load", !.base = read_pos, !.i = 0, !.buf = <<>>]
    /\ UNCHANGED <<write_pos, closed, data, t, sent, got, eof>>

RxLoadBase ==
    /\ r.pc = "base"
    /\ r' = [r EXCEPT !.pc = "load", !.base = read_pos, !.i = 0, !.buf = <<>>]
    /\ UNCHANGED <<header, data, t, sent, got, eof>>

RxLoadByte ==
    /\ r.pc = "load"
    /\ r' = [r EXCEPT !.buf = Append(r.buf, data[Cell(r.base, r.i)]),
                      !.i = r.i + 1,
                      !.pc = IF r.i + 1 = r.n THEN "publish" ELSE "load"]
    /\ UNCHANGED <<header, data, t, sent, got, eof>>

RxPublish ==
    /\ r.pc = "publish"
    /\ read_pos' = Advance(r.base, r.n)
    /\ got' = got \o r.buf
    /\ r' = [r EXCEPT !.pc = "idle"]
    /\ UNCHANGED <<write_pos, closed, data, t, sent, eof>>

\* Into Atomics.wait: the notify word never changes, so its value is always
\* the expected one and the call waits, whatever was notified before.
RxEnterWait ==
    /\ r.pc = "enter"
    /\ r' = [r EXCEPT !.pc = "wait"]
    /\ UNCHANGED <<header, data, t, sent, got, eof>>

\* Atomics.wait without a timeout.
RxTimeout_Never == /\ FALSE
                   /\ UNCHANGED vars

\* The timeout of Atomics.wait: the call looks again.
RxTimeout ==
    /\ r.pc = "wait"
    /\ r' = [r EXCEPT !.pc = "load_wp"]
    /\ UNCHANGED <<header, data, t, sent, got, eof>>

\* poll_read and poll_read_ready return Pending after max_wait_iterations.
RxGiveUp ==
    /\ r.pc = "wait" /\ r.mode # "blocking"
    /\ r' = [r EXCEPT !.pc = "idle"]
    /\ UNCHANGED <<header, data, t, sent, got, eof>>

-----------------------------------------------------------------------------
TxInternal == \/ TxLoadWritePos \/ TxLoadReadPos \/ TxLoadBase \/ TxStoreByte
              \/ TxPublish \/ TxNotify \/ TxCloseNotify

RxInternal == \/ RxLoadWritePos \/ RxLoadReadPos \/ RxLoadClosed \/ RxLoadBase
              \/ RxLoadByte \/ RxPublish \/ RxEnterWait \/ RxTimeout

Tx == \/ \E len \in Lengths : WriteCall(len)
      \/ \E last \in BOOLEAN : TxClose(last)
      \/ TxInternal

Rx == \/ \E mode \in ReadModes, len \in Lengths : ReadCall(mode, len)
      \/ RxInternal
      \/ RxGiveUp

Next == Tx \/ Rx

Spec == Init /\ [][Next]_vars

\* A worker that has entered a call runs it to its end, an Atomics.wait with a
\* timeout returns, and the reader reads again and again, as the loop that
\* copies a child's output does, whatever it polls in between.  The writer owes
\* no further call.
FairSpec == /\ Spec
            /\ WF_vars(TxInternal)
            /\ WF_vars(RxInternal)
            /\ SF_vars(\E len \in Lengths : ReadCall("blocking", len))

-----------------------------------------------------------------------------
TypeOK ==
    /\ write_pos \in 0..Capacity - 1
    /\ read_pos \in 0..Capacity - 1
    /\ closed \in {0, 1}
    /\ data \in [0..Capacity - 1 -> Nat]
    /\ t \in [pc : TxSteps, len : Nat, wp : 0..Capacity - 1, n : Nat,
              base : 0..Capacity - 1, i : Nat]
    /\ r \in [pc : RxSteps, mode : {"blocking", "poll", "ready"}, len : Nat,
              wp : 0..Capacity - 1, n : Nat, base : 0..Capacity - 1, i : Nat,
              buf : Seq(Nat), late : BOOLEAN]
    /\ sent \in Nat /\ got \in Seq(Nat) /\ eof \in BOOLEAN

\* The cells a write call still has to store, and those a read call still
\* has to load.
Writing == IF t.pc = "store" THEN {Cell(t.base, i) : i \in t.i .. t.n - 1} ELSE {}
Reading == IF r.pc = "load" THEN {Cell(r.base, i) : i \in r.i .. r.n - 1} ELSE {}

\* The claim of the Safety comment above "unsafe impl Send": the writer and
\* the reader never access the same location at the same time, although the
\* data bytes are accessed without Atomics and each end works from positions
\* it loaded several steps ago.
NoOverlap == Writing \cap Reading = {}

\* A byte that a write call reported as written is in the ring until a read
\* returns it, with its value, whatever the other end is in the middle of;
\* in particular a full ring is never taken for an empty one.
RingHoldsTheRest ==
    LET held == data_available(write_pos, read_pos)
    IN /\ sent = Len(got) + held
       /\ \A i \in 0..held - 1 : data[Cell(read_pos, i)] = Len(got) + i + 1

\* Reads return the bytes in the order they were written, none twice.
InOrder == \A i \in 1..Len(got) : got[i] = i

\* The pipe implements the bounded stream of BoundedStream: a write takes
\* effect at the store of write_pos, a read at the store of read_pos.
Stream == INSTANCE BoundedStream
          WITH Limit <- Capacity - 1, accepted <- sent, delivered <- got,
               shut <- (closed = 1)
StreamSpec == Stream!Spec

\* A read that is called when the pipe is already closed reports end-of-file
\* only if nothing is left: closing does not cut off what was written before.
LateEofIsFinal ==
    [][(r.pc \in {"closed1", "closed2"} /\ r.late /\ r'.pc = "idle")
          => Len(got) = sent]_vars

\* What the "// EOF" of try_read and read_blocking says of returning 0 bytes:
\* the stream is at its end, so no byte that was written is still to come.
EofMeansEnd ==
    [][(eof' /\ ~eof) => Len(got) = sent]_vars

\* Closing the pipe ends a blocked read, even when the notification arrives
\* between the reader's last look at the closed flag and its Atomics.wait.
CloseEndsReads == (closed = 1) ~> eof

\* A byte reported as written is returned by some later read.
Delivered == \A k \in 1..MaxBytes : (sent >= k) ~> (Len(got) >= k)
-----------------------------------------------------------------------------
(* The inductive invariant behind the safety properties: what each end may *)
(* rely on at each of its steps, although the other end moves meanwhile.   *)

Held == data_available(write_pos, read_pos)

\* Only this end moves write_pos, and the reader only makes more room: the
\* room computed from a stale read_pos is still there when it is used.
TxInv ==
    /\ t.pc \in {"load_wp", "load_rp"} => t.len >= 1
    /\ t.pc \in {"load_rp", "base"} => t.wp = write_pos
    /\ t.pc \in {"base", "store", "publish"} =>
         t.n >= 1 /\ Held + t.n <= Capacity - 1
    /\ t.pc \in {"store", "publish"} =>
         /\ t.base = write_pos
         /\ IF t.pc = "store" THEN t.i < t.n ELSE t.i = t.n
         /\ \A j \in 0..t.i - 1 : data[Cell(t.base, j)] = sent + j + 1
    /\ closed = 1 => t.pc \in {"idle", "notify", "close_notify", "dropped"}

\* Only this end moves read_pos, and the writer only adds bytes: what was
\* available from a stale write_pos still is.
RxInv ==
    /\ r.pc # "idle" => r.len >= 1
    /\ r.pc = "load_rp" => data_available(r.wp, read_pos) <= Held
    /\ r.pc \in {"base", "load", "publish"} => r.n >= 1 /\ r.n <= Held
    /\ r.pc \in {"load", "publish"} =>
         /\ r.base = read_pos /\ Len(r.buf) = r.i
         /\ IF r.pc = "load" THEN r.i < r.n ELSE r.i = r.n
         /\ \A j \in 1..r.i : r.buf[j] = Len(got) + j
    /\ r.late => closed = 1
    /\ r.late /\ r.pc = "load_rp" => r.wp = write_pos
    /\ r.late /\ r.pc \in {"closed1", "closed2"} => sent = Len(got)

\* The inductive invariant, checked by TLC and proved in SharedPipeProofs.
IInv == TypeOK /\ RingHoldsTheRest /\ InOrder /\ TxInv /\ RxInv
=============================================================================

-------------------------- MODULE SharedPipeProofs --------------------------
(***************************************************************************)
(* Proofs about SharedPipe for every capacity, every set of lengths and    *)
(* every number of bytes: the arithmetic of the ring, then the inductive   *)
(* invariant IInv, then the properties that follow from it.                *)
(***************************************************************************)
EXTENDS SharedPipe, SequenceTheorems, TLAPS

Pos == 0..Capacity - 1

-----------------------------------------------------------------------------
(* The arithmetic of the ring.                                             *)

\* One lap at most: Advance is an addition that wraps once.
LEMMA AdvanceWraps ==
  ASSUME NEW p \in Pos, NEW n \in 0..Capacity
  PROVE  Advance(p, n) = IF p + n < Capacity THEN p + n ELSE p + n - Capacity
<1>1. CASE p + n < Capacity
  BY <1>1, PipeAssumption DEF Advance, Pos
<1>2. CASE p + n >= Capacity
  BY <1>2, PipeAssumption DEF Advance, Pos
<1> QED
  BY <1>1, <1>2, PipeAssumption DEF Pos

\* A transfer of n bytes from p ends at a position, its cells are cells of
\* the ring and two of its bytes never share a cell.
LEMMA CellInRing ==
  ASSUME NEW p \in Pos, NEW i \in 0..Capacity - 1
  PROVE  /\ Cell(p, i) \in Pos
         /\ \A j \in 0..Capacity - 1 : Cell(p, i) = Cell(p, j) => i = j
BY PipeAssumption DEF Cell, Pos

\* A transfer ends at a position of the ring.
LEMMA AdvanceInRing ==
  ASSUME NEW p \in Pos, NEW n \in 0..Capacity
  PROVE  Advance(p, n) \in Pos
BY AdvanceWraps, PipeAssumption DEF Pos

\* The two views of the ring agree: what is not held, less one cell, is free.
LEMMA FreeIsNotHeld ==
  ASSUME NEW w \in Pos, NEW p \in Pos
  PROVE  /\ data_available(w, p) \in 0..Capacity - 1
         /\ free_space(w, p) = Capacity - 1 - data_available(w, p)
BY PipeAssumption DEF data_available, free_space, Pos

\* Moving the write position by n into the free space adds n bytes.
LEMMA AdvanceWriter ==
  ASSUME NEW w \in Pos, NEW p \in Pos, NEW n \in Nat,
         data_available(w, p) + n <= Capacity - 1
  PROVE  data_available(Advance(w, n), p) = data_available(w, p) + n
<1>1. n \in 0..Capacity
  BY PipeAssumption, FreeIsNotHeld
<1> QED
  BY <1>1, AdvanceWraps, PipeAssumption DEF data_available, Pos

\* Moving the read position by n over held bytes removes n bytes, and the
\* rest are found from the new position.
LEMMA AdvanceReader ==
  ASSUME NEW w \in Pos, NEW p \in Pos, NEW n \in 0..data_available(w, p)
  PROVE  /\ data_available(w, Advance(p, n)) = data_available(w, p) - n
         /\ \A i \in Nat : n + i < Capacity
                             => Cell(Advance(p, n), i) = Cell(p, n + i)
<1>1. n \in 0..Capacity
  BY PipeAssumption, FreeIsNotHeld
<1> QED
  BY <1>1, AdvanceWraps, PipeAssumption DEF data_available, Cell, Pos

\* The cells a writer fills are those that follow the held ones.
LEMMA WriterCells ==
  ASSUME NEW w \in Pos, NEW p \in Pos, NEW i \in Nat,
         data_available(w, p) + i <= Capacity - 1
  PROVE  Cell(w, i) = Cell(p, data_available(w, p) + i)
BY PipeAssumption DEF data_available, Cell, Pos
-----------------------------------------------------------------------------
(* Steps that touch only the locals of one end.                            *)

TxLocals == [pc : TxSteps, len : Nat, wp : Pos, n : Nat, base : Pos, i : Nat]
RxLocals == [pc : RxSteps, mode : {"blocking", "poll", "ready"}, len : Nat,
             wp : Pos, n : Nat, base : Pos, i : Nat, buf : Seq(Nat),
             late : BOOLEAN]

\* The ring holds at most Capacity - 1 bytes, and the rest is the free space.
LEMMA HeldRange ==
  ASSUME TypeOK
  PROVE  /\ Held \in 0..Capacity - 1
         /\ free_space(write_pos, read_pos) = Capacity - 1 - Held
BY FreeIsNotHeld DEF TypeOK, Held, Pos

\* What TypeOK says of each part of the state.
LEMMA Types ==
  ASSUME TypeOK
  PROVE  /\ write_pos \in Pos /\ read_pos \in Pos /\ data \in [Pos -> Nat]
         /\ t \in TxLocals /\ t.len \in Nat /\ t.wp \in Pos /\ t.n \in Nat
         /\ t.base \in Pos /\ t.i \in Nat
         /\ r \in RxLocals /\ r.len \in Nat /\ r.wp \in Pos /\ r.n \in Nat
         /\ r.base \in Pos /\ r.i \in Nat /\ r.buf \in Seq(Nat)
         /\ sent \in Nat /\ got \in Seq(Nat) /\ Len(got) \in Nat
BY DEF TypeOK, TxLocals, RxLocals, Pos

\* The cells after the held ones are the writer's next cells.
LEMMA NextCells ==
  ASSUME TypeOK, NEW i \in Nat, Held + i <= Capacity - 1
  PROVE  Cell(write_pos, i) = Cell(read_pos, Held + i)
BY Types, WriterCells DEF Held

\* A step of the transmit end that changes only t is judged by TxInv alone.
LEMMA TxLocalStep ==
  ASSUME IInv, UNCHANGED <<header, data, r, sent, got, eof>>,
         t' \in TxLocals, TxInv'
  PROVE  IInv'
BY DEF header, TxLocals, Pos, Held, IInv, TypeOK, RingHoldsTheRest, InOrder, RxInv

\* A step of the receive end that changes only r, or sets eof, is judged by
\* RxInv alone.
LEMMA RxLocalStep ==
  ASSUME IInv, UNCHANGED <<header, data, t, sent, got>>, eof' \in BOOLEAN,
         r' \in RxLocals, RxInv'
  PROVE  IInv'
BY DEF header, RxLocals, Pos, Held, IInv, TypeOK, RingHoldsTheRest, InOrder, TxInv

\* A write call begins only on an open pipe, with bytes to write.
LEMMA WriteCallStep ==
  ASSUME IInv, NEW len \in Lengths, WriteCall(len)
  PROVE  IInv'
<1>1. t' \in TxLocals
  BY PipeAssumption DEF WriteCall, TxLocals, TxSteps, Pos, IInv, TypeOK
<1>2. len >= 1
  BY PipeAssumption DEF WriteCall
<1>4. closed' = 0
  BY DEF WriteCall, header
<1>5. t'.pc = "load_wp" /\ t'.len = len
  BY DEF WriteCall, IInv, TypeOK
<1>3. TxInv'
  BY <1>2, <1>4, <1>5 DEF TxInv
<1> QED
  BY <1>1, <1>3, TxLocalStep DEF WriteCall

\* The write_pos loaded is current: only this end stores it.
LEMMA TxLoadWritePosStep ==
  ASSUME IInv, TxLoadWritePos
  PROVE  IInv'
<1>1. t' \in TxLocals
  BY DEF TxLoadWritePos, TxLocals, TxSteps, Pos, IInv, TypeOK
<1>2. TxInv'
  BY DEF TxLoadWritePos, header, Held, IInv, TypeOK, TxInv
<1> QED
  BY <1>1, <1>2, TxLocalStep DEF TxLoadWritePos

\* The room is computed from the current read_pos: it fits.
LEMMA TxLoadReadPosStep ==
  ASSUME IInv, TxLoadReadPos
  PROVE  IInv'
<1> DEFINE free == free_space(t.wp, read_pos)
<1>1. free = Capacity - 1 - Held /\ free \in Nat
  BY PipeAssumption, HeldRange DEF TxLoadReadPos, IInv, TxInv
<1>2. CASE free = 0
  <2>1. t' = [t EXCEPT !.pc = "idle"]
    BY <1>2 DEF TxLoadReadPos
  <2>2. t' \in TxLocals
    BY <2>1 DEF TxLocals, TxSteps, Pos, IInv, TypeOK
  <2>3. TxInv'
    BY <2>1 DEF TxLoadReadPos, header, Held, IInv, TypeOK, TxInv
  <2> QED
    BY <2>2, <2>3, TxLocalStep DEF TxLoadReadPos
<1>3. CASE free # 0 /\ t.len >= 1
  <2>1. t' = [t EXCEPT !.pc = "base", !.n = Least(t.len, free)]
    BY <1>3 DEF TxLoadReadPos
  <2>2. Least(t.len, free) \in Nat /\ Least(t.len, free) >= 1
        /\ Least(t.len, free) <= free
    <3>1. t.len \in Nat
      BY Types DEF IInv, TxLocals
    <3> HIDE DEF free
    <3> QED
      BY <1>1, <1>3, <3>1 DEF Least
  <2>3. t' \in TxLocals
    <3>1. t \in TxLocals
      BY Types DEF IInv
    <3> HIDE DEF free
    <3> QED
      BY <2>1, <2>2, <3>1 DEF TxLocals, TxSteps
  <2>4. Held' = Held /\ Held \in Nat
    BY HeldRange DEF TxLoadReadPos, header, Held, IInv
  <2>5. /\ t'.pc = "base" /\ t'.wp = write_pos' /\ closed' # 1
        /\ t'.n >= 1 /\ Held' + t'.n <= Capacity - 1
    <3>1. t.pc = "load_rp" /\ t.wp = write_pos /\ write_pos' = write_pos /\ closed' = closed
      BY DEF TxLoadReadPos, header, IInv, TxInv
    <3>2. t'.pc = "base" /\ t'.wp = t.wp /\ t'.n = Least(t.len, free)
      BY <2>1 DEF IInv, TypeOK
    <3>3. closed # 1
      BY <3>1 DEF IInv, TxInv
    <3> HIDE DEF free
    <3> QED
      BY <1>1, <2>2, <2>4, <3>1, <3>2, <3>3, PipeAssumption
  <2>6. TxInv'
    BY <2>5 DEF TxInv
  <2> QED
    BY <2>3, <2>6, TxLocalStep DEF TxLoadReadPos
<1> QED
  BY <1>1, <1>2, <1>3 DEF TxLoadReadPos, IInv, TxInv, TypeOK

\* write_pos is loaded again for the base, and is still what it was.
LEMMA TxLoadBaseStep ==
  ASSUME IInv, TxLoadBase
  PROVE  IInv'
<1>1. t' \in TxLocals
  BY DEF TxLoadBase, TxLocals, TxSteps, Pos, IInv, TypeOK
<1>2. TxInv'
  BY DEF TxLoadBase, header, Held, IInv, TypeOK, TxInv
<1> QED
  BY <1>1, <1>2, TxLocalStep DEF TxLoadBase

\* Storing a byte in a free cell disturbs neither the held bytes nor the
\* bytes this call has stored before.
LEMMA TxStoreByteStep ==
  ASSUME IInv, TxStoreByte
  PROVE  IInv'
<1> DEFINE c == Cell(t.base, t.i)
<1>1. /\ t.pc = "store" /\ t.base = write_pos /\ t.base \in Pos
      /\ t.i \in Nat /\ t.n \in Nat /\ t.i < t.n /\ Held + t.n <= Capacity - 1
      /\ Held \in 0..Capacity - 1
  BY HeldRange DEF TxStoreByte, IInv, TxInv, TypeOK, Pos
<1>2. t.i \in 0..Capacity - 1 /\ c \in Pos
  BY <1>1, CellInRing, PipeAssumption
<1>3. /\ t'.pc = (IF t.i + 1 = t.n THEN "publish" ELSE "store")
      /\ t'.i = t.i + 1 /\ t'.n = t.n /\ t'.base = t.base /\ t'.wp = t.wp
      /\ t' \in TxLocals
  <2>1. t \in TxLocals /\ t.i + 1 \in Nat
    BY <1>1, Types DEF IInv
  <2>2. t' = [t EXCEPT !.i = t.i + 1,
                       !.pc = IF t.i + 1 = t.n THEN "publish" ELSE "store"]
    BY DEF TxStoreByte
  <2> QED
    BY <2>1, <2>2 DEF TxLocals, TxSteps
<1>4. /\ data' = [data EXCEPT ![c] = sent + t.i + 1]
      /\ data \in [Pos -> Nat] /\ sent \in Nat
  BY DEF TxStoreByte, IInv, TypeOK, Pos
<1>5. data' \in [Pos -> Nat]
  BY <1>1, <1>2, <1>4
<1>6. /\ UNCHANGED <<write_pos, read_pos, closed, r, sent, got, eof>>
      /\ Held' = Held
  BY DEF TxStoreByte, header, Held
<1>7. TypeOK'
  BY <1>3, <1>5, <1>6 DEF IInv, TypeOK, TxLocals, Pos
<1>8. RingHoldsTheRest'
  <2>1. ASSUME NEW i \in 0..Held - 1
        PROVE  data'[Cell(read_pos, i)] = Len(got) + i + 1
    <3>1. c = Cell(read_pos, Held + t.i)
      <4>1. TypeOK /\ t.i \in Nat /\ Held + t.i <= Capacity - 1
        BY <1>1, PipeAssumption DEF IInv
      <4> QED
        BY <1>1, <4>1, NextCells
    <3>2. i \in 0..Capacity - 1 /\ Held + t.i \in 0..Capacity - 1 /\ i # Held + t.i
      BY <1>1, PipeAssumption
    <3>3. Cell(read_pos, i) # c /\ Cell(read_pos, i) \in Pos
      BY <3>1, <3>2, CellInRing, Types DEF IInv
    <3> QED
      BY <1>2, <1>4, <3>3 DEF IInv, RingHoldsTheRest, Held
  <2> QED
    BY <1>6, <2>1 DEF IInv, RingHoldsTheRest, Held
<1>9. TxInv'
  <2>1. \A j \in 0..t.i : data'[Cell(t.base, j)] = sent + j + 1
    <3> SUFFICES ASSUME NEW j \in 0..t.i
                 PROVE  data'[Cell(t.base, j)] = sent + j + 1
      OBVIOUS
    <3>1. CASE j = t.i
      BY <1>2, <1>4, <3>1
    <3>2. CASE j # t.i
      <4>1. j \in 0..t.i - 1 /\ j \in 0..Capacity - 1
        BY <1>1, <1>2, <3>2, PipeAssumption
      <4>2. Cell(t.base, j) # c /\ Cell(t.base, j) \in Pos
        BY <1>1, <1>2, <3>2, <4>1, CellInRing
      <4> QED
        BY <1>1, <1>2, <1>4, <4>1, <4>2 DEF IInv, TxInv
    <3> QED
      BY <3>1, <3>2
  <2>2. closed # 1
    BY <1>1 DEF IInv, TxInv
  <2>3. t'.n >= 1 /\ (IF t'.pc = "store" THEN t'.i < t'.n ELSE t'.i = t'.n)
    BY <1>1, <1>3
  <2>4. \A j \in 0..t'.i - 1 : data'[Cell(t'.base, j)] = sent' + j + 1
    BY <1>1, <1>3, <1>6, <2>1
  <2> QED
    BY <1>1, <1>3, <1>6, <2>2, <2>3, <2>4 DEF TxInv
<1>10. RxInv' /\ InOrder'
  BY <1>6 DEF IInv, RxInv, InOrder
<1> QED
  BY <1>7, <1>8, <1>9, <1>10 DEF IInv

\* Publishing makes the stored bytes the youngest held ones.
LEMMA TxPublishStep ==
  ASSUME IInv, TxPublish
  PROVE  IInv'
<1>1. /\ t.pc = "publish" /\ t.base = write_pos /\ write_pos \in Pos
      /\ read_pos \in Pos /\ t.i = t.n /\ t.n \in Nat /\ t.n >= 1
      /\ Held + t.n <= Capacity - 1 /\ Held \in 0..Capacity - 1
      /\ sent \in Nat /\ Len(got) \in Nat /\ sent = Len(got) + Held
  <2>1. sent = Len(got) + Held
    BY DEF IInv, RingHoldsTheRest, Held
  <2> QED
    BY <2>1, HeldRange, Types DEF TxPublish, IInv, TxInv
<1>2. /\ write_pos' = Advance(write_pos, t.n) /\ sent' = sent + t.n
      /\ UNCHANGED <<read_pos, closed, data, r, got, eof>>
      /\ t'.pc = "notify" /\ t' \in TxLocals
  BY <1>1 DEF TxPublish, IInv, TypeOK, TxLocals, TxSteps, Pos
<1>3. Held' = Held + t.n
  BY <1>1, <1>2, AdvanceWriter DEF Held
<1>4. write_pos' \in Pos
  BY <1>1, <1>2, AdvanceInRing, PipeAssumption
<1>5. TypeOK'
  <2>1. sent + t.n \in Nat
    BY <1>1
  <2> QED
    BY <1>2, <1>4, <2>1 DEF IInv, TypeOK, TxLocals, Pos
<1>6. RingHoldsTheRest'
  <2> SUFFICES ASSUME NEW i \in 0..Held + t.n - 1
               PROVE  data[Cell(read_pos, i)] = Len(got) + i + 1
    BY <1>1, <1>2, <1>3 DEF RingHoldsTheRest, Held
  <2>1. CASE i < Held
    BY <1>1, <2>1 DEF IInv, RingHoldsTheRest, Held
  <2>2. CASE i >= Held
    <3>1. i - Held \in 0..t.i - 1 /\ i - Held \in Nat /\ Held + (i - Held) = i
      BY <1>1, <2>2
    <3>2. data[Cell(write_pos, i - Held)] = sent + (i - Held) + 1
      BY <1>1, <3>1 DEF IInv, TxInv
    <3>3. Cell(write_pos, i - Held) = Cell(read_pos, Held + (i - Held))
      <4>1. TypeOK /\ Held + (i - Held) <= Capacity - 1
        BY <1>1, <3>1, PipeAssumption DEF IInv
      <4> QED
        BY <3>1, <4>1, NextCells
    <3> QED
      BY <1>1, <3>1, <3>2, <3>3
  <2> QED
    BY <1>1, <2>1, <2>2
<1>7. TxInv'
  BY <1>2 DEF TxInv
<1>8. RxInv'
  <2>1. r.pc \in {"base", "load", "publish"} => r.n <= Held'
    <3>1. r.n \in Nat
      BY Types DEF IInv
    <3>2. r.pc \in {"base", "load", "publish"} => r.n <= Held
      BY DEF IInv, RxInv
    <3> QED
      BY <1>1, <1>3, <3>1, <3>2
  <2>2. r.pc = "load_rp" => data_available(r.wp, read_pos) <= Held'
    <3>1. data_available(r.wp, read_pos) \in 0..Capacity - 1
      BY FreeIsNotHeld, Types DEF IInv
    <3>2. r.pc = "load_rp" => data_available(r.wp, read_pos) <= Held
      BY DEF IInv, RxInv
    <3> QED
      BY <1>1, <1>3, <3>1, <3>2
  <2>3. ~r.late
    BY <1>1 DEF IInv, RxInv, TxInv
  <2> QED
    BY <1>2, <2>1, <2>2, <2>3 DEF IInv, RxInv
<1>9. InOrder'
  BY <1>2 DEF IInv, InOrder
<1> QED
  BY <1>5, <1>6, <1>7, <1>8, <1>9 DEF IInv

\* A notification moves a waiting reader back to the top of its loop.
LEMMA WokenReader ==
  ASSUME IInv, r' = Woken, UNCHANGED <<write_pos, read_pos, closed, sent, got>>
  PROVE  r' \in RxLocals /\ RxInv'
<1>1. Held' = Held
  BY DEF Held
<1>2. CASE r.pc = "wait"
  <2>1. r' = [r EXCEPT !.pc = "load_wp"]
    BY <1>2 DEF Woken
  <2>2. r' \in RxLocals /\ r'.pc = "load_wp" /\ r'.len = r.len /\ r'.late = r.late
    BY <2>1 DEF IInv, TypeOK, RxLocals, RxSteps, Pos
  <2> QED
    BY <1>2, <2>2 DEF IInv, RxInv
<1>3. CASE r.pc # "wait"
  <2>1. r' = r
    BY <1>3 DEF Woken
  <2> QED
    BY <1>1, <2>1 DEF IInv, RxInv, TypeOK, RxLocals, Pos
<1> QED
  BY <1>2, <1>3

\* A notification after a write or a close changes only the waiting reader.
LEMMA TxNotifyStep ==
  ASSUME IInv, TxNotify \/ TxCloseNotify
  PROVE  IInv'
<1>1. /\ UNCHANGED <<write_pos, read_pos, closed, data, sent, got, eof>>
      /\ r' = Woken
  BY DEF TxNotify, TxCloseNotify, header
<1>2. t'.pc \in {"idle", "dropped"} /\ t' \in TxLocals
  BY DEF TxNotify, TxCloseNotify, IInv, TypeOK, TxLocals, TxSteps, Pos
<1>3. r' \in RxLocals /\ RxInv'
  BY <1>1, WokenReader
<1>4. TxInv'
  BY <1>2 DEF TxInv
<1>5. TypeOK' /\ RingHoldsTheRest' /\ InOrder'
  BY <1>1, <1>2, <1>3 DEF IInv, TypeOK, RingHoldsTheRest, InOrder, TxLocals, RxLocals, Pos
<1> QED
  BY <1>3, <1>4, <1>5 DEF IInv

\* close is called between writes, so no write is under way when the flag is set.
LEMMA TxCloseStep ==
  ASSUME IInv, NEW last \in BOOLEAN, TxClose(last)
  PROVE  IInv'
<1>1. /\ UNCHANGED <<write_pos, read_pos, data, r, sent, got, eof>>
      /\ closed' = 1 /\ Held' = Held
  BY DEF TxClose, Held
<1>2. t'.pc \in {"close_notify", "notify"} /\ t' \in TxLocals
  BY DEF TxClose, IInv, TypeOK, TxLocals, TxSteps, Pos
<1>3. TxInv'
  BY <1>2 DEF TxInv
<1>4. RxInv'
  BY <1>1 DEF IInv, RxInv
<1>5. TypeOK' /\ RingHoldsTheRest' /\ InOrder'
  BY <1>1, <1>2 DEF IInv, TypeOK, RingHoldsTheRest, InOrder, TxLocals, Pos
<1> QED
  BY <1>3, <1>4, <1>5 DEF IInv

\* A read call begins, and remembers whether the pipe was closed by then.
LEMMA ReadCallStep ==
  ASSUME IInv, NEW mode \in ReadModes, NEW len \in Lengths, ReadCall(mode, len)
  PROVE  IInv'
<1>1. len \in Nat /\ len >= 1 /\ mode \in {"blocking", "poll", "ready"}
  BY PipeAssumption DEF ReadCall
<1>2. r \in RxLocals
  BY Types DEF IInv
<1>3. r' = [r EXCEPT !.pc = "load_wp", !.mode = mode, !.len = len,
                     !.late = (closed = 1)]
  BY DEF ReadCall
<1>4. /\ r' \in RxLocals /\ r'.pc = "load_wp" /\ r'.len = len
      /\ r'.late = (closed = 1)
  BY <1>1, <1>2, <1>3 DEF RxLocals, RxSteps
<1>5. closed' = closed
  BY DEF ReadCall, header
<1>6. RxInv'
  BY <1>1, <1>4, <1>5 DEF RxInv
<1>7. eof' \in BOOLEAN
  BY DEF ReadCall, IInv, TypeOK
<1> QED
  BY <1>4, <1>6, <1>7, RxLocalStep DEF ReadCall

\* The write_pos loaded may be stale at once, but only by bytes added since;
\* on a closed pipe it is final.
LEMMA RxLoadWritePosStep ==
  ASSUME IInv, RxLoadWritePos
  PROVE  IInv'
<1>1. /\ r.pc = "load_wp" /\ r \in RxLocals /\ write_pos \in Pos
      /\ r' = [r EXCEPT !.pc = "load_rp", !.wp = write_pos]
  BY Types DEF RxLoadWritePos, IInv
<1>2. /\ r' \in RxLocals /\ r'.pc = "load_rp" /\ r'.wp = write_pos
      /\ r'.len = r.len /\ r'.late = r.late
  BY <1>1 DEF RxLocals, RxSteps
<1>3. UNCHANGED <<write_pos, read_pos, closed>> /\ eof' \in BOOLEAN
  BY DEF RxLoadWritePos, header, IInv, TypeOK
<1>4. Held \in 0..Capacity - 1 /\ data_available(r'.wp, read_pos') = Held /\ Held' = Held
  BY <1>2, <1>3, HeldRange DEF Held, IInv
<1>5. RxInv'
  <2>1. data_available(r'.wp, read_pos') <= Held'
    BY <1>4, PipeAssumption
  <2>2. r.len >= 1 /\ (r.late => closed = 1)
    BY <1>1 DEF IInv, RxInv
  <2> QED
    BY <1>2, <1>3, <2>1, <2>2 DEF RxInv
<1> QED
  BY <1>2, <1>3, <1>5, RxLocalStep DEF RxLoadWritePos

\* Whatever is available from the stale write_pos is still held, and a late
\* reader, whose write_pos is not stale, finds the ring empty only at the end.
LEMMA RxLoadReadPosStep ==
  ASSUME IInv, RxLoadReadPos
  PROVE  IInv'
<1> DEFINE available == data_available(r.wp, read_pos)
<1>1. /\ r.pc = "load_rp" /\ r \in RxLocals /\ r.len \in Nat /\ r.len >= 1
      /\ available \in Nat /\ available <= Held /\ sent = Len(got) + Held
      /\ Held \in Nat
  <2>1. available \in 0..Capacity - 1
    BY FreeIsNotHeld, Types DEF IInv
  <2>2. r.pc = "load_rp"
    BY DEF RxLoadReadPos
  <2>3. available <= Held /\ r.len >= 1
    BY <2>2 DEF IInv, RxInv
  <2>4. sent = Len(got) + Held
    BY DEF IInv, RingHoldsTheRest, Held
  <2> HIDE DEF available
  <2> QED
    BY <2>1, <2>2, <2>3, <2>4, HeldRange, Types DEF IInv
<1>2. /\ UNCHANGED <<write_pos, read_pos, closed, sent, got>> /\ eof' \in BOOLEAN
      /\ Held' = Held
  BY DEF RxLoadReadPos, header, IInv, TypeOK, Held
<1>3. CASE available = 0
  <2>1. r' = [r EXCEPT !.pc = "closed1"]
    BY <1>3 DEF RxLoadReadPos
  <2>2. /\ r' \in RxLocals /\ r'.pc = "closed1" /\ r'.len = r.len
        /\ r'.late = r.late
    BY <1>1, <2>1 DEF RxLocals, RxSteps
  <2>3. r.late => closed = 1 /\ sent = Len(got)
    <3>1. r.late => closed = 1 /\ r.wp = write_pos
      BY <1>1 DEF IInv, RxInv
    <3>2. r.late => Held = 0
      BY <1>3, <3>1 DEF Held
    <3> QED
      BY <1>1, <3>1, <3>2, Types DEF IInv
  <2>4. RxInv'
    BY <1>1, <1>2, <2>2, <2>3 DEF RxInv
  <2> QED
    BY <1>2, <2>2, <2>4, RxLocalStep DEF RxLoadReadPos
<1>4. CASE available # 0 /\ r.mode = "ready"
  <2>1. r' = [r EXCEPT !.pc = "idle"]
    BY <1>4 DEF RxLoadReadPos
  <2>2. r' \in RxLocals /\ r'.pc = "idle" /\ r'.late = r.late
    BY <1>1, <2>1 DEF RxLocals, RxSteps
  <2>3. RxInv'
    BY <1>2, <2>2 DEF IInv, RxInv
  <2> QED
    BY <1>2, <2>2, <2>3, RxLocalStep DEF RxLoadReadPos
<1>5. CASE available # 0 /\ r.mode # "ready"
  <2>1. r' = [r EXCEPT !.pc = "base", !.n = Least(r.len, available)]
    BY <1>5 DEF RxLoadReadPos
  <2>2. Least(r.len, available) \in Nat /\ Least(r.len, available) >= 1
        /\ Least(r.len, available) <= Held
    BY <1>1, <1>5 DEF Least
  <2>3. /\ r' \in RxLocals /\ r'.pc = "base" /\ r'.late = r.late
        /\ r'.len = r.len /\ r'.n = Least(r.len, available)
    BY <1>1, <2>1, <2>2 DEF RxLocals, RxSteps
  <2>4. r.late => closed = 1
    BY DEF IInv, RxInv
  <2>5. RxInv'
    BY <1>1, <1>2, <2>2, <2>3, <2>4 DEF RxInv
  <2> QED
    BY <1>2, <2>3, <2>5, RxLocalStep DEF RxLoadReadPos
<1> QED
  BY <1>3, <1>4, <1>5

\* The closed flag is loaded: the call ends, looks again or waits.
LEMMA RxLoadClosedStep ==
  ASSUME IInv, RxLoadClosed
  PROVE  IInv'
<1>1. /\ r \in RxLocals /\ r.pc \in {"closed1", "closed2"}
      /\ r' = [r EXCEPT !.pc = IF closed = 1 THEN "idle"
                               ELSE IF r.pc = "closed1" /\ r.mode # "ready"
                               THEN "closed2" ELSE "enter"]
  BY Types DEF RxLoadClosed, IInv
<1>2. /\ r' \in RxLocals /\ r'.pc \in {"idle", "closed2", "enter"}
      /\ r'.len = r.len /\ r'.late = r.late
  BY <1>1 DEF RxLocals, RxSteps
<1>3. UNCHANGED <<write_pos, read_pos, closed, sent, got>> /\ eof' \in BOOLEAN
  BY DEF RxLoadClosed, header, IInv, TypeOK
<1>4. r.len >= 1 /\ (r.late => closed = 1 /\ sent = Len(got))
  BY <1>1 DEF IInv, RxInv
<1>5. RxInv'
  BY <1>2, <1>3, <1>4 DEF RxInv
<1> QED
  BY <1>2, <1>3, <1>5, RxLocalStep DEF RxLoadClosed

\* read_pos is loaded again for the base, and is still what it was.
LEMMA RxLoadBaseStep ==
  ASSUME IInv, RxLoadBase
  PROVE  IInv'
<1>1. /\ r \in RxLocals /\ r.pc = "base" /\ read_pos \in Pos
      /\ r' = [r EXCEPT !.pc = "load", !.base = read_pos, !.i = 0, !.buf = <<>>]
  BY Types DEF RxLoadBase, IInv
<1>2. /\ r' \in RxLocals /\ r'.pc = "load" /\ r'.len = r.len /\ r'.late = r.late
      /\ r'.n = r.n /\ r'.i = 0 /\ r'.base = read_pos /\ r'.buf = <<>>
  <2>1. <<>> \in Seq(Nat)
    BY EmptySeq
  <2> QED
    BY <1>1, <2>1 DEF RxLocals, RxSteps
<1>3. /\ UNCHANGED <<write_pos, read_pos, closed, sent, got>> /\ eof' \in BOOLEAN
      /\ Held' = Held
  BY DEF RxLoadBase, header, IInv, TypeOK, Held
<1>4. r.len >= 1 /\ r.n >= 1 /\ r.n <= Held /\ (r.late => closed = 1) /\ r.n \in Nat
  BY <1>1, Types DEF IInv, RxInv
<1>5. r'.i < r'.n /\ Len(r'.buf) = r'.i
  BY <1>2, <1>4
<1>6. RxInv'
  BY <1>2, <1>3, <1>4, <1>5 DEF RxInv
<1> QED
  BY <1>2, <1>3, <1>6, RxLocalStep DEF RxLoadBase

\* The byte loaded is the next one of the stream.
LEMMA RxLoadByteStep ==
  ASSUME IInv, RxLoadByte
  PROVE  IInv'
<1> DEFINE b == data[Cell(r.base, r.i)]
<1>1. /\ r \in RxLocals /\ r.pc = "load" /\ r.base = read_pos /\ read_pos \in Pos
      /\ r.i \in Nat /\ r.n \in Nat /\ r.i < r.n /\ r.n <= Held
      /\ Held \in 0..Capacity - 1 /\ Len(got) \in Nat /\ r.buf \in Seq(Nat)
      /\ Len(r.buf) = r.i /\ r.len >= 1 /\ (r.late => closed = 1)
  BY Types, HeldRange DEF RxLoadByte, IInv, RxInv
<1>2. b = Len(got) + r.i + 1
  <2>1. \A i \in 0..Held - 1 : data[Cell(read_pos, i)] = Len(got) + i + 1
    BY DEF IInv, RingHoldsTheRest, Held
  <2>2. r.i \in 0..Held - 1
    BY <1>1
  <2> QED
    BY <1>1, <2>1, <2>2
<1>3. r' = [r EXCEPT !.buf = Append(r.buf, b), !.i = r.i + 1,
                     !.pc = IF r.i + 1 = r.n THEN "publish" ELSE "load"]
  BY DEF RxLoadByte
<1>4. /\ Append(r.buf, b) \in Seq(Nat) /\ Len(Append(r.buf, b)) = r.i + 1
      /\ \A j \in 1..r.i : Append(r.buf, b)[j] = r.buf[j]
      /\ Append(r.buf, b)[r.i + 1] = b
  <2>1. b \in Nat
    BY <1>1, <1>2
  <2> HIDE DEF b
  <2> QED
    BY <1>1, <2>1, AppendProperties
<1> HIDE DEF b
<1>5. /\ r' \in RxLocals /\ r'.buf = Append(r.buf, b) /\ r'.i = r.i + 1
      /\ r'.pc = (IF r.i + 1 = r.n THEN "publish" ELSE "load") /\ r'.n = r.n
      /\ r'.base = r.base /\ r'.len = r.len /\ r'.late = r.late
  <2> DEFINE nbuf == Append(r.buf, b)
  <2>1. nbuf \in Seq(Nat) /\ r.i + 1 \in Nat /\ r \in RxLocals
    BY <1>1, <1>4
  <2>2. r' = [r EXCEPT !.buf = nbuf, !.i = r.i + 1,
                       !.pc = IF r.i + 1 = r.n THEN "publish" ELSE "load"]
    BY <1>3
  <2> HIDE DEF nbuf
  <2>3. /\ r' \in RxLocals /\ r'.buf = nbuf /\ r'.i = r.i + 1
        /\ r'.pc = (IF r.i + 1 = r.n THEN "publish" ELSE "load") /\ r'.n = r.n
        /\ r'.base = r.base /\ r'.len = r.len /\ r'.late = r.late
    BY <2>1, <2>2 DEF RxLocals, RxSteps
  <2> QED
    BY <2>3 DEF nbuf
<1>6. /\ UNCHANGED <<write_pos, read_pos, closed, sent, got>> /\ eof' \in BOOLEAN
      /\ Held' = Held
  BY DEF RxLoadByte, header, IInv, TypeOK, Held
<1>7. \A j \in 1..r'.i : r'.buf[j] = Len(got) + j
  <2>1. \A j \in 1..r.i : r.buf[j] = Len(got) + j
    BY <1>1 DEF IInv, RxInv
  <2>2. ASSUME NEW j \in 1..r.i + 1
        PROVE  r'.buf[j] = Len(got) + j
    <3>1. CASE j = r.i + 1
      BY <1>1, <1>2, <1>4, <1>5, <3>1
    <3>2. CASE j # r.i + 1
      <4>1. j \in 1..r.i
        BY <1>1, <3>2
      <4> QED
        BY <1>4, <1>5, <2>1, <4>1
    <3> QED
      BY <3>1, <3>2
  <2> QED
    BY <1>5, <2>2
<1>8. /\ r'.pc \in {"load", "publish"} /\ r'.n >= 1 /\ r'.n <= Held
      /\ IF r'.pc = "load" THEN r'.i < r'.n ELSE r'.i = r'.n
  BY <1>1, <1>5
<1>9. RxInv'
  BY <1>1, <1>4, <1>5, <1>6, <1>7, <1>8 DEF RxInv
<1> QED
  BY <1>5, <1>6, <1>9, RxLocalStep DEF RxLoadByte

\* Publishing read_pos hands over the oldest held bytes; the rest stay held.
LEMMA RxPublishStep ==
  ASSUME IInv, RxPublish
  PROVE  IInv'
<1>1. /\ r \in RxLocals /\ r.pc = "publish" /\ r.base = read_pos /\ read_pos \in Pos
      /\ write_pos \in Pos /\ r.n \in Nat /\ r.n >= 1 /\ r.n <= Held
      /\ Held \in 0..Capacity - 1 /\ r.buf \in Seq(Nat) /\ Len(r.buf) = r.n
      /\ got \in Seq(Nat) /\ Len(got) \in Nat /\ (r.late => closed = 1)
  BY Types, HeldRange DEF RxPublish, IInv, RxInv
<1>2. /\ read_pos' = Advance(read_pos, r.n) /\ got' = got \o r.buf
      /\ r' = [r EXCEPT !.pc = "idle"]
      /\ UNCHANGED <<write_pos, closed, data, t, sent, eof>>
  BY <1>1 DEF RxPublish
<1>3. r' \in RxLocals /\ r'.pc = "idle" /\ r'.late = r.late
  BY <1>1, <1>2 DEF RxLocals, RxSteps
<1>4. /\ read_pos' \in Pos /\ Held' = Held - r.n
      /\ \A i \in Nat : r.n + i < Capacity
                          => Cell(read_pos', i) = Cell(read_pos, r.n + i)
  <2>1. r.n \in 0..Capacity /\ r.n \in 0..Held
    BY <1>1, PipeAssumption
  <2>2. read_pos' \in Pos
    BY <1>1, <1>2, <2>1, AdvanceInRing
  <2> QED
    BY <1>1, <1>2, <2>1, <2>2, AdvanceReader DEF Held
<1>5. /\ got' \in Seq(Nat) /\ Len(got') = Len(got) + r.n
      /\ \A i \in 1..Len(got) + r.n :
           got'[i] = IF i <= Len(got) THEN got[i] ELSE r.buf[i - Len(got)]
  BY <1>1, <1>2, ConcatProperties
<1>6. TypeOK'
  BY <1>2, <1>3, <1>4, <1>5 DEF IInv, TypeOK, RxLocals, Pos
<1>7. RingHoldsTheRest'
  <2>1. sent = Len(got) + Held
        /\ \A i \in 0..Held - 1 : data[Cell(read_pos, i)] = Len(got) + i + 1
    BY DEF IInv, RingHoldsTheRest, Held
  <2>2. sent = Len(got') + Held'
    BY <1>1, <1>4, <1>5, <2>1
  <2>3. ASSUME NEW i \in 0..Held' - 1
        PROVE  data[Cell(read_pos', i)] = Len(got') + i + 1
    <3> DEFINE k == r.n + i
    <3>1. i \in Nat /\ k < Capacity /\ k \in 0..Held - 1
      <4>1. Held' = Held - r.n
        BY <1>4
      <4>2. Held \in 0..Capacity - 1 /\ r.n \in Nat
        BY <1>1
      <4> QED
        BY <4>1, <4>2, PipeAssumption
    <3>2. Cell(read_pos', i) = Cell(read_pos, k)
      BY <1>4, <3>1
    <3>3. data[Cell(read_pos, k)] = Len(got) + k + 1
      <4> HIDE DEF k
      <4> QED
        BY <2>1, <3>1
    <3> QED
      BY <1>1, <1>5, <3>1, <3>2, <3>3
  <2> QED
    BY <1>2, <2>2, <2>3 DEF RingHoldsTheRest, Held
<1>8. InOrder'
  <2> SUFFICES ASSUME NEW i \in 1..Len(got) + r.n
               PROVE  got'[i] = i
    BY <1>5 DEF InOrder
  <2>0. got'[i] = IF i <= Len(got) THEN got[i] ELSE r.buf[i - Len(got)]
    BY <1>5
  <2>1. CASE i <= Len(got)
    <3>1. i \in 1..Len(got)
      BY <1>1, <2>1
    <3> QED
      BY <2>0, <2>1, <3>1 DEF IInv, InOrder
  <2>2. CASE i > Len(got)
    <3>1. i - Len(got) \in 1..r.n /\ r.i = r.n
      BY <1>1, <2>2 DEF IInv, RxInv
    <3>2. r.buf[i - Len(got)] = Len(got) + (i - Len(got))
      BY <1>1, <3>1 DEF IInv, RxInv
    <3>3. Len(got) + (i - Len(got)) = i /\ ~(i <= Len(got))
      BY <1>1, <2>2
    <3> QED
      BY <2>0, <3>2, <3>3
  <2> QED
    BY <1>1, <2>1, <2>2
<1>9. TxInv'
  <2>1. \A n \in Nat : Held + n <= Capacity - 1 => Held' + n <= Capacity - 1
    BY <1>1, <1>4, PipeAssumption
  <2>2. t.n \in Nat
    BY Types DEF IInv
  <2> QED
    BY <1>2, <2>1, <2>2 DEF IInv, TxInv
<1>10. RxInv'
  BY <1>1, <1>2, <1>3 DEF RxInv
<1> QED
  BY <1>6, <1>7, <1>8, <1>9, <1>10 DEF IInv

\* A call goes into its wait, starts over when that times out, or gives up.
LEMMA RxWakeStep ==
  ASSUME IInv, RxEnterWait \/ RxTimeout \/ RxGiveUp
  PROVE  IInv'
<1>1. /\ r \in RxLocals /\ r.pc \in {"enter", "wait"} /\ r.len >= 1 /\ (r.late => closed = 1)
      /\ \E pc \in {"load_wp", "idle", "wait"} : r' = [r EXCEPT !.pc = pc]
  BY Types DEF RxEnterWait, RxTimeout, RxGiveUp, IInv, RxInv
<1>2. /\ r' \in RxLocals /\ r'.pc \in {"load_wp", "idle", "wait"} /\ r'.len = r.len
      /\ r'.late = r.late
  BY <1>1 DEF RxLocals, RxSteps
<1>3. UNCHANGED <<header, data, t, sent, got>> /\ closed' = closed /\ eof' \in BOOLEAN
  BY DEF RxEnterWait, RxTimeout, RxGiveUp, header, IInv, TypeOK
<1>4. RxInv'
  BY <1>1, <1>2, <1>3 DEF RxInv
<1> QED
  BY <1>2, <1>3, <1>4, RxLocalStep

-----------------------------------------------------------------------------
\* A new pipe is empty, open and untouched.
LEMMA InitIInv == Init => IInv
<1> SUFFICES ASSUME Init PROVE IInv
  OBVIOUS
<1>1. /\ write_pos = 0 /\ read_pos = 0 /\ closed = 0 /\ sent = 0 /\ got = <<>>
      /\ t.pc = "idle" /\ r.pc = "idle" /\ r.late = FALSE /\ Held = 0
  BY PipeAssumption DEF Init, Held, data_available
<1>2. TypeOK
  <2>1. <<>> \in Seq(Nat)
    BY EmptySeq
  <2>2. 0 \in 0..Capacity - 1 /\ 0 \in Nat
    BY PipeAssumption
  <2>3. t \in TxLocals
    BY <2>2 DEF Init, TxLocals, TxSteps, Pos
  <2>4. r \in RxLocals
    BY <2>1, <2>2 DEF Init, RxLocals, RxSteps, Pos
  <2> QED
    BY <2>1, <2>2, <2>3, <2>4 DEF Init, TypeOK, TxLocals, RxLocals, Pos
<1>3. RingHoldsTheRest /\ InOrder
  BY <1>1 DEF RingHoldsTheRest, InOrder, Held
<1>4. TxInv /\ RxInv
  BY <1>1 DEF TxInv, RxInv
<1> QED
  BY <1>2, <1>3, <1>4 DEF IInv

\* Every step of either end keeps the invariant.
LEMMA NextIInv == IInv /\ [Next]_vars => IInv'
<1> SUFFICES ASSUME IInv, [Next]_vars PROVE IInv'
  OBVIOUS
<1>1. CASE Tx
  BY <1>1, WriteCallStep, TxLoadWritePosStep, TxLoadReadPosStep, TxLoadBaseStep,
     TxStoreByteStep, TxPublishStep, TxNotifyStep, TxCloseStep DEF Tx, TxInternal
<1>2. CASE Rx
  BY <1>2, ReadCallStep, RxLoadWritePosStep, RxLoadReadPosStep, RxLoadClosedStep,
     RxLoadBaseStep, RxLoadByteStep, RxPublishStep, RxWakeStep DEF Rx, RxInternal
<1>3. CASE UNCHANGED vars
  BY <1>3 DEF vars, IInv, TypeOK, RingHoldsTheRest, InOrder, TxInv, RxInv, Held
<1> QED
  BY <1>1, <1>2, <1>3 DEF Next

\* The inductive invariant holds of every run: the positions stay in the
\* ring, and the cells from read_pos to write_pos are the bytes still owed to
\* the reader (write_data and try_read).
THEOREM Invariance == Spec => []IInv
BY InitIInv, NextIInv, PTL DEF Spec

\* Types of the header words and of the locals of both ends.
THEOREM TypeCorrect == Spec => []TypeOK
<1>1. IInv => TypeOK
  BY DEF IInv
<1> QED
  BY <1>1, Invariance, PTL

\* No byte is lost between the store of write_pos and that of read_pos, and
\* the reads return the bytes in order.
THEOREM ReliableInOrder == Spec => [](RingHoldsTheRest /\ InOrder)
<1>1. IInv => RingHoldsTheRest /\ InOrder
  BY DEF IInv
<1> QED
  BY <1>1, Invariance, PTL

\* The Safety comment of pipes/mod.rs, for one transmit and one receive end:
\* the plain data accesses of the two ends never meet in a cell.
THEOREM Disjoint == Spec => []NoOverlap
<1>1. IInv => NoOverlap
  <2> SUFFICES ASSUME IInv, t.pc = "store", r.pc = "load",
                      NEW i \in t.i .. t.n - 1, NEW j \in r.i .. r.n - 1
               PROVE  Cell(t.base, i) # Cell(r.base, j)
    BY DEF NoOverlap, Writing, Reading
  <2>1. /\ TypeOK /\ t.base = write_pos /\ r.base = read_pos /\ t.i \in Nat
        /\ r.i \in Nat /\ t.n \in Nat /\ r.n \in Nat /\ Held \in 0..Capacity - 1
        /\ Held + t.n <= Capacity - 1 /\ r.n <= Held /\ read_pos \in Pos
    BY Types, HeldRange DEF IInv, TxInv, RxInv
  <2>2. /\ i \in Nat /\ Held + i <= Capacity - 1 /\ Held + i \in 0..Capacity - 1
        /\ j \in 0..Capacity - 1 /\ j # Held + i
    BY <2>1, PipeAssumption
  <2>3. Cell(t.base, i) = Cell(read_pos, Held + i)
    BY <2>1, <2>2, NextCells
  <2> QED
    BY <2>1, <2>2, <2>3, CellInRing
<1> QED
  BY <1>1, Invariance, PTL

\* A read called on a closed pipe reports end-of-file only at the end of the
\* stream (read_blocking and poll_read after SharedPipeTx::close).
THEOREM LateEof == Spec => LateEofIsFinal
<1>1. IInv /\ [Next]_vars =>
        [(r.pc \in {"closed1", "closed2"} /\ r.late /\ r'.pc = "idle")
            => Len(got) = sent]_vars
  BY DEF IInv, RxInv
<1> QED
  BY <1>1, Invariance, PTL DEF Spec, LateEofIsFinal

-----------------------------------------------------------------------------
(* The pipe implements BoundedStream.                                      *)

\* A write is accepted at its store of write_pos.
LEMMA PublishAccepts ==
  ASSUME IInv, TxPublish
  PROVE  \E n \in 1..Capacity - 1 : Stream!Accept(n)
<1>1. /\ t.n \in Nat /\ t.n >= 1 /\ Held + t.n <= Capacity - 1
      /\ Held \in 0..Capacity - 1 /\ closed # 1 /\ sent \in Nat /\ Len(got) \in Nat
      /\ sent = Len(got) + Held
  <2>1. sent = Len(got) + Held
    BY DEF IInv, RingHoldsTheRest, Held
  <2> QED
    BY <2>1, Types, HeldRange DEF TxPublish, IInv, TxInv
<1>2. t.n \in 1..Capacity - 1 /\ sent + t.n - Len(got) <= Capacity - 1
  BY <1>1, PipeAssumption
<1>3. Stream!Accept(t.n)
  BY <1>1, <1>2 DEF Stream!Accept, TxPublish
<1> QED
  BY <1>2, <1>3

\* A read is delivered at its store of read_pos, and what it delivers is the
\* oldest part of the stream not delivered yet.
LEMMA PublishDelivers ==
  ASSUME IInv, RxPublish
  PROVE  \E n \in 1..Capacity - 1 : Stream!Deliver(n)
<1>1. /\ r.n \in Nat /\ r.n >= 1 /\ r.n <= Held /\ Held \in 0..Capacity - 1
      /\ r.buf \in Seq(Nat) /\ Len(r.buf) = r.n /\ r.i = r.n /\ Len(got) \in Nat
      /\ sent = Len(got) + Held
  <2>1. sent = Len(got) + Held
    BY DEF IInv, RingHoldsTheRest, Held
  <2> QED
    BY <2>1, Types, HeldRange DEF RxPublish, IInv, RxInv
<1>2. r.buf = Stream!StreamSlice(Len(got) + 1, r.n)
  <2> DEFINE slice == [i \in 1..r.n |-> Len(got) + 1 + i - 1]
  <2>1. slice \in Seq(Nat) /\ Len(slice) = r.n
    <3>1. slice \in [1..r.n -> Nat]
      BY <1>1
    <3>2. slice \in Seq(Nat)
      BY <1>1, <3>1, SeqDef
    <3>3. DOMAIN slice = 1..r.n
      OBVIOUS
    <3>4. DOMAIN slice = 1..Len(slice) /\ Len(slice) \in Nat
      BY <3>2, LenProperties
    <3> HIDE DEF slice
    <3>5. Len(slice) = r.n
      BY <1>1, <3>3, <3>4
    <3> QED
      BY <3>2, <3>5
  <2>2. ASSUME NEW i \in 1..Len(r.buf)
        PROVE  r.buf[i] = slice[i]
    <3>1. i \in 1..r.n
      BY <1>1
    <3>2. \A j \in 1..r.i : r.buf[j] = Len(got) + j
      BY DEF IInv, RxInv, RxPublish
    <3> QED
      BY <1>1, <3>1, <3>2
  <2>3. r.buf = slice
    <3> HIDE DEF slice
    <3> QED
      BY <1>1, <2>1, <2>2, SeqEqual
  <2> QED
    BY <2>3 DEF Stream!StreamSlice
<1>3. r.n \in 1..Capacity - 1 /\ Len(got) + r.n <= sent
  BY <1>1, PipeAssumption
<1>4. /\ got' = got \o Stream!StreamSlice(Len(got) + 1, r.n)
      /\ UNCHANGED <<sent, closed>>
  BY <1>2 DEF RxPublish
<1>5. Stream!Deliver(r.n)
  BY <1>3, <1>4 DEF Stream!Deliver
<1> QED
  BY <1>3, <1>5

\* Every step of the pipe is a step of the bounded stream or none.
LEMMA StepRefines == IInv /\ [Next]_vars => [Stream!Next]_(Stream!svars)
<1> SUFFICES ASSUME IInv, [Next]_vars
             PROVE  Stream!Next \/ UNCHANGED <<sent, got, closed>>
  BY DEF Stream!svars
<1>1. CASE TxPublish
  BY <1>1, PublishAccepts DEF Stream!Next
<1>2. CASE RxPublish
  BY <1>2, PublishDelivers DEF Stream!Next
<1>3. ASSUME NEW last \in BOOLEAN, TxClose(last)
      PROVE  Stream!Next
  BY <1>3 DEF TxClose, Stream!Next, Stream!Shut
<1>4. CASE Tx /\ ~TxPublish /\ ~\E last \in BOOLEAN : TxClose(last)
  BY <1>4 DEF Tx, TxInternal, WriteCall, TxLoadWritePos, TxLoadReadPos, TxLoadBase,
     TxStoreByte, TxNotify, TxCloseNotify, header
<1>5. CASE Rx /\ ~RxPublish
  BY <1>5 DEF Rx, RxInternal, ReadCall, RxLoadWritePos, RxLoadReadPos, RxLoadClosed,
     RxLoadBase, RxLoadByte, RxEnterWait, RxTimeout, RxGiveUp, header
<1>6. CASE UNCHANGED vars
  BY <1>6 DEF vars
<1> QED
  BY <1>1, <1>2, <1>3, <1>4, <1>5, <1>6 DEF Next

\* The ring buffer, with its torn loads and byte by byte copies, implements
\* the bounded in-order stream.
THEOREM Refinement == Spec => StreamSpec
<1>1. Init => Stream!Init
  BY DEF Init, Stream!Init
<1> QED
  BY <1>1, StepRefines, Invariance, PTL DEF Spec, StreamSpec, Stream!Spec

=============================================================================

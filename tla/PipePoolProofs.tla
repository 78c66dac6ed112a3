--------------------------- MODULE PipePoolProofs ---------------------------
(***************************************************************************)
(* The pool hands out disjoint regions, for every number of workers, every *)
(* size of the pool and all sizes asked for.                               *)
(***************************************************************************)
EXTENDS PipePool, TLAPS

Calls == [pc : {"idle", "load", "claim"}, size : Sizes \cup {0}, current : Nat]

\* The parts of IInv that constrain the calls only, for one worker.
CallInv(c) ==
    /\ c.pc # "idle" => c.size \in Sizes
    /\ c.pc = "claim" => HeaderSize <= c.current /\ c.current + c.size <= PoolSize

\* Sizes and offsets are numbers.
LEMMA Numbers ==
  /\ HeaderSize \in Nat /\ PoolSize \in Nat
  /\ \A s \in Sizes : s \in Nat /\ s > 0
  /\ \A o \in HeaderSize..PoolSize : o \in Nat /\ HeaderSize <= o /\ o <= PoolSize
BY PoolAssumption

\* A step that changes one worker's call, and nothing else, is judged by that
\* call alone.
LEMMA CallStep ==
  ASSUME IInv, NEW w \in Workers, NEW c \in Calls, CallInv(c),
         call' = [call EXCEPT ![w] = c], offset' = offset, regions' = regions
  PROVE  IInv'
<1>1. call' \in [Workers -> Calls]
  BY DEF IInv, TypeOK, Calls
<1>2. TypeOK'
  BY <1>1 DEF IInv, TypeOK, Calls
<1>3. \A v \in Workers : CallInv(call'[v])
  <2> SUFFICES ASSUME NEW v \in Workers PROVE CallInv(call'[v])
    OBVIOUS
  <2>1. CASE v = w
    BY <2>1 DEF IInv, TypeOK
  <2>2. CASE v # w
    <3>1. call'[v] = call[v]
      BY <2>2 DEF IInv, TypeOK
    <3> QED
      BY <3>1 DEF IInv, CallInv
  <2> QED
    BY <2>1, <2>2
<1>4. Exclusive'
  BY DEF IInv, Exclusive
<1> QED
  BY <1>2, <1>3, <1>4 DEF IInv, CallInv

\* A call begins.
LEMMA AllocateStep ==
  ASSUME IInv, NEW w \in Workers, NEW size \in Sizes, Allocate(w, size)
  PROVE  IInv'
<1> DEFINE c == [call[w] EXCEPT !.pc = "load", !.size = size]
<1>1. c \in Calls /\ CallInv(c)
  BY DEF IInv, TypeOK, Calls, CallInv
<1>2. call' = [call EXCEPT ![w] = c]
  BY DEF Allocate, IInv, TypeOK
<1> HIDE DEF c
<1> QED
  BY <1>1, <1>2, CallStep DEF Allocate

\* The offset is loaded: a region from there fits, or there is none.
LEMMA LoadOffsetStep ==
  ASSUME IInv, NEW w \in Workers, LoadOffset(w)
  PROVE  IInv'
<1> DEFINE pc == IF offset + call[w].size > PoolSize THEN "idle" ELSE "claim"
           c == [call[w] EXCEPT !.pc = pc, !.current = offset]
<1>1. call[w] \in Calls /\ call[w].size \in Sizes /\ offset \in HeaderSize..PoolSize
  BY DEF LoadOffset, IInv, TypeOK, Calls
<1>2. pc \in {"idle", "claim"} /\ (pc = "claim" => offset + call[w].size <= PoolSize)
  <2>1. offset + call[w].size \in Nat /\ PoolSize \in Nat
    BY <1>1, Numbers
  <2> QED
    BY <2>1
<1>3. call' = [call EXCEPT ![w] = c]
  BY DEF LoadOffset, IInv, TypeOK
<1> HIDE DEF pc
<1>4. offset \in Nat /\ HeaderSize <= offset
  BY <1>1, PoolAssumption
<1>5. c \in Calls /\ c.pc = pc /\ c.size = call[w].size /\ c.current = offset
  BY <1>1, <1>2, <1>4 DEF Calls
<1>6. CallInv(c)
  BY <1>1, <1>2, <1>4, <1>5 DEF CallInv
<1> HIDE DEF c
<1> QED
  BY <1>3, <1>5, <1>6, CallStep DEF LoadOffset

\* The exchange fails: the call loads the offset again.
LEMMA RetryStep ==
  ASSUME IInv, NEW w \in Workers, Retry(w)
  PROVE  IInv'
<1> DEFINE c == [call[w] EXCEPT !.pc = "load"]
<1>1. c \in Calls /\ CallInv(c)
  BY DEF Retry, IInv, TypeOK, Calls, CallInv
<1>2. call' = [call EXCEPT ![w] = c]
  BY DEF Retry, IInv, TypeOK
<1> HIDE DEF c
<1> QED
  BY <1>1, <1>2, CallStep DEF Retry

\* The exchange succeeds: the offset is still the one loaded, so the region
\* lies behind all others, and the offset moves behind it.
LEMMA ClaimStep ==
  ASSUME IInv, NEW w \in Workers, Claim(w)
  PROVE  IInv'
<1> DEFINE new == Region(w)
<1>1. /\ call[w] \in Calls /\ call[w].size \in Sizes /\ call[w].current = offset
      /\ offset + call[w].size <= PoolSize /\ offset \in HeaderSize..PoolSize
  BY DEF Claim, IInv, TypeOK, Calls
<1>2. /\ new.start = offset /\ new.size = call[w].size
      /\ new \in [start : Nat, size : Sizes, owner : Workers]
  BY <1>1, PoolAssumption DEF Region
<1>3. /\ regions' = regions \cup {new} /\ offset' = new.start + new.size
      /\ call' = [call EXCEPT ![w].pc = "idle"]
  BY <1>1, <1>2 DEF Claim
<1>4. /\ regions \subseteq [start : Nat, size : Sizes, owner : Workers]
      /\ \A g \in regions : /\ g.start \in Nat /\ g.size \in Nat /\ g.size > 0
                            /\ HeaderSize <= g.start /\ g.start + g.size <= offset
  <2>1. regions \subseteq [start : Nat, size : Sizes, owner : Workers]
    BY DEF IInv, TypeOK
  <2>2. \A g \in regions : HeaderSize <= g.start /\ g.start + g.size <= offset
    BY DEF IInv, Exclusive
  <2>3. \A g \in regions : g.start \in Nat /\ g.size \in Sizes
    BY <2>1
  <2> QED
    BY <2>1, <2>2, <2>3, Numbers
<1> HIDE DEF new
<1>5. call' \in [Workers -> Calls] /\ \A v \in Workers : CallInv(call'[v])
  <2>1. call' \in [Workers -> Calls]
    BY <1>3 DEF IInv, TypeOK, Calls
  <2> SUFFICES ASSUME NEW v \in Workers PROVE CallInv(call'[v])
    BY <2>1
  <2>2. CASE v = w
    BY <1>3, <2>2 DEF IInv, TypeOK, CallInv
  <2>3. CASE v # w
    <3>1. call'[v] = call[v]
      BY <1>3, <2>3 DEF IInv, TypeOK
    <3> QED
      BY <3>1 DEF IInv, CallInv
  <2> QED
    BY <2>2, <2>3
<1>6. offset' \in HeaderSize..PoolSize
  BY <1>1, <1>2, <1>3, PoolAssumption
<1>7. TypeOK'
  BY <1>2, <1>3, <1>4, <1>5, <1>6 DEF TypeOK, Calls
<1>8. \A g \in regions' : HeaderSize <= g.start /\ g.start + g.size <= offset'
  <2> SUFFICES ASSUME NEW g \in regions'
               PROVE  HeaderSize <= g.start /\ g.start + g.size <= offset'
    OBVIOUS
  <2>1. CASE g = new
    BY <1>1, <1>2, <1>3, <2>1, PoolAssumption
  <2>2. CASE g \in regions
    BY <1>1, <1>2, <1>3, <1>4, <2>2, PoolAssumption
  <2> QED
    BY <1>3, <2>1, <2>2
<1>9. Exclusive'
  <2>1. ASSUME NEW g \in regions', NEW h \in regions', g # h
        PROVE  g.start + g.size <= h.start \/ h.start + h.size <= g.start
    <3>1. CASE g \in regions /\ h \in regions
      BY <2>1, <3>1 DEF IInv, Exclusive
    <3>2. CASE g = new
      BY <1>2, <1>3, <1>4, <2>1, <3>2
    <3>3. CASE h = new
      BY <1>2, <1>3, <1>4, <2>1, <3>3
    <3> QED
      BY <1>3, <2>1, <3>1, <3>2, <3>3
  <2>2. ASSUME NEW g \in regions'
        PROVE  HeaderSize <= g.start /\ g.start + g.size <= PoolSize
    <3>1. g.start \in Nat /\ g.size \in Nat
      BY <1>7, PoolAssumption DEF TypeOK
    <3> QED
      BY <1>6, <1>8, <3>1, PoolAssumption
  <2> QED
    BY <2>1, <2>2 DEF Exclusive
<1>10. offset' = HeaderSize \/ \E g \in regions' : g.start + g.size = offset'
  BY <1>3
<1> QED
  BY <1>5, <1>7, <1>8, <1>9, <1>10 DEF IInv, CallInv

\* The invariant holds at first: nothing is handed out and nobody allocates.
LEMMA InitIInv == Init => IInv
BY PoolAssumption DEF Init, IInv, TypeOK, Exclusive

\* Every step of every worker keeps the invariant.
LEMMA NextIInv == IInv /\ [Next]_vars => IInv'
<1> SUFFICES ASSUME IInv, [Next]_vars PROVE IInv'
  OBVIOUS
<1>1. CASE UNCHANGED vars
  BY <1>1 DEF vars, IInv, TypeOK, Exclusive
<1>2. ASSUME NEW w \in Workers, NEW size \in Sizes, Allocate(w, size) PROVE IInv'
  BY <1>2, AllocateStep
<1>3. ASSUME NEW w \in Workers, LoadOffset(w) PROVE IInv'
  BY <1>3, LoadOffsetStep
<1>4. ASSUME NEW w \in Workers, Claim(w) PROVE IInv'
  BY <1>4, ClaimStep
<1>5. ASSUME NEW w \in Workers, Retry(w) PROVE IInv'
  BY <1>5, RetryStep
<1> QED
  BY <1>1, <1>2, <1>3, <1>4, <1>5 DEF Next

\* The inductive invariant holds throughout.
THEOREM Invariance == Spec => []IInv
  BY InitIInv, NextIInv, PTL DEF Spec

\* allocate_from_pool gives every pipe a region of its own inside the pool,
\* however many workers allocate at the same time.
THEOREM RegionsAreExclusive == Spec => []Exclusive
<1>1. IInv => Exclusive
  BY DEF IInv
<1> QED
  BY Invariance, <1>1, PTL

\* An allocation fails only when what is asked for does not fit any more.
THEOREM FailsOnlyWhenFull == Spec => NoneIsFull
<1> DEFINE Full == \A w \in Workers :
             call[w].pc = "load" /\ call'[w].pc = "idle"
               => ~ \E start \in HeaderSize..PoolSize :
                      /\ start + call[w].size <= PoolSize
                      /\ \A g \in regions : g.start + g.size <= start
<1>1. IInv /\ [Next]_vars => [Full]_vars
  <2> SUFFICES ASSUME IInv, Next, NEW w \in Workers,
                      call[w].pc = "load", call'[w].pc = "idle",
                      NEW start \in HeaderSize..PoolSize,
                      start + call[w].size <= PoolSize,
                      \A g \in regions : g.start + g.size <= start
               PROVE  FALSE
    BY DEF vars
  <2>1. PICK v \in Workers : \/ \E size \in Sizes : Allocate(v, size)
                             \/ LoadOffset(v) \/ Claim(v) \/ Retry(v)
    BY DEF Next
  <2>2. CASE v # w
    <3>1. call'[w] = call[w]
      BY <2>1, <2>2 DEF Allocate, LoadOffset, Claim, Retry, IInv, TypeOK
    <3> QED
      BY <3>1
  <2>3. CASE v = w
    <3>1. LoadOffset(w)
      BY <2>1, <2>3 DEF Allocate, LoadOffset, Claim, Retry, IInv, TypeOK
    <3>2. offset + call[w].size > PoolSize
      BY <3>1 DEF LoadOffset, IInv, TypeOK
    <3>3. offset <= start
      <4>1. CASE offset = HeaderSize
        BY <4>1, PoolAssumption
      <4>2. CASE \E g \in regions : g.start + g.size = offset
        BY <4>2
      <4> QED
        BY <4>1, <4>2 DEF IInv
    <3>4. call[w].size \in Nat /\ offset \in Nat /\ start \in Nat
      <4>1. call[w].size \in Sizes /\ offset \in HeaderSize..PoolSize
        BY DEF IInv, TypeOK
      <4> QED
        BY <4>1, Numbers
    <3> QED
      BY <3>2, <3>3, <3>4, Numbers
  <2> QED
    BY <2>2, <2>3
<1> QED
  BY Invariance, <1>1, PTL DEF Spec, NoneIsFull
=============================================================================

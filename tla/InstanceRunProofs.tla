-------------------------- MODULE InstanceRunProofs --------------------------
(***************************************************************************)
(* What the streams of a program carry, what wait() returns and when the   *)
(* thread pool is closed, for every amount of data, every high water mark  *)
(* and every set of disturbances.                                          *)
(***************************************************************************)
EXTENDS InstanceRun, SequenceTheorems, TLAPS

(* Sequences of numbered bytes. *)

LEMMA MoveFirst ==
  ASSUME NEW S, NEW a \in Seq(S), NEW b \in Seq(S), b # <<>>
  PROVE  /\ Append(a, Head(b)) \in Seq(S) /\ Tail(b) \in Seq(S) /\ Len(Tail(b)) = Len(b) - 1
         /\ Append(a, Head(b)) \o Tail(b) = a \o b
<1>1. Head(b) \in S /\ Tail(b) \in Seq(S) /\ Len(b) \in Nat \ {0} /\ Head(b) = b[1]
      /\ Len(Tail(b)) = Len(b) - 1 /\ \A i \in 1..Len(Tail(b)) : Tail(b)[i] = b[i + 1]
  BY HeadTailProperties
<1> DEFINE x == Append(a, Head(b))
           t == Tail(b)
<1>2. x \in Seq(S) /\ Len(x) = Len(a) + 1 /\ (\A i \in 1..Len(a) : x[i] = a[i])
      /\ x[Len(a) + 1] = Head(b)
  BY <1>1, AppendProperties
<1>3. t \in Seq(S) /\ Len(a) \in Nat
  BY <1>1
<1> HIDE DEF x, t
<1>4. /\ x \o t \in Seq(S) /\ Len(x \o t) = Len(x) + Len(t)
      /\ \A i \in 1..Len(x) + Len(t) : (x \o t)[i] = IF i <= Len(x) THEN x[i] ELSE t[i - Len(x)]
  BY <1>2, <1>3, ConcatProperties
<1>5. /\ a \o b \in Seq(S) /\ Len(a \o b) = Len(a) + Len(b)
      /\ \A i \in 1..Len(a) + Len(b) : (a \o b)[i] = IF i <= Len(a) THEN a[i] ELSE b[i - Len(a)]
  BY ConcatProperties
<1>6. \A i \in 1..Len(x \o t) : (x \o t)[i] = (a \o b)[i]
  BY <1>1, <1>2, <1>3, <1>4, <1>5 DEF t
<1>7. Len(x \o t) = Len(a \o b)
  BY <1>1, <1>2, <1>3, <1>4, <1>5 DEF t
<1>8. x \o t = a \o b
  BY <1>6, <1>7, <1>4, <1>5, SeqEqual
<1> QED
  BY <1>1, <1>2, <1>8 DEF x, t

LEMMA Parts ==
  ASSUME NEW S, NEW c \in Seq(S), NEW n \in 0..Len(c)
  PROVE  /\ SubSeq(c, 1, n) \in Seq(S) /\ SubSeq(c, n + 1, Len(c)) \in Seq(S)
         /\ Len(SubSeq(c, 1, n)) = n
         /\ SubSeq(c, 1, n) \o SubSeq(c, n + 1, Len(c)) = c
<1> DEFINE p == SubSeq(c, 1, n)
           q == SubSeq(c, n + 1, Len(c))
<1>1. Len(c) \in Nat /\ \A i \in 1..Len(c) : c[i] \in S
  OBVIOUS
<1>2. p \in Seq(S) /\ Len(p) = n /\ \A i \in 1..n : p[i] = c[i]
  OBVIOUS
<1>3. q \in Seq(S) /\ Len(q) = Len(c) - n /\ \A i \in 1..Len(q) : q[i] = c[n + i]
  OBVIOUS
<1>4. p \o q \in Seq(S) /\ Len(p \o q) = Len(p) + Len(q)
      /\ \A i \in 1..Len(p) + Len(q) : (p \o q)[i] = IF i <= Len(p) THEN p[i] ELSE q[i - Len(p)]
  BY <1>2, <1>3, ConcatProperties
<1> HIDE DEF p, q
<1>5. Len(p \o q) = Len(c) /\ \A i \in 1..Len(p \o q) : (p \o q)[i] = c[i]
  BY <1>1, <1>2, <1>3, <1>4
<1>6. p \o q = c
  BY <1>4, <1>5, SeqEqual
<1> QED
  BY <1>2, <1>3, <1>6 DEF p, q

\* Three sequences at a time, or the provers lose their way.
LEMMA Assoc == \A S : \A a, b, c \in Seq(S) : a \o b \in Seq(S) /\ (a \o b) \o c = a \o (b \o c)
BY ConcatAssociative, ConcatProperties

LEMMA AddLast ==
  ASSUME NEW S, NEW a \in Seq(S), NEW b \in Seq(S), NEW e \in S
  PROVE  Append(b, e) \in Seq(S) /\ a \o Append(b, e) = Append(a \o b, e)
<1>1. <<e>> \in Seq(S) /\ a \o b \in Seq(S) /\ Append(b, e) \in Seq(S)
  OBVIOUS
<1>2. Append(b, e) = b \o <<e>> /\ Append(a \o b, e) = (a \o b) \o <<e>>
  BY <1>1, AppendIsConcat
<1> QED
  BY <1>1, <1>2, ConcatAssociative

LEMMA CountUp ==
  ASSUME NEW n \in Nat
  PROVE  /\ Append(UpTo(n), n + 1) = UpTo(n + 1)
         /\ \A m \in Nat : n <= m => UpTo(n) \in Seq(1..m)
<1>1. \A k, m \in Nat : k <= m => UpTo(k) \in Seq(1..m)
  BY DEF UpTo
<1>2. UpTo(n) \in Seq(Nat) /\ UpTo(n + 1) \in Seq(Nat) /\ n + 1 \in Nat
  BY DEF UpTo
<1>3. /\ Len(UpTo(n)) = n /\ Len(UpTo(n + 1)) = n + 1
      /\ \A i \in 1..n : UpTo(n)[i] = i
      /\ \A i \in 1..(n + 1) : UpTo(n + 1)[i] = i
  BY DEF UpTo
<1>4. /\ Append(UpTo(n), n + 1) \in Seq(Nat) /\ Len(Append(UpTo(n), n + 1)) = Len(UpTo(n)) + 1
      /\ \A i \in 1..Len(UpTo(n)) : Append(UpTo(n), n + 1)[i] = UpTo(n)[i]
      /\ Append(UpTo(n), n + 1)[Len(UpTo(n)) + 1] = n + 1
  BY <1>2, AppendProperties
<1>5. /\ Len(Append(UpTo(n), n + 1)) = Len(UpTo(n + 1))
      /\ \A i \in 1..Len(Append(UpTo(n), n + 1)) : Append(UpTo(n), n + 1)[i] = UpTo(n + 1)[i]
  BY <1>3, <1>4
<1>6. Append(UpTo(n), n + 1) = UpTo(n + 1)
  BY <1>2, <1>4, <1>5, SeqEqual
<1> QED
  BY <1>1, <1>6

-----------------------------------------------------------------------------
(* The output streams. *)

\* The bytes that are written to outputs and to standard input.
OutData == 1..MaxOut
InData == 1..MaxIn

OutType == [data : Seq(OutData), ended : BOOLEAN, gone : BOOLEAN,
            ends : SUBSET {"prog", "tty", "child"}, wrote : 0..MaxOut]
SrcType == [state : {"readable", "closing", "closed", "errored", "cancelled"},
            queue : Seq(OutData)]

OutputsTyped ==
    /\ outs \in [Outputs -> OutType]
    /\ srcs \in [Outputs -> SrcType]
    /\ \A s \in Outputs : Len(srcs[s].queue) <= HighWater
    /\ got \in [Outputs -> Seq(OutData)]

Hit == trouble \cap {"abort", "fault"} # {}

\* A stream that is done has nothing left and gets nothing more, and one that
\* has failed was disturbed.
StreamEnds ==
    \A s \in Outputs :
        /\ srcs[s].state \in {"closing", "closed"} => outs[s].ended /\ outs[s].data = <<>>
        /\ srcs[s].state \in {"closed", "errored", "cancelled"} => srcs[s].queue = <<>>
        /\ srcs[s].state = "errored" => Hit

\* What a step does to the outputs: only their ends may be let go of ...
EndsChange ==
    /\ outs' \in [Outputs -> OutType]
    /\ \A s \in Outputs : /\ outs'[s].data = outs[s].data /\ outs'[s].wrote = outs[s].wrote
                          /\ outs[s].ended => outs'[s].ended
    /\ UNCHANGED <<srcs, got>>

\* ... or one of them is written, pulled, read or cancelled.
OneMoves(s) ==
    \/ Accept(s) /\ UNCHANGED <<srcs, got>>
    \/ PullData(s) \/ PullEof(s) \/ PullError(s)
    \/ ReadChunk(s) /\ UNCHANGED outs
    \/ Cancel(s)

OutputMove == EndsChange \/ \E s \in Outputs : OneMoves(s)

\* The parts of an output's type.
LEMMA OutputParts ==
  ASSUME OutputsTyped, NEW s \in Outputs
  PROVE  /\ outs[s].data \in Seq(OutData) /\ outs[s].wrote \in 0..MaxOut
         /\ srcs[s].queue \in Seq(OutData) /\ got[s] \in Seq(OutData)
         /\ Len(srcs[s].queue) \in Nat /\ Len(srcs[s].queue) <= HighWater
         /\ MaxOut \in Nat /\ HighWater \in Nat
BY StreamsAssumption DEF OutputsTyped, OutType, SrcType

\* Output s is replaced.
LEMMA OneOutput ==
  ASSUME OutputsTyped, NothingLost, StreamEnds, Hit => Hit', NEW s \in Outputs,
         NEW o, NEW r, NEW g,
         outs' = [outs EXCEPT ![s] = o], srcs' = [srcs EXCEPT ![s] = r],
         got' = [got EXCEPT ![s] = g],
         o \in OutType, r \in SrcType, Len(r.queue) <= HighWater, g \in Seq(OutData),
         r.state \in {"readable", "closing", "closed"} => g \o r.queue \o o.data = UpTo(o.wrote),
         r.state \in {"closing", "closed"} => o.ended /\ o.data = <<>>,
         r.state \in {"closed", "errored", "cancelled"} => r.queue = <<>>,
         r.state = "errored" => Hit'
  PROVE  (OutputsTyped /\ NothingLost /\ StreamEnds)'
<1>1. /\ outs \in [Outputs -> OutType] /\ srcs \in [Outputs -> SrcType]
      /\ got \in [Outputs -> Seq(OutData)]
  BY DEF OutputsTyped
<1>2. outs'[s] = o /\ srcs'[s] = r /\ got'[s] = g
  BY <1>1
<1>3. \A u \in Outputs : u # s => outs'[u] = outs[u] /\ srcs'[u] = srcs[u] /\ got'[u] = got[u]
  BY <1>1
<1>4. OutputsTyped'
  BY <1>1, <1>2, <1>3 DEF OutputsTyped
<1>5. NothingLost'
  BY <1>2, <1>3 DEF NothingLost
<1>6. StreamEnds'
  BY <1>2, <1>3 DEF StreamEnds
<1> QED
  BY <1>4, <1>5, <1>6

LEMMA EndsChangeStep ==
  ASSUME OutputsTyped, NothingLost, StreamEnds, Hit => Hit', EndsChange
  PROVE  (OutputsTyped /\ NothingLost /\ StreamEnds)'
<1>1. OutputsTyped'
  BY DEF OutputsTyped, EndsChange
<1>2. NothingLost'
  BY DEF NothingLost, EndsChange
<1>3. StreamEnds'
  BY DEF StreamEnds, EndsChange
<1> QED
  BY <1>1, <1>2, <1>3

LEMMA AcceptStep ==
  ASSUME OutputsTyped, NothingLost, StreamEnds, Hit => Hit', NEW s \in Outputs,
         Accept(s), UNCHANGED <<srcs, got>>
  PROVE  (OutputsTyped /\ NothingLost /\ StreamEnds)'
<1> DEFINE n == outs[s].wrote
           q == got[s] \o srcs[s].queue
           o == [outs[s] EXCEPT !.wrote = n + 1, !.data = Append(outs[s].data, n + 1)]
<1>1. /\ outs[s] \in OutType /\ srcs[s] \in SrcType
      /\ \A u \in Outputs : outs[u].wrote \in 0..MaxOut
  BY DEF OutputsTyped, OutType
<1>2. n \in Nat /\ n + 1 \in OutData
  <2>1. /\ outs["stdout"].wrote \in Nat /\ outs["stderr"].wrote \in Nat /\ MaxOut \in Nat
        /\ outs["stdout"].wrote + outs["stderr"].wrote < MaxOut
    BY <1>1, OutputParts DEF Accept, Outputs
  <2>2. s = "stdout" \/ s = "stderr"
    BY DEF Outputs
  <2>3. n + 1 \in 1..MaxOut
    BY <2>1, <2>2
  <2> QED
    BY <2>1, <2>2, <2>3 DEF OutData
<1>3. Append(outs[s].data, n + 1) \in Seq(OutData)
  BY <1>2, OutputParts, AppendProperties
<1>4. o \in OutType /\ o.wrote = n + 1 /\ o.data = Append(outs[s].data, n + 1)
      /\ o.ended = outs[s].ended
  <2>1. n + 1 \in 0..MaxOut
    BY <1>2 DEF OutData
  <2> QED
    BY <1>1, <1>3, <2>1 DEF OutType
<1>5. outs' = [outs EXCEPT ![s] = o]
  BY DEF Accept
<1>6. srcs' = [srcs EXCEPT ![s] = srcs[s]] /\ got' = [got EXCEPT ![s] = got[s]]
  BY DEF OutputsTyped
<1>7. srcs[s].state \in {"readable", "closing", "closed"} => q \o o.data = UpTo(o.wrote)
  <2> SUFFICES ASSUME q \o outs[s].data = UpTo(n)
               PROVE  q \o Append(outs[s].data, n + 1) = UpTo(n + 1)
    BY <1>4 DEF NothingLost
  <2>1. q \in Seq(OutData) /\ outs[s].data \in Seq(OutData)
    BY OutputParts, ConcatProperties
  <2> HIDE DEF q
  <2>0. \A a, b \in Seq(OutData) : \A e \in OutData : a \o Append(b, e) = Append(a \o b, e)
    BY AddLast
  <2>2. q \o Append(outs[s].data, n + 1) = Append(q \o outs[s].data, n + 1)
    BY <1>2, <2>0, <2>1
  <2> QED
    BY <1>2, <2>2, CountUp
<1>8. ~outs[s].ended
  BY DEF Accept
<1>9. /\ srcs[s].state \notin {"closing", "closed"}
      /\ srcs[s].state \in {"closed", "errored", "cancelled"} => srcs[s].queue = <<>>
      /\ srcs[s].state = "errored" => Hit'
  BY <1>8 DEF StreamEnds
<1>10. Len(srcs[s].queue) <= HighWater /\ got[s] \in Seq(OutData)
  BY DEF OutputsTyped
<1> HIDE DEF o
<1> QED
  BY <1>1, <1>4, <1>5, <1>6, <1>7, <1>9, <1>10, OneOutput

LEMMA PullDataStep ==
  ASSUME OutputsTyped, NothingLost, StreamEnds, Hit => Hit', NEW s \in Outputs, PullData(s)
  PROVE  (OutputsTyped /\ NothingLost /\ StreamEnds)'
<1>1. PICK n \in 1..Room(s) :
         /\ n <= Len(outs[s].data)
         /\ outs' = [outs EXCEPT ![s].data = SubSeq(@, n + 1, Len(@))]
         /\ srcs' = [srcs EXCEPT ![s].queue = @ \o SubSeq(outs[s].data, 1, n)]
  BY DEF PullData
<1> DEFINE d == outs[s].data
           q == srcs[s].queue
           head == SubSeq(d, 1, n)
           rest == SubSeq(d, n + 1, Len(d))
           o == [outs[s] EXCEPT !.data = rest]
           r == [srcs[s] EXCEPT !.queue = q \o head]
<1>2. outs[s] \in OutType /\ srcs[s] \in SrcType /\ got[s] \in Seq(OutData)
  BY DEF OutputsTyped
<1>3. n \in 0..Len(d) /\ n <= HighWater - Len(q)
  BY <1>1, OutputParts DEF Room
<1>4. head \in Seq(OutData) /\ rest \in Seq(OutData) /\ Len(head) = n /\ head \o rest = d
  BY <1>3, OutputParts, Parts
<1>5. q \o head \in Seq(OutData) /\ Len(q \o head) = Len(q) + n
  BY <1>4, OutputParts, ConcatProperties
<1>6. o \in OutType /\ o.data = rest /\ o.wrote = outs[s].wrote
      /\ r \in SrcType /\ r.queue = q \o head /\ r.state = "readable"
  <2>1. srcs[s].state = "readable"
    BY DEF PullData
  <2> QED
    BY <1>2, <1>4, <1>5, <2>1 DEF OutType, SrcType
<1>7. outs' = [outs EXCEPT ![s] = o] /\ srcs' = [srcs EXCEPT ![s] = r]
      /\ got' = [got EXCEPT ![s] = got[s]]
  <2>1. got' = got /\ got = [got EXCEPT ![s] = got[s]]
    BY DEF PullData, OutputsTyped
  <2> QED
    BY <1>1, <2>1
<1>8. got[s] \o r.queue \o o.data = UpTo(o.wrote)
  <2>1. got[s] \o q \o d = UpTo(outs[s].wrote)
    BY <1>6 DEF NothingLost, PullData
  <2> DEFINE g == got[s]
             all == g \o q
  <2>2. g \in Seq(OutData) /\ q \in Seq(OutData) /\ head \in Seq(OutData)
    BY <1>4, OutputParts
  <2>3. rest \in Seq(OutData)
    BY <1>4
  <2> HIDE DEF g, q, head, rest
  <2>4. all \in Seq(OutData) /\ g \o (q \o head) = all \o head
    <3>1. g \o q \in Seq(OutData)
      BY <2>2, ConcatProperties
    <3>2. (g \o q) \o head = g \o (q \o head)
      BY <2>2, Assoc
    <3> QED
      BY <3>1, <3>2
  <2>5. head \in Seq(OutData) /\ all \in Seq(OutData)
    BY <2>2, <2>4
  <2> HIDE DEF all
  <2>6. (all \o head) \o rest = all \o (head \o rest)
    BY <2>3, <2>5, Assoc
  <2> QED
    BY <1>4, <1>6, <2>1, <2>4, <2>6 DEF all, g, q, rest
<1>9. Len(r.queue) <= HighWater
  BY <1>3, <1>5, <1>6, OutputParts
<1> HIDE DEF o, r
<1> QED
  BY <1>2, <1>6, <1>7, <1>8, <1>9, OneOutput

LEMMA PullEofStep ==
  ASSUME OutputsTyped, NothingLost, StreamEnds, Hit => Hit', NEW s \in Outputs, PullEof(s)
  PROVE  (OutputsTyped /\ NothingLost /\ StreamEnds)'
<1> DEFINE r == [srcs[s] EXCEPT !.state = IF srcs[s].queue = <<>> THEN "closed" ELSE "closing"]
<1>1. outs[s] \in OutType /\ srcs[s] \in SrcType /\ got[s] \in Seq(OutData)
      /\ Len(srcs[s].queue) <= HighWater
  BY DEF OutputsTyped
<1>2. /\ r \in SrcType /\ r.queue = srcs[s].queue
      /\ r.state = IF srcs[s].queue = <<>> THEN "closed" ELSE "closing"
  BY <1>1 DEF SrcType
<1>3. outs' = [outs EXCEPT ![s] = outs[s]] /\ got' = [got EXCEPT ![s] = got[s]]
      /\ srcs' = [srcs EXCEPT ![s] = r]
  BY DEF PullEof, OutputsTyped
<1>4. /\ got[s] \o srcs[s].queue \o outs[s].data = UpTo(outs[s].wrote)
      /\ outs[s].ended /\ outs[s].data = <<>>
  BY DEF PullEof, NothingLost
<1> HIDE DEF r
<1> QED
  BY <1>1, <1>2, <1>3, <1>4, OneOutput

\* A stream that fails or is cancelled drops its queue.
LEMMA GivenUpStep ==
  ASSUME OutputsTyped, NothingLost, StreamEnds, Hit => Hit', NEW s \in Outputs,
         PullError(s) \/ Cancel(s)
  PROVE  (OutputsTyped /\ NothingLost /\ StreamEnds)'
<1> DEFINE final == IF srcs'[s].state = "errored" THEN "errored" ELSE "cancelled"
           o == IF final = "errored" THEN outs[s] ELSE [outs[s] EXCEPT !.gone = TRUE]
           r == [srcs[s] EXCEPT !.state = final, !.queue = <<>>]
<1>1. outs[s] \in OutType /\ srcs[s] \in SrcType /\ got[s] \in Seq(OutData)
      /\ srcs \in [Outputs -> SrcType] /\ outs \in [Outputs -> OutType]
      /\ got = [got EXCEPT ![s] = got[s]] /\ outs = [outs EXCEPT ![s] = outs[s]]
  BY DEF OutputsTyped
<1>2. r \in SrcType /\ r.queue = <<>> /\ r.state = final /\ final \in {"errored", "cancelled"}
  <2>1. <<>> \in Seq(OutData)
    OBVIOUS
  <2> QED
    BY <1>1, <2>1 DEF SrcType
<1>3. o \in OutType
  BY <1>1 DEF OutType
<1>4. /\ outs' = [outs EXCEPT ![s] = o] /\ got' = [got EXCEPT ![s] = got[s]]
      /\ srcs' = [srcs EXCEPT ![s] = r]
      /\ final = "errored" => Hit'
  <2>1. CASE PullError(s)
    <3>1. srcs'[s].state = "errored" /\ Hit'
      BY <1>1, <2>1 DEF PullError, Disturb, Hit, SrcType
    <3> QED
      BY <1>1, <2>1, <3>1 DEF PullError
  <2>2. CASE Cancel(s)
    <3>1. srcs'[s].state = "cancelled"
      BY <1>1, <2>2 DEF Cancel, SrcType
    <3> QED
      BY <1>1, <2>2, <3>1 DEF Cancel
  <2> QED
    BY <2>1, <2>2
<1>5. Len(<<>>) <= HighWater
  BY StreamsAssumption
<1> HIDE DEF o, r, final
<1> QED
  BY <1>1, <1>2, <1>3, <1>4, <1>5, OneOutput

LEMMA ReadChunkStep ==
  ASSUME OutputsTyped, NothingLost, StreamEnds, Hit => Hit', NEW s \in Outputs,
         ReadChunk(s), UNCHANGED outs
  PROVE  (OutputsTyped /\ NothingLost /\ StreamEnds)'
<1> DEFINE q == srcs[s].queue
           g == Append(got[s], Head(q))
           state == IF srcs[s].state = "closing" /\ Len(q) = 1 THEN "closed" ELSE srcs[s].state
           r == [srcs[s] EXCEPT !.queue = Tail(q), !.state = state]
<1>1. outs[s] \in OutType /\ srcs[s] \in SrcType /\ got[s] \in Seq(OutData) /\ q # <<>>
      /\ outs' = [outs EXCEPT ![s] = outs[s]]
  BY DEF OutputsTyped, ReadChunk
<1>2. /\ g \in Seq(OutData) /\ Tail(q) \in Seq(OutData) /\ Len(Tail(q)) = Len(q) - 1
      /\ g \o Tail(q) = got[s] \o q
  BY <1>1, OutputParts, MoveFirst
<1>3. r \in SrcType /\ r.queue = Tail(q) /\ r.state = state
      /\ state \in {"readable", "closing", "closed", "errored", "cancelled"}
  BY <1>1, <1>2 DEF SrcType
<1>4. got' = [got EXCEPT ![s] = g] /\ srcs' = [srcs EXCEPT ![s] = r]
  BY DEF ReadChunk
<1>5. srcs[s].state \in {"readable", "closing"}
  BY <1>1 DEF StreamEnds, SrcType
<1>6. state = "closed" => Tail(q) = <<>>
  <2> SUFFICES ASSUME state = "closed" PROVE Tail(q) = <<>>
    OBVIOUS
  <2>1. Len(Tail(q)) = 0 /\ Tail(q) \in Seq(OutData)
    BY <1>2, <1>5
  <2> QED
    BY <2>1, EmptySeq
<1>7. g \o Tail(q) \o outs[s].data = UpTo(outs[s].wrote)
  BY <1>2, <1>5 DEF NothingLost
<1>8. state \in {"closing", "closed"} => outs[s].ended /\ outs[s].data = <<>>
  BY <1>5 DEF StreamEnds
<1>9. Len(Tail(q)) <= HighWater
  BY <1>2, OutputParts
<1>10. state \in {"readable", "closing", "closed"}
  BY <1>5
<1> HIDE DEF g, r, state
<1> QED
  BY <1>1, <1>2, <1>3, <1>4, <1>6, <1>7, <1>8, <1>9, <1>10, OneOutput

LEMMA OutputStep ==
  ASSUME OutputsTyped, NothingLost, StreamEnds, Hit => Hit', OutputMove
  PROVE  (OutputsTyped /\ NothingLost /\ StreamEnds)'
BY EndsChangeStep, AcceptStep, PullDataStep, PullEofStep, GivenUpStep, ReadChunkStep
   DEF OutputMove, OneMoves

-----------------------------------------------------------------------------
\* A writing end of an output is dropped or closed.
LEMMA EndGone ==
  ASSUME NEW o \in OutType, NEW e, NEW p \in {DropEnd(o, e), CloseEnd(o, e)}
  PROVE  /\ p \in OutType /\ p.data = o.data /\ p.wrote = o.wrote /\ (o.ended => p.ended)
         /\ p.ends = o.ends \ {e}
<1> DEFINE kept == o.ends \ {e}
           last == o.ended \/ o.ends \subseteq {e}
           closed == last \/ (shared /\ e \in o.ends)
<1>1. /\ kept \in SUBSET {"prog", "tty", "child"} /\ last \in BOOLEAN /\ closed \in BOOLEAN
      /\ o.ended => last /\ closed
  BY DEF OutType
<1>2. DropEnd(o, e) = [o EXCEPT !.ends = kept, !.ended = last]
  BY DEF DropEnd
<1>3. DropEnd(o, e) \in OutType /\ DropEnd(o, e).ended = last /\ DropEnd(o, e).data = o.data
      /\ DropEnd(o, e).wrote = o.wrote /\ DropEnd(o, e).ends = kept
  <2> HIDE DEF kept, last
  <2> QED
    BY <1>1, <1>2 DEF OutType
<1>4. CloseEnd(o, e) = [DropEnd(o, e) EXCEPT !.ended = closed]
  BY <1>3 DEF CloseEnd
<1>5. CloseEnd(o, e) \in OutType /\ CloseEnd(o, e).ended = closed /\ CloseEnd(o, e).data = o.data
      /\ CloseEnd(o, e).wrote = o.wrote /\ CloseEnd(o, e).ends = kept
  <2> HIDE DEF closed
  <2> QED
    BY <1>1, <1>3, <1>4 DEF OutType
<1> QED
  BY <1>1, <1>3, <1>5

\* What a step of the streams of the model does to the outputs.
LEMMA NoOutput ==
  ASSUME OutputsTyped, UNCHANGED <<outs, srcs, got>>
  PROVE  OutputMove
BY DEF OutputsTyped, OutputMove, EndsChange

LEMMA EndsGo ==
  ASSUME OutputsTyped, UNCHANGED <<srcs, got>>, NEW e,
         outs' = [outs EXCEPT !["stdout"] = DropEnd(@, e)]
           \/ outs' = [outs EXCEPT !["stdout"] = CloseEnd(@, e)]
           \/ outs' = [s \in Outputs |-> DropEnd(outs[s], e)]
           \/ outs' = [s \in Outputs |-> CloseEnd(outs[s], e)]
  PROVE  OutputMove
<1>1. outs \in [Outputs -> OutType] /\ "stdout" \in Outputs
  BY DEF OutputsTyped, Outputs
<1>2. \A s \in Outputs : /\ outs'[s] \in {outs[s], DropEnd(outs[s], e), CloseEnd(outs[s], e)}
                         /\ outs[s] \in OutType
  BY <1>1
<1>3. \A s \in Outputs : /\ outs'[s] \in OutType /\ outs'[s].data = outs[s].data
                         /\ outs'[s].wrote = outs[s].wrote /\ (outs[s].ended => outs'[s].ended)
  BY <1>2, EndGone
<1>4. DOMAIN outs' = Outputs /\ outs' = [s \in Outputs |-> outs'[s]]
  BY <1>1
<1> QED
  BY <1>3, <1>4 DEF OutputMove, EndsChange

LEMMA ForkMoves == ASSUME OutputsTyped, Forks PROVE OutputMove
<1> DEFINE o == outs["stdout"]
           p == [o EXCEPT !.ends = IF "prog" \in o.ends THEN o.ends \cup {"child"} ELSE o.ends]
<1>1. outs \in [Outputs -> OutType] /\ "stdout" \in Outputs /\ o \in OutType
  BY DEF OutputsTyped, Outputs
<1>2. p \in OutType /\ p.data = o.data /\ p.wrote = o.wrote /\ p.ended = o.ended
  BY <1>1 DEF OutType
<1>3. outs' = [outs EXCEPT !["stdout"] = p] /\ UNCHANGED <<srcs, got>>
  BY DEF Forks
<1> HIDE DEF p
<1>4. EndsChange
  BY <1>1, <1>2, <1>3 DEF EndsChange
<1> QED
  BY <1>4 DEF OutputMove

LEMMA Moves == ASSUME OutputsTyped, Next PROVE OutputMove
<1>1. ASSUME StreamsInternal PROVE OutputMove
  BY <1>1, NoOutput DEF StreamsInternal, SinkWrite, SinkWriteFails, SinkClose, OutputMove, OneMoves
<1>2. ASSUME CopyData PROVE OutputMove
  BY <1>2, NoOutput DEF CopyData, OutputMove, OneMoves, Outputs
<1>3. ASSUME CopyEof \/ CopyError PROVE OutputMove
  BY <1>3, EndsGo DEF CopyEof, CopyError, StopCopying
<1>4. ASSUME StdinClosed \/ StdinFails \/ StdinTypeError \/ JoinSucceeds \/ JoinFails
      PROVE  OutputMove
  BY <1>4, NoOutput DEF StdinClosed, StdinFails, StdinTypeError, JoinSucceeds, JoinFails, streamVars
<1>5. ASSUME NEW s \in Outputs, Collect(s) \/ UserReads(s) \/ UserCancels(s) PROVE OutputMove
  BY <1>5 DEF Collect, UserReads, UserCancels, OutputMove, OneMoves
<1>6. ASSUME Begin \/ ProgReads \/ ProgSeesEof \/ SendExit \/ WritesElsewhere PROVE OutputMove
  BY <1>6, NoOutput DEF Begin, WritesElsewhere, ProgReads, ProgSeesEof, SendExit, streamVars
<1>7. ASSUME ProgWrites \/ ChildWrites PROVE OutputMove
  BY <1>7 DEF ProgWrites, ChildWrites, Write, OutputMove, OneMoves, Outputs
<1>8. ASSUME ChildEnds PROVE OutputMove
  BY <1>8, EndsGo DEF ChildEnds
<1>9. ASSUME JobDropped PROVE OutputMove
  BY <1>9, EndsGo DEF JobDropped
<1>10. ASSUME NEW result \in Results, Ends(result) PROVE OutputMove
  BY <1>10, EndsGo DEF Ends
<1>11. ASSUME UserWrites PROVE OutputMove
  BY <1>11, NoOutput DEF UserWrites, UserWrite, UserClosesStdin, Abort
<1>12. ASSUME Wait \/ Drop PROVE OutputMove
  BY <1>12, NoOutput DEF Wait, Drop, streamVars
<1>13. ASSUME NEW s \in Outputs, PullError(s) PROVE OutputMove
  BY <1>13 DEF OutputMove, OneMoves
<1> QED
  BY <1>1, <1>2, <1>3, <1>4, <1>5, <1>6, <1>7, <1>8, <1>9, <1>10, <1>11, <1>12, <1>13,
     ForkMoves DEF Next, EventLoop, Program, User, Faults

-----------------------------------------------------------------------------
(* Standard input. *)

\* What was read, what the terminal, the pipe and the stream hold.
All(r, t, i, q) == ((r \o t) \o i) \o q

LEMMA ReadFirst ==
  ASSUME NEW S, NEW r \in Seq(S), NEW t \in Seq(S), t # <<>>
  PROVE  Append(r, Head(t)) \in Seq(S) /\ Tail(t) \in Seq(S)
         /\ Append(r, Head(t)) \o Tail(t) = r \o t
BY MoveFirst

LEMMA AllRead ==
  ASSUME NEW S, NEW r \in Seq(S), NEW t \in Seq(S), t # <<>>, NEW i, NEW q
  PROVE  /\ Append(r, Head(t)) \in Seq(S) /\ Tail(t) \in Seq(S)
         /\ All(Append(r, Head(t)), Tail(t), i, q) = All(r, t, i, q)
BY ReadFirst DEF All

LEMMA NoneBetween == ASSUME NEW S, NEW r \in Seq(S) PROVE r \o <<>> = r
BY ConcatEmptySeq

LEMMA CopyOver ==
  ASSUME NEW S, NEW r \in Seq(S), NEW t \in Seq(S), NEW i \in Seq(S)
  PROVE  (r \o (t \o i)) \o <<>> = (r \o t) \o i
<1>1. (r \o t) \o i = r \o (t \o i)
  BY ConcatAssociative
<1>2. t \o i \in Seq(S)
  BY ConcatProperties
<1>3. r \o (t \o i) \in Seq(S)
  BY <1>2, ConcatProperties
<1>4. (r \o (t \o i)) \o <<>> = r \o (t \o i)
  BY <1>3, ConcatEmptySeq
<1> QED
  BY <1>1, <1>4

LEMMA AllCopy ==
  ASSUME NEW S, NEW r \in Seq(S), NEW t \in Seq(S), NEW i \in Seq(S), NEW q
  PROVE  All(r, t \o i, <<>>, q) = All(r, t, i, q)
BY CopyOver DEF All

LEMMA Together ==
  ASSUME NEW S, NEW r \in Seq(S), NEW t \in Seq(S), NEW i \in Seq(S)
  PROVE  /\ (r \o t) \o i \in Seq(S)
         /\ Len((r \o t) \o i) = Len(r) + Len(t) + Len(i)
<1>1. r \o t \in Seq(S) /\ Len(r \o t) = Len(r) + Len(t)
  BY ConcatProperties
<1>2. (r \o t) \o i \in Seq(S) /\ Len((r \o t) \o i) = Len(r \o t) + Len(i)
  BY <1>1, ConcatProperties
<1> QED
  BY <1>1, <1>2

LEMMA AllLen ==
  ASSUME NEW S, NEW r \in Seq(S), NEW t \in Seq(S), NEW i \in Seq(S), NEW q \in Seq(S)
  PROVE  /\ All(r, t, i, q) \in Seq(S)
         /\ Len(All(r, t, i, q)) = Len(r) + Len(t) + Len(i) + Len(q)
<1> DEFINE w == (r \o t) \o i
<1>1. w \in Seq(S) /\ Len(w) = Len(r) + Len(t) + Len(i)
  BY Together
<1> HIDE DEF w
<1>2. w \o q \in Seq(S) /\ Len(w \o q) = Len(w) + Len(q)
  BY <1>1, ConcatProperties
<1> QED
  BY <1>1, <1>2 DEF All, w

LEMMA AllSink ==
  ASSUME NEW S, NEW r \in Seq(S), NEW t \in Seq(S), NEW i \in Seq(S), NEW q \in Seq(S), q # <<>>
  PROVE  /\ Append(i, Head(q)) \in Seq(S) /\ Tail(q) \in Seq(S)
         /\ All(r, t, Append(i, Head(q)), Tail(q)) = All(r, t, i, q)
<1> DEFINE v == r \o t
<1>1. v \in Seq(S) /\ v \o i \in Seq(S) /\ Head(q) \in S
  BY Together, ConcatProperties, HeadTailProperties
<1> HIDE DEF v
<1>2. v \o Append(i, Head(q)) = Append(v \o i, Head(q)) /\ Append(i, Head(q)) \in Seq(S)
  BY <1>1, AddLast
<1> DEFINE w == v \o i
<1>3. w \in Seq(S)
  BY <1>1
<1> HIDE DEF w
<1>4. Append(w, Head(q)) \o Tail(q) = w \o q /\ Tail(q) \in Seq(S)
  BY <1>3, MoveFirst
<1> QED
  BY <1>2, <1>4 DEF All, v, w

LEMMA AllEmpty ==
  ASSUME NEW S, NEW r \in Seq(S)
  PROVE  All(r, <<>>, <<>>, <<>>) = r
BY NoneBetween DEF All

-----------------------------------------------------------------------------
SinkType == [state : {"none", "writable", "closing", "closed", "errored"},
             queue : Seq(InData), wrote : 0..MaxIn]
PipeType == [data : Seq(InData), ended : BOOLEAN, gone : BOOLEAN]

InputTyped ==
    /\ sink \in SinkType /\ inp \in PipeType /\ tty \in PipeType
    /\ read \in Seq(InData) /\ eof \in BOOLEAN
    /\ mode \in {"bytes", "terminal", "wasix"} /\ copier \in {"off", "reading", "done"}

\* The program has ended, or will never begin.
Over == prog.state \in {"ended", "dropped"}

\* What is known of the places that standard input passes, each of which ends
\* only behind the one before it.
InputEnds ==
    /\ sink.queue # <<>> => sink.state \in {"writable", "closing"}
    /\ mode = "bytes" => sink.state = "none" /\ inp.data = <<>>
    /\ mode = "terminal" => sink.state # "none"
    /\ inp.ended => sink.state = "closed" \/ Hit
    /\ inp.gone => sink.state = "closed" \/ Hit \/ mode = "wasix"
    /\ copier = "reading" => mode = "terminal"
    /\ mode = "terminal" /\ tty.ended => Hit \/ (inp.ended /\ inp.data = <<>>)
    /\ tty.gone => Over \/ mode = "wasix"
    /\ mode = "wasix" => tty.data = <<>> /\ ~tty.ended

Given == IF mode = "bytes" THEN MaxIn ELSE sink.wrote

\* Nothing is lost on the way to a command that can still read it.
Passing ==
    mode # "wasix" /\ ~Hit /\ ~Over => All(read, tty.data, inp.data, sink.queue) = UpTo(Given)

Input == InputTyped /\ InputEnds /\ Passing /\ EofIsTheEnd

LEMMA InputParts ==
  ASSUME InputTyped
  PROVE  /\ sink.state \in {"none", "writable", "closing", "closed", "errored"}
         /\ sink.queue \in Seq(InData) /\ sink.wrote \in 0..MaxIn /\ MaxIn \in Nat
         /\ inp.data \in Seq(InData) /\ inp.ended \in BOOLEAN /\ inp.gone \in BOOLEAN
         /\ tty.data \in Seq(InData) /\ tty.ended \in BOOLEAN /\ tty.gone \in BOOLEAN
         /\ read \in Seq(InData)
BY StreamsAssumption DEF InputTyped, SinkType, PipeType

\* EofIsTheEnd in the words of this module.
LEMMA EofMeans ==
  EofIsTheEnd <=> /\ eof /\ ~Hit => sink.state \in {"none", "closed"} /\ read = UpTo(Given)
                  /\ mode = "wasix" => read = <<>> /\ ~eof
BY DEF EofIsTheEnd, Hit, Given

\* What a step of the stream leaves alone.
beyond == <<mode, tty, copier, prog, read, eof>>

\* The stream writes to the pipe, and its user to the stream.
LEMMA UserWriteStep ==
  ASSUME Input, UserWrite, UNCHANGED beyond
  PROVE  Input'
<1> DEFINE n == sink.wrote + 1
           s == [sink EXCEPT !.wrote = n, !.queue = Append(sink.queue, n)]
<1>1. InputTyped /\ sink \in SinkType /\ sink.state = "writable" /\ sink.wrote < MaxIn
      /\ mode # "bytes"
  BY DEF Input, InputTyped, InputEnds, UserWrite
<1>2. sink.wrote \in Nat /\ n \in InData /\ n \in 0..MaxIn
  BY <1>1, InputParts DEF InData
<1>3. Append(sink.queue, n) \in Seq(InData)
  BY <1>1, <1>2, InputParts
<1>4. s \in SinkType /\ s.state = "writable" /\ s.wrote = n /\ s.queue = Append(sink.queue, n)
  BY <1>1, <1>2, <1>3 DEF SinkType
<1>5. sink' = s /\ UNCHANGED <<shared, inp, trouble, beyond>>
  BY DEF UserWrite
<1>6. InputTyped'
  BY <1>1, <1>4, <1>5 DEF InputTyped, beyond
<1>7. InputEnds'
  BY <1>1, <1>4, <1>5 DEF Input, InputEnds, Hit, Over, beyond
<1>8. Passing'
  <2> SUFFICES ASSUME ~Hit, ~Over, mode # "wasix"
               PROVE  All(read, tty.data, inp.data, Append(sink.queue, n)) = UpTo(n)
    BY <1>1, <1>4, <1>5 DEF Passing, Hit, Over, Given, beyond
  <2>1. All(read, tty.data, inp.data, sink.queue) = UpTo(sink.wrote)
    BY <1>1 DEF Input, Passing, Given
  <2> DEFINE w == (read \o tty.data) \o inp.data
  <2>2. w \in Seq(InData) /\ sink.queue \in Seq(InData)
    BY <1>1, InputParts, Together
  <2> HIDE DEF w
  <2>3. \A a, b \in Seq(InData) : \A e \in InData : a \o Append(b, e) = Append(a \o b, e)
    BY AddLast
  <2>4. w \o Append(sink.queue, n) = Append(w \o sink.queue, n)
    BY <1>2, <2>2, <2>3
  <2> QED
    BY <1>2, <2>1, <2>4, CountUp DEF All, w
<1>9. EofIsTheEnd'
  BY <1>1, <1>5 DEF Input, EofIsTheEnd, beyond
<1> QED
  BY <1>6, <1>7, <1>8, <1>9 DEF Input

LEMMA SinkWriteStep ==
  ASSUME Input, SinkWrite, UNCHANGED beyond
  PROVE  Input'
<1> DEFINE s == [sink EXCEPT !.queue = Tail(sink.queue)]
           i == [inp EXCEPT !.data = Append(inp.data, Head(sink.queue))]
<1>1. InputTyped /\ sink \in SinkType /\ inp \in PipeType /\ sink.queue # <<>>
      /\ sink.state \in {"writable", "closing"}
  BY DEF Input, InputTyped, InputEnds, SinkWrite
<1>2. /\ Append(inp.data, Head(sink.queue)) \in Seq(InData) /\ Tail(sink.queue) \in Seq(InData)
      /\ All(read, tty.data, Append(inp.data, Head(sink.queue)), Tail(sink.queue))
           = All(read, tty.data, inp.data, sink.queue)
  BY <1>1, InputParts, AllSink
<1>3. /\ s \in SinkType /\ s.state = sink.state /\ s.wrote = sink.wrote
      /\ s.queue = Tail(sink.queue)
      /\ i \in PipeType /\ i.data = Append(inp.data, Head(sink.queue))
      /\ i.ended = inp.ended /\ i.gone = inp.gone
  BY <1>1, <1>2 DEF SinkType, PipeType
<1>4. sink' = s /\ inp' = i /\ UNCHANGED <<shared, trouble, beyond>>
  BY DEF SinkWrite
<1>5. InputTyped'
  BY <1>1, <1>3, <1>4 DEF InputTyped, beyond
<1>6. InputEnds'
  BY <1>1, <1>3, <1>4 DEF Input, InputEnds, Hit, Over, beyond
<1>7. Passing'
  BY <1>1, <1>2, <1>3, <1>4 DEF Input, Passing, Hit, Over, Given, beyond
<1>8. EofIsTheEnd'
  BY <1>1, <1>3, <1>4 DEF Input, EofIsTheEnd, beyond
<1> QED
  BY <1>5, <1>6, <1>7, <1>8 DEF Input

\* The stream changes its state: it is being closed, it is closed, or fails.
LEMMA SinkStateStep ==
  ASSUME Input, UNCHANGED beyond,
         SinkWriteFails \/ SinkClose \/ UserClosesStdin \/ Abort
  PROVE  Input'
<1>1. InputTyped /\ sink \in SinkType /\ inp \in PipeType
  BY DEF Input, InputTyped
<1>2. sink.state \in {"writable", "closing"}
  BY DEF Input, InputEnds, SinkWriteFails, SinkClose, UserClosesStdin, Abort
<1>3. /\ sink' \in SinkType /\ sink'.wrote = sink.wrote
      /\ inp' \in PipeType /\ inp'.data = inp.data /\ inp'.gone = inp.gone
      /\ Hit => Hit'
      /\ \/ /\ sink'.state = "errored" /\ sink'.queue = <<>>
            /\ (mode = "wasix" \/ Hit')
            /\ (inp'.ended => inp.ended \/ Hit') /\ (inp.ended => inp'.ended)
         \/ sink'.state = "closing" /\ sink'.queue = sink.queue /\ inp' = inp
         \/ /\ sink'.state = "closed" /\ sink.queue = <<>> /\ sink'.queue = <<>>
            /\ (inp.ended => inp'.ended)
  <2>1. CASE SinkWriteFails
    <3>1. sink' = [sink EXCEPT !.state = "errored", !.queue = <<>>] /\ inp' = inp /\ trouble' = trouble
      BY <2>1 DEF SinkWriteFails
    <3>2. mode = "wasix" \/ Hit
      BY <1>2, <2>1 DEF Input, InputEnds, SinkWriteFails
    <3>3. sink' \in SinkType /\ sink'.wrote = sink.wrote /\ sink'.state = "errored"
          /\ sink'.queue = <<>>
      BY <1>1, <3>1, EmptySeq DEF SinkType
    <3> QED
      BY <1>1, <3>1, <3>2, <3>3 DEF Hit
  <2>2. CASE SinkClose
    <3>1. sink' = [sink EXCEPT !.state = "closed"] /\ inp' = [inp EXCEPT !.ended = TRUE]
          /\ trouble' = trouble /\ sink.queue = <<>>
      BY <2>2 DEF SinkClose
    <3> QED
      BY <1>1, <3>1 DEF SinkType, PipeType, Hit
  <2>3. CASE UserClosesStdin
    <3>1. sink' = [sink EXCEPT !.state = "closing"] /\ inp' = inp /\ trouble' = trouble
      BY <2>3 DEF UserClosesStdin
    <3> QED
      BY <1>1, <3>1 DEF SinkType, Hit
  <2>4. CASE Abort
    <3>1. sink' = [sink EXCEPT !.state = "errored", !.queue = <<>>]
          /\ inp' = [inp EXCEPT !.ended = TRUE] /\ Hit'
      BY <2>4 DEF Abort, Disturb, Hit
    <3>2. sink' \in SinkType /\ sink'.wrote = sink.wrote /\ sink'.state = "errored"
          /\ sink'.queue = <<>>
      BY <1>1, <3>1, EmptySeq DEF SinkType
    <3> QED
      BY <1>1, <3>1, <3>2 DEF PipeType
  <2> QED
    BY <2>1, <2>2, <2>3, <2>4
<1>4. InputTyped'
  BY <1>1, <1>3 DEF InputTyped, beyond
<1>5. InputEnds'
  <2>1. mode # "bytes" /\ mode' = mode /\ copier' = copier /\ tty' = tty /\ (Over <=> Over')
    BY <1>2 DEF Input, InputEnds, Over, beyond
  <2>2. inp'.gone => sink'.state = "closed" \/ Hit' \/ mode' = "wasix"
    BY <1>2, <1>3, <2>1 DEF Input, InputEnds
  <2>3. inp'.ended => sink'.state = "closed" \/ Hit'
    BY <1>2, <1>3 DEF Input, InputEnds
  <2> QED
    BY <1>2, <1>3, <2>1, <2>2, <2>3 DEF Input, InputEnds
<1>6. Passing'
  BY <1>2, <1>3 DEF Input, Passing, Over, Given, beyond
<1>7. EofIsTheEnd'
  <2>1. ~eof \/ Hit'
    BY <1>2, <1>3, EofMeans DEF Input
  <2> QED
    BY <2>1 DEF Input, EofIsTheEnd, Hit, beyond
<1> QED
  BY <1>4, <1>5, <1>6, <1>7 DEF Input

\* Nothing of standard input changes; the program may end, or trouble come.
LEMMA InputFrame ==
  ASSUME Input, UNCHANGED <<sink, inp, tty, read, eof, mode, copier>>,
         Hit => Hit', Over => Over'
  PROVE  Input'
<1>1. InputTyped' /\ InputEnds'
  BY DEF Input, InputTyped, InputEnds
<1>2. Passing' /\ EofIsTheEnd'
  BY DEF Input, Passing, EofIsTheEnd, Hit, Given
<1> QED
  BY <1>1, <1>2 DEF Input

\* An end of the pipes of standard input is dropped, when the program is over
\* or the copying stops.
LEMMA PipesGone ==
  ASSUME Input, UNCHANGED <<sink, read, eof, mode>>, Hit => Hit', Over => Over',
         copier' \in {copier, "done"}, inp' \in PipeType, tty' \in PipeType,
         inp'.data = inp.data, inp'.ended = inp.ended,
         inp'.gone => inp.gone \/ Hit' \/ sink.state = "closed",
         tty'.data = tty.data,
         tty'.ended => tty.ended \/ (mode # "wasix" /\ (Hit' \/ (inp.ended /\ inp.data = <<>>))),
         tty'.gone => tty.gone \/ Over'
  PROVE  Input'
<1>1. InputTyped'
  BY DEF Input, InputTyped
<1>2. InputEnds'
  BY DEF Input, InputEnds
<1>3. Passing' /\ EofIsTheEnd'
  BY DEF Input, Passing, EofIsTheEnd, Hit, Given
<1> QED
  BY <1>1, <1>2, <1>3 DEF Input

LEMMA NoMoreInputStep ==
  ASSUME Input, UNCHANGED <<sink, inp, read, eof, mode, copier, trouble>>, Over => Over',
         \/ NoMoreInput /\ Over'
         \/ UNCHANGED tty
  PROVE  Input'
<1>1. inp \in PipeType /\ tty \in PipeType /\ (Hit => Hit')
  BY DEF Input, InputTyped, Hit
<1>2. CASE UNCHANGED tty
  BY <1>1, <1>2, InputFrame
<1>3. CASE NoMoreInput /\ Over'
  <2>1. tty' = [tty EXCEPT !.gone = TRUE]
    BY <1>3 DEF NoMoreInput
  <2>2. tty' \in PipeType /\ tty'.data = tty.data /\ tty'.ended = tty.ended
    BY <1>1, <2>1 DEF PipeType
  <2> QED
    BY <1>1, <1>3, <2>2, PipesGone
<1> QED
  BY <1>2, <1>3

LEMMA StopCopyingStep ==
  ASSUME Input, CopyEof \/ CopyError
  PROVE  Input'
<1>1. inp \in PipeType /\ tty \in PipeType
  BY DEF Input, InputTyped
<1>2. /\ inp' = [inp EXCEPT !.gone = TRUE] /\ tty' = [tty EXCEPT !.ended = TRUE]
      /\ copier' = "done" /\ UNCHANGED <<sink, read, eof, mode, prog>>
  BY DEF CopyEof, CopyError, StopCopying, progVars
<1>3. /\ Hit => Hit'
      /\ Hit' \/ (inp.ended /\ inp.data = <<>>)
  BY DEF CopyEof, CopyError, Disturb, Hit
<1>4. (inp.ended => sink.state = "closed" \/ Hit) /\ mode # "wasix"
  BY DEF Input, InputEnds, CopyEof, CopyError
<1>5. /\ inp' \in PipeType /\ inp'.data = inp.data /\ inp'.ended = inp.ended
      /\ tty' \in PipeType /\ tty'.data = tty.data /\ tty'.gone = tty.gone
  BY <1>1, <1>2 DEF PipeType
<1>6. Over => Over'
  BY <1>2 DEF Over
<1> QED
  BY <1>2, <1>3, <1>4, <1>5, <1>6, PipesGone

LEMMA CopyDataStep ==
  ASSUME Input, CopyData
  PROVE  Input'
<1> DEFINE i == [inp EXCEPT !.data = <<>>]
           u == [tty EXCEPT !.data = IF tty.gone THEN tty.data ELSE tty.data \o inp.data]
<1>1. InputTyped /\ inp \in PipeType /\ tty \in PipeType /\ mode = "terminal" /\ inp.data # <<>>
  BY DEF Input, InputTyped, InputEnds, CopyData
<1>2. tty.data \o inp.data \in Seq(InData) /\ tty.data \in Seq(InData)
  BY <1>1, InputParts, ConcatProperties
<1>3. /\ i \in PipeType /\ i.data = <<>> /\ i.ended = inp.ended /\ i.gone = inp.gone
      /\ u \in PipeType /\ u.ended = tty.ended /\ u.gone = tty.gone
      /\ ~tty.gone => u.data = tty.data \o inp.data
  <2>1. i \in PipeType /\ i.data = <<>> /\ i.ended = inp.ended /\ i.gone = inp.gone
    BY <1>1, EmptySeq DEF PipeType
  <2>2. /\ u \in PipeType /\ u.ended = tty.ended /\ u.gone = tty.gone
        /\ ~tty.gone => u.data = tty.data \o inp.data
    BY <1>1, <1>2 DEF PipeType
  <2> QED
    BY <2>1, <2>2
<1>4. inp' = i /\ tty' = u /\ UNCHANGED <<sink, read, eof, mode, copier, trouble, prog>>
  BY DEF CopyData, progVars
<1>5. InputTyped'
  BY <1>3, <1>4 DEF Input, InputTyped
<1>6. InputEnds'
  BY <1>1, <1>3, <1>4 DEF Input, InputEnds, Hit, Over
<1>7. Passing'
  <2> SUFFICES ASSUME ~Hit, ~Over
               PROVE  All(read, tty.data \o inp.data, <<>>, sink.queue) = UpTo(sink.wrote)
    BY <1>1, <1>3, <1>4 DEF Input, InputEnds, Passing, Hit, Over, Given
  <2>1. All(read, tty.data \o inp.data, <<>>, sink.queue)
          = All(read, tty.data, inp.data, sink.queue)
    BY <1>1, InputParts, AllCopy
  <2> QED
    BY <1>1, <2>1 DEF Input, Passing, Given
<1>8. EofIsTheEnd'
  BY <1>4 DEF Input, EofIsTheEnd
<1> QED
  BY <1>5, <1>6, <1>7, <1>8 DEF Input

\* A program that has seen the end has nothing left to read.
LEMMA NothingAfterEof ==
  ASSUME Input, Running, eof, ~Hit
  PROVE  tty.data = <<>> /\ inp.data = <<>> /\ sink.queue = <<>>
<1>1. read = UpTo(Given) /\ mode # "wasix"
  BY EofMeans DEF Input
<1>2. All(read, tty.data, inp.data, sink.queue) = UpTo(Given)
  BY <1>1 DEF Input, Passing, Running, Over
<1>3. /\ read \in Seq(InData) /\ tty.data \in Seq(InData) /\ inp.data \in Seq(InData)
      /\ sink.queue \in Seq(InData)
  BY InputParts DEF Input
<1> DEFINE w == (read \o tty.data) \o inp.data
<1>4. w \in Seq(InData) /\ Len(w) = Len(read) + Len(tty.data) + Len(inp.data)
  BY <1>3, Together
<1> HIDE DEF w
<1>5. Len(w \o sink.queue) = Len(w) + Len(sink.queue)
  BY <1>3, <1>4, ConcatProperties
<1>6. Len(w \o sink.queue) = Len(read)
  BY <1>1, <1>2 DEF All, w
<1>7. /\ Len(read) \in Nat /\ Len(tty.data) \in Nat /\ Len(inp.data) \in Nat
      /\ Len(sink.queue) \in Nat
  BY <1>3
<1>8. Len(tty.data) = 0 /\ Len(inp.data) = 0 /\ Len(sink.queue) = 0
  <2>1. ((Len(read) + Len(tty.data)) + Len(inp.data)) + Len(sink.queue) = Len(read)
    BY <1>4, <1>5, <1>6
  <2>2. \A a, b, c, d \in Nat : ((a + b) + c) + d = a => b = 0 /\ c = 0 /\ d = 0
    OBVIOUS
  <2> QED
    BY <1>7, <2>1, <2>2
<1> QED
  BY <1>3, <1>8, EmptySeq

LEMMA ProgReadsStep ==
  ASSUME Input, ProgReads
  PROVE  Input'
<1> DEFINE u == [tty EXCEPT !.data = Tail(tty.data)]
<1>1. InputTyped /\ tty \in PipeType /\ Running /\ tty.data # <<>> /\ mode # "wasix"
  BY DEF Input, InputTyped, InputEnds, ProgReads
<1>2. UNCHANGED <<sink, inp, eof, mode, copier, trouble, prog>>
      /\ read' = Append(read, Head(tty.data)) /\ tty' = u
  BY DEF ProgReads, streamVars
<1>3. /\ Append(read, Head(tty.data)) \in Seq(InData) /\ Tail(tty.data) \in Seq(InData)
      /\ All(Append(read, Head(tty.data)), Tail(tty.data), inp.data, sink.queue)
           = All(read, tty.data, inp.data, sink.queue)
  BY <1>1, InputParts, AllRead
<1>4. u \in PipeType /\ u.data = Tail(tty.data) /\ u.ended = tty.ended /\ u.gone = tty.gone
  BY <1>1, <1>3 DEF PipeType
<1>5. InputTyped'
  BY <1>1, <1>2, <1>3, <1>4 DEF InputTyped
<1>6. InputEnds'
  BY <1>1, <1>2, <1>4 DEF Input, InputEnds, Hit, Over
<1>7. Passing'
  BY <1>2, <1>3, <1>4 DEF Input, Passing, Hit, Over, Given
<1>8. EofIsTheEnd'
  <2>1. ~eof \/ Hit
    BY <1>1, NothingAfterEof
  <2> QED
    BY <1>1, <1>2, <2>1 DEF EofIsTheEnd, Hit
<1> QED
  BY <1>5, <1>6, <1>7, <1>8 DEF Input

LEMMA ProgSeesEofStep ==
  ASSUME Input, ProgSeesEof
  PROVE  Input'
<1>1. UNCHANGED <<sink, inp, tty, read, mode, copier, trouble, prog>> /\ eof' = TRUE /\ Running
      /\ mode # "wasix"
  BY DEF ProgSeesEof, streamVars, Input, InputEnds
<1>2. InputTyped' /\ InputEnds' /\ Passing'
  BY <1>1 DEF Input, InputTyped, InputEnds, Passing, Hit, Over, Given
<1>3. ~Hit => sink.state \in {"none", "closed"} /\ read = UpTo(Given)
  <2> SUFFICES ASSUME ~Hit PROVE sink.state \in {"none", "closed"} /\ read = UpTo(Given)
    OBVIOUS
  <2>1. InputTyped /\ InputEnds /\ tty.data = <<>> /\ tty.ended
    BY DEF Input, ProgSeesEof
  <2>2. sink.state \in {"none", "closed"}
    BY <1>1, <2>1, InputParts DEF InputEnds, InputTyped
  <2>3. tty.data = <<>> /\ inp.data = <<>> /\ sink.queue = <<>>
    BY <1>1, <2>1, <2>2 DEF InputEnds, InputTyped
  <2>4. All(read, <<>>, <<>>, <<>>) = UpTo(Given)
    BY <1>1, <2>3 DEF Input, Passing, Running, Over
  <2>5. All(read, <<>>, <<>>, <<>>) = read
    BY <2>1, InputParts, AllEmpty
  <2> QED
    BY <2>2, <2>4, <2>5
<1>4. EofIsTheEnd'
  BY <1>1, <1>3 DEF EofIsTheEnd, Hit, Given
<1> QED
  BY <1>2, <1>4 DEF Input

-----------------------------------------------------------------------------
LEMMA TroubleGrows ==
  ASSUME Next
  PROVE  /\ Hit => Hit'
         /\ trouble \subseteq Troubles => trouble' \subseteq Troubles
         /\ shared' = shared /\ mode' = mode
<1>1. \/ trouble' = trouble
      \/ \E new \in Troubles : trouble' = trouble \cup {new}
  BY DEF Next, EventLoop, StreamsInternal, SinkWrite, SinkWriteFails, SinkClose, PullData, PullEof,
     CopyData, CopyEof, StopCopying, StdinClosed, StdinFails, StdinTypeError, JoinSucceeds, JoinFails, Collect,
     Program, Begin, ProgWrites, Write, ProgReads, ProgSeesEof, Forks, ChildWrites, WritesElsewhere, ChildEnds,
     JobDropped, Ends, SendExit, User, UserWrites, UserWrite, UserClosesStdin, Abort, UserReads,
     UserCancels, Cancel, Wait, Join, Drop, Faults, PullError, CopyError, Disturb, Troubles,
     streamVars, runVars, progVars
<1>2. shared' = shared /\ mode' = mode
  BY DEF Next, EventLoop, StreamsInternal, SinkWrite, SinkWriteFails, SinkClose, PullData, PullEof,
     CopyData, CopyEof, StopCopying, StdinClosed, StdinFails, StdinTypeError, JoinSucceeds, JoinFails, Collect,
     Program, Begin, ProgWrites, Write, ProgReads, ProgSeesEof, Forks, ChildWrites, WritesElsewhere, ChildEnds,
     JobDropped, Ends, SendExit, User, UserWrites, UserWrite, UserClosesStdin, Abort, UserReads,
     UserCancels, Cancel, Wait, Drop, Faults, PullError, CopyError, streamVars, runVars
<1> QED
  BY <1>1, <1>2 DEF Hit

\* The program does not come back.
LEMMA OverStays ==
  ASSUME Next
  PROVE  /\ Over => Over'
         /\ \/ prog' = prog \/ prog' = [prog EXCEPT !.state = "running"]
            \/ prog' = [state |-> "dropped", result |-> "Failed"]
            \/ \E result \in Results : prog' = [state |-> "ended", result |-> result]
BY DEF Next, EventLoop, StreamsInternal, CopyData, CopyEof, StopCopying, StdinClosed, StdinFails,
   StdinTypeError, JoinSucceeds, JoinFails, Collect, Program, Begin, ProgWrites, Write, ProgReads, ProgSeesEof,
   Forks, ChildWrites, WritesElsewhere, ChildEnds, JobDropped, Ends, Running, SendExit, User, UserWrites,
   UserReads, UserCancels, Wait, Drop, Faults, CopyError, runVars, progVars, Over

LEMMA InputStep ==
  ASSUME Input, Next
  PROVE  Input'
<1>0. (Hit => Hit') /\ (Over => Over')
  BY TroubleGrows, OverStays
<1>1. ASSUME StreamsInternal, UNCHANGED runVars PROVE Input'
  <2>1. UNCHANGED beyond
    BY <1>1 DEF beyond, runVars, progVars
  <2>2. ASSUME NEW s \in Outputs, PullData(s) \/ PullEof(s) PROVE Input'
    BY <1>0, <2>1, <2>2, InputFrame DEF PullData, PullEof, beyond, runVars
  <2> QED
    BY <1>1, <2>1, <2>2, SinkWriteStep, SinkStateStep DEF StreamsInternal
<1>2. ASSUME UserWrites, UNCHANGED runVars PROVE Input'
  <2>1. UNCHANGED beyond
    BY <1>2 DEF beyond, runVars, progVars
  <2> QED
    BY <1>2, <2>1, UserWriteStep, SinkStateStep DEF UserWrites
<1>3. ASSUME StdinClosed \/ StdinFails \/ StdinTypeError \/ JoinSucceeds \/ JoinFails PROVE Input'
  BY <1>0, <1>3, InputFrame DEF StdinClosed, StdinFails, StdinTypeError, JoinSucceeds, JoinFails, streamVars, progVars
<1>4. ASSUME NEW s \in Outputs, Collect(s) \/ UserReads(s) \/ UserCancels(s) PROVE Input'
  BY <1>0, <1>4, InputFrame DEF Collect, UserReads, UserCancels, Cancel, runVars, progVars
<1>5. ASSUME Begin \/ SendExit \/ Forks \/ WritesElsewhere PROVE Input'
  BY <1>0, <1>5, InputFrame DEF Begin, SendExit, Forks, WritesElsewhere, streamVars, progVars
<1>6. ASSUME ProgWrites \/ ChildWrites PROVE Input'
  BY <1>0, <1>6, InputFrame DEF ProgWrites, ChildWrites, Write, runVars, progVars
<1>7. ASSUME ChildEnds PROVE Input'
  <2>1. UNCHANGED <<sink, inp, read, eof, mode, copier, trouble, prog>>
    BY <1>7 DEF ChildEnds
  <2>2. (NoMoreInput /\ Over') \/ UNCHANGED tty
    BY <1>7, <2>1 DEF ChildEnds, Over
  <2> QED
    BY <1>0, <2>1, <2>2, NoMoreInputStep
<1>8. ASSUME JobDropped PROVE Input'
  <2>1. UNCHANGED <<sink, inp, read, eof, mode, copier, trouble>> /\ NoMoreInput /\ Over'
    BY <1>8 DEF JobDropped, Over
  <2> QED
    BY <1>0, <2>1, NoMoreInputStep
<1>9. ASSUME NEW result \in Results, Ends(result) PROVE Input'
  <2>1. UNCHANGED <<sink, inp, read, eof, mode, copier, trouble>> /\ Over'
    BY <1>9 DEF Ends, Over
  <2>2. (NoMoreInput /\ Over') \/ UNCHANGED tty
    BY <1>9, <2>1 DEF Ends
  <2> QED
    BY <1>0, <2>1, <2>2, NoMoreInputStep
<1>10. ASSUME Wait PROVE Input'
  <2>1. CASE sink' = sink
    BY <1>0, <1>10, <2>1, InputFrame DEF Wait, progVars
  <2>2. CASE sink.state = "writable" /\ sink' = [sink EXCEPT !.state = "closing"] /\ trouble' = trouble
    <3>1. UserClosesStdin /\ UNCHANGED beyond
      BY <1>10, <2>2 DEF Wait, UserClosesStdin, beyond, progVars
    <3> QED
      BY <3>1, SinkStateStep
  <2> QED
    BY <1>10, <2>1, <2>2 DEF Wait
<1>11. ASSUME Drop PROVE Input'
  BY <1>0, <1>11, InputFrame DEF Drop, streamVars, progVars
<1>12. ASSUME NEW s \in Outputs, PullError(s), UNCHANGED runVars PROVE Input'
  BY <1>0, <1>12, InputFrame DEF PullError, runVars, progVars
<1> QED
  BY <1>1, <1>2, <1>3, <1>4, <1>5, <1>6, <1>7, <1>8, <1>9, <1>10, <1>11, <1>12,
     CopyDataStep, StopCopyingStep, ProgReadsStep, ProgSeesEofStep
  DEF Next, EventLoop, Program, User, Faults

-----------------------------------------------------------------------------
(* The exit code, wait() and the thread pool. *)

ProgType == [state : {"queued", "running", "ended", "dropped"},
             result : {"Ok", "Exit7", "Failed"}]
ExitType == [state : {"pending", "sent", "canceled"}, code : {0, 1, 7}]

RestTyped ==
    /\ shared \in BOOLEAN /\ trouble \subseteq Troubles
    /\ prog \in ProgType /\ child \in {"none", "running", "ended"} /\ exit \in ExitType
    /\ wait \in {"none", "stdin", "join", "ok", "err", "dropped"}
    /\ mine \subseteq Outputs /\ code \in {0, 1, 7}

\* The channel of the exit condition and wait() tell the truth.
Outcome ==
    /\ exit.state = "sent" => prog.state = "ended" /\ exit.code = from_result(prog.result)
    /\ exit.state = "canceled" => prog.state = "dropped"
    /\ wait = "ok" => /\ exit.state = "sent" /\ code = exit.code
                      /\ \A s \in mine : srcs[s].state \in {"closed", "cancelled"}

\* Who is left holds the thread pool, and the ends of the outputs.
Holders ==
    /\ held \subseteq {"instance", "job", "child"} /\ elsewhere \in 0..MaxOut
    /\ "instance" \in held <=> wait \in {"none", "stdin", "join"}
    /\ "job" \in held <=> prog.state \in {"queued", "running"}
    /\ "child" \in held <=> child = "running"
    /\ \A s \in Outputs : /\ "prog" \in outs[s].ends => prog.state \in {"queued", "running"}
                          /\ "child" \in outs[s].ends => child = "running" /\ s = "stdout"

\* The outputs of a runWasix program have never had an end in its hands.
NoneGiven == mode = "wasix" => \A s \in Outputs : outs[s].wrote = 0 /\ outs[s].ended

IInv == /\ OutputsTyped /\ NothingLost /\ StreamEnds
        /\ Input
        /\ RestTyped /\ Outcome
        /\ Holders /\ NoneGiven

\* A stream that is done stays so.
LEMMA DoneStays ==
  ASSUME OutputsTyped, StreamEnds, OutputMove, NEW s \in Outputs,
         srcs[s].state \in {"closed", "cancelled"}
  PROVE  srcs'[s].state \in {"closed", "cancelled"}
<1>1. srcs \in [Outputs -> SrcType] /\ srcs[s].queue = <<>>
  BY DEF OutputsTyped, StreamEnds
<1>2. CASE srcs' = srcs
  BY <1>2
<1>3. ASSUME NEW u \in Outputs,
             PullData(u) \/ PullEof(u) \/ PullError(u) \/ Cancel(u) \/ ReadChunk(u)
      PROVE  u # s /\ srcs'[s] = srcs[s]
  <2>1. u # s
    BY <1>1, <1>3 DEF PullData, PullEof, PullError, Cancel, ReadChunk
  <2> QED
    BY <1>1, <1>3, <2>1 DEF PullData, PullEof, PullError, Cancel, ReadChunk
<1> QED
  BY <1>2, <1>3 DEF OutputMove, EndsChange, OneMoves

\* A step that leaves the program, its exit code and wait() as they are.
LEMMA OutcomeFrame ==
  ASSUME IInv, Next, UNCHANGED <<prog, child, exit, wait, mine, code>>
  PROVE  (RestTyped /\ Outcome)'
<1>1. OutputMove /\ (Hit => Hit') /\ trouble' \subseteq Troubles /\ shared' = shared
  BY Moves, TroubleGrows DEF IInv, RestTyped
<1>2. RestTyped'
  BY <1>1 DEF IInv, RestTyped
<1>3. wait = "ok" => \A s \in mine : srcs'[s].state \in {"closed", "cancelled"}
  BY <1>1, DoneStays DEF IInv, RestTyped, Outcome
<1> QED
  BY <1>2, <1>3 DEF IInv, Outcome

\* The program, its child or its exit code goes on; wait() does not.
LEMMA ProgramOutcome ==
  ASSUME IInv, Next, UNCHANGED <<wait, mine, code>>,
         Begin \/ ChildEnds \/ Forks \/ SendExit \/ JobDropped \/ \E result \in Results : Ends(result)
  PROVE  (RestTyped /\ Outcome)'
<1>1. OutputMove /\ (Hit => Hit') /\ trouble' \subseteq Troubles /\ shared' = shared
  BY Moves, TroubleGrows DEF IInv, RestTyped
<1>2. prog \in ProgType /\ exit \in ExitType /\ child \in {"none", "running", "ended"}
  BY DEF IInv, RestTyped
<1>3. /\ prog' \in ProgType /\ exit' \in ExitType /\ child' \in {"none", "running", "ended"}
      /\ exit'.state = "sent" => prog'.state = "ended" /\ exit'.code = from_result(prog'.result)
      /\ exit'.state = "canceled" => prog'.state = "dropped"
      /\ exit.state = "sent" => exit'.state = "sent" /\ exit'.code = exit.code
  <2>1. CASE Begin
    BY <1>2, <2>1 DEF Begin, ProgType, IInv, Outcome
  <2>2. CASE ChildEnds \/ Forks
    BY <1>2, <2>2 DEF ChildEnds, Forks, IInv, Outcome
  <2>3. CASE SendExit
    <3>1. from_result(prog.result) \in {0, 1, 7}
      BY <1>2 DEF from_result, ProgType
    <3>2. exit' = [state |-> "sent", code |-> from_result(prog.result)] /\ prog' = prog
          /\ child' = child /\ prog.state = "ended" /\ exit.state = "pending"
      BY <2>3 DEF SendExit
    <3> HIDE DEF from_result
    <3> QED
      BY <1>2, <3>1, <3>2 DEF ExitType
  <2>4. CASE JobDropped
    <3>1. /\ prog' = [state |-> "dropped", result |-> "Failed"] /\ child' = child
          /\ exit' = [exit EXCEPT !.state = "canceled"] /\ prog.state = "queued"
      BY <2>4 DEF JobDropped
    <3>2. exit.state # "sent"
      BY <3>1 DEF IInv, Outcome
    <3> QED
      BY <1>2, <3>1, <3>2 DEF ProgType, ExitType
  <2>5. ASSUME NEW result \in Results, Ends(result)
        PROVE  /\ prog' \in ProgType /\ exit' = exit /\ child' = child
               /\ prog'.state = "ended" /\ prog.state = "running"
    BY <1>2, <2>5, ResultsAssumption DEF Ends, Running, ProgType
  <2>6. CASE \E result \in Results : Ends(result)
    <3>1. exit.state \notin {"sent", "canceled"}
      BY <2>5, <2>6 DEF IInv, Outcome
    <3> QED
      BY <1>2, <2>5, <2>6, <3>1
  <2> QED
    BY <2>1, <2>2, <2>3, <2>4, <2>6
<1>4. RestTyped'
  BY <1>1, <1>3 DEF IInv, RestTyped
<1>5. wait = "ok" => \A s \in mine : srcs'[s].state \in {"closed", "cancelled"}
  BY <1>1, DoneStays DEF IInv, RestTyped, Outcome
<1>6. Outcome'
  BY <1>3, <1>5 DEF IInv, Outcome
<1> QED
  BY <1>4, <1>6

\* wait() begins, goes on or returns, or the Instance is dropped.
LEMMA WaitOutcome ==
  ASSUME IInv, Next, UNCHANGED <<prog, child, exit>>,
         \/ Wait \/ StdinClosed \/ StdinFails \/ StdinTypeError
         \/ JoinSucceeds \/ JoinFails \/ Drop
  PROVE  (RestTyped /\ Outcome)'
<1>1. trouble' \subseteq Troubles /\ shared' = shared
  BY TroubleGrows DEF IInv, RestTyped
<1>2. prog \in ProgType /\ exit \in ExitType /\ mine \subseteq Outputs /\ code \in {0, 1, 7}
      /\ srcs \in [Outputs -> SrcType]
  BY DEF IInv, RestTyped, OutputsTyped
<1>3. /\ exit.state = "sent" => prog.state = "ended" /\ exit.code = from_result(prog.result)
      /\ exit.state = "canceled" => prog.state = "dropped"
  BY DEF IInv, Outcome
<1>4. CASE JoinSucceeds
  <2>1. /\ wait' = "ok" /\ mine' = mine /\ code' = exit.code
        /\ exit.state = "sent" /\ \A s \in mine : Done(s) /\ srcs' = srcs
    BY <1>4 DEF JoinSucceeds, Return, streamVars
  <2>2. \A s \in mine : srcs'[s].state \in {"closed", "cancelled"}
    BY <1>4, <2>1 DEF Done, JoinSucceeds, streamVars
  <2>3. code' \in {0, 1, 7}
    BY <1>2, <2>1 DEF ExitType
  <2> QED
    BY <1>1, <1>3, <2>1, <2>2, <2>3 DEF IInv, RestTyped, Outcome
<1>5. CASE Wait \/ StdinClosed \/ StdinFails \/ StdinTypeError \/ JoinFails \/ Drop
  <2>1. wait' \in {"stdin", "join", "err", "dropped"} /\ mine' \subseteq Outputs /\ code' = code
    BY <1>2, <1>5 DEF Wait, StdinClosed, StdinFails, StdinTypeError, JoinFails, Drop, Return, Join
  <2> QED
    BY <1>1, <1>3, <2>1 DEF IInv, RestTyped, Outcome
<1> QED
  BY <1>4, <1>5

LEMMA OutcomeStep ==
  ASSUME IInv, Next
  PROVE  (RestTyped /\ Outcome)'
<1>1. ASSUME StreamsInternal \/ UserWrites \/ (\E s \in Outputs : PullError(s)), UNCHANGED runVars
      PROVE  (RestTyped /\ Outcome)'
  BY <1>1, OutcomeFrame DEF runVars, progVars, waitVars
<1>2. ASSUME CopyData \/ CopyEof \/ CopyError PROVE (RestTyped /\ Outcome)'
  BY <1>2, OutcomeFrame DEF CopyData, CopyEof, CopyError, StopCopying, progVars, waitVars
<1>3. ASSUME NEW s \in Outputs, Collect(s) \/ UserReads(s) \/ UserCancels(s)
      PROVE  (RestTyped /\ Outcome)'
  BY <1>3, OutcomeFrame DEF Collect, UserReads, UserCancels, runVars, progVars, waitVars
<1>4. ASSUME ProgWrites \/ ChildWrites \/ WritesElsewhere PROVE (RestTyped /\ Outcome)'
  BY <1>4, OutcomeFrame
  DEF ProgWrites, ChildWrites, WritesElsewhere, Write, runVars, progVars, waitVars
<1>5. ASSUME ProgReads \/ ProgSeesEof PROVE (RestTyped /\ Outcome)'
  BY <1>5, OutcomeFrame DEF ProgReads, ProgSeesEof, waitVars
<1>6. ASSUME Begin \/ ChildEnds \/ Forks \/ SendExit \/ JobDropped
             \/ \E result \in Results : Ends(result)
      PROVE  (RestTyped /\ Outcome)'
  <2>1. UNCHANGED <<wait, mine, code>>
    BY <1>6 DEF Begin, ChildEnds, Forks, SendExit, JobDropped, Ends, waitVars
  <2> QED
    BY <1>6, <2>1, ProgramOutcome
<1>7. ASSUME Wait \/ StdinClosed \/ StdinFails \/ StdinTypeError \/ JoinSucceeds \/ JoinFails \/ Drop
      PROVE  (RestTyped /\ Outcome)'
  <2>1. UNCHANGED <<prog, child, exit>>
    BY <1>7 DEF Wait, StdinClosed, StdinFails, StdinTypeError, JoinSucceeds, JoinFails, Drop, progVars
  <2> QED
    BY <1>7, <2>1, WaitOutcome
<1> QED
  BY <1>1, <1>2, <1>3, <1>4, <1>5, <1>6, <1>7 DEF Next, EventLoop, Program, User, Faults

-----------------------------------------------------------------------------
(* Who holds what. *)

\* Nothing begins or ends.
LEMMA HoldersFrame ==
  ASSUME Holders, UNCHANGED <<held, wait, prog, child>>, elsewhere' \in 0..MaxOut,
         \A s \in Outputs : outs'[s].ends \subseteq outs[s].ends
  PROVE  Holders'
BY DEF Holders

\* Output s is written, pulled or cancelled.
LEMMA OneKeepsEnds ==
  ASSUME OutputsTyped, NEW s \in Outputs,
         Accept(s) \/ PullData(s) \/ PullEof(s) \/ PullError(s) \/ Cancel(s)
  PROVE  \A u \in Outputs :
            /\ outs'[u].ends \subseteq outs[u].ends
            /\ ~Accept(s) => outs'[u].wrote = outs[u].wrote /\ outs'[u].ended = outs[u].ended
<1>1. outs \in [Outputs -> OutType] /\ outs[s] \in OutType
  BY DEF OutputsTyped
<1>2. ASSUME NEW o, outs' = [outs EXCEPT ![s] = o], o.ends = outs[s].ends,
             ~Accept(s) => o.wrote = outs[s].wrote /\ o.ended = outs[s].ended
      PROVE  \A u \in Outputs :
                /\ outs'[u].ends \subseteq outs[u].ends
                /\ ~Accept(s) => outs'[u].wrote = outs[u].wrote /\ outs'[u].ended = outs[u].ended
  BY <1>1, <1>2
<1>3. CASE Accept(s)
  <2> DEFINE o == [outs[s] EXCEPT !.wrote = outs[s].wrote + 1,
                                  !.data = Append(outs[s].data, outs[s].wrote + 1)]
  <2>1. outs' = [outs EXCEPT ![s] = o]
    BY <1>3 DEF Accept
  <2>2. o.ends = outs[s].ends
    BY <1>1 DEF OutType
  <2> HIDE DEF o
  <2> QED
    BY <1>2, <1>3, <2>1, <2>2
<1>4. CASE PullData(s)
  <2>1. PICK n \in 1..Room(s) : outs' = [outs EXCEPT ![s].data = SubSeq(@, n + 1, Len(@))]
    BY <1>4 DEF PullData
  <2> DEFINE o == [outs[s] EXCEPT !.data = SubSeq(outs[s].data, n + 1, Len(outs[s].data))]
  <2>2. outs' = [outs EXCEPT ![s] = o]
    BY <2>1
  <2>3. o.ends = outs[s].ends /\ o.wrote = outs[s].wrote /\ o.ended = outs[s].ended
    BY <1>1 DEF OutType
  <2> HIDE DEF o
  <2> QED
    BY <1>2, <2>2, <2>3
<1>5. CASE Cancel(s)
  <2> DEFINE o == [outs[s] EXCEPT !.gone = TRUE]
  <2>1. outs' = [outs EXCEPT ![s] = o]
    BY <1>5 DEF Cancel
  <2>2. o.ends = outs[s].ends /\ o.wrote = outs[s].wrote /\ o.ended = outs[s].ended
    BY <1>1 DEF OutType
  <2> HIDE DEF o
  <2> QED
    BY <1>2, <2>1, <2>2
<1>6. CASE PullEof(s) \/ PullError(s)
  BY <1>6 DEF PullEof, PullError
<1> QED
  BY <1>3, <1>4, <1>5, <1>6

\* An end that is let go of is one less.
LEMMA LetGo ==
  ASSUME OutputsTyped, NEW e,
         \/ outs' = [outs EXCEPT !["stdout"] = DropEnd(@, e)]
         \/ outs' = [outs EXCEPT !["stdout"] = CloseEnd(@, e)]
         \/ outs' = [s \in Outputs |-> DropEnd(outs[s], e)]
         \/ outs' = [s \in Outputs |-> CloseEnd(outs[s], e)]
  PROVE  \A s \in Outputs : /\ outs'[s].ends \subseteq outs[s].ends
                            /\ e \in outs'[s].ends => s = "stderr" /\ outs'[s] = outs[s]
<1>1. outs \in [Outputs -> OutType] /\ Outputs = {"stdout", "stderr"}
  BY DEF OutputsTyped, Outputs
<1>2. \A s \in Outputs : \/ s = "stderr" /\ outs'[s] = outs[s]
                         \/ outs'[s] \in {DropEnd(outs[s], e), CloseEnd(outs[s], e)}
  BY <1>1
<1>3. \A s \in Outputs : \A p \in {DropEnd(outs[s], e), CloseEnd(outs[s], e)} : p.ends = outs[s].ends \ {e}
  BY <1>1, EndGone
<1> QED
  BY <1>2, <1>3

LEMMA HoldersStep ==
  ASSUME IInv, Next
  PROVE  Holders'
<1>1. OutputsTyped /\ Holders /\ elsewhere \in 0..MaxOut
  BY DEF IInv, Holders
<1>2. ASSUME StreamsInternal \/ UserWrites \/ (\E s \in Outputs : PullError(s)), UNCHANGED runVars
      PROVE  Holders'
  <2>1. \A s \in Outputs : outs'[s].ends \subseteq outs[s].ends
    BY <1>1, <1>2, OneKeepsEnds DEF StreamsInternal, SinkWrite, SinkWriteFails, SinkClose,
       UserWrites, UserWrite, UserClosesStdin, Abort
  <2> QED
    BY <1>1, <1>2, <2>1, HoldersFrame DEF runVars, progVars, waitVars
<1>3. ASSUME CopyData PROVE Holders'
  <2>1. \A s \in Outputs : outs'[s].ends \subseteq outs[s].ends
    BY <1>1, <1>3, OneKeepsEnds DEF CopyData, Outputs
  <2> QED
    BY <1>1, <1>3, <2>1, HoldersFrame DEF CopyData, progVars, waitVars
<1>4. ASSUME CopyEof \/ CopyError PROVE Holders'
  <2>1. \A s \in Outputs : outs'[s].ends \subseteq outs[s].ends
    BY <1>1, <1>4, LetGo DEF CopyEof, CopyError, StopCopying
  <2> QED
    BY <1>1, <1>4, <2>1, HoldersFrame DEF CopyEof, CopyError, StopCopying, progVars, waitVars
<1>5. ASSUME NEW s \in Outputs, Collect(s) \/ UserReads(s) \/ UserCancels(s) PROVE Holders'
  <2>1. \A u \in Outputs : outs'[u].ends \subseteq outs[u].ends
    BY <1>1, <1>5, OneKeepsEnds DEF Collect, UserReads, UserCancels
  <2> QED
    BY <1>1, <1>5, <2>1, HoldersFrame DEF Collect, UserReads, UserCancels, runVars, progVars, waitVars
<1>6. ASSUME ProgWrites \/ ChildWrites PROVE Holders'
  <2>1. \A u \in Outputs : outs'[u].ends \subseteq outs[u].ends
    BY <1>1, <1>6, OneKeepsEnds DEF ProgWrites, ChildWrites, Write, Outputs
  <2> QED
    BY <1>1, <1>6, <2>1, HoldersFrame DEF ProgWrites, ChildWrites, Write, runVars, progVars, waitVars
<1>7. ASSUME ProgReads \/ ProgSeesEof \/ SendExit \/ WritesElsewhere PROVE Holders'
  <2>1. UNCHANGED <<outs, prog, child, wait, held>>
    BY <1>7 DEF ProgReads, ProgSeesEof, SendExit, WritesElsewhere, streamVars, progVars, waitVars
  <2>2. elsewhere' \in 0..MaxOut
    <3>1. elsewhere' = elsewhere \/ (elsewhere < MaxOut /\ elsewhere' = elsewhere + 1)
      BY <1>7 DEF ProgReads, ProgSeesEof, SendExit, WritesElsewhere
    <3>2. MaxOut \in Nat
      BY StreamsAssumption
    <3> QED
      BY <1>1, <3>1, <3>2
  <2> QED
    BY <1>1, <2>1, <2>2, HoldersFrame
<1>8. ASSUME Begin PROVE Holders'
  <2>1. UNCHANGED <<outs, child, wait, held, elsewhere>> /\ prog.state = "queued"
    BY <1>8 DEF Begin, streamVars, waitVars
  <2>2. prog'.state = "running"
    BY <1>8 DEF Begin, IInv, RestTyped, ProgType
  <2> QED
    BY <1>1, <2>1, <2>2 DEF Holders
<1>9. ASSUME Forks PROVE Holders'
  <2>1. /\ UNCHANGED <<prog, wait, elsewhere>> /\ prog.state = "running" /\ child' = "running"
        /\ held' = held \cup {"child"}
    BY <1>9 DEF Forks, Running
  <2>2. /\ outs'["stdout"].ends \subseteq outs["stdout"].ends \cup {"child"}
        /\ \A s \in Outputs : s = "stdout" \/ outs'[s] = outs[s]
    <3>1. outs \in [Outputs -> OutType]
      BY <1>1 DEF OutputsTyped
    <3> QED
      BY <1>9, <3>1 DEF Forks, OutType
  <2> QED
    BY <1>1, <2>1, <2>2 DEF Holders
<1>10. ASSUME ChildEnds PROVE Holders'
  <2>1. UNCHANGED <<prog, wait, elsewhere>> /\ child' = "ended" /\ held' = held \ {"child"}
    BY <1>10 DEF ChildEnds
  <2>2. \A s \in Outputs : /\ outs'[s].ends \subseteq outs[s].ends
                           /\ "child" \in outs'[s].ends => s = "stderr" /\ outs'[s] = outs[s]
    BY <1>1, <1>10, LetGo DEF ChildEnds
  <2>3. "child" \notin outs["stderr"].ends
    BY <1>1 DEF Holders, Outputs
  <2> QED
    BY <1>1, <2>1, <2>2, <2>3 DEF Holders
<1>11. ASSUME JobDropped \/ \E result \in Results : Ends(result) PROVE Holders'
  <2>1. UNCHANGED <<child, wait, elsewhere>> /\ prog'.state \in {"dropped", "ended"}
        /\ held' = held \ {"job"}
    BY <1>11 DEF JobDropped, Ends
  <2>2. \A s \in Outputs : outs'[s] \in {DropEnd(outs[s], "prog"), CloseEnd(outs[s], "prog")}
    BY <1>11 DEF JobDropped, Ends
  <2>3. \A s \in Outputs : outs'[s].ends = outs[s].ends \ {"prog"}
    BY <1>1, <2>2, EndGone DEF OutputsTyped
  <2> QED
    BY <1>1, <2>1, <2>3 DEF Holders
<1>12. ASSUME \/ Wait \/ StdinClosed \/ StdinFails \/ StdinTypeError
              \/ JoinSucceeds \/ JoinFails \/ Drop
       PROVE  Holders'
  <2>1. UNCHANGED <<outs, prog, child, elsewhere>> /\ wait \in {"none", "stdin", "join"}
    BY <1>12 DEF Wait, StdinClosed, StdinFails, StdinTypeError, JoinSucceeds, JoinFails, Drop,
       streamVars, progVars
  <2>2. \/ wait' \in {"stdin", "join"} /\ held' = held
        \/ wait' \in {"ok", "err", "dropped"} /\ held' = held \ {"instance"}
    BY <1>12 DEF Wait, StdinClosed, StdinFails, StdinTypeError, JoinSucceeds, JoinFails, Drop,
       Return, Join
  <2> QED
    BY <1>1, <2>1, <2>2 DEF Holders
<1> QED
  BY <1>2, <1>3, <1>4, <1>5, <1>6, <1>7, <1>8, <1>9, <1>10, <1>11, <1>12
  DEF Next, EventLoop, Program, User, Faults

LEMMA NoneGivenStep ==
  ASSUME OutputsTyped, NoneGiven, OutputMove, mode' = mode
  PROVE  NoneGiven'
<1>1. outs \in [Outputs -> OutType]
  BY DEF OutputsTyped
<1> SUFFICES ASSUME mode = "wasix", NEW u \in Outputs PROVE outs'[u].wrote = 0 /\ outs'[u].ended
  BY DEF NoneGiven
<1>2. \A s \in Outputs : outs[s].wrote = 0 /\ outs[s].ended
  BY DEF NoneGiven
<1>3. CASE EndsChange \/ outs' = outs
  BY <1>2, <1>3 DEF EndsChange
<1>4. ASSUME NEW s \in Outputs, PullData(s) \/ Cancel(s)
      PROVE  outs'[u].wrote = outs[u].wrote /\ outs'[u].ended = outs[u].ended
  <2>1. ~Accept(s)
    BY <1>2 DEF Accept
  <2> QED
    BY <1>4, <2>1, OneKeepsEnds
<1>5. ASSUME NEW s \in Outputs, OneMoves(s)
      PROVE  outs'[u].wrote = 0 /\ outs'[u].ended
  <2>1. ~Accept(s)
    BY <1>2 DEF Accept
  <2> QED
    BY <1>2, <1>4, <1>5, <2>1 DEF OneMoves, PullEof, PullError
<1> QED
  BY <1>3, <1>5 DEF OutputMove

-----------------------------------------------------------------------------
LEMMA IInvInit == Init => IInv
<1> SUFFICES ASSUME Init PROVE IInv
  OBVIOUS
<1>1. <<>> \in Seq(OutData) /\ <<>> \in Seq(InData) /\ UpTo(0) = <<>> /\ UpTo(MaxIn) \in Seq(InData)
      /\ 0 \in 0..MaxIn /\ 0 \in 0..MaxOut /\ Len(<<>>) <= HighWater
  BY StreamsAssumption, CountUp DEF InData, UpTo
<1>2. /\ task_dedicated /\ srcs = [s \in Outputs |-> ReadableStream] /\ got = [s \in Outputs |-> <<>>]
      /\ shared \in BOOLEAN /\ trouble = {} /\ ~Hit
      /\ child = "none" /\ read = <<>> /\ eof = FALSE /\ wait = "none" /\ mine = {} /\ code = 0
  BY DEF Init, run, run_wasix_inner, Hit
<1>3. /\ outs \in [Outputs -> OutType]
      /\ \A s \in Outputs : /\ outs[s].data = <<>> /\ outs[s].wrote = 0
                            /\ outs[s].ends \subseteq {"prog", "tty"}
                            /\ mode = "wasix" => outs[s].ended
  <2> DEFINE dropped == DropEnd(output_pipe({"builder"}), "builder")
             Fresh(o) == /\ o \in OutType /\ o.data = <<>> /\ o.wrote = 0
                         /\ o.ends \subseteq {"prog", "tty"}
  <2>1. ASSUME NEW ends \in SUBSET {"prog", "tty"} PROVE Fresh(output_pipe(ends))
    BY <1>1 DEF output_pipe, OutType
  <2>2. Fresh(dropped) /\ dropped.ended
    <3>1. ASSUME NEW E, E \ {"builder"} = {}, E \subseteq {"builder"}
          PROVE  LET o == DropEnd(output_pipe(E), "builder") IN Fresh(o) /\ o.ended
      <4> DEFINE o == [output_pipe(E) EXCEPT !.ends = {}, !.ended = TRUE]
      <4>1. output_pipe(E).ends = E /\ output_pipe(E).ended = FALSE
        BY DEF output_pipe
      <4>2. (FALSE \/ E \subseteq {"builder"}) = TRUE
        BY <3>1
      <4>3. DropEnd(output_pipe(E), "builder") = o
        BY <3>1, <4>1, <4>2 DEF DropEnd
      <4>4. o \in OutType
        BY <1>1 DEF output_pipe, OutType
      <4>5. o.data = <<>> /\ o.wrote = 0 /\ o.ends = {} /\ o.ended
        BY DEF output_pipe
      <4> QED
        BY <4>3, <4>4, <4>5
    <3> QED
      BY <3>1
  <2> HIDE DEF dropped
  <2>4. \A s \in Outputs : Fresh(outs[s]) /\ (mode = "wasix" => outs[s].ended)
    <3> HIDE DEF Fresh
    <3>1. CASE run
      <4>1. \A s \in Outputs : \E ends \in SUBSET {"prog", "tty"} : outs[s] = output_pipe(ends)
        BY <3>1 DEF run, configure_runner, Outputs
      <4>2. mode # "wasix"
        BY <3>1 DEF run, configure_runner
      <4> QED
        BY <2>1, <4>1, <4>2
    <3>2. CASE run_wasix_inner
      <4>1. \A s \in Outputs : outs[s] = dropped
        BY <3>2 DEF run_wasix_inner, configure_builder, dropped
      <4> QED
        BY <2>2, <4>1
    <3> QED
      BY <3>1, <3>2 DEF Init
  <2>5. DOMAIN outs = Outputs /\ outs = [s \in Outputs |-> outs[s]]
    BY DEF Init, run, run_wasix_inner, configure_runner, Outputs
  <2> QED
    BY <2>4, <2>5
<1>4. OutputsTyped /\ NothingLost /\ StreamEnds
  <2>1. \A s \in Outputs : srcs[s] = ReadableStream /\ got[s] = <<>>
    BY <1>2
  <2>2. <<>> \o <<>> = <<>>
    BY <1>1, ConcatEmptySeq
  <2>3. srcs \in [Outputs -> SrcType] /\ got \in [Outputs -> Seq(OutData)]
    BY <1>1, <1>2 DEF ReadableStream, SrcType
  <2>4. \A s \in Outputs : srcs[s].state = "readable" /\ srcs[s].queue = <<>>
    BY <2>1 DEF ReadableStream
  <2>5. OutputsTyped
    BY <1>1, <1>3, <2>3, <2>4 DEF OutputsTyped
  <2>6. NothingLost
    BY <1>1, <1>3, <2>1, <2>2, <2>4 DEF NothingLost
  <2>7. StreamEnds
    BY <2>4 DEF StreamEnds
  <2> QED
    BY <2>5, <2>6, <2>7
<1>5. /\ Pipe \in PipeType /\ Pipe.data = <<>> /\ ~Pipe.ended /\ ~Pipe.gone
      /\ input_pipe \in SinkType /\ input_pipe.state = "writable" /\ input_pipe.queue = <<>>
      /\ input_pipe.wrote = 0
      /\ NoStdin \in SinkType /\ NoStdin.state = "none" /\ NoStdin.queue = <<>>
  BY <1>1 DEF Pipe, PipeType, input_pipe, SinkType, NoStdin
<1>6. /\ copier \in {"off", "reading"}
      /\ \/ mode = "terminal" /\ sink = input_pipe /\ inp = Pipe /\ tty = Pipe
         \/ /\ mode = "wasix" /\ sink \in {input_pipe, NoStdin} /\ copier = "off"
            /\ inp = [Pipe EXCEPT !.gone = TRUE] /\ tty = [Pipe EXCEPT !.gone = TRUE]
         \/ /\ mode = "bytes" /\ sink = NoStdin /\ copier = "off" /\ inp = Pipe
            /\ tty = [Pipe EXCEPT !.data = UpTo(MaxIn), !.ended = TRUE]
  BY DEF Init, run, run_wasix_inner, configure_runner, configure_builder, setup_tty, static_stdin
<1>7. /\ tty \in PipeType /\ inp \in PipeType /\ inp.data = <<>> /\ ~inp.ended
      /\ mode # "wasix" => ~tty.gone /\ ~inp.gone
      /\ mode # "bytes" => tty.data = <<>> /\ ~tty.ended
      /\ mode = "bytes" => tty.data = UpTo(MaxIn)
      /\ mode \in {"bytes", "terminal", "wasix"}
  <2>1. CASE mode = "terminal"
    BY <1>5, <1>6, <2>1
  <2>2. CASE mode = "bytes"
    BY <1>1, <1>5, <1>6, <2>2 DEF PipeType
  <2>3. CASE mode = "wasix"
    <3>1. [Pipe EXCEPT !.gone = TRUE] \in PipeType /\ [Pipe EXCEPT !.gone = TRUE].data = <<>>
          /\ ~[Pipe EXCEPT !.gone = TRUE].ended
      BY <1>1, <1>5 DEF PipeType
    <3> QED
      BY <1>6, <2>3, <3>1
  <2> QED
    BY <1>6, <2>1, <2>2, <2>3
<1>8. Input
  <2>1. InputTyped
    BY <1>1, <1>2, <1>5, <1>6, <1>7 DEF InputTyped
  <2>2. InputEnds
    BY <1>5, <1>6, <1>7 DEF InputEnds
  <2>3. Passing
    <3>1. CASE mode # "bytes"
      <4>1. All(<<>>, <<>>, <<>>, <<>>) = <<>>
        BY <1>1, AllEmpty
      <4> QED
        BY <1>1, <1>2, <1>5, <1>6, <1>7, <3>1, <4>1 DEF Passing, Given
    <3>2. CASE mode = "bytes"
      <4>1. <<>> \o UpTo(MaxIn) = UpTo(MaxIn) /\ UpTo(MaxIn) \o <<>> = UpTo(MaxIn)
        BY <1>1, ConcatEmptySeq
      <4>2. All(<<>>, UpTo(MaxIn), <<>>, <<>>) = UpTo(MaxIn)
        BY <4>1 DEF All
      <4> QED
        BY <1>2, <1>5, <1>6, <1>7, <3>2, <4>2 DEF Passing, Given
    <3> QED
      BY <3>1, <3>2
  <2>4. EofIsTheEnd
    BY <1>2 DEF EofIsTheEnd
  <2> QED
    BY <2>1, <2>2, <2>3, <2>4 DEF Input
<1>9. RestTyped /\ Outcome
  BY <1>2 DEF task_dedicated, RestTyped, Outcome, ProgType, ExitType
<1>10. Holders /\ NoneGiven
  <2>1. elsewhere \in 0..MaxOut
    BY <1>1 DEF Init
  <2>2. \A s \in Outputs : outs[s].ends \subseteq {"prog", "tty"}
    BY <1>3
  <2>3. /\ held = {"instance", "job"} /\ wait = "none" /\ prog.state = "queued" /\ child = "none"
    BY <1>2 DEF task_dedicated
  <2>4. Holders
    BY <2>1, <2>2, <2>3 DEF Holders
  <2> QED
    BY <1>3, <2>4 DEF NoneGiven
<1> QED
  BY <1>4, <1>8, <1>9, <1>10 DEF IInv

LEMMA Step == IInv /\ [Next]_vars => IInv'
<1> SUFFICES ASSUME IInv, [Next]_vars PROVE IInv'
  OBVIOUS
<1>1. CASE Next
  <2>1. (OutputsTyped /\ NothingLost /\ StreamEnds)'
    BY <1>1, Moves, TroubleGrows, OutputStep DEF IInv
  <2>2. Input' /\ (RestTyped /\ Outcome)' /\ Holders'
    BY <1>1, InputStep, OutcomeStep, HoldersStep DEF IInv
  <2>3. NoneGiven'
    BY <1>1, Moves, TroubleGrows, NoneGivenStep DEF IInv
  <2> QED
    BY <2>1, <2>2, <2>3 DEF IInv
<1>2. CASE UNCHANGED vars
  <2>1. (OutputsTyped /\ NothingLost /\ StreamEnds)'
    BY <1>2 DEF IInv, OutputsTyped, NothingLost, StreamEnds, Hit, vars, streamVars
  <2>2. Input'
    BY <1>2, InputFrame DEF IInv, Hit, Over, vars, streamVars, runVars, progVars
  <2>3. (RestTyped /\ Outcome)'
    BY <1>2 DEF IInv, RestTyped, Outcome, vars, streamVars, runVars, progVars, waitVars
  <2>4. (Holders /\ NoneGiven)'
    BY <1>2 DEF IInv, Holders, NoneGiven, vars, streamVars, runVars, progVars, waitVars
  <2> QED
    BY <2>1, <2>2, <2>3, <2>4 DEF IInv
<1> QED
  BY <1>1, <1>2

\* The inductive invariant of a run holds in every reachable state.
THEOREM Invariance == Spec => []IInv
BY IInvInit, Step, PTL DEF Spec

\* Streams, pipes, program and wait() keep their types, and the queue of an
\* output stream stays within the high water mark that pull() is given.
THEOREM TypeCorrect == Spec => []TypeOK
<1>1. IInv => TypeOK
  BY DEF IInv, OutputsTyped, Input, InputTyped, RestTyped, Holders, TypeOK, StreamsTypeOK, OutType, SrcType,
     SinkType, PipeType, ProgType, ExitType, OutData, InData, Tokens
<1> QED
  BY <1>1, Invariance, PTL

\* Nothing that is written to an output is lost, doubled or moved by pull() and
\* the readers.
THEOREM OutputIsKept == Spec => []NothingLost
<1>1. IInv => NothingLost
  BY DEF IInv
<1> QED
  BY <1>1, Invariance, PTL

\* What a successful wait() returns is the exit code and, of the outputs of a command
\* that it reads, all there is; of those of runWasix it is nothing.
THEOREM WaitIsComplete == Spec => []OkIsComplete
<1>1. IInv => OkIsComplete
  <2> SUFFICES ASSUME IInv, wait = "ok"
               PROVE  /\ prog.state = "ended" /\ code = from_result(prog.result)
                      /\ \A s \in mine : srcs[s].state # "cancelled" =>
                             /\ got[s] = UpTo(outs[s].wrote)
                             /\ outs[s].ended
                             /\ mode = "wasix" => got[s] = <<>>
    BY DEF OkIsComplete
  <2>1. prog.state = "ended" /\ code = from_result(prog.result)
    BY DEF IInv, Outcome
  <2>2. ASSUME NEW s \in mine, srcs[s].state # "cancelled"
        PROVE  /\ got[s] = UpTo(outs[s].wrote)
               /\ outs[s].ended
               /\ mode = "wasix" => got[s] = <<>>
    <3>1. s \in Outputs /\ srcs[s].state = "closed"
      BY <2>2 DEF IInv, Outcome, RestTyped
    <3>2. outs[s].ended /\ outs[s].data = <<>> /\ srcs[s].queue = <<>>
      BY <3>1 DEF IInv, StreamEnds
    <3>3. got[s] \o srcs[s].queue \o outs[s].data = UpTo(outs[s].wrote)
      BY <3>1 DEF IInv, NothingLost
    <3>4. got[s] \in Seq(OutData)
      BY <3>1 DEF IInv, OutputsTyped
    <3>5. got[s] \o <<>> = got[s]
      BY <3>4, NoneBetween
    <3>6. got[s] = UpTo(outs[s].wrote)
      BY <3>2, <3>3, <3>5
    <3>7. mode = "wasix" => outs[s].wrote = 0
      BY <3>1 DEF IInv, NoneGiven
    <3>8. UpTo(0) = <<>>
      BY DEF UpTo
    <3> QED
      BY <3>2, <3>6, <3>7, <3>8
  <2> QED
    BY <2>1, <2>2
<1> QED
  BY <1>1, Invariance, PTL

\* A command sees the end of standard input only behind all that was written, and a
\* runWasix program nothing of it.
THEOREM EofIsRight == Spec => []EofIsTheEnd
<1>1. IInv => EofIsTheEnd
  BY DEF IInv, Input
<1> QED
  BY <1>1, Invariance, PTL

\* A pool is closed only when the program and its child have let go of all that they
\* had, and nobody waits.
THEOREM NotKilled == Spec => []NeverKilled
<1>1. IInv => NeverKilled
  <2> SUFFICES ASSUME IInv, held = {} PROVE NeverKilled
    BY DEF NeverKilled, Open
  <2>1. /\ prog.state \in {"ended", "dropped"} /\ child # "running"
        /\ wait \in {"ok", "err", "dropped"}
    BY DEF IInv, Holders, RestTyped, ProgType
  <2>2. \A s \in Outputs : outs[s].ends \subseteq {"tty"}
    <3>1. \A s \in Outputs : outs[s].ends \subseteq {"prog", "tty", "child"}
      BY DEF IInv, OutputsTyped, OutType
    <3> QED
      BY <2>1, <3>1 DEF IInv, Holders
  <2> QED
    BY <2>1, <2>2 DEF NeverKilled
<1> QED
  BY <1>1, Invariance, PTL
=============================================================================

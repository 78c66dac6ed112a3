------------------------ MODULE SchedulerPoolProofs ------------------------
(***************************************************************************)
(* What holds of the thread pool for every number of jobs, of whatever     *)
(* kinds, and whichever of them fail: no worker is ever given two blocking *)
(* jobs, the scheduler's lists of idle and busy workers are right although *)
(* its news of the workers is late, no job is lost or runs twice, and      *)
(* nothing is posted behind a blocking job.                                *)
(***************************************************************************)
EXTENDS SchedulerPool, FiniteSetTheorems, TLAPS

-----------------------------------------------------------------------------
(* The inductive invariant.                                                *)

BusyMessage(w) == Message("busy", w, NoJob)
CloseMessage == Message("close", 0, NoJob)

Posted(w) == {Given(j) : j \in Jobs} \cup {BusyMessage(w), IdleMessage(w)}
Mail == {Given(j) : j \in Jobs} \cup {CloseMessage}
          \cup {BusyMessage(w) : w \in Workers} \cup {IdleMessage(w) : w \in Workers}

Types ==
    /\ idle \in Seq(Workers) /\ busy \in Seq(Workers)
    /\ next_id \in Nat \ {0}
    /\ mailbox \in Seq(Mail)
    /\ inbox \in [Workers -> Seq(Jobs)] /\ pending \in [Workers -> Seq(Jobs)]
    /\ phase \in [Workers -> {"starting", "ready", "broken"}]
    /\ awaited \in [Workers -> Jobs \cup {NoJob}]
    /\ outbox \in [Workers -> Seq(Messages)]
    /\ \A w \in Workers : outbox[w] \in Seq(Posted(w))
    /\ running \in [Workers -> Jobs \cup {NoJob}]
    /\ parked \in [Workers -> SUBSET Jobs]
    /\ spawned \subseteq Jobs /\ done \subseteq spawned /\ failed \subseteq spawned
    /\ life \in {"open", "closing", "closed"}
    /\ drained \subseteq spawned
    /\ \A w \in Workers : phase[w] = "starting" => pending[w] = <<>>

\* Each worker was created for a job that has reached the scheduler.
Arrived == {j \in spawned : Travelling(j) = 0}
Created == next_id - 1 <= Cardinality(Arrived)

Lists == ToSet(idle) \cup ToSet(busy)

\* A worker that was not created yet has nothing, and has said nothing.
Unborn ==
    /\ \A w \in Workers : w >= next_id =>
         /\ inbox[w] = <<>> /\ pending[w] = <<>> /\ outbox[w] = <<>>
         /\ parked[w] = {} /\ running[w] = NoJob
         /\ \A i \in 1..Len(mailbox) : mailbox[i] \notin {IdleMessage(w), BusyMessage(w)}
    /\ \A w \in Lists : w < next_id

\* A worker says that it is busy before it says that it is idle, and what an
\* idle worker has said has been heard.
NotIn(q, m) == \A i \in 1..Len(q) : q[i] # m
NewsInOrder(w) ==
    /\ \A i, k \in 1..Len(outbox[w]) :
         i < k /\ outbox[w][i] = IdleMessage(w) => outbox[w][k] # BusyMessage(w)
    /\ \A i \in 1..Len(mailbox) : mailbox[i] = IdleMessage(w) =>
         /\ \A k \in 1..Len(mailbox) : i < k => mailbox[k] # BusyMessage(w)
         /\ NotIn(outbox[w], BusyMessage(w))
    /\ w \in ToSet(idle) =>
         NotIn(outbox[w], BusyMessage(w)) /\ NotIn(mailbox, BusyMessage(w))

\* What a worker is doing, and what the scheduler thinks that it does.
Load(w) == Blocking(w) + IdleNews(w)
LoadIsRight(w) ==
    /\ Load(w) <= 1
    /\ w \in ToSet(idle) => Load(w) = 0
    /\ w \in ToSet(busy) => Load(w) = 1 \/ failed # {}

EachOnce == life # "closed" => \A j \in Jobs : Copies(j) = IF j \in spawned THEN 1 ELSE 0

Closed == life = "closed" => idle = <<>> /\ busy = <<>>

IInv ==
    /\ Types /\ Created /\ Unborn /\ Closed /\ EachOnce
    /\ IsInjective(idle \o busy)
    /\ \A w \in Workers : NewsInOrder(w) /\ LoadIsRight(w)

-----------------------------------------------------------------------------
(* Counting in queues.                                                     *)

LEMMA FoundFinite ==
  ASSUME NEW T, NEW q \in Seq(T), NEW S
  PROVE  IsFiniteSet(Found(q, S)) /\ Count(q, S) \in Nat
<1>1. Len(q) \in Nat /\ DOMAIN q = 1..Len(q)
  OBVIOUS
<1>2. IsFiniteSet(1..Len(q))
  BY <1>1, FS_Interval
<1>3. Found(q, S) \in SUBSET (1..Len(q))
  BY <1>1 DEF Found
<1>4. IsFiniteSet(Found(q, S))
  BY <1>2, <1>3, FS_Subset
<1> QED
  BY <1>4, FS_CardinalityType DEF Count

\* Nothing is counted where nothing is.
LEMMA CountNone ==
  ASSUME NEW T, NEW q \in Seq(T), NEW S
  PROVE  (Count(q, S) = 0) <=> \A i \in DOMAIN q : q[i] \notin S
<1>1. (Count(q, S) = 0) <=> (Found(q, S) = {})
  BY FoundFinite, FS_EmptySet DEF Count
<1> QED
  BY <1>1 DEF Found

LEMMA CountEmpty == ASSUME NEW S PROVE Count(<<>>, S) = 0
<1>1. <<>> \in Seq(Nat) /\ DOMAIN <<>> = {}
  OBVIOUS
<1> QED
  BY <1>1, CountNone

\* q consists of p and r.
Joins(T, p, r, q) ==
    /\ p \in Seq(T) /\ r \in Seq(T) /\ q \in Seq(T)
    /\ Len(q) = Len(p) + Len(r)
    /\ \A i \in 1..Len(p) : q[i] = p[i]
    /\ \A i \in 1..Len(r) : q[Len(p) + i] = r[i]

LEMMA CountJoin ==
  ASSUME NEW T, NEW p, NEW r, NEW q, NEW S, Joins(T, p, r, q)
  PROVE  Count(q, S) = Count(p, S) + Count(r, S)
<1> USE DEF Joins
<1> DEFINE moved == {i \in (Len(p) + 1)..Len(q) : q[i] \in S}
           shift == [i \in Found(r, S) |-> Len(p) + i]
<1>1. Len(p) \in Nat /\ Len(r) \in Nat /\ DOMAIN p = 1..Len(p) /\ DOMAIN r = 1..Len(r)
      /\ DOMAIN q = 1..Len(q)
  OBVIOUS
<1>2. Found(q, S) = Found(p, S) \cup moved /\ Found(p, S) \cap moved = {}
  BY <1>1 DEF Found
<1>3. shift \in Bijection(Found(r, S), moved)
  <2>1. \A i \in Found(r, S) : i \in 1..Len(r) /\ r[i] \in S
    BY <1>1 DEF Found
  <2>2. shift \in [Found(r, S) -> moved]
    BY <1>1, <2>1
  <2>3. \A i, k \in Found(r, S) : shift[i] = shift[k] => i = k
    BY <1>1, <2>1
  <2>4. \A m \in moved : \E i \in Found(r, S) : shift[i] = m
    <3> SUFFICES ASSUME NEW m \in moved PROVE \E i \in Found(r, S) : shift[i] = m
      OBVIOUS
    <3>1. m - Len(p) \in 1..Len(r) /\ m = Len(p) + (m - Len(p))
      BY <1>1
    <3>2. m - Len(p) \in Found(r, S)
      BY <1>1, <3>1 DEF Found
    <3> QED
      BY <3>1, <3>2
  <2> HIDE DEF shift, moved
  <2> QED
    BY <2>2, <2>3, <2>4 DEF Bijection, Injection, Surjection, IsInjective
<1>4. IsFiniteSet(moved) /\ Cardinality(moved) = Count(r, S)
  BY <1>3, FoundFinite, FS_Bijection DEF ExistsBijection, Count
<1>5. Cardinality(Found(p, S) \cup moved) = Cardinality(Found(p, S)) + Cardinality(moved)
  <2>1. IsFiniteSet(Found(p, S)) /\ Cardinality(moved) \in Nat /\ Cardinality(Found(p, S)) \in Nat
    BY <1>4, FoundFinite DEF Count
  <2>2. Cardinality(Found(p, S) \cap moved) = 0
    BY <1>2, FS_EmptySet
  <2> DEFINE here == Found(p, S)
  <2> HIDE DEF moved, here
  <2>3. Cardinality(here \cup moved) = Cardinality(here) + Cardinality(moved) - Cardinality(here \cap moved)
    <3>1. IsFiniteSet(here)
      BY <2>1 DEF here
    <3> QED
      BY <1>4, <3>1, FS_Union
  <2> QED
    BY <2>1, <2>2, <2>3 DEF here
<1> QED
  BY <1>2, <1>4, <1>5 DEF Count

LEMMA CountOne ==
  ASSUME NEW e, NEW S
  PROVE  Count(<<e>>, S) = IF e \in S THEN 1 ELSE 0
<1>1. CASE e \in S
  <2>1. Found(<<e>>, S) = {1}
    BY <1>1 DEF Found
  <2> QED
    BY <1>1, <2>1, FS_Singleton DEF Count
<1>2. CASE e \notin S
  <2>1. Found(<<e>>, S) = {}
    BY <1>2 DEF Found
  <2> QED
    BY <1>2, <2>1, FS_EmptySet DEF Count
<1> QED
  BY <1>1, <1>2

LEMMA CountAppend ==
  ASSUME NEW T, NEW q \in Seq(T), NEW e \in T, NEW S
  PROVE  Count(Append(q, e), S) = Count(q, S) + IF e \in S THEN 1 ELSE 0
<1>1. Joins(T, q, <<e>>, Append(q, e))
  BY DEF Joins
<1> QED
  BY <1>1, CountJoin, CountOne

LEMMA CountTail ==
  ASSUME NEW T, NEW q \in Seq(T), q # <<>>, NEW S
  PROVE  Count(q, S) = Count(Tail(q), S) + IF Head(q) \in S THEN 1 ELSE 0
<1>1. Joins(T, <<Head(q)>>, Tail(q), q)
  BY DEF Joins
<1>2. Tail(q) \in Seq(T)
  OBVIOUS
<1>3. Count(Tail(q), S) \in Nat
  BY <1>2, FoundFinite
<1>4. Count(q, S) = Count(<<Head(q)>>, S) + Count(Tail(q), S)
  BY <1>1, CountJoin
<1>5. Count(<<Head(q)>>, S) = IF Head(q) \in S THEN 1 ELSE 0
  BY CountOne
<1> QED
  BY <1>3, <1>4, <1>5

LEMMA CountSplit ==
  ASSUME NEW T, NEW q \in Seq(T), NEW n \in 0..Len(q), NEW S
  PROVE  Count(q, S) = Count(SubSeq(q, 1, n), S) + Count(SubSeq(q, n + 1, Len(q)), S)
<1> DEFINE p == SubSeq(q, 1, n)
           r == SubSeq(q, n + 1, Len(q))
<1>1. p \in Seq(T) /\ Len(p) = n /\ \A i \in 1..n : q[i] = p[i]
  OBVIOUS
<1>2. r \in Seq(T) /\ Len(r) = Len(q) - n
  OBVIOUS
<1>3. \A i \in 1..(Len(q) - n) : q[n + i] = r[i]
  OBVIOUS
<1>4. Joins(T, p, r, q)
  <2>1. Len(q) \in Nat /\ n \in Nat
    OBVIOUS
  <2> HIDE DEF p, r
  <2> QED
    BY <1>1, <1>2, <1>3, <2>1 DEF Joins
<1> QED
  BY <1>4, CountJoin

-----------------------------------------------------------------------------
(* Counting in the queues of all workers.                                  *)

LEMMA JobsAreFinite ==
  /\ IsFiniteSet(Jobs) /\ Cardinality(Jobs) \in Nat /\ IsFiniteSet(Workers)
  /\ Workers \subseteq Nat \ {0} /\ NoJob \notin Jobs
<1>1. IsFiniteSet(Jobs) /\ Cardinality(Jobs) \in Nat /\ NoJob \notin Jobs
  BY PoolAssumption, FS_CardinalityType
<1>2. IsFiniteSet(1..Cardinality(Jobs))
  BY <1>1, FS_Interval
<1> QED
  BY <1>1, <1>2 DEF Workers

\* What is found in the queues of the workers in V.
AllIn(f, S, V) == UNION {{w} \X Found(f[w], S) : w \in V}

LEMMA AllFinite ==
  ASSUME NEW T, NEW f \in [Workers -> Seq(T)], NEW S, NEW V \in SUBSET Workers
  PROVE  IsFiniteSet(AllIn(f, S, V)) /\ Cardinality(AllIn(f, S, V)) \in Nat
<1> DEFINE part(w) == {w} \X Found(f[w], S)
           parts == {part(w) : w \in V}
<1>1. IsFiniteSet(V)
  BY JobsAreFinite, FS_Subset
<1>2. IsFiniteSet(parts)
  <2> DEFINE g == [w \in V |-> part(w)]
  <2>1. g \in Surjection(V, parts)
    BY DEF Surjection
  <2> QED
    BY <1>1, <2>1, FS_Surjection
<1>3. ASSUME NEW p \in parts PROVE IsFiniteSet(p)
  <2>1. PICK w \in V : p = {w} \X Found(f[w], S)
    OBVIOUS
  <2>2. IsFiniteSet(Found(f[w], S)) /\ IsFiniteSet({w})
    BY FoundFinite, FS_Singleton
  <2> QED
    BY <2>1, <2>2, FS_Product
<1>4. IsFiniteSet(UNION parts)
  BY <1>2, <1>3, FS_UNION
<1> QED
  BY <1>4, FS_CardinalityType DEF AllIn
LEMMA CountAllType ==
  ASSUME NEW T, NEW f \in [Workers -> Seq(T)], NEW S
  PROVE  CountAll(f, S) \in Nat
<1>1. CountAll(f, S) = Cardinality(AllIn(f, S, Workers))
  BY DEF CountAll, AllIn
<1> QED
  BY <1>1, AllFinite

\* The queue of one worker and those of the others.
LEMMA AllOfOne ==
  ASSUME NEW T, NEW f \in [Workers -> Seq(T)], NEW S, NEW w \in Workers
  PROVE  /\ CountAll(f, S) \in Nat /\ Count(f[w], S) \in Nat
         /\ Cardinality(AllIn(f, S, Workers \ {w})) \in Nat
         /\ CountAll(f, S) = Count(f[w], S) + Cardinality(AllIn(f, S, Workers \ {w}))
<1> DEFINE mine == {w} \X Found(f[w], S)
           others == AllIn(f, S, Workers \ {w})
           all == AllIn(f, S, Workers)
<1>1. all = mine \cup others /\ mine \cap others = {}
  BY DEF AllIn
<1>2. IsFiniteSet(others) /\ Cardinality(others) \in Nat
  BY AllFinite
<1>3. IsFiniteSet(all) /\ Cardinality(all) \in Nat
  BY AllFinite
<1>4. IsFiniteSet(mine) /\ Cardinality(mine) = Count(f[w], S) /\ Count(f[w], S) \in Nat
  <2>1. IsFiniteSet(Found(f[w], S)) /\ Count(f[w], S) \in Nat
    BY FoundFinite
  <2>2. IsFiniteSet({w}) /\ Cardinality({w}) = 1
    BY FS_Singleton
  <2> QED
    BY <2>1, <2>2, FS_Product DEF Count
<1>5. Cardinality(all) = Cardinality(mine) + Cardinality(others)
  <2> HIDE DEF all, mine, others
  <2>1. Cardinality(mine \cap others) = 0
    BY <1>1, FS_EmptySet
  <2>2. Cardinality(mine \cup others)
          = Cardinality(mine) + Cardinality(others) - Cardinality(mine \cap others)
    BY <1>2, <1>4, FS_Union
  <2> QED
    BY <1>1, <1>2, <1>4, <2>1, <2>2
<1>6. CountAll(f, S) = Cardinality(all)
  BY DEF CountAll, AllIn
<1> QED
  BY <1>2, <1>3, <1>4, <1>5, <1>6

\* The queue of worker w changes from f to g: it is q now.
Changes(T, f, w, q, g) ==
    /\ f \in [Workers -> Seq(T)] /\ w \in Workers /\ q \in Seq(T)
    /\ g = [f EXCEPT ![w] = q]

LEMMA CountChange ==
  ASSUME NEW T, NEW f, NEW w, NEW q, NEW g, NEW S, Changes(T, f, w, q, g)
  PROVE  /\ g \in [Workers -> Seq(T)]
         /\ CountAll(g, S) = CountAll(f, S) - Count(f[w], S) + Count(q, S)
<1> DEFINE old == Cardinality(AllIn(f, S, Workers \ {w}))
           new == Cardinality(AllIn(g, S, Workers \ {w}))
<1>1. /\ f \in [Workers -> Seq(T)] /\ w \in Workers /\ q \in Seq(T)
      /\ g \in [Workers -> Seq(T)] /\ g[w] = q /\ \A v \in Workers \ {w} : g[v] = f[v]
  BY DEF Changes
<1>2. old = new
  BY <1>1 DEF AllIn
<1>3. CountAll(f, S) = Count(f[w], S) + old /\ Count(f[w], S) \in Nat /\ old \in Nat
  BY <1>1, AllOfOne
<1>4. CountAll(g, S) = Count(g[w], S) + new
  BY <1>1, AllOfOne
<1>5. Count(q, S) \in Nat
  BY <1>1, FoundFinite
<1> HIDE DEF old, new
<1> QED
  BY <1>1, <1>2, <1>3, <1>4, <1>5

\* e is added to the queue of worker w; e is taken off the head of its queue.
Appended(T, f, w, e, g) ==
    /\ f \in [Workers -> Seq(T)] /\ w \in Workers /\ e \in T
    /\ g = [f EXCEPT ![w] = Append(f[w], e)]
Popped(T, f, w, e, g) ==
    /\ f \in [Workers -> Seq(T)] /\ w \in Workers /\ f[w] # <<>> /\ e = Head(f[w])
    /\ g = [f EXCEPT ![w] = Tail(f[w])]

LEMMA CountAllAppend ==
  ASSUME NEW T, NEW f, NEW w, NEW e, NEW S, NEW g, Appended(T, f, w, e, g)
  PROVE  /\ g \in [Workers -> Seq(T)]
         /\ CountAll(g, S) = CountAll(f, S) + IF e \in S THEN 1 ELSE 0
<1> USE DEF Appended
<1> DEFINE q == Append(f[w], e)
<1>1. f[w] \in Seq(T) /\ Changes(T, f, w, q, g)
  BY DEF Changes
<1>2. CountAll(f, S) \in Nat /\ Count(f[w], S) \in Nat
  BY AllOfOne
<1>3. Count(q, S) = Count(f[w], S) + IF e \in S THEN 1 ELSE 0
  BY <1>1, CountAppend
<1>4. /\ g \in [Workers -> Seq(T)]
      /\ CountAll(g, S) = CountAll(f, S) - Count(f[w], S) + Count(q, S)
  BY <1>1, CountChange
<1> QED
  BY <1>2, <1>3, <1>4

LEMMA CountAllTail ==
  ASSUME NEW T, NEW f, NEW w, NEW e, NEW S, NEW g, Popped(T, f, w, e, g)
  PROVE  /\ g \in [Workers -> Seq(T)]
         /\ CountAll(f, S) = CountAll(g, S) + IF e \in S THEN 1 ELSE 0
<1> USE DEF Popped
<1> DEFINE q == Tail(f[w])
<1>1. f[w] \in Seq(T) /\ q \in Seq(T) /\ Changes(T, f, w, q, g)
  BY DEF Changes
<1>2. CountAll(f, S) \in Nat /\ Count(f[w], S) \in Nat /\ Count(q, S) \in Nat
  BY <1>1, AllOfOne, FoundFinite
<1>3. Count(f[w], S) = Count(q, S) + IF Head(f[w]) \in S THEN 1 ELSE 0
  BY <1>1, CountTail
<1>4. /\ g \in [Workers -> Seq(T)]
      /\ CountAll(g, S) = CountAll(f, S) - Count(f[w], S) + Count(q, S)
  BY <1>1, CountChange
<1>5. Count(f[w], S) = Count(q, S) + IF e \in S THEN 1 ELSE 0
  BY <1>3
<1> HIDE DEF q
<1> QED
  BY ONLY <1>2, <1>4, <1>5

LEMMA CountAllEmpty == ASSUME NEW S PROVE CountAll([w \in Workers |-> <<>>], S) = 0
<1>1. UNION {{w} \X Found([v \in Workers |-> <<>>][w], S) : w \in Workers} = {}
  BY DEF Found
<1> QED
  BY <1>1, FS_EmptySet DEF CountAll

\* The same of one element.
LEMMA TimesType ==
  /\ \A T, q, x : q \in Seq(T) => Times(q, x) \in Nat
  /\ \A T, f, x : f \in [Workers -> Seq(T)] => TimesInAll(f, x) \in Nat
  /\ \A x : Times(<<>>, x) = 0 /\ TimesInAll([w \in Workers |-> <<>>], x) = 0
<1>1. ASSUME NEW T, NEW q, NEW x, q \in Seq(T) PROVE Times(q, x) \in Nat
  BY <1>1, FoundFinite DEF Times
<1>2. ASSUME NEW T, NEW f, NEW x, f \in [Workers -> Seq(T)] PROVE TimesInAll(f, x) \in Nat
  BY <1>2, CountAllType DEF TimesInAll
<1>3. ASSUME NEW x PROVE Times(<<>>, x) = 0 /\ TimesInAll([w \in Workers |-> <<>>], x) = 0
  BY CountEmpty, CountAllEmpty DEF Times, TimesInAll
<1> QED
  BY <1>1, <1>2, <1>3

LEMMA TimesNone ==
  ASSUME NEW T, NEW q \in Seq(T), NEW x
  PROVE  (Times(q, x) = 0) <=> \A i \in 1..Len(q) : q[i] # x
<1> DEFINE S == {x}
<1>1. \A e : e \in S <=> e = x
  OBVIOUS
<1>2. Times(q, x) = Count(q, S) /\ DOMAIN q = 1..Len(q)
  BY DEF Times
<1> HIDE DEF S
<1> QED
  BY <1>1, <1>2, CountNone

LEMMA TimesAppend ==
  ASSUME NEW T, NEW q \in Seq(T), NEW e \in T, NEW x
  PROVE  Times(Append(q, e), x) = Times(q, x) + IF e = x THEN 1 ELSE 0
<1> DEFINE S == {x}
<1>1. e \in S <=> e = x
  OBVIOUS
<1>2. Times(q, x) = Count(q, S) /\ Times(Append(q, e), x) = Count(Append(q, e), S)
  BY DEF Times
<1> HIDE DEF S
<1> QED
  BY <1>1, <1>2, CountAppend

LEMMA TimesTail ==
  ASSUME NEW T, NEW q \in Seq(T), q # <<>>, NEW x
  PROVE  Times(q, x) = Times(Tail(q), x) + IF Head(q) = x THEN 1 ELSE 0
<1> DEFINE S == {x}
<1>1. Head(q) \in S <=> Head(q) = x
  OBVIOUS
<1>2. Times(q, x) = Count(q, S) /\ Times(Tail(q), x) = Count(Tail(q), S)
  BY DEF Times
<1> HIDE DEF S
<1> QED
  BY <1>1, <1>2, CountTail

LEMMA TimesChange ==
  ASSUME NEW T, NEW f, NEW w, NEW q, NEW g, NEW x, Changes(T, f, w, q, g)
  PROVE  TimesInAll(g, x) = TimesInAll(f, x) - Times(f[w], x) + Times(q, x)
BY CountChange DEF Times, TimesInAll

LEMMA TimesInAllAppend ==
  ASSUME NEW T, NEW f, NEW w, NEW e, NEW x, NEW g, Appended(T, f, w, e, g)
  PROVE  TimesInAll(g, x) = TimesInAll(f, x) + IF e = x THEN 1 ELSE 0
<1> DEFINE S == {x}
<1>1. e \in S <=> e = x
  OBVIOUS
<1>2. TimesInAll(f, x) = CountAll(f, S) /\ TimesInAll(g, x) = CountAll(g, S)
  BY DEF TimesInAll
<1> HIDE DEF S
<1> QED
  BY <1>1, <1>2, CountAllAppend

LEMMA TimesInAllTail ==
  ASSUME NEW T, NEW f, NEW w, NEW e, NEW x, NEW g, Popped(T, f, w, e, g)
  PROVE  TimesInAll(f, x) = TimesInAll(g, x) + IF e = x THEN 1 ELSE 0
<1> DEFINE S == {x}
<1>1. e \in S <=> e = x
  OBVIOUS
<1>2. TimesInAll(f, x) = CountAll(f, S) /\ TimesInAll(g, x) = CountAll(g, S)
  BY DEF TimesInAll
<1> HIDE DEF S
<1> QED
  BY <1>1, <1>2, CountAllTail

\* The workers at which a job is parked, and at which it runs.
LEMMA HoldersFinite ==
  ASSUME NEW V \in SUBSET Workers
  PROVE  IsFiniteSet(V) /\ Cardinality(V) \in Nat
BY JobsAreFinite, FS_Subset, FS_CardinalityType

-----------------------------------------------------------------------------
(* Where a job can be.                                                     *)

\* Job k is parked at worker w, or no longer; it runs there, or no longer.
Parks(f, w, k, g) ==
    /\ f \in [Workers -> SUBSET Jobs] /\ w \in Workers /\ k \in Jobs \ f[w]
    /\ g = [f EXCEPT ![w] = f[w] \cup {k}]
Leaves(f, w, k, g) ==
    /\ f \in [Workers -> SUBSET Jobs] /\ w \in Workers /\ k \in f[w]
    /\ g = [f EXCEPT ![w] = f[w] \ {k}]
Begins(f, w, k, g) ==
    /\ f \in [Workers -> Jobs \cup {NoJob}] /\ w \in Workers /\ f[w] = NoJob /\ k \in Jobs
    /\ g = [f EXCEPT ![w] = k]
Ends(f, w, k, g) ==
    /\ f \in [Workers -> Jobs \cup {NoJob}] /\ w \in Workers /\ f[w] # NoJob /\ k = f[w]
    /\ g = [f EXCEPT ![w] = NoJob]

LEMMA HoldersAdd ==
  ASSUME NEW f, NEW w, NEW k, NEW j, NEW g, Parks(f, w, k, g)
  PROVE  Cardinality(ParkedAt(g, j)) = Cardinality(ParkedAt(f, j)) + IF j = k THEN 1 ELSE 0
<1> USE DEF Parks
<1>1. IsFiniteSet(ParkedAt(f, j)) /\ Cardinality(ParkedAt(f, j)) \in Nat
  BY HoldersFinite DEF ParkedAt
<1>2. ParkedAt(g, j) = IF j = k THEN ParkedAt(f, j) \cup {w} ELSE ParkedAt(f, j)
  BY DEF ParkedAt
<1>3. j = k => w \notin ParkedAt(f, j)
  BY DEF ParkedAt
<1> DEFINE V == ParkedAt(f, j)
<1> HIDE DEF V
<1>4. Cardinality(V \cup {w}) = IF w \in V THEN Cardinality(V) ELSE Cardinality(V) + 1
  BY <1>1, FS_AddElement DEF V
<1> QED
  BY <1>1, <1>2, <1>3, <1>4 DEF V

LEMMA HoldersRemove ==
  ASSUME NEW f, NEW w, NEW k, NEW j, NEW g, Leaves(f, w, k, g)
  PROVE  Cardinality(ParkedAt(g, j)) = Cardinality(ParkedAt(f, j)) - IF j = k THEN 1 ELSE 0
<1> USE DEF Leaves
<1>1. IsFiniteSet(ParkedAt(f, j)) /\ Cardinality(ParkedAt(f, j)) \in Nat
  BY HoldersFinite DEF ParkedAt
<1>2. ParkedAt(g, j) = IF j = k THEN ParkedAt(f, j) \ {w} ELSE ParkedAt(f, j)
  BY DEF ParkedAt
<1>3. j = k => w \in ParkedAt(f, j)
  BY DEF ParkedAt
<1> DEFINE V == ParkedAt(f, j)
<1> HIDE DEF V
<1>4. Cardinality(V \ {w}) = IF w \in V THEN Cardinality(V) - 1 ELSE Cardinality(V)
  BY <1>1, FS_RemoveElement DEF V
<1> QED
  BY <1>1, <1>2, <1>3, <1>4 DEF V

LEMMA RunnersAdd ==
  ASSUME NEW f, NEW w, NEW k, NEW j \in Jobs, NEW g, Begins(f, w, k, g)
  PROVE  Cardinality(RunningAt(g, j)) = Cardinality(RunningAt(f, j)) + IF j = k THEN 1 ELSE 0
<1> USE DEF Begins
<1>1. IsFiniteSet(RunningAt(f, j)) /\ Cardinality(RunningAt(f, j)) \in Nat
  BY HoldersFinite DEF RunningAt
<1>2. RunningAt(g, j) = IF j = k THEN RunningAt(f, j) \cup {w} ELSE RunningAt(f, j)
  BY JobsAreFinite DEF RunningAt
<1>3. j = k => w \notin RunningAt(f, j)
  BY JobsAreFinite DEF RunningAt
<1> DEFINE V == RunningAt(f, j)
<1> HIDE DEF V
<1>4. Cardinality(V \cup {w}) = IF w \in V THEN Cardinality(V) ELSE Cardinality(V) + 1
  BY <1>1, FS_AddElement DEF V
<1> QED
  BY <1>1, <1>2, <1>3, <1>4 DEF V

LEMMA RunnersRemove ==
  ASSUME NEW f, NEW w, NEW k, NEW j \in Jobs, NEW g, Ends(f, w, k, g)
  PROVE  Cardinality(RunningAt(g, j)) = Cardinality(RunningAt(f, j)) - IF j = k THEN 1 ELSE 0
<1> USE DEF Ends
<1>1. IsFiniteSet(RunningAt(f, j)) /\ Cardinality(RunningAt(f, j)) \in Nat
  BY HoldersFinite DEF RunningAt
<1>2. RunningAt(g, j) = IF j = k THEN RunningAt(f, j) \ {w} ELSE RunningAt(f, j)
  BY JobsAreFinite DEF RunningAt
<1>3. j = k => w \in RunningAt(f, j)
  BY DEF RunningAt
<1> DEFINE V == RunningAt(f, j)
<1> HIDE DEF V
<1>4. Cardinality(V \ {w}) = IF w \in V THEN Cardinality(V) - 1 ELSE Cardinality(V)
  BY <1>1, FS_RemoveElement DEF V
<1> QED
  BY <1>1, <1>2, <1>3, <1>4 DEF V

\* The places of a job, and that they are counted in natural numbers.
LEMMA Places ==
  ASSUME Types, NEW j \in Jobs
  PROVE  /\ Copies(j) = Travelling(j) + TimesInAll(pending, j) + TimesInAll(inbox, j)
                          + Cardinality(ParkedAt(parked, j)) + Cardinality(RunningAt(running, j))
                          + Ended(j)
         /\ Travelling(j) \in Nat /\ TimesInAll(outbox, Given(j)) \in Nat
         /\ Times(mailbox, Given(j)) \in Nat
         /\ TimesInAll(pending, j) \in Nat /\ TimesInAll(inbox, j) \in Nat
         /\ Cardinality(ParkedAt(parked, j)) \in Nat /\ Cardinality(RunningAt(running, j)) \in Nat
         /\ Ended(j) \in Nat
<1>1. /\ TimesInAll(outbox, Given(j)) \in Nat
      /\ TimesInAll(pending, j) \in Nat /\ TimesInAll(inbox, j) \in Nat
  <2>1. /\ outbox \in [Workers -> Seq(Messages)]
        /\ inbox \in [Workers -> Seq(Jobs)] /\ pending \in [Workers -> Seq(Jobs)]
    BY DEF Types
  <2> QED
    BY <2>1, TimesType
<1>2. Times(mailbox, Given(j)) \in Nat
  BY TimesType DEF Types
<1>3. Cardinality(ParkedAt(parked, j)) \in Nat /\ Cardinality(RunningAt(running, j)) \in Nat
  BY HoldersFinite DEF ParkedAt, RunningAt
<1>4. Ended(j) \in Nat
  BY DEF Ended
<1> QED
  BY <1>1, <1>2, <1>3, <1>4 DEF Travelling, Copies

\* The parts of a worker's load.
LEMMA Loads ==
  ASSUME Types, NEW w \in Workers
  PROVE  /\ Count(pending[w], Blocks) \in Nat /\ Count(inbox[w], Blocks) \in Nat
         /\ IsFiniteSet(parked[w] \cap Modules) /\ Cardinality(parked[w] \cap Modules) \in Nat
         /\ Times(outbox[w], IdleMessage(w)) \in Nat /\ Times(mailbox, IdleMessage(w)) \in Nat
         /\ Blocking(w) \in Nat /\ IdleNews(w) \in Nat
<1>1. /\ Count(pending[w], Blocks) \in Nat /\ Count(inbox[w], Blocks) \in Nat
      /\ Times(outbox[w], IdleMessage(w)) \in Nat
  <2>1. pending[w] \in Seq(Jobs) /\ inbox[w] \in Seq(Jobs) /\ outbox[w] \in Seq(Messages)
    BY DEF Types
  <2> QED
    BY <2>1, FoundFinite, TimesType
<1>2. Times(mailbox, IdleMessage(w)) \in Nat
  BY TimesType DEF Types
<1>3. IsFiniteSet(parked[w] \cap Modules) /\ Cardinality(parked[w] \cap Modules) \in Nat
  <2>1. parked[w] \cap Modules \in SUBSET Jobs
    BY DEF Types, Modules
  <2> QED
    BY <2>1, JobsAreFinite, FS_Subset, FS_CardinalityType
<1> QED
  BY <1>1, <1>2, <1>3 DEF Load, Blocking, IdleNews

\* Messages differ in what they say, of whom.
LEMMA MessagesDiffer ==
  /\ \A j \in Jobs : Given(j) # CloseMessage
  /\ \A j \in Jobs, w \in Workers : Given(j) \notin {IdleMessage(w), BusyMessage(w)}
  /\ \A v, w \in Workers : /\ IdleMessage(w) # BusyMessage(v)
                           /\ CloseMessage \notin {IdleMessage(w), BusyMessage(w)}
                           /\ IdleMessage(v) = IdleMessage(w) => v = w
                           /\ BusyMessage(v) = BusyMessage(w) => v = w
  /\ \A j, k \in Jobs : Given(j) = Given(k) => j = k
BY DEF Given, IdleMessage, BusyMessage, CloseMessage, Message

LEMMA MessageTypes ==
  /\ \A j \in Jobs : Given(j) \in Messages /\ Given(j) \in Mail
  /\ \A w \in Workers : /\ Posted(w) \subseteq Mail /\ IdleMessage(w) \in Posted(w)
                        /\ BusyMessage(w) \in Posted(w)
                        /\ \A j \in Jobs : Given(j) \in Posted(w)
  /\ CloseMessage \in Mail /\ Mail \subseteq Messages
BY DEF Given, IdleMessage, BusyMessage, CloseMessage, Message, Messages, Mail, Posted

\* What these sums are after a step.
LEMMA PlacesNext ==
  ASSUME NEW j
  PROVE  /\ Copies(j)' = Travelling(j)' + TimesInAll(pending', j) + TimesInAll(inbox', j)
              + Cardinality(ParkedAt(parked', j)) + Cardinality(RunningAt(running', j)) + Ended(j)'
         /\ Travelling(j)' = TimesInAll(outbox', Given(j)) + Times(mailbox', Given(j))
         /\ Ended(j)' = (IF j \in done' THEN 1 ELSE 0) + (IF j \in failed' THEN 1 ELSE 0)
BY DEF Copies, Travelling, Ended, ParkedAt, RunningAt

LEMMA LoadNext ==
  ASSUME NEW w
  PROVE  /\ Load(w)' = Blocking(w)' + IdleNews(w)'
         /\ Blocking(w)' = Count(pending'[w], Blocks) + Count(inbox'[w], Blocks)
                             + Cardinality(parked'[w] \cap Modules)
                             + (IF running'[w] = NoJob THEN 0 ELSE 1)
         /\ IdleNews(w)' = Times(outbox'[w], IdleMessage(w)) + Times(mailbox', IdleMessage(w))
BY DEF Load, Blocking, IdleNews

LEMMA PlacesNextType ==
  ASSUME Types', NEW j \in Jobs
  PROVE  /\ Travelling(j)' \in Nat
         /\ TimesInAll(pending', j) \in Nat /\ TimesInAll(inbox', j) \in Nat
         /\ Cardinality(ParkedAt(parked', j)) \in Nat /\ Cardinality(RunningAt(running', j)) \in Nat
         /\ Ended(j)' \in Nat
<1>1. TimesInAll(outbox', Given(j)) \in Nat /\ Times(mailbox', Given(j)) \in Nat
  BY TimesType DEF Types
<1>2. Cardinality(ParkedAt(parked', j)) \in Nat /\ Cardinality(RunningAt(running', j)) \in Nat
  BY HoldersFinite DEF ParkedAt, RunningAt
<1>3. TimesInAll(pending', j) \in Nat /\ TimesInAll(inbox', j) \in Nat
  BY TimesType DEF Types
<1>4. Travelling(j)' \in Nat
  BY <1>1, PlacesNext
<1>5. Ended(j)' \in Nat
  BY DEF Ended
<1> QED
  BY <1>2, <1>3, <1>4, <1>5

LEMMA LoadNextType ==
  ASSUME Types', NEW w \in Workers
  PROVE  /\ Count(pending'[w], Blocks) \in Nat /\ Count(inbox'[w], Blocks) \in Nat
         /\ Cardinality(parked'[w] \cap Modules) \in Nat
         /\ Times(outbox'[w], IdleMessage(w)) \in Nat /\ Times(mailbox', IdleMessage(w)) \in Nat
         /\ Blocking(w)' \in Nat /\ IdleNews(w)' \in Nat
<1>1. /\ Count(pending'[w], Blocks) \in Nat /\ Count(inbox'[w], Blocks) \in Nat
  <2>1. pending'[w] \in Seq(Jobs) /\ inbox'[w] \in Seq(Jobs)
    BY DEF Types
  <2> QED
    BY <2>1, FoundFinite
<1>2. Times(outbox'[w], IdleMessage(w)) \in Nat /\ Times(mailbox', IdleMessage(w)) \in Nat
  BY TimesType DEF Types
<1>3. Cardinality(parked'[w] \cap Modules) \in Nat
  <2>1. parked'[w] \cap Modules \in SUBSET Jobs
    BY DEF Types, Modules
  <2> QED
    BY <2>1, JobsAreFinite, FS_Subset, FS_CardinalityType
<1>4. (IF running'[w] = NoJob THEN 0 ELSE 1) \in Nat
  OBVIOUS
<1> DEFINE one == IF running'[w] = NoJob THEN 0 ELSE 1
           held == Cardinality(parked'[w] \cap Modules)
<1>5. /\ Blocking(w)' = Count(pending'[w], Blocks) + Count(inbox'[w], Blocks) + held + one
      /\ IdleNews(w)' = Times(outbox'[w], IdleMessage(w)) + Times(mailbox', IdleMessage(w))
  BY LoadNext
<1>6. held \in Nat /\ one \in Nat
  BY <1>3, <1>4
<1> HIDE DEF one, held
<1>7. Blocking(w)' \in Nat /\ IdleNews(w)' \in Nat
  BY ONLY <1>1, <1>2, <1>5, <1>6
<1> QED
  BY <1>1, <1>2, <1>3, <1>7

LEMMA InitInv == Init => IInv
<1> SUFFICES ASSUME Init PROVE IInv
  OBVIOUS
<1> USE DEF Init
<1>1. Types
  <2>1. mailbox \in Seq(Mail) /\ \A w \in Workers : outbox[w] \in Seq(Posted(w))
    OBVIOUS
  <2> QED
    BY <2>1 DEF Types
<1>2. Created
  <2>1. Arrived = {}
    BY DEF Arrived
  <2> QED
    BY <2>1, FS_EmptySet DEF Created
<1>3. Lists = {} /\ ToSet(idle) = {} /\ ToSet(busy) = {}
  BY DEF Lists, ToSet
<1>4. Unborn /\ Closed /\ IsInjective(idle \o busy)
  BY <1>3 DEF Unborn, Closed, IsInjective
<1>5. EachOnce
  <2> SUFFICES ASSUME NEW j \in Jobs PROVE Copies(j) = 0
    BY DEF EachOnce
  <2>1. ParkedAt(parked, j) = {} /\ RunningAt(running, j) = {}
    BY JobsAreFinite DEF ParkedAt, RunningAt
  <2>2. Travelling(j) = 0 /\ TimesInAll(pending, j) = 0 /\ TimesInAll(inbox, j) = 0
    BY TimesType DEF Travelling
  <2>3. Ended(j) = 0
    BY DEF Ended
  <2>4. Cardinality(ParkedAt(parked, j)) = 0 /\ Cardinality(RunningAt(running, j)) = 0
    BY ONLY <2>1, FS_EmptySet
  <2> QED
    BY ONLY <2>2, <2>3, <2>4 DEF Copies
<1>6. ASSUME NEW w \in Workers PROVE NewsInOrder(w) /\ LoadIsRight(w)
  <2>1. parked[w] \cap Modules = {}
    OBVIOUS
  <2>2. Load(w) = 0
    BY <2>1, CountEmpty, TimesType, FS_EmptySet DEF Load, Blocking, IdleNews
  <2> QED
    BY <1>3, <2>2 DEF NewsInOrder, LoadIsRight
<1> QED
  BY <1>1, <1>2, <1>4, <1>5, <1>6 DEF IInv

-----------------------------------------------------------------------------
(* The steps of the workers.                                               *)

\* A step that keeps jobs travelling, or makes one travel that is new.
LEMMA CreatedStays ==
  ASSUME Types, Types', Created, next_id' = next_id, spawned \subseteq spawned',
         \A j \in spawned : Travelling(j) = 0 => Travelling(j)' = 0
  PROVE  Created'
<1>1. Arrived \subseteq Arrived'
  BY DEF Arrived
<1>2. IsFiniteSet(Arrived') /\ Cardinality(Arrived') \in Nat
  <2>1. Arrived' \in SUBSET Jobs
    BY DEF Arrived, Types
  <2> QED
    BY <2>1, JobsAreFinite, FS_Subset, FS_CardinalityType
<1>3. Cardinality(Arrived) <= Cardinality(Arrived') /\ Cardinality(Arrived) \in Nat
  BY <1>1, <1>2, FS_Subset, FS_CardinalityType
<1> QED
  BY <1>2, <1>3 DEF Created, Types

\* A step of worker w, which the scheduler has yet to hear of.
LEMMA WorkerStays ==
  ASSUME IInv, Types', NEW w \in Workers, Alive(w),
         UNCHANGED <<lists, mailbox, life, spawned>>, failed \subseteq failed',
         \A v \in Workers \ {w} :
            /\ inbox'[v] = inbox[v] /\ pending'[v] = pending[v] /\ outbox'[v] = outbox[v]
            /\ parked'[v] = parked[v] /\ running'[v] = running[v],
         NewsInOrder(w)', LoadIsRight(w)',
         \A j \in Jobs : Travelling(j)' = Travelling(j) /\ Copies(j)' = Copies(j)
  PROVE  IInv'
<1>1. UNCHANGED <<idle, busy, next_id>>
  BY DEF lists
<1>2. Created' /\ Closed'
  <2>1. spawned \subseteq Jobs
    BY DEF IInv, Types
  <2> QED
    BY <1>1, <2>1, CreatedStays DEF IInv, Closed
<1>3. Unborn'
  <2>1. w < next_id
    BY DEF IInv, Unborn, Lists, Alive
  <2>2. w \in Nat /\ next_id \in Nat
    BY JobsAreFinite DEF IInv, Types
  <2>3. \A v \in Workers : v >= next_id => v # w
    BY <2>1, <2>2
  <2> QED
    BY <1>1, <2>3 DEF IInv, Unborn, Lists
<1>4. EachOnce' /\ IsInjective(idle \o busy)'
  BY <1>1 DEF IInv, EachOnce
<1>5. ASSUME NEW v \in Workers, v # w PROVE NewsInOrder(v)' /\ LoadIsRight(v)'
  <2>1. Load(v)' = Load(v)
    BY <1>5 DEF Load, Blocking, IdleNews
  <2>2. NewsInOrder(v) /\ LoadIsRight(v)
    BY DEF IInv
  <2> QED
    BY <1>1, <1>5, <2>1, <2>2 DEF NewsInOrder, LoadIsRight, NotIn
<1> QED
  BY <1>2, <1>3, <1>4, <1>5 DEF IInv

\* What is known of a worker that takes a step.
LEMMA WorkerFacts ==
  ASSUME IInv, NEW w \in Workers, Alive(w)
  PROVE  /\ inbox[w] \in Seq(Jobs) /\ pending[w] \in Seq(Jobs)
         /\ outbox[w] \in Seq(Messages) /\ outbox[w] \in Seq(Posted(w))
         /\ parked[w] \subseteq Jobs /\ running[w] \in Jobs \cup {NoJob}
         /\ inbox \in [Workers -> Seq(Jobs)] /\ pending \in [Workers -> Seq(Jobs)]
         /\ outbox \in [Workers -> Seq(Messages)]
         /\ running \in [Workers -> Jobs \cup {NoJob}] /\ parked \in [Workers -> SUBSET Jobs]
         /\ mailbox \in Seq(Messages) /\ mailbox \in Seq(Mail)
         /\ life # "closed"
         /\ \A j \in Jobs : Copies(j) = IF j \in spawned THEN 1 ELSE 0
         /\ NewsInOrder(w) /\ LoadIsRight(w)
<1>1. life # "closed"
  BY DEF IInv, Closed, Alive, ToSet
<1>2. mailbox \in Seq(Messages)
  BY MessageTypes DEF IInv, Types
<1> QED
  BY <1>1, <1>2 DEF IInv, Types, EachOnce

LEMMA BreakStep == ASSUME IInv, NEW w \in Workers, Break(w) PROVE IInv'
<1> USE DEF Break, worker, lists, jobs, closing
<1>1. Types'
  BY DEF IInv, Types
<1>2. Alive(w) /\ NewsInOrder(w) /\ LoadIsRight(w)
  BY DEF IInv
<1>3. NewsInOrder(w)' /\ LoadIsRight(w)'
  BY <1>2 DEF NewsInOrder, NotIn, LoadIsRight, Load, Blocking, IdleNews
<1>4. \A j \in Jobs : Travelling(j)' = Travelling(j) /\ Copies(j)' = Copies(j)
  BY DEF Copies, Travelling, Ended
<1> QED
  BY <1>1, <1>2, <1>3, <1>4, WorkerStays

LEMMA ReadyStep == ASSUME IInv, NEW w \in Workers, Ready(w) PROVE IInv'
<1> DEFINE q == inbox[w]
<1>1. PICK n \in 0..Len(q) : /\ pending' = [pending EXCEPT ![w] = SubSeq(q, 1, n)]
                             /\ inbox' = [inbox EXCEPT ![w] = SubSeq(q, n + 1, Len(q))]
  BY DEF Ready
<1> DEFINE p == SubSeq(q, 1, n)
           r == SubSeq(q, n + 1, Len(q))
<1>2. Alive(w)
  BY DEF Ready
<1>3. /\ q \in Seq(Jobs) /\ pending \in [Workers -> Seq(Jobs)] /\ inbox \in [Workers -> Seq(Jobs)]
      /\ pending[w] = <<>> /\ NewsInOrder(w) /\ LoadIsRight(w)
  BY <1>2, WorkerFacts DEF IInv, Types, Ready
<1>4. p \in Seq(Jobs) /\ r \in Seq(Jobs)
  BY <1>3
<1>5. \A S : Count(q, S) = Count(p, S) + Count(r, S)
  BY <1>3, CountSplit
<1> HIDE DEF p, q, r
<1>6. Changes(Jobs, pending, w, p, pending') /\ Changes(Jobs, inbox, w, r, inbox')
  BY <1>1, <1>3, <1>4 DEF p, q, r, Changes
<1>7. pending'[w] = p /\ inbox'[w] = r
  BY <1>6 DEF Changes
<1>8. Types'
  <2>1. pending' \in [Workers -> Seq(Jobs)] /\ inbox' \in [Workers -> Seq(Jobs)]
    BY <1>6 DEF Changes
  <2>2. phase' \in [Workers -> {"starting", "ready", "broken"}]
    BY DEF IInv, Types, Ready
  <2>3. \A v \in Workers : phase'[v] = "starting" => pending'[v] = <<>>
    BY <1>6 DEF IInv, Types, Ready, Changes
  <2> QED
    BY <2>1, <2>2, <2>3 DEF IInv, Types, Ready, lists, jobs, closing
<1>9. \A S : Count(p, S) \in Nat /\ Count(r, S) \in Nat
  BY <1>4, FoundFinite
<1>10. Load(w)' = Load(w)
  <2>1. /\ Count(pending[w], Blocks) = 0 /\ Count(inbox[w], Blocks) = Count(p, Blocks) + Count(r, Blocks)
        /\ Count(p, Blocks) \in Nat /\ Count(r, Blocks) \in Nat
    BY <1>3, <1>5, <1>9, CountEmpty DEF q
  <2>2. /\ Count(pending'[w], Blocks) = Count(p, Blocks) /\ Count(inbox'[w], Blocks) = Count(r, Blocks)
    BY <1>7
  <2>3. UNCHANGED <<mailbox, outbox, running, parked>>
    BY DEF Ready
  <2>4. Count(pending'[w], Blocks) + Count(inbox'[w], Blocks)
          = Count(pending[w], Blocks) + Count(inbox[w], Blocks)
    BY <2>1, <2>2
  <2> QED
    BY <2>3, <2>4 DEF Load, Blocking, IdleNews
<1>11. NewsInOrder(w)' /\ LoadIsRight(w)'
  BY <1>3, <1>10 DEF NewsInOrder, NotIn, LoadIsRight, Ready, lists, jobs
<1>12. \A j \in Jobs : Travelling(j)' = Travelling(j) /\ Copies(j)' = Copies(j)
  <2> SUFFICES ASSUME NEW j \in Jobs PROVE Travelling(j)' = Travelling(j) /\ Copies(j)' = Copies(j)
    OBVIOUS
  <2>1. /\ TimesInAll(pending', j) = TimesInAll(pending, j) - Times(pending[w], j) + Times(p, j)
        /\ TimesInAll(inbox', j) = TimesInAll(inbox, j) - Times(q, j) + Times(r, j)
    BY <1>6, TimesChange DEF q
  <2>2. Times(pending[w], j) = 0
    BY <1>3, TimesType
  <2>3. UNCHANGED <<mailbox, outbox, running, parked, done, failed>>
    BY DEF Ready, jobs
  <2>4. Times(q, j) = Times(p, j) + Times(r, j) /\ Times(p, j) \in Nat /\ Times(r, j) \in Nat
    BY <1>5, <1>9 DEF Times
  <2>5. Travelling(j)' = Travelling(j) /\ Ended(j)' = Ended(j)
    BY <2>3 DEF Travelling, Ended
  <2>6. TimesInAll(pending', j) + TimesInAll(inbox', j) = TimesInAll(pending, j) + TimesInAll(inbox, j)
    <3>1. TimesInAll(pending, j) \in Nat /\ TimesInAll(inbox, j) \in Nat
      BY <1>3, TimesType
    <3> QED
      BY <2>1, <2>2, <2>4, <3>1
  <2>7. /\ TimesInAll(pending', j) \in Nat /\ TimesInAll(inbox', j) \in Nat
        /\ ParkedAt(parked', j) = ParkedAt(parked, j) /\ RunningAt(running', j) = RunningAt(running, j)
    BY <1>6, <2>3, CountChange, TimesType DEF Changes, ParkedAt, RunningAt
  <2>8. Types
    BY DEF IInv
  <2>9. /\ Copies(j)' = Travelling(j)' + TimesInAll(pending', j) + TimesInAll(inbox', j)
              + Cardinality(ParkedAt(parked', j)) + Cardinality(RunningAt(running', j)) + Ended(j)'
        /\ Copies(j) = Travelling(j) + TimesInAll(pending, j) + TimesInAll(inbox, j)
              + Cardinality(ParkedAt(parked, j)) + Cardinality(RunningAt(running, j)) + Ended(j)
    BY <2>8, Places, PlacesNext
  <2>10. /\ Travelling(j) \in Nat /\ TimesInAll(pending, j) \in Nat /\ TimesInAll(inbox, j) \in Nat
    BY <2>8, Places
  <2> QED
    BY ONLY <2>5, <2>6, <2>7, <2>9, <2>10
<1>13. /\ UNCHANGED <<lists, mailbox, life, spawned, failed>>
       /\ \A v \in Workers \ {w} :
            /\ inbox'[v] = inbox[v] /\ pending'[v] = pending[v] /\ outbox'[v] = outbox[v]
            /\ parked'[v] = parked[v] /\ running'[v] = running[v]
  BY <1>6 DEF Ready, Changes, jobs, closing
<1> QED
  BY <1>2, <1>8, <1>11, <1>12, <1>13, WorkerStays

\* A worker posts news of itself.
LEMMA Posting ==
  ASSUME IInv, NEW w \in Workers, Alive(w), NEW m \in {BusyMessage(w), IdleMessage(w)},
         outbox' = [outbox EXCEPT ![w] = Append(outbox[w], m)], mailbox' = mailbox
  PROVE  /\ outbox' \in [Workers -> Seq(Messages)]
         /\ \A v \in Workers : outbox'[v] \in Seq(Posted(v))
         /\ \A v \in Workers \ {w} : outbox'[v] = outbox[v]
         /\ \A j \in Jobs : Travelling(j)' = Travelling(j)
         /\ IdleNews(w)' = IdleNews(w) + IF m = IdleMessage(w) THEN 1 ELSE 0
<1>1. m \in Messages /\ m \in Posted(w)
  BY MessageTypes
<1>2. /\ outbox \in [Workers -> Seq(Messages)] /\ outbox[w] \in Seq(Messages)
      /\ \A v \in Workers : outbox[v] \in Seq(Posted(v))
  BY WorkerFacts DEF IInv, Types
<1>3. outbox'[w] = Append(outbox[w], m) /\ \A v \in Workers \ {w} : outbox'[v] = outbox[v]
  BY <1>2
<1>4. /\ outbox' \in [Workers -> Seq(Messages)]
      /\ \A v \in Workers : outbox'[v] \in Seq(Posted(v))
  <2>1. Append(outbox[w], m) \in Seq(Messages) /\ Append(outbox[w], m) \in Seq(Posted(w))
    BY <1>1, <1>2
  <2> QED
    BY <1>2, <1>3, <2>1
<1>5. ASSUME NEW j \in Jobs PROVE Travelling(j)' = Travelling(j)
  <2>1. TimesInAll(outbox', Given(j)) = TimesInAll(outbox, Given(j)) + IF m = Given(j) THEN 1 ELSE 0
    <3>1. Appended(Messages, outbox, w, m, outbox')
      BY <1>1, <1>2 DEF Appended
    <3> QED
      BY <3>1, TimesInAllAppend
  <2>2. TimesInAll(outbox, Given(j)) \in Nat /\ m # Given(j)
    BY <1>2, TimesType, MessagesDiffer
  <2> QED
    BY <2>1, <2>2 DEF Travelling
<1>6. IdleNews(w)' = IdleNews(w) + IF m = IdleMessage(w) THEN 1 ELSE 0
  <2>1. Times(outbox'[w], IdleMessage(w))
          = Times(outbox[w], IdleMessage(w)) + IF m = IdleMessage(w) THEN 1 ELSE 0
    BY <1>1, <1>2, <1>3, TimesAppend
  <2>2. Times(outbox[w], IdleMessage(w)) \in Nat /\ Times(mailbox, IdleMessage(w)) \in Nat
    BY Loads DEF IInv
  <2>3. IdleNews(w)' = Times(outbox'[w], IdleMessage(w)) + Times(mailbox, IdleMessage(w))
    BY DEF IdleNews
  <2>4. IdleNews(w) = Times(outbox[w], IdleMessage(w)) + Times(mailbox, IdleMessage(w))
    BY DEF IdleNews
  <2> QED
    BY ONLY <2>1, <2>2, <2>3, <2>4
<1> QED
  BY <1>3, <1>4, <1>5, <1>6

\* Without news of a job's end on its way, a worker may say that it is busy.
LEMMA BusyInOrder ==
  ASSUME IInv, NEW w \in Workers, Alive(w), IdleNews(w) = 0, w \notin ToSet(idle),
         outbox' = [outbox EXCEPT ![w] = Append(outbox[w], BusyMessage(w))],
         UNCHANGED <<mailbox, idle>>
  PROVE  NewsInOrder(w)'
<1>1. /\ outbox[w] \in Seq(Messages) /\ mailbox \in Seq(Messages) /\ Types
      /\ outbox \in [Workers -> Seq(Messages)]
  BY WorkerFacts DEF IInv
<1>2. Times(outbox[w], IdleMessage(w)) = 0 /\ Times(mailbox, IdleMessage(w)) = 0
  <2>1. Times(outbox[w], IdleMessage(w)) \in Nat /\ Times(mailbox, IdleMessage(w)) \in Nat
    BY <1>1, Loads
  <2>2. Times(outbox[w], IdleMessage(w)) + Times(mailbox, IdleMessage(w)) = 0
    BY DEF IdleNews
  <2> QED
    BY ONLY <2>1, <2>2
<1>3. /\ \A i \in 1..Len(outbox[w]) : outbox[w][i] # IdleMessage(w)
      /\ \A i \in 1..Len(mailbox) : mailbox[i] # IdleMessage(w)
  BY <1>1, <1>2, TimesNone
<1>4. outbox'[w] = Append(outbox[w], BusyMessage(w))
  BY <1>1
<1>5. \A i \in 1..Len(outbox'[w]) : outbox'[w][i] # IdleMessage(w)
  <2>1. IdleMessage(w) # BusyMessage(w)
    BY MessagesDiffer
  <2> QED
    BY <1>1, <1>3, <1>4, <2>1
<1> QED
  BY <1>3, <1>5 DEF NewsInOrder

\* A job at the head of a queue of a worker is not parked there.
LEMMA QueuedOnce ==
  ASSUME IInv, NEW w \in Workers, Alive(w), NEW f \in {pending, inbox}, f[w] # <<>>
  PROVE  /\ Head(f[w]) \in Jobs /\ Tail(f[w]) \in Seq(Jobs) /\ Head(f[w]) \notin parked[w]
         /\ Count(f[w], Blocks) = Count(Tail(f[w]), Blocks) + IF Head(f[w]) \in Blocks THEN 1 ELSE 0
         /\ Head(f[w]) \in Blocks => Load(w) = 1 /\ IdleNews(w) = 0 /\ w \notin ToSet(idle)
<1>1. /\ pending[w] \in Seq(Jobs) /\ inbox[w] \in Seq(Jobs) /\ Types /\ LoadIsRight(w)
      /\ pending \in [Workers -> Seq(Jobs)] /\ inbox \in [Workers -> Seq(Jobs)]
      /\ \A j \in Jobs : Copies(j) = IF j \in spawned THEN 1 ELSE 0
  BY WorkerFacts DEF IInv
<1>2. f[w] \in Seq(Jobs) /\ f \in [Workers -> Seq(Jobs)]
  BY <1>1
<1> DEFINE j == Head(f[w])
           r == Tail(f[w])
           g == [f EXCEPT ![w] = Tail(f[w])]
<1>3. j \in Jobs /\ r \in Seq(Jobs)
  BY <1>2
<1>4. Count(f[w], Blocks) = Count(r, Blocks) + IF j \in Blocks THEN 1 ELSE 0
  BY <1>2, CountTail
<1>5. j \notin parked[w]
  <2>1. TimesInAll(f, j) = TimesInAll(g, j) + 1
    <3>1. Popped(Jobs, f, w, j, g)
      BY <1>2 DEF Popped
    <3> HIDE DEF g, j
    <3> QED
      BY <3>1, TimesInAllTail
  <2>2. TimesInAll(g, j) \in Nat
    <3>1. g \in [Workers -> Seq(Jobs)]
      BY <1>2, <1>3
    <3> QED
      BY <3>1, TimesType
  <2> DEFINE n == TimesInAll(f, j)
             p == Cardinality(ParkedAt(parked, j))
  <2> HIDE DEF j, g, p
  <2>3. n \in Nat /\ n # 0
    BY <2>1, <2>2
  <2>4. TimesInAll(pending, j) \in Nat /\ TimesInAll(inbox, j) \in Nat /\ p \in Nat
        /\ Travelling(j) \in Nat /\ Cardinality(RunningAt(running, j)) \in Nat /\ Ended(j) \in Nat
        /\ Copies(j) = Travelling(j) + TimesInAll(pending, j) + TimesInAll(inbox, j)
                          + p + Cardinality(RunningAt(running, j)) + Ended(j)
        /\ Copies(j) \in {0, 1}
    BY <1>1, <1>3, Places DEF p
  <2>5. n = TimesInAll(pending, j) \/ n = TimesInAll(inbox, j)
    OBVIOUS
  <2> HIDE DEF n
  <2>6. p = 0
    BY ONLY <2>3, <2>4, <2>5
  <2>7. ParkedAt(parked, j) = {}
    BY <2>6, HoldersFinite, FS_EmptySet DEF ParkedAt, p
  <2> QED
    BY <2>7 DEF ParkedAt, j
<1>6. j \in Blocks => Load(w) = 1 /\ IdleNews(w) = 0 /\ w \notin ToSet(idle)
  <2> SUFFICES ASSUME j \in Blocks PROVE Load(w) = 1 /\ IdleNews(w) = 0 /\ w \notin ToSet(idle)
    OBVIOUS
  <2>1. Count(r, Blocks) \in Nat
    BY <1>3, FoundFinite
  <2> DEFINE n == Count(f[w], Blocks)
  <2>2. n \in Nat /\ n # 0
    BY <1>4, <2>1
  <2>3. n = Count(pending[w], Blocks) \/ n = Count(inbox[w], Blocks)
    OBVIOUS
  <2>4. /\ Count(pending[w], Blocks) \in Nat /\ Count(inbox[w], Blocks) \in Nat
        /\ Cardinality(parked[w] \cap Modules) \in Nat
        /\ Blocking(w) \in Nat /\ IdleNews(w) \in Nat
    BY <1>1, Loads
  <2>5. Load(w) = Blocking(w) + IdleNews(w)
    BY DEF Load
  <2> DEFINE one == IF running[w] = NoJob THEN 0 ELSE 1
  <2>6. one \in Nat
    OBVIOUS
  <2>7. Blocking(w) = Count(pending[w], Blocks) + Count(inbox[w], Blocks)
                        + Cardinality(parked[w] \cap Modules) + one
    BY DEF Blocking
  <2> HIDE DEF n, one
  <2>8. Load(w) <= 1
    BY <1>1 DEF LoadIsRight
  <2>9. Load(w) = 1 /\ IdleNews(w) = 0
    BY ONLY <2>2, <2>3, <2>4, <2>5, <2>6, <2>7, <2>8
  <2> QED
    BY <1>1, <2>9 DEF LoadIsRight
<1> QED
  BY <1>3, <1>4, <1>5, <1>6

\* A blocking job among those parked.
LEMMA ParkedModules ==
  ASSUME Types, NEW w \in Workers, NEW j \in Jobs
  PROVE  /\ j \notin parked[w] => Cardinality((parked[w] \cup {j}) \cap Modules)
              = Cardinality(parked[w] \cap Modules) + IF j \in Modules THEN 1 ELSE 0
         /\ j \in parked[w] => Cardinality((parked[w] \ {j}) \cap Modules)
              = Cardinality(parked[w] \cap Modules) - IF j \in Modules THEN 1 ELSE 0
<1> DEFINE B == parked[w] \cap Modules
           more == (parked[w] \cup {j}) \cap Modules
           less == (parked[w] \ {j}) \cap Modules
<1>1. IsFiniteSet(B) /\ Cardinality(B) \in Nat
  BY Loads
<1>2. /\ more = IF j \in Modules THEN B \cup {j} ELSE B
      /\ less = IF j \in Modules THEN B \ {j} ELSE B
      /\ j \in B <=> j \in parked[w] /\ j \in Modules
  OBVIOUS
<1> HIDE DEF B, more, less
<1>3. /\ j \notin B => Cardinality(B \cup {j}) = Cardinality(B) + 1
      /\ j \in B => Cardinality(B \ {j}) = Cardinality(B) - 1
  BY <1>1, FS_AddElement, FS_RemoveElement
<1>4. /\ j \notin parked[w] => Cardinality(more) = Cardinality(B) + IF j \in Modules THEN 1 ELSE 0
      /\ j \in parked[w] => Cardinality(less) = Cardinality(B) - IF j \in Modules THEN 1 ELSE 0
  BY <1>1, <1>2, <1>3
<1> QED
  BY <1>4 DEF B, more, less

\* What handling a job does, wherever the job came from.
LEMMA HandleEffect ==
  ASSUME IInv, NEW w \in Workers, Alive(w), running[w] = NoJob, NEW j \in Jobs \ parked[w],
         Handle(w, j), UNCHANGED <<mailbox, idle>>,
         j \in Blocks => IdleNews(w) = 0 /\ w \notin ToSet(idle)
  PROVE  /\ outbox' \in [Workers -> Seq(Messages)]
         /\ \A v \in Workers : outbox'[v] \in Seq(Posted(v))
         /\ running' \in [Workers -> Jobs \cup {NoJob}] /\ parked' \in [Workers -> SUBSET Jobs]
         /\ \A v \in Workers \ {w} :
               outbox'[v] = outbox[v] /\ parked'[v] = parked[v] /\ running'[v] = running[v]
         /\ \A k \in Jobs : Travelling(k)' = Travelling(k)
         /\ \A k \in Jobs : Cardinality(ParkedAt(parked', k)) + Cardinality(RunningAt(running', k))
               = Cardinality(ParkedAt(parked, k)) + Cardinality(RunningAt(running, k))
                   + IF k = j THEN 1 ELSE 0
         /\ Cardinality(parked'[w] \cap Modules) + (IF running'[w] = NoJob THEN 0 ELSE 1)
               = Cardinality(parked[w] \cap Modules) + IF j \in Blocks THEN 1 ELSE 0
         /\ NewsInOrder(w)' /\ IdleNews(w)' = IdleNews(w)
<1>1. /\ running \in [Workers -> Jobs \cup {NoJob}] /\ parked \in [Workers -> SUBSET Jobs]
      /\ outbox \in [Workers -> Seq(Messages)] /\ Types /\ NewsInOrder(w)
      /\ \A v \in Workers : outbox[v] \in Seq(Posted(v))
  BY WorkerFacts DEF IInv, Types
<1>2. ASSUME NEW k \in Jobs
      PROVE Cardinality(ParkedAt(parked, k)) \in Nat /\ Cardinality(RunningAt(running, k)) \in Nat
  BY <1>1, Places
<1>3. Cardinality(parked[w] \cap Modules) \in Nat /\ IdleNews(w) \in Nat
  BY <1>1, Loads
<1>4. j # NoJob
  BY JobsAreFinite
<1>5. CASE KindOf[j] \in {"blocking", "sleep"} /\ Begin(w, j) /\ UNCHANGED parked
  <2>1. /\ outbox' = [outbox EXCEPT ![w] = Append(outbox[w], BusyMessage(w))]
        /\ running' = [running EXCEPT ![w] = j] /\ parked' = parked /\ j \in Blocks
    BY <1>5 DEF Begin, BusyMessage, Blocks, would_block
  <2>2. NewsInOrder(w)'
    BY <2>1, BusyInOrder
  <2>3. /\ outbox' \in [Workers -> Seq(Messages)]
        /\ \A v \in Workers : outbox'[v] \in Seq(Posted(v))
        /\ \A v \in Workers \ {w} : outbox'[v] = outbox[v]
        /\ \A k \in Jobs : Travelling(k)' = Travelling(k)
        /\ IdleNews(w)' = IdleNews(w)
    <3>1. BusyMessage(w) # IdleMessage(w)
      BY MessagesDiffer
    <3>2. IdleNews(w)' = IdleNews(w) + IF BusyMessage(w) = IdleMessage(w) THEN 1 ELSE 0
      BY <2>1, Posting
    <3>3. IdleNews(w)' = IdleNews(w)
      BY ONLY <1>3, <3>1, <3>2
    <3> QED
      BY <2>1, <3>3, Posting
  <2>4. /\ running' \in [Workers -> Jobs \cup {NoJob}] /\ running'[w] = j
        /\ \A v \in Workers \ {w} : running'[v] = running[v]
    BY <1>1, <2>1
  <2>5. ASSUME NEW k \in Jobs
        PROVE Cardinality(RunningAt(running', k))
                = Cardinality(RunningAt(running, k)) + IF k = j THEN 1 ELSE 0
    <3>1. Begins(running, w, j, running')
      BY <1>1, <2>1 DEF Begins
    <3> QED
      BY <3>1, RunnersAdd
  <2>6. \A k \in Jobs : Cardinality(ParkedAt(parked', k)) + Cardinality(RunningAt(running', k))
           = Cardinality(ParkedAt(parked, k)) + Cardinality(RunningAt(running, k))
               + IF k = j THEN 1 ELSE 0
    <3> TAKE k \in Jobs
    <3>1. ParkedAt(parked', k) = ParkedAt(parked, k)
      BY <2>1
    <3>2. Cardinality(ParkedAt(parked, k)) \in Nat /\ Cardinality(RunningAt(running, k)) \in Nat
      BY <1>2
    <3>3. Cardinality(RunningAt(running', k))
            = Cardinality(RunningAt(running, k)) + IF k = j THEN 1 ELSE 0
      BY <2>5
    <3> QED
      BY ONLY <3>1, <3>2, <3>3
  <2>7. Cardinality(parked'[w] \cap Modules) + (IF running'[w] = NoJob THEN 0 ELSE 1)
           = Cardinality(parked[w] \cap Modules) + IF j \in Blocks THEN 1 ELSE 0
    BY <1>3, <1>4, <2>1, <2>4
  <2> QED
    BY ONLY <1>1, <1>3, <2>1, <2>2, <2>3, <2>4, <2>6, <2>7
<1>6. CASE /\ KindOf[j] \in {"async", "wasm"}
           /\ parked' = [parked EXCEPT ![w] = @ \cup {j}]
           /\ UNCHANGED <<outbox, running>>
  <2>1. /\ parked' = [parked EXCEPT ![w] = parked[w] \cup {j}] /\ outbox' = outbox
        /\ running' = running /\ mailbox' = mailbox /\ idle' = idle
    BY <1>6
  <2>2. /\ parked' \in [Workers -> SUBSET Jobs] /\ parked'[w] = parked[w] \cup {j}
        /\ \A v \in Workers \ {w} : parked'[v] = parked[v]
    BY <1>1, <2>1
  <2>3. ASSUME NEW k \in Jobs
        PROVE Cardinality(ParkedAt(parked', k))
                = Cardinality(ParkedAt(parked, k)) + IF k = j THEN 1 ELSE 0
    <3>1. Parks(parked, w, j, parked')
      BY <1>1, <2>1 DEF Parks
    <3> QED
      BY <3>1, HoldersAdd
  <2>4. \A k \in Jobs : Cardinality(ParkedAt(parked', k)) + Cardinality(RunningAt(running', k))
           = Cardinality(ParkedAt(parked, k)) + Cardinality(RunningAt(running, k))
               + IF k = j THEN 1 ELSE 0
    <3> TAKE k \in Jobs
    <3>1. RunningAt(running', k) = RunningAt(running, k)
      BY <2>1
    <3>2. Cardinality(ParkedAt(parked, k)) \in Nat /\ Cardinality(RunningAt(running, k)) \in Nat
      BY <1>2
    <3>3. Cardinality(ParkedAt(parked', k))
            = Cardinality(ParkedAt(parked, k)) + IF k = j THEN 1 ELSE 0
      BY <2>3
    <3> QED
      BY ONLY <3>1, <3>2, <3>3
  <2>5. Cardinality(parked'[w] \cap Modules) + (IF running'[w] = NoJob THEN 0 ELSE 1)
           = Cardinality(parked[w] \cap Modules) + IF j \in Blocks THEN 1 ELSE 0
    <3>1. Cardinality(parked'[w] \cap Modules)
            = Cardinality(parked[w] \cap Modules) + IF j \in Modules THEN 1 ELSE 0
      BY <1>1, <2>2, ParkedModules
    <3>2. j \in Modules <=> j \in Blocks
      BY <1>6 DEF Modules, Blocks, would_block
    <3> QED
      BY <1>3, <2>1, <3>1, <3>2
  <2>6. NewsInOrder(w)' /\ IdleNews(w)' = IdleNews(w) /\ \A k \in Jobs : Travelling(k)' = Travelling(k)
    BY <1>1, <2>1 DEF NewsInOrder, NotIn, IdleNews, Travelling
  <2> QED
    BY <1>1, <2>1, <2>2, <2>4, <2>5, <2>6
<1> QED
  BY <1>5, <1>6 DEF Handle

LEMMA HandlePendingStep == ASSUME IInv, NEW w \in Workers, HandlePending(w) PROVE IInv'
<1> DEFINE j == Head(pending[w])
<1>1. /\ Alive(w) /\ phase[w] = "ready" /\ running[w] = NoJob /\ pending[w] # <<>>
      /\ Handle(w, j) /\ pending' = [pending EXCEPT ![w] = Tail(pending[w])]
      /\ awaited' = [awaited EXCEPT ![w] = j]
      /\ UNCHANGED <<idle, busy, next_id, mailbox, inbox, phase, spawned, done, failed, life, drained>>
  BY DEF HandlePending, Free, LoopGoesOn, lists, jobs, closing
<1>2. /\ j \in Jobs \ parked[w]
      /\ Count(pending[w], Blocks) = Count(Tail(pending[w]), Blocks) + IF j \in Blocks THEN 1 ELSE 0
      /\ j \in Blocks => IdleNews(w) = 0 /\ w \notin ToSet(idle)
  BY <1>1, QueuedOnce
<1>3. /\ Types /\ pending \in [Workers -> Seq(Jobs)] /\ inbox \in [Workers -> Seq(Jobs)]
      /\ LoadIsRight(w)
  BY <1>1, WorkerFacts DEF IInv
<1>4. Popped(Jobs, pending, w, j, pending')
  BY <1>1, <1>3 DEF Popped
<1> HIDE DEF j
<1>5. /\ outbox' \in [Workers -> Seq(Messages)]
      /\ \A v \in Workers : outbox'[v] \in Seq(Posted(v))
      /\ running' \in [Workers -> Jobs \cup {NoJob}] /\ parked' \in [Workers -> SUBSET Jobs]
      /\ \A v \in Workers \ {w} :
            outbox'[v] = outbox[v] /\ parked'[v] = parked[v] /\ running'[v] = running[v]
      /\ \A k \in Jobs : Travelling(k)' = Travelling(k)
      /\ \A k \in Jobs : Cardinality(ParkedAt(parked', k)) + Cardinality(RunningAt(running', k))
            = Cardinality(ParkedAt(parked, k)) + Cardinality(RunningAt(running, k))
                + IF k = j THEN 1 ELSE 0
      /\ Cardinality(parked'[w] \cap Modules) + (IF running'[w] = NoJob THEN 0 ELSE 1)
            = Cardinality(parked[w] \cap Modules) + IF j \in Blocks THEN 1 ELSE 0
      /\ NewsInOrder(w)' /\ IdleNews(w)' = IdleNews(w)
  BY <1>1, <1>2, HandleEffect
<1>6. pending' \in [Workers -> Seq(Jobs)]
  BY <1>4, CountAllTail
<1>7. pending'[w] = Tail(pending[w]) /\ \A v \in Workers \ {w} : pending'[v] = pending[v]
  BY <1>1, <1>3
<1>8. Types'
  <2>1. awaited' \in [Workers -> Jobs \cup {NoJob}]
    BY <1>1, <1>2, <1>3 DEF Types
  <2>2. \A v \in Workers : phase'[v] = "starting" => pending'[v] = <<>>
    BY <1>1, <1>3, <1>7 DEF Types
  <2> QED
    BY <1>1, <1>3, <1>5, <1>6, <2>1, <2>2 DEF Types
<1>9. LoadIsRight(w)'
  <2> DEFINE one == IF j \in Blocks THEN 1 ELSE 0
             runs == IF running'[w] = NoJob THEN 0 ELSE 1
             ran == IF running[w] = NoJob THEN 0 ELSE 1
  <2>1. /\ Count(pending[w], Blocks) = Count(pending'[w], Blocks) + one /\ one \in Nat
        /\ Count(inbox'[w], Blocks) = Count(inbox[w], Blocks)
        /\ Cardinality(parked'[w] \cap Modules) + runs = Cardinality(parked[w] \cap Modules) + one
        /\ IdleNews(w)' = IdleNews(w) /\ runs \in Nat /\ ran = 0
    BY <1>1, <1>2, <1>5, <1>7
  <2>2. /\ Load(w)' = Blocking(w)' + IdleNews(w)'
        /\ Blocking(w)' = Count(pending'[w], Blocks) + Count(inbox'[w], Blocks)
                            + Cardinality(parked'[w] \cap Modules) + runs
    BY LoadNext
  <2>3. /\ Load(w) = Blocking(w) + IdleNews(w)
        /\ Blocking(w) = Count(pending[w], Blocks) + Count(inbox[w], Blocks)
                            + Cardinality(parked[w] \cap Modules) + ran
    BY DEF Load, Blocking
  <2>4. /\ Count(pending'[w], Blocks) \in Nat /\ Count(inbox[w], Blocks) \in Nat
        /\ Cardinality(parked'[w] \cap Modules) \in Nat /\ Cardinality(parked[w] \cap Modules) \in Nat
    BY <1>3, <1>8, Loads, LoadNextType
  <2> HIDE DEF one, runs, ran
  <2>5. Load(w)' = Load(w)
    BY ONLY <2>1, <2>2, <2>3, <2>4
  <2> QED
    BY <1>1, <1>3, <2>5 DEF LoadIsRight
<1>10. ASSUME NEW k \in Jobs PROVE Copies(k)' = Copies(k)
  <2> DEFINE one == IF k = j THEN 1 ELSE 0
  <2>1. /\ TimesInAll(pending, k) = TimesInAll(pending', k) + one
        /\ Cardinality(ParkedAt(parked', k)) + Cardinality(RunningAt(running', k))
             = Cardinality(ParkedAt(parked, k)) + Cardinality(RunningAt(running, k)) + one
    BY <1>4, <1>5, TimesInAllTail
  <2>2. one \in Nat /\ Travelling(k)' = Travelling(k) /\ TimesInAll(inbox', k) = TimesInAll(inbox, k)
        /\ Ended(k)' = Ended(k)
    BY <1>1, <1>5 DEF Ended
  <2> HIDE DEF one
  <2>3. Copies(k)' = Travelling(k)' + TimesInAll(pending', k) + TimesInAll(inbox', k)
          + Cardinality(ParkedAt(parked', k)) + Cardinality(RunningAt(running', k)) + Ended(k)'
    BY PlacesNext
  <2>4. /\ Travelling(k) \in Nat /\ TimesInAll(inbox, k) \in Nat /\ TimesInAll(pending', k) \in Nat
        /\ Cardinality(ParkedAt(parked, k)) \in Nat /\ Cardinality(RunningAt(running, k)) \in Nat
        /\ Cardinality(ParkedAt(parked', k)) \in Nat /\ Cardinality(RunningAt(running', k)) \in Nat
        /\ Ended(k) \in Nat
        /\ Copies(k) = Travelling(k) + TimesInAll(pending, k) + TimesInAll(inbox, k)
             + Cardinality(ParkedAt(parked, k)) + Cardinality(RunningAt(running, k)) + Ended(k)
    BY <1>3, <1>8, Places, PlacesNextType
  <2> QED
    BY ONLY <2>1, <2>2, <2>3, <2>4
<1>11. /\ UNCHANGED <<lists, mailbox, life, spawned>> /\ failed \subseteq failed'
       /\ \A v \in Workers \ {w} :
            /\ inbox'[v] = inbox[v] /\ pending'[v] = pending[v] /\ outbox'[v] = outbox[v]
            /\ parked'[v] = parked[v] /\ running'[v] = running[v]
  BY <1>1, <1>5, <1>7 DEF lists
<1> QED
  BY <1>1, <1>5, <1>8, <1>9, <1>10, <1>11, WorkerStays

LEMMA HandleMessageStep == ASSUME IInv, NEW w \in Workers, HandleMessage(w) PROVE IInv'
<1> DEFINE j == Head(inbox[w])
<1>1. /\ Alive(w) /\ phase[w] = "ready" /\ running[w] = NoJob /\ inbox[w] # <<>>
      /\ Handle(w, j) /\ inbox' = [inbox EXCEPT ![w] = Tail(inbox[w])]
      /\ UNCHANGED <<idle, busy, next_id, mailbox, pending, phase, awaited, spawned, done, failed,
                      life, drained>>
  BY DEF HandleMessage, Free, start, lists, jobs, closing
<1>2. /\ j \in Jobs \ parked[w]
      /\ Count(inbox[w], Blocks) = Count(Tail(inbox[w]), Blocks) + IF j \in Blocks THEN 1 ELSE 0
      /\ j \in Blocks => IdleNews(w) = 0 /\ w \notin ToSet(idle)
  BY <1>1, QueuedOnce
<1>3. /\ Types /\ inbox \in [Workers -> Seq(Jobs)] /\ pending \in [Workers -> Seq(Jobs)]
      /\ LoadIsRight(w)
  BY <1>1, WorkerFacts DEF IInv
<1>4. Popped(Jobs, inbox, w, j, inbox')
  BY <1>1, <1>3 DEF Popped
<1> HIDE DEF j
<1>5. /\ outbox' \in [Workers -> Seq(Messages)]
      /\ \A v \in Workers : outbox'[v] \in Seq(Posted(v))
      /\ running' \in [Workers -> Jobs \cup {NoJob}] /\ parked' \in [Workers -> SUBSET Jobs]
      /\ \A v \in Workers \ {w} :
            outbox'[v] = outbox[v] /\ parked'[v] = parked[v] /\ running'[v] = running[v]
      /\ \A k \in Jobs : Travelling(k)' = Travelling(k)
      /\ \A k \in Jobs : Cardinality(ParkedAt(parked', k)) + Cardinality(RunningAt(running', k))
            = Cardinality(ParkedAt(parked, k)) + Cardinality(RunningAt(running, k))
                + IF k = j THEN 1 ELSE 0
      /\ Cardinality(parked'[w] \cap Modules) + (IF running'[w] = NoJob THEN 0 ELSE 1)
            = Cardinality(parked[w] \cap Modules) + IF j \in Blocks THEN 1 ELSE 0
      /\ NewsInOrder(w)' /\ IdleNews(w)' = IdleNews(w)
  BY <1>1, <1>2, HandleEffect
<1>6. inbox' \in [Workers -> Seq(Jobs)]
  BY <1>4, CountAllTail
<1>7. inbox'[w] = Tail(inbox[w]) /\ \A v \in Workers \ {w} : inbox'[v] = inbox[v]
  BY <1>1, <1>3
<1>8. Types'
  BY <1>1, <1>3, <1>5, <1>6 DEF Types
<1>9. LoadIsRight(w)'
  <2> DEFINE one == IF j \in Blocks THEN 1 ELSE 0
             runs == IF running'[w] = NoJob THEN 0 ELSE 1
             ran == IF running[w] = NoJob THEN 0 ELSE 1
  <2>1. /\ Count(inbox[w], Blocks) = Count(inbox'[w], Blocks) + one /\ one \in Nat
        /\ Count(pending'[w], Blocks) = Count(pending[w], Blocks)
        /\ Cardinality(parked'[w] \cap Modules) + runs = Cardinality(parked[w] \cap Modules) + one
        /\ IdleNews(w)' = IdleNews(w) /\ runs \in Nat /\ ran = 0
    BY <1>1, <1>2, <1>5, <1>7
  <2>2. /\ Load(w)' = Blocking(w)' + IdleNews(w)'
        /\ Blocking(w)' = Count(pending'[w], Blocks) + Count(inbox'[w], Blocks)
                            + Cardinality(parked'[w] \cap Modules) + runs
    BY LoadNext
  <2>3. /\ Load(w) = Blocking(w) + IdleNews(w)
        /\ Blocking(w) = Count(pending[w], Blocks) + Count(inbox[w], Blocks)
                            + Cardinality(parked[w] \cap Modules) + ran
    BY DEF Load, Blocking
  <2>4. /\ Count(inbox'[w], Blocks) \in Nat /\ Count(pending[w], Blocks) \in Nat
        /\ Cardinality(parked'[w] \cap Modules) \in Nat /\ Cardinality(parked[w] \cap Modules) \in Nat
    BY <1>3, <1>8, Loads, LoadNextType
  <2> HIDE DEF one, runs, ran
  <2>5. Load(w)' = Load(w)
    BY ONLY <2>1, <2>2, <2>3, <2>4
  <2> QED
    BY <1>1, <1>3, <2>5 DEF LoadIsRight
<1>10. ASSUME NEW k \in Jobs PROVE Copies(k)' = Copies(k)
  <2> DEFINE one == IF k = j THEN 1 ELSE 0
  <2>1. /\ TimesInAll(inbox, k) = TimesInAll(inbox', k) + one
        /\ Cardinality(ParkedAt(parked', k)) + Cardinality(RunningAt(running', k))
             = Cardinality(ParkedAt(parked, k)) + Cardinality(RunningAt(running, k)) + one
    BY <1>4, <1>5, TimesInAllTail
  <2>2. one \in Nat /\ Travelling(k)' = Travelling(k) /\ TimesInAll(pending', k) = TimesInAll(pending, k)
        /\ Ended(k)' = Ended(k)
    BY <1>1, <1>5 DEF Ended
  <2> HIDE DEF one
  <2>3. Copies(k)' = Travelling(k)' + TimesInAll(pending', k) + TimesInAll(inbox', k)
          + Cardinality(ParkedAt(parked', k)) + Cardinality(RunningAt(running', k)) + Ended(k)'
    BY PlacesNext
  <2>4. /\ Travelling(k) \in Nat /\ TimesInAll(pending, k) \in Nat /\ TimesInAll(inbox', k) \in Nat
        /\ Cardinality(ParkedAt(parked, k)) \in Nat /\ Cardinality(RunningAt(running, k)) \in Nat
        /\ Cardinality(ParkedAt(parked', k)) \in Nat /\ Cardinality(RunningAt(running', k)) \in Nat
        /\ Ended(k) \in Nat
        /\ Copies(k) = Travelling(k) + TimesInAll(pending, k) + TimesInAll(inbox, k)
             + Cardinality(ParkedAt(parked, k)) + Cardinality(RunningAt(running, k)) + Ended(k)
    BY <1>3, <1>8, Places, PlacesNextType
  <2> QED
    BY ONLY <2>1, <2>2, <2>3, <2>4
<1>11. /\ UNCHANGED <<lists, mailbox, life, spawned>> /\ failed \subseteq failed'
       /\ \A v \in Workers \ {w} :
            /\ pending'[v] = pending[v] /\ inbox'[v] = inbox[v] /\ outbox'[v] = outbox[v]
            /\ parked'[v] = parked[v] /\ running'[v] = running[v]
  BY <1>1, <1>5, <1>7 DEF lists
<1> QED
  BY <1>1, <1>5, <1>8, <1>9, <1>10, <1>11, WorkerStays

\* A job that a worker has begun is nowhere else, and loads the worker.
LEMMA HeldOnce ==
  ASSUME IInv, NEW w \in Workers, Alive(w), NEW j \in Jobs, j \in parked[w] \/ running[w] = j
  PROVE  /\ j \in spawned /\ j \notin done /\ j \notin failed
         /\ j \in parked[w] => running[w] # j
         /\ (j \in parked[w] /\ j \in Modules) \/ running[w] = j =>
               Load(w) = 1 /\ IdleNews(w) = 0 /\ w \notin ToSet(idle)
<1>1. /\ Types /\ LoadIsRight(w) /\ (running[w] = j => running[w] # NoJob)
      /\ Copies(j) = IF j \in spawned THEN 1 ELSE 0
  BY WorkerFacts, JobsAreFinite DEF IInv
<1> DEFINE p == Cardinality(ParkedAt(parked, j))
           r == Cardinality(RunningAt(running, j))
<1>2. p # 0 \/ r # 0
  <2>1. ParkedAt(parked, j) # {} \/ RunningAt(running, j) # {}
    BY DEF ParkedAt, RunningAt
  <2>2. IsFiniteSet(ParkedAt(parked, j)) /\ IsFiniteSet(RunningAt(running, j))
    BY HoldersFinite DEF ParkedAt, RunningAt
  <2> QED
    BY <2>1, <2>2, FS_EmptySet
<1>3. /\ Copies(j) = Travelling(j) + TimesInAll(pending, j) + TimesInAll(inbox, j) + p + r + Ended(j)
      /\ Travelling(j) \in Nat /\ TimesInAll(pending, j) \in Nat /\ TimesInAll(inbox, j) \in Nat
      /\ p \in Nat /\ r \in Nat /\ Ended(j) \in Nat
  BY <1>1, Places
<1>4. j \in spawned /\ Ended(j) = 0
  <2> HIDE DEF p, r
  <2>1. Copies(j) <= 1
    BY <1>1
  <2>2. Copies(j) # 0 /\ Ended(j) = 0
    BY ONLY <1>2, <1>3, <2>1
  <2> QED
    BY <1>1, <2>2
<1>5. j \notin done /\ j \notin failed
  BY <1>4 DEF Ended
<1>6. ASSUME (j \in parked[w] /\ j \in Modules) \/ running[w] = j
      PROVE  Load(w) = 1 /\ IdleNews(w) = 0 /\ w \notin ToSet(idle)
  <2> DEFINE one == IF running[w] = NoJob THEN 0 ELSE 1
             c == Cardinality(parked[w] \cap Modules)
  <2>1. /\ Count(pending[w], Blocks) \in Nat /\ Count(inbox[w], Blocks) \in Nat /\ c \in Nat
        /\ IdleNews(w) \in Nat /\ one \in Nat /\ IsFiniteSet(parked[w] \cap Modules)
    BY <1>1, Loads
  <2>2. c # 0 \/ one # 0
    <3>1. CASE running[w] = j
      BY <1>1, <3>1
    <3>2. CASE j \in parked[w] /\ j \in Modules
      BY <2>1, <3>2, FS_EmptySet
    <3> QED
      BY <1>6, <3>1, <3>2
  <2>3. /\ Load(w) = Blocking(w) + IdleNews(w)
        /\ Blocking(w) = Count(pending[w], Blocks) + Count(inbox[w], Blocks) + c + one
        /\ Load(w) <= 1
    BY <1>1 DEF Load, Blocking, LoadIsRight
  <2> HIDE DEF one, c
  <2>4. Load(w) = 1 /\ IdleNews(w) = 0
    BY ONLY <2>1, <2>2, <2>3
  <2> QED
    BY <1>1, <2>4 DEF LoadIsRight
<1>7. j \in parked[w] => running[w] # j
  <2> SUFFICES ASSUME j \in parked[w], running[w] = j PROVE FALSE
    OBVIOUS
  <2>1. p # 0 /\ r # 0
    <3>1. ParkedAt(parked, j) # {} /\ RunningAt(running, j) # {}
      BY DEF ParkedAt, RunningAt
    <3>2. IsFiniteSet(ParkedAt(parked, j)) /\ IsFiniteSet(RunningAt(running, j))
      BY HoldersFinite DEF ParkedAt, RunningAt
    <3> QED
      BY <3>1, <3>2, FS_EmptySet
  <2>2. Copies(j) = 1
    BY <1>1, <1>4
  <2> HIDE DEF p, r
  <2> QED
    BY ONLY <1>3, <2>1, <2>2
<1> QED
  BY <1>4, <1>5, <1>6, <1>7

LEMMA TriggerStep == ASSUME IInv, NEW w \in Workers, NEW j \in Jobs, Trigger(w, j) PROVE IInv'
<1>1. /\ Alive(w) /\ running[w] = NoJob /\ j \in parked[w] /\ j \in Modules
      /\ running' = [running EXCEPT ![w] = j]
      /\ outbox' = [outbox EXCEPT ![w] = Append(outbox[w], BusyMessage(w))]
      /\ parked' = [parked EXCEPT ![w] = parked[w] \ {j}]
      /\ UNCHANGED <<idle, busy, next_id, mailbox, inbox, phase, pending, awaited, spawned, done, failed,
                     life, drained>>
  BY DEF Trigger, Free, Begin, BusyMessage, Modules, lists, start, jobs, closing
<1>2. Load(w) = 1 /\ IdleNews(w) = 0 /\ w \notin ToSet(idle)
  BY <1>1, HeldOnce
<1>3. /\ Types /\ parked \in [Workers -> SUBSET Jobs] /\ running \in [Workers -> Jobs \cup {NoJob}]
      /\ LoadIsRight(w) /\ j # NoJob
  BY <1>1, WorkerFacts, JobsAreFinite DEF IInv
<1>4. NewsInOrder(w)'
  BY <1>1, <1>2, BusyInOrder
<1>5. /\ outbox' \in [Workers -> Seq(Messages)]
      /\ \A v \in Workers : outbox'[v] \in Seq(Posted(v))
      /\ \A v \in Workers \ {w} : outbox'[v] = outbox[v]
      /\ \A k \in Jobs : Travelling(k)' = Travelling(k)
      /\ IdleNews(w)' = IdleNews(w) + IF BusyMessage(w) = IdleMessage(w) THEN 1 ELSE 0
  BY <1>1, Posting
<1>6. Types'
  BY <1>1, <1>3, <1>5 DEF Types
<1>7. IdleNews(w)' = 0
  BY <1>2, <1>5, MessagesDiffer
<1>8. LoadIsRight(w)'
  <2>1. /\ Count(pending'[w], Blocks) = Count(pending[w], Blocks)
        /\ Count(inbox'[w], Blocks) = Count(inbox[w], Blocks)
        /\ running'[w] # NoJob
    BY <1>1, <1>3
  <2>2. Cardinality(parked'[w] \cap Modules) = Cardinality(parked[w] \cap Modules) - 1
    <3>1. parked'[w] = parked[w] \ {j}
      BY <1>1, <1>3
    <3> QED
      BY <1>1, <1>3, <3>1, ParkedModules
  <2> DEFINE ran == IF running[w] = NoJob THEN 0 ELSE 1
             runs == IF running'[w] = NoJob THEN 0 ELSE 1
  <2>3. /\ Load(w)' = Blocking(w)' + IdleNews(w)'
        /\ Blocking(w)' = Count(pending'[w], Blocks) + Count(inbox'[w], Blocks)
                            + Cardinality(parked'[w] \cap Modules) + runs
    BY LoadNext
  <2>4. /\ Load(w) = Blocking(w) + IdleNews(w)
        /\ Blocking(w) = Count(pending[w], Blocks) + Count(inbox[w], Blocks)
                            + Cardinality(parked[w] \cap Modules) + ran
    BY DEF Load, Blocking
  <2>5. /\ Count(pending[w], Blocks) \in Nat /\ Count(inbox[w], Blocks) \in Nat
        /\ Cardinality(parked[w] \cap Modules) \in Nat
    BY <1>3, Loads
  <2>6. ran = 0 /\ runs = 1
    BY <1>1, <2>1
  <2> HIDE DEF ran, runs
  <2>7. Load(w)' = Load(w)
    BY ONLY <1>2, <1>7, <2>1, <2>2, <2>3, <2>4, <2>5, <2>6
  <2> QED
    BY <1>1, <1>3, <2>7 DEF LoadIsRight
<1>9. ASSUME NEW k \in Jobs PROVE Copies(k)' = Copies(k)
  <2> DEFINE one == IF k = j THEN 1 ELSE 0
  <2>1. Cardinality(ParkedAt(parked', k)) = Cardinality(ParkedAt(parked, k)) - one
    <3>1. Leaves(parked, w, j, parked')
      BY <1>1, <1>3 DEF Leaves
    <3> QED
      BY <3>1, HoldersRemove
  <2>2. Cardinality(RunningAt(running', k)) = Cardinality(RunningAt(running, k)) + one
    <3>1. Begins(running, w, j, running')
      BY <1>1, <1>3 DEF Begins
    <3> QED
      BY <3>1, RunnersAdd
  <2>3. /\ Travelling(k)' = Travelling(k) /\ TimesInAll(inbox', k) = TimesInAll(inbox, k)
        /\ TimesInAll(pending', k) = TimesInAll(pending, k) /\ Ended(k)' = Ended(k) /\ one \in Nat
    BY <1>1, <1>5 DEF Ended
  <2> HIDE DEF one
  <2>4. Copies(k)' = Travelling(k)' + TimesInAll(pending', k) + TimesInAll(inbox', k)
          + Cardinality(ParkedAt(parked', k)) + Cardinality(RunningAt(running', k)) + Ended(k)'
    BY PlacesNext
  <2>5. /\ Travelling(k) \in Nat /\ TimesInAll(inbox, k) \in Nat /\ TimesInAll(pending, k) \in Nat
        /\ Cardinality(ParkedAt(parked, k)) \in Nat /\ Cardinality(RunningAt(running, k)) \in Nat
        /\ Ended(k) \in Nat
        /\ Copies(k) = Travelling(k) + TimesInAll(pending, k) + TimesInAll(inbox, k)
             + Cardinality(ParkedAt(parked, k)) + Cardinality(RunningAt(running, k)) + Ended(k)
    BY <1>3, Places
  <2> QED
    BY ONLY <2>1, <2>2, <2>3, <2>4, <2>5
<1>10. /\ UNCHANGED <<lists, mailbox, life, spawned>> /\ failed \subseteq failed'
       /\ \A v \in Workers \ {w} :
            /\ inbox'[v] = inbox[v] /\ pending'[v] = pending[v] /\ outbox'[v] = outbox[v]
            /\ parked'[v] = parked[v] /\ running'[v] = running[v]
  BY <1>1, <1>3, <1>5 DEF lists
<1> QED
  BY <1>1, <1>4, <1>5, <1>6, <1>8, <1>9, <1>10, WorkerStays

LEMMA ResumeStep == ASSUME IInv, NEW w \in Workers, NEW j \in Jobs, Resume(w, j) PROVE IInv'
<1>1. /\ Alive(w) /\ j \in parked[w] /\ j \notin Modules
      /\ parked' = [parked EXCEPT ![w] = parked[w] \ {j}]
      /\ done' = done \cup {j}
      /\ awaited' = [awaited EXCEPT ![w] = IF awaited[w] = j THEN NoJob ELSE awaited[w]]
      /\ UNCHANGED <<idle, busy, next_id, mailbox, inbox, outbox, running, phase, pending, spawned,
                     failed, life, drained>>
  BY DEF Resume, Free, Settled, Modules, lists, closing
<1>2. j \in spawned /\ j \notin done
  BY <1>1, HeldOnce
<1>3. /\ Types /\ parked \in [Workers -> SUBSET Jobs] /\ LoadIsRight(w) /\ NewsInOrder(w)
      /\ awaited \in [Workers -> Jobs \cup {NoJob}]
  BY <1>1, WorkerFacts DEF IInv, Types
<1>4. Types'
  <2>1. parked' \in [Workers -> SUBSET Jobs] /\ awaited' \in [Workers -> Jobs \cup {NoJob}]
    BY <1>1, <1>3
  <2>2. done' \subseteq spawned
    BY <1>1, <1>2, <1>3 DEF Types
  <2> QED
    BY <1>1, <1>3, <2>1, <2>2 DEF Types
<1>5. \A k \in Jobs : Travelling(k)' = Travelling(k)
  BY <1>1 DEF Travelling
<1>6. NewsInOrder(w)' /\ LoadIsRight(w)'
  <2>1. parked'[w] \cap Modules = parked[w] \cap Modules
    BY <1>1, <1>3
  <2>2. Load(w)' = Load(w)
    BY <1>1, <2>1 DEF Load, Blocking, IdleNews
  <2> QED
    BY <1>1, <1>3, <2>2 DEF NewsInOrder, NotIn, LoadIsRight
<1>7. ASSUME NEW k \in Jobs PROVE Copies(k)' = Copies(k)
  <2> DEFINE one == IF k = j THEN 1 ELSE 0
  <2>1. Cardinality(ParkedAt(parked', k)) = Cardinality(ParkedAt(parked, k)) - one
    <3>1. Leaves(parked, w, j, parked')
      BY <1>1, <1>3 DEF Leaves
    <3> QED
      BY <3>1, HoldersRemove
  <2>2. Ended(k)' = Ended(k) + one
    BY <1>1, <1>2 DEF Ended
  <2>3. /\ Travelling(k)' = Travelling(k) /\ TimesInAll(inbox', k) = TimesInAll(inbox, k)
        /\ TimesInAll(pending', k) = TimesInAll(pending, k) /\ one \in Nat
        /\ RunningAt(running', k) = RunningAt(running, k)
    BY <1>1, <1>5
  <2> HIDE DEF one
  <2>4. Copies(k)' = Travelling(k)' + TimesInAll(pending', k) + TimesInAll(inbox', k)
          + Cardinality(ParkedAt(parked', k)) + Cardinality(RunningAt(running', k)) + Ended(k)'
    BY PlacesNext
  <2>5. /\ Travelling(k) \in Nat /\ TimesInAll(inbox, k) \in Nat /\ TimesInAll(pending, k) \in Nat
        /\ Cardinality(ParkedAt(parked, k)) \in Nat /\ Cardinality(RunningAt(running, k)) \in Nat
        /\ Ended(k) \in Nat
        /\ Copies(k) = Travelling(k) + TimesInAll(pending, k) + TimesInAll(inbox, k)
             + Cardinality(ParkedAt(parked, k)) + Cardinality(RunningAt(running, k)) + Ended(k)
    BY <1>3, Places
  <2> QED
    BY ONLY <2>1, <2>2, <2>3, <2>4, <2>5
<1>8. /\ UNCHANGED <<lists, mailbox, life, spawned>> /\ failed \subseteq failed'
      /\ \A v \in Workers \ {w} :
           /\ inbox'[v] = inbox[v] /\ pending'[v] = pending[v] /\ outbox'[v] = outbox[v]
           /\ parked'[v] = parked[v] /\ running'[v] = running[v]
  BY <1>1, <1>3 DEF lists
<1> QED
  BY <1>1, <1>4, <1>5, <1>6, <1>7, <1>8, WorkerStays

\* The three ways a blocking job ends: a sleep leaves something behind.
LEMMA JobEnds ==
  ASSUME IInv, NEW w \in Workers, Alive(w), running[w] # NoJob,
         running' = [running EXCEPT ![w] = NoJob],
         UNCHANGED <<inbox, pending, mailbox, spawned>>,
         \/ done' = done \cup {running[w]} /\ failed' = failed /\ parked' = parked
         \/ failed' = failed \cup {running[w]} /\ done' = done /\ parked' = parked
         \/ /\ KindOf[running[w]] = "sleep" /\ done' = done /\ failed' = failed
            /\ parked' = [parked EXCEPT ![w] = parked[w] \cup {running[w]}]
  PROVE  /\ Load(w) = 1 /\ IdleNews(w) = 0 /\ w \notin ToSet(idle)
         /\ Blocking(w)' = 0
         /\ running' \in [Workers -> Jobs \cup {NoJob}] /\ parked' \in [Workers -> SUBSET Jobs]
         /\ done' \subseteq spawned /\ failed' \subseteq spawned
         /\ \A v \in Workers \ {w} : running'[v] = running[v] /\ parked'[v] = parked[v]
         /\ \A k \in Jobs : Travelling(k)' = Travelling(k) => Copies(k)' = Copies(k)
<1> DEFINE j == running[w]
<1>1. /\ Types /\ j \in Jobs /\ running \in [Workers -> Jobs \cup {NoJob}]
      /\ done \subseteq spawned /\ failed \subseteq spawned /\ parked \in [Workers -> SUBSET Jobs]
  BY WorkerFacts DEF IInv, Types
<1>2. /\ j \in spawned /\ j \notin done /\ j \notin failed /\ j \notin parked[w]
      /\ Load(w) = 1 /\ IdleNews(w) = 0 /\ w \notin ToSet(idle)
  BY <1>1, HeldOnce
<1>3. /\ running' \in [Workers -> Jobs \cup {NoJob}] /\ running'[w] = NoJob
      /\ \A v \in Workers \ {w} : running'[v] = running[v]
  BY <1>1
<1>7. /\ parked' \in [Workers -> SUBSET Jobs] /\ parked'[w] \cap Modules = parked[w] \cap Modules
      /\ \A v \in Workers \ {w} : parked'[v] = parked[v]
  <2>1. CASE parked' = parked
    BY <1>1, <2>1
  <2>2. CASE KindOf[j] = "sleep" /\ parked' = [parked EXCEPT ![w] = parked[w] \cup {j}]
    <3>1. j \notin Modules
      BY <2>2 DEF Modules
    <3> QED
      BY <1>1, <2>2, <3>1
  <2> QED
    BY <2>1, <2>2
<1>4. Blocking(w)' = 0
  <2> DEFINE ran == IF running[w] = NoJob THEN 0 ELSE 1
             runs == IF running'[w] = NoJob THEN 0 ELSE 1
  <2>1. /\ Blocking(w)' = Count(pending[w], Blocks) + Count(inbox[w], Blocks)
                            + Cardinality(parked'[w] \cap Modules) + runs
        /\ Load(w) = Blocking(w) + IdleNews(w)
        /\ Blocking(w) = Count(pending[w], Blocks) + Count(inbox[w], Blocks)
                            + Cardinality(parked[w] \cap Modules) + ran
    BY DEF Load, Blocking
  <2>2. /\ Count(pending[w], Blocks) \in Nat /\ Count(inbox[w], Blocks) \in Nat
        /\ Cardinality(parked[w] \cap Modules) \in Nat
    BY <1>1, Loads
  <2>3. ran = 1 /\ runs = 0
    BY <1>3
  <2>4. Cardinality(parked'[w] \cap Modules) = Cardinality(parked[w] \cap Modules)
    BY <1>7
  <2> HIDE DEF ran, runs
  <2> QED
    BY ONLY <1>2, <2>1, <2>2, <2>3, <2>4
<1>5. ASSUME NEW k \in Jobs, Travelling(k)' = Travelling(k) PROVE Copies(k)' = Copies(k)
  <2> DEFINE one == IF k = j THEN 1 ELSE 0
  <2>1. Cardinality(RunningAt(running', k)) = Cardinality(RunningAt(running, k)) - one
    <3>1. Ends(running, w, j, running')
      BY <1>1 DEF Ends
    <3> QED
      BY <3>1, RunnersRemove
  <2>2. \/ /\ Ended(k)' = Ended(k) + one
           /\ Cardinality(ParkedAt(parked', k)) = Cardinality(ParkedAt(parked, k))
        \/ /\ Ended(k)' = Ended(k)
           /\ Cardinality(ParkedAt(parked', k)) = Cardinality(ParkedAt(parked, k)) + one
    <3>1. CASE parked' = parked /\ done' = done \cup {j} /\ failed' = failed
      BY <1>2, <3>1 DEF Ended
    <3>2. CASE parked' = parked /\ done' = done /\ failed' = failed \cup {j}
      BY <1>2, <3>2 DEF Ended
    <3>3. CASE /\ done' = done /\ failed' = failed
               /\ parked' = [parked EXCEPT ![w] = parked[w] \cup {j}]
      <4>1. Parks(parked, w, j, parked')
        BY <1>1, <1>2, <3>3 DEF Parks
      <4>2. Cardinality(ParkedAt(parked', k)) = Cardinality(ParkedAt(parked, k)) + one
        BY <4>1, HoldersAdd
      <4> QED
        BY <3>3, <4>2 DEF Ended
    <3> QED
      BY <3>1, <3>2, <3>3
  <2>3. /\ TimesInAll(inbox', k) = TimesInAll(inbox, k) /\ one \in Nat
        /\ TimesInAll(pending', k) = TimesInAll(pending, k)
    OBVIOUS
  <2> HIDE DEF one
  <2>4. Copies(k)' = Travelling(k)' + TimesInAll(pending', k) + TimesInAll(inbox', k)
          + Cardinality(ParkedAt(parked', k)) + Cardinality(RunningAt(running', k)) + Ended(k)'
    BY PlacesNext
  <2>5. /\ Travelling(k) \in Nat /\ TimesInAll(inbox, k) \in Nat /\ TimesInAll(pending, k) \in Nat
        /\ Cardinality(ParkedAt(parked, k)) \in Nat /\ Cardinality(RunningAt(running, k)) \in Nat
        /\ Ended(k) \in Nat
        /\ Copies(k) = Travelling(k) + TimesInAll(pending, k) + TimesInAll(inbox, k)
             + Cardinality(ParkedAt(parked, k)) + Cardinality(RunningAt(running, k)) + Ended(k)
    BY <1>1, Places
  <2> QED
    BY ONLY <1>5, <2>1, <2>2, <2>3, <2>4, <2>5
<1>6. done' \subseteq spawned /\ failed' \subseteq spawned
  BY <1>1, <1>2
<1> QED
  BY <1>2, <1>3, <1>4, <1>5, <1>6, <1>7

LEMMA FinishStep == ASSUME IInv, NEW w \in Workers, Finish(w) PROVE IInv'
<1>1. /\ Alive(w) /\ running[w] # NoJob
      /\ \/ done' = done \cup {running[w]} /\ parked' = parked
         \/ /\ KindOf[running[w]] = "sleep" /\ done' = done
            /\ parked' = [parked EXCEPT ![w] = parked[w] \cup {running[w]}]
      /\ running' = [running EXCEPT ![w] = NoJob]
      /\ outbox' = [outbox EXCEPT ![w] = Append(outbox[w], IdleMessage(w))]
      /\ awaited' = [awaited EXCEPT ![w] = IF awaited[w] = running[w] THEN NoJob ELSE awaited[w]]
      /\ UNCHANGED <<idle, busy, next_id, mailbox, inbox, phase, pending, spawned, failed, life,
                     drained>>
  BY DEF Finish, Return, Settled, IdleMessage, lists, closing
<1>2. /\ Load(w) = 1 /\ IdleNews(w) = 0 /\ w \notin ToSet(idle) /\ Blocking(w)' = 0
      /\ running' \in [Workers -> Jobs \cup {NoJob}] /\ done' \subseteq spawned
      /\ parked' \in [Workers -> SUBSET Jobs]
      /\ \A v \in Workers \ {w} : running'[v] = running[v] /\ parked'[v] = parked[v]
      /\ \A k \in Jobs : Travelling(k)' = Travelling(k) => Copies(k)' = Copies(k)
  BY <1>1, JobEnds
<1>3. /\ Types /\ LoadIsRight(w) /\ NewsInOrder(w) /\ awaited \in [Workers -> Jobs \cup {NoJob}]
      /\ outbox[w] \in Seq(Messages)
  BY <1>1, WorkerFacts DEF IInv, Types
<1>4. /\ outbox' \in [Workers -> Seq(Messages)]
      /\ \A v \in Workers : outbox'[v] \in Seq(Posted(v))
      /\ \A v \in Workers \ {w} : outbox'[v] = outbox[v]
      /\ \A k \in Jobs : Travelling(k)' = Travelling(k)
      /\ IdleNews(w)' = IdleNews(w) + IF IdleMessage(w) = IdleMessage(w) THEN 1 ELSE 0
  BY <1>1, Posting
<1>5. Types'
  <2>1. awaited' \in [Workers -> Jobs \cup {NoJob}]
    BY <1>1, <1>3
  <2> QED
    BY <1>1, <1>2, <1>3, <1>4, <2>1 DEF Types
<1>6. LoadIsRight(w)'
  <2>1. Load(w)' = 1
    <3>1. Load(w)' = Blocking(w)' + IdleNews(w)'
      BY LoadNext
    <3>2. Blocking(w)' = 0 /\ IdleNews(w)' = 1
      BY <1>2, <1>4
    <3> QED
      BY ONLY <3>1, <3>2
  <2> QED
    BY <1>1, <1>2, <1>3, <2>1 DEF LoadIsRight
<1>7. NewsInOrder(w)'
  <2>1. outbox'[w] = Append(outbox[w], IdleMessage(w))
    BY <1>1, <1>3 DEF Types
  <2>2. IdleMessage(w) # BusyMessage(w)
    BY MessagesDiffer
  <2>3. /\ Len(outbox'[w]) = Len(outbox[w]) + 1 /\ Len(outbox[w]) \in Nat
        /\ outbox'[w][Len(outbox[w]) + 1] = IdleMessage(w)
        /\ \A i \in 1..Len(outbox[w]) : outbox'[w][i] = outbox[w][i]
    BY <1>3, <2>1
  <2>4. \A k \in 1..Len(outbox'[w]) : outbox'[w][k] = BusyMessage(w) =>
           k \in 1..Len(outbox[w]) /\ outbox[w][k] = BusyMessage(w)
    BY <2>2, <2>3
  <2>5. \A i, k \in 1..Len(outbox'[w]) :
           i < k /\ outbox'[w][i] = IdleMessage(w) => outbox'[w][k] # BusyMessage(w)
    <3> SUFFICES ASSUME NEW i \in 1..Len(outbox'[w]), NEW k \in 1..Len(outbox'[w]), i < k,
                        outbox'[w][i] = IdleMessage(w), outbox'[w][k] = BusyMessage(w)
                 PROVE FALSE
      OBVIOUS
    <3>1. k \in 1..Len(outbox[w]) /\ outbox[w][k] = BusyMessage(w)
      BY <2>4
    <3>2. i \in 1..Len(outbox[w]) /\ outbox[w][i] = IdleMessage(w)
      BY <2>3, <3>1
    <3> QED
      BY <1>3, <3>1, <3>2 DEF NewsInOrder
  <2> QED
    BY <1>1, <1>3, <2>4, <2>5 DEF NewsInOrder, NotIn
<1>8. /\ UNCHANGED <<lists, mailbox, life, spawned>> /\ failed \subseteq failed'
      /\ \A v \in Workers \ {w} :
           /\ inbox'[v] = inbox[v] /\ pending'[v] = pending[v] /\ outbox'[v] = outbox[v]
           /\ parked'[v] = parked[v] /\ running'[v] = running[v]
  BY <1>1, <1>2, <1>4 DEF lists
<1> QED
  BY <1>1, <1>2, <1>4, <1>5, <1>6, <1>7, <1>8, WorkerStays

LEMMA TrapStep == ASSUME IInv, NEW w \in Workers, Trap(w) PROVE IInv'
<1>1. /\ Alive(w) /\ running[w] # NoJob /\ failed' = failed \cup {running[w]}
      /\ running' = [running EXCEPT ![w] = NoJob]
      /\ UNCHANGED <<idle, busy, next_id, mailbox, inbox, outbox, parked, phase, pending, awaited, spawned,
                     done, life, drained>>
  BY DEF Trap, lists, start, closing
<1>2. /\ Load(w) = 1 /\ IdleNews(w) = 0 /\ w \notin ToSet(idle) /\ Blocking(w)' = 0
      /\ running' \in [Workers -> Jobs \cup {NoJob}] /\ failed' \subseteq spawned
      /\ \A v \in Workers \ {w} : running'[v] = running[v]
      /\ \A k \in Jobs : Travelling(k)' = Travelling(k) => Copies(k)' = Copies(k)
  BY <1>1, JobEnds
<1>3. Types /\ LoadIsRight(w) /\ NewsInOrder(w)
  BY <1>1, WorkerFacts DEF IInv
<1>4. Types'
  BY <1>1, <1>2, <1>3 DEF Types
<1>5. IdleNews(w)' = IdleNews(w) /\ \A k \in Jobs : Travelling(k)' = Travelling(k)
  BY <1>1 DEF IdleNews, Travelling
<1>6. LoadIsRight(w)' /\ NewsInOrder(w)'
  <2>1. Load(w)' = 0
    <3>1. Load(w)' = Blocking(w)' + IdleNews(w)'
      BY LoadNext
    <3>2. Blocking(w)' = 0 /\ IdleNews(w)' = 0
      BY <1>2, <1>5
    <3> QED
      BY ONLY <3>1, <3>2
  <2> QED
    BY <1>1, <1>2, <1>3, <2>1 DEF LoadIsRight, NewsInOrder, NotIn
<1>7. /\ UNCHANGED <<lists, mailbox, life, spawned>> /\ failed \subseteq failed'
      /\ \A v \in Workers \ {w} :
           /\ inbox'[v] = inbox[v] /\ pending'[v] = pending[v] /\ outbox'[v] = outbox[v]
           /\ parked'[v] = parked[v] /\ running'[v] = running[v]
  BY <1>1, <1>2 DEF lists
<1> QED
  BY <1>1, <1>2, <1>4, <1>5, <1>6, <1>7, WorkerStays

-----------------------------------------------------------------------------
(* The steps that give jobs to the pool, and carry messages.               *)

\* A step that only sends messages, or moves them nearer to the scheduler.
LEMMA OnlyMessages ==
  ASSUME IInv, Types', life # "closed", life' # "closed", spawned \subseteq spawned',
         UNCHANGED <<idle, busy, next_id, inbox, pending, parked, running, done, failed>>,
         Unborn',
         \A w \in Workers : NewsInOrder(w)' /\ IdleNews(w)' = IdleNews(w),
         \A j \in Jobs :
            Travelling(j)' = Travelling(j) + IF j \in spawned' \ spawned THEN 1 ELSE 0
  PROVE  IInv'
<1>1. Types /\ Created /\ EachOnce /\ spawned \subseteq Jobs /\ IsInjective(idle \o busy)
  BY DEF IInv, Types
<1>2. Created'
  <2>1. \A j \in spawned : Travelling(j) = 0 => Travelling(j)' = 0
    BY <1>1
  <2> QED
    BY <1>1, <2>1, CreatedStays
<1>3. ASSUME NEW j \in Jobs PROVE Copies(j)' = IF j \in spawned' THEN 1 ELSE 0
  <2> DEFINE one == IF j \in spawned' \ spawned THEN 1 ELSE 0
  <2>1. one \in Nat /\ Travelling(j)' = Travelling(j) + one /\ Ended(j)' = Ended(j)
        /\ ParkedAt(parked', j) = ParkedAt(parked, j) /\ RunningAt(running', j) = RunningAt(running, j)
        /\ TimesInAll(pending', j) = TimesInAll(pending, j) /\ TimesInAll(inbox', j) = TimesInAll(inbox, j)
    BY DEF Ended
  <2>2. Copies(j) = IF j \in spawned THEN 1 ELSE 0
    BY <1>1 DEF EachOnce
  <2>3. (IF j \in spawned THEN 1 ELSE 0) + one = IF j \in spawned' THEN 1 ELSE 0
    OBVIOUS
  <2> HIDE DEF one
  <2>4. Copies(j)' = Travelling(j)' + TimesInAll(pending', j) + TimesInAll(inbox', j)
          + Cardinality(ParkedAt(parked', j)) + Cardinality(RunningAt(running', j)) + Ended(j)'
    BY PlacesNext
  <2>5. /\ Travelling(j) \in Nat /\ TimesInAll(inbox, j) \in Nat /\ TimesInAll(pending, j) \in Nat
        /\ Cardinality(ParkedAt(parked, j)) \in Nat /\ Cardinality(RunningAt(running, j)) \in Nat
        /\ Ended(j) \in Nat
        /\ Copies(j) = Travelling(j) + TimesInAll(pending, j) + TimesInAll(inbox, j)
             + Cardinality(ParkedAt(parked, j)) + Cardinality(RunningAt(running, j)) + Ended(j)
    BY <1>1, Places
  <2>6. Copies(j)' = Copies(j) + one
    BY ONLY <2>1, <2>4, <2>5
  <2> QED
    BY <2>2, <2>3, <2>6
<1>4. ASSUME NEW w \in Workers PROVE LoadIsRight(w)'
  <2>1. Load(w)' = Load(w)
    BY DEF Load, Blocking
  <2>2. LoadIsRight(w)
    BY DEF IInv
  <2> QED
    BY <2>1, <2>2 DEF LoadIsRight
<1>5. EachOnce' /\ Closed'
  BY <1>3 DEF EachOnce, Closed
<1> QED
  BY <1>1, <1>2, <1>4, <1>5 DEF IInv

\* A message that is no news of worker w.
LEMMA OtherMail ==
  ASSUME IInv, NEW w \in Workers, NEW m \in Mail, m \notin {IdleMessage(w), BusyMessage(w)},
         mailbox' = Append(mailbox, m), outbox'[w] = outbox[w], idle' = idle
  PROVE  NewsInOrder(w)' /\ IdleNews(w)' = IdleNews(w)
<1>1. mailbox \in Seq(Mail) /\ NewsInOrder(w) /\ Types
  BY DEF IInv, Types
<1>2. /\ Len(mailbox') = Len(mailbox) + 1 /\ Len(mailbox) \in Nat /\ mailbox'[Len(mailbox) + 1] = m
      /\ \A i \in 1..Len(mailbox) : mailbox'[i] = mailbox[i]
  BY <1>1
<1>3. \A i \in 1..Len(mailbox') : mailbox'[i] \in {IdleMessage(w), BusyMessage(w)} =>
         i \in 1..Len(mailbox) /\ mailbox[i] = mailbox'[i]
  BY <1>2
<1>4. NewsInOrder(w)'
  BY <1>1, <1>3 DEF NewsInOrder, NotIn
<1>5. IdleNews(w)' = IdleNews(w)
  <2>1. Times(mailbox', IdleMessage(w)) = Times(mailbox, IdleMessage(w)) + IF m = IdleMessage(w) THEN 1 ELSE 0
    BY <1>1, TimesAppend
  <2>2. Times(mailbox, IdleMessage(w)) \in Nat
    BY <1>1, Loads
  <2>3. Times(mailbox', IdleMessage(w)) = Times(mailbox, IdleMessage(w))
    BY <2>1, <2>2
  <2> QED
    BY <2>3 DEF IdleNews
<1> QED
  BY <1>4, <1>5

LEMMA SpawnStep == ASSUME IInv, NEW j \in Jobs, Spawn(j) PROVE IInv'
<1>1. /\ j \notin spawned /\ life # "closed" /\ spawned' = spawned \cup {j}
      /\ mailbox' = Append(mailbox, Given(j))
      /\ UNCHANGED <<idle, busy, next_id, inbox, outbox, running, parked, phase, pending, awaited, done,
                     failed, life, drained>>
  BY DEF Spawn, Given, lists, worker, start, closing
<1>2. /\ Given(j) \in Mail
      /\ \A w \in Workers : Given(j) \notin {IdleMessage(w), BusyMessage(w)}
  BY MessageTypes, MessagesDiffer
<1>3. Types /\ Unborn /\ mailbox \in Seq(Mail)
  BY DEF IInv, Types
<1>4. Types'
  <2>1. mailbox' \in Seq(Mail)
    BY <1>1, <1>2, <1>3
  <2> QED
    BY <1>1, <1>3, <2>1 DEF Types
<1>5. \A w \in Workers : NewsInOrder(w)' /\ IdleNews(w)' = IdleNews(w)
  BY <1>1, <1>2, OtherMail
<1>6. Unborn'
  <2>1. \A i \in 1..Len(mailbox') :
           mailbox'[i] # Given(j) => i \in 1..Len(mailbox) /\ mailbox'[i] = mailbox[i]
    BY <1>1, <1>3
  <2> QED
    BY <1>1, <1>2, <1>3, <2>1 DEF Unborn, Lists
<1>7. ASSUME NEW k \in Jobs
      PROVE  Travelling(k)' = Travelling(k) + IF k \in spawned' \ spawned THEN 1 ELSE 0
  <2>1. Times(mailbox', Given(k)) = Times(mailbox, Given(k)) + IF Given(j) = Given(k) THEN 1 ELSE 0
    BY <1>1, <1>2, <1>3, TimesAppend
  <2>2. Given(j) = Given(k) <=> k \in spawned' \ spawned
    BY <1>1, MessagesDiffer
  <2>3. Times(mailbox, Given(k)) \in Nat /\ TimesInAll(outbox, Given(k)) \in Nat
    BY <1>3, Places
  <2>4. /\ Travelling(k)' = TimesInAll(outbox', Given(k)) + Times(mailbox', Given(k))
        /\ Travelling(k) = TimesInAll(outbox, Given(k)) + Times(mailbox, Given(k))
        /\ outbox' = outbox
    BY <1>1 DEF Travelling
  <2> DEFINE one == IF k \in spawned' \ spawned THEN 1 ELSE 0
  <2>5. Times(mailbox', Given(k)) = Times(mailbox, Given(k)) + one /\ one \in Nat
    BY <2>1, <2>2
  <2> HIDE DEF one
  <2>6. Travelling(k)' = Travelling(k) + one
    BY ONLY <2>3, <2>4, <2>5
  <2> QED
    BY <2>6 DEF one
<1> QED
  BY <1>1, <1>4, <1>5, <1>6, <1>7, OnlyMessages

LEMMA SpawnFromStep == ASSUME IInv, NEW w \in Workers, NEW j \in Jobs, SpawnFrom(w, j) PROVE IInv'
<1>1. /\ Alive(w) /\ j \notin spawned /\ spawned' = spawned \cup {j}
      /\ outbox' = [outbox EXCEPT ![w] = Append(outbox[w], Given(j))]
      /\ UNCHANGED <<idle, busy, next_id, mailbox, inbox, running, parked, phase, pending, awaited, done,
                     failed, life, drained>>
  BY DEF SpawnFrom, Given, lists, start, closing
<1>2. /\ Given(j) \in Messages /\ Given(j) \in Posted(w)
      /\ \A v \in Workers : Given(j) \notin {IdleMessage(v), BusyMessage(v)}
  BY MessageTypes, MessagesDiffer
<1>3. /\ Types /\ Unborn /\ outbox \in [Workers -> Seq(Messages)] /\ life # "closed"
      /\ \A v \in Workers : outbox[v] \in Seq(Posted(v)) /\ outbox[v] \in Seq(Messages)
      /\ \A v \in Workers : NewsInOrder(v)
  BY <1>1, WorkerFacts DEF IInv, Types
<1>4. /\ outbox'[w] = Append(outbox[w], Given(j)) /\ outbox'[w] \in Seq(Posted(w))
      /\ \A v \in Workers \ {w} : outbox'[v] = outbox[v]
  BY <1>1, <1>2, <1>3
<1>5. Appended(Messages, outbox, w, Given(j), outbox')
  BY <1>1, <1>2, <1>3 DEF Appended
<1>6. Types'
  <2>1. outbox' \in [Workers -> Seq(Messages)] /\ \A v \in Workers : outbox'[v] \in Seq(Posted(v))
    BY <1>3, <1>4, <1>5, CountAllAppend
  <2> QED
    BY <1>1, <1>3, <2>1 DEF Types
<1>7. ASSUME NEW v \in Workers PROVE NewsInOrder(v)' /\ IdleNews(v)' = IdleNews(v)
  <2>1. CASE v # w
    BY <1>1, <1>3, <1>4, <2>1 DEF NewsInOrder, NotIn, IdleNews
  <2>2. CASE v = w
    <3>1. /\ Len(outbox'[w]) = Len(outbox[w]) + 1 /\ Len(outbox[w]) \in Nat
          /\ outbox'[w][Len(outbox[w]) + 1] = Given(j)
          /\ \A i \in 1..Len(outbox[w]) : outbox'[w][i] = outbox[w][i]
      BY <1>3, <1>4
    <3>2. \A i \in 1..Len(outbox'[w]) : outbox'[w][i] \in {IdleMessage(w), BusyMessage(w)} =>
             i \in 1..Len(outbox[w]) /\ outbox[w][i] = outbox'[w][i]
      BY <1>2, <3>1
    <3>3. NewsInOrder(w)'
      BY <1>1, <1>3, <3>2 DEF NewsInOrder, NotIn
    <3>4. Times(outbox'[w], IdleMessage(w))
            = Times(outbox[w], IdleMessage(w)) + IF Given(j) = IdleMessage(w) THEN 1 ELSE 0
      BY <1>2, <1>3, <1>4, TimesAppend
    <3>5. Times(outbox[w], IdleMessage(w)) \in Nat
      BY <1>3, Loads
    <3>6. Times(outbox'[w], IdleMessage(w)) = Times(outbox[w], IdleMessage(w))
      BY <1>2, <3>4, <3>5
    <3> QED
      BY <1>1, <2>2, <3>3, <3>6 DEF IdleNews
  <2> QED
    BY <2>1, <2>2
<1>8. Unborn'
  <2>1. w < next_id
    BY <1>1, <1>3 DEF Unborn, Lists, Alive
  <2>2. w \in Nat /\ next_id \in Nat
    BY <1>3, JobsAreFinite DEF Types
  <2>3. \A v \in Workers : v >= next_id => v # w
    BY <2>1, <2>2
  <2> QED
    BY <1>1, <1>3, <1>4, <2>3 DEF Unborn, Lists
<1>9. ASSUME NEW k \in Jobs
      PROVE  Travelling(k)' = Travelling(k) + IF k \in spawned' \ spawned THEN 1 ELSE 0
  <2>1. TimesInAll(outbox', Given(k)) = TimesInAll(outbox, Given(k)) + IF Given(j) = Given(k) THEN 1 ELSE 0
    BY <1>5, TimesInAllAppend
  <2>2. Given(j) = Given(k) <=> k \in spawned' \ spawned
    BY <1>1, MessagesDiffer
  <2>3. Times(mailbox, Given(k)) \in Nat /\ TimesInAll(outbox, Given(k)) \in Nat
    BY <1>3, Places
  <2>4. /\ Travelling(k)' = TimesInAll(outbox', Given(k)) + Times(mailbox', Given(k))
        /\ Travelling(k) = TimesInAll(outbox, Given(k)) + Times(mailbox, Given(k))
        /\ mailbox' = mailbox
    BY <1>1 DEF Travelling
  <2> DEFINE one == IF k \in spawned' \ spawned THEN 1 ELSE 0
  <2>5. TimesInAll(outbox', Given(k)) = TimesInAll(outbox, Given(k)) + one /\ one \in Nat
    BY <2>1, <2>2
  <2> HIDE DEF one
  <2>6. Travelling(k)' = Travelling(k) + one
    BY ONLY <2>3, <2>4, <2>5
  <2> QED
    BY <2>6 DEF one
<1> QED
  BY <1>1, <1>3, <1>6, <1>7, <1>8, <1>9, OnlyMessages

LEMMA ReceiveStep == ASSUME IInv, NEW w \in Workers, Receive(w) PROVE IInv'
<1> DEFINE m == Head(outbox[w])
<1>1. /\ life # "closed" /\ outbox[w] # <<>> /\ mailbox' = Append(mailbox, m)
      /\ outbox' = [outbox EXCEPT ![w] = Tail(outbox[w])]
      /\ UNCHANGED <<idle, busy, next_id, inbox, running, parked, phase, pending, awaited, spawned, done,
                     failed, life, drained>>
  BY DEF Receive, lists, start, jobs, closing
<1>2. /\ Types /\ Unborn /\ mailbox \in Seq(Mail) /\ outbox \in [Workers -> Seq(Messages)]
      /\ \A v \in Workers : outbox[v] \in Seq(Posted(v)) /\ outbox[v] \in Seq(Messages)
      /\ \A v \in Workers : NewsInOrder(v)
  BY DEF IInv, Types
<1>3. m \in Posted(w) /\ m \in Mail
  BY <1>1, <1>2, MessageTypes
<1>4. Popped(Messages, outbox, w, m, outbox')
  BY <1>1, <1>2 DEF Popped
<1>5. /\ outbox'[w] = Tail(outbox[w]) /\ \A v \in Workers \ {w} : outbox'[v] = outbox[v]
      /\ outbox'[w] \in Seq(Posted(w)) /\ outbox'[w] \in Seq(Messages)
  BY <1>1, <1>2
<1>6. /\ outbox[w][1] = m /\ Len(outbox[w]) \in Nat \ {0} /\ Len(outbox'[w]) = Len(outbox[w]) - 1
      /\ \A i \in 1..Len(outbox'[w]) : i + 1 \in 1..Len(outbox[w]) /\ outbox'[w][i] = outbox[w][i + 1]
  BY <1>1, <1>2, <1>5
<1>7. /\ Len(mailbox') = Len(mailbox) + 1 /\ Len(mailbox) \in Nat /\ mailbox'[Len(mailbox) + 1] = m
      /\ \A i \in 1..Len(mailbox) : mailbox'[i] = mailbox[i]
  BY <1>1, <1>2
<1>8. Times(outbox[w], IdleMessage(w)) = Times(outbox'[w], IdleMessage(w)) + IF m = IdleMessage(w) THEN 1 ELSE 0
  BY <1>1, <1>2, <1>5, TimesTail
<1>9. ASSUME NEW x PROVE Times(mailbox', x) = Times(mailbox, x) + IF m = x THEN 1 ELSE 0
  BY <1>1, <1>2, <1>3, TimesAppend
<1>10. ASSUME NEW x PROVE TimesInAll(outbox, x) = TimesInAll(outbox', x) + IF m = x THEN 1 ELSE 0
  BY <1>4, TimesInAllTail
<1> HIDE DEF m
<1>11. Types'
  <2>1. outbox' \in [Workers -> Seq(Messages)] /\ \A v \in Workers : outbox'[v] \in Seq(Posted(v))
    BY <1>2, <1>4, <1>5, CountAllTail
  <2>2. mailbox' \in Seq(Mail)
    BY <1>1, <1>2, <1>3
  <2> QED
    BY <1>1, <1>2, <2>1, <2>2 DEF Types
<1>12. \A v \in Workers \ {w} : m \notin {IdleMessage(v), BusyMessage(v)}
  BY <1>3, MessagesDiffer DEF Posted
<1>13. NewsInOrder(w)'
  <2>1. \A i, k \in 1..Len(outbox'[w]) :
           i < k /\ outbox'[w][i] = IdleMessage(w) => outbox'[w][k] # BusyMessage(w)
    BY <1>2, <1>6 DEF NewsInOrder
  <2>2. ASSUME NEW i \in 1..Len(mailbox'), mailbox'[i] = IdleMessage(w),
               NEW k \in 1..Len(mailbox'), i < k, mailbox'[k] = BusyMessage(w)
        PROVE  FALSE
    <3>1. i \in 1..Len(mailbox) /\ mailbox[i] = IdleMessage(w)
      BY <1>7, <2>2
    <3>2. k = Len(mailbox) + 1
      <4> SUFFICES ASSUME k # Len(mailbox) + 1 PROVE FALSE
        OBVIOUS
      <4>1. k \in 1..Len(mailbox) /\ mailbox[k] = BusyMessage(w)
        BY <1>7, <2>2
      <4> QED
        BY <1>2, <2>2, <3>1, <4>1 DEF NewsInOrder
    <3>3. m = BusyMessage(w) /\ outbox[w][1] = BusyMessage(w) /\ 1 \in 1..Len(outbox[w])
      BY <1>6, <1>7, <2>2, <3>2
    <3> QED
      BY <1>2, <3>1, <3>3 DEF NewsInOrder, NotIn
  <2>3. ASSUME NEW i \in 1..Len(mailbox'), mailbox'[i] = IdleMessage(w),
               NEW k \in 1..Len(outbox'[w]), outbox'[w][k] = BusyMessage(w)
        PROVE  FALSE
    <3>1. k + 1 \in 1..Len(outbox[w]) /\ outbox[w][k + 1] = BusyMessage(w) /\ 1 < k + 1
          /\ 1 \in 1..Len(outbox[w])
      BY <1>6, <2>3
    <3>2. CASE i = Len(mailbox) + 1
      <4>1. outbox[w][1] = IdleMessage(w)
        BY <1>6, <1>7, <2>3, <3>2
      <4> QED
        BY <1>2, <3>1, <4>1 DEF NewsInOrder
    <3>3. CASE i # Len(mailbox) + 1
      <4>1. i \in 1..Len(mailbox) /\ mailbox[i] = IdleMessage(w)
        BY <1>7, <2>3, <3>3
      <4> QED
        BY <1>2, <3>1, <4>1 DEF NewsInOrder, NotIn
    <3> QED
      BY <3>2, <3>3
  <2>4. ASSUME w \in ToSet(idle)
        PROVE  /\ \A k \in 1..Len(outbox'[w]) : outbox'[w][k] # BusyMessage(w)
               /\ \A k \in 1..Len(mailbox') : mailbox'[k] # BusyMessage(w)
    <3>1. /\ \A k \in 1..Len(outbox[w]) : outbox[w][k] # BusyMessage(w)
          /\ \A k \in 1..Len(mailbox) : mailbox[k] # BusyMessage(w)
      BY <1>2, <2>4 DEF NewsInOrder, NotIn
    <3>2. ASSUME NEW k \in 1..Len(outbox'[w]) PROVE outbox'[w][k] # BusyMessage(w)
      <4>1. k + 1 \in 1..Len(outbox[w]) /\ outbox'[w][k] = outbox[w][k + 1]
        BY <1>6
      <4> QED
        BY <3>1, <4>1
    <3>3. ASSUME NEW k \in 1..Len(mailbox') PROVE mailbox'[k] # BusyMessage(w)
      <4>1. CASE k \in 1..Len(mailbox)
        BY <1>7, <3>1, <4>1
      <4>2. CASE k = Len(mailbox) + 1
        <5>1. 1 \in 1..Len(outbox[w]) /\ mailbox'[k] = outbox[w][1]
          BY <1>6, <1>7, <4>2
        <5> QED
          BY <3>1, <5>1
      <4> QED
        BY <1>7, <4>1, <4>2
    <3> QED
      BY <3>2, <3>3
  <2> QED
    BY <1>1, <2>1, <2>2, <2>3, <2>4 DEF NewsInOrder, NotIn
<1>14. ASSUME NEW v \in Workers PROVE NewsInOrder(v)' /\ IdleNews(v)' = IdleNews(v)
  <2>1. CASE v # w
    BY <1>1, <1>3, <1>5, <1>12, <2>1, OtherMail
  <2>2. CASE v = w
    <3> DEFINE one == IF m = IdleMessage(w) THEN 1 ELSE 0
    <3>1. /\ Times(mailbox', IdleMessage(w)) = Times(mailbox, IdleMessage(w)) + one
          /\ Times(outbox[w], IdleMessage(w)) = Times(outbox'[w], IdleMessage(w)) + one /\ one \in Nat
      BY <1>8, <1>9
    <3>2. Times(outbox'[w], IdleMessage(w)) \in Nat /\ Times(mailbox, IdleMessage(w)) \in Nat
      BY <1>2, <1>5, Loads, TimesType
    <3>3. /\ IdleNews(w)' = Times(outbox'[w], IdleMessage(w)) + Times(mailbox', IdleMessage(w))
          /\ IdleNews(w) = Times(outbox[w], IdleMessage(w)) + Times(mailbox, IdleMessage(w))
      BY DEF IdleNews
    <3> HIDE DEF one
    <3>4. IdleNews(w)' = IdleNews(w)
      BY ONLY <3>1, <3>2, <3>3
    <3> QED
      BY <1>13, <2>2, <3>4
  <2> QED
    BY <2>1, <2>2
<1>15. Unborn'
  <2>1. w \in Nat /\ next_id \in Nat /\ ~(w >= next_id)
    BY <1>1, <1>2, JobsAreFinite DEF Types, Unborn
  <2>2. \A v \in Workers : v >= next_id => v # w
    BY <2>1
  <2>3. \A i \in 1..Len(mailbox') : mailbox'[i] # m => i \in 1..Len(mailbox) /\ mailbox'[i] = mailbox[i]
    BY <1>7
  <2> QED
    BY <1>1, <1>2, <1>5, <1>12, <2>2, <2>3 DEF Unborn, Lists
<1>16. ASSUME NEW k \in Jobs
       PROVE  Travelling(k)' = Travelling(k) + IF k \in spawned' \ spawned THEN 1 ELSE 0
  <2> DEFINE one == IF m = Given(k) THEN 1 ELSE 0
  <2>1. /\ Times(mailbox', Given(k)) = Times(mailbox, Given(k)) + one /\ one \in Nat
        /\ TimesInAll(outbox, Given(k)) = TimesInAll(outbox', Given(k)) + one
    BY <1>9, <1>10
  <2>2. Times(mailbox, Given(k)) \in Nat /\ TimesInAll(outbox', Given(k)) \in Nat
    BY <1>2, <1>11, Places, TimesType DEF Types
  <2>3. /\ Travelling(k)' = TimesInAll(outbox', Given(k)) + Times(mailbox', Given(k))
        /\ Travelling(k) = TimesInAll(outbox, Given(k)) + Times(mailbox, Given(k))
    BY DEF Travelling
  <2>4. k \notin spawned' \ spawned
    BY <1>1
  <2> HIDE DEF one
  <2>5. Travelling(k)' = Travelling(k) /\ Travelling(k) \in Nat
    BY ONLY <2>1, <2>2, <2>3
  <2> QED
    BY <2>4, <2>5
<1> QED
  BY <1>1, <1>11, <1>14, <1>15, <1>16, OnlyMessages

LEMMA CloseSentStep == ASSUME IInv, CloseSent PROVE IInv'
<1>1. /\ life = "closing" /\ mailbox' = Append(mailbox, CloseMessage)
      /\ UNCHANGED <<idle, busy, next_id, inbox, outbox, running, parked, phase, pending, awaited, spawned,
                     done, failed, life, drained>>
  BY DEF CloseSent, CloseMessage, lists, worker, start, jobs, closing
<1>2. /\ CloseMessage \in Mail
      /\ \A w \in Workers : CloseMessage \notin {IdleMessage(w), BusyMessage(w)}
  BY MessageTypes, MessagesDiffer
<1>3. Types /\ Unborn /\ mailbox \in Seq(Mail)
  BY DEF IInv, Types
<1>4. Types'
  <2>1. mailbox' \in Seq(Mail)
    BY <1>1, <1>2, <1>3
  <2> QED
    BY <1>1, <1>3, <2>1 DEF Types
<1>5. \A w \in Workers : NewsInOrder(w)' /\ IdleNews(w)' = IdleNews(w)
  BY <1>1, <1>2, OtherMail
<1>6. Unborn'
  <2>1. \A i \in 1..Len(mailbox') :
           mailbox'[i] # CloseMessage => i \in 1..Len(mailbox) /\ mailbox'[i] = mailbox[i]
    BY <1>1, <1>3
  <2> QED
    BY <1>1, <1>2, <1>3, <2>1 DEF Unborn, Lists
<1>7. ASSUME NEW k \in Jobs
      PROVE  Travelling(k)' = Travelling(k) + IF k \in spawned' \ spawned THEN 1 ELSE 0
  <2>1. Times(mailbox', Given(k)) = Times(mailbox, Given(k)) + IF CloseMessage = Given(k) THEN 1 ELSE 0
    BY <1>1, <1>2, <1>3, TimesAppend
  <2>2. Times(mailbox, Given(k)) \in Nat /\ Travelling(k) \in Nat
    BY <1>3, Places
  <2>3. Times(mailbox', Given(k)) = Times(mailbox, Given(k))
    <3>1. CloseMessage # Given(k)
      BY MessagesDiffer
    <3> QED
      BY ONLY <2>1, <2>2, <3>1
  <2>4. Travelling(k)' = Travelling(k)
    BY <1>1, <2>3 DEF Travelling
  <2> QED
    BY <1>1, <2>2, <2>4
<1> QED
  BY <1>1, <1>4, <1>5, <1>6, <1>7, OnlyMessages

LEMMA CloseStep == ASSUME IInv, Close PROVE IInv'
<1>1. /\ life = "open" /\ life' = "closing"
      /\ UNCHANGED <<idle, busy, next_id, mailbox, inbox, outbox, running, parked, phase, pending, awaited,
                     spawned, done, failed, drained>>
  BY DEF Close, lists, worker, start, jobs
<1>2. Types /\ Unborn /\ \A w \in Workers : NewsInOrder(w)
  BY DEF IInv
<1>3. Types'
  BY <1>1, <1>2 DEF Types
<1>4. Unborn' /\ \A w \in Workers : NewsInOrder(w)' /\ IdleNews(w)' = IdleNews(w)
  BY <1>1, <1>2 DEF Unborn, Lists, NewsInOrder, NotIn, IdleNews
<1>5. ASSUME NEW k \in Jobs
      PROVE  Travelling(k)' = Travelling(k) + IF k \in spawned' \ spawned THEN 1 ELSE 0
  <2>1. Travelling(k)' = Travelling(k) /\ Travelling(k) \in Nat
    BY <1>1, <1>2, Places DEF Travelling
  <2> QED
    BY <1>1, <2>1
<1> QED
  BY <1>1, <1>3, <1>4, <1>5, OnlyMessages

-----------------------------------------------------------------------------
(* The steps of the scheduler's loop.                                      *)

LEMMA ToSetIs ==
  ASSUME NEW T, NEW q \in Seq(T)
  PROVE  /\ \A x : x \in ToSet(q) <=> \E i \in 1..Len(q) : q[i] = x
         /\ ToSet(q) \subseteq T
BY DEF ToSet

\* A list of lists without repetition.
LEMMA Apart ==
  ASSUME NEW T, NEW p \in Seq(T), NEW q \in Seq(T)
  PROVE  IsInjective(p \o q) <=> /\ \A i, k \in 1..Len(p) : p[i] = p[k] => i = k
                                 /\ \A i, k \in 1..Len(q) : q[i] = q[k] => i = k
                                 /\ \A i \in 1..Len(p), k \in 1..Len(q) : p[i] # q[k]
<1> DEFINE s == p \o q
<1>1. /\ Len(p) \in Nat /\ Len(q) \in Nat /\ Len(s) = Len(p) + Len(q) /\ DOMAIN s = 1..Len(s)
      /\ \A i \in 1..Len(p) : s[i] = p[i]
      /\ \A k \in 1..Len(q) : s[Len(p) + k] = q[k]
  OBVIOUS
<1> HIDE DEF s
<1>2. IsInjective(s) <=> \A i, k \in 1..Len(s) : s[i] = s[k] => i = k
  BY <1>1 DEF IsInjective
<1>3. ASSUME IsInjective(s)
      PROVE  /\ \A i, k \in 1..Len(p) : p[i] = p[k] => i = k
             /\ \A i, k \in 1..Len(q) : q[i] = q[k] => i = k
             /\ \A i \in 1..Len(p), k \in 1..Len(q) : p[i] # q[k]
  <2>1. \A i \in 1..Len(p) : i \in 1..Len(s)
    BY <1>1
  <2>2. \A k \in 1..Len(q) : Len(p) + k \in 1..Len(s)
    BY <1>1
  <2>3. \A i, k \in 1..Len(p) : p[i] = p[k] => i = k
    BY <1>1, <1>2, <1>3, <2>1
  <2>4. ASSUME NEW i \in 1..Len(q), NEW k \in 1..Len(q), q[i] = q[k] PROVE i = k
    <3>1. s[Len(p) + i] = s[Len(p) + k]
      BY <1>1, <2>4
    <3>2. Len(p) + i = Len(p) + k
      BY <1>2, <1>3, <2>2, <3>1
    <3> QED
      BY <1>1, <3>2
  <2>5. ASSUME NEW i \in 1..Len(p), NEW k \in 1..Len(q), p[i] = q[k] PROVE FALSE
    <3>1. s[i] = s[Len(p) + k]
      BY <1>1, <2>5
    <3>2. i = Len(p) + k
      BY <1>2, <1>3, <2>1, <2>2, <3>1
    <3> QED
      BY <1>1, <3>2
  <2> QED
    BY <2>3, <2>4, <2>5
<1>4. ASSUME \A i, k \in 1..Len(p) : p[i] = p[k] => i = k,
             \A i, k \in 1..Len(q) : q[i] = q[k] => i = k,
             \A i \in 1..Len(p), k \in 1..Len(q) : p[i] # q[k]
      PROVE  IsInjective(s)
  <2> SUFFICES ASSUME NEW i \in 1..Len(s), NEW k \in 1..Len(s), s[i] = s[k] PROVE i = k
    BY <1>2
  <2>1. \A n \in 1..Len(s) : \/ n \in 1..Len(p)
                             \/ n - Len(p) \in 1..Len(q) /\ n = Len(p) + (n - Len(p))
    BY <1>1
  <2>2. CASE i \in 1..Len(p) /\ k \in 1..Len(p)
    BY <1>1, <1>4, <2>2
  <2>3. CASE i \in 1..Len(p) /\ k - Len(p) \in 1..Len(q) /\ k = Len(p) + (k - Len(p))
    <3>1. p[i] = s[i] /\ s[k] = q[k - Len(p)]
      BY <1>1, <2>3
    <3> QED
      BY <1>4, <2>3, <3>1
  <2>4. CASE k \in 1..Len(p) /\ i - Len(p) \in 1..Len(q) /\ i = Len(p) + (i - Len(p))
    <3>1. p[k] = s[k] /\ s[i] = q[i - Len(p)]
      BY <1>1, <2>4
    <3> QED
      BY <1>4, <2>4, <3>1
  <2>5. CASE /\ i - Len(p) \in 1..Len(q) /\ i = Len(p) + (i - Len(p))
             /\ k - Len(p) \in 1..Len(q) /\ k = Len(p) + (k - Len(p))
    <3>1. q[i - Len(p)] = q[k - Len(p)]
      BY <1>1, <2>5
    <3> QED
      BY <1>1, <1>4, <2>5, <3>1
  <2> QED
    BY <2>1, <2>2, <2>3, <2>4, <2>5
<1> QED
  BY <1>3, <1>4 DEF s

LEMMA RemoveAtIs ==
  ASSUME NEW T, NEW q \in Seq(T), NEW n \in 1..Len(q)
  PROVE  /\ RemoveAt(q, n) \in Seq(T) /\ Len(RemoveAt(q, n)) = Len(q) - 1
         /\ \A i \in 1..(Len(q) - 1) : RemoveAt(q, n)[i] = IF i < n THEN q[i] ELSE q[i + 1]
<1> DEFINE p == SubSeq(q, 1, n - 1)
           r == SubSeq(q, n + 1, Len(q))
<1>1. p \in Seq(T) /\ Len(p) = n - 1 /\ \A i \in 1..(n - 1) : p[i] = q[i]
  OBVIOUS
<1>2. r \in Seq(T) /\ Len(r) = Len(q) - n /\ \A i \in 1..(Len(q) - n) : r[i] = q[n + i]
  OBVIOUS
<1>3. Len(q) \in Nat /\ n \in Nat /\ RemoveAt(q, n) = p \o r
  BY DEF RemoveAt
<1> HIDE DEF p, r
<1>4. /\ p \o r \in Seq(T) /\ Len(p \o r) = Len(p) + Len(r)
      /\ \A i \in 1..Len(p) : (p \o r)[i] = p[i]
      /\ \A i \in (Len(p) + 1)..(Len(p) + Len(r)) : (p \o r)[i] = r[i - Len(p)]
  BY <1>1, <1>2
<1>5. ASSUME NEW i \in 1..(Len(q) - 1) PROVE (p \o r)[i] = IF i < n THEN q[i] ELSE q[i + 1]
  <2>1. CASE i < n
    BY <1>1, <1>3, <1>4, <2>1
  <2>2. CASE ~(i < n)
    <3>1. i \in (Len(p) + 1)..(Len(p) + Len(r)) /\ i - Len(p) \in 1..(Len(q) - n)
          /\ n + (i - Len(p)) = i + 1
      BY <1>1, <1>2, <1>3, <2>2
    <3> QED
      BY <1>2, <1>4, <2>2, <3>1
  <2> QED
    BY <2>1, <2>2
<1> QED
  BY <1>1, <1>2, <1>3, <1>4, <1>5

\* A message is taken out of the scheduler's mailbox.
LEMMA TakeMail ==
  ASSUME IInv, mailbox # <<>>, mailbox' = Tail(mailbox), outbox' = outbox
  PROVE  /\ mailbox' \in Seq(Mail) /\ Head(mailbox) \in Mail
         /\ mailbox[1] = Head(mailbox) /\ 1 \in 1..Len(mailbox)
         /\ \A i \in 1..Len(mailbox') : i + 1 \in 1..Len(mailbox) /\ mailbox'[i] = mailbox[i + 1]
         /\ \A x : Times(mailbox, x) = Times(mailbox', x) + IF Head(mailbox) = x THEN 1 ELSE 0
         /\ \A x : Times(mailbox', x) \in Nat
         /\ \A k \in Jobs :
              Travelling(k) = Travelling(k)' + IF Head(mailbox) = Given(k) THEN 1 ELSE 0
         /\ \A w \in Workers :
              IdleNews(w) = IdleNews(w)' + IF Head(mailbox) = IdleMessage(w) THEN 1 ELSE 0
         /\ \A w \in Workers :
              (w \in ToSet(idle') => /\ NotIn(outbox[w], BusyMessage(w))
                                     /\ NotIn(mailbox, BusyMessage(w))) => NewsInOrder(w)'
         /\ \A w \in Workers : (w \in ToSet(idle') => w \in ToSet(idle)) => NewsInOrder(w)'
<1>1. mailbox \in Seq(Mail) /\ Types
  BY DEF IInv, Types
<1> DEFINE m == Head(mailbox)
<1>2. /\ mailbox' \in Seq(Mail) /\ m \in Mail /\ mailbox[1] = m /\ 1 \in 1..Len(mailbox)
      /\ \A i \in 1..Len(mailbox') : i + 1 \in 1..Len(mailbox) /\ mailbox'[i] = mailbox[i + 1]
  BY <1>1
<1>3. \A x : Times(mailbox, x) = Times(mailbox', x) + IF m = x THEN 1 ELSE 0
  BY <1>1, TimesTail
<1>4. \A x : Times(mailbox', x) \in Nat
  BY <1>2, TimesType
<1> HIDE DEF m
<1>5. ASSUME NEW k \in Jobs PROVE Travelling(k) = Travelling(k)' + IF m = Given(k) THEN 1 ELSE 0
  <2> DEFINE one == IF m = Given(k) THEN 1 ELSE 0
  <2>1. Times(mailbox, Given(k)) = Times(mailbox', Given(k)) + one /\ one \in Nat
    BY <1>3
  <2>2. Times(mailbox', Given(k)) \in Nat /\ TimesInAll(outbox, Given(k)) \in Nat
    BY <1>1, <1>4, Places
  <2>3. /\ Travelling(k) = TimesInAll(outbox, Given(k)) + Times(mailbox, Given(k))
        /\ Travelling(k)' = TimesInAll(outbox, Given(k)) + Times(mailbox', Given(k))
    BY DEF Travelling
  <2> HIDE DEF one
  <2>4. Travelling(k) = Travelling(k)' + one
    BY ONLY <2>1, <2>2, <2>3
  <2> QED
    BY <2>4 DEF one
<1>6. ASSUME NEW w \in Workers PROVE IdleNews(w) = IdleNews(w)' + IF m = IdleMessage(w) THEN 1 ELSE 0
  <2> DEFINE one == IF m = IdleMessage(w) THEN 1 ELSE 0
  <2>1. Times(mailbox, IdleMessage(w)) = Times(mailbox', IdleMessage(w)) + one /\ one \in Nat
    BY <1>3
  <2>2. Times(mailbox', IdleMessage(w)) \in Nat /\ Times(outbox[w], IdleMessage(w)) \in Nat
    BY <1>1, <1>4, Loads
  <2>3. /\ IdleNews(w) = Times(outbox[w], IdleMessage(w)) + Times(mailbox, IdleMessage(w))
        /\ IdleNews(w)' = Times(outbox[w], IdleMessage(w)) + Times(mailbox', IdleMessage(w))
    BY DEF IdleNews
  <2> HIDE DEF one
  <2>4. IdleNews(w) = IdleNews(w)' + one
    BY ONLY <2>1, <2>2, <2>3
  <2> QED
    BY <2>4 DEF one
<1>7. ASSUME NEW w \in Workers,
             w \in ToSet(idle') => /\ NotIn(outbox[w], BusyMessage(w))
                                   /\ NotIn(mailbox, BusyMessage(w))
      PROVE  NewsInOrder(w)'
  <2>1. NewsInOrder(w)
    BY DEF IInv
  <2>2. ASSUME NEW i \in 1..Len(mailbox'), mailbox'[i] = IdleMessage(w),
               NEW k \in 1..Len(mailbox'), i < k
        PROVE  mailbox'[k] # BusyMessage(w)
    <3>1. /\ i + 1 \in 1..Len(mailbox) /\ mailbox[i + 1] = IdleMessage(w) /\ i + 1 < k + 1
          /\ k + 1 \in 1..Len(mailbox) /\ mailbox'[k] = mailbox[k + 1]
      BY <1>2, <2>2
    <3> QED
      BY <2>1, <3>1 DEF NewsInOrder
  <2>3. ASSUME NEW i \in 1..Len(mailbox'), mailbox'[i] = IdleMessage(w)
        PROVE  NotIn(outbox[w], BusyMessage(w))
    BY <1>2, <2>1, <2>3 DEF NewsInOrder
  <2>4. ASSUME w \in ToSet(idle') PROVE NotIn(outbox[w], BusyMessage(w)) /\ NotIn(mailbox', BusyMessage(w))
    BY <1>2, <1>7, <2>4 DEF NotIn
  <2> QED
    BY <2>1, <2>2, <2>3, <2>4 DEF NewsInOrder, NotIn
<1>8. \A w \in Workers : (w \in ToSet(idle') => w \in ToSet(idle)) => NewsInOrder(w)'
  BY <1>7 DEF IInv, NewsInOrder
<1> QED
  BY <1>2, <1>3, <1>4, <1>5, <1>6, <1>7, <1>8 DEF m

LEMMA ExecuteWorkerBusyStep == ASSUME IInv, ExecuteWorkerBusy PROVE IInv'
<1> DEFINE m == Head(mailbox)
           w == m.worker
<1>1. /\ life # "closed" /\ mailbox # <<>> /\ m.type = "busy" /\ mailbox' = Tail(mailbox)
      /\ Move(w, idle, busy, idle', busy')
      /\ UNCHANGED <<next_id, inbox, outbox, running, parked, phase, pending, awaited, spawned, done,
                     failed, life, drained>>
  BY DEF ExecuteWorkerBusy, Execute, worker, start, jobs, closing
<1>2. /\ Types /\ Unborn /\ idle \in Seq(Workers)
      /\ \A v \in Workers : NewsInOrder(v)
  BY DEF IInv, Types
<1>3. /\ mailbox' \in Seq(Mail) /\ m \in Mail /\ mailbox[1] = m /\ 1 \in 1..Len(mailbox)
      /\ \A i \in 1..Len(mailbox') : i + 1 \in 1..Len(mailbox) /\ mailbox'[i] = mailbox[i + 1]
  BY <1>1, TakeMail
<1>4. w \in Workers /\ m = BusyMessage(w)
  BY <1>1, <1>3 DEF Mail, Given, BusyMessage, IdleMessage, CloseMessage, Message
<1>5. w \notin ToSet(idle)
  BY <1>2, <1>3, <1>4 DEF NewsInOrder, NotIn
<1>6. idle' = idle /\ busy' = busy
  <2>1. \A i \in DOMAIN idle : idle[i] # w
    BY <1>5 DEF ToSet
  <2> QED
    BY <1>1, <2>1 DEF Move
<1>7. Types'
  BY <1>1, <1>2, <1>3, <1>6 DEF Types
<1>8. ASSUME NEW v \in Workers PROVE NewsInOrder(v)' /\ IdleNews(v)' = IdleNews(v)
  <2>1. NewsInOrder(v)' /\ IdleNews(v) = IdleNews(v)' + IF m = IdleMessage(v) THEN 1 ELSE 0
    BY <1>1, <1>6, TakeMail
  <2>2. IdleNews(v)' \in Nat /\ m # IdleMessage(v)
    BY <1>4, <1>7, LoadNextType, MessagesDiffer
  <2> QED
    BY <2>1, <2>2
<1>9. ASSUME NEW k \in Jobs
      PROVE  Travelling(k)' = Travelling(k) + IF k \in spawned' \ spawned THEN 1 ELSE 0
  <2>1. Travelling(k) = Travelling(k)' + IF m = Given(k) THEN 1 ELSE 0
    BY <1>1, TakeMail
  <2>2. Travelling(k)' \in Nat /\ m # Given(k) /\ k \notin spawned' \ spawned
    BY <1>1, <1>4, <1>7, PlacesNextType, MessagesDiffer
  <2> QED
    BY <2>1, <2>2
<1>10. Unborn'
  BY <1>1, <1>2, <1>3, <1>6 DEF Unborn, Lists
<1> QED
  BY <1>1, <1>6, <1>7, <1>8, <1>9, <1>10, OnlyMessages

LEMMA ExecuteWorkerIdleStep == ASSUME IInv, ExecuteWorkerIdle PROVE IInv'
<1> DEFINE m == Head(mailbox)
<1>0. /\ life # "closed" /\ mailbox # <<>> /\ m.type = "idle" /\ mailbox' = Tail(mailbox)
      /\ Move(m.worker, busy, idle, busy', idle')
      /\ UNCHANGED <<next_id, inbox, outbox, running, parked, phase, pending, awaited, spawned, done,
                     failed, life, drained>>
  BY DEF ExecuteWorkerIdle, Execute, worker, start, jobs, closing
<1>3. /\ mailbox' \in Seq(Mail) /\ m \in Mail /\ mailbox[1] = m /\ 1 \in 1..Len(mailbox)
      /\ \A i \in 1..Len(mailbox') : i + 1 \in 1..Len(mailbox) /\ mailbox'[i] = mailbox[i + 1]
  BY <1>0, TakeMail
<1>4. PICK w \in Workers : m = IdleMessage(w)
  BY <1>0, <1>3 DEF Mail, Given, BusyMessage, IdleMessage, CloseMessage, Message
<1>1. /\ life # "closed" /\ mailbox # <<>> /\ mailbox' = Tail(mailbox)
      /\ Move(w, busy, idle, busy', idle')
      /\ UNCHANGED <<next_id, inbox, outbox, running, parked, phase, pending, awaited, spawned, done,
                     failed, life, drained>>
  BY <1>0, <1>4 DEF IdleMessage, Message
<1>2. /\ Types /\ Unborn /\ idle \in Seq(Workers) /\ busy \in Seq(Workers)
      /\ \A v \in Workers : NewsInOrder(v) /\ LoadIsRight(v)
      /\ IsInjective(idle \o busy)
  BY DEF IInv, Types
<1> HIDE DEF m
<1>5. ASSUME NEW v \in Workers PROVE IdleNews(v) = IdleNews(v)' + IF v = w THEN 1 ELSE 0
  <2>1. IdleNews(v) = IdleNews(v)' + IF m = IdleMessage(v) THEN 1 ELSE 0
    BY <1>1, TakeMail DEF m
  <2>2. m = IdleMessage(v) <=> v = w
    BY <1>4, MessagesDiffer
  <2> QED
    BY <2>1, <2>2
<1>6. ASSUME NEW k \in Jobs PROVE Travelling(k) = Travelling(k)'
  <2>1. Travelling(k) = Travelling(k)' + IF m = Given(k) THEN 1 ELSE 0
    BY <1>1, TakeMail DEF m
  <2>2. Travelling(k)' \in Nat
    <3>1. Times(mailbox', Given(k)) \in Nat /\ TimesInAll(outbox, Given(k)) \in Nat
      BY <1>2, <1>3, TimesType, Places
    <3> QED
      BY <1>1, <3>1, PlacesNext
  <2>3. m # Given(k)
    BY <1>4, MessagesDiffer
  <2> QED
    BY ONLY <2>1, <2>2, <2>3
<1>7. Load(w) = 1 /\ Load(w)' = 0 /\ w \notin ToSet(idle)
  <2>1. /\ Blocking(w) \in Nat /\ Blocking(w)' = Blocking(w) /\ Load(w) = Blocking(w) + IdleNews(w)
        /\ Load(w)' = Blocking(w)' + IdleNews(w)' /\ Load(w) <= 1
    BY <1>1, <1>2, <1>4, Loads DEF Load, Blocking, LoadIsRight
  <2>2. IdleNews(w)' \in Nat
    <3>1. Times(mailbox', IdleMessage(w)) \in Nat /\ Times(outbox[w], IdleMessage(w)) \in Nat
      BY <1>2, <1>3, <1>4, TimesType, Loads
    <3> QED
      BY <1>1, <3>1 DEF IdleNews
  <2>3. IdleNews(w) = IdleNews(w)' + 1
    BY <1>4, <1>5
  <2>4. Load(w) = 1 /\ Load(w)' = 0
    BY ONLY <2>1, <2>2, <2>3
  <2> QED
    BY <1>2, <1>4, <2>4 DEF LoadIsRight
\* Worker w goes from one list to the other, or there is nothing to move.
<1>8. /\ idle' \in Seq(Workers) /\ busy' \in Seq(Workers) /\ IsInjective(idle' \o busy')
      /\ ToSet(idle') \subseteq ToSet(idle) \cup {w} /\ ToSet(busy') \subseteq ToSet(busy) \ {w}
  <2>1. CASE w \notin ToSet(busy) /\ busy' = busy /\ idle' = idle
    BY <1>2, <2>1
  <2>2. ASSUME NEW n \in DOMAIN busy, busy[n] = w, busy' = RemoveAt(busy, n), idle' = Append(idle, w)
        PROVE  /\ idle' \in Seq(Workers) /\ busy' \in Seq(Workers) /\ IsInjective(idle' \o busy')
               /\ ToSet(idle') \subseteq ToSet(idle) \cup {w} /\ ToSet(busy') \subseteq ToSet(busy) \ {w}
    <3>1. n \in 1..Len(busy) /\ Len(busy) \in Nat /\ Len(idle) \in Nat
      BY <1>2
    <3>2. /\ busy' \in Seq(Workers) /\ Len(busy') = Len(busy) - 1
          /\ \A i \in 1..(Len(busy) - 1) : busy'[i] = IF i < n THEN busy[i] ELSE busy[i + 1]
      BY <1>2, <2>2, <3>1, RemoveAtIs
    <3>3. /\ idle' \in Seq(Workers) /\ Len(idle') = Len(idle) + 1 /\ idle'[Len(idle) + 1] = w
          /\ \A i \in 1..Len(idle) : idle'[i] = idle[i]
      BY <1>2, <1>4, <2>2
    <3>4. /\ \A i, k \in 1..Len(idle) : idle[i] = idle[k] => i = k
          /\ \A i, k \in 1..Len(busy) : busy[i] = busy[k] => i = k
          /\ \A i \in 1..Len(idle), k \in 1..Len(busy) : idle[i] # busy[k]
      BY <1>2, Apart
    <3>5. \A k \in 1..Len(busy') : \E l \in 1..Len(busy) :
             l # n /\ busy'[k] = busy[l] /\ l = IF k < n THEN k ELSE k + 1
      BY <3>1, <3>2
    <3>6. \A k \in 1..Len(busy') : busy'[k] # w
      BY <2>2, <3>1, <3>4, <3>5
    <3>7. \A i \in 1..Len(idle) : idle[i] # w
      BY <2>2, <3>1, <3>4
    <3>8. \A i, k \in 1..Len(idle') : idle'[i] = idle'[k] => i = k
      BY <3>1, <3>3, <3>4, <3>7
    <3>9. ASSUME NEW i \in 1..Len(busy'), NEW k \in 1..Len(busy'), busy'[i] = busy'[k] PROVE i = k
      <4>1. PICK a \in 1..Len(busy) : busy'[i] = busy[a] /\ a = IF i < n THEN i ELSE i + 1
        BY <3>5
      <4>2. PICK b \in 1..Len(busy) : busy'[k] = busy[b] /\ b = IF k < n THEN k ELSE k + 1
        BY <3>5
      <4>3. a = b
        BY <3>4, <3>9, <4>1, <4>2
      <4>4. i \in Nat /\ k \in Nat /\ n \in Nat
        BY <3>1, <3>2
      <4> QED
        BY ONLY <4>1, <4>2, <4>3, <4>4
    <3>10. \A i \in 1..Len(idle'), k \in 1..Len(busy') : idle'[i] # busy'[k]
      <4>1. \A i \in 1..Len(idle') : idle'[i] # w => i \in 1..Len(idle) /\ idle'[i] = idle[i]
        BY <3>1, <3>3
      <4> SUFFICES ASSUME NEW i \in 1..Len(idle'), NEW k \in 1..Len(busy'), idle'[i] = busy'[k]
                   PROVE FALSE
        OBVIOUS
      <4>2. idle'[i] # w
        BY <3>6
      <4>3. i \in 1..Len(idle) /\ idle'[i] = idle[i]
        BY <4>1, <4>2
      <4>4. PICK l \in 1..Len(busy) : busy'[k] = busy[l]
        BY <3>5
      <4> QED
        BY <3>4, <4>3, <4>4
    <3>11. IsInjective(idle' \o busy')
      BY <3>2, <3>3, <3>8, <3>9, <3>10, Apart
    <3>12. ToSet(idle') \subseteq ToSet(idle) \cup {w}
      <4>1. \A i \in 1..Len(idle') : idle'[i] # w => i \in 1..Len(idle) /\ idle'[i] = idle[i]
        BY <3>1, <3>3
      <4> QED
        BY <1>2, <3>3, <4>1, ToSetIs
    <3>13. ToSet(busy') \subseteq ToSet(busy) \ {w}
      BY <1>2, <3>2, <3>5, <3>6, ToSetIs
    <3> QED
      BY <3>2, <3>3, <3>11, <3>12, <3>13
  <2> QED
    BY <1>1, <2>1, <2>2 DEF Move
<1>9. Types'
  BY <1>1, <1>2, <1>3, <1>8 DEF Types
<1>10. ASSUME NEW v \in Workers PROVE NewsInOrder(v)' /\ LoadIsRight(v)'
  <2>1. CASE v # w
    <3>1. v \in ToSet(idle') => v \in ToSet(idle)
      BY <1>8, <2>1
    <3>2. NewsInOrder(v)'
      BY <1>1, <3>1, TakeMail
    <3>3. IdleNews(v)' = IdleNews(v)
      <4>1. IdleNews(v) = IdleNews(v)' + 0 /\ IdleNews(v)' \in Nat
        BY <1>5, <1>9, <2>1, LoadNextType
      <4> QED
        BY <4>1
    <3>4. Load(v)' = Load(v)
      BY <1>1, <3>3 DEF Load, Blocking
    <3>5. v \in ToSet(busy') => v \in ToSet(busy)
      BY <1>8
    <3> QED
      BY <1>1, <1>2, <3>1, <3>2, <3>4, <3>5 DEF LoadIsRight
  <2>2. CASE v = w
    <3>1. LoadIsRight(w)'
      BY <1>7, <1>8 DEF LoadIsRight
    <3>2. NotIn(outbox[w], BusyMessage(w)) /\ NotIn(mailbox', BusyMessage(w))
      <4>1. \A k \in 1..Len(mailbox) : 1 < k => mailbox[k] # BusyMessage(w)
        BY <1>2, <1>3, <1>4 DEF NewsInOrder
      <4>2. ASSUME NEW k \in 1..Len(mailbox') PROVE mailbox'[k] # BusyMessage(w)
        <5>1. k + 1 \in 1..Len(mailbox) /\ mailbox'[k] = mailbox[k + 1] /\ 1 < k + 1
          BY <1>3
        <5> QED
          BY <4>1, <5>1
      <4> QED
        BY <1>2, <1>3, <1>4, <4>2 DEF NewsInOrder, NotIn
    <3>3. NewsInOrder(w)'
      BY <1>1, <1>2, <1>4, <3>2 DEF NewsInOrder, NotIn
    <3> QED
      BY <2>2, <3>1, <3>3
  <2> QED
    BY <2>1, <2>2
<1>11. ASSUME NEW k \in Jobs PROVE Copies(k)' = Copies(k)
  BY <1>1, <1>6 DEF Copies, Ended
<1>12. Created' /\ EachOnce' /\ Closed'
  <2>1. Created'
    BY <1>1, <1>2, <1>6, <1>9, CreatedStays DEF IInv, Types
  <2> QED
    BY <1>1, <1>11, <2>1 DEF IInv, EachOnce, Closed
<1>13. Unborn'
  <2>1. \A v \in Lists' : v < next_id
    <3>1. ~(w >= next_id)
      BY <1>2, <1>3, <1>4 DEF Unborn
    <3>2. w \in Nat /\ next_id \in Nat
      BY <1>2, <1>4, JobsAreFinite DEF Types
    <3>3. w < next_id
      BY <3>1, <3>2
    <3> QED
      BY <1>2, <1>8, <3>3 DEF Unborn, Lists
  <2> QED
    BY <1>1, <1>2, <1>3, <2>1 DEF Unborn
<1> QED
  BY <1>8, <1>9, <1>10, <1>12, <1>13 DEF IInv

LEMMA ExecuteCloseStep == ASSUME IInv, ExecuteClose PROVE IInv'
<1>1. /\ life # "closed" /\ mailbox' = <<>> /\ life' = "closed" /\ idle' = <<>> /\ busy' = <<>>
      /\ drained' = {m.job : m \in {n \in ToSet(mailbox) : n.type = "spawn"}}
      /\ UNCHANGED <<next_id, inbox, outbox, running, parked, phase, pending, awaited, spawned, done,
                     failed>>
  BY DEF ExecuteClose, worker, start, jobs
<1>2. Types /\ Unborn /\ mailbox \in Seq(Mail) /\ EachOnce /\ \A w \in Workers : NewsInOrder(w) /\ LoadIsRight(w)
  BY DEF IInv, Types
<1>3. drained' \subseteq spawned
  <2> SUFFICES ASSUME NEW n \in ToSet(mailbox), n.type = "spawn" PROVE n.job \in spawned
    BY <1>1
  <2>1. n \in Mail /\ \E i \in 1..Len(mailbox) : mailbox[i] = n
    BY <1>2, ToSetIs
  <2>2. PICK j \in Jobs : n = Given(j) /\ n.job = j
    BY <2>1 DEF Mail, Given, BusyMessage, IdleMessage, CloseMessage, Message
  <2>3. Times(mailbox, Given(j)) # 0
    BY <1>2, <2>1, <2>2, TimesNone
  <2>4. Times(mailbox, Given(j)) \in Nat /\ TimesInAll(outbox, Given(j)) \in Nat
        /\ Copies(j) = Travelling(j) + TimesInAll(pending, j) + TimesInAll(inbox, j)
             + Cardinality(ParkedAt(parked, j)) + Cardinality(RunningAt(running, j)) + Ended(j)
        /\ TimesInAll(inbox, j) \in Nat /\ TimesInAll(pending, j) \in Nat
        /\ Cardinality(ParkedAt(parked, j)) \in Nat /\ Cardinality(RunningAt(running, j)) \in Nat
        /\ Ended(j) \in Nat
    BY <1>2, Places
  <2>5. Travelling(j) = TimesInAll(outbox, Given(j)) + Times(mailbox, Given(j))
    BY DEF Travelling
  <2>6. Copies(j) # 0
    BY ONLY <2>3, <2>4, <2>5
  <2> QED
    BY <1>1, <1>2, <2>2, <2>6 DEF EachOnce
<1>4. ToSet(idle') = {} /\ ToSet(busy') = {} /\ Len(mailbox') = 0
  BY <1>1 DEF ToSet
<1>5. Types'
  <2>1. mailbox' \in Seq(Mail) /\ idle' \in Seq(Workers) /\ busy' \in Seq(Workers)
    BY <1>1
  <2> QED
    BY <1>1, <1>2, <1>3, <2>1 DEF Types
<1>6. ASSUME NEW w \in Workers PROVE NewsInOrder(w)' /\ LoadIsRight(w)'
  <2>1. Load(w)' <= 1
    <3>1. /\ Blocking(w)' = Blocking(w) /\ Load(w) = Blocking(w) + IdleNews(w)
          /\ Load(w)' = Blocking(w)' + IdleNews(w)'
      BY <1>1 DEF Load, Blocking
    <3>2. /\ IdleNews(w)' = Times(outbox[w], IdleMessage(w)) + 0
          /\ IdleNews(w) = Times(outbox[w], IdleMessage(w)) + Times(mailbox, IdleMessage(w))
      BY <1>1, TimesType DEF IdleNews
    <3>3. /\ Times(outbox[w], IdleMessage(w)) \in Nat /\ Times(mailbox, IdleMessage(w)) \in Nat
          /\ Blocking(w) \in Nat /\ Load(w) <= 1
      BY <1>2, Loads DEF LoadIsRight
    <3> QED
      BY ONLY <3>1, <3>2, <3>3
  <2>2. NewsInOrder(w)'
    BY <1>1, <1>2, <1>4 DEF NewsInOrder, NotIn
  <2> QED
    BY <1>4, <2>1, <2>2 DEF LoadIsRight
<1>7. Created'
  <2>1. ASSUME NEW j \in spawned, Travelling(j) = 0 PROVE Travelling(j)' = 0
    <3>1. /\ Travelling(j)' = TimesInAll(outbox, Given(j)) + 0
          /\ Travelling(j) = TimesInAll(outbox, Given(j)) + Times(mailbox, Given(j))
      BY <1>1, TimesType DEF Travelling
    <3>2. Times(mailbox, Given(j)) \in Nat /\ TimesInAll(outbox, Given(j)) \in Nat
      BY <1>2, Places DEF Types
    <3> QED
      BY ONLY <2>1, <3>1, <3>2
  <2> QED
    BY <1>1, <1>2, <1>5, <2>1, CreatedStays DEF IInv
<1>8. Unborn'
  BY <1>1, <1>2, <1>4 DEF Unborn, Lists
<1>9. EachOnce' /\ Closed' /\ IsInjective(idle' \o busy')
  BY <1>1 DEF EachOnce, Closed, IsInjective
<1> QED
  BY <1>5, <1>6, <1>7, <1>8, <1>9 DEF IInv

\* The worker that the next job is for, the other idle workers, and the number
\* of the next worker after that.
Chosen == IF idle = <<>> THEN next_id ELSE Head(idle)
Others == IF idle = <<>> THEN <<>> ELSE Tail(idle)
NextId == IF idle = <<>> THEN next_id + 1 ELSE next_id

\* The job at the head of the mailbox was given to the pool and is on its way.
LEMMA SpawnedHead ==
  ASSUME IInv, Execute("spawn"), UNCHANGED outbox, NEW j, j = Head(mailbox).job
  PROVE  /\ j \in spawned /\ j \in Jobs /\ Head(mailbox) = Given(j)
         /\ Travelling(j) = 1
         /\ \A k \in Jobs : Travelling(k) = Travelling(k)' + IF k = j THEN 1 ELSE 0
         /\ \A k \in Jobs : Travelling(k)' \in Nat /\ Travelling(k) \in Nat
         /\ TimesInAll(pending, j) = 0 /\ TimesInAll(inbox, j) = 0
         /\ ParkedAt(parked, j) = {} /\ RunningAt(running, j) = {} /\ Ended(j) = 0
<1>1. /\ life # "closed" /\ mailbox # <<>> /\ Head(mailbox).type = "spawn" /\ mailbox' = Tail(mailbox)
  BY DEF Execute
<1>2. /\ mailbox' \in Seq(Mail) /\ Head(mailbox) \in Mail /\ Types /\ EachOnce /\ spawned \subseteq Jobs
      /\ \A k \in Jobs : Travelling(k) = Travelling(k)' + IF Head(mailbox) = Given(k) THEN 1 ELSE 0
  BY <1>1, TakeMail DEF IInv, Types
<1>3. j \in Jobs /\ Head(mailbox) = Given(j)
  BY <1>1, <1>2 DEF Mail, Given, BusyMessage, IdleMessage, CloseMessage, Message
<1>4. ASSUME NEW k \in Jobs PROVE Travelling(k) = Travelling(k)' + IF k = j THEN 1 ELSE 0
  <2>1. Travelling(k) = Travelling(k)' + IF Head(mailbox) = Given(k) THEN 1 ELSE 0
    BY <1>2
  <2>2. Head(mailbox) = Given(k) <=> k = j
    BY <1>3, MessagesDiffer
  <2> QED
    BY <2>1, <2>2
<1>5. ASSUME NEW k \in Jobs PROVE Travelling(k)' \in Nat /\ Travelling(k) \in Nat
  <2>1. Times(mailbox', Given(k)) \in Nat /\ TimesInAll(outbox, Given(k)) \in Nat /\ Travelling(k) \in Nat
    BY <1>2, TimesType, Places
  <2>2. Travelling(k)' = TimesInAll(outbox, Given(k)) + Times(mailbox', Given(k))
    BY DEF Travelling
  <2> QED
    BY ONLY <2>1, <2>2
<1> DEFINE p == Cardinality(ParkedAt(parked, j))
           r == Cardinality(RunningAt(running, j))
<1>6. /\ Copies(j) = Travelling(j) + TimesInAll(pending, j) + TimesInAll(inbox, j) + p + r + Ended(j)
      /\ TimesInAll(inbox, j) \in Nat /\ TimesInAll(pending, j) \in Nat
      /\ p \in Nat /\ r \in Nat /\ Ended(j) \in Nat
  BY <1>2, <1>3, Places
<1>7. Travelling(j) = Travelling(j)' + 1 /\ Travelling(j)' \in Nat
  BY <1>3, <1>4, <1>5
<1>8. Copies(j) = IF j \in spawned THEN 1 ELSE 0
  BY <1>1, <1>2, <1>3 DEF EachOnce
<1>9. /\ Copies(j) = 1 /\ Travelling(j) = 1 /\ TimesInAll(pending, j) = 0 /\ TimesInAll(inbox, j) = 0
      /\ p = 0 /\ r = 0 /\ Ended(j) = 0
  <2> HIDE DEF p, r
  <2>1. Copies(j) <= 1
    BY <1>8
  <2>2. Travelling(j) \in Nat /\ Travelling(j) >= 1
    BY ONLY <1>7
  <2> DEFINE t == Travelling(j)
             a == TimesInAll(pending, j)
             b == TimesInAll(inbox, j)
             e == Ended(j)
             c == Copies(j)
  <2> HIDE DEF t, a, b, e, c
  <2>3. /\ c = t + a + b + p + r + e /\ c <= 1 /\ t \in Nat /\ t >= 1
        /\ a \in Nat /\ b \in Nat /\ p \in Nat /\ r \in Nat /\ e \in Nat
    BY <1>6, <2>1, <2>2 DEF t, a, b, e, c
  <2>4. c = 1 /\ t = 1 /\ a = 0 /\ b = 0 /\ p = 0 /\ r = 0 /\ e = 0
    BY ONLY <2>3
  <2> QED
    BY <2>4 DEF t, a, b, e, c
<1>10. ParkedAt(parked, j) = {} /\ RunningAt(running, j) = {}
  BY <1>9, HoldersFinite, FS_EmptySet DEF ParkedAt, RunningAt
<1> QED
  BY <1>3, <1>4, <1>5, <1>8, <1>9, <1>10

\* The chosen worker exists or can be created, has no blocking job, and has
\* said nothing that is yet to be heard; it is not among the busy workers.
LEMMA ChosenFacts ==
  ASSUME IInv, Execute("spawn"), UNCHANGED outbox, NEW w, w = Chosen
  PROVE  /\ w \in Workers /\ w < NextId /\ next_id <= NextId /\ NextId \in Nat
         /\ Load(w) = 0 /\ running[w] = NoJob
         /\ NotIn(outbox[w], BusyMessage(w)) /\ NotIn(mailbox, BusyMessage(w))
         /\ Others \in Seq(Workers) /\ ToSet(Others) \subseteq ToSet(idle) /\ w \notin ToSet(Others)
         /\ w \notin ToSet(busy) /\ IsInjective(Others \o busy)
<1>1. /\ Types /\ Unborn /\ Created /\ idle \in Seq(Workers) /\ busy \in Seq(Workers)
      /\ IsInjective(idle \o busy) /\ next_id \in Nat \ {0} /\ spawned \subseteq Jobs
      /\ \A v \in Workers : NewsInOrder(v) /\ LoadIsRight(v)
  BY DEF IInv, Types
<1> DEFINE j == Head(mailbox).job
<1>2. j \in spawned /\ j \in Jobs /\ Travelling(j) = 1
  BY SpawnedHead
<1>3. CASE idle = <<>>
  <2>1. w = next_id /\ Others = <<>> /\ NextId = next_id + 1
    BY <1>3 DEF Chosen, Others, NextId
  <2>2. w \in Workers
    <3>1. Arrived \subseteq Jobs \ {j}
      BY <1>1, <1>2 DEF Arrived
    <3>2. Cardinality(Jobs \ {j}) = Cardinality(Jobs) - 1 /\ IsFiniteSet(Jobs \ {j})
          /\ Cardinality(Jobs \ {j}) \in Nat
      BY <1>2, JobsAreFinite, FS_RemoveElement, FS_CardinalityType
    <3>3. Cardinality(Arrived) <= Cardinality(Jobs \ {j}) /\ Cardinality(Arrived) \in Nat
      BY <3>1, <3>2, FS_Subset, FS_CardinalityType
    <3>4. next_id - 1 <= Cardinality(Arrived) /\ Cardinality(Jobs) \in Nat
      BY <1>1, JobsAreFinite DEF Created
    <3>5. next_id <= Cardinality(Jobs)
      BY ONLY <1>1, <3>2, <3>3, <3>4
    <3> QED
      BY <1>1, <2>1, <3>4, <3>5 DEF Workers
  <2>3. /\ inbox[w] = <<>> /\ pending[w] = <<>> /\ outbox[w] = <<>> /\ parked[w] = {}
        /\ running[w] = NoJob
        /\ \A i \in 1..Len(mailbox) : mailbox[i] \notin {IdleMessage(w), BusyMessage(w)}
    BY <1>1, <2>1, <2>2 DEF Unborn
  <2>4. Load(w) = 0
    <3>1. Times(mailbox, IdleMessage(w)) = 0
      <4>1. mailbox \in Seq(Mail) /\ \A i \in 1..Len(mailbox) : mailbox[i] # IdleMessage(w)
        BY <1>1, <2>3 DEF Types
      <4> QED
        BY <4>1, TimesNone
    <3>2. parked[w] \cap Modules = {}
      BY <2>3
    <3> QED
      BY <2>3, <3>1, <3>2, CountEmpty, TimesType, FS_EmptySet DEF Load, Blocking, IdleNews
  <2>5. w \notin ToSet(busy)
    BY <1>1, <2>1 DEF Unborn, Lists
  <2>6. ToSet(Others) = {} /\ Others \in Seq(Workers) /\ Others = idle
    BY <1>3, <2>1 DEF ToSet
  <2>7. IsInjective(Others \o busy)
    BY <1>1, <2>6
  <2>8. NotIn(outbox[w], BusyMessage(w)) /\ NotIn(mailbox, BusyMessage(w))
    BY <2>3 DEF NotIn
  <2> QED
    BY <1>1, <2>1, <2>2, <2>3, <2>4, <2>5, <2>6, <2>7, <2>8
<1>4. CASE idle # <<>>
  <2>1. w = Head(idle) /\ Others = Tail(idle) /\ NextId = next_id /\ w = idle[1] /\ 1 \in 1..Len(idle)
    BY <1>1, <1>4 DEF Chosen, Others, NextId
  <2>2. w \in Workers /\ w \in ToSet(idle) /\ w < next_id
    BY <1>1, <2>1, ToSetIs DEF Unborn, Lists
  <2>3. Load(w) = 0 /\ NotIn(outbox[w], BusyMessage(w)) /\ NotIn(mailbox, BusyMessage(w))
    BY <1>1, <2>2 DEF LoadIsRight, NewsInOrder
  <2>4. running[w] = NoJob
    <3> DEFINE one == IF running[w] = NoJob THEN 0 ELSE 1
    <3>1. /\ Load(w) = Blocking(w) + IdleNews(w)
          /\ Blocking(w) = Count(pending[w], Blocks) + Count(inbox[w], Blocks)
                              + Cardinality(parked[w] \cap Modules) + one
      BY DEF Load, Blocking
    <3>2. /\ Count(pending[w], Blocks) \in Nat /\ Count(inbox[w], Blocks) \in Nat
          /\ Cardinality(parked[w] \cap Modules) \in Nat /\ IdleNews(w) \in Nat /\ one \in Nat
      BY <1>1, <2>2, Loads
    <3> HIDE DEF one
    <3>3. one = 0
      BY ONLY <2>3, <3>1, <3>2
    <3> QED
      BY <3>3 DEF one
  <2>5. /\ Others \in Seq(Workers) /\ Len(Others) = Len(idle) - 1 /\ Len(idle) \in Nat
        /\ \A i \in 1..Len(Others) : i + 1 \in 1..Len(idle) /\ Others[i] = idle[i + 1]
    BY <1>1, <1>4, <2>1
  <2>6. /\ \A i, k \in 1..Len(idle) : idle[i] = idle[k] => i = k
        /\ \A i, k \in 1..Len(busy) : busy[i] = busy[k] => i = k
        /\ \A i \in 1..Len(idle), k \in 1..Len(busy) : idle[i] # busy[k]
    BY <1>1, Apart
  <2>7. w \notin ToSet(busy)
    <3>1. w = idle[1] /\ 1 \in 1..Len(idle)
      BY <1>1, <2>1
    <3>2. \A k \in 1..Len(busy) : busy[k] # w
      BY ONLY <2>6, <3>1
    <3> QED
      BY <1>1, <3>2, ToSetIs
  <2>8. w \notin ToSet(Others) /\ ToSet(Others) \subseteq ToSet(idle)
    <3>1. \A i \in 1..Len(Others) : Others[i] # w
      BY <2>1, <2>5, <2>6
    <3>2. w \notin ToSet(Others)
      BY <2>5, <3>1, ToSetIs
    <3>3. ASSUME NEW x \in ToSet(Others) PROVE x \in ToSet(idle)
      <4>1. PICK i \in 1..Len(Others) : Others[i] = x
        BY <2>5, ToSetIs
      <4> QED
        BY <1>1, <2>5, <4>1, ToSetIs
    <3> QED
      BY <3>2, <3>3
  <2>9. IsInjective(Others \o busy)
    <3>1. \A i, k \in 1..Len(Others) : Others[i] = Others[k] => i = k
      BY <2>5, <2>6
    <3>2. \A i \in 1..Len(Others), k \in 1..Len(busy) : Others[i] # busy[k]
      BY <2>5, <2>6
    <3> QED
      BY <1>1, <2>5, <2>6, <3>1, <3>2, Apart
  <2> QED
    BY <1>1, <2>1, <2>2, <2>3, <2>4, <2>5, <2>7, <2>8, <2>9
<1> QED
  BY <1>3, <1>4

\* What the steps that take a job from the mailbox have in common: the chosen
\* worker changes, and maybe the list it is in.
LEMMA ChosenStep ==
  ASSUME IInv, Execute("spawn"), UNCHANGED <<outbox, running, spawned, life>>, Types',
         NEW w, w = Chosen, NEW j, j = Head(mailbox).job, next_id' = NextId, failed \subseteq failed',
         \A v \in Workers \ {w} :
            inbox'[v] = inbox[v] /\ pending'[v] = pending[v] /\ parked'[v] = parked[v],
         ToSet(idle') \subseteq ToSet(Others) \cup {w}, ToSet(busy') \subseteq ToSet(busy) \cup {w},
         IsInjective(idle' \o busy'), LoadIsRight(w)',
         \A k \in Jobs : Copies(k)' = Copies(k)
  PROVE  IInv'
<1>1. /\ life # "closed" /\ mailbox # <<>> /\ mailbox' = Tail(mailbox)
  BY DEF Execute
<1>2. /\ Types /\ Unborn /\ Created /\ EachOnce /\ spawned \subseteq Jobs
      /\ \A v \in Workers : NewsInOrder(v) /\ LoadIsRight(v)
  BY DEF IInv, Types
<1>3. /\ j \in spawned /\ j \in Jobs /\ Travelling(j) = 1 /\ Head(mailbox) = Given(j)
      /\ \A k \in Jobs : Travelling(k) = Travelling(k)' + IF k = j THEN 1 ELSE 0
      /\ \A k \in Jobs : Travelling(k)' \in Nat /\ Travelling(k) \in Nat
  BY SpawnedHead
<1>4. /\ w \in Workers /\ w < NextId /\ next_id <= NextId /\ NextId \in Nat
      /\ NotIn(outbox[w], BusyMessage(w)) /\ NotIn(mailbox, BusyMessage(w))
      /\ ToSet(Others) \subseteq ToSet(idle)
  BY ChosenFacts
<1>5. ASSUME NEW v \in Workers \ {w} PROVE NewsInOrder(v)' /\ LoadIsRight(v)'
  <2>1. v \in ToSet(idle') => v \in ToSet(idle)
    BY <1>4
  <2>2. NewsInOrder(v)' /\ IdleNews(v) = IdleNews(v)' + IF Head(mailbox) = IdleMessage(v) THEN 1 ELSE 0
    BY <1>1, <2>1, TakeMail
  <2>3. Head(mailbox) # IdleMessage(v) /\ IdleNews(v)' \in Nat
    BY <1>3, LoadNextType, MessagesDiffer
  <2>4. IdleNews(v)' = IdleNews(v)
    BY <2>2, <2>3
  <2>5. Load(v)' = Load(v)
    BY <2>4 DEF Load, Blocking
  <2>6. v \in ToSet(busy') => v \in ToSet(busy)
    OBVIOUS
  <2> QED
    BY <1>2, <2>1, <2>2, <2>5, <2>6 DEF LoadIsRight
<1>6. NewsInOrder(w)'
  BY <1>1, <1>4, TakeMail
<1>7. Created'
  <2>1. Travelling(j)' = 0
    <3>1. Travelling(j) = Travelling(j)' + 1 /\ Travelling(j)' \in Nat
      BY <1>3
    <3> QED
      BY <1>3, <3>1
  <2>2. \A k \in spawned : Travelling(k) = 0 => Travelling(k)' = 0
    <3> SUFFICES ASSUME NEW k \in spawned, Travelling(k) = 0 PROVE Travelling(k)' = 0
      OBVIOUS
    <3>1. Travelling(k) = Travelling(k)' + 0 /\ Travelling(k)' \in Nat
      BY <1>2, <1>3
    <3> QED
      BY <3>1
  <2>3. CASE idle # <<>>
    <3>1. next_id' = next_id
      BY <2>3 DEF NextId
    <3> QED
      BY <1>2, <2>2, <3>1, CreatedStays
  <2>4. CASE idle = <<>>
    <3>1. next_id' = next_id + 1
      BY <2>4 DEF NextId
    <3>2. Arrived \cup {j} \subseteq Arrived' /\ j \notin Arrived
      BY <1>3, <2>1, <2>2 DEF Arrived
    <3>3. IsFiniteSet(Arrived') /\ IsFiniteSet(Arrived)
      <4>1. Arrived' \in SUBSET Jobs /\ Arrived \in SUBSET Jobs
        BY <1>2 DEF Arrived
      <4> QED
        BY <4>1, JobsAreFinite, FS_Subset
    <3>4. /\ Cardinality(Arrived \cup {j}) = Cardinality(Arrived) + 1 /\ Cardinality(Arrived) \in Nat
          /\ Cardinality(Arrived') \in Nat
      BY <3>2, <3>3, FS_AddElement, FS_CardinalityType
    <3>5. Cardinality(Arrived \cup {j}) <= Cardinality(Arrived')
      BY <3>2, <3>3, FS_Subset
    <3>6. next_id - 1 <= Cardinality(Arrived) /\ next_id \in Nat
      BY <1>2 DEF Created, Types
    <3>7. next_id' - 1 <= Cardinality(Arrived')
      BY ONLY <3>1, <3>4, <3>5, <3>6
    <3> QED
      BY <3>7 DEF Created
  <2> QED
    BY <2>3, <2>4
<1>8. Unborn'
  <2>1. w \in Nat /\ next_id \in Nat /\ Workers \subseteq Nat
    BY <1>2, <1>4, JobsAreFinite DEF Types
  <2>2. \A v \in Workers : v >= NextId => v # w /\ v >= next_id
    BY <1>4, <2>1
  <2>3. \A i \in 1..Len(mailbox') : i + 1 \in 1..Len(mailbox) /\ mailbox'[i] = mailbox[i + 1]
    BY <1>1, TakeMail
  <2>4. \A v \in Lists' : v < next_id'
    <3>1. ASSUME NEW v \in Lists' PROVE v < NextId
      <4>1. v = w \/ (v \in Lists /\ v \in Workers)
        BY <1>2, <1>4, ToSetIs DEF Lists, Types
      <4>2. v \in Lists => v < next_id
        BY <1>2 DEF Unborn
      <4> QED
        BY <1>4, <2>1, <4>1, <4>2
    <3> QED
      BY <3>1
  <2>5. \A v \in Workers : v >= next_id' =>
           /\ inbox'[v] = <<>> /\ pending'[v] = <<>> /\ outbox'[v] = <<>>
           /\ parked'[v] = {} /\ running'[v] = NoJob
    BY <1>2, <2>2 DEF Unborn
  <2>6. \A v \in Workers : v >= next_id' =>
           \A i \in 1..Len(mailbox') : mailbox'[i] \notin {IdleMessage(v), BusyMessage(v)}
    BY <1>2, <2>2, <2>3 DEF Unborn
  <2> QED
    BY <2>4, <2>5, <2>6 DEF Unborn
<1>9. EachOnce' /\ Closed'
  BY <1>1, <1>2 DEF EachOnce, Closed
<1> QED
  BY <1>5, <1>6, <1>7, <1>8, <1>9 DEF IInv

LEMMA ExecuteSpawnStep == ASSUME IInv, ExecuteSpawn PROVE IInv'
<1>1. PICK w : w = Chosen
  OBVIOUS
<1>2. PICK j : j = Head(mailbox).job
  OBVIOUS
<1>3. /\ Execute("spawn") /\ mailbox' = Tail(mailbox) /\ next_id' = NextId /\ mailbox # <<>>
      /\ inbox' = [inbox EXCEPT ![w] = Append(inbox[w], j)]
      /\ IF j \in Blocks
         THEN idle' = Others /\ busy' = Append(busy, w)
         ELSE idle' = Append(Others, w) /\ busy' = busy
      /\ UNCHANGED <<outbox, running, parked, phase, pending, awaited, spawned, done, failed, life, drained>>
  <2>1. j \in Jobs
    BY <1>2, SpawnedHead DEF ExecuteSpawn
  <2> QED
    BY <1>1, <1>2, <2>1
       DEF ExecuteSpawn, PostMessage, Execute, Chosen, Others, NextId, Blocks, would_block, start, jobs,
           closing
<1>4. /\ w \in Workers /\ Load(w) = 0 /\ running[w] = NoJob
      /\ Others \in Seq(Workers) /\ w \notin ToSet(Others) /\ w \notin ToSet(busy)
      /\ IsInjective(Others \o busy) /\ NextId \in Nat /\ w < NextId
  BY <1>1, <1>3, ChosenFacts
<1>5. /\ j \in Jobs /\ Travelling(j) = 1
      /\ \A k \in Jobs : Travelling(k) = Travelling(k)' + IF k = j THEN 1 ELSE 0
      /\ \A k \in Jobs : Travelling(k)' \in Nat
  BY <1>2, <1>3, SpawnedHead
<1>6. /\ Types /\ inbox \in [Workers -> Seq(Jobs)] /\ busy \in Seq(Workers)
      /\ mailbox' \in Seq(Mail)
  BY <1>3, TakeMail DEF IInv, Types
<1>7. Appended(Jobs, inbox, w, j, inbox')
  BY <1>3, <1>4, <1>5, <1>6 DEF Appended
<1>8. /\ inbox' \in [Workers -> Seq(Jobs)] /\ inbox'[w] = Append(inbox[w], j)
      /\ \A v \in Workers \ {w} : inbox'[v] = inbox[v]
  BY <1>3, <1>4, <1>6, <1>7, CountAllAppend
<1>9. /\ idle' \in Seq(Workers) /\ busy' \in Seq(Workers) /\ IsInjective(idle' \o busy')
      /\ ToSet(idle') \subseteq ToSet(Others) \cup {w} /\ ToSet(busy') \subseteq ToSet(busy) \cup {w}
      /\ w \in ToSet(idle') => j \notin Blocks
      /\ w \in ToSet(busy') => j \in Blocks
  <2>1. /\ \A i, k \in 1..Len(Others) : Others[i] = Others[k] => i = k
        /\ \A i, k \in 1..Len(busy) : busy[i] = busy[k] => i = k
        /\ \A i \in 1..Len(Others), k \in 1..Len(busy) : Others[i] # busy[k]
        /\ \A i \in 1..Len(Others) : Others[i] # w
        /\ \A i \in 1..Len(busy) : busy[i] # w
    BY <1>4, <1>6, Apart, ToSetIs
  <2>2. ASSUME NEW q \in Seq(Workers), \A i \in 1..Len(q) : q[i] # w,
               \A i, k \in 1..Len(q) : q[i] = q[k] => i = k
        PROVE  /\ Append(q, w) \in Seq(Workers) /\ ToSet(Append(q, w)) = ToSet(q) \cup {w}
               /\ \A i \in 1..Len(Append(q, w)) :
                    Append(q, w)[i] # w => i \in 1..Len(q) /\ Append(q, w)[i] = q[i]
               /\ \A i, k \in 1..Len(Append(q, w)) : Append(q, w)[i] = Append(q, w)[k] => i = k
    <3> DEFINE r == Append(q, w)
    <3>1. /\ r \in Seq(Workers) /\ Len(r) = Len(q) + 1 /\ Len(q) \in Nat /\ r[Len(q) + 1] = w
          /\ \A i \in 1..Len(q) : r[i] = q[i]
      BY <1>4
    <3> HIDE DEF r
    <3>2. \A i \in 1..Len(r) : r[i] # w => i \in 1..Len(q) /\ r[i] = q[i]
      BY <3>1
    <3>3. \A i, k \in 1..Len(r) : r[i] = r[k] => i = k
      BY <2>2, <3>1
    <3>4. ToSet(r) = ToSet(q) \cup {w}
      <4>1. ASSUME NEW x \in ToSet(r) PROVE x \in ToSet(q) \cup {w}
        <5>1. PICK i \in 1..Len(r) : r[i] = x
          BY <3>1, ToSetIs
        <5> QED
          BY <3>2, <5>1, ToSetIs
      <4>2. ASSUME NEW x \in ToSet(q) \cup {w} PROVE x \in ToSet(r)
        <5>1. CASE x = w
          <6>1. Len(q) + 1 \in 1..Len(r)
            BY <3>1
          <6> QED
            BY <3>1, <5>1, <6>1, ToSetIs
        <5>2. CASE x \in ToSet(q)
          <6>1. PICK i \in 1..Len(q) : q[i] = x
            BY <5>2, ToSetIs
          <6>2. i \in 1..Len(r) /\ r[i] = x
            BY <3>1, <6>1
          <6> QED
            BY <3>1, <6>2, ToSetIs
        <5> QED
          BY <5>1, <5>2
      <4> QED
        BY <4>1, <4>2
    <3> QED
      BY <3>1, <3>2, <3>3, <3>4 DEF r
  <2>3. CASE j \in Blocks
    <3>1. idle' = Others /\ busy' = Append(busy, w)
      BY <1>3, <2>3
    <3>2. /\ busy' \in Seq(Workers) /\ ToSet(busy') = ToSet(busy) \cup {w}
          /\ \A i \in 1..Len(busy') : busy'[i] # w => i \in 1..Len(busy) /\ busy'[i] = busy[i]
          /\ \A i, k \in 1..Len(busy') : busy'[i] = busy'[k] => i = k
      BY <1>6, <2>1, <2>2, <3>1
    <3>3. \A i \in 1..Len(idle'), k \in 1..Len(busy') : idle'[i] # busy'[k]
      BY <2>1, <3>1, <3>2
    <3>4. idle' \in Seq(Workers) /\ \A i, k \in 1..Len(idle') : idle'[i] = idle'[k] => i = k
      BY <1>4, <2>1, <3>1
    <3>5. IsInjective(idle' \o busy')
      BY ONLY <3>2, <3>3, <3>4, Apart
    <3> QED
      BY <1>4, <2>3, <3>1, <3>2, <3>5
  <2>4. CASE j \notin Blocks
    <3>1. idle' = Append(Others, w) /\ busy' = busy
      BY <1>3, <2>4
    <3>2. /\ idle' \in Seq(Workers) /\ ToSet(idle') = ToSet(Others) \cup {w}
          /\ \A i \in 1..Len(idle') : idle'[i] # w => i \in 1..Len(Others) /\ idle'[i] = Others[i]
          /\ \A i, k \in 1..Len(idle') : idle'[i] = idle'[k] => i = k
      BY <1>4, <2>1, <2>2, <3>1
    <3>3. \A i \in 1..Len(idle'), k \in 1..Len(busy') : idle'[i] # busy'[k]
      BY <2>1, <3>1, <3>2
    <3>4. busy' \in Seq(Workers) /\ \A i, k \in 1..Len(busy') : busy'[i] = busy'[k] => i = k
      BY <1>6, <2>1, <3>1
    <3>5. IsInjective(idle' \o busy')
      BY ONLY <3>2, <3>3, <3>4, Apart
    <3> QED
      BY <1>4, <1>6, <2>4, <3>1, <3>2, <3>5
  <2> QED
    BY <2>3, <2>4
<1>10. Types'
  <2>1. next_id' \in Nat \ {0}
    BY <1>3, <1>4, JobsAreFinite
  <2> QED
    BY <1>3, <1>6, <1>8, <1>9, <2>1 DEF Types
<1>11. Load(w)' = IF j \in Blocks THEN 1 ELSE 0
  <2> DEFINE one == IF j \in Blocks THEN 1 ELSE 0
             ran == IF running[w] = NoJob THEN 0 ELSE 1
  <2>1. Count(inbox'[w], Blocks) = Count(inbox[w], Blocks) + one
    <3>1. inbox[w] \in Seq(Jobs)
      BY <1>4, <1>6
    <3> QED
      BY <1>5, <1>8, <3>1, CountAppend
  <2>2. IdleNews(w)' = IdleNews(w)
    <3>1. IdleNews(w) = IdleNews(w)' + IF Head(mailbox) = IdleMessage(w) THEN 1 ELSE 0
      BY <1>3, <1>4, TakeMail
    <3>2. Head(mailbox) # IdleMessage(w) /\ IdleNews(w)' \in Nat
      BY <1>2, <1>3, <1>4, <1>10, SpawnedHead, LoadNextType, MessagesDiffer
    <3> QED
      BY ONLY <3>1, <3>2
  <2>3. /\ Load(w) = Blocking(w) + IdleNews(w)
        /\ Blocking(w) = Count(pending[w], Blocks) + Count(inbox[w], Blocks)
                            + Cardinality(parked[w] \cap Modules) + ran
        /\ Load(w)' = Blocking(w)' + IdleNews(w)'
        /\ Blocking(w)' = Count(pending[w], Blocks) + Count(inbox'[w], Blocks)
                            + Cardinality(parked[w] \cap Modules) + ran
    BY <1>3 DEF Load, Blocking
  <2>4. /\ Count(pending[w], Blocks) \in Nat /\ Count(inbox[w], Blocks) \in Nat /\ IdleNews(w) \in Nat
        /\ Cardinality(parked[w] \cap Modules) \in Nat /\ ran \in Nat /\ one \in Nat
    BY <1>4, <1>6, Loads
  <2> HIDE DEF one, ran
  <2>5. Load(w)' = one
    BY ONLY <1>4, <2>1, <2>2, <2>3, <2>4
  <2> QED
    BY <2>5 DEF one
<1>12. LoadIsRight(w)'
  BY <1>9, <1>11 DEF LoadIsRight
<1>13. ASSUME NEW k \in Jobs PROVE Copies(k)' = Copies(k)
  <2> DEFINE one == IF k = j THEN 1 ELSE 0
  <2>1. /\ Travelling(k) = Travelling(k)' + one /\ one \in Nat /\ Travelling(k)' \in Nat
        /\ TimesInAll(inbox', k) = TimesInAll(inbox, k) + one
    <3>1. TimesInAll(inbox', k) = TimesInAll(inbox, k) + IF j = k THEN 1 ELSE 0
      BY <1>7, TimesInAllAppend
    <3> QED
      BY <1>5, <3>1
  <2>2. /\ TimesInAll(pending', k) = TimesInAll(pending, k) /\ Ended(k)' = Ended(k)
        /\ ParkedAt(parked', k) = ParkedAt(parked, k) /\ RunningAt(running', k) = RunningAt(running, k)
    BY <1>3 DEF Ended
  <2> HIDE DEF one
  <2>3. Copies(k)' = Travelling(k)' + TimesInAll(pending', k) + TimesInAll(inbox', k)
          + Cardinality(ParkedAt(parked', k)) + Cardinality(RunningAt(running', k)) + Ended(k)'
    BY PlacesNext
  <2>4. /\ Travelling(k) \in Nat /\ TimesInAll(inbox, k) \in Nat /\ TimesInAll(pending, k) \in Nat
        /\ Cardinality(ParkedAt(parked, k)) \in Nat /\ Cardinality(RunningAt(running, k)) \in Nat
        /\ Ended(k) \in Nat
        /\ Copies(k) = Travelling(k) + TimesInAll(pending, k) + TimesInAll(inbox, k)
             + Cardinality(ParkedAt(parked, k)) + Cardinality(RunningAt(running, k)) + Ended(k)
    BY <1>6, Places
  <2> QED
    BY ONLY <2>1, <2>2, <2>3, <2>4
<1> QED
  BY <1>1, <1>2, <1>3, <1>8, <1>9, <1>10, <1>12, <1>13, ChosenStep

\* Nothing is parked at a worker any more; nothing is in its queue.
Deserted(f, w, g) ==
    /\ f \in [Workers -> SUBSET Jobs] /\ w \in Workers /\ g = [f EXCEPT ![w] = {}]
Emptied(f, w, g) ==
    /\ f \in [Workers -> Seq(Jobs)] /\ w \in Workers /\ g = [f EXCEPT ![w] = <<>>]

LEMMA HoldersClear ==
  ASSUME NEW f, NEW w, NEW k, NEW g, Deserted(f, w, g)
  PROVE  Cardinality(ParkedAt(f, k)) = Cardinality(ParkedAt(g, k)) + IF k \in f[w] THEN 1 ELSE 0
<1> USE DEF Deserted
<1> DEFINE V == ParkedAt(f, k)
<1>1. IsFiniteSet(V) /\ Cardinality(V) \in Nat
  BY HoldersFinite DEF ParkedAt
<1>2. ParkedAt(g, k) = V \ {w} /\ (w \in V <=> k \in f[w])
  BY DEF ParkedAt
<1> DEFINE U == ParkedAt(g, k)
           one == IF k \in f[w] THEN 1 ELSE 0
<1>3. one = IF w \in V THEN 1 ELSE 0
  BY <1>2
<1> HIDE DEF U, V, one
<1>4. U = V \ {w}
  BY <1>2 DEF U
<1>5. Cardinality(U) = IF w \in V THEN Cardinality(V) - 1 ELSE Cardinality(V)
  BY <1>1, <1>4, FS_RemoveElement
<1>6. Cardinality(V) = Cardinality(U) + one
  BY ONLY <1>1, <1>3, <1>5
<1> QED
  BY <1>6 DEF U, V, one

LEMMA TimesPart ==
  ASSUME NEW f, NEW w, NEW g, NEW k, Emptied(f, w, g)
  PROVE  /\ g \in [Workers -> Seq(Jobs)]
         /\ TimesInAll(f, k) = TimesInAll(g, k) + Times(f[w], k)
         /\ TimesInAll(g, k) \in Nat /\ Times(f[w], k) \in Nat
         /\ (Times(f[w], k) = 0) <=> (k \notin ToSet(f[w]))
<1> USE DEF Emptied
<1>1. f[w] \in Seq(Jobs) /\ <<>> \in Seq(Jobs)
  OBVIOUS
<1>2. Changes(Jobs, f, w, <<>>, g)
  BY DEF Changes
<1>3. g \in [Workers -> Seq(Jobs)]
  BY <1>1
<1>4. TimesInAll(g, k) = TimesInAll(f, k) - Times(f[w], k) + Times(<<>>, k)
  BY <1>2, TimesChange
<1>5. Times(<<>>, k) = 0 /\ Times(f[w], k) \in Nat /\ TimesInAll(g, k) \in Nat /\ TimesInAll(f, k) \in Nat
  BY <1>1, <1>3, TimesType
<1>6. TimesInAll(f, k) = TimesInAll(g, k) + Times(f[w], k)
  BY ONLY <1>4, <1>5
<1>7. (Times(f[w], k) = 0) <=> (k \notin ToSet(f[w]))
  BY <1>1, TimesNone, ToSetIs
<1> QED
  BY <1>3, <1>5, <1>6, <1>7

LEMMA ToSetJoin ==
  ASSUME NEW T, NEW p \in Seq(T), NEW q \in Seq(T)
  PROVE  \A k : k \in ToSet(p \o q) <=> k \in ToSet(p) \/ k \in ToSet(q)
<1> DEFINE s == p \o q
<1>1. /\ s \in Seq(T) /\ Len(s) = Len(p) + Len(q) /\ Len(p) \in Nat /\ Len(q) \in Nat
      /\ \A i \in 1..Len(p) : s[i] = p[i]
      /\ \A i \in 1..Len(q) : s[Len(p) + i] = q[i]
  OBVIOUS
<1> HIDE DEF s
<1>2. ASSUME NEW k \in ToSet(s) PROVE k \in ToSet(p) \/ k \in ToSet(q)
  <2>1. PICK i \in 1..Len(s) : s[i] = k
    BY <1>1, ToSetIs
  <2>2. CASE i \in 1..Len(p)
    BY <1>1, <2>1, <2>2, ToSetIs
  <2>3. CASE i \notin 1..Len(p)
    <3>1. i - Len(p) \in 1..Len(q) /\ Len(p) + (i - Len(p)) = i
      BY <1>1, <2>3
    <3>2. q[i - Len(p)] = k
      BY <1>1, <2>1, <3>1
    <3> QED
      BY <3>1, <3>2, ToSetIs
  <2> QED
    BY <2>2, <2>3
<1>3. ASSUME NEW k \in ToSet(p) PROVE k \in ToSet(s)
  <2>1. PICK i \in 1..Len(p) : p[i] = k
    BY ToSetIs
  <2>2. i \in 1..Len(s) /\ s[i] = k
    BY <1>1, <2>1
  <2> QED
    BY <1>1, <2>2, ToSetIs
<1>4. ASSUME NEW k \in ToSet(q) PROVE k \in ToSet(s)
  <2>1. PICK i \in 1..Len(q) : q[i] = k
    BY ToSetIs
  <2>2. Len(p) + i \in 1..Len(s) /\ s[Len(p) + i] = k
    BY <1>1, <2>1
  <2> QED
    BY <1>1, <2>2, ToSetIs
<1>5. \A k : k \in ToSet(s) <=> k \in ToSet(p) \/ k \in ToSet(q)
  BY <1>2, <1>3, <1>4
<1> QED
  BY <1>5 DEF s

LEMMA ExecuteSpawnFailsStep == ASSUME IInv, ExecuteSpawnFails PROVE IInv'
<1>1. PICK w : w = Chosen
  OBVIOUS
<1>2. PICK j : j = Head(mailbox).job
  OBVIOUS
<1>3. /\ Execute("spawn") /\ mailbox' = Tail(mailbox) /\ next_id' = NextId /\ mailbox # <<>>
      /\ life # "closed" /\ idle' = Others /\ busy' = busy
      /\ failed' = failed \cup {j} \cup parked[w] \cup ToSet(inbox[w] \o pending[w])
      /\ inbox' = [inbox EXCEPT ![w] = <<>>] /\ pending' = [pending EXCEPT ![w] = <<>>]
      /\ awaited' = [awaited EXCEPT ![w] = NoJob] /\ parked' = [parked EXCEPT ![w] = {}]
      /\ UNCHANGED <<outbox, running, phase, spawned, done, life, drained>>
  BY <1>1, <1>2 DEF ExecuteSpawnFails, Execute, Chosen, Others, NextId, closing
<1>4. /\ w \in Workers /\ Load(w) = 0 /\ running[w] = NoJob
      /\ Others \in Seq(Workers) /\ w \notin ToSet(Others) /\ w \notin ToSet(busy)
      /\ IsInjective(Others \o busy) /\ NextId \in Nat /\ w < NextId
  BY <1>1, <1>3, ChosenFacts
<1>5. /\ j \in Jobs /\ j \in spawned
      /\ \A k \in Jobs : Travelling(k) = Travelling(k)' + IF k = j THEN 1 ELSE 0
      /\ \A k \in Jobs : Travelling(k)' \in Nat
  BY <1>2, <1>3, SpawnedHead
<1>6. /\ Types /\ EachOnce /\ mailbox' \in Seq(Mail) /\ busy \in Seq(Workers)
      /\ inbox \in [Workers -> Seq(Jobs)] /\ pending \in [Workers -> Seq(Jobs)]
      /\ parked \in [Workers -> SUBSET Jobs] /\ awaited \in [Workers -> Jobs \cup {NoJob}]
      /\ failed \subseteq spawned /\ spawned \subseteq Jobs
  BY <1>3, TakeMail DEF IInv, Types
<1>7. inbox[w] \in Seq(Jobs) /\ pending[w] \in Seq(Jobs)
  BY <1>4, <1>6
<1> DEFINE gone == {j} \cup parked[w] \cup ToSet(inbox[w] \o pending[w])
<1>8. \A k : k \in gone <=> k = j \/ k \in parked[w] \/ k \in ToSet(inbox[w]) \/ k \in ToSet(pending[w])
  BY <1>7, ToSetJoin
<1>9. failed' = failed \cup gone /\ gone \subseteq Jobs
  BY <1>3, <1>4, <1>5, <1>6, <1>7, <1>8, ToSetIs
<1> HIDE DEF gone
\* A job that is at worker w, or at the head of the mailbox, is there once, and
\* fails.
<1>10. ASSUME NEW k \in Jobs
       PROVE  Copies(k)' = Copies(k) /\ (k \in gone => k \in spawned)
  <2> DEFINE a == Times(inbox[w], k)
             b == Times(pending[w], k)
             c == IF k \in parked[w] THEN 1 ELSE 0
             d == IF k = j THEN 1 ELSE 0
  <2>1. /\ TimesInAll(inbox, k) = TimesInAll(inbox', k) + a
        /\ TimesInAll(inbox', k) \in Nat /\ a \in Nat /\ (a = 0 <=> k \notin ToSet(inbox[w]))
    <3>1. Emptied(inbox, w, inbox')
      BY <1>3, <1>4, <1>6 DEF Emptied
    <3> QED
      BY <3>1, TimesPart
  <2>2. /\ TimesInAll(pending, k) = TimesInAll(pending', k) + b
        /\ TimesInAll(pending', k) \in Nat /\ b \in Nat /\ (b = 0 <=> k \notin ToSet(pending[w]))
    <3>1. Emptied(pending, w, pending')
      BY <1>3, <1>4, <1>6 DEF Emptied
    <3> QED
      BY <3>1, TimesPart
  <2>3. Cardinality(ParkedAt(parked, k)) = Cardinality(ParkedAt(parked', k)) + c
    <3>1. Deserted(parked, w, parked')
      BY <1>3, <1>4, <1>6 DEF Deserted
    <3> QED
      BY <3>1, HoldersClear
  <2>4. Cardinality(ParkedAt(parked', k)) \in Nat
    BY HoldersFinite DEF ParkedAt
  <2>5. Travelling(k) = Travelling(k)' + d /\ Travelling(k)' \in Nat
    BY <1>5
  <2>6. /\ c \in Nat /\ d \in Nat /\ (c = 0 <=> k \notin parked[w]) /\ (d = 0 <=> k # j)
    OBVIOUS
  <2> HIDE DEF a, b, c, d
  <2>7. k \in gone <=> ~(a = 0 /\ b = 0 /\ c = 0 /\ d = 0)
    BY <1>8, <2>1, <2>2, <2>6
  <2> DEFINE n == a + b + c + d
  <2>8. n \in Nat /\ (n = 0 <=> (a = 0 /\ b = 0 /\ c = 0 /\ d = 0))
    BY <2>1, <2>2, <2>6
  <2>9. /\ Cardinality(RunningAt(running, k)) \in Nat /\ Ended(k) \in Nat
        /\ Copies(k) = Travelling(k) + TimesInAll(pending, k) + TimesInAll(inbox, k)
             + Cardinality(ParkedAt(parked, k)) + Cardinality(RunningAt(running, k)) + Ended(k)
    BY <1>6, Places
  <2>10. Copies(k) = IF k \in spawned THEN 1 ELSE 0
    BY <1>3, <1>6 DEF EachOnce
  <2>11. Copies(k)' = Travelling(k)' + TimesInAll(pending', k) + TimesInAll(inbox', k)
          + Cardinality(ParkedAt(parked', k)) + Cardinality(RunningAt(running', k)) + Ended(k)'
    BY PlacesNext
  <2>12. RunningAt(running', k) = RunningAt(running, k)
    BY <1>3
  <2>13. /\ Copies(k) = n + (Travelling(k)' + TimesInAll(pending', k) + TimesInAll(inbox', k)
              + Cardinality(ParkedAt(parked', k)) + Cardinality(RunningAt(running, k)) + Ended(k))
         /\ Travelling(k)' + TimesInAll(pending', k) + TimesInAll(inbox', k)
              + Cardinality(ParkedAt(parked', k)) + Cardinality(RunningAt(running, k)) \in Nat
    BY ONLY <2>1, <2>2, <2>3, <2>4, <2>5, <2>6, <2>9
  <2> HIDE DEF n
  <2>14. n # 0 => n = 1 /\ Ended(k) = 0 /\ k \in spawned
    <3> DEFINE rest == Travelling(k)' + TimesInAll(pending', k) + TimesInAll(inbox', k)
                 + Cardinality(ParkedAt(parked', k)) + Cardinality(RunningAt(running, k))
    <3>1. Copies(k) = n + (rest + Ended(k)) /\ rest \in Nat
      BY <2>13
    <3> HIDE DEF rest
    <3>2. Copies(k) <= 1 /\ (Copies(k) # 0 => k \in spawned)
      BY <2>10
    <3>3. n # 0 => n = 1 /\ Ended(k) = 0 /\ Copies(k) # 0
      BY ONLY <2>8, <2>9, <3>1, <3>2
    <3> QED
      BY <3>2, <3>3
  <2>15. Ended(k)' = Ended(k) + n
    <3>1. k \in failed' <=> k \in failed \/ n # 0
      BY <1>9, <2>7, <2>8
    <3>2. CASE n = 0
      <4>1. Ended(k)' = Ended(k)
        BY <1>3, <3>1, <3>2 DEF Ended
      <4> QED
        BY <2>9, <3>2, <4>1
    <3>3. CASE n # 0
      <4>1. k \notin done /\ k \notin failed
        BY <2>14, <3>3 DEF Ended
      <4>2. Ended(k)' = 1
        BY <1>3, <3>1, <3>3, <4>1 DEF Ended
      <4> QED
        BY <2>14, <3>3, <4>2
    <3> QED
      BY <3>2, <3>3
  <2>16. Copies(k)' = Copies(k)
    BY ONLY <2>8, <2>9, <2>11, <2>12, <2>13, <2>15
  <2> QED
    BY <2>7, <2>8, <2>14, <2>16
<1>11. failed \subseteq failed' /\ failed' \subseteq spawned
  BY <1>6, <1>9, <1>10
<1>12. /\ inbox' \in [Workers -> Seq(Jobs)] /\ pending' \in [Workers -> Seq(Jobs)]
       /\ parked' \in [Workers -> SUBSET Jobs] /\ awaited' \in [Workers -> Jobs \cup {NoJob}]
       /\ inbox'[w] = <<>> /\ pending'[w] = <<>> /\ parked'[w] = {}
       /\ \A v \in Workers \ {w} :
            inbox'[v] = inbox[v] /\ pending'[v] = pending[v] /\ parked'[v] = parked[v]
  <2>1. <<>> \in Seq(Jobs)
    OBVIOUS
  <2> QED
    BY <1>3, <1>4, <1>6, <2>1
<1>13. Types'
  <2>1. next_id' \in Nat \ {0}
    BY <1>3, <1>4, JobsAreFinite
  <2>2. \A v \in Workers : phase'[v] = "starting" => pending'[v] = <<>>
    BY <1>3, <1>6, <1>12 DEF Types
  <2> QED
    BY <1>3, <1>4, <1>6, <1>11, <1>12, <2>1, <2>2 DEF Types
<1>14. LoadIsRight(w)'
  <2>1. Blocking(w)' = 0
    <3>1. parked'[w] \cap Modules = {} /\ running'[w] = NoJob
      BY <1>3, <1>4, <1>12
    <3>2. /\ Count(pending'[w], Blocks) = 0 /\ Count(inbox'[w], Blocks) = 0
          /\ Cardinality(parked'[w] \cap Modules) = 0
      BY <1>12, <3>1, CountEmpty, FS_EmptySet
    <3>3. Blocking(w)' = Count(pending'[w], Blocks) + Count(inbox'[w], Blocks)
             + Cardinality(parked'[w] \cap Modules) + (IF running'[w] = NoJob THEN 0 ELSE 1)
      BY LoadNext
    <3> QED
      BY ONLY <3>1, <3>2, <3>3
  <2>2. IdleNews(w)' = 0
    <3>1. IdleNews(w) = IdleNews(w)' + IF Head(mailbox) = IdleMessage(w) THEN 1 ELSE 0
      BY <1>3, <1>4, TakeMail
    <3>2. Load(w) = Blocking(w) + IdleNews(w) /\ Blocking(w) \in Nat /\ IdleNews(w) \in Nat
      BY <1>4, <1>6, Loads DEF Load
    <3>3. IdleNews(w)' \in Nat
      BY <1>4, <1>13, LoadNextType
    <3> QED
      BY ONLY <1>4, <3>1, <3>2, <3>3
  <2>3. Load(w)' = 0
    <3>1. Load(w)' = Blocking(w)' + IdleNews(w)'
      BY LoadNext
    <3> QED
      BY ONLY <2>1, <2>2, <3>1
  <2> QED
    BY <1>3, <1>4, <2>3 DEF LoadIsRight
<1> QED
  BY <1>1, <1>2, <1>3, <1>4, <1>10, <1>11, <1>12, <1>13, <1>14, ChosenStep

-----------------------------------------------------------------------------
(* The specification.                                                      *)

LEMMA StutterStep == ASSUME IInv, UNCHANGED vars PROVE IInv'
<1> USE DEF vars, lists, worker, start, jobs, closing
<1>1. Types' /\ Closed' /\ IsInjective(idle \o busy)'
  BY DEF IInv, Types, Closed
<1>2. Created'
  BY DEF IInv, Created, Arrived, Travelling
<1>3. Unborn'
  BY DEF IInv, Unborn, Lists
<1>4. EachOnce'
  BY DEF IInv, EachOnce, Copies, Travelling, Ended
<1>5. ASSUME NEW w \in Workers PROVE NewsInOrder(w)' /\ LoadIsRight(w)'
  BY DEF IInv, NewsInOrder, NotIn, LoadIsRight, Load, Blocking, IdleNews
<1> QED
  BY <1>1, <1>2, <1>3, <1>4, <1>5 DEF IInv

LEMMA StepsKeepIInv == ASSUME IInv, [Next]_vars PROVE IInv'
<1>1. CASE \E j \in Jobs : Spawn(j)
  BY <1>1, SpawnStep
<1>2. CASE \E w \in Workers, j \in Jobs : SpawnFrom(w, j)
  BY <1>2, SpawnFromStep
<1>3. ASSUME NEW w \in Workers, Receive(w) \/ Break(w) \/ Trap(w) PROVE IInv'
  BY <1>3, ReceiveStep, BreakStep, TrapStep
<1>4. ASSUME NEW w \in Workers, Ready(w) \/ HandlePending(w) \/ HandleMessage(w) \/ Finish(w)
      PROVE IInv'
  BY <1>4, ReadyStep, HandlePendingStep, HandleMessageStep, FinishStep
<1>5. ASSUME NEW w \in Workers, NEW j \in Jobs, Trigger(w, j) \/ Resume(w, j) PROVE IInv'
  BY <1>5, TriggerStep, ResumeStep
<1>6. CASE Close \/ CloseSent
  BY <1>6, CloseStep, CloseSentStep
<1>7. CASE Loop \/ ExecuteSpawnFails
  BY <1>7, ExecuteSpawnStep, ExecuteWorkerBusyStep, ExecuteWorkerIdleStep, ExecuteCloseStep,
     ExecuteSpawnFailsStep DEF Loop
<1>8. CASE UNCHANGED vars
  BY <1>8, StutterStep
<1> QED
  BY <1>1, <1>2, <1>3, <1>4, <1>5, <1>6, <1>7, <1>8 DEF Next, Step

\* What the scheduler knows and what the workers do, at every moment: see the
\* parts of IInv.
THEOREM Invariance == Spec => []IInv
<1>1. IInv /\ [Next]_vars => IInv'
  BY StepsKeepIInv
<1> QED
  BY InitInv, <1>1, PTL DEF Spec

\* Every variable has its type; next_available_worker numbers no more workers
\* than there are jobs.
THEOREM TypeCorrect == Spec => []TypeOK
<1>1. IInv => TypeOK
  <2> SUFFICES ASSUME IInv PROVE TypeOK
    OBVIOUS
  <2>1. next_id \in 1..Cardinality(Jobs) + 1
    <3>1. Arrived \in SUBSET Jobs
      BY DEF IInv, Types, Arrived
    <3>2. /\ Cardinality(Arrived) \in Nat /\ Cardinality(Jobs) \in Nat
          /\ Cardinality(Arrived) <= Cardinality(Jobs)
      BY <3>1, JobsAreFinite, FS_Subset, FS_CardinalityType
    <3> QED
      BY <3>2 DEF IInv, Types, Created
  <2>2. Mail \subseteq Messages
    BY DEF Mail, Messages, Message, Given, CloseMessage, BusyMessage, IdleMessage
  <2>3. mailbox \in Seq(Messages)
    BY <2>2 DEF IInv, Types
  <2> QED
    BY <2>1, <2>3 DEF IInv, Types, TypeOK
<1> QED
  BY <1>1, Invariance, PTL

\* The sum of what a worker holds and of its news is a sum of numbers.
LEMMA LoadIsSum ==
  ASSUME IInv, NEW w \in Workers
  PROVE  Blocking(w) \in Nat /\ IdleNews(w) \in Nat /\ Load(w) = Blocking(w) + IdleNews(w)
BY Loads DEF IInv, Load

\* post_message gives no worker a second blocking job before the first has
\* ended, however late the scheduler hears of either: the regression test for
\* #355, for any number of jobs.
THEOREM NeverTwoBlockingJobs == Spec => []OneBlockingJob
<1>1. IInv => OneBlockingJob
  <2> SUFFICES ASSUME IInv, NEW w \in Workers PROVE Blocking(w) <= 1
    BY DEF OneBlockingJob
  <2>1. Load(w) <= 1
    BY DEF IInv, LoadIsRight
  <2> QED
    BY <2>1, LoadIsSum
<1> QED
  BY <1>1, Invariance, PTL

\* move_worker and next_available_worker keep the two lists right, by messages
\* that arrive late: no worker is in both, none in the idle list has blocking
\* work, and every one in the busy list has it or had one that trapped.
THEOREM ListsRight == Spec => []ListsAreRight
<1>1. IInv => ListsAreRight
  <2> SUFFICES ASSUME IInv PROVE ListsAreRight
    OBVIOUS
  <2>1. ToSet(idle) \subseteq Workers /\ ToSet(busy) \subseteq Workers
    BY DEF IInv, Types, ToSet
  <2>2. ASSUME NEW w \in ToSet(idle) PROVE Blocking(w) + IdleNews(w) = 0
    BY <2>1, LoadIsSum DEF IInv, LoadIsRight
  <2>3. ASSUME NEW w \in ToSet(busy)
        PROVE  \/ Blocking(w) + IdleNews(w) = 1
               \/ Blocking(w) + IdleNews(w) = 0 /\ failed # {}
    <3>1. Load(w) <= 1 /\ (Load(w) = 1 \/ failed # {})
      BY <2>1 DEF IInv, LoadIsRight
    <3>2. Load(w) \in Nat /\ Load(w) = Blocking(w) + IdleNews(w)
      BY <2>1, LoadIsSum
    <3> QED
      BY <3>1, <3>2
  <2> QED
    BY <2>2, <2>3 DEF IInv, ListsAreRight
<1> QED
  BY <1>1, Invariance, PTL

\* A job given to the pool is neither lost nor run twice until the pool is
\* closed, whichever posts fail, workers break and jobs trap.
THEOREM NoJobIsLost == Spec => []InOnePlace
<1>1. IInv => InOnePlace
  BY DEF IInv, Types, EachOnce, InOnePlace
<1> QED
  BY <1>1, Invariance, PTL

-----------------------------------------------------------------------------
(* Nothing is posted behind a blocking job that was not begun.             *)

AtEnd(q) == \A i \in DOMAIN q : would_block(q[i]) => i = Len(q)
NoBlock(q) == \A i \in DOMAIN q : ~would_block(q[i])

\* The two queues of a worker are one when the first or the second loses its head,
\* when a job is posted, and when the second is cut.
LEMMA OneQueue ==
  ASSUME NEW p \in Seq(Jobs), NEW q \in Seq(Jobs)
  PROVE  /\ p # <<>> => Tail(p) \o q = Tail(p \o q) /\ p \o q # <<>>
         /\ \A e \in Jobs : p \o Append(q, e) = Append(p \o q, e)
         /\ \A n \in 0..Len(q) : SubSeq(q, 1, n) \o SubSeq(q, n + 1, Len(q)) = q
         /\ p \o q \in Seq(Jobs) /\ <<>> \o q = q
<1>1. ASSUME p # <<>> PROVE Tail(p) \o q = Tail(p \o q) /\ p \o q # <<>>
  BY <1>1
<1>2. ASSUME NEW e \in Jobs PROVE p \o Append(q, e) = Append(p \o q, e)
  OBVIOUS
<1>3. ASSUME NEW n \in 0..Len(q) PROVE SubSeq(q, 1, n) \o SubSeq(q, n + 1, Len(q)) = q
  <2> DEFINE a == SubSeq(q, 1, n)
             b == SubSeq(q, n + 1, Len(q))
  <2>1. a \in Seq(Jobs) /\ Len(a) = n /\ \A i \in 1..n : a[i] = q[i]
    OBVIOUS
  <2>2. /\ b \in Seq(Jobs) /\ Len(b) = Len(q) - n
        /\ \A i \in 1..(Len(q) - n) : b[i] = q[n + i]
    OBVIOUS
  <2> HIDE DEF a, b
  <2>3. a \o b \in Seq(Jobs) /\ Len(a \o b) = Len(q)
    BY <2>1, <2>2
  <2>4. ASSUME NEW i \in 1..Len(q) PROVE (a \o b)[i] = q[i]
    <3>1. CASE i <= n
      BY <2>1, <2>2, <3>1
    <3>2. CASE i > n
      <4>1. i - n \in 1..(Len(q) - n) /\ n + (i - n) = i
        BY <3>2
      <4>2. (a \o b)[i] = b[i - n]
        BY <2>1, <2>2, <3>2
      <4> QED
        BY <2>2, <4>1, <4>2
    <3>3. i <= n \/ i > n
      OBVIOUS
    <3> QED
      BY <3>1, <3>2, <3>3
  <2>5. a \o b = q
    <3> DEFINE r == a \o b
    <3>1. r \in Seq(Jobs) /\ Len(r) = Len(q) /\ \A i \in 1..Len(q) : r[i] = q[i]
      BY <2>3, <2>4
    <3> HIDE DEF r
    <3>2. r = q
      BY <3>1
    <3> QED
      BY <3>2 DEF r
  <2> QED
    BY <2>5 DEF a, b
<1>4. p \o q \in Seq(Jobs) /\ <<>> \o q = q
  OBVIOUS
<1> QED
  BY <1>1, <1>2, <1>3, <1>4

LEMMA AtEndTail ==
  ASSUME NEW q \in Seq(Jobs), q # <<>>, AtEnd(q)
  PROVE  AtEnd(Tail(q))
<1>1. Tail(q) \in Seq(Jobs) /\ Len(Tail(q)) = Len(q) - 1
  OBVIOUS
<1>2. ASSUME NEW i \in DOMAIN Tail(q), would_block(Tail(q)[i]) PROVE i = Len(Tail(q))
  <2>1. i + 1 \in DOMAIN q /\ q[i + 1] = Tail(q)[i]
    BY <1>1
  <2>2. i + 1 = Len(q)
    BY <1>2, <2>1 DEF AtEnd
  <2> QED
    BY <1>1, <2>2
<1> QED
  BY <1>2 DEF AtEnd

LEMMA AtEndPost ==
  ASSUME NEW q \in Seq(Jobs), NEW e \in Jobs, NoBlock(q)
  PROVE  AtEnd(Append(q, e))
<1>1. Append(q, e) \in Seq(Jobs) /\ Len(Append(q, e)) = Len(q) + 1
  OBVIOUS
<1>2. ASSUME NEW i \in DOMAIN Append(q, e), would_block(Append(q, e)[i]) PROVE i = Len(Append(q, e))
  <2>1. i \in 1..Len(q) => i \in DOMAIN q /\ Append(q, e)[i] = q[i]
    OBVIOUS
  <2>2. i \notin 1..Len(q)
    BY <1>2, <2>1 DEF NoBlock
  <2> QED
    BY <1>1, <2>2
<1> QED
  BY <1>2 DEF AtEnd

\* The second queue may lose its head first: only what is last can block.
LEMMA AtEndOvertaken ==
  ASSUME NEW p \in Seq(Jobs), NEW q \in Seq(Jobs), q # <<>>, AtEnd(p \o q)
  PROVE  AtEnd(p \o Tail(q))
<1>1. /\ p \o Tail(q) \in Seq(Jobs) /\ Len(p \o Tail(q)) = Len(p) + Len(q) - 1
      /\ Len(p \o q) = Len(p) + Len(q) /\ Len(p) \in Nat /\ Len(q) \in Nat \ {0}
  OBVIOUS
<1>2. ASSUME NEW i \in DOMAIN (p \o Tail(q)), would_block((p \o Tail(q))[i])
      PROVE  i = Len(p \o Tail(q))
  <2>1. i \in 1..(Len(p) + Len(q) - 1)
    BY <1>1
  <2>2. CASE i <= Len(p)
    <3>1. i \in DOMAIN (p \o q) /\ (p \o q)[i] = (p \o Tail(q))[i]
      BY <2>1, <2>2, <1>1
    <3>2. i = Len(p \o q)
      BY <1>2, <3>1 DEF AtEnd
    <3> QED
      BY <1>1, <2>1, <3>2
  <2>3. CASE i > Len(p)
    <3>1. i + 1 \in DOMAIN (p \o q) /\ (p \o q)[i + 1] = (p \o Tail(q))[i]
      BY <2>1, <2>3, <1>1
    <3>2. i + 1 = Len(p \o q)
      BY <1>2, <3>1 DEF AtEnd
    <3> QED
      BY <1>1, <2>1, <3>2
  <2> QED
    BY <1>1, <2>1, <2>2, <2>3
<1> QED
  BY <1>2 DEF AtEnd

\* A worker without blocking work has none in its queues.
LEMMA FreeQueues ==
  ASSUME IInv, NEW w \in Workers, Load(w) = 0
  PROVE  NoBlock(pending[w] \o inbox[w])
<1>1. /\ pending[w] \in Seq(Jobs) /\ inbox[w] \in Seq(Jobs)
      /\ Count(pending[w], Blocks) \in Nat /\ Count(inbox[w], Blocks) \in Nat
      /\ Cardinality(parked[w] \cap Modules) \in Nat /\ Blocking(w) \in Nat /\ IdleNews(w) \in Nat
  BY Loads DEF IInv, Types
<1>2. Blocking(w) = 0
  BY <1>1 DEF Load
<1>3. Count(pending[w], Blocks) = 0 /\ Count(inbox[w], Blocks) = 0
  <2> DEFINE a == Count(pending[w], Blocks)
             b == Count(inbox[w], Blocks)
             c == Cardinality(parked[w] \cap Modules)
             d == IF running[w] = NoJob THEN 0 ELSE 1
  <2>1. a \in Nat /\ b \in Nat /\ c \in Nat /\ d \in Nat /\ a + b + c + d = 0
    BY <1>1, <1>2 DEF Blocking
  <2> HIDE DEF a, b, c, d
  <2>2. a = 0 /\ b = 0
    BY ONLY <2>1
  <2> QED
    BY <2>2 DEF a, b
<1>4. /\ \A i \in DOMAIN pending[w] : pending[w][i] \notin Blocks
      /\ \A i \in DOMAIN inbox[w] : inbox[w][i] \notin Blocks
  BY <1>1, <1>3, CountNone
<1>5. /\ \A i \in DOMAIN pending[w] : ~would_block(pending[w][i])
      /\ \A i \in DOMAIN inbox[w] : ~would_block(inbox[w][i])
  BY <1>1, <1>4 DEF Blocks
<1> DEFINE p == pending[w]
           q == inbox[w]
<1>6. ASSUME NEW i \in DOMAIN (p \o q) PROVE ~would_block((p \o q)[i])
  <2>1. p \in Seq(Jobs) /\ q \in Seq(Jobs)
    BY <1>1
  <2>2. /\ \A k \in 1..Len(p) : ~would_block(p[k])
        /\ \A k \in 1..Len(q) : ~would_block(q[k])
    BY <1>5, <2>1
  <2> HIDE DEF p, q
  <2>3. i \in 1..(Len(p) + Len(q))
    BY <2>1
  <2>4. CASE i <= Len(p)
    <3>1. i \in 1..Len(p) /\ (p \o q)[i] = p[i]
      BY <2>1, <2>3, <2>4
    <3> QED
      BY <2>2, <3>1
  <2>5. CASE i > Len(p)
    <3>1. i - Len(p) \in 1..Len(q) /\ (p \o q)[i] = q[i - Len(p)]
      BY <2>1, <2>3, <2>5
    <3> QED
      BY <2>2, <3>1
  <2>6. i <= Len(p) \/ i > Len(p)
    BY <2>1, <2>3
  <2> QED
    BY <2>4, <2>5, <2>6
<1> QED
  BY <1>6 DEF NoBlock

LEMMA StepsKeepNoneBehind ==
  ASSUME IInv, NoneBehind, [Next]_vars
  PROVE  NoneBehind'
<1>1. \A v \in Workers : pending[v] \in Seq(Jobs) /\ inbox[v] \in Seq(Jobs)
  BY DEF IInv, Types
<1>2. \A v \in Workers : AtEnd(pending[v] \o inbox[v])
  BY DEF NoneBehind, AtEnd
<1>3. inbox \in [Workers -> Seq(Jobs)] /\ pending \in [Workers -> Seq(Jobs)]
  BY DEF IInv, Types
<1>4. ASSUME NEW w \in Workers, AtEnd(pending'[w] \o inbox'[w]),
             \A v \in Workers \ {w} : pending'[v] = pending[v] /\ inbox'[v] = inbox[v]
      PROVE  NoneBehind'
  BY <1>2, <1>4 DEF NoneBehind, AtEnd
<1>5. CASE UNCHANGED <<inbox, pending>>
  BY <1>5 DEF NoneBehind
<1>6. CASE ExecuteSpawn
  <2>1. PICK w : w = Chosen
    OBVIOUS
  <2>2. PICK j : j = Head(mailbox).job
    OBVIOUS
  <2>3. /\ Execute("spawn") /\ UNCHANGED <<outbox, pending>>
        /\ inbox' = [inbox EXCEPT ![w] = Append(inbox[w], j)]
    BY <1>6, <2>1, <2>2 DEF ExecuteSpawn, PostMessage, Chosen, start
  <2>4. w \in Workers /\ Load(w) = 0 /\ j \in Jobs
    BY <2>1, <2>2, <2>3, ChosenFacts, SpawnedHead
  <2>5. pending'[w] \o inbox'[w] = Append(pending[w] \o inbox[w], j) /\ pending[w] \o inbox[w] \in Seq(Jobs)
    BY <1>1, <1>3, <2>3, <2>4, OneQueue
  <2>6. AtEnd(pending'[w] \o inbox'[w])
    BY <2>4, <2>5, FreeQueues, AtEndPost
  <2> QED
    BY <1>3, <1>4, <2>3, <2>4, <2>6
<1>7. CASE ExecuteSpawnFails
  <2>1. PICK w : w = Chosen
    OBVIOUS
  <2>2. /\ Execute("spawn") /\ UNCHANGED outbox
        /\ inbox' = [inbox EXCEPT ![w] = <<>>] /\ pending' = [pending EXCEPT ![w] = <<>>]
    BY <1>7, <2>1 DEF ExecuteSpawnFails, Chosen
  <2>3. w \in Workers
    BY <2>1, <2>2, ChosenFacts
  <2>4. AtEnd(pending'[w] \o inbox'[w])
    <3>1. pending'[w] = <<>> /\ inbox'[w] = <<>>
      BY <1>3, <2>2, <2>3
    <3> QED
      BY <3>1 DEF AtEnd
  <2> QED
    BY <1>3, <1>4, <2>2, <2>3, <2>4
<1>8. ASSUME NEW w \in Workers, Ready(w) PROVE NoneBehind'
  <2>1. PICK n \in 0..Len(inbox[w]) :
          /\ pending' = [pending EXCEPT ![w] = SubSeq(inbox[w], 1, n)]
          /\ inbox' = [inbox EXCEPT ![w] = SubSeq(inbox[w], n + 1, Len(inbox[w]))]
    BY <1>8 DEF Ready
  <2>2. pending[w] = <<>>
    BY <1>8 DEF Ready, IInv, Types
  <2>3. pending'[w] \o inbox'[w] = inbox[w] /\ pending[w] \o inbox[w] = inbox[w]
    BY <1>1, <1>3, <1>8, <2>1, <2>2, OneQueue
  <2> QED
    BY <1>2, <1>3, <1>4, <1>8, <2>1, <2>3
<1>9. ASSUME NEW w \in Workers, HandlePending(w) PROVE NoneBehind'
  <2>1. pending[w] # <<>> /\ pending' = [pending EXCEPT ![w] = Tail(pending[w])] /\ inbox' = inbox
    BY <1>9 DEF HandlePending, LoopGoesOn
  <2>2. /\ pending'[w] \o inbox'[w] = Tail(pending[w] \o inbox[w])
        /\ pending[w] \o inbox[w] # <<>> /\ pending[w] \o inbox[w] \in Seq(Jobs)
    BY <1>1, <1>3, <1>9, <2>1, OneQueue
  <2> QED
    BY <1>2, <1>3, <1>4, <1>9, <2>1, <2>2, AtEndTail
<1>10. ASSUME NEW w \in Workers, HandleMessage(w) PROVE NoneBehind'
  <2>1. inbox[w] # <<>> /\ inbox' = [inbox EXCEPT ![w] = Tail(inbox[w])] /\ pending' = pending
    BY <1>10 DEF HandleMessage, start
  <2>2. pending'[w] \o inbox'[w] = pending[w] \o Tail(inbox[w])
    BY <1>3, <1>10, <2>1
  <2> QED
    BY <1>1, <1>2, <1>3, <1>4, <1>10, <2>1, <2>2, AtEndOvertaken
<1>11. ASSUME NEW w \in Workers, Finish(w) PROVE NoneBehind'
  BY <1>5, <1>11 DEF Finish, Return, Settled
<1>12. ASSUME NEW w \in Workers, NEW j \in Jobs, Trigger(w, j) \/ Resume(w, j) \/ SpawnFrom(w, j)
       PROVE  NoneBehind'
  BY <1>5, <1>12 DEF Trigger, Resume, SpawnFrom, Settled, start
<1>13. ASSUME NEW w \in Workers, Receive(w) \/ Break(w) \/ Trap(w) PROVE NoneBehind'
  BY <1>5, <1>13 DEF Receive, Break, Trap, start, worker
<1>14. ASSUME NEW j \in Jobs, Spawn(j) PROVE NoneBehind'
  BY <1>5, <1>14 DEF Spawn, worker, start
<1>15. CASE Close \/ CloseSent \/ ExecuteWorkerBusy \/ ExecuteWorkerIdle \/ ExecuteClose
  BY <1>5, <1>15 DEF Close, CloseSent, ExecuteWorkerBusy, ExecuteWorkerIdle, ExecuteClose, worker, start
<1>16. CASE UNCHANGED vars
  BY <1>5, <1>16 DEF vars, worker, start
<1> QED
  BY <1>6, <1>7, <1>8, <1>9, <1>10, <1>11, <1>12, <1>13, <1>14, <1>15, <1>16 DEF Next, Step, Loop

\* Whatever the loop over pendingMessages leaves behind when a blocking job fails,
\* it is not a job: post_message sends nothing to a worker that has one to do.
THEOREM NothingIsBehind == Spec => []NoneBehind
<1>1. Init => NoneBehind
  <2> SUFFICES ASSUME Init, NEW w \in Workers PROVE AtEnd(pending[w] \o inbox[w])
    BY DEF NoneBehind, AtEnd
  <2>1. pending[w] = <<>> /\ inbox[w] = <<>>
    BY DEF Init
  <2> QED
    BY <2>1 DEF AtEnd
<1>2. IInv /\ NoneBehind /\ [Next]_vars => NoneBehind'
  BY StepsKeepNoneBehind
<1> QED
  BY <1>1, <1>2, Invariance, PTL DEF Spec
=============================================================================

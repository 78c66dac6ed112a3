--------------------------- MODULE ForkPipesProofs ---------------------------
(***************************************************************************)
(* The transmit count of a pipe is the number of its ends, and the count   *)
(* closes a pipe only without one, for every number of pipes, descriptors  *)
(* and threads.                                                            *)
(***************************************************************************)
EXTENDS ForkPipes, FiniteSetTheorems, TLAPS

Quiet(r) == r.pc \notin {"sub", "shut"}
Known(r) == r.drop <= made /\ \A fd \in FdSet : r.buffers[fd] <= made

\* Numbers, and the sets that are counted.
LEMMA Bounds ==
  /\ Pipes \in Nat /\ Fds \in Nat /\ Messages \in Nat
  /\ \A p \in Numbers : p \in Nat /\ p # None /\ p \in 0..Pipes
  /\ 1 \in ThreadSet
BY ForkPipesAssumption DEF Numbers, None, ThreadSet

LEMMA Counted ==
  ASSUME NEW p
  PROVE  /\ IsFiniteSet(Ends(p)) /\ Cardinality(Ends(p)) \in Nat
         /\ IsFiniteSet(Leaving(p)) /\ Cardinality(Leaving(p)) \in Nat
<1>1. IsFiniteSet(Numbers) /\ IsFiniteSet(ThreadSet)
  BY FS_Interval, Bounds DEF Numbers, ThreadSet
<1>2. Ends(p) \in SUBSET Numbers /\ Leaving(p) \in SUBSET ThreadSet
  BY DEF Ends, Leaving
<1> QED
  BY <1>1, <1>2, FS_Subset, FS_CardinalityType

\* Records of threads.
LEMMA ThreadIsTyped ==
  ASSUME NEW pc \in {"none", "sent", "reconnect", "ready", "run", "unwind", "done"},
         NEW proc \in ThreadSet, made \in Nat
  PROVE  /\ Thread(pc, proc) \in ThreadType /\ Quiet(Thread(pc, proc))
         /\ Known(Thread(pc, proc)) /\ Thread(pc, proc).drop = None
<1>1. NoFds \in [FdSet -> 0..Pipes] /\ \A fd \in FdSet : NoFds[fd] <= made
  BY Bounds DEF NoFds, None
<1>2. None \in 0..Pipes /\ None <= made
  BY Bounds DEF None
<1> QED
  BY <1>1, <1>2 DEF Thread, ThreadType, Quiet, Known

LEMMA MessageIsTyped ==
  ASSUME NEW pc \in {"sent", "reconnect", "ready", "run", "unwind"},
         NEW proc \in ThreadSet, NEW b \in [FdSet -> 0..Pipes],
         made \in Nat, \A fd \in FdSet : b[fd] <= made
  PROVE  LET r == [Thread(pc, proc) EXCEPT !.buffers = b]
         IN  r \in ThreadType /\ Quiet(r) /\ Known(r)
<1>1. None \in 0..Pipes /\ None <= made
  BY Bounds DEF None
<1> QED
  BY <1>1 DEF Thread, ThreadType, Quiet, Known

LEMMA GoOnIsTyped ==
  ASSUME TypeOK, NEW t \in ThreadSet, NEW pc \in {"reconnect", "run", "unwind"},
         NEW b \in [FdSet -> 0..Pipes], \A fd \in FdSet : b[fd] <= made
  PROVE  GoOn(t, pc, b) \in ThreadType /\ Quiet(GoOn(t, pc, b)) /\ Known(GoOn(t, pc, b))
<1> DEFINE q == IF pc = "reconnect" /\ b = NoFds THEN "ready" ELSE pc
<1>1. q \in {"sent", "reconnect", "ready", "run", "unwind"}
  OBVIOUS
<1>2. thread[t].proc \in ThreadSet /\ made \in Nat
  BY Bounds DEF TypeOK, ThreadType
<1>3. GoOn(t, pc, b) = [Thread(q, thread[t].proc) EXCEPT !.buffers = b]
  BY DEF GoOn
<1> HIDE DEF q
<1> QED
  BY <1>1, <1>2, <1>3, MessageIsTyped

-----------------------------------------------------------------------------
\* A step that changes a thread before and after which it drops nothing, and
\* descriptors at most, keeps the invariant.
LEMMA QuietStep ==
  ASSUME IInv, NEW u \in ThreadSet, NEW r \in ThreadType,
         \A v \in ThreadSet, fd \in FdSet : table'[v][fd] <= made,
         thread' = [thread EXCEPT ![u] = r], Quiet(thread[u]), Quiet(r), Known(r),
         table' \in [ThreadSet -> [FdSet -> 0..Pipes]], sent' \in 0..Messages,
         UNCHANGED <<count, closed, made, object, crossed, shutdown>>
  PROVE  IInv'
<1>1. TypeOK'
  BY DEF IInv, TypeOK
<1>2. \A v \in ThreadSet : v # u => thread'[v] = thread[v]
  BY DEF IInv, TypeOK
<1>3. thread'[u] = r
  BY DEF IInv, TypeOK
<1>4. \A p \in Numbers : Ends(p)' = Ends(p) /\ Leaving(p)' = Leaving(p)
  BY <1>2, <1>3 DEF Ends, Leaving, Quiet
<1>5. CountIsEnds'
  BY <1>4 DEF IInv, CountIsEnds
<1>6. OnlyMade'
  BY <1>2, <1>3 DEF IInv, OnlyMade, Known
<1>7. \A p \in Numbers : Closing(p)' = Closing(p)
  BY <1>2, <1>3 DEF Closing, Quiet
<1>8. ClosedHaveNone'
  BY <1>4, <1>7 DEF IInv, ClosedHaveNone
<1> QED
  BY <1>1, <1>5, <1>6, <1>8 DEF IInv

\* Wherever a table of descriptors is, it is typed.
LEMMA MineIsTyped ==
  ASSUME TypeOK, NEW t \in ThreadSet
  PROVE  Mine(t) \in [FdSet -> 0..Pipes] /\ thread[t].proc \in ThreadSet
BY DEF TypeOK, ThreadType, Mine

\* The message that to_scheduler_message makes.
LEMMA SentStep ==
  ASSUME IInv, NEW t \in ThreadSet, NEW u \in ThreadSet, NEW proc \in ThreadSet,
         to_scheduler_message(t, u, proc), Quiet(thread[u]),
         table' \in [ThreadSet -> [FdSet -> 0..Pipes]],
         \A v \in ThreadSet, fd \in FdSet : table'[v][fd] <= made,
         UNCHANGED <<count, closed, made, object, crossed, shutdown>>
  PROVE  IInv'
<1>1. Extract(t) \in [FdSet -> 0..Pipes] /\ \A fd \in FdSet : Extract(t)[fd] <= made
  <2> SUFFICES ASSUME NEW fd \in FdSet
               PROVE  LET e == IF Mine(t)[fd] = None THEN None ELSE object[Mine(t)[fd]]
                      IN  e \in 0..Pipes /\ e <= made
    BY DEF Extract
  <2>1. Mine(t)[fd] \in 0..Pipes
    BY MineIsTyped DEF IInv
  <2>2. CASE Mine(t)[fd] = None
    BY <2>2, Bounds DEF None, IInv, TypeOK
  <2>3. CASE Mine(t)[fd] # None
    <3>1. Mine(t)[fd] \in Numbers
      BY <2>1, <2>3, Bounds DEF Numbers, None
    <3> QED
      BY <2>3, <3>1 DEF IInv, TypeOK, OnlyMade
  <2> QED
    BY <2>2, <2>3
<1> DEFINE r == [Thread("sent", proc) EXCEPT !.buffers = Extract(t)]
<1>2. made \in Nat
  BY Bounds DEF IInv, TypeOK
<1>3. r \in ThreadType /\ Quiet(r) /\ Known(r)
  BY <1>1, <1>2, MessageIsTyped
<1>4. thread' = [thread EXCEPT ![u] = r] /\ sent' \in 0..Messages
  BY Bounds DEF to_scheduler_message, IInv, TypeOK
<1> HIDE DEF r
<1> QED
  BY <1>3, <1>4, QuietStep

\* A thread that leaves.
LEMMA LeaveStep ==
  ASSUME IInv, NEW t \in ThreadSet, Leave(t), Quiet(thread[t])
  PROVE  IInv'
<1> DEFINE r == IF Alone(t) /\ Mine(t) # NoFds THEN Thread("unwind", thread[t].proc)
                                              ELSE Thread("done", t)
<1>1. thread[t].proc \in ThreadSet /\ made \in Nat
  BY Bounds, MineIsTyped DEF IInv, TypeOK
<1>2. r \in ThreadType /\ Quiet(r) /\ Known(r)
  BY <1>1, ThreadIsTyped
<1>3. thread' = [thread EXCEPT ![t] = r]
  BY DEF Leave, IInv, TypeOK
<1>4. /\ table' \in [ThreadSet -> [FdSet -> 0..Pipes]] /\ sent' \in 0..Messages
      /\ \A v \in ThreadSet, fd \in FdSet : table'[v][fd] <= made
      /\ UNCHANGED <<count, closed, made, object, crossed, shutdown>>
  BY DEF Leave, IInv, TypeOK, OnlyMade
<1> HIDE DEF r
<1> QED
  BY <1>2, <1>3, <1>4, QuietStep
-----------------------------------------------------------------------------
\* A new pipe has one end and nothing else knows it.
LEMMA CreatePipeStep ==
  ASSUME IInv, NEW t \in ThreadSet, CreatePipe(t)
  PROVE  IInv'
<1>0. made \in Nat /\ made + 1 \in Numbers
  BY Bounds DEF CreatePipe, IInv, TypeOK, Numbers
<1>1. PICK n \in Numbers : n = made + 1
  BY <1>0
<1>n. n \in 0..Pipes /\ n # None
  BY Bounds
<1>2. /\ made' = n /\ count' = [count EXCEPT ![n] = 1]
      /\ closed' = [closed EXCEPT ![n] = FALSE]
      /\ object' = [object EXCEPT ![n] = n]
      /\ UNCHANGED <<thread, sent, crossed, shutdown>>
  BY <1>1, <1>0, <1>n DEF CreatePipe
<1>3. PICK fd \in FdSet : table' = [table EXCEPT ![thread[t].proc][fd] = n]
  BY <1>1, <1>0, <1>n DEF CreatePipe, Lowest, FreeFds
<1>4. TypeOK'
  <2>1. table' \in [ThreadSet -> [FdSet -> 0..Pipes]]
    BY <1>1, <1>0, <1>n, <1>3, MineIsTyped DEF IInv, TypeOK
  <2> QED
    BY <1>1, <1>0, <1>n, <1>2, <2>1 DEF IInv, TypeOK
<1>5. object[n] = None /\ \A i \in Numbers : object[i] # n
  BY <1>1, <1>0, <1>n, Bounds DEF IInv, TypeOK, OnlyMade
<1>6. \A u \in ThreadSet : thread[u].drop # n
  BY <1>1, <1>0, <1>n DEF IInv, TypeOK, ThreadType, OnlyMade
<1>7. Ends(n) = {} /\ Leaving(n) = {} /\ Ends(n)' = {n} /\ Leaving(n)' = {}
  <2>1. Ends(n) = {} /\ Leaving(n) = {} /\ Leaving(n)' = {}
    BY <1>2, <1>5, <1>6 DEF Ends, Leaving
  <2>2. object' = [i \in Numbers |-> IF i = n THEN n ELSE object[i]]
    BY <1>1, <1>0, <1>n, <1>2 DEF IInv, TypeOK
  <2>3. Ends(n)' = {n}
    BY <1>1, <1>0, <1>n, <1>5, <2>2 DEF Ends
  <2> QED
    BY <2>1, <2>3
<1>8. ASSUME NEW p \in Numbers, p # n
      PROVE  Ends(p)' = Ends(p) /\ Leaving(p)' = Leaving(p) /\ Closing(p)' = Closing(p)
  <2>1. object' = [i \in Numbers |-> IF i = n THEN n ELSE object[i]]
    BY <1>1, <1>0, <1>n, <1>2 DEF IInv, TypeOK
  <2>2. Ends(p)' = Ends(p)
    BY <1>1, <1>0, <1>n, <1>5, <1>8, <2>1, Bounds DEF Ends
  <2>3. Leaving(p)' = Leaving(p)
    BY <1>2 DEF Leaving
  <2>4. closed'[p] = closed[p]
    BY <1>2, <1>8 DEF IInv, TypeOK
  <2>5. Closing(p)' = Closing(p)
    BY <1>2, <2>4 DEF Closing
  <2> QED
    BY <2>2, <2>3, <2>5
<1>9. ~Closing(n)'
  <2> QED
    BY <1>1, <1>0, <1>n, <1>2, <1>6 DEF Closing, IInv, TypeOK
<1>10. CountIsEnds'
  <2> SUFFICES ASSUME NEW p \in Numbers
               PROVE  count'[p] = Cardinality(Ends(p)') + Cardinality(Leaving(p)')
    BY DEF CountIsEnds, Ends, Leaving
  <2>1. CASE p = n
    <3>1. count'[n] = 1
      BY <1>2 DEF IInv, TypeOK
    <3>2. Cardinality(Ends(n)') = 1 /\ Cardinality(Leaving(n)') = 0
      BY <1>7, FS_EmptySet, FS_Singleton
    <3> QED
      BY <2>1, <3>1, <3>2
  <2>2. CASE p # n
    BY <1>2, <1>8, <2>2 DEF IInv, TypeOK, CountIsEnds
  <2> QED
    BY <2>1, <2>2
<1>11. OnlyMade'
  <2>1. \A u \in ThreadSet : thread'[u].drop <= made' /\ \A x \in FdSet : thread'[u].buffers[x] <= made'
    BY <1>1, <1>0, <1>n, <1>2 DEF IInv, TypeOK, ThreadType, OnlyMade
  <2>2. \A i \in Numbers : object'[i] <= made' /\ (i > made' => object'[i] = None)
    BY <1>1, <1>0, <1>n, <1>2, Bounds DEF IInv, TypeOK, OnlyMade
  <2>3. \A v \in ThreadSet, x \in FdSet : table'[v][x] <= made'
    BY <1>1, <1>0, <1>2, <1>3, MineIsTyped DEF IInv, TypeOK, OnlyMade
  <2> QED
    BY <2>1, <2>2, <2>3 DEF OnlyMade
<1>12. ClosedHaveNone'
  <2> QED
    BY <1>2, <1>8, <1>9 DEF IInv, ClosedHaveNone
<1> QED
  BY <1>4, <1>10, <1>11, <1>12 DEF IInv

\* An object that begins its Drop is counted as leaving instead of as an end.
LEMMA ReleaseStep ==
  ASSUME IInv, NEW t \in ThreadSet, NEW fd \in FdSet, NEW back \in {"run", "unwind"},
         Release(t, fd, back), Quiet(thread[t])
  PROVE  IInv'
<1> DEFINE i == Mine(t)[fd]
           rest == [table EXCEPT ![thread[t].proc][fd] = None]
<1>1. /\ i \in Numbers /\ table' = rest
      /\ UNCHANGED <<count, closed, made, sent, crossed, shutdown>>
  BY MineIsTyped, Bounds DEF Release, IInv, Numbers, None
<1>2. table' \in [ThreadSet -> [FdSet -> 0..Pipes]]
  BY <1>1, MineIsTyped, Bounds DEF IInv, TypeOK, None
<1>m. \A v \in ThreadSet, x \in FdSet : table'[v][x] <= made
  BY <1>1, MineIsTyped, Bounds DEF IInv, TypeOK, OnlyMade, None
<1>3. CASE Referred(i, rest)
  <2>1. UNCHANGED <<object, thread>>
    BY <1>3 DEF Release
  <2>2. thread' = [thread EXCEPT ![t] = thread[t]] /\ thread[t] \in ThreadType /\ Known(thread[t])
    BY <2>1 DEF IInv, TypeOK, OnlyMade, Known
  <2> QED
    BY <1>1, <1>2, <1>m, <2>1, <2>2, QuietStep DEF IInv, TypeOK
<1>4. CASE ~Referred(i, rest)
  <2> DEFINE q == object[i]
             r == [thread[t] EXCEPT !.pc = "sub", !.drop = q, !.inode = i, !.back = back]
  <2>1. object' = [object EXCEPT ![i] = None] /\ q \in 0..Pipes /\ q <= made
    BY <1>1, <1>4 DEF Release, IInv, TypeOK, OnlyMade
  <2>2. thread' = [thread EXCEPT ![t] = r]
    BY <1>4 DEF Release, StartDrop, IInv, TypeOK
  <2>3. /\ r \in ThreadType /\ r.pc = "sub" /\ r.drop = q /\ r.buffers = thread[t].buffers
    <3>1. thread[t] \in ThreadType /\ i \in 0..Pipes
      BY <1>1, Bounds DEF IInv, TypeOK
    <3> HIDE DEF i
    <3> QED
      BY <2>1, <3>1 DEF ThreadType
  <2> HIDE DEF i, q, r, rest
  <2>4. TypeOK'
    BY <1>1, <1>2, <2>1, <2>2, <2>3, Bounds DEF IInv, TypeOK, None
  <2>5. \A u \in ThreadSet : thread'[u] = IF u = t THEN r ELSE thread[u]
    BY <2>2 DEF IInv, TypeOK
  <2>6. \A j \in Numbers : object'[j] = IF j = i THEN None ELSE object[j]
    BY <2>1 DEF IInv, TypeOK
  <2>7. ASSUME NEW p \in Numbers
        PROVE  /\ p = q => Ends(p)' = Ends(p) \ {i} /\ i \in Ends(p)
               /\ p # q => Ends(p)' = Ends(p)
               /\ p = q => Leaving(p)' = Leaving(p) \cup {t} /\ t \notin Leaving(p)
               /\ p # q => Leaving(p)' = Leaving(p)
    <3>1. object[i] = q
      BY DEF q
    <3>2. (p = q => Ends(p)' = Ends(p) \ {i} /\ i \in Ends(p)) /\ (p # q => Ends(p)' = Ends(p))
      BY <1>1, <2>6, <3>1, Bounds DEF Ends
    <3>3. /\ p = q => Leaving(p)' = Leaving(p) \cup {t} /\ t \notin Leaving(p)
          /\ p # q => Leaving(p)' = Leaving(p)
      BY <2>3, <2>5 DEF Leaving, Quiet
    <3> QED
      BY <3>2, <3>3
  <2>8. CountIsEnds'
    <3> SUFFICES ASSUME NEW p \in Numbers
                 PROVE  count'[p] = Cardinality(Ends(p)') + Cardinality(Leaving(p)')
      BY DEF CountIsEnds, Ends, Leaving
    <3>1. count'[p] = Cardinality(Ends(p)) + Cardinality(Leaving(p))
      BY <1>1 DEF IInv, CountIsEnds
    <3>2. CASE p = q
      <4>1. Cardinality(Ends(p)') = Cardinality(Ends(p)) - 1
        BY <2>7, <3>2, Counted, FS_RemoveElement
      <4>2. Cardinality(Leaving(p)') = Cardinality(Leaving(p)) + 1
        BY <2>7, <3>2, Counted, FS_AddElement
      <4> QED
        BY <3>1, <4>1, <4>2, Counted
    <3>3. CASE p # q
      BY <2>7, <3>1, <3>3
    <3> QED
      BY <3>2, <3>3
  <2>9. OnlyMade'
    BY <1>1, <1>m, <2>1, <2>3, <2>5, <2>6, Bounds DEF IInv, OnlyMade, TypeOK, None
  <2>10. \A p \in Numbers : Closing(p)' = Closing(p)
    BY <1>1, <2>3, <2>5 DEF Closing, Quiet
  <2>11. \A p \in Numbers : Ends(p)' \subseteq Ends(p)
    BY <2>7
  <2>12. ClosedHaveNone'
    BY <1>1, <2>10, <2>11 DEF IInv, ClosedHaveNone
  <2> QED
    BY <2>4, <2>8, <2>9, <2>12 DEF IInv
<1> QED
  BY <1>3, <1>4

\* A thread in a Drop is counted; so the count is positive.
LEMMA LeavingCounts ==
  ASSUME IInv, NEW t \in ThreadSet, thread[t].pc = "sub", NEW q \in Numbers,
         q = thread[t].drop
  PROVE  /\ Cardinality(Leaving(q) \ {t}) = Cardinality(Leaving(q)) - 1
         /\ Cardinality(Leaving(q)) > 0 /\ count[q] > 0
         /\ count[q] = 1 => Ends(q) = {}
<1>1. t \in Leaving(q)
  BY DEF Leaving
<1>2. Cardinality(Leaving(q) \ {t}) = Cardinality(Leaving(q)) - 1 /\ IsFiniteSet(Leaving(q) \ {t})
  BY <1>1, Counted, FS_RemoveElement
<1>3. Cardinality(Leaving(q) \ {t}) \in Nat
  BY <1>2, FS_CardinalityType
<1>4. count[q] = Cardinality(Ends(q)) + Cardinality(Leaving(q))
  BY DEF IInv, CountIsEnds
<1>5. count[q] = 1 => Cardinality(Ends(q)) = 0
  BY <1>2, <1>3, <1>4, Counted
<1>6. count[q] = 1 => Ends(q) = {}
  BY <1>5, Counted, FS_EmptySet
<1> QED
  BY <1>2, <1>3, <1>4, <1>6, Counted

\* The object is counted down; at the last one, the pipe has no end.
LEMMA SubStep ==
  ASSUME IInv, NEW t \in ThreadSet, Sub(t)
  PROVE  IInv'
<1> DEFINE q == thread[t].drop
           last == IsLast(count[q])
           r == IF last THEN [thread[t] EXCEPT !.pc = "shut"]
                        ELSE GoOn(t, thread[t].back, thread[t].buffers)
<1>1. thread[t] \in ThreadType /\ thread[t].pc = "sub" /\ q \in 0..Pipes /\ q <= made
  BY DEF Sub, IInv, TypeOK, ThreadType, OnlyMade
<1>2. /\ count' = [count EXCEPT ![q] = @ - 1] /\ thread' = [thread EXCEPT ![t] = r]
      /\ UNCHANGED <<closed, made, object, table, sent, crossed, shutdown>>
  BY DEF Sub, EndDrop, IInv, TypeOK
<1>3. /\ r \in ThreadType /\ r.pc # "sub" /\ Known(r)
      /\ r.pc = "shut" => last /\ r.drop = q
  <2>1. CASE last
    BY <1>1, <2>1 DEF ThreadType, Known, IInv, OnlyMade
  <2>2. CASE ~last
    <3>1. /\ thread[t].back \in {"reconnect", "run", "unwind"}
          /\ thread[t].buffers \in [FdSet -> 0..Pipes]
          /\ \A fd \in FdSet : thread[t].buffers[fd] <= made
      BY <1>1 DEF ThreadType, IInv, OnlyMade
    <3> QED
      BY <2>2, <3>1, GoOnIsTyped DEF IInv, Quiet
  <2> QED
    BY <2>1, <2>2
<1>4. q \in Numbers => /\ Cardinality(Leaving(q) \ {t}) = Cardinality(Leaving(q)) - 1
                       /\ count[q] > 0 /\ (last => Ends(q) = {})
  BY <1>1, LeavingCounts DEF IsLast
<1> HIDE DEF q, r, last
<1>5. \A p \in Numbers : count'[p] = IF p = q THEN count[p] - 1 ELSE count[p]
  BY <1>2 DEF IInv, TypeOK
<1>6. \A u \in ThreadSet : thread'[u] = IF u = t THEN r ELSE thread[u]
  BY <1>2 DEF IInv, TypeOK
<1>7. TypeOK'
  <2>1. count' \in [Numbers -> Nat]
    <3>1. \A p \in Numbers : count'[p] \in Nat
      BY <1>4, <1>5 DEF IInv, TypeOK
    <3> QED
      BY <1>2, <3>1 DEF IInv, TypeOK
  <2> QED
    BY <1>2, <1>3, <2>1 DEF IInv, TypeOK
<1>8. thread[t].drop = q
  BY DEF q
<1>9. \A p \in Numbers : /\ Ends(p)' = Ends(p)
                         /\ Leaving(p)' = IF p = q THEN Leaving(p) \ {t} ELSE Leaving(p)
  BY <1>1, <1>2, <1>3, <1>6, <1>8 DEF Ends, Leaving
<1>10. CountIsEnds'
  <2> SUFFICES ASSUME NEW p \in Numbers
               PROVE  count'[p] = Cardinality(Ends(p)') + Cardinality(Leaving(p)')
    BY DEF CountIsEnds, Ends, Leaving
  <2>1. count[p] = Cardinality(Ends(p)) + Cardinality(Leaving(p))
    BY DEF IInv, CountIsEnds
  <2>2. CASE p = q
    <3>1. Ends(p)' = Ends(p) /\ Leaving(p)' = Leaving(p) \ {t}
      BY <1>9, <2>2
    <3>2. count'[p] = count[p] - 1 /\ Cardinality(Leaving(p) \ {t}) = Cardinality(Leaving(p)) - 1
      BY <1>4, <1>5, <2>2
    <3> QED
      BY <2>1, <3>1, <3>2, Counted
  <2>3. CASE p # q
    BY <1>5, <1>9, <2>1, <2>3
  <2> QED
    BY <2>2, <2>3
<1>11. OnlyMade'
  <2>1. r.drop <= made /\ \A fd \in FdSet : r.buffers[fd] <= made
    BY <1>3 DEF Known
  <2> QED
    BY <1>2, <1>6, <2>1 DEF IInv, OnlyMade
<1>12. \A p \in Numbers : Closing(p)' => Closing(p) \/ (p = q /\ last)
  BY <1>2, <1>3, <1>6 DEF Closing
<1>13. ClosedHaveNone'
  BY <1>2, <1>4, <1>9, <1>12 DEF IInv, ClosedHaveNone
<1> QED
  BY <1>7, <1>10, <1>11, <1>13 DEF IInv

\* A pipe that is closed was about to be.
LEMMA ShutStep ==
  ASSUME IInv, NEW t \in ThreadSet, Shut(t)
  PROVE  IInv'
<1> DEFINE q == thread[t].drop
           r == GoOn(t, thread[t].back, thread[t].buffers)
<1>1. thread[t] \in ThreadType /\ thread[t].pc = "shut"
  BY DEF Shut, IInv, TypeOK
<1>2. /\ closed' = [closed EXCEPT ![q] = TRUE] /\ thread' = [thread EXCEPT ![t] = r]
      /\ UNCHANGED <<count, made, object, table, sent, crossed, shutdown>>
  BY DEF Shut, EndDrop, IInv, TypeOK
<1>3. r \in ThreadType /\ Quiet(r) /\ Known(r)
  <2>1. /\ thread[t].back \in {"reconnect", "run", "unwind"}
        /\ thread[t].buffers \in [FdSet -> 0..Pipes]
        /\ \A fd \in FdSet : thread[t].buffers[fd] <= made
    BY <1>1 DEF ThreadType, IInv, OnlyMade
  <2> QED
    BY <2>1, GoOnIsTyped DEF IInv
<1>4. thread[t].drop = q
  OBVIOUS
<1> HIDE DEF q, r
<1>5. \A u \in ThreadSet : thread'[u] = IF u = t THEN r ELSE thread[u]
  BY <1>2 DEF IInv, TypeOK
<1>6. TypeOK'
  BY <1>2, <1>3 DEF IInv, TypeOK
<1>7. \A p \in Numbers : Ends(p)' = Ends(p) /\ Leaving(p)' = Leaving(p)
  BY <1>1, <1>2, <1>3, <1>5 DEF Ends, Leaving, Quiet
<1>8. CountIsEnds'
  BY <1>2, <1>7 DEF IInv, CountIsEnds
<1>9. OnlyMade'
  BY <1>2, <1>3, <1>5 DEF IInv, OnlyMade, Known
<1>10. \A p \in Numbers : Closing(p)' => Closing(p)
  <2> SUFFICES ASSUME NEW p \in Numbers, Closing(p)' PROVE Closing(p)
    OBVIOUS
  <2>1. CASE p = q
    BY <1>1, <1>4, <2>1 DEF Closing
  <2>2. CASE p # q
    <3>1. closed'[p] = closed[p] /\ shutdown' = shutdown
      BY <1>2, <2>2 DEF IInv, TypeOK
    <3> QED
      BY <1>3, <1>5, <3>1 DEF Closing, Quiet
  <2> QED
    BY <2>1, <2>2
<1>11. ClosedHaveNone'
  BY <1>2, <1>7, <1>10 DEF IInv, ClosedHaveNone
<1> QED
  BY <1>6, <1>8, <1>9, <1>11 DEF IInv

\* A pipe that is shut down is exempt from then on; its ends stay.
LEMMA ShutdownStep ==
  ASSUME IInv, NEW t \in ThreadSet, NEW fd \in FdSet, Shutdown(t, fd)
  PROVE  IInv'
<1>1. PICK q : /\ closed' = [closed EXCEPT ![q] = TRUE]
               /\ shutdown' = [shutdown EXCEPT ![q] = TRUE]
               /\ UNCHANGED <<count, made, object, table, thread, sent, crossed>>
  BY DEF Shutdown
<1>2. TypeOK' /\ OnlyMade'
  BY <1>1 DEF IInv, TypeOK, OnlyMade
<1>3. \A p \in Numbers : Ends(p)' = Ends(p) /\ Leaving(p)' = Leaving(p)
  BY <1>1 DEF Ends, Leaving
<1>4. CountIsEnds'
  BY <1>1, <1>3 DEF IInv, CountIsEnds
<1>5. \A p \in Numbers : Closing(p)' => Closing(p)
  BY <1>1 DEF Closing, IInv, TypeOK
<1>6. ClosedHaveNone'
  BY <1>1, <1>3, <1>5 DEF IInv, ClosedHaveNone
<1> QED
  BY <1>2, <1>4, <1>6 DEF IInv

\* A new object is counted before the one it replaces is counted down.
LEMMA ReconnectStep ==
  ASSUME IInv, NEW t \in ThreadSet, NEW fd \in FdSet, Reconnect(t, fd)
  PROVE  IInv'
<1> DEFINE i == Mine(t)[fd]
           n == thread[t].buffers[fd]
           rest == [thread[t].buffers EXCEPT ![fd] = None]
<1>1. /\ thread[t] \in ThreadType /\ thread[t].pc = "reconnect" /\ Quiet(thread[t])
      /\ n \in Numbers /\ n <= made /\ made \in Nat /\ i \in 0..Pipes
  <2>1. thread[t] \in ThreadType /\ thread[t].pc = "reconnect" /\ n # None
    BY DEF Reconnect, IInv, TypeOK
  <2>2. n \in 0..Pipes /\ n <= made
    BY <2>1 DEF IInv, OnlyMade, ThreadType
  <2>3. made \in Nat /\ i \in 0..Pipes
    <3>1. made \in Nat
      BY Bounds DEF IInv, TypeOK
    <3> QED
      BY <3>1, MineIsTyped DEF IInv
  <2>4. n \in Numbers /\ Quiet(thread[t])
    BY <2>1, <2>2, Bounds DEF Quiet, Numbers, None
  <2> QED
    BY <2>1, <2>2, <2>3, <2>4
<1>2. rest \in [FdSet -> 0..Pipes] /\ \A x \in FdSet : rest[x] <= made
  BY <1>1, Bounds DEF IInv, OnlyMade, ThreadType, None
<1>3. UNCHANGED <<closed, made, table, sent, shutdown>>
  BY DEF Reconnect
<1>4. CASE i = None
  <2>1. thread' = [thread EXCEPT ![t] = GoOn(t, "reconnect", rest)] /\ UNCHANGED <<count, object, crossed>>
    BY <1>4 DEF Reconnect
  <2>2. GoOn(t, "reconnect", rest) \in ThreadType /\ Quiet(GoOn(t, "reconnect", rest))
        /\ Known(GoOn(t, "reconnect", rest))
    BY <1>2, GoOnIsTyped DEF IInv
  <2> QED
    BY <1>1, <1>3, <2>1, <2>2, QuietStep DEF IInv, TypeOK, OnlyMade
<1>5. CASE i # None
  <2> DEFINE q == object[i]
             r == Replaced(t, i, rest)
  <2>1. /\ count' = [count EXCEPT ![n] = @ + 1] /\ object' = [object EXCEPT ![i] = n]
        /\ crossed' = (crossed \/ q # n) /\ thread' = [thread EXCEPT ![t] = r]
    BY <1>5 DEF Reconnect, from_pool_offset
  <2>2. i \in Numbers /\ i \in Nat /\ q \in 0..Pipes /\ q <= made
    BY <1>1, <1>5, Bounds DEF IInv, TypeOK, OnlyMade, Numbers, None
  <2>3. r \in ThreadType /\ r.pc = "sub" /\ r.drop = q /\ r.buffers = rest
    BY <1>1, <1>2, <2>2 DEF Replaced, ThreadType
  <2>4. object[i] = q /\ n # None /\ n \in 0..Pipes
    BY <1>1, Bounds
  <2> HIDE DEF i, n, rest, q, r
  <2>5. \A p \in Numbers : count'[p] = IF p = n THEN count[p] + 1 ELSE count[p]
    BY <2>1 DEF IInv, TypeOK
  <2>6. \A j \in Numbers : object'[j] = IF j = i THEN n ELSE object[j]
    BY <2>1 DEF IInv, TypeOK
  <2>7. \A u \in ThreadSet : thread'[u] = IF u = t THEN r ELSE thread[u]
    BY <2>1 DEF IInv, TypeOK
  <2>8. TypeOK'
    <3>1. count' \in [Numbers -> Nat]
      <4>1. \A p \in Numbers : count'[p] \in Nat
        BY <2>5 DEF IInv, TypeOK
      <4> QED
        BY <2>1, <4>1 DEF IInv, TypeOK
    <3>2. crossed' \in BOOLEAN
      BY <2>1 DEF IInv, TypeOK
    <3>3. object' \in [Numbers -> 0..Pipes] /\ thread' \in [ThreadSet -> ThreadType]
      BY <2>1, <2>3, <2>4 DEF IInv, TypeOK
    <3> QED
      BY <1>3, <3>1, <3>2, <3>3 DEF IInv, TypeOK
  <2>9. ASSUME NEW p \in Numbers
        PROVE  /\ p = n /\ p = q => Ends(p)' = Ends(p)
               /\ p = n /\ p # q => Ends(p)' = Ends(p) \cup {i} /\ i \notin Ends(p)
               /\ p # n /\ p = q => Ends(p)' = Ends(p) \ {i} /\ i \in Ends(p)
               /\ p # n /\ p # q => Ends(p)' = Ends(p)
               /\ p = q => Leaving(p)' = Leaving(p) \cup {t} /\ t \notin Leaving(p)
               /\ p # q => Leaving(p)' = Leaving(p)
    <3>1. /\ p = n /\ p = q => Ends(p)' = Ends(p)
          /\ p = n /\ p # q => Ends(p)' = Ends(p) \cup {i} /\ i \notin Ends(p)
      BY <2>2, <2>4, <2>6 DEF Ends
    <3>2. /\ p # n /\ p = q => Ends(p)' = Ends(p) \ {i} /\ i \in Ends(p)
          /\ p # n /\ p # q => Ends(p)' = Ends(p)
      BY <2>2, <2>4, <2>6 DEF Ends
    <3>3. /\ p = q => Leaving(p)' = Leaving(p) \cup {t} /\ t \notin Leaving(p)
          /\ p # q => Leaving(p)' = Leaving(p)
      BY <1>1, <2>3, <2>7 DEF Leaving, Quiet
    <3> QED
      BY <3>1, <3>2, <3>3
  <2>10. CountIsEnds'
    <3> SUFFICES ASSUME NEW p \in Numbers
                 PROVE  count'[p] = Cardinality(Ends(p)') + Cardinality(Leaving(p)')
      BY DEF CountIsEnds, Ends, Leaving
    <3>1. count[p] = Cardinality(Ends(p)) + Cardinality(Leaving(p))
      BY DEF IInv, CountIsEnds
    <3>2. p = q => Cardinality(Leaving(p)') = Cardinality(Leaving(p)) + 1
      BY <2>9, Counted, FS_AddElement
    <3>3. p = n /\ p # q => Cardinality(Ends(p)') = Cardinality(Ends(p)) + 1
      BY <2>9, Counted, FS_AddElement
    <3>4. p # n /\ p = q => Cardinality(Ends(p)') = Cardinality(Ends(p)) - 1
      BY <2>9, Counted, FS_RemoveElement
    <3>5. CASE p = n /\ p = q
      BY <2>5, <2>9, <3>1, <3>2, <3>5, Counted
    <3>6. CASE p = n /\ p # q
      BY <2>5, <2>9, <3>1, <3>3, <3>6, Counted
    <3>7. CASE p # n /\ p = q
      BY <2>5, <2>9, <3>1, <3>2, <3>4, <3>7, Counted
    <3>8. CASE p # n /\ p # q
      BY <2>5, <2>9, <3>1, <3>8
    <3> QED
      BY <3>5, <3>6, <3>7, <3>8
  <2>11. OnlyMade'
    <3>1. n <= made /\ \A x \in FdSet : rest[x] <= made
      BY <1>1, <1>2 DEF n, rest
    <3>2. \A u \in ThreadSet : thread'[u].drop <= made /\ \A x \in FdSet : thread'[u].buffers[x] <= made
      BY <2>2, <2>3, <2>7, <3>1 DEF IInv, OnlyMade
    <3>3. \A j \in Numbers : object'[j] <= made
      BY <2>6, <3>1 DEF IInv, OnlyMade
    <3>4. i <= made
      BY MineIsTyped DEF i, Mine, IInv, OnlyMade
    <3>5. \A j \in Numbers : j > made => object'[j] = None
      BY <1>1, <2>2, <2>6, <3>4, Bounds DEF IInv, OnlyMade
    <3> QED
      BY <1>3, <3>2, <3>3, <3>5 DEF IInv, OnlyMade
  <2>12. ClosedHaveNone'
    <3> SUFFICES ASSUME ~crossed', NEW p \in Numbers, Closing(p)'
                 PROVE  Ends(p)' = {}
      BY DEF ClosedHaveNone, Closing, Ends
    <3>1. ~crossed /\ q = n
      BY <2>1
    <3>2. Closing(p)
      BY <1>3, <2>3, <2>7 DEF Closing
    <3>3. Ends(p) = {}
      BY <3>1, <3>2 DEF IInv, ClosedHaveNone
    <3> QED
      BY <2>9, <3>1, <3>3
  <2> QED
    BY <2>8, <2>10, <2>11, <2>12 DEF IInv
<1> QED
  BY <1>4, <1>5

-----------------------------------------------------------------------------
LEMMA InitIInv == Init => IInv
<1> SUFFICES ASSUME Init PROVE IInv
  OBVIOUS
<1>1. made = 0 /\ made \in Nat /\ None \in 0..Pipes /\ None <= made
  BY Bounds DEF Init, None
<1>2. NoFds \in [FdSet -> 0..Pipes] /\ \A fd \in FdSet : NoFds[fd] = None
  BY <1>1 DEF NoFds
<1>3. \A t \in ThreadSet : /\ thread[t] \in ThreadType /\ Quiet(thread[t])
                          /\ Known(thread[t])
  BY <1>1, ThreadIsTyped DEF Init
<1>4. TypeOK
  <2>1. /\ count = [p \in Numbers |-> 0] /\ closed = [p \in Numbers |-> FALSE]
        /\ object = [i \in Numbers |-> None] /\ table = [t \in ThreadSet |-> NoFds]
        /\ sent = 0 /\ crossed = FALSE /\ shutdown = [p \in Numbers |-> FALSE]
    BY DEF Init
  <2>2. thread \in [ThreadSet -> ThreadType]
    <3>1. thread = [t \in ThreadSet |-> thread[t]]
      BY DEF Init
    <3> QED
      BY <1>3, <3>1
  <2>3. made \in 0..Pipes /\ sent \in 0..Messages
    BY <1>1, <2>1, Bounds
  <2> QED
    BY <1>1, <1>2, <2>1, <2>2, <2>3 DEF TypeOK
<1>5. OnlyMade
  BY <1>1, <1>2, <1>3 DEF Init, OnlyMade, Known
<1>6. \A p \in Numbers : Ends(p) = {} /\ Leaving(p) = {}
  BY <1>3, Bounds DEF Init, Ends, Leaving, Quiet
<1>7. CountIsEnds
  BY <1>6, FS_EmptySet DEF Init, CountIsEnds
<1>8. ClosedHaveNone
  BY <1>6 DEF ClosedHaveNone
<1> QED
  BY <1>4, <1>5, <1>7, <1>8 DEF IInv

LEMMA StepIInv ==
  ASSUME IInv, [Next]_vars
  PROVE  IInv'
<1>1. CASE UNCHANGED vars
  BY <1>1 DEF vars, IInv, TypeOK, CountIsEnds, Ends, Leaving, OnlyMade, ClosedHaveNone, Closing
<1>2. ASSUME NEW t \in ThreadSet, CreatePipe(t) PROVE IInv'
  BY <1>2, CreatePipeStep
<1>3. ASSUME NEW t \in ThreadSet, Dup(t) PROVE IInv'
  <2>1. PICK fd \in FdSet, new \in FdSet :
           table' = [table EXCEPT ![thread[t].proc][new] = Mine(t)[fd]]
    BY <1>3 DEF Dup, Lowest, FreeFds
  <2>2. Mine(t)[fd] \in 0..Pipes /\ Mine(t)[fd] <= made
    BY MineIsTyped DEF Mine, IInv, OnlyMade
  <2>3. table' \in [ThreadSet -> [FdSet -> 0..Pipes]]
    BY <2>1, <2>2 DEF IInv, TypeOK
  <2>4. \A v \in ThreadSet, x \in FdSet : table'[v][x] <= made
    BY <2>1, <2>2, MineIsTyped DEF IInv, TypeOK, OnlyMade
  <2>5. /\ thread[t] \in ThreadType /\ Quiet(thread[t]) /\ Known(thread[t])
        /\ thread' = [thread EXCEPT ![t] = thread[t]] /\ sent' \in 0..Messages
        /\ UNCHANGED <<count, closed, made, object, crossed, shutdown>>
    BY <1>3 DEF Dup, Acts, Quiet, Known, IInv, TypeOK, OnlyMade
  <2> QED
    BY <2>3, <2>4, <2>5, QuietStep
<1>4. ASSUME NEW t \in ThreadSet, Fork(t) PROVE IInv'
  <2>1. PICK u \in ThreadSet : /\ to_scheduler_message(t, u, u) /\ thread[u].pc = "none"
                               /\ table' = [table EXCEPT ![u] = Mine(t)]
    BY <1>4 DEF Fork, NewThreads, Lowest
  <2>2. table' \in [ThreadSet -> [FdSet -> 0..Pipes]]
    BY <2>1, MineIsTyped DEF IInv, TypeOK
  <2>3. \A v \in ThreadSet, x \in FdSet : table'[v][x] <= made
    BY <2>1, MineIsTyped DEF Mine, IInv, TypeOK, OnlyMade
  <2>4. Quiet(thread[u])
    BY <2>1 DEF Quiet
  <2> QED
    BY <1>4, <2>1, <2>2, <2>3, <2>4, SentStep DEF Fork
<1>5. ASSUME NEW t \in ThreadSet, SpawnThread(t) PROVE IInv'
  <2>1. PICK u \in ThreadSet : /\ to_scheduler_message(t, u, thread[t].proc)
                               /\ thread[u].pc = "none"
    BY <1>5 DEF SpawnThread, NewThreads, Lowest
  <2>2. UNCHANGED <<count, closed, made, object, table, crossed, shutdown>> /\ Quiet(thread[u])
    BY <1>5, <2>1 DEF SpawnThread, Quiet
  <2> QED
    BY <2>1, <2>2, SentStep, MineIsTyped DEF IInv, TypeOK, OnlyMade
<1>6. ASSUME NEW t \in ThreadSet, Suspend(t) PROVE IInv'
  <2>1. /\ to_scheduler_message(t, t, thread[t].proc) /\ Quiet(thread[t])
        /\ UNCHANGED <<count, closed, made, object, table, crossed, shutdown>>
    BY <1>6 DEF Suspend, to_scheduler_message, Acts, Quiet
  <2> QED
    BY <2>1, SentStep, MineIsTyped DEF IInv, TypeOK, OnlyMade
<1>7. ASSUME NEW t \in ThreadSet, Receive(t) PROVE IInv'
  <2>1. /\ thread[t].pc = "sent" /\ thread[t].buffers \in [FdSet -> 0..Pipes]
        /\ \A fd \in FdSet : thread[t].buffers[fd] <= made
    BY <1>7 DEF Receive, IInv, TypeOK, ThreadType, OnlyMade
  <2> DEFINE r == GoOn(t, "reconnect", thread[t].buffers)
  <2>2. r \in ThreadType /\ Quiet(r) /\ Known(r)
    BY <2>1, GoOnIsTyped DEF IInv
  <2>3. /\ thread' = [thread EXCEPT ![t] = r] /\ Quiet(thread[t])
        /\ UNCHANGED <<count, closed, made, object, table, sent, crossed, shutdown>>
    BY <1>7, <2>1 DEF Receive, Quiet, IInv, TypeOK
  <2> HIDE DEF r
  <2> QED
    BY <2>2, <2>3, QuietStep DEF IInv, TypeOK, OnlyMade
<1>8. ASSUME NEW t \in ThreadSet, Lose(t) \/ ExecuteFails(t) \/ Exit(t) \/ Unwound(t)
      PROVE  IInv'
  <2>1. Leave(t) /\ Quiet(thread[t])
    BY <1>8 DEF Lose, ExecuteFails, Exit, Unwound, Acts, Quiet
  <2> QED
    BY <2>1, LeaveStep
<1>9. ASSUME NEW t \in ThreadSet, Execute(t) PROVE IInv'
  <2> DEFINE r == [thread[t] EXCEPT !.pc = "run"]
  <2>1. /\ thread[t].pc = "ready" /\ thread' = [thread EXCEPT ![t] = r]
        /\ UNCHANGED <<count, closed, made, object, table, sent, crossed, shutdown>>
    BY <1>9 DEF Execute, IInv, TypeOK
  <2>2. r \in ThreadType /\ Quiet(r) /\ Known(r) /\ Quiet(thread[t])
    BY <2>1 DEF IInv, TypeOK, OnlyMade, ThreadType, Quiet, Known
  <2> HIDE DEF r
  <2> QED
    BY <2>1, <2>2, QuietStep DEF IInv, TypeOK, OnlyMade
<1>10. ASSUME NEW t \in ThreadSet, Unwind(t) PROVE IInv'
  <2>1. PICK fd \in FdSet : Release(t, fd, "unwind")
    BY <1>10 DEF Unwind, Lowest
  <2>2. Quiet(thread[t])
    BY <1>10 DEF Unwind, Quiet
  <2> QED
    BY <2>1, <2>2, ReleaseStep
<1>11. ASSUME NEW t \in ThreadSet, NEW fd \in FdSet, CloseFd(t, fd) PROVE IInv'
  BY <1>11, ReleaseStep DEF CloseFd, Acts, Quiet
<1>12. ASSUME NEW t \in ThreadSet, Sub(t) \/ Shut(t) PROVE IInv'
  BY <1>12, SubStep, ShutStep
<1>13. ASSUME NEW t \in ThreadSet, NEW fd \in FdSet, Reconnect(t, fd) PROVE IInv'
  BY <1>13, ReconnectStep
<1>14. ASSUME NEW t \in ThreadSet, NEW fd \in FdSet, Shutdown(t, fd) PROVE IInv'
  BY <1>14, ShutdownStep
<1> QED
  BY <1>1, <1>2, <1>3, <1>4, <1>5, <1>6, <1>7, <1>8, <1>9, <1>10, <1>11, <1>12, <1>13, <1>14 DEF Next

\* For every number of pipes, descriptors and threads the inductive invariant
\* of the transmit ends holds (Drop and from_pool_offset in src/pipes/mod.rs,
\* reconnect_pipe_buffers in src/pipes/extract.rs).
THEOREM Invariance == Spec => []IInv
<1>1. IInv /\ [Next]_vars => IInv'
  BY StepIInv
<1> QED
  BY InitIInv, <1>1, PTL DEF Spec

\* The count in the header of a pipe is the number of its transmit ends.
THEOREM CountIsRight == Spec => []CountIsEnds
<1>1. IInv => CountIsEnds
  BY DEF IInv
<1> QED
  BY Invariance, <1>1, PTL

\* The count closes no pipe while one of its transmit ends is open, as long as
\* every descriptor that was reconnected still had its pipe: a closed pipe with
\* an end left was shut down (poll_shutdown in src/pipes/mod.rs).
THEOREM NoPipeIsCutOff == Spec => []NotCutOff
<1>1. IInv => NotCutOff
  BY DEF IInv, ClosedHaveNone, NotCutOff, Closing
<1> QED
  BY Invariance, <1>1, PTL
=============================================================================

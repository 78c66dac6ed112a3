------------------------------ MODULE PipePool ------------------------------
(***************************************************************************)
(* The pool of src/pipes/pool.rs: one SharedArrayBuffer from which every   *)
(* worker allocates the buffers of its pipes, by moving the offset in the  *)
(* pool's first word with a compare-and-exchange.  Nothing is ever freed.  *)
(***************************************************************************)
EXTENDS Integers

CONSTANTS Workers,
          HeaderSize,     \* POOL_HEADER_SIZE
          PoolSize,       \* PIPE_POOL_SIZE
          Sizes           \* sizes asked for

ASSUME PoolAssumption ==
    /\ HeaderSize \in Nat /\ PoolSize \in Nat /\ HeaderSize <= PoolSize
    /\ Sizes \subseteq Nat \ {0}

VARIABLES offset,    \* the allocation offset, in the pool's first word
          call,      \* each worker's call of allocate_from_pool
          regions    \* the regions handed out

vars == <<offset, call, regions>>

Init ==
    /\ offset = HeaderSize
    /\ call = [w \in Workers |-> [pc |-> "idle", size |-> 0, current |-> 0]]
    /\ regions = {}

Allocate(w, size) ==
    /\ call[w].pc = "idle"
    /\ call' = [call EXCEPT ![w].pc = "load", ![w].size = size]
    /\ UNCHANGED <<offset, regions>>

\* The last region of the pool never given.
LoadOffset_OffByOne(w) ==
    /\ call[w].pc = "load"
    /\ call' = [call EXCEPT
                  ![w].pc = IF offset + call[w].size >= PoolSize THEN "idle" ELSE "claim",
                  ![w].current = offset]
    /\ UNCHANGED <<offset, regions>>

\* The load, and None if there is not enough space.  (checked_add: a sum past
\* 2^32 is past the end of the pool as well.)
LoadOffset(w) ==
    /\ call[w].pc = "load"
    /\ call' = [call EXCEPT
                  ![w].pc = IF offset + call[w].size > PoolSize THEN "idle" ELSE "claim",
                  ![w].current = offset]
    /\ UNCHANGED <<offset, regions>>

Region(w) == [start |-> call[w].current, size |-> call[w].size, owner |-> w]

\* The offset stored whatever it has become since it was loaded.
Claim_Blindly(w) ==
    /\ call[w].pc = "claim"
    /\ offset' = call[w].current + call[w].size
    /\ regions' = regions \cup {Region(w)}
    /\ call' = [call EXCEPT ![w].pc = "idle"]

\* The compare-and-exchange succeeds: the region is this worker's.
Claim(w) ==
    /\ call[w].pc = "claim" /\ offset = call[w].current
    /\ offset' = call[w].current + call[w].size
    /\ regions' = regions \cup {Region(w)}
    /\ call' = [call EXCEPT ![w].pc = "idle"]

\* Another worker has allocated meanwhile: retry.
Retry(w) ==
    /\ call[w].pc = "claim" /\ offset # call[w].current
    /\ call' = [call EXCEPT ![w].pc = "load"]
    /\ UNCHANGED <<offset, regions>>

Next == \E w \in Workers :
            \/ \E size \in Sizes : Allocate(w, size)
            \/ LoadOffset(w) \/ Claim(w) \/ Retry(w)

Spec == Init /\ [][Next]_vars

-----------------------------------------------------------------------------
TypeOK ==
    /\ offset \in HeaderSize..PoolSize
    /\ call \in [Workers -> [pc : {"idle", "load", "claim"}, size : Sizes \cup {0},
                             current : Nat]]
    /\ regions \subseteq [start : Nat, size : Sizes, owner : Workers]

\* A pipe "gets exclusive access to that region of the buffer": no two regions
\* overlap, whichever workers race for them, and none overlaps the word the
\* offset is in or ends outside the pool.
Exclusive ==
    /\ \A g, h \in regions :
         g # h => g.start + g.size <= h.start \/ h.start + h.size <= g.start
    /\ \A g \in regions : HeaderSize <= g.start /\ g.start + g.size <= PoolSize

\* A worker is told that the pool is exhausted only when it is: what is asked
\* for does not fit behind the regions handed out at that moment.
NoneIsFull ==
    [][\A w \in Workers :
         call[w].pc = "load" /\ call'[w].pc = "idle"
           => ~ \E start \in HeaderSize..PoolSize :
                  /\ start + call[w].size <= PoolSize
                  /\ \A g \in regions : g.start + g.size <= start]_vars

\* The inductive invariant: the offset is behind every region and in front of
\* none, and a worker's loaded offset is one that was current once.
IInv ==
    /\ TypeOK /\ Exclusive
    /\ \A g \in regions : g.start + g.size <= offset
    /\ offset = HeaderSize \/ \E g \in regions : g.start + g.size = offset
    /\ \A w \in Workers :
         /\ call[w].pc # "idle" => call[w].size \in Sizes
         /\ call[w].pc = "claim" => /\ HeaderSize <= call[w].current
                                    /\ call[w].current + call[w].size <= PoolSize
=============================================================================

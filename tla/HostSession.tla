---------------------------- MODULE HostSession ----------------------------
(***************************************************************************)
(* What the programs are promised of their host_exec sessions: of each     *)
(* session the messages of its JavaScript handler, once and in the order   *)
(* they were produced, and the exit code after every message the handler   *)
(* had produced when its promise settled.                                  *)
(*                                                                         *)
(* The exit code is not the end.  A handler may produce more afterwards,   *)
(* which is read before or after the exit code, and the exit code may be   *)
(* read a second time.                                                     *)
(***************************************************************************)
EXTENDS Naturals, Sequences

CONSTANTS Sessions,
          MaxOutput    \* bound: messages a handler produces

VARIABLES produced,    \* number of messages each handler has produced
          finished,    \* the sessions whose handler's promise has settled
          due,         \* the messages each had produced then
          reads,       \* the messages the programs have read of each session
          exits        \* how often they have read its exit code

svars == <<produced, finished, due, reads, exits>>

Init == /\ produced = [s \in Sessions |-> 0]
        /\ finished = {}
        /\ due = [s \in Sessions |-> 0]
        /\ reads = [s \in Sessions |-> <<>>]
        /\ exits = [s \in Sessions |-> 0]

Produce(s) == /\ produced[s] < MaxOutput
              /\ produced' = [produced EXCEPT ![s] = @ + 1]
              /\ UNCHANGED <<finished, due, reads, exits>>

Finish(s) == /\ s \notin finished
             /\ finished' = finished \cup {s}
             /\ due' = [due EXCEPT ![s] = produced[s]]
             /\ UNCHANGED <<produced, reads, exits>>

Read(s) == /\ Len(reads[s]) < produced[s]
           /\ reads' = [reads EXCEPT ![s] = Append(@, Len(@) + 1)]
           /\ UNCHANGED <<produced, finished, due, exits>>

ReadExit(s) == /\ s \in finished /\ due[s] <= Len(reads[s]) /\ exits[s] < 2
               /\ exits' = [exits EXCEPT ![s] = @ + 1]
               /\ UNCHANGED <<produced, finished, due, reads>>

Next == \E s \in Sessions : Produce(s) \/ Finish(s) \/ Read(s) \/ ReadExit(s)

Spec == Init /\ [][Next]_svars
=============================================================================

------------------------------ MODULE ForkPipes ------------------------------
(***************************************************************************)
(* Transmit ends of pipes in several processes and on several workers      *)
(* (src/pipes/mod.rs, src/pipes/extract.rs, src/tasks/task_wasm.rs,        *)
(* src/tasks/thread_pool_worker.rs).  The header of a pipe, in the pool    *)
(* that all workers share, counts its SharedPipeTx objects.  Dropping an   *)
(* object counts down, and the last one closes the pipe; shutting one down *)
(* closes the pipe whatever the count is.  A thread that is sent to a      *)
(* worker takes along the pool offsets its descriptors had then; the       *)
(* worker makes an object of each of them, in place of the one it finds    *)
(* under the same descriptor.                                              *)
(*                                                                         *)
(* The tables of descriptors belong to wasmer-wasix, which is external: an *)
(* inode owns its object and lives while a table refers to it; a fork      *)
(* copies the table and shares the inodes, a thread shares the table.      *)
(* Receive ends have no count and do nothing when dropped: they are left   *)
(* out.  A pipe is named by its number, which is that of its first inode.  *)
(***************************************************************************)
EXTENDS Integers, FiniteSets

CONSTANTS Pipes,     \* bound: number of pipes created
          Fds,       \* bound: descriptors of a process, from 1
          Messages   \* bound: threads sent to a worker

ASSUME ForkPipesAssumption == {Pipes, Fds, Messages} \subseteq Nat

VARIABLES
    count,    \* the transmit count in the header of each pipe
    closed,   \* the closed flag there
    made,     \* number of pipes created
    object,   \* the pipe of the SharedPipeTx in each inode, or None
    table,    \* the inode of each descriptor, for each process, or None
    thread,   \* each thread: pc, process, pipes to reconnect, the drop it does
    sent,     \* number of threads sent to a worker
    crossed,  \* a reconnect found an object of another pipe
    shutdown  \* the pipes that one of their objects shut down

vars == <<count, closed, made, object, table, thread, sent, crossed, shutdown>>

None == 0
Numbers == 1..Pipes
FdSet == 1..Fds
ThreadSet == 1..(Messages + 1)
Lowest(S) == {x \in S : \A y \in S : x <= y}
NoFds == [fd \in FdSet |-> None]

\* A process is named by its first thread.
Thread(pc, proc) == [pc |-> pc, proc |-> proc, buffers |-> NoFds, drop |-> None,
                     inode |-> None, back |-> "run"]

Init ==
    /\ count = [p \in Numbers |-> 0]
    /\ closed = [p \in Numbers |-> FALSE]
    /\ made = 0
    /\ object = [i \in Numbers |-> None]
    /\ table = [t \in ThreadSet |-> NoFds]
    /\ thread = [t \in ThreadSet |-> Thread(IF t = 1 THEN "run" ELSE "none", t)]
    /\ sent = 0 /\ crossed = FALSE
    /\ shutdown = [p \in Numbers |-> FALSE]

-----------------------------------------------------------------------------
\* Locks: reconnect_pipe_buffers reads the table to its end, and writes an
\* inode while the old object is dropped.
Reconnecting(t) == \/ thread[t].pc = "reconnect"
                   \/ thread[t].pc \in {"sub", "shut"} /\ thread[t].back = "reconnect"
TableFree(proc) == \A t \in ThreadSet : thread[t].proc = proc => ~Reconnecting(t)
Locked(i) == \E t \in ThreadSet :
                 /\ thread[t].pc \in {"sub", "shut"}
                 /\ thread[t].back = "reconnect" /\ thread[t].inode = i

\* A thread of a program that has the table for itself.
Acts(t) == thread[t].pc = "run" /\ TableFree(thread[t].proc)
Mine(t) == table[thread[t].proc]
FreeFds(t) == {fd \in FdSet : Mine(t)[fd] = None}

\* wasmer-wasix asks Runtime::create_pipe for a pipe: the count starts at one.
CreatePipe(t) ==
    /\ Acts(t) /\ made < Pipes
    /\ \E fd \in Lowest(FreeFds(t)) : LET p == made + 1 IN
         /\ made' = p
         /\ count' = [count EXCEPT ![p] = 1]
         /\ closed' = [closed EXCEPT ![p] = FALSE]
         /\ object' = [object EXCEPT ![p] = p]
         /\ table' = [table EXCEPT ![thread[t].proc][fd] = p]
    /\ UNCHANGED <<thread, sent, crossed, shutdown>>

\* dup: a second descriptor of the inode.
Dup(t) ==
    /\ Acts(t)
    /\ \E fd \in FdSet \ FreeFds(t), new \in Lowest(FreeFds(t)) :
         table' = [table EXCEPT ![thread[t].proc][new] = Mine(t)[fd]]
    /\ UNCHANGED <<count, closed, made, object, thread, sent, crossed, shutdown>>

-----------------------------------------------------------------------------
\* Drop for SharedPipeTx, two accesses of the header: count down and, at the
\* last object, close.
StartDrop(t, i, back) ==
    thread' = [thread EXCEPT ![t].pc = "sub", ![t].drop = object[i],
                             ![t].inode = i, ![t].back = back]

\* The count is compared after counting down.
IsLast_TooLate(prev_count) == prev_count = 0

\* The last but one object closes the pipe, too.
IsLast_OffByOne(prev_count) == prev_count <= 2

IsLast(prev_count) == prev_count = 1

\* A thread goes on with what it did; it is ready when nothing is to reconnect.
GoOn(t, pc, buffers) ==
    [Thread(IF pc = "reconnect" /\ buffers = NoFds THEN "ready" ELSE pc, thread[t].proc)
        EXCEPT !.buffers = buffers]

EndDrop(t) == [thread EXCEPT ![t] = GoOn(t, @.back, @.buffers)]

Sub(t) ==
    /\ thread[t].pc = "sub"
    /\ LET p == thread[t].drop IN
         /\ count' = [count EXCEPT ![p] = @ - 1]
         /\ thread' = IF IsLast(count[p]) THEN [thread EXCEPT ![t].pc = "shut"]
                                          ELSE EndDrop(t)
    /\ UNCHANGED <<closed, made, object, table, sent, crossed, shutdown>>

Shut(t) ==
    /\ thread[t].pc = "shut"
    /\ closed' = [closed EXCEPT ![thread[t].drop] = TRUE]
    /\ thread' = EndDrop(t)
    /\ UNCHANGED <<count, made, object, table, sent, crossed, shutdown>>

Referred(i, tab) == \E u \in ThreadSet, fd \in FdSet : tab[u][fd] = i

\* A descriptor goes; with the last one its inode goes, and the object in it.
Release(t, fd, back) ==
    LET i == Mine(t)[fd]
        rest == [table EXCEPT ![thread[t].proc][fd] = None]
    IN /\ i # None
       /\ table' = rest
       /\ IF Referred(i, rest)
          THEN UNCHANGED <<object, thread>>
          ELSE /\ StartDrop(t, i, back)
               /\ object' = [object EXCEPT ![i] = None]
       /\ UNCHANGED <<count, closed, made, sent, crossed, shutdown>>

CloseFd(t, fd) == Acts(t) /\ Release(t, fd, "run")

\* poll_shutdown: close() sets the flag, whatever the count is.
Shutdown(t, fd) ==
    LET i == Mine(t)[fd] IN
      /\ Acts(t) /\ i # None /\ ~Locked(i)
      /\ closed' = [closed EXCEPT ![object[i]] = TRUE]
      /\ shutdown' = [shutdown EXCEPT ![object[i]] = TRUE]
      /\ UNCHANGED <<count, made, object, table, thread, sent, crossed>>

-----------------------------------------------------------------------------
\* extract_pipe_buffers: the pipe of the object under each descriptor.
CanExtract(t) == \A fd \in FdSet : ~Locked(Mine(t)[fd])
Extract(t) == [fd \in FdSet |-> IF Mine(t)[fd] = None THEN None ELSE object[Mine(t)[fd]]]

\* to_scheduler_message for thread u of a process: the message holds the table,
\* shared with the sender or copied by a fork, and the offsets.
to_scheduler_message(t, u, proc) ==
    /\ Acts(t) /\ CanExtract(t) /\ sent < Messages
    /\ sent' = sent + 1
    /\ thread' = [thread EXCEPT ![u] = [Thread("sent", proc) EXCEPT !.buffers = Extract(t)]]

NewThreads == Lowest({u \in ThreadSet : thread[u].pc = "none"})

Fork(t) ==
    /\ \E u \in NewThreads :
         /\ to_scheduler_message(t, u, u)
         /\ table' = [table EXCEPT ![u] = Mine(t)]
    /\ UNCHANGED <<count, closed, made, object, crossed, shutdown>>

SpawnThread(t) ==
    /\ \E u \in NewThreads : to_scheduler_message(t, u, thread[t].proc)
    /\ UNCHANGED <<count, closed, made, object, table, crossed, shutdown>>

\* A thread that gives up its worker, to be resumed on another one.
Suspend(t) ==
    /\ to_scheduler_message(t, t, thread[t].proc)
    /\ UNCHANGED <<count, closed, made, object, table, crossed, shutdown>>

-----------------------------------------------------------------------------
\* execute_blocking: reconnect_fork_pipes when the message has pipes.
Receive(t) ==
    /\ thread[t].pc = "sent"
    /\ thread' = [thread EXCEPT ![t] = GoOn(t, "reconnect", @.buffers)]
    /\ UNCHANGED <<count, closed, made, object, table, sent, crossed, shutdown>>

\* As SharedPipe::from_pool_offset, which does not count.
from_pool_offset_Uncounted(p) == count

\* SharedPipeTx::from_pool_offset counts the new object.
from_pool_offset(p) == [count EXCEPT ![p] = @ + 1]

\* The old object is forgotten and not dropped.
Replaced_Forgets(t, i, rest) == GoOn(t, "reconnect", rest)

\* The assignment drops the object it replaces.
Replaced(t, i, rest) ==
    [thread[t] EXCEPT !.pc = "sub", !.buffers = rest, !.drop = object[i],
                      !.inode = i, !.back = "reconnect"]

\* One descriptor, in any order: if there is still one, a new object takes the
\* place of the one in its inode, which is dropped under the lock.
Reconnect(t, fd) ==
    LET i == Mine(t)[fd]
        p == thread[t].buffers[fd]
        rest == [thread[t].buffers EXCEPT ![fd] = None]
    IN /\ thread[t].pc = "reconnect" /\ p # None
       /\ IF i = None
          THEN /\ thread' = [thread EXCEPT ![t] = GoOn(t, "reconnect", rest)]
               /\ UNCHANGED <<count, object, crossed>>
          ELSE /\ ~Locked(i)
               /\ count' = from_pool_offset(p)
               /\ object' = [object EXCEPT ![i] = p]
               /\ crossed' = (crossed \/ object[i] # p)
               /\ thread' = [thread EXCEPT ![t] = Replaced(t, i, rest)]
       /\ UNCHANGED <<closed, made, table, sent, shutdown>>

\* The last thread of a process takes the table with it.
Alone(t) == \A u \in ThreadSet \ {t} :
               thread[u].proc = thread[t].proc => thread[u].pc \in {"none", "done"}

Leave(t) ==
    /\ thread' = [thread EXCEPT ![t] =
                     IF Alone(t) /\ Mine(t) # NoFds THEN Thread("unwind", @.proc)
                                                   ELSE Thread("done", t)]
    /\ UNCHANGED <<count, closed, made, object, table, sent, crossed, shutdown>>

\* The message is lost: it could not be posted, or its worker is gone.
Lose(t) == thread[t].pc = "sent" /\ Leave(t)

\* begin waits for the trigger of the message, then execute builds an instance
\* and runs it, or fails and drops the message with its table.
Execute(t) ==
    /\ thread[t].pc = "ready"
    /\ thread' = [thread EXCEPT ![t].pc = "run"]
    /\ UNCHANGED <<count, closed, made, object, table, sent, crossed, shutdown>>

ExecuteFails(t) == thread[t].pc = "ready" /\ Leave(t)

Exit(t) == Acts(t) /\ Leave(t)

Unwind(t) ==
    /\ thread[t].pc = "unwind"
    /\ \E fd \in Lowest(FdSet \ FreeFds(t)) : Release(t, fd, "unwind")

Unwound(t) == thread[t].pc = "unwind" /\ Mine(t) = NoFds /\ Leave(t)

-----------------------------------------------------------------------------
Next == \E t \in ThreadSet :
           \/ CreatePipe(t) \/ Dup(t) \/ Fork(t) \/ SpawnThread(t) \/ Suspend(t)
           \/ Receive(t) \/ Lose(t) \/ Execute(t) \/ ExecuteFails(t) \/ Exit(t) \/ Unwound(t)
           \/ Unwind(t) \/ Sub(t) \/ Shut(t)
           \/ \E fd \in FdSet : CloseFd(t, fd) \/ Shutdown(t, fd) \/ Reconnect(t, fd)

Spec == Init /\ [][Next]_vars

\* A drop that has begun is finished.
FairSpec == Spec /\ \A t \in ThreadSet : WF_vars(Sub(t) \/ Shut(t))

-----------------------------------------------------------------------------
ThreadType ==
    [pc : {"none", "sent", "reconnect", "ready", "run", "sub", "shut", "unwind", "done"},
     proc : ThreadSet, buffers : [FdSet -> 0..Pipes], drop : 0..Pipes,
     inode : 0..Pipes, back : {"run", "reconnect", "unwind"}]

\* The type invariant.
TypeOK ==
    /\ count \in [Numbers -> Nat]
    /\ closed \in [Numbers -> BOOLEAN]
    /\ made \in 0..Pipes
    /\ object \in [Numbers -> 0..Pipes]
    /\ table \in [ThreadSet -> [FdSet -> 0..Pipes]]
    /\ thread \in [ThreadSet -> ThreadType]
    /\ sent \in 0..Messages /\ crossed \in BOOLEAN
    /\ shutdown \in [Numbers -> BOOLEAN]

Ends(p) == {i \in Numbers : object[i] = p}
Leaving(p) == {t \in ThreadSet : thread[t].pc = "sub" /\ thread[t].drop = p}

\* The count in the header of a pipe is the number of its transmit ends, those
\* whose Drop has begun included, whatever descriptors are shared, copied,
\* closed or reconnected meanwhile.
CountIsEnds == \A p \in Numbers : count[p] = Cardinality(Ends(p)) + Cardinality(Leaving(p))

\* The count closes no pipe while one of its transmit ends is open, in whatever
\* process and on its way to whatever worker, as long as every descriptor that
\* was reconnected still had the pipe it had when its thread was sent: a pipe
\* that is closed with an end left was shut down through one of its objects.
NotCutOff == ~crossed => \A p \in Numbers : closed[p] /\ ~shutdown[p] => Ends(p) = {}

\* The inductive invariant: a pipe that the count has closed, or is about to,
\* has no end any more, and nothing names a pipe that is not made yet.
Closing(p) == \/ closed[p] /\ ~shutdown[p]
              \/ \E t \in ThreadSet : thread[t].pc = "shut" /\ thread[t].drop = p
OnlyMade ==
    /\ \A i \in Numbers : object[i] <= made /\ (i > made => object[i] = None)
    /\ \A t \in ThreadSet : /\ thread[t].drop <= made
                           /\ \A fd \in FdSet : /\ thread[t].buffers[fd] <= made
                                              /\ table[t][fd] <= made
ClosedHaveNone == ~crossed => \A p \in Numbers : Closing(p) => Ends(p) = {}
IInv == TypeOK /\ CountIsEnds /\ OnlyMade /\ ClosedHaveNone

\* When the last transmit end of a pipe has gone, the pipe is closed, so that
\* its reader gets to the end-of-file.
EofComes == \A p \in Numbers : []<>(p > made \/ Ends(p) # {} \/ closed[p])

\* "this just recreates the SharedPipeTx/Rx structs with the same memory
\* offsets": a reconnect leaves every descriptor with the pipe it has.
DescriptorsKeepPipe == ~crossed
=============================================================================

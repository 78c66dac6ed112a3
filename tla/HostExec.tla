------------------------------ MODULE HostExec ------------------------------
(***************************************************************************)
(* The host_exec protocol: a program in a worker starts a command that a   *)
(* JavaScript handler runs on the main thread, and reads its output.       *)
(*                                                                         *)
(* The worker (src/runtime.rs) posts a request and then waits on a word of *)
(* its own SharedArrayBuffer.  The main thread (src/tasks/scheduler.rs)    *)
(* executes one mailbox message or one callback of the handler at a time   *)
(* and stores its answer in that buffer.                                   *)
(*                                                                         *)
(* A handler's messages (stdout, stderr, spawn requests...) are numbered   *)
(* 1, 2, ... in each session; Exit stands for its exit code.               *)
(***************************************************************************)
EXTENDS Naturals, Sequences, FiniteSets

CONSTANTS Workers, Sessions,
          NoWorker,     \* no worker
          Ops,          \* the blocking requests the programs make
          MaxOutput     \* bound: messages a handler produces

ASSUME HostExecAssumption ==
    /\ NoWorker \notin Workers
    /\ Ops \subseteq {"read", "try_read", "poll"}
    /\ MaxOutput \in Nat

VARIABLES
    worker,     \* each worker's program counter, request and session
    view,       \* each worker's host_exec buffer: status, message, session
    wire,       \* messages posted by each worker, not yet received
    mailbox,    \* the scheduler's channel
    main,       \* the answer the main thread is storing
    host,       \* the handler of each session
    owner,      \* the worker that started each session
    produced,   \* number of messages each handler has produced
    due,        \* how many of them it had produced when its promise settled
    queue,      \* OUTPUT_QUEUES
    pending,    \* PENDING_READS
    result,     \* HOST_EXEC_RESULTS holds the session's exit code
    reads,      \* the messages the programs have read of each session
    exits,      \* how often they have read its exit code
    early       \* an answer's status was stored before its worker waited

mainVars == <<mailbox, main, host, produced, due, queue, pending, result>>
vars == <<worker, view, wire, owner, reads, exits, early, mainVars>>

NoItem == 0
Exit == MaxOutput + 1
Idle == [pc |-> "idle", worker |-> NoWorker, session |-> 0, item |-> 0, status |-> 0]

Init ==
    /\ worker = [w \in Workers |-> [pc |-> "run", op |-> "read", session |-> 0]]
    /\ view = [w \in Workers |-> [status |-> 0, item |-> 0, session |-> 0]]
    /\ wire = [w \in Workers |-> <<>>]
    /\ mailbox = <<>>
    /\ main = Idle
    /\ host = [s \in Sessions |-> "none"]
    /\ owner = [s \in Sessions |-> NoWorker]
    /\ produced = [s \in Sessions |-> 0]
    /\ due = [s \in Sessions |-> 0]
    /\ queue = [s \in Sessions |-> <<>>]
    /\ pending = [s \in Sessions |-> NoWorker]
    /\ result = [s \in Sessions |-> FALSE]
    /\ reads = [s \in Sessions |-> <<>>]
    /\ exits = [s \in Sessions |-> 0]
    /\ early = FALSE

Message(type, w, s, item) == [type |-> type, worker |-> w, session |-> s, item |-> item]

-----------------------------------------------------------------------------
(* The worker.                                                             *)

\* host_exec_start: the session id is taken from a counter, so it is fresh,
\* and the call returns without waiting for the scheduler.
Start(w, s) ==
    /\ worker[w].pc = "run" /\ owner[s] = NoWorker
    /\ owner' = [owner EXCEPT ![s] = w]
    /\ wire' = [wire EXCEPT ![w] = Append(@, Message("start", w, s, NoItem))]
    /\ UNCHANGED <<worker, view, reads, exits, early, mainVars>>

\* host_exec_read, host_exec_try_read and host_exec_poll, up to the post.
Request(w, op, s) ==
    /\ worker[w].pc = "run" /\ owner[s] = w
    /\ worker' = [worker EXCEPT ![w] = [pc |-> "reset", op |-> op, session |-> s]]
    /\ wire' = [wire EXCEPT ![w] = Append(@, Message(op, w, s, NoItem))]
    /\ UNCHANGED <<view, owner, reads, exits, early, mainVars>>

\* The status word left as the last answer set it.
ResetStatus_Skipped(w) ==
    /\ worker[w].pc = "reset"
    /\ worker' = [worker EXCEPT ![w].pc = "wait"]
    /\ UNCHANGED <<view, wire, owner, reads, exits, early, mainVars>>

\* "Reset status to 0 (waiting) before blocking".
ResetStatus(w) ==
    /\ worker[w].pc = "reset"
    /\ view' = [view EXCEPT ![w].status = 0]
    /\ worker' = [worker EXCEPT ![w].pc = "wait"]
    /\ UNCHANGED <<wire, owner, reads, exits, early, mainVars>>

\* Atomics.wait, which has no timeout here: it returns at once if the status
\* is no longer 0.
Wait(w) ==
    /\ worker[w].pc = "wait"
    /\ worker' = [worker EXCEPT ![w].pc = IF view[w].status = 0 THEN "blocked" ELSE "load"]
    /\ UNCHANGED <<view, wire, owner, reads, exits, early, mainVars>>

\* The answer taken from the buffer.  host_exec_read checks the session it
\* names and host_exec_try_read only the status; host_exec_poll takes nothing.
Load(w) ==
    LET s == worker[w].session
        item == view[w].item
        taken == \/ worker[w].op = "read" /\ view[w].session = s
                 \/ worker[w].op = "try_read" /\ view[w].status # 2
    IN /\ worker[w].pc = "load"
       /\ worker' = [worker EXCEPT ![w].pc = "run"]
       /\ reads' = IF taken /\ item # Exit THEN [reads EXCEPT ![s] = Append(@, item)] ELSE reads
       /\ exits' = IF taken /\ item = Exit THEN [exits EXCEPT ![s] = @ + 1] ELSE exits
       /\ UNCHANGED <<view, wire, owner, early, mainVars>>

-----------------------------------------------------------------------------
(* The main thread.                                                        *)

\* postMessage keeps the order of one worker's messages; the on-message
\* callback of the WorkerHandle passes them to the scheduler's channel.
Deliver(w) ==
    /\ main.pc = "idle" /\ wire[w] # <<>>
    /\ mailbox' = Append(mailbox, Head(wire[w]))
    /\ wire' = [wire EXCEPT ![w] = Tail(@)]
    /\ UNCHANGED <<worker, view, main, host, owner, produced, due, queue, pending, result, reads, exits, early>>

Answer(w, s, item, status) ==
    [pc |-> "body", worker |-> w, session |-> s, item |-> item, status |-> status]

Msg == Head(mailbox)

Receive(type) ==
    /\ main.pc = "idle" /\ mailbox # <<>> /\ Msg.type = type
    /\ mailbox' = Tail(mailbox)
    /\ UNCHANGED <<worker, view, wire, owner, produced, due, reads, exits, early>>

\* HostExecStart: without a handler, or if the request does not parse, nothing
\* is called (failed).  Otherwise the handler is given its callbacks and called;
\* it returns a promise (running), or an exit code or an exception (returned).
\* Only a promise makes a session; the error response for the others is posted
\* to the worker, which ignores it.
ExecuteStart ==
    /\ Receive("start")
    /\ \E outcome \in {"running", "returned", "failed"} :
         host' = [host EXCEPT ![Msg.session] = outcome]
    /\ UNCHANGED <<main, queue, pending, result>>

Ready(s) == queue[s] # <<>> \/ result[s]

\* The exit code looked for before the queue.
TakeMessage_ExitFirst(w, s) ==
    /\ Ready(s)
    /\ IF result[s]
       THEN /\ main' = Answer(w, s, Exit, 1)
            /\ result' = [result EXCEPT ![s] = FALSE]
            /\ queue' = [queue EXCEPT ![s] = <<>>]
       ELSE /\ main' = Answer(w, s, Head(queue[s]), 1)
            /\ queue' = [queue EXCEPT ![s] = Tail(@)]
            /\ UNCHANGED result
    /\ UNCHANGED <<host, pending>>

\* What a read is given at once: queued messages first, then the exit code,
\* which is forgotten together with the session's queue.
TakeMessage(w, s) ==
    /\ Ready(s)
    /\ IF queue[s] # <<>>
       THEN /\ main' = Answer(w, s, Head(queue[s]), 1)
            /\ queue' = [queue EXCEPT ![s] = Tail(@)]
            /\ UNCHANGED result
       ELSE /\ main' = Answer(w, s, Exit, 1)
            /\ result' = [result EXCEPT ![s] = FALSE]
            /\ UNCHANGED queue
    /\ UNCHANGED <<host, pending>>

\* HostExecRead: with nothing to give, the read is left pending.
ExecuteRead ==
    /\ Receive("read")
    /\ \/ TakeMessage(Msg.worker, Msg.session)
       \/ /\ ~Ready(Msg.session)
          /\ pending' = [pending EXCEPT ![Msg.session] = Msg.worker]
          /\ UNCHANGED <<main, host, queue, result>>

\* HostExecTryRead: with nothing to give, the answer is status 2 (EAGAIN).
ExecuteTryRead ==
    /\ Receive("try_read")
    /\ \/ TakeMessage(Msg.worker, Msg.session)
       \/ /\ ~Ready(Msg.session)
          /\ main' = Answer(Msg.worker, Msg.session, NoItem, 2)
          /\ UNCHANGED <<host, queue, pending, result>>

\* HostExecPoll looks and takes nothing.
ExecutePoll ==
    /\ Receive("poll")
    /\ main' = Answer(Msg.worker, Msg.session, NoItem, IF Ready(Msg.session) THEN 1 ELSE 2)
    /\ UNCHANGED <<host, queue, pending, result>>

\* HostExecReadComplete: the answer to a read that was pending.
ExecuteReadComplete ==
    /\ Receive("complete")
    /\ main' = Answer(Msg.worker, Msg.session, Msg.item, 1)
    /\ UNCHANGED <<host, queue, pending, result>>

\* The words that say what the answer is and, as a step of its own, the status
\* that says it is there.  The answers EAGAIN and to a poll have no message.
StoreBody ==
    /\ main.pc = "body"
    /\ view' = [view EXCEPT ![main.worker].session = main.session,
                            ![main.worker].item = IF main.item = NoItem
                                                  THEN @ ELSE main.item]
    /\ main' = [main EXCEPT !.pc = "status"]
    /\ UNCHANGED <<worker, wire, owner, reads, exits, early, mailbox, host, produced, due, queue, pending, result>>

\* The data length stored into the status word.
StoreStatus_WrongWord ==
    /\ main.pc = "status"
    /\ view' = [view EXCEPT ![main.worker].status = main.item]
    /\ early' = (early \/ worker[main.worker].pc # "blocked")
    /\ main' = [main EXCEPT !.pc = "notify"]
    /\ UNCHANGED <<worker, wire, owner, reads, exits, mailbox, host, produced, due, queue, pending, result>>

\* Nothing in the code makes the main thread wait for the worker to be in
\* Atomics.wait before it answers; early remembers that it was not.
StoreStatus ==
    /\ main.pc = "status"
    /\ view' = [view EXCEPT ![main.worker].status = main.status]
    /\ early' = (early \/ worker[main.worker].pc # "blocked")
    /\ main' = [main EXCEPT !.pc = "notify"]
    /\ UNCHANGED <<worker, wire, owner, reads, exits, mailbox, host, produced, due, queue, pending, result>>

Notify ==
    /\ main.pc = "notify"
    /\ worker' = [worker EXCEPT ![main.worker].pc = IF @ = "blocked" THEN "load" ELSE @]
    /\ main' = Idle
    /\ UNCHANGED <<view, wire, owner, reads, exits, early, mailbox, host, produced, due, queue, pending, result>>

-----------------------------------------------------------------------------
(* The handler's callbacks, on the main thread between two messages.       *)

\* A handler keeps the callbacks it was called with.  They look neither at what
\* its call returned nor at whether its promise has settled since.
Produce(s) ==
    /\ main.pc = "idle" /\ host[s] \in {"running", "returned", "settled"}
    /\ produced[s] < MaxOutput
    /\ produced' = [produced EXCEPT ![s] = @ + 1]
    /\ UNCHANGED <<worker, view, wire, main, host, owner, due, result, reads, exits, early>>

Complete(s, item) ==
    /\ mailbox' = Append(mailbox, Message("complete", pending[s], s, item))
    /\ pending' = [pending EXCEPT ![s] = NoWorker]

\* A pending read looked up but not removed.
OnOutput_KeepPending(s) ==
    /\ Produce(s)
    /\ IF pending[s] # NoWorker
       THEN /\ mailbox' = Append(mailbox, Message("complete", pending[s], s, produced'[s]))
            /\ UNCHANGED <<queue, pending>>
       ELSE /\ queue' = [queue EXCEPT ![s] = Append(@, produced'[s])]
            /\ UNCHANGED <<mailbox, pending>>

\* A message put in the queue although a read is pending.
OnOutput_AlwaysQueue(s) ==
    /\ Produce(s)
    /\ queue' = [queue EXCEPT ![s] = Append(@, produced'[s])]
    /\ UNCHANGED <<mailbox, pending>>

\* onStdout and onStderr: past the queue if a read is pending.
OnOutput(s) ==
    /\ Produce(s)
    /\ IF pending[s] # NoWorker
       THEN Complete(s, produced'[s]) /\ UNCHANGED queue
       ELSE /\ queue' = [queue EXCEPT ![s] = Append(@, produced'[s])]
            /\ UNCHANGED <<mailbox, pending>>

\* requestSpawn, spawnWriteStdin, spawnCloseStdin and spawnKill: into the
\* queue, whose head goes to a pending read.
OnSpawn(s) ==
    LET queued == Append(queue[s], produced'[s])
    IN /\ Produce(s)
       /\ IF pending[s] # NoWorker
          THEN /\ Complete(s, Head(queued))
               /\ queue' = [queue EXCEPT ![s] = Tail(queued)]
          ELSE /\ queue' = [queue EXCEPT ![s] = queued]
               /\ UNCHANGED <<mailbox, pending>>

\* The exit code stored without a look at the pending read.
Settle_NoWake(s) ==
    /\ main.pc = "idle" /\ host[s] = "running"
    /\ host' = [host EXCEPT ![s] = "settled"]
    /\ result' = [result EXCEPT ![s] = TRUE]
    /\ due' = [due EXCEPT ![s] = produced[s]]
    /\ UNCHANGED <<worker, view, wire, main, owner, produced, queue, reads, exits, early, mailbox, pending>>

\* The promise settles, with an exit code or a rejection (exit code 1).  The
\* result stays in HOST_EXEC_RESULTS even when it answers a pending read.
Settle(s) ==
    /\ main.pc = "idle" /\ host[s] = "running"
    /\ host' = [host EXCEPT ![s] = "settled"]
    /\ result' = [result EXCEPT ![s] = TRUE]
    /\ due' = [due EXCEPT ![s] = produced[s]]
    /\ IF pending[s] # NoWorker
       THEN Complete(s, Exit)
       ELSE UNCHANGED <<mailbox, pending>>
    /\ UNCHANGED <<worker, view, wire, main, owner, produced, queue, reads, exits, early>>

-----------------------------------------------------------------------------
Execute == \/ ExecuteStart \/ ExecuteRead \/ ExecuteTryRead \/ ExecutePoll
           \/ ExecuteReadComplete

Store == StoreBody \/ StoreStatus \/ Notify

Resume(w) == ResetStatus(w) \/ Wait(w) \/ Load(w)

Next == \/ \E w \in Workers, s \in Sessions : Start(w, s)
        \/ \E w \in Workers, op \in Ops, s \in Sessions : Request(w, op, s)
        \/ \E w \in Workers : Resume(w) \/ Deliver(w)
        \/ Execute
        \/ Store
        \/ \E s \in Sessions : OnOutput(s) \/ OnSpawn(s) \/ Settle(s)

Spec == Init /\ [][Next]_vars

\* Workers run, posted messages arrive and the main thread works through its
\* mailbox.  That a handler's promise settles is assumed of the handler.
FairSpec ==
    /\ Spec
    /\ \A w \in Workers : WF_vars(Resume(w)) /\ WF_vars(Deliver(w))
    /\ WF_vars(Execute) /\ WF_vars(Store)
    /\ \A s \in Sessions : WF_vars(Settle(s))

-----------------------------------------------------------------------------
Messages == [type : {"start", "read", "try_read", "poll", "complete"},
             worker : Workers, session : Sessions, item : 0..Exit]

WorkerStates == [pc : {"run", "reset", "wait", "blocked", "load"},
                 op : {"read", "try_read", "poll"}, session : Sessions \cup {0}]

Views == [status : 0..2, item : 0..Exit, session : Sessions \cup {0}]

Answers == [pc : {"idle", "body", "status", "notify"},
            worker : Workers \cup {NoWorker}, session : Sessions \cup {0},
            item : 0..Exit, status : 0..2]

\* The type invariant; a request that is under way names a session, and an
\* answer that is being stored a worker and a session.
TypeOK ==
    /\ worker \in [Workers -> WorkerStates]
    /\ \A w \in Workers : worker[w].pc # "run" => worker[w].session \in Sessions
    /\ view \in [Workers -> Views]
    /\ wire \in [Workers -> Seq(Messages)]
    /\ mailbox \in Seq(Messages)
    /\ main \in Answers
    /\ main.pc # "idle" => main.worker \in Workers /\ main.session \in Sessions
    /\ host \in [Sessions -> {"none", "running", "returned", "failed", "settled"}]
    /\ owner \in [Sessions -> Workers \cup {NoWorker}]
    /\ produced \in [Sessions -> 0..MaxOutput]
    /\ due \in [Sessions -> 0..MaxOutput]
    /\ queue \in [Sessions -> Seq(1..MaxOutput)]
    /\ pending \in [Sessions -> Workers \cup {NoWorker}]
    /\ result \in [Sessions -> BOOLEAN]
    /\ reads \in [Sessions -> Seq(0..Exit)]
    /\ exits \in [Sessions -> Nat]
    /\ early \in BOOLEAN

\* Where the request of a worker can be while it is not answered.
AsksIn(q, w) == {i \in DOMAIN q : q[i].type # "start" /\ q[i].worker = w}
PendingOf(w) == {s \in Sessions : pending[s] = w}
Owed(w) ==
    Cardinality(AsksIn(wire[w], w)) + Cardinality(AsksIn(mailbox, w))
      + Cardinality(PendingOf(w))
      + (IF main.pc \in {"body", "status"} /\ main.worker = w THEN 1 ELSE 0)

\* A worker's buffer serves all its sessions and requests, and only
\* host_exec_read looks at the session an answer names.  So an answer may be
\* under way only while its worker waits for it, and never a second one: a
\* request is posted, in the mailbox, pending, or being answered, in one of
\* these places only, and in none when the worker is not waiting.  This holds
\* as long as no answer has come early.
OneAnswer ==
    ~early => \A w \in Workers :
                 /\ Owed(w) <= 1
                 /\ worker[w].pc \in {"run", "load"} => Owed(w) = 0

\* A woken worker finds in its buffer the answer to its own request,
\* completely stored: for the session it asked about, and a message only if it
\* is the next one, or the exit code of a handler that has settled.  This holds
\* as long as no answer has come early.
AnswerIsMine ==
    ~early => \A w \in Workers :
        LET s == worker[w].session
        IN worker[w].pc = "load" =>
             /\ view[w].session = s
             /\ view[w].status = 1 \/ (view[w].status = 2 /\ worker[w].op # "read")
             /\ worker[w].op # "poll" /\ view[w].status = 1
                  => \/ view[w].item = Len(reads[s]) + 1
                     \/ view[w].item = Exit /\ host[s] = "settled"

\* No read stays pending while there is something to give it: the messages
\* and the exit code that bypass the queue overtake nothing.  This holds
\* whenever the answers come.
PendingMeansEmpty ==
    \A s \in Sessions : pending[s] # NoWorker => ~Ready(s)

\* As long as no answer has come early, each session keeps the promise of
\* HostSession: all messages once and in order, through the queue or past it,
\* also those a handler still produces when its promise has settled; the exit
\* code after the last message produced before that, and at most twice.
Promised == INSTANCE HostSession
            WITH finished <- {s \in Sessions : host[s] = "settled"}
SessionSpec == Promised!Init /\ [][early' \/ Promised!Next]_(Promised!svars)

\* "status flag (0 = waiting, 1 = response ready)" and "block until status
\* becomes non-zero (response ready)": a worker that waits with status 0 has
\* an answer to come, or at least the notification of one.
WaitingIsOwed ==
    \A w \in Workers :
        worker[w].pc = "blocked" /\ view[w].status = 0
            => Owed(w) = 1 \/ (main.pc = "notify" /\ main.worker = w)

\* A read that waits when its answer is yet to be given returns once the
\* handler settles, whichever of the two paths the answer takes.
AnsweredInTheEnd ==
    \A w \in Workers, s \in Sessions :
        (worker[w].pc = "blocked" /\ worker[w].session = s
           /\ Owed(w) = 1 /\ host[s] = "running")
        ~> worker[w].pc = "run"
=============================================================================

---------------------------- MODULE SchedulerPool ----------------------------
(***************************************************************************)
(* The thread pool: the scheduler of src/tasks/scheduler.rs on the main    *)
(* thread and the workers of src/tasks/thread_pool_worker.rs, which talk   *)
(* by postMessage only.  The scheduler keeps its workers in two lists, by  *)
(* what it last heard or told them; a worker that runs a blocking job does *)
(* not return to its event loop, so nothing else on it makes progress.     *)
(***************************************************************************)
EXTENDS Naturals, Sequences, FiniteSets, SequencesExt

CONSTANTS
    Jobs,
    NoJob,       \* no job
    KindOf,      \* of each job: "async", "blocking", "wasm" or "sleep"
    WaitsFor,    \* of each job: the jobs it must see finished to finish
    Faults       \* whether jobs may trap and posts may fail

ASSUME PoolAssumption ==
    /\ NoJob \notin Jobs
    /\ IsFiniteSet(Jobs)
    /\ KindOf \in [Jobs -> {"async", "blocking", "wasm", "sleep"}]
    /\ WaitsFor \in [Jobs -> SUBSET Jobs]
    /\ Faults \in BOOLEAN

VARIABLES
    idle, busy,   \* the scheduler's lists of workers
    next_id,      \* NEXT_ID
    mailbox,      \* the scheduler's channel
    inbox,        \* jobs posted to each worker and not yet received there
    phase,        \* of each worker: "starting", "ready" or "broken"
    pending,      \* pendingMessages of worker.js
    awaited,      \* the job that the loop over pendingMessages awaits
    outbox,       \* messages posted by each worker and not yet received
    running,      \* the blocking job each worker is in the middle of
    parked,       \* of each worker, the jobs that await something there
    spawned, done, failed,   \* jobs: given to the pool, finished, given up
    life,         \* of the pool: "open", "closing" or "closed"
    drained       \* jobs executed by the draining at Close

lists == <<idle, busy, next_id>>
jobs == <<spawned, done, failed>>
start == <<phase, pending, awaited>>
worker == <<inbox, outbox, running, parked>>
closing == <<life, drained>>
vars == <<lists, mailbox, worker, start, jobs, closing>>

\* Every worker is started for a job: there are no more workers than jobs.
Workers == 1..Cardinality(Jobs)

Alive(w) == w \in ToSet(idle) \cup ToSet(busy)

\* PostMessagePayload::would_block
would_block(j) == KindOf[j] # "async"

Message(type, w, j) == [type |-> type, worker |-> w, job |-> j]

Init ==
    /\ idle = <<>> /\ busy = <<>> /\ next_id = 1
    /\ mailbox = <<>>
    /\ inbox = [w \in Workers |-> <<>>]
    /\ phase = [w \in Workers |-> "starting"]
    /\ pending = [w \in Workers |-> <<>>]
    /\ awaited = [w \in Workers |-> NoJob]
    /\ outbox = [w \in Workers |-> <<>>]
    /\ running = [w \in Workers |-> NoJob]
    /\ parked = [w \in Workers |-> {}]
    /\ spawned = {} /\ done = {} /\ failed = {}
    /\ life = "open" /\ drained = {}

-----------------------------------------------------------------------------
(* Giving jobs to the pool, and closing it.                                *)

\* Scheduler::send on the scheduler's own thread.
Spawn(j) ==
    /\ j \notin spawned /\ life # "closed"
    /\ spawned' = spawned \cup {j}
    /\ mailbox' = Append(mailbox, Message("spawn", 0, j))
    /\ UNCHANGED <<lists, worker, start, done, failed, closing>>

\* Scheduler::send in a worker, by a job there: the blocking one, or else an
\* async one.
SpawnFrom(w, j) ==
    /\ Alive(w)
    /\ running[w] # NoJob \/ \E k \in parked[w] : ~would_block(k)
    /\ j \notin spawned
    /\ spawned' = spawned \cup {j}
    /\ outbox' = [outbox EXCEPT ![w] = Append(@, Message("spawn", 0, j))]
    /\ UNCHANGED <<lists, mailbox, inbox, running, parked, start, done, failed, closing>>

\* The on-message callback of a WorkerHandle.
Receive(w) ==
    /\ life # "closed" /\ outbox[w] # <<>>
    /\ mailbox' = Append(mailbox, Head(outbox[w]))
    /\ outbox' = [outbox EXCEPT ![w] = Tail(@)]
    /\ UNCHANGED <<lists, inbox, running, parked, start, jobs, closing>>

\* Scheduler::close sends Close after a turn of the event loop.
Close ==
    /\ life = "open"
    /\ life' = "closing"
    /\ UNCHANGED <<lists, mailbox, worker, start, jobs, drained>>

CloseSent ==
    /\ life = "closing" /\ \A i \in DOMAIN mailbox : mailbox[i].type # "close"
    /\ mailbox' = Append(mailbox, Message("close", 0, NoJob))
    /\ UNCHANGED <<lists, worker, start, jobs, closing>>

-----------------------------------------------------------------------------
(* The scheduler's loop.                                                   *)

Execute(type) ==
    /\ life # "closed" /\ mailbox # <<>> /\ Head(mailbox).type = type
    /\ mailbox' = Tail(mailbox)

\* The bug of the regression test for #355: every worker that is given a job
\* counts as idle until it says that it is busy.
PostMessage_AlwaysIdle(j) ==
    LET fresh == idle = <<>>
        w == IF fresh THEN next_id ELSE Head(idle)
        rest == IF fresh THEN <<>> ELSE Tail(idle)
    IN /\ inbox' = [inbox EXCEPT ![w] = Append(@, j)]
       /\ next_id' = IF fresh THEN next_id + 1 ELSE next_id
       /\ idle' = Append(rest, w)
       /\ UNCHANGED busy

\* post_message and next_available_worker: to the first idle worker or to a
\* new one, which then goes to the end of the list it belongs in.
PostMessage(j) ==
    LET fresh == idle = <<>>
        w == IF fresh THEN next_id ELSE Head(idle)
        rest == IF fresh THEN <<>> ELSE Tail(idle)
    IN /\ inbox' = [inbox EXCEPT ![w] = Append(@, j)]
       /\ next_id' = IF fresh THEN next_id + 1 ELSE next_id
       /\ IF would_block(j)
          THEN idle' = rest /\ busy' = Append(busy, w)
          ELSE idle' = Append(rest, w) /\ UNCHANGED busy

ExecuteSpawn ==
    /\ Execute("spawn")
    /\ PostMessage(Head(mailbox).job)
    /\ UNCHANGED <<outbox, running, parked, start, jobs, closing>>

\* The post fails: the handle that was taken off the list, or the new one, is
\* dropped, which terminates its worker and whatever was waiting on it.
ExecuteSpawnFails ==
    LET fresh == idle = <<>>
        w == IF fresh THEN next_id ELSE Head(idle)
    IN /\ Faults
       /\ Execute("spawn")
       /\ idle' = IF fresh THEN idle ELSE Tail(idle)
       /\ next_id' = IF fresh THEN next_id + 1 ELSE next_id
       /\ failed' = failed \cup {Head(mailbox).job} \cup parked[w]
                           \cup ToSet(inbox[w] \o pending[w])
       /\ inbox' = [inbox EXCEPT ![w] = <<>>]
       /\ pending' = [pending EXCEPT ![w] = <<>>]
       /\ awaited' = [awaited EXCEPT ![w] = NoJob]
       /\ parked' = [parked EXCEPT ![w] = {}]
       /\ UNCHANGED <<busy, outbox, running, phase, spawned, done, closing>>

\* move_worker: the first worker with that number goes to the end of the other
\* list.
Move(w, from, to, from1, to1) ==
    \/ w \notin ToSet(from) /\ from1 = from /\ to1 = to
    \/ \E ix \in DOMAIN from :
          /\ from[ix] = w /\ \A k \in 1..(ix - 1) : from[k] # w
          /\ from1 = RemoveAt(from, ix)
          /\ to1 = Append(to, w)

ExecuteWorkerBusy ==
    /\ Execute("busy")
    /\ Move(Head(mailbox).worker, idle, busy, idle', busy')
    /\ UNCHANGED <<next_id, worker, start, jobs, closing>>

ExecuteWorkerIdle ==
    /\ Execute("idle")
    /\ Move(Head(mailbox).worker, busy, idle, busy', idle')
    /\ UNCHANGED <<next_id, worker, start, jobs, closing>>

\* Every message left in the mailbox taken for a job.
ExecuteClose_AnyMessage ==
    /\ life # "closed" /\ mailbox # <<>> /\ Head(mailbox).type = "close"
    /\ mailbox' = <<>>
    /\ life' = "closed"
    /\ drained' = {m.job : m \in ToSet(mailbox)}
    /\ idle' = <<>> /\ busy' = <<>>
    /\ UNCHANGED <<next_id, worker, start, jobs>>

\* Close: what is in the mailbox is executed first, then the scheduler is
\* dropped and with it every worker.  A job posted by the draining is on a
\* worker that is terminated before it can look at its messages.
ExecuteClose ==
    /\ life # "closed" /\ mailbox # <<>> /\ Head(mailbox).type = "close"
    /\ mailbox' = <<>>
    /\ life' = "closed"
    /\ drained' = {m.job : m \in {n \in ToSet(mailbox) : n.type = "spawn"}}
    /\ idle' = <<>> /\ busy' = <<>>
    /\ UNCHANGED <<next_id, worker, start, jobs>>

-----------------------------------------------------------------------------
(* The start of a worker.                                                  *)

\* handleInit is done: the jobs that have arrived so far are in
\* pendingMessages and are left to its loop.
Ready(w) ==
    /\ Alive(w) /\ phase[w] = "starting"
    /\ phase' = [phase EXCEPT ![w] = "ready"]
    /\ \E n \in 0..Len(inbox[w]) :
          /\ pending' = [pending EXCEPT ![w] = SubSeq(inbox[w], 1, n)]
          /\ inbox' = [inbox EXCEPT ![w] = SubSeq(@, n + 1, Len(@))]
    /\ UNCHANGED <<lists, mailbox, outbox, running, parked, awaited, jobs, closing>>

\* handleInit fails, which is only logged: every job sent to this worker stays
\* in pendingMessages.
Break(w) ==
    /\ Faults /\ Alive(w) /\ phase[w] = "starting"
    /\ phase' = [phase EXCEPT ![w] = "broken"]
    /\ UNCHANGED <<lists, mailbox, worker, pending, awaited, jobs, closing>>

-----------------------------------------------------------------------------
(* The worker.  It looks at its messages only between blocking jobs.       *)

Free(w) == Alive(w) /\ phase[w] = "ready" /\ running[w] = NoJob

\* A blocking job: MarkBusy by BusyGuard, then the job.
Begin(w, j) ==
    /\ running' = [running EXCEPT ![w] = j]
    /\ outbox' = [outbox EXCEPT ![w] = Append(@, Message("busy", w, NoJob))]

\* ThreadPoolWorker::handle: a blocking job runs, the one of sleep_now as well; an
\* async job goes to its first await, a wasm job to the await of its trigger in
\* SpawnWasm::begin.
Handle(w, j) ==
    \/ KindOf[j] \in {"blocking", "sleep"} /\ Begin(w, j) /\ UNCHANGED parked
    \/ /\ KindOf[j] \in {"async", "wasm"}
       /\ parked' = [parked EXCEPT ![w] = @ \cup {j}]
       /\ UNCHANGED <<outbox, running>>

\* The loop over pendingMessages goes on before the next message is received.
LoopGoesOn(w) == pending[w] # <<>> /\ awaited[w] = NoJob

HandlePending(w) ==
    /\ Free(w) /\ LoopGoesOn(w)
    /\ Handle(w, Head(pending[w]))
    /\ awaited' = [awaited EXCEPT ![w] = Head(pending[w])]
    /\ pending' = [pending EXCEPT ![w] = Tail(@)]
    /\ UNCHANGED <<lists, mailbox, inbox, phase, jobs, closing>>

\* handleMessage, which does not wait for the loop.
HandleMessage(w) ==
    /\ Free(w) /\ inbox[w] # <<>> /\ ~LoopGoesOn(w)
    /\ Handle(w, Head(inbox[w]))
    /\ inbox' = [inbox EXCEPT ![w] = Tail(@)]
    /\ UNCHANGED <<lists, mailbox, start, jobs, closing>>

\* The promise of job j is settled, for which the loop may be waiting.
Settled(w, j) ==
    /\ awaited' = [awaited EXCEPT ![w] = IF @ = j THEN NoJob ELSE @]
    /\ UNCHANGED <<phase, pending>>

\* The job still waiting for a trigger that has fired.
Trigger_Again(w, j) ==
    /\ Free(w) /\ j \in parked[w] /\ KindOf[j] = "wasm"
    /\ Begin(w, j)
    /\ UNCHANGED <<lists, mailbox, inbox, parked, start, jobs, closing>>

\* The trigger fires and the wasm job runs: busy only now.
Trigger(w, j) ==
    /\ Free(w) /\ j \in parked[w] /\ KindOf[j] = "wasm"
    /\ Begin(w, j)
    /\ parked' = [parked EXCEPT ![w] = @ \ {j}]
    /\ UNCHANGED <<lists, mailbox, inbox, start, jobs, closing>>

\* The rest of an async job, when what it awaited has happened, or of sleep_now,
\* when its time is over: the worker must be back in its event loop.
Resume(w, j) ==
    /\ Free(w) /\ j \in parked[w] /\ KindOf[j] \in {"async", "sleep"}
    /\ WaitsFor[j] \subseteq done
    /\ parked' = [parked EXCEPT ![w] = @ \ {j}]
    /\ done' = done \cup {j}
    /\ Settled(w, j)
    /\ UNCHANGED <<lists, mailbox, inbox, outbox, running, spawned, failed, closing>>

\* The blocking job returns.  That of sleep_now has only spawned a local future,
\* which stays on the worker until the time is over.
Return(w) ==
    LET j == running[w] IN
    /\ Alive(w) /\ j # NoJob /\ WaitsFor[j] \subseteq done
    /\ running' = [running EXCEPT ![w] = NoJob]
    /\ IF KindOf[j] = "sleep"
       THEN parked' = [parked EXCEPT ![w] = @ \cup {j}] /\ UNCHANGED done
       ELSE done' = done \cup {j} /\ UNCHANGED parked
    /\ Settled(w, j)

\* A job that reports no end.
Finish_NoMarkIdle(w) ==
    /\ Return(w)
    /\ UNCHANGED <<lists, mailbox, inbox, outbox, spawned, failed, closing>>

\* MarkIdle by the Drop of BusyGuard, whether the job ends well or with an error:
\* to the scheduler the worker is idle, whatever is parked on it.
Finish(w) ==
    /\ Return(w)
    /\ outbox' = [outbox EXCEPT ![w] = Append(@, Message("idle", w, NoJob))]
    /\ UNCHANGED <<lists, mailbox, inbox, spawned, failed, closing>>

\* The job traps: the guard is not dropped, and the worker stays in the list
\* of busy workers.
Trap(w) ==
    /\ Faults /\ Alive(w) /\ running[w] # NoJob
    /\ failed' = failed \cup {running[w]}
    /\ running' = [running EXCEPT ![w] = NoJob]
    /\ UNCHANGED <<lists, mailbox, inbox, outbox, parked, start, spawned, done, closing>>

-----------------------------------------------------------------------------
Step(w) == \/ Ready(w) \/ HandlePending(w) \/ HandleMessage(w)
           \/ \E j \in Jobs : Trigger(w, j) \/ Resume(w, j)
           \/ Finish(w)

Loop == \/ ExecuteSpawn \/ ExecuteWorkerBusy \/ ExecuteWorkerIdle \/ ExecuteClose

Next == \/ \E j \in Jobs : Spawn(j)
        \/ \E w \in Workers, j \in Jobs : SpawnFrom(w, j)
        \/ \E w \in Workers : Receive(w) \/ Step(w) \/ Break(w) \/ Trap(w)
        \/ Close \/ CloseSent
        \/ Loop \/ ExecuteSpawnFails

Spec == Init /\ [][Next]_vars

\* Posted messages arrive, the loop goes on, a worker starts unless it breaks,
\* and a worker that is not held up by a blocking job handles its messages and
\* the awaited events it has.
FairSpec == /\ Spec
            /\ WF_vars(Loop)
            /\ \A w \in Workers : /\ WF_vars(Receive(w)) /\ WF_vars(Ready(w))
                                  /\ WF_vars(HandlePending(w)) /\ WF_vars(HandleMessage(w))
                                  /\ WF_vars(Finish(w))
            /\ \A w \in Workers, j \in Jobs : WF_vars(Trigger(w, j)) /\ WF_vars(Resume(w, j))

-----------------------------------------------------------------------------
Messages == [type : {"spawn", "busy", "idle", "close"},
             worker : Workers \cup {0}, job : Jobs \cup {NoJob}]

TypeOK ==
    /\ idle \in Seq(Workers) /\ busy \in Seq(Workers)
    /\ next_id \in 1..Cardinality(Jobs) + 1
    /\ mailbox \in Seq(Messages)
    /\ inbox \in [Workers -> Seq(Jobs)] /\ pending \in [Workers -> Seq(Jobs)]
    /\ phase \in [Workers -> {"starting", "ready", "broken"}]
    /\ awaited \in [Workers -> Jobs \cup {NoJob}]
    /\ outbox \in [Workers -> Seq(Messages)]
    /\ running \in [Workers -> Jobs \cup {NoJob}]
    /\ parked \in [Workers -> SUBSET Jobs]
    /\ spawned \subseteq Jobs /\ done \subseteq spawned /\ failed \subseteq spawned
    /\ life \in {"open", "closing", "closed"}
    /\ drained \subseteq spawned

\* How many elements of a queue are in S, and of the queues of all workers.
Found(q, S) == {i \in DOMAIN q : q[i] \in S}
Count(q, S) == Cardinality(Found(q, S))
CountAll(f, S) == Cardinality(UNION {{w} \X Found(f[w], S) : w \in Workers})

\* How often x is in a queue, and in the queues of all workers.
Times(q, x) == Count(q, {x})
TimesInAll(f, x) == CountAll(f, {x})

\* The blocking jobs that a worker has been sent and has not ended.  What is left
\* of sleep_now does not block.
Blocks == {j \in Jobs : would_block(j)}
Modules == {j \in Jobs : KindOf[j] = "wasm"}
Blocking(w) ==
    Count(pending[w], Blocks) + Count(inbox[w], Blocks) + Cardinality(parked[w] \cap Modules)
      + (IF running[w] = NoJob THEN 0 ELSE 1)

\* The news of a job's end that the scheduler has yet to hear from a worker.
IdleMessage(w) == Message("idle", w, NoJob)
IdleNews(w) == Times(outbox[w], IdleMessage(w)) + Times(mailbox, IdleMessage(w))

\* The bug of the regression test for #355: "all of those blocking tasks can
\* be sent to the same newly spawned worker".  They never are.
OneBlockingJob == \A w \in Workers : Blocking(w) <= 1

\* The lists agree with the workers, although they are kept from messages that
\* are late: a worker is in one list at most, a worker in the idle list has no
\* blocking job and no news of one on its way, and a worker in the busy list
\* has one or the other, unless its job has trapped.
ListsAreRight ==
    /\ IsInjective(idle \o busy)
    /\ \A w \in ToSet(idle) : Blocking(w) + IdleNews(w) = 0
    /\ \A w \in ToSet(busy) : \/ Blocking(w) + IdleNews(w) = 1
                              \/ Blocking(w) + IdleNews(w) = 0 /\ failed # {}

\* Where a job given to the pool can be, and how often it is there.
Given(j) == Message("spawn", 0, j)
Travelling(j) == TimesInAll(outbox, Given(j)) + Times(mailbox, Given(j))
ParkedAt(f, j) == {w \in Workers : j \in f[w]}
RunningAt(f, j) == {w \in Workers : f[w] = j}
Ended(j) == (IF j \in done THEN 1 ELSE 0) + (IF j \in failed THEN 1 ELSE 0)
Copies(j) ==
    Travelling(j) + TimesInAll(pending, j) + TimesInAll(inbox, j)
      + Cardinality(ParkedAt(parked, j)) + Cardinality(RunningAt(running, j)) + Ended(j)

\* Every job given to the pool is in one place and once: on its way to the
\* scheduler, posted to a worker, running or waiting there, finished or failed.
InOnePlace == life # "closed" => \A j \in spawned : Copies(j) = 1

\* The loop over pendingMessages of worker.js is left when one of them fails,
\* which only a blocking job can: no job is behind one and would be lost.
NoneBehind ==
    \A w \in Workers : LET q == pending[w] \o inbox[w] IN
        \A i \in DOMAIN q : would_block(q[i]) => i = Len(q)

\* The loop over pendingMessages awaits a job that waits for one behind it.
StuckAtStart(w) ==
    awaited[w] # NoJob /\ WaitsFor[awaited[w]] \cap ToSet(pending[w]) # {}

\* A worker that was idle to the scheduler runs a job that waits for what is
\* parked there: neither ever goes on.
HeldUp(w) == running[w] # NoJob /\ WaitsFor[running[w]] \cap parked[w] # {}

\* Jobs that wait for each other, blocking ones for async ones and for sleeps and
\* async ones for blocking ones, all finish unless one fails or traps, a worker is
\* stuck at its start, or a blocking job holds up what it waits for.  The last is
\* against task_dedicated, for which it "is ok for this task to block execution
\* and any async futures within its scope": post_message keeps blocking jobs from
\* each other, the bug of #355, and not from the jobs that await something.
EveryJobFinishes ==
    (spawned = Jobs /\ life = "open")
      ~> \/ done = Jobs
         \/ failed # {} \/ life # "open"
         \/ \E w \in Workers : phase[w] = "broken" \/ StuckAtStart(w) \/ HeldUp(w)

\* "Drain any remaining messages before closing to avoid leaving pending
\* SpawnBlocking callbacks unprocessed": a job found by the draining runs.
DrainedJobsRun == \A j \in Jobs : (j \in drained) ~> (j \in done)
=============================================================================

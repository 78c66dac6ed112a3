# A model of the wasmer-js SDK

TLA+ modules for the concurrent core of the SDK: the pipes that connect programs
through shared memory and their ends in forked processes, the `host_exec` protocol
between a program in a worker and its JavaScript handler on the main thread, the
scheduler of the thread pool, an instance with its standard streams and `wait()`, and
the task that keeps a network connection.
Each module is translated from the Rust source under `src/src`; `PROJECT.json`
maps every definition to its lines.

## 1. The system

The SDK runs WASIX programs in JavaScript. One thread (the main thread of the page
or of Node) holds the scheduler; programs run in workers. Everything a program does
that needs another thread is one of three things: a message through `postMessage`
(ordered per worker, received by the event loop between two tasks), a word of shared
memory with `Atomics.wait`/`notify`, or a byte in a shared ring buffer. A program
that runs is synchronous: while it runs, its worker's event loop does not.

| component | state | operations | talks to | what is hard |
|---|---|---|---|---|
| shared pipe (`pipes/mod.rs`) | header words `write_pos`, `read_pos`, `closed`, `tx_count`; the ring | `write_data`, `try_read`, `read_blocking`, `poll_*`, `close`, `Drop`, clone | both ends through shared memory only | atomics around plain accesses, stale positions, close against write, notifications without a change of the word |
| pipe pool (`pipes/pool.rs`) | one offset | `allocate_from_pool` | all workers | compare-and-exchange, exhaustion |
| fork transfer (`pipes/extract.rs`, `tasks/task_wasm.rs`) | `tx_count`, file descriptors | extract, reconnect, drop of ends | sending and receiving worker | counts that go wrong, descriptors that change on the way, several writers of one ring |
| host_exec, worker side (`runtime.rs`) | the worker's buffer (status, type, length, session), session counter | start, read, try_read, poll, write, close_stdin, signal, child_output | posts requests; waits on the status word | request posted before the status word is reset; wait without a timeout or a second look |
| host_exec, main side (`tasks/scheduler.rs`) | `PENDING_READS`, `OUTPUT_QUEUES`, `HOST_EXEC_RESULTS`, stdin, signal and child callbacks | the handler's callbacks, one message handler per request | stores answers in the worker's buffer | three paths for one stream of messages |
| scheduler and thread pool (`tasks/scheduler.rs`, `thread_pool*.rs`, `worker_handle.rs`) | lists of idle and busy workers, mailbox, worker ids | spawn jobs, busy and idle news, close | one message channel each way per worker | lists that are always out of date; jobs that wait for jobs |
| worker start-up (`src-js/worker.js`, `node.ts`) | queued messages, init state | init, handle | handle on the main thread | messages overtaking the queue; failed init |
| WASM task conversion (`task_wasm.rs`, `scheduler_message.rs`, `post_message_payload.rs`, `interop.rs`) | none of its own | serialization, `SpawnWasm::begin` | scheduler, worker | failing conversions |
| runtime (`runtime.rs`) | global runtime, options | `lazily_initialized`, setters | thread pool | none beyond the above |
| instance and streams (`instance.rs`, `streams.rs`) | captured streams, exit code | `wait`, `free`, stream pull, cancel, write, close, abort | JavaScript streams, the thread pool | joining three futures, awaits between reading a pipe and using its stream |
| command, run, options (`wasmer.rs`, `run.rs`, `options.rs`) | which streams a program gets | run, tty copy | instance | the order of the end of standard input, clones of one pipe |
| networking (`net.rs`, `ws.rs`) | back-off, current websocket, channels of 100 | connect, relay, reconnect | edge server | stale and lost reconnect requests |
| package loader (`package_loader.rs`) | download cache | load, download | HTTP | two loads of one package |
| registry (`registry/`) | none | GraphQL calls | backend | I/O only |
| subprocess output polling (`scheduler.rs`) | pipes of a subprocess | poll | main thread | never reached, see section 6 |
| file systems (`fs/directory.rs`, `vfs.ts`, `instance.rs`) | in-memory file system (of wasmer) | read, write, list, remove, rename | programs | error paths |
| `sdk-lite` | subscription of a deployment | deploy, subscribe | backend | end of a subscription |

What makes each correct:

* pipe: a byte reported as written is read exactly once and in order, plain accesses
  never meet, a reader is released by close, end-of-file comes after the last byte;
* pool: regions are disjoint and inside the pool, exhaustion is reported only when real;
* host_exec: a session delivers its handler's messages once and in order, and the exit
  code behind all that the handler produced before it was done; every waiting request gets
  its own answer; nobody waits for nothing;
* fork transfer: the count in a pipe is the number of its transmit ends; it closes the pipe
  with the last one and not before; a descriptor keeps its pipe;
* host_exec, the other way: a handler that registers in time gets all input up to its end and
  all signals once and in order; a closed input stays closed; the callbacks of a child hear
  of that child;
* scheduler: no worker has two blocking jobs, the lists agree with the workers,
  no job is lost or run twice, jobs that wait for each other finish unless one of them is
  stopped where it waits;
* instance: `wait()` returns the exit code and all output, and returns when the program
  has ended; the program sees the end of its input after the input; a pool is closed only
  when nothing runs in it and nobody waits;
* network: a closed socket is noticed and replaced, attempts are spaced out, and nothing
  panics because a message came late.

## 2. Modules

| module | what it is |
|---|---|
| `BoundedStream` | abstract: a bounded stream of numbered bytes with a writer, a reader and close |
| `SharedPipe` | one ring; each atomic and each plain access of the two ends is a step |
| `SharedPipeProofs` | proofs for every capacity |
| `PipePool`, `PipePoolProofs` | the allocator and proofs for every number of workers and pool size |
| `HostSession` | abstract: what a session promises to its program |
| `HostExec`, `HostExecProofs` | the protocol, both sides; proofs for every number of workers, sessions and messages, refinement of `HostSession` included |
| `HostControl`, `HostControlProofs` | the other direction of the protocol: input, signals, child output, registered callbacks; proofs about types, closed input, the arrival of input and of child output |
| `ForkPipes`, `ForkPipesProofs` | the transmit ends of pipes in processes and workers, and their count; proofs for every number of pipes, descriptors and messages |
| `SchedulerPool`, `SchedulerPoolProofs` | scheduler and workers, joined by their message channels; proofs for every set of jobs, of whatever kinds |
| `Streams` | the sources and sinks of the JavaScript streams, over virtual_fs pipes |
| `InstanceRun`, `InstanceRunProofs` | extends `Streams`: a program, the terminal copy and `wait()`; proofs for every amount of data |
| `NetReconnect`, `NetReconnectProofs` | the connection loop, its relay tasks, the browser's sockets; proofs for every number of sockets and messages |
| `MC*` | constants for TLC |

Compositions. `HostExec` joins worker and main thread, `SchedulerPool` the scheduler and
its workers, `InstanceRun` the streams, the event loop, the program's workers and the
user; `ForkPipes` takes the pipes of `SharedPipe` as numbers with a count and a flag.
`BoundedStream` and `HostSession` are what the layers above rely on: `HostControl` carries
the requests of a handler in a queue that is read in order, which is what `HostSession` promises.

Conventions. A definition named `Name_Variant` stands just before `Name` and is a
faulty variant of it; no specification uses it, and `PROJECT.json` ("mutants") says
which property fails when it takes the place of `Name`. A comment before each property
says what it means for the code, and quotes the code's own words where it states them.

### SharedPipe

`t` and `r` hold the program counter and the locals of the transmit and the receive
end, each used by one worker. `WriteCall` .. `TxNotify` is `write_data`, one action
per load and store: `free_space` loads both words, `write_data` loads `write_pos`
again, stores the bytes one by one (`TxStoreByte`), publishes the position and
notifies. `TxClose` is `close` by `poll_shutdown` or by the drop of the last end.
`ReadCall` .. `RxPublish` is `try_read` as `read_blocking` ("blocking"), `poll_read`
("poll") and `poll_read_ready` ("ready") call it. The word that `Atomics.wait` looks at
never changes, so a notification between the last look at the ring and the wait is
lost; `RxTimeout` is the timeout of the wait.

Bytes carry their number in the stream, so a cell shows which byte it holds.
Several transmit ends (after a fork) and `tx_count` are in `ForkPipes`; the exclusive lock
of the file around the ends is outside this repository.

### PipePool

`Allocate`, `LoadOffset`, `Claim`, `Retry` are the call, the load and the check, and
the two outcomes of the compare-and-exchange. Offsets are natural numbers: the code's
`checked_add` turns an overflow into the same `None` as a request that does not fit.

### HostExec

`worker[w].pc` is the place of a program in a request: "run" outside of any, then
"reset", "wait", "blocked" and "load". `view[w]` is its buffer: the status word, the
message (type, length and bytes in one) and the session. A request is a message in
`wire[w]` until the event loop receives it (`Deliver`) into the `mailbox`.
The main thread executes one message or one callback at a time; storing an answer is
three steps (`StoreBody`, `StoreStatus`, `Notify`), since the worker runs meanwhile.
`OnOutput` is onStdout and onStderr, `OnSpawn` the four callbacks that put their
message in the queue and then hand the head of the queue to a pending read.
`Settle` is the end of the promise, and the end of nothing else: the callbacks do not look at
it, so a handler may `Produce` before and after. `due` is what it had produced when the promise
settled. Later output is queued, or handed to a pending read, and a program reads it before or after the
exit code; the exit code stays in `HOST_EXEC_RESULTS`, and can be read a second time when the first
reading was a pending one (`exits`). `HostSession` permits this and no more: no message is lost,
repeated or out of order, none of those that were due is read after the exit code,
and no exit code is read a third time. `ExecuteStart` has the three outcomes of a start:
a promise, a value that is not a promise, and a failure.

Nothing in the code makes an answer wait until its worker is in `Atomics.wait`. The
variable `early` remembers that some status was stored before its worker was there.
As long as that has not happened, the protocol keeps its promise (`OneAnswer`,
`AnswerIsMine`, `SessionSpec`); once it has, an answer may be erased by the reset of
the status word (`HostExecLost`) or its late notification may wake the next request, which
then takes the words of the answer before. `PendingMeansEmpty` holds in either case.

Not in this module: the bytes of a message (cut at 64 KiB), the width of the session
number in the buffer (32 bits), output of a handler before it throws synchronously, and
sessions that are read by two workers.

### HostControl

What programs send is posted and not answered: `Write`, `CloseStdin`, `Kill`, by any thread
that knows the session, and `ChildOutput`, by any thread for a child that `ReadRequest` has
made known. `sent` and `child[c].said` remember what was sent, `got` and `heard` what the
handler's functions were called with; each call of `setStdinWriter` has a number, which tells
one writer from the next. `calling` is the session whose handler is being called: its setters
may be called inside that call (`inCall` remembers those), later, or never, also after
its promise has settled or its call has failed, as the code removes nothing then.
`ControlArrives` says for whom the code is reliable: a handler that registers inside its
call, and the thread that started the session. Another thread may overtake the start. Nothing stops a
program from writing or closing after a close, so `Send` does not either: what was sent behind the first end
of input finds no writer, unless the handler has set another, and is not promised to arrive. The ends have
numbers of their own (`Closing`), as the writes have.
A function of the handler runs while the table it is in is borrowed. If it calls a callback that stores into that
same table, this one panics before it has changed anything, which is no
step of the model; one that stores into another table works, and is the step that follows the message.
What is said of a child is numbered, where the code has bytes or an exit code, so that a doubled or
swapped output would show. `children` has one key space for sessions and children, as `CHILD_OUTPUT_HANDLERS` has:
`ChildHears` and `ExitHeard` hold until `setChildOutputHandlers` is called by a session with
the number of the child. JavaScript chooses the numbers of children; that it uses
each once is the environment's part.

### ForkPipes

`count` and `closed` are words of a pipe's header; `object[i]` the pipe of the `SharedPipeTx` in inode
`i`, `table[p]` the descriptors of process `p`. `CreatePipe` is `Runtime::create_pipe` under a new
descriptor. The three messages with a `SpawnWasm` (`Fork`, `SpawnThread`, `Suspend`) go through
`to_scheduler_message`, which notes the pipe of each descriptor; `Receive` and `Reconnect` are
`reconnect_fork_pipes` and `reconnect_pipe_buffers`, one descriptor at a time: the new object counts itself,
takes the place of the old one, and the old one is dropped (`Sub`, `Shut`: two accesses of the header) while
the inode is locked. `Lose` and `ExecuteFails` are messages and instances that fail. `Shutdown` is
`poll_shutdown`, which closes the pipe and leaves the count as it is; `shutdown` remembers the pipes it was done to.

Taken from wasmer-wasix (external): a fork copies the table and shares the inodes, threads
of a process share the table, an inode goes with its last descriptor and its object with it, a table with
its last thread. `extract_pipe_buffers` holds the read lock of the table from its first to its last
descriptor, so it is one step. Receive ends are not counted and their `Drop` is empty: they are left out.
`crossed` remembers that a reconnect put a pipe in the place of another one (`ForkPipesThread`); `NotCutOff`
is about behaviours without that, `CountIsEnds` and `EofComes` about all. `NotCutOff` is about the count: a pipe
that is closed while it has an end was shut down.

### SchedulerPool

`idle` and `busy` are the scheduler's lists, kept from what it told workers and
what it last heard. `inbox[w]` and `outbox[w]` are the two message channels of a
worker. `running[w]` is the blocking job that holds up the worker's event loop,
`parked[w]` the jobs that await something there: an async job after its first await,
a wasm job whose trigger has not fired or what `sleep_now` leaves. Kinds of jobs are `SpawnAsync` ("async"),
`SpawnBlocking` and `SpawnWithModule` ("blocking"), `SpawnWithModuleAndMemory`
("wasm") and the job of `sleep_now` ("sleep"), which is blocking to the scheduler, spawns a local
future and returns (`Return`): the worker says that it is idle with the future parked on it, and the sleep is
over when its time has come and the worker is in its event loop (`Resume`).
`WaitsFor` makes a job end only after others, as programs that join threads
or read pipes do. With `Faults`, a job may trap (its `BusyGuard` is not dropped) and
a post may fail (the worker taken off the list is terminated). There are as many
workers as jobs because each worker is started for a job. `Close` and `CloseSent`
are `Scheduler::close` and the timeout in it; `ExecuteClose` is the draining and the end
of the loop, after which every worker is gone.

A worker starts in `phase` "starting". `Ready` is the end of `handleInit` in worker.js:
whatever part of the inbox has arrived by then is `pendingMessages`, and its loop awaits
each job to its end (`awaited`), while `HandleMessage` handles later messages at once.
`Break` is a failing init, which is only logged. The loop is left when a job in it fails, and drops what is
behind; that needs no action, because only a blocking job can fail and nothing is ever behind one (`NoneBehind`).

`EveryJobFinishes` promises that all jobs finish, up to a failed job, a broken worker and two ways to wait
for ever, which the property names. `StuckAtStart`: the loop awaits an async job that waits
for a job behind it. `HeldUp`: a blocking job waits for what is parked on its own
worker, as `post_message` gives blocking jobs to workers that are idle and does not ask what is parked there
(`scheduler.rs:813`). The waits of the run are transitive, so both conditions see what a job waits for in the end.

Not in this module: `CacheModule`, the queue of node.ts, payloads.

### Streams and InstanceRun

`sink` is the WritableStream of standard input with the queue the browser keeps in front of
`SinkWrite` and `SinkClose`; `inp` is the pipe behind it, `tty` the one behind the terminal (or
the bytes that were given as standard input). `srcs[s]` is the ReadableStream of an output, with the
queue that `pull()` fills from the pipe `outs[s]`. `outs[s].ends` are the clones of the writing end: the
program's, the terminal's (its echo) and a child's. `PullData` is a call of `pull()` up to the end of its
await: the room can only grow meanwhile, so it takes any number of bytes up to the room there is.

`InstanceRun` starts with `Command.run`, with or without bytes for standard input, or with `runWasix` (`mode`); a
command without bytes has a terminal. `copier` is `copy_stdin_to_tty`; its guard is
`StopCopying`. `prog` and `child` run on workers of the pool and write, read and end as they like; a
program that traps is one that does nothing more. `JobDropped` is a job whose post fails. `Wait` to
`JoinFails` are `Instance::wait`: closing standard input (`StdinTypeError`: a stream that the user has aborted with
a `TypeError` passes for one that is closed), reading both outputs unless the user has locked
them (`mine`), joining them with the exit code. `Drop` is an Instance
that is freed instead. `trouble` remembers the disturbances of a behaviour: abort, cancel, a reader of the
user, a read that fails.

`configure_builder` gives the streams of `runWasix` to a `WasiEnvBuilder` that `run_wasix_inner` drops when it returns:
their outputs have ended and nobody reads standard input. The program has streams of its runner's own, of which the
model says only that it writes there (`elsewhere`).

`held` are the owners of the pool: `with_task_manager` puts an `Arc` of it into the runtime, which the job owns, so
the Instance (or its `wait()`) is one of up to three. `Return` and `Drop` give up the Instance's, the
end of the program that of the job, and the end of a child its own. The last one closes the pool: what runs
is not stopped by a `wait()` that fails or an Instance that is freed. That `run_command` and `run_wasm` have let go of their runtime when they
return, and that a child has one as long as it runs, is taken from wasmer-wasix (external).

Whether `Pipe::close` on one clone ends the pipe for all of them belongs to virtual_fs. The test at
`streams.rs:299` expects that it does, the FIXME at `wasmer.rs:423` doubts it: `shared` is either, for a
whole behaviour, and every property holds with both.

### NetReconnect

`loop` is the task of `connect_networking`, `task[k]` the relay task of socket `k`, `connected[k]` and
`relay[k]` the unbounded channels of its callbacks, `sendq` and `recvq` the channels of 100 to and from
the client. A socket that the loop gives up is never closed by it: it goes on receiving, and its relay
task goes on relaying. `SocketMessage` panics when the receiver of its channel has gone (`unwrap`), which is
noted in `panicked`. `spoiled` are sockets with an empty or unreadable message, `unheard` those whose one
`Reconnect` met a full channel: the two exceptions that `NoPanic` and `Reconnects` name.

## 3. Runs

| run | instance | shows |
|---|---|---|
| `SharedPipe` | ring of 3 cells (holds 2 bytes), calls of 1 to 3 bytes, 4 bytes, all read modes, with fairness | safety, refinement of `BoundedStream`, the inductive invariant, both liveness properties |
| `SharedPipeEof` | 3 bytes, blocking reads | a false end-of-file |
| `PipePool` | 3 workers, sizes of the configuration | exclusive regions, honest exhaustion |
| `HostExec` | 1 worker, 2 sessions of 2 messages, produced before or after the promise settles, all requests, with fairness, up to the first early answer | types, one answer, the right answer, refinement of `HostSession`, no overtaking, waiting ends |
| `HostExecLost` | 1 session of 1 message, reads | a wait without an answer to come |
| `HostControl` | 2 threads, 1 session, 2 children, 4 messages in any order, 2 calls of callbacks, in three sets of operations, with fairness | arrival once and in order, a closed input, the callbacks of a child |
| `SchedulerPool` | an async job, a wasm job that waits for it, a sleep that both wait for, with faults and close, with fairness | one blocking job and nothing behind it, right lists, no lost job, all finish unless stuck at the start or held up |
| `SchedulerPoolDrain` | 2 blocking jobs | a drained job that never runs |
| `InstanceRun` | 1 program and 1 child, 1 chunk in, 2 out, queues of 2, one disturbance, all ways to start, with fairness | output of a command complete and in order, none of `runWasix`, end of input, the pool closed last, `wait()` returns |
| `NetReconnect` | 2 sockets, 1 request, 3 messages, channels of 1, with fairness | back-off, no panic, a closed socket noticed |
| `ForkPipes` | 2 pipes, 2 descriptors for each of up to 3 processes, 2 messages, with fairness | the count, no pipe cut off by it, end-of-file in the end, the inductive invariant |
| `ForkPipesThread` | 2 pipes, 1 message | a descriptor that is given another pipe |

Why the bounds are enough to see the interesting cases. A ring of three cells is the
smallest in which empty, partly full and full differ, and four bytes wrap both
positions and split a transfer in two chunks. Three workers and room for two to four
regions let two retries chain and the pool fill up both exactly and with a rest. Two
messages and an exit code are enough for each path past the queue to overtake another,
and two sessions for an answer to meet another session's request; of two messages one can be produced
before and one after the promise settles, and one can be late while the other waits in the queue. Three jobs are
the smallest number in which a job waits for two others on the way to one worker; the chosen three have
each kind of wait in them: a job that blocks for an async one and for a sleep, and an async one for a job that blocks.
A "blocking" job is a wasm job without a trigger, and run `SchedulerPoolDrain` has two. Four jobs
take longer than a run should.
In `HostControl`, two threads and two children are what it takes for messages to overtake each
other and for callbacks to meet; input and child output, which `Uses` keeps apart, do not touch the same tables.
In `InstanceRun`, two bytes out can be split over two outputs, two writers or two calls of `pull()`;
a second disturbance is the same code again. In `NetReconnect` the first socket's task and
messages live beside the second, one request fills the channel, and `OpenFails`, which is
not bounded, takes the back-off to its limit. In `ForkPipes`, a second pipe is needed to reuse a
descriptor, and two messages for a process with two threads to fork or for two copies of a table.

The bounds: `MaxBytes` (bytes tried), `MaxOutput` (messages of a handler), `Jobs`
(and with it workers), `MaxPosted`, `MaxCalls` and `Uses` (`HostControl`), `MaxIn`, `MaxOut`,
`MaxTrouble`, `Touched` (the output that is disturbed: the code treats both alike) and `Results`
(`InstanceRun`), `MaxSockets`, `MaxRequests`, `MaxMessages` (`NetReconnect`), `Pipes`, `Fds`,
`Messages` (`ForkPipes`); the constraint `UntilEarly` of run `HostExec`. That
constraint hides nothing that is claimed: every property there is about the time before an early answer,
but for `TypeOK` and `PendingMeansEmpty`, which are proved without it.

`CHECK_DEADLOCK FALSE` in the host_exec runs: a program may wait for a handler that
never settles. In the pool runs: the pool stops after close, and when all jobs are
done. In the others: a program, a user or a network may do nothing more, and bounds are reached.
In the pipe and pool allocator runs a state without successor would be an error,
unless their cfg says otherwise for the same reason: the writer's bound is reached and
the end is dropped.

### Fairness

* `SharedPipe`: weak fairness of each end's internal steps (a worker that has entered
  a call goes on, and `Atomics.wait` has a timeout), strong fairness of the blocking
  read: its caller calls again and again, whatever is polled in between. That is what the loop of `read_blocking` and of the `Read` of this end is for, which
  no other code of this repository calls; `poll_read` gives up after ten seconds without a waker (`RxGiveUp`), so that
  `CloseEndsReads` and `Delivered` say of it only: if it is polled again, it gets what is there. No
  fairness of the writer's calls, of close, or of `RxGiveUp`.
* `HostExec`: workers run, posted messages arrive and the main thread goes through its
  mailbox. That the handler settles is assumed of the handler (weak fairness of `Settle`);
  that it produces anything is not.
* `HostControl`: posted messages arrive, the main thread executes them, a call of a handler
  returns. Nothing is assumed of programs, nor of what handlers register.
* `InstanceRun`: the event loop does not stop (one of its tasks moves while one can), and a
  program that has ended hands on its result. Nothing is assumed of the program, its child or
  the user.
* `NetReconnect`: tasks that can run are polled, and the client takes what it is sent. No
  fairness of the network.
* `ForkPipes`: a `Drop` that has begun is finished. Nothing else.
* `SchedulerPool`: the loop, the channels, and each worker's start and steps. Nothing is
  assumed of spawning, of closing, of traps, of failing posts or of a failing init.

## 4. Proofs

Proved with TLAPS for every value of the constants that satisfies the named `ASSUME`s.

* `SharedPipeProofs`. The inductive invariant `IInv` adds to the types and to
  `RingHoldsTheRest` what each end may rely on at each of its steps while the other end
  moves. `TxInv`: the room computed from an old `read_pos` is still there, because only
  the writer adds bytes and the reader only removes some; `RxInv`: the bytes found from
  an old `write_pos` are still there, for the symmetric reason. Lemmas about `Advance`,
  `Cell`, `free_space` and `data_available` come first; then one lemma per group of
  steps; then `TypeCorrect`, `ReliableInOrder`, `Disjoint` (no cell is accessed by both
  ends at once), `LateEof` and `Refinement` (the ring implements `BoundedStream`: a write
  takes effect at the store of `write_pos`, a read at the store of `read_pos`).
* `PipePoolProofs`. `IInv`: the offset is behind every region and directly behind one
  of them (or at the header), and a worker about to claim has an offset and a size that
  fit. From it `RegionsAreExclusive` and `FailsOnlyWhenFull`.
* `HostExecProofs`. `TypeCorrect`, and with it `NothingIsOvertaken`: a pending read means
  an empty queue and no exit code, which is inductive given the types. These two hold whenever
  the answers come; the rest of `IInv`, `InOrder`, as long as none has come early.
  `OneRequest`: the requests on their way, the pending reads and the answers for a worker are one
  together while it waits, and none otherwise; this is a sum over two queues and a table, and says
  where the one request of a worker is. `Mine`: whatever is on its way for a worker names the session
  and the operation that the worker waits with. `Stored`: the words of an answer are in the buffer
  before its status word, and fit the request. `StartedOnce`: one message at most starts a session,
  without which a second handler would number its messages from the beginning. `Ordered`: the
  messages of a handler are read, given to a read, or queued, in this order and without a gap, and all that
  were due were read once the exit code is given; it was read at most once while it is still there to be read again. Lemmas about counting in queues (`CountAppend` and its
  like) and about the set of what is in a queue come first, then one lemma per action and part.
  From it `OneAnswerUnderWay`, `AnswerToMine`, and `KeepsPromise`: the protocol implements
  `HostSession`, where only the load of an answer that holds a message or an exit code is a
  read, and every other step of the protocol is a step of the handler or a stutter.
* `SchedulerPoolProofs`. `IInv` relates what the scheduler believes of a worker to what the worker
  does and to the news between them. `LoadIsRight`: blocking jobs of a worker and its idle news that was not heard
  are one together at most, none if the worker is in the idle list, and one if it is in the busy list (unless a job
  failed). `NewsInOrder`: a worker's busy news comes before its idle news, and an idle worker has no busy news on its
  way, without which late news would move a worker back. `Unborn`, with `Created`: a worker that was not
  created has nothing and has said nothing, and no more were created than jobs arrived, so the number of workers
  is never exceeded. `EachOnce`: a job is counted once over all queues, workers and results, and not at all before
  it was spawned; `Closed`: nothing is posted from the lists of a closed pool. The proof rests on lemmas about how `Append`, `Tail`,
  `RemoveAt` and concatenation change `Count`, and about sums over all workers of which one changes.
  What is left of a sleep counts for nothing in `LoadIsRight`, as it does for the scheduler.
  From it `TypeCorrect`, `NeverTwoBlockingJobs`, `ListsRight` and `NoJobIsLost`, and, as a worker with a blocking
  job in a queue is not in the idle list, `NothingIsBehind`.
* `ForkPipesProofs`. `IInv` is `CountIsEnds` with the types, that nothing names a pipe which
  is not made yet (or its first count would be wrong), and that a pipe which the count has closed or
  is about to close has no end left, unless it was shut down: between counting down and closing no end can appear, because a
  reconnect makes an end only of a pipe whose old object it replaces, unless `crossed`. Lemmas say
  what a step that adds, removes or replaces one end does to the two sets that are counted.
  From it `CountIsRight` and `NoPipeIsCutOff`.

* `InstanceRunProofs`. `IInv` has four parts. `NothingLost` with `StreamEnds` (an output stream
  that is closing has an ended, empty pipe behind it): lemma `Moves` says that every step
  of the model either lets go of ends of the outputs, or writes, pulls, reads or cancels one of them, and
  each of these keeps the concatenation of what was got, queued and piped. `InputEnds`: each place that standard input
  passes (stream, pipe, terminal) ends only behind the one before it, which a wrong order of close and copy would break.
  `Passing`: what was read and what the places hold is all that was given, while the program can read it.
  `Outcome`: the exit condition tells the truth, `wait()` succeeds only with outputs that are done, an owner of the
  pool is there as long as what it stands for (`Holders`), and nothing came through the streams of `runWasix` (`NoneGiven`).
  From it all five invariants of the run.
* `HostControlProofs`. `IInv`: every call of `setStdinWriter` is newer than all that was called, and the writer in the table
  is not one whose closer was called. From it `InputStaysClosed`. `TInv` adds the types with what they rest on: a child that was
  asked for has a session, messages about children name one, and (`CalledOnce`) one message at most starts a session, which is on the
  wire of its owner or in the mailbox only as long as the handler was not called. Without that last part a second start could refuse a
  session whose handler has called its callbacks already. From it `TypeCorrect`. `CInv` adds where the input of a session is:
  items carry numbers of their own (`NoneSent`, lemma `Numbering`), only what was sent arrives (`Origin`), and of a session to which its owner alone
  sends each item up to the first end of input has been called, waits in the mailbox or on the wire of the owner, or had no function in time (`NothingLost`), in
  the order of sending across the three places (`InLine`). `Awaits` is what keeps it: until the handler is called, the message that starts it is in
  front of all its input, so that a function registered in the call is there for the first byte; and `Registered`: such a
  writer stays until it was closed. From it `InputArrives`. `HInv` does the same for the output of children: nothing is said of a
  child that was not started (`Told`), callbacks given for a child stay under its own number (`OwnKeys`), what they were called with was said of
  this child (`HearsOwn`), and what each thread said was heard, waits in the mailbox or is on the wire of that thread (`Marked`), in order (`Hears`).
  When the callbacks are stored, nothing was said or heard yet: that is why they miss nothing. The lemmas `Flows...` say once for all what
  posting, delivering, receiving and hearing do to the three places. From it `ChildIsHeard`.
* `NetReconnectProofs`. `NextWait`, inductive by itself: the next wait is what the last wait and the connections since
  prescribe; from it `BackoffIsRight`. `IInv`: only a socket that has closed says so, a relay task has ended for a reason
  that excludes a later callback, and sockets not opened yet are unused; from it `NothingPanics`. `TypeCorrect` adds that
  the loop waits for the last socket only (`Wired`) and that the `Reconnect`s in the channel are no more than the relay
  tasks that have ended (`FewReconnects`), since a task sends one, at its end.

Every invariant that a passing run checks is a theorem. Only model-checked: everything about time
(liveness under fairness is out of the prover's reach). The properties of the runs that end with a counterexample are of course not theorems.

## 5. What the code does and its comments do not say

Each of these is a run that ends with a counterexample, except the last ones.

* `SharedPipeEof`: `try_read` finds the ring empty from words loaded before the last
  write and then sees the closed flag set after it: end-of-file with bytes left. A read that
  is called after the close is right (`LateEofIsFinal`).
* `HostExecLost`: the status word is reset after the request was posted, so an answer in
  between is erased and the worker waits without a timeout.
* `SchedulerPoolDrain`: the jobs drained at Close are posted to workers that are
  terminated in the same turn of the event loop.
* `ForkPipesThread`: a descriptor that was closed and reused while its thread was on the way
  gets its old pipe back, and the new pipe loses a transmit end.

Seen while modelling, without a run. The models have these behaviours; the properties name them or say
nothing of them.

* `ForkPipes`: `poll_shutdown` (`pipes/mod.rs:637`) closes a pipe for every process that has an end of it, where
  the comment on the count says "Only close when this reaches 0." (`pipes/mod.rs:65`).
* `InstanceRun`: the builder with the streams of `runWasix` is dropped (`run.rs:45`), so `wait()` succeeds with
  empty outputs and standard input is never read: "The WASI program's standard output." (`instance.rs:21`) is empty for it,
  and the test that says `expect(output.stdout).to.contain("Hello, World!")` (`tests/run.test.ts:67`) expects more than the code gives.
* `InstanceRun`: "When dropped, the pool's scheduler is closed and workers are terminated." (`instance.rs:32`)
  leaves out the `Arc` in the runtime (`runtime.rs:120`) that the job owns (`wasmer.rs:257`, `run.rs:60`): an Instance that is
  freed, or a `wait()` that fails, leaves the program running.
* `HostExec`: output of a handler after its promise has settled is read before or after the exit code, where
  `js_runtime.rs:188` says "The streams are automatically closed when the Promise resolves."; an exit code that was given
  to a pending read is given again to the next one (`scheduler.rs:427`).
* `HostExec`: the late notification of an answer can wake the next request, which returns the same
  message again; `host_exec_try_read` takes every status but 2 for data (`runtime.rs:576`). A handler may
  return a number by its type (`js_runtime.rs:190`), which the scheduler refuses (`scheduler.rs:411`) while
  the worker ignores the refusal.
* `HostControl`: `setChildOutputHandlers` stores under the session number what is looked up by the number of a
  child (`scheduler.rs:608`), so callbacks of a session can take the place of those of a child: `ChildHears` and
  `ExitHeard` are about children whose own callbacks are in the table. A thread that did not start a session can overtake its
  start. A function of a handler that calls, while it is being called, a callback that stores into its own table
  (`scheduler.rs:520` and 535 against 979, 587 against 989, 608 against 1024 and 1191) meets a `RefCell` that is borrowed, and panics.
* `SchedulerPool`: an async job, or the rest of a `sleep_now` (`thread_pool.rs:87`), on a worker that is given a blocking job
  which waits for it never goes on (`HeldUp`), where the comments call it ok to block (`thread_pool.rs:121`, and 113 alike: "It is ok for
  this task to block execution and any async futures within its scope"); the loop over `pendingMessages` awaits each job (`worker.js:44`) and is
  stuck when that job waits for one behind it (`StuckAtStart`); `Scheduler::close` waits for one `setTimeout(0)`
  (`scheduler.rs:216`), which does not order it after messages other threads have posted.
* `SharedPipe`: nothing in this repository keeps two transmit ends on different workers from writing at once
  (`pipes/mod.rs:351`); a `poll_read` that has waited ten seconds returns `Pending` and has stored no waker (`pipes/mod.rs:574`).
* `PipePool`: an allocation that fails, because the pool is full, is a panic in `with_capacity` of the caller; `NoneIsFull` says when,
  not what follows.
* `NetReconnect`: a socket that is given up is not closed, and when it closes later its `Reconnect` drops a healthy
  connection; a `Reconnect` that meets a full channel is lost, and the loop keeps a dead socket until a
  send fails (`Reconnects` exempts it); an unreadable or empty message ends the relay task and the next message panics, as one does
  when the client has gone (`NoPanic` exempts both); the loop outlives the client, as it holds a sender of its own.

## 6. Not modelled

* The file systems (`fs/directory.rs`, `vfs.ts`, the `vfs*` methods of `instance.rs`): each operation is a
  call, or a few calls with nothing in between, of the in-memory file system of wasmer. A model would be one of
  that library.
* The package loader and the registry: HTTP and GraphQL. The one piece of state, the cache, is looked up before and
  saved to after an await; two loads at once fetch and save the same bytes twice.
* `sdk-lite`: a client of the backend.
* Subprocess output polling, `SharedStdioPipes` and `SharedPipe::from_pool_offset`: `subprocess_stdio` is always
  `None` (`task_wasm.rs:132`), so no behaviour of the program gets there.
* Conversions (`interop.rs`, most of `scheduler_message.rs` and `post_message_payload.rs`, parsing of options):
  their failures are the failing posts, starts and instances of the models.
* `CacheModule`: nothing in a worker uses what it announces.
* The queue of node.ts in front of a worker thread that is being created: it keeps the order of messages, and a
  worker whose creation fails is one that never gets ready.
* Logging, generated bindings, examples, tests.
* Lengths and contents of messages, bytes of files, widths of numbers other than ring positions.

## 7. What could follow

* Two transmit ends in `SharedPipe`, with the lock of the file that wasmer-wasix puts around each of them.

----------------------------- MODULE InstanceRun -----------------------------
(***************************************************************************)
(* One Instance: a program started by Command.run (src/wasmer.rs) or       *)
(* runWasix (src/run.rs) on a thread pool of its own, its standard         *)
(* streams, the copy between standard input and the terminal, and          *)
(* Instance.wait() (src/instance.rs).                                      *)
(*                                                                         *)
(* The program, its child, the event loop of JavaScript and the user act   *)
(* in any order.  The program writes, reads and ends as it likes.          *)
(*                                                                         *)
(* A command has the streams that configure_runner gives to the runner.    *)
(* Those of runWasix go to a WasiEnvBuilder that no runner ever sees: the  *)
(* program has other streams, which nobody outside it reads or writes.     *)
(***************************************************************************)
EXTENDS Streams

CONSTANT Results   \* what run_command may return

ASSUME ResultsAssumption == Results \subseteq {"Ok", "Exit7", "Failed"}

VARIABLES
    mode,      \* a command on a terminal or on given bytes, or runWasix:
               \* "terminal", "bytes", "wasix"
    elsewhere, \* how much a runWasix program has written to streams of its own
    tty,       \* stdin_pipe, behind the terminal (or the bytes that were given)
    copier,    \* copy_stdin_to_tty: off, reading, done
    prog,      \* the program: its state, and the result of run_command
    child,     \* a process of the program, on another worker of the pool
    read,      \* what the program has read
    eof,       \* the program has seen the end of standard input
    exit,      \* the oneshot channel of the exit condition
    wait,      \* where wait() is
    mine,      \* the outputs that wait() reads itself
    code,      \* the exit code that wait() has returned
    held       \* who holds an Arc of the thread pool, which its last owner closes

progVars == <<prog, child, read, eof, exit>>
waitVars == <<wait, mine, code, held>>
runVars == <<mode, elsewhere, tty, copier, progVars, waitVars>>
vars == <<streamVars, runVars>>

\* The exit code reported as that of a signal is.
from_result_Signal(result) ==
    CASE result = "Ok" -> 0 [] result = "Exit7" -> 128 + 7 [] OTHER -> 1

\* ExitCondition::from_result.
from_result(result) == CASE result = "Ok" -> 0 [] result = "Exit7" -> 7 [] OTHER -> 1

-----------------------------------------------------------------------------
(* Starting.                                                               *)

\* setup_tty without stdin bytes: user -> u_stdin_rx, copied to the terminal,
\* which writes to stdin_pipe and echoes to a clone of stdout_pipe.
setup_tty ==
    /\ sink = input_pipe /\ inp = Pipe /\ tty = Pipe
    /\ copier = "reading"

\* setup_tty with stdin bytes, which become a StaticFile.
static_stdin ==
    /\ sink = NoStdin /\ inp = Pipe
    /\ tty = [Pipe EXCEPT !.data = UpTo(MaxIn), !.ended = TRUE]
    /\ copier = "off"

\* configure_runner: the streams of a command.
configure_runner ==
    \/ /\ mode = "terminal" /\ setup_tty
       /\ outs = [stdout |-> output_pipe({"prog", "tty"}), stderr |-> output_pipe({"prog"})]
    \/ /\ mode = "bytes" /\ static_stdin
       /\ outs = [s \in Outputs |-> output_pipe({"prog"})]

\* The job that runs the program has been sent to a new thread pool.  The runtime
\* in the job has the pool for its task manager.
task_dedicated ==
    /\ prog = [state |-> "queued", result |-> "Ok"]
    /\ exit = [state |-> "pending", code |-> 0]
    /\ held = {"instance", "job"}

\* Command::run.
run == configure_runner /\ task_dedicated

\* configure_builder: the builder of runWasix gets the pipe behind standard input, or
\* the bytes given for it, and an end of the pipe of each output.
configure_builder ==
    [stdin |-> Pipe, outputs |-> [s \in Outputs |-> output_pipe({"builder"})]]

\* runWasix: the builder is dropped on return, and with it all that it was given.
run_wasix_inner ==
    /\ mode = "wasix" /\ sink \in {input_pipe, NoStdin} /\ copier = "off"
    /\ inp = [configure_builder.stdin EXCEPT !.gone = TRUE]
    /\ outs = [s \in Outputs |-> DropEnd(configure_builder.outputs[s], "builder")]
    /\ tty = [Pipe EXCEPT !.gone = TRUE]
    /\ task_dedicated

Init ==
    /\ shared \in BOOLEAN /\ trouble = {}
    /\ run \/ run_wasix_inner
    /\ srcs = [s \in Outputs |-> ReadableStream]
    /\ got = [s \in Outputs |-> <<>>]
    /\ child = "none" /\ read = <<>> /\ eof = FALSE /\ elsewhere = 0
    /\ wait = "none" /\ mine = {} /\ code = 0

-----------------------------------------------------------------------------
(* copy_stdin_to_tty, on the event loop.                                   *)

\* One read of the loop, and tty.on_event with it: what was read goes to the
\* program, and back as an echo if the terminal is set to it.
CopyData ==
    /\ copier = "reading" /\ inp.data # <<>>
    /\ inp' = [inp EXCEPT !.data = <<>>]
    /\ tty' = [tty EXCEPT !.data = IF tty.gone THEN @ ELSE @ \o inp.data]
    /\ UNCHANGED outs \/ Accept("stdout")
    /\ UNCHANGED <<shared, sink, srcs, got, trouble, mode, elsewhere, copier, progVars,
                   waitVars>>

\* The terminal outlives the loop, and with it its end of stdout_pipe.
StopCopying_KeepsTty ==
    /\ copier' = "done"
    /\ inp' = [inp EXCEPT !.gone = TRUE]
    /\ tty' = [tty EXCEPT !.ended = TRUE]
    /\ UNCHANGED <<shared, sink, outs, srcs, got, mode, elsewhere, progVars, waitVars>>

\* The loop ends: the guard closes stdin_pipe, and the terminal is dropped
\* with its ends of stdin_pipe and stdout_pipe.
StopCopying ==
    /\ copier' = "done"
    /\ inp' = [inp EXCEPT !.gone = TRUE]
    /\ tty' = [tty EXCEPT !.ended = TRUE]
    /\ outs' = [outs EXCEPT !["stdout"] = DropEnd(@, "tty")]
    /\ UNCHANGED <<shared, sink, srcs, got, mode, elsewhere, progVars, waitVars>>

CopyEof ==
    /\ copier = "reading" /\ inp.data = <<>> /\ inp.ended
    /\ StopCopying
    /\ UNCHANGED trouble

CopyError ==
    /\ copier = "reading"
    /\ Disturb("fault")
    /\ StopCopying

-----------------------------------------------------------------------------
(* The program, on the workers of its pool.                                *)

\* The workers run until the pool is closed, which happens when its last owner goes.
Open == held # {}

Begin ==
    /\ prog.state = "queued" /\ Open
    /\ prog' = [prog EXCEPT !.state = "running"]
    /\ UNCHANGED <<streamVars, mode, elsewhere, tty, copier, child, read, eof, exit,
                   waitVars>>

Running == prog.state = "running" /\ Open
ChildRuns == child = "running" /\ Open

Write(s, e) ==
    /\ e \in outs[s].ends
    /\ Accept(s)
    /\ UNCHANGED <<shared, sink, inp, srcs, got, trouble, runVars>>

ProgWrites == Running /\ \E s \in Outputs : Write(s, "prog")
ChildWrites == ChildRuns /\ Write("stdout", "child")

\* A runWasix program or its child writes to what it has for standard output.
WritesElsewhere ==
    /\ mode = "wasix" /\ (Running \/ ChildRuns)
    /\ elsewhere < MaxOut
    /\ elsewhere' = elsewhere + 1
    /\ UNCHANGED <<streamVars, mode, tty, copier, progVars, waitVars>>

ProgReads ==
    /\ Running /\ tty.data # <<>>
    /\ read' = Append(read, Head(tty.data))
    /\ tty' = [tty EXCEPT !.data = Tail(@)]
    /\ UNCHANGED <<streamVars, mode, elsewhere, copier, prog, child, eof, exit, waitVars>>

ProgSeesEof ==
    /\ Running /\ tty.data = <<>> /\ tty.ended
    /\ eof' = TRUE
    /\ UNCHANGED <<streamVars, mode, elsewhere, tty, copier, prog, child, read, exit,
                   waitVars>>

\* The child has the descriptors of the program, and its runtime.
Forks ==
    /\ Running /\ child = "none"
    /\ child' = "running" /\ held' = held \cup {"child"}
    /\ outs' = [outs EXCEPT !["stdout"].ends = IF "prog" \in @ THEN @ \cup {"child"} ELSE @]
    /\ UNCHANGED <<shared, sink, inp, srcs, got, trouble, mode, elsewhere, tty, copier,
                   prog, read, eof, exit, wait, mine, code>>

\* Nobody reads the program's standard input any more.
NoMoreInput == tty' = [tty EXCEPT !.gone = TRUE]

ChildEnds ==
    /\ ChildRuns
    /\ child' = "ended" /\ held' = held \ {"child"}
    /\ outs' = [outs EXCEPT !["stdout"] = CloseEnd(@, "child")]
    /\ IF prog.state = "ended" THEN NoMoreInput ELSE UNCHANGED tty
    /\ UNCHANGED <<shared, sink, inp, srcs, got, trouble, mode, elsewhere, copier, prog,
                   read, eof, exit, wait, mine, code>>

\* The program ends and closes its files; run_command has its result, and the
\* runtime it was given is gone.
Ends(result) ==
    /\ Running
    /\ prog' = [state |-> "ended", result |-> result] /\ held' = held \ {"job"}
    /\ outs' = [s \in Outputs |-> CloseEnd(outs[s], "prog")]
    /\ IF child = "running" THEN UNCHANGED tty ELSE NoMoreInput
    /\ UNCHANGED <<shared, sink, inp, srcs, got, trouble, mode, elsewhere, copier, child,
                   read, eof, exit, wait, mine, code>>

\* The job hands on the result of run_command.
SendExit ==
    /\ prog.state = "ended" /\ exit.state = "pending" /\ Open
    /\ exit' = [state |-> "sent", code |-> from_result(prog.result)]
    /\ UNCHANGED <<streamVars, mode, elsewhere, tty, copier, prog, child, read, eof,
                   waitVars>>

\* No worker could be started for the job: it is dropped, with all it holds.
JobDropped ==
    /\ prog.state = "queued"
    /\ prog' = [state |-> "dropped", result |-> "Failed"] /\ held' = held \ {"job"}
    /\ outs' = [s \in Outputs |-> DropEnd(outs[s], "prog")]
    /\ NoMoreInput
    /\ exit' = [exit EXCEPT !.state = "canceled"]
    /\ UNCHANGED <<shared, sink, inp, srcs, got, trouble, mode, elsewhere, copier, child,
                   read, eof, wait, mine, code>>

-----------------------------------------------------------------------------
(* Instance::wait, on the event loop.                                      *)

\* read_to_end: a stream that the user has locked is left to the user.  Which
\* ones are locked at this moment is up to the user.
Join ==
    /\ wait' = "join"
    /\ \/ mine' = Outputs /\ UNCHANGED trouble
       \/ \E left \in (SUBSET Touched) \ {{}} : mine' = Outputs \ left /\ Disturb("reader")

\* The thread pool is closed on return, whoever else has an Arc of it.
Return_Closes(outcome) ==
    /\ wait' = outcome
    /\ held' = {}

\* wait() returns, and its Arc of the pool is dropped.
Return(outcome) ==
    /\ wait' = outcome
    /\ held' = held \ {"instance"}

\* wait(): standard input is closed unless the user has a writer or has closed it.
Wait ==
    /\ wait = "none"
    /\ \/ /\ sink.state = "writable"
          /\ sink' = [sink EXCEPT !.state = "closing"]
          /\ wait' = "stdin" /\ UNCHANGED <<mine, trouble>>
       \/ Join /\ UNCHANGED sink
    /\ UNCHANGED <<shared, inp, outs, srcs, got, mode, elsewhere, tty, copier, progVars,
                   code, held>>

StdinClosed ==
    /\ wait = "stdin" /\ sink.state = "closed"
    /\ Join
    /\ UNCHANGED <<shared, sink, inp, outs, srcs, got, mode, elsewhere, tty, copier,
                   progVars, code, held>>

\* close() is refused with the error of the stream.
StdinFails ==
    /\ wait = "stdin" /\ sink.state = "errored"
    /\ Return("err")
    /\ UNCHANGED <<streamVars, mode, elsewhere, tty, copier, progVars, mine, code>>

\* The error is a TypeError, as the user's reason for an abort() may be: it passes
\* for that of a stream already closed.
StdinTypeError ==
    /\ wait = "stdin" /\ sink.state = "errored" /\ "abort" \in trouble
    /\ Join
    /\ UNCHANGED <<shared, sink, inp, outs, srcs, got, mode, elsewhere, tty, copier,
                   progVars, code, held>>

\* copy_to_buffer.
Collect(s) ==
    /\ wait = "join" /\ s \in mine
    /\ ReadChunk(s)
    /\ UNCHANGED <<shared, sink, inp, outs, trouble, runVars>>

\* wait() has a reader on stream s.
Locked(s) == wait = "join" /\ s \in mine

\* A reader of the user's, on a stream that wait() does not hold.
UserReads(s) ==
    /\ s \in Touched /\ ~Locked(s)
    /\ ReadChunk(s)
    /\ Disturb("reader")
    /\ UNCHANGED <<shared, sink, inp, outs, runVars>>

UserCancels(s) ==
    /\ s \in Touched /\ ~Locked(s)
    /\ Cancel(s)
    /\ UNCHANGED runVars

\* The reader of stream s has nothing more to come.
Done(s) == srcs[s].state \in {"closed", "cancelled"} /\ srcs[s].queue = <<>>

\* wait() does not wait for the outputs.
JoinSucceeds_ExitOnly ==
    /\ wait = "join" /\ exit.state = "sent"
    /\ code' = exit.code
    /\ Return("ok")
    /\ UNCHANGED <<streamVars, mode, elsewhere, tty, copier, progVars, mine>>

\* try_join!: both copies are done and the exit condition has come.
JoinSucceeds ==
    /\ wait = "join" /\ exit.state = "sent"
    /\ \A s \in mine : Done(s)
    /\ code' = exit.code
    /\ Return("ok")
    /\ UNCHANGED <<streamVars, mode, elsewhere, tty, copier, progVars, mine>>

\* try_join!: the first error ends it.
JoinFails ==
    /\ wait = "join"
    /\ exit.state = "canceled" \/ \E s \in mine : srcs[s].state = "errored"
    /\ Return("err")
    /\ UNCHANGED <<streamVars, mode, elsewhere, tty, copier, progVars, mine, code>>

\* The Instance is freed without wait(), and its Arc of the pool with it.
Drop ==
    /\ wait = "none"
    /\ Return("dropped")
    /\ UNCHANGED <<streamVars, mode, elsewhere, tty, copier, progVars, mine, code>>

-----------------------------------------------------------------------------
EventLoop ==
    \/ StreamsInternal /\ UNCHANGED runVars
    \/ CopyData \/ CopyEof
    \/ StdinClosed \/ StdinFails \/ StdinTypeError \/ JoinSucceeds \/ JoinFails
    \/ \E s \in Outputs : Collect(s)

Program ==
    \/ Begin \/ ProgWrites \/ ProgReads \/ ProgSeesEof \/ Forks
    \/ ChildWrites \/ ChildEnds \/ WritesElsewhere \/ JobDropped
    \/ \E result \in Results : Ends(result)

User ==
    \/ UserWrites /\ UNCHANGED runVars
    \/ \E s \in Outputs : UserReads(s) \/ UserCancels(s)
    \/ Wait \/ Drop

Faults == ((\E s \in Outputs : PullError(s)) /\ UNCHANGED runVars) \/ CopyError

Next == EventLoop \/ Program \/ SendExit \/ User \/ Faults

Spec == Init /\ [][Next]_vars

\* The event loop does not stop, and run_command hands on its result.
FairSpec == Spec /\ WF_vars(EventLoop) /\ WF_vars(SendExit)

-----------------------------------------------------------------------------
TypeOK ==
    /\ StreamsTypeOK
    /\ mode \in {"bytes", "terminal", "wasix"}
    /\ tty \in [data : Tokens(MaxIn), ended : BOOLEAN, gone : BOOLEAN]
    /\ copier \in {"off", "reading", "done"}
    /\ prog \in [state : {"queued", "running", "ended", "dropped"},
                 result : {"Ok", "Exit7", "Failed"}]
    /\ child \in {"none", "running", "ended"}
    /\ read \in Tokens(MaxIn) /\ eof \in BOOLEAN
    /\ exit \in [state : {"pending", "sent", "canceled"}, code : {0, 1, 7}]
    /\ wait \in {"none", "stdin", "join", "ok", "err", "dropped"}
    /\ mine \subseteq Outputs /\ code \in {0, 1, 7}
    /\ held \subseteq {"instance", "job", "child"} /\ elsewhere \in 0..MaxOut

\* What was written to an output is, in its order, what its readers have got,
\* then what the stream has queued, then what is in the pipe: no byte is lost,
\* doubled or moved by pull(), whose promise may be pending while the stream is
\* read, closed or locked.
NothingLost ==
    \A s \in Outputs :
        srcs[s].state \in {"readable", "closing", "closed"} =>
            got[s] \o srcs[s].queue \o outs[s].data = UpTo(outs[s].wrote)

\* wait() succeeds with the program's exit code and, of each output of a command that
\* it reads itself, all that the program, its child and the echo have ever written to
\* it.  Of a runWasix program it has the exit code, and nothing else.
OkIsComplete ==
    wait = "ok" =>
        /\ prog.state = "ended" /\ code = from_result(prog.result)
        /\ \A s \in mine : srcs[s].state # "cancelled" =>
               /\ got[s] = UpTo(outs[s].wrote)
               /\ outs[s].ended
               /\ mode = "wasix" => got[s] = <<>>

\* A command sees the end of standard input only when it has read all that the user
\* has written, through the terminal or not: "we need to make sure the stdin pipe
\* passed to the runtime is closed when the user closes their end".  What the user of
\* runWasix writes is never read.
EofIsTheEnd ==
    /\ eof /\ trouble \cap {"abort", "fault"} = {} =>
           /\ sink.state \in {"none", "closed"}
           /\ read = UpTo(IF mode = "bytes" THEN MaxIn ELSE sink.wrote)
    /\ mode = "wasix" => read = <<>> /\ ~eof

\* The pool is closed only when nobody waits and its workers have nothing left to do:
\* neither a wait() that fails nor an Instance that is freed stops a program or its
\* child.  A worker that is terminated would not let go of its ends of the outputs,
\* and their readers would wait for ever.
NeverKilled ==
    ~Open =>
        /\ prog.state \in {"ended", "dropped"} /\ child # "running"
        /\ wait \in {"ok", "err", "dropped"}
        /\ \A s \in Outputs : outs[s].ends \subseteq {"tty"}

\* Once the program and its child have ended, wait() returns if it was up to it to
\* close standard input, or the user has closed it: the end of standard input
\* passes through the copier, which lets go of the last end of standard output.
WaitEnds ==
    (/\ wait \in {"stdin", "join"} /\ prog.state = "ended" /\ child # "running"
     /\ sink.state # "writable")
        ~> wait \in {"ok", "err"}
=============================================================================

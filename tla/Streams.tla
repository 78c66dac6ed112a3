------------------------------- MODULE Streams -------------------------------
(***************************************************************************)
(* The streams between JavaScript and a program: src/streams.rs.           *)
(*                                                                         *)
(* Standard input is a WritableStream whose sink writes into a pipe, and   *)
(* each output is a ReadableStream whose source reads from one.  The       *)
(* streams themselves (queues, locks, when the browser calls sink and      *)
(* source) are those of the Streams standard; the pipes are virtual_fs's.  *)
(*                                                                         *)
(* What passes through is numbered 1, 2, ... in the order of writing.      *)
(***************************************************************************)
EXTENDS Integers, SequencesExt

CONSTANTS HighWater,   \* high_water_mark of an output stream
          MaxIn,       \* bound: what the user writes to standard input
          MaxOut,      \* bound: what is written to both outputs
          MaxTrouble,  \* bound: disturbances in one behaviour
          Touched      \* bound: the outputs to which they may happen

ASSUME StreamsAssumption ==
    /\ HighWater \in Nat \ {0}
    /\ MaxIn \in Nat /\ MaxOut \in Nat /\ MaxTrouble \in Nat
    /\ Touched \subseteq {"stdout", "stderr"}

VARIABLES
    shared,   \* Pipe::close ends the pipe for all clones, or for this one only
    sink,     \* the WritableStream: state, queue, number of writes
    inp,      \* the pipe behind it
    outs,     \* the pipe of each output, with the ends that can write to it
    srcs,     \* the ReadableStream of each output
    got,      \* what readers of each output have been given
    trouble   \* what has disturbed the streams: see Disturb

streamVars == <<shared, sink, inp, outs, srcs, got, trouble>>

Outputs == {"stdout", "stderr"}
UpTo(n) == [i \in 1..n |-> i]

\* Pipe::channel(), seen in the one direction that is used.
Pipe == [data |-> <<>>, ended |-> FALSE, gone |-> FALSE]

input_pipe == [state |-> "writable", queue |-> <<>>, wrote |-> 0]
NoStdin == [input_pipe EXCEPT !.state = "none"]

\* The pipe and the stream of an output to which the given ends can write.
output_pipe(ends) ==
    [data |-> <<>>, ended |-> FALSE, gone |-> FALSE, ends |-> ends, wrote |-> 0]
ReadableStream == [state |-> "readable", queue |-> <<>>]

\* One more write to output s is accepted, within the bound.
Accept(s) ==
    /\ ~outs[s].ended /\ ~outs[s].gone
    /\ outs["stdout"].wrote + outs["stderr"].wrote < MaxOut
    /\ outs' = [outs EXCEPT ![s].wrote = @ + 1,
                    ![s].data = Append(@, outs[s].wrote + 1)]

\* A clone of the writing end is dropped: the pipe ends with the last one.
DropEnd(p, e) ==
    [p EXCEPT !.ends = @ \ {e}, !.ended = @ \/ p.ends \subseteq {e}]
\* Pipe::close on a clone of the writing end.
CloseEnd(p, e) ==
    [DropEnd(p, e) EXCEPT !.ended = @ \/ (shared /\ e \in p.ends)]

-----------------------------------------------------------------------------
\* What may happen besides writing, closing and waiting: the user aborts
\* standard input, cancels an output or has a reader of its own on it, or the
\* read of a pipe fails.
Troubles == {"abort", "cancel", "reader", "fault"}
Disturb(t) ==
    /\ t \in trouble \/ Cardinality(trouble) < MaxTrouble
    /\ trouble' = trouble \cup {t}

-----------------------------------------------------------------------------
(* The user's side of standard input.                                      *)

UserWrite ==
    /\ sink.state = "writable" /\ sink.wrote < MaxIn
    /\ sink' = [sink EXCEPT !.wrote = @ + 1, !.queue = Append(@, sink.wrote + 1)]
    /\ UNCHANGED <<shared, inp, outs, srcs, got, trouble>>

UserClosesStdin ==
    /\ sink.state = "writable"
    /\ sink' = [sink EXCEPT !.state = "closing"]
    /\ UNCHANGED <<shared, inp, outs, srcs, got, trouble>>

\* abort(): what is queued is thrown away and the pipe is closed at once.
Abort ==
    /\ sink.state \in {"writable", "closing"}
    /\ sink' = [sink EXCEPT !.state = "errored", !.queue = <<>>]
    /\ inp' = [inp EXCEPT !.ended = TRUE]
    /\ Disturb("abort")
    /\ UNCHANGED <<shared, outs, srcs, got>>

-----------------------------------------------------------------------------
(* WritableStreamSink: the browser calls write() for one chunk after the   *)
(* other, and close() when the queue is empty.                             *)

SinkWrite ==
    /\ sink.queue # <<>> /\ ~inp.gone
    /\ inp' = [inp EXCEPT !.data = Append(@, Head(sink.queue))]
    /\ sink' = [sink EXCEPT !.queue = Tail(@)]
    /\ UNCHANGED <<shared, outs, srcs, got, trouble>>

\* Nobody can read the pipe any more: "Write failed".
SinkWriteFails ==
    /\ sink.queue # <<>> /\ inp.gone
    /\ sink' = [sink EXCEPT !.state = "errored", !.queue = <<>>]
    /\ UNCHANGED <<shared, inp, outs, srcs, got, trouble>>

\* close() ahead of the writes that are queued.
SinkClose_Overtakes ==
    /\ sink.state = "closing"
    /\ sink' = [sink EXCEPT !.state = "closed", !.queue = <<>>]
    /\ inp' = [inp EXCEPT !.ended = TRUE]
    /\ UNCHANGED <<shared, outs, srcs, got, trouble>>

SinkClose ==
    /\ sink.state = "closing" /\ sink.queue = <<>>
    /\ sink' = [sink EXCEPT !.state = "closed"]
    /\ inp' = [inp EXCEPT !.ended = TRUE]
    /\ UNCHANGED <<shared, outs, srcs, got, trouble>>

-----------------------------------------------------------------------------
(* ReadableStreamSource::pull: the browser calls it while there is room in *)
(* the queue, and not again before the promise has settled.  The room seen *)
(* at the call is the capacity of the buffer.  During the await the room   *)
(* can only grow, so a call and its end are one step with at most the room *)
(* there is; a call that is overtaken by cancel() has no effect.           *)

Room(s) == HighWater - Len(srcs[s].queue)

\* The read returns the same bytes again with the next call.
PullData_Peeks(s) ==
    /\ srcs[s].state = "readable"
    /\ \E n \in 1..Room(s) :
           /\ n <= Len(outs[s].data)
           /\ srcs' = [srcs EXCEPT ![s].queue = @ \o SubSeq(outs[s].data, 1, n)]
    /\ UNCHANGED <<shared, sink, inp, outs, got, trouble>>

\* Data: enqueued.
PullData(s) ==
    /\ srcs[s].state = "readable"
    /\ \E n \in 1..Room(s) :
           /\ n <= Len(outs[s].data)
           /\ outs' = [outs EXCEPT ![s].data = SubSeq(@, n + 1, Len(@))]
           /\ srcs' = [srcs EXCEPT ![s].queue = @ \o SubSeq(outs[s].data, 1, n)]
    /\ UNCHANGED <<shared, sink, inp, got, trouble>>

\* End-of-file: controller.close() lets the queue run dry first.
PullEof(s) ==
    /\ srcs[s].state = "readable" /\ Room(s) > 0
    /\ outs[s].data = <<>> /\ outs[s].ended
    /\ srcs' = [srcs EXCEPT ![s].state = IF srcs[s].queue = <<>> THEN "closed" ELSE "closing"]
    /\ UNCHANGED <<shared, sink, inp, outs, got, trouble>>

\* "Read failed": controller.error() drops the queue.
PullError(s) ==
    /\ s \in Touched
    /\ srcs[s].state = "readable" /\ Room(s) > 0
    /\ Disturb("fault")
    /\ srcs' = [srcs EXCEPT ![s].state = "errored", ![s].queue = <<>>]
    /\ UNCHANGED <<shared, sink, inp, outs, got>>

-----------------------------------------------------------------------------
(* Readers of an output.                                                   *)

\* A read() of stream s by its reader is fulfilled.
ReadChunk(s) ==
    /\ srcs[s].queue # <<>>
    /\ got' = [got EXCEPT ![s] = Append(@, Head(srcs[s].queue))]
    /\ srcs' = [srcs EXCEPT ![s].queue = Tail(@),
                    ![s].state = IF @ = "closing" /\ Len(srcs[s].queue) = 1
                                 THEN "closed" ELSE @]

\* cancel() by the user: the source closes its end of the pipe.
Cancel(s) ==
    /\ srcs[s].state \in {"readable", "closing"}
    /\ srcs' = [srcs EXCEPT ![s].state = "cancelled", ![s].queue = <<>>]
    /\ outs' = [outs EXCEPT ![s].gone = TRUE]
    /\ Disturb("cancel")
    /\ UNCHANGED <<shared, sink, inp, got>>

StreamsInternal ==
    \/ SinkWrite \/ SinkWriteFails \/ SinkClose
    \/ \E s \in Outputs : PullData(s) \/ PullEof(s)

UserWrites == UserWrite \/ UserClosesStdin \/ Abort

-----------------------------------------------------------------------------
Tokens(n) == Seq(1..n)

StreamsTypeOK ==
    /\ shared \in BOOLEAN /\ trouble \subseteq Troubles
    /\ sink \in [state : {"none", "writable", "closing", "closed", "errored"},
                 queue : Tokens(MaxIn), wrote : 0..MaxIn]
    /\ inp \in [data : Tokens(MaxIn), ended : BOOLEAN, gone : BOOLEAN]
    /\ outs \in [Outputs -> [data : Tokens(MaxOut), ended : BOOLEAN, gone : BOOLEAN,
                             ends : SUBSET {"prog", "tty", "child"}, wrote : 0..MaxOut]]
    /\ srcs \in [Outputs -> [state : {"readable", "closing", "closed", "errored", "cancelled"},
                             queue : Tokens(MaxOut)]]
    /\ \A s \in Outputs : Len(srcs[s].queue) <= HighWater
    /\ got \in [Outputs -> Tokens(MaxOut)]
=============================================================================

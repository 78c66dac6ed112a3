----------------------------- MODULE HostControl -----------------------------
(***************************************************************************)
(* The other half of host_exec: what a program sends to the JavaScript     *)
(* handler of its session (standard input, its end, signals, the output of *)
(* child processes) and the callbacks with which the handler registers for *)
(* it.  Nothing of this is answered: the worker posts a message and goes   *)
(* on, and the main thread calls the function it finds registered.         *)
(*                                                                         *)
(* The functions are kept in three tables of src/tasks/scheduler.rs, keyed *)
(* by session number or by child number.  Requests of the handler to the   *)
(* program (output) travel as HostSession promises: once and in order.     *)
(***************************************************************************)
EXTENDS Naturals, Sequences

CONSTANTS Workers,
          NoWorker,    \* no worker
          Sessions,    \* session numbers
          Children,    \* the numbers that JavaScript gives to children
          Uses,        \* bound: the sets of operations that are used together
          MaxPosted,   \* bound: messages the programs post
          MaxCalls     \* bound: calls of its callbacks by a handler

ASSUME HostControlAssumption ==
    /\ NoWorker \notin Workers
    /\ Sessions \subseteq Nat \ {0} /\ Children \subseteq Nat \ {0}
    /\ {MaxPosted, MaxCalls} \subseteq Nat

VARIABLES
    used,       \* the operations that are used
    owner,      \* the worker that started each session
    posted,     \* the number of messages posted
    sent,       \* what the programs sent to each session
    child,      \* each child: what has become of it and what was said of it
    wire,       \* messages posted by each worker, not yet received
    mailbox,    \* the scheduler's channel
    calling,    \* the session whose handler is being called; 0 if none
    host,       \* the handler of each session
    calls,      \* the number of calls of its callbacks by each handler
    inCall,     \* which setters were called before the handler returned
    writer,     \* STDIN_WRITERS: the call of setStdinWriter; 0 if none
    killer,     \* SIGNAL_HANDLERS has the session
    children,   \* CHILD_OUTPUT_HANDLERS
    output,     \* requests of the handler that the program has not read
    got,        \* what the functions of each session were called with
    heard       \* what the functions given for a child were called with

worker == <<owner, posted, sent, child>>
tables == <<calls, inCall, writer, killer, children>>
vars == <<used, worker, wire, mailbox, calling, host, tables, output, got, heard>>

Numbers == Sessions \cup Children

\* Whose callbacks are registered: given to requestSpawn for one child, or to
\* setChildOutputHandlers by a session (child = 0).
Givers == [session : Sessions, child : Children \cup {0}]
NoGiver == [session |-> 0, child |-> 0]

\* What the program sends to a session is numbered: a write by its place n, and
\* the end of the input or a signal that is sent in place n by
Closing(n) == MaxPosted + n
LastClose == MaxPosted + MaxPosted
Signal(n) == LastClose + n
Closes == (MaxPosted + 1)..LastClose
Kinds == {"stdout", "stderr", "exit", "unknown"}

Input == {"write", "close", "signal"}
Operations == Input \cup Kinds \cup {"setStdinWriter", "setKillFunction",
              "setChildOutputHandlers", "requestSpawn", "spawnControl"}

Init ==
    /\ used \in Uses
    /\ owner = [s \in Sessions |-> NoWorker]
    /\ posted = 0
    /\ sent = [s \in Sessions |-> <<>>]
    /\ child = [c \in Children |-> [pc |-> "none", session |-> 0, whole |-> FALSE, said |-> <<>>]]
    /\ wire = [w \in Workers |-> <<>>]
    /\ mailbox = <<>>
    /\ calling = 0
    /\ host = [s \in Sessions |-> "none"]
    /\ calls = [s \in Sessions |-> 0]
    /\ inCall = [s \in Sessions |-> {}]
    /\ writer = [s \in Sessions |-> 0]
    /\ killer = [s \in Sessions |-> FALSE]
    /\ children = [n \in Numbers |-> NoGiver]
    /\ output = [s \in Sessions |-> <<>>]
    /\ got = [s \in Sessions |-> <<>>]
    /\ heard = [g \in Givers |-> <<>>]

-----------------------------------------------------------------------------
(* The programs, in their workers.                                         *)

Post(w, type, s, c, item) ==
    /\ posted < MaxPosted
    /\ posted' = posted + 1
    /\ wire' = [wire EXCEPT ![w] = Append(@, [type |-> type, worker |-> w, session |-> s,
                                              child |-> c, item |-> item])]

NotTheProgram == UNCHANGED <<used, mailbox, calling, host, tables, got, heard>>

\* host_exec_start.
Start(w, s) ==
    /\ owner[s] = NoWorker
    /\ owner' = [owner EXCEPT ![s] = w]
    /\ Post(w, "start", s, 0, 0)
    /\ UNCHANGED <<sent, child, output>> /\ NotTheProgram

\* The session number is known to all threads of the program at once, and
\* nothing keeps one of them from writing, or closing again, after a close.
Send(w, s, type, item) ==
    /\ type \in used /\ owner[s] # NoWorker
    /\ sent' = [sent EXCEPT ![s] = Append(@, [worker |-> w, item |-> item])]
    /\ Post(w, type, s, 0, item)
    /\ UNCHANGED <<owner, child, output>> /\ NotTheProgram

\* host_exec_write, host_exec_close_stdin and host_exec_signal: posted, and
\* success is returned at once.
Write(w, s) == Send(w, s, "write", Len(sent[s]) + 1)
CloseStdin(w, s) == Send(w, s, "close", Closing(Len(sent[s]) + 1))
Kill(w, s) == Send(w, s, "signal", Signal(Len(sent[s]) + 1))

\* A request of the handler, which host_exec_read returns as Raw.
ReadRequest(s) ==
    /\ output[s] # <<>>
    /\ output' = [output EXCEPT ![s] = Tail(@)]
    /\ child' = IF Head(output[s]).type = "spawn"
                THEN [child EXCEPT ![Head(output[s]).child].pc = "running"] ELSE child
    /\ UNCHANGED <<owner, posted, sent, wire>> /\ NotTheProgram

\* host_exec_child_output, by any thread of the program.  The number of what is
\* said stands for its bytes or its exit code.
ChildOutput(w, c, kind) ==
    /\ kind \in used /\ child[c].pc = "running"
    /\ LET item == Len(child[c].said) + 1
       IN /\ child' = [child EXCEPT
                          ![c].said = Append(@, [worker |-> w, kind |-> kind, item |-> item]),
                          ![c].pc = IF kind = "exit" THEN "ended" ELSE @]
          /\ Post(w, kind, child[c].session, c, item)
    /\ UNCHANGED <<owner, sent, output>> /\ NotTheProgram

-----------------------------------------------------------------------------
(* The main thread.                                                        *)

Deliver(w) ==
    /\ calling = 0 /\ wire[w] # <<>>
    /\ mailbox' = Append(mailbox, Head(wire[w]))
    /\ wire' = [wire EXCEPT ![w] = Tail(@)]
    /\ UNCHANGED <<used, worker, calling, host, tables, output, got, heard>>

Msg == Head(mailbox)

Receive(type) ==
    /\ calling = 0 /\ mailbox # <<>> /\ Msg.type = type
    /\ mailbox' = Tail(mailbox)
    /\ UNCHANGED <<used, worker, wire, calls, inCall, killer, children, output>>

\* HostExecStart: the handler is called with its context, unless there is no
\* handler or the request does not parse.
ExecuteStart ==
    /\ Receive("start")
    /\ \/ /\ host' = [host EXCEPT ![Msg.session] = "running"]
          /\ calling' = Msg.session
       \/ /\ host' = [host EXCEPT ![Msg.session] = "refused"]
          /\ UNCHANGED calling
    /\ UNCHANGED <<writer, got, heard>>

Got(s, n, item) ==
    got' = [got EXCEPT ![s] = Append(@, [setter |-> n, worker |-> Msg.worker, item |-> item])]

\* The writer taken out of the table to be called.
ExecuteWrite_Takes ==
    /\ Receive("write")
    /\ LET s == Msg.session
       IN IF writer[s] # 0 THEN Got(s, writer[s], Msg.item) ELSE UNCHANGED got
    /\ writer' = [writer EXCEPT ![Msg.session] = 0]
    /\ UNCHANGED <<calling, host, heard>>

\* HostExecWrite: without a writer the data is dropped with a warning.
ExecuteWrite ==
    /\ Receive("write")
    /\ LET s == Msg.session
       IN IF writer[s] # 0 THEN Got(s, writer[s], Msg.item) ELSE UNCHANGED got
    /\ UNCHANGED <<writer, calling, host, heard>>

\* The closer looked up and left in the table.
ExecuteClose_Keeps ==
    /\ Receive("close")
    /\ LET s == Msg.session
       IN IF writer[s] # 0 THEN Got(s, writer[s], Msg.item) ELSE UNCHANGED got
    /\ UNCHANGED <<writer, calling, host, heard>>

\* HostExecCloseStdin: the entry is removed and its closer called.
ExecuteClose ==
    /\ Receive("close")
    /\ LET s == Msg.session
       IN /\ IF writer[s] # 0 THEN Got(s, writer[s], Msg.item) ELSE UNCHANGED got
          /\ writer' = [writer EXCEPT ![s] = 0]
    /\ UNCHANGED <<calling, host, heard>>

\* HostExecSignal: the kill function stays registered.
ExecuteSignal ==
    /\ Receive("signal")
    /\ IF killer[Msg.session] THEN Got(Msg.session, 0, Msg.item) ELSE UNCHANGED got
    /\ UNCHANGED <<writer, calling, host, heard>>

\* An unknown kind of output passed on like the others.
Hear_AnyKind(g) ==
    heard' = IF g # NoGiver
             THEN [heard EXCEPT ![g] = Append(@, [child |-> Msg.child, worker |-> Msg.worker,
                                                  kind |-> Msg.type, item |-> Msg.item])]
             ELSE heard

\* onChildStdout, onChildStderr or onChildExit is called with the data or with
\* the exit code that it holds; an unknown kind is only warned about.
Hear(g) ==
    heard' = IF g # NoGiver /\ Msg.type # "unknown"
             THEN [heard EXCEPT ![g] = Append(@, [child |-> Msg.child, worker |-> Msg.worker,
                                                  kind |-> Msg.type, item |-> Msg.item])]
             ELSE heard

\* The handlers looked up under the number of the session.
ExecuteChildOutput_BySession ==
    /\ \E kind \in Kinds : Receive(kind)
    /\ Hear(children[Msg.session])
    /\ UNCHANGED <<writer, calling, host, got>>

\* HostExecChildOutput: the handlers are looked up under the number of the
\* child, whatever session it belongs to, and are never removed.
ExecuteChildOutput ==
    /\ \E kind \in Kinds : Receive(kind)
    /\ Hear(children[Msg.child])
    /\ UNCHANGED <<writer, calling, host, got>>

-----------------------------------------------------------------------------
(* The handler: JavaScript on the main thread, in its call or between two  *)
(* messages.  The callbacks of its context work as long as it keeps them,  *)
(* after its promise has settled or its call has failed, too.  One that is *)
(* called from inside a function of this handler which a message called:   *)
(* the table that held this function is still borrowed.  A callback that   *)
(* stores into the same table panics there, which the handler sees as an   *)
(* exception, before it has changed anything: no step.  One that stores    *)
(* into another table is a step right after the message's.                 *)

Js(s, name) ==
    /\ name \in used
    /\ calling \in {0, s} /\ host[s] \in {"running", "settled", "failed"}
    /\ calls[s] < MaxCalls
    /\ calls' = [calls EXCEPT ![s] = @ + 1]
    /\ UNCHANGED <<used, owner, posted, sent, wire, mailbox, calling, host, got, heard>>

\* The call returns a promise, or something else, or throws: then the session
\* has failed, and what it registered stays registered.
Return ==
    /\ calling # 0
    /\ calling' = 0
    /\ \E outcome \in {"running", "failed"} : host' = [host EXCEPT ![calling] = outcome]
    /\ UNCHANGED <<used, worker, wire, mailbox, tables, output, got, heard>>

Settle(s) ==
    /\ calling = 0 /\ host[s] = "running"
    /\ host' = [host EXCEPT ![s] = "settled"]
    /\ UNCHANGED <<used, worker, wire, mailbox, calling, tables, output, got, heard>>

Setter(s, name) ==
    /\ Js(s, name)
    /\ inCall' = IF calling = s THEN [inCall EXCEPT ![s] = @ \cup {name}] ELSE inCall
    /\ UNCHANGED <<child, output>>

\* setStdinWriter, with two functions; a second call replaces the first.
SetStdinWriter(s) ==
    /\ Setter(s, "setStdinWriter")
    /\ writer' = [writer EXCEPT ![s] = calls'[s]]
    /\ UNCHANGED <<killer, children>>

\* setKillFunction.
SetKillFunction(s) ==
    /\ Setter(s, "setKillFunction")
    /\ killer' = [killer EXCEPT ![s] = TRUE]
    /\ UNCHANGED <<writer, children>>

\* setChildOutputHandlers stores under the number of the session.
SetChildOutputHandlers(s) ==
    /\ Setter(s, "setChildOutputHandlers")
    /\ children' = [children EXCEPT ![s] = [session |-> s, child |-> 0]]
    /\ UNCHANGED <<writer, killer>>

Ask(s, type, c) ==
    /\ output' = [output EXCEPT ![s] = Append(@, [type |-> type, child |-> c])]
    /\ UNCHANGED <<inCall, writer, killer>>

\* requestSpawn, with a number that no child has yet.  The callbacks are
\* stored only if all three are functions (whole); the request is queued in
\* either case.
RequestSpawn(s, c, whole) ==
    /\ child[c].pc = "none" /\ Js(s, "requestSpawn")
    /\ Ask(s, "spawn", c)
    /\ child' = [child EXCEPT ![c].pc = "requested", ![c].session = s, ![c].whole = whole]
    /\ children' = IF whole
                   THEN [children EXCEPT ![c] = [session |-> s, child |-> c]] ELSE children

\* spawnWriteStdin, spawnCloseStdin and spawnKill, which differ in what the
\* program does with them.
SpawnControl(s, c) ==
    /\ child[c].session = s /\ Js(s, "spawnControl")
    /\ Ask(s, "control", c)
    /\ UNCHANGED <<child, children>>

-----------------------------------------------------------------------------
Program(w, s) == Start(w, s) \/ Write(w, s) \/ CloseStdin(w, s) \/ Kill(w, s)

Handler(s) ==
    \/ Settle(s)
    \/ SetStdinWriter(s) \/ SetKillFunction(s) \/ SetChildOutputHandlers(s)
    \/ \E c \in Children, whole \in BOOLEAN : RequestSpawn(s, c, whole)
    \/ \E c \in Children : SpawnControl(s, c)

Execute == \/ ExecuteStart \/ ExecuteWrite \/ ExecuteClose \/ ExecuteSignal
           \/ ExecuteChildOutput

Next == \/ \E w \in Workers, s \in Sessions : Program(w, s)
        \/ \E w \in Workers, c \in Children, kind \in Kinds : ChildOutput(w, c, kind)
        \/ \E w \in Workers : Deliver(w)
        \/ Execute \/ Return
        \/ \E s \in Sessions : ReadRequest(s) \/ Handler(s)

Spec == Init /\ [][Next]_vars

\* Posted messages arrive, the main thread works through its mailbox, and the
\* call of a handler comes to its end.
FairSpec == /\ Spec
            /\ \A w \in Workers : WF_vars(Deliver(w))
            /\ WF_vars(Execute) /\ WF_vars(Return)

-----------------------------------------------------------------------------
Messages == [type : {"start", "write", "close", "signal"} \cup Kinds, worker : Workers,
             session : Sessions, child : Children \cup {0}, item : 0..(LastClose + MaxPosted)]
ChildStates == [pc : {"none", "requested", "running", "ended"}, session : Sessions \cup {0},
                whole : BOOLEAN,
                said : Seq([worker : Workers, kind : Kinds, item : 1..MaxPosted])]
OutputCalls == [child : Children, worker : Workers, kind : Kinds \ {"unknown"},
                item : 1..MaxPosted]

\* The type invariant; a message about a child comes from a child, and only a
\* session whose handler was called has something registered.
TypeOK ==
    /\ used \in Uses
    /\ owner \in [Sessions -> Workers \cup {NoWorker}]
    /\ sent \in [Sessions -> Seq([worker : Workers, item : 1..(LastClose + MaxPosted)])]
    /\ child \in [Children -> ChildStates]
    /\ wire \in [Workers -> Seq(Messages)]
    /\ mailbox \in Seq(Messages)
    /\ calling \in Sessions \cup {0}
    /\ host \in [Sessions -> {"none", "running", "refused", "failed", "settled"}]
    /\ posted \in 0..MaxPosted
    /\ calls \in [Sessions -> 0..MaxCalls]
    /\ inCall \in [Sessions -> SUBSET Operations]
    /\ writer \in [Sessions -> 0..MaxCalls]
    /\ killer \in [Sessions -> BOOLEAN]
    /\ \A s \in Sessions : host[s] \in {"none", "refused"} => calls[s] = 0
    /\ children \in [Numbers -> Givers \cup {NoGiver}]
    /\ output \in [Sessions -> Seq([type : {"spawn", "control"}, child : Children])]
    /\ got \in [Sessions -> Seq([setter : 0..MaxCalls, worker : Workers,
                                 item : 1..(LastClose + MaxPosted)])]
    /\ heard \in [Givers -> Seq(OutputCalls)]

\* In a sequence, x stands before y.
Before(seq, x, y) == \E i, j \in DOMAIN seq : i < j /\ seq[i].item = x /\ seq[j].item = y
AllBefore(seq, X, Y) == \A x \in X, y \in Y : Before(seq, x, y)

\* What stands in a queue of the messages M, and what functions were called
\* with, is in the order of seq.
ItemsIn(q, M) == {q[i].item : i \in {k \in DOMAIN q : q[k] \in M}}
QueueAsIn(seq, q, M) ==
    \A i, j \in DOMAIN q :
        i < j /\ q[i] \in M /\ q[j] \in M => Before(seq, q[i].item, q[j].item)

\* The messages about the input of session s.
InputFor(s) == {m \in Messages : m.session = s /\ m.type \in Input}

ItemsOf(seq) == {seq[i].item : i \in DOMAIN seq}
CallsAsIn(seq, fcalls) ==
    \A i, j \in DOMAIN fcalls : i < j => Before(seq, fcalls[i].item, fcalls[j].item)

OnlyOwner(s) == owner[s] # NoWorker /\ \A i \in DOMAIN sent[s] : sent[s][i].worker = owner[s]
Sure(s, item) == /\ item <= LastClose => /\ "setStdinWriter" \in inCall[s]
                                        /\ ~\E end \in Closes : Before(sent[s], end, item)
                 /\ item > LastClose => "setKillFunction" \in inCall[s]

\* A handler that calls setStdinWriter (setKillFunction) before it returns
\* gets all the standard input up to its first end, and that end (all the
\* signals), however early it was sent: also when the call fails afterwards or
\* another writer replaces the first.  What any handler gets was sent, and
\* comes in the order in which the program sent it, nothing twice, input after
\* an end included.  None of this holds of a thread that did not start the
\* session, whose messages may be there before the handler is called.
ControlArrives ==
    \A s \in Sessions : OnlyOwner(s) /\ calling # s =>
        LET arrived == ItemsOf(got[s])
            coming == ItemsIn(mailbox, InputFor(s))
            leaving == ItemsIn(wire[owner[s]], InputFor(s))
        IN /\ \A i \in DOMAIN sent[s] : Sure(s, sent[s][i].item) =>
                 sent[s][i].item \in arrived \cup coming \cup leaving
           /\ arrived \cup coming \cup leaving \subseteq ItemsOf(sent[s])
           /\ CallsAsIn(sent[s], got[s])
           /\ QueueAsIn(sent[s], mailbox, InputFor(s))
           /\ QueueAsIn(sent[s], wire[owner[s]], InputFor(s))
           /\ AllBefore(sent[s], arrived, coming \cup leaving)
           /\ AllBefore(sent[s], coming, leaving)

\* Once the closer that came with a writer was called, neither the writer nor
\* the closer is called again, although another thread may still write: only a
\* new call of setStdinWriter opens standard input again.
ClosedIsClosed ==
    \A s \in Sessions : \A i \in DOMAIN got[s] : \A j \in (i + 1)..Len(got[s]) :
        got[s][i].item \in Closes => got[s][j].setter # got[s][i].setter

Own(c) == [session |-> child[c].session, child |-> c]

\* What thread w said of child c, in messages and in calls.  Nobody hears what
\* is of an unknown kind.
SaidOf(c, w) == {m \in Messages : m.child = c /\ m.worker = w /\ m.type \in Kinds \ {"unknown"}}
HeardFrom(w) == {h \in OutputCalls : h.worker = w}

\* What thread w said was heard (H), comes or leaves (M), in the order of said.
Flows(w, said, here, coming, leaving, H, M) ==
    /\ \A i \in DOMAIN said : said[i].worker = w /\ said[i].kind # "unknown" =>
         said[i].item \in ItemsIn(here, H) \cup ItemsIn(coming, M) \cup ItemsIn(leaving, M)
    /\ QueueAsIn(said, here, H) /\ QueueAsIn(said, coming, M) /\ QueueAsIn(said, leaving, M)
    /\ AllBefore(said, ItemsIn(here, H), ItemsIn(coming, M) \cup ItemsIn(leaving, M))
    /\ AllBefore(said, ItemsIn(coming, M), ItemsIn(leaving, M))

\* Thread w said this.
IsSaid(said, w, kind, item) ==
    \E i \in DOMAIN said : said[i] = [worker |-> w, kind |-> kind, item |-> item]

\* The callbacks given to requestSpawn hear of their child, and of no other,
\* all that was said before and after the callbacks of other children came and
\* went: what each thread said, once and in order.  This holds as long as no
\* session whose number is that of the child calls setChildOutputHandlers.
ChildHears ==
    \A c \in Children : child[c].whole /\ children[c] = Own(c) =>
        /\ \A i \in DOMAIN heard[Own(c)] :
             LET call == heard[Own(c)][i]
             IN call.child = c /\ IsSaid(child[c].said, call.worker, call.kind, call.item)
        /\ \A w \in Workers : Flows(w, child[c].said, heard[Own(c)], mailbox, wire[w],
                                    HeardFrom(w), SaidOf(c, w))

\* The exit callback of a child that has ended is called, unless its
\* callbacks are overwritten first.
ExitHeard ==
    \A c \in Children :
        (child[c].pc = "ended" /\ children[c] = Own(c))
        ~> \/ children[c] # Own(c)
           \/ \E i \in DOMAIN heard[Own(c)] : heard[Own(c)][i].kind = "exit"
=============================================================================

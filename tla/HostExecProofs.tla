--------------------------- MODULE HostExecProofs ---------------------------
(***************************************************************************)
(* What holds of host_exec for every number of workers, sessions and       *)
(* messages.  Whenever the answers come: the types, and that a message     *)
(* that goes past the queue overtakes nothing.  As long as no answer has   *)
(* come early: that a worker is owed one answer at most, finds in its      *)
(* buffer the answer to its own request, and reads of each session what    *)
(* HostSession promises.                                                   *)
(***************************************************************************)
EXTENDS HostExec, SequenceTheorems, FiniteSetTheorems, TLAPS

USE DEF NoItem

\* What is taken from a queue and what is put into it, for items of any kind.
LEMMA TakeFrom ==
    ASSUME NEW S, NEW q \in Seq(S), q # <<>>
    PROVE  Head(q) \in S /\ Tail(q) \in Seq(S)
BY HeadTailProperties

LEMMA PutInto ==
    ASSUME NEW S, NEW q \in Seq(S), NEW e \in S
    PROVE  Append(q, e) \in Seq(S) /\ Append(q, e) # <<>>
BY AppendProperties

\* The first message of the mailbox is a message.
LEMMA MsgType ==
    ASSUME TypeOK, mailbox # <<>>
    PROVE  /\ Msg \in Messages
           /\ Tail(mailbox) \in Seq(Messages)
BY DEF TypeOK, Msg

\* Items are numbers up to the one that stands for the exit code.
LEMMA Items ==
    /\ Exit \in 1..Exit /\ MaxOutput \in Nat /\ Exit = MaxOutput + 1
    /\ 0 \in 0..Exit
    /\ \A n \in 1..MaxOutput : n \in 0..Exit
    /\ \A n \in 0..MaxOutput : n \in 0..Exit
BY HostExecAssumption DEF HostExecAssumption, Exit

\* The two ways of a message are typed if it is.
LEMMA MessageType ==
    ASSUME NEW type \in {"start", "read", "try_read", "poll", "complete"},
           NEW w \in Workers, NEW s \in Sessions, NEW item \in 0..Exit
    PROVE  Message(type, w, s, item) \in Messages
BY DEF Message, Messages

LEMMA AnswerType ==
    ASSUME NEW w \in Workers, NEW s \in Sessions, NEW item \in 0..Exit, NEW status \in 0..2
    PROVE  /\ Answer(w, s, item, status) \in Answers
           /\ Answer(w, s, item, status).worker = w
           /\ Answer(w, s, item, status).session = s
BY DEF Answer, Answers

\* The initial state has the types.
LEMMA InitType == Init => TypeOK
<1> SUFFICES ASSUME Init PROVE TypeOK
  OBVIOUS
<1>1. worker \in [Workers -> WorkerStates]
  BY DEF Init, WorkerStates
<1>2. view \in [Workers -> Views]
  BY Items DEF Init, Views
<1>3. main \in Answers /\ main.pc = "idle"
  BY Items DEF Init, Answers, Idle
<1>4. /\ \A w \in Workers : worker[w].pc = "run"
      /\ wire \in [Workers -> Seq(Messages)] /\ mailbox \in Seq(Messages)
  BY DEF Init
<1>5. /\ host \in [Sessions -> {"none", "running", "returned", "failed", "settled"}]
      /\ owner \in [Sessions -> Workers \cup {NoWorker}]
      /\ pending \in [Sessions -> Workers \cup {NoWorker}]
      /\ result \in [Sessions -> BOOLEAN]
      /\ early \in BOOLEAN
  BY DEF Init
<1>6. /\ produced \in [Sessions -> 0..MaxOutput] /\ due \in [Sessions -> 0..MaxOutput]
      /\ exits \in [Sessions -> Nat]
      /\ queue \in [Sessions -> Seq(1..MaxOutput)]
      /\ reads \in [Sessions -> Seq(0..Exit)]
  BY Items DEF Init
<1> QED
  BY <1>1, <1>2, <1>3, <1>4, <1>5, <1>6 DEF TypeOK

-----------------------------------------------------------------------------
(* The worker.                                                             *)

\* Starting a session and requesting something of it keep the types.
LEMMA PostType ==
  ASSUME TypeOK, NEW w \in Workers, NEW s \in Sessions,
         Start(w, s) \/ \E op \in Ops : Request(w, op, s)
  PROVE  TypeOK'
<1>1. CASE Start(w, s)
  <2>1. Message("start", w, s, NoItem) \in Messages
    BY MessageType, Items
  <2>2. wire' \in [Workers -> Seq(Messages)]
    BY <1>1, <2>1 DEF TypeOK, Start
  <2>3. owner' \in [Sessions -> Workers \cup {NoWorker}]
    BY <1>1 DEF TypeOK, Start
  <2> QED
    BY <1>1, <2>2, <2>3 DEF TypeOK, Start, mainVars
<1>2. ASSUME NEW op \in Ops, Request(w, op, s)
      PROVE  TypeOK'
  <2>1. op \in {"read", "try_read", "poll"}
    BY HostExecAssumption DEF HostExecAssumption
  <2>2. Message(op, w, s, NoItem) \in Messages
    BY <2>1, MessageType, Items
  <2>3. wire' \in [Workers -> Seq(Messages)]
    BY <1>2, <2>2 DEF TypeOK, Request
  <2>4. [pc |-> "reset", op |-> op, session |-> s] \in WorkerStates
    BY <2>1 DEF WorkerStates
  <2>5. /\ worker' \in [Workers -> WorkerStates]
        /\ \A v \in Workers : worker'[v].pc # "run" => worker'[v].session \in Sessions
    BY <1>2, <2>4 DEF TypeOK, Request
  <2> QED
    BY <1>2, <2>3, <2>5 DEF TypeOK, Request, mainVars
<1> QED
  BY <1>1, <1>2

\* A worker that changes its program counter only keeps its request.
LEMMA PcType ==
  ASSUME TypeOK, NEW w \in Workers, NEW pc \in {"run", "reset", "wait", "blocked", "load"},
         worker[w].pc # "run" \/ pc = "run",
         worker' = [worker EXCEPT ![w].pc = pc]
  PROVE  /\ worker' \in [Workers -> WorkerStates]
         /\ \A v \in Workers : worker'[v].pc # "run" => worker'[v].session \in Sessions
<1>1. worker[w] \in WorkerStates
  BY DEF TypeOK
<1>2. [worker[w] EXCEPT !.pc = pc] \in WorkerStates
  BY <1>1 DEF WorkerStates
<1>3. worker' = [worker EXCEPT ![w] = [worker[w] EXCEPT !.pc = pc]]
  OBVIOUS
<1>4. worker' \in [Workers -> WorkerStates]
  BY <1>2, <1>3 DEF TypeOK
<1>5. \A v \in Workers : worker'[v].pc # "run" => worker'[v].session \in Sessions
  BY <1>1, <1>3 DEF TypeOK, WorkerStates
<1> QED
  BY <1>4, <1>5

\* Waiting for an answer and taking it keep the types.
LEMMA ResumeType ==
  ASSUME TypeOK, NEW w \in Workers, Resume(w)
  PROVE  TypeOK'
<1>1. CASE ResetStatus(w)
  <2>1. view' = [view EXCEPT ![w] = [view[w] EXCEPT !.status = 0]]
    BY <1>1 DEF ResetStatus
  <2>2. [view[w] EXCEPT !.status = 0] \in Views
    <3>1. view[w] \in Views
      BY DEF TypeOK
    <3> QED
      BY <3>1 DEF Views
  <2>3. view' \in [Workers -> Views]
    BY <2>1, <2>2 DEF TypeOK
  <2>4. /\ worker' \in [Workers -> WorkerStates]
        /\ \A v \in Workers : worker'[v].pc # "run" => worker'[v].session \in Sessions
    BY <1>1, PcType DEF ResetStatus
  <2> QED
    BY <1>1, <2>3, <2>4 DEF TypeOK, ResetStatus, mainVars
<1>2. CASE Wait(w)
  <2>1. PICK pc \in {"blocked", "load"} : worker' = [worker EXCEPT ![w].pc = pc]
    BY <1>2 DEF Wait
  <2>2. /\ worker' \in [Workers -> WorkerStates]
        /\ \A v \in Workers : worker'[v].pc # "run" => worker'[v].session \in Sessions
    BY <1>2, <2>1, PcType DEF Wait
  <2> QED
    BY <1>2, <2>2 DEF TypeOK, Wait, mainVars
<1>3. CASE Load(w)
  <2>1. /\ worker' \in [Workers -> WorkerStates]
        /\ \A v \in Workers : worker'[v].pc # "run" => worker'[v].session \in Sessions
    BY <1>3, PcType DEF Load
  <2>2. view[w].item \in 0..Exit
    BY DEF TypeOK, Views
  <2>3. \/ reads' = reads
        \/ reads' = [reads EXCEPT ![worker[w].session]
                       = Append(reads[worker[w].session], view[w].item)]
    BY <1>3 DEF Load
  <2>4. worker[w].session \in Sessions
    BY <1>3 DEF TypeOK, Load
  <2>5. Append(reads[worker[w].session], view[w].item) \in Seq(0..Exit)
    <3>1. reads[worker[w].session] \in Seq(0..Exit)
      BY <2>4 DEF TypeOK
    <3> QED
      BY <2>2, <3>1, PutInto
  <2>6. reads' \in [Sessions -> Seq(0..Exit)]
    BY <2>3, <2>5 DEF TypeOK
  <2>7. exits' \in [Sessions -> Nat]
    <3>1. \/ exits' = exits
          \/ exits' = [exits EXCEPT ![worker[w].session] = exits[worker[w].session] + 1]
      BY <1>3 DEF Load
    <3>2. exits[worker[w].session] + 1 \in Nat
      BY <2>4 DEF TypeOK
    <3> QED
      BY <3>1, <3>2 DEF TypeOK
  <2> QED
    BY <1>3, <2>1, <2>6, <2>7 DEF TypeOK, Load, mainVars
<1> QED
  BY <1>1, <1>2, <1>3 DEF Resume

-----------------------------------------------------------------------------
(* The main thread.                                                        *)

\* Passing a message on to the scheduler keeps the types.
LEMMA DeliverType ==
  ASSUME TypeOK, NEW w \in Workers, Deliver(w)
  PROVE  TypeOK'
<1>1. wire[w] \in Seq(Messages) /\ wire[w] # <<>>
  BY DEF TypeOK, Deliver
<1>2. Head(wire[w]) \in Messages /\ Tail(wire[w]) \in Seq(Messages)
  BY <1>1
<1>3. mailbox' \in Seq(Messages) /\ wire' \in [Workers -> Seq(Messages)]
  BY <1>2 DEF TypeOK, Deliver
<1> QED
  BY <1>3 DEF TypeOK, Deliver

\* What the first message of the mailbox names, and what is left of it.
LEMMA ReceiveType ==
  ASSUME TypeOK, NEW type, Receive(type)
  PROVE  /\ Msg.worker \in Workers /\ Msg.session \in Sessions /\ Msg.item \in 0..Exit
         /\ mailbox' \in Seq(Messages)
         /\ UNCHANGED <<worker, view, wire, owner, produced, due, reads, exits, early>>
BY MsgType DEF Receive, Messages

\* The answer a message or an exit code is given in keeps the types.
LEMMA TakeType ==
  ASSUME TypeOK, NEW w \in Workers, NEW s \in Sessions, TakeMessage(w, s)
  PROVE  /\ main' \in Answers /\ main'.worker \in Workers /\ main'.session \in Sessions
         /\ queue' \in [Sessions -> Seq(1..MaxOutput)]
         /\ result' \in [Sessions -> BOOLEAN]
         /\ UNCHANGED <<host, pending>>
<1>1. CASE queue[s] # <<>>
  <2>1. queue[s] \in Seq(1..MaxOutput)
    BY DEF TypeOK
  <2>2. Head(queue[s]) \in 1..MaxOutput /\ Tail(queue[s]) \in Seq(1..MaxOutput)
    BY <1>1, <2>1, TakeFrom
  <2>3. main' = Answer(w, s, Head(queue[s]), 1)
    BY <1>1 DEF TakeMessage
  <2>4. Head(queue[s]) \in 0..Exit
    BY <2>2, Items
  <2>5. main' \in Answers /\ main'.worker \in Workers /\ main'.session \in Sessions
    BY <2>3, <2>4, AnswerType
  <2>6. queue' \in [Sessions -> Seq(1..MaxOutput)]
    BY <1>1, <2>2 DEF TypeOK, TakeMessage
  <2> QED
    BY <1>1, <2>5, <2>6 DEF TypeOK, TakeMessage
<1>2. CASE queue[s] = <<>>
  <2>1. main' = Answer(w, s, Exit, 1)
    BY <1>2 DEF TakeMessage
  <2>2. Exit \in 0..Exit
    BY Items
  <2>3. main' \in Answers /\ main'.worker \in Workers /\ main'.session \in Sessions
    BY <2>1, <2>2, AnswerType
  <2> QED
    BY <1>2, <2>3 DEF TypeOK, TakeMessage
<1> QED
  BY <1>1, <1>2

\* Each message the scheduler executes keeps the types.
LEMMA ExecuteType ==
  ASSUME TypeOK, Execute
  PROVE  TypeOK'
<1>1. CASE ExecuteStart
  <2>1. PICK outcome \in {"running", "returned", "failed"} :
          host' = [host EXCEPT ![Msg.session] = outcome]
    BY <1>1 DEF ExecuteStart
  <2>2. host' \in [Sessions -> {"none", "running", "returned", "failed", "settled"}]
    BY <2>1 DEF TypeOK
  <2>3. Receive("start")
    BY <1>1 DEF ExecuteStart
  <2> QED
    BY <1>1, <2>2, <2>3, ReceiveType DEF TypeOK, ExecuteStart
<1>2. CASE ExecuteRead
  <2>1. Receive("read")
    BY <1>2 DEF ExecuteRead
  <2>2. CASE TakeMessage(Msg.worker, Msg.session)
    BY <2>1, <2>2, TakeType, ReceiveType DEF TypeOK
  <2>3. CASE /\ pending' = [pending EXCEPT ![Msg.session] = Msg.worker]
             /\ UNCHANGED <<main, host, queue, result>>
    <3>1. pending' \in [Sessions -> Workers \cup {NoWorker}]
      BY <2>1, <2>3, ReceiveType DEF TypeOK
    <3> QED
      BY <2>1, <2>3, <3>1, ReceiveType DEF TypeOK
  <2> QED
    BY <1>2, <2>2, <2>3 DEF ExecuteRead
<1>3. CASE ExecuteTryRead
  <2>1. Receive("try_read")
    BY <1>3 DEF ExecuteTryRead
  <2>2. CASE TakeMessage(Msg.worker, Msg.session)
    BY <2>1, <2>2, TakeType, ReceiveType DEF TypeOK
  <2>3. CASE /\ main' = Answer(Msg.worker, Msg.session, NoItem, 2)
             /\ UNCHANGED <<host, queue, pending, result>>
    <3>1. main' \in Answers /\ main'.worker \in Workers /\ main'.session \in Sessions
      BY <2>1, <2>3, ReceiveType, AnswerType, Items
    <3> QED
      BY <2>1, <2>3, <3>1, ReceiveType DEF TypeOK
  <2> QED
    BY <1>3, <2>2, <2>3 DEF ExecuteTryRead
<1>4. CASE ExecutePoll
  <2>1. Receive("poll")
    BY <1>4 DEF ExecutePoll
  <2>2. PICK status \in 1..2 : main' = Answer(Msg.worker, Msg.session, NoItem, status)
    BY <1>4 DEF ExecutePoll
  <2>3. main' \in Answers /\ main'.worker \in Workers /\ main'.session \in Sessions
    BY <2>1, <2>2, ReceiveType, AnswerType, Items
  <2> QED
    BY <1>4, <2>1, <2>3, ReceiveType DEF TypeOK, ExecutePoll
<1>5. CASE ExecuteReadComplete
  <2>1. Receive("complete")
    BY <1>5 DEF ExecuteReadComplete
  <2>2. main' = Answer(Msg.worker, Msg.session, Msg.item, 1)
    BY <1>5 DEF ExecuteReadComplete
  <2>3. main' \in Answers /\ main'.worker \in Workers /\ main'.session \in Sessions
    BY <2>1, <2>2, ReceiveType, AnswerType
  <2> QED
    BY <1>5, <2>1, <2>3, ReceiveType DEF TypeOK, ExecuteReadComplete
<1> QED
  BY <1>1, <1>2, <1>3, <1>4, <1>5 DEF Execute

\* An answer goes on to its next step with the same worker and session.
LEMMA MainPcType ==
  ASSUME TypeOK, NEW pc \in {"body", "status", "notify"}, main.pc # "idle",
         main' = [main EXCEPT !.pc = pc]
  PROVE  /\ main' \in Answers
         /\ main'.pc # "idle" => main'.worker \in Workers /\ main'.session \in Sessions
BY DEF TypeOK, Answers

\* Storing an answer keeps the types.
LEMMA StoreType ==
  ASSUME TypeOK, Store
  PROVE  TypeOK'
<1> DEFINE w == main.worker
<1>1. CASE StoreBody
  <2>1. w \in Workers /\ main.session \in Sessions /\ main.item \in 0..Exit
    BY <1>1 DEF TypeOK, StoreBody, Answers
  <2>2. PICK item \in 0..Exit :
          view' = [view EXCEPT ![w] = [view[w] EXCEPT !.session = main.session, !.item = item]]
    <3>1. view[w].item \in 0..Exit
      BY <2>1 DEF TypeOK, Views
    <3> QED
      BY <1>1, <2>1, <3>1 DEF StoreBody
  <2>3. [view[w] EXCEPT !.session = main.session, !.item = item] \in Views
    <3>1. view[w] \in Views
      BY <2>1 DEF TypeOK
    <3> QED
      BY <2>1, <3>1 DEF Views
  <2>4. view' \in [Workers -> Views]
    BY <2>2, <2>3 DEF TypeOK
  <2>5. /\ main' \in Answers
        /\ main'.pc # "idle" => main'.worker \in Workers /\ main'.session \in Sessions
    BY <1>1, MainPcType DEF StoreBody
  <2> QED
    BY <1>1, <2>4, <2>5 DEF TypeOK, StoreBody
<1>2. CASE StoreStatus
  <2>1. w \in Workers /\ main.status \in 0..2
    BY <1>2 DEF TypeOK, StoreStatus, Answers
  <2>2. view' = [view EXCEPT ![w] = [view[w] EXCEPT !.status = main.status]]
    BY <1>2 DEF StoreStatus
  <2>3. [view[w] EXCEPT !.status = main.status] \in Views
    <3>1. view[w] \in Views
      BY <2>1 DEF TypeOK
    <3> QED
      BY <2>1, <3>1 DEF Views
  <2>4. view' \in [Workers -> Views]
    BY <2>2, <2>3 DEF TypeOK
  <2>5. /\ main' \in Answers
        /\ main'.pc # "idle" => main'.worker \in Workers /\ main'.session \in Sessions
    BY <1>2, MainPcType DEF StoreStatus
  <2>6. early' \in BOOLEAN
    BY <1>2 DEF StoreStatus
  <2> QED
    BY <1>2, <2>4, <2>5, <2>6 DEF TypeOK, StoreStatus
<1>3. CASE Notify
  <2>1. w \in Workers
    BY <1>3 DEF TypeOK, Notify
  <2>2. main' \in Answers /\ main'.pc = "idle"
    BY <1>3, Items DEF Notify, Answers, Idle
  <2>3. CASE worker[w].pc = "blocked"
    <3>1. worker' = [worker EXCEPT ![w].pc = "load"]
      BY <1>3, <2>3 DEF Notify
    <3>2. /\ worker' \in [Workers -> WorkerStates]
          /\ \A v \in Workers : worker'[v].pc # "run" => worker'[v].session \in Sessions
      BY <2>1, <2>3, <3>1, PcType
    <3> QED
      BY <1>3, <2>2, <3>2 DEF TypeOK, Notify
  <2>4. CASE worker[w].pc # "blocked"
    <3>1. worker' = [worker EXCEPT ![w].pc = worker[w].pc]
      BY <1>3, <2>4 DEF Notify
    <3>2. worker[w].pc \in {"run", "reset", "wait", "blocked", "load"}
      BY <2>1 DEF TypeOK, WorkerStates
    <3>3. /\ worker' \in [Workers -> WorkerStates]
          /\ \A v \in Workers : worker'[v].pc # "run" => worker'[v].session \in Sessions
      BY <2>1, <3>1, <3>2, PcType
    <3> QED
      BY <1>3, <2>2, <3>3 DEF TypeOK, Notify
  <2> QED
    BY <2>3, <2>4
<1> QED
  BY <1>1, <1>2, <1>3 DEF Store

-----------------------------------------------------------------------------
(* The handler's callbacks.                                                *)

\* Answering a pending read through the mailbox keeps the types.
LEMMA CompleteType ==
  ASSUME TypeOK, NEW s \in Sessions, NEW item \in 0..Exit,
         pending[s] # NoWorker, Complete(s, item)
  PROVE  /\ mailbox' \in Seq(Messages)
         /\ pending' \in [Sessions -> Workers \cup {NoWorker}]
<1>1. pending[s] \in Workers
  BY DEF TypeOK
<1>2. Message("complete", pending[s], s, item) \in Messages
  BY <1>1, MessageType
<1> QED
  BY <1>2 DEF TypeOK, Complete

\* A new message of a handler has a number, and nothing else changes with it.
LEMMA ProduceType ==
  ASSUME TypeOK, NEW s \in Sessions, Produce(s)
  PROVE  /\ produced' \in [Sessions -> 0..MaxOutput]
         /\ produced'[s] \in 1..MaxOutput /\ produced'[s] \in 0..Exit
         /\ UNCHANGED <<worker, view, wire, main, host, owner, due, result, reads, exits, early>>
<1>1. produced[s] \in 0..MaxOutput /\ produced[s] < MaxOutput
  BY DEF TypeOK, Produce
<1>2. produced[s] + 1 \in 1..MaxOutput
  BY <1>1, Items
<1>3. produced' = [produced EXCEPT ![s] = produced[s] + 1]
  BY DEF Produce
<1>4. produced'[s] = produced[s] + 1
  BY <1>3 DEF TypeOK
<1>5. produced' \in [Sessions -> 0..MaxOutput]
  BY <1>2, <1>3, Items DEF TypeOK
<1> QED
  BY <1>2, <1>4, <1>5, Items DEF Produce

\* The callbacks and the end of the handler keep the types.
LEMMA HostType ==
  ASSUME TypeOK, NEW s \in Sessions, OnOutput(s) \/ OnSpawn(s) \/ Settle(s)
  PROVE  TypeOK'
<1>1. CASE OnOutput(s)
  <2>1. Produce(s)
    BY <1>1 DEF OnOutput
  <2>2. CASE pending[s] # NoWorker
    BY <1>1, <2>1, <2>2, ProduceType, CompleteType DEF TypeOK, OnOutput
  <2>3. CASE pending[s] = NoWorker
    <3>1. queue' = [queue EXCEPT ![s] = Append(queue[s], produced'[s])]
      BY <1>1, <2>3 DEF OnOutput
    <3>2. queue' \in [Sessions -> Seq(1..MaxOutput)]
      BY <2>1, <3>1, ProduceType DEF TypeOK
    <3> QED
      BY <1>1, <2>1, <2>3, <3>2, ProduceType DEF TypeOK, OnOutput
  <2> QED
    BY <2>2, <2>3
<1>2. CASE OnSpawn(s)
  <2> DEFINE queued == Append(queue[s], produced'[s])
  <2>1. Produce(s)
    BY <1>2 DEF OnSpawn
  <2>2. queued \in Seq(1..MaxOutput) /\ queued # <<>>
    <3>1. queue[s] \in Seq(1..MaxOutput) /\ produced'[s] \in 1..MaxOutput
      BY <2>1, ProduceType DEF TypeOK
    <3> QED
      BY <3>1, PutInto
  <2>3. Head(queued) \in 1..MaxOutput /\ Tail(queued) \in Seq(1..MaxOutput)
    BY <2>2, TakeFrom
  <2>4. Head(queued) \in 0..Exit
    BY <2>3, Items
  <2>5. CASE pending[s] # NoWorker
    <3>1. Complete(s, Head(queued)) /\ queue' = [queue EXCEPT ![s] = Tail(queued)]
      BY <1>2, <2>5 DEF OnSpawn
    <3>2. queue' \in [Sessions -> Seq(1..MaxOutput)]
      BY <2>3, <3>1 DEF TypeOK
    <3>3. /\ mailbox' \in Seq(Messages)
          /\ pending' \in [Sessions -> Workers \cup {NoWorker}]
      BY <2>4, <2>5, <3>1, CompleteType
    <3> QED
      BY <2>1, <3>2, <3>3, ProduceType DEF TypeOK
  <2>6. CASE pending[s] = NoWorker
    <3>1. /\ queue' = [queue EXCEPT ![s] = queued]
          /\ UNCHANGED <<mailbox, pending>>
      BY <1>2, <2>6 DEF OnSpawn
    <3>2. queue' \in [Sessions -> Seq(1..MaxOutput)]
      BY <2>2, <3>1 DEF TypeOK
    <3> QED
      BY <2>1, <3>1, <3>2, ProduceType DEF TypeOK
  <2> QED
    BY <2>5, <2>6
<1>3. CASE Settle(s)
  <2>1. /\ host' \in [Sessions -> {"none", "running", "returned", "failed", "settled"}]
        /\ result' \in [Sessions -> BOOLEAN] /\ due' \in [Sessions -> 0..MaxOutput]
    BY <1>3 DEF TypeOK, Settle
  <2>2. /\ mailbox' \in Seq(Messages)
        /\ pending' \in [Sessions -> Workers \cup {NoWorker}]
    <3>1. CASE pending[s] # NoWorker
      BY <1>3, <3>1, CompleteType, Items DEF Settle
    <3>2. CASE pending[s] = NoWorker
      BY <1>3, <3>2 DEF Settle, TypeOK
    <3> QED
      BY <3>1, <3>2
  <2> QED
    BY <1>3, <2>1, <2>2 DEF TypeOK, Settle
<1> QED
  BY <1>1, <1>2, <1>3

-----------------------------------------------------------------------------
(* The theorems about all behaviours, also with answers that come early.    *)

\* Every step keeps the types.
LEMMA TypeStep == TypeOK /\ [Next]_vars => TypeOK'
<1> SUFFICES ASSUME TypeOK, [Next]_vars PROVE TypeOK'
  OBVIOUS
<1>1. CASE \E w \in Workers, s \in Sessions : Start(w, s)
  BY <1>1, PostType
<1>2. CASE \E w \in Workers, op \in Ops, s \in Sessions : Request(w, op, s)
  BY <1>2, PostType
<1>3. CASE \E w \in Workers : Resume(w) \/ Deliver(w)
  BY <1>3, ResumeType, DeliverType
<1>4. CASE Execute \/ Store
  BY <1>4, ExecuteType, StoreType
<1>5. CASE \E s \in Sessions : OnOutput(s) \/ OnSpawn(s) \/ Settle(s)
  BY <1>5, HostType
<1>6. CASE UNCHANGED vars
  BY <1>6 DEF vars, mainVars, TypeOK
<1> QED
  BY <1>1, <1>2, <1>3, <1>4, <1>5, <1>6 DEF Next

\* Every request, queue, answer and buffer keeps its type, for any number of
\* workers, sessions and messages.
THEOREM TypeCorrect == Spec => []TypeOK
BY InitType, TypeStep, PTL DEF Spec

\* A read that is left pending finds nothing to take.
LEMMA PendingStep == TypeOK /\ PendingMeansEmpty /\ [Next]_vars => PendingMeansEmpty'
<1> SUFFICES ASSUME TypeOK, PendingMeansEmpty, [Next]_vars, NEW v \in Sessions,
                    pending'[v] # NoWorker
             PROVE  Ready(v)' = FALSE
  BY DEF PendingMeansEmpty, Ready
<1>1. CASE UNCHANGED <<queue, pending, result>>
  BY <1>1 DEF PendingMeansEmpty, Ready
<1>2. ASSUME NEW s \in Sessions, NEW w, TakeMessage(w, s)
      PROVE  Ready(v)' = FALSE
  <2>1. pending[s] = NoWorker /\ UNCHANGED pending
    BY <1>2 DEF TakeMessage, PendingMeansEmpty
  <2>2. v # s
    BY <2>1
  <2>3. queue'[v] = queue[v] /\ result'[v] = result[v]
    BY <1>2, <2>2 DEF TakeMessage, TypeOK
  <2> QED
    BY <2>1, <2>3 DEF PendingMeansEmpty, Ready
<1>3. CASE ExecuteRead \/ ExecuteTryRead
  <2>1. Msg.session \in Sessions
    BY <1>3, ReceiveType DEF ExecuteRead, ExecuteTryRead
  <2>2. CASE TakeMessage(Msg.worker, Msg.session)
    BY <1>2, <2>1, <2>2
  <2>3. CASE /\ ExecuteRead /\ ~Ready(Msg.session)
             /\ pending' = [pending EXCEPT ![Msg.session] = Msg.worker]
             /\ UNCHANGED <<queue, result>>
    <3>1. CASE v = Msg.session
      BY <2>3, <3>1 DEF Ready
    <3>2. CASE v # Msg.session
      BY <2>3, <3>2 DEF PendingMeansEmpty, Ready, TypeOK
    <3> QED
      BY <3>1, <3>2
  <2> QED
    BY <1>1, <1>3, <2>2, <2>3 DEF ExecuteRead, ExecuteTryRead
<1>4. ASSUME NEW s \in Sessions, OnOutput(s) \/ OnSpawn(s) \/ Settle(s)
      PROVE  Ready(v)' = FALSE
  <2>1. pending'[s] = NoWorker
    BY <1>4 DEF OnOutput, OnSpawn, Settle, Complete, TypeOK
  <2>2. v # s
    BY <2>1
  <2>3. pending'[v] = pending[v] /\ queue'[v] = queue[v] /\ result'[v] = result[v]
    BY <1>4, <2>2 DEF OnOutput, OnSpawn, Settle, Complete, Produce, TypeOK
  <2> QED
    BY <2>3 DEF PendingMeansEmpty, Ready
<1>5. CASE \E w \in Workers, s \in Sessions : Start(w, s)
  BY <1>1, <1>5 DEF Start, mainVars
<1>6. CASE \E w \in Workers, op \in Ops, s \in Sessions : Request(w, op, s)
  BY <1>1, <1>6 DEF Request, mainVars
<1>7. CASE \E w \in Workers : Resume(w) \/ Deliver(w)
  BY <1>1, <1>7 DEF Resume, ResetStatus, Wait, Load, Deliver, mainVars
<1>8. CASE ExecuteStart \/ ExecutePoll \/ ExecuteReadComplete \/ Store
  BY <1>1, <1>8 DEF ExecuteStart, ExecutePoll, ExecuteReadComplete, Store,
                    StoreBody, StoreStatus, Notify
<1>9. CASE UNCHANGED vars
  BY <1>1, <1>9 DEF vars, mainVars
<1> QED
  BY <1>3, <1>4, <1>5, <1>6, <1>7, <1>8, <1>9 DEF Next, Execute

\* A message or an exit code that goes past the queue to a pending read
\* overtakes nothing, whenever the answers come and whoever asks.
THEOREM NothingIsOvertaken == Spec => []PendingMeansEmpty
<1>1. Init => PendingMeansEmpty
  BY DEF Init, PendingMeansEmpty
<1> QED
  BY TypeCorrect, PendingStep, <1>1, PTL DEF Spec

-----------------------------------------------------------------------------
(* While no answer has come early: the inductive invariant.                *)

\* The elements of q, and how many of them are in S.
In(q) == {q[i] : i \in DOMAIN q}
Found(q, S) == {i \in DOMAIN q : q[i] \in S}
Count(q, S) == Cardinality(Found(q, S))

Asks(w) == {m \in Messages : m.type # "start" /\ m.worker = w}
Starts(s) == {m \in Messages : m.type = "start" /\ m.session = s}

\* A worker has one request at most, and none when it is not waiting; nothing
\* is stored for a worker that has yet to look at the status it has reset.
OneRequest(w) ==
    /\ IsFiniteSet(PendingOf(w))
    /\ Owed(w) <= 1
    /\ worker[w].pc \in {"run", "load"} => Owed(w) = 0
    /\ worker[w].pc = "wait" => view[w].status = 0
    /\ main.pc = "notify" /\ main.worker = w => worker[w].pc = "blocked" /\ Owed(w) = 0

\* Whatever is on its way for a worker is for the request it has made.
For(w, s, type) ==
    /\ owner[s] = w /\ worker[w].session = s
    /\ worker[w].op = IF type = "complete" THEN "read" ELSE type
Sent(w, m) ==
    /\ m.worker = w /\ m.type # "complete"
    /\ IF m.type = "start" THEN owner[m.session] = w ELSE For(w, m.session, m.type)
Asked(m) == m.type # "start" => For(m.worker, m.session, m.type)
Mine ==
    /\ \A w \in Workers : worker[w].pc # "run" => owner[worker[w].session] = w
    /\ \A w \in Workers : \A m \in In(wire[w]) : Sent(w, m)
    /\ \A m \in In(mailbox) : Asked(m)
    /\ \A s \in Sessions : pending[s] # NoWorker => For(pending[s], s, "read")
    /\ main.pc # "idle" => For(main.worker, main.session, worker[main.worker].op)

\* An answer is of the kind its request asks for, and is stored word by word.
Fits(op, item, status) ==
    /\ status = 1 \/ (status = 2 /\ op # "read")
    /\ (item # NoItem) = (status = 1 /\ op # "poll")
Stored ==
    /\ \A m \in In(mailbox) : m.type = "complete" => m.item # NoItem
    /\ LET w == main.worker
       IN /\ main.pc # "idle" => Fits(worker[w].op, main.item, main.status)
          /\ main.pc \in {"status", "notify"} =>
               /\ view[w].session = main.session
               /\ main.item # NoItem => view[w].item = main.item
          /\ main.pc = "notify" => view[w].status = main.status
    /\ \A w \in Workers : worker[w].pc = "load" =>
         /\ view[w].session = worker[w].session
         /\ view[w].status = 1 \/ (view[w].status = 2 /\ worker[w].op # "read")

\* A session is started once, by its owner.
StartedOnce(s) ==
    /\ \A w \in Workers : Count(wire[w], Starts(s)) + Count(mailbox, Starts(s)) <= 1
    /\ owner[s] = NoWorker => host[s] = "none"
    /\ owner[s] = NoWorker \/ host[s] # "none" =>
         Count(mailbox, Starts(s)) = 0 /\ \A w \in Workers : Count(wire[w], Starts(s)) = 0

\* What has left the queue of a session and was not read yet.
Given(s, item) ==
    \/ main.pc # "idle" /\ main.session = s /\ main.item = item /\ item # NoItem
    \/ \E m \in In(mailbox) : m.type = "complete" /\ m.session = s /\ m.item = item
    \/ \E w \in Workers :
         /\ worker[w].pc = "load" /\ worker[w].session = s /\ worker[w].op # "poll"
         /\ view[w].status = 1 /\ view[w].item = item

\* A handler's messages are read, given or queued, in this order.  The exit code
\* is given when all it had produced before its promise settled were read, and
\* it is read twice at most: once for a pending read and once for the result.
One(P) == IF P THEN 1 ELSE 0
Due(s) == host[s] = "settled" /\ due[s] <= Len(reads[s])
Ordered(s) ==
    LET n == Len(reads[s]) + (IF \E k \in 1..MaxOutput : Given(s, k) THEN 1 ELSE 0)
    IN /\ \A k \in 0..MaxOutput : Given(s, k) => k = Len(reads[s]) + 1
       /\ produced[s] = n + Len(queue[s])
       /\ \A i \in 1..Len(queue[s]) : queue[s][i] = n + i
       /\ due[s] <= produced[s]
ExitLast(s) ==
    /\ Given(s, Exit) => Due(s)
    /\ exits[s] + One(Given(s, Exit)) + One(result[s]) <= 2
    /\ host[s] # "settled" => exits[s] = 0 /\ ~Given(s, Exit) /\ ~result[s]

InOrder ==
    /\ \A w \in Workers : OneRequest(w)
    /\ Mine /\ Stored
    /\ \A s \in Sessions : StartedOnce(s) /\ Ordered(s) /\ ExitLast(s)

IInv == TypeOK /\ PendingMeansEmpty /\ (early \/ InOrder)

-----------------------------------------------------------------------------
(* Counting in queues.                                                     *)

LEMMA FoundFinite ==
  ASSUME NEW T, NEW q \in Seq(T), NEW S
  PROVE  IsFiniteSet(Found(q, S)) /\ Count(q, S) \in Nat
<1>1. Len(q) \in Nat /\ Found(q, S) \in SUBSET (1..Len(q))
  BY DEF Found
<1>2. IsFiniteSet(1..Len(q))
  BY <1>1, FS_Interval
<1> QED
  BY <1>1, <1>2, FS_Subset, FS_CardinalityType DEF Count

\* Nothing is counted where nothing is.
LEMMA CountNone ==
  ASSUME NEW T, NEW q \in Seq(T), NEW S
  PROVE  (Count(q, S) = 0) <=> \A m \in In(q) : m \notin S
<1>1. (Count(q, S) = 0) <=> (Found(q, S) = {})
  BY FoundFinite, FS_EmptySet DEF Count
<1> QED
  BY <1>1 DEF Found, In

\* What is in a queue after a message has come or gone.
LEMMA InAppend ==
  ASSUME NEW T, NEW q \in Seq(T), NEW e \in T
  PROVE  \A m : m \in In(Append(q, e)) <=> m \in In(q) \/ m = e
<1>1. /\ Len(q) \in Nat /\ DOMAIN q = 1..Len(q) /\ DOMAIN Append(q, e) = 1..(Len(q) + 1)
      /\ \A i \in 1..Len(q) : Append(q, e)[i] = q[i]
      /\ Append(q, e)[Len(q) + 1] = e
  OBVIOUS
<1>2. \A i : i \in 1..(Len(q) + 1) <=> i \in 1..Len(q) \/ i = Len(q) + 1
  BY <1>1
<1> QED
  BY <1>1, <1>2 DEF In

LEMMA InTail ==
  ASSUME NEW T, NEW q \in Seq(T), q # <<>>
  PROVE  \A m : m \in In(q) <=> m \in In(Tail(q)) \/ m = Head(q)
<1>1. /\ Len(q) \in Nat /\ DOMAIN q = 1..Len(q) /\ DOMAIN Tail(q) = 1..(Len(q) - 1)
      /\ \A i \in 1..(Len(q) - 1) : i + 1 \in 1..Len(q) /\ Tail(q)[i] = q[i + 1]
      /\ \A i \in 1..Len(q) : i = 1 \/ (i - 1 \in 1..(Len(q) - 1) /\ (i - 1) + 1 = i)
      /\ Head(q) = q[1] /\ 1 \in 1..Len(q)
  OBVIOUS
<1>2. \A m : m \in In(Tail(q)) => m \in In(q)
  BY <1>1 DEF In
<1>3. Head(q) \in In(q)
  BY <1>1 DEF In
<1>4. ASSUME NEW m \in In(q), m # Head(q) PROVE m \in In(Tail(q))
  <2>1. PICK i \in 1..Len(q) : m = q[i]
    BY <1>1 DEF In
  <2>2. i - 1 \in DOMAIN Tail(q) /\ Tail(q)[i - 1] = m
    BY <1>1, <1>4, <2>1
  <2> QED
    BY <2>2 DEF In
<1> QED
  BY <1>2, <1>3, <1>4

LEMMA InType ==
  ASSUME NEW T, NEW q \in Seq(T)
  PROVE  \A m \in In(q) : m \in T
BY DEF In

LEMMA CountAppend ==
  ASSUME NEW T, NEW q \in Seq(T), NEW e \in T, NEW S
  PROVE  Count(Append(q, e), S) = Count(q, S) + IF e \in S THEN 1 ELSE 0
<1> DEFINE F == Found(q, S)
           n == Len(q) + 1
<1>1. /\ Len(q) \in Nat /\ DOMAIN q = 1..Len(q) /\ DOMAIN Append(q, e) = 1..n
      /\ \A i \in 1..Len(q) : Append(q, e)[i] = q[i]
      /\ Append(q, e)[n] = e
  OBVIOUS
<1>2. n \notin F
  BY <1>1 DEF Found
<1>3. Found(Append(q, e), S) = IF e \in S THEN F \cup {n} ELSE F
  BY <1>1 DEF Found
<1>4. IsFiniteSet(F) /\ Cardinality(F) \in Nat /\ Count(q, S) = Cardinality(F)
  BY FoundFinite DEF Count
<1> HIDE DEF F, n
<1>5. Cardinality(F \cup {n}) = Cardinality(F) + 1
  BY <1>2, <1>4, FS_AddElement
<1> QED
  BY <1>3, <1>4, <1>5 DEF Count

LEMMA CountTail ==
  ASSUME NEW T, NEW q \in Seq(T), q # <<>>, NEW S
  PROVE  /\ Count(Tail(q), S) \in Nat
         /\ Count(q, S) = Count(Tail(q), S) + IF Head(q) \in S THEN 1 ELSE 0
<1> DEFINE F == Found(q, S)
           R == Found(Tail(q), S)
           next == [i \in R |-> i + 1]
<1>1. /\ Len(q) \in Nat /\ DOMAIN q = 1..Len(q) /\ DOMAIN Tail(q) = 1..(Len(q) - 1)
      /\ \A i \in 1..(Len(q) - 1) : i + 1 \in 1..Len(q) /\ Tail(q)[i] = q[i + 1]
      /\ Head(q) = q[1] /\ 1 \in 1..Len(q) /\ Tail(q) \in Seq(T)
  OBVIOUS
<1>2. \A i \in R : i \in 1..(Len(q) - 1) /\ i + 1 \in F \ {1}
  BY <1>1 DEF Found
<1>3. \A m \in F \ {1} : m - 1 \in R /\ m = (m - 1) + 1
  BY <1>1 DEF Found
<1>4. next \in Bijection(R, F \ {1})
  <2>1. next \in [R -> F \ {1}]
    BY <1>2
  <2>2. \A i, k \in R : next[i] = next[k] => i = k
    BY <1>2
  <2>3. \A m \in F \ {1} : \E i \in R : next[i] = m
    BY <1>3
  <2> HIDE DEF next, R, F
  <2> QED
    BY <2>1, <2>2, <2>3 DEF Bijection, Injection, Surjection, IsInjective
<1>5. IsFiniteSet(R) /\ IsFiniteSet(F) /\ Cardinality(F) \in Nat /\ Cardinality(R) \in Nat
  BY <1>1, FoundFinite DEF Count
<1>6. Cardinality(F \ {1}) = Cardinality(R)
  BY <1>4, <1>5, FS_Bijection DEF ExistsBijection
<1>7. 1 \in F <=> Head(q) \in S
  BY <1>1 DEF Found
<1>8. Cardinality(F \ {1}) = IF 1 \in F THEN Cardinality(F) - 1 ELSE Cardinality(F)
  BY <1>5, FS_RemoveElement
<1> HIDE DEF F, R
<1> QED
  BY <1>5, <1>6, <1>7, <1>8 DEF F, R, Count

-----------------------------------------------------------------------------
(* Where the request of a worker is.                                       *)

\* The answer that the main thread is storing.
Answering(w) == IF main.pc \in {"body", "status"} /\ main.worker = w THEN 1 ELSE 0

LEMMA AsksAreFound ==
  ASSUME NEW q \in Seq(Messages), NEW w
  PROVE  Cardinality(AsksIn(q, w)) = Count(q, Asks(w))
<1>1. AsksIn(q, w) = Found(q, Asks(w))
  <2>1. \A i \in DOMAIN q : q[i] \in Messages
    OBVIOUS
  <2> QED
    BY <2>1 DEF AsksIn, Found, Asks
<1> QED
  BY <1>1 DEF Count

LEMMA OwedIs ==
  ASSUME TypeOK, NEW w \in Workers, IsFiniteSet(PendingOf(w))
  PROVE  /\ Count(wire[w], Asks(w)) \in Nat /\ Count(mailbox, Asks(w)) \in Nat
         /\ Cardinality(PendingOf(w)) \in Nat /\ Answering(w) \in {0, 1}
         /\ Owed(w) = Count(wire[w], Asks(w)) + Count(mailbox, Asks(w))
                        + Cardinality(PendingOf(w)) + Answering(w)
<1>1. wire[w] \in Seq(Messages) /\ mailbox \in Seq(Messages)
  BY DEF TypeOK
<1>2. Owed(w) = Count(wire[w], Asks(w)) + Count(mailbox, Asks(w))
                  + Cardinality(PendingOf(w)) + Answering(w)
  BY <1>1, AsksAreFound DEF Owed, Answering
<1> QED
  BY <1>1, <1>2, FoundFinite, FS_CardinalityType DEF Answering

LEMMA OwedNext ==
  ASSUME TypeOK', NEW w \in Workers, IsFiniteSet(PendingOf(w)')
  PROVE  /\ Count(wire'[w], Asks(w)) \in Nat /\ Count(mailbox', Asks(w)) \in Nat
         /\ Cardinality(PendingOf(w)') \in Nat /\ Answering(w)' \in {0, 1}
         /\ Owed(w)' = Count(wire'[w], Asks(w)) + Count(mailbox', Asks(w))
                        + Cardinality(PendingOf(w)') + Answering(w)'
<1>1. wire'[w] \in Seq(Messages) /\ mailbox' \in Seq(Messages)
  BY DEF TypeOK
<1>2. /\ Cardinality(AsksIn(wire'[w], w)) = Count(wire'[w], Asks(w))
      /\ Cardinality(AsksIn(mailbox', w)) = Count(mailbox', Asks(w))
  BY <1>1, AsksAreFound
<1>3. Owed(w)' = Count(wire'[w], Asks(w)) + Count(mailbox', Asks(w))
                  + Cardinality(PendingOf(w)') + Answering(w)'
  BY <1>2 DEF Owed, Answering
<1> QED
  BY <1>1, <1>3, FoundFinite, FS_CardinalityType DEF Answering

\* No request of worker w, and no answer to it, is in queue q.
NoneIn(q, w) == \A m \in In(q) : m.type = "start" \/ m.worker # w

LEMMA NoneCounted ==
  ASSUME NEW q \in Seq(Messages), NEW w
  PROVE  (Count(q, Asks(w)) = 0) <=> NoneIn(q, w)
<1>1. (Count(q, Asks(w)) = 0) <=> \A m \in In(q) : m \notin Asks(w)
  BY CountNone
<1>2. \A m \in In(q) : m \in Messages
  BY InType
<1> QED
  BY <1>1, <1>2 DEF Asks, NoneIn

\* A worker that is not waiting has nothing on its way.
LEMMA Quiet ==
  ASSUME TypeOK, NEW w \in Workers, OneRequest(w), Owed(w) = 0
  PROVE  /\ NoneIn(wire[w], w) /\ NoneIn(mailbox, w) /\ PendingOf(w) = {}
         /\ Answering(w) = 0
<1>1. wire[w] \in Seq(Messages) /\ mailbox \in Seq(Messages) /\ IsFiniteSet(PendingOf(w))
  BY DEF TypeOK, OneRequest
<1>2. /\ Count(wire[w], Asks(w)) = 0 /\ Count(mailbox, Asks(w)) = 0
      /\ Cardinality(PendingOf(w)) = 0 /\ Answering(w) = 0
  BY <1>1, OwedIs
<1>3. PendingOf(w) = {}
  BY <1>1, <1>2, FS_EmptySet
<1> QED
  BY <1>1, <1>2, <1>3, NoneCounted

\* Elsewhere than where it is, there is nothing else for a worker: if it is in
\* front of the mailbox,
LEMMA MsgAlone ==
  ASSUME TypeOK, NEW w \in Workers, OneRequest(w),
         main.pc = "idle", mailbox # <<>>, Msg.type # "start", Msg.worker = w
  PROVE  /\ NoneIn(wire[w], w) /\ NoneIn(Tail(mailbox), w) /\ PendingOf(w) = {}
         /\ Owed(w) = 1 /\ worker[w].pc \notin {"run", "load"}
<1>1. wire[w] \in Seq(Messages) /\ mailbox \in Seq(Messages) /\ IsFiniteSet(PendingOf(w))
  BY DEF TypeOK, OneRequest
<1>2. Msg \in Messages /\ Tail(mailbox) \in Seq(Messages) /\ Msg = Head(mailbox)
  BY MsgType DEF Msg
<1>3. Msg \in Asks(w)
  BY <1>2 DEF Asks
<1>4. Count(mailbox, Asks(w)) = Count(Tail(mailbox), Asks(w)) + 1
      /\ Count(Tail(mailbox), Asks(w)) \in Nat
  BY <1>1, <1>2, <1>3, CountTail
<1>5. Owed(w) <= 1 /\ (worker[w].pc \in {"run", "load"} => Owed(w) = 0)
  BY DEF OneRequest
<1>6. /\ Count(wire[w], Asks(w)) = 0 /\ Count(Tail(mailbox), Asks(w)) = 0
      /\ Cardinality(PendingOf(w)) = 0 /\ Owed(w) = 1
  BY <1>1, <1>4, <1>5, OwedIs
<1>7. PendingOf(w) = {}
  BY <1>1, <1>6, FS_EmptySet
<1>8. NoneIn(wire[w], w) /\ NoneIn(Tail(mailbox), w)
  BY <1>1, <1>2, <1>6, NoneCounted
<1> QED
  BY <1>5, <1>6, <1>7, <1>8

\* if it is a pending read,
LEMMA PendingAlone ==
  ASSUME TypeOK, NEW w \in Workers, OneRequest(w), NEW s \in Sessions, pending[s] = w
  PROVE  /\ NoneIn(wire[w], w) /\ NoneIn(mailbox, w) /\ PendingOf(w) = {s}
         /\ Answering(w) = 0 /\ Owed(w) = 1 /\ worker[w].pc \notin {"run", "load"}
         /\ main.pc # "idle" => main.worker # w
<1>1. wire[w] \in Seq(Messages) /\ mailbox \in Seq(Messages) /\ IsFiniteSet(PendingOf(w))
  BY DEF TypeOK, OneRequest
<1>2. s \in PendingOf(w)
  BY DEF PendingOf
<1>3. Cardinality(PendingOf(w)) # 0
  BY <1>1, <1>2, FS_EmptySet
<1>4. /\ Owed(w) <= 1 /\ (worker[w].pc \in {"run", "load"} => Owed(w) = 0)
      /\ main.pc = "notify" /\ main.worker = w => Owed(w) = 0
  BY DEF OneRequest
<1>5. /\ Count(wire[w], Asks(w)) = 0 /\ Count(mailbox, Asks(w)) = 0
      /\ Cardinality(PendingOf(w)) = 1 /\ Answering(w) = 0 /\ Owed(w) = 1
  BY <1>1, <1>3, <1>4, OwedIs
<1>6. PendingOf(w) = {s}
  <2>1. \E x : PendingOf(w) = {x}
    BY <1>1, <1>5, FS_Singleton
  <2> QED
    BY <1>2, <2>1
<1>7. main.pc # "idle" => main.worker # w
  BY <1>4, <1>5 DEF Answering, TypeOK, Answers
<1> QED
  BY <1>1, <1>4, <1>5, <1>6, <1>7, NoneCounted

\* and if it is being answered.
LEMMA MainAlone ==
  ASSUME TypeOK, NEW w \in Workers, OneRequest(w),
         main.pc \in {"body", "status"}, main.worker = w
  PROVE  /\ NoneIn(wire[w], w) /\ NoneIn(mailbox, w) /\ PendingOf(w) = {}
         /\ Owed(w) = 1 /\ worker[w].pc \notin {"run", "load"}
<1>1. wire[w] \in Seq(Messages) /\ mailbox \in Seq(Messages) /\ IsFiniteSet(PendingOf(w))
  BY DEF TypeOK, OneRequest
<1>2. Answering(w) = 1
  BY DEF Answering
<1>3. Owed(w) <= 1 /\ (worker[w].pc \in {"run", "load"} => Owed(w) = 0)
  BY DEF OneRequest
<1>4. /\ Count(wire[w], Asks(w)) = 0 /\ Count(mailbox, Asks(w)) = 0
      /\ Cardinality(PendingOf(w)) = 0 /\ Owed(w) = 1
  BY <1>1, <1>2, <1>3, OwedIs
<1>5. PendingOf(w) = {}
  BY <1>1, <1>4, FS_EmptySet
<1> QED
  BY <1>1, <1>3, <1>4, <1>5, NoneCounted

\* What else a worker that waits for the notification can expect: nothing.
LEMMA NotifyAlone ==
  ASSUME TypeOK, NEW w \in Workers, OneRequest(w), main.pc = "notify", main.worker = w
  PROVE  /\ NoneIn(wire[w], w) /\ NoneIn(mailbox, w) /\ PendingOf(w) = {}
         /\ worker[w].pc = "blocked"
BY Quiet DEF OneRequest

-----------------------------------------------------------------------------
(* The steps of the workers.                                               *)

\* A step after which still no answer has come early.
InTime == TypeOK /\ TypeOK' /\ PendingMeansEmpty /\ InOrder /\ ~early'

\* What a step leaves as it was.
LEMMA OneRequestStays ==
  ASSUME NEW v, OneRequest(v), IsFiniteSet(PendingOf(v)'), Owed(v)' = Owed(v),
         worker'[v].pc = worker[v].pc, worker[v].pc = "wait" => view'[v].status = view[v].status,
         main'.pc = "notify" /\ main'.worker = v => main.pc = "notify" /\ main.worker = v
  PROVE  OneRequest(v)'
BY DEF OneRequest

LEMMA OwedStays ==
  ASSUME InTime, NEW v \in Workers, Count(wire'[v], Asks(v)) = Count(wire[v], Asks(v)),
         Count(mailbox', Asks(v)) = Count(mailbox, Asks(v)), pending' = pending,
         Answering(v)' = Answering(v)
  PROVE  IsFiniteSet(PendingOf(v)') /\ Owed(v)' = Owed(v)
<1>1. IsFiniteSet(PendingOf(v)) /\ PendingOf(v)' = PendingOf(v)
  BY DEF InTime, InOrder, OneRequest, PendingOf
<1>2. TypeOK /\ TypeOK'
  BY DEF InTime
<1>3. Owed(v) = Count(wire[v], Asks(v)) + Count(mailbox, Asks(v))
                        + Cardinality(PendingOf(v)) + Answering(v)
  BY <1>1, <1>2, OwedIs
<1>4. Owed(v)' = Count(wire'[v], Asks(v)) + Count(mailbox', Asks(v))
                        + Cardinality(PendingOf(v)') + Answering(v)'
  BY <1>1, <1>2, OwedNext
<1> QED
  BY <1>1, <1>3, <1>4

LEMMA OrderedStays ==
  ASSUME NEW s, Ordered(s) /\ ExitLast(s), queue'[s] = queue[s], produced'[s] = produced[s],
         due'[s] = due[s], reads'[s] = reads[s], exits'[s] = exits[s], result'[s] = result[s],
         host'[s] = host[s] \/ (host[s] # "settled" /\ host'[s] # "settled"),
         \A k \in 0..Exit : Given(s, k)' <=> Given(s, k)
  PROVE  Ordered(s)' /\ ExitLast(s)'
<1>1. 1..MaxOutput \subseteq 0..Exit /\ 0..MaxOutput \subseteq 0..Exit /\ Exit \in 0..Exit
  BY Items
<1>2. /\ (\E k \in 1..MaxOutput : Given(s, k)') <=> (\E k \in 1..MaxOutput : Given(s, k))
      /\ Given(s, Exit)' <=> Given(s, Exit)
  BY <1>1
<1>3. Due(s)' <=> Due(s)
  BY DEF Due
<1>4. Ordered(s)'
  BY <1>1, <1>2 DEF Ordered, One
<1>5. ExitLast(s)'
  BY <1>2, <1>3 DEF ExitLast, One
<1> QED
  BY <1>4, <1>5

LEMMA ExitLastStays ==
  ASSUME NEW s, ExitLast(s), UNCHANGED <<reads, exits, host, result, due>>,
         Given(s, Exit)' <=> Given(s, Exit)
  PROVE  ExitLast(s)'
<1>1. Due(s)' <=> Due(s)
  BY DEF Due
<1> QED
  BY <1>1 DEF ExitLast, One

\* The order after a step, with g of the messages given.
LEMMA OrderedNext ==
  ASSUME NEW s, NEW g, g = (IF \E k \in 1..MaxOutput : Given(s, k)' THEN 1 ELSE 0),
         \A k \in 0..MaxOutput : Given(s, k)' => k = Len(reads'[s]) + 1,
         produced'[s] = Len(reads'[s]) + g + Len(queue'[s]),
         \A i \in 1..Len(queue'[s]) : queue'[s][i] = Len(reads'[s]) + g + i,
         due'[s] <= produced'[s]
  PROVE  Ordered(s)'
BY DEF Ordered

\* What the order says of a session's sequences.
LEMMA OrderOf ==
  ASSUME InTime, NEW s \in Sessions
  PROVE  \E g \in {0, 1} :
           /\ g = IF \E k \in 1..MaxOutput : Given(s, k) THEN 1 ELSE 0
           /\ produced[s] = Len(reads[s]) + g + Len(queue[s])
           /\ \A i \in 1..Len(queue[s]) : queue[s][i] = Len(reads[s]) + g + i
           /\ \A k \in 0..MaxOutput : Given(s, k) => k = Len(reads[s]) + 1
           /\ due[s] <= produced[s] /\ due[s] \in Nat
           /\ Len(reads[s]) \in Nat /\ Len(queue[s]) \in Nat
           /\ reads[s] \in Seq(0..Exit) /\ queue[s] \in Seq(1..MaxOutput)
           /\ produced[s] \in 0..MaxOutput /\ produced[s] \in Nat /\ exits[s] \in Nat
<1>0. TypeOK /\ Ordered(s)
  BY DEF InTime, InOrder
<1>1. reads[s] \in Seq(0..Exit) /\ queue[s] \in Seq(1..MaxOutput)
  BY <1>0 DEF TypeOK
<1>2. produced[s] \in 0..MaxOutput /\ due[s] \in 0..MaxOutput /\ exits[s] \in Nat
  BY <1>0 DEF TypeOK
<1>3. produced[s] \in Nat /\ due[s] \in Nat
  BY <1>2, Items
<1>4. PICK g \in {0, 1} : g = IF \E k \in 1..MaxOutput : Given(s, k) THEN 1 ELSE 0
  OBVIOUS
<1>5. Len(reads[s]) \in Nat /\ Len(queue[s]) \in Nat
  BY <1>1
<1>6. /\ produced[s] = Len(reads[s]) + g + Len(queue[s])
      /\ \A i \in 1..Len(queue[s]) : queue[s][i] = Len(reads[s]) + g + i
      /\ \A k \in 0..MaxOutput : Given(s, k) => k = Len(reads[s]) + 1
      /\ due[s] <= produced[s]
  BY <1>0, <1>4 DEF Ordered
<1> QED
  BY <1>1, <1>2, <1>3, <1>4, <1>5, <1>6

\* If no message is given, what is not read is queued.
LEMMA OrderOfNone ==
  ASSUME InTime, NEW s \in Sessions, \A k : ~Given(s, k)
  PROVE  /\ produced[s] = Len(reads[s]) + Len(queue[s])
         /\ \A i \in 1..Len(queue[s]) : queue[s][i] = Len(reads[s]) + i
         /\ due[s] <= produced[s] /\ due[s] \in Nat
         /\ Len(reads[s]) \in Nat /\ Len(queue[s]) \in Nat
         /\ produced[s] \in Nat /\ exits[s] \in Nat
<1>1. PICK g \in {0, 1} :
        /\ g = IF \E k \in 1..MaxOutput : Given(s, k) THEN 1 ELSE 0
        /\ produced[s] = Len(reads[s]) + g + Len(queue[s])
        /\ \A i \in 1..Len(queue[s]) : queue[s][i] = Len(reads[s]) + g + i
        /\ due[s] <= produced[s] /\ due[s] \in Nat
        /\ Len(reads[s]) \in Nat /\ Len(queue[s]) \in Nat
        /\ produced[s] \in Nat /\ exits[s] \in Nat
  BY OrderOf
<1>2. g = 0
  BY <1>1
<1>3. Len(reads[s]) + 0 = Len(reads[s])
  BY <1>1
<1> QED
  BY <1>1, <1>2, <1>3

\* A message that is not counted may come or go.
LEMMA CountSkips ==
  ASSUME NEW q \in Seq(Messages), NEW e \in Messages, NEW S
  PROVE  /\ e \notin S => Count(Append(q, e), S) = Count(q, S)
         /\ e \in S => Count(Append(q, e), S) = Count(q, S) + 1
         /\ q # <<>> /\ Head(q) \notin S => Count(Tail(q), S) = Count(q, S)
         /\ q # <<>> /\ Head(q) \in S => Count(q, S) = Count(Tail(q), S) + 1
         /\ Count(q, S) \in Nat /\ Count(Append(q, e), S) \in Nat
         /\ q # <<>> => Count(Tail(q), S) \in Nat
<1>1. Count(q, S) \in Nat
  BY FoundFinite
<1>2. Count(Append(q, e), S) = Count(q, S) + IF e \in S THEN 1 ELSE 0
  BY CountAppend
<1>3. q # <<>> => /\ Count(Tail(q), S) \in Nat
                  /\ Count(q, S) = Count(Tail(q), S) + IF Head(q) \in S THEN 1 ELSE 0
  BY CountTail
<1> QED
  BY <1>1, <1>2, <1>3

\* Where the requests to start a session stay, it stays started once.
LEMMA StartedStays ==
  ASSUME NEW s, StartedOnce(s), owner'[s] = owner[s], host'[s] = host[s] \/ host[s] # "none",
         host'[s] # "none" \/ host[s] = "none",
         \A w \in Workers : Count(wire'[w], Starts(s)) = Count(wire[w], Starts(s)),
         Count(mailbox', Starts(s)) = Count(mailbox, Starts(s))
  PROVE  StartedOnce(s)'
<1>1. host'[s] = "none" <=> host[s] = "none"
  OBVIOUS
<1> QED
  BY <1>1 DEF StartedOnce, Starts

\* What was for a worker still is.
Kept == \A v \in Workers : \A u \in Sessions :
          /\ owner[u] = v => owner'[u] = v
          /\ \A type : For(v, u, type) => For(v, u, type)'

LEMMA SentStays ==
  ASSUME Kept, NEW v \in Workers, NEW m \in Messages, Sent(v, m)
  PROVE  Sent(v, m)'
BY DEF Kept, Sent, Messages

LEMMA AskedStays ==
  ASSUME Kept, NEW m \in Messages, Asked(m)
  PROVE  Asked(m)'
BY DEF Kept, Asked, Messages

LEMMA MineStays ==
  ASSUME InTime, Kept,
         \A v \in Workers : worker'[v].pc # "run" =>
           worker[v].pc # "run" /\ worker'[v].session = worker[v].session,
         \A v \in Workers : \A m \in In(wire'[v]) : m \in In(wire[v]) \/ Sent(v, m)',
         \A m \in In(mailbox') : m \in In(mailbox) \/ Asked(m)',
         \A u \in Sessions : pending'[u] # NoWorker =>
           pending'[u] = pending[u] \/ For(pending[u], u, "read")',
         main'.pc # "idle" => For(main.worker, main.session, worker[main.worker].op)'
  PROVE  Mine'
<1>1. Mine /\ TypeOK /\ TypeOK'
  BY DEF InTime, InOrder
<1>2. ASSUME NEW v \in Workers, worker'[v].pc # "run" PROVE owner'[worker'[v].session] = v
  <2>1. worker'[v].session \in Sessions
    BY <1>1, <1>2 DEF TypeOK
  <2>2. owner[worker'[v].session] = v
    BY <1>1, <1>2 DEF Mine
  <2> QED
    BY <2>1, <2>2 DEF Kept
<1>3. ASSUME NEW v \in Workers, NEW m \in In(wire'[v]) PROVE Sent(v, m)'
  <2>1. m \in Messages
    BY <1>1, InType DEF TypeOK
  <2> QED
    BY <1>1, <2>1, SentStays DEF Mine
<1>4. ASSUME NEW m \in In(mailbox') PROVE Asked(m)'
  <2>1. m \in Messages
    BY <1>1, InType DEF TypeOK
  <2> QED
    BY <1>1, <2>1, AskedStays DEF Mine
<1>5. \A u \in Sessions : pending'[u] # NoWorker => For(pending[u], u, "read")'
  BY <1>1 DEF Mine, Kept, TypeOK
<1> QED
  BY <1>2, <1>3, <1>4, <1>5 DEF Mine

LEMMA StartStep ==
  ASSUME InTime, NEW w \in Workers, NEW s \in Sessions, Start(w, s)
  PROVE  InOrder'
<1> DEFINE m == Message("start", w, s, NoItem)
<1>0. TypeOK /\ InOrder /\ TypeOK'
  BY DEF InTime
<1>1. /\ m \in Messages /\ m.type = "start" /\ m.session = s /\ m.worker = w
      /\ wire' = [wire EXCEPT ![w] = Append(wire[w], m)]
      /\ owner' = [owner EXCEPT ![s] = w] /\ owner[s] = NoWorker
      /\ UNCHANGED <<worker, view, reads, exits, early, mailbox, main, host, produced, due, queue, pending, result>>
  BY MessageType, Items DEF Start, mainVars, Message
<1> HIDE DEF m
<1>2. \A v \in Workers : wire[v] \in Seq(Messages)
  BY <1>0 DEF TypeOK
<1>3. ASSUME NEW v \in Workers PROVE OneRequest(v)'
  <2>1. Count(wire'[v], Asks(v)) = Count(wire[v], Asks(v))
    <3>1. CASE v = w
      <4>1. wire'[v] = Append(wire[v], m) /\ m \notin Asks(v)
        BY <1>0, <1>1, <3>1 DEF TypeOK, Asks
      <4>2. Count(wire[v], Asks(v)) \in Nat
        BY <1>2, FoundFinite
      <4> QED
        BY <1>1, <1>2, <4>1, <4>2, CountAppend
    <3>2. CASE v # w
      BY <1>0, <1>1, <3>2 DEF TypeOK
    <3> QED
      BY <3>1, <3>2
  <2>2. IsFiniteSet(PendingOf(v)') /\ Owed(v)' = Owed(v)
    BY <1>1, <2>1, OwedStays DEF Answering
  <2> QED
    BY <1>0, <1>1, <2>2, OneRequestStays DEF InOrder
<1>4. Mine'
  <2>1. \A v \in Workers : \A u \in Sessions : owner[u] = v => owner'[u] = v
    BY <1>0, <1>1, HostExecAssumption DEF TypeOK
  <2>2. Kept
    BY <1>1, <2>1 DEF For, Kept
  <2>3. Sent(w, m)'
    BY <1>0, <1>1 DEF Sent, TypeOK
  <2>4. \A v \in Workers : \A e \in In(wire'[v]) : e \in In(wire[v]) \/ Sent(v, e)'
    <3>1. \A e \in In(Append(wire[w], m)) : e \in In(wire[w]) \/ Sent(w, e)'
      BY <1>1, <1>2, <2>3, InAppend
    <3> QED
      BY <1>0, <1>1, <3>1 DEF TypeOK
  <2>5. main'.pc # "idle" => For(main.worker, main.session, worker[main.worker].op)'
    BY <1>0, <1>1, <2>2 DEF InOrder, Mine, TypeOK, Kept
  <2> QED
    BY <1>1, <2>2, <2>4, <2>5, MineStays
<1>5. Stored'
  BY <1>0, <1>1 DEF InOrder, Stored
<1>6. ASSUME NEW u \in Sessions PROVE StartedOnce(u)'
  <2>1. StartedOnce(u) /\ mailbox \in Seq(Messages)
    BY <1>0 DEF InOrder, TypeOK
  <2>2. CASE u = s
    <3>1. m \in Starts(u)
      BY <1>1, <2>2 DEF Starts
    <3>2. /\ \A v \in Workers : Count(wire[v], Starts(u)) = 0
          /\ Count(mailbox, Starts(u)) = 0 /\ host[u] = "none"
      BY <1>1, <2>1, <2>2 DEF StartedOnce
    <3>3. Count(Append(wire[w], m), Starts(u)) = 1
      BY <1>1, <1>2, <3>1, <3>2, CountSkips
    <3>4. \A v \in Workers : Count(wire'[v], Starts(u)) \in {0, 1}
      BY <1>0, <1>1, <3>2, <3>3 DEF TypeOK
    <3>5. owner'[u] # NoWorker
      BY <1>0, <1>1, <2>2, HostExecAssumption DEF TypeOK
    <3> QED
      <4>1. Starts(u)' = Starts(u)
        BY DEF Starts
      <4>2. Count(mailbox', Starts(u)) = 0
        BY <1>1, <3>2
      <4>3. \A v \in Workers : Count(wire'[v], Starts(u)) + Count(mailbox', Starts(u)) <= 1
        BY <3>4, <4>2
      <4>4. host'[u] = "none"
        BY <1>1, <3>2
      <4> QED
        BY <3>5, <4>1, <4>2, <4>3, <4>4 DEF StartedOnce
  <2>3. CASE u # s
    <3>1. m \notin Starts(u)
      BY <1>1, <2>3 DEF Starts
    <3>2. Count(Append(wire[w], m), Starts(u)) = Count(wire[w], Starts(u))
      BY <1>1, <1>2, <3>1, CountSkips
    <3>3. \A v \in Workers : Count(wire'[v], Starts(u)) = Count(wire[v], Starts(u))
      BY <1>0, <1>1, <3>2 DEF TypeOK
    <3> QED
      BY <1>0, <1>1, <2>1, <2>3, <3>3, StartedStays DEF TypeOK
  <2> QED
    BY <2>2, <2>3
<1>7. ASSUME NEW u \in Sessions PROVE Ordered(u)' /\ ExitLast(u)'
  BY <1>0, <1>1, OrderedStays DEF InOrder, Given
<1> QED
  BY <1>3, <1>4, <1>5, <1>6, <1>7 DEF InOrder

\* There is nothing on its way for a worker that runs or takes its answer.
LEMMA Unasked ==
  ASSUME InTime, NEW w \in Workers, worker[w].pc \in {"run", "load"}
  PROVE  /\ NoneIn(wire[w], w) /\ NoneIn(mailbox, w) /\ PendingOf(w) = {} /\ Owed(w) = 0
         /\ main.pc # "idle" => main.worker # w
<1>1. TypeOK /\ OneRequest(w)
  BY DEF InTime, InOrder
<1>2. Owed(w) = 0
  BY <1>1 DEF OneRequest
<1>3. NoneIn(wire[w], w) /\ NoneIn(mailbox, w) /\ PendingOf(w) = {} /\ Answering(w) = 0
  BY <1>1, <1>2, Quiet
<1>4. main.pc # "idle" => main.worker # w
  BY <1>1, <1>3 DEF OneRequest, Answering, TypeOK, Answers
<1> QED
  BY <1>2, <1>3, <1>4

LEMMA RequestStep ==
  ASSUME InTime, NEW w \in Workers, NEW op \in Ops, NEW s \in Sessions, Request(w, op, s)
  PROVE  InOrder'
<1> DEFINE m == Message(op, w, s, NoItem)
<1>0. TypeOK /\ InOrder /\ TypeOK'
  BY DEF InTime
<1>1. /\ m \in Messages /\ m.type = op /\ m.session = s /\ m.worker = w
      /\ op # "start" /\ op # "complete" /\ owner[s] = w /\ worker[w].pc = "run"
      /\ wire' = [wire EXCEPT ![w] = Append(wire[w], m)]
      /\ worker' = [worker EXCEPT ![w] = [pc |-> "reset", op |-> op, session |-> s]]
      /\ UNCHANGED <<owner, view, reads, exits, early, mailbox, main, host, produced, due, queue, pending, result>>
  <2>1. op \in {"read", "try_read", "poll"}
    BY HostExecAssumption
  <2> QED
    BY <2>1, MessageType, Items DEF Request, mainVars, Message
<1> HIDE DEF m
<1>2. /\ \A v \in Workers : wire[v] \in Seq(Messages)
      /\ wire'[w] = Append(wire[w], m)
      /\ worker'[w].pc = "reset" /\ worker'[w].op = op /\ worker'[w].session = s
      /\ \A v \in Workers : v # w => wire'[v] = wire[v] /\ worker'[v] = worker[v]
  BY <1>0, <1>1 DEF TypeOK
<1>3. /\ NoneIn(wire[w], w) /\ NoneIn(mailbox, w) /\ PendingOf(w) = {} /\ Owed(w) = 0
      /\ main.pc # "idle" => main.worker # w
  BY <1>1, Unasked
<1>4. ASSUME NEW v \in Workers PROVE OneRequest(v)'
  <2>1. CASE v = w
    <3>1. IsFiniteSet(PendingOf(w)) /\ PendingOf(w)' = PendingOf(w) /\ Answering(w)' = Answering(w)
      BY <1>0, <1>1 DEF InOrder, OneRequest, PendingOf, Answering
    <3>2. m \in Asks(w)
      BY <1>1 DEF Asks
    <3>3. Count(wire'[w], Asks(w)) = Count(wire[w], Asks(w)) + 1
      BY <1>1, <1>2, <3>2, CountSkips
    <3>4. Owed(w) = Count(wire[w], Asks(w)) + Count(mailbox, Asks(w))
                      + Cardinality(PendingOf(w)) + Answering(w)
      BY <1>0, <3>1, OwedIs
    <3>5. /\ Owed(w)' = Count(wire'[w], Asks(w)) + Count(mailbox', Asks(w))
                           + Cardinality(PendingOf(w)') + Answering(w)'
          /\ Count(wire[w], Asks(w)) \in Nat /\ Count(mailbox, Asks(w)) \in Nat
          /\ Cardinality(PendingOf(w)) \in Nat /\ Answering(w) \in {0, 1}
      BY <1>0, <3>1, OwedIs, OwedNext
    <3>6. mailbox' = mailbox
      BY <1>1
    <3>7. Owed(w)' = 1
      BY <1>3, <3>1, <3>3, <3>4, <3>5, <3>6
    <3> QED
      BY <1>1, <1>2, <1>3, <2>1, <3>1, <3>7 DEF OneRequest
  <2>2. CASE v # w
    <3>1. IsFiniteSet(PendingOf(v)') /\ Owed(v)' = Owed(v)
      BY <1>1, <1>2, <2>2, OwedStays DEF Answering
    <3> QED
      BY <1>0, <1>1, <1>2, <2>2, <3>1, OneRequestStays DEF InOrder
  <2> QED
    BY <2>1, <2>2
<1>5. Mine'
  <2>0. Mine
    BY <1>0 DEF InOrder
  <2>1. \A v \in Workers : worker'[v].pc # "run" => owner'[worker'[v].session] = v
    BY <1>1, <1>2, <2>0 DEF Mine
  <2>2. \A v, u, t : v \in Workers /\ v # w /\ For(v, u, t) => For(v, u, t)'
    BY <1>1, <1>2 DEF For
  <2>3. ASSUME NEW v \in Workers, NEW e \in In(wire'[v]) PROVE Sent(v, e)'
    <3>1. CASE v # w
      BY <1>1, <1>2, <2>0, <2>2, <3>1 DEF Mine, Sent
    <3>2. CASE v = w /\ e = m
      BY <1>1, <1>2, <3>2 DEF Sent, For
    <3>3. CASE v = w /\ e \in In(wire[w])
      BY <1>1, <1>3, <2>0, <3>3 DEF Mine, Sent, NoneIn
    <3> QED
      BY <1>1, <1>2, <3>1, <3>2, <3>3, InAppend
  <2>4. ASSUME NEW e \in In(mailbox') PROVE Asked(e)'
    <3>1. e \in In(mailbox) /\ e \in Messages
      BY <1>0, <1>1, InType DEF TypeOK
    <3>2. e.worker \in Workers /\ (e.type = "start" \/ e.worker # w)
      BY <1>3, <3>1 DEF Messages, NoneIn
    <3> QED
      BY <2>0, <2>2, <3>1, <3>2 DEF Mine, Asked
  <2>5. ASSUME NEW u \in Sessions, pending'[u] # NoWorker PROVE For(pending[u], u, "read")'
    <3>1. PICK p \in Workers : p = pending[u] /\ p = pending'[u]
      BY <1>0, <1>1, <2>5 DEF TypeOK
    <3>2. p # w /\ For(p, u, "read")
      BY <1>3, <2>0, <2>5, <3>1, <1>1 DEF PendingOf, Mine
    <3>3. For(p, u, "read")'
      BY <2>2, <3>2
    <3> QED
      BY <3>1, <3>3 DEF For
  <2>6. main'.pc # "idle" => For(main.worker, main.session, worker[main.worker].op)'
    BY <1>0, <1>1, <1>2, <1>3, <2>0 DEF Mine, For, TypeOK
  <2> QED
    BY <2>1, <2>3, <2>4, <2>5, <2>6 DEF Mine
<1>6. Stored'
  BY <1>0, <1>1, <1>2, <1>3 DEF InOrder, Stored, TypeOK
<1>7. ASSUME NEW u \in Sessions PROVE StartedOnce(u)'
  <2>1. m \notin Starts(u)
    BY <1>1 DEF Starts
  <2>2. \A v \in Workers : Count(wire'[v], Starts(u)) = Count(wire[v], Starts(u))
    BY <1>1, <1>2, <2>1, CountSkips
  <2> QED
    BY <1>0, <1>1, <2>2, StartedStays DEF InOrder
<1>8. ASSUME NEW u \in Sessions PROVE Ordered(u)' /\ ExitLast(u)'
  <2>1. \A v \in Workers : worker'[v].pc = "load" <=> worker[v].pc = "load"
    BY <1>1, <1>2
  <2>2. \A v \in Workers : worker[v].pc = "load" => worker'[v] = worker[v]
    BY <1>1, <1>2
  <2>3. \A k \in 0..Exit : Given(u, k)' <=> Given(u, k)
    BY <1>1, <2>1, <2>2 DEF Given
  <2> QED
    BY <1>0, <1>1, <2>3, OrderedStays DEF InOrder
<1> QED
  BY <1>4, <1>5, <1>6, <1>7, <1>8 DEF InOrder

\* The steps in which a worker waits for its answer and takes it.
LEMMA Aside ==
  ASSUME InTime, UNCHANGED <<wire, mailbox, pending, main, host, owner, produced, due, queue, result>>,
         \A v \in Workers : /\ worker'[v].session = worker[v].session
                            /\ worker'[v].op = worker[v].op
                            /\ worker'[v].pc # "run" => worker[v].pc # "run"
  PROVE  /\ \A v \in Workers : IsFiniteSet(PendingOf(v)') /\ Owed(v)' = Owed(v)
         /\ Mine'
         /\ \A u \in Sessions : StartedOnce(u)'
<1>0. TypeOK /\ InOrder /\ TypeOK' /\ Mine
  BY DEF InTime, InOrder
<1>1. Kept
  BY DEF Kept, For
<1>2. main'.pc # "idle" => For(main.worker, main.session, worker[main.worker].op)'
  BY <1>0 DEF Mine, For, TypeOK
<1>3. Mine'
  BY <1>1, <1>2, MineStays
<1>4. ASSUME NEW v \in Workers PROVE IsFiniteSet(PendingOf(v)') /\ Owed(v)' = Owed(v)
  BY OwedStays DEF Answering
<1>5. ASSUME NEW u \in Sessions PROVE StartedOnce(u)'
  BY <1>0, StartedStays DEF InOrder
<1> QED
  BY <1>3, <1>4, <1>5

LEMMA ResetStatusStep ==
  ASSUME InTime, NEW w \in Workers, ResetStatus(w)
  PROVE  InOrder'
<1>0. TypeOK /\ InOrder /\ TypeOK'
  BY DEF InTime
<1>1. /\ worker[w].pc = "reset" /\ worker'[w].pc = "wait"
      /\ worker'[w].session = worker[w].session /\ worker'[w].op = worker[w].op
      /\ \A v \in Workers : v # w => worker'[v] = worker[v] /\ view'[v] = view[v]
      /\ view'[w].status = 0
  BY <1>0 DEF TypeOK, WorkerStates, Views, ResetStatus
<1>2. UNCHANGED <<wire, owner, reads, exits, early, mailbox, main, host, produced, due, queue, pending, result>>
  BY DEF ResetStatus, mainVars
<1>3. /\ \A v \in Workers : IsFiniteSet(PendingOf(v)') /\ Owed(v)' = Owed(v)
      /\ Mine'
      /\ \A u \in Sessions : StartedOnce(u)'
  BY <1>1, <1>2, Aside
<1>4. ASSUME NEW v \in Workers PROVE OneRequest(v)'
  <2>1. CASE v = w
    BY <1>0, <1>1, <1>2, <1>3, <2>1 DEF OneRequest, InOrder
  <2>2. CASE v # w
    BY <1>0, <1>1, <1>2, <1>3, <2>2, OneRequestStays DEF InOrder
  <2> QED
    BY <2>1, <2>2
<1>5. ~(main.pc \in {"status", "notify"} /\ main.worker = w /\ main.pc = "notify")
  BY <1>0, <1>1 DEF InOrder, OneRequest
<1>6. Stored'
  <2>1. view' = [view EXCEPT ![w] = [view[w] EXCEPT !.status = 0]] /\ view[w] \in Views
    BY <1>0 DEF ResetStatus, TypeOK
  <2>2. view'[w].session = view[w].session /\ view'[w].item = view[w].item
    BY <1>0, <2>1 DEF TypeOK, Views
  <2>3. main.pc # "idle" => main.worker \in Workers
    BY <1>0 DEF TypeOK
  <2>4. main.pc # "idle" => worker'[main.worker].op = worker[main.worker].op
    BY <1>1, <2>3
  <2>5. main.pc \in {"status", "notify"} =>
          view'[main.worker].session = view[main.worker].session
          /\ view'[main.worker].item = view[main.worker].item
    BY <1>1, <2>2, <2>3
  <2>6. main.pc = "notify" => view'[main.worker] = view[main.worker]
    BY <1>1, <1>5, <2>3
  <2>7. \A v \in Workers : worker'[v].pc = "load" =>
           worker'[v] = worker[v] /\ view'[v] = view[v]
    BY <1>1
  <2>8. Stored
    BY <1>0 DEF InOrder
  <2> QED
    BY <1>2, <2>4, <2>5, <2>6, <2>7, <2>8 DEF Stored
<1>7. ASSUME NEW u \in Sessions PROVE Ordered(u)' /\ ExitLast(u)'
  <2>1. \A v \in Workers : worker'[v].pc = "load" <=> worker[v].pc = "load"
    BY <1>1
  <2>2. \A v \in Workers : worker[v].pc = "load" => worker'[v] = worker[v] /\ view'[v] = view[v]
    BY <1>1
  <2>3. \A k \in 0..Exit : Given(u, k)' <=> Given(u, k)
    BY <1>2, <2>1, <2>2 DEF Given
  <2> QED
    BY <1>0, <1>2, <2>3, OrderedStays DEF InOrder
<1> QED
  BY <1>3, <1>4, <1>6, <1>7 DEF InOrder

LEMMA WaitStep ==
  ASSUME InTime, NEW w \in Workers, Wait(w)
  PROVE  InOrder'
<1>0. TypeOK /\ InOrder /\ TypeOK'
  BY DEF InTime
<1>1. worker[w].pc = "wait" /\ view[w].status = 0
  BY <1>0 DEF Wait, InOrder, OneRequest
<1>2. /\ worker'[w].pc = "blocked"
      /\ worker'[w].session = worker[w].session /\ worker'[w].op = worker[w].op
      /\ \A v \in Workers : v # w => worker'[v] = worker[v]
  BY <1>0, <1>1 DEF TypeOK, WorkerStates, Wait
<1>3. UNCHANGED <<view, wire, owner, reads, exits, early, mailbox, main, host, produced, due, queue, pending, result>>
  BY DEF Wait, mainVars
<1>4. /\ \A v \in Workers : IsFiniteSet(PendingOf(v)') /\ Owed(v)' = Owed(v)
      /\ Mine'
      /\ \A u \in Sessions : StartedOnce(u)'
  BY <1>1, <1>2, <1>3, Aside
<1>5. ASSUME NEW v \in Workers PROVE OneRequest(v)'
  <2>1. CASE v = w
    BY <1>0, <1>1, <1>2, <1>3, <1>4, <2>1 DEF OneRequest, InOrder
  <2>2. CASE v # w
    BY <1>0, <1>2, <1>3, <1>4, <2>2, OneRequestStays DEF InOrder
  <2> QED
    BY <2>1, <2>2
<1>6. \A v \in Workers : worker'[v].pc = "load" <=> worker[v].pc = "load"
  BY <1>1, <1>2
<1>7. \A v \in Workers : worker[v].pc = "load" => worker'[v] = worker[v]
  BY <1>1, <1>2
<1>8. Stored'
  <2>1. main.pc # "idle" => worker'[main.worker].op = worker[main.worker].op
    BY <1>0, <1>2 DEF TypeOK
  <2> QED
    BY <1>0, <1>3, <1>6, <1>7, <2>1 DEF Stored, InOrder
<1>9. ASSUME NEW u \in Sessions PROVE Ordered(u)' /\ ExitLast(u)'
  <2>1. \A k \in 0..Exit : Given(u, k)' <=> Given(u, k)
    BY <1>3, <1>6, <1>7 DEF Given
  <2> QED
    BY <1>0, <1>3, <2>1, OrderedStays DEF InOrder
<1> QED
  BY <1>4, <1>5, <1>8, <1>9 DEF InOrder

\* What is given for a session goes to the worker that started it.
NoAnswerIn(q, w) == \A m \in In(q) : m.type = "complete" => m.worker # w

LEMMA GivenToOwner ==
  ASSUME InTime, NEW w \in Workers, NEW s \in Sessions, owner[s] = w, NoAnswerIn(mailbox, w),
         main.pc # "idle" => main.worker # w, NEW k
  PROVE  Given(s, k) <=> /\ worker[w].pc = "load" /\ worker[w].session = s
                         /\ worker[w].op # "poll" /\ view[w].status = 1 /\ view[w].item = k
<1>1. Mine
  BY DEF InTime, InOrder
<1>2. ~(main.pc # "idle" /\ main.session = s)
  BY <1>1 DEF Mine, For
<1>3. ~\E m \in In(mailbox) : m.type = "complete" /\ m.session = s
  BY <1>1 DEF Mine, Asked, For, NoAnswerIn
<1>4. \A v \in Workers : worker[v].pc = "load" /\ worker[v].session = s => v = w
  BY <1>1 DEF Mine
<1> QED
  BY <1>2, <1>3, <1>4 DEF Given

LEMMA LoadStep ==
  ASSUME InTime, NEW w \in Workers, Load(w)
  PROVE  InOrder'
<1>0. TypeOK /\ InOrder /\ TypeOK'
  BY DEF InTime
<1>1. PICK s \in Sessions : s = worker[w].session
  BY <1>0 DEF Load, TypeOK
<1>2. PICK k \in 0..Exit : k = view[w].item
  BY <1>0 DEF TypeOK, Views
<1>3. /\ worker[w].pc = "load" /\ worker'[w].pc = "run"
      /\ worker'[w].session = worker[w].session /\ worker'[w].op = worker[w].op
      /\ \A v \in Workers : v # w => worker'[v] = worker[v]
  BY <1>0 DEF TypeOK, WorkerStates, Load
<1>4. UNCHANGED <<view, wire, owner, early, mailbox, main, host, produced, due, queue, pending, result>>
  BY DEF Load, mainVars
<1>5. /\ \A v \in Workers : IsFiniteSet(PendingOf(v)') /\ Owed(v)' = Owed(v)
      /\ Mine'
      /\ \A u \in Sessions : StartedOnce(u)'
  BY <1>3, <1>4, Aside
<1>6. /\ NoneIn(mailbox, w) /\ Owed(w) = 0 /\ (main.pc # "idle" => main.worker # w)
      /\ owner[s] = w
  BY <1>0, <1>1, <1>3, Unasked DEF InOrder, Mine
<1>7. ASSUME NEW v \in Workers PROVE OneRequest(v)'
  <2>1. CASE v = w
    <3>1. ~(main.pc = "notify" /\ main.worker = w)
      BY <1>6
    <3> QED
      BY <1>3, <1>4, <1>5, <1>6, <2>1, <3>1 DEF OneRequest
  <2>2. CASE v # w
    BY <1>0, <1>3, <1>4, <1>5, <2>2, OneRequestStays DEF InOrder
  <2> QED
    BY <2>1, <2>2
<1>8. Stored'
  <2>1. main.pc # "idle" => worker'[main.worker].op = worker[main.worker].op
    BY <1>0, <1>3 DEF TypeOK
  <2>2. \A v \in Workers : worker'[v].pc = "load" => worker'[v] = worker[v] /\ worker[v].pc = "load"
    BY <1>3
  <2> QED
    BY <1>0, <1>4, <2>1, <2>2 DEF Stored, InOrder
<1> DEFINE taken == worker[w].op # "poll" /\ view[w].status = 1
<1>9. /\ reads' = IF taken /\ k # Exit THEN [reads EXCEPT ![s] = Append(reads[s], k)] ELSE reads
      /\ exits' = IF taken /\ k = Exit THEN [exits EXCEPT ![s] = exits[s] + 1] ELSE exits
  <2>1. view[w].session = s /\ (view[w].status = 1 \/ (view[w].status = 2 /\ worker[w].op # "read"))
    BY <1>0, <1>1, <1>3 DEF InOrder, Stored
  <2>2. worker[w].op \in {"read", "try_read", "poll"}
    BY <1>0 DEF TypeOK, WorkerStates
  <2> QED
    BY <1>1, <1>2, <2>1, <2>2 DEF Load
<1>10. \A i : Given(s, i) <=> taken /\ i = k
  BY <1>1, <1>2, <1>3, <1>6, GivenToOwner DEF NoneIn, NoAnswerIn
<1>11. \A i : ~Given(s, i)'
  <2>1. Mine
    BY <1>0 DEF InOrder
  <2>2. ~(main.pc # "idle" /\ main.session = s)
    BY <1>6, <2>1 DEF Mine, For
  <2>3. ~\E m \in In(mailbox) : m.type = "complete" /\ m.session = s
    BY <1>6, <2>1 DEF Mine, Asked, For, NoneIn
  <2>4. \A v \in Workers : worker'[v].pc = "load" => worker'[v].session # s
    BY <1>3, <1>6, <2>1 DEF Mine
  <2> QED
    BY <1>4, <2>2, <2>3, <2>4 DEF Given
<1> HIDE DEF taken
<1>12. ASSUME NEW u \in Sessions PROVE Ordered(u)' /\ ExitLast(u)'
  <2>1. Ordered(u) /\ ExitLast(u)
    BY <1>0 DEF InOrder
  <2>2. CASE u # s
    <3>1. \A v \in Workers : worker[v].session = u =>
            /\ worker'[v].pc = "load" <=> worker[v].pc = "load"
            /\ worker'[v] = worker[v]
      BY <1>1, <1>3, <2>2
    <3>2. \A v \in Workers : worker'[v].session = worker[v].session
      BY <1>3
    <3>3. \A i \in 0..Exit : Given(u, i)' <=> Given(u, i)
      BY <1>4, <3>1, <3>2 DEF Given
    <3>4. reads'[u] = reads[u] /\ exits'[u] = exits[u]
      BY <1>0, <1>9, <2>2 DEF TypeOK
    <3> QED
      BY <1>4, <2>1, <3>3, <3>4, OrderedStays
  <2>3. CASE u = s /\ ~taken
    BY <1>4, <1>9, <1>10, <1>11, <2>1, <2>3, OrderedStays
  <2>4. CASE u = s /\ taken
    <3>1. PICK g \in {0, 1} :
            /\ g = IF \E i \in 1..MaxOutput : Given(s, i) THEN 1 ELSE 0
            /\ produced[s] = Len(reads[s]) + g + Len(queue[s])
            /\ \A i \in 1..Len(queue[s]) : queue[s][i] = Len(reads[s]) + g + i
            /\ \A i \in 0..MaxOutput : Given(s, i) => i = Len(reads[s]) + 1
            /\ due[s] <= produced[s] /\ due[s] \in Nat
            /\ Len(reads[s]) \in Nat /\ Len(queue[s]) \in Nat /\ reads[s] \in Seq(0..Exit)
            /\ produced[s] \in 0..MaxOutput /\ exits[s] \in Nat
      BY OrderOf
    <3>2. /\ produced[s] = Len(reads[s]) + g + Len(queue[s])
          /\ \A i \in 1..Len(queue[s]) : queue[s][i] = Len(reads[s]) + g + i
          /\ \A i \in 0..MaxOutput : Given(s, i) => i = Len(reads[s]) + 1
          /\ due[s] <= produced[s] /\ due[s] \in Nat
          /\ Len(reads[s]) \in Nat /\ Len(queue[s]) \in Nat /\ reads[s] \in Seq(0..Exit)
          /\ produced[s] \in 0..MaxOutput /\ exits[s] \in Nat
      BY <3>1
    <3>3. 0 = (IF \E i \in 1..MaxOutput : Given(s, i)' THEN 1 ELSE 0)
      BY <1>11 DEF One
    <3>4. Given(s, k)
      BY <1>10, <2>4
    <3>5. produced'[s] = produced[s] /\ queue'[s] = queue[s] /\ due'[s] = due[s]
      BY <1>4
    <3>6. CASE k # Exit
      <4>1. k \in 0..MaxOutput
        BY <3>6, Items
      <4>2. k = Len(reads[s]) + 1
        BY <3>2, <3>4, <4>1
      <4>3. k \in 1..MaxOutput
        BY <3>2, <4>1, <4>2, Items
      <4>4. g = 1
        BY <3>1, <3>4, <4>3 DEF One
      <4>5. reads'[s] = Append(reads[s], k) /\ exits'[s] = exits[s]
        BY <1>0, <1>9, <2>4, <3>6 DEF TypeOK
      <4>6. Len(reads'[s]) = Len(reads[s]) + 1
        BY <3>2, <4>5
      <4>7. /\ produced'[s] = Len(reads'[s]) + 0 + Len(queue'[s])
            /\ \A i \in 1..Len(queue'[s]) : queue'[s][i] = Len(reads'[s]) + 0 + i
        BY <3>2, <3>5, <4>4, <4>6
      <4>8. Ordered(s)'
        BY <1>11, <3>2, <3>3, <3>5, <4>7, OrderedNext
      <4>9. ~Given(s, Exit) /\ ~Given(s, Exit)'
        BY <1>10, <1>11, <3>6
      <4>10. ExitLast(s)'
        BY <1>4, <2>1, <2>4, <4>5, <4>9 DEF ExitLast, One
      <4> QED
        BY <2>4, <4>8, <4>10
    <3>7. CASE k = Exit
      <4>1. ~\E i \in 1..MaxOutput : Given(s, i)
        BY <1>10, <3>7, Items
      <4>2. g = 0
        BY <3>1, <4>1 DEF One
      <4>3. reads'[s] = reads[s] /\ exits'[s] = exits[s] + 1
        BY <1>0, <1>9, <2>4, <3>7 DEF TypeOK
      <4>4. Ordered(s)'
        BY <1>11, <3>2, <3>3, <3>5, <4>2, <4>3, OrderedNext
      <4>5. Given(s, Exit) /\ ~Given(s, Exit)'
        BY <1>11, <3>4, <3>7
      <4>6. /\ exits[s] + 1 + One(result[s]) <= 2
            /\ host[s] = "settled"
        BY <2>1, <2>4, <4>5 DEF ExitLast, One
      <4>7. exits'[s] + One(Given(s, Exit)') + One(result[s]') <= 2
        <5>1. One(Given(s, Exit)') = 0 /\ One(result[s]') = One(result[s]) /\ One(result[s]) \in {0, 1}
          BY <1>4, <4>5 DEF One
        <5> QED
          BY <3>2, <4>3, <4>6, <5>1
      <4>8. ExitLast(s)'
        BY <1>4, <4>5, <4>6, <4>7 DEF ExitLast
      <4> QED
        BY <2>4, <4>4, <4>8
    <3> QED
      BY <3>6, <3>7
  <2> QED
    BY <2>2, <2>3, <2>4
<1> QED
  BY <1>5, <1>7, <1>8, <1>12 DEF InOrder

-----------------------------------------------------------------------------
(* The steps of the main thread.                                           *)

LEMMA DeliverStep ==
  ASSUME InTime, NEW w \in Workers, Deliver(w)
  PROVE  InOrder'
<1>0. TypeOK /\ InOrder /\ TypeOK' /\ Mine
  BY DEF InTime, InOrder
<1>1. PICK m \in Messages : m = Head(wire[w])
  BY <1>0 DEF Deliver, TypeOK
<1>2. /\ wire[w] \in Seq(Messages) /\ wire[w] # <<>> /\ Tail(wire[w]) \in Seq(Messages)
      /\ mailbox \in Seq(Messages) /\ mailbox' = Append(mailbox, m)
      /\ wire'[w] = Tail(wire[w]) /\ \A v \in Workers : v # w => wire'[v] = wire[v]
      /\ main.pc = "idle"
      /\ UNCHANGED <<worker, view, main, host, owner, produced, due, queue, pending, result, reads, exits, early>>
  BY <1>0, <1>1 DEF Deliver, TypeOK
<1>3. m \in In(wire[w])
  BY <1>1, <1>2, InTail
<1>4. Sent(w, m)
  BY <1>0, <1>3 DEF Mine
<1>5. m.worker = w /\ m.type # "complete"
  BY <1>4 DEF Sent
<1>6. ASSUME NEW v \in Workers PROVE OneRequest(v)'
  <2>0. IsFiniteSet(PendingOf(v)) /\ PendingOf(v)' = PendingOf(v) /\ Answering(v)' = Answering(v)
    BY <1>0, <1>2 DEF InOrder, OneRequest, PendingOf, Answering
  <2>1. CASE m \in Asks(v)
    <3>1. v = w
      BY <1>5, <2>1 DEF Asks
    <3>2. Count(wire[v], Asks(v)) = Count(wire'[v], Asks(v)) + 1
      BY <1>1, <1>2, <2>1, <3>1, CountSkips
    <3>3. Count(mailbox', Asks(v)) = Count(mailbox, Asks(v)) + 1
      BY <1>2, <2>1, CountSkips
    <3>4. Owed(v) = Count(wire[v], Asks(v)) + Count(mailbox, Asks(v))
                      + Cardinality(PendingOf(v)) + Answering(v)
      BY <1>0, <2>0, OwedIs
    <3>5. /\ Owed(v)' = Count(wire'[v], Asks(v)) + Count(mailbox', Asks(v))
                           + Cardinality(PendingOf(v)') + Answering(v)'
          /\ Count(wire'[v], Asks(v)) \in Nat /\ Count(mailbox, Asks(v)) \in Nat
          /\ Cardinality(PendingOf(v)) \in Nat /\ Answering(v) \in {0, 1}
      BY <1>0, <2>0, OwedIs, OwedNext
    <3>6. IsFiniteSet(PendingOf(v)') /\ Owed(v)' = Owed(v)
      BY <2>0, <3>2, <3>3, <3>4, <3>5
    <3> QED
      BY <1>0, <1>2, <3>6, OneRequestStays DEF InOrder
  <2>2. CASE m \notin Asks(v)
    <3>0. Count(Tail(wire[w]), Asks(v)) = Count(wire[w], Asks(v))
      BY <1>1, <1>2, <2>2, CountSkips
    <3>1. Count(wire'[v], Asks(v)) = Count(wire[v], Asks(v))
      BY <1>2, <3>0
    <3>2. Count(mailbox', Asks(v)) = Count(mailbox, Asks(v))
      BY <1>2, <2>2, CountSkips
    <3>3. IsFiniteSet(PendingOf(v)') /\ Owed(v)' = Owed(v)
      BY <1>2, <2>0, <3>1, <3>2, OwedStays
    <3> QED
      BY <1>0, <1>2, <3>3, OneRequestStays DEF InOrder
  <2> QED
    BY <2>1, <2>2
<1>7. Mine'
  <2>1. Kept
    BY <1>2 DEF Kept, For
  <2>2. \A v \in Workers : \A e \in In(wire'[v]) : e \in In(wire[v])
    BY <1>2, InTail
  <2>3. Asked(m)'
    BY <1>2, <1>4 DEF Sent, Asked, For
  <2>4. \A e \in In(mailbox') : e \in In(mailbox) \/ Asked(e)'
    BY <1>2, <2>3, InAppend
  <2>5. main'.pc # "idle" => For(main.worker, main.session, worker[main.worker].op)'
    BY <1>2
  <2> QED
    BY <1>2, <2>1, <2>2, <2>4, <2>5, MineStays
<1>8. \A e : e \in In(mailbox') <=> e \in In(mailbox) \/ e = m
  BY <1>2, InAppend
<1>9. Stored'
  BY <1>0, <1>2, <1>5, <1>8 DEF InOrder, Stored
<1>10. ASSUME NEW u \in Sessions PROVE StartedOnce(u)'
  <2>0. StartedOnce(u)
    BY <1>0 DEF InOrder
  <2>1. CASE m \notin Starts(u)
    <3>0. Count(Tail(wire[w]), Starts(u)) = Count(wire[w], Starts(u))
      BY <1>1, <1>2, <2>1, CountSkips
    <3>1. \A v \in Workers : Count(wire'[v], Starts(u)) = Count(wire[v], Starts(u))
      BY <1>2, <3>0
    <3>2. Count(mailbox', Starts(u)) = Count(mailbox, Starts(u))
      BY <1>2, <2>1, CountSkips
    <3> QED
      BY <1>2, <2>0, <3>1, <3>2, StartedStays
  <2>2. CASE m \in Starts(u)
    <3>1. /\ Count(wire[w], Starts(u)) = Count(wire'[w], Starts(u)) + 1
          /\ Count(wire'[w], Starts(u)) \in Nat /\ Count(mailbox, Starts(u)) \in Nat
      BY <1>1, <1>2, <2>2, CountSkips
    <3>2. Count(mailbox', Starts(u)) = Count(mailbox, Starts(u)) + 1
      BY <1>2, <2>2, CountSkips
    <3>3. owner[u] = w
      BY <1>4, <2>2 DEF Sent, Starts
    <3>4. Count(wire[w], Starts(u)) + Count(mailbox, Starts(u)) <= 1
      BY <2>0 DEF StartedOnce
    <3>5. Count(wire'[w], Starts(u)) = 0 /\ Count(mailbox', Starts(u)) = 1
      BY <3>1, <3>2, <3>4
    <3>6. ASSUME NEW v \in Workers, v # w PROVE Count(wire'[v], Starts(u)) = 0
      <4>1. \A e \in In(wire[v]) : e \notin Starts(u)
        BY <1>0, <3>3, <3>6 DEF Mine, Sent, Starts
      <4> QED
        BY <1>0, <1>2, <3>6, <4>1, CountNone DEF TypeOK
    <3>7. owner[u] # NoWorker /\ host[u] = "none"
      <4>1. Count(wire[w], Starts(u)) # 0
        BY <3>1
      <4> QED
        BY <2>0, <4>1 DEF StartedOnce
    <3>8. Starts(u)' = Starts(u)
      BY DEF Starts
    <3>9. \A v \in Workers : Count(wire'[v], Starts(u)) + Count(mailbox', Starts(u)) <= 1
      BY <3>5, <3>6
    <3> QED
      BY <1>2, <3>7, <3>8, <3>9 DEF StartedOnce
  <2> QED
    BY <2>1, <2>2
<1>11. ASSUME NEW u \in Sessions PROVE Ordered(u)' /\ ExitLast(u)'
  <2>1. \A k \in 0..Exit : Given(u, k)' <=> Given(u, k)
    BY <1>2, <1>5, <1>8 DEF Given
  <2> QED
    BY <1>0, <1>2, <2>1, OrderedStays DEF InOrder
<1> QED
  BY <1>6, <1>7, <1>9, <1>10, <1>11 DEF InOrder

\* What every message that is executed leaves of the mailbox.
LEMMA Received ==
  ASSUME InTime, NEW type, Receive(type), NEW m, m = Msg
  PROVE  /\ m \in Messages /\ m.type = type /\ Asked(m) /\ m \in In(mailbox)
         /\ main.pc = "idle" /\ mailbox # <<>> /\ mailbox' \in Seq(Messages)
         /\ mailbox' = Tail(mailbox)
         /\ \A e : e \in In(mailbox) <=> e \in In(mailbox') \/ e = m
         /\ \A S : /\ m \notin S => Count(mailbox', S) = Count(mailbox, S)
                   /\ m \in S => Count(mailbox, S) = Count(mailbox', S) + 1
         /\ UNCHANGED <<worker, view, wire, owner, produced, due, reads, exits, early>>
<1>1. TypeOK /\ Mine
  BY DEF InTime, InOrder
<1>2. /\ mailbox \in Seq(Messages) /\ mailbox # <<>> /\ mailbox' = Tail(mailbox)
      /\ m = Head(mailbox) /\ m \in Messages /\ Tail(mailbox) \in Seq(Messages)
  BY <1>1 DEF TypeOK, Receive, Msg
<1>3. \A e : e \in In(mailbox) <=> e \in In(mailbox') \/ e = m
  BY <1>2, InTail
<1>4. ASSUME NEW S
      PROVE  /\ m \notin S => Count(mailbox', S) = Count(mailbox, S)
             /\ m \in S => Count(mailbox, S) = Count(mailbox', S) + 1
  BY <1>2, CountSkips
<1>5. Asked(m)
  BY <1>1, <1>3 DEF Mine
<1> QED
  BY <1>2, <1>3, <1>4, <1>5 DEF Receive, Msg

LEMMA ExecuteStartStep ==
  ASSUME InTime, ExecuteStart
  PROVE  InOrder'
<1>0. TypeOK /\ InOrder /\ TypeOK' /\ Mine
  BY DEF InTime, InOrder
<1>1. PICK m : m = Msg
  OBVIOUS
<1>2. /\ m \in Messages /\ m.type = "start"
      /\ main.pc = "idle" /\ mailbox # <<>> /\ mailbox' \in Seq(Messages)
      /\ \A e : e \in In(mailbox) <=> e \in In(mailbox') \/ e = m
      /\ \A S : /\ m \notin S => Count(mailbox', S) = Count(mailbox, S)
                /\ m \in S => Count(mailbox, S) = Count(mailbox', S) + 1
      /\ UNCHANGED <<worker, view, wire, owner, produced, due, reads, exits, early>>
  BY <1>1, Received DEF ExecuteStart
<1>3. PICK s \in Sessions : s = m.session
  BY <1>2 DEF Messages
<1>4. /\ host'[s] # "none" /\ host'[s] # "settled"
      /\ \A u \in Sessions : u # s => host'[u] = host[u]
      /\ UNCHANGED <<main, queue, pending, result>>
  BY <1>0, <1>1, <1>3 DEF ExecuteStart, TypeOK
<1>5. ASSUME NEW v \in Workers PROVE OneRequest(v)'
  <2>1. m \notin Asks(v)
    BY <1>2 DEF Asks
  <2>2. Count(mailbox', Asks(v)) = Count(mailbox, Asks(v))
    BY <1>2, <2>1
  <2>3. IsFiniteSet(PendingOf(v)') /\ Owed(v)' = Owed(v)
    BY <1>2, <1>4, <2>2, OwedStays DEF Answering
  <2> QED
    BY <1>0, <1>2, <1>4, <2>3, OneRequestStays DEF InOrder
<1>6. Mine'
  <2>1. Kept
    BY <1>2 DEF Kept, For
  <2> QED
    BY <1>2, <1>4, <2>1, MineStays
<1>7. Stored'
  BY <1>0, <1>2, <1>4 DEF InOrder, Stored
<1>8. ASSUME NEW u \in Sessions PROVE StartedOnce(u)' /\ (u = s => host[u] = "none")
  <2>0. StartedOnce(u)
    BY <1>0 DEF InOrder
  <2>1. CASE u # s
    <3>1. m \notin Starts(u)
      BY <1>3, <2>1 DEF Starts
    <3> QED
      BY <1>2, <1>4, <2>0, <2>1, <3>1, StartedStays
  <2>2. CASE u = s
    <3>1. m \in Starts(u)
      BY <1>2, <1>3, <2>2 DEF Starts
    <3>2. /\ Count(mailbox, Starts(u)) = Count(mailbox', Starts(u)) + 1
          /\ Count(mailbox', Starts(u)) \in Nat
      BY <1>2, <3>1, FoundFinite
    <3>3. owner[u] # NoWorker /\ host[u] = "none"
      <4>1. Count(mailbox, Starts(u)) # 0
        BY <3>2
      <4> QED
        BY <2>0, <4>1 DEF StartedOnce
    <3>4. ASSUME NEW v \in Workers
          PROVE Count(wire[v], Starts(u)) = 0 /\ Count(mailbox', Starts(u)) = 0
      <4>1. Count(wire[v], Starts(u)) \in Nat
        BY <1>0, FoundFinite DEF TypeOK
      <4>2. Count(wire[v], Starts(u)) + Count(mailbox, Starts(u)) <= 1
        BY <2>0 DEF StartedOnce
      <4> QED
        BY <3>2, <4>1, <4>2
    <3>5. Starts(u)' = Starts(u)
      BY DEF Starts
    <3>6. \A v \in Workers : Count(wire'[v], Starts(u)) + Count(mailbox', Starts(u)) <= 1
      BY <1>2, <3>4
    <3>7. m.worker \in Workers
      BY <1>2 DEF Messages
    <3> QED
      BY <1>2, <3>3, <3>4, <3>5, <3>6, <3>7 DEF StartedOnce
  <2> QED
    BY <2>1, <2>2
<1>9. ASSUME NEW u \in Sessions PROVE Ordered(u)' /\ ExitLast(u)'
  <2>1. \A k \in 0..Exit : Given(u, k)' <=> Given(u, k)
    BY <1>2, <1>4 DEF Given
  <2>2. host'[u] = host[u] \/ (host[u] # "settled" /\ host'[u] # "settled")
    BY <1>4, <1>8
  <2> QED
    BY <1>0, <1>2, <1>4, <2>1, <2>2, OrderedStays DEF InOrder
<1> QED
  BY <1>5, <1>6, <1>7, <1>8, <1>9 DEF InOrder

\* A request that is answered at once, and a read that was pending.
LEMMA AnswerStep ==
  ASSUME InTime, NEW m, m = Msg, Receive(m.type), m.type # "start", NEW item, NEW status,
         main' = Answer(m.worker, m.session, item, status),
         Fits(worker[m.worker].op, item, status), UNCHANGED <<host, pending>>
  PROVE  /\ \A v \in Workers : OneRequest(v)'
         /\ Mine' /\ Stored'
         /\ \A u \in Sessions : StartedOnce(u)'
<1>0. TypeOK /\ InOrder /\ TypeOK' /\ Mine
  BY DEF InTime, InOrder
<1>2. /\ m \in Messages /\ Asked(m) /\ main.pc = "idle" /\ mailbox' \in Seq(Messages)
      /\ \A e : e \in In(mailbox) <=> e \in In(mailbox') \/ e = m
      /\ \A S : /\ m \notin S => Count(mailbox', S) = Count(mailbox, S)
                /\ m \in S => Count(mailbox, S) = Count(mailbox', S) + 1
      /\ UNCHANGED <<worker, view, wire, owner, produced, due, reads, exits, early>>
  BY Received
<1>3. /\ main'.pc = "body" /\ main'.worker = m.worker /\ main'.session = m.session
      /\ main'.item = item /\ main'.status = status
      /\ m.worker \in Workers /\ m.session \in Sessions
  BY <1>2 DEF Answer, Messages
<1>4. ASSUME NEW v \in Workers PROVE OneRequest(v)'
  <2>0. IsFiniteSet(PendingOf(v)) /\ PendingOf(v)' = PendingOf(v)
    BY <1>0 DEF InOrder, OneRequest, PendingOf
  <2>1. CASE v = m.worker
    <3>1. m \in Asks(v)
      BY <1>2, <2>1 DEF Asks
    <3>2. Answering(v) = 0 /\ Answering(v)' = 1
      BY <1>2, <1>3, <2>1 DEF Answering
    <3>3. Count(mailbox, Asks(v)) = Count(mailbox', Asks(v)) + 1
      BY <1>2, <3>1
    <3>4. Owed(v) = Count(wire[v], Asks(v)) + Count(mailbox, Asks(v))
                      + Cardinality(PendingOf(v)) + Answering(v)
      BY <1>0, <2>0, OwedIs
    <3>5. /\ Owed(v)' = Count(wire'[v], Asks(v)) + Count(mailbox', Asks(v))
                           + Cardinality(PendingOf(v)') + Answering(v)'
          /\ Count(wire[v], Asks(v)) \in Nat /\ Count(mailbox', Asks(v)) \in Nat
          /\ Cardinality(PendingOf(v)) \in Nat
      BY <1>0, <2>0, OwedIs, OwedNext
    <3>6. wire' = wire
      BY <1>2
    <3>7. IsFiniteSet(PendingOf(v)') /\ Owed(v)' = Owed(v)
      BY <2>0, <3>2, <3>3, <3>4, <3>5, <3>6
    <3> QED
      BY <1>0, <1>2, <1>3, <3>7, OneRequestStays DEF InOrder
  <2>2. CASE v # m.worker
    <3>1. m \notin Asks(v)
      BY <2>2 DEF Asks
    <3>2. Count(mailbox', Asks(v)) = Count(mailbox, Asks(v))
      BY <1>2, <3>1
    <3>3. IsFiniteSet(PendingOf(v)') /\ Owed(v)' = Owed(v)
      BY <1>2, <1>3, <2>2, <3>2, OwedStays DEF Answering
    <3> QED
      BY <1>0, <1>2, <1>3, <3>3, OneRequestStays DEF InOrder
  <2> QED
    BY <2>1, <2>2
<1>5. Mine'
  <2>1. Kept
    BY <1>2 DEF Kept, For
  <2>2. For(m.worker, m.session, worker[m.worker].op)
    BY <1>2 DEF Asked, For
  <2>3. main'.pc # "idle" => For(main.worker, main.session, worker[main.worker].op)'
    BY <1>2, <1>3, <2>2 DEF For
  <2> QED
    BY <1>2, <2>1, <2>3, MineStays
<1>6. Stored'
  BY <1>0, <1>2, <1>3 DEF InOrder, Stored, Fits
<1>7. ASSUME NEW u \in Sessions PROVE StartedOnce(u)'
  <2>1. m \notin Starts(u)
    BY DEF Starts
  <2> QED
    BY <1>0, <1>2, <2>1, StartedStays DEF InOrder
<1> QED
  BY <1>4, <1>5, <1>6, <1>7

\* Nothing is given for a session while its owner's request is executed.
LEMMA NoneGiven ==
  ASSUME InTime, NEW m, m = Msg, Receive(m.type), m.type \notin {"start", "complete"}
  PROVE  \A k : ~Given(m.session, k)
<1>1. /\ m \in Messages /\ Asked(m) /\ main.pc = "idle" /\ mailbox # <<>>
      /\ mailbox' = Tail(mailbox) /\ \A e : e \in In(mailbox) <=> e \in In(mailbox') \/ e = m
  BY Received
<1>2. m.worker \in Workers /\ m.session \in Sessions /\ owner[m.session] = m.worker
  BY <1>1 DEF Messages, Asked, For
<1>3. TypeOK /\ OneRequest(m.worker)
  BY <1>2 DEF InTime, InOrder
<1>4. NoneIn(Tail(mailbox), m.worker) /\ worker[m.worker].pc # "load"
  BY <1>1, <1>2, <1>3, MsgAlone
<1>5. NoAnswerIn(mailbox, m.worker)
  BY <1>1, <1>4 DEF NoneIn, NoAnswerIn
<1> QED
  BY <1>1, <1>2, <1>4, <1>5, GivenToOwner

\* The order after an answer that gives nothing,
LEMMA EmptyAnswer ==
  ASSUME InTime, NEW m, m = Msg, Receive(m.type), m.type # "complete",
         main' = main \/ main'.item = NoItem, UNCHANGED <<host, queue, result>>,
         NEW u \in Sessions
  PROVE  Ordered(u)' /\ ExitLast(u)'
<1>1. /\ main.pc = "idle" /\ \A e : e \in In(mailbox) <=> e \in In(mailbox') \/ e = m
      /\ UNCHANGED <<worker, view, wire, owner, produced, due, reads, exits, early>>
  BY Received
<1>2. \A k \in 0..Exit : Given(u, k)' <=> Given(u, k)
  BY <1>1 DEF Given
<1> QED
  BY <1>1, <1>2, OrderedStays DEF InTime, InOrder

\* after the answer to a read that was pending,
LEMMA CompleteAnswer ==
  ASSUME InTime, NEW m, m = Msg, Receive(m.type), m.type = "complete",
         main' = Answer(m.worker, m.session, m.item, 1), UNCHANGED <<host, queue, result>>,
         NEW u \in Sessions
  PROVE  Ordered(u)' /\ ExitLast(u)'
<1>1. /\ main.pc = "idle" /\ \A e : e \in In(mailbox) <=> e \in In(mailbox') \/ e = m
      /\ UNCHANGED <<worker, view, wire, owner, produced, due, reads, exits, early>>
  BY Received
<1>2. m.item # NoItem
  BY <1>1 DEF InTime, InOrder, Stored
<1>3. main'.pc # "idle" /\ main'.session = m.session /\ main'.item = m.item
  BY DEF Answer
<1>4. \A k \in 0..Exit : Given(u, k)' <=> Given(u, k)
  BY <1>1, <1>2, <1>3 DEF Given
<1> QED
  BY <1>1, <1>4, OrderedStays DEF InTime, InOrder

\* and after one that takes a message or the exit code.
LEMMA TakeAnswer ==
  ASSUME InTime, NEW m, m = Msg, Receive(m.type), m.type \notin {"start", "complete"},
         TakeMessage(m.worker, m.session), NEW u \in Sessions
  PROVE  /\ Ordered(u)' /\ ExitLast(u)'
         /\ \E item \in 1..Exit : main' = Answer(m.worker, m.session, item, 1)
         /\ UNCHANGED <<host, pending>>
<1>0. TypeOK /\ InOrder
  BY DEF InTime
<1>1. /\ main.pc = "idle" /\ \A e : e \in In(mailbox) <=> e \in In(mailbox') \/ e = m
      /\ UNCHANGED <<worker, view, wire, owner, produced, due, reads, exits, early>>
      /\ m \in Messages
  BY Received
<1>2. PICK s \in Sessions : s = m.session
  BY <1>1 DEF Messages
<1>3. UNCHANGED <<host, pending>>
  BY DEF TakeMessage
<1>4. \A k : ~Given(s, k)
  BY <1>2, NoneGiven
<1>5. /\ queue[s] \in Seq(1..MaxOutput) /\ reads[s] \in Seq(0..Exit)
      /\ produced[s] \in 0..MaxOutput /\ queue \in [Sessions -> Seq(1..MaxOutput)]
      /\ result \in [Sessions -> BOOLEAN]
  BY <1>0 DEF TypeOK
<1>6. /\ Ordered(s) /\ ExitLast(s)
      /\ produced[s] = Len(reads[s]) + Len(queue[s])
      /\ \A i \in 1..Len(queue[s]) : queue[s][i] = Len(reads[s]) + i
      /\ due[s] <= produced[s] /\ due[s] \in Nat
      /\ exits[s] + One(result[s]) <= 2 /\ exits[s] \in Nat
      /\ result[s] => host[s] = "settled"
  <2>1. Ordered(s) /\ ExitLast(s)
    BY <1>0 DEF InOrder
  <2>2. /\ produced[s] = Len(reads[s]) + Len(queue[s])
        /\ \A i \in 1..Len(queue[s]) : queue[s][i] = Len(reads[s]) + i
        /\ due[s] <= produced[s] /\ due[s] \in Nat /\ exits[s] \in Nat
    BY <1>4, OrderOfNone
  <2>3. One(Given(s, Exit)) = 0
    BY <1>4 DEF One
  <2>4. exits[s] + 0 + One(result[s]) <= 2 /\ (result[s] => host[s] = "settled")
    BY <2>1, <2>3 DEF ExitLast
  <2>5. exits[s] + 0 = exits[s]
    BY <2>2
  <2> QED
    BY <2>1, <2>2, <2>4, <2>5
<1>7. ASSUME NEW item, item # NoItem, main' = Answer(m.worker, m.session, item, 1)
      PROVE  /\ \A k : Given(s, k)' <=> k = item
             /\ u # s => \A k : Given(u, k)' <=> Given(u, k)
  <2>1. main'.pc # "idle" /\ main'.session = s /\ main'.item = item
    BY <1>2, <1>7 DEF Answer
  <2>2. \A k : Given(s, k)' <=> k = item
    BY <1>1, <1>4, <1>7, <2>1 DEF Given
  <2>3. u # s => \A k : Given(u, k)' <=> Given(u, k)
    BY <1>1, <2>1 DEF Given
  <2> QED
    BY <2>2, <2>3
<1>8. CASE queue[s] # <<>>
  <2>1. PICK item \in 1..MaxOutput : item = Head(queue[s])
    <3>1. Head(queue[s]) \in 1..MaxOutput
      BY <1>5, <1>8, TakeFrom
    <3> QED
      BY <3>1
  <2>2. main' = Answer(m.worker, m.session, item, 1) /\ queue' = [queue EXCEPT ![s] = Tail(queue[s])]
        /\ result' = result
    BY <1>2, <1>8, <2>1 DEF TakeMessage
  <2>3. item \in 1..Exit /\ item # NoItem
    BY <2>1, Items
  <2>4. CASE u # s
    <3>1. \A k \in 0..Exit : Given(u, k)' <=> Given(u, k)
      BY <1>7, <2>2, <2>3, <2>4
    <3>2. queue'[u] = queue[u]
      BY <1>5, <2>2, <2>4
    <3> QED
      BY <1>0, <1>1, <1>3, <2>2, <2>3, <3>1, <3>2, OrderedStays DEF InOrder
  <2>5. CASE u = s
    <3>1. /\ produced[s] = Len(reads[s]) + Len(queue[s])
          /\ \A i \in 1..Len(queue[s]) : queue[s][i] = Len(reads[s]) + i
      BY <1>6
    <3>2. /\ queue'[s] = Tail(queue[s]) /\ Len(queue[s]) \in Nat /\ Len(reads[s]) \in Nat
          /\ Len(queue'[s]) = Len(queue[s]) - 1 /\ 1 \in 1..Len(queue[s])
          /\ \A i \in 1..Len(queue'[s]) : i + 1 \in 1..Len(queue[s]) /\ queue'[s][i] = queue[s][i + 1]
      <4>1. queue'[s] = Tail(queue[s])
        BY <1>5, <2>2
      <4> QED
        BY <1>5, <1>8, <4>1
    <3>3. item = Len(reads[s]) + 1
      BY <2>1, <3>1, <3>2
    <3>4. \A k : Given(s, k)' <=> k = item
      BY <1>7, <2>2, <2>3
    <3>5. 1 = (IF \E k \in 1..MaxOutput : Given(s, k)' THEN 1 ELSE 0)
      BY <2>1, <3>4 DEF One
    <3>6. /\ produced'[s] = Len(reads'[s]) + 1 + Len(queue'[s])
          /\ \A i \in 1..Len(queue'[s]) : queue'[s][i] = Len(reads'[s]) + 1 + i
      <4>1. produced'[s] = produced[s] /\ reads'[s] = reads[s]
        BY <1>1
      <4>2. produced'[s] = Len(reads'[s]) + 1 + Len(queue'[s])
        <5>1. Len(queue[s]) = 1 + Len(queue'[s]) /\ Len(queue'[s]) \in Nat
          BY <3>2
        <5>2. \A a, b \in Nat : a + (1 + b) = a + 1 + b
          OBVIOUS
        <5>3. Len(reads[s]) + (1 + Len(queue'[s])) = Len(reads[s]) + 1 + Len(queue'[s])
          BY <3>2, <5>1, <5>2
        <5> QED
          BY <3>1, <4>1, <5>1, <5>3
      <4>3. ASSUME NEW i \in 1..Len(queue'[s]) PROVE queue'[s][i] = Len(reads'[s]) + 1 + i
        BY <3>1, <3>2, <4>1
      <4> QED
        BY <4>2, <4>3
    <3>7. \A k \in 0..MaxOutput : Given(s, k)' => k = Len(reads'[s]) + 1
      BY <1>1, <3>3, <3>4
    <3>8. due'[s] <= produced'[s]
      BY <1>1, <1>6
    <3>9. Ordered(s)'
      BY <3>5, <3>6, <3>7, <3>8, OrderedNext
    <3>10. ExitLast(s)'
      <4>1. ~Given(s, Exit) /\ ~Given(s, Exit)'
        BY <1>4, <2>1, <3>4, Items
      <4> QED
        BY <1>1, <1>3, <1>6, <2>2, <4>1 DEF ExitLast, One
    <3> QED
      BY <2>2, <2>3, <2>5, <3>9, <3>10, <1>3
  <2> QED
    BY <1>3, <2>2, <2>3, <2>4, <2>5
<1>9. CASE queue[s] = <<>>
  <2>1. /\ main' = Answer(m.worker, m.session, Exit, 1) /\ queue' = queue
        /\ result[s] /\ result' = [result EXCEPT ![s] = FALSE]
    BY <1>2, <1>9 DEF TakeMessage, Ready
  <2>2. Exit \in 1..Exit /\ Exit # NoItem
    BY Items
  <2>3. CASE u # s
    <3>1. \A k \in 0..Exit : Given(u, k)' <=> Given(u, k)
      BY <1>7, <2>1, <2>2, <2>3
    <3>2. result'[u] = result[u]
      BY <1>5, <2>1, <2>3
    <3> QED
      BY <1>0, <1>1, <1>3, <2>1, <2>2, <3>1, <3>2, OrderedStays DEF InOrder
  <2>4. CASE u = s
    <3>1. Len(reads[s]) \in Nat /\ Len(queue[s]) = 0
      BY <1>5, <1>9
    <3>2. host[s] = "settled" /\ due[s] <= Len(reads[s])
      BY <1>5, <1>6, <2>1, <3>1
    <3>3. Due(s)'
      BY <1>1, <1>3, <3>2 DEF Due
    <3>4. \A k : Given(s, k)' <=> k = Exit
      BY <1>7, <2>1, <2>2
    <3>5. ~result'[s]
      BY <1>5, <2>1
    <3>6. Ordered(s)'
      <4>1. 0 = (IF \E k \in 1..MaxOutput : Given(s, k)' THEN 1 ELSE 0)
        BY <3>4, Items DEF One
      <4>2. /\ produced'[s] = Len(reads'[s]) + 0 + Len(queue'[s])
            /\ \A i \in 1..Len(queue'[s]) : queue'[s][i] = Len(reads'[s]) + 0 + i
        BY <1>1, <1>6, <2>1, <3>1
      <4>3. due'[s] <= produced'[s]
        BY <1>1, <1>6
      <4>4. \A k \in 0..MaxOutput : ~Given(s, k)'
        BY <3>4, Items
      <4> QED
        BY <4>1, <4>2, <4>3, <4>4, OrderedNext
    <3>7. ExitLast(s)'
      <4>1. exits[s] + 1 <= 2
        BY <1>6, <2>1 DEF One
      <4>2. One(Given(s, Exit)') = 1 /\ One(result[s]') = 0
        BY <3>4, <3>5 DEF One
      <4>3. exits'[s] + One(Given(s, Exit)') + One(result[s]') <= 2
        BY <1>1, <1>6, <4>1, <4>2
      <4>4. host'[s] = "settled"
        BY <1>3, <3>2
      <4> QED
        BY <3>3, <4>3, <4>4 DEF ExitLast
    <3> QED
      BY <2>1, <2>2, <2>4, <3>6, <3>7, <1>3
  <2> QED
    BY <1>3, <2>1, <2>2, <2>3, <2>4
<1> QED
  BY <1>8, <1>9

\* A request is of the kind its message names.
LEMMA RequestKind ==
  ASSUME InTime, NEW m, m = Msg, Receive(m.type), m.type # "start"
  PROVE  worker[m.worker].op = IF m.type = "complete" THEN "read" ELSE m.type
<1>1. Asked(m)
  BY Received
<1> QED
  BY <1>1 DEF Asked, For

LEMMA LeavePendingStep ==
  ASSUME InTime, NEW m, m = Msg, m.type = "read", Receive(m.type),
         pending' = [pending EXCEPT ![m.session] = m.worker],
         UNCHANGED <<main, host, queue, result>>
  PROVE  InOrder'
<1>0. TypeOK /\ InOrder /\ TypeOK' /\ Mine
  BY DEF InTime, InOrder
<1>1. /\ m \in Messages /\ Asked(m) /\ main.pc = "idle" /\ mailbox' \in Seq(Messages)
      /\ mailbox' = Tail(mailbox) /\ mailbox # <<>>
      /\ \A e : e \in In(mailbox) <=> e \in In(mailbox') \/ e = m
      /\ \A S : /\ m \notin S => Count(mailbox', S) = Count(mailbox, S)
                /\ m \in S => Count(mailbox, S) = Count(mailbox', S) + 1
      /\ UNCHANGED <<worker, view, wire, owner, produced, due, reads, exits, early>>
  BY Received
<1>2. PICK w \in Workers, s \in Sessions : w = m.worker /\ s = m.session
  BY <1>1 DEF Messages
<1>3. For(w, s, "read")
  BY <1>1, <1>2 DEF Asked
<1>4. PendingOf(w) = {}
  <2>1. OneRequest(w)
    BY <1>0 DEF InOrder
  <2> QED
    BY <1>0, <1>1, <1>2, <2>1, MsgAlone
<1>5. pending[s] = NoWorker
  BY <1>0, <1>2, <1>3, <1>4 DEF Mine, For, PendingOf
<1>6. /\ pending'[s] = w /\ \A u \in Sessions : u # s => pending'[u] = pending[u]
      /\ UNCHANGED <<main, host, queue, result>>
  BY <1>0, <1>2 DEF TypeOK
<1>7. ASSUME NEW v \in Workers PROVE OneRequest(v)'
  <2>1. CASE v = w
    <3>1. PendingOf(v)' = {s}
      BY <1>4, <1>6, <2>1 DEF PendingOf
    <3>2. IsFiniteSet({s}) /\ Cardinality({s}) = 1 /\ Cardinality({}) = 0 /\ IsFiniteSet({})
      BY FS_Singleton, FS_EmptySet
    <3>3. IsFiniteSet(PendingOf(v)) /\ IsFiniteSet(PendingOf(v)')
          /\ Cardinality(PendingOf(v)) = 0 /\ Cardinality(PendingOf(v)') = 1
      BY <1>4, <2>1, <3>1, <3>2
    <3>4. m \in Asks(v)
      BY <1>1, <1>2, <2>1 DEF Asks
    <3>5. Count(mailbox, Asks(v)) = Count(mailbox', Asks(v)) + 1
      BY <1>1, <3>4
    <3>6. Owed(v) = Count(wire[v], Asks(v)) + Count(mailbox, Asks(v))
                      + Cardinality(PendingOf(v)) + Answering(v)
      BY <1>0, <3>3, OwedIs
    <3>7. /\ Owed(v)' = Count(wire'[v], Asks(v)) + Count(mailbox', Asks(v))
                           + Cardinality(PendingOf(v)') + Answering(v)'
          /\ Count(wire[v], Asks(v)) \in Nat /\ Count(mailbox', Asks(v)) \in Nat
          /\ Answering(v) \in {0, 1}
      BY <1>0, <3>3, OwedIs, OwedNext
    <3>8. wire' = wire /\ Answering(v)' = Answering(v)
      BY <1>1 DEF Answering
    <3>9. Owed(v)' = Owed(v)
      BY <3>3, <3>5, <3>6, <3>7, <3>8
    <3> QED
      BY <1>0, <1>1, <3>3, <3>9, OneRequestStays DEF InOrder
  <2>2. CASE v # w
    <3>1. m \notin Asks(v)
      BY <1>2, <2>2 DEF Asks
    <3>2. Count(mailbox', Asks(v)) = Count(mailbox, Asks(v))
      BY <1>1, <3>1
    <3>3. IsFiniteSet(PendingOf(v)) /\ PendingOf(v)' = PendingOf(v)
      BY <1>0, <1>5, <1>6, <2>2, HostExecAssumption DEF PendingOf, InOrder, OneRequest
    <3>4. Owed(v) = Count(wire[v], Asks(v)) + Count(mailbox, Asks(v))
                      + Cardinality(PendingOf(v)) + Answering(v)
      BY <1>0, <3>3, OwedIs
    <3>5. Owed(v)' = Count(wire'[v], Asks(v)) + Count(mailbox', Asks(v))
                           + Cardinality(PendingOf(v)') + Answering(v)'
      BY <1>0, <3>3, OwedNext
    <3>6. wire' = wire /\ Answering(v)' = Answering(v)
      BY <1>1 DEF Answering
    <3>7. Owed(v)' = Owed(v)
      BY <3>2, <3>3, <3>4, <3>5, <3>6
    <3> QED
      BY <1>0, <1>1, <3>3, <3>7, OneRequestStays DEF InOrder
  <2> QED
    BY <2>1, <2>2
<1>8. Mine'
  <2>1. Kept
    BY <1>1 DEF Kept, For
  <2>2. For(w, s, "read")'
    BY <1>3, <2>1 DEF Kept
  <2>3. ASSUME NEW u \in Sessions, pending'[u] # NoWorker
        PROVE  pending'[u] = pending[u] \/ For(pending[u], u, "read")'
    BY <1>6, <2>2 DEF For
  <2> QED
    BY <1>1, <1>6, <2>1, <2>3, MineStays
<1>9. Stored'
  BY <1>0, <1>1 DEF InOrder, Stored
<1>10. ASSUME NEW u \in Sessions PROVE StartedOnce(u)'
  <2>1. m \notin Starts(u)
    BY DEF Starts
  <2> QED
    BY <1>0, <1>1, <2>1, StartedStays DEF InOrder
<1>11. \A u \in Sessions : Ordered(u)' /\ ExitLast(u)'
  BY EmptyAnswer
<1> QED
  BY <1>7, <1>8, <1>9, <1>10, <1>11 DEF InOrder

LEMMA ExecuteStep ==
  ASSUME InTime, Execute
  PROVE  InOrder'
<1>1. PICK m : m = Msg
  OBVIOUS
<1>2. CASE ExecuteStart
  BY <1>2, ExecuteStartStep
<1>3. ASSUME m.type \in {"read", "try_read"}, Receive(m.type), TakeMessage(m.worker, m.session)
      PROVE  InOrder'
  <2>1. m.session \in Sessions
    BY <1>1, <1>3, Received DEF Messages
  <2>2. /\ \A u \in Sessions : Ordered(u)' /\ ExitLast(u)'
        /\ \E item \in 1..Exit : main' = Answer(m.worker, m.session, item, 1)
        /\ UNCHANGED <<host, pending>>
    BY <1>1, <1>3, <2>1, TakeAnswer
  <2>3. PICK item \in 1..Exit : main' = Answer(m.worker, m.session, item, 1)
    BY <2>2
  <2>4. Fits(worker[m.worker].op, item, 1)
    BY <1>1, <1>3, <2>3, RequestKind DEF Fits
  <2> QED
    BY <1>1, <1>3, <2>2, <2>3, <2>4, AnswerStep DEF InOrder
<1>4. CASE ExecuteRead
  <2>1. Receive("read") /\ m.type = "read" /\ Receive(m.type)
    BY <1>1, <1>4 DEF ExecuteRead, Receive
  <2>2. CASE TakeMessage(Msg.worker, Msg.session)
    BY <1>1, <1>3, <2>1, <2>2
  <2>3. CASE /\ pending' = [pending EXCEPT ![Msg.session] = Msg.worker]
             /\ UNCHANGED <<main, host, queue, result>>
    BY <1>1, <2>1, <2>3, LeavePendingStep
  <2> QED
    BY <1>4, <2>2, <2>3 DEF ExecuteRead
<1>5. CASE ExecuteTryRead
  <2>1. Receive("try_read") /\ m.type = "try_read" /\ Receive(m.type)
    BY <1>1, <1>5 DEF ExecuteTryRead, Receive
  <2>2. CASE TakeMessage(Msg.worker, Msg.session)
    BY <1>1, <1>3, <2>1, <2>2
  <2>3. CASE /\ main' = Answer(m.worker, m.session, NoItem, 2)
             /\ UNCHANGED <<host, queue, pending, result>>
    <3>1. Fits(worker[m.worker].op, NoItem, 2)
      BY <1>1, <2>1, RequestKind DEF Fits
    <3>2. main'.item = NoItem
      BY <2>3 DEF Answer
    <3> QED
      BY <1>1, <2>1, <2>3, <3>1, <3>2, AnswerStep, EmptyAnswer DEF InOrder
  <2> QED
    BY <1>1, <1>5, <2>2, <2>3 DEF ExecuteTryRead
<1>6. CASE ExecutePoll
  <2>1. Receive("poll") /\ m.type = "poll" /\ Receive(m.type)
    BY <1>1, <1>6 DEF ExecutePoll, Receive
  <2>2. PICK status \in {1, 2} : main' = Answer(m.worker, m.session, NoItem, status)
    BY <1>1, <1>6 DEF ExecutePoll
  <2>3. Fits(worker[m.worker].op, NoItem, status)
    BY <1>1, <2>1, RequestKind DEF Fits
  <2>4. main'.item = NoItem
    BY <2>2 DEF Answer
  <2>5. UNCHANGED <<host, queue, pending, result>>
    BY <1>6 DEF ExecutePoll
  <2> QED
    BY <1>1, <2>1, <2>2, <2>3, <2>4, <2>5, AnswerStep, EmptyAnswer DEF InOrder
<1>7. CASE ExecuteReadComplete
  <2>1. Receive("complete") /\ m.type = "complete" /\ Receive(m.type)
    BY <1>1, <1>7 DEF ExecuteReadComplete, Receive
  <2>2. main' = Answer(m.worker, m.session, m.item, 1) /\ UNCHANGED <<host, queue, pending, result>>
    BY <1>1, <1>7 DEF ExecuteReadComplete
  <2>3. m \in In(mailbox)
    BY <1>1, <2>1, Received
  <2>4. m.item # NoItem
    BY <2>1, <2>3 DEF InTime, InOrder, Stored
  <2>5. Fits(worker[m.worker].op, m.item, 1)
    BY <1>1, <2>1, <2>4, RequestKind DEF Fits
  <2> QED
    BY <1>1, <2>1, <2>2, <2>5, AnswerStep, CompleteAnswer DEF InOrder
<1> QED
  BY <1>2, <1>4, <1>5, <1>6, <1>7 DEF Execute

\* What an answer is when it is stored.
LEMMA Storing ==
  ASSUME InTime, main.pc # "idle", NEW w, w = main.worker
  PROVE  /\ w \in Workers /\ main.session \in Sessions /\ worker[w].pc # "load"
         /\ view[w] \in Views /\ worker[w] \in WorkerStates /\ main \in Answers
         /\ \A v \in Workers : OneRequest(v) /\ IsFiniteSet(PendingOf(v))
         /\ Mine /\ Stored /\ \A u \in Sessions : StartedOnce(u) /\ Ordered(u) /\ ExitLast(u)
<1>1. /\ TypeOK /\ Mine /\ Stored /\ \A u \in Sessions : StartedOnce(u) /\ Ordered(u) /\ ExitLast(u)
      /\ \A v \in Workers : OneRequest(v) /\ IsFiniteSet(PendingOf(v))
  BY DEF InTime, InOrder, OneRequest
<1>2. w \in Workers /\ main.session \in Sessions /\ main \in Answers
  BY <1>1 DEF TypeOK
<1>3. worker[w].pc # "load"
  BY <1>2, Unasked
<1> QED
  BY <1>1, <1>2, <1>3 DEF TypeOK

LEMMA StoreBodyStep ==
  ASSUME InTime, StoreBody
  PROVE  InOrder'
<1>1. PICK w : w = main.worker
  OBVIOUS
<1>2. main.pc = "body"
  BY DEF StoreBody
<1>3. /\ w \in Workers /\ main.session \in Sessions /\ worker[w].pc # "load"
      /\ view[w] \in Views /\ main \in Answers
      /\ \A v \in Workers : OneRequest(v)
      /\ Mine /\ Stored /\ \A u \in Sessions : StartedOnce(u) /\ Ordered(u) /\ ExitLast(u)
  BY <1>1, <1>2, Storing
<1>4. /\ main'.pc = "status" /\ main'.worker = main.worker /\ main'.session = main.session
      /\ main'.item = main.item /\ main'.status = main.status
      /\ UNCHANGED <<worker, wire, owner, reads, exits, early, mailbox, host, produced, due, queue, pending, result>>
  BY <1>3 DEF StoreBody, Answers
<1>5. /\ view'[w].session = main.session /\ view'[w].status = view[w].status
      /\ main.item # NoItem => view'[w].item = main.item
      /\ \A v \in Workers : v # w => view'[v] = view[v]
  <2>1. PICK item : /\ item = IF main.item = NoItem THEN view[w].item ELSE main.item
                    /\ view' = [view EXCEPT ![w] = [view[w] EXCEPT !.session = main.session,
                                                                   !.item = item]]
    BY <1>1, <1>3 DEF StoreBody, InTime, TypeOK
  <2>2. view \in [Workers -> Views]
    BY DEF InTime, TypeOK
  <2> QED
    BY <1>3, <2>1, <2>2 DEF Views
<1>6. ASSUME NEW v \in Workers PROVE OneRequest(v)'
  <2>1. Answering(v)' = Answering(v)
    BY <1>2, <1>4 DEF Answering
  <2>2. IsFiniteSet(PendingOf(v)') /\ Owed(v)' = Owed(v)
    BY <1>4, <2>1, OwedStays
  <2>3. view'[v].status = view[v].status
    BY <1>5
  <2> QED
    BY <1>3, <1>4, <2>2, <2>3, OneRequestStays
<1>7. Mine'
  <2>1. Kept
    BY <1>4 DEF Kept, For
  <2>2. main'.pc # "idle" => For(main.worker, main.session, worker[main.worker].op)'
    BY <1>2, <1>3, <1>4 DEF Mine, For
  <2> QED
    BY <1>4, <2>1, <2>2, MineStays
<1>8. Stored'
  BY <1>1, <1>2, <1>3, <1>4, <1>5 DEF Stored
<1>9. ASSUME NEW u \in Sessions PROVE StartedOnce(u)'
  BY <1>3, <1>4, StartedStays
<1>10. ASSUME NEW u \in Sessions PROVE Ordered(u)' /\ ExitLast(u)'
  <2>1. \A k \in 0..Exit : Given(u, k)' <=> Given(u, k)
    BY <1>2, <1>3, <1>4, <1>5 DEF Given
  <2> QED
    BY <1>3, <1>4, <2>1, OrderedStays
<1> QED
  BY <1>6, <1>7, <1>8, <1>9, <1>10 DEF InOrder

LEMMA StoreStatusStep ==
  ASSUME InTime, StoreStatus
  PROVE  InOrder'
<1>1. PICK w : w = main.worker
  OBVIOUS
<1>2. main.pc = "status" /\ worker[w].pc = "blocked"
  BY <1>1 DEF StoreStatus, InTime
<1>3. /\ w \in Workers /\ main.session \in Sessions
      /\ view[w] \in Views /\ main \in Answers
      /\ \A v \in Workers : OneRequest(v) /\ IsFiniteSet(PendingOf(v))
      /\ Mine /\ Stored /\ \A u \in Sessions : StartedOnce(u) /\ Ordered(u) /\ ExitLast(u)
  BY <1>1, <1>2, Storing
<1>4. /\ main'.pc = "notify" /\ main'.worker = main.worker /\ main'.session = main.session
      /\ main'.item = main.item /\ main'.status = main.status
      /\ UNCHANGED <<worker, wire, owner, reads, exits, mailbox, host, produced, due, queue, pending, result>>
  BY <1>3 DEF StoreStatus, Answers
<1>5. /\ view'[w].session = view[w].session /\ view'[w].status = main.status
      /\ view'[w].item = view[w].item
      /\ \A v \in Workers : v # w => view'[v] = view[v]
  <2>1. view' = [view EXCEPT ![w] = [view[w] EXCEPT !.status = main.status]]
    BY <1>1, <1>3 DEF StoreStatus, InTime, TypeOK
  <2>2. view \in [Workers -> Views]
    BY DEF InTime, TypeOK
  <2> QED
    BY <1>3, <2>1, <2>2 DEF Views
<1>6. ASSUME NEW v \in Workers PROVE OneRequest(v)'
  <2>0. IsFiniteSet(PendingOf(v)) /\ PendingOf(v)' = PendingOf(v)
    BY <1>3, <1>4 DEF PendingOf
  <2>1. CASE v = w
    <3>1. Answering(v) = 1 /\ Answering(v)' = 0
      BY <1>1, <1>2, <1>4, <2>1 DEF Answering
    <3>2. TypeOK /\ TypeOK'
      BY DEF InTime
    <3>3. Owed(v) = Count(wire[v], Asks(v)) + Count(mailbox, Asks(v))
                      + Cardinality(PendingOf(v)) + Answering(v)
      BY <2>0, <3>2, OwedIs
    <3>4. /\ Owed(v)' = Count(wire'[v], Asks(v)) + Count(mailbox', Asks(v))
                           + Cardinality(PendingOf(v)') + Answering(v)'
          /\ Count(wire[v], Asks(v)) \in Nat /\ Count(mailbox, Asks(v)) \in Nat
          /\ Cardinality(PendingOf(v)) \in Nat
      BY <2>0, <3>2, OwedIs, OwedNext
    <3>5. wire' = wire /\ mailbox' = mailbox
      BY <1>4
    <3>6. Owed(v) <= 1
      BY <1>3 DEF OneRequest
    <3>7. Owed(v)' = 0
      BY <2>0, <3>1, <3>3, <3>4, <3>5, <3>6
    <3> QED
      BY <1>2, <1>4, <2>0, <2>1, <3>7 DEF OneRequest
  <2>2. CASE v # w
    <3>1. Answering(v)' = Answering(v)
      BY <1>1, <1>2, <1>4, <2>2 DEF Answering
    <3>2. IsFiniteSet(PendingOf(v)') /\ Owed(v)' = Owed(v)
      BY <1>4, <3>1, OwedStays
    <3> QED
      BY <1>1, <1>3, <1>4, <1>5, <2>2, <3>2, OneRequestStays
  <2> QED
    BY <2>1, <2>2
<1>7. Mine'
  <2>1. Kept
    BY <1>4 DEF Kept, For
  <2>2. main'.pc # "idle" => For(main.worker, main.session, worker[main.worker].op)'
    BY <1>2, <1>3, <1>4 DEF Mine, For
  <2> QED
    BY <1>4, <2>1, <2>2, MineStays
<1>8. Stored'
  BY <1>1, <1>2, <1>3, <1>4, <1>5 DEF Stored
<1>9. ASSUME NEW u \in Sessions PROVE StartedOnce(u)'
  BY <1>3, <1>4, StartedStays
<1>10. ASSUME NEW u \in Sessions PROVE Ordered(u)' /\ ExitLast(u)'
  <2>1. \A k \in 0..Exit : Given(u, k)' <=> Given(u, k)
    BY <1>2, <1>3, <1>4, <1>5 DEF Given
  <2> QED
    BY <1>3, <1>4, <2>1, OrderedStays
<1> QED
  BY <1>6, <1>7, <1>8, <1>9, <1>10 DEF InOrder

LEMMA NotifyStep ==
  ASSUME InTime, Notify
  PROVE  InOrder'
<1>1. PICK w : w = main.worker
  OBVIOUS
<1>2. main.pc = "notify"
  BY DEF Notify
<1>3. /\ w \in Workers /\ worker[w] \in WorkerStates
      /\ \A v \in Workers : OneRequest(v)
      /\ Mine /\ Stored /\ \A u \in Sessions : StartedOnce(u) /\ Ordered(u) /\ ExitLast(u)
  BY <1>1, <1>2, Storing
<1>4. worker[w].pc = "blocked" /\ Owed(w) = 0
  BY <1>1, <1>2, <1>3 DEF OneRequest
<1>5. /\ worker'[w].pc = "load"
      /\ worker'[w].session = worker[w].session /\ worker'[w].op = worker[w].op
      /\ \A v \in Workers : v # w => worker'[v] = worker[v]
  <2>1. worker' = [worker EXCEPT ![w] = [worker[w] EXCEPT !.pc = "load"]]
    BY <1>1, <1>3, <1>4 DEF Notify, InTime, TypeOK
  <2>2. worker \in [Workers -> WorkerStates]
    BY DEF InTime, TypeOK
  <2> QED
    BY <1>3, <2>1, <2>2 DEF WorkerStates
<1>6. /\ main'.pc = "idle"
      /\ UNCHANGED <<view, wire, owner, reads, exits, early, mailbox, host, produced, due, queue, pending, result>>
  BY DEF Notify, Idle
<1>7. ASSUME NEW v \in Workers PROVE OneRequest(v)'
  <2>1. Answering(v)' = Answering(v)
    BY <1>2, <1>6 DEF Answering
  <2>2. IsFiniteSet(PendingOf(v)') /\ Owed(v)' = Owed(v)
    BY <1>6, <2>1, OwedStays
  <2>3. CASE v = w
    BY <1>4, <1>5, <1>6, <2>2, <2>3 DEF OneRequest
  <2>4. CASE v # w
    BY <1>3, <1>5, <1>6, <2>2, <2>4, OneRequestStays
  <2> QED
    BY <2>3, <2>4
<1>8. Mine'
  <2>1. Kept
    BY <1>5, <1>6 DEF Kept, For
  <2>2. \A v \in Workers : /\ worker'[v].session = worker[v].session
                           /\ worker'[v].pc # "run" => worker[v].pc # "run"
    BY <1>4, <1>5
  <2> QED
    BY <1>6, <2>1, <2>2, MineStays
<1>9. For(w, main.session, worker[w].op) /\ worker[w].session = main.session
  BY <1>1, <1>2, <1>3 DEF Mine, For
<1>10. /\ view[w].session = main.session /\ (main.item # NoItem => view[w].item = main.item)
       /\ view[w].status = main.status /\ Fits(worker[w].op, main.item, main.status)
  BY <1>1, <1>2, <1>3 DEF Stored
<1>11. Stored'
  <2>1. \A v \in Workers : worker'[v].pc = "load" =>
          /\ view'[v].session = worker'[v].session
          /\ view'[v].status = 1 \/ (view'[v].status = 2 /\ worker'[v].op # "read")
    BY <1>3, <1>5, <1>6, <1>9, <1>10 DEF Stored, Fits
  <2> QED
    BY <1>3, <1>6, <2>1 DEF Stored
<1>12. ASSUME NEW u \in Sessions PROVE StartedOnce(u)'
  BY <1>3, <1>6, StartedStays
<1>13. ASSUME NEW u \in Sessions PROVE Ordered(u)' /\ ExitLast(u)'
  <2>1. ASSUME NEW k PROVE Given(u, k)' <=> Given(u, k)
    <3>1. main.item # NoItem <=> worker[w].op # "poll" /\ view[w].status = 1
      BY <1>10 DEF Fits
    <3>2. (main.session = u /\ main.item = k /\ main.item # NoItem)
             <=> (/\ worker'[w].pc = "load" /\ worker'[w].session = u /\ worker'[w].op # "poll"
                  /\ view'[w].status = 1 /\ view'[w].item = k)
      BY <1>5, <1>6, <1>9, <1>10, <3>1
    <3>3. \A v \in Workers : v # w => worker'[v] = worker[v] /\ view'[v] = view[v]
      BY <1>5, <1>6
    <3>4. (\E v \in Workers : /\ worker'[v].pc = "load" /\ worker'[v].session = u /\ worker'[v].op # "poll"
                              /\ view'[v].status = 1 /\ view'[v].item = k)
           <=> \/ main.session = u /\ main.item = k /\ main.item # NoItem
               \/ \E v \in Workers :
                    /\ worker[v].pc = "load" /\ worker[v].session = u /\ worker[v].op # "poll"
                    /\ view[v].status = 1 /\ view[v].item = k
      BY <1>3, <1>4, <3>2, <3>3
    <3> QED
      BY <1>2, <1>6, <3>4 DEF Given
  <2> QED
    BY <1>3, <1>6, <2>1, OrderedStays
<1> QED
  BY <1>7, <1>8, <1>11, <1>12, <1>13 DEF InOrder

-----------------------------------------------------------------------------
(* The steps of the handlers.                                              *)

\* What a callback leaves as it was.
Behind == /\ main.pc = "idle" /\ UNCHANGED <<worker, view, wire, main, owner, reads, exits>>
          /\ \A u \in Sessions : host'[u] = "none" <=> host[u] = "none"

\* The answer to a pending read goes to the mailbox, and its session has no
\* other answer on its way.
LEMMA CompleteStep ==
  ASSUME InTime, Behind, NEW s \in Sessions, pending[s] # NoWorker,
         NEW item \in 1..Exit, Complete(s, item)
  PROVE  /\ \A v \in Workers : OneRequest(v)'
         /\ Mine' /\ Stored'
         /\ \A u \in Sessions : StartedOnce(u)'
         /\ \A k : ~Given(s, k) /\ (Given(s, k)' <=> k = item)
         /\ \A u \in Sessions : u # s => \A k : Given(u, k)' <=> Given(u, k)
<1>0. TypeOK /\ InOrder /\ TypeOK' /\ Mine
  BY DEF InTime, InOrder
<1>1. PICK w \in Workers : w = pending[s]
  BY <1>0 DEF TypeOK
<1>2. PICK m : m = Message("complete", w, s, item)
  OBVIOUS
<1>3. /\ m \in Messages /\ m.type = "complete" /\ m.worker = w /\ m.session = s /\ m.item = item
      /\ item # NoItem
  BY <1>2, MessageType, Items DEF Message
<1>4. /\ mailbox' = Append(mailbox, m) /\ mailbox \in Seq(Messages) /\ mailbox' \in Seq(Messages)
      /\ pending'[s] = NoWorker /\ \A u \in Sessions : u # s => pending'[u] = pending[u]
      /\ \A e : e \in In(mailbox') <=> e \in In(mailbox) \/ e = m
  <2>1. /\ mailbox' = Append(mailbox, m) /\ mailbox \in Seq(Messages) /\ mailbox' \in Seq(Messages)
        /\ pending'[s] = NoWorker /\ \A u \in Sessions : u # s => pending'[u] = pending[u]
    BY <1>0, <1>1, <1>2 DEF Complete, TypeOK
  <2> QED
    BY <1>3, <2>1, InAppend
<1>5. /\ main.pc = "idle" /\ UNCHANGED <<worker, view, wire, main, owner, reads, exits>>
      /\ \A u \in Sessions : host'[u] = "none" <=> host[u] = "none"
  BY DEF Behind
<1>6. /\ NoneIn(mailbox, w) /\ PendingOf(w) = {s} /\ worker[w].pc # "load"
  BY <1>0, <1>1, PendingAlone DEF InOrder
<1>7. For(w, s, "read") /\ owner[s] = w
  BY <1>0, <1>1, HostExecAssumption DEF Mine, For
<1>8. ASSUME NEW v \in Workers PROVE OneRequest(v)'
  <2>1. IsFiniteSet(PendingOf(v))
    BY <1>0 DEF InOrder, OneRequest
  <2>2. Answering(v)' = Answering(v)
    BY <1>5 DEF Answering
  <2>3. CASE v = w
    <3>1. PendingOf(v)' = {}
      BY <1>4, <1>5, <1>6, <2>3, HostExecAssumption DEF PendingOf
    <3>2. IsFiniteSet({}) /\ Cardinality({}) = 0 /\ Cardinality({s}) = 1
      BY FS_EmptySet, FS_Singleton
    <3>3. IsFiniteSet(PendingOf(v)') /\ Cardinality(PendingOf(v)') = 0 /\ Cardinality(PendingOf(v)) = 1
      BY <1>6, <2>3, <3>1, <3>2
    <3>4. m \in Asks(v)
      BY <1>3, <2>3 DEF Asks
    <3>5. Count(mailbox', Asks(v)) = Count(mailbox, Asks(v)) + 1
      BY <1>3, <1>4, <3>4, CountSkips
    <3>6. /\ Owed(v) = Count(wire[v], Asks(v)) + Count(mailbox, Asks(v))
                        + Cardinality(PendingOf(v)) + Answering(v)
          /\ Count(wire[v], Asks(v)) \in Nat /\ Count(mailbox, Asks(v)) \in Nat
          /\ Answering(v) \in {0, 1}
      BY <1>0, <2>1, OwedIs
    <3>7. Owed(v)' = Count(wire'[v], Asks(v)) + Count(mailbox', Asks(v))
                           + Cardinality(PendingOf(v)') + Answering(v)'
      BY <1>0, <3>3, OwedNext
    <3>8. wire' = wire
      BY <1>5
    <3>9. Owed(v)' = Owed(v)
      BY <2>2, <3>3, <3>5, <3>6, <3>7, <3>8
    <3> QED
      BY <1>0, <1>5, <3>3, <3>9, OneRequestStays DEF InOrder
  <2>4. CASE v # w
    <3>1. m \notin Asks(v)
      BY <1>3, <2>4 DEF Asks
    <3>2. Count(mailbox', Asks(v)) = Count(mailbox, Asks(v))
      BY <1>3, <1>4, <3>1, CountSkips
    <3>3. PendingOf(v)' = PendingOf(v)
      BY <1>1, <1>4, <2>4, HostExecAssumption DEF PendingOf
    <3>4. Owed(v) = Count(wire[v], Asks(v)) + Count(mailbox, Asks(v))
                      + Cardinality(PendingOf(v)) + Answering(v)
      BY <1>0, <2>1, OwedIs
    <3>5. Owed(v)' = Count(wire'[v], Asks(v)) + Count(mailbox', Asks(v))
                           + Cardinality(PendingOf(v)') + Answering(v)'
      BY <1>0, <2>1, <3>3, OwedNext
    <3>6. wire' = wire
      BY <1>5
    <3>7. Owed(v)' = Owed(v)
      BY <2>2, <3>2, <3>3, <3>4, <3>5, <3>6
    <3> QED
      BY <1>0, <1>5, <2>1, <3>3, <3>7, OneRequestStays DEF InOrder
  <2> QED
    BY <2>3, <2>4
<1>9. Mine'
  <2>1. Kept
    BY <1>5 DEF Kept, For
  <2>2. Asked(m)'
    BY <1>3, <1>5, <1>7 DEF Asked, For
  <2>3. \A e \in In(mailbox') : e \in In(mailbox) \/ Asked(e)'
    BY <1>4, <2>2
  <2>4. \A u \in Sessions : pending'[u] # NoWorker => pending'[u] = pending[u]
    BY <1>4
  <2> QED
    BY <1>5, <2>1, <2>3, <2>4, MineStays
<1>10. Stored'
  BY <1>0, <1>3, <1>4, <1>5 DEF InOrder, Stored
<1>11. ASSUME NEW u \in Sessions PROVE StartedOnce(u)'
  <2>1. m \notin Starts(u)
    BY <1>3 DEF Starts
  <2>2. Count(mailbox', Starts(u)) = Count(mailbox, Starts(u))
    BY <1>3, <1>4, <2>1, CountSkips
  <2> QED
    BY <1>0, <1>5, <2>2, StartedStays DEF InOrder
<1>12. ASSUME NEW k PROVE ~Given(s, k) /\ (Given(s, k)' <=> k = item)
  <2>1. ~Given(s, k)
    BY <1>5, <1>6, <1>7, GivenToOwner DEF NoneIn, NoAnswerIn
  <2>2. Given(s, k)' <=> k = item
    BY <1>3, <1>4, <1>5, <2>1 DEF Given
  <2> QED
    BY <2>1, <2>2
<1>13. ASSUME NEW u \in Sessions, u # s, NEW k PROVE Given(u, k)' <=> Given(u, k)
  BY <1>3, <1>4, <1>5, <1>13 DEF Given
<1> QED
  BY <1>8, <1>9, <1>10, <1>11, <1>12, <1>13

\* Without a pending read nothing is given.
LEMMA NoCompleteStep ==
  ASSUME InTime, Behind, UNCHANGED <<mailbox, pending>>
  PROVE  /\ \A v \in Workers : OneRequest(v)'
         /\ Mine' /\ Stored'
         /\ \A u \in Sessions : StartedOnce(u)'
         /\ \A u \in Sessions : \A k : Given(u, k)' <=> Given(u, k)
<1>0. TypeOK /\ InOrder /\ TypeOK' /\ Mine
  BY DEF InTime, InOrder
<1>1. /\ main.pc = "idle" /\ UNCHANGED <<worker, view, wire, main, owner, reads, exits>>
      /\ \A u \in Sessions : host'[u] = "none" <=> host[u] = "none"
  BY DEF Behind
<1>2. ASSUME NEW v \in Workers PROVE OneRequest(v)'
  <2>1. IsFiniteSet(PendingOf(v)') /\ Owed(v)' = Owed(v)
    BY <1>1, OwedStays DEF Answering
  <2> QED
    BY <1>0, <1>1, <2>1, OneRequestStays DEF InOrder
<1>3. Mine'
  <2>1. Kept
    BY <1>1 DEF Kept, For
  <2> QED
    BY <1>1, <2>1, MineStays
<1>4. Stored'
  BY <1>0, <1>1 DEF InOrder, Stored
<1>5. ASSUME NEW u \in Sessions PROVE StartedOnce(u)'
  BY <1>0, <1>1, StartedStays DEF InOrder
<1>6. \A u \in Sessions : \A k : Given(u, k)' <=> Given(u, k)
  BY <1>1 DEF Given
<1> QED
  BY <1>2, <1>3, <1>4, <1>5, <1>6

\* With nothing queued, both kinds of message go past the queue.
LEMMA PastQueue ==
  ASSUME InTime, NEW s \in Sessions, pending[s] # NoWorker,
         OnOutput(s) \/ OnSpawn(s)
  PROVE  Complete(s, produced'[s]) /\ queue'[s] = <<>> /\ queue[s] = <<>>
         /\ \A u \in Sessions : u # s => queue'[u] = queue[u]
<1>1. queue[s] = <<>> /\ TypeOK
  BY DEF InTime, PendingMeansEmpty, Ready
<1>2. CASE OnOutput(s)
  BY <1>1, <1>2 DEF OnOutput
<1>3. CASE OnSpawn(s)
  <2>1. PICK x : x = produced'[s]
    OBVIOUS
  <2>2. Append(queue[s], x) = <<x>>
    BY <1>1
  <2>3. Complete(s, Head(Append(queue[s], x))) /\ queue' = [queue EXCEPT ![s] = Tail(Append(queue[s], x))]
    BY <1>3, <2>1 DEF OnSpawn
  <2>4. Head(<<x>>) = x /\ Tail(<<x>>) = <<>>
    OBVIOUS
  <2>5. Complete(s, x) /\ queue' = [queue EXCEPT ![s] = <<>>]
    BY <2>2, <2>3, <2>4
  <2>6. queue \in [Sessions -> Seq(1..MaxOutput)]
    BY <1>1 DEF TypeOK
  <2> QED
    BY <1>1, <2>1, <2>5, <2>6
<1> QED
  BY <1>2, <1>3

LEMMA OutputStep ==
  ASSUME InTime, NEW s \in Sessions, OnOutput(s) \/ OnSpawn(s)
  PROVE  InOrder'
<1>0. TypeOK /\ InOrder
  BY DEF InTime
<1>1. Produce(s)
  BY DEF OnOutput, OnSpawn
<1>2. Behind /\ UNCHANGED <<host, reads, exits, result, due>>
  BY <1>1 DEF Produce, Behind
<1>3. /\ produced'[s] = produced[s] + 1 /\ produced'[s] \in 1..MaxOutput
      /\ produced[s] \in Nat
      /\ \A u \in Sessions : u # s => produced'[u] = produced[u]
  <2>1. produced \in [Sessions -> 0..MaxOutput] /\ produced[s] \in 0..MaxOutput
    BY <1>0 DEF TypeOK
  <2>2. produced' = [produced EXCEPT ![s] = produced[s] + 1]
    BY <1>1 DEF Produce
  <2> QED
    BY <1>0, <1>1, <2>1, <2>2, ProduceType, Items
<1>4. CASE pending[s] # NoWorker
  <2>1. /\ Complete(s, produced'[s]) /\ queue'[s] = <<>> /\ queue[s] = <<>>
        /\ \A u \in Sessions : u # s => queue'[u] = queue[u]
    BY <1>4, PastQueue
  <2>2. PICK x \in 1..MaxOutput : x = produced'[s]
    BY <1>3
  <2>3. x \in 1..Exit
    BY <2>2, Items
  <2>4. /\ \A v \in Workers : OneRequest(v)'
        /\ Mine' /\ Stored'
        /\ \A u \in Sessions : StartedOnce(u)'
        /\ \A k : ~Given(s, k) /\ (Given(s, k)' <=> k = x)
        /\ \A u \in Sessions : u # s => \A k : Given(u, k)' <=> Given(u, k)
    BY <1>2, <1>4, <2>1, <2>2, <2>3, CompleteStep
  <2>5. ASSUME NEW u \in Sessions PROVE Ordered(u)' /\ ExitLast(u)'
    <3>1. CASE u # s
      BY <1>0, <1>2, <1>3, <2>1, <2>4, <3>1, OrderedStays DEF InOrder
    <3>2. CASE u = s
      <4>1. /\ produced[s] = Len(reads[s]) + Len(queue[s])
            /\ due[s] <= produced[s] /\ due[s] \in Nat /\ Len(reads[s]) \in Nat
        BY <2>4, OrderOfNone
      <4>2. /\ produced[s] = Len(reads[s]) + 0 + Len(queue[s])
            /\ Len(reads[s]) \in Nat /\ Len(queue[s]) = 0 /\ Len(queue'[s]) = 0
            /\ due[s] <= produced[s] /\ due[s] \in Nat
        BY <2>1, <4>1
      <4>3. x = Len(reads[s]) + 1
        BY <1>3, <2>2, <4>2
      <4>4. 1 = (IF \E k \in 1..MaxOutput : Given(s, k)' THEN 1 ELSE 0)
        BY <2>4 DEF One
      <4>5. reads'[s] = reads[s] /\ due'[s] = due[s]
        BY <1>2
      <4>6. produced'[s] = Len(reads'[s]) + 1 + Len(queue'[s]) /\ due'[s] <= produced'[s]
        BY <1>3, <4>2, <4>5
      <4>7. \A i \in 1..Len(queue'[s]) : queue'[s][i] = Len(reads'[s]) + 1 + i
        BY <4>2
      <4>8. \A k \in 0..MaxOutput : Given(s, k)' => k = Len(reads'[s]) + 1
        BY <2>2, <2>4, <4>3, <4>5
      <4>9. Ordered(s)'
        BY <4>4, <4>6, <4>7, <4>8, OrderedNext
      <4>10. ExitLast(s)'
        <5>1. ~Given(s, Exit) /\ ~Given(s, Exit)'
          BY <2>4, Items
        <5> QED
          BY <1>0, <1>2, <5>1, ExitLastStays DEF InOrder
      <4> QED
        BY <3>2, <4>9, <4>10
    <3> QED
      BY <3>1, <3>2
  <2> QED
    BY <2>4, <2>5 DEF InOrder
<1>5. CASE pending[s] = NoWorker
  <2>1. PICK x \in 1..MaxOutput : x = produced'[s]
    BY <1>3
  <2>2. queue' = [queue EXCEPT ![s] = Append(queue[s], x)] /\ UNCHANGED <<mailbox, pending>>
    BY <1>5, <2>1 DEF OnOutput, OnSpawn
  <2>3. queue'[s] = Append(queue[s], x) /\ \A u \in Sessions : u # s => queue'[u] = queue[u]
    BY <1>0, <2>2 DEF TypeOK
  <2>4. /\ \A v \in Workers : OneRequest(v)'
        /\ Mine' /\ Stored'
        /\ \A u \in Sessions : StartedOnce(u)'
        /\ \A u \in Sessions : \A k : Given(u, k)' <=> Given(u, k)
    BY <1>2, <2>2, NoCompleteStep
  <2>5. ASSUME NEW u \in Sessions PROVE Ordered(u)' /\ ExitLast(u)'
    <3>1. CASE u # s
      BY <1>0, <1>2, <1>3, <2>3, <2>4, <3>1, OrderedStays DEF InOrder
    <3>2. CASE u = s
      <4>2. PICK g \in {0, 1} :
              /\ g = IF \E k \in 1..MaxOutput : Given(s, k) THEN 1 ELSE 0
              /\ produced[s] = Len(reads[s]) + g + Len(queue[s])
              /\ \A i \in 1..Len(queue[s]) : queue[s][i] = Len(reads[s]) + g + i
              /\ \A k \in 0..MaxOutput : Given(s, k) => k = Len(reads[s]) + 1
              /\ Len(reads[s]) \in Nat /\ queue[s] \in Seq(1..MaxOutput)
              /\ due[s] <= produced[s] /\ due[s] \in Nat /\ produced[s] \in Nat
        BY OrderOf
      <4>3. g = (IF \E k \in 1..MaxOutput : Given(s, k)' THEN 1 ELSE 0)
        BY <2>4, <4>2
      <4>4. reads'[s] = reads[s] /\ due'[s] = due[s]
        BY <1>2
      <4>5. /\ Len(queue[s]) \in Nat /\ Len(queue'[s]) = Len(queue[s]) + 1
            /\ queue'[s][Len(queue[s]) + 1] = x
            /\ \A i \in 1..Len(queue[s]) : queue'[s][i] = queue[s][i]
        BY <2>3, <4>2
      <4>6. produced'[s] = Len(reads'[s]) + g + Len(queue'[s])
        <5>1. \A a, b, c \in Nat : a + b + c + 1 = a + b + (c + 1)
          OBVIOUS
        <5>2. g \in Nat
          OBVIOUS
        <5>3. Len(reads[s]) + g + Len(queue[s]) + 1 = Len(reads[s]) + g + (Len(queue[s]) + 1)
          <6>1. Len(reads[s]) \in Nat /\ Len(queue[s]) \in Nat
            BY <4>2, <4>5
          <6> QED
            BY <5>1, <5>2, <6>1
        <5>4. produced'[s] = Len(reads[s]) + g + Len(queue[s]) + 1
          BY <1>3, <4>2
        <5>5. Len(reads[s]) + g + (Len(queue[s]) + 1) = Len(reads'[s]) + g + Len(queue'[s])
          BY <4>4, <4>5
        <5> QED
          BY <5>3, <5>4, <5>5
      <4>7. ASSUME NEW i \in 1..Len(queue'[s]) PROVE queue'[s][i] = Len(reads'[s]) + g + i
        <5>1. CASE i \in 1..Len(queue[s])
          BY <4>2, <4>4, <4>5, <5>1
        <5>2. CASE i = Len(queue[s]) + 1
          BY <2>1, <4>4, <4>5, <4>6, <5>2
        <5> QED
          BY <4>5, <5>1, <5>2
      <4>8. \A k \in 0..MaxOutput : Given(s, k)' => k = Len(reads'[s]) + 1
        BY <2>4, <4>2, <4>4
      <4>9. due'[s] <= produced'[s]
        <5>1. \A a, b \in Nat : a <= b => a <= b + 1
          OBVIOUS
        <5>2. due[s] <= produced[s] + 1
          BY <4>2, <5>1
        <5> QED
          BY <1>3, <4>4, <5>2
      <4>10. Ordered(s)'
        BY <4>3, <4>6, <4>7, <4>8, <4>9, OrderedNext
      <4>11. ExitLast(s)'
        BY <1>0, <1>2, <2>4, ExitLastStays DEF InOrder
      <4> QED
        BY <3>2, <4>10, <4>11
    <3> QED
      BY <3>1, <3>2
  <2> QED
    BY <2>4, <2>5 DEF InOrder
<1> QED
  BY <1>4, <1>5

LEMMA SettleStep ==
  ASSUME InTime, NEW s \in Sessions, Settle(s)
  PROVE  InOrder'
<1>0. TypeOK /\ InOrder
  BY DEF InTime
<1>1. /\ host[s] = "running" /\ host'[s] = "settled" /\ result'[s] /\ due'[s] = produced[s]
      /\ \A u \in Sessions : u # s => host'[u] = host[u] /\ result'[u] = result[u] /\ due'[u] = due[u]
      /\ UNCHANGED <<queue, produced, reads, exits>>
  BY <1>0 DEF Settle, TypeOK
<1>2. Behind
  BY <1>1 DEF Settle, Behind
<1>3. CASE pending[s] # NoWorker
  <2>1. /\ Complete(s, Exit) /\ queue[s] = <<>>
    BY <1>3 DEF Settle, InTime, PendingMeansEmpty, Ready
  <2>2. Exit \in 1..Exit /\ \A k \in 1..MaxOutput : k # Exit
    BY Items
  <2>3. /\ \A v \in Workers : OneRequest(v)'
        /\ Mine' /\ Stored'
        /\ \A u \in Sessions : StartedOnce(u)'
        /\ \A k : ~Given(s, k) /\ (Given(s, k)' <=> k = Exit)
        /\ \A u \in Sessions : u # s => \A k : Given(u, k)' <=> Given(u, k)
    BY <1>2, <1>3, <2>1, <2>2, CompleteStep
  <2>4. ASSUME NEW u \in Sessions PROVE Ordered(u)' /\ ExitLast(u)'
    <3>1. CASE u # s
      BY <1>0, <1>1, <2>3, <3>1, OrderedStays DEF InOrder
    <3>2. CASE u = s
      <4>1. /\ produced[s] = Len(reads[s]) + Len(queue[s])
            /\ produced[s] \in Nat /\ Len(reads[s]) \in Nat
        BY <2>3, OrderOfNone
      <4>2. /\ produced[s] = Len(reads[s]) + 0 + Len(queue[s])
            /\ Len(reads[s]) \in Nat /\ Len(queue[s]) = 0 /\ produced[s] \in Nat
        BY <2>1, <4>1
      <4>3. 0 = (IF \E k \in 1..MaxOutput : Given(s, k)' THEN 1 ELSE 0)
        BY <2>2, <2>3 DEF One
      <4>4. /\ produced'[s] = Len(reads'[s]) + 0 + Len(queue'[s]) /\ due'[s] <= produced'[s]
            /\ \A i \in 1..Len(queue'[s]) : queue'[s][i] = Len(reads'[s]) + 0 + i
        BY <1>1, <4>2
      <4>5. \A k \in 0..MaxOutput : ~Given(s, k)'
        BY <2>3, Items
      <4>6. Ordered(s)'
        BY <4>3, <4>4, <4>5, OrderedNext
      <4>7. Due(s)'
        BY <1>1, <4>2 DEF Due
      <4>8. exits'[s] + One(Given(s, Exit)') + One(result'[s]) <= 2
        <5>1. exits[s] = 0
          BY <1>0, <1>1 DEF InOrder, ExitLast
        <5>2. One(Given(s, Exit)') \in {0, 1} /\ One(result'[s]) \in {0, 1}
          BY DEF One
        <5>3. exits'[s] = 0
          BY <1>1, <5>1
        <5> QED
          BY <5>2, <5>3
      <4>9. ExitLast(s)'
        BY <1>1, <4>7, <4>8 DEF ExitLast
      <4> QED
        BY <3>2, <4>6, <4>9
    <3> QED
      BY <3>1, <3>2
  <2> QED
    BY <2>3, <2>4 DEF InOrder
<1>4. CASE pending[s] = NoWorker
  <2>1. UNCHANGED <<mailbox, pending>>
    BY <1>4 DEF Settle
  <2>2. /\ \A v \in Workers : OneRequest(v)'
        /\ Mine' /\ Stored'
        /\ \A u \in Sessions : StartedOnce(u)'
        /\ \A u \in Sessions : \A k : Given(u, k)' <=> Given(u, k)
    BY <1>2, <2>1, NoCompleteStep
  <2>3. ASSUME NEW u \in Sessions PROVE Ordered(u)' /\ ExitLast(u)'
    <3>1. CASE u # s
      BY <1>0, <1>1, <2>2, <3>1, OrderedStays DEF InOrder
    <3>2. CASE u = s
      <4>2. PICK g \in {0, 1} :
              /\ g = IF \E k \in 1..MaxOutput : Given(s, k) THEN 1 ELSE 0
              /\ produced[s] = Len(reads[s]) + g + Len(queue[s])
              /\ \A i \in 1..Len(queue[s]) : queue[s][i] = Len(reads[s]) + g + i
              /\ \A k \in 0..MaxOutput : Given(s, k) => k = Len(reads[s]) + 1
              /\ Len(reads[s]) \in Nat /\ queue[s] \in Seq(1..MaxOutput)
              /\ due[s] <= produced[s] /\ due[s] \in Nat /\ produced[s] \in Nat
        BY OrderOf
      <4>3. g = (IF \E k \in 1..MaxOutput : Given(s, k)' THEN 1 ELSE 0)
        BY <2>2, <4>2
      <4>4. \A k \in 0..MaxOutput : Given(s, k)' => k = Len(reads'[s]) + 1
        BY <1>1, <2>2, <4>2
      <4>5. /\ produced'[s] = Len(reads'[s]) + g + Len(queue'[s]) /\ due'[s] <= produced'[s]
            /\ \A i \in 1..Len(queue'[s]) : queue'[s][i] = Len(reads'[s]) + g + i
        <5>1. queue'[s] = queue[s] /\ reads'[s] = reads[s] /\ produced'[s] = produced[s]
              /\ due'[s] = produced[s]
          BY <1>1
        <5>2. /\ produced[s] = Len(reads[s]) + g + Len(queue[s]) /\ produced[s] \in Nat
              /\ \A i \in 1..Len(queue[s]) : queue[s][i] = Len(reads[s]) + g + i
          BY <4>2
        <5>3. \A a \in Nat : a <= a
          OBVIOUS
        <5>4. produced[s] <= produced[s]
          BY <5>2, <5>3
        <5> QED
          BY <5>1, <5>2, <5>4
      <4>6. Ordered(s)'
        BY <4>3, <4>4, <4>5, OrderedNext
      <4>7. exits[s] = 0 /\ ~Given(s, Exit)
        BY <1>0, <1>1 DEF InOrder, ExitLast
      <4>8. ~Given(s, Exit)'
        BY <2>2, <4>7
      <4>9. exits'[s] + One(Given(s, Exit)') + One(result'[s]) <= 2
        BY <1>1, <4>7, <4>8 DEF One
      <4>10. ExitLast(s)'
        BY <1>1, <4>8, <4>9 DEF ExitLast
      <4> QED
        BY <3>2, <4>6, <4>10
    <3> QED
      BY <3>1, <3>2
  <2> QED
    BY <2>2, <2>3 DEF InOrder
<1> QED
  BY <1>3, <1>4

-----------------------------------------------------------------------------
(* All steps.                                                              *)

LEMMA InitInv == Init => IInv
<1> SUFFICES ASSUME Init PROVE IInv
  OBVIOUS
<1>1. TypeOK /\ PendingMeansEmpty
  BY InitType DEF Init, PendingMeansEmpty
<1>2. /\ \A w \in Workers : worker[w].pc = "run" /\ wire[w] = <<>>
      /\ mailbox = <<>> /\ main.pc = "idle"
      /\ \A s \in Sessions : /\ pending[s] = NoWorker /\ owner[s] = NoWorker /\ host[s] = "none"
                             /\ queue[s] = <<>> /\ reads[s] = <<>> /\ produced[s] = 0 /\ ~result[s]
                             /\ due[s] = 0 /\ exits[s] = 0
  BY DEF Init, Idle
<1>3. In(<<>>) = {} /\ \A S : Count(<<>>, S) = 0
  BY FS_EmptySet DEF In, Found, Count
<1>4. ASSUME NEW w \in Workers PROVE OneRequest(w)
  <2>1. PendingOf(w) = {} /\ IsFiniteSet({}) /\ Cardinality({}) = 0
    BY <1>2, FS_EmptySet, HostExecAssumption DEF PendingOf
  <2>2. Owed(w) = 0
    <3>1. Answering(w) = 0
      BY <1>2 DEF Answering
    <3>2. /\ Count(wire[w], Asks(w)) = 0 /\ Count(mailbox, Asks(w)) = 0
          /\ Cardinality(PendingOf(w)) = 0 /\ IsFiniteSet(PendingOf(w))
      BY <1>2, <1>3, <2>1
    <3>3. Owed(w) = Count(wire[w], Asks(w)) + Count(mailbox, Asks(w))
                      + Cardinality(PendingOf(w)) + Answering(w)
      BY <1>1, <3>2, OwedIs
    <3> QED
      BY <3>1, <3>2, <3>3
  <2> QED
    BY <1>2, <2>1, <2>2 DEF OneRequest
<1>5. Mine /\ Stored
  BY <1>2, <1>3 DEF Mine, Stored
<1>6. ASSUME NEW s \in Sessions PROVE StartedOnce(s) /\ Ordered(s) /\ ExitLast(s)
  <2>1. StartedOnce(s)
    BY <1>2, <1>3 DEF StartedOnce
  <2>2. \A k : ~Given(s, k)
    BY <1>2, <1>3 DEF Given
  <2>3. Len(queue[s]) = 0 /\ Len(reads[s]) = 0
    BY <1>2
  <2>4. 0 = (IF \E k \in 1..MaxOutput : Given(s, k) THEN 1 ELSE 0)
    BY <2>2 DEF One
  <2>5. /\ produced[s] = Len(reads[s]) + 0 + Len(queue[s]) /\ due[s] <= produced[s]
        /\ \A i \in 1..Len(queue[s]) : queue[s][i] = Len(reads[s]) + 0 + i
    BY <1>2, <2>3
  <2>6. Ordered(s)
    BY <2>2, <2>4, <2>5 DEF Ordered
  <2>7. ExitLast(s)
    BY <1>2, <2>2 DEF ExitLast, One
  <2> QED
    BY <2>1, <2>6, <2>7
<1> QED
  BY <1>1, <1>4, <1>5, <1>6 DEF IInv, InOrder

\* A step changes nothing but what it names.
LEMMA Stutter ==
  ASSUME InTime, UNCHANGED vars
  PROVE  InOrder'
<1>1. UNCHANGED <<worker, view, wire, owner, reads, exits, mailbox, main, host, produced, due, queue, pending, result>>
  BY DEF vars, mainVars
<1>2. InOrder
  BY DEF InTime
<1>3. \A w \in Workers : OneRequest(w)'
  BY <1>1, <1>2 DEF InOrder, OneRequest, Owed, AsksIn, PendingOf
<1>4. Mine'
  BY <1>1, <1>2 DEF InOrder, Mine, Sent, Asked, For
<1>5. Stored'
  BY <1>1, <1>2 DEF InOrder, Stored
<1>6. ASSUME NEW s \in Sessions PROVE StartedOnce(s)' /\ Ordered(s)' /\ ExitLast(s)'
  <2>1. \A k \in 0..Exit : Given(s, k)' <=> Given(s, k)
    BY <1>1 DEF Given
  <2> QED
    BY <1>1, <1>2, <2>1, StartedStays, OrderedStays DEF InOrder
<1> QED
  BY <1>3, <1>4, <1>5, <1>6 DEF InOrder

\* What came early stays known.
LEMMA EarlyStays == [Next]_vars /\ early => early'
BY DEF Next, vars, mainVars, Start, Request, Resume, ResetStatus, Wait, Load, Deliver,
       Execute, ExecuteStart, ExecuteRead, ExecuteTryRead, ExecutePoll, ExecuteReadComplete,
       Receive, Store, StoreBody, StoreStatus, Notify, OnOutput, OnSpawn, Settle, Produce

LEMMA InOrderStep ==
  ASSUME InTime, [Next]_vars
  PROVE  InOrder'
<1>1. CASE \E w \in Workers, s \in Sessions : Start(w, s)
  BY <1>1, StartStep
<1>2. CASE \E w \in Workers, op \in Ops, s \in Sessions : Request(w, op, s)
  BY <1>2, RequestStep
<1>3. CASE \E w \in Workers : Resume(w) \/ Deliver(w)
  BY <1>3, ResetStatusStep, WaitStep, LoadStep, DeliverStep DEF Resume
<1>4. CASE Execute
  BY <1>4, ExecuteStep
<1>5. CASE Store
  BY <1>5, StoreBodyStep, StoreStatusStep, NotifyStep DEF Store
<1>6. CASE \E s \in Sessions : OnOutput(s) \/ OnSpawn(s) \/ Settle(s)
  BY <1>6, OutputStep, SettleStep
<1>7. CASE UNCHANGED vars
  BY <1>7, Stutter
<1> QED
  BY <1>1, <1>2, <1>3, <1>4, <1>5, <1>6, <1>7 DEF Next

LEMMA Step == IInv /\ [Next]_vars => IInv'
<1> SUFFICES ASSUME IInv, [Next]_vars PROVE IInv'
  OBVIOUS
<1>1. TypeOK' /\ PendingMeansEmpty'
  BY TypeStep, PendingStep DEF IInv
<1>2. ASSUME ~early' PROVE InOrder'
  <2>1. InTime
    BY <1>1, <1>2, EarlyStays DEF IInv, InTime
  <2> QED
    BY <2>1, InOrderStep
<1> QED
  BY <1>1, <1>2 DEF IInv

\* The inductive invariant holds in every state.
THEOREM Invariance == Spec => []IInv
BY InitInv, Step, PTL DEF Spec

\* As long as no answer has come early, whatever the worker asks and however
\* many workers ask: an answer is under way only while its worker waits for it,
\* and never a second one.
THEOREM OneAnswerUnderWay == Spec => []OneAnswer
<1>1. IInv => OneAnswer
  BY DEF IInv, InOrder, OneRequest, OneAnswer
<1> QED
  BY <1>1, Invariance, PTL

\* As long as no answer has come early, what a woken worker finds is the answer
\* to its own request: the next message, or the exit code of a handler that has
\* settled.
THEOREM AnswerToMine == Spec => []AnswerIsMine
<1>1. IInv => AnswerIsMine
  <2> SUFFICES ASSUME TypeOK, InOrder, NEW w \in Workers, worker[w].pc = "load",
                      NEW s, s = worker[w].session
               PROVE  /\ view[w].session = s
                      /\ view[w].status = 1 \/ (view[w].status = 2 /\ worker[w].op # "read")
                      /\ worker[w].op # "poll" /\ view[w].status = 1
                           => \/ view[w].item = Len(reads[s]) + 1
                              \/ view[w].item = Exit /\ host[s] = "settled"
    BY DEF IInv, AnswerIsMine
  <2>1. /\ view[w].session = s
        /\ view[w].status = 1 \/ (view[w].status = 2 /\ worker[w].op # "read")
    BY DEF InOrder, Stored
  <2>2. ASSUME worker[w].op # "poll", view[w].status = 1
        PROVE  \/ view[w].item = Len(reads[s]) + 1
               \/ view[w].item = Exit /\ host[s] = "settled"
    <3>1. s \in Sessions /\ view[w].item \in 0..Exit
      BY DEF TypeOK, Views
    <3>2. Given(s, view[w].item)
      BY <2>2 DEF Given
    <3>3. Ordered(s) /\ ExitLast(s)
      BY <3>1 DEF InOrder
    <3>4. view[w].item \in 0..MaxOutput \/ view[w].item = Exit
      BY <3>1, Items
    <3> QED
      BY <3>2, <3>3, <3>4 DEF Ordered, ExitLast, Due
  <2> QED
    BY <2>1, <2>2
<1> QED
  BY <1>1, Invariance, PTL

-----------------------------------------------------------------------------
(* What the programs are promised of their sessions.                       *)

Settled == {s \in Sessions : host[s] = "settled"}

\* A program that takes an answer reads the next message or the exit code of
\* a handler that has settled.
LEMMA LoadKeepsPromise ==
  ASSUME InTime, NEW w \in Workers, Load(w)
  PROVE  Promised!Next \/ UNCHANGED <<produced, Settled, due, reads, exits>>
<1>0. TypeOK /\ InOrder
  BY DEF InTime
<1>1. PICK s \in Sessions : s = worker[w].session
  BY <1>0 DEF Load, TypeOK
<1>2. PICK k \in 0..Exit : k = view[w].item
  BY <1>0 DEF TypeOK, Views
<1>3. UNCHANGED <<produced, Settled, due>> /\ worker[w].pc = "load"
  BY DEF Load, mainVars, Settled
<1>4. CASE UNCHANGED <<reads, exits>>
  BY <1>3, <1>4
<1>5. CASE ~UNCHANGED <<reads, exits>>
  <2>1. /\ view[w].session = s /\ (view[w].status = 1 \/ (view[w].status = 2 /\ worker[w].op # "read"))
    BY <1>0, <1>1, <1>3 DEF InOrder, Stored
  <2>2. /\ worker[w].op # "poll" /\ view[w].status = 1
        /\ k # Exit => reads' = [reads EXCEPT ![s] = Append(reads[s], k)] /\ exits' = exits
        /\ k = Exit => reads' = reads /\ exits' = [exits EXCEPT ![s] = exits[s] + 1]
    BY <1>1, <1>2, <1>5, <2>1 DEF Load
  <2>3. Given(s, k)
    BY <1>1, <1>2, <1>3, <2>2 DEF Given
  <2>4. Ordered(s) /\ ExitLast(s)
    BY <1>0 DEF InOrder
  <2>5. PICK g \in {0, 1} :
          /\ g = IF \E i \in 1..MaxOutput : Given(s, i) THEN 1 ELSE 0
          /\ produced[s] = Len(reads[s]) + g + Len(queue[s])
          /\ \A i \in 0..MaxOutput : Given(s, i) => i = Len(reads[s]) + 1
          /\ Len(reads[s]) \in Nat /\ Len(queue[s]) \in Nat
          /\ produced[s] \in 0..MaxOutput /\ exits[s] \in Nat
    BY OrderOf
  <2>6. /\ produced[s] = Len(reads[s]) + g + Len(queue[s])
        /\ \A i \in 0..MaxOutput : Given(s, i) => i = Len(reads[s]) + 1
        /\ Len(reads[s]) \in Nat /\ Len(queue[s]) \in Nat
        /\ produced[s] \in 0..MaxOutput /\ exits[s] \in Nat
    BY <2>5
  <2>7. CASE k # Exit
    <3>1. k \in 0..MaxOutput
      BY <2>7, Items
    <3>2. k = Len(reads[s]) + 1
      BY <2>3, <2>6, <3>1
    <3>3. k \in 1..MaxOutput
      BY <2>6, <3>1, <3>2, Items
    <3>4. g = 1
      BY <2>3, <2>5, <3>3 DEF One
    <3>5. Len(reads[s]) < produced[s]
      <4>1. \A a, b \in Nat : a < a + 1 + b
        OBVIOUS
      <4>2. Len(reads[s]) < Len(reads[s]) + 1 + Len(queue[s])
        BY <2>6, <4>1
      <4>3. produced[s] = Len(reads[s]) + 1 + Len(queue[s])
        BY <2>6, <3>4
      <4> QED
        BY <4>2, <4>3
    <3>6. Promised!Read(s)
      BY <1>3, <2>2, <2>7, <3>2, <3>5 DEF Promised!Read, Settled
    <3> QED
      BY <3>6 DEF Promised!Next
  <2>8. CASE k = Exit
    <3>1. /\ s \in Settled /\ due[s] <= Len(reads[s])
          /\ exits[s] + 1 + One(result[s]) <= 2
      BY <2>3, <2>4, <2>8 DEF ExitLast, Due, Settled, One
    <3>2. exits[s] < 2
      <4>1. One(result[s]) \in {0, 1}
        BY DEF One
      <4> QED
        BY <2>6, <3>1, <4>1
    <3>3. Promised!ReadExit(s)
      BY <1>3, <2>2, <2>8, <3>1, <3>2 DEF Promised!ReadExit, Settled
    <3> QED
      BY <3>3 DEF Promised!Next
  <2> QED
    BY <2>7, <2>8
<1> QED
  BY <1>4, <1>5

\* Every other step of the workers and of the main thread says nothing of the
\* sessions, and the callbacks are those of the promise.
LEMMA StepKeepsPromise ==
  ASSUME InTime, [Next]_vars
  PROVE  Promised!Next \/ UNCHANGED <<produced, Settled, due, reads, exits>>
<1>0. TypeOK /\ InOrder
  BY DEF InTime
<1>1. CASE UNCHANGED <<produced, due, host, reads, exits>>
  BY <1>1 DEF Settled
<1>2. CASE \E w \in Workers : Load(w)
  BY <1>2, LoadKeepsPromise
<1>3. CASE ExecuteStart
  <2>1. PICK m : m = Msg
    OBVIOUS
  <2>2. /\ m \in Messages /\ m.type = "start" /\ m \in In(mailbox) /\ mailbox \in Seq(Messages)
        /\ UNCHANGED <<produced, due, reads, exits>>
    BY <1>0, <1>3, <2>1, Received DEF ExecuteStart, TypeOK
  <2>3. PICK s \in Sessions : s = m.session
    BY <2>2 DEF Messages
  <2>4. host[s] = "none"
    <3>1. StartedOnce(s) /\ m \in Starts(s)
      BY <1>0, <2>2, <2>3 DEF InOrder, Starts
    <3>2. Count(mailbox, Starts(s)) # 0
      BY <2>2, <3>1, CountNone
    <3> QED
      BY <3>1, <3>2 DEF StartedOnce
  <2>5. PICK outcome \in {"running", "returned", "failed"} : host' = [host EXCEPT ![s] = outcome]
    BY <1>3, <2>1, <2>3 DEF ExecuteStart
  <2>6. UNCHANGED Settled
    BY <1>0, <2>4, <2>5 DEF Settled, TypeOK
  <2> QED
    BY <2>2, <2>6
<1>4. ASSUME NEW s \in Sessions, OnOutput(s) \/ OnSpawn(s)
      PROVE  Promised!Next
  <2>1. Produce(s)
    BY <1>4 DEF OnOutput, OnSpawn
  <2>2. UNCHANGED Settled
    BY <2>1 DEF Produce, Settled
  <2>3. Promised!Produce(s)
    BY <2>1, <2>2 DEF Produce, Promised!Produce, Settled
  <2> QED
    BY <2>3 DEF Promised!Next
<1>5. ASSUME NEW s \in Sessions, Settle(s)
      PROVE  Promised!Next
  <2>1. /\ s \notin Settled /\ Settled' = Settled \cup {s} /\ UNCHANGED <<produced, reads, exits>>
        /\ due' = [due EXCEPT ![s] = produced[s]]
    BY <1>0, <1>5 DEF Settle, Settled, TypeOK
  <2>2. Promised!Finish(s)
    BY <2>1 DEF Promised!Finish, Settled
  <2> QED
    BY <2>2 DEF Promised!Next
<1>6. CASE \E w \in Workers, s \in Sessions : Start(w, s)
  BY <1>1, <1>6 DEF Start, mainVars
<1>7. CASE \E w \in Workers, op \in Ops, s \in Sessions : Request(w, op, s)
  BY <1>1, <1>7 DEF Request, mainVars
<1>8. CASE \E w \in Workers : ResetStatus(w) \/ Wait(w) \/ Deliver(w)
  BY <1>1, <1>8 DEF ResetStatus, Wait, Deliver, mainVars
<1>9. CASE ExecuteRead \/ ExecuteTryRead \/ ExecutePoll \/ ExecuteReadComplete
  BY <1>1, <1>9 DEF ExecuteRead, ExecuteTryRead, ExecutePoll, ExecuteReadComplete, Receive,
                    TakeMessage
<1>10. CASE Store
  BY <1>1, <1>10 DEF Store, StoreBody, StoreStatus, Notify
<1>11. CASE UNCHANGED vars
  BY <1>1, <1>11 DEF vars, mainVars
<1> QED
  BY <1>2, <1>3, <1>4, <1>5, <1>6, <1>7, <1>8, <1>9, <1>10, <1>11 DEF Next, Resume, Execute

\* As long as no answer has come early, each program reads of each of its
\* sessions what HostSession promises: the handler's messages, once and in
\* order, also those produced when its promise has settled, and the exit code
\* after all that were produced before, at most twice.
THEOREM KeepsPromise == Spec => SessionSpec
<1>1. Init => Promised!Init
  BY DEF Init, Promised!Init
<1>2. IInv /\ IInv' /\ [Next]_vars => [early' \/ Promised!Next]_(Promised!svars)
  <2> SUFFICES ASSUME IInv, IInv', [Next]_vars, ~early'
               PROVE  Promised!Next \/ UNCHANGED Promised!svars
    OBVIOUS
  <2>1. InTime
    BY EarlyStays DEF IInv, InTime
  <2>2. Promised!Next \/ UNCHANGED <<produced, Settled, due, reads, exits>>
    BY <2>1, StepKeepsPromise
  <2> QED
    BY <2>2 DEF Promised!svars, Settled
<1> QED
  BY <1>1, <1>2, Invariance, PTL DEF Spec, SessionSpec
=============================================================================

-------------------------- MODULE HostControlProofs --------------------------
(***************************************************************************)
(* For every number of threads, sessions, children, messages and calls: a  *)
(* standard input that was closed stays closed; the state has its types,   *)
(* because the handler of a session is called once; what a program sends   *)
(* to its handler arrives, in order, because the message that starts the   *)
(* session is in front of it; and the functions given for a child hear of  *)
(* it all that is said, because nothing is said before they are there.     *)
(***************************************************************************)
EXTENDS HostControl, TLAPS

\* What is known of messages, and of what the handlers were called with.
InputMessages ==
    {m \in [type : {"start", "write", "close", "signal"}, worker : Workers,
            session : Sessions, child : {0}, item : Nat] :
        (m.type = "close") = (m.item \in Closes)}
ChildMessages == [type : Kinds, worker : Workers, session : Sessions \cup {0},
                  child : Children, item : Nat]
AllMessages == InputMessages \cup ChildMessages
Calls == [setter : Nat, worker : Workers, item : Nat]

Types ==
    /\ posted \in Nat
    /\ sent \in [Sessions -> Seq([worker : Workers, item : Nat])]
    /\ \A s \in Sessions : Len(sent[s]) <= posted
    /\ child \in [Children -> ChildStates]
    /\ \A c \in Children : Len(child[c].said) <= posted
    /\ wire \in [Workers -> Seq(AllMessages)]
    /\ mailbox \in Seq(AllMessages)
    /\ calls \in [Sessions -> Nat]
    /\ writer \in [Sessions -> Nat]
    /\ got \in [Sessions -> Seq(Calls)]

\* A writer that was closed is not the one in the table, and none was called
\* before it was set.
NoneComesBack(s) ==
    /\ writer[s] <= calls[s]
    /\ \A i \in 1..Len(got[s]) :
         /\ got[s][i].setter <= calls[s]
         /\ got[s][i].item \in Closes => got[s][i].setter # writer[s] /\ got[s][i].setter # 0

ClosedUpTo(s) ==
    \A i, j \in 1..Len(got[s]) :
        i < j /\ got[s][i].item \in Closes => got[s][j].setter # got[s][i].setter

IInv == Types /\ \A s \in Sessions : NoneComesBack(s) /\ ClosedUpTo(s)

-----------------------------------------------------------------------------
LEMMA Constants == MaxPosted \in Nat /\ LastClose \in Nat /\ Sessions \subseteq Nat
BY HostControlAssumption DEF LastClose

\* The numbers of what is sent in place n.
LEMMA Numbering ==
  ASSUME NEW n \in Nat, n # 0, n <= MaxPosted
  PROVE  /\ n \in 1..(LastClose + MaxPosted) /\ n <= LastClose /\ n \notin Closes
         /\ Closing(n) \in 1..(LastClose + MaxPosted) /\ Closing(n) \in Closes
         /\ Closing(n) <= LastClose
         /\ Signal(n) \in 1..(LastClose + MaxPosted) /\ Signal(n) > LastClose
         /\ Signal(n) \notin Closes
BY Constants DEF Closing, Signal, Closes, LastClose

LEMMA IInvInit == Init => IInv
<1> SUFFICES ASSUME Init PROVE IInv
  OBVIOUS
<1>1. Types
  BY DEF Init, Types, ChildStates
<1>2. ASSUME NEW s \in Sessions PROVE NoneComesBack(s) /\ ClosedUpTo(s)
  BY DEF Init, NoneComesBack, ClosedUpTo
<1> QED
  BY <1>1, <1>2 DEF IInv

\* The calls of the handlers, and the tables they depend on, are as before.
LEMMA CallsUnchanged ==
  ASSUME IInv, Types', UNCHANGED <<calls, writer, got>>
  PROVE  IInv'
BY DEF IInv, NoneComesBack, ClosedUpTo

\* Nothing is said of a child.
LEMMA SaidKept ==
  ASSUME Types, posted' \in Nat, posted' >= posted,
         \A c \in Children : child'[c].said = child[c].said
  PROVE  \A c \in Children : Len(child'[c].said) <= posted'
<1> SUFFICES ASSUME NEW c \in Children PROVE Len(child'[c].said) <= posted'
  OBVIOUS
<1>1. child[c].said \in Seq([worker : Workers, kind : Kinds, item : 1..MaxPosted])
  BY DEF Types, ChildStates
<1>2. Len(child[c].said) \in Nat /\ Len(child[c].said) <= posted /\ posted \in Nat
  BY <1>1 DEF Types
<1> QED
  BY <1>2

\* One more element of a sequence.
LEMMA OneMore ==
  ASSUME NEW S, NEW q \in Seq(S), NEW e \in S
  PROVE  /\ Append(q, e) \in Seq(S) /\ Len(Append(q, e)) = Len(q) + 1 /\ Len(q) \in Nat
         /\ \A i \in 1..Len(q) : Append(q, e)[i] = q[i]
         /\ Append(q, e)[Len(q) + 1] = e
OBVIOUS

\* A message is posted.
LEMMA PostIsTyped ==
  ASSUME Types, NEW w \in Workers, NEW type, NEW s, NEW c, NEW item, Post(w, type, s, c, item),
         [type |-> type, worker |-> w, session |-> s, child |-> c, item |-> item] \in AllMessages
  PROVE  /\ wire' \in [Workers -> Seq(AllMessages)]
         /\ posted' \in Nat /\ posted' = posted + 1 /\ posted < MaxPosted
BY DEF Types, Post

LEMMA ProgramStep ==
  ASSUME IInv, NEW w \in Workers, NEW s \in Sessions, Program(w, s)
  PROVE  IInv'
<1>1. ASSUME Start(w, s) PROVE IInv'
  <2>1. [type |-> "start", worker |-> w, session |-> s, child |-> 0, item |-> 0] \in AllMessages
    <3>1. 0 \notin Closes
      BY Constants DEF Closes, LastClose
    <3> QED
      BY <3>1 DEF AllMessages, InputMessages
  <2>2. wire' \in [Workers -> Seq(AllMessages)] /\ posted' \in Nat /\ posted' = posted + 1
    BY <1>1, <2>1, PostIsTyped DEF IInv, Start
  <2>3. \A u \in Sessions : Len(sent'[u]) <= posted'
    <3>1. \A u \in Sessions : Len(sent[u]) \in Nat /\ Len(sent[u]) <= posted
      BY DEF IInv, Types
    <3>2. sent' = sent /\ posted \in Nat
      BY <1>1 DEF Start, IInv, Types
    <3> QED
      BY <2>2, <3>1, <3>2
  <2>4. \A c \in Children : Len(child'[c].said) <= posted'
    BY <1>1, <2>2, SaidKept DEF IInv, Types, Start
  <2> QED
    BY <1>1, <2>2, <2>3, <2>4, CallsUnchanged DEF IInv, Types, Start, NotTheProgram, tables
<1>2. ASSUME NEW type \in {"write", "close", "signal"}, NEW item \in Nat, Send(w, s, type, item),
             (type = "close") = (item \in Closes)
      PROVE  IInv'
  <2>1. [type |-> type, worker |-> w, session |-> s, child |-> 0, item |-> item] \in AllMessages
    BY <1>2 DEF AllMessages, InputMessages
  <2>2. wire' \in [Workers -> Seq(AllMessages)] /\ posted' \in Nat /\ posted' = posted + 1
    BY <1>2, <2>1, PostIsTyped DEF IInv, Send
  <2>3. /\ sent' \in [Sessions -> Seq([worker : Workers, item : Nat])]
        /\ \A u \in Sessions : Len(sent'[u]) <= posted'
    <3> DEFINE q == Append(sent[s], [worker |-> w, item |-> item])
    <3>1. \A u \in Sessions : sent[u] \in Seq([worker : Workers, item : Nat])
      BY DEF IInv, Types
    <3>2. q \in Seq([worker : Workers, item : Nat]) /\ Len(q) = Len(sent[s]) + 1
      <4> DEFINE Items == [worker : Workers, item : Nat]
                 e == [worker |-> w, item |-> item]
      <4>1. sent[s] \in Seq(Items) /\ e \in Items
        BY <3>1
      <4> HIDE DEF Items, e
      <4>2. Append(sent[s], e) \in Seq(Items) /\ Len(Append(sent[s], e)) = Len(sent[s]) + 1
        BY <4>1, OneMore
      <4> QED
        BY <4>2 DEF Items, e
    <3>3. sent' = [sent EXCEPT ![s] = q]
      BY <1>2 DEF Send
    <3>4. \A u \in Sessions : Len(sent[u]) \in Nat /\ Len(sent[u]) <= posted
      BY <3>1 DEF IInv, Types
    <3>5. posted \in Nat /\ sent \in [Sessions -> Seq([worker : Workers, item : Nat])]
      BY DEF IInv, Types
    <3> HIDE DEF q
    <3>6. sent' \in [Sessions -> Seq([worker : Workers, item : Nat])]
      BY <3>2, <3>3, <3>5
    <3>7. ASSUME NEW u \in Sessions PROVE Len(sent'[u]) <= posted'
      <4>1. sent'[u] = IF u = s THEN q ELSE sent[u]
        BY <3>3, <3>5
      <4> QED
        BY <2>2, <3>2, <3>4, <3>5, <4>1
    <3> QED
      BY <3>6, <3>7
  <2>4. \A c \in Children : Len(child'[c].said) <= posted'
    BY <1>2, <2>2, SaidKept DEF IInv, Types, Send
  <2> QED
    BY <1>2, <2>2, <2>3, <2>4, CallsUnchanged DEF IInv, Types, Send, NotTheProgram, tables
<1>3. Len(sent[s]) \in Nat /\ Len(sent[s]) <= posted /\ posted \in Nat
  BY DEF IInv, Types
<1> DEFINE n == Len(sent[s]) + 1
<1>4. ASSUME posted < MaxPosted
      PROVE  /\ n \in Nat /\ n \notin Closes /\ Closing(n) \in Nat /\ Closing(n) \in Closes
             /\ Signal(n) \in Nat /\ Signal(n) \notin Closes
  <2>1. n \in Nat /\ n # 0 /\ n <= MaxPosted
    BY <1>3, <1>4, Constants
  <2>2. 1..(LastClose + MaxPosted) \subseteq Nat
    BY Constants
  <2> HIDE DEF n
  <2> QED
    BY <2>1, <2>2, Numbering
<1>5. ASSUME Write(w, s) PROVE IInv'
  <2>1. posted < MaxPosted /\ Send(w, s, "write", n)
    BY <1>5 DEF Write, Send, Post
  <2> HIDE DEF n
  <2> QED
    BY <1>2, <1>4, <2>1
<1>6. ASSUME CloseStdin(w, s) PROVE IInv'
  <2>1. posted < MaxPosted /\ Send(w, s, "close", Closing(n))
    BY <1>6 DEF CloseStdin, Send, Post
  <2> HIDE DEF n
  <2> QED
    BY <1>2, <1>4, <2>1
<1>7. ASSUME Kill(w, s) PROVE IInv'
  <2>1. posted < MaxPosted /\ Send(w, s, "signal", Signal(n))
    BY <1>7 DEF Kill, Send, Post
  <2> HIDE DEF n
  <2> QED
    BY <1>2, <1>4, <2>1
<1> QED
  BY <1>1, <1>5, <1>6, <1>7 DEF Program

\* What is said of a child is numbered.
SaidItems == [worker : Workers, kind : Kinds, item : 1..MaxPosted]
LEMMA SaidMore ==
  ASSUME Types, NEW w \in Workers, NEW c \in Children, NEW kind \in Kinds, ChildOutput(w, c, kind)
  PROVE  LET n == Len(child[c].said) + 1
             e == [worker |-> w, kind |-> kind, item |-> n]
         IN /\ child[c] \in ChildStates /\ child[c].said \in Seq(SaidItems) /\ e \in SaidItems
            /\ n \in 1..MaxPosted /\ n <= posted + 1 /\ posted \in Nat
            /\ Post(w, kind, child[c].session, c, n)
            /\ child' \in [Children -> ChildStates]
            /\ child'[c].said = Append(child[c].said, e) /\ child'[c].session = child[c].session
            /\ child'[c].whole = child[c].whole
            /\ child'[c].pc = IF kind = "exit" THEN "ended" ELSE child[c].pc
            /\ \A d \in Children : d # c => child'[d] = child[d]
<1> DEFINE n == Len(child[c].said) + 1
           e == [worker |-> w, kind |-> kind, item |-> n]
           said == Append(child[c].said, e)
           pc == IF kind = "exit" THEN "ended" ELSE child[c].pc
           new == [child[c] EXCEPT !.said = said, !.pc = pc]
<1>1. child \in [Children -> ChildStates] /\ posted \in Nat /\ Len(child[c].said) <= posted
  BY DEF Types
<1>2. child[c] \in ChildStates /\ child[c].said \in Seq(SaidItems) /\ Len(child[c].said) \in Nat
  <2>1. child[c] \in ChildStates
    BY <1>1
  <2>2. child[c].said \in Seq(SaidItems)
    BY <2>1 DEF ChildStates, SaidItems
  <2> QED
    BY <2>1, <2>2
<1>3. posted < MaxPosted /\ Post(w, kind, child[c].session, c, n)
      /\ child' = [child EXCEPT ![c] = new]
  BY DEF ChildOutput, Post
<1>4. n \in 1..MaxPosted /\ n <= posted + 1
  BY <1>1, <1>2, <1>3, Constants
<1>5. e \in SaidItems
  BY <1>4 DEF SaidItems
<1> HIDE DEF e, n
<1>6. said \in Seq(SaidItems)
  BY <1>2, <1>5, OneMore
<1> HIDE DEF said
<1>7. pc \in {"none", "requested", "running", "ended"}
  BY <1>2 DEF ChildStates
<1> HIDE DEF pc
<1>8. /\ new \in ChildStates /\ new.said = said /\ new.pc = pc /\ new.session = child[c].session
      /\ new.whole = child[c].whole
  BY <1>2, <1>6, <1>7 DEF ChildStates, SaidItems
<1> HIDE DEF new
<1>9. /\ child' \in [Children -> ChildStates] /\ child'[c] = new
      /\ \A d \in Children : d # c => child'[d] = child[d]
  BY <1>1, <1>3, <1>8
<1> QED
  BY <1>1, <1>2, <1>3, <1>4, <1>5, <1>8, <1>9 DEF e, n, said, pc

LEMMA ChildOutputStep ==
  ASSUME IInv, NEW w \in Workers, NEW c \in Children, NEW kind \in Kinds, ChildOutput(w, c, kind)
  PROVE  IInv'
<1> DEFINE n == Len(child[c].said) + 1
           e == [worker |-> w, kind |-> kind, item |-> n]
<1>1. /\ child[c] \in ChildStates /\ n \in 1..MaxPosted /\ n <= posted + 1 /\ posted \in Nat
      /\ Post(w, kind, child[c].session, c, n) /\ child[c].said \in Seq(SaidItems) /\ e \in SaidItems
      /\ child' \in [Children -> ChildStates] /\ child'[c].said = Append(child[c].said, e)
      /\ \A d \in Children : d # c => child'[d] = child[d]
  BY SaidMore DEF IInv
<1>2. wire' \in [Workers -> Seq(AllMessages)] /\ posted' \in Nat /\ posted' = posted + 1
  <2>1. [type |-> kind, worker |-> w, session |-> child[c].session, child |-> c, item |-> n]
          \in AllMessages
    BY <1>1 DEF AllMessages, ChildMessages, ChildStates
  <2> QED
    BY <1>1, <2>1, PostIsTyped DEF IInv
<1> HIDE DEF e
<1>3. \A d \in Children : Len(child'[d].said) <= posted'
  <2>1. Len(child'[c].said) = n
    BY <1>1, OneMore
  <2>2. \A d \in Children : Len(child[d].said) \in Nat /\ Len(child[d].said) <= posted
    BY DEF IInv, Types, ChildStates
  <2> QED
    BY <1>1, <1>2, <2>1, <2>2
<1>4. \A s \in Sessions : Len(sent'[s]) <= posted'
  BY <1>1, <1>2 DEF IInv, Types, ChildOutput
<1> QED
  BY <1>1, <1>2, <1>3, <1>4, CallsUnchanged DEF IInv, Types, ChildOutput, NotTheProgram, tables

\* The request of a handler that the program reads may start a child.
LEMMA ChildStarts ==
  ASSUME Types, NEW s \in Sessions, ReadRequest(s)
  PROVE  /\ child' \in [Children -> ChildStates]
         /\ \A c \in Children : /\ child'[c].said = child[c].said /\ child'[c].session = child[c].session
                                /\ child'[c].whole = child[c].whole
                                /\ child'[c].pc \in {child[c].pc, "running"}
                                /\ c # Head(output[s]).child => child'[c].pc = child[c].pc
<1> DEFINE d == Head(output[s]).child
           new(x) == [x EXCEPT !.pc = "running"]
<1>1. child \in [Children -> ChildStates]
  BY DEF Types
<1>2. child' = child \/ child' = [child EXCEPT ![d] = new(child[d])]
  BY DEF ReadRequest
<1>3. \A x \in ChildStates : /\ new(x) \in ChildStates /\ new(x).said = x.said /\ new(x).pc = "running"
                             /\ new(x).session = x.session /\ new(x).whole = x.whole
  BY DEF ChildStates
<1> HIDE DEF d, new
<1>4. \A c \in Children : child'[c] = child[c] \/ (c = d /\ child'[c] = new(child[c]))
  BY <1>1, <1>2
<1>5. child' \in [Children -> ChildStates]
  BY <1>1, <1>2, <1>3
<1> QED
  BY <1>1, <1>3, <1>4, <1>5 DEF d

LEMMA ReadRequestStep == ASSUME IInv, NEW s \in Sessions, ReadRequest(s) PROVE IInv'
<1>1. child' \in [Children -> ChildStates] /\ \A c \in Children : child'[c].said = child[c].said
  BY ChildStarts DEF IInv
<1>2. \A c \in Children : Len(child'[c].said) <= posted'
  BY <1>1, SaidKept DEF IInv, Types, ReadRequest
<1> QED
  BY <1>1, <1>2, CallsUnchanged DEF IInv, Types, ReadRequest, NotTheProgram, tables

-----------------------------------------------------------------------------
\* A queue gives up its first message.
LEMMA Shrinks ==
  ASSUME NEW S, NEW q \in Seq(S), q # <<>>
  PROVE  Tail(q) \in Seq(S) /\ Head(q) \in S
OBVIOUS

LEMMA DeliverStep == ASSUME IInv, NEW w \in Workers, Deliver(w) PROVE IInv'
<1>1. wire[w] \in Seq(AllMessages) /\ wire[w] # <<>> /\ mailbox \in Seq(AllMessages)
  BY DEF IInv, Types, Deliver
<1>2. Tail(wire[w]) \in Seq(AllMessages) /\ Head(wire[w]) \in AllMessages
  BY <1>1, Shrinks
<1>3. Append(mailbox, Head(wire[w])) \in Seq(AllMessages)
  BY <1>1, <1>2
<1>4. Types'
  BY <1>2, <1>3 DEF IInv, Types, Deliver, worker, tables
<1> QED
  BY <1>4, CallsUnchanged DEF Deliver, tables

\* What is received, and what stays as it is.
LEMMA Received ==
  ASSUME IInv, NEW type, Receive(type)
  PROVE  /\ Msg \in AllMessages /\ Msg.type = type /\ mailbox' \in Seq(AllMessages)
         /\ UNCHANGED <<posted, sent, child, wire, calls>>
<1>1. mailbox \in Seq(AllMessages) /\ mailbox # <<>>
  BY DEF IInv, Types, Receive
<1>2. Tail(mailbox) \in Seq(AllMessages) /\ Head(mailbox) \in AllMessages
  BY <1>1, Shrinks
<1> QED
  BY <1>2 DEF Receive, Msg, worker

LEMMA InputReceived ==
  ASSUME IInv, NEW type \in {"start", "write", "close", "signal"}, Receive(type)
  PROVE  /\ Msg.session \in Sessions /\ Msg.worker \in Workers /\ Msg.item \in Nat
         /\ (type = "close") = (Msg.item \in Closes)
<1>1. Msg \in AllMessages /\ Msg.type = type /\ Msg.type \notin Kinds
  BY Received DEF Kinds
<1> QED
  BY <1>1 DEF AllMessages, InputMessages, ChildMessages

\* A function of session s is called, for writer n or (0) with a signal.
LEMMA CallStep ==
  ASSUME IInv, NEW s \in Sessions, NEW n \in {0, writer[s]}, Got(s, n, Msg.item),
         Msg.worker \in Workers, Msg.item \in Nat, n = 0 => Msg.item \notin Closes,
         NEW type, Receive(type),
         Msg.item \in Closes => writer' = [writer EXCEPT ![s] = 0],
         Msg.item \notin Closes => writer' = writer
  PROVE  IInv'
<1> DEFINE e == [setter |-> n, worker |-> Msg.worker, item |-> Msg.item]
<1>1. got[s] \in Seq(Calls) /\ writer[s] \in Nat /\ calls[s] \in Nat /\ e \in Calls
  <2>1. got[s] \in Seq(Calls) /\ writer[s] \in Nat /\ calls[s] \in Nat
    BY DEF IInv, Types
  <2>2. n \in Nat
    BY <2>1
  <2> QED
    BY <2>1, <2>2 DEF Calls
<1>2. /\ Append(got[s], e) \in Seq(Calls) /\ Len(Append(got[s], e)) = Len(got[s]) + 1
      /\ Len(got[s]) \in Nat
      /\ \A i \in 1..Len(got[s]) : Append(got[s], e)[i] = got[s][i]
      /\ Append(got[s], e)[Len(got[s]) + 1] = e
  BY <1>1, OneMore
<1>3. got' = [got EXCEPT ![s] = Append(got[s], e)]
  BY DEF Got
<1>4. got'[s] = Append(got[s], e)
  BY <1>3 DEF IInv, Types
<1>5. Types'
  <2>1. got' \in [Sessions -> Seq(Calls)]
    BY <1>2, <1>3 DEF IInv, Types
  <2>2. writer' \in [Sessions -> Nat]
    <3>1. writer \in [Sessions -> Nat]
      BY DEF IInv, Types
    <3>2. writer' = writer \/ writer' = [writer EXCEPT ![s] = 0]
      OBVIOUS
    <3> QED
      BY <3>1, <3>2
  <2> QED
    BY <2>1, <2>2, Received DEF IInv, Types
<1>6. writer'[s] = IF Msg.item \in Closes THEN 0 ELSE writer[s]
  BY DEF IInv, Types
<1>7. NoneComesBack(s)'
  <2>1. NoneComesBack(s) /\ calls'[s] = calls[s]
    BY Received DEF IInv
  <2>2. ASSUME NEW i \in 1..Len(got'[s])
        PROVE  /\ got'[s][i].setter <= calls[s]
               /\ got'[s][i].item \in Closes =>
                    got'[s][i].setter # writer'[s] /\ got'[s][i].setter # 0
    <3>1. CASE i \in 1..Len(got[s])
      BY <1>2, <1>4, <1>6, <2>1, <3>1 DEF NoneComesBack
    <3>2. CASE i = Len(got[s]) + 1
      BY <1>1, <1>2, <1>4, <1>6, <2>1, <3>2 DEF NoneComesBack
    <3> QED
      BY <1>2, <1>4, <2>2, <3>1, <3>2
  <2> QED
    BY <1>1, <1>6, <2>1, <2>2 DEF NoneComesBack
<1>8. ClosedUpTo(s)'
  <2> SUFFICES ASSUME NEW i \in 1..Len(got'[s]), NEW j \in 1..Len(got'[s]), i < j,
                      got'[s][i].item \in Closes
               PROVE  got'[s][j].setter # got'[s][i].setter
    BY DEF ClosedUpTo
  <2>1. i \in 1..Len(got[s]) /\ got'[s][i] = got[s][i]
    BY <1>2, <1>4
  <2>2. CASE j \in 1..Len(got[s])
    BY <1>2, <1>4, <2>1, <2>2 DEF IInv, ClosedUpTo
  <2>3. CASE j = Len(got[s]) + 1
    <3>1. got'[s][j].setter \in {0, writer[s]}
      BY <1>2, <1>4, <2>3
    <3> QED
      BY <2>1, <3>1 DEF IInv, NoneComesBack
  <2> QED
    BY <1>2, <1>4, <2>2, <2>3
<1>9. ASSUME NEW u \in Sessions, u # s PROVE NoneComesBack(u)' /\ ClosedUpTo(u)'
  <2>1. got'[u] = got[u] /\ writer'[u] = writer[u] /\ calls'[u] = calls[u]
    BY <1>3, <1>9, Received DEF IInv, Types
  <2> QED
    BY <2>1 DEF IInv, NoneComesBack, ClosedUpTo
<1> QED
  BY <1>5, <1>7, <1>8, <1>9 DEF IInv

-----------------------------------------------------------------------------
\* A message that calls none of the functions.
LEMMA NothingCalled ==
  ASSUME IInv, NEW type, Receive(type), UNCHANGED <<writer, got>>
  PROVE  IInv'
<1>1. Types'
  BY Received DEF IInv, Types
<1> QED
  BY <1>1, Received, CallsUnchanged

LEMMA WriteStep == ASSUME IInv, ExecuteWrite PROVE IInv'
<1>1. Receive("write")
  BY DEF ExecuteWrite
<1>2. Msg.session \in Sessions /\ Msg.worker \in Workers /\ Msg.item \in Nat /\ Msg.item \notin Closes
  BY <1>1, InputReceived
<1>3. CASE writer[Msg.session] # 0
  <2>1. Got(Msg.session, writer[Msg.session], Msg.item) /\ writer' = writer
    BY <1>3 DEF ExecuteWrite
  <2> QED
    BY <1>1, <1>2, <2>1, CallStep
<1>4. CASE writer[Msg.session] = 0
  BY <1>1, <1>4, NothingCalled DEF ExecuteWrite
<1> QED
  BY <1>3, <1>4

LEMMA CloseStep == ASSUME IInv, ExecuteClose PROVE IInv'
<1>1. Receive("close") /\ writer' = [writer EXCEPT ![Msg.session] = 0]
  BY DEF ExecuteClose
<1>2. Msg.session \in Sessions /\ Msg.worker \in Workers /\ Msg.item \in Nat /\ Msg.item \in Closes
  BY <1>1, InputReceived
<1>3. CASE writer[Msg.session] # 0
  <2>1. Got(Msg.session, writer[Msg.session], Msg.item)
    BY <1>3 DEF ExecuteClose
  <2> QED
    BY <1>1, <1>2, <1>3, <2>1, CallStep
<1>4. CASE writer[Msg.session] = 0
  <2>1. writer' = writer /\ got' = got
    BY <1>1, <1>2, <1>4 DEF ExecuteClose, IInv, Types
  <2> QED
    BY <1>1, <2>1, NothingCalled
<1> QED
  BY <1>3, <1>4

LEMMA SignalStep == ASSUME IInv, ExecuteSignal PROVE IInv'
<1>1. Receive("signal") /\ writer' = writer
  BY DEF ExecuteSignal
<1>2. Msg.session \in Sessions /\ Msg.worker \in Workers /\ Msg.item \in Nat /\ Msg.item \notin Closes
  BY <1>1, InputReceived
<1>3. CASE killer[Msg.session]
  <2>1. Got(Msg.session, 0, Msg.item)
    BY <1>3 DEF ExecuteSignal
  <2> QED
    BY <1>1, <1>2, <2>1, CallStep
<1>4. CASE ~killer[Msg.session]
  BY <1>1, <1>4, NothingCalled DEF ExecuteSignal
<1> QED
  BY <1>3, <1>4

LEMMA ExecuteStep == ASSUME IInv, Execute PROVE IInv'
<1>1. ExecuteStart => IInv'
  BY NothingCalled DEF ExecuteStart
<1>2. ExecuteChildOutput => IInv'
  BY NothingCalled DEF ExecuteChildOutput
<1> QED
  BY <1>1, <1>2, WriteStep, CloseStep, SignalStep DEF Execute

-----------------------------------------------------------------------------
\* A callback of session s is called: what it registers is newer than all
\* there was.
LEMMA JsStep ==
  ASSUME IInv, NEW s \in Sessions, NEW name, Js(s, name),
         child' \in [Children -> ChildStates], \A c \in Children : child'[c].said = child[c].said,
         writer' = writer \/ writer' = [writer EXCEPT ![s] = calls'[s]]
  PROVE  IInv'
<1>1. /\ calls \in [Sessions -> Nat] /\ writer \in [Sessions -> Nat]
      /\ got \in [Sessions -> Seq(Calls)]
  BY DEF IInv, Types
<1>2. /\ calls' = [calls EXCEPT ![s] = calls[s] + 1] /\ got' = got
      /\ UNCHANGED <<posted, sent, wire, mailbox>>
  BY DEF Js
<1>3. calls' \in [Sessions -> Nat] /\ calls'[s] = calls[s] + 1
  BY <1>1, <1>2
<1>4. writer' \in [Sessions -> Nat] /\ writer'[s] \in {writer[s], calls[s] + 1}
  BY <1>1, <1>3
<1>5. Types'
  <2>1. \A c \in Children : Len(child'[c].said) <= posted'
    BY <1>2, SaidKept DEF IInv, Types
  <2> QED
    BY <1>2, <1>3, <1>4, <2>1 DEF IInv, Types
<1>6. ASSUME NEW u \in Sessions PROVE NoneComesBack(u)' /\ ClosedUpTo(u)'
  <2>1. NoneComesBack(u) /\ ClosedUpTo(u)
    BY DEF IInv
  <2>2. /\ calls[u] \in Nat /\ writer[u] \in Nat /\ Len(got[u]) \in Nat
        /\ \A i \in 1..Len(got[u]) : got[u][i].setter \in Nat
    <3>1. got[u] \in Seq(Calls)
      BY <1>1
    <3>2. \A i \in 1..Len(got[u]) : got[u][i] \in Calls
      BY <3>1
    <3> QED
      BY <1>1, <3>1, <3>2 DEF Calls
  <2>3. CASE u = s
    BY <1>2, <1>3, <1>4, <2>1, <2>2, <2>3 DEF NoneComesBack, ClosedUpTo
  <2>4. CASE u # s
    <3>1. calls'[u] = calls[u] /\ writer'[u] = writer[u]
      BY <1>1, <1>2, <2>4
    <3> QED
      BY <1>2, <2>1, <3>1 DEF NoneComesBack, ClosedUpTo
  <2> QED
    BY <2>3, <2>4
<1> QED
  BY <1>5, <1>6 DEF IInv

LEMMA HandlerStep == ASSUME IInv, NEW s \in Sessions, Handler(s) PROVE IInv'
<1>0. child \in [Children -> ChildStates]
  BY DEF IInv, Types
<1>1. Settle(s) => IInv'
  BY CallsUnchanged DEF Settle, worker, tables, IInv, Types
<1>2. ASSUME SetStdinWriter(s) PROVE IInv'
  BY <1>0, <1>2, JsStep DEF SetStdinWriter, Setter
<1>3. ASSUME SetKillFunction(s) PROVE IInv'
  BY <1>0, <1>3, JsStep DEF SetKillFunction, Setter
<1>4. ASSUME SetChildOutputHandlers(s) PROVE IInv'
  BY <1>0, <1>4, JsStep DEF SetChildOutputHandlers, Setter
<1>5. ASSUME NEW c \in Children, NEW whole \in BOOLEAN, RequestSpawn(s, c, whole) PROVE IInv'
  <2> DEFINE asked == [child[c] EXCEPT !.pc = "requested", !.session = s, !.whole = whole]
  <2>1. child' \in [Children -> ChildStates] /\ \A d \in Children : child'[d].said = child[d].said
    <3>1. asked \in ChildStates /\ asked.said = child[c].said
      BY <1>0 DEF ChildStates
    <3>2. child' = [child EXCEPT ![c] = asked]
      BY <1>5 DEF RequestSpawn
    <3> HIDE DEF asked
    <3> QED
      BY <1>0, <3>1, <3>2
  <2> QED
    BY <1>5, <2>1, JsStep DEF RequestSpawn, Ask
<1>6. ASSUME NEW c \in Children, SpawnControl(s, c) PROVE IInv'
  BY <1>0, <1>6, JsStep DEF SpawnControl, Ask
<1> QED
  BY <1>1, <1>2, <1>3, <1>4, <1>5, <1>6 DEF Handler

-----------------------------------------------------------------------------
LEMMA Step == IInv /\ [Next]_vars => IInv'
<1> SUFFICES ASSUME IInv, [Next]_vars PROVE IInv'
  OBVIOUS
<1>1. CASE UNCHANGED vars
  BY <1>1, CallsUnchanged DEF vars, worker, tables, IInv, Types
<1>2. ASSUME Return PROVE IInv'
  BY <1>2, CallsUnchanged DEF Return, worker, tables, IInv, Types
<1> QED
  BY <1>1, <1>2, ProgramStep, ChildOutputStep, DeliverStep, ExecuteStep, ReadRequestStep,
     HandlerStep DEF Next

\* Every writer that is registered is newer than all that were called before,
\* or is one that was not closed yet; this holds in every reachable state.
THEOREM Invariance == Spec => []IInv
BY IInvInit, Step, PTL DEF Spec

\* ClosedIsClosed of the model: a closer that was called, and the writer that
\* came with it, are never called again (ExecuteClose takes the entry out of
\* STDIN_WRITERS, and only setStdinWriter puts one there).
THEOREM InputStaysClosed == Spec => []ClosedIsClosed
<1>1. IInv => ClosedIsClosed
  <2> SUFFICES ASSUME IInv, NEW s \in Sessions, NEW i \in DOMAIN got[s],
                      NEW j \in (i + 1)..Len(got[s]), got[s][i].item \in Closes
               PROVE  got[s][j].setter # got[s][i].setter
    BY DEF ClosedIsClosed
  <2>1. got[s] \in Seq(Calls)
    BY DEF IInv, Types
  <2>2. i \in 1..Len(got[s]) /\ j \in 1..Len(got[s]) /\ i < j
    BY <2>1
  <2> QED
    BY <2>2 DEF IInv, ClosedUpTo
<1> QED
  BY <1>1, Invariance, PTL

-----------------------------------------------------------------------------
(* The types, and what they rest on.                                       *)

\* What a message about the input, or about a child, names.
IsOf(type, item) ==
    /\ type \in {"write", "close"} => item <= LastClose
    /\ type = "signal" => item > LastClose
Proper == {m \in Messages : /\ m.type \in Input => m.item # 0 /\ IsOf(m.type, m.item)
                            /\ m.type \in Kinds => m.child # 0 /\ m.item \in 1..MaxPosted}

TypesOfPrograms ==
    /\ used \in Uses
    /\ owner \in [Sessions -> Workers \cup {NoWorker}]
    /\ sent \in [Sessions -> Seq([worker : Workers, item : 1..(LastClose + MaxPosted)])]
    /\ posted \in 0..MaxPosted

TypesOfMessages == wire \in [Workers -> Seq(Proper)] /\ mailbox \in Seq(Proper)

\* A child that was asked for has a session.
Asked(c) == child[c].session \in Sessions
Requests == [type : {"spawn", "control"}, child : Children]

TypesOfChildren ==
    /\ child \in [Children -> ChildStates]
    /\ output \in [Sessions -> Seq(Requests)]
    /\ \A c \in Children : child[c].pc \in {"running", "ended"} => Asked(c)
    /\ \A s \in Sessions : \A i \in 1..Len(output[s]) : Asked(output[s][i].child)

TypesOfHandlers ==
    /\ calling \in Sessions \cup {0}
    /\ host \in [Sessions -> {"none", "running", "refused", "failed", "settled"}]
    /\ calls \in [Sessions -> 0..MaxCalls]
    /\ inCall \in [Sessions -> SUBSET Operations]
    /\ \A s \in Sessions : host[s] \in {"none", "refused"} => calls[s] = 0

TypesOfTables ==
    /\ writer \in [Sessions -> 0..MaxCalls]
    /\ killer \in [Sessions -> BOOLEAN]
    /\ children \in [Numbers -> Givers \cup {NoGiver}]

InputCalls == [setter : 0..MaxCalls, worker : Workers, item : 1..(LastClose + MaxPosted)]

TypesOfCalls ==
    /\ got \in [Sessions -> Seq(InputCalls)]
    /\ heard \in [Givers -> Seq(OutputCalls)]

\* The handler of a session is called once: one message at most starts it, and
\* none is left when it was called.
Starts(m, s) == m.type = "start" /\ m.session = s
HasStart(q, s) == \E i \in 1..Len(q) : Starts(q[i], s)
OneStart(q, s) == \A i, j \in 1..Len(q) : Starts(q[i], s) /\ Starts(q[j], s) => i = j

CalledOnce(s) ==
    /\ OneStart(mailbox, s)
    /\ \A w \in Workers :
         /\ OneStart(wire[w], s)
         /\ HasStart(wire[w], s) => owner[s] = w /\ ~HasStart(mailbox, s) /\ host[s] = "none"
    /\ HasStart(mailbox, s) => owner[s] # NoWorker /\ host[s] = "none"
    /\ owner[s] = NoWorker => host[s] = "none"
    /\ calling = s => host[s] = "running"

TInv ==
    /\ IInv
    /\ TypesOfPrograms /\ TypesOfMessages /\ TypesOfChildren
    /\ TypesOfHandlers /\ TypesOfTables /\ TypesOfCalls
    /\ \A s \in Sessions : CalledOnce(s)

-----------------------------------------------------------------------------
LEMMA Bounds ==
    /\ MaxPosted \in Nat /\ MaxCalls \in Nat /\ LastClose \in Nat /\ LastClose = MaxPosted + MaxPosted
    /\ Sessions \subseteq Nat \ {0} /\ Children \subseteq Nat \ {0} /\ NoWorker \notin Workers
<1>1. MaxPosted \in {MaxPosted, MaxCalls} /\ MaxCalls \in {MaxPosted, MaxCalls}
  OBVIOUS
<1>2. MaxPosted \in Nat /\ MaxCalls \in Nat
  BY <1>1, HostControlAssumption
<1> QED
  BY <1>2, HostControlAssumption DEF LastClose

LEMMA TInit == Init => TInv
<1> SUFFICES ASSUME Init PROVE TInv
  OBVIOUS
<1>1. TypesOfPrograms /\ TypesOfMessages
  BY Bounds DEF Init, TypesOfPrograms, TypesOfMessages
<1>2. TypesOfChildren
  BY DEF Init, TypesOfChildren, ChildStates
<1>3. TypesOfHandlers /\ TypesOfTables /\ TypesOfCalls
  BY Bounds DEF Init, TypesOfHandlers, TypesOfTables, TypesOfCalls
<1>4. ASSUME NEW s \in Sessions PROVE CalledOnce(s)
  <2>1. /\ mailbox = <<>> /\ \A w \in Workers : wire[w] = <<>>
        /\ host[s] = "none" /\ calling = 0 /\ s # 0
    BY Bounds DEF Init
  <2> QED
    BY <2>1 DEF CalledOnce, OneStart, HasStart
<1> QED
  BY <1>1, <1>2, <1>3, <1>4, IInvInit DEF TInv

\* A message that starts nothing is added.
LEMMA AddsOther ==
  ASSUME NEW q \in Seq(Proper), NEW m \in Proper, NEW s, ~Starts(m, s)
  PROVE  /\ HasStart(Append(q, m), s) = HasStart(q, s)
         /\ OneStart(q, s) => OneStart(Append(q, m), s)
<1>1. /\ Len(Append(q, m)) = Len(q) + 1 /\ Len(q) \in Nat
      /\ \A i \in 1..Len(q) : Append(q, m)[i] = q[i]
      /\ Append(q, m)[Len(q) + 1] = m
  BY OneMore
<1> DEFINE r == Append(q, m)
<1> HIDE DEF r
<1>2. Len(r) = Len(q) + 1 /\ \A i \in 1..Len(q) : r[i] = q[i]
  BY <1>1 DEF r
<1>3. \A i \in 1..Len(r) : Starts(r[i], s) => i \in 1..Len(q)
  BY <1>1 DEF r
<1>4. HasStart(r, s) = HasStart(q, s)
  <2>1. HasStart(r, s) => HasStart(q, s)
    BY <1>2, <1>3 DEF HasStart
  <2>2. HasStart(q, s) => HasStart(r, s)
    BY <1>1, <1>2 DEF HasStart
  <2> QED
    BY <2>1, <2>2 DEF HasStart
<1>5. OneStart(q, s) => OneStart(r, s)
  BY <1>2, <1>3 DEF OneStart
<1> QED
  BY <1>4, <1>5 DEF r

\* The message that starts a session is added where there was none.
LEMMA AddsStart ==
  ASSUME NEW q \in Seq(Proper), NEW m \in Proper, NEW s, ~HasStart(q, s)
  PROVE  OneStart(Append(q, m), s)
<1>1. /\ Len(Append(q, m)) = Len(q) + 1 /\ Len(q) \in Nat
      /\ \A i \in 1..Len(q) : Append(q, m)[i] = q[i]
  BY OneMore
<1> DEFINE r == Append(q, m)
<1> HIDE DEF r
<1>2. \A i \in 1..Len(r) : Starts(r[i], s) => i = Len(q) + 1
  BY <1>1 DEF HasStart, r
<1> QED
  BY <1>2 DEF OneStart, r

\* A queue gives up its first message.
LEMMA TakesFirst ==
  ASSUME NEW q \in Seq(Proper), q # <<>>, NEW s
  PROVE  /\ HasStart(Tail(q), s) => HasStart(q, s)
         /\ Starts(Head(q), s) => HasStart(q, s)
         /\ OneStart(q, s) => OneStart(Tail(q), s)
         /\ OneStart(q, s) /\ Starts(Head(q), s) => ~HasStart(Tail(q), s)
<1>1. /\ Len(Tail(q)) = Len(q) - 1 /\ Len(q) \in Nat /\ Len(q) >= 1
      /\ \A i \in 1..(Len(q) - 1) : Tail(q)[i] = q[i + 1]
      /\ Head(q) = q[1]
  OBVIOUS
<1> DEFINE r == Tail(q)
<1> HIDE DEF r
<1>2. \A i \in 1..Len(r) : r[i] = q[i + 1] /\ i + 1 \in 1..Len(q) /\ i + 1 # 1
  BY <1>1 DEF r
<1>3. 1 \in 1..Len(q)
  BY <1>1
<1>4. HasStart(r, s) => HasStart(q, s)
  BY <1>2 DEF HasStart
<1>5. Starts(Head(q), s) => HasStart(q, s)
  BY <1>1, <1>3 DEF HasStart
<1>6. OneStart(q, s) => OneStart(r, s)
  BY <1>2 DEF OneStart
<1>7. OneStart(q, s) /\ Starts(Head(q), s) => ~HasStart(r, s)
  BY <1>1, <1>2, <1>3 DEF OneStart, HasStart
<1> QED
  BY <1>4, <1>5, <1>6, <1>7 DEF r

\* The queues are as before, and no handler is called that was not.
LEMMA CalledOnceStays ==
  ASSUME TInv, UNCHANGED <<wire, mailbox, owner>>, calling' \in {0, calling},
         \A s \in Sessions : (host'[s] = "none") = (host[s] = "none"),
         \A s \in Sessions : calling' = s => host'[s] = host[s]
  PROVE  \A s \in Sessions : CalledOnce(s)'
<1> SUFFICES ASSUME NEW s \in Sessions PROVE CalledOnce(s)'
  OBVIOUS
<1>1. CalledOnce(s) /\ s # 0
  BY Bounds DEF TInv
<1> QED
  BY <1>1 DEF CalledOnce

-----------------------------------------------------------------------------
\* A message is posted.
LEMMA PostedInTypes ==
  ASSUME TInv, NEW w \in Workers, NEW type, NEW s \in Sessions, NEW c, NEW item,
         Post(w, type, s, c, item), UNCHANGED mailbox,
         [type |-> type, worker |-> w, session |-> s, child |-> c, item |-> item] \in Proper
  PROVE  TypesOfMessages' /\ posted' \in 0..MaxPosted /\ posted < MaxPosted
<1> DEFINE m == [type |-> type, worker |-> w, session |-> s, child |-> c, item |-> item]
<1>1. posted \in 0..MaxPosted /\ posted' = posted + 1 /\ posted < MaxPosted
  BY DEF TInv, TypesOfPrograms, Post
<1>2. wire' = [wire EXCEPT ![w] = Append(wire[w], m)]
  BY DEF Post
<1>3. m \in Proper
  OBVIOUS
<1> HIDE DEF m
<1>4. wire \in [Workers -> Seq(Proper)] /\ mailbox \in Seq(Proper)
  BY DEF TInv, TypesOfMessages
<1>5. Append(wire[w], m) \in Seq(Proper)
  BY <1>3, <1>4, OneMore
<1>6. wire' \in [Workers -> Seq(Proper)]
  BY <1>2, <1>4, <1>5
<1>7. posted' \in 0..MaxPosted
  BY <1>1, Bounds
<1> QED
  BY <1>1, <1>4, <1>6, <1>7 DEF TypesOfMessages

\* A message that starts nothing is posted.
LEMMA CalledOncePost ==
  ASSUME TInv, NEW w \in Workers, NEW type, NEW s \in Sessions, NEW c, NEW item,
         Post(w, type, s, c, item), type # "start",
         [type |-> type, worker |-> w, session |-> s, child |-> c, item |-> item] \in Proper,
         UNCHANGED <<mailbox, owner, calling, host>>
  PROVE  \A u \in Sessions : CalledOnce(u)'
<1> SUFFICES ASSUME NEW u \in Sessions PROVE CalledOnce(u)'
  OBVIOUS
<1> DEFINE m == [type |-> type, worker |-> w, session |-> s, child |-> c, item |-> item]
<1>1. wire' = [wire EXCEPT ![w] = Append(wire[w], m)] /\ wire \in [Workers -> Seq(Proper)]
  BY DEF Post, TInv, TypesOfMessages
<1>2. m \in Proper /\ ~Starts(m, u)
  BY DEF Starts
<1> HIDE DEF m
<1>3. wire[w] \in Seq(Proper)
  BY <1>1
<1>4. /\ HasStart(Append(wire[w], m), u) = HasStart(wire[w], u)
      /\ OneStart(wire[w], u) => OneStart(Append(wire[w], m), u)
  BY <1>2, <1>3, AddsOther
<1>5. \A v \in Workers : /\ HasStart(wire'[v], u) => HasStart(wire[v], u)
                         /\ OneStart(wire[v], u) => OneStart(wire'[v], u)
  <2> SUFFICES ASSUME NEW v \in Workers
               PROVE  /\ HasStart(wire'[v], u) => HasStart(wire[v], u)
                      /\ OneStart(wire[v], u) => OneStart(wire'[v], u)
    OBVIOUS
  <2>1. CASE v = w
    <3>1. wire'[v] = Append(wire[w], m)
      BY <1>1, <2>1
    <3> QED
      BY <1>4, <2>1, <3>1
  <2>2. CASE v # w
    <3>1. wire'[v] = wire[v]
      BY <1>1, <2>2
    <3> QED
      BY <3>1
  <2> QED
    BY <2>1, <2>2
<1>6. CalledOnce(u)
  BY DEF TInv
<1> QED
  BY <1>5, <1>6 DEF CalledOnce

\* What the programs leave alone.
LEMMA NotTheProgramTypes ==
  ASSUME TInv, NotTheProgram
  PROVE  TypesOfHandlers' /\ TypesOfTables' /\ TypesOfCalls'
<1>1. UNCHANGED <<calling, host, calls, inCall, writer, killer, children, got, heard>>
  BY DEF NotTheProgram, tables
<1>2. TypesOfHandlers'
  BY <1>1 DEF TInv, TypesOfHandlers
<1>3. TypesOfTables'
  BY <1>1 DEF TInv, TypesOfTables
<1>4. TypesOfCalls'
  BY <1>1 DEF TInv, TypesOfCalls
<1> QED
  BY <1>2, <1>3, <1>4

LEMMA ChildrenUnchanged == TInv /\ UNCHANGED <<child, output>> => TypesOfChildren'
BY DEF TInv, TypesOfChildren, Asked

LEMMA TStart == ASSUME TInv, NEW w \in Workers, NEW s \in Sessions, Start(w, s) PROVE TInv'
<1> DEFINE m == [type |-> "start", worker |-> w, session |-> s, child |-> 0, item |-> 0]
<1>1. m \in Proper
  BY Bounds DEF Proper, Messages, Input, Kinds
<1>2. Post(w, "start", s, 0, 0) /\ NotTheProgram /\ UNCHANGED <<sent, child, output>>
  BY DEF Start
<1>3. UNCHANGED <<used, mailbox, calling, host>>
  BY <1>2 DEF NotTheProgram
<1>4. TypesOfMessages' /\ posted' \in 0..MaxPosted
  BY <1>1, <1>2, <1>3, PostedInTypes
<1>5. owner \in [Sessions -> Workers \cup {NoWorker}] /\ owner[s] = NoWorker
      /\ owner' = [owner EXCEPT ![s] = w]
  BY DEF Start, TInv, TypesOfPrograms
<1>6. TypesOfPrograms'
  BY <1>2, <1>3, <1>4, <1>5 DEF TInv, TypesOfPrograms
<1>7. ASSUME NEW u \in Sessions PROVE CalledOnce(u)'
  <2>1. wire' = [wire EXCEPT ![w] = Append(wire[w], m)] /\ wire \in [Workers -> Seq(Proper)]
    BY <1>2 DEF Post, TInv, TypesOfMessages
  <2>2. (~Starts(m, u)) = (u # s) /\ CalledOnce(u) /\ CalledOnce(s)
    BY DEF Starts, TInv
  <2> HIDE DEF m
  <2>3. wire[w] \in Seq(Proper)
    BY <2>1
  <2>4. \A v \in Workers : wire'[v] = IF v = w THEN Append(wire[w], m) ELSE wire[v]
    BY <2>1
  <2>5. CASE u = s
    <3>1. owner[s] = NoWorker /\ NoWorker \notin Workers
      BY <1>5, Bounds
    <3>2. host[s] = "none" /\ ~HasStart(mailbox, s) /\ \A v \in Workers : ~HasStart(wire[v], s)
      BY <2>2, <3>1 DEF CalledOnce
    <3>3. OneStart(Append(wire[w], m), s)
      BY <1>1, <2>3, <3>2, AddsStart
    <3>4. \A v \in Workers : OneStart(wire'[v], s) /\ (HasStart(wire'[v], s) => v = w)
      <4>1. \A v \in Workers : OneStart(wire[v], s)
        BY <2>2 DEF CalledOnce
      <4> QED
        BY <2>4, <3>2, <3>3, <4>1
    <3>5. owner'[s] = w
      BY <1>5
    <3> QED
      BY <1>3, <2>2, <2>5, <3>1, <3>2, <3>4, <3>5 DEF CalledOnce
  <2>6. CASE u # s
    <3>1. HasStart(Append(wire[w], m), u) = HasStart(wire[w], u)
      BY <1>1, <2>2, <2>3, <2>6, AddsOther
    <3>2. OneStart(wire[w], u) => OneStart(Append(wire[w], m), u)
      BY <1>1, <2>2, <2>3, <2>6, AddsOther
    <3>3. owner'[u] = owner[u]
      BY <1>5, <2>6
    <3>4. \A v \in Workers : /\ HasStart(wire'[v], u) => HasStart(wire[v], u)
                             /\ OneStart(wire[v], u) => OneStart(wire'[v], u)
      BY <2>4, <3>1, <3>2
    <3> QED
      BY <1>3, <2>2, <3>3, <3>4 DEF CalledOnce
  <2> QED
    BY <2>5, <2>6
<1>8. IInv'
  BY ProgramStep DEF TInv, Program
<1> QED
  BY <1>2, <1>4, <1>6, <1>7, <1>8, NotTheProgramTypes, ChildrenUnchanged DEF TInv

LEMMA TSend ==
  ASSUME TInv, IInv', NEW w \in Workers, NEW s \in Sessions, NEW type \in Input,
         NEW item \in 1..(LastClose + MaxPosted), Send(w, s, type, item), IsOf(type, item)
  PROVE  TInv'
<1>1. [type |-> type, worker |-> w, session |-> s, child |-> 0, item |-> item] \in Proper
  BY Bounds DEF Proper, Messages, Input, Kinds
<1>2. Post(w, type, s, 0, item) /\ NotTheProgram /\ UNCHANGED <<owner, child, output>>
  BY DEF Send
<1>3. UNCHANGED <<used, mailbox, calling, host>>
  BY <1>2 DEF NotTheProgram
<1>4. TypesOfMessages' /\ posted' \in 0..MaxPosted
  BY <1>1, <1>2, <1>3, PostedInTypes
<1>5. sent' \in [Sessions -> Seq([worker : Workers, item : 1..(LastClose + MaxPosted)])]
  <2> DEFINE Items == [worker : Workers, item : 1..(LastClose + MaxPosted)]
             e == [worker |-> w, item |-> item]
  <2>1. sent \in [Sessions -> Seq(Items)] /\ e \in Items
    BY DEF TInv, TypesOfPrograms
  <2>2. sent' = [sent EXCEPT ![s] = Append(sent[s], e)]
    BY DEF Send
  <2> HIDE DEF Items, e
  <2>3. Append(sent[s], e) \in Seq(Items)
    BY <2>1, OneMore
  <2>4. sent' \in [Sessions -> Seq(Items)]
    BY <2>1, <2>2, <2>3
  <2> QED
    BY <2>4 DEF Items
<1>6. TypesOfPrograms'
  BY <1>2, <1>3, <1>4, <1>5 DEF TInv, TypesOfPrograms
<1>7. \A u \in Sessions : CalledOnce(u)'
  BY <1>1, <1>2, <1>3, CalledOncePost DEF Input
<1> QED
  BY <1>2, <1>4, <1>6, <1>7, NotTheProgramTypes, ChildrenUnchanged DEF TInv

LEMMA ItemNumbers ==
  ASSUME TInv, NEW s \in Sessions, posted < MaxPosted, NEW n, n = Len(sent[s]) + 1
  PROVE  /\ n \in 1..(LastClose + MaxPosted) /\ IsOf("write", n)
         /\ Closing(n) \in 1..(LastClose + MaxPosted) /\ IsOf("close", Closing(n))
         /\ Signal(n) \in 1..(LastClose + MaxPosted) /\ IsOf("signal", Signal(n))
<1>1. Len(sent[s]) \in Nat /\ Len(sent[s]) <= posted /\ posted \in Nat
  BY DEF TInv, IInv, Types
<1>2. n \in Nat /\ n # 0 /\ n <= MaxPosted
  BY <1>1, Bounds
<1> QED
  BY <1>2, Numbering DEF IsOf

LEMMA TProgram == ASSUME TInv, NEW w \in Workers, NEW s \in Sessions, Program(w, s) PROVE TInv'
<1>1. IInv'
  BY ProgramStep DEF TInv
<1>2. CASE Start(w, s)
  BY <1>2, TStart
<1> DEFINE n == Len(sent[s]) + 1
<1>3. CASE Write(w, s)
  <2>1. posted < MaxPosted /\ Send(w, s, "write", n) /\ "write" \in Input
    BY <1>3 DEF Write, Send, Post, Input
  <2>2. n \in 1..(LastClose + MaxPosted) /\ IsOf("write", n)
    BY <2>1, ItemNumbers
  <2> HIDE DEF n
  <2> QED
    BY <1>1, <2>1, <2>2, TSend
<1>4. CASE CloseStdin(w, s)
  <2>1. posted < MaxPosted /\ Send(w, s, "close", Closing(n)) /\ "close" \in Input
    BY <1>4 DEF CloseStdin, Send, Post, Input
  <2>2. Closing(n) \in 1..(LastClose + MaxPosted) /\ IsOf("close", Closing(n))
    BY <2>1, ItemNumbers
  <2> HIDE DEF n
  <2> QED
    BY <1>1, <2>1, <2>2, TSend
<1>5. CASE Kill(w, s)
  <2>1. posted < MaxPosted /\ Send(w, s, "signal", Signal(n)) /\ "signal" \in Input
    BY <1>5 DEF Kill, Send, Post, Input
  <2>2. Signal(n) \in 1..(LastClose + MaxPosted) /\ IsOf("signal", Signal(n))
    BY <2>1, ItemNumbers
  <2> HIDE DEF n
  <2> QED
    BY <1>1, <2>1, <2>2, TSend
<1> QED
  BY <1>2, <1>3, <1>4, <1>5 DEF Program

LEMMA TChildOutput ==
  ASSUME TInv, NEW w \in Workers, NEW c \in Children, NEW kind \in Kinds, ChildOutput(w, c, kind)
  PROVE  TInv'
<1> DEFINE s == child[c].session
           n == Len(child[c].said) + 1
<1>1. child[c] \in ChildStates /\ child[c].pc = "running" /\ s \in Sessions /\ n \in 1..MaxPosted
  BY SaidMore DEF TInv, IInv, TypesOfChildren, Asked, ChildOutput
<1>2. [type |-> kind, worker |-> w, session |-> s, child |-> c, item |-> n] \in Proper
  <2>1. n \in 0..(LastClose + MaxPosted)
    BY <1>1, Bounds
  <2> HIDE DEF s, n
  <2> QED
    BY <1>1, <2>1, Bounds DEF Proper, Messages, Input, Kinds
<1>3. Post(w, kind, s, c, n) /\ NotTheProgram /\ UNCHANGED <<owner, sent, output>>
  BY DEF ChildOutput
<1>4. UNCHANGED <<used, mailbox, calling, host>>
  BY <1>3 DEF NotTheProgram
<1>5. /\ child' \in [Children -> ChildStates] /\ child'[c].session = child[c].session
      /\ \A d \in Children : d # c => child'[d] = child[d]
  BY SaidMore DEF TInv, IInv
<1> HIDE DEF s, n
<1>6. TypesOfMessages' /\ posted' \in 0..MaxPosted
  BY <1>1, <1>2, <1>3, <1>4, PostedInTypes
<1>7. TypesOfPrograms'
  BY <1>3, <1>4, <1>6 DEF TInv, TypesOfPrograms
<1>8. TypesOfChildren'
  <2>1. child' \in [Children -> ChildStates]
    BY <1>5
  <2>2. child \in [Children -> ChildStates] /\ output \in [Sessions -> Seq(Requests)]
    BY DEF TInv, TypesOfChildren
  <2>3. \A d \in Children : /\ child'[d].session = child[d].session
                            /\ d # c => child'[d].pc = child[d].pc
    BY <1>5
  <2>4. \A d \in Children : child'[d].pc \in {"running", "ended"} => Asked(d)'
    <3>1. Asked(c)
      BY <1>1 DEF Asked, s
    <3> QED
      BY <2>3, <3>1 DEF TInv, TypesOfChildren, Asked
  <2>5. ASSUME NEW u \in Sessions, NEW i \in 1..Len(output[u]) PROVE Asked(output[u][i].child)'
    <3>1. output[u][i].child \in Children /\ Asked(output[u][i].child)
      <4>1. output[u] \in Seq(Requests)
        BY <2>2
      <4>2. output[u][i] \in Requests
        BY <4>1
      <4> QED
        BY <4>2 DEF Requests, TInv, TypesOfChildren
    <3> QED
      BY <1>3, <2>3, <3>1 DEF Asked
  <2> QED
    BY <1>3, <2>1, <2>2, <2>4, <2>5 DEF TypesOfChildren
<1>9. \A u \in Sessions : CalledOnce(u)'
  <2>1. kind # "start"
    BY DEF Kinds
  <2> QED
    BY <1>1, <1>2, <1>3, <1>4, <2>1, CalledOncePost
<1>10. IInv'
  BY ChildOutputStep DEF TInv
<1> QED
  BY <1>3, <1>6, <1>7, <1>8, <1>9, <1>10, NotTheProgramTypes DEF TInv

LEMMA TReadRequest == ASSUME TInv, NEW s \in Sessions, ReadRequest(s) PROVE TInv'
<1> DEFINE c == Head(output[s]).child
<1>1. child \in [Children -> ChildStates] /\ output \in [Sessions -> Seq(Requests)]
  BY DEF TInv, TypesOfChildren
<1>2. /\ UNCHANGED <<owner, posted, sent, wire>> /\ NotTheProgram
      /\ output' = [output EXCEPT ![s] = Tail(output[s])] /\ output[s] # <<>>
      /\ child' = child \/ child' = [child EXCEPT ![c] = [child[c] EXCEPT !.pc = "running"]]
  BY DEF ReadRequest
<1>3. UNCHANGED <<used, mailbox, calling, host>>
  BY <1>2 DEF NotTheProgram
<1>4. c \in Children /\ Asked(c)
  <2>1. output[s] \in Seq(Requests) /\ output[s] # <<>>
    BY <1>1, <1>2
  <2>2. Head(output[s]) = output[s][1] /\ 1 \in 1..Len(output[s]) /\ Head(output[s]) \in Requests
    BY <2>1
  <2> QED
    BY <2>2 DEF Requests, TInv, TypesOfChildren
<1> HIDE DEF c
<1>5. TypesOfMessages' /\ TypesOfPrograms'
  BY <1>2, <1>3 DEF TInv, TypesOfMessages, TypesOfPrograms
<1>6. IInv'
  BY ReadRequestStep DEF TInv
<1>7. TypesOfChildren'
  <2>1. child' \in [Children -> ChildStates]
    BY <1>6 DEF IInv, Types
  <2>2. \A d \in Children : /\ child'[d].session = child[d].session
                            /\ d # c => child'[d].pc = child[d].pc
    BY ChildStarts DEF TInv, IInv, c
  <2>3. \A d \in Children : child'[d].pc \in {"running", "ended"} => Asked(d)'
    BY <1>4, <2>2 DEF TInv, TypesOfChildren, Asked
  <2>4. ASSUME NEW u \in Sessions
        PROVE  /\ output'[u] \in Seq(Requests)
               /\ \A i \in 1..Len(output'[u]) : \E j \in 1..Len(output[u]) :
                      output'[u][i] = output[u][j]
    <3>1. output[u] \in Seq(Requests)
      BY <1>1
    <3>2. CASE u = s
      <4>1. output'[u] = Tail(output[u]) /\ output[u] # <<>>
        BY <1>1, <1>2, <3>2
      <4>2. Tail(output[u]) \in Seq(Requests) /\ Len(Tail(output[u])) = Len(output[u]) - 1
            /\ Len(output[u]) \in Nat
            /\ \A i \in 1..Len(Tail(output[u])) : Tail(output[u])[i] = output[u][i + 1]
        BY <3>1, <4>1
      <4>3. \A i \in 1..Len(Tail(output[u])) : i + 1 \in 1..Len(output[u])
        BY <4>2
      <4> QED
        BY <4>1, <4>2, <4>3
    <3>3. CASE u # s
      <4>1. output'[u] = output[u]
        BY <1>1, <1>2, <3>3
      <4> QED
        BY <3>1, <4>1
    <3> QED
      BY <3>2, <3>3
  <2>5. ASSUME NEW u \in Sessions, NEW i \in 1..Len(output'[u])
        PROVE  Asked(output[u][i].child)'
    <3>1. PICK j \in 1..Len(output[u]) : output'[u][i] = output[u][j]
      BY <2>4
    <3>2. output[u][j].child \in Children /\ Asked(output[u][j].child)
      <4>1. output[u] \in Seq(Requests)
        BY <1>1
      <4>2. output[u][j] \in Requests
        BY <4>1
      <4> QED
        BY <4>2 DEF Requests, TInv, TypesOfChildren
    <3> QED
      BY <2>2, <3>1, <3>2 DEF Asked
  <2>6. output' \in [Sessions -> Seq(Requests)]
    BY <1>1, <1>2, <2>4
  <2> QED
    BY <2>1, <2>3, <2>5, <2>6 DEF TypesOfChildren
<1>8. \A u \in Sessions : CalledOnce(u)'
  BY <1>2, <1>3, CalledOnceStays
<1> QED
  BY <1>2, <1>5, <1>6, <1>7, <1>8, NotTheProgramTypes DEF TInv

-----------------------------------------------------------------------------
LEMMA TDeliver == ASSUME TInv, NEW w \in Workers, Deliver(w) PROVE TInv'
<1>1. /\ mailbox' = Append(mailbox, Head(wire[w])) /\ wire[w] # <<>>
      /\ wire' = [wire EXCEPT ![w] = Tail(wire[w])]
      /\ UNCHANGED <<used, worker, calling, host, tables, output, got, heard>>
  BY DEF Deliver
<1>2. wire \in [Workers -> Seq(Proper)] /\ mailbox \in Seq(Proper)
  BY DEF TInv, TypesOfMessages
<1>3. Tail(wire[w]) \in Seq(Proper) /\ Head(wire[w]) \in Proper /\ wire[w] \in Seq(Proper)
  BY <1>1, <1>2, Shrinks
<1>4. TypesOfMessages'
  <2>1. Append(mailbox, Head(wire[w])) \in Seq(Proper)
    BY <1>2, <1>3, OneMore
  <2> QED
    BY <1>1, <1>2, <1>3, <2>1 DEF TypesOfMessages
<1>5. TypesOfPrograms' /\ TypesOfHandlers'
  BY <1>1 DEF worker, tables, TInv, TypesOfPrograms, TypesOfHandlers
<1>6. TypesOfTables' /\ TypesOfCalls'
  BY <1>1 DEF tables, TInv, TypesOfTables, TypesOfCalls
<1>7. TypesOfChildren'
  BY <1>1, ChildrenUnchanged DEF worker
<1>8. ASSUME NEW u \in Sessions PROVE CalledOnce(u)'
  <2>1. CalledOnce(u) /\ UNCHANGED <<owner, host, calling>>
    BY <1>1 DEF TInv, worker
  <2>2. \A v \in Workers : wire'[v] = IF v = w THEN Tail(wire[w]) ELSE wire[v]
    BY <1>1, <1>2
  <2>3. /\ HasStart(Tail(wire[w]), u) => HasStart(wire[w], u)
        /\ Starts(Head(wire[w]), u) => HasStart(wire[w], u)
        /\ OneStart(wire[w], u) => OneStart(Tail(wire[w]), u)
        /\ OneStart(wire[w], u) /\ Starts(Head(wire[w]), u) => ~HasStart(Tail(wire[w]), u)
    BY <1>1, <1>3, TakesFirst
  <2>4. \A v \in Workers : /\ OneStart(wire'[v], u)
                           /\ HasStart(wire'[v], u) => HasStart(wire[v], u)
    BY <2>1, <2>2, <2>3 DEF CalledOnce
  <2>5. CASE Starts(Head(wire[w]), u)
    <3>1. /\ HasStart(wire[w], u) /\ owner[u] = w /\ ~HasStart(mailbox, u) /\ host[u] = "none"
          /\ ~HasStart(Tail(wire[w]), u)
      BY <2>1, <2>3, <2>5 DEF CalledOnce
    <3>2. OneStart(mailbox', u)
      BY <1>1, <1>2, <1>3, <3>1, AddsStart
    <3>3. \A v \in Workers : ~HasStart(wire'[v], u)
      <4>1. \A v \in Workers : HasStart(wire[v], u) => v = w
        BY <2>1, <3>1 DEF CalledOnce
      <4> QED
        BY <2>2, <3>1, <4>1
    <3>4. owner[u] # NoWorker
      BY <3>1, Bounds
    <3> QED
      BY <2>1, <2>4, <3>1, <3>2, <3>3, <3>4 DEF CalledOnce
  <2>6. CASE ~Starts(Head(wire[w]), u)
    <3>1. HasStart(mailbox', u) = HasStart(mailbox, u)
      BY <1>1, <1>2, <1>3, <2>6, AddsOther
    <3>2. OneStart(mailbox, u) => OneStart(mailbox', u)
      BY <1>1, <1>2, <1>3, <2>6, AddsOther
    <3> QED
      BY <2>1, <2>4, <3>1, <3>2 DEF CalledOnce
  <2> QED
    BY <2>5, <2>6
<1>9. IInv'
  BY DeliverStep DEF TInv
<1> QED
  BY <1>4, <1>5, <1>6, <1>7, <1>8, <1>9 DEF TInv

\* What is received, and what the main thread leaves alone.
LEMMA TReceived ==
  ASSUME TInv, NEW type, Receive(type)
  PROVE  /\ Msg \in Proper /\ Msg.type = type /\ mailbox # <<>> /\ mailbox' = Tail(mailbox)
         /\ TypesOfMessages' /\ TypesOfPrograms' /\ TypesOfChildren'
         /\ UNCHANGED <<owner, wire, calls, inCall, killer, children>> /\ calling = 0
<1>1. /\ mailbox \in Seq(Proper) /\ mailbox # <<>> /\ mailbox' = Tail(mailbox)
      /\ Msg.type = type /\ calling = 0
      /\ UNCHANGED <<used, worker, wire, calls, inCall, killer, children, output>>
  BY DEF TInv, TypesOfMessages, Receive
<1>2. Tail(mailbox) \in Seq(Proper) /\ Msg \in Proper
  BY <1>1, Shrinks DEF Msg
<1>3. TypesOfMessages'
  BY <1>1, <1>2 DEF TInv, TypesOfMessages
<1>4. TypesOfPrograms'
  BY <1>1 DEF worker, TInv, TypesOfPrograms
<1>5. TypesOfChildren'
  BY <1>1, ChildrenUnchanged DEF worker
<1> QED
  BY <1>1, <1>2, <1>3, <1>4, <1>5 DEF worker

\* A message that starts nothing is taken out of the mailbox.
LEMMA CalledOnceReceive ==
  ASSUME TInv, NEW type, Receive(type), UNCHANGED <<calling, host>>
  PROVE  \A u \in Sessions : CalledOnce(u)'
<1> SUFFICES ASSUME NEW u \in Sessions PROVE CalledOnce(u)'
  OBVIOUS
<1>1. mailbox \in Seq(Proper) /\ mailbox # <<>> /\ mailbox' = Tail(mailbox)
      /\ UNCHANGED <<owner, wire>>
  BY TReceived DEF TInv, TypesOfMessages
<1>2. /\ HasStart(Tail(mailbox), u) => HasStart(mailbox, u)
      /\ OneStart(mailbox, u) => OneStart(Tail(mailbox), u)
  BY <1>1, TakesFirst
<1>3. CalledOnce(u)
  BY DEF TInv
<1> QED
  BY <1>1, <1>2, <1>3 DEF CalledOnce

LEMMA TExecuteStart == ASSUME TInv, ExecuteStart PROVE TInv'
<1> DEFINE s == Msg.session
<1>1. Receive("start") /\ UNCHANGED <<writer, got, heard>>
  BY DEF ExecuteStart
<1>2. PICK h \in {"running", "refused"} :
        /\ host' = [host EXCEPT ![s] = h]
        /\ calling' = IF h = "running" THEN s ELSE calling
  <2>1. \/ host' = [host EXCEPT ![s] = "running"] /\ calling' = s
        \/ host' = [host EXCEPT ![s] = "refused"] /\ calling' = calling
    BY DEF ExecuteStart
  <2> QED
    BY <2>1
<1>3. /\ Msg \in Proper /\ Msg.type = "start" /\ mailbox # <<>> /\ mailbox' = Tail(mailbox)
      /\ TypesOfMessages' /\ TypesOfPrograms' /\ TypesOfChildren'
      /\ UNCHANGED <<owner, wire, calls, inCall, killer, children>> /\ calling = 0
  BY <1>1, TReceived
<1>4. s \in Sessions /\ Starts(Head(mailbox), s)
  BY <1>3 DEF Proper, Messages, Starts, Msg
<1>5. mailbox \in Seq(Proper)
  BY DEF TInv, TypesOfMessages
<1>6. \A u \in Sessions : /\ HasStart(Tail(mailbox), u) => HasStart(mailbox, u)
                          /\ Starts(Head(mailbox), u) => HasStart(mailbox, u)
                          /\ OneStart(mailbox, u) => OneStart(Tail(mailbox), u)
                          /\ OneStart(mailbox, u) /\ Starts(Head(mailbox), u)
                               => ~HasStart(Tail(mailbox), u)
  BY <1>3, <1>5, TakesFirst
<1> HIDE DEF s
<1>7. CalledOnce(s) /\ HasStart(mailbox, s)
  BY <1>4, <1>6 DEF TInv
<1>8. host[s] = "none" /\ owner[s] # NoWorker /\ \A v \in Workers : ~HasStart(wire[v], s)
  BY <1>7 DEF CalledOnce
<1>9. host \in [Sessions -> {"none", "running", "refused", "failed", "settled"}]
      /\ (\A u \in Sessions : host[u] \in {"none", "refused"} => calls[u] = 0)
  BY DEF TInv, TypesOfHandlers
<1>10. \A u \in Sessions : host'[u] = IF u = s THEN h ELSE host[u]
  BY <1>2, <1>9
<1>11. TypesOfHandlers'
  <2>1. \A u \in Sessions : host'[u] \in {"none", "refused"} => calls'[u] = 0
    BY <1>3, <1>4, <1>8, <1>9, <1>10
  <2>2. host' \in [Sessions -> {"none", "running", "refused", "failed", "settled"}]
    BY <1>2, <1>9
  <2>3. calling' \in Sessions \cup {0}
    BY <1>2, <1>3, <1>4
  <2> QED
    BY <1>3, <2>1, <2>2, <2>3 DEF TInv, TypesOfHandlers
<1>12. TypesOfTables' /\ TypesOfCalls'
  BY <1>1, <1>3 DEF TInv, TypesOfTables, TypesOfCalls
<1>13. ASSUME NEW u \in Sessions PROVE CalledOnce(u)'
  <2>1. CalledOnce(u) /\ u # 0
    BY Bounds DEF TInv
  <2>2. CASE u = s
    <3>1. OneStart(Tail(mailbox), s) /\ ~HasStart(Tail(mailbox), s)
      BY <1>4, <1>6, <1>7 DEF CalledOnce
    <3>2. \A v \in Workers : OneStart(wire[v], s)
      BY <1>7 DEF CalledOnce
    <3>3. calling' = s => host'[s] = "running"
      BY <1>2, <1>3, <1>10, <2>1, <2>2
    <3> QED
      BY <1>3, <1>8, <2>2, <3>1, <3>2, <3>3 DEF CalledOnce
  <2>3. CASE u # s
    <3>1. host'[u] = host[u] /\ calling' # u
      BY <1>2, <1>3, <1>10, <2>1, <2>3
    <3> QED
      BY <1>3, <1>6, <2>1, <3>1 DEF CalledOnce
  <2> QED
    BY <2>2, <2>3
<1>14. IInv'
  BY ExecuteStep DEF TInv, Execute
<1> QED
  BY <1>3, <1>11, <1>12, <1>13, <1>14 DEF TInv

\* A message that calls a function, or none: the tables of the handlers'
\* calls are the only ones it may change.
LEMMA TCalls ==
  ASSUME TInv, IInv', NEW type, Receive(type), UNCHANGED <<calling, host>>,
         TypesOfCalls', writer' \in [Sessions -> 0..MaxCalls]
  PROVE  TInv'
<1>1. /\ TypesOfMessages' /\ TypesOfPrograms' /\ TypesOfChildren'
      /\ UNCHANGED <<calls, inCall, killer, children>>
  BY TReceived
<1>2. TypesOfHandlers'
  BY <1>1 DEF TInv, TypesOfHandlers
<1>3. TypesOfTables'
  BY <1>1 DEF TInv, TypesOfTables
<1>4. \A s \in Sessions : CalledOnce(s)'
  BY CalledOnceReceive
<1> QED
  BY <1>1, <1>2, <1>3, <1>4 DEF TInv

\* A function of session s is called for its input.
LEMMA TGot ==
  ASSUME TInv, NEW type \in Input, Receive(type), NEW s \in Sessions, NEW n \in 0..MaxCalls,
         got' = got \/ Got(s, n, Msg.item), UNCHANGED heard
  PROVE  TypesOfCalls'
<1> DEFINE e == [setter |-> n, worker |-> Msg.worker, item |-> Msg.item]
<1>1. Msg \in Proper /\ Msg.type = type
  BY TReceived
<1>2. e \in InputCalls
  <2>1. Msg.worker \in Workers /\ Msg.item \in 0..(LastClose + MaxPosted) /\ Msg.item # 0
    BY <1>1 DEF Proper, Messages
  <2>2. Msg.item \in 1..(LastClose + MaxPosted)
    BY <2>1, Bounds
  <2> QED
    BY <2>1, <2>2 DEF InputCalls
<1>3. got' = got \/ got' = [got EXCEPT ![s] = Append(got[s], e)]
  BY DEF Got
<1>4. got \in [Sessions -> Seq(InputCalls)] /\ heard \in [Givers -> Seq(OutputCalls)]
  BY DEF TInv, TypesOfCalls
<1> HIDE DEF e
<1>5. Append(got[s], e) \in Seq(InputCalls)
  BY <1>2, <1>4, OneMore
<1> QED
  BY <1>3, <1>4, <1>5 DEF TypesOfCalls

LEMMA TExecute == ASSUME TInv, Execute PROVE TInv'
<1>1. IInv'
  BY ExecuteStep DEF TInv
<1>2. /\ writer \in [Sessions -> 0..MaxCalls] /\ children \in [Numbers -> Givers \cup {NoGiver}]
      /\ 0 \in 0..MaxCalls
  BY Bounds DEF TInv, TypesOfTables
<1>3. ASSUME NEW type, Receive(type)
      PROVE  Msg.session \in Sessions /\ writer[Msg.session] \in 0..MaxCalls /\ Msg \in Proper
             /\ Msg.type = type
  <2>1. Msg \in Proper /\ Msg.type = type
    BY <1>3, TReceived
  <2>2. Msg.session \in Sessions
    BY <2>1 DEF Proper, Messages
  <2> QED
    BY <1>2, <2>1, <2>2
<1>4. CASE ExecuteStart
  BY <1>4, TExecuteStart
<1>5. CASE ExecuteWrite
  <2>1. Receive("write") /\ UNCHANGED <<writer, calling, host, heard>>
        /\ (got' = got \/ Got(Msg.session, writer[Msg.session], Msg.item))
    BY <1>5 DEF ExecuteWrite
  <2>2. TypesOfCalls'
    BY <1>3, <2>1, TGot DEF Input
  <2> QED
    BY <1>1, <1>2, <2>1, <2>2, TCalls
<1>6. CASE ExecuteClose
  <2>1. Receive("close") /\ UNCHANGED <<calling, host, heard>>
        /\ (got' = got \/ Got(Msg.session, writer[Msg.session], Msg.item))
        /\ writer' = [writer EXCEPT ![Msg.session] = 0]
    BY <1>6 DEF ExecuteClose
  <2>2. TypesOfCalls'
    BY <1>3, <2>1, TGot DEF Input
  <2>3. writer' \in [Sessions -> 0..MaxCalls]
    BY <1>2, <2>1
  <2> QED
    BY <1>1, <2>1, <2>2, <2>3, TCalls
<1>7. CASE ExecuteSignal
  <2>1. Receive("signal") /\ UNCHANGED <<writer, calling, host, heard>>
        /\ (got' = got \/ Got(Msg.session, 0, Msg.item))
    BY <1>7 DEF ExecuteSignal
  <2>2. TypesOfCalls'
    BY <1>2, <1>3, <2>1, TGot DEF Input
  <2> QED
    BY <1>1, <1>2, <2>1, <2>2, TCalls
<1>8. CASE ExecuteChildOutput
  <2>1. PICK kind \in Kinds : Receive(kind)
    BY <1>8 DEF ExecuteChildOutput
  <2>2. UNCHANGED <<writer, calling, host, got>> /\ Hear(children[Msg.child])
    BY <1>8 DEF ExecuteChildOutput
  <2> DEFINE g == children[Msg.child]
             e == [child |-> Msg.child, worker |-> Msg.worker, kind |-> Msg.type, item |-> Msg.item]
  <2>3. Msg.child \in Children /\ Msg.worker \in Workers /\ Msg.type = kind /\ Msg.item \in 1..MaxPosted
    BY <1>3, <2>1 DEF Proper, Messages
  <2>4. g \in Givers \cup {NoGiver}
    BY <1>2, <2>3 DEF Numbers
  <2>5. heard \in [Givers -> Seq(OutputCalls)] /\ got \in [Sessions -> Seq(InputCalls)]
    BY DEF TInv, TypesOfCalls
  <2>6. \/ heard' = heard
        \/ g # NoGiver /\ Msg.type # "unknown" /\ heard' = [heard EXCEPT ![g] = Append(heard[g], e)]
    BY <2>2 DEF Hear
  <2>7. Msg.type # "unknown" => e \in OutputCalls
    BY <2>3 DEF OutputCalls
  <2> HIDE DEF g, e
  <2>8. heard' \in [Givers -> Seq(OutputCalls)]
    <3>1. CASE heard' = heard
      BY <2>5, <3>1
    <3>2. CASE heard' # heard
      <4>1. g \in Givers /\ e \in OutputCalls /\ heard' = [heard EXCEPT ![g] = Append(heard[g], e)]
        BY <2>4, <2>6, <2>7, <3>2
      <4>2. Append(heard[g], e) \in Seq(OutputCalls)
        BY <2>5, <4>1, OneMore
      <4> QED
        BY <2>5, <4>1, <4>2
    <3> QED
      BY <3>1, <3>2
  <2>9. TypesOfCalls'
    BY <2>2, <2>5, <2>8 DEF TypesOfCalls
  <2> QED
    BY <1>1, <1>2, <2>1, <2>2, <2>9, TCalls
<1> QED
  BY <1>4, <1>5, <1>6, <1>7, <1>8 DEF Execute

-----------------------------------------------------------------------------
LEMMA TReturn == ASSUME TInv, Return PROVE TInv'
<1>1. PICK outcome \in {"running", "failed"} : host' = [host EXCEPT ![calling] = outcome]
  BY DEF Return
<1>2. /\ calling # 0 /\ calling' = 0
      /\ UNCHANGED <<used, owner, posted, sent, child, wire, mailbox, calls, inCall, writer, killer,
                     children, output, got, heard>>
  BY DEF Return, worker, tables
<1>3. TypesOfPrograms' /\ TypesOfMessages' /\ TypesOfChildren'
  BY <1>2, ChildrenUnchanged DEF TInv, TypesOfPrograms, TypesOfMessages
<1>4. TypesOfTables' /\ TypesOfCalls'
  BY <1>2 DEF TInv, TypesOfTables, TypesOfCalls
<1>5. /\ host \in [Sessions -> {"none", "running", "refused", "failed", "settled"}]
      /\ calling \in Sessions
  BY <1>2 DEF TInv, TypesOfHandlers
<1>6. host[calling] = "running"
  BY <1>5 DEF TInv, CalledOnce
<1>7. \A s \in Sessions : (host'[s] \in {"none", "refused"}) = (host[s] \in {"none", "refused"})
  BY <1>1, <1>5, <1>6
<1>8. \A s \in Sessions : (host'[s] = "none") = (host[s] = "none")
  BY <1>1, <1>5, <1>6
<1>9. TypesOfHandlers'
  <2>1. host' \in [Sessions -> {"none", "running", "refused", "failed", "settled"}]
    BY <1>1, <1>5
  <2>2. \A s \in Sessions : host'[s] \in {"none", "refused"} => calls'[s] = 0
    BY <1>2, <1>7 DEF TInv, TypesOfHandlers
  <2> QED
    BY <1>2, <2>1, <2>2 DEF TInv, TypesOfHandlers
<1>10. \A s \in Sessions : CalledOnce(s)'
  <2>1. \A s \in Sessions : s # 0
    BY Bounds
  <2> QED
    BY <1>2, <1>8, <2>1, CalledOnceStays
<1>11. IInv'
  BY Step DEF TInv, Next
<1> QED
  BY <1>3, <1>4, <1>9, <1>10, <1>11 DEF TInv

LEMMA TSettle == ASSUME TInv, NEW s \in Sessions, Settle(s) PROVE TInv'
<1>1. /\ host' = [host EXCEPT ![s] = "settled"] /\ host[s] = "running" /\ calling = 0
      /\ UNCHANGED <<used, owner, posted, sent, child, wire, mailbox, calling, calls, inCall, writer,
                     killer, children, output, got, heard>>
  BY DEF Settle, worker, tables
<1>2. TypesOfPrograms' /\ TypesOfMessages' /\ TypesOfChildren'
  BY <1>1, ChildrenUnchanged DEF TInv, TypesOfPrograms, TypesOfMessages
<1>3. TypesOfTables' /\ TypesOfCalls'
  BY <1>1 DEF TInv, TypesOfTables, TypesOfCalls
<1>4. TypesOfHandlers'
  BY <1>1 DEF TInv, TypesOfHandlers
<1>5. \A u \in Sessions : CalledOnce(u)'
  <2>1. \A u \in Sessions : u # 0
    BY Bounds
  <2>2. \A u \in Sessions : (host'[u] = "none") = (host[u] = "none")
    BY <1>1 DEF TInv, TypesOfHandlers
  <2> QED
    BY <1>1, <2>1, <2>2, CalledOnceStays
<1>6. IInv'
  BY HandlerStep DEF TInv, Handler
<1> QED
  BY <1>2, <1>3, <1>4, <1>5, <1>6 DEF TInv

\* A callback of session s is called: it may change the tables, the children
\* and what was asked of the program.
LEMMA TJs ==
  ASSUME TInv, IInv', NEW s \in Sessions, NEW name, Js(s, name),
         inCall' \in [Sessions -> SUBSET Operations], TypesOfTables', TypesOfChildren'
  PROVE  TInv'
<1>1. /\ host[s] \in {"running", "settled", "failed"} /\ calls[s] < MaxCalls
      /\ calls' = [calls EXCEPT ![s] = calls[s] + 1]
      /\ UNCHANGED <<used, owner, posted, sent, wire, mailbox, calling, host, got, heard>>
  BY DEF Js
<1>2. TypesOfPrograms' /\ TypesOfMessages' /\ TypesOfCalls'
  BY <1>1 DEF TInv, TypesOfPrograms, TypesOfMessages, TypesOfCalls
<1>3. TypesOfHandlers'
  <2>1. calls \in [Sessions -> 0..MaxCalls]
    BY DEF TInv, TypesOfHandlers
  <2>2. calls[s] + 1 \in 0..MaxCalls
    BY <1>1, <2>1, Bounds
  <2>3. calls' \in [Sessions -> 0..MaxCalls]
    BY <1>1, <2>1, <2>2
  <2>4. \A u \in Sessions : host[u] \in {"none", "refused"} => calls'[u] = 0
    BY <1>1, <2>1 DEF TInv, TypesOfHandlers
  <2> QED
    BY <1>1, <2>3, <2>4 DEF TInv, TypesOfHandlers
<1>4. \A u \in Sessions : CalledOnce(u)'
  BY <1>1, CalledOnceStays
<1> QED
  BY <1>2, <1>3, <1>4 DEF TInv

\* What a callback registers has the number of the call.
LEMMA CallNumber ==
  ASSUME TInv, NEW s \in Sessions, NEW name, Js(s, name)
  PROVE  calls'[s] \in 0..MaxCalls
<1>1. calls \in [Sessions -> 0..MaxCalls] /\ calls[s] < MaxCalls
      /\ calls' = [calls EXCEPT ![s] = calls[s] + 1]
  BY DEF Js, TInv, TypesOfHandlers
<1>2. calls'[s] = calls[s] + 1 /\ calls[s] \in 0..MaxCalls
  BY <1>1
<1> QED
  BY <1>1, <1>2, Bounds

LEMMA TSetter ==
  ASSUME TInv, IInv', NEW s \in Sessions, NEW name \in Operations, Setter(s, name), TypesOfTables'
  PROVE  TInv'
<1>1. inCall \in [Sessions -> SUBSET Operations]
  BY DEF TInv, TypesOfHandlers
<1>2. inCall' = inCall \/ inCall' = [inCall EXCEPT ![s] = inCall[s] \cup {name}]
  BY DEF Setter
<1>3. inCall[s] \cup {name} \in SUBSET Operations
  BY <1>1
<1>4. inCall' \in [Sessions -> SUBSET Operations]
  BY <1>1, <1>2, <1>3
<1> QED
  BY <1>4, TJs, ChildrenUnchanged DEF Setter

\* A request for the program is queued.
LEMMA TAsk ==
  ASSUME TInv, IInv', NEW s \in Sessions, NEW name, Js(s, name), NEW type \in {"spawn", "control"},
         NEW c \in Children, Ask(s, type, c),
         child' \in [Children -> ChildStates], Asked(c)',
         \A d \in Children : Asked(d) => Asked(d)',
         \A d \in Children : d # c => child'[d].pc = child[d].pc,
         children' \in [Numbers -> Givers \cup {NoGiver}]
  PROVE  TInv'
<1> DEFINE e == [type |-> type, child |-> c]
<1>1. /\ output' = [output EXCEPT ![s] = Append(output[s], e)] /\ e \in Requests
      /\ UNCHANGED <<inCall, writer, killer>>
  BY DEF Ask, Requests
<1>2. e.child = c
  OBVIOUS
<1> HIDE DEF e
<1>3. TypesOfTables' /\ inCall' \in [Sessions -> SUBSET Operations]
  BY <1>1 DEF TInv, TypesOfTables, TypesOfHandlers
<1>4. output \in [Sessions -> Seq(Requests)]
  BY DEF TInv, TypesOfChildren
<1>5. /\ Append(output[s], e) \in Seq(Requests) /\ Len(Append(output[s], e)) = Len(output[s]) + 1
      /\ Len(output[s]) \in Nat
      /\ \A i \in 1..Len(output[s]) : Append(output[s], e)[i] = output[s][i]
      /\ Append(output[s], e)[Len(output[s]) + 1] = e
  BY <1>1, <1>4, OneMore
<1>6. output' \in [Sessions -> Seq(Requests)]
  BY <1>1, <1>4, <1>5
<1>7. ASSUME NEW u \in Sessions, NEW i \in 1..Len(output'[u]) PROVE Asked(output[u][i].child)'
  <2>1. \/ output'[u][i] = e
        \/ i \in 1..Len(output[u]) /\ output'[u][i] = output[u][i]
    <3>1. CASE u = s
      <4>1. output'[u] = Append(output[s], e)
        BY <1>1, <1>4, <3>1
      <4> QED
        BY <1>5, <3>1, <4>1
    <3>2. CASE u # s
      <4>1. output'[u] = output[u]
        BY <1>1, <1>4, <3>2
      <4> QED
        BY <4>1
    <3> QED
      BY <3>1, <3>2
  <2>2. CASE output'[u][i] = e
    BY <1>2, <2>2
  <2>3. CASE i \in 1..Len(output[u]) /\ output'[u][i] = output[u][i]
    <3>1. output[u] \in Seq(Requests)
      BY <1>4
    <3>2. output[u][i] \in Requests
      BY <2>3, <3>1
    <3>3. output[u][i].child \in Children /\ Asked(output[u][i].child)
      BY <2>3, <3>2 DEF Requests, TInv, TypesOfChildren
    <3> QED
      BY <2>3, <3>3 DEF Asked
  <2> QED
    BY <2>1, <2>2, <2>3
<1>8. \A d \in Children : child'[d].pc \in {"running", "ended"} => Asked(d)'
  BY DEF TInv, TypesOfChildren
<1>9. TypesOfChildren'
  BY <1>6, <1>7, <1>8 DEF TypesOfChildren
<1> QED
  BY <1>3, <1>9, TJs

LEMMA THandler == ASSUME TInv, NEW s \in Sessions, Handler(s) PROVE TInv'
<1>0. IInv'
  BY HandlerStep DEF TInv
<1>1. /\ writer \in [Sessions -> 0..MaxCalls] /\ killer \in [Sessions -> BOOLEAN]
      /\ children \in [Numbers -> Givers \cup {NoGiver}]
      /\ child \in [Children -> ChildStates]
  BY DEF TInv, TypesOfTables, TypesOfChildren
<1>2. [session |-> s, child |-> 0] \in Givers
  BY DEF Givers
<1>3. ASSUME SetStdinWriter(s) PROVE TInv'
  <2>1. Setter(s, "setStdinWriter") /\ Js(s, "setStdinWriter")
        /\ writer' = [writer EXCEPT ![s] = calls'[s]] /\ UNCHANGED <<killer, children>>
    BY <1>3 DEF SetStdinWriter, Setter
  <2>2. writer' \in [Sessions -> 0..MaxCalls]
    BY <1>1, <2>1, CallNumber
  <2>3. TypesOfTables'
    BY <1>1, <2>1, <2>2 DEF TypesOfTables
  <2> QED
    BY <1>0, <2>1, <2>3, TSetter DEF Operations
<1>4. ASSUME SetKillFunction(s) PROVE TInv'
  <2>1. Setter(s, "setKillFunction") /\ killer' = [killer EXCEPT ![s] = TRUE]
        /\ UNCHANGED <<writer, children>>
    BY <1>4 DEF SetKillFunction
  <2>2. TypesOfTables'
    BY <1>1, <2>1 DEF TypesOfTables
  <2> QED
    BY <1>0, <2>1, <2>2, TSetter DEF Operations
<1>5. ASSUME SetChildOutputHandlers(s) PROVE TInv'
  <2>1. Setter(s, "setChildOutputHandlers") /\ UNCHANGED <<writer, killer>>
        /\ children' = [children EXCEPT ![s] = [session |-> s, child |-> 0]]
    BY <1>5 DEF SetChildOutputHandlers
  <2>2. TypesOfTables'
    BY <1>1, <1>2, <2>1 DEF TypesOfTables
  <2> QED
    BY <1>0, <2>1, <2>2, TSetter DEF Operations
<1>6. ASSUME NEW c \in Children, NEW whole \in BOOLEAN, RequestSpawn(s, c, whole) PROVE TInv'
  <2> DEFINE asked == [child[c] EXCEPT !.pc = "requested", !.session = s, !.whole = whole]
             g == [session |-> s, child |-> c]
  <2>1. Js(s, "requestSpawn") /\ Ask(s, "spawn", c) /\ child' = [child EXCEPT ![c] = asked]
        /\ (children' = children \/ children' = [children EXCEPT ![c] = g])
    BY <1>6 DEF RequestSpawn
  <2>2. child' \in [Children -> ChildStates] /\ child'[c] = asked
    <3>1. asked \in ChildStates
      BY <1>1 DEF ChildStates
    <3> QED
      BY <1>1, <2>1, <3>1
  <2>3. children' \in [Numbers -> Givers \cup {NoGiver}]
    <3>1. g \in Givers
      BY DEF Givers
    <3> QED
      BY <1>1, <2>1, <3>1
  <2>4. child'[c].session = s
    BY <1>1, <2>2 DEF ChildStates
  <2>5. \A d \in Children : d # c => child'[d] = child[d]
    BY <1>1, <2>1
  <2>6. Asked(c)' /\ \A d \in Children : Asked(d) => Asked(d)'
    BY <2>4, <2>5 DEF Asked
  <2> QED
    BY <1>0, <2>1, <2>2, <2>3, <2>5, <2>6, TAsk
<1>7. ASSUME NEW c \in Children, SpawnControl(s, c) PROVE TInv'
  <2>1. Js(s, "spawnControl") /\ Ask(s, "control", c) /\ child[c].session = s
        /\ UNCHANGED <<child, children>>
    BY <1>7 DEF SpawnControl
  <2>2. Asked(c)' /\ \A d \in Children : Asked(d) => Asked(d)'
    BY <2>1 DEF Asked
  <2> QED
    BY <1>0, <1>1, <2>1, <2>2, TAsk
<1> QED
  BY <1>3, <1>4, <1>5, <1>6, <1>7, TSettle DEF Handler

-----------------------------------------------------------------------------
LEMMA TStep == TInv /\ [Next]_vars => TInv'
<1> SUFFICES ASSUME TInv, [Next]_vars PROVE TInv'
  OBVIOUS
<1>1. CASE UNCHANGED vars
  <2>1. UNCHANGED <<used, owner, posted, sent, child, wire, mailbox, calling, host, calls, inCall,
                    writer, killer, children, output, got, heard>>
    BY <1>1 DEF vars, worker, tables
  <2>2. TypesOfPrograms' /\ TypesOfMessages' /\ TypesOfChildren'
    BY <2>1, ChildrenUnchanged DEF TInv, TypesOfPrograms, TypesOfMessages
  <2>3. TypesOfHandlers' /\ TypesOfTables' /\ TypesOfCalls'
    BY <2>1 DEF TInv, TypesOfHandlers, TypesOfTables, TypesOfCalls
  <2>4. \A s \in Sessions : CalledOnce(s)'
    BY <2>1, CalledOnceStays
  <2>5. IInv'
    BY Step DEF TInv
  <2> QED
    BY <2>2, <2>3, <2>4, <2>5 DEF TInv
<1> QED
  BY <1>1, TProgram, TChildOutput, TDeliver, TExecute, TReturn, TReadRequest, THandler DEF Next

\* A queue of proper messages is a queue of messages.
LEMMA ProperMessages == ASSUME NEW q \in Seq(Proper) PROVE q \in Seq(Messages)
<1>1. Proper \subseteq Messages
  BY DEF Proper
<1> QED
  BY <1>1

\* TypeOK of the model: the types of the state, that every message about a
\* child comes from a child, and that only a session whose handler was called
\* has registered something: the handler of a session is called once (the
\* session number of host_exec_start is new each time).
THEOREM TypeCorrect == Spec => []TypeOK
<1>1. TInv => TypeOK
  <2> SUFFICES ASSUME TInv PROVE TypeOK
    OBVIOUS
  <2>1. wire \in [Workers -> Seq(Messages)] /\ mailbox \in Seq(Messages)
    BY ProperMessages DEF TInv, TypesOfMessages
  <2>2. output \in [Sessions -> Seq([type : {"spawn", "control"}, child : Children])]
    BY DEF TInv, TypesOfChildren, Requests
  <2>3. /\ got \in [Sessions -> Seq([setter : 0..MaxCalls, worker : Workers,
                                    item : 1..(LastClose + MaxPosted)])]
        /\ heard \in [Givers -> Seq(OutputCalls)]
    BY DEF TInv, TypesOfCalls, InputCalls
  <2>4. /\ TypesOfPrograms /\ child \in [Children -> ChildStates]
        /\ TypesOfHandlers /\ TypesOfTables
    BY DEF TInv, TypesOfChildren
  <2> QED
    BY <2>1, <2>2, <2>3, <2>4 DEF TypeOK, TypesOfPrograms, TypesOfHandlers, TypesOfTables
<1> QED
  BY <1>1, TInit, TStep, PTL DEF Spec

-----------------------------------------------------------------------------
(* Where the input of a session is.                                        *)

\* Nothing is sent to a session before it is started.
NoneSent(s) == owner[s] = NoWorker => sent[s] = <<>>

\* Nothing arrives that was not sent.
SentBy(s, x, w) == \E i \in DOMAIN sent[s] : sent[s][i].item = x /\ sent[s][i].worker = w
Origin(s) ==
    /\ \A w \in Workers : \A x \in ItemsIn(wire[w], InputFor(s)) : SentBy(s, x, w)
    /\ \A x \in ItemsIn(mailbox, InputFor(s)) \cup ItemsOf(got[s]) : \E w \in Workers : SentBy(s, x, w)

\* A writer that was registered in time is there until it was closed.
Registered(s) ==
    /\ "setStdinWriter" \in inCall[s] => writer[s] # 0 \/ ItemsOf(got[s]) \cap Closes # {}
    /\ "setKillFunction" \in inCall[s] => killer[s]

\* What is not there any more had no function to go to.
Present(s, x) ==
    x \in ItemsOf(got[s]) \cup ItemsIn(mailbox, InputFor(s)) \cup ItemsIn(wire[owner[s]], InputFor(s))
NothingLost(s) ==
    \A i \in DOMAIN sent[s] :
        \/ Present(s, sent[s][i].item)
        \/ ~Sure(s, sent[s][i].item) /\ calling # s /\ host[s] # "none"

InLine(s) ==
    /\ CallsAsIn(sent[s], got[s])
    /\ QueueAsIn(sent[s], mailbox, InputFor(s)) /\ QueueAsIn(sent[s], wire[owner[s]], InputFor(s))
    /\ AllBefore(sent[s], ItemsOf(got[s]), ItemsIn(mailbox, InputFor(s)) \cup ItemsIn(wire[owner[s]], InputFor(s)))
    /\ AllBefore(sent[s], ItemsIn(mailbox, InputFor(s)), ItemsIn(wire[owner[s]], InputFor(s)))

\* The message that starts a session is before all that is about its input.
StartFirst(q, s) ==
    \E i \in DOMAIN q : Starts(q[i], s) /\ \A j \in DOMAIN q : q[j] \in InputFor(s) => i < j
Awaits(s) ==
    host[s] = "none" =>
        \/ StartFirst(wire[owner[s]], s) /\ ItemsIn(mailbox, InputFor(s)) = {}
        \/ StartFirst(mailbox, s)

Arriving(s) == OnlyOwner(s) => NothingLost(s) /\ InLine(s) /\ Awaits(s)

CInv ==
    /\ TInv
    /\ \A s \in Sessions : NoneSent(s) /\ Origin(s) /\ Registered(s) /\ Arriving(s)

-----------------------------------------------------------------------------
(* Sequences with one element more, or without their first.                *)

LEMMA BeforeAppend ==
  ASSUME NEW S, NEW q \in Seq(S), NEW e \in S
  PROVE  /\ \A x, y : Before(q, x, y) => Before(Append(q, e), x, y)
         /\ \A x \in ItemsOf(q) : Before(Append(q, e), x, e.item)
<1>1. /\ Len(Append(q, e)) = Len(q) + 1 /\ Len(q) \in Nat
      /\ \A i \in 1..Len(q) : Append(q, e)[i] = q[i]
      /\ Append(q, e)[Len(q) + 1] = e
  BY OneMore
<1>2. DOMAIN q = 1..Len(q) /\ DOMAIN Append(q, e) = 1..(Len(q) + 1)
  BY <1>1
<1> DEFINE r == Append(q, e)
<1> HIDE DEF r
<1>3. /\ \A i \in DOMAIN q : i \in DOMAIN r /\ r[i] = q[i] /\ i < Len(q) + 1
      /\ Len(q) + 1 \in DOMAIN r /\ r[Len(q) + 1] = e
  BY <1>1, <1>2 DEF r
<1>4. \A x, y : Before(q, x, y) => Before(r, x, y)
  BY <1>3 DEF Before
<1>5. \A x \in ItemsOf(q) : Before(r, x, e.item)
  BY <1>3 DEF Before, ItemsOf
<1> QED
  BY <1>4, <1>5 DEF r

LEMMA CallsAppend ==
  ASSUME NEW S, NEW q \in Seq(S), NEW e \in S
  PROVE  /\ ItemsOf(Append(q, e)) = ItemsOf(q) \cup {e.item}
         /\ \A seq : CallsAsIn(seq, q) /\ (\A x \in ItemsOf(q) : Before(seq, x, e.item))
              => CallsAsIn(seq, Append(q, e))
<1>1. /\ Len(Append(q, e)) = Len(q) + 1 /\ Len(q) \in Nat
      /\ \A i \in 1..Len(q) : Append(q, e)[i] = q[i]
      /\ Append(q, e)[Len(q) + 1] = e
  BY OneMore
<1>2. DOMAIN q = 1..Len(q) /\ DOMAIN Append(q, e) = 1..(Len(q) + 1)
  BY <1>1
<1> DEFINE r == Append(q, e)
<1> HIDE DEF r
<1>3. /\ \A i \in DOMAIN q : i \in DOMAIN r /\ r[i] = q[i]
      /\ Len(q) + 1 \in DOMAIN r /\ r[Len(q) + 1] = e
      /\ \A i \in DOMAIN r : i \in DOMAIN q \/ i = Len(q) + 1
      /\ \A i, j \in DOMAIN r : i < j => i \in DOMAIN q
  BY <1>1, <1>2 DEF r
<1>4. ItemsOf(r) = ItemsOf(q) \cup {e.item}
  BY <1>3 DEF ItemsOf
<1>5. ASSUME NEW seq, CallsAsIn(seq, q), \A x \in ItemsOf(q) : Before(seq, x, e.item)
      PROVE  CallsAsIn(seq, r)
  <2> SUFFICES ASSUME NEW i \in DOMAIN r, NEW j \in DOMAIN r, i < j
               PROVE  Before(seq, r[i].item, r[j].item)
    BY DEF CallsAsIn
  <2>1. i \in DOMAIN q /\ r[i] = q[i] /\ q[i].item \in ItemsOf(q)
    BY <1>3 DEF ItemsOf
  <2>2. CASE j \in DOMAIN q
    BY <1>3, <1>5, <2>1, <2>2 DEF CallsAsIn
  <2>3. CASE j = Len(q) + 1
    BY <1>3, <1>5, <2>1, <2>3
  <2> QED
    BY <1>3, <2>2, <2>3
<1> QED
  BY <1>4, <1>5 DEF r

LEMMA QueueAppend ==
  ASSUME NEW S, NEW q \in Seq(S), NEW m \in S, NEW M
  PROVE  /\ m \in M => ItemsIn(Append(q, m), M) = ItemsIn(q, M) \cup {m.item}
         /\ m \notin M => ItemsIn(Append(q, m), M) = ItemsIn(q, M)
         /\ \A seq : QueueAsIn(seq, q, M)
                       /\ (m \in M => \A x \in ItemsIn(q, M) : Before(seq, x, m.item))
              => QueueAsIn(seq, Append(q, m), M)
<1>1. /\ Len(Append(q, m)) = Len(q) + 1 /\ Len(q) \in Nat
      /\ \A i \in 1..Len(q) : Append(q, m)[i] = q[i]
      /\ Append(q, m)[Len(q) + 1] = m
  BY OneMore
<1>2. DOMAIN q = 1..Len(q) /\ DOMAIN Append(q, m) = 1..(Len(q) + 1)
  BY <1>1
<1> DEFINE r == Append(q, m)
           n == Len(q) + 1
<1> HIDE DEF r
<1>3. /\ \A i \in DOMAIN q : i \in DOMAIN r /\ r[i] = q[i]
      /\ n \in DOMAIN r /\ r[n] = m
      /\ \A i \in DOMAIN r : i \in DOMAIN q \/ i = n
      /\ \A i, j \in DOMAIN r : i < j => i \in DOMAIN q
  BY <1>1, <1>2 DEF r
<1> HIDE DEF n
<1>4. /\ m \in M => ItemsIn(r, M) = ItemsIn(q, M) \cup {m.item}
      /\ m \notin M => ItemsIn(r, M) = ItemsIn(q, M)
  BY <1>3 DEF ItemsIn
<1>5. ASSUME NEW seq, QueueAsIn(seq, q, M),
             m \in M => \A x \in ItemsIn(q, M) : Before(seq, x, m.item)
      PROVE  QueueAsIn(seq, r, M)
  <2> SUFFICES ASSUME NEW i \in DOMAIN r, NEW j \in DOMAIN r, i < j, r[i] \in M, r[j] \in M
               PROVE  Before(seq, r[i].item, r[j].item)
    BY DEF QueueAsIn
  <2>1. i \in DOMAIN q /\ r[i] = q[i] /\ q[i].item \in ItemsIn(q, M)
    BY <1>3 DEF ItemsIn
  <2>2. CASE j \in DOMAIN q
    BY <1>3, <1>5, <2>1, <2>2 DEF QueueAsIn
  <2>3. CASE j = n
    BY <1>3, <1>5, <2>1, <2>3
  <2> QED
    BY <1>3, <2>2, <2>3
<1> QED
  BY <1>4, <1>5 DEF r

LEMMA StartAppend ==
  ASSUME NEW q \in Seq(Proper), NEW m \in Proper, NEW s
  PROVE  /\ StartFirst(q, s) => StartFirst(Append(q, m), s)
         /\ Starts(m, s) /\ ItemsIn(q, InputFor(s)) = {} => StartFirst(Append(q, m), s)
<1>1. /\ Len(Append(q, m)) = Len(q) + 1 /\ Len(q) \in Nat
      /\ \A i \in 1..Len(q) : Append(q, m)[i] = q[i]
      /\ Append(q, m)[Len(q) + 1] = m
  BY OneMore
<1>2. DOMAIN q = 1..Len(q) /\ DOMAIN Append(q, m) = 1..(Len(q) + 1)
  BY <1>1
<1> DEFINE r == Append(q, m)
           n == Len(q) + 1
<1> HIDE DEF r
<1>3. /\ \A i \in DOMAIN q : i \in DOMAIN r /\ r[i] = q[i] /\ i < n
      /\ n \in DOMAIN r /\ r[n] = m
      /\ \A i \in DOMAIN r : i \in DOMAIN q \/ i = n
  BY <1>1, <1>2 DEF r
<1> HIDE DEF n
<1>4. ASSUME StartFirst(q, s) PROVE StartFirst(r, s)
  <2>1. PICK i \in DOMAIN q : Starts(q[i], s) /\ \A j \in DOMAIN q : q[j] \in InputFor(s) => i < j
    BY <1>4 DEF StartFirst
  <2>2. i \in DOMAIN r /\ Starts(r[i], s)
    BY <1>3, <2>1
  <2>3. \A j \in DOMAIN r : r[j] \in InputFor(s) => i < j
    BY <1>3, <2>1
  <2> QED
    BY <2>2, <2>3 DEF StartFirst
<1>5. ASSUME Starts(m, s), ItemsIn(q, InputFor(s)) = {} PROVE StartFirst(r, s)
  <2>1. m \notin InputFor(s)
    BY <1>5 DEF InputFor, Starts, Input
  <2>2. \A j \in DOMAIN r : r[j] \notin InputFor(s)
    BY <1>3, <1>5, <2>1 DEF ItemsIn
  <2> QED
    BY <1>3, <1>5, <2>2 DEF StartFirst
<1> QED
  BY <1>4, <1>5 DEF r

LEMMA QueueTail ==
  ASSUME NEW S, NEW q \in Seq(S), q # <<>>, NEW M
  PROVE  /\ Head(q) \in M => ItemsIn(q, M) = ItemsIn(Tail(q), M) \cup {Head(q).item}
         /\ Head(q) \notin M => ItemsIn(Tail(q), M) = ItemsIn(q, M)
         /\ \A seq : QueueAsIn(seq, q, M) =>
               /\ QueueAsIn(seq, Tail(q), M)
               /\ Head(q) \in M => \A y \in ItemsIn(Tail(q), M) : Before(seq, Head(q).item, y)
<1>1. /\ Len(Tail(q)) = Len(q) - 1 /\ Len(q) \in Nat /\ Len(q) >= 1
      /\ \A i \in 1..(Len(q) - 1) : Tail(q)[i] = q[i + 1]
      /\ Head(q) = q[1] /\ DOMAIN q = 1..Len(q) /\ DOMAIN Tail(q) = 1..(Len(q) - 1)
  OBVIOUS
<1> DEFINE r == Tail(q)
           h == Head(q)
<1> HIDE DEF r, h
<1>2. /\ \A i \in DOMAIN r : i + 1 \in DOMAIN q /\ r[i] = q[i + 1] /\ 1 < i + 1
      /\ \A i \in DOMAIN q : i = 1 \/ (i - 1 \in DOMAIN r /\ r[i - 1] = q[i])
      /\ 1 \in DOMAIN q /\ q[1] = h
      /\ \A i, j \in DOMAIN r : i < j <=> i + 1 < j + 1
  BY <1>1 DEF r, h
<1>3. /\ h \in M => ItemsIn(q, M) = ItemsIn(r, M) \cup {h.item}
      /\ h \notin M => ItemsIn(r, M) = ItemsIn(q, M)
  <2>1. ItemsIn(r, M) \subseteq ItemsIn(q, M)
    BY <1>2 DEF ItemsIn
  <2>2. \A x \in ItemsIn(q, M) : x \in ItemsIn(r, M) \/ (h \in M /\ x = h.item)
    BY <1>2 DEF ItemsIn
  <2>3. h \in M => h.item \in ItemsIn(q, M)
    BY <1>2 DEF ItemsIn
  <2> QED
    BY <2>1, <2>2, <2>3
<1>4. ASSUME NEW seq, QueueAsIn(seq, q, M) PROVE QueueAsIn(seq, r, M)
  BY <1>2, <1>4 DEF QueueAsIn
<1>5. ASSUME NEW seq, QueueAsIn(seq, q, M), h \in M, NEW y \in ItemsIn(r, M)
      PROVE  Before(seq, h.item, y)
  <2>1. PICK i \in DOMAIN r : r[i] \in M /\ r[i].item = y
    BY DEF ItemsIn
  <2> QED
    BY <1>2, <1>5, <2>1 DEF QueueAsIn
<1> QED
  BY <1>3, <1>4, <1>5 DEF r, h

LEMMA StartTail ==
  ASSUME NEW q \in Seq(Proper), q # <<>>, NEW s, StartFirst(q, s)
  PROVE  Head(q) \notin InputFor(s) /\ (Starts(Head(q), s) \/ StartFirst(Tail(q), s))
<1>1. /\ Len(Tail(q)) = Len(q) - 1 /\ Len(q) \in Nat /\ Len(q) >= 1
      /\ \A i \in 1..(Len(q) - 1) : Tail(q)[i] = q[i + 1]
      /\ Head(q) = q[1] /\ DOMAIN q = 1..Len(q) /\ DOMAIN Tail(q) = 1..(Len(q) - 1)
  OBVIOUS
<1> DEFINE r == Tail(q)
           h == Head(q)
<1> HIDE DEF r, h
<1>2. /\ \A i \in DOMAIN r : i + 1 \in DOMAIN q /\ r[i] = q[i + 1] /\ 1 < i + 1
      /\ \A i \in DOMAIN q : i = 1 \/ (i - 1 \in DOMAIN r /\ r[i - 1] = q[i])
      /\ 1 \in DOMAIN q /\ q[1] = h
      /\ \A i, j \in DOMAIN r : i < j <=> i + 1 < j + 1
  BY <1>1 DEF r, h
<1>3. h \notin InputFor(s) /\ (Starts(h, s) \/ StartFirst(r, s))
  <2>1. PICK i \in DOMAIN q : Starts(q[i], s) /\ \A j \in DOMAIN q : q[j] \in InputFor(s) => i < j
    BY DEF StartFirst
  <2>2. h \notin InputFor(s)
    BY <1>1, <1>2, <2>1
  <2>3. CASE i = 1
    BY <1>2, <2>1, <2>2, <2>3
  <2>4. CASE i # 1
    <3>1. i - 1 \in DOMAIN r /\ Starts(r[i - 1], s)
      BY <1>2, <2>1, <2>4
    <3>2. \A j \in DOMAIN r : r[j] \in InputFor(s) => i - 1 < j
      <4>1. \A j \in DOMAIN r : r[j] \in InputFor(s) => i < j + 1
        BY <1>2, <2>1
      <4>2. i \in Nat /\ DOMAIN r \subseteq Nat
        BY <1>1 DEF r
      <4> QED
        BY <4>1, <4>2
    <3> QED
      BY <2>2, <3>1, <3>2 DEF StartFirst
  <2> QED
    BY <2>3, <2>4
<1> QED
  BY <1>3 DEF r, h

LEMMA NoItems == ASSUME NEW q, NEW M, NEW seq, ItemsIn(q, M) = {} PROVE QueueAsIn(seq, q, M)
<1>1. \A i \in DOMAIN q : q[i] \notin M
  <2> SUFFICES ASSUME NEW i \in DOMAIN q, q[i] \in M PROVE q[i].item \in ItemsIn(q, M)
    OBVIOUS
  <2> QED
    BY DEF ItemsIn
<1> QED
  BY <1>1 DEF QueueAsIn

LEMMA NoCalls == ASSUME NEW q, NEW seq, ItemsOf(q) = {} PROVE CallsAsIn(seq, q)
<1>1. \A i \in DOMAIN q : q[i].item \in ItemsOf(q)
  BY DEF ItemsOf
<1> QED
  BY <1>1 DEF CallsAsIn

-----------------------------------------------------------------------------
(* The parts of CInv in each step.                                         *)

LEMMA CInit == Init => CInv
<1> SUFFICES ASSUME Init PROVE CInv
  OBVIOUS
<1>1. TInv
  BY TInit
<1>2. ASSUME NEW s \in Sessions PROVE NoneSent(s) /\ Origin(s) /\ Registered(s) /\ Arriving(s)
  <2>1. /\ sent[s] = <<>> /\ owner[s] = NoWorker /\ got[s] = <<>> /\ mailbox = <<>>
        /\ inCall[s] = {} /\ \A w \in Workers : wire[w] = <<>>
    BY DEF Init
  <2>2. DOMAIN <<>> = {}
    OBVIOUS
  <2>3. NoneSent(s)
    BY <2>1, <2>2 DEF NoneSent
  <2>4. Origin(s)
    BY <2>1, <2>2 DEF Origin, ItemsIn, ItemsOf
  <2>5. Registered(s) /\ Arriving(s)
    BY <2>1 DEF Registered, Arriving, OnlyOwner
  <2> QED
    BY <2>3, <2>4, <2>5
<1> QED
  BY <1>1, <1>2 DEF CInv

\* What the sequences are.
SentItems == [worker : Workers, item : 1..(LastClose + MaxPosted)]
LEMMA Sequences ==
  ASSUME CInv
  PROVE  /\ wire \in [Workers -> Seq(Proper)] /\ mailbox \in Seq(Proper)
         /\ sent \in [Sessions -> Seq(SentItems)] /\ got \in [Sessions -> Seq(InputCalls)]
         /\ owner \in [Sessions -> Workers \cup {NoWorker}]
BY DEF CInv, TInv, TypesOfMessages, TypesOfPrograms, TypesOfCalls, SentItems

\* What a worker has posted is of the session's owner, if that one sends alone.
LEMMA OwnerSends ==
  ASSUME CInv, NEW s \in Sessions, OnlyOwner(s), NEW w \in Workers, NEW x \in ItemsIn(wire[w], InputFor(s))
  PROVE  w = owner[s]
BY DEF CInv, Origin, SentBy, OnlyOwner

\* Nothing moves; setters are called.
LEMMA NothingMoves ==
  ASSUME CInv, TInv', UNCHANGED <<sent, owner, wire, mailbox, got>>,
         \A s \in Sessions : (host'[s] = "none") = (host[s] = "none"),
         \A s \in Sessions : calling' = s => calling = s,
         \A s \in Sessions : calling # s => inCall'[s] = inCall[s],
         \A s \in Sessions : Registered(s)'
  PROVE  CInv'
<1>1. ASSUME NEW s \in Sessions PROVE NoneSent(s)' /\ Origin(s)' /\ Arriving(s)'
  <2>1. NoneSent(s) /\ Origin(s) /\ Arriving(s)
    BY DEF CInv
  <2>2. NoneSent(s)'
    BY <2>1 DEF NoneSent
  <2>3. Origin(s)'
    BY <2>1 DEF Origin, SentBy
  <2>4. ASSUME OnlyOwner(s)' PROVE (NothingLost(s) /\ InLine(s) /\ Awaits(s))'
    <3>1. OnlyOwner(s)
      BY <2>4 DEF OnlyOwner
    <3>2. NothingLost(s) /\ InLine(s) /\ Awaits(s)
      BY <2>1, <3>1 DEF Arriving
    <3>3. \A x : Present(s, x)' <=> Present(s, x)
      BY DEF Present
    <3>4. ASSUME NEW i \in DOMAIN sent[s], ~Present(s, sent[s][i].item)
          PROVE  ~Sure(s, sent[s][i].item)' /\ calling' # s /\ host'[s] # "none"
      <4>1. ~Sure(s, sent[s][i].item) /\ calling # s /\ host[s] # "none"
        BY <3>2, <3>4 DEF NothingLost
      <4> QED
        BY <4>1 DEF Sure
    <3>5. NothingLost(s)'
      BY <3>3, <3>4 DEF NothingLost
    <3>6. InLine(s)'
      BY <3>2 DEF InLine
    <3>7. Awaits(s)'
      BY <3>2 DEF Awaits
    <3> QED
      BY <3>5, <3>6, <3>7
  <2> QED
    BY <2>2, <2>3, <2>4 DEF Arriving
<1> QED
  BY <1>1 DEF CInv

\* A message that is not about the input is posted.
LEMMA OtherPosted ==
  ASSUME CInv, TInv', NEW w \in Workers, NEW m \in Proper, m.type \notin Input,
         wire' = [wire EXCEPT ![w] = Append(wire[w], m)],
         UNCHANGED <<sent, mailbox, got, calling, host, inCall, writer, killer>>,
         \/ owner' = owner
         \/ /\ owner[m.session] = NoWorker /\ m.session \in Sessions /\ Starts(m, m.session)
            /\ owner' = [owner EXCEPT ![m.session] = w]
  PROVE  CInv'
<1>1. wire \in [Workers -> Seq(Proper)] /\ owner \in [Sessions -> Workers \cup {NoWorker}]
  BY Sequences
<1>2. \A v \in Workers : wire'[v] = IF v = w THEN Append(wire[w], m) ELSE wire[v]
  BY <1>1
<1>3. ASSUME NEW s \in Sessions
      PROVE  NoneSent(s)' /\ Origin(s)' /\ Registered(s)' /\ Arriving(s)'
  <2>1. NoneSent(s) /\ Origin(s) /\ Registered(s) /\ Arriving(s) /\ m \notin InputFor(s)
    BY DEF CInv, InputFor
  <2>2. \A v \in Workers : ItemsIn(wire'[v], InputFor(s)) = ItemsIn(wire[v], InputFor(s))
    <3>1. ItemsIn(Append(wire[w], m), InputFor(s)) = ItemsIn(wire[w], InputFor(s))
      BY <1>1, <2>1, QueueAppend
    <3> QED
      BY <1>2, <3>1
  <2>3. Origin(s)'
    BY <2>1, <2>2 DEF Origin, SentBy
  <2>4. Registered(s)'
    BY <2>1 DEF Registered
  <2>5. CASE owner'[s] = owner[s]
    <3>1. NoneSent(s)'
      BY <2>1, <2>5 DEF NoneSent
    <3>2. ASSUME OnlyOwner(s)' PROVE (NothingLost(s) /\ InLine(s) /\ Awaits(s))'
      <4>1. OnlyOwner(s) /\ owner[s] \in Workers
        BY <1>1, <2>5, <3>2 DEF OnlyOwner
      <4>2. NothingLost(s) /\ InLine(s) /\ Awaits(s)
        BY <2>1, <4>1 DEF Arriving
      <4>3. PICK v \in Workers : v = owner[s]
        BY <4>1
      <4>4. ItemsIn(wire'[v], InputFor(s)) = ItemsIn(wire[v], InputFor(s))
        BY <2>2
      <4>5. QueueAsIn(sent[s], wire[v], InputFor(s)) => QueueAsIn(sent[s], wire'[v], InputFor(s))
        <5>1. QueueAsIn(sent[s], wire[w], InputFor(s)) => QueueAsIn(sent[s], Append(wire[w], m), InputFor(s))
          BY <1>1, <2>1, QueueAppend
        <5> QED
          BY <1>2, <5>1
      <4>6. StartFirst(wire[v], s) => StartFirst(wire'[v], s)
        <5>1. StartFirst(wire[w], s) => StartFirst(Append(wire[w], m), s)
          BY <1>1, StartAppend
        <5> QED
          BY <1>2, <5>1
      <4>7. NothingLost(s)'
        BY <2>5, <4>2, <4>3, <4>4 DEF NothingLost, Present, Sure
      <4>8. InLine(s)'
        BY <2>5, <4>2, <4>3, <4>4, <4>5 DEF InLine
      <4>9. Awaits(s)'
        BY <2>5, <4>2, <4>3, <4>6 DEF Awaits
      <4> QED
        BY <4>7, <4>8, <4>9
    <3> QED
      BY <2>3, <2>4, <3>1, <3>2 DEF Arriving
  <2>6. CASE owner'[s] # owner[s]
    <3>1. s = m.session /\ owner[s] = NoWorker /\ owner'[s] = w /\ Starts(m, s)
      BY <1>1, <2>6
    <3>2. sent[s] = <<>> /\ DOMAIN sent[s] = {}
      BY <2>1, <3>1 DEF NoneSent
    <3>3. \A v \in Workers : ItemsIn(wire[v], InputFor(s)) = {}
      BY <2>1, <3>2 DEF Origin, SentBy
    <3>4. ItemsIn(mailbox, InputFor(s)) = {} /\ ItemsOf(got[s]) = {}
      BY <2>1, <3>2 DEF Origin, SentBy
    <3>5. NoneSent(s)'
      BY <3>2 DEF NoneSent
    <3>6. NothingLost(s)'
      BY <3>2 DEF NothingLost
    <3>7. InLine(s)'
      <4>1. AllBefore(sent[s], ItemsOf(got[s]), ItemsIn(mailbox, InputFor(s)) \cup ItemsIn(wire'[w], InputFor(s)))
            /\ AllBefore(sent[s], ItemsIn(mailbox, InputFor(s)), ItemsIn(wire'[w], InputFor(s)))
        BY <3>4 DEF AllBefore
      <4>2. CallsAsIn(sent[s], got[s]) /\ QueueAsIn(sent[s], mailbox, InputFor(s))
            /\ QueueAsIn(sent[s], wire'[w], InputFor(s))
        <5>1. ItemsIn(wire'[w], InputFor(s)) = {}
          BY <2>2, <3>3
        <5> QED
          BY <3>4, <5>1, NoItems, NoCalls
      <4> QED
        BY <3>1, <4>1, <4>2 DEF InLine
    <3>8. Awaits(s)'
      <4>1. StartFirst(Append(wire[w], m), s)
        BY <1>1, <3>1, <3>3, StartAppend
      <4> QED
        BY <1>2, <3>1, <3>4, <4>1 DEF Awaits
    <3> QED
      BY <2>3, <2>4, <3>5, <3>6, <3>7, <3>8 DEF Arriving
  <2> QED
    BY <2>5, <2>6
<1>4. TInv'
  OBVIOUS
<1> QED
  BY <1>3, <1>4 DEF CInv

\* A message about the input is sent.
LEMMA CSend ==
  ASSUME CInv, TInv', NEW w \in Workers, NEW u \in Sessions, NEW type \in Input,
         NEW item \in 1..(LastClose + MaxPosted), Send(w, u, type, item), IsOf(type, item)
  PROVE  CInv'
<1> DEFINE m == [type |-> type, worker |-> w, session |-> u, child |-> 0, item |-> item]
           e == [worker |-> w, item |-> item]
           n == Len(sent[u]) + 1
<1>1. /\ wire \in [Workers -> Seq(Proper)] /\ owner \in [Sessions -> Workers \cup {NoWorker}]
      /\ sent \in [Sessions -> Seq(SentItems)]
  BY Sequences
<1>2. /\ wire' = [wire EXCEPT ![w] = Append(wire[w], m)]
      /\ sent' = [sent EXCEPT ![u] = Append(sent[u], e)]
      /\ owner[u] # NoWorker /\ posted < MaxPosted
      /\ UNCHANGED <<owner, mailbox, got, calling, host, inCall, writer, killer>>
  BY DEF Send, Post, NotTheProgram, tables
<1>3. m \in Proper /\ e \in SentItems /\ m \in InputFor(u) /\ m.item = item /\ e.item = item
      /\ e.worker = w /\ \A s : s # u => m \notin InputFor(s)
  BY Bounds DEF Proper, Messages, Input, Kinds, SentItems, InputFor
<1> HIDE DEF m, e
<1>4. /\ \A v \in Workers : wire'[v] = IF v = w THEN Append(wire[w], m) ELSE wire[v]
      /\ \A s \in Sessions : sent'[s] = IF s = u THEN Append(sent[u], e) ELSE sent[s]
  BY <1>1, <1>2
<1>5. /\ Len(Append(sent[u], e)) = n /\ Len(sent[u]) \in Nat
      /\ \A i \in 1..Len(sent[u]) : Append(sent[u], e)[i] = sent[u][i]
      /\ Append(sent[u], e)[n] = e
      /\ DOMAIN sent[u] = 1..Len(sent[u]) /\ DOMAIN Append(sent[u], e) = 1..n
  <2>1. sent[u] \in Seq(SentItems)
    BY <1>1
  <2> QED
    BY <1>3, <2>1, OneMore
<1>6. /\ \A x, y : Before(sent[u], x, y) => Before(sent'[u], x, y)
      /\ \A x \in ItemsOf(sent[u]) : Before(sent'[u], x, item)
  <2>1. sent[u] \in Seq(SentItems) /\ sent'[u] = Append(sent[u], e)
    BY <1>1, <1>4
  <2> QED
    BY <1>3, <2>1, BeforeAppend
<1>7. ASSUME NEW s \in Sessions PROVE NoneSent(s)'
  <2>1. NoneSent(s)
    BY DEF CInv
  <2>2. CASE s # u
    <3>1. sent'[s] = sent[s] /\ owner'[s] = owner[s]
      BY <1>2, <1>4, <2>2
    <3> QED
      BY <2>1, <3>1 DEF NoneSent
  <2>3. CASE s = u
    BY <1>2, <2>3 DEF NoneSent
  <2> QED
    BY <2>2, <2>3
<1>8. ASSUME NEW s \in Sessions
      PROVE  /\ \A x, v : SentBy(s, x, v) => SentBy(s, x, v)'
             /\ s = u => SentBy(s, item, w)'
             /\ \A x, y : Before(sent[s], x, y) => Before(sent'[s], x, y)
  <2>1. CASE s = u
    <3>1. sent'[s] = Append(sent[u], e)
      BY <1>4, <2>1
    <3>2. \A x, v : SentBy(s, x, v) => SentBy(s, x, v)'
      BY <1>5, <2>1, <3>1 DEF SentBy
    <3>3. SentBy(s, item, w)'
      BY <1>3, <1>5, <3>1 DEF SentBy
    <3> QED
      BY <1>6, <2>1, <3>2, <3>3
  <2>2. CASE s # u
    <3>1. sent'[s] = sent[s]
      BY <1>4, <2>2
    <3> QED
      BY <2>2, <3>1 DEF SentBy
  <2> QED
    BY <2>1, <2>2
<1>9. ASSUME NEW s \in Sessions, NEW v \in Workers
      PROVE  ItemsIn(wire'[v], InputFor(s)) = IF s = u /\ v = w THEN ItemsIn(wire[v], InputFor(s)) \cup {item}
                                                      ELSE ItemsIn(wire[v], InputFor(s))
  <2>1. wire[w] \in Seq(Proper)
    BY <1>1
  <2>2. /\ s = u => ItemsIn(Append(wire[w], m), InputFor(s)) = ItemsIn(wire[w], InputFor(s)) \cup {item}
        /\ s # u => ItemsIn(Append(wire[w], m), InputFor(s)) = ItemsIn(wire[w], InputFor(s))
    BY <1>3, <2>1, QueueAppend
  <2> QED
    BY <1>4, <2>2
<1>10. ASSUME NEW s \in Sessions PROVE Origin(s)'
  <2>1. Origin(s)
    BY DEF CInv
  <2>2. \A v \in Workers : \A x \in ItemsIn(wire'[v], InputFor(s)) : SentBy(s, x, v)'
    BY <1>8, <1>9, <2>1 DEF Origin
  <2>3. \A x \in ItemsIn(mailbox', InputFor(s)) \cup ItemsOf(got'[s]) : \E v \in Workers : SentBy(s, x, v)'
    BY <1>2, <1>8, <2>1 DEF Origin
  <2> QED
    BY <2>2, <2>3 DEF Origin
<1>11. ASSUME NEW s \in Sessions PROVE Registered(s)'
  BY <1>2 DEF CInv, Registered
<1>12. ASSUME NEW s \in Sessions, OnlyOwner(s)' PROVE (NothingLost(s) /\ InLine(s) /\ Awaits(s))'
  <2>1. OnlyOwner(s) /\ (s = u => w = owner[s])
    <3>1. owner' = owner /\ owner[s] # NoWorker
      BY <1>2, <1>12 DEF OnlyOwner
    <3>2. CASE s # u
      BY <1>4, <1>12, <3>1, <3>2 DEF OnlyOwner
    <3>3. CASE s = u
      <4>1. \A i \in 1..n : Append(sent[u], e)[i].worker = owner[u]
        BY <1>4, <1>5, <1>12, <3>1, <3>3 DEF OnlyOwner
      <4>2. w = owner[u]
        BY <1>3, <1>5, <4>1
      <4>3. \A i \in DOMAIN sent[u] : sent[u][i].worker = owner[u]
        BY <1>5, <4>1
      <4> QED
        BY <3>1, <3>3, <4>2, <4>3 DEF OnlyOwner
    <3> QED
      BY <3>2, <3>3
  <2>2. NothingLost(s) /\ InLine(s) /\ Awaits(s)
    BY <2>1 DEF CInv, Arriving
  <2>3. PICK v \in Workers : v = owner[s]
    BY <1>1, <2>1 DEF OnlyOwner
  <2>4. /\ ItemsIn(wire[v], InputFor(s)) \subseteq ItemsIn(wire'[v], InputFor(s))
        /\ s = u => ItemsIn(wire'[v], InputFor(s)) = ItemsIn(wire[v], InputFor(s)) \cup {item}
        /\ s # u => ItemsIn(wire'[v], InputFor(s)) = ItemsIn(wire[v], InputFor(s))
    BY <1>9, <2>1, <2>3
  <2>5. NothingLost(s)'
    <3>1. \A x : Present(s, x) => Present(s, x)'
      BY <1>2, <2>3, <2>4 DEF Present
    <3>2. s = u => Present(s, item)'
      BY <1>2, <2>3, <2>4 DEF Present
    <3>3. \A i \in DOMAIN sent[s] : \/ \E y : y = sent[s][i].item /\ Present(s, y)'
                                   \/ /\ \E y : y = sent[s][i].item /\ ~Sure(s, y)'
                                      /\ calling' # s /\ host'[s] # "none"
      <4>1. \A y : Sure(s, y)' => Sure(s, y)
        BY <1>2, <1>8 DEF Sure
      <4> QED
        BY <1>2, <2>2, <3>1, <4>1 DEF NothingLost
    <3>4. \A i \in DOMAIN sent'[s] : \/ i \in DOMAIN sent[s] /\ sent'[s][i] = sent[s][i]
                                     \/ s = u /\ sent'[s][i].item = item
      <4>1. CASE s # u
        BY <1>4, <4>1
      <4>2. CASE s = u
        <5> DEFINE q == Append(sent[u], e)
        <5>1. \A i \in DOMAIN q : \/ i \in DOMAIN sent[u] /\ q[i] = sent[u][i]
                                 \/ q[i].item = item
          BY <1>3, <1>5
        <5>2. sent'[s] = q
          BY <1>4, <4>2
        <5> HIDE DEF q
        <5> QED
          BY <4>2, <5>1, <5>2
      <4> QED
        BY <4>1, <4>2
    <3> QED
      BY <3>2, <3>3, <3>4 DEF NothingLost
  <2>6. InLine(s)'
    <3>1. /\ CallsAsIn(sent[s], got[s])
          /\ QueueAsIn(sent[s], mailbox, InputFor(s)) /\ QueueAsIn(sent[s], wire[v], InputFor(s))
          /\ AllBefore(sent[s], ItemsOf(got[s]), ItemsIn(mailbox, InputFor(s)) \cup ItemsIn(wire[v], InputFor(s)))
          /\ AllBefore(sent[s], ItemsIn(mailbox, InputFor(s)), ItemsIn(wire[v], InputFor(s)))
      BY <2>2, <2>3 DEF InLine
    <3>2. /\ CallsAsIn(sent'[s], got[s])
          /\ QueueAsIn(sent'[s], mailbox, InputFor(s)) /\ QueueAsIn(sent'[s], wire[v], InputFor(s))
          /\ AllBefore(sent'[s], ItemsOf(got[s]), ItemsIn(mailbox, InputFor(s)) \cup ItemsIn(wire[v], InputFor(s)))
          /\ AllBefore(sent'[s], ItemsIn(mailbox, InputFor(s)), ItemsIn(wire[v], InputFor(s)))
      BY <1>8, <3>1 DEF CallsAsIn, QueueAsIn, AllBefore
    <3>3. s = u => \A x \in ItemsIn(mailbox, InputFor(s)) \cup ItemsOf(got[s]) \cup ItemsIn(wire[v], InputFor(s)) :
                      Before(sent'[s], x, item)
      <4>1. \A x, k : SentBy(s, x, k) => x \in ItemsOf(sent[s])
        BY DEF SentBy, ItemsOf
      <4>2. \A x \in ItemsIn(mailbox, InputFor(s)) \cup ItemsOf(got[s]) \cup ItemsIn(wire[v], InputFor(s)) :
               x \in ItemsOf(sent[s])
        BY <4>1 DEF CInv, Origin
      <4> QED
        BY <1>6, <4>2
    <3>4. QueueAsIn(sent'[s], wire'[v], InputFor(s))
      <4>1. CASE v = w
        <5>1. wire'[v] = Append(wire[v], m) /\ wire[v] \in Seq(Proper)
          BY <1>1, <1>4, <4>1
        <5>2. m \in InputFor(s) => s = u
          BY <1>3
        <5>3. m \in InputFor(s) => \A x \in ItemsIn(wire[v], InputFor(s)) : Before(sent'[s], x, m.item)
          BY <1>3, <3>3, <5>2
        <5> QED
          BY <1>3, <3>2, <5>1, <5>3, QueueAppend
      <4>2. CASE v # w
        BY <1>4, <3>2, <4>2
      <4> QED
        BY <4>1, <4>2
    <3>5. AllBefore(sent'[s], ItemsOf(got[s]), ItemsIn(mailbox, InputFor(s)) \cup ItemsIn(wire'[v], InputFor(s)))
      BY <2>4, <3>2, <3>3 DEF AllBefore
    <3>6. AllBefore(sent'[s], ItemsIn(mailbox, InputFor(s)), ItemsIn(wire'[v], InputFor(s)))
      BY <2>4, <3>2, <3>3 DEF AllBefore
    <3> QED
      BY <1>2, <2>3, <3>2, <3>4, <3>5, <3>6 DEF InLine
  <2>7. Awaits(s)'
    <3>1. StartFirst(wire[v], s) => StartFirst(wire'[v], s)
      <4>1. StartFirst(wire[w], s) => StartFirst(Append(wire[w], m), s)
        BY <1>1, <1>3, StartAppend
      <4> QED
        BY <1>4, <4>1
    <3> QED
      BY <1>2, <2>2, <2>3, <3>1 DEF Awaits
  <2> QED
    BY <2>5, <2>6, <2>7
<1> QED
  BY <1>7, <1>10, <1>11, <1>12 DEF CInv, Arriving

LEMMA CDeliver == ASSUME CInv, TInv', NEW w \in Workers, Deliver(w) PROVE CInv'
<1> DEFINE m == Head(wire[w])
<1>1. /\ wire \in [Workers -> Seq(Proper)] /\ owner \in [Sessions -> Workers \cup {NoWorker}]
      /\ mailbox \in Seq(Proper)
  BY Sequences
<1>2. /\ mailbox' = Append(mailbox, m) /\ wire[w] # <<>>
      /\ wire' = [wire EXCEPT ![w] = Tail(wire[w])]
      /\ UNCHANGED <<owner, sent, got, calling, host, inCall, writer, killer>>
  BY DEF Deliver, worker, tables
<1>3. wire[w] \in Seq(Proper) /\ m \in Proper
  BY <1>1, <1>2, Shrinks
<1>4. \A v \in Workers : wire'[v] = IF v = w THEN Tail(wire[w]) ELSE wire[v]
  BY <1>1, <1>2
<1>5. ASSUME NEW s \in Sessions
      PROVE  /\ m \in InputFor(s) => /\ ItemsIn(mailbox', InputFor(s)) = ItemsIn(mailbox, InputFor(s)) \cup {m.item}
                                 /\ ItemsIn(wire[w], InputFor(s)) = ItemsIn(wire'[w], InputFor(s)) \cup {m.item}
             /\ m \notin InputFor(s) => /\ ItemsIn(mailbox', InputFor(s)) = ItemsIn(mailbox, InputFor(s))
                                  /\ ItemsIn(wire'[w], InputFor(s)) = ItemsIn(wire[w], InputFor(s))
  <2>1. wire'[w] = Tail(wire[w])
    BY <1>4
  <2>2. /\ m \in InputFor(s) => ItemsIn(mailbox', InputFor(s)) = ItemsIn(mailbox, InputFor(s)) \cup {m.item}
        /\ m \notin InputFor(s) => ItemsIn(mailbox', InputFor(s)) = ItemsIn(mailbox, InputFor(s))
    BY <1>1, <1>2, <1>3, QueueAppend
  <2>3. /\ m \in InputFor(s) => ItemsIn(wire[w], InputFor(s)) = ItemsIn(wire'[w], InputFor(s)) \cup {m.item}
        /\ m \notin InputFor(s) => ItemsIn(wire'[w], InputFor(s)) = ItemsIn(wire[w], InputFor(s))
    BY <1>2, <1>3, <2>1, QueueTail
  <2> QED
    BY <2>2, <2>3
<1>6. ASSUME NEW s \in Sessions, NEW seq, QueueAsIn(seq, wire[w], InputFor(s))
      PROVE  /\ QueueAsIn(seq, wire'[w], InputFor(s))
             /\ m \in InputFor(s) => \A y \in ItemsIn(wire'[w], InputFor(s)) : Before(seq, m.item, y)
  <2>1. wire'[w] = Tail(wire[w])
    BY <1>4
  <2>2. /\ QueueAsIn(seq, Tail(wire[w]), InputFor(s))
        /\ Head(wire[w]) \in InputFor(s) =>
             \A y \in ItemsIn(Tail(wire[w]), InputFor(s)) : Before(seq, Head(wire[w]).item, y)
    BY <1>2, <1>3, <1>6, QueueTail
  <2> QED
    BY <2>1, <2>2
<1> HIDE DEF m
<1>7. ASSUME NEW s \in Sessions PROVE NoneSent(s)' /\ Registered(s)'
  BY <1>2 DEF CInv, NoneSent, Registered
<1>8. ASSUME NEW s \in Sessions PROVE Origin(s)'
  <2>1. Origin(s)
    BY DEF CInv
  <2>2. \A v \in Workers : ItemsIn(wire'[v], InputFor(s)) \subseteq ItemsIn(wire[v], InputFor(s))
    BY <1>4, <1>5
  <2>3. m \in InputFor(s) => SentBy(s, m.item, w)
    BY <1>5, <2>1 DEF Origin
  <2>4. \A x, v : SentBy(s, x, v)' <=> SentBy(s, x, v)
    BY <1>2 DEF SentBy
  <2>5. \A x \in ItemsIn(mailbox', InputFor(s)) \cup ItemsOf(got'[s]) : \E v \in Workers : SentBy(s, x, v)
    BY <1>2, <1>5, <2>1, <2>3 DEF Origin
  <2> QED
    BY <2>1, <2>2, <2>4, <2>5 DEF Origin
<1>9. ASSUME NEW s \in Sessions, OnlyOwner(s)' PROVE (NothingLost(s) /\ InLine(s) /\ Awaits(s))'
  <2>1. OnlyOwner(s)
    BY <1>2, <1>9 DEF OnlyOwner
  <2>2. NothingLost(s) /\ InLine(s) /\ Awaits(s)
    BY <2>1 DEF CInv, Arriving
  <2>3. PICK v \in Workers : v = owner[s]
    BY <1>1, <2>1 DEF OnlyOwner
  <2>4. m \in InputFor(s) => v = w
    <3>1. m \in InputFor(s) => m.item \in ItemsIn(wire[w], InputFor(s))
      BY <1>5
    <3> QED
      BY <2>1, <2>3, <3>1, OwnerSends
  <2>5. /\ CallsAsIn(sent[s], got[s])
        /\ QueueAsIn(sent[s], mailbox, InputFor(s)) /\ QueueAsIn(sent[s], wire[v], InputFor(s))
        /\ AllBefore(sent[s], ItemsOf(got[s]), ItemsIn(mailbox, InputFor(s)) \cup ItemsIn(wire[v], InputFor(s)))
        /\ AllBefore(sent[s], ItemsIn(mailbox, InputFor(s)), ItemsIn(wire[v], InputFor(s)))
    BY <2>2, <2>3 DEF InLine
  <2>6. /\ ItemsIn(mailbox, InputFor(s)) \subseteq ItemsIn(mailbox', InputFor(s))
        /\ ItemsIn(wire'[v], InputFor(s)) \subseteq ItemsIn(wire[v], InputFor(s))
        /\ ItemsIn(mailbox', InputFor(s)) \cup ItemsIn(wire'[v], InputFor(s))
             = ItemsIn(mailbox, InputFor(s)) \cup ItemsIn(wire[v], InputFor(s))
    BY <1>4, <1>5, <2>4
  <2>7. NothingLost(s)'
    <3>1. \A x : Present(s, x)' <=> Present(s, x)
      BY <1>2, <2>3, <2>6 DEF Present
    <3> QED
      BY <1>2, <2>2, <3>1 DEF NothingLost, Sure
  <2>8. InLine(s)'
    <3>1. QueueAsIn(sent[s], wire'[v], InputFor(s))
      BY <1>4, <1>6, <2>5
    <3>2. QueueAsIn(sent[s], mailbox', InputFor(s))
      <4>1. m \in InputFor(s) => \A x \in ItemsIn(mailbox, InputFor(s)) : Before(sent[s], x, m.item)
        BY <1>5, <2>4, <2>5 DEF AllBefore
      <4> QED
        BY <1>1, <1>2, <1>3, <2>5, <4>1, QueueAppend
    <3>3. AllBefore(sent[s], ItemsOf(got[s]), ItemsIn(mailbox', InputFor(s)) \cup ItemsIn(wire'[v], InputFor(s)))
      BY <2>5, <2>6
    <3>4. AllBefore(sent[s], ItemsIn(mailbox', InputFor(s)), ItemsIn(wire'[v], InputFor(s)))
      <4>1. m \in InputFor(s) => \A y \in ItemsIn(wire'[v], InputFor(s)) : Before(sent[s], m.item, y)
        BY <1>6, <2>4, <2>5
      <4> QED
        BY <1>5, <2>5, <2>6, <4>1 DEF AllBefore
    <3> QED
      BY <1>2, <2>3, <2>5, <3>1, <3>2, <3>3, <3>4 DEF InLine
  <2>9. Awaits(s)'
    <3>1. CASE StartFirst(wire[v], s) /\ ItemsIn(mailbox, InputFor(s)) = {}
      <4>1. CASE v # w
        <5>1. ItemsIn(mailbox', InputFor(s)) = {} /\ wire'[v] = wire[v]
          BY <1>4, <1>5, <2>4, <3>1, <4>1
        <5> QED
          BY <1>2, <2>3, <3>1, <5>1 DEF Awaits
      <4>2. CASE v = w
        <5>1. m \notin InputFor(s) /\ (Starts(m, s) \/ StartFirst(wire'[v], s))
          BY <1>2, <1>3, <1>4, <3>1, <4>2, StartTail DEF m
        <5>2. CASE Starts(m, s)
          <6>1. StartFirst(mailbox', s)
            BY <1>1, <1>2, <1>3, <3>1, <5>2, StartAppend
          <6> QED
            BY <6>1 DEF Awaits
        <5>3. CASE StartFirst(wire'[v], s)
          <6>1. ItemsIn(mailbox', InputFor(s)) = {}
            BY <1>5, <3>1, <5>1
          <6> QED
            BY <1>2, <2>3, <5>3, <6>1 DEF Awaits
        <5> QED
          BY <5>1, <5>2, <5>3
      <4> QED
        BY <4>1, <4>2
    <3>2. CASE StartFirst(mailbox, s)
      <4>1. StartFirst(mailbox', s)
        BY <1>1, <1>2, <1>3, <3>2, StartAppend
      <4> QED
        BY <4>1 DEF Awaits
    <3>3. CASE host[s] # "none"
      BY <1>2, <3>3 DEF Awaits
    <3> QED
      BY <2>2, <2>3, <3>1, <3>2, <3>3 DEF Awaits
  <2> QED
    BY <2>7, <2>8, <2>9
<1> QED
  BY <1>7, <1>8, <1>9 DEF CInv, Arriving

-----------------------------------------------------------------------------
\* A message that is not about the input is executed: the start of a session,
\* or the output of a child.
LEMMA OtherExecuted ==
  ASSUME CInv, TInv', NEW type, type \notin Input, Receive(type),
         UNCHANGED <<got, writer>>,
         \A s \in Sessions : ~Starts(Msg, s) => host'[s] = host[s] /\ calling' # s,
         \A s \in Sessions : Starts(Msg, s) => host'[s] # "none"
  PROVE  CInv'
<1>1. /\ mailbox \in Seq(Proper) /\ mailbox # <<>> /\ mailbox' = Tail(mailbox) /\ Msg = Head(mailbox)
      /\ Msg.type \notin Input /\ calling = 0
      /\ UNCHANGED <<owner, sent, wire, inCall, killer>>
  BY Sequences, TReceived DEF CInv, Msg, Receive, worker
<1>2. ASSUME NEW s \in Sessions
      PROVE  /\ ItemsIn(mailbox', InputFor(s)) = ItemsIn(mailbox, InputFor(s))
             /\ QueueAsIn(sent[s], mailbox, InputFor(s)) => QueueAsIn(sent[s], mailbox', InputFor(s))
             /\ StartFirst(mailbox, s) => Starts(Msg, s) \/ StartFirst(mailbox', s)
  <2>1. Head(mailbox) \notin InputFor(s)
    BY <1>1 DEF InputFor
  <2> QED
    BY <1>1, <2>1, QueueTail, StartTail
<1>3. ASSUME NEW s \in Sessions PROVE NoneSent(s)' /\ Registered(s)'
  BY <1>1 DEF CInv, NoneSent, Registered
<1>4. ASSUME NEW s \in Sessions PROVE Origin(s)'
  <2>1. Origin(s)
    BY DEF CInv
  <2>2. \A x, v : SentBy(s, x, v)' <=> SentBy(s, x, v)
    BY <1>1 DEF SentBy
  <2>3. ItemsIn(mailbox', InputFor(s)) = ItemsIn(mailbox, InputFor(s))
    BY <1>2
  <2> QED
    BY <1>1, <2>1, <2>2, <2>3 DEF Origin
<1>5. ASSUME NEW s \in Sessions, OnlyOwner(s)' PROVE (NothingLost(s) /\ InLine(s) /\ Awaits(s))'
  <2>1. OnlyOwner(s)
    BY <1>1, <1>5 DEF OnlyOwner
  <2>2. NothingLost(s) /\ InLine(s) /\ Awaits(s)
    BY <2>1 DEF CInv, Arriving
  <2>3. InLine(s)'
    BY <1>1, <1>2, <2>2 DEF InLine
  <2>4. Awaits(s)'
    <3>1. CASE Starts(Msg, s)
      BY <3>1 DEF Awaits
    <3>2. CASE ~Starts(Msg, s)
      BY <1>1, <1>2, <2>2, <3>2 DEF Awaits
    <3> QED
      BY <3>1, <3>2
  <2>5. NothingLost(s)'
    <3>1. \A x : Present(s, x)' <=> Present(s, x)
      BY <1>1, <1>2 DEF Present
    <3>2. CASE Starts(Msg, s)
      <4>1. host[s] = "none"
        <5>1. HasStart(mailbox, s) /\ CalledOnce(s)
          BY <1>1, <3>2, TakesFirst DEF CInv, TInv
        <5> QED
          BY <5>1 DEF CalledOnce
      <4>2. \A i \in DOMAIN sent[s] : Present(s, sent[s][i].item)
        BY <2>2, <4>1 DEF NothingLost
      <4> QED
        BY <1>1, <3>1, <4>2 DEF NothingLost
    <3>3. CASE ~Starts(Msg, s)
      <4>1. host'[s] = host[s] /\ calling' # s
        BY <3>3
      <4> QED
        BY <1>1, <2>2, <3>1, <4>1 DEF NothingLost, Sure
    <3> QED
      BY <3>2, <3>3
  <2> QED
    BY <2>3, <2>4, <2>5
<1> QED
  BY <1>3, <1>4, <1>5 DEF CInv, Arriving

\* A message about the input of session u is executed: its function is called,
\* or it had none in time.
LEMMA InputExecuted ==
  ASSUME CInv, TInv', NEW type \in Input, Receive(type), NEW u \in Sessions, u = Msg.session,
         NEW x, x = Msg.item, NEW n \in 0..MaxCalls, UNCHANGED <<calling, host>>,
         \/ Got(u, n, x)
         \/ got' = got /\ (OnlyOwner(u) => ~Sure(u, x)),
         \A s \in Sessions : Registered(s)'
  PROVE  CInv'
<1> DEFINE e == [setter |-> n, worker |-> Msg.worker, item |-> x]
<1>1. /\ mailbox \in Seq(Proper) /\ mailbox # <<>> /\ mailbox' = Tail(mailbox) /\ Msg = Head(mailbox)
      /\ Msg.type = type /\ Msg \in Proper /\ calling = 0
      /\ UNCHANGED <<owner, sent, wire, inCall>>
  BY Sequences, TReceived DEF CInv, Msg, Receive, worker
<1>2. \A s : Msg \in InputFor(s) <=> s = u
  BY <1>1 DEF InputFor, Proper
<1>3. got \in [Sessions -> Seq(InputCalls)] /\ owner \in [Sessions -> Workers \cup {NoWorker}]
  BY Sequences
<1>4. e.item = x /\ e \in InputCalls
  <2>1. Msg.worker \in Workers /\ Msg.item \in 0..(LastClose + MaxPosted) /\ Msg.item # 0
    BY <1>1 DEF Proper, Messages
  <2>2. Msg.item \in 1..(LastClose + MaxPosted)
    BY <2>1, Bounds
  <2> QED
    BY <2>1, <2>2 DEF InputCalls
<1>5. \/ got' = [got EXCEPT ![u] = Append(got[u], e)]
      \/ got' = got /\ (OnlyOwner(u) => ~Sure(u, x))
  BY DEF Got
<1> HIDE DEF e
<1>6. ASSUME NEW s \in Sessions
      PROVE  /\ s = u => ItemsIn(mailbox, InputFor(s)) = ItemsIn(mailbox', InputFor(s)) \cup {x}
             /\ s # u => ItemsIn(mailbox', InputFor(s)) = ItemsIn(mailbox, InputFor(s))
             /\ QueueAsIn(sent[s], mailbox, InputFor(s)) =>
                  /\ QueueAsIn(sent[s], mailbox', InputFor(s))
                  /\ s = u => \A y \in ItemsIn(mailbox', InputFor(s)) : Before(sent[s], x, y)
             /\ StartFirst(mailbox, s) => s # u /\ StartFirst(mailbox', s)
  <2>1. Head(mailbox) \in InputFor(s) <=> s = u
    BY <1>1, <1>2
  <2>2. ~Starts(Head(mailbox), s)
    BY <1>1 DEF Starts, Input
  <2> QED
    BY <1>1, <2>1, <2>2, QueueTail, StartTail
<1>7. /\ \A seq : CallsAsIn(seq, got[u]) /\ (\A y \in ItemsOf(got[u]) : Before(seq, y, x))
                    => CallsAsIn(seq, got'[u])
      /\ ItemsOf(got[u]) \subseteq ItemsOf(got'[u]) /\ ItemsOf(got'[u]) \subseteq ItemsOf(got[u]) \cup {x}
      /\ OnlyOwner(u) /\ Sure(u, x) => x \in ItemsOf(got'[u])
  <2>1. CASE got' = [got EXCEPT ![u] = Append(got[u], e)]
    <3>1. got'[u] = Append(got[u], e) /\ got[u] \in Seq(InputCalls)
      BY <1>3, <2>1
    <3>2. ItemsOf(got'[u]) = ItemsOf(got[u]) \cup {x}
      BY <1>4, <3>1, CallsAppend
    <3>3. \A seq : CallsAsIn(seq, got[u]) /\ (\A y \in ItemsOf(got[u]) : Before(seq, y, x))
                     => CallsAsIn(seq, got'[u])
      BY <1>4, <3>1, CallsAppend
    <3> QED
      BY <3>2, <3>3
  <2>2. CASE got' = got /\ (OnlyOwner(u) => ~Sure(u, x))
    BY <2>2
  <2> QED
    BY <1>5, <2>1, <2>2
<1>8. \A s \in Sessions : s # u => got'[s] = got[s]
  BY <1>3, <1>5
<1>9. ASSUME NEW s \in Sessions PROVE NoneSent(s)'
  BY <1>1 DEF CInv, NoneSent
<1>10. ASSUME NEW s \in Sessions PROVE Origin(s)'
  <2>1. Origin(s)
    BY DEF CInv
  <2>2. \A y, v : SentBy(s, y, v)' <=> SentBy(s, y, v)
    BY <1>1 DEF SentBy
  <2>3. ItemsIn(mailbox', InputFor(s)) \cup ItemsOf(got'[s]) \subseteq ItemsIn(mailbox, InputFor(s)) \cup ItemsOf(got[s])
    BY <1>6, <1>7, <1>8
  <2>4. \A v \in Workers : \A y \in ItemsIn(wire'[v], InputFor(s)) : SentBy(s, y, v)'
    BY <1>1, <2>1, <2>2 DEF Origin
  <2>5. \A y \in ItemsIn(mailbox', InputFor(s)) \cup ItemsOf(got'[s]) : \E v \in Workers : SentBy(s, y, v)'
    BY <2>1, <2>2, <2>3 DEF Origin
  <2> QED
    BY <2>4, <2>5 DEF Origin
<1>11. ASSUME NEW s \in Sessions, OnlyOwner(s)' PROVE (NothingLost(s) /\ InLine(s) /\ Awaits(s))'
  <2>1. OnlyOwner(s)
    BY <1>1, <1>11 DEF OnlyOwner
  <2>2. NothingLost(s) /\ InLine(s) /\ Awaits(s)
    BY <2>1 DEF CInv, Arriving
  <2> DEFINE leaving == ItemsIn(wire[owner[s]], InputFor(s))
  <2>3. /\ CallsAsIn(sent[s], got[s])
        /\ QueueAsIn(sent[s], mailbox, InputFor(s)) /\ QueueAsIn(sent[s], wire[owner[s]], InputFor(s))
        /\ AllBefore(sent[s], ItemsOf(got[s]), ItemsIn(mailbox, InputFor(s)) \cup leaving)
        /\ AllBefore(sent[s], ItemsIn(mailbox, InputFor(s)), leaving)
    BY <2>2 DEF InLine
  <2> HIDE DEF leaving
  <2>4. CASE s # u
    <3>1. got'[s] = got[s] /\ ItemsIn(mailbox', InputFor(s)) = ItemsIn(mailbox, InputFor(s))
      BY <1>6, <1>8, <2>4
    <3>2. NothingLost(s)'
      <4>1. \A y : Present(s, y)' <=> Present(s, y)
        BY <1>1, <3>1 DEF Present
      <4> QED
        BY <1>1, <2>2, <4>1 DEF NothingLost, Sure
    <3>3. InLine(s)'
      BY <1>1, <1>6, <2>3, <3>1 DEF InLine, leaving
    <3>4. Awaits(s)'
      BY <1>1, <1>6, <2>2, <3>1 DEF Awaits
    <3> QED
      BY <3>2, <3>3, <3>4
  <2>5. CASE s = u
    <3>1. x \in ItemsIn(mailbox, InputFor(s)) /\ ItemsIn(mailbox, InputFor(s)) = ItemsIn(mailbox', InputFor(s)) \cup {x}
      BY <1>6, <2>5
    <3>2. host[s] # "none"
      BY <1>6, <2>2, <2>5, <3>1 DEF Awaits
    <3>3. NothingLost(s)'
      <4>1. \A y : Present(s, y) => Present(s, y)' \/ y = x
        BY <1>1, <1>7, <2>5, <3>1 DEF Present
      <4>2. ASSUME Sure(s, x) PROVE Present(s, x)'
        <5>1. x \in ItemsOf(got'[s])
          BY <1>7, <2>1, <2>5, <4>2
        <5> QED
          BY <5>1 DEF Present
      <4>3. \A y : Sure(s, y)' <=> Sure(s, y)
        BY <1>1 DEF Sure
      <4>4. calling' # s /\ host'[s] # "none"
        BY <1>1, <3>2, Bounds
      <4> QED
        BY <1>1, <2>2, <4>1, <4>2, <4>3, <4>4 DEF NothingLost
    <3>4. \A y \in ItemsOf(got[s]) : Before(sent[s], y, x)
      BY <2>3, <3>1 DEF AllBefore
    <3>5. CallsAsIn(sent[s], got'[s])
      BY <1>7, <2>3, <2>5, <3>4
    <3>6. QueueAsIn(sent[s], mailbox', InputFor(s)) /\ \A y \in ItemsIn(mailbox', InputFor(s)) : Before(sent[s], x, y)
      BY <1>6, <2>3, <2>5
    <3>7. \A y \in leaving : Before(sent[s], x, y)
      BY <2>3, <3>1 DEF AllBefore
    <3>8. AllBefore(sent[s], ItemsOf(got'[s]), ItemsIn(mailbox', InputFor(s)) \cup leaving)
      BY <1>7, <2>3, <2>5, <3>1, <3>6, <3>7 DEF AllBefore
    <3>9. AllBefore(sent[s], ItemsIn(mailbox', InputFor(s)), leaving)
      BY <2>3, <3>1 DEF AllBefore
    <3>10. InLine(s)'
      BY <1>1, <2>3, <3>5, <3>6, <3>8, <3>9 DEF InLine, leaving
    <3>11. Awaits(s)'
      BY <3>2 DEF Awaits
    <3> QED
      BY <3>3, <3>10, <3>11
  <2> QED
    BY <2>4, <2>5
<1> QED
  BY <1>9, <1>10, <1>11 DEF CInv, Arriving

\* A writer registered in time is there for what is written, and the function
\* to stop a program for each signal.
LEMMA HasFunction ==
  ASSUME CInv, NEW s \in Sessions, OnlyOwner(s), NEW x \in ItemsIn(mailbox, InputFor(s)), Sure(s, x)
  PROVE  /\ x <= LastClose => writer[s] # 0
         /\ x > LastClose => killer[s]
<1>1. Registered(s) /\ InLine(s)
  BY DEF CInv, Arriving
<1>2. x > LastClose => killer[s]
  BY <1>1 DEF Registered, Sure
<1>3. ASSUME x <= LastClose, writer[s] = 0 PROVE FALSE
  <2>1. PICK end \in Closes : end \in ItemsOf(got[s])
    BY <1>1, <1>3 DEF Registered, Sure
  <2>2. Before(sent[s], end, x)
    BY <1>1, <2>1 DEF InLine, AllBefore
  <2> QED
    BY <1>3, <2>1, <2>2 DEF Sure
<1> QED
  BY <1>2, <1>3

\* The message that is executed, about the input of a session.
LEMMA AboutInput ==
  ASSUME CInv, NEW type \in Input, Receive(type)
  PROVE  /\ Msg.session \in Sessions /\ Msg.item \in ItemsIn(mailbox, InputFor(Msg.session))
         /\ IsOf(type, Msg.item) /\ UNCHANGED <<killer, inCall>>
<1>1. /\ mailbox \in Seq(Proper) /\ mailbox # <<>> /\ Msg = mailbox[1] /\ Msg \in Proper
      /\ Msg.type = type /\ UNCHANGED <<killer, inCall>>
  BY Sequences, TReceived DEF CInv, Msg
<1>2. 1 \in DOMAIN mailbox
  BY <1>1
<1>3. Msg.session \in Sessions /\ Msg \in InputFor(Msg.session) /\ IsOf(type, Msg.item)
  BY <1>1 DEF Proper, Messages, InputFor
<1> QED
  BY <1>1, <1>2, <1>3 DEF ItemsIn

\* A function is called, or none is.
LEMMA GotGrows ==
  ASSUME CInv, TInv', NEW u \in Sessions, NEW n, NEW x, Got(u, n, x) \/ got' = got
  PROVE  /\ \A s \in Sessions : ItemsOf(got[s]) \subseteq ItemsOf(got'[s])
         /\ Got(u, n, x) => x \in ItemsOf(got'[u])
<1> DEFINE e == [setter |-> n, worker |-> Msg.worker, item |-> x]
<1>1. got \in [Sessions -> Seq(InputCalls)] /\ got' \in [Sessions -> Seq(InputCalls)]
  BY Sequences DEF TInv, TypesOfCalls
<1>2. CASE Got(u, n, x)
  <2>1. got' = [got EXCEPT ![u] = Append(got[u], e)] /\ e.item = x
    BY <1>2 DEF Got
  <2> HIDE DEF e
  <2>2. got'[u] = Append(got[u], e) /\ \A s \in Sessions : s # u => got'[s] = got[s]
    BY <1>1, <2>1
  <2>3. ItemsOf(got'[u]) = ItemsOf(got[u]) \cup {x}
    <3>1. PICK q \in Seq(InputCalls) : q = got[u]
      BY <1>1
    <3>2. q \in Seq(InputCalls \cup {e}) /\ e \in InputCalls \cup {e}
      OBVIOUS
    <3> QED
      BY <2>1, <2>2, <3>1, <3>2, CallsAppend
  <2> QED
    BY <2>2, <2>3
<1>3. CASE got' = got
  BY <1>2, <1>3
<1> QED
  BY <1>2, <1>3

LEMMA CExecuteWrite == ASSUME CInv, TInv', ExecuteWrite PROVE CInv'
<1>1. Receive("write") /\ "write" \in Input /\ UNCHANGED <<writer, calling, host>>
  BY DEF ExecuteWrite, Input
<1>2. PICK u \in Sessions : u = Msg.session
  BY <1>1, AboutInput
<1>3. PICK x \in ItemsIn(mailbox, InputFor(u)) : x = Msg.item
  BY <1>1, <1>2, AboutInput
<1>4. x <= LastClose /\ UNCHANGED <<killer, inCall>>
  BY <1>1, <1>3, AboutInput DEF IsOf
<1>5. PICK n \in 0..MaxCalls : n = writer[u]
  BY DEF CInv, TInv, TypesOfTables
<1>6. IF n # 0 THEN Got(u, n, x) ELSE got' = got
  BY <1>2, <1>3, <1>5 DEF ExecuteWrite
<1>7. \/ Got(u, n, x)
      \/ got' = got /\ (OnlyOwner(u) => ~Sure(u, x))
  BY <1>4, <1>5, <1>6, HasFunction
<1>8. ASSUME NEW s \in Sessions PROVE Registered(s)'
  <2>1. ItemsOf(got[s]) \subseteq ItemsOf(got'[s])
    BY <1>6, GotGrows
  <2> QED
    BY <1>1, <1>4, <2>1 DEF CInv, Registered
<1> QED
  BY <1>1, <1>2, <1>3, <1>7, <1>8, InputExecuted

LEMMA CExecuteClose == ASSUME CInv, TInv', ExecuteClose PROVE CInv'
<1>1. Receive("close") /\ "close" \in Input /\ UNCHANGED <<calling, host>>
  BY DEF ExecuteClose, Input
<1>2. PICK u \in Sessions : u = Msg.session
  BY <1>1, AboutInput
<1>3. PICK x \in ItemsIn(mailbox, InputFor(u)) : x = Msg.item
  BY <1>1, <1>2, AboutInput
<1>4. x <= LastClose /\ UNCHANGED <<killer, inCall>>
  BY <1>1, <1>3, AboutInput DEF IsOf
<1>5. PICK n \in 0..MaxCalls : n = writer[u]
  BY DEF CInv, TInv, TypesOfTables
<1>6. IF n # 0 THEN Got(u, n, x) ELSE got' = got
  BY <1>2, <1>3, <1>5 DEF ExecuteClose
<1>7. \/ Got(u, n, x)
      \/ got' = got /\ (OnlyOwner(u) => ~Sure(u, x))
  BY <1>4, <1>5, <1>6, HasFunction
<1>8. ASSUME NEW s \in Sessions PROVE Registered(s)'
  <2>1. ItemsOf(got[s]) \subseteq ItemsOf(got'[s])
    BY <1>6, GotGrows
  <2>2. writer' = [writer EXCEPT ![u] = 0] /\ writer \in [Sessions -> 0..MaxCalls]
    BY <1>2 DEF ExecuteClose, CInv, TInv, TypesOfTables
  <2>3. CASE s # u
    BY <1>4, <2>1, <2>2, <2>3 DEF CInv, Registered
  <2>4. CASE s = u
    <3>1. x \in Closes
      BY <1>1, <1>3, InputReceived DEF CInv, TInv
    <3>2. n # 0 => x \in ItemsOf(got'[u])
      BY <1>6, GotGrows
    <3> QED
      BY <1>4, <1>5, <2>1, <2>4, <3>1, <3>2 DEF CInv, Registered
  <2> QED
    BY <2>3, <2>4
<1> QED
  BY <1>1, <1>2, <1>3, <1>7, <1>8, InputExecuted

LEMMA CExecuteSignal == ASSUME CInv, TInv', ExecuteSignal PROVE CInv'
<1>1. Receive("signal") /\ "signal" \in Input /\ UNCHANGED <<writer, calling, host>>
  BY DEF ExecuteSignal, Input
<1>2. PICK u \in Sessions : u = Msg.session
  BY <1>1, AboutInput
<1>3. PICK x \in ItemsIn(mailbox, InputFor(u)) : x = Msg.item
  BY <1>1, <1>2, AboutInput
<1>4. x > LastClose /\ UNCHANGED <<killer, inCall>>
  BY <1>1, <1>3, AboutInput DEF IsOf
<1>5. 0 \in 0..MaxCalls
  BY Bounds
<1>6. IF killer[u] THEN Got(u, 0, x) ELSE got' = got
  BY <1>2, <1>3 DEF ExecuteSignal
<1>7. \/ Got(u, 0, x)
      \/ got' = got /\ (OnlyOwner(u) => ~Sure(u, x))
  BY <1>4, <1>6, HasFunction
<1>8. ASSUME NEW s \in Sessions PROVE Registered(s)'
  <2>1. ItemsOf(got[s]) \subseteq ItemsOf(got'[s])
    BY <1>5, <1>6, GotGrows
  <2> QED
    BY <1>1, <1>4, <2>1 DEF CInv, Registered
<1> QED
  BY <1>1, <1>2, <1>3, <1>5, <1>7, <1>8, InputExecuted

LEMMA CExecute == ASSUME CInv, TInv', Execute PROVE CInv'
<1>1. CASE ExecuteStart
  <2>1. Receive("start") /\ "start" \notin Input /\ UNCHANGED <<got, writer>>
    BY <1>1 DEF ExecuteStart, Input
  <2>2. Msg.type = "start" /\ calling = 0 /\ host \in [Sessions -> {"none", "running", "refused",
                                                                   "failed", "settled"}]
    BY <2>1, TReceived DEF CInv, TInv, TypesOfHandlers
  <2>3. \A s : Starts(Msg, s) <=> s = Msg.session
    BY <2>2 DEF Starts
  <2>4. \/ host' = [host EXCEPT ![Msg.session] = "running"] /\ calling' = Msg.session
        \/ host' = [host EXCEPT ![Msg.session] = "refused"] /\ calling' = calling
    BY <1>1 DEF ExecuteStart
  <2>5. \A s \in Sessions : ~Starts(Msg, s) => host'[s] = host[s] /\ calling' # s
    BY <2>2, <2>3, <2>4, Bounds
  <2>6. \A s \in Sessions : Starts(Msg, s) => host'[s] # "none"
    BY <2>2, <2>3, <2>4
  <2> QED
    BY <2>1, <2>5, <2>6, OtherExecuted
<1>2. CASE ExecuteChildOutput
  <2>1. PICK kind \in Kinds : Receive(kind)
    BY <1>2 DEF ExecuteChildOutput
  <2>2. UNCHANGED <<writer, calling, host, got>> /\ kind \notin Input
    BY <1>2 DEF ExecuteChildOutput, Kinds, Input
  <2>3. Msg.type = kind /\ calling = 0 /\ kind # "start"
    BY <2>1, TReceived DEF CInv, Kinds
  <2>4. \A s \in Sessions : ~Starts(Msg, s) /\ calling' # s
    BY <2>2, <2>3, Bounds DEF Starts
  <2> QED
    BY <2>1, <2>2, <2>4, OtherExecuted
<1> QED
  BY <1>1, <1>2, CExecuteWrite, CExecuteClose, CExecuteSignal DEF Execute

-----------------------------------------------------------------------------
LEMMA CProgram ==
  ASSUME CInv, TInv', NEW w \in Workers, NEW s \in Sessions, Program(w, s)
  PROVE  CInv'
<1>1. /\ Len(sent[s]) \in Nat /\ Len(sent[s]) <= posted /\ posted \in Nat
  BY DEF CInv, TInv, IInv, Types
<1>2. CASE Start(w, s)
  <2> DEFINE m == [type |-> "start", worker |-> w, session |-> s, child |-> 0, item |-> 0]
  <2>1. /\ wire' = [wire EXCEPT ![w] = Append(wire[w], m)]
        /\ UNCHANGED <<sent, mailbox, got, calling, host, inCall, writer, killer>>
        /\ owner[s] = NoWorker /\ owner' = [owner EXCEPT ![s] = w]
    BY <1>2 DEF Start, Post, NotTheProgram, tables
  <2>2. m \in Proper /\ m.type \notin Input /\ m.session = s /\ Starts(m, s)
    BY Bounds DEF Proper, Messages, Input, Kinds, Starts
  <2> HIDE DEF m
  <2> QED
    BY <2>1, <2>2, OtherPosted
<1> DEFINE n == Len(sent[s]) + 1
<1>3. ASSUME posted < MaxPosted
      PROVE  /\ n \in 1..(LastClose + MaxPosted) /\ IsOf("write", n)
             /\ Closing(n) \in 1..(LastClose + MaxPosted) /\ IsOf("close", Closing(n))
             /\ Signal(n) \in 1..(LastClose + MaxPosted) /\ IsOf("signal", Signal(n))
  BY <1>3, ItemNumbers DEF CInv
<1>4. CASE Write(w, s)
  <2>1. posted < MaxPosted /\ Send(w, s, "write", n) /\ "write" \in Input
    BY <1>4 DEF Write, Send, Post, Input
  <2> HIDE DEF n
  <2> QED
    BY <1>3, <2>1, CSend
<1>5. CASE CloseStdin(w, s)
  <2>1. posted < MaxPosted /\ Send(w, s, "close", Closing(n)) /\ "close" \in Input
    BY <1>5 DEF CloseStdin, Send, Post, Input
  <2> HIDE DEF n
  <2> QED
    BY <1>3, <2>1, CSend
<1>6. CASE Kill(w, s)
  <2>1. posted < MaxPosted /\ Send(w, s, "signal", Signal(n)) /\ "signal" \in Input
    BY <1>6 DEF Kill, Send, Post, Input
  <2> HIDE DEF n
  <2> QED
    BY <1>3, <2>1, CSend
<1> QED
  BY <1>2, <1>4, <1>5, <1>6 DEF Program

LEMMA CChildOutput ==
  ASSUME CInv, TInv', NEW w \in Workers, NEW c \in Children, NEW kind \in Kinds,
         ChildOutput(w, c, kind)
  PROVE  CInv'
<1> DEFINE u == child[c].session
           n == Len(child[c].said) + 1
           m == [type |-> kind, worker |-> w, session |-> u, child |-> c, item |-> n]
<1>1. u \in Sessions /\ n \in 1..MaxPosted /\ n \in 0..(LastClose + MaxPosted)
  <2>1. u \in Sessions
    BY DEF CInv, TInv, TypesOfChildren, Asked, ChildOutput
  <2>2. n \in 1..MaxPosted
    BY SaidMore DEF CInv, TInv, IInv
  <2> QED
    BY <2>1, <2>2, Bounds
<1>2. /\ wire' = [wire EXCEPT ![w] = Append(wire[w], m)]
      /\ UNCHANGED <<owner, sent, mailbox, got, calling, host, inCall, writer, killer>>
  BY DEF ChildOutput, Post, NotTheProgram, tables
<1> HIDE DEF u, n
<1>3. m \in Proper /\ m.type \notin Input
  BY <1>1, Bounds DEF Proper, Messages, Input, Kinds
<1> HIDE DEF m
<1> QED
  BY <1>2, <1>3, OtherPosted

\* What a handler registers is only missed if it was called for nothing.
LEMMA CJs ==
  ASSUME CInv, TInv', NEW s \in Sessions, NEW name, Js(s, name),
         \A u \in Sessions : calling # u => inCall'[u] = inCall[u],
         \A u \in Sessions : Registered(u)'
  PROVE  CInv'
<1>1. UNCHANGED <<sent, owner, wire, mailbox, got, calling, host>>
  BY DEF Js
<1> QED
  BY <1>1, NothingMoves

LEMMA CHandler == ASSUME CInv, TInv', NEW s \in Sessions, Handler(s) PROVE CInv'
<1>1. /\ inCall \in [Sessions -> SUBSET Operations] /\ writer \in [Sessions -> 0..MaxCalls]
      /\ killer \in [Sessions -> BOOLEAN] /\ \A u \in Sessions : Registered(u)
  BY DEF CInv, TInv, TypesOfHandlers, TypesOfTables
<1>2. ASSUME NEW name, Setter(s, name)
      PROVE  /\ Js(s, name) /\ got' = got
             /\ \A u \in Sessions : calling # u => inCall'[u] = inCall[u]
             /\ \A u \in Sessions : \A other : other \in inCall'[u] =>
                   other \in inCall[u] \/ (u = s /\ other = name)
  <2>1. \/ inCall' = inCall
        \/ calling = s /\ inCall' = [inCall EXCEPT ![s] = inCall[s] \cup {name}]
    BY <1>2 DEF Setter
  <2>2. \/ inCall' = inCall
        \/ /\ calling = s /\ inCall'[s] = inCall[s] \cup {name}
           /\ \A u \in Sessions : u # s => inCall'[u] = inCall[u]
    BY <1>1, <2>1
  <2> QED
    BY <1>2, <2>2 DEF Setter, Js
<1>3. CASE Settle(s)
  <2>1. /\ UNCHANGED <<sent, owner, wire, mailbox, got, calling, inCall, writer, killer>>
        /\ host[s] = "running" /\ host' = [host EXCEPT ![s] = "settled"]
    BY <1>3 DEF Settle, worker, tables
  <2>2. \A u \in Sessions : (host'[u] = "none") = (host[u] = "none")
    BY <2>1 DEF CInv, TInv, TypesOfHandlers
  <2>3. \A u \in Sessions : Registered(u)'
    BY <1>1, <2>1 DEF Registered
  <2> QED
    BY <2>1, <2>2, <2>3, NothingMoves
<1>4. CASE SetStdinWriter(s)
  <2>1. Setter(s, "setStdinWriter") /\ writer' = [writer EXCEPT ![s] = calls'[s]] /\ killer' = killer
    BY <1>4 DEF SetStdinWriter
  <2>2. calls'[s] # 0
    <3>1. calls' = [calls EXCEPT ![s] = calls[s] + 1] /\ calls \in [Sessions -> 0..MaxCalls]
      BY <1>2, <2>1 DEF Js, CInv, TInv, TypesOfHandlers
    <3>2. calls'[s] = calls[s] + 1 /\ calls[s] \in 0..MaxCalls
      BY <3>1
    <3> QED
      BY <3>2, Bounds
  <2>3. ASSUME NEW u \in Sessions PROVE Registered(u)'
    <3>1. writer'[u] # 0 \/ (u # s /\ writer'[u] = writer[u])
      BY <1>1, <2>1, <2>2
    <3>2. /\ "setStdinWriter" \in inCall'[u] => "setStdinWriter" \in inCall[u] \/ u = s
          /\ "setKillFunction" \in inCall'[u] => "setKillFunction" \in inCall[u]
      BY <1>2, <2>1
    <3>3. Registered(u) /\ killer'[u] = killer[u] /\ got'[u] = got[u]
      BY <1>1, <1>2, <2>1
    <3> QED
      BY <3>1, <3>2, <3>3 DEF Registered
  <2> QED
    BY <1>2, <2>1, <2>3, CJs
<1>5. CASE SetKillFunction(s)
  <2>1. Setter(s, "setKillFunction") /\ killer' = [killer EXCEPT ![s] = TRUE] /\ writer' = writer
    BY <1>5 DEF SetKillFunction
  <2>2. ASSUME NEW u \in Sessions PROVE Registered(u)'
    <3>1. killer'[u] \/ (u # s /\ killer'[u] = killer[u])
      BY <1>1, <2>1
    <3>2. /\ "setStdinWriter" \in inCall'[u] => "setStdinWriter" \in inCall[u]
          /\ "setKillFunction" \in inCall'[u] => "setKillFunction" \in inCall[u] \/ u = s
      BY <1>2, <2>1
    <3>3. Registered(u) /\ writer'[u] = writer[u] /\ got'[u] = got[u]
      BY <1>1, <1>2, <2>1
    <3> QED
      BY <3>1, <3>2, <3>3 DEF Registered
  <2> QED
    BY <1>2, <2>1, <2>2, CJs
<1>6. CASE SetChildOutputHandlers(s)
  <2>1. Setter(s, "setChildOutputHandlers") /\ UNCHANGED <<writer, killer>>
    BY <1>6 DEF SetChildOutputHandlers
  <2>2. ASSUME NEW u \in Sessions PROVE Registered(u)'
    <3>1. /\ "setStdinWriter" \in inCall'[u] => "setStdinWriter" \in inCall[u]
          /\ "setKillFunction" \in inCall'[u] => "setKillFunction" \in inCall[u]
      BY <1>2, <2>1
    <3>2. Registered(u) /\ writer'[u] = writer[u] /\ killer'[u] = killer[u] /\ got'[u] = got[u]
      BY <1>1, <1>2, <2>1
    <3> QED
      BY <3>1, <3>2 DEF Registered
  <2> QED
    BY <1>2, <2>1, <2>2, CJs
<1>7. ASSUME NEW c \in Children, NEW type, NEW name, Js(s, name), Ask(s, type, c) PROVE CInv'
  <2>1. UNCHANGED <<inCall, writer, killer, got>>
    BY <1>7 DEF Ask, Js
  <2>2. \A u \in Sessions : Registered(u)'
    BY <1>1, <2>1 DEF Registered
  <2> QED
    BY <1>7, <2>1, <2>2, CJs
<1>8. ASSUME NEW c \in Children, NEW whole \in BOOLEAN, RequestSpawn(s, c, whole) PROVE CInv'
  BY <1>7, <1>8 DEF RequestSpawn
<1>9. ASSUME NEW c \in Children, SpawnControl(s, c) PROVE CInv'
  BY <1>7, <1>9 DEF SpawnControl
<1> QED
  BY <1>3, <1>4, <1>5, <1>6, <1>8, <1>9 DEF Handler

\* The rest.
LEMMA CIdle ==
  ASSUME CInv, TInv',
         UNCHANGED <<sent, owner, wire, mailbox, got, inCall, writer, killer>>,
         calling' \in {0, calling}, \A u \in Sessions : (host'[u] = "none") = (host[u] = "none")
  PROVE  CInv'
<1>1. \A u \in Sessions : Registered(u)'
  BY DEF CInv, Registered
<1>2. \A u \in Sessions : calling' = u => calling = u
  BY Bounds
<1> QED
  BY <1>1, <1>2, NothingMoves

LEMMA CStep == CInv /\ [Next]_vars => CInv'
<1> SUFFICES ASSUME CInv, [Next]_vars PROVE CInv'
  OBVIOUS
<1>1. TInv'
  BY TStep DEF CInv
<1>2. CASE UNCHANGED vars
  <2>1. UNCHANGED <<sent, owner, wire, mailbox, got, inCall, writer, killer, calling, host>>
    BY <1>2 DEF vars, worker, tables
  <2> QED
    BY <1>1, <2>1, CIdle
<1>3. CASE Return
  <2>1. PICK outcome \in {"running", "failed"} : host' = [host EXCEPT ![calling] = outcome]
    BY <1>3 DEF Return
  <2>2. /\ calling # 0 /\ calling' = 0
        /\ UNCHANGED <<sent, owner, wire, mailbox, got, inCall, writer, killer>>
    BY <1>3 DEF Return, worker, tables
  <2>3. /\ host \in [Sessions -> {"none", "running", "refused", "failed", "settled"}]
        /\ calling \in Sessions
    BY <2>2 DEF CInv, TInv, TypesOfHandlers
  <2>4. host[calling] = "running"
    BY <2>3 DEF CInv, TInv, CalledOnce
  <2>5. \A u \in Sessions : (host'[u] = "none") = (host[u] = "none")
    BY <2>1, <2>3, <2>4
  <2> QED
    BY <1>1, <2>2, <2>5, CIdle
<1>4. ASSUME NEW s \in Sessions, ReadRequest(s) PROVE CInv'
  <2>1. UNCHANGED <<sent, owner, wire, mailbox, got, inCall, writer, killer, calling, host>>
    BY <1>4 DEF ReadRequest, NotTheProgram, tables
  <2> QED
    BY <1>1, <2>1, CIdle
<1> QED
  BY <1>1, <1>2, <1>3, <1>4, CProgram, CChildOutput, CDeliver, CExecute, CHandler DEF Next

\* ControlArrives of the model: what the one thread that started a session
\* sends to its handler reaches the function registered for it, if that was
\* registered before the handler returned, and all that arrives, or is still
\* on its way, is in the order in which it was sent: the message that starts
\* the session is in front of all of it, so that the handler was called first.
THEOREM InputArrives == Spec => []ControlArrives
<1>1. CInv => ControlArrives
  <2> SUFFICES ASSUME CInv, NEW s \in Sessions, OnlyOwner(s), calling # s
               PROVE  /\ \A i \in DOMAIN sent[s] : Sure(s, sent[s][i].item) =>
                            Present(s, sent[s][i].item)
                      /\ \A x : Present(s, x) => x \in ItemsOf(sent[s])
                      /\ InLine(s)
    BY DEF ControlArrives, Present, InLine
  <2>1. NothingLost(s) /\ InLine(s) /\ Origin(s)
    BY DEF CInv, Arriving
  <2>2. owner[s] \in Workers
    BY Sequences DEF OnlyOwner
  <2>3. \A x : Present(s, x) => \E w \in Workers : SentBy(s, x, w)
    BY <2>1, <2>2 DEF Present, Origin
  <2>4. \A x, w : SentBy(s, x, w) => x \in ItemsOf(sent[s])
    BY DEF SentBy, ItemsOf
  <2> QED
    BY <2>1, <2>3, <2>4 DEF NothingLost
<1> QED
  BY <1>1, CInit, CStep, PTL DEF Spec

-----------------------------------------------------------------------------
(* What is said of a child.                                                *)

\* A message names the worker that posted it.
Marked == \A w \in Workers : \A i \in DOMAIN wire[w] : wire[w][i].worker = w

\* What is on its way about child c, or was heard of it, was said.
Agrees(q, c, said) ==
    \A i \in DOMAIN q :
        q[i].type \in Kinds /\ q[i].child = c => IsSaid(said, q[i].worker, q[i].type, q[i].item)
Told(c) ==
    /\ child[c].pc \in {"none", "requested"} => child[c].said = <<>>
    /\ Agrees(mailbox, c, child[c].said) /\ \A w \in Workers : Agrees(wire[w], c, child[c].said)

\* Callbacks that were given for a child are kept for this child.
OwnKeys(c) == children[c].child \in {0, c}
HearsOwn(g) ==
    \A i \in DOMAIN heard[g] :
        /\ g.child # 0 => heard[g][i].child = g.child
        /\ IsSaid(child[heard[g][i].child].said, heard[g][i].worker, heard[g][i].kind, heard[g][i].item)

Hears(c) ==
    child[c].whole /\ children[c] = Own(c) =>
        \A w \in Workers : Flows(w, child[c].said, heard[Own(c)], mailbox, wire[w], HeardFrom(w),
                                 SaidOf(c, w))

HInv ==
    /\ TInv /\ Marked
    /\ \A c \in Children : Told(c) /\ OwnKeys(c) /\ Hears(c)
    /\ \A g \in Givers : HearsOwn(g)

-----------------------------------------------------------------------------
\* Nothing was said.
LEMMA FlowsEmpty ==
  ASSUME NEW w, NEW here, NEW coming, NEW leaving, NEW H, NEW M,
         ItemsIn(here, H) = {}, ItemsIn(coming, M) = {}, ItemsIn(leaving, M) = {}
  PROVE  Flows(w, <<>>, here, coming, leaving, H, M)
<1>1. DOMAIN <<>> = {}
  OBVIOUS
<1>2. QueueAsIn(<<>>, here, H) /\ QueueAsIn(<<>>, coming, M) /\ QueueAsIn(<<>>, leaving, M)
  BY NoItems
<1>3. AllBefore(<<>>, {}, {})
  BY DEF AllBefore
<1> QED
  BY <1>1, <1>2, <1>3 DEF Flows

\* Something else is posted, moves to the mailbox, or is received.
LEMMA FlowsOther ==
  ASSUME NEW w, NEW said, NEW here, NEW coming \in Seq(Proper), NEW leaving \in Seq(Proper), NEW H, NEW M,
         Flows(w, said, here, coming, leaving, H, M)
  PROVE  /\ \A m \in Proper : m \notin M => /\ Flows(w, said, here, coming, Append(leaving, m), H, M)
                                            /\ Flows(w, said, here, Append(coming, m), leaving, H, M)
         /\ coming # <<>> /\ Head(coming) \notin M => Flows(w, said, here, Tail(coming), leaving, H, M)
         /\ leaving # <<>> /\ Head(leaving) \notin M =>
              Flows(w, said, here, Append(coming, Head(leaving)), Tail(leaving), H, M)
<1>1. ASSUME NEW q, NEW r, ItemsIn(q, M) = ItemsIn(coming, M), ItemsIn(r, M) = ItemsIn(leaving, M),
             QueueAsIn(said, q, M), QueueAsIn(said, r, M)
      PROVE  Flows(w, said, here, q, r, H, M)
  BY <1>1 DEF Flows
<1>2. QueueAsIn(said, coming, M) /\ QueueAsIn(said, leaving, M)
  BY DEF Flows
<1>3. ASSUME NEW q \in Seq(Proper), NEW m \in Proper, m \notin M, QueueAsIn(said, q, M)
      PROVE  ItemsIn(Append(q, m), M) = ItemsIn(q, M) /\ QueueAsIn(said, Append(q, m), M)
  BY <1>3, QueueAppend
<1>4. ASSUME NEW q \in Seq(Proper), q # <<>>, Head(q) \notin M, QueueAsIn(said, q, M)
      PROVE  ItemsIn(Tail(q), M) = ItemsIn(q, M) /\ QueueAsIn(said, Tail(q), M)
  BY <1>4, QueueTail
<1>5. ASSUME NEW m \in Proper, m \notin M
      PROVE  Flows(w, said, here, coming, Append(leaving, m), H, M)
             /\ Flows(w, said, here, Append(coming, m), leaving, H, M)
  BY <1>1, <1>2, <1>3, <1>5
<1>6. ASSUME coming # <<>>, Head(coming) \notin M PROVE Flows(w, said, here, Tail(coming), leaving, H, M)
  BY <1>1, <1>2, <1>4, <1>6
<1>7. ASSUME leaving # <<>>, Head(leaving) \notin M
      PROVE  Flows(w, said, here, Append(coming, Head(leaving)), Tail(leaving), H, M)
  <2>1. Head(leaving) \in Proper
    BY <1>7
  <2> QED
    BY <1>1, <1>2, <1>3, <1>4, <1>7, <2>1
<1> QED
  BY <1>5, <1>6, <1>7

\* What was said moves from the wire to the mailbox.
LEMMA FlowsOn ==
  ASSUME NEW w, NEW said, NEW here, NEW coming \in Seq(Proper), NEW leaving \in Seq(Proper), NEW H, NEW M,
         Flows(w, said, here, coming, leaving, H, M), leaving # <<>>, Head(leaving) \in M
  PROVE  Flows(w, said, here, Append(coming, Head(leaving)), Tail(leaving), H, M)
<1>1. PICK m \in Proper : m = Head(leaving)
  OBVIOUS
<1> DEFINE q == Append(coming, m)
           r == Tail(leaving)
<1>2. /\ QueueAsIn(said, here, H) /\ QueueAsIn(said, coming, M) /\ QueueAsIn(said, leaving, M)
      /\ AllBefore(said, ItemsIn(here, H), ItemsIn(coming, M) \cup ItemsIn(leaving, M))
      /\ AllBefore(said, ItemsIn(coming, M), ItemsIn(leaving, M))
  BY DEF Flows
<1>3. /\ ItemsIn(leaving, M) = ItemsIn(r, M) \cup {m.item} /\ QueueAsIn(said, r, M)
      /\ \A y \in ItemsIn(r, M) : Before(said, m.item, y)
  BY <1>1, <1>2, QueueTail
<1>4. \A x \in ItemsIn(coming, M) : Before(said, x, m.item)
  BY <1>2, <1>3 DEF AllBefore
<1>5. ItemsIn(q, M) = ItemsIn(coming, M) \cup {m.item} /\ QueueAsIn(said, q, M)
  BY <1>1, <1>2, <1>4, QueueAppend
<1> HIDE DEF q, r
<1>6. AllBefore(said, ItemsIn(here, H), ItemsIn(q, M) \cup ItemsIn(r, M))
  BY <1>2, <1>3, <1>5
<1>7. AllBefore(said, ItemsIn(q, M), ItemsIn(r, M))
  BY <1>2, <1>3, <1>5 DEF AllBefore
<1>8. ItemsIn(coming, M) \cup ItemsIn(leaving, M) = ItemsIn(q, M) \cup ItemsIn(r, M)
  BY <1>3, <1>5
<1>9. Flows(w, said, here, q, r, H, M)
  BY <1>2, <1>3, <1>5, <1>6, <1>7, <1>8 DEF Flows
<1> QED
  BY <1>1, <1>9 DEF q, r

\* What was said is heard.
LEMMA FlowsIn ==
  ASSUME NEW w, NEW said, NEW S, NEW here \in Seq(S), NEW coming \in Seq(Proper), NEW leaving, NEW H, NEW M,
         Flows(w, said, here, coming, leaving, H, M), coming # <<>>,
         NEW h \in S, h.item = Head(coming).item, h \in H <=> Head(coming) \in M
  PROVE  Flows(w, said, Append(here, h), Tail(coming), leaving, H, M)
<1>1. PICK m \in Proper : m = Head(coming)
  OBVIOUS
<1> DEFINE q == Tail(coming)
           r == Append(here, h)
           x == m.item
<1>2. /\ QueueAsIn(said, here, H) /\ QueueAsIn(said, coming, M) /\ QueueAsIn(said, leaving, M)
      /\ AllBefore(said, ItemsIn(here, H), ItemsIn(coming, M) \cup ItemsIn(leaving, M))
      /\ AllBefore(said, ItemsIn(coming, M), ItemsIn(leaving, M))
  BY DEF Flows
<1>3. /\ m \in M => ItemsIn(coming, M) = ItemsIn(q, M) \cup {x}
      /\ m \notin M => ItemsIn(q, M) = ItemsIn(coming, M)
      /\ QueueAsIn(said, q, M) /\ (m \in M => \A y \in ItemsIn(q, M) : Before(said, x, y))
  BY <1>1, <1>2, QueueTail
<1>4. h \in H => \A y \in ItemsIn(here, H) : Before(said, y, h.item)
  BY <1>1, <1>2, <1>3 DEF AllBefore
<1>5. /\ m \in M => ItemsIn(r, H) = ItemsIn(here, H) \cup {x}
      /\ m \notin M => ItemsIn(r, H) = ItemsIn(here, H)
      /\ QueueAsIn(said, r, H)
  BY <1>1, <1>2, <1>4, QueueAppend
<1> HIDE DEF q, r, x
<1>6. AllBefore(said, ItemsIn(r, H), ItemsIn(q, M) \cup ItemsIn(leaving, M))
  BY <1>2, <1>3, <1>5 DEF AllBefore
<1>7. AllBefore(said, ItemsIn(q, M), ItemsIn(leaving, M))
  BY <1>2, <1>3 DEF AllBefore
<1>8. ItemsIn(here, H) \cup ItemsIn(coming, M) = ItemsIn(r, H) \cup ItemsIn(q, M)
  BY <1>3, <1>5
<1>9. Flows(w, said, r, q, leaving, H, M)
  BY <1>2, <1>3, <1>5, <1>6, <1>7, <1>8 DEF Flows
<1> QED
  BY <1>9 DEF q, r

\* More is said, and posted: by thread w or by another.
LEMMA FlowsSaid ==
  ASSUME NEW w, NEW said \in Seq(SaidItems), NEW here, NEW coming, NEW leaving \in Seq(Proper), NEW H, NEW M,
         Flows(w, said, here, coming, leaving, H, M),
         ItemsIn(here, H) \cup ItemsIn(coming, M) \cup ItemsIn(leaving, M) \subseteq ItemsOf(said),
         NEW e \in SaidItems, NEW m \in Proper, e.item = m.item
  PROVE  /\ (e.worker = w /\ e.kind # "unknown" <=> m \in M) =>
              Flows(w, Append(said, e), here, coming, Append(leaving, m), H, M)
         /\ e.worker # w => Flows(w, Append(said, e), here, coming, leaving, H, M)
<1> DEFINE more == Append(said, e)
           next == Append(leaving, m)
<1>1. /\ QueueAsIn(said, here, H) /\ QueueAsIn(said, coming, M) /\ QueueAsIn(said, leaving, M)
      /\ AllBefore(said, ItemsIn(here, H), ItemsIn(coming, M) \cup ItemsIn(leaving, M))
      /\ AllBefore(said, ItemsIn(coming, M), ItemsIn(leaving, M))
      /\ \A i \in DOMAIN said : said[i].worker = w /\ said[i].kind # "unknown" =>
            said[i].item \in ItemsIn(here, H) \cup ItemsIn(coming, M) \cup ItemsIn(leaving, M)
  BY DEF Flows
<1>2. /\ \A x, y : Before(said, x, y) => Before(more, x, y)
      /\ \A x \in ItemsOf(said) : Before(more, x, e.item)
  BY BeforeAppend
<1>3. \A i \in DOMAIN more : \/ i \in DOMAIN said /\ more[i] = said[i]
                             \/ more[i] = e
  <2>1. /\ Len(more) = Len(said) + 1 /\ Len(said) \in Nat
        /\ \A i \in 1..Len(said) : more[i] = said[i]
        /\ more[Len(said) + 1] = e
    BY OneMore
  <2>2. DOMAIN said = 1..Len(said) /\ DOMAIN more = 1..(Len(said) + 1)
    BY <2>1
  <2> QED
    BY <2>1, <2>2
<1> HIDE DEF more
<1>4. /\ QueueAsIn(more, here, H) /\ QueueAsIn(more, coming, M) /\ QueueAsIn(more, leaving, M)
      /\ AllBefore(more, ItemsIn(here, H), ItemsIn(coming, M) \cup ItemsIn(leaving, M))
      /\ AllBefore(more, ItemsIn(coming, M), ItemsIn(leaving, M))
  BY <1>1, <1>2 DEF QueueAsIn, AllBefore
<1>5. ASSUME e.worker # w PROVE Flows(w, more, here, coming, leaving, H, M)
  BY <1>1, <1>3, <1>4, <1>5 DEF Flows
<1>6. ASSUME e.worker = w /\ e.kind # "unknown" <=> m \in M
      PROVE  Flows(w, more, here, coming, next, H, M)
  <2>1. /\ m \in M => ItemsIn(next, M) = ItemsIn(leaving, M) \cup {m.item}
        /\ m \notin M => ItemsIn(next, M) = ItemsIn(leaving, M)
    BY QueueAppend
  <2>2. QueueAsIn(more, next, M)
    <3>1. \A x \in ItemsIn(leaving, M) : Before(more, x, m.item)
      BY <1>2
    <3> QED
      BY <1>4, <3>1, QueueAppend
  <2> HIDE DEF next
  <2>3. \A x \in ItemsIn(here, H) \cup ItemsIn(coming, M) : Before(more, x, m.item)
    BY <1>2
  <2>4. /\ AllBefore(more, ItemsIn(here, H), ItemsIn(coming, M) \cup ItemsIn(next, M))
        /\ AllBefore(more, ItemsIn(coming, M), ItemsIn(next, M))
    BY <1>4, <2>1, <2>3 DEF AllBefore
  <2>5. \A i \in DOMAIN more : more[i].worker = w /\ more[i].kind # "unknown" =>
            more[i].item \in ItemsIn(here, H) \cup ItemsIn(coming, M) \cup ItemsIn(next, M)
    BY <1>1, <1>3, <1>6, <2>1
  <2> QED
    BY <1>4, <2>2, <2>4, <2>5 DEF Flows
<1> QED
  BY <1>5, <1>6 DEF more

-----------------------------------------------------------------------------
\* What was said stays said.
LEMMA SaidStays ==
  ASSUME NEW said \in Seq(SaidItems), NEW e \in SaidItems
  PROVE  /\ \A w, kind, item : IsSaid(said, w, kind, item) => IsSaid(Append(said, e), w, kind, item)
         /\ IsSaid(Append(said, e), e.worker, e.kind, e.item)
<1>1. /\ Len(Append(said, e)) = Len(said) + 1 /\ Len(said) \in Nat
      /\ \A i \in 1..Len(said) : Append(said, e)[i] = said[i]
      /\ Append(said, e)[Len(said) + 1] = e
  BY OneMore
<1>2. DOMAIN said = 1..Len(said) /\ DOMAIN Append(said, e) = 1..(Len(said) + 1)
  BY <1>1
<1>3. e = [worker |-> e.worker, kind |-> e.kind, item |-> e.item]
  BY DEF SaidItems
<1> DEFINE more == Append(said, e)
<1> HIDE DEF more
<1>4. /\ \A i \in DOMAIN said : i \in DOMAIN more /\ more[i] = said[i]
      /\ Len(said) + 1 \in DOMAIN more /\ more[Len(said) + 1] = e
  BY <1>1, <1>2 DEF more
<1>5. IsSaid(more, e.worker, e.kind, e.item)
  BY <1>3, <1>4 DEF IsSaid
<1>6. \A w, kind, item : IsSaid(said, w, kind, item) => IsSaid(more, w, kind, item)
  BY <1>4 DEF IsSaid
<1> QED
  BY <1>5, <1>6 DEF more

\* Queues that agree with what was said: one more message, one less.
Backed(m, c, said) == m.type \in Kinds /\ m.child = c => IsSaid(said, m.worker, m.type, m.item)
LEMMA AgreesAppend ==
  ASSUME NEW q \in Seq(Proper), NEW m \in Proper, NEW c, NEW said,
         Agrees(q, c, said), Backed(m, c, said)
  PROVE  Agrees(Append(q, m), c, said)
<1>1. /\ Len(Append(q, m)) = Len(q) + 1 /\ Len(q) \in Nat
      /\ \A i \in 1..Len(q) : Append(q, m)[i] = q[i]
      /\ Append(q, m)[Len(q) + 1] = m
  BY OneMore
<1>2. DOMAIN q = 1..Len(q) /\ DOMAIN Append(q, m) = 1..(Len(q) + 1)
  BY <1>1
<1> DEFINE r == Append(q, m)
<1> HIDE DEF r
<1>3. \A i \in DOMAIN r : (i \in DOMAIN q /\ r[i] = q[i]) \/ r[i] = m
  BY <1>1, <1>2 DEF r
<1>4. Agrees(r, c, said)
  BY <1>3 DEF Agrees, Backed
<1> QED
  BY <1>4 DEF r

LEMMA AgreesTail ==
  ASSUME NEW q \in Seq(Proper), q # <<>>, NEW c, NEW said, Agrees(q, c, said)
  PROVE  Agrees(Tail(q), c, said) /\ Backed(Head(q), c, said)
<1>1. /\ Len(Tail(q)) = Len(q) - 1 /\ Len(q) \in Nat /\ Len(q) >= 1
      /\ \A i \in 1..(Len(q) - 1) : Tail(q)[i] = q[i + 1]
      /\ Head(q) = q[1] /\ DOMAIN q = 1..Len(q) /\ DOMAIN Tail(q) = 1..(Len(q) - 1)
  OBVIOUS
<1> DEFINE r == Tail(q)
           h == Head(q)
<1> HIDE DEF r, h
<1>2. /\ \A i \in DOMAIN r : i + 1 \in DOMAIN q /\ r[i] = q[i + 1]
      /\ 1 \in DOMAIN q /\ q[1] = h
  BY <1>1 DEF r, h
<1>3. Agrees(r, c, said) /\ Backed(h, c, said)
  BY <1>2 DEF Agrees, Backed
<1> QED
  BY <1>3 DEF r, h

LEMMA AgreesMore ==
  ASSUME NEW q, NEW c, NEW said, NEW more, Agrees(q, c, said),
         \A w, kind, item : IsSaid(said, w, kind, item) => IsSaid(more, w, kind, item)
  PROVE  Agrees(q, c, more)
BY DEF Agrees

LEMMA AgreedItems ==
  ASSUME NEW q, NEW c, NEW said, Agrees(q, c, said), NEW w
  PROVE  ItemsIn(q, SaidOf(c, w)) \subseteq ItemsOf(said)
<1> SUFFICES ASSUME NEW i \in DOMAIN q, q[i] \in SaidOf(c, w) PROVE q[i].item \in ItemsOf(said)
  BY DEF ItemsIn
<1>1. PICK j \in DOMAIN said :
        said[j] = [worker |-> q[i].worker, kind |-> q[i].type, item |-> q[i].item]
  BY DEF Agrees, SaidOf, IsSaid
<1> QED
  BY <1>1 DEF ItemsOf

-----------------------------------------------------------------------------
LEMMA HSequences ==
  ASSUME TInv
  PROVE  /\ wire \in [Workers -> Seq(Proper)] /\ mailbox \in Seq(Proper)
         /\ heard \in [Givers -> Seq(OutputCalls)] /\ child \in [Children -> ChildStates]
         /\ children \in [Numbers -> Givers \cup {NoGiver}]
         /\ \A c \in Children : child[c].said \in Seq(SaidItems) /\ c # 0 /\ c \in Numbers
<1>1. /\ wire \in [Workers -> Seq(Proper)] /\ mailbox \in Seq(Proper)
      /\ heard \in [Givers -> Seq(OutputCalls)] /\ child \in [Children -> ChildStates]
      /\ children \in [Numbers -> Givers \cup {NoGiver}]
  BY DEF TInv, TypesOfMessages, TypesOfChildren, TypesOfTables, TypesOfCalls
<1>2. \A x \in ChildStates : x.said \in Seq(SaidItems)
  BY DEF ChildStates, SaidItems
<1> QED
  BY <1>1, <1>2, Bounds DEF Numbers

\* What is registered with the number of a child is not an empty entry.
LEMMA OwnIsGiver ==
  ASSUME NEW c \in Children, NEW g, g \in Givers \cup {NoGiver}, NEW s,
         g = [session |-> s, child |-> c]
  PROVE  g \in Givers /\ g.child = c /\ g # NoGiver
<1>1. c # 0 /\ g.child = c
  BY Bounds
<1>2. NoGiver.child = 0
  BY DEF NoGiver
<1> QED
  BY <1>1, <1>2

\* A message more on the wire of a worker, or one less.
LEMMA MarkedAppend ==
  ASSUME NEW q \in Seq(Proper), NEW w, NEW m \in Proper, m.worker = w,
         \A i \in DOMAIN q : q[i].worker = w
  PROVE  \A i \in DOMAIN Append(q, m) : Append(q, m)[i].worker = w
<1>1. /\ Len(Append(q, m)) = Len(q) + 1 /\ Len(q) \in Nat
      /\ \A i \in 1..Len(q) : Append(q, m)[i] = q[i]
      /\ Append(q, m)[Len(q) + 1] = m
  BY OneMore
<1>2. DOMAIN q = 1..Len(q) /\ DOMAIN Append(q, m) = 1..(Len(q) + 1)
  BY <1>1
<1> QED
  BY <1>1, <1>2

LEMMA MarkedTail ==
  ASSUME NEW q \in Seq(Proper), q # <<>>, NEW w, \A i \in DOMAIN q : q[i].worker = w
  PROVE  Head(q).worker = w /\ \A i \in DOMAIN Tail(q) : Tail(q)[i].worker = w
<1>1. /\ Len(Tail(q)) = Len(q) - 1 /\ Len(q) \in Nat /\ Len(q) >= 1
      /\ \A i \in 1..(Len(q) - 1) : Tail(q)[i] = q[i + 1]
      /\ Head(q) = q[1] /\ DOMAIN q = 1..Len(q) /\ DOMAIN Tail(q) = 1..(Len(q) - 1)
  OBVIOUS
<1> QED
  BY <1>1

\* What was heard of a child was said, so nothing before it was asked for.
LEMMA HeardItems ==
  ASSUME NEW c \in Children, NEW g, g.child = c, HearsOwn(g), NEW w
  PROVE  /\ ItemsIn(heard[g], HeardFrom(w)) \subseteq ItemsOf(child[c].said)
         /\ child[c].said = <<>> => DOMAIN heard[g] = {}
<1>1. \A i \in DOMAIN heard[g] :
        /\ heard[g][i].child = c
        /\ IsSaid(child[c].said, heard[g][i].worker, heard[g][i].kind, heard[g][i].item)
  BY Bounds DEF HearsOwn
<1>2. ASSUME NEW i \in DOMAIN heard[g]
      PROVE  DOMAIN child[c].said # {} /\ heard[g][i].item \in ItemsOf(child[c].said)
  <2>1. PICK j \in DOMAIN child[c].said :
          child[c].said[j] = [worker |-> heard[g][i].worker, kind |-> heard[g][i].kind,
                              item |-> heard[g][i].item]
    BY <1>1 DEF IsSaid
  <2> QED
    BY <2>1 DEF ItemsOf
<1>3. ItemsIn(heard[g], HeardFrom(w)) \subseteq ItemsOf(child[c].said)
  BY <1>2 DEF ItemsIn
<1>4. DOMAIN <<>> = {}
  OBVIOUS
<1> QED
  BY <1>2, <1>3, <1>4

LEMMA HInit == Init => HInv
<1> SUFFICES ASSUME Init PROVE HInv
  OBVIOUS
<1>1. DOMAIN <<>> = {} /\ TInv
  BY TInit
<1>2. mailbox = <<>> /\ \A w \in Workers : wire[w] = <<>>
  BY DEF Init
<1>3. Marked /\ \A g \in Givers : HearsOwn(g)
  BY <1>1, <1>2 DEF Marked, HearsOwn, Init
<1>4. ASSUME NEW c \in Children PROVE Told(c) /\ OwnKeys(c) /\ Hears(c)
  <2>1. child[c].said = <<>> /\ ~child[c].whole /\ children[c] = NoGiver
    BY DEF Init, Numbers
  <2>2. Told(c)
    BY <1>1, <1>2, <2>1 DEF Told, Agrees
  <2> QED
    BY <2>1, <2>2 DEF OwnKeys, Hears, NoGiver
<1> QED
  BY <1>1, <1>3, <1>4 DEF HInv

\* Nothing is said, moves or is heard; a child may be asked for or started, and
\* callbacks registered.
Asking(c) ==
    /\ child'[c].said = child[c].said
    /\ child'[c].pc \in {"none", "requested"} => child[c].pc \in {"none", "requested"}
    /\ \/ /\ child'[c].session = child[c].session /\ child'[c].whole = child[c].whole
          /\ children'[c] = children[c] \/ children'[c].child = 0
       \/ child[c].pc = "none" /\ children'[c].child \in {0, c}

LEMMA HQuiet ==
  ASSUME HInv, TInv', UNCHANGED <<wire, mailbox, heard>>, \A c \in Children : Asking(c)
  PROVE  HInv'
<1>1. TInv
  BY DEF HInv
<1>2. Marked'
  BY DEF HInv, Marked
<1>3. ASSUME NEW g \in Givers PROVE HearsOwn(g)'
  <2>1. HearsOwn(g) /\ heard'[g] = heard[g]
    BY DEF HInv
  <2>2. \A i \in DOMAIN heard[g] : heard[g][i].child \in Children
    <3>1. heard[g] \in Seq(OutputCalls)
      BY <1>1, HSequences
    <3>2. \A i \in DOMAIN heard[g] : heard[g][i] \in OutputCalls
      BY <3>1
    <3> QED
      BY <3>2 DEF OutputCalls
  <2>3. \A i \in DOMAIN heard[g] : child'[heard[g][i].child].said = child[heard[g][i].child].said
    BY <2>2 DEF Asking
  <2> QED
    BY <2>1, <2>3 DEF HearsOwn
<1>4. ASSUME NEW c \in Children PROVE Told(c)' /\ OwnKeys(c)' /\ Hears(c)'
  <2>1. Told(c) /\ OwnKeys(c) /\ Hears(c) /\ Asking(c)
    BY <1>4 DEF HInv
  <2>2. child'[c].said = child[c].said
    BY <2>1 DEF Asking
  <2>3. Told(c)'
    BY <2>1, <2>2 DEF Told, Asking
  <2>4. OwnKeys(c)'
    BY <2>1 DEF OwnKeys, Asking
  <2>5. ASSUME child'[c].whole, children'[c] = Own(c)', NEW w \in Workers
        PROVE  Flows(w, child'[c].said, heard'[Own(c)'], mailbox', wire'[w], HeardFrom(w), SaidOf(c, w))
    <3>1. Own(c)' = [session |-> child'[c].session, child |-> c]
          /\ Own(c) = [session |-> child[c].session, child |-> c]
      BY DEF Own
    <3>2. children'[c] \in Givers /\ children'[c].child = c /\ c # 0
      <4>1. children'[c] \in Givers \cup {NoGiver}
        BY HSequences DEF TInv, TypesOfTables, Numbers
      <4> QED
        BY <2>5, <3>1, <4>1, OwnIsGiver, Bounds
    <3>3. CASE child[c].pc = "none"
      <4>1. child[c].said = <<>>
        BY <2>1, <3>3 DEF Told
      <4>2. PICK g \in Givers : g = children'[c] /\ g = Own(c)' /\ g.child = c
        BY <2>5, <3>2
      <4>3. DOMAIN heard[g] = {} /\ ItemsOf(<<>>) = {}
        <5>1. HearsOwn(g) /\ DOMAIN <<>> = {}
          BY DEF HInv
        <5> QED
          BY <4>1, <4>2, <5>1, HeardItems DEF ItemsOf
      <4>4. ItemsIn(heard[g], HeardFrom(w)) = {}
        BY <4>3 DEF ItemsIn
      <4>5. ItemsIn(mailbox, SaidOf(c, w)) = {} /\ ItemsIn(wire[w], SaidOf(c, w)) = {}
        BY <2>1, <4>1, <4>3, AgreedItems DEF Told
      <4>6. Flows(w, <<>>, heard[g], mailbox, wire[w], HeardFrom(w), SaidOf(c, w))
        BY <4>4, <4>5, FlowsEmpty
      <4> QED
        BY <2>2, <4>1, <4>2, <4>6
    <3>4. CASE child[c].pc # "none"
      <4>1. /\ child'[c].session = child[c].session /\ child'[c].whole = child[c].whole
            /\ children'[c] = children[c]
        BY <2>1, <3>2, <3>4 DEF Asking
      <4>2. Own(c)' = Own(c)
        BY <3>1, <4>1
      <4>3. Flows(w, child[c].said, heard[Own(c)], mailbox, wire[w], HeardFrom(w), SaidOf(c, w))
        BY <2>1, <2>5, <4>1, <4>2 DEF Hears
      <4> QED
        BY <2>2, <4>2, <4>3
    <3> QED
      BY <3>3, <3>4
  <2> QED
    BY <2>3, <2>4, <2>5 DEF Hears
<1> QED
  BY <1>2, <1>3, <1>4 DEF HInv

\* A message that says nothing of a child is posted.
LEMMA HPosted ==
  ASSUME HInv, TInv', NEW w \in Workers, NEW m \in Proper, m.worker = w, m.type \notin Kinds,
         wire' = [wire EXCEPT ![w] = Append(wire[w], m)],
         UNCHANGED <<mailbox, heard, child, children>>
  PROVE  HInv'
<1>1. TInv /\ wire \in [Workers -> Seq(Proper)] /\ mailbox \in Seq(Proper)
  BY HSequences DEF HInv
<1>2. \A v \in Workers : wire'[v] = IF v = w THEN Append(wire[w], m) ELSE wire[v]
  BY <1>1
<1>3. Marked'
  BY <1>1, <1>2, MarkedAppend DEF HInv, Marked
<1>4. ASSUME NEW g \in Givers PROVE HearsOwn(g)'
  BY DEF HInv, HearsOwn
<1>5. ASSUME NEW c \in Children PROVE Told(c)' /\ OwnKeys(c)' /\ Hears(c)'
  <2>1. Told(c) /\ OwnKeys(c) /\ Hears(c)
    BY DEF HInv
  <2>2. \A v \in Workers : Agrees(wire'[v], c, child[c].said)
    <3>1. Backed(m, c, child[c].said) /\ Agrees(wire[w], c, child[c].said)
      BY <2>1 DEF Backed, Told
    <3>2. Agrees(Append(wire[w], m), c, child[c].said)
      BY <1>1, <3>1, AgreesAppend
    <3> QED
      BY <1>2, <2>1, <3>2 DEF Told
  <2>3. Told(c)' /\ OwnKeys(c)'
    BY <2>1, <2>2 DEF Told, OwnKeys
  <2>4. ASSUME child[c].whole, children[c] = Own(c), NEW v \in Workers
        PROVE  Flows(v, child[c].said, heard[Own(c)], mailbox, wire'[v], HeardFrom(v), SaidOf(c, v))
    <3>1. Flows(v, child[c].said, heard[Own(c)], mailbox, wire[v], HeardFrom(v), SaidOf(c, v))
      BY <2>1, <2>4 DEF Hears
    <3>2. m \notin SaidOf(c, v)
      BY DEF SaidOf
    <3>3. Flows(v, child[c].said, heard[Own(c)], mailbox, Append(wire[v], m), HeardFrom(v), SaidOf(c, v))
      BY <1>1, <3>1, <3>2, FlowsOther
    <3> QED
      BY <1>2, <3>1, <3>3
  <2>5. Own(c)' = Own(c)
    BY DEF Own
  <2> QED
    BY <2>3, <2>4, <2>5 DEF Hears
<1> QED
  BY <1>3, <1>4, <1>5 DEF HInv

LEMMA HDeliver == ASSUME HInv, TInv', NEW w \in Workers, Deliver(w) PROVE HInv'
<1>1. TInv /\ wire \in [Workers -> Seq(Proper)] /\ mailbox \in Seq(Proper)
  BY HSequences DEF HInv
<1>2. /\ wire[w] # <<>> /\ mailbox' = Append(mailbox, Head(wire[w]))
      /\ wire' = [wire EXCEPT ![w] = Tail(wire[w])]
      /\ UNCHANGED <<heard, child, children>>
  BY DEF Deliver, worker, tables
<1>3. PICK m \in Proper : m = Head(wire[w])
  BY <1>1, <1>2, Shrinks
<1>4. \A v \in Workers : wire'[v] = IF v = w THEN Tail(wire[w]) ELSE wire[v]
  BY <1>1, <1>2
<1>5. m.worker = w /\ \A i \in DOMAIN Tail(wire[w]) : Tail(wire[w])[i].worker = w
  <2>1. \A i \in DOMAIN wire[w] : wire[w][i].worker = w
    BY DEF HInv, Marked
  <2> QED
    BY <1>1, <1>2, <1>3, <2>1, MarkedTail
<1>6. Marked'
  BY <1>4, <1>5 DEF HInv, Marked
<1>7. ASSUME NEW g \in Givers PROVE HearsOwn(g)'
  BY <1>2 DEF HInv, HearsOwn
<1>8. ASSUME NEW c \in Children PROVE Told(c)' /\ OwnKeys(c)' /\ Hears(c)'
  <2>1. Told(c) /\ OwnKeys(c) /\ Hears(c)
    BY DEF HInv
  <2>2. Agrees(Tail(wire[w]), c, child[c].said) /\ Backed(m, c, child[c].said)
    BY <1>1, <1>2, <1>3, <2>1, AgreesTail DEF Told
  <2>3. Agrees(mailbox', c, child[c].said)
    BY <1>1, <1>2, <1>3, <2>1, <2>2, AgreesAppend DEF Told
  <2>4. Told(c)' /\ OwnKeys(c)'
    BY <1>2, <1>4, <2>1, <2>2, <2>3 DEF Told, OwnKeys
  <2>5. ASSUME child[c].whole, children[c] = Own(c), NEW v \in Workers
        PROVE  Flows(v, child[c].said, heard[Own(c)], mailbox', wire'[v], HeardFrom(v), SaidOf(c, v))
    <3>1. Flows(v, child[c].said, heard[Own(c)], mailbox, wire[v], HeardFrom(v), SaidOf(c, v))
          /\ wire[v] \in Seq(Proper)
      BY <1>1, <2>1, <2>5 DEF Hears
    <3>2. CASE v # w
      <4>1. m \notin SaidOf(c, v)
        BY <1>5, <3>2 DEF SaidOf
      <4>2. Flows(v, child[c].said, heard[Own(c)], Append(mailbox, m), wire[v], HeardFrom(v), SaidOf(c, v))
        BY <1>1, <3>1, <4>1, FlowsOther
      <4> QED
        BY <1>2, <1>3, <1>4, <3>2, <4>2
    <3>3. CASE v = w /\ m \in SaidOf(c, v)
      <4>1. Flows(v, child[c].said, heard[Own(c)], Append(mailbox, m), Tail(wire[v]), HeardFrom(v), SaidOf(c, v))
        BY <1>1, <1>2, <1>3, <3>1, <3>3, FlowsOn
      <4> QED
        BY <1>2, <1>3, <1>4, <3>3, <4>1
    <3>4. CASE v = w /\ m \notin SaidOf(c, v)
      <4>1. Flows(v, child[c].said, heard[Own(c)], Append(mailbox, m), Tail(wire[v]), HeardFrom(v), SaidOf(c, v))
        BY <1>1, <1>2, <1>3, <3>1, <3>4, FlowsOther
      <4> QED
        BY <1>2, <1>3, <1>4, <3>4, <4>1
    <3> QED
      BY <3>2, <3>3, <3>4
  <2>6. Own(c)' = Own(c)
    BY <1>2 DEF Own
  <2> QED
    BY <1>2, <2>4, <2>5, <2>6 DEF Hears
<1> QED
  BY <1>6, <1>7, <1>8 DEF HInv

\* A message that says nothing of a child is executed.
LEMMA HTakesOther ==
  ASSUME HInv, TInv', NEW type, type \notin Kinds, Receive(type), heard' = heard
  PROVE  HInv'
<1>1. /\ TInv /\ wire \in [Workers -> Seq(Proper)] /\ mailbox \in Seq(Proper)
      /\ mailbox # <<>> /\ mailbox' = Tail(mailbox) /\ Head(mailbox).type \notin Kinds
      /\ UNCHANGED <<wire, heard, child, children>>
  BY HSequences DEF HInv, Receive, Msg, worker
<1>2. Marked'
  BY <1>1 DEF HInv, Marked
<1>3. ASSUME NEW g \in Givers PROVE HearsOwn(g)'
  BY <1>1 DEF HInv, HearsOwn
<1>4. ASSUME NEW c \in Children PROVE Told(c)' /\ OwnKeys(c)' /\ Hears(c)'
  <2>1. Told(c) /\ OwnKeys(c) /\ Hears(c)
    BY DEF HInv
  <2>2. Agrees(mailbox', c, child[c].said)
    BY <1>1, <2>1, AgreesTail DEF Told
  <2>3. Told(c)' /\ OwnKeys(c)'
    BY <1>1, <2>1, <2>2 DEF Told, OwnKeys
  <2>4. ASSUME child[c].whole, children[c] = Own(c), NEW v \in Workers
        PROVE  Flows(v, child[c].said, heard[Own(c)], mailbox', wire[v], HeardFrom(v), SaidOf(c, v))
    <3>1. Flows(v, child[c].said, heard[Own(c)], mailbox, wire[v], HeardFrom(v), SaidOf(c, v))
      BY <2>1, <2>4 DEF Hears
    <3>2. Head(mailbox) \notin SaidOf(c, v) /\ wire[v] \in Seq(Proper)
      BY <1>1 DEF SaidOf
    <3> QED
      BY <1>1, <3>1, <3>2, FlowsOther
  <2>5. Own(c)' = Own(c)
    BY <1>1 DEF Own
  <2> QED
    BY <1>1, <2>3, <2>4, <2>5 DEF Hears
<1> QED
  BY <1>2, <1>3, <1>4 DEF HInv


\* A function registered under the number of a child is called.
LEMMA HExecuteChildOutput == ASSUME HInv, TInv', ExecuteChildOutput PROVE HInv'
<1>1. PICK kind \in Kinds : Receive(kind)
  BY DEF ExecuteChildOutput
<1>2. /\ TInv /\ wire \in [Workers -> Seq(Proper)] /\ mailbox \in Seq(Proper)
      /\ heard \in [Givers -> Seq(OutputCalls)] /\ children \in [Numbers -> Givers \cup {NoGiver}]
      /\ mailbox # <<>> /\ mailbox' = Tail(mailbox)
      /\ UNCHANGED <<wire, child, children>>
  BY <1>1, HSequences DEF HInv, Receive, worker
<1>3. PICK m \in Proper : m = Head(mailbox) /\ m.type = kind
  BY <1>1, <1>2, TReceived DEF Msg
<1>4. PICK c \in Children : c = m.child
  BY <1>3 DEF Proper, Messages
<1>5. PICK g \in Givers \cup {NoGiver} : g = children[c]
  BY <1>2 DEF Numbers
<1> DEFINE h == [child |-> c, worker |-> m.worker, kind |-> m.type, item |-> m.item]
<1>6. m.worker \in Workers /\ m.item \in 1..MaxPosted
  BY <1>3 DEF Proper, Messages
<1>7. /\ h.child = c /\ h.worker = m.worker /\ h.kind = m.type /\ h.item = m.item
      /\ m.type # "unknown" => h \in OutputCalls
  BY <1>3, <1>6 DEF OutputCalls
<1>8. \/ g # NoGiver /\ m.type # "unknown" /\ heard' = [heard EXCEPT ![g] = Append(heard[g], h)]
      \/ (g = NoGiver \/ m.type = "unknown") /\ heard' = heard
  BY <1>3, <1>4, <1>5 DEF ExecuteChildOutput, Hear, Msg
<1> HIDE DEF h
<1>9. ASSUME NEW o \in Givers
      PROVE  \/ o = g /\ m.type # "unknown" /\ heard'[o] = Append(heard[o], h)
             \/ (o # g \/ m.type = "unknown") /\ heard'[o] = heard[o]
  <2>1. CASE g # NoGiver /\ m.type # "unknown" /\ heard' = [heard EXCEPT ![g] = Append(heard[g], h)]
    BY <1>2, <2>1
  <2>2. CASE (g = NoGiver \/ m.type = "unknown") /\ heard' = heard
    <3>1. NoGiver \notin Givers
      BY Bounds DEF NoGiver, Givers
    <3> QED
      BY <2>2, <3>1
  <2> QED
    BY <1>8, <2>1, <2>2
<1>10. Told(c) /\ OwnKeys(c)
  BY DEF HInv
<1>11. IsSaid(child[c].said, m.worker, m.type, m.item)
  <2>1. Backed(m, c, child[c].said)
    BY <1>2, <1>3, <1>10, AgreesTail DEF Told
  <2> QED
    BY <1>3, <1>4, <2>1 DEF Backed
<1>12. Marked'
  BY <1>2 DEF HInv, Marked
<1>13. ASSUME NEW o \in Givers PROVE HearsOwn(o)'
  <2>1. HearsOwn(o)
    BY DEF HInv
  <2>2. CASE heard'[o] = heard[o]
    BY <1>2, <2>1, <2>2 DEF HearsOwn
  <2>3. CASE o = g /\ m.type # "unknown" /\ heard'[o] = Append(heard[o], h)
    <3>1. /\ o.child # 0 => h.child = o.child
          /\ IsSaid(child[h.child].said, h.worker, h.kind, h.item)
      BY <1>5, <1>7, <1>10, <1>11, <2>3 DEF OwnKeys
    <3>2. \A i \in DOMAIN Append(heard[o], h) :
            \/ i \in DOMAIN heard[o] /\ Append(heard[o], h)[i] = heard[o][i]
            \/ Append(heard[o], h)[i] = h
      <4>1. heard[o] \in Seq(OutputCalls) /\ h \in OutputCalls
        BY <1>2, <1>7, <2>3
      <4>2. /\ Len(Append(heard[o], h)) = Len(heard[o]) + 1 /\ Len(heard[o]) \in Nat
            /\ \A i \in 1..Len(heard[o]) : Append(heard[o], h)[i] = heard[o][i]
            /\ Append(heard[o], h)[Len(heard[o]) + 1] = h
        BY <4>1, OneMore
      <4>3. DOMAIN heard[o] = 1..Len(heard[o]) /\ DOMAIN Append(heard[o], h) = 1..(Len(heard[o]) + 1)
        BY <4>1, <4>2
      <4> QED
        BY <4>2, <4>3
    <3> DEFINE q == Append(heard[o], h)
    <3> HIDE DEF q
    <3>3. \A i \in DOMAIN q :
            /\ o.child # 0 => q[i].child = o.child
            /\ IsSaid(child[q[i].child].said, q[i].worker, q[i].kind, q[i].item)
      BY <2>1, <3>1, <3>2 DEF HearsOwn, q
    <3>4. heard'[o] = q /\ child' = child
      BY <1>2, <2>3 DEF q
    <3> QED
      BY <3>3, <3>4 DEF HearsOwn
  <2> QED
    BY <1>9, <2>2, <2>3
<1>14. ASSUME NEW d \in Children PROVE Told(d)' /\ OwnKeys(d)' /\ Hears(d)'
  <2>1. Told(d) /\ OwnKeys(d) /\ Hears(d)
    BY DEF HInv
  <2>2. Agrees(mailbox', d, child[d].said)
    BY <1>2, <2>1, AgreesTail DEF Told
  <2>3. Told(d)' /\ OwnKeys(d)'
    BY <1>2, <2>1, <2>2 DEF Told, OwnKeys
  <2>4. ASSUME child[d].whole, children[d] = Own(d), NEW v \in Workers
        PROVE  Flows(v, child[d].said, heard'[Own(d)], mailbox', wire[v], HeardFrom(v), SaidOf(d, v))
    <3>1. Flows(v, child[d].said, heard[Own(d)], mailbox, wire[v], HeardFrom(v), SaidOf(d, v))
          /\ wire[v] \in Seq(Proper)
      BY <1>2, <2>1, <2>4 DEF Hears
    <3>2. PICK o \in Givers : o = Own(d) /\ o = children[d] /\ o.child = d
      <4>1. children[d] \in Givers \cup {NoGiver}
        BY <1>2 DEF Numbers
      <4> QED
        BY <2>4, <4>1, OwnIsGiver DEF Own
    <3>3. CASE m \in SaidOf(d, v)
      <4>1. d = c /\ m.type # "unknown" /\ m.worker = v /\ o = g
        BY <1>4, <1>5, <3>2, <3>3 DEF SaidOf
      <4>2. heard'[o] = Append(heard[o], h) /\ h \in HeardFrom(v) /\ h \in OutputCalls
            /\ heard[o] \in Seq(OutputCalls)
        BY <1>2, <1>7, <1>9, <4>1 DEF HeardFrom
      <4>3. Flows(v, child[d].said, Append(heard[o], h), Tail(mailbox), wire[v], HeardFrom(v), SaidOf(d, v))
        BY <1>2, <1>3, <1>7, <3>1, <3>2, <3>3, <4>2, FlowsIn
      <4> QED
        BY <1>2, <3>2, <4>2, <4>3
    <3>4. CASE m \notin SaidOf(d, v) /\ heard'[o] = heard[o]
      <4>1. Flows(v, child[d].said, heard[o], Tail(mailbox), wire[v], HeardFrom(v), SaidOf(d, v))
        BY <1>2, <1>3, <3>1, <3>2, <3>4, FlowsOther
      <4> QED
        BY <1>2, <3>2, <3>4, <4>1
    <3>5. CASE m \notin SaidOf(d, v) /\ heard'[o] # heard[o]
      <4>1. o = g /\ m.type # "unknown" /\ heard'[o] = Append(heard[o], h)
        BY <1>9, <3>5
      <4>2. d = c
        BY <1>5, <1>10, <3>2, <4>1, Bounds DEF OwnKeys
      <4>3. m.worker # v
        BY <1>3, <1>4, <3>5, <4>1, <4>2 DEF SaidOf, Proper
      <4>4. h \notin HeardFrom(v) /\ h \in OutputCalls /\ heard[o] \in Seq(OutputCalls)
        BY <1>2, <1>7, <4>1, <4>3 DEF HeardFrom
      <4>5. Flows(v, child[d].said, Append(heard[o], h), Tail(mailbox), wire[v], HeardFrom(v), SaidOf(d, v))
        BY <1>2, <1>3, <1>7, <3>1, <3>2, <3>5, <4>4, FlowsIn
      <4> QED
        BY <1>2, <3>2, <4>1, <4>5
    <3> QED
      BY <3>3, <3>4, <3>5
  <2>5. Own(d)' = Own(d)
    BY <1>2 DEF Own
  <2> QED
    BY <1>2, <2>3, <2>4, <2>5 DEF Hears
<1> QED
  BY <1>12, <1>13, <1>14 DEF HInv

\* A thread says something of a child.
LEMMA HChildOutput ==
  ASSUME HInv, TInv', NEW w \in Workers, NEW c \in Children, NEW kind \in Kinds, ChildOutput(w, c, kind)
  PROVE  HInv'
<1> DEFINE n == Len(child[c].said) + 1
           e == [worker |-> w, kind |-> kind, item |-> n]
           m == [type |-> kind, worker |-> w, session |-> child[c].session, child |-> c, item |-> n]
<1>1. /\ TInv /\ wire \in [Workers -> Seq(Proper)] /\ mailbox \in Seq(Proper)
      /\ heard \in [Givers -> Seq(OutputCalls)] /\ child[c].said \in Seq(SaidItems)
  BY HSequences DEF HInv
<1>2. /\ e \in SaidItems /\ n \in 1..MaxPosted /\ Post(w, kind, child[c].session, c, n)
      /\ child'[c].said = Append(child[c].said, e) /\ child'[c].session = child[c].session
      /\ child'[c].whole = child[c].whole
      /\ child'[c].pc = IF kind = "exit" THEN "ended" ELSE child[c].pc
      /\ \A d \in Children : d # c => child'[d] = child[d]
  BY <1>1, SaidMore DEF TInv, IInv
<1>3. /\ wire' = [wire EXCEPT ![w] = Append(wire[w], m)] /\ child[c].pc = "running"
      /\ UNCHANGED <<mailbox, heard, children>>
  BY <1>2 DEF ChildOutput, Post, NotTheProgram, tables
<1>4. m \in Proper
  <2>1. child[c].session \in Sessions
    BY <1>1, <1>3 DEF TInv, TypesOfChildren, Asked
  <2>2. n \in 0..(LastClose + MaxPosted) /\ c # 0
    BY <1>2, Bounds
  <2> QED
    BY <1>2, <2>1, <2>2 DEF Proper, Messages, Input, Kinds
<1>5. /\ m.worker = w /\ m.type = kind /\ m.child = c /\ m.item = n
      /\ e.worker = w /\ e.kind = kind /\ e.item = n
  OBVIOUS
<1> HIDE DEF m, e, n
<1>6. \A v \in Workers : wire'[v] = IF v = w THEN Append(wire[w], m) ELSE wire[v]
  BY <1>1, <1>3
<1>7. /\ \A v, k, x : IsSaid(child[c].said, v, k, x) => IsSaid(child'[c].said, v, k, x)
      /\ IsSaid(child'[c].said, w, kind, n)
  BY <1>1, <1>2, <1>5, SaidStays
<1>8. Marked'
  <2>1. \A v \in Workers : \A i \in DOMAIN wire[v] : wire[v][i].worker = v
    BY DEF HInv, Marked
  <2>2. \A i \in DOMAIN Append(wire[w], m) : Append(wire[w], m)[i].worker = w
    BY <1>1, <1>4, <1>5, <2>1, MarkedAppend
  <2> QED
    BY <1>6, <2>1, <2>2 DEF Marked
<1>9. ASSUME NEW d \in Children
      PROVE  \A v, k, x : IsSaid(child[d].said, v, k, x) => IsSaid(child'[d].said, v, k, x)
  BY <1>2, <1>7
<1>10. ASSUME NEW g \in Givers PROVE HearsOwn(g)'
  <2>1. HearsOwn(g) /\ heard'[g] = heard[g]
    BY <1>3 DEF HInv
  <2>2. \A i \in DOMAIN heard[g] : heard[g][i].child \in Children
    <3>1. heard[g] \in Seq(OutputCalls)
      BY <1>1
    <3>2. \A i \in DOMAIN heard[g] : heard[g][i] \in OutputCalls
      BY <3>1
    <3> QED
      BY <3>2 DEF OutputCalls
  <2> QED
    BY <1>9, <2>1, <2>2 DEF HearsOwn
<1>11. ASSUME NEW d \in Children PROVE Told(d)' /\ OwnKeys(d)' /\ Hears(d)'
  <2>1. Told(d) /\ OwnKeys(d) /\ Hears(d)
    BY DEF HInv
  <2>2. /\ Agrees(mailbox, d, child'[d].said)
        /\ \A v \in Workers : Agrees(wire[v], d, child'[d].said)
    BY <1>9, <2>1, AgreesMore DEF Told
  <2>3. Backed(m, d, child'[d].said)
    BY <1>5, <1>7 DEF Backed
  <2>4. Agrees(Append(wire[w], m), d, child'[d].said)
    BY <1>1, <1>4, <2>2, <2>3, AgreesAppend
  <2>5. child'[d].pc \in {"none", "requested"} => child'[d].said = <<>>
    BY <1>2, <1>3, <2>1 DEF Told
  <2>6. Told(d)' /\ OwnKeys(d)'
    BY <1>3, <1>6, <2>1, <2>2, <2>4, <2>5 DEF Told, OwnKeys
  <2>7. Own(d)' = Own(d) /\ child'[d].whole = child[d].whole
    BY <1>2 DEF Own
  <2>8. ASSUME child[d].whole, children[d] = Own(d), NEW v \in Workers
        PROVE  Flows(v, child'[d].said, heard[Own(d)], mailbox, wire'[v], HeardFrom(v), SaidOf(d, v))
    <3>1. Flows(v, child[d].said, heard[Own(d)], mailbox, wire[v], HeardFrom(v), SaidOf(d, v))
          /\ wire[v] \in Seq(Proper)
      BY <1>1, <2>1, <2>8 DEF Hears
    <3>2. PICK o \in Givers : o = Own(d) /\ o.child = d
      <4>1. children[d] \in Givers \cup {NoGiver}
        BY <1>1, HSequences
      <4> QED
        BY <2>8, <4>1, OwnIsGiver DEF Own
    <3>3. CASE d # c
      <4>1. m \notin SaidOf(d, v) /\ child'[d] = child[d]
        BY <1>2, <1>5, <3>3 DEF SaidOf
      <4>2. Flows(v, child[d].said, heard[Own(d)], mailbox, Append(wire[v], m), HeardFrom(v), SaidOf(d, v))
        BY <1>1, <1>4, <3>1, <4>1, FlowsOther
      <4> QED
        BY <1>6, <3>1, <4>1, <4>2
    <3>4. CASE d = c
      <4>1. ItemsIn(heard[o], HeardFrom(v)) \cup ItemsIn(mailbox, SaidOf(c, v))
              \cup ItemsIn(wire[v], SaidOf(c, v)) \subseteq ItemsOf(child[c].said)
        <5>1. ItemsIn(heard[o], HeardFrom(v)) \subseteq ItemsOf(child[c].said)
          BY <3>2, <3>4, HeardItems DEF HInv
        <5>2. ItemsIn(mailbox, SaidOf(c, v)) \subseteq ItemsOf(child[c].said)
              /\ ItemsIn(wire[v], SaidOf(c, v)) \subseteq ItemsOf(child[c].said)
          BY <2>1, <3>4, AgreedItems DEF Told
        <5> QED
          BY <5>1, <5>2
      <4>2. CASE v = w
        <5>1. e.worker = v /\ e.kind # "unknown" <=> m \in SaidOf(c, v)
          BY <1>4, <1>5, <4>2 DEF SaidOf, Proper
        <5>2. Flows(v, Append(child[c].said, e), heard[o], mailbox, Append(wire[v], m), HeardFrom(v),
                    SaidOf(c, v))
          BY <1>1, <1>2, <1>4, <1>5, <3>1, <3>2, <3>4, <4>1, <5>1, FlowsSaid
        <5> QED
          BY <1>2, <1>6, <3>2, <3>4, <4>2, <5>2
      <4>3. CASE v # w
        <5>1. Flows(v, Append(child[c].said, e), heard[o], mailbox, wire[v], HeardFrom(v), SaidOf(c, v))
          BY <1>1, <1>2, <1>4, <1>5, <3>1, <3>2, <3>4, <4>1, <4>3, FlowsSaid
        <5> QED
          BY <1>2, <1>6, <3>2, <3>4, <4>3, <5>1
      <4> QED
        BY <4>2, <4>3
    <3> QED
      BY <3>3, <3>4
  <2> QED
    BY <1>3, <2>6, <2>7, <2>8 DEF Hears
<1> QED
  BY <1>8, <1>10, <1>11 DEF HInv

LEMMA LastIsIn ==
  ASSUME NEW S, NEW q \in Seq(S), NEW m, Append(q, m) \in Seq(S)
  PROVE  m \in S
<1>1. Len(q) + 1 \in DOMAIN Append(q, m) /\ Append(q, m)[Len(q) + 1] = m
  OBVIOUS
<1> DEFINE r == Append(q, m)
           n == Len(q) + 1
<1> HIDE DEF r, n
<1>2. n \in DOMAIN r /\ r[n] = m
  BY <1>1 DEF r, n
<1>3. r[n] \in S
  BY <1>2 DEF r
<1> QED
  BY <1>2, <1>3

LEMMA HProgram ==
  ASSUME HInv, TInv', NEW w \in Workers, NEW s \in Sessions, Program(w, s)
  PROVE  HInv'
<1>1. ASSUME NEW type, type \notin Kinds, NEW item, Post(w, type, s, 0, item),
             UNCHANGED <<mailbox, heard, child, children>>
      PROVE  HInv'
  <2> DEFINE m == [type |-> type, worker |-> w, session |-> s, child |-> 0, item |-> item]
  <2>1. /\ wire \in [Workers -> Seq(Proper)] /\ wire' \in [Workers -> Seq(Proper)]
        /\ wire' = [wire EXCEPT ![w] = Append(wire[w], m)]
    BY <1>1 DEF Post, HInv, TInv, TypesOfMessages
  <2>2. m.type = type /\ m.worker = w
    OBVIOUS
  <2> HIDE DEF m
  <2>3. Append(wire[w], m) \in Seq(Proper)
    <3>1. wire'[w] = Append(wire[w], m) /\ wire'[w] \in Seq(Proper)
      BY <2>1
    <3> QED
      BY <3>1
  <2>4. m \in Proper
    BY <2>1, <2>3, LastIsIn
  <2> QED
    BY <1>1, <2>1, <2>2, <2>4, HPosted
<1>2. ASSUME NEW type \in Input, NEW item, Send(w, s, type, item) PROVE HInv'
  <2>1. Post(w, type, s, 0, item) /\ UNCHANGED <<mailbox, heard, child, children>>
    BY <1>2 DEF Send, NotTheProgram, tables
  <2>2. type \notin Kinds
    BY DEF Input, Kinds
  <2> QED
    BY <1>1, <2>1, <2>2
<1>3. CASE Start(w, s)
  <2>1. Post(w, "start", s, 0, 0) /\ UNCHANGED <<mailbox, heard, child, children>>
    BY <1>3 DEF Start, NotTheProgram, tables
  <2>2. "start" \notin Kinds
    BY DEF Kinds
  <2> QED
    BY <1>1, <2>1, <2>2
<1>4. "write" \in Input /\ "close" \in Input /\ "signal" \in Input
  BY DEF Input
<1> QED
  BY <1>2, <1>3, <1>4 DEF Program, Write, CloseStdin, Kill

\* Nothing changes for the children.
LEMMA HIdle ==
  ASSUME HInv, TInv', UNCHANGED <<wire, mailbox, heard, child, children>>
  PROVE  HInv'
<1>1. \A c \in Children : Asking(c)
  BY DEF Asking
<1> QED
  BY <1>1, HQuiet

LEMMA HExecute == ASSUME HInv, TInv', Execute PROVE HInv'
<1>1. ASSUME NEW type \in {"start", "write", "close", "signal"}, Receive(type), heard' = heard
      PROVE  HInv'
  BY <1>1, HTakesOther DEF Kinds
<1>2. CASE ExecuteStart
  BY <1>1, <1>2 DEF ExecuteStart
<1>3. CASE ExecuteWrite
  BY <1>1, <1>3 DEF ExecuteWrite
<1>4. CASE ExecuteClose
  BY <1>1, <1>4 DEF ExecuteClose
<1>5. CASE ExecuteSignal
  BY <1>1, <1>5 DEF ExecuteSignal
<1> QED
  BY <1>2, <1>3, <1>4, <1>5, HExecuteChildOutput DEF Execute

LEMMA HHandler == ASSUME HInv, TInv', NEW s \in Sessions, Handler(s) PROVE HInv'
<1>1. /\ child \in [Children -> ChildStates] /\ children \in [Numbers -> Givers \cup {NoGiver}]
      /\ s \in Numbers /\ \A c \in Children : c \in Numbers
  BY HSequences DEF HInv, Numbers
<1>2. CASE Settle(s)
  <2>1. UNCHANGED <<wire, mailbox, heard, child, children>>
    BY <1>2 DEF Settle, worker, tables
  <2> QED
    BY <2>1, HIdle
<1>3. CASE SetStdinWriter(s) \/ SetKillFunction(s)
  <2>1. UNCHANGED <<wire, mailbox, heard, child, children>>
    BY <1>3 DEF SetStdinWriter, SetKillFunction, Setter, Js
  <2> QED
    BY <2>1, HIdle
<1>4. CASE SetChildOutputHandlers(s)
  <2>1. /\ UNCHANGED <<wire, mailbox, heard, child>>
        /\ children' = [children EXCEPT ![s] = [session |-> s, child |-> 0]]
    BY <1>4 DEF SetChildOutputHandlers, Setter, Js
  <2>2. \A c \in Children : children'[c] = children[c] \/ children'[c].child = 0
    BY <1>1, <2>1
  <2>3. \A c \in Children : Asking(c)
    BY <2>1, <2>2 DEF Asking
  <2> QED
    BY <2>1, <2>3, HQuiet
<1>5. ASSUME NEW c \in Children, NEW whole \in BOOLEAN, RequestSpawn(s, c, whole) PROVE HInv'
  <2> DEFINE new == [child[c] EXCEPT !.pc = "requested", !.session = s, !.whole = whole]
  <2>1. /\ UNCHANGED <<wire, mailbox, heard>> /\ child[c].pc = "none"
        /\ child' = [child EXCEPT ![c] = new]
        /\ \/ children' = children
           \/ children' = [children EXCEPT ![c] = [session |-> s, child |-> c]]
    BY <1>5 DEF RequestSpawn, Js
  <2>2. new.said = child[c].said
    BY <1>1 DEF ChildStates
  <2> HIDE DEF new
  <2>3. ASSUME NEW d \in Children PROVE Asking(d)
    <3>1. CASE d = c
      <4>1. children'[c] = children[c] \/ children'[c].child = c
        BY <1>1, <2>1
      <4>2. children[c].child \in {0, c}
        BY DEF HInv, OwnKeys
      <4>3. child'[c].said = child[c].said
        BY <1>1, <2>1, <2>2
      <4> QED
        BY <2>1, <3>1, <4>1, <4>2, <4>3 DEF Asking
    <3>2. CASE d # c
      <4>1. children'[d] = children[d] /\ child'[d] = child[d]
        BY <1>1, <2>1, <3>2
      <4> QED
        BY <4>1 DEF Asking
    <3> QED
      BY <3>1, <3>2
  <2> QED
    BY <2>1, <2>3, HQuiet
<1>6. ASSUME NEW c \in Children, SpawnControl(s, c) PROVE HInv'
  <2>1. UNCHANGED <<wire, mailbox, heard, child, children>>
    BY <1>6 DEF SpawnControl, Js
  <2> QED
    BY <2>1, HIdle
<1> QED
  BY <1>2, <1>3, <1>4, <1>5, <1>6 DEF Handler

LEMMA HReadRequest == ASSUME HInv, TInv', NEW s \in Sessions, ReadRequest(s) PROVE HInv'
<1>1. UNCHANGED <<wire, mailbox, heard, children>>
  BY DEF ReadRequest, NotTheProgram, tables
<1>2. \A c \in Children : /\ child'[c].said = child[c].said /\ child'[c].session = child[c].session
                          /\ child'[c].whole = child[c].whole
                          /\ child'[c].pc \in {child[c].pc, "running"}
  BY ChildStarts DEF HInv, TInv, IInv
<1>3. \A c \in Children : Asking(c)
  BY <1>1, <1>2 DEF Asking
<1> QED
  BY <1>1, <1>3, HQuiet

LEMMA HStep == HInv /\ [Next]_vars => HInv'
<1> SUFFICES ASSUME HInv, [Next]_vars PROVE HInv'
  OBVIOUS
<1>1. TInv'
  BY TStep DEF HInv
<1>2. CASE UNCHANGED vars
  <2>1. UNCHANGED <<wire, mailbox, heard, child, children>>
    BY <1>2 DEF vars, worker, tables
  <2> QED
    BY <1>1, <2>1, HIdle
<1>3. CASE Return
  <2>1. UNCHANGED <<wire, mailbox, heard, child, children>>
    BY <1>3 DEF Return, worker, tables
  <2> QED
    BY <1>1, <2>1, HIdle
<1> QED
  BY <1>1, <1>2, <1>3, HProgram, HChildOutput, HDeliver, HExecute, HReadRequest, HHandler DEF Next

\* ChildHears of the model: the functions given for a child hear of this child
\* alone, only what a thread said of it, and all that was said and is not on
\* its way any more, in the order in which each thread said it.
THEOREM ChildIsHeard == Spec => []ChildHears
<1>1. HInv => ChildHears
  <2> SUFFICES ASSUME HInv, NEW c \in Children, child[c].whole, children[c] = Own(c)
               PROVE  /\ \A i \in DOMAIN heard[Own(c)] :
                           LET call == heard[Own(c)][i]
                           IN call.child = c /\ IsSaid(child[c].said, call.worker, call.kind, call.item)
                      /\ \A w \in Workers : Flows(w, child[c].said, heard[Own(c)], mailbox, wire[w],
                                                 HeardFrom(w), SaidOf(c, w))
    BY DEF ChildHears
  <2>1. PICK g \in Givers : g = Own(c) /\ g.child = c
    <3>1. children[c] \in Givers \cup {NoGiver}
      BY HSequences DEF HInv
    <3> QED
      BY <3>1, OwnIsGiver DEF Own
  <2>2. HearsOwn(g) /\ Hears(c)
    BY DEF HInv
  <2>3. \A i \in DOMAIN heard[g] :
          /\ heard[g][i].child = c
          /\ IsSaid(child[c].said, heard[g][i].worker, heard[g][i].kind, heard[g][i].item)
    BY <2>1, <2>2, Bounds DEF HearsOwn
  <2> QED
    BY <2>1, <2>2, <2>3 DEF Hears
<1> QED
  BY <1>1, HInit, HStep, PTL DEF Spec
=============================================================================

------------------------- MODULE NetReconnectProofs -------------------------
(***************************************************************************)
(* The back-off of the loop, the messages for which a socket panics, and   *)
(* the types with the number of messages Reconnect, for every number of    *)
(* sockets, requests and messages and for channels of every size.          *)
(***************************************************************************)
EXTENDS NetReconnect, SequenceTheorems, FiniteSetTheorems, TLAPS

Data == {"data", "empty", "bad"}

\* What the invariants need of the types.
Types ==
    /\ loop \in {"wait", "open", "connect", "send"}
    /\ cur \in 0..MaxSockets
    /\ loop = "connect" => cur \in Sockets
    /\ socket \in [Sockets -> {"none", "connecting", "open", "closed"}]
    /\ connected \in [Sockets -> Seq(BOOLEAN)]
    /\ relay \in [Sockets -> Seq(Data)]
    /\ task \in [Sockets -> {"none", "wired", "running", "gone"}]

\* The wait to come follows from the wait before and the connection since.
NextWait ==
    /\ waited \in {NoWait} \cup Nat
    /\ backoff = IF reset THEN 100 ELSE IF waited = NoWait THEN 0 ELSE Backoff(waited)

\* Why the relay task of socket k may end while the socket is open.
Excused(k) == k \in spoiled \/ socket[k] = "closed"

\* Only a socket that has closed says so, and a relay task has ended for a
\* reason.
Reason(k) ==
    /\ \A i \in 1..Len(connected[k]) : connected[k][i] = TRUE \/ socket[k] = "closed"
    /\ \A i \in 1..Len(relay[k]) : relay[k][i] = "data" \/ Excused(k)
    /\ task[k] = "gone" => Excused(k) \/ ~client

\* A socket that has not been made yet has had no events.
Unused(k) ==
    socket[k] = "none" /\ connected[k] = <<>> /\ relay[k] = <<>> /\ task[k] = "none"

IInv ==
    /\ Types /\ NoPanic
    /\ \A k \in Sockets : Reason(k) /\ (k > cur => Unused(k))

-----------------------------------------------------------------------------
\* The back-off is doubled for each attempt and set back by a connection.
LEMMA NextWaitInit == Init => NextWait
BY DEF Init, NextWait, NoWait

LEMMA NextWaitStep == NextWait /\ [Next]_vars => NextWait'
<1> SUFFICES ASSUME NextWait, [Next]_vars PROVE NextWait'
  OBVIOUS
<1> USE DEF NextWait
<1>1. CASE Sleep
  <2>1. backoff \in Nat
    BY DEF Backoff, Least, NoWait
  <2> QED
    BY <1>1, <2>1 DEF Sleep, NoWait
<1>2. CASE Connect
  <2>1. waited' = waited
    BY <1>2 DEF Connect
  <2>2. (backoff' = 100 /\ reset' = TRUE) \/ (backoff' = backoff /\ reset' = reset)
    BY <1>2 DEF Connect
  <2> QED
    BY <2>1, <2>2 DEF NoWait
<1>3. CASE UNCHANGED <<backoff, waited, reset>>
  BY <1>3
<1> QED
  BY <1>1, <1>2, <1>3 DEF Next, Loop, Open, OpenFails, Send, Relay, RelayEnds, RelayData,
     NotRelayed, Browser, SocketOpens, SocketCloses, SocketMessage, ClientSends,
     ClientReceives, ClientGoes, vars, loopVars

\* Each attempt waits for what the one before it and the connections since
\* prescribe (the loop of connect_networking).
THEOREM BackoffIsRight == Spec => BackoffGrows
<1>1. NextWait /\ [Next]_vars =>
        [loop = "wait" /\ loop' = "open" =>
           waited' = IF reset THEN 100 ELSE IF waited = NoWait THEN 0 ELSE Backoff(waited)]_vars
  BY DEF NextWait, Next, Loop, Sleep, Open, OpenFails, Connect, Send, Relay, RelayEnds,
     RelayData, NotRelayed, Browser, SocketOpens, SocketCloses, SocketMessage, ClientSends,
     ClientReceives, ClientGoes, vars, loopVars
<1> QED
  BY NextWaitInit, NextWaitStep, <1>1, PTL DEF Spec, BackoffGrows

-----------------------------------------------------------------------------
\* No message that can be read makes a socket panic while the client is there.
LEMMA IInvInit == Init => IInv
<1> SUFFICES ASSUME Init PROVE IInv
  OBVIOUS
<1>1. Types
  BY NetReconnectAssumption DEF Init, Types, Sockets
<1>2. NoPanic
  BY DEF Init, NoPanic
<1>3. ASSUME NEW k \in Sockets PROVE Reason(k) /\ Unused(k)
  BY DEF Init, Reason, Unused
<1> QED
  BY <1>1, <1>2, <1>3 DEF IInv

\* A channel gets one more event at its end, or gives up its first one.
LEMMA Grows ==
  ASSUME NEW S, NEW q \in Seq(S), NEW e \in S
  PROVE  /\ Append(q, e) \in Seq(S)
         /\ \A i \in 1..Len(Append(q, e)) : Append(q, e)[i] = e \/ (i \in 1..Len(q) /\ Append(q, e)[i] = q[i])
OBVIOUS

LEMMA Shrinks ==
  ASSUME NEW S, NEW q \in Seq(S), q # <<>>
  PROVE  /\ Tail(q) \in Seq(S) /\ 1 \in 1..Len(q) /\ Head(q) = q[1] /\ q[1] \in S
         /\ \A i \in 1..Len(Tail(q)) : i + 1 \in 1..Len(q) /\ Tail(q)[i] = q[i + 1]
OBVIOUS

\* The loop: a socket whose first event is its close is given up.
LEMMA OpenKeeps == IInv /\ Open => IInv'
<1> SUFFICES ASSUME IInv, Open PROVE IInv'
  OBVIOUS
<1> DEFINE n == cur + 1
<1>1. n \in Sockets /\ cur \in Nat /\ cur' = n /\ n \in 0..MaxSockets
  BY NetReconnectAssumption DEF IInv, Types, Open, Sockets
<1>2. Types'
  BY <1>1 DEF IInv, Types, Open
<1>3. NoPanic'
  BY DEF IInv, NoPanic, Open, socketVars, clientVars
<1>4. ASSUME NEW k \in Sockets PROVE Reason(k)'
  <2>1. CASE k = n
    BY <1>1, <2>1 DEF IInv, Types, Open, Reason, Unused
  <2>2. CASE k # n
    BY <1>1, <2>2 DEF IInv, Types, Open, Reason, Excused, clientVars
  <2> QED
    BY <2>1, <2>2
<1>5. ASSUME NEW k \in Sockets, k > cur' PROVE Unused(k)'
  BY <1>1, <1>5 DEF IInv, Types, Open, Unused, Sockets
<1> QED
  BY <1>2, <1>3, <1>4, <1>5 DEF IInv

LEMMA ConnectKeeps == IInv /\ Connect => IInv'
<1> SUFFICES ASSUME IInv, Connect PROVE IInv'
  OBVIOUS
<1>1. cur \in Sockets /\ connected[cur] \in Seq(BOOLEAN) /\ connected[cur] # <<>>
  BY DEF IInv, Types, Connect
<1>2. /\ Tail(connected[cur]) \in Seq(BOOLEAN)
      /\ 1 \in 1..Len(connected[cur]) /\ Head(connected[cur]) = connected[cur][1]
      /\ \A i \in 1..Len(Tail(connected[cur])) :
            i + 1 \in 1..Len(connected[cur]) /\ Tail(connected[cur])[i] = connected[cur][i + 1]
  BY <1>1, Shrinks
<1>3. \/ task' = [task EXCEPT ![cur] = "running"] /\ loop' = "send"
      \/ /\ task' = [task EXCEPT ![cur] = "gone"] /\ loop' = "wait"
         /\ Head(connected[cur]) # TRUE
  BY DEF Connect
<1>4. Types'
  BY <1>1, <1>2, <1>3 DEF IInv, Types, Connect
<1>5. NoPanic'
  BY DEF IInv, NoPanic, Connect, clientVars
<1>6. ASSUME NEW k \in Sockets PROVE Reason(k)'
  <2>1. CASE k = cur
    <3>1. connected'[k] = Tail(connected[k]) /\ socket'[k] = socket[k] /\ relay' = relay
      BY <2>1 DEF IInv, Types, Connect
    <3>2. Excused(k)' = Excused(k)
      BY DEF Excused, Connect
    <3>3. task'[k] = "gone" => Excused(k)
      BY <1>2, <1>3, <2>1 DEF IInv, Types, Reason, Excused
    <3> QED
      BY <1>2, <2>1, <3>1, <3>2, <3>3 DEF IInv, Reason
  <2>2. CASE k # cur
    BY <1>3, <2>2 DEF IInv, Types, Connect, Reason, Excused, clientVars
  <2> QED
    BY <2>1, <2>2
<1>7. ASSUME NEW k \in Sockets, k > cur' PROVE Unused(k)'
  BY <1>3, <1>7, <1>1 DEF IInv, Types, Connect, Unused, Sockets
<1> QED
  BY <1>4, <1>5, <1>6, <1>7 DEF IInv

LEMMA LoopKeeps == IInv /\ Loop => IInv'
<1> SUFFICES ASSUME IInv, Loop PROVE IInv'
  OBVIOUS
<1>1. ASSUME Sleep \/ OpenFails \/ Send PROVE IInv'
  <2>1. /\ UNCHANGED <<cur, connected, relay, task, socket, client, spoiled, panicked>>
        /\ loop' \in {"wait", "open", "send"}
    BY <1>1 DEF IInv, Types, Sleep, OpenFails, Send, socketVars, clientVars
  <2> QED
    BY <2>1 DEF IInv, Types, NoPanic, Reason, Excused, Unused
<1> QED
  BY <1>1, OpenKeeps, ConnectKeeps DEF Loop

\* A relay task: it ends for a reason, or one event of its channel goes.
LEMMA RelayEndsKeeps == ASSUME IInv, NEW j \in Sockets, RelayEnds(j) PROVE IInv'
<1>1. /\ task' = [task EXCEPT ![j] = "gone"] /\ relay' = [relay EXCEPT ![j] = <<>>]
      /\ UNCHANGED <<loop, cur, connected, socket, client, spoiled, panicked>>
  BY DEF RelayEnds, End, NotRelayed, loopVars, socketVars, clientVars
<1>2. Excused(j) \/ ~client
  <2>1. relay[j] \in Seq(Data) /\ relay[j] # <<>> /\ Reason(j)
    BY DEF IInv, Types, RelayEnds
  <2>2. 1 \in 1..Len(relay[j]) /\ Head(relay[j]) = relay[j][1]
    BY <2>1, Shrinks
  <2> QED
    BY <2>1, <2>2 DEF RelayEnds, Reason
<1>3. Types' /\ NoPanic'
  BY <1>1 DEF IInv, Types, NoPanic
<1>4. ASSUME NEW k \in Sockets PROVE Reason(k)'
  <2>1. CASE k = j
    BY <1>1, <1>2, <2>1 DEF IInv, Types, Reason, Excused
  <2>2. CASE k # j
    BY <1>1, <2>2 DEF IInv, Types, Reason, Excused
  <2> QED
    BY <2>1, <2>2
<1>5. ASSUME NEW k \in Sockets, k > cur' PROVE Unused(k)'
  BY <1>1, <1>5 DEF IInv, Types, Unused, RelayEnds
<1> QED
  BY <1>3, <1>4, <1>5 DEF IInv

LEMMA RelayDataKeeps == ASSUME IInv, NEW j \in Sockets, RelayData(j) PROVE IInv'
<1>1. /\ relay' = [relay EXCEPT ![j] = Tail(@)]
      /\ UNCHANGED <<loop, cur, connected, socket, task, client, spoiled, panicked>>
  BY DEF RelayData, NotRelayed, loopVars, socketVars, clientVars
<1>2. relay[j] \in Seq(Data) /\ relay[j] # <<>>
  BY DEF IInv, Types, RelayData
<1>3. /\ Tail(relay[j]) \in Seq(Data)
      /\ \A i \in 1..Len(Tail(relay[j])) :
            i + 1 \in 1..Len(relay[j]) /\ Tail(relay[j])[i] = relay[j][i + 1]
  BY <1>2, Shrinks
<1>4. Types' /\ NoPanic'
  BY <1>1, <1>3 DEF IInv, Types, NoPanic
<1>5. ASSUME NEW k \in Sockets PROVE Reason(k)'
  <2>1. CASE k = j
    <3>1. relay'[k] = Tail(relay[k])
      BY <1>1, <2>1 DEF IInv, Types
    <3> QED
      BY <1>1, <1>3, <2>1, <3>1 DEF IInv, Reason, Excused
  <2>2. CASE k # j
    BY <1>1, <2>2 DEF IInv, Types, Reason, Excused
  <2> QED
    BY <2>1, <2>2
<1>6. ASSUME NEW k \in Sockets, k > cur' PROVE Unused(k)'
  BY <1>1, <1>6 DEF IInv, Types, Unused, RelayData
<1> QED
  BY <1>4, <1>5, <1>6 DEF IInv

\* A socket: what it reports of itself is true, and a message that nobody
\* receives comes only after a reason.
LEMMA SocketOpensKeeps == ASSUME IInv, NEW j \in Sockets, SocketOpens(j) PROVE IInv'
<1>1. /\ socket' = [socket EXCEPT ![j] = "open"] /\ socket[j] # "closed"
      /\ connected' = [connected EXCEPT ![j] = Append(@, TRUE)]
      /\ UNCHANGED <<loop, cur, relay, task, client, spoiled, panicked>>
  BY DEF SocketOpens, loopVars, clientVars
<1>2. /\ Append(connected[j], TRUE) \in Seq(BOOLEAN)
      /\ \A i \in 1..Len(Append(connected[j], TRUE)) :
            \/ Append(connected[j], TRUE)[i] = TRUE
            \/ i \in 1..Len(connected[j]) /\ Append(connected[j], TRUE)[i] = connected[j][i]
  <2>1. connected[j] \in Seq(BOOLEAN) /\ TRUE \in BOOLEAN
    BY DEF IInv, Types
  <2> QED
    BY <2>1, Grows
<1>3. Types' /\ NoPanic'
  BY <1>1, <1>2 DEF IInv, Types, NoPanic
<1>4. ASSUME NEW k \in Sockets PROVE Reason(k)'
  <2>1. CASE k = j
    <3>1. connected'[k] = Append(connected[k], TRUE)
      BY <1>1, <2>1 DEF IInv, Types
    <3> QED
      BY <1>1, <1>2, <2>1, <3>1 DEF IInv, Reason, Excused
  <2>2. CASE k # j
    BY <1>1, <2>2 DEF IInv, Types, Reason, Excused
  <2> QED
    BY <2>1, <2>2
<1>5. ASSUME NEW k \in Sockets, k > cur' PROVE Unused(k)'
  BY <1>1, <1>5 DEF Unused, IInv, Types, SocketOpens
<1> QED
  BY <1>3, <1>4, <1>5 DEF IInv

LEMMA SocketClosesKeeps == ASSUME IInv, NEW j \in Sockets, SocketCloses(j) PROVE IInv'
<1>1. /\ socket' = [socket EXCEPT ![j] = "closed"]
      /\ relay' = relay \/ relay' = [relay EXCEPT ![j] = Append(@, "empty")]
      /\ \/ connected' = [connected EXCEPT ![j] = Append(@, FALSE)]
         \/ connected' = [connected EXCEPT ![j] = <<>>]
      /\ UNCHANGED <<loop, cur, task, client, spoiled, panicked>>
  BY DEF SocketCloses, loopVars, clientVars
<1>2. Append(connected[j], FALSE) \in Seq(BOOLEAN) /\ Append(relay[j], "empty") \in Seq(Data)
  BY DEF IInv, Types, Data
<1>3. Types' /\ NoPanic'
  <2>1. connected' \in [Sockets -> Seq(BOOLEAN)]
    <3>1. <<>> \in Seq(BOOLEAN)
      OBVIOUS
    <3> QED
      BY <1>1, <1>2, <3>1 DEF IInv, Types
  <2>2. relay' \in [Sockets -> Seq(Data)]
    BY <1>1, <1>2 DEF IInv, Types
  <2>3. socket' \in [Sockets -> {"none", "connecting", "open", "closed"}]
    BY <1>1 DEF IInv, Types
  <2> QED
    BY <1>1, <2>1, <2>2, <2>3 DEF IInv, Types, NoPanic
<1>4. ASSUME NEW k \in Sockets PROVE Reason(k)'
  <2>1. CASE k = j
    BY <1>1, <2>1 DEF IInv, Types, Reason, Excused
  <2>2. CASE k # j
    BY <1>1, <2>2 DEF IInv, Types, Reason, Excused
  <2> QED
    BY <2>1, <2>2
<1>5. ASSUME NEW k \in Sockets, k > cur' PROVE Unused(k)'
  BY <1>1, <1>5 DEF Unused, IInv, Types, SocketCloses
<1> QED
  BY <1>3, <1>4, <1>5 DEF IInv

LEMMA SocketMessageKeeps ==
  ASSUME IInv, NEW j \in Sockets, NEW d \in Data, SocketMessage(j, d)
  PROVE  IInv'
<1>1. /\ UNCHANGED <<loop, cur, socket, connected, task, client>>
      /\ socket[j] = "open"
      /\ spoiled' = IF d = "data" THEN spoiled ELSE spoiled \cup {j}
      /\ IF task[j] = "gone"
         THEN panicked' = panicked \cup {j} /\ relay' = relay
         ELSE relay' = [relay EXCEPT ![j] = Append(@, d)] /\ panicked' = panicked
  BY DEF SocketMessage, loopVars, clientVars
<1>2. /\ Append(relay[j], d) \in Seq(Data)
      /\ \A i \in 1..Len(Append(relay[j], d)) :
            \/ Append(relay[j], d)[i] = d
            \/ i \in 1..Len(relay[j]) /\ Append(relay[j], d)[i] = relay[j][i]
  BY Grows DEF IInv, Types
<1>3. Types'
  BY <1>1, <1>2 DEF IInv, Types
<1>4. NoPanic'
  <2>1. task[j] = "gone" => j \in spoiled \/ ~client
    BY <1>1 DEF IInv, Reason, Excused
  <2> QED
    BY <1>1, <2>1 DEF IInv, NoPanic
<1>5. ASSUME NEW k \in Sockets PROVE Reason(k)'
  <2>1. Excused(k) => Excused(k)'
    BY <1>1 DEF Excused
  <2>2. CASE k = j /\ task[j] # "gone"
    <3>1. relay'[k] = Append(relay[k], d)
      BY <1>1, <2>2 DEF IInv, Types
    <3>2. d # "data" => Excused(k)'
      BY <1>1, <2>2 DEF Excused
    <3> QED
      BY <1>1, <1>2, <2>1, <2>2, <3>1, <3>2 DEF IInv, Reason
  <2>3. CASE k # j \/ task[j] = "gone"
    <3>1. relay'[k] = relay[k]
      BY <1>1, <2>3 DEF IInv, Types
    <3> QED
      BY <1>1, <2>1, <3>1 DEF IInv, Reason
  <2> QED
    BY <2>2, <2>3
<1>6. ASSUME NEW k \in Sockets, k > cur' PROVE Unused(k)'
  BY <1>1, <1>6 DEF Unused, IInv, Types, SocketMessage
<1> QED
  BY <1>3, <1>4, <1>5, <1>6 DEF IInv

LEMMA Step == IInv /\ [Next]_vars => IInv'
<1> SUFFICES ASSUME IInv, [Next]_vars PROVE IInv'
  OBVIOUS
<1>1. ASSUME ClientSends \/ ClientReceives \/ ClientGoes \/ UNCHANGED vars PROVE IInv'
  <2>1. /\ UNCHANGED <<loop, cur, connected, relay, task, socket, spoiled, panicked>>
        /\ ~client => ~client'
    BY <1>1 DEF ClientSends, ClientReceives, ClientGoes, vars, loopVars, socketVars, clientVars
  <2> QED
    BY <2>1 DEF IInv, Types, NoPanic, Reason, Excused, Unused
<1>2. ASSUME NEW j \in Sockets, Relay(j) \/ Browser(j) PROVE IInv'
  BY <1>2, RelayEndsKeeps, RelayDataKeeps, SocketOpensKeeps, SocketClosesKeeps,
     SocketMessageKeeps DEF Relay, Browser, Data
<1> QED
  BY <1>1, <1>2, LoopKeeps DEF Next

\* The inductive invariant of the loop, the relay tasks and the sockets.
THEOREM Invariance == Spec => []IInv
BY IInvInit, Step, PTL DEF Spec

\* relay_tx.send(data).unwrap() in onmessage does not fail for a message after
\* which, and before which, all messages of the socket can be read.
THEOREM NothingPanics == Spec => []NoPanic
<1>1. IInv => NoPanic
  BY DEF IInv
<1> QED
  BY Invariance, <1>1, PTL

-----------------------------------------------------------------------------
(* The types of the channels and of the client, and the number of messages *)
(* Reconnect.                                                              *)

Ranges ==
    /\ backoff \in 0..8000 /\ waited \in NoWait..8000
    /\ sent \in 0..MaxMessages
    /\ spoiled \subseteq Sockets /\ panicked \subseteq Sockets /\ unheard \subseteq Sockets
    /\ recvq \in 0..RecvSize
    /\ made \in 0..MaxRequests

Requests == sendq \in Seq(0..MaxRequests) /\ Len(sendq) <= SendSize

Flags == reset \in BOOLEAN /\ client \in BOOLEAN

\* The loop waits for the open event of the last socket, and of no other.
Wired == \A k \in Sockets : (task[k] = "wired") = (k = cur /\ loop = "connect")

ReconnectsIn(q) == {i \in DOMAIN q : q[i] = Reconnect}
Gone == {k \in Sockets : task[k] = "gone"}
FewReconnects == Cardinality(ReconnectsIn(sendq)) <= Cardinality(Gone)

LEMMA Bounds ==
  /\ MaxSockets \in Nat /\ MaxRequests \in Nat /\ MaxMessages \in Nat
  /\ SendSize \in Nat \ {0} /\ RecvSize \in Nat \ {0} /\ Reconnect = 0
BY NetReconnectAssumption DEF Reconnect

LEMMA RangesInit == Init => Ranges /\ Requests /\ Flags /\ Wired /\ FewReconnects
<1> SUFFICES ASSUME Init PROVE Ranges /\ Requests /\ Flags /\ Wired /\ FewReconnects
  OBVIOUS
<1>1. Ranges
  <2>1. backoff \in 0..8000 /\ waited \in NoWait..8000 /\ recvq \in 0..RecvSize
    BY Bounds DEF Init, NoWait
  <2>2. sent \in 0..MaxMessages /\ made \in 0..MaxRequests
    BY Bounds DEF Init
  <2> QED
    BY <2>1, <2>2 DEF Init, Ranges
<1>2. Wired
  BY DEF Init, Wired
<1>3. Gone = {} /\ ReconnectsIn(sendq) = {}
  BY DEF Init, Gone, ReconnectsIn
<1>4. Requests
  BY Bounds DEF Init, Requests
<1>5. Flags
  BY DEF Init, Flags
<1> QED
  BY <1>1, <1>2, <1>3, <1>4, <1>5, FS_EmptySet DEF FewReconnects

LEMMA RangesStep == Ranges /\ [Next]_vars => Ranges'
<1> SUFFICES ASSUME Ranges, [Next]_vars PROVE Ranges'
  OBVIOUS
<1>1. CASE Sleep
  BY <1>1, Bounds DEF Ranges, NoWait, Sleep, Backoff, Least, socketVars, clientVars
<1>2. CASE Open \/ OpenFails \/ Connect \/ Send
  <2>1. /\ UNCHANGED <<waited, sent, spoiled, panicked, unheard, recvq, made>>
        /\ backoff' \in {backoff, 100}
    BY <1>2 DEF Open, OpenFails, Connect, Send, socketVars, clientVars
  <2> QED
    BY <2>1 DEF Ranges
<1>3. ASSUME NEW k \in Sockets, RelayEnds(k) PROVE Ranges'
  <2>1. unheard' \in {unheard, unheard \cup {k}} /\ recvq' = recvq /\ NotRelayed
    BY <1>3 DEF RelayEnds, End
  <2> QED
    BY <1>3, <2>1, Bounds DEF Ranges, NoWait, NotRelayed, loopVars, socketVars, clientVars
<1>4. ASSUME NEW k \in Sockets, RelayData(k) PROVE Ranges'
  <2>1. recvq < RecvSize /\ recvq' = recvq + 1 /\ unheard' = unheard /\ NotRelayed
    BY <1>4 DEF RelayData
  <2> QED
    BY <2>1, Bounds DEF Ranges, NoWait, NotRelayed, loopVars, socketVars, clientVars
<1>5. ASSUME NEW k \in Sockets, Browser(k) PROVE Ranges'
  <2>1. ASSUME NEW d \in {"data", "empty", "bad"}, SocketMessage(k, d) PROVE Ranges'
    <3>1. sent' = sent + 1 /\ sent < MaxMessages
      BY <2>1 DEF SocketMessage
    <3>2. spoiled' \in {spoiled, spoiled \cup {k}} /\ panicked' \in {panicked, panicked \cup {k}}
      BY <2>1 DEF SocketMessage
    <3> QED
      BY <2>1, <3>1, <3>2, Bounds DEF Ranges, NoWait, SocketMessage, loopVars, clientVars
  <2>2. ASSUME SocketOpens(k) \/ SocketCloses(k) PROVE Ranges'
    <3>1. UNCHANGED <<backoff, waited, sent, spoiled, panicked, unheard, recvq, made>>
      BY <2>2 DEF SocketOpens, SocketCloses, loopVars, clientVars
    <3> QED
      BY <3>1 DEF Ranges
  <2> QED
    BY <1>5, <2>1, <2>2 DEF Browser
<1>6. CASE ClientSends \/ ClientReceives \/ ClientGoes
  <2>1. CASE ClientSends
    <3>1. made < MaxRequests /\ made' = made + 1
      BY <2>1 DEF ClientSends
    <3> QED
      BY <2>1, <3>1, Bounds DEF Ranges, NoWait, ClientSends, loopVars, socketVars
  <2>2. CASE ClientReceives
    <3>1. recvq > 0 /\ recvq' = recvq - 1
      BY <2>2 DEF ClientReceives
    <3> QED
      BY <2>2, <3>1, Bounds DEF Ranges, NoWait, ClientReceives, loopVars, socketVars, clientVars
  <2>3. CASE ClientGoes
    BY <2>3, Bounds DEF Ranges, NoWait, ClientGoes, loopVars, socketVars
  <2> QED
    BY <1>6, <2>1, <2>2, <2>3
<1>7. CASE UNCHANGED vars
  BY <1>7, Bounds DEF Ranges, NoWait, vars, loopVars, socketVars, clientVars
<1> QED
  BY <1>1, <1>2, <1>3, <1>4, <1>5, <1>6, <1>7 DEF Next, Loop, Relay

LEMMA RequestsStep == Ranges /\ Requests /\ [Next]_vars => Requests'
<1> SUFFICES ASSUME Ranges, Requests, [Next]_vars PROVE Requests'
  OBVIOUS
<1> USE Bounds DEF Requests
<1>1. ASSUME NEW m \in 0..MaxRequests, sendq' = Append(sendq, m), Len(sendq) < SendSize
      PROVE  Requests'
  BY <1>1
<1>2. CASE Send
  BY <1>2 DEF Send
<1>3. CASE \E k \in Sockets : RelayEnds(k)
  BY <1>1, <1>3 DEF RelayEnds, End
<1>4. CASE ClientSends
  <2>1. made + 1 \in 0..MaxRequests
    BY <1>4 DEF ClientSends, Ranges
  <2> QED
    BY <1>1, <1>4, <2>1 DEF ClientSends
<1>5. CASE UNCHANGED sendq
  BY <1>5
<1> QED
  BY <1>2, <1>3, <1>4, <1>5 DEF Next, Loop, Sleep, Open, OpenFails, Connect, Relay, RelayData,
     Browser, SocketOpens, SocketCloses, SocketMessage, ClientReceives, ClientGoes, vars

LEMMA FlagsStep == Flags /\ [Next]_vars => Flags'
BY DEF Flags, Next, Loop, Sleep, Open, OpenFails, Connect, Send, Relay, RelayEnds, RelayData,
   NotRelayed, Browser, SocketOpens, SocketCloses, SocketMessage, ClientSends, ClientReceives,
   ClientGoes, vars, loopVars, clientVars

LEMMA WiredStep == IInv /\ Wired /\ [Next]_vars => Wired'
<1> SUFFICES ASSUME IInv, Wired, [Next]_vars PROVE Wired'
  OBVIOUS
<1> USE DEF Wired, IInv, Types
<1>1. CASE Open
  <2>1. cur + 1 \in Sockets /\ cur \in Nat
    BY <1>1, Bounds DEF Open, Sockets
  <2> QED
    BY <1>1, <2>1 DEF Open
<1>2. CASE Connect
  BY <1>2 DEF Connect
<1>3. CASE Sleep \/ OpenFails \/ Send
  BY <1>3 DEF Sleep, OpenFails, Send
<1>4. ASSUME NEW k \in Sockets, RelayEnds(k) PROVE Wired'
  BY <1>4 DEF RelayEnds, End, NotRelayed, loopVars
<1>5. CASE UNCHANGED <<loop, cur, task>>
  BY <1>5
<1> QED
  BY <1>1, <1>2, <1>3, <1>4, <1>5 DEF Next, Loop, Relay, RelayData, NotRelayed, Browser,
     SocketOpens, SocketCloses, SocketMessage, ClientSends, ClientReceives, ClientGoes, vars,
     loopVars

-----------------------------------------------------------------------------
LEMMA ReconnectsFinite ==
  ASSUME NEW T, NEW q \in Seq(T)
  PROVE  IsFiniteSet(ReconnectsIn(q)) /\ Cardinality(ReconnectsIn(q)) \in Nat
<1>1. Len(q) \in Nat /\ ReconnectsIn(q) \in SUBSET (1..Len(q))
  BY DEF ReconnectsIn
<1>2. IsFiniteSet(1..Len(q))
  BY <1>1, FS_Interval
<1> QED
  BY <1>1, <1>2, FS_Subset, FS_CardinalityType

LEMMA ReconnectsAppend ==
  ASSUME NEW T, NEW q \in Seq(T), NEW e \in T
  PROVE  Cardinality(ReconnectsIn(Append(q, e)))
           = Cardinality(ReconnectsIn(q)) + IF e = Reconnect THEN 1 ELSE 0
<1> DEFINE R == ReconnectsIn(q)
           n == Len(q) + 1
<1>1. /\ Len(q) \in Nat /\ DOMAIN q = 1..Len(q) /\ DOMAIN Append(q, e) = 1..n
      /\ \A i \in 1..Len(q) : Append(q, e)[i] = q[i]
      /\ Append(q, e)[n] = e
  OBVIOUS
<1>2. n \notin R
  BY <1>1 DEF ReconnectsIn
<1>3. ReconnectsIn(Append(q, e)) = IF e = Reconnect THEN R \cup {n} ELSE R
  BY <1>1 DEF ReconnectsIn
<1>4. IsFiniteSet(R) /\ Cardinality(R) \in Nat
  BY ReconnectsFinite
<1> HIDE DEF R, n
<1>5. Cardinality(R \cup {n}) = Cardinality(R) + 1
  BY <1>2, <1>4, FS_AddElement
<1> QED
  BY <1>3, <1>4, <1>5 DEF R

LEMMA ReconnectsTail ==
  ASSUME NEW T, NEW q \in Seq(T), q # <<>>
  PROVE  Cardinality(ReconnectsIn(Tail(q))) <= Cardinality(ReconnectsIn(q))
<1> DEFINE R == ReconnectsIn(Tail(q))
           next == [i \in R |-> i + 1]
<1>1. /\ Len(q) \in Nat /\ DOMAIN q = 1..Len(q) /\ DOMAIN Tail(q) = 1..(Len(q) - 1)
      /\ \A i \in 1..(Len(q) - 1) : i + 1 \in 1..Len(q) /\ Tail(q)[i] = q[i + 1]
  OBVIOUS
<1>2. \A i \in R : i \in Nat /\ i + 1 \in ReconnectsIn(q)
  BY <1>1 DEF ReconnectsIn
<1>3. next \in Injection(R, ReconnectsIn(q))
  BY <1>2 DEF Injection, IsInjective
<1> QED
  BY <1>3, ReconnectsFinite, FS_Injection

\* One relay task more has gone.
LEMMA OneMoreGone ==
  ASSUME Types, NEW k \in Sockets, task' = [task EXCEPT ![k] = "gone"]
  PROVE  /\ Cardinality(Gone) \in Nat
         /\ Cardinality(Gone') = IF task[k] = "gone" THEN Cardinality(Gone)
                                 ELSE Cardinality(Gone) + 1
<1>1. IsFiniteSet(Sockets)
  BY Bounds, FS_Interval DEF Sockets
<1>2. IsFiniteSet(Gone) /\ Cardinality(Gone) \in Nat
  BY <1>1, FS_Subset, FS_CardinalityType DEF Gone
<1>3. Gone' = Gone \cup {k} /\ (k \in Gone <=> task[k] = "gone")
  BY DEF Types, Gone
<1> QED
  BY <1>2, <1>3, FS_AddElement

LEMMA FewReconnectsStep ==
  ASSUME IInv, Ranges, Requests, Wired, FewReconnects, [Next]_vars
  PROVE  FewReconnects'
<1>1. sendq \in Seq(0..MaxRequests) /\ Types /\ Cardinality(ReconnectsIn(sendq)) \in Nat
  BY ReconnectsFinite DEF IInv, Requests
<1>2. Cardinality(Gone) \in Nat
  <2>1. IsFiniteSet(Sockets) /\ Gone \in SUBSET Sockets
    BY Bounds, FS_Interval DEF Sockets, Gone
  <2> QED
    BY <2>1, FS_Subset, FS_CardinalityType
<1>3. CASE Open
  <2>1. cur + 1 \in Sockets /\ Unused(cur + 1)
    <3>1. cur \in Nat /\ cur + 1 \in Sockets /\ cur + 1 > cur
      BY <1>1, <1>3, Bounds DEF Open, Sockets, Types
    <3> QED
      BY <3>1 DEF IInv
  <2>2. Gone' = Gone /\ sendq' = sendq
    BY <1>1, <1>3, <2>1 DEF Open, Gone, Types, Unused
  <2> QED
    BY <2>2 DEF FewReconnects
<1>4. CASE Connect
  <2>1. cur \in Sockets /\ sendq' = sendq /\ task[cur] # "gone"
    BY <1>1, <1>4 DEF Connect, Types, Wired
  <2>2. CASE task' = [task EXCEPT ![cur] = "gone"]
    <3>1. Cardinality(Gone') = Cardinality(Gone) + 1
      BY <1>1, <2>1, <2>2, OneMoreGone
    <3>2. ReconnectsIn(sendq') = ReconnectsIn(sendq)
      BY <2>1
    <3> QED
      BY <1>1, <1>2, <3>1, <3>2 DEF FewReconnects
  <2>3. CASE task' = [task EXCEPT ![cur] = "running"]
    <3>1. Gone' = Gone
      BY <1>1, <2>1, <2>3 DEF Gone, Types
    <3> QED
      BY <2>1, <3>1 DEF FewReconnects
  <2> QED
    BY <1>4, <2>2, <2>3 DEF Connect
<1>5. CASE Send
  <2>1. Gone' = Gone
    BY <1>5 DEF Send, Gone
  <2>2. sendq' \in Seq(0..MaxRequests) /\ sendq' = Tail(sendq) /\ sendq # <<>>
    BY <1>1, <1>5 DEF Send
  <2>3. /\ Cardinality(ReconnectsIn(sendq')) <= Cardinality(ReconnectsIn(sendq))
        /\ Cardinality(ReconnectsIn(sendq')) \in Nat
    BY <1>1, <2>2, ReconnectsTail, ReconnectsFinite
  <2> QED
    BY <1>1, <1>2, <2>1, <2>3 DEF FewReconnects
<1>6. ASSUME NEW k \in Sockets, RelayEnds(k) PROVE FewReconnects'
  <2>1. task[k] # "gone" /\ task' = [task EXCEPT ![k] = "gone"]
    BY <1>6 DEF RelayEnds, End
  <2>2. Cardinality(Gone') = Cardinality(Gone) + 1
    BY <1>1, <2>1, OneMoreGone
  <2>3. sendq' = sendq \/ sendq' = Append(sendq, Reconnect)
    BY <1>6 DEF RelayEnds, End
  <2>4. Cardinality(ReconnectsIn(Append(sendq, Reconnect))) = Cardinality(ReconnectsIn(sendq)) + 1
    <3>1. Reconnect \in 0..MaxRequests
      BY Bounds DEF Reconnect
    <3> QED
      BY <1>1, <3>1, ReconnectsAppend
  <2> QED
    <3> DEFINE n == Cardinality(ReconnectsIn(sendq'))
    <3>1. n \in {Cardinality(ReconnectsIn(sendq)), Cardinality(ReconnectsIn(sendq)) + 1}
      BY <2>3, <2>4
    <3>2. FewReconnects' = (n <= Cardinality(Gone'))
      BY DEF FewReconnects
    <3> HIDE DEF n
    <3> QED
      BY <1>1, <1>2, <2>2, <3>1, <3>2 DEF FewReconnects
<1>7. CASE ClientSends
  <2>1. made + 1 \in 0..MaxRequests /\ made + 1 # Reconnect
    <3>1. made < MaxRequests /\ made \in 0..MaxRequests
      BY <1>7 DEF ClientSends, Ranges
    <3> QED
      BY <3>1, Bounds
  <2>2. Cardinality(ReconnectsIn(Append(sendq, made + 1))) = Cardinality(ReconnectsIn(sendq))
    <3> DEFINE m == made + 1
    <3>1. m \in 0..MaxRequests /\ m # Reconnect
      BY <2>1
    <3> HIDE DEF m
    <3>2. Cardinality(ReconnectsIn(Append(sendq, m))) = Cardinality(ReconnectsIn(sendq)) + 0
      BY <1>1, <3>1, ReconnectsAppend
    <3> QED
      BY <1>1, <3>2 DEF m
  <2>3. Gone' = Gone /\ sendq' = Append(sendq, made + 1)
    BY <1>7 DEF ClientSends, Gone
  <2> QED
    BY <2>2, <2>3 DEF FewReconnects
<1>8. CASE UNCHANGED <<sendq, task>>
  BY <1>8 DEF Gone, FewReconnects
<1> QED
  BY <1>3, <1>4, <1>5, <1>6, <1>7, <1>8 DEF Next, Loop, Sleep, OpenFails, Relay, RelayData,
     NotRelayed, Browser, SocketOpens, SocketCloses, SocketMessage, ClientReceives, ClientGoes,
     vars

\* Every channel keeps its capacity, only the last socket is one the loop still
\* waits for, and no more Reconnects are on their way than relay tasks ended:
\* only a task that ends sends one, and it ends once.
THEOREM TypeCorrect == Spec => []TypeOK
<1> DEFINE All == Ranges /\ Requests /\ Flags /\ Wired /\ FewReconnects
<1>1. IInv /\ All => TypeOK
  <2> SUFFICES ASSUME IInv, All PROVE TypeOK
    OBVIOUS
  <2>1. /\ sendq \in Seq(0..MaxRequests) /\ Len(sendq) <= SendSize
        /\ Cardinality({i \in DOMAIN sendq : sendq[i] = Reconnect})
             <= Cardinality({k \in Sockets : task[k] = "gone"})
    BY DEF Requests, FewReconnects, ReconnectsIn, Gone
  <2>2. /\ relay \in [Sockets -> Seq({"data", "empty", "bad"})]
        /\ connected \in [Sockets -> Seq(BOOLEAN)]
    BY DEF IInv, Types, Data
  <2>3. reset \in BOOLEAN /\ client \in BOOLEAN
    BY DEF Flags
  <2>4. \A k \in Sockets : (task[k] = "wired") = (k = cur /\ loop = "connect")
    BY DEF Wired
  <2> QED
    BY <2>1, <2>2, <2>3, <2>4 DEF IInv, Types, Ranges, TypeOK
<1>2. IInv /\ All /\ [Next]_vars => All'
  BY RangesStep, RequestsStep, FlagsStep, WiredStep, FewReconnectsStep
<1> QED
  BY Invariance, RangesInit, <1>1, <1>2, PTL DEF Spec
=============================================================================

---------------------------- MODULE NetReconnect ----------------------------
(***************************************************************************)
(* src/net.rs: the task that keeps a connection to the edge network.  It   *)
(* opens a WebSocket, passes on the requests of the networking client and, *)
(* by a relay task per socket, the answers to it.  When a relay task ends  *)
(* it puts a Reconnect in front of the loop, among the client's requests.  *)
(*                                                                         *)
(* The browser's WebSocket (src/ws.rs) and the client (virtual_net) are    *)
(* external.  A socket that the loop gives up is not closed: it lives, with*)
(* its relay task, until the other side closes it.                         *)
(***************************************************************************)
EXTENDS Integers, Sequences, FiniteSets

CONSTANTS MaxSockets,    \* bound: sockets opened
          MaxRequests,   \* bound: requests of the client
          MaxMessages,   \* bound: messages of the other side
          SendSize,      \* capacity of the channel to the loop
          RecvSize       \* capacity of the channel to the client

ASSUME NetReconnectAssumption ==
    /\ {MaxSockets, MaxRequests, MaxMessages} \subseteq Nat
    /\ {SendSize, RecvSize} \subseteq Nat \ {0}

VARIABLES
    loop,       \* where the loop is: it waits, opens, connects or sends
    backoff,    \* milliseconds to wait before the next attempt
    waited,     \* the last wait; -1 before the first
    reset,      \* a socket connected since that wait
    cur,        \* the last socket opened; 0 before the first
    socket,     \* the browser's state of each socket
    connected,  \* the channel of a socket's open and close events
    relay,      \* the channel of a socket's messages
    task,       \* the relay task of each socket; "gone" without a receiver
    sent,       \* number of messages that came on all sockets
    spoiled,    \* sockets with an empty or an unreadable message
    panicked,   \* a message came after its receiver had gone
    sendq,      \* requests, and Reconnect, on their way to the loop
    recvq,      \* number of answers on their way to the client
    client,     \* the client is still there
    made,       \* number of requests the client has made
    unheard     \* sockets whose Reconnect found the channel full

loopVars == <<loop, backoff, waited, reset, cur>>
socketVars == <<socket, connected, sent, spoiled, panicked>>
clientVars == <<client, made>>
vars == <<loopVars, socketVars, relay, task, sendq, recvq, clientVars, unheard>>

Sockets == 1..MaxSockets
Reconnect == 0
NoWait == -1

Init ==
    /\ loop = "wait" /\ backoff = 0 /\ waited = NoWait /\ reset = FALSE /\ cur = 0
    /\ socket = [k \in Sockets |-> "none"]
    /\ connected = [k \in Sockets |-> <<>>]
    /\ relay = [k \in Sockets |-> <<>>]
    /\ task = [k \in Sockets |-> "none"]
    /\ sent = 0
    /\ spoiled = {} /\ panicked = {}
    /\ sendq = <<>> /\ recvq = 0
    /\ client = TRUE /\ made = 0
    /\ unheard = {}

-----------------------------------------------------------------------------
(* The loop.                                                               *)

Least(a, b) == IF a < b THEN a ELSE b
Backoff(ms) == Least(8000, 2 * ms + 100)

\* The time to wait kept instead of being doubled for the next attempt.
Sleep_Constant ==
    /\ loop = "wait"
    /\ waited' = backoff
    /\ backoff' = 100
    /\ reset' = FALSE
    /\ loop' = "open"
    /\ UNCHANGED <<cur, socketVars, relay, task, sendq, recvq, clientVars, unheard>>

\* "Exponential backoff prevents thrashing of the connection".
Sleep ==
    /\ loop = "wait"
    /\ waited' = backoff
    /\ backoff' = Backoff(backoff)
    /\ reset' = FALSE
    /\ loop' = "open"
    /\ UNCHANGED <<cur, socketVars, relay, task, sendq, recvq, clientVars, unheard>>

\* WebSocket::new and the callbacks; the relay channel has a receiver now.
Open ==
    /\ loop = "open" /\ cur < MaxSockets
    /\ cur' = cur + 1
    /\ socket' = [socket EXCEPT ![cur + 1] = "connecting"]
    /\ task' = [task EXCEPT ![cur + 1] = "wired"]
    /\ loop' = "connect"
    /\ UNCHANGED <<backoff, waited, reset, connected, sent, spoiled, panicked, relay, sendq,
                   recvq, clientVars, unheard>>

\* WebSocket::new fails.
OpenFails ==
    /\ loop = "open"
    /\ loop' = "wait"
    /\ UNCHANGED <<backoff, waited, reset, cur, socketVars, relay, task, sendq, recvq,
                   clientVars, unheard>>

\* The first event of the socket: open starts the relay task, close drops the
\* receiver and goes on with the next attempt.
Connect ==
    /\ loop = "connect" /\ connected[cur] # <<>>
    /\ connected' = [connected EXCEPT ![cur] = Tail(@)]
    /\ IF Head(connected[cur])
       THEN /\ backoff' = 100 /\ reset' = TRUE
            /\ loop' = "send"
            /\ task' = [task EXCEPT ![cur] = "running"]
       ELSE /\ loop' = "wait"
            /\ task' = [task EXCEPT ![cur] = "gone"]
            /\ UNCHANGED <<backoff, reset>>
    /\ UNCHANGED <<waited, cur, socket, sent, spoiled, panicked, relay, sendq, recvq,
                   clientVars, unheard>>

\* One request: sent, or lost with the socket that fails (or, on a socket that
\* has closed, lost without a word); a Reconnect, from whatever socket, ends
\* the connection.
Send ==
    /\ loop = "send" /\ sendq # <<>>
    /\ sendq' = Tail(sendq)
    /\ IF Head(sendq) = Reconnect THEN loop' = "wait" ELSE loop' \in {"send", "wait"}
    /\ UNCHANGED <<backoff, waited, reset, cur, socketVars, relay, task, recvq, clientVars,
                   unheard>>

-----------------------------------------------------------------------------
(* The relay tasks.                                                        *)

NotRelayed == UNCHANGED <<loopVars, socketVars, clientVars>>

\* send on an unbounded channel.
End_Unbounded(k) ==
    /\ task' = [task EXCEPT ![k] = "gone"]
    /\ relay' = [relay EXCEPT ![k] = <<>>]
    /\ sendq' = Append(sendq, Reconnect)
    /\ UNCHANGED unheard

\* try_send: a full channel drops the Reconnect.
End(k) ==
    /\ task' = [task EXCEPT ![k] = "gone"]
    /\ relay' = [relay EXCEPT ![k] = <<>>]
    /\ IF Len(sendq) < SendSize
       THEN sendq' = Append(sendq, Reconnect) /\ UNCHANGED unheard
       ELSE unheard' = unheard \cup {k} /\ UNCHANGED sendq

\* A task that returns when the socket has closed, before the last line.
RelayEnds_Silently(k) ==
    /\ task[k] = "running" /\ relay[k] # <<>>
    /\ Head(relay[k]) \in {"empty", "bad"} \/ ~client
    /\ task' = [task EXCEPT ![k] = "gone"]
    /\ relay' = [relay EXCEPT ![k] = <<>>]
    /\ UNCHANGED <<sendq, recvq, unheard>> /\ NotRelayed

\* Empty data, which onclose sends and a server may, data that does not
\* deserialize, or a client that has gone.
RelayEnds(k) ==
    /\ task[k] = "running" /\ relay[k] # <<>>
    /\ Head(relay[k]) \in {"empty", "bad"} \/ ~client
    /\ End(k)
    /\ UNCHANGED recvq /\ NotRelayed

\* The task gives up when the client is slow instead of waiting for room.
RelayData_NoRoom(k) ==
    /\ task[k] = "running" /\ relay[k] # <<>> /\ Head(relay[k]) = "data" /\ client
    /\ IF recvq < RecvSize
       THEN /\ recvq' = recvq + 1
            /\ relay' = [relay EXCEPT ![k] = Tail(@)]
            /\ UNCHANGED <<task, sendq, unheard>>
       ELSE End(k) /\ UNCHANGED recvq
    /\ NotRelayed

\* An answer for the client; the task waits for room in its channel.
RelayData(k) ==
    /\ task[k] = "running" /\ relay[k] # <<>> /\ Head(relay[k]) = "data" /\ client
    /\ recvq < RecvSize
    /\ recvq' = recvq + 1
    /\ relay' = [relay EXCEPT ![k] = Tail(@)]
    /\ UNCHANGED <<task, sendq, unheard>> /\ NotRelayed

-----------------------------------------------------------------------------
(* The browser's sockets.                                                  *)

SocketOpens(k) ==
    /\ socket[k] = "connecting"
    /\ socket' = [socket EXCEPT ![k] = "open"]
    /\ connected' = [connected EXCEPT ![k] = Append(@, TRUE)]
    /\ UNCHANGED <<loopVars, relay, task, sent, spoiled, panicked, sendq, recvq, clientVars,
                   unheard>>

\* onclose: both channels, whether or not they still have a receiver.
SocketCloses(k) ==
    /\ socket[k] \in {"connecting", "open"}
    /\ socket' = [socket EXCEPT ![k] = "closed"]
    /\ relay' = IF task[k] = "gone" THEN relay ELSE [relay EXCEPT ![k] = Append(@, "empty")]
    /\ connected' = [connected EXCEPT ![k] = IF task[k] = "wired" THEN Append(@, FALSE) ELSE <<>>]
    /\ UNCHANGED <<loopVars, task, sent, spoiled, panicked, sendq, recvq, clientVars, unheard>>

\* onmessage: relay_tx.send(data).unwrap() panics without a receiver.
SocketMessage(k, data) ==
    /\ socket[k] = "open" /\ sent < MaxMessages
    /\ sent' = sent + 1
    /\ IF task[k] = "gone"
       THEN panicked' = panicked \cup {k} /\ UNCHANGED relay
       ELSE relay' = [relay EXCEPT ![k] = Append(@, data)] /\ UNCHANGED panicked
    /\ spoiled' = IF data = "data" THEN spoiled ELSE spoiled \cup {k}
    /\ UNCHANGED <<loopVars, socket, connected, task, sendq, recvq, clientVars, unheard>>

-----------------------------------------------------------------------------
(* The networking client.                                                  *)

ClientSends ==
    /\ client /\ made < MaxRequests /\ Len(sendq) < SendSize
    /\ made' = made + 1
    /\ sendq' = Append(sendq, made + 1)
    /\ UNCHANGED <<loopVars, socketVars, relay, task, recvq, client, unheard>>

ClientReceives ==
    /\ client /\ recvq > 0
    /\ recvq' = recvq - 1
    /\ UNCHANGED <<loopVars, socketVars, relay, task, sendq, clientVars, unheard>>

\* The runtime drops its networking; the loop keeps a sender of its own, so
\* its channel stays open.
ClientGoes ==
    /\ client
    /\ client' = FALSE /\ recvq' = 0
    /\ UNCHANGED <<loopVars, socketVars, relay, task, sendq, made, unheard>>

-----------------------------------------------------------------------------
Loop == Sleep \/ Open \/ OpenFails \/ Connect \/ Send
Relay(k) == RelayEnds(k) \/ RelayData(k)
Browser(k) == \/ SocketOpens(k) \/ SocketCloses(k)
              \/ \E data \in {"data", "empty", "bad"} : SocketMessage(k, data)

Next == \/ Loop
        \/ \E k \in Sockets : Relay(k) \/ Browser(k)
        \/ ClientSends \/ ClientReceives \/ ClientGoes

Spec == Init /\ [][Next]_vars

\* Tasks that can run are polled, and the client takes what it is sent.
FairSpec == /\ Spec /\ WF_vars(Loop) /\ WF_vars(ClientReceives)
            /\ \A k \in Sockets : WF_vars(Relay(k))

-----------------------------------------------------------------------------
\* The type invariant; one Reconnect at most for each relay task that ended,
\* and only the last socket is one the loop still waits for.
TypeOK ==
    /\ loop \in {"wait", "open", "connect", "send"}
    /\ backoff \in 0..8000 /\ waited \in NoWait..8000 /\ reset \in BOOLEAN
    /\ cur \in 0..MaxSockets
    /\ socket \in [Sockets -> {"none", "connecting", "open", "closed"}]
    /\ connected \in [Sockets -> Seq(BOOLEAN)]
    /\ relay \in [Sockets -> Seq({"data", "empty", "bad"})]
    /\ task \in [Sockets -> {"none", "wired", "running", "gone"}]
    /\ sent \in 0..MaxMessages
    /\ spoiled \subseteq Sockets /\ panicked \subseteq Sockets /\ unheard \subseteq Sockets
    /\ sendq \in Seq(0..MaxRequests) /\ Len(sendq) <= SendSize
    /\ recvq \in 0..RecvSize
    /\ client \in BOOLEAN /\ made \in 0..MaxRequests
    /\ Cardinality({i \in DOMAIN sendq : sendq[i] = Reconnect})
         <= Cardinality({k \in Sockets : task[k] = "gone"})
    /\ \A k \in Sockets : (task[k] = "wired") = (k = cur /\ loop = "connect")

\* Each attempt waits twice as long as the one before and a tenth of a second
\* more, up to eight seconds, also when sockets fail at different stages; a
\* connection brings the next wait down to a tenth of a second.
BackoffGrows ==
    [][loop = "wait" /\ loop' = "open" =>
         waited' = IF reset THEN 100 ELSE IF waited = NoWait THEN 0 ELSE Backoff(waited)]_vars

\* A socket never panics for a message that comes in time and can be read: only
\* an empty or unreadable message, or a client that has gone, ends a relay task
\* while its socket is open.
NoPanic == panicked \subseteq spoiled \/ ~client

\* The loop notices that its socket has closed and goes on with the next one,
\* unless the one Reconnect of the socket was dropped at a full channel.
Reconnects ==
    \A k \in Sockets :
        (loop = "send" /\ cur = k /\ socket[k] = "closed")
        ~> (loop # "send" \/ k \in unheard)
=============================================================================

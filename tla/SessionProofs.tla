--------------------------- MODULE SessionProofs ---------------------------
(***************************************************************************)
(* What holds of Session for every bound on its messages.                  *)
(***************************************************************************)
EXTENDS Session, TLAPS

(* A kind of message is somewhere in a family of queues. *)
Queued(queues, k) ==
    \E t \in Transports : \E i \in 1..Len(queues[t]) : queues[t][i] = k

(* The inductive strengthening of StreamingIsEstablished: what each message on
   its way already implies. *)
Established ==
    /\ got["handshake"] > 0 => datum
    /\ Queued(toServer, "handshake") => datum
    /\ Queued(toClient, "ackHandshake") => got["handshake"] > 0
    /\ state = "streaming" => got["handshake"] > 0

(* After close() both transports are down for good, and the state can only be the
   error of a socket that is about to report itself closed. *)
Down ==
    ended => /\ state = "closed" \/ (state = "error" /\ ws = "failed")
             /\ pc = "closed"
             /\ dc \in {"none", "closed"}
             /\ ws \in {"none", "closing", "aborted", "failed", "closed"}

----------------------------------------------------------------------------
(* Putting a message on a queue, and taking queues back. *)

LEMMA PutType ==
    ASSUME NEW S, NEW queues \in [Transports -> Seq(S)],
           NEW t \in Transports, NEW k \in S
    PROVE  Put(queues, t, k) \in [Transports -> Seq(S)]
BY DEF Put, Transports

LEMMA PutQueued ==
    ASSUME NEW S, NEW queues \in [Transports -> Seq(S)],
           NEW t \in Transports, NEW k \in S, NEW m,
           Queued(Put(queues, t, k), m)
    PROVE  m = k \/ Queued(queues, m)
<1>0. PICK u \in Transports :
          \E i \in 1..Len(Put(queues, t, k)[u]) : Put(queues, t, k)[u][i] = m
  BY DEF Queued
<1>1. PICK i \in 1..Len(Put(queues, t, k)[u]) : Put(queues, t, k)[u][i] = m
  BY <1>0
<1>2. CASE u # t
  BY <1>1, <1>2 DEF Put, Queued
<1>3. CASE u = t
  <2>1. Put(queues, t, k)[u] = Append(queues[t], k)
    BY <1>3 DEF Put
  <2>2. queues[t] \in Seq(S)
    OBVIOUS
  <2>3. CASE i = Len(queues[t]) + 1
    BY <1>1, <2>1, <2>2, <2>3
  <2>4. CASE i \in 1..Len(queues[t])
    BY <1>1, <2>1, <2>2, <2>4 DEF Queued
  <2> QED
    BY <1>1, <2>1, <2>2, <2>3, <2>4
<1> QED
  BY <1>2, <1>3

LEMMA TakeType ==
    ASSUME NEW S, NEW queues \in [Transports -> Seq(S)], NEW t \in Transports,
           queues[t] # <<>>
    PROVE  /\ [queues EXCEPT ![t] = Tail(@)] \in [Transports -> Seq(S)]
           /\ Head(queues[t]) \in S
           /\ Queued(queues, Head(queues[t]))
<1>1. queues[t] \in Seq(S) /\ Len(queues[t]) > 0
  OBVIOUS
<1>2. Tail(queues[t]) \in Seq(S) /\ Head(queues[t]) \in S
  BY <1>1
<1>3. queues[t][1] = Head(queues[t]) /\ 1 \in 1..Len(queues[t])
  BY <1>1
<1> QED
  BY <1>2, <1>3 DEF Queued, Transports

LEMMA TakeQueued ==
    ASSUME NEW S, NEW queues \in [Transports -> Seq(S)], NEW t \in Transports,
           queues[t] # <<>>, NEW m,
           Queued([queues EXCEPT ![t] = Tail(@)], m)
    PROVE  Queued(queues, m)
<1> DEFINE rest == [queues EXCEPT ![t] = Tail(@)]
<1>0. PICK u \in Transports : \E i \in 1..Len(rest[u]) : rest[u][i] = m
  BY DEF Queued
<1>1. PICK i \in 1..Len(rest[u]) : rest[u][i] = m
  BY <1>0
<1>2. CASE u # t
  BY <1>1, <1>2 DEF Queued
<1>3. CASE u = t
  <2>1. queues[t] \in Seq(S) /\ rest[t] = Tail(queues[t])
    OBVIOUS
  <2>2. i + 1 \in 1..Len(queues[t]) /\ queues[t][i + 1] = m
    BY <1>1, <1>3, <2>1
  <2> QED
    BY <2>2 DEF Queued
<1> QED
  BY <1>2, <1>3

LEMMA DropQueued ==
    ASSUME NEW S, NEW queues \in [Transports -> Seq(S)], NEW t \in Transports
    PROVE  /\ [queues EXCEPT ![t] = <<>>] \in [Transports -> Seq(S)]
           /\ \A m : Queued([queues EXCEPT ![t] = <<>>], m) => Queued(queues, m)
BY DEF Queued, Transports

LEMMA EmptyQueued ==
    ASSUME NEW S
    PROVE  /\ [t \in Transports |-> <<>>] \in [Transports -> Seq(S)]
           /\ \A m : ~Queued([t \in Transports |-> <<>>], m)
BY DEF Queued, Transports

----------------------------------------------------------------------------
(* Sending: type, and what it can add to the queues. *)

LEMMA SendType ==
    ASSUME TypeOK, NEW k \in ClientKinds
    PROVE  /\ SendSignal(k) \in [Transports -> Seq(ClientKinds)]
           /\ SendReliable(k) \in [Transports -> Seq(ClientKinds)]
<1>1. \A t \in Transports : Put(toServer, t, k) \in [Transports -> Seq(ClientKinds)]
  BY PutType DEF TypeOK
<1> QED
  BY <1>1 DEF SendSignal, SendReliable, Transports, TypeOK

LEMMA SendQueued ==
    ASSUME TypeOK, NEW k \in ClientKinds, NEW m,
           Queued(SendSignal(k), m) \/ Queued(SendReliable(k), m)
    PROVE  m = k \/ Queued(toServer, m)
<1>1. \A t \in Transports : Queued(Put(toServer, t, k), m) => m = k \/ Queued(toServer, m)
  BY PutQueued DEF TypeOK
<1> QED
  BY <1>1 DEF SendSignal, SendReliable, Transports

LEMMA SetStateType ==
    ASSUME TypeOK, NEW next \in ClientStates, SetState(next)
    PROVE  state' \in ClientStates /\ breaks' \in Nat
BY DEF SetState, Broken, TypeOK

LEMMA ReceiveType ==
    ASSUME TypeOK, NEW t \in Transports, NEW k, Receive(t, k)
    PROVE  /\ toClient' \in [Transports -> Seq(ServerKinds)]
           /\ Queued(toClient, k)
           /\ \A m : Queued(toClient, m)' => Queued(toClient, m)
<1>1. toClient \in [Transports -> Seq(ServerKinds)] /\ toClient[t] # <<>>
  BY DEF TypeOK, Receive
<1>2. toClient' = [toClient EXCEPT ![t] = Tail(@)] /\ Head(toClient[t]) = k
  BY DEF Receive
<1>3. toClient' \in [Transports -> Seq(ServerKinds)] /\ Queued(toClient, k)
  BY <1>1, <1>2, TakeType
<1>4. ASSUME NEW m, Queued(toClient, m)'
      PROVE  Queued(toClient, m)
  <2>1. Queued([toClient EXCEPT ![t] = Tail(@)], m)
    BY <1>2, <1>4 DEF Queued
  <2> QED
    BY <1>1, <2>1, TakeQueued
<1> QED
  BY <1>3, <1>4

(* What close() leaves behind. *)
LEMMA CloseType ==
    ASSUME TypeOK, Close
    PROVE  /\ toClient' \in [Transports -> Seq(ServerKinds)]
           /\ toServer' \in [Transports -> Seq(ClientKinds)]
           /\ \A m : ~Queued(toClient, m)'
           /\ Queued(toServer, "handshake")' => Queued(toServer, "handshake")
<1>1. /\ toClient' = [t \in Transports |-> <<>>]
      /\ toServer' = [SendSignal("disconnect") EXCEPT !["dc"] = <<>>]
  BY DEF Close, CloseSocket
<1>2. "disconnect" \in ClientKinds /\ "dc" \in Transports
  BY DEF ClientKinds, Transports
<1>3. SendSignal("disconnect") \in [Transports -> Seq(ClientKinds)]
  BY <1>2, SendType
<1>4. toServer' \in [Transports -> Seq(ClientKinds)]
  BY <1>1, <1>2, <1>3, DropQueued
<1>5. toClient' \in [Transports -> Seq(ServerKinds)]
  BY <1>1, EmptyQueued
<1>6. \A m : ~Queued(toClient, m)'
  <2>1. \A m : ~Queued([t \in Transports |-> <<>>], m)
    BY EmptyQueued
  <2> QED
    BY <1>1, <2>1 DEF Queued
<1>7. ASSUME Queued(toServer, "handshake")'
      PROVE  Queued(toServer, "handshake")
  <2>1. Queued([SendSignal("disconnect") EXCEPT !["dc"] = <<>>], "handshake")
    BY <1>1, <1>7 DEF Queued
  <2>2. Queued(SendSignal("disconnect"), "handshake")
    BY <1>2, <1>3, <2>1, DropQueued
  <2> QED
    BY <1>2, <2>2, SendQueued
<1> QED
  BY <1>4, <1>5, <1>6, <1>7

(* What a socket that goes down takes with it. *)
LEMMA SocketLoss ==
    ASSUME TypeOK, SocketError \/ SocketClosed
    PROVE  /\ toClient' \in [Transports -> Seq(ServerKinds)]
           /\ toServer' \in [Transports -> Seq(ClientKinds)]
           /\ \A m : Queued(toClient, m)' => Queued(toClient, m)
           /\ \A m : Queued(toServer, m)' => Queued(toServer, m)
<1>1. "ws" \in Transports
  BY DEF Transports
<1>2. toClient' = [toClient EXCEPT !["ws"] = <<>>]
  BY DEF SocketError, SocketClosed
<1>3. toServer' = toServer \/ toServer' = [toServer EXCEPT !["ws"] = <<>>]
  BY DEF SocketError, SocketClosed
<1>4. /\ toClient' \in [Transports -> Seq(ServerKinds)]
      /\ \A m : Queued([toClient EXCEPT !["ws"] = <<>>], m) => Queued(toClient, m)
  BY <1>1, <1>2, DropQueued DEF TypeOK
<1>5. toServer \in [Transports -> Seq(ClientKinds)]
  BY DEF TypeOK
<1>6. /\ [toServer EXCEPT !["ws"] = <<>>] \in [Transports -> Seq(ClientKinds)]
      /\ \A m : Queued([toServer EXCEPT !["ws"] = <<>>], m) => Queued(toServer, m)
  BY <1>1, <1>5, DropQueued
<1> QED
  BY <1>2, <1>3, <1>4, <1>5, <1>6 DEF Queued

----------------------------------------------------------------------------
(* The type invariant. *)

LEMMA TypeStep == TypeOK /\ [Next]_vars => TypeOK'
<1> SUFFICES ASSUME TypeOK, [Next]_vars
             PROVE  TypeOK'
  OBVIOUS
<1> USE DEF client, server, history
<1>1. CASE Connect
  BY <1>1, SetStateType DEF Connect, TypeOK, ClientStates
<1>2. ASSUME Close PROVE TypeOK'
  <2>1. state' \in ClientStates /\ breaks' \in Nat
    BY <1>2, SetStateType DEF Close, CloseSocket, ClientStates
  <2> QED
    BY <1>2, <2>1, CloseType DEF Close, CloseSocket, TypeOK
<1>3. CASE SocketOpen
  <2>1. toServer' \in [Transports -> Seq(ClientKinds)]
    BY <1>3, PutType DEF SocketOpen, TypeOK, Transports, ClientKinds
  <2> QED
    BY <1>3, <2>1 DEF SocketOpen, TypeOK
<1>4. CASE SocketError \/ SocketClosed
  <2>1. state' \in ClientStates /\ breaks' \in Nat
    BY <1>4, SetStateType DEF SocketError, SocketClosed, ClientStates, TypeOK
  <2> QED
    BY <1>4, <2>1, SocketLoss DEF SocketError, SocketClosed, TypeOK
<1>5. CASE Signal
  <2>1. "ws" \in Transports
    BY DEF Transports
  <2>2. toClient' \in [Transports -> Seq(ServerKinds)]
    BY <1>5, <2>1, ReceiveType
       DEF Signal, OnConnectResponse, OnIceServers, OnOffer, OnCandidate, OnMalformed
  <2>3. state' \in ClientStates /\ breaks' \in Nat
    BY <1>5, SetStateType
       DEF Signal, OnConnectResponse, OnIceServers, OnOffer, OnCandidate, OnMalformed,
           ClientStates, TypeOK
  <2>4. CASE OnConnectResponse \/ OnMalformed
    BY <2>2, <2>3, <2>4 DEF OnConnectResponse, OnMalformed, TypeOK
  <2>6. CASE OnIceServers
    BY <2>2, <2>6 DEF OnIceServers, TypeOK
  <2>7. CASE OnOffer
    BY <2>2, <2>7 DEF OnOffer, TypeOK
  <2>5. CASE \E ok \in BOOLEAN : OnCandidate(ok)
    BY <2>2, <2>3, <2>5 DEF OnCandidate, TypeOK
  <2> QED
    BY <1>5, <2>4, <2>5, <2>6, <2>7 DEF Signal
<1>6. ASSUME NEW t \in Transports, HandleCommand(t) PROVE TypeOK'
  <2>1. CASE HandleSetup(t)
    <3>1. toClient' \in [Transports -> Seq(ServerKinds)]
      BY <2>1, ReceiveType DEF HandleSetup
    <3>2. state' \in ClientStates /\ breaks' \in Nat
      BY <2>1, SetStateType DEF HandleSetup, ClientStates, TypeOK
    <3>3. toServer' \in [Transports -> Seq(ClientKinds)]
      BY <2>1, SendType DEF HandleSetup, ClientKinds, TypeOK
    <3> QED
      BY <2>1, <3>1, <3>2, <3>3 DEF HandleSetup, TypeOK
  <2>2. CASE HandleAckHandshake(t)
    <3>1. toClient' \in [Transports -> Seq(ServerKinds)]
      BY <2>2, ReceiveType DEF HandleAckHandshake
    <3>2. state' \in ClientStates /\ breaks' \in Nat
      BY <2>2, SetStateType DEF HandleAckHandshake, ClientStates
    <3> QED
      BY <2>2, <3>1, <3>2 DEF HandleAckHandshake, TypeOK
  <2>3. CASE HandleQuery(t)
    <3>1. toClient' \in [Transports -> Seq(ServerKinds)]
      BY <2>3, ReceiveType DEF HandleQuery
    <3>2. toServer' \in [Transports -> Seq(ClientKinds)]
      BY <2>3, SendType DEF HandleQuery, ClientKinds
    <3> QED
      BY <2>3, <3>1, <3>2 DEF HandleQuery, TypeOK
  <2>4. CASE HandleShutdown(t)
    BY <1>2, <2>4 DEF HandleShutdown
  <2> QED
    BY <1>6, <2>1, <2>2, <2>3, <2>4 DEF HandleCommand
<1>7. ASSUME NEW ok \in BOOLEAN, FinishOffer(ok) PROVE TypeOK'
  <2>1. state' \in ClientStates /\ breaks' \in Nat
    BY <1>7, SetStateType DEF FinishOffer, ClientStates, TypeOK
  <2>2. toServer' \in [Transports -> Seq(ClientKinds)]
    BY <1>7, SendType DEF FinishOffer, ClientKinds, TypeOK
  <2> QED
    BY <1>7, <2>1, <2>2 DEF FinishOffer, TypeOK
<1>8. CASE LocalCandidate
  <2>1. toServer' \in [Transports -> Seq(ClientKinds)]
    BY <1>8, SendType DEF LocalCandidate, ClientKinds
  <2> QED
    BY <1>8, <2>1 DEF LocalCandidate, TypeOK
<1>9. CASE BindChannel \/ OpenChannel
  BY <1>9 DEF BindChannel, OpenChannel, TypeOK
<1>10. CASE LoseChannel
  <2>1. /\ toClient' \in [Transports -> Seq(ServerKinds)]
        /\ toServer' \in [Transports -> Seq(ClientKinds)]
    BY <1>10, DropQueued DEF LoseChannel, TypeOK, Transports
  <2> QED
    BY <1>10, <2>1 DEF LoseChannel, TypeOK
<1>11. ASSUME NEW t \in Transports, NEW k \in ServerKinds, ServerSend(t, k) PROVE TypeOK'
  <2>1. toClient' \in [Transports -> Seq(ServerKinds)]
    BY <1>11, PutType DEF ServerSend, TypeOK
  <2>2. sent' \in [ServerKinds -> Nat]
    BY <1>11 DEF ServerSend, TypeOK
  <2> QED
    BY <1>11, <2>1, <2>2 DEF ServerSend, TypeOK
<1>12. ASSUME NEW t \in Transports, ServerReceive(t) PROVE TypeOK'
  <2>1. /\ toServer' \in [Transports -> Seq(ClientKinds)]
        /\ Head(toServer[t]) \in ClientKinds
    BY <1>12, TakeType DEF ServerReceive, TypeOK
  <2>2. got' \in [ClientKinds -> Nat]
    BY <1>12, <2>1 DEF ServerReceive, TypeOK
  <2> QED
    BY <1>12, <2>1, <2>2 DEF ServerReceive, TypeOK
<1>13. CASE UNCHANGED vars
  BY <1>13 DEF vars, TypeOK
<1> QED
  BY <1>1, <1>2, <1>3, <1>4, <1>5, <1>6, <1>7, <1>8, <1>9, <1>10, <1>11, <1>12, <1>13
     DEF Next, Host, Socket, Peer, Server

(* Every state of every run has its type, whatever the bounds. *)
THEOREM TypeCorrect == Spec => []TypeOK
<1>1. Init => TypeOK
  <2> SUFFICES ASSUME Init PROVE TypeOK
    OBVIOUS
  <2>1. /\ toClient \in [Transports -> Seq(ServerKinds)]
        /\ toServer \in [Transports -> Seq(ClientKinds)]
    BY EmptyQueued DEF Init
  <2> QED
    BY <2>1 DEF Init, TypeOK, ClientStates
<1>2. TypeOK /\ [Next]_vars => TypeOK'
  BY TypeStep
<1> QED
  BY <1>1, <1>2, PTL DEF Spec

----------------------------------------------------------------------------
(* What messages on their way imply. *)

LEMMA EstablishedStep == TypeOK /\ Established /\ [Next]_vars => Established'
<1> SUFFICES ASSUME TypeOK, Established, [Next]_vars
             PROVE  Established'
  OBVIOUS
<1> USE DEF client, server, history
<1>1. CASE Connect
  BY <1>1 DEF Connect, SetState, Broken, Established, Queued
<1>2. ASSUME Close PROVE Established'
  BY <1>2, CloseType DEF Close, CloseSocket, SetState, Broken, Established
<1>3. CASE SocketOpen
  <2>1. Queued(toServer, "handshake")' => Queued(toServer, "handshake")
    <3> SUFFICES ASSUME Queued(toServer, "handshake")'
                 PROVE  Queued(toServer, "handshake")
      OBVIOUS
    <3>1. Queued(Put(toServer, "ws", "connect"), "handshake")
      BY <1>3 DEF SocketOpen, Queued
    <3>2. "ws" \in Transports /\ "connect" \in ClientKinds
      BY DEF Transports, ClientKinds
    <3> QED
      BY <3>1, <3>2, PutQueued DEF TypeOK
  <2> QED
    BY <1>3, <2>1 DEF SocketOpen, Established, Queued
<1>4. CASE SocketError \/ SocketClosed
  BY <1>4, SocketLoss DEF SocketError, SocketClosed, SetState, Established
<1>5. CASE Signal
  <2>1. "ws" \in Transports
    BY DEF Transports
  <2>2. \A m : Queued(toClient, m)' => Queued(toClient, m)
    BY <1>5, <2>1, ReceiveType
       DEF Signal, OnConnectResponse, OnIceServers, OnOffer, OnCandidate, OnMalformed
  <2>3. /\ state' = "streaming" => state = "streaming"
        /\ datum' = datum /\ got' = got /\ toServer' = toServer
    BY <1>5
       DEF Signal, OnConnectResponse, OnIceServers, OnOffer, OnCandidate, OnMalformed, SetState, Broken
  <2> QED
    BY <2>2, <2>3 DEF Established, Queued
<1>6. ASSUME NEW t \in Transports, HandleCommand(t) PROVE Established'
  <2>1. CASE HandleSetup(t)
    <3>1. Queued(toClient, "ackHandshake")' => Queued(toClient, "ackHandshake")
      BY <2>1, ReceiveType DEF HandleSetup
    <3>2. /\ datum' = TRUE /\ got' = got
          /\ state' = "streaming" => state = "streaming"
      BY <2>1 DEF HandleSetup, SetState, Broken
    <3> QED
      BY <3>1, <3>2 DEF Established
  <2>2. CASE HandleAckHandshake(t)
    <3>1. /\ Queued(toClient, "ackHandshake")
          /\ \A m : Queued(toClient, m)' => Queued(toClient, m)
      BY <2>2, ReceiveType DEF HandleAckHandshake
    <3>2. datum' = datum /\ got' = got /\ toServer' = toServer
      BY <2>2 DEF HandleAckHandshake
    <3> QED
      BY <3>1, <3>2 DEF Established, Queued
  <2>3. CASE HandleQuery(t)
    <3>1. PICK k \in {"ping", "lighting"} :
            /\ Receive(t, k)
            /\ toServer' = SendReliable(IF k = "ping" THEN "pong" ELSE "ack")
            /\ UNCHANGED <<state, datum, got>>
      BY <2>3 DEF HandleQuery
    <3>2. \A m : Queued(toClient, m)' => Queued(toClient, m)
      BY <3>1, ReceiveType
    <3>3. ASSUME Queued(toServer, "handshake")' PROVE Queued(toServer, "handshake")
      <4> DEFINE reply == IF k = "ping" THEN "pong" ELSE "ack"
      <4>1. reply \in ClientKinds /\ reply # "handshake"
        BY DEF ClientKinds
      <4>2. Queued(SendReliable(reply), "handshake")
        BY <3>1, <3>3 DEF Queued
      <4> HIDE DEF reply
      <4> QED
        BY <4>1, <4>2, SendQueued
    <3> QED
      BY <3>1, <3>2, <3>3 DEF Established
  <2>4. CASE HandleShutdown(t)
    BY <1>2, <2>4 DEF HandleShutdown
  <2> QED
    BY <1>6, <2>1, <2>2, <2>3, <2>4 DEF HandleCommand
<1>7. ASSUME NEW ok \in BOOLEAN, FinishOffer(ok) PROVE Established'
  <2>1. ASSUME Queued(toServer, "handshake")' PROVE Queued(toServer, "handshake")
    <3>1. "answer" \in ClientKinds
      BY DEF ClientKinds
    <3>2. CASE ok
      <4>1. Queued(SendSignal("answer"), "handshake")
        BY <1>7, <2>1, <3>2 DEF FinishOffer, Queued
      <4> QED
        BY <3>1, <4>1, SendQueued
    <3>3. CASE ~ok
      BY <1>7, <2>1, <3>3 DEF FinishOffer, Queued
    <3> QED
      BY <3>2, <3>3
  <2> QED
    BY <1>7, <2>1 DEF FinishOffer, SetState, Broken, Established, Queued
<1>8. CASE LocalCandidate
  <2>1. ASSUME Queued(toServer, "handshake")' PROVE Queued(toServer, "handshake")
    <3>1. "candidate" \in ClientKinds
      BY DEF ClientKinds
    <3>2. Queued(SendSignal("candidate"), "handshake")
      BY <1>8, <2>1 DEF LocalCandidate, Queued
    <3> QED
      BY <3>1, <3>2, SendQueued
  <2> QED
    BY <1>8, <2>1 DEF LocalCandidate, Established, Queued
<1>9. CASE BindChannel \/ OpenChannel
  BY <1>9 DEF BindChannel, OpenChannel, Established, Queued
<1>10. CASE LoseChannel
  <2>1. "dc" \in Transports
    BY DEF Transports
  <2>2. \A m : Queued(toClient, m)' => Queued(toClient, m)
    BY <1>10, <2>1, DropQueued DEF LoseChannel, Queued, TypeOK
  <2>3. \A m : Queued(toServer, m)' => Queued(toServer, m)
    BY <1>10, <2>1, DropQueued DEF LoseChannel, Queued, TypeOK
  <2> QED
    BY <1>10, <2>2, <2>3 DEF LoseChannel, Established
<1>11. ASSUME NEW t \in Transports, NEW k \in ServerKinds, ServerSend(t, k)
       PROVE  Established'
  <2>1. ASSUME Queued(toClient, "ackHandshake")' PROVE got["handshake"] > 0
    <3>1. Queued(Put(toClient, t, k), "ackHandshake")
      BY <1>11, <2>1 DEF ServerSend, Queued
    <3>2. k = "ackHandshake" \/ Queued(toClient, "ackHandshake")
      BY <3>1, PutQueued DEF TypeOK
    <3>3. CASE k = "ackHandshake"
      BY <1>11, <3>3 DEF ServerSend, Due, TypeOK, ClientKinds
    <3> QED
      BY <3>2, <3>3 DEF Established
  <2> QED
    BY <1>11, <2>1 DEF ServerSend, Established, Queued
<1>12. ASSUME NEW t \in Transports, ServerReceive(t) PROVE Established'
  <2>1. /\ toServer[t] # <<>>
        /\ toServer' = [toServer EXCEPT ![t] = Tail(@)]
        /\ got' = [got EXCEPT ![Head(toServer[t])] = @ + 1]
        /\ UNCHANGED <<state, datum, toClient>>
    BY <1>12 DEF ServerReceive
  <2>2. Head(toServer[t]) \in ClientKinds /\ Queued(toServer, Head(toServer[t]))
    BY <2>1, TakeType DEF TypeOK
  <2>3. ASSUME Queued(toServer, "handshake")' PROVE Queued(toServer, "handshake")
    <3>1. Queued([toServer EXCEPT ![t] = Tail(@)], "handshake")
      BY <2>1, <2>3 DEF Queued
    <3> QED
      BY <2>1, <3>1, TakeQueued DEF TypeOK
  <2>4. /\ got["handshake"] > 0 => got'["handshake"] > 0
        /\ got'["handshake"] > 0 => got["handshake"] > 0 \/ Head(toServer[t]) = "handshake"
    BY <2>1, <2>2 DEF TypeOK, ClientKinds
  <2> QED
    BY <2>1, <2>2, <2>3, <2>4 DEF Established, Queued
<1>13. CASE UNCHANGED vars
  BY <1>13 DEF vars, Established, Queued
<1> QED
  BY <1>1, <1>2, <1>3, <1>4, <1>5, <1>6, <1>7, <1>8, <1>9, <1>10, <1>11, <1>12, <1>13
     DEF Next, Host, Socket, Peer, Server

(* "streaming" rests on a handshake the server holds and a known clock datum,
   whichever transports the messages took and whatever was lost. *)
THEOREM StreamingCorrect == Spec => []StreamingIsEstablished
<1>1. Init => Established
  BY EmptyQueued DEF Init, Established, ClientKinds
<1>2. TypeOK /\ Established /\ [Next]_vars => Established'
  BY EstablishedStep
<1>3. TypeOK /\ Established => StreamingIsEstablished
  BY DEF Established, StreamingIsEstablished
<1> QED
  BY <1>1, <1>2, <1>3, TypeCorrect, PTL DEF Spec

----------------------------------------------------------------------------
(* close() is final. *)

LEMMA DownStep == TypeOK /\ Down /\ [Next]_vars => Down'
<1> SUFFICES ASSUME TypeOK, Down, [Next]_vars
             PROVE  Down'
  OBVIOUS
<1> USE DEF client, server, history
<1>1. ASSUME Close PROVE Down'
  BY <1>1 DEF Close, CloseSocket, SetState, Broken, Down, TypeOK
<1>2. CASE Connect \/ Socket
  BY <1>2 DEF Connect, Socket, SocketOpen, SocketError, SocketClosed, SetState, Broken, Down
<1>3. CASE Signal
  BY <1>3 DEF Signal, OnConnectResponse, OnIceServers, OnOffer, OnCandidate, OnMalformed,
              Receive, Readable, Down
<1>4. ASSUME NEW t \in Transports, HandleCommand(t) PROVE Down'
  <2>1. CASE HandleSetup(t) \/ HandleAckHandshake(t) \/ HandleQuery(t)
    BY <2>1 DEF HandleSetup, HandleAckHandshake, HandleQuery, Receive, Readable, Down
  <2>2. CASE HandleShutdown(t)
    BY <1>1, <2>2 DEF HandleShutdown
  <2> QED
    BY <1>4, <2>1, <2>2 DEF HandleCommand
<1>5. CASE Peer
  BY <1>5 DEF Peer, FinishOffer, LocalCandidate, BindChannel, OpenChannel, LoseChannel,
              SetState, Broken, Down
<1>6. CASE Server
  BY <1>6 DEF Server, ServerSend, ServerReceive, Down
<1>7. CASE UNCHANGED vars
  BY <1>7 DEF vars, Down
<1> QED
  BY <1>1, <1>2, <1>3, <1>4, <1>5, <1>6, <1>7 DEF Next, Host

LEMMA QuietStep ==
    ASSUME TypeOK, Down, ended, [Next]_vars
    PROVE  /\ state' = "closed" \/ (state' = "error" /\ ws' = "failed")
           /\ handshakes' = handshakes
           /\ \A t \in Transports : Len(toServer'[t]) <= Len(toServer[t])
<1> USE DEF client, server, history
<1> DEFINE Told == state' = "closed" \/ (state' = "error" /\ ws' = "failed")
<1>1. /\ ws # "open" /\ dc # "open" /\ pc = "closed"
      /\ state = "closed" \/ (state = "error" /\ ws = "failed")
  BY DEF Down
<1>2. \A k : SendSignal(k) = toServer
  BY <1>1 DEF SendSignal
<1>3. \A t \in Transports : toServer[t] \in Seq(ClientKinds)
  BY DEF TypeOK
<1>4. \A t \in Transports : Len(toServer[t]) \in Nat
  BY <1>3
<1>5. CASE Close
  BY <1>2, <1>4, <1>5 DEF Close, CloseSocket, SetState, Broken, TypeOK, Transports
<1>6. CASE Connect \/ Socket
  <2>1. Told /\ handshakes' = handshakes
    BY <1>1, <1>6 DEF Connect, Socket, SocketOpen, SocketError, SocketClosed, SetState, Broken, Down
  <2>2. toServer' = toServer \/ toServer' = [toServer EXCEPT !["ws"] = <<>>]
    BY <1>1, <1>6 DEF Connect, Socket, SocketOpen, SocketError, SocketClosed, Down
  <2> QED
    BY <1>4, <2>1, <2>2 DEF TypeOK, Transports
<1>7. CASE Signal
  BY <1>1, <1>7 DEF Signal, OnConnectResponse, OnIceServers, OnOffer, OnCandidate,
                    OnMalformed, Receive, Readable
<1>8. ASSUME NEW t \in Transports, HandleCommand(t)
      PROVE  FALSE
  BY <1>1, <1>8 DEF HandleCommand, HandleSetup, HandleAckHandshake, HandleQuery,
                    HandleShutdown, Receive, Readable
<1>9. CASE Peer
  <2>1. Told /\ handshakes' = handshakes
    BY <1>1, <1>9 DEF Peer, FinishOffer, LocalCandidate, BindChannel, OpenChannel, LoseChannel
  <2>2. toServer' = toServer \/ toServer' = [toServer EXCEPT !["dc"] = <<>>]
    BY <1>1, <1>9 DEF Peer, FinishOffer, LocalCandidate, BindChannel, OpenChannel, LoseChannel
  <2> QED
    BY <1>4, <2>1, <2>2 DEF TypeOK, Transports
<1>10. CASE Server
  <2>1. Told /\ handshakes' = handshakes
    BY <1>1, <1>10 DEF Server, ServerSend, ServerReceive
  <2>2. CASE \E t \in Transports, k \in ServerKinds : ServerSend(t, k)
    BY <1>4, <2>1, <2>2 DEF ServerSend
  <2>3. ASSUME NEW t \in Transports, ServerReceive(t)
        PROVE  \A u \in Transports : Len(toServer'[u]) <= Len(toServer[u])
    <3>1. toServer[t] # <<>> /\ toServer' = [toServer EXCEPT ![t] = Tail(@)]
      BY <2>3 DEF ServerReceive
    <3>2. Len(Tail(toServer[t])) <= Len(toServer[t])
      BY <1>3, <3>1
    <3> QED
      BY <1>4, <3>1, <3>2 DEF TypeOK
  <2> QED
    BY <1>10, <2>1, <2>2, <2>3 DEF Server
<1>11. CASE UNCHANGED vars
  BY <1>1, <1>4, <1>11 DEF vars
<1> QED
  BY <1>5, <1>6, <1>7, <1>8, <1>9, <1>10, <1>11 DEF Next, Host

(* After close() both transports are down for good, so that sendReliable() finds
   none: the link that ResourceDelivery takes to be lost with close() is lost. *)
THEOREM DownCorrect == Spec => []Down
<1>1. Init => Down
  BY DEF Init, Down
<1>2. TypeOK /\ Down /\ [Next]_vars => Down'
  BY DownStep
<1> QED
  BY <1>1, <1>2, TypeCorrect, PTL DEF Spec

(* After close() no step moves the client or makes it send. *)
THEOREM CloseCorrect == Spec => CloseIsFinal
<1>1. TypeOK /\ Down /\ [Next]_vars =>
        [ended => /\ state' = "closed" \/ (state' = "error" /\ ws' = "failed")
                  /\ handshakes' = handshakes
                  /\ \A t \in Transports : Len(toServer'[t]) <= Len(toServer[t])]_vars
  BY QuietStep
<1> QED
  BY <1>1, TypeCorrect, DownCorrect, PTL DEF Spec, CloseIsFinal

----------------------------------------------------------------------------
(* The order of the messages on the signalling socket. *)

Has(q, k)   == \E i \in 1..Len(q) : q[i] = k
OnlyNoise(q) == \A i \in 1..Len(q) : q[i] = "malformed"

(* Nothing but malformed frames comes before a connectResponse. *)
ResponseFirst(q) ==
    \A i \in 1..Len(q) : q[i] = "connectResponse" => \A j \in 1..(i - 1) : q[j] = "malformed"

(* An offer comes after the ICE servers, unless they are applied already. *)
IceFirst(q, applied) ==
    \A i \in 1..Len(q) :
        q[i] = "offer" => applied \/ \E j \in 1..(i - 1) : q[j] = "iceServers"

LEMMA TailOrder ==
    ASSUME NEW q \in Seq(ServerKinds), q # <<>>
    PROVE  /\ OnlyNoise(q) => OnlyNoise(Tail(q))
           /\ ResponseFirst(q) => ResponseFirst(Tail(q))
           /\ \A k : Has(Tail(q), k) => Has(q, k)
           /\ \A k : Has(q, k) /\ Head(q) # k => Has(Tail(q), k)
           /\ Has(q, Head(q))
           /\ \A b, c \in BOOLEAN :
                  IceFirst(q, b) /\ (b \/ Head(q) = "iceServers" => c) => IceFirst(Tail(q), c)
<1>1. /\ Tail(q) \in Seq(ServerKinds) /\ Len(Tail(q)) = Len(q) - 1
      /\ Len(q) \in Nat \ {0} /\ Head(q) = q[1]
  OBVIOUS
<1>2. \A i \in 1..Len(Tail(q)) : Tail(q)[i] = q[i + 1] /\ i + 1 \in 1..Len(q)
  BY <1>1
<1>3. OnlyNoise(q) => OnlyNoise(Tail(q))
  BY <1>2 DEF OnlyNoise
<1>4. ASSUME ResponseFirst(q) PROVE ResponseFirst(Tail(q))
  <2> SUFFICES ASSUME NEW i \in 1..Len(Tail(q)), Tail(q)[i] = "connectResponse",
                      NEW j \in 1..(i - 1)
               PROVE  Tail(q)[j] = "malformed"
    BY DEF ResponseFirst
  <2>1. q[i + 1] = "connectResponse" /\ i + 1 \in 1..Len(q)
    BY <1>2
  <2>2. j + 1 \in 1..((i + 1) - 1) /\ j \in 1..Len(Tail(q))
    BY <1>1
  <2>3. q[j + 1] = "malformed"
    BY <1>4, <2>1, <2>2 DEF ResponseFirst
  <2> QED
    BY <1>2, <2>2, <2>3
<1>5. \A k : Has(Tail(q), k) => Has(q, k)
  BY <1>2 DEF Has
<1>6. ASSUME NEW k, Has(q, k), Head(q) # k PROVE Has(Tail(q), k)
  <2>1. PICK i \in 1..Len(q) : q[i] = k
    BY <1>6 DEF Has
  <2>2. i # 1
    BY <1>1, <1>6, <2>1
  <2>3. i - 1 \in 1..Len(Tail(q)) /\ (i - 1) + 1 = i
    BY <1>1, <2>1, <2>2
  <2> QED
    BY <1>2, <2>1, <2>3 DEF Has
<1>7. Has(q, Head(q))
  BY <1>1 DEF Has
<1>8. ASSUME NEW b \in BOOLEAN, NEW c \in BOOLEAN,
             IceFirst(q, b), b \/ Head(q) = "iceServers" => c
      PROVE  IceFirst(Tail(q), c)
  <2> SUFFICES ASSUME NEW i \in 1..Len(Tail(q)), Tail(q)[i] = "offer", ~c
               PROVE  \E j \in 1..(i - 1) : Tail(q)[j] = "iceServers"
    BY DEF IceFirst
  <2>1. q[i + 1] = "offer" /\ i + 1 \in 1..Len(q)
    BY <1>2
  <2>2. PICK j \in 1..((i + 1) - 1) : q[j] = "iceServers"
    BY <1>8, <2>1 DEF IceFirst
  <2>3. j # 1
    BY <1>1, <1>8, <2>2
  <2>4. j - 1 \in 1..(i - 1) /\ j - 1 \in 1..Len(Tail(q)) /\ (j - 1) + 1 = j
    BY <1>1, <2>2, <2>3
  <2> QED
    BY <1>2, <2>2, <2>4
<1> QED
  BY <1>3, <1>4, <1>5, <1>6, <1>7, <1>8

LEMMA AppendOrder ==
    ASSUME NEW q \in Seq(ServerKinds), NEW k \in ServerKinds
    PROVE  /\ OnlyNoise(q) /\ k = "malformed" => OnlyNoise(Append(q, k))
           /\ OnlyNoise(q) => ResponseFirst(Append(q, k))
           /\ ResponseFirst(q) /\ k # "connectResponse" => ResponseFirst(Append(q, k))
           /\ \A m : Has(Append(q, k), m) <=> Has(q, m) \/ m = k
           /\ \A b \in BOOLEAN :
                  IceFirst(q, b) /\ (k = "offer" => b \/ Has(q, "iceServers"))
                  => IceFirst(Append(q, k), b)
<1>1. /\ Append(q, k) \in Seq(ServerKinds) /\ Len(Append(q, k)) = Len(q) + 1
      /\ Len(q) \in Nat
      /\ Append(q, k)[Len(q) + 1] = k
      /\ \A i \in 1..Len(q) : Append(q, k)[i] = q[i]
  OBVIOUS
<1>2. \A i \in 1..(Len(q) + 1) : i = Len(q) + 1 \/ i \in 1..Len(q)
  BY <1>1
<1>3. OnlyNoise(q) /\ k = "malformed" => OnlyNoise(Append(q, k))
  BY <1>1, <1>2 DEF OnlyNoise
<1>4. OnlyNoise(q) => ResponseFirst(Append(q, k))
  <2> SUFFICES ASSUME OnlyNoise(q), NEW i \in 1..(Len(q) + 1), NEW j \in 1..(i - 1)
               PROVE  Append(q, k)[j] = "malformed"
    BY <1>1 DEF ResponseFirst
  <2>1. j \in 1..Len(q)
    BY <1>1
  <2> QED
    BY <1>1, <2>1 DEF OnlyNoise
<1>5. ASSUME ResponseFirst(q), k # "connectResponse" PROVE ResponseFirst(Append(q, k))
  <2> SUFFICES ASSUME NEW i \in 1..(Len(q) + 1), Append(q, k)[i] = "connectResponse",
                      NEW j \in 1..(i - 1)
               PROVE  Append(q, k)[j] = "malformed"
    BY <1>1 DEF ResponseFirst
  <2>1. i \in 1..Len(q) /\ q[i] = "connectResponse"
    BY <1>1, <1>2, <1>5
  <2>2. q[j] = "malformed" /\ j \in 1..Len(q)
    BY <1>1, <1>5, <2>1 DEF ResponseFirst
  <2> QED
    BY <1>1, <2>2
<1>6. \A m : Has(Append(q, k), m) <=> Has(q, m) \/ m = k
  <2> TAKE m
  <2>1. Has(q, m) => Has(Append(q, k), m)
    BY <1>1 DEF Has
  <2>2. m = k => Has(Append(q, k), m)
    BY <1>1 DEF Has
  <2>3. Has(Append(q, k), m) => Has(q, m) \/ m = k
    BY <1>1, <1>2 DEF Has
  <2> QED
    BY <2>1, <2>2, <2>3
<1>7. ASSUME NEW b \in BOOLEAN, IceFirst(q, b), k = "offer" => b \/ Has(q, "iceServers")
      PROVE  IceFirst(Append(q, k), b)
  <2> SUFFICES ASSUME NEW i \in 1..(Len(q) + 1), Append(q, k)[i] = "offer", ~b
               PROVE  \E j \in 1..(i - 1) : Append(q, k)[j] = "iceServers"
    BY <1>1 DEF IceFirst
  <2>1. CASE i = Len(q) + 1
    <3>1. PICK j \in 1..Len(q) : q[j] = "iceServers"
      BY <1>1, <1>7, <2>1 DEF Has
    <3> QED
      BY <1>1, <2>1, <3>1
  <2>2. CASE i \in 1..Len(q)
    <3>1. PICK j \in 1..(i - 1) : q[j] = "iceServers"
      BY <1>1, <1>7, <2>2 DEF IceFirst
    <3>2. j \in 1..Len(q)
      BY <1>1, <2>2, <3>1
    <3> QED
      BY <1>1, <3>1, <3>2
  <2> QED
    BY <1>2, <2>1, <2>2
<1> QED
  BY <1>3, <1>4, <1>5, <1>6, <1>7

(* What a step does to the messages on the signalling socket, to the counts of
   what the server has sent, and to the peer connection's part of an offer. *)
Listed == iceServers # "none"
PeerKept == Listed' = Listed /\ (accept' # "none" => accept # "none")
SocketIdle == toClient'["ws"] = toClient["ws"] /\ sent' = sent /\ PeerKept
SocketDrop == toClient'["ws"] = <<>> /\ sent' = sent /\ ws' # "open" /\ PeerKept
SocketTake ==
    /\ ws = "open"
    /\ toClient["ws"] # <<>>
    /\ toClient'["ws"] = Tail(toClient["ws"])
    /\ sent' = sent
    /\ Listed' = (Listed \/ Head(toClient["ws"]) = "iceServers")
    /\ accept' # "none" => accept # "none" \/ Head(toClient["ws"]) = "offer"
SocketPut(k) ==
    /\ Due(k)
    /\ ws = "open"
    /\ toClient'["ws"] = Append(toClient["ws"], k)
    /\ PeerKept
    /\ sent' = [sent EXCEPT ![k] = @ + 1]
ChannelPut(k) ==
    /\ Due(k)
    /\ k \in CommandKinds
    /\ dc # "none"
    /\ toClient'["ws"] = toClient["ws"]
    /\ PeerKept
    /\ sent' = [sent EXCEPT ![k] = @ + 1]

LEMMA SocketStep ==
    ASSUME TypeOK, [Next]_vars
    PROVE  \/ SocketIdle \/ SocketDrop \/ SocketTake
           \/ \E k \in ServerKinds : SocketPut(k) \/ ChannelPut(k)
<1> USE DEF client, server, history, PeerKept, Listed
<1>1. ASSUME Close PROVE SocketDrop
  BY <1>1 DEF Close, CloseSocket, SocketDrop, Transports, TypeOK
<1>2. CASE Connect \/ SocketOpen
  BY <1>2 DEF Connect, SocketOpen, SocketIdle
<1>3. ASSUME SocketError \/ SocketClosed PROVE SocketDrop
  BY <1>3 DEF SocketError, SocketClosed, SocketDrop, Transports, TypeOK
<1>4. ASSUME NEW t \in Transports, NEW k, Receive(t, k), sent' = sent,
             Listed' = (Listed \/ k = "iceServers"),
             accept' # "none" => accept # "none" \/ k = "offer",
             t = "ws" \/ k \in CommandKinds
      PROVE  SocketIdle \/ SocketTake
  <2>1. CASE t = "ws"
    BY <1>4, <2>1 DEF Receive, Readable, SocketTake, TypeOK
  <2>2. CASE t = "dc"
    BY <1>4, <2>2 DEF Receive, SocketIdle, CommandKinds, Transports, TypeOK
  <2> QED
    BY <2>1, <2>2 DEF Transports
<1>5. CASE Signal
  <2>1. "ws" \in Transports /\ Listed \in BOOLEAN
    BY DEF Transports, TypeOK
  <2>2. CASE OnConnectResponse \/ OnMalformed \/ \E ok \in BOOLEAN : OnCandidate(ok)
    BY <1>4, <2>1, <2>2 DEF OnConnectResponse, OnMalformed, OnCandidate
  <2>3. CASE OnIceServers
    BY <1>4, <2>1, <2>3 DEF OnIceServers
  <2>4. CASE OnOffer
    BY <1>4, <2>1, <2>4 DEF OnOffer
  <2> QED
    BY <1>5, <2>2, <2>3, <2>4 DEF Signal
<1>6. ASSUME NEW t \in Transports, HandleCommand(t)
      PROVE  SocketIdle \/ SocketTake \/ SocketDrop
  <2>1. CASE HandleShutdown(t)
    BY <1>1, <2>1 DEF HandleShutdown
  <2>2. CASE HandleSetup(t) \/ HandleAckHandshake(t) \/ HandleQuery(t)
    BY <1>4, <2>2 DEF HandleSetup, HandleAckHandshake, HandleQuery, CommandKinds, TypeOK
  <2> QED
    BY <1>6, <2>1, <2>2 DEF HandleCommand
<1>7. CASE Peer
  BY <1>7 DEF Peer, FinishOffer, LocalCandidate, BindChannel, OpenChannel, LoseChannel,
              SocketIdle, Transports, TypeOK
<1>8. ASSUME NEW t \in Transports, NEW k \in ServerKinds, ServerSend(t, k)
      PROVE  SocketPut(k) \/ ChannelPut(k)
  BY <1>8 DEF ServerSend, Put, SocketPut, ChannelPut, Transports, TypeOK
<1>9. ASSUME NEW t \in Transports, ServerReceive(t) PROVE SocketIdle
  BY <1>9 DEF ServerReceive, SocketIdle
<1>10. CASE UNCHANGED vars
  BY <1>10 DEF vars, SocketIdle
<1> QED
  BY <1>1, <1>2, <1>3, <1>5, <1>6, <1>7, <1>8, <1>9, <1>10 DEF Next, Host, Socket, Server

LEMMA SocketPhase ==
    ASSUME TypeOK, [Next]_vars
    PROVE  /\ ws' = "open" => ws \in {"connecting", "open"}
           /\ ws' \in {"none", "connecting"} => ws \in {"none", "connecting"}
<1> USE DEF client, server, history
<1>1. ASSUME Close PROVE ws' # "open" /\ (ws' # ws => ws' \in {"closing", "aborted"})
  BY <1>1 DEF Close, CloseSocket
<1>2. CASE Connect \/ Socket
  BY <1>2 DEF Connect, Socket, SocketOpen, SocketError, SocketClosed
<1>3. CASE Signal
  BY <1>3 DEF Signal, OnConnectResponse, OnIceServers, OnOffer, OnCandidate, OnMalformed
<1>4. ASSUME NEW t \in Transports, HandleCommand(t)
      PROVE  ws' = ws \/ ws' \in {"closing", "aborted"}
  BY <1>1, <1>4 DEF HandleCommand, HandleSetup, HandleAckHandshake, HandleQuery,
                    HandleShutdown
<1>5. CASE Peer
  BY <1>5 DEF Peer, FinishOffer, LocalCandidate, BindChannel, OpenChannel, LoseChannel
<1>6. CASE Server
  BY <1>6 DEF Server, ServerSend, ServerReceive
<1>7. CASE UNCHANGED vars
  BY <1>7 DEF vars
<1> QED
  BY <1>1, <1>2, <1>3, <1>4, <1>5, <1>6, <1>7 DEF Next, Host

----------------------------------------------------------------------------
(* The ICE servers come first. *)

IceOrder ==
    /\ ws \in {"none", "connecting"} => sent["iceServers"] = 0
    /\ ws = "open" /\ sent["iceServers"] > 0
       => Listed \/ Has(toClient["ws"], "iceServers")
    /\ IceFirst(toClient["ws"], Listed)
    /\ accept # "none" => Listed

LEMMA IceStep == TypeOK /\ IceOrder /\ [Next]_vars => IceOrder'
<1> SUFFICES ASSUME TypeOK, IceOrder, [Next]_vars
             PROVE  IceOrder'
  OBVIOUS
<1> DEFINE q == toClient["ws"]
           r == toClient'["ws"]
           Ordered == /\ ws' \in {"none", "connecting"} => sent'["iceServers"] = 0
                      /\ ws' = "open" /\ sent'["iceServers"] > 0
                         => Listed' \/ Has(r, "iceServers")
                      /\ IceFirst(r, Listed')
                      /\ accept' # "none" => Listed'
<1>1. q \in Seq(ServerKinds) /\ Listed \in BOOLEAN /\ sent["iceServers"] \in Nat
  BY DEF TypeOK, Transports, ServerKinds, SignalKinds, Listed
<1>2. SUFFICES Ordered
  BY DEF IceOrder, Has, IceFirst, Listed
<1>3. CASE SocketIdle
  BY <1>3, SocketPhase DEF SocketIdle, PeerKept, Listed, IceOrder
<1>4. CASE SocketDrop
  <2>1. IceFirst(r, Listed')
    BY <1>4 DEF SocketDrop, IceFirst
  <2> QED
    BY <1>4, <2>1, SocketPhase DEF SocketDrop, PeerKept, Listed, IceOrder
<1>5. CASE SocketTake
  <2>1. Listed' = (Listed \/ Head(q) = "iceServers") /\ Listed' \in BOOLEAN
    BY <1>5 DEF SocketTake
  <2>2. IceFirst(r, Listed')
    BY <1>1, <1>5, <2>1, TailOrder DEF SocketTake, IceOrder
  <2>3. Has(q, "iceServers") => Listed' \/ Has(r, "iceServers")
    BY <1>1, <1>5, <2>1, TailOrder DEF SocketTake
  <2>4. Head(q) = "offer" => Listed
    <3>1. Head(q) = q[1] /\ 1 \in 1..Len(q) /\ 1..(1 - 1) = {}
      BY <1>1, <1>5 DEF SocketTake
    <3> QED
      BY <3>1 DEF IceOrder, IceFirst
  <2> QED
    BY <1>5, <2>1, <2>2, <2>3, <2>4, SocketPhase DEF SocketTake, IceOrder
<1>6. ASSUME NEW k \in ServerKinds, SocketPut(k)
      PROVE  Ordered
  <2>1. k = "offer" => Listed \/ Has(q, "iceServers")
    BY <1>6 DEF SocketPut, Due, IceOrder
  <2>2. IceFirst(r, Listed')
    BY <1>1, <1>6, <2>1, AppendOrder DEF SocketPut, PeerKept, Listed, IceOrder
  <2>3. \A m : Has(r, m) <=> Has(q, m) \/ m = k
    BY <1>1, <1>6, AppendOrder DEF SocketPut
  <2>4. sent'["iceServers"] > 0 => sent["iceServers"] > 0 \/ k = "iceServers"
    BY <1>1, <1>6 DEF SocketPut, TypeOK
  <2>5. ws' \notin {"none", "connecting"}
    BY <1>6, SocketPhase DEF SocketPut
  <2> QED
    BY <1>6, <2>2, <2>3, <2>4, <2>5 DEF SocketPut, PeerKept, Listed, IceOrder
<1>7. ASSUME NEW k \in ServerKinds, ChannelPut(k)
      PROVE  Ordered
  <2>1. sent'["iceServers"] = sent["iceServers"]
    BY <1>7 DEF ChannelPut, CommandKinds, TypeOK
  <2> QED
    BY <1>7, <2>1, SocketPhase DEF ChannelPut, PeerKept, Listed, IceOrder
<1> QED
  BY <1>3, <1>4, <1>5, <1>6, <1>7, SocketStep

(* The offer is never handled before the server's ICE servers are applied,
   whatever else the socket carries between the two. *)
THEOREM IceCorrect == Spec => []OfferFollowsIceServers
<1>1. Init => IceOrder
  BY DEF Init, IceOrder, Listed, IceFirst, Transports, ServerKinds, SignalKinds
<1>2. IceOrder => OfferFollowsIceServers
  BY DEF IceOrder, OfferFollowsIceServers, Listed
<1> QED
  BY <1>1, <1>2, IceStep, TypeCorrect, PTL DEF Spec

----------------------------------------------------------------------------
(* Handshakes, and the falls that pay for them. *)

Live == {"handshake", "streaming"}

(* The connectResponse is still to come. *)
Fresh == sent["connectResponse"] = 0 \/ Has(toClient["ws"], "connectResponse")

Opening ==
    /\ sent["connectResponse"] = 0 =>
           /\ OnlyNoise(toClient["ws"])
           /\ \A k \in ServerKinds \ {"malformed"} : sent[k] = 0
    /\ ResponseFirst(toClient["ws"])

(* No offer was handled, no channel is bound, no setup was answered. *)
Untouched ==
    /\ accept = "none" /\ dc = "none"
    /\ got["answer"] = 0 /\ got["handshake"] = 0
    /\ ~Queued(toServer, "answer") /\ ~Queued(toServer, "handshake")
    /\ state \notin Live

Paid == handshakes <= IF state \in Live THEN breaks + 1 ELSE breaks

Attempts == Opening /\ (Fresh => Untouched) /\ Paid

LEMMA FirstSent ==
    ASSUME Attempts, sent["connectResponse"] = 0, NEW k \in ServerKinds, Due(k)
    PROVE  k \in {"connectResponse", "malformed"}
<1>1. /\ sent["iceServers"] = 0 /\ sent["offer"] = 0 /\ sent["setup"] = 0
      /\ sent["ackHandshake"] = 0
  BY DEF Attempts, Opening, ServerKinds, SignalKinds, CommandKinds
<1>2. got["handshake"] = 0
  BY DEF Attempts, Fresh, Untouched
<1> QED
  BY <1>1, <1>2 DEF Due, ServerKinds, SignalKinds, CommandKinds

LEMMA FreshHead ==
    ASSUME TypeOK, Opening, Fresh, toClient["ws"] # <<>>
    PROVE  Head(toClient["ws"]) \in {"connectResponse", "malformed"}
<1> DEFINE q == toClient["ws"]
<1>1. q \in Seq(ServerKinds)
  BY DEF TypeOK, Transports
<1>2. Head(q) = q[1] /\ 1 \in 1..Len(q) /\ Len(q) \in Nat
  BY <1>1
<1>3. CASE sent["connectResponse"] = 0
  BY <1>2, <1>3 DEF Opening, OnlyNoise
<1>4. CASE Has(q, "connectResponse")
  <2>1. PICK i \in 1..Len(q) : q[i] = "connectResponse"
    BY <1>4 DEF Has
  <2>2. i = 1 \/ 1 \in 1..(i - 1)
    BY <1>2, <2>1
  <2> QED
    BY <1>2, <2>1, <2>2 DEF Opening, ResponseFirst
<1> QED
  BY <1>3, <1>4 DEF Fresh

LEMMA OpeningStep ==
    ASSUME TypeOK, Attempts, [Next]_vars
    PROVE  Opening' /\ (Fresh' => Fresh)
<1> DEFINE q == toClient["ws"]
           r == toClient'["ws"]
           Order == /\ sent'["connectResponse"] = 0 =>
                           /\ OnlyNoise(r)
                           /\ \A k \in ServerKinds \ {"malformed"} : sent'[k] = 0
                    /\ ResponseFirst(r)
                    /\ sent'["connectResponse"] = 0 \/ Has(r, "connectResponse") => Fresh
<1>1. q \in Seq(ServerKinds) /\ "connectResponse" \in ServerKinds
  BY DEF TypeOK, Transports, ServerKinds, SignalKinds
<1>2. SUFFICES Order
  BY DEF Opening, Fresh, Has, OnlyNoise, ResponseFirst
<1>3. CASE SocketIdle
  BY <1>3 DEF SocketIdle, Attempts, Opening, Fresh
<1>4. CASE SocketDrop
  <2>1. OnlyNoise(r) /\ ResponseFirst(r) /\ ~Has(r, "connectResponse")
    BY <1>4 DEF SocketDrop, OnlyNoise, ResponseFirst, Has
  <2> QED
    BY <1>4, <2>1 DEF SocketDrop, Attempts, Opening, Fresh
<1>5. CASE SocketTake
  <2>1. /\ OnlyNoise(q) => OnlyNoise(r)
        /\ ResponseFirst(q) => ResponseFirst(r)
        /\ \A k : Has(r, k) => Has(q, k)
    BY <1>1, <1>5, TailOrder DEF SocketTake
  <2> QED
    BY <1>5, <2>1 DEF SocketTake, Attempts, Opening, Fresh
<1>6. ASSUME NEW k \in ServerKinds, SocketPut(k)
      PROVE  Order
  <2>1. /\ OnlyNoise(q) /\ k = "malformed" => OnlyNoise(r)
        /\ OnlyNoise(q) => ResponseFirst(r)
        /\ ResponseFirst(q) /\ k # "connectResponse" => ResponseFirst(r)
        /\ \A m : Has(r, m) <=> Has(q, m) \/ m = k
    BY <1>1, <1>6, AppendOrder DEF SocketPut
  <2>2. k = "connectResponse" => sent[k] = 0
    BY <1>6 DEF SocketPut, Due
  <2>3. sent["connectResponse"] = 0 => k \in {"connectResponse", "malformed"}
    BY <1>6, FirstSent DEF SocketPut
  <2>4. /\ \A m \in ServerKinds : m # k => sent'[m] = sent[m]
        /\ sent'[k] # 0
    BY <1>6 DEF SocketPut, TypeOK
  <2> QED
    BY <1>1, <2>1, <2>2, <2>3, <2>4 DEF Attempts, Opening, Fresh
<1>7. ASSUME NEW k \in ServerKinds, ChannelPut(k)
      PROVE  Order
  <2>1. ~Fresh
    BY <1>7 DEF ChannelPut, Attempts, Untouched
  <2>2. sent'["connectResponse"] = sent["connectResponse"]
    BY <1>1, <1>7 DEF ChannelPut, CommandKinds, TypeOK
  <2> QED
    BY <1>7, <2>1, <2>2 DEF ChannelPut, Attempts, Opening, Fresh
<1> QED
  BY <1>3, <1>4, <1>5, <1>6, <1>7, SocketStep

(* Nothing but a connectResponse or a malformed frame is received before the
   connectResponse is. *)
LEMMA FreshReceive ==
    ASSUME TypeOK, Attempts, Fresh, NEW t \in Transports, NEW k, Receive(t, k)
    PROVE  t = "ws" /\ k \in {"connectResponse", "malformed"}
<1>1. t = "ws"
  BY DEF Receive, Readable, Transports, Attempts, Untouched
<1> QED
  BY <1>1, FreshHead DEF Receive, Attempts

LEMMA UntouchedStep ==
    ASSUME TypeOK, Attempts, Fresh, [Next]_vars
    PROVE  Untouched'
<1> USE DEF client, server, history, Live
<1>1. /\ accept = "none" /\ dc = "none"
      /\ got["answer"] = 0 /\ got["handshake"] = 0
      /\ ~Queued(toServer, "answer") /\ ~Queued(toServer, "handshake")
      /\ state \notin Live
  BY DEF Attempts, Untouched
<1>2. ASSUME NEW m \in {"answer", "handshake"}, Queued(toServer, m)'
      PROVE  FALSE
  <2>1. "ws" \in Transports /\ "dc" \in Transports
    BY DEF Transports
  <2>2. "connect" \in ClientKinds /\ "disconnect" \in ClientKinds
    BY DEF ClientKinds
  <2>3. ASSUME toServer' = toServer PROVE FALSE
    BY <1>1, <1>2, <2>3 DEF Queued
  <2>4. ASSUME Close PROVE FALSE
    <3>1. Queued([SendSignal("disconnect") EXCEPT !["dc"] = <<>>], m)
      BY <1>2, <2>4 DEF Close, CloseSocket, Queued
    <3>2. Queued(SendSignal("disconnect"), m)
      BY <2>1, <2>2, <3>1, SendType, DropQueued
    <3> QED
      BY <1>1, <2>2, <3>2, SendQueued
  <2>5. CASE SocketOpen
    <3>1. Queued(Put(toServer, "ws", "connect"), m)
      BY <1>2, <2>5 DEF SocketOpen, Queued
    <3>2. toServer \in [Transports -> Seq(ClientKinds)]
      BY DEF TypeOK
    <3>3. m = "connect" \/ Queued(toServer, m)
      BY <2>1, <2>2, <3>1, <3>2, PutQueued
    <3> QED
      BY <1>1, <3>3
  <2>6. CASE SocketError \/ SocketClosed
    BY <1>1, <1>2, <2>6, SocketLoss
  <2>7. CASE Connect \/ Signal
    BY <2>3, <2>7 DEF Connect, Signal, OnConnectResponse, OnIceServers, OnOffer,
                      OnCandidate, OnMalformed
  <2>8. ASSUME NEW t \in Transports, HandleCommand(t) PROVE FALSE
    <3>1. CASE HandleShutdown(t)
      BY <2>4, <3>1 DEF HandleShutdown
    <3>2. \A k : Receive(t, k) => k \in {"connectResponse", "malformed"}
      BY FreshReceive
    <3>3. ~HandleSetup(t) /\ ~HandleAckHandshake(t) /\ ~HandleQuery(t)
      BY <3>2 DEF HandleSetup, HandleAckHandshake, HandleQuery
    <3> QED
      BY <2>8, <3>1, <3>3 DEF HandleCommand
  <2>9. CASE Peer
    BY <1>1, <2>9 DEF Peer, FinishOffer, LocalCandidate, BindChannel, OpenChannel, LoseChannel
  <2>10. ASSUME NEW t \in Transports, NEW k \in ServerKinds, ServerSend(t, k) PROVE FALSE
    BY <2>3, <2>10 DEF ServerSend
  <2>11. ASSUME NEW t \in Transports, ServerReceive(t) PROVE FALSE
    <3>1. Queued([toServer EXCEPT ![t] = Tail(@)], m) /\ toServer[t] # <<>>
      BY <1>2, <2>11 DEF ServerReceive, Queued
    <3> QED
      BY <1>1, <3>1, TakeQueued DEF TypeOK
  <2>12. CASE UNCHANGED vars
    BY <2>3, <2>12 DEF vars
  <2> QED
    BY <2>4, <2>5, <2>6, <2>7, <2>8, <2>9, <2>10, <2>11, <2>12
       DEF Next, Host, Socket, Server
<1> DEFINE Still == /\ accept' = "none" /\ dc' = "none"
                    /\ got'["answer"] = 0 /\ got'["handshake"] = 0
                    /\ state' \notin Live
<1>3. Still
  <2>1. ASSUME Close PROVE Still
    BY <1>1, <2>1 DEF Close, CloseSocket, SetState, Broken
  <2>2. CASE Connect \/ Socket
    BY <1>1, <2>2 DEF Connect, Socket, SocketOpen, SocketError, SocketClosed, SetState, Broken
  <2>3. CASE Signal
    <3>1. "ws" \in Transports
      BY DEF Transports
    <3>2. ~OnOffer
      BY <3>1, FreshReceive DEF OnOffer
    <3> QED
      BY <1>1, <2>3, <3>2
         DEF Signal, OnConnectResponse, OnIceServers, OnCandidate, OnMalformed, SetState, Broken
  <2>4. ASSUME NEW t \in Transports, HandleCommand(t) PROVE Still
    <3>1. CASE HandleShutdown(t)
      BY <2>1, <3>1 DEF HandleShutdown
    <3>2. \A k : Receive(t, k) => k \in {"connectResponse", "malformed"}
      BY FreshReceive
    <3>3. ~HandleSetup(t) /\ ~HandleAckHandshake(t) /\ ~HandleQuery(t)
      BY <3>2 DEF HandleSetup, HandleAckHandshake, HandleQuery
    <3> QED
      BY <2>4, <3>1, <3>3 DEF HandleCommand
  <2>5. CASE Peer
    BY <1>1, <2>5 DEF Peer, FinishOffer, LocalCandidate, BindChannel, OpenChannel, LoseChannel
  <2>6. ASSUME NEW t \in Transports, NEW k \in ServerKinds, ServerSend(t, k) PROVE Still
    BY <1>1, <2>6 DEF ServerSend
  <2>7. ASSUME NEW t \in Transports, ServerReceive(t) PROVE Still
    <3>1. Queued(toServer, Head(toServer[t])) /\ Head(toServer[t]) \in ClientKinds
      BY <2>7, TakeType DEF ServerReceive, TypeOK
    <3>2. Head(toServer[t]) # "answer" /\ Head(toServer[t]) # "handshake"
      BY <1>1, <3>1
    <3> QED
      BY <1>1, <2>7, <3>2 DEF ServerReceive, TypeOK, ClientKinds
  <2>8. CASE UNCHANGED vars
    BY <1>1, <2>8 DEF vars
  <2> QED
    BY <2>1, <2>2, <2>3, <2>4, <2>5, <2>6, <2>7, <2>8 DEF Next, Host, Server
<1> QED
  BY <1>2, <1>3 DEF Untouched, Queued

LEMMA PaidStep ==
    ASSUME TypeOK, Attempts, [Next]_vars
    PROVE  Paid'
<1> USE DEF client, server, history, Live
<1>1. /\ handshakes <= IF state \in Live THEN breaks + 1 ELSE breaks
      /\ handshakes \in Nat /\ breaks \in Nat
  BY DEF Attempts, Paid, TypeOK
<1>2. ASSUME Close PROVE Paid'
  BY <1>1, <1>2 DEF Close, CloseSocket, SetState, Broken, Paid
<1>3. CASE Connect \/ Socket
  BY <1>1, <1>3 DEF Connect, Socket, SocketOpen, SocketError, SocketClosed, SetState, Broken, Paid
<1>4. CASE OnConnectResponse
  <2>1. "ws" \in Transports
    BY DEF Transports
  <2>2. Has(toClient["ws"], "connectResponse")
    BY <1>4, <2>1, TailOrder DEF OnConnectResponse, Receive, TypeOK
  <2>3. state \notin Live
    BY <2>2 DEF Attempts, Fresh, Untouched
  <2> QED
    BY <1>1, <1>4, <2>3 DEF OnConnectResponse, SetState, Broken, Paid
<1>5. CASE OnIceServers \/ OnOffer \/ OnMalformed \/ \E ok \in BOOLEAN : OnCandidate(ok)
  BY <1>1, <1>5 DEF OnIceServers, OnOffer, OnMalformed, OnCandidate, SetState, Broken, Paid
<1>6. ASSUME NEW t \in Transports, HandleCommand(t) PROVE Paid'
  <2>1. CASE HandleSetup(t)
    BY <1>1, <2>1 DEF HandleSetup, SetState, Broken, Paid
  <2>2. CASE HandleAckHandshake(t) \/ HandleQuery(t)
    BY <1>1, <2>2 DEF HandleAckHandshake, HandleQuery, SetState, Broken, Paid
  <2>3. CASE HandleShutdown(t)
    BY <1>2, <2>3 DEF HandleShutdown
  <2> QED
    BY <1>6, <2>1, <2>2, <2>3 DEF HandleCommand
<1>7. CASE Peer
  BY <1>1, <1>7 DEF Peer, FinishOffer, LocalCandidate, BindChannel, OpenChannel,
                    LoseChannel, SetState, Broken, Paid
<1>8. CASE Server
  BY <1>1, <1>8 DEF Server, ServerSend, ServerReceive, Paid
<1>9. CASE UNCHANGED vars
  BY <1>1, <1>9 DEF vars, Paid
<1> QED
  BY <1>2, <1>3, <1>4, <1>5, <1>6, <1>7, <1>8, <1>9 DEF Next, Host, Signal

(* Every handshake after the first follows a fall to "closed" or "error": the
   connectResponse cannot take a session that has begun back to "negotiating",
   for it precedes on its socket everything that begins one. *)
THEOREM HandshakeCorrect == Spec => []HandshakePerAttempt
<1>1. Init => Attempts
  BY EmptyQueued
     DEF Init, Attempts, Opening, Untouched, Paid, Live, OnlyNoise, ResponseFirst,
         Transports, ServerKinds, SignalKinds, CommandKinds, ClientKinds
<1>2. TypeOK /\ Attempts /\ [Next]_vars => Attempts'
  <2> SUFFICES ASSUME TypeOK, Attempts, [Next]_vars
               PROVE  Attempts'
    OBVIOUS
  <2>1. Fresh => Untouched'
    BY UntouchedStep
  <2> QED
    BY <2>1, OpeningStep, PaidStep DEF Attempts
<1>3. TypeOK /\ Attempts => HandshakePerAttempt
  BY DEF Attempts, Paid, HandshakePerAttempt, TypeOK
<1> QED
  BY <1>1, <1>2, <1>3, TypeCorrect, PTL DEF Spec

----------------------------------------------------------------------------
(* The safety half of ConnectSettles: what an attempt waits for is under way. *)

(* Before the setup an attempt has a live signalling socket; after it, its
   handshake is on its way or with the server, unless it went down with the data
   channel.  The loss of the socket never leaves an attempt behind, since onClose
   ends it (client.ts:249-251). *)
AttemptIsCarried ==
    /\ state \in {"signaling", "negotiating"} => ws \in {"connecting", "open"}
    /\ state = "handshake" =>
           \/ Queued(toServer, "handshake")
           \/ got["handshake"] > 0
           \/ dc = "closed"

LEMMA PutKeeps ==
    ASSUME NEW S, NEW queues \in [Transports -> Seq(S)],
           NEW t \in Transports, NEW k \in S
    PROVE  /\ Queued(Put(queues, t, k), k)
           /\ \A m : Queued(queues, m) => Queued(Put(queues, t, k), m)
<1>1. queues[t] \in Seq(S) /\ Put(queues, t, k)[t] = Append(queues[t], k)
  BY DEF Put
<1>2. /\ Len(queues[t]) + 1 \in 1..Len(Append(queues[t], k))
      /\ Append(queues[t], k)[Len(queues[t]) + 1] = k
      /\ \A i \in 1..Len(queues[t]) :
             i \in 1..Len(Append(queues[t], k)) /\ Append(queues[t], k)[i] = queues[t][i]
  BY <1>1
<1>3. \A u \in Transports : u # t => Put(queues, t, k)[u] = queues[u]
  BY DEF Put
<1>4. Queued(Put(queues, t, k), k)
  BY <1>1, <1>2 DEF Queued
<1>5. ASSUME NEW m, Queued(queues, m) PROVE Queued(Put(queues, t, k), m)
  <2>1. PICK u \in Transports : \E i \in 1..Len(queues[u]) : queues[u][i] = m
    BY <1>5 DEF Queued
  <2>2. PICK i \in 1..Len(queues[u]) : queues[u][i] = m
    BY <2>1
  <2>3. CASE u = t
    BY <1>1, <1>2, <2>2, <2>3 DEF Queued
  <2>4. CASE u # t
    BY <1>3, <2>2, <2>4 DEF Queued
  <2> QED
    BY <2>3, <2>4
<1> QED
  BY <1>4, <1>5

LEMMA TakeKeeps ==
    ASSUME NEW S, NEW queues \in [Transports -> Seq(S)], NEW t \in Transports,
           queues[t] # <<>>, NEW m, Queued(queues, m)
    PROVE  m = Head(queues[t]) \/ Queued([queues EXCEPT ![t] = Tail(@)], m)
<1> DEFINE rest == [queues EXCEPT ![t] = Tail(@)]
<1>1. PICK u \in Transports : \E i \in 1..Len(queues[u]) : queues[u][i] = m
  BY DEF Queued
<1>2. PICK i \in 1..Len(queues[u]) : queues[u][i] = m
  BY <1>1
<1>3. CASE u # t
  BY <1>2, <1>3 DEF Queued
<1>4. CASE u = t
  <2>1. queues[t] \in Seq(S) /\ rest[t] = Tail(queues[t])
    OBVIOUS
  <2>2. CASE i = 1
    BY <1>2, <1>4, <2>1, <2>2
  <2>3. CASE i # 1
    <3>1. i - 1 \in 1..Len(rest[t]) /\ rest[t][i - 1] = m
      BY <1>2, <1>4, <2>1, <2>3
    <3> QED
      BY <3>1 DEF Queued
  <2> QED
    BY <2>2, <2>3
<1> QED
  BY <1>3, <1>4

(* Nothing that is sent displaces what is on its way. *)
LEMMA SendKeeps ==
    ASSUME TypeOK, NEW k \in ClientKinds
    PROVE  /\ \A m : Queued(toServer, m) => /\ Queued(SendSignal(k), m)
                                            /\ Queued(SendReliable(k), m)
           /\ ws = "open" \/ dc = "open" => Queued(SendReliable(k), k)
<1>1. \A t \in Transports :
          /\ Queued(Put(toServer, t, k), k)
          /\ \A m : Queued(toServer, m) => Queued(Put(toServer, t, k), m)
  BY PutKeeps DEF TypeOK
<1> QED
  BY <1>1 DEF SendSignal, SendReliable, Transports

LEMMA CarriedStep == TypeOK /\ AttemptIsCarried /\ [Next]_vars => AttemptIsCarried'
<1> SUFFICES ASSUME TypeOK, AttemptIsCarried, [Next]_vars
             PROVE  AttemptIsCarried'
  OBVIOUS
<1> USE DEF client, server, history
<1> DEFINE OnItsWay == Queued(toServer, "handshake")
<1>0. ASSUME state' = state \/ state' \notin {"signaling", "negotiating", "handshake"},
             ws' = ws \/ (ws' = "open" /\ ws = "connecting"),
             dc = "closed" => dc' = "closed",
             OnItsWay => OnItsWay' \/ got'["handshake"] > 0,
             got["handshake"] > 0 => got'["handshake"] > 0
      PROVE  AttemptIsCarried'
  BY <1>0 DEF AttemptIsCarried
<1>1. ASSUME Close PROVE AttemptIsCarried'
  BY <1>1 DEF Close, CloseSocket, SetState, Broken, AttemptIsCarried
<1>2. CASE Connect
  BY <1>2 DEF Connect, SetState, Broken, AttemptIsCarried
<1>3. CASE SocketOpen
  <2>1. OnItsWay => Queued(Put(toServer, "ws", "connect"), "handshake")
    BY PutKeeps DEF TypeOK, Transports, ClientKinds
  <2>2. /\ toServer' = Put(toServer, "ws", "connect") /\ ws = "connecting" /\ ws' = "open"
        /\ UNCHANGED <<state, dc, got>>
    BY <1>3 DEF SocketOpen
  <2> QED
    BY <1>0, <2>1, <2>2 DEF Queued
<1>4. ASSUME SocketError \/ SocketClosed PROVE AttemptIsCarried'
  BY <1>4 DEF SocketError, SocketClosed, SetState, Broken, AttemptIsCarried
<1>5. CASE Signal
  BY <1>5 DEF Signal, OnConnectResponse, OnIceServers, OnOffer, OnCandidate, OnMalformed,
              Receive, Readable, SetState, Broken, AttemptIsCarried, Queued
<1>6. ASSUME NEW t \in Transports, HandleCommand(t) PROVE AttemptIsCarried'
  <2>1. CASE HandleSetup(t)
    <3>1. CASE state \in {"handshake", "streaming"}
      BY <2>1, <3>1 DEF HandleSetup, AttemptIsCarried, Queued
    <3>2. CASE state \notin {"handshake", "streaming"}
      <4>1. ws = "open" \/ dc = "open"
        BY <2>1 DEF HandleSetup, Receive, Readable
      <4>2. Queued(SendReliable("handshake"), "handshake")
        BY <4>1, SendKeeps DEF ClientKinds
      <4>3. toServer' = SendReliable("handshake") /\ state' = "handshake"
        BY <2>1, <3>2 DEF HandleSetup, SetState, Broken
      <4> QED
        BY <4>2, <4>3 DEF AttemptIsCarried, Queued
    <3> QED
      BY <3>1, <3>2
  <2>2. CASE HandleAckHandshake(t)
    BY <2>2 DEF HandleAckHandshake, SetState, Broken, AttemptIsCarried
  <2>3. CASE HandleQuery(t)
    <3>1. PICK k \in {"ping", "lighting"} :
            /\ toServer' = SendReliable(IF k = "ping" THEN "pong" ELSE "ack")
            /\ UNCHANGED <<state, ws, dc, got>>
      BY <2>3 DEF HandleQuery
    <3> DEFINE reply == IF k = "ping" THEN "pong" ELSE "ack"
    <3>2. reply \in ClientKinds
      BY DEF ClientKinds
    <3>3. toServer' = SendReliable(reply)
      BY <3>1
    <3> HIDE DEF reply
    <3>4. OnItsWay => Queued(SendReliable(reply), "handshake")
      BY <3>2, SendKeeps
    <3> QED
      BY <1>0, <3>1, <3>3, <3>4 DEF Queued
  <2>4. CASE HandleShutdown(t)
    BY <1>1, <2>4 DEF HandleShutdown
  <2> QED
    BY <1>6, <2>1, <2>2, <2>3, <2>4 DEF HandleCommand
<1>7. ASSUME NEW ok \in BOOLEAN, FinishOffer(ok) PROVE AttemptIsCarried'
  <2>1. OnItsWay => Queued(SendSignal("answer"), "handshake")
    BY SendKeeps DEF ClientKinds
  <2>2. OnItsWay => OnItsWay'
    BY <1>7, <2>1 DEF FinishOffer, Queued
  <2>3. /\ state' = state \/ state' = "error"
        /\ UNCHANGED <<ws, dc, got>>
    BY <1>7 DEF FinishOffer, SetState, Broken
  <2> QED
    BY <1>0, <2>2, <2>3
<1>8. CASE LocalCandidate
  <2>1. OnItsWay => Queued(SendSignal("candidate"), "handshake")
    BY SendKeeps DEF ClientKinds
  <2>2. OnItsWay => OnItsWay'
    BY <1>8, <2>1 DEF LocalCandidate, Queued
  <2> QED
    BY <1>0, <1>8, <2>2 DEF LocalCandidate
<1>9. CASE BindChannel \/ OpenChannel \/ LoseChannel
  BY <1>9 DEF BindChannel, OpenChannel, LoseChannel, AttemptIsCarried, Queued
<1>10. ASSUME NEW t \in Transports, NEW k \in ServerKinds, ServerSend(t, k)
       PROVE  AttemptIsCarried'
  BY <1>10 DEF ServerSend, AttemptIsCarried, Queued
<1>11. ASSUME NEW t \in Transports, ServerReceive(t) PROVE AttemptIsCarried'
  <2>1. /\ toServer[t] # <<>>
        /\ toServer' = [toServer EXCEPT ![t] = Tail(@)]
        /\ got' = [got EXCEPT ![Head(toServer[t])] = @ + 1]
        /\ UNCHANGED <<state, ws, dc>>
    BY <1>11 DEF ServerReceive
  <2>2. Head(toServer[t]) \in ClientKinds
    BY <2>1, TakeType DEF TypeOK
  <2>3. /\ got["handshake"] > 0 => got'["handshake"] > 0
        /\ Head(toServer[t]) = "handshake" => got'["handshake"] > 0
    BY <2>1, <2>2 DEF TypeOK, ClientKinds
  <2>4. OnItsWay => \/ "handshake" = Head(toServer[t])
                    \/ Queued([toServer EXCEPT ![t] = Tail(@)], "handshake")
    BY <2>1, TakeKeeps DEF TypeOK
  <2>5. OnItsWay => OnItsWay' \/ got'["handshake"] > 0
    BY <2>1, <2>3, <2>4 DEF Queued
  <2> QED
    BY <1>0, <2>1, <2>3, <2>5
<1>12. CASE UNCHANGED vars
  BY <1>12 DEF vars, AttemptIsCarried, Queued
<1> QED
  BY <1>1, <1>2, <1>3, <1>4, <1>5, <1>6, <1>7, <1>8, <1>9, <1>10, <1>11, <1>12
     DEF Next, Host, Socket, Peer, Server

(* Unless the data channel is lost, an attempt waits for what can come: its socket
   is alive, or its handshake is with the server or on the way there. *)
THEOREM AttemptCorrect == Spec => []AttemptIsCarried
<1>1. Init => AttemptIsCarried
  BY DEF Init, AttemptIsCarried
<1>2. TypeOK /\ AttemptIsCarried /\ [Next]_vars => AttemptIsCarried'
  BY CarriedStep
<1> QED
  BY <1>1, <1>2, TypeCorrect, PTL DEF Spec
=============================================================================

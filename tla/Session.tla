------------------------------ MODULE Session ------------------------------
(***************************************************************************)
(* The life of one TeleportClient: the state machine of client.ts, driven  *)
(* by the signalling WebSocket (transport/signaling.ts) and by the         *)
(* RTCPeerConnection with its reliable data channel (transport/peer.ts).   *)
(*                                                                         *)
(* Every action is one task of the browser's event loop, with the          *)
(* microtasks it triggers: a handler runs to its end before another event. *)
(* The server and the two transports are the environment.  A message is    *)
(* reduced to its kind.                                                    *)
(*                                                                         *)
(* Assumed of the environment: connect() is called once per client, as     *)
(* component.ts does; the server follows the order of signaling.ts:5-31    *)
(* and acknowledges each handshake once.  Sockets and channels may be lost *)
(* at any time, and a signalling frame may be malformed.                   *)
(***************************************************************************)
EXTENDS Naturals, Sequences

CONSTANTS
    Limit,         \* bound on how often the server sends each kind of message
    MaxCandidates, \* bound on the local ICE candidates gathered
    MaxInFlight    \* bound on the messages waiting on one transport

SignalKinds  == {"connectResponse", "iceServers", "offer", "candidate", "malformed"}
CommandKinds == {"setup", "ackHandshake", "ping", "lighting", "shutdown"}
ServerKinds  == SignalKinds \cup CommandKinds
ClientKinds  == {"connect", "answer", "candidate", "disconnect",
                 "handshake", "pong", "ack"}
Transports   == {"ws", "dc"}

ASSUME LimitAssumption == /\ Limit \in [ServerKinds -> Nat]
                          /\ MaxCandidates \in Nat
                          /\ MaxInFlight \in Nat

VARIABLES
    state,      \* TeleportClient.state
    ws,         \* the WebSocket: "none" before open(), "aborted" once close()d
                \* while connecting, "failed" between its error and close events
    pc,         \* whether the RTCPeerConnection is still usable
    dc,         \* readyState of peer.channels["Reliable"]; "none" before bind()
    accept,     \* the acceptOffer() call: "none", "pending", "done", "failed"
    iceServers, \* what became of the server's ICE servers in setIceServers()
    datum,      \* sessionDatumUnixUs is known
    toClient,   \* messages on their way to the client, per transport
    toServer,   \* messages on their way to the server, per transport
    sent,       \* how many messages of each kind the server has sent
    got,        \* how many messages of each kind the server has received
    gathered,   \* local ICE candidates gathered so far
    ended,      \* history: close() has run
    handshakes, \* history: handshakes sent
    breaks      \* history: times the session fell to "closed" or "error"
                \* from another state

client  == <<state, iceServers, datum>>
history == <<ended, handshakes, breaks>>
server  == <<sent, got>>
vars == <<client, ws, pc, dc, accept, toClient, toServer, server, gathered, history>>

ClientStates == {"idle", "signaling", "negotiating", "handshake",
                 "streaming", "closed", "error"}

TypeOK ==
    /\ state \in ClientStates
    /\ ws \in {"none", "connecting", "open", "closing", "aborted",
              "failed", "closed"}
    /\ pc \in {"open", "closed"}
    /\ dc \in {"none", "connecting", "open", "closed"}
    /\ accept \in {"none", "pending", "done", "failed"}
    /\ iceServers \in {"none", "applied", "rejected"}
    /\ datum \in BOOLEAN
    /\ toClient \in [Transports -> Seq(ServerKinds)]
    /\ toServer \in [Transports -> Seq(ClientKinds)]
    /\ sent \in [ServerKinds -> Nat]
    /\ got \in [ClientKinds -> Nat]
    /\ gathered \in Nat
    /\ ended \in BOOLEAN
    /\ handshakes \in Nat
    /\ breaks \in Nat

Init ==
    /\ state = "idle"
    /\ ws = "none"
    /\ pc = "open"
    /\ dc = "none"
    /\ accept = "none"
    /\ iceServers = "none"
    /\ datum = FALSE
    /\ toClient = [t \in Transports |-> <<>>]
    /\ toServer = [t \in Transports |-> <<>>]
    /\ sent = [k \in ServerKinds |-> 0]
    /\ got = [k \in ClientKinds |-> 0]
    /\ gathered = 0
    /\ ended = FALSE
    /\ handshakes = 0
    /\ breaks = 0

----------------------------------------------------------------------------
(* Sending.                                                                *)

Put(queues, t, k) == [queues EXCEPT ![t] = Append(@, k)]

(* SignalingClient.sendJson: throws, and sends nothing, on a closed socket. *)
SendSignal(k) ==
    IF ws = "open" THEN Put(toServer, "ws", k) ELSE toServer

(* TeleportClient.sendReliable: the data channel once it is open, the
   signalling socket until then, an exception when both are down. *)
SendReliable(k) ==
    IF dc = "open" THEN Put(toServer, "dc", k)
    ELSE IF ws = "open" THEN Put(toServer, "ws", k)
    ELSE toServer

Broken == {"closed", "error"}

(* setState(next), and the count of the falls into Broken. *)
SetState(next) ==
    /\ state' = next
    /\ breaks' = IF next \in Broken /\ state \notin Broken
                 THEN breaks + 1 ELSE breaks

----------------------------------------------------------------------------
(* The host application.                                                   *)

(* TeleportClient.connect, up to its await. *)
Connect ==
    /\ state = "idle"
    /\ ws = "none"
    /\ SetState("signaling")
    /\ ws' = "connecting"
    /\ UNCHANGED <<pc, dc, accept, iceServers, datum, toClient, toServer,
                   server, gathered, ended, handshakes>>

(* WebSocket.close() *)
CloseSocket ==
    ws' = CASE ws = "connecting" -> "aborted"
            [] ws = "open"       -> "closing"
            [] OTHER             -> ws

(* TeleportClient.close: a best-effort "disconnect", then both transports go
   down and nothing they still hold is delivered; the socket's listeners stay.
   A pending acceptOffer() never settles on a closed peer connection. *)
CloseKeepsPeer ==
    /\ SetState("closed")
    /\ ended' = TRUE
    /\ CloseSocket
    /\ UNCHANGED <<dc, pc>>
    /\ toClient' = [toClient EXCEPT !["ws"] = <<>>]
    /\ toServer' = SendSignal("disconnect")
    /\ UNCHANGED <<accept, iceServers, datum, server, gathered, handshakes>>

Close ==
    /\ SetState("closed")
    /\ ended' = TRUE
    /\ CloseSocket
    /\ pc' = "closed"
    /\ dc' = IF dc = "none" THEN "none" ELSE "closed"
    /\ toClient' = [t \in Transports |-> <<>>]
    /\ toServer' = [SendSignal("disconnect") EXCEPT !["dc"] = <<>>]
    /\ UNCHANGED <<accept, iceServers, datum, server, gathered, handshakes>>

----------------------------------------------------------------------------
(* Events of the signalling socket.                                        *)

(* The open event: open() resolves and connect() goes on to sendConnect. *)
SocketOpen ==
    /\ ws = "connecting"
    /\ ws' = "open"
    /\ toServer' = Put(toServer, "ws", "connect")
    /\ UNCHANGED <<client, pc, dc, accept, toClient, server, gathered, history>>

(* The error event of a socket that fails: onError, fail().  The browser fails
   every socket that close() cut while it was connecting (signaling.ts:205), and
   may fail any other. *)
SocketError ==
    /\ ws \in {"connecting", "open", "closing", "aborted"}
    /\ ws' = "failed"
    /\ SetState("error")
    /\ toClient' = [toClient EXCEPT !["ws"] = <<>>]
    /\ toServer' = [toServer EXCEPT !["ws"] = <<>>]
    /\ UNCHANGED <<pc, dc, accept, iceServers, datum, server, gathered,
                   ended, handshakes>>

(* The close event, which follows the error event in the same task or ends a
   socket cleanly: onClose leaves a streaming session alone. *)
SocketClosed ==
    /\ ws \in {"open", "closing", "failed"}
    /\ ws' = "closed"
    /\ IF state = "streaming"
       THEN UNCHANGED <<state, breaks>>
       ELSE SetState("closed")
    /\ toClient' = [toClient EXCEPT !["ws"] = <<>>]
    /\ toServer' = IF ws = "closing" THEN toServer
                   ELSE [toServer EXCEPT !["ws"] = <<>>]
    /\ UNCHANGED <<pc, dc, accept, iceServers, datum, server, gathered,
                   ended, handshakes>>

Readable(t) == IF t = "ws" THEN ws = "open" ELSE dc = "open"

Receive(t, k) ==
    /\ Readable(t)
    /\ toClient[t] # <<>>
    /\ Head(toClient[t]) = k
    /\ toClient' = [toClient EXCEPT ![t] = Tail(@)]

(* onConnectResponse *)
OnConnectResponseUnknown ==
    /\ Receive("ws", "connectResponse")
    /\ SetState("connected")
    /\ UNCHANGED <<ws, pc, dc, accept, iceServers, datum, toServer, server,
                   gathered, ended, handshakes>>

OnConnectResponse ==
    /\ Receive("ws", "connectResponse")
    /\ SetState("negotiating")
    /\ UNCHANGED <<ws, pc, dc, accept, iceServers, datum, toServer, server,
                   gathered, ended, handshakes>>

(* onIceServers, TeleportPeerConnection.setIceServers: setConfiguration() throws
   on a list it does not accept, and nobody catches it. *)
OnIceServersIgnored ==
    /\ Receive("ws", "iceServers")
    /\ UNCHANGED <<client, ws, pc, dc, accept, toServer, server, gathered, history>>

OnIceServers ==
    /\ Receive("ws", "iceServers")
    /\ \E result \in {"applied", "rejected"} : iceServers' = result
    /\ UNCHANGED <<state, datum, ws, pc, dc, accept, toServer, server,
                   gathered, history>>

(* onOffer, up to the await of acceptOffer() *)
OnOffer ==
    /\ Receive("ws", "offer")
    /\ accept' = "pending"
    /\ UNCHANGED <<client, ws, pc, dc, toServer, server, gathered, history>>

(* acceptOffer() resolves: sendAnswer, which fails the session when the socket
   was lost meanwhile; or one of its three steps rejects. *)
FinishOffer(ok) ==
    /\ accept = "pending"
    /\ pc = "open"
    /\ accept' = IF ok THEN "done" ELSE "failed"
    /\ IF ok /\ ws = "open"
       THEN UNCHANGED <<state, breaks>>
       ELSE SetState("error")
    /\ toServer' = IF ok THEN SendSignal("answer") ELSE toServer
    /\ UNCHANGED <<ws, pc, dc, iceServers, datum, toClient, server, gathered,
                   ended, handshakes>>

(* onCandidate: addIceCandidate() rejects without a remote description, and may
   reject a candidate it cannot use. *)
OnCandidate(ok) ==
    /\ Receive("ws", "candidate")
    /\ ok => accept \in {"pending", "done"}
    /\ IF ok THEN UNCHANGED <<state, breaks>> ELSE SetState("error")
    /\ UNCHANGED <<ws, pc, dc, accept, iceServers, datum, toServer, server,
                   gathered, ended, handshakes>>

(* handleMessage on a text frame that is not JSON: onError, fail() *)
OnMalformed ==
    /\ Receive("ws", "malformed")
    /\ SetState("error")
    /\ UNCHANGED <<ws, pc, dc, accept, iceServers, datum, toServer, server,
                   gathered, ended, handshakes>>

----------------------------------------------------------------------------
(* Commands, dispatched alike from the data channel (onMessage) and from     *)
(* binary frames of the socket (onReliablePayload).                          *)

(* case Setup, sendInitialHandshake *)
HandleSetupUnguarded(t) ==
    /\ Receive(t, "setup")
    /\ datum' = TRUE
    /\ SetState("handshake")
    /\ toServer' = SendReliable("handshake")
    /\ handshakes' = handshakes + 1
    /\ UNCHANGED <<ws, pc, dc, accept, iceServers, server, gathered, ended>>

HandleSetupAsStreaming(t) ==
    /\ Receive(t, "setup")
    /\ datum' = TRUE
    /\ IF state \in {"handshake", "streaming"}
       THEN UNCHANGED <<state, breaks, toServer, handshakes>>
       ELSE /\ SetState("streaming")
            /\ toServer' = SendReliable("handshake")
            /\ handshakes' = handshakes + 1
    /\ UNCHANGED <<ws, pc, dc, accept, iceServers, server, gathered, ended>>

HandleSetup(t) ==
    /\ Receive(t, "setup")
    /\ datum' = TRUE
    /\ IF state \in {"handshake", "streaming"}
       THEN UNCHANGED <<state, breaks, toServer, handshakes>>
       ELSE /\ SetState("handshake")
            /\ toServer' = SendReliable("handshake")
            /\ handshakes' = handshakes + 1
    /\ UNCHANGED <<ws, pc, dc, accept, iceServers, server, gathered, ended>>

(* case AcknowledgeHandshake *)
HandleAckHandshakeLost(t) ==
    /\ Receive(t, "ackHandshake")
    /\ UNCHANGED <<client, ws, pc, dc, accept, toServer, server, gathered, history>>

HandleAckHandshake(t) ==
    /\ Receive(t, "ackHandshake")
    /\ SetState("streaming")
    /\ UNCHANGED <<ws, pc, dc, accept, iceServers, datum, toServer, server,
                   gathered, ended, handshakes>>

(* case PingForLatency; cases SetOriginNode and SetupLighting *)
HandleQuery(t) ==
    \E k \in {"ping", "lighting"} :
        /\ Receive(t, k)
        /\ toServer' = SendReliable(IF k = "ping" THEN "pong" ELSE "ack")
        /\ UNCHANGED <<client, ws, pc, dc, accept, server, gathered, history>>

(* case Shutdown *)
HandleShutdown(t) ==
    /\ Readable(t)
    /\ toClient[t] # <<>>
    /\ Head(toClient[t]) = "shutdown"
    /\ Close

HandleCommand(t) ==
    \/ HandleSetup(t)
    \/ HandleAckHandshake(t)
    \/ HandleQuery(t)
    \/ HandleShutdown(t)

----------------------------------------------------------------------------
(* Events of the peer connection.                                          *)

(* onIceCandidate: a candidate gathered while the socket is down is lost in an
   exception nobody catches. *)
LocalCandidate ==
    /\ accept \in {"pending", "done"}
    /\ pc = "open"
    /\ gathered < MaxCandidates
    /\ gathered' = gathered + 1
    /\ toServer' = SendSignal("candidate")
    /\ UNCHANGED <<client, ws, pc, dc, accept, toClient, server, history>>

(* bind(): the datachannel event *)
BindChannel ==
    /\ dc = "none"
    /\ pc = "open"
    /\ got["answer"] > 0
    /\ dc' = "connecting"
    /\ UNCHANGED <<client, ws, pc, accept, toClient, toServer, server, gathered, history>>

OpenChannel ==
    /\ dc = "connecting"
    /\ dc' = "open"
    /\ UNCHANGED <<client, ws, pc, accept, toClient, toServer, server, gathered, history>>

(* The channel is lost with what it held; no handler of the client notices. *)
LoseChannel ==
    /\ dc \in {"connecting", "open"}
    /\ dc' = "closed"
    /\ toClient' = [toClient EXCEPT !["dc"] = <<>>]
    /\ toServer' = [toServer EXCEPT !["dc"] = <<>>]
    /\ UNCHANGED <<client, ws, pc, accept, server, gathered, history>>

----------------------------------------------------------------------------
(* The server.                                                             *)

Due(k) ==
    CASE k = "connectResponse" -> got["connect"] > 0 /\ sent[k] = 0
      [] k = "iceServers"      -> sent["connectResponse"] > 0 /\ sent[k] = 0
      [] k = "offer"           -> sent["iceServers"] > 0 /\ sent[k] = got["answer"]
      [] k = "candidate"       -> sent["offer"] > 0
      [] k = "malformed"       -> got["connect"] > 0
      [] k = "setup"           -> sent["connectResponse"] > 0
      [] k = "ackHandshake"    -> sent[k] < got["handshake"]
      [] OTHER                 -> sent["setup"] > 0

ServerSend(t, k) ==
    /\ IF t = "ws" THEN ws = "open"
                   ELSE k \in CommandKinds /\ dc \in {"connecting", "open"}
    /\ Due(k)
    /\ sent[k] < Limit[k]
    /\ Len(toClient[t]) < MaxInFlight
    /\ sent' = [sent EXCEPT ![k] = @ + 1]
    /\ toClient' = Put(toClient, t, k)
    /\ UNCHANGED <<client, ws, pc, dc, accept, toServer, got, gathered, history>>

ServerReceive(t) ==
    /\ toServer[t] # <<>>
    /\ got' = [got EXCEPT ![Head(toServer[t])] = @ + 1]
    /\ toServer' = [toServer EXCEPT ![t] = Tail(@)]
    /\ UNCHANGED <<client, ws, pc, dc, accept, toClient, sent, gathered, history>>

----------------------------------------------------------------------------
Host == Connect \/ Close

Socket ==
    \/ SocketOpen
    \/ SocketError
    \/ SocketClosed

Signal ==
    \/ OnConnectResponse
    \/ OnIceServers
    \/ OnOffer
    \/ \E ok \in BOOLEAN : OnCandidate(ok)
    \/ OnMalformed

Peer ==
    \/ \E ok \in BOOLEAN : FinishOffer(ok)
    \/ LocalCandidate
    \/ BindChannel
    \/ OpenChannel
    \/ LoseChannel

Server ==
    \/ \E t \in Transports, k \in ServerKinds : ServerSend(t, k)
    \/ \E t \in Transports : ServerReceive(t)

(* Between the error and the close event of the socket no other task of the
   client runs; a listener of the error may call close(). *)
Next ==
    \/ Host
    \/ Socket
    \/ Signal
    \/ Server
    \/ (ws # "failed" /\ (Peer \/ \E t \in Transports : HandleCommand(t)))

Spec == Init /\ [][Next]_vars

(* The browser delivers what a live transport holds, acceptOffer() settles, a
   socket or a channel that is connecting reaches its outcome, and the server
   goes through the connection sequence.  Nothing is lost fairly, nor is any
   retry promised. *)
Fairness ==
    /\ WF_vars(SocketOpen \/ (ws # "open" /\ (SocketError \/ SocketClosed)))
    /\ WF_vars(OpenChannel \/ LoseChannel)
    /\ WF_vars(Signal)
    /\ WF_vars(\E ok \in BOOLEAN : FinishOffer(ok))
    /\ \A t \in Transports : WF_vars(HandleCommand(t)) /\ WF_vars(ServerReceive(t))
    /\ \A k \in {"connectResponse", "iceServers", "offer", "setup", "ackHandshake"} :
           WF_vars(sent[k] = 0 /\ \E t \in Transports : ServerSend(t, k))

FairSpec == Spec /\ Fairness

----------------------------------------------------------------------------
(* Properties.                                                             *)

(* The host is told "streaming" only when the server holds a handshake of this
   session and the session clock has its datum, on whichever transports the
   setup, the handshake and the acknowledgement travelled (client.ts:447-478). *)
StreamingIsEstablished ==
    state = "streaming" => got["handshake"] > 0 /\ datum

(* The setup handler's guard against duplicate handshakes (client.ts:454-459)
   is as good as the state it reads: each handshake beyond the first is paid
   for by a fall to "closed" or "error" in between. *)
HandshakePerAttempt == handshakes <= 1 + breaks

(* The server's ICE servers reach the peer connection before it handles the
   offer, hence before gathering starts (peer.ts:69-74).  A list that
   setConfiguration() does not accept is rejected without a word to anyone, and
   gathering then goes on without it. *)
OfferFollowsIceServers == accept # "none" => iceServers # "none"

(* close() is final (client.ts:123-136): no late message, event or pending promise
   makes the client send anything more, and one thing alone is told after it, the
   "error" of the socket that close() cut while it was connecting or that failed
   before it had closed; "closed" follows in the same task. *)
CloseIsFinal ==
    [][ended => /\ state' = "closed" \/ (state' = "error" /\ ws' = "failed")
                /\ handshakes' = handshakes
                /\ \A t \in Transports : Len(toServer'[t]) <= Len(toServer[t])]_vars

(* A connection attempt reaches "streaming", or reports its failure, unless the
   data channel is lost: the client has no handler for that loss. *)
ConnectSettles ==
    state = "signaling" ~> \/ state \in {"streaming", "closed", "error"}
                           \/ dc = "closed"
=============================================================================

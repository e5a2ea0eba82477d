------------------------- MODULE HostServicesProofs -------------------------
(* Proofs about HostServices, for any bounds on policies and requests. *)
EXTENDS HostServices, SequenceTheorems, TLAPS

(* The microphone: the one stream in use is the one that is kept, a request that is
   not under way with another is under way with no stream at all, and all of this is
   over when the session is. *)
MicType ==
    /\ open \in BOOLEAN /\ audio \in BOOLEAN
    /\ requested \in Nat /\ micStream \in Nat
    /\ requests \subseteq Nat \ {0} /\ live \subseteq Nat \ {0}

MicInv ==
    /\ MicType
    /\ live \subseteq raced \cup {micStream}
    /\ micStream # 0 => audio \/ micStream \in raced
    /\ micStream # 0 /\ requests # {} => micStream \in raced
    /\ \A r \in requests \ raced : requests = {r} /\ micStream = 0
    /\ requests # {} => audio \/ ~open
    /\ ~open => requests \subseteq raced /\ live \subseteq raced

LEMMA MicStep == ASSUME MicInv, [Next]_vars PROVE MicInv'
<1> USE DEF MicInv, MicType
<1>1. CASE Close
  BY <1>1 DEF Close, CloseAudio
<1>2. CASE Setup
  <2>1. SUFFICES ASSUME open, SetupAudio, UNCHANGED open PROVE MicInv'
    BY <1>2 DEF Setup
  <2>2. CASE AskMic /\ micStream = 0
    <3>1. audio' = TRUE /\ open' = open /\ micStream' = micStream /\ live' = live
      BY <2>1, <2>2 DEF AskMic, SetupAudio
    <3>2. requested' = requested + 1 /\ requests' = requests \cup {requested + 1}
      BY <2>2 DEF AskMic
    <3>3. CASE requests = {}
      <4>1. raced' = raced
        BY <2>2, <3>3 DEF AskMic
      <4> QED
        BY <2>1, <2>2, <3>1, <3>2, <3>3, <4>1
    <3>4. CASE requests # {}
      <4>1. raced' = raced \cup requests'
        BY <2>2, <3>4 DEF AskMic
      <4> QED
        BY <2>1, <2>2, <3>1, <3>2, <3>4, <4>1
    <3> QED
      BY <3>3, <3>4
  <2>3. CASE UNCHANGED <<requests, requested, micStream, live, sending, raced>>
    BY <2>1, <2>3 DEF SetupAudio
  <2> QED
    BY <2>1, <2>2, <2>3 DEF SetupAudio, RequestMic
<1>3. CASE User
  <2>1. PICK r \in requests : Granted(r, open) \/ Denied(r)
    BY <1>3 DEF User
  <2>2. CASE Granted(r, open)
    <3>1. CASE r \in raced
      BY <1>3, <2>1, <2>2, <3>1 DEF User, Granted
    <3>2. CASE r \notin raced
      <4>1. live \subseteq raced /\ requests = {r} /\ micStream = 0
        BY <2>1, <3>2
      <4> QED
        BY <1>3, <2>1, <2>2, <3>2, <4>1 DEF User, Granted
    <3> QED
      BY <3>1, <3>2
  <2>3. CASE Denied(r)
    BY <1>3, <2>1, <2>3 DEF User, Denied
  <2> QED
    BY <2>1, <2>2, <2>3
<1>4. CASE Sound
  <2>1. UNCHANGED <<open, audio, requests, requested, micStream, live, raced>>
    BY <1>4 DEF Sound, Track, EmitterMoves
  <2> QED
    BY <2>1
<1>5. CASE Server \/ Receipt \/ Frame \/ Host
  <2>1. UNCHANGED audioVars /\ open' = open
    BY <1>5 DEF Server, Receipt, Frame, Host, HostReplies, Manager
  <2> QED
    BY <2>1 DEF audioVars
<1>6. CASE UNCHANGED vars
  BY <1>6 DEF vars, audioVars
<1> QED
  BY <1>1, <1>2, <1>3, <1>4, <1>5, <1>6 DEF Next

(* The microphone is off once the session is over, but for requests that were under
   way then or together (output.ts:14, client.ts:130-132). *)
THEOREM MicrophoneCorrect == Spec => []MicrophoneStops
<1>1. Init => MicInv
  <2> SUFFICES ASSUME Init PROVE MicInv
    OBVIOUS
  <2>1. open = TRUE /\ audio = FALSE /\ requested = 0 /\ micStream = 0
    BY DEF Init, AudioInit
  <2>2. requests = {} /\ live = {} /\ raced = {}
    BY DEF Init, AudioInit
  <2>3. MicType
    BY <2>1, <2>2 DEF MicType
  <2> QED
    BY <2>1, <2>2, <2>3 DEF MicInv
<1>2. MicInv => MicrophoneStops
  BY DEF MicInv, MicrophoneStops, MicStops
<1> QED
  BY <1>1, <1>2, MicStep, PTL DEF Spec

----------------------------------------------------------------------------
(* The negotiation: what is on its way between the server and the client. *)

FrameOk == [kind : {"policy", "result", "revoke"}, policy : Nat]

AvatarType ==
    /\ toClient \in Seq(FrameOk)
    /\ toServer \in Seq(Nat) /\ held \subseteq Nat
    /\ asked \in Nat /\ waitsFor \in Nat

(* The head frame has its type, and so do the others once it is handled. *)
LEMMA HeadOk ==
    ASSUME AvatarType, toClient # <<>>
    PROVE  Head(toClient) \in FrameOk /\ Tail(toClient) \in Seq(FrameOk)
  BY DEF AvatarType

(* A policy is answered as often as the host replies, and once more if it throws. *)
LEMMA PolicyHandled ==
    ASSUME AvatarType, HandlePolicy
    PROVE  \E n \in 0..2, keeps \in BOOLEAN, threw \in BOOLEAN :
               LET p == Head(toClient).policy IN
               /\ p \in Nat
               /\ toServer' = toServer \o [i \in 1..n |-> p]
               /\ held' = IF keeps THEN held \cup {p} ELSE held
               /\ ignored' = IF n > 0 \/ keeps THEN ignored ELSE ignored \cup {p}
<1> DEFINE p == Head(toClient).policy
<1>1. PICK replies \in 0..1, threw \in BOOLEAN, keeps \in BOOLEAN :
          /\ Provide(p, IF threw THEN replies + 1 ELSE replies)
          /\ Keep(p, keeps, replies > 0 \/ keeps \/ threw)
  BY DEF HandlePolicy
<1> DEFINE n == IF threw THEN replies + 1 ELSE replies
<1>2. n \in 0..2 /\ (n > 0 \/ keeps <=> replies > 0 \/ keeps \/ threw)
  OBVIOUS
<1>3. p \in Nat
  BY HeadOk DEF HandlePolicy, Arriving, FrameOk
<1>4. toServer' = toServer \o [i \in 1..n |-> p]
  BY <1>1 DEF Provide
<1>5. held' = IF keeps THEN held \cup {p} ELSE held
  BY <1>1 DEF Keep
<1>6. ignored' = IF n > 0 \/ keeps THEN ignored ELSE ignored \cup {p}
  BY <1>1, <1>2 DEF Keep
<1> HIDE DEF n
<1> QED
  BY <1>2, <1>3, <1>4, <1>5, <1>6

LEMMA AvatarStep == ASSUME AvatarType, [Next]_vars PROVE AvatarType'
<1>1. CASE Server
  <2>1. /\ asked' \in Nat /\ waitsFor' \in Nat
        /\ toServer' = toServer /\ held' = held
    BY <1>1 DEF Server, ServerAsks, ServerRevokes, ServerSeats, AvatarType
  <2>2. \E f \in FrameOk : toClient' = Append(toClient, f)
    <3>1. CASE ServerAsks
      <4>1. [kind |-> "policy", policy |-> asked + 1] \in FrameOk
        BY DEF AvatarType, FrameOk
      <4> QED
        BY <3>1, <4>1 DEF ServerAsks, Tell
    <3>2. CASE ServerRevokes
      <4>1. [kind |-> "revoke", policy |-> asked] \in FrameOk
        BY DEF AvatarType, FrameOk
      <4> QED
        BY <3>2, <4>1 DEF ServerRevokes, Tell
    <3>3. CASE ServerSeats
      <4>1. PICK p \in 0..asked : Tell("result", p)
        BY <3>3 DEF ServerSeats
      <4>2. [kind |-> "result", policy |-> p] \in FrameOk
        BY DEF AvatarType, FrameOk
      <4> QED
        BY <4>1, <4>2 DEF Tell
    <3> QED
      BY <1>1, <3>1, <3>2, <3>3 DEF Server
  <2> QED
    BY <2>1, <2>2 DEF AvatarType
<1>2. CASE Receipt
  <2>1. /\ toServer # <<>> /\ toServer' = Tail(toServer)
        /\ UNCHANGED <<held, asked>>
    BY <1>2 DEF Receipt, ServerReceives
  <2>2. CASE Head(toServer) = waitsFor
    <3>1. waitsFor' = 0 /\ toClient' = Append(toClient, [kind |-> "result", policy |-> waitsFor])
      BY <1>2, <2>2 DEF Receipt, ServerReceives, Tell
    <3>2. [kind |-> "result", policy |-> waitsFor] \in FrameOk
      BY DEF AvatarType, FrameOk
    <3> QED
      BY <2>1, <3>1, <3>2 DEF AvatarType
  <2>3. CASE Head(toServer) # waitsFor
    BY <1>2, <2>1, <2>3 DEF Receipt, ServerReceives, AvatarType
  <2> QED
    BY <2>2, <2>3
<1>3. CASE Frame
  <2>1. toClient # <<>> /\ toClient' = Tail(toClient) /\ asked' = asked /\ waitsFor' = waitsFor
    BY <1>3 DEF Frame, Manager, HandlePolicy, HandleResult, HandleRevoke, Arriving
  <2>2. toServer' \in Seq(Nat) /\ held' \subseteq Nat
    <3>1. CASE HandlePolicy
      <4> DEFINE p == Head(toClient).policy
      <4>1. PICK n \in 0..2, keeps \in BOOLEAN :
                /\ p \in Nat
                /\ toServer' = toServer \o [i \in 1..n |-> p]
                /\ held' = IF keeps THEN held \cup {p} ELSE held
        BY <3>1, PolicyHandled
      <4> DEFINE offers == [i \in 1..n |-> p]
      <4>2. offers \in Seq(Nat)
        BY <4>1
      <4> HIDE DEF offers
      <4>3. toServer \o offers \in Seq(Nat)
        BY <4>2, ConcatProperties DEF AvatarType
      <4> QED
        BY <4>1, <4>3 DEF offers, AvatarType
    <3>2. CASE HandleResult \/ HandleRevoke
      BY <3>2 DEF HandleResult, HandleRevoke, AvatarType
    <3> QED
      BY <1>3, <3>1, <3>2 DEF Frame, Manager
  <2> QED
    BY <2>1, <2>2, HeadOk DEF AvatarType
<1>4. CASE Host
  <2>1. PICK p \in held : /\ held' = held \ {p}
                          /\ toServer' = IF open THEN Append(toServer, p) ELSE toServer
    BY <1>4 DEF Host, HostReplies
  <2>2. UNCHANGED <<toClient, asked, waitsFor>>
    BY <1>4 DEF Host, HostReplies
  <2> QED
    BY <2>1, <2>2 DEF AvatarType
<1>5. CASE Close \/ Setup \/ User \/ Sound \/ UNCHANGED vars
  <2>1. UNCHANGED avatarVars
    BY <1>5 DEF Close, Setup, User, Sound, vars
  <2> QED
    BY <2>1 DEF avatarVars, AvatarType
<1> QED
  BY <1>1, <1>2, <1>3, <1>4, <1>5 DEF Next

----------------------------------------------------------------------------
(* The safety half of ServerGetsOffer: the offer that the server waits for is on
   its way or still to be made, unless the host took no notice of the policy, so
   that only its delivery remains to be awaited. *)

AnswerIsDue ==
    open /\ waitsFor # 0 =>
        \/ \E i \in DOMAIN toClient : toClient[i] = [kind |-> "policy", policy |-> waitsFor]
        \/ waitsFor \in held \cup ignored
        \/ \E i \in DOMAIN toServer : toServer[i] = waitsFor

(* A frame or an offer that is not the first is still to come after the first. *)
LEMMA TailHolds ==
    ASSUME NEW S, NEW q \in Seq(S), q # <<>>, NEW x, NEW i \in DOMAIN q, q[i] = x, Head(q) # x
    PROVE  \E j \in DOMAIN Tail(q) : Tail(q)[j] = x
<1>1. i # 1 /\ i - 1 \in DOMAIN Tail(q) /\ Tail(q)[i - 1] = q[i]
  OBVIOUS
<1> QED
  BY <1>1

LEMMA AnswerStep == ASSUME AvatarType, AnswerIsDue, [Next]_vars PROVE AnswerIsDue'
<1> SUFFICES ASSUME open', waitsFor' # 0
             PROVE  \/ \E i \in DOMAIN toClient' :
                           toClient'[i] = [kind |-> "policy", policy |-> waitsFor']
                    \/ waitsFor' \in held' \cup ignored'
                    \/ \E i \in DOMAIN toServer' : toServer'[i] = waitsFor'
  BY DEF AnswerIsDue
<1> USE DEF AvatarType
<1>1. CASE ServerAsks
  <2>1. waitsFor' = asked + 1
        /\ toClient' = Append(toClient, [kind |-> "policy", policy |-> waitsFor'])
    BY <1>1 DEF ServerAsks, Tell
  <2>2. Len(toClient) + 1 \in DOMAIN toClient'
        /\ toClient'[Len(toClient) + 1] = [kind |-> "policy", policy |-> waitsFor']
    BY <2>1
  <2> QED
    BY <2>2
<1>2. CASE ServerRevokes
  BY <1>2 DEF ServerRevokes
<1>3. CASE ServerSeats
  <2>1. PICK p \in 0..asked : toClient' = Append(toClient, [kind |-> "result", policy |-> p])
    BY <1>3 DEF ServerSeats, Tell
  <2>2. \A i \in DOMAIN toClient : i \in DOMAIN toClient' /\ toClient'[i] = toClient[i]
    BY <2>1
  <2>3. open /\ UNCHANGED <<toServer, held, ignored, waitsFor>>
    BY <1>3 DEF ServerSeats
  <2> QED
    BY <2>2, <2>3 DEF AnswerIsDue
<1>4. CASE Receipt
  <2>1. /\ open /\ toServer # <<>> /\ toServer' = Tail(toServer) /\ UNCHANGED <<held, ignored>>
        /\ Head(toServer) # waitsFor /\ toClient' = toClient /\ waitsFor' = waitsFor
    BY <1>4 DEF Receipt, ServerReceives
  <2>2. CASE \E i \in DOMAIN toServer : toServer[i] = waitsFor
    <3>1. PICK i \in DOMAIN toServer : toServer[i] = waitsFor
      BY <2>2
    <3>2. \E j \in DOMAIN Tail(toServer) : Tail(toServer)[j] = waitsFor
      BY <2>1, <3>1, TailHolds
    <3> QED
      BY <2>1, <3>2
  <2>3. CASE waitsFor \in held \cup ignored \/ \E i \in DOMAIN toClient :
                 toClient[i] = [kind |-> "policy", policy |-> waitsFor]
    BY <2>1, <2>3
  <2> QED
    BY <2>1, <2>2, <2>3 DEF AnswerIsDue
<1>5. CASE Frame
  <2>1. /\ open /\ toClient # <<>> /\ toClient' = Tail(toClient) /\ waitsFor' = waitsFor
        /\ waitsFor \in held \cup ignored => waitsFor \in held' \cup ignored'
    BY <1>5 DEF Frame, Manager, HandlePolicy, HandleResult, HandleRevoke, Arriving, Keep
  <2>2. ASSUME NEW i \in DOMAIN toServer
        PROVE  i \in DOMAIN toServer' /\ toServer'[i] = toServer[i]
    <3>1. CASE HandlePolicy
      <4> DEFINE p == Head(toClient).policy
      <4>1. PICK n \in 0..2 : p \in Nat /\ toServer' = toServer \o [k \in 1..n |-> p]
        BY <3>1, PolicyHandled
      <4> DEFINE offers == [k \in 1..n |-> p]
      <4>2. offers \in Seq(Nat)
        BY <4>1
      <4> HIDE DEF offers
      <4>3. toServer \in Seq(Nat) /\ toServer' = toServer \o offers
        BY <4>1 DEF offers
      <4> QED
        BY <4>2, <4>3, ConcatProperties
    <3>2. CASE HandleResult \/ HandleRevoke
      BY <3>2 DEF HandleResult, HandleRevoke
    <3> QED
      BY <1>5, <3>1, <3>2 DEF Frame, Manager
  <2>3. CASE \E i \in DOMAIN toServer : toServer[i] = waitsFor
    BY <2>1, <2>2, <2>3
  <2>4. CASE waitsFor \in held \cup ignored
    BY <2>1, <2>4
  <2>5. CASE \E i \in DOMAIN toClient : toClient[i] = [kind |-> "policy", policy |-> waitsFor]
    <3> DEFINE frame == [kind |-> "policy", policy |-> waitsFor]
    <3>1. CASE Head(toClient) = frame
      <4>1. HandlePolicy /\ Head(toClient).policy = waitsFor
        BY <1>5, <3>1 DEF Frame, Manager, HandleResult, HandleRevoke, Arriving
      <4>2. PICK n \in 0..2, keeps \in BOOLEAN :
                /\ toServer' = toServer \o [k \in 1..n |-> waitsFor]
                /\ held' = IF keeps THEN held \cup {waitsFor} ELSE held
                /\ ignored' = IF n > 0 \/ keeps THEN ignored ELSE ignored \cup {waitsFor}
        BY <4>1, PolicyHandled
      <4>3. CASE keeps \/ n = 0
        BY <2>1, <4>2, <4>3
      <4>4. CASE ~keeps /\ n # 0
        <5>1. n \in {1, 2}
          BY <4>2, <4>4
        <5> DEFINE offers == [k \in 1..n |-> waitsFor]
        <5>3. offers \in Seq(Nat) /\ Len(offers) = n /\ offers[1] = waitsFor
          BY <5>1
        <5> HIDE DEF offers
        <5>4. toServer \in Seq(Nat) /\ toServer' = toServer \o offers
          BY <4>2 DEF offers
        <5>5. Len(toServer) + 1 \in DOMAIN toServer' /\ toServer'[Len(toServer) + 1] = offers[1]
          BY <5>1, <5>3, <5>4, ConcatProperties
        <5> QED
          BY <2>1, <5>3, <5>5
      <4> QED
        BY <4>3, <4>4
    <3>2. CASE Head(toClient) # frame
      BY <2>1, <2>5, <3>2, TailHolds
    <3> QED
      BY <3>1, <3>2
  <2> QED
    BY <2>1, <2>3, <2>4, <2>5 DEF AnswerIsDue
<1>6. CASE Host
  <2>1. PICK p \in held : /\ held' = held \ {p}
                          /\ toServer' = IF open THEN Append(toServer, p) ELSE toServer
    BY <1>6 DEF Host, HostReplies
  <2>2. open /\ toClient' = toClient /\ waitsFor' = waitsFor /\ ignored' = ignored
    BY <1>6 DEF Host, HostReplies
  <2>3. \A i \in DOMAIN toServer : i \in DOMAIN toServer' /\ toServer'[i] = toServer[i]
    BY <2>1, <2>2
  <2>4. Len(toServer) + 1 \in DOMAIN toServer' /\ toServer'[Len(toServer) + 1] = p
    BY <2>1, <2>2
  <2> QED
    BY <2>1, <2>2, <2>3, <2>4 DEF AnswerIsDue
<1>7. CASE Close \/ Setup \/ User \/ Sound \/ UNCHANGED vars
  <2>1. UNCHANGED avatarVars /\ (open' => open)
    BY <1>7 DEF Close, Setup, User, Sound, vars
  <2> QED
    BY <2>1 DEF avatarVars, AnswerIsDue
<1> QED
  BY <1>1, <1>2, <1>3, <1>4, <1>5, <1>6, <1>7 DEF Next, Server

(* While the server waits for an offer, its policy is on its way to the client, or
   the host has kept the reply for later, or the offer is on its way back, or the
   host's callback returned without any of these: one that throws leaves none of
   them undone (avatar_manager.ts:133-144). *)
THEOREM AnswerCorrect == Spec => []AnswerIsDue
<1>1. Init => AvatarType /\ AnswerIsDue
  BY DEF Init, AvatarsInit, AvatarType, AnswerIsDue
<1> QED
  BY <1>1, AvatarStep, AnswerStep, PTL DEF Spec
=============================================================================

------------------------------ MODULE Avatars ------------------------------
(***************************************************************************)
(* AvatarManager (avatar_manager.ts): the server sends a policy over the   *)
(* signalling socket, the host application's callback answers it with an   *)
(* offer, at once, later or not at all, and the server sends a result or   *)
(* withdraws the policy.                                                   *)
(*                                                                         *)
(* The host's reply function outlives the policy it belongs to, and offers *)
(* cross policies and revocations on the wire.  Results come when the      *)
(* server likes, for a policy or for none: the manager takes every one.  A *)
(* policy is its id, and what is offered is left out.  sendRevoke()        *)
(* changes no state of the client.                                         *)
(***************************************************************************)
EXTENDS Naturals, Sequences

CONSTANTS MaxPolicies      \* bound on the policies the server sends

ASSUME AvatarsAssumption == MaxPolicies \in Nat

VARIABLES
    open,           \* the signalling socket is
    toClient,       \* avatar frames on their way from the server
    toServer,       \* policy ids of the offers on their way to it
    currentPolicy,  \* policy ids, 0 for null
    lastOffer,
    lastResult,
    held,           \* policies whose reply function the host has kept for later
    ignored,        \* history: policies the host's callback took no notice of
    asked,          \* server: how many policies it has sent
    waitsFor        \* server: the policy it has no offer for yet, or 0

avatarVars == <<toClient, toServer, currentPolicy, lastOffer, lastResult,
                held, ignored, asked, waitsFor>>

Policies == 1..MaxPolicies

AvatarsInit ==
    /\ toClient = <<>> /\ toServer = <<>>
    /\ currentPolicy = 0 /\ lastOffer = 0 /\ lastResult = 0
    /\ held = {} /\ ignored = {}
    /\ asked = 0 /\ waitsFor = 0

----------------------------------------------------------------------------
(* The server. *)

Tell(kind, p) == toClient' = Append(toClient, [kind |-> kind, policy |-> p])

ServerAsks ==
    /\ open /\ asked < MaxPolicies
    /\ asked' = asked + 1
    /\ waitsFor' = asked + 1
    /\ Tell("policy", asked + 1)
    /\ UNCHANGED <<toServer, currentPolicy, lastOffer, lastResult, held, ignored>>

ServerRevokes ==
    /\ open /\ asked > 0
    /\ \A i \in DOMAIN toClient : toClient[i].kind # "revoke"
    /\ waitsFor' = 0
    /\ Tell("revoke", asked)
    /\ UNCHANGED <<toServer, currentPolicy, lastOffer, lastResult, held, ignored, asked>>

\* A result that no offer asked for, of any policy sent or of none: a server may
\* seat the client without negotiating.  One is on its way at a time.
ServerSeats ==
    /\ open
    /\ \A i \in DOMAIN toClient : toClient[i].kind # "result"
    /\ \E p \in 0..asked : Tell("result", p)
    /\ UNCHANGED <<toServer, currentPolicy, lastOffer, lastResult, held, ignored, asked, waitsFor>>

\* An offer for another policy than the one that is open is not looked at
ServerReceives ==
    /\ open /\ toServer # <<>>
    /\ toServer' = Tail(toServer)
    /\ IF Head(toServer) = waitsFor
       THEN Tell("result", waitsFor) /\ waitsFor' = 0
       ELSE UNCHANGED <<toClient, waitsFor>>
    /\ UNCHANGED <<currentPolicy, lastOffer, lastResult, held, ignored, asked>>

----------------------------------------------------------------------------
(* The manager. *)

Arriving(kind) == open /\ toClient # <<>> /\ Head(toClient).kind = kind

\* provideAvatar(), n times in one call of the host's
Provide(p, n) ==
    /\ toServer' = toServer \o [i \in 1..n |-> p]
    /\ lastOffer' = IF n > 0 THEN p ELSE lastOffer

\* Whether the host keeps the reply function, and whether it means to answer at all
Keep(p, keeps, answers) ==
    /\ held' = IF keeps THEN held \cup {p} ELSE held
    /\ ignored' = IF answers THEN ignored ELSE ignored \cup {p}

\* MUTANT of HandlePolicy: what the host's callback throws is nobody's concern
HandlePolicyUncaught ==
    /\ Arriving("policy")
    /\ LET p == Head(toClient).policy
       IN  /\ currentPolicy' = p
           /\ \E replies \in 0..1, threw, keeps \in BOOLEAN :
                  /\ Provide(p, replies)
                  /\ Keep(p, keeps, replies > 0 \/ keeps \/ threw)
    /\ toClient' = Tail(toClient)
    /\ UNCHANGED <<lastResult, asked, waitsFor>>

\* handlePolicy(): the host's callback, or the default one, replies at once, keeps
\* the reply for later or does neither, and may throw; then the default is offered
\* as well
HandlePolicy ==
    /\ Arriving("policy")
    /\ LET p == Head(toClient).policy
       IN  /\ currentPolicy' = p
           /\ \E replies \in 0..1, threw, keeps \in BOOLEAN :
                  /\ Provide(p, IF threw THEN replies + 1 ELSE replies)
                  /\ Keep(p, keeps, replies > 0 \/ keeps \/ threw)
    /\ toClient' = Tail(toClient)
    /\ UNCHANGED <<lastResult, asked, waitsFor>>

\* handleResult(): whatever policy it names, and whether or not there is one
HandleResult ==
    /\ Arriving("result")
    /\ lastResult' = Head(toClient).policy
    /\ toClient' = Tail(toClient)
    /\ UNCHANGED <<toServer, currentPolicy, lastOffer, held, ignored, asked, waitsFor>>

\* handleRevoke(): whatever policy it names
HandleRevoke ==
    /\ Arriving("revoke")
    /\ currentPolicy' = 0 /\ lastOffer' = 0 /\ lastResult' = 0
    /\ toClient' = Tail(toClient)
    /\ UNCHANGED <<toServer, held, ignored, asked, waitsFor>>

\* The host replies after all; on a closed socket the send throws back at it
HostReplies ==
    /\ \E p \in held :
           /\ held' = held \ {p}
           /\ lastOffer' = p
           /\ toServer' = IF open THEN Append(toServer, p) ELSE toServer
    /\ UNCHANGED <<toClient, currentPolicy, lastResult, ignored, asked, waitsFor>>

Manager == HandlePolicy \/ HandleResult \/ HandleRevoke

----------------------------------------------------------------------------
(* Properties. *)

\* A host callback that throws does not leave the server "waiting indefinitely"
\* (avatar_manager.ts:141), nor does one that replies later or twice, or to a
\* policy that has been replaced: a policy that is not withdrawn is answered, unless
\* the callback returned without replying, throwing or keeping the reply.
ServerGetsOffer == \A p \in Policies : waitsFor = p ~> waitsFor # p \/ p \in ignored \/ ~open
=============================================================================

----------------------------- MODULE Animation -----------------------------
(***************************************************************************)
(* AnimationController (scene/animation.ts): what the server asks each     *)
(* node to play, over the reliable channel, meets the clips and the        *)
(* skinned meshes that arrive over the geometry channel and the network.   *)
(*                                                                         *)
(* The server's two streams are ordered each, not against one another.     *)
(* Mixers and actions are three.js's; of an action the model keeps what    *)
(* decides whether it is seen to play.  When the mixers' clocks reach the  *)
(* end of a clip or of a fade is left open, and so is whether a state is   *)
(* dated ahead of the clock.  A mesh mounts while its node is in the scene *)
(* (RigIsLive of SceneGraph).  Left out: the contents and speeds of clips, *)
(* states for layers other than 0, which are ignored, and dispose(), which *)
(* SceneGraph has.                                                         *)
(***************************************************************************)
EXTENDS Naturals, Sequences

CONSTANTS
    Nodes,      \* node uids
    Anims,      \* animation uids
    NoAnim,     \* no animation
    NoRig,      \* a node without a rig
    NoState,    \* a node that nothing was asked of
    Drives,     \* pairs of a node and an animation that fits its rig
    MaxLife,    \* bound on the appearances and removals of a node
    MaxAsks     \* bound on the states asked of a node

ASSUME AnimationAssumption ==
    /\ NoAnim \notin Anims
    /\ MaxLife \in Nat
    /\ MaxAsks \in Nat

(* A state of ApplyAnimationCommand, and the record kept of it. *)
States == [anim : Anims, loop : BOOLEAN]
Kept   == [anim : Anims, loop : BOOLEAN, applied : BOOLEAN]

(* THREE.AnimationAction: activated in its mixer, enabled, paused, fading
   out, played over and over. *)
Actions == [active : BOOLEAN, enabled : BOOLEAN, paused : BOOLEAN,
            fading : BOOLEAN, loop : BOOLEAN]

Rigs == [current : Anims \cup {NoAnim}, action : [Anims -> Actions]]

ASSUME NoneAssumption == NoRig \notin Rigs /\ NoState \notin States \cup Kept

VARIABLES
    life,      \* geometry stream: a node is there when odd, removed when even
    asked,     \* history: what the server last asked of the node it has now
    asks,      \* how often the server has asked something of a node
    commands,  \* ApplyAnimation commands on their way to the client
    seen,      \* how far the client has come in the geometry stream
    clips,     \* AnimationController.clips
    desired,   \* AnimationController.desired
    rig,       \* AnimationController.rigs
    overtaken  \* history: nodes whose last state was deleted by the removal of the
               \* node that had the uid before

server == <<life, asked, asks>>
vars == <<server, commands, seen, clips, desired, rig, overtaken>>

TypeOK ==
    /\ life \in [Nodes -> Nat]
    /\ asked \in [Nodes -> States \cup {NoState}]
    /\ asks \in [Nodes -> Nat]
    /\ commands \in [Nodes -> Seq(States)]
    /\ seen \in [Nodes -> Nat]
    /\ clips \subseteq Anims
    /\ desired \in [Nodes -> Kept \cup {NoState}]
    /\ rig \in [Nodes -> Rigs \cup {NoRig}]
    /\ overtaken \subseteq Nodes

Init ==
    /\ life = [n \in Nodes |-> 0]
    /\ asked = [n \in Nodes |-> NoState]
    /\ asks = [n \in Nodes |-> 0]
    /\ commands = [n \in Nodes |-> <<>>]
    /\ seen = [n \in Nodes |-> 0]
    /\ clips = {}
    /\ desired = [n \in Nodes |-> NoState]
    /\ rig = [n \in Nodes |-> NoRig]
    /\ overtaken = {}

Present(k) == k % 2 = 1

----------------------------------------------------------------------------
(* The server.                                                             *)

(* A node appears in its scene, or leaves it, and may come again under its uid. *)
ServerNode(n) ==
    /\ life[n] < MaxLife
    /\ life' = [life EXCEPT ![n] = @ + 1]
    /\ asked' = [asked EXCEPT ![n] = NoState]
    /\ overtaken' = overtaken \ {n}
    /\ UNCHANGED <<asks, commands, seen, clips, desired, rig>>

(* It sends a state once, on a change of state (animation.ts:3-7). *)
ServerAsk(n, s) ==
    /\ Present(life[n])
    /\ asks[n] < MaxAsks
    /\ asks' = [asks EXCEPT ![n] = @ + 1]
    /\ asked' = [asked EXCEPT ![n] = s]
    /\ commands' = [commands EXCEPT ![n] = Append(@, s)]
    /\ overtaken' = overtaken \ {n}
    /\ UNCHANGED <<life, seen, clips, desired, rig>>

----------------------------------------------------------------------------
(* The client.                                                             *)

(* apply(cmd) *)
Record(s) == [anim |-> s.anim, loop |-> s.loop, applied |-> FALSE]

ApplyUnmarked(n) ==
    /\ commands[n] # <<>>
    /\ commands' = [commands EXCEPT ![n] = Tail(@)]
    /\ desired' = [desired EXCEPT ![n] = Head(commands[n])]
    /\ UNCHANGED <<server, seen, clips, rig, overtaken>>

ApplyMounted(n) ==
    /\ commands[n] # <<>>
    /\ commands' = [commands EXCEPT ![n] = Tail(@)]
    /\ desired' = IF rig[n] = NoRig THEN desired
                  ELSE [desired EXCEPT ![n] = Record(Head(commands[n]))]
    /\ UNCHANGED <<server, seen, clips, rig, overtaken>>

ApplyKeepsApplied(n) ==
    /\ commands[n] # <<>>
    /\ commands' = [commands EXCEPT ![n] = Tail(@)]
    /\ desired' = [desired EXCEPT ![n] =
                     IF @ = NoState THEN Record(Head(commands[n]))
                     ELSE [Record(Head(commands[n])) EXCEPT !.applied = desired[n].applied]]
    /\ UNCHANGED <<server, seen, clips, rig, overtaken>>

Apply(n) ==
    /\ commands[n] # <<>>
    /\ commands' = [commands EXCEPT ![n] = Tail(@)]
    /\ desired' = [desired EXCEPT ![n] = Record(Head(commands[n]))]
    /\ UNCHANGED <<server, seen, clips, rig, overtaken>>

(* setClip(uid, ...): whoever should play the clip tries again. *)
SetClip(a) ==
    /\ clips' = clips \cup {a}
    /\ desired' = [n \in Nodes |->
                     IF desired[n] # NoState /\ desired[n].anim = a
                     THEN [desired[n] EXCEPT !.applied = FALSE]
                     ELSE desired[n]]
    /\ UNCHANGED <<server, commands, seen, rig, overtaken>>

(* A Node payload: the adapter mounts the node; its mesh comes later. *)
NodeArrives(n) ==
    /\ seen[n] < life[n]
    /\ ~Present(seen[n])
    /\ seen' = [seen EXCEPT ![n] = @ + 1]
    /\ UNCHANGED <<server, commands, clips, desired, rig, overtaken>>

(* RemoveNodes: removeNode(uid) *)
RemoveNode(n) ==
    /\ seen[n] < life[n]
    /\ Present(seen[n])
    /\ seen' = [seen EXCEPT ![n] = @ + 1]
    /\ desired' = [desired EXCEPT ![n] = NoState]
    /\ rig' = [rig EXCEPT ![n] = NoRig]
    /\ overtaken' = IF commands[n] = <<>> /\ asked[n] # NoState
                    THEN overtaken \cup {n} ELSE overtaken
    /\ UNCHANGED <<server, commands, clips>>

(* onSkinnedRootMounted: a new rig, on which nothing plays. *)
Idle == [active |-> FALSE, enabled |-> TRUE, paused |-> FALSE,
         fading |-> FALSE, loop |-> TRUE]

FreshRig == [current |-> NoAnim, action |-> [a \in Anims |-> Idle]]

MountKeepsApplied(n) ==
    /\ Present(seen[n])
    /\ rig' = [rig EXCEPT ![n] = FreshRig]
    /\ UNCHANGED <<server, commands, seen, clips, desired, overtaken>>

Mount(n) ==
    /\ Present(seen[n])
    /\ rig' = [rig EXCEPT ![n] = FreshRig]
    /\ desired' = [desired EXCEPT ![n] =
                     IF @ = NoState THEN @ ELSE [@ EXCEPT !.applied = FALSE]]
    /\ UNCHANGED <<server, commands, seen, clips, overtaken>>

----------------------------------------------------------------------------
(* update(): start what can be started, then advance the mixers.           *)

(* tryStart gets past its three early returns. *)
Startable(n) ==
    /\ desired[n] # NoState
    /\ ~desired[n].applied
    /\ rig[n] # NoRig
    /\ desired[n].anim \in clips
    /\ <<n, desired[n].anim>> \in Drives

(* The action of the new animation: enabled, at full weight, played.  What
   pauses an action at its end is left as it was. *)
Play(x, loop) ==
    [x EXCEPT !.active = TRUE, !.enabled = TRUE, !.fading = FALSE, !.loop = loop]

(* The action it replaces: faded out when the state is dated ahead, stopped
   and reset otherwise. *)
Leave(x, ahead) == IF ahead THEN [x EXCEPT !.fading = TRUE] ELSE Idle

StartedOver(r, s, ahead) ==
    [current |-> s.anim,
     action  |-> [r.action EXCEPT ![s.anim] = Play(@, s.loop)]]

Started(r, s, ahead) ==
    [current |-> s.anim,
     action  |-> [a \in Anims |->
                    CASE a = s.anim    -> Play(r.action[a], s.loop)
                      [] a = r.current /\ a # s.anim -> Leave(r.action[a], ahead)
                      [] OTHER         -> r.action[a]]]

(* mixer.update(): clips end and fades end.  An action that plays once is
   paused at its end (clampWhenFinished); one that has faded out is disabled. *)
Advanced(x, atEnd, faded) ==
    [x EXCEPT !.paused  = @ \/ (x.active /\ x.enabled /\ ~x.loop /\ atEnd),
              !.fading  = @ /\ ~faded,
              !.enabled = @ /\ ~(x.fading /\ faded)]

(* The rigs that one frame may make of a node's rig. *)
Starts(n) == IF Startable(n) THEN {Started(rig[n], desired[n], ahead) : ahead \in BOOLEAN}
                             ELSE {rig[n]}

Running(r) == {a \in Anims : r.action[a].active}

AdvancedRigs(r) ==
    {[r EXCEPT !.action = [a \in Anims |-> Advanced(@[a], a \in ends, a \in fades)]] :
        ends, fades \in SUBSET Running(r)}

Frames(n) ==
    IF rig[n] = NoRig THEN {NoRig} ELSE UNION {AdvancedRigs(r) : r \in Starts(n)}

Update ==
    /\ \E next \in [Nodes -> UNION {Frames(n) : n \in Nodes}] :
           /\ \A n \in Nodes : next[n] \in Frames(n)
           /\ rig' = next
    /\ desired' = [n \in Nodes |->
                     IF Startable(n) THEN [desired[n] EXCEPT !.applied = TRUE]
                                     ELSE desired[n]]
    /\ UNCHANGED <<server, commands, seen, clips, overtaken>>

----------------------------------------------------------------------------
Server == \E n \in Nodes : ServerNode(n) \/ \E s \in States : ServerAsk(n, s)

Geometry(n) == NodeArrives(n) \/ RemoveNode(n) \/ Mount(n)

Next ==
    \/ Server
    \/ \E n \in Nodes : Apply(n) \/ Geometry(n)
    \/ \E a \in Anims : SetClip(a)
    \/ Update

Spec == Init /\ [][Next]_vars

(* The reliable channel delivers, and the render loop runs. *)
FairSpec == Spec /\ WF_vars(Update) /\ \A n \in Nodes : WF_vars(Apply(n))

----------------------------------------------------------------------------
(* Properties.                                                             *)

(* What is recorded as handed to a mixer is what the node's rig plays, as the
   current action, enabled and not fading out, whatever order the state, the
   clip and one rig after another arrive in (animation.ts:30-31, 108-111). *)
AppliedIsPlaying ==
    \A n \in Nodes :
        desired[n] # NoState /\ desired[n].applied =>
            /\ rig[n] # NoRig
            /\ rig[n].current = desired[n].anim
            /\ LET x == rig[n].action[desired[n].anim]
               IN  x.active /\ x.enabled /\ ~x.fading /\ x.loop = desired[n].loop

(* Whatever else a rig still plays is on its way out: no sequence of states,
   blended or not, leaves two animations at full weight (animation.ts:197-205). *)
OneAtFullWeight ==
    \A n \in Nodes : rig[n] # NoRig =>
        \A a \in Anims \ {rig[n].current} :
            LET x == rig[n].action[a] IN x.active /\ x.enabled => x.fading

(* Once both streams are drained, the client wants of every node what the server
   last asked of it: a state is kept for its clip and its node, as nothing will
   repeat it (animation.ts:4-7).  One state escapes the rule: that of a node whose
   uid was another's before, when it comes ahead of the removal of that other one,
   which deletes it (animation.ts:131). *)
Drained(n) == Present(seen[n]) /\ seen[n] = life[n] /\ commands[n] = <<>>

StateReachesNode ==
    \A n \in Nodes :
        /\ Drained(n) /\ asked[n] # NoState /\ n \notin overtaken =>
               /\ desired[n] # NoState
               /\ desired[n].anim = asked[n].anim
               /\ desired[n].loop = asked[n].loop
        /\ n \in overtaken => life[n] > 2

(* What the server asks of a node that has its rig and the clip gets played, unless
   the removal of the uid's last node took it away. *)
Playable(n) ==
    /\ Present(seen[n]) /\ seen[n] = life[n]
    /\ rig[n] # NoRig
    /\ asked[n] # NoState /\ n \notin overtaken
    /\ asked[n].anim \in clips
    /\ <<n, asked[n].anim>> \in Drives

Playing(n) ==
    /\ rig[n] # NoRig
    /\ asked[n] # NoState
    /\ rig[n].current = asked[n].anim
    /\ rig[n].action[asked[n].anim].active

AskedIsPlayed == \A n \in Nodes : Playable(n) ~> Playing(n) \/ ~Playable(n)

(* What animation.ts:3-4 says of the last state: it is kept playing until told
   otherwise.  An animation to be played over and over does not stand still. *)
LoopNeverPaused ==
    \A n \in Nodes :
        desired[n] # NoState /\ desired[n].applied /\ desired[n].loop =>
            ~rig[n].action[desired[n].anim].paused
=============================================================================

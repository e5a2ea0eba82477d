-------------------------- MODULE AnimationProofs --------------------------
(***************************************************************************)
(* Proofs about Animation, for every set of nodes and animations, every    *)
(* choice of which clips fit which rigs, and every number of states asked. *)
(***************************************************************************)
EXTENDS Animation, TLAPS

(* A rig stays a rig when an animation is started on it and when its mixer
   advances. *)
LEMMA IdleType == Idle \in Actions /\ FreshRig \in Rigs
    BY DEF Idle, Actions, FreshRig, Rigs

LEMMA StartedType ==
    ASSUME NEW r \in Rigs, NEW s \in Kept, NEW ahead \in BOOLEAN
    PROVE  Started(r, s, ahead) \in Rigs
<1>1. ASSUME NEW x \in Actions, NEW loop \in BOOLEAN PROVE Play(x, loop) \in Actions
  BY <1>1 DEF Play, Actions
<1>2. ASSUME NEW x \in Actions PROVE Leave(x, ahead) \in Actions
  BY <1>2, IdleType DEF Leave, Actions
<1> DEFINE act == [a \in Anims |->
                     CASE a = s.anim    -> Play(r.action[a], s.loop)
                       [] a = r.current /\ a # s.anim -> Leave(r.action[a], ahead)
                       [] OTHER         -> r.action[a]]
<1>3. s.anim \in Anims /\ s.loop \in BOOLEAN /\ r.action \in [Anims -> Actions]
  BY DEF Kept, Rigs
<1>4. act \in [Anims -> Actions]
  <2>1. ASSUME NEW a \in Anims PROVE act[a] \in Actions
    <3>1. r.action[a] \in Actions
      BY <1>3
    <3>2. CASE a = s.anim
      BY <3>1, <3>2, <1>1, <1>3
    <3>3. CASE a # s.anim /\ a = r.current
      BY <3>1, <3>3, <1>2
    <3>4. CASE a # s.anim /\ a # r.current
      BY <3>1, <3>4
    <3> QED
      BY <3>2, <3>3, <3>4
  <2> QED
    BY <2>1
<1>5. Started(r, s, ahead) = [current |-> s.anim, action |-> act]
  BY DEF Started
<1> HIDE DEF act
<1> QED
  BY <1>3, <1>4, <1>5 DEF Rigs

LEMMA StartsType ==
    ASSUME TypeOK, NEW n \in Nodes, rig[n] # NoRig, NEW r \in Starts(n)
    PROVE  r \in Rigs
<1>1. rig[n] \in Rigs
  BY DEF TypeOK
<1>2. CASE Startable(n)
  <2>1. desired[n] \in Kept
    BY <1>2 DEF Startable, TypeOK
  <2>2. PICK ahead \in BOOLEAN : r = Started(rig[n], desired[n], ahead)
    BY <1>2 DEF Starts
  <2> QED
    BY <1>1, <2>1, <2>2, StartedType
<1>3. CASE ~Startable(n)
  BY <1>1, <1>3 DEF Starts
<1> QED
  BY <1>2, <1>3

(* What a frame makes of a rig: the current animation is that of some start,
   and every action is advanced. *)
LEMMA FrameOf ==
    ASSUME TypeOK, NEW n \in Nodes, rig[n] # NoRig, NEW next \in Frames(n)
    PROVE  \E r \in Starts(n), ends \in SUBSET Anims, fades \in SUBSET Anims :
               /\ r \in Rigs
               /\ next \in Rigs
               /\ next.current = r.current
               /\ \A a \in Anims :
                      next.action[a] = Advanced(r.action[a], a \in ends, a \in fades)
<1>1. PICK r \in Starts(n), ends \in SUBSET Anims, fades \in SUBSET Anims :
         next = [r EXCEPT !.action =
                   [a \in Anims |-> Advanced(@[a], a \in ends, a \in fades)]]
  <2>1. PICK r \in Starts(n) : next \in AdvancedRigs(r)
    BY DEF Frames
  <2>2. PICK ends \in SUBSET Running(r), fades \in SUBSET Running(r) :
           next = [r EXCEPT !.action =
                     [a \in Anims |-> Advanced(@[a], a \in ends, a \in fades)]]
    BY <2>1 DEF AdvancedRigs
  <2>3. ends \in SUBSET Anims /\ fades \in SUBSET Anims
    BY <2>2 DEF Running
  <2> QED
    BY <2>2, <2>3
<1>2. r \in Rigs
  BY StartsType
<1> DEFINE act == [a \in Anims |-> Advanced(r.action[a], a \in ends, a \in fades)]
<1>3. act \in [Anims -> Actions]
  <2>1. ASSUME NEW a \in Anims PROVE act[a] \in Actions
    <3>1. r.action[a] \in Actions
      BY <1>2 DEF Rigs
    <3> QED
      BY <3>1 DEF Advanced, Actions
  <2> QED
    BY <2>1
<1>4. next = [r EXCEPT !.action = act]
  BY <1>1
<1>5. \A a \in Anims : act[a] = Advanced(r.action[a], a \in ends, a \in fades)
  OBVIOUS
<1> HIDE DEF act
<1>6. next.current = r.current /\ next.action = act /\ next \in Rigs
  BY <1>2, <1>3, <1>4 DEF Rigs
<1> QED
  BY <1>2, <1>5, <1>6

----------------------------------------------------------------------------

LEMMA TypeStep == TypeOK /\ [Next]_vars => TypeOK'
<1> SUFFICES ASSUME TypeOK, [Next]_vars PROVE TypeOK'
  OBVIOUS
<1> USE DEF server
<1>1. ASSUME NEW n \in Nodes, ServerNode(n) PROVE TypeOK'
  BY <1>1 DEF ServerNode, TypeOK
<1>2. ASSUME NEW n \in Nodes, NEW s \in States, ServerAsk(n, s) PROVE TypeOK'
  BY <1>2 DEF ServerAsk, TypeOK
<1>3. ASSUME NEW n \in Nodes, Apply(n) PROVE TypeOK'
  <2>1. commands[n] \in Seq(States) /\ commands[n] # <<>>
    BY <1>3 DEF Apply, TypeOK
  <2>2. Head(commands[n]) \in States /\ Tail(commands[n]) \in Seq(States)
    BY <2>1
  <2>3. Record(Head(commands[n])) \in Kept
    BY <2>2 DEF Record, States, Kept
  <2> QED
    BY <1>3, <2>2, <2>3 DEF Apply, TypeOK
<1>4. ASSUME NEW a \in Anims, SetClip(a) PROVE TypeOK'
  <2>1. ASSUME NEW n \in Nodes PROVE desired'[n] \in Kept \cup {NoState}
    BY <1>4 DEF SetClip, TypeOK, Kept
  <2> QED
    BY <1>4, <2>1 DEF SetClip, TypeOK
<1>5. ASSUME NEW n \in Nodes, NodeArrives(n) PROVE TypeOK'
  BY <1>5 DEF NodeArrives, TypeOK
<1>6. ASSUME NEW n \in Nodes, RemoveNode(n) PROVE TypeOK'
  BY <1>6 DEF RemoveNode, TypeOK
<1>7. ASSUME NEW n \in Nodes, Mount(n) PROVE TypeOK'
  <2>1. (IF desired[n] = NoState THEN desired[n] ELSE [desired[n] EXCEPT !.applied = FALSE])
            \in Kept \cup {NoState}
    BY DEF TypeOK, Kept
  <2> QED
    BY <1>7, <2>1, IdleType DEF Mount, TypeOK
<1>8. CASE Update
  <2>1. ASSUME NEW n \in Nodes PROVE rig'[n] \in Rigs \cup {NoRig}
    <3>1. rig'[n] \in Frames(n)
      BY <1>8 DEF Update
    <3>2. CASE rig[n] = NoRig
      BY <3>1, <3>2 DEF Frames
    <3>3. CASE rig[n] # NoRig
      BY <3>1, <3>3, FrameOf
    <3> QED
      BY <3>2, <3>3
  <2>2. ASSUME NEW n \in Nodes PROVE desired'[n] \in Kept \cup {NoState}
    BY <1>8 DEF Update, Startable, TypeOK, Kept
  <2>3. rig' \in [Nodes -> Rigs \cup {NoRig}]
    <3>1. PICK next \in [Nodes -> UNION {Frames(n) : n \in Nodes}] : rig' = next
      BY <1>8 DEF Update
    <3> QED
      BY <3>1, <2>1
  <2> QED
    BY <1>8, <2>2, <2>3 DEF Update, TypeOK
<1>9. CASE UNCHANGED vars
  BY <1>9 DEF vars, TypeOK
<1> QED
  BY <1>1, <1>2, <1>3, <1>4, <1>5, <1>6, <1>7, <1>8, <1>9 DEF Next, Server, Geometry

(* Every state of the animation controller has its type. *)
THEOREM TypeCorrect == Spec => []TypeOK
<1>1. Init => TypeOK
  BY DEF Init, TypeOK
<1> QED
  BY <1>1, TypeStep, PTL DEF Spec

----------------------------------------------------------------------------
(* One node at a time. *)

PlaysApplied(n) ==
    desired[n] # NoState /\ desired[n].applied =>
        /\ rig[n] # NoRig
        /\ rig[n].current = desired[n].anim
        /\ LET x == rig[n].action[desired[n].anim]
           IN  x.active /\ x.enabled /\ ~x.fading /\ x.loop = desired[n].loop

LEMMA AppliedInUpdate ==
    ASSUME TypeOK, NEW n \in Nodes, PlaysApplied(n), Update
    PROVE  PlaysApplied(n)'
<1> SUFFICES ASSUME desired'[n] # NoState, desired'[n].applied
             PROVE  /\ rig'[n] # NoRig
                    /\ rig'[n].current = desired'[n].anim
                    /\ rig'[n].action[desired'[n].anim].active
                    /\ rig'[n].action[desired'[n].anim].enabled
                    /\ ~rig'[n].action[desired'[n].anim].fading
                    /\ rig'[n].action[desired'[n].anim].loop = desired'[n].loop
  BY DEF PlaysApplied
<1>1. /\ desired[n] \in Kept
      /\ desired'[n].anim = desired[n].anim
      /\ desired'[n].loop = desired[n].loop
      /\ Startable(n) \/ desired[n].applied
  BY DEF Update, Startable, TypeOK, Kept
<1>2. rig[n] # NoRig /\ rig[n] \in Rigs
  BY <1>1, NoneAssumption DEF PlaysApplied, Startable, TypeOK
<1>3. rig'[n] \in Frames(n)
  BY DEF Update
<1>4. PICK r \in Starts(n), ends \in SUBSET Anims, fades \in SUBSET Anims :
         /\ r \in Rigs
         /\ rig'[n] \in Rigs
         /\ rig'[n].current = r.current
         /\ \A a \in Anims :
                rig'[n].action[a] = Advanced(r.action[a], a \in ends, a \in fades)
  BY <1>2, <1>3, FrameOf
<1> DEFINE s == desired[n].anim
<1>5. s \in Anims
  BY <1>1 DEF Kept
<1>6. /\ r.current = s
      /\ r.action[s].active /\ r.action[s].enabled
      /\ ~r.action[s].fading /\ r.action[s].loop = desired[n].loop
  <2>1. CASE Startable(n)
    <3>1. PICK ahead \in BOOLEAN : r = Started(rig[n], desired[n], ahead)
      BY <2>1 DEF Starts
    <3>2. r.current = s /\ r.action[s] = Play(rig[n].action[s], desired[n].loop)
      BY <3>1, <1>5 DEF Started
    <3>3. rig[n].action[s] \in Actions
      BY <1>2, <1>5 DEF Rigs
    <3> QED
      BY <3>2, <3>3 DEF Play, Actions
  <2>2. CASE ~Startable(n)
    <3>1. r = rig[n] /\ desired[n].applied
      BY <2>2, <1>1 DEF Starts
    <3> QED
      BY <3>1, <1>1, NoneAssumption DEF PlaysApplied
  <2> QED
    BY <2>1, <2>2
<1>7. r.action[s] \in Actions
  BY <1>4, <1>5 DEF Rigs
<1>8. rig'[n].action[s] = Advanced(r.action[s], s \in ends, s \in fades)
  BY <1>4, <1>5
<1>9. /\ rig'[n].action[s].active /\ rig'[n].action[s].enabled
      /\ ~rig'[n].action[s].fading
      /\ rig'[n].action[s].loop = desired[n].loop
  BY <1>6, <1>7, <1>8 DEF Advanced, Actions
<1> QED
  BY <1>1, <1>4, <1>6, <1>9, NoneAssumption

(* What counts as applied is playing: every handler that takes the rig away,
   or changes what is wanted, takes the mark away with it. *)
THEOREM AppliedCorrect == Spec => []AppliedIsPlaying
<1>1. Init => AppliedIsPlaying
  BY DEF Init, AppliedIsPlaying
<1>2. TypeOK /\ AppliedIsPlaying /\ [Next]_vars => AppliedIsPlaying'
  <2> SUFFICES ASSUME TypeOK, AppliedIsPlaying, [Next]_vars, NEW m \in Nodes
               PROVE  PlaysApplied(m)'
    BY DEF AppliedIsPlaying, PlaysApplied
  <2> USE DEF server
  <2>1. PlaysApplied(m)
    BY DEF AppliedIsPlaying, PlaysApplied
  <2>2. ASSUME rig' = rig, desired' = desired PROVE PlaysApplied(m)'
    BY <2>1, <2>2 DEF PlaysApplied
  <2>3. ASSUME NEW n \in Nodes, Apply(n) PROVE PlaysApplied(m)'
    <3>1. CASE m = n
      BY <2>3, <3>1 DEF Apply, Record, PlaysApplied, TypeOK
    <3>2. CASE m # n
      BY <2>1, <2>3, <3>2 DEF Apply, PlaysApplied, TypeOK
    <3> QED
      BY <3>1, <3>2
  <2>4. ASSUME NEW a \in Anims, SetClip(a) PROVE PlaysApplied(m)'
    <3>1. CASE desired[m] # NoState /\ desired[m].anim = a
      BY <2>4, <3>1 DEF SetClip, PlaysApplied, TypeOK, Kept
    <3>2. CASE ~(desired[m] # NoState /\ desired[m].anim = a)
      BY <2>1, <2>4, <3>2 DEF SetClip, PlaysApplied
    <3> QED
      BY <3>1, <3>2
  <2>5. ASSUME NEW n \in Nodes, RemoveNode(n) PROVE PlaysApplied(m)'
    BY <2>1, <2>5 DEF RemoveNode, PlaysApplied, TypeOK
  <2>6. ASSUME NEW n \in Nodes, Mount(n) PROVE PlaysApplied(m)'
    <3>1. CASE m = n
      BY <2>6, <3>1 DEF Mount, PlaysApplied, TypeOK, Kept
    <3>2. CASE m # n
      BY <2>1, <2>6, <3>2 DEF Mount, PlaysApplied, TypeOK
    <3> QED
      BY <3>1, <3>2
  <2>7. CASE Update
    BY <2>1, <2>7, AppliedInUpdate
  <2>8. CASE UNCHANGED vars
    BY <2>2, <2>8 DEF vars
  <2>9. ASSUME NEW n \in Nodes,
               ServerNode(n) \/ (\E s \in States : ServerAsk(n, s)) \/ NodeArrives(n)
        PROVE  PlaysApplied(m)'
    BY <2>2, <2>9 DEF ServerNode, ServerAsk, NodeArrives
  <2> QED
    BY <2>3, <2>4, <2>5, <2>6, <2>7, <2>8, <2>9 DEF Next, Server, Geometry
<1> QED
  BY <1>1, <1>2, TypeCorrect, PTL DEF Spec

----------------------------------------------------------------------------

OthersLeave(n) ==
    rig[n] # NoRig =>
        \A a \in Anims \ {rig[n].current} :
            LET x == rig[n].action[a] IN x.active /\ x.enabled => x.fading

LEMMA OthersInUpdate ==
    ASSUME TypeOK, NEW n \in Nodes, OthersLeave(n), Update
    PROVE  OthersLeave(n)'
<1> SUFFICES ASSUME rig'[n] # NoRig,
                    NEW a \in Anims, a # rig'[n].current,
                    rig'[n].action[a].active, rig'[n].action[a].enabled
             PROVE  rig'[n].action[a].fading
  BY DEF OthersLeave
<1>1. rig'[n] \in Frames(n)
  BY DEF Update
<1>2. rig[n] # NoRig /\ rig[n] \in Rigs
  BY <1>1 DEF Frames, TypeOK
<1>3. PICK r \in Starts(n), ends \in SUBSET Anims, fades \in SUBSET Anims :
         /\ r \in Rigs
         /\ rig'[n].current = r.current
         /\ \A b \in Anims :
                rig'[n].action[b] = Advanced(r.action[b], b \in ends, b \in fades)
  BY <1>1, <1>2, FrameOf
<1>4. r.action[a] \in Actions /\ rig[n].action[a] \in Actions
  BY <1>2, <1>3 DEF Rigs
<1>5. r.action[a].active /\ r.action[a].enabled => r.action[a].fading
  <2>1. CASE Startable(n)
    <3>1. PICK ahead \in BOOLEAN : r = Started(rig[n], desired[n], ahead)
      BY <2>1 DEF Starts
    <3>2. r.current = desired[n].anim /\ a # desired[n].anim
      BY <3>1, <1>3 DEF Started
    <3>3. CASE a = rig[n].current
      <4>1. r.action[a] = Leave(rig[n].action[a], ahead)
        BY <3>1, <3>2, <3>3 DEF Started
      <4> QED
        BY <4>1, <1>4 DEF Leave, Idle, Actions
    <3>4. CASE a # rig[n].current
      <4>1. r.action[a] = rig[n].action[a]
        BY <3>1, <3>2, <3>4 DEF Started
      <4> QED
        BY <4>1, <3>4, <1>2 DEF OthersLeave
    <3> QED
      BY <3>3, <3>4
  <2>2. CASE ~Startable(n)
    BY <2>2, <1>2, <1>3 DEF Starts, OthersLeave
  <2> QED
    BY <2>1, <2>2
<1>6. rig'[n].action[a] = Advanced(r.action[a], a \in ends, a \in fades)
  BY <1>3
<1> QED
  BY <1>4, <1>5, <1>6 DEF Advanced, Actions

(* No sequence of states leaves two animations at full weight on a rig. *)
THEOREM OneCorrect == Spec => []OneAtFullWeight
<1>1. Init => OneAtFullWeight
  BY DEF Init, OneAtFullWeight
<1>2. TypeOK /\ OneAtFullWeight /\ [Next]_vars => OneAtFullWeight'
  <2> SUFFICES ASSUME TypeOK, OneAtFullWeight, [Next]_vars, NEW m \in Nodes
               PROVE  OthersLeave(m)'
    BY DEF OneAtFullWeight, OthersLeave
  <2> USE DEF server
  <2>1. OthersLeave(m)
    BY DEF OneAtFullWeight, OthersLeave
  <2>2. ASSUME rig' = rig PROVE OthersLeave(m)'
    BY <2>1, <2>2 DEF OthersLeave
  <2>3. ASSUME NEW n \in Nodes, RemoveNode(n) PROVE OthersLeave(m)'
    BY <2>1, <2>3 DEF RemoveNode, OthersLeave, TypeOK
  <2>4. ASSUME NEW n \in Nodes, Mount(n) PROVE OthersLeave(m)'
    BY <2>1, <2>4 DEF Mount, OthersLeave, TypeOK, FreshRig, Idle
  <2>5. CASE Update
    BY <2>1, <2>5, OthersInUpdate
  <2>6. ASSUME NEW n \in Nodes,
               \/ ServerNode(n) \/ (\E s \in States : ServerAsk(n, s))
               \/ NodeArrives(n) \/ Apply(n)
        PROVE  OthersLeave(m)'
    BY <2>2, <2>6 DEF ServerNode, ServerAsk, NodeArrives, Apply
  <2>7. CASE \E a \in Anims : SetClip(a)
    BY <2>2, <2>7 DEF SetClip
  <2>8. CASE UNCHANGED vars
    BY <2>2, <2>8 DEF vars
  <2> QED
    BY <2>3, <2>4, <2>5, <2>6, <2>7, <2>8 DEF Next, Server, Geometry
<1> QED
  BY <1>1, <1>2, TypeCorrect, PTL DEF Spec

----------------------------------------------------------------------------
(* Where what was last asked of a node is: at the end of the commands on their
   way, or with the client once there are none. *)

Wanted(n, s) ==
    desired[n] # NoState /\ desired[n].anim = s.anim /\ desired[n].loop = s.loop

Conveyed(n) ==
    /\ seen[n] <= life[n]
    /\ asked[n] # NoState => Present(life[n])
    /\ asked[n] # NoState /\ n \notin overtaken =>
           IF commands[n] = <<>> THEN Wanted(n, asked[n])
           ELSE commands[n][Len(commands[n])] = asked[n]
    /\ n \in overtaken => life[n] > 2

Conveying == \A n \in Nodes : Conveyed(n)

(* A node that is removed while its uid is in use again is not the uid's first. *)
LEMMA PresentTwice ==
    ASSUME NEW k \in Nat, NEW l \in Nat, Present(k), Present(l), k < l PROVE l > 2
<1>1. ~Present(0) /\ ~Present(2)
  BY DEF Present
<1> QED
  BY <1>1

LEMMA ConveyedStep ==
    ASSUME TypeOK, Conveying, [Next]_vars PROVE Conveying'
<1> SUFFICES ASSUME NEW m \in Nodes PROVE Conveyed(m)'
  BY DEF Conveying
<1> USE DEF server
<1>1. Conveyed(m)
  BY DEF Conveying
<1>2. life[m] \in Nat /\ seen[m] \in Nat /\ commands[m] \in Seq(States)
  BY DEF TypeOK
<1>3. ASSUME UNCHANGED <<life, seen, asked, commands, overtaken>>,
             desired[m] # NoState => /\ desired'[m] # NoState
                                     /\ desired'[m].anim = desired[m].anim
                                     /\ desired'[m].loop = desired[m].loop
      PROVE  Conveyed(m)'
  BY <1>1, <1>3 DEF Conveyed, Wanted
<1>4. ASSUME NEW n \in Nodes, ServerNode(n) PROVE Conveyed(m)'
  <2>1. CASE m = n
    BY <1>1, <1>2, <1>4, <2>1 DEF ServerNode, Conveyed, TypeOK
  <2>2. CASE m # n
    BY <1>1, <1>4, <2>2 DEF ServerNode, Conveyed, Wanted, TypeOK
  <2> QED
    BY <2>1, <2>2
<1>5. ASSUME NEW n \in Nodes, NEW s \in States, ServerAsk(n, s) PROVE Conveyed(m)'
  <2>1. CASE m = n
    <3>1. commands'[m] = Append(commands[m], s) /\ asked'[m] = s
      BY <1>5, <2>1 DEF ServerAsk, TypeOK
    <3>2. /\ commands'[m] # <<>>
          /\ commands'[m][Len(commands'[m])] = s
      BY <3>1, <1>2
    <3> QED
      BY <1>1, <1>5, <3>1, <3>2 DEF ServerAsk, Conveyed
  <2>2. CASE m # n
    BY <1>1, <1>5, <2>2 DEF ServerAsk, Conveyed, Wanted, TypeOK
  <2> QED
    BY <2>1, <2>2
<1>6. ASSUME NEW n \in Nodes, Apply(n) PROVE Conveyed(m)'
  <2>1. CASE m = n
    <3>1. /\ commands[m] # <<>>
          /\ commands'[m] = Tail(commands[m])
          /\ desired'[m] = Record(Head(commands[m]))
      BY <1>6, <2>1 DEF Apply, TypeOK
    <3>2. Head(commands[m]) \in States
      BY <1>2, <3>1
    <3>3. CASE commands'[m] = <<>>
      <4>1. Head(commands[m]) = commands[m][Len(commands[m])]
        <5>1. Len(Tail(commands[m])) = Len(commands[m]) - 1 /\ Len(commands[m]) \in Nat
          BY <1>2, <3>1
        <5>2. Len(Tail(commands[m])) = 0
          <6>1. Tail(commands[m]) = <<>>
            BY <3>1, <3>3
          <6>2. Len(<<>>) = 0
            OBVIOUS
          <6> QED
            BY <6>1, <6>2
        <5>3. Len(commands[m]) = 1
          BY <5>1, <5>2
        <5> QED
          BY <1>2, <3>1, <5>3
      <4>2. Record(Head(commands[m])) \in Kept
        BY <3>2 DEF Record, States, Kept
      <4>3. /\ desired'[m] # NoState
            /\ desired'[m].anim = Head(commands[m]).anim
            /\ desired'[m].loop = Head(commands[m]).loop
        <5>1. Record(Head(commands[m])) # NoState
          BY <4>2, NoneAssumption
        <5>2. /\ Record(Head(commands[m])).anim = Head(commands[m]).anim
              /\ Record(Head(commands[m])).loop = Head(commands[m]).loop
          BY DEF Record
        <5> QED
          BY <3>1, <5>1, <5>2
      <4> QED
        BY <1>1, <1>6, <3>1, <3>3, <4>1, <4>3 DEF Apply, Conveyed, Wanted
    <3>4. CASE commands'[m] # <<>>
      <4>1. commands'[m][Len(commands'[m])] = commands[m][Len(commands[m])]
        BY <1>2, <3>1, <3>4
      <4> QED
        BY <1>1, <1>6, <3>1, <3>4, <4>1 DEF Apply, Conveyed
    <3> QED
      BY <3>3, <3>4
  <2>2. CASE m # n
    BY <1>1, <1>6, <2>2 DEF Apply, Conveyed, Wanted, TypeOK
  <2> QED
    BY <2>1, <2>2
<1>7. ASSUME NEW a \in Anims, SetClip(a) PROVE Conveyed(m)'
  <2>1. desired[m] # NoState => /\ desired'[m] # NoState
                                /\ desired'[m].anim = desired[m].anim
                                /\ desired'[m].loop = desired[m].loop
    BY <1>7, NoneAssumption DEF SetClip, TypeOK, Kept
  <2> QED
    BY <1>3, <1>7, <2>1 DEF SetClip
<1>8. ASSUME NEW n \in Nodes, NodeArrives(n) PROVE Conveyed(m)'
  BY <1>1, <1>2, <1>8 DEF NodeArrives, Conveyed, Wanted, TypeOK
<1>9. ASSUME NEW n \in Nodes, RemoveNode(n) PROVE Conveyed(m)'
  <2>1. CASE m = n
    <3>1. /\ Present(seen[m]) /\ seen[m] < life[m] /\ seen'[m] = seen[m] + 1
          /\ UNCHANGED <<life, asked, commands>>
          /\ overtaken' = IF commands[m] = <<>> /\ asked[m] # NoState
                          THEN overtaken \cup {m} ELSE overtaken
      BY <1>9, <2>1 DEF RemoveNode, TypeOK
    <3>2. CASE commands[m] = <<>> /\ asked[m] # NoState
      <4>1. life[m] > 2
        BY <1>1, <1>2, <3>1, <3>2, PresentTwice DEF Conveyed
      <4> QED
        BY <1>1, <1>2, <3>1, <3>2, <4>1 DEF Conveyed
    <3>3. CASE ~(commands[m] = <<>> /\ asked[m] # NoState)
      BY <1>1, <1>2, <3>1, <3>3 DEF Conveyed
    <3> QED
      BY <3>2, <3>3
  <2>2. CASE m # n
    BY <1>1, <1>9, <2>2 DEF RemoveNode, Conveyed, Wanted, TypeOK
  <2> QED
    BY <2>1, <2>2
<1>10. ASSUME NEW n \in Nodes, Mount(n) PROVE Conveyed(m)'
  <2>1. desired[m] # NoState => /\ desired'[m] # NoState
                                /\ desired'[m].anim = desired[m].anim
                                /\ desired'[m].loop = desired[m].loop
    BY <1>10, NoneAssumption DEF Mount, TypeOK, Kept
  <2> QED
    BY <1>3, <1>10, <2>1 DEF Mount
<1>11. CASE Update
  <2>1. desired[m] # NoState => /\ desired'[m] # NoState
                                /\ desired'[m].anim = desired[m].anim
                                /\ desired'[m].loop = desired[m].loop
    BY <1>11, NoneAssumption DEF Update, TypeOK, Kept
  <2> QED
    BY <1>3, <1>11, <2>1 DEF Update
<1>12. CASE UNCHANGED vars
  BY <1>3, <1>12 DEF vars
<1> QED
  BY <1>4, <1>5, <1>6, <1>7, <1>8, <1>9, <1>10, <1>11, <1>12 DEF Next, Server, Geometry

(* A state reaches its node in whatever order the two streams come, and however
   often the node's uid is used: only a removal that it overtook takes it away, and
   only where the uid was another node's before. *)
THEOREM StateCorrect == Spec => []StateReachesNode
<1>1. Init => Conveying
  <2> SUFFICES ASSUME Init, NEW n \in Nodes PROVE Conveyed(n)
    BY DEF Conveying
  <2>1. life[n] = 0 /\ seen[n] = 0 /\ asked[n] = NoState /\ n \notin overtaken
    BY DEF Init
  <2> QED
    BY <2>1 DEF Conveyed
<1>2. TypeOK /\ Conveying /\ [Next]_vars => Conveying'
  BY ConveyedStep
<1>3. Conveying => StateReachesNode
  BY DEF Conveying, Conveyed, StateReachesNode, Drained, Wanted
<1> QED
  BY <1>1, <1>2, <1>3, TypeCorrect, PTL DEF Spec

----------------------------------------------------------------------------
(* The safety half of AskedIsPlayed: once the commands of a playable node have
   been delivered, the next frame plays what was asked last. *)
OneFrameIsEnough ==
    [][Update => \A n \in Nodes : Playable(n) /\ commands[n] = <<>> => Playing(n)']_vars

LEMMA PlayedByUpdate ==
    ASSUME TypeOK, AppliedIsPlaying, StateReachesNode, Update,
           NEW n \in Nodes, Playable(n), commands[n] = <<>>
    PROVE  Playing(n)'
<1>1. desired[n] # NoState /\ desired[n].anim = asked[n].anim /\ asked[n] # NoState
  BY DEF StateReachesNode, Drained, Playable
<1>2. desired[n].applied \/ Startable(n)
  BY <1>1 DEF Playable, Startable
<1>3. desired[n] \in Kept
  BY <1>1 DEF TypeOK
<1>4. desired'[n] = IF Startable(n) THEN [desired[n] EXCEPT !.applied = TRUE] ELSE desired[n]
  BY DEF Update
<1>5. /\ desired'[n] \in Kept /\ desired'[n] # NoState
      /\ desired'[n].applied /\ desired'[n].anim = asked[n].anim
  BY <1>1, <1>2, <1>3, <1>4, NoneAssumption DEF Kept
<1>6. PlaysApplied(n)'
  BY AppliedInUpdate DEF AppliedIsPlaying, PlaysApplied
<1>7. asked' = asked
  BY DEF Update, server
<1> QED
  BY <1>1, <1>5, <1>6, <1>7 DEF PlaysApplied, Playing

(* One frame is enough: nothing keeps a state that has come, for a node with its
   rig and a clip that fits, from being the animation played after the next
   update, whatever came before it (animation.ts:4-7, 108-111, 143-195); Playable
   says which state has come to stay. *)
THEOREM OneFrameCorrect == Spec => OneFrameIsEnough
<1> DEFINE Played == Update => \A n \in Nodes : Playable(n) /\ commands[n] = <<>> => Playing(n)'
<1>1. TypeOK /\ AppliedIsPlaying /\ StateReachesNode => [Played]_vars
  BY PlayedByUpdate
<1>2. Spec => []StateReachesNode
  BY StateCorrect
<1> QED
  BY <1>1, <1>2, TypeCorrect, AppliedCorrect, PTL DEF OneFrameIsEnough
=============================================================================

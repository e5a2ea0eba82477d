---------------------------- MODULE InputProofs ----------------------------
(* Proofs about Input, for any set of keys. *)
EXTENDS Input, TLAPS

(* No key sticks: through losses of focus, keyups of other windows, keydowns that
   are the browser's and hubs made anew, a key that is taken for held is held
   (desktop.ts:89-102, component.ts:380-405). *)
THEOREM KeysCorrect == Spec => []KeysAreHeld
<1>1. Init => KeysAreHeld
  BY DEF Init, KeysAreHeld
<1>2. KeysAreHeld /\ [Next]_vars => KeysAreHeld'
  <2> SUFFICES ASSUME KeysAreHeld, [Next]_vars PROVE KeysAreHeld'
    OBVIOUS
  <2> USE DEF KeysAreHeld, user, page, element, server
  <2>1. ASSUME NEW k \in Keys, KeyDown(k) PROVE KeysAreHeld'
    BY <2>1 DEF KeyDown
  <2>2. ASSUME NEW k \in Keys, KeyUp(k) PROVE KeysAreHeld'
    BY <2>2 DEF KeyUp
  <2>3. CASE Ctrl
    BY <2>3 DEF Ctrl
  <2>4. CASE Blur
    BY <2>4 DEF Blur
  <2>5. CASE Focus
    \* without focus no key was taken for held
    BY <2>5 DEF Focus
  <2>6. CASE SetMode
    BY <2>6 DEF SetMode, Control
  <2>7. CASE Attach \/ Detach
    BY <2>7 DEF Attach, Detach, Control
  <2>8. CASE NewSession \/ ChangeState \/ ChannelChanges
    BY <2>8 DEF NewSession, ChangeState, ChannelChanges
  <2>9. CASE \E inputs \in [Keys -> Kinds] : SetInputs(inputs)
    BY <2>9 DEF SetInputs
  <2>10. CASE Tick
    BY <2>10 DEF Tick
  <2>11. CASE UNCHANGED vars
    BY <2>11 DEF vars
  <2> QED
    BY <2>1, <2>2, <2>3, <2>4, <2>5, <2>6, <2>7, <2>8, <2>9, <2>10, <2>11 DEF Next
<1> QED
  BY <1>1, <1>2, PTL DEF Spec

(* A report brings the server's picture of every event input with releases to what
   its key is, which is what the reporter remembers, but where the message with the
   last edge was lost. *)
LEMMA ReportAgrees ==
    ASSUME EventsAgree, declared, Report, UNCHANGED bound,
           NEW k \in Inputs({"release"}), k \notin missed'
    PROVE  (k \in prevBool' <=> k \in keys) /\ (k \in seen' <=> k \in keys)
<1> DEFINE levels == Inputs({"release"})
           states == Inputs({"state"})
           pressed == (keys \ prevBool) \cap levels
           released == (prevBool \ keys) \cap levels
           edges == pressed \cup released
<1>1. k \in Inputs({"press", "release"}) /\ k \notin states
  BY DEF Inputs
<1>2. k \in prevBool' <=> k \in keys
  BY <1>1 DEF Report
<1>3. PICK stated \in {seen, (seen \ states) \cup (keys \cap states)} :
          \/ /\ seen' = (stated \cup pressed) \ released
             /\ missed' = missed \ edges
          \/ seen' = stated /\ missed' = missed \cup edges
  BY DEF Report
<1>4. k \in stated <=> k \in seen
  BY <1>1, <1>3
<1>5. k \notin missed => (k \in prevBool <=> k \in seen)
  BY DEF EventsAgree
<1>6. CASE k \in edges
  \* the message with the edge has arrived
  BY <1>2, <1>3, <1>6
<1>7. CASE k \notin edges
  <2>1. k \notin missed /\ (k \in prevBool <=> k \in keys)
    BY <1>3, <1>7
  <2> QED
    BY <1>2, <1>3, <1>4, <1>5, <1>7, <2>1
<1> QED
  BY <1>6, <1>7

(* Reporter and server agree on every event input the server has declared, unless its
   last edge was lost on the way, across sessions, hubs, redeclarations and earlier
   losses (input/report.ts:77-81 and 117-140). *)
THEOREM EventsCorrect == Spec => []EventsAgree
<1>1. Init => EventsAgree
  BY DEF Init, EventsAgree
<1>2. EventsAgree /\ [Next]_vars => EventsAgree'
  <2> SUFFICES ASSUME EventsAgree, [Next]_vars PROVE EventsAgree'
    OBVIOUS
  <2>1. CASE UNCHANGED <<bound, prevBool, declared, seen, missed>>
    BY <2>1 DEF EventsAgree, Inputs
  <2>2. CASE NewSession
    BY <2>2 DEF NewSession, EventsAgree
  <2>3. CASE \E inputs \in [Keys -> Kinds] : SetInputs(inputs)
    \* both sides forget
    BY <2>3 DEF SetInputs, EventsAgree
  <2>4. CASE Tick
    <3>1. UNCHANGED <<bound, declared>>
      BY <2>4 DEF Tick
    <3>2. CASE Report /\ declared
      <4>1. Inputs({"release"})' = Inputs({"release"})
        BY <3>1 DEF Inputs
      <4>2. \A k \in Inputs({"release"}) \ missed' : k \in prevBool' <=> k \in seen'
        BY <3>1, <3>2, ReportAgrees
      <4> QED
        BY <4>1, <4>2 DEF EventsAgree
    <3>3. CASE ~declared
      BY <3>1, <3>3 DEF EventsAgree
    <3>4. CASE ~(hub /\ streaming /\ channel)
      BY <2>1, <2>4, <3>4 DEF Tick
    <3> QED
      BY <2>4, <3>2, <3>3, <3>4 DEF Tick
  <2>5. CASE \E k \in Keys : KeyDown(k) \/ KeyUp(k)
    BY <2>1, <2>5 DEF KeyDown, KeyUp, server, reporter
  <2>6. CASE Ctrl \/ Blur \/ Focus
    BY <2>1, <2>6 DEF Ctrl, Blur, Focus, server, reporter
  <2>7. CASE SetMode \/ Attach \/ Detach
    BY <2>1, <2>7 DEF SetMode, Attach, Detach, server, reporter
  <2>8. CASE ChangeState \/ ChannelChanges
    BY <2>1, <2>8 DEF ChangeState, ChannelChanges, reporter
  <2>9. CASE UNCHANGED vars
    BY <2>1, <2>9 DEF vars, server, reporter
  <2> QED
    BY <2>2, <2>3, <2>4, <2>5, <2>6, <2>7, <2>8, <2>9 DEF Next
<1> QED
  BY <1>1, <1>2, PTL DEF Spec

----------------------------------------------------------------------------
(* The safety halves of PictureComesBack and of ServerAgrees. *)

(* The loop runs exactly while the element is in the document: no exception of a
   frame ends it (component.ts:407-430). *)
LoopRuns ==
    /\ scheduled <=> attached
    /\ skipped => attached

(* What a report leaves wrong is an input whose last edge was lost, in this message or
   in an earlier one: of every other event input with releases the server sees what
   is the case after one report, whatever happened since the report before. *)
OneReportIsEnough ==
    [][Tick /\ Reporting =>
           \A k \in Inputs({"release"}) \ missed' : k \in seen' <=> k \in keys]_vars

(* The next frame is always due, thrown out of or not. *)
THEOREM LoopCorrect == Spec => []LoopRuns
<1>1. Init => LoopRuns
  BY DEF Init, LoopRuns
<1>2. LoopRuns /\ [Next]_vars => LoopRuns'
  <2> SUFFICES ASSUME LoopRuns, [Next]_vars PROVE LoopRuns'
    OBVIOUS
  <2> USE DEF LoopRuns, page, element
  <2>1. CASE \E k \in Keys : KeyDown(k) \/ KeyUp(k)
    BY <2>1 DEF KeyDown, KeyUp
  <2>2. CASE Ctrl \/ Blur \/ Focus \/ SetMode
    BY <2>2 DEF Ctrl, Blur, Focus, SetMode
  <2>3. CASE Attach \/ Detach
    BY <2>3 DEF Attach, Detach
  <2>4. CASE NewSession \/ ChangeState \/ ChannelChanges
    BY <2>4 DEF NewSession, ChangeState, ChannelChanges
  <2>5. CASE \E inputs \in [Keys -> Kinds] : SetInputs(inputs)
    BY <2>5 DEF SetInputs
  <2>6. CASE Tick
    BY <2>6 DEF Tick
  <2>7. CASE UNCHANGED vars
    BY <2>7 DEF vars
  <2> QED
    BY <2>1, <2>2, <2>3, <2>4, <2>5, <2>6, <2>7 DEF Next
<1> QED
  BY <1>1, <1>2, PTL DEF Spec

(* A report brings the server up to date at once, but for the inputs whose last edge
   was lost on the way, which are not reported again until they change. *)
THEOREM ReportCorrect == Spec => OneReportIsEnough
<1>1. EventsAgree /\ Tick /\ Reporting =>
          \A k \in Inputs({"release"}) \ missed' : k \in seen' <=> k \in keys
  <2> SUFFICES ASSUME EventsAgree, Tick, Reporting
               PROVE  \A k \in Inputs({"release"}) \ missed' : k \in seen' <=> k \in keys
    OBVIOUS
  <2>1. Report /\ declared /\ UNCHANGED bound
    BY DEF Tick, Reporting
  <2> QED
    BY <2>1, ReportAgrees
<1>2. EventsAgree /\ [Next]_vars =>
          [Tick /\ Reporting =>
               \A k \in Inputs({"release"}) \ missed' : k \in seen' <=> k \in keys]_vars
  BY <1>1
<1> QED
  BY <1>2, EventsCorrect, PTL DEF Spec, OneReportIsEnough
=============================================================================

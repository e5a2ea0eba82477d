------------------------------- MODULE Input -------------------------------
(***************************************************************************)
(* Keys, from the keyboard to the server: DesktopInput keeps the level of  *)
(* every key, the element samples it each frame (component.ts driveControl)*)
(* and InputReporter turns what the server declared into state and event   *)
(* messages on the unreliable channel, which may lose either.  A state     *)
(* message says again how things are, an event message is sent once.       *)
(*                                                                         *)
(* An input is bound to the first control its pattern matches, here a key; *)
(* an analogue event input reports every change of its value, which for a  *)
(* key is what a release event input reports of its level.  Left out: the  *)
(* mouse and the gamepad, whose buttons are keys to the reporter, deltas,  *)
(* locomotion, and the numbers of events.                                  *)
(***************************************************************************)
EXTENDS Naturals, FiniteSets

CONSTANT Keys

VARIABLES
    \* the user and the page
    down,           \* keys held down
    ctrl,           \* Ctrl or Meta is
    focus,          \* the window has the keyboard
    mode,           \* the control-model attribute names a model
    attached,       \* the element is in the document
    \* the element
    hub,            \* deviceHub and controlModel are there
    keys,           \* DesktopInput.keys
    scheduled,      \* a tick is
    skipped,        \* the last tick was thrown out of before it rendered
    \* the session
    streaming,      \* the client is
    channel,        \* the unreliable channel is open
    declared,       \* the server of this session has declared its inputs
    seen,           \* keys it takes as held
    missed,         \* history: keys whose last edge was in a message that was lost
    \* InputReporter
    bound,          \* what is declared of a key
    prevBool        \* keys whose event input was last sampled as held

user == <<down, ctrl, focus>>
page == <<mode, attached>>
element == <<hub, keys, scheduled, skipped>>
server == <<streaming, channel, declared, seen, missed>>
reporter == <<bound, prevBool>>
vars == <<user, page, element, server, reporter>>

Kinds == {"none", "state", "press", "release"}

Init ==
    /\ down = {} /\ ctrl = FALSE /\ focus = TRUE
    /\ mode = FALSE /\ attached = FALSE
    /\ hub = FALSE /\ keys = {} /\ scheduled = FALSE /\ skipped = FALSE
    /\ streaming = FALSE /\ channel = FALSE /\ declared = FALSE
    /\ seen = {} /\ missed = {}
    /\ bound = [k \in Keys |-> "none"] /\ prevBool = {}

----------------------------------------------------------------------------
(* The keyboard.  A key held down repeats its keydown event. *)

KeyDown(k) ==
    /\ focus
    /\ down' = down \cup {k}
    /\ keys' = IF hub /\ ~ctrl THEN keys \cup {k} ELSE keys
    /\ UNCHANGED <<ctrl, focus, page, hub, scheduled, skipped, server, reporter>>

KeyUp(k) ==
    /\ k \in down
    /\ down' = down \ {k}
    /\ keys' = IF focus THEN keys \ {k} ELSE keys     \* else another window's
    /\ UNCHANGED <<ctrl, focus, page, hub, scheduled, skipped, server, reporter>>

Ctrl ==
    /\ ctrl' = ~ctrl
    /\ UNCHANGED <<down, focus, page, element, server, reporter>>

\* MUTANT of Blur: keys stay as they are
BlurKeepsKeys ==
    /\ focus
    /\ focus' = FALSE
    /\ UNCHANGED <<down, ctrl, page, element, server, reporter>>

\* Lost focus: everything is released
Blur ==
    /\ focus
    /\ focus' = FALSE
    /\ keys' = {}
    /\ UNCHANGED <<down, ctrl, page, hub, scheduled, skipped, server, reporter>>

Focus ==
    /\ ~focus
    /\ focus' = TRUE
    /\ UNCHANGED <<down, ctrl, page, element, server, reporter>>

----------------------------------------------------------------------------
(* The element. *)

\* setupControl() and teardownControl(): the hub is disposed of and made anew
Control(on) == hub' = on /\ keys' = {}

\* attributeChangedCallback(): only once the renderer exists
SetMode ==
    /\ mode' = ~mode
    /\ IF attached THEN Control(mode') ELSE UNCHANGED <<hub, keys>>
    /\ UNCHANGED <<user, attached, scheduled, skipped, server, reporter>>

\* connectedCallback(): setupControl() and startLoop()
Attach ==
    /\ ~attached
    /\ attached' = TRUE
    /\ Control(mode)
    /\ scheduled' = TRUE
    /\ UNCHANGED <<user, mode, skipped, server, reporter>>

\* disconnectedCallback(), which closes the client
Detach ==
    /\ attached
    /\ attached' = FALSE
    /\ Control(FALSE)
    /\ scheduled' = FALSE /\ skipped' = FALSE
    /\ streaming' = FALSE /\ channel' = FALSE
    /\ UNCHANGED <<user, mode, declared, seen, missed, reporter>>

----------------------------------------------------------------------------
(* The session. *)

\* A client for another server; the reporter is the element's and stays
NewSession ==
    /\ ~streaming
    /\ declared' = FALSE /\ channel' = FALSE
    /\ seen' = {} /\ missed' = {}
    /\ UNCHANGED <<user, page, element, streaming, reporter>>

\* handleState(); the server may stream before the channel is open, as the
\* handshake may go over the signalling socket
ChangeState ==
    /\ attached
    /\ streaming' = ~streaming
    /\ UNCHANGED <<user, page, element, channel, declared, seen, missed, reporter>>

ChannelChanges ==
    /\ attached
    /\ channel' = ~channel
    /\ UNCHANGED <<user, page, element, streaming, declared, seen, missed, reporter>>

\* MUTANT of SetInputs: the last samples are kept
SetInputsKeeps(inputs) ==
    /\ attached
    /\ bound' = inputs
    /\ declared' = TRUE /\ seen' = {} /\ missed' = {}
    /\ UNCHANGED <<user, page, element, streaming, channel, prevBool>>

\* setInputs(): the ids of the inputs before are void, on either side
SetInputs(inputs) ==
    /\ attached
    /\ bound' = inputs
    /\ prevBool' = {}
    /\ declared' = TRUE /\ seen' = {} /\ missed' = {}
    /\ UNCHANGED <<user, page, element, streaming, channel>>

----------------------------------------------------------------------------
(* The frame. *)

Inputs(kinds) == {k \in Keys : bound[k] \in kinds}

\* report(): the level of every state input, an event for every edge, in a message
\* each, and either may be lost.  The server takes the state inputs from the levels
\* and follows the event inputs with releases from edge to edge
Report ==
    LET events == Inputs({"press", "release"})
        states == Inputs({"state"})
        levels == Inputs({"release"})
        pressed == (keys \ prevBool) \cap levels
        released == (prevBool \ keys) \cap levels
        edges == pressed \cup released
    IN  /\ prevBool' = keys \cap events
        /\ \E stated \in {seen, (seen \ states) \cup (keys \cap states)} :
              \/ /\ seen' = (stated \cup pressed) \ released
                 /\ missed' = missed \ edges
              \/ seen' = stated /\ missed' = missed \cup edges

\* driveControl() on a channel that is not open: sending the pose throws
Throws == hub /\ streaming /\ ~channel

\* MUTANT of Tick: the next frame is asked for when this one is done
TickAsksLast ==
    /\ scheduled
    /\ scheduled' = ~Throws
    /\ skipped' = Throws
    /\ IF hub /\ streaming /\ channel
       THEN Report ELSE UNCHANGED <<prevBool, seen, missed>>
    /\ UNCHANGED <<user, page, hub, keys, streaming, channel, declared, bound>>

\* MUTANT of Tick: the keys are sampled before the channel is found to be closed
TickSamplesFirst ==
    /\ scheduled
    /\ scheduled' = TRUE
    /\ skipped' = Throws
    /\ IF hub /\ streaming
       THEN /\ prevBool' = keys \cap Inputs({"press", "release"})
            /\ IF channel THEN Report ELSE UNCHANGED <<seen, missed>>
       ELSE UNCHANGED <<prevBool, seen, missed>>
    /\ UNCHANGED <<user, page, hub, keys, streaming, channel, declared, bound>>

\* tick(): asks for the next frame, samples and reports, renders
Tick ==
    /\ scheduled
    /\ scheduled' = TRUE
    /\ skipped' = Throws
    /\ IF hub /\ streaming /\ channel
       THEN Report ELSE UNCHANGED <<prevBool, seen, missed>>
    /\ UNCHANGED <<user, page, hub, keys, streaming, channel, declared, bound>>

----------------------------------------------------------------------------

Next ==
    \/ \E k \in Keys : KeyDown(k) \/ KeyUp(k)
    \/ Ctrl \/ Blur \/ Focus
    \/ SetMode \/ Attach \/ Detach
    \/ NewSession \/ ChangeState \/ ChannelChanges
    \/ \E inputs \in [Keys -> Kinds] : SetInputs(inputs)
    \/ Tick

\* The browser runs a tick that is due, and of the state messages that say how things
\* are, one a frame, one arrives now and then.  Nothing is assumed of event messages.
Spec ==
    /\ Init /\ [][Next]_vars
    /\ WF_vars(Tick)
    /\ \A k \in Keys : SF_vars(Tick /\ bound[k] = "state" /\ (k \in seen' <=> k \in keys))

----------------------------------------------------------------------------
(* Properties. *)

\* "so keys don't stick 'down'" (desktop.ts:98): a key that the client takes for
\* held is held, though keyups go to other windows, keydowns with Ctrl are left to
\* the browser, and the hub is made anew in between.
KeysAreHeld == keys \subseteq (IF focus /\ hub THEN down ELSE {})

\* What the reporter takes the last state of an event input to be is what the server
\* takes it to be, unless the message with its last edge was lost, so that no edge is
\* sent twice and none is held back: through samples that find no channel, new hubs,
\* new sessions, inputs declared again with another key, or another kind, while keys
\* are held, and edges that were lost earlier.
EventsAgree ==
    declared => \A k \in Inputs({"release"}) \ missed : k \in prevBool <=> k \in seen

Reporting == hub /\ streaming /\ channel /\ declared

\* Whatever the server sees of a key it can see released (a state input, or an
\* event input with releases) becomes what is the case, when inputs are declared
\* again while a key is held, the hub is replaced or the session pauses: as long as
\* the channel works, a change in either direction reaches it or is taken back.  The
\* edge of an event input may be lost, and is not sent again; a level is.
ServerAgrees ==
    \A k \in Keys :
        (Reporting /\ bound[k] \in {"state", "release"} /\ ~(k \in keys <=> k \in seen))
            ~> \/ ~Reporting \/ bound[k] \notin {"state", "release"}
               \/ k \in keys <=> k \in seen
               \/ bound[k] = "release" /\ k \in missed

\* A frame that is thrown out of, for want of a channel to report on, is not the
\* last one: once the session has failed, has a channel or is controlled no more,
\* the scene is rendered again.
PictureComesBack == skipped ~> ~skipped \/ Throws
=============================================================================

------------------------------- MODULE Viewer -------------------------------
(***************************************************************************)
(* TeleportViewerElement (component.ts): an element that the page adds to  *)
(* and takes from the document, that opens one session after another, and  *)
(* whose background and environment light are textures of the session.     *)
(*                                                                         *)
(* Each session has a client, a cache and a resolver of its own (Resolver);*)
(* the scene and what lights it belong to the element and outlive them.    *)
(* Input, the render loop and the scene's nodes are other modules'.        *)
(***************************************************************************)
EXTENDS Resolver

CONSTANTS
    MaxCommands,    \* bound on the setup and lighting commands, of all sessions
    MaxMoves        \* bound on how often the element is added to the document

ASSUME ViewerAssumption == MaxCommands \in Nat /\ MaxMoves \in Nat

VARIABLES
    moves,          \* how often connectedCallback has run
    attached,       \* in the document: renderer, decoders and pmrem are there
    session,        \* client: the session that is open, 0 without one
    opened,         \* how many sessions there have been
    resolving,      \* sessions whose resolver is not null
    disposed,       \* sessions whose decoders have been disposed of
    mounted,        \* sessions whose root is in the scene
    commands,       \* commands that have come
    background,     \* scene.background
    environment,    \* scene.environment
    envSource,      \* envSourceUid, 0 for none
    currentEnv,     \* currentEnvTexture
    thens           \* continuations that wait for a texture

viewerVars == <<moves, attached, session, opened, resolving, disposed, mounted,
                commands, background, environment, envSource, currentEnv, thens>>
vars == <<resolverVars, viewerVars>>

Colour == [kind |-> "colour"]
Empty == [kind |-> "null"]
Picture(s, u) == [kind |-> "texture", session |-> s, uid |-> u]
NoSource == [uid |-> 0]
Source(u) == [uid |-> u]

Waits(s, u, use) == [session |-> s, uid |-> u, use |-> use]

Init ==
    /\ ResolverInit
    /\ moves = 0 /\ attached = FALSE
    /\ session = 0 /\ opened = 0 /\ resolving = {}
    /\ disposed = {} /\ mounted = {}
    /\ commands = 0
    /\ background = Colour /\ environment = Empty
    /\ envSource = NoSource /\ currentEnv = Empty
    /\ thens = {}

----------------------------------------------------------------------------
(* The element and its sessions. *)

\* connect() up to its await; roots of earlier sessions stay where they are
NewSession(inDocument, roots) ==
    /\ session = 0 /\ opened < MaxSessions
    /\ opened' = opened + 1
    /\ session' = opened + 1
    /\ resolving' = IF inDocument THEN resolving \cup {opened + 1} ELSE resolving
    /\ mounted' = roots \cup {opened + 1}

\* connect() by the page or by the attribute callback, which calls it for an element
\* out of the document too, once that has a scene: then there are no decoders
Connect ==
    /\ moves > 0
    /\ NewSession(attached, mounted)
    /\ UNCHANGED <<resolverVars, moves, attached, disposed, commands, background,
                   environment, envSource, currentEnv, thens>>

\* connectedCallback(): a new scene, and a session with autoconnect
ConnectedCallback ==
    /\ ~attached /\ moves < MaxMoves
    /\ attached' = TRUE
    /\ moves' = moves + 1
    /\ background' = Colour /\ environment' = Empty
    /\ \/ NewSession(TRUE, {})
       \/ mounted' = {} /\ UNCHANGED <<session, opened, resolving>>
    /\ UNCHANGED <<resolverVars, disposed, commands, envSource, currentEnv, thens>>

CloseClient ==
    IF session = 0
    THEN UNCHANGED resolverVars
    ELSE Closed(session)

\* MUTANT of DisconnectedCallback: the client is kept for when the element is back
DisconnectedCallbackKeeps ==
    /\ attached
    /\ attached' = FALSE
    /\ envSource' = NoSource /\ currentEnv' = Empty
    /\ disposed' = resolving
    /\ UNCHANGED <<resolverVars, moves, session, opened, resolving, mounted, commands,
                   background, environment, thens>>

\* disconnectedCallback(): the decoders of this stay in the document end with it, and
\* their workers with them, whatever these are still decoding for the sessions of it
DisconnectedCallback ==
    /\ attached
    /\ attached' = FALSE
    /\ CloseClient
    /\ session' = 0
    /\ envSource' = NoSource /\ currentEnv' = Empty
    /\ disposed' = resolving
    /\ UNCHANGED <<moves, opened, resolving, mounted, commands, background,
                   environment, thens>>

\* MUTANT of DisconnectClient: envSourceUid is left as it was
DisconnectClientSource ==
    /\ session # 0
    /\ CloseClient
    /\ session' = 0
    /\ currentEnv' = Empty
    /\ environment' = Empty /\ background' = Colour
    /\ UNCHANGED <<moves, attached, opened, resolving, disposed, mounted, commands,
                   envSource, thens>>

\* disconnectClient()
DisconnectClient ==
    /\ session # 0
    /\ CloseClient
    /\ session' = 0
    /\ envSource' = NoSource /\ currentEnv' = Empty
    /\ environment' = Empty /\ background' = Colour
    /\ UNCHANGED <<moves, attached, opened, resolving, disposed, mounted, commands,
                   thens>>

----------------------------------------------------------------------------
(* Textures of the scene. *)

\* The continuation in applyBackground
ShowBackground(s, u) == background' = Picture(s, u)

\* MUTANT of ShowEnvironment: no look at which texture was asked for last
ShowEnvironmentAny(s, u) ==
    IF attached /\ envSource # NoSource
    THEN environment' = Picture(s, u) /\ currentEnv' = Picture(s, u)
    ELSE UNCHANGED <<environment, currentEnv>>

\* The continuation in applyLighting, unless it raced with a newer SetupLighting
ShowEnvironment(s, u) ==
    IF attached /\ envSource = Source(u)
    THEN environment' = Picture(s, u) /\ currentEnv' = Picture(s, u)
    ELSE UNCHANGED <<environment, currentEnv>>

\* resolveTexture(u).then(show): a promise that is fulfilled runs it before
\* anything else happens
ResolveThen(u, use) ==
    LET s == session
    IN  /\ Becomes(s, ResolveTextures(Now(s), {u}))
        /\ thens' = IF Settled(s, u) THEN thens ELSE thens \cup {Waits(s, u, use)}
        /\ UNCHANGED lost

Commanded ==
    /\ session # 0 /\ commands < MaxCommands
    /\ commands' = commands + 1
    /\ UNCHANGED <<moves, attached, session, opened, resolving, disposed, mounted>>

\* applyBackground(): no background, a colour (or no resolver), a texture
SetupPlain(shown) ==
    /\ Commanded
    /\ background' = shown
    /\ UNCHANGED <<resolverVars, environment, envSource, currentEnv, thens>>

SetupTexture(u) ==
    /\ Commanded
    /\ IF session \in resolving
       THEN /\ ResolveThen(u, "background")
            /\ IF promise[session][u] = "done"
               THEN ShowBackground(session, u) ELSE UNCHANGED background
       ELSE background' = Colour /\ UNCHANGED <<resolverVars, thens>>
    /\ UNCHANGED <<environment, envSource, currentEnv>>

\* applyLighting(): nothing without a resolver
SetupNoLighting ==
    /\ Commanded
    /\ session \in resolving /\ attached
    /\ environment' = Empty
    /\ UNCHANGED <<resolverVars, background, envSource, currentEnv, thens>>

SetupLighting(u) ==
    /\ Commanded
    /\ session \in resolving /\ attached
    /\ envSource # Source(u)                      \* else: already applied
    /\ envSource' = Source(u)
    /\ ResolveThen(u, "environment")
    /\ IF promise[session][u] = "done"
       THEN environment' = Picture(session, u) /\ currentEnv' = Picture(session, u)
       ELSE UNCHANGED <<environment, currentEnv>>
    /\ UNCHANGED background

\* A texture's promise settles, and its continuations run
TextureSettles(s, u, outcome) ==
    LET waiting == {w \in thens : w.session = s /\ w.uid = u}
        shown == IF outcome = "done" THEN {w.use : w \in waiting} ELSE {}
    IN  /\ Decoded(s, u, outcome)
        /\ thens' = thens \ waiting
        /\ IF "background" \in shown THEN ShowBackground(s, u) ELSE UNCHANGED background
        /\ IF "environment" \in shown THEN ShowEnvironment(s, u)
           ELSE UNCHANGED <<environment, currentEnv>>
        /\ UNCHANGED <<moves, attached, session, opened, resolving, disposed, mounted,
                       commands, envSource>>

----------------------------------------------------------------------------

Geometry ==
    /\ session # 0
    /\ \/ session \in resolving /\ \E m \in Materials : AskFor(session, m)
       \/ \E u \in Uids : Arrives(session, u) \/ FetchFails(session, u)
    /\ UNCHANGED viewerVars

\* Decoders and builds go on when their session is over; a decode that is under way when
\* its decoder is disposed of may end like another, or never.
Decodes(s, u) == \E outcome \in {"done", "failed"} : TextureSettles(s, u, outcome)
Builds(s, m) == Built(s, m) /\ UNCHANGED viewerVars

Next ==
    \/ ConnectedCallback \/ DisconnectedCallback
    \/ Connect \/ DisconnectClient
    \/ \E shown \in {Colour, Empty} : SetupPlain(shown)
    \/ \E u \in Textures : SetupTexture(u) \/ SetupLighting(u)
    \/ SetupNoLighting
    \/ Geometry
    \/ \E s \in Sessions, u \in Uids : Decodes(s, u) \/ Builds(s, u)

\* The browser ends a decode some day, unless its worker is terminated, and runs the
\* continuations that are due.
Spec ==
    /\ Init /\ [][Next]_vars
    /\ \A s \in Sessions, u \in Uids :
           WF_vars(s \notin disposed /\ Decodes(s, u)) /\ WF_vars(Builds(s, u))

----------------------------------------------------------------------------
(* Properties. *)

\* Lighting textures may resolve in any order: once the one that was asked for
\* last has, the environment is not lit by another, an older one that resolves
\* later included.
NewestLights ==
    session # 0 /\ environment # Empty /\ envSource # NoSource
        /\ promise[session][envSource.uid] = "done"
    => environment.uid = envSource.uid

\* The environment of an element in the document is lit by the texture the element
\* will dispose of later, never by one it has disposed of; that is a texture which the
\* open session has asked for by its uid, and there is none without a session, though
\* textures of sessions that are over still resolve then (component.ts:309-331).
EnvironmentIsLive ==
    attached /\ environment # Empty =>
        /\ session # 0
        /\ environment = currentEnv
        /\ promise[session][environment.uid] # "none"

\* A session that was opened in the document and is still open is in the scene
\* that is rendered, whatever the page has done with the element since.
SessionIsShown == session \in resolving => attached /\ session \in mounted

\* Each resource of each session goes through Rendezvous: it is decoded or built once,
\* in the very step in which the second of request and payload comes, whichever that
\* is, and what had not begun when the session ended never does.
Life(s) == IF s > opened THEN "new" ELSE IF s = session THEN "open" ELSE "closed"

Meeting(s, u) == INSTANCE Rendezvous WITH
    life <- Life(s), here <- u \in cache[s], promise <- promise[s][u], starts <- runs[s][u]

StartsWhenMet ==
    /\ \A s \in Sessions, u \in Uids : Meeting(s, u)!Init
    /\ [][\A s \in Sessions, u \in Uids :
             [Meeting(s, u)!Next]_(Meeting(s, u)!vars)]_vars

\* "A missing texture must not sink the whole material" (resources.ts:107): a
\* material whose payload has come is built once the payloads of its textures have,
\* though a decoder rejects any of them, whoever else has asked for them, and though the
\* session ends: only the end of the decoders can keep it from that.
MaterialBuilt ==
    \A s \in Sessions, m \in Materials :
        (session = s /\ Running(s, m) /\ TexturesOf[m] \subseteq cache[s])
            ~> promise[s][m] = "done" \/ s \in disposed

\* The same of a texture whose fetch fails (404), which the comment names: as long
\* as the session lasts, it does not keep a material from being built.
MissingTextureTolerated ==
    \A s \in Sessions, m \in Materials :
        (session = s /\ Running(s, m) /\ TexturesOf[m] \subseteq cache[s] \cup lost[s])
            ~> promise[s][m] = "done" \/ session # s
=============================================================================

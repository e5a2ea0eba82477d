# Verification of teleport-web-client

TLA+ models of the browser client of the Teleport XR protocol, the TLC runs that
check them and the TLAPS proofs about them. Line numbers refer to the TypeScript
sources of this repository under `src/`.

## The system

A `TeleportClient` (`client.ts`) connects to a Teleport server. It talks JSON over a
signalling WebSocket (`transport/signaling.ts`), negotiates an `RTCPeerConnection`
(`transport/peer.ts`), exchanges binary commands over a reliable data channel, or
over the WebSocket while that channel is not open, and receives scene resources on a
geometry channel. Resources land in a `ResourceCache` (`scene/cache.ts`); those sent
as URLs go through an `AssetFetcher` (`http/assets.ts`) first. A `SceneAdapter`
(`scene/adapter.ts`) mounts nodes as three.js objects, with meshes decoded by a
`ResourceResolver` and posed by an `AnimationController`. The `<teleport-viewer>`
element (`component.ts`) owns all of it.

JavaScript runs one task at a time with the microtasks it triggers, so a handler is
atomic up to its first `await`. Concurrency is that of events and promises: sockets,
channels, fetches, decoders and timers complete in any order, and a continuation runs
in a world that has changed since it was suspended. This is where the models look.

### Inventory

| Component | State | Operations | Hard behaviour | What makes it correct |
|---|---|---|---|---|
| Client session, `client.ts` | `state`, session datum | connect, close, signalling handlers, command dispatch, sendReliable | two transports, errors that do not end the session, promises across close() | streaming rests on a handshake; no duplicate handshakes; close() is final; attempts settle |
| Signalling, `transport/signaling.ts` | the socket | open, sends, close, dispatch of frames | loss at any moment, failure before open, close() while it is connecting | sends nothing on a closed socket |
| Peer connection, `transport/peer.ts` | the connection, its channels | acceptOffer, setIceServers, candidates, bind, close | three awaits in acceptOffer | ICE servers before gathering |
| Resource delivery, `client.ts` | batch, timer, pending chains | chunks, fetchPointer, fetchAnimation, queue and flush of acknowledgements | chains of promises that fail half-way, listeners that throw, also for errors, a link that goes | each chunk has one fate; acknowledged means usable; no stranded acknowledgement |
| Asset fetcher, `http/assets.ts` | cache, inFlight | get, invalidate, clear | requests that share a fetch, clear() during one | one fetch per URL, and one more per clear(); every call settles; content does not regress |
| Resource cache, `scene/cache.ts` | tables, pointers, waiters, listeners | put, whenAvailable, removeNode, clear | waiters dropped or left by exceptions | a waiter is called once, when its payload is there |
| Resolver, `scene/resources.ts` | memoised promises | resolveMesh, resolveTexture, resolveMaterial | rejected or never settled promises are kept | one decode per uid; whoever asks is answered; a texture that fails spares its material |
| Scene adapter, `scene/adapter.ts` | mounted nodes, orphans, generations | apply, remove, clear, populate | children before parents, meshes that resolve late | objects form the declared hierarchy; late meshes are harmless |
| Animation, `scene/animation.ts` | clips, rigs, desired states | setClip, apply, update, rig registration | state, clip and rig arrive in any order, and a state ahead of the removal of its uid's former node | the last state asked for is the one that plays |
| Viewer, `component.ts` | client, adapter, environment | connect, disconnect, environment commands, frame loop | textures that resolve out of order, reconnection | the light is that of the newest texture, and of the open session |
| Avatars, `avatar_manager.ts` | current policy, result | policy, result, revoke, offers | host callbacks that answer late, twice, by throwing or not at all | every policy the host takes notice of gets an offer |
| Audio, `audio/output.ts` | context, streams, microphone | attach, position, microphone, close | permission prompts across close() | close() leaves no live microphone |
| Input, `input/` | held keys, previous samples, bindings | key, focus and frame handlers, report | keyups lost to other windows, inputs declared again, sends that throw, messages that are lost | no key sticks; the server sees what is held; the picture comes back |
| Wire format, `wire/`, `geometry/` | offset and buffer | readers, writers, parsers | cut or longer packets, buffers that grow | exactly the whole packets parse; no byte is lost |

Every component has a model except those under "Not modelled" at the end.

## The modules

| Module | Models | Checked by | Proofs |
|---|---|---|---|
| `Session` | client, signalling socket, peer connection | `MCSession` | `SessionProofs` |
| `SingleFlight` | the promise of the asset fetcher, as an abstract specification | refined by `AssetFetcher` | |
| `AssetFetcher` | `http/assets.ts` | `MCAssetFetcher` | `AssetFetcherProofs` |
| `Reception` | what the server is promised of the chunks of one resource, as an abstract specification | refined by `ResourceDelivery` | |
| `ResourceDelivery` | geometry chunks to verdicts | `MCResourceDelivery` | `ResourceDeliveryProofs` |
| `SceneGraph` | scene adapter, with the rig table, the node table and the ends of a session | `MCSceneGraph` | `SceneGraphProofs` |
| `Animation` | animation controller, against the two streams of the server | `MCAnimation` | `AnimationProofs` |
| `Layouts` | the fields of every command, chunk and message | used by `Wire` | |
| `Wire` | reader and writer on one packet at a time | `MCWire` | |
| `Rendezvous` | the promise of the resolver for one resource of a session, as an abstract specification | refined by `Viewer` | |
| `Resolver` | cache waiters and memoised promises of one or more sessions | used by `Viewer` | |
| `Viewer` | the `<teleport-viewer>` element over `Resolver` | `MCViewer` | `ViewerProofs` |
| `Avatars`, `Audio` | `avatar_manager.ts`; `audio/output.ts` | used by `HostServices` | |
| `HostServices` | both of them under one `close()` | `MCHostServices` | `HostServicesProofs` |
| `Input` | keys from the keyboard to the server, and the frame loop | `MCInput` | `InputProofs` |

Definitions whose name continues that of another (`HandleSetupUnguarded`,
`ClearAborts`, `NoneAdopted` ...) are plausible bugs in that definition. Nothing uses
them; they are there to show that a property notices.

### Session

`state` is `TeleportClient.state`; `ws`, `pc` and `dc` the ready states of the three
transports; `accept` the one call of `acceptOffer()`; `toClient` and `toServer` the
messages on each transport, in order within one and unordered across the two. Each
signalling handler and each command is an action; `HandleCommand(t)` serves both
transports as `dispatchCommand` does. A socket that fails has two events in one task,
`SocketError` (`fail()`, the state is "error") and `SocketClosed`: `ws` is "failed" between
them, and no other task runs then. That is why a socket that fails in mid-stream closes the
session while one that closes cleanly does not, and why `close()` of a socket that is still
connecting ("aborted"; the browser fails it) is followed by an "error" and another
"closed". `setConfiguration()` throws on a list of ICE servers that it does not accept, and
nobody catches it: `iceServers` is "rejected" and the session goes on. `fail()` and
`setState` are `SetState`.

Assumed of the environment: `connect()` is called once per client, as `component.ts`
does; the server sends a connect response after the connect message, ICE servers
after that, then the offer, and acknowledges each handshake once. Setups, malformed
frames, losses and `close()` may come at any time.

### AssetFetcher and SingleFlight

`cache` and `inFlight` are the two maps. A fetch is requested, answered with the
content published at that moment, and completed; a call of `get()` is answered at
once, or waits for one fetch. `Complete` is everything that happens when a fetch's
promise resolves: every waiting call continues, the cache is filled, the entry of the
URL is deleted, whoever it belongs to. `clients` is fixed: with two a host has given one
fetcher to two clients (`TeleportClientOptions.assets`). `close()` of any of them is
`Clear`, and may be called again by a client that is closed: a Shutdown command closes the
client, and the element that is taken from the document closes it again.

`SingleFlight` says what the header of `http/assets.ts` promises: a URL that is being
fetched is not fetched again, and all who ask meanwhile wait. With one client
`AssetFetcher` implements it under the refinement mapping at the end of the module.
With two it does not: `clear()` by one client makes the other fetch again what is under
way, the `finally` of `get()` deletes an entry that may belong to a later fetch, and a
client may be handed older content than before. What remains is `FlightsBounded`, which the
theorem states for any number of clients: one fetch, and one more per call of `clear()`.

### ResourceDelivery

Every chunk is counted through its life: `fetching`, `decoding`, `batch`, then
`acked`, `lost`, `unsent` (the send threw) or `swallowed` (a listener threw, and nothing
is sent). The parameter `throws` is a payload listener's exception: in a promise chain it
lands in the `catch` and becomes a `ResourceLost`, in the handler it skips what follows.
`SendLost` runs the error listeners first, and one that throws ends the `catch` there.
`faulty` says whether the host has any listener that may throw; what it has of them is
fixed. `link` is whether `sendReliable` would find a transport.

`Reception` is all of this as the server can tell it from outside, for one resource:
chunks that are owed an answer, answers of the two kinds, whether the server can be
reached, and whether the client has what it would acknowledge. An answer is given once,
"received" only when the client can use the resource, none is forgotten while the server
can be reached, and none goes out after `close()`. With a listener that throws, a chunk may
also be dropped (`Swallow`), when it comes or when it is to be reported lost. `Answer(u)` at the end of `ResourceDelivery` is
the refinement mapping: what is owed is what is fetched, decoded or batched.

### SceneGraph

An entry is a `MountedNode` with its object; entries are never reused, so that an
object removed from the scene keeps the children that hang under it. `place` is
`object.parent`, `parentId` what the payload declared. `ApplyNode` is `applyNode` as a
whole: `reparent`, `updateVisual`, `adoptOrphans`, in that order. `pending` holds
the calls of `populateMesh` that wait for the resolver; `Populate` is the rest of one,
with its check of the generation. `rig` is the table of `AnimationController`.
`Disconnect` is `disconnectedCallback`, `DisconnectClient` is `disconnectClient`.
`Anchored` are the nodes that the server removes only after their children; a parent that
is not anchored may go first and come again, with a new object, while its children stay
under the old one (adapter.ts:271-316), which `Wired` admits and `Former` names.
A resolver is configured, as the element does; a `RemoveNodes` chunk with several
uids is several steps.

### Animation

The server's scene is a count per node, odd while the node is there; the geometry
stream is how far behind it the client is (`seen`), the reliable channel a queue of
states per node. A removed node's uid may be used again. `overtaken` is a history variable:
the nodes whose last state was there before the removal of the node that had the uid, which
deletes it. A state of the former node that comes late may be played by the new one until
the server asks something of it. `desired` and `clips` are the maps of `AnimationController`, `rig` its
rigs. Of a three.js action the model keeps whether its mixer has it (`active`) and
whether it is enabled, paused, fading out and looped; `Play`, `Leave` and `Advanced` are
what `play()`, `crossFadeFrom()`, `stop()` and `mixer.update()` of three.js do to these.
`Update` is a whole frame, `tryStart` for every node and then the mixers; which clips
and fades end in it is left open. `Mount` may happen whenever the node is in the scene:
that it happens only then is `RigIsLive` of `SceneGraph`.

### Layouts and Wire

A layout is the sequence of items that a parser reads or a builder writes: widths,
strings, lists whose count is a field, and the open tails that take what the packet
holds. `Wire` runs a whole parse or build in one step over these items: `Take` and
`Write` are the primitives of the reader and the writer with the bounds check of the one
and the growth (`Ensure`) of the other; a received packet has any form and is cut off at
any byte or followed by up to `Slack` bytes, a built message has any form and counts.
`SizeOf` is the size of each form as a formula of its counts, written without the
layouts, which both properties compare with. An extension of a material has `BodyBytes`
bytes behind its id (decoder.ts:267-268), of which the parser's layout knows nothing: such
a material is parsed, and `ParsedExactly` does not judge what comes of it (`Extended`).

### Resolver and Viewer

`promise[s][u]` is what the maps of session `s`'s resolver hold for a uid, `runs` how
often the callback given to `whenAvailable` has run, `waiters` how many callbacks wait.
The synchronous calls are functions of a record (`ResolveTextures`, `ResolveMaterial`,
`PutPayload`, `ClearCache`), so that an action applies them whole, one inside the other
as the code does. `Built` is `buildMaterial` after its await. A texture whose fetch fails
is `lost` until the server sends it again.

`Rendezvous` is what the maps, the waiters and the memoised promises are for, as one
resource of one session sees it: asked for and sent in either order, as often as one
likes, it is decoded or built once, in the very step in which the second of the two
happens; whatever has not begun when the session ends never does. `Meeting(s, u)` in
`Viewer` is the refinement mapping, in which the waiters have disappeared.

`Viewer` adds the element: `ConnectedCallback`, `DisconnectedCallback`, `Connect` and
`DisconnectClient` are its handlers, `SetupTexture` and `SetupLighting` the two halves
of the environment commands, `TextureSettles` a texture that is decoded with the
continuations that wait for it (`thens`). Sessions are numbered; decodes of an ended
session go on, until the element leaves the document and disposes of its decoders, whose
workers end (`disposed`): a decode that is under way may end then or never. Out of the document `connect()` makes a session without a resolver.

### Avatars, Audio and HostServices

A policy is its number. `ServerAsks`, `ServerRevokes` and `ServerSeats` put frames on the
socket, the last a result that no offer asked for, for a policy or for none: `handleResult`
takes every one, as `tests/avatar_manager.test.ts:101-113` expects. `Manager` handles one
frame, with a callback that answers at once, keeps the reply (`held`), throws, or does
none of these (`ignored`, a history variable); `HostReplies` uses a kept reply, at any time
and for a policy that may be gone.
`RequestMic`, `Granted` and `Denied` are the microphone request and the two answers of
the user; `raced` is a history variable, the requests that were under way together or
at `close()`. `HostServices` puts `CloseAudio` and the end of the socket into one step,
as `client.close()` is.

### Input

`keys` is `DesktopInput.keys`, `bound` what the session has declared of each key,
`prevBool` the reporter's last samples, `seen` what the server takes for held. `Tick`
is a whole frame: sample, report, and the rest of the frame only if nothing threw. A
key's `keydown` goes to the client only with the focus, and not with Ctrl. A report is up
to two messages, states and events, and the channel may lose either: the levels are sent
again with the next frame, an edge is not. `missed` is a history variable, the keys whose
last edge was in a message that was lost.

## The runs

| Run | Shows | Bounds |
|---|---|---|
| `session` | `StreamingIsEstablished`, `HandshakePerAttempt`, `OfferFollowsIceServers`, `CloseIsFinal`, and under fairness `ConnectSettles` | two setups and acknowledgements (the re-delivery that the guard is for), one message of each other kind, one local candidate, two messages in flight per transport (640,253 states) |
| `assets` | `NoRegress`, `FlightsBounded`, refinement of `SingleFlight` (`SharesOneFetch`), and under fairness `CallsSettle` | three calls and fetches of one URL, two versions, one client or two, two calls of `clear()` (77,378 states) |
| `delivery` | `Accounted`, `AckMeansUsable`, refinement of `Reception` (`AnswersOnce`), and under fairness `VerdictReached` | one resource of each kind, each delivered twice; with a decoder and without, with listeners that throw and without (149,870 states) |
| `scene` | `Wired`, `RigIsLive`, `RigNeverRegresses` | a chain of three nodes whose ends carry meshes, four entries, two payloads per entry: one node can be removed and sent again; the root of the chain is removed after its child (`Anchored`), the node in the middle at any time (409,179 states) |
| `scene_reparent` | violates `SceneIsTree` | two nodes with any parents |
| `animation` | `AppliedIsPlaying`, `OneAtFullWeight`, `StateReachesNode`, and under fairness `AskedIsPlayed` | one node, which comes, goes and comes again, three animations, three states asked: enough for an action to be left and used again, and for a state to come ahead of a removal (154,072 states) |
| `animation_loop` | violates `LoopNeverPaused` | two animations |
| `wire` | `ParsedExactly`, `BuiltExactly` | every form; up to two entries per list received, six per list built while a message has at most 40 fields, extension bodies of five bytes, nine bytes beyond the last field (18,191 states) |
| `viewer` | `NewestLights`, `EnvironmentIsLive`, `SessionIsShown`, refinement of `Rendezvous` (`StartsWhenMet`), and under fairness `MaterialBuilt` | two sessions, two environment commands, two stays in the document, two textures that a material shares (459,053 states) |
| `viewer_missing` | violates `MissingTextureTolerated` | one session, the same material (122 states) |
| `host` | `MicrophoneStops`, and under fairness `ServerGetsOffer` | two policies, two microphone requests, one emitter (862,758 states) |
| `input` | `KeysAreHeld`, `EventsAgree`, and under fairness `ServerAgrees`, `PictureComesBack` | one key: keys do not meet in the code (3,680 states) |

Why these bounds suffice: each hazard needs two of something (two setups, two calls,
two deliveries, two applications of a node, two states of an animation, two textures
asked for, two sessions of an element) and some need a third to see the consequence. `wire` needs
lists of no, one and two entries, a builder's list long enough to outgrow the capacity
it asked for, and `Slack` beyond the widest entry of an open tail (8). The proofs below
remove the bounds for most safety properties.

`AnswersOnce` and `StartsWhenMet` say of every resource (of every session) that it is an
instance of the abstract specification: the initial states of all, and of every step that
it is a step or a stutter of each. This is the quantified `Spec` of the abstract module
written so that TLC, which takes no quantifier around a specification, can check it; the
theorems state both forms.

`CHECK_DEADLOCK FALSE` is set where the program may stop: a fetcher whose calls are
all made, a scene whose session has ended, an element or a host with nothing left to do.

### Fairness

`Session`: the browser delivers what a live transport holds, a connecting socket or
channel reaches an outcome, `acceptOffer()` settles, and the server takes each step of
the connection sequence once. Losses and errors are never forced. `AssetFetcher`: the
browser settles every fetch, one way or the other. `ResourceDelivery`: timers fire,
fetches and decodes settle; that fetches do is `CallsSettle`. `Animation`: the reliable
channel delivers and the render loop runs; meshes and clips are never forced to come. `Viewer`: a decode ends, one way or the
other, unless its decoder has been disposed of, and the continuations that are due run; payloads are never forced to come.
`HostServices`: frames are delivered and handled, and a host that keeps a reply for
later makes it (an assumption on the host, of which the code knows nothing); the user need
not answer. `Input`: `requestAnimationFrame` fires, and, strongly, of the state messages,
of which there is one a frame, not all are lost; of event messages nothing is assumed.
There is no other fairness:
no retry exists elsewhere in the code, so none is assumed.

### What the violations say

* `SceneIsTree`: `reparent` leaves a node in the orphan set of its former parent. Node
  a under the unseen b, then a under the root, then b under a: a and b end up under
  each other, off the scene.
* `LoopNeverPaused`: an action that is not looped is paused at its end
  (`clampWhenFinished`), and nothing in `tryStart` resumes it. Only the `stop()` of a
  snap resets an action; after a cross-fade, or when the same clip is asked for again,
  it stands still.
* `MissingTextureTolerated`: resources.ts:107-108 names a 404 among the textures that do
  not sink a material. A decode that fails is caught; a fetch that fails puts nothing into
  the cache, the promise of the texture never settles, and the material waits for it as
  long as the session lasts.

Disagreements that are in the models without a run of their own:

* The guard of `client.ts:454-459` reads `state`, which `fail()` overwrites with "error"
  while everything stays open: a setup that is delivered again is answered by a second
  handshake. `HandshakePerAttempt` is what does hold.
* `close()` does not reach the chains of `fetchPointer` and `fetchAnimation`, which fill
  the cache and set the timer afterwards.
* `removeNode` of the animation controller deletes a state that is meant for the next node
  of that uid and came first (animation.ts:131), although animation.ts:3-7 has states held
  until their node comes. `StateReachesNode` excepts exactly this (`overtaken`), and says
  that it takes a uid used again.
* `close()` of a socket that is still connecting reports "error" after "closed"
  (signaling.ts:205, client.ts:252). `CloseIsFinal` excepts this event and nothing else.
* ICE servers that `setConfiguration()` rejects are dropped without an error to anyone
  (peer.ts:76), and gathering goes on without them.
* Error listeners run before the notice of the loss (client.ts:361, 370, 396): one that
  throws leaves a chunk without a verdict though the server can be reached.
* decoder.ts:267-268 means to "preserve any trailing bytes" of material extensions; the
  parser reads none, and takes those bytes for the next ids and for `inlineTextureCount`.
* After lighting without a texture `envSourceUid` stays (component.ts:305-308): the texture
  asked for before still lights when it resolves, and asking for it again does nothing.
* `clear()` of the scene does not bump `visualGeneration` as adapter.ts:36-37 says: a mesh
  that resolves later registers a rig with the disposed controller.
* `disconnectClient()` ends the session without the `clear()` that adapter.ts:92 speaks
  of, so that its nodes stay.
* A microphone stream granted after `close()`, or while another request is under way,
  stays live, although output.ts:14 says that `close()` stops all of them;
  `MicrophoneStops` excepts exactly these (`raced`).
* The guard against a newer SetupLighting compares uids only: a texture of an ended
  session lights the next one if that has asked for the same uid. A background texture
  that resolves late wins over a newer setup, also after `disconnectClient()`.
* A key pressed with Ctrl is not reported, and Ctrl itself never is.

## The proofs

All are for every value of the constants, under the named assumptions of the modules,
which only give the constants their types.

* `SessionProofs`. `TypeCorrect`. `StreamingCorrect`: `StreamingIsEstablished` is not
  inductive, as an acknowledgement may be under way; `Established` adds what each
  message on its way implies: a handshake in a queue implies the datum, an
  acknowledgement in a queue implies a handshake received. `CloseCorrect`:
  `CloseIsFinal` follows from `Down` (`DownCorrect`), the state of all transports after
  `close()`, in which the state is "error" only while the socket is "failed".
  `SocketStep` says what a step does to the socket's queue: nothing, drop it, take its
  head or append what is due. From it `IceCorrect`: `IceOrder` says that an offer in the
  queue is behind the ICE servers unless they have been handled. `HandshakeCorrect`: only a
  connectResponse takes a live session back without counting a fall, so that `Attempts`
  says that nothing but malformed frames is before it on the socket and that until it is
  received no offer was handled, no channel bound and no setup answered.
* `AssetFetcherProofs`. `TypeCorrect`. `FlightsCorrect`: `Counted` says that the
  outstanding fetches beyond one per `clear()` are those on record.
  `SharingCorrect`: with one client the fetcher implements `SingleFlight`; the
  invariant `Single` says that a fetch outstanding while the client is open is the
  one on record and that whoever waits waits for it, and the proof maps every step to
  a step of `SingleFlight` or a stutter. `ForwardCorrect`: with one client `NoRegress`
  holds, since by `Recent` nothing is cached for a URL that is being fetched and what
  arrives is no older than what was returned. With two clients it is false, as the
  fetch that clear() forgot may complete after a newer one.
* `ResourceDeliveryProofs`. `TypeCorrect`, `AccountedCorrect` and `TimerCorrect` (an
  acknowledgement that is queued has a timer, as long as the client is open) are
  inductive, and so is `AckCorrect` with what `TypeOK` says of the chains: only an animation
  pointer reaches the decoder. `Throwing` says that a listener's exception in a chain needs
  a host that has one. `ReceptionCorrect`: for each resource the delivery implements `Reception`, from
  which `AnswersCorrect` follows. A flush acknowledges a whole batch, so the step of a
  resource is `TellReceived` with as many answers as it has in the batch, and that it may be told
  so is `AckMeansUsable`; that nothing is told after `close()` needs
  `Unreachable`, since `close()` does not stop the chains of promises and their verdicts
  are still computed.
* `SceneGraphProofs`. `TypeCorrect`. `WiredCorrect`: under `FixedHierarchy` (the
  server never moves a node to another parent) every object hangs where it should, under
  its parent's object or under the root while the parent is not there, and a node whose
  parent was removed before it under an object which that parent had. The invariant
  `Parking` says that the orphan sets hold every mounted node that hangs under the root for
  want of its parent, and only nodes whose parent is not mounted. Without `FixedHierarchy` it is false, as
  `scene_reparent` shows. `RigCorrect` and `RigOrderCorrect` hold for any server;
  `Rigging` says that a pending populate whose generation is current belongs to a
  mounted entry, and that no rig is ahead of its entry's generation.
* `AnimationProofs`. `TypeCorrect`; `AppliedCorrect` and `OneCorrect`, inductive node by
  node once `FrameOf` says what a frame makes of a rig; `StateCorrect`: what
  was last asked is the last command on its way or what the client wants, or a removal
  deleted it (`Conveyed`), and that takes a second node of the uid.
* `ViewerProofs`. The calls of one resolver are functions, and lemmas say of each that it
  keeps `Once` (a uid nobody asked for has no callback, any other one), `Awake` (a
  promise that waits has its callback and no payload) and that promises only go from
  "none" to "pending" (`Further`). `ViewerInv` adds the element: `Pristine`, nothing is
  asked for in a session to come; `Awaited`, the texture asked for last belongs to the
  open session of an element in the document and, until it is decoded, its continuation
  waits; `Lit`. Without `Awaited` neither `NewestLights` nor `EnvironmentIsLive` is
  inductive. From it `NewestCorrect`, `LiveCorrect` (with `AskedFor`: what lights has a uid that the open
  session has asked for), `ShownCorrect`; also `WakesCorrect`
  (whoever waits for a resource of the open session has a callback with the cache that
  will be called) and `OnceCorrect` (no resource has two callbacks or runs).
  `MeetingCorrect`: for each session and resource the element implements `Rendezvous`,
  from which `StartsCorrect` follows. Each call of the resolver asks for a resource, puts
  it there or leaves it alone (`CallMeets`), of whichever session; `AllBegun`, that what
  has settled was started once, is needed for a payload that is sent again: together with
  `Once` it says that no callback waits for a resource that is settled, so that none runs.
* `InputProofs`. `KeysCorrect`: `KeysAreHeld` is inductive, since a blur and the end of the
  hub empty `keys` in the same step in which `keyup` stops coming. `EventsCorrect`:
  `EventsAgree` is inductive; its one hard step is a frame that reports (`ReportAgrees`),
  where `prevBool` is set for inputs of every kind, edges are sent for one, and the message
  may be lost: an input leaves `missed` only with an edge that arrives.
* `HostServicesProofs`. `MicrophoneCorrect`: `MicInv` says that of the streams that are
  live all but the one kept were raced, and that requests under way are one or
  raced. `AnswerCorrect` (`AnswerIsDue`) needs the types of what is on its
  way; its one hard step is the host's callback (`PolicyHandled`).

Of each liveness property its safety half is a theorem: whoever waits, waits for
something that is under way, so that only its arrival, which the fairness promises, is
left to TLC.

| Liveness | Proved for all values of the constants |
|---|---|
| `ConnectSettles` | `AttemptCorrect`: an attempt has a live socket, or its handshake is with the server or on the way there, or the data channel is lost |
| `CallsSettle` | `AwaitedCorrect`: a call that waits, waits for a fetch of its URL that is outstanding, however many clients share the fetcher and whatever `clear()` forgot; `EntriesLive`, that an entry on record is such a fetch, is the part that makes it inductive |
| `VerdictReached` | `AccountedCorrect` and `TimerCorrect`: a chunk is in one place of its way, and in none without a verdict unless a listener may throw; a batch has its timer |
| `AskedIsPlayed` | `OneFrameCorrect`: with its commands delivered, mesh and clip there, a node plays after the next frame what was asked last, unless a removal deleted it |
| `MaterialBuilt` | `WakesCorrect`, and `BuildsCorrect`: a build waits for decoders that run or payloads that have not come; `AllNamed`, that who builds has asked for every texture, is needed for it |
| `ServerGetsOffer` | `AnswerCorrect`: the policy that the server waits for is on its way, or the reply is kept, or the offer is on its way back, or the host took no notice of it |
| `ServerAgrees` | `ReportCorrect`: one report sets right what the server sees of every event input with releases, but where its last edge was lost (of a state input when its message arrives, as `Report` says) |
| `PictureComesBack` | `LoopCorrect`: an element in the document has its next frame due, whatever the last one threw |

Only model-checked: the liveness itself (`ConnectSettles`, `CallsSettle`, `VerdictReached`,
`AskedIsPlayed`, `MaterialBuilt`, `ServerGetsOffer`, `ServerAgrees`,
`PictureComesBack`), which is out of the prover's reach; `ParsedExactly` and
`BuiltExactly`, whose folds over layouts would need induction over data. Every other
property of a passing run is also a theorem, under the assumptions named with it.

## What is left out of the modelled components

The clock estimate and the latency figures of the session, handshake contents and
statistics; unknown and `RemoveNodes` chunks of the delivery (never acknowledged);
transforms, lights and GPU disposal of the scene, the placeholder without a resolver;
the playback head and speeds of animations, the retargeting of their tracks, and layers
other than 0 (which the controller ignores); kinds of waiters (a uid has one kind) and
uid 0 in the resolver; resizing and the camera of the element; mouse, gamepad,
locomotion and event numbers of the input; the values of all fields on the wire.

`Session`, `ResourceDelivery` and `Viewer` each have the part of `close()` that
concerns them; they are not composed. They meet in `close()`, in `sendReliable` (of
which `ResourceDelivery` knows whether it finds a link) and in payloads (which
`Resolver` lets come at any time, as often as the server likes): each model leaves the other's
behaviour open there, so that the composition adds no behaviour to either. The one thing that
`ResourceDelivery` assumes of the other two, that no link comes back after `close()`, is
`DownCorrect` of `SessionProofs`.

## Not modelled

* `url.ts`: a string function with unit tests.
* `scene/loaders.ts`, `scene/ktx2-bc6h.ts`, `geometry/` draco: library calls and
  texture transcoding. Their promises are steps of `Resolver` that succeed or fail.
* `scene/retarget.ts`, `input/math.ts`, `input/models/`: floating-point geometry,
  which TLC cannot evaluate.
* `video/decoder.ts`: a stub. `index.ts`: re-exports.
* `tools/load-test`: drives the client, not part of it.
* `scene/axes.ts` and `scene/humanoid-names.ts` are imported but absent from the
  repository.

## What could come next

The playback head, over a small integer clock; messages of the unreliable
channel that come out of order.

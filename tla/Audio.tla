------------------------------- MODULE Audio -------------------------------
(***************************************************************************)
(* WebRTCAudio (audio/output.ts) and its use by TeleportClient: the setup  *)
(* creates it and asks for the microphone, remote tracks and the nodes     *)
(* they are heard at come in any order, close() ends it.                   *)
(*                                                                         *)
(* The browser asks the user for the microphone, and answers when it       *)
(* likes; a request is known by its number and so is the stream it yields. *)
(* The setup may be delivered again.                                       *)
(***************************************************************************)
EXTENDS Naturals, FiniteSets

CONSTANTS
    Emitters,       \* nodes that tracks are spatialised at
    MaxRequests     \* bound on the requests for the microphone

ASSUME AudioAssumption == MaxRequests \in Nat

VARIABLES
    audio,          \* client.audio is there
    requests,       \* getUserMedia() calls under way
    requested,      \* how many there have been
    micStream,      \* the stream kept, 0 for null
    live,           \* streams whose tracks are not stopped
    sending,        \* streams whose track is added to the peer connection
    panners,        \* nodes whose track is attached
    placed,         \* panners that stand where their node does
    raced           \* history: requests that were under way together, or at close()

audioVars == <<audio, requests, requested, micStream, live, sending, panners, placed, raced>>

AudioInit ==
    /\ audio = FALSE
    /\ requests = {} /\ requested = 0
    /\ micStream = 0
    /\ live = {} /\ sending = {}
    /\ panners = {} /\ placed = {}
    /\ raced = {}

\* getUserMedia()
AskMic ==
    /\ requested < MaxRequests
    /\ requested' = requested + 1
    /\ requests' = requests \cup {requested + 1}
    /\ raced' = IF requests = {} THEN raced ELSE raced \cup requests'
    /\ UNCHANGED <<micStream, live, sending>>

\* MUTANT of RequestMic: the stream that is there is not asked for first
RequestMicAgain == AskMic

\* requestMicTrack(): the track that is there is added again, which throws
RequestMic ==
    \/ micStream = 0 /\ AskMic
    \/ /\ micStream # 0
       /\ UNCHANGED <<requests, requested, micStream, live, sending, raced>>

\* The setup, with media-track audio; it may ask for the microphone
SetupAudio ==
    /\ audio' = TRUE
    /\ \/ RequestMic
       \/ UNCHANGED <<requests, requested, micStream, live, sending, raced>>
    /\ UNCHANGED <<panners, placed>>

\* The user agrees.  Nothing tells requestMicTrack() of a close() that has come
\* since, but a closed peer connection takes no track
Granted(r, connected) ==
    /\ r \in requests
    /\ requests' = requests \ {r}
    /\ live' = live \cup {r}
    /\ micStream' = r
    /\ sending' = IF connected THEN sending \cup {r} ELSE sending
    /\ UNCHANGED <<audio, requested, panners, placed, raced>>

Denied(r) ==
    /\ r \in requests
    /\ requests' = requests \ {r}
    /\ UNCHANGED <<audio, requested, micStream, live, sending, panners, placed, raced>>

\* onTrack and attachIncomingTrack(): a track that comes before the setup is dropped
Track(n) ==
    /\ audio
    /\ panners' = panners \cup {n}
    /\ placed' = placed \ {n}
    /\ UNCHANGED <<audio, requests, requested, micStream, live, sending, raced>>

\* A node's payload and setEmitterPosition(): a place without a panner is dropped
EmitterMoves(n) ==
    /\ audio /\ n \in panners
    /\ placed' = placed \cup {n}
    /\ UNCHANGED <<audio, requests, requested, micStream, live, sending, panners, raced>>

\* close() of the client: close() of its audio, if there is one, which it forgets
CloseAudio ==
    /\ live' = IF audio THEN live \ {micStream} ELSE live
    /\ micStream' = IF audio THEN 0 ELSE micStream
    /\ panners' = {} /\ placed' = {}
    /\ audio' = FALSE
    /\ raced' = raced \cup requests
    /\ UNCHANGED <<requests, requested, sending>>

\* "close() stops all mic tracks" (output.ts:14): the microphone is off once the
\* session is, however often the setup came and in whatever order the user's
\* answers did, but for requests that were under way at close() or at the same
\* time as another: those streams the code loses sight of.
MicStops(connected) == ~connected => live \subseteq raced
=============================================================================

---------------------------- MODULE HostServices ----------------------------
(***************************************************************************)
(* What a TeleportClient keeps for the host application beside the scene:  *)
(* the negotiation of its avatar and its audio.  The host's callbacks and  *)
(* the user's answers come when they like; close() of the client, which    *)
(* closes the signalling socket and the audio, comes between any two.      *)
(***************************************************************************)
EXTENDS Avatars, Audio

vars == <<open, avatarVars, audioVars>>

Init == open = TRUE /\ AvatarsInit /\ AudioInit

Close ==
    /\ open
    /\ open' = FALSE
    /\ CloseAudio
    /\ UNCHANGED avatarVars

Server == (ServerAsks \/ ServerRevokes \/ ServerSeats) /\ UNCHANGED <<open, audioVars>>
Receipt == ServerReceives /\ UNCHANGED <<open, audioVars>>
Frame == Manager /\ UNCHANGED <<open, audioVars>>
Host == HostReplies /\ UNCHANGED <<open, audioVars>>

Setup == open /\ SetupAudio /\ UNCHANGED <<open, avatarVars>>
User ==
    /\ \E r \in requests : Granted(r, open) \/ Denied(r)
    /\ UNCHANGED <<open, avatarVars>>
Sound ==
    /\ open
    /\ \E n \in Emitters : Track(n) \/ EmitterMoves(n)
    /\ UNCHANGED <<open, avatarVars>>

Next == Close \/ Server \/ Receipt \/ Frame \/ Host \/ Setup \/ User \/ Sound

\* Frames are delivered and handled, and a host that keeps a reply for later makes
\* it (a stated assumption on the host); nothing has to be sent, nobody has to answer for the microphone.
Spec ==
    /\ Init /\ [][Next]_vars
    /\ WF_vars(Receipt) /\ WF_vars(Frame) /\ WF_vars(Host)

\* "close() stops all mic tracks" (output.ts:14), of a client that is closed while
\* setups, grants and denials come in any order: MicStops with its exceptions
MicrophoneStops == MicStops(open)
=============================================================================

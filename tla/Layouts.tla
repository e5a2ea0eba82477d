------------------------------- MODULE Layouts -------------------------------
(***************************************************************************)
(* The packed layouts of the protocol, as the parsers read them and the    *)
(* builders write them: wire/commands.ts (server to client), messages.ts   *)
(* (client to server) and geometry/decoder.ts (resource chunks).           *)
(*                                                                         *)
(* A layout is a sequence of items in the order in which the code reads or *)
(* writes them.  Values are left out: only widths and the number of        *)
(* entries of a list or string decide where the next field is.  Every list *)
(* is counted by "n" or by "m", two numbers the packet chooses.            *)
(***************************************************************************)
EXTENDS Naturals, Sequences

Item(op, width, count, body) ==
    <<[op |-> op, width |-> width, count |-> count, body |-> body]>>
Field(width) == Item("field", width, "", <<>>)

U8 == Field(1)
U16 == Field(2)
I16 == Field(2)
U32 == Field(4)
I32 == Field(4)
U64 == Field(8)
I64 == Field(8)
F32 == Field(4)
Bool == U8
Uid == U64
Vec3 == F32 \o F32 \o F32
Vec4 == F32 \o F32 \o F32 \o F32
Int2 == I32 \o I32
Bytes(count) == Item("bytes", 1, count, <<>>)
Rest == Item("rest", 1, "", <<>>)
Skip(width) == Item("skip", width, "", <<>>)
Str(count) == U16 \o Bytes(count)
\* for (i = 0; i < count; i++): the body again and again
Repeat(count, body) == Item("repeat", 0, count, body)
\* while (r.remaining >= 8): as many as the rest of the packet holds
WhileRemaining(width) == Item("while", width, "", <<>>)
Unsupported == Item("throw", 0, "", <<>>)

----------------------------------------------------------------------------
(* Server to client: commands, each with its tag. *)

VideoConfig ==
    U32 \o U32 \o U32 \o U32 \o U32 \o U32 \o F32 \o F32
        \o U32 \o U32 \o I32 \o I32 \o U32 \o U32 \o U32
        \o U32 \o I32 \o I32 \o I32 \o U8 \o I32 \o I32 \o I32
AudioConfig ==
    U8 \o U8 \o U32 \o U8 \o U8 \o U8 \o U8 \o U8 \o F32 \o U16
Setup ==
    U32 \o U32 \o I32 \o U32 \o U64 \o VideoConfig \o AudioConfig
        \o F32 \o U8 \o U8 \o Bool \o I64 \o U8 \o Vec4 \o Uid
AcknowledgeHandshake == U64 \o Repeat("n", Uid)
SetOriginNode == U64 \o Uid \o U64
SetupLighting ==
    U64 \o Int2 \o I32 \o I32 \o Int2 \o I32 \o Int2 \o I32
        \o Uid \o Uid \o U8 \o WhileRemaining(8)
SetupInputs == U16 \o Repeat("n", U16 \o U8 \o U16 \o Bytes("m"))
AssignNodePosePath == Uid \o Str("n")
UpdateNodeMovement ==
    U64 \o Repeat("n", I64 \o Bool \o Uid \o Vec3 \o Vec4 \o Vec3
                           \o Vec3 \o Vec3 \o F32)
ApplyAnimation == I32 \o I64 \o Uid \o Uid \o Uid \o F32 \o F32 \o Bool
NodeVisibility == U64 \o U64 \o Repeat("n", Uid) \o Repeat("m", Uid)

\* parseCommand: the tag, then the body it selects; a tag that is not known keeps the rest
Commands ==
    [Setup |-> U8 \o Setup,
     AcknowledgeHandshake |-> U8 \o AcknowledgeHandshake,
     Shutdown |-> U8,
     PingForLatency |-> U8 \o I64,
     ReconfigureVideo |-> U8 \o VideoConfig,
     SetOriginNode |-> U8 \o SetOriginNode,
     SetupLighting |-> U8 \o SetupLighting,
     SetupInputs |-> U8 \o SetupInputs,
     AssignNodePosePath |-> U8 \o AssignNodePosePath,
     NodeVisibility |-> U8 \o NodeVisibility,
     ApplyAnimation |-> U8 \o ApplyAnimation,
     UpdateNodeMovement |-> U8 \o UpdateNodeMovement,
     AudioSourceMapping |-> U8 \o U16 \o U16,
     AudioParticipantStateChange |-> U8 \o U16,
     UnknownCommand |-> U8 \o Rest]

----------------------------------------------------------------------------
(* Server to client: chunks of the geometry channel. *)

Transform == Vec3 \o Vec4 \o Vec3
Node(component) ==
    Str("n") \o Transform \o Bool \o U64 \o I32 \o Uid
        \o U8 \o Repeat("m", U8 \o component)
MeshComponent ==
    Uid \o Uid \o U16 \o Repeat("n", I16) \o U16 \o Repeat("n", Uid)
        \o U16 \o Repeat("n", Uid) \o Vec4 \o Uid
LightComponent == Vec4 \o F32 \o F32 \o Vec3 \o U8
LinkComponent == Str("n") \o Str("n")
Mesh ==
    U8 \o U16 \o I32 \o Str("n") \o U64 \o Bytes("n")
        \o U32 \o Repeat("m", U64 \o Bytes("n"))
TextureAccessor == Uid \o U8 \o F32 \o F32 \o F32
Material ==
    Str("n") \o U8 \o TextureAccessor \o Vec4 \o TextureAccessor
        \o F32 \o F32 \o F32 \o TextureAccessor \o TextureAccessor
        \o TextureAccessor \o Vec3 \o Bool \o U8
        \o U64 \o Repeat("m", U32) \o U64
Texture == Str("n") \o U32 \o Rest
Animation ==
    Str("n") \o F32 \o U64
        \o Repeat("m", I16 \o U16 \o Repeat("n", F32 \o Vec3)
                           \o U16 \o Repeat("n", F32 \o Vec4))
Skeleton == Str("n") \o U64 \o Repeat("m", Uid)
Glyph == U16 \o U16 \o U16 \o U16 \o U16 \o F32 \o F32 \o F32 \o F32 \o F32
FontAtlas == Uid \o U8 \o Repeat("m", U16 \o F32 \o U16 \o Repeat("n", Glyph))
TextCanvas == Uid \o I32 \o F32 \o Vec4 \o Str("n")
Pointer == U8 \o Str("n")
RemoveNodes == U16 \o Repeat("n", Uid)

\* parseGeometryChunk: the size field is skipped, then the type and, but for
\* RemoveNodes, the uid
Header == Skip(8) \o U8
Chunks ==
    [MeshNode |-> Header \o Uid \o Node(MeshComponent),
     LightNode |-> Header \o Uid \o Node(LightComponent),
     CanvasNode |-> Header \o Uid \o Node(Uid),
     LinkNode |-> Header \o Uid \o Node(LinkComponent),
     ScriptNode |-> Header \o Uid \o Node(Unsupported),
     Mesh |-> Header \o Uid \o Mesh,
     Material |-> Header \o Uid \o Material,
     Texture |-> Header \o Uid \o Texture,
     Animation |-> Header \o Uid \o Animation,
     Skeleton |-> Header \o Uid \o Skeleton,
     FontAtlas |-> Header \o Uid \o FontAtlas,
     TextCanvas |-> Header \o Uid \o TextCanvas,
     Pointer |-> Header \o Uid \o Pointer,
     RemoveNodes |-> Header \o RemoveNodes,
     UnknownPayload |-> Header \o Uid \o Rest]

----------------------------------------------------------------------------
(* Client to server: each builder's initial capacity, a fixed part and a   *)
(* part for every entry of its lists, and what it writes.                  *)

Message(fixed, perN, perM, layout) ==
    [fixed |-> fixed, perN |-> perN, perM |-> perM, layout |-> layout]
Start == U8 \o I64

Handshake ==
    Message(96, 0, 0,
        Start \o U32 \o U32 \o F32 \o F32 \o F32 \o U32 \o U32 \o U8 \o U8
            \o Bool \o U64 \o U32 \o I32 \o Bool \o Bool \o Repeat("n", Uid))
PongForLatency == Message(32, 0, 0, Start \o I64 \o I64)
Acknowledgement == Message(24, 0, 0, Start \o U64)
OrthogonalAcknowledgement == Message(24, 0, 0, Start \o U64)
KeyframeRequest == Message(16, 0, 0, Start)
ResourceLost == Message(16, 8, 0, Start \o U16 \o Repeat("n", Uid))
NodeStatus ==
    Message(32, 8, 8, Start \o U64 \o U64 \o Repeat("n", Uid) \o Repeat("m", Uid))
ReceivedResources == Message(24, 8, 0, Start \o U64 \o Repeat("n", Uid))
ControllerPoses ==
    Message(64, 64, 0,
        Start \o Vec4 \o Vec3 \o U16
            \o Repeat("n", Uid \o Vec4 \o Vec3 \o Vec3 \o Vec3))
\* "n" counts the bytes of the bit field, "m" the analogue states
InputStates ==
    Message(20, 1, 4, Start \o U16 \o U16 \o Bytes("n") \o Repeat("m", F32))
InputEvents ==
    Message(22, 17, 14,
        Start \o U16 \o U16 \o U16
            \o Repeat("n", U32 \o U16 \o Bool) \o Repeat("n", U32 \o U16 \o F32)
            \o Repeat("m", U32 \o U16 \o F32 \o F32))
DisplayInfo == Message(24, 0, 0, Start \o U32 \o U32 \o F32)

Messages ==
    [Handshake |-> Handshake, PongForLatency |-> PongForLatency,
     Acknowledgement |-> Acknowledgement,
     OrthogonalAcknowledgement |-> OrthogonalAcknowledgement,
     KeyframeRequest |-> KeyframeRequest, ResourceLost |-> ResourceLost,
     NodeStatus |-> NodeStatus, ReceivedResources |-> ReceivedResources,
     ControllerPoses |-> ControllerPoses, InputStates |-> InputStates,
     InputEvents |-> InputEvents, DisplayInfo |-> DisplayInfo]
=============================================================================

-------------------------------- MODULE Wire --------------------------------
(***************************************************************************)
(* The reader and the writer of packed structures (wire/reader.ts,         *)
(* wire/writer.ts) at work on one packet at a time: a command or a         *)
(* geometry chunk being parsed, or a message being built.  Both run to     *)
(* their end in one step, field by field as the layout says.               *)
(*                                                                         *)
(* Either side may be of another version than the other, so that a packet  *)
(* has any length from nothing to Slack bytes more than its structure.     *)
(* A packet owns its buffer, as those that client.ts hands to the parsers  *)
(* do.                                                                     *)
(***************************************************************************)
EXTENDS Layouts, SequencesExt

CONSTANTS
    MaxCount,      \* bound: entries of a list or bytes of a string, received
    MaxBuilt,      \* bound: entries of a list in a message
    MaxWrites,     \* bound: fields of a message, so of several long lists few entries
    BodyBytes,     \* bytes of a material extension's body, behind its id: what they
                   \* are depends on the extension and is not documented
    Slack          \* bound: bytes a packet has beyond its last field

ASSUME WireAssumption ==
    /\ MaxCount \in Nat /\ MaxBuilt \in Nat /\ MaxWrites \in Nat
    /\ BodyBytes \in Nat /\ Slack \in Nat

VARIABLES
    packet,        \* what is being read or written: form, counts, length
    reader,        \* BufferReader after it: offset, and whether it threw
    writer         \* BufferWriter after it: offset, buffer.byteLength, and how
                   \* many leading bytes of the buffer hold what was written

vars == <<packet, reader, writer>>

Counts(max) == [{"n", "m"} -> 0..max]
NewReader == [offset |-> 0, threw |-> FALSE]
NewWriter(capacity) == [offset |-> 0, capacity |-> capacity, intact |-> 0]
Nothing == [form |-> "", count |-> [c \in {"n", "m"} |-> 0], size |-> 0]

----------------------------------------------------------------------------
(* Lists: for (i = 0; i < count; i++), the body again.  They nest at most  *)
(* twice.                                                                  *)

Unroll(layout, count) ==
    FlattenSeq([i \in DOMAIN layout |->
        IF layout[i].op = "repeat"
        THEN FlattenSeq([k \in 1..count[layout[i].count] |-> layout[i].body])
        ELSE <<layout[i]>>])

Flat(layout, count) == Unroll(Unroll(layout, count), count)

----------------------------------------------------------------------------
(* The reader. *)

\* MUTANT of Take: a view that is cut off at the packet's end, as subarray() gives
TakeClamped(r, width, size) ==
    [r EXCEPT !.offset = IF @ + width <= size THEN @ + width ELSE size]

\* u8() to uid(), bytes(), utf8(): DataView and Uint8Array throw a RangeError
\* beyond the packet's end
Take(r, width, size) ==
    IF r.offset + width <= size
    THEN [r EXCEPT !.offset = @ + width]
    ELSE [r EXCEPT !.threw = TRUE]

\* while (r.remaining >= 8) giTextures.push(r.uid())
TakeWhile(r, width, size) ==
    [r EXCEPT !.offset = @ + width * ((size - @) \div width)]

Read(r, item, count, size) ==
    IF r.threw THEN r
    ELSE CASE item.op = "field" -> Take(r, item.width, size)
           [] item.op = "bytes" -> Take(r, count[item.count], size)
           [] item.op = "rest" -> Take(r, size - r.offset, size)
           [] item.op = "while" -> TakeWhile(r, item.width, size)
           [] item.op = "skip" -> [r EXCEPT !.offset = @ + item.width]
           [] item.op = "throw" -> [r EXCEPT !.threw = TRUE]

\* A long sequence of fields in short ones, for TLC: a fold is as deep as it is long
Runs(items) ==
    [k \in 1..(1 + Len(items) \div 10) |->
        SubSeq(items, 10 * k - 9, IF 10 * k < Len(items) THEN 10 * k ELSE Len(items))]

Parse(layout, count, size) ==
    LET ReadItem(r, item) == Read(r, item, count, size)
        ReadRun(r, run) == IF r.threw THEN r ELSE FoldLeft(ReadItem, r, run)
    IN  FoldLeft(ReadRun, NewReader, Runs(Flat(layout, count)))

\* parseCommand: the whole packet from the reliable channel
ReceiveCommand(form, count, size) ==
    /\ packet' = [form |-> form, count |-> count, size |-> size]
    /\ reader' = Parse(Commands[form], count, size)
    /\ UNCHANGED writer

\* parseGeometryChunk: one that cannot hold the header is not even tried
ReceiveChunk(form, count, size) ==
    /\ packet' = [form |-> form, count |-> count, size |-> size]
    /\ reader' = IF size < 9 THEN [NewReader EXCEPT !.threw = TRUE]
                 ELSE Parse(Chunks[form], count, size)
    /\ UNCHANGED writer

----------------------------------------------------------------------------
(* The writer. *)

\* newSize: the buffer's length doubled until it suffices
Doubled(length, required) ==
    LET sizes == {length * 2^k : k \in 1..8}
    IN  CHOOSE s \in sizes : s >= required /\ \A t \in sizes : t >= required => s <= t

\* MUTANT of Ensure: the larger buffer starts empty
EnsureEmpty(w, width) ==
    IF w.offset + width <= w.capacity THEN w
    ELSE [w EXCEPT !.capacity = Doubled(@, w.offset + width), !.intact = 0]

\* ensure(): what was written is copied into the larger buffer
Ensure(w, width) ==
    IF w.offset + width <= w.capacity THEN w
    ELSE [w EXCEPT !.capacity = Doubled(@, w.offset + width),
                   !.intact = IF @ < w.offset THEN @ ELSE w.offset]

\* u8() to raw(): ensure, store at the offset, advance
Write(w, width) ==
    LET room == Ensure(w, width)
    IN  [room EXCEPT !.offset = @ + width,
                     !.intact = IF @ < room.offset THEN @ ELSE room.offset + width]

\* A builder: new BufferWriter(capacity), the fields, toUint8Array()
Build(form, count) ==
    LET message == Messages[form]
        capacity == message.fixed + message.perN * count["n"] + message.perM * count["m"]
        WriteItem(w, item) ==
            Write(w, IF item.op = "bytes" THEN count[item.count] ELSE item.width)
    IN  /\ packet' = [form |-> form, count |-> count, size |-> 0]
        /\ writer' = FoldLeft(WriteItem, NewWriter(capacity), Flat(message.layout, count))
        /\ UNCHANGED reader

----------------------------------------------------------------------------
(* The sizes the other side uses: the sizeof comments of commands.ts and   *)
(* messages.ts, the fixtures of tests/geometry.parser.test.ts, and for the *)
(* extensions of a material decoder.ts:267-268.                            *)

NodeBytes(n, m, component) == 17 + 2 + n + 40 + 1 + 8 + 4 + 8 + 1 + m * (1 + component)

SizeOf(form, n, m) ==
    CASE form = "Setup" -> 171
      [] form \in {"AcknowledgeHandshake"} -> 9 + 8 * n
      [] form \in {"Shutdown", "UnknownCommand"} -> 1
      [] form = "PingForLatency" -> 9
      [] form = "ReconfigureVideo" -> 1 + 89
      [] form \in {"SetOriginNode", "PongForLatency"} -> 25
      [] form = "SetupLighting" -> 66
      [] form = "SetupInputs" -> 3 + n * (5 + m)
      [] form = "AssignNodePosePath" -> 11 + n
      [] form = "NodeVisibility" -> 17 + 8 * (n + m)
      [] form = "ApplyAnimation" -> 46
      [] form = "UpdateNodeMovement" -> 9 + 85 * n
      [] form = "AudioSourceMapping" -> 5
      [] form = "AudioParticipantStateChange" -> 3
      [] form = "MeshNode" -> NodeBytes(n, m, 16 + 6 + 18 * n + 16 + 8)
      [] form = "LightNode" -> NodeBytes(n, m, 37)
      [] form = "CanvasNode" -> NodeBytes(n, m, 8)
      [] form = "LinkNode" -> NodeBytes(n, m, 4 + 2 * n)
      [] form = "ScriptNode" -> NodeBytes(n, m, 0)
      [] form = "Mesh" -> 17 + 7 + 2 + n + 8 + n + 4 + m * (8 + n)
      [] form = "Material" -> 17 + 2 + n + 1 + 5 * 21 + 16 + 12 + 12 + 2 + 16 + m * (4 + BodyBytes)
      [] form = "Texture" -> 17 + 2 + n + 4
      [] form = "Animation" -> 17 + 2 + n + 4 + 8 + m * (6 + n * (16 + 20))
      [] form = "Skeleton" -> 17 + 2 + n + 8 + 8 * m
      [] form = "FontAtlas" -> 17 + 9 + m * (8 + 30 * n)
      [] form = "TextCanvas" -> 17 + 32 + 2 + n
      [] form = "Pointer" -> 17 + 3 + n
      [] form = "RemoveNodes" -> 9 + 2 + 8 * n
      [] form = "UnknownPayload" -> 17
      [] form = "Handshake" -> 58 + 8 * n
      [] form \in {"Acknowledgement", "OrthogonalAcknowledgement"} -> 17
      [] form = "KeyframeRequest" -> 9
      [] form = "ResourceLost" -> 11 + 8 * n
      [] form = "NodeStatus" -> 25 + 8 * (n + m)
      [] form = "ReceivedResources" -> 17 + 8 * n
      [] form = "ControllerPoses" -> 39 + 60 * n
      [] form = "InputStates" -> 13 + n + 4 * m
      [] form = "InputEvents" -> 15 + 17 * n + 14 * m
      [] form = "DisplayInfo" -> 21

Expected == SizeOf(packet.form, packet.count["n"], packet.count["m"])

----------------------------------------------------------------------------

Init ==
    /\ packet = Nothing
    /\ reader = NewReader
    /\ writer = NewWriter(0)

\* The object or the bytes are handed on; reader and writer are discarded.
HandOn ==
    /\ packet # Nothing
    /\ packet' = Nothing
    /\ reader' = NewReader
    /\ writer' = NewWriter(0)

Next ==
    \/ /\ packet = Nothing
       /\ \/ \E form \in DOMAIN Commands, count \in Counts(MaxCount) :
                 \E size \in 0..(SizeOf(form, count["n"], count["m"]) + Slack) :
                     ReceiveCommand(form, count, size)
          \/ \E form \in DOMAIN Chunks, count \in Counts(MaxCount) :
                 \E size \in 0..(SizeOf(form, count["n"], count["m"]) + Slack) :
                     ReceiveChunk(form, count, size)
          \/ \E form \in DOMAIN Messages, count \in Counts(MaxBuilt) :
                 /\ Len(Flat(Messages[form].layout, count)) <= MaxWrites
                 /\ Build(form, count)
    \/ HandOn

Spec == Init /\ [][Next]_vars

----------------------------------------------------------------------------
(* Properties. *)

Received == packet.form \in DOMAIN Commands \cup DOMAIN Chunks

\* The forms whose last list is as long as the packet happens to be.
OpenEnded == {"SetupLighting", "Texture", "UnknownCommand", "UnknownPayload"}

\* Extensions have bodies that the parser does not know: it takes their bytes for
\* the fields behind them.
Extended == packet.form = "Material" /\ packet.count["m"] > 0

\* A packet is parsed exactly when it holds everything the sender's structure
\* has, and then the last field read is that structure's last one: a packet of
\* an older, shorter layout is rejected whatever field it ends in, one of a newer,
\* longer layout is parsed as the old one.  The forms whose tail is open take
\* whole entries from what follows.  A node with a component of an unknown type
\* is rejected, and of a material with extensions nothing is promised.
ParsedExactly ==
    Received /\ ~Extended =>
        LET unknown == packet.form = "ScriptNode" /\ packet.count["m"] > 0
        IN  /\ ~reader.threw <=> packet.size >= Expected /\ ~unknown
            /\ ~reader.threw =>
                   reader.offset =
                       CASE packet.form \notin OpenEnded -> Expected
                         [] packet.form = "SetupLighting" ->
                                packet.size - ((packet.size - Expected) % 8)
                         [] OTHER -> packet.size

\* A message that is built has the size the server expects of it, whatever its
\* counts and however often the buffer grew on the way, and no byte that was
\* written is lost when it grows.
BuiltExactly ==
    packet.form \in DOMAIN Messages =>
        /\ writer.offset = Expected
        /\ writer.offset <= writer.capacity
        /\ writer.intact = writer.offset
=============================================================================

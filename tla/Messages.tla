------------------------------ MODULE Messages ------------------------------
(***************************************************************************)
(* The serialized messages between the host, the base station and the      *)
(* robots (EncodingDecoding), on top of nanopb.                            *)
(*                                                                         *)
(* A datagram is written, travels, and is read with one Deserialize.  What *)
(* travels may differ from one serialized message: stored_commands is      *)
(* shared without a lock (see HostComm), so that a payload may be cut off, *)
(* or the messages of two cycles may follow one another; a newer program   *)
(* may add fields; anyone may send other bytes to the port.                *)
(***************************************************************************)
EXTENDS PbEncode, PbDecode

CONSTANTS
    PROTOBUF_BUFFER_SIZE,
    Descriptors,    \* the message types
    Structs(_),     \* Structs(desc): the messages of a type that are sent
    Foreign,        \* encoded fields whose tags no descriptor has
    NoiseBytes,     \* bytes that arrive without a sender of this program
    MaxParts,       \* bound: messages in one payload
    MaxForeign,     \* bound: foreign fields in one payload
    MaxNoise,       \* bound: bytes of noise,
    MaxVarint       \* bound: and of noise that is one long varint

\* message.proto
RobotCommandMsg_fields ==
    <<PB_FIELD(1, "SINGULAR", "UVARINT", 4, 1, <<>>)>>
    \o [i \in 1..6 |-> PB_FIELD(i + 1, "SINGULAR", "FIXED32", 4, 1, <<>>)]

RobotResponseMsg_fields ==
    <<PB_FIELD(1, "SINGULAR", "UVARINT", 4, 1, <<>>)>>
    \o [i \in 1..3 |-> PB_FIELD(i + 1, "SINGULAR", "FIXED32", 4, 1, <<>>)]
    \o [i \in 1..2 |-> PB_FIELD(i + 4, "SINGULAR", "UVARINT", 4, 1, <<>>)]

RobotTypes == {RobotCommandMsg_fields, RobotResponseMsg_fields}

\* Exactly one field, which is read to its end and not known here.
IsForeign(bytes) ==
    LET t == pb_decode_tag(pb_istream_from_buffer(bytes))
        r == pb_skip_field(t.s, t.wire_type)
    IN  /\ bytes \in Seq(Byte)
        /\ t.ok /\ t.tag # 0 /\ \A d \in Descriptors : t.tag \notin Tags(d)
        /\ r.ok /\ r.s.bytes_left = 0

ASSUME MessagesAssumption ==
    /\ PROTOBUF_BUFFER_SIZE \in Nat /\ MaxParts \in Nat /\ MaxForeign \in Nat
    /\ MaxNoise \in Nat /\ MaxVarint \in Nat
    /\ NoiseBytes \subseteq Byte
    /\ \A d \in Descriptors : NestsOnce(d) /\ \A i, j \in DOMAIN d : i < j => d[i].tag < d[j].tag
    /\ \A d \in Descriptors \cap RobotTypes : \A struct \in Structs(d) : struct \in [Tags(d) -> SUBSET (0..31)]
    /\ \A bytes \in Foreign : IsForeign(bytes)

VARIABLES
    desc,      \* the type of the message
    parts,     \* the structs in the payload, in the order they were written
    foreign,   \* the number of foreign fields in it
    payload,   \* the bytes
    origin,    \* "whole", "cut" or "noise"
    received   \* what Deserialize returned, Waiting before

vars == <<desc, parts, foreign, payload, origin, received>>

Waiting == [ok |-> FALSE, waiting |-> TRUE]

\* The C struct of a message holds the data: an integer in its width, bytes in
\* their buffer (with a size of two bytes, or a terminating zero), elements in
\* their array.
ElementFits(field, element, Inner(_, _)) ==
    CASE field.ltype \in Packable            -> element \subseteq 0..(8 * field.data_size - 1)
      [] field.ltype = "BYTES"              -> Len(element) <= field.data_size - 2
      [] field.ltype = "STRING"             -> Len(element) <= field.data_size - 1
      [] field.ltype = "FIXED_LENGTH_BYTES" -> Len(element) = field.data_size
      [] field.ltype = "SUBMESSAGE"         -> Inner(field.submsg_desc, element)

DataFits(field, data, Inner(_, _)) ==
    IF field.htype \in {"REQUIRED", "SINGULAR"} THEN ElementFits(field, data, Inner)
    ELSE /\ Len(data) <= IF field.htype = "OPTIONAL" THEN 1 ELSE field.array_size
         /\ \A i \in DOMAIN data : ElementFits(field, data[i], Inner)

StructFits(d, struct, Inner(_, _)) ==
    /\ DOMAIN struct = Tags(d)
    /\ \A tag \in Tags(d) : DataFits(FieldOf(d, tag), struct[tag], Inner)

FlatHolds(d, struct) == StructFits(d, struct, LAMBDA e, inner : FALSE)
Holds(d, struct) == StructFits(d, struct, FlatHolds)

\* Every variable keeps its type.  In particular what pb_decode accepts, from
\* whatever bytes, lies within the C struct that it was given.
TypeOK ==
    /\ desc \in Descriptors
    /\ Len(parts) <= MaxParts
    /\ \A i \in DOMAIN parts : parts[i] \in Structs(desc)
    /\ foreign \in 0..MaxForeign
    /\ \A i \in DOMAIN payload : payload[i] \subseteq 0..7
    /\ origin \in {"whole", "cut", "noise"}
    /\ received.ok => Holds(desc, received.v)

-----------------------------------------------------------------------------
\* EncodingDecoding.cpp

\* Serialize...Msg: the bytes written, or the empty string on failure.
Serialized(o) == IF o.ok THEN o.out ELSE <<>>
SerializeMsg(d, struct) == Serialized(pb_encode(pb_ostream_from_buffer(PROTOBUF_BUFFER_SIZE), d, struct))

\* Whether there is something to send.
Sent(d, struct) ==
    /\ pb_encode(PB_OSTREAM_SIZING, d, struct).ok
    /\ bytes_written(pb_encode(PB_OSTREAM_SIZING, d, struct)) <= PROTOBUF_BUFFER_SIZE

DeserializeMsg(d, bytes) == pb_decode(pb_istream_from_buffer(bytes), d)

\* A mutant: the length of an empty message is left out.
FrameNonEmpty(bytes) == IF bytes = <<>> THEN <<>> ELSE LittleEndian(ToBits(Len(bytes)), 2) \o bytes

\* SetRobotCommands: every message behind its length, 16 bits in the byte
\* order of the host.
Frame(bytes) == LittleEndian(ToBits(Len(bytes)), 2) \o bytes
StoredCommands(d, structs) ==
    LET stored[n \in 0..Len(structs)] ==
            IF n = 0 THEN <<>> ELSE stored[n - 1] \o Frame(SerializeMsg(d, structs[n]))
    IN  stored[Len(structs)]

\* The base station takes the frames apart again.
FrameLeft(l) == l.rest # <<>>
TakeFrame(l) ==
    LET len == ToNat(FromLittleEndian(SubSeq(l.rest, 1, 2)))
    IN  [rest |-> SubSeq(l.rest, 3 + len, Len(l.rest)),
         frames |-> Append(l.frames, SubSeq(l.rest, 3, 2 + len))]
Unframe(stored) == While(FrameLeft, TakeFrame, [rest |-> stored, frames |-> <<>>], Len(stored)).frames

-----------------------------------------------------------------------------
Init ==
    /\ desc \in Descriptors
    /\ parts = <<>>
    /\ foreign = 0
    /\ payload = <<>>
    /\ origin = "whole"
    /\ received = Waiting

Serialize(struct) ==
    /\ origin = "whole" /\ received = Waiting /\ Len(parts) < MaxParts
    /\ payload' = payload \o SerializeMsg(desc, struct)
    /\ parts' = IF Sent(desc, struct) THEN Append(parts, struct) ELSE parts
    /\ UNCHANGED <<desc, foreign, origin, received>>

AddForeign(bytes) ==
    /\ origin = "whole" /\ received = Waiting /\ foreign < MaxForeign
    /\ payload' = payload \o bytes
    /\ foreign' = foreign + 1
    /\ UNCHANGED <<desc, parts, origin, received>>

Cut(n) ==
    /\ origin = "whole" /\ received = Waiting
    /\ payload' = SubSeq(payload, 1, n)
    /\ origin' = "cut"
    /\ UNCHANGED <<desc, parts, foreign, received>>

Noise(byte) ==
    /\ received = Waiting /\ parts = <<>> /\ foreign = 0
    /\ origin = "noise" \/ payload = <<>>
    /\ \/ Len(payload) < MaxNoise
       \/ Len(payload) < MaxVarint /\ \A i \in DOMAIN payload : 7 \in payload[i]
    /\ payload' = Append(payload, byte)
    /\ origin' = "noise"
    /\ UNCHANGED <<desc, parts, foreign, received>>

Deserialize ==
    /\ received = Waiting
    /\ received' = DeserializeMsg(desc, payload)
    /\ UNCHANGED <<desc, parts, foreign, payload, origin>>

NextDatagram ==
    /\ received # Waiting
    /\ desc' \in Descriptors
    /\ parts' = <<>> /\ foreign' = 0 /\ payload' = <<>> /\ origin' = "whole"
    /\ received' = Waiting

Next ==
    \/ \E struct \in Structs(desc) : Serialize(struct)
    \/ \E bytes \in Foreign : AddForeign(bytes)
    \/ \E n \in 0..(Len(payload) - 1) : Cut(n)
    \/ \E byte \in NoiseBytes : Noise(byte)
    \/ Deserialize
    \/ NextDatagram

Spec == Init /\ [][Next]_vars

-----------------------------------------------------------------------------
\* What protobuf says of several messages that follow one another: the last
\* value of a field counts, elements are added, submessages are merged.
MergeData(field, old, new, Inner(_, _, _)) ==
    CASE field.htype = "REPEATED" -> old \o new
      [] field.htype = "REQUIRED" -> new
      [] field.htype = "OPTIONAL" ->
           IF new = <<>> THEN old
           ELSE IF old # <<>> /\ field.ltype = "SUBMESSAGE"
           THEN <<Inner(field.submsg_desc, old[1], new[1])>> ELSE new
      [] field.htype = "SINGULAR" ->
           IF field.ltype = "SUBMESSAGE" THEN Inner(field.submsg_desc, old, new)
           ELSE IF new = ZeroElement(field) /\ field.ltype # "FIXED_LENGTH_BYTES" THEN old ELSE new

MergeStructs(d, old, new, Inner(_, _, _)) ==
    [tag \in Tags(d) |-> MergeData(FieldOf(d, tag), old[tag], new[tag], Inner)]

FlatMerge(d, old, new) == MergeStructs(d, old, new, LAMBDA e, o, n : n)
Merge(d, old, new) == MergeStructs(d, old, new, FlatMerge)

MergeAll(d, structs) ==
    LET merged[n \in 0..Len(structs)] ==
            IF n = 0 THEN ZeroStruct(d) ELSE Merge(d, merged[n - 1], structs[n])
    IN  merged[Len(structs)]

\* A payload that arrives whole is accepted and gives the merge of its
\* messages, whatever the order of the fields and whatever foreign fields
\* stand between them.  Only an array that gets more elements than it can
\* hold, or a required field that nobody has sent, makes pb_decode fail.
WholeDecodesToMerge ==
    origin = "whole" /\ received # Waiting =>
        LET merged == MergeAll(desc, parts)
            complete == parts = <<>> => \A i \in DOMAIN desc : desc[i].htype # "REQUIRED"
        IN  IF Holds(desc, merged) /\ complete
            THEN received.ok /\ received.v = merged
            ELSE ~received.ok

\* The merge with the first fields of a message, and with the first n
\* elements of the next field when its elements are written one by one.
MergeFirst(d, old, new, fields, n) ==
    [tag \in Tags(d) |->
        LET index == CHOOSE i \in DOMAIN d : d[i].tag = tag
        IN  CASE index <= fields -> MergeData(d[index], old[tag], new[tag], FlatMerge)
              [] index = fields + 1 /\ d[index].htype = "REPEATED" /\ d[index].ltype \notin Packable
                   -> old[tag] \o SubSeq(new[tag], 1, Min({n, Len(new[tag])}))
              [] OTHER -> old[tag]]

\* A payload that was cut off is either refused or taken for the messages as
\* far as they were written, field by field: no field gets a value that was
\* never sent, but the fields behind the cut pass for zero.
CutIsFieldPrefix ==
    origin = "cut" /\ received.ok =>
        \E k \in 0..Len(parts) :
            LET before == MergeAll(desc, SubSeq(parts, 1, k))
            IN  \/ received.v = before
                \/ k < Len(parts) /\ \E fields \in 0..Len(desc), n \in 0..2 :
                       received.v = MergeFirst(desc, before, parts[k + 1], fields, n)

\* Whatever bytes a robot message was decoded from, encoding the struct and
\* decoding it again gives the same struct: pb_decode never accepts a value
\* that pb_encode cannot write.
AcceptedRoundTrips ==
    received.ok /\ desc \in RobotTypes =>
        LET again == DeserializeMsg(desc, pb_encode(PB_OSTREAM_SIZING, desc, received.v).out)
        IN  again.ok /\ again.v = received.v

\* What the base station makes of the frames: the command, or the empty string
\* where pb_encode has refused it.
FramesAre(d, commands, frames) ==
    /\ Len(frames) = Len(commands)
    /\ \A i \in DOMAIN frames :
          IF Sent(d, commands[i])
          THEN LET r == DeserializeMsg(d, frames[i]) IN r.ok /\ r.v = commands[i]
          ELSE frames[i] = <<>>

\* The host's datagram of several commands, the first of which may be too long
\* for the buffer: the base station finds in the k-th frame exactly the k-th
\* command, also behind a frame that is empty because its command is all
\* zeros or was refused.
FramesSeparate ==
    origin = "whole" /\ received = Waiting =>
        \A first \in Structs(desc) :
            FramesAre(desc, <<first>> \o parts, Unframe(StoredCommands(desc, <<first>> \o parts)))

\* The two varint decoders against the definition of a varint: groups of
\* seven bits, the least significant first, at most ten.  Every value of 32
\* bits is read by both; pb_decode_varint32 never reads wrong low bits.
VarintReference ==
    origin = "noise" /\ received = Waiting =>
        LET ends  == {i \in DOMAIN payload : 7 \notin payload[i]}
            n     == Min(ends)
            value == UNION {Shl(payload[i] \cap 0..6, 7 * (i - 1), 128) : i \in 1..n}
            r64   == pb_decode_varint(pb_istream_from_buffer(payload))
            r32   == pb_decode_varint32(pb_istream_from_buffer(payload))
        IN  IF ends = {} THEN ~r64.ok /\ ~r32.ok
            ELSE /\ r64.ok <=> n <= 10 /\ value \subseteq 0..63
                 /\ r64.ok => r64.v = value /\ r64.s.pos = n
                 /\ n <= 10 /\ value \subseteq 0..31 => r32.ok
                 /\ r32.ok => r32.v = value \cap 0..31 /\ r32.s.pos = n
=============================================================================

------------------------------ MODULE PbEncode ------------------------------
(***************************************************************************)
(* pb_encode.c.  An output stream is the bytes written so far and the size *)
(* of its buffer; the encoders return the stream and whether they          *)
(* succeeded, and a failure ends the encoding.  A sizing stream is one     *)
(* with no limit, of which only the number of bytes is used.               *)
(***************************************************************************)
EXTENDS PbCommon

pb_ostream_from_buffer(bufsize) == [ok |-> TRUE, max_size |-> bufsize, out |-> <<>>]
PB_OSTREAM_SIZING == pb_ostream_from_buffer(TooLarge)
bytes_written(o) == Len(o.out)

EncodeError(o) == [o EXCEPT !.ok = FALSE]

\* What follows a call that may fail.
IfOk(o, Rest(_)) == IF o.ok THEN Rest(o) ELSE o

pb_write(o, bytes) ==
    IF Len(bytes) > 0 /\ bytes_written(o) + Len(bytes) > o.max_size THEN EncodeError(o)
    ELSE [ok |-> o.ok, max_size |-> o.max_size, out |-> o.out \o bytes]

-----------------------------------------------------------------------------
\* The groups of seven bits, least significant first.  Four groups come from
\* the low word, the fifth takes the rest of low and three bits of high.
LowLeft(l) == Len(l.buffer) < 4 /\ (l.low # {} \/ l.high # {})
LowRound(l) ==
    [buffer |-> Append(l.buffer, l.byte \cup {7}), byte |-> l.low \cap 0..6,
     low |-> Shr(l.low, 7), high |-> l.high]

HighLeft(l) == l.high # {}
HighRound(l) ==
    [buffer |-> Append(l.buffer, l.byte \cup {7}), byte |-> l.high \cap 0..6, high |-> Shr(l.high, 7)]

LastGroup(l) == Append(l.buffer, l.byte)
HighGroups(lows, high) ==
    LastGroup(While(HighLeft, HighRound, [buffer |-> lows.buffer, high |-> Shr(high, 3),
                                          byte |-> lows.byte \cup Shl(high \cap 0..2, 4, 8)], 5))
Groups(low, high) ==
    HighGroups(While(LowLeft, LowRound, [buffer |-> <<>>, byte |-> low \cap 0..6,
                                         low |-> Shr(low, 7), high |-> high], 4), high)

pb_encode_varint_32(o, low, high) == pb_write(o, Groups(low, high))

\* A mutant: the fast path takes one bit too many.
VarintFastPath8(o, value) ==
    IF value \subseteq 0..7 THEN pb_write(o, <<value>>)
    ELSE pb_encode_varint_32(o, value \cap 0..31, Shr(value, 32))

pb_encode_varint(o, value) ==
    IF value \subseteq 0..6 THEN pb_write(o, <<value>>)
    ELSE pb_encode_varint_32(o, value \cap 0..31, Shr(value, 32))

pb_encode_svarint(o, value) ==
    pb_encode_varint(o, IF 63 \in value THEN Not64(Shl(value \cap 0..62, 1, 64))
                                        ELSE Shl(value, 1, 64))

\* pb_encode_fixed32 and pb_encode_fixed64: little endian bytes.
LittleEndian(value, size) == [i \in 1..size |-> Shr(value, 8 * (i - 1)) \cap 0..7]
pb_encode_fixed32(o, value) == pb_write(o, LittleEndian(value, 4))
pb_encode_fixed64(o, value) == pb_write(o, LittleEndian(value, 8))

pb_encode_tag(o, wiretype, field_number) ==
    pb_encode_varint(o, Shl(ToBits(field_number), 3, 64) \cup ToBits(wiretype))

pb_encode_tag_for_field(o, field) ==
    pb_encode_tag(o, CASE field.ltype \in {"BOOL", "VARINT", "UVARINT", "SVARINT"} -> PB_WT_VARINT
                       [] field.ltype = "FIXED32" -> PB_WT_32BIT
                       [] field.ltype = "FIXED64" -> PB_WT_64BIT
                       [] OTHER                   -> PB_WT_STRING,
                  field.tag)

pb_encode_string(o, bytes) ==
    IfOk(pb_encode_varint(o, ToBits(Len(bytes))), LAMBDA sized : pb_write(sized, bytes))

-----------------------------------------------------------------------------
\* Field encoders.  The data of an integer field has 8 * data_size bits.

pb_enc_bool(o, value) == pb_encode_varint(o, IF value # {} THEN {0} ELSE {})

pb_enc_varint(o, field, value) ==
    CASE field.ltype = "UVARINT" -> pb_encode_varint(o, value)
      [] field.ltype = "SVARINT" -> pb_encode_svarint(o, SignExtend(value, 8 * field.data_size))
      [] OTHER                   -> pb_encode_varint(o, SignExtend(value, 8 * field.data_size))

pb_enc_fixed(o, field, value) ==
    IF field.data_size = 4 THEN pb_encode_fixed32(o, value) ELSE pb_encode_fixed64(o, value)

\* data_size counts the two bytes of pb_bytes_array_t.size as well.
pb_enc_bytes(o, field, bytes) ==
    IF Len(bytes) > field.data_size - 2 THEN EncodeError(o) ELSE pb_encode_string(o, bytes)

\* The C string: what stands before the first zero byte.
CString(bytes) ==
    LET zeros == {i \in DOMAIN bytes : bytes[i] = {}}
    IN  IF zeros = {} THEN bytes ELSE SubSeq(bytes, 1, Min(zeros) - 1)

pb_enc_string(o, field, bytes) ==
    IF Len(CString(bytes)) > field.data_size - 1 THEN EncodeError(o)
    ELSE pb_encode_string(o, CString(bytes))

\* The size first, with a sizing stream, then the contents with a substream
\* that holds exactly that many bytes.
Submessage(o, size, sub) ==
    IfOk(pb_encode_varint(o, ToBits(size)), LAMBDA headed :
        IF bytes_written(headed) + size > o.max_size THEN EncodeError(headed)
        ELSE [headed EXCEPT !.out = @ \o sub.out,
                            !.ok = sub.ok /\ bytes_written(sub) = size])

SizedSubmessage(o, desc, struct, sizing, Encode(_, _, _)) ==
    IF ~sizing.ok THEN EncodeError(o)
    ELSE Submessage(o, bytes_written(sizing),
                    Encode(pb_ostream_from_buffer(bytes_written(sizing)), desc, struct))

pb_encode_submessage(o, desc, struct, Encode(_, _, _)) ==
    SizedSubmessage(o, desc, struct, Encode(PB_OSTREAM_SIZING, desc, struct), Encode)

encode_basic_field(o, field, value, Encode(_, _, _)) ==
    IfOk(pb_encode_tag_for_field(o, field), LAMBDA tagged :
        CASE field.ltype = "BOOL" -> pb_enc_bool(tagged, value)
          [] field.ltype \in {"VARINT", "UVARINT", "SVARINT"} -> pb_enc_varint(tagged, field, value)
          [] field.ltype \in {"FIXED32", "FIXED64"} -> pb_enc_fixed(tagged, field, value)
          [] field.ltype = "BYTES" -> pb_enc_bytes(tagged, field, value)
          [] field.ltype = "STRING" -> pb_enc_string(tagged, field, value)
          [] field.ltype = "SUBMESSAGE" -> pb_encode_submessage(tagged, field.submsg_desc, value, Encode)
          [] field.ltype = "FIXED_LENGTH_BYTES" -> pb_encode_string(tagged, value))

-----------------------------------------------------------------------------
\* Arrays: one tag and the packed elements where the type allows it.
PackedElements(o, field, elements) ==
    FoldLeft(LAMBDA done, element :
                 IfOk(done, LAMBDA w : IF field.ltype \in {"FIXED32", "FIXED64"}
                                       THEN pb_enc_fixed(w, field, element)
                                       ELSE pb_enc_varint(w, field, element)),
             o, elements)

UnpackedElements(o, field, elements, Encode(_, _, _)) ==
    FoldLeft(LAMBDA done, element :
                 IfOk(done, LAMBDA w : encode_basic_field(w, field, element, Encode)),
             o, elements)

encode_array(o, field, elements, Encode(_, _, _)) ==
    CASE elements = <<>> -> o
      [] Len(elements) > field.array_size -> EncodeError(o)
      [] elements # <<>> /\ Len(elements) <= field.array_size ->
           IF field.ltype \notin Packable THEN UnpackedElements(o, field, elements, Encode)
           ELSE LET size == bytes_written(PackedElements(PB_OSTREAM_SIZING, field, elements))
                IN  IfOk(pb_encode_tag(o, PB_WT_STRING, field.tag), LAMBDA tagged :
                        IfOk(pb_encode_varint(tagged, ToBits(size)), LAMBDA headed :
                            PackedElements(headed, field, elements)))

\* A proto3 field is written only when it is not zero.
IsDefault(field, value, Inner(_, _)) ==
    CASE field.htype = "REQUIRED" -> FALSE
      [] field.htype \in {"REPEATED", "OPTIONAL"} -> value = <<>>
      [] field.htype = "SINGULAR" ->
           CASE field.ltype \in Packable -> value = {}
             [] field.ltype = "BYTES"    -> value = <<>>
             [] field.ltype = "STRING"   -> CString(value) = <<>>
             [] field.ltype = "FIXED_LENGTH_BYTES" -> field.data_size = 0
             [] field.ltype = "SUBMESSAGE" ->
                  \A tag \in Tags(field.submsg_desc) : Inner(FieldOf(field.submsg_desc, tag), value[tag])

FlatDefault(field, value) == IsDefault(field, value, LAMBDA f, v : FALSE)
pb_check_proto3_default_value(field, value) == IsDefault(field, value, FlatDefault)

Missing(field, value) ==
    \/ field.htype = "OPTIONAL" /\ value = <<>>
    \/ field.htype = "SINGULAR" /\ pb_check_proto3_default_value(field, value)

encode_field(o, field, value, Encode(_, _, _)) ==
    IF Missing(field, value) THEN o
    ELSE IF field.htype = "REPEATED" THEN encode_array(o, field, value, Encode)
    ELSE encode_basic_field(o, field, IF field.htype = "OPTIONAL" THEN value[1] ELSE value, Encode)

\* Every field in the order of the descriptor, until one fails or the
\* iterator is back at the first.
FieldsLeft(l) == l.o.ok /\ l.more

NextField(l, desc, struct, Encode(_, _, _)) ==
    LET field == load_descriptor_values(desc, l.index)
        next  == advance_iterator(desc, l.index)
    IN  [o |-> encode_field(l.o, field, struct[field.tag], Encode), index |-> next, more |-> next # 0]

EncodeFields(o, desc, struct, Encode(_, _, _)) ==
    While(FieldsLeft, LAMBDA l : NextField(l, desc, struct, Encode),
          [o |-> o, index |-> 0, more |-> desc # <<>>], Len(desc)).o

FlatEncode(o, desc, struct) == EncodeFields(o, desc, struct, LAMBDA p, d, v : EncodeError(p))
pb_encode(o, desc, struct) == EncodeFields(o, desc, struct, FlatEncode)
=============================================================================

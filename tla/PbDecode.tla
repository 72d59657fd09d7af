------------------------------ MODULE PbDecode ------------------------------
(***************************************************************************)
(* pb_decode.c.  An input stream is a buffer, the position in it and the   *)
(* number of bytes left.  A decoder returns the stream behind what it has  *)
(* read and the value, or Error.  r := f(), if it failed return false, is  *)
(* Then(f, LAMBDA r : ...): an error ends the decoding and no caller uses  *)
(* what was decoded before it.                                             *)
(***************************************************************************)
EXTENDS PbCommon

pb_istream_from_buffer(buf) == [buf |-> buf, pos |-> 0, bytes_left |-> Len(buf)]

Error == [ok |-> FALSE]
Done(s, v) == [ok |-> TRUE, s |-> s, v |-> v]
Then(r, Rest(_)) == IF r.ok THEN Rest(r) ELSE Error

Advance(s, count) == [buf |-> s.buf, pos |-> s.pos + count, bytes_left |-> s.bytes_left - count]

pb_read(s, count) ==
    IF s.bytes_left < count THEN Error
    ELSE Done(Advance(s, count), SubSeq(s.buf, s.pos + 1, s.pos + count))

pb_readbyte(s) ==
    IF s.bytes_left = 0 THEN Error ELSE Done(Advance(s, 1), s.buf[s.pos + 1])

-----------------------------------------------------------------------------
\* Varints.

\* The bytes behind the first one.  Bits beyond the 32nd must be zero or the
\* sign of a negative number; the tenth byte is the last.
ValidVarint32(byte, bitpos, result) ==
    CASE bitpos < 28 -> TRUE
      [] bitpos = 28 -> byte \cap 4..6 = {} \/ byte \cap 3..6 = 3..6
      [] bitpos >= 32 ->
           /\ bitpos < 64
           /\ \/ byte \cap 0..6 = {}
              \/ 31 \in result /\ byte = (IF bitpos < 63 THEN 0..7 ELSE {0})

\* A loop goes on until it fails or a byte says that no more follow.
More(l) == l.ok /\ 7 \in l.byte
Failed(l) == [l EXCEPT !.ok = FALSE]
Result(l) == IF l.ok THEN Done(l.s, l.v) ELSE Error

Varint32Round(l) ==
    LET r == pb_readbyte(l.s)
    IN  IF ~r.ok THEN Failed(l)
        ELSE IF ~ValidVarint32(r.v, l.bitpos, l.v) THEN Failed(l)
        ELSE [ok |-> TRUE, byte |-> r.v, s |-> r.s, bitpos |-> l.bitpos + 7,
              v |-> l.v \cup Shl(r.v \cap 0..6, l.bitpos, 32)]

pb_decode_varint32(s) ==
    LET r == pb_readbyte(s)
    IN  IF ~r.ok \/ 7 \notin r.v THEN r
        ELSE Result(While(More, Varint32Round, [ok |-> TRUE, byte |-> {7}, s |-> r.s,
                                                bitpos |-> 7, v |-> r.v \cap 0..6], 10))

\* A mutant: the tenth byte is not checked.
VarintRoundUnchecked(l) ==
    LET r == pb_readbyte(l.s)
    IN  IF ~r.ok THEN Failed(l)
        ELSE [ok |-> TRUE, byte |-> r.v, s |-> r.s, bitpos |-> l.bitpos + 7,
              v |-> l.v \cup Shl(r.v \cap 0..6, l.bitpos, 64)]

VarintRound(l) ==
    LET r == pb_readbyte(l.s)
    IN  IF ~r.ok THEN Failed(l)
        ELSE IF l.bitpos >= 63 /\ r.v \cap 1..7 # {} THEN Failed(l)
        ELSE [ok |-> TRUE, byte |-> r.v, s |-> r.s, bitpos |-> l.bitpos + 7,
              v |-> l.v \cup Shl(r.v \cap 0..6, l.bitpos, 64)]

pb_decode_varint(s) ==
    Result(While(More, VarintRound, [ok |-> TRUE, byte |-> {7}, s |-> s, bitpos |-> 0, v |-> {}], 10))

SkipRound(l) ==
    LET r == pb_readbyte(l.s)
    IN  IF ~r.ok THEN Failed(l) ELSE [ok |-> TRUE, byte |-> r.v, s |-> r.s, v |-> {}]

\* There is no limit on the length, but every round takes a byte.
pb_skip_varint(s) ==
    Result(While(More, SkipRound, [ok |-> TRUE, byte |-> {7}, s |-> s, v |-> {}], s.bytes_left + 1))

pb_skip_string(s) ==
    Then(pb_decode_varint32(s), LAMBDA length : pb_read(length.s, ToNat(length.v)))

\* The end of the stream, where eof is set, is left to the caller.
pb_decode_tag(s) ==
    Then(pb_decode_varint32(s), LAMBDA temp :
        [ok |-> TRUE, s |-> temp.s, tag |-> ToNat(Shr(temp.v, 3)),
         wire_type |-> ToNat(temp.v \cap 0..2)])

pb_skip_field(s, wire_type) ==
    CASE wire_type = PB_WT_VARINT -> pb_skip_varint(s)
      [] wire_type = PB_WT_64BIT  -> pb_read(s, 8)
      [] wire_type = PB_WT_STRING -> pb_skip_string(s)
      [] wire_type = PB_WT_32BIT  -> pb_read(s, 4)
      [] OTHER                    -> Error

\* The substream shares the buffer; the parent's bytes_left is reduced at
\* once, its position when the substream is closed.
pb_make_string_substream(s) ==
    Then(pb_decode_varint32(s), LAMBDA size :
        IF size.s.bytes_left < ToNat(size.v) THEN Error
        ELSE Done([size.s EXCEPT !.bytes_left = @ - ToNat(size.v)],
                  [size.s EXCEPT !.bytes_left = ToNat(size.v)]))

pb_close_string_substream(s, substream) ==
    [s EXCEPT !.pos = substream.pos + substream.bytes_left]

-----------------------------------------------------------------------------
\* Field decoders.

FromLittleEndian(bytes) == UNION {Shl(bytes[i], 8 * (i - 1), 64) : i \in DOMAIN bytes}

\* A mutant: at the end of the stream fewer bytes are taken.
FixedFromWhatIsLeft(s, size) ==
    LET r == pb_read(s, Min({size, s.bytes_left})) IN Done(r.s, FromLittleEndian(r.v))

DecodeFixed(s, size) ==
    Then(pb_read(s, size), LAMBDA r : Done(r.s, FromLittleEndian(r.v)))

pb_decode_fixed32(s) == DecodeFixed(s, 4)
pb_decode_fixed64(s) == DecodeFixed(s, 8)

pb_decode_bool(s) ==
    Then(pb_decode_varint32(s), LAMBDA r : Done(r.s, IF r.v # {} THEN {0} ELSE {}))

pb_decode_svarint(s) ==
    Then(pb_decode_varint(s), LAMBDA r :
        Done(r.s, IF 0 \in r.v THEN Not64(Shr(r.v, 1)) ELSE Shr(r.v, 1)))

\* The value is cast to the size of the field and must survive the cast; an
\* int32 may come as the 64 bits of a negative number or as its 32 bits.
Fits(value, field) ==
    LET width  == 8 * field.data_size
        svalue == IF field.ltype = "VARINT" /\ field.data_size # 8 THEN SignExtend(value, 32) ELSE value
    IN  IF field.ltype = "UVARINT" THEN value \subseteq 0..(width - 1)
        ELSE SignExtend(svalue, width) = svalue

pb_dec_varint(s, field) ==
    Then(IF field.ltype = "SVARINT" THEN pb_decode_svarint(s) ELSE pb_decode_varint(s), LAMBDA r :
        IF Fits(r.v, field) THEN Done(r.s, r.v \cap 0..(8 * field.data_size - 1)) ELSE Error)

\* A length of at most capacity, and the bytes: data_size also counts the two
\* bytes of pb_bytes_array_t.size, or the terminating zero of a string.
DecodeSized(s, capacity) ==
    Then(pb_decode_varint32(s), LAMBDA size :
        IF ToNat(size.v) > capacity THEN Error ELSE pb_read(size.s, ToNat(size.v)))

pb_dec_bytes(s, field) == DecodeSized(s, field.data_size - 2)
pb_dec_string(s, field) == DecodeSized(s, field.data_size - 1)

\* Exactly data_size bytes, or none for all zeros.
pb_dec_fixed_length_bytes(s, field) ==
    Then(pb_decode_varint32(s), LAMBDA size :
        CASE size.v = {} -> Done(size.s, ZeroElement(field))
          [] size.v # {} /\ ToNat(size.v) = field.data_size -> pb_read(size.s, field.data_size)
          [] OTHER -> Error)

\* The elements of a submessage field that is not repeated are merged with
\* those decoded before (PB_DECODE_NOINIT).
pb_dec_submessage(s, field, old, Decode(_, _, _)) ==
    LET start == IF field.htype = "REPEATED" THEN ZeroStruct(field.submsg_desc) ELSE old
    IN  Then(pb_make_string_substream(s), LAMBDA sub :
            Then(Decode(sub.v, field.submsg_desc, start), LAMBDA result :
                Done(pb_close_string_substream(sub.s, result.s), result.v)))

WireTypes(field) ==
    CASE field.ltype \in {"BOOL", "VARINT", "UVARINT", "SVARINT"} -> {PB_WT_VARINT, PB_WT_PACKED}
      [] field.ltype = "FIXED32" -> {PB_WT_32BIT, PB_WT_PACKED}
      [] field.ltype = "FIXED64" -> {PB_WT_64BIT, PB_WT_PACKED}
      [] OTHER                   -> {PB_WT_STRING}

decode_basic_field(s, wire_type, field, old, Decode(_, _, _)) ==
    CASE wire_type \notin WireTypes(field) -> Error
      [] wire_type \in WireTypes(field) ->
           CASE field.ltype = "BOOL"       -> pb_decode_bool(s)
             [] field.ltype \in {"VARINT", "UVARINT", "SVARINT"} -> pb_dec_varint(s, field)
             [] field.ltype = "FIXED32"    -> pb_decode_fixed32(s)
             [] field.ltype = "FIXED64"    -> pb_decode_fixed64(s)
             [] field.ltype = "BYTES"      -> pb_dec_bytes(s, field)
             [] field.ltype = "STRING"     -> pb_dec_string(s, field)
             [] field.ltype = "SUBMESSAGE" -> pb_dec_submessage(s, field, old, Decode)
             [] field.ltype = "FIXED_LENGTH_BYTES" -> pb_dec_fixed_length_bytes(s, field)

\* A submessage of a submessage: beyond the bound.
TooDeep(s, desc, struct) == Error

\* The elements of a packed array.  When the array is full and bytes are
\* left, or when an element is not whole, the decoding fails.
BytesLeft(l) == l.ok /\ l.s.bytes_left > 0

\* A mutant: elements are stored behind the end of the array.
PackedElementUnbounded(l, field, r) ==
    IF ~r.ok THEN Failed(l) ELSE [ok |-> TRUE, s |-> r.s, v |-> Append(l.v, r.v)]

PackedElement(l, field, r) ==
    IF Len(l.v) >= field.array_size THEN Failed(l)
    ELSE IF ~r.ok THEN Failed(l)
    ELSE [ok |-> TRUE, s |-> r.s, v |-> Append(l.v, r.v)]

PackedArray(sub, field, elements) ==
    Result(While(BytesLeft,
                 LAMBDA l : PackedElement(l, field, decode_basic_field(l.s, PB_WT_PACKED, field, {}, TooDeep)),
                 [ok |-> TRUE, s |-> sub, v |-> elements], sub.bytes_left))

PackedField(s, field, data) ==
    Then(pb_make_string_substream(s), LAMBDA sub :
        Then(PackedArray(sub.v, field, data), LAMBDA packed :
            Done(pb_close_string_substream(sub.s, packed.s), packed.v)))

\* The element that a decoder starts from, and the data of the field after it.
OldElement(field, data) ==
    CASE field.htype \in {"REQUIRED", "SINGULAR"} -> data
      [] field.htype = "OPTIONAL" -> IF data = <<>> THEN ZeroElement(field) ELSE data[1]
      [] field.htype = "REPEATED" -> ZeroElement(field)

NewData(field, data, element) ==
    CASE field.htype \in {"REQUIRED", "SINGULAR"} -> element
      [] field.htype = "OPTIONAL" -> <<element>>
      [] field.htype = "REPEATED" -> Append(data, element)

decode_static_field(s, wire_type, field, data, Decode(_, _, _)) ==
    IF field.htype = "REPEATED" /\ wire_type = PB_WT_STRING /\ field.ltype \in Packable
    THEN PackedField(s, field, data)
    ELSE IF field.htype = "REPEATED" /\ Len(data) >= field.array_size THEN Error
    ELSE Then(decode_basic_field(s, wire_type, field, OldElement(field, data), Decode), LAMBDA r :
             Done(r.s, NewData(field, data, r.v)))

\* One field of the stream: the tag t, the field found for it, and what r its
\* decoder gave.  The iterator stays at the field found last; a field that is
\* not in the descriptor is skipped.
StoreField(l, found, tag, r) ==
    IF ~r.ok THEN Failed(l)
    ELSE IF ~found.found
    THEN [ok |-> TRUE, s |-> r.s, index |-> found.index, v |-> l.v, fields_seen |-> l.fields_seen]
    ELSE [ok |-> TRUE, s |-> r.s, index |-> found.index,
          v |-> [l.v EXCEPT ![tag] = r.v], fields_seen |-> l.fields_seen \cup {tag}]

DecodeFound(l, t, found, field, Decode(_, _, _)) ==
    StoreField(l, found, field.tag,
               IF found.found
               THEN decode_static_field(t.s, t.wire_type, field, l.v[field.tag], Decode)
               ELSE pb_skip_field(t.s, t.wire_type))

DecodeTagged(l, desc, t, Decode(_, _, _)) ==
    LET found == pb_field_iter_find(desc, l.index, t.tag)
    IN  IF ~t.ok THEN Failed(l)
        ELSE IF t.tag = 0 THEN Failed(l)
        ELSE DecodeFound(l, t, found, load_descriptor_values(desc, found.index), Decode)

DecodeField(l, desc, Decode(_, _, _)) == DecodeTagged(l, desc, pb_decode_tag(l.s), Decode)

\* Every field takes a byte at least.  At the end of the stream all required
\* fields must have been seen.
RequiredSeen(desc, end) ==
    IF {tag \in Tags(desc) : FieldOf(desc, tag).htype = "REQUIRED"} \subseteq end.fields_seen
    THEN Result(end) ELSE Error

DecodeFields(s, desc, struct, Decode(_, _, _)) ==
    RequiredSeen(desc, While(BytesLeft, LAMBDA l : DecodeField(l, desc, Decode),
        [ok |-> TRUE, s |-> s, index |-> 0, v |-> struct, fields_seen |-> {}], s.bytes_left))

FlatDecode(s, desc, struct) == DecodeFields(s, desc, struct, TooDeep)
pb_decode_inner(s, desc, struct) == DecodeFields(s, desc, struct, FlatDecode)

\* pb_decode: the struct starts with its defaults.
pb_decode(s, desc) == pb_decode_inner(s, desc, ZeroStruct(desc))
=============================================================================

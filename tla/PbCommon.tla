------------------------------ MODULE PbCommon ------------------------------
(***************************************************************************)
(* nanopb, the part shared by the encoder and the decoder: integers of a   *)
(* fixed width, message descriptors, message structs and the iterator over *)
(* the fields of a descriptor.                                             *)
(*                                                                         *)
(* An unsigned integer is the set of the positions of its one bits, so     *)
(* that 64-bit values keep their width: & is \cap, | is \cup, zero is {}.  *)
(* A byte is a subset of 0..7.  A signed integer is its two's complement.  *)
(*                                                                         *)
(* Fields are static (no pointers, callbacks, extensions or oneofs) and    *)
(* "SINGULAR" is PB_HTYPE_OPTIONAL without a has-flag.  A struct maps the  *)
(* tag of a field to its data: an integer, a sequence of bytes, the struct *)
(* of a submessage, or, when it is REPEATED, the sequence of its elements; *)
(* an OPTIONAL field is the sequence of at most one element (its has-flag).*)
(*                                                                         *)
(* Bound: messages nest once (NestsOnce).  What calls itself for a         *)
(* submessage takes the operator for the submessage as a parameter.        *)
(***************************************************************************)
EXTENDS Integers, SequencesExt

\* The state of a while loop that ends within so many rounds.
While(Test(_), Body(_), first, rounds) ==
    LET after[n \in 0..rounds] ==
            IF n = 0 THEN first
            ELSE LET l == after[n - 1] IN IF Test(l) THEN Body(l) ELSE l
    IN  after[rounds]

Shl(x, n, width) == {i + n : i \in x} \cap 0..(width - 1)
Shr(x, n) == {i - n : i \in {j \in x : j >= n}}
Not64(x) == (0..63) \ x
SignExtend(x, width) ==
    (x \cap 0..(width - 1)) \cup (IF width - 1 \in x THEN width..63 ELSE {})

\* Numbers of 16 bits; a size of 2^16 or more is one no buffer has.
TooLarge == 65536
ToNat(x) ==
    LET top[n \in 0..16] == IF n = 0 THEN 0 ELSE 2 * top[n - 1] + (IF 16 - n \in x THEN 1 ELSE 0)
    IN  IF x \subseteq 0..15 THEN top[16] ELSE TooLarge
ToBits(number) ==
    LET half[n \in 0..16] == IF n = 0 THEN number ELSE half[n - 1] \div 2
    IN  {i \in 0..15 : half[i] % 2 = 1}

Byte == SUBSET (0..7)

PB_WT_VARINT == 0
PB_WT_64BIT  == 1
PB_WT_STRING == 2
PB_WT_32BIT  == 5
PB_WT_PACKED == 255

\* PB_LTYPE_LAST_PACKABLE and the types before it.
Packable == {"BOOL", "VARINT", "UVARINT", "SVARINT", "FIXED32", "FIXED64"}

PB_FIELD(tag, htype, ltype, data_size, array_size, submsg_desc) ==
    [tag |-> tag, htype |-> htype, ltype |-> ltype, data_size |-> data_size,
     array_size |-> array_size, submsg_desc |-> submsg_desc]

-----------------------------------------------------------------------------
\* The iterator is the index of the current field, counted from 0 as in the
\* code; what load_descriptor_values copies follows from the index.

load_descriptor_values(desc, index) == desc[index + 1]

advance_iterator(desc, index) == IF index + 1 >= Len(desc) THEN 0 ELSE index + 1

largest_tag(desc) == Max({desc[i].tag : i \in DOMAIN desc})

\* A mutant: the search never goes back to the fields before the current one.
FindForward(desc, index, tag) ==
    IF tag < load_descriptor_values(desc, index).tag THEN [found |-> FALSE, index |-> index]
    ELSE IF \E i \in index..(Len(desc) - 1) : load_descriptor_values(desc, i).tag = tag
         THEN [found |-> TRUE,
               index |-> CHOOSE i \in index..(Len(desc) - 1) : load_descriptor_values(desc, i).tag = tag]
         ELSE [found |-> FALSE, index |-> index]

\* The search advances before it compares, and ends back at the current
\* field: it meets the fields up to that one, or all of them.  Tags differ, so
\* that the order in which it meets them is of no account.
pb_field_iter_find(desc, index, tag) ==
    LET current == load_descriptor_values(desc, index).tag
        visited == IF tag < current THEN 0..index ELSE 0..(Len(desc) - 1)
        matches == {i \in visited : load_descriptor_values(desc, i).tag = tag}
    IN  IF tag # current /\ (tag > largest_tag(desc) \/ matches = {})
        THEN [found |-> FALSE, index |-> index]
        ELSE [found |-> TRUE, index |-> IF tag = current THEN index ELSE CHOOSE i \in matches : TRUE]

-----------------------------------------------------------------------------
\* What memset leaves in a field, and in a whole struct.

FieldOf(desc, tag) == desc[CHOOSE i \in DOMAIN desc : desc[i].tag = tag]
Tags(desc) == {desc[i].tag : i \in DOMAIN desc}

NestsOnce(desc) ==
    \A i \in DOMAIN desc : \A j \in DOMAIN desc[i].submsg_desc :
        desc[i].submsg_desc[j].ltype # "SUBMESSAGE"

SetToDefault(field, Element(_)) ==
    IF field.htype \in {"REPEATED", "OPTIONAL"} THEN <<>> ELSE Element(field)

ZeroLeaf(field) ==
    CASE field.ltype \in Packable             -> {}
      [] field.ltype \in {"BYTES", "STRING"}  -> <<>>
      [] field.ltype = "FIXED_LENGTH_BYTES"   -> [i \in 1..field.data_size |-> {}]

ZeroElement(field) ==
    IF field.ltype # "SUBMESSAGE" THEN ZeroLeaf(field)
    ELSE [tag \in Tags(field.submsg_desc) |-> SetToDefault(FieldOf(field.submsg_desc, tag), ZeroLeaf)]

pb_field_set_to_default(field) == SetToDefault(field, ZeroElement)

ZeroStruct(desc) == [tag \in Tags(desc) |-> pb_field_set_to_default(FieldOf(desc, tag))]
=============================================================================

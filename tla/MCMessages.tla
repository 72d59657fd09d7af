----------------------------- MODULE MCMessages -----------------------------
(***************************************************************************)
(* Messages with the two robot messages and, for the rest of nanopb, one   *)
(* type with a field of every kind.  The buffer is smaller than a command  *)
(* with all its fields, so that some messages do not fit.                  *)
(***************************************************************************)
EXTENDS Messages

Inner == <<PB_FIELD(1, "SINGULAR", "UVARINT", 1, 1, <<>>),
           PB_FIELD(2, "REPEATED", "SVARINT", 2, 2, <<>>)>>

Mixed == <<PB_FIELD(1, "SINGULAR", "VARINT", 4, 1, <<>>),
           PB_FIELD(2, "OPTIONAL", "SVARINT", 4, 1, <<>>),
           PB_FIELD(3, "REPEATED", "BOOL", 1, 2, <<>>),
           PB_FIELD(4, "SINGULAR", "FIXED64", 8, 1, <<>>),
           PB_FIELD(5, "OPTIONAL", "BYTES", 4, 1, <<>>),
           PB_FIELD(6, "SINGULAR", "STRING", 3, 1, <<>>),
           PB_FIELD(7, "OPTIONAL", "SUBMESSAGE", 0, 1, Inner),
           PB_FIELD(8, "REPEATED", "FIXED32", 4, 2, <<>>),
           PB_FIELD(9, "REPEATED", "SUBMESSAGE", 0, 2, Inner),
           PB_FIELD(10, "SINGULAR", "FIXED_LENGTH_BYTES", 2, 1, <<>>),
           PB_FIELD(20, "REQUIRED", "UVARINT", 8, 1, <<>>)>>

MCDescriptors == {RobotCommandMsg_fields, RobotResponseMsg_fields, Mixed}

One == 23..29               \* the float 1.0
MinusZero == {31}           \* the float -0.0

Set(struct, changes) == [tag \in DOMAIN struct |-> IF tag \in DOMAIN changes THEN changes[tag] ELSE struct[tag]]

Command(changes) == Set(ZeroStruct(RobotCommandMsg_fields), changes)
Response(changes) == Set(ZeroStruct(RobotResponseMsg_fields), changes)
Mix(changes) == Set(ZeroStruct(Mixed), changes)
In(u, s) == [tag \in 1..2 |-> IF tag = 1 THEN u ELSE s]

MCStructs(d) ==
    CASE d = RobotCommandMsg_fields ->
           {Command([t \in {} |-> 0]), Command([t \in {1} |-> {0}]), Command([t \in {1} |-> 0..31]),
            Command([t \in {1} |-> {7, 14}]), Command([t \in {7} |-> MinusZero]),
            Command([t \in {1, 2} |-> IF t = 1 THEN {1} ELSE One]),
            Command([t \in 1..7 |-> IF t = 1 THEN {0, 1} ELSE One])}
      [] d = RobotResponseMsg_fields ->
           {Response([t \in {6} |-> {31}]), Response([t \in {1, 5} |-> 0..(t + 22)]),
            Response([t \in {2, 4} |-> One])}
      [] d = Mixed ->
           {Mix([t \in {1, 2} |-> IF t = 1 THEN 0..31 ELSE <<0..31>>]),
            Mix([t \in {2, 20} |-> IF t = 2 THEN <<{31}>> ELSE {63}]),
            Mix([t \in {3, 7} |-> IF t = 3 THEN <<{0}>> ELSE <<In({7}, <<{15}>>)>>]),
            Mix([t \in {4, 5} |-> IF t = 4 THEN {0, 63} ELSE <<<<{}, 0..7>>>>]),
            Mix([t \in {6, 8} |-> IF t = 6 THEN <<{6}, {5}>> ELSE <<{31}, {}>>]),
            Mix([t \in {9, 10} |-> IF t = 9 THEN <<In({}, <<>>), In({0}, <<0..14>>)>> ELSE <<{1}, {}>>])}

\* Field 15 as a varint, as 64 bits, as a string and as 32 bits.
MCForeign == {<<{3, 4, 5, 6}, 0..7, {}>>,
              <<{0, 3, 4, 5, 6}>> \o [i \in 1..8 |-> 0..7],
              <<{1, 3, 4, 5, 6}, {1}, {3}, {0}>>,
              <<{0, 2, 3, 4, 5, 6}, {}, {}, {}, {3}>>}

\* 0, 1, the tags of field 1 as a varint and as a string, the masks of the
\* fifth byte of a varint, and two bytes that say that more follow.
MCNoiseBytes == {{}, {0}, {3}, {1, 3}, 0..3, {4}, 3..6, {7}, 0..7}
=============================================================================

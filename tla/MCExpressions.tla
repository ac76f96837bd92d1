--------------------------- MODULE MCExpressions ----------------------------
(***************************************************************************)
(* Expressions: what the parser makes of a text, what the routes through   *)
(* the compiler make of an operation, and what a stored value reads back   *)
(* as.  A behaviour is about one of the three.                             *)
(*                                                                         *)
(* In Arithmetic one byte stands for two bits, four for four, eight for    *)
(* eight: the widths stay powers of two, and an F32 is narrower than an    *)
(* I32, an F64 than an I64.                                                *)
(***************************************************************************)
EXTENDS Arithmetic, ExprParser, StoredValue

MCKinds == {"I8", "U8", "I32", "U32", "I64", "U64", "F32", "F64"}
MCBits == [w \in {1, 4, 8} |-> w + IF w = 1 THEN 1 ELSE 0]
MCMantissa == [w \in {4, 8} |-> IF w = 4 THEN 3 ELSE 6]

-----------------------------------------------------------------------------
(* StoredValue: trees of lists, maps and structs, of which one branch is   *)
(* four deep and the others short; and every number, string and vector at  *)
(* an edge of the formats, in each place it can have in a tree.            *)

Whole(k, n) == Number(k, n, "whole")
EdgeNumbers ==
  {Whole("I64", n) : n \in {-64, -33, -32, -17, -16, -9, -8, -2, -1, 0, 7, 8, 15, 16, 31, 32, 63}}
  \cup {Whole("U64", 64), Whole("U64", 127), Whole("I8", -3), Whole("F64", 256)}
  \cup {Number(k, n, f) : k \in {"F32", "F64"}, n \in {-2, 1}, f \in {"whole", "half", "nan"}}
EdgeStrings ==
  {String(s) : s \in {"", "word", "marked", "long", "digits", "padded", "colon", "backspace"}}
UpTo(n) == [i \in 1 .. n |-> i]
EdgeVectors == {VecValue(k, UpTo(n)) : k \in {"I8", "I16", "I32", "I64", "F32", "Bytes"},
                                    n \in {0, 1, 2, 4, 5, 17, 33}}
EdgeLists == {ListValue([i \in 1 .. n |-> Nil]) : n \in {3, 5, 33}}

Around(x) ==
  {x, ListValue(<<x>>), ListValue(<<x, x>>), ListValue(<<Nil, x>>), MapValue(<< <<"word", x>> >>),
   MapValue(<< <<"word", x>>, <<"other", x>> >>), StructValue(<< <<"word", x>> >>),
   StructValue(<< <<"word", x>>, <<"other", x>> >>)}
Edge == UNION {UNION {Around(y) : y \in Around(x)} :
                 x \in EdgeNumbers \cup EdgeStrings \cup EdgeVectors \cup EdgeLists}

Lists(S, T) == {ListValue(<<x>>) : x \in S} \cup {ListValue(<<x, y>>) : x \in S, y \in T}
Pairs(S, T, key) == {MapValue(<< <<"word", x>>, <<key, y>> >>) : x \in S, y \in T}
Structs(S, T) == {StructValue(<< <<"word", x>>, <<"other", y>> >>) : x \in S, y \in T}
Maps(S, T) == {MapValue(<< <<"word", x>> >>) : x \in S} \cup Pairs(S, T, "other")

Small == {Nil, String("word")}
Leaves == Small \cup {VecValue("I64", UpTo(2)), VecValue("I8", UpTo(2)),
                      ListValue(<<>>), MapValue(<<>>), StructValue(<<>>)}
Two == Leaves \cup Lists(Leaves, Small) \cup Maps(Leaves, Small) \cup Pairs(Small, Small, "marked")
       \cup Structs(Leaves, Small)
Three == Two \cup Lists(Two, Small) \cup Maps(Two, Small) \cup Structs(Two, Small)
         \cup Lists(Small, Two) \cup Maps(Small, Two) \cup Structs(Small, Two)
Four == Three \cup Lists(Three, Small) \cup Maps(Three, Small)

MCStored == Four \cup Edge

-----------------------------------------------------------------------------
text == <<tree, newline, parsed>>

ParserIdle == tree = Atom /\ newline = 0 /\ parsed = Got(Atom, FALSE, 2)
ArithmeticIdle == op = "Add" /\ left = Val("I8", 1) /\ right = Val("I8", 1) /\ out = None
StoredIdle == value = Nil /\ format = "yaml" /\ back = Nil

MCInit == \/ Init /\ ParserIdle /\ StoredIdle
          \/ InitText /\ ArithmeticIdle /\ StoredIdle
          \/ InitStored /\ ArithmeticIdle /\ ParserIdle
MCNext == \/ ParserIdle /\ StoredIdle /\ CarryOut /\ UNCHANGED <<text, stored>>
          \/ ParseText /\ UNCHANGED <<vars, stored>>
          \/ Store /\ UNCHANGED <<vars, text>>
MCSpec == MCInit /\ [][MCNext]_<<vars, text, stored>>
=============================================================================

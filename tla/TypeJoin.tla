------------------------------ MODULE TypeJoin ------------------------------
(***************************************************************************)
(* The static types of the language and the two functions of them that the *)
(* compiler, the inference and the runtime share: the common type of two   *)
(* operands (impl Add for Type) and the layout of a value in memory        *)
(* (align, storage_width, struct_layout).  A type is a tuple headed by its *)
(* constructor: <<"I32">>, <<"Array", elem, n>>, <<"Struct", fields>>.     *)
(***************************************************************************)
EXTENDS Naturals, Sequences
LOCAL INSTANCE Bitwise

AnyTy == <<"Any">>
Void == <<"Void">>
Bool == <<"Bool">>
Str == <<"Str">>
MapTy == <<"Map">>
Scalar(name) == <<name>>
ListOf(elem) == <<"List", elem>>
ArrayOf(elem, n) == <<"Array", elem, n>>
StructOf(fields) == <<"Struct", fields>>

IsAny(t) == t = AnyTy
IsInt(t) == t[1] \in {"I8", "I16", "I32", "I64"}
IsUint(t) == t[1] \in {"U8", "U16", "U32", "U64"}
IsFloat(t) == t[1] \in {"F16", "F32", "F64"}

MaxOf(a, b) == IF a >= b THEN a ELSE b
\* (value + align - 1) & !(align - 1): right only for the powers of two.
AlignUp(value, align) == LET top == value + align - 1
                         IN  IF align <= 1 THEN value ELSE top - (top & (align - 1))

(***************************************************************************)
(* storage_width, align and struct_layout call one another: a struct may   *)
(* hold structs and arrays of structs.                                     *)
(***************************************************************************)
RECURSIVE StorageWidth(_), StructLayout(_)
StorageWidth(t) ==
    CASE t[1] = "Void" -> 0
      [] t[1] \in {"Bool", "U8", "I8"} -> 1
      [] t[1] \in {"U16", "I16", "F16"} -> 2
      [] t[1] \in {"U32", "I32", "F32"} -> 4
      [] t[1] = "Struct" -> StructLayout(t[2]).size
      [] t[1] \in {"Array", "Vec"} -> t[3] * StorageWidth(t[2])
      [] OTHER -> 8

AlignOf(t) == LET w == StorageWidth(t)
              IN  MaxOf(1, IF w <= 8 THEN w ELSE 8)

\* The offset of every field and the size of the whole: a struct is aligned
\* to eight bytes whatever its fields are.
StructLayout(fields) ==
    LET Place[i \in 0 .. Len(fields)] ==
            IF i = 0 THEN [end |-> 0, offsets |-> << >>]
            ELSE LET at == AlignUp(Place[i - 1].end, AlignOf(fields[i]))
                 IN  [end |-> at + StorageWidth(fields[i]),
                      offsets |-> Append(Place[i - 1].offsets, at)]
    IN  [size |-> AlignUp(Place[Len(fields)].end, 8),
         offsets |-> Place[Len(fields)].offsets]

SignedOf(w) == Scalar(CASE w = 1 -> "I8" [] w = 2 -> "I16" [] w = 4 -> "I32" [] OTHER -> "I64")
UnsignedOf(w) == Scalar(CASE w = 1 -> "U8" [] w = 2 -> "U16" [] w = 4 -> "U32" [] OTHER -> "U64")

(***************************************************************************)
(* The common type of two operands, first rule that fits.                  *)
(***************************************************************************)
Join(a, b) ==
    LET w == MaxOf(StorageWidth(a), StorageWidth(b))
    IN  IF a = b THEN a
        ELSE IF Str \in {a, b} THEN Str
        ELSE IF IsAny(a) \/ IsAny(b) THEN AnyTy
        ELSE IF IsFloat(a) \/ IsFloat(b)
             THEN Scalar(IF Scalar("F64") \in {a, b} THEN "F64" ELSE "F32")
        ELSE IF IsInt(a) \/ IsInt(b) THEN SignedOf(w)
        ELSE IF IsUint(a) \/ IsUint(b) THEN UnsignedOf(w)
        ELSE AnyTy
=============================================================================

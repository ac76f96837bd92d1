----------------------------- MODULE Arithmetic -----------------------------
(***************************************************************************)
(* One binary operation of a script, and the four ways it may be carried   *)
(* out.  Which one is taken depends on nothing the author of the script    *)
(* sees: whether the operands are literals, are typed, or came through a   *)
(* parameter, a map or a list.                                             *)
(*                                                                         *)
(*   fold  both are literals: the compiler folds them (Expr::compact, on   *)
(*         the operators of Dynamic);                                      *)
(*   regs  both have static types: machine instructions on the joined type *)
(*         (binary_with_expected);                                         *)
(*   imm   the left one is typed and the right one an integer or boolean   *)
(*         literal: instructions with an immediate (binary_imm);           *)
(*   boxed both are of type Any: they are boxed, and the runtime calls     *)
(*         Expr::compact on the boxes (any_binary, any_logic).             *)
(*                                                                         *)
(* A value is a kind and a number.  The integers are scaled down (Bits):   *)
(* only the order of the widths and their wrapping matter.  A float stands *)
(* for a number of the precision Mantissa, and an operation on floats for  *)
(* itself: the hardware and the runtime round alike.                       *)
(***************************************************************************)
EXTENDS Integers, TypeJoin
LOCAL INSTANCE Bitwise
LOCAL INSTANCE FiniteSetsExt

CONSTANTS Kinds,     \* the types of the operands
          Bits,      \* the bits of an integer of a given width in bytes
          Mantissa   \* the bits of precision of a float of a given width

ASSUME ScaledWidths == \A w \in DOMAIN Bits : Bits[w] \in {2, 4, 8}

VARIABLES op, left, right,  \* the operation of the script
          out               \* what each route makes of it, when carried out

vars == <<op, left, right, out>>

Val(k, v) == [k |-> k, v |-> v]
Fault == Val("Fault", 0)      \* the fault flag is set, the value is Null or 0
Null == Val("Null", 0)
Refused == Val("Refused", 0)  \* no code: an error or a panic of the compiler
Trap == Val("Trap", 0)        \* a hardware trap, which ends the process
Truth(b) == Val("Bool", IF b THEN 1 ELSE 0)

Arith == {"Add", "Sub", "Mul", "Div", "Mod"}
Shifts == {"Shl", "Shr"}
BitOps == {"BitAnd", "BitOr", "BitXor"}
Compares == {"Eq", "Ne", "Lt", "Le", "Gt", "Ge"}
Logics == {"And", "Or"}

Signed(k) == IsInt(<<k>>)
Integral(k) == IsInt(<<k>>) \/ IsUint(<<k>>)
Float(k) == IsFloat(<<k>>)
NumBits(k) == Bits[StorageWidth(<<k>>)]
Lo(k) == IF Signed(k) THEN -(2 ^ (NumBits(k) - 1)) ELSE 0
Hi(k) == IF Signed(k) THEN 2 ^ (NumBits(k) - 1) - 1 ELSE 2 ^ NumBits(k) - 1
InRange(n, k) == Lo(k) <= n /\ n <= Hi(k)
Wrap(n, k) == LET m == n % 2 ^ NumBits(k) IN IF m > Hi(k) THEN m - 2 ^ NumBits(k) ELSE m
JoinKind(x, y) == Join(<<x.k>>, <<y.k>>)[1]

(* The division of the machine and of Rust, which rounds towards zero.     *)
Size(n) == IF n < 0 THEN -n ELSE n
Quot(a, b) == LET q == Size(a) \div Size(b) IN IF (a < 0) = (b < 0) THEN q ELSE -q
Exact(o, a, b) == CASE o = "Add" -> a + b
                    [] o = "Sub" -> a - b
                    [] o = "Mul" -> a * b
                    [] o = "Div" -> Quot(a, b)
                    [] o = "Mod" -> a - b * Quot(a, b)
BitOf(o, a, b, k) == LET m == a % 2 ^ NumBits(k)
                         n == b % 2 ^ NumBits(k)
                     IN  Wrap(CASE o = "BitAnd" -> m & n
                                [] o = "BitOr" -> m | n
                                [] o = "BitXor" -> m ^^ n, k)
Holds(o, a, b) == CASE o = "Lt" -> a < b
                    [] o = "Le" -> a <= b
                    [] o = "Gt" -> a > b
                    [] o = "Ge" -> a >= b

(* The nearest number of the precision of a float, cut off; -0 and NaN are *)
(* left out.                                                               *)
Round(n, k) ==
    LET p == 2 ^ Mantissa[StorageWidth(<<k>>)]
        step == Min({s \in {1, 2, 4, 8, 16, 32, 64} : Size(n) < p * s})
    IN  Quot(n, step) * step
FloatOp(o, a, b, k) == Val(k, <<o, Round(a, k), Round(b, k)>>)

(***************************************************************************)
(* The operators of Dynamic.                                               *)
(***************************************************************************)
\* as_int: a U64 above the largest I64 has none.
HasInt(x) == Integral(x.k) /\ x.v <= Hi("I64")
AsFloat(x) == IF x.k = "Bool" THEN 0 ELSE x.v

\* The checked operations of i64 and u64: the remainder is refused where the
\* quotient overflows.
Checked(o, a, b, k) ==
    IF o \in {"Div", "Mod"} /\ b = 0 THEN Fault
    ELSE IF ~InRange(Exact(IF o = "Mod" THEN "Div" ELSE o, a, b), k) THEN Fault
    ELSE Val(k, Exact(o, a, b))

IntegerRule(o, x, y) ==
    IF Signed(x.k) \/ Signed(y.k)
    THEN IF HasInt(x) /\ HasInt(y) THEN Checked(o, x.v, y.v, "I64") ELSE Fault
    ELSE IF Integral(x.k) \/ Integral(y.k)
    THEN IF Integral(x.k) /\ Integral(y.k) THEN Checked(o, x.v, y.v, "U64") ELSE Fault
    ELSE x

\* Addition and multiplication take a float on either side, subtraction and
\* division on both or none, the remainder none.
DynArith(o, x, y) ==
    LET floats == {k \in {x.k, y.k} : Float(k)}
        wide == IF "F64" \in floats THEN "F64" ELSE "F32"
    IN  IF \/ o \in {"Add", "Mul"} /\ floats # {}
           \/ o \in {"Sub", "Div"} /\ Float(x.k) /\ Float(y.k)
        THEN FloatOp(o, AsFloat(x), AsFloat(y), wide)
        ELSE IntegerRule(o, x, y)

\* The shift is of the left operand, in its own width.
DynShift(o, x, y) ==
    IF ~(Integral(y.k) /\ y.v >= 0) THEN Fault
    ELSE IF ~Integral(x.k) THEN Val("I64", 0)
    ELSE IF y.v >= NumBits(x.k) THEN Fault
    ELSE Val(x.k, IF o = "Shl" THEN Wrap(x.v * 2 ^ y.v, x.k) ELSE x.v \div 2 ^ y.v)

\* Type::force refuses what the joined type cannot hold.
DynBits(o, x, y) ==
    LET k == JoinKind(x, y)
        Forced(z) == k = z.k \/ Float(k) \/ (Integral(z.k) /\ InRange(z.v, k))
    IN  IF ~(Forced(x) /\ Forced(y)) THEN Fault
        ELSE IF Integral(k) THEN Val(k, BitOf(o, x.v, y.v, k)) ELSE Null

DynEqual(x, y) ==
    \/ x.k = y.k /\ x.v = y.v
    \/ /\ x.k # y.k
       /\ \/ Integral(x.k) /\ Integral(y.k) /\ HasInt(x) = HasInt(y)
          \/ Float(x.k) /\ Float(y.k)
       /\ x.v = y.v

DynCompare(o, x, y) ==
    CASE o = "Eq" -> Truth(DynEqual(x, y))
      [] o = "Ne" -> Truth(~DynEqual(x, y))
      [] OTHER -> LET number == Integral(x.k) \/ Integral(y.k) \/ Float(x.k) \/ Float(y.k)
                      Rank(z) == IF number THEN AsFloat(z) ELSE z.v
                  IN  Truth(Holds(o, Rank(x), Rank(y)))

\* Expr::compact on two values.
Dyn(o, x, y) ==
    CASE o \in Arith -> DynArith(o, x, y)
      [] o \in Shifts -> DynShift(o, x, y)
      [] o \in BitOps -> DynBits(o, x, y)
      [] o \in Compares -> DynCompare(o, x, y)
      [] o = "And" -> Truth(x = Truth(TRUE) /\ y = Truth(TRUE))
      [] o = "Or" -> Truth(x = Truth(TRUE) \/ y = Truth(TRUE))

(***************************************************************************)
(* The generated code.                                                     *)
(***************************************************************************)
\* convert: an integer is extended by the sign of its own type and cut to the
\* width of the other; between the signs of one width its bits are kept.
ConvertUnsigned(x, k) ==  \* mutant
    Val(k, IF Float(k) THEN Round(x.v, k)
           ELSE IF x.k = k \/ ~Integral(k) THEN x.v
           ELSE Wrap(x.v % 2 ^ NumBits(x.k), k))
Convert(x, k) == Val(k, IF Float(k) THEN Round(x.v, k)
                        ELSE IF Integral(k) THEN Wrap(x.v, k) ELSE x.v)

\* A signed integer becomes an I64, an unsigned one too unless it is a U64.
ToAny(x) == CASE Integral(x.k) -> Val(IF x.k = "U64" THEN "U64" ELSE "I64", x.v)
              [] Float(x.k) -> Val("F64", x.v)
              [] OTHER -> x

\* short_circuit_logic, on bool_value or any_to_bool of each operand.
ShortCircuit(o, x, y) == Truth(IF o = "And" THEN x.v # 0 /\ y.v # 0 ELSE x.v # 0 \/ y.v # 0)

Boxed(o, x, y) == IF o \in Logics THEN ShortCircuit(o, x, y) ELSE Dyn(o, ToAny(x), ToAny(y))

\* guarded_idiv: the divisors the machine would trap on are tested before.
GuardedIdiv(o, a, b, k) ==
    IF b = 0 \/ (Signed(k) /\ a = Lo(k) /\ b = -1) THEN Fault
    ELSE Val(k, Exact(o, a, b))

\* The machine masks the amount of a shift to the width.
MachineShift(o, a, b, k) ==
    LET s == b % NumBits(k)
    IN  Val(k, IF o = "Shl" THEN Wrap(a * 2 ^ s, k) ELSE a \div 2 ^ s)

MachineCompare(o, a, b) == Truth(CASE o = "Eq" -> a = b
                                   [] o = "Ne" -> a # b
                                   [] OTHER -> Holds(o, a, b))

\* What no instruction is chosen for is boxed and given to Dynamic.
Registers(o, x, y) ==
    LET k == JoinKind(x, y)
        a == Convert(x, k)
        b == Convert(y, k)
    IN  CASE o \in Logics -> ShortCircuit(o, x, y)
          [] o \in {"Add", "Sub", "Mul"} /\ Integral(k) -> Val(k, Wrap(Exact(o, a.v, b.v), k))
          [] o \in {"Div", "Mod"} /\ Integral(k) -> GuardedIdiv(o, a.v, b.v, k)
          [] o \in Arith \ {"Mod"} /\ Float(k) -> FloatOp(o, a.v, b.v, k)
          [] o \in Shifts /\ Integral(k) -> MachineShift(o, a.v, b.v, k)
          [] o \in BitOps /\ Float(k) -> Val(k, <<o, a.v, b.v>>)
          [] o \in BitOps -> Val(k, BitOf(o, a.v, b.v, k))
          [] o \in Compares /\ (Integral(k) \/ Float(k) \/ o \in {"Eq", "Ne"}) ->
                MachineCompare(o, a.v, b.v)
          [] OTHER -> Boxed(o, a, b)

\* idiv_imm looks at the literal as it is written, and not at the bits the
\* instruction gets of it.
IdivImm(o, a, literal, k) ==
    LET b == Wrap(literal, k)
    IN  IF literal = 0 THEN Fault
        ELSE IF Signed(k) /\ literal = -1 THEN GuardedIdiv(o, a, -1, k)
        ELSE IF b = 0 \/ (Signed(k) /\ a = Lo(k) /\ b = -1) THEN Trap
        ELSE Val(k, Exact(o, a, b))

\* The right operand is a literal: as_int refuses a U64 that no I64 holds.
Immediate(o, x, y) ==
    LET k == JoinKind(x, y)
        a == Convert(x, k)
        b == Convert(y, k)
    IN  CASE o \in Logics -> ShortCircuit(o, x, y)
          [] o \in Arith \ {"Mod"} /\ Float(k) -> FloatOp(o, a.v, b.v, k)
          [] o \in BitOps /\ ~(Integral(k) /\ HasInt(y)) -> Refused
          [] Integral(k) /\ ~HasInt(y) -> Refused
          [] o \in {"Add", "Sub", "Mul"} /\ Integral(k) -> Val(k, Wrap(Exact(o, a.v, y.v), k))
          [] o \in {"Div", "Mod"} /\ Integral(k) -> IdivImm(o, a.v, y.v, k)
          [] o \in Shifts /\ Integral(k) -> MachineShift(o, a.v, y.v, k)
          [] o \in BitOps -> Val(k, BitOf(o, a.v, b.v, k))
          [] o \in Compares /\ (Integral(k) \/ Float(k) \/ o \in {"Eq", "Ne"}) ->
                MachineCompare(o, a.v, b.v)
          [] OTHER -> Boxed(o, a, y)

ByRoute(o, x, y) ==
    [fold |-> Dyn(o, x, y),
     regs |-> Registers(o, x, y),
     imm |-> IF Float(y.k) THEN Registers(o, x, y) ELSE Immediate(o, x, y),
     boxed |-> Boxed(o, x, y)]

(***************************************************************************)
(* The operands are the numbers of every kind at the edges of the kinds,   *)
(* two by two, and the pairs of booleans.                                  *)
(***************************************************************************)
Edges(k) == IF Float(k) THEN {-3, 0, 2, 5}
            ELSE {n \in {Lo(k), Lo(k) + 1, Hi(k) - 1, Hi(k)} \cup (-2 .. 3) \cup {Hi(j) : j \in Kinds}
                                 \cup {Hi(j) + 1 : j \in Kinds} : InRange(n, k)}
Numbers == UNION {{Val(k, n) : n \in Edges(k)} : k \in Kinds}
Booleans == {Truth(b) : b \in BOOLEAN}

None == << >>
Done == DOMAIN out # {}

Init == /\ op \in Arith \cup Shifts \cup BitOps \cup Compares \cup Logics
        /\ \/ left \in Numbers /\ right \in Numbers
           \/ left \in Booleans /\ right \in Booleans
        /\ out = None

CarryOut == /\ ~Done
            /\ out' = ByRoute(op, left, right)
            /\ UNCHANGED <<op, left, right>>

Next == CarryOut

Spec == Init /\ [][Next]_vars

(***************************************************************************)
(* Properties.                                                             *)
(***************************************************************************)
Joined == JoinKind(left, right)
BothIntegers == Integral(left.k) /\ Integral(right.k)
BothFloats == Float(left.k) /\ Float(right.k)
OneFloat == Float(left.k) # Float(right.k)

\* The two results are one number, or one fault.
SameNumber(x, y) == /\ x.k # y.k => \A z \in {x, y} : Integral(z.k) \/ Float(z.k)
                    /\ Float(x.k) = Float(y.k)
                    /\ x.v = y.v

\* The operands and the result are within the joined type, and within I64
\* where a box is one: only two U64 may pass above it.
InBounds ==
    LET Held(n) == InRange(n, Joined) /\ (n <= Hi("I64") \/ {left.k, right.k} = {"U64"})
    IN  /\ Held(left.v) /\ Held(right.v)
        /\ op \in Arith /\ (op \in {"Div", "Mod"} => right.v # 0) =>
              Held(Exact(IF op = "Mod" THEN "Div" ELSE op, left.v, right.v))
        /\ op \in Shifts =>
              /\ right.v \in 0 .. NumBits(left.k) - 1
              /\ op = "Shl" => Held(left.v * 2 ^ right.v) /\ InRange(left.v * 2 ^ right.v, left.k)

ExactFloats == \A z \in {left, right} : Round(z.v, Joined) = z.v

\* What the language is uniform about.  Left out are the cases the README
\* lists: a float with an integer under the operators that only one of the
\* routes converts for, the bits of floats and booleans, and the truth of a
\* number.
Uniform ==
    \/ BothIntegers /\ op \notin Logics /\ InBounds
    \/ BothFloats /\ op \notin Logics \cup BitOps /\ ExactFloats
    \/ OneFloat /\ op \in {"Add", "Mul", "Lt", "Le", "Gt", "Ge"} /\ ExactFloats
    \/ left.k = "Bool" /\ op \notin BitOps

\* The dynamic integer operators give the exact result or a fault, and fault
\* only where some number does not fit: the generated code wraps, they never do.
NeverWraps ==
    BothIntegers /\ op \in Arith =>
        \A r \in {out.fold, out.boxed} :
            IF r = Fault
            THEN \/ ~InRange(left.v, "I64") \/ ~InRange(right.v, "I64")
                 \/ op \in {"Div", "Mod"} /\ right.v = 0
                 \/ LET n == Exact(IF op = "Mod" THEN "Div" ELSE op, left.v, right.v)
                    IN  ~InRange(n, "I64") \/ (n < 0 /\ ~Signed(left.k) /\ ~Signed(right.k))
            ELSE r.v = Exact(op, left.v, right.v) /\ InRange(r.v, r.k)

\* A script whose numbers stay within their types computes the same whichever
\* way an operation is carried out: folding a literal, giving a parameter a
\* type or passing a number through a map changes no result.  And an immediate
\* is only a faster register, for every operation: when a literal is a value of
\* the joined type, the instruction with the literal in it wraps, faults and
\* compares as the one on two registers does, and never traps.  Outside their
\* types the dynamic operators fault: checked_i64, dynamic/src/ops.rs:39-248.
\* Code: dynamic/src/ops.rs, vm/src/binary.rs, vm/src/native.rs:1770.
RoutesAgree ==
    Done =>
        /\ Uniform => /\ SameNumber(out.fold, out.regs)
                      /\ SameNumber(out.boxed, out.regs)
                      /\ HasInt(right) \/ ~Integral(right.k) => SameNumber(out.imm, out.regs)
        /\ NeverWraps
        /\ Integral(Joined) /\ HasInt(right) /\ InRange(right.v, Joined) => out.imm = out.regs

\* "With a signed and an unsigned operand the join is signed, as the checked_i64
\* path of the runtime's ops.rs does" (dynamic/src/types.rs:94): it is not, for
\* the runtime widens to I64 where the code keeps the bits of the unsigned one.
MixedSignsAgree ==
    LET mixed == BothIntegers /\ Signed(left.k) # Signed(right.k)
        held == out.fold # Fault /\ InRange(out.fold.v, Joined)
    IN  Done /\ mixed /\ op = "Div" /\ held => SameNumber(out.fold, out.regs)
=============================================================================

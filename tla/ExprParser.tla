----------------------------- MODULE ExprParser -----------------------------
(***************************************************************************)
(* The expressions of parser/src/expr.rs: operators by weight.  The parser *)
(* keeps one complete left operand.  A heavier operator that follows takes *)
(* the right operand out of it again, unless the left one was closed by    *)
(* parentheses; a lighter one than the caller wants is given back.         *)
(*                                                                         *)
(* A text is a sequence of tokens, with the places where a line begins.    *)
(* An expression is printed with no more parentheses than the weights ask  *)
(* for, and parsed.                                                        *)
(***************************************************************************)
EXTENDS Integers, Sequences, FiniteSets, SequencesExt

CONSTANTS
  BinaryOps,     \* the operators taken into the texts
  UnaryOps,      \* and those of one operand
  MaxOps         \* bound: operators of an expression

VARIABLES
  tree,          \* an expression
  newline,       \* the token a new line begins with: 0 for none, one past the
                 \* last for the statement that follows
  parsed         \* what the parser makes of the text, or NotYet

Atom == [kind |-> "atom"]
Binary(op, l, r) == [kind |-> "binary", op |-> op, left |-> l, right |-> r]
Unary(op, e) == [kind |-> "unary", op |-> op, value |-> e]
If(c, t, e) == [kind |-> "if", cond |-> c, then |-> t, else |-> e]
Open(l) == [kind |-> "open", start |-> l]         \* a[l ..], the index of a

Assigns == {"=", "+="}
Ranges == {"..", "..="}

Weight(op) ==
  CASE op \in {"*", "/", "%"} -> 20
    [] op \in {"+", "-"} -> 19
    [] op \in {"<<", ">>"} -> 18
    [] op = "&" -> 17
    [] op = "^" -> 16
    [] op = "|" -> 15
    [] op \in {"==", "!=", "<", ">", "<=", ">="} -> 10
    [] op \in {"&&", "||"} -> 9
    [] op \in Ranges -> 5
    [] OTHER -> 0
UnaryWeight == Weight("*") + 1

-----------------------------------------------------------------------------
(* The expressions and their texts.                                        *)

RECURSIVE Trees(_)
Trees(n) ==
  IF n = 0 THEN {Atom}
  ELSE UNION {{Binary(op, l, r) : op \in BinaryOps, l \in Trees(k), r \in Trees(n - 1 - k)} : k \in 0 .. n - 1}
       \cup {Unary(op, e) : op \in UnaryOps, e \in Trees(n - 1)}
       \cup (IF n = 1 THEN {If(Atom, Atom, Atom)}
             ELSE UNION {{If(c, Atom, e), If(c, e, Atom), If(Atom, c, e)} :
                           c \in Trees(1), e \in Trees(n - 2)})

\* Only a name is assigned to here.
RECURSIVE Sensible(_)
Sensible(e) ==
  CASE e.kind = "atom" -> TRUE
    [] e.kind = "unary" -> Sensible(e.value)
    [] e.kind = "if" -> Sensible(e.cond) /\ Sensible(e.then) /\ Sensible(e.else)
    [] OTHER -> Sensible(e.left) /\ Sensible(e.right) /\ (e.op \in Assigns => e.left = Atom)

\* The weight an expression has as an operand.
Binding(e) ==
  CASE e.kind = "atom" -> UnaryWeight + 1
    [] e.kind = "unary" -> UnaryWeight
    [] e.kind = "if" -> -1
    [] OTHER -> Weight(e.op)

\* Operators of one weight associate to the left, assignments to the right.
RECURSIVE TextOf(_, _)
TextOf(e, least) ==
  LET T(x, w) == TextOf(x, w)
      text == CASE e.kind = "atom" -> <<"a">>
                [] e.kind = "unary" -> <<e.op>> \o T(e.value, UnaryWeight)
                [] e.kind = "if" -> T(e.cond, 1) \o <<"?">> \o T(e.then, -1) \o <<":">> \o T(e.else, -1)
                [] e.kind = "open" -> <<"a", "[">> \o T(e.start, Weight("..") + 1) \o <<"..", "]">>
                [] e.kind = "binary" /\ e.op \in Assigns -> T(e.left, 1) \o <<e.op>> \o T(e.right, -1)
                [] OTHER -> T(e.left, Weight(e.op)) \o <<e.op>> \o T(e.right, Weight(e.op) + 1)
  IN  IF e.kind # "open" /\ Binding(e) < least THEN <<"(">> \o text \o <<")">> ELSE text

-----------------------------------------------------------------------------
(* The parser.                                                             *)

Got(e, closed, pos) == [expr |-> e, closed |-> closed, pos |-> pos]
Nothing == Got([kind |-> "none"], FALSE, 0)
Error == Got([kind |-> "error"], FALSE, 0)
Failed(r) == r = Error

AllOps == {"*", "/", "%", "+", "-", "<<", ">>", "&", "^", "|", "==", "!=", "<", ">", "<=", ">=",
           "&&", "||", "..", "..=", "=", "+="}

\* The first characters that continue an expression on the next line.
Continues(token) ==
  token \in {"?", ":", "[", "!"} \cup (AllOps \ {"^"})

\* Mutant of Reopens: an operator of the same weight takes the right operand too.
ReopensSame(left, op) == ~ left.closed /\ left.expr.kind = "binary" /\ Weight(left.expr.op) <= Weight(op)

\* The operator takes the right operand out of the expression on its left.
Reopens(left, op) == ~ left.closed /\ left.expr.kind = "binary" /\ Weight(left.expr.op) < Weight(op)

RECURSIVE Parse(_, _, _, _, _, _)

\* What stands between brackets from pos on, if the closing one is there.
Between(text, lines, pos, close, closed) ==
  LET inner == Parse(text, lines, Nothing, "none", 0, pos)
  IN  IF ~ Failed(inner) /\ inner.pos <= Len(text) /\ text[inner.pos] = close
      THEN Got(inner.expr, closed, inner.pos + 1)
      ELSE Error

IsUnary(token, wantsOperand) == token = "!" \/ (token = "-" /\ wantsOperand)

\* An operand: in parentheses, with a sign, or a name, which takes its index.
Operand(text, lines, token, wants, pos) ==
  CASE token = "(" -> Between(text, lines, pos + 1, ")", TRUE)
    [] IsUnary(token, wants) ->
         LET value == Parse(text, lines, Nothing, "none", UnaryWeight, pos + 1)
         IN  IF Failed(value) THEN Error ELSE Got(Unary(token, value.expr), FALSE, value.pos)
    [] token = "a" ->
         IF pos < Len(text) /\ pos + 1 \notin lines /\ text[pos + 1] = "["
         THEN Between(text, lines, pos + 2, "]", FALSE)
         ELSE Got(Atom, FALSE, pos + 1)
    [] OTHER -> Error

\* What is left of "?" chooses between the two that follow.
Choice(text, lines, left, pos) ==
  LET then == Parse(text, lines, Nothing, "none", 0, pos + 1)
      else == Parse(text, lines, Nothing, "none", 0, then.pos + 1)
      complete == ~ Failed(then) /\ then.pos <= Len(text) /\ text[then.pos] = ":" /\ ~ Failed(else)
  IN  IF complete THEN Got(If(left.expr, then.expr, else.expr), TRUE, else.pos) ELSE Error

\* The operator at pos, after left: an open range is complete, a lighter operator
\* is the caller's, ranges and assignments take all they can on their right, any
\* other operator waits for its operand.
Operator(text, lines, left, leftOp, least, pos) ==
  LET op == text[pos]
      Rest(e, p) == Parse(text, lines, Got(e, FALSE, p), "none", least, p)
      With(l, wanted) == Parse(text, lines, Got(l, FALSE, pos), op, wanted, pos + 1)
  IN  IF op = ".." /\ pos < Len(text) /\ text[pos + 1] = "]" THEN Got(Open(left.expr), FALSE, pos + 1)
      ELSE IF Weight(op) < least THEN Got(left.expr, left.closed, pos)
      ELSE IF op \in Ranges \cup Assigns THEN
        LET wanted == IF op \in Ranges THEN Weight(op) + 1 ELSE 0
            right == Parse(text, lines, Nothing, "none", wanted, pos + 1)
        IN  IF Failed(right) THEN Error ELSE Rest(Binary(op, left.expr, right.expr), right.pos)
      ELSE IF leftOp # "none" THEN Error
      ELSE IF Reopens(left, op) THEN
        LET right == With(left.expr.right, Weight(op))
            e == left.expr
        IN  IF Failed(right) THEN Error ELSE Rest(Binary(e.op, e.left, right.expr), right.pos)
      ELSE With(left.expr, least)

\* expr_with_min_weight: the expression from pos on, of which left and leftOp
\* have been read, as far as operators weigh at least `least`.
Parse(text, lines, left, leftOp, least, pos) ==
  LET hasLeft == left # Nothing
      complete == hasLeft /\ leftOp = "none"
      wants == ~ complete
      token == IF pos > Len(text) THEN "end" ELSE text[pos]
      operand == Operand(text, lines, token, wants, pos)
      Rest(e, closed) == Parse(text, lines, Got(e, closed, operand.pos), "none", least, operand.pos)
  IN  IF complete /\ pos \in lines /\ ~ Continues(token) THEN Got(left.expr, FALSE, pos)
      ELSE IF token = "end" THEN IF hasLeft THEN left ELSE Error
      ELSE IF complete /\ token = "?" /\ least = 0 THEN Choice(text, lines, left, pos)
      ELSE IF token \in AllOps /\ ~ IsUnary(token, wants) THEN
        IF hasLeft THEN Operator(text, lines, left, leftOp, least, pos) ELSE Error
      ELSE IF complete THEN IF Failed(operand) THEN Got(left.expr, FALSE, pos) ELSE Error
      ELSE IF Failed(operand) THEN Error
      ELSE IF hasLeft THEN Rest(Binary(leftOp, left.expr, operand.expr), FALSE)
      ELSE Rest(operand.expr, operand.closed)

-----------------------------------------------------------------------------
NotYet == Got([kind |-> "not yet"], FALSE, 0)

TreesOf(n) == {e \in Trees(n) : Sensible(e)}
Text == TextOf(tree, -1)

\* A new line may begin anywhere but where the code ends the expression: before
\* "^", and between a name and its index.  The open ranges are those of a name
\* and of one operator between names.
InitText ==
  /\ \/ \E n \in 0 .. MaxOps : tree \in TreesOf(n)
     \/ tree \in {Open(e) : e \in {e \in TreesOf(0) \cup TreesOf(1) : e.kind # "unary" /\ Binding(e) > 0}}
  /\ newline \in {0, Len(Text) + 1} \cup {p \in 2 .. Len(Text) : Text[p] \notin {"^", "["}}
  /\ parsed = NotYet

\* The statement that follows assigns to a name.
ParseText ==
  LET more == IF newline = Len(Text) + 1 THEN Text \o <<"a", "=", "a">> ELSE Text
  IN  /\ parsed = NotYet
      /\ parsed' = Parse(more, {newline}, Nothing, "none", 0, 1)
      /\ UNCHANGED <<tree, newline>>

SpecText == InitText /\ [][ParseText]_<<tree, newline, parsed>>

\* What is written with the parentheses the weights ask for is parsed as it was
\* meant, wherever a line is broken, and no token of the next statement is
\* taken.
TextParsesBack ==
  parsed # NotYet => parsed.expr = tree /\ parsed.pos = Len(Text) + 1
=============================================================================

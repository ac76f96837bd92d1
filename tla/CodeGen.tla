------------------------------ MODULE CodeGen -------------------------------
(***************************************************************************)
(* The code the JIT makes of a lowered function: basic blocks of           *)
(* instructions, each ended by a jump, a branch or a return.               *)
(*                                                                         *)
(* The builder goes through the operators as a record:                     *)
(*   blocks  the code; cur is the block being filled                       *)
(*   vars    per slot None, a value <<"val", r>> or a variable <<"var", r>>*)
(*   regs    how many registers are in use: values and variables alike     *)
(*   val     the value last made;  vals  the registers of the last list    *)
(*   ended   the statement last generated leaves no way on                 *)
(*   stack   the functions being inlined;  budget  what may be inlined yet *)
(*   bad     refused: an instruction after the end of its block, a value   *)
(*           that is not there, an inlined function that may not return    *)
(* A parameter of a block is a register its predecessors set.              *)
(*                                                                         *)
(* All values are of type Any.  Left out: the scope of temporaries, which  *)
(* ScriptThread has, closures, methods and fields.                         *)
(***************************************************************************)
EXTENDS Lowering

None == <<"none">>
Natives == {"emit", "ask", "items"}     \* functions of the host

MaxInlineDepth == 4
MaxInlineWeight == 64
InlineBudget == 256

BuilderOf(params) ==
    [blocks |-> << << >> >>, cur |-> 1, vars |-> [i \in 1..params |-> <<"val", i>>],
     regs |-> params, val |-> None, vals |-> << >>, ended |-> FALSE,
     stack |-> << >>, budget |-> InlineBudget, bad |-> FALSE]

Ends == {"jump", "branch", "return"}
Filled(c) == c.blocks[c.cur] # << >> /\ Last(c.blocks[c.cur]).op \in Ends

\* One more instruction in the current block.
Push(c, op, to, x, in) ==
    [c EXCEPT !.blocks[c.cur] = Append(@, [op |-> op, to |-> to, x |-> x, in |-> in]),
              !.bad = @ \/ Filled(c)]
Emit(c, op, x, in) ==
    [Push(c, op, c.regs + 1, x, in) EXCEPT !.regs = @ + 1, !.val = <<"val", c.regs + 1>>]
Move(c, to, from) == Push(c, "move", to, 0, <<from>>)
Jump(c, b) == Push(c, "jump", 0, <<b>>, << >>)
Reg(c) == c.val[2]
Branch(c, yes, no) == Push(c, "branch", 0, <<yes, no>>, <<Reg(c)>>)

NewBlocks(c, n) == [c EXCEPT !.blocks = @ \o [i \in 1..n |-> << >>]]
At(c, b) == [c EXCEPT !.cur = b, !.ended = FALSE]

\* LocalVar::get: the value of a variable at this point.
Get(c) ==
    CASE c.val[1] = "var" -> Emit(c, "move", 0, <<c.val[2]>>)
      [] c.val[1] = "none" -> Emit([c EXCEPT !.bad = TRUE], "const", Null, << >>)
      [] OTHER -> c

\* get_var and set_var.  A slot that is no variable yet becomes one.
VarOf(c, slot) == IF slot < Len(c.vars) THEN c.vars[slot + 1] ELSE None
Read(c, slot) == Get([c EXCEPT !.val = VarOf(c, slot)])
SetVar(c, slot, r) ==
    LET grown == IF slot < Len(c.vars) THEN c.vars
                 ELSE c.vars \o [i \in 1..(slot + 1 - Len(c.vars)) |-> None]
        v == IF VarOf(c, slot)[1] = "var" THEN VarOf(c, slot)[2] ELSE c.regs + 1
    IN  [Move(c, v, r) EXCEPT !.vars = [grown EXCEPT ![slot + 1] = <<"var", v>>],
                              !.regs = IF v > @ THEN v ELSE @]

\* assign: its result is the variable's new value.
AssignTo(c, slot) == Read(SetVar(c, slot, Reg(c)), slot)

(***************************************************************************)
(* declare_assigned_vars: before a branch or a loop every variable that is *)
(* assigned inside is given a place, so that all paths use the same one.   *)
(***************************************************************************)
Assigned(s) == s.k = "expr" /\ s.es[1].k = "op" /\ s.es[1].x \in Assigns /\ s.es[1].es[1].k = "var"

DeclareSlotNew(c, slot) ==      \* mutant: a value is taken for declared
    IF VarOf(c, slot) # None THEN c
    ELSE LET z == Emit(c, "const", Unset, << >>) IN SetVar(z, slot, Reg(z))

DeclareSlot(c, slot) ==
    CASE VarOf(c, slot)[1] = "var" -> c
      [] VarOf(c, slot)[1] = "val" -> SetVar(c, slot, VarOf(c, slot)[2])
      [] OTHER -> LET z == Emit(c, "const", Unset, << >>) IN SetVar(z, slot, Reg(z))

RECURSIVE Declare(_, _)
Declare(c, stmts) ==
    IF c.bad \/ stmts = << >> THEN c
    ELSE LET s == Head(stmts)
         IN  Declare(IF Assigned(s) THEN DeclareSlot(c, s.es[1].es[1].x) ELSE Declare(c, s.ss),
                     Tail(stmts))
-----------------------------------------------------------------------------
(***************************************************************************)
(* What may be inlined: inline_stmt_weight and inline_stmt_returns_value.  *)
(***************************************************************************)
TooHeavy == 1000        \* no weight at all

RECURSIVE Weight(_), HasReturn(_)
Weights(ns) == FoldLeft(LAMBDA w, n : w + Weight(n), 0, ns)
HasReturn(s) == s.k = "return" \/ \E i \in DOMAIN s.ss : HasReturn(s.ss[i])
Weight(n) ==
    CASE n.k \in {"while", "loop", "for", "forany", "forlist"} ->
            IF HasReturn(n.ss[1]) THEN TooHeavy ELSE 16 + Weights(n.ss)
      [] n.k = "return" /\ n.es = << >> -> TooHeavy
      [] n.k \in {"break", "continue"} -> TooHeavy
      [] OTHER -> 1 + Weights(n.es) + Weights(n.ss)

RECURSIVE ReturnsValue(_)
ReturnsValue(s) ==
    CASE s.k = "return" -> s.es # << >>
      [] s.k = "expr" -> ~ s.x
      [] s.k = "block" -> \E i \in DOMAIN s.ss : ReturnsValue(s.ss[i])
      [] s.k = "if" -> Len(s.ss) = 2 /\ \A i \in DOMAIN s.ss : ReturnsValue(s.ss[i])
      [] OTHER -> FALSE

Inlinable(c, id, fn) ==
    /\ Len(c.stack) < MaxInlineDepth
    /\ ~ \E i \in DOMAIN c.stack : c.stack[i] = id
    /\ ReturnsValue(fn.body)
    /\ Weight(fn.body) <= MaxInlineWeight
    /\ Weight(fn.body) <= c.budget
-----------------------------------------------------------------------------
(***************************************************************************)
(* Expressions.  F is the function table of the program: lowered bodies.   *)
(* GenEach leaves the registers of its expressions in vals.                *)
(***************************************************************************)
RECURSIVE Gen(_, _, _, _), GenMore(_, _, _, _), GenStmts(_, _, _, _)

Nowhere == [brk |-> 0, cont |-> 0, exit |-> 0, join |-> 0]

GenMore(F, c, es, before) ==
    IF es = << >> THEN [c EXCEPT !.vals = before, !.ended = FALSE]
    ELSE LET r == Get(Gen(F, c, Head(es), Nowhere))
         IN  GenMore(F, r, Tail(es), Append(before, Reg(r)))
GenEach(F, c, es) == GenMore(F, c, es, << >>)

\* gen_stmt takes every statement of a block, gen_inline_stmt stops at the
\* first that returns.
GenStmts(F, c, stmts, to) ==
    IF c.bad \/ stmts = << >> \/ (to.exit # 0 /\ c.ended) THEN c
    ELSE GenStmts(F, Gen(F, c, Head(stmts), to), Tail(stmts), to)

\* short_circuit_logic: the right side has a block of its own, n + 1; the
\* other way the constant is taken, in n + 2.
Constant(c, v) == Emit(c, "const", v, << >>)
Into(c, to, b) == Jump(Move(c, to, Reg(c)), b)
ShortLeft(c, and, n) ==
    Branch([NewBlocks(c, 3) EXCEPT !.regs = @ + 1],
           IF and THEN n + 1 ELSE n + 2, IF and THEN n + 2 ELSE n + 1)
ShortRight(c, and, n, join) ==
    [At(Into(Constant(At(Into(c, join, n + 3), n + 2), Bit(~ and)), join, n + 3), n + 3)
        EXCEPT !.val = <<"val", join>>]
Short(F, c, right, and) ==
    ShortRight(GenEach(F, At(ShortLeft(c, and, Len(c.blocks)), Len(c.blocks) + 1), <<right>>),
               and, Len(c.blocks), c.regs + 1)

\* try_inline_call: the body in place, its returns jumps to the exit.
Outside(g, c) ==
    [At(g, Len(c.blocks) + 1) EXCEPT
        !.vars = c.vars, !.stack = c.stack, !.budget = c.budget,
        !.bad = @ \/ ~ g.ended, !.val = <<"val", c.regs + 1>>]
Inside(c, id, weight) ==
    [NewBlocks(c, 1) EXCEPT
        !.vars = [i \in DOMAIN c.vals |-> <<"val", c.vals[i]>>], !.regs = @ + 1,
        !.stack = Append(@, id), !.budget = @ - weight, !.ended = FALSE]
Inline(F, c, id) ==
    Outside(Gen(F, Inside(c, id, Weight(F[id].body)), F[id].body,
                [Nowhere EXCEPT !.exit = Len(c.blocks) + 1, !.join = c.regs + 1]), c)

\* call_fn: the arguments are there; then the call or the body itself.
CallFn(F, c, id) ==
    CASE id \in Natives -> Emit(c, id, 0, c.vals)
      [] id \notin Natives /\ Inlinable(c, id, F[id]) -> Inline(F, c, id)
      [] OTHER -> Emit(c, "call", id, c.vals)

\* eval: c has the operands.
ExprOf(F, c, e) ==
    CASE e.k \in {"num", "bool"} -> Constant(c, e.x)
      [] e.k = "var" -> [c EXCEPT !.val = VarOf(c, e.x)]
      [] e.k = "op" /\ e.x = "=" -> AssignTo(c, e.es[1].x)
      [] e.k = "op" /\ e.x \in Assigns \ {"="} -> AssignTo(Emit(c, "op", e.x, c.vals), e.es[1].x)
      [] e.k = "op" /\ e.x \in {"&&", "||"} -> Short(F, c, e.es[2], e.x = "&&")
      [] e.k = "op" /\ e.x \notin Assigns \cup {"&&", "||"} -> Emit(c, "op", e.x, c.vals)
      [] e.k = "call" -> CallFn(F, c, e.x)
      [] OTHER -> Emit(c, e.k, 0, c.vals)

First(e) ==
    CASE e.k = "op" /\ e.x = "=" -> Tail(e.es)
      [] e.k = "op" /\ e.x \in {"&&", "||"} -> <<e.es[1]>>
      [] OTHER -> e.es
-----------------------------------------------------------------------------
(***************************************************************************)
(* Statements.  "to" says where break and continue go and, in an inlined   *)
(* body, where a return goes.                                              *)
(***************************************************************************)
\* gen_inline_return, and return_value: without a value null is returned.
GenReturn(c, to) ==
    IF to.exit = 0 THEN Push(c, "return", 0, 0, <<Reg(c)>>) ELSE Into(c, to.join, to.exit)
NullUnless(c, to) ==
    IF c.vals # << >> THEN c ELSE [Constant(c, Null) EXCEPT !.bad = @ \/ to.exit # 0]

\* The branches of an if, in n + 1 and n + 2: the end is reached from those
\* that do not end.
Left(c, b) == IF c.ended THEN c ELSE Jump(c, b)
IfEnd(c, b, other) == IF other /\ c.ended THEN c ELSE At(Left(c, b), b)
GenElse(F, c, body, to, n) ==
    IfEnd(Gen(F, At(Left(c, n + 3), n + 2), body, to), n + 3, c.ended)
IfSplit(c, n, size) == Branch(NewBlocks(c, size + 1), n + 1, n + 2)
IfAt(F, c, bodies, to, n) ==
    IF Len(bodies) = 1
    THEN IfEnd(Gen(F, At(IfSplit(c, n, 1), n + 1), bodies[1], to), n + 2, FALSE)
    ELSE GenElse(F, Gen(F, At(IfSplit(c, n, 2), n + 1), bodies[1], to), bodies[2], to, n)

(***************************************************************************)
(* Loops: gen_loop and the three forms of for.  Each has its blocks: start *)
(* with the condition, fuel, body, cont with the step, end.                *)
(***************************************************************************)
Hold(c, slot) == SetVar(c, slot, Reg(c))       \* the value last made
ItemAt(c, list, i) == Emit(c, "op", "idx", <<list, i>>)
AddOne(c) == Emit(Constant(c, 1), "op", "+", <<Reg(c), c.regs + 1>>)

\* What is done once: the loop variable takes its first value, and what the
\* body assigns is declared, except in a loop over a dynamic value.  Bounds,
\* an iterator, or the list, its length and the index are left in vals.
Counter(c, list, zero) ==
    [Move(c, c.regs + 1, zero) EXCEPT !.vals = <<list, zero + 1, c.regs + 1>>, !.regs = @ + 1]
Prelude(c, s) ==
    CASE s.k = "for" -> Declare(SetVar(c, s.x, c.vals[1]), s.ss)
      [] s.k = "forany" ->
            [Hold(Emit(Emit(c, "iter", 0, c.vals), "next", 0, <<c.regs + 1>>), s.x)
                EXCEPT !.vals = <<c.regs + 1>>]
      [] s.k = "forlist" ->
            Counter(Declare(Hold(ItemAt(Emit(Constant(c, 0), "len", 0, c.vals), c.vals[1], c.regs + 1),
                                 s.x), s.ss), c.vals[1], c.regs + 1)
      [] OTHER -> Declare(c, s.ss)

\* The condition; h is what the prelude has left.
Below(c, bound) == Emit(c, "op", "<", <<Reg(c), bound>>)
IsThere(c) == Emit(Constant(c, Null), "op", "!=", <<Reg(c), c.regs + 1>>)
Test(F, c, s, h) ==
    CASE s.k = "while" -> GenEach(F, c, s.es)
      [] s.k = "for" -> Below(Read(c, s.x), h[2])
      [] s.k = "forany" -> IsThere(Read(c, s.x))
      [] OTHER -> Below([c EXCEPT !.val = <<"val", h[3]>>], h[2])

Item(c, s, h) == IF s.k = "forlist" THEN Hold(ItemAt(c, h[1], h[3]), s.x) ELSE c

MoveTo(c, r) == Move(c, r, Reg(c))
Step(c, s, h) ==
    CASE s.k = "for" -> Hold(AddOne(Read(c, s.x)), s.x)
      [] s.k = "forany" -> Hold(Emit(c, "next", 0, h), s.x)
      [] s.k = "forlist" -> MoveTo(AddOne([c EXCEPT !.val = <<"val", h[3]>>]), h[3])

ContinueAtTest(s, n) == IF s.k = "loop" THEN n + 2 ELSE n + 1       \* mutant

\* Where continue goes: past the body, not past the step.
ContinueBlock(s, n) ==
    CASE s.k = "while" -> n + 1
      [] s.k = "loop" -> n + 2
      [] OTHER -> n + 4

\* n blocks are before the loop's own: test, check, body, step and end.
GenTest(F, c, s, h, n) ==
    IF s.k = "loop" THEN c
    ELSE Branch(Test(F, At(c, n + 1), s, h), IF Fuelled(s) THEN n + 2 ELSE n + 3, n + 5)
GenCheck(c, s, n) ==
    IF Fuelled(s) THEN Branch(Emit(At(c, n + 2), "fuel", 0, << >>), n + 5, n + 3) ELSE c
GenBody(F, c, s, h, n) ==
    Left(GenStmts(F, Item(At(c, n + 3), s, h), s.ss,
                  [Nowhere EXCEPT !.brk = n + 5, !.cont = ContinueBlock(s, n)]),
         ContinueBlock(s, n))
GenStep(c, s, h, n) == IF Iterates(s) THEN Jump(Step(At(c, n + 4), s, h), n + 1) ELSE c
Enter(c, s, n) == Jump(NewBlocks(c, 5), IF s.k = "loop" THEN n + 2 ELSE n + 1)

LoopAt(F, c, s, h, n) ==
    At(GenStep(GenBody(F, GenCheck(GenTest(F, Enter(c, s, n), s, h, n), s, n), s, h, n), s, h, n),
       n + 5)
LoopFrom(F, c, s) == LoopAt(F, c, s, c.vals, Len(c.blocks))

\* gen_stmt and gen_inline_stmt: c has the expressions of the statement.
IsReturn(s, to) == s.k = "return" \/ (s.k = "expr" /\ ~ s.x /\ to.exit # 0)
StmtOf(F, c, s, to) ==
    CASE IsReturn(s, to) -> [GenReturn(NullUnless(c, to), to) EXCEPT !.ended = TRUE]
      [] s.k = "break" -> [Jump(c, to.brk) EXCEPT !.ended = TRUE]
      [] s.k = "continue" -> [Jump(c, to.cont) EXCEPT !.ended = TRUE]
      [] s.k = "block" -> GenStmts(F, c, s.ss, to)
      [] s.k = "if" -> IfAt(F, c, s.ss, to, Len(c.blocks))
      [] Fuelled(s) \/ Iterates(s) -> LoopFrom(F, Prelude(c, s), s)
      [] OTHER -> [c EXCEPT !.ended = FALSE]
-----------------------------------------------------------------------------
Gen(F, c, n, to) ==
    IF n.k \notin Statements THEN ExprOf(F, GenEach(F, c, First(n)), n)
    ELSE StmtOf(F, GenEach(F, IF n.k = "if" THEN Declare(c, n.ss) ELSE c,
                           IF n.k = "while" THEN << >> ELSE n.es), n, to)

\* gen_fn: the body of a function, its callees are generated later.
CodeOf(c, fn) == [blocks |-> c.blocks, regs |-> c.regs, bad |-> c.bad \/ fn.bad]
GenFn(F, id) == CodeOf(Gen(F, BuilderOf(F[id].params), F[id].body, Nowhere), F[id])

\* A program of the text: its functions are lowered, then generated.
GenAll(F) == [f \in DOMAIN F |-> GenFn(F, f)]
CompiledOf(P) == GenAll([f \in DOMAIN P |-> LowerFn(P[f].params, Parsed(P[f].body))])
=============================================================================

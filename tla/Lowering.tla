------------------------------ MODULE Lowering ------------------------------
(***************************************************************************)
(* What the compiler makes of the body of a function: names become slots,  *)
(* and what an expression needs done first becomes statements before it.   *)
(*                                                                         *)
(* The compiler's state goes through the operators as a record:            *)
(*   names   the name of every slot of the function, "" for a temporary    *)
(*   out     the statements made so far for the list being compiled        *)
(*   val     the expression last lowered;  vals  those of the last list    *)
(*   blocks  the bodies last lowered                                       *)
(*   args    how many slots are parameters                                 *)
(*   bad     the function is refused                                       *)
(* Every name the function has had stays in names, so that a name has the  *)
(* slot of its latest let, whatever block that was in.                     *)
(*                                                                         *)
(* Left out: types, closures and captures, dicts, fields and methods, and  *)
(* nested functions.                                                       *)
(***************************************************************************)
EXTENDS ScriptTree

Anonymous == <<"", 0>>

StartOf(params) == [names |-> params, out |-> << >>, val |-> Num(Null), vals |-> << >>,
                    blocks |-> << >>, args |-> Len(params), bad |-> FALSE]

\* add_name with add_ty, and add_temp: slots are numbered from 0.
AddName(L, name) == [L EXCEPT !.names = Append(@, name)]
NewSlot(L) == Len(L.names)

\* Expr::Ident: the innermost binding of the name.
SlotOf(L, name) == SelectLastInSeq(L.names, LAMBDA n : n = name) - 1
Resolve(L, name) ==
    IF SlotOf(L, name) < 0 THEN [L EXCEPT !.bad = TRUE] ELSE [L EXCEPT !.val = Var(SlotOf(L, name))]

\* push_assign, and what temp_var, dyn_init and the multiple assignment do
\* with a value: it goes into a new slot by a statement of its own.
PushAssign(L, left, right) == [L EXCEPT !.out = Append(@, Expr(Assign(left, right), TRUE))]
Stored(L) == [AddName(PushAssign(L, Var(NewSlot(L)), L.val), Anonymous)
                EXCEPT !.val = Var(NewSlot(L))]
-----------------------------------------------------------------------------
\* The values of operators, where both operands are numbers.
Truthy(v) == v = 1
Bit(b) == IF b THEN 1 ELSE 0
Applied(o, a, b) ==
    CASE o = "==" -> Bit(a = b)
      [] o = "!=" -> Bit(a # b)
      [] o = "<" -> Bit(a < b)
      [] o = ">" -> Bit(a > b)
      [] o \in {"+", "+="} -> a + b
      [] o \in {"-", "-="} -> a - b
      [] o \in {"*", "*="} -> a * b
      [] o = "&&" -> Bit(Truthy(a) /\ Truthy(b))
      [] o = "||" -> Bit(Truthy(a) \/ Truthy(b))

Arithmetic == {"+", "-", "*"}
Compound == [o \in Arithmetic |-> IF o = "+" THEN "+=" ELSE IF o = "-" THEN "-=" ELSE "*="]
Simple == [o \in {"+=", "-=", "*="} |-> CHOOSE a \in Arithmetic : Compound[a] = o]
Assigns == {"=", "+=", "-=", "*="}

\* compact: an operation on two constants is carried out.
Folded(e) ==
    IF e.k = "op" /\ e.x \notin Assigns \cup {"idx"} /\ IsConst(e.es[1]) /\ IsConst(e.es[2])
       /\ e.es[1].x # Null /\ e.es[2].x # Null
    THEN LET v == Applied(e.x, e.es[1].x, e.es[2].x)
         IN  IF e.x \in Arithmetic THEN Num(v) ELSE Truth(Truthy(v))
    ELSE IF e.k = "not" /\ e.es[1].k = "bool" THEN Truth(~ Truthy(e.es[1].x))
    ELSE e

IsVar(e, slot) == e.k = "var" /\ e.x = slot

\* normalize_self_assign: x op= e is written out for a parameter, and
\* x = x op e is shortened for a variable.
SelfAssigned(args, e) ==
    IF e.k # "op" \/ e.es[1].k # "var" THEN e
    ELSE LET target == e.es[1]
             right == e.es[2]
         IN  CASE e.x \in DOMAIN Simple /\ target.x < args ->
                    Assign(target, Op(Simple[e.x], target, right))
               [] /\ e.x = "=" /\ target.x >= args
                  /\ right.k = "op" /\ right.x \in Arithmetic /\ IsVar(right.es[1], target.x) ->
                    Op(Compound[right.x], target, right.es[2])
               [] OTHER -> e
-----------------------------------------------------------------------------
IsMulti(e) == e.k = "op" /\ e.x = "=" /\ e.es[1].k \in {"tuple", "list"}
IsItems(e) == e.k \in {"tuple", "list"}

\* lower_multi_assign, its right side already in slots: all of it is
\* evaluated before any target is assigned.
StoreItem(L, source, i) == Stored([L EXCEPT !.val = Op("idx", source, Num(i - 1))])
StoreItems(L, source, n) ==
    FoldLeft(LAMBDA m, i : LET s == StoreItem(m, source, i) IN [s EXCEPT !.vals = Append(@, s.val)],
             [L EXCEPT !.vals = << >>], [i \in 1..n |-> i])

AssignItem(L, v) == [PushAssign(L, L.val, v) EXCEPT !.val = v]
AssignItems(L, targets) ==
    IF Len(L.vals) # Len(targets) THEN [L EXCEPT !.bad = TRUE]
    ELSE FoldLeft(LAMBDA m, i : AssignItem(Resolve(m, targets[i].x), L.vals[i]),
                  L, [i \in DOMAIN targets |-> i])

Distribute(L, e) ==
    AssignItems(IF IsItems(e.es[2]) THEN L ELSE StoreItems(L, Last(L.vals), Len(e.es[1].es)),
                e.es[1].es)

\* What is evaluated first of an expression, and what is then made of it.
Operands(e) ==
    IF ~ IsMulti(e) THEN e.es
    ELSE IF IsItems(e.es[2]) THEN e.es[2].es ELSE <<e.es[2]>>

Combined(L, e) ==
    CASE IsMulti(e) -> Distribute(L, e)
      [] IsItems(e) /\ ~ \A i \in DOMAIN L.vals : IsConst(L.vals[i]) ->
            Stored([L EXCEPT !.val = [e EXCEPT !.es = L.vals]])
      [] OTHER -> [L EXCEPT !.val = Folded(SelfAssigned(L.args, [e EXCEPT !.es = L.vals]))]
-----------------------------------------------------------------------------
RECURSIVE Lower(_, _), LowerMore(_, _, _, _), LowerAll(_, _), LowerLists(_, _, _)

\* Expressions one after the other; "store" puts each into a slot at once.
LowerMore(L, es, store, before) ==
    IF es = << >> THEN [L EXCEPT !.vals = before]
    ELSE LET r == IF store THEN Stored(Lower(L, Head(es))) ELSE Lower(L, Head(es))
         IN  LowerMore(r, Tail(es), store, Append(before, r.val))
LowerEach(L, es, store) == LowerMore(L, es, store, << >>)

\* The statements of one list.
LowerAll(L, stmts) ==
    IF L.bad \/ stmts = << >> THEN L ELSE LowerAll(Lower(L, Head(stmts)), Tail(stmts))

\* get_stmt, for each list of statements: the statements are a list of their
\* own, the names are not.
LowerLists(L, lists, before) ==
    IF L.bad \/ lists = << >> THEN [L EXCEPT !.blocks = before]
    ELSE LET r == LowerAll([L EXCEPT !.out = << >>], Head(lists))
         IN  LowerLists([r EXCEPT !.out = L.out], Tail(lists), Append(before, Block(r.out)))
LowerBodies(L, lists) == LowerLists(L, lists, << >>)

\* eval_stmt_expr: a statement in an expression is moved before it and its
\* value bound to a slot.
Hoisted(L) ==
    [AddName(L, Anonymous) EXCEPT !.val = Var(NewSlot(L)),
                                  !.out[Len(L.out)] = BindPattern(@, NewSlot(L))]

\* A let of a tuple literal is a let of each of its items.
IsTupleLet(s) ==
    s.k = "let" /\ Len(s.x) > 1 /\ s.ss[1].k = "expr" /\ s.ss[1].es[1].k = "tuple"
EachLet(s) == [i \in DOMAIN s.x |-> Let(<<s.x[i]>>, Expr(s.ss[1].es[1].es[i], FALSE))]

\* The statements inside a statement that are compiled; of an if whose
\* condition is constant, those of the branch it takes.
Decided(L, s) == s.k = "if" /\ L.vals[1].k = "bool"
Bodies(L, s) ==
    CASE IsTupleLet(s) -> <<EachLet(s)>>
      [] Decided(L, s) -> IF Truthy(L.vals[1].x) THEN <<<<s.ss[1]>>>>
                          ELSE [i \in 1..(Len(s.ss) - 1) |-> <<s.ss[2]>>]
      [] s.k \in {"block", "let"} -> <<s.ss>>
      [] OTHER -> [i \in DOMAIN s.ss |-> <<s.ss[i]>>]

\* pat_to_var and bind_pattern: the value of the last statement goes into the
\* slot of the name, or by way of a temporary into those of several names.
Bound(L, names) ==
    LET slots == [i \in DOMAIN names |-> NewSlot(L) + i - 1]
        m == FoldLeft(LAMBDA n, name : AddName(n, name), L, names)
        t == NewSlot(m)
    IN  IF Len(names) = 1 THEN [m EXCEPT !.out[Len(L.out)] = BindPattern(@, slots[1])]
        ELSE [AddName(m, Anonymous) EXCEPT
                !.out = Append([@ EXCEPT ![Len(L.out)] = BindPattern(@, t)],
                               BindElements(Var(t), slots))]

\* compile_stmt: H has the expressions of the statement, B its bodies too.
Inlined(B) == IF B.blocks = << >> THEN << >> ELSE B.blocks[1].ss
Placed(B, stmts) == [B EXCEPT !.out = @ \o stmts]
Whole(H, B, s) == [s EXCEPT !.es = H.vals, !.ss = B.blocks]

WithBodies(H, B, s) ==
    CASE s.k = "expr" /\ IsMulti(s.es[1]) -> B
      [] IsTupleLet(s) \/ Decided(H, s) -> Placed(B, Inlined(B))
      [] s.k = "let" /\ ~ IsTupleLet(s) -> Bound(Placed(B, Inlined(B)), s.x)
      [] s.k = "block" -> Placed(B, <<B.blocks[1]>>)
      [] Iterates(s) -> Placed(B, <<[Whole(H, B, s) EXCEPT !.x = NewSlot(H)]>>)
      [] OTHER -> Placed(B, <<Whole(H, B, s)>>)

WithHeads(H, s) ==
    WithBodies(H, LowerBodies(IF Iterates(s) THEN AddName(H, s.x) ELSE H, Bodies(H, s)), s)

LowerStmt(L, s) == WithHeads(LowerEach(L, IF IsTupleLet(s) THEN << >> ELSE s.es, FALSE), s)

\* eval and compile_stmt.
Lower(L, n) ==
    CASE n.k = "name" -> Resolve(L, n.x)
      [] n.k = "stmt" -> Hoisted(LowerAll(L, n.ss))
      [] n.k \in Statements -> LowerStmt(L, n)
      [] OTHER -> Combined(LowerEach(L, Operands(n), IsMulti(n)), n)

\* compile_fn: a body that does not return on every path gets a return.
Returning(stmts) == IF Returns(Last(stmts)) THEN stmts ELSE Append(stmts, Return(<< >>))
Function(L) ==
    [body |-> Block(Returning([L.out EXCEPT ![Len(L.out)] = LastReturn(@)])),
     params |-> L.args, bad |-> L.bad]

LowerFn(params, body) == Function(LowerAll(StartOf(params), <<body>>))
=============================================================================

---------------------------- MODULE InferReturns ----------------------------
(***************************************************************************)
(* How the compiler finds the type a function returns.  A function has no  *)
(* written return type: infer_fn_with_params walks the body, once per list *)
(* of argument types, and remembers the answer in type_ctx.fns.  While a   *)
(* body is walked its entry is Pending, with a seed: the best answer so    *)
(* far, which is what a recursive call gets.  The seed comes from a first  *)
(* look for a return that does not recurse, and grows; the walk is         *)
(* repeated, at most four times, until it stands still.                    *)
(*                                                                         *)
(* The recursion of the code is the recursion of the operators below; the  *)
(* compiler's state goes through them as a record:                         *)
(*   memo   function -> sequence of [tys, done, has, ty]: type_ctx.fns     *)
(*   stack  the calls whose body is being walked: infer_stack              *)
(*   scope  the names and types of the current frame: names and tys        *)
(*   depth  how many infer_fn are open on the native stack                 *)
(*   burst  the native stack has run out                                   *)
(* and Infer is the one step: a request for the type of one call, from the *)
(* code generator or from the check of a body.                             *)
(*                                                                         *)
(* Left out: generic parameters, closures, method calls, and the types of  *)
(* fields and map entries.                                                 *)
(***************************************************************************)
EXTENDS TypeJoin, Integers, FiniteSets, SequencesExt

CONSTANTS
    Programs,       \* the programs: functions [Fns -> [tys, body]]
    Requests,       \* the calls asked about: pairs <<function, argument types>>
    MaxInferDepth,  \* MAX_INFER_DEPTH
    NativeLimit     \* how many nested infer_fn the thread's stack holds

ASSUME LimitsAssumption == MaxInferDepth \in Nat /\ NativeLimit \in Nat

VARIABLES prog, st, answered

inferVars == <<prog, st, answered>>

Passes == 4     \* for _ in 0..4

NoShape == <<"NoShape">>
Info(ty, shape) == [has |-> TRUE, err |-> FALSE, ty |-> ty, shape |-> shape]
NoInfo == [Info(AnyTy, NoShape) EXCEPT !.has = FALSE]
BadInfo == [NoInfo EXCEPT !.err = TRUE]

Failed(s) == [st |-> s, ok |-> FALSE]
Typed(s, ty) == [st |-> s, ok |-> TRUE, ty |-> ty]

(***************************************************************************)
(* The memo.                                                               *)
(***************************************************************************)
EntryAtAny(s, f, tys) == IF s.memo[f] = << >> THEN 0 ELSE 1   \* mutant: keyed by the function
EntryAt(s, f, tys) == SelectInSeq(s.memo[f], LAMBDA e : e.tys = tys)
Known(s, f, tys) == EntryAt(s, f, tys) # 0
Entry(s, f, tys) == s.memo[f][EntryAt(s, f, tys)]

PushPending(s, f, tys) ==
    [s EXCEPT !.memo[f] = Append(@, [tys |-> tys, done |-> FALSE, has |-> FALSE, ty |-> AnyTy])]

\* pending_return_seed: the seed of a pending entry, none of a finished one.
Seed(s, f, tys) ==
    IF Known(s, f, tys) /\ ~ Entry(s, f, tys).done /\ Entry(s, f, tys).has
    THEN <<"Some", Entry(s, f, tys).ty>> ELSE <<"None">>

SetEntry(s, f, tys, done, ty) ==
    [s EXCEPT !.memo[f][EntryAt(s, f, tys)] = [tys |-> tys, done |-> done, has |-> TRUE, ty |-> ty]]

\* The Err branch: the pending entry is taken out again.
DropPending(s, f, tys) ==
    [s EXCEPT !.memo[f] = SelectSeq(@, LAMBDA e : e.tys # tys \/ e.done)]

\* A return seen on the way joins the seed of the walk on top of the stack.
UpdateSeed(s, ty) ==
    IF IsAny(ty) \/ s.stack = << >> THEN s
    ELSE LET f == Last(s.stack).fn
             tys == Last(s.stack).tys
         IN  IF ~ Known(s, f, tys) \/ Entry(s, f, tys).done THEN s
             ELSE SetEntry(s, f, tys, FALSE,
                           IF Entry(s, f, tys).has THEN Join(Entry(s, f, tys).ty, ty) ELSE ty)

(***************************************************************************)
(* The scope: innermost binding last.  A parameter list opens a frame of   *)
(* its own (take_local_state), put back when the function is left.         *)
(***************************************************************************)
Bind(s, name, ty) == [s EXCEPT !.scope = Append(@, <<name, ty>>)]
Frame(s, tys) == [s EXCEPT !.scope = [i \in DOMAIN tys |-> <<i, tys[i]>>]]
Bound(s, name) == SelectLastInSeq(s.scope, LAMBDA b : b[1] = name)

\* expr_calls_fn: the call itself or one inside its arguments or operands.
RECURSIVE CallsFn(_, _)
CallsFn(e, f) ==
    CASE e.k = "call" -> e.fn = f \/ \E i \in DOMAIN e.args : CallsFn(e.args[i], f)
      [] e.k = "op" -> CallsFn(e.left, f) \/ CallsFn(e.right, f)
      [] OTHER -> FALSE

\* try_find_base_return_ty: the first return that is a literal.
RECURSIVE LiteralReturn(_)
LiteralReturn(stmt) ==
    CASE stmt.k = "block" ->
            LET tys == SelectSeq([i \in DOMAIN stmt.stmts |-> LiteralReturn(stmt.stmts[i])],
                                 LAMBDA t : t # <<"None">>)
            IN  IF tys = << >> THEN <<"None">> ELSE Head(tys)
      [] stmt.k = "if" ->
            IF LiteralReturn(stmt.then) # <<"None">> THEN LiteralReturn(stmt.then)
            ELSE LiteralReturn(stmt.else)
      [] stmt.k = "return" \/ (stmt.k = "expr" /\ ~ stmt.close) ->
            IF stmt.value.k = "lit" THEN <<"Some", stmt.value.ty>> ELSE <<"None">>
      [] OTHER -> <<"None">>

\* return_shape: of a type that is known only aggregates have one.
ShapeOf(ty) ==
    CASE ty[1] = "Array" -> ListOf(ty[2])
      [] ty[1] \in {"Struct", "Map", "List"} -> ty
      [] OTHER -> NoShape

\* merge_return_type and merge_return_info.
MergeTypesFirst(a, b) ==        \* mutant: the first return decides
    IF Void \in {a, b} /\ a # b THEN <<"Err">> ELSE <<"Ok", a>>
MergeTypes(a, b) ==
    IF a = b THEN <<"Ok", a>>
    ELSE IF Void \in {a, b} THEN <<"Err">>
    ELSE IF AnyTy \in {a, b} THEN <<"Ok", AnyTy>>
    ELSE <<"Ok", Join(a, b)>>

ShapesClash(a, b) ==
    \/ NoShape \notin {a.shape, b.shape} /\ a.shape # b.shape
    \/ a.shape[1] = "Struct" /\ b.ty = AnyTy /\ b.shape = NoShape
    \/ b.shape[1] = "Struct" /\ a.ty = AnyTy /\ a.shape = NoShape

Merge(a, b) ==
    IF ~ a.has THEN b
    ELSE IF ShapesClash(a, b) \/ MergeTypes(a.ty, b.ty) = <<"Err">> THEN BadInfo
    ELSE Info(MergeTypes(a.ty, b.ty)[2], IF a.shape # NoShape THEN a.shape ELSE b.shape)

RECURSIVE InferExpr(_, _), InferArgs(_, _, _), InferFn(_, _, _), Returns(_, _, _),
          ReturnsInBlock(_, _, _, _), BaseReturn(_, _, _), BaseInBlock(_, _, _), Walk(_, _, _, _, _)

(***************************************************************************)
(* The ? of each call: what follows is done with a result, an error passes. *)
(***************************************************************************)
Then(r, More(_)) == IF r.ok THEN More(r) ELSE Failed(r.st)

(***************************************************************************)
(* infer_expr.                                                             *)
(***************************************************************************)
InferExpr(s, e) ==
    CASE e.k = "lit" -> Typed(s, e.ty)
      [] e.k = "var" ->
            IF Bound(s, e.name) = 0 THEN Failed(s) ELSE Typed(s, s.scope[Bound(s, e.name)][2])
      [] e.k = "list" ->        \* one item
            Then(InferExpr(s, e.item), LAMBDA r : Typed(r.st, ArrayOf(r.ty, 1)))
      [] e.k = "op" ->
            Then(InferExpr(s, e.left), LAMBDA l :
              Then(InferExpr(l.st, e.right), LAMBDA r :
                \* check_arith_types: only addition takes strings and booleans
                IF e.op # "+" /\ {l.ty, r.ty} \cap {Str, Bool} # {} THEN Failed(r.st)
                ELSE Typed(r.st, Join(l.ty, r.ty))))
      [] e.k = "call" ->
            Then(InferArgs(s, e.args, << >>), LAMBDA r : InferFn(r.st, e.fn, r.tys))

InferArgs(s, args, tys) ==
    IF args = << >> THEN [st |-> s, ok |-> TRUE, tys |-> tys]
    ELSE Then(InferExpr(s, Head(args)), LAMBDA r : InferArgs(r.st, Tail(args), Append(tys, r.ty)))

\* infer_return_expr: maps and lists are returned as Any.
ReturnOf(s, e) ==
    Then(InferExpr(s, e), LAMBDA r :
      LET shape == ShapeOf(r.ty)
      IN  [st |-> r.st, ok |-> TRUE,
           info |-> Info(IF shape[1] \in {"Map", "List"} THEN AnyTy ELSE r.ty, shape)])

(***************************************************************************)
(* infer_returns: what a statement may return and whether it always does.  *)
(***************************************************************************)
Gives(s, info, always) == [st |-> s, ok |-> TRUE, info |-> info, always |-> always]

\* A condition is a truth value or a dynamic one.
Condition(s, e) == Then(InferExpr(s, e), LAMBDA c : IF c.ty \in {Bool, AnyTy} THEN c ELSE Failed(c.st))

\* What two branches give together.
Branches(t, f) ==
    LET s2 == UpdateSeed(f.st, f.info.ty)
        both == Merge(t.info, f.info)
    IN  IF ~ f.info.has THEN Gives(f.st, t.info, t.always /\ f.always)
        ELSE IF both.err THEN Failed(s2)
        ELSE Gives(UpdateSeed(s2, both.ty), both, t.always /\ f.always)

Returns(s, stmt, tail) ==
    CASE stmt.k = "return" ->
            Then(ReturnOf(s, stmt.value), LAMBDA r : Gives(r.st, r.info, TRUE))
      [] stmt.k = "return0" -> Gives(s, Info(Void, Void), TRUE)
      [] stmt.k = "block" -> ReturnsInBlock(s, stmt.stmts, tail, NoInfo)
      [] stmt.k = "if" ->
            Then(Condition(s, stmt.cond), LAMBDA c :
              Then(Returns(c.st, stmt.then, tail), LAMBDA t :
                LET s1 == IF t.info.has THEN UpdateSeed(t.st, t.info.ty) ELSE t.st
                IN  IF stmt.else.k = "none" THEN Gives(s1, t.info, FALSE)
                    ELSE Then(Returns(s1, stmt.else, tail), LAMBDA f : Branches(t, f))))
      [] stmt.k = "while" ->
            Then(Condition(s, stmt.cond), LAMBDA c :
              Then(Returns(c.st, stmt.body, FALSE), LAMBDA b : [b EXCEPT !.always = FALSE]))
      [] stmt.k = "loop" -> Returns(s, stmt.body, FALSE)
      [] stmt.k = "let" ->
            Then(InferExpr(s, stmt.value), LAMBDA r : Gives(Bind(r.st, stmt.name, r.ty), NoInfo, FALSE))
      [] stmt.k = "expr" ->
            Then(ReturnOf(s, stmt.value), LAMBDA r :
              IF stmt.close \/ ~ tail THEN Gives(r.st, NoInfo, FALSE) ELSE Gives(r.st, r.info, TRUE))

ReturnsInBlock(s, stmts, tail, ret) ==
    IF stmts = << >> THEN Gives(s, ret, FALSE)
    ELSE Then(Returns(s, Head(stmts), tail /\ Len(stmts) = 1), LAMBDA r :
           LET both == IF r.info.has THEN Merge(ret, r.info) ELSE ret
               s1 == IF r.info.has THEN UpdateSeed(UpdateSeed(r.st, r.info.ty), both.ty) ELSE r.st
           IN  IF both.err THEN Failed(UpdateSeed(r.st, r.info.ty))
               ELSE IF r.always THEN Gives(s1, both, TRUE)
               ELSE ReturnsInBlock(s1, Tail(stmts), tail, both))

(***************************************************************************)
(* try_find_base_return_ty_with_scope: the type of the first return that   *)
(* does not call f itself and whose type can be found; errors are ignored, *)
(* what they changed in the memo stays.                                    *)
(***************************************************************************)
BaseReturn(s, stmt, f) ==
    CASE stmt.k = "block" -> BaseInBlock(s, stmt.stmts, f)
      [] stmt.k = "if" ->
            LET t == BaseReturn(s, stmt.then, f)
            IN  IF t.has \/ stmt.else.k = "none" THEN t ELSE BaseReturn(t.st, stmt.else, f)
      [] \/ stmt.k = "return" /\ ~ CallsFn(stmt.value, f)
         \/ stmt.k = "expr" /\ ~ stmt.close /\ ~ CallsFn(stmt.value, f) ->
            LET r == ReturnOf(s, stmt.value)
            IN  [st |-> r.st, has |-> r.ok, ty |-> IF r.ok THEN r.info.ty ELSE AnyTy]
      [] OTHER -> [st |-> s, has |-> FALSE, ty |-> AnyTy]

BaseInBlock(s, stmts, f) ==
    IF stmts = << >> THEN [st |-> s, has |-> FALSE, ty |-> AnyTy]
    ELSE LET r == BaseReturn(s, Head(stmts), f)
         IN  IF r.has THEN r ELSE BaseInBlock(r.st, Tail(stmts), f)

(***************************************************************************)
(* infer_fn_with_params.  A pending entry answers with its seed; one that  *)
(* has none and is being walked, with the first literal it returns.        *)
(***************************************************************************)
\* get_fn_tys: an unannotated parameter takes the type of its argument.
FnTys(f, args) ==
    LET decl == prog[f].tys
    IN  [i \in DOMAIN decl |-> IF IsAny(decl[i]) /\ i <= Len(args) THEN args[i] ELSE decl[i]]

PendingAnswer(s, f, e) ==
    LET literal == LiteralReturn(prog[f].body)
    IN  IF e.has THEN e.ty
        ELSE IF literal # <<"None">> /\ \E i \in DOMAIN s.stack : s.stack[i].fn = f
        THEN literal[2] ELSE AnyTy

TooDeep(s) == Len(s.stack) > MaxInferDepth

\* The first base type found becomes the seed.
Seeded(s, f, tys, base) ==
    IF base.has /\ Known(s, f, tys) /\ Seed(s, f, tys) = <<"None">>
    THEN SetEntry(s, f, tys, FALSE, base.ty) ELSE s

InferFn(s, f, args) ==
    LET tys == FnTys(f, args)
        opened == [PushPending(s, f, tys) EXCEPT !.depth = @ + 1]
        base == BaseReturn(Frame(opened, tys), prog[f].body, f)
        seeded == Seeded([base.st EXCEPT !.scope = s.scope], f, tys, base)
    IN  IF s.burst \/ s.depth = NativeLimit THEN Typed([s EXCEPT !.burst = TRUE], AnyTy)
        ELSE IF TooDeep(s) THEN Typed(s, AnyTy)
        ELSE IF Known(s, f, tys)
        THEN Typed(s, IF Entry(s, f, tys).done THEN Entry(s, f, tys).ty
                      ELSE PendingAnswer(s, f, Entry(s, f, tys)))
        ELSE [Walk(seeded, f, tys, Passes, <<"None">>) EXCEPT !.st.depth = s.depth]

\* The walks of the body.  The seed a pass leaves is joined after the call
\* has left the stack: it goes to the entry of the caller, if there is one.
Walked(s, f, tys, left, best, r) ==
    LET popped == [r.st EXCEPT !.stack = s.stack, !.scope = s.scope]
        ty == IF r.info.has THEN r.info.ty ELSE Void
        told == UpdateSeed(popped, ty)
        better == IF IsAny(ty) /\ best # <<"None">> THEN best ELSE <<"Some", ty>>
    IN  IF ~ r.ok THEN Failed(DropPending(popped, f, tys))
        ELSE IF left > 1 /\ Seed(told, f, tys) # Seed(s, f, tys)
        THEN Walk(told, f, tys, left - 1, better)
        ELSE Typed(IF Known(told, f, tys) THEN SetEntry(told, f, tys, TRUE, better[2]) ELSE told,
                   better[2])

Walk(s, f, tys, left, best) ==
    Walked(s, f, tys, left, best,
           Returns([Frame(s, tys) EXCEPT !.stack = Append(@, [fn |-> f, tys |-> tys])],
                   prog[f].body, TRUE))

-----------------------------------------------------------------------------
Fresh == [memo |-> [f \in DOMAIN prog |-> << >>], stack |-> << >>, scope |-> << >>,
          depth |-> 0, burst |-> FALSE]

InferInit == /\ prog \in Programs
             /\ st = Fresh
             /\ answered = {}

Answer(r) == IF r.ok THEN <<"Ok", r.ty>> ELSE <<"Err">>

\* A request for the type of a call.  A burst stack ends the process.
Infer(q) ==
    /\ ~ st.burst
    /\ \E r \in {InferFn(st, q[1], q[2])} :
          /\ st' = r.st
          /\ answered' = answered \cup {<<q, Answer(r)>>}
    /\ UNCHANGED prog

InferNext == \E q \in Requests : Infer(q)

InferSpec == InferInit /\ [][InferNext]_inferVars
-----------------------------------------------------------------------------
\* The types of the values the return statements of a body and its last
\* expression give, each taken by itself.
RECURSIVE ValueTypes(_, _, _), ValuesInBlock(_, _, _)
ValueTypes(s, stmt, tail) ==
    CASE stmt.k = "return" \/ (stmt.k = "expr" /\ tail /\ ~ stmt.close) ->
            [st |-> s, tys |-> {ReturnOf(s, stmt.value).info.ty}]
      [] stmt.k = "return0" -> [st |-> s, tys |-> {Void}]
      [] stmt.k = "let" -> [st |-> Bind(s, stmt.name, InferExpr(s, stmt.value).ty), tys |-> {}]
      [] stmt.k = "block" -> ValuesInBlock(s, stmt.stmts, tail)
      [] stmt.k \in {"while", "loop"} -> ValueTypes(s, stmt.body, FALSE)
      [] stmt.k = "if" -> LET t == ValueTypes(s, stmt.then, tail)
                              f == ValueTypes(t.st, stmt.else, tail)
                          IN  [st |-> f.st, tys |-> t.tys \cup f.tys]
      [] OTHER -> [st |-> s, tys |-> {}]
ValuesInBlock(s, stmts, tail) ==
    IF stmts = << >> THEN [st |-> s, tys |-> {}]
    ELSE LET r == ValueTypes(s, Head(stmts), tail /\ Len(stmts) = 1)
             rest == ValuesInBlock(r.st, Tail(stmts), tail)
         IN  IF Head(stmts).k \in {"return", "return0"} THEN r
             ELSE [rest EXCEPT !.tys = @ \cup r.tys]

Wider(a, b) == a = b \/ IsAny(a) \/ (Void \notin {a, b} /\ ~ IsAny(b) /\ Join(a, b) = a)

\* A finished answer is wide enough for every value the body returns, typed
\* with the finished answers of the functions it calls: the code generator
\* converts each of them to the answer, and a narrower one would change it.
\* And inference comes to an answer: the compiler's own stack holds.
CoversReturns ==
    /\ ~ st.burst
    /\ \A f \in DOMAIN prog : \A i \in DOMAIN st.memo[f] :
        LET e == st.memo[f][i]
        IN  \A ty \in ValueTypes(Frame(st, e.tys), prog[f].body, TRUE).tys : Wider(e.ty, ty)

\* Reach(F): the functions called from those of F, themselves included.
RECURSIVE BodyCalls(_, _)
BodyCalls(stmt, f) ==
    CASE stmt.k = "block" -> \E i \in DOMAIN stmt.stmts : BodyCalls(stmt.stmts[i], f)
      [] stmt.k = "if" -> \/ CallsFn(stmt.cond, f)
                          \/ BodyCalls(stmt.then, f)
                          \/ BodyCalls(stmt.else, f)
      [] stmt.k = "while" -> CallsFn(stmt.cond, f) \/ BodyCalls(stmt.body, f)
      [] stmt.k = "loop" -> BodyCalls(stmt.body, f)
      [] stmt.k \in {"return", "expr", "let"} -> CallsFn(stmt.value, f)
      [] OTHER -> FALSE
RECURSIVE Reach(_)
Reach(F) == LET G == F \cup {g \in DOMAIN prog : \E f \in F : BodyCalls(prog[f].body, g)}
            IN  IF G = F THEN F ELSE Reach(G)
Recursive(f) == f \in Reach({g \in DOMAIN prog : BodyCalls(prog[f].body, g)})

\* What was asked before does not change an answer: asked of a compiler that
\* has seen nothing, a call of a function from which no recursion can be
\* reached has the type it was given in this session.
PlainAnswersFresh ==
    ~ st.burst =>
        \A a \in answered :
            (\A f \in Reach({a[1][1]}) : ~ Recursive(f)) =>
                a[2] = Answer(InferFn(Fresh, a[1][1], a[1][2]))

\* The limit on the depth keeps the compiler's own stack from running out when
\* every call is one with new argument types.
StackHolds == ~ st.burst
=============================================================================

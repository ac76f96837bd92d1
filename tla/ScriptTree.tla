----------------------------- MODULE ScriptTree -----------------------------
(***************************************************************************)
(* The tree of a script, and what the parser itself makes of it: match is  *)
(* not a form of the tree but a block of lets and ifs.                     *)
(*                                                                         *)
(* Every node is [k, x, es, ss]: its kind, what the kind needs besides (a  *)
(* name, an operator, a number), its expressions and its statements.       *)
(* A name is a pair, so that the parser can number the ones it makes up.   *)
(***************************************************************************)
EXTENDS Integers, SequencesExt

CONSTANTS
    Null,           \* the null value of the language
    Unset           \* what a variable holds that was never assigned

Node(k, x, es, ss) == [k |-> k, x |-> x, es |-> es, ss |-> ss]

\* Expressions.  Var is a name after lowering: a slot of the function.
Num(n) == Node("num", n, << >>, << >>)
Truth(b) == Node("bool", IF b THEN 1 ELSE 0, << >>, << >>)
Name(n) == Node("name", n, << >>, << >>)
Var(slot) == Node("var", slot, << >>, << >>)
Op(o, left, right) == Node("op", o, <<left, right>>, << >>)
Not(e) == Node("not", "!", <<e>>, << >>)
Call(f, args) == Node("call", f, args, << >>)
List(es) == Node("list", "[]", es, << >>)
Tuple(es) == Node("tuple", "()", es, << >>)
Inner(stmt) == Node("stmt", "{}", << >>, <<stmt>>)
Assign(target, e) == Op("=", target, e)

\* Statements.  Without "close" an expression is the value of its block.
Expr(e, close) == Node("expr", close, <<e>>, << >>)
Let(names, stmt) == Node("let", names, << >>, <<stmt>>)
Block(stmts) == Node("block", "{}", << >>, stmts)
If(cond, bodies) == Node("if", "if", <<cond>>, bodies)
While(cond, body) == Node("while", "while", <<cond>>, <<body>>)
Loop(body) == Node("loop", "loop", << >>, <<body>>)
For(name, from, to, body) == Node("for", name, <<from, to>>, <<body>>)
ForAny(name, e, body) == Node("forany", name, <<e>>, <<body>>)
ForList(name, e, body) == Node("forlist", name, <<e>>, <<body>>)
Break == Node("break", "break", << >>, << >>)
Continue == Node("continue", "continue", << >>, << >>)
Return(es) == Node("return", "return", es, << >>)

Statements == {"expr", "let", "block", "if", "while", "loop", "for", "forany", "forlist",
               "break", "continue", "return"}

\* An arm has its alternatives and, in es, its value and perhaps its guard.
Match(id, e, arms) == Node("match", id, <<e>>, arms)
Arm(pats, es) == Node("arm", pats, es, << >>)
Literal(v) == <<"literal", v>>
Wildcard == <<"wildcard">>
Binding(name) == <<"ident", name>>

IsConst(e) == e.k \in {"num", "bool"}
Iterates(s) == s.k \in {"for", "forany", "forlist"}        \* has a loop variable
Fuelled(s) == s.k \in {"while", "loop", "forany"}          \* counts its rounds
-----------------------------------------------------------------------------
\* match_test: names and wildcards match everything.
MatchTest(pat, scrut) ==
    IF pat[1] = "literal" THEN Op("==", scrut, Num(pat[2])) ELSE Truth(TRUE)

AnyTest(pats, scrut) ==
    FoldLeft(LAMBDA t, p : Op("||", t, MatchTest(p, scrut)),
             MatchTest(Head(pats), scrut), Tail(pats))

\* collect_bindings, of the first alternative.
Bindings(pat, scrut) ==
    IF pat[1] = "ident" THEN <<Let(<<pat[2]>>, Expr(scrut, TRUE))>> ELSE << >>

ArmBody(arm, scrut, done, out) ==
    LET found == Block(<<Expr(Assign(out, arm.es[1]), TRUE),
                         Expr(Assign(done, Truth(TRUE)), TRUE)>>)
        guarded == IF Len(arm.es) = 2 THEN If(arm.es[2], <<found>>) ELSE found
    IN  <<Block(Append(Bindings(Head(arm.x), scrut), guarded))>>

ArmIfOnce(arm, scrut, done, out) ==     \* mutant: an arm does not look at done
    If(AnyTest(arm.x, scrut), ArmBody(arm, scrut, done, out))

\* match_block: arms are tried in order until one is done; a guard that fails
\* leaves it undone.  Temporary names carry the number of the match.
ArmIf(arm, scrut, done, out) ==
    If(Op("&&", Not(done), AnyTest(arm.x, scrut)), ArmBody(arm, scrut, done, out))

MatchBlock(id, e, arms) ==
    LET scrut == <<"__m_scrut", id>>
        done == <<"__m_done", id>>
        out == <<"__m_out", id>>
    IN  Block(<<Let(<<scrut>>, Expr(e, TRUE)),
                Let(<<done>>, Expr(Truth(FALSE), TRUE)),
                Let(<<out>>, Expr(Num(Null), TRUE))>>
              \o [i \in DOMAIN arms |-> ArmIf(arms[i], Name(scrut), Name(done), Name(out))]
              \o <<Expr(Name(out), FALSE)>>)

\* What the parser returns for a node.
RECURSIVE Parsed(_)
Parsed(n) ==
    LET m == [n EXCEPT !.es = [i \in DOMAIN @ |-> Parsed(@[i])],
                       !.ss = [i \in DOMAIN @ |-> Parsed(@[i])]]
    IN  IF n.k = "match" THEN Inner(MatchBlock(n.x, m.es[1], m.ss)) ELSE m
-----------------------------------------------------------------------------
(* What bind_pattern and last_return do to a lowered statement. *)

\* bind_pattern: the value of a statement goes into a slot.
RECURSIVE BindPattern(_, _)
BindPattern(stmt, slot) ==
    CASE stmt.k = "expr" -> Expr(Assign(Var(slot), stmt.es[1]), TRUE)
      [] stmt.k = "block" /\ stmt.ss # << >> ->
            [stmt EXCEPT !.ss[Len(stmt.ss)] = BindPattern(@, slot)]
      [] stmt.k = "if" -> [stmt EXCEPT !.ss = [i \in DOMAIN @ |-> BindPattern(@[i], slot)]]
      [] OTHER -> stmt

\* bind_pattern of a tuple or list: each name takes its element of the value.
BindElements(e, slots) ==
    Block([i \in DOMAIN slots |-> Expr(Assign(Var(slots[i]), Op("idx", e, Num(i - 1))), TRUE)])

\* last_return: the value of a body becomes a return, in each branch; and
\* whether the body then returns on every path.
RECURSIVE LastReturn(_)
LastReturn(stmt) ==
    CASE stmt.k = "expr" /\ ~ stmt.x -> Return(stmt.es)
      [] stmt.k = "block" /\ stmt.ss # << >> ->
            [stmt EXCEPT !.ss[Len(stmt.ss)] = LastReturn(@)]
      [] stmt.k = "if" -> [stmt EXCEPT !.ss = [i \in DOMAIN @ |-> LastReturn(@[i])]]
      [] OTHER -> stmt

RECURSIVE Returns(_)
Returns(stmt) ==
    CASE stmt.k = "return" -> TRUE
      [] stmt.k = "block" /\ stmt.ss # << >> -> Returns(Last(stmt.ss))
      [] stmt.k = "if" -> Len(stmt.ss) = 2 /\ Returns(stmt.ss[1]) /\ Returns(stmt.ss[2])
      [] OTHER -> FALSE
=============================================================================

--------------------------- MODULE ScriptMeaning ----------------------------
(***************************************************************************)
(* What a script means: the text as it is written, match and inner blocks  *)
(* and all, interpreted.  The host is known by three functions: emit is    *)
(* seen from outside and returns its argument, ask takes the next answer   *)
(* from the tape and 0 when it is used up, items returns a list.           *)
(*                                                                         *)
(* M is what an interpreter knows: env, the names in scope with their      *)
(* values, the innermost last; trace; tape; fuel, the quota of loop        *)
(* rounds; val and vals, the values last found; sig, how a statement       *)
(* ended; taken, whether an arm of the current match was.                  *)
(***************************************************************************)
EXTENDS Lowering

CONSTANTS Items         \* what items returns

Answer(t) == IF t = << >> THEN 0 ELSE Head(t)
Rest(t) == IF t = << >> THEN << >> ELSE Tail(t)

\* An operation on values; null and numbers can be compared, not combined.
Computed(o, a, b) ==
    CASE o = "idx" -> IF b + 1 \in DOMAIN a THEN a[b + 1] ELSE Null
      [] o \notin {"idx", "==", "!="} /\ {a, b} \cap {Null, Unset} # {} -> Null
      [] OTHER -> Applied(o, a, b)
-----------------------------------------------------------------------------
Know(M, name, v) == [M EXCEPT !.env = Append(@, <<name, v>>)]
Place(M, name) == SelectLastInSeq(M.env, LAMBDA b : b[1] = name)
Put(M, target, v) ==
    IF target.k = "name" THEN [M EXCEPT !.env[Place(M, target.x)][2] = v, !.val = v]
    ELSE FoldLeft(LAMBDA m, i : [m EXCEPT !.env[Place(m, target.es[i].x)][2] = v[i]],
                  [M EXCEPT !.val = Last(v)], [i \in DOMAIN target.es |-> i])
Leave(M, n) == [M EXCEPT !.env = SubSeq(@, 1, n)]
Going(M) == M.sig = "go"

RECURSIVE Mean(_, _, _), MeanMore(_, _, _, _), MeanStmts(_, _, _), MeanLoop(_, _, _, _)

MeanMore(P, M, es, before) ==
    IF es = << >> THEN [M EXCEPT !.vals = before]
    ELSE LET m == Mean(P, M, Head(es)) IN MeanMore(P, m, Tail(es), Append(before, m.val))
MeanEach(P, M, es) == MeanMore(P, M, es, << >>)

\* Statements of one scope; the last gives the value.
MeanStmts(P, M, ss) ==
    IF ss = << >> \/ ~ Going(M) THEN M ELSE MeanStmts(P, Mean(P, M, Head(ss)), Tail(ss))
MeanAll(P, M, ss) == Leave(MeanStmts(P, [M EXCEPT !.val = Null], ss), Len(M.env))

\* An arm is tried when no earlier one was taken.
Fits(arm, v) == \E i \in DOMAIN arm.x : arm.x[i][1] # "literal" \/ arm.x[i][2] = v
ArmValue(P, M, arm, n) ==       \* M has the value of the guard, if there is one
    IF M.vals = <<0>> THEN Leave(M, n)
    ELSE [Leave(MeanEach(P, M, <<arm.es[1]>>), n) EXCEPT !.taken = TRUE]
MeanArm(P, M, v, arm) ==
    IF M.taken \/ ~ Fits(arm, v) THEN M
    ELSE ArmValue(P, MeanEach(P, IF arm.x[1][1] = "ident" THEN Know(M, arm.x[1][2], v) ELSE M,
                              Tail(arm.es)), arm, Len(M.env))

MeanCall(P, M, f) ==
    CASE f = "emit" -> [M EXCEPT !.trace = Append(@, M.vals[1]), !.val = M.vals[1]]
      [] f = "ask" -> [M EXCEPT !.val = Answer(M.tape), !.tape = Rest(@)]
      [] f = "items" -> [M EXCEPT !.val = Items]
      [] OTHER ->
            [MeanAll(P, [M EXCEPT !.env = [i \in DOMAIN P[f].params |->
                                             <<P[f].params[i], M.vals[i]>>]],
                     <<P[f].body>>) EXCEPT !.env = M.env, !.sig = "go"]

\* "left" are the values a for has still to go through; c is after the
\* condition, b after the body.
Over(c, s, left) ==
    IF Iterates(s) THEN left = << >> ELSE s.k = "while" /\ ~ Truthy(c.vals[1])
Pay(c, s) == IF Fuelled(s) /\ c.fuel > 0 THEN [c EXCEPT !.fuel = @ - 1] ELSE c
Body(P, c, s, left) ==
    MeanAll(P, IF Iterates(s) THEN Know(Pay(c, s), s.x, Head(left)) ELSE Pay(c, s), s.ss)
Again(P, b, s, left, n) ==
    CASE b.sig = "return" -> b
      [] b.sig = "break" -> [Leave(b, n) EXCEPT !.sig = "go", !.val = Null]
      [] OTHER -> MeanLoop(P, [Leave(b, n) EXCEPT !.sig = "go"], s, Rest(left))
Round(P, c, s, left, n) ==
    CASE Over(c, s, left) -> [c EXCEPT !.val = Null]
      [] ~ Over(c, s, left) /\ Fuelled(s) /\ c.fuel = 0 -> [c EXCEPT !.fuel = -1, !.val = Null]
      [] OTHER -> Again(P, Body(P, c, s, left), s, left, n)
MeanLoop(P, M, s, left) ==
    Round(P, IF s.k = "while" THEN MeanEach(P, M, s.es) ELSE M, s, left, Len(M.env))

MeanOp(P, M, e) ==
    CASE e.x = "=" -> Put(M, e.es[1], M.vals[1])
      [] e.x \in {"&&", "||"} ->
            IF Truthy(M.vals[1]) = (e.x = "||") THEN [M EXCEPT !.val = M.vals[1]]
            ELSE MeanEach(P, M, <<e.es[2]>>)
      [] e.x \in DOMAIN Simple -> Put(M, e.es[1], Computed(Simple[e.x], M.vals[1], M.vals[2]))
      [] OTHER -> [M EXCEPT !.val = Computed(e.x, M.vals[1], M.vals[2])]

Valued(s) == IF s.k = "expr" THEN [s EXCEPT !.x = FALSE] ELSE s

\* What is evaluated before anything else of a node.
Before(n) ==
    CASE n.k = "op" /\ n.x = "=" -> <<n.es[2]>>
      [] n.k = "op" /\ n.x \in {"&&", "||"} -> <<n.es[1]>>
      [] n.k = "while" -> << >>
      [] OTHER -> n.es

\* The names of a let, each with its value.
KnowEach(M, names) ==
    IF Len(names) = 1 THEN Know(M, names[1], M.val)
    ELSE [M EXCEPT !.env = @ \o [i \in DOMAIN names |-> <<names[i], M.val[i]>>]]

\* m has the values of what comes before.
MeanNode(P, m, n) ==
    CASE n.k \in {"num", "bool"} -> [m EXCEPT !.val = n.x]
      [] n.k = "name" -> [m EXCEPT !.val = m.env[Place(m, n.x)][2]]
      [] n.k = "op" -> MeanOp(P, m, n)
      [] n.k = "not" -> [m EXCEPT !.val = Bit(~ Truthy(m.vals[1]))]
      [] n.k \in {"list", "tuple"} -> [m EXCEPT !.val = m.vals]
      [] n.k = "call" -> MeanCall(P, m, n.x)
      [] n.k \in {"stmt", "block"} -> MeanAll(P, m, n.ss)
      [] n.k = "match" ->
            [FoldLeft(LAMBDA M, arm : MeanArm(P, M, m.vals[1], arm),
                      [m EXCEPT !.val = Null, !.taken = FALSE], n.ss) EXCEPT !.taken = m.taken]
      [] n.k = "expr" -> IF n.x THEN [m EXCEPT !.val = Null] ELSE m
      [] n.k = "let" -> [KnowEach(Mean(P, m, Valued(n.ss[1])), n.x) EXCEPT !.val = Null]
      [] n.k = "if" -> MeanAll(P, m, IF Truthy(m.vals[1]) THEN <<n.ss[1]>> ELSE Tail(n.ss))
      [] n.k = "return" -> [m EXCEPT !.sig = "return",
                                     !.val = IF n.es = << >> THEN Null ELSE m.vals[1]]
      [] n.k \in {"break", "continue"} -> [m EXCEPT !.sig = n.k, !.val = Null]
      [] n.k = "for" ->
            MeanLoop(P, m, n, [i \in 1..(m.vals[2] - m.vals[1]) |-> m.vals[1] + i - 1])
      [] n.k \in {"forany", "forlist"} -> MeanLoop(P, m, n, m.vals[1])
      [] OTHER -> MeanLoop(P, m, n, << >>)

Mean(P, M, n) == MeanNode(P, MeanEach(P, M, Before(n)), n)

-----------------------------------------------------------------------------
\* A statement that is never gone on after, and a text with something there.
RECURSIVE Stops(_), GoesOnPast(_)
Stops(s) ==
    CASE s.k \in {"return", "break", "continue"} -> TRUE
      [] s.k = "block" -> \E i \in DOMAIN s.ss : Stops(s.ss[i])
      [] s.k = "if" -> Len(s.ss) = 2 /\ \A i \in DOMAIN s.ss : Stops(s.ss[i])
      [] OTHER -> FALSE
GoesOnPast(n) ==
    \/ n.k = "block" /\ \E i \in DOMAIN n.ss : i < Len(n.ss) /\ Stops(n.ss[i])
    \/ \E i \in DOMAIN n.ss : GoesOnPast(n.ss[i])

End(P, M) == [trace |-> M.trace, result |-> M.val,
              cut |-> \E f \in DOMAIN P : GoesOnPast(P[f].body)]
Meaning(P, arg, answers, quota) ==
    End(P, MeanCall(P, [env |-> << >>, trace |-> << >>, tape |-> answers, fuel |-> quota,
                     val |-> Null, vals |-> [i \in DOMAIN P["main"].params |-> arg],
                     sig |-> "go", taken |-> FALSE], "main"))
=============================================================================

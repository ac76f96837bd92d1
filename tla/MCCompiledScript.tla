-------------------------- MODULE MCCompiledScript --------------------------
(***************************************************************************)
(* The programs compiled scripts are checked with: main(a) has one or two  *)
(* statements of a family between a let and what shows the variables, and  *)
(* may call f, which has several forms, and g.                             *)
(***************************************************************************)
EXTENDS CompiledScript

a == <<"a", 0>>
b == <<"b", 0>>
x == <<"x", 0>>
y == <<"y", 0>>
n == <<"n", 0>>

\* Pieces of text.
Do(e) == Expr(e, TRUE)
Give(e) == Expr(e, FALSE)
Only(s) == Block(<<s>>)
Emitted(e) == Do(Call("emit", <<e>>))
Set(name, e) == Do(Assign(Name(name), e))
Add(name, k) == Do(Op("+=", Name(name), Num(k)))
When(e, then) == If(e, <<Only(then)>>)
Is(name, k) == Op("==", Name(name), Num(k))
More(name, k) == Op(">", Name(name), Num(k))
Plus(name, k) == Op("+", Name(name), Num(k))
CallF(e) == Call("f", <<e>>)
Ask == Call("ask", << >>)
Asking == Op(">", Ask, Num(0))
Each(texts, T(_)) == [i \in DOMAIN texts |-> T(texts[i])]

\* What may be done inside a branch or a loop.
Changes == <<Add(x, 2), Set(x, CallF(Name(x)))>>
Leaves == Changes \o <<Emitted(Name(x)), Add(a, 1), Return(<<Name(x)>>)>>

Branches ==
    [i \in DOMAIN Leaves |->
        If(More(a, 1), <<Only(Leaves[i]), Only(Leaves[(i % Len(Leaves)) + 1])>>)]
    \o Each(Leaves, LAMBDA s : When(Op("&&", Asking, Op("||", Is(x, 1), Asking)), s))
    \o Each(Changes, LAMBDA s : When(Op(">", Num(2), Num(1)), s))
    \o <<If(Is(a, 1), <<Only(Return(<<Name(x)>>)), Only(Return(<<Num(2)>>))>>)>>

\* Loops that are left, and gone on with, before and after their work.
Rounds ==
    Each(<<Add(x, 2), Add(a, 1)>>, LAMBDA s :
         While(Asking, Block(<<s, When(Is(x, 3), Continue), Emitted(Name(x)), When(More(x, 4), Break)>>)))
    \o Each(Leaves, LAMBDA s : Loop(Block(<<When(Op("==", Ask, Num(0)), Break), s>>)))
    \o Each(Leaves, LAMBDA s :
         For(b, Num(0), Num(3), Block(<<When(Is(b, 1), Continue), s, Emitted(Name(b))>>)))
    \o Each(Changes, LAMBDA s :
         ForAny(b, Call("items", << >>), Block(<<When(Is(b, 2), Continue), s, Emitted(Name(b))>>)))
    \o Each(Changes \o <<Continue, Break>>, LAMBDA s :
         ForList(b, List(<<Num(4), Name(x), Num(5)>>), Block(<<When(Is(b, 4), s), Emitted(Name(b))>>)))

Picks ==
    Each(<<Num(9), CallF(Num(1))>>, LAMBDA e :
         Set(x, Match(0, Ask, <<Arm(<<Literal(0), Literal(2)>>, <<Num(8)>>),
                                Arm(<<Binding(n)>>, <<Op("+", Name(n), Name(x)), More(x, 1)>>),
                                Arm(<<Wildcard>>, <<e>>)>>)))

Moves ==
    <<Do(Assign(Tuple(<<Name(x), Name(a)>>), Tuple(<<Plus(a, 1), Name(x)>>))),
      Set(x, Op("-", Num(5), Name(x))), Set(x, Op("-", Name(x), Num(5))), Set(a, Op("-", Num(5), Name(a))),
      Let(<<y, n>>, Give(Tuple(<<Name(a), Name(x)>>))),
      Let(<<x>>, Give(Plus(x, 1)))>>

\* f is inlined or called, returns early, recurs, or calls g.
Callees ==
    <<<<Give(Plus(b, 1))>>,
      <<Add(b, 3), Emitted(Name(b)), Give(Name(b))>>,
      <<When(More(b, 2), Return(<<Num(0)>>)), Emitted(Name(b)), Give(Op("*", Name(b), Num(2)))>>,
      <<If(More(b, 2), <<Only(Give(Name(b))), Only(Give(Call("g", <<Name(b)>>)))>>)>>,
      <<For(n, Num(0), Num(3), Only(When(Op("==", Name(n), Name(b)), Return(<<Num(7)>>)))), Give(Name(b))>>,
      <<When(More(b, 3), Return(<<Name(b)>>)), Give(CallF(Plus(b, 2)))>>>>

Fun(params, ss) == [params |-> params, body |-> Block(ss)]
Program(ss, f) ==
    [main |-> Fun(<<a>>, <<Let(<<x>>, Give(Num(1)))>> \o ss
                         \o <<Emitted(Name(x)), Give(Op("+", Name(x), Name(a)))>>),
     f |-> Fun(<<b>>, f),
     g |-> Fun(<<n>>, <<Give(Op("-", Name(n), Num(1)))>>)]

\* Every statement by itself; some of them after, and inside, others; and
\* every callee.
Singles == Each(Branches \o Rounds \o Picks \o Moves, LAMBDA s : Program(<<s>>, Callees[1]))
Doubles == Each(Rounds, LAMBDA s : Program(<<s, Picks[1]>>, Callees[2]))
Nested == Each(Rounds, LAMBDA s :
               Program(<<For(y, Num(0), Num(2), Block(<<s, Add(x, 1)>>)), Moves[1]>>, Callees[3]))
Called == Each(Callees, LAMBDA f :
               Program(<<Set(x, Op("+", CallF(Num(1)), CallF(Num(3)))),
                         While(Op("<", CallF(Name(x)), Ask), Changes[2])>>, f))

MCPrograms == Singles \o Doubles \o Nested \o Called

\* Texts that do not run as written: a name of an inner block outlives it; an if
\* in the middle of an inlined function ends it; what a loop over a dynamic value
\* adds to a parameter is lost.
Shadowing ==
    <<Program(<<If(More(a, 0), <<Block(<<Let(<<x>>, Give(Num(2))), Emitted(Name(x))>>)>>)>>, Callees[1])>>
Inlining ==
    <<Program(<<Set(x, CallF(Num(1)))>>,
              <<If(More(b, 2), Each(<<Num(1), Num(2)>>, LAMBDA e : Only(Give(Call("emit", <<e>>))))),
                Give(Num(5))>>)>>
Parameters == <<Program(<<ForAny(b, Call("items", << >>), Only(Add(a, 1)))>>, Callees[1])>>

MCCalls == [prog : DOMAIN Programs, arg : {1, 3}, tape : {<<1, 2, 0, 3>>, <<3, 1, 1>>}, fuel : {-1, 1}]
MCItems == <<1, 2, 3>>
=============================================================================

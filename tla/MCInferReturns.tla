--------------------------- MODULE MCInferReturns ---------------------------
(***************************************************************************)
(* Two functions of one unannotated parameter.  In the first family of     *)
(* programs f may call itself and g, and g itself; in the second the two   *)
(* call one another with a list around the argument.                       *)
(***************************************************************************)
EXTENDS InferReturns

Lit(t) == [k |-> "lit", ty |-> Scalar(t)]
Param == [k |-> "var", name |-> 1]
CallOf(f, e) == [k |-> "call", fn |-> f, args |-> <<e>>]
Op(o, l, r) == [k |-> "op", op |-> o, left |-> l, right |-> r]
Wrap(e) == [k |-> "list", item |-> e]
Ret(e) == [k |-> "return", value |-> e]
Tail1(e) == [k |-> "expr", value |-> e, close |-> FALSE]
Skip == [k |-> "none"]
IfRet(e) == [k |-> "if", cond |-> Lit("Bool"), then |-> Ret(e), else |-> Skip]
Let(n, e) == [k |-> "let", name |-> n, value |-> e]
Fun(ss) == [tys |-> <<AnyTy>>, body |-> [k |-> "block", stmts |-> ss]]

Leaves == {Param, Lit("I32"), Lit("F64")}
Steps(f) == {CallOf(f, Param), Op("*", Param, CallOf(f, Param)), CallOf(f, Wrap(Param))}
Plain == {Fun(<<Tail1(e)>>) : e \in Leaves \cup {Op("-", Param, Lit("I64"))}}
Direct(f) == {Fun(<<IfRet(a), Tail1(b)>>) : a \in Leaves \cup Steps(f), b \in Leaves \cup Steps(f)}
Above == {Fun(<<Let(2, CallOf("g", Param)), IfRet(a), Tail1(b)>>) :
            a \in Leaves, b \in Leaves \cup {[k |-> "var", name |-> 2], CallOf("f", Param)}}
         \cup {Fun(<<[k |-> "while", cond |-> CallOf("g", Param), body |-> Ret(Lit("I32"))], [k |-> "return0"]>>),
               Fun(<<[k |-> "loop", body |-> IfRet(CallOf("g", Lit("F64")))]>>)}
DirectRecursion ==
    {[f |-> a, g |-> b] : a \in Direct("f") \cup Above,
                          b \in Plain \cup {Fun(<<IfRet(Lit("I32")), Tail1(e)>>) : e \in Steps("g")}}
MutualRecursion ==
    {[f |-> Fun(<<IfRet(CallOf("g", a)), Tail1(Lit("I32"))>>),
      g |-> Fun(<<IfRet(CallOf("f", a)), Tail1(b)>>)] : a \in {Param, Wrap(Param)}, b \in Leaves}
MCRequests == {<<f, <<Scalar(t)>>>> : f \in {"f", "g"}, t \in {"I32", "Str"}}
=============================================================================

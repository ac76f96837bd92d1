----------------------------- MODULE MCCompiler -----------------------------
(***************************************************************************)
(* What the compiler knows of names and of types: a behaviour is a session *)
(* of imports, or requests for the return types of a program.              *)
(*                                                                         *)
(* In a session there are two files that import one another, or each only  *)
(* the other; their definitions share the short name x.  h is private and  *)
(* generic y uses it, so that compiling a caller of y needs the scope of   *)
(* y's module.                                                             *)
(***************************************************************************)
EXTENDS MCInferReturns, ImportSession

CONSTANTS pa, pb, x, y, h, z, gpu

Def(n, p, g, u) == [name |-> n, pub |-> p, generic |-> g, uses |-> u]
Sourced(i, d) == [imports |-> i, defs |-> d]

Library == Sourced(<< >>, <<Def(<<h>>, FALSE, FALSE, << >>), Def(<<y>>, TRUE, TRUE, <<<<h>>>>)>>)
Caller == Sourced(<<pb>>, <<Def(<<x>>, TRUE, FALSE, <<<<y>>, <<pb, y>>, <<gpu, h>>>>)>>)
Hidden == Sourced(<< >>, <<Def(<<x>>, FALSE, FALSE, << >>)>>)
Circle(p) == Sourced(<<p>>, <<Def(<<x>>, TRUE, FALSE, <<<<x>>, <<z>>>>)>>)
Bad == Sourced(<< >>, <<Def(<<h>>, FALSE, FALSE, <<<<x>>>>), Def(<<x>>, TRUE, FALSE, <<<<y>>>>)>>)
Escapes == Sourced(<<Outside>>, << >>)

MCContents == {Library, Caller, Hidden, Circle(pa), Circle(pb), Bad, Escapes}
MCDisk == {(pa :> a) @@ (pb :> b) : a \in {Caller, Circle(pb), Escapes}, b \in {Library, Circle(pa), Bad, Hidden}}
MCNatives == {[by |-> "symbol", mod |-> Std, name |-> <<x>>],
              [by |-> "module", mod |-> gpu, name |-> <<h>>],
              [by |-> "extern", mod |-> gpu, name |-> <<x>>]}
MCStdNames == <<<<z>>, <<gpu, h>>>>

OneProgram == CHOOSE p \in Programs : TRUE
OneDisk == CHOOSE d \in InitialDisk : TRUE

MCInit == Init /\ InferInit /\ (prog = OneProgram \/ disk = OneDisk)
MCNext == \/ disk = OneDisk /\ calls = 0 /\ InferNext /\ UNCHANGED vars
          \/ prog = OneProgram /\ answered = {} /\ Next /\ UNCHANGED inferVars
MCSpec == MCInit /\ [][MCNext]_<<vars, inferVars>>
=============================================================================

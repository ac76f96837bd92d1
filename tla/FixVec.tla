------------------------------- MODULE FixVec -------------------------------
(***************************************************************************)
(* dynamic/src/fixvec.rs: a vector whose indices stay stable.  Removing an *)
(* element leaves a free slot, and push reuses the first free slot before  *)
(* it grows.  Positions are the code's, from 0; slot "pos" is element      *)
(* pos + 1 of the sequences.                                               *)
(***************************************************************************)
EXTENDS Integers, Sequences

CONSTANT Blank     \* T::default()

\* FixVec::default
NewFixVec == [buf |-> <<>>, useds |-> <<>>, len |-> 0]

Capacity(v) == Len(v.buf)

\* contains
FixContains(v, pos) == pos + 1 \in DOMAIN v.useds /\ v.useds[pos + 1]

\* The positions iter visits.
FixIndices(v) == {pos \in 0 .. Len(v.useds) - 1 : FixContains(v, pos)}

\* Mutant of FirstFree: the free slot nearest to the end.
LastFree(v) ==
  LET free == {pos \in 0 .. Len(v.useds) - 1 : ~FixContains(v, pos)}
  IN  IF free = {} THEN Len(v.useds)
      ELSE CHOOSE pos \in free : \A other \in free : pos >= other

\* useds.first_zero(), or the position after the end.
FirstFree(v) ==
  LET free == {pos \in 0 .. Len(v.useds) - 1 : ~FixContains(v, pos)}
  IN  IF free = {} THEN Len(v.useds)
      ELSE CHOOSE pos \in free : \A other \in free : pos <= other

\* push; the position it returns is FirstFree(v).
FixPush(v, x) ==
  LET pos == FirstFree(v)
  IN  IF pos < Len(v.useds)
      THEN [v EXCEPT !.buf[pos + 1] = x, !.useds[pos + 1] = TRUE, !.len = @ + 1]
      ELSE [buf |-> Append(v.buf, x), useds |-> Append(v.useds, TRUE), len |-> v.len + 1]

\* remove, of a position that may be free already.
FixRemove(v, pos) ==
  IF FixContains(v, pos)
  THEN [v EXCEPT !.buf[pos + 1] = Blank, !.useds[pos + 1] = FALSE, !.len = @ - 1]
  ELSE v
=============================================================================

----------------------------- MODULE SlotTable ------------------------------
(***************************************************************************)
(* What a list with stable indices promises its clients: each holds an     *)
(* index of its own from the moment it takes one until it gives it back,   *)
(* and always gets the lowest index nobody holds.                          *)
(***************************************************************************)
EXTENDS Integers, FiniteSets

CONSTANT Clients

VARIABLE held     \* the index of every client that holds one

Init == held = [c \in {} |-> 0]

Taken(i) == \E c \in DOMAIN held : held[c] = i

Take(c) ==
  /\ c \notin DOMAIN held
  /\ \E i \in 0 .. Cardinality(Clients) :
       /\ ~Taken(i)
       /\ \A j \in 0 .. i - 1 : Taken(j)
       /\ held' = [d \in DOMAIN held \cup {c} |-> IF d = c THEN i ELSE held[d]]

Give(c) ==
  /\ c \in DOMAIN held
  /\ held' = [d \in DOMAIN held \ {c} |-> held[d]]

Next == \E c \in Clients : Take(c) \/ Give(c)

Spec == Init /\ [][Next]_held
=============================================================================

-------------------------- MODULE RootMemoryProofs --------------------------
(***************************************************************************)
(* The memory mount, for any number of scripts, nodes, buckets and lists:  *)
(* who holds which bucket, why nobody waits for ever but scripts that add  *)
(* up lists in a ring, that what a script has read is its own, and that    *)
(* every update starts from the one before.                                *)
(*                                                                         *)
(* The last two rest on what can be reached.  Reach(h, roots) is the least *)
(* set of lists that holds the roots and, with a list, those inside it; so *)
(* two sets of roots stay apart as long as each is inside a set of lists   *)
(* that is closed in this way, and the two closed sets do not meet.        *)
(* Updates add up since a node is whole while one runs: what it has taken  *)
(* out counts as if it were still there.                                   *)
(***************************************************************************)
EXTENDS RootMemory, FiniteSetTheorems, SequenceTheorems, TLAPS

-----------------------------------------------------------------------------
(* The invariant *)

Ops == WriteOps \cup ReadOps \cup UpdateOps
Ats == UNION {[K -> Value] : K \in {D \in SUBSET Keys : IsFiniteSet(D)}}
Node == [kind : {"none", "object", "list", "map"}, at : Ats]
FrameOf == [list : Lists \cup {Null}, out : Seq(Value), next : Nat \ {0}]
Heaps == [Lists -> Seq(Value)]

Types ==
  /\ tree \in [Names -> Node]
  /\ heap \in Heaps
  /\ hand \in [Threads -> Value]
  /\ other \in [Threads -> Value]
  /\ reg \in [Threads -> Numbers]
  /\ call \in [Threads -> [op : Ops \cup {"none"}, name : Names \cup {"none"}, key : Keys,
                           locked : BOOLEAN]]
  /\ pc \in [Threads -> {"script", "wait", "copy", "join"}]
  /\ copy \in [Threads -> Seq(FrameOf)]
  /\ private \in [Threads -> BOOLEAN]

\* What a thread is in the middle of, by the place it is at.
AtItsPlace(t) ==
  /\ call[t].op # "none" => call[t].name \in Names
  /\ pc[t] \in {"wait", "copy"} => call[t].op # "none"
  /\ pc[t] = "script" => call[t].op \in UpdateOps \cup {"none"}
  /\ pc[t] = "join" => call[t].op = "none" /\ hand[t] \in Lists /\ other[t] \in Lists
  /\ copy[t] # <<>> => pc[t] = "copy"
  /\ reg[t] > 0 => pc[t] = "script"

\* Who holds a bucket's lock: a read while it copies, an update until its new
\* value is back.
LocksItsBucket(t) ==
  call[t].locked <=> \/ pc[t] = "copy" /\ call[t].op \in ReadOps \cup UpdateOps
                     \/ pc[t] = "script" /\ call[t].op \in UpdateOps

\* What a read copies stays where it was found.
StillThere(t) ==
  pc[t] = "copy" /\ call[t].op \in ReadOps /\ call[t].op # "get_list" => Found(t)

\* An update has its bucket for itself.
Exclusive == \A t, u \in Threads :
  t # u /\ call[t].locked /\ call[u].locked /\ Mine(t) = Mine(u) => ~ Writing(t)

LockInv ==
  /\ Types
  /\ \A t \in Threads : AtItsPlace(t) /\ LocksItsBucket(t) /\ StillThere(t)
  /\ Exclusive
-----------------------------------------------------------------------------
(* Least numbers and ranks *)

(* A set of numbers that is not empty has a least one. *)
LEMMA MinIsLeast ==
  ASSUME NEW S \in SUBSET Nat, S # {}
  PROVE  Min(S) \in S /\ \A k \in S : Min(S) <= k
<1> DEFINE UpTo(k) == {j \in S : j <= k}
           T == {UpTo(k) : k \in S}
           R == StrictSubsetOrdering(S)
<1>1. T \subseteq FiniteSubsetsOf(S) /\ T # {}
  <2>1. ASSUME NEW k \in S PROVE IsFiniteSet(UpTo(k))
    <3>1. UpTo(k) \in SUBSET Nat /\ k \in Nat /\ \A s \in UpTo(k) : s <= k
      OBVIOUS
    <3> HIDE DEF UpTo
    <3> QED
      BY <3>1, FS_BoundedSetOfNaturals
  <2>2. \A k \in S : UpTo(k) \subseteq S
    OBVIOUS
  <2> HIDE DEF UpTo
  <2> QED
    BY <2>1, <2>2 DEF FiniteSubsetsOf
<1>2. IsWellFoundedOn(R, FiniteSubsetsOf(S))
  BY FS_StrictSubsetOrderingWellFounded
<1>3. \E x \in T : \A y \in T : <<y, x>> \notin R
  <2> HIDE DEF T, R
  <2> QED
    BY <1>1, <1>2, WFMin
<1>4. PICK k \in S : \A j \in S : <<UpTo(j), UpTo(k)>> \notin R
  BY <1>3
<1>5. ASSUME NEW j \in S PROVE k <= j
  <2> SUFFICES ASSUME j < k PROVE FALSE
    OBVIOUS
  <2>1. UpTo(j) \subseteq UpTo(k) /\ k \in UpTo(k) /\ k \notin UpTo(j)
    <3>1. j \in Nat /\ k \in Nat /\ \A x \in Nat : x <= j => x <= k
      OBVIOUS
    <3>2. k <= k /\ ~ (k <= j)
      BY <3>1
    <3> QED
      BY <3>1, <3>2
  <2>2. UpTo(k) \subseteq S
    OBVIOUS
  <2> HIDE DEF UpTo
  <2>3. <<UpTo(j), UpTo(k)>> \in R
    BY <2>1, <2>2 DEF StrictSubsetOrdering
  <2> QED
    BY <1>4, <2>3
<1> QED
  BY <1>5 DEF Min

(* In a finite set of numbers there is one at every place. *)
LEMMA EveryPlaceTaken ==
  ASSUME NEW D \in SUBSET Nat, IsFiniteSet(D), NEW i \in 1 .. Cardinality(D)
  PROVE  \E k \in D : Cardinality({j \in D : j <= k}) = i
<1> DEFINE n == Cardinality(D)
           UpTo(k) == {j \in D : j <= k}
           place == [k \in D |-> Cardinality(UpTo(k))]
<1>1. n \in Nat
  BY FS_CardinalityType
<1>2. ASSUME NEW k \in D
      PROVE  UpTo(k) \in SUBSET D /\ IsFiniteSet(UpTo(k)) /\ Cardinality(UpTo(k)) \in 1 .. n
  <2>1. UpTo(k) \in SUBSET D /\ k \in UpTo(k)
    OBVIOUS
  <2> HIDE DEF UpTo
  <2>2. IsFiniteSet(UpTo(k)) /\ Cardinality(UpTo(k)) <= n
    BY <2>1, FS_Subset
  <2>3. Cardinality(UpTo(k)) \in Nat /\ Cardinality(UpTo(k)) # 0
    <3>1. Cardinality(UpTo(k)) \in Nat
      BY <2>2, FS_CardinalityType
    <3>2. Cardinality(UpTo(k)) = 0 <=> UpTo(k) = {}
      BY <2>2, FS_EmptySet
    <3> QED
      BY <2>1, <3>1, <3>2
  <2> QED
    BY <1>1, <2>1, <2>2, <2>3
<1>3. ASSUME NEW k \in D, NEW l \in D, k < l PROVE Cardinality(UpTo(k)) # Cardinality(UpTo(l))
  <2>1. UpTo(k) \in SUBSET UpTo(l) /\ l \in UpTo(l) /\ l \notin UpTo(k)
    <3>1. k \in Nat /\ l \in Nat /\ \A x \in Nat : x <= k => x <= l
      BY <1>3
    <3>2. l <= l /\ ~ (l <= k)
      BY <1>3, <3>1
    <3> QED
      BY <3>1, <3>2
  <2>2. IsFiniteSet(UpTo(l))
    BY <1>2
  <2> HIDE DEF UpTo
  <2>3. Cardinality(UpTo(l)) = Cardinality(UpTo(k)) => UpTo(l) = UpTo(k)
    BY <2>1, <2>2, FS_Subset
  <2> QED
    BY <2>1, <2>3
<1>4. \A k, l \in D : k < l \/ l < k \/ k = l
  OBVIOUS
<1>5. place \in Injection(D, 1 .. n)
  <2> HIDE DEF UpTo
  <2>1. place \in [D -> 1 .. n]
    BY <1>2
  <2>2. \A k, l \in D : place[k] = place[l] => k = l
    BY <1>3, <1>4
  <2> QED
    BY <2>1, <2>2 DEF Injection, IsInjective
<1>6. IsFiniteSet(1 .. n) /\ Cardinality(1 .. n) = n
  BY <1>1, FS_Interval
<1>7. place \in Surjection(D, 1 .. n)
  <2> HIDE DEF place
  <2>1. Cardinality(D) = Cardinality(1 .. n)
    BY <1>6
  <2> HIDE DEF n
  <2> QED
    BY <1>5, <1>6, <2>1, FS_Injection
<1>8. PICK k \in D : place[k] = i
  BY <1>7 DEF Surjection
<1> QED
  BY <1>8

-----------------------------------------------------------------------------
(* Reach, one list further. *)
More(h, near) == near \cup (Lists \cap UNION {Range(h[o]) : o \in near})

\* S holds the roots, and with every list the lists inside it.
Closed(h, roots, S) ==
  /\ S \subseteq Lists /\ roots \cap Lists \subseteq S
  /\ \A o \in S : Range(h[o]) \cap Lists \subseteq S

\* Reach stops growing exactly when nothing is left outside.
LEMMA ClosedIsFixed ==
  ASSUME NEW h, NEW S \in SUBSET Lists
  PROVE  More(h, S) = S <=> \A o \in S : Range(h[o]) \cap Lists \subseteq S
<1>1. ASSUME More(h, S) = S, NEW o \in S PROVE Range(h[o]) \cap Lists \subseteq S
  BY <1>1 DEF More
<1>2. ASSUME \A o \in S : Range(h[o]) \cap Lists \subseteq S PROVE More(h, S) = S
  BY <1>2 DEF More
<1> QED
  BY <1>1, <1>2

\* One list further stays inside every closed set.
LEMMA MoreGrows ==
  ASSUME NEW h, NEW near \in SUBSET Lists
  PROVE  /\ More(h, near) \in SUBSET Lists /\ near \subseteq More(h, near)
         /\ \A S \in SUBSET Lists : near \subseteq S /\ More(h, S) = S => More(h, near) \subseteq S
<1>1. More(h, near) \in SUBSET Lists /\ near \subseteq More(h, near)
  BY DEF More
<1>2. ASSUME NEW S \in SUBSET Lists, near \subseteq S, More(h, S) = S
      PROVE  More(h, near) \subseteq S
  <2>1. \A o \in near : Range(h[o]) \cap Lists \subseteq S
    BY <1>2, ClosedIsFixed
  <2> QED
    BY <1>2, <2>1 DEF More
<1> QED
  BY <1>1, <1>2

(* The recursion that defines Reach ends: there is a function that satisfies it. *)
LEMMA CloseExists ==
  ASSUME NEW h
  PROVE  \E f : f = [near \in SUBSET Lists |->
                       IF More(h, near) = near THEN near ELSE f[More(h, near)]]
<1> DEFINE Above(near) == {S \in SUBSET Lists : near \subseteq S /\ More(h, S) = S}
           Least(near) == {o \in Lists : \A S \in Above(near) : o \in S}
           g == [near \in SUBSET Lists |-> Least(near)]
<1>1. ASSUME NEW near \in SUBSET Lists, More(h, near) = near PROVE Least(near) = near
  <2>1. near \in Above(near)
    BY <1>1
  <2> QED
    BY <2>1
<1>2. ASSUME NEW near \in SUBSET Lists PROVE Least(near) = Least(More(h, near))
  <2>1. Above(near) = Above(More(h, near))
    BY MoreGrows
  <2> QED
    BY <2>1
<1>3. g = [near \in SUBSET Lists |->
              IF More(h, near) = near THEN near ELSE g[More(h, near)]]
  <2>1. \A near \in SUBSET Lists : More(h, near) \in SUBSET Lists
    BY MoreGrows
  <2> HIDE DEF Least
  <2> QED
    BY <1>1, <1>2, <2>1
<1> QED
  BY <1>3

(* Reach is the least set with the roots that is closed. *)
LEMMA ReachIsLeast ==
  ASSUME NEW h, NEW roots
  PROVE  /\ Closed(h, roots, Reach(h, roots))
         /\ \A S : Closed(h, roots, S) => Reach(h, roots) \subseteq S
<1> DEFINE Fits_(f) == f = [near \in SUBSET Lists |->
                             IF More(h, near) = near THEN near ELSE f[More(h, near)]]
           f == CHOOSE g : Fits_(g)
           start == roots \cap Lists
<1>1. Reach(h, roots) = f[start]
  BY DEF Reach, More
<1>2. Fits_(f)
  BY CloseExists
<1>3. \A near \in SUBSET Lists :
         f[near] = IF More(h, near) = near THEN near ELSE f[More(h, near)]
  BY <1>2
<1> DEFINE Good(near) ==
             /\ f[near] \in SUBSET Lists /\ near \subseteq f[near]
             /\ More(h, f[near]) = f[near]
             /\ \A S \in SUBSET Lists : near \subseteq S /\ More(h, S) = S => f[near] \subseteq S
           Bad == {near \in SUBSET Lists : ~ Good(near)}
           Left == {Lists \ near : near \in Bad}
<1> HIDE DEF f
<1>4. ASSUME NEW near \in SUBSET Lists, near = More(h, near) \/ Good(More(h, near))
      PROVE  Good(near)
  <2>1. CASE near = More(h, near)
    <3>1. f[near] = near
      BY <1>3, <2>1
    <3> QED
      BY <2>1, <3>1
  <2>2. CASE near # More(h, near) /\ Good(More(h, near))
    <3>1. f[near] = f[More(h, near)]
      BY <1>3, <2>2
    <3> QED
      BY <2>2, <3>1, MoreGrows
  <2> QED
    BY <1>4, <2>1, <2>2
<1>5. Bad = {}
  <2> SUFFICES ASSUME Bad # {} PROVE FALSE
    OBVIOUS
  <2>1. IsWellFoundedOn(StrictSubsetOrdering(Lists), FiniteSubsetsOf(Lists))
    BY FS_StrictSubsetOrderingWellFounded
  <2>2. FiniteSubsetsOf(Lists) = SUBSET Lists
    BY FS_FiniteSubsetsOfFinite, RootMemoryAssumption
  <2>3. Left \subseteq SUBSET Lists /\ Left # {}
    <3> HIDE DEF Good
    <3>1. PICK near \in Bad : TRUE
      OBVIOUS
    <3>2. Lists \ near \in Left
      BY <3>1
    <3> QED
      BY <3>2
  <2> HIDE DEF Left
  <2>4. \E x \in Left : \A y \in Left : ~ (<<y, x>> \in StrictSubsetOrdering(Lists))
    <3>1. IsWellFoundedOn(StrictSubsetOrdering(Lists), SUBSET Lists)
      BY <2>1, <2>2
    <3> QED
      BY <2>3, <3>1, WFMin
  <2> USE DEF Left
  <2>5. PICK near \in Bad : \A y \in Left : ~ (<<y, Lists \ near>> \in StrictSubsetOrdering(Lists))
    BY <2>4
  <2> HIDE DEF Good
  <2>6. near \in SUBSET Lists /\ More(h, near) \in SUBSET Lists /\ near \subseteq More(h, near)
    BY MoreGrows
  <2>7. near # More(h, near) /\ ~ Good(More(h, near))
    BY <1>4, <2>6
  <2>8. Lists \ More(h, near) \in Left
    BY <2>6, <2>7
  <2>9. <<Lists \ More(h, near), Lists \ near>> \in StrictSubsetOrdering(Lists)
    <3>1. Lists \ More(h, near) \subseteq Lists \ near
      BY <2>6
    <3>2. Lists \ More(h, near) # Lists \ near
      BY <2>6, <2>7
    <3> QED
      BY <3>1, <3>2 DEF StrictSubsetOrdering
  <2> QED
    BY <2>5, <2>8, <2>9
<1>6. Good(start)
  BY <1>5
<1>7. Closed(h, roots, f[start])
  BY <1>6, ClosedIsFixed DEF Closed
<1>8. ASSUME NEW S, Closed(h, roots, S) PROVE f[start] \subseteq S
  BY <1>6, <1>8, ClosedIsFixed DEF Closed
<1> QED
  BY <1>1, <1>7, <1>8
-----------------------------------------------------------------------------
(* Nodes and values *)

\* The parts of a node.
LEMMA NodeParts ==
  ASSUME NEW node \in Node
  PROVE  /\ DOMAIN node.at \in SUBSET Keys /\ DOMAIN node.at \in SUBSET Nat
         /\ IsFiniteSet(DOMAIN node.at)
         /\ node.at \in [DOMAIN node.at -> Value] /\ Range(node.at) \subseteq Value
         /\ node.kind \in {"none", "object", "list", "map"}
<1>1. node.at \in Ats /\ node.kind \in {"none", "object", "list", "map"}
  BY DEF Node
<1>2. PICK K \in SUBSET Keys : IsFiniteSet(K) /\ node.at \in [K -> Value]
  BY <1>1 DEF Ats
<1>3. DOMAIN node.at = K /\ \A k \in K : node.at[k] \in Value
  BY <1>2
<1> QED
  BY <1>1, <1>2, <1>3, RootMemoryAssumption DEF Range

\* A node has a finite number of keys.
LEMMA NodeOf ==
  ASSUME NEW kind \in {"none", "object", "list", "map"}, NEW K \in SUBSET Keys, IsFiniteSet(K),
         NEW at \in [K -> Value]
  PROVE  [kind |-> kind, at |-> at] \in Node
<1>1. at \in Ats
  BY DEF Ats
<1> QED
  BY <1>1 DEF Node

\* The nodes of add, add_list and add_map.
LEMMA SimpleNodes ==
  /\ NoNode \in Node /\ Range(NoNode.at) = {}
  /\ \A kind \in {"list", "map"} :
       [kind |-> kind, at |-> Empty] \in Node /\ Range(Empty) = {}
  /\ \A v \in Value : [kind |-> "object", at |-> Single(v)] \in Node /\ Range(Single(v)) = {v}
<1>1. Empty \in [{} -> Value] /\ IsFiniteSet({}) /\ {} \in SUBSET Keys
  BY FS_EmptySet DEF Empty
<1>2. Range(Empty) = {}
  BY DEF Range, Empty
<1>3. ASSUME NEW v \in Value
      PROVE  Single(v) \in [{0} -> Value] /\ Range(Single(v)) = {v}
  BY DEF Single, Range
<1>4. IsFiniteSet({0}) /\ {0} \in SUBSET Keys
  BY FS_Singleton, RootMemoryAssumption
<1>5. \A kind \in {"none", "list", "map"} : [kind |-> kind, at |-> Empty] \in Node
  BY <1>1, NodeOf
<1>6. \A v \in Value : [kind |-> "object", at |-> Single(v)] \in Node
  BY <1>3, <1>4, NodeOf
<1> QED
  BY <1>2, <1>3, <1>5, <1>6 DEF NoNode

(* A value put under a key of a node *)
LEMMA WithIsNode ==
  ASSUME NEW node \in Node, NEW k \in Keys, NEW v \in Value
  PROVE  /\ With(node, k, v) \in Node
         /\ With(node, k, v).kind = node.kind
         /\ k \in DOMAIN With(node, k, v).at
         /\ With(node, k, v).at[k] = v
         /\ Range(With(node, k, v).at) \subseteq Range(node.at) \cup {v}
<1> DEFINE D == DOMAIN node.at
           at == [j \in D \cup {k} |-> IF j = k THEN v ELSE node.at[j]]
<1>1. node = [kind |-> node.kind, at |-> node.at]
  BY DEF Node
<1>2. With(node, k, v) = [kind |-> node.kind, at |-> at]
  BY <1>1 DEF With
<1>3. IsFiniteSet(D \cup {k})
  BY NodeParts, FS_AddElement
<1>4. at \in [D \cup {k} -> Value] /\ D \cup {k} \in SUBSET Keys
  BY NodeParts
<1>5. [kind |-> node.kind, at |-> at] \in Node
  BY <1>3, <1>4, NodeParts, NodeOf
<1>6. Range(at) \subseteq Range(node.at) \cup {v}
  BY DEF Range
<1> HIDE DEF at
<1>7. k \in DOMAIN at /\ at[k] = v
  BY DEF at
<1> QED
  BY <1>2, <1>5, <1>6, <1>7

\* Taking a value out of a node puts none in.
LEMMA WithoutIsNode ==
  ASSUME NEW node \in Node, NEW k
  PROVE  /\ Without(node, k) \in Node
         /\ Range(Without(node, k).at) \subseteq Range(node.at)
<1> DEFINE D == DOMAIN node.at
           at == Restrict(node.at, D \ {k})
<1>1. node = [kind |-> node.kind, at |-> node.at]
  BY DEF Node
<1>2. Without(node, k) = [kind |-> node.kind, at |-> at]
  BY <1>1 DEF Without
<1>3. IsFiniteSet(D \ {k})
  BY NodeParts, FS_RemoveElement
<1>4. at \in [D \ {k} -> Value] /\ D \ {k} \in SUBSET Keys
  BY NodeParts DEF Restrict
<1>5. [kind |-> node.kind, at |-> at] \in Node
  BY <1>3, <1>4, NodeParts, NodeOf
<1>6. Range(at) \subseteq Range(node.at)
  BY DEF Range, Restrict
<1> HIDE DEF at
<1> QED
  BY <1>2, <1>5, <1>6

(* The node a call is about, and what it finds there *)
LEMMA CalledNode ==
  ASSUME LockInv, NEW t \in Threads, call[t].op # "none"
  PROVE  /\ call[t].name \in Names /\ At(t) \in Node /\ call[t].key \in Keys
         /\ NodeRoots(call[t].name) = Range(At(t).at) /\ Range(At(t).at) \subseteq Value
         /\ Found(t) => Stored(t) \in Range(At(t).at) /\ Stored(t) \in Value
<1>1. call[t].name \in Names /\ call[t].key \in Keys
  BY DEF LockInv, AtItsPlace, Types
<1>2. At(t) \in Node
  BY <1>1 DEF LockInv, Types, At
<1>3. Range(At(t).at) \subseteq Value
  BY <1>2, NodeParts
<1>4. Found(t) => Stored(t) \in Range(At(t).at)
  BY DEF Found, Stored, Range
<1> QED
  BY <1>1, <1>2, <1>3, <1>4 DEF NodeRoots, At

(* What a call that writes leaves: nothing but what was there, and what it brings. *)
LEMMA WrittenIsNode ==
  ASSUME LockInv, NEW t \in Threads, call[t].op # "none"
  PROVE  /\ Written(t) \in Node
         /\ Range(Written(t).at) \subseteq Range(At(t).at) \cup {hand[t]}
<1> DEFINE node == At(t)
           op == call[t].op
<1>1. node \in Node /\ hand[t] \in Value /\ call[t].key \in Keys
  BY CalledNode DEF LockInv, Types
<1>2. CASE op = "add"
  BY <1>1, <1>2, SimpleNodes DEF Written
<1>3. CASE op \in {"add_list", "add_map"}
  <2>1. Written(t) \in {[kind |-> "list", at |-> Empty], [kind |-> "map", at |-> Empty]}
    BY <1>3 DEF Written
  <2> QED
    BY <2>1, SimpleNodes
<1>4. CASE op = "remove"
  BY <1>4, SimpleNodes DEF Written
<1>5. CASE op = "push" /\ node.kind = "list" /\ FreeKeys(node) # {}
  <2> DEFINE least == Min(FreeKeys(node))
  <2>1. least \in Keys
    <3>1. FreeKeys(node) \in SUBSET Nat /\ FreeKeys(node) \subseteq Keys
      BY RootMemoryAssumption DEF FreeKeys
    <3> QED
      BY <1>5, <3>1, MinIsLeast
  <2>2. Written(t) = With(node, least, hand[t])
    BY <1>5 DEF Written
  <2>3. Written(t) \in Node /\ Range(Written(t).at) \subseteq Range(node.at) \cup {hand[t]}
    <3> HIDE DEF node, least
    <3>1. With(node, least, hand[t]) \in Node
      BY <1>1, <2>1, WithIsNode
    <3>2. Range(With(node, least, hand[t]).at) \subseteq Range(node.at) \cup {hand[t]}
      BY <1>1, <2>1, WithIsNode
    <3> QED
      BY <2>2, <3>1, <3>2
  <2> QED
    BY <2>3
<1>6. CASE op = "insert" /\ node.kind = "map"
  <2>1. Written(t) = With(node, call[t].key, hand[t])
    BY <1>6 DEF Written
  <2>3. Written(t) \in Node /\ Range(Written(t).at) \subseteq Range(node.at) \cup {hand[t]}
    <3> HIDE DEF node
    <3> QED
      BY <1>1, <2>1, WithIsNode
  <2> QED
    BY <2>3
<1>7. CASE op \in {"remove_idx", "remove_key"} /\ Found(t)
  <2>1. Written(t) = Without(node, call[t].key)
    BY <1>7 DEF Written
  <2>3. Written(t) \in Node /\ Range(Written(t).at) \subseteq Range(node.at)
    <3> HIDE DEF node
    <3> QED
      BY <1>1, <2>1, WithoutIsNode
  <2> QED
    BY <2>3
<1>8. CASE /\ op \notin {"add", "add_list", "add_map", "remove"}
           /\ ~ (op = "push" /\ node.kind = "list" /\ FreeKeys(node) # {})
           /\ ~ (op = "insert" /\ node.kind = "map")
           /\ ~ (op \in {"remove_idx", "remove_key"} /\ Found(t))
  <2>1. Written(t) = node
    BY <1>8 DEF Written
  <2> QED
    BY <1>1, <2>1
<1> QED
  BY <1>2, <1>3, <1>4, <1>5, <1>6, <1>7, <1>8

(* get_list copies the items of the node. *)
LEMMA ListedIsSeq ==
  ASSUME LockInv, NEW t \in Threads, call[t].op # "none"
  PROVE  Listed(t) \in Seq(Value) /\ Range(Listed(t)) \subseteq Range(At(t).at)
<1> DEFINE at == At(t).at
           D == DOMAIN at
           n == Cardinality(D)
           Place(k) == Cardinality({j \in D : j <= k})
           f == [i \in 1 .. n |-> at[CHOOSE k \in D : Place(k) = i]]
<1>1. At(t) \in Node /\ Range(at) \subseteq Value
  BY CalledNode
<1>2. D \in SUBSET Nat /\ IsFiniteSet(D)
  BY <1>1, NodeParts
<1>3. n \in Nat
  BY <1>2, FS_CardinalityType
<1>4. \A i \in 1 .. n : \E k \in D : Place(k) = i
  BY <1>2, EveryPlaceTaken
<1>5. \A i \in 1 .. n : f[i] \in Range(at)
  <2> HIDE DEF Place, D
  <2>1. ASSUME NEW i \in 1 .. n PROVE (CHOOSE k \in D : Place(k) = i) \in D
    BY <1>4
  <2> QED
    BY <2>1 DEF D, Range
<1>6. Listed(t) = f
  BY DEF Listed
<1> HIDE DEF at, n
<1>7. DOMAIN f = 1 .. n /\ f \in [1 .. n -> Value]
  BY <1>1, <1>5
<1> HIDE DEF f
<1>8. f \in Seq(Value)
  BY <1>3, <1>7, SeqDef
<1>9. Range(f) \subseteq Range(at)
  BY <1>5, <1>7 DEF Range
<1> QED
  BY <1>6, <1>8, <1>9 DEF at
-----------------------------------------------------------------------------
(* What a step of one thread does to the locks *)

\* A step of t is a step of nobody else.
Elsewhere(t) == \A u \in Threads \ {t} :
  /\ hand'[u] = hand[u] /\ other'[u] = other[u] /\ reg'[u] = reg[u] /\ call'[u] = call[u]
  /\ pc'[u] = pc[u] /\ copy'[u] = copy[u] /\ private'[u] = private[u]

\* It writes only a node whose bucket no other thread holds,
TreeStep(t) == \A n \in Names : tree'[n] = tree[n] \/ (n = call[t].name /\ Holders(t) = {})

\* and it locks a bucket that is free, or that only readers hold, to read.
CallStep(t) ==
  \/ ~ call'[t].locked
  \/ call'[t] = call[t]
  \/ Mine(t)' = Mine(t) /\ (Holders(t) = {} \/ (~ Writing(t)' /\ \A u \in Holders(t) : ~ Writing(u)))

LockStep(t) ==
  /\ Types' /\ Elsewhere(t) /\ AtItsPlace(t)' /\ LocksItsBucket(t)' /\ StillThere(t)'
  /\ TreeStep(t) /\ CallStep(t)

(* Such a step keeps the invariant of the locks. *)
LEMMA LockStepKeeps ==
  ASSUME LockInv, NEW t \in Threads, LockStep(t)
  PROVE  LockInv'
<1>1. ASSUME NEW u \in Threads PROVE (AtItsPlace(u) /\ LocksItsBucket(u) /\ StillThere(u))'
  <2>1. CASE u = t
    BY <2>1 DEF LockStep
  <2>2. CASE u # t
    <3>1. /\ hand'[u] = hand[u] /\ other'[u] = other[u] /\ reg'[u] = reg[u] /\ call'[u] = call[u]
          /\ pc'[u] = pc[u] /\ copy'[u] = copy[u]
      BY <2>2 DEF LockStep, Elsewhere
    <3>2. AtItsPlace(u) /\ LocksItsBucket(u) /\ StillThere(u)
      BY DEF LockInv
    <3>3. AtItsPlace(u)' /\ LocksItsBucket(u)'
      BY <3>1, <3>2 DEF AtItsPlace, LocksItsBucket
    <3>4. ASSUME pc[u] = "copy", call[u].op \in ReadOps, call[u].op # "get_list"
          PROVE  Found(u)'
      <4>1. Found(u) /\ call[u].locked /\ call[u].name \in Names
        BY <3>2, <3>4 DEF StillThere, LocksItsBucket, AtItsPlace
      <4>2. ~ (call[u].name = call[t].name /\ Holders(t) = {})
        BY <2>2, <4>1 DEF Holders, Mine
      <4>3. tree'[call[u].name] = tree[call[u].name]
        BY <4>1, <4>2 DEF LockStep, TreeStep
      <4> QED
        BY <3>1, <4>1, <4>3 DEF Found, At
    <3>5. StillThere(u)'
      BY <3>1, <3>4 DEF StillThere
    <3> QED
      BY <3>3, <3>5
  <2> QED
    BY <2>1, <2>2
<1>2. ASSUME NEW u \in Threads, NEW v \in Threads, u # v,
             call'[u].locked, call'[v].locked, Mine(u)' = Mine(v)'
      PROVE  ~ Writing(u)'
  <2>1. CASE u # t /\ v # t
    <3>1. call'[u] = call[u] /\ call'[v] = call[v]
      BY <2>1 DEF LockStep, Elsewhere
    <3> QED
      BY <1>2, <3>1 DEF LockInv, Exclusive, Mine, Writing
  <2>2. CASE u = t \/ v = t
    <3>1. PICK w \in Threads \ {t} : {u, v} = {t, w}
      BY <1>2, <2>2
    <3>2. call'[w] = call[w] /\ call'[t].locked /\ call'[w].locked /\ Mine(t)' = Mine(w)'
      BY <1>2, <3>1 DEF LockStep, Elsewhere
    <3>3. Mine(w)' = Mine(w)
      BY <3>2 DEF Mine
    <3>4. CASE call'[t] = call[t]
      BY <1>2, <3>1, <3>2, <3>4 DEF LockInv, Exclusive, Mine, Writing
    <3>5. CASE call'[t] # call[t]
      <4>1. w \in Holders(t)
        BY <3>2, <3>3, <3>5 DEF LockStep, CallStep, Holders, Mine
      <4>2. ~ Writing(t)' /\ ~ Writing(w)
        BY <3>2, <3>5, <4>1 DEF LockStep, CallStep
      <4> QED
        BY <3>1, <3>2, <4>2 DEF Writing
    <3> QED
      BY <3>4, <3>5
  <2> QED
    BY <2>1, <2>2
<1>3. Exclusive'
  BY <1>2 DEF Exclusive
<1> QED
  BY <1>1, <1>3 DEF LockInv, LockStep

(* The heap after a step: what the step wrote, without the lists that were freed. *)
LEMMA HeapStep ==
  ASSUME NEW h \in Heaps, Heap(h)
  PROVE  /\ heap' \in Heaps
         /\ \A o \in Lists : heap'[o] \in {h[o], <<>>} /\ Range(heap'[o]) \subseteq Range(h[o])
<1>1. \A o \in Lists : heap'[o] \in {h[o], <<>>}
  BY DEF Heap
<1>2. \A o \in Lists : h[o] \in Seq(Value)
  BY DEF Heaps
<1>3. heap' \in Heaps
  <2>1. heap' = [o \in Lists |-> IF o \in Reach(h, Roots') THEN h[o] ELSE <<>>]
    BY DEF Heap
  <2>2. <<>> \in Seq(Value)
    OBVIOUS
  <2> QED
    BY <1>2, <2>1, <2>2 DEF Heaps
<1>4. Range(<<>>) = {}
  BY DEF Range
<1> QED
  BY <1>1, <1>3, <1>4

\* The new list is one that nobody can reach.
LEMMA FreshIsFree ==
  ASSUME Free # {}
  PROVE  Fresh \in Lists /\ Fresh \notin Reach(heap, Roots) /\ Fresh \in Value
BY DEF Fresh, Free, Value

\* Freeing lists puts nothing into one.
LEMMA KeptHeap ==
  ASSUME LockInv, Kept
  PROVE  /\ heap' \in Heaps
         /\ \A o \in Lists : Range(heap'[o]) \subseteq Range(heap[o])
<1>1. heap \in Heaps
  BY DEF LockInv, Types
<1> QED
  BY <1>1, HeapStep DEF Kept

\* A value is a number, a list or Null.
LEMMA ValueKinds ==
  /\ 0 \in Value /\ Null \in Value /\ Numbers \subseteq Value /\ Lists \subseteq Value
  /\ \A v \in Value : v \in Numbers \/ v \in Lists \/ v = Null
  /\ \A v \in Numbers : v \notin Lists /\ v \in Nat
  /\ Null \notin Lists
BY RootMemoryAssumption DEF Value, Numbers
-----------------------------------------------------------------------------
(* The actions of a script between its calls *)

\* The frames of a copy that is under way.
LEMMA StackParts ==
  ASSUME NEW s \in Seq(FrameOf), s # <<>>
  PROVE  /\ Len(s) \in Nat \ {0} /\ DOMAIN s = 1 .. Len(s)
         /\ Last(s) = s[Len(s)] /\ Last(s) \in FrameOf
         /\ Front(s) \in Seq(FrameOf) /\ Len(Front(s)) = Len(s) - 1
         /\ \A i \in 1 .. Len(s) - 1 : Front(s)[i] = s[i] /\ s[i] \in FrameOf
<1>1. Len(s) \in Nat \ {0} /\ DOMAIN s = 1 .. Len(s) /\ \A i \in 1 .. Len(s) : s[i] \in FrameOf
  BY EmptySeq
<1>2. Last(s) = s[Len(s)] /\ Last(s) \in FrameOf
  BY <1>1 DEF Last
<1>3. Front(s) \in Seq(FrameOf) /\ Len(Front(s)) = Len(s) - 1
      /\ \A i \in 1 .. Len(s) - 1 : Front(s)[i] = s[i]
  BY <1>1 DEF Front
<1> QED
  BY <1>1, <1>2, <1>3

\* A copy starts at the first item.
LEMMA FrameIsTyped ==
  ASSUME NEW list \in Lists \cup {Null}, NEW out \in Seq(Value)
  PROVE  Frame(list, out) \in FrameOf
BY DEF Frame, FrameOf

\* The items of a list are values.
LEMMA HeapItems ==
  ASSUME LockInv, NEW o \in Lists
  PROVE  /\ heap[o] \in Seq(Value) /\ Range(heap[o]) \subseteq Value
         /\ heap[o] # <<>> => heap[o][1] \in Range(heap[o]) /\ heap[o][1] \in Value
<1>1. heap[o] \in Seq(Value)
  BY DEF LockInv, Types, Heaps
<1>2. DOMAIN heap[o] = 1 .. Len(heap[o]) /\ \A i \in 1 .. Len(heap[o]) : heap[o][i] \in Value
  BY <1>1
<1>3. heap[o] # <<>> => 1 \in 1 .. Len(heap[o])
  BY <1>1, EmptySeq
<1> QED
  BY <1>1, <1>2, <1>3 DEF Range

\* A step that leaves calls and nodes alone.
LEMMA ScriptStep ==
  ASSUME LockInv, NEW t \in Threads, heap' \in Heaps,
         hand' = [hand EXCEPT ![t] = hand'[t]], hand'[t] \in Value,
         other' = [other EXCEPT ![t] = other'[t]], other'[t] \in Value,
         reg' = [reg EXCEPT ![t] = reg'[t]], reg'[t] \in Numbers,
         private' = [private EXCEPT ![t] = private'[t]], private'[t] \in BOOLEAN,
         UNCHANGED <<tree, call, copy>>,
         pc[t] = "script",
         \/ UNCHANGED pc
         \/ /\ pc' = [pc EXCEPT ![t] = "join"]
            /\ call[t] = Idle /\ reg'[t] = 0 /\ {hand'[t], other'[t]} \subseteq Lists
  PROVE  LockStep(t)
<1>1. Types'
  BY DEF LockInv, Types
<1>2. Elsewhere(t)
  BY DEF LockInv, Types, Elsewhere
<1>3. AtItsPlace(t) /\ LocksItsBucket(t) /\ StillThere(t) /\ pc'[t] \in {"script", "join"}
  BY DEF LockInv, Types
<1>4. AtItsPlace(t)'
  BY <1>3 DEF AtItsPlace, Idle
<1>5. LocksItsBucket(t)'
  BY <1>3 DEF LocksItsBucket, Idle, UpdateOps, ReadOps
<1>6. StillThere(t)'
  BY <1>3 DEF StillThere, Found, At
<1>7. TreeStep(t) /\ CallStep(t)
  BY DEF TreeStep, CallStep
<1> QED
  BY <1>1, <1>2, <1>4, <1>5, <1>6, <1>7 DEF LockStep

\* A script that works on its values takes no bucket and gives none back: the
\* next seven actions.
LEMMA NewListLocks ==
  ASSUME LockInv, NEW t \in Threads, NewList(t)
  PROVE  LockStep(t)
<1>1. Fresh \in Lists /\ Fresh \in Value
  BY FreshIsFree DEF NewList
<1>2. heap' \in Heaps
  <2>1. heap \in Heaps /\ <<0>> \in Seq(Value)
    BY ValueKinds DEF LockInv, Types
  <2>2. [heap EXCEPT ![Fresh] = <<0>>] \in Heaps
    BY <2>1 DEF Heaps
  <2> QED
    BY <2>2, HeapStep DEF NewList
<1> QED
  BY <1>1, <1>2, ScriptStep DEF NewList, Alone, Running, LockInv, Types

LEMMA WrapLocks ==
  ASSUME LockInv, NEW t \in Threads, Wrap(t)
  PROVE  LockStep(t)
<1>1. Fresh \in Lists /\ Fresh \in Value
  BY FreshIsFree DEF Wrap
<1>2. heap' \in Heaps
  <2>1. heap \in Heaps /\ <<hand[t]>> \in Seq(Value)
    BY DEF LockInv, Types
  <2>2. [heap EXCEPT ![Fresh] = <<hand[t]>>] \in Heaps
    BY <2>1 DEF Heaps
  <2> QED
    BY <2>2, HeapStep DEF Wrap
<1> QED
  BY <1>1, <1>2, ScriptStep DEF Wrap, Running, LockInv, Types

LEMMA FirstLocks ==
  ASSUME LockInv, NEW t \in Threads, First(t)
  PROVE  LockStep(t)
<1>1. heap[hand[t]][1] \in Value
  BY HeapItems DEF First
<1>2. heap' \in Heaps
  BY KeptHeap DEF First
<1> QED
  BY <1>1, <1>2, ScriptStep DEF First, Alone, Running, LockInv, Types

LEMMA SwapLocks ==
  ASSUME LockInv, NEW t \in Threads, Swap(t)
  PROVE  LockStep(t)
<1>1. heap' \in Heaps
  BY KeptHeap DEF Swap
<1> QED
  BY <1>1, ScriptStep DEF Swap, Alone, Running, LockInv, Types

LEMMA BumpLocks ==
  ASSUME LockInv, NEW t \in Threads, Bump(t)
  PROVE  LockStep(t)
<1>1. heap' \in Heaps
  BY KeptHeap DEF Bump
<1>2. hand[t] \in Numbers \ {MaxCount} => hand[t] + 1 \in Value
  BY RootMemoryAssumption DEF Numbers, Value
<1>3. heap[hand[t]][1] \in Numbers \ {MaxCount} => heap[hand[t]][1] + 1 \in Numbers
  BY RootMemoryAssumption DEF Numbers
<1>4. hand'[t] \in Value /\ reg'[t] \in Numbers
  BY <1>2, <1>3 DEF Bump, LockInv, Types
<1>5. hand' = [hand EXCEPT ![t] = hand'[t]] /\ reg' = [reg EXCEPT ![t] = reg'[t]]
  BY DEF Bump, LockInv, Types
<1> QED
  BY <1>1, <1>4, <1>5, ScriptStep DEF Bump, Running, LockInv, Types

LEMMA JoinLocks ==
  ASSUME LockInv, NEW t \in Threads, Join(t)
  PROVE  LockStep(t)
<1>1. heap' \in Heaps
  BY KeptHeap DEF Join
<1>2. /\ pc[t] = "script" /\ pc' = [pc EXCEPT ![t] = "join"]
      /\ call[t] = Idle /\ reg'[t] = 0 /\ {hand'[t], other'[t]} \subseteq Lists
  BY DEF Join, Alone, Running
<1>3. /\ hand' = [hand EXCEPT ![t] = hand'[t]] /\ hand'[t] \in Value
      /\ other' = [other EXCEPT ![t] = other'[t]] /\ other'[t] \in Value
      /\ reg' = [reg EXCEPT ![t] = reg'[t]] /\ reg'[t] \in Numbers
      /\ private' = [private EXCEPT ![t] = private'[t]] /\ private'[t] \in BOOLEAN
      /\ UNCHANGED <<tree, call, copy>>
  BY DEF Join, LockInv, Types
<1> QED
  BY <1>1, <1>2, <1>3, ScriptStep

LEMMA BumpBackLocks ==
  ASSUME LockInv, NEW t \in Threads, BumpBack(t)
  PROVE  LockStep(t)
<1> DEFINE h == IF heap[hand[t]] = <<>> THEN heap ELSE [heap EXCEPT ![hand[t]][1] = reg[t]]
<1>1. h \in Heaps
  <2>1. heap \in Heaps /\ reg[t] \in Value
    BY ValueKinds DEF LockInv, Types
  <2>2. ASSUME hand[t] \in Lists, heap[hand[t]] # <<>>
        PROVE  [heap[hand[t]] EXCEPT ![1] = reg[t]] \in Seq(Value)
    BY <2>1, <2>2, HeapItems
  <2>3. ASSUME hand[t] \in Lists, heap[hand[t]] # <<>> PROVE h \in Heaps
    <3>1. h = [heap EXCEPT ![hand[t]] = [heap[hand[t]] EXCEPT ![1] = reg[t]]]
      BY <2>1, <2>3 DEF Heaps
    <3> QED
      BY <2>1, <2>2, <2>3, <3>1 DEF Heaps
  <2>4. ASSUME hand[t] \notin Lists PROVE h \in Heaps
    BY <2>1, <2>4 DEF Heaps
  <2> QED
    BY <2>1, <2>3, <2>4
<1>2. heap' \in Heaps
  <2>1. Heap(h)
    BY DEF BumpBack
  <2> HIDE DEF h
  <2> QED
    BY <1>1, <2>1, HeapStep
<1>3. reg'[t] = 0 /\ 0 \in Numbers
  BY RootMemoryAssumption DEF BumpBack, LockInv, Types, Numbers
<1> QED
  BY <1>2, <1>3, ScriptStep DEF BumpBack, LockInv, Types

LEMMA JoinMovesLocks ==
  ASSUME LockInv, NEW t \in Threads, JoinMoves(t)
  PROVE  LockStep(t)
<1> DEFINE l == hand[t]
           r == other[t]
           h == IF Fits(t) THEN [heap EXCEPT ![l] = @ \o heap[r], ![r] = <<>>] ELSE heap
<1>1. l \in Lists /\ r \in Lists /\ call[t].op = "none" /\ reg[t] = 0
  <2>1. AtItsPlace(t) /\ pc[t] = "join" /\ reg[t] \in Nat
    BY ValueKinds DEF LockInv, Types, JoinMoves
  <2> QED
    BY <2>1 DEF AtItsPlace
<1>2. heap \in Heaps /\ heap[l] \in Seq(Value) /\ heap[r] \in Seq(Value)
  BY <1>1, HeapItems DEF LockInv, Types
<1>3. h \in Heaps
  <2>1. heap[l] \o heap[r] \in Seq(Value) /\ <<>> \in Seq(Value)
    BY <1>2
  <2> QED
    BY <1>1, <1>2, <2>1 DEF Heaps
<1>4. heap' \in Heaps
  <2>1. Heap(h)
    BY DEF JoinMoves
  <2> HIDE DEF h
  <2> QED
    BY <1>3, <2>1, HeapStep
<1>5. Types' /\ Elsewhere(t)
  <2>1. Types'
    BY <1>4 DEF JoinMoves, LockInv, Types
  <2>2. Elsewhere(t)
    BY DEF JoinMoves, LockInv, Types, Elsewhere
  <2> QED
    BY <2>1, <2>2
<1>6. pc'[t] = "script" /\ UNCHANGED <<call, tree, copy, reg, hand, other>>
  BY DEF JoinMoves, LockInv, Types
<1>7. AtItsPlace(t)' /\ LocksItsBucket(t)' /\ StillThere(t)'
  <2>1. AtItsPlace(t) /\ LocksItsBucket(t) /\ pc[t] = "join"
    BY DEF LockInv, JoinMoves
  <2> QED
    BY <1>1, <1>6, <2>1 DEF AtItsPlace, LocksItsBucket, StillThere, UpdateOps, ReadOps
<1> QED
  BY <1>5, <1>6, <1>7 DEF LockStep, TreeStep, CallStep
-----------------------------------------------------------------------------
(* The calls of the tree *)

\* No operation is of two kinds.
LEMMA OpsApart ==
  /\ WriteOps \cap ReadOps = {} /\ WriteOps \cap UpdateOps = {} /\ ReadOps \cap UpdateOps = {}
  /\ "none" \notin Ops
  /\ {"remove_idx", "remove_key"} \subseteq WriteOps
BY DEF WriteOps, ReadOps, UpdateOps, Ops

\* Who is let in, by the lock of the bucket.
LEMMA LetIn ==
  ASSUME NEW t \in Threads, ~ Blocked(t), pc[t] = "wait"
  PROVE  /\ call[t].op \notin ReadOps => Holders(t) = {}
         /\ \A u \in Holders(t) : ~ Writing(u)
BY DEF Blocked

\* The call has given the script v.
LEMMA GiveTypes ==
  ASSUME LockInv, NEW t \in Threads, NEW v \in Value, Give(t, v)
  PROVE  /\ hand' \in [Threads -> Value] /\ hand'[t] = v
         /\ call' \in [Threads -> [op : Ops \cup {"none"}, name : Names \cup {"none"},
                                   key : Keys, locked : BOOLEAN]]
         /\ call'[t] = Idle
         /\ pc' \in [Threads -> {"script", "wait", "copy", "join"}] /\ pc'[t] = "script"
         /\ \A u \in Threads \ {t} : hand'[u] = hand[u] /\ call'[u] = call[u] /\ pc'[u] = pc[u]
<1>1. Idle \in [op : Ops \cup {"none"}, name : Names \cup {"none"}, key : Keys, locked : BOOLEAN]
  BY RootMemoryAssumption DEF Idle
<1> QED
  BY <1>1 DEF Give, LockInv, Types

\* A call that is over holds no lock.
LEMMA GiveEnds ==
  ASSUME LockInv, NEW t \in Threads, NEW v \in Value, Give(t, v), copy'[t] = <<>>, reg'[t] = reg[t],
         reg[t] = 0
  PROVE  AtItsPlace(t)' /\ LocksItsBucket(t)' /\ StillThere(t)' /\ CallStep(t)
<1>1. call'[t] = Idle /\ pc'[t] = "script"
  BY GiveTypes
<1>2. Idle.op = "none" /\ ~ Idle.locked
  BY DEF Idle
<1> QED
  BY <1>1, <1>2 DEF AtItsPlace, LocksItsBucket, StillThere, CallStep, UpdateOps

\* The thread has the bucket locked.
LEMMA LockedTypes ==
  ASSUME LockInv, NEW t \in Threads, Locked(t)
  PROVE  /\ call' \in [Threads -> [op : Ops \cup {"none"}, name : Names \cup {"none"},
                                   key : Keys, locked : BOOLEAN]]
         /\ call'[t].op = call[t].op /\ call'[t].name = call[t].name /\ call'[t].key = call[t].key
         /\ call'[t].locked
         /\ \A u \in Threads \ {t} : call'[u] = call[u]
BY DEF Locked, LockInv, Types

\* A number read to be written back is read outside of calls that wait or copy.
LEMMA NoReg ==
  ASSUME LockInv, NEW t \in Threads, pc[t] # "script"
  PROVE  reg[t] = 0 /\ (pc[t] # "copy" => copy[t] = <<>>)
<1>1. AtItsPlace(t) /\ reg[t] \in Nat
  BY ValueKinds DEF LockInv, Types
<1> QED
  BY <1>1 DEF AtItsPlace

LEMMA CallLocks ==
  ASSUME LockInv, NEW t \in Threads, Call(t)
  PROVE  LockStep(t)
<1>1. heap' \in Heaps
  BY KeptHeap DEF Call
<1>2. PICK op \in Ops, n \in Names, k \in Keys :
        call' = [call EXCEPT ![t] = [op |-> op, name |-> n, key |-> k, locked |-> FALSE]]
  <2>1. \A op : KeysOf(op) \subseteq Keys
    BY RootMemoryAssumption DEF KeysOf
  <2> QED
    BY <2>1 DEF Call, Ops
<1>3. Types'
  BY <1>1, <1>2 DEF Call, LockInv, Types
<1>4. Elsewhere(t)
  BY <1>2 DEF Call, LockInv, Types, Elsewhere
<1>5. call'[t] = [op |-> op, name |-> n, key |-> k, locked |-> FALSE] /\ pc'[t] = "wait"
      /\ reg'[t] = 0 /\ copy'[t] = <<>> /\ UNCHANGED tree
  <2>1. AtItsPlace(t)
    BY DEF LockInv
  <2> QED
    BY <1>2, <2>1 DEF Call, Alone, Running, LockInv, Types, AtItsPlace
<1>6. AtItsPlace(t)' /\ LocksItsBucket(t)' /\ StillThere(t)'
  BY <1>5, OpsApart DEF AtItsPlace, LocksItsBucket, StillThere
<1>7. TreeStep(t) /\ CallStep(t)
  BY <1>5 DEF TreeStep, CallStep
<1> QED
  BY <1>3, <1>4, <1>6, <1>7 DEF LockStep

\* A write has the bucket to itself.
LEMMA WriteLocks ==
  ASSUME LockInv, NEW t \in Threads, Write(t), ~ Blocked(t)
  PROVE  LockStep(t)
<1>1. heap' \in Heaps /\ reg[t] = 0 /\ copy[t] = <<>>
  BY KeptHeap, NoReg DEF Write
<1>2. pc[t] = "wait" /\ call[t].op \in WriteOps /\ call[t].op \notin ReadOps \cup UpdateOps
      /\ call[t].op # "none"
  BY OpsApart DEF Write, Ops
<1>3. Holders(t) = {}
  BY <1>2, LetIn
<1>4. Written(t) \in Node /\ (Found(t) => Stored(t) \in Value) /\ call[t].name \in Names
  BY <1>2, WrittenIsNode, CalledNode
<1>5. tree' \in [Names -> Node] /\ TreeStep(t)
  BY <1>3, <1>4 DEF Write, TreeStep, LockInv, Types
<1>6. other' = other /\ reg' = reg /\ copy' = copy
      /\ private' = [private EXCEPT ![t] = FALSE]
  BY DEF Write
<1>7. CASE Removes(t)
  <2>1. hand' = [hand EXCEPT ![t] = Stored(t)] /\ pc' = [pc EXCEPT ![t] = "copy"] /\ call' = call
    BY <1>7 DEF Write
  <2>2. Types'
    BY <1>1, <1>4, <1>5, <1>6, <1>7, <2>1 DEF LockInv, Types, Removes
  <2>3. Elsewhere(t)
    BY <1>6, <2>1 DEF LockInv, Types, Elsewhere
  <2>4. pc'[t] = "copy"
    BY <2>1 DEF LockInv, Types
  <2>5. AtItsPlace(t) /\ LocksItsBucket(t)
    BY DEF LockInv
  <2>6. AtItsPlace(t)' /\ LocksItsBucket(t)' /\ StillThere(t)'
    BY <1>1, <1>2, <1>6, <2>1, <2>4, <2>5 DEF AtItsPlace, LocksItsBucket, StillThere
  <2> QED
    BY <1>5, <2>1, <2>2, <2>3, <2>6 DEF LockStep, CallStep
<1>8. CASE ~ Removes(t)
  <2> DEFINE v == IF Keeps(t) THEN hand[t] ELSE IF Found(t) THEN Stored(t) ELSE Null
  <2>1. v \in Value
    BY <1>4, ValueKinds DEF LockInv, Types
  <2>2. Give(t, v)
    BY <1>8 DEF Write
  <2> HIDE DEF v
  <2>3. Types'
    BY <1>1, <1>5, <1>6, <2>1, <2>2, GiveTypes DEF LockInv, Types
  <2>4. Elsewhere(t)
    BY <1>6, <2>1, <2>2, GiveTypes DEF LockInv, Types, Elsewhere
  <2>5. AtItsPlace(t)' /\ LocksItsBucket(t)' /\ StillThere(t)' /\ CallStep(t)
    BY <1>1, <1>6, <2>1, <2>2, GiveEnds
  <2> QED
    BY <1>5, <2>3, <2>4, <2>5 DEF LockStep
<1> QED
  BY <1>7, <1>8

\* A read that finds its value holds the bucket while it copies.
LEMMA ReadLocks ==
  ASSUME LockInv, NEW t \in Threads, Read(t), ~ Blocked(t)
  PROVE  LockStep(t)
<1>1. heap' \in Heaps /\ reg[t] = 0 /\ copy[t] = <<>>
  BY KeptHeap, NoReg DEF Read
<1>2. pc[t] = "wait" /\ call[t].op \in ReadOps /\ call[t].op \notin UpdateOps
      /\ call[t].op # "none"
  BY OpsApart DEF Read, Ops
<1>3. \A u \in Holders(t) : ~ Writing(u)
  BY <1>2, LetIn
<1>4. tree' = tree /\ other' = other /\ reg' = reg /\ copy' = copy
  BY DEF Read
<1>5. TreeStep(t)
  BY <1>4 DEF TreeStep
<1>6. CASE /\ Found(t) \/ call[t].op = "get_list"
           /\ Locked(t) /\ pc' = [pc EXCEPT ![t] = "copy"] /\ UNCHANGED <<hand, private>>
  <2>1. Types'
    BY <1>1, <1>4, <1>6, LockedTypes DEF LockInv, Types
  <2>2. Elsewhere(t)
    BY <1>4, <1>6, LockedTypes DEF LockInv, Types, Elsewhere
  <2>3. pc'[t] = "copy" /\ call'[t].op = call[t].op /\ call'[t].name = call[t].name
        /\ call'[t].key = call[t].key /\ call'[t].locked
    BY <1>6, LockedTypes DEF LockInv, Types
  <2>4. AtItsPlace(t)
    BY DEF LockInv
  <2>5. AtItsPlace(t)' /\ LocksItsBucket(t)'
    BY <1>1, <1>2, <1>4, <2>3, <2>4 DEF AtItsPlace, LocksItsBucket
  <2>6. StillThere(t)'
    BY <1>4, <1>6, <2>3 DEF StillThere, Found, At
  <2>7. CallStep(t)
    BY <1>2, <1>3, <2>3 DEF CallStep, Mine, Writing
  <2> QED
    BY <1>5, <2>1, <2>2, <2>5, <2>6, <2>7 DEF LockStep
<1>7. CASE Give(t, Null) /\ private' = [private EXCEPT ![t] = TRUE]
  <2>1. Null \in Value
    BY ValueKinds
  <2>2. Types'
    BY <1>1, <1>4, <1>7, <2>1, GiveTypes DEF LockInv, Types
  <2>3. Elsewhere(t)
    BY <1>4, <1>7, <2>1, GiveTypes DEF LockInv, Types, Elsewhere
  <2>4. AtItsPlace(t)' /\ LocksItsBucket(t)' /\ StillThere(t)' /\ CallStep(t)
    BY <1>1, <1>4, <1>7, <2>1, GiveEnds
  <2> QED
    BY <1>5, <2>2, <2>3, <2>4 DEF LockStep
<1> QED
  BY <1>6, <1>7 DEF Read

\* An update holds its bucket while the closure runs ...
LEMMA TakeLocks ==
  ASSUME LockInv, NEW t \in Threads, Take(t), ~ Blocked(t)
  PROVE  LockStep(t)
<1>1. heap' \in Heaps /\ reg[t] = 0 /\ copy[t] = <<>>
  BY KeptHeap, NoReg DEF Take
<1>2. pc[t] = "wait" /\ call[t].op \in UpdateOps /\ call[t].op \notin ReadOps
      /\ call[t].op # "none"
  BY OpsApart DEF Take, Ops
<1>3. Holders(t) = {}
  BY <1>2, LetIn
<1>4. At(t) \in Node /\ (Found(t) => Stored(t) \in Value) /\ call[t].name \in Names
      /\ call[t].key \in Keys /\ Null \in Value /\ tree[call[t].name] = At(t)
  BY <1>2, CalledNode, ValueKinds DEF At
<1>5. reg' = reg /\ copy' = copy /\ private' = [private EXCEPT ![t] = FALSE]
  BY DEF Take
<1>6. CASE Found(t)
  <2>1. tree' = [tree EXCEPT ![call[t].name] = With(@, call[t].key, Null)] /\ Locked(t)
        /\ hand' = [hand EXCEPT ![t] = Stored(t)] /\ other' = [other EXCEPT ![t] = hand[t]]
        /\ pc' = [pc EXCEPT ![t] = "script"]
    BY <1>6 DEF Take
  <2>2. With(At(t), call[t].key, Null) \in Node
    BY <1>4, WithIsNode
  <2>3. tree' \in [Names -> Node] /\ TreeStep(t)
    BY <1>3, <1>4, <2>1, <2>2 DEF TreeStep, LockInv, Types
  <2>4. Types'
    BY <1>1, <1>4, <1>5, <1>6, <2>1, <2>3, LockedTypes DEF LockInv, Types
  <2>5. Elsewhere(t)
    BY <1>5, <2>1, LockedTypes DEF LockInv, Types, Elsewhere
  <2>6. pc'[t] = "script" /\ call'[t].op = call[t].op /\ call'[t].name = call[t].name
        /\ call'[t].key = call[t].key /\ call'[t].locked
    BY <2>1, LockedTypes DEF LockInv, Types
  <2>7. AtItsPlace(t)' /\ LocksItsBucket(t)' /\ StillThere(t)'
    BY <1>1, <1>2, <1>4, <1>5, <2>6 DEF AtItsPlace, LocksItsBucket, StillThere
  <2>8. CallStep(t)
    BY <1>3, <2>6 DEF CallStep, Mine
  <2> QED
    BY <2>3, <2>4, <2>5, <2>7, <2>8 DEF LockStep
<1>7. CASE ~ Found(t)
  <2>1. Give(t, Null) /\ tree' = tree /\ other' = other
    BY <1>7 DEF Take
  <2>2. Types'
    BY <1>1, <1>4, <1>5, <2>1, GiveTypes DEF LockInv, Types
  <2>3. Elsewhere(t)
    BY <1>4, <1>5, <2>1, GiveTypes DEF LockInv, Types, Elsewhere
  <2>4. AtItsPlace(t)' /\ LocksItsBucket(t)' /\ StillThere(t)' /\ CallStep(t)
    BY <1>1, <1>4, <1>5, <2>1, GiveEnds
  <2> QED
    BY <2>1, <2>2, <2>3, <2>4 DEF LockStep, TreeStep
<1> QED
  BY <1>6, <1>7

\* ... and until the new value has been copied.
LEMMA ReturnLocks ==
  ASSUME LockInv, NEW t \in Threads, Return(t)
  PROVE  LockStep(t)
<1>1. heap' \in Heaps
  BY KeptHeap DEF Return
<1>2. Types'
  BY <1>1 DEF Return, LockInv, Types
<1>3. Elsewhere(t)
  BY DEF Return, LockInv, Types, Elsewhere
<1>4. pc'[t] = "copy" /\ UNCHANGED <<tree, hand, other, reg, call, copy>> /\ reg[t] = 0
      /\ call[t].op \in UpdateOps /\ call[t].op \notin ReadOps /\ call[t].op # "none"
      /\ pc[t] = "script"
  BY OpsApart DEF Return, LockInv, Types, Ops
<1>5. AtItsPlace(t) /\ LocksItsBucket(t)
  BY DEF LockInv
<1>6. AtItsPlace(t)' /\ LocksItsBucket(t)' /\ StillThere(t)'
  BY <1>4, <1>5 DEF AtItsPlace, LocksItsBucket, StillThere
<1> QED
  BY <1>2, <1>3, <1>4, <1>6 DEF LockStep, TreeStep, CallStep
-----------------------------------------------------------------------------
(* deep_clone *)

\* What is copied is in the tree, or in the hand of an update or a removal.
LEMMA SourceIsValue ==
  ASSUME LockInv, NEW t \in Threads, pc[t] = "copy", call[t].op # "get_list"
  PROVE  /\ Source(t) \in Value
         /\ call[t].op \in ReadOps => Source(t) \in Range(At(t).at)
         /\ call[t].op \notin ReadOps => Source(t) = hand[t]
<1>1. call[t].op # "none" /\ hand[t] \in Value
  BY DEF LockInv, AtItsPlace, Types
<1>2. call[t].op \in ReadOps => Found(t)
  BY DEF LockInv, StillThere
<1> QED
  BY <1>1, <1>2, CalledNode DEF Source

\* A complete copy gives the bucket back; an update writes its value first.
LEMMA DeliverLocks ==
  ASSUME LockInv, NEW t \in Threads, NEW v \in Value, pc[t] = "copy", Deliver(t, v),
         heap' \in Heaps, other' = other, reg' = reg, copy' = [copy EXCEPT ![t] = <<>>]
  PROVE  LockStep(t)
<1>1. AtItsPlace(t) /\ LocksItsBucket(t) /\ reg[t] = 0
  BY NoReg DEF LockInv
<1>2. Give(t, v) /\ private' = [private EXCEPT ![t] = TRUE]
  BY DEF Deliver
<1>3. tree' \in [Names -> Node] /\ TreeStep(t)
  <2>1. CASE Writing(t)
    <3>1. call[t].op # "none" /\ call[t].locked
      BY <1>1, <2>1, OpsApart DEF LocksItsBucket, Writing, Ops
    <3>2. Holders(t) = {}
      BY <2>1, <3>1 DEF Holders, LockInv, Exclusive, Mine
    <3>3. At(t) \in Node /\ call[t].name \in Names /\ call[t].key \in Keys /\ hand[t] \in Value
          /\ tree[call[t].name] = At(t)
      BY <3>1, CalledNode DEF LockInv, Types, At
    <3>4. With(At(t), call[t].key, hand[t]) \in Node
      BY <3>3, WithIsNode
    <3>5. tree' = [tree EXCEPT ![call[t].name] = With(@, call[t].key, hand[t])]
      BY <2>1 DEF Deliver
    <3> QED
      BY <3>2, <3>3, <3>4, <3>5 DEF TreeStep, LockInv, Types
  <2>2. CASE ~ Writing(t)
    BY <2>2 DEF Deliver, TreeStep, LockInv, Types
  <2> QED
    BY <2>1, <2>2
<1>4. copy' \in [Threads -> Seq(FrameOf)] /\ copy'[t] = <<>>
  <2>1. <<>> \in Seq(FrameOf)
    OBVIOUS
  <2> QED
    BY <2>1 DEF LockInv, Types
<1>5. Types'
  BY <1>2, <1>3, <1>4, GiveTypes DEF LockInv, Types
<1>6. Elsewhere(t)
  BY <1>2, GiveTypes DEF LockInv, Types, Elsewhere
<1>7. AtItsPlace(t)' /\ LocksItsBucket(t)' /\ StillThere(t)' /\ CallStep(t)
  BY <1>1, <1>2, <1>4, GiveEnds
<1> QED
  BY <1>3, <1>5, <1>6, <1>7 DEF LockStep

\* A step of a copy that goes on.
LEMMA CopyStepLocks ==
  ASSUME LockInv, NEW t \in Threads, pc[t] = "copy", heap' \in Heaps,
         NEW frames \in Seq(FrameOf), copy' = [copy EXCEPT ![t] = frames],
         UNCHANGED <<tree, hand, other, reg, call, pc, private>>
  PROVE  LockStep(t)
<1>1. Types'
  BY DEF LockInv, Types
<1>2. Elsewhere(t)
  BY DEF LockInv, Types, Elsewhere
<1>3. AtItsPlace(t) /\ LocksItsBucket(t) /\ StillThere(t)
  BY DEF LockInv
<1>4. AtItsPlace(t)' /\ LocksItsBucket(t)'
  BY <1>3 DEF AtItsPlace, LocksItsBucket
<1>5. StillThere(t)'
  BY <1>3 DEF StillThere, Found, At
<1> QED
  BY <1>1, <1>2, <1>4, <1>5 DEF LockStep, TreeStep, CallStep

\* No step of a copy takes or gives back a bucket, but the last.
LEMMA CopyBeginsLocks ==
  ASSUME LockInv, NEW t \in Threads, CopyBegins(t)
  PROVE  LockStep(t)
<1>1. heap' \in Heaps /\ pc[t] = "copy" /\ call[t].op # "none"
  BY KeptHeap DEF CopyBegins, LockInv, AtItsPlace
<1>2. CASE call[t].op = "get_list" /\ copy' = [copy EXCEPT ![t] = <<Frame(Null, Listed(t))>>]
           /\ UNCHANGED <<tree, hand, other, reg, call, pc, private>>
  <2>1. <<Frame(Null, Listed(t))>> \in Seq(FrameOf)
    <3>1. Listed(t) \in Seq(Value)
      BY <1>1, ListedIsSeq
    <3>2. Frame(Null, Listed(t)) \in FrameOf
      BY <3>1, FrameIsTyped
    <3> QED
      BY <3>2
  <2> QED
    BY <1>1, <1>2, <2>1, CopyStepLocks
<1>3. CASE Source(t) \in Lists /\ copy' = [copy EXCEPT ![t] = <<Frame(Source(t), heap[Source(t)])>>]
           /\ UNCHANGED <<tree, hand, other, reg, call, pc, private>>
  <2>1. <<Frame(Source(t), heap[Source(t)])>> \in Seq(FrameOf)
    BY <1>3, HeapItems, FrameIsTyped
  <2> QED
    BY <1>1, <1>3, <2>1, CopyStepLocks
<1>4. CASE call[t].op # "get_list" /\ Deliver(t, Source(t)) /\ copy' = copy
           /\ UNCHANGED <<other, reg>>
  <2>1. Source(t) \in Value
    BY <1>1, <1>4, SourceIsValue
  <2>2. copy' = [copy EXCEPT ![t] = <<>>]
    BY <1>4 DEF CopyBegins, LockInv, Types
  <2> QED
    BY <1>1, <1>4, <2>1, <2>2, DeliverLocks
<1> QED
  BY <1>2, <1>3, <1>4 DEF CopyBegins

(* The next item to copy *)
LEMMA PendingLeast ==
  ASSUME NEW frame \in FrameOf, Pending(frame) # {}
  PROVE  LET at == Min(Pending(frame))
         IN  /\ at \in DOMAIN frame.out /\ at \in Nat \ {0} /\ frame.next <= at
             /\ frame.out[at] \in Lists
             /\ \A i \in DOMAIN frame.out : i >= frame.next /\ i < at => frame.out[i] \notin Lists
<1> DEFINE at == Min(Pending(frame))
<1>1. frame.next \in Nat \ {0} /\ frame.out \in Seq(Value) /\ Len(frame.out) \in Nat
      /\ DOMAIN frame.out = 1 .. Len(frame.out)
  BY DEF FrameOf
<1>2. Pending(frame) \in SUBSET Nat
  BY <1>1 DEF Pending
<1>3. at \in Pending(frame) /\ \A i \in Pending(frame) : at <= i
  BY <1>2, MinIsLeast
<1> HIDE DEF at
<1>4. at \in frame.next .. Len(frame.out) /\ frame.out[at] \in Lists
  BY <1>3 DEF Pending
<1>5. ASSUME NEW i \in DOMAIN frame.out, i >= frame.next, i < at, frame.out[i] \in Lists
      PROVE  FALSE
  <2>1. i \in Pending(frame)
    BY <1>1, <1>5 DEF Pending
  <2>2. at <= i /\ i \in Nat /\ at \in Nat
    BY <1>1, <1>3, <1>4, <2>1
  <2> QED
    BY <1>5, <2>2
<1>6. at \in DOMAIN frame.out /\ at \in Nat \ {0} /\ frame.next <= at
  BY <1>1, <1>4
<1> QED
  BY <1>4, <1>5, <1>6 DEF at

(* The frames after the copy has gone into the next list, and after it has come *)
(* out of one.                                                                   *)
Deeper(t) ==
  LET frame == Last(copy[t])
      at == Min(Pending(frame))
  IN  Append(Front(copy[t]) \o <<[frame EXCEPT !.next = at]>>,
             Frame(frame.out[at], heap[frame.out[at]]))
Shallower(t) ==
  LET outer == Front(copy[t])
  IN  Append(Front(outer), Filled(Last(outer), Fresh))

\* Both are frames again.
LEMMA DeeperIsTyped ==
  ASSUME LockInv, NEW t \in Threads, copy[t] # <<>>, Pending(Last(copy[t])) # {}
  PROVE  Deeper(t) \in Seq(FrameOf)
<1> DEFINE s == copy[t]
           frame == Last(s)
           at == Min(Pending(frame))
           new == Frame(frame.out[at], heap[frame.out[at]])
           old == [frame EXCEPT !.next = at]
<1>1. s \in Seq(FrameOf) /\ Front(s) \in Seq(FrameOf) /\ frame \in FrameOf
  <2>1. s \in Seq(FrameOf)
    BY DEF LockInv, Types
  <2> QED
    BY <2>1, StackParts
<1>2. at \in Nat \ {0} /\ frame.out[at] \in Lists
  BY <1>1, PendingLeast
<1>3. new \in FrameOf
  BY <1>2, HeapItems, FrameIsTyped
<1>4. old \in FrameOf
  <2> HIDE DEF at, frame
  <2> QED
    BY <1>1, <1>2 DEF FrameOf
<1>5. Deeper(t) = Append(Front(s) \o <<old>>, new)
  BY DEF Deeper
<1> HIDE DEF new, old, s
<1>6. Front(s) \o <<old>> \in Seq(FrameOf)
  BY <1>1, <1>4
<1> QED
  BY <1>3, <1>5, <1>6

LEMMA ShallowerIsTyped ==
  ASSUME LockInv, NEW t \in Threads, copy[t] # <<>>, Front(copy[t]) # <<>>, Free # {}
  PROVE  Shallower(t) \in Seq(FrameOf)
<1> DEFINE outer == Front(copy[t])
           frame == Last(outer)
           new == Filled(frame, Fresh)
<1>1. outer \in Seq(FrameOf)
  <2>1. copy[t] \in Seq(FrameOf)
    BY DEF LockInv, Types
  <2> QED
    BY <2>1, StackParts
<1>2. Front(outer) \in Seq(FrameOf) /\ frame \in FrameOf
  BY <1>1, StackParts
<1>3. new \in FrameOf
  <2>1. Fresh \in Value
    BY FreshIsFree
  <2>2. frame.out \in Seq(Value) /\ frame.next \in Nat \ {0} /\ frame.list \in Lists \cup {Null}
    BY <1>2 DEF FrameOf
  <2> DEFINE out == [frame.out EXCEPT ![frame.next] = Fresh]
  <2>3. out \in Seq(Value)
    <3>1. frame.out \in [1 .. Len(frame.out) -> Value] /\ Len(frame.out) \in Nat
      BY <2>2
    <3> HIDE DEF frame
    <3>2. out \in [1 .. Len(frame.out) -> Value]
      BY <2>1, <3>1
    <3> HIDE DEF out
    <3> QED
      BY <3>1, <3>2, SeqDef
  <2>4. new = [list |-> frame.list, out |-> out, next |-> frame.next + 1]
    BY DEF Filled
  <2>5. frame.next + 1 \in Nat \ {0}
    BY <2>2
  <2> HIDE DEF new, frame, out
  <2> QED
    BY <2>2, <2>3, <2>4, <2>5 DEF FrameOf
<1>4. Shallower(t) = Append(Front(outer), new)
  BY DEF Shallower
<1> HIDE DEF new, outer
<1> QED
  BY <1>2, <1>3, <1>4

LEMMA CopyEntersLocks ==
  ASSUME LockInv, NEW t \in Threads, CopyEnters(t)
  PROVE  LockStep(t)
<1>1. heap' \in Heaps /\ pc[t] = "copy"
  BY KeptHeap DEF CopyEnters, LockInv, AtItsPlace
<1>2. copy' = [copy EXCEPT ![t] = Deeper(t)]
  BY DEF CopyEnters, Deeper, LockInv, Types
<1>3. Deeper(t) \in Seq(FrameOf)
  BY DeeperIsTyped DEF CopyEnters
<1> QED
  BY <1>1, <1>2, <1>3, CopyStepLocks DEF CopyEnters

\* A list that is copied through becomes the new list.
LEMMA CopyLeavesHeap ==
  ASSUME LockInv, NEW t \in Threads, CopyLeaves(t)
  PROVE  /\ heap' \in Heaps
         /\ Fresh \in Lists /\ Last(copy[t]) \in FrameOf
         /\ \A o \in Lists : Range(heap'[o]) \subseteq
              (IF o = Fresh THEN Range(Last(copy[t]).out) ELSE Range(heap[o]))
<1> DEFINE h == [heap EXCEPT ![Fresh] = Last(copy[t]).out]
<1>1. Fresh \in Lists
  BY FreshIsFree DEF CopyLeaves
<1>2. Last(copy[t]) \in FrameOf
  <2>1. copy[t] \in Seq(FrameOf) /\ copy[t] # <<>>
    BY DEF LockInv, Types, CopyLeaves
  <2> QED
    BY <2>1, StackParts
<1>3. heap \in Heaps /\ Last(copy[t]).out \in Seq(Value)
  BY <1>2 DEF FrameOf, LockInv, Types
<1>4. h \in Heaps /\ \A o \in Lists : h[o] = IF o = Fresh THEN Last(copy[t]).out ELSE heap[o]
  BY <1>1, <1>3 DEF Heaps
<1>5. Heap(h)
  BY DEF CopyLeaves
<1> HIDE DEF h
<1> QED
  BY <1>1, <1>2, <1>4, <1>5, HeapStep

LEMMA CopyLeavesLocks ==
  ASSUME LockInv, NEW t \in Threads, CopyLeaves(t)
  PROVE  LockStep(t)
<1>1. heap' \in Heaps /\ pc[t] = "copy" /\ Fresh \in Value
  BY CopyLeavesHeap, FreshIsFree DEF CopyLeaves, LockInv, AtItsPlace
<1>2. CASE Front(copy[t]) = <<>>
  <2>1. Deliver(t, Fresh) /\ copy' = [copy EXCEPT ![t] = <<>>] /\ other' = other /\ reg' = reg
    BY <1>2 DEF CopyLeaves
  <2> QED
    BY <1>1, <2>1, DeliverLocks
<1>3. CASE Front(copy[t]) # <<>>
  <2>1. copy' = [copy EXCEPT ![t] = Shallower(t)]
        /\ UNCHANGED <<tree, hand, other, reg, call, pc, private>>
    BY <1>3 DEF CopyLeaves, Shallower, LockInv, Types
  <2>2. Shallower(t) \in Seq(FrameOf)
    BY <1>3, ShallowerIsTyped DEF CopyLeaves
  <2> QED
    BY <1>1, <2>1, <2>2, CopyStepLocks
<1> QED
  BY <1>2, <1>3
-----------------------------------------------------------------------------
(* The locks, in every state *)

\* Every action of thread t is one of these.
LEMMA ThreadSteps ==
  ASSUME LockInv, NEW t \in Threads, Script(t) \/ Proceed(t)
  PROVE  LockStep(t)
<1>1. CASE Script(t)
  BY <1>1, NewListLocks, WrapLocks, FirstLocks, SwapLocks, BumpLocks, CallLocks, JoinLocks
     DEF Script
<1>2. CASE Proceed(t)
  BY <1>2, BumpBackLocks, JoinMovesLocks, WriteLocks, ReadLocks, TakeLocks, ReturnLocks,
     CopyBeginsLocks, CopyEntersLocks, CopyLeavesLocks DEF Proceed
<1> QED
  BY <1>1, <1>2

\* At first nobody holds a bucket.
LEMMA InitLocks ==
  ASSUME Init
  PROVE  LockInv
<1> DEFINE a == CHOOSE o \in Lists : TRUE
           b == CHOOSE o \in Lists : o # a
<1>1. /\ heap \in {[o \in Lists |-> IF o = a THEN <<0>> ELSE IF o = b THEN items ELSE <<>>] :
                    items \in {<<0>>, <<a>>}}
      /\ hand \in [Threads -> {0, a, b}]
      /\ other \in [Threads -> {Null, a}]
      /\ tree \in [Names -> {NoNode, [kind |-> "object", at |-> Single(b)]}]
      /\ reg = [t \in Threads |-> 0]
      /\ call = [t \in Threads |-> Idle]
      /\ pc = [t \in Threads |-> "script"]
      /\ copy = [t \in Threads |-> <<>>]
      /\ private = [t \in Threads |-> FALSE]
      /\ {a, b} \subseteq Reach(heap, Roots)
  BY DEF Init
<1> HIDE DEF a, b
<1>2. a \in Lists /\ b \in Lists
  BY <1>1, ReachIsLeast DEF Closed
<1>3. a \in Value /\ b \in Value /\ 0 \in Value /\ Null \in Value /\ 0 \in Numbers
  BY <1>2, ValueKinds, RootMemoryAssumption DEF Numbers
<1>4. heap \in Heaps
  <2>1. <<0>> \in Seq(Value) /\ <<a>> \in Seq(Value) /\ <<>> \in Seq(Value)
    BY <1>3
  <2>2. PICK items \in Seq(Value) :
          heap = [o \in Lists |-> IF o = a THEN <<0>> ELSE IF o = b THEN items ELSE <<>>]
    BY <1>1, <2>1
  <2> QED
    BY <2>1, <2>2 DEF Heaps
<1>5. tree \in [Names -> Node]
  <2>1. NoNode \in Node /\ [kind |-> "object", at |-> Single(b)] \in Node
    BY <1>3, SimpleNodes
  <2> QED
    BY <1>1, <2>1
<1>6. Idle \in [op : Ops \cup {"none"}, name : Names \cup {"none"}, key : Keys, locked : BOOLEAN]
  BY RootMemoryAssumption DEF Idle
<1>7. Types
  <2>1. <<>> \in Seq(FrameOf)
    OBVIOUS
  <2> QED
    BY <1>1, <1>3, <1>4, <1>5, <1>6, <2>1 DEF Types
<1>8. ASSUME NEW t \in Threads PROVE AtItsPlace(t) /\ LocksItsBucket(t) /\ StillThere(t)
  <2>1. call[t] = Idle /\ pc[t] = "script" /\ reg[t] = 0 /\ copy[t] = <<>>
    BY <1>1
  <2>2. call[t].op = "none" /\ ~ call[t].locked
    BY <2>1 DEF Idle
  <2> QED
    BY <2>1, <2>2 DEF AtItsPlace, LocksItsBucket, StillThere, UpdateOps
<1>9. Exclusive
  <2>1. \A t \in Threads : ~ call[t].locked
    BY <1>1 DEF Idle
  <2> QED
    BY <2>1 DEF Exclusive
<1> QED
  BY <1>7, <1>8, <1>9 DEF LockInv

LEMMA UnchangedLocks ==
  ASSUME LockInv, UNCHANGED vars
  PROVE  LockInv'
<1>1. UNCHANGED <<tree, heap, hand, other, reg, call, pc, copy, private>>
  BY DEF vars, tracked
<1>2. Types'
  BY <1>1 DEF LockInv, Types
<1>3. \A t \in Threads : AtItsPlace(t)' /\ LocksItsBucket(t)' /\ StillThere(t)'
  BY <1>1 DEF LockInv, AtItsPlace, LocksItsBucket, StillThere, Found, At
<1>4. Exclusive'
  BY <1>1 DEF LockInv, Exclusive, Mine, Writing
<1> QED
  BY <1>2, <1>3, <1>4 DEF LockInv

(* A bucket is locked by one update, or by readers; what a read is copying stays *)
(* in its node until the copy is complete.                                       *)
THEOREM BucketsExclusive == Spec => []LockInv
<1>1. ASSUME LockInv, [Next]_vars PROVE LockInv'
  <2>1. CASE Next
    BY <1>1, <2>1, ThreadSteps, LockStepKeeps DEF Next
  <2> QED
    BY <1>1, <2>1, UnchangedLocks
<1> QED
  BY <1>1, InitLocks, PTL DEF Spec

-----------------------------------------------------------------------------
(* Who waits for whom *)

\* A thread that is blocked has a thread before it that adds lists up and is blocked
\* as well, or is not at rest and not blocked.
LEMMA BlockedJoiner ==
  ASSUME LockInv, \A t \in Threads : Blocked(t) \/ AtRest(t),
         NEW t \in Threads, Blocked(t)
  PROVE  \E u \in Threads : pc[u] = "join"
<1> SUFFICES ASSUME \A u \in Threads : pc[u] # "join" PROVE FALSE
  OBVIOUS
<1>1. \A o : ListWriters(o) = {}
  BY DEF ListWriters
<1>2. \A u \in Threads : pc[u] # "copy"
  BY <1>1 DEF Blocked, AtRest
<1>3. \A u \in Threads : copy[u] = <<>>
  BY <1>2 DEF LockInv, AtItsPlace
<1>4. \A o : ListReaders(o) = {}
  BY <1>3 DEF ListReaders
<1>5. ASSUME NEW u \in Threads, Blocked(u) PROVE pc[u] = "wait"
  BY <1>1, <1>4, <1>5 DEF Blocked
<1>6. PICK u \in Holders(t) : TRUE
  BY <1>5 DEF Blocked
<1>7. u \in Threads /\ call[u].locked
  BY DEF Holders
<1>8. pc[u] = "script" /\ Writing(u)
  BY <1>2, <1>7 DEF LockInv, LocksItsBucket, Writing
<1> QED
  BY <1>5, <1>7, <1>8 DEF AtRest

(* Nobody waits for ever but through scripts that add up lists in a ring. *)
LEMMA LocksGiveRing ==
  ASSUME LockInv
  PROVE  StuckOnlyInRing
<1> SUFFICES ASSUME \A t \in Threads : Blocked(t) \/ AtRest(t),
                    NEW t0 \in Threads, Blocked(t0)
             PROVE  Ring
  BY DEF StuckOnlyInRing
<1> DEFINE S == {t \in Threads : pc[t] = "join"}
<1>1. S # {} /\ S \in SUBSET Threads
  BY BlockedJoiner
<1>2. ASSUME NEW t \in S PROVE \E u \in S : WaitsBehind(t, u)
  <2>1. ListReaders(other[t]) \cup ListWriters(other[t]) # {}
    <3>1. pc[t] = "join" /\ Blocked(t)
      BY DEF AtRest
    <3> QED
      BY <3>1 DEF Blocked
  <2>2. CASE ListWriters(other[t]) # {}
    BY <2>2 DEF ListWriters, WaitsBehind
  <2>3. CASE ListReaders(other[t]) # {}
    <3>1. PICK c \in ListReaders(other[t]) : c \in Threads
      BY <2>3 DEF ListReaders
    <3>2. copy[c] # <<>>
      BY <3>1 DEF ListReaders
    <3>3. pc[c] = "copy" /\ Blocked(c)
      BY <3>1, <3>2 DEF LockInv, AtItsPlace, AtRest
    <3>4. PICK u \in ListWriters(Wanted(c)) : TRUE
      BY <3>3 DEF Blocked
    <3>5. u \in S /\ hand[u] = Wanted(c)
      BY <3>4 DEF ListWriters
    <3> QED
      BY <3>1, <3>3, <3>5 DEF WaitsBehind
  <2> QED
    BY <2>1, <2>2, <2>3
<1>3. \A t \in S : pc[t] = "join" /\ \E u \in S : pc[u] = "join" /\ WaitsBehind(t, u)
  BY <1>2
<1> HIDE DEF S
<1> QED
  BY <1>1, <1>3 DEF Ring

(* In every state in which each script waits or is at rest, either none waits or *)
(* there is a ring of scripts that add up lists, each in the way of the next.    *)
THEOREM OnlyRingsBlock == Spec => []StuckOnlyInRing
BY BucketsExclusive, LocksGiveRing, PTL
-----------------------------------------------------------------------------
(* What can be reached, and what is apart *)

\* What is reached: the roots, and what is inside.
LEMMA ReachParts ==
  ASSUME NEW h, NEW roots
  PROVE  /\ Reach(h, roots) \subseteq Lists
         /\ roots \cap Lists \subseteq Reach(h, roots)
         /\ \A o \in Reach(h, roots) : Range(h[o]) \cap Lists \subseteq Reach(h, roots)
BY ReachIsLeast DEF Closed

\* It is the least such set,
LEMMA ReachWithin ==
  ASSUME NEW h, NEW roots, NEW S, Closed(h, roots, S)
  PROVE  Reach(h, roots) \subseteq S
BY ReachIsLeast

\* and grows with the roots.
LEMMA ReachMonotone ==
  ASSUME NEW h, NEW roots, NEW more, roots \cap Lists \subseteq Reach(h, more)
  PROVE  Reach(h, roots) \subseteq Reach(h, more)
<1>1. Closed(h, roots, Reach(h, more))
  BY ReachParts DEF Closed
<1> QED
  BY <1>1, ReachWithin

\* No list can be reached from both.
Apart(h, A, B) == Reach(h, A) \cap Reach(h, B) = {}

\* Two closed sets that do not meet keep their roots apart.
LEMMA ApartBy ==
  ASSUME NEW h, NEW A, NEW B, NEW P, NEW Q, Closed(h, A, P), Closed(h, B, Q), P \cap Q = {}
  PROVE  Apart(h, A, B)
<1>1. Reach(h, A) \subseteq P /\ Reach(h, B) \subseteq Q
  BY ReachWithin
<1> QED
  BY <1>1 DEF Apart

\* Numbers and Null are apart from everything.
LEMMA ApartNothing ==
  ASSUME NEW h, NEW A, NEW B, A \cap Lists = {}
  PROVE  Apart(h, A, B)
<1>1. Closed(h, A, {})
  BY DEF Closed
<1>2. Reach(h, A) = {}
  BY <1>1, ReachWithin
<1> QED
  BY <1>2 DEF Apart

\* Fewer roots are no closer.
LEMMA ApartFewer ==
  ASSUME NEW h, NEW A, NEW B, NEW A2, NEW B2, Apart(h, A, B),
         A2 \cap Lists \subseteq Reach(h, A), B2 \cap Lists \subseteq Reach(h, B)
  PROVE  Apart(h, A2, B2)
<1>1. Reach(h, A2) \subseteq Reach(h, A) /\ Reach(h, B2) \subseteq Reach(h, B)
  BY ReachMonotone
<1> QED
  BY <1>1 DEF Apart

(* W is written, and what is written there stays there: what is apart from W and *)
(* from B stays apart from both.                                                  *)
LEMMA ApartKept ==
  ASSUME NEW h, NEW h2, NEW A, NEW B, NEW B2, NEW W \in SUBSET Lists,
         Apart(h, A, B), Reach(h, A) \cap W = {}, B2 \cap Lists \subseteq W \cup Reach(h, B),
         \A o \in W : Range(h[o]) \cap Lists \subseteq W,
         \A o \in Lists : \/ Range(h2[o]) \cap Lists \subseteq Range(h[o])
                          \/ o \in W /\ Range(h2[o]) \cap Lists \subseteq W
  PROVE  Apart(h2, A, B2)
<1> DEFINE P == Reach(h, A)
           Q == W \cup Reach(h, B)
<1>1. Closed(h2, A, P)
  <2>1. P \subseteq Lists /\ A \cap Lists \subseteq P /\ \A o \in P : Range(h[o]) \cap Lists \subseteq P
    BY ReachParts
  <2>2. \A o \in P : Range(h2[o]) \cap Lists \subseteq Range(h[o])
    BY <2>1
  <2> QED
    BY <2>1, <2>2 DEF Closed
<1>2. Closed(h2, B2, Q)
  <2>1. Reach(h, B) \subseteq Lists
        /\ \A o \in Reach(h, B) : Range(h[o]) \cap Lists \subseteq Reach(h, B)
    BY ReachParts
  <2>2. ASSUME NEW o \in Q PROVE Range(h2[o]) \cap Lists \subseteq Q
    BY <2>1, <2>2
  <2> QED
    BY <2>1, <2>2 DEF Closed
<1>3. P \cap Q = {}
  BY DEF Apart
<1> HIDE DEF P, Q
<1> QED
  BY <1>1, <1>2, <1>3, ApartBy

-----------------------------------------------------------------------------
(* The invariant of the memory *)

\* Of the items of a list that is being copied, those that are there and those to come.
Done(frame) == {frame.out[i] : i \in {j \in DOMAIN frame.out : j < frame.next}}
Ahead(frame) == {frame.list} \cup {frame.out[i] : i \in {j \in DOMAIN frame.out : j >= frame.next}}
Made(t) == UNION {Done(copy[t][i]) : i \in DOMAIN copy[t]}
Copied(t) == UNION {Ahead(copy[t][i]) : i \in DOMAIN copy[t]}

\* Everything but what a script holds, and everything but what its copy has made.
Others(t) ==
  TreeRoots \cup (UNION {ScriptRoots(u) : u \in Threads \ {t}})
    \cup (UNION {CopyRoots(u) : u \in Threads})
Rest(t) ==
  TreeRoots \cup (UNION {ScriptRoots(u) : u \in Threads})
    \cup (UNION {CopyRoots(u) : u \in Threads \ {t}}) \cup Copied(t)

\* A script that adds lists up, or is in an update or a removal, has nothing to itself.
Lent(t) ==
  \/ pc[t] = "join"
  \/ pc[t] = "script" /\ call[t].op # "none"
  \/ pc[t] = "copy" /\ call[t].op \notin ReadOps

HandApart(t) == private[t] => ~ Lent(t) /\ Apart(heap, {hand[t]}, Others(t))
CopyApart(t) == Apart(heap, Made(t), Rest(t))
FreeIsEmpty == \A o \in Free : heap[o] = <<>>

MemoryInv ==
  /\ LockInv
  /\ FreeIsEmpty
  /\ \A t \in Threads : HandApart(t) /\ CopyApart(t)

-----------------------------------------------------------------------------
(* What a step of one thread does to the lists of the others *)

\* The lists that t can reach without another thread, and those that are free.
Own(t) == Reach(heap, TreeRoots \cup ScriptRoots(t) \cup CopyRoots(t)) \cup Free

\* Lists of its own are all that t writes, and all that it writes into them.
OwnStep(t) ==
  /\ Elsewhere(t)
  /\ TreeRoots' \cap Lists \subseteq Own(t)
  /\ ScriptRoots(t)' \cap Lists \subseteq Own(t)
  /\ CopyRoots(t)' \cap Lists \subseteq Own(t)
  /\ \A o \in Lists : \/ Range(heap'[o]) \cap Lists \subseteq Range(heap[o])
                      \/ o \in Own(t) /\ Range(heap'[o]) \cap Lists \subseteq Own(t)

\* The roots, part by part.
LEMMA RootParts ==
  ASSUME NEW t \in Threads
  PROVE  /\ Roots = TreeRoots \cup (UNION {ScriptRoots(u) \cup CopyRoots(u) : u \in Threads})
         /\ ScriptRoots(t) \subseteq Roots /\ CopyRoots(t) \subseteq Roots /\ TreeRoots \subseteq Roots
         /\ hand[t] \in ScriptRoots(t) /\ other[t] \in ScriptRoots(t)
<1>1. Roots = TreeRoots \cup (UNION {ScriptRoots(u) \cup CopyRoots(u) : u \in Threads})
  BY DEF Roots, TreeRoots
<1> QED
  BY <1>1 DEF ScriptRoots

\* An item of a frame is there, or is to come.
LEMMA FrameParts ==
  ASSUME NEW frame \in FrameOf
  PROVE  {frame.list} \cup Range(frame.out) = Done(frame) \cup Ahead(frame)
<1>1. frame.out \in Seq(Value) /\ frame.next \in Nat
  BY DEF FrameOf
<1>2. \A j \in DOMAIN frame.out : j < frame.next \/ j >= frame.next
  BY <1>1
<1> QED
  BY <1>2 DEF Done, Ahead, Range

\* So is a list that a copy is at.
LEMMA CopyParts ==
  ASSUME Types, NEW t \in Threads
  PROVE  CopyRoots(t) = Made(t) \cup Copied(t)
<1>1. \A i \in DOMAIN copy[t] : copy[t][i] \in FrameOf
  BY DEF Types
<1>2. \A i \in DOMAIN copy[t] :
        {copy[t][i].list} \cup Range(copy[t][i].out) = Done(copy[t][i]) \cup Ahead(copy[t][i])
  BY <1>1, FrameParts
<1> DEFINE Both(frame) == {frame.list} \cup Range(frame.out)
<1>3. \A i \in DOMAIN copy[t] : Both(copy[t][i]) = Done(copy[t][i]) \cup Ahead(copy[t][i])
  BY <1>2
<1>4. CopyRoots(t) = UNION {Both(copy[t][i]) : i \in DOMAIN copy[t]}
  BY DEF CopyRoots
<1> HIDE DEF Both
<1> QED
  BY <1>3, <1>4 DEF Made, Copied

\* No copy, no lists of one.
LEMMA NoCopy ==
  ASSUME NEW t, copy[t] = <<>>
  PROVE  CopyRoots(t) = {} /\ Made(t) = {} /\ Copied(t) = {}
BY DEF CopyRoots, Made, Copied

\* With a list, its own lists include those inside.
LEMMA OwnParts ==
  ASSUME MemoryInv, NEW t \in Threads
  PROVE  /\ Own(t) \subseteq Lists /\ Free \subseteq Own(t)
         /\ (TreeRoots \cup ScriptRoots(t) \cup CopyRoots(t)) \cap Lists \subseteq Own(t)
         /\ hand[t] \in Lists => hand[t] \in Own(t)
         /\ other[t] \in Lists => other[t] \in Own(t)
         /\ \A o \in Own(t) : Range(heap[o]) \cap Lists \subseteq Own(t)
<1> DEFINE roots == TreeRoots \cup ScriptRoots(t) \cup CopyRoots(t)
<1>1. /\ Reach(heap, roots) \subseteq Lists /\ roots \cap Lists \subseteq Reach(heap, roots)
      /\ \A o \in Reach(heap, roots) : Range(heap[o]) \cap Lists \subseteq Reach(heap, roots)
  BY ReachParts
<1>2. Own(t) = Reach(heap, roots) \cup Free
  BY DEF Own
<1>3. Free \subseteq Lists /\ \A o \in Free : Range(heap[o]) = {}
  BY DEF Free, MemoryInv, FreeIsEmpty, Range
<1>4. hand[t] \in roots /\ other[t] \in roots
  BY RootParts
<1> QED
  BY <1>1, <1>2, <1>3, <1>4

(* What is private to another script, and what its copy has made, stays apart. *)
LEMMA OthersKeep ==
  ASSUME MemoryInv, NEW t \in Threads, OwnStep(t), NEW u \in Threads \ {t}
  PROVE  HandApart(u)' /\ CopyApart(u)'
<1> DEFINE W == Own(t)
           roots == TreeRoots \cup ScriptRoots(t) \cup CopyRoots(t)
<1>1. /\ hand'[u] = hand[u] /\ call'[u] = call[u] /\ pc'[u] = pc[u] /\ copy'[u] = copy[u]
      /\ private'[u] = private[u]
  BY DEF OwnStep, Elsewhere
<1>2. \A v \in Threads \ {t} : ScriptRoots(v)' = ScriptRoots(v) /\ CopyRoots(v)' = CopyRoots(v)
  BY DEF OwnStep, Elsewhere, ScriptRoots, CopyRoots
<1>3. Made(u)' = Made(u) /\ Copied(u)' = Copied(u) /\ Lent(u)' = Lent(u)
  BY <1>1 DEF Made, Copied, Lent
<1>4. W \in SUBSET Lists /\ \A o \in W : Range(heap[o]) \cap Lists \subseteq W
  BY OwnParts
<1>5. \A o \in Lists : \/ Range(heap'[o]) \cap Lists \subseteq Range(heap[o])
                       \/ o \in W /\ Range(heap'[o]) \cap Lists \subseteq W
  BY DEF OwnStep
<1>6. (TreeRoots' \cup ScriptRoots(t)' \cup CopyRoots(t)') \cap Lists \subseteq W
  BY DEF OwnStep
<1>7. ASSUME NEW A, NEW B, Apart(heap, A, B), A \subseteq Roots, roots \subseteq B
      PROVE  Reach(heap, A) \cap W = {}
  <2>1. Reach(heap, roots) \subseteq Reach(heap, B)
    BY <1>7, ReachParts, ReachMonotone
  <2>2. Reach(heap, A) \subseteq Reach(heap, Roots)
    BY <1>7, ReachParts, ReachMonotone
  <2>3. Reach(heap, A) \cap Reach(heap, B) = {}
    BY <1>7 DEF Apart
  <2>4. W = Reach(heap, roots) \cup Free /\ Free \cap Reach(heap, Roots) = {}
    BY DEF Own, Free
  <2> QED
    BY <2>1, <2>2, <2>3, <2>4
<1> HIDE DEF W
<1>8. ASSUME private[u] PROVE Apart(heap', {hand[u]}, Others(u)')
  <2>1. Apart(heap, {hand[u]}, Others(u))
    BY <1>8 DEF MemoryInv, HandApart
  <2>2. roots \subseteq Others(u) /\ {hand[u]} \subseteq Roots
    BY RootParts DEF Others
  <2>3. Reach(heap, {hand[u]}) \cap W = {}
    BY <1>7, <2>1, <2>2
  <2>4. Others(u)' \cap Lists \subseteq W \cup Reach(heap, Others(u))
    <3>1. Others(u)' \subseteq TreeRoots' \cup ScriptRoots(t)' \cup CopyRoots(t)' \cup Others(u)
      BY <1>2 DEF Others
    <3>2. Others(u) \cap Lists \subseteq Reach(heap, Others(u))
      BY ReachParts
    <3> QED
      BY <1>6, <3>1, <3>2
  <2> QED
    BY <1>4, <1>5, <2>1, <2>3, <2>4, ApartKept
<1>9. Apart(heap', Made(u), Rest(u)')
  <2>1. Apart(heap, Made(u), Rest(u))
    BY DEF MemoryInv, CopyApart
  <2>2. roots \subseteq Rest(u) /\ Made(u) \subseteq Roots
    <3>1. Made(u) \subseteq CopyRoots(u) /\ CopyRoots(u) \subseteq Roots
      BY CopyParts, RootParts DEF MemoryInv, LockInv
    <3> QED
      BY <3>1 DEF Rest
  <2>3. Reach(heap, Made(u)) \cap W = {}
    BY <1>7, <2>1, <2>2
  <2>4. Rest(u)' \cap Lists \subseteq W \cup Reach(heap, Rest(u))
    <3>1. Rest(u)' \subseteq TreeRoots' \cup ScriptRoots(t)' \cup CopyRoots(t)' \cup Rest(u)
      BY <1>2, <1>3 DEF Rest
    <3>2. Rest(u) \cap Lists \subseteq Reach(heap, Rest(u))
      BY ReachParts
    <3> QED
      BY <1>6, <3>1, <3>2
  <2> QED
    BY <1>4, <1>5, <2>1, <2>3, <2>4, ApartKept
<1>10. HandApart(u)'
  <2>1. private[u] => ~ Lent(u)
    BY DEF MemoryInv, HandApart
  <2> QED
    BY <1>1, <1>3, <1>8, <2>1 DEF HandApart
<1>11. CopyApart(u)'
  BY <1>3, <1>9 DEF CopyApart
<1> QED
  BY <1>10, <1>11
-----------------------------------------------------------------------------
(* What a step of one thread does to its own lists *)

\* No list has more lists in it than before.
Shrinks == \A o \in Lists : Range(heap'[o]) \cap Lists \subseteq Range(heap[o])

MemoryStep(t) == OwnStep(t) /\ HandApart(t)' /\ CopyApart(t)'

\* After every action, a list that nobody can reach is empty.
LEMMA FreedAreEmpty ==
  ASSUME NEW h, Heap(h)
  PROVE  FreeIsEmpty'
<1> DEFINE roots == Roots'
           used == Reach(h, roots)
           R == Reach(heap', roots)
<1>1. heap' = [o \in Lists |-> IF o \in used THEN h[o] ELSE <<>>]
  BY DEF Heap
<1> HIDE DEF roots
<1>2. R \subseteq used
  <2>1. Closed(heap', roots, used)
    BY <1>1, ReachParts DEF Closed
  <2> QED
    BY <2>1, ReachWithin
<1>3. used \subseteq R
  <2>1. R \subseteq Lists /\ \A o \in R : heap'[o] = h[o]
    BY <1>1, <1>2, ReachParts
  <2>2. Closed(h, roots, R)
    BY <2>1, ReachParts DEF Closed
  <2> QED
    BY <2>2, ReachWithin
<1>4. Free' = Lists \ R
  BY DEF Free, roots
<1> HIDE DEF used, R
<1>5. \A o \in Free' : heap'[o] = <<>>
  BY <1>1, <1>3, <1>4
<1> QED
  BY <1>5 DEF FreeIsEmpty

\* Freeing lists puts no list into another.
LEMMA KeptShrinks ==
  ASSUME LockInv, Kept
  PROVE  Shrinks
BY KeptHeap DEF Shrinks

\* Fresh is a list that nobody could reach.
LEMMA FreshIsNew ==
  ASSUME NEW t \in Threads, Free # {}
  PROVE  /\ Fresh \in Lists /\ Fresh \in Own(t)
         /\ \A A : A \subseteq Roots => Fresh \notin Reach(heap, A)
<1>1. Fresh \in Lists /\ Fresh \in Free /\ Fresh \notin Reach(heap, Roots)
  BY FreshIsFree DEF Fresh, Free
<1>2. ASSUME NEW A, A \subseteq Roots PROVE Reach(heap, A) \subseteq Reach(heap, Roots)
  BY <1>2, ReachParts, ReachMonotone
<1> QED
  BY <1>1, <1>2 DEF Own

\* After a step of t, the rest has at most what t has put there.
LEMMA OthersStep ==
  ASSUME NEW t \in Threads, Elsewhere(t)
  PROVE  /\ Others(t)' \subseteq TreeRoots' \cup CopyRoots(t)' \cup Others(t)
         /\ copy'[t] = <<>> => Others(t)' \subseteq TreeRoots' \cup Rest(t)
         /\ Rest(t)' \subseteq TreeRoots' \cup ScriptRoots(t)' \cup Copied(t)' \cup Rest(t)
<1>1. \A u \in Threads \ {t} : ScriptRoots(u)' = ScriptRoots(u) /\ CopyRoots(u)' = CopyRoots(u)
  BY DEF Elsewhere, ScriptRoots, CopyRoots
<1>2. copy'[t] = <<>> => CopyRoots(t)' = {}
  BY DEF CopyRoots
<1> QED
  BY <1>1, <1>2 DEF Others, Rest

\* What the rest consists of.
LEMMA OtherRoots ==
  ASSUME NEW t \in Threads
  PROVE  /\ TreeRoots \subseteq Others(t) /\ CopyRoots(t) \subseteq Others(t)
         /\ Others(t) \subseteq Roots
         /\ TreeRoots \cup ScriptRoots(t) \cup Copied(t) \subseteq Rest(t)
         /\ Types => Made(t) \subseteq Roots /\ Rest(t) \subseteq Roots
<1>1. Roots = TreeRoots \cup (UNION {ScriptRoots(u) \cup CopyRoots(u) : u \in Threads})
  BY RootParts
<1>2. Types => Made(t) \subseteq CopyRoots(t) /\ Copied(t) \subseteq CopyRoots(t)
  BY CopyParts
<1> QED
  BY <1>1, <1>2 DEF Others, Rest

\* A number is as private as can be.
LEMMA NothingInHand ==
  ASSUME NEW t, ~ Lent(t)', hand'[t] \notin Lists
  PROVE  HandApart(t)'
<1>1. Apart(heap', {hand'[t]}, Others(t)')
  BY ApartNothing
<1> QED
  BY <1>1 DEF HandApart

\* The lists that everybody but the script of t can reach, and those that are free.
Shared(t) == Reach(heap, Others(t)) \cup Free

(* The script keeps what it has, while t copies and writes what the others can *)
(* reach anyway.                                                                *)
LEMMA SameInHand ==
  ASSUME MemoryInv, NEW t \in Threads, Elsewhere(t), private[t], ~ Lent(t)', hand'[t] = hand[t],
         TreeRoots' \cap Lists \subseteq Shared(t), CopyRoots(t)' \cap Lists \subseteq Shared(t),
         \A o \in Lists : \/ Range(heap'[o]) \cap Lists \subseteq Range(heap[o])
                          \/ o \in Shared(t) /\ Range(heap'[o]) \cap Lists \subseteq Shared(t)
  PROVE  HandApart(t)'
<1> DEFINE W == Shared(t)
           A == {hand[t]}
           B == Others(t)
<1>1. Apart(heap, A, B)
  BY DEF MemoryInv, HandApart
<1>2. W \in SUBSET Lists /\ \A o \in W : Range(heap[o]) \cap Lists \subseteq W
  <2>1. Free \subseteq Lists /\ \A o \in Free : Range(heap[o]) = {}
    BY DEF Free, MemoryInv, FreeIsEmpty, Range
  <2>2. Reach(heap, B) \subseteq Lists
        /\ \A o \in Reach(heap, B) : Range(heap[o]) \cap Lists \subseteq Reach(heap, B)
    BY ReachParts
  <2> QED
    BY <2>1, <2>2 DEF Shared
<1>3. Reach(heap, A) \cap W = {}
  <2>1. A \subseteq Roots
    BY RootParts
  <2>2. Reach(heap, A) \subseteq Reach(heap, Roots)
    BY <2>1, ReachParts, ReachMonotone
  <2> QED
    BY <1>1, <2>2 DEF Apart, Free, Shared
<1>4. Others(t)' \cap Lists \subseteq W \cup Reach(heap, B)
  <2>1. B \cap Lists \subseteq Reach(heap, B)
    BY ReachParts
  <2>2. Others(t)' \subseteq TreeRoots' \cup CopyRoots(t)' \cup B
    BY OthersStep
  <2> HIDE DEF B
  <2> QED
    BY <2>1, <2>2
<1>5. \A o \in Lists : \/ Range(heap'[o]) \cap Lists \subseteq Range(heap[o])
                       \/ o \in W /\ Range(heap'[o]) \cap Lists \subseteq W
  OBVIOUS
<1> HIDE DEF A, B, W
<1>6. Apart(heap', A, Others(t)')
  BY <1>1, <1>2, <1>3, <1>4, <1>5, ApartKept
<1> QED
  BY <1>6 DEF HandApart, A

(* The script gets a new list, of items that were apart from B. *)
LEMMA NewInHand ==
  ASSUME MemoryInv, NEW t \in Threads, ~ Lent(t)', Free # {}, hand'[t] = Fresh,
         NEW A, NEW B, Apart(heap, A, B), A \subseteq Roots, B \subseteq Roots,
         Range(heap'[Fresh]) \cap Lists \subseteq Reach(heap, A),
         \A o \in Lists \ {Fresh} : Range(heap'[o]) \cap Lists \subseteq Range(heap[o]),
         Others(t)' \cap Lists \subseteq Reach(heap, B)
  PROVE  HandApart(t)'
<1> DEFINE P == {Fresh} \cup Reach(heap, A)
           Q == Reach(heap, B)
<1>1. Fresh \in Lists /\ Fresh \notin Reach(heap, A) /\ Fresh \notin Reach(heap, B)
  BY FreshIsNew
<1>2. Closed(heap', {Fresh}, P)
  <2>1. Reach(heap, A) \subseteq Lists
        /\ \A o \in Reach(heap, A) : Range(heap[o]) \cap Lists \subseteq Reach(heap, A)
    BY ReachParts
  <2>2. \A o \in Reach(heap, A) : Range(heap'[o]) \cap Lists \subseteq Reach(heap, A)
    BY <1>1, <2>1
  <2> QED
    BY <1>1, <2>1, <2>2 DEF Closed
<1>3. Closed(heap', Others(t)', Q)
  <2>1. Q \subseteq Lists /\ \A o \in Q : Range(heap[o]) \cap Lists \subseteq Q
    BY ReachParts
  <2>2. \A o \in Q : Range(heap'[o]) \cap Lists \subseteq Q
    BY <1>1, <2>1
  <2> QED
    BY <2>1, <2>2 DEF Closed
<1>4. P \cap Q = {}
  BY <1>1 DEF Apart
<1> HIDE DEF P, Q
<1>5. Apart(heap', {Fresh}, Others(t)')
  BY <1>2, <1>3, <1>4, ApartBy
<1> QED
  BY <1>5 DEF HandApart

(* A step after which t copies nothing. *)
LEMMA PlainStep ==
  ASSUME MemoryInv, NEW t \in Threads, Elsewhere(t), copy'[t] = <<>>,
         TreeRoots' \subseteq TreeRoots \cup {hand[t], Null},
         hand'[t] \in Lists => hand'[t] \in Own(t),
         other'[t] \in Lists => other'[t] \in Own(t),
         \A o \in Lists : \/ Range(heap'[o]) \cap Lists \subseteq Range(heap[o])
                          \/ o \in Own(t) /\ Range(heap'[o]) \cap Lists \subseteq Own(t)
  PROVE  OwnStep(t) /\ CopyApart(t)'
<1>1. CopyRoots(t)' = {} /\ Made(t)' = {}
  BY DEF CopyRoots, Made
<1>2. ScriptRoots(t)' \cap Lists \subseteq Own(t)
  BY DEF ScriptRoots
<1>3. TreeRoots' \cap Lists \subseteq Own(t)
  BY OwnParts, ValueKinds
<1>4. OwnStep(t)
  BY <1>1, <1>2, <1>3 DEF OwnStep
<1>5. Apart(heap', Made(t)', Rest(t)')
  BY <1>1, ApartNothing
<1> QED
  BY <1>4, <1>5 DEF CopyApart

\* A step that leaves the tree alone,
LEMMA SameTree ==
  ASSUME UNCHANGED tree
  PROVE  TreeRoots' = TreeRoots
BY DEF TreeRoots, NodeRoots

\* and one that writes a value into a node.
LEMMA WrittenTree ==
  ASSUME NEW t, call[t].name \in Names, NEW node, NEW v,
         tree' = [tree EXCEPT ![call[t].name] = node], tree \in [Names -> Node],
         Range(node.at) \subseteq Range(At(t).at) \cup {v}
  PROVE  TreeRoots' \subseteq TreeRoots \cup {v}
<1>1. \A n \in Names : NodeRoots(n)' \subseteq NodeRoots(n) \cup {v}
  <2>1. \A n \in Names : tree'[n] = IF n = call[t].name THEN node ELSE tree[n]
    OBVIOUS
  <2> QED
    BY <2>1 DEF NodeRoots, At
<1> QED
  BY <1>1 DEF TreeRoots

(* The frequent case: the tree is left alone, and so is what the script holds. *)
LEMMA QuietStep ==
  ASSUME MemoryInv, NEW t \in Threads, Elsewhere(t), copy[t] = <<>>, copy'[t] = <<>>,
         UNCHANGED tree, Shrinks,
         hand'[t] = hand[t] \/ hand'[t] \notin Lists,
         other'[t] \in Lists => other'[t] \in Own(t),
         private'[t] => (private[t] \/ hand'[t] \notin Lists) /\ ~ Lent(t)'
  PROVE  MemoryStep(t)
<1>1. OwnStep(t) /\ CopyApart(t)'
  <2>1. TreeRoots' \subseteq TreeRoots \cup {hand[t], Null}
    BY SameTree
  <2>2. hand'[t] \in Lists => hand'[t] \in Own(t)
    BY OwnParts
  <2> QED
    BY <2>1, <2>2, PlainStep DEF Shrinks
<1>2. HandApart(t)'
  <2>1. CASE ~ private'[t]
    BY <2>1 DEF HandApart
  <2>2. CASE ~ Lent(t)' /\ hand'[t] \notin Lists
    BY <2>2, NothingInHand
  <2>3. CASE private[t] /\ ~ Lent(t)' /\ hand'[t] = hand[t]
    <3>1. TreeRoots' \cap Lists \subseteq Shared(t)
      <4>1. Others(t) \cap Lists \subseteq Shared(t)
        BY ReachParts DEF Shared
      <4> QED
        BY <4>1, SameTree, OtherRoots
    <3>2. CopyRoots(t)' = {}
      BY DEF CopyRoots
    <3> QED
      BY <2>3, <3>1, <3>2, SameInHand DEF Shrinks
  <2> QED
    BY <2>1, <2>2, <2>3
<1> QED
  BY <1>1, <1>2 DEF MemoryStep
-----------------------------------------------------------------------------
(* The steps of a script *)

\* What every step of a thread may rely on.
LEMMA StepOf ==
  ASSUME MemoryInv, NEW t \in Threads, LockStep(t)
  PROVE  /\ LockInv /\ Types /\ Elsewhere(t)
         /\ hand \in [Threads -> Value] /\ other \in [Threads -> Value]
         /\ pc[t] # "copy" => copy[t] = <<>>
BY DEF MemoryInv, LockInv, LockStep, Types, AtItsPlace

\* A new list holds the items it was made of, and no other list gains any.
LEMMA FreshHeap ==
  ASSUME LockInv, Free # {}, NEW items \in Seq(Value), Heap([heap EXCEPT ![Fresh] = items])
  PROVE  \A o \in Lists : Range(heap'[o]) \subseteq (IF o = Fresh THEN Range(items) ELSE Range(heap[o]))
<1> DEFINE h == [heap EXCEPT ![Fresh] = items]
<1>1. heap \in Heaps /\ Fresh \in Lists
  BY FreshIsFree DEF LockInv, Types
<1>2. h \in Heaps /\ \A o \in Lists : h[o] = IF o = Fresh THEN items ELSE heap[o]
  BY <1>1 DEF Heaps
<1> HIDE DEF h
<1>3. \A o \in Lists : Range(heap'[o]) \subseteq Range(h[o])
  <2>1. Heap(h)
    BY DEF h
  <2> QED
    BY <1>2, <2>1, HeapStep
<1> QED
  BY <1>2, <1>3

\* [0] is reachable by nobody else.
LEMMA NewListKeeps ==
  ASSUME MemoryInv, NEW t \in Threads, NewList(t), LockStep(t)
  PROVE  MemoryStep(t) /\ FreeIsEmpty'
<1>1. /\ pc'[t] = "script" /\ call'[t] = Idle /\ copy[t] = <<>> /\ copy'[t] = <<>>
      /\ hand'[t] = Fresh /\ other'[t] = other[t] /\ UNCHANGED tree /\ Free # {}
  BY StepOf DEF NewList, Alone, Running
<1>2. /\ Range(heap'[Fresh]) \cap Lists = {}
      /\ \A o \in Lists \ {Fresh} : Range(heap'[o]) \cap Lists \subseteq Range(heap[o])
  <2>1. <<0>> \in Seq(Value) /\ Range(<<0>>) \cap Lists = {}
    <3>1. Range(<<0>>) = {0}
      BY DEF Range
    <3> QED
      BY <3>1, ValueKinds, RootMemoryAssumption
  <2>2. \A o \in Lists : Range(heap'[o]) \subseteq (IF o = Fresh THEN Range(<<0>>) ELSE Range(heap[o]))
    BY <1>1, <2>1, FreshHeap, StepOf DEF NewList
  <2>3. Fresh \in Lists
    BY <1>1, FreshIsFree
  <2> QED
    BY <2>1, <2>2, <2>3
<1>3. Fresh \in Own(t) /\ TreeRoots' = TreeRoots
  BY <1>1, FreshIsNew, SameTree
<1>4. OwnStep(t) /\ CopyApart(t)'
  BY <1>1, <1>2, <1>3, PlainStep, StepOf, OwnParts
<1>5. ~ Lent(t)'
  BY <1>1 DEF Lent, Idle
<1>6. HandApart(t)'
  <2>1. Apart(heap, {}, Roots)
    BY ApartNothing
  <2>2. Others(t)' \cap Lists \subseteq Reach(heap, Roots)
    <3>1. Others(t)' \subseteq TreeRoots' \cup Rest(t)
      BY <1>1, OthersStep, StepOf
    <3>2. Roots \cap Lists \subseteq Reach(heap, Roots)
      BY ReachParts
    <3> QED
      BY <1>3, <3>1, <3>2, OtherRoots, StepOf
  <2> QED
    BY <1>1, <1>2, <1>5, <2>1, <2>2, NewInHand
<1> QED
  BY <1>4, <1>6, FreedAreEmpty DEF MemoryStep, NewList

\* [value] is as private as the value.
LEMMA WrapKeeps ==
  ASSUME MemoryInv, NEW t \in Threads, Wrap(t), LockStep(t)
  PROVE  MemoryStep(t) /\ FreeIsEmpty'
<1>1. /\ pc'[t] = pc[t] /\ call'[t] = call[t] /\ copy[t] = <<>> /\ copy'[t] = <<>>
      /\ hand'[t] = Fresh /\ other'[t] = other[t] /\ UNCHANGED tree /\ Free # {}
      /\ private'[t] = private[t]
  BY StepOf DEF Wrap, Running
<1>2. /\ Range(heap'[Fresh]) \subseteq {hand[t]} /\ Fresh \in Lists
      /\ \A o \in Lists \ {Fresh} : Range(heap'[o]) \cap Lists \subseteq Range(heap[o])
  <2>1. <<hand[t]>> \in Seq(Value) /\ Range(<<hand[t]>>) = {hand[t]}
    <3>1. Range(<<hand[t]>>) = {hand[t]}
      BY DEF Range
    <3> QED
      BY <3>1, StepOf
  <2>2. \A o \in Lists :
          Range(heap'[o]) \subseteq (IF o = Fresh THEN Range(<<hand[t]>>) ELSE Range(heap[o]))
    BY <1>1, <2>1, FreshHeap, StepOf DEF Wrap
  <2>3. Fresh \in Lists
    BY <1>1, FreshIsFree
  <2> QED
    BY <2>1, <2>2, <2>3
<1>3. Fresh \in Own(t) /\ TreeRoots' = TreeRoots
  BY <1>1, FreshIsNew, SameTree
<1>4. OwnStep(t) /\ CopyApart(t)'
  <2>1. Range(heap'[Fresh]) \cap Lists \subseteq Own(t)
    BY <1>2, OwnParts
  <2> QED
    BY <1>1, <1>2, <1>3, <2>1, PlainStep, StepOf, OwnParts
<1>5. HandApart(t)'
  <2>1. CASE ~ private[t]
    BY <1>1, <2>1 DEF HandApart
  <2>2. CASE private[t]
    <3>1. Apart(heap, {hand[t]}, Others(t)) /\ ~ Lent(t)'
      BY <1>1, <2>2 DEF MemoryInv, HandApart, Lent
    <3>2. {hand[t]} \subseteq Roots /\ Others(t) \subseteq Roots
      BY RootParts, OtherRoots
    <3>3. Others(t)' \cap Lists \subseteq Reach(heap, Others(t))
      <4>1. Others(t)' \subseteq TreeRoots' \cup CopyRoots(t)' \cup Others(t)
        BY OthersStep, StepOf
      <4>2. CopyRoots(t)' = {}
        BY <1>1 DEF CopyRoots
      <4>3. Others(t) \cap Lists \subseteq Reach(heap, Others(t))
        BY ReachParts
      <4> QED
        BY <1>3, <4>1, <4>2, <4>3, OtherRoots
    <3>4. Range(heap'[Fresh]) \cap Lists \subseteq Reach(heap, {hand[t]})
      <4>1. {hand[t]} \cap Lists \subseteq Reach(heap, {hand[t]})
        BY ReachParts
      <4> QED
        BY <1>2, <4>1
    <3> QED
      BY <1>1, <1>2, <3>1, <3>2, <3>3, <3>4, NewInHand
  <2> QED
    BY <2>1, <2>2
<1> QED
  BY <1>4, <1>5, FreedAreEmpty DEF MemoryStep, Wrap

\* Holding an item of a private list as well gives nothing away.
LEMMA FirstKeeps ==
  ASSUME MemoryInv, NEW t \in Threads, First(t), LockStep(t)
  PROVE  MemoryStep(t) /\ FreeIsEmpty'
<1>1. /\ pc'[t] = pc[t] /\ call'[t] = call[t] /\ copy[t] = <<>> /\ copy'[t] = <<>>
      /\ hand'[t] = hand[t] /\ other'[t] = heap[hand[t]][1] /\ UNCHANGED tree
      /\ private'[t] = private[t]
  BY StepOf DEF First, Alone, Running
<1>2. hand[t] \in Own(t) /\ heap[hand[t]][1] \in Range(heap[hand[t]])
  BY OwnParts, HeapItems, StepOf DEF First
<1>3. other'[t] \in Lists => other'[t] \in Own(t)
  BY <1>1, <1>2, OwnParts
<1>4. private[t] => ~ Lent(t)'
  BY <1>1 DEF MemoryInv, HandApart, Lent
<1>5. Shrinks
  BY KeptShrinks, StepOf DEF First
<1> QED
  BY <1>1, <1>3, <1>4, <1>5, QuietStep, StepOf, FreedAreEmpty DEF First, Kept

\* After a swap nothing is taken to be private.
LEMMA SwapKeeps ==
  ASSUME MemoryInv, NEW t \in Threads, Swap(t), LockStep(t)
  PROVE  MemoryStep(t) /\ FreeIsEmpty'
<1>1. /\ copy'[t] = <<>> /\ hand'[t] = other[t] /\ other'[t] = hand[t] /\ UNCHANGED tree
      /\ ~ private'[t]
  BY StepOf DEF Swap, Alone, Running, LockStep, Types
<1>2. TreeRoots' = TreeRoots /\ Shrinks
  BY <1>1, SameTree, KeptShrinks, StepOf DEF Swap
<1>3. OwnStep(t) /\ CopyApart(t)'
  BY <1>1, <1>2, PlainStep, StepOf, OwnParts DEF Shrinks
<1> QED
  BY <1>1, <1>3, FreedAreEmpty DEF MemoryStep, HandApart, Swap, Kept

\* Counting up,
LEMMA BumpKeeps ==
  ASSUME MemoryInv, NEW t \in Threads, Bump(t), LockStep(t)
  PROVE  MemoryStep(t) /\ FreeIsEmpty'
<1>1. /\ pc'[t] = pc[t] /\ call'[t] = call[t] /\ copy[t] = <<>> /\ copy'[t] = <<>>
      /\ other'[t] = other[t] /\ UNCHANGED tree /\ private'[t] = private[t]
  BY StepOf DEF Bump, Running
<1>2. hand'[t] = hand[t] \/ hand'[t] \notin Lists
  <2>1. CASE hand[t] \in Numbers \ {MaxCount} /\ hand' = [hand EXCEPT ![t] = @ + 1]
    <3>1. hand'[t] = hand[t] + 1 /\ hand[t] \in Numbers
      BY <2>1, StepOf
    <3>2. hand[t] + 1 \in Nat
      BY <3>1, ValueKinds
    <3> QED
      BY <3>1, <3>2, RootMemoryAssumption
  <2>2. CASE UNCHANGED hand
    BY <2>2
  <2> QED
    BY <2>1, <2>2 DEF Bump
<1>3. private[t] => ~ Lent(t)'
  BY <1>1 DEF MemoryInv, HandApart, Lent
<1>4. Shrinks
  BY KeptShrinks, StepOf DEF Bump
<1>5. other'[t] \in Lists => other'[t] \in Own(t)
  BY <1>1, OwnParts
<1> QED
  BY <1>1, <1>2, <1>3, <1>4, <1>5, QuietStep, StepOf, FreedAreEmpty DEF Bump, Kept

\* starting a call
LEMMA CallKeeps ==
  ASSUME MemoryInv, NEW t \in Threads, Call(t), LockStep(t)
  PROVE  MemoryStep(t) /\ FreeIsEmpty'
<1>1. /\ pc'[t] = "wait" /\ copy[t] = <<>> /\ copy'[t] = <<>>
      /\ hand'[t] = hand[t] /\ other'[t] = other[t] /\ UNCHANGED tree /\ private'[t] = private[t]
  BY StepOf DEF Call, Alone, Running, Types
<1>2. ~ Lent(t)'
  BY <1>1 DEF Lent
<1>3. Shrinks
  BY KeptShrinks, StepOf DEF Call
<1>4. other'[t] \in Lists => other'[t] \in Own(t)
  BY <1>1, OwnParts
<1> QED
  BY <1>1, <1>2, <1>3, <1>4, QuietStep, StepOf, FreedAreEmpty DEF Call, Kept

\* and starting "+" move no list.
LEMMA JoinKeeps ==
  ASSUME MemoryInv, NEW t \in Threads, Join(t), LockStep(t)
  PROVE  MemoryStep(t) /\ FreeIsEmpty'
<1>1. /\ copy[t] = <<>> /\ copy'[t] = <<>>
      /\ hand'[t] = hand[t] /\ other'[t] = other[t] /\ UNCHANGED tree /\ ~ private'[t]
  BY StepOf DEF Join, Alone, Running, LockStep, Types
<1>2. Shrinks
  BY KeptShrinks, StepOf DEF Join
<1>3. other'[t] \in Lists => other'[t] \in Own(t)
  BY <1>1, OwnParts
<1> QED
  BY <1>1, <1>2, <1>3, QuietStep, StepOf, FreedAreEmpty DEF Join, Kept

\* Writing a number back moves no list either.
LEMMA BumpBackKeeps ==
  ASSUME MemoryInv, NEW t \in Threads, BumpBack(t), LockStep(t)
  PROVE  MemoryStep(t) /\ FreeIsEmpty'
<1> DEFINE h == IF heap[hand[t]] = <<>> THEN heap ELSE [heap EXCEPT ![hand[t]][1] = reg[t]]
<1>1. /\ pc'[t] = pc[t] /\ call'[t] = call[t] /\ copy[t] = <<>> /\ copy'[t] = <<>>
      /\ hand'[t] = hand[t] /\ other'[t] = other[t] /\ UNCHANGED tree /\ private'[t] = private[t]
  BY StepOf DEF BumpBack
<1>2. \A o \in Lists : Range(heap'[o]) \subseteq Range(h[o])
  <2>1. Heap(h)
    BY DEF BumpBack
  <2> HIDE DEF h
  <2>2. \A o \in Lists : heap'[o] \in {h[o], <<>>}
    BY <2>1 DEF Heap
  <2>3. Range(<<>>) = {}
    BY DEF Range
  <2> QED
    BY <2>2, <2>3
<1>3. heap \in Heaps /\ reg[t] \notin Lists
  BY ValueKinds, StepOf DEF Types
<1>4. ASSUME NEW o \in Lists PROVE Range(h[o]) \cap Lists \subseteq Range(heap[o])
  <2>1. heap[o] \in Seq(Value)
    BY HeapItems, StepOf
  <2>2. h[o] = heap[o] \/ h[o] = [heap[o] EXCEPT ![1] = reg[t]]
    BY <1>3 DEF Heaps
  <2>3. Range([heap[o] EXCEPT ![1] = reg[t]]) \subseteq Range(heap[o]) \cup {reg[t]}
    BY <2>1 DEF Range
  <2> HIDE DEF h
  <2> QED
    BY <1>3, <2>2, <2>3
<1>5. Shrinks
  <2> HIDE DEF h
  <2> QED
    BY <1>2, <1>4 DEF Shrinks
<1>6. private[t] => ~ Lent(t)'
  BY <1>1 DEF MemoryInv, HandApart, Lent
<1>7. other'[t] \in Lists => other'[t] \in Own(t)
  BY <1>1, OwnParts
<1>8. FreeIsEmpty'
  BY FreedAreEmpty DEF BumpBack
<1> QED
  BY <1>1, <1>5, <1>6, <1>7, <1>8, QuietStep, StepOf

\* The items of two lists, one after the other.
LEMMA RangeOfBoth ==
  ASSUME NEW a \in Seq(Value), NEW b \in Seq(Value)
  PROVE  Range(a \o b) \subseteq Range(a) \cup Range(b)
<1>1. /\ Len(a) \in Nat /\ Len(b) \in Nat /\ Len(a \o b) = Len(a) + Len(b)
      /\ DOMAIN a = 1 .. Len(a) /\ DOMAIN b = 1 .. Len(b) /\ DOMAIN (a \o b) = 1 .. Len(a \o b)
  OBVIOUS
<1>2. ASSUME NEW i \in 1 .. Len(a \o b) PROVE (a \o b)[i] \in Range(a) \cup Range(b)
  <2>1. CASE i <= Len(a)
    <3>1. (a \o b)[i] = a[i] /\ i \in DOMAIN a
      BY <1>1, <2>1
    <3> QED
      BY <3>1 DEF Range
  <2>2. CASE i > Len(a)
    <3>1. (a \o b)[i] = b[i - Len(a)] /\ i - Len(a) \in DOMAIN b
      BY <1>1, <2>2
    <3> QED
      BY <3>1 DEF Range
  <2> QED
    BY <1>1, <2>1, <2>2
<1> QED
  BY <1>1, <1>2 DEF Range

\* "+" moves items between lists that both belong to its script.
LEMMA JoinMovesKeeps ==
  ASSUME MemoryInv, NEW t \in Threads, JoinMoves(t), LockStep(t)
  PROVE  MemoryStep(t) /\ FreeIsEmpty'
<1> DEFINE l == hand[t]
           r == other[t]
           h == IF Fits(t) THEN [heap EXCEPT ![l] = @ \o heap[r], ![r] = <<>>] ELSE heap
<1>1. /\ pc[t] = "join" /\ copy[t] = <<>> /\ copy'[t] = <<>> /\ private'[t] = private[t]
      /\ hand'[t] = hand[t] /\ other'[t] = other[t] /\ UNCHANGED tree
  BY StepOf DEF JoinMoves
<1>2. l \in Lists /\ r \in Lists
  BY <1>1, StepOf DEF LockInv, AtItsPlace
<1>3. \A o \in Lists : Range(heap'[o]) \subseteq Range(h[o])
  <2>1. Heap(h)
    BY DEF JoinMoves
  <2> HIDE DEF h
  <2>2. \A o \in Lists : heap'[o] \in {h[o], <<>>}
    BY <2>1 DEF Heap
  <2>3. Range(<<>>) = {}
    BY DEF Range
  <2> QED
    BY <2>2, <2>3
<1>4. Range(heap[l] \o heap[r]) \subseteq Range(heap[l]) \cup Range(heap[r])
  <2>1. heap[l] \in Seq(Value) /\ heap[r] \in Seq(Value)
    BY <1>2, HeapItems, StepOf
  <2> QED
    BY <2>1, RangeOfBoth
<1>5. Range(heap[l] \o heap[r]) \cap Lists \subseteq Own(t) /\ l \in Own(t)
  <2>1. l \in Own(t) /\ r \in Own(t)
    BY <1>2, OwnParts
  <2>2. Range(heap[l]) \cap Lists \subseteq Own(t) /\ Range(heap[r]) \cap Lists \subseteq Own(t)
    BY <2>1, OwnParts
  <2> QED
    BY <1>4, <2>1, <2>2
<1>6. \A o \in Lists : h[o] = heap[o] \/ h[o] = <<>> \/ (o = l /\ h[o] = heap[l] \o heap[r])
  <2>1. heap \in Heaps
    BY StepOf DEF Types
  <2> QED
    BY <1>2, <2>1 DEF Heaps
<1>7. \A o \in Lists : \/ Range(heap'[o]) \cap Lists \subseteq Range(heap[o])
                       \/ o \in Own(t) /\ Range(heap'[o]) \cap Lists \subseteq Own(t)
  <2>1. Range(<<>>) = {}
    BY DEF Range
  <2> HIDE DEF h
  <2> QED
    BY <1>3, <1>5, <1>6, <2>1
<1>8. OwnStep(t) /\ CopyApart(t)'
  <2>1. TreeRoots' = TreeRoots
    BY <1>1, SameTree
  <2> QED
    BY <1>1, <1>7, <2>1, PlainStep, StepOf, OwnParts
<1>9. HandApart(t)'
  <2>1. ~ private[t]
    BY <1>1 DEF MemoryInv, HandApart, Lent
  <2> QED
    BY <1>1, <2>1 DEF HandApart
<1>10. FreeIsEmpty'
  BY FreedAreEmpty DEF JoinMoves
<1> QED
  BY <1>8, <1>9, <1>10 DEF MemoryStep
-----------------------------------------------------------------------------
(* The steps of a call *)

\* What a call finds in the tree, and what it leaves there.
LEMMA CallRoots ==
  ASSUME MemoryInv, NEW t \in Threads, call[t].op # "none"
  PROVE  /\ Range(At(t).at) \subseteq TreeRoots
         /\ Found(t) => Stored(t) \in TreeRoots
         /\ Found(t) /\ Stored(t) \in Lists => Stored(t) \in Own(t)
<1>1. /\ call[t].name \in Names /\ NodeRoots(call[t].name) = Range(At(t).at)
      /\ Found(t) => Stored(t) \in Range(At(t).at)
  BY CalledNode DEF MemoryInv
<1>2. Range(At(t).at) \subseteq TreeRoots
  BY <1>1 DEF TreeRoots
<1> QED
  BY <1>1, <1>2, OwnParts

\* A script that stores a value or takes one out has nothing private.
LEMMA WriteKeeps ==
  ASSUME MemoryInv, NEW t \in Threads, Write(t), LockStep(t)
  PROVE  MemoryStep(t) /\ FreeIsEmpty'
<1>1. /\ pc[t] = "wait" /\ copy'[t] = <<>> /\ other'[t] = other[t] /\ ~ private'[t]
      /\ call[t].op # "none"
  <2>1. pc[t] = "wait" /\ call[t].op # "none"
    BY OpsApart DEF Write, Ops
  <2> QED
    BY <2>1, StepOf DEF Write, Types
<1>2. TreeRoots' \subseteq TreeRoots \cup {hand[t]}
  <2>1. call[t].name \in Names /\ Range(Written(t).at) \subseteq Range(At(t).at) \cup {hand[t]}
    BY <1>1, WrittenIsNode, CalledNode, StepOf
  <2>2. tree' = [tree EXCEPT ![call[t].name] = Written(t)] /\ tree \in [Names -> Node]
    BY StepOf DEF Write, Types
  <2> QED
    BY <2>1, <2>2, WrittenTree
<1>3. hand'[t] \in {Stored(t), hand[t], Null} /\ (hand'[t] = Stored(t) => Found(t) \/ hand'[t] \in {hand[t], Null})
  BY StepOf DEF Write, Removes, Give
<1>4. hand'[t] \in Lists => hand'[t] \in Own(t)
  BY <1>1, <1>3, CallRoots, OwnParts, ValueKinds
<1>5. Shrinks
  BY KeptShrinks, StepOf DEF Write
<1>6. other'[t] \in Lists => other'[t] \in Own(t)
  BY <1>1, OwnParts
<1>7. OwnStep(t) /\ CopyApart(t)'
  <2>1. TreeRoots' \subseteq TreeRoots \cup {hand[t], Null}
    BY <1>2
  <2> QED
    BY <1>1, <1>4, <1>5, <1>6, <2>1, PlainStep, StepOf DEF Shrinks
<1> QED
  BY <1>1, <1>7, FreedAreEmpty DEF MemoryStep, HandApart, Write, Kept

\* A read copies the node first.
LEMMA ReadKeeps ==
  ASSUME MemoryInv, NEW t \in Threads, Read(t), LockStep(t)
  PROVE  MemoryStep(t) /\ FreeIsEmpty'
<1>1. /\ copy[t] = <<>> /\ copy'[t] = <<>> /\ other'[t] = other[t] /\ UNCHANGED tree
      /\ call[t].op \in ReadOps
  BY StepOf DEF Read
<1>2. Shrinks
  BY KeptShrinks, StepOf DEF Read
<1>3. other'[t] \in Lists => other'[t] \in Own(t)
  BY <1>1, OwnParts
<1>4. CASE Locked(t) /\ pc' = [pc EXCEPT ![t] = "copy"] /\ UNCHANGED <<hand, private>>
  <2>1. pc'[t] = "copy" /\ call'[t].op \in ReadOps
    BY <1>1, <1>4, LockedTypes, StepOf DEF Types
  <2>2. ~ Lent(t)'
    BY <2>1 DEF Lent
  <2> QED
    BY <1>1, <1>2, <1>3, <1>4, <2>2, QuietStep, StepOf, FreedAreEmpty DEF Read, Kept
<1>5. CASE Give(t, Null)
  <2>1. hand'[t] = Null /\ call'[t] = Idle /\ pc'[t] = "script"
    BY <1>5, GiveTypes, ValueKinds, StepOf
  <2>2. ~ Lent(t)' /\ hand'[t] \notin Lists
    BY <2>1, ValueKinds DEF Lent, Idle
  <2> QED
    BY <1>1, <1>2, <1>3, <2>2, QuietStep, StepOf, FreedAreEmpty DEF Read, Kept
<1> QED
  BY <1>4, <1>5 DEF Read

\* The closure of an update has nothing private: the node waits for its value.
LEMMA TakeKeeps ==
  ASSUME MemoryInv, NEW t \in Threads, Take(t), LockStep(t)
  PROVE  MemoryStep(t) /\ FreeIsEmpty'
<1>1. /\ copy'[t] = <<>> /\ ~ private'[t] /\ call[t].op # "none"
  <2>1. pc[t] = "wait" /\ call[t].op # "none"
    BY OpsApart DEF Take, Ops
  <2> QED
    BY <2>1, StepOf DEF Take, Types
<1>2. Shrinks
  BY KeptShrinks, StepOf DEF Take
<1>3. CASE Found(t)
  <2>1. /\ tree' = [tree EXCEPT ![call[t].name] = With(@, call[t].key, Null)]
        /\ hand'[t] = Stored(t) /\ other'[t] = hand[t]
    BY <1>3, StepOf DEF Take
  <2>2. TreeRoots' \subseteq TreeRoots \cup {Null}
    <3>1. call[t].name \in Names /\ At(t) \in Node /\ call[t].key \in Keys /\ Null \in Value
          /\ tree \in [Names -> Node] /\ tree[call[t].name] = At(t)
      BY <1>1, CalledNode, ValueKinds, StepOf DEF Types, At
    <3>2. Range(With(At(t), call[t].key, Null).at) \subseteq Range(At(t).at) \cup {Null}
      BY <3>1, WithIsNode
    <3> DEFINE node == With(At(t), call[t].key, Null)
    <3>3. tree' = [tree EXCEPT ![call[t].name] = node]
      BY <2>1, <3>1
    <3>4. Range(node.at) \subseteq Range(At(t).at) \cup {Null}
      BY <3>2
    <3> HIDE DEF node
    <3> QED
      BY <3>1, <3>3, <3>4, WrittenTree
  <2>3. hand'[t] \in Lists => hand'[t] \in Own(t)
    BY <1>1, <1>3, <2>1, CallRoots
  <2>4. other'[t] \in Lists => other'[t] \in Own(t)
    BY <2>1, OwnParts
  <2>5. TreeRoots' \subseteq TreeRoots \cup {hand[t], Null}
    BY <2>2
  <2>6. OwnStep(t) /\ CopyApart(t)'
    BY <1>1, <1>2, <2>3, <2>4, <2>5, PlainStep, StepOf DEF Shrinks
  <2> QED
    BY <1>1, <2>6, FreedAreEmpty DEF MemoryStep, HandApart, Take, Kept
<1>4. CASE ~ Found(t)
  <2>1. hand'[t] = Null /\ other'[t] = other[t] /\ UNCHANGED tree /\ copy[t] = <<>>
    BY <1>4, GiveTypes, ValueKinds, StepOf DEF Take
  <2>2. hand'[t] \notin Lists /\ (other'[t] \in Lists => other'[t] \in Own(t))
    BY <2>1, OwnParts, ValueKinds
  <2> QED
    BY <1>1, <1>2, <2>1, <2>2, QuietStep, StepOf, FreedAreEmpty DEF Take, Kept
<1> QED
  BY <1>3, <1>4

\* Nor has it when the closure returns.
LEMMA ReturnKeeps ==
  ASSUME MemoryInv, NEW t \in Threads, Return(t), LockStep(t)
  PROVE  MemoryStep(t) /\ FreeIsEmpty'
<1>1. /\ copy[t] = <<>> /\ copy'[t] = <<>> /\ hand'[t] = hand[t] /\ other'[t] = other[t]
      /\ UNCHANGED tree /\ private'[t] = private[t] /\ pc[t] = "script" /\ call[t].op \in UpdateOps
  BY StepOf DEF Return
<1>2. ~ private[t]
  <2>1. call[t].op # "none"
    BY <1>1, OpsApart DEF Ops
  <2> QED
    BY <1>1, <2>1 DEF MemoryInv, HandApart, Lent
<1>3. Shrinks
  BY KeptShrinks, StepOf DEF Return
<1>4. other'[t] \in Lists => other'[t] \in Own(t)
  BY <1>1, OwnParts
<1> QED
  BY <1>1, <1>2, <1>3, <1>4, QuietStep, StepOf, FreedAreEmpty DEF Return, Kept

-----------------------------------------------------------------------------
(* The steps of a copy *)

\* The tree after a copy is complete: an update has stored the value of its closure.
LEMMA DeliverTree ==
  ASSUME MemoryInv, NEW t \in Threads, NEW v, Deliver(t, v)
  PROVE  TreeRoots' \subseteq TreeRoots \cup {hand[t]}
<1>1. CASE Writing(t)
  <2>1. call[t].op # "none"
    BY <1>1, OpsApart DEF Writing, Ops
  <2>2. call[t].name \in Names /\ At(t) \in Node /\ call[t].key \in Keys /\ hand[t] \in Value
        /\ tree \in [Names -> Node] /\ tree[call[t].name] = At(t)
    BY <2>1, CalledNode DEF MemoryInv, LockInv, Types, At
  <2>3. Range(With(At(t), call[t].key, hand[t]).at) \subseteq Range(At(t).at) \cup {hand[t]}
    BY <2>2, WithIsNode
  <2> DEFINE node == With(At(t), call[t].key, hand[t])
  <2>4. tree' = [tree EXCEPT ![call[t].name] = node]
    BY <1>1, <2>2 DEF Deliver
  <2>5. Range(node.at) \subseteq Range(At(t).at) \cup {hand[t]}
    BY <2>3
  <2> HIDE DEF node
  <2> QED
    BY <2>2, <2>4, <2>5, WrittenTree
<1>2. CASE ~ Writing(t)
  BY <1>2, SameTree DEF Deliver
<1> QED
  BY <1>1, <1>2

\* A copy begins with a list of the tree or of the script, and has made none.
LEMMA CopyBeginsKeeps ==
  ASSUME MemoryInv, NEW t \in Threads, CopyBegins(t), LockStep(t)
  PROVE  MemoryStep(t) /\ FreeIsEmpty'
<1>1. /\ pc[t] = "copy" /\ call[t].op # "none" /\ copy[t] = <<>> /\ other'[t] = other[t]
  BY StepOf DEF CopyBegins, LockInv, AtItsPlace
<1>2. Shrinks
  BY KeptShrinks, StepOf DEF CopyBegins
<1>3. FreeIsEmpty'
  BY FreedAreEmpty DEF CopyBegins, Kept
<1>4. ASSUME NEW l \in Lists \cup {Null}, NEW items \in Seq(Value),
             copy' = [copy EXCEPT ![t] = <<Frame(l, items)>>],
             UNCHANGED <<tree, hand, call, pc, private>>,
             NEW roots, roots = TreeRoots \/ (~ private[t] /\ roots = TreeRoots \cup {hand[t]}),
             ({l} \cup Range(items)) \cap Lists \subseteq Reach(heap, roots)
      PROVE  MemoryStep(t)
  <2> DEFINE frame == Frame(l, items)
  <2>1. copy'[t] = <<frame>> /\ DOMAIN <<frame>> = {1} /\ <<frame>>[1] = frame
    BY <1>4, StepOf DEF Types
  <2>2. CopyRoots(t)' = {l} \cup Range(items)
    BY <2>1 DEF CopyRoots, Frame
  <2>3. Made(t)' = {}
    <3>1. Done(frame) = {}
      BY DEF Done, Frame
    <3> HIDE DEF frame
    <3> QED
      BY <2>1, <3>1 DEF Made
  <2>4. Reach(heap, roots) \subseteq Own(t)
    <3> DEFINE more == TreeRoots \cup ScriptRoots(t) \cup CopyRoots(t)
    <3>1. roots \subseteq more
      BY <1>4, RootParts
    <3>2. Own(t) = Reach(heap, more) \cup Free
      BY DEF Own
    <3> HIDE DEF more
    <3>3. more \cap Lists \subseteq Reach(heap, more)
      BY ReachParts
    <3>4. Reach(heap, roots) \subseteq Reach(heap, more)
      BY <3>1, <3>3, ReachMonotone
    <3> QED
      BY <3>2, <3>4
  <2>5. OwnStep(t)
    <3>1. TreeRoots' \cap Lists \subseteq Own(t)
      BY <1>4, SameTree, OwnParts
    <3>2. ScriptRoots(t)' \cap Lists \subseteq Own(t)
      BY <1>1, <1>4, OwnParts DEF ScriptRoots
    <3>3. CopyRoots(t)' \cap Lists \subseteq Own(t)
      BY <1>4, <2>2, <2>4
    <3> QED
      BY <1>2, <3>1, <3>2, <3>3, StepOf DEF OwnStep, Shrinks
  <2>6. CopyApart(t)'
    BY <2>3, ApartNothing DEF CopyApart
  <2>7. HandApart(t)'
    <3>1. CASE ~ private[t]
      BY <1>4, <3>1 DEF HandApart
    <3>2. CASE private[t]
      <4>1. ~ Lent(t)'
        BY <1>4, <3>2 DEF MemoryInv, HandApart, Lent
      <4>2. Reach(heap, TreeRoots) \subseteq Shared(t) /\ TreeRoots \cap Lists \subseteq Shared(t)
        <5>1. Others(t) \cap Lists \subseteq Reach(heap, Others(t)) /\ TreeRoots \subseteq Others(t)
          BY ReachParts, OtherRoots
        <5>2. Reach(heap, TreeRoots) \subseteq Reach(heap, Others(t))
          BY <5>1, ReachMonotone
        <5> QED
          BY <5>1, <5>2 DEF Shared
      <4>3. CopyRoots(t)' \cap Lists \subseteq Shared(t)
        BY <1>4, <2>2, <3>2, <4>2
      <4>4. TreeRoots' \cap Lists \subseteq Shared(t)
        BY <1>4, <4>2, SameTree
      <4> QED
        BY <1>2, <1>4, <3>2, <4>1, <4>3, <4>4, SameInHand, StepOf DEF Shrinks
    <3> QED
      BY <3>1, <3>2
  <2> QED
    BY <2>5, <2>6, <2>7 DEF MemoryStep
<1>5. CASE /\ call[t].op = "get_list" /\ copy' = [copy EXCEPT ![t] = <<Frame(Null, Listed(t))>>]
           /\ UNCHANGED <<tree, hand, call, pc, private>>
  <2>1. Listed(t) \in Seq(Value) /\ Range(Listed(t)) \subseteq TreeRoots
    BY <1>1, ListedIsSeq, CallRoots, StepOf
  <2>2. TreeRoots \cap Lists \subseteq Reach(heap, TreeRoots)
    BY ReachParts
  <2>3. ({Null} \cup Range(Listed(t))) \cap Lists \subseteq Reach(heap, TreeRoots)
    BY <2>1, <2>2, ValueKinds
  <2>4. MemoryStep(t)
    BY <1>4, <1>5, <2>1, <2>3
  <2> QED
    BY <1>3, <2>4
<1>6. CASE /\ call[t].op # "get_list" /\ Source(t) \in Lists
           /\ copy' = [copy EXCEPT ![t] = <<Frame(Source(t), heap[Source(t)])>>]
           /\ UNCHANGED <<tree, hand, call, pc, private>>
  <2> DEFINE roots == IF call[t].op \in ReadOps THEN TreeRoots ELSE TreeRoots \cup {hand[t]}
  <2>1. Source(t) \in roots
    BY <1>1, <1>6, SourceIsValue, CallRoots, StepOf
  <2>2. call[t].op \notin ReadOps => ~ private[t]
    BY <1>1 DEF MemoryInv, HandApart, Lent
  <2>3. roots = TreeRoots \/ (~ private[t] /\ roots = TreeRoots \cup {hand[t]})
    BY <2>2
  <2> HIDE DEF roots
  <2>4. Source(t) \in Reach(heap, roots)
    BY <1>6, <2>1, ReachParts
  <2>5. ({Source(t)} \cup Range(heap[Source(t)])) \cap Lists \subseteq Reach(heap, roots)
    BY <2>4, ReachParts
  <2>6. heap[Source(t)] \in Seq(Value)
    BY <1>6, HeapItems, StepOf
  <2>7. MemoryStep(t)
    BY <1>4, <1>6, <2>3, <2>5, <2>6
  <2> QED
    BY <1>3, <2>7
<1>7. CASE /\ call[t].op # "get_list" /\ Source(t) \notin Lists
           /\ Deliver(t, Source(t)) /\ UNCHANGED copy
  <2>1. Source(t) \in Value
    BY <1>1, <1>7, SourceIsValue, StepOf
  <2>2. hand'[t] = Source(t) /\ call'[t] = Idle /\ pc'[t] = "script"
    BY <1>7, <2>1, GiveTypes, StepOf DEF Deliver
  <2>3. ~ Lent(t)' /\ hand'[t] \notin Lists
    BY <1>7, <2>2 DEF Lent, Idle
  <2>4. TreeRoots' \subseteq TreeRoots \cup {hand[t], Null}
    BY <1>7, DeliverTree
  <2>5. OwnStep(t) /\ CopyApart(t)'
    BY <1>1, <1>2, <1>7, <2>3, <2>4, PlainStep, StepOf, OwnParts DEF Shrinks
  <2>6. HandApart(t)'
    BY <2>3, NothingInHand
  <2> QED
    BY <1>3, <2>5, <2>6 DEF MemoryStep
<1> QED
  BY <1>5, <1>6, <1>7 DEF CopyBegins
\* The frames of a copy, one by one.
LEMMA DeeperFrames ==
  ASSUME LockInv, NEW t \in Threads, copy[t] # <<>>, Pending(Last(copy[t])) # {},
         copy'[t] = Deeper(t)
  PROVE  \E x \in Lists :
           /\ x \in Copied(t)
           /\ Made(t)' \cap Lists \subseteq Made(t)
           /\ Copied(t)' \subseteq Copied(t) \cup {x} \cup Range(heap[x])
           /\ CopyRoots(t)' \subseteq CopyRoots(t) \cup {x} \cup Range(heap[x])
<1> DEFINE s == copy[t]
           n == Len(s)
           frame == Last(s)
           at == Min(Pending(frame))
           x == frame.out[at]
           old == [frame EXCEPT !.next = at]
           new == Frame(x, heap[x])
           f == Append(Front(s) \o <<old>>, new)
<1>1. /\ n \in Nat \ {0} /\ DOMAIN s = 1 .. n /\ frame = s[n] /\ frame \in FrameOf
      /\ Front(s) \in Seq(FrameOf) /\ Len(Front(s)) = n - 1
      /\ \A i \in 1 .. n - 1 : Front(s)[i] = s[i]
  <2>1. s \in Seq(FrameOf)
    BY DEF LockInv, Types
  <2> HIDE DEF s
  <2> QED
    BY <2>1, StackParts DEF s
<1>2. /\ at \in DOMAIN frame.out /\ at \in Nat \ {0} /\ frame.next <= at /\ x \in Lists
      /\ \A i \in DOMAIN frame.out : i >= frame.next /\ i < at => frame.out[i] \notin Lists
  BY <1>1, PendingLeast
<1>3. frame.next \in Nat /\ DOMAIN frame.out \subseteq Nat
  <2> HIDE DEF frame
  <2>1. frame.out \in Seq(Value) /\ frame.next \in Nat
    BY <1>1 DEF FrameOf
  <2> QED
    BY <2>1
<1>4. /\ old.list = frame.list /\ old.out = frame.out /\ old.next = at
  <2> HIDE DEF frame, at
  <2> QED
    BY <1>1 DEF FrameOf
<1>5. DOMAIN f = 1 .. n + 1 /\ (\A i \in 1 .. n - 1 : f[i] = s[i]) /\ f[n] = old /\ f[n + 1] = new
  <2> DEFINE front == Front(s)
  <2>1. front \in Seq(FrameOf) /\ Len(front) = n - 1 /\ \A i \in 1 .. n - 1 : front[i] = s[i]
    BY <1>1
  <2> HIDE DEF front, old, new, n, s
  <2>2. f = Append(front \o <<old>>, new)
    BY DEF front
  <2>3. n \in Nat \ {0}
    BY <1>1
  <2> QED
    BY <2>1, <2>2, <2>3
<1>6. copy'[t] = f
  BY DEF Deeper
<1> HIDE DEF f
<1>7. /\ x \in Ahead(frame)
      /\ Done(old) \cap Lists \subseteq Done(frame) /\ Ahead(old) \subseteq Ahead(frame)
  <2> HIDE DEF frame, at, old
  <2>1. \A i \in DOMAIN frame.out : i < at => i < frame.next \/ frame.out[i] \notin Lists
    BY <1>2, <1>3
  <2>2. \A i \in DOMAIN frame.out : i >= at => i >= frame.next
    BY <1>2, <1>3
  <2>3. at >= frame.next
    BY <1>2, <1>3
  <2> QED
    BY <1>2, <1>4, <2>1, <2>2, <2>3 DEF Done, Ahead
<1>8. Done(new) = {} /\ Ahead(new) \subseteq {x} \cup Range(heap[x])
  <2> HIDE DEF x
  <2>1. new.list = x /\ new.out = heap[x] /\ new.next = 1
    BY DEF Frame
  <2>2. ASSUME x \in Lists PROVE \A i \in DOMAIN heap[x] : ~ (i < 1)
    <3>1. heap[x] \in Seq(Value)
      BY <2>2, HeapItems
    <3> QED
      BY <3>1
  <2> HIDE DEF new
  <2> QED
    BY <1>2, <2>1, <2>2 DEF Done, Ahead, Range, x
<1> HIDE DEF old, new, x, frame, s
<1>9. \A i \in 1 .. n : Done(s[i]) \subseteq Made(t) /\ Ahead(s[i]) \subseteq Copied(t)
  BY <1>1 DEF Made, Copied, s
<1>10. Done(frame) \subseteq Made(t) /\ Ahead(frame) \subseteq Copied(t)
  BY <1>1, <1>9
<1>11. /\ \A i \in 1 .. n + 1 : i \in 1 .. n - 1 \/ i = n \/ i = n + 1
       /\ \A i \in 1 .. n - 1 : i \in 1 .. n
  <2>1. n \in Nat \ {0}
    BY <1>1
  <2> HIDE DEF n
  <2> QED
    BY <2>1
<1>12. Made(t)' = UNION {Done(f[i]) : i \in 1 .. n + 1}
       /\ Copied(t)' = UNION {Ahead(f[i]) : i \in 1 .. n + 1}
  BY <1>5, <1>6 DEF Made, Copied
<1>13. ASSUME NEW i \in 1 .. n + 1
       PROVE  /\ Done(f[i]) \cap Lists \subseteq Made(t)
              /\ Ahead(f[i]) \subseteq Copied(t) \cup {x} \cup Range(heap[x])
  <2>1. CASE i \in 1 .. n - 1
    <3>1. f[i] = s[i]
      BY <1>5, <2>1
    <3>2. i \in 1 .. n
      BY <1>11, <2>1
    <3> QED
      BY <1>9, <3>1, <3>2
  <2>2. CASE i = n
    BY <1>5, <1>7, <1>10, <2>2
  <2>3. CASE i = n + 1
    BY <1>5, <1>8, <2>3
  <2> QED
    BY <1>11, <2>1, <2>2, <2>3
<1>14. Made(t)' \cap Lists \subseteq Made(t)
       /\ Copied(t)' \subseteq Copied(t) \cup {x} \cup Range(heap[x])
  BY <1>12, <1>13
<1>15. CopyRoots(t)' \subseteq CopyRoots(t) \cup {x} \cup Range(heap[x])
  <2> DEFINE Both(frm) == {frm.list} \cup Range(frm.out)
  <2>1. CopyRoots(t)' = UNION {Both(f[i]) : i \in 1 .. n + 1}
    BY <1>5, <1>6 DEF CopyRoots
  <2>2. \A i \in 1 .. n : Both(s[i]) \subseteq CopyRoots(t)
    BY <1>1 DEF CopyRoots, s
  <2>3. Both(old) = Both(s[n]) /\ n \in 1 .. n
    BY <1>1, <1>4
  <2>4. Both(new) = {x} \cup Range(heap[x])
    BY DEF new, Frame
  <2> HIDE DEF Both
  <2>5. ASSUME NEW i \in 1 .. n + 1 PROVE Both(f[i]) \subseteq CopyRoots(t) \cup {x} \cup Range(heap[x])
    <3>1. CASE i \in 1 .. n - 1
      <4>1. f[i] = s[i]
        BY <1>5, <3>1
      <4>2. i \in 1 .. n
        BY <1>11, <3>1
      <4> QED
        BY <2>2, <4>1, <4>2
    <3>2. CASE i = n
      BY <1>5, <2>2, <2>3, <3>2
    <3>3. CASE i = n + 1
      BY <1>5, <2>4, <3>3
    <3> QED
      BY <1>11, <3>1, <3>2, <3>3
  <2> QED
    BY <2>1, <2>5
<1>16. x \in Lists /\ x \in Copied(t)
  BY <1>2, <1>7, <1>10 DEF x
<1> QED
  BY <1>14, <1>15, <1>16

\* An item that has been copied takes the place of the one it is a copy of.
LEMMA FrameFilled ==
  ASSUME NEW frame \in FrameOf, NEW v
  PROVE  /\ Done(Filled(frame, v)) \subseteq Done(frame) \cup {v}
         /\ Ahead(Filled(frame, v)) \subseteq Ahead(frame)
         /\ Range(Filled(frame, v).out) \subseteq Range(frame.out) \cup {v}
         /\ Filled(frame, v).list = frame.list
<1> DEFINE new == Filled(frame, v)
<1>1. /\ new.list = frame.list /\ new.next = frame.next + 1
      /\ DOMAIN new.out = DOMAIN frame.out
      /\ \A i \in DOMAIN frame.out : new.out[i] = IF i = frame.next THEN v ELSE frame.out[i]
  BY DEF Filled
<1> HIDE DEF new
<1>2. frame.next \in Nat /\ DOMAIN frame.out \subseteq Nat
  <2>1. frame.out \in Seq(Value) /\ frame.next \in Nat
    BY DEF FrameOf
  <2> QED
    BY <2>1
<1>3. \A i \in DOMAIN frame.out :
        /\ i < new.next => i < frame.next \/ i = frame.next
        /\ i >= new.next => i >= frame.next /\ i # frame.next
  BY <1>1, <1>2
<1>4. Done(new) \subseteq Done(frame) \cup {v}
  BY <1>1, <1>3 DEF Done
<1>5. Ahead(new) \subseteq Ahead(frame)
  BY <1>1, <1>3 DEF Ahead
<1>6. Range(new.out) \subseteq Range(frame.out) \cup {v}
  BY <1>1 DEF Range
<1> QED
  BY <1>1, <1>4, <1>5, <1>6 DEF new

\* Back in the outer frame there is one new list, the one just made.
LEMMA ShallowerFrames ==
  ASSUME LockInv, NEW t \in Threads, copy[t] # <<>>, Front(copy[t]) # <<>>,
         copy'[t] = Shallower(t)
  PROVE  /\ Made(t)' \subseteq Made(t) \cup {Fresh}
         /\ Copied(t)' \subseteq Copied(t)
         /\ CopyRoots(t)' \subseteq CopyRoots(t) \cup {Fresh}
<1> DEFINE s == copy[t]
           outer == Front(s)
           n == Len(outer)
           new == Filled(Last(outer), Fresh)
           f == Append(Front(outer), new)
<1>1. /\ outer \in Seq(FrameOf) /\ n \in Nat \ {0}
      /\ \A i \in 1 .. n : i \in DOMAIN s /\ outer[i] = s[i]
  <2>1. s \in Seq(FrameOf)
    BY DEF LockInv, Types
  <2>2. outer \in Seq(FrameOf) /\ Len(outer) = Len(s) - 1 /\ Len(s) \in Nat \ {0}
        /\ DOMAIN s = 1 .. Len(s) /\ \A i \in 1 .. Len(s) - 1 : outer[i] = s[i]
    <3> HIDE DEF s
    <3> QED
      BY <2>1, StackParts DEF s
  <2>3. n \in Nat \ {0}
    <3>1. outer \in Seq(FrameOf) /\ outer # <<>>
      BY <2>2
    <3> HIDE DEF outer
    <3> QED
      BY <3>1
  <2> HIDE DEF s, outer
  <2> QED
    BY <2>2, <2>3
<1>2. /\ Last(outer) = outer[n] /\ Last(outer) \in FrameOf
      /\ Front(outer) \in Seq(FrameOf) /\ Len(Front(outer)) = n - 1
      /\ \A i \in 1 .. n - 1 : Front(outer)[i] = outer[i]
  <2>1. outer # <<>>
    OBVIOUS
  <2> HIDE DEF outer
  <2> QED
    BY <1>1, <2>1, StackParts
<1>3. DOMAIN f = 1 .. n /\ (\A i \in 1 .. n - 1 : f[i] = outer[i]) /\ f[n] = new
  <2> DEFINE front == Front(outer)
  <2>1. front \in Seq(FrameOf) /\ Len(front) = n - 1 /\ \A i \in 1 .. n - 1 : front[i] = outer[i]
    BY <1>2
  <2>2. n \in Nat \ {0}
    BY <1>1
  <2> HIDE DEF front, new, n, outer
  <2>3. f = Append(front, new)
    BY DEF front
  <2> QED
    BY <2>1, <2>2, <2>3
<1>4. copy'[t] = f
  BY DEF Shallower
<1>5. /\ Done(new) \subseteq Done(outer[n]) \cup {Fresh} /\ Ahead(new) \subseteq Ahead(outer[n])
      /\ Range(new.out) \subseteq Range(outer[n].out) \cup {Fresh} /\ new.list = outer[n].list
  <2> HIDE DEF outer
  <2> QED
    BY <1>2, FrameFilled
<1>6. \A i \in 1 .. n : i \in 1 .. n - 1 \/ i = n
  <2>1. n \in Nat \ {0}
    BY <1>1
  <2> HIDE DEF n
  <2> QED
    BY <2>1
<1> HIDE DEF f, new, outer, n, s
<1>7. ASSUME NEW i \in 1 .. n
      PROVE  /\ Done(f[i]) \subseteq Done(s[i]) \cup {Fresh} /\ Ahead(f[i]) \subseteq Ahead(s[i])
             /\ Range(f[i].out) \subseteq Range(s[i].out) \cup {Fresh} /\ f[i].list = s[i].list
  <2>1. CASE i \in 1 .. n - 1
    BY <1>1, <1>3, <2>1
  <2>2. CASE i = n
    BY <1>1, <1>3, <1>5, <2>2
  <2> QED
    BY <1>6, <2>1, <2>2
<1>8. Made(t)' \subseteq Made(t) \cup {Fresh} /\ Copied(t)' \subseteq Copied(t)
  BY <1>1, <1>3, <1>4, <1>7 DEF Made, Copied, s
<1>9. CopyRoots(t)' \subseteq CopyRoots(t) \cup {Fresh}
  BY <1>1, <1>3, <1>4, <1>7 DEF CopyRoots, s
<1> QED
  BY <1>8, <1>9

\* The items of a list that has been copied through.
LEMMA LastFrame ==
  ASSUME LockInv, NEW t \in Threads, copy[t] # <<>>
  PROVE  /\ Range(Last(copy[t]).out) \subseteq CopyRoots(t)
         /\ Pending(Last(copy[t])) = {} => Range(Last(copy[t]).out) \cap Lists \subseteq Made(t)
<1> DEFINE s == copy[t]
           frame == Last(s)
<1>1. frame \in FrameOf /\ frame = s[Len(s)] /\ Len(s) \in DOMAIN s
  <2>1. s \in Seq(FrameOf)
    BY DEF LockInv, Types
  <2> HIDE DEF s
  <2> QED
    BY <2>1, StackParts DEF s
<1> HIDE DEF frame
<1>2. Done(frame) \subseteq Made(t) /\ Range(frame.out) \subseteq CopyRoots(t)
  BY <1>1 DEF Made, CopyRoots
<1>3. ASSUME Pending(frame) = {} PROVE Range(frame.out) \cap Lists \subseteq Done(frame)
  <2>1. frame.out \in Seq(Value) /\ frame.next \in Nat
    BY <1>1 DEF FrameOf
  <2>2. ASSUME NEW i \in DOMAIN frame.out, frame.out[i] \in Lists PROVE i < frame.next
    <3>1. i \in 1 .. Len(frame.out) /\ Len(frame.out) \in Nat
      BY <2>1
    <3>2. i >= frame.next => i \in Pending(frame)
      BY <2>1, <2>2, <3>1 DEF Pending
    <3> QED
      BY <1>3, <2>1, <3>1, <3>2
  <2> QED
    BY <2>2 DEF Done, Range
<1> QED
  BY <1>2, <1>3 DEF frame

\* To go into a list makes none.
LEMMA CopyEntersKeeps ==
  ASSUME MemoryInv, NEW t \in Threads, CopyEnters(t), LockStep(t)
  PROVE  MemoryStep(t) /\ FreeIsEmpty'
<1>1. /\ hand'[t] = hand[t] /\ other'[t] = other[t] /\ pc'[t] = pc[t] /\ call'[t] = call[t]
      /\ private'[t] = private[t] /\ UNCHANGED tree
      /\ copy[t] # <<>> /\ Pending(Last(copy[t])) # {} /\ copy'[t] = Deeper(t)
  BY StepOf DEF CopyEnters, Deeper, Types
<1>2. PICK x \in Lists :
        /\ x \in Copied(t)
        /\ Made(t)' \cap Lists \subseteq Made(t)
        /\ Copied(t)' \subseteq Copied(t) \cup {x} \cup Range(heap[x])
        /\ CopyRoots(t)' \subseteq CopyRoots(t) \cup {x} \cup Range(heap[x])
  BY <1>1, DeeperFrames, StepOf
<1>3. Shrinks
  BY KeptShrinks, StepOf DEF CopyEnters
<1>4. FreeIsEmpty'
  BY FreedAreEmpty DEF CopyEnters, Kept
<1>5. x \in CopyRoots(t) /\ ScriptRoots(t)' = ScriptRoots(t) /\ TreeRoots' = TreeRoots
  BY <1>1, <1>2, CopyParts, SameTree, StepOf DEF ScriptRoots
<1>6. ASSUME NEW roots, x \in roots
      PROVE  (roots \cup {x} \cup Range(heap[x])) \cap Lists \subseteq Reach(heap, roots)
  <2>1. x \in Reach(heap, roots) /\ roots \cap Lists \subseteq Reach(heap, roots)
    BY <1>6, ReachParts
  <2>2. Range(heap[x]) \cap Lists \subseteq Reach(heap, roots)
    BY <2>1, ReachParts
  <2> QED
    BY <2>1, <2>2
<1>7. OwnStep(t)
  <2>1. CopyRoots(t) \cap Lists \subseteq Own(t) /\ x \in Own(t)
    BY <1>5, OwnParts
  <2>2. Range(heap[x]) \cap Lists \subseteq Own(t)
    BY <2>1, OwnParts
  <2>3. CopyRoots(t)' \cap Lists \subseteq Own(t)
    BY <1>2, <2>1, <2>2
  <2>4. TreeRoots' \cap Lists \subseteq Own(t) /\ ScriptRoots(t)' \cap Lists \subseteq Own(t)
    BY <1>5, OwnParts
  <2> QED
    BY <1>3, <2>3, <2>4, StepOf DEF OwnStep, Shrinks
<1>8. HandApart(t)'
  <2>1. CASE ~ private[t]
    BY <1>1, <2>1 DEF HandApart
  <2>2. CASE private[t]
    <3>1. ~ Lent(t)'
      BY <1>1, <2>2 DEF MemoryInv, HandApart, Lent
    <3>2. (Others(t) \cup {x} \cup Range(heap[x])) \cap Lists \subseteq Shared(t)
      <4>1. x \in Others(t)
        BY <1>5, OtherRoots
      <4> QED
        BY <1>6, <4>1 DEF Shared
    <3>3. CopyRoots(t)' \cap Lists \subseteq Shared(t) /\ TreeRoots' \cap Lists \subseteq Shared(t)
      BY <1>2, <1>5, <3>2, OtherRoots
    <3> QED
      BY <1>1, <1>3, <2>2, <3>1, <3>3, SameInHand, StepOf DEF Shrinks
  <2> QED
    BY <2>1, <2>2
<1>9. CopyApart(t)'
  <2>1. Apart(heap, Made(t), Rest(t))
    BY DEF MemoryInv, CopyApart
  <2>2. Rest(t)' \cap Lists \subseteq Reach(heap, Rest(t))
    <3>1. (Rest(t) \cup {x} \cup Range(heap[x])) \cap Lists \subseteq Reach(heap, Rest(t))
      <4>1. x \in Rest(t)
        BY <1>2, OtherRoots
      <4> QED
        BY <1>6, <4>1
    <3>2. Rest(t)' \subseteq TreeRoots' \cup ScriptRoots(t)' \cup Copied(t)' \cup Rest(t)
      BY OthersStep, StepOf
    <3>3. TreeRoots \cup ScriptRoots(t) \cup Copied(t) \subseteq Rest(t)
      BY OtherRoots
    <3> QED
      BY <1>2, <1>5, <3>1, <3>2, <3>3
  <2>3. Apart(heap', Made(t), Rest(t)')
    <3>1. Reach(heap, Made(t)) \cap {} = {} /\ {} \in SUBSET Lists
          /\ \A o \in {} : Range(heap[o]) \cap Lists \subseteq {}
      OBVIOUS
    <3>2. Rest(t)' \cap Lists \subseteq {} \cup Reach(heap, Rest(t))
      BY <2>2
    <3>3. \A o \in Lists : \/ Range(heap'[o]) \cap Lists \subseteq Range(heap[o])
                           \/ o \in {} /\ Range(heap'[o]) \cap Lists \subseteq {}
      BY <1>3 DEF Shrinks
    <3> QED
      BY <2>1, <3>1, <3>2, <3>3, ApartKept
  <2>4. Made(t)' \cap Lists \subseteq Reach(heap', Made(t))
        /\ Rest(t)' \cap Lists \subseteq Reach(heap', Rest(t)')
    BY <1>2, ReachParts
  <2>5. Apart(heap', Made(t)', Rest(t)')
    BY <2>3, <2>4, ApartFewer
  <2> QED
    BY <2>5 DEF CopyApart
<1> QED
  BY <1>4, <1>7, <1>8, <1>9 DEF MemoryStep

\* A new list holds lists that the copy has made, and nobody else has them.
LEMMA CopyLeavesKeeps ==
  ASSUME MemoryInv, NEW t \in Threads, CopyLeaves(t), LockStep(t)
  PROVE  MemoryStep(t) /\ FreeIsEmpty'
<1>1. /\ other'[t] = other[t] /\ copy[t] # <<>> /\ Pending(Last(copy[t])) = {} /\ Free # {}
  BY DEF CopyLeaves
<1>2. FreeIsEmpty'
  BY FreedAreEmpty DEF CopyLeaves
<1>3. /\ Range(heap'[Fresh]) \cap Lists \subseteq Made(t) /\ Range(heap'[Fresh]) \subseteq CopyRoots(t)
      /\ \A o \in Lists \ {Fresh} : Range(heap'[o]) \cap Lists \subseteq Range(heap[o])
  <2>1. /\ Fresh \in Lists
        /\ \A o \in Lists : Range(heap'[o]) \subseteq
             (IF o = Fresh THEN Range(Last(copy[t]).out) ELSE Range(heap[o]))
    BY CopyLeavesHeap, StepOf
  <2>2. Range(Last(copy[t]).out) \subseteq CopyRoots(t)
        /\ Range(Last(copy[t]).out) \cap Lists \subseteq Made(t)
    BY <1>1, LastFrame, StepOf
  <2> QED
    BY <2>1, <2>2
<1>4. Fresh \in Lists /\ Fresh \in Own(t) /\ Fresh \notin Reach(heap, Made(t))
      /\ Fresh \notin Reach(heap, Rest(t)) /\ Made(t) \subseteq Roots /\ Rest(t) \subseteq Roots
  BY <1>1, FreshIsNew, OtherRoots, StepOf
<1>5. \A o \in Lists : \/ Range(heap'[o]) \cap Lists \subseteq Range(heap[o])
                       \/ o \in Own(t) /\ Range(heap'[o]) \cap Lists \subseteq Own(t)
  <2>1. Range(heap'[Fresh]) \cap Lists \subseteq Own(t)
    BY <1>3, OwnParts
  <2> QED
    BY <1>3, <1>4, <2>1
<1>6. Apart(heap, Made(t), Rest(t))
  BY DEF MemoryInv, CopyApart
<1>7. CASE Front(copy[t]) = <<>>
  <2>1. Deliver(t, Fresh) /\ copy'[t] = <<>> /\ Fresh \in Value
    BY <1>1, <1>7, FreshIsFree, StepOf DEF CopyLeaves, Types
  <2>2. hand'[t] = Fresh /\ call'[t] = Idle /\ pc'[t] = "script"
    BY <2>1, GiveTypes, StepOf DEF Deliver
  <2>3. TreeRoots' \subseteq TreeRoots \cup {hand[t]}
    BY <2>1, DeliverTree
  <2>4. OwnStep(t) /\ CopyApart(t)'
    <3>1. TreeRoots' \subseteq TreeRoots \cup {hand[t], Null}
      BY <2>3
    <3>2. other'[t] \in Lists => other'[t] \in Own(t)
      BY <1>1, OwnParts
    <3> QED
      BY <1>4, <1>5, <2>1, <2>2, <3>1, <3>2, PlainStep, StepOf
  <2>5. ~ Lent(t)'
    BY <2>2 DEF Lent, Idle
  <2>6. Others(t)' \cap Lists \subseteq Reach(heap, Rest(t))
    <3>1. Others(t)' \subseteq TreeRoots' \cup Rest(t)
      BY <2>1, OthersStep, StepOf
    <3>2. TreeRoots \cup ScriptRoots(t) \subseteq Rest(t) /\ hand[t] \in ScriptRoots(t)
      BY OtherRoots, RootParts
    <3>3. Rest(t) \cap Lists \subseteq Reach(heap, Rest(t))
      BY ReachParts
    <3> QED
      BY <2>3, <3>1, <3>2, <3>3
  <2>7. Range(heap'[Fresh]) \cap Lists \subseteq Reach(heap, Made(t))
    BY <1>3, ReachParts
  <2>8. HandApart(t)'
    BY <1>1, <1>3, <1>4, <1>6, <2>2, <2>5, <2>6, <2>7, NewInHand
  <2> QED
    BY <1>2, <2>4, <2>8 DEF MemoryStep
<1>8. CASE Front(copy[t]) # <<>>
  <2>1. copy'[t] = Shallower(t) /\ UNCHANGED <<tree, hand, call, pc, private>>
    BY <1>8, StepOf DEF CopyLeaves, Shallower, Types
  <2>2. /\ Made(t)' \subseteq Made(t) \cup {Fresh} /\ Copied(t)' \subseteq Copied(t)
        /\ CopyRoots(t)' \subseteq CopyRoots(t) \cup {Fresh}
    BY <1>1, <1>8, <2>1, ShallowerFrames, StepOf
  <2>3. TreeRoots' = TreeRoots /\ ScriptRoots(t)' = ScriptRoots(t)
    BY <1>1, <2>1, SameTree DEF ScriptRoots
  <2>4. OwnStep(t)
    <3>1. CopyRoots(t)' \cap Lists \subseteq Own(t)
      BY <1>4, <2>2, OwnParts
    <3>2. TreeRoots' \cap Lists \subseteq Own(t) /\ ScriptRoots(t)' \cap Lists \subseteq Own(t)
      BY <2>3, OwnParts
    <3> QED
      BY <1>5, <3>1, <3>2, StepOf DEF OwnStep
  <2>5. HandApart(t)'
    <3>1. CASE ~ private[t]
      BY <2>1, <3>1 DEF HandApart
    <3>2. CASE private[t]
      <4>1. ~ Lent(t)'
        BY <2>1, <3>2 DEF MemoryInv, HandApart, Lent
      <4>2. Others(t) \cap Lists \subseteq Shared(t) /\ Fresh \in Shared(t)
        <5>1. Fresh \in Free
          BY <1>1 DEF Fresh
        <5>2. Others(t) \cap Lists \subseteq Reach(heap, Others(t))
          BY ReachParts
        <5> QED
          BY <5>1, <5>2 DEF Shared
      <4>3. TreeRoots \subseteq Others(t) /\ CopyRoots(t) \subseteq Others(t)
        BY OtherRoots
      <4>4. \A o \in Lists : \/ Range(heap'[o]) \cap Lists \subseteq Range(heap[o])
                             \/ o \in Shared(t) /\ Range(heap'[o]) \cap Lists \subseteq Shared(t)
        <5>1. Range(heap'[Fresh]) \cap Lists \subseteq Shared(t)
          BY <1>3, <4>2, <4>3
        <5> QED
          BY <1>3, <4>2, <5>1
      <4>5. TreeRoots' \cap Lists \subseteq Shared(t) /\ CopyRoots(t)' \cap Lists \subseteq Shared(t)
        BY <2>2, <2>3, <4>2, <4>3
      <4> QED
        BY <2>1, <3>2, <4>1, <4>4, <4>5, SameInHand, StepOf
    <3> QED
      BY <3>1, <3>2
  <2>6. CopyApart(t)'
    <3> DEFINE P == Reach(heap, Made(t)) \cup {Fresh}
               Q == Reach(heap, Rest(t))
    <3>1. Closed(heap', Made(t)', P)
      <4>1. /\ Reach(heap, Made(t)) \subseteq Lists /\ Made(t) \cap Lists \subseteq Reach(heap, Made(t))
            /\ \A o \in Reach(heap, Made(t)) : Range(heap[o]) \cap Lists \subseteq Reach(heap, Made(t))
        BY ReachParts
      <4>2. \A o \in Reach(heap, Made(t)) : Range(heap'[o]) \cap Lists \subseteq Reach(heap, Made(t))
        BY <1>3, <1>4, <4>1
      <4>3. Range(heap'[Fresh]) \cap Lists \subseteq Reach(heap, Made(t))
        BY <1>3, <4>1
      <4> QED
        BY <1>4, <2>2, <4>1, <4>2, <4>3 DEF Closed
    <3>2. Closed(heap', Rest(t)', Q)
      <4>1. Q \subseteq Lists /\ Rest(t) \cap Lists \subseteq Q
            /\ \A o \in Q : Range(heap[o]) \cap Lists \subseteq Q
        BY ReachParts
      <4>2. \A o \in Q : Range(heap'[o]) \cap Lists \subseteq Q
        BY <1>3, <1>4, <4>1
      <4>3. Rest(t)' \subseteq Rest(t)
        BY <2>2, <2>3, OthersStep, OtherRoots, StepOf
      <4> QED
        BY <4>1, <4>2, <4>3 DEF Closed
    <3>3. P \cap Q = {}
      BY <1>4, <1>6 DEF Apart
    <3> HIDE DEF P, Q
    <3>4. Apart(heap', Made(t)', Rest(t)')
      BY <3>1, <3>2, <3>3, ApartBy
    <3> QED
      BY <3>4 DEF CopyApart
  <2> QED
    BY <1>2, <2>4, <2>5, <2>6 DEF MemoryStep
<1> QED
  BY <1>7, <1>8

-----------------------------------------------------------------------------
(* The memory, in every state *)

\* Every action keeps the invariant.
LEMMA MemoryStepKeeps ==
  ASSUME MemoryInv, NEW t \in Threads, Script(t) \/ Proceed(t)
  PROVE  MemoryInv'
<1>1. LockInv /\ LockStep(t)
  BY ThreadSteps DEF MemoryInv
<1>2. LockInv'
  BY <1>1, LockStepKeeps
<1>3. MemoryStep(t) /\ FreeIsEmpty'
  <2>1. CASE Script(t)
    BY <1>1, <2>1, NewListKeeps, WrapKeeps, FirstKeeps, SwapKeeps, BumpKeeps, CallKeeps, JoinKeeps
       DEF Script
  <2>2. CASE Proceed(t)
    BY <1>1, <2>2, BumpBackKeeps, JoinMovesKeeps, WriteKeeps, ReadKeeps, TakeKeeps, ReturnKeeps,
       CopyBeginsKeeps, CopyEntersKeeps, CopyLeavesKeeps DEF Proceed
  <2> QED
    BY <2>1, <2>2
<1>4. ASSUME NEW u \in Threads PROVE HandApart(u)' /\ CopyApart(u)'
  <2>1. CASE u = t
    BY <1>3, <2>1 DEF MemoryStep
  <2>2. CASE u # t
    BY <1>3, <2>2, OthersKeep DEF MemoryStep
  <2> QED
    BY <2>1, <2>2
<1> QED
  BY <1>2, <1>3, <1>4 DEF MemoryInv

\* At first nothing is private and nothing is being copied.
LEMMA InitMemory ==
  ASSUME Init
  PROVE  MemoryInv
<1> DEFINE a == CHOOSE o \in Lists : TRUE
           b == CHOOSE o \in Lists : o # a
<1>1. /\ heap \in {[o \in Lists |-> IF o = a THEN <<0>> ELSE IF o = b THEN items ELSE <<>>] :
                    items \in {<<0>>, <<a>>}}
      /\ copy = [t \in Threads |-> <<>>]
      /\ private = [t \in Threads |-> FALSE]
      /\ {a, b} \subseteq Reach(heap, Roots)
  BY DEF Init
<1> HIDE DEF a, b
<1>2. FreeIsEmpty
  <2>1. \A o \in Lists : o # a /\ o # b => heap[o] = <<>>
    BY <1>1
  <2> QED
    BY <1>1, <2>1 DEF FreeIsEmpty, Free
<1>3. ASSUME NEW t \in Threads PROVE HandApart(t) /\ CopyApart(t)
  <2>1. Made(t) = {}
    BY <1>1, NoCopy
  <2>2. Apart(heap, Made(t), Rest(t))
    BY <2>1, ApartNothing
  <2> QED
    BY <1>1, <2>2 DEF HandApart, CopyApart
<1> QED
  BY <1>2, <1>3, InitLocks DEF MemoryInv

LEMMA UnchangedMemory ==
  ASSUME MemoryInv, UNCHANGED vars
  PROVE  MemoryInv'
<1>1. UNCHANGED <<tree, heap, hand, other, reg, call, pc, copy, private>>
  BY DEF vars, tracked
<1>2. LockInv'
  BY UnchangedLocks DEF MemoryInv
<1>3. /\ TreeRoots' = TreeRoots
      /\ \A t \in Threads : ScriptRoots(t)' = ScriptRoots(t) /\ CopyRoots(t)' = CopyRoots(t)
      /\ \A t \in Threads : Made(t)' = Made(t) /\ Copied(t)' = Copied(t) /\ Lent(t)' = Lent(t)
  BY <1>1, SameTree DEF ScriptRoots, CopyRoots, Made, Copied, Lent
<1>4. Roots' = Roots
  BY <1>3 DEF Roots
<1>5. \A t \in Threads : Others(t)' = Others(t) /\ Rest(t)' = Rest(t)
  BY <1>3 DEF Others, Rest
<1>6. FreeIsEmpty'
  BY <1>1, <1>4 DEF MemoryInv, FreeIsEmpty, Free
<1>7. ASSUME NEW t \in Threads PROVE HandApart(t)' /\ CopyApart(t)'
  <2>1. HandApart(t) /\ CopyApart(t)
    BY DEF MemoryInv
  <2> QED
    BY <1>1, <1>3, <1>5, <2>1 DEF HandApart, CopyApart
<1> QED
  BY <1>2, <1>6, <1>7 DEF MemoryInv

(* What a script has read, and what a copy has made, can be reached by nobody else, *)
(* and a list that is free is empty.                                                *)
THEOREM MemoryInvariant == Spec => []MemoryInv
<1>1. ASSUME MemoryInv, [Next]_vars PROVE MemoryInv'
  <2>1. CASE Next
    BY <1>1, <2>1, MemoryStepKeeps DEF Next
  <2> QED
    BY <1>1, <2>1, UnchangedMemory
<1> QED
  BY <1>1, InitMemory, PTL DEF Spec

\* The invariant says of what a script has read that it is private.
LEMMA ApartIsPrivate ==
  ASSUME MemoryInv
  PROVE  GottenIsPrivate
<1> SUFFICES ASSUME NEW t \in Threads, private[t]
             PROVE  Reach(heap, {hand[t]}) \cap
                      Reach(heap, TreeRoots \cup (UNION {ScriptRoots(u) : u \in Threads \ {t}})) = {}
  BY DEF GottenIsPrivate
<1>1. Apart(heap, {hand[t]}, Others(t))
  BY DEF MemoryInv, HandApart
<1> DEFINE shared == TreeRoots \cup (UNION {ScriptRoots(u) : u \in Threads \ {t}})
<1>2. shared \subseteq Others(t)
  BY DEF Others
<1> HIDE DEF shared
<1>3. Reach(heap, shared) \subseteq Reach(heap, Others(t))
  BY <1>2, ReachParts, ReachMonotone
<1>4. Reach(heap, {hand[t]}) \cap Reach(heap, shared) = {}
  BY <1>1, <1>3 DEF Apart
<1> QED
  BY <1>4 DEF shared

(* What a script has read is its own: no list of it is in the tree or with another *)
(* script, in any state, however many scripts there are.                           *)
THEOREM GottenStaysPrivate == Spec => []GottenIsPrivate
BY MemoryInvariant, ApartIsPrivate, PTL
-----------------------------------------------------------------------------
(* The numbers of a node, one by one *)

\* Ones, of any node and heap: W the values of the node, S the lists in it.
ItemsOf(W, h, o) == IF o = Null THEN W ELSE h[o]
Marks(W, h, S) ==
  UNION {UNION {{<<o, i>>} \X Units(ItemsOf(W, h, o)[i]) : i \in DOMAIN ItemsOf(W, h, o)} :
           o \in S \cup {Null}}
IsMark(W, h, S, o, i, j) ==
  o \in S \cup {Null} /\ i \in DOMAIN ItemsOf(W, h, o) /\ j \in Units(ItemsOf(W, h, o)[i])

\* A one has a place and a number.
LEMMA MarkIs ==
  ASSUME NEW W, NEW h, NEW S
  PROVE  /\ \A o, i, j : <<<<o, i>>, j>> \in Marks(W, h, S) <=> IsMark(W, h, S, o, i, j)
         /\ \A p \in Marks(W, h, S) : \E o, i, j : p = <<<<o, i>>, j>>
<1> DEFINE At_(o) == UNION {{<<o, i>>} \X Units(ItemsOf(W, h, o)[i]) : i \in DOMAIN ItemsOf(W, h, o)}
<1>1. \A p : p \in Marks(W, h, S) <=> \E o \in S \cup {Null} : p \in At_(o)
  BY DEF Marks
<1>2. \A o, p : p \in At_(o) <=>
         \E i \in DOMAIN ItemsOf(W, h, o) : \E j \in Units(ItemsOf(W, h, o)[i]) : p = <<<<o, i>>, j>>
  OBVIOUS
<1> HIDE DEF At_
<1> QED
  BY <1>1, <1>2 DEF IsMark

\* There are finitely many.
LEMMA UnionFinite ==
  ASSUME NEW D, IsFiniteSet(D), NEW f, DOMAIN f = D, \A x \in D : IsFiniteSet(f[x])
  PROVE  IsFiniteSet(UNION {f[x] : x \in D})
<1> DEFINE T == {f[x] : x \in D}
           g == [x \in D |-> f[x]]
<1>1. g \in Surjection(D, T)
  BY DEF Surjection
<1>2. IsFiniteSet(T)
  BY <1>1, FS_Surjection
<1> QED
  BY <1>2, FS_UNION

\* Every list is finite, and so is a node.
LEMMA MarksFinite ==
  ASSUME NEW W, IsFiniteSet(DOMAIN W), NEW h \in Heaps, NEW S \in SUBSET Lists
  PROVE  IsFiniteSet(Marks(W, h, S))
<1> DEFINE Place(o, i) == {<<o, i>>} \X Units(ItemsOf(W, h, o)[i])
           f(o) == [i \in DOMAIN ItemsOf(W, h, o) |-> Place(o, i)]
           At_(o) == UNION {f(o)[i] : i \in DOMAIN ItemsOf(W, h, o)}
           g == [o \in S \cup {Null} |-> At_(o)]
<1>1. \A v : IsFiniteSet(Units(v))
  <2>1. IsFiniteSet(1 .. MaxCount)
    BY FS_Interval, RootMemoryAssumption
  <2>2. \A v : Units(v) \in SUBSET (1 .. MaxCount)
    BY DEF Units
  <2> QED
    BY <2>1, <2>2, FS_Subset
<1>2. \A o, i : IsFiniteSet(Place(o, i))
  BY <1>1, FS_Singleton, FS_Product
<1>3. \A o \in S \cup {Null} : IsFiniteSet(DOMAIN ItemsOf(W, h, o))
  <2>1. ASSUME NEW o \in S, o # Null PROVE IsFiniteSet(DOMAIN ItemsOf(W, h, o))
    <3>1. h[o] \in Seq(Value)
      BY DEF Heaps
    <3>2. Len(h[o]) \in Nat /\ DOMAIN h[o] = 1 .. Len(h[o])
      BY <3>1
    <3>3. IsFiniteSet(1 .. Len(h[o]))
      BY <3>2, FS_Interval
    <3> QED
      BY <2>1, <3>2, <3>3 DEF ItemsOf
  <2> QED
    BY <2>1 DEF ItemsOf
<1> HIDE DEF Place
<1>4. \A o \in S \cup {Null} : IsFiniteSet(At_(o))
  <2> SUFFICES ASSUME NEW o \in S \cup {Null} PROVE IsFiniteSet(At_(o))
    OBVIOUS
  <2>1. IsFiniteSet(DOMAIN ItemsOf(W, h, o)) /\ \A i \in DOMAIN ItemsOf(W, h, o) : IsFiniteSet(f(o)[i])
    BY <1>2, <1>3
  <2>2. DOMAIN f(o) = DOMAIN ItemsOf(W, h, o)
    OBVIOUS
  <2> HIDE DEF f
  <2> QED
    BY <2>1, <2>2, UnionFinite
<1>5. IsFiniteSet(S \cup {Null})
  BY FS_Subset, FS_AddElement, RootMemoryAssumption
<1>6. Marks(W, h, S) = UNION {g[o] : o \in S \cup {Null}}
  <2>1. \A o \in S \cup {Null} :
          g[o] = UNION {{<<o, i>>} \X Units(ItemsOf(W, h, o)[i]) : i \in DOMAIN ItemsOf(W, h, o)}
    BY DEF Place
  <2> HIDE DEF g
  <2> QED
    BY <2>1 DEF Marks
<1> HIDE DEF At_
<1>7. \A o \in S \cup {Null} : IsFiniteSet(g[o])
  BY <1>4
<1>8. DOMAIN g = S \cup {Null}
  OBVIOUS
<1> HIDE DEF g
<1>9. IsFiniteSet(UNION {g[o] : o \in S \cup {Null}})
  BY <1>5, <1>7, <1>8, UnionFinite
<1> QED
  BY <1>6, <1>9

\* One more at one place makes one more.
LEMMA OneMore ==
  ASSUME NEW W, NEW h, NEW V, NEW g, NEW S, NEW o1 \in S \cup {Null}, NEW i1 \in DOMAIN ItemsOf(W, h, o1),
         ItemsOf(W, h, o1)[i1] \in Numbers \ {MaxCount},
         \A o \in S \cup {Null} : DOMAIN ItemsOf(V, g, o) = DOMAIN ItemsOf(W, h, o),
         \A o \in S \cup {Null} : \A i \in DOMAIN ItemsOf(W, h, o) :
           ItemsOf(V, g, o)[i] = IF o = o1 /\ i = i1 THEN ItemsOf(W, h, o)[i] + 1 ELSE ItemsOf(W, h, o)[i],
         IsFiniteSet(Marks(W, h, S))
  PROVE  Cardinality(Marks(V, g, S)) = Cardinality(Marks(W, h, S)) + 1
<1> DEFINE c == ItemsOf(W, h, o1)[i1]
           more == <<<<o1, i1>>, c + 1>>
<1>1. c \in Numbers /\ c + 1 \in Numbers /\ Units(c + 1) = Units(c) \cup {c + 1} /\ c + 1 \notin Units(c)
  BY RootMemoryAssumption DEF Numbers, Units
<1>2. more \notin Marks(W, h, S)
  BY <1>1, MarkIs DEF IsMark
<1>3. \A o, i, j : IsMark(V, g, S, o, i, j) <=> IsMark(W, h, S, o, i, j) \/ (o = o1 /\ i = i1 /\ j = c + 1)
  BY <1>1 DEF IsMark
<1> HIDE DEF c
<1>4. Marks(V, g, S) = Marks(W, h, S) \cup {more}
  <2>1. Marks(V, g, S) \subseteq Marks(W, h, S) \cup {more}
    <3> SUFFICES ASSUME NEW p \in Marks(V, g, S) PROVE p \in Marks(W, h, S) \cup {more}
      OBVIOUS
    <3>1. PICK o, i, j : p = <<<<o, i>>, j>>
      BY MarkIs
    <3> QED
      BY <1>3, <3>1, MarkIs
  <2>2. Marks(W, h, S) \subseteq Marks(V, g, S)
    <3> SUFFICES ASSUME NEW p \in Marks(W, h, S) PROVE p \in Marks(V, g, S)
      OBVIOUS
    <3>1. PICK o, i, j : p = <<<<o, i>>, j>>
      BY MarkIs
    <3> QED
      BY <1>3, <3>1, MarkIs
  <2>3. more \in Marks(V, g, S)
    BY <1>3, MarkIs
  <2> QED
    BY <2>1, <2>2, <2>3
<1> HIDE DEF more
<1> QED
  BY <1>2, <1>4, FS_AddElement

\* As many ones when a value has gone from the node into a list of its own.
LEMMA MarksMove ==
  ASSUME NEW W, NEW h, NEW V, NEW g, NEW S, NEW new, new \notin S, new # Null, new \notin Numbers,
         NEW k \in DOMAIN W, DOMAIN V = DOMAIN W, V[k] = new, \A i \in DOMAIN W \ {k} : V[i] = W[i],
         \A o \in S : g[o] = h[o], g[new] = <<W[k]>>, IsFiniteSet(Marks(W, h, S))
  PROVE  Cardinality(Marks(V, g, S \cup {new})) = Cardinality(Marks(W, h, S))
<1> DEFINE M == Marks(W, h, S)
           N == Marks(V, g, S \cup {new})
           Moved(p) == IF p[1] = <<Null, k>> THEN <<<<new, 1>>, p[2]>> ELSE p
           f == [p \in M |-> Moved(p)]
<1>1. DOMAIN <<W[k]>> = {1} /\ <<W[k]>>[1] = W[k]
  OBVIOUS
<1>2. Units(new) = {}
  BY DEF Units
<1>3. \A o, i, j : IsMark(V, g, S \cup {new}, o, i, j) <=>
         \/ (o = new /\ i = 1 /\ IsMark(W, h, S, Null, k, j))
         \/ (IsMark(W, h, S, o, i, j) /\ <<o, i>> # <<Null, k>>)
  <2> SUFFICES ASSUME NEW o, NEW i, NEW j
               PROVE  IsMark(V, g, S \cup {new}, o, i, j) <=>
                        \/ (o = new /\ i = 1 /\ IsMark(W, h, S, Null, k, j))
                        \/ (IsMark(W, h, S, o, i, j) /\ <<o, i>> # <<Null, k>>)
    OBVIOUS
  <2>1. CASE o = Null
    BY <1>1, <1>2, <2>1 DEF IsMark, ItemsOf
  <2>2. CASE o = new
    BY <1>1, <1>2, <2>2 DEF IsMark, ItemsOf
  <2>3. CASE o # Null /\ o # new
    BY <1>1, <1>2, <2>3 DEF IsMark, ItemsOf
  <2> QED
    BY <2>1, <2>2, <2>3
<1>4. \A p \in M : \E o, i, j : p = <<<<o, i>>, j>> /\ IsMark(W, h, S, o, i, j)
  BY MarkIs
<1>5. \A q \in N : \E o, i, j : q = <<<<o, i>>, j>> /\ IsMark(V, g, S \cup {new}, o, i, j)
  BY MarkIs
<1>6. \A o, i, j : /\ <<<<o, i>>, j>> \in M <=> IsMark(W, h, S, o, i, j)
                   /\ <<<<o, i>>, j>> \in N <=> IsMark(V, g, S \cup {new}, o, i, j)
  <2>1. \A o, i, j : <<<<o, i>>, j>> \in M <=> IsMark(W, h, S, o, i, j)
    BY MarkIs, Zenon
  <2>2. \A o, i, j : <<<<o, i>>, j>> \in N <=> IsMark(V, g, S \cup {new}, o, i, j)
    BY MarkIs, Zenon
  <2> QED
    BY <2>1, <2>2, Zenon
<1>7. \A o, i, j : IsMark(W, h, S, o, i, j) => o # new
  BY DEF IsMark
<1> HIDE DEF M, N
<1>8. \A p \in M : f[p] \in N
  <2> SUFFICES ASSUME NEW p \in M PROVE f[p] \in N
    OBVIOUS
  <2>1. PICK o, i, j : p = <<<<o, i>>, j>> /\ IsMark(W, h, S, o, i, j)
    BY <1>4
  <2>2. CASE o = Null /\ i = k
    <3>1. f[p] = <<<<new, 1>>, j>>
      BY <2>1, <2>2
    <3>2. IsMark(V, g, S \cup {new}, new, 1, j)
      BY <1>3, <2>1, <2>2
    <3> QED
      BY <1>6, <3>1, <3>2
  <2>3. CASE ~ (o = Null /\ i = k)
    <3>1. f[p] = p /\ <<o, i>> # <<Null, k>>
      BY <2>1, <2>3
    <3>2. IsMark(V, g, S \cup {new}, o, i, j)
      BY <1>3, <2>1, <3>1
    <3> QED
      BY <1>6, <2>1, <3>1, <3>2
  <2> QED
    BY <2>2, <2>3
<1>9. \A p, q \in M : f[p] = f[q] => p = q
  <2> SUFFICES ASSUME NEW p \in M, NEW q \in M, f[p] = f[q] PROVE p = q
    OBVIOUS
  <2>1. PICK o, i, j : p = <<<<o, i>>, j>> /\ o # new
    BY <1>4, <1>7
  <2>2. PICK a, b, c : q = <<<<a, b>>, c>> /\ a # new
    BY <1>4, <1>7
  <2> QED
    BY <2>1, <2>2
<1>10. \A q \in N : \E p \in M : f[p] = q
  <2> SUFFICES ASSUME NEW q \in N PROVE \E p \in M : f[p] = q
    OBVIOUS
  <2>1. PICK o, i, j : q = <<<<o, i>>, j>> /\ IsMark(V, g, S \cup {new}, o, i, j)
    BY <1>5
  <2>2. CASE o = new /\ i = 1 /\ IsMark(W, h, S, Null, k, j)
    <3>1. <<<<Null, k>>, j>> \in M /\ f[<<<<Null, k>>, j>>] = q
      BY <1>6, <2>1, <2>2
    <3> QED
      BY <3>1
  <2>3. CASE IsMark(W, h, S, o, i, j) /\ <<o, i>> # <<Null, k>>
    <3>1. q \in M /\ f[q] = q
      BY <1>6, <2>1, <2>3
    <3> QED
      BY <3>1
  <2> QED
    BY <1>3, <2>1, <2>2, <2>3
<1>11. ExistsBijection(M, N)
  <2>1. f \in Bijection(M, N)
    <3>1. f \in [M -> N]
      BY <1>8
    <3> HIDE DEF f
    <3>2. f \in Injection(M, N)
      BY <1>9, <3>1 DEF Injection, IsInjective
    <3>3. f \in Surjection(M, N)
      BY <1>10, <3>1 DEF Surjection
    <3> QED
      BY <3>2, <3>3 DEF Bijection
  <2> QED
    BY <2>1 DEF ExistsBijection
<1> QED
  BY <1>11, FS_Bijection DEF M, N
-----------------------------------------------------------------------------
(* What a node holds *)

\* Reach looks at lists only.
LEMMA ReachLists ==
  ASSUME NEW h, NEW g, NEW A, NEW B, A \cap Lists = B \cap Lists,
         \A o \in Reach(h, A) : Range(g[o]) \cap Lists = Range(h[o]) \cap Lists
  PROVE  Reach(g, B) = Reach(h, A)
<1>1. Closed(g, B, Reach(h, A))
  BY ReachParts DEF Closed
<1>2. Reach(g, B) \subseteq Reach(h, A)
  BY <1>1, ReachWithin
<1>3. Closed(h, A, Reach(g, B))
  BY <1>2, ReachParts DEF Closed
<1> QED
  BY <1>2, <1>3, ReachWithin

\* Lists that are not reached may change.
LEMMA ReachSame ==
  ASSUME NEW h, NEW g, NEW roots, \A o \in Reach(h, roots) : g[o] = h[o]
  PROVE  Reach(g, roots) = Reach(h, roots)
BY ReachLists

\* The key that an update has taken is still there when it puts the value back.
KeyStays(t, n) == Updates(t, n) => call[t].key \in DOMAIN tree[n].at

\* A node is updated by one at a time.
LEMMA OneUpdate ==
  ASSUME LockInv, NEW n, NEW t \in Threads, NEW u \in Threads, Updates(t, n), Updates(u, n)
  PROVE  t = u
BY DEF LockInv, Exclusive, Mine, Updates

\* The values of a node are in the tree, but for the one in the hand of its update.
WholeIs(n) ==
  /\ DOMAIN Whole(n) = DOMAIN tree[n].at
  /\ \A t \in Threads : Updates(t, n) =>
       Whole(n) = [k \in DOMAIN tree[n].at |-> IF k = call[t].key THEN hand[t] ELSE tree[n].at[k]]
  /\ (\A t \in Threads : ~ Updates(t, n)) => Whole(n) = tree[n].at
  /\ \A k \in DOMAIN Whole(n) : Whole(n)[k] \in Value
  /\ Range(Whole(n)) \subseteq Roots
  /\ IsFiniteSet(DOMAIN Whole(n))

Wholes == \A n \in Names : WholeIs(n)

LEMMA WholeParts == LockInv => Wholes
<1> SUFFICES ASSUME LockInv, NEW n \in Names PROVE WholeIs(n)
  BY DEF Wholes
<1> DEFINE out(k) == {u \in Threads : Updates(u, n) /\ call[u].key = k}
<1>1. Whole(n) = [k \in DOMAIN tree[n].at |->
                    IF out(k) = {} THEN tree[n].at[k] ELSE hand[CHOOSE u \in out(k) : TRUE]]
  BY DEF Whole
<1>2. \A k : out(k) = {} \/ (CHOOSE u \in out(k) : TRUE) \in out(k)
  OBVIOUS
<1>3. /\ tree[n] \in Node /\ hand \in [Threads -> Value]
      /\ tree[n].at = [k \in DOMAIN tree[n].at |-> tree[n].at[k]]
      /\ IsFiniteSet(DOMAIN tree[n].at) /\ \A k \in DOMAIN tree[n].at : tree[n].at[k] \in Value
  BY NodeParts DEF LockInv, Types
<1>4. ASSUME NEW t \in Threads, Updates(t, n)
      PROVE  Whole(n) = [k \in DOMAIN tree[n].at |-> IF k = call[t].key THEN hand[t] ELSE tree[n].at[k]]
  <2>1. \A k : out(k) = IF k = call[t].key THEN {t} ELSE {}
    BY <1>4, OneUpdate
  <2>2. (CHOOSE u \in {t} : TRUE) = t
    OBVIOUS
  <2> HIDE DEF out
  <2> QED
    BY <1>1, <2>1, <2>2
<1>5. ASSUME \A t \in Threads : ~ Updates(t, n) PROVE Whole(n) = tree[n].at
  <2>1. \A k : out(k) = {}
    BY <1>5
  <2> HIDE DEF out
  <2> QED
    BY <1>1, <1>3, <2>1
<1>6. DOMAIN Whole(n) = DOMAIN tree[n].at
  BY <1>1
<1>7. \A k \in DOMAIN Whole(n) : Whole(n)[k] \in Value /\ Whole(n)[k] \in Roots
  <2> SUFFICES ASSUME NEW k \in DOMAIN tree[n].at PROVE Whole(n)[k] \in Value /\ Whole(n)[k] \in Roots
    BY <1>6
  <2>1. CASE out(k) = {}
    <3>1. Whole(n)[k] = tree[n].at[k] /\ tree[n].at[k] \in NodeRoots(n)
      BY <1>1, <2>1 DEF NodeRoots, Range
    <3> QED
      BY <1>3, <3>1 DEF Roots, TreeRoots
  <2>2. CASE out(k) # {}
    <3>1. PICK u \in Threads : Whole(n)[k] = hand[u]
      BY <1>1, <1>2, <2>2
    <3> QED
      BY <1>3, <3>1 DEF Roots, ScriptRoots
  <2> QED
    BY <2>1, <2>2
<1>8. Range(Whole(n)) \subseteq Roots
  BY <1>7 DEF Range
<1> QED
  BY <1>3, <1>4, <1>5, <1>6, <1>7, <1>8 DEF WholeIs

\* The ones of a node are those of its values and of the lists in it.
LEMMA OnesAre ==
  ASSUME NEW n
  PROVE  /\ Ones(n) = Marks(Whole(n), heap, InNode(n))
         /\ Ones(n)' = Marks(Whole(n)', heap', InNode(n)')
         /\ InNode(n)' = Reach(heap', Range(Whole(n)'))
<1>1. Ones(n) = Marks(Whole(n), heap, InNode(n))
  BY DEF Ones, Items, Marks, ItemsOf
<1>2. Ones(n)' = Marks(Whole(n)', heap', InNode(n)')
  BY DEF Ones, Items, Marks, ItemsOf
<1>3. InNode(n)' = Reach(heap', Range(Whole(n)'))
  BY DEF InNode
<1> QED
  BY <1>1, <1>2, <1>3

\* Lists that are not in the node do not count.
LEMMA SameMarks ==
  ASSUME NEW W, NEW h, NEW g, NEW S, \A o \in S : g[o] = h[o]
  PROVE  Marks(W, g, S) = Marks(W, h, S)
<1>1. \A o \in S \cup {Null} : ItemsOf(W, g, o) = ItemsOf(W, h, o)
  BY DEF ItemsOf
<1> QED
  BY <1>1 DEF Marks

(* What a step makes of a node, by the heap h it writes: lists of the node are *)
(* not freed.                                                                   *)
LEMMA NodeThen ==
  ASSUME LockInv', NEW n \in Names, NEW h, Heap(h)
  PROVE  /\ InNode(n)' = Reach(h, Range(Whole(n)'))
         /\ \A o \in InNode(n)' : heap'[o] = h[o]
         /\ Ones(n)' = Marks(Whole(n)', h, InNode(n)')
<1> DEFINE near == Reach(h, Range(Whole(n)'))
<1>1. Range(Whole(n)') \subseteq Roots'
  <2>1. (LockInv => Wholes)'
    BY WholeParts, PTL
  <2> QED
    BY <2>1 DEF Wholes, WholeIs
<1>2. near \subseteq Reach(h, Roots')
  BY <1>1, ReachParts, ReachMonotone
<1>3. \A o \in near : heap'[o] = h[o]
  BY <1>2, ReachParts DEF Heap
<1>4. InNode(n)' = near
  BY <1>3, ReachSame, OnesAre
<1>5. Ones(n)' = Marks(Whole(n)', heap', near)
  BY <1>4, OnesAre
<1> HIDE DEF near
<1>6. Ones(n)' = Marks(Whole(n)', h, near)
  BY <1>3, <1>5, SameMarks
<1> QED
  BY <1>3, <1>4, <1>6 DEF near

\* The node is as it was.
Quiet(n) == Whole(n)' = Whole(n) /\ Ones(n)' = Ones(n) /\ \A o \in InNode(n) : heap'[o] = heap[o]
LEMMA QuietNode ==
  ASSUME LockInv', NEW n \in Names, NEW h, Heap(h), Whole(n)' = Whole(n),
         \A o \in InNode(n) : h[o] = heap[o]
  PROVE  Quiet(n)
<1>1. /\ InNode(n)' = Reach(h, Range(Whole(n)))
      /\ \A o \in InNode(n)' : heap'[o] = h[o]
      /\ Ones(n)' = Marks(Whole(n), h, InNode(n)')
  BY NodeThen
<1>2. InNode(n)' = InNode(n)
  BY <1>1, ReachSame DEF InNode
<1>3. Marks(Whole(n), h, InNode(n)) = Marks(Whole(n), heap, InNode(n))
  BY SameMarks
<1> QED
  BY <1>1, <1>2, <1>3, OnesAre DEF Quiet
-----------------------------------------------------------------------------
(* Updates that add up: the invariant *)

\* The number that a closure has read to write back is in the list yet.
ReadBack(t, n) == Updates(t, n) /\ reg[t] > 0 =>
  \/ aliased[n]
  \/ hand[t] \in Lists /\ heap[hand[t]] # <<>> /\ heap[hand[t]][1] = reg[t] - 1

AddsUp(n) == aliased[n] \/ (~ Aliases(n) /\ Cardinality(Ones(n)) = due[n])

CountInv ==
  /\ LockInv
  /\ \A n \in Names : AddsUp(n) /\ \A t \in Threads : KeyStays(t, n) /\ ReadBack(t, n)

\* What a step of t makes of a node.
NodeStep(t, n) ==
  /\ \/ aliased'[n]
     \/ /\ Cardinality(Ones(n)') = due'[n]
        /\ \A u \in Threads \ {t} : Updates(u, n) => ~ aliased[n] /\ Quiet(n)
  /\ KeyStays(t, n)' /\ ReadBack(t, n)'

\* The lists of a node are in use, and those that its update holds are among them.
LEMMA NodeLists ==
  ASSUME CountInv, NEW n \in Names
  PROVE  /\ WholeIs(n)
         /\ InNode(n) \subseteq Reach(heap, Roots) /\ InNode(n) \subseteq Lists
         /\ \A t \in Threads : Updates(t, n) =>
              /\ call[t].key \in DOMAIN Whole(n) /\ Whole(n)[call[t].key] = hand[t]
              /\ hand[t] \in Lists => hand[t] \in InNode(n)
<1>1. WholeIs(n)
  BY WholeParts DEF CountInv, Wholes
<1>2. Range(Whole(n)) \subseteq Roots
  BY <1>1 DEF WholeIs
<1>3. InNode(n) \subseteq Reach(heap, Roots) /\ InNode(n) \subseteq Lists
  BY <1>2, ReachParts, ReachMonotone DEF InNode
<1>4. ASSUME NEW t \in Threads, Updates(t, n)
      PROVE  /\ call[t].key \in DOMAIN Whole(n) /\ Whole(n)[call[t].key] = hand[t]
             /\ hand[t] \in Lists => hand[t] \in InNode(n)
  <2>1. call[t].key \in DOMAIN tree[n].at
    BY <1>4 DEF CountInv, KeyStays
  <2>2. call[t].key \in DOMAIN Whole(n) /\ Whole(n)[call[t].key] = hand[t]
    BY <1>1, <1>4, <2>1 DEF WholeIs
  <2>3. hand[t] \in Range(Whole(n))
    BY <2>2 DEF Range
  <2> QED
    BY <2>2, <2>3, ReachParts DEF InNode
<1> QED
  BY <1>1, <1>3, <1>4

\* A script that is not in its update holds no list of it.
LEMMA HandsApart ==
  ASSUME CountInv, NEW n \in Names, ~ aliased[n], NEW t \in Threads, ~ Updates(t, n)
  PROVE  hand[t] \notin InNode(n) /\ other[t] \notin InNode(n)
<1>1. Reach(heap, ScriptRoots(t)) \cap InNode(n) = {}
  BY DEF CountInv, AddsUp, Aliases
<1>2. ScriptRoots(t) \cap Lists \subseteq Reach(heap, ScriptRoots(t)) /\ InNode(n) \subseteq Lists
  BY ReachParts DEF InNode
<1> QED
  BY <1>1, <1>2 DEF ScriptRoots

\* An update of another goes on while t takes a step.
LEMMA UpdateGoesOn ==
  ASSUME LockInv, LockInv', NEW t \in Threads, LockStep(t), NEW n \in Names,
         NEW u \in Threads \ {t}
  PROVE  /\ call'[u] = call[u] /\ hand'[u] = hand[u] /\ reg'[u] = reg[u]
         /\ Updates(u, n)' <=> Updates(u, n)
         /\ Updates(u, n) => tree'[n] = tree[n] /\ ~ Updates(t, n)'
<1>1. call'[u] = call[u] /\ hand'[u] = hand[u] /\ reg'[u] = reg[u]
  BY DEF LockStep, Elsewhere
<1>2. Updates(u, n)' <=> Updates(u, n)
  BY <1>1 DEF Updates, Writing
<1>3. ASSUME Updates(u, n) PROVE tree'[n] = tree[n]
  <2>1. n = call[t].name => u \in Holders(t)
    BY <1>3 DEF Updates, Holders, Mine
  <2> QED
    BY <2>1 DEF LockStep, TreeStep
<1>4. ASSUME Updates(u, n), Updates(t, n)' PROVE FALSE
  <2>1. t # u /\ (call[t].locked)' /\ (call[u].locked)' /\ Mine(t)' = Mine(u)' /\ Writing(t)'
    BY <1>2, <1>4 DEF Updates, Mine
  <2> QED
    BY <2>1 DEF LockInv, Exclusive
<1> QED
  BY <1>1, <1>2, <1>3, <1>4

\* What t does is beside the values of the node.
Beside(t, n) ==
  \/ \E u \in Threads \ {t} : Updates(u, n)
  \/ ~ Updates(t, n) /\ ~ Updates(t, n)' /\ tree'[n] = tree[n]
  \/ Updates(t, n) /\ call'[t] = call[t] /\ hand'[t] = hand[t] /\ tree'[n] = tree[n]
LEMMA WholeKept ==
  ASSUME LockInv, LockInv', NEW t \in Threads, LockStep(t), NEW n \in Names, Beside(t, n)
  PROVE  Whole(n)' = Whole(n)
<1>1. WholeIs(n)
  BY WholeParts DEF Wholes
<1>2. WholeIs(n)'
  <2>1. (LockInv => Wholes)'
    BY WholeParts, PTL
  <2> QED
    BY <2>1 DEF Wholes
<1>3. CASE \E u \in Threads \ {t} : Updates(u, n)
  <2>1. PICK u \in Threads \ {t} : Updates(u, n)
    BY <1>3
  <2>2. call'[u] = call[u] /\ hand'[u] = hand[u] /\ Updates(u, n)' /\ tree'[n] = tree[n]
    BY <2>1, UpdateGoesOn
  <2> QED
    BY <1>1, <1>2, <2>1, <2>2 DEF WholeIs
<1>4. CASE /\ \A u \in Threads \ {t} : ~ Updates(u, n)
           /\ ~ Updates(t, n) /\ ~ Updates(t, n)' /\ tree'[n] = tree[n]
  <2>1. \A u \in Threads : ~ Updates(u, n) /\ ~ Updates(u, n)'
    BY <1>4, UpdateGoesOn
  <2> QED
    BY <1>1, <1>2, <1>4, <2>1 DEF WholeIs
<1>5. CASE Updates(t, n) /\ call'[t] = call[t] /\ hand'[t] = hand[t] /\ tree'[n] = tree[n]
  <2>1. Updates(t, n)'
    BY <1>5 DEF Updates, Writing
  <2> QED
    BY <1>1, <1>2, <1>5, <2>1 DEF WholeIs
<1> QED
  BY <1>3, <1>4, <1>5 DEF Beside

\* History, node by node.
LEMMA Tracked ==
  ASSUME NEW w, NEW c, Track(w, c), NEW n \in Names
  PROVE  /\ aliased'[n] \/ ~ Aliases(n)'
         /\ n \notin w => /\ aliased[n] => aliased'[n]
                          /\ due'[n] = due[n] + (IF n \in c THEN 1 ELSE 0)
         /\ n \in w => due'[n] = Cardinality(Ones(n)')
BY DEF Track

\* The ones of a node are finitely many.
LEMMA OnesFinite ==
  ASSUME CountInv, NEW n \in Names
  PROVE  IsFiniteSet(Ones(n)) /\ Cardinality(Ones(n)) \in Nat
<1>1. WholeIs(n) /\ InNode(n) \in SUBSET Lists /\ heap \in Heaps
  BY NodeLists DEF CountInv, LockInv, Types
<1>2. IsFiniteSet(Ones(n))
  BY <1>1, MarksFinite, OnesAre DEF WholeIs
<1> QED
  BY <1>2, FS_CardinalityType

(* A step that leaves the values of the node where they are, and its lists alone. *)
LEMMA StepWhole ==
  ASSUME CountInv, LockInv', NEW t \in Threads, NEW n \in Names, Whole(n)' = Whole(n),
         NEW w, NEW c, Track(w, c), n \notin w, n \notin c,
         NEW h, Heap(h), aliased[n] \/ \A o \in InNode(n) : h[o] = heap[o],
         KeyStays(t, n)', ReadBack(t, n)'
  PROVE  NodeStep(t, n)
<1>1. ASSUME ~ aliased'[n]
      PROVE  ~ aliased[n] /\ Quiet(n) /\ Cardinality(Ones(n)') = due'[n]
  <2>1. ~ aliased[n] /\ Cardinality(Ones(n)) = due[n]
    BY <1>1, Tracked DEF CountInv, AddsUp
  <2>2. due'[n] = due[n]
    BY <2>1, Tracked, OnesFinite
  <2>3. Quiet(n)
    BY <2>1, QuietNode
  <2> QED
    BY <2>1, <2>2, <2>3 DEF Quiet
<1> QED
  BY <1>1 DEF NodeStep

\* The same for a step beside the node.
LEMMA StepBeside ==
  ASSUME CountInv, LockInv', NEW t \in Threads, LockStep(t), NEW n \in Names, Beside(t, n),
         NEW w, NEW c, Track(w, c), n \notin w, n \notin c,
         NEW h, Heap(h), aliased[n] \/ \A o \in InNode(n) : h[o] = heap[o],
         ReadBack(t, n)'
  PROVE  NodeStep(t, n)
<1>1. Whole(n)' = Whole(n)
  BY WholeKept DEF CountInv
<1>2. KeyStays(t, n)'
  <2>1. Updates(t, n)' => Updates(t, n) /\ call'[t] = call[t] /\ tree'[n] = tree[n]
    BY UpdateGoesOn DEF Beside, CountInv
  <2> QED
    BY <2>1 DEF KeyStays, CountInv
<1> QED
  BY <1>1, <1>2, StepWhole

\* The same for a thread that is in no update of the node, before or after.
LEMMA StepAside ==
  ASSUME CountInv, LockInv', NEW t \in Threads, LockStep(t), NEW n \in Names,
         ~ Updates(t, n), ~ Updates(t, n)', tree'[n] = tree[n],
         NEW w, NEW c, Track(w, c), n \notin w, n \notin c,
         NEW h, Heap(h), aliased[n] \/ \A o \in InNode(n) : h[o] = heap[o]
  PROVE  NodeStep(t, n)
<1>1. Beside(t, n) /\ ReadBack(t, n)'
  BY DEF Beside, ReadBack
<1> QED
  BY <1>1, StepBeside

\* A new list is in no node yet.
LEMMA FreshApart ==
  ASSUME CountInv, NEW n \in Names, Free # {}, NEW items, NEW h, h = [heap EXCEPT ![Fresh] = items]
  PROVE  /\ Fresh \in Lists /\ Fresh \notin InNode(n) /\ h[Fresh] = items
         /\ \A o \in InNode(n) : h[o] = heap[o]
<1>1. Fresh \in Lists /\ Fresh \notin Reach(heap, Roots)
  BY FreshIsFree
<1>2. InNode(n) \subseteq Reach(heap, Roots) /\ InNode(n) \subseteq Lists
  BY NodeLists
<1>3. DOMAIN heap = Lists
  BY DEF CountInv, LockInv, Types, Heaps
<1> QED
  BY <1>1, <1>2, <1>3

\* Who is not in an update.
LEMMA NoUpdate ==
  ASSUME NEW t, NEW n
  PROVE  /\ call[t] = Idle => ~ Updates(t, n)
         /\ call[t].op \notin UpdateOps => ~ Updates(t, n)
         /\ call'[t] = Idle => ~ Updates(t, n)'
         /\ call'[t].op \notin UpdateOps => ~ Updates(t, n)'
         /\ ~ call'[t].locked => ~ Updates(t, n)'
BY DEF Updates, Writing, Idle
-----------------------------------------------------------------------------
(* The steps of a script, node by node *)

\* A script that is in no update works on lists of no node, or the node is aliased.
LEMMA NewListCounts ==
  ASSUME CountInv, LockInv', NEW t \in Threads, NewList(t), LockStep(t), NEW n \in Names
  PROVE  NodeStep(t, n)
<1> DEFINE h == [heap EXCEPT ![Fresh] = <<0>>]
<1>1. Heap(h) /\ \A o \in InNode(n) : h[o] = heap[o]
  BY FreshApart DEF NewList
<1>2. ~ Updates(t, n) /\ ~ Updates(t, n)' /\ tree'[n] = tree[n] /\ Track({}, {})
  BY NoUpdate DEF NewList, Alone
<1> HIDE DEF h
<1> QED
  BY <1>1, <1>2, StepAside

\* Nor does it when it only looks, swaps, asks to join or calls,
LEMMA CalmCounts ==
  ASSUME CountInv, LockInv', NEW t \in Threads, First(t) \/ Swap(t) \/ Join(t) \/ Call(t), LockStep(t),
         NEW n \in Names
  PROVE  NodeStep(t, n)
<1>1. ~ Updates(t, n) /\ ~ Updates(t, n)' /\ tree'[n] = tree[n]
  <2>1. CASE First(t) \/ Swap(t) \/ Join(t)
    BY <2>1, NoUpdate DEF First, Swap, Join, Alone
  <2>2. CASE Call(t)
    <3>1. ~ call'[t].locked
      BY <2>2 DEF Call, CountInv, LockInv, Types
    <3> QED
      BY <2>2, <3>1, NoUpdate DEF Call, Alone
  <2> QED
    BY <2>1, <2>2
<1>2. Heap(heap) /\ Track({}, {})
  BY DEF First, Swap, Join, Call, Kept
<1> QED
  BY <1>1, <1>2, StepAside

\* or moves the items of its lists.
LEMMA JoinMovesCounts ==
  ASSUME CountInv, LockInv', NEW t \in Threads, JoinMoves(t), LockStep(t), NEW n \in Names
  PROVE  NodeStep(t, n)
<1> DEFINE h == IF Fits(t) THEN [heap EXCEPT ![hand[t]] = @ \o heap[other[t]], ![other[t]] = <<>>]
                ELSE heap
<1>1. ~ Updates(t, n) /\ ~ Updates(t, n)' /\ tree'[n] = tree[n]
  <2>1. call[t].op = "none" /\ call' = call
    BY DEF JoinMoves, CountInv, LockInv, AtItsPlace
  <2>2. call[t].op \notin UpdateOps /\ call'[t].op \notin UpdateOps
    BY <2>1, OpsApart DEF Ops
  <2> QED
    BY <2>2, NoUpdate DEF JoinMoves
<1>2. Heap(h) /\ Track({}, {})
  BY DEF JoinMoves
<1>3. aliased[n] \/ \A o \in InNode(n) : h[o] = heap[o]
  BY <1>1, HandsApart, NodeLists DEF CountInv, LockInv, Types, Heaps
<1> HIDE DEF h
<1> QED
  BY <1>1, <1>2, <1>3, StepAside

\* The closure of an update has returned; its value is on the way.
LEMMA ReturnCounts ==
  ASSUME CountInv, LockInv', NEW t \in Threads, Return(t), LockStep(t), NEW n \in Names
  PROVE  NodeStep(t, n)
<1>1. Beside(t, n) /\ ReadBack(t, n)'
  <2>1. call'[t] = call[t] /\ hand'[t] = hand[t] /\ tree'[n] = tree[n] /\ reg'[t] = 0
    BY DEF Return
  <2>2. Updates(t, n)' <=> Updates(t, n)
    BY <2>1 DEF Updates, Writing
  <2> QED
    BY <2>1, <2>2 DEF Beside, ReadBack
<1>2. Heap(heap) /\ Track({}, {})
  BY DEF Return, Kept
<1> QED
  BY <1>1, <1>2, StepBeside

\* A write of another node, and one of this node, which nobody then updates.
LEMMA WriteCounts ==
  ASSUME CountInv, LockInv', NEW t \in Threads, Write(t), ~ Blocked(t), LockStep(t), NEW n \in Names
  PROVE  NodeStep(t, n)
<1>1. call[t].op \in WriteOps /\ call[t].op \notin UpdateOps /\ call[t].op \notin ReadOps /\ pc[t] = "wait"
  BY OpsApart DEF Write
<1>2. ~ Updates(t, n) /\ ~ Updates(t, n)'
  <2>1. call'[t] = call[t] \/ call'[t] = Idle
    BY DEF Write, Give, CountInv, LockInv, Types
  <2> QED
    BY <1>1, <2>1, NoUpdate
<1>3. Heap(heap) /\ Track({call[t].name}, {})
  BY DEF Write, Kept
<1>4. CASE n # call[t].name
  <2>1. tree'[n] = tree[n]
    BY <1>4 DEF Write
  <2> QED
    BY <1>2, <1>3, <1>4, <2>1, StepAside
<1>5. CASE n = call[t].name
  <2>1. \A u \in Threads \ {t} : ~ Updates(u, n)
    <3>1. Holders(t) = {}
      BY <1>1, LetIn
    <3> QED
      BY <1>5, <3>1 DEF Holders, Updates, Mine
  <2>2. Cardinality(Ones(n)') = due'[n]
    BY <1>3, <1>5, Tracked
  <2> QED
    BY <1>2, <2>1, <2>2 DEF NodeStep, KeyStays, ReadBack
<1> QED
  BY <1>4, <1>5

\* A read changes nothing.
LEMMA ReadCounts ==
  ASSUME CountInv, LockInv', NEW t \in Threads, Read(t), LockStep(t), NEW n \in Names
  PROVE  NodeStep(t, n)
<1>1. call[t].op \notin UpdateOps
  BY OpsApart DEF Read
<1>2. ~ Updates(t, n) /\ ~ Updates(t, n)' /\ tree'[n] = tree[n]
  <2>1. call'[t] = Idle \/ call'[t].op = call[t].op
    BY LockedTypes DEF Read, Give, CountInv, LockInv, Types
  <2> QED
    BY <1>1, <2>1, NoUpdate DEF Read
<1>3. Heap(heap) /\ Track({}, {})
  BY DEF Read, Kept
<1> QED
  BY <1>2, <1>3, StepAside
-----------------------------------------------------------------------------
(* The value goes out of the node, into the closure and back *)

\* An update takes a value out, which leaves the node whole,
LEMMA TakeCounts ==
  ASSUME CountInv, LockInv', NEW t \in Threads, Take(t), ~ Blocked(t), LockStep(t), NEW n \in Names
  PROVE  NodeStep(t, n)
<1>1. call[t].op \in UpdateOps /\ call[t].op \notin ReadOps /\ call[t].op # "none" /\ pc[t] = "wait"
  BY OpsApart DEF Take, Ops
<1>2. ~ Updates(t, n)
  <2>1. ~ call[t].locked
    BY <1>1 DEF CountInv, LockInv, LocksItsBucket
  <2> QED
    BY <2>1 DEF Updates
<1>3. Heap(heap) /\ Track({}, {})
  BY DEF Take, Kept
<1>4. CASE ~ Found(t)
  <2>1. call'[t] = Idle /\ tree'[n] = tree[n]
    BY <1>4 DEF Take, Give, CountInv, LockInv, Types
  <2> QED
    BY <1>2, <1>3, <2>1, NoUpdate, StepAside
<1>5. CASE Found(t)
  <2>1. /\ tree' = [tree EXCEPT ![call[t].name] = With(@, call[t].key, Null)]
        /\ hand'[t] = Stored(t) /\ reg'[t] = reg[t]
        /\ call'[t].op = call[t].op /\ call'[t].name = call[t].name /\ call'[t].key = call[t].key
        /\ call'[t].locked
    BY <1>5, LockedTypes DEF Take, CountInv, LockInv, Types
  <2>2. CASE n # call[t].name
    <3>1. tree'[n] = tree[n]
      BY <2>1, <2>2
    <3>2. ~ Updates(t, n)'
      BY <2>1, <2>2 DEF Updates
    <3> QED
      BY <1>2, <1>3, <3>1, <3>2, StepAside
  <2>3. CASE n = call[t].name
    <3>1. tree[n] \in Node /\ tree[n] = At(t) /\ call[t].key \in DOMAIN tree[n].at
          /\ Stored(t) = tree[n].at[call[t].key]
      BY <1>5, <2>3 DEF CountInv, LockInv, Types, At, Found, Stored
    <3>2. tree'[n] = With(tree[n], call[t].key, Null)
      BY <2>1, <2>3 DEF CountInv, LockInv, Types
    <3>3. tree'[n].at = [j \in DOMAIN tree[n].at |-> IF j = call[t].key THEN Null ELSE tree[n].at[j]]
      <4>1. DOMAIN tree[n].at \cup {call[t].key} = DOMAIN tree[n].at
        BY <3>1
      <4>2. With(tree[n], call[t].key, Null).at =
              [j \in DOMAIN tree[n].at \cup {call[t].key} |->
                 IF j = call[t].key THEN Null ELSE tree[n].at[j]]
        BY <3>1 DEF With, Node
      <4> QED
        BY <3>2, <4>1, <4>2
    <3>4. Updates(t, n)'
      BY <1>1, <2>1, <2>3 DEF Updates, Writing
    <3>5. \A u \in Threads : ~ Updates(u, n)
      <4>1. Holders(t) = {}
        BY <1>1, LetIn
      <4> QED
        BY <1>2, <2>3, <4>1 DEF Holders, Updates, Mine
    <3>6. Whole(n) = tree[n].at
      BY <3>5, WholeParts DEF Wholes, WholeIs, CountInv
    <3>7. Whole(n)' = [k \in DOMAIN tree'[n].at |-> IF k = call'[t].key THEN hand'[t] ELSE tree'[n].at[k]]
      <4>1. (LockInv => Wholes)'
        BY WholeParts, PTL
      <4> QED
        BY <3>4, <4>1 DEF Wholes, WholeIs
    <3>8. Whole(n)' = Whole(n)
      <4>1. tree[n].at = [j \in DOMAIN tree[n].at |-> tree[n].at[j]]
        BY <3>1, NodeParts
      <4> QED
        BY <2>1, <3>1, <3>3, <3>6, <3>7, <4>1
    <3>9. KeyStays(t, n)'
      BY <2>1, <3>1, <3>3 DEF KeyStays
    <3>10. ReadBack(t, n)'
      <4>1. reg[t] = 0
        BY <1>1, NoReg DEF CountInv
      <4> QED
        BY <2>1, <4>1 DEF ReadBack
    <3> QED
      BY <1>3, <3>8, <3>9, <3>10, StepWhole
  <2> QED
    BY <2>2, <2>3
<1> QED
  BY <1>4, <1>5

\* and so does its last step, which puts the value back.
LEMMA DeliverCounts ==
  ASSUME CountInv, LockInv', NEW t \in Threads, NEW v, pc[t] = "copy", Deliver(t, v), LockStep(t),
         NEW n \in Names, Track({}, {}),
         NEW h, Heap(h), aliased[n] \/ \A o \in InNode(n) : h[o] = heap[o]
  PROVE  NodeStep(t, n)
<1>1. call'[t] = Idle /\ ~ Updates(t, n)'
  BY NoUpdate DEF Deliver, Give, CountInv, LockInv, Types
<1>2. CASE ~ Updates(t, n)
  <2>1. Writing(t) => call[t].name # n
    BY <1>2 DEF Updates, Writing, CountInv, LockInv, LocksItsBucket
  <2>2. tree'[n] = tree[n]
    <3>1. tree \in [Names -> Node]
      BY DEF CountInv, LockInv, Types
    <3>2. CASE Writing(t)
      BY <2>1, <3>1, <3>2 DEF Deliver
    <3>3. CASE ~ Writing(t)
      BY <3>3 DEF Deliver
    <3> QED
      BY <3>2, <3>3
  <2> QED
    BY <1>1, <1>2, <2>2, StepAside
<1>3. CASE Updates(t, n)
  <2>1. Writing(t) /\ call[t].name = n /\ tree[n] \in Node /\ call[t].key \in DOMAIN tree[n].at
    BY <1>3 DEF Updates, CountInv, KeyStays, LockInv, Types
  <2>2. tree'[n] = With(tree[n], call[t].key, hand[t])
    BY <2>1 DEF Deliver, CountInv, LockInv, Types
  <2>3. tree'[n].at = [j \in DOMAIN tree[n].at |-> IF j = call[t].key THEN hand[t] ELSE tree[n].at[j]]
    <3>1. DOMAIN tree[n].at \cup {call[t].key} = DOMAIN tree[n].at
      BY <2>1
    <3>2. With(tree[n], call[t].key, hand[t]).at =
            [j \in DOMAIN tree[n].at \cup {call[t].key} |->
               IF j = call[t].key THEN hand[t] ELSE tree[n].at[j]]
      BY <2>1 DEF With, Node
    <3> QED
      BY <2>2, <3>1, <3>2
  <2>4. Whole(n) = [j \in DOMAIN tree[n].at |-> IF j = call[t].key THEN hand[t] ELSE tree[n].at[j]]
    BY <1>3, WholeParts DEF Wholes, WholeIs, CountInv
  <2>5. Whole(n)' = tree'[n].at
    <3>1. \A u \in Threads : ~ Updates(u, n)'
      BY <1>1, <1>3, OneUpdate, UpdateGoesOn DEF CountInv
    <3>2. (LockInv => Wholes)'
      BY WholeParts, PTL
    <3> QED
      BY <3>1, <3>2 DEF Wholes, WholeIs
  <2>6. KeyStays(t, n)' /\ ReadBack(t, n)'
    BY <1>1 DEF KeyStays, ReadBack
  <2>7. Whole(n)' = Whole(n)
    BY <2>3, <2>4, <2>5
  <2> QED
    BY <2>6, <2>7, StepWhole
<1> QED
  BY <1>2, <1>3

\* A copy that goes on.
LEMMA CopyCounts ==
  ASSUME CountInv, LockInv', NEW t \in Threads, pc[t] = "copy", LockStep(t),
         UNCHANGED <<tree, hand, reg, call>>, NEW n \in Names, Track({}, {}),
         NEW h, Heap(h), aliased[n] \/ \A o \in InNode(n) : h[o] = heap[o]
  PROVE  NodeStep(t, n)
<1>1. reg'[t] = 0
  BY NoReg DEF CountInv
<1>2. Updates(t, n)' <=> Updates(t, n)
  BY DEF Updates, Writing
<1> QED
  BY <1>1, <1>2, StepBeside DEF Beside, ReadBack

\* The three steps of a copy.
LEMMA CopyStepCounts ==
  ASSUME CountInv, LockInv', NEW t \in Threads, CopyBegins(t) \/ CopyEnters(t) \/ CopyLeaves(t),
         LockStep(t), NEW n \in Names
  PROVE  NodeStep(t, n)
<1>1. CASE CopyBegins(t)
  <2>1. Heap(heap) /\ Track({}, {}) /\ pc[t] = "copy"
    BY <1>1 DEF CopyBegins, Kept
  <2>2. CASE Deliver(t, Source(t))
    BY <2>1, <2>2, DeliverCounts
  <2>3. CASE UNCHANGED <<tree, hand, reg, call>>
    BY <2>1, <2>3, CopyCounts
  <2> QED
    BY <1>1, <2>2, <2>3 DEF CopyBegins
<1>2. CASE CopyEnters(t)
  <2>1. Heap(heap) /\ Track({}, {}) /\ UNCHANGED <<tree, hand, reg, call>> /\ copy[t] # <<>>
    BY <1>2 DEF CopyEnters, Kept
  <2>2. pc[t] = "copy"
    BY <2>1 DEF CountInv, LockInv, AtItsPlace
  <2> QED
    BY <2>1, <2>2, CopyCounts
<1>3. CASE CopyLeaves(t)
  <2> DEFINE h == [heap EXCEPT ![Fresh] = Last(copy[t]).out]
  <2>1. Heap(h) /\ Track({}, {}) /\ copy[t] # <<>> /\ Free # {}
    BY <1>3 DEF CopyLeaves
  <2>2. \A o \in InNode(n) : h[o] = heap[o]
    BY <2>1, FreshApart
  <2>3. pc[t] = "copy"
    BY <2>1 DEF CountInv, LockInv, AtItsPlace
  <2> HIDE DEF h
  <2>4. CASE Deliver(t, Fresh)
    BY <2>1, <2>2, <2>3, <2>4, DeliverCounts
  <2>5. CASE UNCHANGED <<tree, hand, reg, call>>
    BY <2>1, <2>2, <2>3, <2>5, CopyCounts
  <2> QED
    BY <1>3, <2>4, <2>5 DEF CopyLeaves
<1> QED
  BY <1>1, <1>2, <1>3
-----------------------------------------------------------------------------
(* What the closure of an update does *)

\* A new list around one of the roots is one list more.
LEMMA ReachAround ==
  ASSUME NEW h, NEW g, NEW A, NEW B, NEW new \in Lists, new \notin Reach(h, A), NEW v,
         A \cap Lists \subseteq B \cup {v}, v \in A, B \subseteq A \cup {new}, new \in B,
         \A o \in Reach(h, A) : g[o] = h[o], Range(g[new]) = {v}
  PROVE  Reach(g, B) = Reach(h, A) \cup {new}
<1> DEFINE near == Reach(h, A)
           far == Reach(g, B)
<1>1. Closed(g, B, near \cup {new})
  BY ReachParts DEF Closed
<1>2. far \subseteq near \cup {new}
  BY <1>1, ReachWithin
<1>3. new \in far /\ {v} \cap Lists \subseteq far
  BY ReachParts
<1>4. A \cap Lists \subseteq far
  BY <1>3, ReachParts
<1>5. near \subseteq far
  <2>1. \A o \in near : Range(h[o]) \cap Lists \subseteq near
    BY ReachParts
  <2>2. \A o \in far : Range(g[o]) \cap Lists \subseteq far
    BY ReachParts
  <2>3. A \cap Lists \subseteq near /\ near \subseteq Lists
    BY ReachParts
  <2>4. Closed(h, A, near \cap far)
    <3> HIDE DEF near, far
    <3>1. near \cap far \subseteq Lists /\ A \cap Lists \subseteq near \cap far
      BY <1>4, <2>3
    <3>2. \A o \in near \cap far : Range(h[o]) \cap Lists \subseteq near \cap far
      BY <2>1, <2>2 DEF near
    <3> QED
      BY <3>1, <3>2 DEF Closed
  <2>5. near \subseteq near \cap far
    BY <2>4, ReachWithin
  <2> QED
    BY <2>5
<1> QED
  BY <1>2, <1>3, <1>5

\* The values of a node when its update has something else in hand.
LEMMA WholeChanged ==
  ASSUME CountInv, LockInv', NEW t \in Threads, NEW n \in Names, Updates(t, n),
         call'[t] = call[t], tree'[n] = tree[n]
  PROVE  /\ Updates(t, n)' /\ KeyStays(t, n)'
         /\ call[t].key \in DOMAIN Whole(n) /\ Whole(n)[call[t].key] = hand[t]
         /\ DOMAIN Whole(n)' = DOMAIN Whole(n)
         /\ \A k \in DOMAIN Whole(n) : Whole(n)'[k] = IF k = call[t].key THEN hand'[t] ELSE Whole(n)[k]
         /\ \A u \in Threads \ {t} : ~ Updates(u, n)
<1>1. Updates(t, n)'
  BY DEF Updates, Writing
<1>2. WholeIs(n) /\ call[t].key \in DOMAIN tree[n].at
  BY NodeLists DEF CountInv, KeyStays
<1>3. WholeIs(n)'
  <2>1. (LockInv => Wholes)'
    BY WholeParts, PTL
  <2> QED
    BY <2>1 DEF Wholes
<1>4. Whole(n) = [k \in DOMAIN tree[n].at |-> IF k = call[t].key THEN hand[t] ELSE tree[n].at[k]]
  BY <1>2 DEF WholeIs
<1>5. Whole(n)' = [k \in DOMAIN tree[n].at |-> IF k = call[t].key THEN hand'[t] ELSE tree[n].at[k]]
  BY <1>1, <1>3 DEF WholeIs
<1>6. KeyStays(t, n)'
  BY <1>2 DEF KeyStays
<1>7. \A u \in Threads \ {t} : ~ Updates(u, n)
  BY OneUpdate DEF CountInv
<1> QED
  BY <1>1, <1>2, <1>4, <1>5, <1>6, <1>7

\* [value]: what counted in the node counts in the new list.
LEMMA WrapCounts ==
  ASSUME CountInv, LockInv', NEW t \in Threads, Wrap(t), LockStep(t), NEW n \in Names
  PROVE  NodeStep(t, n)
<1> DEFINE h == [heap EXCEPT ![Fresh] = <<hand[t]>>]
           k == call[t].key
<1>1. /\ Heap(h) /\ Track({}, {}) /\ tree'[n] = tree[n] /\ call'[t] = call[t] /\ hand'[t] = Fresh
      /\ reg'[t] = 0 /\ Free # {}
  BY DEF Wrap, Running, CountInv, LockInv, Types
<1>2. /\ Fresh \in Lists /\ Fresh \notin InNode(n) /\ h[Fresh] = <<hand[t]>>
      /\ \A o \in InNode(n) : h[o] = heap[o]
  BY <1>1, FreshApart
<1> HIDE DEF h
<1>3. CASE ~ Updates(t, n)
  <2>1. ~ Updates(t, n)'
    BY <1>1, <1>3 DEF Updates, Writing
  <2> QED
    BY <1>1, <1>2, <1>3, <2>1, StepAside
<1>4. CASE Updates(t, n)
  <2>1. /\ KeyStays(t, n)' /\ k \in DOMAIN Whole(n) /\ Whole(n)[k] = hand[t]
        /\ DOMAIN Whole(n)' = DOMAIN Whole(n) /\ Whole(n)'[k] = Fresh
        /\ \A i \in DOMAIN Whole(n) \ {k} : Whole(n)'[i] = Whole(n)[i]
        /\ \A u \in Threads \ {t} : ~ Updates(u, n)
    BY <1>1, <1>4, WholeChanged
  <2>2. InNode(n)' = InNode(n) \cup {Fresh}
    <3> DEFINE A == Range(Whole(n))
               B == Range(Whole(n)')
    <3>1. A \subseteq B \cup {hand[t]} /\ hand[t] \in A /\ B \subseteq A \cup {Fresh} /\ Fresh \in B
      BY <2>1 DEF Range
    <3>2. Range(h[Fresh]) = {hand[t]}
      BY <1>2 DEF Range
    <3> HIDE DEF A, B
    <3>3. Fresh \notin Reach(heap, A) /\ \A o \in Reach(heap, A) : h[o] = heap[o]
      BY <1>2 DEF InNode, A
    <3>4. Reach(h, B) = Reach(heap, A) \cup {Fresh}
      BY <1>2, <3>1, <3>2, <3>3, ReachAround
    <3>5. InNode(n)' = Reach(h, B)
      BY <1>1, NodeThen DEF B
    <3> QED
      BY <3>4, <3>5 DEF InNode, A
  <2>3. Ones(n)' = Marks(Whole(n)', h, InNode(n) \cup {Fresh})
    BY <1>1, <2>2, NodeThen
  <2>4. Cardinality(Ones(n)') = Cardinality(Ones(n))
    <3>1. IsFiniteSet(Marks(Whole(n), heap, InNode(n)))
      BY OnesFinite, OnesAre
    <3>2. Fresh # Null /\ Fresh \notin Numbers
      BY <1>2, ValueKinds
    <3>3. Cardinality(Marks(Whole(n)', h, InNode(n) \cup {Fresh})) =
            Cardinality(Marks(Whole(n), heap, InNode(n)))
      BY <1>2, <2>1, <3>1, <3>2, MarksMove
    <3> QED
      BY <2>3, <3>3, OnesAre
  <2>5. aliased'[n] \/ Cardinality(Ones(n)') = due'[n]
    BY <1>1, <2>4, Tracked, OnesFinite DEF CountInv, AddsUp
  <2>6. ReadBack(t, n)'
    BY <1>1 DEF ReadBack
  <2> QED
    BY <2>1, <2>5, <2>6 DEF NodeStep
<1> QED
  BY <1>3, <1>4
\* A number in the hand of the closure, or one to be written back to a list.
LEMMA BumpCounts ==
  ASSUME CountInv, LockInv', NEW t \in Threads, Bump(t), LockStep(t), NEW n \in Names
  PROVE  NodeStep(t, n)
<1> DEFINE c == IF hand[t] \in Numbers THEN Updated(t) ELSE {}
           k == call[t].key
<1>1. /\ Heap(heap) /\ Track({}, c) /\ tree'[n] = tree[n] /\ call'[t] = call[t]
      /\ hand \in [Threads -> Value] /\ reg \in [Threads -> Numbers] /\ reg[t] = 0
  BY DEF Bump, Running, Kept, CountInv, LockInv, Types
<1>2. n \in c <=> Updates(t, n) /\ hand[t] \in Numbers
  BY DEF Updated
<1>3. Updates(t, n)' <=> Updates(t, n)
  BY <1>1 DEF Updates, Writing
<1> HIDE DEF c
<1>4. CASE ~ Updates(t, n)
  BY <1>1, <1>2, <1>3, <1>4, StepAside
<1>5. CASE Updates(t, n) /\ hand[t] \notin Numbers
  <2>1. /\ hand' = hand /\ hand[t] \in Lists /\ heap[hand[t]] # <<>>
        /\ heap[hand[t]][1] \in Numbers /\ reg'[t] = heap[hand[t]][1] + 1
    BY <1>1, <1>5 DEF Bump
  <2>2. heap'[hand[t]] = heap[hand[t]]
    <3>1. hand[t] \in Roots'
      BY <2>1 DEF Roots, ScriptRoots
    <3>2. hand[t] \in Reach(heap, Roots')
      BY <2>1, <3>1, ReachParts
    <3> QED
      BY <1>1, <2>1, <3>2 DEF Heap
  <2>3. reg'[t] - 1 = heap[hand[t]][1]
    BY <2>1 DEF Numbers
  <2>4. ReadBack(t, n)'
    BY <2>1, <2>2, <2>3 DEF ReadBack
  <2>5. Beside(t, n)
    BY <1>1, <1>5, <2>1 DEF Beside
  <2> QED
    BY <1>1, <1>2, <1>5, <2>4, <2>5, StepBeside
<1>6. CASE Updates(t, n) /\ hand[t] \in Numbers
  <2>1. hand[t] \in Numbers \ {MaxCount} /\ hand'[t] = hand[t] + 1 /\ reg' = reg /\ hand'[t] \in Numbers
    <3>1. hand[t] \in Numbers \ {MaxCount} /\ hand'[t] = hand[t] + 1 /\ reg' = reg
      BY <1>1, <1>6, ValueKinds DEF Bump
    <3> QED
      BY <3>1, RootMemoryAssumption DEF Numbers
  <2>2. /\ KeyStays(t, n)' /\ k \in DOMAIN Whole(n) /\ Whole(n)[k] = hand[t]
        /\ DOMAIN Whole(n)' = DOMAIN Whole(n)
        /\ \A i \in DOMAIN Whole(n) : Whole(n)'[i] = IF i = k THEN hand'[t] ELSE Whole(n)[i]
        /\ \A u \in Threads \ {t} : ~ Updates(u, n)
    BY <1>1, <1>6, WholeChanged
  <2>3. InNode(n)' = InNode(n)
    <3> DEFINE A == Range(Whole(n))
               B == Range(Whole(n)')
    <3>1. A \cap Lists = B \cap Lists
      BY <1>6, <2>1, <2>2, ValueKinds DEF Range
    <3> HIDE DEF A, B
    <3>2. Reach(heap, B) = Reach(heap, A)
      BY <3>1, ReachLists
    <3>3. InNode(n)' = Reach(heap, B)
      BY <1>1, NodeThen DEF B
    <3> QED
      BY <3>2, <3>3 DEF InNode, A
  <2>4. Ones(n)' = Marks(Whole(n)', heap, InNode(n))
    BY <1>1, <2>3, NodeThen
  <2>5. Cardinality(Ones(n)') = Cardinality(Ones(n)) + 1
    <3> DEFINE W == Whole(n)
               V == Whole(n)'
               S == InNode(n)
    <3>1. IsFiniteSet(Marks(W, heap, S)) /\ Ones(n) = Marks(W, heap, S)
      BY OnesFinite, OnesAre
    <3>2. /\ Null \in S \cup {Null} /\ k \in DOMAIN ItemsOf(W, heap, Null)
          /\ ItemsOf(W, heap, Null)[k] \in Numbers \ {MaxCount}
      BY <2>1, <2>2 DEF ItemsOf
    <3>3. \A o \in S \cup {Null} : DOMAIN ItemsOf(V, heap, o) = DOMAIN ItemsOf(W, heap, o)
      BY <2>2 DEF ItemsOf
    <3>4. \A o \in S \cup {Null} : \A i \in DOMAIN ItemsOf(W, heap, o) :
            ItemsOf(V, heap, o)[i] =
              IF o = Null /\ i = k THEN ItemsOf(W, heap, o)[i] + 1 ELSE ItemsOf(W, heap, o)[i]
      BY <2>1, <2>2 DEF ItemsOf
    <3> HIDE DEF W, V, S, k
    <3>5. Cardinality(Marks(V, heap, S)) = Cardinality(Marks(W, heap, S)) + 1
      BY <3>1, <3>2, <3>3, <3>4, OneMore
    <3> QED
      BY <2>4, <3>1, <3>5 DEF V, S
  <2>6. aliased'[n] \/ Cardinality(Ones(n)') = due'[n]
    BY <1>1, <1>2, <1>6, <2>5, Tracked DEF CountInv, AddsUp
  <2>7. ReadBack(t, n)'
    BY <1>1, <2>1 DEF ReadBack
  <2> QED
    BY <2>2, <2>6, <2>7 DEF NodeStep
<1> QED
  BY <1>4, <1>5, <1>6

\* The number is written back: nobody else has touched the list since it was read.
LEMMA BumpBackCounts ==
  ASSUME CountInv, LockInv', NEW t \in Threads, BumpBack(t), LockStep(t), NEW n \in Names
  PROVE  NodeStep(t, n)
<1> DEFINE h == IF heap[hand[t]] = <<>> THEN heap ELSE [heap EXCEPT ![hand[t]][1] = reg[t]]
           c == IF heap[hand[t]] = <<>> THEN {} ELSE Updated(t)
<1>1. /\ Heap(h) /\ Track({}, c) /\ tree'[n] = tree[n] /\ call'[t] = call[t] /\ hand'[t] = hand[t]
      /\ reg'[t] = 0 /\ reg[t] > 0 /\ reg[t] \in Numbers /\ heap \in Heaps
  BY DEF BumpBack, CountInv, LockInv, Types
<1>2. n \in c => Updates(t, n)
  BY DEF Updated
<1>3. Updates(t, n)' <=> Updates(t, n)
  BY <1>1 DEF Updates, Writing
<1>4. \A o \in Lists : o # hand[t] => h[o] = heap[o]
  BY <1>1 DEF Heaps
<1>5. ReadBack(t, n)'
  BY <1>1 DEF ReadBack
<1>6. InNode(n) \subseteq Lists
  BY NodeLists
<1>7. CASE ~ Updates(t, n)
  <2>1. aliased[n] \/ \A o \in InNode(n) : h[o] = heap[o]
    BY <1>4, <1>6, <1>7, HandsApart
  <2> HIDE DEF h, c
  <2> QED
    BY <1>1, <1>2, <1>3, <1>7, <2>1, StepAside
<1>8. CASE Updates(t, n)
  <2>1. KeyStays(t, n)' /\ \A u \in Threads \ {t} : ~ Updates(u, n)
    BY <1>1, <1>8, WholeChanged
  <2>2. Whole(n)' = Whole(n)
    <3>1. Beside(t, n)
      BY <1>1, <1>8 DEF Beside
    <3> QED
      BY <3>1, WholeKept DEF CountInv
  <2>3. ASSUME ~ aliased'[n] PROVE Cardinality(Ones(n)') = due'[n]
    <3>1. ~ aliased[n] /\ Cardinality(Ones(n)) = due[n]
      BY <1>1, <2>3, Tracked DEF CountInv, AddsUp
    <3>2. hand[t] \in Lists /\ heap[hand[t]] # <<>> /\ heap[hand[t]][1] = reg[t] - 1
      BY <1>1, <1>8, <3>1 DEF CountInv, ReadBack
    <3>3. n \in c /\ hand[t] \in InNode(n)
      BY <1>8, <3>2, NodeLists DEF Updated
    <3>4. /\ heap[hand[t]] \in Seq(Value) /\ 1 \in DOMAIN heap[hand[t]]
          /\ h[hand[t]] = [heap[hand[t]] EXCEPT ![1] = reg[t]]
      <4>1. heap[hand[t]] \in Seq(Value)
        BY <1>1, <3>2 DEF Heaps
      <4>2. 1 \in DOMAIN heap[hand[t]]
        BY <3>2, <4>1, EmptySeq
      <4> QED
        BY <1>1, <3>2, <4>1, <4>2 DEF Heaps
    <3>5. /\ reg[t] - 1 \in Numbers \ {MaxCount} /\ reg[t] \notin Lists /\ reg[t] - 1 \notin Lists
          /\ (reg[t] - 1) + 1 = reg[t]
      BY <1>1, RootMemoryAssumption DEF Numbers
    <3> HIDE DEF h, c
    <3>6. Range(h[hand[t]]) \cap Lists = Range(heap[hand[t]]) \cap Lists
      BY <3>2, <3>4, <3>5 DEF Range
    <3>7. InNode(n)' = InNode(n)
      <4>1. \A o \in InNode(n) : Range(h[o]) \cap Lists = Range(heap[o]) \cap Lists
        BY <1>4, <1>6, <3>6
      <4>2. Reach(h, Range(Whole(n))) = InNode(n)
        BY <4>1, ReachLists DEF InNode
      <4> QED
        BY <1>1, <2>2, <4>2, NodeThen
    <3>8. Ones(n)' = Marks(Whole(n), h, InNode(n))
      BY <1>1, <2>2, <3>7, NodeThen
    <3>9. Cardinality(Ones(n)') = Cardinality(Ones(n)) + 1
      <4> DEFINE W == Whole(n)
                 S == InNode(n)
      <4>1. IsFiniteSet(Marks(W, heap, S)) /\ Ones(n) = Marks(W, heap, S) /\ Null \notin S
        BY <1>6, OnesFinite, OnesAre, ValueKinds
      <4>2. /\ hand[t] \in S \cup {Null} /\ 1 \in DOMAIN ItemsOf(W, heap, hand[t])
            /\ ItemsOf(W, heap, hand[t])[1] \in Numbers \ {MaxCount}
        BY <3>2, <3>3, <3>4, <3>5, ValueKinds DEF ItemsOf
      <4>3. \A o \in S : /\ ItemsOf(W, h, o) = h[o] /\ ItemsOf(W, heap, o) = heap[o]
                         /\ o # hand[t] => h[o] = heap[o]
        BY <1>4, <1>6, ValueKinds DEF ItemsOf
      <4>4. ItemsOf(W, h, Null) = ItemsOf(W, heap, Null) /\ hand[t] # Null
        BY <3>2, ValueKinds DEF ItemsOf
      <4>5. \A o \in S \cup {Null} : DOMAIN ItemsOf(W, h, o) = DOMAIN ItemsOf(W, heap, o)
        BY <3>4, <4>3, <4>4
      <4>6. \A o \in S \cup {Null} : \A i \in DOMAIN ItemsOf(W, heap, o) :
              ItemsOf(W, h, o)[i] =
                IF o = hand[t] /\ i = 1 THEN ItemsOf(W, heap, o)[i] + 1 ELSE ItemsOf(W, heap, o)[i]
        BY <3>2, <3>4, <3>5, <4>3, <4>4
      <4> HIDE DEF W, S
      <4>7. Cardinality(Marks(W, h, S)) = Cardinality(Marks(W, heap, S)) + 1
        BY <4>1, <4>2, <4>5, <4>6, OneMore
      <4> QED
        BY <3>8, <4>1, <4>7 DEF W, S
    <3> QED
      BY <1>1, <3>1, <3>3, <3>9, Tracked
  <2> QED
    BY <1>5, <2>1, <2>3 DEF NodeStep
<1> QED
  BY <1>7, <1>8
-----------------------------------------------------------------------------
(* Updates, in every state *)

\* Every action of a thread, and what it makes of a node.
LEMMA ThreadCounts ==
  ASSUME CountInv, LockInv', NEW t \in Threads, Script(t) \/ Proceed(t), LockStep(t), NEW n \in Names
  PROVE  NodeStep(t, n)
<1>1. CASE Script(t)
  BY <1>1, NewListCounts, WrapCounts, CalmCounts, BumpCounts DEF Script
<1>2. CASE Proceed(t)
  BY <1>2, BumpBackCounts, JoinMovesCounts, WriteCounts, ReadCounts, TakeCounts, ReturnCounts,
     CopyStepCounts DEF Proceed
<1> QED
  BY <1>1, <1>2

\* Every action keeps the invariant.
LEMMA CountStepKeeps ==
  ASSUME CountInv, NEW t \in Threads, Script(t) \/ Proceed(t)
  PROVE  CountInv'
<1>1. LockInv /\ LockStep(t)
  BY ThreadSteps DEF CountInv
<1>2. LockInv'
  BY <1>1, LockStepKeeps
<1>3. \A n \in Names : NodeStep(t, n)
  BY <1>1, <1>2, ThreadCounts
<1>4. \A n \in Names : aliased'[n] \/ ~ Aliases(n)'
  <2>1. \E w, c : Track(w, c)
    <3>1. CASE Script(t)
      BY <3>1 DEF Script, NewList, Wrap, First, Swap, Bump, Call, Join
    <3>2. CASE BumpBack(t)
      BY <3>2 DEF BumpBack
    <3>3. CASE JoinMoves(t) \/ Write(t) \/ Read(t) \/ Take(t) \/ Return(t)
      BY <3>3 DEF JoinMoves, Write, Read, Take, Return
    <3>4. CASE CopyBegins(t) \/ CopyEnters(t) \/ CopyLeaves(t)
      BY <3>4 DEF CopyBegins, CopyEnters, CopyLeaves
    <3> QED
      BY <3>1, <3>2, <3>3, <3>4 DEF Proceed
  <2> QED
    BY <2>1, Tracked
<1>5. \A n \in Names : AddsUp(n)'
  BY <1>3, <1>4 DEF NodeStep, AddsUp
<1>6. ASSUME NEW n \in Names, NEW u \in Threads PROVE KeyStays(u, n)' /\ ReadBack(u, n)'
  <2>1. CASE u = t
    BY <1>3, <2>1 DEF NodeStep
  <2>2. CASE u # t
    <3>1. /\ call'[u] = call[u] /\ hand'[u] = hand[u] /\ reg'[u] = reg[u]
          /\ Updates(u, n)' <=> Updates(u, n)
          /\ Updates(u, n) => tree'[n] = tree[n]
      BY <1>1, <1>2, <2>2, UpdateGoesOn
    <3>2. KeyStays(u, n)'
      BY <3>1 DEF CountInv, KeyStays
    <3>3. ReadBack(u, n)'
      <4> SUFFICES ASSUME Updates(u, n), reg[u] > 0, ~ aliased'[n]
                   PROVE  hand[u] \in Lists /\ heap'[hand[u]] # <<>> /\ heap'[hand[u]][1] = reg[u] - 1
        BY <3>1 DEF ReadBack
      <4>1. ~ aliased[n] /\ Quiet(n)
        BY <1>3, <2>2 DEF NodeStep
      <4>2. hand[u] \in Lists /\ heap[hand[u]] # <<>> /\ heap[hand[u]][1] = reg[u] - 1
        BY <4>1 DEF CountInv, ReadBack
      <4>3. heap'[hand[u]] = heap[hand[u]]
        BY <4>1, <4>2, NodeLists DEF Quiet
      <4> QED
        BY <4>2, <4>3
    <3> QED
      BY <3>2, <3>3
  <2> QED
    BY <2>1, <2>2
<1> QED
  BY <1>2, <1>5, <1>6 DEF CountInv

\* At first nobody updates, and what is due is what is there.
LEMMA InitCounts ==
  ASSUME Init
  PROVE  CountInv
<1>1. /\ call = [t \in Threads |-> Idle]
      /\ due = [n \in Names |-> Cardinality(Ones(n))]
      /\ aliased = [n \in Names |-> Aliases(n)]
  BY DEF Init
<1>2. \A n \in Names, t \in Threads : ~ Updates(t, n)
  BY <1>1 DEF Updates, Writing, UpdateOps, Idle
<1>3. \A n \in Names : AddsUp(n)
  BY <1>1 DEF AddsUp
<1> QED
  BY <1>2, <1>3, InitLocks DEF CountInv, KeyStays, ReadBack

\* Nothing happens.
LEMMA UnchangedCounts ==
  ASSUME CountInv, UNCHANGED vars
  PROVE  CountInv'
<1>1. UNCHANGED <<tree, heap, hand, other, reg, call, pc, copy, due, aliased>>
  BY DEF vars, tracked
<1>2. LockInv'
  BY UnchangedLocks DEF CountInv
<1>3. \A t \in Threads, n \in Names : Updates(t, n)' <=> Updates(t, n)
  BY <1>1 DEF Updates, Writing
<1>4. \A n \in Names : Whole(n)' = Whole(n)
  <2> SUFFICES ASSUME NEW n \in Names PROVE Whole(n)' = Whole(n)
    OBVIOUS
  <2> DEFINE out(k) == {u \in Threads : Updates(u, n) /\ call[u].key = k}
             Of(k, S) == IF S = {} THEN tree[n].at[k] ELSE hand[CHOOSE u \in S : TRUE]
  <2>1. Whole(n) = [k \in DOMAIN tree[n].at |-> Of(k, out(k))]
    BY DEF Whole
  <2>2. \A k : {u \in Threads : Updates(u, n)' /\ call'[u].key = k} = out(k)
    BY <1>1, <1>3
  <2>3. Whole(n)' = [k \in DOMAIN tree[n].at |->
                      Of(k, {u \in Threads : Updates(u, n)' /\ call'[u].key = k})]
    BY <1>1 DEF Whole
  <2> HIDE DEF out, Of
  <2> QED
    BY <2>1, <2>2, <2>3
<1>5. \A n \in Names : InNode(n)' = InNode(n)
  BY <1>1, <1>4 DEF InNode
<1>6. ASSUME NEW n \in Names PROVE AddsUp(n)'
  <2>1. Ones(n)' = Ones(n)
    BY <1>1, <1>4, <1>5, OnesAre
  <2>2. Aliases(n)' <=> Aliases(n)
    BY <1>1, <1>3, <1>5 DEF Aliases, ScriptRoots
  <2> QED
    BY <1>1, <2>1, <2>2 DEF CountInv, AddsUp
<1>7. \A n \in Names, t \in Threads : KeyStays(t, n)' /\ ReadBack(t, n)'
  BY <1>1, <1>3 DEF CountInv, KeyStays, ReadBack
<1> QED
  BY <1>2, <1>6, <1>7 DEF CountInv

(* The updates of a node add up; while one runs, its key stays in the node, and a *)
(* number it has read to write back stays in the list.                             *)
THEOREM CountInvariant == Spec => []CountInv
<1>1. ASSUME CountInv, [Next]_vars PROVE CountInv'
  <2>1. CASE Next
    BY <1>1, <2>1, CountStepKeeps DEF Next
  <2> QED
    BY <1>1, <2>1, UnchangedCounts
<1> QED
  BY <1>1, InitCounts, PTL DEF Spec

\* The invariant says of every node that its updates add up.
LEMMA CountsAddUp ==
  ASSUME CountInv
  PROVE  UpdatesAddUp
BY DEF CountInv, AddsUp, UpdatesAddUp

(* Every update of a node starts from the one before: no closure's work is lost or *)
(* counted twice, whatever the lists and keys, and however many scripts there are.  *)
THEOREM NoUpdateIsLost == Spec => []UpdatesAddUp
BY CountInvariant, CountsAddUp, PTL
=============================================================================

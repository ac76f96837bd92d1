----------------------------- MODULE RootMemory -----------------------------
(***************************************************************************)
(* The memory mount of the root tree (root/src/mount.rs, node.rs) and the  *)
(* lists that scripts put into it.  A list is an Arc<RwLock<Vec>>: cloning *)
(* a value shares it, deep_clone copies it.  What is stored is shared with *)
(* the script that stores it; what is read is a copy.                      *)
(*                                                                         *)
(* The tree is a hash map with one lock for each bucket, held for a whole  *)
(* call: by a read while it copies, by an update while its closure runs.   *)
(* Every list has a lock of its own, held while it is copied and by "+",   *)
(* which moves the items of the right list into the left one and takes     *)
(* both locks, the left one first.                                         *)
(***************************************************************************)
EXTENDS Integers, FiniteSets, Sequences, Functions, SequencesExt, FiniteSetsExt

CONSTANTS
  Threads,    \* threads that run scripts
  Names,      \* nodes of the mount
  Bucket,     \* the bucket each name is in
  Keys,       \* keys of a map; positions of a list, 0 first; 0 for an object
  Lists,      \* the lists there is room for
  Null,       \* Dynamic::Null
  MaxSteps,   \* bound: steps of the scripts together
  MaxItems,   \* bound: items of a list
  MaxCount    \* bound: numbers

ASSUME RootMemoryAssumption ==
  /\ 0 \in Keys /\ Keys \subseteq Nat /\ DOMAIN Bucket = Names
  /\ IsFiniteSet(Lists) /\ MaxCount \in Nat
  /\ Lists \cap (Nat \cup {Null}) = {} /\ Null \notin Nat

VARIABLES
  tree,       \* the nodes: what they are, and their values
  heap,       \* the items of every list
  hand,       \* the value each script works on
  other,      \* a second one
  reg,        \* the number it has read to write back, plus one
  call,       \* the call of the tree it is in, or Idle
  pc,         \* "script", "wait" for a bucket, "copy", "join"
  copy,       \* deep_clone: one frame for each list it is inside of
  steps,      \* bound
  private,    \* history: the script got its value as a copy, and has given none away
  due,        \* history: what the numbers of a node add up to, by the updates of it
  aliased     \* history: a script has held a list of the node since it was last written

tracked == <<private, due, aliased>>
vars == <<tree, heap, hand, other, reg, call, pc, copy, steps, tracked>>

Numbers == 0 .. MaxCount
Value == Numbers \cup Lists \cup {Null}

WriteOps == {"add", "add_list", "add_map", "push", "insert", "remove", "remove_idx", "remove_key"}
ReadOps == {"get", "get_idx", "get_key", "get_list"}
UpdateOps == {"update", "update_key"}
Idle == [op |-> "none", name |-> "none", key |-> 0, locked |-> FALSE]

Empty == [k \in {} |-> Null]
Single(v) == [k \in {0} |-> v]
NoNode == [kind |-> "none", at |-> Empty]

-----------------------------------------------------------------------------
(* Lists and what can be reached through them.                             *)

Reach(h, roots) ==
  LET Close[near \in SUBSET Lists] ==
        LET more == near \cup (Lists \cap UNION {Range(h[o]) : o \in near})
        IN  IF more = near THEN near ELSE Close[more]
  IN  Close[roots \cap Lists]

NodeRoots(n) == Range(tree[n].at)
ScriptRoots(t) == {hand[t], other[t]}
CopyRoots(t) == UNION {{copy[t][i].list} \cup Range(copy[t][i].out) : i \in DOMAIN copy[t]}
TreeRoots == UNION {NodeRoots(n) : n \in Names}
Roots == TreeRoots \cup (UNION {ScriptRoots(t) \cup CopyRoots(t) : t \in Threads})

\* A list nobody refers to any more is freed.  Last conjunct of an action.
Heap(h) ==
  LET used == Reach(h, Roots')
  IN  heap' = [o \in Lists |-> IF o \in used THEN h[o] ELSE <<>>]
Kept == Heap(heap)

Free == Lists \ Reach(heap, Roots)
Fresh == CHOOSE o \in Free : TRUE

-----------------------------------------------------------------------------
(* Locks.                                                                  *)

KindOf(op) ==
  IF op \in {"push", "get_idx", "get_list", "remove_idx"} THEN "list"
  ELSE IF op \in {"insert", "get_key", "remove_key", "update_key"} THEN "map"
  ELSE "object"

At(t) == tree[call[t].name]
Found(t) == At(t).kind = KindOf(call[t].op) /\ call[t].key \in DOMAIN At(t).at
Stored(t) == At(t).at[call[t].key]

Writing(u) == call[u].op \in UpdateOps
Mine(t) == Bucket[call[t].name]
\* Mutant of Holders: the lock is not held while the closure runs.
HoldersCopying(t) ==
  {u \in Threads \ {t} : call[u].locked /\ Bucket[call[u].name] = Mine(t) /\ pc[u] = "copy"}

\* The threads that have the bucket locked that t is about to use.
Holders(t) == {u \in Threads \ {t} : call[u].locked /\ Bucket[call[u].name] = Mine(t)}

Frame(list, items) == [list |-> list, out |-> items, next |-> 1]
\* The next item is there, as v.
Filled(frame, v) ==
  [list |-> frame.list, out |-> [frame.out EXCEPT ![frame.next] = v], next |-> frame.next + 1]

\* Mutant of Pending: only the outermost list is copied.
PendingNone(frame) == {}

\* The items of a frame that have to be copied yet.
Pending(frame) == {i \in frame.next .. Len(frame.out) : frame.out[i] \in Lists}

Source(t) == IF call[t].op \in ReadOps THEN Stored(t) ELSE hand[t]

ListReaders(o) == {u \in Threads : \E i \in DOMAIN copy[u] : copy[u][i].list = o}
ListWriters(o) == {u \in Threads : pc[u] = "join" /\ hand[u] = o}

\* The list a thread locks next to read it.
Wanted(t) ==
  IF pc[t] # "copy" THEN Null
  ELSE IF copy[t] = <<>> THEN (IF call[t].op = "get_list" THEN Null ELSE Source(t))
  ELSE LET frame == Last(copy[t])
       IN  IF Pending(frame) = {} THEN Null ELSE frame.out[Min(Pending(frame))]

\* In no call, no closure and no "+".
AtRest(t) == pc[t] = "script" /\ reg[t] = 0 /\ ~ Writing(t)

\* The lock a thread wants next is held by another.
Blocked(t) ==
  \/ pc[t] = "wait" /\ \E u \in Holders(t) : call[t].op \notin ReadOps \/ Writing(u)
  \/ pc[t] = "copy" /\ ListWriters(Wanted(t)) # {}
  \/ pc[t] = "script" /\ reg[t] > 0 /\ ListReaders(hand[t]) \cup ListWriters(hand[t]) # {}
  \/ pc[t] = "join" /\ ListReaders(other[t]) \cup ListWriters(other[t]) # {}

-----------------------------------------------------------------------------
(* History: what a node holds, with what its update has taken out.         *)

Updates(u, n) == Writing(u) /\ call[u].locked /\ call[u].name = n

Whole(n) ==
  [k \in DOMAIN tree[n].at |->
     LET out == {u \in Threads : Updates(u, n) /\ call[u].key = k}
     IN  IF out = {} THEN tree[n].at[k] ELSE hand[CHOOSE u \in out : TRUE]]

InNode(n) == Reach(heap, Range(Whole(n)))

\* A list of the node is in other hands too.
Aliases(n) == \E u \in Threads :
  Reach(heap, IF Updates(u, n) THEN {other[u]} ELSE ScriptRoots(u)) \cap InNode(n) # {}

\* The numbers of a node one by one: a number counts as often as it is large,
\* at its place in a list or, with Null for the list, in the node.
Units(v) == {j \in 1 .. MaxCount : v \in Numbers /\ j <= v}
Items(n, o) == IF o = Null THEN Whole(n) ELSE heap[o]
Ones(n) ==
  UNION {UNION {{<<o, i>>} \X Units(Items(n, o)[i]) : i \in DOMAIN Items(n, o)} :
           o \in InNode(n) \cup {Null}}

\* Two lists, which an earlier exchange through the tree (add and remove) may
\* have left with both scripts, with one, or in a node.
Init ==
  LET a == CHOOSE o \in Lists : TRUE
      b == CHOOSE o \in Lists : o # a
  IN  /\ heap \in {[o \in Lists |-> IF o = a THEN <<0>> ELSE IF o = b THEN items ELSE <<>>] :
                    items \in {<<0>>, <<a>>}}
      /\ hand \in [Threads -> {0, a, b}]
      /\ other \in [Threads -> {Null, a}]
      /\ tree \in [Names -> {NoNode, [kind |-> "object", at |-> Single(b)]}]
      /\ reg = [t \in Threads |-> 0]
      /\ call = [t \in Threads |-> Idle]
      /\ pc = [t \in Threads |-> "script"]
      /\ copy = [t \in Threads |-> <<>>]
      /\ steps = 0
      /\ private = [t \in Threads |-> FALSE]
      /\ due = [n \in Names |-> Cardinality(Ones(n))]
      /\ aliased = [n \in Names |-> Aliases(n)]
      /\ {a, b} \subseteq Reach(heap, Roots)

\* history, after a step that has written the nodes "written" anew, and has
\* counted one up in the closures of the updates of the nodes "counted"
Track(written, counted) ==
  /\ aliased' = [n \in Names |-> (n \notin written /\ aliased[n]) \/ Aliases(n)']
  /\ due' = [n \in Names |-> IF n \in written THEN Cardinality(Ones(n)')
                              ELSE due[n] + (IF n \in counted THEN 1 ELSE 0)]

-----------------------------------------------------------------------------
(* What a script does between calls: with the values it has, and in the    *)
(* closure of an update with the current value.                            *)

Running(t) == pc[t] = "script" /\ reg[t] = 0 /\ steps < MaxSteps
Alone(t) == Running(t) /\ call[t] = Idle
Updated(t) == {n \in Names : Updates(t, n)}    \* the node whose closure it runs
Counted == steps' = steps + 1

\* [0]
NewList(t) ==
  /\ Alone(t) /\ Free # {}
  /\ hand' = [hand EXCEPT ![t] = Fresh]
  /\ private' = [private EXCEPT ![t] = TRUE]
  /\ Counted
  /\ UNCHANGED <<tree, other, reg, call, pc, copy>>
  /\ Heap([heap EXCEPT ![Fresh] = <<0>>])
  /\ Track({}, {})

\* [value]: the new list holds the same value.
Wrap(t) ==
  /\ Running(t) /\ Free # {} /\ hand[t] # Null
  /\ hand' = [hand EXCEPT ![t] = Fresh]
  /\ Counted
  /\ UNCHANGED <<tree, other, reg, call, pc, copy, private>>
  /\ Heap([heap EXCEPT ![Fresh] = <<hand[t]>>])
  /\ Track({}, {})

\* other = value[0] (get_idx clones, and so shares)
First(t) ==
  /\ Alone(t) /\ hand[t] \in Lists /\ heap[hand[t]] # <<>> /\ ListWriters(hand[t]) = {}
  /\ other' = [other EXCEPT ![t] = heap[hand[t]][1]]
  /\ Counted
  /\ UNCHANGED <<tree, hand, reg, call, pc, copy, private>>
  /\ Kept
  /\ Track({}, {})

Swap(t) ==
  /\ Alone(t) /\ other[t] # hand[t]
  /\ hand' = [hand EXCEPT ![t] = other[t]]
  /\ other' = [other EXCEPT ![t] = hand[t]]
  /\ private' = [private EXCEPT ![t] = FALSE]
  /\ Counted
  /\ UNCHANGED <<tree, reg, call, pc, copy>>
  /\ Kept
  /\ Track({}, {})

\* value + 1, or value[0] = value[0] + 1, which reads and then writes
Bump(t) ==
  /\ Running(t) /\ Counted
  /\ \/ /\ hand[t] \in Numbers \ {MaxCount}
        /\ hand' = [hand EXCEPT ![t] = @ + 1]
        /\ UNCHANGED reg
     \/ /\ hand[t] \in Lists /\ ListWriters(hand[t]) = {}
        /\ heap[hand[t]] # <<>> /\ heap[hand[t]][1] \in Numbers \ {MaxCount}
        /\ reg' = [reg EXCEPT ![t] = heap[hand[t]][1] + 1]
        /\ UNCHANGED hand
  /\ UNCHANGED <<tree, other, call, pc, copy, private>>
  /\ Kept
  /\ Track({}, IF hand[t] \in Numbers THEN Updated(t) ELSE {})

\* set_idx; nothing is written when the item has gone.
BumpBack(t) ==
  /\ pc[t] = "script" /\ reg[t] > 0
  /\ reg' = [reg EXCEPT ![t] = 0]
  /\ UNCHANGED <<tree, hand, other, call, pc, copy, steps, private>>
  /\ Heap(IF heap[hand[t]] = <<>> THEN heap ELSE [heap EXCEPT ![hand[t]][1] = reg[t]])
  /\ Track({}, IF heap[hand[t]] = <<>> THEN {} ELSE Updated(t))

\* left + right, on two lists: append moves the items.  A program that puts a
\* list into itself is left out: deep_clone of such a list has no end.
Join(t) ==
  /\ Alone(t) /\ {hand[t], other[t]} \subseteq Lists /\ hand[t] # other[t]
  /\ hand[t] \notin Reach(heap, {other[t]})
  /\ ListReaders(hand[t]) \cup ListWriters(hand[t]) = {}
  /\ pc' = [pc EXCEPT ![t] = "join"]
  /\ private' = [private EXCEPT ![t] = FALSE]
  /\ Counted
  /\ UNCHANGED <<tree, hand, other, reg, call, copy>>
  /\ Kept
  /\ Track({}, {})

\* The bound, and what Join leaves out, once more: another may have moved items.
Fits(t) ==
  /\ Len(heap[hand[t]] \o heap[other[t]]) <= MaxItems
  /\ hand[t] \notin Reach(heap, {other[t]})
JoinMoves(t) ==
  /\ pc[t] = "join"
  /\ pc' = [pc EXCEPT ![t] = "script"]
  /\ UNCHANGED <<tree, hand, other, reg, call, copy, steps, private>>
  /\ Heap(IF Fits(t)
          THEN [heap EXCEPT ![hand[t]] = @ \o heap[other[t]], ![other[t]] = <<>>]
          ELSE heap)
  /\ Track({}, {})

-----------------------------------------------------------------------------
(* Calls of the tree.                                                      *)

KeysOf(op) == IF KindOf(op) = "object" \/ op \in {"add_list", "add_map", "push", "get_list"} THEN {0} ELSE Keys

\* The closure of an update makes no call of the tree (root/src/lib.rs:956-959).
Call(t) ==
  /\ Alone(t)
  /\ \E op \in WriteOps \cup ReadOps \cup UpdateOps, n \in Names :
       \E k \in KeysOf(op) :
         call' = [call EXCEPT ![t] = [op |-> op, name |-> n, key |-> k, locked |-> FALSE]]
  /\ pc' = [pc EXCEPT ![t] = "wait"]
  /\ Counted
  /\ UNCHANGED <<tree, hand, other, reg, copy, private>>
  /\ Kept
  /\ Track({}, {})

Without(node, k) == [node EXCEPT !.at = Restrict(@, DOMAIN @ \ {k})]
With(node, k, v) ==
  [node EXCEPT !.at = [j \in DOMAIN @ \cup {k} |-> IF j = k THEN v ELSE @[j]]]
FreeKeys(node) == Keys \ DOMAIN node.at

\* The node after a call that writes.
Written(t) ==
  LET node == At(t)
      op == call[t].op
  IN  CASE op = "add" -> [kind |-> "object", at |-> Single(hand[t])]
        [] op = "add_list" -> [kind |-> "list", at |-> Empty]
        [] op = "add_map" -> [kind |-> "map", at |-> Empty]
        [] op = "remove" -> NoNode
        [] op = "push" /\ node.kind = "list" /\ FreeKeys(node) # {} ->
             With(node, Min(FreeKeys(node)), hand[t])
        [] op = "insert" /\ node.kind = "map" -> With(node, call[t].key, hand[t])
        [] op \in {"remove_idx", "remove_key"} /\ Found(t) -> Without(node, call[t].key)
        [] OTHER -> node

\* Mutant of Give: the lock of the bucket is left behind.
GiveLocked(t, v) ==
  /\ hand' = [hand EXCEPT ![t] = v]
  /\ call' = [call EXCEPT ![t].op = "none"]
  /\ pc' = [pc EXCEPT ![t] = "script"]

Give(t, v) ==      \* the call is over, and has given the script v
  /\ hand' = [hand EXCEPT ![t] = v]
  /\ call' = [call EXCEPT ![t] = Idle]
  /\ pc' = [pc EXCEPT ![t] = "script"]

\* remove hands over the value itself; remove_idx and remove_key go on to copy
\* it, when the bucket is free again.
Removes(t) == call[t].op \in {"remove_idx", "remove_key"} /\ Found(t)
Keeps(t) == call[t].op \in {"add", "push", "insert", "add_list", "add_map"}

Write(t) ==
  /\ pc[t] = "wait" /\ call[t].op \in WriteOps
  /\ tree' = [tree EXCEPT ![call[t].name] = Written(t)]
  /\ IF Removes(t)
     THEN /\ hand' = [hand EXCEPT ![t] = Stored(t)]
          /\ pc' = [pc EXCEPT ![t] = "copy"]
          /\ UNCHANGED call
     ELSE Give(t, IF Keeps(t) THEN hand[t] ELSE IF Found(t) THEN Stored(t) ELSE Null)
  /\ private' = [private EXCEPT ![t] = FALSE]
  /\ UNCHANGED <<other, reg, copy, steps>>
  /\ Kept
  /\ Track({call[t].name}, {})

Locked(t) == call' = [call EXCEPT ![t].locked = TRUE]

\* get, get_idx, get_key, get_list: copy with the bucket locked for reading ...
Read(t) ==
  /\ pc[t] = "wait" /\ call[t].op \in ReadOps
  /\ \/ /\ Found(t) \/ (call[t].op = "get_list" /\ At(t).kind = "list")
        /\ Locked(t)
        /\ pc' = [pc EXCEPT ![t] = "copy"]
        /\ UNCHANGED <<hand, private>>
     \/ /\ ~ Found(t) /\ ~ (call[t].op = "get_list" /\ At(t).kind = "list")
        /\ Give(t, Null)
        /\ private' = [private EXCEPT ![t] = TRUE]
  /\ UNCHANGED <<tree, other, reg, copy, steps>>
  /\ Kept
  /\ Track({}, {})

\* update, update_key: the closure gets the value, and Null stays behind.
Take(t) ==
  /\ pc[t] = "wait" /\ call[t].op \in UpdateOps
  /\ private' = [private EXCEPT ![t] = FALSE]
  /\ IF Found(t)
     THEN /\ tree' = [tree EXCEPT ![call[t].name] = With(@, call[t].key, Null)]
          /\ Locked(t)
          /\ hand' = [hand EXCEPT ![t] = Stored(t)]
          /\ other' = [other EXCEPT ![t] = hand[t]]
          /\ pc' = [pc EXCEPT ![t] = "script"]
     ELSE Give(t, Null) /\ UNCHANGED <<tree, other>>
  /\ UNCHANGED <<reg, copy, steps>>
  /\ Kept
  /\ Track({}, {})

\* The closure returns; the new value is copied for the script.
Return(t) ==
  /\ pc[t] = "script" /\ reg[t] = 0 /\ call[t].op \in UpdateOps
  /\ pc' = [pc EXCEPT ![t] = "copy"]
  /\ UNCHANGED <<tree, hand, other, reg, call, copy, steps, private>>
  /\ Kept
  /\ Track({}, {})

-----------------------------------------------------------------------------
(* deep_clone.                                                             *)

\* The items of a list node, by their positions.
Listed(t) ==
  LET at == At(t).at
      Place(k) == Cardinality({j \in DOMAIN at : j <= k})
  IN  [i \in 1 .. Cardinality(DOMAIN at) |-> at[CHOOSE k \in DOMAIN at : Place(k) = i]]

\* The copy is complete.  An update stores the value of its closure.
Deliver(t, v) ==
  /\ IF Writing(t)
     THEN tree' = [tree EXCEPT ![call[t].name] = With(@, call[t].key, hand[t])]
     ELSE UNCHANGED tree
  /\ Give(t, v)
  /\ private' = [private EXCEPT ![t] = TRUE]

CopyBegins(t) ==
  /\ pc[t] = "copy" /\ copy[t] = <<>>
  /\ \/ /\ call[t].op = "get_list"
        /\ copy' = [copy EXCEPT ![t] = <<Frame(Null, Listed(t))>>]
        /\ UNCHANGED <<tree, hand, call, pc, private>>
     \/ /\ call[t].op # "get_list" /\ Source(t) \in Lists
        /\ copy' = [copy EXCEPT ![t] = <<Frame(Source(t), heap[Source(t)])>>]
        /\ UNCHANGED <<tree, hand, call, pc, private>>
     \/ /\ call[t].op # "get_list" /\ Source(t) \notin Lists
        /\ Deliver(t, Source(t))
        /\ UNCHANGED copy
  /\ UNCHANGED <<other, reg, steps>>
  /\ Kept
  /\ Track({}, {})

\* An item that is a list is locked and copied while the outer one stays locked.
CopyEnters(t) ==
  LET frame == Last(copy[t])
      at == Min(Pending(frame))
  IN  /\ copy[t] # <<>> /\ Pending(frame) # {}
      /\ copy' = [copy EXCEPT ![t] =
                    Append(Front(@) \o <<[frame EXCEPT !.next = at]>>,
                           Frame(frame.out[at], heap[frame.out[at]]))]
      /\ UNCHANGED <<tree, hand, other, reg, call, pc, steps, private>>
      /\ Kept
      /\ Track({}, {})

CopyLeaves(t) ==
  LET frame == Last(copy[t])
      outer == Front(copy[t])
  IN  /\ copy[t] # <<>> /\ Pending(frame) = {} /\ Free # {}
      /\ IF outer = <<>>
         THEN Deliver(t, Fresh) /\ copy' = [copy EXCEPT ![t] = <<>>]
         ELSE /\ copy' = [copy EXCEPT ![t] =
                   Append(Front(outer), Filled(Last(outer), Fresh))]
              /\ UNCHANGED <<tree, hand, call, pc, private>>
      /\ UNCHANGED <<other, reg, steps>>
      /\ Heap([heap EXCEPT ![Fresh] = frame.out])
      /\ Track({}, {})

-----------------------------------------------------------------------------
Script(t) == NewList(t) \/ Wrap(t) \/ First(t) \/ Swap(t) \/ Bump(t) \/ Call(t) \/ Join(t)

\* What a thread does by itself, once it is in a call, a closure or "+", as soon
\* as the lock it wants next is free.
Proceed(t) ==
  /\ ~ Blocked(t)
  /\ \/ BumpBack(t)
     \/ JoinMoves(t)
     \/ Write(t)
     \/ Read(t)
     \/ Take(t)
     \/ Return(t)
     \/ CopyBegins(t)
     \/ CopyEnters(t)
     \/ CopyLeaves(t)

Next == \E t \in Threads : Script(t) \/ Proceed(t)

Spec == Init /\ [][Next]_vars

-----------------------------------------------------------------------------
(* Properties *)

\* What a script has read is its own, however deep: it shares no list with the
\* tree or with another thread, so nothing it does to it is seen elsewhere
\* (Object::value, which every read goes through).
GottenIsPrivate ==
  \A t \in Threads : private[t] =>
    Reach(heap, {hand[t]}) \cap
      Reach(heap, TreeRoots \cup (UNION {ScriptRoots(u) : u \in Threads \ {t}})) = {}

\* Every update of a node starts from the one before: the numbers in it, with
\* those a closure has just taken out, are what was last written plus what the
\* closures have added since.  Not so for a node one of whose lists a script
\* still holds, having stored it or removed it from elsewhere: it changes the
\* list without the bucket's lock.
UpdatesAddUp == \A n \in Names : aliased[n] \/ Cardinality(Ones(n)) = due[n]

\* Nobody waits for ever, for a bucket or for a list, but through scripts that add
\* up lists in a ring: each wants the list that the next one adds to, or it is read
\* by someone who wants that, having found it inside.  Two scripts that add two
\* lists crosswise are one.  Whoever copies one of these lists then waits as well,
\* and everybody behind it at its bucket.
WaitsBehind(t, u) ==
  \/ other[t] = hand[u]
  \/ \E c \in ListReaders(other[t]) : pc[c] = "copy" /\ Wanted(c) = hand[u]
Ring == \E S \in (SUBSET Threads) \ {{}} :
  \A t \in S : pc[t] = "join" /\ \E u \in S : pc[u] = "join" /\ WaitsBehind(t, u)
StuckOnlyInRing ==
  (\A t \in Threads : Blocked(t) \/ AtRest(t)) => Ring \/ \A t \in Threads : ~ Blocked(t)
=============================================================================

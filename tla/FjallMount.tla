----------------------------- MODULE FjallMount -----------------------------
(***************************************************************************)
(* A fjall mount of the root tree (root/src/mount.rs): nodes kept as keys  *)
(* of a persistent key-value store.                                        *)
(*                                                                         *)
(* A node is spread over several keys: its object, its type, the counter   *)
(* of its list, one key per list entry and per map entry.  add, add_list,  *)
(* add_map, push, insert, update and update_key hold the mount's write     *)
(* lock from their first read to their last write; remove, remove_idx and  *)
(* remove_key do not take it.  Each write of a key is a step, and survives *)
(* a crash of the process.  A call refused before it writes changes        *)
(* nothing and is no action.                                               *)
(***************************************************************************)
EXTENDS Integers, Sequences, FiniteSets, FiniteSetsExt, SequencesExt

CONSTANTS
  Names,      \* the nodes
  MapKeys,    \* the keys of the map nodes
  Values,     \* what objects and entries may hold
  Threads,    \* threads that call the mount
  MaxIndex,   \* bound: pushes of one list life
  List, Map,  \* what the type key holds: "L", "M"
  Nil         \* an absent key; no thread; no call

Indices == 0 .. MaxIndex - 1
Item(i) == <<"item", i>>
Entry(k) == <<"entry", k>>
Items == {Item(i) : i \in Indices}
Entries == {Entry(k) : k \in MapKeys}

\* The keys that hold what callers store, and all the keys of a node.
Cells == {<<"object">>} \cup Items \cup Entries
Keys == Cells \cup {<<"type">>, <<"counter">>}

VARIABLES
  values,    \* the keyspace: what each key of each node holds
  lock,      \* write_lock: the thread that holds it
  call,      \* the call each thread is in, Nil for none
  torn,      \* history: nodes whose clearing has begun and not been completed
  given,     \* history: the indices push has returned for the list as it is
  promised   \* history: what is stored in a node's cells, and not to be replaced

vars == <<values, lock, call, torn, given, promised>>

\* One insert or remove of a key.
Write == [key : Keys, put : Values \cup 0 .. MaxIndex \cup {List, Map, Nil}]
put(key, value) == [key |-> key, put |-> value]
erase(key) == put(key, Nil)

\* A locked call: the writes it has still to do, and the cell it stores to (if
\* it does).  A removal: the cell, and what it read there.
Call ==
  [op : {"clear", "push", "store"}, name : Names, cell : Cells \cup {Nil},
   value : Values \cup {Nil}, todo : Seq(Write)]
    \cup [op : {"remove"}, name : Names, cell : Cells, value : Values]

ASSUME ConstantsAssumption ==
  /\ Nil \notin Values \cup Threads \cup Nat \cup Keys \cup Call \cup {List, Map}
  /\ List # Map
  /\ MaxIndex \in Nat
  /\ IsFiniteSet(MapKeys)

Nothing == [c \in Cells |-> Nil]
Init ==
  /\ values = [n \in Names |-> [k \in Keys |-> Nil]]
  /\ lock = Nil
  /\ call = [t \in Threads |-> Nil]
  /\ torn = {}
  /\ given = [n \in Names |-> {}]
  /\ promised = [n \in Names |-> Nothing]
-----------------------------------------------------------------------------
Present(n, K) == {k \in K : values[n][k] # Nil}
Type(n) == values[n][<<"type">>]

\* Mutant of Clear: the entries of a map are left.
ClearNoEntries(n) ==
  << erase(<<"object">>), erase(<<"type">>), erase(<<"counter">>) >>
    \o SetToSeq({erase(k) : k \in Present(n, Items)})

\* The writes of fjall_clear_node.  The prefixes are scanned when their turn
\* comes; only removals run meanwhile, and to remove an absent key is nothing.
Clear(n) ==
  << erase(<<"object">>), erase(<<"type">>), erase(<<"counter">>) >>
    \o SetToSeq({erase(k) : k \in Present(n, Items)})
    \o SetToSeq({erase(k) : k \in Present(n, Entries)})

\* fjall_set_node_type, of a node that has no type yet.
SetType(n, type) == IF Type(n) = Nil THEN << put(<<"type">>, type) >> ELSE <<>>

\* Mutant of NextIdx: as many as there are entries.
CountIdx(n) == Cardinality(Present(n, Items))

\* fjall_next_list_idx: the counter, 0 when it is absent.
NextIdx(n) == IF values[n][<<"counter">>] = Nil THEN 0 ELSE values[n][<<"counter">>]

Idle(t) == call[t] = Nil
Running(t, op) == call[t] # Nil /\ call[t].op = op
Locked(t) == lock = t

\* Mutant of Start: without the lock.
StartUnlocked(t, op, n, cell, value, todo) ==
  /\ Idle(t)
  /\ lock' = t
  /\ call' = [call EXCEPT ![t] =
       [op |-> op, name |-> n, cell |-> cell, value |-> value, todo |-> todo]]
  /\ UNCHANGED values

\* Locks and starts a call on n that does the writes todo.
Start(t, op, n, cell, value, todo) ==
  /\ Idle(t)
  /\ lock = Nil
  /\ lock' = t
  /\ call' = [call EXCEPT ![t] =
       [op |-> op, name |-> n, cell |-> cell, value |-> value, todo |-> todo]]
  /\ UNCHANGED values

\* What was promised of a cell is void once a call means to replace it.
Replacing(n, cells) ==
  promised' = [promised EXCEPT ![n] = [c \in Cells |-> IF c \in cells THEN Nil ELSE @[c]]]
-----------------------------------------------------------------------------
\* add_list and add_map (cell = Nil), add: they clear the node and start anew.
Renew(t, n, cell, value, last) ==
  /\ Start(t, "clear", n, cell, value, Clear(n) \o << last >>)
  /\ Replacing(n, Cells)
  /\ torn' = torn \cup {n}
  /\ given' = [given EXCEPT ![n] = {}]

Add(t, n, v) == Renew(t, n, <<"object">>, v, put(<<"object">>, v))
AddList(t, n) == Renew(t, n, Nil, Nil, put(<<"type">>, List))
AddMap(t, n) == Renew(t, n, Nil, Nil, put(<<"type">>, Map))

\* A map refuses; a node without a type becomes a list.
Push(t, n, v) ==
  LET i == NextIdx(n) IN
  /\ Type(n) # Map
  /\ i < MaxIndex
  /\ Start(t, "push", n, Item(i), v,
           SetType(n, List) \o << put(<<"counter">>, i + 1), put(Item(i), v) >>)
  /\ UNCHANGED <<torn, given, promised>>

\* A list refuses; a node without a type becomes a map.
Insert(t, n, k, v) ==
  /\ Type(n) # List
  /\ Start(t, "store", n, Entry(k), v, SetType(n, Map) \o << put(Entry(k), v) >>)
  /\ Replacing(n, {Entry(k)})
  /\ UNCHANGED <<torn, given>>

\* update and update_key: reads the cell, writes what the closure made of it.
Update(t, n, cell, v) ==
  /\ values[n][cell] # Nil
  /\ Start(t, "store", n, cell, v, << put(cell, v) >>)
  /\ Replacing(n, {cell})
  /\ UNCHANGED <<torn, given>>

\* No removal of the cell is under way.
Undisturbed(n, cell) ==
  \A t \in Threads : Running(t, "remove") => <<call[t].name, call[t].cell>> # <<n, cell>>

\* The next write of a locked call.  What it stores to its cell is promised,
\* unless something else is: then it had no business there.
Step(t) ==
  LET c == call[t]
      w == Head(c.todo)
  IN
  /\ Locked(t)
  /\ c.todo # <<>>
  /\ values' = [values EXCEPT ![c.name][w.key] = w.put]
  /\ call' = [call EXCEPT ![t].todo = Tail(@)]
  /\ promised' = IF /\ w = put(c.cell, c.value)
                    /\ promised[c.name][c.cell] = Nil
                    /\ Undisturbed(c.name, c.cell)
                 THEN [promised EXCEPT ![c.name][c.cell] = c.value] ELSE promised
  /\ UNCHANGED <<lock, torn, given>>

Release(t) ==
  /\ lock' = Nil
  /\ call' = [call EXCEPT ![t] = Nil]

\* fjall_persist succeeds: the call returns what it was asked for.
Return(t) ==
  LET c == call[t] IN
  /\ Locked(t)
  /\ c.todo = <<>>
  /\ Release(t)
  /\ torn' = IF c.op = "clear" THEN torn \ {c.name} ELSE torn
  /\ given' = IF c.op = "push" THEN [given EXCEPT ![c.name] = @ \cup {c.cell[2]}] ELSE given
  /\ UNCHANGED <<values, promised>>

\* A write, or fjall_persist, fails: the call returns with the rest undone.
Fail(t) ==
  /\ Locked(t)
  /\ Release(t)
  /\ UNCHANGED <<values, torn, given, promised>>
-----------------------------------------------------------------------------
\* remove, remove_idx and remove_key read the cell, ...
RemoveRead(t, n, cell) ==
  /\ Idle(t)
  /\ values[n][cell] # Nil
  /\ call' = [call EXCEPT ![t] =
       [op |-> "remove", name |-> n, cell |-> cell, value |-> values[n][cell]]]
  /\ Replacing(n, {cell})
  /\ UNCHANGED <<values, lock, torn, given>>

\* ... and remove it, whatever it holds by then, without the lock.
RemoveKey(t) ==
  /\ Running(t, "remove")
  /\ values' = [values EXCEPT ![call[t].name][call[t].cell] = Nil]
  /\ call' = [call EXCEPT ![t] = Nil]
  /\ UNCHANGED <<lock, torn, given, promised>>

\* The process dies, and mounts the directory again.
Crash ==
  /\ lock' = Nil
  /\ call' = [t \in Threads |-> Nil]
  /\ UNCHANGED <<values, torn, given, promised>>
-----------------------------------------------------------------------------
Next ==
  \/ \E t \in Threads :
       \/ Step(t) \/ Return(t) \/ Fail(t) \/ RemoveKey(t)
       \/ \E n \in Names :
            \/ AddList(t, n) \/ AddMap(t, n)
            \/ \E v \in Values : Add(t, n, v) \/ Push(t, n, v)
            \/ \E v \in Values, k \in MapKeys : Insert(t, n, k, v)
            \/ \E v \in Values, cell \in Cells \ Items : Update(t, n, cell, v)
            \/ \E cell \in Cells : RemoveRead(t, n, cell)
  \/ Crash

Spec == Init /\ [][Next]_vars
-----------------------------------------------------------------------------
\* Every variable has its type, and the lock is held by a thread in a locked call.
TypeOK ==
  /\ values \in [Names -> [Keys -> Values \cup 0 .. MaxIndex \cup {List, Map, Nil}]]
  /\ call \in [Threads -> Call \cup {Nil}]
  /\ \A t \in Threads : lock = t <=> call[t] # Nil /\ call[t].op # "remove"
  /\ torn \subseteq Names
  /\ given \in [Names -> SUBSET Indices]
  /\ promised \in [Names -> [Cells -> Values \cup {Nil}]]

(***************************************************************************)
(* A node has one shape at every moment, also for readers without the      *)
(* lock: list entries only in a list and below its counter, map entries    *)
(* only in a map.  A clearing that was cut short spoils it, and the next   *)
(* complete add, add_list or add_map restores it.                          *)
(* Code: fjall_clear_node, push, insert (mount.rs:750-757, 454, 544).      *)
(***************************************************************************)
OneShape ==
  \A n \in Names \ torn :
    /\ Present(n, Items) # {} => Type(n) = List
    /\ Present(n, Entries) # {} => Type(n) = Map
    /\ \A i \in Indices : values[n][Item(i)] # Nil => i < NextIdx(n)

(***************************************************************************)
(* What a call has stored stays until a call that means to replace or      *)
(* remove it begins: no push takes the place of an entry, and neither a    *)
(* crash nor a failed call loses it.  Nothing is promised of a cell that   *)
(* a removal under way is about to empty, whatever it holds by then.       *)
(* Nor does push ever return an index it has returned before in the life   *)
(* of the list, even if the entry has been removed since: a holder of an   *)
(* old index never reaches a newer entry.                                  *)
(* Code: the order of writes in push and insert, the write lock, and       *)
(* fjall_next_list_idx (mount.rs:770-775).                                 *)
(***************************************************************************)
StoredStays ==
  /\ \A n \in Names : \A c \in Cells : promised[n][c] # Nil => values[n][c] = promised[n][c]
  /\ \A t \in Threads : Running(t, "push") => call[t].cell[2] \notin given[call[t].name]

(***************************************************************************)
(* An update is applied to what the node holds: between its read and its   *)
(* write nobody else stores to the cell, though a removal may empty it.    *)
(* Code: get_mut and get_key_mut under the write lock (mount.rs:146, 219). *)
(***************************************************************************)
UpdateOfCurrent ==
  [][\A t \in Threads : Running(t, "store") =>
       LET n == call[t].name
           c == call[t].cell
       IN  values'[n][c] \in {values[n][c], call[t].value, Nil}]_vars
=============================================================================

-------------------------- MODULE FjallMountProofs --------------------------
(***************************************************************************)
(* The safety of a fjall mount, for any number of nodes, map keys, values  *)
(* and threads, and lists of any length.                                   *)
(***************************************************************************)
EXTENDS FjallMount, FiniteSetTheorems, FunctionTheorems, SequenceTheorems, TLAPS

-----------------------------------------------------------------------------
(* The keys of a node, and the writes of a call                            *)

\* The keys of a node are told apart by their first word, entries by the second.
LEMMA KeysDiffer ==
  /\ <<"object">> # <<"type">> /\ <<"object">> # <<"counter">> /\ <<"type">> # <<"counter">>
  /\ \A x : /\ Item(x) \notin {<<"object">>, <<"type">>, <<"counter">>}
            /\ Entry(x) \notin {<<"object">>, <<"type">>, <<"counter">>}
            /\ Item(x)[2] = x
  /\ \A x, y : /\ Item(x) # Entry(y)
               /\ Item(x) = Item(y) => x = y
               /\ Entry(x) = Entry(y) => x = y
BY DEF Item, Entry

\* A write is its key and what is put there.
LEMMA WriteParts ==
  /\ \A k, v : put(k, v).key = k /\ put(k, v).put = v
  /\ \A k, v, l, u : put(k, v) = put(l, u) <=> k = l /\ v = u
  /\ \A k \in Keys, v \in Values \cup 0 .. MaxIndex \cup {List, Map, Nil} : put(k, v) \in Write
BY DEF put, Write

\* Writes put before the last ones.
LEMMA ShortTodos ==
  \A x, y, z : /\ << x >> \o << y, z >> = << x, y, z >> /\ <<>> \o << y, z >> = << y, z >>
              /\ << x >> \o << z >> = << x, z >> /\ <<>> \o << z >> = << z >>
<1> TAKE x, y, z
<1> DEFINE S == {x, y, z}
<1>1. << x >> \in Seq(S) /\ << z >> \in Seq(S) /\ << y, z >> \in Seq(S)
  OBVIOUS
<1>2. <<>> \o << y, z >> = << y, z >> /\ <<>> \o << z >> = << z >>
  BY <1>1, ConcatEmptySeq
<1>3. << x >> \o << y, z >> = << x, y, z >>
  <2>1. << x >> \o << y, z >> \in Seq(S) /\ << x, y, z >> \in Seq(S)
    BY <1>1, ConcatProperties
  <2>2. Len(<< x >> \o << y, z >>) = 3 /\ Len(<< x, y, z >>) = 3
    BY <1>1, ConcatProperties
  <2>3. \A i \in 1 .. 3 : (<< x >> \o << y, z >>)[i] = << x, y, z >>[i]
    BY <1>1, ConcatProperties
  <2> HIDE DEF S
  <2> QED
    BY <2>1, <2>2, <2>3, SeqEqual
<1>4. << x >> \o << z >> = << x, z >>
  <2>1. << x >> \o << z >> \in Seq(S) /\ << x, z >> \in Seq(S)
    BY <1>1, ConcatProperties
  <2>2. Len(<< x >> \o << z >>) = 2 /\ Len(<< x, z >>) = 2
    BY <1>1, ConcatProperties
  <2>3. \A i \in 1 .. 2 : (<< x >> \o << z >>)[i] = << x, z >>[i]
    BY <1>1, ConcatProperties
  <2> HIDE DEF S
  <2> QED
    BY <2>1, <2>2, <2>3, SeqEqual
<1> QED
  BY <1>2, <1>3, <1>4

\* SetToSeq lists every element of a finite set.
LEMMA SetToSeqLists ==
  ASSUME NEW S, IsFiniteSet(S)
  PROVE  /\ SetToSeq(S) \in Seq(S)
         /\ \A x \in S : \E i \in 1 .. Len(SetToSeq(S)) : SetToSeq(S)[i] = x
<1> DEFINE n == Cardinality(S)
<1>1. n \in Nat /\ ExistsBijection(1 .. n, S)
  BY FS_CardinalityType
<1>2. \E f \in [1 .. n -> S] : IsInjective(f)
  BY <1>1 DEF ExistsBijection, Bijection, Injection
<1>3. SetToSeq(S) \in [1 .. n -> S] /\ IsInjective(SetToSeq(S))
  BY <1>2 DEF SetToSeq
<1>4. SetToSeq(S) \in Injection(1 .. n, S)
  BY <1>3 DEF Injection
<1>5. Cardinality(1 .. n) = n
  BY <1>1, FS_Interval
<1>6. SetToSeq(S) \in Surjection(1 .. n, S)
  BY <1>4, <1>5, FS_Injection
<1>7. SetToSeq(S) \in Seq(S) /\ Len(SetToSeq(S)) = n
  BY <1>1, <1>3
<1> QED
  BY <1>6, <1>7 DEF Surjection

\* The keys of a node are finitely many.
LEMMA KeysFinite == IsFiniteSet(Items) /\ IsFiniteSet(Entries)
<1>1. IsFiniteSet(Indices)
  <2>1. MaxIndex - 1 \in Int
    BY ConstantsAssumption
  <2> QED
    BY <2>1, FS_Interval DEF Indices
<1>2. [i \in Indices |-> Item(i)] \in Surjection(Indices, Items)
  BY DEF Surjection, Items
<1>3. [k \in MapKeys |-> Entry(k)] \in Surjection(MapKeys, Entries)
  BY DEF Surjection, Entries
<1> QED
  BY <1>1, <1>2, <1>3, FS_Surjection, ConstantsAssumption

\* The writes of fjall_clear_node erase a set of keys, K and some more.
Erases(todo, K) ==
  /\ todo \in Seq(Write)
  /\ \A i \in 1 .. Len(todo) : \E k \in Keys : todo[i] = erase(k)
  /\ \A k \in K : \E i \in 1 .. Len(todo) : todo[i] = erase(k)

\* A finite set of keys is erased by the sequence of its erasures.
LEMMA ErasesSet ==
  ASSUME NEW K \in SUBSET Keys, IsFiniteSet(K)
  PROVE  Erases(SetToSeq({erase(k) : k \in K}), K)
<1> DEFINE S == {erase(k) : k \in K}
           s == SetToSeq(S)
<1>1. [k \in K |-> erase(k)] \in Surjection(K, S)
  BY DEF Surjection
<1>2. IsFiniteSet(S)
  BY <1>1, FS_Surjection
<1>3. s \in Seq(S) /\ \A x \in S : \E i \in 1 .. Len(s) : s[i] = x
  BY <1>2, SetToSeqLists
<1>4. \A k \in K : erase(k) \in Write
  BY WriteParts DEF erase
<1>5. s \in Seq(Write)
  BY <1>3, <1>4, SeqMonotonic
<1>6. \A i \in 1 .. Len(s) : s[i] \in S
  BY <1>3, ElementOfSeq
<1> QED
  BY <1>3, <1>5, <1>6 DEF Erases

\* One after the other, they erase both sets.
LEMMA ErasesBoth ==
  ASSUME NEW K, NEW L, NEW s, NEW t, Erases(s, K), Erases(t, L)
  PROVE  Erases(s \o t, K \cup L)
<1>1. /\ s \in Seq(Write) /\ t \in Seq(Write)
      /\ Len(s) \in Nat /\ Len(t) \in Nat
  BY DEF Erases
<1>2. /\ s \o t \in Seq(Write)
      /\ Len(s \o t) = Len(s) + Len(t)
      /\ \A i \in 1 .. Len(s) : (s \o t)[i] = s[i]
      /\ \A i \in 1 .. Len(t) : (s \o t)[Len(s) + i] = t[i]
  BY <1>1, ConcatProperties
<1>3. ASSUME NEW i \in 1 .. Len(s \o t) PROVE \E k \in Keys : (s \o t)[i] = erase(k)
  <2>1. CASE i <= Len(s)
    BY <1>1, <1>2, <2>1 DEF Erases
  <2>2. CASE i > Len(s)
    <3>1. i - Len(s) \in 1 .. Len(t) /\ i = Len(s) + (i - Len(s))
      BY <1>1, <1>2, <2>2
    <3>2. (s \o t)[i] = t[i - Len(s)]
      BY <1>2, <3>1
    <3> QED
      BY <3>1, <3>2 DEF Erases
  <2> QED
    BY <1>1, <1>2, <2>1, <2>2
<1>4. ASSUME NEW k \in K \cup L PROVE \E i \in 1 .. Len(s \o t) : (s \o t)[i] = erase(k)
  <2>1. CASE k \in K
    <3>1. PICK i \in 1 .. Len(s) : s[i] = erase(k)
      BY <2>1 DEF Erases
    <3>2. i \in 1 .. Len(s \o t) /\ (s \o t)[i] = erase(k)
      BY <1>1, <1>2, <3>1
    <3> QED
      BY <3>2
  <2>2. CASE k \in L
    <3>1. PICK i \in 1 .. Len(t) : t[i] = erase(k)
      BY <2>2 DEF Erases
    <3>2. Len(s) + i \in 1 .. Len(s \o t) /\ (s \o t)[Len(s) + i] = erase(k)
      BY <1>1, <1>2, <3>1
    <3> QED
      BY <3>2
  <2> QED
    BY <2>1, <2>2
<1> QED
  BY <1>2, <1>3, <1>4 DEF Erases

\* fjall_clear_node erases every key that is there.
LEMMA ClearErases ==
  ASSUME NEW n \in Names
  PROVE  Erases(Clear(n), {k \in Keys : values[n][k] # Nil})
<1> DEFINE three == << erase(<<"object">>), erase(<<"type">>), erase(<<"counter">>) >>
           items == Present(n, Items)
           entries == Present(n, Entries)
           named == {<<"object">>, <<"type">>, <<"counter">>}
<1>1. Erases(three, named)
  <2>1. \A k \in named : k \in Keys /\ erase(k) \in Write
    BY WriteParts DEF Keys, Cells, erase
  <2>2. /\ three \in Seq(Write) /\ Len(three) = 3
        /\ three[1] = erase(<<"object">>)
        /\ three[2] = erase(<<"type">>)
        /\ three[3] = erase(<<"counter">>)
    BY <2>1
  <2>3. 1 .. Len(three) = {1, 2, 3}
    BY <2>2
  <2> HIDE DEF three
  <2> QED
    BY <2>1, <2>2, <2>3 DEF Erases
<1>2. /\ items \in SUBSET Items /\ entries \in SUBSET Entries
      /\ items \in SUBSET Keys /\ entries \in SUBSET Keys
  BY DEF Present, Keys, Cells
<1>3. IsFiniteSet(items) /\ IsFiniteSet(entries)
  BY <1>2, KeysFinite, FS_Subset
<1>4. /\ Erases(SetToSeq({erase(k) : k \in items}), items)
      /\ Erases(SetToSeq({erase(k) : k \in entries}), entries)
  BY <1>2, <1>3, ErasesSet
<1>5. Erases(Clear(n), named \cup items \cup entries)
  <2> DEFINE si == SetToSeq({erase(k) : k \in items})
             se == SetToSeq({erase(k) : k \in entries})
  <2>1. Clear(n) = three \o si \o se
    BY DEF Clear
  <2> HIDE DEF three, si, se, items, entries, named
  <2>2. Erases(three \o si, named \cup items)
    BY <1>1, <1>4, ErasesBoth DEF si
  <2> QED
    BY <2>1, <2>2, <1>4, ErasesBoth DEF se
<1>6. {k \in Keys : values[n][k] # Nil} \subseteq named \cup items \cup entries
  BY DEF Present, Keys, Cells
<1> QED
  BY <1>5, <1>6 DEF Erases

-----------------------------------------------------------------------------
(* The inductive invariant                                                 *)

\* The type, the counter and the cells of a node hold what is put there.
KeysInv ==
  \A n \in Names :
    /\ \A k \in Cells : values[n][k] \in Values \cup {Nil}
    /\ Type(n) \in {List, Map, Nil}
    /\ values[n][<<"counter">>] \in 0 .. MaxIndex \cup {Nil}

\* push, with i as its index: the type is set, then the counter, then the entry.
PushInv(c, i) ==
  LET n == c.name
      last == put(Item(i), c.value)
  IN  /\ c.cell = Item(i) /\ c.value \in Values
      /\ \/ /\ Type(n) = Nil /\ NextIdx(n) = i
            /\ c.todo = << put(<<"type">>, List), put(<<"counter">>, i + 1), last >>
         \/ /\ Type(n) = List /\ NextIdx(n) = i
            /\ c.todo = << put(<<"counter">>, i + 1), last >>
         \/ /\ Type(n) = List /\ NextIdx(n) = i + 1
            /\ c.todo \in {<< last >>, <<>>}

\* insert, update and update_key: the type of a map is set before its entry.
StoreInv(c) ==
  LET n == c.name
      last == put(c.cell, c.value)
  IN  /\ c.cell \in Cells \ Items /\ c.value \in Values
      /\ \/ /\ Type(n) = Nil /\ c.cell \in Entries
            /\ c.todo = << put(<<"type">>, Map), last >>
         \/ /\ c.cell \in Entries /\ n \notin torn => Type(n) = Map
            /\ c.todo = << last >>
         \/ c.todo = <<>>

\* The write after a clearing: the object, or the type of an empty list or map.
Fresh(c) ==
  \/ c.cell = <<"object">> /\ c.value \in Values /\ c.todo[Len(c.todo)] = put(c.cell, c.value)
  \/ /\ c.cell = Nil /\ c.value = Nil
     /\ c.todo[Len(c.todo)] \in {put(<<"type">>, List), put(<<"type">>, Map)}

\* add, add_list and add_map: what is still there has still to be erased.
ClearInv(c) ==
  /\ c.name \in torn
  /\ \/ /\ c.todo = <<>>
        /\ \A k \in Items \cup Entries : values[c.name][k] = Nil
     \/ /\ c.todo # <<>>
        /\ Fresh(c)
        /\ \A i \in 1 .. Len(c.todo) - 1 : \E k \in Keys : c.todo[i] = erase(k)
        /\ \A k \in Keys : values[c.name][k] # Nil =>
             \E i \in 1 .. Len(c.todo) - 1 : c.todo[i] = erase(k)

CallsInv ==
  \A t \in Threads :
    /\ Running(t, "push") => \E i \in Indices : PushInv(call[t], i)
    /\ Running(t, "store") => StoreInv(call[t])
    /\ Running(t, "clear") => ClearInv(call[t])

\* A node of one shape.
Shape(n) ==
  /\ \A i \in Indices : values[n][Item(i)] # Nil => Type(n) = List /\ i < NextIdx(n)
  /\ \A k \in MapKeys : values[n][Entry(k)] # Nil => Type(n) = Map

ShapeInv == \A n \in Names \ torn : Shape(n)

\* What is promised is there, and nothing is promised of a cell that a call in progress
\* is about to write, to erase or to remove.  Indices given are below the counter.
PromiseInv ==
  /\ \A n \in Names, c \in Cells : promised[n][c] # Nil => values[n][c] = promised[n][c]
  /\ \A n \in Names, i \in Indices :
       promised[n][Item(i)] # Nil \/ i \in given[n] => i < NextIdx(n)
  /\ \A t \in Threads :
       LET c == call[t]
       IN  /\ Running(t, "remove") => promised[c.name][c.cell] = Nil
           /\ (Running(t, "push") \/ Running(t, "store")) /\ c.todo # <<>> =>
                promised[c.name][c.cell] = Nil
           /\ Running(t, "push") => c.cell[2] \notin given[c.name]
           /\ Running(t, "clear") /\ c.todo # <<>> =>
                given[c.name] = {} /\ \A k \in Cells : promised[c.name][k] = Nil

Inv == TypeOK /\ KeysInv /\ CallsInv /\ ShapeInv /\ PromiseInv

-----------------------------------------------------------------------------
(* Calls that start                                                        *)

\* OneShape is the shape of each node.
LEMMA ShapeIsOneShape == ShapeInv <=> OneShape
BY DEF ShapeInv, Shape, OneShape, Present, Items, Entries

\* Only the holder of the lock is in a locked call.
LEMMA OthersUnlocked ==
  ASSUME TypeOK, NEW t \in Threads, lock \in {t, Nil}, NEW u \in Threads \ {t}
  PROVE  ~Running(u, "push") /\ ~Running(u, "store") /\ ~Running(u, "clear")
BY ConstantsAssumption DEF TypeOK, Running

\* Once a call c has started, its thread has the lock, and nobody else is in a locked call.
Begun(t, c) ==
  /\ call' \in [Threads -> Call \cup {Nil}]
  /\ \A u \in Threads : lock' = u <=> call'[u] # Nil /\ call'[u].op # "remove"
  /\ call'[t] = c /\ c # Nil
  /\ \A u \in Threads \ {t} : call'[u] = call[u]
  /\ \A u \in Threads \ {t} :
       ~Running(u, "push") /\ ~Running(u, "store") /\ ~Running(u, "clear")
  /\ values' = values

LEMMA StartParts ==
  ASSUME TypeOK, NEW t \in Threads, NEW op \in {"clear", "push", "store"}, NEW n \in Names,
         NEW cell \in Cells \cup {Nil}, NEW value \in Values \cup {Nil},
         NEW todo \in Seq(Write), Start(t, op, n, cell, value, todo)
  PROVE  Begun(t, [op |-> op, name |-> n, cell |-> cell, value |-> value, todo |-> todo])
<1> DEFINE c == [op |-> op, name |-> n, cell |-> cell, value |-> value, todo |-> todo]
<1>1. c \in Call
  BY DEF Call
<1>2. call'[t] = c /\ \A u \in Threads \ {t} : call'[u] = call[u]
  BY DEF TypeOK, Start
<1>3. call' \in [Threads -> Call \cup {Nil}]
  BY <1>1 DEF TypeOK, Start
<1>4. c # Nil /\ c.op # "remove"
  BY <1>1, ConstantsAssumption
<1>5. \A u \in Threads : lock' = u <=> call'[u] # Nil /\ call'[u].op # "remove"
  BY <1>2, <1>4, ConstantsAssumption DEF TypeOK, Start
<1>6. \A u \in Threads \ {t} :
        ~Running(u, "push") /\ ~Running(u, "store") /\ ~Running(u, "clear")
  BY OthersUnlocked DEF Start
<1> QED
  BY <1>2, <1>3, <1>4, <1>5, <1>6 DEF Start, Begun

\* add, add_list and add_map keep the invariant: what is there is to be erased, and
\* nothing of it is promised any more.
LEMMA RenewKeeps ==
  ASSUME Inv, NEW t \in Threads, NEW n \in Names,
         NEW cell, NEW value, NEW last,
         \/ cell = <<"object">> /\ value \in Values /\ last = put(cell, value)
         \/ /\ cell = Nil /\ value = Nil
            /\ last \in {put(<<"type">>, List), put(<<"type">>, Map)},
         Renew(t, n, cell, value, last)
  PROVE  Inv'
<1> PICK clear : clear = Clear(n)
  OBVIOUS
<1> PICK todo : todo = clear \o << last >>
  OBVIOUS
<1>1. Erases(clear, {k \in Keys : values[n][k] # Nil})
  BY ClearErases
<1>2. last \in Write
  BY WriteParts DEF Keys, Cells
<1>3. /\ todo \in Seq(Write) /\ Len(clear) \in Nat /\ Len(todo) = Len(clear) + 1
      /\ todo[Len(todo)] = last
      /\ \A i \in 1 .. Len(todo) - 1 : todo[i] = clear[i]
      /\ todo # <<>>
  <2>1. clear \in Seq(Write) /\ << last >> \in Seq(Write) /\ Len(<< last >>) = 1
    BY <1>1, <1>2 DEF Erases
  <2> QED
    BY <2>1, ConcatProperties
<1>4. /\ \A i \in 1 .. Len(todo) - 1 : \E k \in Keys : todo[i] = erase(k)
      /\ \A k \in Keys : values[n][k] # Nil => \E i \in 1 .. Len(todo) - 1 : todo[i] = erase(k)
  BY SMTT(20), <1>1, <1>3 DEF Erases
<1>5. Start(t, "clear", n, cell, value, todo)
  BY DEF Renew
<1>6. TypeOK /\ cell \in Cells \cup {Nil} /\ value \in Values \cup {Nil}
  BY DEF Inv, Cells
<1> DEFINE c == [op |-> "clear", name |-> n, cell |-> cell, value |-> value, todo |-> todo]
<1>7. Begun(t, c)
  BY <1>3, <1>5, <1>6, StartParts
<1>8. /\ torn' = torn \cup {n} /\ given' = [given EXCEPT ![n] = {}]
      /\ promised' = [promised EXCEPT ![n] = [k \in Cells |-> Nil]]
  BY DEF Renew, Replacing
<1>9. TypeOK'
  BY <1>6, <1>7, <1>8 DEF Begun, TypeOK
<1>10. KeysInv'
  BY <1>7 DEF Begun, Inv, KeysInv, Type
<1>11. CallsInv'
  <2>1. ClearInv(call[t])'
    BY <1>3, <1>4, <1>7, <1>8 DEF Begun, ClearInv, Fresh
  <2>2. ~Running(t, "push")' /\ ~Running(t, "store")'
    BY <1>7 DEF Begun, Running
  <2>3. \A u \in Threads \ {t} :
          ~Running(u, "push")' /\ ~Running(u, "store")' /\ ~Running(u, "clear")'
    BY <1>7 DEF Begun, Running
  <2> QED
    BY <2>1, <2>2, <2>3 DEF CallsInv
<1>12. ShapeInv'
  BY <1>7, <1>8 DEF Begun, Inv, ShapeInv, Shape, Type, NextIdx
<1>13. PromiseInv'
  <2>1. \A m \in Names, k \in Cells : promised'[m][k] # Nil =>
          m # n /\ promised'[m][k] = promised[m][k]
    BY <1>6, <1>8 DEF TypeOK
  <2>2. \A m \in Names, i \in Indices : i \in given'[m] => m # n /\ i \in given[m]
    BY <1>6, <1>8 DEF TypeOK
  <2>3. \A i \in Indices : Item(i) \in Cells
    BY DEF Cells, Items
  <2>4. \A m \in Names, k \in Cells : promised'[m][k] # Nil => values'[m][k] = promised'[m][k]
    BY SMTT(20), <1>7, <2>1 DEF Begun, Inv, PromiseInv
  <2>5. \A m \in Names, i \in Indices :
          promised'[m][Item(i)] # Nil \/ i \in given'[m] => i < NextIdx(m)'
    BY <1>7, <2>1, <2>2, <2>3 DEF Begun, Inv, PromiseInv, NextIdx
  <2>6. \A u \in Threads \ {t} :
          Running(u, "remove")' => promised'[call'[u].name][call'[u].cell] = Nil
    <3> SUFFICES ASSUME NEW u \in Threads \ {t}, Running(u, "remove")'
                 PROVE  promised'[call'[u].name][call'[u].cell] = Nil
      OBVIOUS
    <3>1. call'[u] = call[u] /\ Running(u, "remove")
      BY <1>7 DEF Begun, Running
    <3>2. call[u].name \in Names /\ call[u].cell \in Cells
      BY <1>6, <3>1 DEF TypeOK, Call, Running
    <3>3. promised[call[u].name][call[u].cell] = Nil
      BY <3>1 DEF Inv, PromiseInv
    <3> QED
      BY <2>1, <3>1, <3>2, <3>3
  <2>7. /\ given'[n] = {} /\ \A k \in Cells : promised'[n][k] = Nil
    BY <1>6, <1>8 DEF TypeOK
  <2>8. /\ ~Running(t, "push")' /\ ~Running(t, "store")' /\ ~Running(t, "remove")'
        /\ call'[t].name = n
    BY <1>7 DEF Begun, Running
  <2>9. \A u \in Threads \ {t} :
          ~Running(u, "push")' /\ ~Running(u, "store")' /\ ~Running(u, "clear")'
    BY <1>7 DEF Begun, Running
  <2> QED
    BY <2>4, <2>5, <2>6, <2>7, <2>8, <2>9 DEF PromiseInv
<1> QED
  BY <1>9, <1>10, <1>11, <1>12, <1>13 DEF Inv

\* push, insert, update and update_key keep it, if what they are to write is in order
\* and nothing is promised of the cell they write.
LEMMA StoreStartKeeps ==
  ASSUME Inv, NEW t \in Threads, NEW op \in {"push", "store"}, NEW n \in Names,
         NEW cell \in Cells, NEW value \in Values, NEW todo \in Seq(Write),
         Start(t, op, n, cell, value, todo),
         op = "push" => \E i \in Indices \ given[n] :
           PushInv([op |-> op, name |-> n, cell |-> cell, value |-> value, todo |-> todo], i),
         op = "store" =>
           StoreInv([op |-> op, name |-> n, cell |-> cell, value |-> value, todo |-> todo]),
         promised' \in [Names -> [Cells -> Values \cup {Nil}]],
         promised'[n][cell] = Nil,
         \A m \in Names, k \in Cells : promised'[m][k] # Nil => promised'[m][k] = promised[m][k],
         UNCHANGED <<torn, given>>
  PROVE  Inv'
<1> DEFINE c == [op |-> op, name |-> n, cell |-> cell, value |-> value, todo |-> todo]
<1>1. TypeOK
  BY DEF Inv
<1>2. Begun(t, c)
  BY <1>1, StartParts
<1>3. TypeOK'
  BY <1>1, <1>2 DEF TypeOK, Begun
<1>4. KeysInv'
  BY <1>2 DEF Begun, Inv, KeysInv, Type
<1>5. \A u \in Threads \ {t} :
        ~Running(u, "push")' /\ ~Running(u, "store")' /\ ~Running(u, "clear")'
  BY <1>2 DEF Begun, Running
<1>6. ~Running(t, "clear")' /\ ~Running(t, "remove")' /\ call'[t] = c
  BY <1>2 DEF Begun, Running
<1>7. CallsInv'
  <2>1. Running(t, "push")' => \E i \in Indices : PushInv(call[t], i)'
    BY <1>2 DEF Begun, Running, PushInv, Type, NextIdx
  <2>2. Running(t, "store")' => StoreInv(call[t])'
    BY <1>2 DEF Begun, Running, StoreInv, Type
  <2> QED
    BY <1>5, <1>6, <2>1, <2>2 DEF CallsInv
<1>8. ShapeInv'
  BY <1>2 DEF Begun, Inv, ShapeInv, Shape, Type, NextIdx
<1>9. PromiseInv'
  <2>1. \A i \in Indices : Item(i) \in Cells
    BY DEF Cells, Items
  <2>2. \A m \in Names, k \in Cells : promised'[m][k] # Nil => values'[m][k] = promised'[m][k]
    BY <1>2 DEF Begun, Inv, PromiseInv
  <2>3. \A m \in Names, i \in Indices :
          promised'[m][Item(i)] # Nil \/ i \in given'[m] => i < NextIdx(m)'
    BY <1>2, <2>1 DEF Begun, Inv, PromiseInv, NextIdx
  <2>4. ASSUME NEW u \in Threads \ {t}, Running(u, "remove")'
        PROVE  promised'[call'[u].name][call'[u].cell] = Nil
    <3>1. call'[u] = call[u] /\ Running(u, "remove")
      BY <1>2, <2>4 DEF Begun, Running
    <3>2. call[u].name \in Names /\ call[u].cell \in Cells
      BY <1>1, <3>1 DEF TypeOK, Call, Running
    <3> QED
      BY <3>1, <3>2 DEF Inv, PromiseInv
  <2>5. Running(t, "push")' => call'[t].cell[2] \notin given'[n]
    <3> SUFFICES ASSUME op = "push" PROVE cell[2] \notin given[n]
      BY <1>6 DEF Running
    <3>1. PICK i \in Indices \ given[n] : cell = Item(i)
      BY DEF PushInv
    <3> QED
      BY <3>1, KeysDiffer
  <2>6. call'[t].name = n /\ call'[t].cell = cell
    BY <1>6
  <2> QED
    BY <1>5, <1>6, <2>2, <2>3, <2>4, <2>5, <2>6 DEF PromiseInv
<1> QED
  BY <1>3, <1>4, <1>7, <1>8, <1>9 DEF Inv

\* push: its index is above all that is promised or given.
LEMMA PushKeeps ==
  ASSUME Inv, NEW t \in Threads, NEW n \in Names, NEW v \in Values, Push(t, n, v)
  PROVE  Inv'
<1> PICK i : i = NextIdx(n)
  OBVIOUS
<1> DEFINE last == put(Item(i), v)
           counts == << put(<<"counter">>, i + 1), last >>
           sets == << put(<<"type">>, List), put(<<"counter">>, i + 1), last >>
<1>1. /\ i < MaxIndex /\ Type(n) \in {List, Nil}
      /\ i \in Indices /\ i + 1 \in 0 .. MaxIndex
  BY ConstantsAssumption DEF Inv, KeysInv, NextIdx, Indices, Push
<1>2. Item(i) \in Cells
  BY <1>1 DEF Cells, Items
<1>3. /\ put(<<"type">>, List) \in Write
      /\ put(<<"counter">>, i + 1) \in Write
      /\ last \in Write
  BY <1>1, <1>2, WriteParts DEF Keys
<1>4. i \notin given[n] /\ promised[n][Item(i)] = Nil
  BY <1>1 DEF Inv, PromiseInv, NextIdx
<1>5. /\ UNCHANGED <<torn, given>>
      /\ promised' = promised /\ promised \in [Names -> [Cells -> Values \cup {Nil}]]
  BY DEF Push, Inv, TypeOK
<1>6. CASE Type(n) = Nil
  <2>1. Start(t, "push", n, Item(i), v, sets)
    <3>1. SetType(n, List) \o counts = sets
      BY <1>6, ShortTodos, Zenon DEF SetType
    <3> QED
      BY <3>1 DEF Push
  <2>2. sets \in Seq(Write)
    BY <1>3
  <2>3. PushInv([op |-> "push", name |-> n, cell |-> Item(i), value |-> v, todo |-> sets], i)
    BY <1>6 DEF PushInv
  <2> QED
    BY <1>1, <1>2, <1>4, <1>5, <2>1, <2>2, <2>3, StoreStartKeeps
<1>7. CASE Type(n) = List
  <2>1. Start(t, "push", n, Item(i), v, counts)
    <3>1. SetType(n, List) \o counts = counts
      <4>1. Type(n) # Nil
        BY <1>7, ConstantsAssumption
      <4> QED
        BY <4>1, ShortTodos, Zenon DEF SetType
    <3> QED
      BY <3>1 DEF Push
  <2>2. counts \in Seq(Write)
    BY <1>3
  <2>3. PushInv([op |-> "push", name |-> n, cell |-> Item(i), value |-> v, todo |-> counts], i)
    BY <1>7 DEF PushInv
  <2> QED
    BY <1>1, <1>2, <1>4, <1>5, <2>1, <2>2, <2>3, StoreStartKeeps
<1> QED
  BY <1>1, <1>6, <1>7

\* What was promised of cells a call means to replace is void, the rest stays.
LEMMA ReplacingParts ==
  ASSUME promised \in [Names -> [Cells -> Values \cup {Nil}]], NEW n \in Names, NEW C,
         Replacing(n, C)
  PROVE  /\ promised' \in [Names -> [Cells -> Values \cup {Nil}]]
         /\ \A c \in Cells \cap C : promised'[n][c] = Nil
         /\ \A m \in Names, k \in Cells :
              promised'[m][k] # Nil => promised'[m][k] = promised[m][k]
BY DEF Replacing

\* insert
LEMMA InsertKeeps ==
  ASSUME Inv, NEW t \in Threads, NEW n \in Names, NEW k \in MapKeys, NEW v \in Values,
         Insert(t, n, k, v)
  PROVE  Inv'
<1> DEFINE last == put(Entry(k), v)
           sets == << put(<<"type">>, Map), last >>
<1>1. Entry(k) \in Entries /\ Entry(k) \in Cells \ Items
  BY KeysDiffer DEF Cells, Items, Entries
<1>2. put(<<"type">>, Map) \in Write /\ last \in Write
  BY <1>1, WriteParts DEF Keys
<1>3. /\ promised' \in [Names -> [Cells -> Values \cup {Nil}]]
      /\ promised'[n][Entry(k)] = Nil
      /\ \A m \in Names, c \in Cells :
           promised'[m][c] # Nil => promised'[m][c] = promised[m][c]
  BY <1>1, ReplacingParts DEF Insert, Inv, TypeOK
<1>4. UNCHANGED <<torn, given>> /\ Type(n) \in {Map, Nil}
  BY DEF Insert, Inv, KeysInv
<1>5. CASE Type(n) = Nil
  <2>1. Start(t, "store", n, Entry(k), v, sets)
    <3>1. SetType(n, Map) \o << last >> = sets
      BY <1>5, ShortTodos, Zenon DEF SetType
    <3> QED
      BY <3>1 DEF Insert
  <2>2. sets \in Seq(Write)
    BY <1>2
  <2>3. StoreInv([op |-> "store", name |-> n, cell |-> Entry(k), value |-> v, todo |-> sets])
    BY <1>1, <1>5 DEF StoreInv
  <2> QED
    BY <1>1, <1>3, <1>4, <2>1, <2>2, <2>3, StoreStartKeeps
<1>6. CASE Type(n) = Map
  <2>1. Start(t, "store", n, Entry(k), v, << last >>)
    <3>1. Type(n) # Nil
      BY <1>6, ConstantsAssumption
    <3>2. SetType(n, Map) \o << last >> = << last >>
      BY <3>1, ShortTodos, Zenon DEF SetType
    <3> QED
      BY <3>2 DEF Insert
  <2>2. << last >> \in Seq(Write)
    BY <1>2
  <2>3. StoreInv([op |-> "store", name |-> n, cell |-> Entry(k), value |-> v,
                  todo |-> << last >>])
    BY <1>1, <1>6 DEF StoreInv
  <2> QED
    BY <1>1, <1>3, <1>4, <2>1, <2>2, <2>3, StoreStartKeeps
<1> QED
  BY <1>4, <1>5, <1>6

\* update and update_key: an entry that is there is in a map already.
LEMMA UpdateKeeps ==
  ASSUME Inv, NEW t \in Threads, NEW n \in Names, NEW cell \in Cells \ Items, NEW v \in Values,
         Update(t, n, cell, v)
  PROVE  Inv'
<1> DEFINE todo == << put(cell, v) >>
<1>1. todo \in Seq(Write)
  BY WriteParts DEF Keys
<1>2. cell \in Entries /\ n \notin torn => Type(n) = Map
  BY DEF Update, Inv, ShapeInv, Shape, Entries
<1>3. StoreInv([op |-> "store", name |-> n, cell |-> cell, value |-> v, todo |-> todo])
  BY <1>2 DEF StoreInv
<1>4. /\ promised' \in [Names -> [Cells -> Values \cup {Nil}]]
      /\ promised'[n][cell] = Nil
      /\ \A m \in Names, c \in Cells :
           promised'[m][c] # Nil => promised'[m][c] = promised[m][c]
  BY ReplacingParts DEF Update, Inv, TypeOK
<1> QED
  BY <1>1, <1>3, <1>4, StoreStartKeeps DEF Update

-----------------------------------------------------------------------------
(* Calls that end, and removals                                            *)

\* A call that is over, or many, with the values as they are: others go on.
LEMMA EndKeeps ==
  ASSUME Inv, lock' \in {lock, Nil},
         \A u \in Threads : call'[u] \in {call[u], Nil},
         \A u \in Threads : lock' = u <=> call'[u] # Nil /\ call'[u].op # "remove",
         call' \in [Threads -> Call \cup {Nil}],
         UNCHANGED <<values, promised>>,
         torn' \subseteq torn,
         \A n \in torn \ torn' : Shape(n),
         \A u \in Threads : Running(u, "clear")' \/ Running(u, "store")' => UNCHANGED torn,
         given' \in [Names -> SUBSET Indices],
         \A n \in Names : \A i \in given'[n] : i \in given[n] \/ i < NextIdx(n),
         \A u \in Threads : Running(u, "clear")' \/ Running(u, "push")' => UNCHANGED given
  PROVE  Inv'
<1>1. TypeOK'
  BY DEF Inv, TypeOK
<1>2. KeysInv'
  BY DEF Inv, KeysInv, Type
<1>3. \A u \in Threads : call'[u] # Nil => call'[u] = call[u]
  OBVIOUS
<1>4. CallsInv'
  BY SMTT(20), <1>3 DEF Inv, CallsInv, Running, PushInv, StoreInv, ClearInv, Fresh, Type, NextIdx
<1>5. ShapeInv'
  BY DEF Inv, TypeOK, ShapeInv, Shape, Type, NextIdx
<1>6. PromiseInv'
  BY SMTT(20), <1>3 DEF Inv, PromiseInv, Running, NextIdx
<1> QED
  BY <1>1, <1>2, <1>4, <1>5, <1>6 DEF Inv

\* A call that fails, and a crash, leave what is written.
LEMMA FailKeeps == ASSUME Inv, NEW t \in Threads, Fail(t) PROVE Inv'
<1>1. /\ call' = [call EXCEPT ![t] = Nil] /\ lock = t /\ lock' = Nil
      /\ UNCHANGED <<values, torn, given, promised>>
  BY DEF Fail, Release, Locked
<1>2. \A u \in Threads : lock' = u <=> call'[u] # Nil /\ call'[u].op # "remove"
  BY <1>1, ConstantsAssumption DEF Inv, TypeOK
<1> QED
  BY <1>1, <1>2, EndKeeps DEF Inv, TypeOK

LEMMA CrashKeeps == ASSUME Inv, Crash PROVE Inv'
<1>1. \A u \in Threads : lock' = u <=> call'[u] # Nil /\ call'[u].op # "remove"
  BY ConstantsAssumption DEF Crash
<1> QED
  BY <1>1, EndKeeps DEF Inv, TypeOK, Crash

\* A call that returns: a clearing has left one thing, a push has set the counter.
LEMMA ReturnKeeps == ASSUME Inv, NEW t \in Threads, Return(t) PROVE Inv'
<1> DEFINE c == call[t]
<1>1. /\ call' = [call EXCEPT ![t] = Nil] /\ lock = t /\ lock' = Nil
      /\ UNCHANGED <<values, promised>>
      /\ c.todo = <<>>
      /\ torn' = IF c.op = "clear" THEN torn \ {c.name} ELSE torn
      /\ given' = IF c.op = "push" THEN [given EXCEPT ![c.name] = @ \cup {c.cell[2]}] ELSE given
  BY DEF Return, Release, Locked
<1>2. \A u \in Threads : lock' = u <=> call'[u] # Nil /\ call'[u].op # "remove"
  BY <1>1, ConstantsAssumption DEF Inv, TypeOK
<1>3. c # Nil /\ c.op # "remove" /\ c \in Call
  BY <1>1 DEF Inv, TypeOK
<1>4. \A u \in Threads : ~Running(u, "push")' /\ ~Running(u, "store")' /\ ~Running(u, "clear")'
  BY <1>2, <1>1, ConstantsAssumption DEF Running
<1>5. \A n \in torn \ torn' : Shape(n)
  <2> SUFFICES ASSUME c.op = "clear" PROVE Shape(c.name)
    BY <1>1
  <2>1. \A k \in Items \cup Entries : values[c.name][k] = Nil
    BY <1>1, <1>3 DEF Inv, CallsInv, Running, ClearInv
  <2> QED
    BY <2>1 DEF Shape, Items, Entries
<1>6. c.op = "push" => \E i \in Indices : c.cell[2] = i /\ NextIdx(c.name) = i + 1
  <2> SUFFICES ASSUME c.op = "push"
               PROVE  \E i \in Indices : c.cell[2] = i /\ NextIdx(c.name) = i + 1
    OBVIOUS
  <2>1. PICK i \in Indices : PushInv(c, i)
    BY <1>3 DEF Inv, CallsInv, Running
  <2>2. c.cell = Item(i) /\ NextIdx(c.name) = i + 1
    BY <1>1, <2>1 DEF PushInv
  <2> QED
    BY <2>2, KeysDiffer
<1>7. /\ given' \in [Names -> SUBSET Indices]
      /\ \A n \in Names : \A i \in given'[n] : i \in given[n] \/ i < NextIdx(n)
  <2>1. CASE c.op = "push"
    <3>1. c.cell[2] \in Indices /\ c.cell[2] < NextIdx(c.name)
      BY <1>6, <2>1 DEF Indices
    <3> QED
      BY <1>1, <2>1, <3>1 DEF Inv, TypeOK
  <2>2. CASE c.op # "push"
    BY <1>1, <2>2 DEF Inv, TypeOK
  <2> QED
    BY <2>1, <2>2
<1>8. call' \in [Threads -> Call \cup {Nil}] /\ \A u \in Threads : call'[u] \in {call[u], Nil}
  BY <1>1 DEF Inv, TypeOK
<1> QED
  BY <1>1, <1>2, <1>4, <1>5, <1>7, <1>8, EndKeeps

\* The reading of a removal: nothing is promised of its cell from now on.
LEMMA RemoveReadKeeps ==
  ASSUME Inv, NEW t \in Threads, NEW n \in Names, NEW cell \in Cells, RemoveRead(t, n, cell)
  PROVE  Inv'
<1> PICK c : c = [op |-> "remove", name |-> n, cell |-> cell, value |-> values[n][cell]]
  OBVIOUS
<1>1. c \in Call /\ c # Nil
  BY ConstantsAssumption DEF Call, Inv, KeysInv, RemoveRead
<1>2. /\ call[t] = Nil /\ call' = [call EXCEPT ![t] = c]
      /\ UNCHANGED <<values, lock, torn, given>>
      /\ Replacing(n, {cell})
  BY DEF RemoveRead, Idle
<1>3. /\ promised' \in [Names -> [Cells -> Values \cup {Nil}]]
      /\ promised'[n][cell] = Nil
      /\ \A m \in Names, k \in Cells :
           promised'[m][k] # Nil => promised'[m][k] = promised[m][k]
  BY <1>2, ReplacingParts DEF Inv, TypeOK
<1>4. call'[t] = c /\ c.op = "remove" /\ \A u \in Threads \ {t} : call'[u] = call[u]
  BY <1>2 DEF Inv, TypeOK
<1>5. TypeOK'
  BY <1>1, <1>2, <1>3, <1>4 DEF Inv, TypeOK
<1>6. KeysInv'
  BY <1>2 DEF Inv, KeysInv, Type
<1>7. CallsInv'
  <2>1. \A d, i : PushInv(d, i)' <=> PushInv(d, i)
    BY <1>2 DEF PushInv, Type, NextIdx
  <2>2. \A d : StoreInv(d)' <=> StoreInv(d)
    BY <1>2 DEF StoreInv, Type
  <2>3. \A d : ClearInv(d)' <=> ClearInv(d)
    BY <1>2 DEF ClearInv, Fresh
  <2>4. \A u \in Threads : call'[u] = call[u] \/ (call'[u] # Nil /\ call'[u].op = "remove")
    BY <1>1, <1>4
  <2> QED
    BY <2>1, <2>2, <2>3, <2>4 DEF Inv, CallsInv, Running
<1>8. ShapeInv'
  BY <1>2 DEF Inv, ShapeInv, Shape, Type, NextIdx
<1>9. PromiseInv'
  <2>1. \A i \in Indices : Item(i) \in Cells
    BY DEF Cells, Items
  <2>2. \A m \in Names, k \in Cells : promised'[m][k] # Nil => values'[m][k] = promised'[m][k]
    BY <1>2, <1>3 DEF Inv, PromiseInv
  <2>3. \A m \in Names, i \in Indices :
          promised'[m][Item(i)] # Nil \/ i \in given'[m] => i < NextIdx(m)'
    BY <1>2, <1>3, <2>1 DEF Inv, PromiseInv, NextIdx
  <2>4. ASSUME NEW u \in Threads, Running(u, "remove")'
        PROVE  promised'[call'[u].name][call'[u].cell] = Nil
    <3>1. CASE u = t
      BY <1>1, <1>3, <1>4, <3>1
    <3>2. CASE u # t
      <4>1. call'[u] = call[u] /\ Running(u, "remove")
        BY <1>4, <2>4, <3>2 DEF Running
      <4>2. call[u].name \in Names /\ call[u].cell \in Cells
        BY <4>1 DEF Inv, TypeOK, Call, Running
      <4> QED
        BY <1>3, <4>1, <4>2 DEF Inv, PromiseInv
    <3> QED
      BY <3>1, <3>2
  <2>5. ASSUME NEW u \in Threads, Running(u, "push")' \/ Running(u, "store")',
               call'[u].todo # <<>>
        PROVE  promised'[call'[u].name][call'[u].cell] = Nil
    <3>1. call'[u] = call[u] /\ (Running(u, "push") \/ Running(u, "store"))
      BY <1>4, <2>5 DEF Running
    <3>2. call[u].name \in Names /\ call[u].cell \in Cells
      BY <3>1 DEF Inv, TypeOK, Call, Running, CallsInv, PushInv, StoreInv, Cells, Items
    <3> QED
      BY <1>3, <2>5, <3>1, <3>2 DEF Inv, PromiseInv
  <2>6. ASSUME NEW u \in Threads
        PROVE  /\ Running(u, "push")' => call'[u].cell[2] \notin given'[call'[u].name]
               /\ Running(u, "clear")' /\ call'[u].todo # <<>> =>
                    given'[call'[u].name] = {} /\ \A k \in Cells : promised'[call'[u].name][k] = Nil
    <3> SUFFICES ASSUME Running(u, "push")' \/ Running(u, "clear")'
                 PROVE  /\ Running(u, "push")' => call'[u].cell[2] \notin given'[call'[u].name]
                        /\ Running(u, "clear")' /\ call'[u].todo # <<>> =>
                             /\ given'[call'[u].name] = {}
                             /\ \A k \in Cells : promised'[call'[u].name][k] = Nil
      OBVIOUS
    <3>1. call'[u] = call[u] /\ (Running(u, "push")' => Running(u, "push"))
            /\ (Running(u, "clear")' => Running(u, "clear"))
      BY <1>4 DEF Running
    <3>2. call[u].name \in Names
      BY <3>1 DEF Inv, TypeOK, Call, Running
    <3>3. Running(u, "push")' => call[u].cell[2] \notin given[call[u].name]
      BY <3>1 DEF Inv, PromiseInv
    <3>4. Running(u, "clear")' /\ call[u].todo # <<>> =>
            given[call[u].name] = {} /\ \A k \in Cells : promised[call[u].name][k] = Nil
      BY <3>1 DEF Inv, PromiseInv
    <3> QED
      BY <1>2, <1>3, <3>1, <3>2, <3>3, <3>4
  <2> QED
    BY <2>2, <2>3, <2>4, <2>5, <2>6 DEF PromiseInv
<1> QED
  BY <1>5, <1>6, <1>7, <1>8, <1>9 DEF Inv

\* The removal itself: the cell goes, of which nothing is promised.
LEMMA RemoveKeyKeeps == ASSUME Inv, NEW t \in Threads, RemoveKey(t) PROVE Inv'
<1> PICK c : c = call[t]
  OBVIOUS
<1>1. /\ c # Nil /\ c.op = "remove" /\ c \in Call
      /\ c.name \in Names /\ c.cell \in Cells /\ c.cell \in Keys
  BY DEF Inv, TypeOK, RemoveKey, Running, Call, Keys
<1>2. /\ \A m \in Names, k \in Keys :
           values'[m][k] = IF m = c.name /\ k = c.cell THEN Nil ELSE values[m][k]
      /\ values' \in [Names -> [Keys -> Values \cup 0 .. MaxIndex \cup {List, Map, Nil}]]
  BY <1>1 DEF Inv, TypeOK, RemoveKey
<1>3. /\ call'[t] = Nil /\ \A u \in Threads \ {t} : call'[u] = call[u]
      /\ call' \in [Threads -> Call \cup {Nil}]
      /\ UNCHANGED <<lock, torn, given, promised>>
  BY DEF Inv, TypeOK, RemoveKey
<1>4. /\ <<"type">> \in Keys /\ <<"counter">> \in Keys
      /\ \A i \in Indices : Item(i) \in Cells /\ Item(i) \in Keys
      /\ \A k \in MapKeys : Entry(k) \in Keys
      /\ c.cell # <<"type">> /\ c.cell # <<"counter">>
  BY <1>1, KeysDiffer DEF Keys, Cells, Items, Entries
<1>5. /\ \A m \in Names : Type(m)' = Type(m) /\ NextIdx(m)' = NextIdx(m)
      /\ \A m \in Names : values'[m][<<"counter">>] = values[m][<<"counter">>]
      /\ \A m \in Names, k \in Keys : values[m][k] = Nil => values'[m][k] = Nil
  BY <1>2, <1>4 DEF Type, NextIdx
<1>6. TypeOK'
  <2>1. \A u \in Threads : lock' = u <=> call'[u] # Nil /\ call'[u].op # "remove"
    <3>1. lock # t
      BY <1>1 DEF Inv, TypeOK
    <3>2. \A u \in Threads \ {t} : lock = u <=> call[u] # Nil /\ call[u].op # "remove"
      BY DEF Inv, TypeOK
    <3> QED
      BY <1>3, <3>1, <3>2
  <2> QED
    BY <1>2, <1>3, <2>1 DEF Inv, TypeOK
<1>7. KeysInv'
  <2>1. \A m \in Names, k \in Cells : values'[m][k] \in {values[m][k], Nil}
    BY <1>2 DEF Keys
  <2> QED
    BY <1>5, <2>1 DEF Inv, KeysInv
<1>8. \A u \in Threads : call'[u] # Nil => call'[u] = call[u]
  BY <1>3
<1>9. CallsInv'
  <2> SUFFICES ASSUME NEW u \in Threads, call'[u] # Nil
               PROVE  /\ Running(u, "push")' => \E i \in Indices : PushInv(call[u], i)'
                      /\ Running(u, "store")' => StoreInv(call[u])'
                      /\ Running(u, "clear")' => ClearInv(call[u])'
    BY DEF CallsInv, Running
  <2>1. call'[u] = call[u] /\ call[u] # Nil
    BY <1>8
  <2>2. call[u].name \in Names
    BY <2>1 DEF Inv, TypeOK, Call
  <2>3. Running(u, "push")' => \E i \in Indices : PushInv(call[u], i)'
    BY <1>5, <2>1, <2>2 DEF Inv, CallsInv, Running, PushInv
  <2>4. Running(u, "store")' => StoreInv(call[u])'
    BY <1>3, <1>5, <2>1, <2>2 DEF Inv, CallsInv, Running, StoreInv
  <2>5. Running(u, "clear")' => ClearInv(call[u])'
    <3>1. \A k \in Items \cup Entries : k \in Keys
      BY DEF Keys, Cells
    <3> QED
      BY <1>3, <1>5, <2>1, <2>2, <3>1 DEF Inv, CallsInv, Running, ClearInv, Fresh
  <2> QED
    BY <2>3, <2>4, <2>5
<1>10. ShapeInv'
  BY <1>3, <1>4, <1>5 DEF Inv, ShapeInv, Shape
<1>11. PromiseInv'
  <2>1. promised[c.name][c.cell] = Nil
    BY <1>1 DEF Inv, PromiseInv, Running
  <2>2. \A k \in Cells : k \in Keys
    BY DEF Keys
  <2>3. \A m \in Names, k \in Cells : promised'[m][k] # Nil => values'[m][k] = promised'[m][k]
    BY <1>2, <1>3, <2>1, <2>2 DEF Inv, PromiseInv
  <2>4. \A m \in Names, i \in Indices :
          promised'[m][Item(i)] # Nil \/ i \in given'[m] => i < NextIdx(m)'
    BY <1>3, <1>5 DEF Inv, PromiseInv
  <2> QED
    BY <1>3, <1>8, <2>3, <2>4 DEF Inv, PromiseInv, Running
<1> QED
  BY <1>6, <1>7, <1>9, <1>10, <1>11 DEF Inv

-----------------------------------------------------------------------------
(* The writes of a locked call                                             *)

\* The write w of the call c of t is done.
Written(t, c, w) ==
  /\ call[t] = c /\ c \in Call /\ c # Nil /\ c.op \in {"clear", "push", "store"}
  /\ c.name \in Names /\ c.todo \in Seq(Write) /\ c.todo # <<>> /\ w = Head(c.todo)
  /\ w \in Write
  /\ call' = [call EXCEPT ![t] = [c EXCEPT !.todo = Tail(c.todo)]]
  /\ \A u \in Threads \ {t} :
       ~Running(u, "push") /\ ~Running(u, "store") /\ ~Running(u, "clear")
  /\ \A m \in Names, k \in Keys :
       values'[m][k] = IF m = c.name /\ k = w.key THEN w.put ELSE values[m][k]
  /\ values' \in [Names -> [Keys -> Values \cup 0 .. MaxIndex \cup {List, Map, Nil}]]
  /\ promised' = IF /\ w = put(c.cell, c.value)
                    /\ promised[c.name][c.cell] = Nil
                    /\ Undisturbed(c.name, c.cell)
                 THEN [promised EXCEPT ![c.name][c.cell] = c.value] ELSE promised
  /\ UNCHANGED <<lock, torn, given>>

LEMMA StepWrites ==
  ASSUME TypeOK, NEW t \in Threads, Step(t)
  PROVE  \E c, w : Written(t, c, w)
<1> PICK c : c = call[t]
  OBVIOUS
<1> PICK w : w = Head(c.todo)
  OBVIOUS
<1>1. lock = t /\ c.todo # <<>>
  BY DEF Step, Locked
<1>2. c \in Call /\ c # Nil /\ c.op # "remove"
  BY <1>1 DEF TypeOK
<1>3. c.op \in {"clear", "push", "store"} /\ c.name \in Names /\ c.todo \in Seq(Write)
  BY <1>2 DEF Call
<1>4. w \in Write
  BY <1>1, <1>3, HeadTailProperties
<1>5. w.key \in Keys /\ w.put \in Values \cup 0 .. MaxIndex \cup {List, Map, Nil}
  BY <1>4 DEF Write
<1>6. values' = [values EXCEPT ![c.name][w.key] = w.put]
  BY DEF Step
<1>7. \A m \in Names, k \in Keys :
        values'[m][k] = IF m = c.name /\ k = w.key THEN w.put ELSE values[m][k]
  BY <1>3, <1>5, <1>6 DEF TypeOK
<1>8. values' \in [Names -> [Keys -> Values \cup 0 .. MaxIndex \cup {List, Map, Nil}]]
  BY <1>3, <1>5, <1>6 DEF TypeOK
<1>9. call' = [call EXCEPT ![t] = [c EXCEPT !.todo = Tail(c.todo)]]
  BY DEF Step, TypeOK
<1>10. \A u \in Threads \ {t} :
         ~Running(u, "push") /\ ~Running(u, "store") /\ ~Running(u, "clear")
  BY <1>1, OthersUnlocked
<1>11. Written(t, c, w)
  BY <1>1, <1>2, <1>3, <1>4, <1>7, <1>8, <1>9, <1>10 DEF Written, Step
<1> QED
  BY <1>11

\* What a write must respect to keep the invariant.
LEMMA WriteKeeps ==
  ASSUME Inv, NEW t \in Threads, NEW c, NEW w, Written(t, c, w),
         KeysInv',
         CallsInv',
         c.name \notin torn => Shape(c.name)',
         w.key \in Cells => promised[c.name][w.key] = Nil,
         \A i \in Indices :
           promised[c.name][Item(i)] # Nil \/ i \in given[c.name] => i < NextIdx(c.name)',
         w = put(c.cell, c.value) =>
           /\ Tail(c.todo) = <<>> /\ c.cell \in Cells /\ c.value \in Values
           /\ \A i \in Indices : c.cell = Item(i) => i < NextIdx(c.name)'
  PROVE  Inv'
<1> DEFINE n == c.name
           d == [c EXCEPT !.todo = Tail(c.todo)]
           stores == /\ w = put(c.cell, c.value)
                     /\ promised[n][c.cell] = Nil
                     /\ Undisturbed(n, c.cell)
<1>1. /\ d \in Call /\ d # Nil /\ d.op = c.op /\ d.name = n /\ d.cell = c.cell
      /\ d.value = c.value /\ d.todo = Tail(c.todo)
      /\ call'[t] = d /\ \A u \in Threads \ {t} : call'[u] = call[u]
      /\ call' \in [Threads -> Call \cup {Nil}]
  <2>1. Tail(c.todo) \in Seq(Write)
    BY HeadTailProperties DEF Written
  <2>2. d \in Call /\ d.op = c.op /\ d.name = n /\ d.cell = c.cell /\ d.value = c.value
          /\ d.todo = Tail(c.todo)
    BY <2>1 DEF Written, Call
  <2> QED
    BY <2>2, ConstantsAssumption DEF Written, Inv, TypeOK
<1>2. /\ n \in Names /\ c.op # "remove" /\ c # Nil /\ call[t] = c
      /\ UNCHANGED <<lock, torn, given>>
  BY DEF Written
<1>3. /\ \A m \in Names, k \in Cells : promised'[m][k] =
           IF stores /\ m = n /\ k = c.cell THEN c.value ELSE promised[m][k]
      /\ promised' \in [Names -> [Cells -> Values \cup {Nil}]]
  <2>1. CASE stores
    BY <1>2, <2>1 DEF Written, Inv, TypeOK
  <2>2. CASE ~stores
    BY <1>2, <2>2 DEF Written, Inv, TypeOK
  <2> QED
    BY <2>1, <2>2
<1>4. TypeOK'
  <2>1. \A u \in Threads : lock' = u <=> call'[u] # Nil /\ call'[u].op # "remove"
    <3>1. \A u \in Threads : lock = u <=> call[u] # Nil /\ call[u].op # "remove"
      BY DEF Inv, TypeOK
    <3>2. lock = t /\ lock' = lock
      BY <1>2, <3>1
    <3>3. call'[t] # Nil /\ call'[t].op # "remove"
      BY <1>1, <1>2
    <3>4. ASSUME NEW u \in Threads
          PROVE  lock' = u <=> call'[u] # Nil /\ call'[u].op # "remove"
      <4>1. CASE u = t
        BY <3>2, <3>3, <4>1
      <4>2. CASE u # t
        <5>1. call'[u] = call[u]
          BY <1>1, <4>2
        <5> QED
          BY <3>1, <3>2, <5>1
      <4> QED
        BY <4>1, <4>2
    <3> QED
      BY <3>4
  <2> QED
    BY <1>1, <1>2, <1>3, <2>1 DEF Written, Inv, TypeOK
<1>5. ShapeInv'
  <2>1. /\ <<"type">> \in Keys /\ <<"counter">> \in Keys
        /\ \A i \in Indices : Item(i) \in Keys
        /\ \A k \in MapKeys : Entry(k) \in Keys
    BY DEF Keys, Cells, Items, Entries
  <2>2. ASSUME NEW m \in Names \ torn, m # n PROVE Shape(m)'
    <3>1. \A k \in Keys : values'[m][k] = values[m][k]
      BY <2>2 DEF Written
    <3>2. Shape(m)
      BY DEF Inv, ShapeInv
    <3> QED
      BY <2>1, <3>1, <3>2 DEF Shape, Type, NextIdx
  <2> QED
    BY <1>2, <2>2 DEF ShapeInv
<1>6. PromiseInv'
  <2>1. \A m \in Names, k \in Cells : promised'[m][k] # Nil => values'[m][k] = promised'[m][k]
    <3>1. \A k \in Cells : k \in Keys
      BY DEF Keys
    <3>2. stores => w.key = c.cell /\ w.put = c.value
      BY WriteParts
    <3> HIDE DEF stores
    <3> QED
      BY <1>2, <1>3, <3>1, <3>2 DEF Written, Inv, PromiseInv
  <2>2. \A i \in Indices : Item(i) \in Cells
    BY DEF Cells, Items
  <2>3. ASSUME NEW m \in Names, NEW i \in Indices, promised'[m][Item(i)] # Nil \/ i \in given'[m]
        PROVE  i < NextIdx(m)'
    <3>1. CASE m = n
      BY <1>2, <1>3, <2>2, <2>3, <3>1
    <3>2. CASE m # n
      <4>1. NextIdx(m)' = NextIdx(m)
        BY <3>2 DEF Written, NextIdx, Keys
      <4> QED
        BY <1>2, <1>3, <2>2, <2>3, <3>2, <4>1 DEF Inv, PromiseInv
    <3> QED
      BY <3>1, <3>2
  <2>4. ASSUME NEW u \in Threads, Running(u, "remove")'
        PROVE  promised'[call'[u].name][call'[u].cell] = Nil
    <3>1. call'[u] = call[u] /\ Running(u, "remove")
      <4>1. u # t
        <5>1. call'[t].op # "remove"
          BY <1>1, <1>2
        <5> QED
          BY <2>4, <5>1 DEF Running
      <4>2. call'[u] = call[u]
        BY <1>1, <4>1
      <4> QED
        BY <2>4, <4>2 DEF Running
    <3>2. call[u].name \in Names /\ call[u].cell \in Cells
      BY <3>1 DEF Inv, TypeOK, Call, Running
    <3>3. stores => <<call[u].name, call[u].cell>> # <<n, c.cell>>
      BY <3>1 DEF Undisturbed
    <3>4. promised[call[u].name][call[u].cell] = Nil
      BY <3>1 DEF Inv, PromiseInv
    <3> HIDE DEF stores
    <3> QED
      BY <1>3, <3>1, <3>2, <3>3, <3>4
  <2>5. \A u \in Threads \ {t} :
          ~Running(u, "push")' /\ ~Running(u, "store")' /\ ~Running(u, "clear")'
    BY <1>1 DEF Written, Running
  <2>6. /\ (Running(t, "push")' => Running(t, "push") /\ c.op = "push")
        /\ (Running(t, "store")' => Running(t, "store") /\ c.op = "store")
        /\ (Running(t, "clear")' => Running(t, "clear") /\ c.op = "clear")
    BY <1>1, <1>2 DEF Running
  <2>7. d.todo # <<>> => promised' = promised
    BY <1>1 DEF Written
  <2>8. Running(t, "push")' \/ Running(t, "store")' =>
          (d.todo # <<>> => promised'[n][c.cell] = Nil)
    BY <1>2, <2>6, <2>7 DEF Written, Inv, PromiseInv
  <2>9. Running(t, "push")' => c.cell[2] \notin given'[n]
    BY <1>2, <2>6 DEF Inv, PromiseInv
  <2>10. Running(t, "clear")' /\ d.todo # <<>> =>
           given'[n] = {} /\ \A k \in Cells : promised'[n][k] = Nil
    <3>1. Running(t, "clear") /\ c.todo # <<>> =>
            given[n] = {} /\ \A k \in Cells : promised[n][k] = Nil
      BY <1>2 DEF Inv, PromiseInv
    <3>2. c.todo # <<>>
      BY DEF Written
    <3> HIDE DEF d
    <3> QED
      BY <1>2, <2>6, <2>7, <3>1, <3>2
  <2> HIDE DEF d
  <2> QED
    BY <1>1, <2>1, <2>3, <2>4, <2>5, <2>8, <2>9, <2>10 DEF PromiseInv
<1> QED
  BY <1>4, <1>5, <1>6 DEF Inv

\* The first write of a list of writes, and the rest.
LEMMA HeadsAndTails ==
  \A x, y, z : /\ Head(<< x, y, z >>) = x /\ Tail(<< x, y, z >>) = << y, z >>
               /\ Head(<< x, y >>) = x /\ Tail(<< x, y >>) = << y >>
               /\ Head(<< x >>) = x /\ Tail(<< x >>) = <<>>
OBVIOUS

\* The call goes on with the rest, and nobody else is in a locked call.
LEMMA RestOfCall ==
  ASSUME Inv, NEW t \in Threads, NEW c, NEW w, Written(t, c, w),
         NEW d, d = [c EXCEPT !.todo = Tail(c.todo)],
         c.op = "push" => \E i \in Indices : PushInv(d, i)',
         c.op = "store" => StoreInv(d)',
         c.op = "clear" => ClearInv(d)'
  PROVE  CallsInv'
<1>1. call'[t] = d /\ d.op = c.op /\ \A u \in Threads \ {t} : call'[u] = call[u]
  BY DEF Written, Inv, TypeOK, Call
<1>2. \A u \in Threads \ {t} :
        ~Running(u, "push")' /\ ~Running(u, "store")' /\ ~Running(u, "clear")'
  BY <1>1 DEF Written, Running
<1>3. Running(t, "push")' => \E i \in Indices : PushInv(call[t], i)'
  BY <1>1 DEF Running, PushInv, Type, NextIdx
<1>4. Running(t, "store")' => StoreInv(call[t])'
  BY <1>1 DEF Running, StoreInv, Type
<1>5. Running(t, "clear")' => ClearInv(call[t])'
  BY <1>1 DEF Running, ClearInv, Fresh
<1> QED
  BY <1>2, <1>3, <1>4, <1>5 DEF CallsInv

\* The keys of other nodes stay, and that of the write holds what is put there.
LEMMA KeysAfter ==
  ASSUME Inv, NEW t \in Threads, NEW c, NEW w, Written(t, c, w),
         w.key \in Cells => w.put \in Values \cup {Nil},
         w.key = <<"type">> => w.put \in {List, Map, Nil},
         w.key = <<"counter">> => w.put \in 0 .. MaxIndex \cup {Nil}
  PROVE  KeysInv'
<1>1. /\ <<"type">> \in Keys /\ <<"counter">> \in Keys /\ \A k \in Cells : k \in Keys
  BY DEF Keys
<1>2. c.name \in Names
        /\ \A m \in Names, k \in Keys :
             values'[m][k] = values[m][k] \/ (k = w.key /\ values'[m][k] = w.put)
  BY DEF Written
<1> SUFFICES ASSUME NEW n \in Names
             PROVE  /\ \A k \in Cells : values'[n][k] \in Values \cup {Nil}
                    /\ values'[n][<<"type">>] \in {List, Map, Nil}
                    /\ values'[n][<<"counter">>] \in 0 .. MaxIndex \cup {Nil}
  BY DEF KeysInv, Type
<1>3. \A k \in Cells : values'[n][k] \in Values \cup {Nil}
  BY <1>1, <1>2 DEF Inv, KeysInv
<1>4. values'[n][<<"type">>] \in {List, Map, Nil}
  BY <1>1, <1>2 DEF Inv, KeysInv, Type
<1>5. values'[n][<<"counter">>] \in 0 .. MaxIndex \cup {Nil}
  BY <1>1, <1>2 DEF Inv, KeysInv
<1> QED
  BY <1>3, <1>4, <1>5

\* A write of push.
LEMMA PushWriteKeeps ==
  ASSUME Inv, NEW t \in Threads, NEW c, NEW w, Written(t, c, w), c.op = "push"
  PROVE  Inv'
<1> PICK n : n = c.name
  OBVIOUS
<1> PICK d : d = [c EXCEPT !.todo = Tail(c.todo)]
  OBVIOUS
<1>1. Running(t, "push") /\ c = call[t] /\ n \in Names
  BY DEF Running, Written
<1>2. PICK i \in Indices : PushInv(c, i)
  BY <1>1 DEF Inv, CallsInv
<1> DEFINE last == put(Item(i), c.value)
<1>3. /\ c.cell = Item(i) /\ c.value \in Values /\ i \in Nat /\ i + 1 \in 0 .. MaxIndex
      /\ Item(i) \in Cells
  BY <1>2, ConstantsAssumption DEF PushInv, Indices, Cells, Items
<1>4. promised[n][Item(i)] = Nil
  BY <1>1, <1>3 DEF Written, Inv, PromiseInv
<1>5. /\ d.op = "push" /\ d.name = n /\ d.cell = Item(i) /\ d.value = c.value
      /\ d.todo = Tail(c.todo)
  BY <1>3 DEF Written, Call
<1>6. /\ <<"type">> \in Keys /\ <<"counter">> \in Keys
      /\ <<"type">> \notin Cells /\ <<"counter">> \notin Cells
      /\ \A j \in Indices : Item(j) \in Keys
      /\ \A k \in MapKeys : Entry(k) \in Keys
  BY KeysDiffer DEF Keys, Cells, Items, Entries
<1>7. n \notin torn => Shape(n)
  BY <1>1 DEF Inv, ShapeInv
<1>8. \A j \in Indices : promised[n][Item(j)] # Nil \/ j \in given[n] => j < NextIdx(n)
  BY <1>1 DEF Inv, PromiseInv
<1>9. CASE /\ Type(n) = Nil /\ NextIdx(n) = i
           /\ c.todo = << put(<<"type">>, List), put(<<"counter">>, i + 1), last >>
  <2>1. w = put(<<"type">>, List) /\ Tail(c.todo) = << put(<<"counter">>, i + 1), last >>
    <3>1. w = Head(c.todo)
      BY DEF Written
    <3> HIDE DEF last
    <3> QED
      BY <1>9, <3>1, HeadsAndTails
  <2>2. w.key = <<"type">> /\ w.put = List
    BY <2>1, WriteParts
  <2>3. Type(n)' = List /\ NextIdx(n)' = i
    BY <1>1, <1>6, <1>9, <2>2, KeysDiffer DEF Written, Type, NextIdx
  <2>4. CallsInv'
    <3>1. PushInv(d, i)'
      BY <1>3, <1>5, <2>1, <2>3 DEF PushInv
    <3> QED
      BY <1>2, <3>1, RestOfCall
  <2>5. KeysInv'
    BY <2>2, <1>6, KeysDiffer, KeysAfter
  <2>6. n \notin torn => Shape(n)'
    <3>1. \A k \in Keys : k # <<"type">> => values'[n][k] = values[n][k]
      BY <1>1, <2>2 DEF Written
    <3>2. Type(n) # List /\ Type(n) # Map
      BY <1>9, ConstantsAssumption
    <3> QED
      BY <1>6, <1>7, <3>1, <3>2, KeysDiffer DEF Shape
  <2>7. w # put(c.cell, c.value)
    BY <1>3, <2>1, WriteParts, KeysDiffer
  <2> QED
    BY <1>6, <1>8, <1>9, <2>2, <2>3, <2>4, <2>5, <2>6, <2>7, WriteKeeps
<1>10. CASE /\ Type(n) = List /\ NextIdx(n) = i
            /\ c.todo = << put(<<"counter">>, i + 1), last >>
  <2>1. w = put(<<"counter">>, i + 1) /\ Tail(c.todo) = << last >>
    <3>1. w = Head(c.todo)
      BY DEF Written
    <3> HIDE DEF last
    <3> QED
      BY <1>10, <3>1, HeadsAndTails
  <2>2. w.key = <<"counter">> /\ w.put = i + 1
    BY <2>1, WriteParts
  <2>3. Type(n)' = List /\ NextIdx(n)' = i + 1
    <3>1. i + 1 # Nil
      BY <1>3, ConstantsAssumption
    <3> QED
      BY <1>1, <1>6, <1>10, <2>2, <3>1, KeysDiffer DEF Written, Type, NextIdx
  <2>4. CallsInv'
    <3>1. PushInv(d, i)'
      BY <1>3, <1>5, <2>1, <2>3 DEF PushInv
    <3> QED
      BY <1>2, <3>1, RestOfCall
  <2>5. KeysInv'
    BY <1>3, <2>2, <1>6, KeysDiffer, KeysAfter
  <2>6. n \notin torn => Shape(n)'
    <3>1. \A k \in Keys : k # <<"counter">> => values'[n][k] = values[n][k]
      BY <1>1, <2>2 DEF Written
    <3>2. \A j \in Indices : j < i => j < i + 1
      BY <1>3 DEF Indices
    <3> QED
      BY <1>6, <1>7, <1>10, <2>3, <3>1, <3>2, KeysDiffer DEF Shape
  <2>7. w # put(c.cell, c.value)
    BY <1>3, <2>1, WriteParts, KeysDiffer
  <2>8. \A j \in Indices : promised[n][Item(j)] # Nil \/ j \in given[n] => j < NextIdx(n)'
    BY <1>3, <1>8, <1>10, <2>3 DEF Indices
  <2> QED
    BY <1>6, <2>2, <2>4, <2>5, <2>6, <2>7, <2>8, WriteKeeps
<1>11. CASE Type(n) = List /\ NextIdx(n) = i + 1 /\ c.todo = << last >>
  <2>1. w = last /\ Tail(c.todo) = <<>>
    <3>1. w = Head(c.todo)
      BY DEF Written
    <3> HIDE DEF last
    <3> QED
      BY <1>11, <3>1, HeadsAndTails
  <2>2. w.key = Item(i) /\ w.put = c.value
    BY <2>1, WriteParts
  <2>3. Type(n)' = List /\ NextIdx(n)' = i + 1
    BY <1>1, <1>6, <1>11, <2>2, KeysDiffer DEF Written, Type, NextIdx
  <2>4. CallsInv'
    <3>1. PushInv(d, i)'
      BY <1>3, <1>5, <2>1, <2>3 DEF PushInv
    <3> QED
      BY <1>2, <3>1, RestOfCall
  <2>5. KeysInv'
    BY <1>3, <2>2, <1>6, KeysDiffer, KeysAfter
  <2>6. n \notin torn => Shape(n)'
    <3>1. \A k \in Keys : k # Item(i) => values'[n][k] = values[n][k]
      BY <1>1, <2>2 DEF Written
    <3>2. i < i + 1
      BY <1>3
    <3> QED
      BY <1>6, <1>7, <1>11, <2>3, <3>1, <3>2, KeysDiffer DEF Shape
  <2>7. \A j \in Indices : c.cell = Item(j) => j < NextIdx(n)'
    <3>1. \A j \in Indices : c.cell = Item(j) => j = i
      BY <1>3, KeysDiffer
    <3> QED
      BY <1>3, <2>3, <3>1
  <2> QED
    BY <1>3, <1>4, <1>8, <1>11, <2>1, <2>2, <2>3, <2>4, <2>5, <2>6, <2>7, WriteKeeps
<1> QED
  <2>1. c.todo # <<>>
    BY DEF Written
  <2> QED
    BY <1>2, <1>9, <1>10, <1>11, <2>1 DEF PushInv

\* A write of insert, update or update_key.
LEMMA StoreWriteKeeps ==
  ASSUME Inv, NEW t \in Threads, NEW c, NEW w, Written(t, c, w), c.op = "store"
  PROVE  Inv'
<1> PICK n : n = c.name
  OBVIOUS
<1> PICK d : d = [c EXCEPT !.todo = Tail(c.todo)]
  OBVIOUS
<1> DEFINE last == put(c.cell, c.value)
<1>1. Running(t, "store") /\ c = call[t] /\ n \in Names /\ UNCHANGED torn
  BY DEF Running, Written
<1>2. StoreInv(c)
  BY <1>1 DEF Inv, CallsInv
<1>3. c.cell \in Cells \ Items /\ c.value \in Values
  BY <1>2 DEF StoreInv
<1>4. promised[n][c.cell] = Nil
  BY <1>1 DEF Written, Inv, PromiseInv
<1>5. /\ d.op = "store" /\ d.name = n /\ d.cell = c.cell /\ d.value = c.value
      /\ d.todo = Tail(c.todo)
  BY DEF Written, Call
<1>6. /\ <<"type">> \in Keys /\ <<"counter">> \in Keys
      /\ <<"type">> \notin Cells /\ <<"counter">> \notin Cells
      /\ \A j \in Indices : Item(j) \in Keys /\ Item(j) \in Items
      /\ \A k \in MapKeys : Entry(k) \in Keys /\ Entry(k) \in Entries
  BY KeysDiffer DEF Keys, Cells, Items, Entries
<1>7. n \notin torn => Shape(n)
  BY <1>1 DEF Inv, ShapeInv
<1>8. \A j \in Indices : promised[n][Item(j)] # Nil \/ j \in given[n] => j < NextIdx(n)
  BY <1>1 DEF Inv, PromiseInv
<1>9. CASE /\ Type(n) = Nil /\ c.cell \in Entries
           /\ c.todo = << put(<<"type">>, Map), last >>
  <2>1. w = put(<<"type">>, Map) /\ Tail(c.todo) = << last >>
    <3>1. w = Head(c.todo)
      BY DEF Written
    <3> HIDE DEF last
    <3> QED
      BY <1>9, <3>1, HeadsAndTails
  <2>2. w.key = <<"type">> /\ w.put = Map
    BY <2>1, WriteParts
  <2>3. Type(n)' = Map /\ NextIdx(n)' = NextIdx(n)
    BY <1>1, <1>6, <2>2, KeysDiffer DEF Written, Type, NextIdx
  <2>4. CallsInv'
    <3>1. StoreInv(d)'
      BY <1>3, <1>5, <2>1, <2>3 DEF StoreInv
    <3> QED
      BY <3>1, RestOfCall
  <2>5. KeysInv'
    BY <2>2, <1>6, KeysDiffer, KeysAfter
  <2>6. n \notin torn => Shape(n)'
    <3>1. \A k \in Keys : k # <<"type">> => values'[n][k] = values[n][k]
      BY <1>1, <2>2 DEF Written
    <3>2. Type(n) # List
      BY <1>9, ConstantsAssumption
    <3> QED
      BY <1>6, <1>7, <2>3, <3>1, <3>2, KeysDiffer DEF Shape
  <2>7. w # put(c.cell, c.value)
    BY <1>3, <1>6, <2>1, WriteParts
  <2> QED
    BY <1>6, <1>8, <2>2, <2>3, <2>4, <2>5, <2>6, <2>7, WriteKeeps
<1>10. CASE /\ c.cell \in Entries /\ n \notin torn => Type(n) = Map
            /\ c.todo = << last >>
  <2>1. w = last /\ Tail(c.todo) = <<>>
    <3>1. w = Head(c.todo)
      BY DEF Written
    <3> HIDE DEF last
    <3> QED
      BY <1>10, <3>1, HeadsAndTails
  <2>2. w.key = c.cell /\ w.put = c.value
    BY <2>1, WriteParts
  <2>3. Type(n)' = Type(n) /\ NextIdx(n)' = NextIdx(n)
    BY <1>1, <1>3, <1>6, <2>2 DEF Written, Type, NextIdx
  <2>4. CallsInv'
    <3>1. StoreInv(d)'
      BY <1>3, <1>5, <2>1 DEF StoreInv
    <3> QED
      BY <3>1, RestOfCall
  <2>5. KeysInv'
    BY <1>3, <2>2, <1>6, KeysAfter
  <2>6. n \notin torn => Shape(n)'
    <3>1. \A k \in Keys : k # c.cell => values'[n][k] = values[n][k]
      BY <1>1, <2>2 DEF Written
    <3>2. \A j \in Indices : Item(j) # c.cell
      BY <1>3, <1>6
    <3>3. \A k \in MapKeys : Entry(k) = c.cell /\ n \notin torn => Type(n) = Map
      BY <1>6, <1>10
    <3> QED
      BY <1>6, <1>7, <2>3, <3>1, <3>2, <3>3 DEF Shape
  <2>7. \A j \in Indices : c.cell = Item(j) => j < NextIdx(n)'
    BY <1>3, <1>6
  <2> QED
    BY <1>3, <1>4, <1>8, <2>1, <2>2, <2>3, <2>4, <2>5, <2>6, <2>7, WriteKeeps
<1> QED
  <2>1. c.todo # <<>>
    BY DEF Written
  <2> QED
    BY <1>2, <1>9, <1>10, <2>1 DEF StoreInv

\* More than one write is left.
LEMMA LongTodo ==
  \A z \in Nat : z >= 1 /\ z # 1 => 1 \in 1 .. z - 1 /\ z - 1 \in 1 .. z - 1 /\ z - 1 # 0
OBVIOUS

\* A write of add, add_list or add_map.
LEMMA ClearWriteKeeps ==
  ASSUME Inv, NEW t \in Threads, NEW c, NEW w, Written(t, c, w), c.op = "clear"
  PROVE  Inv'
<1> PICK n : n = c.name
  OBVIOUS
<1> PICK d : d = [c EXCEPT !.todo = Tail(c.todo)]
  OBVIOUS
<1> PICK z : z = Len(c.todo)
  OBVIOUS
<1>1. Running(t, "clear") /\ c = call[t] /\ n \in Names /\ UNCHANGED torn
  BY DEF Running, Written
<1>2. /\ c.todo \in Seq(Write) /\ c.todo # <<>> /\ w = c.todo[1]
      /\ z \in Nat /\ z >= 1
      /\ Tail(c.todo) \in Seq(Write) /\ Len(Tail(c.todo)) = z - 1
      /\ \A i \in 1 .. z - 1 : Tail(c.todo)[i] = c.todo[i + 1]
      /\ (z = 1 => Tail(c.todo) = <<>>)
  <2>1. c.todo \in Seq(Write) /\ c.todo # <<>> /\ w = Head(c.todo)
    BY DEF Written
  <2>2. Head(c.todo) = c.todo[1]
    BY <2>1
  <2>3. z \in Nat /\ z >= 1
    BY <2>1, EmptySeq
  <2>4. Tail(c.todo) \in Seq(Write) /\ Len(Tail(c.todo)) = z - 1
        /\ \A i \in 1 .. z - 1 : Tail(c.todo)[i] = c.todo[i + 1]
    BY <2>1, HeadTailProperties
  <2>5. z = 1 => Tail(c.todo) = <<>>
    <3>1. \A seq \in Seq(Write) : seq # <<>> => Len(seq) \in Nat \ {0}
      BY EmptySeq
    <3>2. z = 1 => Len(Tail(c.todo)) = 0
      BY <2>4
    <3> QED
      BY <2>4, <3>1, <3>2
  <2> QED
    BY <2>1, <2>2, <2>3, <2>4, <2>5
<1>3. /\ n \in torn /\ Fresh(c)
      /\ \A i \in 1 .. z - 1 : \E k \in Keys : c.todo[i] = erase(k)
      /\ \A k \in Keys : values[n][k] # Nil => \E i \in 1 .. z - 1 : c.todo[i] = erase(k)
  BY <1>1, <1>2 DEF Inv, CallsInv, ClearInv
<1>4. given[n] = {} /\ \A k \in Cells : promised[n][k] = Nil
  BY <1>1, <1>2 DEF Inv, PromiseInv
<1>5. /\ d.op = "clear" /\ d.name = n /\ d.cell = c.cell /\ d.value = c.value
      /\ d.todo = Tail(c.todo)
  BY DEF Written, Call
<1>6. \A j \in Indices : promised[n][Item(j)] # Nil \/ j \in given[n] => j < NextIdx(n)'
  BY <1>4 DEF Cells, Items
<1>7. CASE z = 1
  <2>1. w = c.todo[z] /\ Tail(c.todo) = <<>>
    BY <1>2, <1>7
  <2>2. \A k \in Keys : values[n][k] = Nil
    BY <1>3, <1>7
  <2>3. \/ c.cell = <<"object">> /\ c.value \in Values /\ w = put(c.cell, c.value)
        \/ c.cell = Nil /\ w \in {put(<<"type">>, List), put(<<"type">>, Map)}
    BY <1>2, <1>3, <2>1 DEF Fresh
  <2>4. \/ w.key = <<"object">> /\ w.put \in Values
        \/ w.key = <<"type">> /\ w.put \in {List, Map}
    BY <2>3, WriteParts
  <2>5. CallsInv'
    <3>1. \A k \in Items \cup Entries : k \in Keys /\ k # <<"object">> /\ k # <<"type">>
      BY KeysDiffer DEF Keys, Cells, Items, Entries
    <3>2. \A k \in Items \cup Entries : values'[n][k] = Nil
      <4>1. \A k \in Items \cup Entries : k # w.key /\ values[n][k] = Nil
        BY <2>2, <2>4, <3>1
      <4>2. \A k \in Keys : k # w.key => values'[n][k] = values[n][k]
        BY <1>1 DEF Written
      <4> QED
        BY <3>1, <4>1, <4>2
    <3>3. ClearInv(d)'
      BY <1>1, <1>3, <1>5, <2>1, <3>2 DEF ClearInv
    <3> QED
      BY <1>5, <3>3, RestOfCall
  <2>6. KeysInv'
    <3>1. <<"type">> \notin Cells
      BY KeysDiffer DEF Cells, Items, Entries
    <3> QED
      BY <2>4, <3>1, KeysDiffer, KeysAfter
  <2>7. w = put(c.cell, c.value) =>
          c.cell = <<"object">> /\ c.cell \in Cells /\ c.value \in Values
    <3>1. c.cell = Nil => w.key # c.cell
      BY <2>4, ConstantsAssumption DEF Keys, Cells
    <3> QED
      BY <2>3, <3>1, WriteParts DEF Cells
  <2>8. \A i \in Indices : Item(i) # <<"object">>
    BY KeysDiffer
  <2> QED
    BY <1>3, <1>4, <1>6, <2>1, <2>5, <2>6, <2>7, <2>8, WriteKeeps
<1>8. CASE z # 1
  <2>0. 1 \in 1 .. z - 1 /\ z - 1 \in 1 .. z - 1 /\ z - 1 # 0
    BY <1>2, <1>8, LongTodo
  <2>1. PICK k \in Keys : w = erase(k)
    <3>1. 1 \in 1 .. z - 1
      BY <2>0
    <3>2. \E k \in Keys : c.todo[1] = erase(k)
      BY <1>3, <3>1
    <3>3. w = c.todo[1]
      BY <1>2
    <3> QED
      BY <3>2, <3>3
  <2>2. w.key = k /\ w.put = Nil
    BY <2>1, WriteParts DEF erase
  <2>3. CallsInv'
    <3>1. z - 1 \in 1 .. z - 1 /\ Len(d.todo) = z - 1 /\ d.todo # <<>>
      <4>1. z - 1 \in 1 .. z - 1 /\ z - 1 # 0
        BY <2>0
      <4>3. Len(d.todo) = z - 1
        BY <1>2, <1>5
      <4>2. Len(<<>>) = 0
        OBVIOUS
      <4> QED
        BY <4>1, <4>2, <4>3
    <3>2. d.todo[Len(d.todo)] = c.todo[z]
      BY <1>2, <1>5, <3>1
    <3>3. Fresh(d)
      BY <1>2, <1>3, <1>5, <3>2 DEF Fresh
    <3>4. \A i \in 1 .. Len(d.todo) - 1 : i + 1 \in 1 .. z - 1 /\ d.todo[i] = c.todo[i + 1]
      BY <1>2, <1>5, <3>1
    <3>5. \A i \in 1 .. Len(d.todo) - 1 : \E l \in Keys : d.todo[i] = erase(l)
      BY <1>3, <3>4
    <3>6. ASSUME NEW l \in Keys, values'[n][l] # Nil
          PROVE  \E i \in 1 .. Len(d.todo) - 1 : d.todo[i] = erase(l)
      <4>1. l # k /\ values[n][l] # Nil
        BY <1>1, <2>2, <3>6 DEF Written
      <4>2. PICK i \in 1 .. z - 1 : c.todo[i] = erase(l)
        BY <1>3, <4>1
      <4>3. i # 1
        <5>1. erase(l) # erase(k)
          BY <4>1, WriteParts DEF erase
        <5> QED
          BY <1>2, <2>1, <4>2, <5>1
      <4>4. i - 1 \in 1 .. Len(d.todo) - 1 /\ (i - 1) + 1 = i
        BY <1>2, <3>1, <4>3
      <4>5. d.todo[i - 1] = erase(l)
        BY <3>4, <4>2, <4>4
      <4> QED
        BY <4>4, <4>5
    <3>7. ClearInv(d)'
      BY <1>1, <1>3, <1>5, <3>1, <3>3, <3>5, <3>6 DEF ClearInv, Fresh
    <3> QED
      BY <1>5, <3>7, RestOfCall
  <2>4. KeysInv'
    BY <2>2, KeysAfter
  <2>5. w # put(c.cell, c.value)
    <3>1. (c.cell = <<"object">> /\ c.value \in Values) \/ c.cell = Nil
      BY <1>3 DEF Fresh
    <3>2. c.cell = Nil => c.cell # k
      BY ConstantsAssumption
    <3>3. c.value \in Values => c.value # Nil
      BY ConstantsAssumption
    <3> QED
      BY <2>2, <3>1, <3>2, <3>3, WriteParts
  <2> QED
    BY <1>3, <1>4, <1>6, <2>3, <2>4, <2>5, WriteKeeps
<1> QED
  BY <1>7, <1>8

-----------------------------------------------------------------------------
(* The theorems                                                            *)

\* Every step keeps the invariant.
LEMMA StepKeeps == ASSUME Inv, [Next]_vars PROVE Inv'
<1>1. ASSUME NEW t \in Threads, Step(t) PROVE Inv'
  <2>1. PICK c, w : Written(t, c, w)
    BY <1>1, StepWrites DEF Inv
  <2>2. c.op \in {"clear", "push", "store"}
    BY <2>1 DEF Written
  <2> QED
    BY <2>1, <2>2, PushWriteKeeps, StoreWriteKeeps, ClearWriteKeeps
<1>2. ASSUME NEW t \in Threads, NEW n \in Names,
             AddList(t, n) \/ AddMap(t, n) \/ \E v \in Values : Add(t, n, v)
      PROVE  Inv'
  <2>1. CASE AddList(t, n)
    BY <2>1, RenewKeeps DEF AddList
  <2>2. CASE AddMap(t, n)
    BY <2>2, RenewKeeps DEF AddMap
  <2>3. ASSUME NEW v \in Values, Add(t, n, v) PROVE Inv'
    BY <2>3, RenewKeeps DEF Add
  <2> QED
    BY <1>2, <2>1, <2>2, <2>3
<1>3. CASE UNCHANGED vars
  BY <1>3, EndKeeps DEF Inv, TypeOK, vars
<1> QED
  BY <1>1, <1>2, <1>3, PushKeeps, InsertKeeps, UpdateKeeps, RemoveReadKeeps, RemoveKeyKeeps,
     ReturnKeeps, FailKeeps, CrashKeeps
  DEF Next

\* The invariant of the mount: its keys are of one shape outside a clearing, a locked
\* call has still to write what is missing, and what is promised is there.
THEOREM MountInvariant == Spec => []Inv
<1>1. Init => Inv
  <2> SUFFICES ASSUME Init PROVE Inv
    OBVIOUS
  <2>1. /\ \A c \in Cells : c \in Keys
        /\ <<"type">> \in Keys /\ <<"counter">> \in Keys
        /\ \A i \in Indices : Item(i) \in Cells
        /\ \A k \in MapKeys : Entry(k) \in Cells
    BY DEF Keys, Cells, Items, Entries
  <2>2. TypeOK
    BY ConstantsAssumption DEF Init, TypeOK, Nothing
  <2>3. KeysInv
    BY <2>1 DEF Init, KeysInv, Type
  <2>4. CallsInv
    BY DEF Init, CallsInv, Running
  <2>5. ShapeInv
    BY <2>1 DEF Init, ShapeInv, Shape
  <2>6. PromiseInv
    BY <2>1 DEF Init, PromiseInv, Nothing, Running
  <2> QED
    BY <2>2, <2>3, <2>4, <2>5, <2>6 DEF Inv
<1> QED
  BY <1>1, StepKeeps, PTL DEF Spec

\* The types of the variables; the lock is held by the thread in a locked call.
THEOREM TypesKept == Spec => []TypeOK
<1>1. Inv => TypeOK
  BY DEF Inv
<1> QED
  BY <1>1, MountInvariant, PTL

\* A node never has entries of a list and of a map, nor entries at or above its counter,
\* at any moment, whatever was interrupted, unless a clearing was.
THEOREM NodesHaveOneShape == Spec => []OneShape
<1>1. Inv => OneShape
  BY ShapeIsOneShape DEF Inv
<1> QED
  BY <1>1, MountInvariant, PTL

\* What a call has stored stays until another means to replace it, and no index of a list
\* is given twice, for any number of threads, failures and crashes.
THEOREM StoredValuesStay == Spec => []StoredStays
<1>1. Inv => StoredStays
  BY DEF Inv, PromiseInv, StoredStays
<1> QED
  BY <1>1, MountInvariant, PTL

\* An update replaces what it has read: nobody else stores to the cell between.
THEOREM UpdatesAreCurrent == Spec => UpdateOfCurrent
<1> DEFINE A == \A t \in Threads : Running(t, "store") =>
                  LET n == call[t].name
                      c == call[t].cell
                  IN  values'[n][c] \in {values[n][c], call[t].value, Nil}
<1>1. ASSUME Inv, [Next]_vars PROVE [A]_vars
  <2> SUFFICES ASSUME NEW t \in Threads, Running(t, "store")
               PROVE  values'[call[t].name][call[t].cell] \in
                        {values[call[t].name][call[t].cell], call[t].value, Nil}
    BY DEF vars
  <2>1. lock = t /\ call[t].name \in Names
    BY <1>1 DEF Inv, TypeOK, Running, Call
  <2>2. StoreInv(call[t])
    BY <1>1 DEF Inv, CallsInv
  <2>3. call[t].cell \in Cells /\ call[t].cell \in Keys /\ call[t].cell # <<"type">>
    BY <2>2, KeysDiffer DEF StoreInv, Keys, Cells, Items, Entries
  <2>4. ASSUME NEW u \in Threads, Step(u)
        PROVE  values'[call[t].name][call[t].cell] \in
                 {values[call[t].name][call[t].cell], call[t].value, Nil}
    <3>1. u = t
      BY <2>1, <2>4 DEF Step, Locked
    <3>2. PICK c, w : Written(t, c, w)
      BY <1>1, <2>4, <3>1, StepWrites DEF Inv
    <3>3. call[t] = c /\ c.todo # <<>> /\ w = Head(c.todo)
      BY <3>2 DEF Written
    <3>4. w \in {put(<<"type">>, Map), put(c.cell, c.value)}
      <4>1. \/ c.todo = << put(<<"type">>, Map), put(c.cell, c.value) >>
            \/ c.todo = << put(c.cell, c.value) >>
        BY <2>2, <3>3 DEF StoreInv
      <4> QED
        BY <3>3, <4>1, HeadsAndTails
    <3>5. w.key = <<"type">> \/ w.put = c.value
      BY <3>4, WriteParts
    <3> QED
      BY <2>1, <2>3, <3>2, <3>3, <3>5 DEF Written
  <2>5. ASSUME NEW u \in Threads, RemoveKey(u)
        PROVE  values'[call[t].name][call[t].cell] \in
                 {values[call[t].name][call[t].cell], call[t].value, Nil}
    BY <1>1, <2>1, <2>3, <2>5 DEF RemoveKey, Inv, TypeOK
  <2>6. CASE UNCHANGED values
    BY <2>6
  <2>7. ASSUME NEW u \in Threads, Return(u) \/ Fail(u) PROVE UNCHANGED values
    BY <2>7 DEF Return, Fail
  <2>8. ASSUME NEW u \in Threads, NEW n \in Names,
               \/ AddList(u, n) \/ AddMap(u, n)
               \/ \E v \in Values : Add(u, n, v) \/ Push(u, n, v)
               \/ \E v \in Values, k \in MapKeys : Insert(u, n, k, v)
               \/ \E v \in Values, cell \in Cells \ Items : Update(u, n, cell, v)
               \/ \E cell \in Cells : RemoveRead(u, n, cell)
        PROVE  UNCHANGED values
    BY <2>8 DEF AddList, AddMap, Add, Renew, Push, Insert, Update, RemoveRead, Start
  <2>9. Crash \/ UNCHANGED vars => UNCHANGED values
    BY DEF Crash, vars
  <2> QED
    BY <1>1, <2>4, <2>5, <2>6, <2>7, <2>8, <2>9 DEF Next
<1> QED
  BY <1>1, MountInvariant, PTL DEF Spec, UpdateOfCurrent
=============================================================================

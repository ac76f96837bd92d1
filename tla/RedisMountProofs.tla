-------------------------- MODULE RedisMountProofs ---------------------------
(***************************************************************************)
(* A mount kept in a Redis server, for any number of processes, operations *)
(* and faults and paths of any depth: the lock loses no update, and the    *)
(* index lists the values.                                                 *)
(***************************************************************************)
EXTENDS RedisMount, FiniteSetTheorems, SequenceTheorems, TLAPS

-----------------------------------------------------------------------------
(* Paths, directories and the entries on the way                           *)

Names == UNION {ToSet(q) : q \in Keys}

\* Where an entry of the index may lead: the keys and the directories above them.
Places == UNION {{SubSeq(q, 1, n) : n \in 1 .. Len(q)} : q \in Keys}

\* On the way to a, directory d has the entry x.
Passes(a, d, x) == \E n \in 0 .. Len(a) - 1 : d = SubSeq(a, 1, n) /\ x = a[n + 1]

\* The entry x of d leads to a value, or to one that who wrote it lists.
Due(d, x) == \E q \in Keys : Stored(q) /\ Passes(q, d, x)
MustDue(d, x) == \E q \in Keys : store[q].due /\ Passes(q, d, x)

\* q is a, or lies in the directory a.
Below(q, a) == q = a \/ \E x \in Names : Passes(q, a, x)

-----------------------------------------------------------------------------
(* The invariant                                                           *)

Types == {"none", "raw", "string", "list", "hash"}
Entries == [type : Types, of : SUBSET Nat, lock : Procs \cup {Nobody}, due : BOOLEAN]

\* Nothing is nothing, and the bytes of a lock show no operation and are not listed.
Sound(v) ==
  /\ v.type = "none" => v = None
  /\ v.lock # Nobody => v.type \in {"raw", "string"} /\ v.of = {} /\ ~v.due

Ops == DOMAIN FirstCommand \cup {"none"}
Direct == {"set", "rpush", "hset", "get", "hget", "del", "hdel", "lock", "read", "write", "unlock"}
Removing == {"kids", "srem", "scard", "rmdir", "parent"}
Mounting == {"marked", "scan", "wipe", "mark"}
Pcs == {"idle", "unmounted", "sadd"} \cup Direct \cup Removing \cup Mounting
Proc == [pc : Pcs, op : Ops, at : Places \cup {<< >>}, todo : Seq(Keys), no : Nat, seen : SUBSET Nat]

Typed ==
  /\ store \in [Keys -> Entries] /\ \A k \in Keys : Sound(store[k])
  /\ index \in [Dirs -> SUBSET Names]
  /\ rebuilt \in BOOLEAN /\ damaged \in BOOLEAN
  /\ proc \in [Procs -> Proc]
  /\ ops \in Nat /\ faults \in Nat
  /\ wrote \in [Paths -> SUBSET Nat]
  /\ unsafe \subseteq Paths

\* The commands of each operation.
Fits(pc, op) ==
  /\ pc \in {"idle", "unmounted"} <=> op = "none"
  /\ pc = "set" => op = "add"
  /\ pc = "rpush" => op = "push"
  /\ pc = "hset" => op = "insert"
  /\ pc = "sadd" => op \in {"add", "push", "insert", "mount"}
  /\ pc \in {"lock", "read", "write", "unlock"} => op \in {"update", "update_key"}
  /\ pc \in {"get", "del"} => op = "remove"
  /\ pc \in {"hget", "hdel"} => op = "remove_key"
  /\ pc \in Removing => op \in {"remove", "remove_key"}
  /\ pc \in Mounting => op = "mount"

\* A process is at a command of its operation, and has what this needs.
Shaped(r) ==
  /\ Fits(r.pc, r.op)
  /\ r.pc \in Direct => r.at \in Paths
  /\ r.pc \in Removing => r.at \in Places
  /\ r.pc = "parent" => Len(r.at) # 1
  /\ r.pc = "sadd" => /\ r.todo # << >>
                      /\ r.op # "mount" => Len(r.todo) = 1
                      /\ \E k \in Nat : r.seen = 0 .. k - 1 /\ k < Len(Head(r.todo))
ShapeInv == \A p \in Procs : Shaped(proc[p])

\* Until it has written, an update that is not past saving has its lock, and
\* after reading the value it read.
UpdateInv ==
  /\ \A p \in Procs : proc[p].pc \in {"read", "write"} /\ proc[p].at \notin unsafe =>
       store[LockOf(p)].lock = p
  /\ \A p \in Procs : At(p, "write") /\ proc[p].at \notin unsafe =>
       store[proc[p].at].type = Wanted(p) /\ store[proc[p].at].of = proc[p].seen
  /\ NoUpdateLost

\* Nobody is beside a removal or a rebuilding and no lock is held meanwhile,
\* unless that is on record.
Unlocked == \A k \in Keys : store[k].lock = Nobody
AloneInv ==
  /\ ~damaged => \A p, q \in Procs : Active(p) /\ Active(q) /\ Clears(proc[p].op) => p = q
  /\ ~damaged => \A p \in Procs : Clears(proc[p].op) => Unlocked

\* Before the index is built nobody is at work but who builds it.
BuildInv ==
  /\ ~rebuilt => \A p \in Procs : At(p, "unmounted") \/ proc[p].op = "mount"
  /\ ~damaged => \A p \in Procs :
       proc[p].op = "mount" /\ proc[p].pc \in {"scan", "wipe", "sadd", "mark"} => ~rebuilt

\* What a process knows of the values and of the index.
Knows(p) ==
  /\ At(p, "sadd") => \A q \in ToSet(proc[p].todo) : Stored(q)
  /\ At(p, "wipe") => /\ \A q \in ToSet(proc[p].todo) : Stored(q)
                      /\ \A q \in Keys : store[q].due => q \in ToSet(proc[p].todo)
  /\ At(p, "kids") => \A q \in Keys : q = proc[p].at => ~store[q].due
  /\ At(p, "srem") => \A q \in Keys : Below(q, proc[p].at) => ~store[q].due
  /\ proc[p].pc \in {"rmdir", "parent"} => index[Front(proc[p].at)] = {}
KnowInv == ~damaged => \A p \in Procs : Knows(p)

\* The entries p has still to add, and those it has still to look at and remove.
Left(p, d, x) ==
  /\ At(p, "sadd")
  /\ LET q == Head(proc[p].todo)
     IN  \/ \E n \in 0 .. Len(q) - 1 : n \notin proc[p].seen /\ d = SubSeq(q, 1, n) /\ x = q[n + 1]
         \/ \E r \in ToSet(Tail(proc[p].todo)) : Passes(r, d, x)
Trace(p, d, x) ==
  \/ proc[p].pc \in {"kids", "srem"} /\ Passes(proc[p].at, d, x)
  \/ proc[p].pc \in {"scard", "rmdir", "parent"} /\ Passes(Front(proc[p].at), d, x)

\* The index is in use, or being built.
Ready == rebuilt \/ \E p \in Procs : proc[p].op = "mount" /\ proc[p].pc \in {"sadd", "mark"}

\* It lists the values, but for what somebody is just adding or removing.
ListInv ==
  ~damaged /\ Ready => \A d \in Dirs : \A x \in Names :
    /\ x \in index[d] => Due(d, x) \/ \E p \in Procs : Trace(p, d, x)
    /\ MustDue(d, x) => x \in index[d] \/ \E p \in Procs : Left(p, d, x)

Inv == Typed /\ ShapeInv /\ UpdateInv /\ AloneInv /\ BuildInv /\ KnowInv /\ ListInv

-----------------------------------------------------------------------------
(* Sequences of names                                                      *)

LEMMA PathNames ==
  ASSUME NEW q \in Keys
  PROVE  q \in Seq(Names) /\ Len(q) \in Nat \ {0} /\ DOMAIN q = 1 .. Len(q)
<1>1. q \in Seq(ToSet(q)) /\ q # << >> /\ ToSet(q) \subseteq Names
  BY RedisAssumption DEF Names
<1>2. q \in Seq(Names)
  BY <1>1, SeqMonotonic
<1> QED
  BY <1>1, <1>2, EmptySeq

\* The beginning of a sequence.
LEMMA Beginning ==
  ASSUME NEW a \in Seq(Names), NEW n \in 0 .. Len(a)
  PROVE  /\ SubSeq(a, 1, n) \in Seq(Names) /\ Len(SubSeq(a, 1, n)) = n
         /\ \A i \in 1 .. n : SubSeq(a, 1, n)[i] = a[i]
<1>1. \A i \in 1 .. n : a[i] \in Names
  OBVIOUS
<1>2. n \in Int /\ n \in Nat
  OBVIOUS
<1> QED
  BY <1>1, <1>2, SubSeqProperties

\* The beginning of a beginning is one.
LEMMA BeginningOfBeginning ==
  ASSUME NEW a \in Seq(Names), NEW m \in 0 .. Len(a), NEW n \in 0 .. m
  PROVE  SubSeq(SubSeq(a, 1, m), 1, n) = SubSeq(a, 1, n)
<1> DEFINE b == SubSeq(a, 1, m)
<1>1. b \in Seq(Names) /\ Len(b) = m /\ \A i \in 1 .. m : b[i] = a[i]
  BY Beginning
<1> HIDE DEF b
<1>2. n \in 0 .. Len(a) /\ n \in 0 .. Len(b)
  BY <1>1
<1>3. /\ SubSeq(b, 1, n) \in Seq(Names) /\ Len(SubSeq(b, 1, n)) = n
      /\ \A i \in 1 .. n : SubSeq(b, 1, n)[i] = b[i]
      /\ SubSeq(a, 1, n) \in Seq(Names) /\ Len(SubSeq(a, 1, n)) = n
      /\ \A i \in 1 .. n : SubSeq(a, 1, n)[i] = a[i]
  BY <1>1, <1>2, Beginning
<1>4. \A i \in 1 .. n : i \in 1 .. m
  OBVIOUS
<1>5. SubSeq(b, 1, n) = SubSeq(a, 1, n)
  BY <1>1, <1>3, <1>4, SeqEqual
<1> QED
  BY <1>5 DEF b

LEMMA WholeBeginning ==
  ASSUME NEW a \in Seq(Names)
  PROVE  SubSeq(a, 1, Len(a)) = a
<1>1. Len(a) \in 0 .. Len(a)
  OBVIOUS
<1> QED
  BY <1>1, Beginning, SeqEqual

\* The last step on the way to a, and the steps before it.
LEMMA FrontAndLast ==
  ASSUME NEW a \in Seq(Names), a # << >>
  PROVE  /\ Len(a) \in Nat \ {0}
         /\ Front(a) \in Seq(Names) /\ Len(Front(a)) = Len(a) - 1
         /\ \A i \in 1 .. Len(a) - 1 : Front(a)[i] = a[i]
         /\ \A n \in 0 .. Len(a) - 1 : SubSeq(Front(a), 1, n) = SubSeq(a, 1, n)
<1>1. Len(a) \in Nat \ {0} /\ Len(a) - 1 \in 0 .. Len(a)
  BY EmptySeq
<1> QED
  BY <1>1, Beginning, BeginningOfBeginning DEF Front

LEMMA PassesFront ==
  ASSUME NEW a \in Seq(Names), a # << >>, NEW d, NEW x
  PROVE  Passes(a, d, x) <=> (d = Front(a) /\ x = Last(a)) \/ Passes(Front(a), d, x)
<1>1. /\ Len(a) \in Nat \ {0} /\ Len(Front(a)) = Len(a) - 1
      /\ \A i \in 1 .. Len(a) - 1 : Front(a)[i] = a[i]
      /\ \A n \in 0 .. Len(a) - 1 : SubSeq(Front(a), 1, n) = SubSeq(a, 1, n)
  BY FrontAndLast
<1>2. ASSUME NEW n \in 0 .. Len(a) - 1, d = SubSeq(a, 1, n), x = a[n + 1]
      PROVE  (d = Front(a) /\ x = Last(a)) \/ Passes(Front(a), d, x)
  <2>1. CASE n = Len(a) - 1
    <3>1. n + 1 = Len(a)
      BY <1>1, <2>1
    <3> QED
      BY <1>2, <2>1, <3>1 DEF Front, Last
  <2>2. CASE n # Len(a) - 1
    <3>1. n \in 0 .. Len(Front(a)) - 1 /\ n + 1 \in 1 .. Len(a) - 1
      BY <1>1, <2>2
    <3>2. d = SubSeq(Front(a), 1, n) /\ x = Front(a)[n + 1]
      BY <1>1, <1>2, <3>1
    <3> QED
      BY <3>1, <3>2 DEF Passes
  <2> QED
    BY <2>1, <2>2
<1>3. ASSUME d = Front(a), x = Last(a) PROVE Passes(a, d, x)
  <2>1. Len(a) - 1 \in 0 .. Len(a) - 1 /\ Len(a) - 1 + 1 = Len(a)
    BY <1>1
  <2> QED
    BY <1>3, <2>1 DEF Passes, Front, Last
<1>4. ASSUME NEW n \in 0 .. Len(Front(a)) - 1, d = SubSeq(Front(a), 1, n), x = Front(a)[n + 1]
      PROVE  Passes(a, d, x)
  <2>1. n \in 0 .. Len(a) - 1 /\ n + 1 \in 1 .. Len(a) - 1
    BY <1>1
  <2>2. d = SubSeq(a, 1, n) /\ x = a[n + 1]
    BY <1>1, <1>4, <2>1
  <2> QED
    BY <2>1, <2>2 DEF Passes
<1> QED
  BY <1>2, <1>3, <1>4 DEF Passes

\* Nothing passes through itself, and the root is on the way to everything.
LEMMA PassesOwn ==
  ASSUME NEW a \in Seq(Names), NEW x
  PROVE  ~Passes(a, a, x)
<1> SUFFICES ASSUME NEW n \in 0 .. Len(a) - 1, a = SubSeq(a, 1, n) PROVE FALSE
  BY DEF Passes
<1>1. n \in 0 .. Len(a) /\ Len(a) \in Nat
  OBVIOUS
<1>2. Len(SubSeq(a, 1, n)) = n
  BY <1>1, Beginning
<1> QED
  BY <1>1, <1>2

LEMMA PassesRoot ==
  ASSUME NEW a, a = << >>, NEW d, NEW x
  PROVE  ~Passes(a, d, x)
<1>1. 0 .. Len(a) - 1 = {}
  OBVIOUS
<1> QED
  BY <1>1 DEF Passes

\* What is on the way to b is on the way to everything below.
LEMMA PassesOn ==
  ASSUME NEW q \in Seq(Names), NEW b, NEW y, NEW d, NEW x, Passes(q, b, y), Passes(b, d, x)
  PROVE  Passes(q, d, x)
<1>1. PICK m \in 0 .. Len(q) - 1 : b = SubSeq(q, 1, m)
  BY DEF Passes
<1>2. m \in 0 .. Len(q) /\ Len(q) \in Nat
  OBVIOUS
<1>3. Len(b) = m /\ \A i \in 1 .. m : b[i] = q[i]
  BY <1>1, <1>2, Beginning
<1>4. PICK n \in 0 .. m - 1 : d = SubSeq(b, 1, n) /\ x = b[n + 1]
  BY <1>3 DEF Passes
<1>5. n \in 0 .. m /\ n \in 0 .. Len(q) - 1 /\ n + 1 \in 1 .. m
  BY <1>2
<1>6. d = SubSeq(q, 1, n) /\ x = q[n + 1]
  BY <1>1, <1>2, <1>3, <1>4, <1>5, BeginningOfBeginning
<1> QED
  BY <1>5, <1>6 DEF Passes

\* An entry on the way to a path is of a directory of the index.
LEMMA PassesDirs ==
  ASSUME NEW q \in Keys, NEW d, NEW x, Passes(q, d, x)
  PROVE  d \in Dirs /\ x \in Names
<1>1. q \in Seq(Names) /\ Len(q) \in Nat
  BY PathNames
<1>2. PICK n \in 0 .. Len(q) - 1 : d = SubSeq(q, 1, n) /\ x = q[n + 1]
  BY DEF Passes
<1>3. n + 1 \in 1 .. Len(q)
  BY <1>1
<1>4. q[n + 1] \in Names
  BY <1>1, <1>3, ElementOfSeq
<1> QED
  BY <1>2, <1>4 DEF Dirs

\* A path that has the entry of a is a or lies below it.
LEMMA PassesBelow ==
  ASSUME NEW q \in Keys, NEW a \in Seq(Names), a # << >>, Passes(q, Front(a), Last(a))
  PROVE  Below(q, a)
<1>1. q \in Seq(Names) /\ Len(q) \in Nat
  BY PathNames
<1>2. /\ Len(a) \in Nat \ {0} /\ Len(Front(a)) = Len(a) - 1
      /\ \A i \in 1 .. Len(a) - 1 : Front(a)[i] = a[i]
  BY FrontAndLast
<1>3. PICK n \in 0 .. Len(q) - 1 : Front(a) = SubSeq(q, 1, n) /\ Last(a) = q[n + 1]
  BY DEF Passes
<1>4. n \in 0 .. Len(q) /\ n + 1 \in 0 .. Len(q)
  BY <1>1
<1>5. n = Len(a) - 1 /\ \A i \in 1 .. n : SubSeq(q, 1, n)[i] = q[i]
  BY <1>1, <1>2, <1>3, <1>4, Beginning
<1>6. /\ SubSeq(q, 1, n + 1) \in Seq(Names) /\ Len(SubSeq(q, 1, n + 1)) = n + 1
      /\ \A i \in 1 .. n + 1 : SubSeq(q, 1, n + 1)[i] = q[i]
  BY <1>1, <1>4, Beginning
<1>7. \A i \in 1 .. n + 1 : a[i] = q[i]
  <2> SUFFICES ASSUME NEW i \in 1 .. n + 1 PROVE a[i] = q[i]
    OBVIOUS
  <2>1. CASE i = n + 1
    BY <1>2, <1>3, <1>5, <2>1 DEF Last
  <2>2. CASE i # n + 1
    <3>1. i \in 1 .. n
      BY <2>2
    <3> QED
      BY <1>2, <1>3, <1>5, <3>1
  <2> QED
    BY <2>1, <2>2
<1>8. SubSeq(q, 1, n + 1) = a
  BY <1>2, <1>5, <1>6, <1>7, SeqEqual
<1>9. CASE n + 1 = Len(q)
  BY <1>1, <1>8, <1>9, WholeBeginning DEF Below
<1>10. CASE n + 1 # Len(q)
  <2>1. n + 1 \in 0 .. Len(q) - 1
    BY <1>1, <1>10
  <2>2. Passes(q, a, q[n + 1 + 1])
    BY <1>8, <2>1 DEF Passes
  <2> QED
    BY <2>2, PassesDirs DEF Below
<1> QED
  BY <1>9, <1>10

\* The places an entry may lead to.
LEMMA PlaceFacts ==
  ASSUME NEW a \in Places
  PROVE  /\ a \in Seq(Names) /\ a # << >> /\ Len(a) \in Nat \ {0}
         /\ Front(a) \in Dirs /\ Last(a) \in Names
         /\ Len(a) = 1 => Front(a) = << >>
         /\ Len(a) # 1 => Front(a) \in Places
<1>0. PICK q \in Keys : \E m \in 1 .. Len(q) : a = SubSeq(q, 1, m)
  BY DEF Places
<1>1. PICK m \in 1 .. Len(q) : a = SubSeq(q, 1, m)
  BY <1>0
<1>2. q \in Seq(Names) /\ Len(q) \in Nat /\ m \in 0 .. Len(q)
  BY PathNames
<1>3. a \in Seq(Names) /\ Len(a) = m
  BY <1>1, <1>2, Beginning
<1>4. a # << >> /\ Len(a) \in Nat \ {0} /\ Len(a) \in 1 .. Len(a)
  BY <1>3, EmptySeq
<1>5. Last(a) \in Names
  BY <1>3, <1>4, ElementOfSeq DEF Last
<1>6. Front(a) = SubSeq(q, 1, m - 1)
  <2>1. m - 1 \in 0 .. m
    OBVIOUS
  <2> QED
    BY <1>1, <1>2, <1>3, <2>1, BeginningOfBeginning DEF Front
<1>7. m - 1 \in 0 .. Len(q) - 1
  BY <1>2
<1>8. Front(a) \in Dirs
  BY <1>6, <1>7 DEF Dirs
<1>9. ASSUME Len(a) = 1 PROVE Front(a) = << >>
  <2>1. Front(a) \in Seq(Names) /\ Len(Front(a)) = 0
    BY <1>3, <1>4, <1>9, FrontAndLast
  <2> QED
    BY <2>1, EmptySeq
<1>10. ASSUME Len(a) # 1 PROVE Front(a) \in Places
  <2>1. m - 1 \in 1 .. Len(q)
    BY <1>2, <1>3, <1>10
  <2> QED
    BY <1>6, <2>1 DEF Places
<1> QED
  BY <1>3, <1>4, <1>5, <1>8, <1>9, <1>10

LEMMA PathPlace ==
  ASSUME NEW q \in Keys
  PROVE  q \in Places
<1>1. q \in Seq(Names) /\ Len(q) \in 1 .. Len(q)
  BY PathNames
<1>2. q = SubSeq(q, 1, Len(q))
  BY <1>1, WholeBeginning
<1>3. q \in {SubSeq(q, 1, n) : n \in 1 .. Len(q)}
  BY <1>1, <1>2
<1> QED
  BY <1>3 DEF Places

\* What an index of some keys lists, entry by entry.
LEMMA ListingEntries ==
  ASSUME NEW S \in SUBSET Keys, NEW d \in Dirs, NEW x
  PROVE  x \in Listing(S)[d] <=> \E q \in S : Passes(q, d, x)
<1> DEFINE Has(q) == Len(q) > Len(d) /\ SubSeq(q, 1, Len(d)) = d /\ x = q[Len(d) + 1]
<1>1. ASSUME NEW q \in Keys PROVE Has(q) <=> Passes(q, d, x)
  <2>1. q \in Seq(Names) /\ Len(q) \in Nat
    BY PathNames
  <2>2. PICK r \in Keys : \E m \in 0 .. Len(r) - 1 : d = SubSeq(r, 1, m)
    BY DEF Dirs
  <2>7. PICK m \in 0 .. Len(r) - 1 : d = SubSeq(r, 1, m)
    BY <2>2
  <2>3. r \in Seq(Names) /\ m \in 0 .. Len(r)
    BY PathNames
  <2>4. Len(d) \in Nat
    BY <2>7, <2>3, Beginning
  <2>5. ASSUME Has(q) PROVE Passes(q, d, x)
    <3>1. Len(d) \in 0 .. Len(q) - 1
      BY <2>1, <2>4, <2>5
    <3> QED
      BY <2>5, <3>1 DEF Passes
  <2>6. ASSUME Passes(q, d, x) PROVE Has(q)
    <3>1. PICK n \in 0 .. Len(q) - 1 : d = SubSeq(q, 1, n) /\ x = q[n + 1]
      BY <2>6 DEF Passes
    <3>2. n \in 0 .. Len(q)
      BY <2>1
    <3>3. Len(d) = n
      BY <2>1, <3>1, <3>2, Beginning
    <3> QED
      BY <2>1, <3>1, <3>3
  <2> QED
    BY <2>5, <2>6
<1>2. x \in Listing(S)[d] <=> \E q \in S : Has(q)
  BY DEF Listing
<1> HIDE DEF Has
<1> QED
  BY <1>1, <1>2

-----------------------------------------------------------------------------
(* Types                                                                   *)

LEMMA OpNames ==
  /\ Ops = {"add", "push", "insert", "update", "update_key", "remove", "remove_key", "mount", "none"}
  /\ FirstCommand["add"] = "set" /\ FirstCommand["push"] = "rpush" /\ FirstCommand["insert"] = "hset"
  /\ FirstCommand["update"] = "lock" /\ FirstCommand["update_key"] = "lock"
  /\ FirstCommand["remove"] = "get" /\ FirstCommand["remove_key"] = "hget"
  /\ FirstCommand["mount"] = "marked"
BY DEF Ops, FirstCommand

LEMMA ProcTypes ==
  ASSUME Typed, ShapeInv, NEW p \in Procs
  PROVE  /\ proc[p] \in Proc /\ Shaped(proc[p])
         /\ proc[p].pc \in Pcs /\ proc[p].op \in Ops /\ proc[p].at \in Places \cup {<< >>}
         /\ proc[p].todo \in Seq(Keys) /\ proc[p].no \in Nat /\ proc[p].seen \in SUBSET Nat
BY DEF Typed, ShapeInv, Proc

LEMMA NothingThere ==
  None \in Entries /\ Sound(None) /\ None.type = "none" /\ None.of = {} /\ None.lock = Nobody /\ None.due = FALSE
BY DEF None, Entries, Sound, Types

LEMMA NewValue ==
  ASSUME NEW t \in Types \ {"none"}, NEW s \in SUBSET Nat, NEW due \in BOOLEAN
  PROVE  /\ Value(t, s, due) \in Entries /\ Sound(Value(t, s, due))
         /\ Value(t, s, due).type = t /\ Value(t, s, due).of = s
         /\ Value(t, s, due).lock = Nobody /\ Value(t, s, due).due = due
BY DEF Value, Entries, Sound

LEMMA NewLock ==
  ASSUME NEW p \in Procs, NEW v \in LockBytes(p)
  PROVE  /\ v \in Entries /\ Sound(v) /\ v.type \in {"raw", "string"}
         /\ v.of = {} /\ v.lock = p /\ v.due = FALSE
<1>1. PICK t \in {"string", "raw"} : v = [type |-> t, of |-> {}, lock |-> p, due |-> FALSE]
  BY DEF LockBytes
<1>2. t \in Types /\ t # "none" /\ {} \in SUBSET Nat /\ FALSE \in BOOLEAN
  BY DEF Types
<1> QED
  BY <1>1, <1>2 DEF Entries, Sound

\* What the store has at a key.
LEMMA EntryTypes ==
  ASSUME Typed, NEW k \in Keys
  PROVE  /\ store[k] \in Entries /\ Sound(store[k])
         /\ store[k].type \in Types /\ store[k].of \in SUBSET Nat
         /\ store[k].lock \in Procs \cup {Nobody} /\ store[k].due \in BOOLEAN
         /\ store[k].due => Stored(k)
         /\ store[k].lock = Nobody => (Stored(k) <=> store[k] # None)
<1>1. store[k] \in Entries /\ Sound(store[k])
  BY DEF Typed
<1> QED
  BY <1>1, NothingThere DEF Entries, Sound, Stored

LEMMA IdleShaped ==
  /\ Idle \in Proc /\ Shaped(Idle) /\ Idle.pc = "idle" /\ Idle.op = "none"
  /\ LET r == [Idle EXCEPT !.pc = "unmounted"]
     IN  r \in Proc /\ Shaped(r) /\ r.pc = "unmounted" /\ r.op = "none"
<1>1. << >> \in Seq(Keys) /\ 0 \in Nat
  BY EmptySeq
<1> QED
  BY <1>1, OpNames DEF Idle, Proc, Pcs, Shaped, Fits, Direct, Removing, Mounting

\* A process moves, and nobody else.
LEMMA Moves ==
  ASSUME Typed, ShapeInv, NEW p \in Procs, NEW r \in Proc, Shaped(r),
         proc' = [proc EXCEPT ![p] = r]
  PROVE  /\ proc' \in [Procs -> Proc] /\ ShapeInv'
         /\ proc'[p] = r /\ \A q \in Procs : q # p => proc'[q] = proc[q]
BY DEF Typed, ShapeInv

\* It goes to another command, or its operation is over.
LEMMA GotoMoves ==
  ASSUME Typed, ShapeInv, NEW p \in Procs, NEW pc \in Pcs \ {"sadd"}, Goto(p, pc),
         Fits(pc, proc[p].op), pc \in Direct => proc[p].at \in Paths,
         pc \in Removing => proc[p].at \in Places, pc = "parent" => Len(proc[p].at) # 1
  PROVE  /\ proc' \in [Procs -> Proc] /\ ShapeInv'
         /\ \A q \in Procs : q # p => proc'[q] = proc[q]
         /\ proc'[p].pc = pc /\ proc'[p].op = proc[p].op /\ proc'[p].at = proc[p].at
         /\ proc'[p].todo = proc[p].todo /\ proc'[p].no = proc[p].no /\ proc'[p].seen = proc[p].seen
<1> DEFINE r == [proc[p] EXCEPT !.pc = pc]
<1>1. /\ r \in Proc /\ r.pc = pc /\ r.op = proc[p].op /\ r.at = proc[p].at
      /\ r.todo = proc[p].todo /\ r.no = proc[p].no /\ r.seen = proc[p].seen
  BY ProcTypes DEF Proc
<1>2. proc' = [proc EXCEPT ![p] = r]
  BY DEF Goto
<1> HIDE DEF r
<1>3. Shaped(r)
  BY <1>1 DEF Shaped
<1>4. proc' \in [Procs -> Proc] /\ ShapeInv' /\ proc'[p] = r
      /\ \A q \in Procs : q # p => proc'[q] = proc[q]
  BY <1>1, <1>2, <1>3, Moves
<1> QED
  BY <1>1, <1>4

LEMMA EndMoves ==
  ASSUME Typed, ShapeInv, NEW p \in Procs, End(p)
  PROVE  /\ proc' \in [Procs -> Proc] /\ ShapeInv'
         /\ \A q \in Procs : q # p => proc'[q] = proc[q]
         /\ proc'[p].pc = "idle" /\ proc'[p].op = "none"
BY IdleShaped, Moves DEF End

\* It has entries to add, or none.
LEMMA IndexMoves ==
  ASSUME Typed, ShapeInv, NEW p \in Procs, NEW paths \in Seq(Keys), IndexNext(p, paths),
         proc[p].op \in {"add", "push", "insert"} => Len(paths) = 1,
         proc[p].op \in {"add", "push", "insert", "mount"}
  PROVE  /\ proc' \in [Procs -> Proc] /\ ShapeInv'
         /\ \A q \in Procs : q # p => proc'[q] = proc[q]
         /\ proc'[p].pc = (IF paths = << >> THEN "mark" ELSE "sadd")
         /\ proc'[p].op = proc[p].op /\ proc'[p].todo = paths /\ proc'[p].seen = {}
<1> DEFINE r == [proc[p] EXCEPT !.pc = IF paths = << >> THEN "mark" ELSE "sadd",
                                !.todo = paths, !.seen = {}]
<1>1. /\ r \in Proc /\ r.pc = (IF paths = << >> THEN "mark" ELSE "sadd") /\ r.op = proc[p].op
      /\ r.todo = paths /\ r.seen = {}
  BY ProcTypes DEF Proc, Pcs, Mounting
<1>2. proc' = [proc EXCEPT ![p] = r]
  BY DEF IndexNext
<1> HIDE DEF r
<1>3. paths # << >> => Len(Head(paths)) > 0
  <2> SUFFICES ASSUME paths # << >> PROVE Len(Head(paths)) > 0
    OBVIOUS
  <2>1. Head(paths) \in Keys
    OBVIOUS
  <2> QED
    BY <2>1, PathNames
<1>4. 0 \in Nat /\ r.seen = 0 .. 0 - 1
  BY <1>1
<1>5. Shaped(r)
  <2>1. CASE paths = << >>
    <3>1. Len(paths) = 0
      BY <2>1
    <3>2. proc[p].op = "mount"
      BY <3>1
    <3> QED
      BY <1>1, <2>1, <3>2 DEF Shaped, Fits, Direct, Removing, Mounting
  <2>2. CASE paths # << >>
    <3>1. r.op \in {"add", "push", "insert", "mount"} /\ r.pc = "sadd"
      BY <1>1, <2>2
    <3>2. Fits(r.pc, r.op)
      BY <3>1 DEF Fits, Removing, Mounting
    <3>3. r.pc \notin Direct /\ r.pc \notin Removing
      BY <3>1 DEF Direct, Removing
    <3> QED
      BY <1>1, <1>3, <1>4, <2>2, <3>1, <3>2, <3>3 DEF Shaped
  <2> QED
    BY <2>1, <2>2
<1>6. proc' \in [Procs -> Proc] /\ ShapeInv' /\ proc'[p] = r
      /\ \A q \in Procs : q # p => proc'[q] = proc[q]
  BY <1>1, <1>2, <1>5, Moves
<1> QED
  BY <1>1, <1>6

-----------------------------------------------------------------------------
(* What a step leaves alone                                                *)

\* The others stay where they are.
OthersStay(p) == \A q \in Procs : q # p => proc'[q] = proc[q]

\* No lock is taken beside a removal or a rebuilding.
NoNewLock ==
  ~damaged' => ((\E r \in Procs : Clears(proc[r].op)) /\ Unlocked => Unlocked')

\* A key that has a value keeps one, and who is to list it stays the same.
SameKeys ==
  /\ ~damaged' => \A q \in Keys : (Stored(q) => Stored(q)') /\ (store'[q].due <=> store[q].due)
  /\ NoNewLock

LEMMA SameStore ==
  ASSUME UNCHANGED store
  PROVE  SameKeys /\ NoNewLock
BY DEF SameKeys, NoNewLock, Unlocked, Stored

LEMMA UpdateStays ==
  ASSUME UpdateInv, NEW p \in Procs, OthersStay(p), UNCHANGED <<store, wrote>>,
         unsafe \subseteq unsafe', proc'[p].pc \notin {"read", "write"}
  PROVE  UpdateInv'
<1>1. \A q \in Procs : proc'[q].pc \in {"read", "write"} => q # p /\ proc'[q] = proc[q]
  BY DEF OthersStay
<1> QED
  BY <1>1 DEF UpdateInv, NoUpdateLost, LockOf, At, Wanted

\* An operation goes on, or is over.
LEMMA AloneStays ==
  ASSUME AloneInv, NEW p \in Procs, OthersStay(p), damaged => damaged', Active(p), NoNewLock,
         proc'[p].op = "none" \/ proc'[p].op = proc[p].op
  PROVE  AloneInv'
<1>1. ~Clears("none")
  BY DEF Clears
<1>2. \A q \in Procs : Clears(proc'[q].op) => Clears(proc[q].op)
  BY <1>1 DEF OthersStay
<1>3. ~damaged' => \A a, b \in Procs : Active(a)' /\ Active(b)' /\ Clears(proc'[a].op) => a = b
  BY <1>2 DEF AloneInv, Active, OthersStay
<1>4. ~damaged' => \A q \in Procs : Clears(proc'[q].op) => Unlocked'
  BY <1>2 DEF AloneInv, NoNewLock
<1> QED
  BY <1>3, <1>4 DEF AloneInv

LEMMA BuildStays ==
  ASSUME BuildInv, NEW p \in Procs, OthersStay(p), damaged => damaged', rebuilt' = rebuilt,
         \/ /\ proc'[p].op = proc[p].op /\ Active(p)
            /\ proc[p].op = "mount" /\ ~damaged' /\ proc'[p].pc \in {"scan", "wipe", "sadd", "mark"} =>
                 ~rebuilt
         \/ /\ proc'[p].pc = "idle" /\ proc'[p].op = "none" /\ Active(p)
            /\ proc[p].op # "mount" \/ rebuilt
         \/ proc'[p].pc = "unmounted" /\ proc'[p].op = "none"
  PROVE  BuildInv'
<1>1. ASSUME ~rebuilt' PROVE \A q \in Procs : proc'[q].pc = "unmounted" \/ proc'[q].op = "mount"
  BY <1>1 DEF BuildInv, OthersStay, At, Active
<1>2. ASSUME ~damaged', NEW q \in Procs,
             proc'[q].op = "mount" /\ proc'[q].pc \in {"scan", "wipe", "sadd", "mark"}
      PROVE  ~rebuilt'
  <2>1. CASE q = p
    BY <1>2, <2>1
  <2>2. CASE q # p
    BY <1>2, <2>2 DEF BuildInv, OthersStay
  <2> QED
    BY <2>1, <2>2
<1> QED
  BY <1>1, <1>2 DEF BuildInv, At

LEMMA KnowsStill ==
  ASSUME Typed, ShapeInv, SameKeys, ~damaged', NEW q \in Procs, Knows(q), proc'[q] = proc[q],
         UNCHANGED index
  PROVE  Knows(q)'
<1>1. ToSet(proc[q].todo) \subseteq Keys
  <2>1. proc[q].todo \in Seq(Keys)
    BY ProcTypes
  <2> QED
    BY <2>1 DEF ToSet
<1>2. \A r \in ToSet(proc[q].todo) : Stored(r) => Stored(r)'
  BY <1>1 DEF SameKeys
<1>3. \A r \in Keys : store'[r].due <=> store[r].due
  BY DEF SameKeys
<1>4. At(q, "sadd")' => \A r \in ToSet(proc'[q].todo) : Stored(r)'
  BY <1>2 DEF Knows, At
<1>5. At(q, "wipe")' => /\ \A r \in ToSet(proc'[q].todo) : Stored(r)'
                        /\ \A r \in Keys : store'[r].due => r \in ToSet(proc'[q].todo)
  BY <1>2, <1>3 DEF Knows, At
<1>6. At(q, "kids")' => \A r \in Keys : r = proc'[q].at => ~store'[r].due
  BY <1>3 DEF Knows, At
<1>7. At(q, "srem")' => \A r \in Keys : Below(r, proc'[q].at) => ~store'[r].due
  BY <1>3 DEF Knows, At
<1>8. proc'[q].pc \in {"rmdir", "parent"} => index'[Front(proc'[q].at)] = {}
  BY DEF Knows
<1> QED
  BY <1>4, <1>5, <1>6, <1>7, <1>8 DEF Knows

LEMMA KnowStays ==
  ASSUME Typed, ShapeInv, KnowInv, NEW p \in Procs, OthersStay(p), damaged => damaged', SameKeys,
         UNCHANGED index, ~damaged' => Knows(p)'
  PROVE  KnowInv'
<1>1. ASSUME ~damaged', NEW q \in Procs, q # p PROVE Knows(q)'
  BY <1>1, KnowsStill DEF KnowInv, OthersStay
<1> QED
  BY <1>1 DEF KnowInv

\* An entry that leads to a value goes on to, and no other is to be listed.
LEMMA DueStays ==
  ASSUME SameKeys, ~damaged', NEW d, NEW x
  PROVE  (Due(d, x) => Due(d, x)') /\ (MustDue(d, x)' <=> MustDue(d, x))
BY DEF SameKeys, Due, MustDue

LEMMA ListStays ==
  ASSUME ListInv, NEW p \in Procs, OthersStay(p), damaged => damaged', SameKeys,
         UNCHANGED <<index, rebuilt>>, ~damaged' /\ Ready' => Ready,
         ~damaged' => \A d \in Dirs : \A x \in Names :
           /\ x \in index[d] /\ Trace(p, d, x) => Due(d, x) \/ Trace(p, d, x)'
           /\ Left(p, d, x) => x \in index[d] \/ Left(p, d, x)'
  PROVE  ListInv'
<1> SUFFICES ASSUME ~damaged', Ready', NEW d \in Dirs, NEW x \in Names
             PROVE  /\ x \in index'[d] => Due(d, x)' \/ \E q \in Procs : Trace(q, d, x)'
                    /\ MustDue(d, x)' => x \in index'[d] \/ \E q \in Procs : Left(q, d, x)'
  BY DEF ListInv
<1>1. /\ x \in index[d] => Due(d, x) \/ \E q \in Procs : Trace(q, d, x)
      /\ MustDue(d, x) => x \in index[d] \/ \E q \in Procs : Left(q, d, x)
  BY DEF ListInv
<1>2. (Due(d, x) => Due(d, x)') /\ (MustDue(d, x)' <=> MustDue(d, x))
  BY DueStays
<1>3. ASSUME NEW q \in Procs, q # p
      PROVE  (Trace(q, d, x) => Trace(q, d, x)') /\ (Left(q, d, x) => Left(q, d, x)')
  BY <1>3 DEF OthersStay, Trace, Left, At
<1> QED
  BY <1>1, <1>2, <1>3

\* Who clears or builds is alone, unless that is on record.
LEMMA Solo ==
  ASSUME Typed, ShapeInv, AloneInv, ~damaged, NEW p \in Procs, Clears(proc[p].op)
  PROVE  \A q \in Procs : q # p => /\ ~Active(q) /\ proc[q].op = "none"
                                   /\ proc[q].pc \in {"idle", "unmounted"}
<1>1. \A q \in Procs : proc[q].op = "none" <=> ~Active(q)
  BY ProcTypes DEF Shaped, Fits, Active
<1>2. Active(p)
  BY <1>1 DEF Clears
<1> QED
  BY <1>1, <1>2 DEF AloneInv, Active

\* The invariants of the index.
IndexInv == AloneInv /\ BuildInv /\ KnowInv /\ ListInv

\* A command that takes no value away and leaves the index.
LEMMA QuietKeeps ==
  ASSUME Inv, NEW p \in Procs, proc[p].pc \in Direct, OthersStay(p), SameKeys,
         UNCHANGED <<index, rebuilt, damaged>>,
         \/ proc'[p].pc = "idle" /\ proc'[p].op = "none"
         \/ proc'[p].pc \in Direct /\ proc'[p].op = proc[p].op
  PROVE  IndexInv'
<1>1. /\ Active(p) /\ proc[p].op # "mount" /\ proc[p].op # "none"
      /\ proc[p].pc \notin Removing /\ proc[p].pc # "sadd"
      /\ proc'[p].pc \notin Removing /\ proc'[p].pc \notin {"sadd", "wipe", "scan", "mark"}
  BY ProcTypes DEF Inv, Active, Shaped, Fits, Direct, Removing
<1>2. AloneInv'
  BY <1>1, AloneStays DEF Inv, SameKeys
<1>3. BuildInv'
  BY <1>1, BuildStays DEF Inv
<1>4. KnowInv'
  <2>1. ~damaged' => Knows(p)'
    BY <1>1 DEF Knows, At, Removing
  <2> QED
    BY <2>1, KnowStays DEF Inv
<1>5. ListInv'
  <2>1. \A d, x : ~Trace(p, d, x) /\ ~Left(p, d, x)
    BY <1>1 DEF Trace, Left, At, Removing
  <2>2. Ready' => Ready
    <3>1. proc'[p].op # "mount"
      BY <1>1
    <3> QED
      BY <3>1 DEF Ready, OthersStay
  <2> QED
    BY <2>1, <2>2, ListStays DEF Inv
<1> QED
  BY <1>2, <1>3, <1>4, <1>5 DEF IndexInv

-----------------------------------------------------------------------------
(* Updates                                                                 *)

LEMMA LockNames ==
  ASSUME Typed, ShapeInv, NEW p \in Procs, proc[p].pc \in {"lock", "read", "write", "unlock"}
  PROVE  /\ LockOf(p) \in Keys /\ proc[p].at \in Paths /\ proc[p].at \in Keys
         /\ proc[p].op \in {"update", "update_key"}
         /\ proc[p].op = "update" => LockOf(p) = proc[p].at /\ Wanted(p) = "string"
         /\ proc[p].op = "update_key" => LockOf(p) = KeyLock[proc[p].at] /\ LockOf(p) \notin Paths
                                         /\ Wanted(p) = "hash"
<1>1. proc[p].at \in Paths /\ proc[p].op \in {"update", "update_key"}
  BY ProcTypes DEF Shaped, Fits, Direct
<1> QED
  BY <1>1, RedisAssumption DEF LockOf, Keys, Wanted

\* What an update that is not past saving knows, between the lock and the write:
\* the value it has read is no lock of another.
LEMMA UpdateFacts ==
  ASSUME Typed, ShapeInv, UpdateInv, NEW p \in Procs, proc[p].pc \in {"read", "write"},
         proc[p].at \notin unsafe
  PROVE  /\ store[LockOf(p)].lock = p
         /\ At(p, "write") => /\ store[proc[p].at].type = Wanted(p) /\ store[proc[p].at].of = proc[p].seen
                              /\ store[proc[p].at].lock \in {p, Nobody}
<1>1. store[LockOf(p)].lock = p
  BY DEF UpdateInv
<1>2. ASSUME At(p, "write")
      PROVE  /\ store[proc[p].at].type = Wanted(p) /\ store[proc[p].at].of = proc[p].seen
             /\ store[proc[p].at].lock \in {p, Nobody}
  <2>1. store[proc[p].at].type = Wanted(p) /\ store[proc[p].at].of = proc[p].seen
    BY <1>2 DEF UpdateInv
  <2>2. CASE proc[p].op = "update"
    BY <1>1, <2>1, <2>2, LockNames
  <2>3. CASE proc[p].op # "update"
    <3>1. store[proc[p].at].type = "hash" /\ proc[p].at \in Keys
      BY <2>1, <2>3, LockNames
    <3> QED
      BY <2>1, <3>1, EntryTypes DEF Sound
  <2> QED
    BY <2>2, <2>3
<1> QED
  BY <1>1, <1>2

LEMMA LockKeeps ==
  ASSUME Inv, Nobody \notin Procs, NEW p \in Procs, Lock(p)
  PROVE  Inv'
<1> DEFINE key == LockOf(p)
<1>1. /\ proc[p].pc = "lock" /\ store[key] = None /\ TakeLock(p)
      /\ Goto(p, "read")
      /\ UNCHANGED <<index, rebuilt, ops, faults, wrote, unsafe, damaged>>
  BY DEF Lock, At
<1>2. /\ key \in Keys /\ proc[p].at \in Paths /\ proc[p].op \in {"update", "update_key"}
  BY <1>1, LockNames DEF Inv
<1>3. "read" \in Pcs \ {"sadd"} /\ "read" \notin Removing /\ Fits("read", proc[p].op) /\ "read" \in Direct
      /\ "lock" \in Direct
  BY <1>2 DEF Pcs, Direct, Removing, Mounting, Fits
<1>4. /\ proc' \in [Procs -> Proc] /\ ShapeInv' /\ OthersStay(p)
      /\ proc'[p].pc = "read" /\ proc'[p].op = proc[p].op /\ proc'[p].at = proc[p].at
  BY <1>1, <1>2, <1>3, GotoMoves DEF Inv, OthersStay
<1>5. PICK v \in LockBytes(p) : store' = [store EXCEPT ![key] = v]
  BY <1>1 DEF TakeLock
<1>6. v \in Entries /\ Sound(v) /\ v.of = {} /\ v.lock = p /\ v.due = FALSE
  BY NewLock
<1>7. /\ store' \in [Keys -> Entries] /\ store'[key] = v
      /\ \A k \in Keys : k # key => store'[k] = store[k]
  BY <1>2, <1>5, <1>6 DEF Inv, Typed
<1>8. Typed'
  <2>1. \A k \in Keys : Sound(store'[k])
    BY <1>6, <1>7 DEF Inv, Typed
  <2> QED
    BY <1>1, <1>4, <1>7, <2>1 DEF Inv, Typed
<1>9. ASSUME NEW q \in Procs, q # p, proc'[q].pc \in {"read", "write"}, proc'[q].at \notin unsafe'
      PROVE  /\ proc'[q] = proc[q] /\ proc[q].pc \in {"read", "write"} /\ proc[q].at \notin unsafe
             /\ LockOf(q) \in Keys /\ LockOf(q) # key /\ store[LockOf(q)].lock = q
             /\ proc[q].at \in Keys /\ (At(q, "write") => proc[q].at # key)
  <2>1. proc'[q] = proc[q] /\ proc[q].pc \in {"read", "write"} /\ proc[q].at \notin unsafe
    BY <1>1, <1>4, <1>9 DEF OthersStay
  <2>2. LockOf(q) \in Keys /\ proc[q].at \in Keys /\ Wanted(q) # "none"
    BY <2>1, LockNames DEF Inv, Wanted
  <2>3. store[LockOf(q)].lock = q
    BY <2>1, UpdateFacts DEF Inv
  <2>4. LockOf(q) # key
    BY <1>1, <2>3, NothingThere
  <2>5. At(q, "write") => store[proc[q].at].type # "none"
    BY <2>1, <2>2, UpdateFacts DEF Inv
  <2> QED
    BY <1>1, <2>1, <2>2, <2>3, <2>4, <2>5, NothingThere
<1>10. UpdateInv'
  <2>1. ASSUME NEW q \in Procs, proc'[q].pc \in {"read", "write"}, proc'[q].at \notin unsafe'
        PROVE  store'[LockOf(q)'].lock = q
    <3>1. CASE q = p
      <4>1. LockOf(p)' = key
        BY <1>4 DEF LockOf
      <4> QED
        BY <1>6, <1>7, <3>1, <4>1
    <3>2. CASE q # p
      <4>1. /\ proc'[q] = proc[q] /\ LockOf(q) \in Keys /\ LockOf(q) # key /\ store[LockOf(q)].lock = q
        BY <1>9, <2>1, <3>2
      <4>2. LockOf(q)' = LockOf(q)
        BY <4>1 DEF LockOf
      <4> QED
        BY <1>7, <4>1, <4>2
    <3> QED
      BY <3>1, <3>2
  <2>2. ASSUME NEW q \in Procs, At(q, "write")', proc'[q].at \notin unsafe'
        PROVE  store'[proc'[q].at].type = Wanted(q)' /\ store'[proc'[q].at].of = proc'[q].seen
    <3>1. q # p
      BY <1>4, <2>2 DEF At
    <3>2. /\ proc'[q] = proc[q] /\ At(q, "write") /\ proc[q].at \notin unsafe
          /\ proc[q].at \in Keys /\ proc[q].at # key
      BY <1>9, <2>2, <3>1 DEF At
    <3>3. store[proc[q].at].type = Wanted(q) /\ store[proc[q].at].of = proc[q].seen
      BY <3>2 DEF Inv, UpdateInv
    <3> QED
      BY <1>7, <3>2, <3>3 DEF Wanted
  <2>3. NoUpdateLost'
    <3> SUFFICES ASSUME NEW q \in Paths, q \notin unsafe PROVE store'[q].of = wrote[q]
      BY <1>1 DEF NoUpdateLost
    <3>1. store[q].of = wrote[q] /\ q \in Keys
      BY DEF Inv, UpdateInv, NoUpdateLost, Keys
    <3>2. CASE q = key
      <4>1. store[q].of = {} /\ store'[q].of = {}
        BY <1>1, <1>6, <1>7, <3>2, NothingThere
      <4> QED
        BY <3>1, <4>1
    <3>3. CASE q # key
      BY <1>7, <3>1, <3>3
    <3> QED
      BY <3>2, <3>3
  <2> QED
    BY <2>1, <2>2, <2>3 DEF UpdateInv
<1>11. SameKeys
  <2>1. ASSUME ~damaged', NEW r \in Procs, Clears(proc[r].op) PROVE FALSE
    <3>1. Active(r) /\ Active(p)
      <4>1. proc[r].op # "none"
        BY <2>1 DEF Clears
      <4> QED
        BY <1>1, <4>1, ProcTypes DEF Inv, Shaped, Fits, Active
    <3>2. r = p
      BY <1>1, <2>1, <3>1 DEF Inv, AloneInv
    <3> QED
      BY <1>2, <2>1, <3>2 DEF Clears
  <2>2. ASSUME NEW q \in Keys PROVE (Stored(q) => Stored(q)') /\ (store'[q].due <=> store[q].due)
    <3>1. CASE q = key
      BY <1>1, <1>6, <1>7, <3>1, NothingThere DEF Stored
    <3>2. CASE q # key
      BY <1>7, <3>2 DEF Stored
    <3> QED
      BY <3>1, <3>2
  <2> QED
    BY <2>1, <2>2 DEF SameKeys, NoNewLock
<1>12. IndexInv'
  BY <1>1, <1>3, <1>4, <1>11, QuietKeeps
<1> QED
  BY <1>4, <1>8, <1>10, <1>12 DEF Inv, IndexInv

\* The value is read; a missing one, or one of another type, ends the update.
LEMMA ReadKeeps ==
  ASSUME Inv, NEW p \in Procs, Read(p)
  PROVE  Inv'
<1> DEFINE v == store[proc[p].at]
<1>1. /\ proc[p].pc = "read"
      /\ IF v.type = Wanted(p)
         THEN proc' = [proc EXCEPT ![p].pc = "write", ![p].seen = v.of]
         ELSE End(p)
      /\ UNCHANGED <<store, index, rebuilt, ops, faults, wrote, unsafe, damaged>>
  BY DEF Read, At
<1>2. /\ proc[p].at \in Paths /\ proc[p].at \in Keys /\ proc[p].op \in {"update", "update_key"}
  BY <1>1, LockNames DEF Inv
<1>3. "read" \in Direct /\ "write" \in Direct
  BY DEF Direct
<1>4. CASE v.type = Wanted(p)
  <2> DEFINE r == [proc[p] EXCEPT !.pc = "write", !.seen = v.of]
  <2>1. v.of \in SUBSET Nat
    BY <1>2, EntryTypes DEF Inv
  <2>2. r \in Proc /\ r.pc = "write" /\ r.op = proc[p].op /\ r.at = proc[p].at /\ r.seen = v.of
    BY <2>1, ProcTypes DEF Inv, Proc, Pcs, Direct
  <2>3. proc' = [proc EXCEPT ![p] = r]
    BY <1>1, <1>4
  <2> HIDE DEF r
  <2>4. Shaped(r)
    BY <1>2, <2>2 DEF Shaped, Fits, Direct, Removing, Mounting
  <2>5. /\ proc' \in [Procs -> Proc] /\ ShapeInv' /\ proc'[p] = r /\ OthersStay(p)
    BY <2>2, <2>3, <2>4, Moves DEF Inv, OthersStay
  <2>6. Typed'
    BY <1>1, <2>5 DEF Inv, Typed
  <2>8. UpdateInv'
    <3>1. \A q \in Procs : proc'[q].pc \in {"read", "write"} /\ proc'[q].at \notin unsafe' =>
            store'[LockOf(q)'].lock = q
      BY <1>1, <2>2, <2>5 DEF Inv, UpdateInv, OthersStay, LockOf
    <3>2. ASSUME NEW q \in Procs, At(q, "write")', proc'[q].at \notin unsafe'
          PROVE  store'[proc'[q].at].type = Wanted(q)' /\ store'[proc'[q].at].of = proc'[q].seen
      <4>1. CASE q = p
        BY <1>1, <1>4, <2>2, <2>5, <4>1 DEF Wanted
      <4>2. CASE q # p
        BY <1>1, <2>5, <3>2, <4>2 DEF Inv, UpdateInv, OthersStay, At, Wanted
      <4> QED
        BY <4>1, <4>2
    <3> QED
      BY <1>1, <3>1, <3>2 DEF Inv, UpdateInv, NoUpdateLost
  <2>9. IndexInv'
    BY <1>1, <1>3, <2>2, <2>5, SameStore, QuietKeeps
  <2> QED
    BY <2>5, <2>6, <2>8, <2>9 DEF Inv, IndexInv
<1>5. CASE v.type # Wanted(p)
  <2>1. /\ proc' \in [Procs -> Proc] /\ ShapeInv' /\ OthersStay(p)
        /\ proc'[p].pc = "idle" /\ proc'[p].op = "none"
    BY <1>1, <1>5, EndMoves DEF Inv, OthersStay
  <2>2. Typed'
    BY <1>1, <2>1 DEF Inv, Typed
  <2>3. UpdateInv'
    BY <1>1, <2>1, UpdateStays DEF Inv
  <2>4. IndexInv'
    BY <1>1, <1>3, <2>1, SameStore, QuietKeeps
  <2> QED
    BY <2>1, <2>2, <2>3, <2>4 DEF Inv, IndexInv
<1> QED
  BY <1>4, <1>5

\* A lock goes that nobody who is not past saving works under.
LEMMA LockGone ==
  ASSUME Inv, NEW key \in Keys, store[key].lock # Nobody, store' = [store EXCEPT ![key] = None],
         UNCHANGED wrote, unsafe \subseteq unsafe',
         \A q \in Procs : proc'[q].pc \in {"read", "write"} /\ proc'[q].at \notin unsafe' =>
           proc'[q] = proc[q] /\ ~Holding(q, key)
  PROVE  /\ UpdateInv' /\ SameKeys
         /\ store' \in [Keys -> Entries] /\ \A k \in Keys : Sound(store'[k])
<1>1. /\ store' \in [Keys -> Entries] /\ store'[key] = None
      /\ \A k \in Keys : k # key => store'[k] = store[k]
      /\ \A k \in Keys : Sound(store'[k])
  BY NothingThere DEF Inv, Typed
<1>2. store[key].of = {} /\ store[key].type \in {"raw", "string"} /\ store[key].due = FALSE
  BY EntryTypes DEF Inv, Sound
<1>3. ASSUME NEW q \in Procs, proc'[q].pc \in {"read", "write"}, proc'[q].at \notin unsafe'
      PROVE  /\ proc'[q] = proc[q] /\ proc[q].pc \in {"read", "write"} /\ proc[q].at \notin unsafe
             /\ LockOf(q) \in Keys /\ LockOf(q) # key /\ store[LockOf(q)].lock = q
             /\ proc[q].at \in Keys /\ (At(q, "write") => proc[q].at # key)
  <2>1. /\ proc'[q] = proc[q] /\ proc[q].pc \in {"read", "write"} /\ proc[q].at \notin unsafe
        /\ ~Holding(q, key)
    BY <1>3
  <2>2. LockOf(q) \in Keys /\ proc[q].at \in Keys /\ store[LockOf(q)].lock = q
    BY <2>1, LockNames, UpdateFacts DEF Inv
  <2>3. LockOf(q) # key
    BY <2>1, <2>2 DEF Holding
  <2>4. ASSUME At(q, "write"), proc[q].at = key PROVE FALSE
    <3>1. Wanted(q) # "hash"
      BY <1>2, <2>1, <2>4, UpdateFacts DEF Inv
    <3> QED
      BY <2>1, <2>3, <2>4, <3>1, LockNames DEF Inv
  <2> QED
    BY <2>1, <2>2, <2>3, <2>4
<1>4. UpdateInv'
  <2>1. ASSUME NEW q \in Procs, proc'[q].pc \in {"read", "write"}, proc'[q].at \notin unsafe'
        PROVE  store'[LockOf(q)'].lock = q
    <3>1. /\ proc'[q] = proc[q] /\ LockOf(q) \in Keys /\ LockOf(q) # key /\ store[LockOf(q)].lock = q
      BY <1>3, <2>1
    <3>2. LockOf(q)' = LockOf(q)
      BY <3>1 DEF LockOf
    <3> QED
      BY <1>1, <3>1, <3>2
  <2>2. ASSUME NEW q \in Procs, At(q, "write")', proc'[q].at \notin unsafe'
        PROVE  store'[proc'[q].at].type = Wanted(q)' /\ store'[proc'[q].at].of = proc'[q].seen
    <3>1. /\ proc'[q] = proc[q] /\ At(q, "write") /\ proc[q].at \notin unsafe
          /\ proc[q].at \in Keys /\ proc[q].at # key
      BY <1>3, <2>2 DEF At
    <3>2. store[proc[q].at].type = Wanted(q) /\ store[proc[q].at].of = proc[q].seen
      BY <3>1 DEF Inv, UpdateInv
    <3> QED
      BY <1>1, <3>1, <3>2 DEF Wanted
  <2>3. NoUpdateLost'
    <3> SUFFICES ASSUME NEW q \in Paths, q \notin unsafe PROVE store'[q].of = wrote[q]
      BY DEF NoUpdateLost
    <3>1. store[q].of = wrote[q] /\ q \in Keys
      BY DEF Inv, UpdateInv, NoUpdateLost, Keys
    <3> QED
      BY <1>1, <1>2, <3>1, NothingThere
  <2> QED
    BY <2>1, <2>2, <2>3 DEF UpdateInv
<1>5. SameKeys
  <2>1. \A q \in Keys : (Stored(q) => Stored(q)') /\ (store'[q].due <=> store[q].due)
    BY <1>1, <1>2, NothingThere DEF Stored
  <2>2. Unlocked => Unlocked'
    BY DEF Unlocked
  <2> QED
    BY <2>1, <2>2 DEF SameKeys, NoNewLock
<1> QED
  BY <1>1, <1>4, <1>5

\* The lock is given back.
LEMMA UnlockKeeps ==
  ASSUME Inv, Nobody \notin Procs, NEW p \in Procs, Unlock(p)
  PROVE  Inv'
<1> DEFINE key == LockOf(p)
<1>1. /\ proc[p].pc = "unlock" /\ End(p)
      /\ store' = IF store[key].lock = p THEN [store EXCEPT ![key] = None] ELSE store
      /\ UNCHANGED <<index, rebuilt, ops, faults, wrote, unsafe, damaged>>
  BY DEF Unlock, At
<1>2. /\ proc' \in [Procs -> Proc] /\ ShapeInv' /\ OthersStay(p)
      /\ proc'[p].pc = "idle" /\ proc'[p].op = "none"
  BY <1>1, EndMoves DEF Inv, OthersStay
<1>3. key \in Keys
  BY <1>1, LockNames DEF Inv
<1>4. /\ UpdateInv' /\ SameKeys
      /\ store' \in [Keys -> Entries] /\ \A k \in Keys : Sound(store'[k])
  <2>1. CASE store[key].lock = p
    <3>1. store[key].lock # Nobody /\ store' = [store EXCEPT ![key] = None]
      BY <1>1, <2>1
    <3>2. ASSUME NEW q \in Procs, proc'[q].pc \in {"read", "write"} PROVE proc'[q] = proc[q] /\ ~Holding(q, key)
      BY <1>2, <2>1, <3>2 DEF OthersStay, Holding
    <3>3. UNCHANGED wrote /\ unsafe \subseteq unsafe'
      BY <1>1
    <3> HIDE DEF key
    <3> QED
      BY <1>3, <3>1, <3>2, <3>3, LockGone
  <2>2. CASE store[key].lock # p
    <3>1. UNCHANGED store
      BY <1>1, <2>2
    <3> QED
      BY <1>1, <1>2, <3>1, UpdateStays, SameStore DEF Inv, Typed
  <2> QED
    BY <2>1, <2>2
<1>5. Typed'
  BY <1>1, <1>2, <1>4 DEF Inv, Typed
<1>6. "unlock" \in Direct
  BY DEF Direct
<1>7. IndexInv'
  BY <1>1, <1>2, <1>4, <1>6, QuietKeeps
<1> QED
  BY <1>2, <1>4, <1>5, <1>7 DEF Inv, IndexInv

\* Two updates of one path that are both not past saving are one, once one
\* has read the value and the other has the lock at least.
LEMMA OneUpdate ==
  ASSUME Inv, NEW p \in Procs, NEW q \in Procs, At(p, "write"), proc[q].pc \in {"read", "write"},
         proc[p].at \notin unsafe, proc[q].at \notin unsafe,
         LockOf(q) = proc[p].at \/ (At(q, "write") /\ proc[q].at = proc[p].at)
  PROVE  p = q
<1>1. /\ store[LockOf(p)].lock = p /\ store[LockOf(q)].lock = q
      /\ store[proc[p].at].type = Wanted(p) /\ store[proc[p].at].lock \in {p, Nobody}
      /\ At(q, "write") => store[proc[q].at].type = Wanted(q)
  BY UpdateFacts DEF Inv, At
<1>2. /\ proc[p].op \in {"update", "update_key"} /\ proc[q].op \in {"update", "update_key"}
      /\ \A r \in {p, q} : Wanted(r) = IF proc[r].op = "update" THEN "string" ELSE "hash"
  BY LockNames DEF Inv, At, Wanted
<1>3. CASE LockOf(q) = proc[p].at
  BY <1>1, <1>3, RedisAssumption
<1>4. CASE At(q, "write") /\ proc[q].at = proc[p].at
  <2>1. Wanted(p) = Wanted(q)
    BY <1>1, <1>4
  <2>2. proc[p].op = proc[q].op
    BY <1>2, <2>1
  <2> QED
    BY <1>1, <1>4, <2>2 DEF LockOf
<1> QED
  BY <1>3, <1>4

\* The value is written back.
LEMMA WriteBackKeeps ==
  ASSUME Inv, NEW p \in Procs, WriteBack(p)
  PROVE  Inv'
<1> DEFINE path == proc[p].at
           refused == proc[p].op = "update_key" /\ store[path].type \notin {"hash", "none"}
           v == Value(Wanted(p), proc[p].seen \cup {proc[p].no}, store[path].due)
<1>1. /\ proc[p].pc = "write"
      /\ IF refused
         THEN End(p) /\ UNCHANGED <<store, wrote>>
         ELSE /\ store' = [store EXCEPT ![path] = v]
              /\ wrote' = [wrote EXCEPT ![path] = @ \cup {proc[p].no}]
              /\ Goto(p, "unlock")
      /\ UNCHANGED <<index, rebuilt, ops, faults, unsafe, damaged>>
  BY DEF WriteBack, At
<1>2. /\ path \in Paths /\ path \in Keys /\ proc[p].op \in {"update", "update_key"}
  BY <1>1, LockNames DEF Inv
<1>3. "write" \in Direct /\ "unlock" \in Direct
  BY DEF Direct
<1>4. CASE refused
  <2>1. /\ proc' \in [Procs -> Proc] /\ ShapeInv' /\ OthersStay(p)
        /\ proc'[p].pc = "idle" /\ proc'[p].op = "none"
        /\ UNCHANGED <<store, wrote>>
    BY <1>1, <1>4, EndMoves DEF Inv, OthersStay
  <2>2. Typed'
    BY <1>1, <2>1 DEF Inv, Typed
  <2>3. UpdateInv'
    BY <1>1, <2>1, UpdateStays DEF Inv
  <2>4. IndexInv'
    BY <1>1, <1>3, <2>1, SameStore, QuietKeeps
  <2> QED
    BY <2>1, <2>2, <2>3, <2>4 DEF Inv, IndexInv
<1>5. CASE ~refused
  <2>1. "unlock" \in Pcs \ {"sadd"} /\ "unlock" \notin Removing /\ Fits("unlock", proc[p].op)
    BY <1>2 DEF Pcs, Direct, Removing, Mounting, Fits
  <2>2. /\ proc' \in [Procs -> Proc] /\ ShapeInv' /\ OthersStay(p)
        /\ proc'[p].pc = "unlock" /\ proc'[p].op = proc[p].op /\ proc'[p].at = path
    BY <1>1, <1>2, <1>5, <2>1, GotoMoves DEF Inv, OthersStay
  <2>3. /\ v \in Entries /\ Sound(v) /\ v.type # "none" /\ v.lock = Nobody
        /\ v.of = proc[p].seen \cup {proc[p].no} /\ v.due = store[path].due
    <3>1. proc[p].seen \in SUBSET Nat /\ proc[p].no \in Nat /\ store[path].due \in BOOLEAN
      BY <1>2, ProcTypes, EntryTypes DEF Inv
    <3>2. Wanted(p) \in Types \ {"none"}
      BY DEF Wanted, Types
    <3>3. proc[p].seen \cup {proc[p].no} \in SUBSET Nat
      BY <3>1
    <3> QED
      BY <3>1, <3>2, <3>3, NewValue
  <2> HIDE DEF v
  <2>4. /\ store' \in [Keys -> Entries] /\ store'[path] = v
        /\ \A k \in Keys : k # path => store'[k] = store[k]
    BY <1>1, <1>2, <1>5, <2>3 DEF Inv, Typed
  <2>5. /\ wrote' \in [Paths -> SUBSET Nat] /\ wrote'[path] = wrote[path] \cup {proc[p].no}
        /\ \A q \in Paths : q # path => wrote'[q] = wrote[q]
    <3>1. proc[p].no \in Nat /\ wrote \in [Paths -> SUBSET Nat]
      BY ProcTypes DEF Inv, Typed
    <3> QED
      BY <1>1, <1>2, <1>5, <3>1
  <2>6. Typed'
    <3>1. \A k \in Keys : Sound(store'[k])
      BY <2>3, <2>4 DEF Inv, Typed
    <3> QED
      BY <1>1, <2>2, <2>4, <2>5, <3>1 DEF Inv, Typed
  <2>7. UpdateInv'
    <3>0. ASSUME NEW q \in Procs, proc'[q].pc \in {"read", "write"}, proc'[q].at \notin unsafe'
          PROVE  /\ q # p /\ proc'[q] = proc[q] /\ proc[q].pc \in {"read", "write"} /\ proc[q].at \notin unsafe
                 /\ LockOf(q) \in Keys /\ proc[q].at \in Keys /\ store[LockOf(q)].lock = q
      <4>1. q # p /\ proc'[q] = proc[q] /\ proc[q].pc \in {"read", "write"} /\ proc[q].at \notin unsafe
        BY <1>1, <2>2, <3>0 DEF OthersStay
      <4> QED
        BY <4>1, LockNames, UpdateFacts DEF Inv
    <3>1. ASSUME NEW q \in Procs, proc'[q].pc \in {"read", "write"}, proc'[q].at \notin unsafe'
          PROVE  store'[LockOf(q)'].lock = q
      <4>1. /\ q # p /\ proc'[q] = proc[q] /\ proc[q].pc \in {"read", "write"} /\ proc[q].at \notin unsafe
            /\ LockOf(q) \in Keys /\ store[LockOf(q)].lock = q
        BY <3>0, <3>1
      <4>2. LockOf(q) # path
        <5> SUFFICES ASSUME LockOf(q) = path PROVE FALSE
          OBVIOUS
        <5>1. LockOf(q) = proc[q].at
          BY <1>2, <4>1, LockNames DEF Inv
        <5>2. path \notin unsafe
          BY <4>1, <5>1
        <5> QED
          BY <1>1, <4>1, <5>2, OneUpdate DEF At
      <4>3. LockOf(q)' = LockOf(q)
        BY <4>1 DEF LockOf
      <4> QED
        BY <2>4, <4>1, <4>2, <4>3
    <3>2. ASSUME NEW q \in Procs, At(q, "write")', proc'[q].at \notin unsafe'
          PROVE  store'[proc'[q].at].type = Wanted(q)' /\ store'[proc'[q].at].of = proc'[q].seen
      <4>1. /\ q # p /\ proc'[q] = proc[q] /\ At(q, "write") /\ proc[q].at \notin unsafe
            /\ proc[q].at \in Keys
        BY <3>0, <3>2 DEF At
      <4>2. proc[q].at # path
        BY <1>1, <4>1, OneUpdate DEF At
      <4>3. store[proc[q].at].type = Wanted(q) /\ store[proc[q].at].of = proc[q].seen
        BY <4>1 DEF Inv, UpdateInv
      <4> QED
        BY <2>4, <4>1, <4>2, <4>3 DEF Wanted
    <3>3. ASSUME NEW q \in Paths, q \notin unsafe' PROVE store'[q].of = wrote'[q]
      <4>1. store[q].of = wrote[q] /\ q \in Keys
        BY <1>1, <3>3 DEF Inv, UpdateInv, NoUpdateLost, Keys
      <4>2. CASE q = path
        <5>1. store[q].of = proc[p].seen
          BY <1>1, <3>3, <4>2 DEF Inv, UpdateInv, At
        <5> QED
          BY <2>3, <2>4, <2>5, <4>1, <4>2, <5>1
      <4>3. CASE q # path
        BY <2>4, <2>5, <3>3, <4>1, <4>3
      <4> QED
        BY <4>2, <4>3
    <3> QED
      BY <3>1, <3>2, <3>3 DEF UpdateInv, NoUpdateLost
  <2>8. SameKeys
    <3>1. \A q \in Keys : (Stored(q) => Stored(q)') /\ (store'[q].due <=> store[q].due)
      BY <2>3, <2>4 DEF Stored
    <3>2. Unlocked => Unlocked'
      BY <2>3, <2>4 DEF Unlocked
    <3> QED
      BY <3>1, <3>2 DEF SameKeys, NoNewLock
  <2>9. IndexInv'
    BY <1>1, <1>3, <2>2, <2>8, QuietKeeps
  <2> QED
    BY <2>2, <2>6, <2>7, <2>9 DEF Inv, IndexInv
<1> QED
  BY <1>4, <1>5

-----------------------------------------------------------------------------
(* Values come and go                                                      *)

\* The value is looked at before it is removed.
LEMMA ReadFirstKeeps ==
  ASSUME Inv, NEW p \in Procs, NEW pc, NEW type, NEW next, ReadFirst(p, pc, type, next),
         <<pc, next>> \in {<<"get", "del">>, <<"hget", "hdel">>}
  PROVE  Inv'
<1>1. /\ proc[p].pc = pc
      /\ Goto(p, next) \/ End(p)
      /\ UNCHANGED <<store, index, rebuilt, ops, faults, wrote, unsafe, damaged>>
  BY DEF ReadFirst, At
<1>2. pc \in Direct /\ next \in Direct /\ next \in Pcs \ {"sadd"}
      /\ next \notin Removing /\ next \notin {"read", "write"}
  BY DEF Direct, Pcs, Removing
<1>3. Fits(next, proc[p].op) /\ proc[p].at \in Paths
  <2>1. Fits(pc, proc[p].op) /\ proc[p].at \in Paths
    BY <1>1, <1>2, ProcTypes DEF Inv, Shaped
  <2> QED
    BY <2>1 DEF Fits, Removing, Mounting
<1>4. /\ proc' \in [Procs -> Proc] /\ ShapeInv' /\ OthersStay(p)
      /\ proc'[p].pc \notin {"read", "write"}
      /\ \/ proc'[p].pc = "idle" /\ proc'[p].op = "none"
         \/ proc'[p].pc \in Direct /\ proc'[p].op = proc[p].op
  <2>1. CASE Goto(p, next)
    BY <1>2, <1>3, <2>1, GotoMoves DEF Inv, OthersStay
  <2>2. CASE End(p)
    BY <2>2, EndMoves DEF Inv, OthersStay
  <2> QED
    BY <1>1, <2>1, <2>2
<1>5. Typed'
  BY <1>1, <1>4 DEF Inv, Typed
<1>6. UpdateInv'
  BY <1>1, <1>4, UpdateStays DEF Inv
<1>7. IndexInv'
  BY <1>1, <1>2, <1>4, SameStore, QuietKeeps
<1> QED
  BY <1>4, <1>5, <1>6, <1>7 DEF Inv, IndexInv

LEMMA GetKeeps ==
  ASSUME Inv, NEW p \in Procs, Get(p) \/ HGet(p)
  PROVE  Inv'
<1>1. CASE Get(p)
  BY <1>1, ReadFirstKeeps DEF Get
<1>2. CASE HGet(p)
  BY <1>2, ReadFirstKeeps DEF HGet
<1> QED
  BY <1>1, <1>2

\* A value that another operation replaces is on record for those who update it.
LEMMA WriteUpdates ==
  ASSUME Inv, NEW p \in Procs, OthersStay(p), NEW path \in Paths, NEW v \in Entries, Sound(v),
         v.lock = Nobody, Write(path, v), wrote' = [wrote EXCEPT ![path] = v.of],
         proc'[p].pc \notin {"read", "write"}
  PROVE  /\ UpdateInv' /\ unsafe' \subseteq Paths /\ NoNewLock
         /\ store' \in [Keys -> Entries] /\ store'[path] = v
         /\ \A k \in Keys : k # path => store'[k] = store[k]
         /\ \A k \in Keys : Sound(store'[k])
         /\ wrote' \in [Paths -> SUBSET Nat]
<1>1. /\ store' = [store EXCEPT ![path] = v] /\ path \in Keys
      /\ unsafe' = IF \E q \in Procs : Updating(q, path) \/ Holding(q, path) THEN unsafe \cup {path} ELSE unsafe
  BY DEF Write, Keys
<1>2. unsafe \subseteq unsafe' /\ unsafe' \subseteq Paths
  BY <1>1 DEF Inv, Typed
<1>3. /\ store' \in [Keys -> Entries] /\ store'[path] = v
      /\ \A k \in Keys : k # path => store'[k] = store[k]
  BY <1>1 DEF Inv, Typed
<1>4. v.of \in SUBSET Nat
  BY DEF Entries
<1>5. /\ wrote' \in [Paths -> SUBSET Nat] /\ wrote'[path] = v.of
      /\ \A q \in Paths : q # path => wrote'[q] = wrote[q]
  BY <1>4 DEF Inv, Typed
<1>6. \A k \in Keys : Sound(store'[k])
  BY <1>3 DEF Inv, Typed
<1>7. ASSUME NEW q \in Procs, proc'[q].pc \in {"read", "write"}, proc'[q].at \notin unsafe'
      PROVE  /\ proc'[q] = proc[q] /\ proc[q].pc \in {"read", "write"} /\ proc[q].at \notin unsafe
             /\ LockOf(q) \in Keys /\ LockOf(q) # path /\ store[LockOf(q)].lock = q
             /\ proc[q].at \in Keys /\ (At(q, "write") => proc[q].at # path)
  <2>1. proc'[q] = proc[q] /\ proc[q].pc \in {"read", "write"} /\ proc[q].at \notin unsafe
    BY <1>2, <1>7 DEF OthersStay
  <2>2. LockOf(q) \in Keys /\ proc[q].at \in Keys /\ store[LockOf(q)].lock = q
    BY <2>1, LockNames, UpdateFacts DEF Inv
  <2>3. ASSUME At(q, "write") PROVE proc[q].at # path
    BY <1>1, <1>7, <2>1, <2>3 DEF Updating
  <2>4. ASSUME LockOf(q) = path PROVE FALSE
    <3>1. Holding(q, path)
      BY <2>1, <2>2, <2>4 DEF Holding
    <3>2. proc[q].at = path
      BY <2>1, <2>4, LockNames DEF Inv
    <3> QED
      BY <1>1, <1>7, <2>1, <3>1, <3>2
  <2> QED
    BY <2>1, <2>2, <2>3, <2>4
<1>8. ASSUME NEW q \in Procs, proc'[q].pc \in {"read", "write"}, proc'[q].at \notin unsafe'
      PROVE  store'[LockOf(q)'].lock = q
  <2>1. proc'[q] = proc[q] /\ LockOf(q) \in Keys /\ LockOf(q) # path /\ store[LockOf(q)].lock = q
    BY <1>7, <1>8
  <2>2. LockOf(q)' = LockOf(q)
    BY <2>1 DEF LockOf
  <2> QED
    BY <1>3, <2>1, <2>2
<1>9. ASSUME NEW q \in Procs, At(q, "write")', proc'[q].at \notin unsafe'
      PROVE  store'[proc'[q].at].type = Wanted(q)' /\ store'[proc'[q].at].of = proc'[q].seen
  <2>1. /\ proc'[q] = proc[q] /\ At(q, "write") /\ proc[q].at \notin unsafe
        /\ proc[q].at \in Keys /\ proc[q].at # path
    BY <1>7, <1>9 DEF At
  <2>2. store[proc[q].at].type = Wanted(q) /\ store[proc[q].at].of = proc[q].seen
    BY <2>1 DEF Inv, UpdateInv
  <2> QED
    BY <1>3, <2>1, <2>2 DEF Wanted
<1>10. NoUpdateLost'
  <2> SUFFICES ASSUME NEW q \in Paths, q \notin unsafe' PROVE store'[q].of = wrote'[q]
    BY DEF NoUpdateLost
  <2>1. store[q].of = wrote[q] /\ q \in Keys
    BY <1>2 DEF Inv, UpdateInv, NoUpdateLost, Keys
  <2> QED
    BY <1>3, <1>5, <2>1
<1>11. UpdateInv'
  BY <1>8, <1>9, <1>10 DEF UpdateInv
<1>12. NoNewLock
  BY <1>3 DEF NoNewLock, Unlocked
<1> QED
  BY <1>2, <1>3, <1>5, <1>6, <1>11, <1>12

\* A value is set, pushed to or inserted into: its entries are due.
LEMMA PutKeeps ==
  ASSUME Inv, NEW p \in Procs, NEW pc, NEW type, Put(p, pc, type),
         <<pc, type>> \in {<<"set", "string">>, <<"rpush", "list">>, <<"hset", "hash">>}
  PROVE  Inv'
<1> DEFINE path == proc[p].at
           old == store[path]
           kept == IF pc = "set" \/ old = None THEN {} ELSE old.of
           fits == pc = "set" \/ old = None \/ old.type = type
           v == Value(type, kept \cup {proc[p].no}, TRUE)
<1>1. /\ proc[p].pc = pc
      /\ IF fits
         THEN /\ Write(path, v)
              /\ wrote' = [wrote EXCEPT ![path] = kept \cup {proc[p].no}]
              /\ IndexNext(p, <<path>>)
         ELSE End(p) /\ UNCHANGED <<store, wrote, unsafe>>
      /\ UNCHANGED <<index, rebuilt, ops, faults, damaged>>
  BY DEF Put, At
<1>2. pc \in Direct /\ pc \notin Removing /\ pc \in {"set", "rpush", "hset"} /\ type \in Types \ {"none"}
  BY DEF Direct, Removing, Types
<1>3. path \in Paths /\ path \in Keys /\ proc[p].op \in {"add", "push", "insert"} /\ proc[p].no \in Nat
  BY <1>1, <1>2, ProcTypes DEF Inv, Shaped, Fits, Keys
<1>4. CASE ~fits
  <2>1. /\ proc' \in [Procs -> Proc] /\ ShapeInv' /\ OthersStay(p)
        /\ proc'[p].pc = "idle" /\ proc'[p].op = "none"
    BY <1>1, <1>4, EndMoves DEF Inv, OthersStay
  <2>2. UNCHANGED <<store, index, rebuilt, ops, faults, wrote, unsafe, damaged>>
    BY <1>1, <1>4
  <2>3. Typed'
    BY <2>1, <2>2 DEF Inv, Typed
  <2>4. UpdateInv'
    BY <2>1, <2>2, UpdateStays DEF Inv
  <2>5. IndexInv'
    BY <1>1, <1>2, <2>1, <2>2, SameStore, QuietKeeps
  <2> QED
    BY <2>1, <2>3, <2>4, <2>5 DEF Inv, IndexInv
<1>5. CASE fits
  <2>1. kept \in SUBSET Nat
    BY <1>3, EntryTypes DEF Inv
  <2>2. /\ v \in Entries /\ Sound(v) /\ v.type # "none" /\ v.lock = Nobody /\ v.due = TRUE
        /\ v.of = kept \cup {proc[p].no}
    <3>1. kept \cup {proc[p].no} \in SUBSET Nat /\ TRUE \in BOOLEAN
      BY <1>3, <2>1
    <3> HIDE DEF kept
    <3> QED
      BY <1>2, <3>1, NewValue
  <2>3. Write(path, v) /\ wrote' = [wrote EXCEPT ![path] = v.of] /\ IndexNext(p, <<path>>)
    BY <1>1, <1>5, <2>2
  <2> HIDE DEF v, fits, kept
  <2>4. <<path>> \in Seq(Keys) /\ Len(<<path>>) = 1 /\ <<path>> # << >> /\ ToSet(<<path>>) = {path}
        /\ Head(<<path>>) = path
    BY <1>3 DEF ToSet
  <2>5. /\ proc' \in [Procs -> Proc] /\ ShapeInv' /\ OthersStay(p)
        /\ proc'[p].pc = "sadd" /\ proc'[p].op = proc[p].op
        /\ proc'[p].todo = <<path>> /\ proc'[p].seen = {}
    BY <1>3, <2>3, <2>4, IndexMoves DEF Inv, OthersStay
  <2>6. /\ UpdateInv' /\ unsafe' \subseteq Paths /\ NoNewLock
        /\ store' \in [Keys -> Entries] /\ store'[path] = v
        /\ \A q \in Keys : q # path => store'[q] = store[q]
        /\ \A q \in Keys : Sound(store'[q])
        /\ wrote' \in [Paths -> SUBSET Nat]
    <3>1. proc'[p].pc \notin {"read", "write"}
      BY <1>1, <2>5
    <3>2. path \in Paths
      BY <1>3
    <3>3. v \in Entries /\ Sound(v) /\ v.lock = Nobody
      BY <2>2
    <3>4. Write(path, v) /\ wrote' = [wrote EXCEPT ![path] = v.of] /\ OthersStay(p)
      BY <2>3, <2>5
    <3> HIDE DEF path
    <3> QED
      BY <3>1, <3>2, <3>3, <3>4, WriteUpdates
  <2>7. Typed'
    BY <1>1, <2>5, <2>6 DEF Inv, Typed
  <2>14. \A q \in Keys : /\ Stored(q) => Stored(q)'
                         /\ store'[q].due => store[q].due \/ q = path
                         /\ q = path => Stored(q)'
    BY <2>2, <2>6 DEF Stored
  <2>8. Active(p) /\ proc[p].op # "mount" /\ proc[p].op # "none" /\ ~Clears(proc[p].op)
    BY <1>1, <1>2, <1>3 DEF Active, Clears
  <2>9. AloneInv'
    BY <1>1, <2>5, <2>6, <2>8, AloneStays DEF Inv
  <2>10. BuildInv'
    BY <1>1, <2>5, <2>8, BuildStays DEF Inv
  <2>11. ASSUME ~damaged, NEW q \in Procs PROVE proc[q].pc \notin Removing \cup {"wipe"}
    <3>1. Active(q) => ~Clears(proc[q].op)
      BY <2>8, <2>11 DEF Inv, AloneInv
    <3>2. proc[q].pc \in Removing \cup {"wipe"} => Active(q) /\ Clears(proc[q].op)
      BY ProcTypes DEF Inv, Shaped, Fits, Active, Clears, Removing, Mounting
    <3> QED
      BY <3>1, <3>2
  <2>12. KnowInv'
    <3> SUFFICES ASSUME ~damaged, NEW q \in Procs PROVE Knows(q)'
      BY <1>1 DEF KnowInv
    <3>1. CASE q = p
      BY <1>3, <2>4, <2>5, <2>14, <3>1 DEF Knows, At
    <3>2. CASE q # p
      <4>1. proc'[q] = proc[q] /\ Knows(q) /\ proc[q].pc \notin Removing /\ proc[q].pc # "wipe"
        BY <2>5, <2>11, <3>2 DEF OthersStay, Inv, KnowInv
      <4>2. ToSet(proc[q].todo) \subseteq Keys
        <5>1. proc[q].todo \in Seq(Keys)
          BY ProcTypes DEF Inv
        <5> QED
          BY <5>1 DEF ToSet
      <4>3. At(q, "sadd")' => \A r \in ToSet(proc'[q].todo) : Stored(r)'
        BY <2>14, <4>1, <4>2 DEF Knows, At
      <4> QED
        BY <4>1, <4>3 DEF Knows, At, Removing
    <3> QED
      BY <3>1, <3>2
  <2>13. ListInv'
    <3> SUFFICES ASSUME ~damaged, Ready', NEW d \in Dirs, NEW x \in Names
                 PROVE  /\ x \in index[d] => Due(d, x)'
                        /\ MustDue(d, x)' => x \in index[d] \/ \E q \in Procs : Left(q, d, x)'
      BY <1>1 DEF ListInv
    <3>1. Ready
      BY <1>1, <2>5, <2>8 DEF Ready, OthersStay
    <3>2. /\ x \in index[d] => Due(d, x) \/ \E q \in Procs : Trace(q, d, x)
          /\ MustDue(d, x) => x \in index[d] \/ \E q \in Procs : Left(q, d, x)
      BY <3>1 DEF Inv, ListInv
    <3>3. \A q \in Procs : ~Trace(q, d, x)
      BY <2>11 DEF Trace, Removing
    <3>4. Due(d, x) => Due(d, x)'
      BY <2>14 DEF Due
    <3>5. ASSUME Passes(path, d, x) PROVE Left(p, d, x)'
      BY <2>4, <2>5, <3>5 DEF Left, At, Passes
    <3>6. ASSUME NEW q \in Procs, Left(q, d, x) PROVE Left(q, d, x)'
      <4>1. q # p
        BY <1>1, <1>2, <3>6 DEF Left, At
      <4> QED
        BY <2>5, <3>6, <4>1 DEF Left, At, OthersStay
    <3>7. MustDue(d, x)' => MustDue(d, x) \/ Passes(path, d, x)
      BY <2>14 DEF MustDue
    <3> QED
      BY <3>2, <3>3, <3>4, <3>5, <3>6, <3>7
  <2> QED
    BY <2>5, <2>6, <2>7, <2>9, <2>10, <2>12, <2>13 DEF Inv
<1> QED
  BY <1>4, <1>5

LEMMA SetKeeps ==
  ASSUME Inv, NEW p \in Procs, Set(p) \/ RPush(p) \/ HSet(p)
  PROVE  Inv'
<1>1. CASE Set(p)
  BY <1>1, PutKeeps DEF Set
<1>2. CASE RPush(p)
  BY <1>2, PutKeeps DEF RPush
<1>3. CASE HSet(p)
  BY <1>3, PutKeeps DEF HSet
<1> QED
  BY <1>1, <1>2, <1>3

-----------------------------------------------------------------------------
(* Entries are added                                                       *)

LEMMA HeadOrTail ==
  ASSUME NEW s \in Seq(Keys)
  PROVE  /\ ToSet(s) \subseteq Keys
         /\ \A r \in ToSet(s) : s # << >> /\ (r = Head(s) \/ r \in ToSet(Tail(s)))
         /\ s # << >> => /\ Head(s) \in Keys /\ Head(s) \in ToSet(s)
                         /\ Tail(s) \in Seq(Keys) /\ ToSet(Tail(s)) \subseteq ToSet(s)
                         /\ Len(s) = 1 => ToSet(Tail(s)) = {}
<1>1. ToSet(s) \subseteq Keys
  BY DEF ToSet
<1>2. CASE s = << >>
  <2>1. ToSet(s) = {}
    BY <1>2 DEF ToSet
  <2> QED
    BY <1>1, <1>2, <2>1
<1>3. CASE s # << >>
  <2>1. /\ Len(s) \in Nat \ {0} /\ Head(s) = s[1] /\ Head(s) \in Keys
        /\ Tail(s) \in Seq(Keys) /\ Len(Tail(s)) = Len(s) - 1
        /\ \A i \in 1 .. Len(s) - 1 : Tail(s)[i] = s[i + 1]
    BY <1>3, HeadTailProperties, EmptySeq
  <2>2. /\ DOMAIN s = 1 .. Len(s) /\ DOMAIN Tail(s) = 1 .. Len(s) - 1
    BY <2>1
  <2>3. Head(s) \in ToSet(s)
    <3>1. 1 \in DOMAIN s
      BY <2>1, <2>2
    <3> QED
      BY <2>1, <3>1 DEF ToSet
  <2>4. \A r \in ToSet(s) : r = Head(s) \/ r \in ToSet(Tail(s))
    <3> SUFFICES ASSUME NEW i \in 1 .. Len(s) PROVE s[i] = Head(s) \/ s[i] \in ToSet(Tail(s))
      BY <2>2 DEF ToSet
    <3>1. CASE i = 1
      BY <2>1, <3>1
    <3>2. CASE i # 1
      <4>1. i - 1 \in DOMAIN Tail(s) /\ i - 1 + 1 = i
        BY <2>1, <2>2, <3>2
      <4>2. Tail(s)[i - 1] = s[i]
        BY <2>1, <2>2, <4>1
      <4> QED
        BY <4>1, <4>2 DEF ToSet
    <3> QED
      BY <3>1, <3>2
  <2>5. ToSet(Tail(s)) \subseteq ToSet(s)
    <3> SUFFICES ASSUME NEW i \in 1 .. Len(s) - 1 PROVE Tail(s)[i] \in ToSet(s)
      BY <2>2 DEF ToSet
    <3>1. i + 1 \in DOMAIN s /\ Tail(s)[i] = s[i + 1]
      BY <2>1, <2>2
    <3> QED
      BY <3>1 DEF ToSet
  <2>6. Len(s) = 1 => ToSet(Tail(s)) = {}
    BY <2>2 DEF ToSet
  <2> QED
    BY <1>1, <1>3, <2>1, <2>3, <2>4, <2>5, <2>6
<1> QED
  BY <1>2, <1>3

LEMMA OneMore ==
  ASSUME NEW s, NEW n \in Nat, s = 0 .. n - 1
  PROVE  /\ Cardinality(s) = n
         /\ s \cup {n} = 0 .. (n + 1) - 1 /\ Cardinality(s \cup {n}) = n + 1
<1>1. /\ Cardinality(0 .. n - 1) = n - 1 - 0 + 1 /\ n - 1 - 0 + 1 = n
  BY FS_Interval
<1>2. Cardinality(0 .. (n + 1) - 1) = n + 1
  BY FS_Interval
<1>3. s \cup {n} = 0 .. (n + 1) - 1
  OBVIOUS
<1> QED
  BY <1>1, <1>2, <1>3

\* The steps of an operation that adds: the entry is added, and one less is left.
LEMMA SAddMoves ==
  ASSUME Inv, NEW p \in Procs, SAddStep(p)
  PROVE  /\ proc[p].pc = "sadd" /\ proc[p].op \in {"add", "push", "insert", "mount"}
         /\ proc' \in [Procs -> Proc] /\ ShapeInv' /\ OthersStay(p)
         /\ \/ proc'[p].pc \in {"sadd", "mark"} /\ proc'[p].op = proc[p].op
            \/ proc'[p].pc = "idle" /\ proc'[p].op = "none" /\ proc[p].op # "mount"
         /\ At(p, "sadd")' => ToSet(proc'[p].todo) \subseteq ToSet(proc[p].todo)
         /\ \E n \in Nat :
              LET path == Head(proc[p].todo)
              IN  /\ path \in Keys /\ path \in ToSet(proc[p].todo)
                  /\ n \in 0 .. Len(path) - 1
                  /\ index' = [index EXCEPT ![SubSeq(path, 1, n)] = @ \cup {path[n + 1]}]
                  /\ \A d, x : Left(p, d, x) =>
                       (d = SubSeq(path, 1, n) /\ x = path[n + 1]) \/ Left(p, d, x)'
<1> DEFINE path == Head(proc[p].todo)
           rest == Tail(proc[p].todo)
           n == Cardinality(proc[p].seen)
           last == n + 1 = Len(path)
           r == [proc[p] EXCEPT !.seen = @ \cup {n}]
<1>1. /\ proc[p].pc = "sadd"
      /\ index' = [index EXCEPT ![SubSeq(path, 1, n)] = @ \cup {path[n + 1]}]
      /\ IF ~ last THEN proc' = [proc EXCEPT ![p].seen = @ \cup {n}]
         ELSE IF proc[p].op = "mount" THEN IndexNext(p, rest)
         ELSE End(p)
  BY DEF SAddStep, At
<1>2. /\ proc[p] \in Proc /\ proc[p].todo \in Seq(Keys) /\ proc[p].seen \in SUBSET Nat
      /\ proc[p].op \in {"add", "push", "insert", "mount"}
      /\ proc[p].todo # << >> /\ (proc[p].op # "mount" => Len(proc[p].todo) = 1)
      /\ \E k \in Nat : proc[p].seen = 0 .. k - 1 /\ k < Len(path)
  BY <1>1, ProcTypes DEF Inv, Shaped, Fits
<1>3. /\ path \in Keys /\ path \in ToSet(proc[p].todo) /\ rest \in Seq(Keys)
      /\ ToSet(rest) \subseteq ToSet(proc[p].todo)
      /\ Len(proc[p].todo) = 1 => ToSet(rest) = {}
      /\ \A q \in ToSet(rest) : rest # << >> /\ (q = Head(rest) \/ q \in ToSet(Tail(rest)))
  BY <1>2, HeadOrTail
<1>4. Len(path) \in Nat
  BY <1>3, PathNames
<1>5. n \in Nat /\ proc[p].seen = 0 .. n - 1 /\ n < Len(path)
  BY <1>2, OneMore
<1>6. n \in 0 .. Len(path) - 1
  BY <1>4, <1>5
<1>7. ASSUME NEW d, NEW x, Left(p, d, x)
      PROVE  \/ \E m \in 0 .. Len(path) - 1 :
                  m \notin proc[p].seen /\ d = SubSeq(path, 1, m) /\ x = path[m + 1]
             \/ \E q \in ToSet(rest) : Passes(q, d, x)
  BY <1>7 DEF Left
<1>8. CASE ~last
  <2>1. /\ Cardinality(proc[p].seen \cup {n}) = n + 1
        /\ proc[p].seen \cup {n} = 0 .. (n + 1) - 1
    BY <1>5, OneMore
  <2>2. /\ r \in Proc /\ r.pc = "sadd" /\ r.op = proc[p].op /\ r.todo = proc[p].todo
        /\ r.seen = proc[p].seen \cup {n}
    <3>1. proc[p].seen \cup {n} \in SUBSET Nat
      BY <1>2, <1>5
    <3> HIDE DEF n
    <3> QED
      BY <1>1, <1>2, <3>1 DEF Proc
  <2>3. proc' = [proc EXCEPT ![p] = r]
    BY <1>1, <1>8
  <2>4. n + 1 < Len(path)
    BY <1>4, <1>5, <1>6, <1>8
  <2> HIDE DEF r, n
  <2>5. Shaped(r)
    <3>1. Fits("sadd", proc[p].op)
      BY <1>2 DEF Fits, Removing, Mounting
    <3> QED
      BY <1>2, <1>5, <2>1, <2>2, <2>4, <3>1 DEF Shaped, Direct, Removing
  <2>6. proc' \in [Procs -> Proc] /\ ShapeInv' /\ proc'[p] = r /\ OthersStay(p)
    BY <2>2, <2>3, <2>5, Moves DEF Inv, OthersStay
  <2>7. ASSUME NEW d, NEW x, Left(p, d, x)
        PROVE  (d = SubSeq(path, 1, n) /\ x = path[n + 1]) \/ Left(p, d, x)'
    <3>1. CASE \E m \in 0 .. Len(path) - 1 :
                 m \notin proc[p].seen /\ d = SubSeq(path, 1, m) /\ x = path[m + 1]
      <4>1. PICK m \in 0 .. Len(path) - 1 :
                 m \notin proc[p].seen /\ d = SubSeq(path, 1, m) /\ x = path[m + 1]
        BY <3>1
      <4>2. CASE m = n
        BY <4>1, <4>2
      <4>3. CASE m # n
        <5>1. m \notin r.seen
          BY <2>2, <4>1, <4>3
        <5> QED
          BY <2>2, <2>6, <4>1, <5>1 DEF Left, At
      <4> QED
        BY <4>2, <4>3
    <3>2. CASE \E q \in ToSet(rest) : Passes(q, d, x)
      BY <2>2, <2>6, <3>2 DEF Left, At
    <3> QED
      BY <1>7, <2>7, <3>1, <3>2
  <2>8. \A d, x : Left(p, d, x) => (d = SubSeq(path, 1, n) /\ x = path[n + 1]) \/ Left(p, d, x)'
    BY <2>7
  <2> HIDE DEF path
  <2>9. \E m \in Nat : /\ m \in 0 .. Len(path) - 1
                       /\ index' = [index EXCEPT ![SubSeq(path, 1, m)] = @ \cup {path[m + 1]}]
                       /\ \A d, x : Left(p, d, x) => (d = SubSeq(path, 1, m) /\ x = path[m + 1]) \/ Left(p, d, x)'
    BY <1>1, <1>5, <1>6, <2>8
  <2> QED
    BY <1>1, <1>2, <1>3, <2>2, <2>6, <2>9 DEF path, At
<1>9. CASE last
  <2>1. \A m \in 0 .. Len(path) - 1 : m \notin proc[p].seen => m = n
    BY <1>4, <1>5, <1>9
  <2>2. CASE proc[p].op = "mount"
    <3>1. /\ proc' \in [Procs -> Proc] /\ ShapeInv' /\ OthersStay(p)
          /\ proc'[p].pc = (IF rest = << >> THEN "mark" ELSE "sadd")
          /\ proc'[p].op = proc[p].op /\ proc'[p].todo = rest /\ proc'[p].seen = {}
      BY <1>1, <1>3, <1>9, <2>2, IndexMoves DEF Inv, OthersStay
    <3>2. ASSUME NEW d, NEW x, NEW q \in ToSet(rest), Passes(q, d, x) PROVE Left(p, d, x)'
      <4>1. rest # << >> /\ (q = Head(rest) \/ q \in ToSet(Tail(rest)))
        BY <1>3, <3>2
      <4>2. CASE q = Head(rest)
        BY <3>1, <3>2, <4>1, <4>2 DEF Left, At, Passes
      <4>3. CASE q \in ToSet(Tail(rest))
        BY <3>1, <3>2, <4>1, <4>3 DEF Left, At
      <4> QED
        BY <4>1, <4>2, <4>3
    <3>3. \A d, x : Left(p, d, x) => (d = SubSeq(path, 1, n) /\ x = path[n + 1]) \/ Left(p, d, x)'
      BY <1>7, <2>1, <3>2
    <3> HIDE DEF path, n
    <3>4. \E m \in Nat : /\ m \in 0 .. Len(path) - 1
                         /\ index' = [index EXCEPT ![SubSeq(path, 1, m)] = @ \cup {path[m + 1]}]
                         /\ \A d, x : Left(p, d, x) => (d = SubSeq(path, 1, m) /\ x = path[m + 1]) \/ Left(p, d, x)'
      BY <1>1, <1>5, <1>6, <3>3
    <3>5. proc'[p].pc \in {"sadd", "mark"} /\ ToSet(proc'[p].todo) \subseteq ToSet(proc[p].todo)
      BY <1>3, <3>1
    <3> QED
      BY <1>1, <1>2, <1>3, <3>1, <3>4, <3>5 DEF path
  <2>3. CASE proc[p].op # "mount"
    <3>1. /\ proc' \in [Procs -> Proc] /\ ShapeInv' /\ OthersStay(p)
          /\ proc'[p].pc = "idle" /\ proc'[p].op = "none"
      BY <1>1, <1>9, <2>3, EndMoves DEF Inv, OthersStay
    <3>2. ToSet(rest) = {}
      BY <1>2, <1>3, <2>3
    <3>3. \A d, x : Left(p, d, x) => (d = SubSeq(path, 1, n) /\ x = path[n + 1]) \/ Left(p, d, x)'
      BY <1>7, <2>1, <3>2
    <3> HIDE DEF path, n
    <3>4. \E m \in Nat : /\ m \in 0 .. Len(path) - 1
                         /\ index' = [index EXCEPT ![SubSeq(path, 1, m)] = @ \cup {path[m + 1]}]
                         /\ \A d, x : Left(p, d, x) => (d = SubSeq(path, 1, m) /\ x = path[m + 1]) \/ Left(p, d, x)'
      BY <1>1, <1>5, <1>6, <3>3
    <3> QED
      BY <1>1, <1>2, <1>3, <2>3, <3>1, <3>4 DEF path, At
  <2> QED
    BY <2>2, <2>3
<1> QED
  BY <1>8, <1>9

LEMMA SAddKeeps ==
  ASSUME Inv, NEW p \in Procs, SAddStep(p)
  PROVE  Inv'
<1> DEFINE path == Head(proc[p].todo)
<1>1. /\ proc[p].pc = "sadd" /\ proc[p].op \in {"add", "push", "insert", "mount"}
      /\ proc' \in [Procs -> Proc] /\ ShapeInv' /\ OthersStay(p)
      /\ \/ proc'[p].pc \in {"sadd", "mark"} /\ proc'[p].op = proc[p].op
         \/ proc'[p].pc = "idle" /\ proc'[p].op = "none" /\ proc[p].op # "mount"
      /\ At(p, "sadd")' => ToSet(proc'[p].todo) \subseteq ToSet(proc[p].todo)
      /\ path \in Keys /\ path \in ToSet(proc[p].todo)
  BY SAddMoves
<1>2. PICK n \in Nat : /\ n \in 0 .. Len(path) - 1
                       /\ index' = [index EXCEPT ![SubSeq(path, 1, n)] = @ \cup {path[n + 1]}]
                       /\ \A d, x : Left(p, d, x) =>
                            (d = SubSeq(path, 1, n) /\ x = path[n + 1]) \/ Left(p, d, x)'
  BY SAddMoves
<1>3. UNCHANGED <<store, rebuilt, ops, faults, wrote, unsafe, damaged>>
  BY DEF SAddStep
<1> HIDE DEF path
<1> DEFINE dir == SubSeq(path, 1, n)
           name == path[n + 1]
<1>4. Passes(path, dir, name)
  BY <1>2 DEF Passes
<1>5. dir \in Dirs /\ name \in Names
  BY <1>1, <1>4, PassesDirs
<1> HIDE DEF dir, name
<1>6. /\ index' = [index EXCEPT ![dir] = @ \cup {name}]
      /\ \A d, x : Left(p, d, x) => (d = dir /\ x = name) \/ Left(p, d, x)'
  BY <1>2 DEF dir, name
<1>7. /\ index' \in [Dirs -> SUBSET Names]
      /\ \A d \in Dirs : \A x : x \in index'[d] <=> (x \in index[d] \/ (d = dir /\ x = name))
  BY <1>5, <1>6 DEF Inv, Typed
<1>8. Typed'
  BY <1>1, <1>3, <1>7 DEF Inv, Typed
<1>9. UpdateInv'
  BY <1>1, <1>3, UpdateStays DEF Inv
<1>10. Active(p)
  BY <1>1 DEF Active
<1>11. AloneInv'
  BY <1>1, <1>3, <1>10, SameStore, AloneStays DEF Inv
<1>12. BuildInv'
  <2>1. proc[p].op = "mount" /\ ~damaged => ~rebuilt
    BY <1>1 DEF Inv, BuildInv
  <2> QED
    BY <1>1, <1>3, <1>10, <2>1, BuildStays DEF Inv
<1>13. ASSUME ~damaged, NEW q \in Procs PROVE proc[q].pc \notin Removing
  <2>1. Active(q) /\ Clears(proc[q].op) => p = q
    BY <1>10, <1>13 DEF Inv, AloneInv
  <2>2. proc[q].pc \in Removing => Active(q) /\ Clears(proc[q].op)
    BY ProcTypes DEF Inv, Shaped, Fits, Active, Clears, Removing
  <2> QED
    BY <1>1, <2>1, <2>2 DEF Removing
<1>14. KnowInv'
  <2> SUFFICES ASSUME ~damaged, NEW q \in Procs PROVE Knows(q)'
    BY <1>3 DEF KnowInv
  <2>1. proc[q].pc \notin Removing /\ Knows(q)
    BY <1>13 DEF Inv, KnowInv
  <2>2. CASE q = p
    <3>1. proc'[p].pc \in {"sadd", "mark", "idle"}
      BY <1>1
    <3>2. At(p, "sadd")' => \A r \in ToSet(proc'[p].todo) : Stored(r)'
      BY <1>1, <1>3, <2>1, <2>2 DEF Knows, At, Stored
    <3> QED
      BY <2>2, <3>1, <3>2 DEF Knows, At
  <2>3. CASE q # p
    <3>1. proc'[q] = proc[q]
      BY <1>1, <2>3 DEF OthersStay
    <3> QED
      BY <1>3, <2>1, <3>1 DEF Knows, At, Removing, Stored
  <2> QED
    BY <2>2, <2>3
<1>15. ListInv'
  <2> SUFFICES ASSUME ~damaged, Ready', NEW d \in Dirs, NEW x \in Names
               PROVE  /\ x \in index'[d] => Due(d, x)'
                      /\ MustDue(d, x)' => x \in index'[d] \/ \E q \in Procs : Left(q, d, x)'
    BY <1>3 DEF ListInv
  <2>1. Ready
    BY <1>1, <1>3 DEF Ready, OthersStay
  <2>2. /\ x \in index[d] => Due(d, x) \/ \E q \in Procs : Trace(q, d, x)
        /\ MustDue(d, x) => x \in index[d] \/ \E q \in Procs : Left(q, d, x)
    BY <2>1 DEF Inv, ListInv
  <2>3. \A q \in Procs : ~Trace(q, d, x)
    BY <1>13 DEF Trace, Removing
  <2>4. (Due(d, x)' <=> Due(d, x)) /\ (MustDue(d, x)' <=> MustDue(d, x))
    BY <1>3 DEF Due, MustDue, Stored
  <2>5. Due(dir, name)
    <3>1. Stored(path)
      BY <1>1 DEF Inv, KnowInv, Knows, At
    <3> QED
      BY <1>1, <1>4, <3>1 DEF Due
  <2>6. ASSUME NEW q \in Procs, Left(q, d, x) PROVE x \in index'[d] \/ Left(q, d, x)'
    <3>1. CASE q = p
      BY <1>6, <1>7, <2>6, <3>1
    <3>2. CASE q # p
      BY <1>1, <2>6, <3>2 DEF Left, At, OthersStay
    <3> QED
      BY <3>1, <3>2
  <2> QED
    BY <1>7, <2>2, <2>3, <2>4, <2>5, <2>6
<1> QED
  BY <1>1, <1>8, <1>9, <1>11, <1>12, <1>14, <1>15 DEF Inv

-----------------------------------------------------------------------------
(* Entries are removed                                                     *)

\* Who removes works on an index in use.
LEMMA RemovingFacts ==
  ASSUME Inv, NEW p \in Procs, proc[p].op \in {"remove", "remove_key"}
  PROVE  /\ Active(p) /\ Clears(proc[p].op) /\ rebuilt /\ Ready
         /\ proc[p].pc \notin {"read", "write", "sadd", "wipe", "scan", "mark"}
<1>1. /\ proc[p].pc \notin {"idle", "unmounted"}
      /\ proc[p].pc \notin {"read", "write", "sadd", "wipe", "scan", "mark"}
  BY ProcTypes DEF Inv, Shaped, Fits, Mounting
<1>2. Active(p) /\ Clears(proc[p].op)
  BY <1>1 DEF Active, Clears
<1>3. rebuilt
  BY <1>1 DEF Inv, BuildInv, At
<1> QED
  BY <1>1, <1>2, <1>3 DEF Ready

\* A step of an operation that removes, by one who is alone.
LEMMA RemoveKeeps ==
  ASSUME Inv, NEW p \in Procs, proc[p].op \in {"remove", "remove_key"}, OthersStay(p),
         UNCHANGED <<rebuilt, damaged>>, NoNewLock,
         \/ proc'[p].pc = "idle" /\ proc'[p].op = "none"
         \/ proc'[p].pc \in Removing /\ proc'[p].op = proc[p].op,
         ~damaged' => Knows(p)',
         ~damaged' => \A d \in Dirs : \A x \in Names :
           /\ x \in index'[d] => Due(d, x)' \/ Trace(p, d, x)'
           /\ MustDue(d, x)' => x \in index'[d]
  PROVE  IndexInv'
<1>1. /\ Active(p) /\ Clears(proc[p].op) /\ proc[p].op # "mount" /\ proc[p].op # "none" /\ rebuilt
  BY RemovingFacts
<1>2. AloneInv'
  BY <1>1, AloneStays DEF Inv
<1>3. BuildInv'
  BY <1>1, BuildStays DEF Inv
<1>4. KnowInv'
  <2> SUFFICES ASSUME ~damaged', NEW q \in Procs PROVE Knows(q)'
    BY DEF KnowInv
  <2>1. CASE q = p
    BY <2>1
  <2>2. CASE q # p
    <3>1. proc'[q].pc \in {"idle", "unmounted"}
      BY <1>1, <2>2, Solo DEF Inv, OthersStay
    <3> QED
      BY <3>1 DEF Knows, At
  <2> QED
    BY <2>1, <2>2
<1>5. ListInv'
  BY DEF ListInv
<1> QED
  BY <1>2, <1>3, <1>4, <1>5 DEF IndexInv

\* What the index lists while somebody removes.
LEMMA RemoveLists ==
  ASSUME Inv, NEW p \in Procs, proc[p].op \in {"remove", "remove_key"}, ~damaged,
         NEW d \in Dirs, NEW x \in Names
  PROVE  /\ x \in index[d] => Due(d, x) \/ Trace(p, d, x)
         /\ MustDue(d, x) => x \in index[d]
<1>1. Ready /\ Clears(proc[p].op) /\ proc[p].pc # "sadd"
  BY RemovingFacts
<1>2. \A q \in Procs : q # p => proc[q].pc \in {"idle", "unmounted"}
  BY <1>1, Solo DEF Inv
<1>3. \A q \in Procs : q # p => ~Trace(q, d, x)
  BY <1>2 DEF Trace
<1>4. \A q \in Procs : ~Left(q, d, x)
  BY <1>1, <1>2 DEF Left, At
<1> QED
  BY <1>1, <1>3, <1>4 DEF Inv, ListInv

\* A value is removed: what leads to it is still to be looked at.
LEMMA DeleteKeeps ==
  ASSUME Inv, NEW p \in Procs, NEW pc, NEW gone, Delete(p, pc, gone), pc \in {"del", "hdel"}
  PROVE  Inv'
<1> DEFINE path == proc[p].at
<1>1. /\ proc[p].pc = pc
      /\ IF gone
         THEN /\ Write(path, None)
              /\ wrote' = [wrote EXCEPT ![path] = {}]
              /\ Goto(p, "kids")
         ELSE End(p) /\ UNCHANGED <<store, wrote, unsafe>>
      /\ UNCHANGED <<index, rebuilt, ops, faults, damaged>>
  BY DEF Delete, At
<1>2. pc \in Direct /\ pc \notin Removing
  BY DEF Direct, Removing
<1>3. path \in Paths /\ path \in Keys /\ proc[p].op \in {"remove", "remove_key"}
  BY <1>1, <1>2, ProcTypes DEF Inv, Shaped, Fits, Keys
<1>4. CASE ~gone
  <2>1. /\ proc' \in [Procs -> Proc] /\ ShapeInv' /\ OthersStay(p)
        /\ proc'[p].pc = "idle" /\ proc'[p].op = "none"
    BY <1>1, <1>4, EndMoves DEF Inv, OthersStay
  <2>2. UNCHANGED <<store, index, rebuilt, ops, faults, wrote, unsafe, damaged>>
    BY <1>1, <1>4
  <2>3. Typed'
    BY <2>1, <2>2 DEF Inv, Typed
  <2>4. UpdateInv'
    BY <2>1, <2>2, UpdateStays DEF Inv
  <2>5. IndexInv'
    BY <1>1, <1>2, <2>1, <2>2, SameStore, QuietKeeps
  <2> QED
    BY <2>1, <2>3, <2>4, <2>5 DEF Inv, IndexInv
<1>5. CASE gone
  <2>1. "kids" \in Pcs \ {"sadd"} /\ "kids" \in Removing /\ "kids" \notin Direct /\ Fits("kids", proc[p].op)
        /\ path \in Places
    BY <1>3, PathPlace DEF Pcs, Direct, Removing, Mounting, Fits
  <2>2. /\ proc' \in [Procs -> Proc] /\ ShapeInv' /\ OthersStay(p)
        /\ proc'[p].pc = "kids" /\ proc'[p].op = proc[p].op /\ proc'[p].at = path
    BY <1>1, <1>5, <2>1, GotoMoves DEF Inv, OthersStay
  <2>3. /\ Write(path, None) /\ wrote' = [wrote EXCEPT ![path] = None.of]
        /\ None \in Entries /\ Sound(None) /\ None.lock = Nobody /\ path \in Paths
    BY <1>1, <1>3, <1>5, NothingThere
  <2>4. /\ UpdateInv' /\ unsafe' \subseteq Paths /\ NoNewLock
        /\ store' \in [Keys -> Entries] /\ store'[path] = None
        /\ \A q \in Keys : q # path => store'[q] = store[q]
        /\ \A q \in Keys : Sound(store'[q])
        /\ wrote' \in [Paths -> SUBSET Nat]
    <3>1. proc'[p].pc \notin {"read", "write"}
      BY <2>2
    <3>2. OthersStay(p)
      BY <2>2
    <3> HIDE DEF path
    <3> QED
      BY <2>3, <3>1, <3>2, WriteUpdates
  <2>5. Typed'
    BY <1>1, <2>2, <2>4 DEF Inv, Typed
  <2>9. /\ ~Stored(path)' /\ store'[path].due = FALSE
        /\ \A q \in Keys : q # path => (Stored(q)' <=> Stored(q)) /\ store'[q].due = store[q].due
    <3>1. /\ store'[path] = None
          /\ \A q \in Keys : q # path => store'[q] = store[q]
      BY <2>4
    <3>2. ~Stored(path)'
      <4>1. proc'[p].at = proc[p].at
        BY <2>2
      <4> QED
        BY <3>1, <4>1, NothingThere DEF Stored
    <3> HIDE DEF path
    <3>3. store'[path].due = FALSE
      BY <3>1, NothingThere
    <3>4. \A q \in Keys : q # path => (Stored(q)' <=> Stored(q)) /\ store'[q].due = store[q].due
      BY <3>1 DEF Stored
    <3> QED
      BY <3>2, <3>3, <3>4
  <2>6. Knows(p)'
    BY <1>3, <2>2, <2>9 DEF Knows, At
  <2>7. ASSUME ~damaged', NEW d \in Dirs, NEW x \in Names
        PROVE  /\ x \in index'[d] => Due(d, x)' \/ Trace(p, d, x)'
               /\ MustDue(d, x)' => x \in index'[d]
    <3>1. /\ x \in index[d] => Due(d, x) \/ Trace(p, d, x)
          /\ MustDue(d, x) => x \in index[d]
      BY <1>1, <1>3, <2>7, RemoveLists
    <3>2. ~Trace(p, d, x)
      BY <1>1, <1>2 DEF Trace, Removing
    <3>3. Due(d, x) => Due(d, x)' \/ Passes(path, d, x)
      BY <2>9 DEF Due
    <3>4. MustDue(d, x)' => MustDue(d, x)
      BY <2>9 DEF MustDue
    <3>5. Passes(path, d, x) => Trace(p, d, x)'
      BY <2>2 DEF Trace, Passes
    <3> QED
      BY <1>1, <3>1, <3>2, <3>3, <3>4, <3>5
  <2>8. IndexInv'
    BY <1>1, <1>3, <2>1, <2>2, <2>4, <2>6, <2>7, RemoveKeeps
  <2> QED
    BY <2>2, <2>4, <2>5, <2>8 DEF Inv, IndexInv
<1> QED
  BY <1>4, <1>5

LEMMA DelKeeps ==
  ASSUME Inv, NEW p \in Procs, Del(p) \/ HDel(p)
  PROVE  Inv'
<1>1. CASE Del(p)
  <2> DEFINE gone == store[proc[p].at] # None
  <2>1. Delete(p, "del", gone)
    BY <1>1 DEF Del
  <2> HIDE DEF gone
  <2> QED
    BY <2>1, DeleteKeeps
<1>2. CASE HDel(p)
  <2> DEFINE gone == store[proc[p].at].type \in {"hash", "none"}
  <2>1. Delete(p, "hdel", gone)
    BY <1>2 DEF HDel
  <2> HIDE DEF gone
  <2> QED
    BY <2>1, DeleteKeeps
<1> QED
  BY <1>1, <1>2

\* What a step between two removals does not touch.
LEMMA QuietRemoves ==
  ASSUME Inv, NEW p \in Procs, proc[p].pc \in Removing, Quiet, OthersStay(p),
         proc' \in [Procs -> Proc], index' \in [Dirs -> SUBSET Names],
         proc'[p].pc \notin {"read", "write"}
  PROVE  /\ Typed' /\ UpdateInv' /\ proc[p].op \in {"remove", "remove_key"} /\ proc[p].at \in Places
         /\ \A d, x : (Due(d, x)' <=> Due(d, x)) /\ (MustDue(d, x)' <=> MustDue(d, x))
         /\ NoNewLock
<1>1. UNCHANGED <<store, rebuilt, ops, faults, wrote, unsafe, damaged>>
  BY DEF Quiet
<1>2. Typed'
  BY <1>1 DEF Inv, Typed
<1>3. UpdateInv'
  BY <1>1, UpdateStays DEF Inv
<1>4. proc[p].op \in {"remove", "remove_key"} /\ proc[p].at \in Places
  BY ProcTypes DEF Inv, Shaped, Fits
<1>5. \A d, x : (Due(d, x)' <=> Due(d, x)) /\ (MustDue(d, x)' <=> MustDue(d, x))
  BY <1>1 DEF Due, MustDue, Stored
<1> QED
  BY <1>1, <1>2, <1>3, <1>4, <1>5, SameStore

\* A directory of the index that lists something has a value below.
LEMMA MembersAreDue ==
  ASSUME Inv, NEW p \in Procs, proc[p].op \in {"remove", "remove_key"}, ~damaged,
         NEW a \in Seq(Names), a \in Dirs, index[a] # {},
         \A x : ~Trace(p, a, x),
         NEW d, NEW x, Passes(a, d, x)
  PROVE  Due(d, x)
<1>1. PICK y \in index[a] : TRUE
  OBVIOUS
<1>2. y \in Names
  BY DEF Inv, Typed
<1>3. Due(a, y)
  BY <1>2, RemoveLists
<1>4. PICK q \in Keys : Stored(q) /\ Passes(q, a, y)
  BY <1>3 DEF Due
<1>5. q \in Seq(Names)
  BY PathNames
<1>6. Passes(q, d, x)
  BY <1>4, <1>5, PassesOn
<1> QED
  BY <1>4, <1>6 DEF Due

\* The path is a directory too, or the entry is to go.
LEMMA KidsKeeps ==
  ASSUME Inv, NEW p \in Procs, Kids(p)
  PROVE  Inv'
<1> DEFINE a == proc[p].at
<1>1. /\ proc[p].pc = "kids" /\ UNCHANGED index /\ Quiet
      /\ IF Members(a) # {} THEN End(p) ELSE Goto(p, "srem")
  BY DEF Kids, At
<1>2. "kids" \in Removing /\ "srem" \in Removing /\ "srem" \in Pcs \ {"sadd"} /\ "srem" \notin Direct
  BY DEF Removing, Pcs, Direct, Mounting
<1>3. /\ proc[p].op \in {"remove", "remove_key"} /\ a \in Places /\ Fits("srem", proc[p].op)
  <2>1. Fits("kids", proc[p].op) /\ a \in Places
    BY <1>1, <1>2, ProcTypes DEF Inv, Shaped
  <2> QED
    BY <2>1 DEF Fits, Removing, Mounting
<1>4. a \in Seq(Names)
  BY <1>3, PlaceFacts
<1>5. index' \in [Dirs -> SUBSET Names]
  BY <1>1 DEF Inv, Typed
<1>6. \A x : ~Trace(p, a, x)
  BY <1>1, <1>4, PassesOwn DEF Trace
<1>7. /\ proc' \in [Procs -> Proc] /\ ShapeInv' /\ OthersStay(p)
      /\ \/ /\ Members(a) # {} /\ proc'[p].pc = "idle" /\ proc'[p].op = "none"
         \/ /\ Members(a) = {} /\ proc'[p].pc = "srem" /\ proc'[p].op = proc[p].op /\ proc'[p].at = a
  <2>1. CASE Members(a) # {}
    BY <1>1, <2>1, EndMoves DEF Inv, OthersStay
  <2>2. CASE Members(a) = {}
    BY <1>1, <1>2, <1>3, <2>2, GotoMoves DEF Inv, OthersStay
  <2> QED
    BY <2>1, <2>2
<1>8. /\ Typed' /\ UpdateInv' /\ NoNewLock
      /\ \A d, x : (Due(d, x)' <=> Due(d, x)) /\ (MustDue(d, x)' <=> MustDue(d, x))
  BY <1>1, <1>2, <1>5, <1>7, QuietRemoves
<1>9. ASSUME ~damaged' PROVE Knows(p)'
  <2>1. CASE Members(a) # {}
    BY <1>7, <2>1 DEF Knows, At
  <2>2. CASE Members(a) = {}
    <3>1. ASSUME NEW q \in Keys, Below(q, a) PROVE ~store[q].due
      <4>1. CASE q = a
        BY <1>1, <1>9, <4>1 DEF Quiet, Inv, KnowInv, Knows, At
      <4>2. CASE \E x \in Names : Passes(q, a, x)
        <5> SUFFICES ASSUME store[q].due PROVE FALSE
          OBVIOUS
        <5>1. PICK x \in Names : Passes(q, a, x)
          BY <4>2
        <5>2. a \in Dirs /\ MustDue(a, x)
          BY <5>1, PassesDirs DEF MustDue
        <5>3. x \in index[a]
          BY <1>1, <1>3, <1>9, <5>2, RemoveLists DEF Quiet
        <5> QED
          BY <2>2, <5>2, <5>3 DEF Members
      <4> QED
        BY <3>1, <4>1, <4>2 DEF Below
    <3>2. \A q \in Keys : Below(q, proc'[p].at) => ~store'[q].due
      BY <1>1, <1>7, <2>2, <3>1 DEF Quiet
    <3> QED
      BY <1>7, <2>2, <3>2 DEF Knows, At
  <2> QED
    BY <2>1, <2>2
<1>10. ASSUME ~damaged', NEW d \in Dirs, NEW x \in Names
       PROVE  /\ x \in index'[d] => Due(d, x)' \/ Trace(p, d, x)'
              /\ MustDue(d, x)' => x \in index'[d]
  <2>1. /\ x \in index[d] => Due(d, x) \/ Trace(p, d, x)
        /\ MustDue(d, x) => x \in index[d]
    BY <1>1, <1>3, <1>10, RemoveLists DEF Quiet
  <2>2. CASE Members(a) # {}
    <3>1. a \in Dirs /\ index[a] # {}
      BY <2>2 DEF Members
    <3>2. Trace(p, d, x) => Passes(a, d, x)
      BY <1>1 DEF Trace
    <3>3. ~damaged
      BY <1>1, <1>10 DEF Quiet
    <3> HIDE DEF a
    <3>4. Trace(p, d, x) => Due(d, x)
      BY <1>3, <1>4, <1>6, <3>1, <3>2, <3>3, MembersAreDue
    <3> QED
      BY <1>1, <1>8, <2>1, <3>4
  <2>3. CASE Members(a) = {}
    <3>1. Trace(p, d, x) => Trace(p, d, x)'
      BY <1>1, <1>7, <2>3 DEF Trace, Passes
    <3> QED
      BY <1>1, <1>8, <2>1, <3>1
  <2> QED
    BY <2>2, <2>3
<1>11. IndexInv'
  <2>1. UNCHANGED <<rebuilt, damaged>>
    BY <1>1 DEF Quiet
  <2> QED
    BY <1>2, <1>3, <1>7, <1>9, <1>10, <1>8, <2>1, RemoveKeeps
<1> QED
  BY <1>7, <1>8, <1>11 DEF Inv, IndexInv

\* The entry goes.
LEMMA SRemKeeps ==
  ASSUME Inv, NEW p \in Procs, SRem(p)
  PROVE  Inv'
<1> DEFINE a == proc[p].at
<1>1. /\ proc[p].pc = "srem" /\ Quiet /\ Goto(p, "scard")
      /\ index' = [index EXCEPT ![Front(a)] = @ \ {Last(a)}]
  BY DEF SRem, At
<1>2. "srem" \in Removing /\ "scard" \in Removing /\ "scard" \in Pcs \ {"sadd"} /\ "scard" \notin Direct
  BY DEF Removing, Pcs, Direct, Mounting
<1>3. /\ proc[p].op \in {"remove", "remove_key"} /\ a \in Places /\ Fits("scard", proc[p].op)
  <2>1. Fits("srem", proc[p].op) /\ a \in Places
    BY <1>1, <1>2, ProcTypes DEF Inv, Shaped
  <2> QED
    BY <2>1 DEF Fits, Removing, Mounting
<1>4. a \in Seq(Names) /\ a # << >> /\ Front(a) \in Dirs
  BY <1>3, PlaceFacts
<1>5. /\ index' \in [Dirs -> SUBSET Names]
      /\ \A d \in Dirs : \A x : x \in index'[d] <=> x \in index[d] /\ ~(d = Front(a) /\ x = Last(a))
  BY <1>1, <1>4 DEF Inv, Typed
<1>6. /\ proc' \in [Procs -> Proc] /\ ShapeInv' /\ OthersStay(p)
      /\ proc'[p].pc = "scard" /\ proc'[p].op = proc[p].op /\ proc'[p].at = a
  BY <1>1, <1>2, <1>3, GotoMoves DEF Inv, OthersStay
<1>7. /\ Typed' /\ UpdateInv' /\ NoNewLock
      /\ \A d, x : (Due(d, x)' <=> Due(d, x)) /\ (MustDue(d, x)' <=> MustDue(d, x))
  BY <1>1, <1>2, <1>5, <1>6, QuietRemoves
<1>8. Knows(p)'
  BY <1>6 DEF Knows, At
<1>9. ASSUME ~damaged', NEW d \in Dirs, NEW x \in Names
      PROVE  /\ x \in index'[d] => Due(d, x)' \/ Trace(p, d, x)'
             /\ MustDue(d, x)' => x \in index'[d]
  <2>1. /\ x \in index[d] => Due(d, x) \/ Trace(p, d, x)
        /\ MustDue(d, x) => x \in index[d]
    BY <1>1, <1>3, <1>9, RemoveLists DEF Quiet
  <2>2. Trace(p, d, x) => Passes(a, d, x)
    BY <1>1 DEF Trace
  <2>3. Passes(a, d, x) => (d = Front(a) /\ x = Last(a)) \/ Passes(Front(a), d, x)
    BY <1>4, PassesFront
  <2>4. Passes(Front(a), d, x) => Trace(p, d, x)'
    BY <1>6 DEF Trace, Passes
  <2>5. ASSUME MustDue(d, x) PROVE ~(d = Front(a) /\ x = Last(a))
    <3> SUFFICES ASSUME d = Front(a), x = Last(a) PROVE FALSE
      OBVIOUS
    <3>1. PICK q \in Keys : store[q].due /\ Passes(q, d, x)
      BY <2>5 DEF MustDue
    <3>2. Below(q, a)
      BY <1>4, <3>1, PassesBelow
    <3>3. ~store[q].due
      BY <1>1, <1>9, <3>2 DEF Quiet, Inv, KnowInv, Knows, At
    <3> QED
      BY <3>1, <3>3
  <2> QED
    BY <1>5, <1>7, <2>1, <2>2, <2>3, <2>4, <2>5
<1>10. IndexInv'
  <2>1. UNCHANGED <<rebuilt, damaged>>
    BY <1>1 DEF Quiet
  <2> QED
    BY <1>2, <1>3, <1>6, <1>8, <1>9, <1>7, <2>1, RemoveKeeps
<1> QED
  BY <1>6, <1>7, <1>10 DEF Inv, IndexInv

\* A directory that lists more stays.
LEMMA SCardKeeps ==
  ASSUME Inv, NEW p \in Procs, SCard(p)
  PROVE  Inv'
<1> DEFINE a == proc[p].at
           f == Front(a)
<1>1. /\ proc[p].pc = "scard" /\ UNCHANGED index /\ Quiet
      /\ IF index[f] # {} THEN End(p) ELSE Goto(p, "rmdir")
  BY DEF SCard, At
<1>2. "scard" \in Removing /\ "rmdir" \in Removing /\ "rmdir" \in Pcs \ {"sadd"} /\ "rmdir" \notin Direct
  BY DEF Removing, Pcs, Direct, Mounting
<1>3. /\ proc[p].op \in {"remove", "remove_key"} /\ a \in Places /\ Fits("rmdir", proc[p].op)
  <2>1. Fits("scard", proc[p].op) /\ a \in Places
    BY <1>1, <1>2, ProcTypes DEF Inv, Shaped
  <2> QED
    BY <2>1 DEF Fits, Removing, Mounting
<1>4. f \in Seq(Names) /\ f \in Dirs
  BY <1>3, PlaceFacts, FrontAndLast
<1>5. index' \in [Dirs -> SUBSET Names]
  BY <1>1 DEF Inv, Typed
<1>6. \A x : ~Trace(p, f, x)
  BY <1>1, <1>4, PassesOwn DEF Trace
<1>7. /\ proc' \in [Procs -> Proc] /\ ShapeInv' /\ OthersStay(p)
      /\ \/ /\ index[f] # {} /\ proc'[p].pc = "idle" /\ proc'[p].op = "none"
         \/ /\ index[f] = {} /\ proc'[p].pc = "rmdir" /\ proc'[p].op = proc[p].op /\ proc'[p].at = a
  <2>1. CASE index[f] # {}
    BY <1>1, <2>1, EndMoves DEF Inv, OthersStay
  <2>2. CASE index[f] = {}
    BY <1>1, <1>2, <1>3, <2>2, GotoMoves DEF Inv, OthersStay
  <2> QED
    BY <2>1, <2>2
<1>8. /\ Typed' /\ UpdateInv' /\ NoNewLock
      /\ \A d, x : (Due(d, x)' <=> Due(d, x)) /\ (MustDue(d, x)' <=> MustDue(d, x))
  BY <1>1, <1>2, <1>5, <1>7, QuietRemoves
<1>9. Knows(p)'
  BY <1>1, <1>7 DEF Knows, At
<1>10. ASSUME ~damaged', NEW d \in Dirs, NEW x \in Names
       PROVE  /\ x \in index'[d] => Due(d, x)' \/ Trace(p, d, x)'
              /\ MustDue(d, x)' => x \in index'[d]
  <2>0. ~damaged
    BY <1>1, <1>10 DEF Quiet
  <2>1. /\ x \in index[d] => Due(d, x) \/ Trace(p, d, x)
        /\ MustDue(d, x) => x \in index[d]
    BY <1>3, <2>0, RemoveLists
  <2>2. Trace(p, d, x) => Passes(f, d, x)
    BY <1>1 DEF Trace
  <2>3. CASE index[f] # {}
    <3> HIDE DEF f
    <3>1. Trace(p, d, x) => Due(d, x)
      BY <1>3, <1>4, <1>6, <2>0, <2>2, <2>3, MembersAreDue
    <3> QED
      BY <1>1, <1>8, <2>1, <3>1
  <2>4. CASE index[f] = {}
    <3>1. Passes(f, d, x) => Trace(p, d, x)'
      BY <1>7, <2>4 DEF Trace, Passes
    <3> QED
      BY <1>1, <1>8, <2>1, <2>2, <3>1
  <2> QED
    BY <2>3, <2>4
<1>11. IndexInv'
  <2>1. UNCHANGED <<rebuilt, damaged>>
    BY <1>1 DEF Quiet
  <2> QED
    BY <1>2, <1>3, <1>7, <1>9, <1>10, <1>8, <2>1, RemoveKeeps
<1> QED
  BY <1>7, <1>8, <1>11 DEF Inv, IndexInv

\* The empty directory goes: at the root this is the end.
LEMMA RmDirKeeps ==
  ASSUME Inv, NEW p \in Procs, RmDir(p)
  PROVE  Inv'
<1> DEFINE a == proc[p].at
           f == Front(a)
<1>1. /\ proc[p].pc = "rmdir" /\ Quiet /\ index' = [index EXCEPT ![f] = {}]
      /\ IF Len(a) = 1 THEN End(p) ELSE Goto(p, "parent")
  BY DEF RmDir, At
<1>2. "rmdir" \in Removing /\ "parent" \in Removing /\ "parent" \in Pcs \ {"sadd"} /\ "parent" \notin Direct
  BY DEF Removing, Pcs, Direct, Mounting
<1>3. /\ proc[p].op \in {"remove", "remove_key"} /\ a \in Places /\ Fits("parent", proc[p].op)
  <2>1. Fits("rmdir", proc[p].op) /\ a \in Places
    BY <1>1, <1>2, ProcTypes DEF Inv, Shaped
  <2> QED
    BY <2>1 DEF Fits, Removing, Mounting
<1>4. f \in Dirs
  BY <1>3, PlaceFacts
<1>5. index' \in [Dirs -> SUBSET Names] /\ index'[f] = {}
      /\ \A d \in Dirs : d # f => index'[d] = index[d]
  BY <1>1, <1>4 DEF Inv, Typed
<1>6. /\ proc' \in [Procs -> Proc] /\ ShapeInv' /\ OthersStay(p)
      /\ \/ /\ Len(a) = 1 /\ proc'[p].pc = "idle" /\ proc'[p].op = "none"
         \/ /\ Len(a) # 1 /\ proc'[p].pc = "parent" /\ proc'[p].op = proc[p].op /\ proc'[p].at = a
  <2>1. CASE Len(a) = 1
    BY <1>1, <2>1, EndMoves DEF Inv, OthersStay
  <2>2. CASE Len(a) # 1
    BY <1>1, <1>2, <1>3, <2>2, GotoMoves DEF Inv, OthersStay
  <2> QED
    BY <2>1, <2>2
<1>7. /\ Typed' /\ UpdateInv' /\ NoNewLock
      /\ \A d, x : (Due(d, x)' <=> Due(d, x)) /\ (MustDue(d, x)' <=> MustDue(d, x))
  BY <1>1, <1>2, <1>5, <1>6, QuietRemoves
<1>8. Knows(p)'
  BY <1>5, <1>6 DEF Knows, At
<1>9. ASSUME ~damaged', NEW d \in Dirs, NEW x \in Names
      PROVE  /\ x \in index'[d] => Due(d, x)' \/ Trace(p, d, x)'
             /\ MustDue(d, x)' => x \in index'[d]
  <2>0. ~damaged
    BY <1>1, <1>9 DEF Quiet
  <2>1. /\ x \in index[d] => Due(d, x) \/ Trace(p, d, x)
        /\ MustDue(d, x) => x \in index[d]
    BY <1>3, <2>0, RemoveLists
  <2>2. index[f] = {}
    BY <1>1, <2>0 DEF Inv, KnowInv, Knows
  <2>3. index'[d] = index[d]
    BY <1>5, <2>2
  <2>4. Trace(p, d, x) => Passes(f, d, x)
    BY <1>1 DEF Trace
  <2>5. Passes(f, d, x) => Trace(p, d, x)'
    <3>1. CASE Len(a) = 1
      <4>1. f = << >>
        BY <1>3, <3>1, PlaceFacts
      <4> HIDE DEF f
      <4> QED
        BY <4>1, PassesRoot
    <3>2. CASE Len(a) # 1
      BY <1>6, <3>2 DEF Trace, Passes
    <3> QED
      BY <3>1, <3>2
  <2> QED
    BY <1>7, <2>1, <2>3, <2>4, <2>5
<1>10. IndexInv'
  <2>1. UNCHANGED <<rebuilt, damaged>>
    BY <1>1 DEF Quiet
  <2> QED
    BY <1>2, <1>3, <1>6, <1>8, <1>9, <1>7, <2>1, RemoveKeeps
<1> QED
  BY <1>6, <1>7, <1>10 DEF Inv, IndexInv

\* The directory above is looked at: a value of its name stays.
LEMMA ParentKeeps ==
  ASSUME Inv, NEW p \in Procs, Parent(p)
  PROVE  Inv'
<1> DEFINE a == proc[p].at
           f == Front(a)
           r == [proc[p] EXCEPT !.pc = "srem", !.at = f]
<1>1. /\ proc[p].pc = "parent" /\ UNCHANGED index /\ Quiet
      /\ IF Exists(f) THEN End(p) ELSE proc' = [proc EXCEPT ![p] = r]
  BY DEF Parent, At
<1>2. "parent" \in Removing /\ "srem" \in Removing /\ "srem" \in Pcs \ {"sadd"} /\ "srem" \notin Direct
  BY DEF Removing, Pcs, Direct, Mounting
<1>3. /\ proc[p] \in Proc /\ proc[p].op \in {"remove", "remove_key"} /\ a \in Places
      /\ Fits("srem", proc[p].op) /\ Len(a) # 1
  <2>1. Fits("parent", proc[p].op) /\ a \in Places /\ Len(a) # 1 /\ proc[p] \in Proc
    BY <1>1, <1>2, ProcTypes DEF Inv, Shaped
  <2> QED
    BY <2>1 DEF Fits, Removing, Mounting
<1>4. f \in Places /\ f \in Dirs
  BY <1>3, PlaceFacts
<1>5. index' \in [Dirs -> SUBSET Names]
  BY <1>1 DEF Inv, Typed
<1>6. /\ proc' \in [Procs -> Proc] /\ ShapeInv' /\ OthersStay(p)
      /\ \/ /\ Exists(f) /\ proc'[p].pc = "idle" /\ proc'[p].op = "none"
         \/ /\ ~Exists(f) /\ proc'[p].pc = "srem" /\ proc'[p].op = proc[p].op /\ proc'[p].at = f
  <2>1. CASE Exists(f)
    BY <1>1, <2>1, EndMoves DEF Inv, OthersStay
  <2>2. CASE ~Exists(f)
    <3>1. r \in Proc /\ r.pc = "srem" /\ r.op = proc[p].op /\ r.at = f
      BY <1>2, <1>3, <1>4 DEF Proc
    <3>2. proc' = [proc EXCEPT ![p] = r]
      BY <1>1, <2>2
    <3> HIDE DEF r
    <3>3. Shaped(r)
      BY <1>2, <1>3, <1>4, <3>1 DEF Shaped
    <3> QED
      BY <2>2, <3>1, <3>2, <3>3, Moves DEF Inv, OthersStay
  <2> QED
    BY <2>1, <2>2
<1>7. /\ Typed' /\ UpdateInv' /\ NoNewLock
      /\ \A d, x : (Due(d, x)' <=> Due(d, x)) /\ (MustDue(d, x)' <=> MustDue(d, x))
  BY <1>1, <1>2, <1>5, <1>6, QuietRemoves
<1>8. ASSUME ~damaged' PROVE Knows(p)'
  <2>0. ~damaged
    BY <1>1, <1>8 DEF Quiet
  <2>1. CASE Exists(f)
    BY <1>6, <2>1 DEF Knows, At
  <2>2. CASE ~Exists(f)
    <3>1. ASSUME NEW q \in Keys, Below(q, f), store[q].due PROVE FALSE
      <4>1. q # f
        BY <2>2, <3>1, NothingThere DEF Exists
      <4>2. PICK x \in Names : Passes(q, f, x)
        BY <3>1, <4>1 DEF Below
      <4>3. MustDue(f, x)
        BY <3>1, <4>2 DEF MustDue
      <4>4. x \in index[f]
        BY <1>3, <1>4, <2>0, <4>3, RemoveLists
      <4> QED
        BY <1>1, <2>0, <4>4 DEF Inv, KnowInv, Knows
    <3>2. \A q \in Keys : Below(q, proc'[p].at) => ~store'[q].due
      BY <1>1, <1>6, <2>2, <3>1 DEF Quiet
    <3> QED
      BY <1>6, <2>2, <3>2 DEF Knows, At
  <2> QED
    BY <2>1, <2>2
<1>9. ASSUME ~damaged', NEW d \in Dirs, NEW x \in Names
      PROVE  /\ x \in index'[d] => Due(d, x)' \/ Trace(p, d, x)'
             /\ MustDue(d, x)' => x \in index'[d]
  <2>0. ~damaged
    BY <1>1, <1>9 DEF Quiet
  <2>1. /\ x \in index[d] => Due(d, x) \/ Trace(p, d, x)
        /\ MustDue(d, x) => x \in index[d]
    BY <1>3, <2>0, RemoveLists
  <2>2. Trace(p, d, x) => Passes(f, d, x)
    BY <1>1 DEF Trace
  <2>3. CASE Exists(f)
    <3>1. Stored(f)
      <4>1. Clears(proc[p].op)
        BY <1>3 DEF Clears
      <4>2. f \in Keys /\ store[f] # None /\ store[f].lock = Nobody
        BY <2>0, <2>3, <4>1 DEF Exists, Inv, AloneInv, Unlocked
      <4> QED
        BY <4>2, EntryTypes DEF Inv
    <3>2. Passes(f, d, x) => Due(d, x)
      BY <2>3, <3>1 DEF Exists, Due
    <3> QED
      BY <1>1, <1>7, <2>1, <2>2, <3>2
  <2>4. CASE ~Exists(f)
    <3>1. Passes(f, d, x) => Trace(p, d, x)'
      BY <1>6, <2>4 DEF Trace, Passes
    <3> QED
      BY <1>1, <1>7, <2>1, <2>2, <3>1
  <2> QED
    BY <2>3, <2>4
<1>10. IndexInv'
  <2>1. UNCHANGED <<rebuilt, damaged>>
    BY <1>1 DEF Quiet
  <2> QED
    BY <1>2, <1>3, <1>6, <1>8, <1>9, <1>7, <2>1, RemoveKeeps
<1> QED
  BY <1>6, <1>7, <1>10 DEF Inv, IndexInv

-----------------------------------------------------------------------------
(* The index is built                                                      *)

LEMMA KeysFinite == IsFiniteSet(Keys)
<1>1. IsFiniteSet({KeyLock[q] : q \in Paths})
  <2> DEFINE lock == [q \in Paths |-> KeyLock[q]]
  <2>1. lock \in Surjection(Paths, {KeyLock[q] : q \in Paths})
    BY DEF Surjection
  <2> QED
    BY <2>1, RedisAssumption, FS_Surjection
<1> QED
  BY <1>1, RedisAssumption, FS_Union DEF Keys

LEMMA SetToSeqLists ==
  ASSUME NEW S, IsFiniteSet(S)
  PROVE  SetToSeq(S) \in Seq(S) /\ ToSet(SetToSeq(S)) = S
<1> DEFINE n == Cardinality(S)
           s == SetToSeq(S)
<1>1. n \in Nat /\ ExistsBijection(1 .. n, S)
  BY FS_CardinalityType
<1>2. \E f \in [1 .. n -> S] : IsInjective(f)
  BY <1>1 DEF ExistsBijection, Bijection, Injection
<1>3. s \in [1 .. n -> S] /\ IsInjective(s)
  BY <1>2 DEF SetToSeq
<1>4. s \in Injection(1 .. n, S)
  BY <1>3 DEF Injection
<1>5. Cardinality(1 .. n) = n
  BY <1>1, FS_Interval
<1>6. s \in Surjection(1 .. n, S)
  BY <1>4, <1>5, FS_Injection
<1>7. s \in Seq(S)
  BY <1>1, <1>3
<1>8. \A x \in S : \E i \in 1 .. n : s[i] = x
  BY <1>6 DEF Surjection
<1> HIDE DEF s, n
<1>9. ToSet(s) = S
  BY <1>3, <1>8 DEF ToSet
<1> QED
  BY <1>7, <1>9 DEF s

\* A step of an operation that builds, or of one that begins or breaks off,
\* before any entry is touched or after all are.
LEMMA OutsideKeeps ==
  ASSUME Inv, NEW p \in Procs, OthersStay(p), UNCHANGED <<store, index, rebuilt>>,
         damaged => damaged',
         ~damaged' => Knows(p)',
         ~damaged' => proc[p].pc \notin Removing \cup {"sadd"},
         ~damaged' /\ Ready' => Ready
  PROVE  KnowInv' /\ ListInv'
<1>1. SameKeys
  BY SameStore
<1>2. KnowInv'
  BY <1>1, KnowStays DEF Inv
<1>3. \A d, x : ~damaged' => ~Trace(p, d, x) /\ ~Left(p, d, x)
  BY DEF Trace, Left, At, Removing
<1>4. ListInv'
  BY <1>1, <1>3, ListStays DEF Inv
<1> QED
  BY <1>2, <1>4

LEMMA MountingFacts ==
  ASSUME Inv, NEW p \in Procs, proc[p].pc \in Mounting
  PROVE  /\ proc[p].op = "mount" /\ Active(p) /\ Clears(proc[p].op)
         /\ proc[p].pc \notin Removing \cup {"sadd"}
         /\ proc[p].pc \notin Direct
         /\ \A pc \in Mounting : Fits(pc, proc[p].op) /\ pc \in Pcs \ {"sadd"}
                                 /\ pc \notin Direct /\ pc \notin Removing
<1>1. proc[p].op = "mount"
  BY ProcTypes DEF Inv, Shaped, Fits
<1>2. \A pc \in Mounting : Fits(pc, proc[p].op) /\ pc \in Pcs \ {"sadd"}
                           /\ pc \notin Direct /\ pc \notin Removing
  BY <1>1 DEF Fits, Mounting, Pcs, Direct, Removing
<1> QED
  BY <1>1, <1>2 DEF Mounting, Removing, Direct, Active, Clears

LEMMA MarkedKeeps ==
  ASSUME Inv, NEW p \in Procs, Marked(p)
  PROVE  Inv'
<1>1. /\ proc[p].pc = "marked" /\ IF rebuilt THEN End(p) ELSE Goto(p, "scan")
      /\ UNCHANGED <<store, index, rebuilt, ops, faults, wrote, unsafe, damaged>>
  BY DEF Marked, At, Quiet
<1>2. "marked" \in Mounting /\ "scan" \in Mounting
  BY DEF Mounting
<1>3. /\ proc[p].op = "mount" /\ Active(p) /\ proc[p].pc \notin Removing \cup {"sadd"}
      /\ Fits("scan", proc[p].op) /\ "scan" \in Pcs \ {"sadd"} /\ "scan" \notin Direct /\ "scan" \notin Removing
  BY <1>1, <1>2, MountingFacts
<1>4. /\ proc' \in [Procs -> Proc] /\ ShapeInv' /\ OthersStay(p)
      /\ \/ rebuilt /\ proc'[p].pc = "idle" /\ proc'[p].op = "none"
         \/ ~rebuilt /\ proc'[p].pc = "scan" /\ proc'[p].op = proc[p].op
  <2>1. CASE rebuilt
    BY <1>1, <2>1, EndMoves DEF Inv, OthersStay
  <2>2. CASE ~rebuilt
    BY <1>1, <1>3, <2>2, GotoMoves DEF Inv, OthersStay
  <2> QED
    BY <2>1, <2>2
<1>5. Typed'
  BY <1>1, <1>4 DEF Inv, Typed
<1>6. UpdateInv'
  BY <1>1, <1>4, UpdateStays DEF Inv
<1>7. AloneInv'
  BY <1>1, <1>3, <1>4, SameStore, AloneStays DEF Inv
<1>8. BuildInv'
  BY <1>1, <1>3, <1>4, BuildStays DEF Inv
<1>9. KnowInv' /\ ListInv'
  <2>1. Knows(p)'
    BY <1>4 DEF Knows, At
  <2>2. Ready' => Ready
    BY <1>1, <1>4 DEF Ready, OthersStay
  <2> QED
    BY <1>1, <1>3, <1>4, <2>1, <2>2, OutsideKeeps
<1> QED
  BY <1>4, <1>5, <1>6, <1>7, <1>8, <1>9 DEF Inv

LEMMA ScanKeeps ==
  ASSUME Inv, NEW p \in Procs, Scan(p)
  PROVE  Inv'
<1> DEFINE S == {k \in Keys : store[k] # None}
           keys == SetToSeq(S)
           r == [proc[p] EXCEPT !.pc = "wipe", !.todo = keys]
<1>1. /\ proc[p].pc = "scan" /\ proc' = [proc EXCEPT ![p] = r]
      /\ UNCHANGED <<store, index, rebuilt, ops, faults, wrote, unsafe, damaged>>
  BY DEF Scan, At, Quiet
<1>2. "scan" \in Mounting /\ "wipe" \in Mounting
  BY DEF Mounting
<1>3. /\ proc[p].op = "mount" /\ Active(p) /\ proc[p].pc \notin Removing \cup {"sadd"}
      /\ Fits("wipe", proc[p].op) /\ "wipe" \in Pcs \ {"sadd"} /\ "wipe" \notin Direct /\ "wipe" \notin Removing
  BY <1>1, <1>2, MountingFacts
<1>4. keys \in Seq(Keys) /\ ToSet(keys) = S
  <2>1. IsFiniteSet(S) /\ S \subseteq Keys
    BY KeysFinite, FS_Subset
  <2>2. keys \in Seq(S) /\ ToSet(keys) = S
    BY <2>1, SetToSeqLists
  <2> HIDE DEF keys, S
  <2> QED
    BY <2>1, <2>2, SeqMonotonic
<1> HIDE DEF keys
<1>5. r \in Proc /\ r.pc = "wipe" /\ r.op = proc[p].op /\ r.todo = keys
  BY <1>3, <1>4, ProcTypes DEF Inv, Proc
<1> HIDE DEF r
<1>6. Shaped(r)
  BY <1>3, <1>5 DEF Shaped
<1>7. proc' \in [Procs -> Proc] /\ ShapeInv' /\ proc'[p] = r /\ OthersStay(p)
  BY <1>1, <1>5, <1>6, Moves DEF Inv, OthersStay
<1>8. Typed'
  BY <1>1, <1>7 DEF Inv, Typed
<1>9. UpdateInv'
  BY <1>1, <1>5, <1>7, UpdateStays DEF Inv
<1>10. AloneInv'
  BY <1>1, <1>3, <1>5, <1>7, SameStore, AloneStays DEF Inv
<1>11. BuildInv'
  <2>1. ~damaged => ~rebuilt
    BY <1>1, <1>3 DEF Inv, BuildInv
  <2> QED
    BY <1>1, <1>3, <1>5, <1>7, <2>1, BuildStays DEF Inv
<1>12. KnowInv' /\ ListInv'
  <2>1. ~damaged' => Knows(p)'
    <3>1. ASSUME ~damaged PROVE Unlocked
      <4>1. Clears(proc[p].op)
        BY <1>3 DEF Clears
      <4> QED
        BY <3>1, <4>1 DEF Inv, AloneInv
    <3>2. \A k \in Keys : /\ store[k].due => store[k] # None
                          /\ store[k].lock = Nobody /\ store[k] # None => Stored(k)
      BY EntryTypes, NothingThere DEF Inv
    <3>3. ~damaged => \A k \in ToSet(keys) : Stored(k)
      BY <1>4, <3>1, <3>2 DEF Unlocked
    <3>4. \A k \in Keys : store[k].due => k \in ToSet(keys)
      BY <1>4, <3>2
    <3>5. /\ ~damaged' => \A k \in ToSet(proc'[p].todo) : Stored(k)'
          /\ \A k \in Keys : store'[k].due => k \in ToSet(proc'[p].todo)
      BY <1>1, <1>5, <1>7, <3>3, <3>4 DEF Stored
    <3> QED
      BY <1>5, <1>7, <3>5 DEF Knows, At
  <2>2. Ready' => Ready
    BY <1>1, <1>5, <1>7 DEF Ready, OthersStay
  <2> QED
    BY <1>1, <1>3, <1>7, <2>1, <2>2, OutsideKeeps
<1> QED
  BY <1>7, <1>8, <1>9, <1>10, <1>11, <1>12 DEF Inv

\* The index is emptied: from here on every value is one whose entries are left to add.
LEMMA WipeKeeps ==
  ASSUME Inv, NEW p \in Procs, Wipe(p)
  PROVE  Inv'
<1> DEFINE keys == proc[p].todo
<1>1. /\ proc[p].pc = "wipe" /\ IndexNext(p, keys) /\ index' = [d \in Dirs |-> {}]
      /\ UNCHANGED <<store, rebuilt, ops, faults, wrote, unsafe, damaged>>
  BY DEF Wipe, At, Quiet
<1>2. proc[p].op = "mount" /\ Active(p) /\ Clears(proc[p].op)
  <2>1. "wipe" \in Mounting
    BY DEF Mounting
  <2> QED
    BY <1>1, <2>1, MountingFacts
<1>3. keys \in Seq(Keys)
  BY ProcTypes DEF Inv
<1>4. /\ proc' \in [Procs -> Proc] /\ ShapeInv' /\ OthersStay(p)
      /\ proc'[p].pc = (IF keys = << >> THEN "mark" ELSE "sadd")
      /\ proc'[p].op = proc[p].op /\ proc'[p].todo = keys /\ proc'[p].seen = {}
  BY <1>1, <1>2, <1>3, IndexMoves DEF Inv, OthersStay
<1> HIDE DEF keys
<1>5. Typed'
  <2>1. index' \in [Dirs -> SUBSET Names]
    BY <1>1
  <2> QED
    BY <1>1, <1>4, <2>1 DEF Inv, Typed
<1>6. UpdateInv'
  BY <1>1, <1>4, UpdateStays DEF Inv
<1>7. AloneInv'
  BY <1>1, <1>2, <1>4, SameStore, AloneStays DEF Inv
<1>8. BuildInv'
  <2>1. ~damaged => ~rebuilt
    BY <1>1, <1>2 DEF Inv, BuildInv
  <2> QED
    BY <1>1, <1>2, <1>4, <2>1, BuildStays DEF Inv
<1>9. ASSUME ~damaged PROVE /\ \A q \in ToSet(keys) : Stored(q)
                            /\ \A q \in Keys : store[q].due => q \in ToSet(keys)
  BY <1>1, <1>9 DEF Inv, KnowInv, Knows, At, keys
<1>10. KnowInv'
  <2> SUFFICES ASSUME ~damaged, NEW q \in Procs PROVE Knows(q)'
    BY <1>1 DEF KnowInv
  <2>1. CASE q = p
    <3>2. \A k \in ToSet(proc'[p].todo) : Stored(k)'
      BY <1>1, <1>4, <1>9 DEF Stored
    <3> QED
      BY <1>4, <2>1, <3>2 DEF Knows, At
  <2>2. CASE q # p
    <3>1. proc'[q].pc \in {"idle", "unmounted"}
      BY <1>2, <1>4, <2>2, Solo DEF Inv, OthersStay
    <3> QED
      BY <3>1 DEF Knows, At
  <2> QED
    BY <2>1, <2>2
<1>11. ListInv'
  <2> SUFFICES ASSUME ~damaged, NEW d \in Dirs, NEW x \in Names, MustDue(d, x)' PROVE Left(p, d, x)'
    BY <1>1 DEF ListInv
  <2>1. PICK q \in Keys : store[q].due /\ Passes(q, d, x)
    BY <1>1 DEF MustDue
  <2>2. q \in ToSet(keys)
    BY <1>9, <2>1
  <2>3. keys # << >> /\ (q = Head(keys) \/ q \in ToSet(Tail(keys)))
    BY <1>3, <2>2, HeadOrTail
  <2>4. CASE q = Head(keys)
    BY <1>4, <2>1, <2>3, <2>4 DEF Left, At, Passes
  <2>5. CASE q \in ToSet(Tail(keys))
    BY <1>4, <2>1, <2>3, <2>5 DEF Left, At
  <2> QED
    BY <2>3, <2>4, <2>5
<1> QED
  BY <1>4, <1>5, <1>6, <1>7, <1>8, <1>10, <1>11 DEF Inv

LEMMA MarkKeeps ==
  ASSUME Inv, NEW p \in Procs, Mark(p)
  PROVE  Inv'
<1>1. /\ proc[p].pc = "mark" /\ End(p) /\ rebuilt' = TRUE
      /\ UNCHANGED <<store, index, ops, faults, wrote, unsafe, damaged>>
  BY DEF Mark, At
<1>2. /\ proc[p].op = "mount" /\ Active(p) /\ Clears(proc[p].op)
      /\ proc[p].pc \notin Removing \cup {"sadd"}
  <2>1. "mark" \in Mounting
    BY DEF Mounting
  <2> QED
    BY <1>1, <2>1, MountingFacts
<1>3. /\ proc' \in [Procs -> Proc] /\ ShapeInv' /\ OthersStay(p)
      /\ proc'[p].pc = "idle" /\ proc'[p].op = "none"
  BY <1>1, EndMoves DEF Inv, OthersStay
<1>4. Typed'
  BY <1>1, <1>3 DEF Inv, Typed
<1>5. UpdateInv'
  BY <1>1, <1>3, UpdateStays DEF Inv
<1>6. AloneInv'
  BY <1>1, <1>2, <1>3, SameStore, AloneStays DEF Inv
<1>7. ASSUME ~damaged, NEW q \in Procs PROVE proc'[q].op = "none" /\ proc'[q].pc \in {"idle", "unmounted"}
  BY <1>2, <1>3, <1>7, Solo DEF Inv, OthersStay
<1>8. BuildInv'
  BY <1>1, <1>7 DEF BuildInv
<1>9. KnowInv'
  BY <1>1, <1>7 DEF KnowInv, Knows, At
<1>10. ListInv'
  <2> SUFFICES ASSUME ~damaged, NEW d \in Dirs, NEW x \in Names
               PROVE  (x \in index[d] => Due(d, x)') /\ (MustDue(d, x)' => x \in index[d])
    BY <1>1 DEF ListInv
  <2>1. Ready
    BY <1>1, <1>2 DEF Ready
  <2>2. \A q \in Procs : proc[q].pc \in {"idle", "unmounted", "mark"}
    <3>1. \A q \in Procs : q # p => proc[q].pc \in {"idle", "unmounted"}
      BY <1>2, Solo DEF Inv
    <3> QED
      BY <1>1, <3>1
  <2>3. \A q \in Procs : ~Trace(q, d, x) /\ ~Left(q, d, x)
    BY <2>2 DEF Trace, Left, At
  <2>4. (Due(d, x)' <=> Due(d, x)) /\ (MustDue(d, x)' <=> MustDue(d, x))
    BY <1>1 DEF Due, MustDue, Stored
  <2> QED
    BY <2>1, <2>3, <2>4 DEF Inv, ListInv
<1> QED
  BY <1>3, <1>4, <1>5, <1>6, <1>8, <1>9, <1>10 DEF Inv

-----------------------------------------------------------------------------
(* Operations begin, break off, and locks run out                          *)

LEMMA StartKeeps ==
  ASSUME Inv, NEW p \in Procs, NEW op \in DOMAIN FirstCommand, NEW path \in Paths, Start(p, op, path)
  PROVE  Inv'
<1> DEFINE first == FirstCommand[op]
           r == [Idle EXCEPT !.pc = first, !.op = op, !.at = path, !.no = ops + 1]
           crossing == \/ \E q \in Procs \ {p} : Active(q) /\ (Clears(op) \/ Clears(proc[q].op))
                       \/ Clears(op) /\ \E k \in Keys : store[k].lock # Nobody
<1>1. /\ IF op = "mount" THEN proc[p].pc = "unmounted" ELSE proc[p].pc = "idle"
      /\ ops' = ops + 1 /\ proc' = [proc EXCEPT ![p] = r]
      /\ damaged' = (damaged \/ crossing)
      /\ UNCHANGED <<store, index, rebuilt, faults, wrote, unsafe>>
  BY DEF Start, At
<1>2. /\ op \in Ops \ {"none"} /\ first \in Pcs \ {"sadd"}
      /\ first \in (Direct \ {"read", "write", "unlock"}) \cup {"marked"}
      /\ op = "mount" <=> first = "marked"
      /\ Fits(first, op)
  <2>1. op \in {"add", "push", "insert", "update", "update_key", "remove", "remove_key", "mount"}
    BY DEF FirstCommand
  <2>2. <<op, first>> \in {<<"add", "set">>, <<"push", "rpush">>, <<"insert", "hset">>, <<"update", "lock">>,
                           <<"update_key", "lock">>, <<"remove", "get">>, <<"remove_key", "hget">>,
                           <<"mount", "marked">>}
    BY <2>1 DEF FirstCommand
  <2> HIDE DEF first
  <2>3. op \in Ops \ {"none"}
    BY <2>1 DEF Ops
  <2> QED
    BY <2>2, <2>3 DEF Pcs, Direct, Removing, Mounting, Fits
<1>3. /\ r \in Proc /\ r.pc = first /\ r.op = op /\ r.at = path
  <2>1. ops + 1 \in Nat /\ path \in Places
    BY PathPlace DEF Inv, Typed, Keys
  <2> HIDE DEF first
  <2> QED
    BY <1>2, <2>1, IdleShaped DEF Idle, Proc
<1> HIDE DEF r, first
<1>4. first \notin Removing /\ first \notin {"sadd", "read", "write", "unlock", "wipe", "scan", "mark", "idle", "unmounted"}
  BY <1>2 DEF Direct, Removing
<1>5. Shaped(r)
  BY <1>2, <1>3, <1>4 DEF Shaped, Removing
<1>6. proc' \in [Procs -> Proc] /\ ShapeInv' /\ proc'[p] = r /\ OthersStay(p)
  BY <1>1, <1>3, <1>5, Moves DEF Inv, OthersStay
<1>7. damaged' \in BOOLEAN /\ (damaged => damaged') /\ (~damaged' => ~damaged /\ ~crossing)
  BY <1>1 DEF Inv, Typed
<1>8. Typed'
  <2>1. ops' \in Nat
    BY <1>1 DEF Inv, Typed
  <2> QED
    BY <1>1, <1>6, <1>7, <2>1 DEF Inv, Typed
<1>9. UpdateInv'
  BY <1>1, <1>3, <1>4, <1>6, UpdateStays DEF Inv
<1>10. AloneInv'
  <2>0. ASSUME ~damaged', NEW q \in Procs, Clears(proc'[q].op) PROVE Unlocked'
    <3>1. ~damaged /\ ~crossing
      BY <1>7, <2>0
    <3>2. CASE q = p
      BY <1>1, <1>3, <1>6, <2>0, <3>1, <3>2 DEF Unlocked
    <3>3. CASE q # p
      <4>1. Clears(proc[q].op)
        BY <1>6, <2>0, <3>3 DEF OthersStay
      <4> QED
        BY <1>1, <3>1, <4>1 DEF Inv, AloneInv, Unlocked
    <3> QED
      BY <3>2, <3>3
  <2> SUFFICES ASSUME ~damaged', NEW a \in Procs, NEW b \in Procs,
                      Active(a)', Active(b)', Clears(proc'[a].op)
               PROVE  a = b
    BY <2>0 DEF AloneInv
  <2>1. ~damaged /\ ~crossing
    BY <1>7
  <2>2. ASSUME NEW q \in Procs, q # p, Active(q)'
        PROVE  Active(q) /\ proc'[q] = proc[q] /\ ~Clears(op) /\ ~Clears(proc[q].op)
    <3>1. proc'[q] = proc[q]
      BY <1>6, <2>2 DEF OthersStay
    <3> QED
      BY <2>1, <2>2, <3>1 DEF Active
  <2>3. CASE a = p /\ b # p
    BY <1>3, <1>6, <2>2, <2>3
  <2>4. CASE a # p
    BY <2>2, <2>4
  <2> QED
    BY <2>3, <2>4
<1>11. BuildInv'
  <2>1. ASSUME ~rebuilt, NEW q \in Procs PROVE proc'[q].pc = "unmounted" \/ proc'[q].op = "mount"
    <3>1. proc[q].pc = "unmounted" \/ proc[q].op = "mount"
      BY <2>1 DEF Inv, BuildInv, At
    <3>2. CASE q = p
      <4>1. proc[p].pc = "idle" => proc[p].op = "none"
        BY ProcTypes DEF Inv, Shaped, Fits
      <4> QED
        BY <1>1, <1>3, <1>6, <3>1, <3>2, <4>1
    <3>3. CASE q # p
      BY <1>6, <3>1, <3>3 DEF OthersStay
    <3> QED
      BY <3>2, <3>3
  <2>2. ASSUME ~damaged', NEW q \in Procs, proc'[q].op = "mount",
               proc'[q].pc \in {"scan", "wipe", "sadd", "mark"}
        PROVE  ~rebuilt
    <3>1. q # p
      BY <1>3, <1>4, <1>6, <2>2
    <3> QED
      BY <1>6, <1>7, <2>2, <3>1 DEF Inv, BuildInv, OthersStay
  <2> QED
    BY <1>1, <2>1, <2>2 DEF BuildInv, At
<1>12. KnowInv' /\ ListInv'
  <2>1. Knows(p)'
    BY <1>3, <1>4, <1>6 DEF Knows, At, Removing
  <2>2. Ready' => Ready
    BY <1>1, <1>3, <1>4, <1>6 DEF Ready, OthersStay
  <2>3. proc[p].pc \notin Removing \cup {"sadd"}
    BY <1>1 DEF Removing
  <2> QED
    BY <1>1, <1>6, <1>7, <2>1, <2>2, <2>3, OutsideKeeps
<1> QED
  BY <1>6, <1>8, <1>9, <1>10, <1>11, <1>12 DEF Inv

LEMMA FailKeeps ==
  ASSUME Inv, NEW p \in Procs, Fail(p)
  PROVE  Inv'
<1> DEFINE r == IF proc[p].op = "mount" THEN [Idle EXCEPT !.pc = "unmounted"] ELSE Idle
           harmless == proc[p].pc \in {"set", "rpush", "hset", "get", "hget", "del", "hdel",
                                       "marked", "scan", "lock", "read", "write", "unlock"}
<1>1. /\ Active(p) /\ faults' = faults + 1 /\ proc' = [proc EXCEPT ![p] = r]
      /\ damaged' = (damaged \/ ~harmless)
      /\ UNCHANGED <<store, index, rebuilt, ops, wrote, unsafe>>
  BY DEF Fail
<1>2. /\ r \in Proc /\ Shaped(r) /\ r.op = "none"
      /\ \/ r.pc = "idle" /\ proc[p].op # "mount"
         \/ r.pc = "unmounted"
  BY IdleShaped
<1> HIDE DEF r
<1>3. proc' \in [Procs -> Proc] /\ ShapeInv' /\ proc'[p] = r /\ OthersStay(p)
  BY <1>1, <1>2, Moves DEF Inv, OthersStay
<1>4. damaged' \in BOOLEAN /\ (damaged => damaged') /\ (~damaged' => ~damaged /\ harmless)
  BY <1>1 DEF Inv, Typed
<1>5. Typed'
  <2>1. faults' \in Nat
    BY <1>1 DEF Inv, Typed
  <2> QED
    BY <1>1, <1>3, <1>4, <2>1 DEF Inv, Typed
<1>6. UpdateInv'
  BY <1>1, <1>2, <1>3, UpdateStays DEF Inv
<1>7. AloneInv'
  BY <1>1, <1>2, <1>3, <1>4, SameStore, AloneStays DEF Inv
<1>8. BuildInv'
  BY <1>1, <1>2, <1>3, <1>4, BuildStays DEF Inv
<1>9. KnowInv' /\ ListInv'
  <2>1. Knows(p)'
    BY <1>2, <1>3 DEF Knows, At
  <2>2. Ready' => Ready
    BY <1>1, <1>2, <1>3 DEF Ready, OthersStay
  <2>3. ~damaged' => proc[p].pc \notin Removing \cup {"sadd"}
    BY <1>4 DEF Removing
  <2> QED
    BY <1>1, <1>3, <1>4, <2>1, <2>2, <2>3, OutsideKeeps
<1> QED
  BY <1>3, <1>5, <1>6, <1>7, <1>8, <1>9 DEF Inv

\* Where nobody moves and no value goes, what is known of the index stays.
LEMMA IndexStays ==
  ASSUME Inv, UNCHANGED <<index, rebuilt, proc, damaged>>, SameKeys
  PROVE  ShapeInv' /\ IndexInv'
<1>1. ShapeInv' /\ BuildInv'
  BY DEF Inv, ShapeInv, BuildInv, At
<1>2. AloneInv'
  BY DEF Inv, AloneInv, Active, SameKeys, NoNewLock
<1>3. KnowInv'
  BY KnowsStill DEF Inv, KnowInv
<1>4. \A p \in Procs : \A d, x : (Trace(p, d, x)' <=> Trace(p, d, x)) /\ (Left(p, d, x)' <=> Left(p, d, x))
  BY DEF Trace, Left, At
<1>5. Ready' <=> Ready
  BY DEF Ready
<1>6. ListInv'
  BY <1>4, <1>5, DueStays DEF Inv, ListInv
<1> QED
  BY <1>1, <1>2, <1>3, <1>6 DEF IndexInv

\* A lock runs out: who works under it is on record.
LEMMA LockExpires ==
  ASSUME Inv, NEW key \in Keys, store[key].lock # Nobody, store' = [store EXCEPT ![key] = None],
         faults' \in Nat, unsafe \subseteq unsafe', unsafe' \subseteq Paths,
         UNCHANGED <<index, rebuilt, proc, ops, wrote, damaged>>,
         \A p \in Procs : Holding(p, key) => proc[p].at \in unsafe'
  PROVE  Inv'
<1>1. \A q \in Procs : proc'[q].pc \in {"read", "write"} /\ proc'[q].at \notin unsafe' =>
        proc'[q] = proc[q] /\ ~Holding(q, key)
  OBVIOUS
<1>2. /\ UpdateInv' /\ SameKeys
      /\ store' \in [Keys -> Entries] /\ \A k \in Keys : Sound(store'[k])
  BY <1>1, LockGone
<1>3. Typed'
  BY <1>2 DEF Inv, Typed
<1> QED
  BY <1>2, <1>3, IndexStays DEF Inv, IndexInv

LEMMA OverrunKeeps ==
  ASSUME Inv, Nobody \notin Procs, NEW key \in Keys, Overrun(key)
  PROVE  Inv'
<1>1. PICK p \in Procs : Holding(p, key) /\ unsafe' = unsafe \cup {proc[p].at}
  BY DEF Overrun
<1>2. /\ faults' = faults + 1 /\ store' = [store EXCEPT ![key] = None]
      /\ UNCHANGED <<index, rebuilt, proc, ops, wrote, damaged>>
  BY DEF Overrun
<1>3. store[key].lock = p /\ proc[p].at \in Paths
  BY <1>1, LockNames DEF Inv, Holding
<1>4. faults' \in Nat /\ unsafe \subseteq unsafe' /\ unsafe' \subseteq Paths
  BY <1>1, <1>2, <1>3 DEF Inv, Typed
<1>5. \A q \in Procs : Holding(q, key) => proc[q].at \in unsafe'
  BY <1>1, <1>3 DEF Holding
<1>6. store[key].lock # Nobody
  BY <1>3
<1> QED
  BY <1>2, <1>4, <1>5, <1>6, LockExpires

LEMMA ExpireKeeps ==
  ASSUME Inv, NEW key \in Keys, Expire(key)
  PROVE  Inv'
<1>1. /\ \A p \in Procs : ~Holding(p, key)
      /\ store[key].lock # Nobody /\ store' = [store EXCEPT ![key] = None]
      /\ UNCHANGED <<index, rebuilt, proc, ops, faults, wrote, unsafe, damaged>>
  BY DEF Expire
<1>2. faults' \in Nat /\ unsafe \subseteq unsafe' /\ unsafe' \subseteq Paths
  BY <1>1 DEF Inv, Typed
<1> QED
  BY <1>1, <1>2, LockExpires

LEMMA StutterKeeps ==
  ASSUME Inv, UNCHANGED vars
  PROVE  Inv'
<1>1. UNCHANGED <<store, index, rebuilt, proc, ops, faults, wrote, unsafe, damaged>>
  BY DEF vars
<1>2. Typed'
  BY <1>1 DEF Inv, Typed
<1>3. UpdateInv'
  BY <1>1 DEF Inv, UpdateInv, NoUpdateLost, LockOf, At, Wanted
<1> QED
  BY <1>1, <1>2, <1>3, SameStore, IndexStays DEF Inv, IndexInv

-----------------------------------------------------------------------------
(* The theorems                                                            *)

LEMMA InitHolds == Init => Inv
<1> SUFFICES ASSUME Init PROVE Inv
  OBVIOUS
<1> DEFINE idle == IF rebuilt THEN Idle ELSE [Idle EXCEPT !.pc = "unmounted"]
<1>1. /\ proc = [p \in Procs |-> idle]
      /\ ops = 0 /\ faults = 0
      /\ wrote = [q \in Paths |-> store[q].of] /\ unsafe = {} /\ damaged = FALSE
      /\ rebuilt \in BOOLEAN /\ index = IF rebuilt THEN Listing({k \in Keys : Stored(k)}) ELSE [d \in Dirs |-> {}]
  BY DEF Init
<1>2. idle \in Proc /\ Shaped(idle) /\ idle.op = "none" /\ idle.pc = (IF rebuilt THEN "idle" ELSE "unmounted")
  BY IdleShaped
<1> HIDE DEF idle
<1>3. \A p \in Procs : proc[p] = idle
  BY <1>1
<1>4. /\ store \in [Keys -> Entries]
      /\ \A k \in Keys : Sound(store[k]) /\ (store[k].due <=> Stored(k))
  <2>1. PICK t \in {"string", "hash"}, stored \in SUBSET Paths :
          store = [k \in Keys |-> IF k \in stored THEN Value(t, {0}, TRUE) ELSE None]
    BY DEF Init
  <2>2. LET v == Value(t, {0}, TRUE)
        IN  v \in Entries /\ Sound(v) /\ v.type # "none" /\ v.lock = Nobody /\ v.due = TRUE
    <3>1. t \in Types \ {"none"} /\ {0} \in SUBSET Nat /\ TRUE \in BOOLEAN
      BY DEF Types
    <3> QED
      BY <3>1, NewValue
  <2>3. \A k \in Keys : store[k] \in {Value(t, {0}, TRUE), None}
    BY <2>1
  <2> QED
    BY <2>1, <2>2, <2>3, NothingThere DEF Stored
<1> DEFINE S == {k \in Keys : Stored(k)}
<1>5. \A d \in Dirs : \A x : /\ x \in Listing(S)[d] <=> Due(d, x)
                             /\ MustDue(d, x) <=> Due(d, x)
  <2>1. S \in SUBSET Keys
    OBVIOUS
  <2>2. \A d \in Dirs : \A x : x \in Listing(S)[d] <=> \E q \in S : Passes(q, d, x)
    BY <2>1, ListingEntries
  <2> QED
    BY <1>4, <2>2 DEF Due, MustDue
<1>6. index \in [Dirs -> SUBSET Names]
  <2>1. \A d \in Dirs : Listing(S)[d] \subseteq Names
    <3> SUFFICES ASSUME NEW d \in Dirs, NEW x \in Listing(S)[d] PROVE x \in Names
      OBVIOUS
    <3>1. Due(d, x)
      BY <1>5
    <3> QED
      BY <3>1, PassesDirs DEF Due
  <2>2. Listing(S) \in [Dirs -> SUBSET Names]
    <3>1. Listing(S) = [d \in Dirs |-> Listing(S)[d]]
      BY DEF Listing
    <3> QED
      BY <2>1, <3>1
  <2> QED
    BY <1>1, <2>2
<1>7. Typed
  <2>1. proc \in [Procs -> Proc]
    BY <1>1, <1>2
  <2>2. wrote \in [Paths -> SUBSET Nat]
    BY <1>1, <1>4 DEF Entries, Keys
  <2> QED
    BY <1>1, <1>4, <1>6, <2>1, <2>2 DEF Typed
<1>8. ShapeInv
  BY <1>2, <1>3 DEF ShapeInv
<1>9. \A p \in Procs : proc[p].pc \in {"idle", "unmounted"} /\ proc[p].op = "none"
  BY <1>2, <1>3
<1>10. UpdateInv
  BY <1>1, <1>9 DEF UpdateInv, NoUpdateLost, At
<1>11. AloneInv
  BY <1>9 DEF AloneInv, Active, Clears
<1>12. BuildInv
  BY <1>1, <1>2, <1>3, <1>9 DEF BuildInv, At
<1>13. KnowInv
  BY <1>9 DEF KnowInv, Knows, At
<1>14. ListInv
  <2>1. Ready => rebuilt
    BY <1>9 DEF Ready
  <2>2. rebuilt => index = Listing(S)
    BY <1>1
  <2> HIDE DEF S
  <2>3. ASSUME rebuilt, NEW d \in Dirs, NEW x
        PROVE  (x \in index[d] => Due(d, x)) /\ (MustDue(d, x) => x \in index[d])
    BY <1>5, <2>2, <2>3
  <2> QED
    BY <2>1, <2>3 DEF ListInv
<1> QED
  BY <1>7, <1>8, <1>10, <1>11, <1>12, <1>13, <1>14 DEF Inv

LEMMA StepKeeps == Inv /\ [Next]_vars => Inv'
<1> SUFFICES ASSUME Inv, [Next]_vars PROVE Inv'
  OBVIOUS
<1>1. ASSUME NEW p \in Procs, Command(p) PROVE Inv'
  <2>1. CASE Set(p) \/ RPush(p) \/ HSet(p)
    BY <2>1, SetKeeps
  <2>2. CASE SAddStep(p)
    BY <2>2, SAddKeeps
  <2>3. CASE Get(p) \/ HGet(p)
    BY <2>3, GetKeeps
  <2>4. CASE Del(p) \/ HDel(p)
    BY <2>4, DelKeeps
  <2>5. CASE Kids(p)
    BY <2>5, KidsKeeps
  <2>6. CASE SRem(p)
    BY <2>6, SRemKeeps
  <2>7. CASE SCard(p)
    BY <2>7, SCardKeeps
  <2>8. CASE RmDir(p)
    BY <2>8, RmDirKeeps
  <2>9. CASE Parent(p)
    BY <2>9, ParentKeeps
  <2>10. CASE Marked(p)
    BY <2>10, MarkedKeeps
  <2>11. CASE Scan(p)
    BY <2>11, ScanKeeps
  <2>12. CASE Wipe(p)
    BY <2>12, WipeKeeps
  <2>13. CASE Mark(p)
    BY <2>13, MarkKeeps
  <2>14. CASE Lock(p)
    BY <2>14, LockKeeps, RedisAssumption
  <2>15. CASE Read(p)
    BY <2>15, ReadKeeps
  <2>16. CASE WriteBack(p)
    BY <2>16, WriteBackKeeps
  <2>17. CASE Unlock(p)
    BY <2>17, UnlockKeeps, RedisAssumption
  <2> QED
    BY <1>1, <2>1, <2>2, <2>3, <2>4, <2>5, <2>6, <2>7, <2>8, <2>9, <2>10, <2>11, <2>12, <2>13,
       <2>14, <2>15, <2>16, <2>17 DEF Command
<1>2. ASSUME NEW p \in Procs, Fail(p) PROVE Inv'
  BY <1>2, FailKeeps
<1>3. ASSUME NEW p \in Procs, NEW op \in DOMAIN FirstCommand, NEW q \in Paths, Start(p, op, q) PROVE Inv'
  BY <1>3, StartKeeps
<1>4. ASSUME NEW key \in Keys, Overrun(key) \/ Expire(key) PROVE Inv'
  BY <1>4, OverrunKeeps, ExpireKeeps, RedisAssumption
<1>5. CASE UNCHANGED vars
  BY <1>5, StutterKeeps
<1> QED
  BY <1>1, <1>2, <1>3, <1>4, <1>5 DEF Next

\* The invariant the other two rest on holds, whatever commands fail and locks
\* run out: an update between its lock and its write still finds its own bytes
\* at the key it locked, which for update is the key of the value.
THEOREM MountInvariant == Spec => []Inv
<1> QED
  BY InitHolds, StepKeeps, PTL DEF Spec

\* The lock of get_mut and get_key_mut, a key among the values that is taken only
\* where there is none and given back only by its holder, loses no update of a
\* path, unless a lock of it ran out under the holder or somebody wrote to the
\* path around it.
THEOREM UpdatesAreKept == Spec => []NoUpdateLost
<1>1. Inv => NoUpdateLost
  BY DEF Inv, UpdateInv
<1> QED
  BY <1>1, MountInvariant, PTL

\* add_path, remove_path and rebuild_once keep the index: between two operations
\* it lists nothing but paths that have a value and the directories above them,
\* and all of them that were written to be listed, however deep the paths are
\* and whichever lie inside one another.
THEOREM IndexListsValues == Spec => []IndexMatches
<1>1. Inv => IndexMatches
  <2> DEFINE Announced == {k \in Keys : Stored(k) /\ store[k].due}
             Values == {k \in Keys : Stored(k)}
  <2> SUFFICES ASSUME Inv, rebuilt, ~damaged, \A p \in Procs : ~Active(p), NEW d \in Dirs, NEW x
               PROVE  /\ x \in Listing(Announced)[d] => x \in index[d]
                      /\ x \in index[d] => x \in Listing(Values)[d]
    BY DEF IndexMatches
  <2>1. \A p \in Procs : proc[p].pc \in {"idle", "unmounted"}
    BY DEF Active
  <2>2. \A p \in Procs : ~Trace(p, d, x) /\ ~Left(p, d, x)
    BY <2>1 DEF Trace, Left, At
  <2>3. index[d] \subseteq Names
    BY DEF Inv, Typed
  <2>4. MustDue(d, x) => x \in Names
    BY PassesDirs DEF MustDue
  <2>5. (x \in index[d] => Due(d, x)) /\ (MustDue(d, x) => x \in index[d])
    BY <2>2, <2>3, <2>4 DEF Inv, ListInv, Ready
  <2>6. /\ x \in Listing(Announced)[d] <=> \E q \in Announced : Passes(q, d, x)
        /\ x \in Listing(Values)[d] <=> \E q \in Values : Passes(q, d, x)
    <3>1. Announced \in SUBSET Keys /\ Values \in SUBSET Keys
      OBVIOUS
    <3> HIDE DEF Announced, Values
    <3> QED
      BY <3>1, ListingEntries
  <2> QED
    BY <2>5, <2>6 DEF Due, MustDue
<1> QED
  BY <1>1, MountInvariant, PTL
=============================================================================

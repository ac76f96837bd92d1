----------------------------- MODULE RedisMount -----------------------------
(***************************************************************************)
(* A mount kept in a Redis server that several processes use.  Redis has   *)
(* no directories: beside the values, an index tells for every directory   *)
(* the names in it, and is changed by commands of its own after the value. *)
(* update reads, computes and writes back under a lock of the server that  *)
(* expires after five seconds, and that is a key among the values: update  *)
(* takes the very key of the value, update_key one named after value and   *)
(* key.  A command is atomic, an operation is not: each process is at one  *)
(* command of its operation, and any command may fail, which ends the      *)
(* operation there.                                                        *)
(*                                                                         *)
(* The value of a path is its type and the set of the operations that went *)
(* into it; a hash has one key.  The server and its commands are external, *)
(* and so is the lock: SET of random bytes where there is no such key, DEL *)
(* where they are still there.                                             *)
(***************************************************************************)
EXTENDS Naturals, FiniteSets, SequencesExt

CONSTANTS
    Procs, Paths,   \* the paths: sequences of names
    KeyLock,        \* path -> the key that update_key locks
    MaxOps,         \* bound: operations, and so their numbers
    MaxFaults       \* bound: failing commands and expired locks

Nobody == "nobody"

Keys == Paths \cup {KeyLock[q] : q \in Paths}

ASSUME RedisAssumption ==
    /\ MaxOps \in Nat /\ MaxFaults \in Nat /\ Nobody \notin Procs
    /\ IsFiniteSet(Paths) /\ \A q \in Keys : q \in Seq(ToSet(q)) /\ q # << >>
    /\ \A q \in Paths : KeyLock[q] \notin Paths

VARIABLES
    store,      \* key -> None or [type, of, lock, due]
    index,      \* directory -> names
    rebuilt,    \* the key that marks the index as built
    proc,       \* process -> [pc, op, at, todo, no]
    ops, faults,
    \* history:
    wrote,      \* path -> the operations its value must show
    unsafe,     \* paths written, or whose lock went, in the middle of an update
    damaged     \* a removal or a rebuilding ran beside another operation, or broke off

vars == <<store, index, rebuilt, proc, ops, faults, wrote, unsafe, damaged>>

\* lock: whose lock these bytes are.  due: who wrote the value goes on to list it.
None == [type |-> "none", of |-> {}, lock |-> Nobody, due |-> FALSE]
Value(type, of, due) == [type |-> type, of |-> of, lock |-> Nobody, due |-> due]
Idle == [pc |-> "idle", op |-> "none", at |-> << >>, todo |-> << >>, no |-> 0, seen |-> {}]

\* The random bytes of a lock: a string, that may decode to some value.
LockBytes(p) == {[type |-> t, of |-> {}, lock |-> p, due |-> FALSE] : t \in {"string", "raw"}}

Stored(key) == store[key].type # "none" /\ store[key].lock = Nobody

Dirs == UNION {{SubSeq(k, 1, n) : n \in 0 .. Len(k) - 1} : k \in Keys}
Listing(keys) ==
    [d \in Dirs |-> {k[Len(d) + 1] : k \in {q \in keys : Len(q) > Len(d) /\ SubSeq(q, 1, Len(d)) = d}}]

\* A server that nobody has used for directories yet, or one in use for long.
Init ==
    /\ \E t \in {"string", "hash"}, stored \in SUBSET Paths :
           store = [k \in Keys |-> IF k \in stored THEN Value(t, {0}, TRUE) ELSE None]
    /\ rebuilt \in BOOLEAN
    /\ index = IF rebuilt THEN Listing({k \in Keys : Stored(k)}) ELSE [d \in Dirs |-> {}]
    /\ proc = [p \in Procs |-> IF rebuilt THEN Idle ELSE [Idle EXCEPT !.pc = "unmounted"]]
    /\ ops = 0 /\ faults = 0
    /\ wrote = [q \in Paths |-> store[q].of] /\ unsafe = {} /\ damaged = FALSE

At(p, pc) == proc[p].pc = pc
Active(p) == proc[p].pc \notin {"idle", "unmounted"}
Goto(p, pc) == proc' = [proc EXCEPT ![p].pc = pc]
End(p) == proc' = [proc EXCEPT ![p] = Idle]

Clears(op) == op \in {"remove", "remove_key", "mount"}

\* The key that an update locks: the value's own, or that of the value and the key.
LockOf(p) == IF proc[p].op = "update" THEN proc[p].at ELSE KeyLock[proc[p].at]
Holding(p, key) == proc[p].pc \in {"read", "write"} /\ LockOf(p) = key /\ store[key].lock = p

\* Who is between the read and the write of an update of this path.
Updating(q, path) == At(q, "write") /\ proc[q].at = path

(***************************************************************************)
(* Operations begin.                                                       *)
(***************************************************************************)
FirstCommand == [add |-> "set", push |-> "rpush", insert |-> "hset", update |-> "lock", update_key |-> "lock",
                 remove |-> "get", remove_key |-> "hget", mount |-> "marked"]

Start(p, op, path) ==
    /\ ops < MaxOps
    /\ IF op = "mount" THEN At(p, "unmounted") ELSE At(p, "idle")
    /\ ops' = ops + 1
    /\ proc' = [proc EXCEPT ![p] = [Idle EXCEPT !.pc = FirstCommand[op], !.op = op, !.at = path, !.no = ops + 1]]
    /\ damaged' = (damaged \/ (\E q \in Procs \ {p} : Active(q) /\ (Clears(op) \/ Clears(proc[q].op)))
                           \/ (Clears(op) /\ \E k \in Keys : store[k].lock # Nobody))
    /\ UNCHANGED <<store, index, rebuilt, faults, wrote, unsafe>>

(***************************************************************************)
(* The value.  SET takes any type away, and a lock; RPUSH and HSET refuse  *)
(* another type, and so do they the bytes of a lock.                       *)
(***************************************************************************)
Write(path, v) ==
    /\ store' = [store EXCEPT ![path] = v]
    /\ unsafe' = IF \E q \in Procs : Updating(q, path) \/ Holding(q, path) THEN unsafe \cup {path} ELSE unsafe

IndexNext(p, paths) ==
    proc' = [proc EXCEPT ![p].pc = IF paths = << >> THEN "mark" ELSE "sadd", ![p].todo = paths,
                         ![p].seen = {}]

Put(p, pc, type) ==
    LET path == proc[p].at
        old == store[path]
        kept == IF pc = "set" \/ old = None THEN {} ELSE old.of
        fits == pc = "set" \/ old = None \/ old.type = type
    IN  /\ At(p, pc)
        /\ IF fits
           THEN /\ Write(path, Value(type, kept \cup {proc[p].no}, TRUE))
                /\ wrote' = [wrote EXCEPT ![path] = kept \cup {proc[p].no}]
                /\ IndexNext(p, <<path>>)
           ELSE End(p) /\ UNCHANGED <<store, wrote, unsafe>>
        /\ UNCHANGED <<index, rebuilt, ops, faults, damaged>>

Set(p) == Put(p, "set", "string")
RPush(p) == Put(p, "rpush", "list")
HSet(p) == Put(p, "hset", "hash")

(***************************************************************************)
(* add_path: SADD at every level, the root first.  seen is how far it is.  *)
(***************************************************************************)
SAddStep(p) ==
    LET path == Head(proc[p].todo)
        n == Cardinality(proc[p].seen)
        last == n + 1 = Len(path)
        rest == Tail(proc[p].todo)
    IN  /\ At(p, "sadd")
        /\ index' = [index EXCEPT ![SubSeq(path, 1, n)] = @ \cup {path[n + 1]}]
        /\ IF ~ last THEN proc' = [proc EXCEPT ![p].seen = @ \cup {n}]
           ELSE IF proc[p].op = "mount" THEN IndexNext(p, rest)
           ELSE End(p)
        /\ UNCHANGED <<store, rebuilt, ops, faults, wrote, unsafe, damaged>>

(***************************************************************************)
(* remove and remove_key: the value is read first; a wrong type or none is *)
(* an error.  The bytes of a lock that decode pass for a value.            *)
(***************************************************************************)
ReadFirst(p, pc, type, next) ==
    /\ At(p, pc)
    /\ IF store[proc[p].at].type = type THEN Goto(p, next) ELSE End(p)
    /\ UNCHANGED <<store, index, rebuilt, ops, faults, wrote, unsafe, damaged>>
Get(p) == ReadFirst(p, "get", "string", "del")
HGet(p) == ReadFirst(p, "hget", "hash", "hdel")

\* DEL removes a value of any type, HDEL the key of a hash; of a key that is
\* gone already DEL tells so, and a hash with no key left does not exist.
Delete(p, pc, gone) ==
    LET path == proc[p].at
    IN  /\ At(p, pc)
        /\ IF gone
           THEN /\ Write(path, None)
                /\ wrote' = [wrote EXCEPT ![path] = {}]
                /\ Goto(p, "kids")
           ELSE End(p) /\ UNCHANGED <<store, wrote, unsafe>>
        /\ UNCHANGED <<index, rebuilt, ops, faults, damaged>>
Del(p) == Delete(p, "del", store[proc[p].at] # None)
HDel(p) == Delete(p, "hdel", store[proc[p].at].type \in {"hash", "none"})

(***************************************************************************)
(* remove_path: a path that is a directory too stays in the index; an      *)
(* entry goes, and with the last one of a directory the directory, unless  *)
(* a value has its name.                                                   *)
(***************************************************************************)
NoMembers(dir) == {}                    \* mutant: children are not asked for
Members(dir) == IF dir \in Dirs THEN index[dir] ELSE {}

Quiet == UNCHANGED <<store, rebuilt, ops, faults, wrote, unsafe, damaged>>

Kids(p) == /\ At(p, "kids")
           /\ IF Members(proc[p].at) # {} THEN End(p) ELSE Goto(p, "srem")
           /\ UNCHANGED index /\ Quiet

SRem(p) == /\ At(p, "srem")
           /\ index' = [index EXCEPT ![Front(proc[p].at)] = @ \ {Last(proc[p].at)}]
           /\ Goto(p, "scard")
           /\ Quiet

SCard(p) == /\ At(p, "scard")
            /\ IF index[Front(proc[p].at)] # {} THEN End(p) ELSE Goto(p, "rmdir")
            /\ UNCHANGED index /\ Quiet

RmDir(p) == /\ At(p, "rmdir")
            /\ index' = [index EXCEPT ![Front(proc[p].at)] = {}]
            /\ IF Len(proc[p].at) = 1 THEN End(p) ELSE Goto(p, "parent")
            /\ Quiet

Exists(path) == path \in Keys /\ store[path] # None
Parent(p) == /\ At(p, "parent")
             /\ IF Exists(Front(proc[p].at)) THEN End(p)
                ELSE proc' = [proc EXCEPT ![p].pc = "srem", ![p].at = Front(@)]
             /\ UNCHANGED index /\ Quiet

(***************************************************************************)
(* rebuild_once, when a process mounts the server: unless it is marked,    *)
(* SCAN for the keys, DEL of the index, add_path for each key, the mark.   *)
(***************************************************************************)
Marked(p) == /\ At(p, "marked")
             /\ IF rebuilt THEN End(p) ELSE Goto(p, "scan")
             /\ UNCHANGED index /\ Quiet

Scan(p) == /\ At(p, "scan")
           /\ proc' = [proc EXCEPT ![p].pc = "wipe",
                                   ![p].todo = SetToSeq({k \in Keys : store[k] # None})]
           /\ UNCHANGED index /\ Quiet

Wipe(p) == /\ At(p, "wipe")
           /\ index' = [d \in Dirs |-> {}]
           /\ IndexNext(p, proc[p].todo)
           /\ Quiet

Mark(p) == /\ At(p, "mark")
           /\ rebuilt' = TRUE
           /\ End(p)
           /\ UNCHANGED <<store, index, ops, faults, wrote, unsafe, damaged>>

(***************************************************************************)
(* get_mut and get_key_mut.  While there is a key of that name, the lock   *)
(* of another or a value, the process sleeps and tries again.              *)
(***************************************************************************)
TakeLock(p) == \E bytes \in LockBytes(p) : store' = [store EXCEPT ![LockOf(p)] = bytes]

LockTaken(p) == /\ At(p, "lock")        \* mutant: SET whether there is such a key or not
                /\ TakeLock(p)
                /\ Goto(p, "read")
                /\ UNCHANGED <<index, rebuilt, ops, faults, wrote, unsafe, damaged>>
Lock(p) == /\ At(p, "lock") /\ store[LockOf(p)] = None
           /\ TakeLock(p)
           /\ Goto(p, "read")
           /\ UNCHANGED <<index, rebuilt, ops, faults, wrote, unsafe, damaged>>

\* A missing value or one of another type ends the update with the lock held;
\* update reads the bytes of its own lock.
Wanted(p) == IF proc[p].op = "update" THEN "string" ELSE "hash"
Read(p) == LET v == store[proc[p].at]
           IN  /\ At(p, "read")
               /\ IF v.type = Wanted(p)
                  THEN proc' = [proc EXCEPT ![p].pc = "write", ![p].seen = v.of]
                  ELSE End(p)
               /\ UNCHANGED <<store, index, rebuilt, ops, faults, wrote, unsafe, damaged>>

\* SET, which takes the lock's bytes away, or HSET, which is refused where the
\* value is no hash any more.  Neither lists the value.
WriteBack(p) ==
    LET path == proc[p].at
        old == store[path]
        refused == proc[p].op = "update_key" /\ old.type \notin {"hash", "none"}
    IN  /\ At(p, "write")
        /\ IF refused
           THEN End(p) /\ UNCHANGED <<store, wrote>>
           ELSE /\ store' = [store EXCEPT ![path] = Value(Wanted(p), proc[p].seen \cup {proc[p].no}, old.due)]
                /\ wrote' = [wrote EXCEPT ![path] = @ \cup {proc[p].no}]
                /\ Goto(p, "unlock")
        /\ UNCHANGED <<index, rebuilt, ops, faults, unsafe, damaged>>

\* The lock is given back only by the one it is held for.
Unlock(p) == /\ At(p, "unlock")
             /\ store' = IF store[LockOf(p)].lock = p THEN [store EXCEPT ![LockOf(p)] = None] ELSE store
             /\ End(p)
             /\ UNCHANGED <<index, rebuilt, ops, faults, wrote, unsafe, damaged>>

(***************************************************************************)
(* Faults.  A lock expires: under its holder, whose operation then runs    *)
(* unprotected, or after an error has left it behind.                      *)
(***************************************************************************)
Overrun(key) ==
    /\ faults < MaxFaults /\ faults' = faults + 1
    /\ \E p \in Procs : Holding(p, key) /\ unsafe' = unsafe \cup {proc[p].at}
    /\ store' = [store EXCEPT ![key] = None]
    /\ UNCHANGED <<index, rebuilt, proc, ops, wrote, damaged>>

ExpireNever(key) == FALSE /\ UNCHANGED vars     \* mutant: a lock without an end
Expire(key) ==
    /\ store[key].lock # Nobody /\ \A p \in Procs : ~ Holding(p, key)
    /\ store' = [store EXCEPT ![key] = None]
    /\ UNCHANGED <<index, rebuilt, proc, ops, faults, wrote, unsafe, damaged>>

Fail(p) ==
    /\ Active(p) /\ faults < MaxFaults /\ faults' = faults + 1
    /\ proc' = [proc EXCEPT ![p] = IF proc[p].op = "mount" THEN [Idle EXCEPT !.pc = "unmounted"] ELSE Idle]
    /\ damaged' = (damaged \/ proc[p].pc \notin {"set", "rpush", "hset", "get", "hget", "del", "hdel",
                                                 "marked", "scan", "lock", "read", "write", "unlock"})
    /\ UNCHANGED <<store, index, rebuilt, ops, wrote, unsafe>>

-----------------------------------------------------------------------------
Command(p) ==
    \/ Set(p) \/ RPush(p) \/ HSet(p) \/ SAddStep(p)
    \/ Get(p) \/ HGet(p) \/ Del(p) \/ HDel(p)
    \/ Kids(p) \/ SRem(p) \/ SCard(p) \/ RmDir(p) \/ Parent(p)
    \/ Marked(p) \/ Scan(p) \/ Wipe(p) \/ Mark(p)
    \/ Lock(p) \/ Read(p) \/ WriteBack(p) \/ Unlock(p)

Next ==
    \/ \E p \in Procs : Command(p) \/ Fail(p) \/ \E op \in DOMAIN FirstCommand, q \in Paths : Start(p, op, q)
    \/ \E k \in Keys : Overrun(k) \/ Expire(k)

Fairness == /\ \A p \in Procs : WF_vars(Command(p))
            /\ \A k \in Keys : WF_vars(Expire(k))

Spec == Init /\ [][Next]_vars /\ Fairness
-----------------------------------------------------------------------------
\* The value of a path shows every update and every write since it was last
\* replaced: as long as no lock runs out under its holder and nobody writes to
\* the path around the lock, the lock and its give-back lose no update, though
\* the lock of update lies where the value does.
NoUpdateLost == \A q \in Paths \ unsafe : store[q].of = wrote[q]

\* Between two operations the index lists paths that have a value, with the
\* directories above them, and of these all but those that an update has made
\* out of its lock; whatever sequence of writes and removals came before, on
\* paths that lie inside one another too.  Unless a removal or a rebuilding
\* overlapped with another operation or met a lock left behind, or one broke off.
IndexMatches ==
    rebuilt /\ ~ damaged /\ (\A p \in Procs : ~ Active(p)) =>
        \A d \in Dirs : /\ Listing({k \in Keys : Stored(k) /\ store[k].due})[d] \subseteq index[d]
                        /\ index[d] \subseteq Listing({k \in Keys : Stored(k)})[d]

\* Every operation ends, but for an update that waits for a key that holds a
\* value, for ever: a lock that an error has left behind delays the next update
\* and does not stop it, and no update_key waits for ever.
EndsUnlessKept ==
    \A p \in Procs : []<> ~ Active(p) \/ <>[](At(p, "lock") /\ Stored(LockOf(p)))

\* What root/src/lib.rs:952-954 says of root::update: it updates a node that
\* exists and returns the new value, and fails where there is none.  So an
\* update returns.
UpdateReturns == \A p \in Procs : (Active(p) /\ proc[p].op = "update") ~> ~ Active(p)
=============================================================================

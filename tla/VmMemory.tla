------------------------------ MODULE VmMemory ------------------------------
(***************************************************************************)
(* The thread-local arena of the VM, vm/src/memory.rs: struct VmMemory and *)
(* its methods, as functions from one value of the struct to the next.     *)
(* ScriptThread keeps such a value in a variable and composes the methods  *)
(* the way the extern "C" functions of memory.rs do.                       *)
(*                                                                         *)
(* An address is a chunk (numbered from 1; the code numbers from 0) and an *)
(* offset into it.  The arena hands out bytes and never looks at them, so  *)
(* a chunk is only its length.                                             *)
(*                                                                         *)
(* "live", "live_len" and "last" are history: the blocks handed out and    *)
(* not yet given back by a scope, in the order of their allocation; how    *)
(* many there were when a scope was opened; and, within a step, the place  *)
(* in "live" of the block it handed out, 0 if there is none.  The code     *)
(* keeps no such list; it is what the script still holds pointers to.      *)
(***************************************************************************)
EXTENDS Integers, Sequences

CONSTANTS
  InitialChunk,   \* INITIAL_CHUNK_SIZE
  PowersOfTwo,    \* the values next_power_of_two may return
  ByteSizes,      \* the sizes a script may ask of alloc_struct_bytes
  ByteAlign,      \* the alignment alloc_bytes asks for
  DynSize,        \* size_of::<Dynamic>()
  DynAlign        \* align_of::<Dynamic>()

AtLeast(n, low) == IF n < low THEN low ELSE n

\* The sizes alloc_raw is called with.
Sizes == ByteSizes \cup {DynSize}

ASSUME VmMemoryAssumption ==
  /\ InitialChunk \in Nat \ {0}
  /\ ByteAlign \in Nat \ {0} /\ DynAlign \in Nat \ {0}
  /\ ByteSizes \subseteq Nat
  /\ DynSize \in Nat \ {0}
  /\ PowersOfTwo \subseteq Nat
  /\ \A s \in Sizes : \E p \in PowersOfTwo :
       /\ p >= AtLeast(s, InitialChunk)
       /\ \A q \in PowersOfTwo : q >= AtLeast(s, InitialChunk) => p <= q

Address == [chunk : Nat, start : Nat]

\* ScopeMark, with the history field live_len.
ScopeMark == [chunk : Nat, offset : Nat, dynamic_len : Nat, live_len : Nat]

\* A block of the arena.  "dyn" is 0 for raw bytes, or the place of the block
\* in "dynamics".
Block == [chunk : Nat, start : Nat, size : Nat, dyn : Nat]

Memory == [chunks : Seq(Nat), chunk : Nat, offset : Nat,
           dynamics : Seq(Address), scopes : Seq(ScopeMark), live : Seq(Block),
           last : Nat]

(* VmMemory::new *)
NewMemory == [chunks |-> <<InitialChunk>>, chunk |-> 1, offset |-> 0,
              dynamics |-> <<>>, scopes |-> <<>>, live |-> <<>>, last |-> 0]

HasScope(m) == m.scopes # <<>>

EnterScope(m) ==
  [m EXCEPT !.scopes = Append(@, [chunk |-> m.chunk, offset |-> m.offset,
                                  dynamic_len |-> Len(m.dynamics),
                                  live_len |-> Len(m.live)])]

\* Mutant of ExitScope: the position returns, "dynamics" is not drained.
ExitScopeKeepsDynamics(m) ==
  IF m.scopes = <<>> THEN m
  ELSE LET mark == m.scopes[Len(m.scopes)]
       IN  [m EXCEPT !.scopes = SubSeq(@, 1, Len(@) - 1),
                     !.chunk = mark.chunk, !.offset = mark.offset,
                     !.live = SubSeq(@, 1, mark.live_len)]

(* exit_scope: a VM without an open scope is left alone; otherwise the     *)
(* Dynamics allocated since the mark are dropped and the position returns. *)
ExitScope(m) ==
  IF m.scopes = <<>> THEN m
  ELSE LET n    == Len(m.scopes)
           mark == m.scopes[n]
       IN  [m EXCEPT !.scopes   = SubSeq(@, 1, n - 1),
                     !.dynamics = SubSeq(@, 1, mark.dynamic_len),
                     !.chunk    = mark.chunk,
                     !.offset   = mark.offset,
                     !.live     = SubSeq(@, 1, mark.live_len)]

\* align_up, for an alignment that is a power of two.
AlignUp(value, align) == value + ((align - (value % align)) % align)

\* size.max(INITIAL_CHUNK_SIZE).next_power_of_two()
Needed(size) ==
  CHOOSE p \in PowersOfTwo :
    /\ p >= AtLeast(size, InitialChunk)
    /\ \A q \in PowersOfTwo : q >= AtLeast(size, InitialChunk) => p <= q

\* Mutant of Room: it asks only whether the block starts inside the chunk.
RoomAtStart(m, size, align) ==
  LET start == AlignUp(m.offset, align)
  IN  IF start < m.chunks[m.chunk]
      THEN [chunks |-> m.chunks, chunk |-> m.chunk, start |-> start]
      ELSE [chunks |-> Append(m.chunks, Needed(size)), chunk |-> Len(m.chunks) + 1,
            start |-> 0]

(* Where alloc_raw finds room: the chunks it leaves and the address.  Its  *)
(* loop turns at most twice, because an empty chunk of at least the needed *)
(* length always takes the request.                                        *)
Room(m, size, align) ==
  LET start  == AlignUp(m.offset, align)
      needed == Needed(size)
      last   == Len(m.chunks)
      there  == [chunks |-> m.chunks, chunk |-> m.chunk, start |-> start]
      next   == [chunks |-> m.chunks, chunk |-> m.chunk + 1, start |-> 0]
      fresh  == [chunks |-> Append(m.chunks, needed), chunk |-> last + 1, start |-> 0]
  IN  IF start + size <= m.chunks[m.chunk] THEN there
      ELSE IF m.chunk = last               THEN fresh
      ELSE IF m.chunks[m.chunk + 1] < needed THEN fresh
      ELSE next

(* alloc_raw, for a request that becomes entry "dyn" of dynamics, or 0. *)
AllocRaw(m, request, align, dyn) ==
  LET size == AtLeast(request, 1)
      room == Room(m, size, align)
  IN  [m EXCEPT !.chunks = room.chunks,
                !.chunk  = room.chunk,
                !.offset = room.start + size,
                !.live   = Append(@, [chunk |-> room.chunk, start |-> room.start,
                                      size |-> size, dyn |-> dyn]),
                !.last   = Len(m.live) + 1]

AllocBytes(m, size) == AllocRaw(m, size, ByteAlign, 0)

\* VmMemory::alloc_dynamic: the new pointer joins the list exit_scope drops.
AllocDynamic(m) ==
  LET r == AllocRaw(m, DynSize, DynAlign, Len(m.dynamics) + 1)
      b == r.live[Len(r.live)]
  IN  [r EXCEPT !.dynamics = Append(@, [chunk |-> b.chunk, start |-> b.start])]

(* The public alloc_dynamic: without an open scope the value goes to a Box *)
(* on the heap.                                                            *)
AllocValue(m) == IF HasScope(m) THEN AllocDynamic(m) ELSE [m EXCEPT !.last = 0]

\* Mutant of ScopeExitDynamic: the clone is allocated before the scope ends.
ScopeExitDynamicEarly(m) == ExitScope(AllocValue(m))

\* scope_exit_dynamic: the value is cloned out, the scope ends, and the clone
\* is allocated again for the caller.
ScopeExitDynamic(m) == AllocValue(ExitScope(m))

\* scope_exit_bytes: the same for a struct, always into the arena.
ScopeExitBytes(m, size) == AllocBytes(ExitScope(m), size)

-----------------------------------------------------------------------------
(* What the arena promises. *)

\* Block b lies before position (chunk, offset).
Below(chunk, offset, b) ==
  \/ b.chunk < chunk
  \/ b.chunk = chunk /\ b.start + b.size <= offset

Disjoint(a, b) ==
  \/ a.chunk # b.chunk
  \/ a.start + a.size <= b.start
  \/ b.start + b.size <= a.start

\* Two blocks a script can still reach never share a byte.
NoOverlap(m) ==
  \A i, j \in DOMAIN m.live : i # j => Disjoint(m.live[i], m.live[j])

\* A block lies inside its chunk.
InBounds(m) ==
  \A i \in DOMAIN m.live :
    LET b == m.live[i]
    IN  b.chunk \in DOMAIN m.chunks /\ b.start + b.size <= m.chunks[b.chunk]

\* Everything handed out lies below the position the next allocation starts
\* from, and what a scope did not allocate lies below that scope's mark.
Stacked(m) ==
  /\ \A i \in DOMAIN m.live : Below(m.chunk, m.offset, m.live[i])
  /\ \A s \in DOMAIN m.scopes : \A i \in 1 .. m.scopes[s].live_len :
       Below(m.scopes[s].chunk, m.scopes[s].offset, m.live[i])

\* The marks of the open scopes refer to what exists, inner scopes after
\* outer ones.
MarksInOrder(m) ==
  /\ m.chunk \in DOMAIN m.chunks
  /\ \A s \in DOMAIN m.scopes :
       /\ m.scopes[s].chunk \in DOMAIN m.chunks
       /\ m.scopes[s].live_len <= Len(m.live)
       /\ m.scopes[s].dynamic_len <= Len(m.dynamics)
  /\ \A s, t \in DOMAIN m.scopes : s <= t =>
       /\ m.scopes[s].live_len <= m.scopes[t].live_len
       /\ m.scopes[s].dynamic_len <= m.scopes[t].dynamic_len

\* "dynamics" is exactly the list of live Dynamics, each once, and a scope's
\* mark splits it where it splits the blocks: so exit_scope drops every
\* Dynamic of its scope once and no other.
DropsMatch(m) ==
  /\ \A i \in DOMAIN m.live : m.live[i].dyn # 0 =>
       /\ m.live[i].dyn \in DOMAIN m.dynamics
       /\ m.dynamics[m.live[i].dyn] = [chunk |-> m.live[i].chunk, start |-> m.live[i].start]
  /\ \A k \in DOMAIN m.dynamics : \E i \in DOMAIN m.live : m.live[i].dyn = k
  /\ \A i, j \in DOMAIN m.live : m.live[i].dyn # 0 /\ m.live[i].dyn = m.live[j].dyn => i = j
  /\ \A s \in DOMAIN m.scopes : \A i \in DOMAIN m.live : m.live[i].dyn # 0 =>
       (i <= m.scopes[s].live_len <=> m.live[i].dyn <= m.scopes[s].dynamic_len)

\* Outside every scope no Dynamic goes to the arena.
OutermostBoxed(m) ==
  IF m.scopes = <<>> THEN m.dynamics = <<>> ELSE m.scopes[1].dynamic_len = 0

\* The inductive invariant of the arena.
WellFormed(m) ==
  /\ m \in Memory
  /\ MarksInOrder(m)
  /\ InBounds(m)
  /\ Stacked(m)
  /\ NoOverlap(m)
  /\ DropsMatch(m)
  /\ OutermostBoxed(m)
=============================================================================

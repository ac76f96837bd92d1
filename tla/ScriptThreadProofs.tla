------------------------- MODULE ScriptThreadProofs -------------------------
(***************************************************************************)
(* The safety of a script thread, for any lengths, any number of paths and *)
(* any nesting of functions, callbacks and sends.                          *)
(***************************************************************************)
EXTENDS ScriptThread, SequenceTheorems, FiniteSetTheorems, TLAPS

-----------------------------------------------------------------------------
(* The arena: every method of VmMemory keeps WellFormed, for chunks, sizes  *)
(* and alignments of any value: no two live blocks overlap, and exit_scope *)
(* drops exactly the Dynamics of its scope.                                *)

(* next_power_of_two returns a chunk length that holds the request. *)
LEMMA NeededHolds ==
  ASSUME NEW request \in Sizes
  PROVE  /\ Needed(AtLeast(request, 1)) \in Nat
         /\ Needed(AtLeast(request, 1)) >= AtLeast(request, 1)
         /\ AtLeast(request, 1) \in Nat \ {0}
<1> DEFINE size == AtLeast(request, 1)
           low  == AtLeast(size, InitialChunk)
<1>1. request \in Nat /\ InitialChunk \in Nat \ {0}
  BY VmMemoryAssumption DEF Sizes
<1>2. low = AtLeast(request, InitialChunk) /\ size \in Nat \ {0} /\ low >= size
  BY <1>1 DEF AtLeast
<1>3. \E p \in PowersOfTwo :
        p >= low /\ \A q \in PowersOfTwo : q >= low => p <= q
  BY <1>2, VmMemoryAssumption
<1>4. Needed(size) \in PowersOfTwo /\ Needed(size) >= low
  BY <1>3 DEF Needed
<1>5. Needed(size) \in Nat
  BY <1>4, VmMemoryAssumption
<1> QED
  BY <1>1, <1>2, <1>4, <1>5 DEF AtLeast

(* align_up never moves back. *)
LEMMA AlignUpMonotone ==
  ASSUME NEW value \in Nat, NEW align \in Nat \ {0}
  PROVE  AlignUp(value, align) \in Nat /\ AlignUp(value, align) >= value
<1>1. value % align \in 0 .. (align - 1)
  OBVIOUS
<1>2. align - (value % align) \in Nat
  BY <1>1
<1>3. (align - (value % align)) % align \in 0 .. (align - 1)
  BY <1>2
<1> QED
  BY <1>3 DEF AlignUp

(* Room for a request: it starts at or after the current position, ends    *)
(* inside its chunk, and the lengths of the other chunks are left alone.   *)
GoodRoom(m, size, r) ==
  /\ r.chunks \in Seq(Nat)
  /\ r.chunk \in DOMAIN r.chunks
  /\ r.start \in Nat
  /\ r.start + size <= r.chunks[r.chunk]
  /\ r.chunk > m.chunk \/ (r.chunk = m.chunk /\ r.start >= m.offset)
  /\ DOMAIN m.chunks \subseteq DOMAIN r.chunks
  /\ \A c \in DOMAIN m.chunks : r.chunks[c] = m.chunks[c]

(* alloc_raw finds good room for every request the VM makes. *)
LEMMA RoomSound ==
  ASSUME NEW m \in Memory, m.chunk \in DOMAIN m.chunks,
         NEW request \in Sizes, NEW align \in Nat \ {0}
  PROVE  GoodRoom(m, AtLeast(request, 1), Room(m, AtLeast(request, 1), align))
<1> DEFINE size   == AtLeast(request, 1)
           needed == Needed(size)
           start  == AlignUp(m.offset, align)
           r      == Room(m, size, align)
<1>1. needed \in Nat /\ needed >= size /\ size \in Nat \ {0}
  BY NeededHolds
<1>2. m.chunks \in Seq(Nat) /\ m.offset \in Nat /\ m.chunk \in 1 .. Len(m.chunks)
  BY DEF Memory
<1>3. start \in Nat /\ start >= m.offset
  BY <1>2, AlignUpMonotone
<1> SUFFICES GoodRoom(m, size, r)
  OBVIOUS
<1>4. r = IF start + size <= m.chunks[m.chunk]
          THEN [chunks |-> m.chunks, chunk |-> m.chunk, start |-> start]
          ELSE IF m.chunk = Len(m.chunks) \/ m.chunks[m.chunk + 1] < needed
          THEN [chunks |-> Append(m.chunks, needed), chunk |-> Len(m.chunks) + 1, start |-> 0]
          ELSE [chunks |-> m.chunks, chunk |-> m.chunk + 1, start |-> 0]
  BY DEF Room
<1> HIDE DEF size, needed, start, r
<1>5. CASE start + size <= m.chunks[m.chunk]
  BY <1>1, <1>2, <1>3, <1>4, <1>5 DEF GoodRoom
<1>6. CASE /\ ~(start + size <= m.chunks[m.chunk])
           /\ m.chunk = Len(m.chunks) \/ m.chunks[m.chunk + 1] < needed
  <2>1. r = [chunks |-> Append(m.chunks, needed), chunk |-> Len(m.chunks) + 1, start |-> 0]
    BY <1>4, <1>6
  <2>2. /\ Append(m.chunks, needed) \in Seq(Nat)
        /\ Len(Append(m.chunks, needed)) = Len(m.chunks) + 1
        /\ Append(m.chunks, needed)[Len(m.chunks) + 1] = needed
        /\ \A c \in 1 .. Len(m.chunks) : Append(m.chunks, needed)[c] = m.chunks[c]
    BY <1>1, <1>2
  <2> QED
    BY SMTT(20), <2>1, <2>2, <1>1, <1>2 DEF GoodRoom
<1>7. CASE /\ ~(start + size <= m.chunks[m.chunk])
           /\ ~(m.chunk = Len(m.chunks) \/ m.chunks[m.chunk + 1] < needed)
  <2>1. r = [chunks |-> m.chunks, chunk |-> m.chunk + 1, start |-> 0]
    BY <1>4, <1>7
  <2>2. m.chunk + 1 \in 1 .. Len(m.chunks) /\ m.chunks[m.chunk + 1] \in Nat
    BY <1>2, <1>7
  <2> QED
    BY SMTT(20), <2>1, <2>2, <1>1, <1>2, <1>7 DEF GoodRoom
<1> QED
  BY <1>5, <1>6, <1>7

-----------------------------------------------------------------------------
(* The block alloc_raw hands out, and what becomes of the rest. *)

NewBlock(m, request, align, dyn) ==
  LET room == Room(m, AtLeast(request, 1), align)
  IN  [chunk |-> room.chunk, start |-> room.start,
       size |-> AtLeast(request, 1), dyn |-> dyn]

\* r is m after it handed out block b.
HandedOut(m, r, b) ==
  /\ r \in Memory
  /\ b \in Block /\ b.size > 0
  /\ r.chunk = b.chunk /\ r.offset = b.start + b.size
  /\ r.scopes = m.scopes /\ r.dynamics = m.dynamics
  /\ r.live = Append(m.live, b)
  /\ r.last = Len(m.live) + 1
  /\ b.chunk \in DOMAIN r.chunks /\ r.offset <= r.chunks[b.chunk]
  /\ b.chunk > m.chunk \/ (b.chunk = m.chunk /\ b.start >= m.offset)
  /\ DOMAIN m.chunks \subseteq DOMAIN r.chunks
  /\ \A c \in DOMAIN m.chunks : r.chunks[c] = m.chunks[c]

LEMMA AllocRawShape ==
  ASSUME NEW m \in Memory, m.chunk \in DOMAIN m.chunks,
         NEW request \in Sizes, NEW align \in Nat \ {0}, NEW dyn \in Nat
  PROVE  HandedOut(m, AllocRaw(m, request, align, dyn), NewBlock(m, request, align, dyn))
<1> DEFINE size == AtLeast(request, 1)
           room == Room(m, size, align)
           b    == NewBlock(m, request, align, dyn)
           r    == AllocRaw(m, request, align, dyn)
           live == Append(m.live, b)
<1>1. GoodRoom(m, size, room) /\ size \in Nat \ {0}
  BY RoomSound, NeededHolds
<1>2. b = [chunk |-> room.chunk, start |-> room.start, size |-> size, dyn |-> dyn]
  BY DEF NewBlock
<1>3. r = [m EXCEPT !.chunks = room.chunks, !.chunk = room.chunk,
                    !.offset = room.start + size, !.live = live,
                    !.last = Len(m.live) + 1]
  BY <1>2 DEF AllocRaw
<1>4. m = [chunks |-> m.chunks, chunk |-> m.chunk, offset |-> m.offset,
           dynamics |-> m.dynamics, scopes |-> m.scopes, live |-> m.live, last |-> m.last]
  BY DEF Memory
<1> SUFFICES HandedOut(m, r, b)
  OBVIOUS
<1> HIDE DEF size, room, b, r
<1>5. /\ room.chunk \in Nat /\ room.start \in Nat /\ room.chunks \in Seq(Nat)
      /\ room.start + size \in Nat
  BY <1>1 DEF GoodRoom
<1>6. b \in Block
  BY <1>1, <1>2, <1>5 DEF Block
<1>7. live \in Seq(Block) /\ Len(m.live) + 1 \in Nat
  BY <1>6 DEF Memory
<1> HIDE DEF live
<1>8. r = [chunks |-> room.chunks, chunk |-> room.chunk, offset |-> room.start + size,
           dynamics |-> m.dynamics, scopes |-> m.scopes, live |-> live,
           last |-> Len(m.live) + 1]
  BY <1>3, <1>4
<1>9. r \in Memory
  BY <1>5, <1>7, <1>8 DEF Memory
<1> QED
  BY SMTT(20), <1>1, <1>2, <1>5, <1>6, <1>8, <1>9 DEF GoodRoom, HandedOut, live

(* The types of the parts of an arena. *)
LEMMA MemoryTypes ==
  ASSUME NEW m \in Memory
  PROVE  /\ m.chunk \in Nat /\ m.offset \in Nat /\ m.last \in Nat
         /\ m.chunks \in Seq(Nat) /\ m.dynamics \in Seq(Address)
         /\ m.scopes \in Seq(ScopeMark) /\ m.live \in Seq(Block)
         /\ \A i \in DOMAIN m.live : m.live[i] \in Block
         /\ \A s \in DOMAIN m.scopes :
              /\ m.scopes[s] \in ScopeMark
              /\ m.scopes[s].chunk \in Nat /\ m.scopes[s].offset \in Nat
              /\ m.scopes[s].dynamic_len \in Nat /\ m.scopes[s].live_len \in Nat
<1>1. /\ m.chunk \in Nat /\ m.offset \in Nat /\ m.last \in Nat
      /\ m.chunks \in Seq(Nat) /\ m.dynamics \in Seq(Address)
      /\ m.scopes \in Seq(ScopeMark) /\ m.live \in Seq(Block)
  BY DEF Memory
<1>2. \A i \in DOMAIN m.live : m.live[i] \in Block
  BY <1>1
<1>3. \A s \in DOMAIN m.scopes : m.scopes[s] \in ScopeMark
  BY <1>1
<1>4. \A k \in ScopeMark : /\ k.chunk \in Nat /\ k.offset \in Nat
                           /\ k.dynamic_len \in Nat /\ k.live_len \in Nat
  BY DEF ScopeMark
<1> QED
  BY <1>1, <1>2, <1>3, <1>4

(* What lies below a position lies below every later one, and apart from   *)
(* what starts there.                                                      *)
LEMMA BelowMonotone ==
  ASSUME NEW c \in Block, NEW chunk \in Nat, NEW offset \in Nat,
         NEW chunk2 \in Nat, NEW offset2 \in Nat,
         Below(chunk, offset, c),
         chunk2 > chunk \/ (chunk2 = chunk /\ offset2 >= offset)
  PROVE  Below(chunk2, offset2, c)
<1>1. c.chunk \in Nat /\ c.start \in Nat /\ c.size \in Nat
  BY DEF Block
<1> QED
  BY <1>1 DEF Below

LEMMA BelowDisjoint ==
  ASSUME NEW c \in Block, NEW b \in Block, NEW chunk \in Nat, NEW offset \in Nat,
         Below(chunk, offset, c),
         b.chunk > chunk \/ (b.chunk = chunk /\ b.start >= offset)
  PROVE  Disjoint(b, c) /\ Disjoint(c, b)
<1>1. c.chunk \in Nat /\ c.start \in Nat /\ c.size \in Nat
  BY DEF Block
<1>2. b.chunk \in Nat /\ b.start \in Nat /\ b.size \in Nat
  BY DEF Block
<1> QED
  BY <1>1, <1>2 DEF Below, Disjoint

(* The parts of WellFormed that say nothing of Dynamics. *)
Layout(m) ==
  /\ m \in Memory
  /\ MarksInOrder(m)
  /\ InBounds(m)
  /\ Stacked(m)
  /\ NoOverlap(m)

(* Handing out a block keeps the layout: what lies below the old position  *)
(* is disjoint from what starts at or after it.                            *)
LEMMA AllocRawLayout ==
  ASSUME NEW m, Layout(m),
         NEW request \in Sizes, NEW align \in Nat \ {0}, NEW dyn \in Nat
  PROVE  Layout(AllocRaw(m, request, align, dyn))
<1> DEFINE r == AllocRaw(m, request, align, dyn)
           b == NewBlock(m, request, align, dyn)
           n == Len(m.live)
<1>1. m \in Memory /\ m.chunk \in DOMAIN m.chunks
  BY DEF Layout, MarksInOrder
<1>0. HandedOut(m, r, b)
  BY <1>1, AllocRawShape
<1> SUFFICES Layout(r)
  OBVIOUS
<1> HIDE DEF r, b
<1>2. /\ r \in Memory
      /\ b \in Block /\ b.size > 0
      /\ r.chunk = b.chunk /\ r.offset = b.start + b.size
      /\ r.scopes = m.scopes /\ r.dynamics = m.dynamics
      /\ r.live = Append(m.live, b)
      /\ b.chunk \in DOMAIN r.chunks /\ r.offset <= r.chunks[b.chunk]
      /\ b.chunk > m.chunk \/ (b.chunk = m.chunk /\ b.start >= m.offset)
      /\ DOMAIN m.chunks \subseteq DOMAIN r.chunks
      /\ \A c \in DOMAIN m.chunks : r.chunks[c] = m.chunks[c]
  BY <1>0 DEF HandedOut
<1>3. /\ m.live \in Seq(Block) /\ n \in Nat /\ m.chunk \in Nat /\ m.offset \in Nat
      /\ m.scopes \in Seq(ScopeMark)
  BY <1>1 DEF Memory
<1>4. /\ DOMAIN r.live = 1 .. n + 1 /\ Len(r.live) = n + 1
      /\ r.live[n + 1] = b
      /\ \A i \in 1 .. n : r.live[i] = m.live[i] /\ m.live[i] \in Block
      /\ DOMAIN m.live = 1 .. n
  BY <1>2, <1>3
<1>5. \A i \in 1 .. n : Below(m.chunk, m.offset, m.live[i])
  BY <1>4 DEF Layout, Stacked
<1>a. /\ b.chunk \in Nat /\ b.start \in Nat /\ b.size \in Nat
      /\ \A i \in 1 .. n : /\ m.live[i].chunk \in Nat /\ m.live[i].start \in Nat
                           /\ m.live[i].size \in Nat
  BY <1>2, <1>4 DEF Block
<1>b. \A s \in DOMAIN m.scopes : m.scopes[s].live_len \in 0 .. n
  BY <1>1, <1>3, MemoryTypes DEF Layout, MarksInOrder
<1>6. MarksInOrder(r)
  <2>1. MarksInOrder(m)
    BY DEF Layout
  <2>2. r.chunk \in DOMAIN r.chunks
    BY <1>2
  <2>3. \A s \in DOMAIN r.scopes :
          /\ r.scopes[s].chunk \in DOMAIN r.chunks
          /\ r.scopes[s].live_len <= Len(r.live)
          /\ r.scopes[s].dynamic_len <= Len(r.dynamics)
    BY <2>1, <1>2, <1>3, <1>4, <1>b DEF MarksInOrder
  <2>4. \A s, t \in DOMAIN r.scopes : s <= t =>
          /\ r.scopes[s].live_len <= r.scopes[t].live_len
          /\ r.scopes[s].dynamic_len <= r.scopes[t].dynamic_len
    BY <2>1, <1>2 DEF MarksInOrder
  <2> QED
    BY <2>2, <2>3, <2>4 DEF MarksInOrder
<1>7. InBounds(r)
  <2>1. \A i \in 1 .. n : /\ m.live[i].chunk \in DOMAIN m.chunks
                          /\ m.live[i].start + m.live[i].size <= m.chunks[m.live[i].chunk]
    BY <1>4 DEF Layout, InBounds
  <2>2. \A i \in 1 .. n : /\ r.live[i].chunk \in DOMAIN r.chunks
                          /\ r.live[i].start + r.live[i].size <= r.chunks[r.live[i].chunk]
    BY <2>1, <1>2, <1>4
  <2>3. /\ r.live[n + 1].chunk \in DOMAIN r.chunks
        /\ r.live[n + 1].start + r.live[n + 1].size <= r.chunks[r.live[n + 1].chunk]
    BY <1>2, <1>4
  <2> QED
    BY <2>2, <2>3, <1>3, <1>4 DEF InBounds
<1>8. Stacked(r)
  <2>1. \A i \in 1 .. n : Below(r.chunk, r.offset, r.live[i])
    <3>1. /\ r.chunk \in Nat /\ r.offset \in Nat
          /\ r.chunk > m.chunk \/ (r.chunk = m.chunk /\ r.offset >= m.offset)
      BY <1>2, <1>3, <1>a
    <3> QED
      BY <3>1, <1>3, <1>4, <1>5, BelowMonotone
  <2>2. Below(r.chunk, r.offset, r.live[n + 1])
    BY <1>2, <1>4, <1>a DEF Below
  <2>3. \A s \in DOMAIN r.scopes : \A i \in 1 .. r.scopes[s].live_len :
          Below(r.scopes[s].chunk, r.scopes[s].offset, r.live[i])
    BY <1>2, <1>3, <1>4, <1>b DEF Layout, Stacked
  <2>4. \A i \in DOMAIN r.live : Below(r.chunk, r.offset, r.live[i])
    BY <2>1, <2>2, <1>3, <1>4
  <2> QED
    BY <2>3, <2>4 DEF Stacked
<1>9. NoOverlap(r)
  <2>1. \A i \in 1 .. n : Disjoint(r.live[i], b) /\ Disjoint(b, r.live[i])
    BY <1>2, <1>3, <1>4, <1>5, BelowDisjoint
  <2>2. \A i, j \in 1 .. n : i # j => Disjoint(r.live[i], r.live[j])
    BY <1>4 DEF Layout, NoOverlap
  <2> SUFFICES ASSUME NEW i \in 1 .. n + 1, NEW j \in 1 .. n + 1, i # j
               PROVE  Disjoint(r.live[i], r.live[j])
    BY <1>4 DEF NoOverlap
  <2>3. CASE i \in 1 .. n /\ j \in 1 .. n
    BY <2>2, <2>3
  <2>4. CASE i = n + 1
    BY <2>1, <2>4, <1>3, <1>4
  <2>5. CASE j = n + 1
    BY <2>1, <2>5, <1>3, <1>4
  <2> QED
    BY <2>3, <2>4, <2>5, <1>3
<1> QED
  BY <1>2, <1>6, <1>7, <1>8, <1>9 DEF Layout

-----------------------------------------------------------------------------
(* Every method keeps WellFormed. *)

LEMMA WellFormedLayout ==
  ASSUME NEW m, WellFormed(m)
  PROVE  Layout(m) /\ m \in Memory /\ m.chunk \in DOMAIN m.chunks
BY DEF WellFormed, Layout, MarksInOrder

(* Only the history field "last" is reset between steps. *)
LEMMA ForgetWellFormed ==
  ASSUME NEW m, WellFormed(m)
  PROVE  WellFormed([m EXCEPT !.last = 0])
<1> DEFINE r == [m EXCEPT !.last = 0]
<1>1. m \in Memory
  BY DEF WellFormed
<1>2. /\ r \in Memory /\ r.chunks = m.chunks /\ r.chunk = m.chunk /\ r.offset = m.offset
      /\ r.dynamics = m.dynamics /\ r.scopes = m.scopes /\ r.live = m.live
  BY <1>1 DEF Memory
<1> HIDE DEF r
<1>3. MarksInOrder(r) /\ InBounds(r) /\ Stacked(r)
  BY <1>2 DEF WellFormed, MarksInOrder, InBounds, Stacked
<1>4. NoOverlap(r) /\ DropsMatch(r) /\ OutermostBoxed(r)
  BY <1>2 DEF WellFormed, NoOverlap, DropsMatch, OutermostBoxed
<1> QED
  BY <1>2, <1>3, <1>4 DEF WellFormed, r

(* alloc_struct_bytes, with or without an open scope. *)
LEMMA AllocBytesWellFormed ==
  ASSUME NEW m, WellFormed(m), NEW size \in ByteSizes
  PROVE  /\ WellFormed(AllocBytes(m, size))
         /\ AllocBytes(m, size).scopes = m.scopes
         /\ AllocBytes(m, size).dynamics = m.dynamics
         /\ Len(AllocBytes(m, size).live) = Len(m.live) + 1
         /\ AllocBytes(m, size).last = Len(m.live) + 1
<1> DEFINE r == AllocBytes(m, size)
           b == NewBlock(m, size, ByteAlign, 0)
           n == Len(m.live)
<1>1. size \in Sizes /\ ByteAlign \in Nat \ {0} /\ 0 \in Nat
  BY VmMemoryAssumption DEF Sizes
<1>2. Layout(r)
  BY <1>1, WellFormedLayout, AllocRawLayout DEF AllocBytes
<1>3. HandedOut(m, r, b)
  BY <1>1, WellFormedLayout, AllocRawShape DEF AllocBytes
<1>4. b.dyn = 0
  BY DEF NewBlock
<1> SUFFICES /\ WellFormed(r) /\ r.scopes = m.scopes /\ r.dynamics = m.dynamics
             /\ Len(r.live) = n + 1 /\ r.last = n + 1
  OBVIOUS
<1> HIDE DEF r, b
<1>5. /\ r.scopes = m.scopes /\ r.dynamics = m.dynamics /\ r.live = Append(m.live, b)
      /\ r.last = n + 1 /\ b \in Block
  BY <1>3 DEF HandedOut
<1>6. n \in Nat /\ m.live \in Seq(Block)
  BY WellFormedLayout, MemoryTypes
<1>7. /\ DOMAIN r.live = 1 .. n + 1 /\ DOMAIN m.live = 1 .. n /\ r.live[n + 1].dyn = 0
      /\ Len(r.live) = n + 1
      /\ \A i \in 1 .. n : r.live[i] = m.live[i]
  BY <1>4, <1>5, <1>6
<1>8. DropsMatch(r)
  <2>0. DropsMatch(m)
    BY DEF WellFormed
  <2>1. \A i \in DOMAIN r.live : r.live[i].dyn # 0 => i \in DOMAIN m.live /\ r.live[i] = m.live[i]
    BY <1>6, <1>7
  <2>2. \A i \in DOMAIN m.live : i \in DOMAIN r.live /\ r.live[i] = m.live[i]
    BY <1>6, <1>7
  <2>3. \A i \in DOMAIN r.live : r.live[i].dyn # 0 =>
         /\ r.live[i].dyn \in DOMAIN r.dynamics
         /\ r.dynamics[r.live[i].dyn] = [chunk |-> r.live[i].chunk, start |-> r.live[i].start]
    <3> SUFFICES ASSUME NEW i \in DOMAIN r.live, r.live[i].dyn # 0
                 PROVE  /\ r.live[i].dyn \in DOMAIN r.dynamics
                        /\ r.dynamics[r.live[i].dyn]
                             = [chunk |-> r.live[i].chunk, start |-> r.live[i].start]
      OBVIOUS
    <3>1. i \in DOMAIN m.live /\ r.live[i] = m.live[i] /\ m.live[i].dyn # 0
      BY <2>1
    <3>2. /\ m.live[i].dyn \in DOMAIN m.dynamics
          /\ m.dynamics[m.live[i].dyn]
               = [chunk |-> m.live[i].chunk, start |-> m.live[i].start]
      BY <2>0, <3>1 DEF DropsMatch
    <3> QED
      BY <3>1, <3>2, <1>5
  <2>4. \A k \in DOMAIN r.dynamics : \E i \in DOMAIN r.live : r.live[i].dyn = k
    BY <2>0, <2>2, <1>5 DEF DropsMatch
  <2>5. \A i, j \in DOMAIN r.live :
          r.live[i].dyn # 0 /\ r.live[i].dyn = r.live[j].dyn => i = j
    BY <2>0, <2>1 DEF DropsMatch
  <2>6. \A s \in DOMAIN r.scopes : \A i \in DOMAIN r.live : r.live[i].dyn # 0 =>
          (i <= r.scopes[s].live_len <=> r.live[i].dyn <= r.scopes[s].dynamic_len)
    BY <2>0, <2>1, <1>5 DEF DropsMatch
  <2> QED
    BY <2>3, <2>4, <2>5, <2>6 DEF DropsMatch
<1>9. OutermostBoxed(r)
  BY <1>5 DEF WellFormed, OutermostBoxed
<1> QED
  BY <1>2, <1>5, <1>7, <1>8, <1>9 DEF Layout, WellFormed

(* A Dynamic of an open scope: it joins the list that scope's exit drops. *)
LEMMA AllocDynamicWellFormed ==
  ASSUME NEW m, WellFormed(m), HasScope(m)
  PROVE  /\ WellFormed(AllocDynamic(m))
         /\ AllocDynamic(m).scopes = m.scopes
         /\ Len(AllocDynamic(m).live) = Len(m.live) + 1
         /\ AllocDynamic(m).last = Len(m.live) + 1
<1> DEFINE n == Len(m.live)
           d == Len(m.dynamics)
           r == AllocRaw(m, DynSize, DynAlign, d + 1)
           b == NewBlock(m, DynSize, DynAlign, d + 1)
           a == [chunk |-> b.chunk, start |-> b.start]
           q == AllocDynamic(m)
<1>1. /\ DynSize \in Sizes /\ DynAlign \in Nat \ {0}
      /\ m.live \in Seq(Block) /\ m.dynamics \in Seq(Address) /\ m.scopes \in Seq(ScopeMark)
      /\ n \in Nat /\ d \in Nat /\ d + 1 \in Nat
  BY VmMemoryAssumption, WellFormedLayout, MemoryTypes DEF Sizes
<1>2. Layout(r)
  BY <1>1, WellFormedLayout, AllocRawLayout
<1>3. HandedOut(m, r, b)
  BY <1>1, WellFormedLayout, AllocRawShape
<1>4. b.dyn = d + 1
  BY DEF NewBlock
<1>5. q = [r EXCEPT !.dynamics = Append(r.dynamics, [chunk |-> r.live[Len(r.live)].chunk,
                                                    start |-> r.live[Len(r.live)].start])]
  BY DEF AllocDynamic
<1> SUFFICES /\ WellFormed(q) /\ q.scopes = m.scopes
             /\ Len(q.live) = n + 1 /\ q.last = n + 1
  OBVIOUS
<1> HIDE DEF r, b, q
<1>6. /\ r.scopes = m.scopes /\ r.dynamics = m.dynamics /\ r.live = Append(m.live, b)
      /\ r.last = n + 1 /\ b \in Block /\ r \in Memory
  BY <1>3 DEF HandedOut
<1>7. /\ DOMAIN r.live = 1 .. n + 1 /\ DOMAIN m.live = 1 .. n /\ r.live[n + 1] = b
      /\ Len(r.live) = n + 1
      /\ \A i \in 1 .. n : r.live[i] = m.live[i]
  BY <1>1, <1>6
<1>8. q = [r EXCEPT !.dynamics = Append(m.dynamics, a)]
  BY <1>5, <1>6, <1>7
<1>9. a \in Address
  BY <1>6 DEF Block, Address
<1> HIDE DEF a
<1>10. Append(m.dynamics, a) \in Seq(Address)
  BY <1>1, <1>9
<1>11. /\ q \in Memory /\ q.chunks = r.chunks /\ q.chunk = r.chunk /\ q.offset = r.offset
       /\ q.scopes = m.scopes /\ q.live = r.live /\ q.last = n + 1
       /\ q.dynamics = Append(m.dynamics, a)
  BY <1>6, <1>8, <1>10 DEF Memory
<1>12. /\ DOMAIN q.dynamics = 1 .. d + 1 /\ DOMAIN m.dynamics = 1 .. d
       /\ Len(q.dynamics) = d + 1 /\ q.dynamics[d + 1] = a
       /\ \A k \in 1 .. d : q.dynamics[k] = m.dynamics[k]
  BY <1>1, <1>9, <1>11
<1>13. InBounds(q) /\ Stacked(q) /\ NoOverlap(q)
  BY <1>2, <1>6, <1>11 DEF Layout, InBounds, Stacked, NoOverlap
<1>14. \A s \in DOMAIN m.scopes : /\ m.scopes[s].dynamic_len \in 0 .. d
                                  /\ m.scopes[s].live_len \in 0 .. n
  BY <1>1, WellFormedLayout, MemoryTypes DEF WellFormed, MarksInOrder
<1>15. MarksInOrder(q)
  <2>1. /\ r.chunk \in DOMAIN r.chunks
        /\ \A s \in DOMAIN m.scopes : m.scopes[s].chunk \in DOMAIN r.chunks
        /\ \A s, t \in DOMAIN m.scopes : s <= t =>
             /\ m.scopes[s].live_len <= m.scopes[t].live_len
             /\ m.scopes[s].dynamic_len <= m.scopes[t].dynamic_len
    BY <1>2, <1>6 DEF Layout, MarksInOrder
  <2>2. \A s \in DOMAIN q.scopes :
          /\ q.scopes[s].live_len <= Len(q.live)
          /\ q.scopes[s].dynamic_len <= Len(q.dynamics)
    BY <1>1, <1>7, <1>11, <1>12, <1>14
  <2> QED
    BY <2>1, <2>2, <1>11 DEF MarksInOrder
<1>16. DropsMatch(q)
  <2>0. DropsMatch(m)
    BY DEF WellFormed
  <2>a. q.live[n + 1].dyn = d + 1 /\ \A i \in 1 .. n : q.live[i] = m.live[i]
    BY <1>4, <1>7, <1>11
  <2>b. \A i \in 1 .. n : m.live[i].dyn # 0 => m.live[i].dyn \in 1 .. d
    BY <2>0, <1>7, <1>12 DEF DropsMatch
  <2>c. DOMAIN q.live = 1 .. n + 1
    BY <1>7, <1>11
  <2>1. \A i \in DOMAIN q.live : q.live[i].dyn # 0 =>
         /\ q.live[i].dyn \in DOMAIN q.dynamics
         /\ q.dynamics[q.live[i].dyn] = [chunk |-> q.live[i].chunk, start |-> q.live[i].start]
    <3>1. \A i \in 1 .. n : m.live[i].dyn # 0 =>
            m.dynamics[m.live[i].dyn] = [chunk |-> m.live[i].chunk, start |-> m.live[i].start]
      BY <2>0, <1>7 DEF DropsMatch
    <3>2. \A i \in 1 .. n : q.live[i].dyn # 0 =>
           /\ q.live[i].dyn \in DOMAIN q.dynamics
           /\ q.dynamics[q.live[i].dyn] = [chunk |-> q.live[i].chunk, start |-> q.live[i].start]
      <4> SUFFICES ASSUME NEW i \in 1 .. n, q.live[i].dyn # 0
                   PROVE  /\ q.live[i].dyn \in DOMAIN q.dynamics
                          /\ q.dynamics[q.live[i].dyn]
                               = [chunk |-> q.live[i].chunk, start |-> q.live[i].start]
        OBVIOUS
      <4>1. q.live[i] = m.live[i] /\ m.live[i].dyn \in 1 .. d
        BY <2>a, <2>b
      <4>2. m.live[i].dyn \in 1 .. d + 1
        BY <4>1, <1>1
      <4> QED
        BY <3>1, <4>1, <4>2, <1>12
    <3>3. /\ q.live[n + 1].dyn \in DOMAIN q.dynamics
          /\ q.dynamics[q.live[n + 1].dyn]
               = [chunk |-> q.live[n + 1].chunk, start |-> q.live[n + 1].start]
      BY <2>a, <1>1, <1>7, <1>11, <1>12 DEF a
    <3> QED
      BY SMTT(20), <3>2, <3>3, <2>c, <1>1
  <2>2. \A k \in DOMAIN q.dynamics : \E i \in DOMAIN q.live : q.live[i].dyn = k
    <3>1. \A k \in 1 .. d : \E i \in 1 .. n : m.live[i].dyn = k
      BY <2>0, <1>7, <1>12 DEF DropsMatch
    <3>2. \A k \in 1 .. d : \E i \in 1 .. n + 1 : q.live[i].dyn = k
      <4> SUFFICES ASSUME NEW k \in 1 .. d
                   PROVE  \E i \in 1 .. n + 1 : q.live[i].dyn = k
        OBVIOUS
      <4>1. PICK i \in 1 .. n : m.live[i].dyn = k
        BY <3>1
      <4>2. i \in 1 .. n + 1 /\ q.live[i].dyn = k
        BY <4>1, <2>a, <1>1
      <4> QED
        BY <4>2
    <3>3. n + 1 \in 1 .. n + 1 /\ q.live[n + 1].dyn = d + 1
      BY <2>a, <1>1
    <3>4. \E i \in 1 .. n + 1 : q.live[i].dyn = d + 1
      BY <3>3
    <3>5. \A k \in DOMAIN q.dynamics : k \in 1 .. d \/ k = d + 1
      BY <1>1, <1>12
    <3> QED
      BY <3>2, <3>4, <3>5, <2>c
  <2>3. \A i, j \in DOMAIN q.live : q.live[i].dyn # 0 /\ q.live[i].dyn = q.live[j].dyn => i = j
    <3>0. \A i, j \in DOMAIN m.live :
            m.live[i].dyn # 0 /\ m.live[i].dyn = m.live[j].dyn => i = j
      BY <2>0 DEF DropsMatch
    <3>1. \A i, j \in 1 .. n : q.live[i].dyn # 0 /\ q.live[i].dyn = q.live[j].dyn => i = j
      <4> SUFFICES ASSUME NEW i \in 1 .. n, NEW j \in 1 .. n,
                          q.live[i].dyn # 0, q.live[i].dyn = q.live[j].dyn
                   PROVE  i = j
        OBVIOUS
      <4>1. q.live[i] = m.live[i] /\ q.live[j] = m.live[j]
        BY <2>a
      <4> QED
        BY <3>0, <4>1, <1>7
    <3>2. \A i \in 1 .. n : q.live[i].dyn # 0 => q.live[i].dyn # q.live[n + 1].dyn
      BY <2>a, <2>b, <1>1
    <3>3. \A i \in DOMAIN q.live : i \in 1 .. n \/ i = n + 1
      BY <2>c, <1>1
    <3> SUFFICES ASSUME NEW i \in DOMAIN q.live, NEW j \in DOMAIN q.live,
                        q.live[i].dyn # 0, q.live[i].dyn = q.live[j].dyn
                 PROVE  i = j
      OBVIOUS
    <3>4. CASE i \in 1 .. n /\ j \in 1 .. n
      BY <3>1, <3>4
    <3>5. CASE i = n + 1 \/ j = n + 1
      BY <3>2, <3>3, <3>5
    <3> QED
      BY <3>3, <3>4, <3>5
  <2>4. \A s \in DOMAIN q.scopes : \A i \in DOMAIN q.live : q.live[i].dyn # 0 =>
         (i <= q.scopes[s].live_len <=> q.live[i].dyn <= q.scopes[s].dynamic_len)
    <3>1. \A s \in DOMAIN m.scopes : \A i \in 1 .. n : q.live[i].dyn # 0 =>
           (i <= m.scopes[s].live_len <=> q.live[i].dyn <= m.scopes[s].dynamic_len)
      BY <2>0, <2>a, <1>7 DEF DropsMatch
    <3>2. \A s \in DOMAIN m.scopes :
            ~(n + 1 <= m.scopes[s].live_len) /\ ~(d + 1 <= m.scopes[s].dynamic_len)
      BY <1>1, <1>14
    <3> QED
      BY SMTT(20), <3>1, <3>2, <2>a, <2>c, <1>1, <1>11
  <2> QED
    BY <2>1, <2>2, <2>3, <2>4 DEF DropsMatch
<1>17. OutermostBoxed(q)
  BY <1>11 DEF WellFormed, OutermostBoxed, HasScope
<1> QED
  BY <1>7, <1>11, <1>13, <1>15, <1>16, <1>17 DEF WellFormed

(* scope_enter: the new mark is the current position, above everything.    *)
LEMMA EnterScopeWellFormed ==
  ASSUME NEW m, WellFormed(m)
  PROVE  /\ WellFormed(EnterScope(m))
         /\ EnterScope(m).live = m.live
         /\ Len(EnterScope(m).scopes) = Len(m.scopes) + 1
         /\ EnterScope(m).scopes[Len(m.scopes) + 1].live_len = Len(m.live)
         /\ \A s \in 1 .. Len(m.scopes) : EnterScope(m).scopes[s] = m.scopes[s]
         /\ EnterScope(m).last = m.last
<1> DEFINE k    == Len(m.scopes)
           mark == [chunk |-> m.chunk, offset |-> m.offset,
                    dynamic_len |-> Len(m.dynamics), live_len |-> Len(m.live)]
           r    == EnterScope(m)
<1>1. /\ m \in Memory /\ m.chunk \in DOMAIN m.chunks
      /\ m.live \in Seq(Block) /\ m.dynamics \in Seq(Address) /\ m.scopes \in Seq(ScopeMark)
      /\ k \in Nat /\ Len(m.live) \in Nat /\ Len(m.dynamics) \in Nat
      /\ DOMAIN m.scopes = 1 .. k
  BY WellFormedLayout, MemoryTypes
<1>2. mark \in ScopeMark
  BY <1>1, MemoryTypes DEF ScopeMark
<1>3. Append(m.scopes, mark) \in Seq(ScopeMark)
  BY <1>1, <1>2
<1>4. /\ r \in Memory /\ r.chunks = m.chunks /\ r.chunk = m.chunk /\ r.offset = m.offset
      /\ r.dynamics = m.dynamics /\ r.live = m.live /\ r.last = m.last
      /\ r.scopes = Append(m.scopes, mark)
  BY <1>1, <1>3 DEF EnterScope, Memory
<1>5. /\ DOMAIN r.scopes = 1 .. k + 1 /\ r.scopes[k + 1] = mark /\ Len(r.scopes) = k + 1
      /\ \A s \in 1 .. k : r.scopes[s] = m.scopes[s]
  BY <1>1, <1>2, <1>4
<1>6. /\ mark.chunk = m.chunk /\ mark.offset = m.offset
      /\ mark.dynamic_len = Len(m.dynamics) /\ mark.live_len = Len(m.live)
  OBVIOUS
<1> SUFFICES WellFormed(r)
  BY <1>4, <1>5, <1>6
<1> HIDE DEF r, mark
<1>7. \A s \in DOMAIN r.scopes : s \in 1 .. k \/ s = k + 1
  BY <1>1, <1>5
<1>8. MarksInOrder(r)
  <2>1. MarksInOrder(m)
    BY DEF WellFormed
  <2>2. \A s \in DOMAIN r.scopes :
          /\ r.scopes[s].chunk \in DOMAIN r.chunks
          /\ r.scopes[s].live_len <= Len(r.live)
          /\ r.scopes[s].dynamic_len <= Len(r.dynamics)
    BY <2>1, <1>1, <1>4, <1>5, <1>6, <1>7 DEF MarksInOrder
  <2> SUFFICES ASSUME NEW s \in DOMAIN r.scopes, NEW t \in DOMAIN r.scopes, s <= t
               PROVE  /\ r.scopes[s].live_len <= r.scopes[t].live_len
                      /\ r.scopes[s].dynamic_len <= r.scopes[t].dynamic_len
    BY <2>2, <1>1, <1>4 DEF MarksInOrder
  <2>3. CASE t \in 1 .. k
    <3>1. s \in 1 .. k
      BY <2>3, <1>1, <1>7
    <3> QED
      BY <3>1, <2>1, <2>3, <1>1, <1>5 DEF MarksInOrder
  <2>4. CASE t = k + 1
    BY <2>2, <2>4, <1>4, <1>5, <1>6
  <2> QED
    BY <2>3, <2>4, <1>7
<1>9. InBounds(r) /\ NoOverlap(r)
  BY <1>4 DEF WellFormed, InBounds, NoOverlap
<1>10. Stacked(r)
  <2>1. Stacked(m)
    BY DEF WellFormed
  <2>2. \A i \in 1 .. Len(m.live) : Below(m.chunk, m.offset, m.live[i])
    BY <2>1, <1>1 DEF Stacked
  <2>3. \A s \in 1 .. k : \A i \in 1 .. r.scopes[s].live_len :
          Below(r.scopes[s].chunk, r.scopes[s].offset, r.live[i])
    BY <2>1, <1>1, <1>4, <1>5 DEF Stacked
  <2>4. \A i \in 1 .. r.scopes[k + 1].live_len :
          Below(r.scopes[k + 1].chunk, r.scopes[k + 1].offset, r.live[i])
    BY <2>2, <1>4, <1>5, <1>6
  <2> QED
    BY <2>1, <2>3, <2>4, <1>4, <1>7 DEF Stacked
<1>11. DropsMatch(r)
  <2>1. DropsMatch(m)
    BY DEF WellFormed
  <2>2. \A i \in DOMAIN m.live : m.live[i].dyn # 0 =>
          (i <= mark.live_len <=> m.live[i].dyn <= mark.dynamic_len)
    <3>1. \A i \in DOMAIN m.live : i <= mark.live_len
      BY <1>1, <1>6
    <3>2. \A i \in DOMAIN m.live : m.live[i].dyn # 0 => m.live[i].dyn <= mark.dynamic_len
      <4> SUFFICES ASSUME NEW i \in DOMAIN m.live, m.live[i].dyn # 0
                   PROVE  m.live[i].dyn <= mark.dynamic_len
        OBVIOUS
      <4>1. m.live[i].dyn \in DOMAIN m.dynamics
        BY <2>1 DEF DropsMatch
      <4> QED
        BY <4>1, <1>1, <1>6
    <3> QED
      BY <3>1, <3>2
  <2>3. \A s \in DOMAIN r.scopes : \A i \in DOMAIN r.live : r.live[i].dyn # 0 =>
          (i <= r.scopes[s].live_len <=> r.live[i].dyn <= r.scopes[s].dynamic_len)
    BY <2>1, <2>2, <1>1, <1>4, <1>5, <1>7 DEF DropsMatch
  <2> QED
    BY <2>1, <2>3, <1>4 DEF DropsMatch
<1>12. OutermostBoxed(r)
  <2>1. r.scopes # <<>>
    BY <1>1, <1>5
  <2>2. r.scopes[1].dynamic_len = 0
    <3>1. CASE k = 0
      <4>1. m.scopes = <<>>
        BY <3>1, <1>1
      <4> QED
        BY <4>1, <3>1, <1>5, <1>6 DEF WellFormed, OutermostBoxed
    <3>2. CASE k # 0
      <4>1. m.scopes # <<>> /\ 1 \in 1 .. k
        BY <3>2, <1>1
      <4> QED
        BY <4>1, <1>5 DEF WellFormed, OutermostBoxed
    <3> QED
      BY <3>1, <3>2
  <2> QED
    BY <2>1, <2>2 DEF OutermostBoxed
<1> QED
  BY <1>4, <1>8, <1>9, <1>10, <1>11, <1>12 DEF WellFormed

(* exit_scope: back at the mark, with the blocks and Dynamics from before. *)
LEMMA ExitScopeWellFormed ==
  ASSUME NEW m, WellFormed(m), HasScope(m)
  PROVE  /\ WellFormed(ExitScope(m))
         /\ Len(m.scopes) \in Nat \ {0}
         /\ Len(ExitScope(m).scopes) = Len(m.scopes) - 1
         /\ \A s \in 1 .. Len(m.scopes) - 1 : ExitScope(m).scopes[s] = m.scopes[s]
         /\ Len(ExitScope(m).live) = m.scopes[Len(m.scopes)].live_len
         /\ ExitScope(m).last = m.last
<1> DEFINE k    == Len(m.scopes)
           mark == m.scopes[k]
           L    == mark.live_len
           D    == mark.dynamic_len
           r    == ExitScope(m)
<1>1. /\ m \in Memory /\ m.chunk \in DOMAIN m.chunks
      /\ m.live \in Seq(Block) /\ m.dynamics \in Seq(Address) /\ m.scopes \in Seq(ScopeMark)
      /\ k \in Nat \ {0} /\ Len(m.live) \in Nat /\ Len(m.dynamics) \in Nat
      /\ DOMAIN m.scopes = 1 .. k
  BY WellFormedLayout, MemoryTypes, EmptySeq DEF HasScope
<1>2. /\ mark \in ScopeMark /\ mark.chunk \in Nat /\ mark.offset \in Nat
      /\ L \in Nat /\ D \in Nat /\ k \in DOMAIN m.scopes
  BY <1>1, MemoryTypes
<1>3. MarksInOrder(m)
  BY DEF WellFormed
<1>4. L <= Len(m.live) /\ D <= Len(m.dynamics) /\ mark.chunk \in DOMAIN m.chunks
  BY <1>2, <1>3 DEF MarksInOrder
<1> DEFINE live == SubSeq(m.live, 1, L)
           dyns == SubSeq(m.dynamics, 1, D)
           scps == SubSeq(m.scopes, 1, k - 1)
<1>5. /\ live \in Seq(Block) /\ Len(live) = L /\ \A i \in 1 .. L : live[i] = m.live[i]
  BY <1>1, <1>2, <1>4
<1>6. /\ dyns \in Seq(Address) /\ Len(dyns) = D /\ \A i \in 1 .. D : dyns[i] = m.dynamics[i]
  BY <1>1, <1>2, <1>4
<1>7. /\ scps \in Seq(ScopeMark) /\ Len(scps) = k - 1
      /\ \A s \in 1 .. k - 1 : scps[s] = m.scopes[s]
  BY <1>1
<1>8. r = [m EXCEPT !.scopes = scps, !.dynamics = dyns, !.chunk = mark.chunk,
                    !.offset = mark.offset, !.live = live]
  BY DEF ExitScope, HasScope
<1> HIDE DEF live, dyns, scps, r
<1>9. /\ r \in Memory /\ r.chunks = m.chunks /\ r.chunk = mark.chunk
      /\ r.offset = mark.offset /\ r.dynamics = dyns /\ r.live = live /\ r.last = m.last
      /\ r.scopes = scps
  BY <1>1, <1>2, <1>5, <1>6, <1>7, <1>8 DEF Memory
<1>10. /\ DOMAIN r.live = 1 .. L /\ DOMAIN r.dynamics = 1 .. D /\ DOMAIN r.scopes = 1 .. k - 1
       /\ DOMAIN m.live = 1 .. Len(m.live) /\ DOMAIN m.dynamics = 1 .. Len(m.dynamics)
       /\ \A i \in 1 .. L : r.live[i] = m.live[i]
       /\ \A i \in 1 .. D : r.dynamics[i] = m.dynamics[i]
       /\ \A s \in 1 .. k - 1 : r.scopes[s] = m.scopes[s]
       /\ Len(r.live) = L /\ Len(r.dynamics) = D /\ Len(r.scopes) = k - 1
  BY <1>1, <1>2, <1>5, <1>6, <1>7, <1>9
<1>11. /\ 1 .. L \subseteq DOMAIN m.live /\ 1 .. D \subseteq DOMAIN m.dynamics
       /\ 1 .. k - 1 \subseteq DOMAIN m.scopes
  BY SMTT(20), <1>1, <1>2, <1>4, <1>10
<1> SUFFICES WellFormed(r)
  BY <1>1, <1>9, <1>10 DEF r
<1> HIDE DEF mark, L, D, k
<1>12. \A s \in 1 .. k - 1 : /\ m.scopes[s].live_len \in 0 .. L
                             /\ m.scopes[s].dynamic_len \in 0 .. D
                             /\ m.scopes[s].chunk \in DOMAIN m.chunks
  <2> SUFFICES ASSUME NEW s \in 1 .. k - 1
               PROVE  /\ m.scopes[s].live_len \in 0 .. L
                      /\ m.scopes[s].dynamic_len \in 0 .. D
                      /\ m.scopes[s].chunk \in DOMAIN m.chunks
    OBVIOUS
  <2>1. s \in DOMAIN m.scopes /\ s <= k
    BY <1>1, <1>11
  <2>2. m.scopes[s].live_len <= L /\ m.scopes[s].dynamic_len <= D
    BY <2>1, <1>2, <1>3 DEF MarksInOrder, L, D, mark
  <2>3. m.scopes[s].live_len \in Nat /\ m.scopes[s].dynamic_len \in Nat
    BY <2>1, <1>1, MemoryTypes
  <2> QED
    BY <2>1, <2>2, <2>3, <1>2, <1>3 DEF MarksInOrder
<1>13. MarksInOrder(r)
  <2>1. \A s, t \in DOMAIN r.scopes : s <= t =>
          /\ r.scopes[s].live_len <= r.scopes[t].live_len
          /\ r.scopes[s].dynamic_len <= r.scopes[t].dynamic_len
    BY <1>3, <1>10, <1>11 DEF MarksInOrder
  <2>2. \A s \in DOMAIN r.scopes :
          /\ r.scopes[s].chunk \in DOMAIN r.chunks
          /\ r.scopes[s].live_len <= Len(r.live)
          /\ r.scopes[s].dynamic_len <= Len(r.dynamics)
    BY <1>2, <1>9, <1>10, <1>12
  <2> QED
    BY <2>1, <2>2, <1>4, <1>9 DEF MarksInOrder
<1>14. InBounds(r)
  BY <1>9, <1>10, <1>11 DEF WellFormed, InBounds
<1>15. NoOverlap(r)
  BY <1>10, <1>11 DEF WellFormed, NoOverlap
<1>16. Stacked(r)
  <2>1. Stacked(m)
    BY DEF WellFormed
  <2>2. \A i \in 1 .. L : Below(r.chunk, r.offset, m.live[i])
    BY <2>1, <1>2, <1>9 DEF Stacked, mark, L
  <2>3. \A s \in 1 .. k - 1 : \A i \in 1 .. m.scopes[s].live_len :
          Below(m.scopes[s].chunk, m.scopes[s].offset, m.live[i]) /\ i \in 1 .. L
    BY <2>1, <1>2, <1>11, <1>12 DEF Stacked
  <2> QED
    BY <2>2, <2>3, <1>10 DEF Stacked
<1>17. DropsMatch(r)
  <2>1. DropsMatch(m)
    BY DEF WellFormed
  <2>2. \A i \in DOMAIN m.live : m.live[i].dyn # 0 => (i <= L <=> m.live[i].dyn <= D)
    BY <2>1, <1>2 DEF DropsMatch, mark, L, D
  <2>3. \A i \in 1 .. L : m.live[i].dyn # 0 => m.live[i].dyn \in 1 .. D
    <3> SUFFICES ASSUME NEW i \in 1 .. L, m.live[i].dyn # 0
                 PROVE  m.live[i].dyn \in 1 .. D
      OBVIOUS
    <3>1. i \in DOMAIN m.live /\ i <= L
      BY <1>2, <1>11
    <3>2. m.live[i].dyn \in DOMAIN m.dynamics
      BY <3>1, <2>1 DEF DropsMatch
    <3> QED
      BY <3>1, <3>2, <2>2, <1>1, <1>2, <1>10
  <2>4. \A i \in DOMAIN r.live : r.live[i].dyn # 0 =>
          /\ r.live[i].dyn \in DOMAIN r.dynamics
          /\ r.dynamics[r.live[i].dyn] = [chunk |-> r.live[i].chunk, start |-> r.live[i].start]
    <3> SUFFICES ASSUME NEW i \in 1 .. L, m.live[i].dyn # 0
                 PROVE  /\ m.live[i].dyn \in DOMAIN r.dynamics
                        /\ r.dynamics[m.live[i].dyn]
                             = [chunk |-> m.live[i].chunk, start |-> m.live[i].start]
      BY <1>10
    <3>1. i \in DOMAIN m.live
      BY <1>11
    <3>2. m.dynamics[m.live[i].dyn] = [chunk |-> m.live[i].chunk, start |-> m.live[i].start]
      BY <3>1, <2>1 DEF DropsMatch
    <3> QED
      BY <3>2, <2>3, <1>10
  <2>5. \A j \in DOMAIN r.dynamics : \E i \in DOMAIN r.live : r.live[i].dyn = j
    <3> SUFFICES ASSUME NEW j \in 1 .. D
                 PROVE  \E i \in 1 .. L : r.live[i].dyn = j
      BY <1>10
    <3>1. j \in DOMAIN m.dynamics /\ j # 0 /\ j <= D
      BY <1>2, <1>11
    <3>2. PICK i \in DOMAIN m.live : m.live[i].dyn = j
      BY <3>1, <2>1 DEF DropsMatch
    <3>3. i \in 1 .. L
      BY <3>1, <3>2, <2>2, <1>1, <1>2, <1>10
    <3> QED
      BY <3>2, <3>3, <1>10
  <2>6. \A i, j \in DOMAIN r.live : r.live[i].dyn # 0 /\ r.live[i].dyn = r.live[j].dyn => i = j
    <3>1. \A i, j \in DOMAIN m.live :
            m.live[i].dyn # 0 /\ m.live[i].dyn = m.live[j].dyn => i = j
      BY <2>1 DEF DropsMatch
    <3> SUFFICES ASSUME NEW i \in 1 .. L, NEW j \in 1 .. L,
                        m.live[i].dyn # 0, m.live[i].dyn = m.live[j].dyn
                 PROVE  i = j
      BY SMTT(20), <1>10
    <3> QED
      BY <3>1, <1>11
  <2>7. \A s \in DOMAIN r.scopes : \A i \in DOMAIN r.live : r.live[i].dyn # 0 =>
          (i <= r.scopes[s].live_len <=> r.live[i].dyn <= r.scopes[s].dynamic_len)
    BY <2>1, <1>10, <1>11 DEF DropsMatch
  <2> QED
    BY <2>4, <2>5, <2>6, <2>7 DEF DropsMatch
<1>18. OutermostBoxed(r)
  <2>1. CASE k = 1
    <3>1. D = 0
      BY <2>1 DEF WellFormed, OutermostBoxed, HasScope, D, mark
    <3>2. r.scopes = <<>> /\ r.dynamics = <<>>
      BY <3>1, <2>1, <1>6, <1>7, <1>9, <1>10, EmptySeq
    <3> QED
      BY <3>2 DEF OutermostBoxed
  <2>2. CASE k # 1
    <3>1. 1 \in 1 .. k - 1 /\ r.scopes # <<>>
      BY <2>2, <1>1, <1>10
    <3> QED
      BY <3>1, <1>10 DEF WellFormed, OutermostBoxed, HasScope
  <2> QED
    BY <2>1, <2>2
<1> QED
  BY <1>9, <1>13, <1>14, <1>15, <1>16, <1>17, <1>18 DEF WellFormed

LEMMA NewMemoryWellFormed == WellFormed(NewMemory)
<1>1. InitialChunk \in Nat
  BY VmMemoryAssumption
<1>2. /\ NewMemory \in Memory
      /\ NewMemory.chunk = 1 /\ DOMAIN NewMemory.chunks = 1 .. 1
      /\ NewMemory.live = <<>> /\ NewMemory.scopes = <<>> /\ NewMemory.dynamics = <<>>
  BY <1>1 DEF NewMemory, Memory
<1> QED
  BY <1>2 DEF WellFormed, MarksInOrder, InBounds, Stacked, NoOverlap, DropsMatch, OutermostBoxed

\* r is m with, perhaps, one more block.
Grown(m, r) ==
  /\ WellFormed(r)
  /\ r.scopes = m.scopes
  /\ Len(r.live) >= Len(m.live)
  /\ r.last \in 0 .. Len(r.live)

(* The public alloc_dynamic, inside a scope or outside. *)
LEMMA AllocValueGrown ==
  ASSUME NEW m, WellFormed(m)
  PROVE  Grown(m, AllocValue(m))
<1>1. Len(m.live) \in Nat /\ m \in Memory
  BY WellFormedLayout, MemoryTypes
<1>2. CASE HasScope(m)
  BY <1>1, <1>2, AllocDynamicWellFormed DEF AllocValue, Grown
<1>3. CASE ~HasScope(m)
  <2>1. AllocValue(m) = [m EXCEPT !.last = 0]
    BY <1>3 DEF AllocValue
  <2>2. /\ [m EXCEPT !.last = 0].live = m.live /\ [m EXCEPT !.last = 0].scopes = m.scopes
        /\ [m EXCEPT !.last = 0].last = 0
    BY <1>1 DEF Memory
  <2> QED
    BY <2>1, <2>2, <1>1, ForgetWellFormed DEF Grown
<1> QED
  BY <1>2, <1>3

LEMMA AllocBytesGrown ==
  ASSUME NEW m, WellFormed(m), NEW size \in ByteSizes
  PROVE  Grown(m, AllocBytes(m, size))
<1>1. Len(m.live) \in Nat
  BY WellFormedLayout, MemoryTypes
<1> QED
  BY <1>1, AllocBytesWellFormed DEF Grown

LEMMA GrownTransitive ==
  ASSUME NEW m, NEW q, NEW r, Len(m.live) \in Nat, Grown(m, q), Grown(q, r)
  PROVE  Grown(m, r)
<1>1. Len(q.live) \in Nat /\ Len(r.live) \in Nat
  BY WellFormedLayout, MemoryTypes DEF Grown
<1> QED
  BY <1>1 DEF Grown

-----------------------------------------------------------------------------
(* The thread *)

LEMMA StateTypes ==
  ASSUME TypeOK
  PROVE  /\ frames \in Seq(Frame) /\ Depth \in Nat /\ DOMAIN frames = 1 .. Depth
         /\ Running <=> Depth # 0
         /\ \A i \in 1 .. Depth : frames[i] \in Frame /\ frames[i].refs \subseteq Nat
<1>1. frames \in Seq(Frame)
  BY DEF TypeOK
<1>2. \A i \in 1 .. Depth : frames[i] \in Frame
  BY <1>1 DEF Depth
<1> QED
  BY <1>1, <1>2, EmptySeq DEF Depth, Running, Frame

\* fs and gs have the same functions, with the same pointers.
SamePointers(fs, gs) ==
  /\ gs \in Seq(Frame) /\ Len(gs) = Len(fs)
  /\ \A i \in 1 .. Len(fs) : gs[i].refs = fs[i].refs

(* Forgetting "last" or noting a fault changes no pointer. *)
LEMMA SamePointersReach ==
  ASSUME NEW fs \in Seq(Frame), NEW gs, SamePointers(fs, gs), NEW m, Reaches(fs, m)
  PROVE  Reaches(gs, m)
<1>1. DOMAIN fs = 1 .. Len(fs) /\ DOMAIN gs = 1 .. Len(fs)
  BY DEF SamePointers
<1> QED
  BY <1>1 DEF Reaches, SamePointers

LEMMA MarkFaulted ==
  ASSUME NEW fs \in Seq(Frame), fs # <<>>
  PROVE  SamePointers(fs, [fs EXCEPT ![Len(fs)].faulted = TRUE])
<1> DEFINE n == Len(fs)
           f == [fs[n] EXCEPT !.faulted = TRUE]
           gs == [fs EXCEPT ![n] = f]
<1>1. n \in Nat \ {0} /\ n \in DOMAIN fs /\ DOMAIN fs = 1 .. n
  BY EmptySeq
<1>2. fs[n] \in Frame
  BY <1>1
<1>3. f \in Frame /\ f.refs = fs[n].refs
  BY <1>2 DEF Frame
<1> HIDE DEF f, n
<1>4. gs \in Seq(Frame) /\ Len(gs) = Len(fs)
  BY <1>1, <1>3, ExceptSeq
<1>5. \A i \in 1 .. Len(fs) : gs[i].refs = fs[i].refs
  BY <1>1, <1>3
<1>6. gs = [fs EXCEPT ![Len(fs)].faulted = TRUE]
  BY DEF f, n
<1> HIDE DEF gs
<1> QED
  BY <1>4, <1>5, <1>6 DEF SamePointers

LEMMA InheritSame ==
  ASSUME NEW fs \in Seq(Frame), NEW faulted \in BOOLEAN
  PROVE  SamePointers(fs, Inherit(fs, faulted))
<1>1. SamePointers(fs, fs)
  BY DEF SamePointers
<1> QED
  BY <1>1, MarkFaulted DEF Inherit

-----------------------------------------------------------------------------
(* Arena and functions together, as values: what one step makes of them.   *)

\* The functions fs fit the arena m.
Fitting(fs, m) ==
  /\ fs \in Seq(Frame)
  /\ WellFormed(m)
  /\ Len(m.scopes) = Len(fs)
  /\ Reaches(fs, m)

LEMMA ForgetFitting ==
  ASSUME NEW fs, NEW m, Fitting(fs, m)
  PROVE  Fitting(fs, [m EXCEPT !.last = 0])
<1> DEFINE r == [m EXCEPT !.last = 0]
<1>1. WellFormed(r)
  BY ForgetWellFormed DEF Fitting
<1>2. m \in Memory
  BY WellFormedLayout DEF Fitting
<1>3. r.live = m.live /\ r.scopes = m.scopes
  BY <1>2 DEF Memory
<1> HIDE DEF r
<1>4. Fitting(fs, r)
  BY <1>1, <1>3 DEF Fitting, Reaches
<1> QED
  BY <1>4 DEF r

LEMMA GrownFitting ==
  ASSUME NEW fs, NEW m, Fitting(fs, m), NEW r, Grown(m, r)
  PROVE  Fitting(fs, r)
<1>1. /\ fs \in Seq(Frame) /\ WellFormed(m) /\ WellFormed(r) /\ r.scopes = m.scopes
      /\ Len(m.scopes) = Len(fs) /\ Len(r.live) >= Len(m.live)
  BY DEF Fitting, Grown
<1>2. Len(m.live) \in Nat /\ Len(r.live) \in Nat
  BY <1>1, WellFormedLayout, MemoryTypes
<1>3. Reaches(fs, r)
  <2> SUFFICES ASSUME NEW i \in DOMAIN fs
               PROVE  fs[i].refs \subseteq
                        1 .. (IF i < Len(fs) THEN r.scopes[i + 1].live_len ELSE Len(r.live))
    BY DEF Reaches
  <2>1. fs[i].refs \subseteq
          1 .. (IF i < Len(fs) THEN m.scopes[i + 1].live_len ELSE Len(m.live))
    BY DEF Fitting, Reaches
  <2>2. CASE i < Len(fs)
    BY <2>1, <2>2, <1>1
  <2>3. CASE ~(i < Len(fs))
    BY <2>1, <2>3, <1>1, <1>2
  <2> QED
    BY <2>2, <2>3
<1> QED
  BY <1>1, <1>3 DEF Fitting

(* The innermost function learns the block just handed out. *)
LEMMA LearnsFitting ==
  ASSUME NEW fs, NEW m, Fitting(fs, m), m.last \in 0 .. Len(m.live)
  PROVE  Fitting(Learns(fs, m), m) /\ Len(Learns(fs, m)) = Len(fs)
<1>1. CASE fs = <<>> \/ m.last = 0
  BY <1>1 DEF Learns
<1>2. CASE fs # <<>> /\ m.last # 0
  <2> DEFINE n  == Len(fs)
             f  == [fs[n] EXCEPT !.refs = @ \cup {m.last}]
             gs == [fs EXCEPT ![n] = f]
  <2>1. fs \in Seq(Frame) /\ n \in Nat \ {0} /\ n \in 1 .. Len(fs) /\ DOMAIN fs = 1 .. n
    BY <1>2, EmptySeq DEF Fitting
  <2>2. fs[n] \in Frame
    BY <2>1
  <2>3. f \in Frame /\ f.refs = fs[n].refs \cup {m.last}
    BY <2>2 DEF Frame
  <2>4. Learns(fs, m) = gs
    BY <1>2 DEF Learns
  <2>5. fs[n].refs \subseteq 1 .. Len(m.live)
    BY <2>1 DEF Fitting, Reaches
  <2> HIDE DEF f, n
  <2>6. /\ gs \in Seq(Frame) /\ Len(gs) = Len(fs) /\ DOMAIN gs = DOMAIN fs
        /\ gs[n] = f /\ \A i \in DOMAIN fs : i # n => gs[i] = fs[i]
    BY <2>1, <2>3, ExceptSeq
  <2> HIDE DEF gs
  <2>7. f.refs \subseteq 1 .. Len(m.live)
    BY <1>2, <2>3, <2>5
  <2>8. Reaches(gs, m)
    <3> SUFFICES ASSUME NEW i \in DOMAIN fs
                 PROVE  gs[i].refs \subseteq
                          1 .. (IF i < n THEN m.scopes[i + 1].live_len ELSE Len(m.live))
      BY <2>6 DEF Reaches, n
    <3>1. CASE i = n
      BY <3>1, <2>1, <2>6, <2>7
    <3>2. CASE i # n
      BY <3>2, <2>6 DEF Fitting, Reaches, n
    <3> QED
      BY <3>1, <3>2
  <2> QED
    BY <2>4, <2>6, <2>8 DEF Fitting
<1> QED
  BY <1>1, <1>2

(* Any step that hands out at most one block and tells the running         *)
(* function.                                                               *)
LEMMA SettleFitting ==
  ASSUME NEW fs, NEW m, Fitting(fs, m), NEW r, Grown(m, r)
  PROVE  Fitting(Learns(fs, r), [r EXCEPT !.last = 0])
<1>1. Fitting(fs, r) /\ r.last \in 0 .. Len(r.live)
  BY GrownFitting DEF Grown
<1>2. Fitting(Learns(fs, r), r)
  BY <1>1, LearnsFitting
<1> QED
  BY <1>2, ForgetFitting

(* scope_exit closes the scope of the innermost function: its caller's     *)
(* pointers all lie below the mark.                                        *)
LEMMA ExitFitting ==
  ASSUME NEW fs, NEW m, Fitting(fs, m), fs # <<>>
  PROVE  Fitting(Caller(fs), ExitScope(m)) /\ HasScope(m)
<1> DEFINE n  == Len(fs)
           gs == Caller(fs)
           q  == ExitScope(m)
<1>1. /\ fs \in Seq(Frame) /\ WellFormed(m) /\ Len(m.scopes) = n
      /\ n \in Nat \ {0} /\ DOMAIN fs = 1 .. n
  BY EmptySeq DEF Fitting
<1>2. HasScope(m)
  BY <1>1, EmptySeq DEF HasScope
<1>3. /\ gs \in Seq(Frame) /\ Len(gs) = n - 1 /\ DOMAIN gs = 1 .. n - 1
      /\ \A i \in 1 .. n - 1 : gs[i] = fs[i]
  BY <1>1 DEF Caller
<1>4. /\ WellFormed(q) /\ Len(q.scopes) = n - 1
      /\ \A s \in 1 .. n - 1 : q.scopes[s] = m.scopes[s]
      /\ Len(q.live) = m.scopes[n].live_len
  BY <1>1, <1>2, ExitScopeWellFormed
<1> HIDE DEF gs, q, n
<1>5. Reaches(gs, q)
  <2> SUFFICES ASSUME NEW i \in 1 .. n - 1
               PROVE  gs[i].refs \subseteq
                        1 .. (IF i < n - 1 THEN q.scopes[i + 1].live_len ELSE Len(q.live))
    BY <1>3 DEF Reaches
  <2>1. i \in 1 .. n /\ i < n
    BY <1>1
  <2>2. gs[i].refs \subseteq 1 .. m.scopes[i + 1].live_len
    BY <2>1, <1>1, <1>3 DEF Fitting, Reaches, n
  <2>3. CASE i < n - 1
    <3>1. i + 1 \in 1 .. n - 1
      BY <2>3, <1>1
    <3> QED
      BY <3>1, <2>2, <2>3, <1>4
  <2>4. CASE i = n - 1
    <3>1. i + 1 = n
      BY <2>4, <1>1
    <3> QED
      BY <3>1, <2>2, <2>4, <1>1, <1>4
  <2> QED
    BY <2>3, <2>4, <1>1
<1> QED
  BY <1>2, <1>3, <1>4, <1>5 DEF Fitting, gs, q

(* Every way out of a function: the scope ends, the caller gets the result.*)
LEMMA ScopeExitGrown ==
  ASSUME NEW m, WellFormed(m), HasScope(m), m.last = 0, NEW ret \in Returns
  PROVE  Grown(ExitScope(m), ScopeExit(m, ret)) /\ WellFormed(ExitScope(m))
<1> DEFINE q == ExitScope(m)
<1>1. WellFormed(q) /\ q.last = 0
  BY ExitScopeWellFormed
<1>2. Len(q.live) \in Nat
  BY <1>1, WellFormedLayout, MemoryTypes
<1>3. Grown(q, q)
  BY <1>1, <1>2 DEF Grown
<1>4. ret.kind \in {"scalar", "dynamic", "bytes"} /\ (ret.kind = "bytes" => ret.size \in ByteSizes)
  BY DEF Returns
<1>5. CASE ret.kind = "scalar"
  BY <1>1, <1>3, <1>5 DEF ScopeExit
<1>6. CASE ret.kind = "dynamic"
  <2>1. ScopeExit(m, ret) = AllocValue(q)
    BY <1>6 DEF ScopeExit, ScopeExitDynamic
  <2> QED
    BY <2>1, <1>1, AllocValueGrown
<1>7. CASE ret.kind = "bytes"
  <2>1. ScopeExit(m, ret) = AllocBytes(q, ret.size)
    BY <1>7 DEF ScopeExit, ScopeExitBytes
  <2> QED
    BY <2>1, <1>1, <1>4, <1>7, AllocBytesGrown
<1> QED
  BY <1>4, <1>5, <1>6, <1>7

(* scope_enter: the caller's pointers lie below the new mark.              *)
LEMMA EnterFitting ==
  ASSUME NEW fs, NEW m, Fitting(fs, m), NEW f \in Frame, f.refs = {}
  PROVE  Fitting(Append(fs, f), EnterScope(m)) /\ EnterScope(m).last = m.last
<1> DEFINE n  == Len(fs)
           gs == Append(fs, f)
           q  == EnterScope(m)
<1>1. /\ fs \in Seq(Frame) /\ WellFormed(m) /\ Len(m.scopes) = n
      /\ n \in Nat /\ DOMAIN fs = 1 .. n
  BY DEF Fitting
<1>2. /\ gs \in Seq(Frame) /\ Len(gs) = n + 1 /\ DOMAIN gs = 1 .. n + 1
      /\ gs[n + 1] = f /\ \A i \in 1 .. n : gs[i] = fs[i]
  BY <1>1
<1>3. /\ WellFormed(q) /\ Len(q.scopes) = n + 1 /\ q.live = m.live /\ q.last = m.last
      /\ q.scopes[n + 1].live_len = Len(m.live)
      /\ \A s \in 1 .. n : q.scopes[s] = m.scopes[s]
  BY <1>1, EnterScopeWellFormed
<1> HIDE DEF gs, q, n
<1>4. Reaches(gs, q)
  <2> SUFFICES ASSUME NEW i \in 1 .. n + 1
               PROVE  gs[i].refs \subseteq
                        1 .. (IF i < n + 1 THEN q.scopes[i + 1].live_len ELSE Len(q.live))
    BY <1>2 DEF Reaches
  <2>1. CASE i = n + 1
    BY <2>1, <1>2
  <2>2. CASE i = n /\ i \in 1 .. n
    <3>1. gs[i].refs \subseteq 1 .. Len(m.live)
      BY <2>2, <1>1, <1>2 DEF Fitting, Reaches, n
    <3> QED
      BY <3>1, <2>2, <1>1, <1>3
  <2>3. CASE i \in 1 .. n - 1
    <3>1. i \in 1 .. n /\ i + 1 \in 1 .. n /\ i < n /\ i < n + 1
      BY <2>3, <1>1
    <3>2. gs[i].refs \subseteq 1 .. m.scopes[i + 1].live_len
      BY <3>1, <1>1, <1>2 DEF Fitting, Reaches, n
    <3> QED
      BY <3>1, <3>2, <1>3
  <2> QED
    BY <2>1, <2>2, <2>3, <1>1
<1> QED
  BY <1>2, <1>3, <1>4 DEF Fitting, gs, q

(* A function that saw a fault passes it to its caller: no pointer moves.  *)
LEMMA SameFitting ==
  ASSUME NEW fs, NEW gs, NEW m, Fitting(fs, m), SamePointers(fs, gs)
  PROVE  Fitting(gs, m)
BY SamePointersReach DEF Fitting, SamePointers

-----------------------------------------------------------------------------
(* The inductive invariant. *)

\* The types of what the arena and the functions do not touch.
RestOK ==
  /\ fuel \in Nat \cup {-1} /\ quota \in Nat \cup {-1} /\ granted \in Nat
  /\ fault \in BOOLEAN
  /\ send_stack \in Seq(Paths)
  /\ outcome \in Outcome

LEMMA ArenaInvFits ==
  ASSUME ArenaInv
  PROVE  Fitting(frames, mem) /\ mem.last = 0 /\ RestOK
BY DEF ArenaInv, TypeOK, ScopesBalanced, PointersAlive, Depth, Fitting, RestOK

LEMMA FitsArenaInv ==
  Fitting(frames, mem) /\ mem.last = 0 /\ RestOK => ArenaInv
<1> SUFFICES ASSUME Fitting(frames, mem), mem.last = 0, RestOK
             PROVE  ArenaInv
  OBVIOUS
<1>1. mem \in Memory
  BY WellFormedLayout DEF Fitting
<1> QED
  BY <1>1 DEF ArenaInv, TypeOK, ScopesBalanced, PointersAlive, Depth, Fitting, RestOK

LEMMA ArenaInit == Init => ArenaInv
<1> SUFFICES ASSUME Init PROVE ArenaInv
  OBVIOUS
<1>1. WellFormed(mem) /\ mem.last = 0 /\ mem.scopes = <<>>
  BY NewMemoryWellFormed DEF Init, NewMemory
<1>2. Fitting(frames, mem)
  BY <1>1, EmptySeq DEF Init, Fitting, Reaches
<1>3. RestOK
  <2>1. outcome \in Outcome
    BY DEF Init, Outcome, NoOutcome
  <2>2. send_stack \in Seq(Paths)
    BY DEF Init
  <2> QED
    BY <2>1, <2>2 DEF Init, RestOK
<1> QED
  BY <1>1, <1>2, <1>3, FitsArenaInv

LEMMA OutcomeTypes ==
  /\ NoOutcome \in Outcome
  /\ \A via \in {"isolated", "send"}, ret \in Returns : Taken(via, ret) \in {"none", "dynamic", "bytes"}
<1>1. NoOutcome \in Outcome
  BY DEF NoOutcome, Outcome
<1>2. \A ret \in Returns : ret.kind \in {"scalar", "dynamic", "bytes"}
  BY DEF Returns
<1> QED
  BY <1>1, <1>2 DEF Taken

\* The arena and the functions after a step that allocates at most one block.
Settled ==
  \E r : Grown(mem, r) /\ mem' = [r EXCEPT !.last = 0] /\ frames' = Learns(frames, r)

LEMMA SettledFits ==
  ASSUME ArenaInv, Settled
  PROVE  Fitting(frames', mem') /\ mem'.last = 0
<1>1. PICK r : Grown(mem, r) /\ mem' = [r EXCEPT !.last = 0] /\ frames' = Learns(frames, r)
  BY DEF Settled
<1>2. Fitting(frames', mem')
  BY <1>1, ArenaInvFits, SettleFitting
<1>3. r \in Memory
  BY <1>1, WellFormedLayout DEF Grown
<1> QED
  BY <1>1, <1>2, <1>3 DEF Memory

LEMMA EnterFits ==
  ASSUME ArenaInv, NEW via \in {"direct", "isolated", "send"}, NEW ret \in Returns,
         Enter(via, ret)
  PROVE  Fitting(frames', mem') /\ mem'.last = 0
<1> DEFINE f == [via |-> via, ret |-> ret, refs |-> {}, faulted |-> FALSE]
<1>1. f \in Frame /\ f.refs = {}
  BY DEF Frame
<1>2. mem' = EnterScope(mem) /\ frames' = Append(frames, f)
  BY DEF Enter
<1> QED
  BY <1>1, <1>2, ArenaInvFits, EnterFitting

\* Back from the innermost function: the arena m it left, the callers fs, one
\* of which may have been told of a fault.
LEMMA ReturnFits ==
  ASSUME ArenaInv, Running, NEW r, NEW fs,
         Grown(ExitScope(mem), r), SamePointers(Caller(frames), fs),
         mem' = [r EXCEPT !.last = 0], frames' = Learns(fs, r)
  PROVE  Fitting(frames', mem') /\ mem'.last = 0
<1>1. Fitting(Caller(frames), ExitScope(mem))
  BY ArenaInvFits, ExitFitting DEF Running
<1>2. Fitting(fs, ExitScope(mem))
  BY <1>1, SameFitting
<1>3. Fitting(frames', mem')
  BY <1>2, SettleFitting
<1>4. r \in Memory
  BY WellFormedLayout DEF Grown
<1> QED
  BY <1>3, <1>4 DEF Memory

LEMMA ArenaStep == ArenaInv /\ [Next]_vars => ArenaInv'
<1>0. Fitting(frames', mem') /\ mem'.last = 0 /\ RestOK' => ArenaInv'
  <2>1. (Fitting(frames, mem) /\ mem.last = 0 /\ RestOK)' => ArenaInv'
    BY FitsArenaInv, PTL
  <2> QED
    BY <2>1
<1> SUFFICES ASSUME ArenaInv, [Next]_vars
             PROVE  Fitting(frames', mem') /\ mem'.last = 0 /\ RestOK'
  BY <1>0
<1>1. /\ Fitting(frames, mem) /\ mem.last = 0 /\ RestOK /\ WellFormed(mem)
      /\ frames \in Seq(Frame) /\ fault \in BOOLEAN
  BY ArenaInvFits DEF Fitting, RestOK
<1>2. ASSUME NEW ret \in Returns, CallFn(ret)
      PROVE  Fitting(frames', mem') /\ mem'.last = 0 /\ RestOK'
  <2>1. Fitting(frames', mem') /\ mem'.last = 0
    BY <1>2, EnterFits DEF CallFn
  <2>2. RestOK'
    BY <1>1, <1>2, OutcomeTypes DEF CallFn, Enter, RestOK
  <2> QED
    BY <2>1, <2>2
<1>3. ASSUME NEW ret \in Returns, CallIsolated(ret)
      PROVE  Fitting(frames', mem') /\ mem'.last = 0 /\ RestOK'
  <2>1. Fitting(frames', mem') /\ mem'.last = 0
    BY <1>3, EnterFits DEF CallIsolated
  <2>2. RestOK'
    BY <1>1, <1>3, OutcomeTypes DEF CallIsolated, Enter, RestOK
  <2> QED
    BY <2>1, <2>2
<1>4. ASSUME NEW path \in Paths, NEW ret \in Returns, CallSend(path, ret)
      PROVE  Fitting(frames', mem') /\ mem'.last = 0 /\ RestOK'
  <2>1. Fitting(frames', mem') /\ mem'.last = 0
    BY <1>4, EnterFits DEF CallSend
  <2>2. send_stack' \in Seq(Paths)
    BY <1>1, <1>4 DEF CallSend, RestOK
  <2>3. RestOK'
    BY <1>1, <1>4, <2>2, OutcomeTypes DEF CallSend, Enter, RestOK
  <2> QED
    BY <2>1, <2>3
<1>5. ASSUME NEW path \in Paths, SendRefused(path)
      PROVE  Fitting(frames', mem') /\ mem'.last = 0 /\ RestOK'
  <2>1. Settled
    BY <1>1, <1>5, AllocValueGrown DEF SendRefused, Leaves, Settled
  <2>2. RestOK'
    BY <1>1, <1>5, OutcomeTypes DEF SendRefused, RestOK
  <2> QED
    BY <2>1, <2>2, SettledFits
<1>6. CASE CallbackRefused
  <2>1. Settled
    BY <1>1, <1>6, AllocValueGrown DEF CallbackRefused, Leaves, Settled
  <2>2. RestOK'
    BY <1>1, <1>6, OutcomeTypes DEF CallbackRefused, RestOK
  <2> QED
    BY <2>1, <2>2, SettledFits
<1>7. ASSUME NEW q \in Quotas, SetFuel(q)
      PROVE  Fitting(frames', mem') /\ mem'.last = 0 /\ RestOK'
  BY <1>1, <1>7, OutcomeTypes, ScriptThreadAssumption DEF SetFuel, RestOK
<1>8. CASE NewDynamic
  <2>1. Settled
    BY <1>1, <1>8, AllocValueGrown DEF NewDynamic, Leaves, Settled
  <2>2. RestOK'
    BY <1>1, <1>8, OutcomeTypes DEF NewDynamic, RestOK
  <2> QED
    BY <2>1, <2>2, SettledFits
<1>9. ASSUME NEW size \in ByteSizes, NewStruct(size)
      PROVE  Fitting(frames', mem') /\ mem'.last = 0 /\ RestOK'
  <2>1. Settled
    BY <1>1, <1>9, AllocBytesGrown DEF NewStruct, Leaves, Settled
  <2>2. RestOK'
    BY <1>1, <1>9, OutcomeTypes DEF NewStruct, RestOK
  <2> QED
    BY <2>1, <2>2, SettledFits
<1>10. CASE RaiseFault
  <2>1. mem' = mem /\ SamePointers(frames, frames')
    BY <1>1, <1>10, MarkFaulted DEF RaiseFault, Running, Depth
  <2>2. RestOK'
    BY <1>1, <1>10, OutcomeTypes DEF RaiseFault, RestOK
  <2> QED
    BY <2>1, <2>2, <1>1, SameFitting
<1>11. CASE FuelCheck
  <2>1. mem' = mem /\ (frames' = frames \/ SamePointers(frames, frames'))
    BY <1>1, <1>11, MarkFaulted DEF FuelCheck, Running, Depth
  <2>2. fuel' \in Nat \cup {-1}
    BY <1>1, <1>11 DEF FuelCheck, FuelAfter, RestOK
  <2>3. granted' \in Nat
    BY <1>1, <1>11 DEF FuelCheck, Counted, RestOK
  <2>4. RestOK'
    BY <1>1, <1>11, <2>2, <2>3, OutcomeTypes DEF FuelCheck, RestOK
  <2> QED
    BY <2>1, <2>4, <1>1, SameFitting
<1>12. ASSUME Running
       PROVE  LET f == frames[Depth]
              IN  /\ f \in Frame
                  /\ Grown(ExitScope(mem), ScopeExit(mem, f.ret))
                  /\ Grown(ExitScope(mem), AllocValue(ScopeExit(mem, f.ret)))
                  /\ Caller(frames) \in Seq(Frame)
                  /\ SamePointers(Caller(frames), Caller(frames))
                  /\ SamePointers(Caller(frames), Inherit(Caller(frames), f.faulted))
  <2> DEFINE f == frames[Depth]
  <2>1. HasScope(mem) /\ Fitting(Caller(frames), ExitScope(mem))
    BY <1>1, <1>12, ExitFitting DEF Running
  <2>2. f \in Frame
    BY <1>1, <1>12, EmptySeq DEF Running, Depth
  <2>3. f.ret \in Returns /\ f.faulted \in BOOLEAN
    BY <2>2 DEF Frame
  <2> HIDE DEF f
  <2>4. Grown(ExitScope(mem), ScopeExit(mem, f.ret)) /\ WellFormed(ExitScope(mem))
    BY <1>1, <2>1, <2>3, ScopeExitGrown
  <2>5. Grown(ScopeExit(mem, f.ret), AllocValue(ScopeExit(mem, f.ret)))
    BY <2>4, AllocValueGrown DEF Grown
  <2>6. Len(ExitScope(mem).live) \in Nat
    BY <2>4, WellFormedLayout, MemoryTypes
  <2>7. Grown(ExitScope(mem), AllocValue(ScopeExit(mem, f.ret)))
    BY <2>4, <2>5, <2>6, GrownTransitive
  <2>8. Caller(frames) \in Seq(Frame)
    BY <2>1 DEF Fitting
  <2>9. SamePointers(Caller(frames), Caller(frames))
    BY <2>8 DEF SamePointers
  <2> QED
    BY <2>2, <2>3, <2>4, <2>7, <2>8, <2>9, InheritSame DEF f
<1>13. CASE ReturnDirect
  <2>1. Running
    BY <1>13 DEF ReturnDirect
  <2>2. Fitting(frames', mem') /\ mem'.last = 0
    BY <1>12, <1>13, <2>1, ReturnFits DEF ReturnDirect, Leaves
  <2>3. RestOK'
    BY <1>1, <1>13, OutcomeTypes DEF ReturnDirect, RestOK
  <2> QED
    BY <2>2, <2>3
<1>14. CASE ReturnIsolated
  <2>1. Running
    BY <1>14 DEF ReturnIsolated
  <2>2. Fitting(frames', mem') /\ mem'.last = 0
    BY <1>12, <1>14, <2>1, ReturnFits DEF ReturnIsolated, Leaves
  <2>3. outcome' \in Outcome
    BY <1>1, <1>12, <1>14, <2>1, OutcomeTypes DEF ReturnIsolated, Outcome, Frame
  <2>4. RestOK'
    BY <1>1, <1>14, <2>3 DEF ReturnIsolated, RestOK
  <2> QED
    BY <2>2, <2>4
<1>15. CASE ReturnSend
  <2>1. Running
    BY <1>15 DEF ReturnSend
  <2>2. Fitting(frames', mem') /\ mem'.last = 0
    BY <1>12, <1>15, <2>1, ReturnFits DEF ReturnSend, Leaves
  <2>3. outcome' \in Outcome
    BY <1>1, <1>12, <1>15, <2>1, OutcomeTypes DEF ReturnSend, Outcome, Frame
  <2>4. send_stack' \in Seq(Paths)
    <3>1. send_stack \in Seq(Paths) /\ Len(send_stack) - 1 <= Len(send_stack)
      BY <1>1 DEF RestOK
    <3>2. send_stack' = SubSeq(send_stack, 1, Len(send_stack) - 1)
      BY <1>15 DEF ReturnSend, Popped
    <3> QED
      BY <3>1, <3>2
  <2>5. RestOK'
    BY <1>1, <1>15, <2>3, <2>4 DEF ReturnSend, RestOK
  <2> QED
    BY <2>2, <2>5
<1>16. CASE UNCHANGED vars
  BY <1>1, <1>16 DEF vars, RestOK
<1> QED
  BY <1>2, <1>3, <1>4, <1>5, <1>6, <1>7, <1>8, <1>9, <1>10, <1>11, <1>13, <1>14, <1>15,
     <1>16 DEF Next

(* ArenaInv holds in every reachable state. *)
THEOREM ArenaInvariant == Spec => []ArenaInv
BY ArenaInit, ArenaStep, PTL DEF Spec

(* The variables keep their types. *)
THEOREM TypeCorrect == Spec => []TypeOK
<1>1. ArenaInv => TypeOK
  BY DEF ArenaInv
<1> QED
  BY <1>1, ArenaInvariant, PTL

(* No two blocks a script can reach overlap, and none leaves its chunk, for *)
(* any nesting of functions, callbacks and sends (memory.rs).               *)
THEOREM ArenaIsSound == Spec => []ArenaSound
<1>1. ArenaInv => ArenaSound
  BY DEF ArenaInv, WellFormed, ArenaSound
<1> QED
  BY <1>1, ArenaInvariant, PTL

(* exit_scope drops each Dynamic of its scope once (memory.rs).             *)
THEOREM DropsOnce == Spec => []EachDroppedOnce
<1>1. ArenaInv => EachDroppedOnce
  BY DEF ArenaInv, WellFormed, EachDroppedOnce
<1> QED
  BY <1>1, ArenaInvariant, PTL

(* There is one open scope for each running function.                       *)
THEOREM Balanced == Spec => []ScopesBalanced
<1>1. ArenaInv => ScopesBalanced
  BY DEF ArenaInv
<1> QED
  BY <1>1, ArenaInvariant, PTL

(* A pointer a function holds is alive until its scope ends.                *)
THEOREM PointersStayAlive == Spec => []PointersAlive
<1>1. ArenaInv => PointersAlive
  BY DEF ArenaInv
<1> QED
  BY <1>1, ArenaInvariant, PTL

(* Between host calls the arena holds no Dynamic (README.md).               *)
THEOREM NoGrowth == Spec => []NoDynamicGrowth
<1>1. ArenaInv => NoDynamicGrowth
  <2> SUFFICES ASSUME ArenaInv, ~Running PROVE mem.dynamics = <<>>
    BY DEF NoDynamicGrowth
  <2>1. mem \in Memory /\ Len(mem.scopes) = 0 /\ OutermostBoxed(mem)
    BY EmptySeq DEF ArenaInv, WellFormed, ScopesBalanced, Depth, Running
  <2>2. mem.scopes \in Seq(ScopeMark)
    BY <2>1, MemoryTypes
  <2>3. mem.scopes = <<>>
    BY <2>1, <2>2, EmptySeq
  <2> QED
    BY <2>1, <2>3 DEF OutermostBoxed
<1> QED
  BY <1>1, ArenaInvariant, PTL

-----------------------------------------------------------------------------
(* root::send: the stack of paths. *)

(* A path is pushed only when it is not there and the stack is not full.    *)
THEOREM SendsDistinct == Spec => []PathsOnce
<1>1. Init => PathsOnce
  BY ScriptThreadAssumption DEF Init, PathsOnce
<1>2. ArenaInv /\ PathsOnce /\ [Next]_vars => PathsOnce'
  <2> SUFFICES ASSUME ArenaInv, PathsOnce, [Next]_vars PROVE PathsOnce'
    OBVIOUS
  <2>1. send_stack \in Seq(Paths) /\ Len(send_stack) \in Nat /\ SendLimit \in Nat
        /\ DOMAIN send_stack = 1 .. Len(send_stack)
    BY ScriptThreadAssumption DEF ArenaInv, TypeOK
  <2>2. ASSUME NEW path \in Paths, NEW ret \in Returns, CallSend(path, ret)
        PROVE  PathsOnce'
    <3>1. /\ send_stack' = Append(send_stack, path) /\ Len(send_stack) < SendLimit
          /\ \A i \in DOMAIN send_stack : send_stack[i] # path
      BY <2>2 DEF CallSend, SendAllowed
    <3>2. /\ Len(send_stack') = Len(send_stack) + 1
          /\ DOMAIN send_stack' = 1 .. Len(send_stack) + 1
          /\ send_stack'[Len(send_stack) + 1] = path
          /\ \A i \in 1 .. Len(send_stack) : send_stack'[i] = send_stack[i]
      BY <2>1, <3>1
    <3>3. \A i \in DOMAIN send_stack' : i \in DOMAIN send_stack \/ i = Len(send_stack) + 1
      BY <2>1, <3>2
    <3>4. \A i, j \in DOMAIN send_stack' : i # j => send_stack'[i] # send_stack'[j]
      <4> SUFFICES ASSUME NEW i \in DOMAIN send_stack', NEW j \in DOMAIN send_stack', i # j
                   PROVE  send_stack'[i] # send_stack'[j]
        OBVIOUS
      <4>1. CASE i \in DOMAIN send_stack /\ j \in DOMAIN send_stack
        BY <4>1, <2>1, <3>2 DEF PathsOnce
      <4>2. CASE i = Len(send_stack) + 1
        BY <4>2, <2>1, <3>1, <3>2, <3>3
      <4>3. CASE j = Len(send_stack) + 1
        BY <4>3, <2>1, <3>1, <3>2, <3>3
      <4> QED
        BY <4>1, <4>2, <4>3, <3>3
    <3> QED
      BY <2>1, <3>1, <3>2, <3>4 DEF PathsOnce
  <2>3. CASE ReturnSend
    <3>1. send_stack' = SubSeq(send_stack, 1, Len(send_stack) - 1)
      BY <2>3 DEF ReturnSend, Popped
    <3>2. CASE Len(send_stack) = 0
      <4>1. send_stack' = <<>>
        BY <3>1, <3>2, <2>1
      <4> QED
        BY <4>1, <2>1 DEF PathsOnce
    <3>3. CASE Len(send_stack) # 0
      <4>1. /\ Len(send_stack') = Len(send_stack) - 1
            /\ DOMAIN send_stack' = 1 .. Len(send_stack) - 1
            /\ \A i \in 1 .. Len(send_stack) - 1 : send_stack'[i] = send_stack[i]
        BY <3>1, <3>3, <2>1
      <4>2. 1 .. Len(send_stack) - 1 \subseteq DOMAIN send_stack
        BY <2>1
      <4> QED
        BY <4>1, <4>2, <2>1 DEF PathsOnce
    <3> QED
      BY <3>2, <3>3
  <2>4. ASSUME UNCHANGED send_stack PROVE PathsOnce'
    BY <2>4 DEF PathsOnce
  <2> QED
    BY <2>2, <2>3, <2>4 DEF Next, vars, CallFn, CallIsolated, SendRefused, CallbackRefused,
       SetFuel, NewDynamic, NewStruct, RaiseFault, FuelCheck, ReturnDirect, ReturnIsolated
<1> QED
  BY <1>1, <1>2, ArenaInvariant, PTL DEF Spec

-----------------------------------------------------------------------------
(* The quota. *)

(* Until the quota is used up, each iteration has cost one unit of it.      *)
THEOREM QuotaIsConserved == Spec => []QuotaConserved
<1>1. Init => QuotaInv
  BY DEF Init, QuotaInv
<1>2. ArenaInv /\ QuotaInv /\ [Next]_vars => QuotaInv'
  <2> SUFFICES ASSUME ArenaInv, QuotaInv, [Next]_vars PROVE QuotaInv'
    OBVIOUS
  <2>1. fuel \in Nat \cup {-1} /\ quota \in Nat \cup {-1} /\ granted \in Nat
    BY DEF ArenaInv, TypeOK
  <2>2. ASSUME NEW q \in Quotas, SetFuel(q) PROVE QuotaInv'
    BY <2>2, ScriptThreadAssumption DEF SetFuel, QuotaInv
  <2>3. CASE FuelCheck
    BY <2>1, <2>3 DEF FuelCheck, FuelAfter, Counted, QuotaInv
  <2>4. ASSUME UNCHANGED <<fuel, quota, granted>> PROVE QuotaInv'
    BY <2>4 DEF QuotaInv
  <2> QED
    BY <2>2, <2>3, <2>4 DEF Next, vars, CallFn, CallIsolated, CallSend, Enter, SendRefused,
       CallbackRefused, NewDynamic, NewStruct, RaiseFault, ReturnDirect, ReturnIsolated,
       ReturnSend
<1>3. QuotaInv => QuotaConserved
  BY DEF QuotaInv, QuotaConserved
<1> QED
  BY <1>1, <1>2, <1>3, ArenaInvariant, PTL DEF Spec

-----------------------------------------------------------------------------
(* The fault flag. *)

\* gs are the functions fs, some of which may have seen one fault more.
MoreFaulted(fs, gs) ==
  /\ DOMAIN gs = DOMAIN fs
  /\ \A i \in DOMAIN fs : gs[i].via = fs[i].via /\ (fs[i].faulted => gs[i].faulted)

LEMMA MoreFaultedSeen ==
  ASSUME NEW fs, NEW gs, MoreFaulted(fs, gs), FaultSeen(fs)
  PROVE  FaultSeen(gs)
BY DEF MoreFaulted, FaultSeen

LEMMA LearnsMoreFaulted ==
  ASSUME NEW fs \in Seq(Frame), NEW m
  PROVE  MoreFaulted(fs, Learns(fs, m))
<1> DEFINE n == Len(fs)
           f == [fs[n] EXCEPT !.refs = @ \cup {m.last}]
<1>1. CASE fs = <<>> \/ m.last = 0
  BY <1>1 DEF Learns, MoreFaulted
<1>2. CASE fs # <<>> /\ m.last # 0
  <2>1. n \in DOMAIN fs /\ fs[n] \in Frame
    BY <1>2, EmptySeq
  <2>2. f.via = fs[n].via /\ f.faulted = fs[n].faulted
    BY <2>1 DEF Frame
  <2>3. Learns(fs, m) = [fs EXCEPT ![n] = f]
    BY <1>2 DEF Learns
  <2> HIDE DEF f, n
  <2> QED
    BY <2>1, <2>2, <2>3 DEF MoreFaulted
<1> QED
  BY <1>1, <1>2

\* The innermost function notes a fault.
LEMMA MarkSeen ==
  ASSUME NEW fs \in Seq(Frame), fs # <<>>
  PROVE  LET gs == [fs EXCEPT ![Len(fs)].faulted = TRUE]
         IN  MoreFaulted(fs, gs) /\ FaultSeen(gs)
<1> DEFINE n  == Len(fs)
           f  == [fs[n] EXCEPT !.faulted = TRUE]
           gs == [fs EXCEPT ![n] = f]
<1>1. n \in DOMAIN fs /\ fs[n] \in Frame /\ n \in Nat /\ DOMAIN fs = 1 .. n
  BY EmptySeq
<1>2. f.via = fs[n].via /\ f.faulted = TRUE
  BY <1>1 DEF Frame
<1>3. gs = [fs EXCEPT ![Len(fs)].faulted = TRUE]
  OBVIOUS
<1> HIDE DEF f, n
<1>4. MoreFaulted(fs, gs)
  BY <1>1, <1>2 DEF MoreFaulted
<1>5. /\ n \in DOMAIN gs /\ gs[n].faulted
      /\ \A k \in DOMAIN gs : ~(k > n)
  BY <1>1, <1>2
<1>6. FaultSeen(gs)
  <2> HIDE DEF gs
  <2> QED
    BY <1>5 DEF FaultSeen
<1> HIDE DEF gs
<1> QED
  BY <1>3, <1>4, <1>6

(* A function with no boundary passes what it saw to its caller.           *)
LEMMA InheritSeen ==
  ASSUME NEW fs \in Seq(Frame), fs # <<>>, FaultSeen(fs), fs[Len(fs)].via # "isolated"
  PROVE  FaultSeen(Inherit(Caller(fs), fs[Len(fs)].faulted))
<1> DEFINE n  == Len(fs)
           gs == Caller(fs)
<1>0. n \in Nat \ {0} /\ DOMAIN fs = 1 .. n
  BY EmptySeq
<1>1. /\ n \in Nat \ {0} /\ DOMAIN fs = 1 .. n
      /\ gs \in Seq(Frame) /\ Len(gs) = n - 1 /\ DOMAIN gs = 1 .. n - 1
      /\ \A i \in 1 .. n - 1 : gs[i] = fs[i]
  BY <1>0 DEF Caller
<1> HIDE DEF gs
<1>2. CASE gs = <<>>
  <2>1. DOMAIN gs = {}
    BY <1>2
  <2>2. FaultSeen(gs)
    BY <2>1 DEF FaultSeen
  <2> QED
    BY <1>2, <2>2 DEF Inherit, gs
<1>3. CASE gs # <<>> /\ fs[n].faulted
  BY <1>1, <1>3, MarkSeen DEF Inherit, gs
<1>4. CASE gs # <<>> /\ ~fs[n].faulted
  <2> HIDE DEF n
  <2>1. FaultSeen(gs)
    <3>1. CASE \A k \in DOMAIN fs : fs[k].via # "isolated"
      BY <1>1, <3>1 DEF FaultSeen
    <3>2. CASE \E j \in DOMAIN fs :
                 /\ fs[j].faulted
                 /\ \A k \in DOMAIN fs : k > j => fs[k].via # "isolated"
      <4>1. PICK j \in DOMAIN fs :
              /\ fs[j].faulted
              /\ \A k \in DOMAIN fs : k > j => fs[k].via # "isolated"
        BY <3>2
      <4>2. j \in 1 .. n - 1
        BY <4>1, <1>1, <1>4
      <4>3. \A k \in 1 .. n - 1 : k \in DOMAIN fs
        BY <1>1
      <4>4. /\ gs[j].faulted
            /\ \A k \in DOMAIN gs : k > j => gs[k].via # "isolated"
        BY <4>1, <4>2, <4>3, <1>1
      <4> QED
        BY <4>2, <4>4, <1>1 DEF FaultSeen
    <3> QED
      BY <3>1, <3>2 DEF FaultSeen
  <2> QED
    BY <1>4, <2>1 DEF Inherit, gs, n
<1> QED
  BY <1>2, <1>3, <1>4

(* call_jit_isolated never charges a call with a fault of an earlier one.   *)
THEOREM ErrorsAreFaults == Spec => []ErrMeansFault
<1>1. Init => FaultInv /\ ErrMeansFault
  BY DEF Init, FaultInv, ErrMeansFault, NoOutcome
<1>2. ArenaInv /\ FaultInv /\ ErrMeansFault /\ [Next]_vars => FaultInv' /\ ErrMeansFault'
  <2> SUFFICES ASSUME ArenaInv, FaultInv, ErrMeansFault, [Next]_vars
               PROVE  FaultInv' /\ ErrMeansFault'
    OBVIOUS
  <2>1. frames \in Seq(Frame)
    BY DEF ArenaInv, TypeOK
  <2>2. ASSUME outcome' = NoOutcome PROVE ErrMeansFault'
    BY <2>2 DEF ErrMeansFault, NoOutcome
  <2>3. ASSUME ~fault' PROVE FaultInv'
    BY <2>3 DEF FaultInv
  <2>4. ASSUME fault' = fault, NEW f, f.via # "isolated", frames' = Append(frames, f)
        PROVE  FaultInv'
    <3> SUFFICES ASSUME FaultSeen(frames) PROVE FaultSeen(frames')
      BY <2>4 DEF FaultInv
    <3> DEFINE n == Len(frames)
    <3>1. /\ n \in Nat /\ DOMAIN frames = 1 .. n /\ DOMAIN frames' = 1 .. n + 1
          /\ frames'[n + 1] = f /\ \A i \in 1 .. n : frames'[i] = frames[i]
      BY <2>1, <2>4
    <3> HIDE DEF n
    <3>2. \A k \in DOMAIN frames' : k \in 1 .. n \/ k = n + 1
      BY <3>1
    <3>3. CASE \A k \in DOMAIN frames : frames[k].via # "isolated"
      BY <2>4, <3>1, <3>2, <3>3 DEF FaultSeen
    <3>4. CASE \E j \in DOMAIN frames :
                 /\ frames[j].faulted
                 /\ \A k \in DOMAIN frames : k > j => frames[k].via # "isolated"
      <4>1. PICK j \in 1 .. n :
              /\ frames[j].faulted
              /\ \A k \in 1 .. n : k > j => frames[k].via # "isolated"
        BY <3>1, <3>4
      <4>2. /\ j \in DOMAIN frames' /\ frames'[j].faulted
            /\ \A k \in DOMAIN frames' : k > j => frames'[k].via # "isolated"
        BY <2>4, <3>1, <3>2, <4>1
      <4> QED
        BY <4>2 DEF FaultSeen
    <3> QED
      BY <3>3, <3>4 DEF FaultSeen
  <2>5. ASSUME NEW m, fault' = fault, frames' = Learns(frames, m) PROVE FaultInv'
    BY <2>1, <2>5, LearnsMoreFaulted, MoreFaultedSeen DEF FaultInv
  <2>6. ASSUME Running, frames' = [frames EXCEPT ![Depth].faulted = TRUE] PROVE FaultInv'
    BY <2>1, <2>6, MarkSeen DEF FaultInv, Running, Depth
  <2>7. ASSUME NEW m, Running, fault' = fault, frames[Depth].via # "isolated",
               frames' = Learns(Inherit(Caller(frames), frames[Depth].faulted), m)
        PROVE  FaultInv'
    <3> SUFFICES ASSUME FaultSeen(frames) PROVE FaultSeen(frames')
      BY <2>7 DEF FaultInv
    <3> DEFINE gs == Inherit(Caller(frames), frames[Depth].faulted)
    <3>1. FaultSeen(gs)
      BY <2>1, <2>7, InheritSeen DEF Running, Depth
    <3>2. Caller(frames) \in Seq(Frame) /\ frames[Depth].faulted \in BOOLEAN
      <4>1. Len(frames) \in Nat \ {0} /\ Depth \in DOMAIN frames
        BY <2>1, <2>7, EmptySeq DEF Running, Depth
      <4>2. frames[Depth] \in Frame
        BY <2>1, <4>1
      <4>3. Caller(frames) \in Seq(Frame)
        BY <2>1, <4>1 DEF Caller
      <4> QED
        BY <4>2, <4>3 DEF Frame
    <3>3. gs \in Seq(Frame)
      BY <3>2, InheritSame DEF SamePointers
    <3> QED
      BY <2>7, <3>1, <3>3, LearnsMoreFaulted, MoreFaultedSeen
  <2>8. ASSUME NEW ret \in Returns, CallFn(ret) PROVE FaultInv' /\ ErrMeansFault'
    BY <2>2, <2>4, <2>8 DEF CallFn, Enter
  <2>9. ASSUME NEW path \in Paths, NEW ret \in Returns, CallSend(path, ret)
        PROVE  FaultInv' /\ ErrMeansFault'
    BY <2>2, <2>4, <2>9 DEF CallSend, Enter
  <2>10. ASSUME NEW ret \in Returns, CallIsolated(ret) PROVE FaultInv' /\ ErrMeansFault'
    BY <2>2, <2>3, <2>10 DEF CallIsolated, Enter
  <2>11. CASE CallbackRefused
    BY <2>2, <2>3, <2>11 DEF CallbackRefused
  <2>12. ASSUME NEW path \in Paths, SendRefused(path) PROVE FaultInv' /\ ErrMeansFault'
    BY <2>2, <2>5, <2>12 DEF SendRefused
  <2>13. ASSUME NEW q \in Quotas, SetFuel(q) PROVE FaultInv' /\ ErrMeansFault'
    BY <2>2, <2>13 DEF SetFuel, FaultInv
  <2>14. CASE NewDynamic
    BY <2>2, <2>5, <2>14 DEF NewDynamic
  <2>15. ASSUME NEW size \in ByteSizes, NewStruct(size) PROVE FaultInv' /\ ErrMeansFault'
    BY <2>2, <2>5, <2>15 DEF NewStruct
  <2>16. CASE RaiseFault
    BY <2>2, <2>6, <2>16 DEF RaiseFault
  <2>17. CASE FuelCheck
    <3>1. ErrMeansFault'
      BY <2>2, <2>17 DEF FuelCheck
    <3>2. ASSUME UNCHANGED <<fault, frames>> PROVE FaultInv'
      BY <3>2 DEF FaultInv
    <3> QED
      BY <2>6, <2>17, <3>1, <3>2 DEF FuelCheck
  <2>18. CASE ReturnDirect
    BY <2>2, <2>7, <2>18 DEF ReturnDirect
  <2>19. CASE ReturnIsolated
    <3>1. FaultInv'
      BY <2>3, <2>19 DEF ReturnIsolated
    <3>2. /\ Running /\ frames[Depth].via = "isolated"
          /\ outcome'.err = fault /\ outcome'.raised = frames[Depth].faulted
      BY <2>19 DEF ReturnIsolated
    <3>3. fault => frames[Depth].faulted
      <4>1. Depth \in Nat /\ Depth \in DOMAIN frames /\ DOMAIN frames = 1 .. Depth
        BY <2>1, <3>2, EmptySeq DEF Running, Depth
      <4> SUFFICES ASSUME fault PROVE frames[Depth].faulted
        OBVIOUS
      <4>2. PICK j \in DOMAIN frames :
              frames[j].faulted /\ \A k \in DOMAIN frames : k > j => frames[k].via # "isolated"
        BY <3>2, <4>1 DEF FaultInv, FaultSeen
      <4>3. ~(Depth > j)
        BY <3>2, <4>1, <4>2
      <4>4. j = Depth
        BY <4>1, <4>3
      <4> QED
        BY <4>2, <4>4
    <3> QED
      BY <3>1, <3>2, <3>3 DEF ErrMeansFault
  <2>20. CASE ReturnSend
    <3>1. outcome'.err = FALSE
      BY <2>20 DEF ReturnSend
    <3>2. FaultInv'
      BY <2>7, <2>20 DEF ReturnSend
    <3> QED
      BY <3>1, <3>2 DEF ErrMeansFault
  <2>21. CASE UNCHANGED vars
    BY <2>21 DEF vars, FaultInv, ErrMeansFault
  <2> QED
    BY <2>8, <2>9, <2>10, <2>11, <2>12, <2>13, <2>14, <2>15, <2>16, <2>17, <2>18, <2>19,
       <2>20, <2>21 DEF Next
<1> QED
  BY <1>1, <1>2, ArenaInvariant, PTL DEF Spec

-----------------------------------------------------------------------------
(* The send stack and the running functions. *)

\* Where among the functions fs the handlers of messages are.
Handlers(fs) == {i \in DOMAIN fs : fs[i].via = "send"}

LEMMA FinitelyManyHandlers ==
  ASSUME NEW fs \in Seq(Frame)
  PROVE  IsFiniteSet(Handlers(fs)) /\ Cardinality(Handlers(fs)) \in Nat
<1>1. Len(fs) \in Nat /\ Handlers(fs) \subseteq 1 .. Len(fs)
  BY DEF Handlers
<1>2. IsFiniteSet(1 .. Len(fs))
  BY <1>1, FS_Interval
<1>3. IsFiniteSet(Handlers(fs))
  BY <1>1, <1>2, FS_Subset
<1> QED
  BY <1>3, FS_CardinalityType

\* What a running function learns or sees does not say how it was called.
LEMMA SameHandlers ==
  ASSUME NEW fs, NEW gs, MoreFaulted(fs, gs)
  PROVE  Handlers(gs) = Handlers(fs)
BY DEF MoreFaulted, Handlers

\* A call adds a handler or none ...
LEMMA HandlersOfCall ==
  ASSUME NEW fs \in Seq(Frame), NEW f
  PROVE  Cardinality(Handlers(Append(fs, f))) =
           Cardinality(Handlers(fs)) + (IF f.via = "send" THEN 1 ELSE 0)
<1> DEFINE gs == Append(fs, f)
           n == Len(fs)
<1>1. /\ n \in Nat /\ DOMAIN fs = 1 .. n /\ DOMAIN gs = 1 .. n + 1
      /\ gs[n + 1] = f /\ \A i \in 1 .. n : gs[i] = fs[i]
  OBVIOUS
<1> HIDE DEF gs, n
<1>2. /\ n + 1 \notin Handlers(fs)
      /\ \A i \in 1 .. n + 1 : i \in 1 .. n \/ i = n + 1
  BY <1>1 DEF Handlers
<1>3. CASE f.via = "send"
  <2>1. Handlers(gs) = Handlers(fs) \cup {n + 1}
    BY <1>1, <1>2, <1>3 DEF Handlers
  <2> QED
    BY <1>2, <1>3, <2>1, FinitelyManyHandlers, FS_AddElement DEF gs
<1>4. CASE f.via # "send"
  <2>1. Handlers(gs) = Handlers(fs)
    BY <1>1, <1>2, <1>4 DEF Handlers
  <2> QED
    BY <1>4, <2>1, FinitelyManyHandlers DEF gs
<1> QED
  BY <1>3, <1>4

\* ... and a return takes it away.
LEMMA HandlersOfReturn ==
  ASSUME NEW fs \in Seq(Frame), fs # <<>>
  PROVE  Cardinality(Handlers(Caller(fs))) =
           Cardinality(Handlers(fs)) - (IF fs[Len(fs)].via = "send" THEN 1 ELSE 0)
<1> DEFINE gs == Caller(fs)
           n == Len(fs)
<1>0. n \in Nat \ {0} /\ DOMAIN fs = 1 .. n
  BY EmptySeq
<1>1. DOMAIN gs = 1 .. n - 1 /\ \A i \in 1 .. n - 1 : gs[i] = fs[i]
  BY <1>0 DEF Caller
<1> HIDE DEF gs, n
<1>2. /\ n \in DOMAIN fs /\ n \notin 1 .. n - 1
      /\ \A i \in DOMAIN fs : i \in 1 .. n - 1 \/ i = n
      /\ 1 .. n - 1 \subseteq DOMAIN fs
  BY <1>0
<1>3. Handlers(gs) = Handlers(fs) \ {n}
  BY <1>1, <1>2 DEF Handlers
<1>4. n \in Handlers(fs) <=> fs[n].via = "send"
  BY <1>2 DEF Handlers
<1>5. IsFiniteSet(Handlers(fs)) /\ Cardinality(Handlers(fs)) \in Nat
  BY FinitelyManyHandlers
<1>6. Cardinality(Handlers(fs) \ {n}) =
        IF n \in Handlers(fs) THEN Cardinality(Handlers(fs)) - 1 ELSE Cardinality(Handlers(fs))
  BY <1>5, FS_RemoveElement
<1>7. Cardinality(Handlers(gs)) = Cardinality(Handlers(fs)) - (IF fs[n].via = "send" THEN 1 ELSE 0)
  BY <1>3, <1>4, <1>5, <1>6
<1> QED
  BY <1>7 DEF gs, n

\* A caller hears of a fault, and is called as it was.
LEMMA InheritHandlers ==
  ASSUME NEW fs \in Seq(Frame), NEW faulted \in BOOLEAN, NEW m
  PROVE  Handlers(Learns(Inherit(fs, faulted), m)) = Handlers(fs)
<1> DEFINE gs == Inherit(fs, faulted)
<1>1. gs \in Seq(Frame)
  BY InheritSame DEF SamePointers
<1>2. MoreFaulted(fs, gs)
  <2>1. CASE fs = <<>> \/ ~faulted
    BY <2>1 DEF Inherit, MoreFaulted
  <2>2. CASE fs # <<>> /\ faulted
    BY <2>2, MarkSeen DEF Inherit
  <2> QED
    BY <2>1, <2>2
<1> HIDE DEF gs
<1>3. Handlers(gs) = Handlers(fs) /\ Handlers(Learns(gs, m)) = Handlers(gs)
  BY <1>1, <1>2, SameHandlers, LearnsMoreFaulted
<1> QED
  BY <1>3 DEF gs

\* SEND_STACK has one path for each handler that runs, however calls, callbacks
\* and sends are nested: every guard pops its own path and no other.
THEOREM SendsAreRunning == Spec => []SendStackBalanced
<1> DEFINE Balance == Len(send_stack) = Cardinality(Handlers(frames))
<1>1. Init => Balance
  <2> SUFFICES ASSUME Init PROVE Balance
    OBVIOUS
  <2>1. Handlers(frames) = {} /\ Len(send_stack) = 0
    BY DEF Init, Handlers
  <2> QED
    BY <2>1, FS_EmptySet
<1>2. ArenaInv /\ Balance /\ [Next]_vars => Balance'
  <2> SUFFICES ASSUME ArenaInv, Balance, [Next]_vars PROVE Balance'
    OBVIOUS
  <2>1. frames \in Seq(Frame) /\ send_stack \in Seq(Paths) /\ Len(send_stack) \in Nat
    BY DEF ArenaInv, TypeOK
  <2>2. ASSUME NEW f, f.via # "send", frames' = Append(frames, f), UNCHANGED send_stack
        PROVE  Balance'
    <3>1. Cardinality(Handlers(frames')) = Cardinality(Handlers(frames))
      BY <2>1, <2>2, HandlersOfCall, FinitelyManyHandlers
    <3> QED
      BY <2>2, <3>1
  <2>3. ASSUME Handlers(frames') = Handlers(frames), UNCHANGED send_stack PROVE Balance'
    BY <2>3
  <2>4. ASSUME NEW m, frames' = Learns(frames, m), UNCHANGED send_stack PROVE Balance'
    BY <2>1, <2>3, <2>4, LearnsMoreFaulted, SameHandlers
  <2>5. ASSUME Running, frames' = [frames EXCEPT ![Depth].faulted = TRUE], UNCHANGED send_stack
        PROVE  Balance'
    BY <2>1, <2>3, <2>5, MarkSeen, SameHandlers DEF Running, Depth
  <2>6. ASSUME NEW path \in Paths, NEW ret \in Returns, CallSend(path, ret) PROVE Balance'
    <3>1. Len(send_stack') = Len(send_stack) + 1
      BY <2>1, <2>6 DEF CallSend
    <3>2. Cardinality(Handlers(frames')) = Cardinality(Handlers(frames)) + 1
      BY <2>1, <2>6, HandlersOfCall DEF CallSend, Enter
    <3> QED
      BY <3>1, <3>2
  <2>7. ASSUME Running
        PROVE  /\ Caller(frames) \in Seq(Frame) /\ frames[Depth].faulted \in BOOLEAN
               /\ Cardinality(Handlers(Caller(frames))) =
                    Cardinality(Handlers(frames)) - (IF frames[Depth].via = "send" THEN 1 ELSE 0)
    <3>1. Depth \in Nat \ {0} /\ Depth \in DOMAIN frames
      BY <2>1, <2>7, EmptySeq DEF Running, Depth
    <3>2. frames[Depth] \in Frame
      BY <2>1, <3>1
    <3>3. Caller(frames) \in Seq(Frame)
      BY <2>1, <3>1 DEF Caller, Depth
    <3> QED
      BY <2>1, <2>7, <3>2, <3>3, HandlersOfReturn DEF Frame, Running, Depth
  <2>8. CASE ReturnDirect
    <3>1. PICK m : /\ Running /\ frames[Depth].via = "direct" /\ UNCHANGED send_stack
                   /\ frames' = Learns(Inherit(Caller(frames), frames[Depth].faulted), m)
      BY <2>8 DEF ReturnDirect
    <3>2. Handlers(frames') = Handlers(Caller(frames))
      BY <2>7, <3>1, InheritHandlers
    <3> QED
      BY <2>1, <2>7, <3>1, <3>2, FinitelyManyHandlers
  <2>9. CASE ReturnIsolated
    <3>1. PICK m : /\ Running /\ frames[Depth].via = "isolated" /\ UNCHANGED send_stack
                   /\ frames' = Learns(Caller(frames), m)
      BY <2>9 DEF ReturnIsolated
    <3>2. Handlers(frames') = Handlers(Caller(frames))
      BY <2>7, <3>1, LearnsMoreFaulted, SameHandlers
    <3> QED
      BY <2>1, <2>7, <3>1, <3>2, FinitelyManyHandlers
  <2>10. CASE ReturnSend
    <3>1. PICK m : /\ Running /\ frames[Depth].via = "send" /\ send_stack' = Popped(send_stack)
                   /\ frames' = Learns(Inherit(Caller(frames), frames[Depth].faulted), m)
      BY <2>10 DEF ReturnSend
    <3>2. Cardinality(Handlers(frames')) = Cardinality(Handlers(frames)) - 1
      BY <2>7, <3>1, InheritHandlers
    <3>3. Cardinality(Handlers(frames')) \in Nat
      <4>1. Cardinality(Handlers(Caller(frames))) \in Nat
        BY <2>7, <3>1, FinitelyManyHandlers
      <4> QED
        BY <2>7, <3>1, <4>1, InheritHandlers
    <3>4. Len(send_stack) >= 1
      BY <2>1, <3>2, <3>3, FinitelyManyHandlers
    <3>5. Len(send_stack') = Len(send_stack) - 1
      BY <2>1, <3>1, <3>4 DEF Popped
    <3> QED
      BY <3>2, <3>5
  <2>11. CASE UNCHANGED vars
    BY <2>11 DEF vars
  <2> HIDE DEF Balance
  <2>12. ASSUME NEW ret \in Returns, CallFn(ret) \/ CallIsolated(ret) PROVE Balance'
    BY <2>2, <2>12 DEF CallFn, CallIsolated, Enter
  <2>13. ASSUME NEW path \in Paths, SendRefused(path) PROVE Balance'
    BY <2>4, <2>13 DEF SendRefused
  <2>14. ASSUME NEW size \in ByteSizes, NewStruct(size) PROVE Balance'
    BY <2>4, <2>14 DEF NewStruct
  <2>15. ASSUME CallbackRefused \/ NewDynamic PROVE Balance'
    BY <2>4, <2>15 DEF CallbackRefused, NewDynamic
  <2>16. ASSUME NEW q \in Quotas, SetFuel(q) PROVE Balance'
    BY <2>3, <2>16 DEF SetFuel
  <2>17. ASSUME RaiseFault \/ FuelCheck PROVE Balance'
    BY <2>3, <2>5, <2>17 DEF RaiseFault, FuelCheck
  <2> QED
    BY <2>6, <2>8, <2>9, <2>10, <2>11, <2>12, <2>13, <2>14, <2>15, <2>16, <2>17 DEF Next
<1>3. Balance <=> SendStackBalanced
  BY DEF SendStackBalanced, Handlers
<1> HIDE DEF Balance
<1> QED
  BY <1>1, <1>2, <1>3, ArenaInvariant, PTL DEF Spec
=============================================================================

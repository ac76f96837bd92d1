--------------------------- MODULE WsServerProofs ---------------------------
(***************************************************************************)
(* The WebSocket side of one server, for any number of connections and     *)
(* scripts: the list of handlers, the channels, and the slot table they    *)
(* implement.                                                              *)
(***************************************************************************)
EXTENDS WsServer, FiniteSetTheorems, SequenceTheorems, WellFoundedInduction, TLAPS

-----------------------------------------------------------------------------
(* FixVec                                                                  *)

\* A list whose slots and marks are as many, and which counts the marks.
Formed(v) ==
  /\ v \in WsList
  /\ Len(v.buf) = Len(v.useds)
  /\ v.len = Cardinality(FixIndices(v))

\* What holds for some number holds for a least one.
LEMMA Least ==
  ASSUME NEW S, S \subseteq Nat, S # {}
  PROVE  \E m \in S : \A k \in S : m <= k
<1> DEFINE R == OpToRel(<, Nat)
<1>1. IsWellFoundedOn(R, Nat)
  BY NatLessThanWellFounded
<1>2. PICK m \in S : \A k \in S : ~ (<<k, m>> \in R)
  <2> HIDE DEF R
  <2> QED
    BY <1>1, WFMin
<1>3. ASSUME NEW k \in S PROVE m <= k
  <2>1. k \in Nat /\ m \in Nat
    OBVIOUS
  <2>2. k < m => <<k, m>> \in R
    BY <2>1 DEF OpToRel
  <2> HIDE DEF R
  <2> QED
    BY <1>2, <2>1, <2>2
<1> HIDE DEF R
<1> QED
  BY <1>3

\* The first free position is free, and all before it are in use.
LEMMA FirstFreeIsFirst ==
  ASSUME NEW v \in WsList
  PROVE  /\ FirstFree(v) \in 0 .. Len(v.useds)
         /\ ~FixContains(v, FirstFree(v))
         /\ \A j \in 0 .. FirstFree(v) - 1 : j \in FixIndices(v)
<1> DEFINE free == {pos \in 0 .. Len(v.useds) - 1 : ~FixContains(v, pos)}
<1>1. v.useds \in Seq(BOOLEAN) /\ Len(v.useds) \in Nat /\ DOMAIN v.useds = 1 .. Len(v.useds)
  BY DEF WsList
<1>2. CASE free = {}
  <2>1. FirstFree(v) = Len(v.useds)
    BY <1>2 DEF FirstFree
  <2>2. Len(v.useds) + 1 \notin DOMAIN v.useds
    BY <1>1
  <2>3. \A j \in 0 .. Len(v.useds) - 1 : j \in FixIndices(v)
    BY <1>2 DEF FixIndices
  <2>4. ~FixContains(v, Len(v.useds))
    BY <2>2 DEF FixContains
  <2> HIDE DEF free
  <2> QED
    BY <1>1, <2>1, <2>3, <2>4
<1>3. CASE free # {}
  <2>1. PICK m \in free : \A k \in free : m <= k
    <3>1. free \subseteq Nat
      BY <1>1
    <3> HIDE DEF free
    <3> QED
      BY <1>3, <3>1, Least
  <2>2. FirstFree(v) \in free /\ \A k \in free : FirstFree(v) <= k
    BY <1>3, <2>1 DEF FirstFree
  <2> HIDE DEF free
  <2>3. FirstFree(v) \in 0 .. Len(v.useds) - 1 /\ ~FixContains(v, FirstFree(v))
    BY <2>2 DEF free
  <2>4. ASSUME NEW j \in 0 .. FirstFree(v) - 1 PROVE j \in FixIndices(v)
    <3>1. j \in 0 .. Len(v.useds) - 1 /\ ~(FirstFree(v) <= j)
      BY <1>1, <2>3
    <3> QED
      BY <2>2, <3>1 DEF FixIndices, free
  <2> QED
    BY <1>1, <2>3, <2>4
<1> QED
  BY <1>2, <1>3

\* The positions in use are a finite set of numbers.
LEMMA IndicesFinite ==
  ASSUME NEW v \in WsList
  PROVE  /\ FixIndices(v) \subseteq 0 .. Len(v.useds) - 1
         /\ IsFiniteSet(FixIndices(v))
         /\ Cardinality(FixIndices(v)) \in Nat
         /\ Cardinality(FixIndices(v)) <= Len(v.useds)
<1>1. Len(v.useds) \in Nat
  BY DEF WsList
<1>2. FixIndices(v) \subseteq 0 .. Len(v.useds) - 1
  BY DEF FixIndices
<1>3. /\ IsFiniteSet(0 .. Len(v.useds) - 1)
      /\ Cardinality(0 .. Len(v.useds) - 1) = IF 0 > Len(v.useds) - 1 THEN 0 ELSE Len(v.useds) - 1 - 0 + 1
  <2>1. 0 \in Int /\ Len(v.useds) - 1 \in Int
    BY <1>1
  <2> QED
    BY <2>1, FS_Interval, Zenon
<1>4. Cardinality(0 .. Len(v.useds) - 1) = Len(v.useds)
  BY <1>1, <1>3
<1>5. IsFiniteSet(FixIndices(v)) /\ Cardinality(FixIndices(v)) <= Cardinality(0 .. Len(v.useds) - 1)
  BY <1>2, <1>3, FS_Subset, Zenon
<1>6. Cardinality(FixIndices(v)) \in Nat
  BY <1>5, FS_CardinalityType, Zenon
<1> QED
  BY <1>2, <1>4, <1>5, <1>6, Zenon

\* A list and its fields.
LEMMA ListFields ==
  /\ \A b \in Seq({Handle, Blank}), u \in Seq(BOOLEAN), l \in Nat :
       [buf |-> b, useds |-> u, len |-> l] \in WsList
  /\ \A b, u, l : /\ [buf |-> b, useds |-> u, len |-> l].buf = b
                  /\ [buf |-> b, useds |-> u, len |-> l].useds = u
                  /\ [buf |-> b, useds |-> u, len |-> l].len = l
BY DEF WsList

\* push marks the first free position, and grows the list only when it is full.
LEMMA PushMarks ==
  ASSUME NEW v, Formed(v)
  PROVE  /\ Formed(FixPush(v, Handle))
         /\ FixIndices(FixPush(v, Handle)) = FixIndices(v) \cup {FirstFree(v)}
         /\ FirstFree(v) \notin FixIndices(v)
         /\ FirstFree(v) \in 0 .. Cardinality(FixIndices(v))
         /\ \/ Capacity(FixPush(v, Handle)) = Capacity(v)
            \/ Capacity(FixPush(v, Handle)) = Cardinality(FixIndices(v)) + 1
<1> DEFINE w == FixPush(v, Handle)
           i == FirstFree(v)
           n == Len(v.useds)
<1>1. v \in WsList /\ Len(v.buf) = n /\ v.len = Cardinality(FixIndices(v))
  BY DEF Formed
<1>2. /\ v.useds \in Seq(BOOLEAN) /\ v.buf \in Seq({Handle, Blank}) /\ n \in Nat /\ v.len \in Nat
      /\ DOMAIN v.useds = 1 .. n /\ DOMAIN v.buf = 1 .. n
  BY <1>1 DEF WsList
<1>3. i \in 0 .. n /\ ~FixContains(v, i) /\ \A j \in 0 .. i - 1 : j \in FixIndices(v)
  BY <1>1, FirstFreeIsFirst
<1>4. i \notin FixIndices(v)
  BY <1>3 DEF FixIndices
<1>5. IsFiniteSet(FixIndices(v)) /\ Cardinality(FixIndices(v)) \in Nat
  BY <1>1, IndicesFinite
<1>6. i <= Cardinality(FixIndices(v))
  <2>1. 0 .. i - 1 \in SUBSET FixIndices(v)
    BY <1>3
  <2>2. Cardinality(0 .. i - 1) = i
    BY <1>3, FS_Interval
  <2> QED
    BY <1>5, <2>1, <2>2, FS_Subset
<1>7. Cardinality(FixIndices(v) \cup {i}) = Cardinality(FixIndices(v)) + 1
  BY <1>4, <1>5, FS_AddElement
<1> HIDE DEF i, n
<1>8. CASE i < n
  <2>1. w = [v EXCEPT !.buf[i + 1] = Handle, !.useds[i + 1] = TRUE, !.len = @ + 1]
    BY <1>8 DEF FixPush, i, n
  <2>2. /\ w.buf = [v.buf EXCEPT ![i + 1] = Handle] /\ w.useds = [v.useds EXCEPT ![i + 1] = TRUE]
        /\ w.len = v.len + 1 /\ w = [buf |-> w.buf, useds |-> w.useds, len |-> w.len]
    BY <1>1, <2>1 DEF WsList
  <2> HIDE DEF w
  <2>3. /\ w.buf \in Seq({Handle, Blank}) /\ w.useds \in Seq(BOOLEAN) /\ Len(w.buf) = n
        /\ Len(w.useds) = n /\ DOMAIN w.useds = 1 .. n
    <3>1. i + 1 \in 1 .. Len(v.buf) /\ i + 1 \in 1 .. Len(v.useds)
      BY <1>1, <1>2, <1>3, <1>8
    <3>2. w.buf \in Seq({Handle, Blank}) /\ Len(w.buf) = n
      BY <1>1, <1>2, <2>2, <3>1, ExceptSeq
    <3>3. w.useds \in Seq(BOOLEAN) /\ Len(w.useds) = n
      BY <1>2, <2>2, <3>1, ExceptSeq
    <3> QED
      BY <1>2, <3>2, <3>3
  <2>4. \A j \in 0 .. n - 1 : FixContains(w, j) <=> FixContains(v, j) \/ j = i
    BY <1>2, <1>3, <1>8, <2>2, <2>3 DEF FixContains
  <2>5. FixIndices(w) = FixIndices(v) \cup {i}
    BY <1>2, <1>3, <1>8, <2>3, <2>4 DEF FixIndices
  <2>6. w \in WsList
    <3>1. w.len \in Nat
      BY <1>2, <2>2
    <3>2. [buf |-> w.buf, useds |-> w.useds, len |-> w.len] \in WsList
      BY <2>3, <3>1, ListFields
    <3> QED
      BY <2>2, <3>2, Zenon
  <2> QED
    <3>1. w.len = Cardinality(FixIndices(w))
      BY <1>1, <1>7, <2>2, <2>5
    <3>2. Formed(w) /\ Capacity(w) = Capacity(v)
      BY <1>1, <2>3, <2>6, <3>1 DEF Formed, Capacity
    <3> QED
      BY <1>3, <1>4, <1>5, <1>6, <2>5, <3>2 DEF w, i
<1>9. CASE i = n
  <2>1. w = [buf |-> Append(v.buf, Handle), useds |-> Append(v.useds, TRUE), len |-> v.len + 1]
    BY <1>2, <1>9 DEF FixPush, i, n
  <2> HIDE DEF w
  <2>2. /\ w.buf \in Seq({Handle, Blank}) /\ w.useds \in Seq(BOOLEAN) /\ Len(w.buf) = n + 1
        /\ Len(w.useds) = n + 1 /\ DOMAIN w.useds = 1 .. n + 1
        /\ w.useds[n + 1] = TRUE /\ \A j \in 1 .. n : w.useds[j] = v.useds[j]
    <3>1. w.buf = Append(v.buf, Handle) /\ w.useds = Append(v.useds, TRUE)
      BY <2>1, ListFields
    <3>2. w.buf \in Seq({Handle, Blank}) /\ Len(w.buf) = n + 1
      BY <1>1, <1>2, <3>1, AppendProperties
    <3>3. /\ w.useds \in Seq(BOOLEAN) /\ Len(w.useds) = n + 1 /\ w.useds[n + 1] = TRUE
          /\ \A j \in 1 .. n : w.useds[j] = v.useds[j]
      <4>1. TRUE \in BOOLEAN /\ n = Len(v.useds)
        BY DEF n
      <4>2. w.useds \in Seq(BOOLEAN) /\ Len(w.useds) = n + 1
        BY <1>2, <3>1, <4>1, AppendProperties
      <4>3. w.useds[n + 1] = TRUE
        <5>1. Append(v.useds, TRUE)[Len(v.useds) + 1] = TRUE
          BY <1>2, <4>1, AppendProperties, Zenon
        <5> QED
          BY <3>1, <4>1, <5>1, Zenon
      <4>4. \A j \in 1 .. n : w.useds[j] = v.useds[j]
        <5>1. \A j \in 1 .. Len(v.useds) : Append(v.useds, TRUE)[j] = v.useds[j]
          BY <1>2, <4>1, AppendProperties, Zenon
        <5> QED
          BY <3>1, <4>1, <5>1, Zenon
      <4> QED
        BY <4>2, <4>3, <4>4
    <3> QED
      BY <1>2, <3>2, <3>3
  <2>3. \A j \in 0 .. n : FixContains(w, j) <=> FixContains(v, j) \/ j = i
    BY <1>2, <1>3, <1>9, <2>2 DEF FixContains
  <2>4. FixIndices(w) = FixIndices(v) \cup {i}
    <3>1. FixIndices(w) = {j \in 0 .. n : FixContains(w, j)}
      BY <1>2, <2>2 DEF FixIndices
    <3>2. FixIndices(v) = {j \in 0 .. n : FixContains(v, j)}
      BY <1>2, <1>3, <1>9 DEF FixIndices
    <3> QED
      BY <1>2, <1>9, <2>3, <3>1, <3>2
  <2>5. w \in WsList
    BY <1>2, <2>1, <2>2 DEF WsList
  <2>6. Cardinality(FixIndices(v)) = n
    BY <1>1, <1>5, <1>6, <1>9, <1>2, IndicesFinite
  <2> QED
    <3>1. w.len = Cardinality(FixIndices(w))
      BY <1>1, <1>7, <2>1, <2>4, ListFields
    <3>2. Formed(w) /\ Capacity(w) = Cardinality(FixIndices(v)) + 1
      BY <1>1, <2>2, <2>5, <2>6, <3>1 DEF Formed, Capacity
    <3> QED
      BY <1>3, <1>4, <1>5, <1>6, <2>4, <3>2 DEF w, i
<1> QED
  BY <1>2, <1>3, <1>8, <1>9

\* remove gives back one position, if it is in use.
LEMMA RemoveFrees ==
  ASSUME NEW v, Formed(v), NEW i \in Nat
  PROVE  /\ Formed(FixRemove(v, i))
         /\ FixIndices(FixRemove(v, i)) = FixIndices(v) \ {i}
         /\ Capacity(FixRemove(v, i)) = Capacity(v)
<1> DEFINE w == FixRemove(v, i)
           n == Len(v.useds)
<1>1. v \in WsList /\ Len(v.buf) = n /\ v.len = Cardinality(FixIndices(v))
  BY DEF Formed
<1>2. /\ v.useds \in Seq(BOOLEAN) /\ v.buf \in Seq({Handle, Blank}) /\ n \in Nat /\ v.len \in Nat
      /\ DOMAIN v.useds = 1 .. n /\ DOMAIN v.buf = 1 .. n
  BY <1>1 DEF WsList
<1>3. IsFiniteSet(FixIndices(v)) /\ Cardinality(FixIndices(v)) \in Nat
  BY <1>1, IndicesFinite
<1>4. CASE ~FixContains(v, i)
  BY <1>1, <1>4 DEF FixRemove, FixIndices, Formed
<1>5. CASE FixContains(v, i)
  <2>1. w = [v EXCEPT !.buf[i + 1] = Blank, !.useds[i + 1] = FALSE, !.len = @ - 1]
    BY <1>5 DEF FixRemove
  <2>2. /\ w.buf = [v.buf EXCEPT ![i + 1] = Blank] /\ w.useds = [v.useds EXCEPT ![i + 1] = FALSE]
        /\ w.len = v.len - 1 /\ w = [buf |-> w.buf, useds |-> w.useds, len |-> w.len]
    BY <1>1, <2>1 DEF WsList
  <2>3. i \in 0 .. n - 1
    BY <1>2, <1>5 DEF FixContains
  <2>4. /\ w.buf \in Seq({Handle, Blank}) /\ w.useds \in Seq(BOOLEAN) /\ Len(w.buf) = n
        /\ Len(w.useds) = n /\ DOMAIN w.useds = 1 .. n
    BY <1>2, <2>2, <2>3, ExceptSeq
  <2>5. \A j \in 0 .. n - 1 : FixContains(w, j) <=> FixContains(v, j) /\ j # i
    BY <1>2, <2>2, <2>3, <2>4 DEF FixContains
  <2>6. FixIndices(w) = FixIndices(v) \ {i}
    BY <2>4, <2>5 DEF FixIndices
  <2>7. i \in FixIndices(v)
    BY <1>5, <2>3 DEF FixIndices
  <2>8. /\ Cardinality(FixIndices(w)) = Cardinality(FixIndices(v)) - 1
        /\ Cardinality(FixIndices(w)) \in Nat
    BY <1>3, <2>6, <2>7, FS_RemoveElement, FS_CardinalityType
  <2> HIDE DEF w
  <2>9. w \in WsList
    <3>1. w.len \in Nat
      BY <1>1, <2>2, <2>6, <2>8
    <3>2. [buf |-> w.buf, useds |-> w.useds, len |-> w.len] \in WsList
      BY <2>4, <3>1, ListFields
    <3> QED
      BY <2>2, <3>2, Zenon
  <2>10. Formed(w) /\ Capacity(w) = Capacity(v)
    BY <1>1, <2>2, <2>4, <2>6, <2>8, <2>9 DEF Formed, Capacity
  <2> QED
    BY <2>6, <2>10 DEF w
<1> QED
  BY <1>4, <1>5

-----------------------------------------------------------------------------
(* The invariant                                                           *)

\* One call of http::serve: a second one may replace the list under the
\* connections of the first.
OneServer == \A s, t \in Servers : s = t

\* Where a connection can be, and a server.
ConnStates == {"away", "adding", "pushing", "pushed", "serving", "closing", "unbound", "freed"}
States == ConnStates \cup {"down", "up"}

Typed == TypeOK /\ pc \in [Servers \cup Conns -> States]

\* The list is there before the first connection, and never made again.
ListInv ==
  /\ list = NoList => \A c \in Conns : pc[c] = "away"
  /\ \A c \in Conns : pc[c] # "adding"
  /\ \A s \in Servers : /\ pc[s] = "adding" => list = NoList
                        /\ pc[s] = "up" => list # NoList

\* Every connection that holds an index has a slot of its own.
SlotInv ==
  /\ list # NoList => /\ Formed(list)
                      /\ FixIndices(list) = {idx[c] : c \in Registered}
                      /\ Capacity(list) <= peak
  /\ \A c, d \in Registered : idx[c] = idx[d] => c = d
  /\ Cardinality(Registered) <= peak

\* A served connection has its channel, and no other connection has one.
ChannelInv ==
  /\ \A c \in Conns : pc[c] \in {"serving", "closing"} =>
                        idx[c] \in DOMAIN senders /\ senders[idx[c]] = c
  /\ NoOrphanChannel

\* What a script has learned holds until the connection leaves.
CallInv ==
  \A k \in Calls : calls[k] # NoCall /\ ~calls[k].stale =>
    pc[calls[k].to] = "serving" /\ idx[calls[k].to] = calls[k].idx

Inv == Typed /\ ListInv /\ SlotInv /\ ChannelInv /\ CallInv

-----------------------------------------------------------------------------
(* Types                                                                   *)

\* Going to a state changes only where one server or connection is.
LEMMA GoesTypes ==
  ASSUME Typed, NEW p \in Servers \cup Conns, NEW state \in States, Goes(p, state)
  PROVE  /\ pc' \in [Servers \cup Conns -> States]
         /\ pc'[p] = state
         /\ \A q \in Servers \cup Conns : q # p => pc'[q] = pc[q]
BY DEF Typed, Goes

\* Where a connection goes is one of the states of a connection.
LEMMA ConnGoes ==
  ASSUME Typed, NEW c \in Conns, NEW state \in ConnStates, Goes(c, state)
  PROVE  /\ pc' \in [Servers \cup Conns -> States]
         /\ \A s \in Servers : pc'[s] = pc[s]
         /\ \A d \in Conns : pc'[d] \in ConnStates
<1>1. \A s \in Servers : s # c
  BY WsAssumption
<1>2. \A d \in Conns : pc[d] \in ConnStates
  BY DEF Typed, TypeOK, ConnStates
<1>3. state \in States
  BY DEF States
<1> QED
  BY <1>1, <1>2, <1>3 DEF Typed, Goes

\* The steps of a connection leave the types alone.
LEMMA ConnTypes ==
  ASSUME Typed, ListInv, NEW c \in Conns, list # NoList => Formed(list),
         \/ Connect(c) \/ Push(c) \/ Bind(c) \/ Leave(c) \/ Unbind(c) \/ Free(c) \/ Abort(c)
         \/ Write(c)
  PROVE  Typed'
<1>1. ASSUME Connect(c) PROVE Typed'
  <2>1. Goes(c, "adding") \/ Goes(c, "pushing")
    BY <1>1 DEF Connect
  <2> QED
    BY <1>1, <2>1, ConnGoes DEF ConnStates, Connect, Typed, TypeOK
<1>2. ASSUME Push(c) PROVE Typed'
  <2>1. Goes(c, "pushed") /\ list # NoList
    BY <1>2 DEF Push
  <2>2. list' \in WsList
    BY <1>2, <2>1, PushMarks DEF Push, Formed
  <2>3. FirstFree(list) \in Nat
    BY <2>1, FirstFreeIsFirst DEF Formed, WsList
  <2>4. peak' \in Nat
    <3>1. IsFiniteSet(Registered)
      BY WsAssumption, FS_Subset DEF Registered
    <3>2. Cardinality(Registered) \in Nat
      BY <3>1, FS_CardinalityType
    <3> QED
      BY <1>2, <3>2 DEF Push, Typed, TypeOK
  <2> QED
    BY <1>2, <2>1, <2>2, <2>3, <2>4, ConnGoes DEF ConnStates, Push, Typed, TypeOK
<1>3. ASSUME Bind(c) PROVE Typed'
  <2>1. Goes(c, "serving")
    BY <1>3 DEF Bind
  <2>2. DOMAIN senders' = DOMAIN senders \cup {idx[c]} /\ idx[c] \in Nat
    BY <1>3 DEF Bind, Typed, TypeOK
  <2>3. senders' \in [DOMAIN senders' -> Conns]
    BY <1>3, <2>2 DEF Bind, Typed, TypeOK
  <2> QED
    BY <1>3, <2>1, <2>2, <2>3, ConnGoes DEF ConnStates, Bind, Typed, TypeOK
<1>4. ASSUME Leave(c) PROVE Typed'
  <2>1. Goes(c, "closing")
    BY <1>4 DEF Leave
  <2>2. calls' \in [Calls -> Call \cup {NoCall}]
    <3>1. ASSUME NEW k \in Calls, calls[k] # NoCall
          PROVE  [calls[k] EXCEPT !.stale = TRUE] \in Call
      <4>1. calls[k] \in Call
        BY <3>1 DEF Typed, TypeOK
      <4> QED
        BY <4>1 DEF Call
    <3>2. \A k \in Calls : Aged(c)[k] \in Call \cup {NoCall}
      BY <3>1 DEF Aged, Typed, TypeOK
    <3> QED
      BY <1>4, <3>2 DEF Leave, Aged
  <2> QED
    BY <1>4, <2>1, <2>2, ConnGoes DEF ConnStates, Leave, Typed, TypeOK
<1>5. ASSUME Unbind(c) PROVE Typed'
  <2>1. Goes(c, "unbound")
    BY <1>5 DEF Unbind
  <2>2. DOMAIN senders' = DOMAIN senders \ {idx[c]}
    BY <1>5 DEF Unbind
  <2>3. senders' \in [DOMAIN senders' -> Conns]
    BY <1>5, <2>2 DEF Unbind, Typed, TypeOK
  <2> QED
    BY <1>5, <2>1, <2>2, <2>3, ConnGoes DEF ConnStates, Unbind, Typed, TypeOK
<1>6. ASSUME Free(c) PROVE Typed'
  <2>1. Goes(c, "freed")
    BY <1>6 DEF Free
  <2>2. list # NoList
    BY <1>6 DEF Free, ListInv
  <2>3. list' \in WsList
    BY <1>6, <2>2, RemoveFrees DEF Free, Formed, Typed, TypeOK
  <2> QED
    BY <1>6, <2>1, <2>3, ConnGoes DEF ConnStates, Free, Typed, TypeOK
<1>7. ASSUME Abort(c) PROVE Typed'
  <2>1. Goes(c, "away")
    BY <1>7 DEF Abort
  <2>2. <<>> \in Seq(Commands)
    OBVIOUS
  <2> QED
    BY <1>7, <2>1, <2>2, ConnGoes DEF ConnStates, Abort, Typed, TypeOK
<1>8. ASSUME Write(c) PROVE Typed'
  <2>1. <<>> \in Seq(Commands)
    OBVIOUS
  <2>2. queue[c] # <<>> => Tail(queue[c]) \in Seq(Commands)
    BY DEF Typed, TypeOK
  <2>3. queue' \in [Conns -> Seq(Commands)]
    <3>1. \/ queue' = queue
          \/ queue[c] # <<>> /\ queue' = [queue EXCEPT ![c] = Tail(queue[c])]
          \/ queue' = [queue EXCEPT ![c] = <<>>]
      BY <1>8 DEF Write
    <3> QED
      BY <2>1, <2>2, <3>1 DEF Typed, TypeOK
  <2>4. writer' \in [Conns -> {"none", "on", "ended"}]
    BY <1>8 DEF Write, Typed, TypeOK
  <2> QED
    BY <1>8, <2>3, <2>4 DEF Write, Typed, TypeOK
<1> QED
  BY <1>1, <1>2, <1>3, <1>4, <1>5, <1>6, <1>7, <1>8

\* The steps of servers and scripts leave the types alone.
LEMMA OtherTypes ==
  ASSUME Typed, ListInv,
         \/ \E s \in Servers : Serve(s)
         \/ \E p \in Servers \cup Conns : AddList(p)
         \/ \E k \in Calls, c \in Conns : Learn(k, c)
         \/ \E k \in Calls : FindHandler(k)
         \/ \E k \in Calls, command \in Commands : SendNative(k, command)
  PROVE  Typed'
<1>1. ASSUME NEW s \in Servers, NEW state \in {"adding", "up"}, Goes(s, state)
      PROVE  /\ pc' \in [Servers \cup Conns -> States]
             /\ \A t \in Servers : pc'[t] \in {"down", "adding", "up"}
             /\ \A d \in Conns : pc'[d] = pc[d]
  <2>1. state \in States /\ \A d \in Conns : d # s
    BY WsAssumption DEF States, ConnStates
  <2> QED
    BY <1>1, <2>1 DEF Typed, TypeOK, Goes
<1>2. ASSUME NEW s \in Servers, Serve(s) PROVE Typed'
  <2>1. Goes(s, "adding") \/ Goes(s, "up")
    BY <1>2 DEF Serve
  <2> QED
    BY <1>1, <1>2, <2>1 DEF Serve, Typed, TypeOK
<1>3. ASSUME NEW p \in Servers \cup Conns, AddList(p) PROVE Typed'
  <2>1. p \in Servers /\ Goes(p, "up")
    BY <1>3 DEF AddList, ListInv
  <2>2. NewFixVec \in WsList
    <3>1. <<>> \in Seq({Handle, Blank}) /\ <<>> \in Seq(BOOLEAN) /\ 0 \in Nat
      OBVIOUS
    <3> QED
      BY <3>1 DEF NewFixVec, WsList
  <2> QED
    BY <1>1, <1>3, <2>1, <2>2 DEF AddList, Typed, TypeOK
<1>4. ASSUME NEW k \in Calls, NEW c \in Conns, Learn(k, c) PROVE Typed'
  <2>1. [state |-> "held", idx |-> idx[c], to |-> c, stale |-> FALSE] \in Call
    BY DEF Call, Typed, TypeOK
  <2> QED
    BY <1>4, <2>1 DEF Learn, Typed, TypeOK
<1>5. ASSUME NEW k \in Calls, FindHandler(k) PROVE Typed'
  <2>1. calls[k] \in Call
    BY <1>5 DEF FindHandler, Typed, TypeOK
  <2>2. [calls[k] EXCEPT !.state = "found"] \in Call
    BY <2>1 DEF Call
  <2>3. calls' = [calls EXCEPT ![k] = [calls[k] EXCEPT !.state = "found"]]
          \/ calls' = [calls EXCEPT ![k] = NoCall]
    BY <1>5 DEF FindHandler
  <2>4. calls' \in [Calls -> Call \cup {NoCall}]
    BY <2>2, <2>3 DEF Typed, TypeOK
  <2> QED
    BY <1>5, <2>4 DEF FindHandler, Typed, TypeOK
<1>6. ASSUME NEW k \in Calls, NEW command \in Commands, SendNative(k, command) PROVE Typed'
  <2>1. queue' \in [Conns -> Seq(Commands)]
    <3>1. CASE UNCHANGED queue
      BY <3>1 DEF Typed, TypeOK
    <3>2. ASSUME NEW c \in Conns, queue' = [queue EXCEPT ![c] = Append(queue[c], command)]
          PROVE  queue' \in [Conns -> Seq(Commands)]
      <4>1. Append(queue[c], command) \in Seq(Commands)
        BY DEF Typed, TypeOK
      <4> QED
        BY <3>2, <4>1 DEF Typed, TypeOK
    <3>3. calls[k].idx \in DOMAIN senders => senders[calls[k].idx] \in Conns
      BY DEF Typed, TypeOK
    <3> QED
      BY <1>6, <3>1, <3>2, <3>3 DEF SendNative
  <2>2. calls' \in [Calls -> Call \cup {NoCall}]
    BY <1>6 DEF SendNative, Typed, TypeOK
  <2> QED
    BY <1>6, <2>1, <2>2 DEF SendNative, Typed, TypeOK
<1> QED
  BY <1>2, <1>3, <1>4, <1>5, <1>6

-----------------------------------------------------------------------------
(* The list and its slots                                                  *)

\* The connections that hold an index are finitely many, and so are the slots:
\* as many.
LEMMA SlotsCount ==
  ASSUME Inv
  PROVE  /\ IsFiniteSet(Registered) /\ Cardinality(Registered) \in Nat
         /\ Cardinality(Registered) <= Cardinality(Conns)
         /\ list # NoList => Cardinality(FixIndices(list)) = Cardinality(Registered)
<1>1. Registered \in SUBSET Conns
  BY DEF Registered
<1>2. /\ IsFiniteSet(Registered) /\ Cardinality(Registered) \in Nat
      /\ Cardinality(Registered) <= Cardinality(Conns)
  BY <1>1, WsAssumption, FS_Subset, FS_CardinalityType
<1>3. ASSUME list # NoList
      PROVE  Cardinality(FixIndices(list)) = Cardinality(Registered)
  <2> DEFINE f == [c \in Registered |-> idx[c]]
  <2>1. FixIndices(list) = {idx[c] : c \in Registered}
    BY <1>3 DEF Inv, SlotInv
  <2>2. f \in Surjection(Registered, FixIndices(list))
    BY <2>1 DEF Surjection
  <2>3. f \in Injection(Registered, FixIndices(list))
    BY <2>1 DEF Injection, IsInjective, Inv, SlotInv
  <2> HIDE DEF f
  <2> QED
    BY <1>2, <2>2, <2>3, FS_Surjection
<1> QED
  BY <1>2, <1>3

\* A step that touches neither the list nor who holds an index keeps the slots.
LEMMA SlotsStay ==
  ASSUME SlotInv, list' = list, peak' = peak, Registered' = Registered,
         \A d \in Registered : idx'[d] = idx[d]
  PROVE  SlotInv'
<1>1. {idx'[c] : c \in Registered'} = {idx[c] : c \in Registered}
  OBVIOUS
<1>2. Formed(list)' = Formed(list) /\ FixIndices(list)' = FixIndices(list)
      /\ Capacity(list)' = Capacity(list)
  BY DEF Formed, FixIndices, FixContains, Capacity
<1> QED
  BY <1>1, <1>2 DEF SlotInv

\* Where everybody else is stays.
LEMMA OthersStay ==
  ASSUME Typed, NEW c \in Conns, NEW state \in ConnStates, Goes(c, state)
  PROVE  pc'[c] = state /\ \A d \in Conns : d # c => pc'[d] = pc[d]
BY DEF Typed, Goes

\* push gives a connection a slot of its own.
LEMMA PushSlots ==
  ASSUME Inv, NEW c \in Conns, Push(c)
  PROVE  SlotInv' /\ Registered' = Registered \cup {c} /\ c \notin Registered
<1>1. /\ list # NoList /\ pc[c] = "pushing" /\ Goes(c, "pushed")
      /\ list' = FixPush(list, Handle) /\ idx' = [idx EXCEPT ![c] = FirstFree(list)]
  BY DEF Push
<1>2. pc'[c] = "pushed" /\ \A d \in Conns : d # c => pc'[d] = pc[d]
  BY <1>1, OthersStay DEF Inv, ConnStates
<1>3. c \notin Registered /\ Registered' = Registered \cup {c}
  BY <1>1, <1>2 DEF Registered
<1>4. idx'[c] = FirstFree(list) /\ \A d \in Registered : idx'[d] = idx[d]
  BY <1>1, <1>3 DEF Inv, Typed, TypeOK, Registered
<1>5. /\ Formed(list) /\ FixIndices(list) = {idx[d] : d \in Registered}
      /\ Capacity(list) <= peak /\ \A d, e \in Registered : idx[d] = idx[e] => d = e
  BY <1>1 DEF Inv, SlotInv
<1>6. /\ Formed(list') /\ FixIndices(list') = FixIndices(list) \cup {FirstFree(list)}
      /\ FirstFree(list) \notin FixIndices(list)
      /\ \/ Capacity(list') = Capacity(list)
         \/ Capacity(list') = Cardinality(FixIndices(list)) + 1
  BY <1>1, <1>5, PushMarks
<1>7. {idx'[d] : d \in Registered'} = FixIndices(list) \cup {FirstFree(list)}
  BY <1>3, <1>4, <1>5
<1>8. \A d, e \in Registered' : idx'[d] = idx'[e] => d = e
  BY <1>3, <1>4, <1>5, <1>6
<1>9. /\ IsFiniteSet(Registered) /\ Cardinality(Registered) \in Nat
      /\ Cardinality(FixIndices(list)) = Cardinality(Registered)
  BY <1>1, SlotsCount
<1>10. Cardinality(Registered') = Cardinality(Registered) + 1
  BY <1>3, <1>9, FS_AddElement
<1>11. /\ peak' \in {peak, Cardinality(Registered) + 1} /\ peak \in Nat
       /\ peak' >= Cardinality(Registered) + 1 /\ peak' >= peak
  BY <1>9 DEF Push, Inv, Typed, TypeOK
<1>12. Capacity(list) \in Nat /\ Capacity(list') <= peak'
  <2>1. Capacity(list) \in Nat
    BY <1>5 DEF Formed, WsList, Capacity
  <2> QED
    BY <1>5, <1>6, <1>9, <1>11, <2>1
<1>13. Cardinality(Registered') <= peak'
  BY <1>10, <1>11
<1> QED
  BY <1>3, <1>6, <1>7, <1>8, <1>12, <1>13 DEF SlotInv, Formed, FixIndices, FixContains, Capacity

\* remove_idx gives back the slot of the connection, and no other.
LEMMA FreeSlots ==
  ASSUME Inv, NEW c \in Conns, Free(c)
  PROVE  SlotInv' /\ Registered' = Registered \ {c} /\ c \in Registered
<1>1. /\ pc[c] = "unbound" /\ Goes(c, "freed") /\ list' = FixRemove(list, idx[c])
      /\ idx' = idx /\ peak' = peak
  BY DEF Free
<1>2. pc'[c] = "freed" /\ \A d \in Conns : d # c => pc'[d] = pc[d]
  BY <1>1, OthersStay DEF Inv, ConnStates
<1>3. c \in Registered /\ Registered' = Registered \ {c} /\ list # NoList
  BY <1>1, <1>2 DEF Registered, Inv, ListInv
<1>4. /\ Formed(list) /\ FixIndices(list) = {idx[d] : d \in Registered}
      /\ Capacity(list) <= peak /\ \A d, e \in Registered : idx[d] = idx[e] => d = e
  BY <1>3 DEF Inv, SlotInv
<1>5. idx[c] \in Nat
  BY DEF Inv, Typed, TypeOK
<1>6. /\ Formed(list') /\ FixIndices(list') = FixIndices(list) \ {idx[c]}
      /\ Capacity(list') = Capacity(list)
  BY <1>1, <1>4, <1>5, RemoveFrees
<1>7. {idx'[d] : d \in Registered'} = FixIndices(list) \ {idx[c]}
  BY <1>1, <1>3, <1>4
<1>8. IsFiniteSet(Registered) /\ Cardinality(Registered) \in Nat
  BY SlotsCount
<1>9. Cardinality(Registered') \in Nat /\ Cardinality(Registered') <= Cardinality(Registered)
  BY <1>3, <1>8, FS_Subset, FS_CardinalityType
<1>10. Cardinality(Registered') <= peak'
  BY <1>1, <1>8, <1>9 DEF Inv, SlotInv, Typed, TypeOK
<1> QED
  BY <1>1, <1>3, <1>4, <1>6, <1>7, <1>10 DEF SlotInv, Formed, FixIndices, FixContains, Capacity

-----------------------------------------------------------------------------
(* The steps                                                               *)

\* A step of a connection leaves the servers, and does not unmake the list.
LEMMA ListStays ==
  ASSUME Inv, NEW c \in Conns, NEW state \in ConnStates \ {"adding"}, Goes(c, state),
         list # NoList, list' # NoList
  PROVE  ListInv'
<1>1. \A s \in Servers : s # c
  BY WsAssumption
<1>2. /\ pc'[c] = state /\ \A d \in Conns : d # c => pc'[d] = pc[d]
      /\ \A s \in Servers : pc'[s] = pc[s]
  BY <1>1 DEF Inv, Typed, Goes
<1> QED
  BY <1>2 DEF ListInv, Inv

\* A step of a connection that has no channel, before or after, leaves the
\* channels alone.
LEMMA ChannelsStay ==
  ASSUME Inv, NEW c \in Conns,
         pc[c] \notin {"serving", "closing"}, pc'[c] \notin {"serving", "closing"},
         \A d \in Conns : d # c => pc'[d] = pc[d] /\ idx'[d] = idx[d],
         senders' = senders
  PROVE  ChannelInv'
<1>1. ASSUME NEW d \in Conns, pc'[d] \in {"serving", "closing"}
      PROVE  idx'[d] \in DOMAIN senders' /\ senders'[idx'[d]] = d
  <2>1. d # c
    BY <1>1
  <2> QED
    BY <1>1, <2>1 DEF Inv, ChannelInv
<1>2. ASSUME NEW i \in DOMAIN senders'
      PROVE  pc'[senders'[i]] \in {"serving", "closing"} /\ idx'[senders'[i]] = i
  <2>1. i \in DOMAIN senders /\ senders'[i] = senders[i] /\ senders[i] \in Conns
    BY <1>2 DEF Inv, Typed, TypeOK
  <2>2. pc[senders[i]] \in {"serving", "closing"} /\ idx[senders[i]] = i
    BY <2>1 DEF Inv, ChannelInv, NoOrphanChannel
  <2> QED
    BY <2>1, <2>2
<1> QED
  BY <1>1, <1>2 DEF ChannelInv, NoOrphanChannel

\* A step of a connection that is not served leaves what scripts know true.
LEMMA CallsStay ==
  ASSUME Inv, NEW c \in Conns, pc[c] # "serving",
         \A d \in Conns : d # c => pc'[d] = pc[d] /\ idx'[d] = idx[d],
         calls' = calls
  PROVE  CallInv'
<1> SUFFICES ASSUME NEW k \in Calls, calls[k] # NoCall, ~calls[k].stale
             PROVE  pc'[calls[k].to] = "serving" /\ idx'[calls[k].to] = calls[k].idx
  BY DEF CallInv
<1>1. calls[k].to \in Conns
  BY DEF Inv, Typed, TypeOK, Call
<1>2. pc[calls[k].to] = "serving" /\ idx[calls[k].to] = calls[k].idx
  BY DEF Inv, CallInv
<1> QED
  BY <1>1, <1>2

\* A connection that is accepted finds the list.
LEMMA ConnectKeeps ==
  ASSUME Inv, OneServer, NEW c \in Conns, Connect(c)
  PROVE  ListInv' /\ SlotInv' /\ ChannelInv' /\ CallInv'
<1>1. list # NoList /\ pc[c] = "away" /\ Goes(c, "pushing")
  BY DEF Connect, Inv, ListInv
<1>2. pc'[c] = "pushing" /\ \A d \in Conns : d # c => pc'[d] = pc[d]
  BY <1>1, OthersStay DEF Inv, ConnStates
<1>3. /\ list' = list /\ idx' = idx /\ peak' = peak /\ senders' = senders /\ calls' = calls
  BY DEF Connect
<1>4. Registered' = Registered
  BY <1>1, <1>2 DEF Registered
<1>5. ListInv'
  BY <1>1, <1>3, ListStays DEF ConnStates
<1>6. SlotInv'
  BY <1>3, <1>4, SlotsStay DEF Inv
<1>7. ChannelInv'
  BY <1>1, <1>2, <1>3, ChannelsStay
<1>8. CallInv'
  BY <1>1, <1>2, <1>3, CallsStay
<1> QED
  BY <1>5, <1>6, <1>7, <1>8

\* The first free slot is nobody else's, and no channel or script has to do with it.
LEMMA PushKeeps ==
  ASSUME Inv, NEW c \in Conns, Push(c)
  PROVE  ListInv' /\ SlotInv' /\ ChannelInv' /\ CallInv'
<1>1. /\ list # NoList /\ pc[c] = "pushing" /\ Goes(c, "pushed")
      /\ idx' = [idx EXCEPT ![c] = FirstFree(list)] /\ senders' = senders /\ calls' = calls
  BY DEF Push
<1>2. pc'[c] = "pushed" /\ \A d \in Conns : d # c => pc'[d] = pc[d]
  BY <1>1, OthersStay DEF Inv, ConnStates
<1>3. SlotInv'
  BY PushSlots
<1>4. list' # NoList
  <2>1. Formed(list)
    BY <1>1 DEF Inv, SlotInv
  <2>2. Formed(list')
    BY <2>1, PushMarks DEF Push
  <2> QED
    BY <2>2, WsAssumption DEF Formed
<1>5. ListInv'
  BY <1>1, <1>4, ListStays DEF ConnStates
<1>6. \A d \in Conns : d # c => idx'[d] = idx[d]
  BY <1>1 DEF Inv, Typed, TypeOK
<1>7. ChannelInv'
  BY <1>1, <1>2, <1>6, ChannelsStay
<1>8. CallInv'
  BY <1>1, <1>2, <1>6, CallsStay
<1> QED
  BY <1>3, <1>5, <1>7, <1>8

\* The channel is registered under an index no other connection holds.
LEMMA BindKeeps ==
  ASSUME Inv, NEW c \in Conns, Bind(c)
  PROVE  ListInv' /\ SlotInv' /\ ChannelInv' /\ CallInv'
<1>1. /\ pc[c] = "pushed" /\ Goes(c, "serving")
      /\ senders' = [i \in DOMAIN senders \cup {idx[c]} |-> IF i = idx[c] THEN c ELSE senders[i]]
      /\ list' = list /\ idx' = idx /\ peak' = peak /\ calls' = calls
  BY DEF Bind
<1>2. pc'[c] = "serving" /\ \A d \in Conns : d # c => pc'[d] = pc[d]
  BY <1>1, OthersStay DEF Inv, ConnStates
<1>3. Registered' = Registered /\ list # NoList
  BY <1>1, <1>2 DEF Registered, Inv, ListInv
<1>4. ListInv'
  BY <1>1, <1>3, ListStays DEF ConnStates
<1>5. SlotInv'
  BY <1>1, <1>3, SlotsStay DEF Inv
<1>6. \A d \in Conns : d # c /\ pc[d] \in {"serving", "closing"} => idx[d] # idx[c]
  BY <1>1 DEF Registered, Inv, SlotInv
<1>7. ChannelInv'
  <2>1. ASSUME NEW d \in Conns, pc'[d] \in {"serving", "closing"}
        PROVE  idx'[d] \in DOMAIN senders' /\ senders'[idx'[d]] = d
    BY <1>1, <1>2, <1>6, <2>1 DEF Inv, ChannelInv
  <2>2. ASSUME NEW i \in DOMAIN senders'
        PROVE  pc'[senders'[i]] \in {"serving", "closing"} /\ idx'[senders'[i]] = i
    <3>1. CASE i = idx[c]
      BY <1>1, <1>2, <3>1
    <3>2. CASE i # idx[c]
      <4>1. i \in DOMAIN senders /\ senders'[i] = senders[i] /\ senders[i] \in Conns
        BY <1>1, <2>2, <3>2 DEF Inv, Typed, TypeOK
      <4>2. pc[senders[i]] \in {"serving", "closing"} /\ idx[senders[i]] = i
        BY <4>1 DEF Inv, ChannelInv, NoOrphanChannel
      <4> QED
        BY <1>1, <1>2, <4>1, <4>2
    <3> QED
      BY <3>1, <3>2
  <2> QED
    BY <2>1, <2>2 DEF ChannelInv, NoOrphanChannel
<1>8. CallInv'
  BY <1>1, <1>2, CallsStay
<1> QED
  BY <1>4, <1>5, <1>7, <1>8

\* What scripts know of a connection that leaves is out of date.
LEMMA LeaveKeeps ==
  ASSUME Inv, NEW c \in Conns, Leave(c)
  PROVE  ListInv' /\ SlotInv' /\ ChannelInv' /\ CallInv'
<1>1. /\ pc[c] = "serving" /\ Goes(c, "closing") /\ calls' = Aged(c)
      /\ list' = list /\ idx' = idx /\ peak' = peak /\ senders' = senders
  BY DEF Leave
<1>2. pc'[c] = "closing" /\ \A d \in Conns : d # c => pc'[d] = pc[d]
  BY <1>1, OthersStay DEF Inv, ConnStates
<1>3. Registered' = Registered /\ list # NoList
  BY <1>1, <1>2 DEF Registered, Inv, ListInv
<1>4. ListInv'
  BY <1>1, <1>3, ListStays DEF ConnStates
<1>5. SlotInv'
  BY <1>1, <1>3, SlotsStay DEF Inv
<1>6. ChannelInv'
  <2>1. ASSUME NEW d \in Conns, pc'[d] \in {"serving", "closing"}
        PROVE  idx'[d] \in DOMAIN senders' /\ senders'[idx'[d]] = d
    BY <1>1, <1>2, <2>1 DEF Inv, ChannelInv
  <2>2. ASSUME NEW i \in DOMAIN senders'
        PROVE  pc'[senders'[i]] \in {"serving", "closing"} /\ idx'[senders'[i]] = i
    <3>1. senders[i] \in Conns
      BY <1>1, <2>2 DEF Inv, Typed, TypeOK
    <3>2. pc[senders[i]] \in {"serving", "closing"} /\ idx[senders[i]] = i
      BY <1>1, <2>2 DEF Inv, ChannelInv, NoOrphanChannel
    <3> QED
      BY <1>1, <1>2, <3>1, <3>2
  <2> QED
    BY <2>1, <2>2 DEF ChannelInv, NoOrphanChannel
<1>7. CallInv'
  <2> SUFFICES ASSUME NEW k \in Calls, calls'[k] # NoCall, ~calls'[k].stale
               PROVE  pc'[calls'[k].to] = "serving" /\ idx'[calls'[k].to] = calls'[k].idx
    BY DEF CallInv
  <2>1. calls[k] \in Call \cup {NoCall}
    BY DEF Inv, Typed, TypeOK
  <2>2. CASE calls[k] # NoCall /\ calls[k].to = c
    <3>1. calls'[k] = [calls[k] EXCEPT !.stale = TRUE]
      BY <1>1, <2>2 DEF Aged
    <3> QED
      BY <2>1, <2>2, <3>1 DEF Call
  <2>3. CASE ~(calls[k] # NoCall /\ calls[k].to = c)
    <3>1. calls'[k] = calls[k]
      BY <1>1, <2>3 DEF Aged
    <3>2. calls[k].to \in Conns /\ calls[k].to # c
      BY <2>1, <2>3, <3>1 DEF Call
    <3> QED
      BY <1>1, <1>2, <3>1, <3>2 DEF Inv, CallInv
  <2> QED
    BY <2>2, <2>3
<1> QED
  BY <1>4, <1>5, <1>6, <1>7

\* The channel that is taken down is the one of the connection that leaves.
LEMMA UnbindKeeps ==
  ASSUME Inv, NEW c \in Conns, Unbind(c)
  PROVE  ListInv' /\ SlotInv' /\ ChannelInv' /\ CallInv'
<1>1. /\ pc[c] = "closing" /\ Goes(c, "unbound")
      /\ senders' = [i \in DOMAIN senders \ {idx[c]} |-> senders[i]]
      /\ list' = list /\ idx' = idx /\ peak' = peak /\ calls' = calls
  BY DEF Unbind
<1>2. pc'[c] = "unbound" /\ \A d \in Conns : d # c => pc'[d] = pc[d]
  BY <1>1, OthersStay DEF Inv, ConnStates
<1>3. Registered' = Registered /\ list # NoList
  BY <1>1, <1>2 DEF Registered, Inv, ListInv
<1>4. ListInv'
  BY <1>1, <1>3, ListStays DEF ConnStates
<1>5. SlotInv'
  BY <1>1, <1>3, SlotsStay DEF Inv
<1>6. \A d \in Conns : d # c /\ pc[d] \in {"serving", "closing"} => idx[d] # idx[c]
  BY <1>1 DEF Registered, Inv, SlotInv
<1>7. ChannelInv'
  <2>1. ASSUME NEW d \in Conns, pc'[d] \in {"serving", "closing"}
        PROVE  idx'[d] \in DOMAIN senders' /\ senders'[idx'[d]] = d
    BY <1>1, <1>2, <1>6, <2>1 DEF Inv, ChannelInv
  <2>2. ASSUME NEW i \in DOMAIN senders'
        PROVE  pc'[senders'[i]] \in {"serving", "closing"} /\ idx'[senders'[i]] = i
    <3>1. i \in DOMAIN senders /\ senders'[i] = senders[i] /\ senders[i] \in Conns /\ i # idx[c]
      BY <1>1, <2>2 DEF Inv, Typed, TypeOK
    <3>2. pc[senders[i]] \in {"serving", "closing"} /\ idx[senders[i]] = i
      BY <3>1 DEF Inv, ChannelInv, NoOrphanChannel
    <3> QED
      BY <1>1, <1>2, <3>1, <3>2
  <2> QED
    BY <2>1, <2>2 DEF ChannelInv, NoOrphanChannel
<1>8. CallInv'
  BY <1>1, <1>2, CallsStay
<1> QED
  BY <1>4, <1>5, <1>7, <1>8

\* The slot is given back after the channel.
LEMMA FreeKeeps ==
  ASSUME Inv, NEW c \in Conns, Free(c)
  PROVE  ListInv' /\ SlotInv' /\ ChannelInv' /\ CallInv'
<1>1. /\ pc[c] = "unbound" /\ Goes(c, "freed") /\ list' = FixRemove(list, idx[c])
      /\ idx' = idx /\ senders' = senders /\ calls' = calls
  BY DEF Free
<1>2. pc'[c] = "freed" /\ \A d \in Conns : d # c => pc'[d] = pc[d]
  BY <1>1, OthersStay DEF Inv, ConnStates
<1>3. SlotInv'
  BY FreeSlots
<1>4. list # NoList /\ list' # NoList
  <2>1. list # NoList /\ Formed(list) /\ idx[c] \in Nat
    BY <1>1 DEF Inv, ListInv, SlotInv, Typed, TypeOK
  <2>2. Formed(list')
    BY <1>1, <2>1, RemoveFrees
  <2> QED
    BY <2>1, <2>2, WsAssumption DEF Formed
<1>5. ListInv'
  BY <1>1, <1>4, ListStays DEF ConnStates
<1>6. ChannelInv'
  BY <1>1, <1>2, ChannelsStay
<1>7. CallInv'
  BY <1>1, <1>2, CallsStay
<1> QED
  BY <1>3, <1>5, <1>6, <1>7

\* A connection that is away holds nothing.
LEMMA AbortKeeps ==
  ASSUME Inv, NEW c \in Conns, Abort(c)
  PROVE  ListInv' /\ SlotInv' /\ ChannelInv' /\ CallInv'
<1>1. /\ pc[c] = "freed" /\ Goes(c, "away") /\ idx' = [idx EXCEPT ![c] = 0]
      /\ list' = list /\ senders' = senders /\ calls' = calls /\ peak' = peak
  BY DEF Abort
<1>2. pc'[c] = "away" /\ \A d \in Conns : d # c => pc'[d] = pc[d]
  BY <1>1, OthersStay DEF Inv, ConnStates
<1>3. Registered' = Registered /\ c \notin Registered /\ list # NoList
  BY <1>1, <1>2 DEF Registered, Inv, ListInv
<1>4. \A d \in Conns : d # c => idx'[d] = idx[d]
  BY <1>1 DEF Inv, Typed, TypeOK
<1>5. ListInv'
  BY <1>1, <1>3, ListStays DEF ConnStates
<1>6. SlotInv'
  BY <1>1, <1>3, <1>4, SlotsStay DEF Inv, Registered
<1>7. ChannelInv'
  BY <1>1, <1>2, <1>4, ChannelsStay
<1>8. CallInv'
  BY <1>1, <1>2, <1>4, CallsStay
<1> QED
  BY <1>5, <1>6, <1>7, <1>8

\* The writer and the scripts that send touch no index and no channel.
LEMMA UnchangedKeeps ==
  ASSUME Inv, UNCHANGED <<list, senders, pc, idx, peak>>
  PROVE  ListInv' /\ SlotInv' /\ ChannelInv' /\ Registered' = Registered
<1>1. Registered' = Registered
  BY DEF Registered
<1>2. SlotInv'
  BY <1>1, SlotsStay DEF Inv
<1> QED
  BY <1>1, <1>2 DEF Inv, ListInv, ChannelInv, NoOrphanChannel

\* A server starts before any connection, and makes the list once.
LEMMA ServerKeeps ==
  ASSUME Inv, OneServer, NEW s \in Servers, Serve(s) \/ AddList(s)
  PROVE  ListInv' /\ SlotInv' /\ ChannelInv' /\ CallInv' /\ Registered' = Registered
<1>1. \A c \in Conns : c # s
  BY WsAssumption
<1>2. \A c \in Conns : pc'[c] = pc[c]
  BY <1>1 DEF Serve, AddList, Goes, Inv, Typed
<1>3. UNCHANGED <<senders, idx, calls, peak>>
  BY DEF Serve, AddList
<1>4. Registered' = Registered
  BY <1>2 DEF Registered
<1>5. CASE Serve(s)
  <2>1. pc'[s] = IF list = NoList THEN "adding" ELSE "up"
    BY <1>5 DEF Serve, Goes, Inv, Typed
  <2>2. list' = list
    BY <1>5 DEF Serve
  <2>3. ListInv'
    BY <1>2, <2>1, <2>2 DEF OneServer, Inv, ListInv
  <2>4. SlotInv'
    BY <1>3, <1>4, <2>2, SlotsStay DEF Inv
  <2>5. ChannelInv'
    BY <1>2, <1>3 DEF Inv, ChannelInv, NoOrphanChannel, Typed, TypeOK
  <2>6. CallInv'
    BY <1>2, <1>3 DEF Inv, CallInv, Typed, TypeOK, Call
  <2> QED
    BY <1>4, <2>3, <2>4, <2>5, <2>6
<1>6. CASE AddList(s)
  <2>1. pc[s] = "adding" /\ list = NoList /\ list' = NewFixVec /\ pc'[s] = "up"
    BY <1>6 DEF AddList, Goes, Inv, Typed, ListInv
  <2>2. \A c \in Conns : pc[c] = "away"
    BY <2>1 DEF Inv, ListInv
  <2>3. NewFixVec \in WsList /\ FixIndices(NewFixVec) = {} /\ Len(NewFixVec.buf) = 0
        /\ Len(NewFixVec.useds) = 0 /\ NewFixVec.len = 0
    <3>1. <<>> \in Seq({Handle, Blank}) /\ <<>> \in Seq(BOOLEAN) /\ Len(<<>>) = 0
      OBVIOUS
    <3>2. NewFixVec \in WsList
      BY <3>1 DEF NewFixVec, WsList
    <3>3. NewFixVec.buf = <<>> /\ NewFixVec.useds = <<>> /\ NewFixVec.len = 0
      BY DEF NewFixVec
    <3>4. FixIndices(NewFixVec) = {}
      BY <3>1, <3>3 DEF FixIndices
    <3> QED
      BY <3>1, <3>2, <3>3, <3>4
  <2>4. ListInv'
    <3>1. NewFixVec # NoList
      BY <2>3, WsAssumption
    <3> QED
      BY <1>2, <2>1, <2>2, <3>1 DEF OneServer, ListInv
  <2>5. SlotInv'
    <3>1. Registered = {}
      BY <2>2 DEF Registered
    <3>2. Formed(list')
      BY <2>1, <2>3, FS_EmptySet DEF Formed
    <3>3. Capacity(list') = 0 /\ peak' \in Nat /\ Cardinality(Registered') = 0
      BY <1>3, <1>4, <2>1, <2>3, <3>1, FS_EmptySet DEF Capacity, Inv, Typed, TypeOK
    <3> QED
      BY <1>4, <2>1, <2>3, <3>1, <3>2, <3>3
        DEF SlotInv, Formed, FixIndices, FixContains, Capacity
  <2>6. ChannelInv'
    BY <1>2, <1>3 DEF Inv, ChannelInv, NoOrphanChannel, Typed, TypeOK
  <2>7. CallInv'
    BY <1>2, <1>3 DEF Inv, CallInv, Typed, TypeOK, Call
  <2> QED
    BY <1>4, <2>4, <2>5, <2>6, <2>7
<1> QED
  BY <1>5, <1>6

\* What the writer and the scripts do keeps what scripts know.
LEMMA ScriptKeeps ==
  ASSUME Inv,
         \/ \E c \in Conns : Write(c)
         \/ \E k \in Calls, c \in Conns : Learn(k, c)
         \/ \E k \in Calls : FindHandler(k)
         \/ \E k \in Calls, command \in Commands : SendNative(k, command)
  PROVE  /\ ListInv' /\ SlotInv' /\ ChannelInv' /\ CallInv'
         /\ Registered' = Registered /\ idx' = idx
<1>1. UNCHANGED <<list, senders, pc, idx, peak>>
  BY DEF Write, Learn, FindHandler, SendNative
<1>2. ASSUME NEW c \in Conns, Write(c) PROVE CallInv'
  BY <1>1, <1>2 DEF Write, Inv, CallInv
<1>3. ASSUME NEW k \in Calls, NEW c \in Conns, Learn(k, c) PROVE CallInv'
  <2>1. /\ calls' = [calls EXCEPT ![k] =
                      [state |-> "held", idx |-> idx[c], to |-> c, stale |-> FALSE]]
        /\ pc[c] = "serving"
    BY <1>3 DEF Learn
  <2> QED
    BY <1>1, <2>1 DEF Inv, CallInv, Typed, TypeOK
<1>4. ASSUME NEW k \in Calls, FindHandler(k) PROVE CallInv'
  <2>1. calls[k] \in Call
    BY <1>4 DEF FindHandler, Inv, Typed, TypeOK
  <2>2. \/ calls' = [calls EXCEPT ![k] = [calls[k] EXCEPT !.state = "found"]]
        \/ calls' = [calls EXCEPT ![k] = NoCall]
    BY <1>4 DEF FindHandler
  <2>3. /\ [calls[k] EXCEPT !.state = "found"].to = calls[k].to
        /\ [calls[k] EXCEPT !.state = "found"].idx = calls[k].idx
        /\ [calls[k] EXCEPT !.state = "found"].stale = calls[k].stale
    BY <2>1 DEF Call
  <2>4. calls[k] # NoCall
    BY <1>4 DEF FindHandler
  <2>5. \A l \in Calls : \/ calls'[l] = calls[l]
                         \/ l = k /\ calls'[l] \in {[calls[k] EXCEPT !.state = "found"], NoCall}
    BY <2>2 DEF Inv, Typed, TypeOK
  <2>6. ASSUME NEW l \in Calls, calls'[l] # NoCall, ~calls'[l].stale
        PROVE  pc'[calls'[l].to] = "serving" /\ idx'[calls'[l].to] = calls'[l].idx
    <3>1. /\ calls[l] # NoCall /\ ~calls[l].stale
          /\ calls'[l].to = calls[l].to /\ calls'[l].idx = calls[l].idx
      BY <2>3, <2>4, <2>5, <2>6
    <3> QED
      BY <1>1, <3>1 DEF Inv, CallInv
  <2> QED
    BY <2>6 DEF CallInv
<1>5. ASSUME NEW k \in Calls, NEW command \in Commands, SendNative(k, command) PROVE CallInv'
  <2>1. calls' = [calls EXCEPT ![k] = NoCall]
    BY <1>5 DEF SendNative
  <2> QED
    BY <1>1, <2>1 DEF Inv, CallInv, Typed, TypeOK
<1> QED
  BY <1>1, <1>2, <1>3, <1>4, <1>5, UnchangedKeeps

-----------------------------------------------------------------------------
(* The theorems                                                            *)

\* The invariant holds at the start.
LEMMA InitHolds == Init => Inv
<1> SUFFICES ASSUME Init PROVE Inv
  OBVIOUS
<1>1. /\ pc \in [Servers \cup Conns -> States]
      /\ \A s \in Servers : pc[s] = "down"
      /\ \A c \in Conns : pc[c] = "away"
  BY WsAssumption DEF Init, States, ConnStates
<1>2. Typed
  <2>1. senders \in [DOMAIN senders -> Conns] /\ DOMAIN senders \subseteq Nat
    BY DEF Init
  <2>2. <<>> \in Seq(Commands) /\ 0 \in Nat
    OBVIOUS
  <2> QED
    BY <1>1, <2>1, <2>2 DEF Init, Typed, TypeOK
<1>3. Registered = {}
  BY <1>1 DEF Registered
<1>4. SlotInv
  BY <1>3, FS_EmptySet DEF Init, SlotInv
<1>5. ListInv /\ ChannelInv /\ CallInv
  BY <1>1 DEF Init, ListInv, ChannelInv, NoOrphanChannel, CallInv
<1> QED
  BY <1>2, <1>4, <1>5 DEF Inv

\* Every step of a single server keeps the invariant.
LEMMA StepKeeps ==
  ASSUME Inv, OneServer, [Next]_vars
  PROVE  Inv'
<1>1. list # NoList => Formed(list)
  BY DEF Inv, SlotInv
<1>2. ASSUME NEW c \in Conns,
             \/ Connect(c) \/ Push(c) \/ Bind(c) \/ Leave(c) \/ Unbind(c) \/ Free(c) \/ Abort(c)
      PROVE  Inv'
  <2>1. Typed'
    BY <1>1, <1>2, ConnTypes DEF Inv
  <2> QED
    BY <1>2, <2>1, ConnectKeeps, PushKeeps, BindKeeps, LeaveKeeps, UnbindKeeps, FreeKeeps,
       AbortKeeps DEF Inv
<1>3. ASSUME NEW c \in Conns, Write(c) PROVE Inv'
  BY <1>1, <1>3, ConnTypes, ScriptKeeps DEF Inv
<1>4. ASSUME NEW s \in Servers, Serve(s) \/ AddList(s) PROVE Inv'
  BY <1>4, OtherTypes, ServerKeeps DEF Inv
<1>5. ASSUME NEW c \in Conns, AddList(c) PROVE Inv'
  BY <1>5 DEF AddList, Inv, ListInv
<1>6. ASSUME \/ \E k \in Calls, c \in Conns : Learn(k, c)
             \/ \E k \in Calls : FindHandler(k)
             \/ \E k \in Calls, command \in Commands : SendNative(k, command)
      PROVE  Inv'
  BY <1>6, OtherTypes, ScriptKeeps DEF Inv
<1>7. CASE UNCHANGED vars
  <2>1. Typed'
    BY <1>7 DEF vars, Inv, Typed, TypeOK
  <2>2. ListInv' /\ SlotInv' /\ ChannelInv'
    BY <1>7, UnchangedKeeps DEF vars
  <2>3. CallInv'
    BY <1>7 DEF vars, Inv, CallInv
  <2> QED
    BY <2>1, <2>2, <2>3 DEF Inv
<1> QED
  BY <1>2, <1>3, <1>4, <1>5, <1>6, <1>7 DEF Next

\* The invariant of one server.
THEOREM ServerInvariant == ASSUME OneServer PROVE Spec => []Inv
<1>1. Inv /\ [Next]_vars => Inv'
  BY StepKeeps
<1> QED
  BY <1>1, InitHolds, PTL DEF Spec

\* local/ws has the slots of the connections that are there, and no more than
\* were ever there at once (serve and handle_socket of http_module.rs).
THEOREM SlotsAreKept == ASSUME OneServer PROVE Spec => []SlotsMatch
<1>1. Inv => SlotsMatch
  <2> SUFFICES ASSUME Inv, list # NoList
               PROVE  list.len <= Capacity(list)
    BY DEF Inv, SlotInv, SlotsMatch
  <2>1. Formed(list)
    BY DEF Inv, SlotInv
  <2> QED
    BY <2>1, IndicesFinite DEF Formed, Capacity
<1> QED
  BY <1>1, ServerInvariant, PTL

\* WS_SENDERS has the channels of the connections that are served, and those only.
THEOREM ChannelsAreKept == ASSUME OneServer PROVE Spec => []NoOrphanChannel
<1>1. Inv => NoOrphanChannel
  BY DEF Inv, ChannelInv
<1> QED
  BY <1>1, ServerInvariant, PTL

\* What a script was told at connect leads to that connection for as long as it
\* is served.
THEOREM IndicesLeadHome == ASSUME OneServer PROVE Spec => []LiveIdxLeadsHome
<1>1. Inv => LiveIdxLeadsHome
  <2> SUFFICES ASSUME Inv, NEW k \in Calls, calls[k] # NoCall, ~calls[k].stale
               PROVE  /\ FixContains(list, calls[k].idx)
                      /\ calls[k].idx \in DOMAIN senders
                      /\ senders[calls[k].idx] = calls[k].to
    BY DEF LiveIdxLeadsHome
  <2>1. calls[k].to \in Conns
    BY DEF Inv, Typed, TypeOK, Call
  <2>2. pc[calls[k].to] = "serving" /\ idx[calls[k].to] = calls[k].idx
    BY DEF Inv, CallInv
  <2>3. calls[k].idx \in DOMAIN senders /\ senders[calls[k].idx] = calls[k].to
    BY <2>1, <2>2 DEF Inv, ChannelInv
  <2>4. calls[k].to \in Registered /\ list # NoList
    BY <2>1, <2>2 DEF Registered, Inv, ListInv
  <2>5. calls[k].idx \in FixIndices(list)
    BY <2>2, <2>4 DEF Inv, SlotInv
  <2> QED
    BY <2>3, <2>5 DEF FixIndices
<1> QED
  BY <1>1, ServerInvariant, PTL

\* The slot table counts as this module does.
LEMMA SameCardinality == \A S : Slots!Cardinality(S) = Cardinality(S)
BY DEF Cardinality, Slots!Cardinality, IsFiniteSet, Slots!IsFiniteSet

\* The connections use local/ws as a table of slots: a push takes the lowest
\* slot nobody holds, remove_idx gives one back, and every other step changes
\* nothing that is held.
THEOREM ListIsASlotTable == ASSUME OneServer PROVE Spec => ImplementsSlotTable
<1> DEFINE held == [c \in Registered |-> idx[c]]
<1>1. Init => Slots!Init
  <2> SUFFICES ASSUME Init PROVE Slots!Init
    OBVIOUS
  <2>1. Registered = {}
    BY WsAssumption DEF Init, Registered
  <2> QED
    BY <2>1 DEF Slots!Init
<1>2. Inv /\ Inv' /\ [Next]_vars => [Slots!Next]_held
  <2> SUFFICES ASSUME Inv, Inv', [Next]_vars PROVE Slots!Next \/ held' = held
    OBVIOUS
  <2>1. ASSUME NEW c \in Conns, Push(c) PROVE Slots!Take(c)
    <3>1. /\ list # NoList /\ idx' = [idx EXCEPT ![c] = FirstFree(list)]
      BY <2>1 DEF Push
    <3>2. c \notin Registered /\ Registered' = Registered \cup {c}
      BY <2>1, PushSlots
    <3>3. idx'[c] = FirstFree(list) /\ \A d \in Registered : idx'[d] = idx[d]
      BY <3>1, <3>2 DEF Inv, Typed, TypeOK, Registered
    <3>4. Formed(list) /\ FixIndices(list) = {idx[d] : d \in Registered}
      BY <3>1 DEF Inv, SlotInv
    <3>5. FirstFree(list) \in 0 .. Cardinality(Conns)
      <4>1. FirstFree(list) \in 0 .. Cardinality(FixIndices(list))
        BY <3>4, PushMarks
      <4>2. /\ Cardinality(FixIndices(list)) <= Cardinality(Conns)
            /\ Cardinality(FixIndices(list)) \in Nat /\ Cardinality(Conns) \in Nat
        BY <3>1, SlotsCount, WsAssumption, FS_CardinalityType
      <4> QED
        BY <4>1, <4>2
    <3>6. ~Slots!Taken(FirstFree(list))
      <4>1. FirstFree(list) \notin FixIndices(list)
        BY <3>4, PushMarks
      <4> QED
        BY <3>4, <4>1 DEF Slots!Taken
    <3>7. \A j \in 0 .. FirstFree(list) - 1 : Slots!Taken(j)
      <4>1. \A j \in 0 .. FirstFree(list) - 1 : j \in FixIndices(list)
        BY <3>4, FirstFreeIsFirst DEF Formed
      <4> QED
        BY <3>4, <4>1 DEF Slots!Taken
    <3>8. held' = [d \in DOMAIN held \cup {c} |->
                     IF d = c THEN FirstFree(list) ELSE held[d]]
      BY <3>2, <3>3
    <3>9. c \notin DOMAIN held
      BY <3>2
    <3> HIDE DEF held
    <3>10. \E i \in 0 .. Cardinality(Conns) :
             /\ ~Slots!Taken(i)
             /\ \A j \in 0 .. i - 1 : Slots!Taken(j)
             /\ held' = [d \in DOMAIN held \cup {c} |-> IF d = c THEN i ELSE held[d]]
      <4> WITNESS FirstFree(list) \in 0 .. Cardinality(Conns)
      <4> QED
        BY <3>6, <3>7, <3>8
    <3> QED
      BY <3>9, <3>10, SameCardinality DEF Slots!Take, held
  <2>2. ASSUME NEW c \in Conns, Free(c) PROVE Slots!Give(c)
    <3>1. c \in Registered /\ Registered' = Registered \ {c} /\ idx' = idx
      BY <2>2, FreeSlots DEF Free
    <3> QED
      BY <3>1 DEF Slots!Give
  <2>3. ASSUME Registered' = Registered, \A d \in Registered : idx'[d] = idx[d]
        PROVE  held' = held
    BY <2>3
  <2>4. ASSUME NEW c \in Conns,
               Connect(c) \/ Bind(c) \/ Leave(c) \/ Unbind(c) \/ Abort(c)
        PROVE  held' = held
    <3>1. PICK state \in ConnStates \ {"adding"} : Goes(c, state)
      BY <2>4 DEF Connect, Bind, Leave, Unbind, Abort, ConnStates, Inv, ListInv
    <3>2. pc'[c] = state /\ \A d \in Conns : d # c => pc'[d] = pc[d]
      BY <3>1, OthersStay DEF Inv
    <3>3. \A d \in Conns : d # c => idx'[d] = idx[d]
      BY <2>4 DEF Connect, Bind, Leave, Unbind, Abort, Inv, Typed, TypeOK
    <3>4. CASE Abort(c)
      <4>1. pc[c] = "freed" /\ pc'[c] = "away"
        BY <3>4, OthersStay DEF Abort, Inv, ConnStates
      <4> QED
        BY <2>3, <3>2, <3>3, <4>1 DEF Registered
    <3>5. CASE Connect(c)
      <4>1. pc[c] = "away" /\ pc'[c] = "pushing"
        BY <3>5, OthersStay DEF Connect, Inv, ListInv, ConnStates
      <4> QED
        BY <2>3, <3>2, <3>3, <4>1 DEF Registered
    <3>6. CASE Bind(c) \/ Leave(c) \/ Unbind(c)
      <4>1. /\ pc[c] \in {"pushed", "serving", "closing"} /\ idx' = idx
            /\ pc'[c] \in {"serving", "closing", "unbound"}
        BY <3>6, OthersStay DEF Bind, Leave, Unbind, Inv, ConnStates
      <4> QED
        BY <2>3, <3>2, <4>1 DEF Registered
    <3> QED
      BY <2>4, <3>4, <3>5, <3>6
  <2>5. ASSUME NEW s \in Servers, Serve(s) \/ AddList(s) PROVE held' = held
    <3>1. idx' = idx
      BY <2>5 DEF Serve, AddList
    <3> QED
      BY <2>3, <2>5, <3>1, ServerKeeps
  <2>6. ASSUME NEW c \in Conns, AddList(c) PROVE held' = held
    BY <2>6 DEF AddList, Inv, ListInv
  <2>7. ASSUME \/ \E c \in Conns : Write(c)
               \/ \E k \in Calls, c \in Conns : Learn(k, c)
               \/ \E k \in Calls : FindHandler(k)
               \/ \E k \in Calls, command \in Commands : SendNative(k, command)
        PROVE  held' = held
    BY <2>3, <2>7, ScriptKeeps
  <2>8. CASE UNCHANGED vars
    BY <2>3, <2>8, UnchangedKeeps DEF vars
  <2> QED
    BY <2>1, <2>2, <2>4, <2>5, <2>6, <2>7, <2>8 DEF Next, Slots!Next
<1> QED
  BY <1>1, <1>2, ServerInvariant, PTL DEF Spec, ImplementsSlotTable, Slots!Spec
=============================================================================

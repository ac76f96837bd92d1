--------------------------- MODULE DirMountProofs ---------------------------
(***************************************************************************)
(* A directory mount, for any number of files, writers and transactions,   *)
(* and transactions of any length: no file is cut short but by a write in  *)
(* place, and what a call returns is true.                                 *)
(***************************************************************************)
EXTENDS DirMount, SequenceTheorems, TLAPS

-----------------------------------------------------------------------------
(* The invariant                                                           *)

WriterStates == {"idle", "filling", "renaming", "computing", "rewriting"}
TxStates == {"idle", "staging", "committing", "restoring", "refilling"}
FileNames == {FileName(p) : p \in Paths}
TempNames == {TempName(p) : p \in Paths}

Typed ==
  /\ file \in [Paths -> Content] /\ temp \in [Paths -> Content]
  /\ staged \in [Txs -> [Paths -> Txs \cup {Absent, Torn}]]
  /\ pc \in [Actors -> WriterStates \cup TxStates]
  /\ at \in [Actors -> Paths]
  /\ fd \in [Actors -> {None, Gone} \cup FileNames \cup TempNames]
  /\ source \in [Writers -> Paths \cup {Absent}]
  /\ copied \in [Writers -> SUBSET Content]
  /\ item \in [Txs -> Nat]
  /\ original \in [Txs -> [Paths -> Content]]
  /\ marred \subseteq Paths

\* A writer that fills its temporary file has it to itself, and what it renames
\* is what it wrote; it has nothing else open, but for what an update writes.
Writer(w) ==
  /\ pc[w] \in WriterStates
  /\ pc[w] # "idle" => at[w] \in Targets[w]
  /\ pc[w] = "filling" => fd[w] = TempName(at[w]) /\ temp[at[w]] = Torn
  /\ pc[w] = "renaming" => temp[at[w]] \in Writing(w)
  /\ pc[w] = "rewriting" => fd[w] \in {Gone} \cup FileNames
  /\ pc[w] \notin {"filling", "rewriting"} => fd[w] = None
  /\ pc[w] # "filling" => source[w] = Absent
  /\ source[w] # Absent => copied[w] # {}
  /\ pc[w] \notin {"filling", "renaming"} => copied[w] = {}

\* The items of a transaction from position i to position j.
Span(t, i, j) == {Order[t][k] : k \in i .. j}
Holds(t, S) == \A p \in Paths : staged[t][p] = IF p \in S THEN t ELSE Absent

\* A transaction has staged the items before the one it stages, and then those
\* from the one it renames.
Transaction(t) ==
  /\ pc[t] \in TxStates
  /\ item[t] \in 1 .. Items(t)
  /\ pc[t] = "idle" => item[t] = 1
  /\ pc[t] # "idle" => at[t] = Item(t)
  /\ pc[t] = "staging" => Holds(t, Span(t, 1, item[t] - 1))
  /\ pc[t] = "committing" => Holds(t, Span(t, item[t], Items(t)))
  /\ pc[t] = "refilling" => fd[t] \in {Gone} \cup FileNames
  /\ pc[t] # "refilling" => fd[t] = None

\* What a call that nobody has disturbed finds: its files as they were, until it
\* writes them; its open file under its name, or marred; what it keeps of the old
\* contents true, what it has written or restored there.
Undisturbed(a) ==
  /\ pc[a] # "idle" /\ DOMAIN before[a] = Files(a, at[a])
  /\ \A p \in DOMAIN before[a] : before[a][p] \in Content
  /\ pc[a] \in {"filling", "renaming", "computing", "staging"} =>
       \A p \in Files(a, at[a]) : file[p] = before[a][p]
  /\ pc[a] \in {"rewriting", "refilling"} =>
       /\ file[at[a]] = Torn
       /\ fd[a] = FileName(at[a]) \/ (fd[a] = Gone /\ at[a] \in marred)
  /\ pc[a] = "staging" =>
       \A p \in Span(a, 1, item[a] - 1) : original[a][p] = before[a][p]
  /\ pc[a] \in {"committing", "restoring", "refilling"} =>
       \A p \in Files(a, at[a]) : original[a][p] = before[a][p]
  /\ pc[a] = "committing" => \A p \in Span(a, 1, item[a] - 1) : file[p] = a
  /\ pc[a] \in {"restoring", "refilling"} =>
       \A p \in Span(a, 1, item[a] - 1) : p \in marred \/ file[p] = before[a][p]

CallInv == (\A w \in Writers : Writer(w)) /\ \A t \in Txs : Transaction(t)
HistoryInv == \A a \in Actors : before[a] # Disturbed => Undisturbed(a)

Inv == Typed /\ CallInv /\ WholeFiles /\ HistoryInv

-----------------------------------------------------------------------------
(* Names of files, and the items of a transaction                          *)

LEMMA NamesDiffer ==
  /\ \A p, q : FileName(p) = FileName(q) => p = q
  /\ \A p, q : TempName(p) = TempName(q) => p = q
  /\ \A p, q : FileName(p) # TempName(q)
  /\ \A p : FileName(p) \notin {None, Gone} /\ TempName(p) \notin {None, Gone}
  /\ None # Gone
BY DEF FileName, TempName, None, Gone

\* What has no file name is neither a file nor a temporary file.
LEMMA OpenedName ==
  ASSUME NEW a \in Actors, NEW p \in Paths
  PROVE  /\ fd[a] = TempName(p) => Opened(a) = {}
         /\ fd[a] = FileName(p) => Opened(a) = {p}
         /\ fd[a] \in {None, Gone} => Opened(a) = {}
BY NamesDiffer DEF Opened

LEMMA AnywhereIsAPath == Anywhere \in Paths
BY NamesAssumption DEF Anywhere

LEMMA ItemsOf ==
  ASSUME NEW t \in Txs
  PROVE  /\ Items(t) \in Nat \ {0} /\ 1 \in 1 .. Items(t)
         /\ \A k \in 1 .. Items(t) : Order[t][k] \in Paths
         /\ \A j, k \in 1 .. Items(t) : Order[t][j] = Order[t][k] => j = k
<1>1. Order[t] \in Seq(Paths) /\ Order[t] # <<>> /\ IsInjective(Order[t])
  BY OrderAssumption
<1>2. Len(Order[t]) \in Nat \ {0} /\ DOMAIN Order[t] = 1 .. Len(Order[t])
  BY <1>1, EmptySeq
<1>3. \A j, k \in DOMAIN Order[t] : Order[t][j] = Order[t][k] => j = k
  BY <1>1 DEF IsInjective
<1> QED
  BY <1>1, <1>2, <1>3 DEF Items

\* The files of a call are those of its items, and the one it is at.
LEMMA FilesOf ==
  /\ \A w \in Writers : \A p : Files(w, p) = {p}
  /\ \A t \in Txs : \A p : Files(t, p) = Span(t, 1, Items(t)) /\ Files(t, p) \subseteq Paths
<1>1. ASSUME NEW t \in Txs, NEW p PROVE Files(t, p) = Span(t, 1, Items(t))
  <2>1. DOMAIN Order[t] = 1 .. Items(t)
    BY OrderAssumption DEF Items
  <2> QED
    BY <2>1 DEF Files, Span, ToSet
<1>2. \A t \in Txs : Span(t, 1, Items(t)) \subseteq Paths
  BY ItemsOf DEF Span
<1>3. \A w \in Writers : w \notin Txs
  BY NamesAssumption
<1> QED
  BY <1>1, <1>2, <1>3 DEF Files

LEMMA SpanOf ==
  ASSUME NEW t \in Txs, NEW i \in 1 .. Items(t)
  PROVE  /\ Order[t][i] \in Paths /\ Span(t, 1, 0) = {}
         /\ Order[t][i] \in Span(t, i, Items(t)) /\ Order[t][i] \in Span(t, 1, Items(t))
         /\ Span(t, 1, i) = Span(t, 1, i - 1) \cup {Order[t][i]}
         /\ Span(t, i + 1, Items(t)) = Span(t, i, Items(t)) \ {Order[t][i]}
         /\ Order[t][i] \notin Span(t, 1, i - 1)
         /\ Span(t, 1, i - 1) \subseteq Span(t, 1, Items(t)) /\ Span(t, 1, i) \subseteq Span(t, 1, Items(t))
         /\ i = Items(t) => Span(t, i + 1, Items(t)) = {}
<1>1. /\ Items(t) \in Nat \ {0} /\ \A k \in 1 .. Items(t) : Order[t][k] \in Paths
      /\ \A j, k \in 1 .. Items(t) : Order[t][j] = Order[t][k] => j = k
  BY ItemsOf
<1>2. Span(t, 1, i) = Span(t, 1, i - 1) \cup {Order[t][i]}
  BY <1>1 DEF Span
<1>3. Span(t, i + 1, Items(t)) = Span(t, i, Items(t)) \ {Order[t][i]}
  <2>1. \A k \in i .. Items(t) : k = i \/ k \in i + 1 .. Items(t)
    BY <1>1
  <2>2. \A k \in i + 1 .. Items(t) : k \in i .. Items(t) /\ k # i /\ k \in 1 .. Items(t)
    BY <1>1
  <2>3. Order[t][i] \notin Span(t, i + 1, Items(t))
    BY <1>1, <2>2 DEF Span
  <2> QED
    BY <2>1, <2>2, <2>3 DEF Span
<1>4. Order[t][i] \notin Span(t, 1, i - 1)
  <2>1. \A k \in 1 .. i - 1 : k \in 1 .. Items(t) /\ k # i
    BY <1>1
  <2> QED
    BY <1>1, <2>1 DEF Span
<1>5. i \in i .. Items(t) /\ i \in 1 .. Items(t) /\ 1 .. 0 = {} /\ (i = Items(t) => i + 1 .. Items(t) = {})
  BY <1>1
<1>6. \A k \in 1 .. i : k \in 1 .. Items(t)
  BY <1>1
<1>7. \A k \in 1 .. i - 1 : k \in 1 .. Items(t)
  BY <1>1
<1> QED
  BY <1>1, <1>2, <1>3, <1>4, <1>5, <1>6, <1>7 DEF Span

\* The file a transaction is at is one of its files; so is a writer's.
LEMMA AtItsFiles ==
  ASSUME Inv, NEW a \in Actors, pc[a] # "idle"
  PROVE  at[a] \in Files(a, at[a]) /\ Files(a, at[a]) \subseteq Paths /\ at[a] \in Paths
<1>1. at[a] \in Paths
  BY DEF Inv, Typed
<1>2. CASE a \in Writers
  BY <1>1, <1>2, FilesOf
<1>3. CASE a \in Txs
  <2>1. at[a] = Order[a][item[a]] /\ item[a] \in 1 .. Items(a)
    BY <1>3 DEF Inv, CallInv, Transaction, Item
  <2> QED
    BY <1>1, <1>3, <2>1, SpanOf, FilesOf
<1> QED
  BY <1>2, <1>3 DEF Actors

-----------------------------------------------------------------------------
(* Who does not take the step                                              *)

\* What a step of somebody else leaves to b: its place, its temporary file, what
\* it copies, and its open file, unless that is written or replaced.
Bystander(b) ==
  /\ pc'[b] = pc[b] /\ at'[b] = at[b]
  /\ b \in Txs => item'[b] = item[b] /\ original'[b] = original[b] /\ staged'[b] = staged[b]
  /\ fd[b] \notin FileNames => fd'[b] = fd[b]
  /\ fd[b] \in FileNames => fd'[b] \in {Gone} \cup FileNames
  /\ \A p \in Paths : fd[b] = FileName(p) /\ file[p] = Torn =>
       fd'[b] = fd[b] \/ file'[p] # Torn \/ (fd'[b] = Gone /\ p \in marred')
  /\ b \in Writers =>
       /\ pc[b] # "idle" => temp'[at[b]] = temp[at[b]]
       /\ source[b] = Absent => source'[b] = Absent /\ copied'[b] = copied[b]
       /\ copied[b] # {} => copied'[b] # {}

LEMMA StaysWriter ==
  ASSUME Inv, NEW b \in Writers, Bystander(b)
  PROVE  Writer(b)'
<1>1. Writer(b)
  BY DEF Inv, CallInv
<1>2. b \in Actors
  BY DEF Actors
<1>3. pc'[b] = pc[b] /\ at'[b] = at[b]
  BY DEF Bystander
<1>4. pc[b] = "filling" => fd'[b] = TempName(at[b]) /\ temp'[at[b]] = Torn
  <2>1. TempName(at[b]) \notin FileNames
    BY NamesDiffer DEF FileNames
  <2> QED
    BY <1>1, <2>1 DEF Writer, Bystander
<1>5. pc[b] = "renaming" => temp'[at[b]] \in Writing(b)'
  BY <1>1, <1>2 DEF Writer, Bystander, Writing
<1>6. pc[b] = "rewriting" => fd'[b] \in {Gone} \cup FileNames
  BY <1>1, <1>2 DEF Writer, Bystander
<1>7. pc[b] \notin {"filling", "rewriting"} => fd'[b] = None
  <2>1. None \notin FileNames
    BY NamesDiffer DEF FileNames
  <2> QED
    BY <1>1, <1>2, <2>1 DEF Writer, Bystander
<1>8. /\ pc[b] # "filling" => source'[b] = Absent
      /\ source'[b] # Absent => copied'[b] # {}
      /\ pc[b] \notin {"filling", "renaming"} => copied'[b] = {}
  BY <1>1 DEF Writer, Bystander
<1> QED
  BY <1>1, <1>3, <1>4, <1>5, <1>6, <1>7, <1>8 DEF Writer, FileNames

LEMMA StaysTransaction ==
  ASSUME Inv, NEW b \in Txs, Bystander(b)
  PROVE  Transaction(b)'
<1>1. Transaction(b)
  BY DEF Inv, CallInv
<1>2. None \notin FileNames
  BY NamesDiffer DEF FileNames
<1>3. /\ pc'[b] = pc[b] /\ at'[b] = at[b] /\ item'[b] = item[b] /\ staged'[b] = staged[b]
      /\ pc[b] = "refilling" => fd'[b] \in {Gone} \cup FileNames
      /\ pc[b] # "refilling" => fd'[b] = None
  BY <1>1, <1>2 DEF Bystander, Transaction
<1> QED
  BY <1>1, <1>3 DEF Transaction, Holds, Item, FileNames

\* Whoever is not told that his files have changed finds them as they were.
LEMMA StaysUndisturbed ==
  ASSUME Inv, Remember, NEW b \in Actors, Bystander(b), before'[b] # Disturbed
  PROVE  Undisturbed(b)'
<1> DEFINE F == Files(b, at[b])
<1>1. /\ pc'[b] = pc[b] /\ at'[b] = at[b]
      /\ b \in Txs => item'[b] = item[b] /\ original'[b] = original[b]
  BY DEF Bystander
<1>2. before'[b] = IF pc'[b] = "idle" THEN Disturbed
        ELSE IF pc[b] = "idle" THEN [p \in Files(b, at'[b]) |-> file[p]]
        ELSE IF before[b] = Disturbed \/ pc'[b] # pc[b] \/ (b \in Txs /\ item'[b] # item[b]) THEN before[b]
        ELSE IF \E p \in DOMAIN before[b] : file'[p] # file[p] \/ (p \in marred) # (p \in marred') THEN Disturbed
        ELSE before[b]
  BY DEF Remember
<1>3. pc[b] # "idle" /\ before[b] # Disturbed /\ before'[b] = before[b]
      /\ \A p \in DOMAIN before[b] : file'[p] = file[p] /\ (p \in marred) = (p \in marred')
  BY <1>1, <1>2
<1>4. Undisturbed(b)
  BY <1>3 DEF Inv, HistoryInv
<1>5. DOMAIN before[b] = F
  BY <1>4 DEF Undisturbed
<1>6. at[b] \in F /\ F \subseteq Paths /\ at[b] \in Paths
  BY <1>3, AtItsFiles
<1> HIDE DEF F
<1>7. \A p \in F : file'[p] = file[p] /\ (p \in marred' <=> p \in marred)
  BY <1>3, <1>5
<1>8. /\ pc[b] \in {"filling", "renaming", "computing", "staging"} => \A p \in F : file[p] = before[b][p]
      /\ pc[b] \in {"committing", "restoring", "refilling"} => \A p \in F : original[b][p] = before[b][p]
      /\ \A p \in F : before[b][p] \in Content
  BY <1>4, <1>5 DEF Undisturbed, F
<1>9. pc[b] \in {"rewriting", "refilling"} =>
        /\ file'[at[b]] = Torn
        /\ fd'[b] = FileName(at[b]) \/ (fd'[b] = Gone /\ at[b] \in marred')
  <2> SUFFICES ASSUME pc[b] \in {"rewriting", "refilling"}
               PROVE  /\ file'[at[b]] = Torn
                      /\ fd'[b] = FileName(at[b]) \/ (fd'[b] = Gone /\ at[b] \in marred')
    OBVIOUS
  <2>1. file[at[b]] = Torn /\ (fd[b] = FileName(at[b]) \/ (fd[b] = Gone /\ at[b] \in marred))
    BY <1>4 DEF Undisturbed
  <2>2. file'[at[b]] = Torn /\ (at[b] \in marred' <=> at[b] \in marred)
    BY <1>6, <1>7, <2>1
  <2>3. CASE fd[b] = FileName(at[b])
    BY <1>6, <2>1, <2>2, <2>3 DEF Bystander
  <2>4. CASE fd[b] = Gone /\ at[b] \in marred
    <3>1. Gone \notin FileNames
      BY NamesDiffer DEF FileNames
    <3> QED
      BY <2>2, <2>4, <3>1 DEF Bystander
  <2> QED
    BY <2>1, <2>3, <2>4
<1>10. CASE b \in Writers
  <2>1. pc[b] \in WriterStates
    BY <1>10 DEF Inv, CallInv, Writer
  <2> QED
    BY <1>1, <1>3, <1>5, <1>7, <1>8, <1>9, <2>1 DEF Undisturbed, F, WriterStates
<1>11. CASE b \in Txs
  <2>1. item'[b] = item[b] /\ original'[b] = original[b] /\ F = Span(b, 1, Items(b)) /\ item[b] \in 1 .. Items(b)
    BY <1>1, <1>11, FilesOf DEF F, Inv, CallInv, Transaction
  <2>2. Span(b, 1, item[b] - 1) \subseteq F
    BY <1>11, <2>1, SpanOf
  <2>3. pc[b] = "staging" => \A p \in Span(b, 1, item[b] - 1) : original[b][p] = before[b][p]
    BY <1>4 DEF Undisturbed
  <2>4. /\ pc[b] = "committing" => \A p \in Span(b, 1, item[b] - 1) : file'[p] = b
        /\ pc[b] \in {"restoring", "refilling"} =>
             \A p \in Span(b, 1, item[b] - 1) : p \in marred' \/ file'[p] = before[b][p]
    BY <1>4, <1>7, <2>2 DEF Undisturbed
  <2>5. /\ DOMAIN before'[b] = Files(b, at'[b]) /\ \A p \in DOMAIN before'[b] : before'[b][p] \in Content
        /\ pc'[b] # "idle"
        /\ pc'[b] \in {"filling", "renaming", "computing", "staging"} =>
             \A p \in Files(b, at'[b]) : file'[p] = before'[b][p]
        /\ pc'[b] \in {"committing", "restoring", "refilling"} =>
             \A p \in Files(b, at'[b]) : original'[b][p] = before'[b][p]
    BY <1>1, <1>3, <1>5, <1>7, <1>8, <2>1 DEF F
  <2> HIDE DEF Remember
  <2> QED
    BY <1>1, <1>3, <1>9, <2>1, <2>3, <2>4, <2>5 DEF Undisturbed
<1> QED
  BY <1>10, <1>11 DEF Actors

-----------------------------------------------------------------------------
(* Temporary files, whole files, and the history of who takes the step     *)

\* The writers of this process write different files: those that share one share
\* its temporary name (see WriteTextAtomic).
OneWriter == \A v, w \in Writers : v # w => Targets[v] \cap Targets[w] = {}

LEMMA TempOf ==
  ASSUME Inv, NEW b \in Actors, NEW p, fd[b] = TempName(p)
  PROVE  b \in Writers /\ pc[b] = "filling" /\ p = at[b] /\ p \in Targets[b]
<1>1. CASE b \in Writers
  BY <1>1, NamesDiffer DEF Inv, CallInv, Writer, FileNames
<1>2. CASE b \in Txs
  BY <1>2, NamesDiffer DEF Inv, CallInv, Transaction, FileNames
<1> QED
  BY <1>1, <1>2 DEF Actors

\* The temporary file of a writer is nobody else's.
LEMMA TempsApart ==
  ASSUME OneWriter, Inv, NEW w \in Writers, NEW p \in Targets[w]
  PROVE  /\ \A v \in Writers \ {w} : pc[v] # "idle" => at[v] # p
         /\ \A b \in Actors \ {w} : fd[b] # TempName(p)
<1>1. \A v \in Writers \ {w} : pc[v] # "idle" => at[v] # p
  BY DEF OneWriter, Inv, CallInv, Writer
<1>2. ASSUME NEW b \in Actors \ {w}, fd[b] = TempName(p) PROVE FALSE
  BY <1>1, <1>2, TempOf
<1> QED
  BY <1>1, <1>2

\* A file that is cut short was so before, with the same excuse, or has a new one.
LEMMA StaysWhole ==
  ASSUME Inv,
         \A p \in Paths : file'[p] = Torn =>
           \/ p \in marred' \/ \E b \in Actors : pc'[b] \in {"rewriting", "refilling"} /\ fd'[b] = FileName(p)
           \/ /\ file[p] = Torn /\ (p \in marred => p \in marred')
              /\ \A b \in Actors : pc[b] \in {"rewriting", "refilling"} /\ fd[b] = FileName(p) =>
                   p \in marred' \/ (pc'[b] = pc[b] /\ fd'[b] = fd[b])
  PROVE  WholeFiles'
<1> SUFFICES ASSUME NEW p \in Paths, file'[p] = Torn, p \notin marred'
             PROVE  \E b \in Actors : pc'[b] \in {"rewriting", "refilling"} /\ fd'[b] = FileName(p)
  BY DEF WholeFiles, InPlace, Opened
<1> SUFFICES ASSUME file[p] = Torn, p \notin marred,
                    \A b \in Actors : pc[b] \in {"rewriting", "refilling"} /\ fd[b] = FileName(p) =>
                      pc'[b] = pc[b] /\ fd'[b] = fd[b]
             PROVE  \E b \in Actors : pc'[b] \in {"rewriting", "refilling"} /\ fd'[b] = FileName(p)
  OBVIOUS
<1>1. PICK b \in Actors : pc[b] \in {"rewriting", "refilling"} /\ fd[b] = FileName(p)
  BY DEF Inv, WholeFiles, InPlace, Opened
<1> QED
  BY <1>1

\* What a call remembers when it goes on, and when it begins.
LEMMA OwnHistory ==
  ASSUME Remember, NEW a \in Actors, before'[a] # Disturbed,
         pc'[a] # pc[a] \/ (a \in Txs /\ item'[a] # item[a])
  PROVE  /\ pc'[a] # "idle"
         /\ pc[a] # "idle" => before[a] # Disturbed /\ before'[a] = before[a]
         /\ pc[a] = "idle" => before'[a] = [p \in Files(a, at'[a]) |-> file[p]]
BY DEF Remember

\* A call that begins knows what its files hold.
LEMMA BeginsUndisturbed ==
  ASSUME Inv, Remember, NEW a \in Actors, before'[a] # Disturbed, pc[a] = "idle",
         pc'[a] \in {"filling", "computing", "staging"}, at'[a] \in Paths, file' = file,
         pc'[a] = "staging" => a \in Txs /\ item'[a] = 1
  PROVE  Undisturbed(a)'
<1>1. before'[a] = [p \in Files(a, at'[a]) |-> file[p]]
  BY OwnHistory
<1>2. Files(a, at'[a]) \subseteq Paths
  BY FilesOf DEF Actors
<1>3. \A p \in Files(a, at'[a]) : file[p] \in Content /\ file'[p] = before'[a][p]
  BY <1>1, <1>2 DEF Inv, Typed
<1>4. pc'[a] = "staging" => Span(a, 1, item'[a] - 1) = {}
  BY ItemsOf, SpanOf
<1> HIDE DEF Remember
<1> QED
  BY <1>1, <1>3, <1>4 DEF Undisturbed

\* A writer that goes on without having touched its file.
LEMMA GoesOnUndisturbed ==
  ASSUME Inv, Remember, NEW w \in Writers, before'[w] # Disturbed,
         pc[w] \in {"filling", "computing"}, pc'[w] = "renaming", at'[w] = at[w], file' = file
  PROVE  Undisturbed(w)'
<1>0. w \in Actors
  BY DEF Actors
<1>1. before[w] # Disturbed /\ before'[w] = before[w]
  BY <1>0, OwnHistory
<1>2. Undisturbed(w)
  BY <1>0, <1>1 DEF Inv, HistoryInv
<1> HIDE DEF Remember
<1> QED
  BY <1>1, <1>2 DEF Undisturbed

-----------------------------------------------------------------------------
(* The steps of a writer                                                   *)

\* Where it goes, and where the others stay.
LEMMA GoesTo ==
  ASSUME Inv, NEW a \in Actors, NEW state \in WriterStates \cup TxStates, pc' = [pc EXCEPT ![a] = state]
  PROVE  /\ pc' \in [Actors -> WriterStates \cup TxStates] /\ pc'[a] = state
         /\ \A b \in Actors \ {a} : pc'[b] = pc[b]
BY DEF Inv, Typed

LEMMA IsAt ==
  ASSUME Inv, NEW a \in Actors, NEW p \in Paths, at' = [at EXCEPT ![a] = p]
  PROVE  /\ at' \in [Actors -> Paths] /\ at'[a] = p
         /\ \A b \in Actors \ {a} : at'[b] = at[b]
BY DEF Inv, Typed

\* A step that moves a call, and no file.
LEMMA QuietStep ==
  ASSUME Inv, NEW a \in Actors, UNCHANGED <<file, temp, fd, source, copied, marred>>,
         pc[a] \notin {"rewriting", "refilling"},
         \A b \in Actors \ {a} :
           /\ pc'[b] = pc[b] /\ at'[b] = at[b]
           /\ b \in Txs => item'[b] = item[b] /\ original'[b] = original[b] /\ staged'[b] = staged[b]
  PROVE  (\A b \in Actors \ {a} : Bystander(b)) /\ WholeFiles'
<1>1. \A b \in Actors \ {a} : Bystander(b)
  BY DEF Bystander
<1>2. \A p \in Paths : file'[p] = Torn =>
        /\ file[p] = Torn /\ (p \in marred => p \in marred')
        /\ \A b \in Actors : pc[b] \in {"rewriting", "refilling"} /\ fd[b] = FileName(p) =>
             pc'[b] = pc[b] /\ fd'[b] = fd[b]
  OBVIOUS
<1>3. WholeFiles'
  BY <1>2, StaysWhole
<1> QED
  BY <1>1, <1>3

\* Refuse, Update and UpdateFails.
LEMMA WriterMoves ==
  ASSUME Inv, NEW w \in Writers, Refuse(w) \/ Update(w) \/ UpdateFails(w)
  PROVE  /\ Typed' /\ WholeFiles' /\ Writer(w)'
         /\ \A b \in Actors \ {w} : Bystander(b)
         /\ Remember /\ before'[w] # Disturbed => Undisturbed(w)'
<1>0. w \in Actors /\ Writer(w) /\ pc[w] \in {"idle", "computing"}
  BY DEF Actors, Inv, CallInv, Refuse, Update, UpdateFails, Starts
<1>1. /\ UNCHANGED <<file, temp, fd, source, copied, marred>> /\ UNCHANGED <<item, original, staged>>
  BY DEF Refuse, Update, UpdateFails, disk
<1>2. \E state \in {"idle", "computing"} : \E p \in Paths :
        /\ pc' = [pc EXCEPT ![w] = state] /\ at' = [at EXCEPT ![w] = p]
        /\ state = "computing" => pc[w] = "idle" /\ p \in Targets[w]
  <2>1. CASE Refuse(w) \/ UpdateFails(w)
    BY <2>1, AnywhereIsAPath DEF Refuse, UpdateFails, Returns
  <2>2. CASE Update(w)
    BY <2>2, NamesAssumption DEF Update, Goes, Starts
  <2> QED
    BY <2>1, <2>2
<1>3. PICK state \in {"idle", "computing"}, p \in Paths :
        /\ pc' = [pc EXCEPT ![w] = state] /\ at' = [at EXCEPT ![w] = p]
        /\ state = "computing" => pc[w] = "idle" /\ p \in Targets[w]
  BY <1>2
<1>4. state \in WriterStates \cup TxStates
  BY DEF WriterStates
<1>5. /\ pc' \in [Actors -> WriterStates \cup TxStates] /\ pc'[w] = state
      /\ \A b \in Actors \ {w} : pc'[b] = pc[b]
      /\ at' \in [Actors -> Paths] /\ at'[w] = p
      /\ \A b \in Actors \ {w} : at'[b] = at[b]
  BY <1>0, <1>3, <1>4, GoesTo, IsAt
<1>6. Typed'
  BY <1>1, <1>5 DEF Inv, Typed, FileNames, TempNames
<1>7. (\A b \in Actors \ {w} : Bystander(b)) /\ WholeFiles'
  BY <1>0, <1>1, <1>5, QuietStep
<1>8. Writer(w)'
  BY <1>0, <1>1, <1>3, <1>5 DEF Writer, WriterStates, FileNames
<1>9. Remember /\ before'[w] # Disturbed => Undisturbed(w)'
  <2> SUFFICES ASSUME Remember, before'[w] # Disturbed PROVE Undisturbed(w)'
    OBVIOUS
  <2>1. pc'[w] # "idle"
    BY <1>0 DEF Remember
  <2>2. pc[w] = "idle" /\ pc'[w] = "computing" /\ at'[w] \in Paths
    BY <1>3, <1>5, <2>1
  <2> QED
    BY <1>0, <1>1, <2>2, BeginsUndisturbed
<1> QED
  BY <1>6, <1>7, <1>8, <1>9

\* A file is opened under its temporary name, which nobody else is using.
LEMMA OpenKeeps ==
  ASSUME OneWriter, Inv, NEW w \in Writers, Open(w)
  PROVE  /\ Typed' /\ WholeFiles' /\ Writer(w)'
         /\ \A b \in Actors \ {w} : Bystander(b)
         /\ Remember /\ before'[w] # Disturbed => Undisturbed(w)'
<1>0. w \in Actors /\ Writer(w) /\ Typed /\ w \notin Txs
  BY NamesAssumption DEF Actors, Inv, CallInv
<1>1. PICK p \in Targets[w] :
       /\ Starts(w, p)
       /\ temp' = [temp EXCEPT ![p] = Torn]
       /\ fd' = [fd EXCEPT ![w] = TempName(p)]
       /\ \/ UNCHANGED <<source, copied>>
          \/ \E q \in Paths \ {p} :
                /\ file[q] # Absent
                /\ source' = [source EXCEPT ![w] = q]
                /\ copied' = [copied EXCEPT ![w] = {file[q]}]
  BY DEF Open
<1>2. p \in Paths /\ pc[w] = "idle" /\ fd[w] = None /\ source[w] = Absent /\ copied[w] = {}
  BY <1>0, <1>1, NamesAssumption DEF Starts, Writer
<1>3. /\ pc' \in [Actors -> WriterStates \cup TxStates] /\ pc'[w] = "filling"
      /\ \A b \in Actors \ {w} : pc'[b] = pc[b]
  <2>1. pc' = [pc EXCEPT ![w] = "filling"] /\ "filling" \in WriterStates \cup TxStates
    BY DEF Open, Goes, WriterStates
  <2> QED
    BY <1>0, <2>1, GoesTo
<1>4. /\ at' \in [Actors -> Paths] /\ at'[w] = p
      /\ \A b \in Actors \ {w} : at'[b] = at[b]
  BY <1>0, <1>1, <1>2, IsAt DEF Starts
<1>5. /\ fd' \in [Actors -> {None, Gone} \cup FileNames \cup TempNames] /\ fd'[w] = TempName(p)
      /\ \A b \in Actors \ {w} : fd'[b] = fd[b]
  BY <1>0, <1>1, <1>2 DEF Typed, TempNames
<1>6. /\ temp' \in [Paths -> Content] /\ temp'[p] = Torn
      /\ \A q \in Paths \ {p} : temp'[q] = temp[q]
  BY <1>0, <1>1, <1>2 DEF Typed, Content
<1>7. /\ source' \in [Writers -> Paths \cup {Absent}] /\ copied' \in [Writers -> SUBSET Content]
      /\ source'[w] # Absent => copied'[w] # {}
      /\ \A b \in Writers \ {w} : source'[b] = source[b] /\ copied'[b] = copied[b]
  <2>1. CASE UNCHANGED <<source, copied>>
    BY <1>0, <1>2, <2>1 DEF Typed
  <2>2. ASSUME NEW q \in Paths \ {p}, source' = [source EXCEPT ![w] = q],
               copied' = [copied EXCEPT ![w] = {file[q]}]
        PROVE  <1>7
    BY <1>0, <2>2 DEF Typed
  <2> QED
    BY <1>1, <2>1, <2>2
<1>8. UNCHANGED <<file, staged, item, original, marred>>
  BY DEF Open
<1>9. Typed'
  BY <1>0, <1>3, <1>4, <1>5, <1>6, <1>7, <1>8 DEF Typed, FileNames, TempNames
<1>10. \A b \in Actors \ {w} : Bystander(b)
  <2> SUFFICES ASSUME NEW b \in Actors \ {w} PROVE Bystander(b)
    OBVIOUS
  <2>1. fd[b] \in FileNames => fd'[b] \in {Gone} \cup FileNames
    BY <1>5
  <2>2. b \in Writers /\ pc[b] # "idle" => temp'[at[b]] = temp[at[b]]
    <3>1. b \in Writers /\ pc[b] # "idle" => at[b] \in Paths \ {p}
      BY <1>0, TempsApart DEF Typed
    <3> QED
      BY <1>6, <3>1
  <2> QED
    BY <1>3, <1>4, <1>5, <1>7, <1>8, <2>1, <2>2 DEF Bystander
<1>11. WholeFiles'
  <2>1. \A q \in Paths : file'[q] = Torn =>
          /\ file[q] = Torn /\ (q \in marred => q \in marred')
          /\ \A b \in Actors : pc[b] \in {"rewriting", "refilling"} /\ fd[b] = FileName(q) =>
               pc'[b] = pc[b] /\ fd'[b] = fd[b]
    BY <1>2, <1>3, <1>5, <1>8
  <2> QED
    BY <2>1, StaysWhole
<1>12. Writer(w)'
  BY <1>1, <1>3, <1>4, <1>5, <1>6, <1>7 DEF Writer, WriterStates
<1>13. Remember /\ before'[w] # Disturbed => Undisturbed(w)'
  BY <1>0, <1>2, <1>3, <1>4, <1>8, BeginsUndisturbed
<1> QED
  BY <1>9, <1>10, <1>11, <1>12, <1>13

\* What is put into a temporary file changes no other, and no copy.
LEMMA PutInTemp ==
  ASSUME Inv, NEW w \in Writers, NEW p \in Paths, fd[w] = TempName(p), NEW c \in Content, Put(w, c)
  PROVE  /\ file' = file /\ Opened(w) = {} /\ \A d : Mixed(Opened(w), d) = copied
         /\ temp' \in [Paths -> Content] /\ temp'[p] = c
         /\ \A q \in Paths \ {p} : temp'[q] = temp[q]
         /\ fd' \in [Actors -> {None, Gone} \cup FileNames \cup TempNames] /\ fd'[w] = None
         /\ \A b \in Actors \ {w} : fd'[b] = fd[b]
         /\ source' \in [Writers -> Paths \cup {Absent}] /\ source'[w] = Absent
         /\ \A b \in Writers \ {w} : source'[b] = source[b]
<1>0. w \in Actors /\ Typed
  BY DEF Actors, Inv
<1>1. \A q \in Paths : fd[w] # FileName(q) /\ (fd[w] = TempName(q) <=> q = p)
  BY NamesDiffer
<1>2. file' = file
  BY <1>0, <1>1 DEF Put, Typed
<1>3. Opened(w) = {}
  BY <1>1 DEF Opened
<1>4. \A d : Mixed(Opened(w), d) = copied
  BY <1>0, <1>3 DEF Mixed, Typed
<1>5. /\ temp' \in [Paths -> Content] /\ temp'[p] = c
      /\ \A q \in Paths \ {p} : temp'[q] = temp[q]
  BY <1>0, <1>1 DEF Put, Typed
<1>6. /\ fd' \in [Actors -> {None, Gone} \cup FileNames \cup TempNames] /\ fd'[w] = None
      /\ \A b \in Actors \ {w} : fd'[b] = fd[b]
  BY <1>0 DEF Put, Closes, Typed
<1>7. /\ source' \in [Writers -> Paths \cup {Absent}] /\ source'[w] = Absent
      /\ \A b \in Writers \ {w} : source'[b] = source[b]
  BY <1>0 DEF Put, Closes, Typed
<1> QED
  BY <1>2, <1>3, <1>4, <1>5, <1>6, <1>7

\* What a writer writes, and what it copies, is content.
LEMMA WritingIsContent ==
  ASSUME Typed, NEW a \in Actors
  PROVE  Writing(a) \subseteq Content
BY DEF Typed, Writing, Content, Whole, Actors

\* Fill and FillFails: the temporary file is written and closed.
LEMMA FillKeeps ==
  ASSUME OneWriter, Inv, NEW w \in Writers, Fill(w) \/ FillFails(w)
  PROVE  /\ Typed' /\ WholeFiles' /\ Writer(w)'
         /\ \A b \in Actors \ {w} : Bystander(b)
         /\ Remember /\ before'[w] # Disturbed => Undisturbed(w)'
<1> DEFINE p == at[w]
<1>0. w \in Actors /\ Writer(w) /\ Typed /\ pc[w] = "filling" /\ w \notin Txs
  BY NamesAssumption DEF Actors, Inv, CallInv, Fill, FillFails
<1>1. p \in Paths /\ p \in Targets[w] /\ fd[w] = TempName(p) /\ temp[p] = Torn
  BY <1>0 DEF Writer, Typed
<1>2. ~Overlaps(w)
  <2>1. \A b \in Actors \ {w} : fd[b] # fd[w]
    BY <1>1, TempsApart
  <2>2. \A q \in Paths : fd[w] # FileName(q) /\ (fd[w] = TempName(q) => q = p)
    BY <1>1, NamesDiffer
  <2> QED
    BY <1>1, <2>1, <2>2 DEF Overlaps
<1>3. \E c \in Content :
        /\ Put(w, c)
        /\ \/ /\ c \in Writing(w) /\ copied' = Mixed(Opened(w), c)
              /\ pc' = [pc EXCEPT ![w] = "renaming"] /\ at' = at
           \/ /\ copied' = [Mixed(Opened(w), Torn) EXCEPT ![w] = {}]
              /\ pc' = [pc EXCEPT ![w] = "idle"] /\ at' = [at EXCEPT ![w] = Anywhere]
  <2>1. CASE Fill(w)
    BY <1>0, <1>2, <2>1, WritingIsContent DEF Fill, Goes
  <2>2. CASE FillFails(w)
    BY <2>2 DEF FillFails, Returns, Content
  <2> QED
    BY <2>1, <2>2
<1>4. PICK c \in Content :
        /\ Put(w, c)
        /\ \/ /\ c \in Writing(w) /\ copied' = Mixed(Opened(w), c)
              /\ pc' = [pc EXCEPT ![w] = "renaming"] /\ at' = at
           \/ /\ copied' = [Mixed(Opened(w), Torn) EXCEPT ![w] = {}]
              /\ pc' = [pc EXCEPT ![w] = "idle"] /\ at' = [at EXCEPT ![w] = Anywhere]
  BY <1>3
<1>5. UNCHANGED <<staged, item, original, marred>>
  BY DEF Fill, FillFails
<1>6. /\ file' = file /\ \A d : Mixed(Opened(w), d) = copied
      /\ temp' \in [Paths -> Content] /\ temp'[p] = c
      /\ \A q \in Paths \ {p} : temp'[q] = temp[q]
      /\ fd' \in [Actors -> {None, Gone} \cup FileNames \cup TempNames] /\ fd'[w] = None
      /\ \A b \in Actors \ {w} : fd'[b] = fd[b]
      /\ source' \in [Writers -> Paths \cup {Absent}] /\ source'[w] = Absent
      /\ \A b \in Writers \ {w} : source'[b] = source[b]
  BY <1>1, <1>4, PutInTemp
<1>7. /\ pc' \in [Actors -> WriterStates \cup TxStates] /\ pc'[w] \in {"renaming", "idle"}
      /\ \A b \in Actors \ {w} : pc'[b] = pc[b]
  <2>1. {"renaming", "idle"} \subseteq WriterStates \cup TxStates
    BY DEF WriterStates
  <2>2. \E state \in {"renaming", "idle"} : pc' = [pc EXCEPT ![w] = state]
    BY <1>4
  <2> QED
    BY <1>0, <2>1, <2>2, GoesTo
<1>8. at' \in [Actors -> Paths] /\ \A b \in Actors \ {w} : at'[b] = at[b]
  BY <1>0, <1>4, IsAt, AnywhereIsAPath DEF Typed
<1>9. /\ copied' \in [Writers -> SUBSET Content]
      /\ \A b \in Writers \ {w} : copied'[b] = copied[b]
      /\ \/ pc'[w] = "renaming" /\ at'[w] = p /\ copied'[w] = copied[w] /\ c \in Writing(w)
         \/ pc'[w] = "idle" /\ copied'[w] = {}
  <2>1. Mixed(Opened(w), c) = copied /\ Mixed(Opened(w), Torn) = copied
    BY <1>6
  <2>2. CASE c \in Writing(w) /\ copied' = copied /\ pc' = [pc EXCEPT ![w] = "renaming"] /\ at' = at
    BY <1>0, <2>2 DEF Typed
  <2>3. CASE copied' = [copied EXCEPT ![w] = {}] /\ pc' = [pc EXCEPT ![w] = "idle"]
    BY <1>0, <2>3 DEF Typed
  <2> QED
    BY <1>4, <2>1, <2>2, <2>3
<1> HIDE DEF p
<1>10. Typed'
  BY <1>0, <1>5, <1>6, <1>7, <1>8, <1>9 DEF Typed, FileNames, TempNames
<1>11. \A b \in Actors \ {w} : Bystander(b)
  <2> SUFFICES ASSUME NEW b \in Actors \ {w} PROVE Bystander(b)
    OBVIOUS
  <2>1. b \in Writers /\ pc[b] # "idle" => temp'[at[b]] = temp[at[b]]
    <3>1. b \in Writers /\ pc[b] # "idle" => at[b] \in Paths \ {p}
      BY <1>0, <1>1, TempsApart DEF Typed
    <3> QED
      BY <1>6, <3>1
  <2> QED
    BY <1>5, <1>6, <1>7, <1>8, <1>9, <2>1 DEF Bystander
<1>12. WholeFiles'
  <2>1. \A q \in Paths : file'[q] = Torn =>
          /\ file[q] = Torn /\ (q \in marred => q \in marred')
          /\ \A b \in Actors : pc[b] \in {"rewriting", "refilling"} /\ fd[b] = FileName(q) =>
               pc'[b] = pc[b] /\ fd'[b] = fd[b]
    BY <1>0, <1>5, <1>6, <1>7
  <2> QED
    BY <2>1, StaysWhole
<1>13. Writer(w)'
  BY <1>0, <1>1, <1>6, <1>9 DEF Writer, Writing, WriterStates
<1>14. Remember /\ before'[w] # Disturbed => Undisturbed(w)'
  <2> SUFFICES ASSUME Remember, before'[w] # Disturbed PROVE Undisturbed(w)'
    OBVIOUS
  <2>1. pc'[w] # "idle"
    BY <1>0 DEF Remember
  <2> QED
    BY <1>0, <1>6, <1>9, <2>1, GoesOnUndisturbed DEF p
<1> QED
  BY <1>10, <1>11, <1>12, <1>13, <1>14

\* What another has open keeps its name, or loses it to the file that takes it.
LEMMA ReplacedKeeps ==
  ASSUME Inv, NEW b \in Actors, NEW p \in Paths,
         fd'[b] = (IF fd[b] = FileName(p) THEN Gone ELSE fd[b]),
         file'[p] = Torn => p \in marred'
  PROVE  /\ fd'[b] \in {None, Gone} \cup FileNames \cup TempNames
         /\ fd[b] \notin FileNames => fd'[b] = fd[b]
         /\ fd[b] \in FileNames => fd'[b] \in {Gone} \cup FileNames
         /\ \A q \in Paths : fd[b] = FileName(q) /\ file[q] = Torn =>
              fd'[b] = fd[b] \/ file'[q] # Torn \/ (fd'[b] = Gone /\ q \in marred')
<1>1. FileName(p) \in FileNames /\ fd[b] \in {None, Gone} \cup FileNames \cup TempNames
  BY DEF FileNames, Inv, Typed
<1>2. \A q \in Paths : FileName(q) = FileName(p) => q = p
  BY NamesDiffer
<1> QED
  BY <1>1, <1>2

\* The name of p leads to a file that has all its content, or is marred.
LEMMA ReplacedWhole ==
  ASSUME Inv, NEW p \in Paths, file'[p] = Torn => p \in marred',
         \A q \in Paths \ {p} : file'[q] = file[q] /\ (q \in marred => q \in marred'),
         \A b \in Actors : pc[b] \in {"rewriting", "refilling"} =>
           pc'[b] = pc[b] /\ (fd[b] # FileName(p) => fd'[b] = fd[b])
  PROVE  WholeFiles'
<1>1. ASSUME NEW q \in Paths \ {p}, file'[q] = Torn
      PROVE  /\ file[q] = Torn /\ (q \in marred => q \in marred')
             /\ \A b \in Actors : pc[b] \in {"rewriting", "refilling"} /\ fd[b] = FileName(q) =>
                  pc'[b] = pc[b] /\ fd'[b] = fd[b]
  <2>1. FileName(q) # FileName(p)
    BY NamesDiffer
  <2> QED
    BY <1>1, <2>1
<1>2. \A q \in Paths : file'[q] = Torn =>
        \/ q \in marred'
        \/ /\ file[q] = Torn /\ (q \in marred => q \in marred')
           /\ \A b \in Actors : pc[b] \in {"rewriting", "refilling"} /\ fd[b] = FileName(q) =>
                pc'[b] = pc[b] /\ fd'[b] = fd[b]
  BY <1>1
<1> QED
  BY <1>2, StaysWhole

\* A copy that is cut short is a copy of what was.
LEMMA TornIsCopied ==
  ASSUME Inv, NEW w \in Writers, pc[w] = "renaming", temp[at[w]] = Torn
  PROVE  Torn \in copied[w]
<1>1. Torn \in Writing(w)
  BY DEF Inv, CallInv, Writer
<1>2. w # Torn
  BY NamesAssumption
<1> QED
  BY <1>1, <1>2 DEF Writing

\* The temporary file takes the place of the file.
LEMMA RenameKeeps ==
  ASSUME OneWriter, Inv, NEW w \in Writers, Rename(w)
  PROVE  /\ Typed' /\ WholeFiles' /\ Writer(w)'
         /\ \A b \in Actors \ {w} : Bystander(b)
         /\ Remember => before'[w] = Disturbed
<1> DEFINE p == at[w]
<1>0. w \in Actors /\ Writer(w) /\ Typed /\ pc[w] = "renaming" /\ w \notin Txs
  BY NamesAssumption DEF Actors, Inv, CallInv, Rename
<1>1. p \in Paths /\ p \in Targets[w] /\ fd[w] = None /\ source[w] = Absent /\ Absent \notin Paths
  BY <1>0, NamesAssumption DEF Writer, Typed
<1>2. /\ pc' \in [Actors -> WriterStates \cup TxStates] /\ pc'[w] = "idle"
      /\ \A b \in Actors \ {w} : pc'[b] = pc[b]
      /\ at' \in [Actors -> Paths] /\ at'[w] = Anywhere
      /\ \A b \in Actors \ {w} : at'[b] = at[b]
  <2>1. "idle" \in WriterStates \cup TxStates
    BY DEF WriterStates
  <2> QED
    BY <1>0, <2>1, GoesTo, IsAt, AnywhereIsAPath DEF Rename, Returns
<1>3. /\ file' \in [Paths -> Content] /\ temp' \in [Paths -> Content] /\ file'[p] = temp[p]
      /\ \A q \in Paths \ {p} : file'[q] = file[q] /\ temp'[q] = temp[q]
  BY <1>0, <1>1 DEF Rename, Typed, Content
<1>4. /\ marred' \subseteq Paths /\ (file'[p] = Torn => p \in marred')
      /\ \A q \in Paths \ {p} : q \in marred' <=> q \in marred
  BY <1>0, <1>1, <1>3, TornIsCopied DEF Rename, Typed
<1>5. \A b \in Actors : fd'[b] = IF fd[b] = FileName(p) THEN Gone ELSE fd[b]
  <2>1. \A b \in Actors : fd[b] # TempName(p)
    BY <1>1, TempsApart, NamesDiffer
  <2> QED
    BY <2>1 DEF Rename, Renamed
<1>6. fd' \in [Actors -> {None, Gone} \cup FileNames \cup TempNames]
  <2>1. \A b \in Actors : fd'[b] \in {None, Gone} \cup FileNames \cup TempNames
    BY <1>0, <1>5 DEF Typed
  <2>2. \E f : fd' = [a \in Actors |-> f[a]]
    <3>1. fd' = [b \in Actors |-> fd'[b]]
      BY DEF Rename, Renamed
    <3> QED
      BY <3>1
  <2> QED
    BY <2>1, <2>2
<1>7. /\ source' \in [Writers -> Paths \cup {Absent}] /\ source'[w] = Absent
      /\ \A b \in Writers : source[b] = Absent => source'[b] = Absent
      /\ copied' \in [Writers -> SUBSET Content] /\ copied'[w] = {}
      /\ \A b \in Writers \ {w} : copied'[b] = copied[b]
  BY <1>0, <1>1 DEF Rename, Forgets, Typed
<1>8. UNCHANGED <<staged, item, original>>
  BY DEF Rename
<1> HIDE DEF p
<1>9. Typed'
  BY <1>0, <1>2, <1>3, <1>4, <1>6, <1>7, <1>8 DEF Typed, FileNames, TempNames
<1>10. \A b \in Actors \ {w} : Bystander(b)
  <2> SUFFICES ASSUME NEW b \in Actors \ {w} PROVE Bystander(b)
    OBVIOUS
  <2>1. b \in Writers /\ pc[b] # "idle" => temp'[at[b]] = temp[at[b]]
    <3>1. b \in Writers /\ pc[b] # "idle" => at[b] \in Paths \ {p}
      BY <1>0, <1>1, TempsApart DEF Typed
    <3> QED
      BY <1>3, <3>1
  <2>2. /\ fd[b] \notin FileNames => fd'[b] = fd[b]
        /\ fd[b] \in FileNames => fd'[b] \in {Gone} \cup FileNames
        /\ \A q \in Paths : fd[b] = FileName(q) /\ file[q] = Torn =>
             fd'[b] = fd[b] \/ file'[q] # Torn \/ (fd'[b] = Gone /\ q \in marred')
    BY <1>1, <1>4, <1>5, ReplacedKeeps
  <2> QED
    BY <1>2, <1>7, <1>8, <2>1, <2>2 DEF Bystander
<1>11. WholeFiles'
  <2>1. \A b \in Actors : pc[b] \in {"rewriting", "refilling"} =>
          pc'[b] = pc[b] /\ (fd[b] # FileName(p) => fd'[b] = fd[b])
    BY <1>0, <1>2, <1>5
  <2> QED
    BY <1>1, <1>3, <1>4, <2>1, ReplacedWhole
<1>12. Writer(w)'
  <2>1. fd'[w] = None
    BY <1>0, <1>1, <1>5, NamesDiffer
  <2> QED
    BY <1>2, <1>7, <2>1 DEF Writer, WriterStates
<1>13. Remember => before'[w] = Disturbed
  BY <1>0, <1>2 DEF Remember
<1> QED
  BY <1>9, <1>10, <1>11, <1>12, <1>13

\* The temporary file is removed.
LEMMA RenameFailsKeeps ==
  ASSUME OneWriter, Inv, NEW w \in Writers, RenameFails(w)
  PROVE  /\ Typed' /\ WholeFiles' /\ Writer(w)'
         /\ \A b \in Actors \ {w} : Bystander(b)
         /\ Remember => before'[w] = Disturbed
<1> DEFINE p == at[w]
<1>0. w \in Actors /\ Writer(w) /\ Typed /\ pc[w] = "renaming" /\ w \notin Txs
  BY NamesAssumption DEF Actors, Inv, CallInv, RenameFails
<1>1. p \in Paths /\ p \in Targets[w] /\ fd[w] = None /\ source[w] = Absent
  BY <1>0 DEF Writer, Typed
<1>2. /\ pc' \in [Actors -> WriterStates \cup TxStates] /\ pc'[w] = "idle"
      /\ \A b \in Actors \ {w} : pc'[b] = pc[b]
      /\ at' \in [Actors -> Paths] /\ at'[w] = Anywhere
      /\ \A b \in Actors \ {w} : at'[b] = at[b]
  <2>1. "idle" \in WriterStates \cup TxStates
    BY DEF WriterStates
  <2> QED
    BY <1>0, <2>1, GoesTo, IsAt, AnywhereIsAPath DEF RenameFails, Returns
<1>3. /\ temp' \in [Paths -> Content] /\ \A q \in Paths \ {p} : temp'[q] = temp[q]
  BY <1>0, <1>1 DEF RenameFails, RemoveTemp, Typed, Content
<1>4. fd' = fd
  <2>1. \A b \in Actors : fd[b] # TempName(p)
    BY <1>1, TempsApart, NamesDiffer
  <2>2. fd' = [a \in Actors |-> IF fd[a] = TempName(p) THEN Gone ELSE fd[a]]
    BY DEF RenameFails, RemoveTemp, Unlinked
  <2> QED
    BY <1>0, <2>1, <2>2 DEF Typed
<1>5. /\ copied' \in [Writers -> SUBSET Content] /\ copied'[w] = {}
      /\ \A b \in Writers \ {w} : copied'[b] = copied[b]
  BY <1>0 DEF RenameFails, RemoveTemp, Typed
<1>6. UNCHANGED <<file, staged, source, item, original, marred>>
  BY DEF RenameFails
<1> HIDE DEF p
<1>7. Typed'
  BY <1>0, <1>2, <1>3, <1>4, <1>5, <1>6 DEF Typed, FileNames, TempNames
<1>8. \A b \in Actors \ {w} : Bystander(b)
  <2> SUFFICES ASSUME NEW b \in Actors \ {w} PROVE Bystander(b)
    OBVIOUS
  <2>1. b \in Writers /\ pc[b] # "idle" => temp'[at[b]] = temp[at[b]]
    <3>1. b \in Writers /\ pc[b] # "idle" => at[b] \in Paths \ {p}
      BY <1>0, <1>1, TempsApart DEF Typed
    <3> QED
      BY <1>3, <3>1
  <2> QED
    BY <1>2, <1>4, <1>5, <1>6, <2>1 DEF Bystander
<1>9. WholeFiles'
  <2>1. \A q \in Paths : file'[q] = Torn =>
          /\ file[q] = Torn /\ (q \in marred => q \in marred')
          /\ \A b \in Actors : pc[b] \in {"rewriting", "refilling"} /\ fd[b] = FileName(q) =>
               pc'[b] = pc[b] /\ fd'[b] = fd[b]
    BY <1>0, <1>2, <1>4, <1>6
  <2> QED
    BY <2>1, StaysWhole
<1>10. Writer(w)'
  BY <1>1, <1>2, <1>4, <1>5, <1>6 DEF Writer, WriterStates
<1>11. Remember => before'[w] = Disturbed
  BY <1>0, <1>2 DEF Remember
<1> QED
  BY <1>7, <1>8, <1>9, <1>10, <1>11

-----------------------------------------------------------------------------
(* Writing in place                                                        *)

\* Copies of a file that is written in place may find something else in it.
LEMMA MixedCopies ==
  ASSUME Inv, NEW ps \in SUBSET Paths, NEW c \in Content, copied' = Mixed(ps, c)
  PROVE  /\ copied' \in [Writers -> SUBSET Content]
         /\ \A w \in Writers : source[w] = Absent => copied'[w] = copied[w]
         /\ \A w \in Writers : copied[w] # {} => copied'[w] # {}
<1>1. Absent \notin ps /\ Torn \in Content
  BY NamesAssumption DEF Content
<1> QED
  BY <1>1 DEF Mixed, Inv, Typed

\* A file is opened in place, which truncates it.
LEMMA TruncatedKeeps ==
  ASSUME Inv, NEW a \in Actors, NEW p \in Paths, Truncated(a, p),
         pc[a] \in {"computing", "restoring"}, pc'[a] \in {"rewriting", "refilling"}, at' = at,
         \A b \in Actors \ {a} : pc'[b] = pc[b],
         UNCHANGED <<temp, staged, source, item, original, marred>>
  PROVE  /\ WholeFiles' /\ \A b \in Actors \ {a} : Bystander(b)
         /\ file' \in [Paths -> Content] /\ file'[p] = Torn /\ \A q \in Paths \ {p} : file'[q] = file[q]
         /\ fd' \in [Actors -> {None, Gone} \cup FileNames \cup TempNames] /\ fd'[a] = FileName(p)
         /\ copied' \in [Writers -> SUBSET Content]
         /\ \A w \in Writers : source[w] = Absent => copied'[w] = copied[w]
<1>0. Typed
  BY DEF Inv
<1>1. file' \in [Paths -> Content] /\ file'[p] = Torn /\ \A q \in Paths \ {p} : file'[q] = file[q]
  BY <1>0 DEF Truncated, Typed, Content
<1>2. /\ fd' \in [Actors -> {None, Gone} \cup FileNames \cup TempNames] /\ fd'[a] = FileName(p)
      /\ \A b \in Actors \ {a} : fd'[b] = fd[b]
  BY <1>0 DEF Truncated, Typed, FileNames
<1>3. copied' = Mixed({p}, Torn) /\ {p} \in SUBSET Paths /\ Torn \in Content
  BY DEF Truncated, Content
<1>4. /\ copied' \in [Writers -> SUBSET Content]
      /\ \A w \in Writers : source[w] = Absent => copied'[w] = copied[w]
      /\ \A w \in Writers : copied[w] # {} => copied'[w] # {}
  BY <1>3, MixedCopies
<1>5. \A b \in Actors \ {a} : Bystander(b)
  BY <1>2, <1>4 DEF Bystander
<1>6. WholeFiles'
  <2>1. \A q \in Paths \ {p} : file'[q] = Torn =>
          /\ file[q] = Torn /\ (q \in marred => q \in marred')
          /\ \A b \in Actors : pc[b] \in {"rewriting", "refilling"} /\ fd[b] = FileName(q) =>
               pc'[b] = pc[b] /\ fd'[b] = fd[b]
    BY <1>1, <1>2
  <2>2. \A q \in Paths : file'[q] = Torn =>
          \/ \E b \in Actors : pc'[b] \in {"rewriting", "refilling"} /\ fd'[b] = FileName(q)
          \/ /\ file[q] = Torn /\ (q \in marred => q \in marred')
             /\ \A b \in Actors : pc[b] \in {"rewriting", "refilling"} /\ fd[b] = FileName(q) =>
                  pc'[b] = pc[b] /\ fd'[b] = fd[b]
    BY <1>2, <2>1
  <2> QED
    BY <2>2, StaysWhole
<1> QED
  BY <1>1, <1>2, <1>4, <1>5, <1>6

\* What is written in place is c, or the file is marred.
LEMMA PutInPlaceKeeps ==
  ASSUME Inv, NEW a \in Actors, NEW c \in Content, PutInPlace(a, c),
         pc[a] \in {"rewriting", "refilling"}, fd[a] \in {Gone} \cup FileNames,
         \A b \in Actors \ {a} :
           /\ pc'[b] = pc[b] /\ at'[b] = at[b]
           /\ b \in Txs => item'[b] = item[b] /\ original'[b] = original[b] /\ staged'[b] = staged[b]
  PROVE  /\ WholeFiles' /\ \A b \in Actors \ {a} : Bystander(b)
         /\ file' \in [Paths -> Content] /\ temp' = temp
         /\ \A q \in Paths : IF fd[a] = FileName(q) THEN file'[q] = c \/ q \in marred' ELSE file'[q] = file[q]
         /\ fd' \in [Actors -> {None, Gone} \cup FileNames \cup TempNames] /\ fd'[a] = None
         /\ source' \in [Writers -> Paths \cup {Absent}] /\ (a \in Writers => source'[a] = Absent)
         /\ copied' \in [Writers -> SUBSET Content]
         /\ \A w \in Writers : source[w] = Absent => copied'[w] = copied[w]
         /\ marred \subseteq marred' /\ marred' \subseteq Paths
<1>0. Typed
  BY DEF Inv
<1>1. PICK d \in {c} \cup (IF Overlaps(a) THEN {Torn} ELSE {}) :
        /\ Put(a, d)
        /\ copied' = Mixed(Opened(a), d)
        /\ marred' = IF d = Torn THEN marred \cup Opened(a) ELSE marred
  BY DEF PutInPlace
<1>2. d \in Content /\ d \in {c, Torn} /\ Opened(a) \in SUBSET Paths
  BY DEF Content, Opened
<1>3. temp' = temp
  <2>1. \A q : fd[a] # TempName(q)
    BY NamesDiffer DEF FileNames
  <2> QED
    BY <1>0, <1>1, <2>1 DEF Put, Typed
<1>4. /\ file' \in [Paths -> Content]
      /\ \A q \in Paths : file'[q] = IF fd[a] = FileName(q) THEN d ELSE file[q]
  BY <1>0, <1>1, <1>2 DEF Put, Typed
<1>5. marred \subseteq marred' /\ marred' \subseteq Paths
      /\ \A q \in Paths : fd[a] = FileName(q) /\ d = Torn => q \in marred'
  BY <1>0, <1>1 DEF Typed, Opened
<1>6. /\ fd' \in [Actors -> {None, Gone} \cup FileNames \cup TempNames] /\ fd'[a] = None
      /\ \A b \in Actors \ {a} : fd'[b] = fd[b]
  BY <1>0, <1>1 DEF Put, Closes, Typed
<1>7. /\ source' \in [Writers -> Paths \cup {Absent}] /\ (a \in Writers => source'[a] = Absent)
      /\ \A w \in Writers : source[w] = Absent => source'[w] = Absent
  BY <1>0, <1>1 DEF Put, Closes, Typed
<1>8. /\ copied' \in [Writers -> SUBSET Content]
      /\ \A w \in Writers : source[w] = Absent => copied'[w] = copied[w]
      /\ \A w \in Writers : copied[w] # {} => copied'[w] # {}
  BY <1>1, <1>2, MixedCopies
<1>9. \A b \in Actors \ {a} : Bystander(b)
  BY <1>3, <1>6, <1>7, <1>8 DEF Bystander
<1>10. WholeFiles'
  <2>1. ASSUME NEW q \in Paths, file'[q] = Torn, q \notin marred'
        PROVE  /\ file[q] = Torn
               /\ \A b \in Actors : pc[b] \in {"rewriting", "refilling"} /\ fd[b] = FileName(q) =>
                    pc'[b] = pc[b] /\ fd'[b] = fd[b]
    <3>1. fd[a] # FileName(q)
      BY <1>4, <1>5, <2>1
    <3> QED
      BY <1>4, <1>6, <2>1, <3>1
  <2>2. \A q \in Paths : file'[q] = Torn =>
          \/ q \in marred'
          \/ /\ file[q] = Torn /\ (q \in marred => q \in marred')
             /\ \A b \in Actors : pc[b] \in {"rewriting", "refilling"} /\ fd[b] = FileName(q) =>
                  pc'[b] = pc[b] /\ fd'[b] = fd[b]
    BY <1>5, <2>1
  <2> QED
    BY <2>2, StaysWhole
<1> QED
  BY <1>2, <1>3, <1>4, <1>5, <1>6, <1>7, <1>8, <1>9, <1>10

\* An update opens the file itself ...
LEMMA TruncateKeeps ==
  ASSUME Inv, NEW w \in Writers, Truncate(w)
  PROVE  /\ Typed' /\ WholeFiles' /\ Writer(w)'
         /\ \A b \in Actors \ {w} : Bystander(b)
         /\ Remember /\ before'[w] # Disturbed => Undisturbed(w)'
<1> DEFINE p == at[w]
<1>0. w \in Actors /\ Writer(w) /\ Typed /\ pc[w] = "computing" /\ w \notin Txs
  BY NamesAssumption DEF Actors, Inv, CallInv, Truncate
<1>1. p \in Paths /\ p \in Targets[w] /\ source[w] = Absent /\ copied[w] = {}
  BY <1>0 DEF Writer, Typed
<1>2. /\ pc' \in [Actors -> WriterStates \cup TxStates] /\ pc'[w] = "rewriting"
      /\ \A b \in Actors \ {w} : pc'[b] = pc[b]
  <2>1. "rewriting" \in WriterStates \cup TxStates /\ pc' = [pc EXCEPT ![w] = "rewriting"]
    BY DEF WriterStates, Truncate, Goes
  <2> QED
    BY <1>0, <2>1, GoesTo
<1>3. UNCHANGED <<temp, staged, source, item, original, marred>> /\ at' = at /\ Truncated(w, p)
  BY DEF Truncate
<1> HIDE DEF p
<1>4. /\ WholeFiles' /\ \A b \in Actors \ {w} : Bystander(b)
      /\ file' \in [Paths -> Content] /\ file'[p] = Torn /\ \A q \in Paths \ {p} : file'[q] = file[q]
      /\ fd' \in [Actors -> {None, Gone} \cup FileNames \cup TempNames] /\ fd'[w] = FileName(p)
      /\ copied' \in [Writers -> SUBSET Content]
      /\ \A v \in Writers : source[v] = Absent => copied'[v] = copied[v]
  BY <1>0, <1>1, <1>2, <1>3, TruncatedKeeps
<1>5. Typed'
  BY <1>0, <1>2, <1>3, <1>4 DEF Typed, FileNames, TempNames
<1>6. Writer(w)'
  BY <1>1, <1>2, <1>3, <1>4 DEF Writer, WriterStates, FileNames, p
<1>7. Remember /\ before'[w] # Disturbed => Undisturbed(w)'
  <2> SUFFICES ASSUME Remember, before'[w] # Disturbed PROVE Undisturbed(w)'
    OBVIOUS
  <2>1. before[w] # Disturbed /\ before'[w] = before[w]
    BY <1>0, <1>2, OwnHistory
  <2>2. Undisturbed(w)
    BY <1>0, <2>1 DEF Inv, HistoryInv
  <2> HIDE DEF Remember
  <2> QED
    BY <1>2, <1>3, <1>4, <2>1, <2>2 DEF Undisturbed, p
<1> QED
  BY <1>4, <1>5, <1>6, <1>7

\* ... and writes it, or fails.
LEMMA RewriteKeeps ==
  ASSUME Inv, NEW w \in Writers, NEW c \in Content, PutInPlace(w, c), pc[w] = "rewriting",
         pc' = [pc EXCEPT ![w] = "idle"], at' = [at EXCEPT ![w] = Anywhere],
         UNCHANGED <<staged, item, original>>
  PROVE  /\ Typed' /\ WholeFiles' /\ Writer(w)'
         /\ \A b \in Actors \ {w} : Bystander(b)
         /\ Remember => before'[w] = Disturbed
         /\ before[w] # Disturbed => \A p \in DOMAIN before[w] : p \in marred' \/ file'[p] = c
<1>0. w \in Actors /\ Writer(w) /\ Typed /\ w \notin Txs
  BY NamesAssumption DEF Actors, Inv, CallInv
<1>1. fd[w] \in {Gone} \cup FileNames /\ source[w] = Absent /\ copied[w] = {}
  BY <1>0 DEF Writer
<1>2. /\ pc' \in [Actors -> WriterStates \cup TxStates] /\ pc'[w] = "idle"
      /\ \A b \in Actors \ {w} : pc'[b] = pc[b]
      /\ at' \in [Actors -> Paths] /\ at'[w] = Anywhere
      /\ \A b \in Actors \ {w} : at'[b] = at[b]
  <2>1. "idle" \in WriterStates \cup TxStates
    BY DEF WriterStates
  <2> QED
    BY <1>0, <2>1, GoesTo, IsAt, AnywhereIsAPath
<1>3. /\ WholeFiles' /\ \A b \in Actors \ {w} : Bystander(b)
      /\ file' \in [Paths -> Content] /\ temp' = temp
      /\ \A q \in Paths : IF fd[w] = FileName(q) THEN file'[q] = c \/ q \in marred' ELSE file'[q] = file[q]
      /\ fd' \in [Actors -> {None, Gone} \cup FileNames \cup TempNames] /\ fd'[w] = None
      /\ source' \in [Writers -> Paths \cup {Absent}] /\ (w \in Writers => source'[w] = Absent)
      /\ copied' \in [Writers -> SUBSET Content]
      /\ \A v \in Writers : source[v] = Absent => copied'[v] = copied[v]
      /\ marred \subseteq marred' /\ marred' \subseteq Paths
  BY <1>0, <1>1, <1>2, PutInPlaceKeeps
<1>4. Typed'
  BY <1>0, <1>2, <1>3 DEF Typed, FileNames, TempNames
<1>5. Writer(w)'
  BY <1>1, <1>2, <1>3 DEF Writer, WriterStates
<1>6. Remember => before'[w] = Disturbed
  BY <1>0, <1>2 DEF Remember
<1>7. ASSUME before[w] # Disturbed, NEW p \in DOMAIN before[w] PROVE p \in marred' \/ file'[p] = c
  <2>1. Undisturbed(w)
    BY <1>0, <1>7 DEF Inv, HistoryInv
  <2>2. p = at[w] /\ p \in Paths
    BY <1>0, <1>7, <2>1, FilesOf DEF Undisturbed, Typed
  <2>3. fd[w] = FileName(p) \/ p \in marred
    BY <2>1, <2>2 DEF Undisturbed
  <2> QED
    BY <1>3, <2>2, <2>3
<1> QED
  BY <1>3, <1>4, <1>5, <1>6, <1>7

-----------------------------------------------------------------------------
(* The steps of a transaction                                              *)

\* The next item, or the next state.
LEMMA AdvanceMoves ==
  ASSUME Inv, NEW t \in Txs, NEW during \in TxStates, NEW after \in TxStates, NEW what,
         NEW originals \in [Paths -> Content], Advance(t, during, after, what, originals)
  PROVE  /\ pc' \in [Actors -> WriterStates \cup TxStates] /\ at' \in [Actors -> Paths]
         /\ item' \in [Txs -> Nat] /\ original' \in [Txs -> [Paths -> Content]]
         /\ \A b \in Actors \ {t} :
              /\ pc'[b] = pc[b] /\ at'[b] = at[b]
              /\ b \in Txs => item'[b] = item[b] /\ original'[b] = original[b]
         /\ item[t] # Items(t) =>
              /\ item[t] + 1 \in 1 .. Items(t) /\ item'[t] = item[t] + 1
              /\ pc'[t] = during /\ at'[t] = Order[t][item[t] + 1] /\ original'[t] = originals
         /\ item[t] = Items(t) =>
              /\ item'[t] = 1 /\ pc'[t] = after
              /\ after # "idle" => at'[t] = Order[t][1] /\ original'[t] = originals
              /\ after = "idle" => result'[t] = what
<1> DEFINE more == item[t] < Items(t)
           next == IF more THEN item[t] + 1 ELSE 1
           ends == ~more /\ after = "idle"
<1>0. t \in Actors /\ Typed /\ item[t] \in 1 .. Items(t)
  BY DEF Actors, Inv, CallInv, Transaction
<1>1. Items(t) \in Nat \ {0} /\ 1 \in 1 .. Items(t) /\ \A k \in 1 .. Items(t) : Order[t][k] \in Paths
  BY ItemsOf
<1>2. next \in 1 .. Items(t) /\ next \in Nat /\ Order[t][next] \in Paths /\ (more <=> item[t] # Items(t))
  BY <1>0, <1>1
<1>3. /\ item' = [item EXCEPT ![t] = next]
      /\ at' = [at EXCEPT ![t] = IF ends THEN Anywhere ELSE Order[t][next]]
      /\ pc' = [pc EXCEPT ![t] = IF more THEN during ELSE after]
      /\ result' = [Unanswered EXCEPT ![t] = IF ends THEN what ELSE "none"]
      /\ original' = [original EXCEPT ![t] = IF ends THEN Nothing ELSE originals]
  BY DEF Advance
<1>4. (IF ends THEN Anywhere ELSE Order[t][next]) \in Paths
  BY <1>2, AnywhereIsAPath
<1>5. (IF ends THEN Nothing ELSE originals) \in [Paths -> Content]
  BY DEF Nothing, Content
<1>6. (IF more THEN during ELSE after) \in WriterStates \cup TxStates
  OBVIOUS
<1>7. /\ item' \in [Txs -> Nat] /\ item'[t] = next /\ \A b \in Txs \ {t} : item'[b] = item[b]
  BY <1>0, <1>2, <1>3 DEF Typed
<1>8. /\ original' \in [Txs -> [Paths -> Content]] /\ \A b \in Txs \ {t} : original'[b] = original[b]
      /\ original'[t] = IF ends THEN Nothing ELSE originals
  BY <1>0, <1>3, <1>5 DEF Typed
<1>9. /\ pc' \in [Actors -> WriterStates \cup TxStates] /\ at' \in [Actors -> Paths]
      /\ pc'[t] = (IF more THEN during ELSE after)
      /\ at'[t] = (IF ends THEN Anywhere ELSE Order[t][next])
      /\ \A b \in Actors \ {t} : pc'[b] = pc[b] /\ at'[b] = at[b]
  <2>1. \A state \in WriterStates \cup TxStates : pc' = [pc EXCEPT ![t] = state] =>
          /\ pc' \in [Actors -> WriterStates \cup TxStates] /\ pc'[t] = state
          /\ \A b \in Actors \ {t} : pc'[b] = pc[b]
    BY <1>0, GoesTo
  <2>2. \A p \in Paths : at' = [at EXCEPT ![t] = p] =>
          /\ at' \in [Actors -> Paths] /\ at'[t] = p
          /\ \A b \in Actors \ {t} : at'[b] = at[b]
    BY <1>0, IsAt
  <2> DEFINE s == IF more THEN during ELSE after
             p == IF ends THEN Anywhere ELSE Order[t][next]
  <2>3. pc' = [pc EXCEPT ![t] = s] /\ s \in WriterStates \cup TxStates
    BY <1>3, <1>6
  <2>4. at' = [at EXCEPT ![t] = p] /\ p \in Paths
    BY <1>3, <1>4
  <2> HIDE DEF s, p
  <2>5. /\ pc' \in [Actors -> WriterStates \cup TxStates] /\ pc'[t] = s
        /\ \A b \in Actors \ {t} : pc'[b] = pc[b]
    BY <2>1, <2>3
  <2>6. /\ at' \in [Actors -> Paths] /\ at'[t] = p
        /\ \A b \in Actors \ {t} : at'[b] = at[b]
    BY <2>2, <2>4
  <2> QED
    BY <2>5, <2>6 DEF s, p
<1>10. result'[t] = IF ends THEN what ELSE "none"
  BY <1>0, <1>3 DEF Unanswered
<1> QED
  BY <1>2, <1>7, <1>8, <1>9, <1>10

\* One temporary file of a transaction is written or removed.
LEMMA StagedItem ==
  ASSUME Inv, NEW t \in Txs, NEW p \in Paths, NEW c \in {t, Absent, Torn},
         staged' = [staged EXCEPT ![t][p] = c]
  PROVE  /\ staged' \in [Txs -> [Paths -> Txs \cup {Absent, Torn}]]
         /\ staged'[t][p] = c /\ \A q \in Paths \ {p} : staged'[t][q] = staged[t][q]
         /\ \A u \in Txs \ {t} : staged'[u] = staged[u]
<1>1. staged[t] \in [Paths -> Txs \cup {Absent, Torn}]
  BY DEF Inv, Typed
<1> DEFINE s == [staged[t] EXCEPT ![p] = c]
<1>2. /\ s \in [Paths -> Txs \cup {Absent, Torn}] /\ s[p] = c
      /\ \A q \in Paths \ {p} : s[q] = staged[t][q]
  BY <1>1
<1>3. staged' = [staged EXCEPT ![t] = s]
  OBVIOUS
<1> HIDE DEF s
<1> QED
  BY <1>2, <1>3 DEF Inv, Typed

\* The files of a transaction, wherever it is.
LEMMA SameFiles ==
  ASSUME NEW t \in Txs, NEW p, NEW q
  PROVE  Files(t, p) = Files(t, q)
BY FilesOf

LEMMA BeginKeeps ==
  ASSUME Inv, NEW t \in Txs, Begin(t)
  PROVE  /\ Typed' /\ WholeFiles' /\ Transaction(t)'
         /\ \A b \in Actors \ {t} : Bystander(b)
         /\ Remember /\ before'[t] # Disturbed => Undisturbed(t)'
<1>0. t \in Actors /\ Transaction(t) /\ Typed /\ pc[t] = "idle" /\ t \notin Writers
  BY NamesAssumption DEF Actors, Inv, CallInv, Begin, Starts
<1>1. item[t] = 1 /\ 1 \in 1 .. Items(t) /\ Order[t][1] \in Paths
  BY <1>0, ItemsOf DEF Transaction
<1>2. /\ pc' \in [Actors -> WriterStates \cup TxStates] /\ pc'[t] = "staging"
      /\ at' \in [Actors -> Paths] /\ at'[t] = Order[t][1]
      /\ \A b \in Actors \ {t} : pc'[b] = pc[b] /\ at'[b] = at[b]
  <2>1. /\ "staging" \in WriterStates \cup TxStates /\ pc' = [pc EXCEPT ![t] = "staging"]
        /\ at' = [at EXCEPT ![t] = Order[t][1]]
    BY DEF TxStates, Begin, Goes, Starts
  <2> QED
    BY <1>0, <1>1, <2>1, GoesTo, IsAt
<1>3. /\ staged' \in [Txs -> [Paths -> Txs \cup {Absent, Torn}]] /\ staged'[t] = Nothing
      /\ \A u \in Txs \ {t} : staged'[u] = staged[u]
  BY <1>0 DEF Begin, Typed, Nothing
<1>4. UNCHANGED <<file, temp, fd, source, copied, item, original, marred>>
  BY DEF Begin
<1>5. Typed'
  BY <1>0, <1>2, <1>3, <1>4 DEF Typed, FileNames, TempNames
<1>6. WholeFiles' /\ \A b \in Actors \ {t} : Bystander(b)
  BY <1>0, <1>2, <1>3, <1>4, QuietStep
<1>7. Transaction(t)'
  <2>1. Span(t, 1, item'[t] - 1) = {}
    BY <1>1, <1>4, SpanOf
  <2>2. Holds(t, Span(t, 1, item[t] - 1))'
    BY <1>3, <2>1 DEF Holds, Nothing, Span
  <2> QED
    BY <1>0, <1>1, <1>2, <1>4, <2>2 DEF Transaction, TxStates, Item, Span
<1>8. Remember /\ before'[t] # Disturbed => Undisturbed(t)'
  BY <1>0, <1>1, <1>2, <1>4, BeginsUndisturbed
<1> QED
  BY <1>5, <1>6, <1>7, <1>8

\* An item is staged, and what its file held is kept.
LEMMA StageKeeps ==
  ASSUME Inv, NEW t \in Txs, Stage(t)
  PROVE  /\ Typed' /\ WholeFiles' /\ Transaction(t)' /\ pc'[t] # "idle"
         /\ \A b \in Actors \ {t} : Bystander(b)
         /\ Remember /\ before'[t] # Disturbed => Undisturbed(t)'
<1> DEFINE i == item[t]
           p == Item(t)
           originals == [original[t] EXCEPT ![p] = file[p]]
<1>0. /\ t \in Actors /\ Transaction(t) /\ Typed /\ pc[t] = "staging" /\ t \notin Writers
      /\ pc[t] \notin {"idle", "refilling", "rewriting"}
  BY NamesAssumption DEF Actors, Inv, CallInv, Stage
<1>1. i \in 1 .. Items(t) /\ p = Order[t][i] /\ p \in Paths /\ fd[t] = None /\ Items(t) \in Nat \ {0}
  BY <1>0, SpanOf, ItemsOf DEF Transaction, Item
<1>2. /\ originals \in [Paths -> Content] /\ originals[p] = file[p]
      /\ \A q \in Paths \ {p} : originals[q] = original[t][q]
  BY <1>0, <1>1 DEF Typed
<1>3. /\ Advance(t, "staging", "committing", "none", originals)
      /\ staged' = [staged EXCEPT ![t][p] = t]
      /\ UNCHANGED <<file, temp, fd, source, copied, marred>>
  BY DEF Stage
<1> HIDE DEF originals, p, i
<1>4. /\ pc' \in [Actors -> WriterStates \cup TxStates] /\ at' \in [Actors -> Paths]
      /\ item' \in [Txs -> Nat] /\ original' \in [Txs -> [Paths -> Content]]
      /\ \A b \in Actors \ {t} :
           /\ pc'[b] = pc[b] /\ at'[b] = at[b]
           /\ b \in Txs => item'[b] = item[b] /\ original'[b] = original[b]
      /\ item[t] # Items(t) =>
           /\ item[t] + 1 \in 1 .. Items(t) /\ item'[t] = item[t] + 1
           /\ pc'[t] = "staging" /\ at'[t] = Order[t][item[t] + 1] /\ original'[t] = originals
      /\ item[t] = Items(t) =>
           /\ item'[t] = 1 /\ pc'[t] = "committing"
           /\ "committing" # "idle" => at'[t] = Order[t][1] /\ original'[t] = originals
  <2>1. "staging" \in TxStates /\ "committing" \in TxStates
    BY DEF TxStates
  <2> QED
    BY <1>2, <1>3, <2>1, AdvanceMoves
<1>5. /\ staged' \in [Txs -> [Paths -> Txs \cup {Absent, Torn}]]
      /\ staged'[t][p] = t /\ \A q \in Paths \ {p} : staged'[t][q] = staged[t][q]
      /\ \A u \in Txs \ {t} : staged'[u] = staged[u]
  <2>1. \A q \in Paths : \A c \in {t, Absent, Torn} : staged' = [staged EXCEPT ![t][q] = c] =>
          /\ staged' \in [Txs -> [Paths -> Txs \cup {Absent, Torn}]]
          /\ staged'[t][q] = c /\ \A r \in Paths \ {q} : staged'[t][r] = staged[t][r]
          /\ \A u \in Txs \ {t} : staged'[u] = staged[u]
    BY StagedItem
  <2> QED
    BY <1>1, <1>3, <2>1
<1>6. Typed'
  BY <1>0, <1>3, <1>4, <1>5 DEF Typed, FileNames, TempNames
<1>7. WholeFiles' /\ \A b \in Actors \ {t} : Bystander(b)
  BY <1>0, <1>3, <1>4, <1>5, QuietStep
<1>8. original'[t] = originals /\ pc'[t] # "idle"
  BY <1>4
<1>9. Transaction(t)'
  <2>1. Span(t, 1, i) = Span(t, 1, i - 1) \cup {p}
    BY <1>1, SpanOf
  <2>2. \A q \in Paths : staged[t][q] = IF q \in Span(t, 1, i - 1) THEN t ELSE Absent
    BY <1>0 DEF Transaction, Holds, i
  <2>3. \A q \in Paths : staged'[t][q] = IF q \in Span(t, 1, i) THEN t ELSE Absent
    BY <1>5, <2>1, <2>2
  <2>4. fd'[t] = None
    BY <1>1, <1>3
  <2>5. CASE i # Items(t)
    <3>0. i + 1 \in 1 .. Items(t) /\ item'[t] = i + 1 /\ pc'[t] = "staging" /\ at'[t] = Order[t][i + 1]
      BY <1>4, <2>5 DEF i
    <3>1. item'[t] - 1 = i /\ pc'[t] = "staging" /\ at'[t] = Order[t][item'[t]] /\ item'[t] \in 1 .. Items(t)
      BY <1>1, <3>0
    <3>2. \A q \in Paths : staged'[t][q] = IF q \in Span(t, 1, item'[t] - 1) THEN t ELSE Absent
      BY <2>3, <3>1
    <3> QED
      BY <2>4, <3>1, <3>2 DEF Transaction, Item, Holds, Span, TxStates
  <2>6. CASE i = Items(t)
    <3>1. item'[t] = 1 /\ pc'[t] = "committing" /\ at'[t] = Order[t][item'[t]] /\ item'[t] \in 1 .. Items(t)
      BY <1>1, <1>4, <2>6 DEF i
    <3>2. \A q \in Paths : staged'[t][q] = IF q \in Span(t, item'[t], Items(t)) THEN t ELSE Absent
      BY <2>3, <2>6, <3>1
    <3> QED
      BY <2>4, <3>1, <3>2 DEF Transaction, Item, Holds, Span, TxStates
  <2> QED
    BY <2>5, <2>6
<1>10. Remember /\ before'[t] # Disturbed => Undisturbed(t)'
  <2> SUFFICES ASSUME Remember, before'[t] # Disturbed PROVE Undisturbed(t)'
    OBVIOUS
  <2>1. pc'[t] # pc[t] \/ (t \in Txs /\ item'[t] # item[t])
    BY <1>0, <1>1, <1>4 DEF i
  <2>2. before[t] # Disturbed /\ before'[t] = before[t]
    BY <1>0, <2>1, OwnHistory
  <2> HIDE DEF Remember
  <2>3. Undisturbed(t)
    BY <1>0, <2>2 DEF Inv, HistoryInv
  <2>4. /\ DOMAIN before[t] = Span(t, 1, Items(t)) /\ \A q \in DOMAIN before[t] : before[t][q] \in Content
        /\ \A q \in Span(t, 1, Items(t)) : file[q] = before[t][q]
        /\ \A q \in Span(t, 1, i - 1) : original[t][q] = before[t][q]
    BY <1>0, <2>3, FilesOf DEF Undisturbed, i
  <2>5. /\ Span(t, 1, i) = Span(t, 1, i - 1) \cup {p} /\ p \notin Span(t, 1, i - 1)
        /\ p \in Span(t, 1, Items(t)) /\ Span(t, 1, Items(t)) \subseteq Paths
        /\ Span(t, 1, i - 1) \subseteq Span(t, 1, Items(t))
        /\ Span(t, 1, 0) = {} /\ Files(t, at'[t]) = Span(t, 1, Items(t))
    BY <1>1, SpanOf, FilesOf
  <2>6. \A q \in Span(t, 1, i) : original'[t][q] = before[t][q]
    BY <1>2, <1>8, <2>4, <2>5
  <2>7. CASE i # Items(t)
    <3>1. item'[t] = i + 1 /\ item'[t] - 1 = i /\ pc'[t] = "staging"
      BY <1>1, <1>4, <2>7 DEF i
    <3>2. \A q \in Span(t, 1, item'[t] - 1) : original'[t][q] = before[t][q]
      BY <2>6, <3>1
    <3> QED
      BY <1>3, <2>2, <2>4, <2>5, <3>1, <3>2 DEF Undisturbed
  <2>8. CASE i = Items(t)
    <3>1. item'[t] = 1 /\ pc'[t] = "committing" /\ item'[t] - 1 = 0
      BY <1>4, <2>8 DEF i
    <3>2. /\ \A q \in Span(t, 1, item'[t] - 1) : file'[q] = t
          /\ \A q \in Files(t, at'[t]) : original'[t][q] = before[t][q]
      BY <2>5, <2>6, <2>8, <3>1
    <3> QED
      BY <2>2, <2>4, <2>5, <3>1, <3>2 DEF Undisturbed
  <2> QED
    BY <2>7, <2>8
<1> QED
  BY <1>6, <1>7, <1>8, <1>9, <1>10

\* The staging breaks off: no file has been touched.
LEMMA AbandonKeeps ==
  ASSUME Inv, NEW t \in Txs, ReadFails(t) \/ StageFails(t)
  PROVE  /\ Typed' /\ WholeFiles' /\ Transaction(t)'
         /\ \A b \in Actors \ {t} : Bystander(b)
         /\ Remember => before'[t] = Disturbed
<1>0. /\ t \in Actors /\ Transaction(t) /\ Typed /\ pc[t] = "staging" /\ t \notin Writers
      /\ fd[t] = None
  BY NamesAssumption DEF Actors, Inv, CallInv, ReadFails, StageFails, Transaction
<1>1. /\ Returns(t, "error") /\ item' = [item EXCEPT ![t] = 1]
      /\ original' = [original EXCEPT ![t] = Nothing]
      /\ UNCHANGED <<file, temp, fd, source, copied, marred>>
  BY DEF ReadFails, StageFails, Abandons, disk
<1>2. /\ pc' \in [Actors -> WriterStates \cup TxStates] /\ pc'[t] = "idle"
      /\ at' \in [Actors -> Paths]
      /\ \A b \in Actors \ {t} : pc'[b] = pc[b] /\ at'[b] = at[b]
  <2>1. "idle" \in WriterStates \cup TxStates
    BY DEF TxStates
  <2> QED
    BY <1>0, <1>1, <2>1, AnywhereIsAPath, GoesTo, IsAt DEF Returns
<1>3. /\ item' \in [Txs -> Nat] /\ item'[t] = 1 /\ original' \in [Txs -> [Paths -> Content]]
      /\ \A b \in Txs \ {t} : item'[b] = item[b] /\ original'[b] = original[b]
  <2>1. Nothing \in [Paths -> Content]
    BY DEF Nothing, Content
  <2> QED
    BY <1>0, <1>1, <2>1 DEF Typed
<1>4. /\ staged' \in [Txs -> [Paths -> Txs \cup {Absent, Torn}]]
      /\ \A u \in Txs \ {t} : staged'[u] = staged[u]
  <2>1. CASE staged' = staged
    BY <1>0, <2>1 DEF Typed
  <2>2. CASE StageFails(t)
    <3>1. PICK left \in {Absent, Torn} : staged' = [staged EXCEPT ![t] = [Nothing EXCEPT ![Item(t)] = left]]
      BY <2>2 DEF StageFails
    <3>2. [Nothing EXCEPT ![Item(t)] = left] \in [Paths -> Txs \cup {Absent, Torn}]
      BY DEF Nothing
    <3> QED
      BY <1>0, <3>1, <3>2 DEF Typed
  <2> QED
    BY <2>1, <2>2 DEF ReadFails, disk
<1>5. Typed'
  BY <1>0, <1>1, <1>2, <1>3, <1>4 DEF Typed, FileNames, TempNames
<1>6. WholeFiles' /\ \A b \in Actors \ {t} : Bystander(b)
  BY <1>0, <1>1, <1>2, <1>3, <1>4, QuietStep
<1>7. Transaction(t)'
  <2>1. 1 \in 1 .. Items(t)
    BY ItemsOf
  <2> QED
    BY <1>0, <1>1, <1>2, <1>3, <2>1 DEF Transaction, TxStates
<1>8. Remember => before'[t] = Disturbed
  BY <1>0, <1>2 DEF Remember
<1> QED
  BY <1>5, <1>6, <1>7, <1>8

\* A rename fails: the items are restored from the first.
LEMMA CommitFailsKeeps ==
  ASSUME Inv, NEW t \in Txs, CommitFails(t)
  PROVE  /\ Typed' /\ WholeFiles' /\ Transaction(t)' /\ pc'[t] # "idle"
         /\ \A b \in Actors \ {t} : Bystander(b)
         /\ Remember /\ before'[t] # Disturbed => Undisturbed(t)'
<1>0. /\ t \in Actors /\ Transaction(t) /\ Typed /\ pc[t] = "committing" /\ t \notin Writers
      /\ fd[t] = None
  BY NamesAssumption DEF Actors, Inv, CallInv, CommitFails, Transaction
<1>1. 1 \in 1 .. Items(t) /\ Order[t][1] \in Paths
  BY ItemsOf
<1>2. /\ pc' \in [Actors -> WriterStates \cup TxStates] /\ pc'[t] = "restoring"
      /\ at' \in [Actors -> Paths] /\ at'[t] = Order[t][1]
      /\ \A b \in Actors \ {t} : pc'[b] = pc[b] /\ at'[b] = at[b]
  <2>1. /\ "restoring" \in WriterStates \cup TxStates /\ pc' = [pc EXCEPT ![t] = "restoring"]
        /\ at' = [at EXCEPT ![t] = Order[t][1]]
    BY DEF TxStates, CommitFails, Goes
  <2> QED
    BY <1>0, <1>1, <2>1, GoesTo, IsAt
<1>3. /\ item' \in [Txs -> Nat] /\ item'[t] = 1 /\ \A b \in Txs \ {t} : item'[b] = item[b]
  BY <1>0 DEF CommitFails, Typed
<1>4. UNCHANGED <<file, temp, staged, fd, source, copied, original, marred>>
  BY DEF CommitFails, disk
<1>5. Typed'
  BY <1>0, <1>2, <1>3, <1>4 DEF Typed, FileNames, TempNames
<1>6. WholeFiles' /\ \A b \in Actors \ {t} : Bystander(b)
  BY <1>0, <1>2, <1>3, <1>4, QuietStep
<1>7. Transaction(t)'
  BY <1>0, <1>1, <1>2, <1>3, <1>4 DEF Transaction, TxStates, Item
<1>8. Remember /\ before'[t] # Disturbed => Undisturbed(t)'
  <2> SUFFICES ASSUME Remember, before'[t] # Disturbed PROVE Undisturbed(t)'
    OBVIOUS
  <2>1. before[t] # Disturbed /\ before'[t] = before[t]
    BY <1>0, <1>2, OwnHistory
  <2> HIDE DEF Remember
  <2>2. Undisturbed(t)
    BY <1>0, <2>1 DEF Inv, HistoryInv
  <2>3. /\ DOMAIN before[t] = Files(t, at'[t]) /\ \A q \in DOMAIN before[t] : before[t][q] \in Content
        /\ \A q \in Files(t, at'[t]) : original[t][q] = before[t][q]
    BY <1>0, <2>2, SameFiles DEF Undisturbed
  <2>4. Span(t, 1, item'[t] - 1) = {}
    BY <1>1, <1>3, SpanOf
  <2> QED
    BY <1>2, <1>4, <2>1, <2>3, <2>4 DEF Undisturbed
<1> QED
  BY <1>2, <1>5, <1>6, <1>7, <1>8

\* The temporary file of the item takes the place of its file.
LEMMA CommitKeeps ==
  ASSUME Inv, NEW t \in Txs, Commit(t)
  PROVE  /\ Typed' /\ WholeFiles' /\ Transaction(t)'
         /\ \A b \in Actors \ {t} : Bystander(b)
         /\ Remember /\ before'[t] # Disturbed => Undisturbed(t)'
         /\ pc'[t] = "idle" => Tells(t)
<1> DEFINE i == item[t]
           p == Item(t)
<1>0. /\ t \in Actors /\ Transaction(t) /\ Typed /\ pc[t] = "committing" /\ t \notin Writers
      /\ pc[t] \notin {"idle", "refilling", "rewriting"} /\ t # Torn
  BY NamesAssumption DEF Actors, Inv, CallInv, Commit
<1>1. i \in 1 .. Items(t) /\ p = Order[t][i] /\ p \in Paths /\ fd[t] = None /\ Items(t) \in Nat \ {0}
  BY <1>0, SpanOf, ItemsOf DEF Transaction, Item
<1>2. \A q \in Paths : staged[t][q] = IF q \in Span(t, i, Items(t)) THEN t ELSE Absent
  BY <1>0 DEF Transaction, Holds, i
<1>3. p \in Span(t, i, Items(t)) /\ staged[t][p] = t
  BY <1>1, <1>2, SpanOf
<1>4. /\ Advance(t, "committing", "idle", "ok", original[t])
      /\ file' = [file EXCEPT ![p] = staged[t][p]]
      /\ staged' = [staged EXCEPT ![t][p] = Absent]
      /\ Unlinked(FileName(p)) /\ Forgets(p) /\ marred' = marred \ {p}
      /\ UNCHANGED <<temp, copied>>
  BY DEF Commit
<1> HIDE DEF p, i
<1>5. /\ pc' \in [Actors -> WriterStates \cup TxStates] /\ at' \in [Actors -> Paths]
      /\ item' \in [Txs -> Nat] /\ original' \in [Txs -> [Paths -> Content]]
      /\ \A b \in Actors \ {t} :
           /\ pc'[b] = pc[b] /\ at'[b] = at[b]
           /\ b \in Txs => item'[b] = item[b] /\ original'[b] = original[b]
      /\ item[t] # Items(t) =>
           /\ item[t] + 1 \in 1 .. Items(t) /\ item'[t] = item[t] + 1
           /\ pc'[t] = "committing" /\ at'[t] = Order[t][item[t] + 1] /\ original'[t] = original[t]
      /\ item[t] = Items(t) =>
           /\ item'[t] = 1 /\ pc'[t] = "idle"
           /\ "idle" # "idle" => at'[t] = Order[t][1] /\ original'[t] = original[t]
           /\ "idle" = "idle" => result'[t] = "ok"
  <2>1. "committing" \in TxStates /\ "idle" \in TxStates /\ original[t] \in [Paths -> Content]
    BY <1>0 DEF TxStates, Typed
  <2> QED
    BY <1>4, <2>1, AdvanceMoves
<1>6. /\ staged' \in [Txs -> [Paths -> Txs \cup {Absent, Torn}]]
      /\ staged'[t][p] = Absent /\ \A q \in Paths \ {p} : staged'[t][q] = staged[t][q]
      /\ \A u \in Txs \ {t} : staged'[u] = staged[u]
  <2>1. \A q \in Paths : \A c \in {t, Absent, Torn} : staged' = [staged EXCEPT ![t][q] = c] =>
          /\ staged' \in [Txs -> [Paths -> Txs \cup {Absent, Torn}]]
          /\ staged'[t][q] = c /\ \A r \in Paths \ {q} : staged'[t][r] = staged[t][r]
          /\ \A u \in Txs \ {t} : staged'[u] = staged[u]
    BY StagedItem
  <2> QED
    BY <1>1, <1>4, <2>1
<1>7. /\ file' \in [Paths -> Content] /\ file'[p] = t /\ file'[p] # Torn
      /\ \A q \in Paths \ {p} : file'[q] = file[q] /\ (q \in marred' <=> q \in marred)
      /\ marred' \subseteq Paths
  BY <1>0, <1>1, <1>3, <1>4 DEF Typed, Content, Whole
<1>8. \A b \in Actors : fd'[b] = IF fd[b] = FileName(p) THEN Gone ELSE fd[b]
  BY <1>4 DEF Unlinked
<1>9. fd' \in [Actors -> {None, Gone} \cup FileNames \cup TempNames] /\ fd'[t] = None
  <2>1. fd' = [b \in Actors |-> IF fd[b] = FileName(p) THEN Gone ELSE fd[b]]
    BY <1>4 DEF Unlinked
  <2> QED
    BY <1>0, <1>1, <2>1, NamesDiffer DEF Typed
<1>10. /\ source' \in [Writers -> Paths \cup {Absent}]
       /\ \A w \in Writers : source[w] = Absent => source'[w] = Absent
  BY <1>0, <1>4 DEF Forgets, Typed
<1>11. Typed'
  BY <1>0, <1>4, <1>5, <1>6, <1>7, <1>9, <1>10 DEF Typed, FileNames, TempNames
<1>12. \A b \in Actors \ {t} : Bystander(b)
  <2> SUFFICES ASSUME NEW b \in Actors \ {t} PROVE Bystander(b)
    OBVIOUS
  <2>1. /\ fd[b] \notin FileNames => fd'[b] = fd[b]
        /\ fd[b] \in FileNames => fd'[b] \in {Gone} \cup FileNames
        /\ \A q \in Paths : fd[b] = FileName(q) /\ file[q] = Torn =>
             fd'[b] = fd[b] \/ file'[q] # Torn \/ (fd'[b] = Gone /\ q \in marred')
    BY <1>1, <1>7, <1>8, ReplacedKeeps
  <2> QED
    BY <1>4, <1>5, <1>6, <1>10, <2>1 DEF Bystander
<1>13. WholeFiles'
  <2>1. \A b \in Actors : pc[b] \in {"rewriting", "refilling"} =>
          pc'[b] = pc[b] /\ (fd[b] # FileName(p) => fd'[b] = fd[b])
    BY <1>0, <1>5, <1>8
  <2> QED
    BY <1>1, <1>7, <2>1, ReplacedWhole
<1>14. \A q \in Paths : staged'[t][q] = IF q \in Span(t, i + 1, Items(t)) THEN t ELSE Absent
  <2>1. Span(t, i + 1, Items(t)) = Span(t, i, Items(t)) \ {p}
    BY <1>1, SpanOf
  <2> QED
    BY <1>2, <1>6, <2>1
<1>15. Transaction(t)'
  <2>1. CASE i # Items(t)
    <3>0. i + 1 \in 1 .. Items(t) /\ item'[t] = i + 1 /\ pc'[t] = "committing" /\ at'[t] = Order[t][i + 1]
      BY <1>5, <2>1 DEF i
    <3>1. /\ pc'[t] = "committing" /\ at'[t] = Order[t][item'[t]] /\ item'[t] \in 1 .. Items(t)
          /\ \A q \in Paths : staged'[t][q] = IF q \in Span(t, item'[t], Items(t)) THEN t ELSE Absent
      BY <1>14, <3>0
    <3> QED
      BY <1>9, <3>1 DEF Transaction, Item, Holds, Span, TxStates
  <2>2. CASE i = Items(t)
    <3>1. item'[t] = 1 /\ pc'[t] = "idle" /\ 1 \in 1 .. Items(t)
      BY <1>1, <1>5, <2>2 DEF i
    <3> QED
      BY <1>9, <3>1 DEF Transaction, TxStates
  <2> QED
    BY <2>1, <2>2
<1>16. before[t] # Disturbed =>
         /\ DOMAIN before[t] = Span(t, 1, Items(t)) /\ \A q \in DOMAIN before[t] : before[t][q] \in Content
         /\ \A q \in Span(t, 1, Items(t)) : original[t][q] = before[t][q]
         /\ \A q \in Span(t, 1, i) : file'[q] = t
  <2> SUFFICES ASSUME before[t] # Disturbed
               PROVE  /\ DOMAIN before[t] = Span(t, 1, Items(t))
                      /\ \A q \in DOMAIN before[t] : before[t][q] \in Content
                      /\ \A q \in Span(t, 1, Items(t)) : original[t][q] = before[t][q]
                      /\ \A q \in Span(t, 1, i) : file'[q] = t
    OBVIOUS
  <2>1. Undisturbed(t)
    BY <1>0 DEF Inv, HistoryInv
  <2>2. /\ DOMAIN before[t] = Span(t, 1, Items(t)) /\ \A q \in DOMAIN before[t] : before[t][q] \in Content
        /\ \A q \in Span(t, 1, Items(t)) : original[t][q] = before[t][q]
        /\ \A q \in Span(t, 1, i - 1) : file[q] = t
    BY <1>0, <2>1, FilesOf DEF Undisturbed, i
  <2>3. /\ Span(t, 1, i) = Span(t, 1, i - 1) \cup {p} /\ Span(t, 1, i - 1) \subseteq Paths
    BY <1>1, SpanOf, FilesOf
  <2> QED
    BY <1>7, <2>2, <2>3
<1>17. Remember /\ before'[t] # Disturbed => Undisturbed(t)'
  <2> SUFFICES ASSUME Remember, before'[t] # Disturbed PROVE Undisturbed(t)'
    OBVIOUS
  <2>1. pc'[t] # pc[t] \/ (t \in Txs /\ item'[t] # item[t])
    BY <1>0, <1>1, <1>5 DEF i
  <2>2. pc'[t] # "idle" /\ before[t] # Disturbed /\ before'[t] = before[t]
    BY <1>0, <2>1, OwnHistory
  <2> HIDE DEF Remember
  <2>3. i + 1 \in 1 .. Items(t) /\ item'[t] = i + 1 /\ pc'[t] = "committing" /\ original'[t] = original[t]
    BY <1>5, <2>2 DEF i
  <2>4. item'[t] - 1 = i /\ Files(t, at'[t]) = Span(t, 1, Items(t))
    BY <1>1, <2>3, FilesOf
  <2>5. \A q \in Span(t, 1, item'[t] - 1) : file'[q] = t
    BY <1>16, <2>2, <2>4
  <2> QED
    BY <1>16, <2>2, <2>3, <2>4, <2>5 DEF Undisturbed
<1>18. pc'[t] = "idle" => Tells(t)
  <2> SUFFICES ASSUME pc'[t] = "idle" PROVE Tells(t)
    OBVIOUS
  <2>1. i = Items(t) /\ result'[t] = "ok"
    BY <1>5 DEF i
  <2>2. Span(t, i + 1, Items(t)) = {}
    BY <1>1, <2>1, SpanOf
  <2>3. staged'[t] = Nothing
    BY <1>6, <1>14, <2>2 DEF Nothing
  <2>4. Writing(t) = {t}
    BY <1>0 DEF Writing
  <2> QED
    BY <1>16, <2>1, <2>3, <2>4 DEF Tells
<1> QED
  BY <1>11, <1>12, <1>13, <1>15, <1>17, <1>18

\* After an item that has been restored, or is marred, comes the next.
LEMMA CleanedKeeps ==
  ASSUME Inv, NEW t \in Txs, Cleaned(t), pc[t] \in {"restoring", "refilling"}, fd'[t] = None,
         before[t] # Disturbed => \A q \in Span(t, 1, item[t]) : q \in marred' \/ file'[q] = before[t][q]
  PROVE  /\ pc' \in [Actors -> WriterStates \cup TxStates] /\ at' \in [Actors -> Paths]
         /\ item' \in [Txs -> Nat] /\ original' \in [Txs -> [Paths -> Content]]
         /\ staged' \in [Txs -> [Paths -> Txs \cup {Absent, Torn}]]
         /\ \A b \in Actors \ {t} :
              /\ pc'[b] = pc[b] /\ at'[b] = at[b]
              /\ b \in Txs => item'[b] = item[b] /\ original'[b] = original[b] /\ staged'[b] = staged[b]
         /\ Transaction(t)'
         /\ Remember /\ before'[t] # Disturbed => Undisturbed(t)'
         /\ pc'[t] = "idle" => Tells(t)
<1> DEFINE i == item[t]
           p == Item(t)
<1>0. /\ t \in Actors /\ Transaction(t) /\ Typed /\ pc[t] # "idle" /\ t \notin Writers
  BY NamesAssumption DEF Actors, Inv, CallInv
<1>1. i \in 1 .. Items(t) /\ p \in Paths /\ Items(t) \in Nat \ {0}
  BY <1>0, SpanOf, ItemsOf DEF Transaction, Item
<1>2. /\ Advance(t, "restoring", "idle", "error", original[t])
      /\ staged' = [staged EXCEPT ![t][p] = Absent]
  BY DEF Cleaned
<1> HIDE DEF p, i
<1>3. /\ pc' \in [Actors -> WriterStates \cup TxStates] /\ at' \in [Actors -> Paths]
      /\ item' \in [Txs -> Nat] /\ original' \in [Txs -> [Paths -> Content]]
      /\ \A b \in Actors \ {t} :
           /\ pc'[b] = pc[b] /\ at'[b] = at[b]
           /\ b \in Txs => item'[b] = item[b] /\ original'[b] = original[b]
      /\ item[t] # Items(t) =>
           /\ item[t] + 1 \in 1 .. Items(t) /\ item'[t] = item[t] + 1
           /\ pc'[t] = "restoring" /\ at'[t] = Order[t][item[t] + 1] /\ original'[t] = original[t]
      /\ item[t] = Items(t) =>
           /\ item'[t] = 1 /\ pc'[t] = "idle"
           /\ "idle" # "idle" => at'[t] = Order[t][1] /\ original'[t] = original[t]
           /\ "idle" = "idle" => result'[t] = "error"
  <2>1. "restoring" \in TxStates /\ "idle" \in TxStates /\ original[t] \in [Paths -> Content]
    BY <1>0 DEF TxStates, Typed
  <2> QED
    BY <1>2, <2>1, AdvanceMoves
<1>4. /\ staged' \in [Txs -> [Paths -> Txs \cup {Absent, Torn}]]
      /\ \A u \in Txs \ {t} : staged'[u] = staged[u]
  <2>1. \A q \in Paths : \A c \in {t, Absent, Torn} : staged' = [staged EXCEPT ![t][q] = c] =>
          /\ staged' \in [Txs -> [Paths -> Txs \cup {Absent, Torn}]]
          /\ \A u \in Txs \ {t} : staged'[u] = staged[u]
    BY StagedItem
  <2> QED
    BY <1>1, <1>2, <2>1
<1>5. Transaction(t)'
  <2>1. CASE i # Items(t)
    <3>0. i + 1 \in 1 .. Items(t) /\ item'[t] = i + 1 /\ pc'[t] = "restoring" /\ at'[t] = Order[t][i + 1]
      BY <1>3, <2>1 DEF i
    <3>1. pc'[t] = "restoring" /\ at'[t] = Order[t][item'[t]] /\ item'[t] \in 1 .. Items(t)
      BY <3>0
    <3> QED
      BY <3>1 DEF Transaction, Item, TxStates
  <2>2. CASE i = Items(t)
    <3>1. item'[t] = 1 /\ pc'[t] = "idle" /\ 1 \in 1 .. Items(t)
      BY <1>1, <1>3, <2>2 DEF i
    <3> QED
      BY <3>1 DEF Transaction, TxStates
  <2> QED
    BY <2>1, <2>2
<1>6. before[t] # Disturbed =>
        /\ DOMAIN before[t] = Span(t, 1, Items(t)) /\ \A q \in DOMAIN before[t] : before[t][q] \in Content
        /\ \A q \in Span(t, 1, Items(t)) : original[t][q] = before[t][q]
        /\ \A q \in Span(t, 1, i) : q \in marred' \/ file'[q] = before[t][q]
  <2>1. before[t] # Disturbed => Undisturbed(t)
    BY <1>0 DEF Inv, HistoryInv
  <2> QED
    BY <2>1, FilesOf DEF Undisturbed, i
<1>7. Remember /\ before'[t] # Disturbed => Undisturbed(t)'
  <2> SUFFICES ASSUME Remember, before'[t] # Disturbed PROVE Undisturbed(t)'
    OBVIOUS
  <2>1. pc'[t] # pc[t] \/ (t \in Txs /\ item'[t] # item[t])
    BY <1>0, <1>1, <1>3 DEF i
  <2>2. pc'[t] # "idle" /\ before[t] # Disturbed /\ before'[t] = before[t]
    BY <1>0, <2>1, OwnHistory
  <2> HIDE DEF Remember
  <2>3. i + 1 \in 1 .. Items(t) /\ item'[t] = i + 1 /\ pc'[t] = "restoring" /\ original'[t] = original[t]
    BY <1>3, <2>2 DEF i
  <2>4. item'[t] - 1 = i /\ Files(t, at'[t]) = Span(t, 1, Items(t))
    BY <1>1, <2>3, FilesOf
  <2>5. \A q \in Span(t, 1, item'[t] - 1) : q \in marred' \/ file'[q] = before[t][q]
    BY <1>6, <2>2, <2>4
  <2> QED
    BY <1>6, <2>2, <2>3, <2>4, <2>5 DEF Undisturbed
<1>8. pc'[t] = "idle" => Tells(t)
  <2> SUFFICES ASSUME pc'[t] = "idle" PROVE Tells(t)
    OBVIOUS
  <2>1. i = Items(t) /\ result'[t] = "error"
    BY <1>3 DEF i
  <2> QED
    BY <1>6, <2>1 DEF Tells
<1> QED
  BY <1>3, <1>4, <1>5, <1>7, <1>8

\* What a transaction that restores its items has done so far.
LEMMA RestoredSoFar ==
  ASSUME Inv, NEW t \in Txs, pc[t] \in {"restoring", "refilling"}
  PROVE  /\ Item(t) \in Paths /\ Item(t) = at[t]
         /\ original[t] \in [Paths -> Content]
         /\ Span(t, 1, item[t]) = Span(t, 1, item[t] - 1) \cup {Item(t)}
         /\ Item(t) \notin Span(t, 1, item[t] - 1) /\ Span(t, 1, item[t] - 1) \subseteq Paths
         /\ before[t] # Disturbed =>
              /\ Undisturbed(t) /\ original[t][Item(t)] = before[t][Item(t)]
              /\ \A q \in Span(t, 1, item[t] - 1) : q \in marred \/ file[q] = before[t][q]
<1>0. t \in Actors /\ Transaction(t) /\ Typed
  BY DEF Actors, Inv, CallInv
<1>1. item[t] \in 1 .. Items(t) /\ Item(t) = Order[t][item[t]] /\ Item(t) = at[t]
  BY <1>0 DEF Transaction, Item
<1>2. /\ Item(t) \in Paths /\ Span(t, 1, item[t]) = Span(t, 1, item[t] - 1) \cup {Item(t)}
      /\ Item(t) \in Span(t, 1, Items(t))
      /\ Item(t) \notin Span(t, 1, item[t] - 1) /\ Span(t, 1, item[t] - 1) \subseteq Span(t, 1, Items(t))
      /\ Span(t, 1, Items(t)) \subseteq Paths /\ Files(t, at[t]) = Span(t, 1, Items(t))
  <2>1. /\ Order[t][item[t]] \in Paths
        /\ Order[t][item[t]] \in Span(t, 1, Items(t))
        /\ Span(t, 1, item[t]) = Span(t, 1, item[t] - 1) \cup {Order[t][item[t]]}
        /\ Order[t][item[t]] \notin Span(t, 1, item[t] - 1)
        /\ Span(t, 1, item[t] - 1) \subseteq Span(t, 1, Items(t))
    BY <1>1, SpanOf
  <2>2. Span(t, 1, Items(t)) \subseteq Paths /\ Files(t, at[t]) = Span(t, 1, Items(t))
    BY FilesOf
  <2> QED
    BY <1>1, <2>1, <2>2
<1>3. original[t] \in [Paths -> Content]
  BY <1>0 DEF Typed
<1>4. ASSUME before[t] # Disturbed
      PROVE  /\ Undisturbed(t) /\ original[t][Item(t)] = before[t][Item(t)]
             /\ \A q \in Span(t, 1, item[t] - 1) : q \in marred \/ file[q] = before[t][q]
  <2>1. Undisturbed(t)
    BY <1>0, <1>4 DEF Inv, HistoryInv
  <2> QED
    BY <1>2, <2>1 DEF Undisturbed
<1> QED
  BY <1>1, <1>2, <1>3, <1>4

\* An item that was no file is removed.
LEMMA UnmakeKeeps ==
  ASSUME Inv, NEW t \in Txs, Unmake(t)
  PROVE  /\ Typed' /\ WholeFiles' /\ Transaction(t)'
         /\ \A b \in Actors \ {t} : Bystander(b)
         /\ Remember /\ before'[t] # Disturbed => Undisturbed(t)'
         /\ pc'[t] = "idle" => Tells(t)
<1> DEFINE p == Item(t)
<1>0. /\ t \in Actors /\ Transaction(t) /\ Typed /\ pc[t] = "restoring" /\ t \notin Writers
      /\ pc[t] \notin {"refilling", "rewriting"} /\ pc[t] \in {"restoring", "refilling"} /\ fd[t] = None
      /\ Absent # Torn
  BY NamesAssumption DEF Actors, Inv, CallInv, Unmake, Transaction
<1>1. /\ p \in Paths /\ Span(t, 1, item[t]) = Span(t, 1, item[t] - 1) \cup {p}
      /\ p \notin Span(t, 1, item[t] - 1) /\ Span(t, 1, item[t] - 1) \subseteq Paths
      /\ before[t] # Disturbed =>
           /\ original[t][p] = before[t][p]
           /\ \A q \in Span(t, 1, item[t] - 1) : q \in marred \/ file[q] = before[t][q]
  BY <1>0, RestoredSoFar
<1>2. /\ original[t][p] = Absent
      /\ file' = [file EXCEPT ![p] = Absent]
      /\ Unlinked(FileName(p)) /\ Forgets(p) /\ marred' = marred \ {p} /\ Cleaned(t)
      /\ UNCHANGED <<temp, copied>>
  BY DEF Unmake
<1> HIDE DEF p
<1>3. /\ file' \in [Paths -> Content] /\ file'[p] = Absent
      /\ \A q \in Paths \ {p} : file'[q] = file[q] /\ (q \in marred' <=> q \in marred)
      /\ marred' \subseteq Paths
  BY <1>0, <1>1, <1>2 DEF Typed, Content
<1>4. \A b \in Actors : fd'[b] = IF fd[b] = FileName(p) THEN Gone ELSE fd[b]
  BY <1>2 DEF Unlinked
<1>5. fd' \in [Actors -> {None, Gone} \cup FileNames \cup TempNames] /\ fd'[t] = None
  <2>1. fd' = [b \in Actors |-> IF fd[b] = FileName(p) THEN Gone ELSE fd[b]]
    BY <1>2 DEF Unlinked
  <2> QED
    BY <1>0, <2>1, NamesDiffer DEF Typed
<1>6. /\ source' \in [Writers -> Paths \cup {Absent}]
      /\ \A w \in Writers : source[w] = Absent => source'[w] = Absent
  BY <1>0, <1>2 DEF Forgets, Typed
<1>7. before[t] # Disturbed => \A q \in Span(t, 1, item[t]) : q \in marred' \/ file'[q] = before[t][q]
  BY <1>1, <1>2, <1>3
<1>8. /\ pc' \in [Actors -> WriterStates \cup TxStates] /\ at' \in [Actors -> Paths]
      /\ item' \in [Txs -> Nat] /\ original' \in [Txs -> [Paths -> Content]]
      /\ staged' \in [Txs -> [Paths -> Txs \cup {Absent, Torn}]]
      /\ \A b \in Actors \ {t} :
           /\ pc'[b] = pc[b] /\ at'[b] = at[b]
           /\ b \in Txs => item'[b] = item[b] /\ original'[b] = original[b] /\ staged'[b] = staged[b]
      /\ Transaction(t)'
      /\ Remember /\ before'[t] # Disturbed => Undisturbed(t)'
      /\ pc'[t] = "idle" => Tells(t)
  BY <1>0, <1>2, <1>5, <1>7, CleanedKeeps
<1>9. Typed'
  BY <1>0, <1>2, <1>3, <1>5, <1>6, <1>8 DEF Typed, FileNames, TempNames
<1>10. \A b \in Actors \ {t} : Bystander(b)
  <2> SUFFICES ASSUME NEW b \in Actors \ {t} PROVE Bystander(b)
    OBVIOUS
  <2>1. /\ fd[b] \notin FileNames => fd'[b] = fd[b]
        /\ fd[b] \in FileNames => fd'[b] \in {Gone} \cup FileNames
        /\ \A q \in Paths : fd[b] = FileName(q) /\ file[q] = Torn =>
             fd'[b] = fd[b] \/ file'[q] # Torn \/ (fd'[b] = Gone /\ q \in marred')
    BY <1>0, <1>1, <1>3, <1>4, ReplacedKeeps
  <2> QED
    BY <1>2, <1>6, <1>8, <2>1 DEF Bystander
<1>11. WholeFiles'
  <2>1. \A b \in Actors : pc[b] \in {"rewriting", "refilling"} =>
          pc'[b] = pc[b] /\ (fd[b] # FileName(p) => fd'[b] = fd[b])
    BY <1>0, <1>4, <1>8
  <2> QED
    BY <1>0, <1>1, <1>3, <2>1, ReplacedWhole
<1> QED
  BY <1>8, <1>9, <1>10, <1>11

\* The next item of one transaction is nothing to the others.
LEMMA ClearedOthers ==
  ASSUME Inv, NEW t \in Txs, Cleaned(t)
  PROVE  \A b \in Actors \ {t} :
           /\ pc'[b] = pc[b] /\ at'[b] = at[b]
           /\ b \in Txs => item'[b] = item[b] /\ original'[b] = original[b] /\ staged'[b] = staged[b]
BY DEF Inv, Typed, Cleaned, Advance

\* A file that is restored is opened in place ...
LEMMA ReopenKeeps ==
  ASSUME Inv, NEW t \in Txs, Reopen(t)
  PROVE  /\ Typed' /\ WholeFiles' /\ Transaction(t)' /\ pc'[t] # "idle"
         /\ \A b \in Actors \ {t} : Bystander(b)
         /\ Remember /\ before'[t] # Disturbed => Undisturbed(t)'
<1> DEFINE p == Item(t)
<1>0. t \in Actors /\ Transaction(t) /\ Typed /\ pc[t] = "restoring" /\ t \notin Writers
  BY NamesAssumption DEF Actors, Inv, CallInv, Reopen
<1>1. /\ p \in Paths /\ p = at[t] /\ p \notin Span(t, 1, item[t] - 1) /\ Span(t, 1, item[t] - 1) \subseteq Paths
      /\ before[t] # Disturbed =>
           /\ Undisturbed(t)
           /\ \A q \in Span(t, 1, item[t] - 1) : q \in marred \/ file[q] = before[t][q]
  BY <1>0, RestoredSoFar
<1>2. /\ pc' \in [Actors -> WriterStates \cup TxStates] /\ pc'[t] = "refilling"
      /\ \A b \in Actors \ {t} : pc'[b] = pc[b]
  <2>1. "refilling" \in WriterStates \cup TxStates /\ pc' = [pc EXCEPT ![t] = "refilling"]
    BY DEF TxStates, Reopen, Goes
  <2> QED
    BY <1>0, <2>1, GoesTo
<1>3. UNCHANGED <<temp, staged, source, item, original, marred>> /\ at' = at /\ Truncated(t, p)
  BY DEF Reopen
<1> HIDE DEF p
<1>4. /\ WholeFiles' /\ \A b \in Actors \ {t} : Bystander(b)
      /\ file' \in [Paths -> Content] /\ file'[p] = Torn /\ \A q \in Paths \ {p} : file'[q] = file[q]
      /\ fd' \in [Actors -> {None, Gone} \cup FileNames \cup TempNames] /\ fd'[t] = FileName(p)
      /\ copied' \in [Writers -> SUBSET Content]
      /\ \A v \in Writers : source[v] = Absent => copied'[v] = copied[v]
  BY <1>0, <1>1, <1>2, <1>3, TruncatedKeeps
<1>5. Typed'
  BY <1>0, <1>2, <1>3, <1>4 DEF Typed, FileNames, TempNames
<1>6. Transaction(t)'
  BY <1>0, <1>1, <1>2, <1>3, <1>4 DEF Transaction, TxStates, FileNames, Item
<1>7. Remember /\ before'[t] # Disturbed => Undisturbed(t)'
  <2> SUFFICES ASSUME Remember, before'[t] # Disturbed PROVE Undisturbed(t)'
    OBVIOUS
  <2>1. before[t] # Disturbed /\ before'[t] = before[t]
    BY <1>0, <1>2, OwnHistory
  <2> HIDE DEF Remember
  <2>2. \A q \in Span(t, 1, item'[t] - 1) : q \in marred' \/ file'[q] = before[t][q]
    BY <1>1, <1>3, <1>4, <2>1
  <2>3. /\ DOMAIN before[t] = Files(t, at'[t]) /\ \A q \in DOMAIN before[t] : before[t][q] \in Content
        /\ \A q \in Files(t, at'[t]) : original'[t][q] = before[t][q]
    BY <1>0, <1>1, <1>3, <2>1 DEF Undisturbed
  <2> QED
    BY <1>1, <1>2, <1>3, <1>4, <2>1, <2>2, <2>3 DEF Undisturbed
<1> QED
  BY <1>2, <1>4, <1>5, <1>6, <1>7

\* ... and written.
LEMMA RefillKeeps ==
  ASSUME Inv, NEW t \in Txs, Refill(t)
  PROVE  /\ Typed' /\ WholeFiles' /\ Transaction(t)'
         /\ \A b \in Actors \ {t} : Bystander(b)
         /\ Remember /\ before'[t] # Disturbed => Undisturbed(t)'
         /\ pc'[t] = "idle" => Tells(t)
<1> DEFINE p == Item(t)
           c == original[t][p]
<1>0. /\ t \in Actors /\ Transaction(t) /\ Typed /\ pc[t] = "refilling" /\ t \notin Writers
      /\ pc[t] \in {"restoring", "refilling"} /\ pc[t] \in {"rewriting", "refilling"}
      /\ fd[t] \in {Gone} \cup FileNames
  BY NamesAssumption DEF Actors, Inv, CallInv, Refill, Transaction
<1>1. /\ p \in Paths /\ p = at[t] /\ Span(t, 1, item[t]) = Span(t, 1, item[t] - 1) \cup {p}
      /\ p \notin Span(t, 1, item[t] - 1) /\ Span(t, 1, item[t] - 1) \subseteq Paths
      /\ c \in Content
      /\ before[t] # Disturbed =>
           /\ Undisturbed(t) /\ c = before[t][p]
           /\ \A q \in Span(t, 1, item[t] - 1) : q \in marred \/ file[q] = before[t][q]
  BY <1>0, RestoredSoFar
<1>2. PutInPlace(t, c) /\ Cleaned(t)
  BY DEF Refill
<1> HIDE DEF p, c
<1>3. \A b \in Actors \ {t} :
        /\ pc'[b] = pc[b] /\ at'[b] = at[b]
        /\ b \in Txs => item'[b] = item[b] /\ original'[b] = original[b] /\ staged'[b] = staged[b]
  BY <1>0, <1>2, ClearedOthers
<1>4. /\ WholeFiles' /\ \A b \in Actors \ {t} : Bystander(b)
      /\ file' \in [Paths -> Content] /\ temp' = temp
      /\ \A q \in Paths : IF fd[t] = FileName(q) THEN file'[q] = c \/ q \in marred' ELSE file'[q] = file[q]
      /\ fd' \in [Actors -> {None, Gone} \cup FileNames \cup TempNames] /\ fd'[t] = None
      /\ source' \in [Writers -> Paths \cup {Absent}] /\ (t \in Writers => source'[t] = Absent)
      /\ copied' \in [Writers -> SUBSET Content]
      /\ \A v \in Writers : source[v] = Absent => copied'[v] = copied[v]
      /\ marred \subseteq marred' /\ marred' \subseteq Paths
  BY <1>0, <1>1, <1>2, <1>3, PutInPlaceKeeps
<1>5. ASSUME before[t] # Disturbed, NEW q \in Span(t, 1, item[t])
      PROVE  q \in marred' \/ file'[q] = before[t][q]
  <2>1. fd[t] = FileName(p) \/ p \in marred
    BY <1>0, <1>1, <1>5 DEF Undisturbed
  <2>2. CASE q = p
    BY <1>1, <1>4, <1>5, <2>1, <2>2
  <2>3. CASE q # p
    <3>1. q \in Paths /\ (q \in marred \/ file[q] = before[t][q])
      BY <1>1, <1>5, <2>3
    <3>2. q \in marred' \/ fd[t] = FileName(q) \/ file'[q] = before[t][q]
      BY <1>4, <3>1
    <3>3. CASE fd[t] = FileName(q)
      <4>1. p \in marred /\ fd[t] = Gone
        BY <1>0, <1>1, <1>5, <2>3, <3>3, NamesDiffer DEF Undisturbed
      <4> QED
        BY <3>3, <4>1, NamesDiffer
    <3> QED
      BY <3>2, <3>3
  <2> QED
    BY <2>2, <2>3
<1>6. /\ pc' \in [Actors -> WriterStates \cup TxStates] /\ at' \in [Actors -> Paths]
      /\ item' \in [Txs -> Nat] /\ original' \in [Txs -> [Paths -> Content]]
      /\ staged' \in [Txs -> [Paths -> Txs \cup {Absent, Torn}]]
      /\ Transaction(t)'
      /\ Remember /\ before'[t] # Disturbed => Undisturbed(t)'
      /\ pc'[t] = "idle" => Tells(t)
  BY <1>0, <1>2, <1>4, <1>5, CleanedKeeps
<1>7. Typed'
  BY <1>0, <1>4, <1>6 DEF Typed, FileNames, TempNames
<1> QED
  BY <1>4, <1>6, <1>7

\* A restoration that fails leaves a file cut short, and goes on.
LEMMA RestoreFailsKeeps ==
  ASSUME Inv, NEW t \in Txs, RestoreFails(t)
  PROVE  /\ Typed' /\ WholeFiles' /\ Transaction(t)'
         /\ \A b \in Actors \ {t} : Bystander(b)
         /\ Remember /\ before'[t] # Disturbed => Undisturbed(t)'
         /\ pc'[t] = "idle" => Tells(t)
<1> DEFINE p == Item(t)
<1>0. /\ t \in Actors /\ Transaction(t) /\ Typed /\ pc[t] \in {"restoring", "refilling"} /\ t \notin Writers
  BY NamesAssumption DEF Actors, Inv, CallInv, RestoreFails
<1>1. /\ p \in Paths /\ p = at[t] /\ Span(t, 1, item[t]) = Span(t, 1, item[t] - 1) \cup {p}
      /\ before[t] # Disturbed =>
           /\ Undisturbed(t)
           /\ \A q \in Span(t, 1, item[t] - 1) : q \in marred \/ file[q] = before[t][q]
  BY <1>0, RestoredSoFar
<1>2. /\ marred' = marred \cup (IF pc[t] = "restoring" THEN {p} ELSE Opened(t))
      /\ Closes(t) /\ Cleaned(t)
      /\ UNCHANGED <<file, temp, copied>>
  BY DEF RestoreFails
<1> HIDE DEF p
<1>3. /\ fd' \in [Actors -> {None, Gone} \cup FileNames \cup TempNames] /\ fd'[t] = None
      /\ \A b \in Actors \ {t} : fd'[b] = fd[b]
      /\ source' \in [Writers -> Paths \cup {Absent}]
      /\ \A w \in Writers : source[w] = Absent => source'[w] = Absent
  BY <1>0, <1>2 DEF Closes, Typed
<1>4. marred \subseteq marred' /\ marred' \subseteq Paths
      /\ (pc[t] = "restoring" => p \in marred')
      /\ \A q \in Paths : pc[t] = "refilling" /\ fd[t] = FileName(q) => q \in marred'
  BY <1>0, <1>1, <1>2 DEF Typed, Opened
<1>5. before[t] # Disturbed => \A q \in Span(t, 1, item[t]) : q \in marred' \/ file'[q] = before[t][q]
  <2> SUFFICES ASSUME before[t] # Disturbed
               PROVE  \A q \in Span(t, 1, item[t]) : q \in marred' \/ file'[q] = before[t][q]
    OBVIOUS
  <2>1. pc[t] = "refilling" => fd[t] = FileName(p) \/ p \in marred
    BY <1>1 DEF Undisturbed
  <2>2. p \in marred'
    BY <1>0, <1>1, <1>4, <2>1
  <2> QED
    BY <1>1, <1>2, <1>4, <2>2
<1>6. /\ pc' \in [Actors -> WriterStates \cup TxStates] /\ at' \in [Actors -> Paths]
      /\ item' \in [Txs -> Nat] /\ original' \in [Txs -> [Paths -> Content]]
      /\ staged' \in [Txs -> [Paths -> Txs \cup {Absent, Torn}]]
      /\ \A b \in Actors \ {t} :
           /\ pc'[b] = pc[b] /\ at'[b] = at[b]
           /\ b \in Txs => item'[b] = item[b] /\ original'[b] = original[b] /\ staged'[b] = staged[b]
      /\ Transaction(t)'
      /\ Remember /\ before'[t] # Disturbed => Undisturbed(t)'
      /\ pc'[t] = "idle" => Tells(t)
  BY <1>0, <1>2, <1>3, <1>5, CleanedKeeps
<1>7. Typed'
  BY <1>0, <1>2, <1>3, <1>4, <1>6 DEF Typed, FileNames, TempNames
<1>8. \A b \in Actors \ {t} : Bystander(b)
  BY <1>2, <1>3, <1>6 DEF Bystander
<1>9. WholeFiles'
  <2>1. \A q \in Paths : file'[q] = Torn =>
          /\ file[q] = Torn /\ (q \in marred => q \in marred')
          /\ \A b \in Actors : pc[b] \in {"rewriting", "refilling"} /\ fd[b] = FileName(q) =>
               q \in marred' \/ (pc'[b] = pc[b] /\ fd'[b] = fd[b])
    BY <1>0, <1>2, <1>3, <1>4, <1>6
  <2> QED
    BY <2>1, StaysWhole
<1> QED
  BY <1>6, <1>7, <1>8, <1>9

-----------------------------------------------------------------------------
(* The steps of nobody in particular                                       *)

LEMMA DeleteKeeps ==
  ASSUME Inv, NEW p \in Paths, Delete(p)
  PROVE  /\ Typed' /\ WholeFiles' /\ \A b \in Actors : Bystander(b)
<1>0. Typed /\ Absent # Torn
  BY NamesAssumption DEF Inv
<1>1. /\ file' = [file EXCEPT ![p] = Absent] /\ Unlinked(FileName(p)) /\ Forgets(p)
      /\ marred' = marred \ {p}
      /\ UNCHANGED <<temp, staged, pc, at, copied, item, original>>
  BY DEF Delete
<1>2. /\ file' \in [Paths -> Content] /\ file'[p] # Torn
      /\ \A q \in Paths \ {p} : file'[q] = file[q] /\ (q \in marred' <=> q \in marred)
      /\ marred' \subseteq Paths
  BY <1>0, <1>1 DEF Typed, Content
<1>3. \A b \in Actors : fd'[b] = IF fd[b] = FileName(p) THEN Gone ELSE fd[b]
  BY <1>1 DEF Unlinked
<1>4. fd' \in [Actors -> {None, Gone} \cup FileNames \cup TempNames]
  <2>1. fd' = [b \in Actors |-> IF fd[b] = FileName(p) THEN Gone ELSE fd[b]]
    BY <1>1 DEF Unlinked
  <2> QED
    BY <1>0, <2>1 DEF Typed
<1>5. /\ source' \in [Writers -> Paths \cup {Absent}]
      /\ \A w \in Writers : source[w] = Absent => source'[w] = Absent
  BY <1>0, <1>1 DEF Forgets, Typed
<1>6. Typed'
  BY <1>0, <1>1, <1>2, <1>4, <1>5 DEF Typed, FileNames, TempNames
<1>7. ASSUME NEW b \in Actors PROVE Bystander(b)
  <2>1. /\ fd[b] \notin FileNames => fd'[b] = fd[b]
        /\ fd[b] \in FileNames => fd'[b] \in {Gone} \cup FileNames
        /\ \A q \in Paths : fd[b] = FileName(q) /\ file[q] = Torn =>
             fd'[b] = fd[b] \/ file'[q] # Torn \/ (fd'[b] = Gone /\ q \in marred')
    BY <1>2, <1>3, ReplacedKeeps
  <2> QED
    BY <1>1, <1>5, <2>1 DEF Bystander
<1>8. WholeFiles'
  <2>1. \A b \in Actors : pc[b] \in {"rewriting", "refilling"} =>
          pc'[b] = pc[b] /\ (fd[b] # FileName(p) => fd'[b] = fd[b])
    BY <1>1, <1>3
  <2> QED
    BY <1>2, <2>1, ReplacedWhole
<1> QED
  BY <1>6, <1>7, <1>8

LEMMA MoveKeeps ==
  ASSUME Inv, NEW q \in Paths, NEW p \in Paths \ {q}, Move(q, p)
  PROVE  /\ Typed' /\ WholeFiles' /\ \A b \in Actors : Bystander(b)
<1>0. Typed /\ Absent # Torn /\ Absent \notin Paths
  BY NamesAssumption DEF Inv
<1>1. /\ file' = [file EXCEPT ![p] = file[q], ![q] = Absent]
      /\ Renamed(FileName(q), FileName(p))
      /\ source' = [w \in Writers |-> CASE source[w] = p -> Absent
                                        [] source[w] = q -> p
                                        [] OTHER -> source[w]]
      /\ marred' = (marred \ {p, q}) \cup (IF file[q] = Torn THEN {p} ELSE {})
      /\ UNCHANGED <<temp, staged, pc, at, copied, item, original>>
  BY DEF Move
<1>2. /\ file' \in [Paths -> Content] /\ file'[q] = Absent /\ file'[p] = file[q]
      /\ \A r \in Paths \ {p, q} : file'[r] = file[r] /\ (r \in marred' <=> r \in marred)
      /\ marred' \subseteq Paths /\ (file'[p] = Torn => p \in marred')
  BY <1>0, <1>1 DEF Typed, Content
<1>3. \A b \in Actors : fd'[b] = IF fd[b] = FileName(p) THEN Gone
                                 ELSE IF fd[b] = FileName(q) THEN FileName(p) ELSE fd[b]
  BY <1>1 DEF Renamed
<1>4. FileName(p) # FileName(q) /\ FileName(p) \in FileNames /\ FileName(q) \in FileNames
  BY NamesDiffer DEF FileNames
<1>5. fd' \in [Actors -> {None, Gone} \cup FileNames \cup TempNames]
  <2>1. fd' = [b \in Actors |-> IF fd[b] = FileName(p) THEN Gone
                                ELSE IF fd[b] = FileName(q) THEN FileName(p) ELSE fd[b]]
    BY <1>1 DEF Renamed
  <2> QED
    BY <1>0, <1>4, <2>1 DEF Typed
<1>6. /\ source' \in [Writers -> Paths \cup {Absent}]
      /\ \A w \in Writers : source[w] = Absent => source'[w] = Absent
  <2>1. \A w \in Writers : source'[w] = IF source[w] = p THEN Absent ELSE IF source[w] = q THEN p ELSE source[w]
    BY <1>1
  <2>2. source' = [w \in Writers |-> source'[w]]
    BY <1>1
  <2> HIDE DEF Move
  <2>3. \A w \in Writers : source'[w] \in Paths \cup {Absent} /\ (source[w] = Absent => source'[w] = Absent)
    BY <1>0, <2>1 DEF Typed
  <2>4. source' \in [Writers -> Paths \cup {Absent}]
    BY <2>2, <2>3
  <2> QED
    BY <2>3, <2>4
<1>7. Typed'
  BY <1>0, <1>1, <1>2, <1>5, <1>6 DEF Typed, FileNames, TempNames
<1>8. ASSUME NEW b \in Actors PROVE Bystander(b)
  <2>1. /\ fd[b] \notin FileNames => fd'[b] = fd[b]
        /\ fd[b] \in FileNames => fd'[b] \in {Gone} \cup FileNames
    BY <1>3, <1>4
  <2>2. ASSUME NEW r \in Paths, fd[b] = FileName(r), file[r] = Torn
        PROVE  fd'[b] = fd[b] \/ file'[r] # Torn \/ (fd'[b] = Gone /\ r \in marred')
    <3>1. r = p => fd'[b] = Gone
      BY <1>3, <2>2
    <3>2. r \notin {p, q} => fd'[b] = fd[b]
      BY <1>3, <2>2, NamesDiffer
    <3> QED
      BY <1>0, <1>2, <3>1, <3>2
  <2> QED
    BY <1>1, <1>6, <2>1, <2>2 DEF Bystander
<1>9. WholeFiles'
  <2>1. ASSUME NEW r \in Paths, file'[r] = Torn, r \notin marred'
        PROVE  /\ file[r] = Torn /\ (r \in marred => r \in marred')
               /\ \A b \in Actors : pc[b] \in {"rewriting", "refilling"} /\ fd[b] = FileName(r) =>
                    r \in marred' \/ (pc'[b] = pc[b] /\ fd'[b] = fd[b])
    <3>1. r \in Paths \ {p, q}
      BY <1>0, <1>2, <2>1
    <3>2. FileName(r) # FileName(p) /\ FileName(r) # FileName(q)
      BY <3>1, NamesDiffer
    <3> QED
      BY <1>1, <1>2, <1>3, <2>1, <3>1, <3>2
  <2>2. \A r \in Paths : file'[r] = Torn =>
          \/ r \in marred'
          \/ /\ file[r] = Torn /\ (r \in marred => r \in marred')
             /\ \A b \in Actors : pc[b] \in {"rewriting", "refilling"} /\ fd[b] = FileName(r) =>
                  r \in marred' \/ (pc'[b] = pc[b] /\ fd'[b] = fd[b])
    BY <2>1
  <2> QED
    BY <2>2, StaysWhole
<1> QED
  BY <1>7, <1>8, <1>9

\* A crash ends all calls, and leaves what was being written in place.
LEMMA CrashKeeps ==
  ASSUME Inv, Crash
  PROVE  /\ Typed' /\ WholeFiles' /\ CallInv'
         /\ Remember => \A a \in Actors : before'[a] = Disturbed
<1>0. Typed
  BY DEF Inv
<1>1. /\ pc' \in [Actors -> WriterStates \cup TxStates] /\ \A a \in Actors : pc'[a] = "idle"
      /\ fd' \in [Actors -> {None, Gone} \cup FileNames \cup TempNames] /\ \A a \in Actors : fd'[a] = None
      /\ temp' \in [Paths -> Content] /\ staged' \in [Txs -> [Paths -> Txs \cup {Absent, Torn}]]
      /\ source' \in [Writers -> Paths \cup {Absent}] /\ \A w \in Writers : source'[w] = Absent
      /\ copied' \in [Writers -> SUBSET Content] /\ \A w \in Writers : copied'[w] = {}
      /\ original' \in [Txs -> [Paths -> Content]]
  BY DEF Crash, WriterStates, Nothing, Content
<1>2. at' \in [Actors -> Paths] /\ item' \in [Txs -> Nat] /\ \A t \in Txs : item'[t] = 1
  BY AnywhereIsAPath DEF Crash
<1>3. /\ file' = file /\ marred' = marred \cup UNION {Opened(a) : a \in InPlace}
  BY DEF Crash
<1>4. marred' \subseteq Paths
  BY <1>0, <1>3 DEF Typed, Opened
<1>5. Typed'
  BY <1>0, <1>1, <1>2, <1>3, <1>4 DEF Typed, FileNames, TempNames
<1>6. WholeFiles'
  <2>1. \A p \in Paths : file'[p] = Torn => p \in marred'
    BY <1>3 DEF Inv, WholeFiles
  <2> QED
    BY <2>1 DEF WholeFiles
<1>7. CallInv'
  <2>1. \A t \in Txs : 1 \in 1 .. Items(t)
    BY ItemsOf
  <2> QED
    BY <1>1, <1>2, <2>1 DEF CallInv, Writer, Transaction, Actors, WriterStates, TxStates
<1>8. Remember => \A a \in Actors : before'[a] = Disturbed
  BY <1>1 DEF Remember
<1> QED
  BY <1>5, <1>6, <1>7, <1>8

-----------------------------------------------------------------------------
(* The invariant holds                                                     *)

LEMMA InitHolds == Init => Inv
<1> SUFFICES ASSUME Init PROVE Inv
  OBVIOUS
<1>1. /\ file \in [Paths -> Content] /\ \A p \in Paths : file[p] # Torn
      /\ Nothing \in [Paths -> Content] /\ Nothing \in [Paths -> Txs \cup {Absent, Torn}]
  BY NamesAssumption DEF Init, Content, Whole, Nothing
<1>2. /\ pc \in [Actors -> WriterStates \cup TxStates] /\ \A a \in Actors : pc[a] = "idle"
      /\ fd \in [Actors -> {None, Gone} \cup FileNames \cup TempNames] /\ \A a \in Actors : fd[a] = None
      /\ source \in [Writers -> Paths \cup {Absent}] /\ \A w \in Writers : source[w] = Absent
      /\ copied \in [Writers -> SUBSET Content] /\ \A w \in Writers : copied[w] = {}
  BY DEF Init, WriterStates, TxStates
<1>3. at \in [Actors -> Paths] /\ item \in [Txs -> Nat] /\ \A t \in Txs : item[t] = 1
  BY AnywhereIsAPath DEF Init
<1>4. Typed
  BY <1>1, <1>2, <1>3 DEF Init, Typed
<1>5. CallInv
  <2>1. \A t \in Txs : 1 \in 1 .. Items(t)
    BY ItemsOf
  <2> QED
    BY <1>2, <1>3, <2>1 DEF CallInv, Writer, Transaction, Actors, WriterStates, TxStates
<1>6. WholeFiles /\ HistoryInv
  BY <1>1 DEF Init, WholeFiles, HistoryInv
<1> QED
  BY <1>4, <1>5, <1>6 DEF Inv

\* A step of one caller, or of none, keeps the invariant if it keeps the caller's
\* own part of it and moves the others only as a bystander is moved.
LEMMA OneMoves ==
  ASSUME Inv, Remember, NEW a, Typed', WholeFiles',
         \A b \in Actors \ {a} : Bystander(b),
         a \in Writers => Writer(a)', a \in Txs => Transaction(a)',
         a \in Actors /\ before'[a] # Disturbed => Undisturbed(a)'
  PROVE  Inv'
<1>1. ASSUME NEW w \in Writers PROVE Writer(w)'
  <2>1. CASE w = a
    BY <2>1
  <2>2. CASE w # a
    <3>1. Bystander(w)
      BY <2>2 DEF Actors
    <3> QED
      BY <3>1, StaysWriter
  <2> QED
    BY <2>1, <2>2
<1>2. ASSUME NEW t \in Txs PROVE Transaction(t)'
  <2>1. CASE t = a
    BY <2>1
  <2>2. CASE t # a
    <3>1. Bystander(t)
      BY <2>2 DEF Actors
    <3> QED
      BY <3>1, StaysTransaction
  <2> QED
    BY <2>1, <2>2
<1>3. ASSUME NEW b \in Actors, before'[b] # Disturbed PROVE Undisturbed(b)'
  <2>1. CASE b = a
    BY <1>3, <2>1
  <2>2. CASE b # a
    <3>1. Bystander(b)
      BY <2>2
    <3> QED
      BY <1>3, <3>1, StaysUndisturbed
  <2> QED
    BY <2>1, <2>2
<1>4. CallInv'
  BY <1>1, <1>2 DEF CallInv
<1>5. HistoryInv'
  BY <1>3 DEF HistoryInv
<1> QED
  BY <1>4, <1>5 DEF Inv

\* A writer's step.
LEMMA WriteKeeps ==
  ASSUME OneWriter, Inv, NEW w \in Writers, Write(w)
  PROVE  /\ Typed' /\ WholeFiles' /\ Writer(w)'
         /\ \A b \in Actors \ {w} : Bystander(b)
         /\ Remember /\ before'[w] # Disturbed => Undisturbed(w)'
<1>1. CASE Refuse(w) \/ Update(w) \/ UpdateFails(w)
  BY <1>1, WriterMoves
<1>2. CASE Open(w)
  BY <1>2, OpenKeeps
<1>3. CASE Fill(w) \/ FillFails(w)
  BY <1>3, FillKeeps
<1>4. CASE Rename(w)
  BY <1>4, RenameKeeps
<1>5. CASE RenameFails(w)
  BY <1>5, RenameFailsKeeps
<1>6. CASE Truncate(w)
  BY <1>6, TruncateKeeps
<1>7. CASE Rewrite(w) \/ RewriteFails(w)
  <2>1. w \in Content /\ Torn \in Content
    BY DEF Content, Whole, Actors
  <2>2. PICK c \in Content : PutInPlace(w, c)
    BY <1>7, <2>1 DEF Rewrite, RewriteFails
  <2>3. /\ pc[w] = "rewriting" /\ pc' = [pc EXCEPT ![w] = "idle"]
        /\ at' = [at EXCEPT ![w] = Anywhere] /\ UNCHANGED <<staged, item, original>>
    BY <1>7 DEF Rewrite, RewriteFails, Returns
  <2> QED
    BY <2>2, <2>3, RewriteKeeps
<1> QED
  BY <1>1, <1>2, <1>3, <1>4, <1>5, <1>6, <1>7 DEF Write

\* A transaction's step.
LEMMA WriteTextsKeeps ==
  ASSUME Inv, NEW t \in Txs, WriteTexts(t)
  PROVE  /\ Typed' /\ WholeFiles' /\ Transaction(t)'
         /\ \A b \in Actors \ {t} : Bystander(b)
         /\ Remember /\ before'[t] # Disturbed => Undisturbed(t)'
<1>1. CASE Begin(t)
  BY <1>1, BeginKeeps
<1>2. CASE Stage(t)
  BY <1>2, StageKeeps
<1>3. CASE ReadFails(t) \/ StageFails(t)
  BY <1>3, AbandonKeeps
<1>4. CASE Commit(t)
  BY <1>4, CommitKeeps
<1>5. CASE CommitFails(t)
  BY <1>5, CommitFailsKeeps
<1>6. CASE Unmake(t)
  BY <1>6, UnmakeKeeps
<1>7. CASE Reopen(t)
  BY <1>7, ReopenKeeps
<1>8. CASE Refill(t)
  BY <1>8, RefillKeeps
<1>9. CASE RestoreFails(t)
  BY <1>9, RestoreFailsKeeps
<1> QED
  BY <1>1, <1>2, <1>3, <1>4, <1>5, <1>6, <1>7, <1>8, <1>9 DEF WriteTexts

LEMMA StepKeeps == ASSUME OneWriter PROVE Inv /\ [Next]_vars => Inv'
<1> SUFFICES ASSUME Inv, [Next]_vars PROVE Inv'
  OBVIOUS
<1>1. ASSUME NEW w \in Writers, Write(w), Remember PROVE Inv'
  <2>1. w \notin Txs
    BY NamesAssumption
  <2> QED
    BY <1>1, <2>1, WriteKeeps, OneMoves
<1>2. ASSUME NEW t \in Txs, WriteTexts(t), Remember PROVE Inv'
  <2>1. t \notin Writers
    BY NamesAssumption
  <2> QED
    BY <1>2, <2>1, WriteTextsKeeps, OneMoves
<1>3. ASSUME Typed', WholeFiles', \A b \in Actors : Bystander(b), Remember PROVE Inv'
  <2>1. PICK nobody : nobody \notin Actors
    BY NamesAssumption DEF Actors
  <2> QED
    BY <1>3, <2>1, OneMoves DEF Actors
<1>4. ASSUME NEW p \in Paths, Delete(p), Remember PROVE Inv'
  BY <1>3, <1>4, DeleteKeeps
<1>5. ASSUME NEW q \in Paths, NEW p \in Paths \ {q}, Move(q, p), Remember PROVE Inv'
  BY <1>3, <1>5, MoveKeeps
<1>6. CASE Crash /\ Remember
  <2>1. Typed' /\ WholeFiles' /\ CallInv' /\ \A a \in Actors : before'[a] = Disturbed
    BY <1>6, CrashKeeps
  <2>2. HistoryInv'
    BY <2>1 DEF HistoryInv
  <2> QED
    BY <2>1, <2>2 DEF Inv
<1>7. CASE UNCHANGED vars
  <2>1. UNCHANGED <<file, temp, staged, pc, at, fd, source, copied, item, original, before, marred>>
    BY <1>7 DEF vars, disk
  <2>2. Typed' <=> Typed
    BY <2>1 DEF Typed
  <2>3. \A w \in Writers : Writer(w)' <=> Writer(w)
    BY <2>1 DEF Writer, Writing
  <2>4. \A t \in Txs : Transaction(t)' <=> Transaction(t)
    BY <2>1 DEF Transaction, Holds, Item
  <2>5. WholeFiles' <=> WholeFiles
    BY <2>1 DEF WholeFiles, InPlace, Opened
  <2>6. \A a \in Actors : Undisturbed(a)' <=> Undisturbed(a)
    BY <2>1 DEF Undisturbed
  <2>7. HistoryInv'
    BY <2>1, <2>6 DEF Inv, HistoryInv
  <2> QED
    BY <2>2, <2>3, <2>4, <2>5, <2>7 DEF Inv, CallInv
<1> QED
  BY <1>1, <1>2, <1>4, <1>5, <1>6, <1>7 DEF Next, Step

\* Files, temporary names, open files and the progress of every call stay as the
\* invariant has them, in every behaviour of the mount in which single writers
\* write different files.  Code: root/src/lib.rs:592-640.
THEOREM MountInvariant == ASSUME OneWriter PROVE Spec => []Inv
<1>1. Init => Inv
  BY InitHolds
<1>2. Inv /\ [Next]_vars => Inv'
  BY StepKeeps
<1> QED
  BY <1>1, <1>2, PTL DEF Spec

\* No file is ever cut short but by a write in place that was cut short itself, or
\* is under way, for any number of files, writers of different files and
\* transactions that overlap: the temporary file and the rename keep every other
\* write whole, whatever fails and whenever the process dies.
\* Code: root/src/lib.rs:592-612, 770-798.
THEOREM FilesAreWhole == ASSUME OneWriter PROVE Spec => []WholeFiles
<1>1. Inv => WholeFiles
  BY DEF Inv
<1> QED
  BY <1>1, MountInvariant, PTL

-----------------------------------------------------------------------------
(* What a call answers                                                     *)

\* A single writer's answer.
LEMMA WriterTells ==
  ASSUME OneWriter, Inv, NEW w \in Writers, Write(w), pc[w] # "idle", pc'[w] = "idle"
  PROVE  Tells(w)
<1>0. w \in Actors /\ w \notin Txs /\ Typed /\ Writer(w)
  BY NamesAssumption DEF Actors, Inv, CallInv
<1>1. before[w] # Disturbed => Undisturbed(w) /\ DOMAIN before[w] = {at[w]}
  <2>1. before[w] # Disturbed => Undisturbed(w)
    BY <1>0 DEF Inv, HistoryInv
  <2>2. Files(w, at[w]) = {at[w]}
    BY FilesOf
  <2> QED
    BY <2>1, <2>2 DEF Undisturbed
<1>2. ASSUME NEW what, Returns(w, what)
      PROVE  result'[w] = what
  BY <1>0, <1>2 DEF Returns, Unanswered
<1>3. CASE FillFails(w) \/ UpdateFails(w) \/ RenameFails(w)
  <2>1. result'[w] = "error" /\ pc[w] \in {"filling", "computing", "renaming"}
    BY <1>2, <1>3 DEF FillFails, UpdateFails, RenameFails
  <2>2. file' = file
    <3>1. CASE FillFails(w)
      <4>1. fd[w] = TempName(at[w]) /\ Put(w, Torn)
        BY <1>0, <3>1 DEF Writer, FillFails
      <4>2. \A p \in Paths : fd[w] # FileName(p)
        BY <4>1, NamesDiffer
      <4> QED
        BY <1>0, <4>1, <4>2 DEF Put, Typed
    <3>2. CASE UpdateFails(w) \/ RenameFails(w)
      BY <3>2 DEF UpdateFails, RenameFails, disk
    <3> QED
      BY <1>3, <3>1, <3>2
  <2>3. before[w] # Disturbed => \A p \in DOMAIN before[w] : file'[p] = before[w][p]
    BY <1>1, <2>1, <2>2 DEF Undisturbed
  <2> QED
    BY <2>1, <2>3 DEF Tells
<1>4. CASE Rename(w)
  <2>1. result'[w] = "ok" /\ pc[w] = "renaming"
    BY <1>2, <1>4 DEF Rename
  <2>2. at[w] \in Paths /\ file' = [file EXCEPT ![at[w]] = temp[at[w]]]
    BY <1>0, <1>4 DEF Rename, Typed
  <2>3. file'[at[w]] \in Writing(w)
    BY <1>0, <2>1, <2>2 DEF Typed, Writer
  <2> QED
    BY <1>0, <1>1, <2>1, <2>3 DEF Tells
<1>5. CASE Rewrite(w)
  <2>1. result'[w] = "ok" /\ pc[w] = "rewriting"
    BY <1>2, <1>5 DEF Rewrite
  <2>2. /\ PutInPlace(w, w) /\ pc' = [pc EXCEPT ![w] = "idle"]
        /\ at' = [at EXCEPT ![w] = Anywhere] /\ UNCHANGED <<staged, item, original>>
    BY <1>5 DEF Rewrite, Returns
  <2>3. w \in Content
    BY DEF Content, Whole, Actors
  <2>4. before[w] # Disturbed => \A p \in DOMAIN before[w] : p \in marred' \/ file'[p] = w
    BY <2>1, <2>2, <2>3, RewriteKeeps
  <2>5. w \in Writing(w)
    BY <1>0, <2>1 DEF Writer, Writing
  <2> QED
    BY <1>0, <2>1, <2>4, <2>5 DEF Tells
<1>6. CASE RewriteFails(w)
  <2>1. result'[w] = "error" /\ pc[w] = "rewriting"
    BY <1>2, <1>6 DEF RewriteFails
  <2>2. marred' = marred \cup Opened(w)
    BY <1>6 DEF RewriteFails, PutInPlace
  <2>3. before[w] # Disturbed => at[w] \in marred'
    <3> SUFFICES ASSUME before[w] # Disturbed PROVE at[w] \in marred'
      OBVIOUS
    <3>1. fd[w] = FileName(at[w]) \/ (fd[w] = Gone /\ at[w] \in marred)
      BY <1>1, <2>1 DEF Undisturbed
    <3>2. at[w] \in Paths
      BY <1>0 DEF Typed
    <3> QED
      BY <2>2, <3>1, <3>2 DEF Opened
  <2>4. before[w] # Disturbed => \A p \in DOMAIN before[w] : p \in marred'
    BY <1>1, <2>3
  <2> QED
    BY <2>1, <2>4 DEF Tells
<1>7. CASE Refuse(w) \/ Open(w) \/ Fill(w) \/ Update(w) \/ Truncate(w)
  <2>1. CASE Refuse(w) \/ Open(w) \/ Update(w)
    BY <2>1 DEF Refuse, Open, Update, Starts
  <2>2. CASE Fill(w) \/ Truncate(w)
    <3>1. pc'[w] \in {"renaming", "rewriting"}
      BY <1>0, <2>2 DEF Fill, Truncate, Goes, Typed
    <3> QED
      BY <3>1
  <2> QED
    BY <1>7, <2>1, <2>2
<1> QED
  BY <1>3, <1>4, <1>5, <1>6, <1>7 DEF Write

\* A transaction's answer.
LEMMA TransactionTells ==
  ASSUME Inv, NEW t \in Txs, WriteTexts(t), pc[t] # "idle", pc'[t] = "idle"
  PROVE  Tells(t)
<1>1. CASE Begin(t)
  BY <1>1 DEF Begin, Starts
<1>2. CASE Stage(t)
  BY <1>2, StageKeeps
<1>3. CASE ReadFails(t) \/ StageFails(t)
  <2>0. t \in Actors
    BY DEF Actors
  <2>1. result'[t] = "error" /\ pc[t] = "staging" /\ file' = file
    BY <1>3, <2>0 DEF ReadFails, StageFails, Abandons, Returns, Unanswered, disk
  <2>2. before[t] # Disturbed => Undisturbed(t)
    BY <2>0 DEF Inv, HistoryInv
  <2>3. before[t] # Disturbed => \A p \in DOMAIN before[t] : file'[p] = before[t][p]
    BY <2>1, <2>2 DEF Undisturbed
  <2> QED
    BY <2>1, <2>3 DEF Tells
<1>4. CASE Commit(t)
  BY <1>4, CommitKeeps
<1>5. CASE CommitFails(t)
  BY <1>5, CommitFailsKeeps
<1>6. CASE Unmake(t)
  BY <1>6, UnmakeKeeps
<1>7. CASE Reopen(t)
  BY <1>7, ReopenKeeps
<1>8. CASE Refill(t)
  BY <1>8, RefillKeeps
<1>9. CASE RestoreFails(t)
  BY <1>9, RestoreFailsKeeps
<1> QED
  BY <1>1, <1>2, <1>3, <1>4, <1>5, <1>6, <1>7, <1>8, <1>9 DEF WriteTexts

LEMMA StepTells ==
  ASSUME OneWriter, Inv, [Next]_vars
  PROVE  [\A a \in Actors : pc[a] # "idle" /\ pc'[a] = "idle" => Tells(a)]_vars
<1> SUFFICES ASSUME Next, NEW a \in Actors, pc[a] # "idle", pc'[a] = "idle" PROVE Tells(a)
  OBVIOUS
<1>1. ~Bystander(a)
  BY DEF Bystander
<1>2. ASSUME NEW w \in Writers, Write(w) PROVE Tells(a)
  <2>1. a = w
    BY <1>1, <1>2, WriteKeeps
  <2> QED
    BY <1>2, <2>1, WriterTells
<1>3. ASSUME NEW t \in Txs, WriteTexts(t) PROVE Tells(a)
  <2>1. a = t
    BY <1>1, <1>3, WriteTextsKeeps
  <2> QED
    BY <1>3, <2>1, TransactionTells
<1>4. ASSUME NEW p \in Paths, Delete(p) PROVE FALSE
  BY <1>1, <1>4, DeleteKeeps
<1>5. ASSUME NEW q \in Paths, NEW p \in Paths \ {q}, Move(q, p) PROVE FALSE
  BY <1>1, <1>5, MoveKeeps
<1>6. CASE Crash
  <2>1. result'[a] = "none"
    BY <1>6 DEF Crash, Unanswered
  <2> QED
    BY <2>1 DEF Tells
<1> QED
  BY <1>2, <1>3, <1>4, <1>5, <1>6 DEF Next, Step

\* A call that returns ok has written all its files, one that returns an error has
\* left them all as they were, unless somebody else has changed one of them during
\* the call or the restoration was cut short itself: for any number of writers of
\* different files, and transactions of any length.  Code: root/src/lib.rs:592-640,
\* 770-798.
THEOREM AnswersAreTrue == ASSUME OneWriter PROVE Spec => AnswerTells
<1>1. Inv /\ [Next]_vars => [\A a \in Actors : pc[a] # "idle" /\ pc'[a] = "idle" => Tells(a)]_vars
  BY StepTells
<1> QED
  BY <1>1, MountInvariant, PTL DEF Spec, AnswerTells
=============================================================================

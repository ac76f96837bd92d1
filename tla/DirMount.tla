------------------------------ MODULE DirMount ------------------------------
(***************************************************************************)
(* A directory mount: write_text, write_texts, copy_file, rename and       *)
(* remove_dir of root/src/lib.rs, dir_add, dir_update and dir_remove of    *)
(* root/src/mount.rs.                                                      *)
(*                                                                         *)
(* A file is written to a temporary name and renamed, but for an update    *)
(* and a restoration, which write it in place.  The single writes of one   *)
(* process share the temporary name of a path; a transaction names its own *)
(* after a fresh identifier.  A step is one call of the file system; an    *)
(* open file follows the renames of its name.                              *)
(***************************************************************************)
EXTENDS Integers, Sequences, SequencesExt

CONSTANTS
  Paths,      \* the files of the mount
  Writers,    \* threads that work on one file
  Targets,    \* the paths each of them writes
  Calls,      \* what they call: "write" (write_text and add), "copy", "move", "update"
  Txs,        \* threads that call write_texts
  Order,      \* the paths of each transaction, in the order of its argument
  Old,        \* what the files of the mount hold at first
  Absent,     \* no file
  Torn,       \* a file cut short: truncated, or written in part
  Disturbed   \* history: no call, or somebody else has changed a file of it

ASSUME OrderAssumption == \A t \in Txs : Order[t] \in Seq(Paths) \ {<<>>} /\ IsInjective(Order[t])
ASSUME NamesAssumption ==
  /\ Paths # {} /\ \A w \in Writers : Targets[w] \subseteq Paths
  /\ Writers \cap Txs = {} /\ (Writers \cup Txs) \cap {Old, Absent, Torn} = {}
  /\ Torn \notin {Old, Absent} /\ Absent \notin Paths

Actors == Writers \cup Txs

\* Each call writes something of its own, named after the caller.
Whole == Actors \cup {Old}
Content == Whole \cup {Absent, Torn}

\* The names of open files: "none" is no file, "gone" a file without a name.
FileName(p) == <<"file", p>>
TempName(p) == <<"temp", p>>
None == <<"none">>
Gone == <<"gone">>

VARIABLES
  file,         \* what each path holds
  temp,         \* what the shared temporary name of each path holds
  staged,       \* what the temporary name of a transaction's item holds
  pc,           \* where each caller is
  at,           \* the path it is working on
  fd,           \* which name the file it has open goes by
  source,       \* the file a copy reads, while that has its name
  copied,       \* what the copy may have found there
  item,         \* the position a transaction has reached
  original,     \* Staged.original
  result,       \* history: what a call returned in the last step
  before,       \* history: the files of the call when it began, until another changes one
                \* or the call ends
  marred        \* history: files that a restoration or an update, cut short, has cut short,
                \* and copies of them

disk == <<file, temp, staged>>
vars == <<disk, pc, at, fd, source, copied, item, original, result, before, marred>>

Nothing == [p \in Paths |-> Absent]

\* The path of the idle: none in particular.
Anywhere == CHOOSE p \in Paths : TRUE

Init ==
  /\ file \in [Paths -> {Old, Absent}]
  /\ temp = Nothing
  /\ staged = [t \in Txs |-> Nothing]
  /\ pc = [a \in Actors |-> "idle"]
  /\ at = [a \in Actors |-> Anywhere]
  /\ fd = [a \in Actors |-> None]
  /\ source = [w \in Writers |-> Absent]
  /\ copied = [w \in Writers |-> {}]
  /\ item = [t \in Txs |-> 1]
  /\ original = [t \in Txs |-> Nothing]
  /\ result = [a \in Actors |-> "none"]
  /\ before = [a \in Actors |-> Disturbed]
  /\ marred = {}

-----------------------------------------------------------------------------
(* The file system.                                                        *)

\* The files of a call, which works on path p now.
Files(a, p) == IF a \in Txs THEN ToSet(Order[a]) ELSE {p}

\* The file that a has open, as far as it has a name.
Opened(a) == {p \in Paths : fd[a] = FileName(p)}

\* What the copies have found that read one of the files ps, which is written
\* in place and now holds c: what they began with, c, or a mixture.
Mixed(ps, c) ==
  [w \in Writers |-> IF source[w] \in ps THEN copied[w] \cup {c, Torn} ELSE copied[w]]

\* The name p leads to another file: who reads the old one goes on reading it.
Forgets(p) == source' = [w \in Writers |-> IF source[w] = p THEN Absent ELSE source[w]]

\* The name new is taken from the file that has it, and given to the one of the name old.
Renamed(old, new) ==
  fd' = [a \in Actors |-> IF fd[a] = new THEN Gone ELSE IF fd[a] = old THEN new ELSE fd[a]]

\* Whoever has the file open writes to a file without a name.
Unlinked(name) == fd' = [a \in Actors |-> IF fd[a] = name THEN Gone ELSE fd[a]]

\* The call closes the file it has written, and the one it has read.
Closes(a) ==
  /\ fd' = [fd EXCEPT ![a] = None]
  /\ source' = [w \in Writers |-> IF w = a THEN Absent ELSE source[w]]

\* The file a has open now holds c, whatever its name is.
Put(a, c) ==
  /\ temp' = [p \in Paths |-> IF fd[a] = TempName(p) THEN c ELSE temp[p]]
  /\ file' = [p \in Paths |-> IF fd[a] = FileName(p) THEN c ELSE file[p]]
  /\ Closes(a)

\* Somebody else has the file of a open, or has written to it since a opened it.
Overlaps(a) ==
  \/ \E b \in Actors \ {a} : fd[b] = fd[a] /\ fd[a] # Gone
  \/ \E p \in Paths : \/ fd[a] = TempName(p) /\ temp[p] # Torn
                      \/ fd[a] = FileName(p) /\ file[p] # Torn

\* File p is opened for writing in place, which truncates it.
Truncated(a, p) ==
  /\ file' = [file EXCEPT ![p] = Torn]
  /\ fd' = [fd EXCEPT ![a] = FileName(p)]
  /\ copied' = Mixed({p}, Torn)

\* The file that a writes in place gets c, or a mixture with what others write.
PutInPlace(a, c) ==
  \E d \in {c} \cup (IF Overlaps(a) THEN {Torn} ELSE {}) :
    /\ Put(a, d)
    /\ copied' = Mixed(Opened(a), d)
    /\ marred' = IF d = Torn THEN marred \cup Opened(a) ELSE marred

Starts(a, p) == pc[a] = "idle" /\ at' = [at EXCEPT ![a] = p]

Unanswered == [a \in Actors |-> "none"]

Goes(a, state) == pc' = [pc EXCEPT ![a] = state] /\ result' = Unanswered

Returns(a, what) ==
  /\ pc' = [pc EXCEPT ![a] = "idle"]
  /\ at' = [at EXCEPT ![a] = Anywhere]
  /\ result' = [Unanswered EXCEPT ![a] = what]

-----------------------------------------------------------------------------
(* write_text, dir_add and copy_file                                       *)

\* create_dir_all fails, or there is no file to copy, to move or to update.
Refuse(w) ==
  /\ pc[w] = "idle"
  /\ Returns(w, "error")
  /\ UNCHANGED <<disk, fd, source, copied, item, original, marred>>

\* Mutant of Open: the file itself is opened.
OpenInPlace(w) ==
  /\ "write" \in Calls
  /\ \E p \in Targets[w] : Starts(w, p) /\ Truncated(w, p)
  /\ Goes(w, "filling")
  /\ UNCHANGED <<temp, staged, source, item, original, marred>>

\* std::fs::write opens the temporary file, which truncates it; std::fs::copy
\* opens its source before ...
Open(w) ==
  /\ \E p \in Targets[w] :
       /\ Starts(w, p)
       /\ temp' = [temp EXCEPT ![p] = Torn]
       /\ fd' = [fd EXCEPT ![w] = TempName(p)]
       /\ \/ "write" \in Calls /\ UNCHANGED <<source, copied>>
          \/ /\ "copy" \in Calls
             /\ \E q \in Paths \ {p} :
                  /\ file[q] # Absent
                  /\ source' = [source EXCEPT ![w] = q]
                  /\ copied' = [copied EXCEPT ![w] = {file[q]}]
  /\ Goes(w, "filling")
  /\ UNCHANGED <<file, staged, item, original, marred>>

\* What a call puts into its files.
Writing(a) == IF a \in Writers THEN (IF copied[a] = {} THEN {a} ELSE copied[a]) ELSE {a}

\* ... writes it, over what another has written to it meanwhile ...
Fill(w) ==
  /\ pc[w] = "filling"
  /\ \E c \in Writing(w) \cup (IF Overlaps(w) THEN {Torn} ELSE {}) :
       Put(w, c) /\ copied' = Mixed(Opened(w), c)
  /\ Goes(w, "renaming")
  /\ UNCHANGED <<staged, at, item, original, marred>>

\* ... or fails, and leaves it.
FillFails(w) ==
  /\ pc[w] = "filling"
  /\ Put(w, Torn)
  /\ copied' = [Mixed(Opened(w), Torn) EXCEPT ![w] = {}]
  /\ Returns(w, "error")
  /\ UNCHANGED <<staged, item, original, marred>>

\* A file that is cut short may be the copy of one.
Rename(w) ==
  /\ pc[w] = "renaming"
  /\ LET p == at[w]
     IN  /\ temp[p] # Absent
         /\ file' = [file EXCEPT ![p] = temp[p]]
         /\ temp' = [temp EXCEPT ![p] = Absent]
         /\ Renamed(TempName(p), FileName(p))
         /\ Forgets(p)
         /\ marred' = IF temp[p] = Torn /\ Torn \in copied[w] THEN marred \cup {p} ELSE marred \ {p}
  /\ copied' = [copied EXCEPT ![w] = {}]
  /\ Returns(w, "ok")
  /\ UNCHANGED <<staged, item, original>>

\* The temporary file, or another's of that name, is removed.
RemoveTemp(w) ==
  /\ temp' = [temp EXCEPT ![at[w]] = Absent]
  /\ Unlinked(TempName(at[w]))
  /\ copied' = [copied EXCEPT ![w] = {}]

\* Mutant of RenameFails: the error is dropped.
RenameFailsQuietly(w) ==
  /\ pc[w] = "renaming"
  /\ RemoveTemp(w)
  /\ Returns(w, "ok")
  /\ UNCHANGED <<file, staged, source, item, original, marred>>

\* rename fails.
RenameFails(w) ==
  /\ pc[w] = "renaming"
  /\ RemoveTemp(w)
  /\ Returns(w, "error")
  /\ UNCHANGED <<file, staged, source, item, original, marred>>

-----------------------------------------------------------------------------
(* rename, dir_remove, dir_update                                          *)

\* rename: the file q, or every file of a directory at once, takes another name.
Move(q, p) ==
  /\ "move" \in Calls
  /\ file[q] # Absent
  /\ file' = [file EXCEPT ![p] = file[q], ![q] = Absent]
  /\ Renamed(FileName(q), FileName(p))
  /\ source' = [w \in Writers |-> CASE source[w] = p -> Absent
                                    [] source[w] = q -> p
                                    [] OTHER -> source[w]]
  /\ marred' = (marred \ {p, q}) \cup (IF file[q] = Torn THEN {p} ELSE {})
  /\ result' = Unanswered
  /\ UNCHANGED <<temp, staged, pc, at, copied, item, original>>

\* dir_remove, and each file that remove_dir finds.
Delete(p) ==
  /\ file[p] # Absent
  /\ file' = [file EXCEPT ![p] = Absent]
  /\ Unlinked(FileName(p))
  /\ Forgets(p)
  /\ marred' = marred \ {p}
  /\ result' = Unanswered
  /\ UNCHANGED <<temp, staged, pc, at, copied, item, original>>

\* dir_update reads the file and computes its new content ...
Update(w) ==
  /\ "update" \in Calls
  /\ \E p \in Targets[w] : file[p] # Absent /\ Starts(w, p)
  /\ Goes(w, "computing")
  /\ UNCHANGED <<disk, fd, source, copied, item, original, marred>>

\* ... which cannot be encoded, or the file not opened ...
UpdateFails(w) ==
  /\ pc[w] = "computing"
  /\ Returns(w, "error")
  /\ UNCHANGED <<disk, fd, source, copied, item, original, marred>>

\* ... opens the file itself ...
Truncate(w) ==
  /\ pc[w] = "computing"
  /\ Truncated(w, at[w])
  /\ Goes(w, "rewriting")
  /\ UNCHANGED <<temp, staged, source, at, item, original, marred>>

\* ... and writes it ...
Rewrite(w) ==
  /\ pc[w] = "rewriting"
  /\ PutInPlace(w, w)
  /\ Returns(w, "ok")
  /\ UNCHANGED <<staged, item, original>>

\* ... or fails, and leaves it.
RewriteFails(w) ==
  /\ pc[w] = "rewriting"
  /\ PutInPlace(w, Torn)
  /\ Returns(w, "error")
  /\ UNCHANGED <<staged, item, original>>

-----------------------------------------------------------------------------
(* write_texts: every item is staged, then every item renamed.             *)

Items(t) == Len(Order[t])
Item(t) == Order[t][item[t]]

\* On to the next item; after the last one, to the state "after", and the call
\* returns "what" if that is idle.
Advance(t, during, after, what, originals) ==
  LET more == item[t] < Items(t)
      next == IF more THEN item[t] + 1 ELSE 1
      ends == ~more /\ after = "idle"
  IN  /\ item' = [item EXCEPT ![t] = next]
      /\ at' = [at EXCEPT ![t] = IF ends THEN Anywhere ELSE Order[t][next]]
      /\ pc' = [pc EXCEPT ![t] = IF more THEN during ELSE after]
      /\ result' = [Unanswered EXCEPT ![t] = IF ends THEN what ELSE "none"]
      /\ original' = [original EXCEPT ![t] = IF ends THEN Nothing ELSE originals]

Begin(t) ==
  /\ Starts(t, Order[t][1])
  /\ Goes(t, "staging")
  /\ staged' = [staged EXCEPT ![t] = Nothing]
  /\ UNCHANGED <<file, temp, fd, source, copied, item, original, marred>>

\* The file is read, and its new content written to a temporary file.
Stage(t) ==
  /\ pc[t] = "staging"
  /\ staged' = [staged EXCEPT ![t][Item(t)] = t]
  /\ Advance(t, "staging", "committing", "none",
             [original[t] EXCEPT ![Item(t)] = file[Item(t)]])
  /\ UNCHANGED <<file, temp, fd, source, copied, marred>>

\* The staging breaks off.
Abandons(t) ==
  /\ Returns(t, "error")
  /\ item' = [item EXCEPT ![t] = 1]
  /\ original' = [original EXCEPT ![t] = Nothing]

\* The file cannot be read: the question mark leaves what is staged.
ReadFails(t) ==
  /\ pc[t] = "staging"
  /\ file[Item(t)] # Absent
  /\ Abandons(t)
  /\ UNCHANGED <<disk, fd, source, copied, marred>>

\* A directory or a temporary file cannot be written: the items staged before
\* are cleaned up, and the temporary file of this one may stay.
StageFails(t) ==
  /\ pc[t] = "staging"
  /\ \E left \in {Absent, Torn} : staged' = [staged EXCEPT ![t] = [Nothing EXCEPT ![Item(t)] = left]]
  /\ Abandons(t)
  /\ UNCHANGED <<file, temp, fd, source, copied, marred>>

Commit(t) ==
  /\ pc[t] = "committing"
  /\ file' = [file EXCEPT ![Item(t)] = staged[t][Item(t)]]
  /\ staged' = [staged EXCEPT ![t][Item(t)] = Absent]
  /\ Unlinked(FileName(Item(t)))
  /\ Forgets(Item(t))
  /\ marred' = marred \ {Item(t)}
  /\ Advance(t, "committing", "idle", "ok", original[t])
  /\ UNCHANGED <<temp, copied>>

\* A rename fails: every item is restored, from the first.
CommitFails(t) ==
  /\ pc[t] = "committing"
  /\ Goes(t, "restoring")
  /\ item' = [item EXCEPT ![t] = 1]
  /\ at' = [at EXCEPT ![t] = Order[t][1]]
  /\ UNCHANGED <<disk, fd, source, copied, original, marred>>

\* The temporary file of the item is removed, and the next one follows.
Cleaned(t) ==
  /\ staged' = [staged EXCEPT ![t][Item(t)] = Absent]
  /\ Advance(t, "restoring", "idle", "error", original[t])

\* Mutant of Unmake: only the temporary file is removed.
UnmakeTemp(t) ==
  /\ pc[t] = "restoring"
  /\ original[t][Item(t)] = Absent
  /\ Cleaned(t)
  /\ UNCHANGED <<file, temp, fd, source, copied, marred>>

\* An item that was no file before is removed.
Unmake(t) ==
  /\ pc[t] = "restoring"
  /\ original[t][Item(t)] = Absent
  /\ file' = [file EXCEPT ![Item(t)] = Absent]
  /\ Unlinked(FileName(Item(t)))
  /\ Forgets(Item(t))
  /\ marred' = marred \ {Item(t)}
  /\ Cleaned(t)
  /\ UNCHANGED <<temp, copied>>

\* Any other is written in place: opened, which truncates it ...
Reopen(t) ==
  /\ pc[t] = "restoring"
  /\ original[t][Item(t)] # Absent
  /\ Truncated(t, Item(t))
  /\ Goes(t, "refilling")
  /\ UNCHANGED <<temp, staged, source, at, item, original, marred>>

\* ... and written.
Refill(t) ==
  /\ pc[t] = "refilling"
  /\ PutInPlace(t, original[t][Item(t)])
  /\ Cleaned(t)

\* Restoring or unmaking an item fails, which is ignored.
RestoreFails(t) ==
  /\ pc[t] \in {"restoring", "refilling"}
  /\ marred' = marred \cup (IF pc[t] = "restoring" THEN {Item(t)} ELSE Opened(t))
  /\ Closes(t)
  /\ Cleaned(t)
  /\ UNCHANGED <<file, temp, copied>>

-----------------------------------------------------------------------------
\* Who writes a file in place.
InPlace == {a \in Actors : pc[a] \in {"rewriting", "refilling"}}

\* The process dies and starts again.  What it left under temporary names is
\* never used: the names hold a process or a transaction identifier.
Crash ==
  /\ temp' = Nothing
  /\ staged' = [t \in Txs |-> Nothing]
  /\ pc' = [a \in Actors |-> "idle"]
  /\ at' = [a \in Actors |-> Anywhere]
  /\ fd' = [a \in Actors |-> None]
  /\ source' = [w \in Writers |-> Absent]
  /\ copied' = [w \in Writers |-> {}]
  /\ item' = [t \in Txs |-> 1]
  /\ original' = [t \in Txs |-> Nothing]
  /\ result' = Unanswered
  /\ marred' = marred \cup UNION {Opened(a) : a \in InPlace}
  /\ UNCHANGED file

Write(w) ==
  \/ Refuse(w)
  \/ Open(w)
  \/ Fill(w)
  \/ FillFails(w)
  \/ Rename(w)
  \/ RenameFails(w)
  \/ Update(w)
  \/ UpdateFails(w)
  \/ Truncate(w)
  \/ Rewrite(w)
  \/ RewriteFails(w)

WriteTexts(t) ==
  \/ Begin(t)
  \/ Stage(t)
  \/ ReadFails(t)
  \/ StageFails(t)
  \/ Commit(t)
  \/ CommitFails(t)
  \/ Unmake(t)
  \/ Reopen(t)
  \/ Refill(t)
  \/ RestoreFails(t)

\* The history of the calls: a step of a call is one that moves it on.
Remember ==
  LET own(a) == pc'[a] # pc[a] \/ (a \in Txs /\ item'[a] # item[a])
      touched(p) == file'[p] # file[p] \/ (p \in marred) # (p \in marred')
  IN  before' = [a \in Actors |->
        IF pc'[a] = "idle" THEN Disturbed
        ELSE IF pc[a] = "idle" THEN [p \in Files(a, at'[a]) |-> file[p]]
        ELSE IF before[a] = Disturbed \/ own(a) THEN before[a]
        ELSE IF \E p \in DOMAIN before[a] : touched(p) THEN Disturbed
        ELSE before[a]]

Step ==
  \/ \E w \in Writers : Write(w)
  \/ \E t \in Txs : WriteTexts(t)
  \/ \E p \in Paths : Delete(p)
  \/ \E q \in Paths : \E p \in Paths \ {q} : Move(q, p)
  \/ Crash

Next == Step /\ Remember

Spec == Init /\ [][Next]_vars
-----------------------------------------------------------------------------
(* Properties *)

\* The types of the variables.
TypeOK ==
  /\ file \in [Paths -> Content] /\ temp \in [Paths -> Content]
  /\ staged \in [Txs -> [Paths -> Txs \cup {Absent, Torn}]]
  /\ pc \in [Actors -> {"idle", "filling", "renaming", "staging", "committing", "restoring",
                        "refilling", "computing", "rewriting"}]
  /\ at \in [Actors -> Paths]
  /\ \A a \in Actors : \/ fd[a] \in {None, Gone}
                       \/ \E p \in Paths : fd[a] \in {FileName(p), TempName(p)}
  /\ source \in [Writers -> Paths \cup {Absent}]
  /\ copied \in [Writers -> SUBSET Content]
  /\ \A t \in Txs : item[t] \in 1 .. Items(t)
  /\ original \in [Txs -> [Paths -> Content]]
  /\ result \in [Actors -> {"none", "ok", "error"}]
  /\ \A a \in Actors : before[a] = Disturbed \/ before[a] \in [Files(a, at[a]) -> Content]
  /\ marred \subseteq Paths

\* A file is cut short only while a failed transaction restores it or an update
\* writes it, because that was cut short, or because it is a copy of such a file:
\* a crash, a full disk or another caller in the middle of any other write leaves
\* the old content or the new.  Code: root/src/lib.rs:592-612, 770-798.
WholeFiles ==
  \A p \in Paths : file[p] = Torn => p \in marred \/ \E a \in InPlace : p \in Opened(a)

\* A call that returns ok has written all its files, and a transaction then
\* leaves no temporary file; one that returns an error has changed nothing, as
\* lib.rs:614-615 has it.  Exempt are files that somebody else has changed during
\* the call, and those whose restoration or update was cut short.
Tells(a) ==
  LET during == before[a] # Disturbed
      Kept(p, cs) == p \in marred' \/ file'[p] \in cs
  IN  /\ result'[a] = "ok" =>
           /\ during => \A p \in DOMAIN before[a] : Kept(p, Writing(a))
           /\ a \in Txs => staged'[a] = Nothing
      /\ result'[a] = "error" /\ during => \A p \in DOMAIN before[a] : Kept(p, {before[a][p]})

AnswerTells == [][\A a \in Actors : pc[a] # "idle" /\ pc'[a] = "idle" => Tells(a)]_vars

\* lib.rs:592: write_text writes atomically, so a file that no transaction
\* writes is never cut short.  The code: two threads share the temporary file.
WriteTextAtomic ==
  \A p \in Paths : file[p] = Torn => \E t \in Txs : p \in Files(t, p)
=============================================================================

----------------------- MODULE ProcessRegistryProofs ------------------------
(***************************************************************************)
(* Supervised processes, for any number of threads, processes and bytes of *)
(* output: none is lost, each has one final result, and no character of    *)
(* its output is cut in two.                                               *)
(***************************************************************************)
EXTENDS ProcessRegistry, SequenceTheorems, TLAPS

-----------------------------------------------------------------------------
(* The invariant                                                           *)

Typed ==
  /\ TypeOK
  /\ written \in [Procs -> Nat] /\ captured \in [Procs -> Nat] /\ cursor \in [Procs -> Nat]

\* Where a thread has a process that is in nobody else's hands, and where it has
\* started that process itself.
Holding == {"registering", "running", "collecting", "joining", "draining"}
Starting == {"registering", "running", "collecting"}

Holds(t, p) == pc[t] \in Holding /\ on[t] = p

\* A process is in the registry or with one thread, and knows its owner.
HoldInv ==
  /\ \A t \in Threads : pc[t] \in Holding =>
       on[t] \in Procs /\ on[t] \notin registry /\ os[on[t]] # "unborn"
  /\ \A t, u \in Threads : pc[t] \in Holding /\ pc[u] \in Holding /\ on[t] = on[u] => t = u
  /\ \A t \in Threads : pc[t] \in Starting => owner[on[t]] = t
  /\ \A p \in registry : os[p] # "unborn"

\* What a thread that ends has still to kill is its own, and all of it.
EndInv ==
  /\ \A t \in Threads : \A p \in mine[t] :
       owner[p] = t /\ pc[t] = "ending" /\ os[p] # "unborn"
  /\ \A t \in Threads : pc[t] \in {"ending", "ended"} => \A p \in registry : owner[p] # t

\* A process that has not been waited for is where somebody will.
KeptInv ==
  \A p \in Procs : os[p] \in {"running", "exited"} =>
    \/ p \in registry
    \/ \E t \in Threads : p \in mine[t] \/ (pc[t] \in {"registering", "running"} /\ on[t] = p)

\* A reader that is done has everything there will ever be.
ReadInv ==
  \A p \in Procs : reader[p] = "done" => captured[p] = written[p] /\ Over(p) /\ ~held[p]

\* A final result is given when the process leaves the hands of a thread.
Final(p, f) == f.joined => reader[p] = "done" /\ f.bytes = captured[p]

FinalInv ==
  \A p \in Procs :
    /\ finals[p] = <<>> \/ \E f : finals[p] = <<f>> /\ Final(p, f)
    /\ p \in registry \/ os[p] = "unborn" \/ (\E t \in Threads : Holds(t, p)) => finals[p] = <<>>

Inv == Typed /\ HoldInv /\ EndInv /\ KeptInv /\ ReadInv /\ FinalInv

-----------------------------------------------------------------------------
(* Types                                                                   *)

\* Where a thread goes, and where the others stay.
LEMMA GoesTo ==
  ASSUME Typed, NEW t \in Threads, NEW state, NEW p, Goes(t, state, p)
  PROVE  /\ pc'[t] = state /\ on'[t] = p
         /\ \A u \in Threads : u # t => pc'[u] = pc[u] /\ on'[u] = on[u]
BY DEF Typed, TypeOK, Goes

States == Holding \cup {"idle", "writing", "blocked", "ending", "ended"}

\* Going to a state keeps the types of where threads are.
LEMMA GoesTypes ==
  ASSUME Typed, NEW t \in Threads, NEW state \in States, NEW p \in Procs \cup {NoProc},
         Goes(t, state, p)
  PROVE  /\ pc' \in [Threads -> {"idle", "registering", "running", "collecting", "joining",
                                 "draining", "writing", "blocked", "ending", "ended"}]
         /\ on' \in [Threads -> Procs \cup {NoProc}]
BY DEF Typed, TypeOK, Goes, States, Holding

\* The final result a thread gives is typed.
LEMMA FinalsTypes ==
  ASSUME Typed, NEW t \in Threads, on[t] \in Procs, Finals(t)
  PROVE  finals' \in [Procs -> Seq([bytes : Nat, joined : BOOLEAN])]
<1>1. [bytes |-> captured[on[t]], joined |-> pc[t] # "draining"] \in [bytes : Nat, joined : BOOLEAN]
  BY DEF Typed
<1>2. Append(finals[on[t]], [bytes |-> captured[on[t]], joined |-> pc[t] # "draining"])
        \in Seq([bytes : Nat, joined : BOOLEAN])
  BY <1>1, AppendProperties DEF Typed, TypeOK
<1> QED
  BY <1>2 DEF Finals, Typed, TypeOK

\* What read_increment takes is a part of what there is.
LEMMA ConsumedSome ==
  ASSUME NEW s, NEW S, s \in Seq(S)
  PROVE  Consumed(s) \in 0 .. Len(s)
<1>1. Len(s) \in Nat /\ (s # <<>> => Len(s) > 0)
  OBVIOUS
<1> QED
  BY <1>1 DEF Consumed

\* The types of a thread's own steps: nothing but these change.
LEMMA ProceedTypes ==
  ASSUME Typed, HoldInv, NEW t \in Threads, Proceed(t)
  PROVE  Typed'
<1>1. NoProc \in Procs \cup {NoProc} /\ "idle" \in States /\ "collecting" \in States
      /\ "ended" \in States
  BY DEF States, Holding
<1>2. ASSUME Register(t) PROVE Typed'
  <2>1. on[t] \in Procs
    BY <1>2 DEF Register, HoldInv, Holding
  <2> QED
    BY <1>1, <1>2, <2>1, GoesTypes DEF Register, Returns, io, Typed, TypeOK
<1>3. ASSUME RunEnds(t) PROVE Typed'
  <2>1. on[t] \in Procs
    BY <1>3 DEF RunEnds, HoldInv, Holding
  <2>2. os' \in [Procs -> {"unborn", "running", "exited", "reaped"}]
    BY <1>3 DEF RunEnds, Typed, TypeOK
  <2> QED
    BY <1>1, <1>3, <2>1, <2>2, GoesTypes DEF RunEnds, io, Typed, TypeOK
<1>4. ASSUME Joined(t) PROVE Typed'
  <2>1. on[t] \in Procs
    BY <1>4 DEF Joined, HoldInv, Holding
  <2>2. lock' \in Threads \cup {Free}
    BY <1>4 DEF Joined, Typed, TypeOK
  <2> QED
    BY <1>1, <1>4, <2>1, <2>2, GoesTypes, FinalsTypes DEF Joined, Returns, io, Typed, TypeOK
<1>5. ASSUME Drained(t) PROVE Typed'
  <2>1. on[t] \in Procs
    BY <1>5 DEF Drained, HoldInv, Holding
  <2> QED
    BY <1>1, <1>5, <2>1, GoesTypes, FinalsTypes DEF Drained, Returns, io, Typed, TypeOK
<1>6. ASSUME Wrote(t) PROVE Typed'
  <2>1. stdin' \in [Procs -> BOOLEAN]
    BY <1>6 DEF Wrote, Typed, TypeOK
  <2> QED
    BY <1>1, <1>6, <2>1, GoesTypes DEF Wrote, Returns, io, Typed, TypeOK
<1>7. ASSUME Kill(t) PROVE Typed'
  <2>1. PICK p \in mine[t] : /\ os' = [os EXCEPT ![p] = "reaped"]
                             /\ mine' = [mine EXCEPT ![t] = mine[t] \ {p}]
    BY <1>7 DEF Kill
  <2>2. os' \in [Procs -> {"unborn", "running", "exited", "reaped"}]
    BY <2>1 DEF Typed, TypeOK
  <2>3. mine' \in [Threads -> SUBSET Procs]
    BY <2>1 DEF Typed, TypeOK
  <2> QED
    BY <1>7, <2>2, <2>3 DEF Kill, io, Typed, TypeOK
<1>8. ASSUME Ended(t) PROVE Typed'
  BY <1>1, <1>8, GoesTypes DEF Ended, io, Typed, TypeOK
<1> QED
  BY <1>2, <1>3, <1>4, <1>5, <1>6, <1>7, <1>8 DEF Proceed

\* The steps that start, poll, stop, write to and read from a process.
LEMMA CallTypes ==
  ASSUME Typed, NEW t \in Threads, NEW p \in Procs,
         \/ Spawn(t, p) \/ Run(t, p) \/ PollOver(t, p) \/ PollFails(t, p) \/ Terminate(t, p)
         \/ WriteStdin(t, p) \/ ReadOutput(t, p)
  PROVE  Typed'
<1>1. /\ \A e \in {"running", "reaped"} :
           [os EXCEPT ![p] = e] \in [Procs -> {"unborn", "running", "exited", "reaped"}]
      /\ registry \ {p} \subseteq Procs
      /\ {"registering", "running", "joining", "draining", "writing", "blocked"} \subseteq States
  BY DEF Typed, TypeOK, States, Holding
<1>2. ASSUME Start(t, p)
      PROVE  /\ os' \in [Procs -> {"unborn", "running", "exited", "reaped"}]
             /\ owner' \in [Procs -> Threads] /\ held' \in [Procs -> BOOLEAN]
             /\ reader' \in [Procs -> {"none", "on", "done"}]
  BY <1>1, <1>2 DEF Start, Typed, TypeOK
<1>3. ASSUME Spawn(t, p) PROVE Typed'
  <2>1. pty' \in [Procs -> BOOLEAN] /\ stdin' \in [Procs -> BOOLEAN]
    BY <1>3 DEF Spawn, Typed, TypeOK
  <2> QED
    BY <1>1, <1>2, <1>3, <2>1, GoesTypes DEF Spawn, Typed, TypeOK
<1>4. ASSUME Run(t, p) PROVE Typed'
  BY <1>1, <1>2, <1>4, GoesTypes DEF Run, Typed, TypeOK
<1>5. ASSUME PollOver(t, p) PROVE Typed'
  <2>1. Goes(t, "joining", p) \/ Goes(t, "draining", p)
    BY <1>5 DEF PollOver
  <2> QED
    BY <1>1, <1>5, <2>1, GoesTypes DEF PollOver, io, Typed, TypeOK
<1>6. ASSUME PollFails(t, p) PROVE Typed'
  BY <1>1, <1>6 DEF PollFails, io, Typed, TypeOK
<1>7. ASSUME Terminate(t, p) PROVE Typed'
  BY <1>1, <1>7, GoesTypes DEF Terminate, io, Typed, TypeOK
<1>8. ASSUME WriteStdin(t, p) PROVE Typed'
  <2>1. Goes(t, "writing", p) \/ Goes(t, "blocked", p)
    BY <1>8 DEF WriteStdin
  <2> QED
    BY <1>1, <1>8, <2>1, GoesTypes DEF WriteStdin, io, Typed, TypeOK
<1>9. ASSUME ReadOutput(t, p) PROVE Typed'
  <2>1. /\ Stream[p] \in Seq({"a", "L", "C"}) /\ cursor[p] \in 0 .. captured[p]
        /\ captured[p] \in Nat /\ written[p] \in Nat
        /\ captured[p] <= written[p] /\ written[p] <= Len(Stream[p])
    BY ProcessAssumption DEF Typed, TypeOK
  <2>2. /\ SubSeq(Stream[p], cursor[p] + 1, captured[p]) \in Seq({"a", "L", "C"})
        /\ Len(SubSeq(Stream[p], cursor[p] + 1, captured[p])) = captured[p] - cursor[p]
    BY <2>1, SubSeqProperties
  <2>3. cursor[p] + Consumed(SubSeq(Stream[p], cursor[p] + 1, captured[p])) \in 0 .. captured[p]
    <3>1. Consumed(SubSeq(Stream[p], cursor[p] + 1, captured[p])) \in 0 .. captured[p] - cursor[p]
      BY <2>2, ConsumedSome
    <3> QED
      BY <2>1, <3>1
  <2>4. /\ cursor' \in [Procs -> Nat] /\ captured' = captured
        /\ \A q \in Procs : cursor'[q] \in 0 .. captured[q]
    BY <1>9, <2>3 DEF ReadOutput, io, Typed, TypeOK
  <2>5. os' \in [Procs -> {"unborn", "running", "exited", "reaped"}]
    BY <1>1, <1>9 DEF ReadOutput, Typed, TypeOK
  <2> QED
    BY <1>9, <2>4, <2>5 DEF ReadOutput, io, Typed, TypeOK
<1> QED
  BY <1>3, <1>4, <1>5, <1>6, <1>7, <1>8, <1>9

\* The steps of processes and readers, and of a thread that begins to end.
LEMMA ProcTypes ==
  ASSUME Typed,
         \/ \E t \in Threads : End(t)
         \/ \E p \in Procs : Output(p) \/ Exit(p) \/ ReadStdin(p) \/ LetGo(p) \/ Capture(p) \/ Eof(p)
  PROVE  Typed'
<1>1. {"ending", "writing"} \subseteq States
  BY DEF States
<1>2. ASSUME NEW t \in Threads, End(t) PROVE Typed'
  <2>1. mine' \in [Threads -> SUBSET Procs]
    BY <1>2 DEF End, Typed, TypeOK
  <2>2. registry' \subseteq Procs
    BY <1>2 DEF End, Typed, TypeOK
  <2> QED
    BY <1>1, <1>2, <2>1, <2>2, GoesTypes DEF End, io, Typed, TypeOK
<1>3. ASSUME NEW p \in Procs, Output(p) PROVE Typed'
  <2>1. /\ written[p] \in Nat /\ captured[p] \in Nat /\ Len(Stream[p]) \in Nat
        /\ captured[p] <= written[p] /\ written[p] < Len(Stream[p])
        /\ written' = [written EXCEPT ![p] = written[p] + 1]
    BY <1>3, ProcessAssumption DEF Output, Typed, TypeOK
  <2>2. /\ written' \in [Procs -> Nat]
        /\ \A q \in Procs : captured[q] <= written'[q] /\ written'[q] <= Len(Stream[q])
    BY SMTT(20), <2>1 DEF Typed, TypeOK
  <2> QED
    BY <1>3, <2>2 DEF Output, Typed, TypeOK
<1>4. ASSUME NEW p \in Procs, Exit(p) PROVE Typed'
  <2>1. os' \in [Procs -> {"unborn", "running", "exited", "reaped"}]
    BY <1>4 DEF Exit, Typed, TypeOK
  <2> QED
    BY <1>4, <2>1 DEF Exit, io, Typed, TypeOK
<1>5. ASSUME NEW p \in Procs, ReadStdin(p) PROVE Typed'
  <2>1. PICK t \in Threads : Goes(t, "writing", p)
    BY <1>5 DEF ReadStdin
  <2> QED
    BY <1>1, <1>5, <2>1, GoesTypes DEF ReadStdin, io, Typed, TypeOK
<1>6. ASSUME NEW p \in Procs, LetGo(p) PROVE Typed'
  <2>1. held' \in [Procs -> BOOLEAN]
    BY <1>6 DEF LetGo, Typed, TypeOK
  <2> QED
    BY <1>6, <2>1 DEF LetGo, Typed, TypeOK
<1>7. ASSUME NEW p \in Procs, Capture(p) PROVE Typed'
  <2>1. /\ captured[p] \in Nat /\ written[p] \in Nat /\ captured[p] < written[p]
        /\ captured' = [captured EXCEPT ![p] = captured[p] + 1]
    BY <1>7 DEF Capture, Typed, TypeOK
  <2>2. /\ captured' \in [Procs -> Nat]
        /\ \A q \in Procs : captured'[q] <= written[q] /\ cursor[q] \in 0 .. captured'[q]
    BY <2>1 DEF Typed, TypeOK
  <2> QED
    BY <1>7, <2>2 DEF Capture, Typed, TypeOK
<1>8. ASSUME NEW p \in Procs, Eof(p) PROVE Typed'
  <2>1. reader' \in [Procs -> {"none", "on", "done"}]
    BY <1>8 DEF Eof, Typed, TypeOK
  <2> QED
    BY <1>8, <2>1 DEF Eof, Typed, TypeOK
<1> QED
  BY <1>2, <1>3, <1>4, <1>5, <1>6, <1>7, <1>8

-----------------------------------------------------------------------------
(* What a step leaves alone                                                *)

\* A process that is over stays over, so its reader still has everything.
LEMMA ReadStays ==
  ASSUME ReadInv, UNCHANGED <<held, written, captured, reader>>,
         \A p \in Procs : Over(p) => os'[p] \in {"exited", "reaped"}
  PROVE  ReadInv'
BY DEF ReadInv, Over

\* No result is given: a process in nobody's hands before is in nobody's after.
LEMMA FinalStays ==
  ASSUME FinalInv, UNCHANGED <<captured, reader, finals>>,
         \A p \in Procs :
           \/ finals[p] = <<>>
           \/ /\ p \notin registry'
              /\ os'[p] # "unborn"
              /\ \A t \in Threads : ~(pc'[t] \in Holding /\ on'[t] = p)
  PROVE  FinalInv'
BY DEF FinalInv, Final, Holds

\* Nobody has a process that has its result.
LEMMA GivenIsNobodys ==
  ASSUME FinalInv, NEW p \in Procs, finals[p] # <<>>
  PROVE  /\ p \notin registry /\ os[p] # "unborn"
         /\ \A t \in Threads : ~(pc[t] \in Holding /\ on[t] = p)
BY DEF FinalInv, Holds

-----------------------------------------------------------------------------
(* The steps                                                               *)

\* What is said of threads and processes, without the types.
Rest == HoldInv /\ EndInv /\ KeptInv /\ ReadInv /\ FinalInv

\* A process is started by a thread that has it from then on.
LEMMA StartKeeps ==
  ASSUME Inv, NEW t \in Threads, NEW p \in Procs, Spawn(t, p) \/ Run(t, p)
  PROVE  Rest'
<1>1. PICK state \in {"registering", "running"} : Goes(t, state, p)
  BY DEF Spawn, Run
<1>2. /\ pc'[t] = state /\ on'[t] = p
      /\ \A u \in Threads : u # t => pc'[u] = pc[u] /\ on'[u] = on[u]
  BY <1>1, GoesTo DEF Inv
<1>3. /\ pc[t] = "idle" /\ os[p] = "unborn" /\ os'[p] = "running" /\ owner'[p] = t
      /\ held'[p] = (p \in Daemons) /\ reader'[p] = "on"
      /\ \A q \in Procs : q # p => /\ os'[q] = os[q] /\ owner'[q] = owner[q]
                                   /\ held'[q] = held[q] /\ reader'[q] = reader[q]
      /\ UNCHANGED <<registry, written, captured, mine, finals>>
  BY DEF Spawn, Run, Start, Inv, Typed, TypeOK
<1>4. /\ p \notin registry
      /\ \A u \in Threads : pc[u] \in Holding => on[u] # p /\ on[u] \in Procs
      /\ \A u \in Threads : p \notin mine[u] /\ mine[u] \subseteq Procs
  BY <1>3 DEF Inv, HoldInv, EndInv, Typed, TypeOK
<1>5. HoldInv'
  <2>1. \A u \in Threads : pc'[u] \in Holding =>
          on'[u] \in Procs /\ on'[u] \notin registry' /\ os'[on'[u]] # "unborn"
    BY <1>2, <1>3, <1>4 DEF Inv, HoldInv
  <2>2. \A u, v \in Threads :
          pc'[u] \in Holding /\ pc'[v] \in Holding /\ on'[u] = on'[v] => u = v
    BY <1>2, <1>4 DEF Inv, HoldInv
  <2>3. \A u \in Threads : pc'[u] \in Starting => owner'[on'[u]] = u
    BY <1>2, <1>3, <1>4 DEF Inv, HoldInv, Holding, Starting
  <2>4. \A q \in registry' : os'[q] # "unborn"
    BY <1>3, <1>4 DEF Inv, HoldInv, Typed, TypeOK
  <2> QED
    BY <2>1, <2>2, <2>3, <2>4 DEF HoldInv
<1>6. EndInv'
  BY SMTT(20), <1>2, <1>3, <1>4 DEF Inv, EndInv, Typed, TypeOK
<1>7. KeptInv'
  <2> SUFFICES ASSUME NEW q \in Procs, os'[q] \in {"running", "exited"}
               PROVE  \/ q \in registry'
                      \/ \E u \in Threads :
                           q \in mine'[u] \/ (pc'[u] \in {"registering", "running"} /\ on'[u] = q)
    BY DEF KeptInv
  <2>1. CASE q = p
    BY <1>2, <2>1
  <2>2. CASE q # p
    BY <1>2, <1>3, <2>2 DEF Inv, KeptInv
  <2> QED
    BY <2>1, <2>2
<1>8. ReadInv'
  BY <1>3 DEF Inv, ReadInv, Over
<1>9. FinalInv'
  <2>1. finals[p] = <<>>
    BY <1>3 DEF Inv, FinalInv
  <2> SUFFICES ASSUME NEW q \in Procs
               PROVE  /\ finals'[q] = <<>> \/ \E f : finals'[q] = <<f>> /\ Final(q, f)'
                      /\ (\/ q \in registry' \/ os'[q] = "unborn"
                          \/ \E u \in Threads : pc'[u] \in Holding /\ on'[u] = q) =>
                           finals'[q] = <<>>
    BY DEF FinalInv, Holds
  <2>2. CASE q = p
    BY <1>3, <2>1, <2>2
  <2>3. CASE q # p
    BY <1>2, <1>3, <2>3 DEF Inv, FinalInv, Final, Holds, Holding
  <2> QED
    BY <2>2, <2>3
<1> QED
  BY <1>5, <1>6, <1>7, <1>8, <1>9 DEF Rest

\* A process goes from the thread that started it to the registry.
LEMMA RegisterKeeps ==
  ASSUME Inv, NEW t \in Threads, Register(t)
  PROVE  Rest'
<1>1. /\ pc[t] = "registering" /\ registry' = registry \cup {on[t]} /\ Goes(t, "idle", NoProc)
      /\ UNCHANGED <<owner, os, held, written, captured, reader, mine, finals>>
  BY DEF Register, Returns, io
<1>2. /\ pc'[t] = "idle" /\ on'[t] = NoProc
      /\ \A u \in Threads : u # t => pc'[u] = pc[u] /\ on'[u] = on[u]
  BY <1>1, GoesTo DEF Inv
<1>3. /\ on[t] \in Procs /\ on[t] \notin registry /\ os[on[t]] # "unborn" /\ owner[on[t]] = t
      /\ \A u \in Threads : u # t /\ pc[u] \in Holding => on[u] # on[t]
  BY <1>1 DEF Inv, HoldInv, Holding, Starting
<1>4. HoldInv'
  BY <1>1, <1>2, <1>3 DEF Inv, HoldInv, Holding, Starting
<1>5. EndInv'
  BY <1>1, <1>2, <1>3 DEF Inv, EndInv
<1>6. KeptInv'
  BY <1>1, <1>2 DEF Inv, KeptInv
<1>7. ReadInv'
  BY <1>1, ReadStays DEF Inv, Over
<1>8. FinalInv'
  <2>1. finals[on[t]] = <<>>
    BY <1>1, <1>3 DEF Inv, FinalInv, Holds, Holding
  <2> QED
    BY <1>1, <1>2, <1>3, <2>1, FinalStays, GivenIsNobodys DEF Inv, Holding
<1> QED
  BY <1>4, <1>5, <1>6, <1>7, <1>8 DEF Rest

\* A process somebody waits for is waited for.
LEMMA ReapKeeps ==
  ASSUME Inv, NEW p \in Procs, os[p] # "unborn",
         os' = [os EXCEPT ![p] = "reaped"]
  PROVE  /\ \A q \in Procs : q # p => os'[q] = os[q]
         /\ os'[p] = "reaped"
         /\ \A q \in Procs : Over(q) => os'[q] \in {"exited", "reaped"}
         /\ \A q \in Procs : os'[q] = "unborn" <=> os[q] = "unborn"
         /\ \A q \in Procs : os'[q] \in {"running", "exited"} =>
              q # p /\ os[q] \in {"running", "exited"}
BY DEF Inv, Typed, TypeOK, Over

\* run has its process to itself until it gives the result.
LEMMA RunEndsKeeps ==
  ASSUME Inv, NEW t \in Threads, RunEnds(t)
  PROVE  Rest'
<1>1. /\ pc[t] = "running" /\ os' = [os EXCEPT ![on[t]] = "reaped"] /\ Goes(t, "collecting", on[t])
      /\ UNCHANGED <<registry, owner, held, written, captured, reader, mine, finals>>
  BY DEF RunEnds, io
<1>2. /\ pc'[t] = "collecting" /\ on'[t] = on[t]
      /\ \A u \in Threads : u # t => pc'[u] = pc[u] /\ on'[u] = on[u]
  BY <1>1, GoesTo DEF Inv
<1>3. on[t] \in Procs /\ os[on[t]] # "unborn"
  BY <1>1 DEF Inv, HoldInv, Holding
<1>4. /\ \A q \in Procs : q # on[t] => os'[q] = os[q]
      /\ \A q \in Procs : os'[q] = "unborn" <=> os[q] = "unborn"
      /\ \A q \in Procs : Over(q) => os'[q] \in {"exited", "reaped"}
      /\ \A q \in Procs : os'[q] \in {"running", "exited"} =>
           q # on[t] /\ os[q] \in {"running", "exited"}
  BY <1>1, <1>3, ReapKeeps
<1>5. \A u \in Threads : pc'[u] \in Holding <=> pc[u] \in Holding
  BY <1>1, <1>2 DEF Holding
<1>6. \A u \in Threads : on'[u] = on[u] /\ (pc'[u] \in Starting <=> pc[u] \in Starting)
  BY <1>1, <1>2 DEF Starting
<1>7. HoldInv'
  <2>1. registry \subseteq Procs
    BY DEF Inv, Typed, TypeOK
  <2>2. \A u \in Threads : pc[u] \in Holding => os'[on[u]] # "unborn"
    BY <1>4 DEF Inv, HoldInv
  <2> QED
    BY <1>1, <1>4, <1>5, <1>6, <2>1, <2>2 DEF Inv, HoldInv
<1>8. EndInv'
  <2>1. \A u \in Threads : mine[u] \subseteq Procs
    BY DEF Inv, Typed, TypeOK
  <2>2. \A u \in Threads : \A q \in mine'[u] :
          owner'[q] = u /\ pc'[u] = "ending" /\ os'[q] # "unborn"
    BY <1>1, <1>2, <1>4, <2>1 DEF Inv, EndInv
  <2>3. \A u \in Threads : pc'[u] \in {"ending", "ended"} => \A q \in registry' : owner'[q] # u
    BY <1>1, <1>2 DEF Inv, EndInv
  <2> QED
    BY <2>2, <2>3 DEF EndInv
<1>9. KeptInv'
  BY <1>1, <1>2, <1>4 DEF Inv, KeptInv
<1>10. ReadInv'
  BY <1>1, <1>4, ReadStays DEF Inv
<1>11. FinalInv'
  BY <1>1, <1>4, <1>5, <1>6, FinalStays, GivenIsNobodys DEF Inv
<1> QED
  BY <1>7, <1>8, <1>9, <1>10, <1>11 DEF Rest

\* The process is gone with the result, which has all of its output if the
\* reader was joined.
LEMMA FinishKeeps ==
  ASSUME Inv, NEW t \in Threads, Joined(t) \/ Drained(t)
  PROVE  Rest'
<1>1. /\ pc[t] \in {"joining", "collecting", "draining"} /\ Goes(t, "idle", NoProc) /\ Finals(t)
      /\ pc[t] # "draining" => reader[on[t]] = "done"
      /\ UNCHANGED <<registry, owner, os, held, written, captured, reader, mine>>
  BY DEF Joined, Drained, Returns, io
<1>2. /\ pc'[t] = "idle" /\ on'[t] = NoProc
      /\ \A u \in Threads : u # t => pc'[u] = pc[u] /\ on'[u] = on[u]
  BY <1>1, GoesTo DEF Inv
<1>3. /\ on[t] \in Procs /\ on[t] \notin registry /\ os[on[t]] # "unborn"
      /\ \A u \in Threads : u # t /\ pc[u] \in Holding => on[u] # on[t]
  BY <1>1 DEF Inv, HoldInv, Holding
<1>4. HoldInv'
  BY <1>1, <1>2 DEF Inv, HoldInv, Holding, Starting
<1>5. EndInv'
  BY <1>1, <1>2 DEF Inv, EndInv
<1>6. KeptInv'
  BY <1>1, <1>2 DEF Inv, KeptInv
<1>7. ReadInv'
  BY <1>1, ReadStays DEF Inv, Over
<1>8. FinalInv'
  <2> DEFINE f == [bytes |-> captured[on[t]], joined |-> pc[t] # "draining"]
  <2>1. finals[on[t]] = <<>>
    BY <1>1, <1>3 DEF Inv, FinalInv, Holds, Holding
  <2>2. finals'[on[t]] = << f >> /\ \A q \in Procs : q # on[t] => finals'[q] = finals[q]
    <3>1. Append(<<>>, f) = << f >>
      OBVIOUS
    <3> QED
      BY <1>1, <1>3, <2>1, <3>1 DEF Finals, Inv, Typed, TypeOK
  <2>3. f.joined => reader[on[t]] = "done" /\ f.bytes = captured[on[t]]
    BY <1>1
  <2> HIDE DEF f
  <2> SUFFICES ASSUME NEW q \in Procs
               PROVE  /\ finals'[q] = <<>> \/ \E g : finals'[q] = <<g>> /\ Final(q, g)'
                      /\ (\/ q \in registry' \/ os'[q] = "unborn"
                          \/ \E u \in Threads : pc'[u] \in Holding /\ on'[u] = q) =>
                           finals'[q] = <<>>
    BY DEF FinalInv, Holds
  <2>4. CASE q = on[t]
    <3>1. \A u \in Threads : pc'[u] \in Holding => on'[u] # q
      BY <1>2, <1>3, <2>4 DEF Holding
    <3> QED
      BY <1>1, <1>3, <2>2, <2>3, <2>4, <3>1 DEF Final
  <2>5. CASE q # on[t]
    <3>1. \A u \in Threads : pc'[u] \in Holding /\ on'[u] = q => Holds(u, q)
      BY <1>2 DEF Holding, Holds
    <3> QED
      BY <1>1, <2>2, <2>5, <3>1 DEF Inv, FinalInv, Final
  <2> QED
    BY <2>4, <2>5
<1> QED
  BY <1>4, <1>5, <1>6, <1>7, <1>8 DEF Rest

\* A process leaves the registry for the hands of the thread that polls or
\* terminates it, which has waited for it.
LEMMA TakeKeeps ==
  ASSUME Inv, NEW t \in Threads, NEW p \in Procs, PollOver(t, p) \/ Terminate(t, p)
  PROVE  Rest'
<1>1. PICK state \in {"joining", "draining"} : Goes(t, state, p)
  BY DEF PollOver, Terminate
<1>2. /\ pc'[t] = state /\ on'[t] = p
      /\ \A u \in Threads : u # t => pc'[u] = pc[u] /\ on'[u] = on[u]
  BY <1>1, GoesTo DEF Inv
<1>3. /\ pc[t] = "idle" /\ p \in registry /\ registry' = registry \ {p}
      /\ os' = [os EXCEPT ![p] = "reaped"]
      /\ UNCHANGED <<owner, held, written, captured, reader, mine, finals>>
  BY DEF PollOver, Terminate, Calls, io
<1>4. /\ os[p] # "unborn" /\ registry \subseteq Procs
      /\ \A u \in Threads : pc[u] \in Holding => on[u] # p /\ on[u] \in Procs
  BY <1>3 DEF Inv, HoldInv, Typed, TypeOK
<1>5. /\ \A q \in Procs : q # p => os'[q] = os[q]
      /\ os'[p] = "reaped"
      /\ \A q \in Procs : os'[q] = "unborn" <=> os[q] = "unborn"
      /\ \A q \in Procs : Over(q) => os'[q] \in {"exited", "reaped"}
      /\ \A q \in Procs : os'[q] \in {"running", "exited"} =>
           q # p /\ os[q] \in {"running", "exited"}
  BY <1>3, <1>4, ReapKeeps
<1>6. HoldInv'
  <2>1. \A u \in Threads : pc'[u] \in Holding =>
          on'[u] \in Procs /\ on'[u] \notin registry' /\ os'[on'[u]] # "unborn"
    BY <1>2, <1>3, <1>4, <1>5 DEF Inv, HoldInv
  <2>2. \A u, v \in Threads :
          pc'[u] \in Holding /\ pc'[v] \in Holding /\ on'[u] = on'[v] => u = v
    BY <1>2, <1>4 DEF Inv, HoldInv
  <2>3. \A u \in Threads : pc'[u] \in Starting => owner'[on'[u]] = u
    BY <1>2, <1>3 DEF Inv, HoldInv, Starting
  <2>4. \A q \in registry' : os'[q] # "unborn"
    BY <1>3, <1>4, <1>5 DEF Inv, HoldInv
  <2> QED
    BY <2>1, <2>2, <2>3, <2>4 DEF HoldInv
<1>7. EndInv'
  <2>1. \A u \in Threads : mine[u] \subseteq Procs
    BY DEF Inv, Typed, TypeOK
  <2>2. \A u \in Threads : \A q \in mine'[u] :
          owner'[q] = u /\ pc'[u] = "ending" /\ os'[q] # "unborn"
    BY <1>2, <1>3, <1>5, <2>1 DEF Inv, EndInv
  <2>3. \A u \in Threads : pc'[u] \in {"ending", "ended"} => \A q \in registry' : owner'[q] # u
    BY <1>2, <1>3 DEF Inv, EndInv
  <2> QED
    BY <2>2, <2>3 DEF EndInv
<1>8. KeptInv'
  BY <1>2, <1>3, <1>5 DEF Inv, KeptInv
<1>9. ReadInv'
  BY <1>3, <1>5, ReadStays DEF Inv
<1>10. FinalInv'
  <2>1. finals[p] = <<>>
    BY <1>3 DEF Inv, FinalInv
  <2> QED
    BY <1>2, <1>3, <1>5, <2>1, FinalStays, GivenIsNobodys DEF Inv
<1> QED
  BY <1>6, <1>7, <1>8, <1>9, <1>10 DEF Rest

\* A process whose state cannot be had is killed, waited for and forgotten.
LEMMA PollFailsKeeps ==
  ASSUME Inv, NEW t \in Threads, NEW p \in Procs, PollFails(t, p)
  PROVE  Rest'
<1>1. /\ p \in registry /\ registry' = registry \ {p} /\ os' = [os EXCEPT ![p] = "reaped"]
      /\ UNCHANGED <<owner, held, written, captured, reader, mine, finals, pc, on>>
  BY DEF PollFails, Calls, io
<1>2. /\ os[p] # "unborn" /\ registry \subseteq Procs
      /\ \A u \in Threads : pc[u] \in Holding => on[u] \in Procs /\ os[on[u]] # "unborn"
  BY <1>1 DEF Inv, HoldInv, Typed, TypeOK
<1>3. /\ \A q \in Procs : os'[q] = "unborn" <=> os[q] = "unborn"
      /\ \A q \in Procs : Over(q) => os'[q] \in {"exited", "reaped"}
      /\ \A q \in Procs : os'[q] \in {"running", "exited"} =>
           q # p /\ os[q] \in {"running", "exited"}
  BY <1>1, <1>2, ReapKeeps
<1>4. HoldInv'
  BY <1>1, <1>2, <1>3 DEF Inv, HoldInv
<1>5. EndInv'
  BY <1>1, <1>3 DEF Inv, EndInv, Typed, TypeOK
<1>6. KeptInv'
  BY <1>1, <1>3 DEF Inv, KeptInv
<1>7. ReadInv'
  BY <1>1, <1>3, ReadStays DEF Inv
<1>8. FinalInv'
  BY <1>1, <1>3, FinalStays, GivenIsNobodys DEF Inv
<1> QED
  BY <1>4, <1>5, <1>6, <1>7, <1>8 DEF Rest

\* A thread that writes to a process, or is let go on, has no process of its own.
LEMMA StdinKeeps ==
  ASSUME Inv, NEW t \in Threads,
         pc[t] \in {"idle", "writing", "blocked"},
         NEW state \in {"idle", "writing", "blocked"}, NEW p, Goes(t, state, p),
         UNCHANGED <<registry, owner, os, held, written, captured, reader, mine, finals>>
  PROVE  Rest'
<1>1. /\ pc'[t] = state /\ on'[t] = p
      /\ \A u \in Threads : u # t => pc'[u] = pc[u] /\ on'[u] = on[u]
  BY GoesTo DEF Inv
<1>2. HoldInv'
  BY <1>1 DEF Inv, HoldInv, Holding, Starting
<1>3. EndInv'
  BY <1>1 DEF Inv, EndInv
<1>4. KeptInv'
  BY <1>1 DEF Inv, KeptInv
<1>5. ReadInv'
  BY ReadStays DEF Inv, Over
<1>6. FinalInv'
  BY <1>1, FinalStays, GivenIsNobodys DEF Inv, Holding
<1> QED
  BY <1>2, <1>3, <1>4, <1>5, <1>6 DEF Rest

\* A process that is seen to be over, or exits, is where it was.
LEMMA OverKeeps ==
  ASSUME Inv, NEW p \in Procs, os[p] # "unborn", NEW e \in {"exited", "reaped"},
         e = "reaped" \/ os[p] \in {"running", "exited"},
         os' = [os EXCEPT ![p] = e],
         UNCHANGED <<registry, owner, held, written, captured, reader, mine, finals, pc, on>>
  PROVE  Rest'
<1>1. /\ \A q \in Procs : os'[q] = "unborn" <=> os[q] = "unborn"
      /\ \A q \in Procs : Over(q) => os'[q] \in {"exited", "reaped"}
      /\ \A q \in Procs : os'[q] \in {"running", "exited"} => os[q] \in {"running", "exited"}
  BY DEF Inv, Typed, TypeOK, Over
<1>2. registry \subseteq Procs
  BY DEF Inv, Typed, TypeOK
<1>3. HoldInv'
  BY <1>1, <1>2 DEF Inv, HoldInv
<1>4. EndInv'
  BY <1>1 DEF Inv, EndInv, Typed, TypeOK
<1>5. KeptInv'
  BY <1>1 DEF Inv, KeptInv
<1>6. ReadInv'
  BY <1>1, ReadStays DEF Inv
<1>7. FinalInv'
  BY <1>1, FinalStays, GivenIsNobodys DEF Inv
<1> QED
  BY <1>3, <1>4, <1>5, <1>6, <1>7 DEF Rest

\* What a step of the readers or writers leaves alone.
LEMMA IoKeeps ==
  ASSUME Inv, UNCHANGED <<registry, owner, os, pc, on, mine, finals>>, ReadInv',
         \A p \in Procs : \A f : Final(p, f) => Final(p, f)'
  PROVE  Rest'
BY DEF Inv, Rest, HoldInv, EndInv, KeptInv, FinalInv, Holds

\* A thread that ends takes its processes out of the registry, all of them.
LEMMA EndKeeps ==
  ASSUME Inv, NEW t \in Threads, End(t)
  PROVE  Rest'
<1>1. /\ pc[t] = "idle" /\ Goes(t, "ending", NoProc)
      /\ mine' = [mine EXCEPT ![t] = {p \in registry : owner[p] = t}]
      /\ registry' = {p \in registry : owner[p] # t}
      /\ UNCHANGED <<owner, os, held, written, captured, reader, finals>>
  BY DEF End, io
<1>2. /\ pc'[t] = "ending" /\ on'[t] = NoProc
      /\ \A u \in Threads : u # t => pc'[u] = pc[u] /\ on'[u] = on[u]
  BY <1>1, GoesTo DEF Inv
<1>3. /\ mine'[t] = {p \in registry : owner[p] = t}
      /\ \A u \in Threads : u # t => mine'[u] = mine[u]
  BY <1>1 DEF Inv, Typed, TypeOK
<1>4. \A u \in Threads : pc'[u] \in Holding => pc[u] \in Holding /\ on'[u] = on[u] /\ u # t
  BY <1>2 DEF Holding
<1>5. HoldInv'
  <2>1. \A u \in Threads : pc'[u] \in Holding =>
          on'[u] \in Procs /\ on'[u] \notin registry' /\ os'[on'[u]] # "unborn"
    BY <1>1, <1>4 DEF Inv, HoldInv
  <2>2. \A u, v \in Threads :
          pc'[u] \in Holding /\ pc'[v] \in Holding /\ on'[u] = on'[v] => u = v
    BY <1>4 DEF Inv, HoldInv
  <2>3. \A u \in Threads : pc'[u] \in Starting => owner'[on'[u]] = u
    BY <1>1, <1>2 DEF Inv, HoldInv, Starting
  <2>4. \A q \in registry' : os'[q] # "unborn"
    BY <1>1 DEF Inv, HoldInv
  <2> QED
    BY <2>1, <2>2, <2>3, <2>4 DEF HoldInv
<1>6. EndInv'
  <2>1. \A q \in registry : os[q] # "unborn"
    BY DEF Inv, HoldInv
  <2>2. \A u \in Threads : \A q \in mine'[u] :
          owner'[q] = u /\ pc'[u] = "ending" /\ os'[q] # "unborn"
    BY <1>1, <1>2, <1>3, <2>1 DEF Inv, EndInv
  <2>3. \A u \in Threads : pc'[u] \in {"ending", "ended"} => \A q \in registry' : owner'[q] # u
    BY <1>1, <1>2 DEF Inv, EndInv
  <2> QED
    BY <2>2, <2>3 DEF EndInv
<1>7. KeptInv'
  <2> SUFFICES ASSUME NEW q \in Procs, os'[q] \in {"running", "exited"}
               PROVE  \/ q \in registry'
                      \/ \E u \in Threads :
                           q \in mine'[u] \/ (pc'[u] \in {"registering", "running"} /\ on'[u] = q)
    BY DEF KeptInv
  <2>1. CASE q \in registry
    BY <1>1, <1>3, <2>1
  <2>2. CASE \E u \in Threads : q \in mine[u]
    <3>1. PICK u \in Threads : q \in mine[u]
      BY <2>2
    <3>2. u # t
      BY <1>1, <3>1 DEF Inv, EndInv
    <3> QED
      BY <1>3, <3>1, <3>2
  <2>3. CASE \E u \in Threads : pc[u] \in {"registering", "running"} /\ on[u] = q
    BY <1>1, <1>2, <2>3
  <2> QED
    BY <1>1, <2>1, <2>2, <2>3 DEF Inv, KeptInv
<1>8. ReadInv'
  BY <1>1, ReadStays DEF Inv, Over
<1>9. FinalInv'
  BY <1>1, <1>4, FinalStays, GivenIsNobodys DEF Inv
<1> QED
  BY <1>5, <1>6, <1>7, <1>8, <1>9 DEF Rest

\* A process that is killed and waited for is off the list of the thread that ends.
LEMMA KillKeeps ==
  ASSUME Inv, NEW t \in Threads, Kill(t)
  PROVE  Rest'
<1>1. PICK p \in mine[t] : /\ os' = [os EXCEPT ![p] = "reaped"]
                           /\ mine' = [mine EXCEPT ![t] = @ \ {p}]
  BY DEF Kill
<1>2. UNCHANGED <<registry, owner, held, written, captured, reader, pc, on, finals>>
  BY DEF Kill, io
<1>3. /\ p \in Procs /\ os[p] # "unborn" /\ registry \subseteq Procs
      /\ \A u \in Threads : mine[u] \subseteq Procs
  BY DEF Inv, EndInv, Typed, TypeOK
<1>4. /\ os'[p] = "reaped"
      /\ \A q \in Procs : os'[q] = "unborn" <=> os[q] = "unborn"
      /\ \A q \in Procs : Over(q) => os'[q] \in {"exited", "reaped"}
      /\ \A q \in Procs : os'[q] \in {"running", "exited"} =>
           q # p /\ os[q] \in {"running", "exited"}
  BY <1>1, <1>3, ReapKeeps
<1>5. \A u \in Threads : mine'[u] = mine[u] \ {p} \/ (u # t /\ mine'[u] = mine[u])
  BY <1>1 DEF Inv, Typed, TypeOK
<1>6. HoldInv'
  BY <1>2, <1>3, <1>4 DEF Inv, HoldInv
<1>7. EndInv'
  <2>1. \A u \in Threads : \A q \in mine'[u] :
          owner'[q] = u /\ pc'[u] = "ending" /\ os'[q] # "unborn"
    BY <1>2, <1>3, <1>4, <1>5 DEF Inv, EndInv
  <2>2. \A u \in Threads : pc'[u] \in {"ending", "ended"} => \A q \in registry' : owner'[q] # u
    BY <1>2 DEF Inv, EndInv
  <2> QED
    BY <2>1, <2>2 DEF EndInv
<1>8. KeptInv'
  BY <1>2, <1>4, <1>5 DEF Inv, KeptInv
<1>9. ReadInv'
  BY <1>2, <1>4, ReadStays DEF Inv
<1>10. FinalInv'
  BY <1>2, <1>4, FinalStays, GivenIsNobodys DEF Inv
<1> QED
  BY <1>6, <1>7, <1>8, <1>9, <1>10 DEF Rest

\* A thread has ended when nothing is left on its list.
LEMMA EndedKeeps ==
  ASSUME Inv, NEW t \in Threads, Ended(t)
  PROVE  Rest'
<1>1. /\ pc[t] = "ending" /\ mine[t] = {} /\ Goes(t, "ended", NoProc)
      /\ UNCHANGED <<registry, owner, os, held, written, captured, reader, mine, finals>>
  BY DEF Ended, io
<1>2. /\ pc'[t] = "ended" /\ on'[t] = NoProc
      /\ \A u \in Threads : u # t => pc'[u] = pc[u] /\ on'[u] = on[u]
  BY <1>1, GoesTo DEF Inv
<1>3. HoldInv'
  BY <1>1, <1>2 DEF Inv, HoldInv, Holding, Starting
<1>4. EndInv'
  BY <1>1, <1>2 DEF Inv, EndInv
<1>5. KeptInv'
  BY <1>1, <1>2 DEF Inv, KeptInv
<1>6. ReadInv'
  BY <1>1, ReadStays DEF Inv, Over
<1>7. FinalInv'
  BY <1>1, <1>2, FinalStays, GivenIsNobodys DEF Inv, Holding
<1> QED
  BY <1>3, <1>4, <1>5, <1>6, <1>7 DEF Rest

\* What write_stdin does moves nothing but the thread.
LEMMA WriteKeeps ==
  ASSUME Inv,
         \/ \E t \in Threads, p \in Procs : WriteStdin(t, p)
         \/ \E t \in Threads : Wrote(t)
         \/ \E p \in Procs : ReadStdin(p)
  PROVE  Rest'
<1>1. ASSUME NEW t \in Threads, NEW p \in Procs, WriteStdin(t, p) PROVE Rest'
  <2>1. PICK state \in {"writing", "blocked"} : Goes(t, state, p)
    BY <1>1 DEF WriteStdin
  <2> QED
    BY <1>1, <2>1, StdinKeeps DEF WriteStdin, Calls, io
<1>2. ASSUME NEW t \in Threads, Wrote(t) PROVE Rest'
  BY <1>2, StdinKeeps DEF Wrote, Returns, io
<1>3. ASSUME NEW p \in Procs, ReadStdin(p) PROVE Rest'
  <2>1. PICK t \in Threads : pc[t] = "blocked" /\ on[t] = p /\ Goes(t, "writing", p)
    BY <1>3 DEF ReadStdin
  <2> QED
    BY <1>3, <2>1, StdinKeeps DEF ReadStdin, io
<1> QED
  BY <1>1, <1>2, <1>3

\* A process that exits, and one that read_output finds to be over.
LEMMA ExitKeeps ==
  ASSUME Inv, NEW p \in Procs, Exit(p) \/ \E t \in Threads : ReadOutput(t, p)
  PROVE  Rest'
<1>1. CASE Exit(p)
  BY <1>1, OverKeeps DEF Exit, io
<1>2. ASSUME NEW t \in Threads, ReadOutput(t, p) PROVE Rest'
  <2>1. UNCHANGED <<registry, owner, held, written, captured, reader, mine, finals, pc, on>>
    BY <1>2 DEF ReadOutput, io
  <2>2. CASE Over(p)
    <3>1. os' = [os EXCEPT ![p] = "reaped"] /\ os[p] # "unborn"
      BY <1>2, <2>2 DEF ReadOutput, Over
    <3> QED
      BY <2>1, <3>1, OverKeeps
  <2>3. CASE ~Over(p)
    <3>1. os' = os
      BY <1>2, <2>3 DEF ReadOutput, Inv, Typed, TypeOK
    <3>2. ReadInv'
      BY <2>1, <3>1, ReadStays DEF Inv, Over
    <3> QED
      BY <2>1, <3>1, <3>2, IoKeeps DEF Final
  <2> QED
    BY <2>2, <2>3
<1> QED
  BY <1>1, <1>2

\* The output of a process moves while its reader reads it, and not after.
LEMMA OutputKeeps ==
  ASSUME Inv, NEW p \in Procs, Output(p) \/ LetGo(p) \/ Capture(p) \/ Eof(p)
  PROVE  Rest'
<1>1. UNCHANGED <<registry, owner, os, pc, on, mine, finals>>
  BY DEF Output, LetGo, Capture, Eof
<1>2. ReadInv' /\ \A q \in Procs : \A f : Final(q, f) => Final(q, f)'
  <2>1. CASE Output(p)
    <3>1. /\ os[p] = "running" \/ (Over(p) /\ held[p])
          /\ written' = [written EXCEPT ![p] = @ + 1] /\ UNCHANGED <<os, held, captured, reader>>
      BY <2>1 DEF Output
    <3>2. reader[p] # "done"
      BY <3>1 DEF Inv, ReadInv, Over
    <3>3. \A q \in Procs : q # p => written'[q] = written[q]
      BY <3>1 DEF Inv, Typed
    <3> QED
      BY <3>1, <3>2, <3>3 DEF Inv, ReadInv, Final, Over
  <2>2. CASE LetGo(p)
    BY <2>2 DEF LetGo, Inv, Typed, TypeOK, ReadInv, Final, Over
  <2>3. CASE Capture(p)
    <3>1. /\ reader[p] = "on" /\ captured' = [captured EXCEPT ![p] = @ + 1]
          /\ UNCHANGED <<os, held, written, reader>>
      BY <2>3 DEF Capture
    <3>2. \A q \in Procs : q # p => captured'[q] = captured[q]
      BY <3>1 DEF Inv, Typed
    <3> QED
      BY <3>1, <3>2 DEF Inv, ReadInv, Final, Over
  <2>4. CASE Eof(p)
    <3>1. /\ captured[p] = written[p] /\ Over(p) /\ ~held[p]
          /\ reader' = [reader EXCEPT ![p] = "done"]
          /\ UNCHANGED <<os, held, written, captured>>
      BY <2>4 DEF Eof
    <3>2. \A q \in Procs : q # p => reader'[q] = reader[q]
      BY <3>1 DEF Inv, Typed, TypeOK
    <3>3. reader'[p] = "done"
      BY <3>1 DEF Inv, Typed, TypeOK
    <3> QED
      BY <3>1, <3>2, <3>3 DEF Inv, ReadInv, Final, Over
  <2> QED
    BY <2>1, <2>2, <2>3, <2>4
<1> QED
  BY <1>1, <1>2, IoKeeps

-----------------------------------------------------------------------------
(* The invariant holds                                                     *)

LEMMA InitHolds == Init => Inv
<1> SUFFICES ASSUME Init PROVE Inv
  OBVIOUS
<1>1. Nobody \in Threads
  BY ProcessAssumption DEF Nobody
<1>2. \A p \in Procs : Len(Stream[p]) \in Nat
  BY ProcessAssumption
<1>3. Typed
  BY <1>1, <1>2 DEF Init, Typed, TypeOK
<1>4. HoldInv /\ EndInv /\ KeptInv /\ ReadInv /\ FinalInv
  BY DEF Init, HoldInv, EndInv, KeptInv, ReadInv, FinalInv, Holds, Holding, Starting
<1> QED
  BY <1>3, <1>4 DEF Inv

LEMMA StepKeeps == Inv /\ [Next]_vars => Inv'
<1> SUFFICES ASSUME Inv, [Next]_vars PROVE Inv'
  OBVIOUS
<1>1. Typed /\ HoldInv
  BY DEF Inv
<1>2. ASSUME NEW t \in Threads, Proceed(t) PROVE Inv'
  <2>1. Rest'
    BY <1>2, RegisterKeeps, RunEndsKeeps, FinishKeeps, WriteKeeps, KillKeeps, EndedKeeps DEF Proceed
  <2> QED
    BY <1>1, <1>2, <2>1, ProceedTypes DEF Inv, Rest
<1>3. ASSUME NEW t \in Threads, End(t) PROVE Inv'
  BY <1>1, <1>3, EndKeeps, ProcTypes DEF Inv, Rest
<1>4. ASSUME NEW t \in Threads, NEW p \in Procs,
             \/ Spawn(t, p) \/ Run(t, p) \/ PollOver(t, p) \/ PollFails(t, p) \/ Terminate(t, p)
             \/ WriteStdin(t, p) \/ ReadOutput(t, p)
      PROVE  Inv'
  <2>1. Rest'
    BY <1>4, StartKeeps, TakeKeeps, PollFailsKeeps, WriteKeeps, ExitKeeps
  <2> QED
    BY <1>1, <1>4, <2>1, CallTypes DEF Inv, Rest
<1>5. ASSUME NEW p \in Procs,
             Output(p) \/ Exit(p) \/ ReadStdin(p) \/ LetGo(p) \/ Capture(p) \/ Eof(p)
      PROVE  Inv'
  <2>1. Rest'
    BY <1>5, OutputKeeps, ExitKeeps, WriteKeeps
  <2> QED
    BY <1>1, <1>5, <2>1, ProcTypes DEF Inv, Rest
<1>6. CASE UNCHANGED vars
  BY <1>6 DEF vars, io, Inv, Typed, TypeOK, HoldInv, EndInv, KeptInv, ReadInv, FinalInv, Final,
              Holds, Over
<1> QED
  BY <1>2, <1>3, <1>4, <1>5, <1>6 DEF Next

\* The registry, the threads' hands and the readers agree, whatever the threads
\* and the processes do.
THEOREM RegistryInvariant == Spec => []Inv
BY InitHolds, StepKeeps, PTL DEF Spec

-----------------------------------------------------------------------------
(* None is lost, and each has one final result                             *)

\* A process nobody can reach any more has been waited for, and none outlives
\* the thread that started it.
THEOREM NoProcessIsLost == Spec => []NoneLost
<1>1. Inv => NoneLost
  <2> SUFFICES ASSUME Inv, NEW p \in Procs, os[p] \in {"running", "exited"}
               PROVE  /\ \/ p \in registry
                         \/ \E t \in Threads :
                              p \in mine[t] \/ (pc[t] \in {"registering", "running"} /\ on[t] = p)
                      /\ pc[owner[p]] # "ended"
    BY DEF NoneLost
  <2>1. \/ p \in registry
        \/ \E t \in Threads : p \in mine[t] \/ (pc[t] \in {"registering", "running"} /\ on[t] = p)
    BY DEF Inv, KeptInv
  <2>2. owner[p] \in Threads
    BY DEF Inv, Typed, TypeOK
  <2>3. CASE p \in registry
    BY <2>2, <2>3 DEF Inv, EndInv
  <2>4. ASSUME NEW t \in Threads, p \in mine[t] PROVE pc[owner[p]] # "ended"
    BY <2>4 DEF Inv, EndInv
  <2>5. ASSUME NEW t \in Threads, pc[t] \in {"registering", "running"}, on[t] = p
        PROVE  pc[owner[p]] # "ended"
    BY <2>5 DEF Inv, HoldInv, Starting
  <2> QED
    BY <2>1, <2>3, <2>4, <2>5
<1> QED
  BY <1>1, RegistryInvariant, PTL

\* poll, terminate and run give the final result of a process once, with the
\* whole output when they have joined its readers.
THEOREM FinalOnce == Spec => []OneFinal
<1>1. Inv => OneFinal
  <2> SUFFICES ASSUME Inv, NEW p \in Procs
               PROVE  /\ Len(finals[p]) <= 1
                      /\ \A f \in ToSet(finals[p]) : f.joined => f.bytes = written[p]
    BY DEF OneFinal
  <2>1. CASE finals[p] = <<>>
    BY <2>1 DEF ToSet
  <2>2. ASSUME NEW f, finals[p] = <<f>>, Final(p, f)
        PROVE  /\ Len(finals[p]) <= 1
               /\ \A g \in ToSet(finals[p]) : g.joined => g.bytes = written[p]
    <3>1. ToSet(finals[p]) = {f}
      BY <2>2 DEF ToSet
    <3>2. f.joined => f.bytes = written[p]
      BY <2>2 DEF Final, Inv, ReadInv
    <3> QED
      BY <2>2, <3>1, <3>2
  <2> QED
    BY <2>1, <2>2 DEF Inv, FinalInv
<1> QED
  BY <1>1, RegistryInvariant, PTL

-----------------------------------------------------------------------------
(* No character is cut in two                                              *)

\* What has been given of a process's output does not end within a character.
CursorInv == \A p \in Procs : cursor[p] = 0 \/ Stream[p][cursor[p]] # "L"

\* Each byte of a UTF-8 text has its neighbours.
LEMMA Neighbours ==
  ASSUME NEW s \in Seq({"a", "L", "C"}), Utf8(s), NEW i \in 1 .. Len(s)
  PROVE  /\ s[i] = "L" => i + 1 \in 1 .. Len(s) /\ s[i + 1] = "C"
         /\ s[i] = "C" => i - 1 \in 1 .. Len(s) /\ s[i - 1] = "L"
<1>1. DOMAIN s = 1 .. Len(s)
  OBVIOUS
<1> QED
  BY <1>1, Zenon DEF Utf8

\* A part of a UTF-8 text that ends outside a character is one too.
LEMMA WholePrefix ==
  ASSUME NEW s \in Seq({"a", "L", "C"}), Utf8(s), NEW n \in 0 .. Len(s), n = 0 \/ s[n] # "L"
  PROVE  Utf8(SubSeq(s, 1, n))
<1>1. Len(SubSeq(s, 1, n)) = n /\ \A i \in 1 .. n : SubSeq(s, 1, n)[i] = s[i]
  OBVIOUS
<1>2. DOMAIN SubSeq(s, 1, n) = 1 .. n /\ DOMAIN s = 1 .. Len(s) /\ Len(s) \in Nat
  OBVIOUS
<1> DEFINE w == SubSeq(s, 1, n)
<1> HIDE DEF w
<1>3. DOMAIN w = 1 .. n /\ \A i \in 1 .. n : w[i] = s[i]
  BY <1>1, <1>2 DEF w
<1>4. ASSUME NEW i \in 1 .. n
      PROVE  /\ w[i] = "L" => i + 1 \in 1 .. n /\ w[i + 1] = "C"
             /\ w[i] = "C" => i - 1 \in 1 .. n /\ w[i - 1] = "L"
  <2>1. /\ s[i] = "L" => i + 1 \in 1 .. Len(s) /\ s[i + 1] = "C"
        /\ s[i] = "C" => i - 1 \in 1 .. Len(s) /\ s[i - 1] = "L"
    <3>1. i \in 1 .. Len(s)
      BY <1>2
    <3> QED
      BY <3>1, Neighbours
  <2> QED
    BY <1>2, <1>3, <2>1
<1>5. Utf8(w)
  BY <1>3, <1>4 DEF Utf8
<1> QED
  BY <1>5 DEF w

\* From one place outside the characters of a UTF-8 text, read_increment gets to
\* another.
LEMMA ConsumedWhole ==
  ASSUME NEW s \in Seq({"a", "L", "C"}), Utf8(s),
         NEW c \in Nat, NEW k \in Nat, c <= k, k <= Len(s), c = 0 \/ s[c] # "L"
  PROVE  LET n == c + Consumed(SubSeq(s, c + 1, k)) IN n = 0 \/ s[n] # "L"
<1> DEFINE w == SubSeq(s, c + 1, k)
<1>1. DOMAIN s = 1 .. Len(s) /\ Len(s) \in Nat
  OBVIOUS
<1>2. /\ w \in Seq({"a", "L", "C"}) /\ Len(w) = k - c
      /\ \A i \in 1 .. k - c : w[i] = s[c + i]
  <2>1. \A i \in c + 1 .. k : s[i] \in {"a", "L", "C"}
    BY <1>1
  <2> QED
    BY <1>1, <2>1, SubSeqProperties
<1> HIDE DEF w
<1>3. CASE c = k
  <2>1. w = <<>>
    BY <1>2, <1>3
  <2>2. Consumed(w) = 0
    BY <1>2, <1>3, <2>1 DEF Consumed
  <2> QED
    BY <2>2 DEF w
<1>4. CASE c < k
  <2>1. w # <<>> /\ Last(w) = s[k]
    BY <1>2, <1>4 DEF Last
  <2>2. CASE s[k] # "L"
    <3>1. Consumed(w) = k - c
      BY <1>2, <2>1, <2>2 DEF Consumed
    <3> QED
      BY <2>2, <3>1 DEF w
  <2>3. CASE s[k] = "L"
    <3> DEFINE v == Front(w)
    <3>1. DOMAIN v = 1 .. k - 1 - c /\ \A i \in 1 .. k - 1 - c : v[i] = s[c + i]
      <4>1. v = SubSeq(w, 1, k - c - 1)
        BY <1>2 DEF Front
      <4>2. Len(SubSeq(w, 1, k - c - 1)) = k - c - 1
            /\ \A i \in 1 .. k - c - 1 : SubSeq(w, 1, k - c - 1)[i] = w[i]
            /\ DOMAIN SubSeq(w, 1, k - c - 1) = 1 .. k - c - 1
        BY <1>2, <1>4
      <4> QED
        BY <1>2, <4>1, <4>2
    <3> HIDE DEF v
    <3>2. ASSUME NEW i \in 1 .. k - 1 - c
          PROVE  /\ v[i] = "L" => i + 1 \in 1 .. k - 1 - c /\ v[i + 1] = "C"
                 /\ v[i] = "C" => i - 1 \in 1 .. k - 1 - c /\ v[i - 1] = "L"
      <4>1. /\ s[c + i] = "L" => c + i + 1 \in 1 .. Len(s) /\ s[c + i + 1] = "C"
            /\ s[c + i] = "C" => c + i - 1 \in 1 .. Len(s) /\ s[c + i - 1] = "L"
        <5>1. c + i \in 1 .. Len(s)
          BY <1>1
        <5> QED
          BY <5>1, Neighbours
      <4>2. v[i] = s[c + i]
        BY <3>1
      <4>3. CASE s[c + i] = "L"
        <5>1. c + i + 1 # k
          BY <2>3, <4>1, <4>3
        <5>2. i + 1 \in 1 .. k - 1 - c
          BY <5>1
        <5> QED
          BY <3>1, <4>1, <4>2, <4>3, <5>2
      <4>4. CASE s[c + i] = "C"
        <5>1. i # 1
          BY <4>1, <4>4
        <5>2. i - 1 \in 1 .. k - 1 - c
          BY <5>1
        <5> QED
          BY <3>1, <4>1, <4>2, <4>4, <5>2
      <4> QED
        BY <4>2, <4>3, <4>4
    <3>3. Utf8(v)
      BY <3>1, <3>2 DEF Utf8
    <3>4. Consumed(w) = k - c - 1
      BY <1>2, <2>1, <2>3, <3>3 DEF Consumed, v
    <3>5. k - 1 = 0 \/ s[k - 1] # "L"
      <4> SUFFICES ASSUME k - 1 # 0 PROVE s[k - 1] # "L"
        OBVIOUS
      <4>1. k - 1 \in 1 .. Len(s) /\ k - 1 + 1 = k
        BY <1>1, <1>4
      <4>2. s[k - 1] = "L" => s[k - 1 + 1] = "C"
        BY <4>1, Neighbours
      <4>3. s[k - 1] = "L" => s[k] = "C"
        BY <4>1, <4>2
      <4> QED
        BY <2>3, <4>3
    <3> QED
      BY <3>4, <3>5 DEF w
  <2> QED
    BY <2>2, <2>3
<1> QED
  BY <1>3, <1>4

\* If the processes write UTF-8, read_output gives whole characters, wherever the
\* pipe cuts what they write.
THEOREM CharactersAreWhole ==
  ASSUME \A p \in Procs : Utf8(Stream[p])
  PROVE  Spec => []WholeCharacters
<1>1. Init => CursorInv
  BY DEF Init, CursorInv
<1>2. Inv /\ CursorInv /\ [Next]_vars => CursorInv'
  <2> SUFFICES ASSUME Inv, CursorInv, [Next]_vars PROVE CursorInv'
    OBVIOUS
  <2>1. ASSUME NEW t \in Threads, NEW p \in Procs, ReadOutput(t, p) PROVE CursorInv'
    <3>1. /\ Stream[p] \in Seq({"a", "L", "C"}) /\ Utf8(Stream[p])
          /\ cursor[p] \in Nat /\ captured[p] \in Nat
          /\ cursor[p] <= captured[p] /\ captured[p] <= Len(Stream[p])
          /\ cursor[p] = 0 \/ Stream[p][cursor[p]] # "L"
      BY ProcessAssumption DEF Inv, Typed, TypeOK, CursorInv
    <3>2. /\ cursor'[p] = cursor[p] + Consumed(SubSeq(Stream[p], cursor[p] + 1, captured[p]))
          /\ \A q \in Procs : q # p => cursor'[q] = cursor[q]
      BY <2>1 DEF ReadOutput, Inv, Typed
    <3>3. cursor'[p] = 0 \/ Stream[p][cursor'[p]] # "L"
      BY <3>1, <3>2, ConsumedWhole
    <3> QED
      BY <3>2, <3>3 DEF CursorInv
  <2>2. CASE ~\E t \in Threads, p \in Procs : ReadOutput(t, p)
    <3>1. cursor' = cursor
      BY <2>2 DEF Next, vars, Proceed, Register, RunEnds, Joined, Drained, Wrote, Kill, Ended, End,
         Spawn, Run, PollOver, PollFails, Terminate, WriteStdin, Output, Exit, ReadStdin, LetGo,
         Capture, Eof
    <3> QED
      BY <3>1 DEF CursorInv
  <2> QED
    BY <2>1, <2>2
<1>3. Inv /\ CursorInv => WholeCharacters
  <2> SUFFICES ASSUME Inv, CursorInv, NEW p \in Procs
               PROVE  Utf8(SubSeq(Stream[p], 1, cursor[p]))
    BY DEF WholeCharacters
  <2>1. Stream[p] \in Seq({"a", "L", "C"}) /\ Utf8(Stream[p])
    BY ProcessAssumption
  <2>2. cursor[p] \in 0 .. Len(Stream[p]) /\ (cursor[p] = 0 \/ Stream[p][cursor[p]] # "L")
    BY <2>1 DEF Inv, Typed, TypeOK, CursorInv
  <2> QED
    BY <2>1, <2>2, WholePrefix
<1> QED
  BY <1>1, <1>2, <1>3, RegistryInvariant, PTL DEF Spec
=============================================================================

-------------------------- MODULE ProcessRegistry ---------------------------
(***************************************************************************)
(* Supervised child processes, vm/src/process_module.rs: spawn, poll,      *)
(* write_stdin, read_output, terminate, run, and the cleanup of a script   *)
(* thread that ends.  PROCESS_REGISTRY is one mutex; a thread for each     *)
(* process copies its output pipe into a buffer.                           *)
(*                                                                         *)
(* What a call does under the mutex is one step, unless it waits there:    *)
(* for the reader thread, for the time a drain takes, or for room in the   *)
(* stdin pipe.  stderr is handled as stdout is, and left out.              *)
(***************************************************************************)
EXTENDS Integers, Sequences, FiniteSets, SequencesExt

CONSTANTS
  Threads,     \* the script threads
  Procs,       \* the processes; each is started once
  Daemons,     \* those whose descendants keep the output pipe open
  Stream,      \* the bytes each writes, if it lives to: "a", or "L" then "C"
  Free,        \* nobody has the mutex
  NoProc       \* no process

ASSUME ProcessAssumption ==
  /\ Threads # {} /\ Free \notin Threads /\ NoProc \notin Procs
  /\ Daemons \subseteq Procs
  /\ Stream \in [Procs -> Seq({"a", "L", "C"})]

VARIABLES
  lock,        \* who has PROCESS_REGISTRY locked, across steps
  registry,    \* the processes in it
  owner,       \* ManagedProcess.owner
  os,          \* what the system knows of each process
  held,        \* a descendant keeps the output pipe open
  written,     \* how many bytes the process has written
  captured,    \* how many of them are in the buffer
  reader,      \* the reader thread
  cursor,      \* stdout_cursor
  pty,         \* whether spawn_pty has started it
  stdin,       \* whether stdin is open
  pc,          \* where each thread is
  on,          \* the process it is working on
  mine,        \* the processes a thread that ends has still to kill
  finals       \* history: the final results given, and the bytes of output in each

io == <<held, written, captured, reader>>
vars == <<lock, registry, owner, os, io, cursor, pty, stdin, pc, on, mine, finals>>

Nobody == CHOOSE t \in Threads : TRUE

Init ==
  /\ lock = Free
  /\ registry = {}
  /\ owner = [p \in Procs |-> Nobody]
  /\ os = [p \in Procs |-> "unborn"]
  /\ held = [p \in Procs |-> FALSE]
  /\ written = [p \in Procs |-> 0]
  /\ captured = [p \in Procs |-> 0]
  /\ reader = [p \in Procs |-> "none"]
  /\ cursor = [p \in Procs |-> 0]
  /\ pty = [p \in Procs |-> FALSE]
  /\ stdin = [p \in Procs |-> FALSE]
  /\ pc = [t \in Threads |-> "idle"]
  /\ on = [t \in Threads |-> NoProc]
  /\ mine = [t \in Threads |-> {}]
  /\ finals = [p \in Procs |-> <<>>]

Goes(t, state, p) == pc' = [pc EXCEPT ![t] = state] /\ on' = [on EXCEPT ![t] = p]
Returns(t) == Goes(t, "idle", NoProc)

\* A call takes the mutex and finds process p.
Calls(t, p) == pc[t] = "idle" /\ lock = Free /\ p \in registry

\* The process is over, whether or not it has been waited for.
Over(p) == os[p] \in {"exited", "reaped"}

-----------------------------------------------------------------------------
(* Starting                                                                *)

Start(t, p) ==
  /\ pc[t] = "idle"
  /\ os[p] = "unborn"
  /\ os' = [os EXCEPT ![p] = "running"]
  /\ owner' = [owner EXCEPT ![p] = t]
  /\ held' = [held EXCEPT ![p] = p \in Daemons]
  /\ reader' = [reader EXCEPT ![p] = "on"]

\* spawn_command and spawn_pty_command, up to the registry ...
Spawn(t, p) ==
  /\ Start(t, p)
  /\ \E tty \in BOOLEAN : pty' = [pty EXCEPT ![p] = tty]
  /\ stdin' = [stdin EXCEPT ![p] = TRUE]
  /\ Goes(t, "registering", p)
  /\ UNCHANGED <<lock, registry, written, captured, cursor, mine, finals>>

\* ... and from there on.
Register(t) ==
  /\ pc[t] = "registering" /\ lock = Free
  /\ registry' = registry \cup {on[t]}
  /\ Returns(t)
  /\ UNCHANGED <<lock, owner, os, io, cursor, pty, stdin, mine, finals>>

\* run_command: the process is nobody else's.
Run(t, p) ==
  /\ Start(t, p)
  /\ Goes(t, "running", p)
  /\ UNCHANGED <<lock, registry, written, captured, cursor, pty, stdin, mine, finals>>

\* It has exited, or the timeout has passed and it is killed, or try_wait fails
\* because it is no longer there to be waited for.
RunEnds(t) ==
  /\ pc[t] = "running"
  /\ os' = [os EXCEPT ![on[t]] = "reaped"]
  /\ Goes(t, "collecting", on[t])
  /\ UNCHANGED <<lock, registry, owner, io, cursor, pty, stdin, mine, finals>>

-----------------------------------------------------------------------------
(* finish_managed                                                          *)

Finals(t) ==
  finals' = [finals EXCEPT ![on[t]] =
               Append(@, [bytes |-> captured[on[t]], joined |-> pc[t] # "draining"])]

\* The readers are joined, in poll with the mutex held and in run without.
Joined(t) ==
  /\ pc[t] \in {"joining", "collecting"}
  /\ reader[on[t]] = "done"
  /\ Finals(t)
  /\ lock' = IF pc[t] = "joining" THEN Free ELSE lock
  /\ Returns(t)
  /\ UNCHANGED <<registry, owner, os, io, cursor, pty, stdin, mine>>

\* Mutant of Drained: the drain waits for the end of the pipe.
DrainedToEof(t) ==
  /\ pc[t] = "draining"
  /\ reader[on[t]] = "done"
  /\ Finals(t)
  /\ lock' = Free
  /\ Returns(t)
  /\ UNCHANGED <<registry, owner, os, io, cursor, pty, stdin, mine>>

\* After 50 ms the buffer is taken as it is, the mutex still held.
Drained(t) ==
  /\ pc[t] = "draining"
  /\ Finals(t)
  /\ lock' = Free
  /\ Returns(t)
  /\ UNCHANGED <<registry, owner, os, io, cursor, pty, stdin, mine>>

-----------------------------------------------------------------------------
(* poll_process, terminate_process                                         *)

\* Mutant of PollOver: the process stays in the registry.
PollOverAgain(t, p) ==
  /\ Calls(t, p) /\ Over(p)
  /\ os' = [os EXCEPT ![p] = "reaped"]
  /\ lock' = t
  /\ Goes(t, IF pty[p] THEN "draining" ELSE "joining", p)
  /\ UNCHANGED <<registry, owner, io, cursor, pty, stdin, mine, finals>>

\* The process is over; one that still runs goes back, and nothing changes.
PollOver(t, p) ==
  /\ Calls(t, p) /\ Over(p)
  /\ registry' = registry \ {p}
  /\ os' = [os EXCEPT ![p] = "reaped"]
  /\ lock' = t
  /\ Goes(t, IF pty[p] THEN "draining" ELSE "joining", p)
  /\ UNCHANGED <<owner, io, cursor, pty, stdin, mine, finals>>

\* Mutant of PollFails: the process is forgotten as it is.
PollFailsOnly(t, p) ==
  /\ Calls(t, p)
  /\ registry' = registry \ {p}
  /\ UNCHANGED <<lock, owner, os, io, cursor, pty, stdin, pc, on, mine, finals>>

\* try_wait fails: the process is killed and forgotten.
PollFails(t, p) ==
  /\ Calls(t, p)
  /\ registry' = registry \ {p}
  /\ os' = [os EXCEPT ![p] = "reaped"]
  /\ UNCHANGED <<lock, owner, io, cursor, pty, stdin, pc, on, mine, finals>>

\* kill, which succeeds on a process that is over too, and wait.
Terminate(t, p) ==
  /\ Calls(t, p)
  /\ registry' = registry \ {p}
  /\ os' = [os EXCEPT ![p] = "reaped"]
  /\ lock' = t
  /\ Goes(t, "draining", p)
  /\ UNCHANGED <<owner, io, cursor, pty, stdin, mine, finals>>

-----------------------------------------------------------------------------
(* write_process_stdin                                                     *)

\* The text fits into the pipe, or it waits for the process to read.
WriteStdin(t, p) ==
  /\ Calls(t, p)
  /\ stdin[p]
  /\ lock' = t
  /\ \E state \in {"writing", "blocked"} : Goes(t, state, p)
  /\ UNCHANGED <<registry, owner, os, io, cursor, pty, stdin, mine, finals>>

\* All is written, and stdin closed or not; or nobody is left to read it.
Wrote(t) ==
  /\ \/ pc[t] = "writing" /\ \E open \in BOOLEAN : stdin' = [stdin EXCEPT ![on[t]] = open]
     \/ pc[t] = "blocked" /\ Over(on[t]) /\ stdin' = [stdin EXCEPT ![on[t]] = FALSE]
  /\ lock' = Free
  /\ Returns(t)
  /\ UNCHANGED <<registry, owner, os, io, cursor, pty, mine, finals>>

-----------------------------------------------------------------------------
(* read_process_output                                                     *)

\* s is UTF-8: every lead byte is followed by its continuation.
Utf8(s) == \A i \in DOMAIN s :
  /\ s[i] = "L" => i + 1 \in DOMAIN s /\ s[i + 1] = "C"
  /\ s[i] = "C" => i - 1 \in DOMAIN s /\ s[i - 1] = "L"

\* Mutant of Consumed: whatever is there.
ConsumedAll(pending) == Len(pending)

\* read_increment: a character the pipe has cut in two is left for next time.
Consumed(pending) ==
  IF pending # <<>> /\ Last(pending) = "L" /\ Utf8(Front(pending))
  THEN Len(pending) - 1
  ELSE Len(pending)

ReadOutput(t, p) ==
  /\ Calls(t, p)
  /\ os' = [os EXCEPT ![p] = IF Over(p) THEN "reaped" ELSE @]
  /\ cursor' = [cursor EXCEPT ![p] = @ + Consumed(SubSeq(Stream[p], @ + 1, captured[p]))]
  /\ UNCHANGED <<lock, registry, owner, io, pty, stdin, pc, on, mine, finals>>

-----------------------------------------------------------------------------
(* terminate_current_thread_processes                                      *)

\* Its processes are taken out of the registry ...
End(t) ==
  /\ pc[t] = "idle" /\ lock = Free
  /\ mine' = [mine EXCEPT ![t] = {p \in registry : owner[p] = t}]
  /\ registry' = {p \in registry : owner[p] # t}
  /\ Goes(t, "ending", NoProc)
  /\ UNCHANGED <<lock, owner, os, io, cursor, pty, stdin, finals>>

\* ... and killed and waited for, one after the other, without the mutex.
Kill(t) ==
  /\ pc[t] = "ending"
  /\ \E p \in mine[t] :
       /\ os' = [os EXCEPT ![p] = "reaped"]
       /\ mine' = [mine EXCEPT ![t] = @ \ {p}]
  /\ UNCHANGED <<lock, registry, owner, io, cursor, pty, stdin, pc, on, finals>>

Ended(t) ==
  /\ pc[t] = "ending" /\ mine[t] = {}
  /\ Goes(t, "ended", NoProc)
  /\ UNCHANGED <<lock, registry, owner, os, io, cursor, pty, stdin, mine, finals>>

-----------------------------------------------------------------------------
(* The processes and their readers.                                        *)

\* What it writes, or what its descendants do when it is over.
Output(p) ==
  /\ os[p] = "running" \/ (Over(p) /\ held[p])
  /\ written[p] < Len(Stream[p])
  /\ written' = [written EXCEPT ![p] = @ + 1]
  /\ UNCHANGED <<lock, registry, owner, os, held, captured, reader, cursor, pty, stdin, pc, on, mine, finals>>

Exit(p) ==
  /\ os[p] = "running"
  /\ os' = [os EXCEPT ![p] = "exited"]
  /\ UNCHANGED <<lock, registry, owner, io, cursor, pty, stdin, pc, on, mine, finals>>

ReadStdin(p) ==
  /\ os[p] = "running"
  /\ \E t \in Threads : pc[t] = "blocked" /\ on[t] = p /\ Goes(t, "writing", p)
  /\ UNCHANGED <<lock, registry, owner, os, io, cursor, pty, stdin, mine, finals>>

\* The last descendant that holds the pipe is gone.
LetGo(p) ==
  /\ Over(p) /\ held[p]
  /\ held' = [held EXCEPT ![p] = FALSE]
  /\ UNCHANGED <<lock, registry, owner, os, written, captured, reader, cursor, pty, stdin, pc, on, mine, finals>>

\* capture_output and read_all: a read that returns some bytes ...
Capture(p) ==
  /\ reader[p] = "on" /\ captured[p] < written[p]
  /\ captured' = [captured EXCEPT ![p] = @ + 1]
  /\ UNCHANGED <<lock, registry, owner, os, held, written, reader, cursor, pty, stdin, pc, on, mine, finals>>

\* ... or the end of the pipe.
Eof(p) ==
  /\ reader[p] = "on" /\ captured[p] = written[p]
  /\ Over(p) /\ ~held[p]
  /\ reader' = [reader EXCEPT ![p] = "done"]
  /\ UNCHANGED <<lock, registry, owner, os, held, written, captured, cursor, pty, stdin, pc, on, mine, finals>>

-----------------------------------------------------------------------------
Proceed(t) ==
  \/ Register(t)
  \/ RunEnds(t)
  \/ Joined(t)
  \/ Drained(t)
  \/ Wrote(t)
  \/ Kill(t)
  \/ Ended(t)

Next ==
  \/ \E t \in Threads : Proceed(t) \/ End(t)
  \/ \E t \in Threads, p \in Procs :
       \/ Spawn(t, p) \/ Run(t, p)
       \/ PollOver(t, p) \/ PollFails(t, p) \/ Terminate(t, p)
       \/ WriteStdin(t, p) \/ ReadOutput(t, p)
  \/ \E p \in Procs : Output(p) \/ Exit(p) \/ ReadStdin(p) \/ LetGo(p) \/ Capture(p) \/ Eof(p)

\* Threads that are inside a call, and readers, are scheduled.  Processes and
\* their descendants may do nothing for ever.
Spec ==
  /\ Init /\ [][Next]_vars
  /\ \A t \in Threads : WF_vars(Proceed(t))
  /\ \A p \in Procs : WF_vars(Capture(p) \/ Eof(p))

-----------------------------------------------------------------------------
(* Properties *)

\* The types of the variables.
TypeOK ==
  /\ lock \in Threads \cup {Free}
  /\ registry \subseteq Procs
  /\ owner \in [Procs -> Threads]
  /\ os \in [Procs -> {"unborn", "running", "exited", "reaped"}]
  /\ held \in [Procs -> BOOLEAN]
  /\ \A p \in Procs : captured[p] <= written[p] /\ written[p] <= Len(Stream[p])
  /\ reader \in [Procs -> {"none", "on", "done"}]
  /\ \A p \in Procs : cursor[p] \in 0 .. captured[p]
  /\ pty \in [Procs -> BOOLEAN]
  /\ stdin \in [Procs -> BOOLEAN]
  /\ pc \in [Threads -> {"idle", "registering", "running", "collecting", "joining", "draining",
                         "writing", "blocked", "ending", "ended"}]
  /\ on \in [Threads -> Procs \cup {NoProc}]
  /\ mine \in [Threads -> SUBSET Procs]
  /\ finals \in [Procs -> Seq([bytes : Nat, joined : BOOLEAN])]

\* A process nobody can reach any more has been waited for: neither a running
\* process nor a zombie is ever lost, and none outlives the thread it was
\* started by.
NoneLost ==
  \A p \in Procs :
    os[p] \in {"running", "exited"} =>
      /\ \/ p \in registry
         \/ \E t \in Threads :
              p \in mine[t] \/ (pc[t] \in {"registering", "running"} /\ on[t] = p)
      /\ pc[owner[p]] # "ended"

\* The final result of a process is given once, however many threads poll and
\* terminate it ("a final query consumes the handle", lines 5-6), and has the
\* whole output when the readers were joined for it.
OneFinal ==
  \A p \in Procs : /\ Len(finals[p]) <= 1
                   /\ \A f \in ToSet(finals[p]) : f.joined => f.bytes = written[p]

\* read_output never gives half a character, nor the same byte twice.
WholeCharacters == \A p \in Procs : Utf8(SubSeq(Stream[p], 1, cursor[p]))

\* A call that waits returns, unless a descendant keeps the pipe of a process
\* that was not killed; terminate and the cleanup return even then (the
\* comment at finish_managed).
Returning(t) ==
  \/ pc[t] \in {"joining", "collecting"} /\ ~held[on[t]]
  \/ pc[t] \in {"draining", "ending"}

ReturnsUnlessHeld == \A t \in Threads : Returning(t) ~> pc[t] \in {"idle", "ended"}

\* process_module.rs:5: poll does not block.  The code: it joins the readers of
\* a process that has exited, with the registry locked, for as long as any
\* descendant has the pipe open.
PollReturns == \A t \in Threads : pc[t] = "joining" ~> pc[t] = "idle"
=============================================================================

---------------------------- MODULE ScriptThread ----------------------------
(***************************************************************************)
(* One OS thread that runs compiled scripts: its arena (VmMemory), its     *)
(* loop quota FUEL (vm/src/memory.rs), its RUNTIME_FAULT flag              *)
(* (dynamic/src/fault.rs), its SEND_STACK (root/src/lib.rs) and the stack  *)
(* of compiled functions that are running, with the boundary each was      *)
(* entered through:                                                        *)
(*   "direct"    a compiled function called by a compiled function;        *)
(*   "isolated"  through call_jit_isolated: callbacks and spawned threads; *)
(*   "send"      through root::send_msg and dynamic::call_fn, the way an   *)
(*               HTTP request or root::send reaches a script handler.      *)
(* All of this is thread-local, so a step is a whole native function.      *)
(***************************************************************************)
EXTENDS VmMemory, FiniteSets

CONSTANTS
  Paths,          \* the root paths script handlers are registered under
  Quotas,         \* what a host passes to set_fuel (-1: no quota)
  MaxFrames,      \* bound on nested compiled functions
  MaxLive,        \* bound on live arena blocks
  MaxChunks,      \* bound on the chunks the arena may hold
  MaxGranted,     \* bound on the loop iterations counted in one host call
  SendLimit       \* the depth root::send refuses at, 64 in the code

ASSUME ScriptThreadAssumption ==
  /\ Quotas \subseteq Nat \cup {-1}
  /\ MaxFrames \in Nat /\ MaxLive \in Nat /\ MaxChunks \in Nat /\ MaxGranted \in Nat
  /\ SendLimit \in Nat

VARIABLES
  mem,         \* VM_MEMORY
  fuel,        \* FUEL
  fault,       \* RUNTIME_FAULT: is a reason recorded?
  send_stack,  \* SEND_STACK
  frames,      \* the running compiled functions, outermost first
  outcome,     \* history: how the last boundary reported and what it knew
  quota,       \* history: the quota the host set for the present call
  granted      \* history: loop iterations granted since it was set

vars == <<mem, fuel, fault, send_stack, frames, outcome, quota, granted>>

\* How return_value ends a function: a scalar or nothing, a Dynamic, or an
\* aggregate of some size (0 for the others).
Returns == [kind : {"scalar", "dynamic"}, size : {0}]
             \cup [kind : {"bytes"}, size : ByteSizes]

\* A running function.  "refs" (history) are the places in mem.live of the
\* blocks its caller or itself handed it; "faulted" (history): a fault was
\* recorded in it or in a function it called with no boundary between.
Frame == [via : {"direct", "isolated", "send"}, ret : Returns,
          refs : SUBSET Nat, faulted : BOOLEAN]

\* What a boundary told its caller: "err" is the Err of call_jit_isolated,
\* "raised" whether a fault was recorded inside, "took" the kind of pointer
\* handed to take_dynamic_return.
Outcome == [via : {"none", "isolated", "send"}, err : BOOLEAN, raised : BOOLEAN,
            took : {"none", "dynamic", "bytes"}]

NoOutcome == [via |-> "none", err |-> FALSE, raised |-> FALSE, took |-> "none"]

Init ==
  /\ mem = NewMemory
  /\ fuel = -1 /\ quota = -1 /\ granted = 0
  /\ fault = FALSE
  /\ send_stack = <<>>
  /\ frames = <<>>
  /\ outcome = NoOutcome

Depth == Len(frames)
Running == frames # <<>>

\* The model's bounds on memory; the code allocates until the process dies.
Fits(m) == Len(m.live) <= MaxLive /\ Len(m.chunks) <= MaxChunks

\* A step leaves arena m behind.
Leaves(m) == Fits(m) /\ mem' = [m EXCEPT !.last = 0]

\* The running function, if any, holds a pointer to the block just handed out.
Learns(fs, m) ==
  IF fs = <<>> \/ m.last = 0 THEN fs
  ELSE [fs EXCEPT ![Len(fs)].refs = @ \cup {m.last}]

-----------------------------------------------------------------------------
(* Entering a compiled function: its first instruction is scope_enter. *)

Enter(via, ret) ==
  /\ Depth < MaxFrames
  /\ mem' = EnterScope(mem)
  /\ frames' = Append(frames, [via |-> via, ret |-> ret, refs |-> {}, faulted |-> FALSE])
  /\ outcome' = NoOutcome
  /\ UNCHANGED <<fuel, quota, granted>>

\* FnInfo::Call: a plain machine call.
CallFn(ret) ==
  /\ Running
  /\ Enter("direct", ret)
  /\ UNCHANGED <<fault, send_stack>>

\* Mutant of CallIsolated: the flag of an earlier call stays.
CallIsolatedStale(ret) == Enter("isolated", ret) /\ UNCHANGED <<fault, send_stack>>

\* A host thread (spawn) or a running script (callback_call, root::update)
\* goes through call_jit_isolated, which first clears the flag.
CallIsolated(ret) ==
  /\ Enter("isolated", ret)
  /\ fault' = FALSE
  /\ UNCHANGED send_stack

\* callback_call when call_callback bails out on too many arguments: the flag
\* is cleared, nothing runs, and the script receives Null.
CallbackRefused ==
  /\ Running
  /\ outcome' = NoOutcome
  /\ fault' = FALSE
  /\ Leaves(AllocValue(mem))
  /\ frames' = Learns(frames, AllocValue(mem))
  /\ UNCHANGED <<fuel, send_stack, quota, granted>>

\* send_msg refuses beyond the depth limit and on a path already on the stack.
SendAllowed(path) ==
  /\ Len(send_stack) < SendLimit
  /\ \A i \in DOMAIN send_stack : send_stack[i] # path

CallSend(path, ret) ==
  /\ SendAllowed(path)
  /\ Enter("send", ret)
  /\ send_stack' = Append(send_stack, path)
  /\ UNCHANGED fault

\* root_send turns the refusal into a Null value.
SendRefused(path) ==
  /\ Running
  /\ ~SendAllowed(path)
  /\ outcome' = NoOutcome
  /\ Leaves(AllocValue(mem))
  /\ frames' = Learns(frames, AllocValue(mem))
  /\ UNCHANGED <<fuel, fault, send_stack, quota, granted>>

\* set_fuel, called by the host before it runs a script.
SetFuel(q) ==
  /\ ~Running
  /\ outcome' = NoOutcome
  /\ fuel' = q /\ quota' = q /\ granted' = 0
  /\ UNCHANGED <<mem, fault, send_stack, frames>>

-----------------------------------------------------------------------------
(* What a compiled function does while it runs. *)

\* A native helper hands the script a value, through alloc_dynamic.
NewDynamic ==
  /\ Running
  /\ outcome' = NoOutcome
  /\ Leaves(AllocValue(mem))
  /\ frames' = Learns(frames, AllocValue(mem))
  /\ UNCHANGED <<fuel, fault, send_stack, quota, granted>>

\* A struct or array literal, through alloc_struct_bytes.
NewStruct(size) ==
  /\ Running
  /\ outcome' = NoOutcome
  /\ Leaves(AllocBytes(mem, size))
  /\ frames' = Learns(frames, AllocBytes(mem, size))
  /\ UNCHANGED <<fuel, fault, send_stack, quota, granted>>

\* arith_fault, or a division guard of Dynamic: the first reason is kept.
RaiseFault ==
  /\ Running
  /\ outcome' = NoOutcome
  /\ fault' = TRUE
  /\ frames' = [frames EXCEPT ![Depth].faulted = TRUE]
  /\ UNCHANGED <<mem, fuel, send_stack, quota, granted>>

\* Mutant of FuelAfter: a unit is not written back.
FuelAfterFree(left) == IF left = 0 THEN -1 ELSE left

\* What fuel_check leaves in FUEL: -1 is "no quota", and a quota that has run
\* out is switched off.
FuelAfter(left) == IF left > 0 THEN left - 1 ELSE -1

\* An iteration runs.  Without a quota the count is only kept up to a bound.
Counted ==
  IF fuel > 0 \/ granted < MaxGranted THEN granted + 1 ELSE granted

\* fuel_check at the head of a loop body.
FuelCheck ==
  /\ Running
  /\ outcome' = NoOutcome
  /\ fuel' = FuelAfter(fuel)
  /\ \/ /\ fuel # 0
        /\ granted' = Counted
        /\ UNCHANGED <<fault, frames>>
     \/ /\ fuel = 0
        /\ fault' = TRUE
        /\ frames' = [frames EXCEPT ![Depth].faulted = TRUE]
        /\ UNCHANGED granted
  /\ UNCHANGED <<mem, send_stack, quota>>

-----------------------------------------------------------------------------
(* Leaving a compiled function: return_value, then whatever the native     *)
(* function that called it does before control is back in its caller.      *)

\* return_value: how a function of this return kind closes its scope.
ScopeExit(m, ret) ==
  CASE ret.kind = "scalar"  -> ExitScope(m)
    [] ret.kind = "dynamic" -> ScopeExitDynamic(m)
    [] ret.kind = "bytes"   -> ScopeExitBytes(m, ret.size)

\* The pointer a native caller passes to take_dynamic_return.  call_callback
\* and call_spawned discard an aggregate; call_fn's last branch does not.
Taken(via, ret) ==
  IF ret.kind = "scalar" \/ (ret.kind = "bytes" /\ via = "isolated")
  THEN "none" ELSE ret.kind

Caller(fs) == SubSeq(fs, 1, Len(fs) - 1)

\* A function entered with no boundary passes on the faults it saw.
Inherit(fs, faulted) ==
  IF fs = <<>> \/ ~faulted THEN fs ELSE [fs EXCEPT ![Len(fs)].faulted = TRUE]

\* Back in a compiled caller, which keeps the returned pointer.
ReturnDirect ==
  /\ Running
  /\ outcome' = NoOutcome
  /\ LET f == frames[Depth]
         m == ScopeExit(mem, f.ret)
     IN  /\ f.via = "direct"
         /\ Leaves(m)
         /\ frames' = Learns(Inherit(Caller(frames), f.faulted), m)
  /\ UNCHANGED <<fuel, fault, send_stack, quota, granted>>

(* A native function takes the returned pointer and turns it into a value;  *)
(* for a script it allocates that value again (AllocValue), for a host      *)
(* thread, where no scope is open, it hands over the value itself.          *)

\* call_jit_isolated reads and clears the flag; callback_call answers Null
\* for an Err.
ReturnIsolated ==
  /\ Running
  /\ LET f == frames[Depth]
         m == AllocValue(ScopeExit(mem, f.ret))
     IN  /\ f.via = "isolated"
         /\ outcome' = [via |-> "isolated", err |-> fault, raised |-> f.faulted,
                        took |-> Taken("isolated", f.ret)]
         /\ Leaves(m)
         /\ frames' = Learns(Caller(frames), m)
  /\ fault' = FALSE
  /\ UNCHANGED <<fuel, send_stack, quota, granted>>

\* Mutant of Popped: the guard is forgotten.
PoppedNever(stack) == stack

\* SendStackGuard::drop
Popped(stack) == SubSeq(stack, 1, Len(stack) - 1)

\* send_msg: the guard pops SEND_STACK; nobody reads the flag.
ReturnSend ==
  /\ Running
  /\ LET f == frames[Depth]
         m == AllocValue(ScopeExit(mem, f.ret))
     IN  /\ f.via = "send"
         /\ send_stack' = Popped(send_stack)
         /\ outcome' = [via |-> "send", err |-> FALSE, raised |-> f.faulted,
                        took |-> Taken("send", f.ret)]
         /\ Leaves(m)
         /\ frames' = Learns(Inherit(Caller(frames), f.faulted), m)
  /\ UNCHANGED <<fuel, fault, quota, granted>>

Next ==
  \/ \E ret \in Returns : CallFn(ret) \/ CallIsolated(ret)
  \/ \E path \in Paths, ret \in Returns : CallSend(path, ret)
  \/ \E path \in Paths : SendRefused(path)
  \/ CallbackRefused
  \/ \E q \in Quotas : SetFuel(q)
  \/ NewDynamic
  \/ \E size \in ByteSizes : NewStruct(size)
  \/ RaiseFault
  \/ FuelCheck
  \/ ReturnDirect \/ ReturnIsolated \/ ReturnSend

Spec == Init /\ [][Next]_vars

-----------------------------------------------------------------------------
(* Properties *)

\* The types of the variables.
TypeOK ==
  /\ mem \in Memory
  /\ fuel \in Nat \cup {-1} /\ quota \in Nat \cup {-1} /\ granted \in Nat
  /\ fault \in BOOLEAN
  /\ send_stack \in Seq(Paths)
  /\ frames \in Seq(Frame)
  /\ outcome \in Outcome

\* Memory a script can still reach is never handed out twice and never
\* reaches past its chunk, whatever functions, callbacks and sends are nested
\* (memory.rs: alloc_raw against the marks exit_scope returns to).
ArenaSound == NoOverlap(mem) /\ InBounds(mem)

\* Every Dynamic of the arena is dropped once, by the exit of the scope that
\* allocated it (memory.rs: dynamics.drain(mark.dynamic_len..)).
EachDroppedOnce == DropsMatch(mem)

\* A compiled function opens one scope and closes it again on every way out.
ScopesBalanced == Len(mem.scopes) = Depth

\* What the functions fs hold lies below the mark of the next inner scope, or,
\* for the innermost one, is alive in arena m.
Reaches(fs, m) ==
  \A i \in DOMAIN fs :
    fs[i].refs \subseteq
      1 .. (IF i < Len(fs) THEN m.scopes[i + 1].live_len ELSE Len(m.live))

\* A pointer a function holds, in particular one a callee returned to it,
\* stays valid until the function's own scope ends: the callees it still
\* waits for can only give back what they allocated themselves.
PointersAlive == Reaches(frames, mem)

\* Between two host calls no Dynamic is left in the arena: repeated calls do
\* not show Dynamic growth there (README.md).
NoDynamicGrowth == ~Running => mem.dynamics = <<>>

\* call_jit_isolated reports an error only for a fault recorded inside it: a
\* stale flag of an earlier call on the thread is never charged to this one.
ErrMeansFault == outcome.err => outcome.raised

\* No path is active twice on one thread, nor more of them than the limit:
\* root::send cannot recurse without end, through however many functions.
PathsOnce ==
  /\ Len(send_stack) <= SendLimit
  /\ \A i, j \in DOMAIN send_stack : i # j => send_stack[i] # send_stack[j]

\* SEND_STACK holds one entry for each handler that is running.
SendStackBalanced ==
  Len(send_stack) = Cardinality({i \in DOMAIN frames : frames[i].via = "send"})

\* Until a quota is used up every granted iteration has cost one unit.
QuotaConserved == quota >= 0 /\ fuel >= 0 => granted + fuel = quota

-----------------------------------------------------------------------------
(* The inductive invariants behind the properties above. *)

\* The arena and the running functions fit each other.
ArenaInv ==
  TypeOK /\ WellFormed(mem) /\ mem.last = 0 /\ ScopesBalanced /\ PointersAlive

\* Among the functions fs one has seen a fault with no isolated call above it,
\* or no isolated call is open at all (the fault is of an earlier call).
FaultSeen(fs) ==
  \/ \E j \in DOMAIN fs : /\ fs[j].faulted
                         /\ \A k \in DOMAIN fs : k > j => fs[k].via # "isolated"
  \/ \A k \in DOMAIN fs : fs[k].via # "isolated"

FaultInv == fault => FaultSeen(frames)

\* A quota that still counts is the one the host set.
QuotaInv == fuel >= 0 => quota >= 0 /\ granted + fuel = quota

-----------------------------------------------------------------------------
(* What comments of the code promise and the code does not keep. *)

\* native.rs: an error of the script becomes a failed call.
FaultReported == outcome.via = "isolated" /\ outcome.raised => outcome.err

\* memory.rs: with a quota set, every iteration costs one unit, and a loop
\* that uses it up is ended.
QuotaBoundsLoops == quota >= 0 => granted <= quota

\* types.rs: everything that is not a scalar comes back as *const Dynamic.
TakesOnlyDynamics == outcome.took # "bytes"
=============================================================================

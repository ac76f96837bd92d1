--------------------------- MODULE CompiledScript ---------------------------
(***************************************************************************)
(* A compiled script runs, instruction by instruction, beside what its     *)
(* text means.                                                             *)
(***************************************************************************)
EXTENDS CodeGen, ScriptMeaning

CONSTANTS
    Programs,       \* a sequence of programs: function -> [params, body]
    Calls           \* the calls of main: [prog, arg, tape, fuel]

VARIABLES
    call,       \* the call that is made
    tape,       \* what is left of the host's answers
    fuel,       \* what is left of the quota
    frames,     \* the functions running, the innermost last
    trace,      \* what was emitted
    result      \* what main returned, a sequence of one value

vars == <<call, tape, fuel, frames, trace, result>>

\* What each program is compiled to, and what each call should do.
Code == [p \in DOMAIN Programs |-> CompiledOf(Programs[p])]
Meant == [c \in Calls |-> Meaning(Programs[c.prog], c.arg, c.tape, c.fuel)]

Functions == Code[call.prog]
Refused == \E f \in DOMAIN Functions : Functions[f].bad

\* A call of a function: its arguments are its first registers.
Frame(f, args, to) ==
    [fn |-> f, block |-> 1, at |-> 1, to |-> to,
     regs |-> [i \in 1..Functions[f].regs |-> IF i <= Len(args) THEN args[i] ELSE Unset]]

Running == frames # << >>
Top == Last(frames)
Instr == Functions[Top.fn].blocks[Top.block][Top.at]
Operand(i) == Top.regs[Instr.in[i]]
OperandValues == [i \in DOMAIN Instr.in |-> Operand(i)]

\* The top frame goes on after an instruction that has made a value.
Made(v) == [frames EXCEPT ![Len(frames)] = [@ EXCEPT !.at = @ + 1, !.regs[Instr.to] = v]]
To(b) == [frames EXCEPT ![Len(frames)] = [@ EXCEPT !.at = 1, !.block = b]]

Init ==
    /\ call \in Calls
    /\ tape = call.tape
    /\ fuel = call.fuel
    /\ frames = IF Refused THEN << >> ELSE <<Frame("main", <<call.arg>>, 0)>>
    /\ trace = << >>
    /\ result = << >>

Compute ==
    /\ Running
    /\ \/ Instr.op = "const" /\ frames' = Made(Instr.x)
       \/ Instr.op = "move" /\ frames' = Made(Operand(1))
       \/ Instr.op = "op" /\ frames' = Made(Computed(Instr.x, Operand(1), Operand(2)))
       \/ Instr.op = "not" /\ frames' = Made(Bit(~ Truthy(Operand(1))))
       \/ Instr.op \in {"list", "tuple"} /\ frames' = Made(OperandValues)
       \/ Instr.op = "len" /\ frames' = Made(Len(Operand(1)))
    /\ UNCHANGED <<call, tape, fuel, trace, result>>

\* Any::iter and Any::next: an iterator is what is left of the list.
Iterate ==
    /\ Running
    /\ \/ Instr.op = "iter" /\ frames' = Made(Operand(1))
       \/ /\ Instr.op = "next"
          /\ frames' = [Made(IF Operand(1) = << >> THEN Null ELSE Head(Operand(1)))
                          EXCEPT ![Len(frames)].regs[Instr.in[1]] = Rest(@)]
    /\ UNCHANGED <<call, tape, fuel, trace, result>>

CallNative ==
    /\ Running
    /\ \/ Instr.op = "emit" /\ frames' = Made(Operand(1)) /\ trace' = Append(trace, Operand(1))
                            /\ UNCHANGED tape
       \/ Instr.op = "ask" /\ frames' = Made(Answer(tape)) /\ tape' = Rest(tape)
                           /\ UNCHANGED trace
       \/ Instr.op = "items" /\ frames' = Made(Items) /\ UNCHANGED <<tape, trace>>
    /\ UNCHANGED <<call, fuel, result>>

CallScript ==
    /\ Running
    /\ Instr.op = "call"
    /\ frames' = Append(Made(Unset), Frame(Instr.x, OperandValues, Instr.to))
    /\ UNCHANGED <<call, tape, fuel, trace, result>>

Transfer ==
    /\ Running
    /\ \/ Instr.op = "jump" /\ frames' = To(Instr.x[1])
       \/ Instr.op = "branch" /\ frames' = To(IF Truthy(Operand(1)) THEN Instr.x[1] ELSE Instr.x[2])
    /\ UNCHANGED <<call, tape, fuel, trace, result>>

\* fuel_check: the loop is left at 0, and then nothing is counted any more.
FuelCheck ==
    /\ Running
    /\ Instr.op = "fuel"
    /\ frames' = Made(Bit(fuel = 0))
    /\ fuel' = IF fuel < 0 THEN fuel ELSE fuel - 1
    /\ UNCHANGED <<call, tape, trace, result>>

ReturnFrom ==
    /\ Running
    /\ Instr.op = "return"
    /\ LET below == SubSeq(frames, 1, Len(frames) - 1)
       IN  IF below = << >>
           THEN frames' = << >> /\ result' = <<Operand(1)>>
           ELSE /\ frames' = [below EXCEPT ![Len(below)].regs[Top.to] = Operand(1)]
                /\ UNCHANGED result
    /\ UNCHANGED <<call, tape, fuel, trace>>

Next == Compute \/ Iterate \/ CallNative \/ CallScript \/ Transfer \/ FuelCheck \/ ReturnFrom
Spec == Init /\ [][Next]_vars
FairSpec == Spec /\ WF_vars(Next)
-----------------------------------------------------------------------------
\* What a script does is what its text means: whatever it has emitted so far
\* the text emits, in that order, and when it ends it has emitted all of it
\* and returns the same value.  Between the two are the parser's rewriting of
\* match, the moving of statements out of expressions, the slots, the
\* inlining of functions and the blocks of the loops.
\* And a text is refused only for statements after a return, break or continue.
RunsAsWritten ==
    IF Refused THEN Meant[call].cut
    ELSE /\ IsPrefix(trace, Meant[call].trace)
         /\ result # << >> => trace = Meant[call].trace /\ result = <<Meant[call].result>>

\* No instruction reads a variable no path to it has assigned: every branch
\* and loop declares, before it, what is assigned inside.
SetBeforeRead == Running /\ Instr.op # "move" => \A i \in DOMAIN Instr.in : Operand(i) # Unset

\* Every script the text of which ends, ends.
EndsAsMeant == <>(~ Running)
=============================================================================

----------------------------- MODULE Interrupts ------------------------------
(***************************************************************************)
(* Exceptions: src/Interrupts/interrupts.c, its stubs idtfunctions.s and   *)
(* the descriptor table of src/GDT/gdt.c.  The processor pushes a frame    *)
(* and enters the stub that the gate names; the stub pushes the registers, *)
(* calls the C function with rsp as its struct, and pops them.             *)
(*                                                                         *)
(* The IDT is an array on init_idt's stack: once init_idt has returned,    *)
(* any later call may overwrite gates.  A register's value is its own name *)
(* until somebody else's is put in; a stack slot holds such a value.       *)
(***************************************************************************)
EXTENDS Integers, Sequences, SequencesExt

VARIABLES gates,       \* the vectors whose gate is whole
          regs,        \* the general registers
          stack,       \* what exceptions have pushed, the top last
          raised, vector,   \* the exception raised, and the one handled for it
          cpu          \* "running", "handling", "halted", "reset" or "wild"

interruptVars == <<gates, regs, stack, raised, vector, cpu>>

NoVector == -1

\* The table of init_gdt as it is loaded: access byte and flags nibble.
gdt == << <<0, 0>>, <<154, 0>>, <<147, 0>>, <<154, 12>>, <<147, 12>>,
          <<155, 10>>, <<147, 10>>, <<251, 10>>, <<243, 10>> >>
Selector == 40
Is64BitCode(selector) ==
    LET d == gdt[(selector \div 8) + 1]
    IN d[1] \div 128 = 1 /\ (d[1] \div 8) % 4 = 3 /\ (d[2] \div 2) % 2 = 1

Vectors == {0, 5, 8, 14}
HasError(v) == v \in {8, 14}
\* Handlers whose function ends in a loop around hlt.
Halts(v) == v \in {0, 8, 14}

\* What the stubs push, first to last.
Pushes == <<"rax", "rbx", "rcx", "rdx", "rsi", "rdi", "rbp",
            "r8", "r9", "r10", "r11", "r12", "r13", "r14", "r15">>
\* What they pop.
Pops == <<"r15", "r14", "r13", "r12", "r11", "r10", "r9", "r8",
          "rbp", "rdi", "rsi", "rdx", "rcx", "rbx", "rax">>
Registers == ToSet(Pushes)
\* Those a C function may change.
CallerSaved == {"rax", "rcx", "rdx", "rsi", "rdi", "r8", "r9", "r10", "r11"}

Pushed == <<"ss", "rsp", "rflags", "cs", "rip">>
Frame(v) == IF HasError(v) THEN Append(Pushed, "error") ELSE Pushed

\* The fields of cpu_state and cpu_state_error, from the lowest address.
StructOf(v) == <<"r15", "r14", "r13", "r12", "r11", "r10", "r9", "r8", "rbp",
                 "rdi", "rsi", "rdx", "rcx", "rbx", "rax">>
               \o (IF v \in {8, 14} THEN <<"error">> ELSE <<>>)
               \o <<"rip", "cs", "rflags", "rsp", "ss">>

InterruptsInit ==
    /\ gates = {} /\ regs = [r \in Registers |-> r] /\ stack = <<>>
    /\ raised = NoVector /\ vector = NoVector /\ cpu = "running"

init_idt == gates' = Vectors /\ UNCHANGED <<regs, stack, raised, vector, cpu>>

\* A call that uses the stack where the IDT is.
Overwrite ==
    /\ cpu = "running" /\ gates # {}
    /\ \E lost \in SUBSET gates \ {{}} : gates' = gates \ lost
    /\ UNCHANGED <<regs, stack, raised, vector, cpu>>

\* The processor's frame and the first half of the stub.
Enter(v) ==
    /\ vector' = v /\ cpu' = "handling"
    /\ stack' = stack \o Frame(v) \o [k \in 1 .. Len(Pushes) |-> regs[Pushes[k]]]
    /\ regs' = [r \in Registers |-> IF r \in CallerSaved THEN "clobbered" ELSE regs[r]]
    /\ UNCHANGED gates

\* An exception.  Behind a gate that is gone may be anything: no gate, which
\* makes it a double fault and without that a reset, or a gate to anywhere.
Raise(v) ==
    /\ cpu = "running" /\ raised' = v
    /\ IF v \in gates /\ Is64BitCode(Selector) THEN Enter(v)
       ELSE \/ 8 \in gates /\ Is64BitCode(Selector) /\ Enter(8)
            \/ /\ cpu' \in {"wild"} \cup (IF 8 \in gates THEN {} ELSE {"reset"})
               /\ vector' = v
               /\ UNCHANGED <<gates, regs, stack>>

Halt ==
    /\ cpu = "handling" /\ Halts(vector)
    /\ cpu' = "halted" /\ UNCHANGED <<gates, regs, stack, raised, vector>>

\* Mutant: rax, popped last, is not popped into rax but dropped.
LeaveRaxBehind ==
    /\ cpu = "handling" /\ ~Halts(vector)
    /\ LET saved == SubSeq(stack, Len(stack) - Len(Pops) + 1, Len(stack))
       IN regs' = [r \in Registers |->
                      IF r = "rax" THEN regs[r]
                      ELSE saved[Len(Pops) + 1 - (CHOOSE k \in 1 .. Len(Pops) : Pops[k] = r)]]
    /\ stack' = SubSeq(stack, 1, Len(stack) - Len(Pops) - Len(Frame(vector)))
    /\ cpu' = "running" /\ raised' = NoVector /\ vector' = NoVector
    /\ UNCHANGED gates

\* The second half of the stub, and iretq.
Leave ==
    /\ cpu = "handling" /\ ~Halts(vector)
    /\ LET saved == SubSeq(stack, Len(stack) - Len(Pops) + 1, Len(stack))
       IN regs' = [r \in Registers |->
                      saved[Len(Pops) + 1 - (CHOOSE k \in 1 .. Len(Pops) : Pops[k] = r)]]
    /\ stack' = SubSeq(stack, 1, Len(stack) - Len(Pops) - Len(Frame(vector)))
    /\ cpu' = "running" /\ raised' = NoVector /\ vector' = NoVector
    /\ UNCHANGED gates

-----------------------------------------------------------------------------
\* What a handler reads through its argument is what it is called there: the
\* stub's pushes and the processor's frame, from the top down, are the fields of
\* the struct, past an error code or not.  Code that goes on after one finds its
\* registers and its stack as they were (interrupts.c:25, idtfunctions.s:119).
FramesExact ==
    /\ cpu = "handling" => Reverse(stack) = StructOf(vector)
    /\ cpu = "running" => stack = <<>> /\ \A r \in Registers : regs[r] = r
=============================================================================

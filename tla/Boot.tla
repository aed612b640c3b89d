-------------------------------- MODULE Boot ---------------------------------
(***************************************************************************)
(* The boot sequence, _start of src/kernel.c, as one processor runs it,    *)
(* with the parts of it that wait for hardware or can raise an exception:  *)
(* Serial, Interrupts, Acpi and Hpet.  The allocators, the page tables and *)
(* the drawing have modules of their own and only print here.              *)
(*                                                                         *)
(* Each message of serial_print is one character.  A machine is what the   *)
(* firmware and the boot loader hand over; a pointer that is missing there *)
(* is NULL, and page 0 is not mapped.                                      *)
(***************************************************************************)
EXTENDS Serial, Interrupts, Acpi, Hpet

CONSTANT Machines      \* what firmware and boot loader may hand over

ASSUME MachineAssumption ==
    \A m \in Machines :
        /\ m.tables \in Seq(STRING) /\ m.revision \in Nat /\ m.dsdt \in BOOLEAN /\ m.merged \in BOOLEAN
        /\ m.period \in Nat /\ m.counter \in 0 .. MaxCounter /\ m.running \in BOOLEAN
        /\ m.uart \in Leftover

VARIABLES at,          \* the step of _start
          out,         \* what serial_print has still to write
          missing      \* what the machine lacks

bootVars == <<at, out, missing>>
vars == <<serialVars, interruptVars, acpiVars, hpetVars, bootVars>>

\* The steps of _start in order.  Mutant: the timer before the tables.
StepsHpetFirst == <<"serial", "gdt", "idt", "memory", "args", "terminal", "heap", "graphics",
                    "hpet", "acpi", "window", "lapic", "sleep", "done">>
Steps == <<"serial", "gdt", "idt", "memory", "args", "terminal", "heap", "graphics",
           "acpi", "window", "lapic", "hpet", "sleep", "done">>
Now == Steps[at]
Done == Len(Steps)
Message(v) == CASE v = 0 -> "divide" [] v = 5 -> "bound" [] v = 8 -> "double" [] OTHER -> "page"

Init ==
    /\ SerialInit /\ InterruptsInit /\ AcpiInit /\ HpetInit
    /\ \E m \in Machines :
         /\ tables = m.tables /\ revision = m.revision /\ dsdt = m.dsdt /\ merged = m.merged
         /\ period = m.period /\ counter = m.counter /\ running = m.running
         /\ left = m.uart /\ missing = m.missing
    /\ at = 1 /\ out = <<>>

\* The processor is in _start, with nothing left to print.
Ready == cpu = "running" /\ out = <<>>

PrintThenNext == out' = <<Now>> /\ at' = at + 1 /\ UNCHANGED missing

\* An exception in _start, and what its handler prints first of all.
Fault(v) ==
    /\ Raise(v)
    /\ out' = IF cpu' = "handling" THEN <<Message(vector')>> \o out ELSE out
    /\ UNCHANGED <<serialVars, acpiVars, hpetVars, at, missing>>

InitSerial ==
    /\ Ready /\ Now = "serial" /\ (Command \/ SelfTest)
    /\ UNCHANGED <<interruptVars, acpiVars, hpetVars, bootVars>>

Hello ==
    /\ Ready /\ Now = "serial" /\ status # "init"
    /\ IF status = "ready" THEN PrintThenNext ELSE at' = Done /\ UNCHANGED <<out, missing>>
    /\ UNCHANGED <<serialVars, interruptVars, acpiVars, hpetVars>>

\* Steps whose work is elsewhere; those that follow a pointer of the boot
\* loader's first.
Elsewhere ==
    /\ Ready /\ Now \in {"gdt", "memory", "args", "terminal", "heap", "graphics", "window", "lapic"}
    /\ Now \notin missing
    /\ PrintThenNext
    /\ UNCHANGED <<serialVars, interruptVars, acpiVars, hpetVars>>

FollowMissing == Ready /\ Now \in missing /\ Fault(14)

LoadIdt ==
    /\ Ready /\ Now = "idt" /\ init_idt /\ PrintThenNext
    /\ UNCHANGED <<serialVars, acpiVars, hpetVars>>

AcpiStep ==
    /\ Ready /\ Now = "acpi" /\ (PrepareACPI \/ ScanDsdt \/ Scan)
    /\ UNCHANGED <<serialVars, interruptVars, hpetVars, bootVars>>

AcpiReturns ==
    /\ Ready /\ Now = "acpi" /\ lai = "done" /\ PrintThenNext
    /\ UNCHANGED <<serialVars, interruptVars, acpiVars, hpetVars>>

\* LAI follows a NULL table, or a pointer that nobody has set.
AcpiFaults == Ready /\ Now = "acpi" /\ lai = "fault" /\ Fault(14)
AcpiWild ==
    /\ Ready /\ Now = "acpi" /\ lai = "wild"
    /\ cpu' = "wild" /\ UNCHANGED <<gates, regs, stack, vector, raised>>
    /\ UNCHANGED <<serialVars, acpiVars, hpetVars, bootVars>>

\* hpet_init: without the XSDT GetTable reads at NULL, without the table
\* hpet_init does.
HpetFound == xsdt /\ GetTable("HPE") # NoTable
StartTimer ==
    /\ Ready /\ Now = "hpet" /\ HpetFound /\ hpet_init /\ PrintThenNext
    /\ UNCHANGED <<serialVars, interruptVars, acpiVars>>
TimerFaults == Ready /\ Now = "hpet" /\ ~HpetFound /\ Fault(14)

Sleep ==
    /\ Ready /\ Now = "sleep" /\ CallSleep
    /\ UNCHANGED <<serialVars, interruptVars, acpiVars, bootVars>>
SleepFaults == Ready /\ Now = "sleep" /\ period = 0 /\ Fault(0)
SleepReturns ==
    /\ Ready /\ Now = "sleep" /\ Slept /\ PrintThenNext
    /\ UNCHANGED <<serialVars, interruptVars, acpiVars, hpetVars>>

Send ==
    /\ cpu \in {"running", "handling"} /\ out # <<>>
    /\ Write(Head(out)) /\ out' = Tail(out)
    /\ UNCHANGED <<interruptVars, acpiVars, hpetVars, at, missing>>

\* The end of a handler, when it has printed.
HandlerEnds ==
    /\ cpu = "handling" /\ ~(out # <<>> /\ Head(out) = Message(vector))
    /\ Halt \/ Leave
    /\ UNCHANGED <<serialVars, acpiVars, hpetVars, bootVars>>

\* Vector 5 is raised from outside this repository only (int 5), between any
\* two steps and once (bound).
BoundExceeded == gates # {} /\ at < Done /\ "bound" \notin ToSet(out \o printed) /\ Fault(5)

Chip == (Drain \/ Receive) /\ UNCHANGED <<interruptVars, acpiVars, hpetVars, bootVars>>
Timer == Tick /\ UNCHANGED <<serialVars, interruptVars, acpiVars, bootVars>>
StackUse == Overwrite /\ UNCHANGED <<serialVars, acpiVars, hpetVars, bootVars>>

Processor ==
    \/ InitSerial \/ Hello \/ Elsewhere \/ FollowMissing \/ LoadIdt
    \/ AcpiStep \/ AcpiReturns \/ AcpiFaults \/ AcpiWild
    \/ StartTimer \/ TimerFaults \/ Sleep \/ SleepFaults \/ SleepReturns
    \/ Send \/ HandlerEnds

Next == Processor \/ BoundExceeded \/ Chip \/ Timer \/ StackUse

\* The processor goes on unless it halts, the chip sends, the counter counts.
Spec ==
    /\ Init /\ [][Next]_vars
    /\ WF_vars(Processor) /\ WF_vars(Drain /\ Chip) /\ WF_vars(Timer)

-----------------------------------------------------------------------------
TypeOK ==
    /\ uart \in [dll : 0 .. 255, dlm : 0 .. 255, ier : 0 .. 255, lcr : 0 .. 255, mcr : 0 .. 255,
                 thr : Seq(ToSet(printed) \cup {TestByte} \cup Stale),
                 rbr : Seq(Typed \cup Garbled \cup {TestByte} \cup Stale)]
    /\ left \in Leftover
    /\ Len(uart.thr) <= Depth /\ step \in 1 .. Len(Commands) + 1
    /\ gates \subseteq Vectors /\ cpu \in {"running", "handling", "halted", "reset", "wild"}
    /\ found \in {Wild, Dsdt} \cup 0 .. Len(tables) /\ index \in 0 .. MaxIndex
    /\ counter \in 0 .. MaxCounter
    /\ at \in 1 .. Done /\ Len(out) <= 2

\* The machines on which no step of _start should fail.
Sound ==
    /\ missing = {} /\ revision >= 2 /\ dsdt /\ merged /\ period # 0
    /\ {"FAC", "HPE"} \subseteq ToSet(tables)
\* The machines on which LAI gets to the end of its scan.
FewTables == ToSet(tables) \cap {"SSD", "PSD"} = {}

\* An exception, a jump to nowhere or a reset comes from what the machine
\* lacks, never from the order of the steps (kernel.c:81).
FaultsExplained ==
    cpu \in {"handling", "halted", "reset", "wild"} /\ raised # 5 => ~Sound

\* _start comes to an end, in done() or otherwise, unless LAI's scan for
\* another table of the same kind gets the first one again (ACPI.c:66).
Ended == (Now = "done" /\ Ready) \/ cpu \in {"halted", "reset", "wild"}
\* A sound machine whose serial port passes its test is booted to that end, and
\* all the messages have gone out in order, behind what the firmware had left in
\* the transmitter; an exception from outside may add its own or, behind a lost
\* gate, end it (kernel.c:40).
BootEnds ==
    /\ FewTables ~> Ended
    /\ (Sound /\ FewTables /\ status = "ready")
        ~> (raised = 5 \/ /\ Now = "done"
                          /\ \E k \in 0 .. Len(left.thr) :
                               SelectSeq(SubSeq(wire, k + 1, Len(wire)), LAMBDA c : c # "bound")
                                   = SubSeq(Steps, 1, Done - 1))
=============================================================================

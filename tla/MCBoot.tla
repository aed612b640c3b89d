------------------------------- MODULE MCBoot -------------------------------
\* TLC instance of Boot: a sound machine and machines with one defect each.
EXTENDS Boot
\* What the firmware left in the chip: the divisor latch open and an interrupt
\* enabled; bytes in both FIFOs; a byte in the transmitter of a chip in loopback.
Latched == [dll |-> 1, dlm |-> 0, ier |-> 2, lcr |-> 131, mcr |-> 3,
            thr |-> <<>>, rbr |-> <<"typed">>]
Filled == [Latched EXCEPT !.lcr = 3, !.thr = <<"stale">>]
Looping == [Filled EXCEPT !.mcr = 19, !.rbr = <<"stale">>]
SomeLeftover == {Latched, Filled, Looping}

SoundTables == <<"APIC", "FAC", "HPE">>
Machine == [tables |-> SoundTables, revision |-> 2, dsdt |-> TRUE, merged |-> TRUE, period |-> 2,
            counter |-> 0, running |-> FALSE, uart |-> Latched, missing |-> {}]
SomeMachines ==
    {[Machine EXCEPT !.uart = x] : x \in SomeLeftover}
    \cup
    {[Machine EXCEPT !.counter = 3, !.running = TRUE, !.period = 3],
     [Machine EXCEPT !.period = 0], [Machine EXCEPT !.revision = 0], [Machine EXCEPT !.merged = FALSE],
     [Machine EXCEPT !.dsdt = FALSE]}
    \cup {[Machine EXCEPT !.missing = {x}] : x \in {"args", "terminal", "graphics"}}
    \cup {[Machine EXCEPT !.tables = x] :
              x \in {<<"FAC">>, <<"HPE">>, <<"HPE", "SSD", "FAC", "SSD">>, <<"FAC", "PSD", "HPE">>}}
=============================================================================

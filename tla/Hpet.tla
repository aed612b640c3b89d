-------------------------------- MODULE Hpet ---------------------------------
(***************************************************************************)
(* The timer of src/Drivers/Timers/HPET.c: hpet_init sets the counter      *)
(* going, unless the firmware has done so; sleep computes a target from    *)
(* the counter and polls until the counter is there.                       *)
(*                                                                         *)
(* The counter advances by itself (external), one tick per "period"        *)
(* femtoseconds; sleep(ms) asks for Asked of them, in the model's unit.    *)
(***************************************************************************)
EXTENDS Integers

CONSTANTS Asked,       \* ms * 10^12 of the one call of sleep
          W,           \* the values of a word: 2^64, less here
          MaxCounter   \* bound on the counter

ASSUME HpetAssumption == Asked \in Nat /\ W \in Nat \ {0} /\ MaxCounter \in Nat

VARIABLES period,      \* what the capabilities say
          counter, running,
          target, start   \* of sleep, and the counter when it was called

hpetVars == <<period, counter, running, target, start>>

None == -1

HpetInit == target = None /\ start = None

hpet_init == running' = TRUE /\ UNCHANGED <<period, counter, target, start>>

\* Mutant: the time asked for is not divided into ticks.
TargetUndivided == counter + Asked

\* The counter is added to the time before the division.
Target == ((counter + Asked) % W) \div period

CallSleep ==
    /\ target = None /\ period # 0
    /\ target' = Target /\ start' = counter
    /\ UNCHANGED <<period, counter, running>>

\* The loop's condition.
Slept == target # None /\ counter >= target

Tick ==
    /\ running /\ counter < MaxCounter
    /\ counter' = counter + 1
    /\ UNCHANGED <<period, running, target, start>>

-----------------------------------------------------------------------------
\* sleep waits no longer than it was asked to, but for the tick it is in, and
\* it does not return before the counter has stood for the time asked for since
\* it was 0, whatever the firmware had left in it (HPET.c:48).
SleepWindow ==
    target # None => /\ target <= start + (Asked \div period) + 1
                     /\ target >= Asked \div period
=============================================================================

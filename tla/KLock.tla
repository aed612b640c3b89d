------------------------------- MODULE KLock --------------------------------
(***************************************************************************)
(* The kernel spinlock, src/klock/klock.c: an atomic flag taken by a       *)
(* compare-and-exchange in a bounded spin with interrupts masked.          *)
(*                                                                         *)
(* Each CPU is one caller that calls acquire, runs its critical section    *)
(* and calls release, as pmm.c and vmm.c do.  A caller is at               *)
(*   "idle"      outside,                                                  *)
(*   "spin"      in acquire's for loop,                                    *)
(*   "won"       past the successful compare-and-exchange,                 *)
(*   "stamped"   past test_and_acquire's own write of l->caller,           *)
(*   "held"      back in the caller, holding the lock,                     *)
(*   "intruder"  back in the caller WITHOUT the lock: the spin ran out.    *)
(* The caller cannot tell the last two apart, acquire returns void.        *)
(***************************************************************************)
EXTENDS Integers

CONSTANTS CPUs,        \* the callers
          MaxSpin      \* the loop bound, 50000000 in the code

ASSUME SpinAssumption == MaxSpin \in Nat

VARIABLES locked,      \* l->locked
          caller,      \* l->caller: whose acquire wrote it, or Anonymous
          pc,          \* where each caller is
          i,           \* acquire's loop counter, per caller
          intr,        \* the interrupt flag of each CPU
          gaveUp       \* history: some acquire has returned without the lock

lockVars == <<locked, caller, pc, i, intr, gaveUp>>

\* l->caller before the first acquire, and after test_and_acquire stored its
\* own return address, which names no caller of acquire.
Anonymous == "anonymous"

Inside == {"won", "stamped", "held"}

LockTypeOK ==
    /\ locked \in BOOLEAN
    /\ caller \in CPUs \cup {Anonymous}
    /\ pc \in [CPUs -> {"idle", "spin", "won", "stamped", "held", "intruder"}]
    /\ i \in [CPUs -> 0 .. MaxSpin]
    /\ intr \in [CPUs -> BOOLEAN]
    /\ gaveUp \in BOOLEAN

LockInit ==
    /\ locked = FALSE
    /\ caller = Anonymous
    /\ pc = [c \in CPUs |-> "idle"]
    /\ i = [c \in CPUs |-> 0]
    /\ intr = [c \in CPUs |-> TRUE]
    /\ gaveUp = FALSE

LockGoto(c, where) == pc' = [pc EXCEPT ![c] = where]

\* acquire() up to its loop: cli, and a loop counter that is declared without
\* an initial value, so the loop may start anywhere up to its bound.
CallAcquire(c) ==
    /\ pc[c] = "idle"
    /\ LockGoto(c, "spin")
    /\ intr' = [intr EXCEPT ![c] = FALSE]
    /\ \E start \in 0 .. MaxSpin : i' = [i EXCEPT ![c] = start]
    /\ UNCHANGED <<locked, caller, gaveUp>>

\* The loop counter is a local of acquire; out of the loop its value is dead.
LeaveLoop(c) == i' = [i EXCEPT ![c] = 0]

\* Mutant: the flag is set without comparing it first.
WinWithoutCompare(c) ==
    /\ pc[c] = "spin" /\ i[c] < MaxSpin
    /\ locked' = TRUE
    /\ LockGoto(c, "won")
    /\ LeaveLoop(c)
    /\ UNCHANGED <<caller, intr, gaveUp>>

\* The compare-and-exchange of test_and_acquire finds the flag clear.
Win(c) ==
    /\ pc[c] = "spin" /\ i[c] < MaxSpin
    /\ ~locked
    /\ locked' = TRUE
    /\ LockGoto(c, "won")
    /\ LeaveLoop(c)
    /\ UNCHANGED <<caller, intr, gaveUp>>

\* Mutant: a loop that does not count.
LoseForever(c) ==
    /\ pc[c] = "spin" /\ i[c] < MaxSpin
    /\ locked
    /\ UNCHANGED lockVars

\* It finds the flag set: pause and go round once more.
Lose(c) ==
    /\ pc[c] = "spin" /\ i[c] < MaxSpin
    /\ locked
    /\ i' = [i EXCEPT ![c] = @ + 1]
    /\ UNCHANGED <<locked, caller, pc, intr, gaveUp>>

\* test_and_acquire stores the address it was called from.
Stamp(c) ==
    /\ pc[c] = "won"
    /\ caller' = Anonymous
    /\ LockGoto(c, "stamped")
    /\ UNCHANGED <<locked, i, intr, gaveUp>>

\* Mutant: acquire leaves l->caller as test_and_acquire wrote it.
EnterUnnamed(c) ==
    /\ pc[c] = "stamped"
    /\ intr' = [intr EXCEPT ![c] = TRUE]
    /\ LockGoto(c, "held")
    /\ UNCHANGED <<locked, caller, i, gaveUp>>

\* acquire stores the address it was called from, unmasks and returns.
Enter(c) ==
    /\ pc[c] = "stamped"
    /\ caller' = c
    /\ intr' = [intr EXCEPT ![c] = TRUE]
    /\ LockGoto(c, "held")
    /\ UNCHANGED <<locked, i, gaveUp>>

\* The spin ran out: acquire unmasks, prints and returns all the same.
GiveUp(c) ==
    /\ pc[c] = "spin" /\ i[c] >= MaxSpin
    /\ intr' = [intr EXCEPT ![c] = TRUE]
    /\ LockGoto(c, "intruder")
    /\ gaveUp' = TRUE
    /\ LeaveLoop(c)
    /\ UNCHANGED <<locked, caller>>

\* Mutant: the store of release is lost.
ReleaseNothing(c) ==
    /\ pc[c] \in {"held", "intruder"}
    /\ LockGoto(c, "idle")
    /\ UNCHANGED <<locked, caller, i, intr, gaveUp>>

\* release() clears the flag, whoever set it.
Release(c) ==
    /\ pc[c] \in {"held", "intruder"}
    /\ locked' = FALSE
    /\ LockGoto(c, "idle")
    /\ UNCHANGED <<caller, i, intr, gaveUp>>

Acquiring(c) == Win(c) \/ Lose(c) \/ Stamp(c) \/ Enter(c) \/ GiveUp(c)

LockNext == \E c \in CPUs : CallAcquire(c) \/ Acquiring(c) \/ Release(c)

\* A CPU that runs keeps executing acquire's code: nothing in it waits.
LockSpec == LockInit /\ [][LockNext]_lockVars /\ \A c \in CPUs : WF_lockVars(Acquiring(c))

-----------------------------------------------------------------------------
\* Until the first acquire gives up, at most one caller is between its
\* compare-and-exchange and its release (klock.c:47-56, 19-20).
MutualExclusion ==
    ~gaveUp => \A c, d \in CPUs : pc[c] \in Inside /\ pc[d] \in Inside => c = d

\* Until then the flag is set exactly while somebody is inside: it is neither
\* lost by a release nor left behind by an acquire that failed.
FlagMeansHeld ==
    ~gaveUp => (locked <=> \E c \in CPUs : pc[c] \in Inside)

\* l->caller, what the message of a later failure would be read against,
\* names the holder for as long as it holds the lock: the two plain stores
\* of klock.c:34 and :51 are not overtaken by another CPU's.
CallerNamesHolder ==
    ~gaveUp => \A c \in CPUs : pc[c] = "held" => caller = c

\* Every acquire returns with interrupts unmasked, holding the lock or not,
\* even when the holder never releases: the spin is bounded (klock.c:47-57).
AcquireReturns ==
    \A c \in CPUs :
        pc[c] = "spin" ~> pc[c] \in {"held", "intruder"} /\ intr[c]

\* The contract this lock implements: who is inside, and whether it is broken.
Lock == INSTANCE LockContract
                WITH inside <- {c \in CPUs : pc[c] \in Inside \cup {"intruder"}},
                     broken <- gaveUp
ImplementsLockContract == Lock!Spec
=============================================================================

---------------------------- MODULE LockContract ----------------------------
(***************************************************************************)
(* What a caller of src/klock may rely on.  acquire() is a bounded spin    *)
(* that returns in any case, so the lock promises exclusion only for as    *)
(* long as no call has given up; from then on the lock word says nothing.  *)
(***************************************************************************)
CONSTANT CPUs          \* the callers of acquire and release

VARIABLES inside,      \* callers between the lock's grant and their release
          broken       \* some acquire has returned without the lock

vars == <<inside, broken>>

TypeOK == inside \subseteq CPUs /\ broken \in BOOLEAN

Init == inside = {} /\ broken = FALSE

\* The lock is granted: to one caller at a time while the lock is whole.
Grant(c) ==
    /\ c \notin inside
    /\ inside = {} \/ broken
    /\ inside' = inside \cup {c}
    /\ UNCHANGED broken

\* A caller is let in without the lock.
Intrude(c) ==
    /\ c \notin inside
    /\ inside' = inside \cup {c}
    /\ broken' = TRUE

Leave(c) ==
    /\ c \in inside
    /\ inside' = inside \ {c}
    /\ UNCHANGED broken

Next == \E c \in CPUs : Grant(c) \/ Intrude(c) \/ Leave(c)

Spec == Init /\ [][Next]_vars
=============================================================================

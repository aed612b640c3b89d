------------------------------ MODULE PMMLocked -----------------------------
(***************************************************************************)
(* pmm_alloc and pmm_free of src/memory/pmm.c as several CPUs run them:    *)
(* every read or write of the bitmap and of free_pages_global is a step,   *)
(* between the acquire and the release of pmm_lock.  The lock is KLock     *)
(* itself, so an acquire may run out of spins and let its caller in.       *)
(*                                                                         *)
(* Of a CPU's call, "at" says which access comes next:                     *)
(*   "probe"          pmm_alloc reads bitmap[index + j],                   *)
(*   "mark", "clear"  the loop body writes bitmap[index + j],              *)
(*   "load", "store"  free_pages_global-- or ++, a read and then a write,  *)
(*   "return"         release and return.                                  *)
(* The aliasing of the bitmap with handed-out pages is left to PMM; here   *)
(* every byte has memory of its own.                                       *)
(***************************************************************************)
EXTENDS KLock, FiniteSets

\* Each of KLock's CPUs holds at most one block, and its variables are pmm_lock's.
CONSTANTS bitmap_size,   \* the scan starts below it
          MaxAlloc,      \* largest request, in pages
          BootFree,      \* the pages whose byte pmm_init left clear
          Modulus        \* free_pages_global wraps at it, 2^64 in the code

Bytes == 0 .. bitmap_size + MaxAlloc - 2

ASSUME SizeAssumption ==
    /\ bitmap_size \in Nat \ {0} /\ MaxAlloc \in Nat \ {0}
    /\ BootFree \subseteq Bytes
    /\ Modulus \in Nat /\ Modulus > Cardinality(Bytes)

VARIABLES bitmap,              \* byte k is that of page k; 0 is free
          free_pages_global,
          at, op,              \* per CPU: the next access, and its call
          size, index, j,      \* the call's argument and loop variables
          free_pages,          \* pmm_alloc's count of free bytes
          copy,                \* free_pages_global as "load" read it
          holds                \* history: the pages each CPU was given

loopVars == <<op, size, index, j, free_pages, copy>>
vars == <<lockVars, bitmap, free_pages_global, at, loopVars, holds>>

-----------------------------------------------------------------------------
Init ==
    /\ LockInit
    /\ bitmap = [k \in Bytes |-> IF k \in BootFree THEN 0 ELSE 1]
    /\ free_pages_global = Cardinality(BootFree)
    /\ at = [c \in CPUs |-> "idle"] /\ op = [c \in CPUs |-> "none"]
    /\ size = [c \in CPUs |-> 0]
    /\ index = [c \in CPUs |-> 0] /\ j = [c \in CPUs |-> 0]
    /\ free_pages = [c \in CPUs |-> 0] /\ copy = [c \in CPUs |-> 0]
    /\ holds = [c \in CPUs |-> {}]

Goto(c, where) == at' = [at EXCEPT ![c] = where]
Zero(f, c) == [f EXCEPT ![c] = 0]

\* pmm_alloc(n, ...) and pmm_free(ptr, size) up to the loop of acquire.  A block
\* that is being freed no longer belongs to its owner.
CallAlloc(c, n) ==
    /\ at[c] = "idle" /\ holds[c] = {}
    /\ CallAcquire(c)
    /\ Goto(c, "probe")
    /\ op' = [op EXCEPT ![c] = "alloc"]
    /\ size' = [size EXCEPT ![c] = n]
    /\ UNCHANGED <<bitmap, free_pages_global, index, j, free_pages, copy, holds>>

\* The size a caller gives back its block with.
Length(c) == Cardinality(holds[c])

CallFree(c) ==
    /\ at[c] = "idle" /\ holds[c] # {}
    /\ CallAcquire(c)
    /\ Goto(c, "clear")
    /\ op' = [op EXCEPT ![c] = "free"]
    /\ size' = [size EXCEPT ![c] = Length(c)]
    /\ index' = [index EXCEPT ![c] = CHOOSE p \in holds[c] : \A q \in holds[c] : p <= q]
    /\ holds' = [holds EXCEPT ![c] = {}]
    /\ UNCHANGED <<bitmap, free_pages_global, j, free_pages, copy>>

\* The rest of acquire.
InAcquire(c) ==
    /\ Acquiring(c)
    /\ UNCHANGED <<bitmap, free_pages_global, at, loopVars, holds>>

\* Mutant: a CPU does not wait for acquire to return.
ReachedEarly(c, where) == at[c] = where /\ pc[c] # "idle"

\* acquire has returned and the next access of the call is this one.
Reached(c, where) == at[c] = where /\ pc[c] \in {"held", "intruder"}

\* pmm_alloc reads bitmap[index + j]; Found counts the byte if it is clear.
Found(c) == free_pages[c] + 1 - bitmap[index[c] + j[c]]
LastOfRun(c) == j[c] + 1 = size[c]
ProbeUnchanged == UNCHANGED <<lockVars, bitmap, free_pages_global, op, size, copy, holds>>

ProbeByte(c) ==
    /\ Reached(c, "probe") /\ ~LastOfRun(c)
    /\ j' = [j EXCEPT ![c] = @ + 1]
    /\ free_pages' = [free_pages EXCEPT ![c] = Found(c)]
    /\ ProbeUnchanged /\ UNCHANGED <<at, index>>

\* The last byte of a run, all of it free: take it.
ProbeFits(c) ==
    /\ Reached(c, "probe") /\ LastOfRun(c) /\ Found(c) = size[c]
    /\ Goto(c, "mark")
    /\ j' = Zero(j, c) /\ free_pages' = Zero(free_pages, c)
    /\ ProbeUnchanged /\ UNCHANGED index

\* Mutant: the scan does not move on.
ProbeSame(c) ==
    /\ Reached(c, "probe") /\ LastOfRun(c) /\ Found(c) # size[c]
    /\ index[c] + 1 < bitmap_size
    /\ j' = Zero(j, c) /\ free_pages' = Zero(free_pages, c)
    /\ ProbeUnchanged /\ UNCHANGED <<at, index>>

\* Not all of it: try the next start, until there is none; then return NULL.
ProbeNext(c) ==
    /\ Reached(c, "probe") /\ LastOfRun(c) /\ Found(c) # size[c]
    /\ index[c] + 1 < bitmap_size
    /\ index' = [index EXCEPT ![c] = @ + 1]
    /\ j' = Zero(j, c) /\ free_pages' = Zero(free_pages, c)
    /\ ProbeUnchanged /\ UNCHANGED at

ProbeFails(c) ==
    /\ Reached(c, "probe") /\ LastOfRun(c) /\ Found(c) # size[c]
    /\ index[c] + 1 = bitmap_size
    /\ Goto(c, "return")
    /\ op' = [op EXCEPT ![c] = "null"]
    /\ j' = Zero(j, c) /\ free_pages' = Zero(free_pages, c)
    /\ UNCHANGED <<lockVars, bitmap, free_pages_global, size, index, copy, holds>>

\* The bodies of the loops that take a run and give one back.
Write(c, value) ==
    /\ bitmap' = [bitmap EXCEPT ![index[c] + j[c]] = value]
    /\ Goto(c, "load")
    /\ UNCHANGED <<lockVars, free_pages_global, loopVars, holds>>

MarkPage(c) == Reached(c, "mark") /\ Write(c, 1)

ClearPage(c) == Reached(c, "clear") /\ Write(c, 0)

\* free_pages_global-- or ++ is no atomic operation.
LoadCount(c) ==
    /\ Reached(c, "load")
    /\ copy' = [copy EXCEPT ![c] = free_pages_global]
    /\ Goto(c, "store")
    /\ UNCHANGED <<lockVars, bitmap, free_pages_global, op, size, index, j,
                   free_pages, holds>>

StoreCount(c) ==
    /\ Reached(c, "store")
    /\ free_pages_global' = (copy[c] + IF op[c] = "alloc" THEN -1 ELSE 1) % Modulus
    /\ copy' = Zero(copy, c)
    /\ j' = [j EXCEPT ![c] = @ + 1]
    /\ Goto(c, IF LastOfRun(c) THEN "return" ELSE IF op[c] = "alloc" THEN "mark" ELSE "clear")
    /\ UNCHANGED <<lockVars, bitmap, op, size, index, free_pages, holds>>

\* The pages of the call: [index, index + size).
Run(c) == index[c] .. index[c] + size[c] - 1

\* release(&pmm_lock) and return; the call's variables are gone.
Return(c) ==
    /\ Reached(c, "return")
    /\ Release(c)
    /\ Goto(c, "idle")
    /\ holds' = IF op[c] = "alloc" THEN [holds EXCEPT ![c] = Run(c)] ELSE holds
    /\ op' = [op EXCEPT ![c] = "none"]
    /\ size' = Zero(size, c) /\ index' = Zero(index, c) /\ j' = Zero(j, c)
    /\ UNCHANGED <<bitmap, free_pages_global, free_pages, copy>>

Step(c) ==
    \/ InAcquire(c)
    \/ ProbeByte(c) \/ ProbeFits(c) \/ ProbeNext(c) \/ ProbeFails(c)
    \/ MarkPage(c) \/ ClearPage(c) \/ LoadCount(c) \/ StoreCount(c)
    \/ Return(c)

Next ==
    \E c \in CPUs :
        \/ \E n \in 1 .. MaxAlloc : CallAlloc(c, n)
        \/ CallFree(c)
        \/ Step(c)

\* A CPU inside a call keeps executing it; nothing makes it start one.
Spec == Init /\ [][Next]_vars /\ \A c \in CPUs : WF_vars(Step(c))

-----------------------------------------------------------------------------
TypeOK ==
    /\ LockTypeOK
    /\ bitmap \in [Bytes -> {0, 1}]
    /\ free_pages_global \in 0 .. Modulus - 1
    /\ at \in [CPUs -> {"idle", "probe", "mark", "clear", "load", "store", "return"}]
    /\ op \in [CPUs -> {"none", "alloc", "free", "null"}]
    /\ size \in [CPUs -> 0 .. MaxAlloc]
    /\ index \in [CPUs -> Bytes]
    /\ j \in [CPUs -> 0 .. MaxAlloc] /\ free_pages \in [CPUs -> 0 .. MaxAlloc]
    /\ copy \in [CPUs -> 0 .. Modulus - 1]
    /\ holds \in [CPUs -> SUBSET Bytes]

\* Pages of c's call whose byte is set although nobody has been given them.
InTransit(c) ==
    LET written == {p \in Run(c) : \/ p < index[c] + j[c]
                                   \/ p = index[c] + j[c] /\ at[c] \in {"load", "store"}}
    IN IF at[c] \in {"idle", "probe"} \/ op[c] = "null" THEN {}
       ELSE IF op[c] = "alloc" THEN written ELSE Run(c) \ written

\* Until an acquire has given up, every page that was free at boot is free,
\* owned by one CPU, or being moved by one call, and no two of these: the
\* bitmap is read and written in separate steps and only pmm_lock keeps two
\* scans from taking one page (pmm.c:99-113, 137-141).
PagesConserved ==
    ~gaveUp => \A p \in Bytes :
        Cardinality({c \in CPUs : p \in holds[c]})
            + Cardinality({c \in CPUs : p \in InTransit(c)})
            + (1 - bitmap[p]) = IF p \in BootFree THEN 1 ELSE 0

\* Until then, no update of the count is lost: whenever the lock is free, the
\* count is the number of clear bytes (pmm.c:114, 140).
CountExact ==
    ~gaveUp /\ ~locked =>
        free_pages_global = Cardinality({p \in Bytes : bitmap[p] = 0})

\* Every call returns, lock or no lock, whatever the other CPUs do to the
\* bitmap under it.
CallReturns == \A c \in CPUs : at[c] # "idle" ~> at[c] = "idle"

\* Until an acquire has given up, the calls keep the contract of PageContract.
Contract == INSTANCE PageContract WITH Owners <- CPUs, Pages <- Bytes
ImplementsContract == Contract!Init /\ [][~gaveUp' => Contract!Next]_holds
=============================================================================

----------------------------- MODULE HeapLocked -----------------------------
(***************************************************************************)
(* malloc and free of src/memory/heap.c as several CPUs run them, access   *)
(* by access.  Every slab has a lock, but malloc acquires that of the      *)
(* first slab only: it walks on without one, releases each slab it leaves, *)
(* and adds a slab to the list with no lock at all.  free acquires and     *)
(* releases slab by slab.  acquire is LockContract's: it takes the lock    *)
(* when it is free, and may come back without it at any time.              *)
(*                                                                         *)
(* "at" is the access a CPU does next; cur, i, copy are its locals:        *)
(*   acquire           the lock of cur                                     *)
(*   look, range       malloc reads obj_size, free compares its pointer    *)
(*   probe, mark       malloc reads and sets bitmap[i]                     *)
(*   load, store       used_objs++ or obj_count--, a read and a write      *)
(*   clear             free resets bitmap[index]                           *)
(*   return, leave     release cur, and return or go on to the next slab   *)
(*   tail ... reset    slab_init, field by field                           *)
(***************************************************************************)
EXTENDS Integers, Sequences, FiniteSets

CONSTANTS CPUs,        \* each holds at most one object
          ObjCount,    \* objects of a slab
          Classes,     \* the slabs of heap_init; the scan looks at obj_size objects
          Sizes,       \* sizes that callers ask for
          MaxMallocs,  \* calls of malloc in all (bound)
          MaxSlabs,    \* slabs in all (bound): enough for MaxMallocs calls
          Modulus      \* obj_count wraps at it, 2^64 in the code

Slabs == 1 .. MaxSlabs
first == 1
NULL == 0

ASSUME HeapLockedAssumption ==
    /\ ObjCount \in Nat \ {0} /\ Classes \in Seq(1 .. ObjCount)
    /\ Sizes \subseteq 1 .. ObjCount
    /\ Len(Classes) \in 1 .. MaxSlabs
    /\ MaxMallocs \in Nat /\ MaxSlabs \in Nat
    /\ Modulus \in Nat /\ Modulus > ObjCount + MaxMallocs

VARIABLES slab,        \* slab[s]: the struct Slab with number s
          made,        \* slabs 1 .. made have been given a page
          at, op, cur, i, copy, want,
          ptr,         \* the object each CPU holds or is freeing
          mallocs,     \* calls of malloc so far
          gaveUp,      \* history: an acquire has returned without the first slab's lock
          crowded      \* history: two mallocs were past the first slab at once

locals == <<at, op, cur, i, copy, want>>
vars == <<slab, made, locals, ptr, mallocs, gaveUp, crowded>>

None == [base |-> NULL, k |-> 0]

\* A slab as pmm_calloc returns it, and one slab_init is done with; "base"
\* numbers the memory of its objects.
Blank == [base |-> NULL, size |-> 0, count |-> 0, used |-> 0, mapped |-> FALSE,
          marks |-> {}, locked |-> FALSE, next |-> NULL]
Built(s) == [base |-> s, size |-> Classes[s], count |-> ObjCount, used |-> 0,
             mapped |-> TRUE, marks |-> {}, locked |-> FALSE,
             next |-> IF s < Len(Classes) THEN s + 1 ELSE NULL]

Init ==
    /\ slab = [s \in Slabs |-> IF s <= Len(Classes) THEN Built(s) ELSE Blank]
    /\ made = Len(Classes)
    /\ at = [c \in CPUs |-> "idle"] /\ op = [c \in CPUs |-> "none"]
    /\ cur = [c \in CPUs |-> first] /\ i = [c \in CPUs |-> 0]
    /\ copy = [c \in CPUs |-> 0] /\ want = [c \in CPUs |-> 0]
    /\ ptr = [c \in CPUs |-> None]
    /\ mallocs = 0 /\ gaveUp = FALSE /\ crowded = FALSE

-----------------------------------------------------------------------------
Goto(c, where) == at' = [at EXCEPT ![c] = where]
Same == UNCHANGED <<made, ptr, mallocs, gaveUp>>

CallMalloc(c, size) ==
    /\ at[c] = "idle" /\ ptr[c] = None /\ mallocs < MaxMallocs
    /\ Goto(c, "acquire")
    /\ op' = [op EXCEPT ![c] = "malloc"] /\ want' = [want EXCEPT ![c] = size]
    /\ mallocs' = mallocs + 1
    /\ UNCHANGED <<slab, made, cur, i, copy, ptr, gaveUp>>

CallFree(c) ==
    /\ at[c] = "idle" /\ ptr[c] # None
    /\ Goto(c, "acquire")
    /\ op' = [op EXCEPT ![c] = "free"]
    /\ UNCHANGED <<slab, cur, i, copy, want>> /\ Same

\* Mutant: the lock word is not set.
AcquireNothing(c) ==
    /\ at[c] = "acquire"
    /\ Goto(c, IF op[c] = "malloc" THEN "look" ELSE "range")
    /\ UNCHANGED <<slab, op, cur, i, copy, want>> /\ Same

\* acquire(&cur_slab->l): it takes the lock if that is free, or its loop runs
\* out, which it may do before the first try (klock.c:47).
Acquire(c) ==
    /\ at[c] = "acquire"
    /\ Goto(c, IF op[c] = "malloc" THEN "look" ELSE "range")
    /\ \/ /\ ~slab[cur[c]].locked
          /\ slab' = [slab EXCEPT ![cur[c]].locked = TRUE] /\ UNCHANGED gaveUp
       \/ UNCHANGED slab /\ gaveUp' = (gaveUp \/ cur[c] = first)
    /\ UNCHANGED <<made, op, cur, i, copy, want, ptr, mallocs>>

\* cur_slab->obj_size >= size.  (No scan starts on an empty range: size 0 is
\* a multiple of the page size and never comes here.)
Look(c) ==
    /\ at[c] = "look"
    /\ Goto(c, IF slab[cur[c]].size >= want[c] THEN "probe" ELSE "leave")
    /\ UNCHANGED <<slab, op, cur, i, copy, want>> /\ Same

\* Mutant: the scan does not move on.
ProbeSame(c) ==
    /\ at[c] = "probe" /\ slab[cur[c]].mapped
    /\ Goto(c, IF i[c] \in slab[cur[c]].marks THEN "probe" ELSE "mark")
    /\ UNCHANGED <<slab, op, cur, i, copy, want>> /\ Same
\* bitmap[i] == 0, up to i < obj_size.  A bitmap that slab_init has not set yet
\* is at address 0, which is not mapped: the page fault handler never returns.
Probe(c) ==
    /\ at[c] = "probe"
    /\ LET s == slab[cur[c]] IN
        IF ~s.mapped THEN Goto(c, "fault") /\ UNCHANGED i
        ELSE IF i[c] \notin s.marks THEN Goto(c, "mark") /\ UNCHANGED i
        ELSE IF i[c] + 1 < s.size THEN UNCHANGED at /\ i' = [i EXCEPT ![c] = @ + 1]
        ELSE Goto(c, "leave") /\ i' = [i EXCEPT ![c] = 0]
    /\ UNCHANGED <<slab, op, cur, copy, want>> /\ Same

Mark(c) ==
    /\ at[c] = "mark"
    /\ Goto(c, "load")
    /\ slab' = [slab EXCEPT ![cur[c]].marks = @ \cup {i[c]}]
    /\ UNCHANGED <<op, cur, i, copy, want>> /\ Same

\* used_objs++ of malloc, obj_count-- of free.
Load(c) ==
    /\ at[c] = "load"
    /\ Goto(c, "store")
    /\ copy' = [copy EXCEPT ![c] =
                  IF op[c] = "malloc" THEN slab[cur[c]].used ELSE slab[cur[c]].count]
    /\ UNCHANGED <<slab, op, cur, i, want>> /\ Same

Store(c) ==
    /\ at[c] = "store"
    /\ copy' = [copy EXCEPT ![c] = 0]
    /\ IF op[c] = "malloc"
         THEN /\ slab' = [slab EXCEPT ![cur[c]].used = copy[c] + 1]
              /\ Goto(c, "return")
         ELSE /\ slab' = [slab EXCEPT ![cur[c]].count = (copy[c] - 1) % Modulus]
              /\ Goto(c, "clear")
    /\ UNCHANGED <<op, cur, i, want>> /\ Same

\* free's comparison: objects as far as obj_count reaches.
Owns(s, p) == s.base = p.base /\ p.k < s.count

InRange(c) ==
    /\ at[c] = "range"
    /\ Goto(c, IF Owns(slab[cur[c]], ptr[c]) THEN "load" ELSE "leave")
    /\ UNCHANGED <<slab, op, cur, i, copy, want>> /\ Same

\* Mutant: the byte of the first object is cleared, whatever the pointer.
ClearFirst(c) ==
    /\ at[c] = "clear"
    /\ Goto(c, "return")
    /\ slab' = [slab EXCEPT ![cur[c]].marks = @ \ {0}]
    /\ UNCHANGED <<op, cur, i, copy, want>> /\ Same

\* bitmap[index] = 0
Clear(c) ==
    /\ at[c] = "clear"
    /\ Goto(c, "return")
    /\ slab' = [slab EXCEPT ![cur[c]].marks = @ \ {ptr[c].k}]
    /\ UNCHANGED <<op, cur, i, copy, want>> /\ Same

\* The call is over: its locals are gone.
Finish(c, p) ==
    /\ Goto(c, "idle")
    /\ op' = [op EXCEPT ![c] = "none"] /\ cur' = [cur EXCEPT ![c] = first]
    /\ i' = [i EXCEPT ![c] = 0] /\ want' = [want EXCEPT ![c] = 0]
    /\ ptr' = [ptr EXCEPT ![c] = p]
    /\ UNCHANGED <<made, copy, mallocs, gaveUp>>

\* What is read of the slab right after belongs to the same step: its base, which
\* changes only once crowded, and its next.  Left out is a slab that another CPU
\* links between the two: a malloc would search it instead of making its own.
Release(c) == slab' = [slab EXCEPT ![cur[c]].locked = FALSE]

Return(c) ==
    /\ at[c] = "return"
    /\ Release(c)
    /\ Finish(c, IF op[c] = "malloc" THEN [base |-> slab[cur[c]].base, k |-> i[c]] ELSE None)

\* release(&cur_slab->l), whoever holds it, and on to cur_slab->next: free
\* acquires its lock, malloc does not.  Past the last slab free drops its
\* pointer and malloc makes a slab.
Leave(c) ==
    /\ at[c] = "leave"
    /\ Release(c)
    /\ LET n == slab[cur[c]].next IN
        IF n = NULL /\ op[c] = "free" THEN Finish(c, None)
        ELSE /\ Goto(c, IF n = NULL THEN "tail" ELSE IF op[c] = "malloc" THEN "look" ELSE "acquire")
             /\ cur' = [cur EXCEPT ![c] = IF n = NULL THEN first ELSE n]
             /\ UNCHANGED <<op, i, copy, want>> /\ Same

-----------------------------------------------------------------------------
\* slab_init finds the end of the list, from the first slab; the list may grow
\* before the next step.
FindTail(c) ==
    /\ at[c] = "tail"
    /\ IF slab[cur[c]].next = NULL THEN Goto(c, "link") /\ UNCHANGED cur
                                   ELSE UNCHANGED at /\ cur' = [cur EXCEPT ![c] = slab[@].next]
    /\ UNCHANGED <<slab, op, i, copy, want>> /\ Same

\* cur_slab->next = pmm_calloc(...), over what another CPU may have put there,
\* and then cur_slab = cur_slab->next, which may be another CPU's.
Link(c) ==
    /\ at[c] = "link" /\ made < MaxSlabs
    /\ Goto(c, "follow")
    /\ made' = made + 1
    /\ slab' = [slab EXCEPT ![cur[c]].next = made', ![made'] = Blank]
    /\ UNCHANGED <<op, cur, i, copy, want, ptr, mallocs, gaveUp>>

Follow(c) ==
    /\ at[c] = "follow"
    /\ Goto(c, "fields")
    /\ cur' = [cur EXCEPT ![c] = slab[@].next]
    /\ UNCHANGED <<slab, op, i, copy, want>> /\ Same

\* obj_count, obj_size and baseaddr; nobody compares with a base before it is
\* set.  Memory that replaces another CPU's gets another number.
Fields(c) ==
    /\ at[c] = "fields"
    /\ Goto(c, "bitmap")
    /\ slab' = [slab EXCEPT ![cur[c]].count = ObjCount, ![cur[c]].size = want[c],
                            ![cur[c]].base = IF @ = NULL THEN cur[c] ELSE @ + MaxSlabs]
    /\ UNCHANGED <<op, cur, i, copy, want>> /\ Same

\* Mutant: the bitmap's address is not stored.
BitmapLost(c) == at[c] = "bitmap" /\ Goto(c, "reset") /\ UNCHANGED <<slab, op, cur, i, copy, want>> /\ Same

Bitmap(c) ==
    /\ at[c] = "bitmap"
    /\ Goto(c, "reset")
    /\ slab' = [slab EXCEPT ![cur[c]].mapped = TRUE, ![cur[c]].marks = {}]
    /\ UNCHANGED <<op, cur, i, copy, want>> /\ Same

\* used_objs = 0, l.locked = false; goto alloc.
Reset(c) ==
    /\ at[c] = "reset"
    /\ Goto(c, "acquire")
    /\ slab' = [slab EXCEPT ![cur[c]].used = 0, ![cur[c]].locked = FALSE]
    /\ cur' = [cur EXCEPT ![c] = first]
    /\ UNCHANGED <<op, i, copy, want>> /\ Same

SlabInit(c) == FindTail(c) \/ Link(c) \/ Follow(c) \/ Fields(c) \/ Bitmap(c) \/ Reset(c)

\* A malloc that the first lock no longer protects.
Past(c) == op[c] = "malloc" /\ (cur[c] # first \/ at[c] \in {"tail", "link"})
Crowd == \E c, d \in CPUs : c # d /\ Past(c) /\ Past(d)
Watch == crowded' = (crowded \/ Crowd')

Step(c) ==
    /\ \/ Acquire(c) \/ Look(c) \/ Probe(c) \/ Mark(c) \/ Load(c) \/ Store(c)
       \/ InRange(c) \/ Clear(c) \/ Return(c) \/ Leave(c) \/ SlabInit(c)
    /\ Watch

Next ==
    \E c \in CPUs :
        \/ \E size \in Sizes : CallMalloc(c, size) /\ Watch
        \/ CallFree(c) /\ Watch
        \/ Step(c)

\* A CPU inside a call keeps executing it.
Spec == Init /\ [][Next]_vars /\ \A c \in CPUs : WF_vars(Step(c))

-----------------------------------------------------------------------------
Places == {"idle", "acquire", "look", "range", "probe", "mark", "load", "store", "clear",
           "return", "leave", "tail", "link", "follow", "fields", "bitmap", "reset", "fault"}

TypeOK ==
    /\ \A s \in Slabs :
        /\ slab[s].size \in 0 .. ObjCount /\ slab[s].marks \subseteq 0 .. ObjCount - 1
        /\ slab[s].count \in 0 .. Modulus - 1 /\ slab[s].used \in 0 .. MaxMallocs
        /\ slab[s].next \in {NULL} \cup (s + 1 .. made)
    /\ at \in [CPUs -> Places] /\ op \in [CPUs -> {"none", "malloc", "free"}]
    /\ cur \in [CPUs -> 1 .. made] /\ i \in [CPUs -> 0 .. ObjCount - 1]

Held(c) == at[c] = "idle" /\ ptr[c] # None
MarkedIn(s, p) == slab[s].base = p.base /\ p.k \in slab[s].marks

\* No object belongs to two CPUs, and one that is held is marked: of the first
\* slab until an acquire of its lock gives up, of the others as long as no two
\* mallocs have been past the first slab at once.  Frees may overlap with
\* everything: that malloc clears locks it does not hold takes no object from
\* its owner (heap.c:92, 99-108, 119-128).
ObjectsHeldOnce ==
    \A c \in CPUs : Held(c) /\ ~(IF ptr[c].base = first THEN gaveUp ELSE crowded) =>
        /\ \E s \in Slabs : MarkedIn(s, ptr[c])
        /\ \A d \in CPUs : Held(d) /\ ptr[d] = ptr[c] => c = d

\* In the first slab no update of either counter is lost until an acquire of
\* its lock gives up: whenever its lock is free they differ by the marked objects (heap.c:102,
\* 123).
FirstCountsExact ==
    ~gaveUp /\ ~slab[first].locked =>
        slab[first].used - (ObjCount - slab[first].count) = Cardinality(slab[first].marks)

\* A CPU runs into a slab that has no bitmap yet only if another is making one
\* at the same time (heap.c:47, 56-58, 99).
FaultsOnlyWhenCrowded == (\E c \in CPUs : at[c] = "fault") => crowded

\* Every call comes back, lock or no lock, unless it faults.
CallReturns == \A c \in CPUs : at[c] # "idle" ~> at[c] \in {"idle", "fault"}

\* The lock of the first slab is a lock as LockContract says: what malloc does
\* to the locks of the slabs behind it never touches this one.
InFirst(c) == cur[c] = first /\ at[c] \notin {"idle", "acquire", "tail", "link", "follow"}
FirstLock == INSTANCE LockContract WITH
    inside <- {c \in CPUs : InFirst(c)}, broken <- gaveUp
FirstLockHolds == FirstLock!Spec
=============================================================================

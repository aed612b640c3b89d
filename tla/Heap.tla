-------------------------------- MODULE Heap --------------------------------
(***************************************************************************)
(* The kernel heap, src/memory/heap.c, as one caller sees it: a list of    *)
(* slabs, each an array of objects of one size with one bitmap byte per    *)
(* object, over an allocator of pages.  Addresses are byte numbers; a      *)
(* slab's objects are addressed in the higher half and a block of pages by *)
(* its physical address, so the two kinds of pointer never compare equal.  *)
(*                                                                         *)
(* Pages never come back (heap.c does not call pmm_free), so the first fit *)
(* of pmm_alloc hands them out in order: "pool" is the next page.          *)
(***************************************************************************)
EXTENDS Integers, Sequences, FiniteSets

CONSTANTS page_size,
          ObjCount,    \* objects of a slab, 4096 in the code
          Classes,     \* the sizes heap_init makes slabs for, in order
          Ptrs,        \* the callers' pointer variables
          Sizes,       \* the sizes callers ask for (bound)
          Pages,       \* pages 1 .. Pages can be handed out (bound)
          MaxSlabs     \* slabs in all (bound)

VARIABLES slabs,       \* the list, as a sequence
          pool,        \* the next page that pmm_alloc hands out
          ptr          \* what each pointer variable holds

vars == <<slabs, pool, ptr>>

\* malloc() hands these to the page allocator.
IsLarge(size) == size % page_size = 0 \/ size >= 2 * page_size

\* A slab has a bitmap of one page, with a byte for each object; the scan of
\* malloc stops at obj_size, and sizes above ObjCount, with which it would
\* run off the bitmap, are not asked for.
ASSUME HeapAssumption ==
    /\ page_size \in Nat \ {0} /\ ObjCount \in 1 .. page_size
    /\ Pages \in Nat /\ MaxSlabs \in Nat
    /\ Classes \in Seq(1 .. ObjCount)
    /\ Sizes \subseteq Nat
    /\ \A size \in Sizes : IsLarge(size) \/ size <= ObjCount

\* Mutant: the number of objects is taken for the number of bytes.
DataPagesOfCount(size) == (ObjCount + page_size - 1) \div page_size

\* align_up(obj_count * obj_size, page_size) / page_size
DataPages(size) == (ObjCount * size + page_size - 1) \div page_size

\* pmm_alloc(n, ...): n pages, or page 0, NULL, when there are none or n is 0.
PmmAlloc(po, n) ==
    IF n > 0 /\ po + n - 1 <= Pages THEN [page |-> po, pool |-> po + n]
                                    ELSE [page |-> 0, pool |-> po]

\* slab_init(size): a page for the slab, pages for its objects, a page for
\* its bitmap.  The offset of the higher half is added before the test for
\* NULL, so a slab whose objects got no memory is used, based at page 0.
\* "books" are the pages of the slab and of its bitmap.
SlabInit(sl, po, size) ==
    LET data == PmmAlloc(po + 1, DataPages(size))
    IN [slabs |-> Append(sl, [base |-> data.page * page_size, obj_size |-> size,
                              obj_count |-> ObjCount, used_objs |-> 0,
                              books |-> {po, data.pool},
                              bitmap |-> [k \in 0 .. ObjCount - 1 |-> 0]]),
        pool |-> data.pool + 1]

\* The model has room for one more slab, and the machine for its own page and
\* its bitmap's; only the objects may go without memory.
CanInit(sl, po, size) ==
    Len(sl) < MaxSlabs /\ SlabInit(sl, po, size).pool <= Pages + 1

Null == [addr |-> 0, len |-> 0, asked |-> 0, paged |-> TRUE]

Init ==
    /\ slabs = <<>>
    /\ pool = 1
    /\ ptr = [p \in Ptrs |-> Null]

\* heap_init(), one slab_init at a time; nothing else runs until it is done.
heap_init ==
    /\ Len(slabs) < Len(Classes)
    /\ LET size == Classes[Len(slabs) + 1]
           done == SlabInit(slabs, pool, size)
       IN CanInit(slabs, pool, size) /\ slabs' = done.slabs /\ pool' = done.pool
    /\ UNCHANGED ptr

Ready == Len(slabs) >= Len(Classes)

-----------------------------------------------------------------------------
Least(S) == CHOOSE x \in S : \A y \in S : x <= y

\* Mutant: the scan does not look at the byte.
FreeObjectsAny(s) == 0 .. s.obj_size - 1

\* The loop over a slab's bitmap is bounded by obj_size.
FreeObjects(s) == {k \in 0 .. s.obj_size - 1 : s.bitmap[k] = 0}

\* Mutant: every slab with a free object will do.
FittingAny(sl, size) == {n \in DOMAIN sl : FreeObjects(sl[n]) # {}}

Fitting(sl, size) == {n \in DOMAIN sl : sl[n].obj_size >= size /\ FreeObjects(sl[n]) # {}}

\* Mutant: the object is not counted as used.
TakeUncounted(sl, po, n, size) ==
    LET k == Least(FreeObjects(sl[n]))
    IN [slabs |-> [sl EXCEPT ![n].bitmap[k] = 1],
        pool |-> po,
        ret |-> [addr |-> sl[n].base + k * sl[n].obj_size, len |-> sl[n].obj_size,
                 asked |-> size, paged |-> FALSE]]

\* malloc takes the first free object of slab n.
Take(sl, po, n, size) ==
    LET k == Least(FreeObjects(sl[n]))
    IN [slabs |-> [sl EXCEPT ![n].bitmap[k] = 1, ![n].used_objs = @ + 1],
        pool |-> po,
        ret |-> [addr |-> sl[n].base + k * sl[n].obj_size, len |-> sl[n].obj_size,
                 asked |-> size, paged |-> FALSE]]

\* malloc of a large size: whole pages, the rest of the division dropped.
TakePages(sl, po, size) ==
    LET n == size \div page_size
        got == PmmAlloc(po, n)
    IN [slabs |-> sl, pool |-> got.pool,
        ret |-> IF got.page = 0 THEN Null
                ELSE [addr |-> got.page * page_size, len |-> n * page_size,
                      asked |-> size, paged |-> TRUE]]

\* malloc(size): with no fitting slab it adds one and starts again, and then
\* only the new slab fits.
Malloc(sl, po, size) ==
    LET new == SlabInit(sl, po, size)
    IN IF IsLarge(size) THEN TakePages(sl, po, size)
       ELSE IF Fitting(sl, size) # {} THEN Take(sl, po, Least(Fitting(sl, size)), size)
       ELSE Take(new.slabs, new.pool, Len(new.slabs), size)

CanMalloc(sl, po, size) ==
    IsLarge(size) \/ Fitting(sl, size) # {} \/ CanInit(sl, po, size)

\* The slabs whose objects, as far as obj_count still reaches, hold address a.
OwnersOf(sl, q) ==
    {n \in DOMAIN sl : /\ ~q.paged
                       /\ q.addr >= sl[n].base
                       /\ q.addr < sl[n].base + sl[n].obj_count * sl[n].obj_size}

\* Mutant: the object stays marked.
FreedKept(sl, q) ==
    LET n == Least(OwnersOf(sl, q))
    IN [sl EXCEPT ![n].obj_count = @ - 1]

\* free(ptr): the object's byte is cleared and obj_count, not used_objs, goes
\* down; a pointer that no slab claims is dropped without a word.
Freed(sl, q) ==
    LET n == Least(OwnersOf(sl, q))
        k == (q.addr - sl[n].base) \div sl[n].obj_size
    IN [sl EXCEPT ![n].obj_count = @ - 1, ![n].bitmap[k] = 0]

AfterFree(sl, q) == IF OwnersOf(sl, q) = {} THEN sl ELSE Freed(sl, q)

-----------------------------------------------------------------------------
\* malloc(size), and calloc(a, b) with a * b = size, which asks for the same.
malloc(p, size) ==
    /\ Ready /\ ptr[p] = Null /\ CanMalloc(slabs, pool, size)
    /\ LET got == Malloc(slabs, pool, size)
       IN /\ slabs' = got.slabs /\ pool' = got.pool
          /\ ptr' = [ptr EXCEPT ![p] = got.ret]

free(p) ==
    /\ ptr[p] # Null
    /\ slabs' = AfterFree(slabs, ptr[p])
    /\ ptr' = [ptr EXCEPT ![p] = Null]
    /\ UNCHANGED pool

\* realloc(ptr, size, old_size) of a pointer that is not NULL, to a size that
\* is not 0: malloc, copy, free.  (realloc(NULL, ...) is malloc, realloc(.., 0)
\* is free and returns no value.)  Without memory for the new block memcpy
\* writes at NULL, unless there is nothing to copy: the page fault handler does
\* not return, and nothing more happens (heap.c:145).
realloc(p, size) ==
    /\ ptr[p] # Null /\ size > 0 /\ CanMalloc(slabs, pool, size)
    /\ LET got == Malloc(slabs, pool, size)
       IN /\ got.ret # Null \/ ptr[p].asked = 0
          /\ slabs' = AfterFree(got.slabs, ptr[p])
          /\ pool' = got.pool
          /\ ptr' = [ptr EXCEPT ![p] = got.ret]

Next ==
    \/ heap_init
    \/ \E p \in Ptrs : free(p) \/ \E size \in Sizes : malloc(p, size) \/ realloc(p, size)

Spec == Init /\ [][Next]_vars

-----------------------------------------------------------------------------
Slab == [base : Nat, obj_size : 1 .. ObjCount, obj_count : 0 .. ObjCount,
         used_objs : Nat, books : SUBSET (1 .. Pages),
         bitmap : [0 .. ObjCount - 1 -> {0, 1}]]
Pointer == [addr : Nat, len : Nat, asked : Nat, paged : BOOLEAN]

TypeOK ==
    /\ slabs \in Seq(Slab)
    /\ pool \in 1 .. Pages + 1
    /\ ptr \in [Ptrs -> Pointer]

\* Every slab's objects have memory of their own.
AllBacked == \A n \in DOMAIN slabs : slabs[n].base # 0

BytesOf(q) == q.addr .. q.addr + q.len - 1

\* While slabs get memory, no two pointers share a byte, of objects, of pages,
\* or of one and the other, although the list grows in the middle of a malloc
\* and slabs forget objects as obj_count falls; nor does one reach into the page
\* of a slab or of its bitmap, from which malloc and free read what they decide
\* by.  An object is as large as what was asked for (heap.c:57, 95-104, 123).
ObjectsDisjoint ==
    AllBacked => \A p \in Ptrs :
        /\ \A q \in Ptrs \ {p} : BytesOf(ptr[p]) \cap BytesOf(ptr[q]) = {}
        /\ \A n \in DOMAIN slabs :
              {a \div page_size : a \in BytesOf(ptr[p])} \cap slabs[n].books = {}
        /\ ~ptr[p].paged => ptr[p].len >= ptr[p].asked

Marked(s) == {k \in 0 .. ObjCount - 1 : s.bitmap[k] = 1}

\* While slabs get memory, used_objs counts every malloc and obj_count every
\* free, so the marked objects are the difference (heap.c:102, 123): the two
\* counters drift, but together they lose nothing.  (A slab without memory lies
\* over others' addresses, and then a free may lower the count of the wrong one.)
CountersAgree ==
    AllBacked => \A n \in DOMAIN slabs :
        slabs[n].used_objs - (ObjCount - slabs[n].obj_count) = Cardinality(Marked(slabs[n]))

HeldObjects(n) ==
    {(ptr[p].addr - slabs[n].base) \div slabs[n].obj_size :
        p \in {r \in Ptrs : /\ ~ptr[r].paged
                            /\ ptr[r].addr >= slabs[n].base
                            /\ ptr[r].addr < slabs[n].base + ObjCount * slabs[n].obj_size}}

\* While slabs get memory, an object that is held is marked, and one that is
\* marked though nobody holds it lies where obj_count no longer reaches: the
\* objects the heap leaks are those freed late in a slab's life and no others.
LeaksOnlyPastCount ==
    AllBacked => \A n \in DOMAIN slabs :
        /\ HeldObjects(n) \subseteq Marked(slabs[n])
        /\ \A k \in Marked(slabs[n]) \ HeldObjects(n) : k >= slabs[n].obj_count

-----------------------------------------------------------------------------
\* heap.c:6 and its callers (Window.c:19, graphics.c:25): malloc(size) returns
\* NULL or room for size bytes.
MallocCoversSize ==
    \A p \in Ptrs : ptr[p] # Null => ptr[p].len >= ptr[p].asked

\* heap.c:61-65, "kpanic": no slab is used that got no memory.
SlabFailurePanics == AllBacked
=============================================================================

-------------------------------- MODULE PMM ---------------------------------
(***************************************************************************)
(* The physical page allocator, src/memory/pmm.c.  An address is the       *)
(* number of its page, and every call is one step, as it runs under        *)
(* pmm_lock (PMMLocked takes the steps apart).                             *)
(*                                                                         *)
(* "bitmap" holds one BYTE per page, but the memory set aside for it, and  *)
(* the loop of pmm_alloc over it, are sized for one BIT per page.  So the  *)
(* bytes of most pages lie past that memory, in the pages that follow it,  *)
(* which are handed out like any others.  The model keeps this aliasing:   *)
(* Home(k) is the page that byte k lies in, and whoever owns that page may *)
(* overwrite the byte.  Only zero or not zero matters in a byte: 0 or 1.   *)
(***************************************************************************)
EXTENDS Integers, Sequences, FiniteSets

CONSTANTS MemMap,      \* the boot loader's memory map, a sequence of
                       \*   [base, len, type] in pages
          PageBytes,   \* page_size, 4096 in the code
          Owners,      \* the callers; each holds at most one block
          MaxAlloc,    \* largest request, in pages
          MaxInits     \* calls of pmm_init; kernel.c makes one

VARIABLES entries,            \* the memory map, which pmm_init trims
          bitmap_base,        \* first page of the bitmap
          bitmap,             \* byte k is that of page k; 0 is free
          free_pages_global,
          total_pages_global,
          pmm_init_,          \* the file's flag that pmm_init has run
          inits,              \* history: calls of pmm_init so far
          holds               \* history: the pages each caller was given

vars == <<entries, bitmap_base, bitmap, free_pages_global,
          total_pages_global, pmm_init_, inits, holds>>

-----------------------------------------------------------------------------
PagesOf(e) == e.base .. e.base + e.len - 1

Usable(es) == UNION {PagesOf(es[n]) : n \in {m \in DOMAIN es : es[m].type = "usable"}}

\* Entries of type ACPI_NVS, ACPI_RECLAIMABLE and FRAMEBUFFER are "uncounted".
Counted(es) ==
    UNION {PagesOf(es[n]) : n \in {m \in DOMAIN es : es[m].type # "uncounted"}}

\* The last page of the highest usable entry; trimming an entry at its base
\* does not move it.
HighestUsable == CHOOSE p \in Usable(MemMap) : \A q \in Usable(MemMap) : q <= p

bitmap_size == HighestUsable \div 8

\* bitmap_size_aligned, in pages and in bytes: the memory the bitmap owns.
BitmapPages == (bitmap_size + PageBytes - 1) \div PageBytes
Tracked == BitmapPages * PageBytes

\* The bytes this model keeps: all that pmm_alloc can consult, and one more.
Bytes == 0 .. bitmap_size + MaxAlloc - 1

\* Entry n gives up its first pages to the bitmap: the first that has room.
HasRoom(e) == e.type = "usable" /\ e.len >= BitmapPages
TakesBitmap(es, n) == HasRoom(es[n]) /\ \A m \in 1 .. n - 1 : ~HasRoom(es[m])

Entry == [base : Nat, len : Nat, type : {"usable", "uncounted", "other"}]

\* The memory map keeps the boot loader's promises (entries are whole pages
\* and do not overlap, page 0 is not usable), and the bitmap finds room low
\* enough that the bytes of its own pages are tracked.
ASSUME MapAssumption ==
    /\ PageBytes \in Nat \ {0} /\ MaxAlloc \in Nat \ {0} /\ MaxInits \in Nat
    /\ MemMap \in Seq(Entry)
    /\ IsFiniteSet(Usable(MemMap)) /\ IsFiniteSet(Counted(MemMap))
    /\ 0 \notin Usable(MemMap)
    /\ \A m, n \in DOMAIN MemMap :
            m # n => PagesOf(MemMap[m]) \cap PagesOf(MemMap[n]) = {}
    /\ bitmap_size \in Nat \ {0}
    /\ \A n \in DOMAIN MemMap :
            TakesBitmap(MemMap, n) => MemMap[n].base + BitmapPages <= Tracked

Init ==
    /\ entries = MemMap
    /\ bitmap_base = 0
    /\ bitmap = [k \in Bytes |-> 0]
    /\ free_pages_global = 0 /\ total_pages_global = 0
    /\ pmm_init_ = FALSE
    /\ inits = 0
    /\ holds = [o \in Owners |-> {}]

\* Mutant: the entry gets shorter but keeps its base.
TrimLengthOnly(es, n) == [es EXCEPT ![n].len = @ - BitmapPages]

\* The map once entry n has given its first pages to the bitmap.
Trim(es, n) ==
    [es EXCEPT ![n] = [base |-> @.base + BitmapPages, len |-> @.len - BitmapPages,
                       type |-> @.type]]

\* pmm_init(): place the bitmap, fill its memory with 1, then clear the byte
\* of every usable page and count it.  A byte past the bitmap's memory keeps
\* what that memory held unless its page is usable.  Line 89 declares a local
\* of the same name, so the flag that line 25 tests stays clear.  (With no
\* entry that has room the code runs on an uninitialised address; not modelled.)
pmm_init ==
    /\ inits < MaxInits
    /\ ~pmm_init_
    /\ \E n \in DOMAIN entries :
        /\ TakesBitmap(entries, n)
        /\ bitmap_base' = entries[n].base
        /\ entries' = Trim(entries, n)
    /\ \E garbage \in [{k \in Bytes : k >= Tracked} -> {0, 1}] :
        bitmap' = [k \in Bytes |-> IF k \in Usable(entries') THEN 0
                                   ELSE IF k < Tracked THEN 1 ELSE garbage[k]]
    /\ free_pages_global' = free_pages_global + Cardinality(Usable(entries'))
    /\ total_pages_global' = total_pages_global + Cardinality(Counted(entries'))
    /\ inits' = inits + 1
    /\ UNCHANGED <<pmm_init_, holds>>

-----------------------------------------------------------------------------
Run(start, size) == start .. start + size - 1

\* Mutant: the inner loop of pmm_alloc looks at the first page only.
FirstByteFree(bm, start, size) == bm[start] = 0

AllFree(bm, start, size) == \A k \in Run(start, size) : bm[k] = 0

\* Where a run of size free pages starts; the outer loop takes the lowest.
Candidates(bm, size) == {s \in 0 .. bitmap_size - 1 : AllFree(bm, s, size)}

\* bitmap[k] = value for every page of the run.
Mark(bm, pages, value) == [k \in Bytes |-> IF k \in pages THEN value ELSE bm[k]]

\* The page that byte k of the bitmap lies in.
Home(k) == bitmap_base + k \div PageBytes

\* memset of the pages to 0, seen through the bytes that lie in them.
Zero(bm, pages) == [k \in Bytes |-> IF Home(k) \in pages THEN 0 ELSE bm[k]]

\* pmm_alloc(size, zeroed) that finds a run.  With no run it returns NULL and
\* changes nothing; pmm_alloc(0) returns page 0, that is NULL, at once.
pmm_alloc(o, size, zeroed) ==
    /\ inits > 0 /\ holds[o] = {}
    /\ \E start \in Candidates(bitmap, size) :
        /\ \A s \in Candidates(bitmap, size) : start <= s
        /\ LET pages == Run(start, size)
               marked == Mark(bitmap, pages, 1)
           IN /\ bitmap' = IF zeroed THEN Zero(marked, pages) ELSE marked
              /\ holds' = [holds EXCEPT ![o] = pages]
    /\ free_pages_global' = free_pages_global - size
    /\ UNCHANGED <<entries, bitmap_base, total_pages_global, pmm_init_, inits>>

\* Mutants: the last page of the block is not freed; the block counts as one.
FreeAllButLast(o) ==
    /\ holds[o] # {}
    /\ bitmap' = Mark(bitmap, {p \in holds[o] : p + 1 \in holds[o]}, 0)
    /\ free_pages_global' = free_pages_global + Cardinality(holds[o])
    /\ holds' = [holds EXCEPT ![o] = {}]
    /\ UNCHANGED <<entries, bitmap_base, total_pages_global, pmm_init_, inits>>
FreeCountedOnce(o) ==
    /\ holds[o] # {}
    /\ bitmap' = Mark(bitmap, holds[o], 0)
    /\ free_pages_global' = free_pages_global + 1
    /\ holds' = [holds EXCEPT ![o] = {}]
    /\ UNCHANGED <<entries, bitmap_base, total_pages_global, pmm_init_, inits>>

\* pmm_free(ptr, size) of a block its owner was given.
pmm_free(o) ==
    /\ holds[o] # {}
    /\ bitmap' = Mark(bitmap, holds[o], 0)
    /\ free_pages_global' = free_pages_global + Cardinality(holds[o])
    /\ holds' = [holds EXCEPT ![o] = {}]
    /\ UNCHANGED <<entries, bitmap_base, total_pages_global, pmm_init_, inits>>

\* An owner stores something in its pages; a byte of the bitmap may lie there.
OwnerWrites(o) ==
    /\ \E k \in Bytes, value \in {0, 1} :
        /\ Home(k) \in holds[o]
        /\ bitmap' = [bitmap EXCEPT ![k] = value]
    /\ UNCHANGED <<entries, bitmap_base, free_pages_global,
                   total_pages_global, pmm_init_, inits, holds>>

Next ==
    \/ pmm_init
    \/ \E o \in Owners :
        \/ \E size \in 1 .. MaxAlloc, zeroed \in BOOLEAN : pmm_alloc(o, size, zeroed)
        \/ pmm_free(o)
        \/ OwnerWrites(o)

Spec == Init /\ [][Next]_vars

-----------------------------------------------------------------------------
TypeOK ==
    /\ entries \in Seq(Entry)
    /\ bitmap_base \in Nat
    /\ bitmap \in [Bytes -> {0, 1}]
    /\ free_pages_global \in Int /\ total_pages_global \in Int
    /\ pmm_init_ \in BOOLEAN /\ inits \in 0 .. MaxInits
    /\ holds \in [Owners -> SUBSET (0 .. bitmap_size + MaxAlloc - 2)]

Held == UNION {holds[o] : o \in Owners}

\* No page has two owners, although bytes that decide over pages lie in pages
\* whose owners overwrite them (pmm.c:49, 102): every block that reaches past
\* the tracked pages also holds the last page the scan can start from.
BlocksDisjoint ==
    inits = 1 => \A o, other \in Owners :
                    o # other => holds[o] \cap holds[other] = {}

\* In the bitmap's own memory a byte is 0 exactly while its page is usable
\* memory that nobody holds: no block is lost and none is offered twice by
\* any order of calls and stores (pmm.c:70-86, 113, 139).
BitmapExact ==
    inits = 1 => \A p \in Bytes :
        p < Tracked => (bitmap[p] = 0 <=> p \in Usable(entries) \ Held)

\* Below the tracked limit a block is made of usable memory of the boot
\* loader's map, never of page 0, which callers would take for a failure, nor
\* of the pages the bitmap itself lies in (pmm.c:58-60).
BlocksAreMemory ==
    inits = 1 => \A p \in Held :
        p < Tracked => /\ p \in Usable(MemMap) \ {0}
                       /\ p \notin bitmap_base .. bitmap_base + BitmapPages - 1

\* available_memory() plus what is handed out is what pmm_init counted: no
\* page is counted twice or forgotten by a call (pmm.c:81, 114, 140).
FreeCountBalances ==
    inits = 1 => free_pages_global + Cardinality(Held) = Cardinality(Usable(entries))

\* The allocator keeps the contract its callers rely on.
Contract == INSTANCE PageContract WITH Pages <- 0 .. bitmap_size + MaxAlloc - 2
ImplementsContract == Contract!Spec

-----------------------------------------------------------------------------
\* pmm.c:98, "find a amount of pages that are free": the pages of a run that
\* pmm_alloc hands out are usable memory.
FindsFreePages == \A p \in Held : p \in Usable(MemMap)

\* kernel.c:68, "Available Memory: ", of available_memory(): while it is not
\* zero a request for one page succeeds.
AvailableMemoryIsAvailable ==
    inits > 0 /\ free_pages_global > 0 => Candidates(bitmap, 1) # {}

\* pmm.c:25-29, "oh no!" and return: a second pmm_init changes nothing.
SecondInitRefused ==
    [][inits > 0 /\ inits' > inits =>
        UNCHANGED <<entries, bitmap_base, bitmap, free_pages_global,
                    total_pages_global>>]_vars
=============================================================================

------------------------------ MODULE PMMProofs -----------------------------
(***************************************************************************)
(* Theorems about the page allocator of PMM, for every memory map, page    *)
(* size, set of owners and bound that satisfy MapAssumption.               *)
(***************************************************************************)
EXTENDS PMM, FiniteSetTheorems, TLAPS

\* The last page the scan can start from has its byte in the bitmap's memory.
LEMMA SizesFit ==
    /\ BitmapPages \in Nat /\ Tracked \in Nat
    /\ bitmap_size \in Nat \ {0} /\ bitmap_size <= Tracked
    /\ Bytes \subseteq Nat
  BY MapAssumption DEF BitmapPages, Tracked, Bytes

\* A tracked byte lies in one of the bitmap's own pages.
LEMMA TrackedHome ==
    ASSUME NEW k \in Nat, k < Tracked, bitmap_base \in Nat
    PROVE  Home(k) \in bitmap_base .. bitmap_base + BitmapPages - 1
  <1>1. k \div PageBytes \in Nat /\ k \div PageBytes < BitmapPages
    BY SizesFit, MapAssumption, SMTT(20) DEF Tracked
  <1>2. QED
    BY <1>1, SizesFit DEF Home

\* Trimming an entry of any memory map leaves a memory map whose entries keep
\* their types and lie within the old ones; the entry loses its first pages.
LEMMA TrimShrinks ==
    ASSUME NEW es \in Seq(Entry), NEW n \in DOMAIN es, HasRoom(es[n])
    PROVE  /\ Trim(es, n) \in Seq(Entry)
           /\ DOMAIN Trim(es, n) = DOMAIN es
           /\ \A m \in DOMAIN es : /\ Trim(es, n)[m].type = es[m].type
                                   /\ PagesOf(Trim(es, n)[m]) \subseteq PagesOf(es[m])
           /\ es[n].base \in Nat /\ es[n].len \in Nat
           /\ PagesOf(Trim(es, n)[n])
                    = es[n].base + BitmapPages .. es[n].base + es[n].len - 1
  <1> DEFINE trimmed == [base |-> es[n].base + BitmapPages,
                         len |-> es[n].len - BitmapPages, type |-> es[n].type]
  <1>1. \A m \in DOMAIN es : es[m] \in Entry
    OBVIOUS
  <1>2. /\ es[n].base \in Nat /\ es[n].len \in Nat /\ BitmapPages \in Nat
        /\ es[n].len >= BitmapPages /\ es[n].type = "usable"
    BY <1>1, SizesFit DEF HasRoom, Entry
  <1>3. Trim(es, n) = [es EXCEPT ![n] = trimmed]
    BY DEF Trim
  <1>4. /\ trimmed.base = es[n].base + BitmapPages
        /\ trimmed.len = es[n].len - BitmapPages
        /\ trimmed.type = es[n].type /\ trimmed \in Entry
    BY <1>1, <1>2 DEF Entry
  <1> HIDE DEF trimmed
  <1>5. /\ Trim(es, n) \in Seq(Entry) /\ DOMAIN Trim(es, n) = DOMAIN es
        /\ Trim(es, n)[n] = trimmed
        /\ \A m \in DOMAIN es : m # n => Trim(es, n)[m] = es[m]
    BY <1>3, <1>4
  <1>6. PagesOf(trimmed) = es[n].base + BitmapPages .. es[n].base + es[n].len - 1
    <2>1. trimmed.base + trimmed.len - 1 = es[n].base + es[n].len - 1
      BY <1>2, <1>4
    <2>2. QED
      BY <1>4, <2>1 DEF PagesOf
  <1>7. PagesOf(trimmed) \subseteq PagesOf(es[n])
    <2>1. \A p \in es[n].base + BitmapPages .. es[n].base + es[n].len - 1 :
              p \in es[n].base .. es[n].base + es[n].len - 1
      BY <1>2
    <2>2. QED
      BY <1>6, <2>1 DEF PagesOf
  <1>8. QED
    BY <1>2, <1>4, <1>5, <1>6, <1>7

\* So neither the usable nor the counted memory grows.
LEMMA TrimTakes ==
    ASSUME NEW es \in Seq(Entry), NEW n \in DOMAIN es, HasRoom(es[n])
    PROVE  /\ Usable(Trim(es, n)) \subseteq Usable(es)
           /\ Counted(Trim(es, n)) \subseteq Counted(es)
  <1>1. /\ DOMAIN Trim(es, n) = DOMAIN es
        /\ \A m \in DOMAIN es : /\ Trim(es, n)[m].type = es[m].type
                                /\ PagesOf(Trim(es, n)[m]) \subseteq PagesOf(es[m])
    BY TrimShrinks
  <1>2. QED
    BY <1>1 DEF Usable, Counted

\* Trimmed off the boot loader's map, the bitmap's pages are not usable.
LEMMA BitmapSetAside ==
    ASSUME NEW n \in DOMAIN MemMap, HasRoom(MemMap[n])
    PROVE  (MemMap[n].base .. MemMap[n].base + BitmapPages - 1)
                    \cap Usable(Trim(MemMap, n)) = {}
  <1> DEFINE base == MemMap[n].base
             es == Trim(MemMap, n)
  <1>1. MemMap \in Seq(Entry)
    BY MapAssumption
  <1>2. /\ base \in Nat /\ MemMap[n].len \in Nat /\ BitmapPages \in Nat
        /\ MemMap[n].len >= BitmapPages
        /\ PagesOf(es[n]) = base + BitmapPages .. base + MemMap[n].len - 1
    BY <1>1, TrimShrinks, SizesFit DEF HasRoom
  <1>3. ASSUME NEW p \in base .. base + BitmapPages - 1, p \in Usable(es)
        PROVE  FALSE
    <2>1. PICK m \in DOMAIN es : p \in PagesOf(es[m])
      BY <1>3 DEF Usable
    <2>2. m \in DOMAIN MemMap /\ p \in PagesOf(MemMap[m])
      BY <2>1, <1>1, TrimShrinks
    <2>3. p \in PagesOf(MemMap[n])
      BY <1>2 DEF PagesOf
    <2>4. m = n
      BY <2>2, <2>3, MapAssumption
    <2>5. QED
      BY <1>2, <2>1, <2>4
  <1>4. QED
    BY <1>3

-----------------------------------------------------------------------------
\* Before pmm_init nothing is handed out or counted; after it the bitmap's
\* pages are no longer in the usable memory, and lie below the tracked limit.
Placed ==
    /\ inits = 0 => /\ entries = MemMap /\ free_pages_global = 0
                    /\ \A o \in Owners : holds[o] = {}
    /\ Usable(entries) \subseteq Usable(MemMap)
    /\ Counted(entries) \subseteq Counted(MemMap)
    /\ inits = 1 => /\ (bitmap_base .. bitmap_base + BitmapPages - 1)
                            \cap Usable(entries) = {}
                    /\ bitmap_base + BitmapPages <= Tracked

\* A block that reaches past the pages the scan can start from holds the last
\* of them.  Two blocks that met past the tracked pages would also meet there.
BlocksReachBack ==
    \A o \in Owners : \A p \in holds[o] :
        p >= bitmap_size => bitmap_size - 1 \in holds[o]

\* What is handed out below the tracked limit is what pmm_init left usable.
HeldUsable ==
    inits = 1 => \A p \in Held : p < Tracked => p \in Usable(entries)

\* The inductive invariant.  BitmapExact holds although pages are written by
\* their owners because no tracked byte lies in a page that is handed out:
\* its page is one of the bitmap's own (TrackedHome), those are not usable
\* (Placed), and what is handed out is (HeldUsable).
IInv ==
    /\ TypeOK
    /\ Placed
    /\ BlocksReachBack
    /\ HeldUsable
    /\ BitmapExact
    /\ BlocksDisjoint

LEMMA InitIInv == Init => IInv
  <1> SUFFICES ASSUME Init PROVE IInv
    OBVIOUS
  <1>1. TypeOK
    <2>1. entries \in Seq(Entry) /\ inits \in 0 .. MaxInits
      BY MapAssumption DEF Init
    <2>2. bitmap \in [Bytes -> {0, 1}]
      BY DEF Init
    <2>3. holds \in [Owners -> SUBSET (0 .. bitmap_size + MaxAlloc - 2)]
      BY DEF Init
    <2>4. /\ bitmap_base \in Nat
          /\ free_pages_global \in Int /\ total_pages_global \in Int
      BY DEF Init
    <2>5. pmm_init_ \in BOOLEAN
      BY DEF Init
    <2>6. QED
      BY <2>1, <2>2, <2>3, <2>4, <2>5 DEF TypeOK
  <1>2. Placed
    BY DEF Init, Placed
  <1>3. BlocksReachBack
    BY DEF Init, BlocksReachBack
  <1>4. HeldUsable /\ BitmapExact /\ BlocksDisjoint
    BY DEF Init, HeldUsable, BitmapExact, BlocksDisjoint
  <1>5. QED
    BY <1>1, <1>2, <1>3, <1>4 DEF IInv

-----------------------------------------------------------------------------
\* pmm_init establishes the invariant on its first call, and keeps the types
\* on any.
LEMMA PmmInitStep == IInv /\ pmm_init => IInv'
  <1> SUFFICES ASSUME IInv, pmm_init PROVE IInv'
    OBVIOUS
  <1> USE DEF IInv
  <1>1. PICK n \in DOMAIN entries :
            /\ TakesBitmap(entries, n)
            /\ bitmap_base' = entries[n].base
            /\ entries' = Trim(entries, n)
    BY DEF pmm_init
  <1>2. PICK garbage \in [{k \in Bytes : k >= Tracked} -> {0, 1}] :
            bitmap' = [k \in Bytes |-> IF k \in Usable(entries') THEN 0
                                       ELSE IF k < Tracked THEN 1 ELSE garbage[k]]
    BY DEF pmm_init
  <1>3. inits' = inits + 1 /\ holds' = holds /\ inits \in 0 .. MaxInits
        /\ inits < MaxInits /\ MaxInits \in Nat
    BY MapAssumption DEF pmm_init, TypeOK
  <1>4. entries \in Seq(Entry) /\ HasRoom(entries[n])
    BY <1>1 DEF TypeOK, TakesBitmap
  <1>5. entries' \in Seq(Entry) /\ bitmap_base' \in Nat
    BY <1>1, <1>4, TrimShrinks
  <1>6. /\ Usable(entries') \subseteq Usable(MemMap)
        /\ Counted(entries') \subseteq Counted(MemMap)
    BY <1>1, <1>4, TrimTakes DEF Placed
  <1>7. TypeOK'
    <2>1. bitmap' \in [Bytes -> {0, 1}]
      <3>1. \A k \in Bytes : k >= Tracked \/ k < Tracked
        BY SizesFit
      <3>2. QED
        BY <1>2, <3>1
    <2>2. /\ Cardinality(Usable(entries')) \in Nat
          /\ Cardinality(Counted(entries')) \in Nat
      BY <1>6, MapAssumption, FS_Subset, FS_CardinalityType
    <2>3. free_pages_global' \in Int /\ total_pages_global' \in Int
      BY <2>2 DEF pmm_init, TypeOK
    <2>4. inits' \in 0 .. MaxInits /\ pmm_init_' \in BOOLEAN
      BY <1>3 DEF pmm_init, TypeOK
    <2>5. QED
      BY <1>3, <1>5, <2>1, <2>3, <2>4 DEF TypeOK
  <1>8. BlocksReachBack'
    BY <1>3 DEF BlocksReachBack
  <1>9. CASE inits # 0
    <2>1. inits' # 0 /\ inits' # 1
      BY <1>3, <1>9
    <2>2. QED
      BY <2>1, <1>6, <1>7, <1>8
      DEF Placed, HeldUsable, BitmapExact, BlocksDisjoint
  <1>10. CASE inits = 0
    <2>1. entries = MemMap /\ \A o \in Owners : holds'[o] = {}
      BY <1>3, <1>10 DEF Placed
    <2>2. Held' = {}
      BY <2>1 DEF Held
    <2>3. Placed'
      <3>1. (bitmap_base' .. bitmap_base' + BitmapPages - 1)
                \cap Usable(entries') = {}
        BY <1>1, <1>4, <2>1, BitmapSetAside
      <3>2. bitmap_base' + BitmapPages <= Tracked
        BY <1>1, <2>1, MapAssumption
      <3>3. QED
        BY <1>3, <1>6, <1>10, <3>1, <3>2 DEF Placed
    <2>4. BitmapExact'
      <3>1. ASSUME NEW p \in Bytes, p < Tracked
            PROVE  bitmap'[p] = 0 <=> p \in Usable(entries')
        BY <1>2, <3>1
      <3>2. QED
        BY <2>2, <3>1 DEF BitmapExact
    <2>5. BlocksDisjoint' /\ HeldUsable'
      BY <2>1, <2>2 DEF BlocksDisjoint, HeldUsable
    <2>6. QED
      BY <1>7, <1>8, <2>3, <2>4, <2>5
  <1>11. QED
    BY <1>9, <1>10

-----------------------------------------------------------------------------
\* The pages that are handed out can be counted.
LEMMA BlocksFinite ==
    ASSUME NEW h \in [Owners -> SUBSET (0 .. bitmap_size + MaxAlloc - 2)]
    PROVE  /\ IsFiniteSet(UNION {h[o] : o \in Owners})
           /\ \A o \in Owners : IsFiniteSet(h[o])
  <1> DEFINE pages == 0 .. bitmap_size + MaxAlloc - 2
  <1>1. IsFiniteSet(pages)
    <2>1. bitmap_size + MaxAlloc - 2 \in Int
      BY SizesFit, MapAssumption
    <2>2. QED
      BY <2>1, FS_Interval
  <1>2. UNION {h[o] : o \in Owners} \subseteq pages /\ \A o \in Owners : h[o] \subseteq pages
    OBVIOUS
  <1> HIDE DEF pages
  <1>3. QED
    BY <1>1, <1>2, FS_Subset

-----------------------------------------------------------------------------
\* No byte that decides over a tracked page lies in a page that is handed out
\* or whose own byte is clear.
LEMMA TrackedBytesSafe ==
    ASSUME IInv, inits = 1, NEW k \in Bytes, k < Tracked
    PROVE  /\ Home(k) \notin Held
           /\ Home(k) \in Bytes => bitmap[Home(k)] # 0
  <1>1. k \in Nat /\ bitmap_base \in Nat
    BY SizesFit DEF IInv, TypeOK
  <1>2. Home(k) \in bitmap_base .. bitmap_base + BitmapPages - 1
    BY <1>1, TrackedHome
  <1>3. Home(k) \notin Usable(entries) /\ Home(k) < Tracked
    BY <1>1, <1>2, SizesFit DEF IInv, Placed
  <1>4. QED
    BY <1>3 DEF IInv, HeldUsable, BitmapExact

\* The run that pmm_alloc takes: free, within the bytes, reaching back to the
\* pages the scan starts from, and met by no other block.
LEMMA RunIsFree ==
    ASSUME IInv, inits = 1, NEW size \in 1 .. MaxAlloc,
           NEW start \in Candidates(bitmap, size)
    PROVE  /\ Run(start, size) \cap Held = {}
           /\ \A p \in Run(start, size) : p < Tracked => p \in Usable(entries)
  <1>1. /\ start \in 0 .. bitmap_size - 1 /\ bitmap_size \in Nat \ {0}
        /\ MaxAlloc \in Nat \ {0} /\ size \in Nat \ {0} /\ size <= MaxAlloc
        /\ Tracked \in Nat /\ bitmap_size <= Tracked
        /\ AllFree(bitmap, start, size)
    BY SizesFit, MapAssumption DEF Candidates
  <1>2. \A p \in Run(start, size) : p \in Bytes /\ p \in Nat /\ bitmap[p] = 0
    BY <1>1 DEF Run, Bytes, AllFree
  <1>3. \A p \in Run(start, size) : p < Tracked => p \in Usable(entries) \ Held
    BY <1>2 DEF IInv, BitmapExact
  <1>4. ASSUME NEW p \in Run(start, size), p >= Tracked, NEW o \in Owners,
               p \in holds[o]
        PROVE  FALSE
    <2>1. p >= bitmap_size
      BY <1>1, <1>2, <1>4
    <2>2. bitmap_size - 1 \in Run(start, size)
      BY <1>1, <1>2, <2>1 DEF Run
    <2>3. bitmap_size - 1 \in Held
      BY <1>4, <2>1 DEF IInv, BlocksReachBack, Held
    <2>4. bitmap_size - 1 < Tracked
      BY <1>1
    <2>5. QED
      BY <1>3, <2>2, <2>3, <2>4
  <1>5. \A p \in Run(start, size) : p < Tracked \/ p >= Tracked
    BY <1>1, <1>2
  <1>6. QED
    BY <1>3, <1>4, <1>5 DEF Held

\* Handing out a block.
LEMMA PmmAllocStep ==
    ASSUME NEW o \in Owners, NEW size \in 1 .. MaxAlloc, NEW zeroed \in BOOLEAN,
           IInv, pmm_alloc(o, size, zeroed)
    PROVE  IInv'
  <1>1. PICK start \in Candidates(bitmap, size) :
            /\ bitmap' = IF zeroed
                         THEN Zero(Mark(bitmap, Run(start, size), 1), Run(start, size))
                         ELSE Mark(bitmap, Run(start, size), 1)
            /\ holds' = [holds EXCEPT ![o] = Run(start, size)]
    BY DEF pmm_alloc
  <1> DEFINE pages == Run(start, size)
  <1>2. /\ UNCHANGED <<entries, bitmap_base, total_pages_global, pmm_init_, inits>>
        /\ inits > 0 /\ holds[o] = {}
        /\ free_pages_global' = free_pages_global - size
    BY DEF pmm_alloc
  <1>3. /\ start \in 0 .. bitmap_size - 1 /\ bitmap_size \in Nat \ {0}
        /\ MaxAlloc \in Nat \ {0} /\ size \in Nat \ {0} /\ size <= MaxAlloc
        /\ AllFree(bitmap, start, size)
    BY SizesFit, MapAssumption DEF Candidates
  <1>4. pages \in SUBSET (0 .. bitmap_size + MaxAlloc - 2) /\ pages \subseteq Bytes
    BY <1>3 DEF Run, Bytes
  <1>5. bitmap \in [Bytes -> {0, 1}] /\ bitmap' \in [Bytes -> {0, 1}]
    BY <1>1 DEF Mark, Zero, IInv, TypeOK
  <1>6. TypeOK'
    <2>1. free_pages_global' \in Int
      BY <1>2, <1>3 DEF IInv, TypeOK
    <2>2. holds' \in [Owners -> SUBSET (0 .. bitmap_size + MaxAlloc - 2)]
      BY <1>1, <1>4 DEF IInv, TypeOK
    <2>3. QED
      BY <1>2, <1>5, <2>1, <2>2 DEF IInv, TypeOK
  <1>7. Placed'
    BY <1>2 DEF IInv, Placed, TypeOK
  <1>8. holds'[o] = pages /\ \A other \in Owners \ {o} : holds'[other] = holds[other]
    BY <1>1 DEF IInv, TypeOK
  <1>9. Held' = Held \cup pages
    BY <1>2, <1>8 DEF Held
  <1>10. BlocksReachBack'
    <2>1. ASSUME NEW p \in pages, p >= bitmap_size PROVE bitmap_size - 1 \in pages
      BY <1>3, <2>1 DEF Run
    <2>2. QED
      BY <1>8, <2>1 DEF IInv, BlocksReachBack
  <1>11. CASE inits # 1
    BY <1>2, <1>6, <1>7, <1>10, <1>11
    DEF IInv, HeldUsable, BitmapExact, BlocksDisjoint
  <1>12. CASE inits = 1
    <2>1. /\ pages \cap Held = {}
          /\ \A p \in pages : p < Tracked => p \in Usable(entries)
      BY <1>12, RunIsFree
    <2>2. HeldUsable'
      BY <1>2, <1>9, <2>1 DEF IInv, HeldUsable
    <2>3. BlocksDisjoint'
      BY <1>8, <2>1, <1>12 DEF IInv, BlocksDisjoint, Held
    <2>4. ASSUME NEW p \in Bytes, p < Tracked
          PROVE  bitmap'[p] = IF p \in pages THEN 1 ELSE bitmap[p]
      <3>1. Home(p) \notin pages
        BY <1>3, <1>4, <1>12, <2>4, TrackedBytesSafe DEF AllFree
      <3>2. QED
        BY <1>1, <2>4, <3>1 DEF Mark, Zero
    <2>5. BitmapExact'
      BY <1>2, <1>5, <1>9, <1>12, <2>4 DEF IInv, BitmapExact
    <2>6. QED
      BY <1>6, <1>7, <1>10, <2>2, <2>3, <2>5 DEF IInv
  <1>13. QED
    BY <1>11, <1>12

\* Taking a block back.
LEMMA PmmFreeStep ==
    ASSUME NEW o \in Owners, IInv, pmm_free(o) PROVE IInv'
  <1>1. /\ UNCHANGED <<entries, bitmap_base, total_pages_global, pmm_init_, inits>>
        /\ bitmap' = Mark(bitmap, holds[o], 0)
        /\ free_pages_global' = free_pages_global + Cardinality(holds[o])
        /\ holds' = [holds EXCEPT ![o] = {}]
        /\ holds[o] # {}
    BY DEF pmm_free
  <1>2. bitmap \in [Bytes -> {0, 1}] /\ bitmap' \in [Bytes -> {0, 1}]
    BY <1>1 DEF Mark, IInv, TypeOK
  <1>3. TypeOK'
    <2>1. free_pages_global' \in Int
      <3>1. IsFiniteSet(holds[o])
        BY BlocksFinite DEF IInv, TypeOK
      <3>2. Cardinality(holds[o]) \in Nat
        BY <3>1, FS_CardinalityType
      <3>3. QED
        BY <1>1, <3>2 DEF IInv, TypeOK
    <2>2. holds' \in [Owners -> SUBSET (0 .. bitmap_size + MaxAlloc - 2)]
      BY <1>1 DEF IInv, TypeOK
    <2>3. QED
      BY <1>1, <1>2, <2>1, <2>2 DEF IInv, TypeOK
  <1>4. holds'[o] = {} /\ \A other \in Owners \ {o} : holds'[other] = holds[other]
    BY <1>1 DEF IInv, TypeOK
  <1>5. Placed' /\ BlocksReachBack'
    <2>1. Placed'
      BY <1>1 DEF IInv, Placed
    <2>2. BlocksReachBack'
      BY <1>4 DEF IInv, BlocksReachBack
    <2>3. QED
      BY <2>1, <2>2
  <1>6. CASE inits # 1
    BY <1>1, <1>3, <1>5, <1>6
    DEF IInv, HeldUsable, BitmapExact, BlocksDisjoint
  <1>7. CASE inits = 1
    <2>1. Held' = Held \ holds[o]
      BY <1>4, <1>7 DEF IInv, Held, BlocksDisjoint
    <2>2. HeldUsable' /\ BlocksDisjoint'
      BY <1>1, <1>4, <1>7, <2>1 DEF IInv, HeldUsable, BlocksDisjoint
    <2>3. \A p \in holds[o] : p < Tracked => p \in Usable(entries)
      BY <1>7 DEF IInv, HeldUsable, Held
    <2>4. \A p \in Bytes : bitmap'[p] = IF p \in holds[o] THEN 0 ELSE bitmap[p]
      BY <1>1 DEF Mark
    <2>5. BitmapExact'
      BY <1>1, <1>7, <2>1, <2>3, <2>4 DEF IInv, BitmapExact, Held
    <2>6. QED
      BY <1>3, <1>5, <2>2, <2>5 DEF IInv
  <1>8. QED
    BY <1>6, <1>7

\* An owner writing into its pages.
LEMMA OwnerWritesStep ==
    ASSUME NEW o \in Owners, IInv, OwnerWrites(o) PROVE IInv'
  <1>1. PICK k \in Bytes, value \in {0, 1} :
            Home(k) \in holds[o] /\ bitmap' = [bitmap EXCEPT ![k] = value]
    BY DEF OwnerWrites
  <1>2. UNCHANGED <<entries, bitmap_base, free_pages_global,
                    total_pages_global, pmm_init_, inits, holds>>
    BY DEF OwnerWrites
  <1>3. bitmap \in [Bytes -> {0, 1}] /\ bitmap' \in [Bytes -> {0, 1}]
    BY <1>1 DEF IInv, TypeOK
  <1>4. TypeOK'
    BY <1>2, <1>3 DEF IInv, TypeOK
  <1>5. Placed' /\ BlocksReachBack' /\ HeldUsable' /\ BlocksDisjoint'
    BY <1>2 DEF IInv, Placed, BlocksReachBack, HeldUsable, BlocksDisjoint, Held
  <1>6. ASSUME inits = 1, NEW p \in Bytes, p < Tracked
        PROVE  bitmap'[p] = bitmap[p]
    <2>1. p # k
      BY <1>1, <1>6, TrackedBytesSafe DEF Held
    <2>2. QED
      BY <1>1, <1>3, <2>1
  <1>7. BitmapExact'
    BY <1>2, <1>6 DEF IInv, BitmapExact, Held
  <1>8. QED
    BY <1>4, <1>5, <1>7 DEF IInv

-----------------------------------------------------------------------------
LEMMA StepIInv == IInv /\ [Next]_vars => IInv'
  <1> SUFFICES ASSUME IInv, [Next]_vars PROVE IInv'
    OBVIOUS
  <1>1. CASE pmm_init
    BY <1>1, PmmInitStep
  <1>2. ASSUME NEW o \in Owners, NEW size \in 1 .. MaxAlloc,
               NEW zeroed \in BOOLEAN, pmm_alloc(o, size, zeroed)
        PROVE  IInv'
    BY <1>2, PmmAllocStep
  <1>3. ASSUME NEW o \in Owners, pmm_free(o) PROVE IInv'
    BY <1>3, PmmFreeStep
  <1>4. ASSUME NEW o \in Owners, OwnerWrites(o) PROVE IInv'
    BY <1>4, OwnerWritesStep
  <1>5. CASE UNCHANGED vars
    BY <1>5 DEF IInv, vars, TypeOK, Placed, BlocksReachBack, HeldUsable,
                BitmapExact, BlocksDisjoint, Held
  <1>6. QED
    BY <1>1, <1>2, <1>3, <1>4, <1>5 DEF Next

LEMMA Invariance == Spec => []IInv
  BY InitIInv, StepIInv, PTL DEF Spec

-----------------------------------------------------------------------------
\* Every variable keeps its type, and every block ends where the scan can
\* reach (pmm.c:96-128).
THEOREM PmmTyping == Spec => []TypeOK
  <1>1. IInv => TypeOK
    BY DEF IInv
  <1>2. QED
    BY <1>1, Invariance, PTL

\* No page is handed out twice, whatever the owners write (pmm.c:93-130).
THEOREM NoPageTwice == Spec => []BlocksDisjoint
  <1>1. IInv => BlocksDisjoint
    BY DEF IInv
  <1>2. QED
    BY <1>1, Invariance, PTL

\* The bitmap's own bytes say exactly which tracked pages are free.
THEOREM BitmapStaysExact == Spec => []BitmapExact
  <1>1. IInv => BitmapExact
    BY DEF IInv
  <1>2. QED
    BY <1>1, Invariance, PTL

\* A tracked page that is handed out is usable memory, is not page 0 and is
\* not one of the bitmap's.
THEOREM TrackedBlocksAreMemory == Spec => []BlocksAreMemory
  <1>1. IInv => BlocksAreMemory
    BY MapAssumption DEF IInv, BlocksAreMemory, HeldUsable, Placed
  <1>2. QED
    BY <1>1, Invariance, PTL

-----------------------------------------------------------------------------
\* Moving a block in or out moves the count of free pages by its size.
LEMMA StepCount ==
    IInv /\ IInv' /\ FreeCountBalances /\ Placed /\ [Next]_vars => FreeCountBalances'
  <1> SUFFICES ASSUME IInv, IInv', FreeCountBalances, [Next]_vars, inits' = 1
               PROVE  free_pages_global' + Cardinality(Held')
                            = Cardinality(Usable(entries'))
    BY DEF FreeCountBalances
  <1> USE DEF FreeCountBalances
  <1>1. /\ IsFiniteSet(Held) /\ IsFiniteSet(Held')
        /\ \A o \in Owners : IsFiniteSet(holds[o])
        /\ free_pages_global \in Int /\ inits \in Nat
    <2>1. /\ holds \in [Owners -> SUBSET (0 .. bitmap_size + MaxAlloc - 2)]
          /\ holds' \in [Owners -> SUBSET (0 .. bitmap_size + MaxAlloc - 2)]
          /\ free_pages_global \in Int /\ inits \in Nat
      BY MapAssumption DEF IInv, TypeOK
    <2>2. QED
      BY <2>1, BlocksFinite DEF Held
  <1>2. Cardinality(Held) \in Nat /\ Cardinality(Held') \in Nat
    BY <1>1, FS_CardinalityType
  <1>3. CASE pmm_init
    <2>1. inits = 0
      BY <1>1, <1>3 DEF pmm_init
    <2>2. free_pages_global = 0 /\ Held' = {}
      BY <1>3, <2>1 DEF pmm_init, IInv, Placed, Held
    <2>3. Cardinality(Held') = 0
      BY <2>2, FS_EmptySet
    <2>4. Usable(entries') \subseteq Usable(MemMap)
      BY DEF IInv, Placed
    <2>5. Cardinality(Usable(entries')) \in Nat
      BY <2>4, MapAssumption, FS_Subset, FS_CardinalityType
    <2>6. QED
      BY <1>3, <2>2, <2>3, <2>5 DEF pmm_init
  <1>4. ASSUME NEW o \in Owners, NEW size \in 1 .. MaxAlloc,
               NEW zeroed \in BOOLEAN, pmm_alloc(o, size, zeroed)
        PROVE  free_pages_global' + Cardinality(Held')
                    = Cardinality(Usable(entries'))
    <2>1. PICK start \in Candidates(bitmap, size) :
              holds' = [holds EXCEPT ![o] = Run(start, size)]
      BY <1>4 DEF pmm_alloc
    <2>2. /\ inits = 1 /\ holds[o] = {} /\ entries' = entries
          /\ free_pages_global' = free_pages_global - size
      BY <1>4 DEF pmm_alloc
    <2>3. start \in Nat /\ size \in Nat \ {0}
      BY SizesFit, MapAssumption DEF Candidates
    <2>4. Held' = Held \cup Run(start, size)
      BY <2>1, <2>2 DEF Held, IInv, TypeOK
    <2>5. Held \cap Run(start, size) = {}
      BY <2>2, RunIsFree
    <2>6. IsFiniteSet(Run(start, size)) /\ Cardinality(Run(start, size)) = size
      BY <2>3, FS_Interval DEF Run
    <2>7. Cardinality(Held') = Cardinality(Held) + size
      <3>1. Cardinality(Held') = Cardinality(Held) + Cardinality(Run(start, size))
                                    - Cardinality(Held \cap Run(start, size))
        BY <1>1, <2>4, <2>6, FS_Union
      <3>2. Cardinality(Held \cap Run(start, size)) = 0
        BY <2>5, FS_EmptySet
      <3>3. QED
        BY <1>2, <2>3, <2>6, <3>1, <3>2
    <2>8. QED
      BY <1>1, <1>2, <2>2, <2>3, <2>7
  <1>5. ASSUME NEW o \in Owners, pmm_free(o)
        PROVE  free_pages_global' + Cardinality(Held')
                    = Cardinality(Usable(entries'))
    <2>1. /\ holds' = [holds EXCEPT ![o] = {}] /\ entries' = entries /\ inits = 1
          /\ free_pages_global' = free_pages_global + Cardinality(holds[o])
      BY <1>5 DEF pmm_free
    <2>2. Held = Held' \cup holds[o] /\ Held' \cap holds[o] = {}
      BY <2>1 DEF Held, IInv, TypeOK, BlocksDisjoint
    <2>3. IsFiniteSet(holds[o])
      BY <1>1
    <2>4. Cardinality(holds[o]) \in Nat
      BY <2>3, FS_CardinalityType
    <2>5. Cardinality(Held) = Cardinality(Held') + Cardinality(holds[o])
      <3>1. Cardinality(Held) = Cardinality(Held') + Cardinality(holds[o])
                                    - Cardinality(Held' \cap holds[o])
        BY <1>1, <2>2, <2>3, FS_Union
      <3>2. Cardinality(Held' \cap holds[o]) = 0
        BY <2>2, FS_EmptySet
      <3>3. QED
        BY <1>2, <2>4, <3>1, <3>2
    <2>6. QED
      BY <1>1, <1>2, <2>1, <2>4, <2>5
  <1>6. ASSUME NEW o \in Owners, OwnerWrites(o)
        PROVE  free_pages_global' + Cardinality(Held')
                    = Cardinality(Usable(entries'))
    BY <1>6 DEF OwnerWrites, Held
  <1>7. CASE UNCHANGED vars
    BY <1>7 DEF vars, Held
  <1>8. QED
    BY <1>3, <1>4, <1>5, <1>6, <1>7 DEF Next

\* available_memory and the pages handed out always add up to what pmm_init
\* counted (pmm.c:81, 114, 140).
THEOREM CountBalances == Spec => []FreeCountBalances
  <1>1. Init => FreeCountBalances
    BY DEF Init, FreeCountBalances
  <1>2. QED
    <2>1. IInv => Placed
      BY DEF IInv
    <2>2. QED
      BY <1>1, <2>1, StepCount, Invariance, PTL DEF Spec

-----------------------------------------------------------------------------
\* With the one call of pmm_init that kernel.c makes, the allocator implements
\* the contract of PageContract.
THEOREM ContractHolds == ASSUME MaxInits = 1 PROVE Spec => ImplementsContract
  <1>1. Init => Contract!Init
    BY DEF Init, Contract!Init
  <1>2. IInv /\ IInv' /\ [Next]_vars => [Contract!Next]_holds
    <2> SUFFICES ASSUME IInv, IInv', [Next]_vars PROVE [Contract!Next]_holds
      OBVIOUS
    <2>1. CASE pmm_init
      BY <2>1 DEF pmm_init
    <2>2. ASSUME NEW o \in Owners, NEW size \in 1 .. MaxAlloc,
                 NEW zeroed \in BOOLEAN, pmm_alloc(o, size, zeroed)
          PROVE  Contract!HandOut(o)
      <3>1. inits = 1
        BY <2>2 DEF pmm_alloc, IInv, TypeOK
      <3>2. PICK start \in Candidates(bitmap, size) :
                holds' = [holds EXCEPT ![o] = Run(start, size)]
        BY <2>2 DEF pmm_alloc
      <3>3. Run(start, size) \cap Held = {}
        BY <3>1, RunIsFree
      <3>4. holds[o] = {} /\ holds'[o] = Run(start, size)
            /\ holds'[o] \subseteq 0 .. bitmap_size + MaxAlloc - 2
        BY <2>2, <3>2 DEF pmm_alloc, IInv, TypeOK
      <3>5. QED
        BY <3>2, <3>3, <3>4 DEF Contract!HandOut, Held
    <2>3. ASSUME NEW o \in Owners, pmm_free(o) PROVE Contract!TakeBack(o)
      BY <2>3 DEF pmm_free, Contract!TakeBack
    <2>4. ASSUME NEW o \in Owners, OwnerWrites(o) PROVE UNCHANGED holds
      BY <2>4 DEF OwnerWrites
    <2>5. QED
      BY <2>1, <2>2, <2>3, <2>4 DEF Next, vars, Contract!Next
  <1>3. QED
    BY <1>1, <1>2, Invariance, PTL DEF Spec, ImplementsContract, Contract!Spec
=============================================================================

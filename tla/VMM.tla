-------------------------------- MODULE VMM ---------------------------------
(***************************************************************************)
(* Page tables, src/memory/vmm.c, on one processor: the tables in memory,  *)
(* CR3 and the translations the processor has cached.  A virtual address   *)
(* is the four indices virt2pte cuts it into; a table is named by its      *)
(* frame, a page of pmm_alloc, and 0 is NULL.  vmm.c returns no frame.     *)
(* Calls are whole steps, vmm_init goes slot by slot and page by page.     *)
(***************************************************************************)
EXTENDS Integers, Sequences, FiniteSets

CONSTANTS Maps,          \* the places a struct PageMap can be at
          Kernel,        \* kernel_pagemap
          Fanout,        \* entries of a table, 512 in the code
          UserSlots,     \* the first index of the higher half, 256
          Virts,         \* virtual addresses that calls name
          Touched,       \* those of them that the processor accesses
          Phys, Flags,   \* physical pages and flags that calls name
          Frames,        \* pages pmm_alloc can give in all
          InitMaps,      \* the pages vmm_init maps, a sequence of [virt, phys]
          MaxMaps        \* calls of new_pagemap

VARIABLES tables,        \* tables[f][i]: entry i of the table in frame f
          used,          \* the frames handed out are 1 .. used
          top,           \* top[m]: pagemap->top_level
          cr3,           \* the loaded table; 0 is the boot loader's
          tlb,           \* tlb[v]: the cached entry of v, Zero if there is none
          phase,         \* where vmm_init is: see TypeOK
          at,            \* its loop variable
          maps,          \* history: calls of new_pagemap so far
          shared,        \* history: every slot of the higher half got a table
          remapped,      \* history: addresses that could have gone stale
          halted         \* the page fault handler has run, it never returns

vars == <<tables, used, top, cr3, tlb, phase, at, maps, shared,
          remapped, halted>>

-----------------------------------------------------------------------------
Index == 0 .. Fanout - 1
High == UserSlots .. Fanout - 1
HighVirts == {v \in Virts : v[1] \in High}

NULL == 0
Frame == 1 .. Frames
Present == "P"
TableBits == {"P", "W", "U"}    \* 0b111
KernelBits == {"P", "W"}        \* 0x03

Entry == [phys : Frame, bits : {TableBits}]
         \cup [phys : Phys \cup {0}, bits : Flags \cup {{}, KernelBits}]
Zero == [phys |-> 0, bits |-> {}]

ASSUME VmmAssumption ==
    /\ Kernel \in Maps
    /\ Fanout \in Nat \ {0} /\ UserSlots \in 1 .. Fanout - 1
    /\ Virts \subseteq Index \X Index \X Index \X Index /\ Touched \subseteq Virts
    /\ Phys \subseteq Nat
    /\ \A f \in Flags : f \subseteq TableBits
    /\ Frames \in Nat /\ MaxMaps \in Nat
    /\ InitMaps \in Seq([virt : Virts, phys : Phys])

ZeroTable == [i \in Index |-> Zero]

Init ==
    /\ tables = [f \in Frame |-> ZeroTable] /\ used = 0
    /\ top = [m \in Maps |-> NULL] /\ cr3 = NULL
    /\ tlb = [v \in Virts |-> Zero]
    /\ phase = "off" /\ at = 0
    /\ maps = 0
    /\ shared = TRUE /\ remapped = {} /\ halted = FALSE

-----------------------------------------------------------------------------
\* get_next_level(t, i, false), and NULL for a NULL table, where the callers
\* have returned already.
get_next_level(t, i) ==
    IF t # NULL /\ Present \in tables[t][i].bits THEN tables[t][i].phys ELSE NULL

\* virt2pte(m, virt, false) from a top-level table t: the table of the last
\* level, or NULL.
Pml1(t, v) == get_next_level(get_next_level(get_next_level(t, v[1]), v[2]), v[3])

\* The entry of v under t, Zero where a level is missing; virt2phys returns
\* its phys.
Walk(t, v) == IF Pml1(t, v) = NULL THEN Zero ELSE tables[Pml1(t, v)][v[4]]

\* How many pages pmm_alloc has for the next n requests: others take pages and
\* return them, so it can run out at any of them.
Supply(n) == {k \in 0 .. n : k <= Frames - used}

\* A descent that makes tables: w.at is the level reached, NULL if it failed,
\* w.left the pages pmm_alloc still has.
Start(t, supply) == [tables |-> tables, used |-> used, at |-> t, left |-> supply]

\* Mutant: the new table is not entered in the one above it.
DownUnlinked(w, i) ==
    IF w.at = NULL THEN w
    ELSE IF Present \in w.tables[w.at][i].bits
      THEN [w EXCEPT !.at = w.tables[w.at][i].phys]
    ELSE IF w.left = 0 THEN [w EXCEPT !.at = NULL]
    ELSE [w EXCEPT !.used = @ + 1, !.left = @ - 1, !.at = w.used + 1]

\* get_next_level(w.at, i, true).  pmm_alloc zeroes the table.
Down(w, i) ==
    IF w.at = NULL THEN w
    ELSE IF Present \in w.tables[w.at][i].bits
      THEN [w EXCEPT !.at = w.tables[w.at][i].phys]
    ELSE IF w.left = 0 THEN [w EXCEPT !.at = NULL]
    ELSE [tables |-> [w.tables EXCEPT
                        ![w.at][i] = [phys |-> w.used + 1, bits |-> TableBits],
                        ![w.used + 1] = ZeroTable],
          used |-> w.used + 1, at |-> w.used + 1, left |-> w.left - 1]

\* The three descents of map_page, and of virt2pte(m, v, true).
Descend(m, v, supply) == Down(Down(Down(Start(top[m], supply), v[1]), v[2]), v[3])

-----------------------------------------------------------------------------
\* Changing a present entry of v in map m leaves the cached one behind if the
\* processor may have loaded it: m is loaded, or v is in the shared half.
MayGoStale(m, v) ==
    {v} \cap {u \in Touched : /\ Present \in Walk(top[m], u).bits
                              /\ cr3 = top[m] \/ u \in HighVirts}

\* Mutant: no invlpg.
FlushNothing(m, v) ==
    IF cr3 = top[m]
      THEN tlb' = tlb /\ remapped' = remapped \ {v}
      ELSE tlb' = tlb /\ remapped' = remapped \cup MayGoStale(m, v)

\* invlpg(virt) if the map is the loaded one, in unmap_page and flag_page.
Flush(m, v) ==
    IF cr3 = top[m]
      THEN tlb' = [tlb EXCEPT ![v] = Zero] /\ remapped' = remapped \ {v}
      ELSE tlb' = tlb /\ remapped' = remapped \cup MayGoStale(m, v)

Ready(m) == phase = "up" /\ ~halted /\ top[m] # NULL

\* *pte_p = e at the end of a descent, nothing if it failed.
Store(w, v, e) == IF w.at = NULL THEN w.tables ELSE [w.tables EXCEPT ![w.at][v[4]] = e]

\* map_page(m, v, p, flags): never an invlpg, not even over a live entry.  A
\* descent that fails returns and keeps the tables it has made.
map_page(m, v, p, flags) ==
    /\ Ready(m)
    /\ \E supply \in Supply(3) :
        LET w == Descend(m, v, supply) IN
        /\ tables' = Store(w, v, [phys |-> p, bits |-> flags])
        /\ used' = w.used
    /\ remapped' = remapped \cup MayGoStale(m, v)
    /\ UNCHANGED <<top, cr3, tlb, phase, at, maps, shared, halted>>

\* unmap_page(m, v): with no table for v it stores through NULL, which is not
\* mapped, and the handler of the page fault never returns.
unmap_page(m, v) ==
    /\ Ready(m)
    /\ IF Pml1(top[m], v) = NULL
         THEN halted' = TRUE /\ UNCHANGED <<tables, tlb, remapped>>
         ELSE /\ tables' = [tables EXCEPT ![Pml1(top[m], v)][v[4]] = Zero]
              /\ Flush(m, v)
              /\ UNCHANGED halted
    /\ UNCHANGED <<used, top, cr3, phase, at, maps, shared>>

\* *pte_p &= ~0xfff; *pte_p |= flags.
Flagged(e, flags) == [e EXCEPT !.bits = flags]

\* flag_page(m, v, flags): makes the tables of an address that has none, which
\* gives it physical page 0.
flag_page(m, v, flags) ==
    /\ Ready(m)
    /\ \E supply \in Supply(3) :
        LET w == Descend(m, v, supply) IN
        /\ tables' = Store(w, v, Flagged(Walk(top[m], v), flags))
        /\ used' = w.used
        /\ IF w.at = NULL THEN UNCHANGED <<tlb, remapped>> ELSE Flush(m, v)
    /\ UNCHANGED <<top, cr3, phase, at, maps, shared, halted>>

\* Mutant: the copy starts at entry 0.
CopyAll(t) == tables[t]

\* The copy of new_pagemap, entries 256 to 511 of the kernel's table.
CopyHigh(t) == [i \in Index |-> IF i \in High THEN tables[t][i] ELSE Zero]

\* new_pagemap() stores the new table through "pa", which it never sets: that
\* hits some map, in use or not (a store elsewhere is not modelled) or faults.
\* Without memory it fills the table at NULL, which faults.
new_pagemap ==
    /\ phase = "up" /\ ~halted
    /\ maps < MaxMaps /\ maps' = maps + 1
    /\ \/ /\ used < Frames
          /\ used' = used + 1
          /\ tables' = [tables EXCEPT ![used'] = CopyHigh(top[Kernel])]
          /\ \/ \E pa \in Maps : top' = [top EXCEPT ![pa] = used'] /\ UNCHANGED halted
             \/ halted' = TRUE /\ UNCHANGED top
       \/ halted' = TRUE /\ UNCHANGED <<tables, used, top>>
    /\ UNCHANGED <<cr3, tlb, phase, at, shared, remapped>>

\* mov to CR3, which empties the TLB (no entry is global).
Load(t) == cr3' = t /\ tlb' = [v \in Virts |-> Zero] /\ remapped' = {}

switch_to(m) ==
    /\ Ready(m)
    /\ Load(top[m])
    /\ UNCHANGED <<tables, used, top, phase, at, maps, shared, halted>>

\* The processor translates v and caches the entry.
Access(v) ==
    /\ phase = "up" /\ ~halted
    /\ tlb[v] = Zero /\ Present \in Walk(cr3, v).bits
    /\ tlb' = [tlb EXCEPT ![v] = Walk(cr3, v)]
    /\ UNCHANGED <<tables, used, top, cr3, phase, at, maps, shared,
                   remapped, halted>>

-----------------------------------------------------------------------------
\* vmm_init(), called once: the kernel's top-level table.  Without memory it
\* returns and the boot goes on with the boot loader's tables.
vmm_init ==
    /\ phase = "off"
    /\ \/ /\ used < Frames
          /\ used' = used + 1
          /\ tables' = [tables EXCEPT ![used'] = ZeroTable]
          /\ top' = [top EXCEPT ![Kernel] = used']
          /\ phase' = "share" /\ at' = UserSlots
       \/ phase' = "failed" /\ UNCHANGED <<tables, used, top, at>>
    /\ UNCHANGED <<cr3, tlb, maps, shared, remapped, halted>>

\* Mutant: the table of a slot is not entered.
SlotUnlinked(i, supply) == DownUnlinked(Start(top[Kernel], supply), i)

\* get_next_level(kernel_pagemap.top_level, i, true).
Slot(i, supply) == Down(Start(top[Kernel], supply), i)

\* One slot of the higher half gets its table; a failure is not noticed.
ShareSlot ==
    /\ phase = "share"
    /\ \E supply \in Supply(1) :
        LET w == Slot(at, supply) IN
        /\ tables' = w.tables /\ used' = w.used
        /\ shared' = (shared /\ w.at # NULL)
    /\ IF at + 1 < Fanout THEN at' = at + 1 /\ UNCHANGED phase
                          ELSE at' = 1 /\ phase' = "map"
    /\ UNCHANGED <<top, cr3, tlb, maps, remapped, halted>>

\* One page of the kernel, of the direct maps or of memory above 4 GiB.
MapNext ==
    /\ phase = "map" /\ at <= Len(InitMaps)
    /\ \E supply \in Supply(3) :
        LET v == InitMaps[at].virt
            w == Descend(Kernel, v, supply)
        IN /\ tables' = Store(w, v, [phys |-> InitMaps[at].phys, bits |-> KernelBits])
           /\ used' = w.used
    /\ at' = at + 1
    /\ UNCHANGED <<top, cr3, tlb, phase, maps, shared, remapped, halted>>

\* switch_to(&kernel_pagemap), the end of vmm_init.
SwitchToKernel ==
    /\ phase = "map" /\ at > Len(InitMaps)
    /\ Load(top[Kernel])
    /\ phase' = "up" /\ at' = 0
    /\ UNCHANGED <<tables, used, top, maps, shared, halted>>

Next ==
    \/ vmm_init \/ ShareSlot \/ MapNext \/ SwitchToKernel
    \/ new_pagemap
    \/ \E m \in Maps : switch_to(m)
    \/ \E m \in Maps, v \in Virts :
        \/ \E p \in Phys, flags \in Flags : map_page(m, v, p, flags)
        \/ unmap_page(m, v)
        \/ \E flags \in Flags : flag_page(m, v, flags)
    \/ \E v \in Touched : Access(v)

Spec == Init /\ [][Next]_vars

-----------------------------------------------------------------------------
TypeOK ==
    /\ tables \in [Frame -> [Index -> Entry]] /\ used \in 0 .. Frames
    /\ top \in [Maps -> 0 .. used] /\ cr3 \in 0 .. used
    /\ tlb \in [Virts -> Entry]
    /\ phase \in {"off", "share", "map", "up", "failed"}
    /\ at \in 0 .. Fanout + Len(InitMaps)
    /\ maps \in 0 .. MaxMaps
    /\ shared \in BOOLEAN /\ remapped \subseteq Virts /\ halted \in BOOLEAN

Live == {m \in Maps : phase = "up" /\ top[m] # NULL}

SameHighSlots ==
    \A m \in Live, i \in High : tables[top[m]][i] = tables[top[Kernel]][i]

\* If vmm_init found a table for every slot of the higher half, all maps agree
\* on these slots for good: no later call on any one map, not even one that
\* runs out of memory half way, gives it a slot of its own (vmm.c:42-45,
\* 216-223).
HigherHalfShared == shared => SameHighSlots

\* A cached translation is that of the tables, except after map_page replaced
\* a present entry, or a map that is not loaded changed one in the shared half:
\* unmap_page and flag_page of the loaded map never leave a stale one, nor does
\* new_pagemap, whatever map it hits (vmm.c:119-123, 134-138, 189).
TlbCoherent ==
    \A v \in Virts \ remapped : tlb[v] # Zero => tlb[v] = Walk(cr3, v)

\* The page maps are functions from addresses to entries, as AddressSpace
\* says, if the higher half is shared; tables that a failed call leaves behind
\* do not show.
InUse == shared /\ Live # {}
Space == INSTANCE AddressSpace WITH
    Shared <- HighVirts, Entries <- Entry, None <- Zero,
    live <- IF InUse THEN Live ELSE {},
    space <- [m \in Maps |-> [v \in Virts |->
                IF InUse /\ m \in Live THEN Walk(top[m], v) ELSE Zero]],
    Wanted <- [v \in Virts |-> {Zero} \cup
                {[phys |-> InitMaps[k].phys, bits |-> KernelBits] :
                    k \in {j \in DOMAIN InitMaps : InitMaps[j].virt = v}}]
ImplementsAddressSpace == Space!Spec

-----------------------------------------------------------------------------
\* vmm.c:217-219, "the higher half has to be shared amongst all address
\* spaces": also when memory runs out while vmm_init initialises it.
HigherHalfAlwaysShared == SameHighSlots
=============================================================================

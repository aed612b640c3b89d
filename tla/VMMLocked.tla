----------------------------- MODULE VMMLocked ------------------------------
(***************************************************************************)
(* map_page, flag_page and unmap_page of src/memory/vmm.c as several CPUs  *)
(* run them, access by access.  map_page holds the lock of its page map,   *)
(* the others hold none, and maps share the tables of the higher half      *)
(* under different locks.  Addresses, tables and entries are those of VMM; *)
(* acquire is LockContract's and may come back without the lock.           *)
(*                                                                         *)
(* The maps are there from the start, as vmm_init and new_pagemap leave    *)
(* them: one table for each slot of the higher half, in all of them.       *)
(***************************************************************************)
EXTENDS Integers, Sequences, FiniteSets

CONSTANTS CPUs,
          MapCount,            \* page maps; the first is kernel_pagemap
          Fanout, UserSlots,   \* entries of a table, and of these the user half
          Targets,             \* <<map, address>> pairs that calls name
          Phys, Flags,         \* pages and flags that they name
          Frames,              \* pages pmm_alloc can give in all
          MaxCalls             \* calls in all (bound)

Maps == 1 .. MapCount
Index == 0 .. Fanout - 1
High == UserSlots .. Fanout - 1
Virts == {t[2] : t \in Targets}

NULL == 0
Present == "P"
TableBits == {"P", "W", "U"}    \* 0b111
Zero == [phys |-> 0, bits |-> {}]

ASSUME VmmLockedAssumption ==
    /\ MapCount \in Nat \ {0} /\ Fanout \in Nat \ {0} /\ UserSlots \in 1 .. Fanout
    /\ Targets \subseteq Maps \X (Index \X Index \X Index \X Index)
    /\ Phys \subseteq Nat /\ \A f \in Flags : f \subseteq TableBits
    /\ Frames \in Nat /\ Frames >= MapCount + Cardinality(High) /\ MaxCalls \in Nat

VARIABLES tables, used,   \* as in VMM; the top level of map m is in frame m
          locked,         \* locked[m]: the flag of the lock of m
          at, op, map, virt, entry, level, cur, copy,   \* a CPU's place and locals
          calls,
          want,           \* history: what the calls have put at an address of a map
          known,          \* history: the addresses that calls have got through to
          knew,           \* known as a CPU's call began
          gaveUp,         \* history: an acquire has returned without the lock
          clashed         \* history: see Clash

locals == <<at, op, map, virt, entry, level, cur, copy, knew>>
vars == <<tables, used, locked, locals, calls, want, known, gaveUp, clashed>>

Init ==
    /\ tables = [f \in 1 .. Frames |-> [i \in Index |->
            IF f \in Maps /\ i \in High
              THEN [phys |-> MapCount + 1 + i - UserSlots, bits |-> TableBits] ELSE Zero]]
    /\ used = MapCount + Cardinality(High)
    /\ locked = [m \in Maps |-> FALSE]
    /\ at = [c \in CPUs |-> "idle"] /\ op = [c \in CPUs |-> "none"]
    /\ map = [c \in CPUs |-> 1] /\ virt = [c \in CPUs |-> <<>>] /\ entry = [c \in CPUs |-> Zero]
    /\ level = [c \in CPUs |-> 0] /\ cur = [c \in CPUs |-> NULL] /\ copy = [c \in CPUs |-> Zero]
    /\ calls = 0
    /\ want = [m \in Maps |-> [v \in Virts |-> Zero]]
    /\ known = {} /\ knew = [c \in CPUs |-> {}]
    /\ gaveUp = FALSE /\ clashed = FALSE

-----------------------------------------------------------------------------
Goto(c, where) == at' = [at EXCEPT ![c] = where]

\* The places where a store to v of m is seen: the higher half is in all maps.
Seen(m, v) == IF v[1] \in High THEN Maps \X {v} ELSE {<<m, v>>}

\* A store to the entry of the call's address, and what it was to do.
Put(c, e, wanted) ==
    /\ tables' = [tables EXCEPT ![cur[c]][virt[c][4]] = e]
    /\ want' = [m \in Maps |-> [v \in Virts |->
                   IF <<m, v>> \in Seen(map[c], virt[c]) THEN wanted ELSE want[m][v]]]
    /\ known' = known \cup Seen(map[c], virt[c])

Finish(c) ==
    /\ Goto(c, "idle")
    /\ op' = [op EXCEPT ![c] = "none"] /\ map' = [map EXCEPT ![c] = 1]
    /\ virt' = [virt EXCEPT ![c] = <<>>] /\ entry' = [entry EXCEPT ![c] = Zero]
    /\ level' = [level EXCEPT ![c] = 0] /\ cur' = [cur EXCEPT ![c] = NULL]
    /\ copy' = [copy EXCEPT ![c] = Zero] /\ knew' = [knew EXCEPT ![c] = {}]

Call(c, o, t, e) ==
    /\ at[c] = "idle" /\ calls < MaxCalls /\ calls' = calls + 1
    /\ Goto(c, IF o = "map" THEN "acquire" ELSE "read")
    /\ op' = [op EXCEPT ![c] = o]
    /\ map' = [map EXCEPT ![c] = t[1]] /\ virt' = [virt EXCEPT ![c] = t[2]]
    /\ entry' = [entry EXCEPT ![c] = e]
    /\ level' = [level EXCEPT ![c] = 1] /\ cur' = [cur EXCEPT ![c] = t[1]]
    /\ knew' = [knew EXCEPT ![c] = known]
    /\ UNCHANGED <<tables, used, locked, copy, want, known, gaveUp>>

map_page(c, t, p, flags) == Call(c, "map", t, [phys |-> p, bits |-> flags])
flag_page(c, t, flags) == Call(c, "flag", t, [Zero EXCEPT !.bits = flags])
unmap_page(c, t) == Call(c, "unmap", t, Zero)

\* Mutant: the lock is not taken.
AcquireNothing(c) ==
    /\ at[c] = "acquire" /\ Goto(c, "read")
    /\ UNCHANGED <<tables, used, locked, op, map, virt, entry, level, cur, copy, knew,
                   calls, want, known, gaveUp>>

\* acquire(&pagemap->l): it takes the lock if that is free, or its loop runs
\* out, which it may do before the first try (klock.c:47).
Acquire(c) ==
    /\ at[c] = "acquire" /\ Goto(c, "read")
    /\ \/ /\ ~locked[map[c]]
          /\ locked' = [locked EXCEPT ![map[c]] = TRUE] /\ UNCHANGED gaveUp
       \/ UNCHANGED locked /\ gaveUp' = TRUE
    /\ UNCHANGED <<tables, used, op, map, virt, entry, level, cur, copy, knew, calls, want, known>>

\* The entry of the level that get_next_level is at.
Entry(c) == tables[cur[c]][virt[c][level[c]]]

Down(c, f) ==
    /\ Goto(c, IF level[c] = 3 THEN "leaf" ELSE "read")
    /\ cur' = [cur EXCEPT ![c] = f] /\ level' = [level EXCEPT ![c] = @ + 1]
Elsewhere == UNCHANGED <<used, locked, op, map, virt, entry, copy, knew, calls, gaveUp>>

\* get_next_level finds a table.
Read(c) ==
    /\ at[c] = "read" /\ Present \in Entry(c).bits
    /\ Down(c, Entry(c).phys)
    /\ UNCHANGED <<tables, want, known>> /\ Elsewhere

\* It finds none: map_page and flag_page have it make one, unmap_page stores
\* through NULL, and the page fault handler never returns.
Miss(c) ==
    /\ at[c] = "read" /\ Present \notin Entry(c).bits
    /\ Goto(c, IF op[c] = "unmap" THEN "fault" ELSE "make")
    /\ UNCHANGED <<tables, level, cur, want, known>> /\ Elsewhere

\* Mutant: the new table is not entered.
MakeUnentered(c) ==
    /\ at[c] = "make" /\ used < Frames
    /\ used' = used + 1
    /\ Down(c, used + 1)
    /\ UNCHANGED <<tables, locked, op, map, virt, entry, copy, knew, calls, want, known, gaveUp>>

\* The new table is entered, over what another CPU may have put there since,
\* and is the one the call goes on with.
Make(c) ==
    /\ at[c] = "make" /\ used < Frames
    /\ used' = used + 1
    /\ tables' = [tables EXCEPT ![cur[c]][virt[c][level[c]]] =
                     [phys |-> used + 1, bits |-> TableBits]]
    /\ Down(c, used + 1)
    /\ UNCHANGED <<locked, op, map, virt, entry, copy, knew, calls, want, known, gaveUp>>

\* pmm_alloc has no page: the tables made so far stay.
MakeFails(c) ==
    /\ at[c] = "make"
    /\ IF op[c] = "map"
         THEN Goto(c, "release") /\ UNCHANGED <<op, map, virt, entry, level, cur, copy, knew>>
         ELSE Finish(c)
    /\ UNCHANGED <<tables, used, locked, calls, want, known, gaveUp>>

\* entry[0] = phys | flags
StoreEntry(c) ==
    /\ at[c] = "leaf" /\ op[c] = "map"
    /\ Put(c, entry[c], entry[c])
    /\ Goto(c, "release")
    /\ UNCHANGED <<level, cur>> /\ Elsewhere

\* *pte_p = 0
ClearEntry(c) ==
    /\ at[c] = "leaf" /\ op[c] = "unmap"
    /\ Put(c, Zero, Zero)
    /\ Finish(c)
    /\ UNCHANGED <<used, locked, calls, gaveUp>>

\* *pte_p &= ~0xfff; *pte_p |= flags: the compiler (-O2) makes them one read and
\* one write.
LoadEntry(c) ==
    /\ at[c] = "leaf" /\ op[c] = "flag"
    /\ copy' = [copy EXCEPT ![c] = tables[cur[c]][virt[c][4]]]
    /\ Goto(c, "write")
    /\ UNCHANGED <<tables, used, locked, op, map, virt, entry, level, cur, knew,
                   calls, want, known, gaveUp>>
WriteEntry(c) ==
    /\ at[c] = "write"
    /\ Put(c, [copy[c] EXCEPT !.bits = entry[c].bits],
              [want[map[c]][virt[c]] EXCEPT !.bits = entry[c].bits])
    /\ Finish(c)
    /\ UNCHANGED <<used, locked, calls, gaveUp>>

Release(c) ==
    /\ at[c] = "release"
    /\ locked' = [locked EXCEPT ![map[c]] = FALSE]
    /\ Finish(c)
    /\ UNCHANGED <<tables, used, calls, want, known, gaveUp>>

-----------------------------------------------------------------------------
\* Two calls clash: both have found the same slot empty and make a table for it,
\* although they are not both map_page of one map, whose lock keeps them apart;
\* or one stores to an entry that the other, flag_page, has read and not yet
\* written.
Clash ==
    \E c, d \in CPUs : c # d /\ cur[c] = cur[d] /\
        \/ /\ at[c] = "make" /\ at[d] = "make"
           /\ virt[c][level[c]] = virt[d][level[d]]
           /\ ~(op[c] = "map" /\ op[d] = "map" /\ map[c] = map[d])
        \/ /\ at[c] = "write" /\ at[d] = "leaf" /\ op[d] # "flag"
           /\ virt[c][4] = virt[d][4]

Step(c) ==
    \/ \E t \in Targets :
        \/ \E p \in Phys, flags \in Flags : map_page(c, t, p, flags)
        \/ \E flags \in Flags : flag_page(c, t, flags)
        \/ unmap_page(c, t)
    \/ Acquire(c) \/ Read(c) \/ Miss(c) \/ Make(c) \/ MakeFails(c)
    \/ StoreEntry(c) \/ ClearEntry(c) \/ LoadEntry(c) \/ WriteEntry(c) \/ Release(c)

Next == \E c \in CPUs : Step(c) /\ clashed' = (clashed \/ Clash')

Spec == Init /\ [][Next]_vars

-----------------------------------------------------------------------------
Entries == [phys : 0 .. Frames, bits : {TableBits, {}}]
           \cup [phys : Phys \cup {0}, bits : Flags \cup {{}}]

TypeOK ==
    /\ tables \in [1 .. Frames -> [Index -> Entries]] /\ used \in 0 .. Frames
    /\ locked \in [Maps -> BOOLEAN]
    /\ at \in [CPUs -> {"idle", "acquire", "read", "make", "leaf", "write", "release", "fault"}]
    /\ op \in [CPUs -> {"none", "map", "flag", "unmap"}] /\ map \in [CPUs -> Maps]
    /\ virt \in [CPUs -> Virts \cup {<<>>}] /\ entry \in [CPUs -> Entries]
    /\ level \in [CPUs -> 0 .. 4] /\ cur \in [CPUs -> 0 .. used] /\ copy \in [CPUs -> Entries]
    /\ want \in [Maps -> [Virts -> Entries]]
    /\ known \subseteq Maps \X Virts /\ knew \in [CPUs -> SUBSET known]

\* As VMM's, with the tables as they are.
Level(f, i) == IF f # NULL /\ Present \in tables[f][i].bits THEN tables[f][i].phys ELSE NULL
Pml1(m, v) == Level(Level(Level(m, v[1]), v[2]), v[3])
Walk(m, v) == IF Pml1(m, v) = NULL THEN Zero ELSE tables[Pml1(m, v)][v[4]]

\* Until calls clash or a lock is given up, an address has what the last call
\* for it stored, in every map that shows it.  Nothing else can go wrong: calls
\* of any kind may overlap on one path once its tables are there, under
\* different locks or none (vmm.c:66-71, 118, 132-133, 164-189).
MapsAsCalled ==
    clashed \/ gaveUp \/ \A m \in Maps, v \in Virts : Walk(m, v) = want[m][v]

\* Until then unmap_page writes through NULL only for an address that no call
\* had got through to when it began: a table that was found once is never lost
\* (vmm.c:118).
FaultsOnlyUnmapped ==
    clashed \/ gaveUp \/
        \A c \in CPUs : at[c] = "fault" => <<map[c], virt[c]>> \notin knew[c]
=============================================================================

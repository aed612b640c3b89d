---------------------------- MODULE AddressSpace ----------------------------
(***************************************************************************)
(* What the callers of src/memory/vmm.c rely on: every page map is a       *)
(* function from virtual addresses to entries, a change of an address in   *)
(* the shared half is seen in all maps and of any other in one map only.   *)
(* That a map is a tree of tables, built on demand, does not show.         *)
(***************************************************************************)
CONSTANTS Maps, Kernel,  \* the page maps, and the one vmm_init makes
          Virts, Shared, \* virtual addresses, and those of the higher half
          Entries, None, \* entries, and that of an address never mapped
          Wanted         \* Wanted[v]: what vmm_init may leave at v

VARIABLES live,          \* the maps that have been made
          space          \* space[m][v]: the entry of v in map m

vars == <<live, space>>

TypeOK ==
    /\ live \subseteq Maps
    /\ space \in [Maps -> [Virts -> Entries]]

Init ==
    /\ live = {}
    /\ space = [m \in Maps |-> [v \in Virts |-> None]]

Boot ==
    /\ live = {}
    /\ live' = {Kernel}
    /\ \A v \in Virts : space'[Kernel][v] \in Wanted[v]
    /\ space' = [space EXCEPT ![Kernel] = space'[Kernel]]

\* A new map shares the higher half and is empty below it.
Create(m) ==
    /\ live # {}
    /\ live' = live \cup {m}
    /\ space' = [space EXCEPT ![m] =
            [v \in Virts |-> IF v \in Shared THEN space[Kernel][v] ELSE None]]

\* The entry of v in map m becomes some other one.
Change(m, v) ==
    /\ m \in live
    /\ space'[m][v] \in Entries
    /\ space' = [n \in Maps |->
            IF n = m \/ (v \in Shared /\ n \in live)
              THEN [space[n] EXCEPT ![v] = space'[m][v]] ELSE space[n]]
    /\ UNCHANGED live

Next ==
    \/ Boot
    \/ \E m \in Maps : Create(m) \/ \E v \in Virts : Change(m, v)

Spec == Init /\ [][Next]_vars
=============================================================================

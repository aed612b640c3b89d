---------------------------- MODULE PageContract ----------------------------
(***************************************************************************)
(* What the callers of src/memory/pmm.c rely on: pages are handed out to   *)
(* one owner at a time and come back when that owner returns them.  Which  *)
(* pages a request gets, and whether it gets any, is left open.            *)
(***************************************************************************)
CONSTANTS Owners,      \* the callers, each with room for one block
          Pages        \* the pages that may be handed out

VARIABLE holds         \* holds[o]: the pages owner o has been given

TypeOK == holds \in [Owners -> SUBSET Pages]

Init == holds = [o \in Owners |-> {}]

\* Owner o is given a block: some pages that nobody holds.
HandOut(o) ==
    /\ holds[o] = {}
    /\ holds'[o] \subseteq Pages
    /\ \A other \in Owners : holds[other] \cap holds'[o] = {}
    /\ holds' = [holds EXCEPT ![o] = holds'[o]]

TakeBack(o) == holds' = [holds EXCEPT ![o] = {}]

Next == \E o \in Owners : HandOut(o) \/ TakeBack(o)

Spec == Init /\ [][Next]_holds
=============================================================================

--------------------------- MODULE HeapLockedProofs --------------------------
(***************************************************************************)
(* Theorems about malloc and free on several CPUs, HeapLocked, for any set *)
(* of CPUs, any classes, sizes and slabs that satisfy HeapLockedAssumption.*)
(***************************************************************************)
EXTENDS HeapLocked, FiniteSetTheorems, TLAPS

-----------------------------------------------------------------------------
(* Types and the shape of a call, whatever becomes of the locks. *)

Record == [base : Nat, size : 0 .. ObjCount, count : 0 .. Modulus - 1, used : Nat,
           mapped : BOOLEAN, marks : SUBSET (0 .. ObjCount - 1), locked : BOOLEAN,
           next : 0 .. MaxSlabs]

Typed ==
    /\ slab \in [Slabs -> Record] /\ made \in Slabs
    /\ at \in [CPUs -> Places] /\ op \in [CPUs -> {"none", "malloc", "free"}]
    /\ cur \in [CPUs -> Slabs] /\ i \in [CPUs -> 0 .. ObjCount - 1]
    /\ copy \in [CPUs -> Nat] /\ want \in [CPUs -> 0 .. ObjCount]
    /\ ptr \in [CPUs -> [base : Nat, k : 0 .. ObjCount - 1]]
    /\ gaveUp \in BOOLEAN /\ crowded \in BOOLEAN

\* The slabs of heap_init are complete and in order; of the others the list
\* only leads forward, and base numbers are never the first slab's.
SlabShape(s) ==
    /\ s > made => slab[s] = Blank
    /\ slab[s].next = NULL \/ (s < slab[s].next /\ slab[s].next <= made)
    /\ s < Len(Classes) => slab[s].next # NULL
    /\ s <= Len(Classes) => slab[s].mapped
    /\ slab[s].base = first <=> s = first
    /\ slab[s].mapped => slab[s].base # NULL
    /\ ~slab[s].mapped => slab[s].marks = {}
    /\ ~slab[s].mapped /\ slab[s].size # 0 => \E c \in CPUs : at[c] = "bitmap" /\ cur[c] = s

InMalloc == {"look", "probe", "mark", "tail", "link", "follow", "fields", "bitmap", "reset", "fault"}
InBuild == {"fields", "bitmap", "reset"}

ShapeOf(c) ==
    /\ cur[c] <= made
    /\ at[c] = "idle" <=> op[c] = "none"
    /\ at[c] = "idle" => cur[c] = first
    /\ at[c] \in InMalloc => op[c] = "malloc"
    /\ at[c] \in {"range", "clear"} => op[c] = "free"
    /\ op[c] = "malloc" => ptr[c] = None /\ want[c] >= 1
    /\ op[c] = "free" => ptr[c] # None
    /\ ptr[c] # None => ptr[c].base # NULL
    /\ at[c] = "acquire" /\ op[c] = "malloc" => cur[c] = first
    /\ at[c] = "probe" => slab[cur[c]].size # 0
    /\ at[c] \in {"mark", "load", "store", "return"} /\ op[c] = "malloc" => slab[cur[c]].mapped
    /\ at[c] \in {"load", "store", "clear"} /\ op[c] = "free" => (ptr[c].base = first <=> cur[c] = first)
    /\ at[c] \in {"link", "follow"} => cur[c] >= Len(Classes)
    /\ at[c] = "follow" => slab[cur[c]].next # NULL
    /\ at[c] \in InBuild => cur[c] > Len(Classes)
    /\ at[c] = "bitmap" => slab[cur[c]].base # NULL

Shape == (\A s \in Slabs : SlabShape(s)) /\ \A c \in CPUs : ShapeOf(c)

-----------------------------------------------------------------------------
(* What the first lock protects, and what a malloc past it relies on. *)

FirstAlone ==
    ~gaveUp => \A c \in CPUs : InFirst(c) =>
        slab[first].locked /\ \A d \in CPUs : InFirst(d) => c = d

CrowdSeen == Crowd => crowded

\* The slab a CPU is making.
Making(c) == at[c] \in {"follow", "fields", "bitmap"}
Target(c) == IF at[c] = "follow" THEN slab[cur[c]].next ELSE cur[c]

\* Until two mallocs meet past the first slab, each makes a slab of its own.
Builds ==
    ~crowded =>
        /\ \A s \in Slabs : slab[s].base \in {NULL, s}
        /\ \A c \in CPUs :
              /\ at[c] = "link" => slab[cur[c]].next = NULL
              /\ Making(c) => /\ ~slab[Target(c)].mapped
                              /\ (slab[Target(c)].base = NULL <=> at[c] # "bitmap")
                              /\ \A d \in CPUs : Making(d) /\ Target(d) = Target(c) => c = d
              /\ at[c] \in {"load", "store", "clear"} /\ op[c] = "free" => ptr[c].base = cur[c]

\* The object that is a CPU's: the one it has marked, was given, or has not
\* cleared yet.
Own(c) ==
    IF op[c] = "malloc" /\ at[c] \in {"load", "store", "return"}
        THEN [base |-> slab[cur[c]].base, k |-> i[c]]
    ELSE IF op[c] = "free" /\ at[c] = "return" THEN None
    ELSE ptr[c]

Trusted(b) == IF b = first THEN ~gaveUp ELSE ~crowded

OwnersMarked ==
    \A c \in CPUs : Own(c) # None /\ Trusted(Own(c).base) =>
        LET b == Own(c).base
        IN b \in Slabs /\ slab[b].base = b /\ Own(c).k \in slab[b].marks

OwnersApart ==
    \A c, d \in CPUs :
        Own(c) # None /\ Trusted(Own(c).base) /\ Own(c) = Own(d) => c = d

FoundFree ==
    \A c \in CPUs : at[c] = "mark" /\ Trusted(cur[c]) => i[c] \notin slab[cur[c]].marks

\* What the counters of the first slab owe to a call that is between its updates.
Pending(c) == InFirst(c) /\ (at[c] = "clear" \/ (op[c] = "malloc" /\ at[c] \in {"load", "store"}))
Lag == IF \E c \in CPUs : Pending(c) THEN 1 ELSE 0

Counted ==
    ~gaveUp =>
        /\ slab[first].used - (ObjCount - slab[first].count) + Lag = Cardinality(slab[first].marks)
        /\ \A c \in CPUs : InFirst(c) =>
              /\ at[c] = "store" => copy[c] = IF op[c] = "malloc" THEN slab[first].used
                                              ELSE slab[first].count
              /\ at[c] \in {"load", "store"} /\ op[c] = "free" => slab[first].count >= 1


IInv ==
    /\ Typed /\ Shape
    /\ FirstAlone /\ Builds /\ OwnersMarked /\ OwnersApart /\ FoundFree /\ Counted
    /\ CrowdSeen /\ FaultsOnlyWhenCrowded

-----------------------------------------------------------------------------
(* One step, access by access. *)

\* Any step of CPU c, and the history every step keeps.
Acts(c) ==
    \/ \E size \in Sizes : CallMalloc(c, size)
    \/ CallFree(c)
    \/ Acquire(c) \/ Look(c) \/ Probe(c) \/ Mark(c) \/ Load(c) \/ Store(c)
    \/ InRange(c) \/ Clear(c) \/ Return(c) \/ Leave(c)
    \/ FindTail(c) \/ Link(c) \/ Follow(c) \/ Fields(c) \/ Bitmap(c) \/ Reset(c)

LEMMA NextActs == Next => \E c \in CPUs : Acts(c) /\ Watch
  <1> SUFFICES ASSUME NEW c \in CPUs,
                      \/ \E size \in Sizes : CallMalloc(c, size) /\ Watch
                      \/ CallFree(c) /\ Watch
                      \/ Step(c)
               PROVE  Acts(c) /\ Watch
    BY DEF Next
  <1>1. CASE \E size \in Sizes : CallMalloc(c, size) /\ Watch
    BY <1>1 DEF Acts
  <1>2. CASE CallFree(c) /\ Watch
    BY <1>2 DEF Acts
  <1>3. CASE Step(c)
    <2>1. SlabInit(c) => Acts(c)
      BY DEF SlabInit, Acts
    <2>2. Acquire(c) \/ Look(c) \/ Probe(c) \/ Mark(c) \/ Load(c) \/ Store(c) => Acts(c)
      BY DEF Acts
    <2>3. InRange(c) \/ Clear(c) \/ Return(c) \/ Leave(c) => Acts(c)
      BY DEF Acts
    <2>4. /\ \/ Acquire(c) \/ Look(c) \/ Probe(c) \/ Mark(c) \/ Load(c) \/ Store(c)
             \/ InRange(c) \/ Clear(c) \/ Return(c) \/ Leave(c) \/ SlabInit(c)
          /\ Watch
      BY <1>3 DEF Step
    <2>5. QED
      BY <2>1, <2>2, <2>3, <2>4
  <1>4. QED
    BY <1>1, <1>2, <1>3

\* acquire comes back without the first slab's lock.
GivesUp(c) ==
    at[c] = "acquire" /\ cur[c] = first /\ (slab[first].locked \/ ~slab'[first].locked)

\* What a step of c makes of the slab it is at: the only one it writes.
Written(c) ==
    LET s == slab[cur[c]]
    IN  IF at[c] = "acquire" THEN [s EXCEPT !.locked = slab'[cur[c]].locked]
        ELSE IF at[c] = "mark" THEN [s EXCEPT !.marks = @ \cup {i[c]}]
        ELSE IF at[c] = "store" /\ op[c] = "malloc" THEN [s EXCEPT !.used = copy[c] + 1]
        ELSE IF at[c] = "store" THEN [s EXCEPT !.count = (copy[c] - 1) % Modulus]
        ELSE IF at[c] = "clear" THEN [s EXCEPT !.marks = @ \ {ptr[c].k}]
        ELSE IF at[c] \in {"return", "leave"} THEN [s EXCEPT !.locked = FALSE]
        ELSE IF at[c] = "link" THEN [s EXCEPT !.next = made + 1]
        ELSE IF at[c] = "fields"
          THEN [s EXCEPT !.count = ObjCount, !.size = want[c],
                         !.base = IF @ = NULL THEN cur[c] ELSE @ + MaxSlabs]
        ELSE IF at[c] = "bitmap" THEN [s EXCEPT !.mapped = TRUE, !.marks = {}]
        ELSE IF at[c] = "reset" THEN [s EXCEPT !.used = 0, !.locked = FALSE]
        ELSE s

\* Where c goes next, and with which locals.
Moves(c) ==
    /\ at[c] = "idle" =>
          /\ at'[c] = "acquire" /\ cur'[c] = cur[c] /\ i'[c] = i[c] /\ ptr'[c] = ptr[c]
          /\ \/ op'[c] = "malloc" /\ ptr[c] = None /\ want'[c] \in Sizes
             \/ op'[c] = "free" /\ ptr[c] # None /\ want'[c] = want[c]
    /\ at[c] \notin {"idle", "return", "leave"} =>
          op'[c] = op[c] /\ want'[c] = want[c] /\ ptr'[c] = ptr[c]
    /\ at[c] \notin {"idle", "return", "leave", "tail", "follow", "reset"} => cur'[c] = cur[c]
    /\ at[c] \notin {"idle", "return", "leave", "probe"} => i'[c] = i[c]
    /\ at[c] \notin {"load", "store"} => copy'[c] = copy[c]
    /\ at[c] = "acquire" => at'[c] = IF op[c] = "malloc" THEN "look" ELSE "range"
    /\ at[c] = "look" =>
          at'[c] = IF slab[cur[c]].size >= want[c] THEN "probe" ELSE "leave"
    /\ at[c] = "probe" =>
          \/ at'[c] = "fault" /\ i'[c] = i[c] /\ ~slab[cur[c]].mapped
          \/ at'[c] = "mark" /\ i'[c] = i[c] /\ slab[cur[c]].mapped /\ i[c] \notin slab[cur[c]].marks
          \/ at'[c] = "probe" /\ i'[c] = i[c] + 1 /\ i[c] + 1 < slab[cur[c]].size
          \/ at'[c] = "leave" /\ i'[c] = 0
    /\ at[c] = "mark" => at'[c] = "load"
    /\ at[c] = "load" =>
          /\ at'[c] = "store"
          /\ copy'[c] = IF op[c] = "malloc" THEN slab[cur[c]].used ELSE slab[cur[c]].count
    /\ at[c] = "store" =>
          at'[c] = (IF op[c] = "malloc" THEN "return" ELSE "clear") /\ copy'[c] = 0
    /\ at[c] = "range" =>
          at'[c] = IF Owns(slab[cur[c]], ptr[c]) THEN "load" ELSE "leave"
    /\ at[c] = "clear" => at'[c] = "return"
    /\ at[c] = "return" =>
          /\ at'[c] = "idle" /\ op'[c] = "none" /\ cur'[c] = first /\ i'[c] = 0
          /\ ptr'[c] = IF op[c] = "malloc" THEN [base |-> slab[cur[c]].base, k |-> i[c]] ELSE None
          /\ want'[c] = 0
    /\ at[c] = "leave" =>
          \/ /\ slab[cur[c]].next = NULL /\ op[c] = "free"
             /\ at'[c] = "idle" /\ op'[c] = "none" /\ cur'[c] = first /\ i'[c] = 0
             /\ ptr'[c] = None /\ want'[c] = 0
          \/ /\ ~(slab[cur[c]].next = NULL /\ op[c] = "free")
             /\ at'[c] = IF slab[cur[c]].next = NULL THEN "tail"
                         ELSE IF op[c] = "malloc" THEN "look" ELSE "acquire"
             /\ cur'[c] = IF slab[cur[c]].next = NULL THEN first ELSE slab[cur[c]].next
             /\ op'[c] = op[c] /\ i'[c] = i[c] /\ want'[c] = want[c] /\ ptr'[c] = ptr[c]
    /\ at[c] = "tail" =>
          \/ slab[cur[c]].next = NULL /\ at'[c] = "link" /\ cur'[c] = cur[c]
          \/ slab[cur[c]].next # NULL /\ at'[c] = "tail" /\ cur'[c] = slab[cur[c]].next
    /\ at[c] = "link" => at'[c] = "follow" /\ made < MaxSlabs
    /\ at[c] = "follow" => at'[c] = "fields" /\ cur'[c] = slab[cur[c]].next
    /\ at[c] = "fields" => at'[c] = "bitmap"
    /\ at[c] = "bitmap" => at'[c] = "reset"
    /\ at[c] = "reset" => at'[c] = "acquire" /\ cur'[c] = first
    /\ op[c] \in {"none", "malloc", "free"}
    /\ at[c] \in {"idle", "acquire", "look", "range", "probe", "mark", "load", "store", "clear",
                  "return", "leave", "tail", "link", "follow", "fields", "bitmap", "reset"}

Stays(d) ==
    /\ at'[d] = at[d] /\ op'[d] = op[d] /\ cur'[d] = cur[d] /\ i'[d] = i[d]
    /\ copy'[d] = copy[d] /\ want'[d] = want[d] /\ ptr'[d] = ptr[d]

Effect(c) ==
    /\ Moves(c) /\ \A d \in CPUs : d # c => Stays(d)
    /\ slab'[cur[c]] = Written(c) /\ \A s \in Slabs : s # cur[c] => slab'[s] = slab[s]
    /\ made' = IF at[c] = "link" THEN made + 1 ELSE made
    /\ gaveUp' = (gaveUp \/ GivesUp(c))
    /\ at[c] = "acquire" => slab'[cur[c]].locked \in BOOLEAN
    /\ cur[c] \in Slabs

LEMMA StepEffect ==
    ASSUME Typed, Shape, NEW c \in CPUs, Acts(c)
    PROVE  Effect(c)
  <1>0. /\ at[c] \in Places /\ cur[c] \in Slabs /\ op[c] \in {"none", "malloc", "free"}
        /\ at \in [CPUs -> Places] /\ op \in [CPUs -> {"none", "malloc", "free"}]
        /\ cur \in [CPUs -> Slabs] /\ i \in [CPUs -> 0 .. ObjCount - 1]
        /\ copy \in [CPUs -> Nat] /\ want \in [CPUs -> 0 .. ObjCount]
        /\ ptr \in [CPUs -> [base : Nat, k : 0 .. ObjCount - 1]]
        /\ slab \in [Slabs -> Record] /\ gaveUp \in BOOLEAN
    BY DEF Typed
  <1>1. Moves(c) /\ \A d \in CPUs : d # c => Stays(d)
    <2>1. CASE (\E size \in Sizes : CallMalloc(c, size)) \/ CallFree(c)
      BY <1>0, <2>1 DEF CallMalloc, CallFree, Goto, Same, Moves, Stays
    <2>2. CASE Acquire(c) \/ Look(c) \/ Mark(c) \/ Load(c)
      BY <1>0, <2>2 DEF Acquire, Look, Mark, Load, Goto, Same, Moves, Stays
    <2>3. CASE Probe(c)
      <3>1. /\ at[c] = "probe" /\ slab' = slab /\ op' = op /\ cur' = cur /\ copy' = copy
            /\ want' = want /\ ptr' = ptr
        BY <2>3 DEF Probe, Same
      <3>2. CASE ~slab[cur[c]].mapped
        BY <1>0, <2>3, <3>1, <3>2 DEF Probe, Goto, Moves, Stays
      <3>3. CASE slab[cur[c]].mapped /\ i[c] \notin slab[cur[c]].marks
        BY <1>0, <2>3, <3>1, <3>3 DEF Probe, Goto, Moves, Stays
      <3>4. CASE /\ slab[cur[c]].mapped /\ i[c] \in slab[cur[c]].marks
                 /\ i[c] + 1 < slab[cur[c]].size
        <4>1. at' = at /\ i' = [i EXCEPT ![c] = i[c] + 1]
          BY <2>3, <3>4 DEF Probe
        <4>2. QED
          BY <1>0, <3>1, <3>4, <4>1 DEF Moves, Stays
      <3>5. CASE /\ slab[cur[c]].mapped /\ i[c] \in slab[cur[c]].marks
                 /\ ~(i[c] + 1 < slab[cur[c]].size)
        BY <1>0, <2>3, <3>1, <3>5 DEF Probe, Goto, Moves, Stays
      <3>6. QED
        BY <3>2, <3>3, <3>4, <3>5
    <2>4. CASE Store(c)
      <3>1. /\ at[c] = "store" /\ copy' = [copy EXCEPT ![c] = 0]
            /\ at' = [at EXCEPT ![c] = IF op[c] = "malloc" THEN "return" ELSE "clear"]
            /\ op' = op /\ cur' = cur /\ i' = i /\ want' = want /\ ptr' = ptr
        BY <2>4 DEF Store, Goto, Same
      <3>2. QED
        BY <1>0, <3>1 DEF Moves, Stays
    <2>10. CASE InRange(c) \/ Clear(c)
      BY <1>0, <2>10 DEF InRange, Clear, Goto, Same, Moves, Stays
    <2>5. CASE Return(c)
      BY <1>0, <2>5 DEF Return, Release, Finish, Goto, Moves, Stays
    <2>6. CASE Leave(c)
      BY <1>0, <2>6 DEF Leave, Release, Finish, Goto, Same, Moves, Stays
    <2>7. CASE FindTail(c) \/ Link(c) \/ Follow(c)
      BY <1>0, <2>7 DEF FindTail, Link, Follow, Goto, Same, Moves, Stays
    <2>8. CASE Fields(c) \/ Bitmap(c) \/ Reset(c)
      BY <1>0, <2>8 DEF Fields, Bitmap, Reset, Goto, Same, Moves, Stays
    <2>9. QED
      BY <2>1, <2>2, <2>3, <2>4, <2>5, <2>6, <2>7, <2>8, <2>10 DEF Acts
  <1>2. slab'[cur[c]] = Written(c) /\ \A s \in Slabs : s # cur[c] => slab'[s] = slab[s]
    <2>1. CASE Acquire(c)
      <3>1. at[c] = "acquire"
        BY <2>1 DEF Acquire
      <3>2. CASE slab' = [slab EXCEPT ![cur[c]].locked = TRUE]
        <4>1. slab'[cur[c]] = [slab[cur[c]] EXCEPT !.locked = TRUE]
          BY <1>0, <3>2
        <4>2. slab'[cur[c]].locked = TRUE
          BY <1>0, <4>1 DEF Record
        <4>3. QED
          BY <1>0, <3>1, <3>2, <4>1, <4>2 DEF Written
      <3>3. CASE slab' = slab
        <4>1. [slab[cur[c]] EXCEPT !.locked = slab[cur[c]].locked] = slab[cur[c]]
          BY <1>0 DEF Record
        <4>2. QED
          BY <1>0, <3>1, <3>3, <4>1 DEF Written
      <3>4. QED
        BY <2>1, <3>2, <3>3 DEF Acquire
    <2>2. CASE Mark(c)
      BY <1>0, <2>2 DEF Mark, Written
    <2>3. CASE Store(c)
      BY <1>0, <2>3 DEF Store, Written
    <2>4. CASE Clear(c)
      BY <1>0, <2>4 DEF Clear, Written
    <2>5. CASE Return(c) \/ Leave(c)
      BY <1>0, <2>5 DEF Return, Leave, Release, Written
    <2>6. CASE Link(c)
      <3>1. made + 1 \in Slabs /\ cur[c] # made + 1 /\ slab[made + 1] = Blank
        BY <1>0, <2>6, HeapLockedAssumption, SMTT(20) DEF Link, Typed, Shape, ShapeOf, SlabShape, Slabs
      <3>2. QED
        BY <1>0, <2>6, <3>1 DEF Link, Written
    <2>7. CASE Fields(c)
      BY <1>0, <2>7 DEF Fields, Written, Record
    <2>8. CASE Bitmap(c) \/ Reset(c)
      BY <1>0, <2>8 DEF Bitmap, Reset, Written
    <2>9. CASE \/ (\E size \in Sizes : CallMalloc(c, size)) \/ CallFree(c) \/ Look(c) \/ Probe(c)
               \/ Load(c) \/ InRange(c) \/ FindTail(c) \/ Follow(c)
      <3>1. slab' = slab /\ at[c] \in {"idle", "look", "probe", "load", "range", "tail", "follow"}
        <4>1. \A size \in Sizes : CallMalloc(c, size) => slab' = slab /\ at[c] = "idle"
          BY DEF CallMalloc
        <4>2. CallFree(c) \/ Look(c) \/ Probe(c) => slab' = slab /\ at[c] \in {"idle", "look", "probe"}
          BY DEF CallFree, Look, Probe
        <4>3. Load(c) \/ InRange(c) \/ Follow(c) =>
                 slab' = slab /\ at[c] \in {"load", "range", "follow"}
          BY DEF Load, InRange, Follow
        <4>5. FindTail(c) => slab' = slab /\ at[c] = "tail"
          BY DEF FindTail
        <4>4. QED
          BY <2>9, <4>1, <4>2, <4>3, <4>5
      <3>2. QED
        BY <1>0, <3>1 DEF Written
    <2>10. QED
      BY <2>1, <2>2, <2>3, <2>4, <2>5, <2>6, <2>7, <2>8, <2>9 DEF Acts
  <1>3. /\ made' = IF at[c] = "link" THEN made + 1 ELSE made
        /\ gaveUp' = (gaveUp \/ GivesUp(c))
    <2>1. CASE at[c] \notin {"acquire", "link"}
      <3>1. made' = made /\ gaveUp' = gaveUp
        <4>1. CASE (\E size \in Sizes : CallMalloc(c, size)) \/ CallFree(c)
          BY <4>1 DEF CallMalloc, CallFree, Same
        <4>2. CASE Look(c) \/ Probe(c) \/ Mark(c) \/ Load(c) \/ Store(c)
          BY <4>2 DEF Look, Probe, Mark, Load, Store, Same
        <4>3. CASE InRange(c) \/ Clear(c) \/ Return(c) \/ Leave(c)
          BY <4>3 DEF InRange, Clear, Return, Leave, Finish, Same
        <4>4. CASE FindTail(c) \/ Follow(c) \/ Fields(c) \/ Bitmap(c) \/ Reset(c)
          BY <4>4 DEF FindTail, Follow, Fields, Bitmap, Reset, Same
        <4>5. CASE Acquire(c) \/ Link(c)
          BY <2>1, <4>5 DEF Acquire, Link
        <4>6. QED
          BY <4>1, <4>2, <4>3, <4>4, <4>5 DEF Acts
      <3>2. QED
        BY <1>0, <2>1, <3>1 DEF GivesUp
    <2>2. CASE at[c] = "acquire"
      <3>1. Acquire(c)
        BY <2>2 DEF Acts, CallMalloc, CallFree, Look, Probe, Mark, Load, Store, InRange, Clear, Return,
               Leave, FindTail, Link, Follow, Fields, Bitmap, Reset
      <3>2. made' = made /\ slab[cur[c]] \in Record
        BY <1>0, <3>1 DEF Acquire
      <3>3. CASE /\ ~slab[cur[c]].locked
                 /\ slab' = [slab EXCEPT ![cur[c]].locked = TRUE] /\ gaveUp' = gaveUp
        <4>1. cur[c] = first => ~slab[first].locked /\ slab'[first].locked
          BY <1>0, <3>2, <3>3 DEF Record
        <4>2. QED
          BY <1>0, <2>2, <3>2, <3>3, <4>1 DEF GivesUp
      <3>4. CASE slab' = slab /\ gaveUp' = (gaveUp \/ cur[c] = first)
        BY <1>0, <2>2, <3>2, <3>4 DEF GivesUp, Record
      <3>5. QED
        BY <3>1, <3>3, <3>4 DEF Acquire
    <2>3. CASE at[c] = "link"
      <3>1. Link(c)
        BY <2>3 DEF Acts, CallMalloc, CallFree, Look, Probe, Mark, Load, Store, InRange, Clear, Return,
               Leave, FindTail, Acquire, Follow, Fields, Bitmap, Reset
      <3>2. QED
        BY <1>0, <2>3, <3>1 DEF Link, GivesUp
    <2>4. QED
      BY <2>1, <2>2, <2>3
  <1>4. ASSUME at[c] = "acquire" PROVE slab'[cur[c]].locked \in BOOLEAN
    <2>1. Acquire(c)
      BY <1>4 DEF Acts, CallMalloc, CallFree, Look, Probe, Mark, Load, Store, InRange, Clear, Return,
             Leave, FindTail, Link, Follow, Fields, Bitmap, Reset
    <2>2. slab[cur[c]] \in Record
      BY <1>0
    <2>3. CASE slab' = [slab EXCEPT ![cur[c]].locked = TRUE]
      BY <1>0, <2>2, <2>3 DEF Record
    <2>4. CASE slab' = slab
      BY <2>2, <2>4 DEF Record
    <2>5. QED
      BY <2>1, <2>3, <2>4 DEF Acquire
  <1>5. QED
    BY <1>0, <1>1, <1>2, <1>3, <1>4 DEF Effect

\* The same, field by field.
Base(c, s) == IF at[c] = "fields" /\ s = cur[c]
              THEN IF slab[s].base = NULL THEN s ELSE slab[s].base + MaxSlabs
              ELSE slab[s].base
Count(c, s) == IF at[c] = "fields" /\ s = cur[c] THEN ObjCount
               ELSE IF at[c] = "store" /\ op[c] # "malloc" /\ s = cur[c]
                 THEN (copy[c] - 1) % Modulus
               ELSE slab[s].count
Used(c, s) == IF at[c] = "store" /\ op[c] = "malloc" /\ s = cur[c] THEN copy[c] + 1
              ELSE IF at[c] = "reset" /\ s = cur[c] THEN 0 ELSE slab[s].used
Marks(c, s) == IF at[c] = "mark" /\ s = cur[c] THEN slab[s].marks \cup {i[c]}
               ELSE IF at[c] = "clear" /\ s = cur[c] THEN slab[s].marks \ {ptr[c].k}
               ELSE IF at[c] = "bitmap" /\ s = cur[c] THEN {} ELSE slab[s].marks
Word(c, s) == IF at[c] = "acquire" /\ s = cur[c] THEN slab'[s].locked
              ELSE IF at[c] \in {"return", "leave", "reset"} /\ s = cur[c] THEN FALSE
              ELSE slab[s].locked
Following(c, s) == IF at[c] = "link" /\ s = cur[c] THEN made + 1 ELSE slab[s].next

ByField(c, s) ==
    /\ slab'[s].base = Base(c, s) /\ slab'[s].count = Count(c, s)
    /\ slab'[s].size = IF at[c] = "fields" /\ s = cur[c] THEN want[c] ELSE slab[s].size
    /\ slab'[s].used = Used(c, s) /\ slab'[s].marks = Marks(c, s)
    /\ slab'[s].mapped = IF at[c] = "bitmap" /\ s = cur[c] THEN TRUE ELSE slab[s].mapped
    /\ slab'[s].locked = Word(c, s) /\ slab'[s].next = Following(c, s)

LEMMA FieldEffect ==
    ASSUME Typed, NEW c \in CPUs, Effect(c), NEW s \in Slabs
    PROVE  ByField(c, s)
  <1>1. CASE s # cur[c]
    <2>1. slab'[s] = slab[s]
      BY <1>1 DEF Effect
    <2>2. QED
      BY <1>1, <2>1 DEF ByField, Base, Count, Used, Marks, Word, Following
  <1>2. CASE s = cur[c]
    <2>1. slab'[s] = Written(c) /\ slab[s] \in Record
      BY <1>2 DEF Effect, Typed
    <2>2. CASE at[c] \in {"acquire", "mark", "clear", "return", "leave"}
      BY <1>2, <2>1, <2>2 DEF Written, Record, ByField, Base, Count, Used, Marks, Word, Following
    <2>3. CASE at[c] \in {"store", "link"}
      BY <1>2, <2>1, <2>3 DEF Written, Record, ByField, Base, Count, Used, Marks, Word, Following
    <2>4. CASE at[c] \in {"fields", "bitmap", "reset"}
      BY <1>2, <2>1, <2>4, ZenonT(30) DEF Written, Record, ByField, Base, Count, Used, Marks, Word, Following
    <2>5. CASE at[c] \notin {"acquire", "mark", "clear", "return", "leave", "store", "link",
                             "fields", "bitmap", "reset"}
      BY <1>2, <2>1, <2>5 DEF Written, Record, ByField, Base, Count, Used, Marks, Word, Following
    <2>6. QED
      BY <2>2, <2>3, <2>4, <2>5
  <1>3. QED
    BY <1>1, <1>2

LEMMA Bounds ==
    /\ ObjCount \in Nat /\ ObjCount >= 1 /\ Modulus \in Nat /\ ObjCount < Modulus
    /\ MaxSlabs \in Nat /\ MaxSlabs >= 1 /\ Sizes \subseteq 1 .. ObjCount
    /\ Len(Classes) \in Nat /\ 1 <= Len(Classes) /\ Len(Classes) <= MaxSlabs
    /\ \A s \in 1 .. Len(Classes) : Classes[s] \in 1 .. ObjCount
    /\ Slabs = 1 .. MaxSlabs /\ first \in Slabs
  BY HeapLockedAssumption DEF Slabs, first

LEMMA Types ==
    ASSUME Typed
    PROVE  /\ \A s \in Slabs :
                /\ s \in Nat /\ s >= 1 /\ slab[s].base \in Nat /\ slab[s].size \in Nat
                /\ slab[s].count \in Nat /\ slab[s].count < Modulus /\ slab[s].used \in Nat
                /\ slab[s].next \in Nat /\ (slab[s].next # NULL => slab[s].next \in Slabs)
                /\ slab[s].marks \subseteq 0 .. ObjCount - 1
                /\ slab[s].mapped \in BOOLEAN /\ slab[s].locked \in BOOLEAN
           /\ made \in Nat
           /\ \A c \in CPUs :
                /\ cur[c] \in Slabs /\ i[c] \in Nat /\ copy[c] \in Nat /\ want[c] \in Nat
                /\ ptr[c] \in [base : Nat, k : 0 .. ObjCount - 1] /\ at[c] \in Places
                /\ op[c] \in {"none", "malloc", "free"}
  <1>1. ASSUME NEW s \in Slabs
        PROVE  /\ s \in Nat /\ s >= 1 /\ slab[s].base \in Nat /\ slab[s].size \in Nat
               /\ slab[s].count \in Nat /\ slab[s].count < Modulus /\ slab[s].used \in Nat
               /\ slab[s].next \in Nat /\ (slab[s].next # NULL => slab[s].next \in Slabs)
               /\ slab[s].marks \subseteq 0 .. ObjCount - 1
               /\ slab[s].mapped \in BOOLEAN /\ slab[s].locked \in BOOLEAN
    <2>1. slab[s] \in Record
      BY DEF Typed
    <2>2. /\ slab[s].base \in Nat /\ slab[s].size \in 0 .. ObjCount
          /\ slab[s].count \in 0 .. Modulus - 1 /\ slab[s].used \in Nat
          /\ slab[s].next \in 0 .. MaxSlabs /\ slab[s].marks \subseteq 0 .. ObjCount - 1
          /\ slab[s].mapped \in BOOLEAN /\ slab[s].locked \in BOOLEAN
      BY <2>1 DEF Record
    <2>3. QED
      BY <2>2, Bounds, SMTT(20) DEF NULL
  <1>2. made \in Nat
    BY Bounds DEF Typed
  <1>3. QED
    BY <1>1, <1>2, Bounds, SMTT(20) DEF Typed

LEMMA InitTypedShape == Init => Typed /\ Shape
  <1> SUFFICES ASSUME Init PROVE Typed /\ Shape
    OBVIOUS
  <1>1. Typed
    <2>1. \A s \in Slabs : slab[s] \in Record
      <3>1. Blank \in Record
        BY Bounds DEF Blank, Record, NULL
      <3>2. \A s \in 1 .. Len(Classes) : Built(s) \in Record
        BY Bounds DEF Built, Record, NULL
      <3>3. QED
        BY <3>1, <3>2, Bounds DEF Init
    <2>2. slab \in [Slabs -> Record]
      BY <2>1 DEF Init
    <2>3. 0 \in 0 .. ObjCount - 1 /\ 0 \in 0 .. ObjCount /\ Len(Classes) \in Slabs
      BY Bounds
    <2>4. None \in [base : Nat, k : 0 .. ObjCount - 1]
      BY <2>3 DEF None, NULL
    <2>5. first \in Slabs /\ "idle" \in Places
      BY Bounds DEF Places
    <2>6. QED
      BY <2>2, <2>3, <2>4, <2>5 DEF Init, Typed
  <1>2. ASSUME NEW s \in Slabs PROVE SlabShape(s)
    <2>1. slab[s] = IF s <= Len(Classes) THEN Built(s) ELSE Blank
      BY DEF Init
    <2>2. CASE s <= Len(Classes)
      BY <2>1, <2>2, Bounds DEF Init, SlabShape, Built, NULL, first
    <2>3. CASE ~(s <= Len(Classes))
      BY <2>1, <2>3, Bounds DEF Init, SlabShape, Blank, NULL, first
    <2>4. QED
      BY <2>2, <2>3
  <1>3. ASSUME NEW c \in CPUs PROVE ShapeOf(c)
    BY Bounds DEF Init, ShapeOf, InMalloc, InBuild, first
  <1>4. QED
    BY <1>1, <1>2, <1>3 DEF Shape

\* Everything a step of c does, given what every state satisfies.
Whole(c) ==
    /\ Typed /\ Shape /\ Effect(c) /\ \A s \in Slabs : ByField(c, s)

LEMMA StepWhole ==
    ASSUME Typed, Shape, NEW c \in CPUs, Acts(c)
    PROVE  Whole(c)
  BY StepEffect, FieldEffect DEF Whole

\* The functions stay functions.
LEMMA ActsOnFunctions ==
    ASSUME Typed, NEW c \in CPUs, Acts(c)
    PROVE  /\ at' = [d \in CPUs |-> at'[d]] /\ op' = [d \in CPUs |-> op'[d]]
           /\ cur' = [d \in CPUs |-> cur'[d]] /\ i' = [d \in CPUs |-> i'[d]]
           /\ copy' = [d \in CPUs |-> copy'[d]] /\ want' = [d \in CPUs |-> want'[d]]
           /\ ptr' = [d \in CPUs |-> ptr'[d]] /\ slab' = [s \in Slabs |-> slab'[s]]

  <1>0. /\ at \in [CPUs -> Places] /\ op \in [CPUs -> {"none", "malloc", "free"}]
        /\ cur \in [CPUs -> Slabs] /\ i \in [CPUs -> 0 .. ObjCount - 1]
        /\ copy \in [CPUs -> Nat] /\ want \in [CPUs -> 0 .. ObjCount]
        /\ ptr \in [CPUs -> [base : Nat, k : 0 .. ObjCount - 1]]
        /\ slab \in [Slabs -> Record]
    BY DEF Typed
  <1>1. CASE (\E size \in Sizes : CallMalloc(c, size)) \/ CallFree(c)
    BY <1>0, <1>1 DEF CallMalloc, CallFree, Goto, Same
  <1>2. CASE Acquire(c) \/ Look(c) \/ Mark(c) \/ Load(c)
    BY <1>0, <1>2 DEF Acquire, Look, Mark, Load, Goto, Same
  <1>3. CASE Probe(c)
    <2>1. /\ slab' = slab /\ op' = op /\ cur' = cur /\ copy' = copy /\ want' = want /\ ptr' = ptr
          /\ \/ \E x \in Places : at' = [at EXCEPT ![c] = x]
             \/ at' = at
          /\ \/ \E x \in Int : i' = [i EXCEPT ![c] = x]
             \/ i' = i
      <3>1. i[c] + 1 \in Int
        BY <1>0
      <3>2. QED
        BY <1>3, <3>1 DEF Probe, Goto, Same, Places
    <2>2. QED
      BY <1>0, <2>1
  <1>4. CASE Store(c)
    <2>1. /\ op' = op /\ cur' = cur /\ i' = i /\ want' = want /\ ptr' = ptr
          /\ copy' = [copy EXCEPT ![c] = 0]
          /\ \E x : at' = [at EXCEPT ![c] = x]
          /\ \E x : slab' = [slab EXCEPT ![cur[c]] = x]
      <3>1. CASE op[c] = "malloc"
        BY <1>4, <3>1 DEF Store, Goto, Same
      <3>2. CASE op[c] # "malloc"
        BY <1>4, <3>2 DEF Store, Goto, Same
      <3>3. QED
        BY <3>1, <3>2
    <2>2. QED
      BY <1>0, <2>1
  <1>5. CASE InRange(c) \/ Clear(c)
    BY <1>0, <1>5 DEF InRange, Clear, Goto, Same
  <1>6. CASE Return(c)
    BY <1>0, <1>6 DEF Return, Release, Finish, Goto
  <1>7. CASE Leave(c)
    BY <1>0, <1>7 DEF Leave, Release, Finish, Goto, Same
  <1>8. CASE FindTail(c) \/ Link(c) \/ Follow(c)
    BY <1>0, <1>8 DEF FindTail, Link, Follow, Goto, Same
  <1>9. CASE Fields(c) \/ Bitmap(c) \/ Reset(c)
    BY <1>0, <1>9 DEF Fields, Bitmap, Reset, Goto, Same
  <1>10. QED
    BY <1>1, <1>2, <1>3, <1>4, <1>5, <1>6, <1>7, <1>8, <1>9 DEF Acts

LEMMA StepTyped ==
    ASSUME NEW c \in CPUs, Acts(c), Whole(c), Watch
    PROVE  Typed'
  <1>0. Typed /\ Moves(c) /\ cur[c] \in Slabs /\ slab[cur[c]] \in Record /\ ShapeOf(c)
    BY DEF Whole, Effect, Typed, Shape
  <1>1. made' \in Slabs
    BY <1>0, Bounds DEF Whole, Effect, Moves, Typed
  <1>2. ASSUME NEW s \in Slabs PROVE slab'[s] \in Record
    <2>1. slab[s] \in Record
      BY <1>0 DEF Typed
    <2>2. s # cur[c] => slab'[s] = slab[s]
      BY DEF Whole, Effect
    <2>3. slab'[cur[c]] = Written(c)
      BY DEF Whole, Effect
    <2>4. Written(c) \in Record
      <3>1. /\ copy[c] + 1 \in Nat /\ (copy[c] - 1) % Modulus \in 0 .. Modulus - 1
            /\ ObjCount \in 0 .. Modulus - 1 /\ want[c] \in 0 .. ObjCount
        BY <1>0, Bounds, SMTT(20) DEF Typed
      <3>2. made \in Nat /\ (at[c] = "link" => made + 1 \in 0 .. MaxSlabs)
        BY <1>0, Bounds DEF Typed, Moves
      <3>3. /\ (IF slab[cur[c]].base = NULL THEN cur[c] ELSE slab[cur[c]].base + MaxSlabs) \in Nat
            /\ i[c] \in 0 .. ObjCount - 1
        <4>1. slab[cur[c]].base \in Nat /\ cur[c] \in Nat
          BY <1>0, Bounds, SMTT(20) DEF Record
        <4>2. slab[cur[c]].base + MaxSlabs \in Nat
          BY <4>1, Bounds
        <4>3. i[c] \in 0 .. ObjCount - 1
          BY <1>0 DEF Typed
        <4>4. QED
          BY <4>1, <4>2, <4>3
      <3>4. CASE at[c] \in {"mark", "clear", "return", "leave", "bitmap", "reset"}
        BY <1>0, <3>3, <3>4 DEF Written, Record
      <3>9. CASE at[c] = "acquire"
        <4>1. slab'[cur[c]].locked \in BOOLEAN
          BY <3>9 DEF Whole, Effect
        <4>2. QED
          BY <1>0, <3>9, <4>1 DEF Written, Record
      <3>5. CASE at[c] \in {"store", "link"}
        BY <1>0, <3>1, <3>2, <3>5 DEF Written, Record
      <3>6. CASE at[c] = "fields"
        BY <1>0, <3>1, <3>3, <3>6 DEF Written, Record
      <3>7. CASE at[c] \notin {"acquire", "mark", "clear", "return", "leave", "bitmap", "reset",
                               "store", "link", "fields"}
        BY <1>0, <3>7 DEF Written
      <3>8. QED
        BY <3>4, <3>5, <3>6, <3>7, <3>9
    <2>5. QED
      BY <2>1, <2>2, <2>3, <2>4
  <1>3. ASSUME NEW d \in CPUs
        PROVE  /\ at'[d] \in Places /\ op'[d] \in {"none", "malloc", "free"}
               /\ cur'[d] \in Slabs /\ i'[d] \in 0 .. ObjCount - 1 /\ copy'[d] \in Nat
               /\ want'[d] \in 0 .. ObjCount /\ ptr'[d] \in [base : Nat, k : 0 .. ObjCount - 1]
    <2>1. CASE d # c
      BY <2>1 DEF Whole, Effect, Stays, Typed
    <2>2. CASE d = c
      <3>1. at'[c] \in Places
        BY <1>0 DEF Moves, Typed, Places
      <3>2. op'[c] \in {"none", "malloc", "free"}
        BY <1>0 DEF Moves, Typed
      <3>3. cur'[c] \in Slabs
        <4>1. slab[cur[c]].next # NULL => slab[cur[c]].next \in Slabs
          BY <1>0, Bounds DEF Record, NULL
        <4>2. QED
          BY <1>0, <4>1, Bounds DEF Moves, ShapeOf
      <3>4. i'[c] \in 0 .. ObjCount - 1
        <4>1. slab[cur[c]].size \in 0 .. ObjCount /\ i[c] \in 0 .. ObjCount - 1
          BY <1>0 DEF Record, Typed
        <4>2. i'[c] \in {i[c], 0} \/ (i'[c] = i[c] + 1 /\ i[c] + 1 < slab[cur[c]].size)
          BY <1>0 DEF Moves
        <4>3. QED
          BY <4>1, <4>2, Bounds
      <3>5. copy'[c] \in Nat
        <4>1. slab[cur[c]].used \in Nat /\ slab[cur[c]].count \in Nat /\ copy[c] \in Nat
          BY <1>0, Bounds DEF Record, Typed
        <4>2. QED
          BY <1>0, <4>1 DEF Moves
      <3>6. want'[c] \in 0 .. ObjCount
        <4>1. want[c] \in 0 .. ObjCount /\ 0 \in 0 .. ObjCount
          BY <1>0, Bounds DEF Typed
        <4>2. want'[c] \in {want[c], 0} \cup Sizes
          BY <1>0 DEF Moves
        <4>3. \A n \in Sizes : n \in 0 .. ObjCount
          BY Bounds
        <4>4. QED
          BY <4>1, <4>2, <4>3
      <3>7. ptr'[c] \in [base : Nat, k : 0 .. ObjCount - 1]
        <4>1. /\ ptr[c] \in [base : Nat, k : 0 .. ObjCount - 1]
              /\ None \in [base : Nat, k : 0 .. ObjCount - 1]
              /\ [base |-> slab[cur[c]].base, k |-> i[c]] \in [base : Nat, k : 0 .. ObjCount - 1]
          BY <1>0, Bounds DEF Record, Typed, None, NULL
        <4>2. QED
          BY <1>0, <4>1 DEF Moves
      <3>8. QED
        BY <2>2, <3>1, <3>2, <3>3, <3>4, <3>5, <3>6, <3>7
    <2>3. QED
      BY <2>1, <2>2
  <1>4. gaveUp' \in BOOLEAN /\ crowded' \in BOOLEAN
    BY DEF Whole, Effect, Watch
  <1>5. QED
    <2>1. slab' \in [Slabs -> Record]
      BY <1>0, <1>2, ActsOnFunctions
    <2>2. /\ at' \in [CPUs -> Places] /\ op' \in [CPUs -> {"none", "malloc", "free"}]
          /\ cur' \in [CPUs -> Slabs] /\ i' \in [CPUs -> 0 .. ObjCount - 1]
      BY <1>0, <1>3, ActsOnFunctions
    <2>3. /\ copy' \in [CPUs -> Nat] /\ want' \in [CPUs -> 0 .. ObjCount]
          /\ ptr' \in [CPUs -> [base : Nat, k : 0 .. ObjCount - 1]]
      BY <1>0, <1>3, ActsOnFunctions
    <2>4. QED
      BY <1>1, <1>4, <2>1, <2>2, <2>3 DEF Typed

LEMMA StepSlabShape ==
    ASSUME NEW c \in CPUs, Whole(c), NEW s \in Slabs
    PROVE  SlabShape(s)'
  <1>0. /\ Typed /\ Moves(c) /\ cur[c] \in Slabs /\ ShapeOf(c) /\ SlabShape(s) /\ ByField(c, s)
        /\ slab[s] \in Record /\ made \in Nat /\ s \in Nat /\ cur[c] <= made
        /\ slab[s].base \in Nat /\ slab[s].next \in Nat /\ MaxSlabs >= 1 /\ MaxSlabs \in Nat
        /\ Len(Classes) \in Nat /\ 1 <= Len(Classes)
    <2>1. /\ Typed /\ Moves(c) /\ cur[c] \in Slabs /\ ShapeOf(c) /\ SlabShape(s) /\ ByField(c, s)
          /\ slab[s] \in Record /\ made \in Slabs
      BY DEF Whole, Effect, Typed, Shape
    <2>2. slab[s].base \in Nat /\ slab[s].next \in Nat /\ s \in Nat /\ made \in Nat
      BY <2>1, Bounds, SMTT(20) DEF Record
    <2>3. cur[c] <= made
      BY <2>1 DEF ShapeOf
    <2>4. QED
      BY <2>1, <2>2, <2>3, Bounds
  <1>m. made' \in Nat /\ made' = IF at[c] = "link" THEN made + 1 ELSE made
    BY <1>0 DEF Whole, Effect
  <1>1. s > made' => slab'[s] = Blank
    BY <1>0, <1>m DEF Whole, Effect, SlabShape
  <1>2. /\ slab'[s].next = NULL \/ (s < slab'[s].next /\ slab'[s].next <= made')
        /\ s < Len(Classes) => slab'[s].next # NULL
    BY <1>0, <1>m DEF ByField, Following, SlabShape, NULL
  <1>3. s <= Len(Classes) => slab'[s].mapped
    BY <1>0 DEF ByField, SlabShape
  <1>4. slab'[s].base = first <=> s = first
    <2>1. slab'[s].base = Base(c, s) /\ (slab[s].base = first <=> s = first)
      BY <1>0 DEF ByField, SlabShape
    <2>2. at[c] = "fields" => cur[c] > Len(Classes)
      BY <1>0 DEF ShapeOf, InBuild
    <2>3. CASE at[c] = "fields" /\ s = cur[c]
      <3>1. s # 1 /\ slab[s].base # 1
        BY <1>0, <2>1, <2>2, <2>3 DEF first
      <3>2. slab'[s].base = IF slab[s].base = 0 THEN s ELSE slab[s].base + MaxSlabs
        BY <2>1, <2>3 DEF Base, NULL
      <3>3. slab'[s].base # 1
        BY <1>0, <3>1, <3>2
      <3>4. QED
        BY <3>1, <3>3 DEF first
    <2>4. CASE ~(at[c] = "fields" /\ s = cur[c])
      BY <2>1, <2>4 DEF Base
    <2>5. QED
      BY <2>3, <2>4
  <1>5. slab'[s].mapped => slab'[s].base # NULL
    <2>1. slab'[s].base = Base(c, s)
      BY <1>0 DEF ByField
    <2>2. slab[s].base # 0 => slab'[s].base # 0
      BY <1>0, <2>1, Bounds DEF Base, NULL
    <2>3. slab'[s].mapped => slab[s].mapped \/ (at[c] = "bitmap" /\ s = cur[c])
      BY <1>0 DEF ByField
    <2>4. at[c] = "bitmap" => slab[cur[c]].base # NULL
      BY <1>0 DEF ShapeOf
    <2>5. slab[s].mapped => slab[s].base # NULL
      BY <1>0 DEF SlabShape
    <2>6. slab'[s].mapped => slab[s].base # NULL
      BY <2>3, <2>4, <2>5
    <2>7. QED
      BY <2>2, <2>6 DEF NULL
  <1>6. ~slab'[s].mapped => slab'[s].marks = {}
    BY <1>0 DEF ByField, Marks, SlabShape, ShapeOf, InMalloc
  <1>7. ~slab'[s].mapped /\ slab'[s].size # 0 => \E d \in CPUs : at'[d] = "bitmap" /\ cur'[d] = s
    <2> SUFFICES ASSUME ~slab'[s].mapped, slab'[s].size # 0
                 PROVE  \E d \in CPUs : at'[d] = "bitmap" /\ cur'[d] = s
      OBVIOUS
    <2>1. CASE at[c] = "fields" /\ s = cur[c]
      BY <1>0, <2>1 DEF Moves
    <2>2. CASE ~(at[c] = "fields" /\ s = cur[c])
      <3>1. PICK d \in CPUs : at[d] = "bitmap" /\ cur[d] = s
        BY <1>0, <2>2 DEF ByField, SlabShape
      <3>2. d # c
        BY <1>0, <3>1 DEF ByField
      <3>3. QED
        BY <3>1, <3>2 DEF Whole, Effect, Stays
    <2>3. QED
      BY <2>1, <2>2
  <1>8. QED
    BY <1>1, <1>2, <1>3, <1>4, <1>5, <1>6, <1>7 DEF SlabShape

LEMMA StepShapeOf ==
    ASSUME NEW c \in CPUs, Whole(c), NEW d \in CPUs
    PROVE  ShapeOf(d)'
  <1>0. /\ Typed /\ Moves(c) /\ ShapeOf(c) /\ ShapeOf(d) /\ made \in Nat
        /\ \A s \in Slabs : ByField(c, s) /\ SlabShape(s)
        /\ cur[c] \in Slabs /\ cur[d] \in Slabs
    BY Types DEF Whole, Effect, Shape
  <1>m. made' = (IF at[c] = "link" THEN made + 1 ELSE made) /\ made <= made'
    BY <1>0 DEF Whole, Effect
  \* What the slabs keep, whoever looks at them.
  <1>s. ASSUME NEW s \in Slabs
        PROVE  /\ slab[s].mapped => slab'[s].mapped
               /\ slab[s].size # 0 => slab'[s].size # 0
               /\ slab[s].next # NULL => slab'[s].next # NULL
               /\ slab[s].base # NULL => slab'[s].base # NULL
    <2>1. at[c] = "fields" => want[c] >= 1
      BY <1>0 DEF ShapeOf, InMalloc
    <2>2. slab[s].base \in Nat /\ MaxSlabs \in Nat /\ MaxSlabs >= 1 /\ s >= 1
      BY <1>0, Bounds DEF Typed, Record
    <2>3. want[c] \in Int
      BY <1>0 DEF Typed
    <2>4. ByField(c, s)
      BY <1>0
    <2>5. slab[s].base # NULL => slab'[s].base # NULL
      BY <2>2, <2>4 DEF ByField, Base, NULL
    <2>6. slab[s].next # NULL => slab'[s].next # NULL
      BY <1>0, <2>4 DEF ByField, Following, NULL
    <2>7. slab[s].size # 0 => slab'[s].size # 0
      BY <2>1, <2>3, <2>4 DEF ByField
    <2>8. QED
      BY <2>4, <2>5, <2>6, <2>7 DEF ByField
  <1>1. CASE d # c
    <2>1. Stays(d)
      BY <1>1 DEF Whole, Effect
    <2>2. cur'[d] <= made'
      <3>1. cur[d] \in Nat /\ cur[d] <= made
        BY <1>0, Bounds DEF ShapeOf
      <3>2. QED
        BY <1>0, <1>m, <2>1, <3>1 DEF Stays
    <2>3. QED
      BY <1>0, <1>s, <2>1, <2>2 DEF ShapeOf, Stays
  <1>2. CASE d = c
    <2>n. /\ slab[cur[c]].next = NULL \/ cur[c] < slab[cur[c]].next
          /\ slab[cur[c]].next <= made /\ cur[c] <= made /\ first <= made
          /\ slab[cur[c]].next \in Nat /\ cur[c] \in Nat
          /\ cur[c] < Len(Classes) => slab[cur[c]].next # NULL
      <3>1. cur[c] \in Nat /\ made \in Slabs /\ slab[cur[c]].next \in Nat
        BY <1>0, Types DEF Typed
      <3>2. SlabShape(cur[c])
        BY <1>0
      <3>3. QED
        BY <1>0, <3>1, <3>2, Bounds DEF SlabShape, ShapeOf, NULL, first
    <2>1. cur'[c] <= made'
      <3>1. cur'[c] \in {cur[c], first, slab[cur[c]].next}
        BY <1>0 DEF Moves
      <3>2. QED
        BY <1>m, <1>0, <2>n, <3>1 DEF first
    <2>2. /\ at'[c] = "idle" <=> op'[c] = "none"
          /\ at'[c] = "idle" => cur'[c] = first
          /\ at'[c] \in InMalloc => op'[c] = "malloc"
          /\ at'[c] \in {"range", "clear"} => op'[c] = "free"
      BY <1>0 DEF Moves, ShapeOf, InMalloc
    <2>3. /\ op'[c] = "malloc" => ptr'[c] = None /\ want'[c] >= 1
          /\ op'[c] = "free" => ptr'[c] # None
      <3>1. op[c] = "malloc" => ptr[c] = None /\ want[c] >= 1
        BY <1>0 DEF ShapeOf
      <3>2. op[c] = "free" => ptr[c] # None
        BY <1>0 DEF ShapeOf
      <3>3. \A n \in Sizes : n >= 1
        BY Bounds
      <3>4. at[c] = "idle" => op[c] = "none"
        BY <1>0 DEF ShapeOf
      <3>5. QED
        BY <1>0, <3>1, <3>2, <3>3, <3>4 DEF Moves
    <2>4. ptr'[c] # None => ptr'[c].base # NULL
      BY <1>0 DEF Moves, ShapeOf, SlabShape
    <2>5. /\ at'[c] = "acquire" /\ op'[c] = "malloc" => cur'[c] = first
          /\ at'[c] = "probe" => slab'[cur'[c]].size # 0
      <3>1. slab[cur[c]].size >= want[c] /\ want[c] >= 1 => slab[cur[c]].size # 0
        BY <1>0, Types
      <3>2. at[c] = "look" => want[c] >= 1
        BY <1>0 DEF ShapeOf, InMalloc
      <3>3. at[c] = "probe" => slab[cur[c]].size # 0
        BY <1>0 DEF ShapeOf
      <3>4. at'[c] = "probe" => slab[cur[c]].size # 0 /\ cur'[c] = cur[c]
        BY <1>0, <3>1, <3>2, <3>3 DEF Moves
      <3>5. at[c] \in {"idle", "reset"} \/ op[c] # "malloc" => op'[c] # "malloc" \/ cur'[c] = first
        BY <1>0 DEF Moves, ShapeOf
      <3>6. at'[c] = "acquire" => at[c] \in {"idle", "reset"} \/ op[c] # "malloc"
        BY <1>0 DEF Moves
      <3>7. QED
        BY <1>0, <1>s, <3>4, <3>5, <3>6
    <2>6. at'[c] \in {"mark", "load", "store", "return"} /\ op'[c] = "malloc" => slab'[cur'[c]].mapped
      BY <1>0, <1>s DEF Moves, ShapeOf
    <2>7. at'[c] \in {"load", "store", "clear"} /\ op'[c] = "free"
             => (ptr'[c].base = first <=> cur'[c] = first)
      BY <1>0 DEF Moves, ShapeOf, SlabShape, Owns, InMalloc
    <2>8. /\ at'[c] \in {"link", "follow"} => cur'[c] >= Len(Classes)
          /\ at'[c] = "follow" => slab'[cur'[c]].next # NULL
          /\ at'[c] \in InBuild => cur'[c] > Len(Classes)
          /\ at'[c] = "bitmap" => slab'[cur'[c]].base # NULL
      <3>1. /\ at[c] = "tail" /\ slab[cur[c]].next = NULL => cur[c] >= Len(Classes)
            /\ at[c] = "link" => cur[c] >= Len(Classes)
        BY <1>0, <2>n, Bounds DEF ShapeOf
      <3>2. at[c] = "link" => slab'[cur[c]].next = made + 1 /\ made + 1 # NULL
        BY <1>0 DEF ByField, Following, NULL
      <3>3. at[c] = "follow" => slab[cur[c]].next > Len(Classes)
        BY <1>0, <2>n, Bounds DEF ShapeOf
      <3>4. at[c] \in {"fields", "bitmap"} => cur[c] > Len(Classes)
        BY <1>0 DEF ShapeOf, InBuild
      <3>5. at[c] = "fields" => slab'[cur[c]].base # NULL
        <4>1. at[c] = "fields" =>
                 slab'[cur[c]].base = IF slab[cur[c]].base = 0 THEN cur[c]
                                      ELSE slab[cur[c]].base + MaxSlabs
          BY <1>0 DEF ByField, Base, NULL
        <4>2. cur[c] \in Nat /\ cur[c] >= 1 /\ slab[cur[c]].base \in Nat
          BY <1>0, Types
        <4>3. QED
          BY <4>1, <4>2, Bounds DEF NULL
      <3>6. /\ at'[c] = "link" => cur'[c] = cur[c] /\ at[c] = "tail" /\ slab[cur[c]].next = NULL
            /\ at'[c] = "follow" => cur'[c] = cur[c] /\ at[c] = "link"
            /\ at'[c] = "fields" => cur'[c] = slab[cur[c]].next /\ at[c] = "follow"
            /\ at'[c] \in {"bitmap", "reset"} => cur'[c] = cur[c] /\ at[c] \in {"fields", "bitmap"}
            /\ at'[c] = "bitmap" => at[c] = "fields"
        BY <1>0 DEF Moves
      <3>7. QED
        BY <3>1, <3>2, <3>3, <3>4, <3>5, <3>6 DEF InBuild
    <2>9. QED
      BY <1>2, <2>1, <2>2, <2>3, <2>4, <2>5, <2>6, <2>7, <2>8 DEF ShapeOf
  <1>3. QED
    BY <1>1, <1>2

-----------------------------------------------------------------------------
(* What the other parts need of a step, whole or in the next state. *)

LEMMA CrowdsStay ==
    ASSUME NEW c \in CPUs, Whole(c), Watch, CrowdSeen
    PROVE  /\ gaveUp => gaveUp'
           /\ crowded => crowded'
           /\ ~crowded' => ~crowded /\ ~Crowd /\ ~Crowd'
           /\ CrowdSeen'
  BY DEF Whole, Effect, Watch, CrowdSeen

LEMMA Alone ==
    ASSUME ~Crowd, NEW c \in CPUs, NEW d \in CPUs, Past(c), Past(d)
    PROVE  c = d
  BY DEF Crowd

\* A malloc between its mark and its return, or one that makes a slab, is past
\* the first slab unless it is in it.
LEMMA WhoIsPast ==
    ASSUME Typed, Shape, NEW c \in CPUs
    PROVE  /\ cur[c] # first /\ op[c] = "malloc" => Past(c)
           /\ at[c] \in {"tail", "link"} => Past(c)
           /\ at[c] \in InBuild => Past(c) /\ cur[c] # first
           /\ at[c] = "mark" /\ cur[c] # first => Past(c)
           /\ at[c] = "fault" => op[c] = "malloc"
  <1>1. ShapeOf(c) /\ cur[c] \in Nat
    BY Types DEF Shape
  <1>2. at[c] \in InBuild => cur[c] # first
    BY <1>1, Bounds DEF ShapeOf, first
  <1>3. QED
    BY <1>1, <1>2 DEF ShapeOf, Past, InMalloc, InBuild

\* The only way into the first slab is acquire.
LEMMA EnterFirst ==
    ASSUME NEW c \in CPUs, Whole(c)
    PROVE  InFirst(c)' => InFirst(c) \/ (at[c] = "acquire" /\ cur[c] = first)
  <1>0. Moves(c) /\ ShapeOf(c) /\ SlabShape(cur[c]) /\ cur[c] \in Nat /\ cur[c] \in Slabs
    BY Types DEF Whole, Effect, Shape
  <1>1. slab[cur[c]].next # NULL => slab[cur[c]].next # first
    <2>1. slab[cur[c]].next # NULL => slab[cur[c]].next > cur[c] /\ cur[c] >= 1
      BY <1>0, Types DEF SlabShape, Whole
    <2>2. QED
      BY <1>0, <2>1 DEF first
  <1>2. at[c] = "follow" => slab[cur[c]].next # NULL
    BY <1>0 DEF ShapeOf
  <1>3. QED
    BY <1>0, <1>1, <1>2 DEF Moves, InFirst

LEMMA StepFirstAlone ==
    ASSUME NEW c \in CPUs, Whole(c), FirstAlone
    PROVE  FirstAlone'
  <1> SUFFICES ASSUME ~gaveUp', NEW d \in CPUs, InFirst(d)'
               PROVE  slab'[first].locked /\ \A e \in CPUs : InFirst(e)' => d = e
    BY DEF FirstAlone
  <1>0. /\ Moves(c) /\ ShapeOf(c) /\ ByField(c, first) /\ cur[c] \in Slabs /\ first \in Slabs
        /\ \A e \in CPUs : e # c => Stays(e)
        /\ ~gaveUp /\ ~GivesUp(c)
        /\ SlabShape(cur[c]) /\ cur[c] \in Nat
    BY Bounds, Types DEF Whole, Effect, Shape
  <1>1. \A e \in CPUs : InFirst(e) => slab[first].locked /\ \A g \in CPUs : InFirst(g) => e = g
    BY <1>0 DEF FirstAlone
  <1>2. \A e \in CPUs : e # c => (InFirst(e)' <=> InFirst(e))
    BY <1>0 DEF Stays, InFirst
  <1>3. InFirst(c)' => InFirst(c) \/ (at[c] = "acquire" /\ cur[c] = first)
    BY EnterFirst
  <1>4. CASE at[c] = "acquire" /\ cur[c] = first
    <2>1. ~slab[first].locked /\ slab'[first].locked
      BY <1>0, <1>4 DEF GivesUp
    <2>2. \A e \in CPUs : ~InFirst(e)
      BY <1>1, <2>1
    <2>3. QED
      BY <1>2, <2>1, <2>2
  <1>5. CASE InFirst(c)
    <2>1. d = c /\ \A e \in CPUs : InFirst(e)' => e = c
      BY <1>1, <1>2, <1>5
    <2>2. at[c] \notin {"return", "leave", "reset"}
      <3>1. at[c] # "reset"
        BY <1>5, WhoIsPast DEF Whole, InFirst, InBuild
      <3>2. at[c] \notin {"return", "leave"}
        <4>1. InFirst(c)'
          BY <2>1
        <4>2. at[c] = "leave" /\ slab[cur[c]].next # NULL => slab[cur[c]].next # first
          <5>1. slab[cur[c]].next # NULL => slab[cur[c]].next > cur[c] /\ cur[c] >= 1
            BY <1>0, Types DEF SlabShape, Whole
          <5>2. QED
            BY <1>0, <5>1 DEF first
        <4>3. QED
          BY <1>0, <4>1, <4>2 DEF Moves, InFirst
      <3>3. QED
        BY <3>1, <3>2
    <2>3. slab'[first].locked
      BY <1>0, <1>1, <1>5, <2>2 DEF ByField, Word, InFirst
    <2>4. QED
      BY <2>1, <2>3
  <1>6. CASE ~InFirst(c) /\ ~(at[c] = "acquire" /\ cur[c] = first)
    <2>1. d # c /\ InFirst(d) /\ \A e \in CPUs : InFirst(e)' => InFirst(e)
      BY <1>2, <1>3, <1>6
    <2>2. ~(at[c] \in {"return", "leave"} /\ cur[c] = first)
      BY <1>6 DEF InFirst
    <2>3. ~(at[c] = "reset" /\ cur[c] = first)
      BY WhoIsPast DEF Whole, InBuild
    <2>4. slab'[first].locked
      BY <1>0, <1>1, <1>6, <2>1, <2>2, <2>3 DEF ByField, Word
    <2>5. QED
      BY <1>1, <2>1, <2>4
  <1>7. QED
    BY <1>4, <1>5, <1>6

-----------------------------------------------------------------------------
(* Slabs in the making. *)

\* A step leaves the target of every other CPU's making alone while no two
\* mallocs are past the first slab.
LEMMA TargetsStay ==
    ASSUME NEW c \in CPUs, Whole(c), ~crowded, Builds, NEW d \in CPUs, d # c, Making(d)
    PROVE  Making(d)' /\ Target(d)' = Target(d) /\ Target(d) \in Slabs /\ Target(d) <= made
  <1>0. /\ Typed /\ Stays(d) /\ cur[d] \in Slabs /\ ShapeOf(d) /\ ByField(c, cur[d])
        /\ SlabShape(cur[d]) /\ made \in Nat /\ cur[d] \in Nat /\ slab[cur[d]].next \in Nat
    BY Types DEF Whole, Effect, Shape
  <1>1. Making(d)'
    BY <1>0 DEF Making, Stays
  <1>2. CASE at[d] = "follow"
    <2>1. slab[cur[d]].next # NULL
      BY <1>0, <1>2 DEF ShapeOf
    <2>2. slab[cur[d]].next \in Slabs /\ slab[cur[d]].next <= made
      BY <1>0, <2>1, Types DEF SlabShape
    <2>3. ~(at[c] = "link" /\ cur[c] = cur[d])
      BY <2>1 DEF Builds
    <2>4. slab'[cur[d]].next = slab[cur[d]].next
      BY <1>0, <2>3 DEF ByField, Following
    <2>5. QED
      BY <1>0, <1>1, <1>2, <2>2, <2>4 DEF Target, Stays
  <1>3. CASE at[d] # "follow"
    BY <1>0, <1>1, <1>3 DEF Target, Stays, ShapeOf
  <1>4. QED
    BY <1>2, <1>3

LEMMA StepBuilds ==
    ASSUME NEW c \in CPUs, Whole(c), Watch, CrowdSeen, Builds
    PROVE  Builds'
  <1> SUFFICES ASSUME ~crowded' PROVE Builds'
    BY DEF Builds
  <1>0. /\ Typed /\ Shape /\ Moves(c) /\ ShapeOf(c) /\ cur[c] \in Slabs /\ cur[c] \in Nat /\ made \in Nat
        /\ ~crowded /\ ~Crowd /\ \A s \in Slabs : ByField(c, s) /\ SlabShape(s)
        /\ \A d \in CPUs : d # c => Stays(d)
    BY CrowdsStay, Types DEF Whole, Effect, Shape
  <1>1. /\ \A s \in Slabs : slab[s].base \in {NULL, s}
        /\ \A d \in CPUs :
              /\ at[d] = "link" => slab[cur[d]].next = NULL
              /\ Making(d) => /\ ~slab[Target(d)].mapped
                              /\ (slab[Target(d)].base = NULL <=> at[d] # "bitmap")
                              /\ \A e \in CPUs : Making(e) /\ Target(e) = Target(d) => d = e
              /\ at[d] \in {"load", "store", "clear"} /\ op[d] = "free" => ptr[d].base = cur[d]
    BY <1>0 DEF Builds
  <1>t. \A d \in CPUs : d # c /\ Making(d) =>
            Making(d)' /\ Target(d)' = Target(d) /\ Target(d) \in Slabs /\ Target(d) <= made
    BY <1>0, TargetsStay
  <1>u. \A d \in CPUs : d # c => (Making(d)' <=> Making(d))
    BY <1>0 DEF Making, Stays
  <1>2. ASSUME NEW s \in Slabs PROVE slab'[s].base \in {NULL, s}
    <2>1. at[c] = "fields" => slab[cur[c]].base = NULL
      BY <1>1 DEF Making, Target
    <2>2. QED
      BY <1>0, <1>1, <2>1 DEF ByField, Base
  <1>3. ASSUME NEW d \in CPUs, at'[d] = "link" PROVE slab'[cur'[d]].next = NULL
    <2>1. CASE d = c
      <3>1. at[c] = "tail" /\ slab[cur[c]].next = NULL /\ cur'[c] = cur[c]
        BY <1>0, <1>3, <2>1 DEF Moves
      <3>2. QED
        BY <1>0, <2>1, <3>1 DEF ByField, Following
    <2>2. CASE d # c
      <3>1. at[d] = "link" /\ cur'[d] = cur[d] /\ cur[d] \in Slabs
        BY <1>0, <1>3, <2>2, Types DEF Stays
      <3>2. at[c] # "link"
        <4> SUFFICES ASSUME at[c] = "link" PROVE FALSE
          OBVIOUS
        <4>1. Past(d) /\ Past(c)
          BY <1>0, <3>1, WhoIsPast
        <4>2. c = d
          BY <1>0, <4>1, Alone
        <4>3. QED
          BY <2>2, <4>2
      <3>3. ByField(c, cur[d]) /\ slab[cur[d]].next = NULL
        BY <1>0, <1>1, <3>1
      <3>4. QED
        BY <3>1, <3>2, <3>3 DEF ByField, Following
    <2>3. QED
      BY <2>1, <2>2
  \* What becomes of c's own target.
  <1>4. ASSUME Making(c)'
        PROVE  /\ Target(c)' \in Slabs
               /\ \/ at[c] = "link" /\ Target(c)' = made + 1
                  \/ at[c] \in {"follow", "fields"} /\ Making(c) /\ Target(c)' = Target(c)
    <2>1. at[c] \in {"link", "follow", "fields"}
      BY <1>0, <1>4 DEF Moves, Making
    <2>2. CASE at[c] = "link"
      <3>1. at'[c] = "follow" /\ cur'[c] = cur[c] /\ made + 1 \in Slabs
        BY <1>0, <2>2, Bounds DEF Moves
      <3>2. slab'[cur[c]].next = made + 1
        BY <1>0, <2>2 DEF ByField, Following
      <3>3. QED
        BY <2>2, <3>1, <3>2 DEF Target
    <2>3. CASE at[c] = "follow"
      <3>1. slab[cur[c]].next \in Slabs
        BY <1>0, <2>3, Types DEF ShapeOf
      <3>2. at'[c] = "fields" /\ cur'[c] = slab[cur[c]].next
        BY <1>0, <2>3 DEF Moves
      <3>3. QED
        BY <2>3, <3>1, <3>2 DEF Target, Making
    <2>4. CASE at[c] = "fields"
      BY <1>0, <2>4 DEF Moves, Target, Making
    <2>5. QED
      BY <2>1, <2>2, <2>3, <2>4
  <1>5. ASSUME NEW d \in CPUs, Making(d)', NEW e \in CPUs, Making(e)', Target(e)' = Target(d)'
        PROVE  d = e
    <2>1. CASE d # c /\ e # c
      BY <1>1, <1>5, <1>t, <1>u, <2>1
    <2>2. ASSUME NEW g \in CPUs, g # c, Making(g)', Making(c)', Target(g)' = Target(c)' PROVE FALSE
      <3>1. Making(g) /\ Target(g)' = Target(g) /\ Target(g) <= made /\ Target(g) \in Slabs
        BY <1>t, <1>u, <2>2
      <3>2. CASE at[c] = "link" /\ Target(c)' = made + 1
        <4>1. Target(g) = made + 1
          BY <2>2, <3>1, <3>2
        <4>2. made + 1 <= made
          BY <3>1, <4>1
        <4>3. QED
          BY <1>0, <4>2
      <3>3. CASE Making(c) /\ Target(c)' = Target(c)
        BY <1>1, <2>2, <3>1, <3>3
      <3>4. QED
        BY <1>4, <2>2, <3>2, <3>3
    <2>3. QED
      BY <1>5, <2>1, <2>2
  <1>6. ASSUME NEW d \in CPUs, Making(d)'
        PROVE  /\ ~slab'[Target(d)'].mapped
               /\ slab'[Target(d)'].base = NULL <=> at'[d] # "bitmap"
    <2>1. CASE d # c
      <3>1. Making(d) /\ Target(d)' = Target(d) /\ Target(d) \in Slabs /\ at'[d] = at[d]
        BY <1>0, <1>6, <1>t, <1>u, <2>1 DEF Stays
      <3>2. at[c] \in {"fields", "bitmap"} => cur[c] # Target(d)
        BY <1>1, <2>1, <3>1 DEF Making, Target
      <3>3. ByField(c, Target(d))
        BY <1>0, <3>1
      <3>4. QED
        BY <1>1, <3>1, <3>2, <3>3 DEF ByField, Base
    <2>2. CASE d = c
      <3>1. CASE at[c] = "link" /\ Target(c)' = made + 1
        <4>1. made + 1 \in Slabs /\ slab[made + 1] = Blank
          BY <1>0, <1>4, <1>6, <2>2, <3>1 DEF SlabShape
        <4>2. ByField(c, made + 1) /\ at'[c] = "follow"
          BY <1>0, <3>1, <4>1 DEF Moves
        <4>3. QED
          BY <2>2, <3>1, <4>1, <4>2 DEF ByField, Base, Blank
      <3>2. CASE at[c] = "follow" /\ Making(c) /\ Target(c)' = Target(c)
        <4>1. Target(c) \in Slabs /\ at'[c] = "fields"
          BY <1>0, <1>4, <1>6, <2>2, <3>2 DEF Moves
        <4>2. ByField(c, Target(c))
          BY <1>0, <4>1
        <4>3. QED
          BY <1>1, <2>2, <3>2, <4>1, <4>2 DEF ByField, Base
      <3>3. CASE at[c] = "fields" /\ Making(c) /\ Target(c)' = Target(c)
        <4>1. Target(c) = cur[c] /\ at'[c] = "bitmap" /\ ByField(c, cur[c])
          BY <1>0, <3>3 DEF Moves, Target
        <4>2. ~slab[cur[c]].mapped /\ slab[cur[c]].base = NULL
          BY <1>1, <3>3, <4>1
        <4>3. slab'[cur[c]].base = cur[c] /\ cur[c] # NULL
          BY <1>0, <3>3, <4>1, <4>2, Types DEF ByField, Base, NULL
        <4>4. ~slab'[cur[c]].mapped
          BY <3>3, <4>1, <4>2 DEF ByField
        <4>5. QED
          BY <2>2, <3>3, <4>1, <4>3, <4>4
      <3>4. QED
        BY <1>4, <1>6, <2>2, <3>1, <3>2, <3>3
    <2>3. QED
      BY <2>1, <2>2
  <1>7. ASSUME NEW d \in CPUs, at'[d] \in {"load", "store", "clear"}, op'[d] = "free"
        PROVE  ptr'[d].base = cur'[d]
    <2>1. CASE d # c
      BY <1>0, <1>1, <1>7, <2>1 DEF Stays
    <2>2. CASE d = c
      <3>1. op[c] = "free" /\ ptr'[c] = ptr[c] /\ cur'[c] = cur[c]
        BY <1>0, <1>7, <2>2 DEF Moves
      <3>2. CASE at[c] = "range"
        <4>1. slab[cur[c]].base = ptr[c].base
          BY <1>0, <1>7, <2>2, <3>2 DEF Moves, Owns
        <4>2. ptr[c].base # NULL
          BY <1>0, <3>1 DEF ShapeOf
        <4>3. QED
          BY <1>0, <1>1, <2>2, <3>1, <4>1, <4>2
      <3>3. CASE at[c] # "range"
        <4>1. at[c] \in {"load", "store"}
          BY <1>0, <1>7, <2>2, <3>1, <3>3 DEF Moves, ShapeOf, InMalloc
        <4>2. QED
          BY <1>1, <2>2, <3>1, <4>1
      <3>4. QED
        BY <3>2, <3>3
    <2>3. QED
      BY <2>1, <2>2
  <1>8. QED
    BY <1>2, <1>3, <1>5, <1>6, <1>7 DEF Builds

-----------------------------------------------------------------------------
(* Objects and their owners. *)

\* Where no lock that matters has failed, the numbers are as they should be:
\* the base of a slab with a bitmap is its own number, and that of the slab a
\* free has chosen is its pointer's.
LEMMA TrustedBases ==
    ASSUME Typed, Shape, Builds
    PROVE  /\ \A s \in Slabs : slab[s].base # NULL /\ Trusted(slab[s].base) => slab[s].base = s
           /\ \A s \in Slabs : slab[s].mapped /\ Trusted(s) => slab[s].base = s
           /\ \A c \in CPUs : at[c] \in {"load", "store", "clear"} /\ op[c] = "free" =>
                 /\ Trusted(ptr[c].base) => ptr[c].base = cur[c]
                 /\ Trusted(cur[c]) => ptr[c].base = cur[c]
  <1>1. \A s \in Slabs : /\ slab[s].base = first <=> s = first
                         /\ slab[s].mapped => slab[s].base # NULL
    BY DEF Shape, SlabShape
  <1>2. ~crowded => \A s \in Slabs : slab[s].base \in {NULL, s}
    BY DEF Builds
  <1>3. \A c \in CPUs : at[c] \in {"load", "store", "clear"} /\ op[c] = "free" =>
            (ptr[c].base = first <=> cur[c] = first)
    BY DEF Shape, ShapeOf
  <1>4. ~crowded => \A c \in CPUs : at[c] \in {"load", "store", "clear"} /\ op[c] = "free" =>
            ptr[c].base = cur[c]
    BY DEF Builds
  <1>5. QED
    BY <1>1, <1>2, <1>3, <1>4 DEF Trusted

\* What a step does to the object that is a CPU's: nothing, unless the step
\* marks one, or clears the one it is freeing.
LEMMA OwnMoves ==
    ASSUME NEW c \in CPUs, Whole(c), Watch, CrowdSeen, Builds,
           NEW d \in CPUs, Own(d)' # None, Trusted(Own(d).base)'
    PROVE  /\ Trusted(Own(d)'.base)
           /\ \/ Own(d)' = Own(d) /\ ~(d = c /\ at[c] \in {"mark", "clear"})
              \/ /\ d = c /\ at[c] = "mark" /\ Trusted(cur[c])
                 /\ Own(d)' = [base |-> cur[c], k |-> i[c]] /\ slab[cur[c]].base = cur[c]
  <1>0. /\ Typed /\ Shape /\ Moves(c) /\ ShapeOf(c) /\ ShapeOf(d) /\ cur[c] \in Slabs /\ cur[d] \in Slabs
        /\ \A s \in Slabs : ByField(c, s) /\ SlabShape(s)
        /\ d # c => Stays(d)
    BY Types DEF Whole, Effect, Shape
  <1>1. Trusted(Own(d)'.base)
    BY CrowdsStay DEF Trusted
  <1>2. \A s \in Slabs : ~(at[c] = "fields" /\ s = cur[c]) => slab'[s].base = slab[s].base
    BY <1>0 DEF ByField, Base
  <1>3. CASE d # c
    <2>1. CASE op[d] = "malloc" /\ at[d] \in {"load", "store", "return"}
      <3>1. Own(d)' = [base |-> slab'[cur[d]].base, k |-> i[d]]
        BY <1>0, <1>3, <2>1 DEF Own, Stays
      <3>2. ~(at[c] = "fields" /\ cur[d] = cur[c])
        <4> SUFFICES ASSUME at[c] = "fields", cur[d] = cur[c] PROVE FALSE
          OBVIOUS
        <4>1. Past(c) /\ Past(d) /\ cur[c] # first
          BY <1>0, <2>1, WhoIsPast DEF InBuild
        <4>2. crowded'
          BY <1>3, <4>1, Alone, CrowdsStay
        <4>3. slab'[cur[d]].base # first
          <5>1. slab[cur[c]].base # first /\ slab[cur[c]].base \in Nat /\ cur[c] \in Nat
            BY <1>0, <4>1, Types DEF SlabShape
          <5>2. slab'[cur[c]].base = IF slab[cur[c]].base = NULL THEN cur[c]
                                     ELSE slab[cur[c]].base + MaxSlabs
            BY <1>0 DEF ByField, Base
          <5>3. QED
            BY <4>1, <5>1, <5>2, Bounds DEF first, NULL
        <4>4. QED
          BY <3>1, <4>2, <4>3 DEF Trusted
      <3>3. QED
        BY <1>0, <1>1, <1>2, <1>3, <2>1, <3>1, <3>2 DEF Own
    <2>2. CASE ~(op[d] = "malloc" /\ at[d] \in {"load", "store", "return"})
      BY <1>0, <1>1, <1>3, <2>2 DEF Own, Stays
    <2>3. QED
      BY <2>1, <2>2
  <1>4. CASE d = c
    <2>1. CASE at[c] = "mark"
      <3>1. Own(c)' = [base |-> slab[cur[c]].base, k |-> i[c]]
        BY <1>0, <1>2, <2>1 DEF Moves, ShapeOf, InMalloc, Own
      <3>2. slab[cur[c]].mapped
        BY <1>0, <2>1 DEF ShapeOf, InMalloc
      <3>3. slab[cur[c]].base # NULL /\ Trusted(slab[cur[c]].base)
        BY <1>0, <1>1, <1>4, <3>1, <3>2 DEF SlabShape
      <3>4. slab[cur[c]].base = cur[c]
        BY <1>0, <3>3, TrustedBases
      <3>5. QED
        BY <1>1, <1>4, <2>1, <3>1, <3>3, <3>4
    <2>2. CASE at[c] \in {"load", "store"} /\ op[c] = "malloc"
      BY <1>0, <1>1, <1>2, <1>4, <2>2 DEF Moves, Own
    <2>3. CASE at[c] = "return"
      <3>1. Own(c)' = ptr'[c]
        BY <1>0, <2>3 DEF Moves, Own
      <3>2. CASE op[c] = "malloc"
        BY <1>0, <1>1, <1>4, <2>3, <3>1, <3>2 DEF Moves, Own
      <3>3. CASE op[c] # "malloc"
        BY <1>0, <1>4, <2>3, <3>1, <3>3 DEF Moves
      <3>4. QED
        BY <3>2, <3>3
    <2>4. CASE at[c] = "clear"
      BY <1>0, <1>4, <2>4 DEF Moves, Own, ShapeOf, InMalloc
    <2>5. CASE at[c] \notin {"mark", "return", "clear"} /\ ~(at[c] \in {"load", "store"} /\ op[c] = "malloc")
      <3>1. Own(c) = ptr[c]
        BY <2>5 DEF Own
      <3>2. Own(c)' = ptr'[c]
        BY <1>0, <2>5 DEF Own, Moves, ShapeOf, InMalloc
      <3>3. ptr'[c] \in {ptr[c], None}
        BY <1>0, <2>5 DEF Moves
      <3>4. QED
        BY <1>1, <1>4, <2>5, <3>1, <3>2, <3>3
    <2>6. QED
      BY <2>1, <2>2, <2>3, <2>4, <2>5
  <1>5. QED
    BY <1>3, <1>4

\* An object that is a CPU's before and after a step stays marked.
LEMMA MarkStays ==
    ASSUME NEW c \in CPUs, Whole(c), Builds, OwnersMarked, OwnersApart,
           NEW d \in CPUs, Own(d) # None, Trusted(Own(d).base), ~(d = c /\ at[c] = "clear")
    PROVE  LET b == Own(d).base
           IN b \in Slabs /\ slab'[b].base = b /\ Own(d).k \in slab'[b].marks
  <1> DEFINE b == Own(d).base
  <1>1. b \in Slabs /\ slab[b].base = b /\ Own(d).k \in slab[b].marks /\ b # NULL
    BY Types, Bounds DEF OwnersMarked, Whole, NULL
  <1>0. /\ Typed /\ Shape /\ ShapeOf(c) /\ ByField(c, b) /\ SlabShape(b) /\ ByField(c, cur[c])
        /\ cur[c] \in Slabs
    BY <1>1, Types DEF Whole, Shape
  <1>2. CASE cur[c] = b /\ at[c] \in {"fields", "bitmap"}
    <2>1. cur[c] # first
      BY <1>0, <1>2, WhoIsPast DEF InBuild
    <2>2. ~crowded
      BY <1>2, <2>1 DEF Trusted
    <2>3. ~slab[b].mapped /\ (at[c] = "fields" => slab[b].base = NULL)
      BY <1>2, <2>2 DEF Builds, Making, Target
    <2>4. slab[b].marks = {}
      BY <1>0, <2>3 DEF SlabShape
    <2>5. QED
      BY <1>1, <2>4
  <1>3. CASE cur[c] = b /\ at[c] = "clear"
    <2>1. op[c] = "free" /\ ptr[c] # None /\ Own(c) = ptr[c]
      BY <1>0, <1>3 DEF ShapeOf, Own
    <2>2. ptr[c].base = b
      BY <1>0, <1>3, <2>1, TrustedBases
    <2>3. ptr[c].k # Own(d).k
      <3> SUFFICES ASSUME ptr[c].k = Own(d).k PROVE FALSE
        OBVIOUS
      <3>1. Own(d) \in [base : Nat, k : Nat]
        <4>1. /\ ptr[d] \in [base : Nat, k : Nat] /\ i[d] \in Nat
              /\ slab[cur[d]].base \in Nat /\ None \in [base : Nat, k : Nat]
          BY <1>0, Types DEF None, NULL
        <4>2. QED
          BY <4>1 DEF Own
      <3>2. ptr[c] \in [base : Nat, k : Nat]
        BY <1>0, Types
      <3>3. Own(d) = ptr[c]
        BY <2>2, <3>1, <3>2
      <3>4. QED
        BY <1>3, <2>1, <3>3 DEF OwnersApart
    <2>4. QED
      BY <1>0, <1>1, <1>3, <2>3 DEF ByField, Base, Marks
  <1>4. CASE ~(cur[c] = b /\ at[c] \in {"fields", "bitmap", "clear"})
    BY <1>0, <1>1, <1>4 DEF ByField, Base, Marks
  <1>5. QED
    BY <1>2, <1>3, <1>4

LEMMA StepOwners ==
    ASSUME NEW c \in CPUs, Whole(c), Watch, CrowdSeen, Builds, OwnersMarked, OwnersApart, FoundFree
    PROVE  OwnersMarked' /\ OwnersApart'
  <1>0. /\ Typed /\ Shape /\ cur[c] \in Slabs /\ ByField(c, cur[c])
    BY Types DEF Whole
  <1>1. ASSUME NEW d \in CPUs, Own(d)' # None, Trusted(Own(d).base)'
        PROVE  LET b == Own(d)'.base
               IN b \in Slabs /\ slab'[b].base = b /\ Own(d)'.k \in slab'[b].marks
    <2>1. CASE Own(d)' = Own(d) /\ ~(d = c /\ at[c] \in {"mark", "clear"})
      <3>1. Own(d) # None /\ Trusted(Own(d).base) /\ ~(d = c /\ at[c] = "clear")
        BY <1>1, <2>1, OwnMoves
      <3>2. LET b == Own(d).base
            IN b \in Slabs /\ slab'[b].base = b /\ Own(d).k \in slab'[b].marks
        BY <3>1, MarkStays
      <3>3. QED
        BY <2>1, <3>2
    <2>2. CASE /\ d = c /\ at[c] = "mark" /\ Trusted(cur[c])
               /\ Own(d)' = [base |-> cur[c], k |-> i[c]] /\ slab[cur[c]].base = cur[c]
      BY <1>0, <2>2 DEF ByField, Base, Marks
    <2>3. QED
      BY <1>1, <2>1, <2>2, OwnMoves
  \* The object c marks is not another CPU's.
  <1>2. ASSUME at[c] = "mark", Trusted(cur[c]), NEW e \in CPUs, Own(e) # None,
               Trusted(Own(e).base), Own(e) = [base |-> cur[c], k |-> i[c]]
        PROVE  FALSE
    <2>1. i[c] \in slab[cur[c]].marks
      BY <1>2 DEF OwnersMarked
    <2>2. QED
      BY <1>2, <2>1 DEF FoundFree
  <1>3. ASSUME NEW d \in CPUs, NEW e \in CPUs, Own(d)' # None, Trusted(Own(d).base)', Own(d)' = Own(e)'
        PROVE  d = e
    <2>1. /\ Trusted(Own(d)'.base)
          /\ \/ Own(d)' = Own(d)
             \/ /\ d = c /\ at[c] = "mark" /\ Trusted(cur[c])
                /\ Own(d)' = [base |-> cur[c], k |-> i[c]]
      BY <1>3, OwnMoves
    <2>2. Own(e)' # None /\ Trusted(Own(e).base)'
      BY <1>3 DEF Trusted
    <2>3. \/ Own(e)' = Own(e)
          \/ /\ e = c /\ at[c] = "mark" /\ Trusted(cur[c])
             /\ Own(e)' = [base |-> cur[c], k |-> i[c]]
      BY <2>2, OwnMoves
    <2>4. CASE Own(d)' = Own(d) /\ Own(e)' = Own(e)
      BY <1>3, <2>1, <2>4 DEF OwnersApart
    <2>5. CASE /\ Own(d)' = Own(d) /\ e = c /\ at[c] = "mark" /\ Trusted(cur[c])
               /\ Own(e)' = [base |-> cur[c], k |-> i[c]]
      BY <1>2, <1>3, <2>1, <2>5
    <2>6. CASE /\ Own(e)' = Own(e) /\ d = c /\ at[c] = "mark" /\ Trusted(cur[c])
               /\ Own(d)' = [base |-> cur[c], k |-> i[c]]
      BY <1>2, <1>3, <2>1, <2>6
    <2>7. QED
      BY <2>1, <2>3, <2>4, <2>5, <2>6
  <1>4. OwnersMarked'
    BY <1>1 DEF OwnersMarked
  <1>5. OwnersApart'
    BY <1>3 DEF OwnersApart
  <1>6. QED
    BY <1>4, <1>5

\* A byte that was found clear stays clear until it is marked.
LEMMA StepFoundFree ==
    ASSUME NEW c \in CPUs, Whole(c), Watch, CrowdSeen, FirstAlone, FoundFree
    PROVE  FoundFree'
  <1> SUFFICES ASSUME NEW d \in CPUs, at'[d] = "mark", Trusted(cur[d])'
               PROVE  i'[d] \notin slab'[cur'[d]].marks
    BY DEF FoundFree
  <1>0. /\ Typed /\ Shape /\ Moves(c) /\ cur[c] \in Slabs /\ cur[d] \in Slabs
        /\ ByField(c, cur[d]) /\ (d # c => Stays(d))
    BY Types DEF Whole, Effect
  <1>1. Trusted(cur'[d])
    BY CrowdsStay DEF Trusted
  <1>2. CASE d = c
    <2>1. at[c] = "probe" /\ cur'[c] = cur[c] /\ i'[c] = i[c] /\ i[c] \notin slab[cur[c]].marks
      BY <1>0, <1>2 DEF Moves
    <2>2. QED
      BY <1>0, <1>2, <2>1 DEF ByField, Marks
  <1>3. CASE d # c
    <2>1. at[d] = "mark" /\ cur'[d] = cur[d] /\ i'[d] = i[d]
      BY <1>0, <1>3 DEF Stays
    <2>2. i[d] \notin slab[cur[d]].marks
      BY <1>1, <2>1 DEF FoundFree
    <2>3. ~(at[c] = "mark" /\ cur[c] = cur[d])
      <3> SUFFICES ASSUME at[c] = "mark", cur[c] = cur[d] PROVE FALSE
        OBVIOUS
      <3>1. CASE cur[d] = first
        <4>1. ~gaveUp /\ InFirst(c) /\ InFirst(d)
          BY <1>1, <2>1, <3>1 DEF Trusted, InFirst
        <4>2. QED
          BY <1>3, <4>1 DEF FirstAlone
      <3>2. CASE cur[d] # first
        <4>1. ~crowded' /\ Past(c) /\ Past(d)
          BY <1>0, <2>1, <3>2, WhoIsPast DEF Trusted
        <4>2. QED
          BY <1>3, <4>1, Alone, CrowdsStay
      <3>3. QED
        BY <3>1, <3>2
    <2>4. QED
      BY <1>0, <2>1, <2>2, <2>3 DEF ByField, Marks
  <1>4. QED
    BY <1>2, <1>3

LEMMA StepNoFault ==
    ASSUME NEW c \in CPUs, Whole(c), Watch, CrowdSeen, FaultsOnlyWhenCrowded
    PROVE  FaultsOnlyWhenCrowded'
  <1> SUFFICES ASSUME NEW d \in CPUs, at'[d] = "fault", ~crowded PROVE crowded'
    BY CrowdsStay DEF FaultsOnlyWhenCrowded
  <1>0. /\ Typed /\ Shape /\ Moves(c) /\ cur[c] \in Slabs /\ ShapeOf(c) /\ SlabShape(cur[c])
        /\ (d # c => Stays(d))
    BY Types DEF Whole, Effect, Shape
  <1>1. d = c
    BY <1>0 DEF Stays, FaultsOnlyWhenCrowded
  <1>2. at[c] = "probe" /\ ~slab[cur[c]].mapped /\ slab[cur[c]].size # 0
    BY <1>0, <1>1 DEF Moves, ShapeOf
  <1>3. PICK e \in CPUs : at[e] = "bitmap" /\ cur[e] = cur[c]
    BY <1>0, <1>2 DEF SlabShape
  <1>4. Past(e) /\ Past(c) /\ e # c
    BY <1>0, <1>2, <1>3, WhoIsPast DEF InBuild, ShapeOf, InMalloc
  <1>5. QED
    BY <1>4, Alone, CrowdsStay

-----------------------------------------------------------------------------
(* The counters of the first slab. *)

LEMMA SmallModulo ==
    ASSUME NEW n \in Nat, NEW m \in Nat, n < m
    PROVE  n % m = n
  OBVIOUS

LEMMA LagIs ==
    ASSUME FirstAlone, ~gaveUp, NEW c \in CPUs, InFirst(c)
    PROVE  Lag = IF Pending(c) THEN 1 ELSE 0
  BY DEF Lag, Pending, FirstAlone

LEMMA StepCounted ==
    ASSUME NEW c \in CPUs, Whole(c), FirstAlone, FirstAlone', Builds,
           OwnersMarked, FoundFree, Counted
    PROVE  Counted'
  <1> SUFFICES ASSUME ~gaveUp' PROVE Counted'
    BY DEF Counted
  <1> DEFINE f == slab[first]
             g == slab'[first]
  <1>0. /\ Typed /\ Shape /\ Moves(c) /\ ShapeOf(c) /\ first \in Slabs /\ ByField(c, first)
        /\ ~gaveUp /\ \A d \in CPUs : d # c => Stays(d)
    BY Bounds DEF Whole, Effect, Shape
  <1>1. /\ f.used - (ObjCount - f.count) + Lag = Cardinality(f.marks)
        /\ \A d \in CPUs : InFirst(d) =>
              /\ at[d] = "store" => copy[d] = IF op[d] = "malloc" THEN f.used ELSE f.count
              /\ at[d] \in {"load", "store"} /\ op[d] = "free" => f.count >= 1
    BY <1>0 DEF Counted
  <1>2. /\ f.used \in Nat /\ f.count \in Nat /\ f.count < Modulus /\ ObjCount \in Nat
        /\ f.marks \subseteq 0 .. ObjCount - 1 /\ IsFiniteSet(f.marks)
        /\ Cardinality(f.marks) \in Nat
    <2>1. f.marks \subseteq 0 .. ObjCount - 1
      BY <1>0, Types
    <2>2. IsFiniteSet(0 .. ObjCount - 1)
      BY Bounds, FS_Interval
    <2>3. IsFiniteSet(f.marks)
      BY <2>1, <2>2, FS_Subset
    <2>4. Cardinality(f.marks) \in Nat
      BY <2>3, FS_CardinalityType
    <2>5. QED
      BY <1>0, <2>1, <2>3, <2>4, Types, Bounds
  \* No builder is at the first slab.
  <1>3. at[c] \in InBuild => cur[c] # first
    BY <1>0, WhoIsPast
  <1>4. CASE ~InFirst(c)
    <2>1. g.used = f.used /\ g.count = f.count /\ g.marks = f.marks
      <3>1. ~(cur[c] = first /\ at[c] \in {"mark", "store", "clear", "reset", "fields", "bitmap"})
        BY <1>3, <1>4 DEF InFirst, InBuild
      <3>2. QED
        BY <1>0, <3>1 DEF ByField, Used, Count, Marks
    <2>2. \A d \in CPUs : d # c => (InFirst(d)' <=> InFirst(d)) /\ (Pending(d)' <=> Pending(d))
      BY <1>0 DEF Stays, InFirst, Pending
    <2>3. at'[c] \in {"load", "store", "clear"} => ~InFirst(c)'
      BY <1>0, <1>4 DEF Moves, InFirst
    <2>4. ~Pending(c) /\ ~Pending(c)'
      BY <1>4, <2>3 DEF Pending
    <2>5. Lag' = Lag
      BY <2>2, <2>4 DEF Lag
    <2>6. ASSUME NEW d \in CPUs, InFirst(d)'
          PROVE  /\ at'[d] = "store" => copy'[d] = IF op'[d] = "malloc" THEN g.used ELSE g.count
                 /\ at'[d] \in {"load", "store"} /\ op'[d] = "free" => g.count >= 1
      <3>1. CASE d = c
        BY <2>3, <2>6, <3>1
      <3>2. CASE d # c
        BY <1>0, <1>1, <2>1, <2>2, <2>6, <3>2 DEF Stays
      <3>3. QED
        BY <3>1, <3>2
    <2>7. QED
      BY <1>1, <2>1, <2>5, <2>6 DEF Counted
  <1>5. CASE InFirst(c)
    <2>0. cur[c] = first /\ at[c] \notin InBuild
      BY <1>3, <1>5 DEF InFirst
    <2>1. Lag = IF Pending(c) THEN 1 ELSE 0
      BY <1>0, <1>5, LagIs
    <2>2. \A d \in CPUs : d # c => ~InFirst(d) /\ ~InFirst(d)'
      BY <1>0, <1>5 DEF FirstAlone, Stays, InFirst
    <2>3. Lag' = IF Pending(c)' THEN 1 ELSE 0
      BY <2>2 DEF Lag, Pending
    <2>4. /\ at[c] = "store" => copy[c] = IF op[c] = "malloc" THEN f.used ELSE f.count
          /\ at[c] \in {"load", "store"} /\ op[c] = "free" => f.count >= 1
      BY <1>1, <1>5
    <2>5. SUFFICES
            /\ g.used - (ObjCount - g.count) + (IF Pending(c)' THEN 1 ELSE 0) = Cardinality(g.marks)
            /\ InFirst(c)' =>
                 /\ at'[c] = "store" => copy'[c] = IF op'[c] = "malloc" THEN g.used ELSE g.count
                 /\ at'[c] \in {"load", "store"} /\ op'[c] = "free" => g.count >= 1
      BY <2>2, <2>3 DEF Counted
    <2>6. CASE at[c] = "mark"
      <3>1. g.used = f.used /\ g.count = f.count /\ g.marks = f.marks \cup {i[c]} /\ i[c] \notin f.marks
        BY <1>0, <2>0, <2>6 DEF ByField, Used, Count, Marks, FoundFree, Trusted
      <3>2. Cardinality(g.marks) = Cardinality(f.marks) + 1
        BY <1>2, <3>1, FS_AddElement
      <3>3. op[c] = "malloc" /\ at'[c] = "load" /\ op'[c] = "malloc" /\ cur'[c] = first
        BY <1>0, <2>0, <2>6 DEF Moves, ShapeOf, InMalloc
      <3>4. ~Pending(c) /\ Pending(c)'
        BY <2>6, <3>3 DEF Pending, InFirst
      <3>5. QED
        BY <1>1, <1>2, <2>1, <3>1, <3>2, <3>3, <3>4
    <2>7. CASE at[c] = "load"
      <3>1. g.used = f.used /\ g.count = f.count /\ g.marks = f.marks
        BY <1>0, <2>7 DEF ByField, Used, Count, Marks
      <3>2. /\ at'[c] = "store" /\ op'[c] = op[c] /\ cur'[c] = cur[c]
            /\ copy'[c] = IF op[c] = "malloc" THEN f.used ELSE f.count
        BY <1>0, <2>0, <2>7 DEF Moves
      <3>3. Pending(c)' <=> Pending(c)
        BY <2>0, <2>7, <3>2 DEF Pending, InFirst
      <3>4. QED
        BY <1>1, <2>1, <2>4, <2>7, <3>1, <3>2, <3>3
    <2>8. CASE at[c] = "store" /\ op[c] = "malloc"
      <3>1. g.used = f.used + 1 /\ g.count = f.count /\ g.marks = f.marks
        BY <1>0, <2>0, <2>4, <2>8 DEF ByField, Used, Count, Marks
      <3>2. at'[c] = "return" /\ Pending(c) /\ ~Pending(c)'
        BY <1>0, <1>5, <2>8 DEF Moves, Pending
      <3>3. QED
        BY <1>1, <1>2, <2>1, <3>1, <3>2
    <2>9. CASE at[c] = "store" /\ op[c] # "malloc"
      <3>1. op[c] = "free"
        BY <1>0, <2>9 DEF Moves, ShapeOf
      <3>2. copy[c] = f.count /\ f.count >= 1
        BY <2>4, <2>9, <3>1
      <3>3. (copy[c] - 1) % Modulus = f.count - 1
        <4>1. f.count - 1 \in Nat /\ f.count - 1 < Modulus /\ Modulus \in Nat
          BY <1>2, <3>2, Bounds
        <4>2. (f.count - 1) % Modulus = f.count - 1
          BY <4>1, SmallModulo
        <4>3. QED
          BY <3>2, <4>2
      <3>4. g.used = f.used /\ g.count = f.count - 1 /\ g.marks = f.marks
        BY <1>0, <2>0, <2>9, <3>3 DEF ByField, Used, Count, Marks
      <3>5. at'[c] = "clear" /\ cur'[c] = cur[c] /\ op'[c] = op[c]
        BY <1>0, <2>9 DEF Moves
      <3>6. ~Pending(c) /\ Pending(c)'
        BY <2>0, <2>9, <3>5 DEF Pending, InFirst
      <3>7. QED
        BY <1>1, <1>2, <2>1, <3>4, <3>5, <3>6
    <2>10. CASE at[c] = "clear"
      <3>1. op[c] = "free" /\ ptr[c] # None /\ Own(c) = ptr[c]
        BY <1>0, <2>10 DEF ShapeOf, Own
      <3>2. ptr[c].base = first
        BY <1>0, <2>0, <2>10, <3>1 DEF ShapeOf
      <3>3. ptr[c].k \in f.marks
        BY <1>0, <3>1, <3>2 DEF OwnersMarked, Trusted
      <3>4. g.used = f.used /\ g.count = f.count /\ g.marks = f.marks \ {ptr[c].k}
        BY <1>0, <2>0, <2>10 DEF ByField, Used, Count, Marks
      <3>5. Cardinality(g.marks) = Cardinality(f.marks) - 1
        <4>1. Cardinality(f.marks \ {ptr[c].k}) = Cardinality(f.marks) - 1
          BY <1>2, <3>3, FS_RemoveElement
        <4>2. QED
          BY <3>4, <4>1
      <3>6. at'[c] = "return" /\ Pending(c) /\ ~Pending(c)'
        BY <1>0, <1>5, <2>10, <3>1 DEF Moves, Pending
      <3>7. QED
        BY <1>1, <1>2, <2>1, <3>4, <3>5, <3>6
    <2>11. CASE at[c] \notin {"mark", "load", "store", "clear"}
      <3>1. g.used = f.used /\ g.count = f.count /\ g.marks = f.marks
        BY <1>0, <2>0, <2>11 DEF ByField, Used, Count, Marks, InBuild
      <3>2. ~Pending(c) /\ ~Pending(c)' /\ at'[c] # "store"
        BY <1>0, <2>11 DEF Moves, Pending, ShapeOf
      <3>3. InFirst(c)' /\ at'[c] = "load" /\ op'[c] = "free" => g.count >= 1
        <4>1. at'[c] = "load" => at[c] = "range" /\ Owns(f, ptr[c])
          BY <1>0, <2>0, <2>11 DEF Moves
        <4>2. ptr[c].k \in Nat
          BY <1>0, Types
        <4>3. Owns(f, ptr[c]) => f.count >= 1
          BY <1>2, <4>2 DEF Owns
        <4>4. QED
          BY <3>1, <4>1, <4>3
      <3>4. QED
        BY <1>1, <2>1, <3>1, <3>2, <3>3
    <2>12. QED
      BY <2>6, <2>7, <2>8, <2>9, <2>10, <2>11
  <1>6. QED
    BY <1>4, <1>5

-----------------------------------------------------------------------------
LEMMA InitIInv == Init => IInv
  <1> SUFFICES ASSUME Init PROVE IInv
    OBVIOUS
  <1>1. Typed /\ Shape
    BY InitTypedShape
  <1>2. \A c \in CPUs : at[c] = "idle" /\ op[c] = "none" /\ cur[c] = first /\ ptr[c] = None
    BY DEF Init
  <1>3. FirstAlone /\ CrowdSeen /\ FaultsOnlyWhenCrowded /\ FoundFree
    BY <1>2 DEF FirstAlone, InFirst, CrowdSeen, Crowd, Past, FaultsOnlyWhenCrowded, FoundFree
  <1>4. \A c \in CPUs : Own(c) = None
    BY <1>2 DEF Own
  <1>5. OwnersMarked /\ OwnersApart
    BY <1>4 DEF OwnersMarked, OwnersApart
  <1>6. Builds
    <2>1. \A s \in Slabs : slab[s].base \in {NULL, s}
      BY Bounds DEF Init, Built, Blank
    <2>2. QED
      BY <1>2, <2>1 DEF Builds, Making
  <1>7. Counted
    <2>1. slab[first] = Built(first)
      BY Bounds DEF Init, first
    <2>2. slab[first].used = 0 /\ slab[first].count = ObjCount /\ slab[first].marks = {}
      BY <2>1 DEF Built
    <2>3. Lag = 0
      BY <1>2 DEF Lag, Pending, InFirst
    <2>4. Cardinality({}) = 0
      BY FS_EmptySet
    <2>5. QED
      BY <1>2, <2>2, <2>3, <2>4, Bounds DEF Counted, InFirst
  <1>8. QED
    BY <1>1, <1>3, <1>5, <1>6, <1>7 DEF IInv

LEMMA StepIInv == IInv /\ [Next]_vars => IInv'
  <1>1. ASSUME IInv, NEW c \in CPUs, Acts(c), Watch PROVE IInv'
    <2>1. Whole(c)
      BY <1>1, StepWhole DEF IInv
    <2>2. Typed' /\ (Shape)'
      <3>1. Typed'
        BY <1>1, <2>1, StepTyped
      <3>2. \A s \in Slabs : SlabShape(s)'
        BY <2>1, StepSlabShape
      <3>3. \A d \in CPUs : ShapeOf(d)'
        BY <2>1, StepShapeOf
      <3>4. QED
        BY <3>1, <3>2, <3>3 DEF Shape
    <2>3. FirstAlone' /\ CrowdSeen' /\ Builds' /\ FoundFree' /\ FaultsOnlyWhenCrowded'
      BY <1>1, <2>1, StepFirstAlone, CrowdsStay, StepBuilds, StepFoundFree, StepNoFault DEF IInv
    <2>4. OwnersMarked' /\ OwnersApart'
      BY <1>1, <2>1, StepOwners DEF IInv
    <2>5. Counted'
      BY <1>1, <2>1, <2>3, StepCounted DEF IInv
    <2>6. QED
      BY <2>2, <2>3, <2>4, <2>5 DEF IInv
  <1>2. ASSUME IInv, UNCHANGED vars PROVE IInv'
    BY <1>2, SMTT(20) DEF vars, locals, IInv, Typed, Shape, SlabShape, ShapeOf, FirstAlone, InFirst, CrowdSeen,
       Crowd, Past, Builds, Making, Target, OwnersMarked, OwnersApart, Own, Trusted, FoundFree,
       Counted, Lag, Pending, FaultsOnlyWhenCrowded
  <1>3. QED
    BY <1>1, <1>2, NextActs

LEMMA Invariance == Spec => []IInv
  BY InitIInv, StepIInv, PTL DEF Spec

\* The parts of a slab and of a call keep their types, and the list of slabs
\* leads forward and ends, whatever the locks allow.
THEOREM HeapLockedTyping == Spec => [](Typed /\ Shape)
  <1>1. IInv => Typed /\ Shape
    BY DEF IInv
  <1>2. QED
    BY <1>1, Invariance, PTL

\* malloc and free give no object to two CPUs: in the first slab until an
\* acquire of its lock gives up, in the others until two mallocs are past the
\* first slab at once.
THEOREM NoObjectTwice == Spec => []ObjectsHeldOnce
  <1>1. IInv => ObjectsHeldOnce
    <2> SUFFICES ASSUME IInv, NEW c \in CPUs, Held(c),
                        ~(IF ptr[c].base = first THEN gaveUp ELSE crowded)
                 PROVE  /\ \E s \in Slabs : MarkedIn(s, ptr[c])
                        /\ \A d \in CPUs : Held(d) /\ ptr[d] = ptr[c] => c = d
      BY DEF ObjectsHeldOnce
    <2>1. \A d \in CPUs : Held(d) => Own(d) = ptr[d] /\ Own(d) # None
      BY DEF Held, Own, IInv, Shape, ShapeOf
    <2>2. Trusted(Own(c).base)
      BY <2>1 DEF Trusted
    <2>3. \E s \in Slabs : MarkedIn(s, ptr[c])
      <3>1. LET b == Own(c).base
            IN b \in Slabs /\ slab[b].base = b /\ Own(c).k \in slab[b].marks
        BY <2>1, <2>2 DEF IInv, OwnersMarked
      <3>2. QED
        BY <2>1, <3>1 DEF MarkedIn
    <2>4. ASSUME NEW d \in CPUs, Held(d), ptr[d] = ptr[c] PROVE c = d
      BY <2>1, <2>2, <2>4 DEF IInv, OwnersApart
    <2>5. QED
      BY <2>3, <2>4
  <1>2. QED
    BY <1>1, Invariance, PTL

\* No update of the first slab's counters is lost until an acquire of its lock
\* gives up: whenever the lock is free they differ by the marked objects.
THEOREM FirstSlabCounted == Spec => []FirstCountsExact
  <1>1. IInv => FirstCountsExact
    <2> SUFFICES ASSUME IInv, ~gaveUp, ~slab[first].locked
                 PROVE  slab[first].used - (ObjCount - slab[first].count)
                          = Cardinality(slab[first].marks)
      BY DEF FirstCountsExact
    <2>1. \A c \in CPUs : ~InFirst(c)
      BY DEF IInv, FirstAlone
    <2>2. Lag = 0
      BY <2>1 DEF Lag, Pending
    <2>3. slab[first].used \in Nat /\ slab[first].count \in Nat
      BY Types, Bounds DEF IInv
    <2>4. slab[first].used - (ObjCount - slab[first].count) + Lag = Cardinality(slab[first].marks)
      BY DEF IInv, Counted
    <2>5. QED
      BY <2>2, <2>3, <2>4, Bounds
  <1>2. QED
    BY <1>1, Invariance, PTL

\* A CPU runs into a slab without a bitmap only if two mallocs have been past
\* the first slab at once.
THEOREM FaultsNeedACrowd == Spec => []FaultsOnlyWhenCrowded
  <1>1. IInv => FaultsOnlyWhenCrowded
    BY DEF IInv
  <1>2. QED
    BY <1>1, Invariance, PTL

-----------------------------------------------------------------------------
(* The first slab's lock implements LockContract. *)

Inside == {c \in CPUs : InFirst(c)}

LEMMA InitFirstLock == Init => FirstLock!Init
  BY DEF Init, FirstLock!Init, InFirst

\* acquire grants the lock or lets an intruder in, and release, or going on to
\* the next slab, leaves it; nothing else counts.
LEMMA StepFirstLock == IInv /\ [Next]_vars => [FirstLock!Next]_(FirstLock!vars)
  <1>1. ASSUME IInv, NEW c \in CPUs, Acts(c), Watch
        PROVE  FirstLock!Next \/ UNCHANGED FirstLock!vars
    <2>1. Whole(c) /\ FirstAlone
      BY <1>1, StepWhole DEF IInv
    <2>2. /\ Moves(c) /\ ShapeOf(c) /\ \A d \in CPUs : d # c => (InFirst(d)' <=> InFirst(d))
          /\ gaveUp' = (gaveUp \/ GivesUp(c))
          /\ gaveUp \in BOOLEAN
      BY <2>1 DEF Whole, Effect, Stays, InFirst, Shape, Typed
    <2>3. InFirst(c)' => InFirst(c) \/ (at[c] = "acquire" /\ cur[c] = first)
      BY <2>1, EnterFirst
    <2>4. CASE at[c] = "acquire" /\ cur[c] = first
      <3>1. ~InFirst(c) /\ InFirst(c)'
        BY <2>2, <2>4 DEF Moves, InFirst
      <3>2. Inside' = Inside \cup {c} /\ c \notin Inside
        BY <2>2, <3>1 DEF Inside
      <3>3. CASE GivesUp(c)
        <4>1. gaveUp' = TRUE
          BY <2>2, <3>3
        <4>2. FirstLock!Intrude(c)
          BY <3>2, <4>1 DEF FirstLock!Intrude, Inside
        <4>3. QED
          BY <4>2 DEF FirstLock!Next
      <3>4. CASE ~GivesUp(c)
        <4>1. gaveUp' = gaveUp
          BY <2>2, <3>4
        <4>2. Inside = {} \/ gaveUp
          BY <2>1, <2>4, <3>4 DEF FirstAlone, Inside, GivesUp
        <4>3. FirstLock!Grant(c)
          BY <3>2, <4>1, <4>2 DEF FirstLock!Grant, Inside
        <4>4. QED
          BY <4>3 DEF FirstLock!Next
      <3>5. QED
        BY <3>3, <3>4
    <2>5. CASE ~(at[c] = "acquire" /\ cur[c] = first)
      <3>1. gaveUp' = gaveUp
        BY <2>2, <2>5 DEF GivesUp
      <3>2. CASE InFirst(c) /\ ~InFirst(c)'
        <4>1. Inside' = Inside \ {c} /\ c \in Inside
          BY <2>2, <3>2 DEF Inside
        <4>2. FirstLock!Leave(c)
          BY <3>1, <4>1 DEF FirstLock!Leave, Inside
        <4>3. QED
          BY <4>2 DEF FirstLock!Next
      <3>3. CASE InFirst(c)' <=> InFirst(c)
        <4>1. Inside' = Inside
          BY <2>2, <3>3 DEF Inside
        <4>2. QED
          BY <3>1, <4>1 DEF FirstLock!vars, Inside
      <3>4. QED
        BY <2>3, <2>5, <3>2, <3>3
    <2>6. QED
      BY <2>4, <2>5
  <1>2. ASSUME UNCHANGED vars PROVE UNCHANGED FirstLock!vars
    BY <1>2 DEF vars, locals, FirstLock!vars, InFirst
  <1>3. QED
    BY <1>1, <1>2, NextActs

\* The lock of the first slab keeps what LockContract promises: what malloc
\* does to the locks of the slabs behind it never touches this one.
THEOREM FirstSlabLocked == Spec => FirstLockHolds
  BY InitFirstLock, StepFirstLock, Invariance, PTL DEF Spec, FirstLockHolds, FirstLock!Spec
=============================================================================

--------------------------- MODULE VMMLockedProofs ---------------------------
(***************************************************************************)
(* Theorems about map_page, flag_page and unmap_page on several CPUs,      *)
(* VMMLocked, for any set of CPUs, any number of maps and any size of      *)
(* tables that satisfy VmmLockedAssumption.                                *)
(***************************************************************************)
EXTENDS VMMLocked, FiniteSetTheorems, TLAPS

\* The tables are a forest, whatever calls do to each other: an entry of a table
\* of the upper three levels is empty or leads one level down, and no table is
\* entered twice, but for those of the higher half, which every map has.  A table
\* that is lost in a clash keeps its level.

TableEntry(e, depth, d) ==
    \/ e = Zero
    \/ /\ e = [phys |-> e.phys, bits |-> TableBits]
       /\ e.phys \in MapCount + 1 .. used /\ depth[e.phys] = d + 1

LeafEntries == [phys : Phys \cup {0}, bits : Flags \cup {{}}]

Forest(depth) ==
    /\ depth \in [1 .. Frames -> 1 .. 4] /\ \A m \in Maps : depth[m] = 1
    /\ \A f \in 1 .. Frames, n \in Index :
          /\ f > used => tables[f][n] = Zero
          /\ f <= used /\ depth[f] < 4 => TableEntry(tables[f][n], depth, depth[f])
          /\ f <= used /\ depth[f] = 4 => tables[f][n] \in LeafEntries

EnteredOnce(depth) ==
    \A f, g \in 1 .. used, n, o \in Index :
        /\ depth[f] < 4 /\ depth[g] < 4
        /\ Present \in tables[f][n].bits /\ Present \in tables[g][o].bits
        /\ tables[f][n].phys = tables[g][o].phys
        => n = o /\ (f = g \/ (f \in Maps /\ g \in Maps /\ n \in High))

Places == {"idle", "acquire", "read", "make", "leaf", "write", "release", "fault"}

Typed ==
    /\ used \in 0 .. Frames /\ used >= MapCount
    /\ tables = [f \in 1 .. Frames |-> [n \in Index |-> tables[f][n]]]
    /\ locked \in [Maps -> BOOLEAN]
    /\ at \in [CPUs -> Places] /\ op \in [CPUs -> {"none", "map", "flag", "unmap"}]
    /\ map \in [CPUs -> Maps] /\ virt \in [CPUs -> Virts \cup {<<>>}]
    /\ entry \in [CPUs -> LeafEntries] /\ level \in [CPUs -> 0 .. 4]
    /\ cur \in [CPUs -> 0 .. used] /\ copy \in [CPUs -> LeafEntries]
    /\ want \in [Maps -> [Virts -> LeafEntries]]
    /\ known \subseteq Maps \X Virts /\ knew \in [CPUs -> SUBSET known]
    /\ gaveUp \in BOOLEAN /\ clashed \in BOOLEAN

HalfShared ==
    \A m, n \in Maps, o \in High : tables[m][o] = tables[n][o] /\ Present \in tables[m][o].bits

\* A call and its locals.
ShapeOf(c) ==
    /\ at[c] = "idle" <=> op[c] = "none"
    /\ at[c] # "idle" => virt[c] \in Virts /\ cur[c] \in 1 .. used
    /\ at[c] # "idle" /\ level[c] = 1 => cur[c] = map[c]
    /\ at[c] = "acquire" => op[c] = "map" /\ level[c] = 1
    /\ at[c] \in {"read", "make", "fault"} => level[c] \in 1 .. 3
    /\ at[c] \in {"leaf", "write"} => level[c] = 4
    /\ at[c] = "write" => op[c] = "flag"
    /\ at[c] = "make" => op[c] # "unmap"
    /\ at[c] = "fault" => op[c] = "unmap"
    /\ at[c] = "release" => op[c] = "map"
    /\ at[c] = "make" /\ level[c] = 1 => virt[c][1] \notin High

AtLevel(depth) == \A c \in CPUs : at[c] # "idle" => depth[cur[c]] = level[c]
Placed == \E depth : Forest(depth) /\ EnteredOnce(depth) /\ AtLevel(depth)

Shape == Typed /\ Placed /\ HalfShared /\ \A c \in CPUs : ShapeOf(c)

-----------------------------------------------------------------------------
Holding(c) == op[c] = "map" /\ at[c] \notin {"idle", "acquire"}
Exclusive ==
    gaveUp \/ \A c \in CPUs : Holding(c) =>
        locked[map[c]] /\ \A d \in CPUs : Holding(d) /\ map[d] = map[c] => c = d

ClashSeen == Clash => clashed

\* The table of each level on the path of v.
Node(l, m, v) ==
    IF l = 1 THEN m ELSE IF l = 2 THEN Level(m, v[1])
    ELSE IF l = 3 THEN Level(Level(m, v[1]), v[2]) ELSE Pml1(m, v)

OnPath == \A c \in CPUs : at[c] # "idle" => cur[c] = Node(level[c], map[c], virt[c])
Waiting == \A c \in CPUs : at[c] = "make" => Present \notin Entry(c).bits
Copied == \A c \in CPUs : at[c] = "write" => copy[c].phys = tables[cur[c]][virt[c][4]].phys
KnownFound == \A m \in Maps, v \in Virts : <<m, v>> \in known => Pml1(m, v) # NULL
AsCalled == \A m \in Maps, v \in Virts : Walk(m, v) = want[m][v]
FaultsNew == \A c \in CPUs : at[c] = "fault" => <<map[c], virt[c]>> \notin knew[c]

Core == clashed \/ gaveUp \/
    (OnPath /\ Waiting /\ Copied /\ KnownFound /\ AsCalled /\ FaultsNew)

IInv == Shape /\ Exclusive /\ ClashSeen /\ Core

-----------------------------------------------------------------------------
LEMMA Sizes ==
    /\ MapCount \in Nat /\ MapCount >= 1 /\ Maps = 1 .. MapCount /\ 1 \in Maps
    /\ Fanout \in Nat /\ UserSlots \in Nat /\ UserSlots >= 1 /\ UserSlots <= Fanout
    /\ Index = 0 .. Fanout - 1 /\ High = UserSlots .. Fanout - 1 /\ High \subseteq Index
    /\ Frames \in Nat /\ Cardinality(High) = Fanout - UserSlots
    /\ MapCount + Cardinality(High) <= Frames
    /\ Present \in TableBits /\ Zero \in LeafEntries /\ Present \notin Zero.bits
  <1>1. Cardinality(High) = Fanout - UserSlots
    <2>1. UserSlots \in Nat /\ Fanout \in Nat /\ Fanout - 1 \in Int /\ UserSlots <= Fanout
      BY VmmLockedAssumption
    <2>2. CASE UserSlots <= Fanout - 1
      <3>1. Cardinality(UserSlots .. Fanout - 1) = (Fanout - 1) - UserSlots + 1
        BY <2>1, <2>2, FS_Interval
      <3>2. QED
        BY <2>1, <3>1 DEF High
    <2>3. CASE UserSlots = Fanout
      <3>1. High = {}
        BY <2>1, <2>3 DEF High
      <3>2. QED
        BY <2>1, <2>3, <3>1, FS_EmptySet
    <2>4. QED
      BY <2>1, <2>2, <2>3
  <1>2. Present \in TableBits /\ Zero \in LeafEntries /\ Present \notin Zero.bits
    BY DEF Present, TableBits, Zero, LeafEntries
  <1>3. QED
    BY <1>1, <1>2, VmmLockedAssumption DEF Maps, Index, High

\* An address is its four indices.
LEMMA VirtTypes ==
    /\ \A v \in Virts : \A l \in 1 .. 4 : v[l] \in Index
    /\ \A v, w \in Virts :
          v[1] = w[1] /\ v[2] = w[2] /\ v[3] = w[3] /\ v[4] = w[4] => v = w
    /\ \A t \in Targets : t[1] \in Maps /\ t[2] \in Virts
    /\ <<>> \notin Virts
  <1> DEFINE Q == Index \X Index \X Index \X Index
  <1>1. \A t \in Targets : t[1] \in Maps /\ t[2] \in Q
    BY VmmLockedAssumption
  <1>2. \A v \in Virts : v \in Q
    BY <1>1 DEF Virts
  <1>3. \A v \in Q : v[1] \in Index /\ v[2] \in Index /\ v[3] \in Index /\ v[4] \in Index
                     /\ v = <<v[1], v[2], v[3], v[4]>>
    OBVIOUS
  <1>4. \A v \in Virts : \A l \in 1 .. 4 : v[l] \in Index
    <2> TAKE v \in Virts
    <2>1. v[1] \in Index /\ v[2] \in Index /\ v[3] \in Index /\ v[4] \in Index
      BY <1>2, <1>3
    <2>2. \A l \in 1 .. 4 : l = 1 \/ l = 2 \/ l = 3 \/ l = 4
      OBVIOUS
    <2>3. QED
      BY <2>1, <2>2
  <1>5. \A v, w \in Virts : v[1] = w[1] /\ v[2] = w[2] /\ v[3] = w[3] /\ v[4] = w[4] => v = w
    BY <1>2, <1>3
  <1>6. <<>> \notin Virts
    <2>1. <<>> \notin Q
      OBVIOUS
    <2>2. QED
      BY <1>2, <2>1
  <1>7. QED
    BY <1>1, <1>4, <1>5, <1>6 DEF Virts

-----------------------------------------------------------------------------
(* One step of a CPU, access by access. *)

Stays(d) ==
    /\ at'[d] = at[d] /\ op'[d] = op[d] /\ map'[d] = map[d] /\ virt'[d] = virt[d]
    /\ entry'[d] = entry[d] /\ level'[d] = level[d] /\ cur'[d] = cur[d] /\ copy'[d] = copy[d]
    /\ knew'[d] = knew[d]

Finished(c) ==
    /\ at'[c] = "idle" /\ op'[c] = "none" /\ map'[c] = 1 /\ virt'[c] = <<>> /\ entry'[c] = Zero
    /\ level'[c] = 0 /\ cur'[c] = NULL /\ copy'[c] = Zero /\ knew'[c] = {}

\* The call goes on with the table it has found or made.
Deeper(c, f) ==
    /\ at'[c] = (IF level[c] = 3 THEN "leaf" ELSE "read") /\ cur'[c] = f /\ level'[c] = level[c] + 1
    /\ copy'[c] = copy[c]

\* Where c goes next, and with which locals.
Moves(c) ==
    /\ at[c] = "idle" =>
          /\ \E t \in Targets : map'[c] = t[1] /\ virt'[c] = t[2] /\ cur'[c] = t[1]
          /\ level'[c] = 1 /\ copy'[c] = copy[c] /\ knew'[c] = known /\ entry'[c] \in LeafEntries
          /\ \/ at'[c] = "acquire" /\ op'[c] = "map"
             \/ at'[c] = "read" /\ op'[c] \in {"flag", "unmap"}
    /\ Finished(c) \/ at[c] = "idle" \/
          (op'[c] = op[c] /\ map'[c] = map[c] /\ virt'[c] = virt[c] /\ entry'[c] = entry[c] /\ knew'[c] = knew[c])
    /\ at[c] = "acquire" =>
          at'[c] = "read" /\ level'[c] = level[c] /\ cur'[c] = cur[c] /\ copy'[c] = copy[c]
          /\ op'[c] = op[c]
    /\ at[c] = "read" =>
          /\ op'[c] = op[c]
          /\ \/ Present \in Entry(c).bits /\ Deeper(c, Entry(c).phys)
             \/ /\ Present \notin Entry(c).bits
                /\ at'[c] = (IF op[c] = "unmap" THEN "fault" ELSE "make")
                /\ level'[c] = level[c] /\ cur'[c] = cur[c] /\ copy'[c] = copy[c]
    /\ at[c] = "make" =>
          \/ used < Frames /\ used' = used + 1 /\ Deeper(c, used + 1) /\ op'[c] = op[c]
          \/ /\ used' = used /\ op[c] = "map" /\ at'[c] = "release" /\ op'[c] = op[c]
             /\ level'[c] = level[c] /\ cur'[c] = cur[c] /\ copy'[c] = copy[c]
          \/ used' = used /\ op[c] # "map" /\ Finished(c)
    /\ at[c] = "leaf" =>
          \/ /\ op[c] = "map" /\ at'[c] = "release" /\ op'[c] = op[c]
             /\ level'[c] = level[c] /\ cur'[c] = cur[c] /\ copy'[c] = copy[c]
          \/ op[c] = "unmap" /\ Finished(c)
          \/ /\ op[c] = "flag" /\ at'[c] = "write" /\ op'[c] = op[c]
             /\ level'[c] = level[c] /\ cur'[c] = cur[c] /\ copy'[c] = tables[cur[c]][virt[c][4]]
    /\ at[c] \in {"write", "release"} => Finished(c)
    /\ at[c] \in {"idle", "acquire", "read", "make", "leaf", "write", "release"}

\* The three things that happen to the tables.
Quiet == UNCHANGED <<tables, used, want, known>>
Makes(c) ==
    /\ at[c] = "make" /\ used < Frames /\ used' = used + 1
    /\ tables' = [tables EXCEPT ![cur[c]][virt[c][level[c]]] = [phys |-> used + 1, bits |-> TableBits]]
    /\ Deeper(c, used + 1) /\ UNCHANGED <<want, known>>
Stores(c) ==
    \/ at[c] = "leaf" /\ op[c] = "map" /\ Put(c, entry[c], entry[c])
    \/ at[c] = "leaf" /\ op[c] = "unmap" /\ Put(c, Zero, Zero)
    \/ at[c] = "write" /\ Put(c, [copy[c] EXCEPT !.bits = entry[c].bits],
                                 [want[map[c]][virt[c]] EXCEPT !.bits = entry[c].bits])

\* acquire comes back without the lock.
GivesUp(c) == at[c] = "acquire" /\ (locked[map[c]] \/ ~locked'[map[c]])

Effect(c) ==
    /\ Moves(c) /\ \A d \in CPUs : d # c => Stays(d)
    /\ (Quiet /\ ~(at[c] = "write") /\ ~(at[c] = "leaf" /\ op[c] # "flag")) \/ Makes(c) \/ (Stores(c) /\ used' = used)
    /\ IF at[c] = "acquire" THEN locked' = [locked EXCEPT ![map[c]] = TRUE] \/ locked' = locked
       ELSE IF at[c] = "release" THEN locked' = [locked EXCEPT ![map[c]] = FALSE]
       ELSE locked' = locked
    /\ gaveUp' = (gaveUp \/ GivesUp(c))

LEMMA StepEffect ==
    ASSUME Typed, NEW c \in CPUs, Step(c)
    PROVE  Effect(c)
  <1>0. /\ at \in [CPUs -> Places] /\ op \in [CPUs -> {"none", "map", "flag", "unmap"}]
        /\ map \in [CPUs -> Maps] /\ virt \in [CPUs -> Virts \cup {<<>>}]
        /\ entry \in [CPUs -> LeafEntries] /\ level \in [CPUs -> 0 .. 4]
        /\ cur \in [CPUs -> 0 .. used] /\ copy \in [CPUs -> LeafEntries]
        /\ knew \in [CPUs -> SUBSET known] /\ gaveUp \in BOOLEAN
    BY DEF Typed
  <1>1. ASSUME NEW o \in {"map", "flag", "unmap"}, NEW t \in Targets, NEW e \in LeafEntries, Call(c, o, t, e)
        PROVE  Effect(c)
    BY <1>0, <1>1 DEF Call, Goto, Effect, GivesUp, Moves, Stays, Quiet
  <1>2. CASE \E t \in Targets :
                \/ \E p \in Phys, flags \in Flags : map_page(c, t, p, flags)
                \/ \E flags \in Flags : flag_page(c, t, flags)
                \/ unmap_page(c, t)
    <2>1. PICK t \in Targets :
                \/ \E p \in Phys, flags \in Flags : map_page(c, t, p, flags)
                \/ \E flags \in Flags : flag_page(c, t, flags)
                \/ unmap_page(c, t)
      BY <1>2
    <2>2. ASSUME NEW p \in Phys, NEW flags \in Flags, map_page(c, t, p, flags) PROVE Effect(c)
      <3>1. [phys |-> p, bits |-> flags] \in LeafEntries
        BY DEF LeafEntries
      <3>2. QED
        BY <1>1, <2>2, <3>1 DEF map_page
    <2>3. ASSUME NEW flags \in Flags, flag_page(c, t, flags) PROVE Effect(c)
      <3>1. [Zero EXCEPT !.bits = flags] \in LeafEntries
        BY DEF LeafEntries, Zero
      <3>2. QED
        BY <1>1, <2>3, <3>1 DEF flag_page
    <2>4. ASSUME unmap_page(c, t) PROVE Effect(c)
      BY <1>1, <2>4, Sizes DEF unmap_page
    <2>5. QED
      BY <2>1, <2>2, <2>3, <2>4
  <1>3. CASE Acquire(c)
    <2>1. Moves(c) /\ (\A d \in CPUs : d # c => Stays(d)) /\ Quiet /\ at[c] = "acquire"
      BY <1>0, <1>3 DEF Acquire, Goto, Moves, Stays, Quiet
    <2>2. locked \in [Maps -> BOOLEAN] /\ map[c] \in Maps
      BY <1>0 DEF Typed
    <2>3. CASE /\ ~locked[map[c]] /\ locked' = [locked EXCEPT ![map[c]] = TRUE]
               /\ gaveUp' = gaveUp
      BY <1>0, <2>1, <2>2, <2>3 DEF Effect, GivesUp
    <2>4. CASE locked' = locked /\ gaveUp' = TRUE
      BY <1>0, <2>1, <2>2, <2>4 DEF Effect, GivesUp
    <2>5. QED
      BY <1>3, <2>3, <2>4 DEF Acquire
  <1>4. CASE Read(c)
    BY <1>0, <1>4 DEF Read, Down, Elsewhere, Goto, Effect, GivesUp, Moves, Deeper, Stays, Quiet
  <1>5. CASE Miss(c)
    BY <1>0, <1>5 DEF Miss, Elsewhere, Goto, Effect, GivesUp, Moves, Stays, Quiet
  <1>6. CASE Make(c)
    BY <1>0, <1>6 DEF Make, Down, Goto, Effect, GivesUp, Moves, Deeper, Stays, Makes
  <1>7. CASE MakeFails(c)
    BY <1>0, <1>7 DEF MakeFails, Finish, Goto, Effect, GivesUp, Moves, Finished, Stays, Quiet
  <1>8. CASE StoreEntry(c)
    BY <1>0, <1>8 DEF StoreEntry, Elsewhere, Goto, Effect, GivesUp, Moves, Stays, Stores
  <1>9. CASE ClearEntry(c)
    BY <1>0, <1>9 DEF ClearEntry, Finish, Goto, Effect, GivesUp, Moves, Finished, Stays, Stores
  <1>10. CASE LoadEntry(c)
    BY <1>0, <1>10 DEF LoadEntry, Goto, Effect, GivesUp, Moves, Stays, Quiet
  <1>11. CASE WriteEntry(c)
    BY <1>0, <1>11 DEF WriteEntry, Finish, Goto, Effect, GivesUp, Moves, Finished, Stays, Stores
  <1>12. CASE Release(c)
    BY <1>0, <1>12 DEF Release, Finish, Goto, Effect, GivesUp, Moves, Finished, Stays, Quiet
  <1>13. QED
    BY <1>2, <1>3, <1>4, <1>5, <1>6, <1>7, <1>8, <1>9, <1>10, <1>11, <1>12 DEF Step

\* The functions stay functions.
LEMMA OnFunctions ==
    ASSUME Typed, NEW c \in CPUs, Step(c)
    PROVE  /\ at' = [d \in CPUs |-> at'[d]] /\ op' = [d \in CPUs |-> op'[d]]
           /\ map' = [d \in CPUs |-> map'[d]] /\ virt' = [d \in CPUs |-> virt'[d]]
           /\ entry' = [d \in CPUs |-> entry'[d]] /\ level' = [d \in CPUs |-> level'[d]]
           /\ cur' = [d \in CPUs |-> cur'[d]] /\ copy' = [d \in CPUs |-> copy'[d]]
           /\ knew' = [d \in CPUs |-> knew'[d]]
  <1>0. /\ at \in [CPUs -> Places] /\ op \in [CPUs -> {"none", "map", "flag", "unmap"}]
        /\ map \in [CPUs -> Maps] /\ virt \in [CPUs -> Virts \cup {<<>>}]
        /\ entry \in [CPUs -> LeafEntries] /\ level \in [CPUs -> 0 .. 4]
        /\ cur \in [CPUs -> 0 .. used] /\ copy \in [CPUs -> LeafEntries]
        /\ knew \in [CPUs -> SUBSET known]
    BY DEF Typed
  <1>1. ASSUME NEW o, NEW t, NEW e, Call(c, o, t, e)
        PROVE  /\ at' = [at EXCEPT ![c] = IF o = "map" THEN "acquire" ELSE "read"]
               /\ op' = [op EXCEPT ![c] = o] /\ map' = [map EXCEPT ![c] = t[1]]
               /\ virt' = [virt EXCEPT ![c] = t[2]] /\ entry' = [entry EXCEPT ![c] = e]
               /\ level' = [level EXCEPT ![c] = 1] /\ cur' = [cur EXCEPT ![c] = t[1]]
               /\ copy' = copy /\ knew' = [knew EXCEPT ![c] = known]
    BY <1>1 DEF Call, Goto
  <1>2. CASE \E t \in Targets :
                \/ \E p \in Phys, flags \in Flags : map_page(c, t, p, flags)
                \/ \E flags \in Flags : flag_page(c, t, flags)
                \/ unmap_page(c, t)
    <2>1. PICK o, t, e : Call(c, o, t, e)
      BY <1>2 DEF map_page, flag_page, unmap_page
    <2>2. QED
      BY <1>0, <1>1, <2>1
  <1>3. CASE Acquire(c) \/ Miss(c) \/ StoreEntry(c) \/ LoadEntry(c)
    BY <1>0, <1>3 DEF Acquire, Miss, StoreEntry, LoadEntry, Elsewhere, Goto
  <1>4. CASE Read(c) \/ Make(c)
    BY <1>0, <1>4 DEF Read, Make, Down, Elsewhere, Goto
  <1>5. CASE MakeFails(c)
    BY <1>0, <1>5 DEF MakeFails, Finish, Goto
  <1>6. CASE ClearEntry(c) \/ WriteEntry(c) \/ Release(c)
    BY <1>0, <1>6 DEF ClearEntry, WriteEntry, Release, Finish, Goto
  <1>7. QED
    BY <1>2, <1>3, <1>4, <1>5, <1>6 DEF Step

\* Everything a step of c does, given what every state satisfies.
Whole(c) == Shape /\ Effect(c)

LEMMA StepWhole ==
    ASSUME Shape, NEW c \in CPUs, Step(c)
    PROVE  Whole(c)
  BY StepEffect DEF Whole, Shape

\* What a step of c does to the entries, one by one.
LEMMA EntriesAfter ==
    ASSUME NEW c \in CPUs, Whole(c), NEW f \in 1 .. Frames, NEW n \in Index
    PROVE  /\ Quiet => tables'[f][n] = tables[f][n]
           /\ Makes(c) => tables'[f][n] = IF f = cur[c] /\ n = virt[c][level[c]]
                                          THEN [phys |-> used + 1, bits |-> TableBits]
                                          ELSE tables[f][n]
           /\ \A e, w : Put(c, e, w) =>
                 tables'[f][n] = IF f = cur[c] /\ n = virt[c][4] THEN e ELSE tables[f][n]
  <1>1. tables = [g \in 1 .. Frames |-> [o \in Index |-> tables[g][o]]]
    BY DEF Whole, Shape, Typed
  <1>2. ASSUME NEW h, NEW o, NEW e, tables' = [tables EXCEPT ![h][o] = e]
        PROVE  tables'[f][n] = IF f = h /\ n = o THEN e ELSE tables[f][n]
    <2>1. CASE f = h
      BY <1>1, <1>2, <2>1
    <2>2. CASE f # h
      BY <1>1, <1>2, <2>2
    <2>3. QED
      BY <2>1, <2>2
  <1>3. Quiet => tables'[f][n] = tables[f][n]
    BY DEF Quiet
  <1>4. Makes(c) => tables'[f][n] = IF f = cur[c] /\ n = virt[c][level[c]]
                                          THEN [phys |-> used + 1, bits |-> TableBits]
                                          ELSE tables[f][n]
    <2> SUFFICES ASSUME Makes(c)
                 PROVE  tables'[f][n] = IF f = cur[c] /\ n = virt[c][level[c]]
                                        THEN [phys |-> used + 1, bits |-> TableBits]
                                        ELSE tables[f][n]
      OBVIOUS
    <2>1. tables' = [tables EXCEPT ![cur[c]][virt[c][level[c]]] =
                        [phys |-> used + 1, bits |-> TableBits]]
      BY DEF Makes
    <2>2. QED
      BY <1>2, <2>1
  <1>5. ASSUME NEW e, NEW w, Put(c, e, w)
        PROVE  tables'[f][n] = IF f = cur[c] /\ n = virt[c][4] THEN e ELSE tables[f][n]
    <2>1. tables' = [tables EXCEPT ![cur[c]][virt[c][4]] = e]
      BY <1>5 DEF Put
    <2>2. QED
      BY <1>2, <2>1
  <1>6. QED
    BY <1>3, <1>4, <1>5

LEMMA Types ==
    ASSUME Shape
    PROVE  /\ used \in Nat /\ used <= Frames /\ used >= MapCount
           /\ \A c \in CPUs :
                /\ at[c] \in Places /\ op[c] \in {"none", "map", "flag", "unmap"} /\ map[c] \in Maps
                /\ entry[c] \in LeafEntries /\ copy[c] \in LeafEntries /\ knew[c] \subseteq known
                /\ ShapeOf(c)
                /\ at[c] # "idle" =>
                     /\ virt[c] \in Virts /\ cur[c] \in 1 .. used /\ cur[c] \in 1 .. Frames
                     /\ virt[c][4] \in Index
                     /\ level[c] \in 1 .. 3 => virt[c][level[c]] \in Index
  <1>1. /\ used \in 0 .. Frames /\ used >= MapCount /\ \A c \in CPUs : ShapeOf(c)
        /\ \A c \in CPUs :
                /\ at[c] \in Places /\ op[c] \in {"none", "map", "flag", "unmap"} /\ map[c] \in Maps
                /\ entry[c] \in LeafEntries /\ copy[c] \in LeafEntries /\ knew[c] \subseteq known
    BY DEF Shape, Typed
  <1>2. used \in Nat /\ used <= Frames
    BY <1>1, Sizes
  <1>3. ASSUME NEW c \in CPUs, at[c] # "idle"
        PROVE  /\ virt[c] \in Virts /\ cur[c] \in 1 .. used /\ cur[c] \in 1 .. Frames
               /\ virt[c][4] \in Index
               /\ level[c] \in 1 .. 3 => virt[c][level[c]] \in Index
    <2>1. virt[c] \in Virts /\ cur[c] \in 1 .. used
      BY <1>1, <1>3 DEF ShapeOf
    <2>2. cur[c] \in 1 .. Frames
      BY <1>2, <2>1, Sizes
    <2>3. level[c] \in 1 .. 3 => level[c] \in 1 .. 4
      OBVIOUS
    <2>4. QED
      BY <2>1, <2>2, <2>3, VirtTypes
  <1>4. QED
    BY <1>1, <1>2, <1>3

\* What a call finds in the table it is at.
LEMMA Found ==
    ASSUME Shape, NEW depth, Forest(depth), AtLevel(depth), NEW c \in CPUs
    PROVE  /\ at[c] \in {"read", "make"} /\ Present \in Entry(c).bits =>
                Entry(c).phys \in 1 .. used /\ depth[Entry(c).phys] = level[c] + 1
           /\ at[c] \in {"leaf", "write"} => tables[cur[c]][virt[c][4]] \in LeafEntries
           /\ at[c] # "idle" => depth[cur[c]] = level[c]
  <1>1. at[c] # "idle" => depth[cur[c]] = level[c]
    BY DEF AtLevel
  <1>2. ASSUME at[c] \in {"read", "make"}, Present \in Entry(c).bits
        PROVE  Entry(c).phys \in 1 .. used /\ depth[Entry(c).phys] = level[c] + 1
    <2>1. /\ level[c] \in 1 .. 3 /\ cur[c] \in 1 .. Frames /\ cur[c] <= used
          /\ virt[c][level[c]] \in Index /\ depth[cur[c]] = level[c]
      BY <1>1, <1>2, Types DEF ShapeOf
    <2>2. TableEntry(Entry(c), depth, level[c])
      BY <2>1 DEF Forest, Entry
    <2>3. /\ Entry(c).phys \in MapCount + 1 .. used /\ depth[Entry(c).phys] = level[c] + 1
      BY <1>2, <2>2, Sizes DEF TableEntry
    <2>4. QED
      BY <2>3, Types, Sizes
  <1>3. ASSUME at[c] \in {"leaf", "write"} PROVE tables[cur[c]][virt[c][4]] \in LeafEntries
    <2>1. /\ level[c] = 4 /\ cur[c] \in 1 .. Frames /\ cur[c] <= used /\ virt[c][4] \in Index
      BY <1>3, Types DEF ShapeOf
    <2>2. depth[cur[c]] = 4
      BY <1>1, <1>3, <2>1
    <2>3. QED
      BY <2>1, <2>2 DEF Forest
  <1>4. QED
    BY <1>1, <1>2, <1>3

LEMMA EditedEntry ==
    ASSUME NEW a \in LeafEntries, NEW b \in LeafEntries
    PROVE  /\ [a EXCEPT !.bits = b.bits] \in LeafEntries
           /\ [a EXCEPT !.bits = b.bits] = [phys |-> a.phys, bits |-> b.bits]
  BY DEF LeafEntries

\* What a step stores, and what it says the call was to store.
LEMMA Stored ==
    ASSUME NEW c \in CPUs, Whole(c), Stores(c)
    PROVE  \E e \in LeafEntries, w \in LeafEntries :
              /\ Put(c, e, w) /\ at[c] \in {"leaf", "write"} /\ op[c] # "none"
              /\ at[c] = "leaf" => e = w /\ op[c] # "flag"
              /\ at[c] = "write" =>
                    /\ e = [phys |-> copy[c].phys, bits |-> entry[c].bits]
                    /\ w = [phys |-> want[map[c]][virt[c]].phys, bits |-> entry[c].bits]
  <1>1. entry[c] \in LeafEntries /\ copy[c] \in LeafEntries /\ Zero \in LeafEntries
    BY Types, Sizes DEF Whole
  <1>2. CASE at[c] = "leaf" /\ op[c] = "map" /\ Put(c, entry[c], entry[c])
    BY <1>1, <1>2
  <1>3. CASE at[c] = "leaf" /\ op[c] = "unmap" /\ Put(c, Zero, Zero)
    BY <1>1, <1>3
  <1>4. CASE at[c] = "write" /\ Put(c, [copy[c] EXCEPT !.bits = entry[c].bits],
                                       [want[map[c]][virt[c]] EXCEPT !.bits = entry[c].bits])
    <2>1. virt[c] \in Virts /\ map[c] \in Maps /\ op[c] # "none"
      BY <1>4, Types DEF Whole, ShapeOf
    <2>2. want[map[c]][virt[c]] \in LeafEntries
      BY <2>1 DEF Whole, Shape, Typed
    <2> DEFINE e == [copy[c] EXCEPT !.bits = entry[c].bits]
               w == [want[map[c]][virt[c]] EXCEPT !.bits = entry[c].bits]
    <2>3. e \in LeafEntries /\ e = [phys |-> copy[c].phys, bits |-> entry[c].bits]
      BY <1>1, EditedEntry
    <2>4. w \in LeafEntries /\ w = [phys |-> want[map[c]][virt[c]].phys, bits |-> entry[c].bits]
      BY <1>1, <2>2, EditedEntry
    <2>5. Put(c, e, w) /\ at[c] = "write"
      BY <1>4
    <2> HIDE DEF e, w
    <2>6. QED
      BY <2>1, <2>3, <2>4, <2>5
  <1>5. QED
    BY <1>2, <1>3, <1>4 DEF Stores

LEMMA StepTyped ==
    ASSUME NEW c \in CPUs, Whole(c), Step(c), clashed' \in BOOLEAN
    PROVE  Typed'
  <1>0. Typed /\ Shape /\ Moves(c) /\ (Quiet \/ Makes(c) \/ (Stores(c) /\ used' = used)) /\ ShapeOf(c)
    BY Types DEF Whole, Effect, Shape
  <1>1. used' \in 0 .. Frames /\ used' >= MapCount /\ used <= used'
    BY <1>0, Types, Sizes DEF Quiet, Makes
  <1>2. tables' = [f \in 1 .. Frames |-> [n \in Index |-> tables'[f][n]]]
    <2>1. tables = [f \in 1 .. Frames |-> [n \in Index |-> tables[f][n]]]
      BY <1>0 DEF Typed
    <2>2. ASSUME NEW h, NEW o, NEW e, tables' = [tables EXCEPT ![h][o] = e]
          PROVE  tables' = [f \in 1 .. Frames |-> [n \in Index |-> tables'[f][n]]]
      BY <2>1, <2>2
    <2>3. CASE Quiet
      BY <2>1, <2>3 DEF Quiet
    <2>4. CASE Makes(c)
      <3>1. tables' = [tables EXCEPT ![cur[c]][virt[c][level[c]]] =
                          [phys |-> used + 1, bits |-> TableBits]]
        BY <2>4 DEF Makes
      <3>2. QED
        BY <2>2, <3>1
    <2>5. CASE Stores(c)
      <3>1. PICK e \in LeafEntries, w \in LeafEntries : Put(c, e, w)
        BY <2>5, Stored
      <3>2. tables' = [tables EXCEPT ![cur[c]][virt[c][4]] = e]
        BY <3>1 DEF Put
      <3>3. QED
        BY <2>2, <3>2
    <2>6. QED
      BY <1>0, <2>3, <2>4, <2>5
  <1>3. /\ want' \in [Maps -> [Virts -> LeafEntries]]
        /\ known' \subseteq Maps \X Virts /\ known \subseteq known'
    <2>1. CASE UNCHANGED <<want, known>>
      BY <1>0, <2>1 DEF Typed
    <2>2. CASE Stores(c)
      <3>1. PICK e \in LeafEntries, w \in LeafEntries : Put(c, e, w) /\ at[c] \in {"leaf", "write"}
        BY <2>2, Stored
      <3>2. want \in [Maps -> [Virts -> LeafEntries]] /\ known \subseteq Maps \X Virts
        BY <1>0 DEF Typed
      <3>3. virt[c] \in Virts /\ map[c] \in Maps
        BY <1>0, <3>1, Types
      <3>4. Seen(map[c], virt[c]) \subseteq Maps \X Virts
        BY <3>3 DEF Seen
      <3>5. QED
        BY <3>1, <3>2, <3>4 DEF Put
    <2>3. QED
      BY <1>0, <2>1, <2>2 DEF Quiet, Makes
  <1>4. locked' \in [Maps -> BOOLEAN] /\ gaveUp' \in BOOLEAN
    BY <1>0 DEF Whole, Effect, GivesUp, Typed
  <1>5. ASSUME NEW d \in CPUs
        PROVE  /\ at'[d] \in Places /\ op'[d] \in {"none", "map", "flag", "unmap"}
               /\ map'[d] \in Maps /\ virt'[d] \in Virts \cup {<<>>} /\ entry'[d] \in LeafEntries
               /\ level'[d] \in 0 .. 4 /\ cur'[d] \in 0 .. used' /\ copy'[d] \in LeafEntries
               /\ knew'[d] \in SUBSET known'
    <2>0. /\ at[d] \in Places /\ op[d] \in {"none", "map", "flag", "unmap"}
          /\ map[d] \in Maps /\ virt[d] \in Virts \cup {<<>>} /\ entry[d] \in LeafEntries
          /\ level[d] \in 0 .. 4 /\ cur[d] \in 0 .. used /\ copy[d] \in LeafEntries
          /\ knew[d] \in SUBSET known
      BY <1>0 DEF Typed
    <2>1. CASE d # c
      <3>1. Stays(d)
        BY <2>1 DEF Whole, Effect
      <3>2. cur[d] \in 0 .. used' /\ knew[d] \in SUBSET known'
        BY <1>1, <1>3, <2>0, Types, <1>0
      <3>3. QED
        BY <2>0, <3>1, <3>2 DEF Stays
    <2>2. CASE d = c
      <3>1. at'[c] \in Places /\ op'[c] \in {"none", "map", "flag", "unmap"}
        BY <1>0, <2>0, <2>2 DEF Moves, Finished, Deeper, Places
      <3>2. map'[c] \in Maps /\ virt'[c] \in Virts \cup {<<>>} /\ entry'[c] \in LeafEntries
            /\ knew'[c] \in SUBSET known'
        BY <1>0, <1>3, <2>0, <2>2, VirtTypes, Sizes DEF Moves, Finished
      <3>3. level'[c] \in 0 .. 4
        BY <1>0, <2>0, <2>2 DEF Moves, Finished, Deeper, ShapeOf
      <3>4. cur'[c] \in 0 .. used' /\ copy'[c] \in LeafEntries
        <4>1. PICK depth : Forest(depth) /\ AtLevel(depth)
          BY <1>0 DEF Shape, Placed
        <4>2. /\ at[c] = "read" /\ Present \in Entry(c).bits => Entry(c).phys \in 1 .. used
              /\ at[c] = "leaf" => tables[cur[c]][virt[c][4]] \in LeafEntries
          BY <1>0, <4>1, Found
        <4>3. \A x \in 0 .. used : x \in 0 .. used'
          BY <1>0, <1>1, Types
        <4>4. /\ \A t \in Targets : t[1] \in 0 .. used'
              /\ 0 \in 0 .. used' /\ 1 .. used \subseteq 0 .. used
          BY <1>0, <1>1, VirtTypes, Sizes, Types
        <4>5. at[c] = "make" /\ used' = used + 1 => used + 1 \in 0 .. used'
          BY <1>0, Types
        <4>6. cur'[c] \in 0 .. used'
          BY <1>0, <2>0, <2>2, <4>2, <4>3, <4>4, <4>5 DEF Moves, Finished, Deeper, NULL
        <4>7. copy'[c] \in LeafEntries
          BY <1>0, <2>0, <2>2, <4>2, Sizes DEF Moves, Finished, Deeper
        <4>8. QED
          BY <4>6, <4>7
      <3>5. QED
        BY <2>2, <3>1, <3>2, <3>3, <3>4
    <2>3. QED
      BY <2>1, <2>2
  <1>6. /\ at' \in [CPUs -> Places] /\ op' \in [CPUs -> {"none", "map", "flag", "unmap"}]
        /\ map' \in [CPUs -> Maps] /\ virt' \in [CPUs -> Virts \cup {<<>>}]
        /\ entry' \in [CPUs -> LeafEntries]
    BY <1>0, <1>5, OnFunctions
  <1>7. /\ level' \in [CPUs -> 0 .. 4] /\ cur' \in [CPUs -> 0 .. used']
        /\ copy' \in [CPUs -> LeafEntries] /\ knew' \in [CPUs -> SUBSET known']
    BY <1>0, <1>5, OnFunctions
  <1>8. QED
    BY <1>1, <1>2, <1>3, <1>4, <1>6, <1>7 DEF Typed

\* The forest after each kind of step.
LEMMA ForestStays ==
    ASSUME NEW c \in CPUs, Whole(c), NEW depth, Forest(depth), EnteredOnce(depth), AtLevel(depth),
           Quiet \/ (Stores(c) /\ used' = used)
    PROVE  Forest(depth)' /\ EnteredOnce(depth)'
  <1>0. Shape /\ used' = used
    BY DEF Whole, Quiet
  <1>1. ASSUME NEW f \in 1 .. Frames, NEW n \in Index
        PROVE  \/ tables'[f][n] = tables[f][n]
               \/ f <= used /\ depth[f] = 4 /\ tables'[f][n] \in LeafEntries
    <2>1. CASE Quiet
      BY <2>1, EntriesAfter
    <2>2. CASE Stores(c)
      <3>1. PICK e \in LeafEntries, w \in LeafEntries : Put(c, e, w) /\ at[c] \in {"leaf", "write"}
        BY <2>2, Stored
      <3>2. tables'[f][n] = IF f = cur[c] /\ n = virt[c][4] THEN e ELSE tables[f][n]
        BY <3>1, EntriesAfter
      <3>3. cur[c] \in 1 .. used /\ depth[cur[c]] = level[c] /\ level[c] = 4
        BY <1>0, <3>1, Types DEF AtLevel, ShapeOf
      <3>4. cur[c] <= used
        BY <1>0, <3>3, Types
      <3>5. QED
        BY <3>1, <3>2, <3>3, <3>4
    <2>3. QED
      BY <2>1, <2>2
  <1>2. Forest(depth)'
    <2>1. depth \in [1 .. Frames -> 1 .. 4] /\ \A m \in Maps : depth[m] = 1
      BY DEF Forest
    <2>2. ASSUME NEW f \in 1 .. Frames, NEW n \in Index
          PROVE  /\ f > used' => tables'[f][n] = Zero
                 /\ f <= used' /\ depth[f] < 4 => TableEntry(tables[f][n], depth, depth[f])'
                 /\ f <= used' /\ depth[f] = 4 => tables'[f][n] \in LeafEntries
      <3>1. /\ f > used => tables[f][n] = Zero
            /\ f <= used /\ depth[f] < 4 => TableEntry(tables[f][n], depth, depth[f])
            /\ f <= used /\ depth[f] = 4 => tables[f][n] \in LeafEntries
        BY DEF Forest
      <3>2. depth[f] \in 1 .. 4 /\ used \in Nat
        BY <1>0, <2>1, Types
      <3>3. QED
        BY <1>0, <1>1, <3>1, <3>2 DEF TableEntry
    <2>3. QED
      BY <2>1, <2>2 DEF Forest
  <1>3. EnteredOnce(depth)'
    <2>1. ASSUME NEW f \in 1 .. used, NEW n \in Index, depth[f] < 4
          PROVE  tables'[f][n] = tables[f][n]
      <3>1. f \in 1 .. Frames
        BY <1>0, Types, Sizes
      <3>2. QED
        BY <1>1, <2>1, <3>1
    <2>2. QED
      BY <1>0, <2>1 DEF EnteredOnce
  <1>4. QED
    BY <1>2, <1>3

LEMMA ForestGrows ==
    ASSUME NEW c \in CPUs, Whole(c), NEW depth, Forest(depth), EnteredOnce(depth), AtLevel(depth),
           Makes(c)
    PROVE  \E D : /\ Forest(D)' /\ EnteredOnce(D)'
                  /\ \A x \in 1 .. used : D[x] = depth[x]
                  /\ D[used + 1] = level[c] + 1
  <1> PICK D : D = [depth EXCEPT ![used + 1] = level[c] + 1]
    OBVIOUS
  <1>0. /\ Shape /\ used' = used + 1 /\ at[c] = "make" /\ used < Frames
        /\ used \in Nat /\ Frames \in Nat /\ used >= MapCount /\ MapCount \in Nat
        /\ depth \in [1 .. Frames -> 1 .. 4] /\ \A m \in Maps : depth[m] = 1
    BY Types, Sizes DEF Whole, Makes, Forest
  <1>1. /\ level[c] \in 1 .. 3 /\ cur[c] \in 1 .. used /\ depth[cur[c]] = level[c]
        /\ virt[c][level[c]] \in Index
    BY <1>0, Types DEF AtLevel, ShapeOf
  <1>2. /\ D \in [1 .. Frames -> 1 .. 4] /\ \A x \in 1 .. used : D[x] = depth[x]
        /\ D[used + 1] = level[c] + 1
    BY <1>0, <1>1
  <1> DEFINE new == [phys |-> used + 1, bits |-> TableBits]
  <1>3. new.phys = used + 1 /\ new.bits = TableBits /\ Present \in new.bits
    BY Sizes
  <1>4. ASSUME NEW f \in 1 .. Frames, NEW n \in Index
        PROVE  tables'[f][n] = IF f = cur[c] /\ n = virt[c][level[c]] THEN new ELSE tables[f][n]
    BY <1>0, EntriesAfter
  <1> HIDE DEF new
  <1>5. ASSUME NEW m \in Maps PROVE D[m] = 1
    <2>1. m \in 1 .. used
      BY <1>0 DEF Maps
    <2>2. QED
      BY <1>0, <1>2, <2>1
  <1>6. ASSUME NEW f \in 1 .. Frames, NEW n \in Index
        PROVE  /\ f > used' => tables'[f][n] = Zero
               /\ f = used + 1 => tables'[f][n] = Zero
               /\ f <= used /\ depth[f] < 4 =>
                    \/ tables'[f][n] = Zero
                    \/ f = cur[c] /\ n = virt[c][level[c]] /\ tables'[f][n] = new
                    \/ /\ tables'[f][n] = tables[f][n] /\ tables[f][n].bits = TableBits
                       /\ tables[f][n] = [phys |-> tables[f][n].phys, bits |-> TableBits]
                       /\ tables[f][n].phys \in MapCount + 1 .. used
                       /\ depth[tables[f][n].phys] = depth[f] + 1
               /\ f <= used /\ depth[f] = 4 => tables'[f][n] \in LeafEntries
    <2>1. /\ f > used => tables[f][n] = Zero
          /\ f <= used /\ depth[f] < 4 => TableEntry(tables[f][n], depth, depth[f])
          /\ f <= used /\ depth[f] = 4 => tables[f][n] \in LeafEntries
      BY DEF Forest
    <2>2. f > used => f # cur[c]
      BY <1>0, <1>1
    <2>3. f <= used /\ depth[f] = 4 => f # cur[c]
      BY <1>1
    <2>4. f > used' \/ f = used + 1 => f > used
      BY <1>0
    <2>5. QED
      BY <1>4, <2>1, <2>2, <2>3, <2>4 DEF TableEntry
  <1>7. ASSUME NEW f \in 1 .. Frames, NEW n \in Index
        PROVE  /\ f > used' => tables'[f][n] = Zero
               /\ f <= used' /\ D[f] < 4 => TableEntry(tables[f][n], D, D[f])'
               /\ f <= used' /\ D[f] = 4 => tables'[f][n] \in LeafEntries
    <2>1. f > used' => tables'[f][n] = Zero
      BY <1>6
    <2>2. CASE f = used + 1
      BY <1>0, <1>6, <2>2, Sizes DEF TableEntry
    <2>3. CASE f <= used
      <3>1. D[f] = depth[f] /\ depth[f] \in 1 .. 4
        BY <1>0, <1>2, <2>3
      <3>2. D[f] = 4 => tables'[f][n] \in LeafEntries
        BY <1>6, <2>3, <3>1
      <3>3. ASSUME D[f] < 4 PROVE TableEntry(tables[f][n], D, D[f])'
        <4>1. CASE tables'[f][n] = Zero
          BY <4>1 DEF TableEntry
        <4>2. CASE f = cur[c] /\ n = virt[c][level[c]] /\ tables'[f][n] = new
          <5>1. new = [phys |-> new.phys, bits |-> TableBits]
            BY <1>3 DEF new
          <5>2. new.phys \in MapCount + 1 .. used' /\ D[new.phys] = D[f] + 1
            BY <1>0, <1>1, <1>2, <1>3, <3>1, <4>2
          <5>3. QED
            BY <4>2, <5>1, <5>2 DEF TableEntry
        <4>3. CASE /\ tables'[f][n] = tables[f][n]
                   /\ tables[f][n] = [phys |-> tables[f][n].phys, bits |-> TableBits]
                   /\ tables[f][n].phys \in MapCount + 1 .. used
                   /\ depth[tables[f][n].phys] = depth[f] + 1
          <5>1. tables[f][n].phys \in 1 .. used /\ tables[f][n].phys \in MapCount + 1 .. used'
            BY <1>0, <4>3
          <5>2. D[tables[f][n].phys] = D[f] + 1
            BY <1>2, <3>1, <4>3, <5>1
          <5>3. QED
            BY <4>3, <5>1, <5>2 DEF TableEntry
        <4>4. QED
          BY <1>6, <2>3, <3>1, <3>3, <4>1, <4>2, <4>3
      <3>4. QED
        BY <2>1, <3>2, <3>3
    <2>4. f <= used' => f <= used \/ f = used + 1
      BY <1>0
    <2>5. QED
      BY <2>1, <2>2, <2>3, <2>4
  <1>8. ASSUME NEW f \in 1 .. used', NEW g \in 1 .. used', NEW n \in Index, NEW o \in Index,
               D[f] < 4, D[g] < 4, Present \in tables'[f][n].bits, Present \in tables'[g][o].bits,
               tables'[f][n].phys = tables'[g][o].phys
        PROVE  n = o /\ (f = g \/ (f \in Maps /\ g \in Maps /\ n \in High))
    <2>1. ASSUME NEW h \in 1 .. used', NEW p \in Index, D[h] < 4, Present \in tables'[h][p].bits
          PROVE  /\ h \in 1 .. used /\ h \in 1 .. Frames /\ depth[h] < 4
                 /\ \/ h = cur[c] /\ p = virt[c][level[c]] /\ tables'[h][p].phys = used + 1
                    \/ tables'[h][p] = tables[h][p] /\ tables[h][p].phys <= used
      <3>1. h \in 1 .. Frames /\ (h <= used \/ h = used + 1)
        BY <1>0
      <3>2. tables'[h][p] # Zero
        BY <2>1, Sizes
      <3>7. h # used + 1
        BY <1>6, <3>1, <3>2
      <3>3. h <= used /\ h \in 1 .. used
        BY <1>0, <3>1, <3>7
      <3>4. depth[h] < 4
        BY <1>2, <2>1, <3>3
      <3>5. \/ h = cur[c] /\ p = virt[c][level[c]] /\ tables'[h][p] = new
            \/ tables'[h][p] = tables[h][p] /\ tables[h][p].phys \in MapCount + 1 .. used
        BY <1>6, <3>1, <3>2, <3>3, <3>4
      <3>6. QED
        BY <1>0, <1>3, <3>1, <3>3, <3>4, <3>5
    <2>2. /\ f \in 1 .. used /\ g \in 1 .. used /\ depth[f] < 4 /\ depth[g] < 4
          /\ \/ f = cur[c] /\ n = virt[c][level[c]] /\ tables'[f][n].phys = used + 1
             \/ tables'[f][n] = tables[f][n] /\ tables[f][n].phys <= used
          /\ \/ g = cur[c] /\ o = virt[c][level[c]] /\ tables'[g][o].phys = used + 1
             \/ tables'[g][o] = tables[g][o] /\ tables[g][o].phys <= used
      BY <1>8, <2>1
    <2>3. CASE tables'[f][n].phys = used + 1
      <3>1. ~(tables'[f][n] = tables[f][n] /\ tables[f][n].phys <= used)
        BY <1>0, <2>3
      <3>2. ~(tables'[g][o] = tables[g][o] /\ tables[g][o].phys <= used)
        <4>1. tables'[g][o].phys = used + 1
          BY <1>8, <2>3
        <4>2. QED
          BY <1>0, <4>1
      <3>3. QED
        BY <2>2, <3>1, <3>2
    <2>4. CASE tables'[f][n].phys # used + 1
      BY <1>8, <2>2, <2>4 DEF EnteredOnce
    <2>5. QED
      BY <2>3, <2>4
  <1>9. Forest(D)'
    BY <1>2, <1>5, <1>7 DEF Forest
  <1>10. EnteredOnce(D)'
    BY <1>8 DEF EnteredOnce
  <1>11. QED
    BY <1>2, <1>9, <1>10

LEMMA LevelsKept ==
    ASSUME NEW c \in CPUs, Whole(c), NEW depth, Forest(depth), AtLevel(depth),
           NEW D, \A x \in 1 .. used : D[x] = depth[x],
           Makes(c) => D[used + 1] = level[c] + 1
    PROVE  AtLevel(D)'
  <1>0. Shape /\ Moves(c) /\ (Quiet \/ Makes(c) \/ (Stores(c) /\ used' = used)) /\ ShapeOf(c)
    BY Types DEF Whole, Effect
  <1>1. ASSUME NEW d \in CPUs, at'[d] # "idle" PROVE D[cur'[d]] = level'[d]
    <2>1. at[d] # "idle" => cur[d] \in 1 .. used /\ depth[cur[d]] = level[d]
      BY <1>0, Types DEF AtLevel
    <2>2. CASE d # c
      BY <1>1, <2>1, <2>2 DEF Whole, Effect, Stays
    <2>3. CASE d = c
      <3>1. ASSUME at[c] = "idle" PROVE D[cur'[c]] = level'[c]
        <4>1. PICK t \in Targets : cur'[c] = t[1]
          BY <1>0, <3>1 DEF Moves
        <4>2. t[1] \in Maps /\ t[1] \in 1 .. used
          BY <1>0, VirtTypes, Types, Sizes
        <4>3. level'[c] = 1
          BY <1>0, <3>1 DEF Moves
        <4>4. QED
          BY <4>1, <4>2, <4>3 DEF Forest
      <3>2. ASSUME at[c] = "read", Present \in Entry(c).bits, Deeper(c, Entry(c).phys)
            PROVE  D[cur'[c]] = level'[c]
        BY <1>0, <3>2, Found DEF Deeper
      <3>3. ASSUME used' = used + 1, Deeper(c, used + 1) PROVE D[cur'[c]] = level'[c]
        <4>1. Makes(c)
          BY <1>0, <3>3, Types DEF Quiet
        <4>2. QED
          BY <3>3, <4>1 DEF Deeper
      <3>4. ASSUME at[c] # "idle", cur'[c] = cur[c], level'[c] = level[c]
            PROVE  D[cur'[c]] = level'[c]
        BY <2>1, <2>3, <3>4
      <3>5. at[c] \in {"idle", "acquire", "read", "make", "leaf", "write", "release"}
        BY <1>0 DEF Moves
      <3>6. Finished(c) => at'[c] = "idle"
        BY DEF Finished
      <3>7. QED
        BY <1>0, <1>1, <2>3, <3>1, <3>2, <3>3, <3>4, <3>5, <3>6 DEF Moves
    <2>4. QED
      BY <2>2, <2>3
  <1>2. QED
    BY <1>1 DEF AtLevel

LEMMA StepPlaced ==
    ASSUME NEW c \in CPUs, Whole(c)
    PROVE  Placed'
  <1>0. Shape /\ (Quiet \/ Makes(c) \/ (Stores(c) /\ used' = used))
    BY DEF Whole, Effect
  <1>1. PICK depth : Forest(depth) /\ EnteredOnce(depth) /\ AtLevel(depth)
    BY <1>0 DEF Shape, Placed
  <1>2. CASE Makes(c)
    <2>1. PICK D : /\ Forest(D)' /\ EnteredOnce(D)'
                   /\ \A x \in 1 .. used : D[x] = depth[x]
                   /\ D[used + 1] = level[c] + 1
      BY <1>1, <1>2, ForestGrows
    <2>2. AtLevel(D)'
      BY <1>1, <2>1, LevelsKept
    <2>3. QED
      BY <2>1, <2>2 DEF Placed
  <1>3. CASE ~Makes(c)
    <2>1. Forest(depth)' /\ EnteredOnce(depth)' /\ AtLevel(depth)'
      BY <1>0, <1>1, <1>3, ForestStays, LevelsKept
    <2>2. QED
      BY <2>1 DEF Placed
  <1>4. QED
    BY <1>2, <1>3

\* No step touches the higher half of a top level.
LEMMA HalfKept ==
    ASSUME NEW c \in CPUs, Whole(c)
    PROVE  /\ \A m \in Maps, o \in High : tables'[m][o] = tables[m][o]
           /\ HalfShared'
  <1>0. Shape /\ HalfShared /\ (Quiet \/ Makes(c) \/ (Stores(c) /\ used' = used))
    BY DEF Whole, Effect, Shape
  <1>1. PICK depth : Forest(depth) /\ AtLevel(depth)
    BY <1>0 DEF Shape, Placed
  <1>2. ASSUME NEW m \in Maps, NEW o \in High PROVE tables'[m][o] = tables[m][o]
    <2>1. m \in 1 .. Frames /\ o \in Index /\ depth[m] = 1
      BY <1>1, Sizes DEF Forest
    <2>2. CASE Quiet
      BY <2>1, <2>2, EntriesAfter
    <2>3. CASE Makes(c)
      <3>1. ~(m = cur[c] /\ o = virt[c][level[c]])
        <4>1. at[c] = "make" /\ depth[cur[c]] = level[c]
          BY <1>1, <2>3 DEF Makes, AtLevel
        <4>2. level[c] = 1 => virt[c][1] \notin High
          BY <1>0, <4>1, Types DEF ShapeOf
        <4>3. QED
          BY <2>1, <4>1, <4>2
      <3>2. QED
        BY <2>1, <2>3, <3>1, EntriesAfter
    <2>4. CASE Stores(c)
      <3>1. PICK e \in LeafEntries, w \in LeafEntries : Put(c, e, w) /\ at[c] \in {"leaf", "write"}
        BY <2>4, Stored
      <3>2. depth[cur[c]] = level[c] /\ level[c] = 4
        BY <1>0, <1>1, <3>1, Types DEF AtLevel, ShapeOf
      <3>3. m # cur[c]
        BY <2>1, <3>2
      <3>4. QED
        BY <2>1, <3>1, <3>3, EntriesAfter
    <2>5. QED
      BY <1>0, <2>2, <2>3, <2>4
  <1>3. QED
    BY <1>0, <1>2 DEF HalfShared

LEMMA ShapesKept ==
    ASSUME NEW c \in CPUs, Whole(c), NEW d \in CPUs
    PROVE  ShapeOf(d)'
  <1>0. Shape /\ Moves(c) /\ (Quiet \/ Makes(c) \/ (Stores(c) /\ used' = used))
    BY DEF Whole, Effect
  <1>1. /\ ShapeOf(d) /\ \A n : n \in 1 .. used => n \in 1 .. used'
        /\ at[d] \in Places /\ op[d] \in {"none", "map", "flag", "unmap"}
    BY <1>0, Types DEF Quiet, Makes
  <1>2. CASE d # c
    <2>1. Stays(d)
      BY <1>2 DEF Whole, Effect
    <2>2. QED
      BY <1>1, <2>1 DEF Stays, ShapeOf
  <1>3. CASE d = c
    <2>0. at[c] \in {"idle", "acquire", "read", "make", "leaf", "write", "release"}
      BY <1>0 DEF Moves
    <2>1. CASE at[c] = "idle"
      <3>1. PICK t \in Targets : map'[c] = t[1] /\ virt'[c] = t[2] /\ cur'[c] = t[1]
        BY <1>0, <2>1 DEF Moves
      <3>2. /\ t[2] \in Virts /\ t[1] \in 1 .. used /\ t[1] \in 1 .. used'
        BY <1>0, <1>1, VirtTypes, Types, Sizes
      <3>3. QED
        BY <1>0, <1>3, <2>1, <3>1, <3>2 DEF Moves, ShapeOf
    <2>2. CASE Finished(c)
      BY <1>3, <2>2 DEF Finished, ShapeOf
    <2>3. CASE at[c] # "idle" /\ ~Finished(c)
      <3>1. /\ op'[c] = op[c] /\ map'[c] = map[c] /\ virt'[c] = virt[c]
            /\ op[c] # "none" /\ virt[c] \in Virts /\ cur[c] \in 1 .. used /\ cur[c] \in 1 .. used'
            /\ level[c] = 1 => cur[c] = map[c]
        BY <1>0, <1>1, <1>3, <2>3 DEF Moves, ShapeOf
      <3>2. CASE at[c] = "acquire"
        BY <1>0, <1>1, <1>3, <3>1, <3>2 DEF Moves, ShapeOf
      <3>3. CASE at[c] = "read"
        <4>1. level[c] \in 1 .. 3
          BY <1>1, <1>3, <3>3 DEF ShapeOf
        <4>2. ASSUME Present \in Entry(c).bits, Deeper(c, Entry(c).phys) PROVE ShapeOf(d)'
          <5>1. Entry(c).phys \in 1 .. used /\ Entry(c).phys \in 1 .. used'
            BY <1>0, <1>1, <3>3, <4>2, Found DEF Shape, Placed
          <5>2. QED
            BY <1>3, <3>1, <4>1, <4>2, <5>1 DEF Deeper, ShapeOf
        <4>3. ASSUME Present \notin Entry(c).bits,
                     at'[c] = (IF op[c] = "unmap" THEN "fault" ELSE "make"),
                     level'[c] = level[c], cur'[c] = cur[c]
              PROVE  ShapeOf(d)'
          <5>1. level[c] = 1 => virt[c][1] \notin High
            <6> SUFFICES ASSUME level[c] = 1, virt[c][1] \in High PROVE FALSE
              OBVIOUS
            <6>1. cur[c] = map[c] /\ map[c] \in Maps
              BY <1>0, <3>1, Types
            <6>2. Present \in tables[map[c]][virt[c][1]].bits
              BY <1>0, <6>1 DEF Shape, HalfShared
            <6>3. QED
              BY <4>3, <6>1, <6>2 DEF Entry
          <5>2. QED
            BY <1>3, <3>1, <4>1, <4>3, <5>1 DEF ShapeOf
        <4>4. QED
          BY <1>0, <3>3, <4>2, <4>3 DEF Moves
      <3>4. CASE at[c] = "make"
        <4>1. level[c] \in 1 .. 3
          BY <1>1, <1>3, <3>4 DEF ShapeOf
        <4>2. ASSUME used' = used + 1, Deeper(c, used + 1) PROVE ShapeOf(d)'
          <5>1. used + 1 \in 1 .. used'
            BY <1>0, <4>2, Types
          <5>2. QED
            BY <1>3, <3>1, <4>1, <4>2, <5>1 DEF Deeper, ShapeOf
        <4>3. ASSUME op[c] = "map", at'[c] = "release", level'[c] = level[c], cur'[c] = cur[c]
              PROVE  ShapeOf(d)'
          BY <1>3, <3>1, <4>3 DEF ShapeOf
        <4>4. QED
          BY <1>0, <2>3, <3>4, <4>2, <4>3 DEF Moves
      <3>5. CASE at[c] = "leaf"
        BY <1>0, <1>1, <1>3, <2>3, <3>1, <3>5 DEF Moves, ShapeOf
      <3>6. CASE at[c] \in {"write", "release"}
        BY <1>0, <2>3, <3>6 DEF Moves
      <3>7. QED
        BY <2>0, <2>3, <3>2, <3>3, <3>4, <3>5, <3>6
    <2>4. QED
      BY <2>1, <2>2, <2>3
  <1>4. QED
    BY <1>2, <1>3

LEMMA ShapeKept ==
    ASSUME Shape, NEW c \in CPUs, Step(c), clashed' \in BOOLEAN
    PROVE  Shape'
  <1>1. Whole(c)
    BY StepWhole
  <1>2. QED
    BY <1>1, StepTyped, StepPlaced, HalfKept, ShapesKept DEF Shape

\* The lock of a map keeps the map_page calls for it apart, until one gives up.
LEMMA ExclusiveKept ==
    ASSUME NEW c \in CPUs, Whole(c), Exclusive
    PROVE  Exclusive'
  <1>0. Shape /\ Effect(c) /\ Moves(c) /\ locked \in [Maps -> BOOLEAN] /\ gaveUp \in BOOLEAN
        /\ \A d \in CPUs : map[d] \in Maps
    BY Types DEF Whole, Effect, Shape, Typed
  <1> SUFFICES ASSUME ~gaveUp' PROVE \A d \in CPUs : Holding(d)' =>
        locked'[map'[d]] /\ \A g \in CPUs : Holding(g)' /\ map'[g] = map'[d] => d = g
    BY DEF Exclusive
  <1>1. /\ ~gaveUp /\ ~GivesUp(c)
        /\ \A d \in CPUs : Holding(d) =>
              locked[map[d]] /\ \A g \in CPUs : Holding(g) /\ map[g] = map[d] => d = g
    BY <1>0 DEF Effect, Exclusive
  <1>2. \A d \in CPUs : d # c => (Holding(d)' <=> Holding(d)) /\ map'[d] = map[d]
    BY <1>0 DEF Effect, Stays, Holding
  <1>3. Holding(c)' => map'[c] = map[c] /\ (Holding(c) \/ at[c] = "acquire") /\ at[c] # "release"
    BY <1>0, Types DEF Moves, Finished, Deeper, Holding, ShapeOf
  <1>4. /\ at[c] = "acquire" => locked' = [locked EXCEPT ![map[c]] = TRUE] \/ locked' = locked
        /\ at[c] = "release" => locked' = [locked EXCEPT ![map[c]] = FALSE] /\ Holding(c)
        /\ at[c] \notin {"acquire", "release"} => locked' = locked
    BY <1>0, Types DEF Effect, Holding, ShapeOf
  <1>5. \A m \in Maps : locked[m] /\ ~(at[c] = "release" /\ m = map[c]) => locked'[m]
    BY <1>0, <1>4
  <1>6. at[c] = "acquire" => ~locked[map[c]] /\ locked'[map[c]]
    BY <1>1 DEF GivesUp
  <1>7. QED
    BY <1>0, <1>1, <1>2, <1>3, <1>4, <1>5, <1>6

-----------------------------------------------------------------------------
(* The tables on the path of an address. *)

LEMMA NodeSteps ==
    ASSUME NEW m, NEW v
    PROVE  /\ Node(1, m, v) = m
           /\ \A l \in 1 .. 3 : Node(l + 1, m, v) = Level(Node(l, m, v), v[l])
           /\ Node(4, m, v) = Pml1(m, v)
  <1>1. /\ Node(1, m, v) = m /\ Node(2, m, v) = Level(Node(1, m, v), v[1])
        /\ Node(3, m, v) = Level(Node(2, m, v), v[2])
        /\ Node(4, m, v) = Level(Node(3, m, v), v[3]) /\ Node(4, m, v) = Pml1(m, v)
    BY DEF Node, Pml1
  <1>2. ASSUME NEW l \in 1 .. 3 PROVE Node(l + 1, m, v) = Level(Node(l, m, v), v[l])
    <2>1. CASE l = 1
      BY <1>1, <2>1
    <2>2. CASE l = 2
      BY <1>1, <2>2
    <2>3. CASE l = 3
      BY <1>1, <2>3
    <2>4. QED
      BY <2>1, <2>2, <2>3
  <1>3. QED
    BY <1>1, <1>2

LEMMA NodeStepsAfter ==
    ASSUME NEW m, NEW v
    PROVE  /\ (Node(1, m, v) = m)' /\ (Node(4, m, v) = Pml1(m, v))'
           /\ \A l \in 1 .. 3 : (Node(l + 1, m, v) = Level(Node(l, m, v), v[l]))'
  <1>1. /\ (Node(1, m, v) = m)' /\ (Node(2, m, v) = Level(Node(1, m, v), v[1]))'
        /\ (Node(3, m, v) = Level(Node(2, m, v), v[2]))'
        /\ (Node(4, m, v) = Level(Node(3, m, v), v[3]))' /\ (Node(4, m, v) = Pml1(m, v))'
    BY DEF Node, Pml1
  <1>2. ASSUME NEW l \in 1 .. 3 PROVE (Node(l + 1, m, v) = Level(Node(l, m, v), v[l]))'
    <2>1. CASE l = 1
      BY <1>1, <2>1
    <2>2. CASE l = 2
      BY <1>1, <2>2
    <2>3. CASE l = 3
      BY <1>1, <2>3
    <2>4. QED
      BY <2>1, <2>2, <2>3
  <1>3. QED
    BY <1>1, <1>2

LEMMA NextPlaced ==
    ASSUME Shape, NEW depth, Forest(depth), NEW f \in 1 .. used, depth[f] < 4, NEW n \in Index
    PROVE  Level(f, n) = NULL \/
               /\ Level(f, n) \in 1 .. used /\ depth[Level(f, n)] = depth[f] + 1
               /\ Level(f, n) = tables[f][n].phys /\ Present \in tables[f][n].bits
  <1>1. f \in 1 .. Frames /\ f <= used /\ used \in Nat /\ MapCount \in Nat
    BY Types, Sizes
  <1>2. TableEntry(tables[f][n], depth, depth[f])
    BY <1>1 DEF Forest
  <1>3. Level(f, n) # NULL => Level(f, n) = tables[f][n].phys /\ Present \in tables[f][n].bits
    BY DEF Level
  <1>4. Present \in tables[f][n].bits =>
            tables[f][n].phys \in MapCount + 1 .. used /\ depth[tables[f][n].phys] = depth[f] + 1
    BY <1>2, Sizes DEF TableEntry
  <1>5. \A x \in MapCount + 1 .. used : x \in 1 .. used
    BY <1>1
  <1>6. QED
    BY <1>3, <1>4, <1>5

LEMMA NodesPlaced ==
    ASSUME Shape, NEW depth, Forest(depth), NEW m \in Maps, NEW v \in Virts
    PROVE  \A l \in 1 .. 4 : Node(l, m, v) = NULL \/ (Node(l, m, v) \in 1 .. used /\ depth[Node(l, m, v)] = l)
  <1> DEFINE P(l) == Node(l, m, v) = NULL \/ (Node(l, m, v) \in 1 .. used /\ depth[Node(l, m, v)] = l)
  <1>1. P(1)
    <2>1. m \in 1 .. used /\ depth[m] = 1
      BY Types, Sizes DEF Forest
    <2>2. QED
      BY <2>1, NodeSteps
  <1>2. ASSUME NEW l \in 1 .. 3, P(l) PROVE P(l + 1)
    <2>1. Node(l + 1, m, v) = Level(Node(l, m, v), v[l]) /\ v[l] \in Index
      <3>1. l \in 1 .. 4
        OBVIOUS
      <3>2. QED
        BY <3>1, NodeSteps, VirtTypes
    <2>2. CASE Node(l, m, v) = NULL
      BY <2>1, <2>2 DEF Level
    <2>3. CASE Node(l, m, v) # NULL
      <3>1. Node(l, m, v) \in 1 .. used /\ depth[Node(l, m, v)] = l /\ l < 4
        BY <1>2, <2>3
      <3>2. QED
        BY <2>1, <3>1, NextPlaced
    <2>4. QED
      BY <2>2, <2>3
  <1> HIDE DEF P
  <1>3. P(2) /\ P(3) /\ P(4)
    <2>1. P(2)
      BY <1>1, <1>2
    <2>2. P(3)
      BY <2>1, <1>2
    <2>3. P(4)
      BY <2>2, <1>2
    <2>4. QED
      BY <2>1, <2>2, <2>3
  <1>4. ASSUME NEW l \in 1 .. 4 PROVE P(l)
    <2>1. l = 1 \/ l = 2 \/ l = 3 \/ l = 4
      OBVIOUS
    <2>2. QED
      BY <1>1, <1>3, <2>1
  <1>5. QED
    BY <1>4 DEF P

\* A path that ends early ends: no address has a table past a missing one.
LEMMA PathEnds ==
    ASSUME NEW m, NEW v, NEW l \in 1 .. 4, Node(l, m, v) = NULL
    PROVE  Pml1(m, v) = NULL
  <1>1. \A k \in 1 .. 3 : Node(k, m, v) = NULL => Node(k + 1, m, v) = NULL
    BY NodeSteps DEF Level
  <1>2. CASE l = 1
    BY <1>1, <1>2, NodeSteps
  <1>3. CASE l = 2
    BY <1>1, <1>3, NodeSteps
  <1>4. CASE l = 3
    BY <1>1, <1>4, NodeSteps
  <1>5. CASE l = 4
    BY <1>5, NodeSteps
  <1>6. QED
    BY <1>2, <1>3, <1>4, <1>5

\* Two paths that meet are one path, but for the map where it is in the higher half.
LEMMA PathsApart ==
    ASSUME Shape, NEW m \in Maps, NEW n \in Maps, NEW v \in Virts, NEW w \in Virts,
           Pml1(m, v) # NULL, Pml1(m, v) = Pml1(n, w), v[4] = w[4]
    PROVE  <<n, w>> \in Seen(m, v)
  <1>1. PICK depth : Forest(depth) /\ EnteredOnce(depth)
    BY DEF Shape, Placed
  <1> DEFINE A(l) == Node(l, m, v)
             B(l) == Node(l, n, w)
  <1>2. \A l \in 1 .. 4 : /\ A(l) # NULL /\ A(l) \in 1 .. used /\ depth[A(l)] = l
                          /\ B(l) # NULL /\ B(l) \in 1 .. used /\ depth[B(l)] = l
    BY <1>1, NodesPlaced, PathEnds
  <1>3. /\ A(4) = B(4) /\ A(1) = m /\ B(1) = n
        /\ \A l \in 1 .. 3 : A(l + 1) = Level(A(l), v[l]) /\ B(l + 1) = Level(B(l), w[l])
    BY NodeSteps
  <1> HIDE DEF A, B
  <1>4. ASSUME NEW l \in 1 .. 3, A(l + 1) = B(l + 1)
        PROVE  v[l] = w[l] /\ (A(l) = B(l) \/ (l = 1 /\ v[l] \in High))
    <2>1. l \in 1 .. 4 /\ l + 1 \in 1 .. 4
      OBVIOUS
    <2>2. /\ A(l) \in 1 .. used /\ depth[A(l)] < 4 /\ v[l] \in Index /\ Level(A(l), v[l]) # NULL
          /\ B(l) \in 1 .. used /\ depth[B(l)] < 4 /\ w[l] \in Index /\ Level(B(l), w[l]) # NULL
          /\ depth[A(l)] = l
      BY <1>2, <1>3, <2>1, VirtTypes
    <2>3. /\ Level(A(l), v[l]) = tables[A(l)][v[l]].phys /\ Present \in tables[A(l)][v[l]].bits
          /\ Level(B(l), w[l]) = tables[B(l)][w[l]].phys /\ Present \in tables[B(l)][w[l]].bits
      BY <1>1, <2>2, NextPlaced
    <2>4. tables[A(l)][v[l]].phys = tables[B(l)][w[l]].phys
      BY <1>3, <1>4, <2>3
    <2>5. v[l] = w[l] /\ (A(l) = B(l) \/ (A(l) \in Maps /\ v[l] \in High))
      BY <1>1, <2>2, <2>3, <2>4 DEF EnteredOnce
    <2>6. A(l) \in Maps => l = 1
      BY <1>1, <2>2 DEF Forest
    <2>7. QED
      BY <2>5, <2>6
  <1>5. v[3] = w[3] /\ A(3) = B(3)
    BY <1>3, <1>4
  <1>6. v[2] = w[2] /\ A(2) = B(2)
    BY <1>4, <1>5
  <1>7. v[1] = w[1] /\ (m = n \/ v[1] \in High)
    BY <1>3, <1>4, <1>6
  <1>8. v = w
    BY <1>5, <1>6, <1>7, VirtTypes
  <1>9. QED
    BY <1>7, <1>8 DEF Seen

LEMMA SeenTogether ==
    ASSUME Shape, NEW m \in Maps, NEW v \in Virts, NEW n \in Maps, NEW w \in Virts, <<n, w>> \in Seen(m, v)
    PROVE  w = v /\ Pml1(n, w) = Pml1(m, v)
  <1>1. w = v /\ (n = m \/ v[1] \in High)
    BY DEF Seen
  <1>2. CASE n = m
    BY <1>1, <1>2
  <1>3. CASE v[1] \in High
    <2>1. tables[n][v[1]] = tables[m][v[1]]
      BY <1>3 DEF Shape, HalfShared
    <2>2. n # NULL /\ m # NULL
      BY Sizes DEF NULL
    <2>3. Level(n, v[1]) = Level(m, v[1])
      BY <2>1, <2>2 DEF Level
    <2>4. QED
      BY <1>1, <2>3 DEF Pml1
  <1>4. QED
    BY <1>1, <1>2, <1>3

-----------------------------------------------------------------------------
(* A step while no calls have clashed and no lock was given up. *)

Calm == ~clashed /\ ~gaveUp /\ Exclusive /\ ClashSeen
        /\ OnPath /\ Waiting /\ Copied /\ KnownFound /\ AsCalled /\ FaultsNew
CalmStep(c) == Whole(c) /\ Calm

\* Two calls about to enter a table in the same slot are one.
LEMMA MakesAlone ==
    ASSUME NEW c \in CPUs, CalmStep(c), NEW d \in CPUs, at[c] = "make", at[d] = "make",
           cur[c] = cur[d], virt[c][level[c]] = virt[d][level[d]]
    PROVE  c = d
  <1> SUFFICES ASSUME c # d PROVE FALSE
    OBVIOUS
  <1>1. ~Clash /\ Exclusive /\ ~gaveUp
    BY DEF CalmStep, Calm, ClashSeen
  <1>2. op[c] = "map" /\ op[d] = "map" /\ map[c] = map[d]
    BY <1>1 DEF Clash
  <1>3. QED
    BY <1>1, <1>2 DEF Exclusive, Holding

\* What is stored is what was wanted, for all that the store is seen by.
LEMMA StoredAsWanted ==
    ASSUME NEW c \in CPUs, CalmStep(c), Stores(c)
    PROVE  \E e \in LeafEntries :
              /\ Put(c, e, e) /\ at[c] \in {"leaf", "write"} /\ used' = used
              /\ cur[c] = Pml1(map[c], virt[c]) /\ cur[c] # NULL
              /\ map[c] \in Maps /\ virt[c] \in Virts
              /\ at[c] = "write" => e.phys = tables[cur[c]][virt[c][4]].phys
              /\ at[c] = "leaf" => op[c] # "flag"
  <1>1. PICK e \in LeafEntries, w \in LeafEntries :
              /\ Put(c, e, w) /\ at[c] \in {"leaf", "write"} /\ op[c] # "none"
              /\ at[c] = "leaf" => e = w /\ op[c] # "flag"
              /\ at[c] = "write" =>
                    /\ e = [phys |-> copy[c].phys, bits |-> entry[c].bits]
                    /\ w = [phys |-> want[map[c]][virt[c]].phys, bits |-> entry[c].bits]
    BY Stored DEF CalmStep
  <1>2. /\ Shape /\ map[c] \in Maps /\ virt[c] \in Virts /\ level[c] = 4 /\ cur[c] \in 1 .. used
        /\ used' = used
    BY <1>1, Types DEF CalmStep, Whole, Effect, ShapeOf, Quiet, Makes
  <1>3. cur[c] = Pml1(map[c], virt[c])
    BY <1>1, <1>2, NodeSteps DEF CalmStep, Calm, OnPath
  <1>4. cur[c] # NULL
    BY <1>2, Types DEF NULL
  <1>5. ASSUME at[c] = "write" PROVE e.phys = tables[cur[c]][virt[c][4]].phys /\ e = w
    <2>1. Walk(map[c], virt[c]) = want[map[c]][virt[c]]
      BY <1>2 DEF CalmStep, Calm, AsCalled
    <2>2. Walk(map[c], virt[c]) = tables[cur[c]][virt[c][4]]
      BY <1>3, <1>4 DEF Walk
    <2>3. copy[c].phys = tables[cur[c]][virt[c][4]].phys
      BY <1>5 DEF CalmStep, Calm, Copied
    <2>4. QED
      BY <1>1, <1>5, <2>1, <2>2, <2>3
  <1>6. QED
    BY <1>1, <1>2, <1>3, <1>4, <1>5

\* The upper levels: an entry that leads somewhere goes on leading there.
LEMMA UpperAfter ==
    ASSUME NEW c \in CPUs, CalmStep(c), NEW depth, Forest(depth), AtLevel(depth),
           NEW f \in 1 .. used, depth[f] < 4, NEW n \in Index
    PROVE  IF Makes(c) /\ f = cur[c] /\ n = virt[c][level[c]]
             THEN Present \notin tables[f][n].bits /\ tables'[f][n] = [phys |-> used + 1, bits |-> TableBits]
             ELSE tables'[f][n] = tables[f][n]
  <1>0. Shape /\ (Quiet \/ Makes(c) \/ (Stores(c) /\ used' = used)) /\ f \in 1 .. Frames
    BY Types, Sizes DEF CalmStep, Whole, Effect
  <1>1. CASE Makes(c)
    <2>1. Present \notin Entry(c).bits
      BY <1>1 DEF Makes, CalmStep, Calm, Waiting
    <2>2. QED
      BY <1>0, <1>1, <2>1, EntriesAfter DEF Entry, CalmStep
  <1>2. CASE ~Makes(c) /\ Quiet
    BY <1>0, <1>2, EntriesAfter DEF CalmStep
  <1>3. CASE ~Makes(c) /\ Stores(c)
    <2>1. PICK e \in LeafEntries, w \in LeafEntries : Put(c, e, w) /\ at[c] \in {"leaf", "write"}
      BY <1>3, Stored DEF CalmStep
    <2>2. f # cur[c]
      BY <1>0, <2>1, Types DEF AtLevel, ShapeOf
    <2>3. QED
      BY <1>0, <1>3, <2>1, <2>2, EntriesAfter DEF CalmStep
  <1>4. QED
    BY <1>0, <1>1, <1>2, <1>3

\* A table of a path stays on it; a path that ended may go on to the new table,
\* which is empty.
LEMMA NodesAfter ==
    ASSUME NEW c \in CPUs, CalmStep(c), NEW m \in Maps, NEW v \in Virts
    PROVE  \A l \in 1 .. 4 :
              \/ Node(l, m, v)' = Node(l, m, v)
              \/ Makes(c) /\ Node(l, m, v) = NULL /\ Node(l, m, v)' = used + 1
  <1> DEFINE P(l) == \/ Node(l, m, v)' = Node(l, m, v)
                     \/ Makes(c) /\ Node(l, m, v) = NULL /\ Node(l, m, v)' = used + 1
  <1>0. Shape /\ used \in Nat
    BY Types DEF CalmStep, Whole
  <1>1. PICK depth : Forest(depth) /\ AtLevel(depth)
    BY <1>0 DEF Shape, Placed
  <1>2. P(1)
    <2>1. Node(1, m, v) = m
      BY NodeSteps
    <2>2. Node(1, m, v)' = m
      BY DEF Node
    <2>3. QED
      BY <2>1, <2>2
  <1>3. ASSUME NEW l \in 1 .. 3, P(l) PROVE P(l + 1)
    <2>1. /\ Node(l + 1, m, v) = Level(Node(l, m, v), v[l]) /\ v[l] \in Index /\ l \in 1 .. 4
          /\ Node(l, m, v) = NULL \/ (Node(l, m, v) \in 1 .. used /\ depth[Node(l, m, v)] = l)
      <3>1. l \in 1 .. 4
        OBVIOUS
      <3>2. QED
        BY <1>0, <1>1, <3>1, NodeSteps, NodesPlaced, VirtTypes
    <2>2. (Node(l + 1, m, v) = Level(Node(l, m, v), v[l]))'
      BY NodeStepsAfter
    <2>3. Node(l + 1, m, v)' =
              IF Node(l, m, v)' # NULL /\ Present \in tables'[Node(l, m, v)'][v[l]].bits
                THEN tables'[Node(l, m, v)'][v[l]].phys ELSE NULL
      BY <2>2 DEF Level
    <2>4. CASE Node(l, m, v)' = Node(l, m, v) /\ Node(l, m, v) = NULL
      BY <2>1, <2>3, <2>4 DEF Level
    <2>5. CASE Node(l, m, v)' = Node(l, m, v) /\ Node(l, m, v) # NULL
      <3> DEFINE f == Node(l, m, v)
      <3>1. f \in 1 .. used /\ depth[f] < 4 /\ f # NULL /\ Node(l, m, v)' = f
        BY <2>1, <2>5
      <3>2. Node(l + 1, m, v) = IF Present \in tables[f][v[l]].bits THEN tables[f][v[l]].phys ELSE NULL
        BY <2>1, <3>1 DEF Level
      <3>3. Node(l + 1, m, v)' = IF Present \in tables'[f][v[l]].bits THEN tables'[f][v[l]].phys ELSE NULL
        BY <2>3, <3>1
      <3> HIDE DEF f
      <3>4. IF Makes(c) /\ f = cur[c] /\ v[l] = virt[c][level[c]]
             THEN Present \notin tables[f][v[l]].bits /\ tables'[f][v[l]] = [phys |-> used + 1, bits |-> TableBits]
             ELSE tables'[f][v[l]] = tables[f][v[l]]
        BY <1>1, <2>1, <3>1, UpperAfter
      <3>5. QED
        BY <3>2, <3>3, <3>4, Sizes
    <2>6. CASE Makes(c) /\ Node(l, m, v) = NULL /\ Node(l, m, v)' = used + 1
      <3>1. Node(l + 1, m, v) = NULL
        BY <2>1, <2>6 DEF Level
      <3>2. tables'[used + 1][v[l]] = Zero
        <4>1. used + 1 \in 1 .. Frames /\ cur[c] \in 1 .. used
          BY <1>0, <2>6, Types, Sizes DEF Makes
        <4>2. used + 1 # cur[c] /\ used + 1 > used
          BY <1>0, <4>1
        <4>3. tables[used + 1][v[l]] = Zero
          BY <1>1, <2>1, <4>1, <4>2 DEF Forest
        <4>4. QED
          BY <2>1, <2>6, <4>1, <4>2, <4>3, EntriesAfter DEF CalmStep
      <3>3. Node(l + 1, m, v)' = NULL
        BY <2>3, <2>6, <3>2, Sizes
      <3>4. QED
        BY <3>1, <3>3
    <2>7. QED
      BY <1>3, <2>4, <2>5, <2>6
  <1> HIDE DEF P
  <1>4. P(2) /\ P(3) /\ P(4)
    <2>1. P(2)
      BY <1>2, <1>3
    <2>2. P(3)
      BY <2>1, <1>3
    <2>3. P(4)
      BY <2>2, <1>3
    <2>4. QED
      BY <2>1, <2>2, <2>3
  <1>5. ASSUME NEW l \in 1 .. 4 PROVE P(l)
    <2>1. l = 1 \/ l = 2 \/ l = 3 \/ l = 4
      OBVIOUS
    <2>2. QED
      BY <1>2, <1>4, <2>1
  <1>6. QED
    BY <1>5 DEF P

LEMMA Pml1After ==
    ASSUME NEW c \in CPUs, CalmStep(c), NEW m \in Maps, NEW v \in Virts
    PROVE  \/ Pml1(m, v)' = Pml1(m, v)
           \/ Makes(c) /\ Pml1(m, v) = NULL /\ Pml1(m, v)' = used + 1
  <1>1. Node(4, m, v) = Pml1(m, v)
    BY NodeSteps
  <1>2. (Node(4, m, v) = Pml1(m, v))'
    BY NodeStepsAfter
  <1>3. QED
    BY <1>1, <1>2, NodesAfter

LEMMA OnPathKept ==
    ASSUME NEW c \in CPUs, CalmStep(c)
    PROVE  OnPath'
  <1>0. /\ Whole(c) /\ Shape /\ Moves(c) /\ ShapeOf(c)
        /\ (Quiet \/ Makes(c) \/ (Stores(c) /\ used' = used))
    BY Types DEF CalmStep, Whole, Effect
  <1>1. ASSUME NEW d \in CPUs, at[d] # "idle"
        PROVE  /\ map[d] \in Maps /\ virt[d] \in Virts /\ level[d] \in 1 .. 4
               /\ cur[d] = Node(level[d], map[d], virt[d]) /\ cur[d] # NULL
               /\ Node(level[d], map[d], virt[d])' = cur[d] \/ d = c
    <2>1. map[d] \in Maps /\ virt[d] \in Virts /\ cur[d] \in 1 .. used /\ cur[d] # NULL
      BY <1>0, <1>1, Types DEF NULL
    <2>2. cur[d] = Node(level[d], map[d], virt[d])
      BY <1>1 DEF CalmStep, Calm, OnPath
    <2>3. level[d] \in 1 .. 4
      <3>1. PICK depth : Forest(depth) /\ AtLevel(depth)
        BY <1>0 DEF Shape, Placed
      <3>2. depth[cur[d]] \in 1 .. 4 /\ depth[cur[d]] = level[d]
        BY <1>0, <1>1, <3>1, Types DEF Forest, AtLevel
      <3>3. QED
        BY <3>2
    <2>4. ASSUME d # c PROVE Node(level[d], map[d], virt[d])' = cur[d]
      <3>1. Stays(d)
        BY <1>0, <2>4 DEF Whole, Effect
      <3>2. PICK l0, m0, v0 : l0 = level[d] /\ m0 = map[d] /\ v0 = virt[d]
        OBVIOUS
      <3>3. Node(l0, m0, v0)' = cur[d]
        BY <2>1, <2>2, <2>3, <3>2, NodesAfter
      <3>4. l0 = level'[d] /\ m0 = map'[d] /\ v0 = virt'[d]
        BY <3>1, <3>2 DEF Stays
      <3>5. QED
        BY <3>3, <3>4
    <2>5. QED
      BY <2>1, <2>2, <2>3, <2>4
  <1>2. ASSUME NEW d \in CPUs, at'[d] # "idle"
        PROVE  (cur[d] = Node(level[d], map[d], virt[d]))'
    <2>1. CASE d # c
      <3>1. Stays(d)
        BY <1>0, <2>1 DEF Whole, Effect
      <3>2. at[d] # "idle" /\ cur'[d] = cur[d]
        BY <1>2, <3>1 DEF Stays
      <3>3. QED
        BY <1>1, <2>1, <3>2
    <2>2. CASE d = c /\ at[c] = "idle"
      <3>1. PICK t \in Targets : map'[c] = t[1] /\ virt'[c] = t[2] /\ cur'[c] = t[1] /\ level'[c] = 1
        BY <1>0, <2>2 DEF Moves
      <3>2. Node(1, t[1], t[2])' = t[1]
        BY NodeStepsAfter
      <3>3. QED
        BY <2>2, <3>1, <3>2
    <2>3. CASE d = c /\ at[c] # "idle"
      <3>0. PICK l, m, v, f : l = level[c] /\ m = map[c] /\ v = virt[c] /\ f = cur[c]
        OBVIOUS
      <3>1. /\ m \in Maps /\ v \in Virts /\ l \in 1 .. 4 /\ f = Node(l, m, v) /\ f # NULL
            /\ Node(l, m, v)' = f
        BY <1>1, <2>3, <3>0, NodesAfter
      <3>2. map'[c] = m /\ virt'[c] = v
        BY <1>0, <1>2, <2>3, <3>0 DEF Moves, Finished
      <3>3. ASSUME level'[c] = level[c], cur'[c] = cur[c]
            PROVE  (cur[c] = Node(level[c], map[c], virt[c]))'
        BY <3>0, <3>1, <3>2, <3>3
      <3>4. ASSUME at[c] \in {"read", "make"}, NEW g, Deeper(c, g), tables'[f][v[l]].phys = g,
                   Present \in tables'[f][v[l]].bits
            PROVE  (cur[c] = Node(level[c], map[c], virt[c]))'
        <4>1. l \in 1 .. 3
          BY <1>0, <3>0, <3>4 DEF ShapeOf
        <4>2. Node(l + 1, m, v)' = Level(Node(l, m, v), v[l])'
          BY <4>1, NodeStepsAfter
        <4>3. Node(l + 1, m, v)' = g
          BY <3>1, <3>4, <4>2 DEF Level
        <4>4. cur'[c] = g /\ level'[c] = l + 1
          BY <3>0, <3>4 DEF Deeper
        <4>5. QED
          BY <3>2, <4>3, <4>4
      <3>5. CASE at[c] = "read"
        <4>1. /\ Quiet /\ virt[c][level[c]] \in Index /\ cur[c] \in 1 .. Frames
          BY <1>0, <3>5, Types DEF Makes, Stores, ShapeOf
        <4>2. tables' = tables
          BY <4>1 DEF Quiet
        <4>3. Present \in Entry(c).bits /\ Deeper(c, Entry(c).phys)
                => (cur[c] = Node(level[c], map[c], virt[c]))'
          BY <3>0, <3>4, <3>5, <4>2 DEF Entry
        <4>4. QED
          BY <1>0, <2>3, <3>3, <3>5, <4>3 DEF Moves
      <3>6. CASE at[c] = "make"
        <4>1. ASSUME used' = used + 1, Deeper(c, used + 1)
              PROVE  (cur[c] = Node(level[c], map[c], virt[c]))'
          <5>1. Makes(c)
            BY <1>0, <4>1, Types DEF Quiet
          <5>2. /\ virt[c][level[c]] \in Index /\ cur[c] \in 1 .. Frames
            BY <1>0, <3>6, Types DEF ShapeOf
          <5>3. tables'[f][v[l]] = [phys |-> used + 1, bits |-> TableBits]
            BY <1>0, <3>0, <5>1, <5>2, EntriesAfter
          <5>4. tables'[f][v[l]].phys = used + 1 /\ Present \in tables'[f][v[l]].bits
            BY <5>3, Sizes
          <5>5. QED
            BY <3>4, <3>6, <4>1, <5>4
        <4>2. QED
          BY <1>0, <1>2, <2>3, <3>3, <3>6, <4>1 DEF Moves, Finished
      <3>7. CASE at[c] \in {"acquire", "leaf", "write", "release"}
        BY <1>0, <1>2, <2>3, <3>3, <3>7 DEF Moves, Finished
      <3>8. at[c] \in {"acquire", "read", "make", "leaf", "write", "release"}
        BY <1>0, <2>3 DEF Moves
      <3>9. QED
        BY <2>3, <3>5, <3>6, <3>7, <3>8
    <2>4. QED
      BY <2>1, <2>2, <2>3
  <1>3. QED
    BY <1>2 DEF OnPath

LEMMA WaitingKept ==
    ASSUME NEW c \in CPUs, CalmStep(c)
    PROVE  Waiting'
  <1>0. /\ Whole(c) /\ Shape /\ Moves(c)
        /\ (Quiet \/ Makes(c) \/ (Stores(c) /\ used' = used))
    BY DEF CalmStep, Whole, Effect
  <1>1. PICK depth : Forest(depth) /\ AtLevel(depth)
    BY <1>0 DEF Shape, Placed
  <1>2. ASSUME NEW d \in CPUs, at'[d] = "make" PROVE (Present \notin Entry(d).bits)'
    <2>1. CASE d # c
      <3>1. Stays(d) /\ at[d] = "make"
        BY <1>0, <1>2, <2>1 DEF Whole, Effect, Stays
      <3>2. /\ cur[d] \in 1 .. used /\ depth[cur[d]] < 4 /\ virt[d][level[d]] \in Index
        BY <1>0, <1>1, <3>1, Types DEF AtLevel, ShapeOf
      <3>3. Present \notin tables[cur[d]][virt[d][level[d]]].bits
        BY <3>1 DEF CalmStep, Calm, Waiting, Entry
      <3>4. ~(Makes(c) /\ cur[d] = cur[c] /\ virt[d][level[d]] = virt[c][level[c]])
        BY <2>1, <3>1, MakesAlone DEF Makes
      <3>5. tables'[cur[d]][virt[d][level[d]]] = tables[cur[d]][virt[d][level[d]]]
        BY <1>1, <3>2, <3>4, UpperAfter
      <3>6. QED
        BY <3>1, <3>3, <3>5 DEF Stays, Entry
    <2>2. CASE d = c
      <3>1. at[c] = "read" /\ Present \notin Entry(c).bits /\ cur'[c] = cur[c] /\ level'[c] = level[c]
            /\ virt'[c] = virt[c]
        BY <1>0, <1>2, <2>2 DEF Moves, Finished, Deeper
      <3>2. tables' = tables
        BY <1>0, <3>1 DEF Quiet, Makes, Stores
      <3>3. QED
        BY <2>2, <3>1, <3>2 DEF Entry
    <2>3. QED
      BY <2>1, <2>2
  <1>3. QED
    BY <1>2 DEF Waiting

LEMMA CopiedKept ==
    ASSUME NEW c \in CPUs, CalmStep(c)
    PROVE  Copied'
  <1>0. /\ Whole(c) /\ Shape /\ Moves(c)
        /\ (Quiet \/ Makes(c) \/ (Stores(c) /\ used' = used))
    BY DEF CalmStep, Whole, Effect
  <1>1. PICK depth : Forest(depth) /\ AtLevel(depth)
    BY <1>0 DEF Shape, Placed
  <1>2. ASSUME NEW d \in CPUs, at'[d] = "write"
        PROVE  (copy[d].phys = tables[cur[d]][virt[d][4]].phys)'
    <2>1. CASE d # c
      <3>1. Stays(d) /\ at[d] = "write"
        BY <1>0, <1>2, <2>1 DEF Whole, Effect, Stays
      <3>2. /\ cur[d] \in 1 .. Frames /\ depth[cur[d]] = 4 /\ virt[d][4] \in Index
        BY <1>0, <1>1, <3>1, Types DEF AtLevel, ShapeOf
      <3>3. copy[d].phys = tables[cur[d]][virt[d][4]].phys
        BY <3>1 DEF CalmStep, Calm, Copied
      <3>4. tables'[cur[d]][virt[d][4]].phys = tables[cur[d]][virt[d][4]].phys
        <4>1. CASE Quiet
          BY <1>0, <3>2, <4>1, EntriesAfter
        <4>2. CASE Makes(c)
          <5>1. cur[d] # cur[c]
            BY <1>0, <1>1, <3>2, <4>2, Types DEF AtLevel, ShapeOf, Makes
          <5>2. QED
            BY <1>0, <3>2, <4>2, <5>1, EntriesAfter
        <4>3. CASE Stores(c)
          <5>1. PICK e \in LeafEntries :
                    /\ Put(c, e, e) /\ at[c] \in {"leaf", "write"}
                    /\ at[c] = "write" => e.phys = tables[cur[c]][virt[c][4]].phys
                    /\ at[c] = "leaf" => op[c] # "flag"
            BY <4>3, StoredAsWanted
          <5>2. tables'[cur[d]][virt[d][4]] =
                    IF cur[d] = cur[c] /\ virt[d][4] = virt[c][4] THEN e ELSE tables[cur[d]][virt[d][4]]
            BY <1>0, <3>2, <5>1, EntriesAfter
          <5>3. ~Clash
            BY DEF CalmStep, Calm, ClashSeen
          <5>4. at[c] = "leaf" => ~(cur[d] = cur[c] /\ virt[d][4] = virt[c][4])
            BY <2>1, <3>1, <5>1, <5>3 DEF Clash
          <5>5. QED
            BY <5>1, <5>2, <5>4
        <4>4. QED
          BY <1>0, <4>1, <4>2, <4>3
      <3>5. QED
        BY <3>1, <3>3, <3>4 DEF Stays
    <2>2. CASE d = c
      <3>1. /\ at[c] = "leaf" /\ op[c] = "flag" /\ cur'[c] = cur[c] /\ virt'[c] = virt[c]
            /\ copy'[c] = tables[cur[c]][virt[c][4]]
        BY <1>0, <1>2, <2>2 DEF Moves, Finished, Deeper
      <3>2. tables' = tables
        BY <1>0, <3>1 DEF Quiet, Makes, Stores
      <3>3. QED
        BY <2>2, <3>1, <3>2
    <2>3. QED
      BY <2>1, <2>2
  <1>3. QED
    BY <1>2 DEF Copied

LEMMA KnownKept ==
    ASSUME NEW c \in CPUs, CalmStep(c)
    PROVE  KnownFound'
  <1>0. Whole(c) /\ Shape /\ (Quiet \/ Makes(c) \/ (Stores(c) /\ used' = used))
    BY DEF CalmStep, Whole, Effect
  <1>1. ASSUME NEW m \in Maps, NEW v \in Virts, Pml1(m, v) # NULL PROVE Pml1(m, v)' # NULL
    BY <1>1, Pml1After
  <1>2. ASSUME NEW m \in Maps, NEW v \in Virts, <<m, v>> \in known PROVE Pml1(m, v)' # NULL
    BY <1>1, <1>2 DEF CalmStep, Calm, KnownFound
  <1>3. ASSUME NEW m \in Maps, NEW v \in Virts, <<m, v>> \in known', <<m, v>> \notin known
        PROVE  Pml1(m, v)' # NULL
    <2>1. Stores(c)
      BY <1>0, <1>3 DEF Quiet, Makes
    <2>2. PICK e : /\ Put(c, e, e) /\ cur[c] = Pml1(map[c], virt[c]) /\ cur[c] # NULL
                   /\ map[c] \in Maps /\ virt[c] \in Virts
      BY <2>1, StoredAsWanted
    <2>3. <<m, v>> \in Seen(map[c], virt[c])
      BY <1>3, <2>2 DEF Put
    <2>4. Pml1(m, v) # NULL
      BY <1>0, <2>2, <2>3, SeenTogether
    <2>5. QED
      BY <1>1, <2>4
  <1>4. QED
    BY <1>2, <1>3 DEF KnownFound

LEMMA AsCalledKept ==
    ASSUME NEW c \in CPUs, CalmStep(c)
    PROVE  AsCalled'
  <1>0. Whole(c) /\ Shape /\ (Quiet \/ Makes(c) \/ (Stores(c) /\ used' = used)) /\ used \in Nat
    BY Types DEF CalmStep, Whole, Effect
  <1>1. PICK depth : Forest(depth) /\ AtLevel(depth)
    BY <1>0 DEF Shape, Placed
  <1>2. ASSUME NEW m \in Maps, NEW v \in Virts PROVE (Walk(m, v) = want[m][v])'
    <2>1. /\ Walk(m, v) = want[m][v] /\ v[4] \in Index
          /\ Walk(m, v) = IF Pml1(m, v) = NULL THEN Zero ELSE tables[Pml1(m, v)][v[4]]
          /\ Walk(m, v)' = IF Pml1(m, v)' = NULL THEN Zero ELSE tables'[Pml1(m, v)'][v[4]]
      BY VirtTypes DEF CalmStep, Calm, AsCalled, Walk
    <2>2. Pml1(m, v) # NULL => Pml1(m, v) \in 1 .. Frames /\ depth[Pml1(m, v)] = 4
      <3>1. Node(4, m, v) = Pml1(m, v) /\ 4 \in 1 .. 4
        BY NodeSteps
      <3>2. Pml1(m, v) = NULL \/ (Pml1(m, v) \in 1 .. used /\ depth[Pml1(m, v)] = 4)
        BY <1>0, <1>1, <3>1, NodesPlaced
      <3>3. QED
        BY <1>0, <3>2, Types, Sizes
    <2>3. \/ Pml1(m, v)' = Pml1(m, v)
          \/ Makes(c) /\ Pml1(m, v) = NULL /\ Pml1(m, v)' = used + 1
      BY Pml1After
    <2>4. PICK p : p = Pml1(m, v)
      OBVIOUS
    <2>5. CASE Quiet
      <3>1. Pml1(m, v)' = Pml1(m, v) /\ tables' = tables /\ want' = want
        BY <1>0, <2>3, <2>5 DEF Quiet, Makes
      <3>2. QED
        BY <2>1, <3>1
    <2>6. CASE Makes(c)
      <3>0. want' = want
        BY <2>6 DEF Makes
      <3>1. CASE p # NULL
        <4>1. p # cur[c] /\ p \in 1 .. Frames
          BY <1>0, <1>1, <2>2, <2>4, <2>6, <3>1, Types DEF Makes, AtLevel, ShapeOf
        <4>2. tables'[p][v[4]] = tables[p][v[4]]
          BY <1>0, <2>1, <2>6, <4>1, EntriesAfter
        <4>3. QED
          BY <2>1, <2>3, <2>4, <3>0, <3>1, <4>2
      <3>2. CASE p = NULL /\ Pml1(m, v)' = NULL
        BY <2>1, <2>4, <3>0, <3>2
      <3>3. CASE p = NULL /\ Pml1(m, v)' = used + 1
        <4>1. used + 1 \in 1 .. Frames /\ cur[c] \in 1 .. used
          BY <1>0, <2>6, Types, Sizes DEF Makes
        <4>2. used + 1 # cur[c] /\ used + 1 > used /\ used + 1 # NULL
          BY <1>0, <4>1 DEF NULL
        <4>3. tables[used + 1][v[4]] = Zero
          BY <1>1, <2>1, <4>1, <4>2 DEF Forest
        <4>4. tables'[used + 1][v[4]] = Zero
          BY <1>0, <2>1, <2>6, <4>1, <4>2, <4>3, EntriesAfter
        <4>5. QED
          BY <2>1, <2>4, <3>0, <3>3, <4>2, <4>4
      <3>4. QED
        BY <2>3, <2>4, <3>1, <3>2, <3>3
    <2>7. CASE Stores(c) /\ ~Makes(c)
      <3>1. PICK e \in LeafEntries :
                /\ Put(c, e, e) /\ cur[c] = Pml1(map[c], virt[c]) /\ cur[c] # NULL
                /\ map[c] \in Maps /\ virt[c] \in Virts
        BY <2>7, StoredAsWanted
      <3>2. want'[m][v] = IF <<m, v>> \in Seen(map[c], virt[c]) THEN e ELSE want[m][v]
        BY <3>1 DEF Put
      <3>3. Pml1(m, v)' = p
        BY <2>3, <2>4, <2>7
      <3>7. <<m, v>> \in Seen(map[c], virt[c]) => p = cur[c] /\ v[4] = virt[c][4]
        BY <1>0, <2>4, <3>1, SeenTogether
      <3>4. CASE p = NULL
        <4>1. <<m, v>> \notin Seen(map[c], virt[c])
          BY <3>1, <3>4, <3>7
        <4>2. QED
          BY <2>1, <2>4, <3>2, <3>3, <3>4, <4>1
      <3>5. CASE p # NULL
        <4>1. tables'[p][v[4]] = IF p = cur[c] /\ v[4] = virt[c][4] THEN e ELSE tables[p][v[4]]
          BY <1>0, <2>1, <2>2, <2>4, <3>1, <3>5, EntriesAfter
        <4>2. p = cur[c] /\ v[4] = virt[c][4] => <<m, v>> \in Seen(map[c], virt[c])
          BY <1>0, <2>4, <3>1, PathsApart
        <4>3. QED
          BY <2>1, <2>4, <3>2, <3>3, <3>5, <3>7, <4>1, <4>2
      <3>6. QED
        BY <3>4, <3>5
    <2>8. QED
      BY <1>0, <2>5, <2>6, <2>7
  <1>3. QED
    BY <1>2 DEF AsCalled

LEMMA FaultsKept ==
    ASSUME NEW c \in CPUs, CalmStep(c)
    PROVE  FaultsNew'
  <1>0. /\ Whole(c) /\ Shape /\ Moves(c)
    BY DEF CalmStep, Whole, Effect
  <1>1. ASSUME NEW d \in CPUs, at'[d] = "fault" PROVE (<<map[d], virt[d]>> \notin knew[d])'
    <2>1. CASE d # c
      <3>1. Stays(d)
        BY <1>0, <2>1 DEF Whole, Effect
      <3>2. QED
        BY <1>1, <3>1 DEF Stays, CalmStep, Calm, FaultsNew
    <2>2. CASE d = c
      <3>1. /\ at[c] = "read" /\ Present \notin Entry(c).bits
            /\ map'[c] = map[c] /\ virt'[c] = virt[c] /\ knew'[c] = knew[c]
        BY <1>0, <1>1, <2>2 DEF Moves, Finished, Deeper
      <3>2. /\ level[c] \in 1 .. 3 /\ map[c] \in Maps /\ virt[c] \in Virts /\ knew[c] \subseteq known
        BY <1>0, <3>1, Types DEF ShapeOf
      <3>3. cur[c] = Node(level[c], map[c], virt[c])
        BY <3>1 DEF CalmStep, Calm, OnPath
      <3>4. Node(level[c] + 1, map[c], virt[c]) = NULL
        BY <3>1, <3>2, <3>3, NodeSteps DEF Level, Entry
      <3>5. Pml1(map[c], virt[c]) = NULL
        <4>1. level[c] + 1 \in 1 .. 4
          BY <3>2
        <4>2. QED
          BY <3>4, <4>1, PathEnds
      <3>6. <<map[c], virt[c]>> \notin known
        BY <3>2, <3>5 DEF CalmStep, Calm, KnownFound
      <3>7. QED
        BY <2>2, <3>1, <3>2, <3>6
    <2>3. QED
      BY <2>1, <2>2
  <1>2. QED
    BY <1>1 DEF FaultsNew

-----------------------------------------------------------------------------
(* The invariant and the theorems. *)

LEMMA InitInvariant == Init => IInv
  <1> SUFFICES ASSUME Init PROVE IInv
    OBVIOUS
  <1>1. /\ used = MapCount + Cardinality(High) /\ used \in Nat /\ used <= Frames /\ used >= MapCount
        /\ Cardinality(High) = Fanout - UserSlots
    BY Sizes DEF Init
  <1>2. Typed
    <2>1. \A m \in Maps : m \in 0 .. used
      BY <1>1, Sizes
    <2>2. 0 \in 0 .. used
      BY <1>1
    <2>3. tables = [f \in 1 .. Frames |-> [n \in Index |-> tables[f][n]]]
      BY DEF Init
    <2>4. /\ at \in [CPUs -> Places] /\ op \in [CPUs -> {"none", "map", "flag", "unmap"}]
          /\ map \in [CPUs -> Maps] /\ virt \in [CPUs -> Virts \cup {<<>>}]
          /\ entry \in [CPUs -> LeafEntries] /\ level \in [CPUs -> 0 .. 4]
          /\ cur \in [CPUs -> 0 .. used] /\ copy \in [CPUs -> LeafEntries]
      BY <2>2, Sizes DEF Init, Places, NULL
    <2>5. /\ want \in [Maps -> [Virts -> LeafEntries]]
          /\ known \subseteq Maps \X Virts /\ knew \in [CPUs -> SUBSET known]
          /\ locked \in [Maps -> BOOLEAN] /\ gaveUp \in BOOLEAN /\ clashed \in BOOLEAN
      BY Sizes DEF Init
    <2>6. used \in 0 .. Frames /\ used >= MapCount
      BY <1>1, Sizes
    <2>7. QED
      BY <2>3, <2>4, <2>5, <2>6 DEF Typed
  <1>3. ASSUME NEW f \in 1 .. Frames, NEW n \in Index
        PROVE  tables[f][n] = IF f \in Maps /\ n \in High
                 THEN [phys |-> MapCount + 1 + n - UserSlots, bits |-> TableBits] ELSE Zero
    BY DEF Init
  <1>4. ASSUME NEW n \in High
        PROVE  /\ MapCount + 1 + n - UserSlots \in MapCount + 1 .. used /\ n \in Index
               /\ \A o \in High : MapCount + 1 + n - UserSlots = MapCount + 1 + o - UserSlots => n = o
    BY <1>1, Sizes
  <1>5. PICK depth : depth = [f \in 1 .. Frames |-> IF f \in Maps THEN 1 ELSE 2]
    OBVIOUS
  <1>6. Forest(depth)
    <2>1. \A m \in Maps : m \in 1 .. Frames /\ m <= used
      BY <1>1, Sizes
    <2>2. ASSUME NEW f \in 1 .. Frames, NEW n \in Index
          PROVE  /\ f > used => tables[f][n] = Zero
                 /\ f <= used /\ depth[f] < 4 => TableEntry(tables[f][n], depth, depth[f])
                 /\ depth[f] # 4
      <3>1. depth[f] # 4
        BY <1>5
      <3>2. CASE f \in Maps /\ n \in High
        <4> DEFINE p == MapCount + 1 + n - UserSlots
        <4>1. /\ tables[f][n].phys = p /\ tables[f][n] = [phys |-> p, bits |-> TableBits]
              /\ p \in MapCount + 1 .. used
          BY <1>3, <1>4, <3>2
        <4> HIDE DEF p
        <4>2. p \in 1 .. Frames /\ p \notin Maps
          BY <1>1, <4>1, Sizes
        <4>3. depth[p] = depth[f] + 1
          BY <1>5, <3>2, <4>2
        <4>4. QED
          BY <1>1, <2>1, <3>1, <3>2, <4>1, <4>3, Sizes DEF TableEntry
      <3>3. CASE ~(f \in Maps /\ n \in High)
        BY <1>3, <3>1, <3>3 DEF TableEntry
      <3>4. QED
        BY <3>2, <3>3
    <2>3. QED
      BY <1>5, <2>1, <2>2 DEF Forest
  <1>7. EnteredOnce(depth)
    <2>1. ASSUME NEW f \in 1 .. used, NEW n \in Index, Present \in tables[f][n].bits
          PROVE  /\ f \in Maps /\ n \in High
                 /\ tables[f][n].phys = MapCount + 1 + n - UserSlots
      <3>1. f \in 1 .. Frames
        BY <1>1, Sizes
      <3>2. f \in Maps /\ n \in High
        <4>1. tables[f][n] # Zero
          BY <2>1, Sizes
        <4>2. QED
          BY <1>3, <3>1, <4>1
      <3>3. tables[f][n] = [phys |-> MapCount + 1 + n - UserSlots, bits |-> TableBits]
        BY <1>3, <3>1, <3>2
      <3>4. QED
        BY <3>2, <3>3
    <2>2. ASSUME NEW f \in 1 .. used, NEW g \in 1 .. used, NEW n \in Index, NEW o \in Index,
                 Present \in tables[f][n].bits, Present \in tables[g][o].bits,
                 tables[f][n].phys = tables[g][o].phys
          PROVE  n = o /\ f \in Maps /\ g \in Maps /\ n \in High
      <3>1. /\ f \in Maps /\ n \in High /\ g \in Maps /\ o \in High
            /\ MapCount + 1 + n - UserSlots = MapCount + 1 + o - UserSlots
        BY <2>1, <2>2
      <3>2. QED
        BY <1>4, <3>1
    <2>3. QED
      BY <2>2 DEF EnteredOnce
  <1>8. AtLevel(depth) /\ (\A c \in CPUs : ShapeOf(c)) /\ Exclusive /\ ClashSeen
    BY DEF Init, AtLevel, ShapeOf, Exclusive, Holding, ClashSeen, Clash
  <1>9. HalfShared
    <2>1. \A m \in Maps : m \in 1 .. Frames
      BY <1>1, Sizes
    <2>2. ASSUME NEW m \in Maps, NEW o \in High
          PROVE  tables[m][o] = [phys |-> MapCount + 1 + o - UserSlots, bits |-> TableBits]
      BY <1>3, <1>4, <2>1
    <2>3. ASSUME NEW m \in Maps, NEW n \in Maps, NEW o \in High
          PROVE  tables[m][o] = tables[n][o] /\ Present \in tables[m][o].bits
      <3>1. /\ tables[m][o] = [phys |-> MapCount + 1 + o - UserSlots, bits |-> TableBits]
            /\ tables[n][o] = [phys |-> MapCount + 1 + o - UserSlots, bits |-> TableBits]
        BY <2>2
      <3>2. tables[m][o].bits = TableBits
        BY <3>1
      <3>3. QED
        BY <3>1, <3>2, Sizes
    <2>4. QED
      BY <2>3 DEF HalfShared
  <1>10. Shape
    BY <1>2, <1>6, <1>7, <1>8, <1>9 DEF Shape, Placed
  <1>11. OnPath /\ Waiting /\ Copied /\ KnownFound /\ FaultsNew
    BY DEF Init, OnPath, Waiting, Copied, KnownFound, FaultsNew
  <1>12. AsCalled
    <2>1. ASSUME NEW m \in Maps, NEW v \in Virts PROVE Walk(m, v) = Zero
      <3>1. Pml1(m, v) = NULL
        <4> SUFFICES ASSUME Pml1(m, v) # NULL PROVE FALSE
          OBVIOUS
        <4>1. Node(2, m, v) # NULL /\ Node(3, m, v) # NULL
          BY PathEnds
        <4>2. Node(2, m, v) \in 1 .. used /\ depth[Node(2, m, v)] = 2
          BY <1>6, <1>10, <4>1, NodesPlaced
        <4>3. Node(2, m, v) \in 1 .. Frames /\ Node(2, m, v) \notin Maps
          <5>1. \A x \in 1 .. used : x \in 1 .. Frames
            BY <1>1, Sizes
          <5>2. QED
            BY <1>5, <4>2, <5>1
        <4>4. tables[Node(2, m, v)][v[2]] = Zero
          <5>1. 2 \in 1 .. 4
            OBVIOUS
          <5>2. v[2] \in Index
            BY <5>1, VirtTypes
          <5>3. QED
            BY <1>3, <4>3, <5>2
        <4>5. Node(3, m, v) = Level(Node(2, m, v), v[2])
          BY NodeSteps
        <4>6. QED
          BY <4>1, <4>4, <4>5, Sizes DEF Level
      <3>2. QED
        BY <3>1 DEF Walk
    <2>2. QED
      BY <2>1 DEF AsCalled, Init
  <1>13. QED
    BY <1>8, <1>10, <1>11, <1>12 DEF IInv, Core

LEMMA StepInvariant ==
    ASSUME IInv, NEW c \in CPUs, Step(c), clashed' = (clashed \/ Clash')
    PROVE  IInv'
  <1>0. Shape /\ Exclusive /\ ClashSeen /\ Core /\ clashed \in BOOLEAN /\ gaveUp \in BOOLEAN
    BY DEF IInv, Shape, Typed
  <1>1. Whole(c)
    BY <1>0, StepWhole
  <1>2. clashed' \in BOOLEAN
    OBVIOUS
  <1>3. Shape'
    BY <1>0, <1>2, ShapeKept
  <1>4. Exclusive'
    BY <1>0, <1>1, ExclusiveKept
  <1>5. ClashSeen'
    BY DEF ClashSeen
  <1>6. gaveUp => gaveUp'
    BY <1>0, <1>1 DEF Whole, Effect
  <1>7. ASSUME ~clashed', ~gaveUp'
        PROVE  (OnPath /\ Waiting /\ Copied /\ KnownFound /\ AsCalled /\ FaultsNew)'
    <2>1. ~clashed /\ ~gaveUp
      BY <1>6, <1>7
    <2>2. CalmStep(c)
      BY <1>0, <1>1, <2>1 DEF CalmStep, Calm, Core
    <2>3. QED
      BY <2>2, OnPathKept, WaitingKept, CopiedKept, KnownKept, AsCalledKept, FaultsKept
  <1>8. QED
    BY <1>3, <1>4, <1>5, <1>7 DEF IInv, Core

LEMMA StutterInvariant ==
    ASSUME IInv, UNCHANGED vars
    PROVE  IInv'
  <1>1. /\ tables' = tables /\ used' = used /\ locked' = locked /\ at' = at /\ op' = op
        /\ map' = map /\ virt' = virt /\ entry' = entry /\ level' = level /\ cur' = cur
        /\ copy' = copy /\ knew' = knew /\ want' = want /\ known' = known
        /\ gaveUp' = gaveUp /\ clashed' = clashed
    BY DEF vars, locals
  <1>2. Typed' /\ HalfShared' /\ \A c \in CPUs : ShapeOf(c)'
    <2>1. Typed'
      BY <1>1 DEF IInv, Shape, Typed
    <2>2. HalfShared'
      BY <1>1 DEF IInv, Shape, HalfShared
    <2>3. \A c \in CPUs : ShapeOf(c)'
      BY <1>1 DEF IInv, Shape, ShapeOf
    <2>4. QED
      BY <2>1, <2>2, <2>3
  <1>3. Placed'
    <2>1. PICK depth : Forest(depth) /\ EnteredOnce(depth) /\ AtLevel(depth)
      BY DEF IInv, Shape, Placed
    <2>2. Forest(depth)' /\ EnteredOnce(depth)' /\ AtLevel(depth)'
      BY <1>1, <2>1 DEF Forest, EnteredOnce, AtLevel, TableEntry
    <2>3. QED
      BY <2>2 DEF Placed
  <1>4. Exclusive' /\ ClashSeen'
    BY <1>1 DEF IInv, Exclusive, Holding, ClashSeen, Clash
  <1>5. Core'
    <2>1. /\ \A m, v : Pml1(m, v)' = Pml1(m, v) /\ Walk(m, v)' = Walk(m, v)
          /\ \A l, m, v : Node(l, m, v)' = Node(l, m, v)
      BY <1>1 DEF Node, Level, Pml1, Walk
    <2>2. /\ (OnPath => OnPath') /\ (Waiting => Waiting') /\ (Copied => Copied')
          /\ (KnownFound => KnownFound') /\ (AsCalled => AsCalled') /\ (FaultsNew => FaultsNew')
      <3>1. OnPath => OnPath'
        BY <1>1, <2>1 DEF OnPath
      <3>2. (Waiting => Waiting') /\ (Copied => Copied') /\ (FaultsNew => FaultsNew')
        BY <1>1 DEF Waiting, Copied, FaultsNew, Entry
      <3>3. (KnownFound => KnownFound') /\ (AsCalled => AsCalled')
        BY <1>1, <2>1 DEF KnownFound, AsCalled
      <3>4. QED
        BY <3>1, <3>2, <3>3
    <2>3. QED
      BY <1>1, <2>2 DEF IInv, Core
  <1>6. QED
    BY <1>2, <1>3, <1>4, <1>5 DEF IInv, Shape

LEMMA Invariant == Spec => []IInv
  <1>1. IInv /\ [Next]_vars => IInv'
    <2> SUFFICES ASSUME IInv, [Next]_vars PROVE IInv'
      OBVIOUS
    <2>1. CASE Next
      BY <2>1, StepInvariant DEF Next
    <2>2. CASE UNCHANGED vars
      BY <2>2, StutterInvariant
    <2>3. QED
      BY <2>1, <2>2
  <1>2. QED
    BY <1>1, InitInvariant, PTL DEF Spec

\* The tables stay well formed whatever the calls of several CPUs do to each
\* other, clashes and lost locks included: every entry of an upper table is empty
\* or leads one level down, no table is entered in two places, and all maps show
\* the same tables in the higher half.
THEOREM TablesStayAForest == Spec => []Shape
  BY Invariant, PTL DEF IInv

\* An address has what the last call for it stored, in every map that shows it,
\* until calls clash or a lock is given up.
THEOREM MappedAsCalled == Spec => []MapsAsCalled
  <1>1. IInv => MapsAsCalled
    BY DEF IInv, Core, AsCalled, MapsAsCalled
  <1>2. QED
    BY <1>1, Invariant, PTL

\* Until then unmap_page faults only for an address that no call had got through
\* to when it began.
THEOREM OnlyUnmappedFaults == Spec => []FaultsOnlyUnmapped
  <1>1. IInv => FaultsOnlyUnmapped
    BY DEF IInv, Core, FaultsNew, FaultsOnlyUnmapped
  <1>2. QED
    BY <1>1, Invariant, PTL

=============================================================================

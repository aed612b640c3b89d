----------------------------- MODULE VMMProofs ------------------------------
(***************************************************************************)
(* Theorems about the page tables, VMM, for any size of tables, any number *)
(* of maps, any addresses and any amount of memory that satisfy            *)
(* VmmAssumption.                                                          *)
(*                                                                         *)
(* What is said of the tables takes them as a parameter, T, of which the   *)
(* first U frames are in use: a descent goes through several of them in    *)
(* one step.                                                               *)
(***************************************************************************)
EXTENDS VMM, TLAPS

\* The tables are a forest: depth[f] is the level of the table in frame f.
\* Tables of the first level may have a slot of the higher half in common, any
\* other table is entered once.

LeafEntries == [phys : Phys \cup {0}, bits : Flags \cup {{}, KernelBits}]

TableEntry(e, U, depth, d) ==
    \/ e = Zero
    \/ e = [phys |-> e.phys, bits |-> TableBits] /\ e.phys \in 1 .. U /\ depth[e.phys] = d + 1

Forest(T, U, depth) ==
    /\ T \in [Frame -> [Index -> Entry]] /\ U \in 0 .. Frames /\ depth \in [Frame -> 1 .. 4]
    /\ \A f \in 1 .. U, n \in Index :
          IF depth[f] = 4 THEN T[f][n] \in LeafEntries ELSE TableEntry(T[f][n], U, depth, depth[f])

EnteredOnce(T, U, depth) ==
    \A f, g \in 1 .. U, n, o \in Index :
        /\ depth[f] # 4 /\ depth[g] # 4
        /\ Present \in T[f][n].bits /\ Present \in T[g][o].bits /\ T[f][n].phys = T[g][o].phys
        => n = o /\ (f = g \/ (depth[f] = 1 /\ depth[g] = 1 /\ n \in High))

Trees(T, U, depth) == Forest(T, U, depth) /\ EnteredOnce(T, U, depth)

\* The tables on the path of an address, from a table of the first level.
Below(T, f, n) == IF f # NULL /\ Present \in T[f][n].bits THEN T[f][n].phys ELSE NULL
Node(T, l, t, v) ==
    IF l = 1 THEN t ELSE IF l = 2 THEN Below(T, t, v[1])
    ELSE IF l = 3 THEN Below(T, Below(T, t, v[1]), v[2])
    ELSE Below(T, Below(T, Below(T, t, v[1]), v[2]), v[3])
Shown(T, t, v) == IF Node(T, 4, t, v) = NULL THEN Zero ELSE T[Node(T, 4, t, v)][v[4]]

\* What making tables does: entries change only from empty, and only to lead to
\* frames that were not in use, and these lead to no others and show nothing.
Grows(T, U, depth, S, V, dep) ==
    /\ U <= V /\ \A f \in 1 .. U : dep[f] = depth[f]
    /\ \A f \in 1 .. U, n \in Index :
          \/ S[f][n] = T[f][n]
          \/ depth[f] # 4 /\ Present \notin T[f][n].bits /\ S[f][n].phys \in U + 1 .. V
    /\ \A f \in U + 1 .. V, n \in Index :
          /\ dep[f] = 4 => S[f][n] = Zero
          /\ dep[f] # 4 /\ Present \in S[f][n].bits => S[f][n].phys \in U + 1 .. V

-----------------------------------------------------------------------------
LEMMA Sizes ==
    /\ Kernel \in Maps /\ Fanout \in Nat /\ UserSlots \in Nat /\ UserSlots >= 1 /\ UserSlots < Fanout
    /\ High \subseteq Index /\ Index = 0 .. Fanout - 1 /\ High = UserSlots .. Fanout - 1
    /\ Frames \in Nat /\ Frame = 1 .. Frames /\ MaxMaps \in Nat /\ Touched \subseteq Virts
    /\ Present \in TableBits /\ Present \in KernelBits /\ Present \notin {} /\ Zero \in LeafEntries
    /\ Zero.bits = {} /\ Zero.phys = 0 /\ LeafEntries \subseteq Entry /\ Zero \in Entry
    /\ ZeroTable \in [Index -> Entry] /\ \A n \in Index : ZeroTable[n] = Zero
    /\ \A p \in Frame : [phys |-> p, bits |-> TableBits] \in Entry
    /\ Len(InitMaps) \in Nat
    /\ \A k \in 1 .. Len(InitMaps) :
          /\ k \in DOMAIN InitMaps /\ InitMaps[k].virt \in Virts
          /\ [phys |-> InitMaps[k].phys, bits |-> KernelBits] \in LeafEntries
  <1>1. /\ Kernel \in Maps /\ Fanout \in Nat /\ UserSlots \in Nat /\ UserSlots >= 1 /\ UserSlots < Fanout
        /\ High \subseteq Index /\ Index = 0 .. Fanout - 1 /\ High = UserSlots .. Fanout - 1
        /\ Frames \in Nat /\ Frame = 1 .. Frames /\ MaxMaps \in Nat /\ Touched \subseteq Virts
    BY VmmAssumption DEF High, Index, Frame
  <1>2. /\ Present \in TableBits /\ Present \in KernelBits /\ Present \notin {} /\ Zero \in LeafEntries
        /\ Zero.bits = {} /\ Zero.phys = 0 /\ LeafEntries \subseteq Entry /\ Zero \in Entry
        /\ \A p \in Frame : [phys |-> p, bits |-> TableBits] \in Entry
    BY DEF Present, TableBits, KernelBits, Zero, LeafEntries, Entry
  <1>3. ZeroTable \in [Index -> Entry] /\ \A n \in Index : ZeroTable[n] = Zero
    BY <1>2 DEF ZeroTable
  <1>4. InitMaps \in Seq([virt : Virts, phys : Phys])
    BY VmmAssumption
  <1>5. Len(InitMaps) \in Nat
    BY <1>4
  <1>6. ASSUME NEW k \in 1 .. Len(InitMaps)
        PROVE  /\ k \in DOMAIN InitMaps /\ InitMaps[k].virt \in Virts
               /\ [phys |-> InitMaps[k].phys, bits |-> KernelBits] \in LeafEntries
    <2> DEFINE R == [virt : Virts, phys : Phys]
    <2>1. InitMaps \in Seq(R)
      BY <1>4
    <2> HIDE DEF R
    <2>2. k \in DOMAIN InitMaps /\ InitMaps[k] \in R
      BY <2>1
    <2>3. QED
      BY <2>2 DEF R, LeafEntries
  <1>7. QED
    BY <1>1, <1>2, <1>3, <1>5, <1>6

\* An address is its four indices.
LEMMA VirtTypes ==
    /\ \A v \in Virts : \A l \in 1 .. 4 : v[l] \in Index
    /\ \A v, w \in Virts :
          v[1] = w[1] /\ v[2] = w[2] /\ v[3] = w[3] /\ v[4] = w[4] => v = w
  <1> DEFINE Q == Index \X Index \X Index \X Index
  <1>1. \A v \in Virts : v \in Q
    BY VmmAssumption
  <1>2. \A v \in Q : v[1] \in Index /\ v[2] \in Index /\ v[3] \in Index /\ v[4] \in Index
                     /\ v = <<v[1], v[2], v[3], v[4]>>
    OBVIOUS
  <1>3. \A l \in 1 .. 4 : l = 1 \/ l = 2 \/ l = 3 \/ l = 4
    OBVIOUS
  <1>4. QED
    BY <1>1, <1>2, <1>3

LEMMA NodeSteps ==
    ASSUME NEW T, NEW t, NEW v
    PROVE  /\ Node(T, 1, t, v) = t
           /\ \A l \in 1 .. 3 : Node(T, l + 1, t, v) = Below(T, Node(T, l, t, v), v[l])
  <1>1. /\ Node(T, 1, t, v) = t /\ Node(T, 2, t, v) = Below(T, Node(T, 1, t, v), v[1])
        /\ Node(T, 3, t, v) = Below(T, Node(T, 2, t, v), v[2])
        /\ Node(T, 4, t, v) = Below(T, Node(T, 3, t, v), v[3])
    BY DEF Node
  <1>2. \A l \in 1 .. 3 : l = 1 \/ l = 2 \/ l = 3
    OBVIOUS
  <1>3. QED
    BY <1>1, <1>2

LEMMA BelowPlaced ==
    ASSUME NEW T, NEW U, NEW depth, Forest(T, U, depth),
           NEW f \in 1 .. U, depth[f] # 4, NEW n \in Index, Below(T, f, n) # NULL
    PROVE  /\ Below(T, f, n) \in 1 .. U /\ depth[Below(T, f, n)] = depth[f] + 1
           /\ Below(T, f, n) = T[f][n].phys /\ Present \in T[f][n].bits
  <1>1. TableEntry(T[f][n], U, depth, depth[f])
    BY DEF Forest
  <1>2. Below(T, f, n) = T[f][n].phys /\ Present \in T[f][n].bits
    BY DEF Below
  <1>3. T[f][n] # Zero
    BY <1>2, Sizes
  <1>4. QED
    BY <1>1, <1>2, <1>3 DEF TableEntry

LEMMA NodesPlaced ==
    ASSUME NEW T, NEW U, NEW depth, Forest(T, U, depth),
           NEW t \in 1 .. U, depth[t] = 1, NEW v \in Virts
    PROVE  \A l \in 1 .. 4 : Node(T, l, t, v) = NULL \/
                                (Node(T, l, t, v) \in 1 .. U /\ depth[Node(T, l, t, v)] = l)
  <1> DEFINE P(l) == Node(T, l, t, v) = NULL \/
                        (Node(T, l, t, v) \in 1 .. U /\ depth[Node(T, l, t, v)] = l)
  <1>1. P(1)
    BY NodeSteps
  <1>2. ASSUME NEW l \in 1 .. 3, P(l) PROVE P(l + 1)
    <2>1. Node(T, l + 1, t, v) = Below(T, Node(T, l, t, v), v[l]) /\ v[l] \in Index
      <3>1. l \in 1 .. 4
        OBVIOUS
      <3>2. QED
        BY <3>1, NodeSteps, VirtTypes
    <2>2. CASE Node(T, l, t, v) = NULL
      BY <2>1, <2>2 DEF Below
    <2>3. CASE Node(T, l, t, v) # NULL
      <3>1. Node(T, l, t, v) \in 1 .. U /\ depth[Node(T, l, t, v)] = l /\ l # 4
        BY <1>2, <2>3
      <3>2. QED
        BY <2>1, <3>1, BelowPlaced
    <2>4. QED
      BY <2>2, <2>3
  <1> HIDE DEF P
  <1>3. P(2)
    BY <1>1, <1>2
  <1>4. P(3)
    BY <1>2, <1>3
  <1>5. P(4)
    BY <1>2, <1>4
  <1>6. ASSUME NEW l \in 1 .. 4 PROVE P(l)
    <2>1. l = 1 \/ l = 2 \/ l = 3 \/ l = 4
      OBVIOUS
    <2>2. QED
      BY <1>1, <1>3, <1>4, <1>5, <2>1
  <1>7. QED
    BY <1>6 DEF P

LEMMA PathEnds ==
    ASSUME NEW T, NEW t, NEW v, NEW l \in 1 .. 4, Node(T, l, t, v) = NULL
    PROVE  Node(T, 4, t, v) = NULL
  <1>1. \A k \in 1 .. 3 : Node(T, k, t, v) = NULL => Node(T, k + 1, t, v) = NULL
    BY NodeSteps DEF Below
  <1>2. Node(T, 1, t, v) = NULL => Node(T, 2, t, v) = NULL
    BY <1>1
  <1>3. Node(T, 2, t, v) = NULL => Node(T, 3, t, v) = NULL
    BY <1>1
  <1>4. Node(T, 3, t, v) = NULL => Node(T, 4, t, v) = NULL
    BY <1>1
  <1>5. l = 1 \/ l = 2 \/ l = 3 \/ l = 4
    OBVIOUS
  <1>6. QED
    BY <1>2, <1>3, <1>4, <1>5

\* Two paths that meet are one path, but for its first table where it is in the
\* higher half.
LEMMA PathsApart ==
    ASSUME NEW T, NEW U, NEW depth, Trees(T, U, depth),
           NEW t \in 1 .. U, depth[t] = 1, NEW r \in 1 .. U, depth[r] = 1,
           NEW v \in Virts, NEW w \in Virts,
           Node(T, 4, t, v) # NULL, Node(T, 4, t, v) = Node(T, 4, r, w), v[4] = w[4]
    PROVE  v = w /\ (t = r \/ v[1] \in High)
  <1> DEFINE A(l) == Node(T, l, t, v)
             B(l) == Node(T, l, r, w)
  <1>0. Forest(T, U, depth) /\ EnteredOnce(T, U, depth)
    BY DEF Trees
  <1>2. \A l \in 1 .. 4 : /\ A(l) # NULL /\ A(l) \in 1 .. U /\ depth[A(l)] = l
                          /\ B(l) # NULL /\ B(l) \in 1 .. U /\ depth[B(l)] = l
    BY <1>0, NodesPlaced, PathEnds
  <1>3. /\ A(4) = B(4) /\ A(1) = t /\ B(1) = r
        /\ \A l \in 1 .. 3 : A(l + 1) = Below(T, A(l), v[l]) /\ B(l + 1) = Below(T, B(l), w[l])
    BY NodeSteps
  <1> HIDE DEF A, B
  <1>4. ASSUME NEW l \in 1 .. 3, A(l + 1) = B(l + 1)
        PROVE  v[l] = w[l] /\ (A(l) = B(l) \/ (l = 1 /\ v[l] \in High))
    <2>1. l \in 1 .. 4 /\ l + 1 \in 1 .. 4 /\ l # 4
      OBVIOUS
    <2>2. /\ A(l) \in 1 .. U /\ depth[A(l)] = l /\ v[l] \in Index /\ Below(T, A(l), v[l]) # NULL
          /\ B(l) \in 1 .. U /\ depth[B(l)] = l /\ w[l] \in Index /\ Below(T, B(l), w[l]) # NULL
      BY <1>2, <1>3, <2>1, VirtTypes
    <2>3. /\ Below(T, A(l), v[l]) = T[A(l)][v[l]].phys /\ Present \in T[A(l)][v[l]].bits
          /\ Below(T, B(l), w[l]) = T[B(l)][w[l]].phys /\ Present \in T[B(l)][w[l]].bits
      BY <1>0, <2>1, <2>2, BelowPlaced
    <2>4. T[A(l)][v[l]].phys = T[B(l)][w[l]].phys
      BY <1>3, <1>4, <2>3
    <2>5. QED
      BY <1>0, <2>1, <2>2, <2>3, <2>4 DEF EnteredOnce
  <1>5. v[3] = w[3] /\ A(3) = B(3)
    BY <1>3, <1>4
  <1>6. v[2] = w[2] /\ A(2) = B(2)
    BY <1>4, <1>5
  <1>7. v[1] = w[1] /\ (t = r \/ v[1] \in High)
    BY <1>3, <1>4, <1>6
  <1>8. QED
    BY <1>5, <1>6, <1>7, VirtTypes

\* Tables of the first level with the same slot lead to the same tables.
LEMMA SameSlotSamePath ==
    ASSUME NEW T, NEW t, NEW r, t # NULL, r # NULL, NEW v, T[t][v[1]] = T[r][v[1]]
    PROVE  Node(T, 4, t, v) = Node(T, 4, r, v) /\ Shown(T, t, v) = Shown(T, r, v)
  <1>1. Below(T, t, v[1]) = Below(T, r, v[1])
    BY DEF Below
  <1>2. Node(T, 4, t, v) = Node(T, 4, r, v)
    BY <1>1 DEF Node
  <1>3. QED
    BY <1>2 DEF Shown

-----------------------------------------------------------------------------
(* Making tables. *)

LEMMA GrowsNot ==
    ASSUME NEW T, NEW U \in Nat, NEW depth
    PROVE  Grows(T, U, depth, T, U, depth)
  BY DEF Grows

LEMMA GrowsTrans ==
    ASSUME NEW T, NEW U \in Nat, NEW depth, NEW S, NEW V \in Nat, NEW dep, NEW R, NEW W \in Nat, NEW d,
           Grows(T, U, depth, S, V, dep), Grows(S, V, dep, R, W, d)
    PROVE  Grows(T, U, depth, R, W, d)
  <1>1. /\ U <= W
        /\ \A x : x \in U + 1 .. V => x \in U + 1 .. W /\ x \in 1 .. V
        /\ \A x : x \in V + 1 .. W => x \in U + 1 .. W
        /\ \A x : x \in U + 1 .. W => x \in U + 1 .. V \/ x \in V + 1 .. W
        /\ \A x : x \in 1 .. U => x \in 1 .. V
    BY DEF Grows
  <1>2. ASSUME NEW f \in 1 .. V
        PROVE  /\ d[f] = dep[f]
               /\ \A n \in Index : \/ R[f][n] = S[f][n]
                                   \/ dep[f] # 4 /\ Present \notin S[f][n].bits /\ R[f][n].phys \in V + 1 .. W
    BY DEF Grows
  <1>3. ASSUME NEW f \in 1 .. U
        PROVE  /\ dep[f] = depth[f]
               /\ \A n \in Index : \/ S[f][n] = T[f][n]
                                   \/ depth[f] # 4 /\ Present \notin T[f][n].bits /\ S[f][n].phys \in U + 1 .. V
    BY DEF Grows
  <1>4. ASSUME NEW f \in 1 .. U
        PROVE  /\ d[f] = depth[f]
               /\ \A n \in Index : \/ R[f][n] = T[f][n]
                                   \/ depth[f] # 4 /\ Present \notin T[f][n].bits /\ R[f][n].phys \in U + 1 .. W
    <2>1. d[f] = depth[f] /\ f \in 1 .. V
      BY <1>1, <1>2, <1>3
    <2>2. ASSUME NEW n \in Index
          PROVE  \/ R[f][n] = T[f][n]
                 \/ depth[f] # 4 /\ Present \notin T[f][n].bits /\ R[f][n].phys \in U + 1 .. W
      <3>1. \/ S[f][n] = T[f][n]
            \/ depth[f] # 4 /\ Present \notin T[f][n].bits /\ S[f][n].phys \in U + 1 .. W
        BY <1>1, <1>3
      <3>2. \/ R[f][n] = S[f][n]
            \/ depth[f] # 4 /\ Present \notin S[f][n].bits /\ R[f][n].phys \in U + 1 .. W
        BY <1>1, <1>2, <1>3, <2>1
      <3>3. QED
        BY <3>1, <3>2
    <2>3. QED
      BY <2>1, <2>2
  <1>5. ASSUME NEW f \in U + 1 .. W, NEW n \in Index
        PROVE  /\ d[f] = 4 => R[f][n] = Zero
               /\ d[f] # 4 /\ Present \in R[f][n].bits => R[f][n].phys \in U + 1 .. W
    <2>1. CASE f \in V + 1 .. W
      BY <1>1, <2>1 DEF Grows
    <2>2. CASE f \in U + 1 .. V
      <3>1. /\ dep[f] = 4 => S[f][n] = Zero
            /\ dep[f] # 4 /\ Present \in S[f][n].bits => S[f][n].phys \in U + 1 .. V
        BY <2>2 DEF Grows
      <3>2. /\ d[f] = dep[f]
            /\ \/ R[f][n] = S[f][n]
               \/ dep[f] # 4 /\ Present \notin S[f][n].bits /\ R[f][n].phys \in V + 1 .. W
        BY <1>1, <1>2, <2>2
      <3>3. QED
        BY <1>1, <3>1, <3>2
    <2>3. QED
      BY <1>1, <2>1, <2>2
  <1>6. QED
    BY <1>1, <1>4, <1>5 DEF Grows

\* Paths only grow: a table of a path stays on it, a path that ended may go on to
\* new tables, which show nothing.
LEMMA NodesGrow ==
    ASSUME NEW T, NEW U, NEW depth, NEW S, NEW V, NEW dep,
           Forest(T, U, depth), Forest(S, V, dep), Grows(T, U, depth, S, V, dep),
           NEW t \in 1 .. U, depth[t] = 1, NEW v \in Virts
    PROVE  /\ \A l \in 1 .. 4 :
                 \/ Node(S, l, t, v) = Node(T, l, t, v)
                 \/ Node(T, l, t, v) = NULL /\ Node(S, l, t, v) \in U + 1 .. V
           /\ Shown(S, t, v) = Shown(T, t, v)
  <1> DEFINE P(l) == \/ Node(S, l, t, v) = Node(T, l, t, v)
                     \/ Node(T, l, t, v) = NULL /\ Node(S, l, t, v) \in U + 1 .. V
  <1>0. U \in Nat /\ V \in Nat /\ t \in 1 .. V /\ dep[t] = 1
    BY Sizes DEF Forest, Grows
  <1>1. P(1)
    BY NodeSteps
  <1>2. ASSUME NEW l \in 1 .. 3, P(l) PROVE P(l + 1)
    <2>1. /\ Node(T, l + 1, t, v) = Below(T, Node(T, l, t, v), v[l])
          /\ Node(S, l + 1, t, v) = Below(S, Node(S, l, t, v), v[l])
          /\ v[l] \in Index /\ l # 4
          /\ Node(T, l, t, v) = NULL \/ (Node(T, l, t, v) \in 1 .. U /\ depth[Node(T, l, t, v)] = l)
          /\ Node(S, l, t, v) = NULL \/ (Node(S, l, t, v) \in 1 .. V /\ dep[Node(S, l, t, v)] = l)
      <3>1. l \in 1 .. 4
        OBVIOUS
      <3>2. QED
        BY <1>0, <3>1, NodeSteps, VirtTypes, NodesPlaced
    <2>2. PICK f, g, n : f = Node(T, l, t, v) /\ g = Node(S, l, t, v) /\ n = v[l]
      OBVIOUS
    <2>3. CASE g = f /\ f = NULL
      BY <2>1, <2>2, <2>3 DEF Below
    <2>4. CASE g = f /\ f # NULL
      <3>1. \/ S[f][n] = T[f][n]
            \/ depth[f] # 4 /\ Present \notin T[f][n].bits /\ S[f][n].phys \in U + 1 .. V
        BY <2>1, <2>2, <2>4 DEF Grows
      <3>2. Below(S, f, n) = Below(T, f, n) \/ (Below(T, f, n) = NULL /\ Below(S, f, n) \in U + 1 .. V)
        BY <3>1 DEF Below
      <3>3. QED
        BY <2>1, <2>2, <2>4, <3>2
    <2>5. CASE f = NULL /\ g \in U + 1 .. V
      <3>1. Below(T, f, n) = NULL
        BY <2>5 DEF Below
      <3>2. g # NULL
        BY <1>0, <2>5 DEF NULL
      <3>3. Below(S, g, n) = NULL \/ Below(S, g, n) \in U + 1 .. V
        BY <2>1, <2>2, <2>5, <3>2 DEF Below, Grows
      <3>4. QED
        BY <2>1, <2>2, <3>1, <3>3
    <2>6. QED
      BY <1>2, <2>2, <2>3, <2>4, <2>5
  <1> HIDE DEF P
  <1>3. P(2)
    BY <1>1, <1>2
  <1>4. P(3)
    BY <1>2, <1>3
  <1>5. P(4)
    BY <1>2, <1>4
  <1>6. ASSUME NEW l \in 1 .. 4 PROVE P(l)
    <2>1. l = 1 \/ l = 2 \/ l = 3 \/ l = 4
      OBVIOUS
    <2>2. QED
      BY <1>1, <1>3, <1>4, <1>5, <2>1
  <1>7. Shown(S, t, v) = Shown(T, t, v)
    <2>1. 4 \in 1 .. 4 /\ v[4] \in Index
      BY VirtTypes
    <2>2. PICK f, g : f = Node(T, 4, t, v) /\ g = Node(S, 4, t, v)
      OBVIOUS
    <2>3. /\ f = NULL \/ (f \in 1 .. U /\ depth[f] = 4)
          /\ g = NULL \/ (g \in 1 .. V /\ dep[g] = 4)
      BY <1>0, <2>1, <2>2, NodesPlaced
    <2>4. CASE g = f
      BY <2>1, <2>2, <2>3, <2>4 DEF Shown, Grows
    <2>5. CASE f = NULL /\ g \in U + 1 .. V
      <3>1. g # NULL /\ dep[g] = 4
        BY <1>0, <2>3, <2>5 DEF NULL
      <3>2. S[g][v[4]] = Zero
        BY <2>1, <2>5, <3>1 DEF Grows
      <3>3. QED
        BY <2>2, <2>5, <3>1, <3>2 DEF Shown
    <2>6. QED
      BY <1>5, <2>2, <2>4, <2>5 DEF P
  <1>8. QED
    BY <1>6, <1>7 DEF P

-----------------------------------------------------------------------------
(* A descent, level by level. *)

Descent(w) == w = [tables |-> w.tables, used |-> w.used, at |-> w.at, left |-> w.left]
              /\ w.left \in Nat /\ w.left <= Frames - w.used

\* get_next_level goes on, with a table that it finds or makes.
LEMMA DownOne ==
    ASSUME NEW w, Descent(w), NEW depth, Trees(w.tables, w.used, depth), NEW l \in 1 .. 3,
           w.at = NULL \/ (w.at \in 1 .. w.used /\ depth[w.at] = l), NEW i \in Index
    PROVE  LET x == Down(w, i) IN
           /\ Descent(x)
           /\ \E d : /\ Trees(x.tables, x.used, d)
                     /\ Grows(w.tables, w.used, depth, x.tables, x.used, d)
                     /\ x.at = NULL \/ (x.at \in 1 .. x.used /\ d[x.at] = l + 1)
           /\ x.at = NULL \/ (w.at # NULL /\ x.at = Below(x.tables, w.at, i))
  <1> DEFINE x == Down(w, i)
             G == /\ Descent(x)
                  /\ \E d : /\ Trees(x.tables, x.used, d)
                            /\ Grows(w.tables, w.used, depth, x.tables, x.used, d)
                            /\ x.at = NULL \/ (x.at \in 1 .. x.used /\ d[x.at] = l + 1)
                  /\ x.at = NULL \/ (w.at # NULL /\ x.at = Below(x.tables, w.at, i))
  <1>0. PICK T, U, a, k : T = w.tables /\ U = w.used /\ a = w.at /\ k = w.left
    OBVIOUS
  <1>1. /\ w = [tables |-> T, used |-> U, at |-> a, left |-> k] /\ k \in Nat /\ k <= Frames - U
        /\ Forest(T, U, depth) /\ EnteredOnce(T, U, depth)
        /\ U \in Nat /\ Frames \in Nat /\ U <= Frames
        /\ a = NULL \/ (a \in 1 .. U /\ a \in 1 .. Frames /\ depth[a] = l)
        /\ T \in [Frame -> [Index -> Entry]] /\ depth \in [Frame -> 1 .. 4] /\ Frame = 1 .. Frames
    <2>1. /\ w = [tables |-> T, used |-> U, at |-> a, left |-> k] /\ k \in Nat /\ k <= Frames - U
          /\ Forest(T, U, depth) /\ EnteredOnce(T, U, depth)
          /\ a = NULL \/ (a \in 1 .. U /\ depth[a] = l)
      BY <1>0 DEF Descent, Trees
    <2>2. U \in 0 .. Frames /\ T \in [Frame -> [Index -> Entry]] /\ depth \in [Frame -> 1 .. 4]
      BY <2>1 DEF Forest
    <2>3. QED
      BY <2>1, <2>2, Sizes
  <1>2. ASSUME NEW b, x = [tables |-> T, used |-> U, at |-> b, left |-> k],
               b = NULL \/ (a # NULL /\ b \in 1 .. U /\ depth[b] = l + 1 /\ b = Below(T, a, i))
        PROVE  G
    <2>1. x.tables = T /\ x.used = U /\ x.at = b /\ x.left = k
      BY <1>2
    <2>2. Descent(x)
      BY <1>1, <1>2, <2>1 DEF Descent
    <2>3. Trees(x.tables, x.used, depth) /\ Grows(w.tables, w.used, depth, x.tables, x.used, depth)
      BY <1>0, <1>1, <2>1, GrowsNot DEF Trees
    <2>4. QED
      BY <1>0, <1>2, <2>1, <2>2, <2>3
  <1>3. CASE a = NULL
    <2>1. x = [tables |-> T, used |-> U, at |-> a, left |-> k]
      BY <1>0, <1>1, <1>3 DEF Down
    <2>2. QED
      BY <1>2, <1>3, <2>1
  <1>4. CASE a # NULL /\ Present \in T[a][i].bits
    <2>1. x = [tables |-> T, used |-> U, at |-> T[a][i].phys, left |-> k]
      BY <1>0, <1>1, <1>4 DEF Down
    <2>2. TableEntry(T[a][i], U, depth, depth[a]) /\ T[a][i] # Zero
      BY <1>1, <1>4, Sizes DEF Forest
    <2>3. /\ T[a][i].phys \in 1 .. U /\ depth[T[a][i].phys] = l + 1
          /\ T[a][i].phys = Below(T, a, i)
      BY <1>1, <1>4, <2>2 DEF TableEntry, Below
    <2>4. QED
      BY <1>2, <1>4, <2>1, <2>3
  <1>5. CASE a # NULL /\ Present \notin T[a][i].bits /\ k = 0
    <2>1. x = [tables |-> T, used |-> U, at |-> NULL, left |-> k]
      BY <1>0, <1>1, <1>5 DEF Down
    <2>2. QED
      BY <1>2, <2>1
  <1>6. CASE a # NULL /\ Present \notin T[a][i].bits /\ k # 0
    <2> DEFINE new == [phys |-> U + 1, bits |-> TableBits]
    <2>0. new.phys = U + 1 /\ new.bits = TableBits /\ Present \in new.bits
      BY Sizes
    <2>1. PICK S : S = [T EXCEPT ![a][i] = new, ![U + 1] = ZeroTable]
      OBVIOUS
    <2>2. x = [tables |-> S, used |-> U + 1, at |-> U + 1, left |-> k - 1]
      BY <1>0, <1>1, <1>6, <2>1 DEF Down
    <2>3. x.tables = S /\ x.used = U + 1 /\ x.at = U + 1 /\ x.left = k - 1
      BY <2>2
    <2>4. /\ a \in 1 .. U /\ a # U + 1 /\ U + 1 \in 1 .. Frames /\ k - 1 \in Nat
          /\ k - 1 <= Frames - (U + 1) /\ depth[a] = l
      BY <1>1, <1>6
    <2>5. new \in Entry
      BY <1>1, <2>4, Sizes
    <2> HIDE DEF new
    <2>6. /\ S \in [Frame -> [Index -> Entry]]
          /\ \A n \in Index : S[U + 1][n] = Zero
          /\ \A f \in 1 .. U, n \in Index : S[f][n] = IF f = a /\ n = i THEN new ELSE T[f][n]
      <3>1. S \in [Frame -> [Index -> Entry]]
        BY <1>1, <2>1, <2>4, <2>5, Sizes
      <3>2. S[U + 1] = ZeroTable
        BY <1>1, <2>1, <2>4
      <3>3. ASSUME NEW f \in 1 .. U, NEW n \in Index
            PROVE  S[f][n] = IF f = a /\ n = i THEN new ELSE T[f][n]
        <4>1. f # U + 1 /\ f \in Frame
          BY <1>1
        <4>2. CASE f = a
          BY <1>1, <2>1, <2>4, <4>1, <4>2
        <4>3. CASE f # a
          BY <1>1, <2>1, <2>4, <4>1, <4>3
        <4>4. QED
          BY <4>2, <4>3
      <3>4. QED
        BY <3>1, <3>2, <3>3, Sizes
    <2>7. PICK d : d = [depth EXCEPT ![U + 1] = l + 1]
      OBVIOUS
    <2>8. /\ d \in [Frame -> 1 .. 4] /\ d[U + 1] = l + 1 /\ \A f \in 1 .. U : d[f] = depth[f]
          /\ \A f \in 1 .. U : depth[f] \in 1 .. 4 /\ f \in 1 .. U + 1
          /\ \A f : f \in 1 .. U + 1 => f \in 1 .. U \/ f = U + 1
      BY <1>1, <2>4, <2>7
    <2>9. Forest(S, U + 1, d)
      <3>1. ASSUME NEW f \in 1 .. U + 1, NEW n \in Index
            PROVE  IF d[f] = 4 THEN S[f][n] \in LeafEntries ELSE TableEntry(S[f][n], U + 1, d, d[f])
        <4>1. CASE f = U + 1
          BY <2>6, <4>1, Sizes DEF TableEntry
        <4>2. CASE f = a /\ n = i
          <5>1. new = [phys |-> new.phys, bits |-> TableBits]
            BY <2>0 DEF new
          <5>2. new.phys \in 1 .. U + 1 /\ d[new.phys] = d[f] + 1 /\ d[f] # 4
            BY <1>1, <2>0, <2>4, <2>8, <4>2, SMTT(20)
          <5>3. S[f][n] = new
            BY <2>4, <2>6, <4>2
          <5>4. QED
            BY <5>1, <5>2, <5>3 DEF TableEntry
        <4>3. CASE f \in 1 .. U /\ ~(f = a /\ n = i)
          <5>1. S[f][n] = T[f][n] /\ d[f] = depth[f]
            BY <2>6, <2>8, <4>3
          <5>2. IF depth[f] = 4 THEN T[f][n] \in LeafEntries ELSE TableEntry(T[f][n], U, depth, depth[f])
            BY <1>1, <4>3 DEF Forest
          <5>3. TableEntry(T[f][n], U, depth, depth[f]) => TableEntry(T[f][n], U + 1, d, depth[f])
            BY <2>8 DEF TableEntry
          <5>4. QED
            BY <5>1, <5>2, <5>3
        <4>4. QED
          BY <2>8, <4>1, <4>2, <4>3
      <3>2. U + 1 \in 0 .. Frames
        BY <1>1, <2>4
      <3>3. QED
        BY <2>6, <2>8, <3>1, <3>2 DEF Forest
    <2>10. EnteredOnce(S, U + 1, d)
      <3>1. ASSUME NEW h \in 1 .. U + 1, NEW p \in Index, d[h] # 4, Present \in S[h][p].bits
            PROVE  /\ h \in 1 .. U /\ depth[h] # 4 /\ d[h] = depth[h]
                   /\ \/ h = a /\ p = i /\ S[h][p].phys = U + 1
                      \/ S[h][p] = T[h][p] /\ S[h][p].phys # U + 1
        <4>1. h # U + 1
          BY <2>6, <3>1, Sizes
        <4>2. h \in 1 .. U /\ d[h] = depth[h]
          BY <2>8, <4>1
        <4>3. CASE h = a /\ p = i
          BY <2>0, <2>6, <3>1, <4>2, <4>3
        <4>4. CASE ~(h = a /\ p = i)
          <5>1. S[h][p] = T[h][p] /\ Present \in T[h][p].bits
            BY <2>6, <3>1, <4>2, <4>4
          <5>2. TableEntry(T[h][p], U, depth, depth[h]) /\ T[h][p] # Zero
            BY <1>1, <3>1, <4>2, <5>1, Sizes DEF Forest
          <5>3. T[h][p].phys \in 1 .. U
            BY <5>2 DEF TableEntry
          <5>4. U + 1 \notin 1 .. U
            BY <1>1
          <5>5. QED
            BY <3>1, <4>2, <5>1, <5>3, <5>4
        <4>5. QED
          BY <4>3, <4>4
      <3>2. ASSUME NEW f \in 1 .. U + 1, NEW g \in 1 .. U + 1, NEW n \in Index, NEW o \in Index,
                   d[f] # 4, d[g] # 4, Present \in S[f][n].bits, Present \in S[g][o].bits,
                   S[f][n].phys = S[g][o].phys
            PROVE  n = o /\ (f = g \/ (d[f] = 1 /\ d[g] = 1 /\ n \in High))
        <4>1. /\ f \in 1 .. U /\ depth[f] # 4 /\ d[f] = depth[f]
              /\ \/ f = a /\ n = i /\ S[f][n].phys = U + 1
                 \/ S[f][n] = T[f][n] /\ S[f][n].phys # U + 1
          BY <3>1, <3>2
        <4>2. /\ g \in 1 .. U /\ depth[g] # 4 /\ d[g] = depth[g]
              /\ \/ g = a /\ o = i /\ S[g][o].phys = U + 1
                 \/ S[g][o] = T[g][o] /\ S[g][o].phys # U + 1
          BY <3>1, <3>2
        <4>3. CASE S[f][n].phys = U + 1
          BY <3>2, <4>1, <4>2, <4>3
        <4>4. CASE S[f][n].phys # U + 1
          <5>1. S[f][n] = T[f][n] /\ S[g][o] = T[g][o]
            BY <3>2, <4>1, <4>2, <4>4
          <5>2. QED
            BY <1>1, <3>2, <4>1, <4>2, <5>1 DEF EnteredOnce
        <4>5. QED
          BY <4>3, <4>4
      <3>3. QED
        BY <3>2 DEF EnteredOnce
    <2>11. Grows(T, U, depth, S, U + 1, d)
      <3>1. \A f : f \in U + 1 .. U + 1 => f = U + 1
        BY <1>1
      <3>2. U <= U + 1 /\ U + 1 \in U + 1 .. U + 1
        BY <1>1
      <3>3. ASSUME NEW f \in 1 .. U, NEW n \in Index
            PROVE  \/ S[f][n] = T[f][n]
                   \/ depth[f] # 4 /\ Present \notin T[f][n].bits /\ S[f][n].phys \in U + 1 .. U + 1
        <4>1. CASE f = a /\ n = i
          <5>1. S[f][n].phys = U + 1
            BY <2>0, <2>6, <4>1
          <5>2. depth[f] # 4 /\ Present \notin T[f][n].bits
            BY <1>6, <2>4, <4>1
          <5>3. QED
            BY <3>2, <5>1, <5>2
        <4>2. CASE ~(f = a /\ n = i)
          BY <2>6, <4>2
        <4>3. QED
          BY <4>1, <4>2
      <3>4. ASSUME NEW f \in U + 1 .. U + 1, NEW n \in Index
            PROVE  S[f][n] = Zero
        BY <2>6, <3>1
      <3>5. QED
        BY <2>8, <3>2, <3>3, <3>4, Sizes DEF Grows
    <2>12. Descent(x)
      BY <2>2, <2>3, <2>4 DEF Descent
    <2>13. x.at \in 1 .. x.used /\ d[x.at] = l + 1
      BY <1>1, <2>3, <2>8
    <2>14. x.at = Below(x.tables, w.at, i)
      <3>1. S[a][i] = new
        BY <2>4, <2>6
      <3>2. QED
        BY <1>0, <1>6, <2>0, <2>3, <3>1 DEF Below
    <2>15. Trees(x.tables, x.used, d) /\ Grows(w.tables, w.used, depth, x.tables, x.used, d)
      BY <1>0, <2>3, <2>9, <2>10, <2>11 DEF Trees
    <2>16. QED
      BY <1>0, <1>6, <2>12, <2>13, <2>14, <2>15
  <1>7. QED
    BY <1>3, <1>4, <1>5, <1>6

\* get_next_level for one slot of a top level.
LEMMA SlotOpens ==
    ASSUME NEW depth, Trees(tables, used, depth), NEW t \in 1 .. used, depth[t] = 1,
           NEW i \in Index, NEW k \in Nat, k <= Frames - used
    PROVE  LET w == Down(Start(t, k), i) IN
           /\ Descent(w)
           /\ \E d : /\ Trees(w.tables, w.used, d) /\ Grows(tables, used, depth, w.tables, w.used, d)
                     /\ w.at = NULL \/ (w.at \in 1 .. w.used /\ d[w.at] = 2)
           /\ w.at = NULL \/ w.at = Below(w.tables, t, i)
  <1> DEFINE s == Start(t, k)
             w == Down(s, i)
  <1>1. s.tables = tables /\ s.used = used /\ s.at = t /\ s.left = k /\ Descent(s)
    BY DEF Start, Descent
  <1> HIDE DEF s
  <1>2. 1 \in 1 .. 3 /\ 1 + 1 = 2
    OBVIOUS
  <1>3. /\ Descent(w)
        /\ \E d : /\ Trees(w.tables, w.used, d)
                  /\ Grows(s.tables, s.used, depth, w.tables, w.used, d)
                  /\ w.at = NULL \/ (w.at \in 1 .. w.used /\ d[w.at] = 1 + 1)
        /\ w.at = NULL \/ (s.at # NULL /\ w.at = Below(w.tables, s.at, i))
    BY <1>1, <1>2, DownOne
  <1>4. QED
    BY <1>1, <1>2, <1>3 DEF s

\* A descent that began at t has come to level l of the path of v, or failed.
Reached(w, depth, l, t, v) ==
    /\ Descent(w)
    /\ \E d : /\ Trees(w.tables, w.used, d) /\ Grows(tables, used, depth, w.tables, w.used, d)
              /\ \/ w.at = NULL
                 \/ w.at \in 1 .. w.used /\ d[w.at] = l /\ w.at = Node(w.tables, l, t, v)

LEMMA DescentOn ==
    ASSUME NEW depth, NEW t \in 1 .. used, depth[t] = 1, NEW v \in Virts,
           NEW l \in 2 .. 3, NEW w, Reached(w, depth, l, t, v), Trees(tables, used, depth)
    PROVE  Reached(Down(w, v[l]), depth, l + 1, t, v)
  <1> DEFINE x == Down(w, v[l])
  <1>0. PICK c : /\ Trees(w.tables, w.used, c) /\ Grows(tables, used, depth, w.tables, w.used, c)
                 /\ \/ w.at = NULL
                    \/ w.at \in 1 .. w.used /\ c[w.at] = l /\ w.at = Node(w.tables, l, t, v)
    BY DEF Reached
  <1>8. Descent(w)
    BY DEF Reached
  <1>1. l \in 1 .. 3 /\ l \in 1 .. 4 /\ v[l] \in Index
    <2>1. l \in 1 .. 3 /\ l \in 1 .. 4
      OBVIOUS
    <2>2. QED
      BY <2>1, VirtTypes
  <1>2. /\ Descent(x)
        /\ \E d : /\ Trees(x.tables, x.used, d)
                  /\ Grows(w.tables, w.used, c, x.tables, x.used, d)
                  /\ x.at = NULL \/ (x.at \in 1 .. x.used /\ d[x.at] = l + 1)
        /\ x.at = NULL \/ (w.at # NULL /\ x.at = Below(x.tables, w.at, v[l]))
    BY <1>0, <1>1, <1>8, DownOne
  <1> HIDE DEF x
  <1>3. PICK d : /\ Trees(x.tables, x.used, d)
                 /\ Grows(w.tables, w.used, c, x.tables, x.used, d)
                 /\ x.at = NULL \/ (x.at \in 1 .. x.used /\ d[x.at] = l + 1)
    BY <1>2
  <1>4. used \in Nat /\ w.used \in Nat /\ x.used \in Nat
    <2>1. used \in 0 .. Frames /\ w.used \in 0 .. Frames /\ x.used \in 0 .. Frames
      BY <1>0, <1>3 DEF Trees, Forest
    <2>2. QED
      BY <2>1, Sizes
  <1>5. Grows(tables, used, depth, x.tables, x.used, d)
    BY <1>0, <1>3, <1>4, GrowsTrans
  <1>6. x.at # NULL => x.at = Node(x.tables, l + 1, t, v)
    <2> SUFFICES ASSUME x.at # NULL PROVE x.at = Node(x.tables, l + 1, t, v)
      OBVIOUS
    <2>1. t \in 1 .. w.used /\ c[t] = 1
      BY <1>0, <1>4 DEF Grows
    <2>2. w.at # NULL /\ w.at = Node(w.tables, l, t, v) /\ x.at = Below(x.tables, w.at, v[l])
      BY <1>0, <1>2
    <2>3. Node(x.tables, l, t, v) = Node(w.tables, l, t, v)
      BY <1>0, <1>1, <1>3, <2>1, <2>2, NodesGrow DEF Trees
    <2>4. Node(x.tables, l + 1, t, v) = Below(x.tables, Node(x.tables, l, t, v), v[l])
      BY <1>1, NodeSteps
    <2>5. QED
      BY <2>2, <2>3, <2>4
  <1>7. QED
    BY <1>2, <1>3, <1>5, <1>6 DEF Reached, x

\* The three levels of map_page and of virt2pte.
LEMMA Descends ==
    ASSUME NEW depth, Trees(tables, used, depth), NEW t \in 1 .. used, depth[t] = 1, NEW v \in Virts,
           NEW k \in Nat, k <= Frames - used
    PROVE  Reached(Down(Down(Down(Start(t, k), v[1]), v[2]), v[3]), depth, 4, t, v)
  <1> DEFINE w1 == Down(Start(t, k), v[1])
             w2 == Down(w1, v[2])
             w3 == Down(w2, v[3])
  <1>1. v[1] \in Index /\ 2 \in 2 .. 3 /\ 3 \in 2 .. 3 /\ 2 + 1 = 3 /\ 3 + 1 = 4
    BY VirtTypes
  <1>2. /\ Descent(w1)
        /\ \E d : /\ Trees(w1.tables, w1.used, d) /\ Grows(tables, used, depth, w1.tables, w1.used, d)
                  /\ w1.at = NULL \/ (w1.at \in 1 .. w1.used /\ d[w1.at] = 2)
        /\ w1.at = NULL \/ w1.at = Below(w1.tables, t, v[1])
    BY <1>1, SlotOpens
  <1> HIDE DEF w1
  <1>3. Node(w1.tables, 2, t, v) = Below(w1.tables, t, v[1])
    BY DEF Node
  <1>4. Reached(w1, depth, 2, t, v)
    BY <1>2, <1>3 DEF Reached
  <1>5. Reached(w2, depth, 2 + 1, t, v)
    BY <1>1, <1>4, DescentOn
  <1> HIDE DEF w2
  <1>6. Reached(w3, depth, 3 + 1, t, v)
    BY <1>1, <1>5, DescentOn
  <1>7. QED
    BY <1>1, <1>6 DEF w1, w2, w3

\* A store to the entry of an address in a last table.
Stores(S, T, U, p, i, e) ==
    /\ S \in [Frame -> [Index -> Entry]] /\ p \in 1 .. U /\ i \in Index /\ e \in LeafEntries
    /\ \A f \in 1 .. U, n \in Index :
          IF f = p /\ n = i THEN S[f][n] = e ELSE S[f][n] = T[f][n]

LEMMA EntryStored ==
    ASSUME NEW T \in [Frame -> [Index -> Entry]], NEW U \in 0 .. Frames, NEW p \in 1 .. U,
           NEW i \in Index, NEW e \in LeafEntries, NEW S, S = [T EXCEPT ![p][i] = e]
    PROVE  Stores(S, T, U, p, i, e)
  <1>0. e \in Entry /\ Frame = 1 .. Frames /\ Frames \in Nat
    BY Sizes
  <1>1. S \in [Frame -> [Index -> Entry]]
    BY <1>0
  <1>2. ASSUME NEW f \in 1 .. U, NEW n \in Index
        PROVE  IF f = p /\ n = i THEN S[f][n] = e ELSE S[f][n] = T[f][n]
    <2>1. f \in Frame /\ p \in Frame
      BY <1>0
    <2>2. CASE f = p
      BY <1>0, <2>1, <2>2
    <2>3. CASE f # p
      BY <1>0, <2>1, <2>3
    <2>4. QED
      BY <2>2, <2>3
  <1>3. QED
    BY <1>1, <1>2 DEF Stores

LEMMA LeafStored ==
    ASSUME NEW T, NEW U, NEW depth, Trees(T, U, depth), NEW p, depth[p] = 4,
           NEW i, NEW e, NEW S, Stores(S, T, U, p, i, e)
    PROVE  /\ Trees(S, U, depth)
           /\ \A r \in 1 .. U, n \in Index : depth[r] # 4 => S[r][n] = T[r][n]
           /\ \A r \in 1 .. U, u \in Virts : depth[r] = 1 =>
                 /\ Node(S, 4, r, u) = Node(T, 4, r, u)
                 /\ Node(T, 4, r, u) = p /\ u[4] = i => Shown(S, r, u) = e
                 /\ (Node(T, 4, r, u) = p /\ u[4] = i) \/ Shown(S, r, u) = Shown(T, r, u)
  <1>0. /\ Forest(T, U, depth) /\ EnteredOnce(T, U, depth)
        /\ T \in [Frame -> [Index -> Entry]] /\ U \in Nat /\ U <= Frames /\ Frame = 1 .. Frames
        /\ Frames \in Nat
    <2>1. Forest(T, U, depth) /\ EnteredOnce(T, U, depth)
      BY DEF Trees
    <2>2. T \in [Frame -> [Index -> Entry]] /\ U \in 0 .. Frames
      BY <2>1 DEF Forest
    <2>3. QED
      BY <2>1, <2>2, Sizes
  <1>1. S \in [Frame -> [Index -> Entry]] /\ p \in 1 .. U /\ i \in Index /\ e \in LeafEntries
    BY DEF Stores
  <1>2. ASSUME NEW f \in 1 .. U, NEW n \in Index
        PROVE  S[f][n] = IF f = p /\ n = i THEN e ELSE T[f][n]
    BY DEF Stores
  <1>3. ASSUME NEW r \in 1 .. U, NEW n \in Index, depth[r] # 4 PROVE S[r][n] = T[r][n]
    BY <1>2, <1>3
  <1>4. Forest(S, U, depth)
    <2>1. ASSUME NEW f \in 1 .. U, NEW n \in Index
          PROVE  IF depth[f] = 4 THEN S[f][n] \in LeafEntries ELSE TableEntry(S[f][n], U, depth, depth[f])
      <3>1. IF depth[f] = 4 THEN T[f][n] \in LeafEntries ELSE TableEntry(T[f][n], U, depth, depth[f])
        BY <1>0 DEF Forest
      <3>2. QED
        BY <1>1, <1>2, <1>3, <3>1
    <2>2. U \in 0 .. Frames /\ depth \in [Frame -> 1 .. 4]
      BY <1>0 DEF Forest
    <2>3. QED
      BY <1>1, <2>1, <2>2 DEF Forest
  <1>5. EnteredOnce(S, U, depth)
    BY <1>0, <1>3 DEF EnteredOnce
  <1>6. ASSUME NEW r \in 1 .. U, NEW u \in Virts, depth[r] = 1
        PROVE  /\ Node(S, 4, r, u) = Node(T, 4, r, u)
               /\ Node(T, 4, r, u) = p /\ u[4] = i => Shown(S, r, u) = e
               /\ (Node(T, 4, r, u) = p /\ u[4] = i) \/ Shown(S, r, u) = Shown(T, r, u)
    <2>1. ASSUME NEW l \in 1 .. 3, Node(S, l, r, u) = Node(T, l, r, u)
          PROVE  Node(S, l + 1, r, u) = Node(T, l + 1, r, u)
      <3>1. l \in 1 .. 4 /\ l # 4
        OBVIOUS
      <3>2. /\ Node(S, l + 1, r, u) = Below(S, Node(S, l, r, u), u[l]) /\ u[l] \in Index
            /\ Node(T, l + 1, r, u) = Below(T, Node(T, l, r, u), u[l])
            /\ Node(T, l, r, u) = NULL \/ (Node(T, l, r, u) \in 1 .. U /\ depth[Node(T, l, r, u)] = l)
        BY <1>0, <1>6, <3>1, NodeSteps, VirtTypes, NodesPlaced
      <3>3. PICK f, n : f = Node(T, l, r, u) /\ n = u[l]
        OBVIOUS
      <3>4. Below(S, f, n) = Below(T, f, n)
        BY <1>3, <3>1, <3>2, <3>3 DEF Below
      <3>5. QED
        BY <2>1, <3>2, <3>3, <3>4
    <2>2. Node(S, 1, r, u) = Node(T, 1, r, u)
      BY NodeSteps
    <2>3. Node(S, 2, r, u) = Node(T, 2, r, u)
      BY <2>1, <2>2
    <2>4. Node(S, 3, r, u) = Node(T, 3, r, u)
      BY <2>1, <2>3
    <2>5. Node(S, 4, r, u) = Node(T, 4, r, u)
      BY <2>1, <2>4
    <2>6. PICK f : f = Node(T, 4, r, u)
      OBVIOUS
    <2>7. f = NULL \/ f \in 1 .. U
      <3>1. 4 \in 1 .. 4
        OBVIOUS
      <3>2. QED
        BY <1>0, <1>6, <2>6, <3>1, NodesPlaced
    <2>8. u[4] \in Index /\ p # NULL
      BY <1>0, <1>1, VirtTypes DEF NULL
    <2>9. Shown(S, r, u) = IF f = p /\ u[4] = i THEN e ELSE Shown(T, r, u)
      BY <1>2, <2>5, <2>6, <2>7, <2>8 DEF Shown
    <2>10. QED
      BY <2>5, <2>6, <2>9
  <1>7. QED
    BY <1>3, <1>4, <1>5, <1>6 DEF Trees

-----------------------------------------------------------------------------
(* What the calls do to the tables. *)

LEMMA WalkShown ==
    ASSUME NEW t, NEW v
    PROVE  /\ Pml1(t, v) = Node(tables, 4, t, v) /\ Walk(t, v) = Shown(tables, t, v)
           /\ Pml1(t, v)' = Node(tables', 4, t, v) /\ Walk(t, v)' = Shown(tables', t, v)
  <1>1. Pml1(t, v) = Node(tables, 4, t, v) /\ Pml1(t, v)' = Node(tables', 4, t, v)
    BY DEF Pml1, get_next_level, Node, Below
  <1>2. QED
    BY <1>1 DEF Walk, Shown

\* The tables become S, of which V frames are in use: tables may have been made,
\* and an address v may have another entry, one of E, under t and, if it is in
\* the higher half, wherever it is shown.
Edited(S, V, d, depth, t, v, E) ==
    /\ Trees(S, V, d) /\ used <= V /\ \A f \in 1 .. used : d[f] = depth[f]
    /\ \A r \in 1 .. used, n \in Index :
          depth[r] = 1 => S[r][n] = tables[r][n] \/ Present \notin tables[r][n].bits
    /\ \A r \in 1 .. used, u \in Virts : depth[r] = 1 =>
          \/ Shown(S, r, u) = Shown(tables, r, u)
          \/ /\ u = v /\ (r = t \/ v[1] \in High) /\ Shown(S, r, u) \in E
             /\ Shown(tables, r, u) = Zero \/ Shown(tables, r, u) = Shown(tables, t, u)

LEMMA GrowsEdits ==
    ASSUME NEW depth, Trees(tables, used, depth), NEW S, NEW V, NEW d, Trees(S, V, d),
           Grows(tables, used, depth, S, V, d), NEW t, NEW v, NEW E
    PROVE  Edited(S, V, d, depth, t, v, E)
  <1>1. Forest(tables, used, depth) /\ Forest(S, V, d)
    BY DEF Trees
  <1>2. \A r \in 1 .. used, u \in Virts : depth[r] = 1 => Shown(S, r, u) = Shown(tables, r, u)
    BY <1>1, NodesGrow
  <1>3. \A r \in 1 .. used, n \in Index : S[r][n] = tables[r][n] \/ Present \notin tables[r][n].bits
    BY DEF Grows
  <1>4. used <= V /\ \A f \in 1 .. used : d[f] = depth[f]
    BY DEF Grows
  <1>5. QED
    BY <1>2, <1>3, <1>4 DEF Edited

\* A store to an entry of v, in a table of the last level that a descent from t
\* has found or made.
LEMMA StoreEdits ==
    ASSUME NEW depth, Trees(tables, used, depth), NEW t \in 1 .. used, depth[t] = 1, NEW v \in Virts,
           NEW w, Reached(w, depth, 4, t, v), w.at # NULL, NEW e \in LeafEntries
    PROVE  \E d : Edited([w.tables EXCEPT ![w.at][v[4]] = e], w.used, d, depth, t, v, {e})
  <1>1. PICK d : /\ Trees(w.tables, w.used, d) /\ Grows(tables, used, depth, w.tables, w.used, d)
                 /\ w.at \in 1 .. w.used /\ d[w.at] = 4 /\ w.at = Node(w.tables, 4, t, v)
    BY DEF Reached
  <1>2. PICK T, V, p, S : T = w.tables /\ V = w.used /\ p = w.at /\ S = [T EXCEPT ![p][v[4]] = e]
    OBVIOUS
  <1>3. /\ Trees(T, V, d) /\ Grows(tables, used, depth, T, V, d) /\ p \in 1 .. V /\ d[p] = 4
        /\ p = Node(T, 4, t, v) /\ p # NULL
    BY <1>1, <1>2
  <1>4. v[4] \in Index
    BY VirtTypes
  <1>5. /\ Trees(S, V, d)
        /\ \A r \in 1 .. V, n \in Index : d[r] # 4 => S[r][n] = T[r][n]
        /\ \A r \in 1 .. V, u \in Virts : d[r] = 1 =>
              /\ Node(S, 4, r, u) = Node(T, 4, r, u)
              /\ Node(T, 4, r, u) = p /\ u[4] = v[4] => Shown(S, r, u) = e
              /\ (Node(T, 4, r, u) = p /\ u[4] = v[4]) \/ Shown(S, r, u) = Shown(T, r, u)
    <2>1. T \in [Frame -> [Index -> Entry]] /\ V \in 0 .. Frames
      BY <1>3 DEF Trees, Forest
    <2>2. Stores(S, T, V, p, v[4], e)
      BY <1>2, <1>3, <1>4, <2>1, EntryStored
    <2>3. QED
      BY <1>3, <2>2, LeafStored
  <1>6. /\ Forest(tables, used, depth) /\ Forest(T, V, d)
        /\ used \in Nat /\ V \in Nat /\ used <= V
        /\ \A f \in 1 .. used : f \in 1 .. V /\ d[f] = depth[f]
    <2>1. Forest(tables, used, depth) /\ Forest(T, V, d)
      BY <1>3 DEF Trees
    <2>2. used \in 0 .. Frames /\ V \in 0 .. Frames
      BY <2>1 DEF Forest
    <2>3. used <= V /\ \A f \in 1 .. used : d[f] = depth[f]
      BY <1>3 DEF Grows
    <2>4. QED
      BY <2>1, <2>2, <2>3, Sizes
  <1>7. ASSUME NEW r \in 1 .. used, NEW n \in Index, depth[r] = 1
        PROVE  S[r][n] = tables[r][n] \/ Present \notin tables[r][n].bits
    <2>1. S[r][n] = T[r][n]
      BY <1>5, <1>6, <1>7
    <2>2. T[r][n] = tables[r][n] \/ Present \notin tables[r][n].bits
      BY <1>3 DEF Grows
    <2>3. QED
      BY <2>1, <2>2
  <1>8. ASSUME NEW r \in 1 .. used, NEW u \in Virts, depth[r] = 1
        PROVE  \/ Shown(S, r, u) = Shown(tables, r, u)
               \/ /\ u = v /\ (r = t \/ v[1] \in High) /\ Shown(S, r, u) \in {e}
                  /\ Shown(tables, r, u) = Zero \/ Shown(tables, r, u) = Shown(tables, t, u)
    <2>1. r \in 1 .. V /\ d[r] = 1 /\ t \in 1 .. V /\ d[t] = 1
      BY <1>6, <1>8
    <2>2. Shown(T, r, u) = Shown(tables, r, u)
      BY <1>3, <1>6, <1>8, NodesGrow
    <2>3. CASE ~(Node(T, 4, r, u) = p /\ u[4] = v[4])
      BY <1>5, <2>1, <2>2, <2>3
    <2>4. CASE Node(T, 4, r, u) = p /\ u[4] = v[4]
      <3>1. v = u /\ (t = r \/ v[1] \in High)
        BY <1>3, <2>1, <2>4, PathsApart
      <3>2. Shown(S, r, u) = e
        BY <1>5, <2>1, <2>4
      <3>3. ASSUME Node(tables, 4, r, u) # NULL PROVE Shown(tables, r, u) = Shown(tables, t, u)
        <4>1. 4 \in 1 .. 4
          OBVIOUS
        <4>2. Node(tables, 4, r, u) = p /\ p \in 1 .. used
          BY <1>3, <1>6, <1>8, <2>4, <3>3, <4>1, NodesGrow, NodesPlaced
        <4>3. Node(T, 4, t, v) = Node(tables, 4, t, v) \/ Node(T, 4, t, v) \in used + 1 .. V
          BY <1>3, <1>6, <4>1, NodesGrow
        <4>4. Node(tables, 4, t, v) = p
          <5>1. p \notin used + 1 .. V
            BY <1>6, <4>2
          <5>2. QED
            BY <1>3, <4>3, <5>1
        <4>5. QED
          BY <3>1, <4>2, <4>4 DEF Shown
      <3>4. Node(tables, 4, r, u) = NULL => Shown(tables, r, u) = Zero
        BY DEF Shown
      <3>5. QED
        BY <3>1, <3>2, <3>3, <3>4
    <2>5. QED
      BY <2>3, <2>4
  <1>9. Edited(S, V, d, depth, t, v, {e})
    BY <1>5, <1>6, <1>7, <1>8 DEF Edited
  <1>10. QED
    BY <1>2, <1>9

\* map_page and flag_page: a descent, and a store where it ends.
LEMMA CallEdits ==
    ASSUME NEW depth, Trees(tables, used, depth), NEW m \in Maps, top[m] \in 1 .. used,
           depth[top[m]] = 1, NEW v \in Virts, NEW k \in Supply(3), NEW e \in LeafEntries
    PROVE  LET w == Descend(m, v, k) IN
           \E d : Edited(Store(w, v, e), w.used, d, depth, top[m], v, IF w.at = NULL THEN {} ELSE {e})
  <1> DEFINE w == Descend(m, v, k)
  <1>1. k \in Nat /\ k <= Frames - used
    BY DEF Supply
  <1>2. Reached(w, depth, 4, top[m], v)
    BY <1>1, Descends DEF Descend
  <1> HIDE DEF w
  <1>3. CASE w.at = NULL
    <2>1. PICK d : Trees(w.tables, w.used, d) /\ Grows(tables, used, depth, w.tables, w.used, d)
      BY <1>2 DEF Reached
    <2>2. Store(w, v, e) = w.tables
      BY <1>3 DEF Store
    <2>3. Edited(w.tables, w.used, d, depth, top[m], v, {})
      BY <2>1, GrowsEdits
    <2>4. QED
      BY <1>3, <2>2, <2>3 DEF w
  <1>4. CASE w.at # NULL
    <2>1. \E d : Edited([w.tables EXCEPT ![w.at][v[4]] = e], w.used, d, depth, top[m], v, {e})
      BY <1>2, <1>4, StoreEdits
    <2>2. Store(w, v, e) = [w.tables EXCEPT ![w.at][v[4]] = e]
      BY <1>4 DEF Store
    <2>3. QED
      BY <1>4, <2>1, <2>2 DEF w
  <1>5. QED
    BY <1>3, <1>4

\* unmap_page of an address that has its tables.
LEMMA ClearEdits ==
    ASSUME NEW depth, Trees(tables, used, depth), NEW t \in 1 .. used, depth[t] = 1, NEW v \in Virts,
           Pml1(t, v) # NULL
    PROVE  Edited([tables EXCEPT ![Pml1(t, v)][v[4]] = Zero], used, depth, depth, t, v, {Zero})
  <1>1. used \in Nat /\ used <= Frames /\ Forest(tables, used, depth) /\ Frames \in Nat
    <2>1. used \in 0 .. Frames /\ Forest(tables, used, depth)
      BY DEF Trees, Forest
    <2>2. QED
      BY <2>1, Sizes
  <1>2. Pml1(t, v) \in 1 .. used /\ depth[Pml1(t, v)] = 4 /\ Pml1(t, v) = Node(tables, 4, t, v)
    <2>1. 4 \in 1 .. 4
      OBVIOUS
    <2>2. QED
      BY <1>1, <2>1, WalkShown, NodesPlaced
  <1>3. v[4] \in Index
    BY VirtTypes
  <1>4. PICK p, S : p = Pml1(t, v) /\ S = [tables EXCEPT ![p][v[4]] = Zero]
    OBVIOUS
  <1>5. /\ Trees(S, used, depth)
        /\ \A r \in 1 .. used, n \in Index : depth[r] # 4 => S[r][n] = tables[r][n]
        /\ \A r \in 1 .. used, u \in Virts : depth[r] = 1 =>
              /\ Node(S, 4, r, u) = Node(tables, 4, r, u)
              /\ Node(tables, 4, r, u) = p /\ u[4] = v[4] => Shown(S, r, u) = Zero
              /\ (Node(tables, 4, r, u) = p /\ u[4] = v[4]) \/ Shown(S, r, u) = Shown(tables, r, u)
    <2>1. /\ p \in 1 .. used /\ depth[p] = 4 /\ Zero \in LeafEntries
          /\ S = [tables EXCEPT ![p][v[4]] = Zero]
      BY <1>2, <1>4, Sizes
    <2>2. tables \in [Frame -> [Index -> Entry]] /\ used \in 0 .. Frames
      BY DEF Trees, Forest
    <2>3. PICK T, U : T = tables /\ U = used
      OBVIOUS
    <2>4. /\ T \in [Frame -> [Index -> Entry]] /\ U \in 0 .. Frames /\ p \in 1 .. U
          /\ S = [T EXCEPT ![p][v[4]] = Zero]
      BY <2>1, <2>2, <2>3
    <2>5. Stores(S, T, U, p, v[4], Zero)
      BY <1>3, <2>1, <2>4, EntryStored
    <2>6. Stores(S, tables, used, p, v[4], Zero)
      BY <2>3, <2>5
    <2>7. depth[p] = 4
      BY <2>1
    <2>8. PICK i, e : i = v[4] /\ e = Zero
      OBVIOUS
    <2>9. Stores(S, tables, used, p, i, e)
      BY <2>6, <2>8
    <2>10. /\ Trees(S, used, depth)
           /\ \A r \in 1 .. used, n \in Index : depth[r] # 4 => S[r][n] = tables[r][n]
           /\ \A r \in 1 .. used, u \in Virts : depth[r] = 1 =>
                 /\ Node(S, 4, r, u) = Node(tables, 4, r, u)
                 /\ Node(tables, 4, r, u) = p /\ u[4] = i => Shown(S, r, u) = e
                 /\ (Node(tables, 4, r, u) = p /\ u[4] = i) \/ Shown(S, r, u) = Shown(tables, r, u)
      BY <2>7, <2>9, LeafStored
    <2>11. QED
      BY <2>8, <2>10
  <1>6. ASSUME NEW r \in 1 .. used, NEW u \in Virts, depth[r] = 1
        PROVE  \/ Shown(S, r, u) = Shown(tables, r, u)
               \/ /\ u = v /\ (r = t \/ v[1] \in High) /\ Shown(S, r, u) \in {Zero}
                  /\ Shown(tables, r, u) = Zero \/ Shown(tables, r, u) = Shown(tables, t, u)
    <2>1. CASE ~(Node(tables, 4, r, u) = p /\ u[4] = v[4])
      BY <1>5, <1>6, <2>1
    <2>2. CASE Node(tables, 4, r, u) = p /\ u[4] = v[4]
      <3>1. v = u /\ (t = r \/ v[1] \in High)
        BY <1>2, <1>4, <1>6, <2>2, PathsApart
      <3>2. Shown(tables, r, u) = Shown(tables, t, u)
        BY <1>2, <1>4, <2>2, <3>1 DEF Shown
      <3>3. QED
        BY <1>5, <1>6, <2>2, <3>1, <3>2
    <2>3. QED
      BY <2>1, <2>2
  <1>7. Edited(S, used, depth, depth, t, v, {Zero})
    BY <1>1, <1>5, <1>6 DEF Edited
  <1>8. QED
    BY <1>4, <1>7

-----------------------------------------------------------------------------
(* A new table of the first level. *)

Agree(S, T, U) == \A f \in 1 .. U, n \in Index : S[f][n] = T[f][n]

LEMMA SameTablesShow ==
    ASSUME NEW T, NEW U, NEW depth, Forest(T, U, depth), NEW S, Agree(S, T, U),
           NEW t \in 1 .. U, depth[t] = 1, NEW v \in Virts
    PROVE  Shown(S, t, v) = Shown(T, t, v)
  <1>0. U \in Nat
    BY Sizes DEF Forest
  <1>1. ASSUME NEW l \in 1 .. 3, Node(S, l, t, v) = Node(T, l, t, v)
        PROVE  Node(S, l + 1, t, v) = Node(T, l + 1, t, v)
    <2>1. l \in 1 .. 4
      OBVIOUS
    <2>2. /\ Node(S, l + 1, t, v) = Below(S, Node(S, l, t, v), v[l]) /\ v[l] \in Index
          /\ Node(T, l + 1, t, v) = Below(T, Node(T, l, t, v), v[l])
          /\ Node(T, l, t, v) = NULL \/ Node(T, l, t, v) \in 1 .. U
      BY <2>1, NodeSteps, VirtTypes, NodesPlaced
    <2>3. PICK f, n : f = Node(T, l, t, v) /\ n = v[l]
      OBVIOUS
    <2>4. Below(S, f, n) = Below(T, f, n)
      BY <2>2, <2>3 DEF Below, Agree
    <2>5. QED
      BY <1>1, <2>2, <2>3, <2>4
  <1>2. Node(S, 1, t, v) = Node(T, 1, t, v)
    BY NodeSteps
  <1>3. Node(S, 2, t, v) = Node(T, 2, t, v)
    BY <1>1, <1>2
  <1>4. Node(S, 3, t, v) = Node(T, 3, t, v)
    BY <1>1, <1>3
  <1>5. Node(S, 4, t, v) = Node(T, 4, t, v)
    BY <1>1, <1>4
  <1>6. PICK f, n : f = Node(T, 4, t, v) /\ n = v[4]
    OBVIOUS
  <1>7. (f = NULL \/ f \in 1 .. U) /\ n \in Index
    <2>1. 4 \in 1 .. 4
      OBVIOUS
    <2>2. QED
      BY <1>6, <2>1, NodesPlaced, VirtTypes
  <1>8. f = NULL \/ S[f][n] = T[f][n]
    BY <1>7 DEF Agree
  <1>9. QED
    BY <1>5, <1>6, <1>8 DEF Shown

\* The table is empty, or it has slots of the higher half from another one.
TopLike(Z, r, depth) ==
    \A n \in Index : \/ Z[n] = Zero
                     \/ n \in High /\ r \in 1 .. used /\ depth[r] = 1 /\ Z[n] = tables[r][n]

TopAdded(S, Z) == used < Frames /\ Z \in [Index -> Entry] /\ S = [tables EXCEPT ![used + 1] = Z]

LEMMA TopMade ==
    ASSUME NEW depth, Trees(tables, used, depth), NEW Z, NEW r, TopLike(Z, r, depth),
           NEW S, TopAdded(S, Z)
    PROVE  /\ \E d : /\ Trees(S, used + 1, d) /\ d[used + 1] = 1
                     /\ \A f \in 1 .. used : d[f] = depth[f]
           /\ used + 1 \in Frame /\ used \in Nat /\ S[used + 1] = Z
           /\ Agree(S, tables, used)
           /\ \A t \in 1 .. used, v \in Virts : depth[t] = 1 => Shown(S, t, v) = Shown(tables, t, v)
  <1>0. used < Frames /\ Z \in [Index -> Entry] /\ S = [tables EXCEPT ![used + 1] = Z]
    BY DEF TopAdded
  <1>1. Forest(tables, used, depth) /\ EnteredOnce(tables, used, depth)
    BY DEF Trees
  <1>2. /\ tables \in [Frame -> [Index -> Entry]] /\ used \in 0 .. Frames /\ depth \in [Frame -> 1 .. 4]
        /\ \A f \in 1 .. used, n \in Index :
              IF depth[f] = 4 THEN tables[f][n] \in LeafEntries ELSE TableEntry(tables[f][n], used, depth, depth[f])
    BY <1>1 DEF Forest
  <1>3. PICK g, V : g = used + 1 /\ V = used
    OBVIOUS
  <1>4. /\ V \in Nat /\ g = V + 1 /\ g \in Frame /\ g \in 0 .. Frames /\ g \in 1 .. g /\ g \notin 1 .. V
        /\ \A f : f \in 1 .. g <=> (f \in 1 .. V \/ f = g)
        /\ \A f \in 1 .. V : f \in Frame /\ f \in 1 .. g
    BY <1>0, <1>2, <1>3, Sizes
  <1>5. PICK d : d = [depth EXCEPT ![g] = 1]
    OBVIOUS
  <1>6. d \in [Frame -> 1 .. 4] /\ d[g] = 1 /\ \A f \in 1 .. V : d[f] = depth[f]
    BY <1>2, <1>4, <1>5
  <1>7. S \in [Frame -> [Index -> Entry]] /\ S[g] = Z /\ \A f \in 1 .. V : S[f] = tables[f]
    <2>1. S = [tables EXCEPT ![g] = Z] /\ Z \in [Index -> Entry]
      BY <1>0, <1>3
    <2>2. QED
      BY <1>2, <1>4, <2>1
  <1>8. ASSUME NEW e, NEW l, TableEntry(e, V, depth, l)
        PROVE  TableEntry(e, g, d, l)
    BY <1>4, <1>6, <1>8 DEF TableEntry
  <1>9. ASSUME NEW n \in Index
        PROVE  TableEntry(Z[n], g, d, 1)
    <2>1. CASE Z[n] = Zero
      BY <2>1 DEF TableEntry
    <2>2. CASE n \in High /\ r \in 1 .. used /\ depth[r] = 1 /\ Z[n] = tables[r][n]
      <3>1. TableEntry(Z[n], V, depth, 1)
        BY <1>2, <1>3, <2>2
      <3>2. QED
        BY <1>8, <3>1
    <2>3. QED
      BY <2>1, <2>2 DEF TopLike
  <1>10. Forest(S, g, d)
    <2>1. ASSUME NEW f \in 1 .. g, NEW n \in Index
          PROVE  IF d[f] = 4 THEN S[f][n] \in LeafEntries ELSE TableEntry(S[f][n], g, d, d[f])
      <3>1. CASE f = g
        BY <1>6, <1>7, <1>9, <3>1
      <3>2. CASE f \in 1 .. V
        <4>1. IF depth[f] = 4 THEN tables[f][n] \in LeafEntries ELSE TableEntry(tables[f][n], V, depth, depth[f])
          BY <1>2, <1>3, <3>2
        <4>2. S[f][n] = tables[f][n] /\ d[f] = depth[f]
          BY <1>6, <1>7, <3>2
        <4>3. QED
          BY <1>8, <4>1, <4>2
      <3>3. QED
        BY <1>4, <3>1, <3>2
    <2>2. QED
      BY <1>4, <1>6, <1>7, <2>1 DEF Forest
  \* An entry of the new table stands for one of the higher half of r.
  <1>11. ASSUME NEW f \in 1 .. g, NEW n \in Index, d[f] # 4, Present \in S[f][n].bits
         PROVE  \E x \in 1 .. V : /\ depth[x] # 4 /\ S[f][n] = tables[x][n] /\ depth[x] = d[f]
                                  /\ x = f \/ (d[f] = 1 /\ n \in High)
    <2>1. CASE f \in 1 .. V
      BY <1>6, <1>7, <1>11, <2>1
    <2>2. CASE f = g
      <3>1. S[f][n] = Z[n] /\ d[f] = 1
        BY <1>6, <1>7, <2>2
      <3>2. Z[n] # Zero
        BY <1>11, <3>1, Sizes
      <3>3. QED
        BY <1>3, <3>1, <3>2 DEF TopLike
    <2>3. QED
      BY <1>4, <2>1, <2>2
  <1>12. EnteredOnce(S, g, d)
    <2> SUFFICES ASSUME NEW f \in 1 .. g, NEW h \in 1 .. g, NEW n \in Index, NEW o \in Index,
                        d[f] # 4, d[h] # 4, Present \in S[f][n].bits, Present \in S[h][o].bits,
                        S[f][n].phys = S[h][o].phys
                 PROVE  n = o /\ (f = h \/ (d[f] = 1 /\ d[h] = 1 /\ n \in High))
      BY DEF EnteredOnce
    <2>1. PICK x \in 1 .. V : /\ depth[x] # 4 /\ S[f][n] = tables[x][n] /\ depth[x] = d[f]
                              /\ x = f \/ (d[f] = 1 /\ n \in High)
      BY <1>11
    <2>2. PICK y \in 1 .. V : /\ depth[y] # 4 /\ S[h][o] = tables[y][o] /\ depth[y] = d[h]
                              /\ y = h \/ (d[h] = 1 /\ o \in High)
      BY <1>11
    <2>3. n = o /\ (x = y \/ (depth[x] = 1 /\ depth[y] = 1 /\ n \in High))
      BY <1>1, <1>3, <2>1, <2>2 DEF EnteredOnce
    <2>4. QED
      BY <2>1, <2>2, <2>3
  <1>13. Trees(S, g, d) /\ d[g] = 1 /\ \A f \in 1 .. V : d[f] = depth[f]
    BY <1>6, <1>10, <1>12 DEF Trees
  <1>14. Agree(S, tables, used)
    BY <1>3, <1>7 DEF Agree
  <1>15. \A t \in 1 .. used, v \in Virts : depth[t] = 1 => Shown(S, t, v) = Shown(tables, t, v)
    BY <1>1, <1>14, SameTablesShow
  <1>16. \E e : Trees(S, g, e) /\ e[g] = 1 /\ \A f \in 1 .. V : e[f] = depth[f]
    BY <1>13
  <1>17. \E e : Trees(S, used + 1, e) /\ e[used + 1] = 1 /\ \A f \in 1 .. used : e[f] = depth[f]
    BY <1>3, <1>16
  <1>18. used + 1 \in Frame /\ used \in Nat /\ S[used + 1] = Z
    BY <1>3, <1>4, <1>7
  <1>19. QED
    BY <1>14, <1>15, <1>17, <1>18

-----------------------------------------------------------------------------
(* The invariant. *)

\* The maps and the processor have tables of the first level, each map its own.
Rooted(depth) ==
    /\ Trees(tables, used, depth)
    /\ \A m \in Maps : top[m] # NULL => top[m] \in 1 .. used /\ depth[top[m]] = 1
    /\ cr3 # NULL => cr3 \in 1 .. used /\ depth[cr3] = 1

Placed == \E depth : Rooted(depth)

Apart == \A m, n \in Maps : top[m] # NULL /\ top[m] = top[n] => m = n

\* What is there at each point of vmm_init.
Loading ==
    /\ phase \in {"off", "failed"} => \A m \in Maps : top[m] = NULL
    /\ phase \in {"share", "map"} => top[Kernel] # NULL /\ \A m \in Maps \ {Kernel} : top[m] = NULL
    /\ phase = "up" => top[Kernel] # NULL /\ cr3 # NULL
    /\ phase # "up" => cr3 = NULL /\ tlb = [v \in Virts |-> Zero]
    /\ phase = "share" => at \in High
    /\ phase = "map" => at \in 1 .. Len(InitMaps) + 1

\* The slots of the higher half have their tables, and then never lose them.
Entered(t, n) == Present \in tables[t][n].bits
SlotsMade ==
    shared =>
        /\ phase = "share" => \A n \in UserSlots .. at - 1 : Entered(top[Kernel], n)
        /\ phase \in {"map", "up"} => \A n \in High : Entered(top[Kernel], n)
        /\ phase = "up" => SameHighSlots

\* What the processor has cached.
CachedAt(v) ==
    tlb[v] # Zero => /\ v \in Touched /\ Present \in tlb[v].bits
                     /\ v \notin remapped => tlb[v] = Shown(tables, cr3, v)
Cached == \A v \in Virts : CachedAt(v)

\* What vmm_init has mapped.
Boots(v) == {Zero} \cup {[phys |-> InitMaps[k].phys, bits |-> KernelBits] :
                            k \in {j \in DOMAIN InitMaps : InitMaps[j].virt = v}}
Booted == phase \in {"share", "map"} => \A v \in Virts : Shown(tables, top[Kernel], v) \in Boots(v)

IInv == TypeOK /\ Placed /\ Apart /\ Loading /\ SlotsMade /\ Cached /\ Booted

LEMMA Starts == Init => IInv
  <1> SUFFICES ASSUME Init PROVE IInv
    OBVIOUS
  <1>1. /\ tables = [f \in Frame |-> ZeroTable] /\ used = 0 /\ top = [m \in Maps |-> NULL] /\ cr3 = NULL
        /\ tlb = [v \in Virts |-> Zero] /\ phase = "off" /\ at = 0 /\ maps = 0
        /\ shared = TRUE /\ remapped = {} /\ halted = FALSE
    BY DEF Init
  <1>2. TypeOK
    <2>1. tables \in [Frame -> [Index -> Entry]] /\ tlb \in [Virts -> Entry]
      BY <1>1, Sizes
    <2>2. used \in 0 .. Frames /\ top \in [Maps -> 0 .. used] /\ cr3 \in 0 .. used
      BY <1>1, Sizes DEF NULL
    <2>3. at \in 0 .. Fanout + Len(InitMaps) /\ maps \in 0 .. MaxMaps
      BY <1>1, Sizes
    <2>4. QED
      BY <1>1, <2>1, <2>2, <2>3 DEF TypeOK
  <1>3. Placed
    <2> DEFINE depth == [f \in Frame |-> 1]
    <2>1. depth \in [Frame -> 1 .. 4] /\ \A f : f \notin 1 .. used
      BY <1>1
    <2>2. Trees(tables, used, depth)
      BY <1>2, <2>1 DEF Trees, Forest, EnteredOnce, TypeOK
    <2>3. Rooted(depth)
      BY <1>1, <2>2 DEF Rooted
    <2>4. QED
      BY <2>3 DEF Placed
  <1>4. Apart /\ Loading /\ SlotsMade /\ Booted
    BY <1>1 DEF Apart, Loading, SlotsMade, Booted
  <1>5. Cached
    BY <1>1 DEF Cached, CachedAt
  <1>6. QED
    BY <1>2, <1>3, <1>4, <1>5 DEF IInv

LEMMA ShownLeaf ==
    ASSUME NEW T, NEW U, NEW depth, Trees(T, U, depth), NEW t \in 1 .. U, depth[t] = 1, NEW v \in Virts
    PROVE  Shown(T, t, v) \in LeafEntries /\ Shown(T, t, v) \in Entry
  <1>1. Forest(T, U, depth) /\ 4 \in 1 .. 4
    BY DEF Trees
  <1>2. PICK f : f = Node(T, 4, t, v)
    OBVIOUS
  <1>3. f = NULL \/ (f \in 1 .. U /\ depth[f] = 4)
    BY <1>1, <1>2, NodesPlaced
  <1>4. v[4] \in Index
    BY VirtTypes
  <1>5. f = NULL \/ T[f][v[4]] \in LeafEntries
    BY <1>1, <1>3, <1>4 DEF Forest
  <1>6. Shown(T, t, v) \in LeafEntries
    BY <1>2, <1>5, Sizes DEF Shown
  <1>7. QED
    BY <1>6, Sizes

\* The calls that make tables or store an entry.
LEMMA EditKeeps ==
    ASSUME NEW depth, Rooted(depth), TypeOK, NEW t, NEW v, NEW E, NEW d,
           Edited(tables', used', d, depth, t, v, E), UNCHANGED <<top, cr3>>
    PROVE  /\ Rooted(d)' /\ Placed'
           /\ tables' \in [Frame -> [Index -> Entry]] /\ used' \in 0 .. Frames
           /\ top' \in [Maps -> 0 .. used'] /\ cr3' \in 0 .. used'
           /\ \A m \in Maps, n \in Index :
                 top[m] # NULL /\ Entered(top[m], n) => tables'[top[m]][n] = tables[top[m]][n]
  <1>1. /\ Trees(tables', used', d) /\ used <= used' /\ \A f \in 1 .. used : d[f] = depth[f]
        /\ \A r \in 1 .. used, n \in Index :
              depth[r] = 1 => tables'[r][n] = tables[r][n] \/ Present \notin tables[r][n].bits
    BY DEF Edited
  <1>2. tables' \in [Frame -> [Index -> Entry]] /\ used' \in 0 .. Frames
    BY <1>1 DEF Trees, Forest
  <1>3. /\ used \in 0 .. Frames /\ top \in [Maps -> 0 .. used] /\ cr3 \in 0 .. used
        /\ top' = top /\ cr3' = cr3 /\ Frames \in Nat
    BY Sizes DEF TypeOK
  <1>4. \A f : (f \in 1 .. used => f \in 1 .. used') /\ (f \in 0 .. used => f \in 0 .. used')
    BY <1>1, <1>2, <1>3
  <1>5. top' \in [Maps -> 0 .. used'] /\ cr3' \in 0 .. used'
    BY <1>3, <1>4
  <1>6. Rooted(d)'
    BY <1>1, <1>3, <1>4 DEF Rooted
  <1>7. Placed'
    BY <1>6 DEF Placed
  <1>8. ASSUME NEW m \in Maps, NEW n \in Index, top[m] # NULL, Entered(top[m], n)
        PROVE  tables'[top[m]][n] = tables[top[m]][n]
    BY <1>1, <1>8 DEF Rooted, Entered
  <1>9. QED
    BY <1>2, <1>5, <1>6, <1>7, <1>8

LEMMA EditKeepsSlots ==
    ASSUME NEW depth, Rooted(depth), TypeOK, Loading, SlotsMade, phase = "up",
           NEW t, NEW v, NEW E, NEW d,
           Edited(tables', used', d, depth, t, v, E), UNCHANGED <<top, cr3, phase, shared>>
    PROVE  SlotsMade'
  <1> SUFFICES ASSUME shared' PROVE (\A n \in High : Entered(top[Kernel], n)') /\ SameHighSlots'
    BY DEF SlotsMade
  <1>1. \A n \in High : Entered(top[Kernel], n)
    BY DEF SlotsMade
  <1>2. \A m \in Live, n \in High : tables[top[m]][n] = tables[top[Kernel]][n]
    BY DEF SlotsMade, SameHighSlots
  <1>3. top[Kernel] # NULL /\ Kernel \in Maps /\ High \subseteq Index
    BY Sizes DEF Loading
  <1>4. Live' = Live /\ top' = top
    BY DEF Live
  <1>5. ASSUME NEW m \in Live, NEW n \in High
        PROVE  tables'[top[m]][n] = tables'[top[Kernel]][n] /\ tables'[top[m]][n] = tables[top[m]][n]
    <2>1. m \in Maps /\ top[m] # NULL /\ n \in Index
      BY <1>3 DEF Live
    <2>2. Entered(top[m], n) /\ Entered(top[Kernel], n)
      BY <1>1, <1>2 DEF Entered
    <2>3. tables'[top[m]][n] = tables[top[m]][n]
      BY <2>1, <2>2, EditKeeps
    <2>4. tables'[top[Kernel]][n] = tables[top[Kernel]][n]
      BY <1>3, <2>1, <2>2, EditKeeps
    <2>5. QED
      BY <1>2, <2>3, <2>4
  <1>6. Kernel \in Live
    BY <1>3 DEF Live
  <1>7. QED
    BY <1>1, <1>4, <1>5, <1>6 DEF SameHighSlots, Entered

LEMMA EditKeepsCache ==
    ASSUME NEW depth, Rooted(depth), TypeOK, Cached, cr3 # NULL,
           NEW m \in Maps, top[m] # NULL, NEW v \in Virts, NEW E, NEW d,
           Edited(tables', used', d, depth, top[m], v, E), UNCHANGED <<top, cr3>>,
           \/ E = {} /\ UNCHANGED <<tlb, remapped>>
           \/ tlb' = tlb /\ remapped' = remapped \cup MayGoStale(m, v)
           \/ Flush(m, v)
    PROVE  Cached' /\ tlb' \in [Virts -> Entry] /\ remapped' \in SUBSET Virts
  <1>1. /\ cr3 \in 1 .. used /\ depth[cr3] = 1 /\ cr3' = cr3
        /\ tlb \in [Virts -> Entry] /\ remapped \in SUBSET Virts /\ Zero \in Entry
    BY Sizes DEF TypeOK, Rooted
  <1>2. MayGoStale(m, v) \in SUBSET Virts
    BY DEF MayGoStale
  <1>3. tlb' \in [Virts -> Entry] /\ remapped' \in SUBSET Virts
    BY <1>1, <1>2 DEF Flush
  <1>4. ASSUME NEW u \in Virts PROVE CachedAt(u)'
    <2> SUFFICES ASSUME tlb'[u] # Zero
                 PROVE  /\ u \in Touched /\ Present \in tlb'[u].bits
                        /\ u \notin remapped' => tlb'[u] = Shown(tables', cr3', u)
      BY DEF CachedAt
    <2>1. tlb'[u] = tlb[u]
      BY <1>1 DEF Flush
    <2>2. u \in Touched /\ Present \in tlb[u].bits /\ (u \notin remapped => tlb[u] = Shown(tables, cr3, u))
      BY <2>1 DEF Cached, CachedAt
    <2>3. ASSUME u \notin remapped' PROVE tlb[u] = Shown(tables', cr3, u)
      <3>1. \/ Shown(tables', cr3, u) = Shown(tables, cr3, u)
            \/ /\ u = v /\ (cr3 = top[m] \/ v[1] \in High) /\ Shown(tables', cr3, u) \in E
               /\ Shown(tables, cr3, u) = Zero \/ Shown(tables, cr3, u) = Shown(tables, top[m], u)
        BY <1>1 DEF Edited
      <3>2. u # v => u \notin remapped
        BY <2>3 DEF Flush
      <3>3. CASE u # v
        BY <2>2, <3>1, <3>2, <3>3
      <3>4. CASE u = v
        <4>1. ~(Flush(m, v) /\ cr3 = top[m])
          BY <1>1, <2>1, <3>4 DEF Flush
        <4>2. CASE E = {} /\ remapped' = remapped
          BY <2>2, <2>3, <3>1, <4>2
        <4>3. CASE remapped' = remapped \cup MayGoStale(m, v)
          <5>1. u \notin remapped /\ v \notin MayGoStale(m, v)
            BY <2>3, <3>4, <4>3
          <5>2. tlb[u] = Shown(tables, cr3, u)
            BY <2>2, <5>1
          <5>3. Walk(top[m], v) = Shown(tables, top[m], v)
            BY WalkShown
          <5>4. v[1] \in High => v \in HighVirts
            BY DEF HighVirts
          <5>5. (cr3 = top[m] \/ v[1] \in High) => Present \notin Shown(tables, top[m], v).bits
            BY <2>2, <3>4, <5>1, <5>3, <5>4 DEF MayGoStale
          <5>6. QED
            BY <2>1, <2>2, <3>1, <3>4, <5>2, <5>5
        <4>4. QED
          BY <4>1, <4>2, <4>3 DEF Flush
      <3>5. QED
        BY <3>3, <3>4
    <2>4. QED
      BY <1>1, <2>1, <2>2, <2>3
  <1>5. QED
    BY <1>3, <1>4 DEF Cached

-----------------------------------------------------------------------------
(* What of the tables AddressSpace shows. *)

Alive == IF InUse THEN Live ELSE {}
View == [m \in Maps |-> [v \in Virts |-> IF InUse /\ m \in Live THEN Walk(top[m], v) ELSE Zero]]
SpaceStep == Space!Next \/ (Alive' = Alive /\ View' = View)

LEMMA ViewAt ==
    /\ View = [m \in Maps |-> [v \in Virts |->
                  IF InUse /\ m \in Live THEN Shown(tables, top[m], v) ELSE Zero]]
    /\ View' = [m \in Maps |-> [v \in Virts |->
                  IF InUse' /\ m \in Live' THEN Shown(tables', top'[m], v) ELSE Zero]]
  <1>1. \A m, v : Walk(top[m], v) = Shown(tables, top[m], v)
    BY WalkShown
  <1>2. \A m, v : Walk(top[m], v)' = Shown(tables', top'[m], v)
    BY DEF Walk, Pml1, get_next_level, Shown, Node, Below
  <1>3. QED
    BY <1>1, <1>2 DEF View

\* Nothing shows while the higher half is not shared.
LEMMA UnsharedHidden ==
    ASSUME ~shared, UNCHANGED shared
    PROVE  SpaceStep
  <1>1. ~InUse /\ ~InUse'
    BY DEF InUse
  <1>2. QED
    BY <1>1, ViewAt DEF SpaceStep, Alive

\* An entry changes in the map of the call, or in all of them.
LEMMA EditShows ==
    ASSUME TypeOK, Apart, NEW depth, Rooted(depth), phase = "up", NEW m \in Maps, top[m] # NULL,
           NEW v \in Virts, NEW E, NEW d, Edited(tables', used', d, depth, top[m], v, E),
           UNCHANGED <<top, cr3, phase, shared>>, SlotsMade'
    PROVE  SpaceStep
  <1>1. CASE ~shared
    BY <1>1, UnsharedHidden
  <1>2. CASE shared
    <2>1. InUse /\ InUse' /\ Live' = Live /\ m \in Live /\ top' = top /\ shared' /\ phase' = "up"
      BY <1>2 DEF InUse, Live
    <2>2. Alive = Live /\ Alive' = Live
      BY <2>1 DEF Alive
    <2>3. ASSUME NEW n \in Live
          PROVE  /\ n \in Maps /\ top[n] \in 1 .. used /\ depth[top[n]] = 1 /\ top[n] # NULL
                 /\ \A u \in Virts : View[n][u] = Shown(tables, top[n], u)
                                     /\ View'[n][u] = Shown(tables', top[n], u)
      <3>1. n \in Maps /\ top[n] # NULL
        BY DEF Live
      <3>2. QED
        BY <2>1, <3>1, ViewAt DEF Rooted
    <2>4. \A n \in Maps \ Live, u \in Virts : View[n][u] = Zero /\ View'[n][u] = Zero
      BY <2>1, ViewAt
    <2>5. Trees(tables', used', d) /\ top[m] \in 1 .. used' /\ d[top[m]] = 1
      BY <2>1, EditKeeps DEF Rooted
    <2>6. Shown(tables', top[m], v) \in Entry
      BY <2>5, ShownLeaf
    <2>7. ASSUME NEW n \in Live, NEW u \in Virts
          PROVE  Shown(tables', top[n], u) =
                    IF u = v /\ (n = m \/ v \in HighVirts) THEN Shown(tables', top[m], v)
                    ELSE Shown(tables, top[n], u)
      <3>1. \/ Shown(tables', top[n], u) = Shown(tables, top[n], u)
            \/ u = v /\ (top[n] = top[m] \/ v[1] \in High)
        BY <2>3 DEF Edited
      <3>2. v[1] \in High <=> v \in HighVirts
        BY DEF HighVirts
      <3>3. top[n] = top[m] => n = m
        BY <2>3 DEF Apart
      <3>4. CASE u = v /\ n # m /\ v \in HighVirts
        <4>1. Kernel \in Maps /\ v[1] \in High
          BY <3>2, <3>4, Sizes
        <4>2. tables'[top[n]][v[1]] = tables'[top[m]][v[1]]
          BY <2>1, <4>1 DEF SlotsMade, SameHighSlots
        <4>3. top[n] # NULL /\ top[m] # NULL
          BY <2>3
        <4>4. Shown(tables', top[n], v) = Shown(tables', top[m], v)
          BY <4>2, <4>3, SameSlotSamePath
        <4>5. QED
          BY <3>4, <4>4
      <3>5. QED
        BY <3>1, <3>2, <3>3, <3>4
    <2>8. PICK e : e = Shown(tables', top[m], v)
      OBVIOUS
    <2>9. View'[m][v] = e /\ e \in Entry
      BY <2>1, <2>3, <2>6, <2>8
    <2>10. ASSUME NEW n \in Maps
           PROVE  View'[n] = IF n = m \/ (v \in HighVirts /\ n \in Live)
                               THEN [View[n] EXCEPT ![v] = e] ELSE View[n]
      <3>1. /\ View[n] = [u \in Virts |-> View[n][u]]
            /\ View'[n] = [u \in Virts |-> View'[n][u]]
        BY ViewAt
      <3>2. ASSUME NEW u \in Virts
            PROVE  View'[n][u] = IF u = v /\ (n = m \/ (v \in HighVirts /\ n \in Live))
                                   THEN e ELSE View[n][u]
        BY <2>1, <2>3, <2>4, <2>7, <2>8
      <3>3. QED
        BY <3>1, <3>2
    <2>11. View' = [n \in Maps |-> IF n = m \/ (v \in HighVirts /\ n \in Live)
                                     THEN [View[n] EXCEPT ![v] = e] ELSE View[n]]
      <3>1. View' = [n \in Maps |-> View'[n]]
        BY ViewAt
      <3>2. QED
        BY <2>10, <3>1
    <2>12. Space!Change(m, v)
      <3>1. m \in Alive /\ View'[m][v] \in Entry /\ Alive' = Alive
        BY <2>1, <2>2, <2>9
      <3>2. View' = [n \in Maps |-> IF n = m \/ (v \in HighVirts /\ n \in Alive)
                                      THEN [View[n] EXCEPT ![v] = View'[m][v]] ELSE View[n]]
        BY <2>2, <2>9, <2>11
      <3>3. QED
        BY <3>1, <3>2 DEF Space!Change, Alive, View
    <2>13. QED
      BY <2>12 DEF SpaceStep, Space!Next
  <1>3. QED
    BY <1>1, <1>2

-----------------------------------------------------------------------------
(* The actions. *)

LEMMA CallKept ==
    ASSUME IInv, NEW m \in Maps, Ready(m), NEW v \in Virts, NEW depth, Rooted(depth), NEW E, NEW d,
           Edited(tables', used', d, depth, top[m], v, E),
           \/ E = {} /\ UNCHANGED <<tlb, remapped>>
           \/ tlb' = tlb /\ remapped' = remapped \cup MayGoStale(m, v)
           \/ Flush(m, v),
           halted' \in BOOLEAN, UNCHANGED <<top, cr3, phase, at, maps, shared>>
    PROVE  IInv' /\ SpaceStep
  <1>1. /\ TypeOK /\ Apart /\ Loading /\ SlotsMade /\ Cached /\ Booted
        /\ phase = "up" /\ top[m] # NULL /\ cr3 # NULL
    BY DEF IInv, Ready, Loading
  <1>2. /\ tables' \in [Frame -> [Index -> Entry]] /\ used' \in 0 .. Frames
        /\ top' \in [Maps -> 0 .. used'] /\ cr3' \in 0 .. used' /\ Placed'
    BY <1>1, EditKeeps
  <1>3. Cached' /\ tlb' \in [Virts -> Entry] /\ remapped' \in SUBSET Virts
    BY <1>1, EditKeepsCache
  <1>4. TypeOK'
    BY <1>1, <1>2, <1>3 DEF TypeOK
  <1>5. SlotsMade'
    BY <1>1, EditKeepsSlots
  <1>6. Apart' /\ Loading' /\ Booted'
    BY <1>1 DEF Apart, Loading, Booted
  <1>7. SpaceStep
    BY <1>1, <1>5, EditShows
  <1>8. QED
    BY <1>2, <1>3, <1>4, <1>5, <1>6, <1>7 DEF IInv

LEMMA MapPage ==
    ASSUME IInv, NEW m \in Maps, NEW v \in Virts, NEW p \in Phys, NEW flags \in Flags,
           map_page(m, v, p, flags)
    PROVE  IInv' /\ SpaceStep
  <1>1. PICK e : e = [phys |-> p, bits |-> flags] /\ e \in LeafEntries
    <2>1. p \in Phys \cup {0} /\ flags \in Flags \cup {{}, KernelBits}
      OBVIOUS
    <2>2. [phys |-> p, bits |-> flags] \in LeafEntries
      BY <2>1 DEF LeafEntries
    <2>3. QED
      BY <2>2
  <1>2. PICK k \in Supply(3) : /\ tables' = Store(Descend(m, v, k), v, e)
                               /\ used' = Descend(m, v, k).used
    BY <1>1 DEF map_page
  <1>3. PICK depth : Rooted(depth)
    BY DEF IInv, Placed
  <1>4. Ready(m) /\ top[m] \in 1 .. used /\ depth[top[m]] = 1 /\ Trees(tables, used, depth)
    BY <1>3 DEF map_page, Ready, Rooted
  <1>5. PICK w : w = Descend(m, v, k)
    OBVIOUS
  <1>6. \E d : Edited(Store(w, v, e), w.used, d, depth, top[m], v, IF w.at = NULL THEN {} ELSE {e})
    BY <1>1, <1>4, <1>5, CallEdits
  <1>7. PICK d, E : Edited(tables', used', d, depth, top[m], v, E)
    BY <1>2, <1>5, <1>6
  <1>8. /\ tlb' = tlb /\ remapped' = remapped \cup MayGoStale(m, v)
        /\ halted' \in BOOLEAN /\ UNCHANGED <<top, cr3, phase, at, maps, shared>>
    BY DEF map_page, IInv, TypeOK
  <1>9. QED
    BY <1>3, <1>4, <1>7, <1>8, CallKept

LEMMA FlagPage ==
    ASSUME IInv, NEW m \in Maps, NEW v \in Virts, NEW flags \in Flags, flag_page(m, v, flags)
    PROVE  IInv' /\ SpaceStep
  <1>1. PICK depth : Rooted(depth)
    BY DEF IInv, Placed
  <1>2. Ready(m) /\ top[m] \in 1 .. used /\ depth[top[m]] = 1 /\ Trees(tables, used, depth)
    BY <1>1 DEF flag_page, Ready, Rooted
  <1>3. PICK e : e = Flagged(Walk(top[m], v), flags) /\ e \in LeafEntries
    <2>1. Walk(top[m], v) \in LeafEntries
      BY <1>2, WalkShown, ShownLeaf
    <2>2. PICK x \in LeafEntries : x = Walk(top[m], v)
      BY <2>1
    <2>3. flags \in Flags \cup {{}, KernelBits}
      OBVIOUS
    <2>4. [x EXCEPT !.bits = flags] \in LeafEntries
      BY <2>2, <2>3 DEF LeafEntries
    <2>5. Flagged(Walk(top[m], v), flags) \in LeafEntries
      BY <2>2, <2>4 DEF Flagged
    <2>6. QED
      BY <2>5
  <1>4. PICK k \in Supply(3) :
            /\ tables' = Store(Descend(m, v, k), v, e)
            /\ used' = Descend(m, v, k).used
            /\ IF Descend(m, v, k).at = NULL THEN UNCHANGED <<tlb, remapped>> ELSE Flush(m, v)
    BY <1>3 DEF flag_page
  <1>5. PICK w : w = Descend(m, v, k)
    OBVIOUS
  <1>6. \E d : Edited(Store(w, v, e), w.used, d, depth, top[m], v, IF w.at = NULL THEN {} ELSE {e})
    BY <1>2, <1>3, <1>5, CallEdits
  <1>7. PICK d, E : /\ Edited(tables', used', d, depth, top[m], v, E)
                    /\ E = IF w.at = NULL THEN {} ELSE {e}
    BY <1>4, <1>5, <1>6
  <1>8. (E = {} /\ UNCHANGED <<tlb, remapped>>) \/ Flush(m, v)
    BY <1>4, <1>5, <1>7
  <1>9. halted' \in BOOLEAN /\ UNCHANGED <<top, cr3, phase, at, maps, shared>>
    BY DEF flag_page, IInv, TypeOK
  <1>10. QED
    BY <1>1, <1>2, <1>7, <1>8, <1>9, CallKept

LEMMA UnmapPage ==
    ASSUME IInv, NEW m \in Maps, NEW v \in Virts, unmap_page(m, v)
    PROVE  IInv' /\ SpaceStep
  <1>1. PICK depth : Rooted(depth)
    BY DEF IInv, Placed
  <1>2. Ready(m) /\ top[m] \in 1 .. used /\ depth[top[m]] = 1 /\ Trees(tables, used, depth)
    BY <1>1 DEF unmap_page, Ready, Rooted
  <1>3. halted' \in BOOLEAN /\ UNCHANGED <<used, top, cr3, phase, at, maps, shared>>
    BY DEF unmap_page, IInv, TypeOK
  <1>4. CASE Pml1(top[m], v) = NULL
    <2>1. UNCHANGED <<tables, used, top, cr3, tlb, phase, at, maps, shared, remapped>>
      BY <1>4 DEF unmap_page
    <2>2. IInv'
      BY <1>3, <2>1 DEF IInv, TypeOK, Placed, Rooted, Apart, Loading, SlotsMade, SameHighSlots, Live,
                        Entered, Cached, CachedAt, Booted, Boots
    <2>3. InUse' = InUse /\ Live' = Live
      BY <2>1 DEF InUse, Live
    <2>4. View' = View
      BY <2>1, <2>3, ViewAt
    <2>5. QED
      BY <2>2, <2>3, <2>4 DEF SpaceStep, Alive
  <1>5. CASE Pml1(top[m], v) # NULL
    <2>1. PICK t : t = top[m]
      OBVIOUS
    <2>2. Edited([tables EXCEPT ![Pml1(t, v)][v[4]] = Zero], used, depth, depth, t, v, {Zero})
      BY <1>2, <1>5, <2>1, ClearEdits
    <2>3. tables' = [tables EXCEPT ![Pml1(t, v)][v[4]] = Zero] /\ used' = used
      BY <1>3, <1>5, <2>1 DEF unmap_page
    <2>4. Edited(tables', used', depth, depth, top[m], v, {Zero})
      BY <2>1, <2>2, <2>3
    <2>5. Flush(m, v)
      BY <1>5 DEF unmap_page
    <2>6. QED
      BY <1>1, <1>2, <1>3, <2>4, <2>5, CallKept
  <1>6. QED
    BY <1>4, <1>5

\* No map is in use before vmm_init has ended.
LEMMA BootHidden ==
    ASSUME phase # "up", phase' # "up"
    PROVE  SpaceStep
  <1>1. ~InUse /\ ~InUse'
    BY DEF InUse, Live
  <1>2. QED
    BY <1>1, ViewAt DEF SpaceStep, Alive

LEMMA SameHidden ==
    ASSUME UNCHANGED <<tables, top, phase, shared>>
    PROVE  SpaceStep
  <1>1. InUse' = InUse /\ Live' = Live
    BY DEF InUse, Live
  <1>2. View' = View
    BY <1>1, ViewAt
  <1>3. QED
    BY <1>1, <1>2 DEF SpaceStep, Alive

LEMMA EmptyCache == ASSUME tlb' = [v \in Virts |-> Zero] PROVE Cached' /\ tlb' \in [Virts -> Entry]
  BY Sizes DEF Cached, CachedAt

\* The first table of the kernel's map.
LEMMA VmmInit ==
    ASSUME IInv, vmm_init PROVE IInv' /\ SpaceStep
  <1>1. /\ TypeOK /\ Placed /\ Loading /\ phase = "off" /\ cr3 = NULL /\ tlb = [v \in Virts |-> Zero]
        /\ UNCHANGED <<cr3, tlb, maps, shared, remapped, halted>> /\ \A m \in Maps : top[m] = NULL
    BY DEF IInv, Loading, vmm_init
  <1>2. Cached' /\ tlb' \in [Virts -> Entry]
    BY <1>1, EmptyCache
  <1>3. phase' # "up"
    BY DEF vmm_init
  <1>4. SpaceStep
    BY <1>1, <1>3, BootHidden
  <1>5. CASE phase' = "failed" /\ UNCHANGED <<tables, used, top, at>>
    <2>1. TypeOK'
      BY <1>1, <1>2, <1>5 DEF TypeOK
    <2>2. Placed' /\ Apart' /\ Loading' /\ SlotsMade' /\ Booted'
      BY <1>1, <1>5 DEF Placed, Rooted, Apart, Loading, SlotsMade, Booted
    <2>3. QED
      BY <1>2, <1>4, <2>1, <2>2 DEF IInv
  <1>6. CASE /\ used < Frames /\ used' = used + 1 /\ tables' = [tables EXCEPT ![used'] = ZeroTable]
             /\ top' = [top EXCEPT ![Kernel] = used'] /\ phase' = "share" /\ at' = UserSlots
    <2>1. PICK depth : Trees(tables, used, depth)
      BY <1>1 DEF Placed, Rooted
    <2>2. PICK S : S = tables' /\ S = [tables EXCEPT ![used + 1] = ZeroTable]
      BY <1>6
    <2>3. PICK Z, r : Z = ZeroTable /\ TopLike(Z, r, depth) /\ \A n \in Index : Z[n] = Zero
      BY Sizes DEF TopLike
    <2>4. TopAdded(S, Z)
      BY <1>6, <2>2, <2>3, Sizes DEF TopAdded
    <2>5. /\ \E d : Trees(S, used + 1, d) /\ d[used + 1] = 1
          /\ used + 1 \in Frame /\ used \in Nat /\ S[used + 1] = Z
      BY <2>1, <2>3, <2>4, TopMade
    <2>6. PICK d : Trees(tables', used', d) /\ d[used'] = 1
      BY <1>6, <2>2, <2>5
    <2>7. used' \in 1 .. used' /\ used' # NULL /\ used' \in 0 .. Frames /\ used' \in Nat
      BY <1>6, <2>5, Sizes DEF NULL
    <2>8. top' = [m \in Maps |-> IF m = Kernel THEN used' ELSE NULL]
      BY <1>1, <1>6 DEF TypeOK
    <2>9. /\ top' \in [Maps -> 0 .. used'] /\ top'[Kernel] = used' /\ cr3' = NULL /\ cr3' \in 0 .. used'
          /\ \A m \in Maps \ {Kernel} : top'[m] = NULL
      BY <1>1, <2>7, <2>8, Sizes DEF NULL
    <2>10. Rooted(d)'
      BY <2>6, <2>7, <2>9 DEF Rooted
    <2>11. Placed' /\ Apart' /\ Loading'
      BY <1>1, <1>6, <2>7, <2>9, <2>10, Sizes DEF Placed, Apart, Loading
    <2>12. UserSlots \in 0 .. Fanout + Len(InitMaps) /\ \A n : n \notin UserSlots .. UserSlots - 1
      BY Sizes
    <2>13. SlotsMade'
      BY <1>6, <2>12 DEF SlotsMade
    <2>14. TypeOK'
      <3>1. tables' \in [Frame -> [Index -> Entry]]
        BY <2>6 DEF Trees, Forest
      <3>2. QED
        BY <1>1, <1>2, <1>6, <2>7, <2>9, <2>12, <3>1 DEF TypeOK
    <2>15. Booted'
      <3>1. ASSUME NEW v \in Virts PROVE Shown(tables', top'[Kernel], v) = Zero
        <4>1. v[1] \in Index
          BY VirtTypes
        <4>2. Present \notin tables'[used'][v[1]].bits
          BY <1>6, <2>2, <2>3, <2>5, <4>1, Sizes
        <4>3. Node(tables', 4, used', v) = NULL
          BY <4>2 DEF Node, Below
        <4>4. QED
          BY <2>9, <4>3 DEF Shown
      <3>2. QED
        BY <3>1 DEF Booted, Boots
    <2>16. QED
      BY <1>2, <1>4, <2>11, <2>13, <2>14, <2>15 DEF IInv
  <1>7. QED
    BY <1>5, <1>6 DEF vmm_init

\* The loop over the higher half.
LEMMA SlotShared ==
    ASSUME IInv, ShareSlot PROVE IInv' /\ SpaceStep
  <1>1. /\ TypeOK /\ Apart /\ Loading /\ SlotsMade /\ Booted /\ phase = "share" /\ at \in High
        /\ cr3 = NULL /\ tlb = [v \in Virts |-> Zero] /\ Kernel \in Maps /\ top[Kernel] # NULL
        /\ \A m \in Maps \ {Kernel} : top[m] = NULL
        /\ UNCHANGED <<top, cr3, tlb, maps, remapped, halted>> /\ at \in Index /\ shared \in BOOLEAN
    BY Sizes DEF IInv, Loading, ShareSlot, TypeOK
  <1>2. PICK k \in Supply(1) : /\ tables' = Slot(at, k).tables /\ used' = Slot(at, k).used
                               /\ shared' = (shared /\ Slot(at, k).at # NULL)
    BY DEF ShareSlot
  <1>3. PICK depth : Rooted(depth)
    BY DEF IInv, Placed
  <1>4. PICK t : t = top[Kernel] /\ t \in 1 .. used /\ depth[t] = 1 /\ Trees(tables, used, depth) /\ t # NULL
    BY <1>1, <1>3 DEF Rooted
  <1>5. PICK w, i : i = at /\ i \in Index /\ w = Down(Start(t, k), i)
    BY <1>1
  <1>6. w = Slot(at, k)
    BY <1>4, <1>5 DEF Slot
  <1>7. k \in Nat /\ k <= Frames - used
    BY DEF Supply
  <1>8. /\ \E d : Trees(w.tables, w.used, d) /\ Grows(tables, used, depth, w.tables, w.used, d)
        /\ w.at = NULL \/ w.at = Below(w.tables, t, i)
    BY <1>4, <1>5, <1>7, SlotOpens
  <1>9. PICK d : Trees(tables', used', d) /\ Grows(tables, used, depth, tables', used', d)
    BY <1>2, <1>6, <1>8
  <1>10. PICK v : Edited(tables', used', d, depth, t, v, {})
    BY <1>4, <1>9, GrowsEdits
  <1>11. /\ tables' \in [Frame -> [Index -> Entry]] /\ used' \in 0 .. Frames
         /\ top' \in [Maps -> 0 .. used'] /\ cr3' \in 0 .. used' /\ Placed'
         /\ \A n \in Index : Entered(t, n) => tables'[t][n] = tables[t][n]
    BY <1>1, <1>3, <1>4, <1>10, EditKeeps
  <1>12. Cached' /\ tlb' \in [Virts -> Entry]
    BY <1>1, EmptyCache
  <1>13. shared' => shared /\ Present \in tables'[t][i].bits
    <2>1. ASSUME shared' PROVE Present \in tables'[t][i].bits
      <3>1. w.at # NULL /\ w.tables = tables'
        BY <1>2, <1>6, <2>1
      <3>2. QED
        BY <1>8, <3>1 DEF Below
    <2>2. QED
      BY <1>2, <2>1
  <1>14. ASSUME shared', NEW n \in High, n <= i PROVE Present \in tables'[t][n].bits
    <2>1. CASE n = i
      BY <1>13, <1>14, <2>1
    <2>2. CASE n # i
      <3>1. n \in UserSlots .. at - 1 /\ n \in Index
        BY <1>1, <1>5, <1>14, <2>2, Sizes
      <3>2. Entered(t, n)
        BY <1>1, <1>4, <1>13, <1>14, <3>1 DEF SlotsMade
      <3>3. QED
        BY <1>11, <3>1, <3>2 DEF Entered
    <2>3. QED
      BY <2>1, <2>2
  <1>15. \/ at + 1 < Fanout /\ at' = at + 1 /\ phase' = "share"
         \/ at + 1 = Fanout /\ at' = 1 /\ phase' = "map"
    BY <1>1, Sizes DEF ShareSlot
  <1>16. SlotsMade'
    <2>1. ASSUME shared', phase' = "share", NEW n \in UserSlots .. at' - 1
          PROVE  Present \in tables'[t][n].bits
      <3>1. n \in High /\ n <= i
        BY <1>1, <1>5, <1>15, <2>1, Sizes
      <3>2. QED
        BY <1>14, <2>1, <3>1
    <2>2. ASSUME shared', phase' = "map", NEW n \in High PROVE Present \in tables'[t][n].bits
      <3>1. n <= i
        BY <1>1, <1>5, <1>15, <2>2, Sizes
      <3>2. QED
        BY <1>14, <2>2, <3>1
    <2>3. top'[Kernel] = t /\ phase' # "up"
      BY <1>1, <1>4, <1>15
    <2>4. QED
      BY <2>1, <2>2, <2>3 DEF SlotsMade, Entered
  <1>17. at' \in 0 .. Fanout + Len(InitMaps) /\ Loading'
    <2>1. at' \in 0 .. Fanout + Len(InitMaps)
      BY <1>1, <1>15, Sizes
    <2>2. phase' = "share" => at' \in High
      BY <1>1, <1>15, Sizes
    <2>3. phase' = "map" => at' \in 1 .. Len(InitMaps) + 1
      BY <1>15, Sizes
    <2>4. QED
      BY <1>1, <1>15, <2>1, <2>2, <2>3 DEF Loading
  <1>18. shared' \in BOOLEAN
    BY <1>2
  <1>19. TypeOK'
    BY <1>1, <1>11, <1>12, <1>15, <1>17, <1>18 DEF TypeOK
  <1>20. Booted'
    <2>1. ASSUME NEW u \in Virts PROVE Shown(tables', t, u) = Shown(tables, t, u)
      BY <1>4, <1>10 DEF Edited
    <2>2. QED
      BY <1>1, <1>4, <1>15, <2>1 DEF Booted, Boots
  <1>21. Apart'
    BY <1>1 DEF Apart
  <1>22. SpaceStep
    BY <1>1, <1>15, BootHidden
  <1>23. QED
    BY <1>11, <1>12, <1>16, <1>17, <1>19, <1>20, <1>21, <1>22 DEF IInv

\* The loop over the pages of the kernel.
LEMMA PageMapped ==
    ASSUME IInv, MapNext PROVE IInv' /\ SpaceStep
  <1>1. /\ TypeOK /\ Apart /\ Loading /\ SlotsMade /\ Booted /\ phase = "map" /\ at \in 1 .. Len(InitMaps)
        /\ cr3 = NULL /\ tlb = [v \in Virts |-> Zero] /\ Kernel \in Maps /\ top[Kernel] # NULL
        /\ UNCHANGED <<top, cr3, tlb, phase, maps, shared, remapped, halted>> /\ at' = at + 1
    BY Sizes DEF IInv, Loading, MapNext
  <1>2. PICK v, e : /\ v \in Virts /\ e \in LeafEntries /\ v = InitMaps[at].virt
                    /\ e = [phys |-> InitMaps[at].phys, bits |-> KernelBits]
    <2>1. InitMaps[at].virt \in Virts /\ [phys |-> InitMaps[at].phys, bits |-> KernelBits] \in LeafEntries
      BY <1>1, Sizes
    <2>2. QED
      BY <2>1
  <1>3. PICK k \in Supply(3) : /\ tables' = Store(Descend(Kernel, v, k), v, e)
                               /\ used' = Descend(Kernel, v, k).used
    BY <1>2 DEF MapNext
  <1>4. PICK depth : Rooted(depth)
    BY DEF IInv, Placed
  <1>5. PICK t : t = top[Kernel] /\ t \in 1 .. used /\ depth[t] = 1 /\ Trees(tables, used, depth) /\ t # NULL
    BY <1>1, <1>4 DEF Rooted
  <1>6. PICK w : w = Descend(Kernel, v, k)
    OBVIOUS
  <1>7. \E d : Edited(Store(w, v, e), w.used, d, depth, top[Kernel], v, IF w.at = NULL THEN {} ELSE {e})
    BY <1>1, <1>2, <1>5, <1>6, CallEdits
  <1>8. PICK d, E : Edited(tables', used', d, depth, t, v, E) /\ E \subseteq {e}
    BY <1>3, <1>5, <1>6, <1>7
  <1>9. /\ tables' \in [Frame -> [Index -> Entry]] /\ used' \in 0 .. Frames
        /\ top' \in [Maps -> 0 .. used'] /\ cr3' \in 0 .. used' /\ Placed'
        /\ \A n \in Index : Entered(t, n) => tables'[t][n] = tables[t][n]
    BY <1>1, <1>4, <1>5, <1>8, EditKeeps
  <1>10. Cached' /\ tlb' \in [Virts -> Entry]
    BY <1>1, EmptyCache
  <1>11. at' \in 0 .. Fanout + Len(InitMaps) /\ at' \in 1 .. Len(InitMaps) + 1
    BY <1>1, Sizes
  <1>12. TypeOK'
    BY <1>1, <1>9, <1>10, <1>11 DEF TypeOK
  <1>13. Loading' /\ Apart'
    BY <1>1, <1>11 DEF Loading, Apart
  <1>14. SlotsMade'
    <2>1. ASSUME shared, NEW n \in High PROVE Present \in tables'[t][n].bits
      <3>1. n \in Index /\ Entered(t, n)
        BY <1>1, <1>5, <2>1, Sizes DEF SlotsMade
      <3>2. QED
        BY <1>9, <3>1 DEF Entered
    <2>2. QED
      BY <1>1, <1>5, <2>1 DEF SlotsMade, Entered
  <1>15. Booted'
    <2>1. e \in Boots(v)
      <3>1. at \in {j \in DOMAIN InitMaps : InitMaps[j].virt = v}
        BY <1>1, <1>2, Sizes
      <3>2. QED
        BY <1>2, <3>1 DEF Boots
    <2>2. ASSUME NEW u \in Virts PROVE Shown(tables', t, u) \in Boots(u)
      <3>1. \/ Shown(tables', t, u) = Shown(tables, t, u)
            \/ u = v /\ Shown(tables', t, u) \in E
        BY <1>5, <1>8 DEF Edited
      <3>2. Shown(tables, t, u) \in Boots(u)
        BY <1>1, <1>5 DEF Booted
      <3>3. QED
        BY <1>8, <2>1, <3>1, <3>2
    <2>3. QED
      BY <1>1, <1>5, <2>2 DEF Booted, Boots
  <1>16. SpaceStep
    BY <1>1, BootHidden
  <1>17. QED
    BY <1>9, <1>10, <1>12, <1>13, <1>14, <1>15, <1>16 DEF IInv

\* The end of vmm_init.
LEMMA KernelLoaded ==
    ASSUME IInv, SwitchToKernel PROVE IInv' /\ SpaceStep
  <1>1. /\ TypeOK /\ Apart /\ Loading /\ SlotsMade /\ Booted /\ phase = "map" /\ phase' = "up" /\ at' = 0
        /\ Kernel \in Maps /\ top[Kernel] # NULL /\ \A m \in Maps \ {Kernel} : top[m] = NULL
        /\ cr3' = top[Kernel] /\ tlb' = [v \in Virts |-> Zero] /\ remapped' = {}
        /\ UNCHANGED <<tables, used, top, maps, shared, halted>>
    BY Sizes DEF IInv, Loading, SwitchToKernel, Load
  <1>2. PICK depth : Rooted(depth)
    BY DEF IInv, Placed
  <1>3. Placed'
    <2>1. Rooted(depth)'
      BY <1>1, <1>2 DEF Rooted
    <2>2. QED
      BY <2>1 DEF Placed
  <1>4. Cached' /\ tlb' \in [Virts -> Entry]
    BY <1>1, EmptyCache
  <1>5. TypeOK'
    <2>1. 0 \in 0 .. Fanout + Len(InitMaps) /\ top[Kernel] \in 0 .. used
      BY <1>1, Sizes DEF TypeOK
    <2>2. QED
      BY <1>1, <1>4, <2>1 DEF TypeOK
  <1>6. Live' = {Kernel} /\ Live = {}
    BY <1>1 DEF Live
  <1>7. Apart' /\ Loading' /\ Booted'
    BY <1>1 DEF Apart, Loading, Booted
  <1>8. SlotsMade'
    BY <1>1, <1>6 DEF SlotsMade, SameHighSlots, Entered
  <1>9. SpaceStep
    <2>1. CASE ~shared
      BY <1>1, <2>1, UnsharedHidden
    <2>2. CASE shared
      <3>1. ~InUse /\ InUse' /\ Alive = {} /\ Alive' = {Kernel}
        BY <1>1, <1>6, <2>2 DEF InUse, Alive
      <3>2. View = [m \in Maps |-> [v \in Virts |-> Zero]]
        BY <3>1, ViewAt
      <3>3. View' = [m \in Maps |-> [v \in Virts |->
                       IF m = Kernel THEN Shown(tables, top[Kernel], v) ELSE Zero]]
        BY <1>1, <1>6, <3>1, ViewAt
      <3>4. \A v \in Virts : View'[Kernel][v] \in Boots(v)
        BY <1>1, <3>3 DEF Booted
      <3>5. View' = [View EXCEPT ![Kernel] = View'[Kernel]]
        <4>1. PICK x : x = View'[Kernel] /\ x = [v \in Virts |-> Shown(tables, top[Kernel], v)]
          BY <1>1, <3>3
        <4>2. \A m \in Maps : View'[m] = IF m = Kernel THEN x ELSE View[m]
          BY <3>2, <3>3, <4>1
        <4>3. View' = [m \in Maps |-> View'[m]] /\ View = [m \in Maps |-> View[m]]
          BY <3>2, <3>3
        <4>4. View' = [View EXCEPT ![Kernel] = x]
          BY <4>2, <4>3
        <4>5. QED
          BY <4>1, <4>4
      <3>6. Space!Boot
        BY <3>1, <3>4, <3>5 DEF Space!Boot, Alive, View, Boots
      <3>7. QED
        BY <3>6 DEF SpaceStep, Space!Next
    <2>3. QED
      BY <2>1, <2>2
  <1>10. QED
    BY <1>3, <1>4, <1>5, <1>7, <1>8, <1>9 DEF IInv

LEMMA MapLoaded ==
    ASSUME IInv, NEW m \in Maps, switch_to(m) PROVE IInv' /\ SpaceStep
  <1>1. /\ TypeOK /\ Apart /\ Loading /\ SlotsMade /\ phase = "up" /\ top[m] # NULL
        /\ cr3' = top[m] /\ tlb' = [v \in Virts |-> Zero] /\ remapped' = {}
        /\ UNCHANGED <<tables, used, top, phase, at, maps, shared, halted>>
    BY DEF IInv, switch_to, Ready, Load
  <1>2. PICK depth : Rooted(depth)
    BY DEF IInv, Placed
  <1>3. Placed'
    <2>1. Rooted(depth)'
      BY <1>1, <1>2 DEF Rooted
    <2>2. QED
      BY <2>1 DEF Placed
  <1>4. Cached' /\ tlb' \in [Virts -> Entry]
    BY <1>1, EmptyCache
  <1>5. TypeOK'
    BY <1>1, <1>4 DEF TypeOK
  <1>6. Live' = Live
    BY <1>1 DEF Live
  <1>7. Apart' /\ Loading' /\ Booted' /\ SlotsMade'
    BY <1>1, <1>6 DEF Apart, Loading, Booted, SlotsMade, SameHighSlots, Entered
  <1>8. SpaceStep
    BY <1>1, SameHidden
  <1>9. QED
    BY <1>3, <1>4, <1>5, <1>7, <1>8 DEF IInv

LEMMA EntryCached ==
    ASSUME IInv, NEW v \in Touched, Access(v) PROVE IInv' /\ SpaceStep
  <1>1. /\ TypeOK /\ Placed /\ Apart /\ Loading /\ SlotsMade /\ Cached /\ phase = "up"
        /\ Present \in Walk(cr3, v).bits /\ tlb' = [tlb EXCEPT ![v] = Walk(cr3, v)] /\ v \in Virts
        /\ UNCHANGED <<tables, used, top, cr3, phase, at, maps, shared, remapped, halted>>
        /\ tlb \in [Virts -> Entry] /\ cr3 # NULL
    BY Sizes DEF IInv, Loading, Access, TypeOK
  <1>2. PICK e : e = Walk(cr3, v) /\ e = Shown(tables, cr3, v)
    BY WalkShown
  <1>3. PICK depth : Rooted(depth)
    BY <1>1 DEF Placed
  <1>4. e \in Entry
    BY <1>1, <1>2, <1>3, ShownLeaf DEF Rooted
  <1>5. /\ tlb' = [tlb EXCEPT ![v] = e] /\ tlb' \in [Virts -> Entry]
        /\ \A u \in Virts : tlb'[u] = IF u = v THEN e ELSE tlb[u]
    BY <1>1, <1>2, <1>4
  <1>6. TypeOK'
    BY <1>1, <1>5 DEF TypeOK
  <1>7. Cached'
    <2>1. ASSUME NEW u \in Virts PROVE CachedAt(u)'
      BY <1>1, <1>2, <1>5 DEF Cached, CachedAt
    <2>2. QED
      BY <2>1 DEF Cached
  <1>8. Live' = Live
    BY <1>1 DEF Live
  <1>9. Placed' /\ Apart' /\ Loading' /\ Booted' /\ SlotsMade'
    BY <1>1, <1>8 DEF Placed, Rooted, Apart, Loading, Booted, SlotsMade, SameHighSlots, Entered
  <1>10. SpaceStep
    BY <1>1, SameHidden
  <1>11. QED
    BY <1>6, <1>7, <1>9, <1>10 DEF IInv

\* The new table has the kernel's higher half and nothing below it.
LEMMA TableCopied ==
    ASSUME IInv, new_pagemap, used < Frames, used' = used + 1,
           tables' = [tables EXCEPT ![used'] = CopyHigh(top[Kernel])],
           NEW depth, Rooted(depth)
    PROVE  /\ \E d : Trees(tables', used', d) /\ d[used'] = 1 /\ \A f \in 1 .. used : d[f] = depth[f]
           /\ used' \in 0 .. Frames /\ used' \in 1 .. used' /\ used' \notin 1 .. used /\ used' # NULL
           /\ \A f : f \in 0 .. used => f \in 0 .. used' /\ f # used'
           /\ Agree(tables', tables, used)
           /\ \A n \in High : tables'[used'][n] = tables[top[Kernel]][n]
           /\ \A t \in 1 .. used, v \in Virts : depth[t] = 1 => Shown(tables', t, v) = Shown(tables, t, v)
           /\ \A v \in Virts : Shown(tables', used', v) =
                 IF v \in HighVirts THEN Shown(tables, top[Kernel], v) ELSE Zero
  <1>1. PICK r : r = top[Kernel] /\ r # NULL /\ r \in 1 .. used /\ depth[r] = 1 /\ Trees(tables, used, depth)
    BY Sizes DEF IInv, Loading, new_pagemap, Rooted
  <1>2. PICK S, Z : /\ S = tables' /\ S = [tables EXCEPT ![used + 1] = Z] /\ Z = CopyHigh(r)
    BY <1>1
  <1>3. tables \in [Frame -> [Index -> Entry]] /\ used \in Nat /\ r \in Frame /\ Frames \in Nat
    <2>1. tables \in [Frame -> [Index -> Entry]] /\ used \in 0 .. Frames
      BY DEF IInv, TypeOK
    <2>2. QED
      BY <1>1, <2>1, Sizes
  <1>4. /\ Z \in [Index -> Entry]
        /\ \A n \in Index : Z[n] = IF n \in High THEN tables[r][n] ELSE Zero
    BY <1>2, <1>3, Sizes DEF CopyHigh
  <1>5. TopLike(Z, r, depth)
    BY <1>1, <1>4 DEF TopLike
  <1>6. TopAdded(S, Z)
    BY <1>2, <1>4 DEF TopAdded
  <1>7. /\ \E d : /\ Trees(S, used + 1, d) /\ d[used + 1] = 1
                  /\ \A f \in 1 .. used : d[f] = depth[f]
        /\ used + 1 \in Frame /\ used \in Nat /\ S[used + 1] = Z
        /\ Agree(S, tables, used)
        /\ \A t \in 1 .. used, v \in Virts : depth[t] = 1 => Shown(S, t, v) = Shown(tables, t, v)
    BY <1>1, <1>5, <1>6, TopMade
  <1>8. /\ \E d : Trees(tables', used', d) /\ d[used'] = 1 /\ \A f \in 1 .. used : d[f] = depth[f]
        /\ Agree(tables', tables, used) /\ tables'[used'] = Z
        /\ \A t \in 1 .. used, v \in Virts : depth[t] = 1 => Shown(tables', t, v) = Shown(tables, t, v)
    BY <1>2, <1>7
  <1>9. /\ used' \in 0 .. Frames /\ used' \in 1 .. used' /\ used' \notin 1 .. used /\ used' # NULL
        /\ \A f : f \in 0 .. used => f \in 0 .. used' /\ f # used'
    BY <1>3, Sizes DEF NULL
  <1>10. \A n \in High : tables'[used'][n] = tables[top[Kernel]][n]
    BY <1>1, <1>4, <1>8, Sizes
  <1>11. ASSUME NEW v \in Virts
         PROVE  Shown(tables', used', v) = IF v \in HighVirts THEN Shown(tables, top[Kernel], v) ELSE Zero
    <2>1. v[1] \in Index /\ (v \in HighVirts <=> v[1] \in High)
      BY VirtTypes DEF HighVirts
    <2>2. CASE v[1] \in High
      <3>1. PICK g, h, T : g = used' /\ h = top[Kernel] /\ T = tables'
        OBVIOUS
      <3>2. T[h][v[1]] = tables[h][v[1]]
        BY <1>1, <1>8, <2>1, <3>1 DEF Agree
      <3>3. T[g][v[1]] = T[h][v[1]]
        BY <1>10, <2>2, <3>1, <3>2
      <3>4. g # NULL /\ h # NULL
        BY <1>1, <1>9, <3>1
      <3>5. Shown(T, g, v) = Shown(T, h, v)
        BY <3>3, <3>4, SameSlotSamePath
      <3>6. Shown(tables', top[Kernel], v) = Shown(tables, top[Kernel], v)
        BY <1>1, <1>8
      <3>7. QED
        BY <2>1, <2>2, <3>1, <3>5, <3>6
    <2>3. CASE v[1] \notin High
      <3>1. Present \notin tables'[used'][v[1]].bits
        BY <1>4, <1>8, <2>1, <2>3, Sizes
      <3>2. Node(tables', 4, used', v) = NULL
        BY <3>1 DEF Node, Below
      <3>3. QED
        BY <2>1, <2>3, <3>2 DEF Shown
    <2>4. QED
      BY <2>2, <2>3
  <1>12. QED
    BY <1>8, <1>9, <1>10, <1>11

LEMMA MapMade ==
    ASSUME IInv, new_pagemap PROVE IInv' /\ SpaceStep
  <1>1. /\ TypeOK /\ Placed /\ Apart /\ Loading /\ SlotsMade /\ Cached /\ phase = "up" /\ maps' \in 0 .. MaxMaps
        /\ Kernel \in Maps /\ top[Kernel] # NULL /\ cr3 # NULL /\ halted' \in BOOLEAN
        /\ UNCHANGED <<cr3, tlb, phase, at, shared, remapped>>
    <2>1. maps' \in 0 .. MaxMaps
      <3>1. maps \in 0 .. MaxMaps /\ maps < MaxMaps /\ maps' = maps + 1
        BY DEF IInv, TypeOK, new_pagemap
      <3>2. QED
        BY <3>1, Sizes
    <2>2. halted' \in BOOLEAN
      BY DEF IInv, TypeOK, new_pagemap
    <2>3. QED
      BY <2>1, <2>2, Sizes DEF IInv, Loading, new_pagemap
  <1>2. CASE UNCHANGED <<tables, used, top>>
    <2>1. TypeOK'
      BY <1>1, <1>2 DEF TypeOK
    <2>2. Live' = Live
      BY <1>1, <1>2 DEF Live
    <2>3. Placed' /\ Apart' /\ Loading' /\ SlotsMade' /\ Cached' /\ Booted'
      BY <1>1, <1>2, <2>2 DEF Placed, Rooted, Apart, Loading, SlotsMade, SameHighSlots, Entered,
                              Cached, CachedAt, Booted
    <2>4. SpaceStep
      BY <1>1, <1>2, SameHidden
    <2>5. QED
      BY <2>1, <2>3, <2>4 DEF IInv
  <1>3. CASE /\ used < Frames /\ used' = used + 1
             /\ tables' = [tables EXCEPT ![used'] = CopyHigh(top[Kernel])]
             /\ \/ \E pa \in Maps : top' = [top EXCEPT ![pa] = used']
                \/ top' = top
    <2>1. PICK depth : Rooted(depth)
      BY <1>1 DEF Placed
    <2>2. /\ \E d : Trees(tables', used', d) /\ d[used'] = 1 /\ \A f \in 1 .. used : d[f] = depth[f]
          /\ used' \in 0 .. Frames /\ used' \in 1 .. used' /\ used' \notin 1 .. used /\ used' # NULL
          /\ \A f : f \in 0 .. used => f \in 0 .. used' /\ f # used'
          /\ Agree(tables', tables, used)
          /\ \A n \in High : tables'[used'][n] = tables[top[Kernel]][n]
          /\ \A t \in 1 .. used, v \in Virts : depth[t] = 1 => Shown(tables', t, v) = Shown(tables, t, v)
          /\ \A v \in Virts : Shown(tables', used', v) =
                IF v \in HighVirts THEN Shown(tables, top[Kernel], v) ELSE Zero
      BY <1>3, <2>1, TableCopied
    <2>3. PICK d : Trees(tables', used', d) /\ d[used'] = 1 /\ \A f \in 1 .. used : d[f] = depth[f]
      BY <2>2
    <2>4. PICK pa : /\ \A m \in Maps : top'[m] = IF m = pa THEN used' ELSE top[m]
                    /\ pa \in Maps => top' = [top EXCEPT ![pa] = used']
                    /\ pa \notin Maps => top' = top
      <3>1. top \in [Maps -> 0 .. used]
        BY <1>1 DEF TypeOK
      <3>2. CASE \E pa \in Maps : top' = [top EXCEPT ![pa] = used']
        BY <3>1, <3>2
      <3>3. CASE top' = top
        <4>1. PICK x : x \notin Maps
          BY NoSetContainsEverything
        <4>2. QED
          BY <3>3, <4>1
      <3>4. QED
        BY <1>3, <3>2, <3>3
    <2>5. /\ top' \in [Maps -> 0 .. used'] /\ cr3' \in 0 .. used'
          /\ \A m \in Maps : top[m] # NULL => top[m] \in 1 .. used /\ depth[top[m]] = 1
          /\ cr3 \in 1 .. used /\ depth[cr3] = 1
          /\ \A m \in Maps : top[m] # used'
      <3>1. top \in [Maps -> 0 .. used] /\ cr3 \in 0 .. used
        BY <1>1 DEF TypeOK
      <3>2. top' \in [Maps -> 0 .. used']
        BY <2>2, <2>4, <3>1
      <3>3. QED
        BY <1>1, <2>1, <2>2, <3>1, <3>2 DEF Rooted
    <2>6. TypeOK'
      <3>1. tables' \in [Frame -> [Index -> Entry]]
        BY <2>3 DEF Trees, Forest
      <3>2. QED
        BY <1>1, <2>2, <2>5, <3>1 DEF TypeOK
    <2>7. Placed'
      <3>1. \A f : f \in 1 .. used => f \in 1 .. used'
        BY <2>2
      <3>2. Rooted(d)'
        BY <1>1, <2>2, <2>3, <2>4, <2>5, <3>1 DEF Rooted
      <3>3. QED
        BY <3>2 DEF Placed
    <2>8. Apart'
      BY <1>1, <2>4, <2>5 DEF Apart
    <2>9. Loading' /\ Booted'
      BY <1>1, <2>2, <2>4 DEF Loading, Booted
    <2>10. ASSUME shared, NEW m \in Maps, top'[m] # NULL, NEW n \in High
           PROVE  tables'[top'[m]][n] = tables[top[Kernel]][n]
      <3>1. CASE m = pa
        BY <2>2, <2>4, <3>1
      <3>2. CASE m # pa
        <4>1. top'[m] = top[m] /\ top[m] \in 1 .. used /\ n \in Index /\ m \in Live
          BY <1>1, <2>4, <2>5, <2>10, <3>2, Sizes DEF Live
        <4>2. tables[top[m]][n] = tables[top[Kernel]][n]
          BY <1>1, <2>10, <4>1 DEF SlotsMade, SameHighSlots
        <4>3. QED
          BY <2>2, <4>1, <4>2 DEF Agree
      <3>3. QED
        BY <3>1, <3>2
    <2>11. top'[Kernel] # NULL
      BY <1>1, <2>2, <2>4
    <2>12. SlotsMade'
      <3>1. shared => \A n \in High : Entered(top[Kernel], n)
        BY <1>1 DEF SlotsMade
      <3>2. QED
        BY <1>1, <2>10, <2>11, <3>1 DEF SlotsMade, SameHighSlots, Live, Entered
    <2>13. Cached'
      BY <1>1, <2>2, <2>5 DEF Cached, CachedAt
    <2>14. SpaceStep
      <3>1. CASE ~shared
        BY <1>1, <3>1, UnsharedHidden
      <3>2. CASE shared
        <4>1. /\ InUse /\ InUse' /\ Kernel \in Live /\ Alive = Live /\ Alive' = Live'
              /\ Live' = IF pa \in Maps THEN Live \cup {pa} ELSE Live
          <5>1. Kernel \in Live /\ Kernel \in Live'
            BY <1>1, <2>11 DEF Live
          <5>2. Live' = IF pa \in Maps THEN Live \cup {pa} ELSE Live
            BY <1>1, <2>2, <2>4 DEF Live
          <5>3. QED
            BY <1>1, <3>2, <5>1, <5>2 DEF InUse, Alive
        <4>2. \A m \in Maps, v \in Virts :
                 /\ View[m][v] = IF m \in Live THEN Shown(tables, top[m], v) ELSE Zero
                 /\ View'[m][v] = IF m \in Live' THEN Shown(tables', top'[m], v) ELSE Zero
          BY <4>1, ViewAt
        <4>3. \A m \in Live : m \in Maps /\ top[m] # NULL
          BY DEF Live
        <4>4. PICK N : N = [v \in Virts |-> IF v \in HighVirts THEN View[Kernel][v] ELSE Zero]
          OBVIOUS
        <4>5. ASSUME NEW m \in Maps, NEW v \in Virts
              PROVE  View'[m][v] = IF m = pa THEN N[v] ELSE View[m][v]
          <5>1. CASE m = pa
            <6>1. m \in Live' /\ top'[m] = used'
              BY <2>4, <4>1, <5>1
            <6>2. View[Kernel][v] = Shown(tables, top[Kernel], v)
              BY <1>1, <4>1, <4>2
            <6>3. QED
              BY <2>2, <4>2, <4>4, <5>1, <6>1, <6>2
          <5>2. CASE m # pa
            <6>1. top'[m] = top[m] /\ (m \in Live' <=> m \in Live)
              BY <2>4, <4>1, <5>2
            <6>2. m \in Live => top[m] \in 1 .. used /\ depth[top[m]] = 1
              BY <2>5, <4>3
            <6>3. QED
              BY <2>2, <4>2, <5>2, <6>1, <6>2
          <5>3. QED
            BY <5>1, <5>2
        <4>6. ASSUME NEW m \in Maps PROVE View'[m] = IF m = pa THEN N ELSE View[m]
          <5>1. View'[m] = [v \in Virts |-> View'[m][v]] /\ View[m] = [v \in Virts |-> View[m][v]]
            BY ViewAt
          <5>2. QED
            BY <4>4, <4>5, <5>1
        <4>7. View' = [m \in Maps |-> View'[m]] /\ View = [m \in Maps |-> View[m]]
          BY ViewAt
        <4>8. CASE pa \in Maps
          <5>1. View' = [View EXCEPT ![pa] = N]
            BY <4>6, <4>7
          <5>2. Space!Create(pa)
            BY <4>1, <4>4, <4>8, <5>1 DEF Space!Create, Alive, View
          <5>3. QED
            BY <4>8, <5>2 DEF SpaceStep, Space!Next
        <4>9. CASE pa \notin Maps
          BY <4>1, <4>6, <4>7, <4>9 DEF SpaceStep
        <4>10. QED
          BY <4>8, <4>9
      <3>3. QED
        BY <3>1, <3>2
    <2>15. QED
      BY <2>6, <2>7, <2>8, <2>9, <2>12, <2>13, <2>14 DEF IInv
  <1>4. QED
    BY <1>2, <1>3 DEF new_pagemap

LEMMA StepKept ==
    ASSUME IInv, [Next]_vars PROVE IInv' /\ SpaceStep
  <1>1. CASE UNCHANGED vars
    <2>1. UNCHANGED <<tables, used, top, cr3, tlb, phase, at, maps, shared, remapped, halted>>
      BY <1>1 DEF vars
    <2>2. IInv'
      BY <2>1 DEF IInv, TypeOK, Placed, Rooted, Apart, Loading, SlotsMade, SameHighSlots, Live,
                  Entered, Cached, CachedAt, Booted, Boots
    <2>3. QED
      BY <2>1, <2>2, SameHidden
  <1>2. CASE vmm_init
    BY <1>2, VmmInit
  <1>3. CASE ShareSlot
    BY <1>3, SlotShared
  <1>4. CASE MapNext
    BY <1>4, PageMapped
  <1>5. CASE SwitchToKernel
    BY <1>5, KernelLoaded
  <1>6. CASE new_pagemap
    BY <1>6, MapMade
  <1>7. ASSUME NEW m \in Maps, switch_to(m) PROVE IInv' /\ SpaceStep
    BY <1>7, MapLoaded
  <1>8. ASSUME NEW m \in Maps, NEW v \in Virts, NEW p \in Phys, NEW flags \in Flags,
               map_page(m, v, p, flags)
        PROVE  IInv' /\ SpaceStep
    BY <1>8, MapPage
  <1>9. ASSUME NEW m \in Maps, NEW v \in Virts, unmap_page(m, v) PROVE IInv' /\ SpaceStep
    BY <1>9, UnmapPage
  <1>10. ASSUME NEW m \in Maps, NEW v \in Virts, NEW flags \in Flags, flag_page(m, v, flags)
         PROVE  IInv' /\ SpaceStep
    BY <1>10, FlagPage
  <1>11. ASSUME NEW v \in Touched, Access(v) PROVE IInv' /\ SpaceStep
    BY <1>11, EntryCached
  <1>12. QED
    BY <1>1, <1>2, <1>3, <1>4, <1>5, <1>6, <1>7, <1>8, <1>9, <1>10, <1>11 DEF Next

THEOREM VmmInvariant == Spec => []IInv
  <1>1. Init => IInv
    BY Starts
  <1>2. IInv /\ [Next]_vars => IInv'
    BY StepKept
  <1>3. QED
    BY <1>1, <1>2, PTL DEF Spec

\* Every variable keeps its type, the frames in use their bound.
THEOREM VmmTyping == Spec => []TypeOK
  <1>1. IInv => TypeOK
    BY DEF IInv
  <1>2. QED
    BY <1>1, VmmInvariant, PTL

\* All maps agree on the higher half for good if vmm_init found a table for
\* every slot of it: whatever map_page, flag_page and unmap_page then do to any
\* one map, also when memory runs out half way, and whichever map new_pagemap
\* writes over (vmm.c:42-45, 216-223).
THEOREM HigherHalfStaysShared == Spec => []HigherHalfShared
  <1>1. IInv => HigherHalfShared
    <2> SUFFICES ASSUME IInv, shared PROVE SameHighSlots
      BY DEF HigherHalfShared
    <2>1. CASE phase = "up"
      BY <2>1 DEF IInv, SlotsMade
    <2>2. CASE phase # "up"
      BY <2>2 DEF SameHighSlots, Live
    <2>3. QED
      BY <2>1, <2>2
  <1>2. QED
    BY <1>1, VmmInvariant, PTL

\* A cached translation is that of the loaded tables, but for addresses that
\* map_page replaced, or that a map not loaded changed in the shared half.
THEOREM CacheFollowsTables == Spec => []TlbCoherent
  <1>1. IInv => TlbCoherent
    <2> SUFFICES ASSUME IInv, NEW v \in Virts \ remapped, tlb[v] # Zero PROVE tlb[v] = Walk(cr3, v)
      BY DEF TlbCoherent
    <2>1. tlb[v] = Shown(tables, cr3, v)
      BY DEF IInv, Cached, CachedAt
    <2>2. QED
      BY <2>1, WalkShown
  <1>2. QED
    BY <1>1, VmmInvariant, PTL

\* Once the higher half is shared, the maps are the functions from addresses to
\* entries of AddressSpace: a call changes one address, in its map or in the
\* half that all share, and nothing that a failed call leaves behind shows.
THEOREM MapsAreFunctions == Spec => ImplementsAddressSpace
  <1>1. Init => Space!Init
    <2> SUFFICES ASSUME Init PROVE Space!Init
      OBVIOUS
    <2>1. ~InUse
      BY DEF Init, InUse, Live
    <2>2. QED
      BY <2>1 DEF Space!Init
  <1>2. IInv /\ [Next]_vars => [Space!Next]_(Space!vars)
    <2> SUFFICES ASSUME IInv, [Next]_vars PROVE [Space!Next]_(Space!vars)
      OBVIOUS
    <2>1. SpaceStep
      BY StepKept
    <2>2. QED
      BY <2>1 DEF SpaceStep, Space!vars, Alive, View
  <1>3. QED
    BY <1>1, <1>2, VmmInvariant, PTL DEF Spec, ImplementsAddressSpace, Space!Spec

=============================================================================

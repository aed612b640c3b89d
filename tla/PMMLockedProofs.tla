--------------------------- MODULE PMMLockedProofs ---------------------------
(***************************************************************************)
(* Theorems about the spinlock, KLock, for any set of callers and any loop *)
(* bound, and then about the page allocator that several CPUs run under    *)
(* it, PMMLocked, for any sizes that satisfy SizeAssumption.               *)
(***************************************************************************)
EXTENDS PMMLocked, FiniteSetTheorems, TLAPS

-----------------------------------------------------------------------------
\* The lock.

\* A caller is let in without the lock only by an acquire that gave up.
IntrudersGaveUp == \A c \in CPUs : pc[c] = "intruder" => gaveUp

\* The inductive invariant.  Exclusion needs FlagMeansHeld, since winning
\* tests the flag alone; the flag keeps its meaning because an intruder, whose
\* release clears a flag it does not own, exists only once gaveUp is set.
LockInv ==
    /\ LockTypeOK
    /\ IntrudersGaveUp
    /\ MutualExclusion
    /\ FlagMeansHeld
    /\ CallerNamesHolder

LEMMA LockInitially == LockInit => LockInv
  <1> SUFFICES ASSUME LockInit PROVE LockInv
    OBVIOUS
  <1>1. LockTypeOK
    <2>1. i \in [CPUs -> 0 .. MaxSpin]
      BY SpinAssumption DEF LockInit
    <2>2. /\ locked \in BOOLEAN /\ gaveUp \in BOOLEAN
          /\ caller \in CPUs \cup {Anonymous} /\ intr \in [CPUs -> BOOLEAN]
      BY DEF LockInit
    <2>3. pc \in [CPUs -> {"idle", "spin", "won", "stamped", "held", "intruder"}]
      BY DEF LockInit
    <2>4. QED
      BY <2>1, <2>2, <2>3 DEF LockTypeOK
  <1>2. IntrudersGaveUp /\ CallerNamesHolder
    BY DEF LockInit, IntrudersGaveUp, CallerNamesHolder
  <1>3. MutualExclusion /\ FlagMeansHeld
    BY DEF LockInit, MutualExclusion, FlagMeansHeld, Inside
  <1>4. QED
    BY <1>1, <1>2, <1>3 DEF LockInv

\* Type correctness is preserved by every step of the lock.
LEMMA StepLockTypes == LockTypeOK /\ [LockNext]_lockVars => LockTypeOK'
  <1> SUFFICES ASSUME LockTypeOK, [LockNext]_lockVars PROVE LockTypeOK'
    OBVIOUS
  <1> USE SpinAssumption DEF LockTypeOK, LockGoto, LeaveLoop, Anonymous
  <1>1. ASSUME NEW c \in CPUs, CallAcquire(c) PROVE LockTypeOK'
    BY <1>1 DEF CallAcquire
  <1>2. ASSUME NEW c \in CPUs, Win(c) PROVE LockTypeOK'
    BY <1>2 DEF Win
  <1>3. ASSUME NEW c \in CPUs, Lose(c) PROVE LockTypeOK'
    BY <1>3 DEF Lose
  <1>4. ASSUME NEW c \in CPUs, Stamp(c) PROVE LockTypeOK'
    BY <1>4 DEF Stamp
  <1>5. ASSUME NEW c \in CPUs, Enter(c) PROVE LockTypeOK'
    BY <1>5 DEF Enter
  <1>6. ASSUME NEW c \in CPUs, GiveUp(c) PROVE LockTypeOK'
    BY <1>6 DEF GiveUp
  <1>7. ASSUME NEW c \in CPUs, Release(c) PROVE LockTypeOK'
    BY <1>7 DEF Release
  <1>8. CASE UNCHANGED lockVars
    BY <1>8 DEF lockVars
  <1>9. QED
    BY <1>1, <1>2, <1>3, <1>4, <1>5, <1>6, <1>7, <1>8 DEF LockNext, Acquiring

\* The parts of the invariant that relate the flag, the holder and the name.
LockCore == IntrudersGaveUp /\ MutualExclusion /\ FlagMeansHeld /\ CallerNamesHolder

LEMMA StepLockCore == LockInv /\ [LockNext]_lockVars => LockCore'
  <1> SUFFICES ASSUME LockInv, [LockNext]_lockVars PROVE LockCore'
    OBVIOUS
  <1> USE DEF LockInv, LockTypeOK, LockCore, IntrudersGaveUp, MutualExclusion,
              FlagMeansHeld, CallerNamesHolder, Inside, LockGoto
  <1>1. ASSUME NEW c \in CPUs, CallAcquire(c) PROVE LockCore'
    BY <1>1 DEF CallAcquire
  <1>2. ASSUME NEW c \in CPUs, Win(c) PROVE LockCore'
    BY <1>2 DEF Win
  <1>3. ASSUME NEW c \in CPUs, Lose(c) PROVE LockCore'
    BY <1>3 DEF Lose
  <1>4. ASSUME NEW c \in CPUs, Stamp(c) PROVE LockCore'
    BY <1>4 DEF Stamp
  <1>5. ASSUME NEW c \in CPUs, Enter(c) PROVE LockCore'
    BY <1>5 DEF Enter
  <1>6. ASSUME NEW c \in CPUs, GiveUp(c) PROVE LockCore'
    BY <1>6 DEF GiveUp
  <1>7. ASSUME NEW c \in CPUs, Release(c) PROVE LockCore'
    BY <1>7 DEF Release
  <1>8. CASE UNCHANGED lockVars
    BY <1>8 DEF lockVars
  <1>9. QED
    BY <1>1, <1>2, <1>3, <1>4, <1>5, <1>6, <1>7, <1>8 DEF LockNext, Acquiring

\* The invariant holds in every behaviour of the lock.
LEMMA LockInvariance == LockSpec => []LockInv
  <1>1. LockInv /\ [LockNext]_lockVars => LockInv'
    BY StepLockTypes, StepLockCore DEF LockInv, LockCore
  <1>2. QED
    BY LockInitially, <1>1, PTL DEF LockSpec

-----------------------------------------------------------------------------
\* The lock's variables keep their types, in particular the loop counter of
\* acquire never passes its bound.
THEOREM LockTyping == LockSpec => []LockTypeOK
  <1>1. LockInv => LockTypeOK
    BY DEF LockInv
  <1>2. QED
    BY LockInvariance, <1>1, PTL

\* Until an acquire gives up, at most one caller is inside.
THEOREM LockExclusion == LockSpec => []MutualExclusion
  <1>1. LockInv => MutualExclusion
    BY DEF LockInv
  <1>2. QED
    BY LockInvariance, <1>1, PTL

\* Until an acquire gives up, the flag is set exactly while somebody is inside.
THEOREM LockFlag == LockSpec => []FlagMeansHeld
  <1>1. LockInv => FlagMeansHeld
    BY DEF LockInv
  <1>2. QED
    BY LockInvariance, <1>1, PTL

\* Until an acquire gives up, l->caller names the holder.
THEOREM LockCaller == LockSpec => []CallerNamesHolder
  <1>1. LockInv => CallerNamesHolder
    BY DEF LockInv
  <1>2. QED
    BY LockInvariance, <1>1, PTL

-----------------------------------------------------------------------------
\* The callers LockContract sees inside.
InsideBar == {c \in CPUs : pc[c] \in Inside \cup {"intruder"}}

LEMMA LockInitContract == LockInit => Lock!Init
  BY DEF LockInit, Lock!Init, Inside

LEMMA LockStepContract == LockInv /\ [LockNext]_lockVars => [Lock!Next]_(Lock!vars)
  <1> SUFFICES ASSUME LockInv, [LockNext]_lockVars PROVE [Lock!Next]_(Lock!vars)
    OBVIOUS
  <1> DEFINE Stutter == InsideBar' = InsideBar /\ gaveUp' = gaveUp
  <1>0. Stutter => [Lock!Next]_(Lock!vars)
    BY DEF Lock!vars, InsideBar
  <1> USE DEF LockInv, LockTypeOK, Inside, LockGoto
  <1>1. ASSUME NEW c \in CPUs, CallAcquire(c) PROVE Stutter
    BY <1>1 DEF CallAcquire, InsideBar
  <1>2. ASSUME NEW c \in CPUs, Win(c) PROVE Lock!Grant(c)
    <2>1. InsideBar = {} \/ gaveUp
      BY <1>2 DEF Win, InsideBar, FlagMeansHeld, IntrudersGaveUp
    <2>2. c \notin InsideBar /\ InsideBar' = InsideBar \cup {c}
      BY <1>2 DEF Win, InsideBar
    <2>3. QED
      BY <1>2, <2>1, <2>2 DEF Win, Lock!Grant, InsideBar
  <1>3. ASSUME NEW c \in CPUs, Lose(c) \/ Stamp(c) \/ Enter(c) PROVE Stutter
    BY <1>3 DEF Lose, Stamp, Enter, InsideBar
  <1>4. ASSUME NEW c \in CPUs, GiveUp(c) PROVE Lock!Intrude(c)
    <2>1. c \notin InsideBar /\ InsideBar' = InsideBar \cup {c}
      BY <1>4 DEF GiveUp, InsideBar
    <2>2. QED
      BY <1>4, <2>1 DEF GiveUp, Lock!Intrude, InsideBar
  <1>5. ASSUME NEW c \in CPUs, Release(c) PROVE Lock!Leave(c)
    <2>1. c \in InsideBar /\ InsideBar' = InsideBar \ {c}
      BY <1>5 DEF Release, InsideBar
    <2>2. QED
      BY <1>5, <2>1 DEF Release, Lock!Leave, InsideBar
  <1>6. CASE UNCHANGED lockVars
    BY <1>0, <1>6 DEF lockVars, InsideBar
  <1>7. QED
    BY <1>0, <1>1, <1>2, <1>3, <1>4, <1>5, <1>6
    DEF LockNext, Acquiring, Lock!Next

\* The spinlock implements the contract its callers rely on: it is granted to
\* one caller at a time until an acquire lets a caller in without it.
THEOREM LockContractHolds == LockSpec => ImplementsLockContract
  BY LockInitContract, LockStepContract, LockInvariance, PTL
  DEF LockSpec, ImplementsLockContract, Lock!Spec

-----------------------------------------------------------------------------
\* The steps of PMMLocked are steps of the lock or leave it alone.
LEMMA LockMoves ==
    \A c \in CPUs : CallAcquire(c) \/ Acquiring(c) \/ Release(c) => LockNext
  BY DEF LockNext

LEMMA LockStep == LockInv /\ (LockNext \/ UNCHANGED lockVars) => LockInv'
  BY StepLockTypes, StepLockCore DEF LockCore, LockInv

\* acquire has returned.
Working(c) == pc[c] \in {"held", "intruder"}

\* What the lock is for: until an acquire gives up, one CPU at a time has
\* returned from acquire, and the flag is set while there is one.
Excluded ==
    ~gaveUp => /\ \A c, d \in CPUs : Working(c) /\ Working(d) => c = d
               /\ ~locked => \A c \in CPUs : ~Working(c)

LEMMA LockExcludes == LockInv => Excluded /\ LockTypeOK
  BY DEF LockInv, IntrudersGaveUp, MutualExclusion, FlagMeansHeld, Inside, Excluded, Working

-----------------------------------------------------------------------------
LEMMA Sizes ==
    /\ bitmap_size \in Nat /\ bitmap_size >= 1 /\ MaxAlloc \in Nat /\ MaxAlloc >= 1
    /\ Modulus \in Nat /\ Cardinality(Bytes) < Modulus
    /\ Bytes = 0 .. bitmap_size + MaxAlloc - 2 /\ 0 \in Bytes
    /\ IsFiniteSet(Bytes) /\ Cardinality(Bytes) \in Nat
  <1>1. bitmap_size + MaxAlloc - 2 \in Int
    BY SizeAssumption
  <1>2. IsFiniteSet(0 .. bitmap_size + MaxAlloc - 2)
    BY <1>1, FS_Interval
  <1>3. IsFiniteSet(Bytes) /\ Cardinality(Bytes) \in Nat
    BY <1>2, FS_CardinalityType DEF Bytes
  <1>4. QED
    BY <1>3, SizeAssumption DEF Bytes

\* A block of n pages that starts at page a.
Block(a, n) == a .. a + n - 1
IsBlock(S) ==
    S = {} \/ \E a \in Bytes, n \in 1 .. MaxAlloc : a + n - 1 \in Bytes /\ S = Block(a, n)

\* The size and the first page of a block, as CallFree computes them.
LEMMA BlockBounds ==
    ASSUME NEW a \in Nat, NEW n \in Nat, n >= 1
    PROVE  /\ Cardinality(Block(a, n)) = n
           /\ (CHOOSE p \in Block(a, n) : \A q \in Block(a, n) : p <= q) = a
  <1>1. Cardinality(Block(a, n)) = n
    <2>1. a \in Int /\ a + n - 1 \in Int /\ a <= a + n - 1
      OBVIOUS
    <2>2. Cardinality(a .. a + n - 1) = (a + n - 1) - a + 1
      BY <2>1, FS_Interval
    <2>3. QED
      BY <2>2 DEF Block
  <1>2. a \in Block(a, n) /\ \A q \in Block(a, n) : a <= q
    BY DEF Block
  <1>3. \A p \in Block(a, n) : (\A q \in Block(a, n) : p <= q) => p = a
    BY <1>2 DEF Block
  <1>4. QED
    BY <1>1, <1>2, <1>3

-----------------------------------------------------------------------------
\* The locals of a call, place by place; they are no other CPU's business, so
\* this holds whether or not the lock does.
ShapeOf(c) ==
    /\ at[c] = "idle" <=> pc[c] = "idle"
    /\ at[c] = "idle" => op[c] = "none" /\ size[c] = 0 /\ index[c] = 0 /\ j[c] = 0
    /\ at[c] # "idle" => /\ holds[c] = {}
                         /\ size[c] >= 1 /\ index[c] + size[c] - 1 \in Bytes
    /\ at[c] # "probe" => free_pages[c] = 0
    /\ at[c] \notin {"idle", "return"} => j[c] < size[c]
    /\ at[c] = "probe" => op[c] = "alloc" /\ index[c] < bitmap_size /\ free_pages[c] <= j[c]
    /\ at[c] = "mark" => op[c] = "alloc"
    /\ at[c] = "clear" => op[c] = "free"
    /\ at[c] \in {"load", "store"} => op[c] \in {"alloc", "free"}
    /\ at[c] = "return" => op[c] = "null" \/ (op[c] \in {"alloc", "free"} /\ j[c] = size[c])
    /\ at[c] \in {"mark", "load", "store", "return"} => Working(c)
    /\ at[c] \in {"probe", "clear"} /\ ~Working(c) => j[c] = 0
    /\ IsBlock(holds[c])
Shape == \A c \in CPUs : ShapeOf(c)

LEMMA InitShape == Init => TypeOK /\ Shape
  <1> SUFFICES ASSUME Init PROVE TypeOK /\ Shape
    OBVIOUS
  <1>1. LockTypeOK
    BY LockInitially, LockExcludes DEF Init
  <1>2. free_pages_global \in 0 .. Modulus - 1
    <2>1. Cardinality(BootFree) <= Cardinality(Bytes) /\ Cardinality(BootFree) \in Nat
      BY SizeAssumption, Sizes, FS_Subset, FS_CardinalityType
    <2>2. QED
      BY <2>1, Sizes DEF Init
  <1>3. /\ bitmap \in [Bytes -> {0, 1}]
        /\ size \in [CPUs -> 0 .. MaxAlloc] /\ index \in [CPUs -> Bytes]
        /\ j \in [CPUs -> 0 .. MaxAlloc] /\ free_pages \in [CPUs -> 0 .. MaxAlloc]
        /\ copy \in [CPUs -> 0 .. Modulus - 1]
    BY Sizes DEF Init
  <1>4. /\ at \in [CPUs -> {"idle", "probe", "mark", "clear", "load", "store", "return"}]
        /\ op \in [CPUs -> {"none", "alloc", "free", "null"}]
        /\ holds \in [CPUs -> SUBSET Bytes]
    BY DEF Init
  <1>5. Shape
    BY DEF Init, Shape, ShapeOf, LockInit, IsBlock, Working
  <1>6. QED
    BY <1>1, <1>2, <1>3, <1>4, <1>5 DEF TypeOK

\* What the pieces of TypeOK are, but for the lock's.
DataTyped ==
    /\ bitmap \in [Bytes -> {0, 1}]
    /\ free_pages_global \in 0 .. Modulus - 1
    /\ at \in [CPUs -> {"idle", "probe", "mark", "clear", "load", "store", "return"}]
    /\ op \in [CPUs -> {"none", "alloc", "free", "null"}]
    /\ size \in [CPUs -> 0 .. MaxAlloc]
    /\ index \in [CPUs -> Bytes]
    /\ j \in [CPUs -> 0 .. MaxAlloc] /\ free_pages \in [CPUs -> 0 .. MaxAlloc]
    /\ copy \in [CPUs -> 0 .. Modulus - 1]
    /\ holds \in [CPUs -> SUBSET Bytes]

\* The pages a call names are bytes of the bitmap.
LEMMA RunInBytes ==
    ASSUME DataTyped, Shape, NEW c \in CPUs, at[c] # "idle"
    PROVE  /\ Run(c) \subseteq Bytes /\ Run(c) = Block(index[c], size[c])
           /\ index[c] \in Nat /\ size[c] \in Nat /\ size[c] >= 1 /\ size[c] <= MaxAlloc
           /\ j[c] \in Nat /\ (j[c] < size[c] => index[c] + j[c] \in Run(c))
  <1>1. /\ index[c] \in Bytes /\ size[c] \in 0 .. MaxAlloc /\ j[c] \in 0 .. MaxAlloc
        /\ size[c] >= 1 /\ index[c] + size[c] - 1 \in Bytes
    BY DEF DataTyped, Shape, ShapeOf
  <1>2. QED
    BY <1>1, Sizes, SMTT(20) DEF Run, Block

-----------------------------------------------------------------------------
\* Where the steps of the lock leave its callers.
LEMMA PlacesMove ==
    ASSUME LockTypeOK, NEW c \in CPUs
    PROVE  /\ CallAcquire(c) => pc[c] = "idle" /\ pc' = [pc EXCEPT ![c] = "spin"]
           /\ Acquiring(c) => /\ pc[c] # "idle" /\ ~Working(c) /\ pc'[c] # "idle"
                                   /\ \A d \in CPUs \ {c} : pc'[d] = pc[d]
           /\ Release(c) => Working(c) /\ pc' = [pc EXCEPT ![c] = "idle"]
  <1> USE DEF LockTypeOK, LockGoto, Working
  <1>1. CallAcquire(c) => pc[c] = "idle" /\ pc' = [pc EXCEPT ![c] = "spin"]
    BY DEF CallAcquire
  <1>2. Acquiring(c) => /\ pc[c] # "idle" /\ ~Working(c) /\ pc'[c] # "idle"
                             /\ \A d \in CPUs \ {c} : pc'[d] = pc[d]
    BY DEF Acquiring, Win, Lose, Stamp, Enter, GiveUp
  <1>3. Release(c) => Working(c) /\ pc' = [pc EXCEPT ![c] = "idle"]
    BY DEF Release
  <1>4. QED
    BY <1>1, <1>2, <1>3

\* A step of one CPU leaves the call of another alone.
Untouched(d) ==
    /\ pc'[d] = pc[d] /\ at'[d] = at[d] /\ op'[d] = op[d] /\ size'[d] = size[d]
    /\ index'[d] = index[d] /\ j'[d] = j[d] /\ free_pages'[d] = free_pages[d]
    /\ copy'[d] = copy[d] /\ holds'[d] = holds[d]

Acts(c) == (\E n \in 1 .. MaxAlloc : CallAlloc(c, n)) \/ CallFree(c) \/ Step(c)

LEMMA StepTouchesOne ==
    ASSUME LockTypeOK, DataTyped, NEW c \in CPUs, Acts(c)
    PROVE  \A d \in CPUs \ {c} : Untouched(d)
  <1> USE PlacesMove DEF DataTyped, Goto, Zero, Untouched
  <1> DEFINE Others == \A d \in CPUs \ {c} : Untouched(d)
  <1>1. ASSUME NEW n \in 1 .. MaxAlloc, CallAlloc(c, n) PROVE Others
    BY <1>1 DEF CallAlloc, LockTypeOK
  <1>2. CASE CallFree(c)
    BY <1>2 DEF CallFree, LockTypeOK
  <1>3. CASE InAcquire(c)
    BY <1>3 DEF InAcquire, loopVars
  <1>4. CASE ProbeByte(c) \/ ProbeFits(c) \/ ProbeNext(c) \/ ProbeFails(c)
    BY <1>4 DEF ProbeByte, ProbeFits, ProbeNext, ProbeFails, ProbeUnchanged, lockVars
  <1>5. CASE MarkPage(c) \/ ClearPage(c)
    BY <1>5 DEF MarkPage, ClearPage, Write, lockVars, loopVars
  <1>6. CASE LoadCount(c) \/ StoreCount(c)
    BY <1>6 DEF LoadCount, StoreCount, lockVars
  <1>7. CASE Return(c)
    BY <1>7 DEF Return, LockTypeOK
  <1>8. QED
    BY <1>1, <1>2, <1>3, <1>4, <1>5, <1>6, <1>7 DEF Acts, Step

\* The call itself goes from place to place as ShapeOf says.
LEMMA StepShapeOf ==
    ASSUME LockTypeOK, DataTyped, Shape, NEW c \in CPUs, Acts(c)
    PROVE  ShapeOf(c)' /\ DataTyped'
  <1> USE DEF Goto, Zero
  <1>0. ShapeOf(c)
    BY DEF Shape
  <1>a. MaxAlloc \in Nat /\ 0 \in 0 .. MaxAlloc /\ 1 .. MaxAlloc \subseteq 0 .. MaxAlloc
    BY Sizes
  <1>1. ASSUME NEW n \in 1 .. MaxAlloc, CallAlloc(c, n) PROVE ShapeOf(c)' /\ DataTyped'
    <2>1. /\ pc'[c] = "spin" /\ at'[c] = "probe" /\ op'[c] = "alloc" /\ size'[c] = n
          /\ UNCHANGED <<index, j, free_pages, holds, bitmap, free_pages_global, copy>>
          /\ at[c] = "idle" /\ holds[c] = {}
      BY <1>1, PlacesMove DEF CallAlloc, LockTypeOK, DataTyped
    <2>2. n \in Nat /\ n >= 1 /\ 0 + n - 1 \in Bytes
      BY Sizes
    <2>3. DataTyped'
      BY <1>1, Sizes DEF CallAlloc, DataTyped
    <2>4. ShapeOf(c)'
      BY <2>1, <2>2, <1>0, Sizes DEF ShapeOf, Working
    <2>5. QED
      BY <2>3, <2>4
  <1>2. CASE CallFree(c)
    <2>1. /\ pc'[c] = "spin" /\ at'[c] = "clear" /\ op'[c] = "free" /\ size'[c] = Length(c)
          /\ index'[c] = CHOOSE p \in holds[c] : \A q \in holds[c] : p <= q
          /\ UNCHANGED <<j, free_pages, bitmap, free_pages_global, copy>>
          /\ at[c] = "idle" /\ holds[c] # {} /\ holds'[c] = {}
      BY <1>2, PlacesMove DEF CallFree, LockTypeOK, DataTyped
    <2>2. PICK a \in Bytes, n \in 1 .. MaxAlloc : a + n - 1 \in Bytes /\ holds[c] = Block(a, n)
      BY <1>0, <2>1 DEF ShapeOf, IsBlock
    <2>3. a \in Nat /\ n \in Nat /\ n >= 1
      BY Sizes
    <2>4. Length(c) = n /\ index'[c] = a
      BY <2>1, <2>2, <2>3, BlockBounds DEF Length
    <2>5. size' = [size EXCEPT ![c] = n] /\ index' = [index EXCEPT ![c] = a]
      BY <1>2, <2>1, <2>4 DEF CallFree, DataTyped
    <2>6. DataTyped'
      <3>1. /\ at' = [at EXCEPT ![c] = "clear"] /\ op' = [op EXCEPT ![c] = "free"]
            /\ holds' = [holds EXCEPT ![c] = {}]
        BY <1>2 DEF CallFree
      <3>2. n \in 0 .. MaxAlloc
        BY <1>a
      <3>3. QED
        BY <3>1, <3>2, <2>1, <2>5 DEF DataTyped
    <2>7. ShapeOf(c)'
      <3>1. /\ a + n - 1 \in Bytes /\ j'[c] = 0 /\ free_pages'[c] = 0
            /\ size'[c] = n /\ index'[c] = a
            /\ pc'[c] = "spin" /\ at'[c] = "clear" /\ op'[c] = "free" /\ holds'[c] = {}
        BY <2>1, <2>2, <2>4, <1>0 DEF ShapeOf
      <3>2. QED
        BY <3>1, <2>3 DEF ShapeOf, Working, IsBlock
    <2>8. QED
      BY <2>6, <2>7
  <1>3. CASE InAcquire(c)
    BY <1>3, <1>0, PlacesMove DEF InAcquire, loopVars, ShapeOf, DataTyped, Working
  <1>4. ASSUME Reached(c, "probe") PROVE Found(c) \in 0 .. j[c] + 1 /\ j[c] + 1 \in 0 .. MaxAlloc
    <2>1. bitmap[index[c] + j[c]] \in {0, 1}
      BY <1>4, <1>0, RunInBytes DEF Reached, ShapeOf, DataTyped
    <2>2. /\ free_pages[c] \in 0 .. MaxAlloc /\ j[c] \in 0 .. MaxAlloc /\ size[c] \in 0 .. MaxAlloc
          /\ free_pages[c] <= j[c] /\ j[c] < size[c]
      BY <1>4, <1>0 DEF Reached, ShapeOf, DataTyped
    <2>3. QED
      BY <2>1, <2>2, <1>a DEF Found
  <1>5. CASE ProbeByte(c)
    <2>1. j[c] + 1 < size[c]
      BY <1>5, <1>0, Sizes DEF ProbeByte, Reached, LastOfRun, ShapeOf, DataTyped
    <2>2. DataTyped'
      <3>1. /\ j' = [j EXCEPT ![c] = j[c] + 1] /\ free_pages' = [free_pages EXCEPT ![c] = Found(c)]
            /\ UNCHANGED <<bitmap, free_pages_global, op, size, copy, holds, at, index>>
        BY <1>5 DEF ProbeByte, ProbeUnchanged
      <3>2. Found(c) \in 0 .. j[c] + 1 /\ j[c] + 1 \in 0 .. MaxAlloc
        BY <1>4, <1>5 DEF ProbeByte
      <3>3. Found(c) \in 0 .. MaxAlloc
        BY <3>2, <1>a
      <3>4. j' \in [CPUs -> 0 .. MaxAlloc] /\ free_pages' \in [CPUs -> 0 .. MaxAlloc]
        BY <3>1, <3>2, <3>3 DEF DataTyped
      <3>5. QED
        BY <3>1, <3>4 DEF DataTyped
    <2>3. ShapeOf(c)'
      BY <1>5, <1>4, <1>0, <2>1, Sizes, SMTT(20) DEF ProbeByte, ProbeUnchanged, DataTyped, ShapeOf, lockVars,
         Reached, Working
    <2>4. QED
      BY <2>2, <2>3
  <1>6. CASE ProbeFits(c) \/ ProbeFails(c)
    <2>1. DataTyped'
      BY <1>6, <1>a DEF ProbeFits, ProbeFails, ProbeUnchanged, DataTyped
    <2>2. ShapeOf(c)'
      BY <1>6, <1>0, Sizes DEF ProbeFits, ProbeFails, ProbeUnchanged, DataTyped, ShapeOf, lockVars,
         Reached, Working
    <2>3. QED
      BY <2>1, <2>2
  <1>7. CASE ProbeNext(c)
    <2>1. /\ index[c] \in Bytes /\ size[c] \in 1 .. MaxAlloc
          /\ index[c] + 1 \in Bytes /\ index[c] + 1 + size[c] - 1 \in Bytes
      BY <1>7, <1>0, Sizes, SMTT(20) DEF ProbeNext, Reached, ShapeOf, DataTyped
    <2>2. DataTyped'
      <3>1. /\ index' = [index EXCEPT ![c] = index[c] + 1]
            /\ j' = [j EXCEPT ![c] = 0] /\ free_pages' = [free_pages EXCEPT ![c] = 0]
            /\ UNCHANGED <<bitmap, free_pages_global, op, size, copy, holds, at>>
        BY <1>7 DEF ProbeNext, ProbeUnchanged
      <3>2. /\ index' \in [CPUs -> Bytes] /\ j' \in [CPUs -> 0 .. MaxAlloc]
            /\ free_pages' \in [CPUs -> 0 .. MaxAlloc]
        BY <3>1, <2>1, <1>a DEF DataTyped
      <3>3. QED
        BY <3>1, <3>2 DEF DataTyped
    <2>3. ShapeOf(c)'
      <3>1. /\ at[c] = "probe" /\ at'[c] = "probe" /\ Working(c) /\ Working(c)'
            /\ pc'[c] = pc[c] /\ op'[c] = op[c] /\ size'[c] = size[c] /\ holds'[c] = holds[c]
            /\ index[c] + 1 < bitmap_size
        BY <1>7 DEF ProbeNext, ProbeUnchanged, Reached, Working, lockVars
      <3>2. index'[c] = index[c] + 1 /\ j'[c] = 0 /\ free_pages'[c] = 0
        BY <1>7 DEF ProbeNext, DataTyped
      <3>3. op[c] = "alloc" /\ holds[c] = {} /\ IsBlock(holds[c]) /\ pc[c] # "idle"
        BY <3>1, <1>0 DEF ShapeOf
      <3>4. size[c] >= 1 /\ 0 < size[c] /\ 0 <= 0
        BY <2>1, Sizes
      <3>5. QED
        BY <2>1, <3>1, <3>2, <3>3, <3>4 DEF ShapeOf, IsBlock
    <2>4. QED
      BY <2>2, <2>3
  <1>8. CASE MarkPage(c) \/ ClearPage(c)
    <2>1. DataTyped'
      BY <1>8 DEF MarkPage, ClearPage, Write, DataTyped, loopVars
    <2>2. ShapeOf(c)'
      BY <1>8, <1>0 DEF MarkPage, ClearPage, Write, DataTyped, ShapeOf, lockVars, loopVars,
         Reached, Working
    <2>3. QED
      BY <2>1, <2>2
  <1>9. CASE LoadCount(c)
    BY <1>9, <1>0 DEF LoadCount, DataTyped, ShapeOf, lockVars, Reached, Working
  <1>10. CASE StoreCount(c)
    <2>1. /\ copy[c] \in Int /\ j[c] \in Nat /\ size[c] \in 1 .. MaxAlloc /\ j[c] < size[c]
          /\ op[c] \in {"alloc", "free"}
      BY <1>10, <1>0, Sizes DEF StoreCount, Reached, ShapeOf, DataTyped
    <2>2. (copy[c] + IF op[c] = "alloc" THEN -1 ELSE 1) % Modulus \in 0 .. Modulus - 1
      BY <2>1, Sizes, SMTT(20)
    <2>3. at'[c] = IF LastOfRun(c) THEN "return" ELSE IF op[c] = "alloc" THEN "mark" ELSE "clear"
      BY <1>10, <2>1 DEF StoreCount, DataTyped
    <2>4. at' \in [CPUs -> {"idle", "probe", "mark", "clear", "load", "store", "return"}]
      BY <1>10, <2>3 DEF StoreCount, DataTyped
    <2>5. DataTyped'
      <3>1. j[c] + 1 \in 0 .. MaxAlloc /\ 0 \in 0 .. Modulus - 1
        BY <2>1, <1>a, Sizes
      <3>2. QED
        BY <1>10, <3>1, <2>2, <2>4 DEF StoreCount, DataTyped
    <2>6. ShapeOf(c)'
      BY <1>10, <1>0, <2>1, <2>3, <1>a DEF StoreCount, DataTyped, ShapeOf, lockVars, Reached,
         Working, LastOfRun
    <2>7. QED
      BY <2>5, <2>6
  <1>11. CASE Return(c)
    <2>1. at[c] = "return" /\ Run(c) \subseteq Bytes /\ Run(c) = Block(index[c], size[c])
          /\ index[c] \in Bytes /\ size[c] \in 1 .. MaxAlloc /\ index[c] + size[c] - 1 \in Bytes
      BY <1>11, <1>0, RunInBytes DEF Return, Reached, ShapeOf, DataTyped
    <2>2. IsBlock(Run(c)) /\ IsBlock({})
      BY <2>1 DEF IsBlock
    <2>3. DataTyped'
      <3>1. /\ at' = [at EXCEPT ![c] = "idle"] /\ op' = [op EXCEPT ![c] = "none"]
            /\ size' = [size EXCEPT ![c] = 0] /\ index' = [index EXCEPT ![c] = 0]
            /\ j' = [j EXCEPT ![c] = 0]
            /\ holds' = IF op[c] = "alloc" THEN [holds EXCEPT ![c] = Run(c)] ELSE holds
            /\ UNCHANGED <<bitmap, free_pages_global, free_pages, copy>>
        BY <1>11 DEF Return
      <3>2. 0 \in Bytes
        BY Sizes
      <3>3. holds' \in [CPUs -> SUBSET Bytes]
        BY <3>1, <2>1 DEF DataTyped
      <3>4. /\ at' \in [CPUs -> {"idle", "probe", "mark", "clear", "load", "store", "return"}]
            /\ op' \in [CPUs -> {"none", "alloc", "free", "null"}]
        BY <3>1 DEF DataTyped
      <3>5. /\ size' \in [CPUs -> 0 .. MaxAlloc] /\ index' \in [CPUs -> Bytes]
            /\ j' \in [CPUs -> 0 .. MaxAlloc]
        BY <3>1, <3>2, <1>a DEF DataTyped
      <3>6. QED
        BY <3>1, <3>3, <3>4, <3>5 DEF DataTyped
    <2>4. ShapeOf(c)'
      BY <1>11, <1>0, <2>1, <2>2, PlacesMove DEF Return, DataTyped, ShapeOf, LockTypeOK, Working
    <2>5. QED
      BY <2>3, <2>4
  <1>12. QED
    BY <1>1, <1>2, <1>3, <1>5, <1>6, <1>7, <1>8, <1>9, <1>10, <1>11 DEF Acts, Step

-----------------------------------------------------------------------------
\* The pages of a call that it has written already.
Written(c) ==
    {p \in Run(c) : \/ p < index[c] + j[c]
                    \/ p = index[c] + j[c] /\ at[c] \in {"load", "store"}}

\* The pages that are a CPU's: its block, or what its call has in transit.
Owned(c) == holds[c] \cup InTransit(c)

OwnersApart ==
    /\ \A c \in CPUs : Owned(c) \subseteq BootFree
    /\ \A c, d \in CPUs : c # d => Owned(c) \cap Owned(d) = {}

\* A byte is clear exactly if its page was free at boot and is nobody's.
BitsExact ==
    \A p \in Bytes : bitmap[p] = 0 <=> p \in BootFree /\ \A c \in CPUs : p \notin Owned(c)

\* A scan that has counted every byte of its run so far saw them clear, and
\* they are; so are those that a call has still to take.
ScanExact ==
    \A c \in CPUs : at[c] = "probe" /\ free_pages[c] = j[c] =>
        \A k \in 0 .. j[c] - 1 : bitmap[index[c] + k] = 0
RestFree ==
    \A c \in CPUs : at[c] \in {"mark", "load", "store"} /\ op[c] = "alloc" =>
        \A p \in Run(c) \ Written(c) : bitmap[p] = 0

\* The bytes that are clear, and what the count says of them: it lags behind
\* by the one byte that a call has written and not counted yet.
Clear == {p \in Bytes : bitmap[p] = 0}
Lag(c) == IF op[c] = "alloc" THEN 1 ELSE -1
Counting(c) == at[c] \in {"load", "store"}
Counted ==
    /\ \A c \in CPUs : Counting(c) => free_pages_global = Cardinality(Clear) + Lag(c)
    /\ (\A c \in CPUs : ~Counting(c)) => free_pages_global = Cardinality(Clear)
    /\ \A c \in CPUs : at[c] = "store" => copy[c] = free_pages_global

\* The inductive invariant.  Everything that relates the bitmap to its users
\* holds until an acquire gives up, and ShapeOf a call always.
Core == OwnersApart /\ BitsExact /\ ScanExact /\ RestFree /\ Counted
IInv == LockInv /\ DataTyped /\ Shape /\ (~gaveUp => Core)

LEMMA InitIInv == Init => IInv
  <1> SUFFICES ASSUME Init PROVE IInv
    OBVIOUS
  <1>1. LockInv /\ DataTyped /\ Shape
    BY InitShape, LockInitially DEF Init, TypeOK, DataTyped
  <1>2. \A c \in CPUs : Owned(c) = {}
    BY DEF Init, Owned, InTransit
  <1>3. OwnersApart /\ BitsExact
    BY <1>2, SizeAssumption DEF OwnersApart, BitsExact, Init
  <1>4. ScanExact /\ RestFree
    BY DEF Init, ScanExact, RestFree
  <1>5. Counted
    <2>1. Clear = BootFree
      BY SizeAssumption DEF Clear, Init
    <2>2. QED
      BY <2>1 DEF Counted, Counting, Init
  <1>6. QED
    BY <1>1, <1>3, <1>4, <1>5 DEF IInv, Core

-----------------------------------------------------------------------------
\* gaveUp is never taken back.
LEMMA GaveUpStays ==
    ASSUME NEW c \in CPUs, Acts(c), LockTypeOK, ~gaveUp' PROVE ~gaveUp
  <1>1. gaveUp \in BOOLEAN
    BY DEF LockTypeOK
  <1>2. CallAcquire(c) \/ Acquiring(c) \/ Release(c) \/ UNCHANGED lockVars
    BY DEF Acts, Step, CallAlloc, CallFree, InAcquire, ProbeByte, ProbeFits, ProbeNext,
           ProbeFails, ProbeUnchanged, MarkPage, ClearPage, Write, LoadCount, StoreCount, Return
  <1>3. QED
    BY <1>1, <1>2 DEF CallAcquire, Acquiring, Win, Lose, Stamp,
        Enter, GiveUp, Release, lockVars

\* What a CPU has that no step touches.
LEMMA UntouchedKeeps ==
    ASSUME NEW d \in CPUs, Untouched(d)
    PROVE  /\ Run(d)' = Run(d) /\ Written(d)' = Written(d) /\ Owned(d)' = Owned(d)
           /\ Lag(d)' = Lag(d) /\ (Counting(d)' <=> Counting(d)) /\ (Working(d)' <=> Working(d))
  BY DEF Untouched, Run, Written, Owned, InTransit, Lag, Counting, Working

\* What a step does to the bitmap and to the pages that are the CPU's.
Keeps(c) == bitmap' = bitmap /\ Owned(c)' = Owned(c)
Takes(c) ==
    LET q == index[c] + j[c]
    IN /\ at[c] = "mark" /\ q \in Run(c) /\ q \notin Written(c)
       /\ bitmap' = [bitmap EXCEPT ![q] = 1] /\ Owned(c)' = Owned(c) \cup {q}
       /\ Run(c)' = Run(c) /\ Written(c)' = Written(c) \cup {q}
Gives(c) ==
    LET q == index[c] + j[c]
    IN /\ at[c] = "clear" /\ q \in Owned(c)
       /\ bitmap' = [bitmap EXCEPT ![q] = 0] /\ Owned(c)' = Owned(c) \ {q}

LEMMA MarkTakes ==
    ASSUME DataTyped, Shape, NEW c \in CPUs, MarkPage(c)
    PROVE  Takes(c) /\ at'[c] = "load"
  <1> DEFINE q == index[c] + j[c]
  <1>1. /\ at[c] = "mark" /\ op[c] = "alloc" /\ j[c] < size[c]
        /\ at' = [at EXCEPT ![c] = "load"] /\ bitmap' = [bitmap EXCEPT ![q] = 1]
        /\ UNCHANGED <<op, index, j, size, holds>>
    BY DEF MarkPage, Reached, Shape, ShapeOf, Write, Goto, loopVars
  <1>2. at'[c] = "load"
    BY <1>1 DEF DataTyped
  <1>3. q \in Run(c) /\ \A p \in Run(c) : p \in Nat
    BY <1>1, RunInBytes, Sizes
  <1>4. Run(c)' = Run(c) /\ Written(c)' = Written(c) \cup {q} /\ q \notin Written(c)
    BY <1>1, <1>2, <1>3 DEF Run, Written
  <1>5. Owned(c)' = Owned(c) \cup {q}
    BY <1>1, <1>2, <1>4 DEF Owned, InTransit, Written
  <1>6. QED
    BY <1>1, <1>2, <1>3, <1>4, <1>5 DEF Takes

LEMMA ClearGives ==
    ASSUME DataTyped, Shape, NEW c \in CPUs, ClearPage(c)
    PROVE  Gives(c) /\ at'[c] = "load"
  <1> DEFINE q == index[c] + j[c]
  <1>1. /\ at[c] = "clear" /\ op[c] = "free" /\ j[c] < size[c]
        /\ at' = [at EXCEPT ![c] = "load"] /\ bitmap' = [bitmap EXCEPT ![q] = 0]
        /\ UNCHANGED <<op, index, j, size, holds>> /\ holds[c] = {}
    BY DEF ClearPage, Reached, Shape, ShapeOf, Write, Goto, loopVars
  <1>2. at'[c] = "load"
    BY <1>1 DEF DataTyped
  <1>3. q \in Run(c) /\ \A p \in Run(c) : p \in Nat
    BY <1>1, RunInBytes, Sizes
  <1>4. Run(c)' = Run(c) /\ Written(c)' = Written(c) \cup {q} /\ q \notin Written(c)
    BY <1>1, <1>2, <1>3 DEF Run, Written
  <1>5. /\ InTransit(c) = Run(c) \ Written(c)
        /\ InTransit(c)' = Run(c)' \ Written(c)'
    BY <1>1, <1>2 DEF InTransit, Written
  <1>6. Owned(c) = Run(c) \ Written(c) /\ Owned(c)' = Owned(c) \ {q} /\ q \in Owned(c)
    BY <1>1, <1>3, <1>4, <1>5 DEF Owned
  <1>7. QED
    BY <1>1, <1>2, <1>6 DEF Gives

LEMMA OthersKeep ==
    ASSUME DataTyped, Shape, LockTypeOK, NEW c \in CPUs, Acts(c), ~MarkPage(c), ~ClearPage(c)
    PROVE  Keeps(c)
  <1> USE DEF Goto, Zero
  <1>0. ShapeOf(c)
    BY DEF Shape
  <1>1. ASSUME NEW n \in 1 .. MaxAlloc, CallAlloc(c, n) PROVE Keeps(c)
    BY <1>1 DEF CallAlloc, DataTyped, Keeps, Owned, InTransit
  <1>2. CASE CallFree(c)
    <2>1. /\ at[c] = "idle" /\ at'[c] = "clear" /\ op'[c] = "free" /\ holds'[c] = {}
          /\ holds[c] # {} /\ j'[c] = j[c] /\ j[c] = 0 /\ size'[c] = Length(c)
          /\ index'[c] = CHOOSE p \in holds[c] : \A q \in holds[c] : p <= q
          /\ bitmap' = bitmap
      BY <1>2, <1>0 DEF CallFree, DataTyped, ShapeOf
    <2>2. PICK a \in Bytes, n \in 1 .. MaxAlloc : a + n - 1 \in Bytes /\ holds[c] = Block(a, n)
      BY <1>0, <2>1 DEF ShapeOf, IsBlock
    <2>3. a \in Nat /\ n \in Nat /\ n >= 1
      BY Sizes
    <2>4. index'[c] = a /\ size'[c] = n
      BY <2>1, <2>2, <2>3, BlockBounds DEF Length
    <2>5. Run(c)' = holds[c] /\ Written(c)' = {}
      <3>1. Run(c)' = Block(a, n)
        BY <2>4 DEF Run, Block
      <3>2. \A p \in Block(a, n) : p >= a /\ p \in Nat
        BY <2>3 DEF Block
      <3>3. index'[c] = a /\ j'[c] = 0 /\ at'[c] = "clear" /\ a + 0 = a
        BY <2>1, <2>3, <2>4
      <3>4. Written(c)' = {}
        BY <2>3, <3>1, <3>2, <3>3 DEF Written
      <3>5. QED
        BY <2>2, <3>1, <3>4
    <2>6. InTransit(c) = {} /\ InTransit(c)' = Run(c)' \ Written(c)'
      BY <2>1 DEF InTransit, Written
    <2>7. QED
      BY <2>1, <2>5, <2>6 DEF Keeps, Owned
  <1>3. CASE InAcquire(c)
    BY <1>3 DEF InAcquire, loopVars, Keeps, Owned, InTransit, Run
  <1>4. CASE ProbeByte(c) \/ ProbeNext(c) \/ ProbeFails(c)
    BY <1>4 DEF ProbeByte, ProbeNext, ProbeFails, ProbeUnchanged, Reached, DataTyped,
                Keeps, Owned, InTransit
  <1>5. CASE ProbeFits(c)
    <2>1. /\ at[c] = "probe" /\ at'[c] = "mark" /\ op'[c] = op[c] /\ op[c] = "alloc" /\ j'[c] = 0
          /\ UNCHANGED <<index, size, holds, bitmap>>
      BY <1>5, <1>0 DEF ProbeFits, ProbeUnchanged, Reached, DataTyped, ShapeOf
    <2>2. Written(c)' = {}
      BY <2>1, RunInBytes, Sizes DEF Written, Run
    <2>3. InTransit(c) = {} /\ InTransit(c)' = {}
      BY <2>1, <2>2 DEF InTransit, Written
    <2>4. QED
      BY <2>1, <2>3 DEF Keeps, Owned
  <1>6. CASE LoadCount(c)
    BY <1>6 DEF LoadCount, Reached, DataTyped, Keeps, Owned, InTransit, Run
  <1>7. CASE StoreCount(c)
    <2>1. /\ at[c] = "store" /\ at'[c] \in {"return", "mark", "clear"} /\ j'[c] = j[c] + 1
          /\ op'[c] = op[c] /\ op[c] \in {"alloc", "free"}
          /\ UNCHANGED <<index, size, holds, bitmap>>
      BY <1>7, <1>0 DEF StoreCount, Reached, DataTyped, ShapeOf
    <2>2. Written(c)' = Written(c) /\ Run(c)' = Run(c)
      <3>1. \A p \in Run(c) : p \in Int
        BY <2>1, RunInBytes, Sizes
      <3>2. j[c] \in Int /\ index[c] \in Int
        BY Sizes DEF DataTyped
      <3>3. QED
        BY <2>1, <3>1, <3>2 DEF Written, Run
    <2>3. InTransit(c)' = InTransit(c)
      BY <2>1, <2>2 DEF InTransit, Written
    <2>4. QED
      BY <2>1, <2>3 DEF Keeps, Owned
  <1>8. CASE Return(c)
    <2>1. /\ at[c] = "return" /\ at'[c] = "idle" /\ bitmap' = bitmap /\ holds[c] = {}
          /\ holds' = IF op[c] = "alloc" THEN [holds EXCEPT ![c] = Run(c)] ELSE holds
          /\ op[c] = "null" \/ (op[c] \in {"alloc", "free"} /\ j[c] = size[c])
      BY <1>8, <1>0 DEF Return, Reached, DataTyped, ShapeOf
    <2>2. op[c] # "null" => Written(c) = Run(c)
      BY <2>1, RunInBytes, Sizes DEF Written, Run
    <2>3. InTransit(c)' = {} /\ InTransit(c) = IF op[c] = "alloc" THEN Run(c) ELSE {}
      BY <2>1, <2>2 DEF InTransit, Written
    <2>4. holds'[c] = IF op[c] = "alloc" THEN Run(c) ELSE {}
      BY <2>1 DEF DataTyped
    <2>5. QED
      BY <2>1, <2>3, <2>4 DEF Keeps, Owned
  <1>9. QED
    BY <1>1, <1>2, <1>3, <1>4, <1>5, <1>6, <1>7, <1>8 DEF Acts, Step

-----------------------------------------------------------------------------
\* The facts of a step that the lemmas below share: the acting CPU's effect, and
\* that a CPU which writes to the bitmap or counts is the only one at work.
Effect(c) ==
    /\ Keeps(c) \/ (Takes(c) /\ Working(c)) \/ (Gives(c) /\ Working(c))
    /\ \A d \in CPUs \ {c} : Untouched(d)
    /\ Working(c) => \A d \in CPUs \ {c} : ~Working(d)

LEMMA StepEffect ==
    ASSUME IInv, NEW c \in CPUs, Acts(c), ~gaveUp'
    PROVE  Effect(c) /\ ~gaveUp /\ Core
  <1>1. LockTypeOK /\ Excluded /\ DataTyped /\ Shape
    BY LockExcludes DEF IInv
  <1>2. ~gaveUp /\ Core
    BY <1>1, GaveUpStays DEF IInv
  <1>3. Working(c) => \A d \in CPUs \ {c} : ~Working(d)
    BY <1>1, <1>2 DEF Excluded
  <1>4. Keeps(c) \/ (Takes(c) /\ Working(c)) \/ (Gives(c) /\ Working(c))
    <2>1. MarkPage(c) \/ ClearPage(c) => Working(c)
      BY DEF MarkPage, ClearPage, Reached, Working
    <2>2. QED
      BY <1>1, <2>1, MarkTakes, ClearGives, OthersKeep
  <1>5. QED
    BY <1>1, <1>2, <1>3, <1>4, StepTouchesOne DEF Effect

LEMMA StepApart ==
    ASSUME IInv, NEW c \in CPUs, Acts(c), ~gaveUp'
    PROVE  OwnersApart' /\ BitsExact'
  <1> DEFINE q == index[c] + j[c]
  <1>1. Effect(c) /\ OwnersApart /\ BitsExact /\ RestFree /\ DataTyped /\ Shape
    BY StepEffect DEF Core, IInv
  <1>2. \A d \in CPUs \ {c} : Owned(d)' = Owned(d)
    BY <1>1, UntouchedKeeps DEF Effect
  <1>3. BootFree \subseteq Bytes
    BY SizeAssumption
  <1>4. CASE Keeps(c)
    BY <1>1, <1>2, <1>4 DEF Keeps, OwnersApart, BitsExact
  <1>5. CASE Takes(c)
    <2>1. q \in Bytes /\ bitmap[q] = 0
      <3>1. op[c] = "alloc"
        BY <1>1, <1>5 DEF Takes, Shape, ShapeOf
      <3>2. QED
        BY <1>1, <1>5, <3>1, RunInBytes DEF Takes, RestFree
    <2>2. q \in BootFree /\ \A d \in CPUs : q \notin Owned(d)
      BY <1>1, <2>1 DEF BitsExact
    <2>3. Owned(c)' = Owned(c) \cup {q}
      BY <1>5 DEF Takes
    <2>4. OwnersApart'
      BY <1>1, <1>2, <2>2, <2>3 DEF OwnersApart
    <2>5. bitmap'[q] = 1 /\ \A p \in Bytes : p # q => bitmap'[p] = bitmap[p]
      BY <1>1, <1>5, <2>1 DEF Takes, DataTyped
    <2>6. BitsExact'
      BY <1>1, <1>2, <2>2, <2>3, <2>5 DEF BitsExact
    <2>7. QED
      BY <2>4, <2>6
  <1>6. CASE Gives(c)
    <2>1. q \in Owned(c) /\ Owned(c)' = Owned(c) \ {q}
      BY <1>6 DEF Gives
    <2>2. q \in BootFree /\ q \in Bytes /\ \A d \in CPUs \ {c} : q \notin Owned(d)
      BY <1>1, <1>3, <2>1 DEF OwnersApart
    <2>3. OwnersApart'
      BY <1>1, <1>2, <2>1 DEF OwnersApart
    <2>4. bitmap'[q] = 0 /\ \A p \in Bytes : p # q => bitmap'[p] = bitmap[p]
      BY <1>1, <1>6, <2>2 DEF Gives, DataTyped
    <2>5. BitsExact'
      BY <1>1, <1>2, <2>1, <2>2, <2>4 DEF BitsExact
    <2>6. QED
      BY <2>3, <2>5
  <1>7. QED
    BY <1>1, <1>4, <1>5, <1>6 DEF Effect

\* The acting CPU's own scan: what it has counted, it has seen.
ScanExactOf(c) ==
    at[c] = "probe" /\ free_pages[c] = j[c] => \A k \in 0 .. j[c] - 1 : bitmap[index[c] + k] = 0
RestFreeOf(c) ==
    at[c] \in {"mark", "load", "store"} /\ op[c] = "alloc" =>
        \A p \in Run(c) \ Written(c) : bitmap[p] = 0

LEMMA OwnScan ==
    ASSUME IInv, NEW c \in CPUs, Acts(c), ~gaveUp'
    PROVE  ScanExactOf(c)' /\ RestFreeOf(c)'
  <1> USE DEF Goto, Zero
  <1>0. ShapeOf(c) /\ DataTyped /\ Shape /\ ScanExactOf(c) /\ RestFreeOf(c) /\ ~gaveUp
    BY StepEffect DEF IInv, Shape, Core, ScanExact, RestFree, ScanExactOf, RestFreeOf
  <1>1. CASE (\E n \in 1 .. MaxAlloc : CallAlloc(c, n)) \/ CallFree(c)
    <2>1. \/ (at'[c] = "clear" /\ op'[c] = "free")
          \/ (at'[c] = "probe" /\ j'[c] = 0)
      BY <1>1, <1>0 DEF CallAlloc, CallFree, DataTyped, ShapeOf
    <2>2. QED
      BY <2>1 DEF ScanExactOf, RestFreeOf
  <1>2. CASE InAcquire(c)
    BY <1>2, <1>0 DEF InAcquire, loopVars, ScanExactOf, RestFreeOf, Run, Written
  <1>3. CASE ProbeByte(c)
    <2>1. /\ at[c] = "probe" /\ at'[c] = "probe" /\ j'[c] = j[c] + 1 /\ free_pages'[c] = Found(c)
          /\ UNCHANGED <<bitmap, index>> /\ free_pages[c] <= j[c] /\ j[c] < size[c]
      BY <1>3, <1>0 DEF ProbeByte, ProbeUnchanged, Reached, DataTyped, ShapeOf
    <2>2. bitmap[index[c] + j[c]] \in {0, 1}
      BY <2>1, <1>0, RunInBytes DEF DataTyped
    <2>3. free_pages[c] \in Nat /\ j[c] \in Nat
      BY <1>0, Sizes DEF DataTyped
    <2>4. free_pages'[c] = j'[c] => free_pages[c] = j[c] /\ bitmap[index[c] + j[c]] = 0
      BY <2>1, <2>2, <2>3 DEF Found
    <2>5. ScanExactOf(c)'
      BY <2>1, <2>3, <2>4, <1>0 DEF ScanExactOf
    <2>6. QED
      BY <2>1, <2>5 DEF RestFreeOf
  <1>4. CASE ProbeFits(c)
    <2>1. /\ at[c] = "probe" /\ at'[c] = "mark" /\ UNCHANGED <<bitmap, index, size>>
          /\ free_pages[c] <= j[c] /\ j[c] + 1 = size[c] /\ Found(c) = size[c]
      BY <1>4, <1>0 DEF ProbeFits, ProbeUnchanged, Reached, DataTyped, ShapeOf, LastOfRun
    <2>2. j[c] \in Nat /\ index[c] \in Nat /\ size[c] \in Nat /\ free_pages[c] \in Nat
      BY <1>0, Sizes DEF DataTyped
    <2>3. bitmap[index[c] + j[c]] \in {0, 1}
      BY <2>1, <2>2, <1>0, RunInBytes DEF DataTyped
    <2>4. free_pages[c] = j[c] /\ bitmap[index[c] + j[c]] = 0
      BY <2>1, <2>2, <2>3 DEF Found
    <2>5. \A k \in 0 .. j[c] : bitmap[index[c] + k] = 0
      BY <2>1, <2>2, <2>4, <1>0 DEF ScanExactOf
    <2>6. \A p \in Run(c) : bitmap[p] = 0
      <3>1. \A p \in Run(c) : p - index[c] \in 0 .. j[c] /\ index[c] + (p - index[c]) = p
        BY <2>1, <2>2 DEF Run
      <3>2. QED
        BY <2>5, <3>1
    <2>7. QED
      BY <2>1, <2>6 DEF ScanExactOf, RestFreeOf, Run
  <1>5. CASE ProbeNext(c) \/ ProbeFails(c)
    <2>1. at'[c] = "return" \/ (at'[c] = "probe" /\ j'[c] = 0)
      BY <1>5, <1>0 DEF ProbeNext, ProbeFails, Reached, DataTyped
    <2>2. QED
      BY <2>1 DEF ScanExactOf, RestFreeOf
  <1>6. CASE MarkPage(c)
    <2>1. Takes(c) /\ at'[c] = "load" /\ at[c] = "mark" /\ op[c] = "alloc"
      BY <1>6, <1>0, MarkTakes DEF MarkPage, Reached, ShapeOf
    <2>2. index[c] + j[c] \in Bytes /\ Run(c) \subseteq Bytes
      BY <2>1, <1>0, RunInBytes DEF Takes
    <2>3. QED
      BY <2>1, <2>2, <1>0 DEF Takes, ScanExactOf, RestFreeOf, DataTyped
  <1>7. CASE ClearPage(c)
    <2>1. at'[c] = "load" /\ op'[c] = "free"
      BY <1>7, <1>0, ClearGives DEF ClearPage, Write, Reached, ShapeOf, loopVars
    <2>2. QED
      BY <2>1 DEF ScanExactOf, RestFreeOf
  <1>8. CASE LoadCount(c)
    BY <1>8, <1>0 DEF LoadCount, Reached, DataTyped, ScanExactOf, RestFreeOf, Run, Written
  <1>9. CASE StoreCount(c)
    <2>1. /\ at[c] = "store" /\ at'[c] \in {"return", "mark", "clear"} /\ j'[c] = j[c] + 1
          /\ UNCHANGED <<bitmap, op, index, size>>
      BY <1>9, <1>0 DEF StoreCount, Reached, DataTyped
    <2>2. Written(c)' = Written(c) /\ Run(c)' = Run(c)
      <3>1. \A p \in Run(c) : p \in Int
        BY <2>1, <1>0, RunInBytes, Sizes
      <3>2. j[c] \in Int /\ index[c] \in Int
        BY <1>0, Sizes DEF DataTyped
      <3>3. QED
        BY <2>1, <3>1, <3>2 DEF Written, Run
    <2>3. QED
      BY <2>1, <2>2, <1>0 DEF ScanExactOf, RestFreeOf
  <1>10. CASE Return(c)
    BY <1>10, <1>0 DEF Return, DataTyped, ScanExactOf, RestFreeOf
  <1>11. QED
    BY <1>1, <1>2, <1>3, <1>4, <1>5, <1>6, <1>7, <1>8, <1>9, <1>10 DEF Acts, Step

LEMMA StepScan ==
    ASSUME IInv, NEW c \in CPUs, Acts(c), ~gaveUp'
    PROVE  ScanExact' /\ RestFree'
  <1>1. Effect(c) /\ ScanExact /\ RestFree /\ DataTyped /\ Shape
    BY StepEffect DEF Core, IInv
  <1>2. ASSUME NEW d \in CPUs, d # c PROVE ScanExactOf(d)' /\ RestFreeOf(d)'
    <2>1. ScanExactOf(d) /\ RestFreeOf(d) /\ ShapeOf(d) /\ Untouched(d)
      BY <1>1, <1>2 DEF ScanExact, RestFree, ScanExactOf, RestFreeOf, Shape, Effect
    <2>2. CASE Keeps(c)
      BY <2>1, <2>2, UntouchedKeeps DEF Keeps, ScanExactOf, RestFreeOf, Untouched
    <2>3. CASE ~Working(d)
      <3>1. /\ at[d] \notin {"mark", "load", "store"}
            /\ at[d] = "probe" => j[d] = 0
        BY <2>1, <2>3 DEF ShapeOf
      <3>2. QED
        BY <2>1, <3>1 DEF Untouched, ScanExactOf, RestFreeOf
    <2>4. QED
      BY <1>1, <1>2, <2>2, <2>3 DEF Effect
  <1>3. QED
    BY <1>2, OwnScan DEF ScanExact, RestFree, ScanExactOf, RestFreeOf

-----------------------------------------------------------------------------
LEMMA ClearFinite ==
    ASSUME NEW S, S \subseteq Bytes
    PROVE  IsFiniteSet(S) /\ Cardinality(S) \in 0 .. Modulus - 1
  <1>1. IsFiniteSet(S) /\ Cardinality(S) <= Cardinality(Bytes)
    BY Sizes, FS_Subset
  <1>2. Cardinality(S) \in Nat
    BY <1>1, FS_CardinalityType
  <1>3. QED
    BY <1>1, <1>2, Sizes

\* Setting or clearing one byte changes the number of clear ones by one.
LEMMA OneByte ==
    ASSUME DataTyped, NEW q \in Bytes, NEW v \in {0, 1}, bitmap' = [bitmap EXCEPT ![q] = v],
           bitmap[q] # v
    PROVE  Cardinality(Clear') = Cardinality(Clear) + (IF v = 1 THEN -1 ELSE 1)
  <1>1. Clear \subseteq Bytes /\ Clear' \subseteq Bytes
    BY DEF Clear
  <1>2. /\ IsFiniteSet(Clear) /\ IsFiniteSet(Clear')
        /\ Cardinality(Clear) \in Nat /\ Cardinality(Clear') \in Nat
    BY <1>1, ClearFinite, FS_CardinalityType
  <1>3. CASE v = 1
    <2>1. Clear' = Clear \ {q} /\ q \in Clear
      BY <1>3 DEF Clear, DataTyped
    <2>2. Cardinality(Clear') = Cardinality(Clear) - 1
      BY <1>2, <2>1, FS_RemoveElement
    <2>3. QED
      BY <1>2, <1>3, <2>2
  <1>4. CASE v = 0
    <2>1. Clear' = Clear \cup {q} /\ q \notin Clear
      BY <1>4 DEF Clear, DataTyped
    <2>2. Cardinality(Clear') = Cardinality(Clear) + 1
      BY <1>2, <2>1, FS_AddElement
    <2>3. QED
      BY <1>2, <1>4, <2>2
  <1>5. QED
    BY <1>3, <1>4

\* No update is lost: between a call's write and the end of its counting no
\* other CPU writes or counts.
LEMMA StepCounted ==
    ASSUME IInv, NEW c \in CPUs, Acts(c), ~gaveUp'
    PROVE  Counted'
  <1> USE DEF Goto, Zero
  <1> DEFINE n == Cardinality(Clear)
  <1>1. Effect(c) /\ Core /\ DataTyped /\ Shape /\ ShapeOf(c)
    BY StepEffect DEF IInv, Shape
  <1>2. \A d \in CPUs : Counting(d) => Working(d)
    BY <1>1 DEF Shape, ShapeOf, Counting
  <1>3. n \in 0 .. Modulus - 1 /\ Modulus \in Nat /\ free_pages_global \in 0 .. Modulus - 1
    <2>1. Clear \subseteq Bytes
      BY DEF Clear
    <2>2. QED
      BY <1>1, <2>1, ClearFinite, Sizes DEF DataTyped
  <1>4. ASSUME NEW d \in CPUs \ {c}
        PROVE  /\ Counting(d)' <=> Counting(d)
               /\ Lag(d)' = Lag(d) /\ copy'[d] = copy[d] /\ at'[d] = at[d]
    BY <1>1, <1>4, UntouchedKeeps DEF Effect, Untouched
  <1>5. ASSUME UNCHANGED <<bitmap, free_pages_global>>, ~Counting(c), ~Counting(c)' PROVE Counted'
    <2>1. Clear' = Clear
      BY <1>5 DEF Clear
    <2>2. at'[c] # "store"
      BY <1>5 DEF Counting
    <2>3. QED
      BY <1>1, <1>4, <1>5, <2>1, <2>2 DEF Core, Counted
  <1>6. ASSUME Working(c) PROVE \A d \in CPUs \ {c} : ~Counting(d) /\ ~Counting(d)'
    BY <1>1, <1>2, <1>4, <1>6 DEF Effect
  <1>7. CASE (\E k \in 1 .. MaxAlloc : CallAlloc(c, k)) \/ CallFree(c) \/ Return(c)
    BY <1>5, <1>7, <1>1 DEF CallAlloc, CallFree, Return, Reached, Counting, DataTyped
  <1>8. CASE InAcquire(c)
    <2>1. ~Working(c) /\ at' = at /\ UNCHANGED <<bitmap, free_pages_global>>
      BY <1>8, PlacesMove, LockExcludes DEF IInv, InAcquire
    <2>2. QED
      BY <1>2, <1>5, <2>1 DEF Counting
  <1>9. CASE ProbeByte(c) \/ ProbeFits(c) \/ ProbeNext(c) \/ ProbeFails(c)
    BY <1>5, <1>9, <1>1 DEF ProbeByte, ProbeFits, ProbeNext, ProbeFails, ProbeUnchanged, Reached,
                             Counting, DataTyped
  <1>10. CASE MarkPage(c) \/ ClearPage(c)
    <2> DEFINE q == index[c] + j[c]
    <2>1. /\ ~Counting(c) /\ Working(c) /\ at'[c] = "load"
          /\ UNCHANGED <<free_pages_global, op, copy>>
      BY <1>10, <1>1 DEF MarkPage, ClearPage, Write, Reached, Working, Counting, DataTyped, loopVars
    <2>2. free_pages_global = n
      BY <1>1, <1>6, <2>1 DEF Core, Counted
    <2>3. Cardinality(Clear') = n + (IF op[c] = "alloc" THEN -1 ELSE 1)
      <3>1. CASE MarkPage(c)
        <4>1. op[c] = "alloc" /\ Takes(c)
          BY <3>1, <1>1, MarkTakes DEF MarkPage, Reached, ShapeOf
        <4>2. q \in Bytes /\ bitmap[q] = 0
          BY <4>1, <1>1, RunInBytes DEF Takes, Core, RestFree
        <4>3. bitmap' = [bitmap EXCEPT ![q] = 1] /\ bitmap[q] # 1 /\ 1 \in {0, 1}
          BY <4>1, <4>2 DEF Takes
        <4>4. Cardinality(Clear') = Cardinality(Clear) + (IF 1 = 1 THEN -1 ELSE 1)
          BY <1>1, <4>2, <4>3, OneByte
        <4>5. QED
          BY <4>1, <4>4
      <3>2. CASE ClearPage(c)
        <4>1. op[c] = "free" /\ Gives(c)
          BY <3>2, <1>1, ClearGives DEF ClearPage, Reached, ShapeOf
        <4>2. q \in Bytes /\ bitmap[q] # 0
          BY <4>1, <1>1, SizeAssumption DEF Gives, Core, OwnersApart, BitsExact
        <4>3. bitmap' = [bitmap EXCEPT ![q] = 0] /\ bitmap[q] # 0 /\ 0 \in {0, 1}
          BY <4>1, <4>2 DEF Gives
        <4>4. Cardinality(Clear') = Cardinality(Clear) + (IF 0 = 1 THEN -1 ELSE 1)
          BY <1>1, <4>2, <4>3, OneByte
        <4>5. QED
          BY <4>1, <4>4
      <3>3. QED
        BY <1>10, <3>1, <3>2
    <2>4. free_pages_global' = Cardinality(Clear') + Lag(c)'
      BY <1>3, <2>1, <2>2, <2>3 DEF Lag
    <2>5. Counting(c)'
      BY <2>1 DEF Counting
    <2>6. at'[c] # "store" /\ \A d \in CPUs \ {c} : at'[d] # "store"
      BY <1>6, <2>1 DEF Counting
    <2>7. QED
      BY <1>6, <2>1, <2>4, <2>5, <2>6 DEF Counted
  <1>11. CASE LoadCount(c)
    <2>1. /\ Counting(c) /\ Working(c) /\ Counting(c)' /\ UNCHANGED <<bitmap, free_pages_global, op>>
          /\ copy'[c] = free_pages_global
      BY <1>11, <1>1 DEF LoadCount, Reached, Working, Counting, DataTyped
    <2>2. Clear' = Clear /\ Lag(c)' = Lag(c)
      BY <2>1 DEF Clear, Lag
    <2>3. \A d \in CPUs \ {c} : at'[d] # "store"
      BY <1>6, <2>1 DEF Counting
    <2>4. QED
      BY <1>1, <1>6, <2>1, <2>2, <2>3 DEF Core, Counted
  <1>12. CASE StoreCount(c)
    <2>1. /\ at[c] = "store" /\ Counting(c) /\ Working(c) /\ ~Counting(c)' /\ bitmap' = bitmap
          /\ free_pages_global' = (copy[c] + IF op[c] = "alloc" THEN -1 ELSE 1) % Modulus
      BY <1>12, <1>1 DEF StoreCount, Reached, Working, Counting, DataTyped
    <2>2. copy[c] = n + Lag(c) /\ Clear' = Clear
      BY <1>1, <2>1 DEF Core, Counted, Clear
    <2>3. copy[c] + (IF op[c] = "alloc" THEN -1 ELSE 1) = n
      BY <1>3, <2>2 DEF Lag
    <2>4. n % Modulus = n
      BY <1>3
    <2>5. free_pages_global' = Cardinality(Clear')
      BY <2>1, <2>2, <2>3, <2>4
    <2>6. \A d \in CPUs : ~Counting(d)'
      BY <1>6, <2>1
    <2>7. QED
      BY <2>5, <2>6 DEF Counted, Counting
  <1>13. QED
    BY <1>1, <1>7, <1>8, <1>9, <1>10, <1>11, <1>12 DEF Acts, Step

-----------------------------------------------------------------------------
LEMMA NextActs == Next => \E c \in CPUs : Acts(c)
  BY DEF Next, Acts

LEMMA StepIInv == IInv /\ [Next]_vars => IInv'
  <1>1. ASSUME IInv, NEW c \in CPUs, Acts(c) PROVE IInv'
    <2>1. LockTypeOK /\ DataTyped /\ Shape
      BY <1>1, LockExcludes DEF IInv
    <2>2. CallAcquire(c) \/ Acquiring(c) \/ Release(c) \/ UNCHANGED lockVars
      BY <1>1 DEF Acts, Step, CallAlloc, CallFree, InAcquire, ProbeByte, ProbeFits, ProbeNext,
           ProbeFails, ProbeUnchanged, MarkPage, ClearPage, Write, LoadCount, StoreCount, Return
    <2>3. LockInv'
      BY <1>1, <2>2, LockMoves, LockStep DEF IInv
    <2>4. DataTyped' /\ ShapeOf(c)'
      BY <1>1, <2>1, StepShapeOf
    <2>5. Shape'
      <3>1. ASSUME NEW d \in CPUs \ {c} PROVE ShapeOf(d)'
        BY <1>1, <2>1, StepTouchesOne DEF Shape, ShapeOf, Untouched, Working
      <3>2. QED
        BY <2>4, <3>1 DEF Shape
    <2>6. ~gaveUp' => Core'
      BY <1>1, StepApart, StepScan, StepCounted DEF Core
    <2>7. QED
      BY <2>3, <2>4, <2>5, <2>6 DEF IInv
  <1>2. ASSUME IInv, UNCHANGED vars PROVE IInv'
    <2>1. LockInv'
      BY <1>2, LockStep DEF IInv, vars
    <2>2. DataTyped' /\ Shape'
      BY <1>2 DEF IInv, vars, lockVars, loopVars, DataTyped, Shape, ShapeOf, Working
    <2>3. gaveUp' = gaveUp /\ \A c \in CPUs : Untouched(c)
      BY <1>2 DEF vars, lockVars, loopVars, Untouched
    <2>4. \A c \in CPUs : /\ Run(c)' = Run(c) /\ Written(c)' = Written(c) /\ Owned(c)' = Owned(c)
                          /\ Lag(c)' = Lag(c) /\ (Counting(c)' <=> Counting(c))
      BY <2>3, UntouchedKeeps
    <2>5. UNCHANGED <<bitmap, free_pages_global, at, op, index, j, free_pages, copy>> /\ Clear' = Clear
      BY <1>2 DEF vars, loopVars, Clear
    <2>6. ASSUME Core PROVE Core'
      <3>1. OwnersApart' /\ BitsExact'
        BY <2>4, <2>5, <2>6 DEF Core, OwnersApart, BitsExact
      <3>2. ScanExact' /\ RestFree'
        BY <2>4, <2>5, <2>6 DEF Core, ScanExact, RestFree
      <3>3. Counted'
        BY <2>4, <2>5, <2>6 DEF Core, Counted
      <3>4. QED
        BY <3>1, <3>2, <3>3 DEF Core
    <2>7. QED
      BY <1>2, <2>1, <2>2, <2>3, <2>6 DEF IInv
  <1>3. QED
    BY <1>1, <1>2, NextActs

LEMMA Invariance == Spec => []IInv
  BY InitIInv, StepIInv, PTL DEF Spec

-----------------------------------------------------------------------------
\* The variables keep their types: in particular the scan and the loops never
\* leave the bytes 0 .. bitmap_size + MaxAlloc - 2, whatever happens to the lock.
THEOREM PmmLockedTyping == Spec => []TypeOK
  <1>1. IInv => TypeOK
    BY LockExcludes DEF IInv, DataTyped, TypeOK
  <1>2. QED
    BY Invariance, <1>1, PTL

\* Until an acquire gives up, every page that was free at boot is free, with
\* one CPU's block, or in one call's hands.
THEOREM NoPageLost == Spec => []PagesConserved
  <1>1. IInv => PagesConserved
    <2> SUFFICES ASSUME IInv, ~gaveUp, NEW p \in Bytes
                 PROVE  Cardinality({c \in CPUs : p \in holds[c]})
                          + Cardinality({c \in CPUs : p \in InTransit(c)})
                          + (1 - bitmap[p]) = IF p \in BootFree THEN 1 ELSE 0
      BY DEF PagesConserved
    <2> DEFINE S == {c \in CPUs : p \in holds[c]}
               T == {c \in CPUs : p \in InTransit(c)}
    <2>1. /\ OwnersApart /\ BitsExact /\ Shape /\ bitmap[p] \in {0, 1}
      BY DEF IInv, Core, DataTyped
    <2>2. S \cap T = {}
      BY <2>1 DEF InTransit, Shape, ShapeOf
    <2>3. /\ S \subseteq CPUs /\ T \subseteq CPUs
          /\ \A c \in CPUs : p \in Owned(c) <=> c \in S \cup T
      BY DEF Owned
    <2> SUFFICES Cardinality(S) + Cardinality(T) + (1 - bitmap[p]) = IF p \in BootFree THEN 1 ELSE 0
      OBVIOUS
    <2> HIDE DEF S, T
    <2>4. CASE \E c \in CPUs : p \in Owned(c)
      <3>1. PICK c \in CPUs : p \in Owned(c)
        BY <2>4
      <3>2. S \subseteq {c} /\ T \subseteq {c} /\ c \in S \cup T
        BY <2>1, <2>3, <3>1 DEF OwnersApart
      <3>3. Cardinality(S) + Cardinality(T) = 1
        <4>1. Cardinality({}) = 0 /\ Cardinality({c}) = 1
          BY FS_EmptySet, FS_Singleton
        <4>2. (S = {} \/ S = {c}) /\ (T = {} \/ T = {c})
          BY <3>2
        <4>3. CASE S = {}
          <5>1. T = {c}
            BY <3>2, <4>2, <4>3
          <5>2. QED
            BY <4>1, <4>3, <5>1
        <4>4. CASE S = {c}
          <5>1. T = {}
            BY <2>2, <4>2, <4>4
          <5>2. QED
            BY <4>1, <4>4, <5>1
        <4>5. QED
          BY <4>2, <4>3, <4>4
      <3>4. p \in BootFree /\ bitmap[p] = 1
        BY <2>1, <3>1 DEF OwnersApart, BitsExact
      <3>5. QED
        BY <3>3, <3>4
    <2>5. CASE \A c \in CPUs : p \notin Owned(c)
      <3>1. S = {} /\ T = {}
        BY <2>3, <2>5
      <3>2. Cardinality(S) = 0 /\ Cardinality(T) = 0
        BY <3>1, FS_EmptySet
      <3>3. bitmap[p] = 0 <=> p \in BootFree
        BY <2>1, <2>5 DEF BitsExact
      <3>4. QED
        BY <2>1, <3>2, <3>3
    <2>6. QED
      BY <2>4, <2>5
  <1>2. QED
    BY Invariance, <1>1, PTL

\* Until then no update of the count is lost: whenever the lock is free, it is
\* the number of clear bytes.
THEOREM CountIsExact == Spec => []CountExact
  <1>1. IInv => CountExact
    <2> SUFFICES ASSUME IInv, ~gaveUp, ~locked PROVE free_pages_global = Cardinality(Clear)
      BY DEF CountExact, Clear
    <2>1. \A c \in CPUs : ~Working(c)
      BY LockExcludes DEF IInv, Excluded
    <2>2. \A c \in CPUs : ~Counting(c)
      BY <2>1 DEF IInv, Shape, ShapeOf, Counting
    <2>3. QED
      BY <2>2 DEF IInv, Core, Counted
  <1>2. QED
    BY Invariance, <1>1, PTL

-----------------------------------------------------------------------------
LEMMA InitContract == Init => Contract!Init
  BY DEF Init, Contract!Init

\* A return that hands out a block finds its pages with no other CPU.
LEMMA StepContract == IInv /\ [Next]_vars => [~gaveUp' => Contract!Next]_holds
  <1> SUFFICES ASSUME IInv, NEW c \in CPUs, Acts(c), ~gaveUp', holds' # holds
               PROVE  Contract!Next
    BY NextActs DEF vars
  <1>1. Effect(c) /\ OwnersApart /\ DataTyped /\ Shape
    BY StepEffect DEF Core, IInv
  <1>2. CASE CallFree(c)
    BY <1>2 DEF CallFree, Contract!Next, Contract!TakeBack
  <1>3. CASE Return(c)
    <2>1. op[c] = "alloc" /\ holds' = [holds EXCEPT ![c] = Run(c)] /\ at[c] = "return"
      BY <1>3 DEF Return, Reached
    <2>2. holds[c] = {} /\ j[c] = size[c] /\ Run(c) \subseteq Bytes
      BY <1>1, <2>1, RunInBytes DEF Shape, ShapeOf
    <2>3. Owned(c) = Run(c)
      <3>1. Written(c) = Run(c)
        BY <1>1, <2>1, <2>2, RunInBytes, Sizes DEF Written, Run
      <3>2. QED
        BY <2>1, <2>2, <3>1 DEF Owned, InTransit, Written
    <2>4. \A d \in CPUs : holds[d] \cap Run(c) = {}
      BY <1>1, <2>2, <2>3 DEF OwnersApart, Owned
    <2>5. holds'[c] = Run(c)
      BY <1>1, <2>1 DEF DataTyped
    <2>6. Contract!HandOut(c)
      BY <2>1, <2>2, <2>4, <2>5 DEF Contract!HandOut
    <2>7. QED
      BY <2>6 DEF Contract!Next
  <1>4. CASE Step(c) /\ ~Return(c)
    BY <1>4 DEF Step, InAcquire, ProbeByte, ProbeFits, ProbeNext, ProbeFails,
           ProbeUnchanged, MarkPage, ClearPage, Write, LoadCount, StoreCount
  <1>5. CASE \E n \in 1 .. MaxAlloc : CallAlloc(c, n)
    BY <1>5 DEF CallAlloc
  <1>6. QED
    BY <1>2, <1>3, <1>4, <1>5 DEF Acts

\* Several CPUs keep PageContract, access by access, until an acquire gives up:
\* no page is handed out that somebody has.
THEOREM ContractHolds == Spec => ImplementsContract
  BY InitContract, StepContract, Invariance, PTL DEF Spec, ImplementsContract
=============================================================================

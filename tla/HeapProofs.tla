----------------------------- MODULE HeapProofs -----------------------------
(***************************************************************************)
(* Theorems about the heap of Heap, for every page size, number of objects *)
(* of a slab, list of classes, set of sizes and bound that satisfy         *)
(* HeapAssumption.  The operators are reasoned about for any list of slabs *)
(* and any set of pointers in use, so that the lemmas on malloc and free   *)
(* compose to realloc.                                                     *)
(***************************************************************************)
EXTENDS Heap, FiniteSetTheorems, WellFoundedInduction, TLAPS

-----------------------------------------------------------------------------
(* Arithmetic. *)

LEMMA MulOrder ==
    ASSUME NEW a \in Nat, NEW b \in Nat, NEW s \in Nat, a < b
    PROVE  a * s + s <= b * s
  <1>1. PICK d \in Nat : b = a + 1 + d
    <2>1. b = a + 1 + (b - a - 1) /\ b - a - 1 \in Nat
      OBVIOUS
    <2>2. QED
      BY <2>1
  <1>2. b * s = a * s + s + d * s
    BY <1>1
  <1>3. d * s \in Nat /\ a * s \in Nat
    BY <1>1
  <1>4. QED
    BY <1>2, <1>3

LEMMA DivRange ==
    ASSUME NEW x \in Nat, NEW s \in Nat \ {0}
    PROVE  x \div s \in Nat /\ (x \div s) * s <= x /\ x < (x \div s) * s + s
  OBVIOUS

LEMMA DivUnique ==
    ASSUME NEW x \in Nat, NEW s \in Nat \ {0}, NEW k \in Nat, k * s <= x, x < k * s + s
    PROVE  x \div s = k
  <1>1. x \div s \in Nat /\ (x \div s) * s <= x /\ x < (x \div s) * s + s
    BY DivRange
  <1>2. ~(x \div s < k)
    <2> SUFFICES ASSUME x \div s < k PROVE FALSE
      OBVIOUS
    <2>1. (x \div s) * s + s <= k * s
      BY <1>1, MulOrder
    <2>2. QED
      BY <1>1, <2>1
  <1>3. ~(k < x \div s)
    <2> SUFFICES ASSUME k < x \div s PROVE FALSE
      OBVIOUS
    <2>1. k * s + s <= (x \div s) * s
      BY <1>1, MulOrder
    <2>2. QED
      BY <1>1, <2>1
  <1>4. QED
    BY <1>1, <1>2, <1>3

\* A quotient is below a bound that its dividend is a multiple below.
LEMMA DivBelow ==
    ASSUME NEW x \in Nat, NEW s \in Nat \ {0}, NEW k \in Nat, x < k * s
    PROVE  x \div s < k
  <1>1. x \div s \in Nat /\ (x \div s) * s <= x
    BY DivRange
  <1>2. ~(k < x \div s) /\ k # x \div s
    <2>1. ASSUME k < x \div s PROVE FALSE
      <3>1. k * s + s <= (x \div s) * s
        BY <1>1, <2>1, MulOrder
      <3>2. k * s \in Nat /\ (x \div s) * s \in Nat
        BY <1>1
      <3>3. QED
        BY <1>1, <3>1, <3>2
    <2>2. QED
      BY <1>1, <2>1
  <1>3. QED
    BY <1>1, <1>2

NatOrder == {ss \in Nat \X Nat : ss[1] < ss[2]}

\* The least member of a set of numbers is a member of it.
LEMMA LeastIn ==
    ASSUME NEW S \in SUBSET Nat, S # {}
    PROVE  Least(S) \in S
  <1>1. IsWellFoundedOn(NatOrder, Nat)
    BY NatLessThanWellFounded DEF OpToRel, NatOrder
  <1>2. PICK x \in S : \A y \in S : ~(<<y, x>> \in NatOrder)
    BY <1>1, WFMin
  <1>3. ASSUME NEW y \in S PROVE x <= y
    <2>1. x \in Nat /\ y \in Nat /\ <<y, x>> \in Nat \X Nat
      OBVIOUS
    <2>2. y < x => <<y, x>> \in NatOrder
      BY <2>1 DEF NatOrder
    <2>3. QED
      BY <1>2, <2>1, <2>2
  <1>4. QED
    BY <1>3 DEF Least

-----------------------------------------------------------------------------
(* Where things lie. *)

PageOf(a) == a \div page_size
WholePages(a) == a = PageOf(a) * page_size

\* The pages of a slab's objects, and those of a block of pages.
DataOf(s) == PageOf(s.base) .. PageOf(s.base) + DataPages(s.obj_size) - 1
BlockOf(q) == PageOf(q.addr) .. PageOf(q.addr) + PageOf(q.len) - 1

\* q points to object k of slab n of the list.
Object(sl, q, n, k) ==
    /\ ~q.paged
    /\ q.addr = sl[n].base + k * sl[n].obj_size
    /\ q.len = sl[n].obj_size /\ q.asked <= q.len

\* Every slab has pages below the next one of the pool for its objects, which
\* no other slab's objects and nobody's books lie in.
SlabsPlaced(sl, po) ==
    \A n \in DOMAIN sl :
        /\ WholePages(sl[n].base)
        /\ DataOf(sl[n]) \subseteq 1 .. po - 1 /\ sl[n].books \subseteq 1 .. po - 1
        /\ \A m \in DOMAIN sl : /\ DataOf(sl[m]) \cap sl[n].books = {}
                                /\ m # n => DataOf(sl[m]) \cap DataOf(sl[n]) = {}

\* A pointer in use is that of an object, or of pages that are nothing else's.
PointersPlaced(sl, po, H) ==
    \A q \in H :
        /\ q.paged => /\ WholePages(q.addr) /\ WholePages(q.len)
                      /\ BlockOf(q) \subseteq 1 .. po - 1
                      /\ \A n \in DOMAIN sl : BlockOf(q) \cap (DataOf(sl[n]) \cup sl[n].books) = {}
        /\ ~q.paged => \E n \in DOMAIN sl, k \in 0 .. ObjCount - 1 : Object(sl, q, n, k)
        /\ \A r \in H \ {q} : IF q.paged THEN r.paged => BlockOf(q) \cap BlockOf(r) = {}
                                         ELSE ~r.paged => q.addr # r.addr

InUse(sl, H, n, k) == \E q \in H : Object(sl, q, n, k)

\* An object in use is marked; one that is marked and not in use lies where
\* obj_count does not reach.
MarksRight(sl, H) ==
    \A n \in DOMAIN sl, k \in 0 .. ObjCount - 1 :
        /\ InUse(sl, H, n, k) => sl[n].bitmap[k] = 1
        /\ sl[n].bitmap[k] = 1 /\ ~InUse(sl, H, n, k) => k >= sl[n].obj_count

Counted(sl) ==
    \A n \in DOMAIN sl :
        sl[n].used_objs - (ObjCount - sl[n].obj_count) = Cardinality(Marked(sl[n]))

Sound(sl, po, H) ==
    SlabsPlaced(sl, po) /\ PointersPlaced(sl, po, H) /\ MarksRight(sl, H) /\ Counted(sl)

Backed(sl) == \A n \in DOMAIN sl : sl[n].base # 0

\* The pages of a slab's objects hold all of them.
LEMMA RoomForObjects ==
    ASSUME NEW size \in 1 .. ObjCount
    PROVE  /\ DataPages(size) \in Nat /\ DataPages(size) >= 1
           /\ ObjCount * size \in Nat /\ ObjCount * size <= DataPages(size) * page_size
  <1>1. /\ ObjCount \in Nat /\ ObjCount >= 1 /\ page_size \in Nat \ {0}
        /\ size \in Nat /\ size >= 1
    BY HeapAssumption
  <1>2. ObjCount * size \in Nat /\ ObjCount * size >= 1
    BY <1>1
  <1> DEFINE x == ObjCount * size + page_size - 1
             d == DataPages(size)
  <1>3. x \in Nat /\ d = x \div page_size
    BY <1>1, <1>2 DEF DataPages
  <1>4. d \in Nat /\ d * page_size <= x /\ x < d * page_size + page_size
    BY <1>1, <1>3, DivRange
  <1>5. d * page_size \in Nat
    BY <1>1, <1>4
  <1>6. ObjCount * size <= d * page_size
    BY <1>1, <1>2, <1>4, <1>5
  <1>7. d # 0
    BY <1>1, <1>2, <1>6
  <1>8. QED
    BY <1>2, <1>4, <1>6, <1>7

\* A byte below n whole pages from page f on lies in one of these pages.
LEMMA PageAmong ==
    ASSUME NEW f \in Nat, NEW n \in Nat, NEW a \in Nat,
           f * page_size <= a, a < f * page_size + n * page_size
    PROVE  PageOf(a) \in f .. f + n - 1
  <1> DEFINE g == PageOf(a)
  <1>1. page_size \in Nat \ {0}
    BY HeapAssumption
  <1>2. g \in Nat /\ g * page_size <= a /\ a < g * page_size + page_size
    BY <1>1, DivRange DEF PageOf
  <1> HIDE DEF g
  <1>3. f * page_size \in Nat /\ g * page_size \in Nat /\ n * page_size \in Nat
    BY <1>1, <1>2
  <1>4. ~(g < f)
    <2> SUFFICES ASSUME g < f PROVE FALSE
      OBVIOUS
    <2>1. g * page_size + page_size <= f * page_size
      BY <1>1, <1>2, MulOrder
    <2>2. QED
      BY <1>1, <1>2, <1>3, <2>1
  <1>5. g < f + n
    <2>1. (f + n) * page_size = f * page_size + n * page_size
      BY <1>1
    <2>2. a < (f + n) * page_size
      BY <2>1
    <2>3. f + n \in Nat
      OBVIOUS
    <2>4. a \div page_size < f + n
      BY <1>1, <2>2, <2>3, DivBelow
    <2>5. QED
      BY <2>4 DEF g, PageOf
  <1>6. QED
    BY <1>2, <1>4, <1>5 DEF g
LEMMA SlabTyped ==
    ASSUME NEW sl \in Seq(Slab), NEW n \in DOMAIN sl
    PROVE  /\ sl[n] \in Slab /\ n \in Nat /\ n >= 1 /\ n <= Len(sl)
           /\ sl[n].base \in Nat /\ sl[n].obj_size \in 1 .. ObjCount
           /\ sl[n].obj_count \in 0 .. ObjCount /\ sl[n].used_objs \in Nat
           /\ sl[n].books \subseteq 1 .. Pages
           /\ sl[n].bitmap \in [0 .. ObjCount - 1 -> {0, 1}]
           /\ ObjCount \in Nat /\ ObjCount >= 1 /\ page_size \in Nat \ {0}
  <1>1. sl[n] \in Slab /\ n \in Nat /\ n >= 1 /\ n <= Len(sl)
    OBVIOUS
  <1>2. /\ sl[n].base \in Nat /\ sl[n].obj_size \in 1 .. ObjCount
        /\ sl[n].obj_count \in 0 .. ObjCount /\ sl[n].used_objs \in Nat
        /\ sl[n].books \subseteq 1 .. Pages
        /\ sl[n].bitmap \in [0 .. ObjCount - 1 -> {0, 1}]
    BY <1>1 DEF Slab
  <1>3. ObjCount \in Nat /\ ObjCount >= 1 /\ page_size \in Nat \ {0}
    BY HeapAssumption
  <1>4. QED
    BY <1>1, <1>2, <1>3

\* The bytes of an object lie in the pages of its slab's objects.
LEMMA ObjectInside ==
    ASSUME NEW sl \in Seq(Slab), NEW n \in DOMAIN sl, NEW k \in 0 .. ObjCount - 1,
           WholePages(sl[n].base), NEW a \in Nat,
           sl[n].base + k * sl[n].obj_size <= a,
           a < sl[n].base + k * sl[n].obj_size + sl[n].obj_size
    PROVE  /\ k * sl[n].obj_size \in Nat
           /\ sl[n].base <= a /\ a < sl[n].base + ObjCount * sl[n].obj_size
           /\ PageOf(a) \in DataOf(sl[n])
  <1> DEFINE b == sl[n].base
             s == sl[n].obj_size
             f == PageOf(b)
             d == DataPages(s)
  <1>1. b \in Nat /\ s \in 1 .. ObjCount /\ ObjCount \in Nat /\ page_size \in Nat \ {0}
    BY SlabTyped
  <1>2. s \in Nat /\ k \in Nat /\ k < ObjCount
    BY <1>1
  <1>3. d \in Nat /\ ObjCount * s \in Nat /\ ObjCount * s <= d * page_size
    BY <1>1, RoomForObjects
  <1>4. f \in Nat /\ b = f * page_size
    BY <1>1, DivRange DEF WholePages, PageOf
  <1>5. b + k * s <= a /\ a < b + k * s + s
    OBVIOUS
  <1> HIDE DEF b, s, f, d
  <1>6. k * s + s <= ObjCount * s
    BY <1>1, <1>2, MulOrder
  <1>7. k * s \in Nat /\ d * page_size \in Nat
    BY <1>1, <1>2, <1>3
  <1>8. b <= a /\ a < b + ObjCount * s /\ a < b + d * page_size
    <2> DEFINE x == k * s
               y == ObjCount * s
               z == d * page_size
    <2>1. /\ x \in Nat /\ y \in Nat /\ z \in Nat /\ y <= z /\ x + s <= y
          /\ b + x <= a /\ a < b + x + s
      BY <1>3, <1>5, <1>6, <1>7
    <2> SUFFICES b <= a /\ a < b + y /\ a < b + z
      OBVIOUS
    <2> HIDE DEF x, y, z
    <2>2. QED
      BY <1>1, <1>2, <2>1
  <1>9. PageOf(a) \in f .. f + d - 1
    BY <1>3, <1>4, <1>8, PageAmong
  <1>10. QED
    BY <1>7, <1>8, <1>9 DEF DataOf, b, s, f, d

\* So does every byte below the first c objects' end.
LEMMA WithinData ==
    ASSUME NEW sl \in Seq(Slab), NEW n \in DOMAIN sl, WholePages(sl[n].base), NEW a \in Nat,
           NEW c \in 0 .. ObjCount,
           sl[n].base <= a, a < sl[n].base + c * sl[n].obj_size
    PROVE  PageOf(a) \in DataOf(sl[n])
  <1> DEFINE b == sl[n].base
             s == sl[n].obj_size
             f == PageOf(b)
             d == DataPages(s)
             x == c * s
             y == ObjCount * s
             z == d * page_size
  <1>1. /\ b \in Nat /\ s \in 1 .. ObjCount /\ ObjCount \in Nat /\ page_size \in Nat \ {0}
        /\ c \in Nat /\ c <= ObjCount /\ s \in Nat
    BY SlabTyped
  <1>2. d \in Nat /\ y \in Nat /\ y <= z
    BY <1>1, RoomForObjects
  <1>3. f \in Nat /\ b = f * page_size
    BY <1>1, DivRange DEF WholePages, PageOf
  <1>4. b <= a /\ a < b + x
    OBVIOUS
  <1> HIDE DEF b, s, f, d
  <1>5. x <= y
    <2>1. CASE c < ObjCount
      <3>1. c * s + s <= ObjCount * s
        BY <1>1, <2>1, MulOrder
      <3>2. c * s \in Nat
        BY <1>1
      <3>3. QED
        BY <1>1, <1>2, <3>1, <3>2
    <2>2. CASE c = ObjCount
      BY <1>2, <2>2
    <2>3. QED
      BY <1>1, <2>1, <2>2
  <1>6. x \in Nat /\ z \in Nat
    BY <1>1, <1>2
  <1>7. a < b + z
    <2> HIDE DEF x, y, z
    <2>1. QED
      BY <1>1, <1>2, <1>4, <1>5, <1>6
  <1>8. PageOf(a) \in f .. f + d - 1
    BY <1>2, <1>3, <1>4, <1>7, PageAmong
  <1>9. QED
    BY <1>8 DEF DataOf, b, s, f, d

\* In particular the address of an object.
LEMMA ObjectAddress ==
    ASSUME NEW sl \in Seq(Slab), NEW n \in DOMAIN sl, NEW k \in 0 .. ObjCount - 1,
           WholePages(sl[n].base), NEW q, q.addr \in Nat, Object(sl, q, n, k)
    PROVE  /\ sl[n].base <= q.addr /\ q.addr < sl[n].base + ObjCount * sl[n].obj_size
           /\ PageOf(q.addr) \in DataOf(sl[n])
  <1>1. /\ sl[n].obj_size \in Nat /\ sl[n].obj_size >= 1 /\ sl[n].base \in Nat
    BY SlabTyped
  <1>2. q.addr = sl[n].base + k * sl[n].obj_size
    BY DEF Object
  <1> DEFINE a == q.addr
  <1>3. /\ a \in Nat /\ sl[n].base + k * sl[n].obj_size <= a
        /\ a < sl[n].base + k * sl[n].obj_size + sl[n].obj_size
    BY <1>1, <1>2
  <1> HIDE DEF a
  <1>4. /\ sl[n].base <= a /\ a < sl[n].base + ObjCount * sl[n].obj_size
        /\ PageOf(a) \in DataOf(sl[n])
    BY <1>3, ObjectInside
  <1>5. QED
    BY <1>4 DEF a

\* A pointer is that of one object at most.
LEMMA ObjectOnce ==
    ASSUME NEW sl \in Seq(Slab), NEW po, SlabsPlaced(sl, po),
           NEW q, q.addr \in Nat, NEW m \in DOMAIN sl, NEW n \in DOMAIN sl,
           NEW k \in 0 .. ObjCount - 1, NEW l \in 0 .. ObjCount - 1,
           Object(sl, q, m, k), Object(sl, q, n, l)
    PROVE  m = n /\ k = l
  <1>1. /\ sl[m].obj_size \in Nat /\ sl[m].obj_size >= 1 /\ sl[m].base \in Nat
        /\ sl[n].obj_size \in Nat /\ sl[n].obj_size >= 1 /\ sl[n].base \in Nat
    BY SlabTyped
  <1>2. WholePages(sl[m].base) /\ WholePages(sl[n].base)
    BY DEF SlabsPlaced
  <1>3. PageOf(q.addr) \in DataOf(sl[m])
    BY <1>2, ObjectAddress
  <1>4. PageOf(q.addr) \in DataOf(sl[n])
    BY <1>2, ObjectAddress
  <1>5. m = n
    BY <1>3, <1>4 DEF SlabsPlaced
  <1>6. k * sl[m].obj_size = l * sl[m].obj_size
    <2>1. k * sl[m].obj_size \in Nat /\ l * sl[m].obj_size \in Nat
      BY <1>1
    <2>2. QED
      BY <1>1, <1>5, <2>1, SMTT(20) DEF Object
  <1>7. k \in Nat /\ l \in Nat
    OBVIOUS
  <1>8. ~(k < l) /\ ~(l < k)
    <2>1. k < l => k * sl[m].obj_size + sl[m].obj_size <= l * sl[m].obj_size
      BY <1>1, <1>7, MulOrder
    <2>2. l < k => l * sl[m].obj_size + sl[m].obj_size <= k * sl[m].obj_size
      BY <1>1, <1>7, MulOrder
    <2>3. k * sl[m].obj_size \in Nat /\ l * sl[m].obj_size \in Nat
      BY <1>1, <1>7
    <2>4. QED
      BY <1>1, <1>6, <2>1, <2>2, <2>3
  <1>9. QED
    BY <1>5, <1>7, <1>8

\* Two objects of a slab that start apart share no byte.
LEMMA ObjectsApart ==
    ASSUME NEW sl \in Seq(Slab), NEW n \in DOMAIN sl, NEW q, NEW r,
           NEW k \in 0 .. ObjCount - 1, NEW l \in 0 .. ObjCount - 1,
           Object(sl, q, n, k), Object(sl, r, n, l), q.addr < r.addr
    PROVE  q.addr + q.len <= r.addr
  <1> DEFINE s == sl[n].obj_size
             b == sl[n].base
  <1>1. s \in Nat /\ s >= 1 /\ b \in Nat /\ k \in Nat /\ l \in Nat
    BY SlabTyped
  <1>2. q.addr = b + k * s /\ q.len = s /\ r.addr = b + l * s
    BY DEF Object
  <1> HIDE DEF s, b
  <1>3. k * s \in Nat /\ l * s \in Nat
    BY <1>1
  <1>4. k < l
    <2>1. ~(l < k)
      <3>1. l < k => l * s + s <= k * s
        BY <1>1, MulOrder
      <3>2. QED
        BY <1>1, <1>2, <1>3, <3>1
    <2>2. k # l
      BY <1>1, <1>2, <1>3
    <2>3. QED
      BY <1>1, <2>1, <2>2
  <1>5. k * s + s <= l * s
    BY <1>1, <1>4, MulOrder
  <1>6. QED
    BY <1>1, <1>2, <1>3, <1>5
-----------------------------------------------------------------------------
(* What a change of one slab's bitmap and counters keeps. *)

Recounted(sl, sm, n) ==
    /\ Len(sm) = Len(sl)
    /\ \A m \in DOMAIN sl \ {n} : sm[m] = sl[m]
    /\ sm[n].base = sl[n].base /\ sm[n].obj_size = sl[n].obj_size
    /\ sm[n].books = sl[n].books

LEMMA RecountedKeeps ==
    ASSUME NEW sl \in Seq(Slab), NEW sm \in Seq(Slab), NEW n \in DOMAIN sl,
           Recounted(sl, sm, n), NEW po
    PROVE  /\ DOMAIN sm = DOMAIN sl
           /\ \A m \in DOMAIN sl : /\ sm[m].base = sl[m].base
                                   /\ DataOf(sm[m]) = DataOf(sl[m])
                                   /\ sm[m].books = sl[m].books
           /\ \A q, m, k : m \in DOMAIN sl => (Object(sm, q, m, k) <=> Object(sl, q, m, k))
           /\ SlabsPlaced(sl, po) => SlabsPlaced(sm, po)
           /\ Backed(sm) <=> Backed(sl)
  <1>1. DOMAIN sm = DOMAIN sl
    BY DEF Recounted
  <1>2. \A m \in DOMAIN sl : /\ sm[m].base = sl[m].base
                             /\ sm[m].obj_size = sl[m].obj_size
                             /\ sm[m].books = sl[m].books
    BY DEF Recounted
  <1>3. \A m \in DOMAIN sl : DataOf(sm[m]) = DataOf(sl[m])
    BY <1>2 DEF DataOf
  <1>4. \A q, m, k : m \in DOMAIN sl => (Object(sm, q, m, k) <=> Object(sl, q, m, k))
    BY <1>2 DEF Object
  <1>5. SlabsPlaced(sl, po) => SlabsPlaced(sm, po)
    BY <1>1, <1>2, <1>3 DEF SlabsPlaced
  <1>6. Backed(sm) <=> Backed(sl)
    BY <1>1, <1>2 DEF Backed
  <1>7. QED
    BY <1>1, <1>2, <1>3, <1>4, <1>5, <1>6

LEMMA MarkedFinite ==
    ASSUME NEW s PROVE IsFiniteSet(Marked(s)) /\ Cardinality(Marked(s)) \in Nat
  <1>1. 0 \in Int /\ ObjCount - 1 \in Int
    BY HeapAssumption
  <1>2. IsFiniteSet(0 .. ObjCount - 1)
    BY <1>1, FS_Interval
  <1>3. Marked(s) \in SUBSET (0 .. ObjCount - 1)
    BY DEF Marked
  <1>4. IsFiniteSet(Marked(s))
    BY <1>2, <1>3, FS_Subset
  <1>5. QED
    BY <1>4, FS_CardinalityType

\* Setting the byte of a free object of slab n, whose pointer is r.
LEMMA TakeSound ==
    ASSUME NEW sl \in Seq(Slab), NEW sm \in Seq(Slab), NEW po, NEW H \in SUBSET Pointer,
           Sound(sl, po, H), NEW n \in DOMAIN sl, Recounted(sl, sm, n),
           NEW k \in 0 .. ObjCount - 1, sl[n].bitmap[k] = 0,
           sm[n].bitmap = [sl[n].bitmap EXCEPT ![k] = 1],
           sm[n].used_objs = sl[n].used_objs + 1, sm[n].obj_count = sl[n].obj_count,
           NEW r \in Pointer, Object(sl, r, n, k)
    PROVE  r \notin H /\ Sound(sm, po, H \cup {r})
  <1>1. /\ DOMAIN sm = DOMAIN sl
        /\ \A m \in DOMAIN sl : /\ sm[m].base = sl[m].base
                                /\ DataOf(sm[m]) = DataOf(sl[m])
                                /\ sm[m].books = sl[m].books
        /\ \A q, m, l : m \in DOMAIN sl => (Object(sm, q, m, l) <=> Object(sl, q, m, l))
        /\ SlabsPlaced(sm, po)
    BY RecountedKeeps DEF Sound
  <1>2. /\ sl[n].bitmap \in [0 .. ObjCount - 1 -> {0, 1}]
        /\ sl[n].used_objs \in Nat /\ sl[n].obj_count \in Nat /\ ObjCount \in Nat
    BY SlabTyped
  <1>3. \A q \in H \cup {r} : q.addr \in Nat /\ q.paged \in BOOLEAN
    BY DEF Pointer
  <1>4. ~InUse(sl, H, n, k)
    BY DEF Sound, MarksRight
  <1>5. \A q \in H : ~Object(sl, q, n, k)
    BY <1>4 DEF InUse
  <1>6. \A q \in H : ~q.paged => q.addr # r.addr
    <2> SUFFICES ASSUME NEW q \in H, ~q.paged, q.addr = r.addr PROVE FALSE
      OBVIOUS
    <2>1. PICK m \in DOMAIN sl, l \in 0 .. ObjCount - 1 : Object(sl, q, m, l)
      BY DEF Sound, PointersPlaced
    <2>2. PageOf(q.addr) \in DataOf(sl[m]) /\ PageOf(r.addr) \in DataOf(sl[n])
      BY <1>3, <2>1, ObjectAddress DEF Sound, SlabsPlaced
    <2>3. m = n
      BY <2>2 DEF Sound, SlabsPlaced
    <2>4. q.len = r.len /\ q.addr = r.addr
      BY <2>1, <2>3 DEF Object
    <2>5. Object(sl, q, n, k)
      BY <2>1, <2>3, <2>4 DEF Object
    <2>6. QED
      BY <1>5, <2>5
  <1>7. ~r.paged
    BY DEF Object
  <1>8. PointersPlaced(sm, po, H \cup {r})
    <2> SUFFICES ASSUME NEW q \in H \cup {r}
                 PROVE  /\ q.paged => /\ WholePages(q.addr) /\ WholePages(q.len)
                                      /\ BlockOf(q) \subseteq 1 .. po - 1
                                      /\ \A m \in DOMAIN sm :
                                            BlockOf(q) \cap (DataOf(sm[m]) \cup sm[m].books) = {}
                        /\ ~q.paged => \E m \in DOMAIN sm, l \in 0 .. ObjCount - 1 : Object(sm, q, m, l)
                        /\ \A p \in (H \cup {r}) \ {q} :
                               IF q.paged THEN p.paged => BlockOf(q) \cap BlockOf(p) = {}
                                          ELSE ~p.paged => q.addr # p.addr
      BY DEF PointersPlaced
    <2>1. CASE q \in H
      BY <1>1, <1>6, <1>7, <2>1 DEF Sound, PointersPlaced
    <2>2. CASE q = r
      BY <1>1, <1>6, <1>7, <2>2
    <2>3. QED
      BY <2>1, <2>2
  <1>9. \A m \in DOMAIN sl, l \in 0 .. ObjCount - 1 :
            InUse(sm, H \cup {r}, m, l) <=> InUse(sl, H, m, l) \/ (m = n /\ l = k)
    <2> TAKE m \in DOMAIN sl, l \in 0 .. ObjCount - 1
    <2>1. InUse(sm, H \cup {r}, m, l) <=> InUse(sl, H, m, l) \/ Object(sl, r, m, l)
      BY <1>1 DEF InUse
    <2>2. Object(sl, r, m, l) <=> m = n /\ l = k
      BY <1>3, ObjectOnce, ZenonT(30) DEF Sound
    <2>3. QED
      BY <2>1, <2>2
  <1>10. MarksRight(sm, H \cup {r})
    <2> SUFFICES ASSUME NEW m \in DOMAIN sl, NEW l \in 0 .. ObjCount - 1
                 PROVE  /\ InUse(sm, H \cup {r}, m, l) => sm[m].bitmap[l] = 1
                        /\ sm[m].bitmap[l] = 1 /\ ~InUse(sm, H \cup {r}, m, l)
                               => l >= sm[m].obj_count
      BY <1>1 DEF MarksRight
    <2>1. /\ InUse(sl, H, m, l) => sl[m].bitmap[l] = 1
          /\ sl[m].bitmap[l] = 1 /\ ~InUse(sl, H, m, l) => l >= sl[m].obj_count
      BY DEF Sound, MarksRight
    <2>2. CASE m # n
      BY <1>9, <2>1, <2>2 DEF Recounted
    <2>3. CASE m = n
      <3>1. sm[m].bitmap[l] = IF l = k THEN 1 ELSE sl[m].bitmap[l]
        BY <1>2, <2>3
      <3>2. QED
        BY <1>9, <2>1, <2>3, <3>1
    <2>4. QED
      BY <2>2, <2>3
  <1>11. Counted(sm)
    <2> SUFFICES ASSUME NEW m \in DOMAIN sl
                 PROVE  sm[m].used_objs - (ObjCount - sm[m].obj_count) = Cardinality(Marked(sm[m]))
      BY <1>1 DEF Counted
    <2>1. sl[m].used_objs - (ObjCount - sl[m].obj_count) = Cardinality(Marked(sl[m]))
      BY DEF Sound, Counted
    <2>2. CASE m # n
      BY <2>1, <2>2 DEF Recounted
    <2>3. CASE m = n
      <3>1. Marked(sm[n]) = Marked(sl[n]) \cup {k} /\ k \notin Marked(sl[n])
        BY <1>2 DEF Marked
      <3>2. Cardinality(Marked(sl[n]) \cup {k}) = Cardinality(Marked(sl[n])) + 1
        <4>1. IsFiniteSet(Marked(sl[n]))
          BY MarkedFinite
        <4>2. QED
          BY <3>1, <4>1, FS_AddElement
      <3>3. Cardinality(Marked(sl[n])) \in Nat
        BY MarkedFinite
      <3>4. QED
        <4>1. Cardinality(Marked(sm[n])) = Cardinality(Marked(sl[n])) + 1
          BY <3>1, <3>2
        <4>2. sl[n].used_objs - (ObjCount - sl[n].obj_count) = Cardinality(Marked(sl[n]))
          BY <2>1, <2>3
        <4>3. sm[n].used_objs - (ObjCount - sm[n].obj_count) = Cardinality(Marked(sl[n])) + 1
          BY <1>2, <3>3, <4>2, SMTT(20)
        <4>4. QED
          BY <2>3, <4>1, <4>3
    <2>4. QED
      BY <2>2, <2>3
  <1>12. r \notin H
    BY <1>6, <1>7
  <1>13. QED
    BY <1>1, <1>8, <1>10, <1>11, <1>12 DEF Sound
\* Without the pointer of an object, no other object loses its own.
LEMMA DropUse ==
    ASSUME NEW sl \in Seq(Slab), NEW po, NEW H \in SUBSET Pointer, Sound(sl, po, H),
           NEW q \in H, NEW m \in DOMAIN sl, NEW l \in 0 .. ObjCount - 1
    PROVE  InUse(sl, H \ {q}, m, l) <=> InUse(sl, H, m, l) /\ ~Object(sl, q, m, l)
  <1>1. ASSUME NEW r \in H \ {q}, Object(sl, r, m, l), Object(sl, q, m, l) PROVE FALSE
    <2>1. r.addr = q.addr /\ ~r.paged /\ ~q.paged
      BY <1>1 DEF Object
    <2>2. QED
      BY <1>1, <2>1 DEF Sound, PointersPlaced
  <1>2. QED
    BY <1>1 DEF InUse

LEMMA DropPlaced ==
    ASSUME NEW sl, NEW po, NEW H, PointersPlaced(sl, po, H), NEW q
    PROVE  PointersPlaced(sl, po, H \ {q})
  BY DEF PointersPlaced

\* Clearing the byte of object k of slab n, whose pointer was q.
LEMMA FreeSound ==
    ASSUME NEW sl \in Seq(Slab), NEW sm \in Seq(Slab), NEW po, NEW H \in SUBSET Pointer,
           Sound(sl, po, H), NEW n \in DOMAIN sl, Recounted(sl, sm, n),
           NEW k \in 0 .. ObjCount - 1, NEW q \in H, Object(sl, q, n, k),
           sm[n].bitmap = [sl[n].bitmap EXCEPT ![k] = 0],
           sm[n].used_objs = sl[n].used_objs, sm[n].obj_count = sl[n].obj_count - 1
    PROVE  Sound(sm, po, H \ {q})
  <1>1. /\ DOMAIN sm = DOMAIN sl
        /\ \A m \in DOMAIN sl : /\ sm[m].base = sl[m].base
                                /\ DataOf(sm[m]) = DataOf(sl[m])
                                /\ sm[m].books = sl[m].books
        /\ \A r, m, l : m \in DOMAIN sl => (Object(sm, r, m, l) <=> Object(sl, r, m, l))
        /\ SlabsPlaced(sm, po)
    BY RecountedKeeps DEF Sound
  <1>2. /\ sl[n].bitmap \in [0 .. ObjCount - 1 -> {0, 1}]
        /\ sl[n].used_objs \in Nat /\ sl[n].obj_count \in Nat /\ ObjCount \in Nat
    BY SlabTyped
  <1>3. PointersPlaced(sm, po, H)
    BY <1>1 DEF Sound, PointersPlaced
  <1>4. PointersPlaced(sm, po, H \ {q})
    BY <1>3, DropPlaced
  <1>5. q.addr \in Nat
    BY DEF Pointer
  <1>6. \A m \in DOMAIN sl, l \in 0 .. ObjCount - 1 :
            InUse(sm, H \ {q}, m, l) <=> InUse(sl, H, m, l) /\ ~(m = n /\ l = k)
    <2> TAKE m \in DOMAIN sl, l \in 0 .. ObjCount - 1
    <2>1. InUse(sm, H \ {q}, m, l) <=> InUse(sl, H \ {q}, m, l)
      BY <1>1 DEF InUse
    <2>2. Object(sl, q, m, l) <=> m = n /\ l = k
      BY <1>5, ObjectOnce DEF Sound
    <2>3. QED
      BY <2>1, <2>2, DropUse
  <1>7. InUse(sl, H, n, k)
    BY DEF InUse
  <1>8. sl[n].bitmap[k] = 1
    BY <1>7 DEF Sound, MarksRight
  <1>9. MarksRight(sm, H \ {q})
    <2> SUFFICES ASSUME NEW m \in DOMAIN sl, NEW l \in 0 .. ObjCount - 1
                 PROVE  /\ InUse(sm, H \ {q}, m, l) => sm[m].bitmap[l] = 1
                        /\ sm[m].bitmap[l] = 1 /\ ~InUse(sm, H \ {q}, m, l)
                               => l >= sm[m].obj_count
      BY <1>1 DEF MarksRight
    <2>1. /\ InUse(sl, H, m, l) => sl[m].bitmap[l] = 1
          /\ sl[m].bitmap[l] = 1 /\ ~InUse(sl, H, m, l) => l >= sl[m].obj_count
      BY DEF Sound, MarksRight
    <2>2. CASE m # n
      BY <1>6, <2>1, <2>2 DEF Recounted
    <2>3. CASE m = n
      <3>1. sm[m].bitmap[l] = IF l = k THEN 0 ELSE sl[m].bitmap[l]
        BY <1>2, <2>3
      <3>2. QED
        <4>1. CASE l = k
          <5>1. ~InUse(sm, H \ {q}, m, l)
            BY <1>6, <2>3, <4>1
          <5>2. sm[m].bitmap[l] = 0
            BY <3>1, <4>1
          <5>3. QED
            BY <5>1, <5>2
        <4>2. CASE l # k
          <5>1. sm[m].bitmap[l] = sl[m].bitmap[l]
            BY <3>1, <4>2
          <5>2. InUse(sm, H \ {q}, m, l) <=> InUse(sl, H, m, l)
            BY <1>6, <4>2
          <5>3. l >= sl[m].obj_count => l >= sm[m].obj_count
            BY <1>2, <2>3
          <5>4. QED
            BY <2>1, <5>1, <5>2, <5>3
        <4>3. QED
          BY <4>1, <4>2
    <2>4. QED
      BY <2>2, <2>3
  <1>10. Counted(sm)
    <2> SUFFICES ASSUME NEW m \in DOMAIN sl
                 PROVE  sm[m].used_objs - (ObjCount - sm[m].obj_count) = Cardinality(Marked(sm[m]))
      BY <1>1 DEF Counted
    <2>1. sl[m].used_objs - (ObjCount - sl[m].obj_count) = Cardinality(Marked(sl[m]))
      BY DEF Sound, Counted
    <2>2. CASE m # n
      BY <2>1, <2>2 DEF Recounted
    <2>3. CASE m = n
      <3>1. Marked(sm[n]) = Marked(sl[n]) \ {k} /\ k \in Marked(sl[n])
        BY <1>2, <1>8 DEF Marked
      <3>2. Cardinality(Marked(sl[n]) \ {k}) = Cardinality(Marked(sl[n])) - 1
        <4>1. IsFiniteSet(Marked(sl[n]))
          BY MarkedFinite
        <4>2. QED
          BY <3>1, <4>1, FS_RemoveElement
      <3>3. Cardinality(Marked(sl[n])) \in Nat
        BY MarkedFinite
      <3>4. QED
        <4>1. Cardinality(Marked(sm[n])) = Cardinality(Marked(sl[n])) - 1
          BY <3>1, <3>2
        <4>2. sl[n].used_objs - (ObjCount - sl[n].obj_count) = Cardinality(Marked(sl[n]))
          BY <2>1, <2>3
        <4>3. sm[n].used_objs - (ObjCount - sm[n].obj_count) = Cardinality(Marked(sl[n])) - 1
          BY <1>2, <3>3, <4>2
        <4>4. QED
          BY <2>3, <4>1, <4>3
    <2>4. QED
      BY <2>2, <2>3
  <1>11. QED
    BY <1>1, <1>4, <1>9, <1>10 DEF Sound

\* A pointer that free drops: of pages, or of an object obj_count no longer
\* reaches.
LEMMA DropSound ==
    ASSUME NEW sl \in Seq(Slab), NEW po, NEW H \in SUBSET Pointer, Sound(sl, po, H),
           NEW q \in H,
           \A n \in DOMAIN sl, k \in 0 .. ObjCount - 1 : Object(sl, q, n, k) => k >= sl[n].obj_count
    PROVE  Sound(sl, po, H \ {q})
  <1>1. PointersPlaced(sl, po, H \ {q})
    BY DropPlaced DEF Sound
  <1>2. MarksRight(sl, H \ {q})
    BY DropUse DEF Sound, MarksRight
  <1>3. QED
    BY <1>1, <1>2 DEF Sound
-----------------------------------------------------------------------------
(* free. *)

LEMMA FreedShape ==
    ASSUME NEW sl \in Seq(Slab), NEW q \in Pointer, OwnersOf(sl, q) # {}
    PROVE  \E n \in OwnersOf(sl, q) :
              LET k == (q.addr - sl[n].base) \div sl[n].obj_size
                  sm == Freed(sl, q)
              IN /\ k \in 0 .. ObjCount - 1 /\ k < sl[n].obj_count
                 /\ sm \in Seq(Slab) /\ Recounted(sl, sm, n)
                 /\ sm[n].bitmap = [sl[n].bitmap EXCEPT ![k] = 0]
                 /\ sm[n].used_objs = sl[n].used_objs
                 /\ sm[n].obj_count = sl[n].obj_count - 1
  <1> DEFINE n == Least(OwnersOf(sl, q))
             k == (q.addr - sl[n].base) \div sl[n].obj_size
             new == [sl[n] EXCEPT !.obj_count = sl[n].obj_count - 1,
                                  !.bitmap = [sl[n].bitmap EXCEPT ![k] = 0]]
             sm == Freed(sl, q)
  <1>1. n \in OwnersOf(sl, q)
    <2>1. OwnersOf(sl, q) \in SUBSET Nat
      BY DEF OwnersOf
    <2>2. QED
      BY <2>1, LeastIn
  <1>2. sm = [sl EXCEPT ![n] = new]
    BY DEF Freed
  <1> HIDE DEF n, sm
  <1>3. /\ n \in DOMAIN sl /\ q.addr >= sl[n].base
        /\ q.addr < sl[n].base + sl[n].obj_count * sl[n].obj_size
    BY <1>1 DEF OwnersOf
  <1>4. /\ sl[n] \in Slab
        /\ sl[n].base \in Nat /\ sl[n].obj_size \in 1 .. ObjCount
        /\ sl[n].obj_count \in 0 .. ObjCount
        /\ sl[n].bitmap \in [0 .. ObjCount - 1 -> {0, 1}]
        /\ ObjCount \in Nat /\ sl[n].obj_size \in Nat \ {0} /\ sl[n].obj_count \in Nat
    BY <1>3, SlabTyped
  <1>5. k \in Nat /\ k < sl[n].obj_count
    <2> DEFINE x == q.addr - sl[n].base
    <2>1. q.addr \in Nat
      BY DEF Pointer
    <2>2. sl[n].obj_count * sl[n].obj_size \in Nat
      BY <1>4
    <2>3. x \in Nat /\ x < sl[n].obj_count * sl[n].obj_size
      BY <1>3, <1>4, <2>1, <2>2
    <2> HIDE DEF x
    <2>4. x \div sl[n].obj_size \in Nat /\ x \div sl[n].obj_size < sl[n].obj_count
      BY <1>4, <2>3, DivRange, DivBelow
    <2>5. QED
      BY <2>4 DEF x
  <1> HIDE DEF k
  <1>6. k \in 0 .. ObjCount - 1
    BY <1>4, <1>5
  <1>7. new \in Slab
    <2>1. [sl[n].bitmap EXCEPT ![k] = 0] \in [0 .. ObjCount - 1 -> {0, 1}]
      BY <1>4
    <2>2. sl[n].obj_count - 1 \in 0 .. ObjCount
      BY <1>4, <1>5
    <2>3. QED
      BY <1>4, <2>1, <2>2 DEF Slab
  <1>8. /\ new.base = sl[n].base /\ new.obj_size = sl[n].obj_size /\ new.books = sl[n].books
        /\ new.bitmap = [sl[n].bitmap EXCEPT ![k] = 0]
        /\ new.used_objs = sl[n].used_objs /\ new.obj_count = sl[n].obj_count - 1
    BY <1>4 DEF Slab
  <1> HIDE DEF new
  <1>9. /\ sm \in Seq(Slab) /\ Len(sm) = Len(sl) /\ sm[n] = new
        /\ \A m \in DOMAIN sl \ {n} : sm[m] = sl[m]
    BY <1>2, <1>3, <1>7
  <1>10. Recounted(sl, sm, n)
    BY <1>8, <1>9 DEF Recounted
  <1>11. QED
    BY <1>1, <1>5, <1>6, <1>8, <1>9, <1>10 DEF k, sm

Typed(sl, po) == sl \in Seq(Slab) /\ po \in 1 .. Pages + 1

LEMMA FreeTyped ==
    ASSUME NEW sl \in Seq(Slab), NEW q \in Pointer
    PROVE  AfterFree(sl, q) \in Seq(Slab) /\ (Backed(AfterFree(sl, q)) <=> Backed(sl))
  <1>1. CASE OwnersOf(sl, q) = {}
    BY <1>1 DEF AfterFree
  <1>2. CASE OwnersOf(sl, q) # {}
    <2>1. AfterFree(sl, q) = Freed(sl, q)
      BY <1>2 DEF AfterFree
    <2>2. PICK n \in OwnersOf(sl, q) : Freed(sl, q) \in Seq(Slab) /\ Recounted(sl, Freed(sl, q), n)
      BY <1>2, FreedShape
    <2>3. n \in DOMAIN sl
      BY DEF OwnersOf
    <2>4. QED
      BY <2>1, <2>2, <2>3, RecountedKeeps
  <1>3. QED
    BY <1>1, <1>2

\* While every slab has memory, free gives back the object that its argument
\* points to, and nothing else.
LEMMA FreeKeepsSound ==
    ASSUME NEW sl \in Seq(Slab), NEW po, NEW H \in SUBSET Pointer, Sound(sl, po, H), NEW q \in H
    PROVE  Sound(AfterFree(sl, q), po, H \ {q})
  <1>1. q \in Pointer /\ q.addr \in Nat /\ q.paged \in BOOLEAN
    BY DEF Pointer
  <1>2. CASE OwnersOf(sl, q) = {}
    <2>1. ASSUME NEW n \in DOMAIN sl, NEW k \in 0 .. ObjCount - 1, Object(sl, q, n, k),
                 ~(k >= sl[n].obj_count)
          PROVE  FALSE
      <3>1. /\ sl[n].obj_size \in Nat /\ sl[n].obj_size >= 1 /\ sl[n].base \in Nat
            /\ sl[n].obj_count \in Nat /\ k \in Nat
        BY SlabTyped
      <3>2. k * sl[n].obj_size + sl[n].obj_size <= sl[n].obj_count * sl[n].obj_size
        BY <2>1, <3>1, MulOrder
      <3>3. k * sl[n].obj_size \in Nat /\ sl[n].obj_count * sl[n].obj_size \in Nat
        BY <3>1
      <3>4. q.addr = sl[n].base + k * sl[n].obj_size /\ ~q.paged
        BY <2>1 DEF Object
      <3>5. q.addr >= sl[n].base /\ q.addr < sl[n].base + sl[n].obj_count * sl[n].obj_size
        BY <3>1, <3>2, <3>3, <3>4, SMTT(20)
      <3>6. n \in OwnersOf(sl, q)
        BY <3>4, <3>5 DEF OwnersOf
      <3>7. QED
        BY <1>2, <3>6
    <2>2. Sound(sl, po, H \ {q})
      BY <2>1, DropSound
    <2>3. QED
      BY <1>2, <2>2 DEF AfterFree
  <1>3. CASE OwnersOf(sl, q) # {}
    <2> DEFINE sm == Freed(sl, q)
    <2>1. PICK n \in OwnersOf(sl, q) :
              LET k == (q.addr - sl[n].base) \div sl[n].obj_size
              IN /\ k \in 0 .. ObjCount - 1 /\ k < sl[n].obj_count
                 /\ sm \in Seq(Slab) /\ Recounted(sl, sm, n)
                 /\ sm[n].bitmap = [sl[n].bitmap EXCEPT ![k] = 0]
                 /\ sm[n].used_objs = sl[n].used_objs
                 /\ sm[n].obj_count = sl[n].obj_count - 1
      BY <1>1, <1>3, FreedShape
    <2> DEFINE k == (q.addr - sl[n].base) \div sl[n].obj_size
    <2>2. /\ n \in DOMAIN sl /\ ~q.paged /\ q.addr >= sl[n].base
          /\ q.addr < sl[n].base + sl[n].obj_count * sl[n].obj_size
      BY DEF OwnersOf
    <2>3. PICK m \in DOMAIN sl, l \in 0 .. ObjCount - 1 : Object(sl, q, m, l)
      BY <2>2 DEF Sound, PointersPlaced
    <2>4. /\ sl[n].obj_size \in Nat \ {0} /\ sl[n].base \in Nat /\ sl[n].obj_size \in 1 .. ObjCount
          /\ sl[n].obj_count \in 0 .. ObjCount /\ ObjCount \in Nat
          /\ page_size \in Nat \ {0}
      BY <2>2, SlabTyped
    <2>5. WholePages(sl[n].base) /\ WholePages(sl[m].base)
      BY <2>2 DEF Sound, SlabsPlaced
    <2>6. m = n
      <3>1. PageOf(q.addr) \in DataOf(sl[m])
        BY <1>1, <2>3, <2>5, ObjectAddress
      <3>2. PageOf(q.addr) \in DataOf(sl[n])
        BY <1>1, <2>2, <2>4, <2>5, WithinData
      <3>3. QED
        BY <2>2, <3>1, <3>2 DEF Sound, SlabsPlaced
    <2>7. k = l
      <3>1. l \in Nat /\ l * sl[n].obj_size \in Nat
        BY <2>4
      <3>2. q.addr - sl[n].base = l * sl[n].obj_size
        BY <2>3, <2>4, <2>6, <3>1 DEF Object
      <3>3. (l * sl[n].obj_size) \div sl[n].obj_size = l
        BY <2>4, <3>1, DivUnique
      <3>4. QED
        BY <3>2, <3>3
    <2>8. Sound(sm, po, H \ {q})
      <3> HIDE DEF k, sm
      <3>1. /\ k \in 0 .. ObjCount - 1
            /\ sm \in Seq(Slab) /\ Recounted(sl, sm, n)
            /\ sm[n].bitmap = [sl[n].bitmap EXCEPT ![k] = 0]
            /\ sm[n].used_objs = sl[n].used_objs
            /\ sm[n].obj_count = sl[n].obj_count - 1
        BY <2>1 DEF k
      <3>2. Object(sl, q, n, k)
        BY <2>3, <2>6, <2>7
      <3>3. QED
        BY <2>2, <3>1, <3>2, FreeSound
    <2>9. QED
      BY <1>3, <2>8 DEF AfterFree
  <1>4. QED
    BY <1>2, <1>3
-----------------------------------------------------------------------------
(* slab_init. *)

LEMMA SlabInitShape ==
    ASSUME NEW sl, NEW po, Typed(sl, po), NEW size \in 1 .. ObjCount, CanInit(sl, po, size)
    PROVE  LET sm == SlabInit(sl, po, size).slabs
               pm == SlabInit(sl, po, size).pool
               s == sm[Len(sl) + 1]
           IN /\ Typed(sm, pm) /\ pm >= po /\ Len(sm) = Len(sl) + 1
              /\ \A m \in DOMAIN sl : sm[m] = sl[m]
              /\ s.obj_size = size /\ s.obj_count = ObjCount /\ s.used_objs = 0
              /\ s.bitmap = [k \in 0 .. ObjCount - 1 |-> 0]
              /\ s.base # 0 => /\ WholePages(s.base)
                               /\ DataOf(s) \subseteq po .. pm - 1
                               /\ s.books \subseteq po .. pm - 1
                               /\ DataOf(s) \cap s.books = {}
  <1> DEFINE d == DataPages(size)
             data == PmmAlloc(po + 1, d)
             s == [base |-> data.page * page_size, obj_size |-> size,
                   obj_count |-> ObjCount, used_objs |-> 0,
                   books |-> {po, data.pool},
                   bitmap |-> [k \in 0 .. ObjCount - 1 |-> 0]]
             sm == SlabInit(sl, po, size).slabs
             pm == SlabInit(sl, po, size).pool
  <1>1. sm = Append(sl, s) /\ pm = data.pool + 1
    BY DEF SlabInit
  <1>2. d \in Nat /\ d >= 1 /\ size \in Nat
    BY RoomForObjects, HeapAssumption
  <1>3. /\ po \in Nat /\ po >= 1 /\ sl \in Seq(Slab) /\ Pages \in Nat
        /\ page_size \in Nat \ {0} /\ ObjCount \in Nat /\ ObjCount >= 1
    BY HeapAssumption DEF Typed
  <1>4. \/ data.page = po + 1 /\ data.pool = po + 1 + d
        \/ data.page = 0 /\ data.pool = po + 1
    BY <1>2 DEF PmmAlloc
  <1>5. pm <= Pages + 1
    BY DEF CanInit
  <1> HIDE DEF data, sm, pm, d
  <1>6. /\ data.page \in Nat /\ data.pool \in Nat /\ data.pool >= po + 1
        /\ data.pool <= Pages
    <2>1. data.page \in Nat /\ data.pool \in Nat /\ data.pool >= po + 1
      BY <1>2, <1>3, <1>4
    <2>2. data.pool + 1 <= Pages + 1
      BY <1>1, <1>5
    <2>3. QED
      BY <1>3, <2>1, <2>2
  <1>7. s \in Slab
    <2>1. data.page * page_size \in Nat
      BY <1>3, <1>6
    <2>2. {po, data.pool} \subseteq 1 .. Pages
      BY <1>3, <1>6
    <2>3. [k \in 0 .. ObjCount - 1 |-> 0] \in [0 .. ObjCount - 1 -> {0, 1}]
      OBVIOUS
    <2>4. ObjCount \in 0 .. ObjCount
      BY <1>3
    <2>5. QED
      BY <2>1, <2>2, <2>3, <2>4 DEF Slab
  <1>8. /\ s.obj_size = size /\ s.obj_count = ObjCount /\ s.used_objs = 0
        /\ s.bitmap = [k \in 0 .. ObjCount - 1 |-> 0]
        /\ s.base = data.page * page_size /\ s.books = {po, data.pool}
    OBVIOUS
  <1> HIDE DEF s
  <1>9. /\ sm \in Seq(Slab) /\ Len(sm) = Len(sl) + 1 /\ sm[Len(sl) + 1] = s
        /\ \A m \in DOMAIN sl : sm[m] = sl[m]
    BY <1>1, <1>3, <1>7
  <1>10. Typed(sm, pm) /\ pm >= po
    BY <1>1, <1>3, <1>5, <1>6, <1>9 DEF Typed
  <1>11. ASSUME s.base # 0
         PROVE  /\ WholePages(s.base)
                /\ DataOf(s) \subseteq po .. pm - 1
                /\ s.books \subseteq po .. pm - 1
                /\ DataOf(s) \cap s.books = {}
    <2>1. data.page = po + 1 /\ data.pool = po + 1 + d
      BY <1>3, <1>4, <1>8, <1>11
    <2>2. PageOf(s.base) = po + 1
      <3>1. po + 1 \in Nat /\ (po + 1) * page_size \in Nat
        BY <1>3
      <3>2. ((po + 1) * page_size) \div page_size = po + 1
        BY <1>3, <3>1, DivUnique
      <3>3. QED
        BY <1>8, <2>1, <3>2 DEF PageOf
    <2>3. WholePages(s.base)
      BY <1>8, <2>1, <2>2 DEF WholePages
    <2>4. DataOf(s) = po + 1 .. po + d
      BY <1>2, <1>3, <1>8, <2>2 DEF DataOf, d
    <2>5. pm = po + 2 + d /\ s.books = {po, po + 1 + d}
      BY <1>1, <1>2, <1>3, <1>8, <2>1
    <2>6. QED
      BY <1>2, <1>3, <2>3, <2>4, <2>5
  <1>12. QED
    BY <1>8, <1>9, <1>10, <1>11 DEF sm, pm

\* A new slab with memory has pages of its own and no object in use.
LEMMA SlabInitSound ==
    ASSUME NEW sl, NEW po, Typed(sl, po), NEW H \in SUBSET Pointer, Sound(sl, po, H),
           NEW size \in 1 .. ObjCount, CanInit(sl, po, size),
           Backed(SlabInit(sl, po, size).slabs)
    PROVE  Sound(SlabInit(sl, po, size).slabs, SlabInit(sl, po, size).pool, H)
  <1> DEFINE sm == SlabInit(sl, po, size).slabs
             pm == SlabInit(sl, po, size).pool
             e == Len(sl) + 1
  <1>1. /\ Typed(sm, pm) /\ pm >= po /\ Len(sm) = e
        /\ \A m \in DOMAIN sl : sm[m] = sl[m]
        /\ sm[e].obj_size = size /\ sm[e].obj_count = ObjCount /\ sm[e].used_objs = 0
        /\ sm[e].bitmap = [k \in 0 .. ObjCount - 1 |-> 0]
        /\ sm[e].base # 0 => /\ WholePages(sm[e].base)
                             /\ DataOf(sm[e]) \subseteq po .. pm - 1
                             /\ sm[e].books \subseteq po .. pm - 1
                             /\ DataOf(sm[e]) \cap sm[e].books = {}
    BY SlabInitShape
  <1>2. Backed(sm)
    OBVIOUS
  <1> HIDE DEF sm, pm
  <1>3. /\ sl \in Seq(Slab) /\ sm \in Seq(Slab) /\ Len(sl) \in Nat
        /\ DOMAIN sl = 1 .. Len(sl) /\ DOMAIN sm = 1 .. e
        /\ po \in Nat /\ po >= 1 /\ pm \in Nat
    BY <1>1, HeapAssumption DEF Typed
  <1>4. /\ DOMAIN sm = DOMAIN sl \cup {e} /\ e \notin DOMAIN sl /\ e \in DOMAIN sm
    BY <1>3
  <1>5. /\ WholePages(sm[e].base)
        /\ DataOf(sm[e]) \subseteq po .. pm - 1
        /\ sm[e].books \subseteq po .. pm - 1
        /\ DataOf(sm[e]) \cap sm[e].books = {}
    BY <1>1, <1>2, <1>4 DEF Backed
  <1>6. 1 .. po - 1 \subseteq 1 .. pm - 1 /\ po .. pm - 1 \subseteq 1 .. pm - 1
        /\ (1 .. po - 1) \cap (po .. pm - 1) = {}
    BY <1>1, <1>3
  <1>7. SlabsPlaced(sm, pm)
    <2>1. \A n \in DOMAIN sl :
              /\ WholePages(sm[n].base)
              /\ DataOf(sm[n]) \subseteq 1 .. po - 1 /\ sm[n].books \subseteq 1 .. po - 1
              /\ \A m \in DOMAIN sl : /\ DataOf(sm[m]) \cap sm[n].books = {}
                                      /\ m # n => DataOf(sm[m]) \cap DataOf(sm[n]) = {}
      BY <1>1 DEF Sound, SlabsPlaced
    <2>2. \A n \in DOMAIN sl : /\ DataOf(sm[e]) \cap sm[n].books = {}
                               /\ DataOf(sm[n]) \cap sm[e].books = {}
                               /\ DataOf(sm[e]) \cap DataOf(sm[n]) = {}
      BY <1>5, <1>6, <2>1
    <2>3. \A n \in DOMAIN sm : /\ WholePages(sm[n].base)
                               /\ DataOf(sm[n]) \subseteq 1 .. pm - 1
                               /\ sm[n].books \subseteq 1 .. pm - 1
      BY <1>4, <1>5, <1>6, <2>1
    <2>4. \A n, m \in DOMAIN sm : /\ DataOf(sm[m]) \cap sm[n].books = {}
                                  /\ m # n => DataOf(sm[m]) \cap DataOf(sm[n]) = {}
      BY <1>4, <1>5, <2>1, <2>2
    <2>5. QED
      BY <2>3, <2>4 DEF SlabsPlaced
  <1>8. \A q, k : \A n \in DOMAIN sl : Object(sm, q, n, k) <=> Object(sl, q, n, k)
    BY <1>1 DEF Object
  <1>9. PointersPlaced(sm, pm, H)
    <2> SUFFICES ASSUME NEW q \in H
                 PROVE  /\ q.paged => /\ WholePages(q.addr) /\ WholePages(q.len)
                                      /\ BlockOf(q) \subseteq 1 .. pm - 1
                                      /\ \A m \in DOMAIN sm :
                                            BlockOf(q) \cap (DataOf(sm[m]) \cup sm[m].books) = {}
                        /\ ~q.paged => \E m \in DOMAIN sm, l \in 0 .. ObjCount - 1 : Object(sm, q, m, l)
                        /\ \A p \in H \ {q} :
                               IF q.paged THEN p.paged => BlockOf(q) \cap BlockOf(p) = {}
                                          ELSE ~p.paged => q.addr # p.addr
      BY DEF PointersPlaced
    <2>1. /\ q.paged => /\ WholePages(q.addr) /\ WholePages(q.len)
                        /\ BlockOf(q) \subseteq 1 .. po - 1
                        /\ \A m \in DOMAIN sl : BlockOf(q) \cap (DataOf(sl[m]) \cup sl[m].books) = {}
          /\ ~q.paged => \E m \in DOMAIN sl, l \in 0 .. ObjCount - 1 : Object(sl, q, m, l)
          /\ \A p \in H \ {q} : IF q.paged THEN p.paged => BlockOf(q) \cap BlockOf(p) = {}
                                           ELSE ~p.paged => q.addr # p.addr
      BY DEF Sound, PointersPlaced
    <2>2. ASSUME q.paged, NEW m \in DOMAIN sm
          PROVE  BlockOf(q) \cap (DataOf(sm[m]) \cup sm[m].books) = {}
      <3>1. CASE m = e
        BY <1>5, <1>6, <2>1, <2>2, <3>1
      <3>2. CASE m \in DOMAIN sl
        BY <1>1, <2>1, <2>2, <3>2
      <3>3. QED
        BY <1>4, <3>1, <3>2
    <2>3. q.paged => BlockOf(q) \subseteq 1 .. pm - 1
      BY <1>6, <2>1
    <2>4. ~q.paged => \E m \in DOMAIN sm, l \in 0 .. ObjCount - 1 : Object(sm, q, m, l)
      BY <1>4, <1>8, <2>1
    <2>5. QED
      BY <2>1, <2>2, <2>3, <2>4
  <1>10. \A k \in 0 .. ObjCount - 1 : ~InUse(sm, H, e, k)
    <2> SUFFICES ASSUME NEW k \in 0 .. ObjCount - 1, NEW q \in H, Object(sm, q, e, k) PROVE FALSE
      BY DEF InUse
    <2>1. q.addr \in Nat /\ ~q.paged
      BY DEF Pointer, Object
    <2>2. PICK m \in DOMAIN sl, l \in 0 .. ObjCount - 1 : Object(sl, q, m, l)
      BY <2>1 DEF Sound, PointersPlaced
    <2>3. m \in DOMAIN sm /\ Object(sm, q, m, l)
      BY <1>4, <1>8, <2>2
    <2>4. m = e
      BY <1>3, <1>4, <1>7, <2>1, <2>3, ObjectOnce
    <2>5. QED
      BY <1>4, <2>4
  <1>11. MarksRight(sm, H)
    <2>1. \A n \in DOMAIN sl, k \in 0 .. ObjCount - 1 : InUse(sm, H, n, k) <=> InUse(sl, H, n, k)
      BY <1>8 DEF InUse
    <2>2. \A k \in 0 .. ObjCount - 1 : sm[e].bitmap[k] = 0
      BY <1>1
    <2>3. \A n \in DOMAIN sl, k \in 0 .. ObjCount - 1 :
              /\ InUse(sm, H, n, k) => sm[n].bitmap[k] = 1
              /\ sm[n].bitmap[k] = 1 /\ ~InUse(sm, H, n, k) => k >= sm[n].obj_count
      BY <1>1, <2>1 DEF Sound, MarksRight
    <2>4. \A k \in 0 .. ObjCount - 1 :
              /\ InUse(sm, H, e, k) => sm[e].bitmap[k] = 1
              /\ sm[e].bitmap[k] = 1 /\ ~InUse(sm, H, e, k) => k >= sm[e].obj_count
      BY <1>10, <2>2
    <2> HIDE DEF e
    <2>5. QED
      BY <1>4, <2>3, <2>4 DEF MarksRight
  <1>12. Counted(sm)
    <2>1. Marked(sm[e]) = {}
      BY <1>1 DEF Marked
    <2>2. Cardinality(Marked(sm[e])) = 0
      BY <2>1, FS_EmptySet
    <2>3. sm[e].used_objs - (ObjCount - sm[e].obj_count) = 0
      BY <1>1, HeapAssumption
    <2>4. QED
      BY <1>1, <1>4, <2>2, <2>3 DEF Sound, Counted
  <1>13. QED
    BY <1>7, <1>9, <1>11, <1>12 DEF Sound, sm, pm
-----------------------------------------------------------------------------
(* malloc. *)

LEMMA TakeShape ==
    ASSUME NEW sl \in Seq(Slab), NEW po, NEW size \in Nat, NEW n \in DOMAIN sl,
           sl[n].obj_size >= size, FreeObjects(sl[n]) # {}
    PROVE  LET got == Take(sl, po, n, size)
               sm == got.slabs
           IN /\ sm \in Seq(Slab) /\ Recounted(sl, sm, n)
              /\ sm[n].used_objs = sl[n].used_objs + 1 /\ sm[n].obj_count = sl[n].obj_count
              /\ got.pool = po /\ got.ret \in Pointer /\ got.ret # Null
              /\ \E k \in 0 .. ObjCount - 1 :
                    /\ sl[n].bitmap[k] = 0 /\ sm[n].bitmap = [sl[n].bitmap EXCEPT ![k] = 1]
                    /\ Object(sl, got.ret, n, k)
  <1> DEFINE k == Least(FreeObjects(sl[n]))
             new == [sl[n] EXCEPT !.bitmap = [sl[n].bitmap EXCEPT ![k] = 1],
                                  !.used_objs = sl[n].used_objs + 1]
             ret == [addr |-> sl[n].base + k * sl[n].obj_size, len |-> sl[n].obj_size,
                     asked |-> size, paged |-> FALSE]
             sm == Take(sl, po, n, size).slabs
  <1>1. /\ sl[n] \in Slab /\ sl[n].base \in Nat /\ sl[n].obj_size \in 1 .. ObjCount
        /\ sl[n].used_objs \in Nat /\ sl[n].bitmap \in [0 .. ObjCount - 1 -> {0, 1}]
        /\ ObjCount \in Nat
    BY SlabTyped
  <1>2. k \in 0 .. ObjCount - 1 /\ sl[n].bitmap[k] = 0
    <2>1. FreeObjects(sl[n]) \in SUBSET Nat
      BY <1>1 DEF FreeObjects
    <2>2. k \in FreeObjects(sl[n])
      BY <2>1, LeastIn
    <2>3. QED
      BY <1>1, <2>2 DEF FreeObjects
  <1>3. /\ sm = [sl EXCEPT ![n] = new]
        /\ Take(sl, po, n, size).pool = po /\ Take(sl, po, n, size).ret = ret
    BY DEF Take
  <1> HIDE DEF k, sm
  <1>4. new \in Slab
    <2>1. [sl[n].bitmap EXCEPT ![k] = 1] \in [0 .. ObjCount - 1 -> {0, 1}]
      BY <1>1
    <2>2. sl[n].used_objs + 1 \in Nat
      BY <1>1
    <2>3. QED
      BY <1>1, <2>1, <2>2 DEF Slab
  <1>5. /\ new.base = sl[n].base /\ new.obj_size = sl[n].obj_size /\ new.books = sl[n].books
        /\ new.bitmap = [sl[n].bitmap EXCEPT ![k] = 1]
        /\ new.used_objs = sl[n].used_objs + 1 /\ new.obj_count = sl[n].obj_count
    BY <1>1 DEF Slab
  <1> HIDE DEF new
  <1>6. /\ sm \in Seq(Slab) /\ Len(sm) = Len(sl) /\ sm[n] = new
        /\ \A m \in DOMAIN sl \ {n} : sm[m] = sl[m]
    BY <1>3, <1>4
  <1>7. ret \in Pointer /\ ret # Null
    <2>1. k * sl[n].obj_size \in Nat
      BY <1>1, <1>2
    <2>2. sl[n].base + k * sl[n].obj_size \in Nat /\ sl[n].obj_size \in Nat
      BY <1>1, <2>1
    <2>3. ret \in Pointer
      BY <2>2 DEF Pointer
    <2>4. ret.len # 0 /\ Null.len = 0
      BY <1>1 DEF Null
    <2>5. QED
      BY <2>3, <2>4
  <1>8. Object(sl, ret, n, k)
    BY <1>1 DEF Object
  <1> HIDE DEF ret
  <1>9. Recounted(sl, sm, n)
    BY <1>5, <1>6 DEF Recounted
  <1>10. QED
    BY <1>2, <1>3, <1>5, <1>6, <1>7, <1>8, <1>9 DEF sm

\* What malloc gives back: NULL, or a pointer that was not in use.
Adds(sm, pm, H, r) ==
    \/ r = Null /\ Sound(sm, pm, H)
    \/ r # Null /\ r \notin H /\ Sound(sm, pm, H \cup {r})

LEMMA TakeAdds ==
    ASSUME NEW sl \in Seq(Slab), NEW po, NEW size \in Nat, NEW n \in DOMAIN sl,
           sl[n].obj_size >= size, FreeObjects(sl[n]) # {},
           NEW H \in SUBSET Pointer, Sound(sl, po, H)
    PROVE  Adds(Take(sl, po, n, size).slabs, po, H, Take(sl, po, n, size).ret)
  <1> DEFINE sm == Take(sl, po, n, size).slabs
             r == Take(sl, po, n, size).ret
  <1>1. /\ sm \in Seq(Slab) /\ Recounted(sl, sm, n)
        /\ sm[n].used_objs = sl[n].used_objs + 1 /\ sm[n].obj_count = sl[n].obj_count
        /\ r \in Pointer /\ r # Null
    BY TakeShape
  <1>2. PICK k \in 0 .. ObjCount - 1 :
            /\ sl[n].bitmap[k] = 0 /\ sm[n].bitmap = [sl[n].bitmap EXCEPT ![k] = 1]
            /\ Object(sl, r, n, k)
    BY TakeShape
  <1> HIDE DEF sm, r
  <1>3. r \notin H /\ Sound(sm, po, H \cup {r})
    BY <1>1, <1>2, TakeSound
  <1>4. QED
    BY <1>1, <1>3 DEF Adds, sm, r

\* Whole pages from the pool.
LEMMA TakePagesKeeps ==
    ASSUME NEW sl, NEW po, Typed(sl, po), NEW size \in Nat
    PROVE  LET got == TakePages(sl, po, size)
           IN /\ got.slabs = sl /\ Typed(sl, got.pool) /\ got.ret \in Pointer
              /\ \A H \in SUBSET Pointer : Sound(sl, po, H) => Adds(sl, got.pool, H, got.ret)
  <1> DEFINE n == size \div page_size
             got == TakePages(sl, po, size)
             r == [addr |-> po * page_size, len |-> n * page_size, asked |-> size, paged |-> TRUE]
  <1>1. /\ page_size \in Nat \ {0} /\ Pages \in Nat /\ po \in Nat /\ po >= 1
        /\ po <= Pages + 1 /\ sl \in Seq(Slab)
    BY HeapAssumption DEF Typed
  <1>2. n \in Nat
    BY <1>1, DivRange
  <1>3. \/ got.slabs = sl /\ got.pool = po /\ got.ret = Null
        \/ /\ n > 0 /\ po + n - 1 <= Pages
           /\ got.slabs = sl /\ got.pool = po + n /\ got.ret = r
    <2>1. /\ got.slabs = sl /\ got.pool = PmmAlloc(po, n).pool
          /\ got.ret = IF PmmAlloc(po, n).page = 0 THEN Null
                       ELSE [addr |-> PmmAlloc(po, n).page * page_size, len |-> n * page_size,
                             asked |-> size, paged |-> TRUE]
      BY DEF TakePages
    <2>2. \/ n > 0 /\ po + n - 1 <= Pages /\ PmmAlloc(po, n) = [page |-> po, pool |-> po + n]
          \/ PmmAlloc(po, n) = [page |-> 0, pool |-> po]
      BY DEF PmmAlloc
    <2> HIDE DEF n
    <2>3. CASE PmmAlloc(po, n) = [page |-> 0, pool |-> po]
      BY <2>1, <2>3
    <2>4. CASE n > 0 /\ po + n - 1 <= Pages /\ PmmAlloc(po, n) = [page |-> po, pool |-> po + n]
      <3>1. PmmAlloc(po, n).page = po /\ PmmAlloc(po, n).pool = po + n
        BY <2>4
      <3>2. QED
        BY <1>1, <2>1, <2>4, <3>1
    <2>5. QED
      BY <2>2, <2>3, <2>4
  <1> HIDE DEF n, got
  <1>4. CASE got.slabs = sl /\ got.pool = po /\ got.ret = Null
    <2>1. Null \in Pointer
      BY DEF Null, Pointer
    <2>2. QED
      BY <1>4, <2>1 DEF Adds, got
  <1>5. CASE /\ n > 0 /\ po + n - 1 <= Pages
             /\ got.slabs = sl /\ got.pool = po + n /\ got.ret = r
    <2>1. po * page_size \in Nat /\ n * page_size \in Nat
      BY <1>1, <1>2
    <2>2. r \in Pointer /\ r.paged /\ r.addr = po * page_size /\ r.len = n * page_size
      BY <2>1 DEF Pointer
    <2> HIDE DEF r
    <2>3. PageOf(r.addr) = po /\ PageOf(r.len) = n
      <3>1. (po * page_size) \div page_size = po
        BY <1>1, <2>1, DivUnique
      <3>2. (n * page_size) \div page_size = n
        BY <1>1, <1>2, <2>1, DivUnique
      <3>3. QED
        BY <2>2, <3>1, <3>2 DEF PageOf
    <2>4. WholePages(r.addr) /\ WholePages(r.len)
      BY <2>2, <2>3 DEF WholePages
    <2>5. BlockOf(r) = po .. po + n - 1
      BY <2>3 DEF BlockOf
    <2>6. r # Null
      <3>1. r.len # 0
        <4>1. 0 * page_size + page_size <= n * page_size
          BY <1>1, <1>2, <1>5, MulOrder
        <4>2. QED
          BY <1>1, <2>1, <2>2, <4>1
      <3>2. QED
        BY <3>1 DEF Null
    <2>7. Typed(sl, po + n)
      BY <1>1, <1>2, <1>5 DEF Typed
    <2>8. ASSUME NEW H \in SUBSET Pointer, Sound(sl, po, H)
          PROVE  r \notin H /\ Sound(sl, po + n, H \cup {r})
      <3> DEFINE pm == po + n
      <3>1. /\ 1 .. po - 1 \subseteq 1 .. pm - 1 /\ po .. po + n - 1 \subseteq 1 .. pm - 1
            /\ (1 .. po - 1) \cap (po .. po + n - 1) = {} /\ po \in po .. po + n - 1
        BY <1>1, <1>2, <1>5
      <3> SUFFICES r \notin H /\ Sound(sl, pm, H \cup {r})
        OBVIOUS
      <3> HIDE DEF pm
      <3>2. SlabsPlaced(sl, pm)
        <4>1. \A m \in DOMAIN sl : /\ DataOf(sl[m]) \subseteq 1 .. pm - 1
                                   /\ sl[m].books \subseteq 1 .. pm - 1
          BY <2>8, <3>1 DEF Sound, SlabsPlaced
        <4>2. QED
          BY <2>8, <4>1 DEF Sound, SlabsPlaced
      <3>3. \A q \in H : q.paged => BlockOf(q) \cap BlockOf(r) = {} /\ BlockOf(r) \cap BlockOf(q) = {}
        BY <2>5, <2>8, <3>1 DEF Sound, PointersPlaced
      <3>4. r \notin H
        BY <2>2, <2>5, <3>1, <3>3
      <3>5. \A m \in DOMAIN sl : BlockOf(r) \cap (DataOf(sl[m]) \cup sl[m].books) = {}
        BY <2>5, <2>8, <3>1 DEF Sound, SlabsPlaced
      <3>6. PointersPlaced(sl, pm, H \cup {r})
        <4> SUFFICES ASSUME NEW q \in H \cup {r}
                     PROVE  /\ q.paged => /\ WholePages(q.addr) /\ WholePages(q.len)
                                          /\ BlockOf(q) \subseteq 1 .. pm - 1
                                          /\ \A m \in DOMAIN sl :
                                                BlockOf(q) \cap (DataOf(sl[m]) \cup sl[m].books) = {}
                            /\ ~q.paged => \E m \in DOMAIN sl, l \in 0 .. ObjCount - 1 : Object(sl, q, m, l)
                            /\ \A p \in (H \cup {r}) \ {q} :
                                   IF q.paged THEN p.paged => BlockOf(q) \cap BlockOf(p) = {}
                                              ELSE ~p.paged => q.addr # p.addr
          BY DEF PointersPlaced
        <4>1. CASE q = r
          BY <2>2, <2>4, <2>5, <3>1, <3>3, <3>5, <4>1
        <4>2. CASE q \in H
          <5>1. /\ q.paged => /\ WholePages(q.addr) /\ WholePages(q.len)
                              /\ BlockOf(q) \subseteq 1 .. po - 1
                              /\ \A m \in DOMAIN sl :
                                    BlockOf(q) \cap (DataOf(sl[m]) \cup sl[m].books) = {}
                /\ ~q.paged => \E m \in DOMAIN sl, l \in 0 .. ObjCount - 1 : Object(sl, q, m, l)
                /\ \A p \in H \ {q} : IF q.paged THEN p.paged => BlockOf(q) \cap BlockOf(p) = {}
                                                 ELSE ~p.paged => q.addr # p.addr
            BY <2>8, <4>2 DEF Sound, PointersPlaced
          <5>2. q.paged => BlockOf(q) \subseteq 1 .. pm - 1
            BY <3>1, <5>1
          <5>3. \A p \in (H \cup {r}) \ {q} :
                    IF q.paged THEN p.paged => BlockOf(q) \cap BlockOf(p) = {}
                               ELSE ~p.paged => q.addr # p.addr
            BY <2>2, <3>3, <4>2, <5>1
          <5>4. QED
            BY <5>1, <5>2, <5>3
        <4>3. QED
          BY <4>1, <4>2
      <3>7. \A m, k : InUse(sl, H \cup {r}, m, k) <=> InUse(sl, H, m, k)
        BY <2>2 DEF InUse, Object
      <3>8. MarksRight(sl, H \cup {r})
        BY <2>8, <3>7 DEF Sound, MarksRight
      <3>9. QED
        BY <2>8, <3>2, <3>4, <3>6, <3>8 DEF Sound
    <2>9. QED
      BY <1>5, <2>2, <2>6, <2>7, <2>8 DEF Adds, got
  <1>6. QED
    BY <1>3, <1>4, <1>5
LEMMA MallocKeeps ==
    ASSUME NEW sl, NEW po, Typed(sl, po), NEW size \in Sizes, CanMalloc(sl, po, size)
    PROVE  LET got == Malloc(sl, po, size)
           IN /\ Typed(got.slabs, got.pool) /\ got.ret \in Pointer
              /\ Backed(got.slabs) => Backed(sl)
              /\ Backed(got.slabs) => \A H \in SUBSET Pointer :
                     Sound(sl, po, H) => Adds(got.slabs, got.pool, H, got.ret)
  <1> DEFINE got == Malloc(sl, po, size)
  <1>1. sl \in Seq(Slab) /\ size \in Nat
    BY HeapAssumption DEF Typed
  <1>2. CASE IsLarge(size)
    <2>1. got = TakePages(sl, po, size)
      BY <1>2 DEF Malloc
    <2>2. /\ got.slabs = sl /\ Typed(sl, got.pool) /\ got.ret \in Pointer
          /\ \A H \in SUBSET Pointer : Sound(sl, po, H) => Adds(sl, got.pool, H, got.ret)
      BY <1>1, <2>1, TakePagesKeeps
    <2>3. QED
      BY <2>2
  <1>3. CASE ~IsLarge(size) /\ Fitting(sl, size) # {}
    <2> DEFINE n == Least(Fitting(sl, size))
    <2>1. n \in DOMAIN sl /\ sl[n].obj_size >= size /\ FreeObjects(sl[n]) # {}
      <3>1. Fitting(sl, size) \in SUBSET Nat
        BY <1>1 DEF Fitting
      <3>2. n \in Fitting(sl, size)
        BY <1>3, <3>1, LeastIn
      <3>3. QED
        BY <3>2 DEF Fitting
    <2>2. got = Take(sl, po, n, size)
      BY <1>3 DEF Malloc
    <2> HIDE DEF n
    <2>3. /\ got.slabs \in Seq(Slab) /\ Recounted(sl, got.slabs, n)
          /\ got.pool = po /\ got.ret \in Pointer
      BY <1>1, <2>1, <2>2, TakeShape
    <2>4. Backed(got.slabs) <=> Backed(sl)
      BY <1>1, <2>1, <2>3, RecountedKeeps
    <2>5. ASSUME NEW H \in SUBSET Pointer, Sound(sl, po, H)
          PROVE  Adds(got.slabs, got.pool, H, got.ret)
      <3>1. Adds(Take(sl, po, n, size).slabs, po, H, Take(sl, po, n, size).ret)
        BY <1>1, <2>1, <2>5, TakeAdds
      <3>2. QED
        BY <2>2, <2>3, <3>1
    <2>6. QED
      BY <2>3, <2>4, <2>5 DEF Typed
  <1>4. CASE ~IsLarge(size) /\ Fitting(sl, size) = {}
    <2> DEFINE sm == SlabInit(sl, po, size).slabs
               pm == SlabInit(sl, po, size).pool
               e == Len(sl) + 1
    <2>1. CanInit(sl, po, size) /\ size \in 1 .. ObjCount
      <3>1. CanInit(sl, po, size)
        BY <1>4 DEF CanMalloc
      <3>2. size <= ObjCount /\ size # 0
        <4>1. size # 0
          BY <1>4, HeapAssumption DEF IsLarge
        <4>2. QED
          BY <1>4, <4>1, HeapAssumption
      <3>3. QED
        BY <1>1, <3>1, <3>2, HeapAssumption
    <2>2. /\ Typed(sm, pm) /\ pm >= po /\ Len(sm) = e
          /\ \A m \in DOMAIN sl : sm[m] = sl[m]
          /\ sm[e].obj_size = size /\ sm[e].obj_count = ObjCount /\ sm[e].used_objs = 0
          /\ sm[e].bitmap = [k \in 0 .. ObjCount - 1 |-> 0]
          /\ sm[e].base # 0 => /\ WholePages(sm[e].base)
                               /\ DataOf(sm[e]) \subseteq po .. pm - 1
                               /\ sm[e].books \subseteq po .. pm - 1
                               /\ DataOf(sm[e]) \cap sm[e].books = {}
      BY <2>1, SlabInitShape
    <2>3. got = Take(sm, pm, e, size)
      <3>1. got = Take(sm, pm, Len(sm), size)
        BY <1>4 DEF Malloc
      <3>2. QED
        BY <2>2, <3>1
    <2>4. \A H \in SUBSET Pointer : Sound(sl, po, H) /\ Backed(sm) => Sound(sm, pm, H)
      BY <2>1, SlabInitSound
    <2> HIDE DEF sm, pm
    <2>5. sm \in Seq(Slab) /\ e \in DOMAIN sm /\ DOMAIN sl \subseteq DOMAIN sm
      BY <1>1, <2>2 DEF Typed
    <2>6. sm[e].obj_size >= size /\ FreeObjects(sm[e]) # {}
      <3>1. 0 \in 0 .. sm[e].obj_size - 1 /\ 0 \in 0 .. ObjCount - 1
        BY <2>1, <2>2, HeapAssumption
      <3>2. 0 \in FreeObjects(sm[e])
        BY <2>2, <3>1 DEF FreeObjects
      <3>3. QED
        BY <1>1, <2>2, <3>2
    <2> HIDE DEF e
    <2>7. /\ got.slabs \in Seq(Slab) /\ Recounted(sm, got.slabs, e)
          /\ got.pool = pm /\ got.ret \in Pointer
      BY <1>1, <2>3, <2>5, <2>6, TakeShape
    <2>8. Backed(got.slabs) <=> Backed(sm)
      BY <2>5, <2>7, RecountedKeeps
    <2>9. Backed(sm) => Backed(sl)
      BY <2>2, <2>5 DEF Backed
    <2>10. ASSUME Backed(sm), NEW H \in SUBSET Pointer, Sound(sl, po, H)
           PROVE  Adds(got.slabs, got.pool, H, got.ret)
      <3>1. Sound(sm, pm, H)
        BY <2>4, <2>10
      <3>2. Adds(Take(sm, pm, e, size).slabs, pm, H, Take(sm, pm, e, size).ret)
        BY <1>1, <2>5, <2>6, <3>1, TakeAdds
      <3>3. QED
        BY <2>3, <2>7, <3>2
    <2>11. QED
      BY <2>2, <2>7, <2>8, <2>9, <2>10 DEF Typed
  <1>5. QED
    BY <1>2, <1>3, <1>4

-----------------------------------------------------------------------------
(* The inductive invariant. *)

\* The pointers in use, each with one variable.
Held == {ptr[p] : p \in Ptrs} \ {Null}
HeldOnce == \A p, q \in Ptrs : p # q /\ ptr[p] = ptr[q] => ptr[p] = Null

IInv ==
    /\ Typed(slabs, pool) /\ ptr \in [Ptrs -> Pointer]
    /\ Backed(slabs) => HeldOnce /\ Sound(slabs, pool, Held)

LEMMA InitIInv == Init => IInv
  <1> SUFFICES ASSUME Init PROVE IInv
    OBVIOUS
  <1>1. slabs = <<>> /\ slabs \in Seq(Slab) /\ DOMAIN slabs = {}
    BY DEF Init
  <1>2. Typed(slabs, pool)
    BY <1>1, HeapAssumption DEF Init, Typed
  <1>3. ptr \in [Ptrs -> Pointer] /\ Held = {} /\ HeldOnce
    <2>1. Null \in Pointer
      BY DEF Null, Pointer
    <2>2. QED
      BY <2>1 DEF Init, Held, HeldOnce
  <1>4. Sound(slabs, pool, {})
    BY <1>1 DEF Sound, SlabsPlaced, PointersPlaced, MarksRight, Counted
  <1>5. QED
    BY <1>2, <1>3, <1>4 DEF IInv

\* Changing one pointer variable to NULL or to a pointer not in use.
LEMMA HeldChange ==
    ASSUME ptr \in [Ptrs -> Pointer], HeldOnce, NEW p \in Ptrs, NEW r \in Pointer,
           r = Null \/ r \notin Held, ptr' = [ptr EXCEPT ![p] = r]
    PROVE  /\ HeldOnce'
           /\ Held' = (Held \ {ptr[p]}) \cup ({r} \ {Null})
  <1>1. \A q \in Ptrs : ptr'[q] = IF q = p THEN r ELSE ptr[q]
    OBVIOUS
  <1>2. HeldOnce'
    BY <1>1 DEF HeldOnce, Held
  <1>3. ASSUME NEW x \in Held' PROVE x \in (Held \ {ptr[p]}) \cup ({r} \ {Null})
    <2>1. PICK q \in Ptrs : x = ptr'[q] /\ x # Null
      BY <1>3 DEF Held
    <2>2. CASE q = p
      BY <1>1, <2>1, <2>2
    <2>3. CASE q # p
      BY <1>1, <2>1, <2>3 DEF Held, HeldOnce
    <2>4. QED
      BY <2>2, <2>3
  <1>4. ASSUME NEW x \in (Held \ {ptr[p]}) \cup ({r} \ {Null}) PROVE x \in Held'
    BY <1>1, <1>4 DEF Held
  <1>5. QED
    BY <1>2, <1>3, <1>4
LEMMA StepInit == IInv /\ heap_init => IInv'
  <1> SUFFICES ASSUME IInv, heap_init PROVE IInv'
    OBVIOUS
  <1> DEFINE size == Classes[Len(slabs) + 1]
  <1>1. Typed(slabs, pool) /\ ptr \in [Ptrs -> Pointer]
    BY DEF IInv
  <1>2. /\ CanInit(slabs, pool, size) /\ ptr' = ptr
        /\ slabs' = SlabInit(slabs, pool, size).slabs /\ pool' = SlabInit(slabs, pool, size).pool
    BY DEF heap_init
  <1>3. size \in 1 .. ObjCount
    <2>1. Classes \in Seq(1 .. ObjCount)
      BY HeapAssumption
    <2>2. Len(slabs) \in Nat /\ Len(slabs) < Len(Classes)
      BY <1>1 DEF heap_init, Typed
    <2>3. Len(slabs) + 1 \in 1 .. Len(Classes)
      BY <2>1, <2>2
    <2>4. \A k \in 1 .. Len(Classes) : Classes[k] \in 1 .. ObjCount
      <3> DEFINE S == 1 .. ObjCount
      <3>1. Classes \in Seq(S)
        BY <2>1
      <3> HIDE DEF S
      <3>2. \A k \in 1 .. Len(Classes) : Classes[k] \in S
        BY <3>1
      <3>3. QED
        BY <3>2 DEF S
    <2>5. QED
      BY <2>3, <2>4
  <1> HIDE DEF size
  <1>4. Typed(slabs', pool') /\ \A m \in DOMAIN slabs : slabs'[m] = slabs[m]
    <2> DEFINE sm == SlabInit(slabs, pool, size).slabs
               pm == SlabInit(slabs, pool, size).pool
               e == Len(slabs) + 1
    <2>1. /\ Typed(sm, pm) /\ pm >= pool /\ Len(sm) = e
          /\ \A m \in DOMAIN slabs : sm[m] = slabs[m]
          /\ sm[e].obj_size = size /\ sm[e].obj_count = ObjCount /\ sm[e].used_objs = 0
          /\ sm[e].bitmap = [k \in 0 .. ObjCount - 1 |-> 0]
          /\ sm[e].base # 0 => /\ WholePages(sm[e].base)
                               /\ DataOf(sm[e]) \subseteq pool .. pm - 1
                               /\ sm[e].books \subseteq pool .. pm - 1
                               /\ DataOf(sm[e]) \cap sm[e].books = {}
      BY <1>1, <1>2, <1>3, SlabInitShape
    <2>2. QED
      BY <1>2, <2>1
  <1>5. DOMAIN slabs \subseteq DOMAIN slabs'
    <2>1. Len(slabs') = Len(slabs) + 1
      BY <1>1, <1>2 DEF SlabInit, Typed
    <2>2. QED
      BY <1>1, <1>4, <2>1 DEF Typed
  <1>6. ASSUME Backed(slabs') PROVE HeldOnce' /\ Sound(slabs', pool', Held')
    <2>1. Backed(slabs)
      BY <1>4, <1>5, <1>6 DEF Backed
    <2>2. HeldOnce' /\ Held' = Held
      BY <1>2, <2>1 DEF IInv, HeldOnce, Held
    <2>3. Held \in SUBSET Pointer
      BY <1>1 DEF Held
    <2>4. Sound(slabs', pool', Held)
      BY <1>1, <1>2, <1>3, <1>6, <2>1, <2>3, SlabInitSound DEF IInv
    <2>5. QED
      BY <2>2, <2>4
  <1>7. QED
    BY <1>1, <1>2, <1>4, <1>6 DEF IInv

LEMMA StepMalloc ==
    ASSUME IInv, NEW p \in Ptrs, NEW size \in Sizes, malloc(p, size)
    PROVE  IInv'
  <1> DEFINE got == Malloc(slabs, pool, size)
  <1>1. Typed(slabs, pool) /\ ptr \in [Ptrs -> Pointer]
    BY DEF IInv
  <1>2. /\ ptr[p] = Null /\ CanMalloc(slabs, pool, size)
        /\ slabs' = got.slabs /\ pool' = got.pool /\ ptr' = [ptr EXCEPT ![p] = got.ret]
    BY DEF malloc
  <1>3. /\ Typed(got.slabs, got.pool) /\ got.ret \in Pointer
        /\ Backed(got.slabs) => Backed(slabs)
        /\ Backed(got.slabs) => \A H \in SUBSET Pointer :
               Sound(slabs, pool, H) => Adds(got.slabs, got.pool, H, got.ret)
    BY <1>1, <1>2, MallocKeeps
  <1> HIDE DEF got
  <1>4. ptr' \in [Ptrs -> Pointer]
    BY <1>1, <1>2, <1>3
  <1>5. ASSUME Backed(slabs') PROVE HeldOnce' /\ Sound(slabs', pool', Held')
    <2>1. Held \in SUBSET Pointer /\ HeldOnce /\ Sound(slabs, pool, Held)
      BY <1>1, <1>2, <1>3, <1>5 DEF IInv, Held
    <2>2. Adds(got.slabs, got.pool, Held, got.ret)
      BY <1>2, <1>3, <1>5, <2>1
    <2>3. got.ret = Null \/ got.ret \notin Held
      BY <2>2 DEF Adds
    <2>4. HeldOnce' /\ Held' = (Held \ {ptr[p]}) \cup ({got.ret} \ {Null})
      BY <1>1, <1>2, <1>3, <2>1, <2>3, HeldChange
    <2>5. ptr[p] \notin Held
      BY <1>2 DEF Held
    <2>6. CASE got.ret = Null /\ Sound(got.slabs, got.pool, Held)
      <3>1. Held' = Held
        BY <2>4, <2>5, <2>6
      <3>2. QED
        BY <1>2, <2>4, <2>6, <3>1
    <2>7. CASE got.ret # Null /\ Sound(got.slabs, got.pool, Held \cup {got.ret})
      <3>1. Held' = Held \cup {got.ret}
        BY <2>4, <2>5, <2>7
      <3>2. QED
        BY <1>2, <2>4, <2>7, <3>1
    <2>8. QED
      BY <2>2, <2>6, <2>7 DEF Adds
  <1>6. QED
    BY <1>2, <1>3, <1>4, <1>5 DEF IInv

LEMMA StepFree ==
    ASSUME IInv, NEW p \in Ptrs, free(p)
    PROVE  IInv'
  <1> DEFINE q == ptr[p]
  <1>1. Typed(slabs, pool) /\ ptr \in [Ptrs -> Pointer] /\ Null \in Pointer /\ q \in Pointer
    BY DEF IInv, Null, Pointer
  <1>2. /\ q # Null /\ slabs' = AfterFree(slabs, q)
        /\ ptr' = [ptr EXCEPT ![p] = Null] /\ pool' = pool
    BY DEF free
  <1>3. slabs' \in Seq(Slab) /\ (Backed(slabs') <=> Backed(slabs))
    BY <1>1, <1>2, FreeTyped DEF Typed
  <1>4. ptr' \in [Ptrs -> Pointer]
    BY <1>1, <1>2
  <1>5. ASSUME Backed(slabs') PROVE HeldOnce' /\ Sound(slabs', pool', Held')
    <2>1. Held \in SUBSET Pointer /\ HeldOnce /\ Sound(slabs, pool, Held)
      BY <1>1, <1>3, <1>5 DEF IInv, Held
    <2>2. q \in Held
      BY <1>2 DEF Held
    <2>3. HeldOnce' /\ Held' = (Held \ {ptr[p]}) \cup ({Null} \ {Null})
      BY <1>1, <1>2, <2>1, HeldChange
    <2>4. Held' = Held \ {q}
      BY <2>3
    <2>5. Sound(AfterFree(slabs, q), pool, Held \ {q})
      BY <1>1, <2>1, <2>2, FreeKeepsSound DEF Typed
    <2>6. QED
      BY <1>2, <2>3, <2>4, <2>5
  <1>6. QED
    BY <1>1, <1>2, <1>3, <1>4, <1>5 DEF IInv, Typed

LEMMA StepRealloc ==
    ASSUME IInv, NEW p \in Ptrs, NEW size \in Sizes, realloc(p, size)
    PROVE  IInv'
  <1> DEFINE got == Malloc(slabs, pool, size)
             q == ptr[p]
  <1>1. Typed(slabs, pool) /\ ptr \in [Ptrs -> Pointer] /\ q \in Pointer
    BY DEF IInv
  <1>2. /\ q # Null /\ CanMalloc(slabs, pool, size)
        /\ slabs' = AfterFree(got.slabs, q) /\ pool' = got.pool
        /\ ptr' = [ptr EXCEPT ![p] = got.ret]
    BY DEF realloc
  <1>3. /\ Typed(got.slabs, got.pool) /\ got.ret \in Pointer
        /\ Backed(got.slabs) => Backed(slabs)
        /\ Backed(got.slabs) => \A H \in SUBSET Pointer :
               Sound(slabs, pool, H) => Adds(got.slabs, got.pool, H, got.ret)
    BY <1>1, <1>2, MallocKeeps
  <1> HIDE DEF got
  <1>4. slabs' \in Seq(Slab) /\ (Backed(slabs') <=> Backed(got.slabs))
    BY <1>1, <1>2, <1>3, FreeTyped DEF Typed
  <1>5. ptr' \in [Ptrs -> Pointer]
    BY <1>1, <1>2, <1>3
  <1>6. ASSUME Backed(slabs') PROVE HeldOnce' /\ Sound(slabs', pool', Held')
    <2>1. Held \in SUBSET Pointer /\ HeldOnce /\ Sound(slabs, pool, Held)
      BY <1>1, <1>3, <1>4, <1>6 DEF IInv, Held
    <2>2. Adds(got.slabs, got.pool, Held, got.ret)
      BY <1>3, <1>4, <1>6, <2>1
    <2>3. got.ret = Null \/ got.ret \notin Held
      BY <2>2 DEF Adds
    <2>4. HeldOnce' /\ Held' = (Held \ {ptr[p]}) \cup ({got.ret} \ {Null})
      BY <1>1, <1>2, <1>3, <2>1, <2>3, HeldChange
    <2>5. q \in Held
      BY <1>2 DEF Held
    <2>6. CASE got.ret = Null /\ Sound(got.slabs, got.pool, Held)
      <3>1. Held' = Held \ {q}
        BY <2>4, <2>6
      <3>2. Sound(AfterFree(got.slabs, q), got.pool, Held \ {q})
        BY <1>3, <2>1, <2>5, <2>6, FreeKeepsSound DEF Typed
      <3>3. QED
        BY <1>2, <2>4, <3>1, <3>2
    <2>7. CASE got.ret # Null /\ got.ret \notin Held /\ Sound(got.slabs, got.pool, Held \cup {got.ret})
      <3>1. Held' = (Held \cup {got.ret}) \ {q}
        BY <2>4, <2>5, <2>7
      <3>2. Held \cup {got.ret} \in SUBSET Pointer /\ q \in Held \cup {got.ret}
        BY <1>3, <2>1, <2>5
      <3>3. Sound(AfterFree(got.slabs, q), got.pool, (Held \cup {got.ret}) \ {q})
        BY <1>3, <2>7, <3>2, FreeKeepsSound DEF Typed
      <3>4. QED
        BY <1>2, <2>4, <3>1, <3>3
    <2>8. QED
      BY <2>2, <2>6, <2>7 DEF Adds
  <1>7. QED
    BY <1>2, <1>3, <1>4, <1>5, <1>6 DEF IInv, Typed

LEMMA StepIInv == IInv /\ [Next]_vars => IInv'
  <1> SUFFICES ASSUME IInv, [Next]_vars PROVE IInv'
    OBVIOUS
  <1>1. CASE heap_init
    BY <1>1, StepInit
  <1>2. CASE \E p \in Ptrs : free(p)
    BY <1>2, StepFree
  <1>3. CASE \E p \in Ptrs, size \in Sizes : malloc(p, size)
    BY <1>3, StepMalloc
  <1>4. CASE \E p \in Ptrs, size \in Sizes : realloc(p, size)
    BY <1>4, StepRealloc
  <1>5. CASE UNCHANGED vars
    BY <1>5 DEF vars, IInv, HeldOnce, Held
  <1>6. QED
    BY <1>1, <1>2, <1>3, <1>4, <1>5 DEF Next

LEMMA Invariance == Spec => []IInv
  BY InitIInv, StepIInv, PTL DEF Spec
-----------------------------------------------------------------------------
\* Every slab keeps its shape: sizes and counts in range, a bitmap of bytes,
\* books in memory; the pool's next page is never past the end.
THEOREM HeapTyping == Spec => []TypeOK
  <1>1. IInv => TypeOK
    BY DEF IInv, Typed, TypeOK
  <1>2. QED
    BY Invariance, <1>1, PTL

\* While slabs get memory, what malloc added to used_objs and free took from
\* obj_count is the number of marked objects, in every slab.
THEOREM CountersDrift == Spec => []CountersAgree
  <1>1. IInv => CountersAgree
    BY DEF IInv, CountersAgree, AllBacked, Backed, Sound, Counted
  <1>2. QED
    BY Invariance, <1>1, PTL

\* The pages that a pointer's bytes lie in.
LEMMA PointerPages ==
    ASSUME NEW sl \in Seq(Slab), NEW po, NEW H \in SUBSET Pointer, Sound(sl, po, H),
           NEW q \in H, NEW a \in BytesOf(q)
    PROVE  /\ a \in Nat /\ q.addr <= a /\ a < q.addr + q.len
           /\ q.paged => PageOf(a) \in BlockOf(q)
           /\ \A n \in DOMAIN sl, k \in 0 .. ObjCount - 1 :
                  Object(sl, q, n, k) => PageOf(a) \in DataOf(sl[n])
  <1>1. q.addr \in Nat /\ q.len \in Nat
    BY DEF Pointer
  <1>2. a \in Nat /\ q.addr <= a /\ a < q.addr + q.len
    BY <1>1 DEF BytesOf
  <1>3. ASSUME q.paged PROVE PageOf(a) \in BlockOf(q)
    <2>1. /\ q.addr = PageOf(q.addr) * page_size /\ q.len = PageOf(q.len) * page_size
      BY <1>3 DEF Sound, PointersPlaced, WholePages
    <2>2. PageOf(q.addr) \in Nat /\ PageOf(q.len) \in Nat
      BY <1>1, HeapAssumption, DivRange DEF PageOf
    <2> DEFINE f == PageOf(q.addr)
               n == PageOf(q.len)
    <2> HIDE DEF f, n
    <2>3. f \in Nat /\ n \in Nat /\ f * page_size <= a /\ a < f * page_size + n * page_size
      BY <1>2, <2>1, <2>2 DEF f, n
    <2>4. PageOf(a) \in f .. f + n - 1
      BY <1>2, <2>3, PageAmong
    <2>5. QED
      BY <2>4 DEF BlockOf, f, n
  <1>4. ASSUME NEW n \in DOMAIN sl, NEW k \in 0 .. ObjCount - 1, Object(sl, q, n, k)
        PROVE  PageOf(a) \in DataOf(sl[n])
    <2>1. q.addr = sl[n].base + k * sl[n].obj_size /\ q.len = sl[n].obj_size
      BY <1>4 DEF Object
    <2>2. WholePages(sl[n].base)
      BY DEF Sound, SlabsPlaced
    <2>3. /\ sl[n].base + k * sl[n].obj_size <= a
          /\ a < sl[n].base + k * sl[n].obj_size + sl[n].obj_size
      BY <1>2, <2>1
    <2>4. QED
      BY <1>2, <2>2, <2>3, ObjectInside
  <1>5. QED
    BY <1>2, <1>3, <1>4

\* While slabs get memory, no two pointers share a byte, and none reaches into
\* a page by which malloc and free decide; an object is large enough.
THEOREM ObjectsNeverOverlap == Spec => []ObjectsDisjoint
  <1>1. IInv => ObjectsDisjoint
    <2> SUFFICES ASSUME IInv, Backed(slabs), NEW p \in Ptrs
                 PROVE  /\ \A q \in Ptrs \ {p} : BytesOf(ptr[p]) \cap BytesOf(ptr[q]) = {}
                        /\ \A n \in DOMAIN slabs :
                              {a \div page_size : a \in BytesOf(ptr[p])} \cap slabs[n].books = {}
                        /\ ~ptr[p].paged => ptr[p].len >= ptr[p].asked
      BY DEF ObjectsDisjoint, AllBacked, Backed
    <2>1. /\ slabs \in Seq(Slab) /\ ptr \in [Ptrs -> Pointer]
          /\ HeldOnce /\ Sound(slabs, pool, Held) /\ Held \in SUBSET Pointer
      BY DEF IInv, Typed, Held
    <2>2. BytesOf(Null) = {} /\ Null.paged
      BY DEF BytesOf, Null
    <2>3. \A q \in Ptrs : ptr[q] \in Held \/ ptr[q] = Null
      BY DEF Held
    <2>4. \A q \in Held : /\ q.addr \in Nat /\ q.len \in Nat /\ q.asked \in Nat
                          /\ q.paged \in BOOLEAN
      BY <2>1 DEF Pointer
    <2>5. \A q \in Held : ~q.paged =>
              \E n \in DOMAIN slabs, k \in 0 .. ObjCount - 1 : Object(slabs, q, n, k)
      BY <2>1 DEF Sound, PointersPlaced
    <2>6. ASSUME NEW q \in Held, NEW r \in Held, q # r, NEW a \in BytesOf(q), a \in BytesOf(r),
                 r.paged => q.paged
          PROVE  FALSE
      <3>1. CASE q.paged /\ r.paged
        <4>1. PageOf(a) \in BlockOf(q) /\ PageOf(a) \in BlockOf(r)
          BY <2>1, <2>6, <3>1, PointerPages
        <4>2. QED
          BY <2>1, <2>6, <3>1, <4>1 DEF Sound, PointersPlaced
      <3>2. CASE ~r.paged
        <4>1. PICK n \in DOMAIN slabs, k \in 0 .. ObjCount - 1 : Object(slabs, r, n, k)
          BY <2>5, <3>2
        <4>2. PageOf(a) \in DataOf(slabs[n])
          BY <2>1, <2>6, <4>1, PointerPages
        <4>3. CASE q.paged
          <5>1. PageOf(a) \in BlockOf(q)
            BY <2>1, <2>6, <4>3, PointerPages
          <5>2. QED
            BY <2>1, <4>2, <4>3, <5>1 DEF Sound, PointersPlaced
        <4>4. CASE ~q.paged
          <5>1. PICK m \in DOMAIN slabs, l \in 0 .. ObjCount - 1 : Object(slabs, q, m, l)
            BY <2>5, <4>4
          <5>2. PageOf(a) \in DataOf(slabs[m])
            BY <2>1, <2>6, <5>1, PointerPages
          <5>3. m = n
            BY <2>1, <4>2, <5>2 DEF Sound, SlabsPlaced
          <5>4. q.addr # r.addr
            BY <2>1, <2>6, <3>2, <4>4 DEF Sound, PointersPlaced
          <5>5. /\ q.addr < r.addr => q.addr + q.len <= r.addr
                /\ r.addr < q.addr => r.addr + r.len <= q.addr
            BY <2>1, <4>1, <5>1, <5>3, ObjectsApart
          <5>6. /\ a \in Nat /\ q.addr <= a /\ a < q.addr + q.len
                /\ r.addr <= a /\ a < r.addr + r.len
            BY <2>1, <2>6, PointerPages
          <5>7. QED
            BY <2>4, <5>4, <5>5, <5>6
        <4>5. QED
          BY <2>4, <4>3, <4>4
      <3>3. QED
        BY <2>4, <2>6, <3>1, <3>2
    <2>7. ASSUME NEW q \in Ptrs \ {p}, NEW a \in BytesOf(ptr[p]) \cap BytesOf(ptr[q])
          PROVE  FALSE
      <3>1. ptr[p] \in Held /\ ptr[q] \in Held
        BY <2>2, <2>3, <2>7
      <3>2. ptr[p] # ptr[q]
        BY <2>1, <2>7, <3>1 DEF HeldOnce, Held
      <3>3. QED
        BY <2>4, <2>6, <2>7, <3>1, <3>2
    <2>8. ASSUME NEW n \in DOMAIN slabs, NEW a \in BytesOf(ptr[p]), a \div page_size \in slabs[n].books
          PROVE  FALSE
      <3>1. ptr[p] \in Held
        BY <2>2, <2>3, <2>8
      <3>2. PageOf(a) \in slabs[n].books
        BY <2>8 DEF PageOf
      <3>3. CASE ptr[p].paged
        BY <2>1, <2>8, <3>1, <3>2, <3>3, PointerPages DEF Sound, PointersPlaced
      <3>4. CASE ~ptr[p].paged
        <4>1. PICK m \in DOMAIN slabs, l \in 0 .. ObjCount - 1 : Object(slabs, ptr[p], m, l)
          BY <2>5, <3>1, <3>4
        <4>2. PageOf(a) \in DataOf(slabs[m])
          BY <2>1, <2>8, <3>1, <4>1, PointerPages
        <4>3. QED
          BY <2>1, <3>2, <4>2 DEF Sound, SlabsPlaced
      <3>5. QED
        BY <2>4, <3>1, <3>3, <3>4
    <2>9. ASSUME ~ptr[p].paged PROVE ptr[p].len >= ptr[p].asked
      <3>1. ptr[p] \in Held
        BY <2>2, <2>3, <2>9
      <3>2. QED
        BY <2>4, <2>5, <2>9, <3>1 DEF Object
    <2>10. QED
      BY <2>7, <2>8, <2>9
  <1>2. QED
    BY Invariance, <1>1, PTL

\* While slabs get memory, the objects that are marked and that nobody holds
\* are past obj_count: freed late in their slab's life, and those alone.
THEOREM LeaksAreLate == Spec => []LeaksOnlyPastCount
  <1>1. IInv => LeaksOnlyPastCount
    <2> SUFFICES ASSUME IInv, Backed(slabs), NEW n \in DOMAIN slabs
                 PROVE  /\ HeldObjects(n) \subseteq Marked(slabs[n])
                        /\ \A k \in Marked(slabs[n]) \ HeldObjects(n) : k >= slabs[n].obj_count
      BY DEF LeaksOnlyPastCount, AllBacked, Backed
    <2>1. /\ slabs \in Seq(Slab) /\ ptr \in [Ptrs -> Pointer]
          /\ Sound(slabs, pool, Held) /\ Held \in SUBSET Pointer
      BY DEF IInv, Typed, Held
    <2>2. /\ slabs[n].base \in Nat /\ slabs[n].obj_size \in Nat \ {0}
          /\ ObjCount \in Nat /\ ObjCount \in 0 .. ObjCount
      BY <2>1, SlabTyped
    <2>3. \A m \in DOMAIN slabs : WholePages(slabs[m].base)
      BY <2>1 DEF Sound, SlabsPlaced
    <2> DEFINE b == slabs[n].base
               s == slabs[n].obj_size
    <2>4. ASSUME NEW q \in Held, NEW k \in 0 .. ObjCount - 1, Object(slabs, q, n, k)
          PROVE  (q.addr - b) \div s = k
      <3>1. k \in Nat /\ k * s \in Nat
        BY <2>2
      <3>2. q.addr - b = k * s
        BY <2>2, <2>4, <3>1 DEF Object
      <3>3. (k * s) \div s = k
        BY <2>2, <3>1, DivUnique
      <3>4. QED
        BY <3>2, <3>3
    <2>5. ASSUME NEW k \in 0 .. ObjCount - 1, InUse(slabs, Held, n, k)
          PROVE  k \in HeldObjects(n)
      <3>1. PICK r \in Ptrs : ptr[r] \in Held /\ Object(slabs, ptr[r], n, k)
        BY <2>5 DEF InUse, Held
      <3>2. ptr[r].addr \in Nat /\ ~ptr[r].paged
        BY <2>1, <3>1 DEF Pointer, Object
      <3>3. b <= ptr[r].addr /\ ptr[r].addr < b + ObjCount * s
        BY <2>1, <2>3, <3>1, <3>2, ObjectAddress
      <3>4. (ptr[r].addr - b) \div s = k
        BY <2>4, <3>1
      <3>5. ptr[r].addr >= b
        BY <2>2, <3>2, <3>3
      <3>6. QED
        BY <3>2, <3>3, <3>4, <3>5 DEF HeldObjects
    <2>6. ASSUME NEW k \in HeldObjects(n) PROVE k \in 0 .. ObjCount - 1 /\ InUse(slabs, Held, n, k)
      <3>1. PICK r \in Ptrs : /\ ~ptr[r].paged /\ ptr[r].addr >= b
                              /\ ptr[r].addr < b + ObjCount * s
                              /\ k = (ptr[r].addr - b) \div s
        BY <2>6 DEF HeldObjects
      <3>2. ptr[r] \in Held /\ ptr[r].addr \in Nat
        BY <2>1, <3>1 DEF Held, Null, Pointer
      <3>3. PICK m \in DOMAIN slabs, l \in 0 .. ObjCount - 1 : Object(slabs, ptr[r], m, l)
        BY <2>1, <3>1, <3>2 DEF Sound, PointersPlaced
      <3>4. PageOf(ptr[r].addr) \in DataOf(slabs[m])
        BY <2>1, <2>3, <3>2, <3>3, ObjectAddress
      <3>5. PageOf(ptr[r].addr) \in DataOf(slabs[n])
        <4>1. b <= ptr[r].addr
          BY <2>2, <3>1, <3>2
        <4>2. QED
          BY <2>1, <2>2, <2>3, <3>1, <3>2, <4>1, WithinData
      <3>6. m = n
        BY <2>1, <3>4, <3>5 DEF Sound, SlabsPlaced
      <3>7. k = l
        BY <2>4, <3>1, <3>2, <3>3, <3>6
      <3>8. QED
        BY <3>2, <3>3, <3>6, <3>7 DEF InUse
    <2>7. QED
      BY <2>1, <2>5, <2>6 DEF Sound, MarksRight, Marked
  <1>2. QED
    BY Invariance, <1>1, PTL
=============================================================================

---------------------------- MODULE KlibcProofs ----------------------------
(***************************************************************************)
(* Theorems about the kernel's arguments, Args, on strtok and strcmp of    *)
(* Klibc, for any set of command lines of any length and any size of the   *)
(* table of tokens; and about the other functions of Klibc as Library      *)
(* calls them, for a memory of any size.                                   *)
(*                                                                         *)
(* First what one call of strtok finds; then the fields of the line and    *)
(* their order; then the inductive invariant of Args, which says for every *)
(* point of parse and init where strtok stands, what it has cut and what   *)
(* it has left alone; then one lemma per action.  The second half is the   *)
(* library's: what k rounds of a copy loop leave, by least counterexample, *)
(* then one lemma per function.                                            *)
(***************************************************************************)
EXTENDS Args, Library, FiniteSetTheorems, SequenceTheorems, WellFoundedInduction, TLAPS

\* What strtok finds: the token that starts at ret and ends before stop.
Starts(m, from, d, ret) ==
    /\ ret \in from .. Len(m) /\ m[ret] # d /\ \A h \in from .. ret - 1 : m[h] = d
Stops(m, ret, d, stop) ==
    /\ stop \in ret .. Len(m) /\ m[stop] \in {d, NUL} /\ \A h \in ret .. stop - 1 : m[h] \notin {d, NUL}

\* The two scans of strtok, as FirstIn makes them.
SkipTo(m, from, d) ==
    IF \E k \in from .. Len(m) : m[k] \notin {d}
      THEN CHOOSE k \in from .. Len(m) : m[k] \notin {d} /\ \A h \in from .. k - 1 : ~ (m[h] \notin {d})
      ELSE None
StopAt(m, from, d) ==
    IF \E k \in from .. Len(m) : m[k] \in {d} \cup {NUL}
      THEN CHOOSE k \in from .. Len(m) :
              m[k] \in {d} \cup {NUL} /\ \A h \in from .. k - 1 : ~ (m[h] \in {d} \cup {NUL})
      ELSE None

From(x, s) == IF s = NULL THEN x ELSE s
Ret(m, from, d) == IF from = NULL THEN NULL ELSE SkipTo(m, from, d)

\* A memory whose string is ended at k.
Ended(m, k) == [m EXCEPT ![k] = NUL]

\* strtok by its two scans (string.c:90-131).
LEMMA StrtokIs ==
    ASSUME NEW m, NEW d, NEW x, NEW s
    PROVE  strtok(m, x, s, {d}) =
             IF Ret(m, From(x, s), d) = NULL \/ m[Ret(m, From(x, s), d)] = NUL
               THEN [ret |-> NULL, p |-> x, mem |-> m]
             ELSE IF m[StopAt(m, Ret(m, From(x, s), d), d)] = NUL
               THEN [ret |-> Ret(m, From(x, s), d), p |-> StopAt(m, Ret(m, From(x, s), d), d), mem |-> m]
             ELSE [ret |-> Ret(m, From(x, s), d), p |-> StopAt(m, Ret(m, From(x, s), d), d) + 1,
                   mem |-> Ended(m, StopAt(m, Ret(m, From(x, s), d), d))]
  BY DEF strtok, FirstIn, SkipTo, StopAt, From, Ret, Ended

\* The first scan stops at the first character that is no delimiter.
LEMMA StartFound ==
    ASSUME NEW m, NEW d, NEW from \in Nat, Len(m) \in Nat, NEW ret, Starts(m, from, d, ret)
    PROVE  SkipTo(m, from, d) = ret
  <1>1. ret \in from .. Len(m) /\ m[ret] \notin {d} /\ \A h \in from .. ret - 1 : ~ (m[h] \notin {d})
    BY DEF Starts
  <1>2. \A k \in from .. Len(m) : m[k] \notin {d} /\ (\A h \in from .. k - 1 : ~ (m[h] \notin {d})) => k = ret
    BY <1>1
  <1>3. QED
    BY <1>1, <1>2 DEF SkipTo

\* The second scan stops at the first delimiter or NUL.
LEMMA StopFound ==
    ASSUME NEW m, NEW d, NEW ret \in Nat, Len(m) \in Nat, NEW stop, Stops(m, ret, d, stop)
    PROVE  StopAt(m, ret, d) = stop
  <1>1. stop \in ret .. Len(m) /\ m[stop] \in {d} \cup {NUL} /\ \A h \in ret .. stop - 1 : ~ (m[h] \in {d} \cup {NUL})
    BY DEF Stops
  <1>2. \A k \in ret .. Len(m) : m[k] \in {d} \cup {NUL} /\ (\A h \in ret .. k - 1 : ~ (m[h] \in {d} \cup {NUL})) => k = stop
    BY <1>1
  <1>3. QED
    BY <1>1, <1>2 DEF StopAt

\* With delimiters only up to the NUL, strtok returns NULL and changes nothing.
LEMMA StrtokEnds ==
    ASSUME NEW m, NEW d, Len(m) \in Nat, NEW x, NEW s,
           NEW from \in Nat \ {0}, from = From(x, s),
           NEW ret, Starts(m, from, d, ret), m[ret] = NUL
    PROVE  strtok(m, x, s, {d}) = [ret |-> NULL, p |-> x, mem |-> m]
  <1>1. SkipTo(m, from, d) = ret
    BY StartFound
  <1>2. from # NULL
    BY DEF NULL
  <1>3. Ret(m, from, d) = ret
    BY <1>1, <1>2 DEF Ret
  <1>4. QED
    BY <1>3, StrtokIs

\* Otherwise it returns the token it found, ended by a NUL.
LEMMA StrtokFinds ==
    ASSUME NEW m, NEW d, Len(m) \in Nat, NEW x, NEW s,
           NEW from \in Nat \ {0}, from = From(x, s),
           NEW ret, Starts(m, from, d, ret), m[ret] # NUL,
           NEW stop, Stops(m, ret, d, stop)
    PROVE  strtok(m, x, s, {d}) =
             IF m[stop] = NUL THEN [ret |-> ret, p |-> stop, mem |-> m]
             ELSE [ret |-> ret, p |-> stop + 1, mem |-> Ended(m, stop)]
  <1>1. SkipTo(m, from, d) = ret
    BY StartFound
  <1>2. ret \in Nat /\ ret # NULL
    BY DEF NULL, Starts
  <1>3. StopAt(m, ret, d) = stop
    BY <1>2, StopFound
  <1>4. from # NULL
    BY DEF NULL
  <1>5. Ret(m, from, d) = ret
    BY <1>1, <1>4 DEF Ret
  <1> DEFINE r == Ret(m, From(x, s), d)
             t == StopAt(m, r, d)
  <1>6. r = ret /\ t = stop
    BY <1>3, <1>5
  <1>7. strtok(m, x, s, {d}) =
          IF r = NULL \/ m[r] = NUL THEN [ret |-> NULL, p |-> x, mem |-> m]
          ELSE IF m[t] = NUL THEN [ret |-> r, p |-> t, mem |-> m]
          ELSE [ret |-> r, p |-> t + 1, mem |-> Ended(m, t)]
    BY StrtokIs, Zenon
  <1> HIDE DEF r, t
  <1>8. QED
    BY <1>2, <1>6, <1>7

-----------------------------------------------------------------------------
InOrder == {x \in Nat \X Nat : x[1] < x[2]}

\* A set of naturals has a least element.
LEMMA Least ==
    ASSUME NEW S, S \subseteq Nat, S # {}
    PROVE  \E k \in S : \A h \in S : k <= h
  <1>1. IsWellFoundedOn(InOrder, Nat)
    BY NatLessThanWellFounded DEF OpToRel, InOrder
  <1>2. PICK k \in S : \A h \in S : <<h, k>> \notin InOrder
    BY <1>1, WFMin
  <1>3. ASSUME NEW h \in S PROVE k <= h
    <2>1. h \in Nat /\ k \in Nat /\ <<h, k>> \in Nat \X Nat
      OBVIOUS
    <2>2. h < k => <<h, k>> \in InOrder
      BY <2>1 DEF InOrder
    <2>3. QED
      BY <1>2, <2>1, <2>2
  <1>4. QED
    BY <1>3

\* A scan finds something, at a NUL at the latest.
LEMMA StartExists ==
    ASSUME NEW m, NEW d, d # NUL, Len(m) \in Nat, NEW from \in Nat,
           NEW end \in from .. Len(m), m[end] = NUL
    PROVE  \E ret \in from .. end : Starts(m, from, d, ret)
  <1> DEFINE S == {k \in from .. end : m[k] # d}
  <1>1. S \subseteq Nat /\ S # {}
    BY DEF S
  <1>2. PICK ret \in S : \A h \in S : ret <= h
    BY <1>1, Least, Zenon
  <1>3. ASSUME NEW h \in from .. ret - 1 PROVE m[h] = d
    BY <1>2
  <1>4. QED
    BY <1>2, <1>3 DEF Starts

\* The scan for the end of a token finds one, at the NUL at the latest.
LEMMA StopExists ==
    ASSUME NEW m, NEW d, Len(m) \in Nat, NEW ret \in Nat,
           NEW end \in ret .. Len(m), m[end] = NUL
    PROVE  \E stop \in ret .. end : Stops(m, ret, d, stop)
  <1> DEFINE S == {k \in ret .. end : m[k] \in {d, NUL}}
  <1>1. S \subseteq Nat /\ S # {}
    BY DEF S
  <1>2. PICK stop \in S : \A h \in S : stop <= h
    BY <1>1, Least, Zenon
  <1>3. ASSUME NEW h \in ret .. stop - 1 PROVE m[h] \notin {d, NUL}
    BY <1>2
  <1>4. QED
    BY <1>2, <1>3 DEF Stops

-----------------------------------------------------------------------------
\* Fields.
LEMMA FieldsFinite ==
    ASSUME NEW from \in Nat, NEW to \in Int, NEW d
    PROVE  /\ IsFiniteSet(Fields(from, to, d))
           /\ \A S \in SUBSET Fields(from, to, d) : IsFiniteSet(S) /\ Cardinality(S) \in Nat
  <1>1. IsFiniteSet(from .. to)
    BY FS_Interval
  <1>2. IsFiniteSet((from .. to) \X (from .. to))
    BY <1>1, FS_Product
  <1>3. Fields(from, to, d) \subseteq (from .. to) \X (from .. to)
    BY DEF Fields
  <1>4. IsFiniteSet(Fields(from, to, d))
    BY <1>2, <1>3, FS_Subset
  <1>5. QED
    BY <1>4, FS_Subset, FS_CardinalityType

IsField(from, to, d, f) ==
    /\ f[1] \in Nat /\ f[2] \in Nat /\ from <= f[1] /\ f[1] <= f[2] /\ f[2] <= to
    /\ \A k \in f[1] .. f[2] : line[k] # d
    /\ f[1] = from \/ line[f[1] - 1] = d
    /\ f[2] = to \/ line[f[2] + 1] = d
    /\ f = <<f[1], f[2]>>

\* A field of a range lies in it, without delimiters, and cannot be made longer.
LEMMA FieldShape ==
    ASSUME NEW from \in Nat, NEW to \in Int, NEW d, NEW f \in Fields(from, to, d)
    PROVE  IsField(from, to, d, f)
  BY DEF Fields, IsField

\* Between the fields before b and the others.
Boundary(from, to, d, b) ==
    b \in from .. to + 1 /\ (b = from \/ b = to + 1 \/ line[b - 1] = d)

\* The next field after a boundary.
Follows(from, to, d, b, ret, stop) ==
    /\ ret \in b .. to /\ \A h \in b .. ret - 1 : line[h] = d
    /\ stop \in ret + 1 .. to + 1 /\ \A h \in ret .. stop - 1 : line[h] # d
    /\ stop = to + 1 \/ line[stop] = d

\* What strtok finds next is a field.
LEMMA FieldFollows ==
    ASSUME NEW from \in Nat, NEW to \in Int, NEW d, NEW b, NEW ret, NEW stop,
           Boundary(from, to, d, b), Follows(from, to, d, b, ret, stop)
    PROVE  <<ret, stop - 1>> \in Fields(from, to, d)
  <1>1. ret \in from .. to /\ stop - 1 \in from .. to /\ ret <= stop - 1
    BY DEF Boundary, Follows
  <1>2. ret = from \/ line[ret - 1] = d
    <2>1. CASE ret = b
      BY <2>1, <1>1 DEF Boundary, Follows
    <2>2. CASE ret # b
      <3>1. ret - 1 \in b .. ret - 1
        BY <2>2 DEF Boundary, Follows
      <3>2. QED
        BY <3>1 DEF Follows
    <2>3. QED
      BY <2>1, <2>2
  <1>3. stop - 1 = to \/ line[(stop - 1) + 1] = d
    BY DEF Boundary, Follows
  <1>4. QED
    BY <1>1, <1>2, <1>3 DEF Fields, Follows

\* No field lies between.
LEMMA FieldsBeyond ==
    ASSUME NEW from \in Nat, NEW to \in Int, NEW d, NEW b, NEW ret, NEW stop,
           Boundary(from, to, d, b), Follows(from, to, d, b, ret, stop),
           NEW f \in Fields(from, to, d), f[1] >= b
    PROVE  f = <<ret, stop - 1>> \/ f[1] > stop
  <1>1. /\ f[1] \in Nat /\ f[2] \in Nat /\ from <= f[1] /\ f[1] <= f[2] /\ f[2] <= to
        /\ \A k \in f[1] .. f[2] : line[k] # d
        /\ f[1] = from \/ line[f[1] - 1] = d
        /\ f[2] = to \/ line[f[2] + 1] = d
        /\ f = <<f[1], f[2]>>
    BY FieldShape DEF IsField
  <1>2. line[f[1]] # d /\ f[1] >= ret
    <2>1. f[1] \in f[1] .. f[2]
      BY <1>1
    <2>2. f[1] < ret => f[1] \in b .. ret - 1
      BY <1>1 DEF Boundary, Follows
    <2>3. QED
      BY <1>1, <2>1, <2>2 DEF Follows, Boundary
  <1>3. CASE f[1] = ret
    <2>1. f[2] < stop - 1 => f[2] + 1 \in ret .. stop - 1 /\ f[2] # to
      BY <1>1, <1>3 DEF Follows, Boundary
    <2>2. f[2] > stop - 1 => stop \in f[1] .. f[2] /\ stop # to + 1
      BY <1>1, <1>3 DEF Follows, Boundary
    <2>3. f[2] = stop - 1
      BY <1>1, <2>1, <2>2 DEF Follows, Boundary
    <2>4. QED
      BY <1>1, <1>3, <2>3
  <1>4. CASE f[1] > ret
    <2>1. f[1] < stop => f[1] - 1 \in ret .. stop - 1 /\ f[1] # from
      BY <1>1, <1>4 DEF Follows, Boundary
    <2>2. f[1] # stop
      BY <1>1, <1>2 DEF Follows, Boundary
    <2>3. QED
      BY <1>1, <2>1, <2>2 DEF Follows, Boundary
  <1>5. QED
    BY <1>1, <1>2, <1>3, <1>4 DEF Follows, Boundary

FieldsTo(from, to, d, b) == {f \in Fields(from, to, d) : f[1] < b}

\* One field more.
LEMMA OneMore ==
    ASSUME NEW from \in Nat, NEW to \in Int, NEW d, NEW b, NEW ret, NEW stop,
           Boundary(from, to, d, b), Follows(from, to, d, b, ret, stop),
           NEW e \in {stop, stop + 1}
    PROVE  /\ FieldsTo(from, to, d, e) = FieldsTo(from, to, d, b) \cup {<<ret, stop - 1>>}
           /\ <<ret, stop - 1>> \notin FieldsTo(from, to, d, b)
           /\ Before(<<ret, stop - 1>>, Fields(from, to, d)) = Cardinality(FieldsTo(from, to, d, b))
           /\ Cardinality(FieldsTo(from, to, d, e)) = Cardinality(FieldsTo(from, to, d, b)) + 1
  <1> DEFINE F == Fields(from, to, d)
             new == <<ret, stop - 1>>
  <1>1. new \in F
    BY FieldFollows
  <1>2. ret \in Nat /\ b \in Nat /\ stop \in Nat /\ b <= ret /\ ret < stop
    BY DEF Boundary, Follows
  <1>3. \A f \in F : f[1] \in Nat
    BY FieldShape DEF IsField
  <1>4. \A f \in F : f[1] >= b => f = new \/ f[1] > stop
    BY FieldsBeyond
  <1> HIDE DEF F
  <1>5. FieldsTo(from, to, d, e) = FieldsTo(from, to, d, b) \cup {new}
    BY <1>1, <1>2, <1>3, <1>4 DEF FieldsTo, F
  <1>6. new \notin FieldsTo(from, to, d, b)
    BY <1>2 DEF FieldsTo
  <1>7. {g \in F : g[1] < new[1]} = FieldsTo(from, to, d, b)
    BY <1>1, <1>2, <1>3, <1>4 DEF FieldsTo, F
  <1>8. IsFiniteSet(FieldsTo(from, to, d, b))
    BY FieldsFinite DEF FieldsTo
  <1>9. Cardinality(FieldsTo(from, to, d, b) \cup {new}) = Cardinality(FieldsTo(from, to, d, b)) + 1
    BY <1>6, <1>8, FS_AddElement
  <1>10. Before(new, F) = Cardinality(FieldsTo(from, to, d, b))
    BY <1>7 DEF Before
  <1>11. QED
    BY <1>5, <1>6, <1>9, <1>10 DEF F

\* With delimiters only behind the boundary, all fields lie before it.
LEMMA NoneMore ==
    ASSUME NEW from \in Nat, NEW to \in Int, NEW d, NEW b, Boundary(from, to, d, b),
           \A h \in b .. to : line[h] = d
    PROVE  FieldsTo(from, to, d, b) = Fields(from, to, d)
  <1>1. ASSUME NEW f \in Fields(from, to, d) PROVE f[1] < b
    <2>1. /\ f[1] \in Nat /\ f[2] \in Nat /\ f[1] <= f[2] /\ f[2] <= to
          /\ \A k \in f[1] .. f[2] : line[k] # d
      BY FieldShape DEF IsField
    <2>2. QED
      BY <2>1 DEF Boundary
  <1>2. QED
    BY <1>1 DEF FieldsTo

\* A field is found again by its place among the others.
LEMMA PlacesDiffer ==
    ASSUME NEW from \in Nat, NEW to \in Int, NEW d,
           NEW f \in Fields(from, to, d), NEW g \in Fields(from, to, d)
    PROVE  /\ f[1] < g[1] => Before(f, Fields(from, to, d)) < Before(g, Fields(from, to, d))
           /\ f[1] = g[1] => f = g
           /\ Before(f, Fields(from, to, d)) \in 0 .. Cardinality(Fields(from, to, d)) - 1
           /\ f[1] < g[1] => f[2] < g[1]
  <1> DEFINE F == Fields(from, to, d)
             Below(x) == {h \in F : h[1] < x[1]}
  <1>1. /\ f = <<f[1], f[2]>> /\ f[1] \in Nat /\ f[2] \in Nat /\ from <= f[1] /\ f[1] <= f[2] /\ f[2] <= to
        /\ \A k \in f[1] .. f[2] : line[k] # d
        /\ f[2] = to \/ line[f[2] + 1] = d
    BY FieldShape DEF IsField
  <1>2. /\ g = <<g[1], g[2]>> /\ g[1] \in Nat /\ g[2] \in Nat /\ from <= g[1] /\ g[1] <= g[2] /\ g[2] <= to
        /\ \A k \in g[1] .. g[2] : line[k] # d
        /\ g[1] = from \/ line[g[1] - 1] = d
        /\ g[2] = to \/ line[g[2] + 1] = d
    BY FieldShape DEF IsField
  <1>3. f[1] = g[1] => f = g
    <2>1. f[1] = g[1] /\ f[2] < g[2] => f[2] + 1 \in g[1] .. g[2] /\ f[2] # to
      BY <1>1, <1>2
    <2>2. f[1] = g[1] /\ g[2] < f[2] => g[2] + 1 \in f[1] .. f[2] /\ g[2] # to
      BY <1>1, <1>2
    <2>3. f[1] = g[1] => f[2] = g[2]
      BY <1>1, <1>2, <2>1, <2>2
    <2>4. QED
      BY <1>1, <1>2, <2>3
  <1>4. f[1] < g[1] => f[2] < g[1]
    <2>1. f[1] < g[1] /\ f[2] >= g[1] => g[1] - 1 \in f[1] .. f[2] /\ g[1] # from
      BY <1>1, <1>2
    <2>2. QED
      BY <1>1, <1>2, <2>1
  <1>5. IsFiniteSet(F) /\ Below(f) \in SUBSET F /\ Below(g) \in SUBSET F /\ f \in F
    BY FieldsFinite
  <1> HIDE DEF F
  <1>6. /\ IsFiniteSet(Below(f)) /\ IsFiniteSet(Below(g)) /\ Cardinality(Below(f)) \in Nat
        /\ Cardinality(Below(g)) \in Nat
    BY <1>5, FS_Subset, FS_CardinalityType
  <1>7. f \notin Below(f)
    BY <1>1
  <1>8. IsFiniteSet(Below(f) \cup {f}) /\ Cardinality(Below(f) \cup {f}) = Cardinality(Below(f)) + 1
    BY <1>6, <1>7, FS_AddElement
  <1>9. Cardinality(Below(f)) + 1 <= Cardinality(F)
    <2>1. Below(f) \cup {f} \in SUBSET F
      BY <1>5
    <2>2. QED
      BY <1>5, <1>8, <2>1, FS_Subset
  <1>10. ASSUME f[1] < g[1] PROVE Cardinality(Below(f)) + 1 <= Cardinality(Below(g))
    <2>1. \A h \in F : h[1] \in Nat
      BY FieldShape DEF IsField, F
    <2>2. Below(f) \cup {f} \in SUBSET Below(g)
      BY <1>1, <1>2, <1>5, <1>10, <2>1
    <2>3. QED
      BY <1>6, <1>8, <2>2, FS_Subset
  <1>11. Cardinality(F) \in Nat
    BY <1>5, FS_CardinalityType
  <1> HIDE DEF Below
  <1>12. Before(f, F) = Cardinality(Below(f)) /\ Before(g, F) = Cardinality(Below(g))
    BY DEF Before, Below
  <1>13. QED
    BY <1>3, <1>4, <1>6, <1>9, <1>10, <1>11, <1>12 DEF F

\* Fields at the same place are the same.
LEMMA PlaceIsOne ==
    ASSUME NEW from \in Nat, NEW to \in Int, NEW d,
           NEW f \in Fields(from, to, d), NEW g \in Fields(from, to, d),
           Before(f, Fields(from, to, d)) = Before(g, Fields(from, to, d))
    PROVE  f = g
  <1>1. f[1] \in Nat /\ g[1] \in Nat
    BY FieldShape DEF IsField
  <1>2. /\ f[1] < g[1] => Before(f, Fields(from, to, d)) < Before(g, Fields(from, to, d))
        /\ g[1] < f[1] => Before(g, Fields(from, to, d)) < Before(f, Fields(from, to, d))
        /\ f[1] = g[1] => f = g
        /\ Before(f, Fields(from, to, d)) \in Int
    BY PlacesDiffer
  <1>3. QED
    BY <1>1, <1>2

-----------------------------------------------------------------------------
\* The inductive invariant of Args.
LineEnd == Len(line) - 1

\* The line ends in the only NUL, the constants stand before it.
LineShape ==
    /\ line \in Seq(0 .. 255) /\ Len(line) >= LineAt
    /\ line[Len(line)] = NUL /\ \A k \in LineAt .. LineEnd : line[k] # NUL
    /\ line[DevbuildAt] = Devbuild /\ line[DevbuildAt + 1] = NUL
    /\ line[YesAt] = Yes /\ line[YesAt + 1] = NUL

LineKept(m) ==
    /\ line \in Seq(0 .. 255) /\ m \in Seq(0 .. 255) /\ Len(m) = Len(line)
    /\ Len(line) >= LineAt /\ line[Len(line)] = NUL
ClearedIn(m) ==
    \A k \in 1 .. Len(line) :
        m[k] = line[k] \/ (k >= LineAt /\ m[k] = NUL /\ line[k] \in {Space, Equals})

\* The table t of n tokens holds the starts of these words, which are ended.
Listed(m, t, n, S) ==
    /\ n = Cardinality(S)
    /\ \A w \in S : t[Before(w, Words)] = w[1] /\ m[w[2] + 1] = NUL
    /\ \A h \in 0 .. n - 1 : \E w \in S : Before(w, Words) = h

\* In the loop of parse: strtok stands at b between two words, and what is
\* behind it is as it was.
Parsed(m, b) ==
    /\ Boundary(LineAt, LineEnd, Space, b)
    /\ \A k \in 1 .. Len(line) : m[k] = line[k] \/ (k < b /\ line[k] = Space /\ m[k] = NUL)
Parsing(m, q, t, n) ==
    /\ q \in LineAt .. Len(line) /\ n \in 1 .. MaxTokens
    /\ Parsed(m, q) /\ Listed(m, t, n, FieldsTo(LineAt, LineEnd, Space, q))

\* Once parse is done.
Table(m, q, t, n) ==
    /\ Listed(m, t, n, Words) /\ n < MaxTokens
    /\ n > 0 => q \in LineAt .. Len(line)

\* The words from the n-th on are as they were.
Untouched(m, n) ==
    \A w \in Words : Before(w, Words) >= n => \A k \in w[1] .. w[2] : m[k] = line[k]

\* What the words before the n-th say, the last setting above all.
Latest(w, n) ==
    /\ w \in Settings /\ Before(w, Words) < n
    /\ \A v \in Settings : Before(v, Words) < n => v[1] <= w[1]
Read(n, set) ==
    /\ \A w \in Words : Before(w, Words) < n => ~Unreadable(w)
    /\ set <=> \E w \in Words : Latest(w, n) /\ Text(Part(w, 1)) = <<Yes>>

\* init has cut the name f off the word w.
Cut(m, q, x, w, f) ==
    /\ f \in Parts(w) /\ x = f[1] /\ Before(f, Parts(w)) = 0
    /\ m[f[2] + 1] = NUL /\ \A k \in f[1] .. f[2] : m[k] = line[k]
    /\ Boundary(w[1], w[2], Equals, q) /\ q > f[2]
    /\ FieldsTo(w[1], w[2], Equals, q) = {f}
    /\ \A k \in q .. w[2] : m[k] = line[k]
Named(m, q, n, x) ==
    \E w \in Words : /\ Before(w, Words) = n
                      /\ \/ x = NULL /\ Parts(w) = {}
                         \/ \E f \in Parts(w) : Cut(m, q, x, w, f)

\* The whole, of the values of the variables.
InvAt(m, q, t, n, set, at, k, x) ==
    /\ LineShape /\ LineKept(m) /\ ClearedIn(m)
    /\ t \in [0 .. MaxTokens - 1 -> 0 .. Len(line)] /\ n \in 0 .. MaxTokens
    /\ set \in BOOLEAN /\ k \in 0 .. n /\ x \in 0 .. Len(line)
    /\ q = NULL \/ q \in LineAt .. Len(line)
    /\ \/ at = "call" /\ m = line /\ q = NULL /\ n = 1 /\ k = 0 /\ set = FALSE
       \/ at = "parse" /\ Parsing(m, q, t, n) /\ k = 0 /\ set = FALSE
       \/ at = "overrun" /\ Cardinality(Words) >= MaxTokens
       \/ at = "init" /\ Table(m, q, t, n) /\ Read(k, set) /\ Untouched(m, k)
       \/ at = "value" /\ Table(m, q, t, n) /\ Read(k, set)
           /\ k < n /\ Untouched(m, k + 1) /\ Named(m, q, k, x)
       \/ at = "done" /\ Table(m, q, t, n) /\ Read(k, set) /\ k = n
       \/ at = "fault" /\ Table(m, q, t, n) /\ \E w \in Words : Unreadable(w)
ArgsInv == InvAt(mem, p, tokens, count, devbuild, pc, i, a)

-----------------------------------------------------------------------------
\* One call of strtok that stands at a boundary of a range of the line finds the
\* next field of the range and ends it, or there is none.
Finds(r, m, from, to, d, b, ret, stop) ==
    /\ Follows(from, to, d, b, ret, stop)
    /\ \/ stop = to + 1 /\ r = [ret |-> ret, p |-> stop, mem |-> m]
       \/ stop <= to /\ line[stop] = d /\ r = [ret |-> ret, p |-> stop + 1, mem |-> Ended(m, stop)]

\* What the call returns, and which fields then lie before its position.
LEMMA Scan ==
    ASSUME NEW m, Len(m) \in Nat, NEW from \in Nat \ {0}, NEW to \in Nat, NEW d, d # NUL,
           from <= to + 1, to + 1 <= Len(m), m[to + 1] = NUL,
           \A k \in from .. to : line[k] # NUL,
           NEW b, Boundary(from, to, d, b), \A k \in b .. to : m[k] = line[k],
           NEW x, NEW s, From(x, s) = b
    PROVE  \/ /\ strtok(m, x, s, {d}) = [ret |-> NULL, p |-> x, mem |-> m]
              /\ FieldsTo(from, to, d, b) = Fields(from, to, d)
           \/ \E ret, stop : Finds(strtok(m, x, s, {d}), m, from, to, d, b, ret, stop)
  <1>1. b \in Nat \ {0} /\ b >= from /\ b <= to + 1
    BY DEF Boundary
  <1>2. to + 1 \in b .. Len(m)
    BY <1>1
  <1>3. PICK ret \in b .. to + 1 : Starts(m, b, d, ret)
    BY <1>1, <1>2, StartExists
  <1>4. CASE ret = to + 1
    <2>1. strtok(m, x, s, {d}) = [ret |-> NULL, p |-> x, mem |-> m]
      BY <1>1, <1>3, <1>4, StrtokEnds
    <2>2. ASSUME NEW h \in b .. to PROVE line[h] = d
      <3>1. h \in b .. ret - 1 /\ m[h] = line[h]
        BY <1>1, <1>4
      <3>2. QED
        BY <1>3, <3>1 DEF Starts
    <2>3. FieldsTo(from, to, d, b) = Fields(from, to, d)
      BY <2>2, NoneMore
    <2>4. QED
      BY <2>1, <2>3
  <1>5. CASE ret # to + 1
    <2>1. /\ ret \in b .. to /\ ret \in Nat /\ to + 1 \in ret .. Len(m) /\ m[ret] = line[ret]
          /\ m[ret] # NUL /\ m[ret] # d
      BY <1>1, <1>3, <1>5 DEF Starts
    <2>2. PICK stop \in ret .. to + 1 : Stops(m, ret, d, stop)
      BY <2>1, StopExists
    <2>3. stop # ret /\ stop \in ret + 1 .. to + 1
      BY <2>1, <2>2 DEF Stops
    <2>4. \A h \in b .. ret - 1 : line[h] = d
      BY <1>1, <1>3, <2>1 DEF Starts
    <2>5. \A h \in ret .. stop - 1 : line[h] # d
      BY <1>1, <2>1, <2>2 DEF Stops
    <2>6. stop <= to => m[stop] = line[stop] /\ line[stop] = d /\ m[stop] # NUL
      BY <1>1, <2>1, <2>2 DEF Stops
    <2>7. Follows(from, to, d, b, ret, stop)
      BY <2>1, <2>3, <2>4, <2>5, <2>6 DEF Follows
    <2>8. strtok(m, x, s, {d}) =
             IF m[stop] = NUL THEN [ret |-> ret, p |-> stop, mem |-> m]
             ELSE [ret |-> ret, p |-> stop + 1, mem |-> Ended(m, stop)]
      BY <1>1, <1>3, <2>1, <2>2, StrtokFinds
    <2>9. CASE stop = to + 1
      BY <2>7, <2>8, <2>9 DEF Finds
    <2>10. CASE stop <= to
      BY <2>6, <2>7, <2>8, <2>10 DEF Finds
    <2>11. stop = to + 1 \/ stop <= to
      BY <1>1, <2>3
    <2>12. QED
      BY <2>9, <2>10, <2>11
  <1>6. QED
    BY <1>4, <1>5

\* What a call of strtok leaves, wherever it stands.
Stays(m, x, r) ==
    /\ LineKept(r.mem) /\ ClearedIn(r.mem)
    /\ r.ret \in 0 .. Len(line) /\ (r.p = x \/ r.p \in LineAt .. Len(line))
    /\ \A k \in 1 .. Len(line) : r.mem[k] = m[k] \/ r.mem[k] = NUL

\* The parts of Stays.
LEMMA StaysIf ==
    ASSUME NEW m, NEW x, NEW ret \in 0 .. Len(line), NEW q, NEW n, LineKept(n), ClearedIn(n),
           q = x \/ q \in LineAt .. Len(line),
           \A k \in 1 .. Len(line) : n[k] = m[k] \/ n[k] = NUL
    PROVE  Stays(m, x, [ret |-> ret, p |-> q, mem |-> n])
  <1> DEFINE r == [ret |-> ret, p |-> q, mem |-> n]
  <1>1. r.ret = ret /\ r.p = q /\ r.mem = n
    OBVIOUS
  <1> HIDE DEF r
  <1>2. Stays(m, x, r)
    BY <1>1 DEF Stays
  <1>3. QED
    BY <1>2 DEF r

\* Wherever it stands, strtok overwrites only delimiters and stays in the line.
LEMMA StrtokStays ==
    ASSUME NEW m, LineKept(m), ClearedIn(m), NEW d \in {Space, Equals},
           NEW x, NEW s, NEW b \in LineAt .. Len(line), From(x, s) = b
    PROVE  Stays(m, x, strtok(m, x, s, {d}))
  <1>1. /\ Len(m) \in Nat /\ b \in Nat \ {0} /\ d # NUL /\ m[Len(m)] = NUL
        /\ Len(m) = Len(line) /\ Len(m) \in b .. Len(m)
    BY DEF LineKept, ClearedIn, LineAt, NUL, Space, Equals
  <1>2. PICK ret \in b .. Len(m) : Starts(m, b, d, ret)
    BY <1>1, StartExists
  <1>3. CASE m[ret] = NUL
    <2>1. strtok(m, x, s, {d}) = [ret |-> NULL, p |-> x, mem |-> m]
      BY <1>1, <1>2, <1>3, StrtokEnds
    <2>2. NULL \in 0 .. Len(line)
      BY <1>1 DEF NULL
    <2>3. QED
      BY <2>1, <2>2, StaysIf
  <1>4. CASE m[ret] # NUL
    <2>1. ret \in Nat /\ Len(m) \in ret .. Len(m) /\ ret \in 0 .. Len(line)
      BY <1>1
    <2>2. PICK stop \in ret .. Len(m) : Stops(m, ret, d, stop)
      BY <1>1, <2>1, StopExists
    <2>3. strtok(m, x, s, {d}) =
             IF m[stop] = NUL THEN [ret |-> ret, p |-> stop, mem |-> m]
             ELSE [ret |-> ret, p |-> stop + 1, mem |-> Ended(m, stop)]
      BY <1>1, <1>2, <1>4, <2>2, StrtokFinds
    <2>4. CASE m[stop] = NUL
      <3>1. stop \in LineAt .. Len(line)
        BY <1>1 DEF LineAt
      <3>2. strtok(m, x, s, {d}) = [ret |-> ret, p |-> stop, mem |-> m]
        BY <2>3, <2>4
      <3>3. QED
        BY <2>1, <3>1, <3>2, StaysIf
    <2>5. CASE m[stop] # NUL
      <3>1. m[stop] = d /\ stop \in LineAt .. Len(line) - 1
        BY <1>1, <2>2, <2>5 DEF Stops, LineAt
      <3>2. line[stop] = d
        BY <3>1, <1>1 DEF ClearedIn, LineAt
      <3>3. /\ Ended(m, stop) \in Seq(0 .. 255) /\ Len(Ended(m, stop)) = Len(m)
            /\ \A k \in 1 .. Len(line) : Ended(m, stop)[k] = IF k = stop THEN NUL ELSE m[k]
        BY <1>1, <3>1 DEF Ended, LineKept, NUL, LineAt
      <3>4. LineKept(Ended(m, stop)) /\ ClearedIn(Ended(m, stop))
        BY <3>1, <3>2, <3>3, <1>1 DEF LineKept, ClearedIn
      <3>5. stop + 1 \in LineAt .. Len(line)
        BY <3>1, <1>1 DEF LineAt
      <3>6. strtok(m, x, s, {d}) = [ret |-> ret, p |-> stop + 1, mem |-> Ended(m, stop)]
        BY <2>3, <2>5
      <3>7. \A k \in 1 .. Len(line) : Ended(m, stop)[k] = m[k] \/ Ended(m, stop)[k] = NUL
        BY <3>3
      <3>8. QED
        BY <2>1, <3>4, <3>5, <3>6, <3>7, StaysIf
    <2>6. QED
      BY <2>4, <2>5
  <1>5. QED
    BY <1>3, <1>4

\* A step inside a range.
LEMMA NextIn ==
    ASSUME NEW n \in Nat, NEW k \in 1 .. n, k # n
    PROVE  k + 1 \in 1 .. n
  OBVIOUS

\* Signed characters are equal if the bytes are.
LEMMA SignedDiffers ==
    ASSUME NEW b \in 0 .. 255, NEW c \in 0 .. 255
    PROVE  Signed(b) - Signed(c) = 0 <=> b = c
  BY DEF Signed

\* The step at which strcmp stops.
Differ(m, s, t, j) ==
    (s + j \in DOMAIN m /\ t + j \in DOMAIN m) => (m[s + j] # m[t + j] \/ m[s + j] = NUL)
CompareAt(m, s, t) ==
    IF \E k \in 0 .. Len(m) : Differ(m, s, t, k)
      THEN CHOOSE k \in 0 .. Len(m) : Differ(m, s, t, k) /\ \A h \in 0 .. k - 1 : ~Differ(m, s, t, h)
      ELSE None
Compared(m, s, t, k) ==
    IF At(m, s + k) = None \/ At(m, t + k) = None THEN None
    ELSE Signed(m[s + k]) - Signed(m[t + k])

\* strcmp is the difference at the place where it stops.
LEMMA StrcmpIs ==
    ASSUME NEW m, NEW s, NEW t
    PROVE  strcmp(m, s, t) =
             Compared(m, s, t, IF CompareAt(m, s, t) = None THEN Len(m) ELSE CompareAt(m, s, t))
  BY DEF strcmp, InStep, FirstIn, Compared, CompareAt, Differ

\* That place is the first where the strings differ or end.
LEMMA ComparedAt ==
    ASSUME NEW m \in Seq(0 .. 255), NEW s \in Nat, NEW t \in Nat, NEW k \in 0 .. Len(m),
           Differ(m, s, t, k), \A h \in 0 .. k - 1 : ~Differ(m, s, t, h)
    PROVE  strcmp(m, s, t) = Compared(m, s, t, k)
  <1>1. Len(m) \in Nat
    OBVIOUS
  <1>2. \A j \in 0 .. Len(m) :
            Differ(m, s, t, j) /\ (\A h \in 0 .. j - 1 : ~Differ(m, s, t, h)) => j = k
    BY <1>1
  <1>3. CompareAt(m, s, t) = k
    BY <1>1, <1>2 DEF CompareAt
  <1>4. k # None
    BY <1>1 DEF None
  <1>5. QED
    BY <1>3, <1>4, StrcmpIs

\* strcmp with a constant of one character.
LEMMA ComparedIs ==
    ASSUME NEW m, NEW s \in Nat, NEW t \in Nat, NEW k \in Nat, s + k \in DOMAIN m, t + k \in DOMAIN m,
           m[s + k] \in 0 .. 255, m[t + k] \in 0 .. 255
    PROVE  Compared(m, s, t, k) = 0 <=> m[s + k] = m[t + k]
  <1>1. At(m, s + k) = m[s + k] /\ At(m, t + k) = m[t + k]
    BY DEF At
  <1>2. m[s + k] # None /\ m[t + k] # None
    BY DEF None
  <1>3. Compared(m, s, t, k) = Signed(m[s + k]) - Signed(m[t + k])
    BY <1>1, <1>2 DEF Compared
  <1>4. QED
    BY <1>3, SignedDiffers

\* The difference of the second characters.
LEMMA ComparedNext ==
    ASSUME NEW m, NEW s, NEW t, s + 1 \in DOMAIN m, t + 1 \in DOMAIN m,
           m[s + 1] \in 0 .. 255, m[t + 1] \in 0 .. 255
    PROVE  Compared(m, s, t, 1) = 0 <=> m[s + 1] = m[t + 1]
  <1>1. At(m, s + 1) = m[s + 1] /\ At(m, t + 1) = m[t + 1]
    BY DEF At
  <1>2. m[s + 1] # None /\ m[t + 1] # None
    BY DEF None
  <1> DEFINE b == m[s + 1]
             c == m[t + 1]
  <1>3. Compared(m, s, t, 1) = Signed(b) - Signed(c)
    BY <1>1, <1>2 DEF Compared
  <1>4. b \in 0 .. 255 /\ c \in 0 .. 255
    OBVIOUS
  <1> HIDE DEF b, c
  <1>5. Compared(m, s, t, 1) = 0 <=> b = c
    BY <1>3, <1>4, SignedDiffers
  <1>6. QED
    BY <1>5 DEF b, c

\* strcmp with a string of one character: 0 exactly for the same character and then the end.
LEMMA CompareOne ==
    ASSUME NEW m \in Seq(0 .. 255), NEW s \in 1 .. Len(m), NEW t \in 1 .. Len(m), t + 1 <= Len(m),
           m[Len(m)] = NUL, m[t] # NUL, m[t + 1] = NUL
    PROVE  strcmp(m, s, t) = 0 <=> m[s] = m[t] /\ m[s + 1] = NUL
  <1>1. Len(m) \in Nat /\ Len(m) >= 2 /\ DOMAIN m = 1 .. Len(m)
    OBVIOUS
  <1>2. \A k \in 1 .. Len(m) : m[k] \in 0 .. 255
    BY ElementOfSeq
  <1>3. s + 0 = s /\ t + 0 = t
    OBVIOUS
  <1>4. CASE m[s] # m[t]
    <2>1. Differ(m, s, t, 0)
      BY <1>3, <1>4 DEF Differ
    <2>2. strcmp(m, s, t) = Compared(m, s, t, 0)
      BY <1>1, <2>1, ComparedAt
    <2>3. /\ s + 0 \in DOMAIN m /\ t + 0 \in DOMAIN m
          /\ m[s + 0] \in 0 .. 255 /\ m[t + 0] \in 0 .. 255
      BY <1>1, <1>2, <1>3
    <2>4. Compared(m, s, t, 0) = 0 <=> m[s] = m[t]
      BY <1>3, <2>3, ComparedIs
    <2>5. QED
      BY <1>4, <2>2, <2>4
  <1>5. CASE m[s] = m[t]
    <2>1. m[s] # NUL
      BY <1>5
    <2>2. s # Len(m)
      BY <2>1
    <2>3. ~Differ(m, s, t, 0)
      <3>1. s + 0 \in DOMAIN m /\ t + 0 \in DOMAIN m
        BY <1>1, <1>3
      <3>2. m[s + 0] = m[t + 0] /\ m[s + 0] # NUL
        BY <1>3, <1>5, <2>1
      <3>3. QED
        BY <3>1, <3>2 DEF Differ
    <2>4. s + 1 \in 1 .. Len(m) /\ t + 1 \in 1 .. Len(m)
      <3>1. t # Len(m)
        BY <1>1
      <3>2. QED
        BY <1>1, <2>2, <3>1, NextIn
    <2>5. m[s + 1] \in 0 .. 255 /\ m[t + 1] \in 0 .. 255
      BY <1>2, <2>4
    <2>6. Differ(m, s, t, 1)
      BY <2>4 DEF Differ
    <2>7. \A h \in 0 .. 1 - 1 : ~Differ(m, s, t, h)
      BY <2>3
    <2>8. strcmp(m, s, t) = Compared(m, s, t, 1)
      BY <1>1, <2>6, <2>7, ComparedAt
    <2>9. Compared(m, s, t, 1) = 0 <=> m[s + 1] = m[t + 1]
      <3>1. s + 1 \in DOMAIN m /\ t + 1 \in DOMAIN m
        BY <1>1, <2>4
      <3>2. QED
        BY <2>5, <3>1, ComparedNext
    <2>10. QED
      BY <1>5, <2>8, <2>9
  <1>6. QED
    BY <1>4, <1>5

\* Where the line begins and ends.
LEMMA LineFacts ==
    ASSUME LineShape, NEW m, LineKept(m)
    PROVE  /\ LineEnd \in Nat /\ LineEnd + 1 = Len(line) /\ Len(line) \in Nat /\ Len(m) = Len(line)
           /\ LineAt \in Nat \ {0} /\ LineAt <= LineEnd + 1 /\ LineEnd + 1 <= Len(m)
           /\ Space # NUL /\ Equals # NUL /\ Space # Equals
           /\ \A k \in LineAt .. LineEnd : line[k] # NUL
           /\ m \in Seq(0 .. 255)
  BY DEF LineShape, LineKept, LineEnd, LineAt, Space, Equals, NUL

\* The NUL that ends the line and the constants before it stay what they are.
LEMMA EndKept ==
    ASSUME LineShape, NEW m, LineKept(m), ClearedIn(m)
    PROVE  /\ m[LineEnd + 1] = NUL
           /\ m[DevbuildAt] = Devbuild /\ m[DevbuildAt + 1] = NUL
           /\ m[YesAt] = Yes /\ m[YesAt + 1] = NUL
  <1>1. LineEnd + 1 \in 1 .. Len(line) /\ Len(line) \in Nat /\ LineEnd + 1 = Len(line) /\ Len(line) >= 5
    BY DEF LineShape, LineEnd, LineAt
  <1>2. m[LineEnd + 1] = NUL
    BY <1>1 DEF LineShape, ClearedIn
  <1>3. \A k \in 1 .. 4 : m[k] = line[k]
    BY <1>1 DEF ClearedIn, LineAt
  <1>4. QED
    BY <1>2, <1>3 DEF LineShape, DevbuildAt, YesAt

IsWord(w) ==
    /\ w[1] \in Nat \ {0} /\ w[2] \in Nat /\ LineAt <= w[1] /\ w[1] <= w[2] /\ w[2] <= LineEnd
    /\ w[2] + 1 \in LineAt .. Len(line) /\ w[1] \in LineAt .. Len(line) /\ w[1] # NULL
    /\ \A k \in w[1] .. w[2] : k \in LineAt .. LineEnd /\ line[k] # Space /\ line[k] # NUL
    /\ w[2] = LineEnd \/ line[w[2] + 1] = Space
    /\ w = <<w[1], w[2]>>
    /\ Before(w, Words) \in 0 .. Cardinality(Words) - 1

\* A word lies in the line, without spaces, and has a place among the words.
LEMMA WordShape ==
    ASSUME LineShape, NEW w \in Words
    PROVE  IsWord(w)
  <1>1. LineEnd \in Nat /\ LineEnd + 1 = Len(line) /\ Len(line) \in Nat /\ LineAt \in Nat \ {0}
    BY DEF LineShape, LineEnd, LineAt
  <1>2. w \in Fields(LineAt, LineEnd, Space) /\ Words = Fields(LineAt, LineEnd, Space)
    BY DEF Words, LineEnd
  <1>3. IsField(LineAt, LineEnd, Space, w)
    BY <1>1, <1>2, FieldShape
  <1>4. Before(w, Words) \in 0 .. Cardinality(Words) - 1
    BY <1>1, <1>2, PlacesDiffer
  <1>5. \A k \in w[1] .. w[2] : k \in LineAt .. LineEnd /\ line[k] # Space /\ line[k] # NUL
    BY <1>1, <1>3 DEF IsField, LineShape
  <1>6. QED
    BY <1>1, <1>3, <1>4, <1>5 DEF IsField, IsWord, NULL

\* Words in order.
LEMMA WordOrder ==
    ASSUME LineShape, NEW v \in Words, NEW w \in Words
    PROVE  /\ v[1] < w[1] => Before(v, Words) < Before(w, Words) /\ v[2] < w[1]
           /\ Before(v, Words) < Before(w, Words) => v[1] < w[1] /\ v[2] < w[1]
           /\ v[1] = w[1] => v = w
           /\ Before(v, Words) = Before(w, Words) => v = w
  <1>1. LineEnd \in Int /\ LineAt \in Nat /\ Words = Fields(LineAt, LineEnd, Space)
    BY DEF LineShape, LineEnd, LineAt, Words
  <1>2. /\ v[1] < w[1] => Before(v, Words) < Before(w, Words) /\ v[2] < w[1]
        /\ w[1] < v[1] => Before(w, Words) < Before(v, Words)
        /\ v[1] = w[1] => v = w
    BY <1>1, PlacesDiffer
  <1>3. v[1] \in Nat /\ w[1] \in Nat /\ Before(v, Words) \in Int /\ Before(w, Words) \in Int
    BY WordShape DEF IsWord
  <1>4. QED
    BY <1>2, <1>3

\* There are finitely many words.
LEMMA WordsFinite ==
    ASSUME LineShape
    PROVE  /\ IsFiniteSet(Words) /\ Cardinality(Words) \in Nat
           /\ \A S \in SUBSET Words : Cardinality(S) \in Nat /\ Cardinality(S) <= Cardinality(Words)
  <1>1. LineEnd \in Int /\ LineAt \in Nat /\ Words = Fields(LineAt, LineEnd, Space)
    BY DEF LineShape, LineEnd, LineAt, Words
  <1>2. IsFiniteSet(Words)
    BY <1>1, FieldsFinite
  <1>3. QED
    BY <1>2, FS_Subset, FS_CardinalityType

\* parse overwrites no character of a word.
LEMMA ParsedUntouched ==
    ASSUME LineShape, NEW m, NEW b, Parsed(m, b)
    PROVE  Untouched(m, 0)
  <1>1. ASSUME NEW w \in Words, NEW k \in w[1] .. w[2] PROVE m[k] = line[k]
    <2>1. k \in LineAt .. LineEnd /\ line[k] # Space
      BY WordShape DEF IsWord
    <2>2. k \in 1 .. Len(line)
      BY <2>1 DEF LineShape, LineEnd, LineAt
    <2>3. QED
      BY <2>1, <2>2 DEF Parsed
  <1>2. QED
    BY <1>1 DEF Untouched

\* m with the string at stop ended, and perhaps more.
Ends(m, stop, m2) ==
    m2[stop] = NUL /\ \A k \in 1 .. Len(line) : m2[k] = m[k] \/ m2[k] = NUL

\* A token found and stored is one word more in the table.
LEMMA ListedMore ==
    ASSUME LineShape, NEW m, LineKept(m), NEW b, Parsed(m, b),
           NEW n \in 0 .. MaxTokens - 1, NEW t, DOMAIN t = 0 .. MaxTokens - 1,
           Listed(m, t, n, FieldsTo(LineAt, LineEnd, Space, b)),
           NEW ret, NEW stop, Follows(LineAt, LineEnd, Space, b, ret, stop),
           NEW q \in {stop, stop + 1}, NEW m2, Ends(m, stop, m2),
           NEW t2, t2 = [t EXCEPT ![n] = ret]
    PROVE  Listed(m2, t2, n + 1, FieldsTo(LineAt, LineEnd, Space, q))
  <1> DEFINE new == <<ret, stop - 1>>
             S == FieldsTo(LineAt, LineEnd, Space, b)
             S2 == FieldsTo(LineAt, LineEnd, Space, q)
  <1>1. /\ LineEnd \in Nat /\ LineEnd + 1 = Len(line) /\ Len(line) \in Nat
        /\ LineAt \in Nat \ {0} /\ Words = Fields(LineAt, LineEnd, Space)
    BY LineFacts DEF Words, LineEnd
  <1>2. Boundary(LineAt, LineEnd, Space, b)
    BY DEF Parsed
  <1>3. S2 = S \cup {new} /\ Before(new, Words) = Cardinality(S) /\ Cardinality(S2) = Cardinality(S) + 1
    BY <1>1, <1>2, OneMore
  <1>4. new \in Words
    BY <1>1, <1>2, FieldFollows
  <1>5. /\ n = Cardinality(S)
        /\ \A w \in S : t[Before(w, Words)] = w[1] /\ m[w[2] + 1] = NUL
        /\ \A h \in 0 .. n - 1 : \E w \in S : Before(w, Words) = h
    BY DEF Listed
  <1>6. ret \in Nat /\ stop \in Nat /\ b \in Nat /\ b <= ret /\ new[1] = ret /\ new[2] + 1 = stop
    BY <1>1, <1>2 DEF Follows, Boundary
  <1>7. ASSUME NEW w \in S PROVE w \in Words /\ w[1] < b
    BY <1>1 DEF FieldsTo
  <1>8. ASSUME NEW w \in S PROVE t2[Before(w, Words)] = w[1] /\ m2[w[2] + 1] = NUL
    <2>1. w \in Words /\ IsWord(w) /\ w[1] < new[1]
      BY <1>6, <1>7, WordShape DEF IsWord
    <2>2. Before(w, Words) < Before(new, Words)
      BY <1>4, <2>1, WordOrder
    <2>3. Before(w, Words) # n /\ Before(w, Words) \in 0 .. n - 1
      BY <2>1, <2>2, <1>3, <1>5 DEF IsWord
    <2>4. t2[Before(w, Words)] = t[Before(w, Words)]
      BY <2>3
    <2>5. w[2] + 1 \in 1 .. Len(line)
      BY <2>1, <1>1 DEF IsWord, LineAt
    <2>6. QED
      BY <1>5, <2>4, <2>5 DEF Ends
  <1>9. t2[n] = ret /\ m2[new[2] + 1] = NUL
    BY <1>6 DEF Ends
  <1> HIDE DEF S, S2, new
  <1>10. \A w \in S2 : t2[Before(w, Words)] = w[1] /\ m2[w[2] + 1] = NUL
    BY <1>3, <1>5, <1>6, <1>8, <1>9
  <1>11. \A h \in 0 .. (n + 1) - 1 : \E w \in S2 : Before(w, Words) = h
    <2>1. TAKE h \in 0 .. (n + 1) - 1
    <2>2. CASE h = n
      BY <1>3, <1>5, <2>2
    <2>3. CASE h # n
      BY <1>3, <1>5, <2>3
    <2>4. QED
      BY <2>2, <2>3
  <1>12. n + 1 = Cardinality(S2)
    BY <1>3, <1>5
  <1>13. Listed(m2, t2, n + 1, S2)
    BY <1>10, <1>11, <1>12 DEF Listed
  <1>14. QED
    BY <1>13 DEF S2

\* What one call of strtok leaves.
LEMMA FindsLeft ==
    ASSUME NEW r, NEW m, NEW from, NEW to, NEW d, NEW b, NEW ret, NEW stop,
           Finds(r, m, from, to, d, b, ret, stop)
    PROVE  /\ Follows(from, to, d, b, ret, stop)
           /\ r.ret = ret /\ r.p \in {stop, stop + 1}
           /\ \/ stop = to + 1 /\ r.p = stop /\ r.mem = m
              \/ stop <= to /\ line[stop] = d /\ r.p = stop + 1 /\ r.mem = Ended(m, stop)
  BY DEF Finds

\* Ending a string changes one character.
LEMMA EndedIs ==
    ASSUME NEW m \in Seq(0 .. 255), NEW stop \in 1 .. Len(m)
    PROVE  \A k \in 1 .. Len(m) : Ended(m, stop)[k] = IF k = stop THEN NUL ELSE m[k]
  BY DEF Ended

\* Once a token of the line is found strtok stands between words again.
LEMMA ParseFinds ==
    ASSUME LineShape, NEW m, LineKept(m), ClearedIn(m), NEW b, Parsed(m, b),
           NEW r, NEW ret, NEW stop, Finds(r, m, LineAt, LineEnd, Space, b, ret, stop)
    PROVE  /\ r.ret = ret /\ ret \in LineAt .. Len(line)
           /\ r.p \in {stop, stop + 1} /\ r.p \in LineAt .. Len(line)
           /\ Parsed(r.mem, r.p) /\ Ends(m, stop, r.mem)
  <1>1. /\ LineEnd \in Nat /\ LineEnd + 1 = Len(line) /\ Len(line) \in Nat /\ Len(m) = Len(line)
        /\ LineAt \in Nat \ {0} /\ m \in Seq(0 .. 255)
    BY LineFacts
  <1>2. Boundary(LineAt, LineEnd, Space, b)
    BY DEF Parsed
  <1>3. /\ Follows(LineAt, LineEnd, Space, b, ret, stop)
        /\ r.ret = ret /\ r.p \in {stop, stop + 1}
        /\ \/ stop = LineEnd + 1 /\ r.p = stop /\ r.mem = m
           \/ stop <= LineEnd /\ line[stop] = Space /\ r.p = stop + 1 /\ r.mem = Ended(m, stop)
    BY FindsLeft
  <1>4. /\ ret \in LineAt .. Len(line) /\ stop \in LineAt .. Len(line) /\ stop > b /\ b \in Nat
        /\ stop \in 1 .. Len(m)
    BY <1>1, <1>2, <1>3 DEF Follows, Boundary
  <1>5. \A k \in 1 .. Len(line) : m[k] = line[k] \/ (k < b /\ line[k] = Space /\ m[k] = NUL)
    BY DEF Parsed
  <1>6. CASE stop = LineEnd + 1 /\ r.p = stop /\ r.mem = m
    <2>1. m[stop] = NUL
      BY <1>6, EndKept
    <2>2. Boundary(LineAt, LineEnd, Space, stop)
      BY <1>1, <1>4, <1>6 DEF Boundary
    <2>3. \A k \in 1 .. Len(line) : m[k] = line[k] \/ (k < stop /\ line[k] = Space /\ m[k] = NUL)
      BY <1>1, <1>4, <1>5
    <2>4. Parsed(m, stop)
      BY <2>2, <2>3 DEF Parsed
    <2>5. QED
      BY <1>3, <1>4, <1>6, <2>1, <2>4 DEF Ends
  <1>7. CASE stop <= LineEnd /\ line[stop] = Space /\ r.p = stop + 1 /\ r.mem = Ended(m, stop)
    <2>1. \A k \in 1 .. Len(line) : Ended(m, stop)[k] = IF k = stop THEN NUL ELSE m[k]
      BY <1>1, <1>4, EndedIs
    <2>2. Boundary(LineAt, LineEnd, Space, stop + 1)
      BY <1>1, <1>4, <1>7 DEF Boundary
    <2>3. \A k \in 1 .. Len(line) :
              \/ Ended(m, stop)[k] = line[k]
              \/ k < stop + 1 /\ line[k] = Space /\ Ended(m, stop)[k] = NUL
      BY <1>4, <1>5, <1>7, <2>1
    <2>4. Parsed(Ended(m, stop), stop + 1)
      BY <2>2, <2>3 DEF Parsed
    <2>5. stop + 1 \in LineAt .. Len(line)
      BY <1>1, <1>4, <1>7
    <2>6. Ended(m, stop)[stop] = NUL
      BY <1>1, <1>4, <2>1
    <2>7. QED
      BY <1>3, <1>4, <1>7, <2>1, <2>4, <2>5, <2>6 DEF Ends
  <1>8. QED
    BY <1>3, <1>6, <1>7

\* Where strtok stands in the line when parse calls it.
LEMMA ParseScan ==
    ASSUME LineShape, NEW m, LineKept(m), ClearedIn(m), NEW b, Parsed(m, b),
           NEW x, NEW s, From(x, s) = b
    PROVE  \/ /\ strtok(m, x, s, {Space}) = [ret |-> NULL, p |-> x, mem |-> m]
              /\ FieldsTo(LineAt, LineEnd, Space, b) = Words
           \/ \E ret, stop : Finds(strtok(m, x, s, {Space}), m, LineAt, LineEnd, Space, b, ret, stop)
  <1>1. /\ LineEnd \in Nat /\ LineEnd + 1 = Len(line) /\ Len(line) \in Nat /\ Len(m) = Len(line)
        /\ LineAt \in Nat \ {0} /\ LineAt <= LineEnd + 1 /\ LineEnd + 1 <= Len(m) /\ Len(m) \in Nat
        /\ Space # NUL /\ \A k \in LineAt .. LineEnd : line[k] # NUL
    BY LineFacts
  <1>2. m[LineEnd + 1] = NUL
    BY EndKept
  <1>3. Boundary(LineAt, LineEnd, Space, b)
    BY DEF Parsed
  <1>4. \A k \in b .. LineEnd : m[k] = line[k]
    <2>1. TAKE k \in b .. LineEnd
    <2>2. k \in 1 .. Len(line) /\ ~(k < b)
      BY <1>1, <1>3 DEF Boundary
    <2>3. QED
      BY <2>2 DEF Parsed
  <1>5. Words = Fields(LineAt, LineEnd, Space)
    BY DEF Words, LineEnd
  <1>6. QED
    BY <1>1, <1>2, <1>3, <1>4, <1>5, Scan, Zenon

\* The table with the NULL behind it.
LEMMA ListedEnd ==
    ASSUME LineShape, NEW m, NEW n \in 0 .. MaxTokens - 1, NEW t, DOMAIN t = 0 .. MaxTokens - 1,
           Listed(m, t, n, Words), NEW x
    PROVE  Listed(m, [t EXCEPT ![n] = x], n, Words)
  <1>1. ASSUME NEW w \in Words PROVE [t EXCEPT ![n] = x][Before(w, Words)] = t[Before(w, Words)]
    <2>1. Before(w, Words) \in 0 .. n - 1
      BY WordShape DEF IsWord, Listed
    <2>2. QED
      BY <2>1
  <1>2. QED
    BY <1>1 DEF Listed

\* Before its loop init has read nothing.
LEMMA NothingRead ==
    ASSUME LineShape
    PROVE  Read(0, FALSE)
  <1>1. \A w \in Words : ~(Before(w, Words) < 0)
    BY WordShape DEF IsWord
  <1>2. QED
    BY <1>1 DEF Read, Latest

\* What is said of the new values, of an unchanged line, is said of the next state.
LEMMA SameLine ==
    ASSUME line' = line
    PROVE  /\ LineShape => LineShape'
           /\ LineKept(mem') => LineKept(mem)'
           /\ ClearedIn(mem') => ClearedIn(mem)'
           /\ Cardinality(Words) >= MaxTokens => (Cardinality(Words) >= MaxTokens)'
           /\ Untouched(mem', i') => Untouched(mem, i)'
           /\ Untouched(mem', i' + 1) => Untouched(mem, i + 1)'
           /\ Table(mem', p', tokens', count') => Table(mem, p, tokens, count)'
           /\ Parsing(mem', p', tokens', count') => Parsing(mem, p, tokens, count)'
           /\ Read(i', devbuild') => Read(i, devbuild)'
           /\ Named(mem', p', i', a') => Named(mem, p, i, a)'
           /\ (\E w \in Words : Unreadable(w)) => (\E w \in Words : Unreadable(w))'
  <1>0. /\ \A x, y, d : Fields(x, y, d)' = Fields(x, y, d)
        /\ \A x, y, d, b : FieldsTo(x, y, d, b)' = FieldsTo(x, y, d, b)
        /\ \A w : Parts(w)' = Parts(w)
        /\ \A w : Text(w)' = Text(w)
        /\ Words' = Words /\ LineEnd' = LineEnd
    BY DEF Fields, FieldsTo, Parts, Text, Words, LineEnd
  <1>1. \A w, n : Part(w, n)' = Part(w, n)
    BY <1>0 DEF Part, Before
  <1>2. \A w : Unreadable(w)' = Unreadable(w)
    BY <1>0, <1>1 DEF Unreadable
  <1>3. Settings' = Settings
    BY <1>0, <1>1 DEF Settings
  <1>4. \A w, n : Latest(w, n)' = Latest(w, n)
    BY <1>0, <1>3 DEF Latest, Before
  <1>5. Table(mem', p', tokens', count') => Table(mem, p, tokens, count)'
    BY <1>0 DEF Table, Listed, Before
  <1>6. Parsing(mem', p', tokens', count') => Parsing(mem, p, tokens, count)'
    BY <1>0 DEF Parsing, Parsed, Boundary, Listed, Before, FieldsTo
  <1>7. Read(i', devbuild') => Read(i, devbuild)'
    BY <1>0, <1>1, <1>2, <1>3, <1>4 DEF Read, Before
  <1>10. Named(mem', p', i', a') => Named(mem, p, i, a)'
    BY <1>0 DEF Named, Cut, Boundary, Before
  <1>11. (\E w \in Words : Unreadable(w)) => (\E w \in Words : Unreadable(w))'
    BY <1>0, <1>2
  <1>12. Untouched(mem', i') => Untouched(mem, i)'
    BY <1>0 DEF Untouched, Before
  <1>13. Untouched(mem', i' + 1) => Untouched(mem, i + 1)'
    BY <1>0 DEF Untouched, Before
  <1>14. LineShape => LineShape'
    BY DEF LineShape, LineEnd
  <1>15. LineKept(mem') => LineKept(mem)'
    BY DEF LineKept
  <1>16. ClearedIn(mem') => ClearedIn(mem)'
    BY DEF ClearedIn
  <1>17. Cardinality(Words) >= MaxTokens => (Cardinality(Words) >= MaxTokens)'
    BY <1>0
  <1>18. QED
    BY <1>5, <1>6, <1>7, <1>10, <1>11, <1>12, <1>13, <1>14, <1>15, <1>16, <1>17

\* The invariant in the next state, from the new values of the variables.
LEMMA InvKept ==
    ASSUME line' = line, InvAt(mem', p', tokens', count', devbuild', pc', i', a')
    PROVE  ArgsInv'
  <1>1. LineShape' /\ LineKept(mem)' /\ ClearedIn(mem)'
    BY SameLine DEF InvAt
  <1>2. CASE pc' = "call" /\ mem' = line /\ p' = NULL /\ count' = 1 /\ i' = 0 /\ devbuild' = FALSE
    BY <1>1, <1>2 DEF ArgsInv, InvAt
  <1>3. CASE pc' = "parse" /\ Parsing(mem', p', tokens', count') /\ i' = 0 /\ devbuild' = FALSE
    BY <1>1, <1>3, SameLine DEF ArgsInv, InvAt
  <1>4. CASE pc' = "overrun" /\ Cardinality(Words) >= MaxTokens
    BY <1>1, <1>4, SameLine DEF ArgsInv, InvAt
  <1>5. CASE /\ pc' = "init" /\ Table(mem', p', tokens', count')
             /\ Read(i', devbuild') /\ Untouched(mem', i')
    BY <1>1, <1>5, SameLine DEF ArgsInv, InvAt
  <1>6. CASE /\ pc' = "value" /\ Table(mem', p', tokens', count') /\ Read(i', devbuild')
             /\ i' < count' /\ Untouched(mem', i' + 1) /\ Named(mem', p', i', a')
    BY <1>1, <1>6, SameLine DEF ArgsInv, InvAt
  <1>7. CASE /\ pc' = "done" /\ Table(mem', p', tokens', count')
             /\ Read(i', devbuild') /\ i' = count'
    BY <1>1, <1>7, SameLine DEF ArgsInv, InvAt
  <1>8. CASE pc' = "fault" /\ Table(mem', p', tokens', count') /\ \E w \in Words : Unreadable(w)
    BY <1>1, <1>8, SameLine DEF ArgsInv, InvAt
  <1>9. QED
    BY <1>2, <1>3, <1>4, <1>5, <1>6, <1>7, <1>8 DEF InvAt

\* The parts of the invariant that hold everywhere.
LEMMA InvFacts ==
    ASSUME ArgsInv
    PROVE  /\ LineShape /\ LineKept(mem) /\ ClearedIn(mem)
           /\ tokens \in [0 .. MaxTokens - 1 -> 0 .. Len(line)] /\ count \in 0 .. MaxTokens
           /\ devbuild \in BOOLEAN /\ i \in 0 .. count /\ a \in 0 .. Len(line)
           /\ p = NULL \/ p \in LineAt .. Len(line)
           /\ MaxTokens \in Nat \ {0}
           /\ Len(line) \in Nat /\ LineEnd \in Nat
           /\ LineAt \in Nat /\ LineAt # NULL /\ NULL \in 0 .. Len(line)
           /\ DOMAIN tokens = 0 .. MaxTokens - 1
  <1>1. Len(line) \in Nat /\ LineEnd \in Nat
    BY LineFacts DEF ArgsInv, InvAt
  <1>2. QED
    BY <1>1, ArgsAssumption DEF ArgsInv, InvAt, NULL, LineAt

\* StrtokStays for a named result.
LEMMA CallStays ==
    ASSUME LineShape, NEW m, LineKept(m), ClearedIn(m), NEW d \in {Space, Equals}, NEW x, NEW s,
           From(x, s) \in LineAt .. Len(line), NEW r, r = strtok(m, x, s, {d})
    PROVE  /\ LineKept(r.mem) /\ ClearedIn(r.mem)
           /\ r.ret \in 0 .. Len(line) /\ (r.p = x \/ r.p \in LineAt .. Len(line))
           /\ \A k \in 1 .. Len(line) : r.mem[k] = m[k] \/ r.mem[k] = NUL
  BY StrtokStays DEF Stays

\* The first call of parse: strtok stands before or behind the first word.
LEMMA StepFirstToken ==
    ASSUME ArgsInv, FirstToken
    PROVE  ArgsInv'
  <1> DEFINE r == strtok(mem, p, LineAt, {Space})
  <1>1. /\ pc = "call" /\ mem' = r.mem /\ p' = r.p /\ tokens' = [tokens EXCEPT ![0] = r.ret]
        /\ line' = line /\ devbuild' = devbuild /\ i' = i /\ a' = a
    BY DEF FirstToken
  <1>2. IF r.ret # NULL THEN pc' = "parse" /\ count' = count ELSE pc' = "init" /\ count' = count - 1
    BY DEF FirstToken
  <1> HIDE DEF r
  <1>3. mem = line /\ p = NULL /\ count = 1 /\ i = 0 /\ devbuild = FALSE
    BY <1>1 DEF ArgsInv, InvAt
  <1>4. From(p, LineAt) = LineAt /\ LineAt \in LineAt .. Len(line)
    BY InvFacts DEF From, LineShape
  <1>5. Parsed(mem, LineAt)
    <2>1. Boundary(LineAt, LineEnd, Space, LineAt)
      BY <1>4, InvFacts DEF Boundary, LineEnd
    <2>2. QED
      BY <1>3, <2>1 DEF Parsed
  <1>6. /\ LineKept(mem') /\ ClearedIn(mem') /\ (p' = NULL \/ p' \in LineAt .. Len(line))
        /\ r.ret \in 0 .. Len(line)
    BY <1>1, <1>3, <1>4, InvFacts, CallStays DEF r
  <1>7. tokens' \in [0 .. MaxTokens - 1 -> 0 .. Len(line)]
    BY <1>1, <1>6, InvFacts
  <1>8. FieldsTo(LineAt, LineEnd, Space, LineAt) = {} /\ Cardinality({}) = 0
    <2>1. ASSUME NEW w \in Words PROVE ~(w[1] < LineAt)
      BY WordShape, InvFacts DEF IsWord
    <2>2. QED
      BY <2>1, FS_EmptySet DEF FieldsTo, Words, LineEnd
  <1>9. Listed(mem, tokens, 0, FieldsTo(LineAt, LineEnd, Space, LineAt))
    BY <1>8 DEF Listed
  <1>10. 0 \in 0 .. MaxTokens - 1
    BY InvFacts
  <1>11. \/ r = [ret |-> NULL, p |-> p, mem |-> mem] /\ FieldsTo(LineAt, LineEnd, Space, LineAt) = Words
         \/ \E ret, stop : Finds(r, mem, LineAt, LineEnd, Space, LineAt, ret, stop)
    BY <1>4, <1>5, InvFacts, ParseScan DEF r
  <1>12. CASE r = [ret |-> NULL, p |-> p, mem |-> mem] /\ FieldsTo(LineAt, LineEnd, Space, LineAt) = Words
    <2>1. r.ret = NULL /\ r.p = p /\ r.mem = mem
      BY <1>12
    <2>2. pc' = "init" /\ count' = 0 /\ mem' = mem /\ p' = p /\ tokens' = [tokens EXCEPT ![0] = NULL]
      BY <1>1, <1>2, <1>3, <2>1
    <2>3. Listed(mem', tokens', count', Words)
      BY <1>9, <1>10, <1>12, <2>2, InvFacts, ListedEnd
    <2>4. Table(mem', p', tokens', count')
      BY <2>2, <2>3, InvFacts DEF Table
    <2>5. Read(i', devbuild') /\ Untouched(mem', i')
      BY <1>1, <1>3, <1>5, <2>2, InvFacts, NothingRead, ParsedUntouched
    <2>6. count' \in 0 .. MaxTokens /\ i' \in 0 .. count'
      BY <1>1, <1>3, <2>2, InvFacts
    <2>7. InvAt(mem', p', tokens', count', devbuild', pc', i', a')
      BY <1>1, <1>6, <1>7, <2>2, <2>4, <2>5, <2>6, InvFacts DEF InvAt
    <2>8. QED
      BY <1>1, <2>7, InvKept
  <1>13. ASSUME NEW ret, NEW stop, Finds(r, mem, LineAt, LineEnd, Space, LineAt, ret, stop) PROVE ArgsInv'
    <2>1. /\ r.ret = ret /\ ret \in LineAt .. Len(line)
          /\ r.p \in {stop, stop + 1} /\ r.p \in LineAt .. Len(line)
          /\ Parsed(r.mem, r.p) /\ Ends(mem, stop, r.mem)
      BY <1>5, <1>13, InvFacts, ParseFinds
    <2>2. ret # NULL
      BY <2>1, InvFacts DEF NULL, LineAt
    <2>3. pc' = "parse" /\ count' = 1 /\ tokens' = [tokens EXCEPT ![0] = ret]
      BY <1>1, <1>2, <1>3, <2>1, <2>2
    <2>4. Follows(LineAt, LineEnd, Space, LineAt, ret, stop)
      BY <1>13, FindsLeft
    <2>5. Listed(mem', tokens', 0 + 1, FieldsTo(LineAt, LineEnd, Space, p'))
      <3>1. DOMAIN tokens = 0 .. MaxTokens - 1 /\ LineShape /\ LineKept(mem) /\ ClearedIn(mem)
        BY InvFacts
      <3>2. Listed(r.mem, tokens', 0 + 1, FieldsTo(LineAt, LineEnd, Space, r.p))
        BY <3>1, <1>5, <1>9, <1>10, <2>1, <2>4, <2>3, ListedMore
      <3>3. QED
        BY <3>2, <1>1
    <2>6. Parsing(mem', p', tokens', count')
      BY <1>1, <2>1, <2>3, <2>5, InvFacts DEF Parsing
    <2>7. /\ count' \in 0 .. MaxTokens /\ i' \in 0 .. count' /\ i' = 0
          /\ devbuild' = FALSE /\ devbuild' \in BOOLEAN
      BY <1>1, <1>3, <2>3, InvFacts
    <2>8. InvAt(mem', p', tokens', count', devbuild', pc', i', a')
      <3>1. LineShape /\ a' \in 0 .. Len(line)
        BY <1>1, InvFacts
      <3>2. QED
        BY <3>1, <1>6, <1>7, <2>3, <2>6, <2>7, Zenon DEF InvAt
    <2>9. QED
      BY <1>1, <2>8, InvKept
  <1>14. QED
    BY <1>11, <1>12, <1>13

\* One round of the loop of parse: one word more, or all are in the table.
LEMMA StepNextToken ==
    ASSUME ArgsInv, NextToken
    PROVE  ArgsInv'
  <1> DEFINE r == strtok(mem, p, NULL, {Space})
  <1>1. /\ pc = "parse" /\ mem' = r.mem /\ p' = r.p /\ tokens' = [tokens EXCEPT ![count] = r.ret]
        /\ line' = line /\ devbuild' = devbuild /\ i' = i /\ a' = a
    BY DEF NextToken
  <1>2. \/ count = MaxTokens /\ pc' = "overrun" /\ count' = count
        \/ count < MaxTokens /\ r.ret # NULL /\ count' = count + 1 /\ pc' = pc
        \/ count < MaxTokens /\ r.ret = NULL /\ pc' = "init" /\ count' = count
    BY DEF NextToken
  <1> HIDE DEF r
  <1>3. Parsing(mem, p, tokens, count) /\ i = 0 /\ devbuild = FALSE
    BY <1>1 DEF ArgsInv, InvAt
  <1>4. /\ p \in LineAt .. Len(line) /\ count \in 1 .. MaxTokens
        /\ Parsed(mem, p) /\ Listed(mem, tokens, count, FieldsTo(LineAt, LineEnd, Space, p))
    BY <1>3 DEF Parsing
  <1>5. From(p, NULL) = p
    BY DEF From
  <1>6. /\ LineKept(mem') /\ ClearedIn(mem') /\ (p' = NULL \/ p' \in LineAt .. Len(line))
        /\ r.ret \in 0 .. Len(line)
    <2>1. Stays(mem, p, r)
      <3>1. LineShape /\ LineKept(mem) /\ ClearedIn(mem) /\ Space \in {Space, Equals}
        BY InvFacts
      <3>2. From(p, NULL) \in LineAt .. Len(line)
        BY <1>4, <1>5
      <3>3. QED
        BY <3>1, <3>2, StrtokStays DEF r
    <2>2. QED
      BY <1>1, <1>4, <2>1 DEF Stays
  <1>7. tokens' \in [0 .. MaxTokens - 1 -> 0 .. Len(line)]
    BY <1>1, <1>6, InvFacts
  <1>8. \/ r = [ret |-> NULL, p |-> p, mem |-> mem] /\ FieldsTo(LineAt, LineEnd, Space, p) = Words
        \/ \E ret, stop : Finds(r, mem, LineAt, LineEnd, Space, p, ret, stop)
    BY <1>4, <1>5, InvFacts, ParseScan DEF r
  <1>9. CASE count = MaxTokens /\ pc' = "overrun" /\ count' = count
    <2>1. FieldsTo(LineAt, LineEnd, Space, p) \in SUBSET Words
      BY DEF FieldsTo, Words, LineEnd
    <2>2. Cardinality(Words) >= MaxTokens
      BY <1>4, <1>9, <2>1, InvFacts, WordsFinite DEF Listed
    <2>3. InvAt(mem', p', tokens', count', devbuild', pc', i', a')
      BY <1>1, <1>6, <1>7, <1>9, <2>2, InvFacts DEF InvAt
    <2>4. QED
      BY <1>1, <2>3, InvKept
  <1>10. CASE /\ count < MaxTokens
              /\ r = [ret |-> NULL, p |-> p, mem |-> mem] /\ FieldsTo(LineAt, LineEnd, Space, p) = Words
    <2>1. r.ret = NULL /\ r.p = p /\ r.mem = mem /\ count \in 0 .. MaxTokens - 1
      BY <1>4, <1>10, InvFacts
    <2>2. /\ pc' = "init" /\ count' = count /\ mem' = mem /\ p' = p
          /\ tokens' = [tokens EXCEPT ![count] = NULL]
      BY <1>1, <1>2, <1>4, <1>10, <2>1
    <2>3. Listed(mem', tokens', count', Words)
      BY <1>4, <1>10, <2>1, <2>2, InvFacts, ListedEnd
    <2>4. Table(mem', p', tokens', count')
      BY <1>4, <1>10, <2>2, <2>3 DEF Table
    <2>5. Read(i', devbuild') /\ Untouched(mem', i')
      BY <1>1, <1>3, <1>4, <2>2, InvFacts, NothingRead, ParsedUntouched
    <2>6. count' \in 0 .. MaxTokens /\ i' \in 0 .. count'
      BY <1>1, <2>2, InvFacts
    <2>7. InvAt(mem', p', tokens', count', devbuild', pc', i', a')
      BY <1>1, <1>6, <1>7, <2>2, <2>4, <2>5, <2>6, InvFacts DEF InvAt
    <2>8. QED
      BY <1>1, <2>7, InvKept
  <1>11. ASSUME count < MaxTokens,
                NEW ret, NEW stop, Finds(r, mem, LineAt, LineEnd, Space, p, ret, stop)
         PROVE  ArgsInv'
    <2>1. /\ r.ret = ret /\ ret \in LineAt .. Len(line)
          /\ r.p \in {stop, stop + 1} /\ r.p \in LineAt .. Len(line)
          /\ Parsed(r.mem, r.p) /\ Ends(mem, stop, r.mem)
      BY <1>4, <1>11, InvFacts, ParseFinds
    <2>2. ret # NULL /\ count \in 0 .. MaxTokens - 1
      BY <1>4, <1>11, <2>1, InvFacts DEF NULL, LineAt
    <2>3. pc' = "parse" /\ count' = count + 1 /\ tokens' = [tokens EXCEPT ![count] = ret]
      BY <1>1, <1>2, <1>4, <1>11, <2>1, <2>2
    <2>4. Follows(LineAt, LineEnd, Space, p, ret, stop)
      BY <1>11, FindsLeft
    <2>5. Listed(mem', tokens', count + 1, FieldsTo(LineAt, LineEnd, Space, p'))
      <3>1. DOMAIN tokens = 0 .. MaxTokens - 1 /\ LineShape /\ LineKept(mem) /\ ClearedIn(mem)
        BY InvFacts
      <3>2. Listed(r.mem, tokens', count + 1, FieldsTo(LineAt, LineEnd, Space, r.p))
        BY <3>1, <1>4, <2>1, <2>2, <2>4, <2>3, ListedMore
      <3>3. QED
        BY <3>2, <1>1
    <2>6. Parsing(mem', p', tokens', count')
      BY <1>1, <2>1, <2>2, <2>3, <2>5, InvFacts DEF Parsing
    <2>7. /\ count' \in 0 .. MaxTokens /\ i' \in 0 .. count' /\ i' = 0
          /\ devbuild' = FALSE /\ devbuild' \in BOOLEAN
      BY <1>1, <1>3, <2>2, <2>3, InvFacts
    <2>8. InvAt(mem', p', tokens', count', devbuild', pc', i', a')
      <3>1. LineShape /\ a' \in 0 .. Len(line)
        BY <1>1, InvFacts
      <3>2. QED
        BY <3>1, <1>6, <1>7, <2>3, <2>6, <2>7, Zenon DEF InvAt
    <2>9. QED
      BY <1>1, <2>8, InvKept
  <1>12. QED
    BY <1>2, <1>8, <1>9, <1>10, <1>11

\* A word that ends in a NUL, and from b on is as it was.
Stands(m, w, b) ==
    /\ w \in Words /\ m[w[2] + 1] = NUL /\ Boundary(w[1], w[2], Equals, b)
    /\ \A k \in b .. w[2] : m[k] = line[k]

\* A call of strtok inside a word finds its next part, or there is none.
LEMMA WordScan ==
    ASSUME LineShape, NEW m, LineKept(m), NEW w, NEW b, Stands(m, w, b),
           NEW x, NEW s, From(x, s) = b
    PROVE  \/ /\ strtok(m, x, s, {Equals}) = [ret |-> NULL, p |-> x, mem |-> m]
              /\ FieldsTo(w[1], w[2], Equals, b) = Parts(w)
           \/ \E ret, stop : Finds(strtok(m, x, s, {Equals}), m, w[1], w[2], Equals, b, ret, stop)
  <1>1. /\ Len(m) \in Nat /\ Len(m) = Len(line) /\ LineEnd + 1 = Len(line) /\ Equals # NUL
        /\ LineAt \in Nat /\ LineEnd \in Nat
    BY LineFacts
  <1>2. /\ w[1] \in Nat \ {0} /\ w[2] \in Nat /\ w[1] <= w[2] /\ w[2] <= LineEnd
        /\ \A k \in w[1] .. w[2] : line[k] # NUL
    BY WordShape DEF IsWord, Stands
  <1>3. w[1] <= w[2] + 1 /\ w[2] + 1 <= Len(m)
    BY <1>1, <1>2
  <1>4. /\ m[w[2] + 1] = NUL /\ Boundary(w[1], w[2], Equals, b)
        /\ \A k \in b .. w[2] : m[k] = line[k]
    BY DEF Stands
  <1>5. Parts(w) = Fields(w[1], w[2], Equals)
    BY DEF Parts
  <1>6. QED
    BY <1>1, <1>2, <1>3, <1>4, <1>5, Scan, Zenon

IsPart(w, f) ==
    /\ f[1] \in Nat \ {0} /\ f[2] \in Nat /\ w[1] <= f[1] /\ f[1] <= f[2] /\ f[2] <= w[2]
    /\ LineAt <= f[1] /\ f[2] + 1 \in LineAt .. Len(line) /\ f[2] <= LineEnd
    /\ f = <<f[1], f[2]>> /\ f[1] # NULL

\* A part lies in its word, without equals signs.
LEMMA PartShape ==
    ASSUME LineShape, NEW w \in Words, NEW f \in Parts(w)
    PROVE  IsPart(w, f)
  <1>1. IsWord(w)
    BY WordShape
  <1>2. w[1] \in Nat /\ w[2] \in Int /\ f \in Fields(w[1], w[2], Equals)
    BY <1>1 DEF IsWord, Parts
  <1>3. IsField(w[1], w[2], Equals, f)
    BY <1>2, FieldShape
  <1>4. Len(line) \in Nat /\ LineAt \in Nat \ {0} /\ LineEnd \in Nat /\ LineEnd + 1 = Len(line)
    BY DEF LineShape, LineAt, LineEnd
  <1>5. QED
    BY <1>1, <1>3, <1>4 DEF IsPart, IsField, IsWord, NULL

\* The call has found the next part g of w, and nothing before it is touched.
PartLeft(r, m, w, b, g) ==
    /\ g \in Parts(w) /\ IsPart(w, g) /\ r.ret = g[1] /\ g[1] >= b
    /\ Boundary(w[1], w[2], Equals, r.p) /\ r.p > g[2]
    /\ r.mem[g[2] + 1] = NUL
    /\ \A k \in 1 .. Len(line) : k <= b \/ k > w[2] => r.mem[k] = m[k]
    /\ \A k \in g[1] .. g[2] : r.mem[k] = line[k]
    /\ \A k \in r.p .. w[2] : r.mem[k] = line[k]
    /\ FieldsTo(w[1], w[2], Equals, r.p) = FieldsTo(w[1], w[2], Equals, b) \cup {g}
    /\ Before(g, Parts(w)) = Cardinality(FieldsTo(w[1], w[2], Equals, b))

\* What is left once the next part of a word is found.
LEMMA PartFound ==
    ASSUME LineShape, NEW m, LineKept(m), NEW w, NEW b, Stands(m, w, b),
           NEW r, NEW ret, NEW stop, Finds(r, m, w[1], w[2], Equals, b, ret, stop)
    PROVE  PartLeft(r, m, w, b, <<ret, stop - 1>>)
  <1> DEFINE g == <<ret, stop - 1>>
  <1>1. /\ Len(line) \in Nat /\ Len(m) = Len(line) /\ LineEnd + 1 = Len(line) /\ m \in Seq(0 .. 255)
        /\ LineAt \in Nat \ {0} /\ LineEnd \in Nat
    BY LineFacts
  <1>2. /\ w \in Words /\ w[1] \in Nat \ {0} /\ w[2] \in Nat /\ w[1] <= w[2] /\ w[2] <= LineEnd
        /\ LineAt <= w[1]
    BY WordShape DEF IsWord, Stands
  <1>3. /\ m[w[2] + 1] = NUL /\ Boundary(w[1], w[2], Equals, b)
        /\ \A k \in b .. w[2] : m[k] = line[k]
    BY DEF Stands
  <1>4. /\ Follows(w[1], w[2], Equals, b, ret, stop)
        /\ r.ret = ret /\ r.p \in {stop, stop + 1}
        /\ \/ stop = w[2] + 1 /\ r.p = stop /\ r.mem = m
           \/ stop <= w[2] /\ line[stop] = Equals /\ r.p = stop + 1 /\ r.mem = Ended(m, stop)
    BY FindsLeft
  <1>5. /\ b \in Nat /\ w[1] <= b /\ ret \in Nat /\ stop \in Nat /\ b <= ret /\ ret < stop
        /\ stop <= w[2] + 1 /\ g[1] = ret /\ g[2] = stop - 1 /\ g[2] + 1 = stop
        /\ stop \in 1 .. Len(m)
    BY <1>1, <1>2, <1>3, <1>4 DEF Follows, Boundary
  <1>6. g \in Parts(w)
    BY <1>2, <1>3, <1>4, FieldFollows DEF Parts
  <1>7. IsPart(w, g)
    BY <1>2, <1>6, PartShape
  <1>8. /\ FieldsTo(w[1], w[2], Equals, r.p) = FieldsTo(w[1], w[2], Equals, b) \cup {g}
        /\ Before(g, Parts(w)) = Cardinality(FieldsTo(w[1], w[2], Equals, b))
    BY <1>2, <1>3, <1>4, OneMore DEF Parts
  <1> HIDE DEF g
  <1>9. /\ Boundary(w[1], w[2], Equals, r.p) /\ r.p > g[2] /\ r.p \in Nat
    <2>1. CASE stop = w[2] + 1 /\ r.p = stop
      BY <1>2, <1>5, <2>1 DEF Boundary
    <2>2. CASE stop <= w[2] /\ line[stop] = Equals /\ r.p = stop + 1
      BY <1>2, <1>5, <2>2 DEF Boundary
    <2>3. QED
      BY <1>4, <2>1, <2>2
  <1>10. /\ r.mem[stop] = NUL
         /\ \A k \in 1 .. Len(line) : k # stop => r.mem[k] = m[k]
         /\ stop = w[2] + 1 => r.mem = m
    <2>1. CASE stop = w[2] + 1 /\ r.mem = m
      BY <1>3, <2>1
    <2>2. CASE stop <= w[2] /\ r.mem = Ended(m, stop)
      <3>1. \A k \in 1 .. Len(m) : Ended(m, stop)[k] = IF k = stop THEN NUL ELSE m[k]
        BY <1>1, <1>5, EndedIs
      <3>2. QED
        BY <1>1, <1>2, <1>5, <2>2, <3>1
    <2>3. QED
      BY <1>4, <2>1, <2>2
  <1>11. \A k \in 1 .. Len(line) : k <= b \/ k > w[2] => r.mem[k] = m[k]
    <2>1. TAKE k \in 1 .. Len(line)
    <2>2. HAVE k <= b \/ k > w[2]
    <2>3. k # stop \/ r.mem = m
      BY <1>2, <1>5, <1>10, <2>2
    <2>4. QED
      BY <1>10, <2>3
  <1>12. \A k \in g[1] .. g[2] : r.mem[k] = line[k]
    <2>1. TAKE k \in g[1] .. g[2]
    <2>2. /\ k \in Int /\ k >= b /\ k < stop /\ b \in Nat /\ b >= 1 /\ stop \in Nat
          /\ w[2] \in Nat /\ stop <= w[2] + 1 /\ w[2] < Len(line) /\ Len(line) \in Nat
      BY <1>1, <1>2, <1>5
    <2>3. k \in 1 .. Len(line) /\ k # stop /\ k \in b .. w[2]
      BY <2>2
    <2>4. QED
      BY <1>3, <1>10, <2>3
  <1>13. \A k \in r.p .. w[2] : r.mem[k] = line[k]
    <2>1. TAKE k \in r.p .. w[2]
    <2>2. r.p > b /\ b >= 1 /\ b \in Nat /\ w[2] < Len(line)
      <3>1. r.p = stop \/ r.p = stop + 1
        BY <1>4
      <3>2. b < stop /\ b \in Nat /\ stop \in Nat
        BY <1>5
      <3>3. b >= 1 /\ w[2] < Len(line)
        BY <1>1, <1>2, <1>5
      <3>4. QED
        BY <3>1, <3>2, <3>3
    <2>3. k \in 1 .. Len(line) /\ k \in b .. w[2]
      <3>1. /\ k \in Int /\ r.p \in Nat /\ w[2] \in Nat /\ r.p <= k /\ k <= w[2] /\ Len(line) \in Nat
        BY <1>1, <1>2, <1>9
      <3>2. QED
        BY <2>2, <3>1
    <2>4. k # stop \/ r.mem = m
      BY <1>4, <1>5, <1>9
    <2>5. QED
      BY <1>3, <1>10, <2>3, <2>4
  <1>14. PartLeft(r, m, w, b, g)
    BY <1>4, <1>5, <1>6, <1>7, <1>8, <1>9, <1>10, <1>11, <1>12, <1>13 DEF PartLeft
  <1>15. QED
    BY <1>14 DEF g

\* What stays true of the words when strtok cuts one of them.
LEMMA TableStays ==
    ASSUME LineShape, NEW m, NEW q, NEW t, NEW n, Table(m, q, t, n),
           NEW m2, \A k \in 1 .. Len(line) : m2[k] = m[k] \/ m2[k] = NUL,
           NEW q2 \in LineAt .. Len(line)
    PROVE  Table(m2, q2, t, n)
  <1>1. ASSUME NEW w \in Words PROVE m2[w[2] + 1] = NUL
    <2>1. w[2] + 1 \in 1 .. Len(line)
      BY WordShape DEF IsWord, LineAt
    <2>2. QED
      BY <2>1 DEF Table, Listed
  <1>2. QED
    BY <1>1 DEF Table, Listed

\* The later words stay untouched when only a word before them is cut.
LEMMA UntouchedStays ==
    ASSUME LineShape, NEW m, NEW n \in Nat, NEW w \in Words, Before(w, Words) = n,
           \A v \in Words : Before(v, Words) >= n + 1 => \A k \in v[1] .. v[2] : m[k] = line[k],
           NEW m2, \A k \in 1 .. Len(line) : k > w[2] => m2[k] = m[k]
    PROVE  Untouched(m2, n + 1)
  <1>1. ASSUME NEW v \in Words, Before(v, Words) >= n + 1, NEW k \in v[1] .. v[2]
        PROVE  m2[k] = line[k]
    <2>1. Before(w, Words) < Before(v, Words)
      BY <1>1, WordShape DEF IsWord
    <2>2. w[2] < v[1]
      BY <2>1, WordOrder
    <2>3. /\ v[1] \in Nat /\ v[2] \in Nat /\ w[2] \in Nat /\ LineAt <= v[1]
          /\ v[2] + 1 \in LineAt .. Len(line) /\ Len(line) \in Nat
      BY WordShape DEF IsWord, LineShape
    <2>4. k \in 1 .. Len(line) /\ k > w[2]
      BY <2>2, <2>3 DEF LineAt
    <2>5. QED
      BY <1>1, <2>4
  <1>2. QED
    BY <1>1 DEF Untouched

\* init cuts off the name: the first part of the i-th word, or it has none.
LEMMA StepName ==
    ASSUME ArgsInv, Name
    PROVE  ArgsInv'
  <1> DEFINE r == strtok(mem, p, tokens[i], {Equals})
  <1>1. /\ pc = "init" /\ i # count /\ mem' = r.mem /\ p' = r.p /\ a' = r.ret /\ pc' = "value"
        /\ line' = line /\ tokens' = tokens /\ count' = count /\ devbuild' = devbuild /\ i' = i
    BY DEF Name
  <1>2. Table(mem, p, tokens, count) /\ Read(i, devbuild) /\ Untouched(mem, i)
    BY <1>1 DEF ArgsInv, InvAt
  <1>3. i \in Nat /\ i < count /\ i \in 0 .. count - 1 /\ count \in Nat /\ count > 0
    BY <1>1, InvFacts
  <1>4. PICK w \in Words : Before(w, Words) = i
    BY <1>2, <1>3 DEF Table, Listed
  <1>5. tokens[i] = w[1] /\ mem[w[2] + 1] = NUL
    BY <1>2, <1>4 DEF Table, Listed
  <1>6. IsWord(w)
    BY <1>4, WordShape, InvFacts
  <1>7. Stands(mem, w, w[1])
    <2>1. Boundary(w[1], w[2], Equals, w[1])
      BY <1>6 DEF IsWord, Boundary
    <2>2. \A k \in w[1] .. w[2] : mem[k] = line[k]
      BY <1>2, <1>3, <1>4 DEF Untouched
    <2>3. QED
      BY <1>4, <1>5, <2>1, <2>2 DEF Stands
  <1>8. From(p, tokens[i]) = w[1] /\ w[1] \in LineAt .. Len(line)
    BY <1>5, <1>6 DEF From, IsWord
  <1> HIDE DEF r
  <1>9. /\ LineKept(r.mem) /\ ClearedIn(r.mem)
        /\ r.ret \in 0 .. Len(line) /\ (r.p = p \/ r.p \in LineAt .. Len(line))
        /\ \A k \in 1 .. Len(line) : r.mem[k] = mem[k] \/ r.mem[k] = NUL
    <2>1. From(p, tokens[i]) \in LineAt .. Len(line) /\ r = strtok(mem, p, tokens[i], {Equals})
      BY <1>8 DEF r
    <2>2. LineShape /\ LineKept(mem) /\ ClearedIn(mem) /\ Equals \in {Space, Equals}
      BY InvFacts
    <2>3. From(p, w[1]) \in LineAt .. Len(line) /\ r = strtok(mem, p, w[1], {Equals})
      BY <1>5, <2>1
    <2>4. Stays(mem, p, strtok(mem, p, w[1], {Equals}))
      BY <2>2, <2>3, StrtokStays
    <2>5. Stays(mem, p, r)
      BY <2>3, <2>4
    <2>6. QED
      BY <2>5 DEF Stays
  <1>10. \/ r = [ret |-> NULL, p |-> p, mem |-> mem] /\ FieldsTo(w[1], w[2], Equals, w[1]) = Parts(w)
         \/ \E ret, stop : Finds(r, mem, w[1], w[2], Equals, w[1], ret, stop)
    BY <1>7, <1>8, InvFacts, WordScan DEF r
  <1>11. FieldsTo(w[1], w[2], Equals, w[1]) = {} /\ Cardinality({}) = 0
    <2>1. ASSUME NEW f \in Parts(w) PROVE ~(f[1] < w[1])
      <3>1. IsPart(w, f)
        BY <1>4, InvFacts, PartShape
      <3>2. QED
        BY <1>6, <3>1 DEF IsPart, IsWord
    <2>2. QED
      BY <2>1, FS_EmptySet DEF FieldsTo, Parts
  <1>12. p' \in LineAt .. Len(line)
    BY <1>1, <1>2, <1>3, <1>9 DEF Table
  <1>13. Table(mem', p', tokens', count')
    BY <1>1, <1>2, <1>9, <1>12, InvFacts, TableStays
  <1>14. Named(mem', p', i', a') /\ (\A k \in 1 .. Len(line) : k > w[2] => mem'[k] = mem[k])
    <2>1. CASE r = [ret |-> NULL, p |-> p, mem |-> mem] /\ FieldsTo(w[1], w[2], Equals, w[1]) = Parts(w)
      <3>1. a' = NULL /\ mem' = mem /\ Parts(w) = {}
        BY <1>1, <1>11, <2>1
      <3>2. QED
        BY <1>1, <1>4, <3>1 DEF Named
    <2>2. ASSUME NEW ret, NEW stop, Finds(r, mem, w[1], w[2], Equals, w[1], ret, stop)
          PROVE  Named(mem', p', i', a') /\ (\A k \in 1 .. Len(line) : k > w[2] => mem'[k] = mem[k])
      <3>1. PICK f : PartLeft(r, mem, w, w[1], f)
        BY <1>7, <2>2, InvFacts, PartFound
      <3>2. /\ f \in Parts(w) /\ a' = f[1] /\ Boundary(w[1], w[2], Equals, p') /\ p' > f[2]
            /\ mem'[f[2] + 1] = NUL
            /\ \A k \in 1 .. Len(line) : k > w[2] => mem'[k] = mem[k]
            /\ \A k \in f[1] .. f[2] : mem'[k] = line[k]
            /\ \A k \in p' .. w[2] : mem'[k] = line[k]
            /\ FieldsTo(w[1], w[2], Equals, p') = {f}
            /\ Before(f, Parts(w)) = 0
        BY <1>1, <1>11, <3>1 DEF PartLeft
      <3>3. Cut(mem', p', a', w, f)
        BY <3>2 DEF Cut
      <3>4. Named(mem', p', i', a')
        BY <1>1, <1>4, <3>2, <3>3 DEF Named
      <3>5. QED
        BY <3>2, <3>4
    <2>3. QED
      BY <1>10, <2>1, <2>2
  <1>15. Untouched(mem', i' + 1)
    <2>1. \A v \in Words : Before(v, Words) >= i + 1 => \A k \in v[1] .. v[2] : mem[k] = line[k]
      <3>1. \A v \in Words : Before(v, Words) \in Nat
        BY WordShape, WordsFinite, InvFacts DEF IsWord
      <3>2. QED
        BY <1>2, <1>3, <3>1 DEF Untouched
    <2>2. QED
      <3>1. LineShape /\ \A k \in 1 .. Len(line) : k > w[2] => mem'[k] = mem[k]
        BY <1>14, InvFacts
      <3>2. Untouched(mem', i + 1)
        BY <1>3, <1>4, <2>1, <3>1, UntouchedStays
      <3>3. QED
        BY <1>1, <3>2
  <1>16. LineShape /\ LineKept(mem') /\ ClearedIn(mem') /\ a' \in 0 .. Len(line)
    BY <1>1, <1>9, InvFacts
  <1>17. Read(i', devbuild') /\ i' < count' /\ i' \in 0 .. count' /\ devbuild' \in BOOLEAN
    BY <1>1, <1>2, <1>3, InvFacts
  <1>18. count' \in 0 .. MaxTokens /\ tokens' \in [0 .. MaxTokens - 1 -> 0 .. Len(line)]
    BY <1>1, InvFacts
  <1>19. InvAt(mem', p', tokens', count', devbuild', pc', i', a')
    BY <1>1, <1>12, <1>13, <1>14, <1>15, <1>16, <1>17, <1>18, Zenon DEF InvAt
  <1>20. QED
    BY <1>1, <1>19, InvKept

\* init returns with every word read.
LEMMA StepReturn ==
    ASSUME ArgsInv, Return
    PROVE  ArgsInv'
  <1>1. /\ pc = "init" /\ i = count /\ pc' = "done"
        /\ mem' = mem /\ line' = line /\ p' = p /\ tokens' = tokens /\ count' = count
        /\ devbuild' = devbuild /\ i' = i /\ a' = a
    BY DEF Return
  <1>2. Table(mem, p, tokens, count) /\ Read(i, devbuild)
    BY <1>1 DEF ArgsInv, InvAt
  <1>3. InvAt(mem', p', tokens', count', devbuild', pc', i', a')
    BY <1>1, <1>2, InvFacts DEF InvAt
  <1>4. QED
    BY <1>1, <1>3, InvKept

\* The texts of one character.
LEMMA TextIs ==
    ASSUME LineShape, NEW f, f[1] \in Nat \ {0}, f[2] \in Nat, f[1] <= f[2], f[2] <= Len(line), NEW c
    PROVE  Text(f) = <<c>> <=> f[1] = f[2] /\ line[f[1]] = c
  <1>1. \A k \in f[1] .. f[2] : line[k] \in 0 .. 255
    <2>1. TAKE k \in f[1] .. f[2]
    <2>2. line \in Seq(0 .. 255) /\ k \in 1 .. Len(line)
      BY DEF LineShape
    <2>3. QED
      BY <2>2, ElementOfSeq
  <1>2. /\ Text(f) \in Seq(0 .. 255) /\ Len(Text(f)) = f[2] - f[1] + 1
        /\ \A k \in 1 .. f[2] - f[1] + 1 : Text(f)[k] = line[f[1] + k - 1]
    BY <1>1, SubSeqProperties DEF Text
  <1>3. Text(f)[1] = line[f[1]]
    BY <1>2
  <1>4. ASSUME Text(f) = <<c>> PROVE f[1] = f[2] /\ line[f[1]] = c
    BY <1>2, <1>3, <1>4
  <1>5. ASSUME f[1] = f[2], line[f[1]] = c PROVE Text(f) = <<c>>
    <2>1. Len(Text(f)) = 1 /\ Text(f)[1] = c
      BY <1>2, <1>3, <1>5
    <2>2. f[1] \in f[1] .. f[2]
      OBVIOUS
    <2>3. c \in 0 .. 255
      BY <1>1, <1>5, <2>2
    <2>4. <<c>> \in Seq(0 .. 255) /\ Len(<<c>>) = 1 /\ <<c>>[1] = c
      BY <2>3
    <2>5. \A k \in 1 .. Len(Text(f)) : Text(f)[k] = <<c>>[k]
      BY <2>1, <2>4
    <2>6. QED
      BY <1>2, <2>1, <2>4, <2>5, SeqEqual
  <1>6. QED
    BY <1>4, <1>5

\* strcmp of a piece of the line with a constant.
LEMMA ComparePiece ==
    ASSUME LineShape, NEW m, LineKept(m), ClearedIn(m), NEW f, LineAt <= f[1], f[1] \in Nat \ {0},
           f[2] \in Nat, f[1] <= f[2], f[2] <= LineEnd,
           m[f[2] + 1] = NUL, \A k \in f[1] .. f[2] : m[k] = line[k],
           NEW at \in {DevbuildAt, YesAt}, NEW c, c = line[at]
    PROVE  strcmp(m, f[1], at) = 0 <=> Text(f) = <<c>>
  <1>1. /\ Len(line) \in Nat /\ Len(m) = Len(line) /\ LineEnd + 1 = Len(line) /\ m \in Seq(0 .. 255)
        /\ LineAt \in Nat /\ LineEnd \in Nat /\ \A k \in LineAt .. LineEnd : line[k] # NUL
    BY LineFacts
  <1>2. /\ at \in 1 .. Len(m) /\ at + 1 <= Len(m) /\ m[at] = c /\ m[at + 1] = NUL /\ m[at] # NUL
        /\ m[Len(m)] = NUL
    <2>1. /\ m[LineEnd + 1] = NUL
          /\ m[DevbuildAt] = Devbuild /\ m[DevbuildAt + 1] = NUL
          /\ m[YesAt] = Yes /\ m[YesAt + 1] = NUL
      BY EndKept
    <2>2. line[DevbuildAt] = Devbuild /\ line[YesAt] = Yes /\ Len(line) >= LineAt
      BY DEF LineShape
    <2>3. Devbuild # NUL /\ Yes # NUL
      BY DEF Devbuild, Yes, NUL
    <2>4. at \in 1 .. Len(m) /\ at + 1 <= Len(m)
      BY <1>1, <2>2 DEF DevbuildAt, YesAt, LineAt
    <2>5. m[Len(m)] = NUL
      BY <1>1, <2>1
    <2>6. CASE at = DevbuildAt
      BY <2>1, <2>2, <2>3, <2>4, <2>5, <2>6
    <2>7. CASE at = YesAt
      BY <2>1, <2>2, <2>3, <2>4, <2>5, <2>7
    <2>8. QED
      BY <2>6, <2>7
  <1>3. f[1] \in 1 .. Len(m) /\ f[2] <= Len(line)
    BY <1>1
  <1>4. strcmp(m, f[1], at) = 0 <=> m[f[1]] = m[at] /\ m[f[1] + 1] = NUL
    BY <1>1, <1>2, <1>3, CompareOne
  <1>5. m[f[1]] = line[f[1]]
    OBVIOUS
  <1>6. m[f[1] + 1] = NUL <=> f[1] = f[2]
    <2>1. CASE f[1] = f[2]
      BY <2>1
    <2>2. CASE f[1] # f[2]
      <3>1. f[1] + 1 \in f[1] .. f[2] /\ f[1] + 1 \in LineAt .. LineEnd
        BY <1>1, <2>2
      <3>2. QED
        BY <1>1, <2>2, <3>1
    <2>3. QED
      BY <2>1, <2>2
  <1>7. Text(f) = <<c>> <=> f[1] = f[2] /\ line[f[1]] = c
    BY <1>3, TextIs
  <1>8. QED
    BY <1>2, <1>4, <1>5, <1>6, <1>7

\* The n-th part is the one with n before it.
LEMMA PartIs ==
    ASSUME LineShape, NEW w \in Words, NEW f \in Parts(w), NEW n, Before(f, Parts(w)) = n
    PROVE  Part(w, n) = f
  <1>1. w[1] \in Nat /\ w[2] \in Int /\ Parts(w) = Fields(w[1], w[2], Equals)
    BY WordShape DEF IsWord, Parts
  <1>2. \A g \in Parts(w) : Before(g, Parts(w)) = n => g = f
    BY <1>1, PlaceIsOne
  <1>3. QED
    BY <1>2 DEF Part

\* Once the n-th word has been read.
LEMMA ReadMore ==
    ASSUME LineShape, NEW n \in Nat, NEW set \in BOOLEAN, Read(n, set),
           NEW w \in Words, Before(w, Words) = n, ~Unreadable(w),
           NEW new \in BOOLEAN,
           w \notin Settings => new = set,
           w \in Settings => (new <=> Text(Part(w, 1)) = <<Yes>>)
    PROVE  Read(n + 1, new)
  <1>1. \A v \in Words : Before(v, Words) \in Nat /\ v[1] \in Nat
    BY WordShape, WordsFinite DEF IsWord
  <1>2. \A v \in Words : Before(v, Words) < n + 1 <=> Before(v, Words) < n \/ v = w
    BY <1>1, WordOrder
  <1>3. \A v \in Words : Before(v, Words) < n + 1 => ~Unreadable(v)
    BY <1>2 DEF Read
  <1>4. Settings \in SUBSET Words
    BY DEF Settings
  <1>5. CASE w \notin Settings
    <2>1. \A v \in Words : Latest(v, n + 1) <=> Latest(v, n)
      BY <1>2, <1>4, <1>5 DEF Latest
    <2>2. QED
      BY <1>3, <1>5, <2>1 DEF Read
  <1>6. CASE w \in Settings
    <2>1. Latest(w, n + 1)
      <3>1. ASSUME NEW v \in Settings, Before(v, Words) < n + 1 PROVE v[1] <= w[1]
        <4>1. v \in Words /\ (Before(v, Words) < Before(w, Words) \/ v = w)
          BY <1>2, <1>4, <3>1
        <4>2. QED
          BY <1>1, <4>1, WordOrder
      <3>2. QED
        BY <1>1, <1>6, <3>1 DEF Latest
    <2>2. ASSUME NEW v \in Words, Latest(v, n + 1) PROVE v = w
      <3>1. w[1] <= v[1]
        BY <1>1, <1>6, <2>2 DEF Latest
      <3>2. Before(v, Words) < n + 1 /\ ~(v[1] > w[1])
        BY <1>1, <2>1, <2>2 DEF Latest
      <3>3. v[1] = w[1]
        BY <1>1, <3>1, <3>2
      <3>4. QED
        BY <3>3, WordOrder
    <2>3. QED
      BY <1>3, <1>6, <2>1, <2>2 DEF Read
  <1>7. QED
    BY <1>5, <1>6

\* strcmp of the name with "devbuild" tells the settings.
LEMMA NameCompared ==
    ASSUME LineShape, NEW w \in Words, NEW f \in Parts(w), Before(f, Parts(w)) = 0,
           NEW m, LineKept(m), ClearedIn(m), m[f[2] + 1] = NUL, \A k \in f[1] .. f[2] : m[k] = line[k]
    PROVE  /\ strcmp(m, f[1], DevbuildAt) = 0 <=> Text(Part(w, 0)) = <<Devbuild>>
           /\ strcmp(m, f[1], DevbuildAt) = 0 <=> w \in Settings
  <1>1. IsPart(w, f)
    BY PartShape
  <1>2. line[DevbuildAt] = Devbuild
    BY DEF LineShape
  <1>3. strcmp(m, f[1], DevbuildAt) = 0 <=> Text(f) = <<Devbuild>>
    BY <1>1, <1>2, ComparePiece DEF IsPart
  <1>4. Part(w, 0) = f
    BY PartIs
  <1>5. QED
    BY <1>3, <1>4 DEF Settings

\* strcmp of the value with "yes" tells whether the setting says yes.
LEMMA ValueCompared ==
    ASSUME LineShape, NEW w \in Words, NEW g \in Parts(w), Before(g, Parts(w)) = 1,
           NEW m, LineKept(m), ClearedIn(m), m[g[2] + 1] = NUL, \A k \in g[1] .. g[2] : m[k] = line[k]
    PROVE  /\ strcmp(m, g[1], YesAt) = 0 <=> Text(Part(w, 1)) = <<Yes>>
           /\ Cardinality(Parts(w)) # 1 /\ g[1] # NULL
  <1>1. IsPart(w, g) /\ IsWord(w)
    BY PartShape, WordShape
  <1>2. line[YesAt] = Yes
    BY DEF LineShape
  <1>3. strcmp(m, g[1], YesAt) = 0 <=> Text(g) = <<Yes>>
    BY <1>1, <1>2, ComparePiece DEF IsPart
  <1>4. Part(w, 1) = g
    BY PartIs
  <1>5. Before(g, Parts(w)) \in 0 .. Cardinality(Parts(w)) - 1
    BY <1>1, PlacesDiffer DEF IsWord, Parts
  <1>6. QED
    BY <1>1, <1>3, <1>4, <1>5 DEF IsPart

\* How the word w comes out of Option.
WordRead(w) ==
    \/ pc' = "fault" /\ i' = i /\ devbuild' = devbuild /\ Unreadable(w)
    \/ /\ pc' = "init" /\ i' = i + 1 /\ ~Unreadable(w) /\ devbuild' \in BOOLEAN
       /\ w \notin Settings => devbuild' = devbuild
       /\ w \in Settings => (devbuild' <=> Text(Part(w, 1)) = <<Yes>>)

\* What init makes of the word whose name it has cut off.
LEMMA OptionOutcome ==
    ASSUME ArgsInv, Option,
           NEW w \in Words, Before(w, Words) = i,
           (a = NULL /\ Parts(w) = {}) \/ \E f \in Parts(w) : Cut(mem, p, a, w, f)
    PROVE  /\ WordRead(w)
           /\ LineKept(mem') /\ ClearedIn(mem') /\ p' \in LineAt .. Len(line)
           /\ \A k \in 1 .. Len(line) : mem'[k] = mem[k] \/ mem'[k] = NUL
           /\ \A k \in 1 .. Len(line) : a # NULL /\ k > w[2] => mem'[k] = mem[k]
           /\ a = NULL => pc' = "fault"
  <1> DEFINE r == Value
  <1>1. /\ pc = "value" /\ mem' = r.mem /\ p' = r.p
        /\ r = strtok(mem, p, NULL, {Equals})
    BY DEF Option, Value
  <1>2. \/ /\ a = NULL \/ (strcmp(mem', a, DevbuildAt) = 0 /\ r.ret = NULL)
           /\ pc' = "fault" /\ devbuild' = devbuild /\ i' = i
        \/ /\ a # NULL /\ strcmp(mem', a, DevbuildAt) # 0
           /\ pc' = "init" /\ i' = i + 1 /\ devbuild' = devbuild
        \/ /\ a # NULL /\ strcmp(mem', a, DevbuildAt) = 0 /\ r.ret # NULL
           /\ pc' = "init" /\ i' = i + 1
           /\ devbuild' = (strcmp(mem', r.ret, YesAt) = 0)
    BY DEF Option
  <1> HIDE DEF r
  <1>3. Table(mem, p, tokens, count) /\ i < count
    BY <1>1 DEF ArgsInv, InvAt
  <1>4. p \in LineAt .. Len(line) /\ From(p, NULL) = p /\ mem[w[2] + 1] = NUL
    BY <1>3, InvFacts DEF Table, Listed, From
  <1>5. Stays(mem, p, r)
    <2>1. LineShape /\ LineKept(mem) /\ ClearedIn(mem) /\ Equals \in {Space, Equals}
      BY InvFacts
    <2>2. QED
      BY <1>1, <1>4, <2>1, StrtokStays
  <1>6. /\ LineKept(mem') /\ ClearedIn(mem') /\ p' \in LineAt .. Len(line)
        /\ \A k \in 1 .. Len(line) : mem'[k] = mem[k] \/ mem'[k] = NUL
    BY <1>1, <1>4, <1>5 DEF Stays
  <1>7. IsWord(w) /\ LineShape /\ LineKept(mem)
    BY WordShape, InvFacts
  <1>8. CASE a = NULL /\ Parts(w) = {}
    BY <1>2, <1>6, <1>8 DEF Unreadable, WordRead
  <1>9. ASSUME NEW f \in Parts(w), Cut(mem, p, a, w, f)
        PROVE  /\ WordRead(w)
               /\ \A k \in 1 .. Len(line) : k > w[2] => mem'[k] = mem[k]
               /\ a # NULL
    <2>1. /\ a = f[1] /\ Before(f, Parts(w)) = 0
          /\ mem[f[2] + 1] = NUL /\ (\A k \in f[1] .. f[2] : mem[k] = line[k])
          /\ Boundary(w[1], w[2], Equals, p) /\ p > f[2]
          /\ FieldsTo(w[1], w[2], Equals, p) = {f}
          /\ \A k \in p .. w[2] : mem[k] = line[k]
      BY <1>9 DEF Cut
    <2>2. IsPart(w, f)
      BY <1>7, PartShape
    <2>3. a # NULL
      BY <2>1, <2>2 DEF IsPart
    <2>4. Stands(mem, w, p)
      BY <1>4, <2>1 DEF Stands
    <2>5. \/ r = [ret |-> NULL, p |-> p, mem |-> mem] /\ FieldsTo(w[1], w[2], Equals, p) = Parts(w)
          \/ \E ret, stop : Finds(r, mem, w[1], w[2], Equals, p, ret, stop)
      BY <1>1, <1>4, <1>7, <2>4, WordScan
    <2>6. mem'[f[2] + 1] = NUL
      BY <1>6, <2>1, <2>2 DEF IsPart, LineAt
    <2>7. CASE r = [ret |-> NULL, p |-> p, mem |-> mem] /\ FieldsTo(w[1], w[2], Equals, p) = Parts(w)
      <3>1. r.ret = NULL /\ mem' = mem /\ Parts(w) = {f}
        BY <1>1, <2>1, <2>7
      <3>2. Cardinality(Parts(w)) = 1
        BY <3>1, FS_Singleton
      <3>3. /\ strcmp(mem', a, DevbuildAt) = 0 <=> Text(Part(w, 0)) = <<Devbuild>>
            /\ strcmp(mem', a, DevbuildAt) = 0 <=> w \in Settings
        BY <1>6, <1>7, <2>1, <2>6, <3>1, NameCompared
      <3>4. QED
        BY <1>2, <2>3, <3>1, <3>2, <3>3, InvFacts DEF Unreadable, WordRead
    <2>8. ASSUME NEW ret, NEW stop, Finds(r, mem, w[1], w[2], Equals, p, ret, stop)
          PROVE  /\ WordRead(w)
                 /\ \A k \in 1 .. Len(line) : k > w[2] => mem'[k] = mem[k]
      <3>1. PICK g : PartLeft(r, mem, w, p, g)
        BY <1>7, <2>4, <2>8, PartFound
      <3>2. /\ g \in Parts(w) /\ r.ret = g[1] /\ mem'[g[2] + 1] = NUL
            /\ \A k \in 1 .. Len(line) : k <= p \/ k > w[2] => mem'[k] = mem[k]
            /\ \A k \in g[1] .. g[2] : mem'[k] = line[k]
            /\ Before(g, Parts(w)) = Cardinality({f})
        BY <1>1, <2>1, <3>1 DEF PartLeft
      <3>3. Before(g, Parts(w)) = 1
        BY <3>2, FS_Singleton
      <3>4. \A k \in f[1] .. f[2] : mem'[k] = line[k]
        <4>1. TAKE k \in f[1] .. f[2]
        <4>2. k \in 1 .. Len(line) /\ k <= p
          BY <1>4, <2>1, <2>2 DEF IsPart, LineAt
        <4>3. QED
          BY <2>1, <3>2, <4>2
      <3>5. /\ strcmp(mem', a, DevbuildAt) = 0 <=> Text(Part(w, 0)) = <<Devbuild>>
            /\ strcmp(mem', a, DevbuildAt) = 0 <=> w \in Settings
        BY <1>6, <1>7, <2>1, <2>6, <3>4, NameCompared
      <3>6. /\ strcmp(mem', r.ret, YesAt) = 0 <=> Text(Part(w, 1)) = <<Yes>>
            /\ Cardinality(Parts(w)) # 1 /\ r.ret # NULL
        BY <1>6, <1>7, <3>2, <3>3, ValueCompared
      <3>7. ~Unreadable(w)
        BY <3>2, <3>6 DEF Unreadable
      <3>8. QED
        BY <1>2, <2>3, <3>2, <3>5, <3>6, <3>7, InvFacts DEF WordRead
    <2>9. QED
      BY <2>3, <2>5, <2>7, <2>8
  <1>10. QED
    BY <1>6, <1>8, <1>9

\* init looks at the value: it faults on an unreadable word, or has read one word more.
LEMMA StepOption ==
    ASSUME ArgsInv, Option
    PROVE  ArgsInv'
  <1>1. /\ pc = "value" /\ a' = NULL
        /\ line' = line /\ tokens' = tokens /\ count' = count
    BY DEF Option
  <1>2. /\ Table(mem, p, tokens, count) /\ Read(i, devbuild)
        /\ i < count /\ Untouched(mem, i + 1) /\ Named(mem, p, i, a)
    BY <1>1 DEF ArgsInv, InvAt
  <1>3. PICK w \in Words : /\ Before(w, Words) = i
                           /\ \/ a = NULL /\ Parts(w) = {}
                              \/ \E f \in Parts(w) : Cut(mem, p, a, w, f)
    BY <1>2 DEF Named
  <1>4. /\ WordRead(w)
        /\ LineKept(mem') /\ ClearedIn(mem') /\ p' \in LineAt .. Len(line)
        /\ \A k \in 1 .. Len(line) : mem'[k] = mem[k] \/ mem'[k] = NUL
        /\ \A k \in 1 .. Len(line) : a # NULL /\ k > w[2] => mem'[k] = mem[k]
        /\ a = NULL => pc' = "fault"
    BY <1>3, OptionOutcome
  <1>5. Table(mem', p', tokens', count')
    BY <1>1, <1>2, <1>4, InvFacts, TableStays
  <1>6. /\ LineShape /\ LineKept(mem') /\ ClearedIn(mem') /\ a' \in 0 .. Len(line)
        /\ tokens' \in [0 .. MaxTokens - 1 -> 0 .. Len(line)] /\ count' \in 0 .. MaxTokens
        /\ i \in Nat /\ count \in Nat
    BY <1>1, <1>4, InvFacts
  <1>7. CASE pc' = "fault" /\ i' = i /\ devbuild' = devbuild /\ Unreadable(w)
    <2>1. \E v \in Words : Unreadable(v)
      BY <1>7
    <2>2. devbuild' \in BOOLEAN /\ i' \in 0 .. count'
      BY <1>1, <1>7, InvFacts
    <2>3. InvAt(mem', p', tokens', count', devbuild', pc', i', a')
      BY <1>4, <1>5, <1>6, <1>7, <2>1, <2>2, Zenon DEF InvAt
    <2>4. QED
      BY <1>1, <2>3, InvKept
  <1>8. CASE /\ pc' = "init" /\ i' = i + 1 /\ ~Unreadable(w) /\ devbuild' \in BOOLEAN
             /\ w \notin Settings => devbuild' = devbuild
             /\ w \in Settings => (devbuild' <=> Text(Part(w, 1)) = <<Yes>>)
    <2>1. Read(i', devbuild')
      <3>1. devbuild \in BOOLEAN /\ LineShape
        BY InvFacts
      <3>2. Read(i + 1, devbuild')
        BY <1>2, <1>3, <1>6, <1>8, <3>1, ReadMore
      <3>3. QED
        BY <1>8, <3>2
    <2>2. Untouched(mem', i')
      <3>1. \A v \in Words : Before(v, Words) >= i + 1 => \A k \in v[1] .. v[2] : mem[k] = line[k]
        BY <1>2 DEF Untouched
      <3>2. \A k \in 1 .. Len(line) : k > w[2] => mem'[k] = mem[k]
        BY <1>4, <1>8
      <3>3. Untouched(mem', i + 1)
        BY <1>3, <1>6, <3>1, <3>2, UntouchedStays
      <3>4. QED
        BY <1>8, <3>3
    <2>3. i' \in 0 .. count' /\ devbuild' \in BOOLEAN
      BY <1>1, <1>2, <1>6, <1>8
    <2>4. InvAt(mem', p', tokens', count', devbuild', pc', i', a')
      BY <1>4, <1>5, <1>6, <1>8, <2>1, <2>2, <2>3, Zenon DEF InvAt
    <2>5. QED
      BY <1>1, <2>4, InvKept
  <1>9. QED
    BY <1>4, <1>7, <1>8 DEF WordRead

\* Stuttering keeps the invariant.
LEMMA ArgsStutters ==
    ASSUME ArgsInv, UNCHANGED vars
    PROVE  ArgsInv'
  <1>1. InvAt(mem', p', tokens', count', devbuild', pc', i', a') /\ line' = line
    BY DEF ArgsInv, vars
  <1>2. QED
    BY <1>1, InvKept

\* The memory of a command line.
LEMMA MemoryShape ==
    ASSUME NEW l \in Seq(1 .. 255)
    PROVE  /\ Memory(l) \in Seq(0 .. 255) /\ Len(Memory(l)) = Len(l) + 5
           /\ Memory(l)[1] = Devbuild /\ Memory(l)[2] = NUL
           /\ Memory(l)[3] = Yes /\ Memory(l)[4] = NUL
           /\ \A k \in 5 .. Len(l) + 4 : Memory(l)[k] \in 1 .. 255
           /\ Memory(l)[Len(l) + 5] = NUL
  <1> DEFINE c == <<Devbuild, NUL, Yes, NUL>>
             e == <<NUL>>
  <1>1. l \in Seq(0 .. 255) /\ Len(l) \in Nat
    BY SeqMonotonic
  <1>2. /\ c \in Seq(0 .. 255) /\ Len(c) = 4 /\ c[1] = Devbuild /\ c[2] = NUL /\ c[3] = Yes /\ c[4] = NUL
        /\ e \in Seq(0 .. 255) /\ Len(e) = 1 /\ e[1] = NUL
    BY DEF Devbuild, NUL, Yes
  <1> HIDE DEF c, e
  <1> DEFINE h == c \o l
             t == h \o e
  <1>3. /\ h \in Seq(0 .. 255) /\ Len(h) = Len(c) + Len(l)
        /\ \A k \in 1 .. Len(c) + Len(l) : h[k] = IF k <= Len(c) THEN c[k] ELSE l[k - Len(c)]
    <2>1. c \in Seq(0 .. 255) /\ l \in Seq(0 .. 255)
      BY <1>1, <1>2
    <2>2. QED
      BY <2>1, ConcatProperties
  <1> HIDE DEF h
  <1>4. /\ t \in Seq(0 .. 255) /\ Len(t) = Len(h) + Len(e)
        /\ \A k \in 1 .. Len(h) + Len(e) : t[k] = IF k <= Len(h) THEN h[k] ELSE e[k - Len(h)]
    <2>1. h \in Seq(0 .. 255) /\ e \in Seq(0 .. 255)
      BY <1>2, <1>3
    <2>2. QED
      BY <2>1, ConcatProperties
  <1> HIDE DEF t
  <1>5. t[1] = Devbuild /\ t[2] = NUL /\ t[3] = Yes /\ t[4] = NUL
    <2>1. \A k \in 1 .. 4 : t[k] = h[k] /\ h[k] = c[k]
      BY <1>1, <1>2, <1>3, <1>4
    <2>2. QED
      BY <1>2, <2>1
  <1>6. t[Len(l) + 5] = NUL
    <2>1. /\ Len(h) = Len(l) + 4 /\ Len(l) + 5 \in 1 .. Len(h) + Len(e)
          /\ (Len(l) + 5) - Len(h) = 1 /\ ~ (Len(l) + 5 <= Len(h))
      BY <1>1, <1>2, <1>3
    <2>2. t[Len(l) + 5] = e[1]
      BY <1>4, <2>1
    <2>3. QED
      BY <1>2, <2>2
  <1>7. ASSUME NEW k \in 5 .. Len(l) + 4 PROVE t[k] \in 1 .. 255
    <2>1. k - 4 \in 1 .. Len(l)
      BY <1>1
    <2>2. t[k] = l[k - 4]
      BY <1>1, <1>2, <1>3, <1>4
    <2>3. QED
      BY <2>1, <2>2, ElementOfSeq
  <1>8. Memory(l) = t
    BY DEF Memory, t, h, c, e
  <1>9. QED
    BY <1>1, <1>2, <1>3, <1>4, <1>5, <1>6, <1>7, <1>8

\* The invariant holds at the call of init.
LEMMA ArgsInitially ==
    ASSUME Init
    PROVE  ArgsInv
  <1>1. PICK l \in Lines : line = Memory(l) /\ mem = line
    BY DEF Init
  <1>2. l \in Seq(1 .. 255) /\ MaxTokens \in Nat \ {0}
    BY ArgsAssumption
  <1>3. /\ line \in Seq(0 .. 255) /\ Len(line) = Len(l) + 5 /\ Len(l) \in Nat
        /\ line[1] = Devbuild /\ line[2] = NUL /\ line[3] = Yes /\ line[4] = NUL
        /\ \A k \in 5 .. Len(l) + 4 : line[k] \in 1 .. 255
        /\ line[Len(line)] = NUL
    <2>1. /\ Memory(l) \in Seq(0 .. 255) /\ Len(Memory(l)) = Len(l) + 5
          /\ Memory(l)[1] = Devbuild /\ Memory(l)[2] = NUL
          /\ Memory(l)[3] = Yes /\ Memory(l)[4] = NUL
          /\ \A k \in 5 .. Len(l) + 4 : Memory(l)[k] \in 1 .. 255
          /\ Memory(l)[Len(l) + 5] = NUL
      BY <1>2, MemoryShape
    <2>2. Len(l) \in Nat
      BY <1>2
    <2>3. QED
      BY <1>1, <2>1, <2>2
  <1>4. LineShape
    <2>1. \A k \in LineAt .. LineEnd : line[k] # NUL
      <3>1. TAKE k \in LineAt .. LineEnd
      <3>2. k \in 5 .. Len(l) + 4
        BY <1>3 DEF LineAt, LineEnd
      <3>3. line[k] \in 1 .. 255
        BY <1>3, <3>2
      <3>4. QED
        BY <3>3 DEF NUL
    <2>2. QED
      BY <1>3, <2>1 DEF LineShape, LineAt, DevbuildAt, YesAt
  <1>5. LineKept(mem) /\ ClearedIn(mem)
    BY <1>1, <1>3 DEF LineKept, ClearedIn, LineAt
  <1>6. /\ p = NULL /\ tokens = [k \in 0 .. MaxTokens - 1 |-> NULL] /\ count = 1
        /\ devbuild = FALSE /\ pc = "call" /\ i = 0 /\ a = NULL
    BY DEF Init
  <1>7. /\ tokens \in [0 .. MaxTokens - 1 -> 0 .. Len(line)] /\ count \in 0 .. MaxTokens
        /\ devbuild \in BOOLEAN /\ i \in 0 .. count /\ a \in 0 .. Len(line)
    <2>1. Len(line) \in Nat /\ NULL \in 0 .. Len(line)
      BY <1>3 DEF NULL
    <2>2. tokens \in [0 .. MaxTokens - 1 -> 0 .. Len(line)]
      BY <1>6, <2>1
    <2>3. count \in 0 .. MaxTokens /\ i \in 0 .. count
      BY <1>2, <1>6
    <2>4. QED
      BY <1>6, <2>1, <2>2, <2>3
  <1>8. QED
    BY <1>1, <1>4, <1>5, <1>6, <1>7, Zenon DEF ArgsInv, InvAt

\* ArgsInv is an invariant of Args.
LEMMA ArgsInvariance == Spec => []ArgsInv
  <1>1. Init => ArgsInv
    BY ArgsInitially
  <1>2. ArgsInv /\ [Next]_vars => ArgsInv'
    BY StepFirstToken, StepNextToken, StepName, StepOption, StepReturn, ArgsStutters DEF Next
  <1>3. QED
    BY <1>1, <1>2, PTL DEF Spec

\* On every command line the memory keeps its length, and the table of tokens, the
\* counts and the results of strtok their types (args.c:9-13, string.c:90-131).
THEOREM ArgsTyping == Spec => []TypeOK
  <1>1. ArgsInv => TypeOK
    <2>1. SUFFICES ASSUME ArgsInv PROVE TypeOK
      OBVIOUS
    <2>2. mem \in Seq(0 .. 255) /\ Len(mem) = Len(line)
      BY <2>1, InvFacts DEF LineKept
    <2>3. pc \in {"call", "parse", "overrun", "init", "value", "fault", "done"}
      BY <2>1 DEF ArgsInv, InvAt
    <2>4. QED
      BY <2>1, <2>2, <2>3, InvFacts DEF TypeOK
  <1>2. QED
    BY <1>1, ArgsInvariance, PTL

\* The end of a string is its first NUL.
LEMMA EndFound ==
    ASSUME NEW m, Len(m) \in Nat, NEW s \in Nat, NEW e \in s .. Len(m),
           m[e] = NUL, \A h \in s .. e - 1 : m[h] # NUL
    PROVE  End(m, s) = e
  <1>1. e \in s .. Len(m) /\ m[e] = NUL /\ \A h \in s .. e - 1 : ~(m[h] = NUL)
    OBVIOUS
  <1>2. \A k \in s .. Len(m) : m[k] = NUL /\ (\A h \in s .. k - 1 : ~(m[h] = NUL)) => k = e
    BY <1>1
  <1>3. QED
    BY <1>1, <1>2 DEF End, FirstIn

\* A word that is ended and untouched is read as it stood in the line.
LEMMA WordEnd ==
    ASSUME LineShape, LineKept(mem), NEW w \in Words, mem[w[2] + 1] = NUL,
           \A k \in w[1] .. w[2] : mem[k] = line[k]
    PROVE  End(mem, w[1]) = w[2] + 1 /\ SubSeq(mem, w[1], w[2]) = Text(w)
  <1>1. IsWord(w)
    BY WordShape
  <1>2. Len(mem) = Len(line) /\ Len(line) \in Nat /\ mem \in Seq(0 .. 255) /\ line \in Seq(0 .. 255)
    BY LineFacts DEF LineShape
  <1>3. \A k \in w[1] .. w[2] : mem[k] # NUL
    BY <1>1 DEF IsWord
  <1>4. End(mem, w[1]) = w[2] + 1
    <2> DEFINE e == w[2] + 1
               s == w[1]
    <2>1. /\ Len(mem) \in Nat /\ s \in Nat /\ e \in s .. Len(mem)
          /\ mem[e] = NUL /\ \A h \in s .. e - 1 : mem[h] # NUL
      BY <1>1, <1>2, <1>3 DEF IsWord
    <2> HIDE DEF e, s
    <2>2. End(mem, s) = e
      BY <2>1, EndFound
    <2>3. QED
      BY <2>2 DEF e, s
  <1>5. SubSeq(mem, w[1], w[2]) = Text(w)
    <2>1. \A k \in w[1] .. w[2] : mem[k] \in 0 .. 255 /\ line[k] \in 0 .. 255
      <3>1. TAKE k \in w[1] .. w[2]
      <3>2. k \in 1 .. Len(line) /\ k \in 1 .. Len(mem)
        BY <1>1, <1>2 DEF IsWord
      <3>3. QED
        BY <1>2, <3>2, ElementOfSeq
    <2>2. w[1] \in Int /\ w[2] \in Int
      BY <1>1 DEF IsWord
    <2>3. /\ SubSeq(mem, w[1], w[2]) \in Seq(0 .. 255)
          /\ Len(SubSeq(mem, w[1], w[2])) = (IF w[1] <= w[2] THEN w[2] - w[1] + 1 ELSE 0)
          /\ \A k \in 1 .. w[2] - w[1] + 1 : SubSeq(mem, w[1], w[2])[k] = mem[w[1] + k - 1]
      BY <2>1, <2>2, SubSeqProperties
    <2>4. /\ Text(w) \in Seq(0 .. 255) /\ Len(Text(w)) = (IF w[1] <= w[2] THEN w[2] - w[1] + 1 ELSE 0)
          /\ \A k \in 1 .. w[2] - w[1] + 1 : Text(w)[k] = line[w[1] + k - 1]
      BY <2>1, <2>2, SubSeqProperties DEF Text
    <2>5. \A k \in 1 .. w[2] - w[1] + 1 : SubSeq(mem, w[1], w[2])[k] = Text(w)[k]
      <3>1. TAKE k \in 1 .. w[2] - w[1] + 1
      <3>2. w[1] + k - 1 \in w[1] .. w[2]
        BY <2>2
      <3>3. QED
        BY <2>3, <2>4, <3>2
    <2>6. w[1] <= w[2]
      BY <1>1 DEF IsWord
    <2>7. QED
      BY <2>2, <2>3, <2>4, <2>5, <2>6, SeqEqual
  <1>6. QED
    BY <1>4, <1>5

\* On every command line and for every size of the table: when parse returns the
\* table holds the words of the line in order, each ended, and fewer than it has room
\* for; the table is left only by a line of at least MaxTokens words (args.c:14-27).
THEOREM ParseMakesWords == Spec => []TokensAreWords
  <1>1. ArgsInv => TokensAreWords
    <2>1. SUFFICES ASSUME ArgsInv PROVE TokensAreWords
      OBVIOUS
    <2>2. ASSUME pc = "init", i = 0
          PROVE  /\ count = Cardinality(Words) /\ count < MaxTokens
                 /\ \A w \in Words : /\ tokens[Before(w, Words)] = w[1]
                                     /\ End(mem, w[1]) = w[2] + 1 /\ SubSeq(mem, w[1], w[2]) = Text(w)
      <3>1. Table(mem, p, tokens, count) /\ Untouched(mem, 0)
        BY <2>1, <2>2 DEF ArgsInv, InvAt
      <3>2. ASSUME NEW w \in Words
            PROVE  /\ tokens[Before(w, Words)] = w[1]
                   /\ End(mem, w[1]) = w[2] + 1 /\ SubSeq(mem, w[1], w[2]) = Text(w)
        <4>1. tokens[Before(w, Words)] = w[1] /\ mem[w[2] + 1] = NUL
          BY <3>1 DEF Table, Listed
        <4>2. Before(w, Words) >= 0
          BY <2>1, WordShape, WordsFinite, InvFacts DEF IsWord
        <4>3. \A k \in w[1] .. w[2] : mem[k] = line[k]
          BY <3>1, <4>2 DEF Untouched
        <4>4. QED
          BY <2>1, <4>1, <4>3, InvFacts, WordEnd
      <3>3. QED
        BY <3>1, <3>2 DEF Table, Listed
    <2>3. pc = "overrun" => Cardinality(Words) >= MaxTokens
      BY <2>1 DEF ArgsInv, InvAt
    <2>4. QED
      BY <2>2, <2>3 DEF TokensAreWords
  <1>2. QED
    BY <1>1, ArgsInvariance, PTL

\* On every command line that parse can hold: init returns only if it can read
\* every word, devbuild being then what the last setting says, and faults only at a
\* word that it cannot read (args.c:29-51).
THEOREM LastSettingCounts == Spec => []DevbuildAsSet
  <1>1. ArgsInv => DevbuildAsSet
    <2>1. SUFFICES ASSUME ArgsInv PROVE DevbuildAsSet
      OBVIOUS
    <2>2. ASSUME pc = "done"
          PROVE  /\ \A w \in Words : ~Unreadable(w)
                 /\ devbuild <=> \E w \in Settings : /\ \A v \in Settings : v[1] <= w[1]
                                                     /\ Text(Part(w, 1)) = <<Yes>>
      <3>1. Table(mem, p, tokens, count) /\ Read(count, devbuild)
        BY <2>1, <2>2 DEF ArgsInv, InvAt
      <3>2. \A w \in Words : Before(w, Words) < count
        BY <2>1, <3>1, WordShape, WordsFinite, InvFacts DEF Table, Listed, IsWord
      <3>3. Settings \in SUBSET Words
        BY DEF Settings
      <3>4. \A w \in Words : Latest(w, count) <=> w \in Settings /\ \A v \in Settings : v[1] <= w[1]
        BY <3>2, <3>3 DEF Latest
      <3>5. QED
        BY <3>1, <3>2, <3>3, <3>4 DEF Read
    <2>3. pc = "fault" => \E w \in Words : Unreadable(w)
      BY <2>1 DEF ArgsInv, InvAt
    <2>4. QED
      BY <2>2, <2>3 DEF DevbuildAsSet
  <1>2. QED
    BY <1>1, ArgsInvariance, PTL

\* On every command line strtok overwrites only delimiters, by NULs, and its position
\* does not leave the line (string.c:90-131).
THEOREM DelimitersOnly == Spec => []OnlyDelimitersCleared
  <1>1. ArgsInv => OnlyDelimitersCleared
    <2>1. SUFFICES ASSUME ArgsInv PROVE OnlyDelimitersCleared
      OBVIOUS
    <2>2. DOMAIN mem = 1 .. Len(line)
      BY <2>1, InvFacts DEF LineKept
    <2>3. \A k \in DOMAIN mem :
              mem[k] # line[k] => k >= LineAt /\ mem[k] = NUL /\ line[k] \in {Space, Equals}
      BY <2>1, <2>2, InvFacts DEF ClearedIn
    <2>4. QED
      BY <2>1, <2>3, InvFacts DEF OnlyDelimitersCleared
  <1>2. QED
    BY <1>1, ArgsInvariance, PTL

-----------------------------------------------------------------------------
\* The library: the copy loops of memcpy, memmove and the string functions,
\* round by round, then what each call leaves, then what the comparisons return.

\* What holds before the first round of a loop and after each holds after the
\* last.
LEMMA Rounds ==
    ASSUME NEW n \in Nat, NEW S, 0 \in S, \A k \in 1 .. n : k - 1 \in S => k \in S
    PROVE  \A k \in 0 .. n : k \in S
  <1> DEFINE T == {k \in 0 .. n : k \notin S}
  <1>1. SUFFICES ASSUME T # {} PROVE FALSE
    OBVIOUS
  <1>2. T \subseteq Nat
    OBVIOUS
  <1>3. PICK k \in T : \A h \in T : k <= h
    BY <1>1, <1>2, Least, Zenon
  <1>4. k \in 1 .. n /\ k - 1 \in 0 .. n /\ k - 1 \notin T
    BY <1>3
  <1>5. QED
    BY <1>3, <1>4

\* A copy loop whose k-th round copies the byte at from[k] to to[k].
Copies(m, to, from, n, w) ==
    w = [k \in 0 .. n |-> IF k = 0 THEN Whole(m) ELSE Move(w[k - 1], to[k], from[k])]

\* Such a loop exists: each round extends the one before.
LEMMA CopiesExist ==
    ASSUME NEW m, NEW to, NEW from, NEW n \in Nat
    PROVE  \E w : Copies(m, to, from, n, w)
  <1> DEFINE S == {k \in 0 .. n : \E w : Copies(m, to, from, k, w)}
  <1>1. 0 \in S
    <2> DEFINE w == [k \in 0 .. 0 |-> Whole(m)]
    <2>1. w = [k \in 0 .. 0 |-> IF k = 0 THEN Whole(m) ELSE Move(w[k - 1], to[k], from[k])]
      OBVIOUS
    <2>2. Copies(m, to, from, 0, w)
      BY <2>1 DEF Copies
    <2>3. QED
      BY <2>2
  <1>2. ASSUME NEW k \in 1 .. n, k - 1 \in S PROVE k \in S
    <2>1. PICK w : Copies(m, to, from, k - 1, w)
      BY <1>2
    <2>2. /\ DOMAIN w = 0 .. k - 1
          /\ \A j \in 0 .. k - 1 : w[j] = IF j = 0 THEN Whole(m) ELSE Move(w[j - 1], to[j], from[j])
      BY <2>1 DEF Copies
    <2> DEFINE v == [j \in 0 .. k |-> IF j < k THEN w[j] ELSE Move(w[k - 1], to[k], from[k])]
    <2>3. ASSUME NEW j \in 0 .. k
          PROVE  v[j] = IF j = 0 THEN Whole(m) ELSE Move(v[j - 1], to[j], from[j])
      <3>1. CASE j = k
        BY <3>1
      <3>2. CASE j < k
        <4>1. j \in 0 .. k - 1 /\ v[j] = w[j]
          BY <3>2
        <4>2. j # 0 => j - 1 \in 0 .. k /\ j - 1 < k /\ v[j - 1] = w[j - 1]
          BY <3>2
        <4>3. QED
          BY <2>2, <4>1, <4>2
      <3>3. QED
        BY <3>1, <3>2
    <2>4. DOMAIN v = 0 .. k /\ v = [j \in 0 .. k |-> v[j]]
      OBVIOUS
    <2> HIDE DEF v
    <2>5. v = [j \in 0 .. k |-> IF j = 0 THEN Whole(m) ELSE Move(v[j - 1], to[j], from[j])]
      BY <2>3, <2>4
    <2>6. Copies(m, to, from, k, v)
      BY <2>5 DEF Copies
    <2>7. QED
      BY <2>6
  <1> HIDE DEF S
  <1>3. n \in S
    BY <1>1, <1>2, Rounds
  <1>4. QED
    BY <1>3 DEF S

\* The loops of memcpy and memmove are among them, Upwards and Downwards, as
\* Klibc defines them.
Ascends(m, d, s, n, w) ==
    w = [k \in 0 .. n |-> IF k = 0 THEN Whole(m) ELSE Move(w[k - 1], d + k - 1, s + k - 1)]

\* What the first round of Upwards is and each makes of the one before.
LEMMA UpwardsIs ==
    ASSUME NEW m, NEW d \in Int, NEW s \in Int, NEW n \in Nat
    PROVE  /\ Upwards(m, d, s, n)[0] = Whole(m)
           /\ \A k \in 1 .. n : Upwards(m, d, s, n)[k] = Move(Upwards(m, d, s, n)[k - 1], d + k - 1, s + k - 1)
  <1> DEFINE to == [k \in 1 .. n |-> d + k - 1]
             from == [k \in 1 .. n |-> s + k - 1]
  <1>1. PICK w : Copies(m, to, from, n, w)
    BY CopiesExist
  <1>2. \A k \in 1 .. n : to[k] = d + k - 1 /\ from[k] = s + k - 1
    OBVIOUS
  <1> HIDE DEF to, from
  <1>3. Ascends(m, d, s, n, w)
    <2>1. /\ DOMAIN w = 0 .. n /\ w = [k \in 0 .. n |-> w[k]]
          /\ \A k \in 0 .. n : w[k] = IF k = 0 THEN Whole(m) ELSE Move(w[k - 1], to[k], from[k])
      BY <1>1 DEF Copies
    <2>2. ASSUME NEW k \in 0 .. n
          PROVE  w[k] = IF k = 0 THEN Whole(m) ELSE Move(w[k - 1], d + k - 1, s + k - 1)
      <3>1. CASE k = 0
        BY <2>1, <3>1
      <3>2. CASE k # 0
        <4>1. k \in 1 .. n
          BY <3>2
        <4>2. w[k] = Move(w[k - 1], to[k], from[k])
          BY <2>1, <3>2
        <4>3. QED
          BY <1>2, <3>2, <4>1, <4>2
      <3>3. QED
        BY <3>1, <3>2
    <2>3. QED
      BY <2>1, <2>2 DEF Ascends
  <1>4. Upwards(m, d, s, n) = CHOOSE v : Ascends(m, d, s, n, v)
    BY DEF Upwards, Ascends
  <1> DEFINE u == Upwards(m, d, s, n)
  <1>5. Ascends(m, d, s, n, u)
    BY <1>3, <1>4, Zenon
  <1> HIDE DEF u
  <1>6. u[0] = Whole(m) /\ \A k \in 1 .. n : u[k] = Move(u[k - 1], d + k - 1, s + k - 1)
    BY <1>5 DEF Ascends
  <1>7. QED
    BY <1>6 DEF u

\* A copy loop whose rounds go down from the end.
Descends(m, d, s, n, w) ==
    w = [k \in 0 .. n |-> IF k = 0 THEN Whole(m) ELSE Move(w[k - 1], d + n - k, s + n - k)]

\* The same of Downwards.
LEMMA DownwardsIs ==
    ASSUME NEW m, NEW d \in Int, NEW s \in Int, NEW n \in Nat
    PROVE  /\ Downwards(m, d, s, n)[0] = Whole(m)
           /\ \A k \in 1 .. n : Downwards(m, d, s, n)[k] = Move(Downwards(m, d, s, n)[k - 1], d + n - k, s + n - k)
  <1> DEFINE to == [k \in 1 .. n |-> d + n - k]
             from == [k \in 1 .. n |-> s + n - k]
  <1>1. PICK w : Copies(m, to, from, n, w)
    BY CopiesExist
  <1>2. \A k \in 1 .. n : to[k] = d + n - k /\ from[k] = s + n - k
    OBVIOUS
  <1> HIDE DEF to, from
  <1>3. Descends(m, d, s, n, w)
    <2>1. /\ DOMAIN w = 0 .. n /\ w = [k \in 0 .. n |-> w[k]]
          /\ \A k \in 0 .. n : w[k] = IF k = 0 THEN Whole(m) ELSE Move(w[k - 1], to[k], from[k])
      BY <1>1 DEF Copies
    <2>2. ASSUME NEW k \in 0 .. n
          PROVE  w[k] = IF k = 0 THEN Whole(m) ELSE Move(w[k - 1], d + n - k, s + n - k)
      <3>1. CASE k = 0
        BY <2>1, <3>1
      <3>2. CASE k # 0
        <4>1. k \in 1 .. n
          BY <3>2
        <4>2. w[k] = Move(w[k - 1], to[k], from[k])
          BY <2>1, <3>2
        <4>3. QED
          BY <1>2, <3>2, <4>1, <4>2
      <3>3. QED
        BY <3>1, <3>2
    <2>3. QED
      BY <2>1, <2>2 DEF Descends
  <1>4. Downwards(m, d, s, n) = CHOOSE v : Descends(m, d, s, n, v)
    BY DEF Downwards, Descends
  <1> DEFINE u == Downwards(m, d, s, n)
  <1>5. Descends(m, d, s, n, u)
    BY <1>3, <1>4, Zenon
  <1> HIDE DEF u
  <1>6. u[0] = Whole(m) /\ \A k \in 1 .. n : u[k] = Move(u[k - 1], d + n - k, s + n - k)
    BY <1>5 DEF Descends
  <1>7. QED
    BY <1>6 DEF u

\* What a function leaves is a memory of z bytes and whether it was left.
Typed(z, B, w) ==
    w.mem \in [1 .. z -> B] /\ w.off \in BOOLEAN /\ w = [mem |-> w.mem, off |-> w.off]

\* v is f after a store of the byte at b at a.
Stored(z, f, adr, b, v) == v = [x \in 1 .. z |-> IF x = adr THEN f[b] ELSE f[x]]

\* One store: it leaves the memory iff one of its addresses does.
LEMMA MoveLeaves ==
    ASSUME NEW z \in Nat, NEW B, NEW w, Typed(z, B, w), NEW d \in Int, NEW s \in Int
    PROVE  /\ Typed(z, B, Move(w, d, s))
           /\ Move(w, d, s).off <=> w.off \/ d \notin 1 .. z \/ s \notin 1 .. z
           /\ ~Move(w, d, s).off => Stored(z, w.mem, d, s, Move(w, d, s).mem)
  <1> DEFINE m == w.mem
             o == w.off
  <1>1. m \in [1 .. z -> B] /\ o \in BOOLEAN /\ w = [mem |-> m, off |-> o]
    BY DEF Typed
  <1> HIDE DEF m, o
  <1>2. CASE o \/ d \notin 1 .. z \/ s \notin 1 .. z
    <2>1. Move(w, d, s) = [mem |-> m, off |-> TRUE]
      BY <1>1, <1>2 DEF Move
    <2> DEFINE v == Move(w, d, s)
    <2>2. v = [mem |-> m, off |-> TRUE] /\ v.mem = m /\ v.off = TRUE
      BY <2>1
    <2> HIDE DEF v
    <2>3. Typed(z, B, v)
      BY <1>1, <2>2 DEF Typed
    <2>4. QED
      BY <1>2, <2>2, <2>3 DEF v, o
  <1>3. CASE ~(o \/ d \notin 1 .. z \/ s \notin 1 .. z)
    <2>1. Move(w, d, s) = [mem |-> [m EXCEPT ![d] = m[s]], off |-> o]
      BY <1>1, <1>3 DEF Move
    <2> DEFINE v == [m EXCEPT ![d] = m[s]]
    <2>2. v \in [1 .. z -> B] /\ v = [adr \in 1 .. z |-> IF adr = d THEN m[s] ELSE m[adr]]
      BY <1>1, <1>3
    <2> HIDE DEF v
    <2>3. Move(w, d, s) = [mem |-> v, off |-> o]
      BY <2>1 DEF v
    <2> DEFINE x == Move(w, d, s)
    <2>4. x = [mem |-> v, off |-> o] /\ x.mem = v /\ x.off = o
      BY <2>3
    <2> HIDE DEF x
    <2>5. Typed(z, B, x)
      BY <1>1, <2>2, <2>4 DEF Typed
    <2>6. QED
      BY <1>3, <2>2, <2>4, <2>5 DEF x, o, m, Stored
  <1>4. QED
    BY <1>2, <1>3

\* m with the bytes at lo .. hi copied from the same distance behind s as they
\* are behind d.
Copied(m, d, s, lo, hi) == [adr \in DOMAIN m |-> IF adr \in lo .. hi THEN m[s + (adr - d)] ELSE m[adr]]

\* The addresses lo2 .. hi2 are lo .. hi and one more, a.
Wider(lo, hi, adr, lo2, hi2) == lo2 .. hi2 = (lo .. hi) \cup {adr}

\* A store of one more byte, from outside what was written, copies more.
LEMMA CopiedMore ==
    ASSUME NEW z \in Nat, NEW m, DOMAIN m = 1 .. z, NEW d \in 1 .. z, NEW s \in 1 .. z,
           NEW l \in Int, NEW h \in Int, NEW f, f = Copied(m, d, s, l, h),
           NEW at \in 1 .. z, NEW src \in 1 .. z, src = s + (at - d), src \notin l .. h,
           NEW g, Stored(z, f, at, src, g),
           NEW low \in Int, NEW high \in Int, Wider(l, h, at, low, high)
    PROVE  g = Copied(m, d, s, low, high)
  <1>1. \A adr \in 1 .. z : f[adr] = IF adr \in l .. h THEN m[s + (adr - d)] ELSE m[adr]
    BY DEF Copied
  <1>2. f[src] = m[s + (at - d)]
    BY <1>1
  <1>3. ASSUME NEW adr \in 1 .. z
        PROVE  g[adr] = IF adr \in low .. high THEN m[s + (adr - d)] ELSE m[adr]
    BY <1>1, <1>2 DEF Stored, Wider
  <1>4. DOMAIN m = 1 .. z /\ g = [adr \in 1 .. z |-> g[adr]]
    BY DEF Stored
  <1>5. QED
    BY <1>3, <1>4 DEF Copied

\* A loop upwards reads no byte that it has written unless its source begins
\* before its destination and reaches it.
RunsInto(d, s, n) == s < d /\ d < s + n
Climbed(z, B, m, d, s, k, w) ==
    /\ Typed(z, B, w)
    /\ w.off <=> d + k - 1 > z \/ s + k - 1 > z
    /\ ~w.off /\ ~RunsInto(d, s, k) => w.mem = Copied(m, d, s, d, d + k - 1)

\* What k rounds upwards leave.
LEMMA UpwardsCopies ==
    ASSUME NEW z \in Nat, NEW B, NEW m \in [1 .. z -> B], NEW d \in 1 .. z, NEW s \in 1 .. z, NEW n \in Nat
    PROVE  \A k \in 0 .. n : Climbed(z, B, m, d, s, k, Upwards(m, d, s, n)[k])
  <1> DEFINE u == Upwards(m, d, s, n)
             S == {k \in 0 .. n : Climbed(z, B, m, d, s, k, u[k])}
  <1>1. u[0] = Whole(m) /\ \A k \in 1 .. n : u[k] = Move(u[k - 1], d + k - 1, s + k - 1)
    BY UpwardsIs
  <1> HIDE DEF u
  <1>2. 0 \in S
    <2>1. u[0] = [mem |-> m, off |-> FALSE]
      BY <1>1 DEF Whole
    <2>2. m = Copied(m, d, s, d, d + 0 - 1)
      BY DEF Copied
    <2>3. u[0].mem = m /\ u[0].off = FALSE /\ Typed(z, B, u[0])
      BY <2>1 DEF Typed
    <2>4. QED
      BY <2>2, <2>3 DEF Climbed
  <1>3. ASSUME NEW k \in 1 .. n, k - 1 \in S PROVE k \in S
    <2> DEFINE w == u[k - 1]
               a0 == d + k - 1
               b0 == s + k - 1
               v == u[k]
    <2>1. Climbed(z, B, m, d, s, k - 1, w)
      BY <1>3
    <2>2. /\ Typed(z, B, v)
          /\ v.off <=> w.off \/ a0 \notin 1 .. z \/ b0 \notin 1 .. z
          /\ ~v.off => Stored(z, w.mem, a0, b0, v.mem)
      <3>1. v = Move(w, a0, b0)
        BY <1>1
      <3>2. Typed(z, B, w) /\ a0 \in Int /\ b0 \in Int
        BY <2>1 DEF Climbed
      <3> HIDE DEF v, w, a0, b0
      <3>3. QED
        BY <3>1, <3>2, MoveLeaves
    <2> HIDE DEF v, w
    <2>3. w.off <=> d + (k - 1) - 1 > z \/ s + (k - 1) - 1 > z
      BY <2>1 DEF Climbed
    <2>4. v.off <=> d + k - 1 > z \/ s + k - 1 > z
      BY <2>2, <2>3
    <2>5. ASSUME ~v.off, ~RunsInto(d, s, k) PROVE v.mem = Copied(m, d, s, d, d + k - 1)
      <3>1. ~w.off /\ ~RunsInto(d, s, k - 1)
        BY <2>2, <2>5 DEF RunsInto
      <3>2. w.mem = Copied(m, d, s, d, d + (k - 1) - 1)
        BY <2>1, <3>1 DEF Climbed
      <3>3. /\ a0 \in 1 .. z /\ b0 = s + (a0 - d) /\ s + (a0 - d) \in 1 .. z
            /\ s + (a0 - d) \notin d .. d + (k - 1) - 1
            /\ d .. d + k - 1 = (d .. d + (k - 1) - 1) \cup {a0}
        BY <2>4, <2>5 DEF RunsInto
      <3> HIDE DEF a0, b0
      <3> DEFINE lo == d
                 hi == d + (k - 1) - 1
                 lo2 == d
                 hi2 == d + k - 1
      <3>4. /\ lo \in Int /\ hi \in Int /\ lo2 \in Int /\ hi2 \in Int
            /\ b0 \notin lo .. hi /\ Wider(lo, hi, a0, lo2, hi2) /\ b0 \in 1 .. z
        BY <3>3 DEF Wider
      <3>5. w.mem = Copied(m, d, s, lo, hi)
        BY <3>2
      <3>6. Stored(z, w.mem, a0, b0, v.mem)
        BY <2>2, <2>5
      <3> HIDE DEF lo, hi, lo2, hi2
      <3>7. v.mem = Copied(m, d, s, lo2, hi2)
        BY <3>3, <3>4, <3>5, <3>6, DOMAIN m = 1 .. z, CopiedMore
      <3>8. QED
        BY <3>7 DEF lo2, hi2
    <2>6. Climbed(z, B, m, d, s, k, v)
      BY <2>2, <2>4, <2>5 DEF Climbed
    <2>7. QED
      BY <2>6 DEF v
  <1> HIDE DEF S
  <1>4. \A k \in 0 .. n : k \in S
    BY <1>2, <1>3, Rounds
  <1>5. QED
    BY <1>4 DEF S, u

\* A loop downwards whose source begins before its destination reads no byte
\* that it has written.
Sunk(z, B, m, d, s, n, k, w) ==
    /\ Typed(z, B, w)
    /\ w.off <=> k > 0 /\ d + n - 1 > z
    /\ ~w.off => w.mem = Copied(m, d, s, d + n - k, d + n - 1)

\* What k rounds downwards leave.
LEMMA DownwardsCopies ==
    ASSUME NEW z \in Nat, NEW B, NEW m \in [1 .. z -> B], NEW d \in 1 .. z, NEW s \in 1 .. z, s < d, NEW n \in Nat
    PROVE  \A k \in 0 .. n : Sunk(z, B, m, d, s, n, k, Downwards(m, d, s, n)[k])
  <1> DEFINE u == Downwards(m, d, s, n)
             S == {k \in 0 .. n : Sunk(z, B, m, d, s, n, k, u[k])}
  <1>1. u[0] = Whole(m) /\ \A k \in 1 .. n : u[k] = Move(u[k - 1], d + n - k, s + n - k)
    BY DownwardsIs
  <1> HIDE DEF u
  <1>2. 0 \in S
    <2>1. u[0] = [mem |-> m, off |-> FALSE]
      BY <1>1 DEF Whole
    <2>2. m = Copied(m, d, s, d + n - 0, d + n - 1)
      BY DEF Copied
    <2>3. u[0].mem = m /\ u[0].off = FALSE /\ Typed(z, B, u[0])
      BY <2>1 DEF Typed
    <2>4. QED
      BY <2>2, <2>3 DEF Sunk
  <1>3. ASSUME NEW k \in 1 .. n, k - 1 \in S PROVE k \in S
    <2> DEFINE w == u[k - 1]
               a0 == d + n - k
               b0 == s + n - k
               v == u[k]
    <2>1. Sunk(z, B, m, d, s, n, k - 1, w)
      BY <1>3
    <2>2. /\ Typed(z, B, v)
          /\ v.off <=> w.off \/ a0 \notin 1 .. z \/ b0 \notin 1 .. z
          /\ ~v.off => Stored(z, w.mem, a0, b0, v.mem)
      <3>1. v = Move(w, a0, b0)
        BY <1>1
      <3>2. Typed(z, B, w) /\ a0 \in Int /\ b0 \in Int
        BY <2>1 DEF Sunk
      <3> HIDE DEF v, w, a0, b0
      <3>3. QED
        BY <3>1, <3>2, MoveLeaves
    <2> HIDE DEF v, w
    <2>3. w.off <=> k - 1 > 0 /\ d + n - 1 > z
      BY <2>1 DEF Sunk
    <2>4. v.off <=> k > 0 /\ d + n - 1 > z
      BY <2>2, <2>3
    <2>5. ASSUME ~v.off PROVE v.mem = Copied(m, d, s, d + n - k, d + n - 1)
      <3>1. ~w.off
        BY <2>2, <2>5
      <3>2. w.mem = Copied(m, d, s, d + n - (k - 1), d + n - 1)
        BY <2>1, <3>1 DEF Sunk
      <3>3. /\ a0 \in 1 .. z /\ b0 = s + (a0 - d) /\ s + (a0 - d) \in 1 .. z
            /\ s + (a0 - d) \notin d + n - (k - 1) .. d + n - 1
            /\ d + n - k .. d + n - 1 = (d + n - (k - 1) .. d + n - 1) \cup {a0}
        BY <2>4, <2>5
      <3> HIDE DEF a0, b0
      <3> DEFINE lo == d + n - (k - 1)
                 hi == d + n - 1
                 lo2 == d + n - k
                 hi2 == d + n - 1
      <3>4. /\ lo \in Int /\ hi \in Int /\ lo2 \in Int /\ hi2 \in Int
            /\ b0 \notin lo .. hi /\ Wider(lo, hi, a0, lo2, hi2) /\ b0 \in 1 .. z
        BY <3>3 DEF Wider
      <3>5. w.mem = Copied(m, d, s, lo, hi)
        BY <3>2
      <3>6. Stored(z, w.mem, a0, b0, v.mem)
        BY <2>2, <2>5
      <3> HIDE DEF lo, hi, lo2, hi2
      <3>7. v.mem = Copied(m, d, s, lo2, hi2)
        BY <3>3, <3>4, <3>5, <3>6, DOMAIN m = 1 .. z, CopiedMore
      <3>8. QED
        BY <3>7 DEF lo2, hi2
    <2>6. Sunk(z, B, m, d, s, n, k, v)
      BY <2>2, <2>4, <2>5 DEF Sunk
    <2>7. QED
      BY <2>6 DEF v
  <1> HIDE DEF S
  <1>4. \A k \in 0 .. n : k \in S
    BY <1>2, <1>3, Rounds
  <1>5. QED
    BY <1>4 DEF S, u

\* A string from s to its NUL at e.
StringTo(m, s, e) == e \in s .. Len(m) /\ m[e] = NUL /\ \A h \in s .. e - 1 : m[h] # NUL

\* What End returns is the NUL of a string.
LEMMA EndIs ==
    ASSUME NEW m, Len(m) \in Nat, NEW s \in Nat, End(m, s) # None
    PROVE  StringTo(m, s, End(m, s))
  <1> DEFINE S == {k \in s .. Len(m) : m[k] = NUL}
  <1>1. S # {}
    <2>1. SUFFICES ASSUME S = {} PROVE FALSE
      OBVIOUS
    <2>2. \A k \in s .. Len(m) : m[k] # NUL
      BY <2>1
    <2>3. End(m, s) = None
      BY <2>2 DEF End, FirstIn
    <2>4. QED
      BY <2>3
  <1>2. S \subseteq Nat
    OBVIOUS
  <1>3. PICK e \in S : \A h \in S : e <= h
    BY <1>1, <1>2, Least, Zenon
  <1>4. e \in s .. Len(m) /\ m[e] = NUL /\ \A h \in s .. e - 1 : m[h] # NUL
    BY <1>3
  <1>5. End(m, s) = e
    BY <1>4, EndFound
  <1>6. QED
    BY <1>4, <1>5 DEF StringTo

\* The round of the copy loop that copies the NUL.
EndsAt(w, d, k) == ~w[k].off /\ w[k].mem[d + k - 1] = NUL
LastRound(w, d, n) ==
    IF \E k \in 1 .. n : EndsAt(w, d, k)
      THEN CHOOSE k \in 1 .. n : EndsAt(w, d, k) /\ \A h \in 1 .. k - 1 : ~EndsAt(w, d, h)
      ELSE None

\* The copy loop of the string functions stops at LastRound.
LEMMA StringCopyIs ==
    ASSUME NEW m, NEW d, NEW s, NEW n
    PROVE  StringCopy(m, d, s, n) =
              IF LastRound(Upwards(m, d, s, n), d, n) = None
                THEN [k |-> n, nul |-> FALSE, left |-> Upwards(m, d, s, n)[n]]
                ELSE [k |-> LastRound(Upwards(m, d, s, n), d, n), nul |-> TRUE,
                      left |-> Upwards(m, d, s, n)[LastRound(Upwards(m, d, s, n), d, n)]]
  BY DEF StringCopy, FirstIn, LastRound, EndsAt

\* There is none if no round copies a NUL; there is one otherwise, the first.
LEMMA NoLastRound ==
    ASSUME NEW w, NEW d, NEW n, \A k \in 1 .. n : ~EndsAt(w, d, k)
    PROVE  LastRound(w, d, n) = None
  BY DEF LastRound

\* The first round that copies a NUL is the last.
LEMMA LastRoundIs ==
    ASSUME NEW w, NEW d, NEW n \in Nat, NEW k \in 1 .. n, EndsAt(w, d, k), \A h \in 1 .. k - 1 : ~EndsAt(w, d, h)
    PROVE  LastRound(w, d, n) = k
  <1>1. \A j \in 1 .. n : EndsAt(w, d, j) /\ (\A h \in 1 .. j - 1 : ~EndsAt(w, d, h)) => j = k
    OBVIOUS
  <1>2. QED
    BY <1>1 DEF LastRound

\* It is one of the n.
LEMMA LastRoundIn ==
    ASSUME NEW w, NEW d, NEW n \in Nat, LastRound(w, d, n) # None
    PROVE  LastRound(w, d, n) \in 1 .. n
  <1> DEFINE S == {k \in 1 .. n : EndsAt(w, d, k)}
  <1>1. S # {} /\ S \subseteq Nat
    BY NoLastRound
  <1>2. PICK e \in S : \A h \in S : e <= h
    BY <1>1, Least, Zenon
  <1>3. e \in 1 .. n /\ EndsAt(w, d, e) /\ \A h \in 1 .. e - 1 : ~EndsAt(w, d, h)
    BY <1>2
  <1>4. QED
    BY <1>3, LastRoundIs

\* Whatever runs into what, the copy loop leaves a memory of the same bytes.
LEMMA StringCopyTyped ==
    ASSUME NEW z \in Nat, NEW B, NEW m \in [1 .. z -> B], NEW d \in 1 .. z, NEW s \in 1 .. z, NEW n \in Nat
    PROVE  /\ Typed(z, B, StringCopy(m, d, s, n).left)
           /\ StringCopy(m, d, s, n).k \in 0 .. n
           /\ StringCopy(m, d, s, n).nul \in BOOLEAN
  <1> DEFINE w == Upwards(m, d, s, n)
             l == LastRound(w, d, n)
             c == StringCopy(m, d, s, n)
  <1>1. \A k \in 0 .. n : Typed(z, B, w[k])
    BY UpwardsCopies DEF Climbed
  <1>2. c = IF l = None THEN [k |-> n, nul |-> FALSE, left |-> w[n]] ELSE [k |-> l, nul |-> TRUE, left |-> w[l]]
    BY StringCopyIs
  <1>3. l # None => l \in 1 .. n
    BY LastRoundIn
  <1> HIDE DEF w, l, c
  <1>4. CASE l = None
    BY <1>1, <1>2, <1>4 DEF c
  <1>5. CASE l # None
    <2>1. l \in 0 .. n
      BY <1>3, <1>5
    <2>2. QED
      BY <1>1, <1>2, <1>5, <2>1 DEF c
  <1>6. QED
    BY <1>4, <1>5

\* The bytes that the copy loop is to copy of a string from s to e.
Count(s, e, n) == IF n <= e - s THEN n ELSE e - s + 1
Separate(d, s, e, n) == d + Count(s, e, n) - 1 < s \/ e < d

\* k rounds have copied k bytes or left the memory.
CopiedBy(z, m, d, s, k, w) ==
    /\ w.off <=> d + k - 1 > z
    /\ ~w.off => w.mem = Copied(m, d, s, d, d + k - 1)

\* What a copy loop is to leave that does not run into its string.
CopyEnds(z, m, d, s, e, n) ==
    /\ d + Count(s, e, n) - 1 <= z =>
        /\ StringCopy(m, d, s, n).k = Count(s, e, n)
        /\ (StringCopy(m, d, s, n).nul <=> n > e - s)
        /\ StringCopy(m, d, s, n).left = [mem |-> Copied(m, d, s, d, d + Count(s, e, n) - 1), off |-> FALSE]
    /\ d + Count(s, e, n) - 1 > z =>
        StringCopy(m, d, s, n).left.off = TRUE /\ StringCopy(m, d, s, n).nul = FALSE

\* The copy loop reads the string as it stood and stops at its NUL.
LEMMA StringCopied ==
    ASSUME NEW z \in Nat, NEW B, NEW m \in [1 .. z -> B], NEW d \in 1 .. z, NEW s \in 1 .. z, NEW n \in Nat,
           NEW e, StringTo(m, s, e), Separate(d, s, e, n)
    PROVE  CopyEnds(z, m, d, s, e, n)
  <1> DEFINE w == Upwards(m, d, s, n)
             l == LastRound(w, d, n)
             c == Count(s, e, n)
             r == StringCopy(m, d, s, n)
  <1>0. Len(m) = z /\ DOMAIN m = 1 .. z
    <2>1. m \in Seq(B) /\ DOMAIN m = 1 .. z
      OBVIOUS
    <2>2. QED
      BY <2>1, LenProperties
  <1>1. e \in s .. z /\ m[e] = NUL /\ \A h \in s .. e - 1 : m[h] # NUL
    BY <1>0 DEF StringTo
  <1>2. c \in 0 .. n /\ c <= e - s + 1 /\ (c = n \/ c = e - s + 1) /\ (n > e - s <=> c = e - s + 1)
    <2>1. c = IF n <= e - s THEN n ELSE e - s + 1
      BY DEF Count
    <2>2. QED
      BY <1>1, <2>1
  <1>3. d + c - 1 < s \/ e < d
    BY DEF Separate
  <1>4. r = IF l = None THEN [k |-> n, nul |-> FALSE, left |-> w[n]] ELSE [k |-> l, nul |-> TRUE, left |-> w[l]]
    BY StringCopyIs
  <1>5. \A k \in 0 .. n : Climbed(z, B, m, d, s, k, w[k])
    BY UpwardsCopies
  <1> HIDE DEF w, r, c
  <1>6. ASSUME NEW k \in 0 .. c
        PROVE  Typed(z, B, w[k]) /\ CopiedBy(z, m, d, s, k, w[k])
    <2>1. Climbed(z, B, m, d, s, k, w[k]) /\ ~(s + k - 1 > z) /\ ~RunsInto(d, s, k)
      BY <1>1, <1>2, <1>3, <1>5, <1>6 DEF RunsInto
    <2>2. QED
      BY <2>1 DEF Climbed, CopiedBy
  <1>7. ASSUME NEW k \in 1 .. c
        PROVE  EndsAt(w, d, k) <=> d + k - 1 <= z /\ k = e - s + 1
    <2>1. k \in 0 .. c
      BY <1>2
    <2>2. CASE d + k - 1 > z
      BY <1>6, <2>1, <2>2 DEF EndsAt, CopiedBy
    <2>3. CASE d + k - 1 <= z
      <3>1. ~w[k].off /\ w[k].mem = Copied(m, d, s, d, d + k - 1)
        BY <1>6, <2>1, <2>3 DEF CopiedBy
      <3>2. Copied(m, d, s, d, d + k - 1)[d + k - 1] = m[s + ((d + k - 1) - d)]
        BY <1>0, <2>3 DEF Copied
      <3>3. s + ((d + k - 1) - d) = s + k - 1
        BY <1>1
      <3>4. EndsAt(w, d, k) <=> m[s + k - 1] = NUL
        BY <3>1, <3>2, <3>3 DEF EndsAt
      <3>5. m[s + k - 1] = NUL <=> k = e - s + 1
        BY <1>1, <1>2
      <3>6. QED
        BY <2>3, <3>4, <3>5
    <2>4. QED
      BY <1>2, <2>2, <2>3
  <1>8. CASE d + c - 1 > z
    <2>1. \A k \in 1 .. n : ~EndsAt(w, d, k)
      <3>1. TAKE k \in 1 .. n
      <3>2. CASE k <= c
        <4>1. k \in 1 .. c
          BY <1>2, <3>2
        <4>2. QED
          BY <1>2, <1>7, <1>8, <4>1
      <3>3. CASE k > c
        <4>1. k \in 0 .. n /\ d + k - 1 > z
          BY <1>2, <1>8, <3>3
        <4>2. w[k].off
          BY <1>5, <4>1 DEF Climbed
        <4>3. QED
          BY <4>2 DEF EndsAt
      <3>4. QED
        BY <1>2, <3>2, <3>3
    <2>2. l = None
      BY <2>1, NoLastRound
    <2>3. d + n - 1 > z /\ n \in 0 .. n
      BY <1>2, <1>8
    <2>4. w[n].off /\ w[n].off \in BOOLEAN
      BY <1>5, <2>3 DEF Climbed, Typed
    <2>5. r.left.off = TRUE /\ r.nul = FALSE
      BY <1>4, <2>2, <2>4
    <2>6. QED
      BY <1>2, <1>8, <2>5 DEF r, c, CopyEnds
  <1>9. CASE d + c - 1 <= z /\ n <= e - s
    <2>1. c = n
      BY <1>2, <1>9, <1>1
    <2>2. \A k \in 1 .. n : ~EndsAt(w, d, k)
      BY <1>1, <1>7, <1>9, <2>1
    <2>3. l = None
      BY <2>2, NoLastRound
    <2>4. w[n] = [mem |-> Copied(m, d, s, d, d + c - 1), off |-> FALSE]
      <3>1. Typed(z, B, w[n]) /\ CopiedBy(z, m, d, s, n, w[n]) /\ ~(d + n - 1 > z)
        BY <1>1, <1>2, <1>6, <1>9, <2>1
      <3> DEFINE v == w[n]
      <3>2. v.off = FALSE /\ v.mem = Copied(m, d, s, d, d + c - 1) /\ v = [mem |-> v.mem, off |-> v.off]
        BY <3>1, <2>1 DEF Typed, CopiedBy
      <3> HIDE DEF v
      <3>3. v = [mem |-> Copied(m, d, s, d, d + c - 1), off |-> FALSE]
        BY <3>2
      <3>4. QED
        BY <3>3 DEF v
    <2>5. r = [k |-> c, nul |-> FALSE, left |-> [mem |-> Copied(m, d, s, d, d + c - 1), off |-> FALSE]]
      BY <1>4, <2>1, <2>3, <2>4
    <2>6. (n > e - s) = FALSE /\ ~(d + c - 1 > z)
      BY <1>1, <1>2, <1>9
    <2>7. /\ r.k = c /\ r.nul = FALSE
          /\ r.left = [mem |-> Copied(m, d, s, d, d + c - 1), off |-> FALSE]
      BY <2>5
    <2>8. QED
      BY <2>6, <2>7 DEF r, c, CopyEnds
  <1>10. CASE d + c - 1 <= z /\ n > e - s
    <2>1. c = e - s + 1 /\ c \in 1 .. n /\ c \in 1 .. c /\ c \in 0 .. c
      BY <1>1, <1>2, <1>10
    <2>2. EndsAt(w, d, c)
      BY <1>7, <1>10, <2>1
    <2>3. \A h \in 1 .. c - 1 : ~EndsAt(w, d, h)
      BY <1>1, <1>7, <2>1
    <2>4. l = c
      BY <2>1, <2>2, <2>3, LastRoundIs
    <2>5. l # None
      BY <2>1, <2>4 DEF None
    <2>6. w[c] = [mem |-> Copied(m, d, s, d, d + c - 1), off |-> FALSE]
      <3>1. Typed(z, B, w[c]) /\ CopiedBy(z, m, d, s, c, w[c]) /\ ~(d + c - 1 > z)
        BY <1>1, <1>2, <1>6, <1>10, <2>1
      <3> DEFINE v == w[c]
      <3>2. v.off = FALSE /\ v.mem = Copied(m, d, s, d, d + c - 1) /\ v = [mem |-> v.mem, off |-> v.off]
        BY <3>1 DEF Typed, CopiedBy
      <3> HIDE DEF v
      <3>3. v = [mem |-> Copied(m, d, s, d, d + c - 1), off |-> FALSE]
        BY <3>2
      <3>4. QED
        BY <3>3 DEF v
    <2>7. r = [k |-> c, nul |-> TRUE, left |-> [mem |-> Copied(m, d, s, d, d + c - 1), off |-> FALSE]]
      BY <1>4, <2>4, <2>5, <2>6
    <2>8. (n > e - s) = TRUE /\ ~(d + c - 1 > z)
      BY <1>1, <1>2, <1>10
    <2>9. /\ r.k = c /\ r.nul = TRUE
          /\ r.left = [mem |-> Copied(m, d, s, d, d + c - 1), off |-> FALSE]
      BY <2>7
    <2>10. QED
      BY <2>8, <2>9 DEF r, c, CopyEnds
  <1>11. d + c - 1 > z \/ (d + c - 1 <= z /\ (n <= e - s \/ n > e - s))
    BY <1>1, <1>2
  <1>12. QED
    BY <1>8, <1>9, <1>10, <1>11

\* What a caller of the library may have called.
CallOK ==
    \/ call.op = "none" /\ call = Idle
    \/ call.op \in {"memcpy", "memmove", "strncpy"} /\ call.d \in Addr /\ call.s \in Addr /\ call.n \in Lengths
    \/ /\ call.op = "strncat" /\ call.d \in Addr /\ call.s \in Addr /\ call.n \in Lengths
       /\ End(memory, call.d) # None
    \/ call.op = "strcpy" /\ call.d \in Addr /\ call.s \in Addr
    \/ call.op = "strcat" /\ call.d \in Addr /\ call.s \in Addr /\ End(memory, call.d) # None
    \/ call.op = "memset" /\ call.d \in Addr /\ call.value \in Bytes /\ call.n \in Lengths
    \/ call.op \in {"to_string", "to_hstring"}

\* The inductive invariant.
LibInv == LibTypeOK /\ CallOK

\* What the assumption says of the memory and its bytes.
LEMMA Sizes ==
    Size \in Nat /\ 1 \in 1 .. Size /\ MaxLength \in Nat /\ NUL \in Bytes /\ Bytes \subseteq 0 .. 255
  BY LibraryAssumption

\* A memory is a sequence of Size bytes.
LEMMA MemoryIs ==
    ASSUME NEW m \in [Addr -> Bytes]
    PROVE  /\ m \in [1 .. Size -> Bytes] /\ Size \in Nat /\ Len(m) = Size /\ Len(m) \in Nat
           /\ DOMAIN m = 1 .. Size /\ Addr = 1 .. Size /\ m \in Seq(Bytes)
  <1>1. Size \in Nat /\ m \in [1 .. Size -> Bytes] /\ Addr = 1 .. Size
    BY Sizes DEF Addr
  <1>2. m \in Seq(Bytes) /\ DOMAIN m = 1 .. Size
    BY <1>1
  <1>3. Len(m) = Size
    BY <1>1, <1>2
  <1>4. QED
    BY <1>1, <1>2, <1>3

\* The lengths of calls are numbers.
LEMMA LengthsIs == Lengths \subseteq Nat
  BY Sizes DEF Lengths

\* The memory with n bytes set from d on.
FilledWith(m, d, b, n) == [adr \in Addr |-> IF adr \in d .. d + n - 1 THEN b ELSE m[adr]]

\* What memset leaves.
LEMMA MemsetLeaves ==
    ASSUME NEW m \in [Addr -> Bytes], NEW d \in Nat, NEW b \in Bytes, NEW n \in Nat
    PROVE  /\ Typed(Size, Bytes, memset(m, d, b, n))
           /\ memset(m, d, b, n).mem = FilledWith(m, d, b, n)
           /\ memset(m, d, b, n).off <=> ~(d .. d + n - 1 \subseteq Addr)
  <1> DEFINE v == [adr \in DOMAIN m |-> IF adr \in d .. d + n - 1 THEN b ELSE m[adr]]
             o == ~(d .. d + n - 1 \subseteq DOMAIN m)
             w == memset(m, d, b, n)
  <1>1. v \in [1 .. Size -> Bytes] /\ o \in BOOLEAN /\ DOMAIN m = Addr
    BY MemoryIs
  <1>2. w = [mem |-> v, off |-> o]
    BY DEF memset
  <1> HIDE DEF v, o, w, FilledWith
  <1>3. w.mem = v /\ w.off = o /\ Typed(Size, Bytes, w)
    BY <1>1, <1>2 DEF Typed
  <1>4. QED
    BY <1>1, <1>3 DEF v, o, w, FilledWith

\* What each function leaves is a memory of the same bytes.
LEMMA LeftTyped ==
    ASSUME NEW m \in [Addr -> Bytes], NEW d \in Addr, NEW s \in Addr, NEW n \in Nat
    PROVE  /\ Typed(Size, Bytes, memcpy(m, d, s, n))
           /\ Typed(Size, Bytes, memmove(m, d, s, n))
           /\ Typed(Size, Bytes, strcpy(m, d, s))
           /\ Typed(Size, Bytes, strncpy(m, d, s, n))
           /\ End(m, d) # None => Typed(Size, Bytes, strcat(m, d, s)) /\ Typed(Size, Bytes, strncat(m, d, s, n))
           /\ Typed(Size, Bytes, Whole(m))
  <1>1. /\ m \in [1 .. Size -> Bytes] /\ Size \in Nat /\ d \in 1 .. Size /\ s \in 1 .. Size
        /\ Len(m) = Size /\ Addr = 1 .. Size /\ n \in 0 .. n
    BY MemoryIs
  <1>2. Typed(Size, Bytes, Upwards(m, d, s, n)[n])
    BY <1>1, UpwardsCopies DEF Climbed
  <1>3. s < d => Typed(Size, Bytes, Downwards(m, d, s, n)[n])
    BY <1>1, DownwardsCopies DEF Sunk
  <1>4. Typed(Size, Bytes, memcpy(m, d, s, n)) /\ Typed(Size, Bytes, memmove(m, d, s, n))
    <2>1. d <= s \/ s < d
      BY <1>1
    <2>2. QED
      BY <1>2, <1>3, <2>1 DEF memcpy, memmove
  <1>5. \A x \in Addr, k \in Nat : Typed(Size, Bytes, StringCopy(m, x, s, k).left)
    BY <1>1, StringCopyTyped
  <1>6. Typed(Size, Bytes, strcpy(m, d, s))
    BY <1>1, <1>5 DEF strcpy
  <1>7. Typed(Size, Bytes, strncpy(m, d, s, n))
    <2> DEFINE c == StringCopy(m, d, s, n)
               l == c.left
    <2>1. Typed(Size, Bytes, l) /\ c.k \in 0 .. n
      BY <1>1, StringCopyTyped
    <2> HIDE DEF l
    <2>2. strncpy(m, d, s, n) = IF l.off \/ ~c.nul THEN [mem |-> l.mem, off |-> TRUE]
                                ELSE memset(l.mem, d + c.k, NUL, n - c.k)
      BY DEF strncpy, l
    <2> HIDE DEF c
    <2>3. CASE l.off \/ ~c.nul
      <3> DEFINE y == l.mem
      <3>1. l = [mem |-> y, off |-> l.off] /\ y \in [1 .. Size -> Bytes]
        BY <2>1 DEF Typed
      <3> HIDE DEF y
      <3> DEFINE x == [mem |-> y, off |-> TRUE]
      <3>2. x = [mem |-> y, off |-> TRUE] /\ x.mem = y /\ x.off = TRUE
        OBVIOUS
      <3> HIDE DEF x
      <3>4. Typed(Size, Bytes, x)
        BY <3>1, <3>2 DEF Typed
      <3>5. QED
        BY <2>2, <2>3, <3>4 DEF x, y
    <2>4. CASE ~(l.off \/ ~c.nul)
      <3>1. l.mem \in [Addr -> Bytes] /\ d + c.k \in Nat /\ NUL \in Bytes /\ n - c.k \in Nat
        BY <1>1, <2>1, Sizes DEF Typed
      <3>2. Typed(Size, Bytes, memset(l.mem, d + c.k, NUL, n - c.k))
        BY <3>1, MemsetLeaves
      <3>3. QED
        BY <2>2, <2>4, <3>2
    <2>5. QED
      BY <2>3, <2>4
  <1>8. ASSUME End(m, d) # None PROVE Typed(Size, Bytes, strcat(m, d, s)) /\ Typed(Size, Bytes, strncat(m, d, s, n))
    <2>1. StringTo(m, d, End(m, d))
      BY <1>1, <1>8, EndIs
    <2>2. End(m, d) \in Addr
      BY <1>1, <2>1 DEF StringTo
    <2>3. Len(m) + 1 \in Nat
      BY <1>1
    <2>4. QED
      BY <1>5, <2>2, <2>3 DEF strcat, strncat, strcpy
  <1>9. Typed(Size, Bytes, Whole(m))
    <2> DEFINE w == Whole(m)
    <2>1. w = [mem |-> m, off |-> FALSE] /\ w.mem = m /\ w.off = FALSE
      BY DEF Whole
    <2> HIDE DEF w
    <2>2. Typed(Size, Bytes, w)
      BY <1>1, <2>1 DEF Typed
    <2>3. QED
      BY <2>2 DEF w
  <1>10. QED
    BY <1>4, <1>6, <1>7, <1>8, <1>9

\* The return of a call keeps the invariant,
LEMMA AnswerTyped ==
    ASSUME LibInv, Answer
    PROVE  LibInv'
  <1>1. memory \in [Addr -> Bytes]
    BY DEF LibInv, LibTypeOK
  <1>2. \E left : Typed(Size, Bytes, left) /\ Leaves(left)
    <2>1. CASE call.op = "memcpy"
      <3>1. call.d \in Addr /\ call.s \in Addr /\ call.n \in Nat
        BY <2>1, LengthsIs DEF LibInv, CallOK
      <3>2. Typed(Size, Bytes, memcpy(memory, call.d, call.s, call.n))
        BY <1>1, <3>1, LeftTyped
      <3>3. QED
        BY <2>1, <3>2 DEF Answer
    <2>2. CASE call.op = "memmove"
      <3>1. call.d \in Addr /\ call.s \in Addr /\ call.n \in Nat
        BY <2>2, LengthsIs DEF LibInv, CallOK
      <3>2. Typed(Size, Bytes, memmove(memory, call.d, call.s, call.n))
        BY <1>1, <3>1, LeftTyped
      <3>3. QED
        BY <2>2, <3>2 DEF Answer
    <2>3. CASE call.op = "memset"
      <3>1. call.d \in Nat /\ call.value \in Bytes /\ call.n \in Nat
        BY <2>3, Sizes DEF LibInv, CallOK, Addr, Lengths
      <3>2. Typed(Size, Bytes, memset(memory, call.d, call.value, call.n))
        BY <1>1, <3>1, MemsetLeaves
      <3>3. QED
        BY <2>3, <3>2 DEF Answer
    <2>4. CASE call.op = "strcpy"
      <3>1. call.d \in Addr /\ call.s \in Addr /\ 0 \in Nat
        BY <2>4 DEF LibInv, CallOK
      <3>2. Typed(Size, Bytes, strcpy(memory, call.d, call.s))
        BY <1>1, <3>1, LeftTyped
      <3>3. QED
        BY <2>4, <3>2 DEF Answer
    <2>5. CASE call.op = "strncpy"
      <3>1. call.d \in Addr /\ call.s \in Addr /\ call.n \in Nat
        BY <2>5, LengthsIs DEF LibInv, CallOK
      <3>2. Typed(Size, Bytes, strncpy(memory, call.d, call.s, call.n))
        BY <1>1, <3>1, LeftTyped
      <3>3. QED
        BY <2>5, <3>2 DEF Answer
    <2>6. CASE call.op = "strcat"
      <3>1. call.d \in Addr /\ call.s \in Addr /\ End(memory, call.d) # None /\ 0 \in Nat
        BY <2>6 DEF LibInv, CallOK
      <3>2. Typed(Size, Bytes, strcat(memory, call.d, call.s))
        BY <1>1, <3>1, LeftTyped
      <3>3. QED
        BY <2>6, <3>2 DEF Answer
    <2>7. CASE call.op = "strncat"
      <3>1. call.d \in Addr /\ call.s \in Addr /\ call.n \in Nat /\ End(memory, call.d) # None
        BY <2>7, LengthsIs DEF LibInv, CallOK
      <3>2. Typed(Size, Bytes, strncat(memory, call.d, call.s, call.n))
        BY <1>1, <3>1, LeftTyped
      <3>3. QED
        BY <2>7, <3>2 DEF Answer
    <2>8. CASE call.op \in {"to_string", "to_hstring"}
      <3> DEFINE w == Whole(memory)
      <3>1. w = [mem |-> memory, off |-> FALSE] /\ w.mem = memory /\ w.off = FALSE
        BY DEF Whole
      <3>2. memory \in [1 .. Size -> Bytes]
        BY <1>1, MemoryIs
      <3>3. Leaves(w)
        BY <2>8 DEF Answer
      <3> HIDE DEF w
      <3>4. Typed(Size, Bytes, w)
        BY <3>1, <3>2 DEF Typed
      <3>5. QED
        BY <3>3, <3>4
    <2>9. QED
      BY <2>1, <2>2, <2>3, <2>4, <2>5, <2>6, <2>7, <2>8 DEF Answer
  <1>3. memory' \in [1 .. Size -> Bytes] /\ off' \in BOOLEAN
    BY <1>2 DEF Leaves, Typed
  <1>4. LibTypeOK'
    BY <1>3, <1>1, MemoryIs DEF LibTypeOK, Addr
  <1>5. call' = Idle /\ (call.op)' = "none"
    BY DEF Answer, Idle
  <1>6. QED
    BY <1>4, <1>5 DEF LibInv, CallOK, Idle

\* and so does a call,
LEMMA CallTyped ==
    ASSUME LibInv, Calls \/ Prints
    PROVE  LibInv'
  <1>1. memory' = memory /\ off' = off
    BY DEF Calls, Prints, Call
  <1>2. LibTypeOK'
    BY <1>1 DEF LibInv, LibTypeOK, Addr
  <1>3. \A x : End(memory, x)' = End(memory, x)
    BY <1>1 DEF End, FirstIn
  <1>4. CASE Calls
    <2>1. PICK d \in Addr, s \in Addr, n \in Lengths :
              \/ \E op \in {"memcpy", "memmove", "strncpy"} : Call([op |-> op, d |-> d, s |-> s, n |-> n])
              \/ End(memory, d) # None /\ Call([op |-> "strncat", d |-> d, s |-> s, n |-> n])
              \/ n = 0 /\ Call([op |-> "strcpy", d |-> d, s |-> s])
              \/ n = 0 /\ End(memory, d) # None /\ Call([op |-> "strcat", d |-> d, s |-> s])
              \/ \E b \in Bytes : s = 1 /\ Call([op |-> "memset", d |-> d, value |-> b, n |-> n])
      BY <1>4 DEF Calls
    <2>2. CASE \E op \in {"memcpy", "memmove", "strncpy"} : Call([op |-> op, d |-> d, s |-> s, n |-> n])
      <3>1. /\ call'.op \in {"memcpy", "memmove", "strncpy"} /\ call'.d \in Addr /\ call'.s \in Addr
            /\ call'.n \in Lengths
        BY <2>2 DEF Call
      <3>2. QED
        BY <1>2, <3>1 DEF LibInv, CallOK, Addr, Lengths
    <2>3. CASE End(memory, d) # None /\ Call([op |-> "strncat", d |-> d, s |-> s, n |-> n])
      <3>1. /\ call'.op = "strncat" /\ call'.d \in Addr /\ call'.s \in Addr /\ call'.n \in Lengths
            /\ call'.d = d
        BY <2>3 DEF Call
      <3>2. End(memory, call.d)' # None
        BY <1>1, <2>3, <3>1 DEF End, FirstIn
      <3>3. QED
        BY <1>2, <3>1, <3>2 DEF LibInv, CallOK, Addr, Lengths
    <2>4. CASE n = 0 /\ Call([op |-> "strcpy", d |-> d, s |-> s])
      <3>1. call'.op = "strcpy" /\ call'.d \in Addr /\ call'.s \in Addr
        BY <2>4 DEF Call
      <3>2. QED
        BY <1>2, <3>1 DEF LibInv, CallOK, Addr
    <2>5. CASE n = 0 /\ End(memory, d) # None /\ Call([op |-> "strcat", d |-> d, s |-> s])
      <3>1. call'.op = "strcat" /\ call'.d \in Addr /\ call'.s \in Addr /\ call'.d = d
        BY <2>5 DEF Call
      <3>2. End(memory, call.d)' # None
        BY <1>1, <2>5, <3>1 DEF End, FirstIn
      <3>3. QED
        BY <1>2, <3>1, <3>2 DEF LibInv, CallOK, Addr
    <2>6. CASE \E b \in Bytes : s = 1 /\ Call([op |-> "memset", d |-> d, value |-> b, n |-> n])
      <3>1. call'.op = "memset" /\ call'.d \in Addr /\ call'.value \in Bytes /\ call'.n \in Lengths
        BY <2>6 DEF Call
      <3>2. QED
        BY <1>2, <3>1 DEF LibInv, CallOK, Addr, Lengths
    <2>7. QED
      BY <2>1, <2>2, <2>3, <2>4, <2>5, <2>6
  <1>5. CASE Prints
    <2>1. call'.op \in {"to_string", "to_hstring"}
      BY <1>5 DEF Prints, Call
    <2>2. QED
      BY <1>2, <2>1 DEF LibInv, CallOK
  <1>6. QED
    BY <1>4, <1>5

\* and the caller's own store.
LEMMA PokeTyped ==
    ASSUME LibInv, NEW adr \in Addr, NEW b \in Bytes, Poke(adr, b)
    PROVE  LibInv'
  <1>1. memory' \in [Addr -> Bytes] /\ off' = off /\ call' = Idle /\ call'.op = "none"
    BY DEF LibInv, LibTypeOK, Poke, Idle
  <1>2. LibTypeOK'
    BY <1>1 DEF LibInv, LibTypeOK, Addr
  <1>3. CallOK'
    BY <1>1 DEF CallOK, Idle
  <1>4. QED
    BY <1>2, <1>3 DEF LibInv

\* The invariant holds in every state.
LEMMA LibraryInvariance == LibSpec => []LibInv
  <1>1. LibInit => LibInv
    <2>1. SUFFICES ASSUME LibInit PROVE LibInv
      OBVIOUS
    <2>2. memory \in [Addr -> Bytes] /\ off \in BOOLEAN
      BY <2>1, Sizes DEF LibInit
    <2>3. call = Idle /\ call.op = "none"
      BY <2>1 DEF LibInit, Idle
    <2>4. QED
      BY <2>2, <2>3 DEF LibInv, LibTypeOK, CallOK
  <1>2. LibInv /\ [LibNext]_libVars => LibInv'
    <2>1. SUFFICES ASSUME LibInv, [LibNext]_libVars PROVE LibInv'
      OBVIOUS
    <2>2. CASE libVars' = libVars
      <3>1. memory' = memory /\ off' = off /\ call' = call
        BY <2>2 DEF libVars
      <3>2. LibTypeOK'
        BY <2>1, <3>1 DEF LibInv, LibTypeOK, Addr
      <3>3. End(memory, call.d)' = End(memory, call.d)
        BY <3>1 DEF End, FirstIn
      <3>4. CallOK'
        BY <2>1, <3>1, <3>3 DEF LibInv, CallOK, Addr, Lengths, Idle
      <3>5. QED
        BY <3>2, <3>4 DEF LibInv
    <2>3. QED
      BY <2>1, <2>2, AnswerTyped, CallTyped, PokeTyped DEF LibNext
  <1>3. QED
    BY <1>1, <1>2, PTL DEF LibSpec

\* The n bytes are those of the memory from a.
Reads(bytes, n, adr) ==
    bytes \in Seq(Bytes) /\ Len(bytes) = n /\ \A k \in 1 .. n : bytes[k] = memory[adr + k - 1]

\* What the memory holds at a string, and what Chars makes of it.
LEMMA StringIs ==
    ASSUME memory \in [Addr -> Bytes], NEW adr \in Addr, End(memory, adr) # None
    PROVE  /\ End(memory, adr) \in Int /\ adr <= End(memory, adr) /\ End(memory, adr) <= Size
           /\ memory[End(memory, adr)] = NUL
           /\ StringTo(memory, adr, End(memory, adr))
           /\ strlen(memory, adr) = End(memory, adr) - adr
           /\ Reads(Chars(memory, adr), End(memory, adr) - adr, adr)
           /\ Reads(Append(Chars(memory, adr), NUL), End(memory, adr) - adr + 1, adr)
  <1> DEFINE e == End(memory, adr)
             c == Chars(memory, adr)
             f == Append(c, NUL)
  <1>1. /\ memory \in Seq(Bytes) /\ Len(memory) = Size /\ Size \in Nat /\ adr \in 1 .. Size /\ adr \in Nat
    BY MemoryIs
  <1>2. StringTo(memory, adr, e)
    BY <1>1, EndIs
  <1>3. e \in adr .. Size /\ memory[e] = NUL
    BY <1>1, <1>2 DEF StringTo
  <1>4. strlen(memory, adr) = e - adr
    BY DEF strlen
  <1>5. c = SubSeq(memory, adr, e - 1)
    BY DEF Chars
  <1> HIDE DEF e
  <1>6. c \in Seq(Bytes) /\ Len(c) = e - adr /\ \A k \in 1 .. e - adr : c[k] = memory[adr + k - 1]
    <2> HIDE DEF c
    <2>1. CASE e = adr
      <3>1. c = << >>
        BY <1>1, <1>3, <1>5, <2>1
      <3>2. QED
        BY <1>1, <1>3, <2>1, <3>1
    <2>2. CASE e # adr
      <3>1. adr \in 1 .. Len(memory) /\ e - 1 \in adr .. Len(memory)
        BY <1>1, <1>3, <2>2
      <3>2. c \in Seq(Bytes) /\ Len(c) = e - 1 - adr + 1
        BY <1>1, <1>5, <3>1
      <3>3. \A k \in 1 .. e - adr : c[k] = memory[adr + k - 1]
        BY <1>1, <1>3, <1>5, <3>1
      <3>4. QED
        BY <1>1, <1>3, <3>2, <3>3
    <2>3. QED
      BY <2>1, <2>2
  <1> HIDE DEF c
  <1>7. f \in Seq(Bytes) /\ Len(f) = e - adr + 1 /\ \A k \in 1 .. e - adr + 1 : f[k] = memory[adr + k - 1]
    <2>1. NUL \in Bytes
      BY Sizes
    <2>2. f \in Seq(Bytes) /\ Len(f) = e - adr + 1
      BY <1>1, <1>3, <1>6, <2>1
    <2>3. ASSUME NEW k \in 1 .. e - adr + 1 PROVE f[k] = memory[adr + k - 1]
      <3>1. CASE k = e - adr + 1
        <4>1. f[k] = NUL
          BY <1>1, <1>3, <1>6, <2>1, <3>1
        <4>2. adr + k - 1 = e
          BY <1>1, <1>3, <3>1
        <4>3. QED
          BY <1>3, <4>1, <4>2
      <3>2. CASE k # e - adr + 1
        <4>1. k \in 1 .. e - adr
          BY <1>1, <1>3, <2>3, <3>2
        <4>2. f[k] = c[k]
          BY <1>1, <1>3, <1>6, <2>1, <4>1
        <4>3. QED
          BY <1>6, <4>1, <4>2
      <3>3. QED
        BY <3>1, <3>2
    <2>4. QED
      BY <2>2, <2>3
  <1> HIDE DEF f
  <1>8. Reads(c, e - adr, adr) /\ Reads(f, e - adr + 1, adr)
    BY <1>6, <1>7 DEF Reads
  <1>9. QED
    BY <1>1, <1>2, <1>3, <1>4, <1>8 DEF e, c, f

\* The bytes are those from d to D - 1, and the n from s.
Joins(bytes, d, D, s, n) ==
    /\ Len(bytes) = D - d + n
    /\ \A k \in 1 .. D - d + n :
          bytes[k] = IF k <= D - d THEN memory[d + k - 1] ELSE memory[s + k - 1 - (D - d)]

\* The elements of a concatenation.
LEMMA ConcatIs ==
    ASSUME NEW S, NEW x \in Seq(S), NEW y \in Seq(S)
    PROVE  /\ Len(x \o y) = Len(x) + Len(y)
           /\ \A k \in 1 .. Len(x) + Len(y) : (x \o y)[k] = IF k <= Len(x) THEN x[k] ELSE y[k - Len(x)]
  OBVIOUS

\* The concatenation of two runs of bytes of the memory,
LEMMA Joined ==
    ASSUME NEW x, NEW y, NEW d \in Int, NEW D \in Int, NEW s \in Int, NEW n \in Nat, d <= D,
           Reads(x, D - d, d), Reads(y, n, s)
    PROVE  Joins(x \o y, d, D, s, n)
  <1> DEFINE f == x \o y
  <1>1. /\ x \in Seq(Bytes) /\ y \in Seq(Bytes) /\ Len(x) = D - d /\ Len(y) = n
        /\ \A k \in 1 .. D - d : x[k] = memory[d + k - 1]
        /\ \A k \in 1 .. n : y[k] = memory[s + k - 1]
    BY DEF Reads
  <1>2. /\ Len(f) = Len(x) + Len(y)
        /\ \A k \in 1 .. Len(x) + Len(y) : f[k] = IF k <= Len(x) THEN x[k] ELSE y[k - Len(x)]
    <2>1. x \in Seq(Bytes) /\ y \in Seq(Bytes)
      BY <1>1
    <2>2. QED
      BY <2>1, ConcatIs
  <1> HIDE DEF f
  <1>3. /\ Len(f) = D - d + n
        /\ \A k \in 1 .. D - d + n : f[k] = IF k <= D - d THEN x[k] ELSE y[k - (D - d)]
    BY <1>1, <1>2
  <1>4. ASSUME NEW k \in 1 .. D - d + n
        PROVE  f[k] = IF k <= D - d THEN memory[d + k - 1] ELSE memory[s + k - 1 - (D - d)]
    <2>1. CASE k <= D - d
      <3>1. k \in 1 .. D - d
        BY <2>1
      <3>2. QED
        BY <1>1, <1>3, <2>1, <3>1
    <2>2. CASE ~(k <= D - d)
      <3>1. k - (D - d) \in 1 .. n
        BY <2>2
      <3>2. y[k - (D - d)] = memory[s + (k - (D - d)) - 1]
        BY <1>1, <3>1
      <3>3. s + (k - (D - d)) - 1 = s + k - 1 - (D - d)
        OBVIOUS
      <3>4. QED
        BY <1>3, <2>2, <3>2, <3>3
    <2>3. QED
      BY <2>1, <2>2
  <1>5. QED
    BY <1>3, <1>4 DEF Joins, f

\* and a single one.
LEMMA ReadsAlone ==
    ASSUME NEW y, NEW d \in Int, NEW s \in Int, NEW n \in Nat, Reads(y, n, s)
    PROVE  Joins(y, d, d, s, n)
  BY DEF Reads, Joins

\* A memory that holds such bytes at d is one into which they were copied.
LEMMA HoldingCopied ==
    ASSUME memory \in [Addr -> Bytes], NEW d \in Addr, NEW D \in Int, d <= D, NEW s \in Addr, NEW n \in Nat,
           NEW bytes, Joins(bytes, d, D, s, n)
    PROVE  Holding(d, bytes) = Copied(memory, D, s, D, D + n - 1)
  <1>1. d \in Int /\ s \in Int /\ Addr \subseteq Int /\ DOMAIN memory = Addr
    BY MemoryIs DEF Addr
  <1> DEFINE H(adr) == IF adr \in d .. d + Len(bytes) - 1 THEN bytes[adr - d + 1] ELSE memory[adr]
             C(adr) == IF adr \in D .. D + n - 1 THEN memory[s + (adr - D)] ELSE memory[adr]
  <1>2. ASSUME NEW adr \in Addr PROVE H(adr) = C(adr)
    <2>0. adr \in Int /\ d + Len(bytes) - 1 = D + n - 1
      BY <1>1 DEF Joins
    <2>1. CASE adr \in d .. D + n - 1
      <3>1. adr - d + 1 \in 1 .. D - d + n
        BY <1>1, <2>0, <2>1
      <3>2. bytes[adr - d + 1] = IF adr - d + 1 <= D - d THEN memory[d + (adr - d + 1) - 1]
                               ELSE memory[s + (adr - d + 1) - 1 - (D - d)]
        BY <3>1 DEF Joins
      <3>3. d + (adr - d + 1) - 1 = adr /\ s + (adr - d + 1) - 1 - (D - d) = s + (adr - D)
        BY <1>1, <2>0
      <3>4. adr - d + 1 <= D - d <=> ~(adr \in D .. D + n - 1)
        BY <1>1, <2>0, <2>1
      <3>5. QED
        BY <2>0, <2>1, <3>2, <3>3, <3>4
    <2>2. CASE adr \notin d .. D + n - 1
      <3>1. adr \notin D .. D + n - 1
        BY <1>1, <2>0, <2>2
      <3>2. QED
        BY <2>0, <2>2, <3>1
    <2>3. QED
      BY <2>1, <2>2
  <1>3. Holding(d, bytes) = [adr \in Addr |-> H(adr)]
    BY DEF Holding
  <1>4. Copied(memory, D, s, D, D + n - 1) = [adr \in Addr |-> C(adr)]
    BY <1>1 DEF Copied
  <1> HIDE DEF H, C
  <1>5. QED
    BY <1>2, <1>3, <1>4

\* What each string function is to leave at its destination.
LEMMA WantedIs ==
    ASSUME NEW c
    PROVE  /\ c.op = "strcpy" => Wanted(c) = Append(Chars(memory, c.s), NUL)
           /\ c.op = "strcat" => Wanted(c) = Chars(memory, c.d) \o Append(Chars(memory, c.s), NUL)
           /\ c.op = "strncat" =>
                Wanted(c) = Chars(memory, c.d) \o SubSeq(Append(Chars(memory, c.s), NUL), 1,
                                IF c.n <= strlen(memory, c.s) THEN c.n ELSE strlen(memory, c.s) + 1)
           /\ c.op = "strncpy" => Wanted(c) = [k \in 1 .. c.n |->
                                IF k <= strlen(memory, c.s) THEN memory[c.s + k - 1] ELSE NUL]
  BY Zenon DEF Wanted

\* The length of a sequence that is given by its elements.
LEMMA LenIs ==
    ASSUME NEW f, NEW n \in Nat, DOMAIN f = 1 .. n, f = [k \in 1 .. n |-> f[k]]
    PROVE  Len(f) = n
  <1> DEFINE R == {f[k] : k \in 1 .. n}
  <1>1. f \in [1 .. n -> R]
    OBVIOUS
  <1> HIDE DEF R
  <1>2. f \in Seq(R)
    BY <1>1
  <1>3. QED
    BY <1>1, <1>2

\* The bytes that memcpy and memmove are to move.
LEMMA MovedJoins ==
    ASSUME NEW c, c.op # "memset", c.n \in Nat, c.d \in Int, c.s \in Int
    PROVE  Joins(Moved(c), c.d, c.d, c.s, c.n)
  <1> DEFINE f == Moved(c)
             d == c.d
             s == c.s
             n == c.n
  <1>1. f = [k \in 1 .. n |-> memory[s + k - 1]]
    BY DEF Moved
  <1>2. d \in Int /\ s \in Int /\ n \in Nat
    OBVIOUS
  <1> HIDE DEF f, d, s, n
  <1>3. DOMAIN f = 1 .. n /\ f = [k \in 1 .. n |-> f[k]] /\ \A k \in 1 .. n : f[k] = memory[s + k - 1]
    BY <1>1
  <1>4. Len(f) = n
    BY <1>2, <1>3, LenIs
  <1>5. Joins(f, d, d, s, n)
    BY <1>2, <1>3, <1>4 DEF Joins
  <1>6. QED
    BY <1>5 DEF f, d, s, n

\* memcpy leaves them unless it runs into its source,
LEMMA MemcpyExact ==
    ASSUME memory \in [Addr -> Bytes], call.op = "memcpy", call.d \in Addr, call.s \in Addr, call.n \in Nat,
           MoveDefined(call), NEW left, left = memcpy(memory, call.d, call.s, call.n), ~left.off
    PROVE  left.mem = Holding(call.d, Moved(call))
  <1> DEFINE d == call.d
             s == call.s
             n == call.n
             b == Moved(call)
  <1>1. /\ memory \in [1 .. Size -> Bytes] /\ Size \in Nat /\ d \in 1 .. Size /\ s \in 1 .. Size
        /\ d \in Int /\ s \in Int /\ n \in Nat /\ n \in 0 .. n
    BY MemoryIs
  <1>2. Joins(b, d, d, s, n)
    BY <1>1, MovedJoins
  <1>3. ~RunsInto(d, s, n)
    BY DEF MoveDefined, RunsInto
  <1>4. left = Upwards(memory, d, s, n)[n]
    BY DEF memcpy
  <1> HIDE DEF b, d, s, n
  <1>5. Climbed(Size, Bytes, memory, d, s, n, left)
    BY <1>1, <1>4, UpwardsCopies
  <1>6. left.mem = Copied(memory, d, s, d, d + n - 1)
    BY <1>3, <1>5 DEF Climbed
  <1>7. Holding(d, b) = Copied(memory, d, s, d, d + n - 1)
    <2>1. d \in Addr /\ s \in Addr /\ d <= d
      BY <1>1 DEF d, s
    <2>2. QED
      BY <1>1, <1>2, <2>1, HoldingCopied
  <1>8. QED
    BY <1>6, <1>7 DEF b, d

\* memmove however it overlaps,
LEMMA MemmoveExact ==
    ASSUME memory \in [Addr -> Bytes], call.op = "memmove", call.d \in Addr, call.s \in Addr, call.n \in Nat,
           NEW left, left = memmove(memory, call.d, call.s, call.n), ~left.off
    PROVE  left.mem = Holding(call.d, Moved(call))
  <1> DEFINE d == call.d
             s == call.s
             n == call.n
             b == Moved(call)
  <1>1. /\ memory \in [1 .. Size -> Bytes] /\ Size \in Nat /\ d \in 1 .. Size /\ s \in 1 .. Size
        /\ d \in Int /\ s \in Int /\ n \in Nat /\ n \in 0 .. n
    BY MemoryIs
  <1>2. Joins(b, d, d, s, n)
    BY <1>1, MovedJoins
  <1>3. left = IF d <= s THEN Upwards(memory, d, s, n)[n] ELSE Downwards(memory, d, s, n)[n]
    BY DEF memmove
  <1>4. d \in Addr /\ s \in Addr /\ d <= d
    BY <1>1
  <1> HIDE DEF b, d, s, n
  <1>5. left.mem = Copied(memory, d, s, d, d + n - 1)
    <2>1. CASE d <= s
      <3>1. left = Upwards(memory, d, s, n)[n]
        BY <1>3, <2>1
      <3>2. Climbed(Size, Bytes, memory, d, s, n, left)
        BY <1>1, <3>1, UpwardsCopies
      <3>3. ~RunsInto(d, s, n)
        BY <1>1, <2>1 DEF RunsInto
      <3>4. QED
        BY <3>2, <3>3 DEF Climbed
    <2>2. CASE ~(d <= s)
      <3>1. left = Downwards(memory, d, s, n)[n]
        BY <1>3, <2>2
      <3>2. Sunk(Size, Bytes, memory, d, s, n, n, left)
        <4>1. s < d
          BY <1>1, <2>2
        <4>2. QED
          BY <1>1, <3>1, <4>1, DownwardsCopies
      <3>3. d + n - n = d
        BY <1>1
      <3>4. QED
        BY <3>2, <3>3 DEF Sunk
    <2>3. QED
      BY <2>1, <2>2
  <1>6. Holding(d, b) = Copied(memory, d, s, d, d + n - 1)
    BY <1>1, <1>2, <1>4, HoldingCopied
  <1>7. QED
    BY <1>5, <1>6 DEF b, d

\* and memset its value.
LEMMA MemsetExact ==
    ASSUME memory \in [Addr -> Bytes], call.op = "memset", call.d \in Addr, call.value \in Bytes, call.n \in Nat,
           NEW left, left = memset(memory, call.d, call.value, call.n)
    PROVE  left.mem = Holding(call.d, Moved(call))
  <1> DEFINE d == call.d
             n == call.n
             v == call.value
             f == Moved(call)
             h == Holding(call.d, f)
  <1>1. d \in Int /\ d \in Nat /\ n \in Nat /\ v \in Bytes /\ Addr \subseteq Int
    BY MemoryIs DEF Addr
  <1>2. f = [k \in 1 .. n |-> v]
    BY DEF Moved
  <1>3. left.mem = [adr \in Addr |-> IF adr \in d .. d + n - 1 THEN v ELSE memory[adr]]
    <2>1. memset(memory, d, v, n).mem = FilledWith(memory, d, v, n)
      <3> HIDE DEF d, n, v
      <3>1. QED
        BY <1>1, MemsetLeaves
    <2>2. left.mem = FilledWith(memory, d, v, n)
      BY <2>1
    <2>3. QED
      BY <2>2 DEF FilledWith
  <1>4. h = [adr \in Addr |-> IF adr \in d .. d + Len(f) - 1 THEN f[adr - d + 1] ELSE memory[adr]]
    BY DEF Holding
  <1> HIDE DEF f, d, n, v, h
  <1>5. DOMAIN f = 1 .. n /\ f = [k \in 1 .. n |-> f[k]] /\ \A k \in 1 .. n : f[k] = v
    BY <1>2
  <1>6. Len(f) = n
    BY <1>1, <1>5, LenIs
  <1>7. \A adr \in Addr : (IF adr \in d .. d + Len(f) - 1 THEN f[adr - d + 1] ELSE memory[adr])
                      = (IF adr \in d .. d + n - 1 THEN v ELSE memory[adr])
    BY <1>1, <1>5, <1>6
  <1>8. left.mem = h
    BY <1>3, <1>4, <1>7
  <1>9. QED
    BY <1>8 DEF f, d, h

\* The first k of a run of bytes.
LEMMA ReadsLess ==
    ASSUME NEW f, NEW n \in Nat, NEW adr \in Int, Reads(f, n, adr), NEW k \in Nat, k <= n
    PROVE  Reads(SubSeq(f, 1, k), k, adr)
  <1> DEFINE y == SubSeq(f, 1, k)
  <1>1. f \in Seq(Bytes) /\ Len(f) = n /\ \A j \in 1 .. n : f[j] = memory[adr + j - 1]
    BY DEF Reads
  <1>2. y \in Seq(Bytes) /\ Len(y) = k /\ \A j \in 1 .. k : y[j] = f[j]
    <2>1. CASE k = 0
      BY <1>1, <2>1
    <2>2. CASE k # 0
      BY <1>1, <2>2
    <2>3. QED
      BY <2>1, <2>2
  <1> HIDE DEF y
  <1>3. \A j \in 1 .. k : y[j] = memory[adr + j - 1]
    BY <1>1, <1>2
  <1>4. QED
    BY <1>2, <1>3 DEF Reads, y

\* The n bytes from s go behind those from d to p - 1 and do not run into the
\* string at s.
Lengthens(d, D, s, n, bytes) ==
    /\ d <= D /\ End(memory, s) # None
    /\ Joins(bytes, d, D, s, Count(s, End(memory, s), n))
    /\ Apart(d, d + Len(bytes) - 1, s, End(memory, s))

\* A call has left the bytes at d, and stayed inside if they fit.
Lands(d, bytes, left) ==
    /\ ~left.off => left.mem = Holding(d, bytes)
    /\ d + Len(bytes) - 1 \in 0 .. Size => ~left.off

\* The copy loop leaves the string where it was to, and stays inside if it fits.
LEMMA StringMoved ==
    ASSUME memory \in [Addr -> Bytes], NEW d \in Addr, NEW D \in Addr, NEW s \in Addr, NEW n \in Nat,
           NEW bytes, Lengthens(d, D, s, n, bytes)
    PROVE  Lands(d, bytes, StringCopy(memory, D, s, n).left)
  <1> DEFINE e == End(memory, s)
             c == Count(s, e, n)
             r == StringCopy(memory, D, s, n)
             m == Copied(memory, D, s, D, D + c - 1)
             left == r.left
  <1>1. /\ memory \in [1 .. Size -> Bytes] /\ Size \in Nat /\ D \in 1 .. Size /\ s \in 1 .. Size
        /\ d \in Int /\ D \in Int /\ s \in Int /\ d <= D
    BY MemoryIs DEF Lengthens
  <1>2. e \in Int /\ s <= e /\ e <= Size /\ StringTo(memory, s, e)
    BY StringIs DEF Lengthens
  <1>3. Joins(bytes, d, D, s, c) /\ Apart(d, d + Len(bytes) - 1, s, e) /\ left = r.left
    BY DEF Lengthens
  <1> HIDE DEF e, left
  <1>4. c \in Nat
    BY <1>1, <1>2 DEF Count
  <1>5. d + Len(bytes) - 1 = D + c - 1
    BY <1>1, <1>3, <1>4 DEF Joins
  <1>6. Separate(D, s, e, n)
    BY <1>1, <1>2, <1>3, <1>4, <1>5 DEF Apart, Separate
  <1>7. CopyEnds(Size, memory, D, s, e, n)
    BY <1>1, <1>2, <1>6, StringCopied
  <1>8. Holding(d, bytes) = m
    BY <1>1, <1>3, <1>4, HoldingCopied
  <1> HIDE DEF c, r, m
  <1>9. CASE D + c - 1 <= Size
    <2>1. r.left = [mem |-> m, off |-> FALSE]
      BY <1>7, <1>9 DEF CopyEnds, r, c, m
    <2>2. left = [mem |-> m, off |-> FALSE]
      BY <1>3, <2>1
    <2>3. left.mem = m /\ left.off = FALSE
      BY <2>2
    <2>4. QED
      BY <1>8, <2>3 DEF Lands, left, r
  <1>10. CASE ~(D + c - 1 <= Size)
    <2>1. D + c - 1 > Size
      BY <1>1, <1>4, <1>10
    <2>2. left.off = TRUE
      BY <1>3, <1>7, <2>1 DEF CopyEnds, r, c
    <2>3. d + Len(bytes) - 1 \notin 0 .. Size
      BY <1>1, <1>4, <1>5, <2>1
    <2>4. QED
      BY <2>2, <2>3 DEF Lands, left, r
  <1>11. QED
    BY <1>9, <1>10

\* What CallsExact says of a call of a string function and what it leaves.
StringExact(c, left) ==
    /\ StringDefined(c) /\ ~left.off => left.mem = Holding(c.d, Wanted(c))
    /\ StringDefined(c) /\ c.d + Len(Wanted(c)) - 1 \in 0 .. Size =>
          (left.off <=> c.op = "strncpy" /\ strlen(memory, c.s) >= c.n)

\* So strcpy is exact,
LEMMA StrcpyExact ==
    ASSUME memory \in [Addr -> Bytes], NEW c, c.op = "strcpy", c.d \in Addr, c.s \in Addr,
           NEW left, left = strcpy(memory, c.d, c.s)
    PROVE  StringExact(c, left)
  <1> SUFFICES ASSUME StringDefined(c) PROVE StringExact(c, left)
    BY DEF StringExact
  <1> DEFINE d == c.d
             s == c.s
             b == Wanted(c)
             e == End(memory, s)
             n == Len(memory) + 1
  <1>1. Len(memory) = Size /\ Size \in Nat /\ d \in Addr /\ s \in Addr /\ d \in Int /\ s \in Int
    BY MemoryIs
  <1>2. e # None /\ Apart(d, d + Len(b) - 1, s, e)
    BY DEF StringDefined, IsString
  <1>3. /\ e \in Int /\ s <= e /\ e <= Size
        /\ Reads(Append(Chars(memory, s), NUL), e - s + 1, s)
    BY <1>1, <1>2, StringIs
  <1>4. Reads(b, e - s + 1, s)
    BY <1>3, WantedIs
  <1>5. left = StringCopy(memory, d, s, n).left
    BY DEF strcpy
  <1>6. c.op # "strncpy"
    OBVIOUS
  <1> HIDE DEF b, e, n
  <1>7. Count(s, e, n) = e - s + 1 /\ n \in Nat
    BY <1>1, <1>3 DEF Count, n
  <1>8. Joins(b, d, d, s, Count(s, e, n))
    <2>1. e - s + 1 \in Nat
      BY <1>1, <1>3
    <2>2. QED
      BY <1>1, <1>4, <1>7, <2>1, ReadsAlone
  <1>9. d <= d
    BY <1>1
  <1>10. /\ ~left.off => left.mem = Holding(d, b)
         /\ d + Len(b) - 1 \in 0 .. Size => ~left.off
    <2>1. Lengthens(d, d, s, n, b)
      BY <1>1, <1>2, <1>8, <1>9 DEF e, Lengthens
    <2> HIDE DEF d, s
    <2>2. Lands(d, b, StringCopy(memory, d, s, n).left)
      BY <1>1, <1>5, <1>7, <1>9, <2>1, StringMoved
    <2>3. QED
      BY <2>2, <1>5 DEF Lands
  <1>11. QED
    BY <1>6, <1>10 DEF StringExact, b

\* and strcat, which starts at the NUL of its destination,
LEMMA StrcatExact ==
    ASSUME memory \in [Addr -> Bytes], NEW c, c.op = "strcat", c.d \in Addr, c.s \in Addr,
           End(memory, c.d) # None, NEW left, left = strcat(memory, c.d, c.s)
    PROVE  StringExact(c, left)
  <1> SUFFICES ASSUME StringDefined(c) PROVE StringExact(c, left)
    BY DEF StringExact
  <1> DEFINE d == c.d
             s == c.s
             b == Wanted(c)
             e == End(memory, s)
             D == End(memory, d)
             n == Len(memory) + 1
             x == Chars(memory, d)
             y == Append(Chars(memory, s), NUL)
  <1>1. Len(memory) = Size /\ Size \in Nat /\ d \in Addr /\ s \in Addr /\ d \in Int /\ s \in Int
    BY MemoryIs
  <1>2. e # None /\ Apart(d, d + Len(b) - 1, s, e)
    BY DEF StringDefined, IsString
  <1>3. e \in Int /\ s <= e /\ e <= Size /\ Reads(y, e - s + 1, s)
    BY <1>1, <1>2, StringIs
  <1>4. D \in Int /\ d <= D /\ D <= Size /\ Reads(x, D - d, d)
    BY <1>1, StringIs
  <1>5. b = x \o y
    BY WantedIs
  <1>6. left = StringCopy(memory, D, s, n).left
    BY DEF strcat, strcpy
  <1>7. c.op # "strncpy"
    OBVIOUS
  <1> HIDE DEF b, e, n, D, x, y
  <1>8. Count(s, e, n) = e - s + 1 /\ n \in Nat /\ D \in Addr
    BY <1>1, <1>3, <1>4 DEF Count, n, Addr
  <1>9. Joins(b, d, D, s, Count(s, e, n))
    <2>1. e - s + 1 \in Nat
      BY <1>1, <1>3
    <2>2. QED
      BY <1>1, <1>3, <1>4, <1>5, <1>8, <2>1, Joined
  <1>10. /\ ~left.off => left.mem = Holding(d, b)
         /\ d + Len(b) - 1 \in 0 .. Size => ~left.off
    <2>1. Lengthens(d, D, s, n, b)
      BY <1>1, <1>2, <1>9, <1>4 DEF e, Lengthens
    <2> HIDE DEF d, s
    <2>2. Lands(d, b, StringCopy(memory, D, s, n).left)
      BY <1>1, <1>4, <1>6, <1>8, <2>1, StringMoved
    <2>3. QED
      BY <2>2, <1>6 DEF Lands
  <1>11. QED
    BY <1>7, <1>10 DEF StringExact, b

\* and strncat, whose n bytes may run out before the NUL.
LEMMA StrncatExact ==
    ASSUME memory \in [Addr -> Bytes], NEW c, c.op = "strncat", c.d \in Addr, c.s \in Addr, c.n \in Nat,
           End(memory, c.d) # None, NEW left, left = strncat(memory, c.d, c.s, c.n)
    PROVE  StringExact(c, left)
  <1> SUFFICES ASSUME StringDefined(c) PROVE StringExact(c, left)
    BY DEF StringExact
  <1> DEFINE d == c.d
             s == c.s
             b == Wanted(c)
             e == End(memory, s)
             D == End(memory, d)
             n == c.n
             x == Chars(memory, d)
             f == Append(Chars(memory, s), NUL)
             l == strlen(memory, s)
             y == SubSeq(f, 1, IF n <= l THEN n ELSE l + 1)
  <1>1. Len(memory) = Size /\ Size \in Nat /\ d \in Addr /\ s \in Addr /\ d \in Int /\ s \in Int
        /\ n \in Nat
    BY MemoryIs
  <1>2. e # None /\ Apart(d, d + Len(b) - 1, s, e)
    BY DEF StringDefined, IsString
  <1>3. e \in Int /\ s <= e /\ e <= Size /\ Reads(f, e - s + 1, s) /\ l = e - s
    BY <1>1, <1>2, StringIs
  <1>4. D \in Int /\ d <= D /\ D <= Size /\ Reads(x, D - d, d)
    BY <1>1, StringIs
  <1>5. b = x \o y
    BY WantedIs
  <1>6. left = StringCopy(memory, D, s, n).left
    BY DEF strncat
  <1>7. c.op # "strncpy"
    OBVIOUS
  <1> HIDE DEF b, e, n, D, x, f, l
  <1>8. Count(s, e, n) \in Nat /\ Count(s, e, n) <= e - s + 1 /\ D \in Addr
        /\ y = SubSeq(f, 1, Count(s, e, n))
    BY <1>1, <1>3, <1>4 DEF Count, Addr
  <1> HIDE DEF y
  <1>9. Reads(y, Count(s, e, n), s)
    BY <1>1, <1>3, <1>8, ReadsLess
  <1>10. Joins(b, d, D, s, Count(s, e, n))
    BY <1>1, <1>3, <1>4, <1>5, <1>8, <1>9, Joined
  <1>11. /\ ~left.off => left.mem = Holding(d, b)
         /\ d + Len(b) - 1 \in 0 .. Size => ~left.off
    <2>1. Lengthens(d, D, s, n, b)
      BY <1>1, <1>2, <1>10, <1>4 DEF e, Lengthens
    <2> HIDE DEF d, s
    <2>2. Lands(d, b, StringCopy(memory, D, s, n).left)
      BY <1>1, <1>4, <1>6, <1>8, <2>1, StringMoved
    <2>3. QED
      BY <2>2, <1>6 DEF Lands
  <1>12. QED
    BY <1>7, <1>11 DEF StringExact, b

\* The NULs behind a copied string.
Padded(bytes, s, e, n) ==
    /\ Len(bytes) = n
    /\ \A k \in 1 .. n : bytes[k] = IF k <= e - s THEN memory[s + k - 1] ELSE NUL

\* So the NULs behind a copied string.
LEMMA Filled ==
    ASSUME memory \in [Addr -> Bytes], NEW d \in Addr, NEW s \in Addr, NEW n \in Nat,
           NEW e \in Int, s <= e, e <= Size, memory[e] = NUL, n > e - s,
           NEW b, Padded(b, s, e, n)
    PROVE  FilledWith(Copied(memory, d, s, d, d + (e - s + 1) - 1), d + (e - s + 1), NUL, n - (e - s + 1))
           = Holding(d, b)
  <1> DEFINE m == Copied(memory, d, s, d, d + (e - s + 1) - 1)
             v == FilledWith(m, d + (e - s + 1), NUL, n - (e - s + 1))
  <1>0. v = [adr \in Addr |-> IF adr \in d + (e - s + 1) .. d + (e - s + 1) + (n - (e - s + 1)) - 1
                            THEN NUL ELSE m[adr]]
        /\ Len(b) = n /\ \A k \in 1 .. n : b[k] = IF k <= e - s THEN memory[s + k - 1] ELSE NUL
    BY DEF FilledWith, Padded
  <1>1. d \in Int /\ s \in Int /\ DOMAIN memory = Addr /\ Addr \subseteq Int
    BY MemoryIs DEF Addr
  <1> DEFINE h == Holding(d, b)
  <1>2. h = [adr \in Addr |-> IF adr \in d .. d + n - 1 THEN b[adr - d + 1] ELSE memory[adr]]
    BY <1>0 DEF Holding
  <1>3. \A adr \in Addr : m[adr] = IF adr \in d .. d + (e - s + 1) - 1 THEN memory[s + (adr - d)] ELSE memory[adr]
    BY <1>1 DEF Copied
  <1> HIDE DEF h, m, v
  <1>4. ASSUME NEW adr \in Addr PROVE v[adr] = h[adr]
    <2>0. adr \in Int
      BY <1>1
    <2>1. CASE adr \in d .. d + (e - s) - 1
      <3>1. adr - d + 1 \in 1 .. n /\ adr - d + 1 <= e - s /\ s + (adr - d + 1) - 1 = s + (adr - d)
            /\ adr \in d .. d + n - 1 /\ adr \in d .. d + (e - s + 1) - 1
            /\ adr \notin d + (e - s + 1) .. d + (e - s + 1) + (n - (e - s + 1)) - 1
        BY <1>1, <2>0, <2>1
      <3>2. h[adr] = memory[s + (adr - d)]
        BY <1>0, <1>2, <3>1
      <3>3. v[adr] = memory[s + (adr - d)]
        BY <1>0, <1>3, <3>1
      <3>4. QED
        BY <3>2, <3>3
    <2>2. CASE adr = d + (e - s)
      <3>1. adr - d + 1 \in 1 .. n /\ ~(adr - d + 1 <= e - s) /\ s + (adr - d) = e
            /\ adr \in d .. d + n - 1 /\ adr \in d .. d + (e - s + 1) - 1
            /\ adr \notin d + (e - s + 1) .. d + (e - s + 1) + (n - (e - s + 1)) - 1
        BY <1>1, <2>0, <2>2
      <3>2. h[adr] = NUL
        BY <1>0, <1>2, <3>1
      <3>3. v[adr] = memory[e]
        BY <1>0, <1>3, <3>1
      <3>4. QED
        BY <3>2, <3>3
    <2>3. CASE adr \in d + (e - s) + 1 .. d + n - 1
      <3>1. adr - d + 1 \in 1 .. n /\ ~(adr - d + 1 <= e - s) /\ adr \in d .. d + n - 1
            /\ adr \in d + (e - s + 1) .. d + (e - s + 1) + (n - (e - s + 1)) - 1
        BY <1>1, <2>0, <2>3
      <3>2. h[adr] = NUL
        BY <1>0, <1>2, <3>1
      <3>3. v[adr] = NUL
        BY <1>0, <3>1
      <3>4. QED
        BY <3>2, <3>3
    <2>4. CASE adr \notin d .. d + n - 1
      <3>1. adr \notin d .. d + (e - s + 1) - 1
            /\ adr \notin d + (e - s + 1) .. d + (e - s + 1) + (n - (e - s + 1)) - 1
        BY <1>1, <2>0, <2>4
      <3>2. h[adr] = memory[adr]
        BY <1>2, <2>4
      <3>3. v[adr] = memory[adr]
        BY <1>0, <1>3, <3>1
      <3>4. QED
        BY <3>2, <3>3
    <2>5. QED
      BY <1>1, <2>0, <2>1, <2>2, <2>3, <2>4
  <1>5. v = h
    BY <1>0, <1>2, <1>4
  <1>6. QED
    BY <1>5 DEF h, v, m

\* strncpy is exact, and leaves the memory iff the string is not shorter than n.
LEMMA StrncpyExact ==
    ASSUME memory \in [Addr -> Bytes], NEW c, c.op = "strncpy", c.d \in Addr, c.s \in Addr, c.n \in Nat,
           NEW left, left = strncpy(memory, c.d, c.s, c.n)
    PROVE  StringExact(c, left)
  <1> SUFFICES ASSUME StringDefined(c) PROVE StringExact(c, left)
    BY DEF StringExact
  <1> DEFINE d == c.d
             s == c.s
             n == c.n
             b == Wanted(c)
             e == End(memory, s)
             l == strlen(memory, s)
             r == StringCopy(memory, d, s, n)
             x == e - s + 1
             m == Copied(memory, d, s, d, d + x - 1)
  <1>1. /\ memory \in [1 .. Size -> Bytes] /\ Size \in Nat /\ d \in 1 .. Size /\ s \in 1 .. Size
        /\ d \in Addr /\ s \in Addr /\ d \in Int /\ s \in Int /\ d \in Nat /\ n \in Nat
    BY MemoryIs
  <1>2. e # None /\ Apart(d, d + Len(b) - 1, s, e)
    BY DEF StringDefined, IsString
  <1>3. e \in Int /\ s <= e /\ e <= Size /\ memory[e] = NUL /\ StringTo(memory, s, e) /\ l = e - s
    BY <1>1, <1>2, StringIs
  <1>4. b = [k \in 1 .. n |-> IF k <= l THEN memory[s + k - 1] ELSE NUL]
    BY WantedIs
  <1>5. left = IF r.left.off \/ ~r.nul THEN [mem |-> r.left.mem, off |-> TRUE]
               ELSE memset(r.left.mem, d + r.k, NUL, n - r.k)
    BY DEF strncpy
  <1> HIDE DEF b, e, l, r, m
  <1>6. DOMAIN b = 1 .. n /\ b = [k \in 1 .. n |-> b[k]]
        /\ \A k \in 1 .. n : b[k] = IF k <= e - s THEN memory[s + k - 1] ELSE NUL
    BY <1>3, <1>4
  <1>7. Len(b) = n
    BY <1>1, <1>6, LenIs
  <1>8. CopyEnds(Size, memory, d, s, e, n)
    <2> HIDE DEF d, s, n
    <2>1. Separate(d, s, e, n)
      BY <1>1, <1>2, <1>3, <1>7 DEF Apart, Separate, Count
    <2>2. QED
      BY <1>1, <1>3, <2>1, StringCopied
  <1>9. ASSUME n > e - s, d + x - 1 <= Size
        PROVE  /\ left.mem = Holding(d, b)
               /\ left.off <=> ~(d + n - 1 <= Size)
    <2>1. Count(s, e, n) = x /\ x \in Nat /\ x <= n
      <3> HIDE DEF d, s, n
      <3>1. Count(s, e, n) = x
        BY <1>1, <1>3, <1>9 DEF Count
      <3>2. x \in Nat /\ x <= n
        BY <1>1, <1>3, <1>9
      <3>3. QED
        BY <3>1, <3>2
    <2>2. r.k = x /\ r.nul /\ r.left = [mem |-> m, off |-> FALSE]
      BY <1>8, <1>9, <2>1 DEF CopyEnds, r, m
    <2> HIDE DEF x, d, s, n
    <2>3. left = memset(m, d + x, NUL, n - x)
      BY <1>5, <2>2
    <2>4. m \in [Addr -> Bytes]
      <3>1. Typed(Size, Bytes, r.left)
        BY <1>1, StringCopyTyped DEF r
      <3>2. r.left.mem = m
        BY <2>2
      <3>3. QED
        BY <3>1, <3>2 DEF Typed, Addr
    <2>5. d + x \in Nat /\ n - x \in Nat /\ NUL \in Bytes
      BY <1>1, <2>1, Sizes
    <2>6. /\ left.mem = FilledWith(m, d + x, NUL, n - x)
          /\ left.off <=> ~(d + x .. d + x + (n - x) - 1 \subseteq Addr)
      <3> DEFINE o == d + x
                 k == n - x
      <3>1. o \in Nat /\ k \in Nat /\ left = memset(m, o, NUL, k)
        BY <2>3, <2>5
      <3> HIDE DEF o, k
      <3>2. /\ memset(m, o, NUL, k).mem = FilledWith(m, o, NUL, k)
            /\ memset(m, o, NUL, k).off <=> ~(o .. o + k - 1 \subseteq Addr)
        BY <2>4, <2>5, <3>1, MemsetLeaves
      <3>3. QED
        BY <3>1, <3>2 DEF o, k
    <2>7. left.mem = Holding(d, b)
      <3>1. Padded(b, s, e, n)
        BY <1>6, <1>7 DEF Padded
      <3>2. FilledWith(Copied(memory, d, s, d, d + (e - s + 1) - 1), d + (e - s + 1), NUL, n - (e - s + 1))
            = Holding(d, b)
        BY <1>1, <1>3, <1>9, <3>1, Filled
      <3>3. QED
        BY <2>6, <3>2 DEF m, x
    <2>8. left.off <=> ~(d + n - 1 <= Size)
      <3>1. (d + x .. d + x + (n - x) - 1 \subseteq Addr) <=> d + n - 1 <= Size
        <4>1. d + x + (n - x) - 1 = d + n - 1
          BY <1>1, <2>1
        <4>2. ASSUME d + n - 1 <= Size PROVE d + x .. d + n - 1 \subseteq Addr
          BY <1>1, <2>1, <4>2 DEF Addr
        <4>3. ASSUME ~(d + n - 1 <= Size) PROVE ~(d + x .. d + n - 1 \subseteq Addr)
          <5>1. d + x <= d + n - 1
            BY <1>1, <1>9, <2>1, <4>3
          <5>2. d + n - 1 \in d + x .. d + n - 1 /\ d + n - 1 \notin Addr
            BY <1>1, <2>1, <4>3, <5>1 DEF Addr
          <5>3. QED
            BY <5>2
        <4>4. QED
          BY <4>1, <4>2, <4>3
      <3>2. QED
        BY <2>6, <3>1
    <2>9. QED
      BY <2>7, <2>8
  <1>10. ASSUME n > e - s, ~(d + x - 1 <= Size) PROVE left.off = TRUE /\ ~(d + n - 1 <= Size)
    <2>1. Count(s, e, n) = x /\ d + x - 1 > Size /\ ~(d + n - 1 <= Size)
      <3> HIDE DEF d, s, n
      <3>1. x \in Int /\ x <= n /\ d + x - 1 \in Int
        BY <1>1, <1>3, <1>10
      <3>2. Count(s, e, n) = x
        BY <1>1, <1>3, <1>10 DEF Count
      <3> HIDE DEF x
      <3>3. QED
        BY <1>1, <1>10, <3>1, <3>2
    <2>2. r.left.off = TRUE
      BY <1>8, <2>1 DEF CopyEnds, r
    <2>3. QED
      BY <1>5, <2>1, <2>2
  <1>11. ASSUME ~(n > e - s) PROVE left.off = TRUE
    <2>1. r.nul = FALSE
      <3>0. r.nul \in BOOLEAN
        BY <1>1, StringCopyTyped DEF r
      <3>1. CASE d + Count(s, e, n) - 1 <= Size
        BY <1>8, <1>11, <3>0, <3>1 DEF CopyEnds, r
      <3>2. CASE d + Count(s, e, n) - 1 > Size
        BY <1>8, <3>2 DEF CopyEnds, r
      <3>3. Count(s, e, n) \in Int
        BY <1>1, <1>3 DEF Count
      <3>4. d + Count(s, e, n) - 1 <= Size \/ d + Count(s, e, n) - 1 > Size
        BY <1>1, <3>3
      <3>5. QED
        BY <3>1, <3>2, <3>4
    <2>2. QED
      BY <1>5, <2>1
  <1>12. ~left.off => left.mem = Holding(d, b)
    BY <1>9, <1>10, <1>11
  <1>13. d + Len(b) - 1 \in 0 .. Size => (left.off <=> l >= n)
    <2>1. SUFFICES ASSUME d + n - 1 <= Size PROVE left.off <=> l >= n
      BY <1>1, <1>7
    <2>2. n > e - s <=> ~(l >= n)
      BY <1>1, <1>3
    <2>3. QED
      BY <1>9, <1>10, <1>11, <2>1, <2>2
  <1>14. QED
    BY <1>12, <1>13 DEF StringExact, b, l

\* What the return of any call leaves.
LEMMA AnswerExact ==
    ASSUME LibInv, Answer
    PROVE  /\ MoveDefined(call) /\ ~off' => memory' = Holding(call.d, Moved(call))
           /\ StringDefined(call) /\ ~off' => memory' = Holding(call.d, Wanted(call))
           /\ StringDefined(call) /\ call.d + Len(Wanted(call)) - 1 \in 0 .. Size =>
                 (off' <=> call.op = "strncpy" /\ strlen(memory, call.s) >= call.n)
  <1>1. memory \in [Addr -> Bytes] /\ Lengths \subseteq Nat /\ call # Idle
    BY LengthsIs DEF LibInv, LibTypeOK, Answer
  <1>2. ASSUME NEW left, StringExact(call, left), Leaves(left), call.op \in Strings
        PROVE  /\ ~MoveDefined(call)
               /\ StringDefined(call) /\ ~off' => memory' = Holding(call.d, Wanted(call))
               /\ StringDefined(call) /\ call.d + Len(Wanted(call)) - 1 \in 0 .. Size =>
                     (off' <=> call.op = "strncpy" /\ strlen(memory, call.s) >= call.n)
    <2>1. ~MoveDefined(call)
      BY <1>2 DEF Strings, MoveDefined
    <2>2. memory' = left.mem /\ off' = left.off
      BY <1>2 DEF Leaves
    <2>3. QED
      BY <1>2, <2>1, <2>2 DEF StringExact
  <1>3. CASE call.op = "memcpy"
    <2>1. call.d \in Addr /\ call.s \in Addr /\ call.n \in Nat /\ call.op \notin Strings
      BY <1>1, <1>3 DEF LibInv, CallOK, Strings
    <2> DEFINE left == memcpy(memory, call.d, call.s, call.n)
    <2>2. memory' = left.mem /\ off' = left.off
      BY <1>3 DEF Answer, Leaves
    <2>3. MoveDefined(call) /\ ~left.off => left.mem = Holding(call.d, Moved(call))
      BY <1>1, <1>3, <2>1, MemcpyExact
    <2> HIDE DEF left
    <2>4. QED
      BY <2>1, <2>2, <2>3 DEF StringDefined
  <1>4. CASE call.op = "memmove"
    <2>1. call.d \in Addr /\ call.s \in Addr /\ call.n \in Nat /\ call.op \notin Strings
      BY <1>1, <1>4 DEF LibInv, CallOK, Strings
    <2> DEFINE left == memmove(memory, call.d, call.s, call.n)
    <2>2. memory' = left.mem /\ off' = left.off
      BY <1>4 DEF Answer, Leaves
    <2>3. ~left.off => left.mem = Holding(call.d, Moved(call))
      BY <1>1, <1>4, <2>1, MemmoveExact
    <2> HIDE DEF left
    <2>4. QED
      BY <2>1, <2>2, <2>3 DEF StringDefined
  <1>5. CASE call.op = "memset"
    <2>1. call.d \in Addr /\ call.value \in Bytes /\ call.n \in Nat /\ call.op \notin Strings
      BY <1>1, <1>5 DEF LibInv, CallOK, Strings
    <2> DEFINE left == memset(memory, call.d, call.value, call.n)
    <2>2. memory' = left.mem /\ off' = left.off
      BY <1>5 DEF Answer, Leaves
    <2>3. left.mem = Holding(call.d, Moved(call))
      BY <1>1, <1>5, <2>1, MemsetExact
    <2> HIDE DEF left
    <2>4. QED
      BY <2>1, <2>2, <2>3 DEF StringDefined
  <1>6. CASE call.op = "strcpy"
    <2>1. call.d \in Addr /\ call.s \in Addr /\ call.op \in Strings
      BY <1>6 DEF LibInv, CallOK, Strings
    <2>2. Leaves(strcpy(memory, call.d, call.s))
      BY <1>6 DEF Answer
    <2>3. StringExact(call, strcpy(memory, call.d, call.s))
      BY <1>1, <1>6, <2>1, StrcpyExact
    <2>4. QED
      BY <1>2, <2>1, <2>2, <2>3
  <1>7. CASE call.op = "strcat"
    <2>1. call.d \in Addr /\ call.s \in Addr /\ call.op \in Strings /\ End(memory, call.d) # None
      BY <1>7 DEF LibInv, CallOK, Strings
    <2>2. Leaves(strcat(memory, call.d, call.s))
      BY <1>7 DEF Answer
    <2>3. StringExact(call, strcat(memory, call.d, call.s))
      BY <1>1, <1>7, <2>1, StrcatExact
    <2>4. QED
      BY <1>2, <2>1, <2>2, <2>3
  <1>8. CASE call.op = "strncat"
    <2>1. call.d \in Addr /\ call.s \in Addr /\ call.op \in Strings /\ call.n \in Nat
          /\ End(memory, call.d) # None
      BY <1>1, <1>8 DEF LibInv, CallOK, Strings
    <2>2. Leaves(strncat(memory, call.d, call.s, call.n))
      BY <1>8 DEF Answer
    <2>3. StringExact(call, strncat(memory, call.d, call.s, call.n))
      BY <1>1, <1>8, <2>1, StrncatExact
    <2>4. QED
      BY <1>2, <2>1, <2>2, <2>3
  <1>9. CASE call.op = "strncpy"
    <2>1. call.d \in Addr /\ call.s \in Addr /\ call.op \in Strings /\ call.n \in Nat
      BY <1>1, <1>9 DEF LibInv, CallOK, Strings
    <2>2. Leaves(strncpy(memory, call.d, call.s, call.n))
      BY <1>9 DEF Answer
    <2>3. StringExact(call, strncpy(memory, call.d, call.s, call.n))
      BY <1>1, <1>9, <2>1, StrncpyExact
    <2>4. QED
      BY <1>2, <2>1, <2>2, <2>3
  <1>10. CASE call.op \in {"to_string", "to_hstring"}
    BY <1>10 DEF MoveDefined, StringDefined, Strings
  <1>11. QED
    BY <1>1, <1>3, <1>4, <1>5, <1>6, <1>7, <1>8, <1>9, <1>10 DEF Answer

\* Whatever is called, and wherever it runs to, the memory stays one of bytes
\* (string.c:43-79, utils.c:30-45, 122-125).
THEOREM LibraryTyping == LibSpec => []LibTypeOK
  <1>1. LibInv => LibTypeOK
    BY DEF LibInv
  <1>2. QED
    BY <1>1, LibraryInvariance, PTL

\* Every call of a function that writes leaves at its destination what it should
\* and nothing else, for a memory of any size and strings of any length: memmove
\* however source and destination overlap, memcpy where it does not run into its
\* own source, the string functions where their writes do not run into the string;
\* and the string functions stay inside what fits, but for strncpy of a string
\* that is not shorter than n (string.c:43-79, utils.c:30-45, 122-125).
THEOREM CallsAreExact == LibSpec => CallsExact
  <1> DEFINE N == call # Idle /\ call' = Idle =>
        /\ MoveDefined(call) /\ ~off' => memory' = Holding(call.d, Moved(call))
        /\ StringDefined(call) /\ ~off' => memory' = Holding(call.d, Wanted(call))
        /\ StringDefined(call) /\ call.d + Len(Wanted(call)) - 1 \in 0 .. Size =>
              (off' <=> call.op = "strncpy" /\ strlen(memory, call.s) >= call.n)
  <1>1. LibInv /\ [LibNext]_libVars => [N]_libVars
    <2>1. SUFFICES ASSUME LibInv, [LibNext]_libVars, call # Idle, call' = Idle PROVE N \/ libVars' = libVars
      BY DEF libVars
    <2>2. CASE Answer
      BY <2>1, <2>2, AnswerExact
    <2>3. CASE Calls \/ Prints \/ \E adr \in Addr, b \in Bytes : Poke(adr, b)
      BY <2>1, <2>3 DEF Calls, Prints, Call, Poke
    <2>4. QED
      BY <2>1, <2>2, <2>3 DEF LibNext
  <1> HIDE DEF N
  <1>2. LibSpec => [][N]_libVars
    BY <1>1, LibraryInvariance, PTL DEF LibSpec
  <1>3. QED
    BY <1>2 DEF CallsExact, N

\* The least of a set of numbers.
LEMMA LeastIs ==
    ASSUME NEW S, S \subseteq Int, NEW k \in S, \A x \in S : k <= x
    PROVE  LeastOf(S) = k
  <1>1. LeastOf(S) \in S /\ \A x \in S : LeastOf(S) <= x
    BY DEF LeastOf
  <1> DEFINE l == LeastOf(S)
  <1>2. l \in Int /\ k \in Int /\ l <= k /\ k <= l
    BY <1>1
  <1> HIDE DEF l
  <1>3. QED
    BY <1>2 DEF l

\* Where the loops of memcmp, and of strcmp and strncmp, stop.
Differs(m, s, t, j) == (s + j \in DOMAIN m /\ t + j \in DOMAIN m) => m[s + j] # m[t + j]
DiffersOrEnds(m, s, t, j) ==
    (s + j \in DOMAIN m /\ t + j \in DOMAIN m) => (m[s + j] # m[t + j] \/ m[s + j] = NUL)
ByteStep(m, s, t, n) ==
    LET k == IF \E j \in 0 .. n : Differs(m, s, t, j)
               THEN CHOOSE j \in 0 .. n : Differs(m, s, t, j) /\ \A h \in 0 .. j - 1 : ~Differs(m, s, t, h)
               ELSE None
    IN IF k = None THEN n ELSE k
CharStep(m, s, t, n) ==
    LET k == IF \E j \in 0 .. n : DiffersOrEnds(m, s, t, j)
               THEN CHOOSE j \in 0 .. n : /\ DiffersOrEnds(m, s, t, j)
                                          /\ \A h \in 0 .. j - 1 : ~DiffersOrEnds(m, s, t, h)
               ELSE None
    IN IF k = None THEN n ELSE k

\* The values of the comparisons at these places.
LEMMA MemcmpStops ==
    ASSUME NEW m, NEW s, NEW t, NEW n
    PROVE  memcmp(m, s, t, n) =
              IF ByteStep(m, s, t, n) = n THEN 0
              ELSE IF At(m, s + ByteStep(m, s, t, n)) = None \/ At(m, t + ByteStep(m, s, t, n)) = None THEN None
              ELSE m[s + ByteStep(m, s, t, n)] - m[t + ByteStep(m, s, t, n)]
  BY DEF memcmp, InStep, FirstIn, ByteStep, Differs

\* The same for strcmp,
LEMMA StrcmpStops ==
    ASSUME NEW m, NEW s, NEW t
    PROVE  strcmp(m, s, t) =
              IF At(m, s + CharStep(m, s, t, Len(m))) = None \/ At(m, t + CharStep(m, s, t, Len(m))) = None THEN None
              ELSE Signed(m[s + CharStep(m, s, t, Len(m))]) - Signed(m[t + CharStep(m, s, t, Len(m))])
  BY DEF strcmp, InStep, FirstIn, CharStep, DiffersOrEnds

\* and for strncmp.
LEMMA StrncmpStops ==
    ASSUME NEW m, NEW s, NEW t, NEW n
    PROVE  strncmp(m, s, t, n) =
              IF CharStep(m, s, t, n) = n THEN 0
              ELSE IF At(m, s + CharStep(m, s, t, n)) = None \/ At(m, t + CharStep(m, s, t, n)) = None THEN None
              ELSE m[s + CharStep(m, s, t, n)] - m[t + CharStep(m, s, t, n)]
  BY DEF strncmp, InStep, FirstIn, CharStep, DiffersOrEnds

\* These places are the first where the loops stop.
LEMMA ByteStepIs ==
    ASSUME NEW m, NEW s, NEW t, NEW n \in Nat
    PROVE  /\ ByteStep(m, s, t, n) \in 0 .. n
           /\ \A h \in 0 .. ByteStep(m, s, t, n) - 1 : ~Differs(m, s, t, h)
           /\ ByteStep(m, s, t, n) # n => Differs(m, s, t, ByteStep(m, s, t, n))
  <1> DEFINE k == ByteStep(m, s, t, n)
             S == {j \in 0 .. n : Differs(m, s, t, j)}
  <1>1. CASE S = {}
    <2>1. \A j \in 0 .. n : ~Differs(m, s, t, j)
      BY <1>1
    <2>2. k = n
      BY <2>1 DEF ByteStep
    <2>3. QED
      BY <2>1, <2>2
  <1>2. CASE S # {}
    <2>1. PICK e \in S : \A h \in S : e <= h
      <3>1. S \subseteq Nat
        OBVIOUS
      <3>2. QED
        BY <1>2, <3>1, Least, Zenon
    <2>2. e \in 0 .. n /\ Differs(m, s, t, e) /\ \A h \in 0 .. e - 1 : ~Differs(m, s, t, h)
      BY <2>1
    <2> DEFINE c == CHOOSE j \in 0 .. n : Differs(m, s, t, j) /\ \A h \in 0 .. j - 1 : ~Differs(m, s, t, h)
    <2>3. c \in 0 .. n /\ Differs(m, s, t, c) /\ \A h \in 0 .. c - 1 : ~Differs(m, s, t, h)
      BY <2>2
    <2>4. k = IF c = None THEN n ELSE c
      BY <2>2 DEF ByteStep
    <2> HIDE DEF c
    <2>5. c # None
      BY <2>3 DEF None
    <2>6. QED
      BY <2>3, <2>4, <2>5
  <1>3. QED
    BY <1>1, <1>2

\* The same for the string functions.
LEMMA CharStepIs ==
    ASSUME NEW m, NEW s, NEW t, NEW n \in Nat
    PROVE  /\ CharStep(m, s, t, n) \in 0 .. n
           /\ \A h \in 0 .. CharStep(m, s, t, n) - 1 : ~DiffersOrEnds(m, s, t, h)
           /\ CharStep(m, s, t, n) # n => DiffersOrEnds(m, s, t, CharStep(m, s, t, n))
  <1> DEFINE k == CharStep(m, s, t, n)
             S == {j \in 0 .. n : DiffersOrEnds(m, s, t, j)}
  <1>1. CASE S = {}
    <2>1. \A j \in 0 .. n : ~DiffersOrEnds(m, s, t, j)
      BY <1>1
    <2>2. k = n
      BY <2>1 DEF CharStep
    <2>3. QED
      BY <2>1, <2>2
  <1>2. CASE S # {}
    <2>1. PICK e \in S : \A h \in S : e <= h
      <3>1. S \subseteq Nat
        OBVIOUS
      <3>2. QED
        BY <1>2, <3>1, Least, Zenon
    <2>2. e \in 0 .. n /\ DiffersOrEnds(m, s, t, e) /\ \A h \in 0 .. e - 1 : ~DiffersOrEnds(m, s, t, h)
      BY <2>1
    <2> DEFINE c == CHOOSE j \in 0 .. n : /\ DiffersOrEnds(m, s, t, j)
                                          /\ \A h \in 0 .. j - 1 : ~DiffersOrEnds(m, s, t, h)
    <2>3. c \in 0 .. n /\ DiffersOrEnds(m, s, t, c) /\ \A h \in 0 .. c - 1 : ~DiffersOrEnds(m, s, t, h)
      BY <2>2
    <2>4. k = IF c = None THEN n ELSE c
      BY <2>2 DEF CharStep
    <2> HIDE DEF c
    <2>5. c # None
      BY <2>3 DEF None
    <2>6. QED
      BY <2>3, <2>4, <2>5
  <1>3. QED
    BY <1>1, <1>2

\* The two runs of bytes are the same for k bytes, and then one ends or they
\* differ.
PartAt(s, t, k, lx, ly) ==
    /\ k \in Nat /\ lx \in Nat /\ ly \in Nat /\ k <= lx /\ k <= ly
    /\ \A h \in 0 .. k - 1 : memory[s + h] = memory[t + h]
    /\ k < lx /\ k < ly => memory[s + k] # memory[t + k]

\* The first place where two sequences differ.
FirstOther(x, y) == LeastOf({j \in DOMAIN x \cap DOMAIN y : x[j] # y[j]})

\* Two runs of bytes that part at k: which is a prefix of which, and what
\* decides their order.
LEMMA Parted ==
    ASSUME NEW x, NEW y, NEW s \in Int, NEW t \in Int, NEW lx, NEW ly, NEW k,
           Reads(x, lx, s), Reads(y, ly, t), PartAt(s, t, k, lx, ly)
    PROVE  /\ k = lx /\ k = ly => x = y
           /\ k = lx /\ k < ly => x # y /\ IsPrefix(x, y) /\ y[Len(x) + 1] = memory[t + k]
           /\ k < lx /\ k = ly => x # y /\ ~IsPrefix(x, y) /\ IsPrefix(y, x) /\ x[Len(y) + 1] = memory[s + k]
           /\ k < lx /\ k < ly =>
                /\ x # y /\ ~IsPrefix(x, y) /\ ~IsPrefix(y, x)
                /\ FirstOther(x, y) = k + 1
                /\ x[k + 1] = memory[s + k] /\ y[k + 1] = memory[t + k]
  <1>1. /\ x \in Seq(Bytes) /\ Len(x) = lx /\ \A j \in 1 .. lx : x[j] = memory[s + j - 1]
        /\ y \in Seq(Bytes) /\ Len(y) = ly /\ \A j \in 1 .. ly : y[j] = memory[t + j - 1]
    BY DEF Reads
  <1>2. /\ k \in Nat /\ lx \in Nat /\ ly \in Nat /\ k <= lx /\ k <= ly
        /\ k < lx /\ k < ly => memory[s + k] # memory[t + k]
    BY DEF PartAt
  <1>3. \A j \in 1 .. k : x[j] = y[j]
    <2>1. TAKE j \in 1 .. k
    <2>2. j - 1 \in 0 .. k - 1 /\ j \in 1 .. lx /\ j \in 1 .. ly
      BY <1>2
    <2>3. memory[s + (j - 1)] = memory[t + (j - 1)]
      BY <2>2 DEF PartAt
    <2>4. s + (j - 1) = s + j - 1 /\ t + (j - 1) = t + j - 1
      BY <2>2
    <2>5. QED
      BY <1>1, <2>2, <2>3, <2>4
  <1>4. k < lx => x[k + 1] = memory[s + k]
    <2>1. k < lx => k + 1 \in 1 .. lx /\ s + (k + 1) - 1 = s + k
      BY <1>2
    <2>2. QED
      BY <1>1, <2>1
  <1>5. k < ly => y[k + 1] = memory[t + k]
    <2>1. k < ly => k + 1 \in 1 .. ly /\ t + (k + 1) - 1 = t + k
      BY <1>2
    <2>2. QED
      BY <1>1, <2>1
  <1>6. CASE k = lx /\ k = ly
    BY <1>1, <1>2, <1>3, <1>6
  <1>7. CASE k = lx /\ k < ly
    <2>1. SubSeq(x, 1, Len(x)) = SubSeq(y, 1, Len(x))
      BY <1>1, <1>2, <1>3, <1>7
    <2>2. QED
      BY <1>1, <1>2, <1>5, <1>7, <2>1 DEF IsPrefix
  <1>8. CASE k < lx /\ k = ly
    <2>1. SubSeq(y, 1, Len(y)) = SubSeq(x, 1, Len(y))
      BY <1>1, <1>2, <1>3, <1>8
    <2>2. QED
      BY <1>1, <1>2, <1>4, <1>8, <2>1 DEF IsPrefix
  <1>9. CASE k < lx /\ k < ly
    <2>1. k + 1 \in 1 .. lx /\ k + 1 \in 1 .. ly /\ x[k + 1] # y[k + 1]
      BY <1>2, <1>4, <1>5, <1>9
    <2>2. x # y
      BY <2>1
    <2>3. ~IsPrefix(x, y) /\ ~IsPrefix(y, x)
      <3>1. ASSUME IsPrefix(x, y) PROVE FALSE
        <4>1. lx <= ly /\ SubSeq(x, 1, lx) = SubSeq(y, 1, lx)
          BY <1>1, <3>1 DEF IsPrefix
        <4>2. SubSeq(x, 1, lx)[k + 1] = x[k + 1] /\ SubSeq(y, 1, lx)[k + 1] = y[k + 1]
          BY <1>1, <1>2, <2>1, <4>1
        <4>3. QED
          BY <2>1, <4>1, <4>2
      <3>2. ASSUME IsPrefix(y, x) PROVE FALSE
        <4>1. ly <= lx /\ SubSeq(y, 1, ly) = SubSeq(x, 1, ly)
          BY <1>1, <3>2 DEF IsPrefix
        <4>2. SubSeq(y, 1, ly)[k + 1] = y[k + 1] /\ SubSeq(x, 1, ly)[k + 1] = x[k + 1]
          BY <1>1, <1>2, <2>1, <4>1
        <4>3. QED
          BY <2>1, <4>1, <4>2
      <3>3. QED
        BY <3>1, <3>2
    <2> DEFINE S == {j \in DOMAIN x \cap DOMAIN y : x[j] # y[j]}
    <2>4. LeastOf(S) = k + 1
      <3>1. DOMAIN x = 1 .. lx /\ DOMAIN y = 1 .. ly
        BY <1>1
      <3>2. S \subseteq Int /\ k + 1 \in S
        BY <2>1, <3>1
      <3>3. \A j \in S : k + 1 <= j
        BY <1>2, <1>3, <3>1
      <3> HIDE DEF S
      <3>4. QED
        BY <3>2, <3>3, LeastIs
    <2>5. FirstOther(x, y) = k + 1
      BY <2>4 DEF FirstOther
    <2> HIDE DEF S
    <2>6. x[k + 1] = memory[s + k] /\ y[k + 1] = memory[t + k]
      BY <1>4, <1>5, <1>9
    <2>7. k # lx /\ k # ly
      BY <1>2, <1>9
    <2>8. QED
      BY <1>9, <2>2, <2>3, <2>5, <2>6, <2>7
  <1>10. QED
    BY <1>2, <1>6, <1>7, <1>8, <1>9

\* Their order by unsigned bytes,
LEMMA PlainOrder ==
    ASSUME NEW x, NEW y, NEW s \in Int, NEW t \in Int, NEW lx, NEW ly, NEW k,
           Reads(x, lx, s), Reads(y, ly, t), PartAt(s, t, k, lx, ly)
    PROVE  Order(x, y, Plain) =
              IF k = lx /\ k = ly THEN 0
              ELSE IF k = lx THEN Sign(0 - memory[t + k])
              ELSE IF k = ly THEN Sign(memory[s + k])
              ELSE Sign(memory[s + k] - memory[t + k])
  <1>1. k \in Nat /\ lx \in Nat /\ ly \in Nat /\ k <= lx /\ k <= ly
    BY DEF PartAt
  <1>2. Order(x, y, Plain) =
           IF x = y THEN 0
           ELSE IF IsPrefix(x, y) THEN Sign(0 - y[Len(x) + 1])
           ELSE IF IsPrefix(y, x) THEN Sign(x[Len(y) + 1])
           ELSE Sign(x[FirstOther(x, y)] - y[FirstOther(x, y)])
    BY DEF Order, Plain, FirstOther
  <1>3. k < lx \/ k = lx
    BY <1>1
  <1>4. k < ly \/ k = ly
    BY <1>1
  <1>5. QED
    BY <1>2, <1>3, <1>4, <1>1, Parted

\* The order o of two runs of bytes that part at k.
SignedAt(s, t, lx, ly, k, o) ==
    o = IF k = lx /\ k = ly THEN 0
        ELSE IF k = lx THEN Sign(0 - Signed(memory[t + k]))
        ELSE IF k = ly THEN Sign(Signed(memory[s + k]))
        ELSE Sign(Signed(memory[s + k]) - Signed(memory[t + k]))

\* and by signed ones.
LEMMA SignedOrder ==
    ASSUME NEW x, NEW y, NEW s \in Int, NEW t \in Int, NEW lx, NEW ly, NEW k,
           Reads(x, lx, s), Reads(y, ly, t), PartAt(s, t, k, lx, ly)
    PROVE  SignedAt(s, t, lx, ly, k, Order(x, y, Signed))
  <1>1. k \in Nat /\ lx \in Nat /\ ly \in Nat /\ k <= lx /\ k <= ly
    BY DEF PartAt
  <1>2. Order(x, y, Signed) =
           IF x = y THEN 0
           ELSE IF IsPrefix(x, y) THEN Sign(0 - Signed(y[Len(x) + 1]))
           ELSE IF IsPrefix(y, x) THEN Sign(Signed(x[Len(y) + 1]))
           ELSE Sign(Signed(x[FirstOther(x, y)]) - Signed(y[FirstOther(x, y)]))
    BY DEF Order, FirstOther
  <1>3. k < lx \/ k = lx
    BY <1>1
  <1>4. k < ly \/ k = ly
    BY <1>1
  <1>5. QED
    BY <1>2, <1>3, <1>4, <1>1, Parted DEF SignedAt

\* A byte of the memory is no None.
LEMMA AtIs ==
    ASSUME memory \in [Addr -> Bytes], NEW adr \in Addr
    PROVE  At(memory, adr) # None /\ memory[adr] \in 0 .. 255 /\ memory[adr] \in Int
  <1>1. memory[adr] \in 0 .. 255 /\ At(memory, adr) = memory[adr]
    BY Sizes DEF At
  <1>2. QED
    BY <1>1 DEF None

\* Where strcmp and strncmp stop is in both strings or where one ends.
StopsAt(s, t, n, k) ==
    /\ k \in 0 .. n /\ k <= End(memory, s) - s /\ k <= End(memory, t) - t
    /\ s + k \in Addr /\ t + k \in Addr
    /\ \A h \in 0 .. k - 1 : memory[s + h] = memory[t + h] /\ memory[s + h] # NUL
    /\ k < n => memory[s + k] # memory[t + k] \/ memory[s + k] = NUL

\* Neither loop runs past the end of a string.
LEMMA StringsPart ==
    ASSUME memory \in [Addr -> Bytes], NEW s \in Addr, NEW t \in Addr, NEW n \in Nat,
           End(memory, s) # None, End(memory, t) # None
    PROVE  StopsAt(s, t, n, CharStep(memory, s, t, n))
  <1> DEFINE e == End(memory, s)
             f == End(memory, t)
             k == CharStep(memory, s, t, n)
  <1>1. DOMAIN memory = 1 .. Size /\ s \in 1 .. Size /\ t \in 1 .. Size /\ Addr = 1 .. Size /\ Size \in Nat
    BY MemoryIs
  <1>2. /\ e \in Int /\ s <= e /\ e <= Size /\ memory[e] = NUL
        /\ f \in Int /\ t <= f /\ f <= Size /\ memory[f] = NUL
    BY StringIs
  <1>3. /\ k \in 0 .. n
        /\ \A h \in 0 .. k - 1 : ~DiffersOrEnds(memory, s, t, h)
        /\ k # n => DiffersOrEnds(memory, s, t, k)
    BY CharStepIs
  <1> HIDE DEF e, f, k
  <1>4. \A h \in 0 .. k - 1 : memory[s + h] = memory[t + h] /\ memory[s + h] # NUL
    BY <1>3 DEF DiffersOrEnds
  <1>5. k <= e - s
    <2>1. SUFFICES ASSUME e - s \in 0 .. k - 1 PROVE FALSE
      BY <1>1, <1>2, <1>3
    <2>2. s + (e - s) = e
      BY <1>1, <1>2
    <2>3. QED
      BY <1>2, <1>4, <2>1, <2>2
  <1>6. k <= f - t
    <2>1. SUFFICES ASSUME f - t \in 0 .. k - 1 PROVE FALSE
      BY <1>1, <1>2, <1>3
    <2>2. t + (f - t) = f
      BY <1>1, <1>2
    <2>3. QED
      BY <1>2, <1>4, <2>1, <2>2
  <1>7. s + k \in Addr /\ t + k \in Addr
    BY <1>1, <1>2, <1>3, <1>5, <1>6
  <1>8. k < n => memory[s + k] # memory[t + k] \/ memory[s + k] = NUL
    BY <1>1, <1>3, <1>7 DEF DiffersOrEnds
  <1>9. QED
    BY <1>3, <1>4, <1>5, <1>6, <1>7, <1>8 DEF e, f, k, StopsAt

\* A run of bytes of the memory,
LEMMA SubSeqReads ==
    ASSUME memory \in [Addr -> Bytes], NEW n \in Nat, NEW s \in 1 .. Size + 1 - n
    PROVE  Reads(SubSeq(memory, s, s + n - 1), n, s)
  <1>1. memory \in Seq(Bytes) /\ Len(memory) = Size /\ Size \in Nat
    BY MemoryIs
  <1> DEFINE x == SubSeq(memory, s, s + n - 1)
  <1>2. x \in Seq(Bytes) /\ Len(x) = n /\ \A j \in 1 .. n : x[j] = memory[s + j - 1]
    BY <1>1
  <1> HIDE DEF x
  <1>3. QED
    BY <1>2 DEF Reads, x

\* and the characters of a string.
LEMMA EndsThere ==
    ASSUME memory \in [Addr -> Bytes], NEW adr \in Addr, End(memory, adr) # None
    PROVE  /\ End(memory, adr) \in Int /\ End(memory, adr) <= Size
           /\ End(memory, adr) - adr \in Nat /\ Reads(Chars(memory, adr), End(memory, adr) - adr, adr)
           /\ memory[adr + (End(memory, adr) - adr)] = NUL
           /\ \A h \in 0 .. End(memory, adr) - adr - 1 : memory[adr + h] # NUL
  <1> DEFINE e == End(memory, adr)
  <1>1. adr \in Int /\ Len(memory) = Size
    BY MemoryIs DEF Addr
  <1>2. /\ e \in Int /\ adr <= e /\ e <= Size /\ memory[e] = NUL /\ Reads(Chars(memory, adr), e - adr, adr)
        /\ StringTo(memory, adr, e)
    BY StringIs
  <1> HIDE DEF e
  <1>3. adr + (e - adr) = e /\ e - adr \in Nat
    BY <1>1, <1>2
  <1>4. \A h \in 0 .. e - adr - 1 : memory[adr + h] # NUL
    <2>1. TAKE h \in 0 .. e - adr - 1
    <2>2. adr + h \in adr .. e - 1
      BY <1>1, <1>2
    <2>3. QED
      BY <1>2, <2>2 DEF StringTo
  <1>5. QED
    BY <1>2, <1>3, <1>4 DEF e

\* memcmp returns the order of n bytes,
LEMMA MemcmpRight ==
    ASSUME memory \in [Addr -> Bytes], NEW n \in Nat, NEW s \in 1 .. Size + 1 - n, NEW t \in 1 .. Size + 1 - n
    PROVE  Sign(memcmp(memory, s, t, n))
           = Order(SubSeq(memory, s, s + n - 1), SubSeq(memory, t, t + n - 1), Plain)
  <1> DEFINE k == ByteStep(memory, s, t, n)
             x == SubSeq(memory, s, s + n - 1)
             y == SubSeq(memory, t, t + n - 1)
  <1>1. /\ DOMAIN memory = 1 .. Size /\ Addr = 1 .. Size /\ Size \in Nat /\ memory \in Seq(Bytes) /\ Len(memory) = Size
        /\ s \in Int /\ t \in Int
    BY MemoryIs
  <1>2. /\ k \in 0 .. n
        /\ \A h \in 0 .. k - 1 : ~Differs(memory, s, t, h)
        /\ k # n => Differs(memory, s, t, k)
    BY ByteStepIs
  <1>3. Reads(x, n, s) /\ Reads(y, n, t)
    BY <1>1, SubSeqReads
  <1>4. memcmp(memory, s, t, n) =
           IF k = n THEN 0
           ELSE IF At(memory, s + k) = None \/ At(memory, t + k) = None THEN None
           ELSE memory[s + k] - memory[t + k]
    BY MemcmpStops
  <1> HIDE DEF k, x, y
  <1>5. PartAt(s, t, k, n, n)
    <2>1. \A h \in 0 .. k - 1 : memory[s + h] = memory[t + h]
      BY <1>2 DEF Differs
    <2>2. k < n => s + k \in Addr /\ t + k \in Addr
      BY <1>1, <1>2
    <2>3. k < n => memory[s + k] # memory[t + k]
      BY <1>1, <1>2, <2>2 DEF Differs
    <2>4. QED
      BY <1>2, <2>1, <2>3 DEF PartAt
  <1>6. Order(x, y, Plain) = IF k = n THEN 0 ELSE Sign(memory[s + k] - memory[t + k])
    BY <1>1, <1>3, <1>5, PlainOrder
  <1>7. CASE k = n
    <2>1. Sign(0) = 0
      BY DEF Sign
    <2>2. QED
      BY <1>4, <1>6, <1>7, <2>1 DEF x, y
  <1>8. CASE k # n
    <2>1. s + k \in Addr /\ t + k \in Addr
      BY <1>1, <1>2, <1>8
    <2>2. At(memory, s + k) # None /\ At(memory, t + k) # None
      BY <2>1, AtIs
    <2>3. QED
      BY <1>4, <1>6, <1>8, <2>2 DEF x, y
  <1>9. QED
    BY <1>7, <1>8

\* strcmp that of two strings, of signed characters,
LEMMA StrcmpRight ==
    ASSUME memory \in [Addr -> Bytes], NEW s \in Addr, NEW t \in Addr,
           End(memory, s) # None, End(memory, t) # None
    PROVE  Sign(strcmp(memory, s, t)) = Order(Chars(memory, s), Chars(memory, t), Signed)
  <1> DEFINE n == Len(memory)
             k == CharStep(memory, s, t, n)
             x == Chars(memory, s)
             y == Chars(memory, t)
             lx == End(memory, s) - s
             ly == End(memory, t) - t
  <1>1. n = Size /\ n \in Nat /\ s \in Int /\ t \in Int /\ s >= 1
    BY MemoryIs DEF Addr
  <1>2. /\ lx \in Nat /\ Reads(x, lx, s) /\ memory[s + lx] = NUL /\ \A h \in 0 .. lx - 1 : memory[s + h] # NUL
        /\ ly \in Nat /\ Reads(y, ly, t) /\ memory[t + ly] = NUL
        /\ lx < n
    <2>1. \A adr \in {s, t} : /\ End(memory, adr) - adr \in Nat /\ Reads(Chars(memory, adr), End(memory, adr) - adr, adr)
                            /\ memory[adr + (End(memory, adr) - adr)] = NUL
                            /\ End(memory, adr) \in Int /\ End(memory, adr) <= Size
      BY <1>1, EndsThere
    <2>2. QED
      BY <1>1, <2>1, EndsThere
  <1>3. /\ k \in 0 .. n /\ k <= lx /\ k <= ly /\ s + k \in Addr /\ t + k \in Addr
        /\ \A h \in 0 .. k - 1 : memory[s + h] = memory[t + h]
        /\ k < n => memory[s + k] # memory[t + k] \/ memory[s + k] = NUL
    <2>1. StopsAt(s, t, n, k)
      BY <1>1, StringsPart
    <2>2. QED
      BY <2>1 DEF StopsAt
  <1>4. strcmp(memory, s, t) = IF At(memory, s + k) = None \/ At(memory, t + k) = None THEN None
                               ELSE Signed(memory[s + k]) - Signed(memory[t + k])
    BY StrcmpStops
  <1>5. /\ At(memory, s + k) # None /\ At(memory, t + k) # None
        /\ memory[s + k] \in Int /\ memory[t + k] \in Int
    BY <1>3, AtIs
  <1> HIDE DEF n, k, x, y, lx, ly
  <1>6. PartAt(s, t, k, lx, ly)
    BY <1>1, <1>2, <1>3 DEF PartAt
  <1>7. SignedAt(s, t, lx, ly, k, Order(x, y, Signed))
    BY <1>1, <1>2, <1>6, SignedOrder
  <1>8. Signed(NUL) = 0 /\ Sign(0) = 0 /\ \A v \in Int : Signed(v) \in Int
    BY DEF Signed, NUL, Sign
  <1>9. k = lx => memory[s + k] = NUL
    BY <1>2
  <1>10. k = ly => memory[t + k] = NUL
    BY <1>2
  <1>11. Sign(strcmp(memory, s, t)) = Order(x, y, Signed)
    <2>1. strcmp(memory, s, t) = Signed(memory[s + k]) - Signed(memory[t + k])
      BY <1>4, <1>5
    <2>2. Signed(memory[s + k]) \in Int /\ Signed(memory[t + k]) \in Int
      BY <1>5, <1>8
    <2> DEFINE u == Signed(memory[s + k])
               v == Signed(memory[t + k])
    <2>3. (k = lx => u = 0) /\ (k = ly => v = 0)
      BY <1>8, <1>9, <1>10
    <2> HIDE DEF u, v
    <2>4. Order(x, y, Signed) = Sign(u - v)
      BY <1>7, <1>8, <2>2, <2>3 DEF SignedAt, u, v
    <2>5. QED
      BY <2>1, <2>4 DEF u, v
  <1>12. QED
    BY <1>11 DEF x, y

\* The first n characters of a string.
LEMMA FirstOfReads ==
    ASSUME NEW x, NEW lx \in Nat, NEW s \in Int, Reads(x, lx, s), NEW n \in Nat
    PROVE  Reads(FirstOf(x, n), IF n < lx THEN n ELSE lx, s)
  <1> DEFINE k == IF n < lx THEN n ELSE lx
  <1>1. k \in Nat /\ k <= lx
    OBVIOUS
  <1>2. FirstOf(x, n) = SubSeq(x, 1, k)
    BY DEF FirstOf, Reads
  <1> HIDE DEF k
  <1>3. Reads(SubSeq(x, 1, k), k, s)
    BY <1>1, ReadsLess
  <1>4. QED
    BY <1>2, <1>3 DEF k

\* strncmp that of their first n characters,
LEMMA StrncmpRight ==
    ASSUME memory \in [Addr -> Bytes], NEW s \in Addr, NEW t \in Addr, NEW n \in Nat,
           End(memory, s) # None, End(memory, t) # None
    PROVE  Sign(strncmp(memory, s, t, n))
           = Order(FirstOf(Chars(memory, s), n), FirstOf(Chars(memory, t), n), Plain)
  <1> DEFINE k == CharStep(memory, s, t, n)
             P == End(memory, s) - s
             Q == End(memory, t) - t
             lx == IF n < P THEN n ELSE P
             ly == IF n < Q THEN n ELSE Q
             x == FirstOf(Chars(memory, s), n)
             y == FirstOf(Chars(memory, t), n)
  <1>1. s \in Int /\ t \in Int
    BY MemoryIs DEF Addr
  <1>2. /\ P \in Nat /\ Reads(Chars(memory, s), P, s) /\ memory[s + P] = NUL
        /\ \A h \in 0 .. P - 1 : memory[s + h] # NUL
        /\ Q \in Nat /\ Reads(Chars(memory, t), Q, t) /\ memory[t + Q] = NUL
    BY EndsThere
  <1>3. StopsAt(s, t, n, k)
    BY StringsPart
  <1>4. strncmp(memory, s, t, n) =
           IF k = n THEN 0
           ELSE IF At(memory, s + k) = None \/ At(memory, t + k) = None THEN None
           ELSE memory[s + k] - memory[t + k]
    BY StrncmpStops
  <1>5. /\ k \in 0 .. n /\ k <= P /\ k <= Q /\ s + k \in Addr /\ t + k \in Addr
        /\ \A h \in 0 .. k - 1 : memory[s + h] = memory[t + h]
        /\ k < n => memory[s + k] # memory[t + k] \/ memory[s + k] = NUL
    BY <1>3 DEF StopsAt
  <1>6. /\ At(memory, s + k) # None /\ At(memory, t + k) # None
        /\ memory[s + k] \in Int /\ memory[t + k] \in Int
    BY <1>5, AtIs
  <1>7. Reads(x, lx, s) /\ Reads(y, ly, t)
    BY <1>1, <1>2, FirstOfReads
  <1> HIDE DEF k, P, Q, x, y
  <1>8. /\ lx \in Nat /\ ly \in Nat /\ k <= lx /\ k <= ly
        /\ lx <= n /\ ly <= n /\ (lx < n => lx = P) /\ (ly < n => ly = Q) /\ lx <= P
        /\ (k = n => k = lx /\ k = ly)
    BY <1>2, <1>5
  <1> HIDE DEF lx, ly
  <1>9. PartAt(s, t, k, lx, ly)
    <2>1. k < lx => memory[s + k] # NUL
      BY <1>2, <1>5, <1>8
    <2>2. QED
      BY <1>5, <1>8, <2>1 DEF PartAt
  <1>10. Order(x, y, Plain) =
              IF k = lx /\ k = ly THEN 0
              ELSE IF k = lx THEN Sign(0 - memory[t + k])
              ELSE IF k = ly THEN Sign(memory[s + k])
              ELSE Sign(memory[s + k] - memory[t + k])
    BY <1>1, <1>7, <1>9, PlainOrder
  <1>11. Sign(0) = 0
    BY DEF Sign
  <1>12. CASE k = n
    BY <1>4, <1>8, <1>10, <1>11, <1>12 DEF x, y
  <1>13. CASE k # n
    <2>1. k < n
      BY <1>5, <1>13
    <2>2. (k = lx => memory[s + k] = NUL) /\ (k = ly => memory[t + k] = NUL)
      BY <1>2, <1>8, <2>1
    <2>3. strncmp(memory, s, t, n) = memory[s + k] - memory[t + k]
      BY <1>4, <1>6, <1>13
    <2> DEFINE u == memory[s + k]
               v == memory[t + k]
    <2>4. u \in Int /\ v \in Int /\ (k = lx => u = 0) /\ (k = ly => v = 0)
      BY <1>6, <2>2 DEF NUL
    <2> HIDE DEF u, v
    <2>5. Order(x, y, Plain) = Sign(u - v)
      BY <1>10, <1>11, <2>4 DEF u, v
    <2>6. QED
      BY <2>3, <2>5 DEF u, v, x, y
  <1>14. QED
    BY <1>12, <1>13

\* strncmp finds the string at t at a, inside the string that ends at e.
LEMMA FoundAt ==
    ASSUME memory \in [Addr -> Bytes], NEW adr \in Addr, NEW t \in Addr,
           End(memory, adr) # None, End(memory, t) # None
    PROVE  strncmp(memory, adr, t, strlen(memory, t)) = 0
           <=> IsPrefix(Chars(memory, t), SubSeq(memory, adr, End(memory, adr)))
  <1> DEFINE l == End(memory, t) - t
             e == End(memory, adr)
             k == CharStep(memory, adr, t, l)
             x == Chars(memory, t)
             y == SubSeq(memory, adr, e)
  <1>1. adr \in Int /\ t \in Int /\ adr >= 1 /\ Size \in Nat
    BY MemoryIs DEF Addr
  <1>2. /\ l \in Nat /\ Reads(x, l, t) /\ memory[t + l] = NUL /\ \A h \in 0 .. l - 1 : memory[t + h] # NUL
        /\ e \in Int /\ e <= Size /\ e - adr \in Nat
    BY EndsThere
  <1>3. strlen(memory, t) = l
    BY StringIs
  <1>4. StopsAt(adr, t, l, k)
    BY <1>2, StringsPart
  <1>5. strncmp(memory, adr, t, l) =
           IF k = l THEN 0
           ELSE IF At(memory, adr + k) = None \/ At(memory, t + k) = None THEN None
           ELSE memory[adr + k] - memory[t + k]
    BY StrncmpStops
  <1>6. /\ k \in 0 .. l /\ k <= e - adr /\ adr + k \in Addr /\ t + k \in Addr
        /\ \A h \in 0 .. k - 1 : memory[adr + h] = memory[t + h]
        /\ k < l => memory[adr + k] # memory[t + k] \/ memory[adr + k] = NUL
    BY <1>4 DEF StopsAt
  <1>7. memory[adr + k] \in Int /\ memory[t + k] \in Int
    BY <1>6, AtIs
  <1>8. Reads(y, e - adr + 1, adr)
    <2> DEFINE n == e - adr + 1
    <2>1. n \in Nat /\ adr \in 1 .. Size + 1 - n /\ adr + n - 1 = e
      BY <1>1, <1>2
    <2> HIDE DEF n
    <2>2. Reads(SubSeq(memory, adr, adr + n - 1), n, adr)
      BY <2>1, SubSeqReads
    <2>3. QED
      BY <2>1, <2>2 DEF n
  <1> HIDE DEF l, e, k, x, y
  <1>9. strncmp(memory, adr, t, l) = 0 <=> k = l
    <2>1. ASSUME k # l PROVE memory[adr + k] # memory[t + k]
      BY <1>2, <1>6, <2>1
    <2>2. None # 0
      BY DEF None
    <2>3. QED
      BY <1>5, <1>7, <2>1, <2>2
  <1>10. /\ x \in Seq(Bytes) /\ Len(x) = l /\ \A j \in 1 .. l : x[j] = memory[t + j - 1]
         /\ y \in Seq(Bytes) /\ Len(y) = e - adr + 1 /\ \A j \in 1 .. e - adr + 1 : y[j] = memory[adr + j - 1]
    BY <1>2, <1>8 DEF Reads
  <1>11. ASSUME k = l PROVE IsPrefix(x, y)
    <2>1. l <= e - adr + 1
      BY <1>2, <1>6, <1>11
    <2>2. \A j \in 1 .. l : x[j] = y[j]
      <3>1. TAKE j \in 1 .. l
      <3>2. j - 1 \in 0 .. k - 1 /\ adr + (j - 1) = adr + j - 1 /\ t + (j - 1) = t + j - 1 /\ j \in 1 .. e - adr + 1
        BY <1>1, <1>2, <1>11, <2>1
      <3>3. memory[adr + (j - 1)] = memory[t + (j - 1)]
        BY <1>6, <3>2
      <3>4. QED
        BY <1>10, <3>2, <3>3
    <2>3. SubSeq(x, 1, l) = SubSeq(y, 1, l)
      BY <1>2, <1>10, <2>1, <2>2
    <2>4. QED
      BY <1>10, <2>1, <2>3 DEF IsPrefix
  <1>12. ASSUME IsPrefix(x, y), k # l PROVE FALSE
    <2>1. l <= e - adr + 1 /\ SubSeq(x, 1, l) = SubSeq(y, 1, l)
      BY <1>10, <1>12 DEF IsPrefix
    <2>2. k + 1 \in 1 .. l /\ k + 1 \in 1 .. e - adr + 1
      BY <1>2, <1>6, <1>12, <2>1
    <2>3. SubSeq(x, 1, l)[k + 1] = x[k + 1] /\ SubSeq(y, 1, l)[k + 1] = y[k + 1]
      BY <1>2, <1>10, <2>1, <2>2
    <2>4. x[k + 1] = memory[t + (k + 1) - 1] /\ y[k + 1] = memory[adr + (k + 1) - 1]
      BY <1>10, <2>2
    <2>5. adr + (k + 1) - 1 = adr + k /\ t + (k + 1) - 1 = t + k
      BY <1>1, <1>6
    <2>6. memory[adr + k] = memory[t + k]
      BY <2>1, <2>3, <2>4, <2>5
    <2>7. memory[adr + k] = NUL /\ k \in 0 .. l - 1
      BY <1>6, <1>12, <2>6, <1>2
    <2>8. QED
      BY <1>2, <2>6, <2>7
  <1>13. strncmp(memory, adr, t, l) = 0 <=> IsPrefix(x, y)
    BY <1>9, <1>11, <1>12
  <1>14. QED
    BY <1>3, <1>13 DEF x, y, e

\* strstr returns the first place where t stands in s.
LEMMA StrstrRight ==
    ASSUME memory \in [Addr -> Bytes], NEW s \in Addr, NEW t \in Addr,
           End(memory, s) # None, End(memory, t) # None,
           NEW S, S = {adr \in s .. End(memory, s) - 1 :
                          IsPrefix(Chars(memory, t), SubSeq(memory, adr, End(memory, s)))}
    PROVE  strstr(memory, s, t) = IF S = {} THEN NULL ELSE LeastOf(S)
  <1> DEFINE e == End(memory, s)
             l == strlen(memory, t)
             H(adr) == strncmp(memory, adr, t, l) = 0
             hit == IF \E adr \in s .. e - 1 : H(adr)
                      THEN CHOOSE adr \in s .. e - 1 : H(adr) /\ \A h \in s .. adr - 1 : ~H(h)
                      ELSE None
  <1>1. s \in Int /\ s >= 1 /\ Size \in Nat
    BY MemoryIs DEF Addr
  <1>2. e \in Int /\ e <= Size /\ StringTo(memory, s, e) /\ Len(memory) = Size /\ s <= e
    BY StringIs, MemoryIs
  <1>3. strstr(memory, s, t) = IF hit = None THEN NULL ELSE hit
    BY DEF strstr, FirstIn
  <1>4. \A adr \in s .. e - 1 : H(adr) <=> adr \in S
    <2>1. TAKE adr \in s .. e - 1
    <2>2. adr \in Addr /\ adr \in Nat /\ e \in adr .. Len(memory) /\ Len(memory) \in Nat
      BY <1>1, <1>2 DEF Addr
    <2>3. memory[e] = NUL /\ \A h \in adr .. e - 1 : memory[h] # NUL
      BY <1>1, <1>2, <2>2 DEF StringTo
    <2>4. End(memory, adr) = e
      <3> HIDE DEF e
      <3>1. QED
        BY <2>2, <2>3, EndFound
    <2>5. End(memory, adr) # None
      BY <2>4
    <2>6. H(adr) <=> IsPrefix(Chars(memory, t), SubSeq(memory, adr, End(memory, adr)))
      BY <2>2, <2>5, FoundAt
    <2>7. QED
      BY <2>4, <2>6
  <1>5. S \subseteq s .. e - 1
    OBVIOUS
  <1> HIDE DEF e, H
  <1>6. CASE S = {}
    <2>1. hit = None
      BY <1>4, <1>6
    <2>2. QED
      BY <1>3, <1>6, <2>1
  <1>7. CASE S # {}
    <2>1. PICK b \in S : \A h \in S : b <= h
      <3>1. S \subseteq Nat
        BY <1>1, <1>2, <1>5
      <3>2. QED
        BY <1>7, <3>1, Least, Zenon
    <2>2. b \in s .. e - 1 /\ H(b) /\ \A h \in s .. b - 1 : ~H(h)
      <3>1. b \in s .. e - 1
        BY <1>5
      <3>2. \A h \in s .. b - 1 : h \in s .. e - 1 /\ h \notin S
        BY <1>1, <1>2, <2>1, <3>1
      <3>3. QED
        BY <1>4, <3>1, <3>2
    <2> DEFINE c == CHOOSE adr \in s .. e - 1 : H(adr) /\ \A h \in s .. adr - 1 : ~H(h)
    <2>3. c \in s .. e - 1 /\ H(c) /\ \A h \in s .. c - 1 : ~H(h)
      BY <2>2
    <2>4. hit = c
      BY <2>2
    <2> HIDE DEF c, hit
    <2>5. c = b
      <3>1. b \notin s .. c - 1 /\ c \notin s .. b - 1
        BY <2>2, <2>3
      <3>2. QED
        BY <1>1, <1>2, <2>2, <2>3, <3>1
    <2>6. LeastOf(S) = b
      <3>1. S \subseteq Int
        BY <1>1, <1>2, <1>5
      <3>2. QED
        BY <2>1, <3>1, LeastIs
    <2>7. c # None
      BY <1>1, <2>3 DEF None
    <2>8. QED
      BY <1>3, <1>7, <2>4, <2>5, <2>6, <2>7
  <1>8. QED
    BY <1>6, <1>7

\* On any memory the comparisons return the order of the strings and strstr the
\* first place where one stands in the other (string.c:3-40).
THEOREM ComparisonsAreRight == LibSpec => []ComparisonsRight
  <1>1. LibInv => ComparisonsRight
    <2>1. SUFFICES ASSUME LibInv PROVE ComparisonsRight
      OBVIOUS
    <2>2. memory \in [Addr -> Bytes] /\ Lengths \subseteq Nat
      BY <2>1, LengthsIs DEF LibInv, LibTypeOK
    <2>3. \A n \in Lengths : \A s, t \in 1 .. Size + 1 - n :
              Sign(memcmp(memory, s, t, n))
              = Order(SubSeq(memory, s, s + n - 1), SubSeq(memory, t, t + n - 1), Plain)
      BY <2>2, MemcmpRight
    <2>4. ASSUME NEW s \in {adr \in Addr : IsString(adr)}, NEW t \in {adr \in Addr : IsString(adr)}
          PROVE  /\ Sign(strcmp(memory, s, t)) = Order(Chars(memory, s), Chars(memory, t), Signed)
                 /\ \A n \in Lengths : Sign(strncmp(memory, s, t, n))
                        = Order(FirstOf(Chars(memory, s), n), FirstOf(Chars(memory, t), n), Plain)
                 /\ LET places == {adr \in s .. End(memory, s) - 1 :
                                      IsPrefix(Chars(memory, t), SubSeq(memory, adr, End(memory, s)))}
                    IN strstr(memory, s, t) = IF places = {} THEN NULL ELSE LeastOf(places)
      <3>1. s \in Addr /\ t \in Addr /\ End(memory, s) # None /\ End(memory, t) # None
        BY <2>4 DEF IsString
      <3>2. Sign(strcmp(memory, s, t)) = Order(Chars(memory, s), Chars(memory, t), Signed)
        BY <2>2, <3>1, StrcmpRight
      <3>3. \A n \in Lengths : Sign(strncmp(memory, s, t, n))
                        = Order(FirstOf(Chars(memory, s), n), FirstOf(Chars(memory, t), n), Plain)
        BY <2>2, <3>1, StrncmpRight
      <3> DEFINE S == {adr \in s .. End(memory, s) - 1 :
                                      IsPrefix(Chars(memory, t), SubSeq(memory, adr, End(memory, s)))}
      <3>4. strstr(memory, s, t) = IF S = {} THEN NULL ELSE LeastOf(S)
        BY <2>2, <3>1, StrstrRight
      <3>5. QED
        BY <3>2, <3>3, <3>4
    <2>5. QED
      BY <2>3, <2>4 DEF ComparisonsRight
  <1>2. QED
    BY <1>1, LibraryInvariance, PTL

-----------------------------------------------------------------------------
\* Division by any number, and its one quotient and remainder,
LEMMA DivMod ==
    ASSUME NEW v \in Nat, NEW b \in Nat \ {0}
    PROVE  /\ v \div b \in Nat /\ v % b \in 0 .. b - 1
           /\ v = b * (v \div b) + (v % b)
  <1>1. v % b \in 0 .. b - 1
    OBVIOUS
  <1>2. v \div b \in Int
    OBVIOUS
  <1>3. v = b * (v \div b) + (v % b)
    OBVIOUS
  <1>4. v \div b >= 0
    <2> DEFINE q == v \div b
               r == v % b
    <2>1. q \in Int /\ r \in 0 .. b - 1 /\ v = b * q + r
      BY <1>1, <1>2, <1>3
    <2> HIDE DEF q, r
    <2>2. q <= -1 => b * q <= -b
      BY <2>1
    <2>3. QED
      BY <2>1, <2>2 DEF q
  <1>5. QED
    BY <1>1, <1>2, <1>3, <1>4

\* as there are no others.
LEMMA Unique ==
    ASSUME NEW b \in Nat \ {0}, NEW q \in Int, NEW r \in 0 .. b - 1, NEW k \in Int, NEW t \in 0 .. b - 1,
           b * q + r = b * k + t
    PROVE  q = k /\ r = t
  <1>1. b * (q - k) = t - r
    OBVIOUS
  <1> DEFINE d == q - k
  <1>2. d \in Int /\ b * d = t - r
    BY <1>1
  <1> HIDE DEF d
  <1>3. d >= 1 => b * d >= b
    BY <1>2
  <1>4. d <= -1 => b * d <= -b
    BY <1>2
  <1>5. d = 0
    BY <1>2, <1>3, <1>4
  <1>6. q = k
    BY <1>5 DEF d
  <1>7. QED
    BY <1>6

\* A multiple leaves no remainder,
LEMMA Multiple ==
    ASSUME NEW b \in Nat \ {0}, NEW q \in Nat
    PROVE  (q * b) % b = 0
  <1> DEFINE y == q * b
  <1>1. y \in Nat
    OBVIOUS
  <1>2. y = b * q + 0 
    OBVIOUS
  <1> HIDE DEF y
  <1>3. y \div b \in Int /\ y % b \in 0 .. b - 1 /\ y = b * (y \div b) + (y % b)
    BY <1>1, DivMod
  <1> DEFINE k == y \div b
             t == y % b
  <1> HIDE DEF k, t
  <1>4. k \in Int /\ t \in 0 .. b - 1 /\ b * q + 0 = b * k + t /\ 0 \in 0 .. b - 1 /\ q \in Int
    BY <1>2, <1>3 DEF k, t
  <1>5. t = 0
    BY <1>4, Unique
  <1>6. QED
    BY <1>5 DEF t, y

\* and a word does not wrap.
LEMMA SmallMod ==
    ASSUME NEW w \in Nat \ {0}, NEW x \in 0 .. w - 1
    PROVE  x % w = x
  <1>1. x \div w \in Nat /\ x % w \in 0 .. w - 1 /\ x = w * (x \div w) + (x % w)
    <2>1. x \in Nat
      OBVIOUS
    <2>2. QED
      BY <2>1, DivMod
  <1> DEFINE k == x \div w
             t == x % w
  <1> HIDE DEF k, t
  <1>2. k \in Int /\ t \in 0 .. w - 1 /\ w * 0 + x = w * k + t /\ 0 \in Int
    BY <1>1 DEF k, t
  <1>3. x = t
    BY <1>2, Unique
  <1>4. QED
    BY <1>3 DEF t

\* align_down and align_up return the nearest multiples of the alignment below
\* and above the value, align_up as long as value + alignment - 1 does not wrap
\* (utils.c:93-100, 145-148).
THEOREM NearestMultiples ==
    ASSUME NEW w \in Nat \ {0}, NEW v \in 0 .. w - 1, NEW b \in 1 .. w - 1
    PROVE  /\ align_down(v, b) % b = 0 /\ v - align_down(v, b) \in 0 .. b - 1
           /\ v + b - 1 < w => /\ align_up(v, b, w) % b = 0
                              /\ align_up(v, b, w) - v \in 0 .. b - 1
  <1>1. v \in Nat /\ b \in Nat \ {0}
    OBVIOUS
  <1>2. align_down(v, b) % b = 0 /\ v - align_down(v, b) \in 0 .. b - 1
    <2> DEFINE q == v \div b
               r == v % b
    <2>1. q \in Nat /\ r \in 0 .. b - 1 /\ v = b * q + r
      BY <1>1, DivMod
    <2>2. align_down(v, b) = q * b
      BY DEF align_down
    <2> HIDE DEF q, r
    <2>3. (q * b) % b = 0
      BY <1>1, <2>1, Multiple
    <2>4. v - q * b \in 0 .. b - 1
      BY <1>1, <2>1
    <2>5. QED
      BY <2>2, <2>3, <2>4
  <1>3. ASSUME v + b - 1 < w
        PROVE  align_up(v, b, w) % b = 0 /\ align_up(v, b, w) - v \in 0 .. b - 1
    <2> DEFINE y == v + (b - 1)
               q == y \div b
               r == y % b
               u == q * b
    <2>1. y \in Nat /\ y \in 0 .. w - 1
      BY <1>1, <1>3
    <2>2. y % w = y
      <3> HIDE DEF y
      <3>1. QED
        BY <2>1, SmallMod
    <2>3. align_up(v, b, w) = u % w
      BY <2>2 DEF align_up, div_roundup
    <2>4. q \in Nat /\ r \in 0 .. b - 1 /\ y = b * q + r
      <3> HIDE DEF y
      <3>1. QED
        BY <1>1, <2>1, DivMod
    <2>5. y = v + b - 1
      BY <1>1
    <2> HIDE DEF q, r, y
    <2>6. u \in 0 .. w - 1 /\ u - v \in 0 .. b - 1
      BY <1>1, <2>1, <2>4, <2>5
    <2>7. u % b = 0
      BY <1>1, <2>4, Multiple
    <2> HIDE DEF u
    <2>8. u % w = u
      BY <2>6, SmallMod
    <2>9. QED
      BY <2>3, <2>6, <2>7, <2>8
  <1>4. QED
    BY <1>2, <1>3
=============================================================================

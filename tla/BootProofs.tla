----------------------------- MODULE BootProofs -----------------------------
(***************************************************************************)
(* Theorems about the parts of the boot sequence, Boot: exceptions, the    *)
(* serial port, the timer and what can fail, for any machines and any      *)
(* depth of the transmitter; and, last, about what is drawn, Graphics, for *)
(* any screens, windows, images and font.                                  *)
(***************************************************************************)
EXTENDS Boot, SequenceTheorems, WellFoundedInduction, TLAPS

-----------------------------------------------------------------------------
\* Sequences.
LEMMA ReverseShape ==
    ASSUME NEW S, NEW s \in Seq(S)
    PROVE  /\ Reverse(s) \in Seq(S) /\ Len(Reverse(s)) = Len(s)
           /\ \A k \in 1 .. Len(s) : Reverse(s)[k] = s[Len(s) - k + 1]
  BY DEF Reverse

LEMMA ReverseConcat ==
    ASSUME NEW S, NEW s \in Seq(S), NEW t \in Seq(S)
    PROVE  Reverse(s \o t) = Reverse(t) \o Reverse(s)
  <1>a. /\ Reverse(s) \in Seq(S) /\ Len(Reverse(s)) = Len(s)
        /\ \A k \in 1 .. Len(s) : Reverse(s)[k] = s[Len(s) - k + 1]
    BY ReverseShape, Zenon
  <1>b. /\ Reverse(t) \in Seq(S) /\ Len(Reverse(t)) = Len(t)
        /\ \A k \in 1 .. Len(t) : Reverse(t)[k] = t[Len(t) - k + 1]
    BY ReverseShape, Zenon
  <1>c. /\ Reverse(s \o t) \in Seq(S) /\ Len(Reverse(s \o t)) = Len(s) + Len(t)
        /\ \A k \in 1 .. Len(s) + Len(t) :
              Reverse(s \o t)[k] = (s \o t)[Len(s) + Len(t) - k + 1]
    BY DEF Reverse
  <1>1. /\ Reverse(s \o t) \in Seq(S) /\ Reverse(t) \o Reverse(s) \in Seq(S)
        /\ Len(Reverse(s \o t)) = Len(s) + Len(t) /\ Len(Reverse(t) \o Reverse(s)) = Len(s) + Len(t)
    BY <1>a, <1>b, <1>c
  <1>2. ASSUME NEW k \in 1 .. Len(s) + Len(t)
        PROVE  Reverse(s \o t)[k] = (Reverse(t) \o Reverse(s))[k]
    <2>1. Reverse(s \o t)[k] = (s \o t)[Len(s) + Len(t) - k + 1]
      BY <1>c
    <2>2. CASE k <= Len(t)
      <3>1. (Reverse(t) \o Reverse(s))[k] = t[Len(t) - k + 1]
        BY <1>a, <1>b, <2>2
      <3>2. (s \o t)[Len(s) + Len(t) - k + 1] = t[Len(t) - k + 1]
        BY <2>2
      <3>3. QED
        BY <2>1, <3>1, <3>2
    <2>3. CASE k > Len(t)
      <3> DEFINE j == k - Len(t)
      <3>0. j \in 1 .. Len(s) /\ k = Len(Reverse(t)) + j
        BY <1>b, <2>3, LenProperties
      <3>a. (Reverse(t) \o Reverse(s))[k] = Reverse(s)[j]
        BY <1>a, <1>b, <3>0, SMTT(20)
      <3>1. (Reverse(t) \o Reverse(s))[k] = s[Len(s) - (k - Len(t)) + 1]
        BY <1>a, <3>0, <3>a
      <3>2. (s \o t)[Len(s) + Len(t) - k + 1] = s[Len(s) - (k - Len(t)) + 1]
        BY <2>3
      <3>3. QED
        BY <2>1, <3>1, <3>2
    <2>4. k <= Len(t) \/ k > Len(t)
      BY LenProperties
    <2>5. QED
      BY <2>2, <2>3, <2>4, Zenon
  <1>3. QED
    BY <1>1, <1>2, SeqEqual

LEMMA ReverseIs ==
    ASSUME NEW S, NEW n \in Nat, NEW s \in Seq(S), NEW t \in Seq(S), Len(s) = n, Len(t) = n,
           \A k \in 1 .. n : t[k] = s[n - k + 1]
    PROVE  Reverse(s) = t
  <1>1. Reverse(s) \in Seq(S) /\ Len(Reverse(s)) = n
    BY ReverseShape
  <1>2. \A k \in 1 .. n : Reverse(s)[k] = t[k]
    BY ReverseShape
  <1>3. QED
    BY <1>1, <1>2, SeqEqual

\* What is taken off a concatenation.
LEMMA TakeOff ==
    ASSUME NEW S, NEW s \in Seq(S), NEW t \in Seq(S)
    PROVE  /\ SubSeq(s \o t, Len(s \o t) - Len(t) + 1, Len(s \o t)) = t
           /\ SubSeq(s \o t, 1, Len(s \o t) - Len(t) - Len(s)) = <<>>
  <1> DEFINE u == SubSeq(s \o t, Len(s \o t) - Len(t) + 1, Len(s \o t))
  <1>1. u \in Seq(S) /\ Len(u) = Len(t)
    OBVIOUS
  <1>2. \A k \in 1 .. Len(t) : u[k] = t[k]
    OBVIOUS
  <1>3. u = t
    BY <1>1, <1>2, SeqEqual
  <1>4. SubSeq(s \o t, 1, Len(s \o t) - Len(t) - Len(s)) = <<>>
    OBVIOUS
  <1>5. QED
    BY <1>3, <1>4

-----------------------------------------------------------------------------
\* Exceptions.

\* What a whole stack slot holds.
Slots == {Pushed[k] : k \in 1 .. 5} \cup {Pushes[k] : k \in 1 .. 15} \cup {"error"}

LEMMA PushesShape ==
    /\ Pushes \in Seq(Slots) /\ Len(Pushes) = 15
    /\ Pops \in Seq(Slots) /\ Len(Pops) = 15
    /\ \A k \in 1 .. 15 : Pops[k] = Pushes[16 - k]
  <1>1. Pushes = [k \in 1 .. 15 |-> Pushes[k]] /\ Len(Pushes) = 15
    BY DEF Pushes
  <1>2. Pops = [k \in 1 .. 15 |-> Pops[k]] /\ Len(Pops) = 15
    BY DEF Pops
  <1>3. \A k \in 1 .. 15 : Pops[k] = Pushes[16 - k]
    BY DEF Pushes, Pops
  <1>4. Pushes \in [1 .. 15 -> Slots]
    BY <1>1 DEF Slots
  <1>5. \A k \in 1 .. 15 : Pops[k] \in Slots
    <2> TAKE k \in 1 .. 15
    <2>1. 16 - k \in 1 .. 15
      OBVIOUS
    <2>2. QED
      BY <1>3, <2>1 DEF Slots
  <1>6. Pops \in [1 .. 15 -> Slots]
    BY <1>2, <1>5
  <1>7. QED
    BY <1>1, <1>2, <1>3, <1>4, <1>6, SeqDef

LEMMA PushesReversed == Reverse(Pushes) = Pops
  <1>1. 15 \in Nat /\ \A k \in 1 .. 15 : Pops[k] = Pushes[15 - k + 1]
    BY PushesShape
  <1>2. QED
    BY <1>1, PushesShape, ReverseIs, Zenon

\* The part of the struct that the processor has pushed, from the top down.
Rest == <<"rip", "cs", "rflags", "rsp", "ss">>
Code(v) == IF HasError(v) THEN <<"error">> ELSE <<>>

LEMMA PushedShape ==
    /\ Pushed \in Seq(Slots) /\ Len(Pushed) = 5
    /\ Rest \in Seq(Slots) /\ Len(Rest) = 5
    /\ \A k \in 1 .. 5 : Rest[k] = Pushed[6 - k]
  <1>1. Pushed = [k \in 1 .. 5 |-> Pushed[k]] /\ Len(Pushed) = 5
    BY DEF Pushed
  <1>2. Rest = [k \in 1 .. 5 |-> Rest[k]] /\ Len(Rest) = 5
    BY DEF Rest
  <1>3. \A k \in 1 .. 5 : Rest[k] = Pushed[6 - k]
    BY DEF Rest, Pushed
  <1>4. Pushed \in [1 .. 5 -> Slots]
    BY <1>1 DEF Slots
  <1>5. Rest \in [1 .. 5 -> Slots]
    BY <1>2, <1>3 DEF Slots
  <1>6. QED
    BY <1>1, <1>2, <1>3, <1>4, <1>5, SeqDef

LEMMA PushedReversed == Reverse(Pushed) = Rest
  <1>1. 5 \in Nat /\ \A k \in 1 .. 5 : Rest[k] = Pushed[5 - k + 1]
    BY PushedShape
  <1>2. QED
    BY <1>1, PushedShape, ReverseIs, Zenon

\* One slot on top.
LEMMA OnTop ==
    ASSUME NEW S, NEW s \in Seq(S), NEW e \in S
    PROVE  Append(s, e) \in Seq(S) /\ Reverse(Append(s, e)) = <<e>> \o Reverse(s)
  <1>1. <<e>> \in Seq(S) /\ Append(s, e) = s \o <<e>>
    OBVIOUS
  <1>2. Reverse(<<e>>) = <<e>>
    BY DEF Reverse
  <1>3. Reverse(s \o <<e>>) = Reverse(<<e>>) \o Reverse(s)
    BY <1>1, ReverseConcat, Zenon
  <1>4. Append(s, e) \in Seq(S)
    OBVIOUS
  <1>5. QED
    BY <1>1, <1>2, <1>3, <1>4, Zenon

LEMMA FrameReversed ==
    ASSUME NEW v
    PROVE  /\ Frame(v) \in Seq(Slots) /\ Code(v) \in Seq(Slots)
           /\ Reverse(Frame(v)) = Code(v) \o Rest
  <1>1. "error" \in Slots
    BY DEF Slots
  <1>2. CASE HasError(v)
    <2>1. Frame(v) = Append(Pushed, "error") /\ Code(v) = <<"error">>
      BY <1>2 DEF Frame, Code
    <2>2. /\ Append(Pushed, "error") \in Seq(Slots)
          /\ Reverse(Append(Pushed, "error")) = <<"error">> \o Reverse(Pushed)
      BY <1>1, PushedShape, OnTop, Zenon
    <2>3. <<"error">> \in Seq(Slots)
      BY <1>1
    <2>4. QED
      BY <2>1, <2>2, <2>3, PushedReversed
  <1>3. CASE ~HasError(v)
    <2>1. Frame(v) = Pushed /\ Code(v) = <<>>
      BY <1>3 DEF Frame, Code
    <2>2. <<>> \o Rest = Rest /\ <<>> \in Seq(Slots)
      BY PushedShape, ConcatEmptySeq, EmptySeq
    <2>3. QED
      BY <2>1, <2>2, PushedShape, PushedReversed
  <1>4. QED
    BY <1>2, <1>3

\* The frame and the registers, from the top down, are the struct.
LEMMA FrameRight == ASSUME NEW v PROVE Reverse(Frame(v) \o Pushes) = StructOf(v)
  <1>1. StructOf(v) = (Pops \o Code(v)) \o Rest
    BY DEF StructOf, Pops, Code, Rest, HasError
  <1>2. Reverse(Frame(v) \o Pushes) = Pops \o (Code(v) \o Rest)
    BY FrameReversed, PushesShape, PushesReversed, ReverseConcat, Zenon
  <1>3. Code(v) \in Seq(Slots) /\ Pops \in Seq(Slots) /\ Rest \in Seq(Slots)
    BY FrameReversed, PushesShape, PushedShape, Zenon
  <1>4. (Pops \o Code(v)) \o Rest = Pops \o (Code(v) \o Rest)
    BY <1>3, ConcatAssociative
  <1>5. QED
    BY <1>1, <1>2, <1>4, Zenon

\* What the steps of the boot do to an exception's state.
LEMMA ExceptionSteps ==
    ASSUME [Next]_vars
    PROVE  \/ init_idt \/ Overwrite \/ (\E v : Raise(v)) \/ Halt \/ Leave
           \/ cpu' = "wild" \/ UNCHANGED interruptVars
  BY DEF Next, Processor, InitSerial, Hello, Elsewhere, FollowMissing, Fault, LoadIdt, AcpiStep,
         AcpiReturns, AcpiFaults, AcpiWild, StartTimer, TimerFaults, Sleep, SleepFaults, SleepReturns,
         Send, HandlerEnds, BoundExceeded, Chip, Timer, StackUse, vars

\* Between two steps the code has its registers and an empty stack; a handler
\* has what was pushed for it.
Whole ==
    /\ cpu = "running" => stack = <<>> /\ \A r \in Registers : regs[r] = r
    /\ cpu = "handling" => stack = Frame(vector) \o Pushes

LEMMA EnterWhole == ASSUME NEW v, Whole, cpu = "running", Enter(v) PROVE Whole'
  <1>1. stack = <<>> /\ \A r \in Registers : regs[r] = r
    BY DEF Whole
  <1>2. [k \in 1 .. Len(Pushes) |-> regs[Pushes[k]]] = Pushes
    <2>1. Pushes = [k \in 1 .. 15 |-> Pushes[k]] /\ Len(Pushes) = 15
      BY DEF Pushes
    <2>2. \A k \in 1 .. 15 : Pushes[k] \in Registers
      BY <2>1 DEF Registers, ToSet
    <2>3. QED
      BY <1>1, <2>1, <2>2
  <1>3. <<>> \o Frame(v) = Frame(v)
    BY FrameReversed, ConcatEmptySeq
  <1>4. stack' = Frame(v) \o Pushes /\ vector' = v /\ cpu' = "handling"
    BY <1>1, <1>2, <1>3 DEF Enter
  <1>5. QED
    BY <1>4 DEF Whole

LEMMA LeaveWhole == ASSUME Whole, Leave PROVE Whole'
  <1>1. stack = Frame(vector) \o Pushes /\ cpu' = "running"
    BY DEF Leave, Whole
  <1>2. Len(Pops) = Len(Pushes)
    BY PushesShape
  <1>3. /\ SubSeq(stack, Len(stack) - Len(Pops) + 1, Len(stack)) = Pushes
        /\ SubSeq(stack, 1, Len(stack) - Len(Pops) - Len(Frame(vector))) = <<>>
    <2>1. LET s == Frame(vector) \o Pushes
          IN  /\ SubSeq(s, Len(s) - Len(Pushes) + 1, Len(s)) = Pushes
              /\ SubSeq(s, 1, Len(s) - Len(Pushes) - Len(Frame(vector))) = <<>>
      BY FrameReversed, PushesShape, TakeOff, ZenonT(30)
    <2>2. QED
      BY <1>1, <1>2, <2>1, Zenon
  <1>4. stack' = <<>>
    BY <1>3 DEF Leave
  <1>5. ASSUME NEW r \in Registers PROVE regs'[r] = r
    <2> DEFINE k == CHOOSE k \in 1 .. Len(Pops) : Pops[k] = r
    <2>1. regs'[r] = Pushes[Len(Pops) + 1 - k]
      BY <1>3 DEF Leave
    <2>2. \E l \in 1 .. Len(Pops) : Pops[l] = r
      <3>1. PICK l \in DOMAIN Pushes : r = Pushes[l]
        BY DEF Registers, ToSet
      <3>2. l \in 1 .. 15 /\ 16 - l \in 1 .. 15 /\ 16 - (16 - l) = l
        BY <3>1, PushesShape
      <3>3. QED
        BY <3>1, <3>2, PushesShape
    <2>3. k \in 1 .. Len(Pops) /\ Pops[k] = r
      BY <2>2
    <2> HIDE DEF k
    <2>4. QED
      BY <2>1, <2>3, PushesShape
  <1>6. QED
    BY <1>1, <1>4, <1>5 DEF Whole

LEMMA WholeAlways == Spec => []Whole
  <1>1. Init => Whole
    BY DEF Init, InterruptsInit, Whole
  <1>2. ASSUME Whole, [Next]_vars PROVE Whole'
    <2>1. CASE init_idt \/ Overwrite \/ UNCHANGED interruptVars
      BY <1>2, <2>1 DEF init_idt, Overwrite, interruptVars, Whole
    <2>2. ASSUME NEW v, Raise(v) PROVE Whole'
      <3>1. CASE \E w : Enter(w)
        BY <1>2, <2>2, <3>1, EnterWhole DEF Raise
      <3>2. CASE cpu' \in {"wild", "reset"}
        BY <3>2 DEF Whole
      <3>3. QED
        BY <2>2, <3>1, <3>2 DEF Raise
    <2>3. CASE Halt \/ cpu' = "wild"
      BY <2>3 DEF Halt, Whole
    <2>4. CASE Leave
      BY <1>2, <2>4, LeaveWhole
    <2>5. QED
      BY <1>2, <2>1, <2>2, <2>3, <2>4, ExceptionSteps
  <1>3. QED
    BY <1>1, <1>2, PTL DEF Spec

\* A handler of any exception, raised between any two steps of the boot, finds
\* the registers and the processor's frame where its struct says they are, and
\* code that goes on after one has its registers and its stack back
\* (interrupts.c:25, idtfunctions.s:119).
THEOREM HandlersSeeTheFrame == Spec => []FramesExact
  <1>1. Whole => FramesExact
    BY FrameRight DEF Whole, FramesExact
  <1>2. QED
    BY <1>1, WholeAlways, PTL

-----------------------------------------------------------------------------
\* The timer.

\* Sums of ticks, rounded down.
LEMMA DivBounds ==
    ASSUME NEW a \in Nat, NEW p \in Nat \ {0}
    PROVE  a \div p \in Nat /\ (a \div p) * p <= a /\ a < (a \div p) * p + p
  OBVIOUS

LEMMA DivSum ==
    ASSUME NEW p \in Nat \ {0}, NEW c \in Nat, NEW a \in Nat
    PROVE  /\ (c + a) \div p \in Nat /\ a \div p \in Nat
           /\ (c + a) \div p <= c + (a \div p) + 1
           /\ (c + a) \div p >= a \div p
  <1>1. PICK q \in Nat : q = a \div p /\ q * p <= a /\ a < q * p + p
    BY DivBounds
  <1>2. c + a \in Nat
    OBVIOUS
  <1>3. PICK x \in Nat : x = (c + a) \div p /\ x * p <= c + a /\ c + a < x * p + p
    BY <1>2, DivBounds
  <1>4. q * p \in Nat /\ x * p \in Nat
    OBVIOUS
  <1>5. ~(x < q)
    <2>1. x < q => x * p + p <= q * p
      OBVIOUS
    <2>2. QED
      BY <1>1, <1>3, <1>4, <2>1
  <1>6. ~(c + q + 1 < x)
    <2>1. c + q + 1 < x => (c + q + 1) * p + p <= x * p
      OBVIOUS
    <2>2. (c + q + 1) * p = c * p + q * p + p /\ c * p >= c /\ c * p \in Nat
      OBVIOUS
    <2>3. QED
      BY <1>1, <1>3, <1>4, <2>1, <2>2
  <1>7. QED
    BY <1>1, <1>3, <1>5, <1>6

\* What the steps of the boot do to the timer.
LEMMA TimerSteps ==
    ASSUME [Next]_vars
    PROVE  hpet_init \/ CallSleep \/ Tick \/ UNCHANGED hpetVars
  BY DEF Next, Processor, InitSerial, Hello, Elsewhere, FollowMissing, Fault, LoadIdt, AcpiStep,
         AcpiReturns, AcpiFaults, AcpiWild, StartTimer, TimerFaults, Sleep, SleepFaults, SleepReturns,
         Send, HandlerEnds, BoundExceeded, Chip, Timer, StackUse, vars

TimerInv == period \in Nat /\ counter \in 0 .. MaxCounter /\ SleepWindow

\* sleep waits no longer than it was asked to, but for one tick, and returns no
\* sooner than that much after the counter was 0, for any period of the counter
\* and whatever it has counted to, unless a sum leaves the word (HPET.c:48).
THEOREM SleepsLongEnough ==
    ASSUME MaxCounter + Asked < W
    PROVE  Spec => []SleepWindow
  <1>1. Init => TimerInv
    BY MachineAssumption DEF Init, HpetInit, TimerInv, SleepWindow
  <1>2. ASSUME TimerInv, [Next]_vars PROVE TimerInv'
    <2>1. CASE CallSleep
      <3>1. period \in Nat \ {0} /\ counter \in Nat /\ Asked \in Nat
        BY <1>2, <2>1, HpetAssumption DEF CallSleep, TimerInv
      <3>2. (counter + Asked) % W = counter + Asked
        BY <1>2, HpetAssumption DEF TimerInv
      <3>3. Target = (counter + Asked) \div period
        BY <3>2 DEF Target
      <3>4. QED
        BY <1>2, <2>1, <3>1, <3>3, DivSum DEF CallSleep, TimerInv, SleepWindow
    <2>2. CASE hpet_init \/ UNCHANGED hpetVars
      BY <1>2, <2>2 DEF hpet_init, hpetVars, TimerInv, SleepWindow
    <2>3. CASE Tick
      BY <1>2, <2>3, HpetAssumption DEF Tick, TimerInv, SleepWindow
    <2>4. QED
      BY <1>2, <2>1, <2>2, <2>3, TimerSteps
  <1>3. TimerInv => SleepWindow
    BY DEF TimerInv
  <1>4. QED
    BY <1>1, <1>2, <1>3, PTL DEF Spec

-----------------------------------------------------------------------------
\* What can fail.

\* Where each step of _start is in the list.
LEMMA StepsAre ==
    /\ Len(Steps) = 14
    /\ \A k \in 1 .. 14 :
          /\ Steps[k] = "serial" <=> k = 1
          /\ Steps[k] = "acpi" <=> k = 9
          /\ Steps[k] = "hpet" <=> k = 12
          /\ Steps[k] = "done" <=> k = 14
  BY DEF Steps

Order == {x \in Nat \X Nat : x[1] < x[2]}

LEMMA Least ==
    ASSUME NEW S, S \subseteq Nat, S # {}
    PROVE  \E k \in S : \A h \in S : k <= h
  <1>1. IsWellFoundedOn(Order, Nat)
    BY NatLessThanWellFounded DEF OpToRel, Order
  <1>2. PICK k \in S : \A h \in S : <<h, k>> \notin Order
    BY <1>1, WFMin
  <1>3. \A h \in S : k <= h
    <2> TAKE h \in S
    <2>1. h \in Nat /\ k \in Nat /\ <<h, k>> \in Nat \X Nat
      OBVIOUS
    <2>2. h < k => <<h, k>> \in Order
      BY <2>1 DEF Order
    <2>3. QED
      BY <1>2, <2>1, <2>2
  <1>4. QED
    BY <1>3

\* A table that is there is found.
LEMMA GetTableFinds ==
    ASSUME tables \in Seq(STRING), NEW sig \in ToSet(tables), sig # "DSD"
    PROVE  GetTable(sig) # NoTable
  <1>1. Matching(sig) \subseteq 1 .. Len(tables) /\ Len(tables) \in Nat
    BY LenProperties DEF Matching
  <1>2. Matching(sig) # {}
    BY LenProperties DEF Matching, ToSet
  <1>3. \E k \in Matching(sig) : \A h \in Matching(sig) : k <= h
    BY <1>1, <1>2, Least
  <1>4. GetTable(sig) \in Matching(sig)
    BY <1>2, <1>3 DEF GetTable
  <1>5. QED
    BY <1>1, <1>4 DEF NoTable

\* The machine stays what it is.
LEMMA MachineStays ==
    ASSUME [Next]_vars
    PROVE  /\ UNCHANGED <<tables, revision, dsdt, merged, period, missing>>
           /\ Sound' = Sound
  <1>1. UNCHANGED <<tables, revision, dsdt, merged, period, missing>>
    BY DEF Next, Processor, InitSerial, Hello, Elsewhere, FollowMissing, Fault, LoadIdt, AcpiStep,
         AcpiReturns, AcpiFaults, AcpiWild, StartTimer, TimerFaults, Sleep, SleepFaults, SleepReturns,
         Send, HandlerEnds, BoundExceeded, Chip, Timer, StackUse, vars, acpiVars, hpetVars, bootVars,
         PrepareACPI, ScanDsdt, Scan, hpet_init, CallSleep, Tick, PrintThenNext
  <1>2. QED
    BY <1>1 DEF Sound

\* Where LAI is: on a sound machine its scan neither fails nor goes astray, and
\* the step that follows it finds the XSDT.
FaultInv ==
    /\ tables \in Seq(STRING) /\ at \in 1 .. 14
    /\ at \in 10 .. 13 => lai = "done"
    /\ Sound => lai \in {"idle", "DSD", "SSD", "PSD", "done"} /\ (lai # "idle" => xsdt)
    /\ FaultsExplained

\* What the steps of the boot do to LAI.
LEMMA LaiSteps ==
    ASSUME [Next]_vars
    PROVE  \/ Ready /\ Now = "acpi" /\ (PrepareACPI \/ ScanDsdt \/ Scan) /\ UNCHANGED <<at, cpu>>
           \/ UNCHANGED acpiVars
  BY DEF Next, Processor, InitSerial, Hello, Elsewhere, FollowMissing, Fault, LoadIdt, AcpiStep,
         AcpiReturns, AcpiFaults, AcpiWild, StartTimer, TimerFaults, Sleep, SleepFaults, SleepReturns,
         Send, HandlerEnds, BoundExceeded, Chip, Timer, StackUse, vars, interruptVars, bootVars

LEMMA LaiSound ==
    ASSUME Sound, lai \in {"idle", "DSD", "SSD", "PSD", "done"}, lai # "idle" => xsdt,
           PrepareACPI \/ ScanDsdt \/ Scan
    PROVE  lai' \in {"idle", "DSD", "SSD", "PSD", "done"} /\ xsdt'
  <1>1. CASE PrepareACPI
    BY <1>1 DEF PrepareACPI, Sound
  <1>2. CASE ScanDsdt
    <2>1. Matching("FAC") # {} /\ merged /\ dsdt
      BY DEF Sound, Matching, ToSet
    <2>2. GetTable("DSD") = Dsdt
      BY <2>1 DEF GetTable
    <2>3. lai' = "SSD" /\ xsdt'
      BY <1>2, <2>2 DEF ScanDsdt, Dsdt, NoTable, Wild
    <2>4. QED
      BY <2>3
  <1>3. CASE Scan
    BY <1>3 DEF Scan, After
  <1>4. QED
    BY <1>1, <1>2, <1>3

\* Where _start goes.
LEMMA StartSteps ==
    ASSUME [Next]_vars
    PROVE  \/ UNCHANGED at
           \/ Now = "serial" /\ at' \in {at + 1, Done}
           \/ Now \notin {"serial", "acpi", "done"} /\ at' = at + 1
           \/ Now = "acpi" /\ lai = "done" /\ at' = at + 1 /\ UNCHANGED acpiVars
  BY DEF Next, Processor, InitSerial, Hello, Elsewhere, FollowMissing, Fault, LoadIdt, AcpiStep,
         AcpiReturns, AcpiFaults, AcpiWild, StartTimer, TimerFaults, Sleep, SleepFaults, SleepReturns,
         Send, HandlerEnds, BoundExceeded, Chip, Timer, StackUse, vars, interruptVars, bootVars,
         PrintThenNext

\* What can go wrong, and where.
LEMMA FaultSteps ==
    ASSUME [Next]_vars
    PROVE  \/ UNCHANGED <<cpu, raised>> \/ cpu' = "running"
           \/ cpu = "handling" /\ UNCHANGED raised
           \/ raised' = 5
           \/ Now \in missing
           \/ Now = "acpi" /\ lai \in {"fault", "wild"}
           \/ Now = "hpet" /\ ~HpetFound
           \/ period = 0
  BY DEF Next, Processor, InitSerial, Hello, Elsewhere, FollowMissing, Fault, LoadIdt, AcpiStep,
         AcpiReturns, AcpiFaults, AcpiWild, StartTimer, TimerFaults, Sleep, SleepFaults, SleepReturns,
         Send, HandlerEnds, BoundExceeded, Chip, Timer, StackUse, vars, interruptVars, bootVars,
         Raise, Halt, Leave, init_idt, Overwrite

\* On a sound machine no exception but one from outside, no jump to nowhere and
\* no reset ever happens, whatever the serial port, the counter and calls that
\* overwrite the IDT do: each step of _start finds what the steps before it have
\* prepared (kernel.c:81).
THEOREM FaultsAreTheMachines == Spec => []FaultsExplained
  <1>1. Init => FaultInv
    BY MachineAssumption DEF Init, InterruptsInit, AcpiInit, FaultInv, FaultsExplained
  <1>2. ASSUME FaultInv, [Next]_vars PROVE FaultInv'
    <2>1. tables' \in Seq(STRING)
      BY <1>2, MachineStays DEF FaultInv
    <2>2. at' \in 1 .. 14 /\ (at' \in 10 .. 13 => lai' = "done")
      <3>1. at \in 1 .. 14 /\ (at \in 10 .. 13 => lai = "done") /\ Done = 14
        BY <1>2, StepsAre DEF FaultInv, Done
      <3>2. CASE UNCHANGED at
        <4>1. at \in 10 .. 13 => Now # "acpi"
          BY <3>1, StepsAre DEF Now
        <4>2. at \in 10 .. 13 => UNCHANGED acpiVars
          BY <4>1, <1>2, LaiSteps
        <4>3. QED
          BY <3>1, <3>2, <4>2 DEF acpiVars
      <3>3. CASE Now = "serial" /\ at' \in {at + 1, Done}
        <4>1. at = 1
          BY <3>1, <3>3, StepsAre DEF Now
        <4>2. QED
          BY <3>1, <3>3, <4>1
      <3>4. CASE Now \notin {"serial", "acpi", "done"} /\ at' = at + 1
        <4>1. at \in 1 .. 13 /\ at # 9
          BY <3>1, <3>4, StepsAre DEF Now
        <4>2. UNCHANGED acpiVars
          BY <1>2, <3>4, LaiSteps
        <4>3. QED
          BY <3>1, <3>4, <4>1, <4>2 DEF acpiVars
      <3>5. CASE Now = "acpi" /\ lai = "done" /\ at' = at + 1 /\ UNCHANGED acpiVars
        <4>1. at = 9
          BY <3>1, <3>5, StepsAre DEF Now
        <4>2. QED
          BY <3>1, <3>5, <4>1 DEF acpiVars
      <3>6. QED
        BY <1>2, <3>2, <3>3, <3>4, <3>5, StartSteps
    <2>3. Sound' => /\ lai' \in {"idle", "DSD", "SSD", "PSD", "done"}
                    /\ (lai' # "idle" => xsdt')
      <3> SUFFICES ASSUME Sound PROVE /\ lai' \in {"idle", "DSD", "SSD", "PSD", "done"}
                                      /\ (lai' # "idle" => xsdt')
        BY <1>2, MachineStays
      <3>1. lai \in {"idle", "DSD", "SSD", "PSD", "done"} /\ (lai # "idle" => xsdt)
        BY <1>2 DEF FaultInv
      <3>2. CASE PrepareACPI \/ ScanDsdt \/ Scan
        BY <3>1, <3>2, LaiSound
      <3>3. CASE UNCHANGED acpiVars
        BY <3>1, <3>3 DEF acpiVars
      <3>4. QED
        BY <1>2, <3>2, <3>3, LaiSteps
    <2>4. FaultsExplained'
      <3> SUFFICES ASSUME Sound, cpu' \in {"handling", "halted", "reset", "wild"}, raised' # 5
                   PROVE  FALSE
        BY <1>2, MachineStays DEF FaultsExplained
      <3>1. lai \in {"idle", "DSD", "SSD", "PSD", "done"} /\ (lai # "idle" => xsdt)
        BY <1>2 DEF FaultInv
      <3>2. ~(cpu \in {"handling", "halted", "reset", "wild"} /\ raised # 5)
        BY <1>2 DEF FaultInv, FaultsExplained
      <3>3. Now \notin missing /\ period # 0
        BY DEF Sound
      <3>4. Now = "hpet" => HpetFound
        <4>1. Now = "hpet" => lai = "done"
          BY <1>2, StepsAre DEF FaultInv, Now
        <4>2. GetTable("HPE") # NoTable
          <5>1. "HPE" \in ToSet(tables) /\ tables \in Seq(STRING)
            BY <1>2 DEF FaultInv, Sound
          <5>2. QED
            BY <5>1, GetTableFinds
        <4>3. QED
          BY <3>1, <4>1, <4>2 DEF HpetFound
      <3>5. QED
        BY <1>2, <3>1, <3>2, <3>3, <3>4, FaultSteps
    <2>5. QED
      BY <2>1, <2>2, <2>3, <2>4 DEF FaultInv
  <1>3. FaultInv => FaultsExplained
    BY DEF FaultInv
  <1>4. QED
    BY <1>1, <1>2, <1>3, PTL DEF Spec

-----------------------------------------------------------------------------
\* The serial port.

\* What goes through it.
Bytes == {Steps[k] : k \in 1 .. 14} \cup {Message(v) : v \in {0, 5, 8, 14}} \cup {TestByte}
Sent == Bytes \cup Stale

\* What comes back, or from outside, or was there.
Received == Typed \cup Garbled \cup {TestByte} \cup Stale

Byte == 0 .. 255

UartTyped ==
    uart \in [dll : Byte, dlm : Byte, ier : Byte, lcr : Byte, mcr : Byte,
              thr : Seq(Sent), rbr : Seq(Received)]

\* The bytes of the firmware that can have gone out.
Early == {SubSeq(left.thr, 1, k) : k \in 0 .. Len(left.thr)}

\* Until the FIFOs are cleared: the firmware's bytes are on the wire or wait.
Uncleared ==
    /\ uart.thr \in Seq(Stale) /\ Len(uart.thr) <= Depth
    /\ IF Loopback(left) THEN wire = <<>> ELSE wire \o uart.thr = left.thr

\* What init_serial has programmed before its n-th port write, and where the
\* test byte is after the last of them: a received byte that could be taken for
\* it has left the transmitter.
Programmed(n) ==
    /\ uart.lcr = IF n <= 2 THEN left.lcr ELSE IF n <= 5 THEN 128 ELSE 3
    /\ uart.mcr = IF n <= 7 THEN left.mcr ELSE IF n = 8 THEN 11 ELSE 30
    /\ uart.ier = IF n = 1 \/ Dlab(left) THEN left.ier ELSE 0
    /\ (n > 3 => uart.dll = 3) /\ (n > 4 => uart.dlm = 0)
    /\ n <= 6 => Uncleared
    /\ n \in 7 .. 9 => uart.thr = <<>>
    /\ n = 10 => uart.thr \in {<<>>, <<TestByte>>}
    /\ n > 6 => uart.rbr = <<>> \/ Head(uart.rbr) \in Typed \/ (n = 10 /\ uart.thr = <<>>)

PortInv ==
    /\ UartTyped /\ left \in Leftover /\ step \in 1 .. 10 /\ status \in {"init", "ready", "faulty"}
    /\ wire \in Seq(Sent) /\ printed \in Seq(Bytes)
    /\ status = "init" => Programmed(step)
    /\ status = "faulty" => uart.mcr = 30 /\ uart.thr \in {<<>>, <<TestByte>>}
    /\ status # "ready" => wire \in Early /\ printed = <<>>
    /\ status = "ready" => /\ uart.dll = 3 /\ uart.dlm = 0 /\ uart.lcr = 3 /\ uart.mcr = 15
                           /\ uart.ier = IF Dlab(left) THEN left.ier ELSE 0
                           /\ Len(uart.thr) <= 1
                           /\ \E e \in Early : wire \o uart.thr = e \o printed

LEMMA LoopbackIs ==
    /\ uart.mcr = 30 => Loopback(uart)
    /\ uart.mcr \in {11, 15} => ~Loopback(uart)
    /\ uart.mcr = left.mcr => (Loopback(uart) <=> Loopback(left))
  BY DEF Loopback

LEMMA DlabIs ==
    /\ uart.lcr = 128 => Dlab(uart)
    /\ uart.lcr = 3 => ~Dlab(uart)
    /\ uart.lcr = left.lcr => (Dlab(uart) <=> Dlab(left))
  BY DEF Dlab

LEMMA LeftIs ==
    ASSUME left \in Leftover
    PROVE  /\ left.thr \in Seq(Stale) /\ Len(left.thr) <= Depth
           /\ left \in [dll : 0 .. 255, dlm : 0 .. 255, ier : 0 .. 255, lcr : 0 .. 255,
                        mcr : 0 .. 255, thr : Seq(Stale), rbr : Seq(Typed \cup Stale)]
  BY SerialAssumption

LEMMA SeqMore ==
    ASSUME NEW S, NEW T, S \subseteq T, NEW s \in Seq(S)
    PROVE  s \in Seq(T)
  OBVIOUS

\* Nothing has gone out yet.
LEMMA NoneIsEarly == ASSUME left \in Leftover PROVE <<>> \in Early
  <1>1. left.thr \in Seq(Stale) /\ Len(left.thr) \in Nat
    BY LeftIs
  <1>2. SubSeq(left.thr, 1, 0) = <<>> /\ 0 \in 0 .. Len(left.thr)
    BY <1>1
  <1>3. QED
    BY <1>2 DEF Early

LEMMA PrefixIs ==
    ASSUME NEW S, NEW s \in Seq(S), NEW t \in Seq(S), NEW u \in Seq(S), s \o t = u
    PROVE  s = SubSeq(u, 1, Len(s)) /\ Len(s) \in 0 .. Len(u)
  <1>1. Len(u) = Len(s) + Len(t) /\ Len(s) \in 0 .. Len(u)
    OBVIOUS
  <1>2. SubSeq(u, 1, Len(s)) \in Seq(S) /\ Len(SubSeq(u, 1, Len(s))) = Len(s)
    BY <1>1
  <1>3. \A k \in 1 .. Len(s) : SubSeq(u, 1, Len(s))[k] = s[k]
    BY <1>1
  <1>4. QED
    BY <1>2, <1>3, SeqEqual

LEMMA PortInit == Init => PortInv
  <1> SUFFICES ASSUME Init PROVE PortInv
    OBVIOUS
  <1>1. /\ uart \in Leftover /\ left = uart /\ step = 1 /\ status = "init"
        /\ wire = <<>> /\ printed = <<>>
    BY DEF Init, SerialInit
  <1>2. /\ uart \in [dll : 0 .. 255, dlm : 0 .. 255, ier : 0 .. 255, lcr : 0 .. 255,
                     mcr : 0 .. 255, thr : Seq(Stale), rbr : Seq(Typed \cup Stale)]
        /\ Len(uart.thr) <= Depth
    BY <1>1, SerialAssumption
  <1>3. uart.thr \in Seq(Sent) /\ uart.rbr \in Seq(Received)
    BY <1>2, SeqMore DEF Sent, Received
  <1>4. UartTyped
    BY <1>2, <1>3 DEF UartTyped, Byte
  <1>5. <<>> \o uart.thr = uart.thr
    BY <1>2, ConcatEmptySeq
  <1>6. Programmed(step)
    BY <1>1, <1>2, <1>5 DEF Programmed, Uncleared
  <1>7. <<>> \in Early
    BY <1>1, NoneIsEarly
  <1>8. QED
    BY <1>1, <1>4, <1>6, <1>7 DEF PortInv

\* The port writes, one by one.
LEMMA CommandsAre ==
    /\ Len(Commands) = 9
    /\ Commands[1] = <<1, 0>> /\ Commands[2] = <<3, 128>> /\ Commands[3] = <<0, 3>>
    /\ Commands[4] = <<1, 0>> /\ Commands[5] = <<3, 3>> /\ Commands[6] = <<2, 199>>
    /\ Commands[7] = <<4, 11>> /\ Commands[8] = <<4, 30>> /\ Commands[9] = <<0, TestByte>>
  BY DEF Commands

LEMMA Codes == {0, 3, 11, 15, 30, 128} \subseteq Byte
  BY DEF Byte

LEMMA CommandKeeps == ASSUME PortInv, Command PROVE PortInv'
  <1>1. /\ UartTyped /\ Programmed(step) /\ status = "init" /\ step \in 1 .. 9 /\ step' = step + 1
        /\ uart' = Outb(Commands[step][1], Commands[step][2])
        /\ UNCHANGED <<left, status, wire, printed>>
    BY CommandsAre DEF PortInv, Command
  <1>2. /\ step = 1 => (Dlab(uart) <=> Dlab(left))
        /\ step \in 3 .. 5 => Dlab(uart)
        /\ step \in 6 .. 9 => ~Dlab(uart)
    BY <1>1, DlabIs DEF Programmed
  <1>a. UartTyped /\ Programmed(step) /\ step' = step + 1 /\ UNCHANGED <<left, wire>>
    BY <1>1
  <1>b. <<>> \in Seq(Sent) /\ <<>> \in Seq(Received)
    OBVIOUS
  <1>c. TestByte \in Sent
    BY DEF Sent, Bytes
  <1>d. <<TestByte>> \in Seq(Sent)
    BY <1>c
  <1>e. Dlab(left)' <=> Dlab(left)
    BY <1>a DEF Dlab
  <1>f. ASSUME UNCHANGED uart.thr PROVE Uncleared' <=> Uncleared
    BY <1>a, <1>f DEF Uncleared, Loopback
  <1>4. UartTyped' /\ Programmed(step)'
    <2>1. CASE step = 1
      <3>1. CASE Dlab(left)
        <4>1. uart' = [uart EXCEPT !.dlm = 0]
          BY <1>1, <1>2, <2>1, <3>1, CommandsAre DEF Outb
        <4>2. UartTyped' /\ UNCHANGED uart.thr
          BY <1>a, <4>1, Codes DEF UartTyped
        <4>3. Uncleared'
          BY <1>1, <1>f, <2>1, <4>2 DEF Programmed
        <4>4. Programmed(step)'
          BY <1>a, <1>e, <2>1, <3>1, <4>1, <4>3 DEF UartTyped, Programmed
        <4>5. QED
          BY <4>2, <4>4
      <3>2. CASE ~Dlab(left)
        <4>1. uart' = [uart EXCEPT !.ier = 0]
          BY <1>1, <1>2, <2>1, <3>2, CommandsAre DEF Outb
        <4>2. UartTyped' /\ UNCHANGED uart.thr
          BY <1>a, <4>1, Codes DEF UartTyped
        <4>3. Uncleared'
          BY <1>1, <1>f, <2>1, <4>2 DEF Programmed
        <4>4. Programmed(step)'
          BY <1>a, <1>e, <2>1, <3>2, <4>1, <4>3 DEF UartTyped, Programmed
        <4>5. QED
          BY <4>2, <4>4
      <3>3. QED
        BY <3>1, <3>2
    <2>2. CASE step = 2
      <3>1. uart' = [uart EXCEPT !.lcr = 128]
        BY <1>1, <2>2, CommandsAre DEF Outb
      <3>2. UartTyped' /\ UNCHANGED uart.thr
        BY <1>a, <3>1, Codes DEF UartTyped
      <3>3. Uncleared'
        BY <1>1, <1>f, <2>2, <3>2 DEF Programmed
      <3>4. Programmed(step)'
        BY <1>a, <1>e, <2>2, <3>1, <3>3 DEF UartTyped, Programmed
      <3>5. QED
        BY <3>2, <3>4
    <2>3. CASE step = 3
      <3>1. uart' = [uart EXCEPT !.dll = 3]
        BY <1>1, <1>2, <2>3, CommandsAre DEF Outb
      <3>2. UartTyped' /\ UNCHANGED uart.thr
        BY <1>a, <3>1, Codes DEF UartTyped
      <3>3. Uncleared'
        BY <1>1, <1>f, <2>3, <3>2 DEF Programmed
      <3>4. Programmed(step)'
        BY <1>a, <1>e, <2>3, <3>1, <3>3 DEF UartTyped, Programmed
      <3>5. QED
        BY <3>2, <3>4
    <2>4. CASE step = 4
      <3>1. uart' = [uart EXCEPT !.dlm = 0]
        BY <1>1, <1>2, <2>4, CommandsAre DEF Outb
      <3>2. UartTyped' /\ UNCHANGED uart.thr
        BY <1>a, <3>1, Codes DEF UartTyped
      <3>3. Uncleared'
        BY <1>1, <1>f, <2>4, <3>2 DEF Programmed
      <3>4. Programmed(step)'
        BY <1>a, <1>e, <2>4, <3>1, <3>3 DEF UartTyped, Programmed
      <3>5. QED
        BY <3>2, <3>4
    <2>5. CASE step = 5
      <3>1. uart' = [uart EXCEPT !.lcr = 3]
        BY <1>1, <2>5, CommandsAre DEF Outb
      <3>2. UartTyped' /\ UNCHANGED uart.thr
        BY <1>a, <3>1, Codes DEF UartTyped
      <3>3. Uncleared'
        BY <1>1, <1>f, <2>5, <3>2 DEF Programmed
      <3>4. Programmed(step)'
        BY <1>a, <1>e, <2>5, <3>1, <3>3 DEF UartTyped, Programmed
      <3>5. QED
        BY <3>2, <3>4
    <2>6. CASE step = 6
      <3>1. uart' = [uart EXCEPT !.thr = <<>>, !.rbr = <<>>]
        BY <1>1, <2>6, CommandsAre DEF Outb
      <3>2. UartTyped'
        BY <1>a, <1>b, <3>1 DEF UartTyped
      <3>3. Programmed(step)'
        BY <1>a, <1>e, <2>6, <3>1 DEF UartTyped, Programmed
      <3>4. QED
        BY <3>2, <3>3
    <2>7. CASE step = 7
      <3>1. uart' = [uart EXCEPT !.mcr = 11]
        BY <1>1, <2>7, CommandsAre DEF Outb
      <3>2. UartTyped'
        BY <1>a, <3>1, Codes DEF UartTyped
      <3>3. Programmed(step)'
        BY <1>a, <1>e, <2>7, <3>1 DEF UartTyped, Programmed
      <3>4. QED
        BY <3>2, <3>3
    <2>8. CASE step = 8
      <3>1. uart' = [uart EXCEPT !.mcr = 30]
        BY <1>1, <2>8, CommandsAre DEF Outb
      <3>2. UartTyped'
        BY <1>a, <3>1, Codes DEF UartTyped
      <3>3. Programmed(step)'
        BY <1>a, <1>e, <2>8, <3>1 DEF UartTyped, Programmed
      <3>4. QED
        BY <3>2, <3>3
    <2>9. CASE step = 9
      <3>1. uart' = [uart EXCEPT !.thr = <<TestByte>>]
        <4>1. uart.thr = <<>>
          BY <1>1, <2>9 DEF Programmed
        <4>2. Len(uart.thr) < Depth /\ Append(uart.thr, TestByte) = <<TestByte>>
          BY <4>1, SerialAssumption
        <4>3. uart' = IF Len(uart.thr) < Depth THEN [uart EXCEPT !.thr = Append(@, TestByte)] ELSE uart
          BY <1>1, <1>2, <2>9, CommandsAre DEF Outb
        <4>4. QED
          BY <4>2, <4>3
      <3>2. UartTyped'
        BY <1>a, <1>d, <3>1 DEF UartTyped
      <3>3. Programmed(step)'
        BY <1>a, <1>e, <2>9, <3>1 DEF UartTyped, Programmed
      <3>4. QED
        BY <3>2, <3>3
    <2>10. QED
      BY <1>1, <2>1, <2>2, <2>3, <2>4, <2>5, <2>6, <2>7, <2>8, <2>9
  <1>5. Early' = Early
    BY <1>1 DEF Early
  <1>6. QED
    BY <1>1, <1>4, <1>5 DEF PortInv

LEMMA SelfTestKeeps == ASSUME PortInv, SelfTest PROVE PortInv'
  <1>1. /\ UartTyped /\ Programmed(10) /\ status = "init" /\ step = 10 /\ <<>> \in Seq(Received)
        /\ wire \in Early /\ wire \in Seq(Sent) /\ printed = <<>>
        /\ UNCHANGED <<left, step, wire, printed>>
    BY CommandsAre DEF PortInv, SelfTest
  <1>2. Early' = Early /\ (Dlab(left)' <=> Dlab(left))
    BY <1>1 DEF Early, Dlab
  <1>3. CASE uart.rbr # <<>> /\ Head(uart.rbr) = TestByte
    <2>1. status' = "ready" /\ uart' = [uart EXCEPT !.rbr = Tail(@), !.mcr = 15]
      BY <1>3 DEF SelfTest
    <2>2. uart.thr = <<>>
      BY <1>1, <1>3, SerialAssumption DEF Programmed
    <2>3. Tail(uart.rbr) \in Seq(Received)
      BY <1>1, <1>3 DEF UartTyped
    <2>4. UartTyped'
      BY <1>1, <2>1, <2>3, Codes DEF UartTyped
    <2>5. /\ uart'.dll = 3 /\ uart'.dlm = 0 /\ uart'.lcr = 3 /\ uart'.mcr = 15
          /\ uart'.ier = (IF Dlab(left) THEN left.ier ELSE 0) /\ uart'.thr = <<>>
      BY <1>1, <2>1, <2>2 DEF UartTyped, Programmed
    <2>6. \E e \in Early' : wire' \o uart'.thr = e \o printed'
      BY <1>1, <1>2, <2>5, Zenon
    <2>7. Len(uart'.thr) <= 1
      BY <2>5
    <2>8. QED
      BY <1>1, <1>2, <2>1, <2>4, <2>5, <2>6, <2>7 DEF PortInv
  <1>4. CASE ~(uart.rbr # <<>> /\ Head(uart.rbr) = TestByte)
    <2>1. status' = "faulty" /\ uart' = [uart EXCEPT !.rbr = <<>>]
      BY <1>4 DEF SelfTest
    <2>2. UartTyped'
      BY <1>1, <2>1 DEF UartTyped
    <2>3. uart'.mcr = 30 /\ uart'.thr \in {<<>>, <<TestByte>>}
      BY <1>1, <2>1 DEF UartTyped, Programmed
    <2>4. QED
      BY <1>1, <1>2, <2>1, <2>2, <2>3 DEF PortInv
  <1>5. QED
    BY <1>3, <1>4

\* A byte goes from the head of one sequence to the end of another.
LEMMA Passed ==
    ASSUME NEW S, NEW s \in Seq(S), NEW t \in Seq(S), t # <<>>
    PROVE  /\ Tail(t) \in Seq(S) /\ Head(t) \in S
           /\ Append(s, Head(t)) \in Seq(S) /\ Append(s, Head(t)) \o Tail(t) = s \o t
  <1>1. Tail(t) \in Seq(S) /\ Head(t) \in S /\ Append(s, Head(t)) \in Seq(S)
    OBVIOUS
  <1>2. /\ Append(s, Head(t)) \o Tail(t) \in Seq(S) /\ s \o t \in Seq(S)
        /\ Len(Append(s, Head(t)) \o Tail(t)) = Len(s \o t)
    BY <1>1
  <1>3. \A k \in 1 .. Len(s \o t) : (Append(s, Head(t)) \o Tail(t))[k] = (s \o t)[k]
    BY <1>1
  <1>4. QED
    BY <1>1, <1>2, <1>3, SeqEqual

\* A byte that leaves the transmitter before it is cleared.
LEMMA DrainUncleared ==
    ASSUME PortInv, Drain, status = "init", step <= 6
    PROVE  PortInv'
  <1>a. /\ UartTyped /\ wire \in Seq(Sent) /\ wire \in Early /\ printed = <<>>
        /\ Programmed(step) /\ step \in 1 .. 6 /\ left \in Leftover
    BY DEF PortInv
  <1>b. uart.thr # <<>> /\ UNCHANGED <<left, step, status, printed>>
    BY DEF Drain
  <1>1. /\ UartTyped /\ uart.thr # <<>> /\ uart.thr \in Seq(Sent) /\ uart.rbr \in Seq(Received)
        /\ wire \in Seq(Sent) /\ wire \in Early /\ printed = <<>>
        /\ Programmed(step) /\ step \in 1 .. 6 /\ left \in Leftover
        /\ UNCHANGED <<left, step, status, printed>>
    BY <1>a, <1>b DEF UartTyped
  <1>2. /\ Tail(uart.thr) \in Seq(Stale) /\ Head(uart.thr) \in Stale /\ Tail(uart.thr) \in Seq(Sent)
        /\ Len(Tail(uart.thr)) <= Depth
    <2>1. uart.thr \in Seq(Stale) /\ Len(uart.thr) <= Depth
      BY <1>1 DEF Programmed, Uncleared
    <2>2. Len(Tail(uart.thr)) = Len(uart.thr) - 1 /\ Len(uart.thr) \in Nat
      BY <1>1, <2>1
    <2>3. QED
      BY <1>1, <2>1, <2>2, SerialAssumption, Passed
  <1>3. Loopback(uart) <=> Loopback(left)
    BY <1>1, LoopbackIs DEF Programmed
  <1>4. Early' = Early /\ (Dlab(left)' <=> Dlab(left)) /\ (Loopback(left)' <=> Loopback(left))
    BY <1>1 DEF Early, Dlab, Loopback
  <1>5. CASE Loopback(uart)
    <2>1. PICK b \in {Head(uart.thr)} \cup Garbled :
              uart' = [uart EXCEPT !.thr = Tail(@), !.rbr = Append(@, b)]
      BY <1>5 DEF Drain
    <2>2. UNCHANGED wire
      BY <1>5 DEF Drain
    <2>3. Append(uart.rbr, b) \in Seq(Received)
      <3>1. b \in Received
        BY <1>2 DEF Received
      <3>2. QED
        BY <1>1, <3>1
    <2>4. UartTyped' /\ uart'.thr = Tail(uart.thr)
      BY <1>1, <1>2, <2>1, <2>3 DEF UartTyped
    <2>5. UNCHANGED <<uart.lcr, uart.mcr, uart.ier, uart.dll, uart.dlm>>
      BY <1>1, <2>1 DEF UartTyped
    <2>6. Uncleared'
      BY <1>1, <1>2, <1>3, <1>4, <1>5, <2>2, <2>4 DEF Uncleared, Programmed
    <2>7. Programmed(step)'
      BY <1>1, <1>4, <2>5, <2>6 DEF Programmed
    <2>8. QED
      BY <1>1, <1>4, <2>2, <2>4, <2>7 DEF PortInv
  <1>6. CASE ~Loopback(uart)
    <2>1. uart' = [uart EXCEPT !.thr = Tail(@)] /\ wire' = Append(wire, Head(uart.thr))
      BY <1>6 DEF Drain
    <2>2. UartTyped' /\ uart'.thr = Tail(uart.thr)
      BY <1>1, <1>2, <2>1 DEF UartTyped
    <2>3. UNCHANGED <<uart.lcr, uart.mcr, uart.ier, uart.dll, uart.dlm>>
      BY <1>1, <2>1 DEF UartTyped
    <2>4. wire \o uart.thr = left.thr
      BY <1>1, <1>3, <1>6 DEF Programmed, Uncleared
    <2>5. LET h == Append(wire, Head(uart.thr))
          IN  h \in Seq(Sent) /\ h \o Tail(uart.thr) = wire \o uart.thr
      BY <1>1, Passed, Zenon
    <2>6. wire' \in Seq(Sent) /\ wire' \o uart'.thr = left.thr
      BY <2>1, <2>2, <2>4, <2>5, Zenon
    <2>7. wire' \in Early
      <3>1. left.thr \in Seq(Sent)
        BY <1>1, LeftIs, SeqMore DEF Sent
      <3>2. wire' = SubSeq(left.thr, 1, Len(wire')) /\ Len(wire') \in 0 .. Len(left.thr)
        BY <1>1, <1>2, <2>2, <2>6, <3>1, PrefixIs
      <3>3. QED
        BY <3>2 DEF Early
    <2>8. Uncleared'
      BY <1>1, <1>2, <1>3, <1>4, <1>6, <2>2, <2>6 DEF Uncleared
    <2>9. Programmed(step)'
      BY <1>1, <1>4, <2>3, <2>8 DEF Programmed
    <2>10. QED
      BY <1>1, <1>4, <2>2, <2>6, <2>7, <2>9 DEF PortInv
  <1>7. QED
    BY <1>5, <1>6

LEMMA DrainKeeps == ASSUME PortInv, Drain PROVE PortInv'
  <1>1. /\ UartTyped /\ uart.thr # <<>> /\ uart.thr \in Seq(Sent) /\ uart.rbr \in Seq(Received)
        /\ wire \in Seq(Sent) /\ UNCHANGED <<left, step, status, printed>>
    BY DEF PortInv, UartTyped, Drain
  <1>2. Tail(uart.thr) \in Seq(Sent) /\ Head(uart.thr) \in Sent
    BY <1>1, Passed
  <1>3. Early' = Early /\ (Dlab(left)' <=> Dlab(left)) /\ (Loopback(left)' <=> Loopback(left))
    BY <1>1 DEF Early, Dlab, Loopback
  <1>4. CASE status = "init" /\ step <= 6
    BY <1>4, DrainUncleared
  <1>5. CASE status = "faulty" \/ (status = "init" /\ step > 6)
    <2>1. /\ uart.mcr = 30 /\ uart.thr = <<TestByte>> /\ (status = "init" => step = 10)
          /\ wire \in Early /\ printed = <<>>
      BY <1>1, <1>5 DEF PortInv, Programmed
    <2>2. Loopback(uart)
      BY <2>1, LoopbackIs
    <2>3. PICK b \in {Head(uart.thr)} \cup Garbled :
              uart' = [uart EXCEPT !.thr = Tail(@), !.rbr = Append(@, b)]
      BY <2>2 DEF Drain
    <2>4. UNCHANGED wire
      BY <2>2 DEF Drain
    <2>5. Append(uart.rbr, b) \in Seq(Received)
      <3>1. b \in Received
        BY <2>1 DEF Received
      <3>2. QED
        BY <1>1, <3>1
    <2>6. UartTyped'
      BY <1>1, <1>2, <2>3, <2>5 DEF UartTyped
    <2>7. uart'.thr = <<>> /\ UNCHANGED <<uart.lcr, uart.mcr, uart.ier, uart.dll, uart.dlm>>
      BY <1>1, <2>1, <2>3 DEF UartTyped
    <2>8. status = "init" => Programmed(step)'
      <3> SUFFICES ASSUME status = "init" PROVE Programmed(step)'
        OBVIOUS
      <3>1. Programmed(step) /\ step = 10
        BY <2>1 DEF PortInv
      <3>2. QED
        BY <1>1, <1>3, <2>7, <3>1 DEF Programmed
    <2>9. QED
      BY <1>1, <1>3, <1>5, <2>1, <2>4, <2>6, <2>7, <2>8 DEF PortInv
  <1>6. CASE status = "ready"
    <2>1. /\ uart.dll = 3 /\ uart.dlm = 0 /\ uart.lcr = 3 /\ uart.mcr = 15 /\ Len(uart.thr) <= 1
          /\ uart.ier = IF Dlab(left) THEN left.ier ELSE 0
      BY <1>6 DEF PortInv
    <2>2. PICK e \in Early : wire \o uart.thr = e \o printed
      BY <1>6 DEF PortInv
    <2>3. uart' = [uart EXCEPT !.thr = Tail(@)] /\ wire' = Append(wire, Head(uart.thr))
      BY <2>1, LoopbackIs DEF Drain
    <2>4. UartTyped' /\ uart'.thr = Tail(uart.thr)
      BY <1>1, <1>2, <2>3 DEF UartTyped
    <2>5. UNCHANGED <<uart.lcr, uart.mcr, uart.ier, uart.dll, uart.dlm>>
      BY <1>1, <2>3 DEF UartTyped
    <2>6. LET h == Append(wire, Head(uart.thr))
          IN  h \in Seq(Sent) /\ h \o Tail(uart.thr) = wire \o uart.thr
      BY <1>1, Passed, Zenon
    <2>7. wire' \in Seq(Sent) /\ wire' \o uart'.thr = e \o printed'
      BY <1>1, <2>2, <2>3, <2>4, <2>6, Zenon
    <2>8. \E d \in Early' : wire' \o uart'.thr = d \o printed'
      BY <1>3, <2>7, Zenon
    <2>9. Len(uart'.thr) <= 1
      BY <1>1, <2>1, <2>4
    <2>10. QED
      BY <1>1, <1>3, <1>6, <2>1, <2>4, <2>5, <2>7, <2>8, <2>9 DEF PortInv
  <1>7. status \in {"init", "ready", "faulty"} /\ step \in 1 .. 10
    BY DEF PortInv
  <1>8. QED
    BY <1>4, <1>5, <1>6, <1>7

LEMMA ReceiveKeeps == ASSUME PortInv, Receive PROVE PortInv'
  <1>1. /\ UartTyped /\ status = "init" /\ uart.mcr # 30 /\ Programmed(step) /\ step \in 1 .. 9
        /\ UNCHANGED <<left, step, status, wire, printed>>
    BY LoopbackIs DEF PortInv, Receive, Programmed
  <1>2. PICK b \in Typed : uart' = [uart EXCEPT !.rbr = <<b>>]
    BY DEF Receive
  <1>3. b \in Received
    BY DEF Received
  <1>4. <<b>> \in Seq(Received) /\ Head(<<b>>) = b
    BY <1>3
  <1>5. UartTyped' /\ uart'.rbr = <<b>>
    BY <1>1, <1>2, <1>4 DEF UartTyped
  <1>6. UNCHANGED <<uart.lcr, uart.mcr, uart.ier, uart.dll, uart.dlm, uart.thr>>
    BY <1>1, <1>2 DEF UartTyped
  <1>7. /\ Early' = Early /\ (Dlab(left)' <=> Dlab(left)) /\ (Loopback(left)' <=> Loopback(left))
        /\ (Uncleared' <=> Uncleared)
    BY <1>1, <1>6 DEF Early, Dlab, Loopback, Uncleared
  <1>8. Programmed(step)'
    BY <1>1, <1>4, <1>5, <1>6, <1>7 DEF Programmed
  <1>9. QED
    BY <1>1, <1>5, <1>7, <1>8 DEF PortInv

LEMMA AddedLast ==
    ASSUME NEW S, NEW s \in Seq(S), NEW t \in Seq(S), NEW c \in S
    PROVE  \A u \in Seq(S) : u = s \o t => u \o <<c>> = s \o Append(t, c)
  <1>1. s \o t \in Seq(S) /\ <<c>> \in Seq(S) /\ Append(t, c) \in Seq(S)
    OBVIOUS
  <1>2. /\ (s \o t) \o <<c>> \in Seq(S) /\ s \o Append(t, c) \in Seq(S)
        /\ Len((s \o t) \o <<c>>) = Len(s) + Len(t) + 1
        /\ Len(s \o Append(t, c)) = Len(s) + Len(t) + 1
    BY <1>1
  <1>3. \A k \in 1 .. Len(s) + Len(t) + 1 : ((s \o t) \o <<c>>)[k] = (s \o Append(t, c))[k]
    BY <1>1
  <1>4. (s \o t) \o <<c>> = s \o Append(t, c)
    BY <1>2, <1>3, SeqEqual
  <1>5. QED
    BY <1>4

LEMMA WriteKeeps ==
    ASSUME PortInv, status = "ready", NEW c \in Bytes, Write(c)
    PROVE  PortInv'
  <1>1. /\ UartTyped /\ uart.thr = <<>> /\ wire \in Seq(Sent) /\ printed \in Seq(Bytes)
        /\ left \in Leftover /\ uart.lcr = 3 /\ UNCHANGED <<left, step, status, wire>>
        /\ printed' = Append(printed, c)
    BY DEF PortInv, UartTyped, Write, TransmitEmpty
  <1>2. uart' = [uart EXCEPT !.thr = <<c>>]
    <2>1. Len(uart.thr) < Depth /\ Append(uart.thr, c) = <<c>>
      BY <1>1, SerialAssumption
    <2>2. uart' = IF Len(uart.thr) < Depth THEN [uart EXCEPT !.thr = Append(@, c)] ELSE uart
      BY <1>1, DlabIs DEF Write, Outb
    <2>3. QED
      BY <2>1, <2>2
  <1>3. c \in Sent /\ <<c>> \in Seq(Sent)
    BY DEF Sent
  <1>4. UartTyped'
    BY <1>1, <1>2, <1>3 DEF UartTyped
  <1>5. uart'.thr = <<c>> /\ UNCHANGED <<uart.lcr, uart.mcr, uart.ier, uart.dll, uart.dlm>>
    BY <1>1, <1>2 DEF UartTyped
  <1>6. Len(uart'.thr) <= 1
    BY <1>5
  <1>7. Early' = Early /\ (Dlab(left)' <=> Dlab(left))
    BY <1>1 DEF Early, Dlab
  <1>8. PICK e \in Early : wire \o uart.thr = e \o printed
    BY DEF PortInv
  <1>9. wire \o <<c>> = e \o Append(printed, c)
    <2>1. left.thr \in Seq(Stale)
      BY <1>1, LeftIs
    <2>2. PICK k \in 0 .. Len(left.thr) : e = SubSeq(left.thr, 1, k)
      BY <1>8 DEF Early
    <2>3. e \in Seq(Stale)
      BY <2>1, <2>2
    <2>4. e \in Seq(Sent) /\ printed \in Seq(Sent)
      BY <1>1, <2>3, SeqMore DEF Sent
    <2>5. wire = e \o printed
      BY <1>1, <1>8
    <2>6. c \in Sent /\ wire \in Seq(Sent)
      BY <1>1, <1>3
    <2>7. QED
      BY <2>4, <2>5, <2>6, AddedLast
  <1>10. \E d \in Early' : wire' \o uart'.thr = d \o printed'
    BY <1>1, <1>5, <1>7, <1>9, Zenon
  <1>11. printed' \in Seq(Bytes)
    BY <1>1
  <1>12. QED
    BY <1>1, <1>4, <1>5, <1>6, <1>7, <1>10, <1>11 DEF PortInv

LEMMA PortStays == ASSUME PortInv, UNCHANGED serialVars PROVE PortInv'
  <1>1. UNCHANGED <<uart, left, step, status, wire, printed>>
    BY DEF serialVars
  <1>2. /\ Early' = Early /\ (Dlab(left)' <=> Dlab(left)) /\ (Loopback(left)' <=> Loopback(left))
        /\ (UartTyped' <=> UartTyped) /\ (Uncleared' <=> Uncleared)
    BY <1>1 DEF Early, Dlab, Loopback, UartTyped, Uncleared
  <1>3. Programmed(step)' <=> Programmed(step)
    BY <1>1, <1>2 DEF Programmed
  <1>4. QED
    BY <1>1, <1>2, <1>3 DEF PortInv

\* Nothing is printed, and no gate is there, before the port has passed its test.
PrintInv ==
    /\ PortInv /\ at \in 1 .. 14 /\ out \in Seq(Bytes) /\ gates \subseteq Vectors
    /\ status # "ready" => out = <<>> /\ gates = {} /\ at \in {1, 14}

\* Steps that leave the port alone.
Quiet ==
    /\ UNCHANGED serialVars
    /\ \/ UNCHANGED <<out, at>> /\ gates' \subseteq gates
       \/ /\ out' = <<Now>> /\ at' = at + 1 /\ Now # "done"
          /\ Now = "serial" => status = "ready"
          /\ gates' = gates \/ (gates' = Vectors /\ Now = "idt")
       \/ at' = Done /\ UNCHANGED <<out, gates>>
       \/ \E v \in {0, 5, 14} : Fault(v)

\* What the steps of the boot do to the port, and to what is to be printed.
LEMMA PortSteps ==
    ASSUME [Next]_vars
    PROVE  \/ (Command \/ SelfTest) /\ UNCHANGED <<out, at, gates>>
           \/ out # <<>> /\ Write(Head(out)) /\ out' = Tail(out) /\ UNCHANGED <<at, gates>>
           \/ (Drain \/ Receive) /\ UNCHANGED <<out, at, gates>>
           \/ Quiet
  <1>1. CASE InitSerial \/ Send \/ Chip
    BY <1>1 DEF InitSerial, Send, Chip, bootVars, interruptVars
  <1>2. CASE Hello
    BY <1>2 DEF Hello, Quiet, PrintThenNext, interruptVars
  <1>3. CASE Elsewhere \/ LoadIdt
    BY <1>3 DEF Elsewhere, LoadIdt, Quiet, PrintThenNext, interruptVars, init_idt
  <1>4. CASE AcpiReturns \/ StartTimer \/ SleepReturns
    BY <1>4 DEF AcpiReturns, StartTimer, SleepReturns, Quiet, PrintThenNext, interruptVars
  <1>5. CASE FollowMissing \/ AcpiFaults \/ TimerFaults \/ SleepFaults \/ BoundExceeded
    BY <1>5 DEF FollowMissing, AcpiFaults, TimerFaults, SleepFaults, BoundExceeded, Fault, Quiet
  <1>6. CASE AcpiStep \/ AcpiWild \/ Sleep \/ HandlerEnds \/ Timer \/ StackUse \/ UNCHANGED vars
    BY <1>6 DEF AcpiStep, AcpiWild, Sleep, HandlerEnds, Halt, Leave, Timer, StackUse, Overwrite,
         Quiet, bootVars, interruptVars, vars
  <1>7. QED
    BY <1>1, <1>2, <1>3, <1>4, <1>5, <1>6 DEF Next, Processor

\* A handler's message: there is a gate.
LEMMA FaultPrints ==
    ASSUME PrintInv, NEW v \in {0, 5, 14}, Fault(v)
    PROVE  PrintInv'
  <1>1. UNCHANGED serialVars /\ at' = at /\ gates' = gates
    BY DEF Fault, Raise, Enter
  <1>2. PortInv'
    BY <1>1, PortStays DEF PrintInv
  <1>3. CASE cpu' = "handling"
    <2>1. gates # {} /\ vector' \in {0, 5, 8, 14} /\ out' = <<Message(vector')>> \o out
      BY <1>3 DEF Fault, Raise, Enter
    <2>2. Message(vector') \in Bytes
      BY <2>1 DEF Bytes
    <2>3. <<Message(vector')>> \in Seq(Bytes)
      BY <2>2
    <2>4. out' \in Seq(Bytes)
      BY <2>1, <2>3, ConcatProperties DEF PrintInv
    <2>5. status = "ready"
      BY <2>1 DEF PrintInv
    <2>6. QED
      BY <1>1, <1>2, <2>4, <2>5 DEF PrintInv, serialVars
  <1>4. CASE cpu' # "handling"
    BY <1>1, <1>2, <1>4 DEF Fault, PrintInv, serialVars
  <1>5. QED
    BY <1>3, <1>4

LEMMA QuietPrints == ASSUME PrintInv, Quiet PROVE PrintInv'
  <1>1. UNCHANGED serialVars /\ PortInv /\ at \in 1 .. 14 /\ Done = 14 /\ gates \subseteq Vectors
    BY StepsAre DEF PrintInv, Quiet, Done
  <1>2. PortInv'
    BY <1>1, PortStays
  <1>3. CASE UNCHANGED <<out, at>> /\ gates' \subseteq gates
    BY <1>1, <1>2, <1>3 DEF PrintInv, serialVars
  <1>4. CASE /\ out' = <<Now>> /\ at' = at + 1 /\ Now # "done"
             /\ Now = "serial" => status = "ready"
             /\ gates' = gates \/ (gates' = Vectors /\ Now = "idt")
    <2>1. at # 14 /\ (at = 1 => status = "ready") /\ Now \in Bytes
      BY <1>1, <1>4, StepsAre DEF Now, Bytes
    <2>2. status = "ready"
      BY <1>1, <2>1 DEF PrintInv
    <2>3. <<Now>> \in Seq(Bytes)
      BY <2>1
    <2>4. QED
      BY <1>1, <1>2, <1>4, <2>1, <2>2, <2>3 DEF PrintInv, serialVars
  <1>5. CASE at' = Done /\ UNCHANGED <<out, gates>>
    BY <1>1, <1>2, <1>5 DEF PrintInv, serialVars
  <1>6. CASE \E v \in {0, 5, 14} : Fault(v)
    BY <1>6, FaultPrints
  <1>7. QED
    BY <1>3, <1>4, <1>5, <1>6 DEF Quiet

LEMMA PrintKeeps == ASSUME PrintInv, [Next]_vars PROVE PrintInv'
  <1>1. CASE (Command \/ SelfTest) /\ UNCHANGED <<out, at, gates>>
    <2>1. status = "init"
      BY <1>1 DEF Command, SelfTest
    <2>2. PortInv'
      BY <1>1, CommandKeeps, SelfTestKeeps DEF PrintInv
    <2>3. QED
      BY <1>1, <2>1, <2>2 DEF PrintInv
  <1>2. CASE out # <<>> /\ Write(Head(out)) /\ out' = Tail(out) /\ UNCHANGED <<at, gates>>
    <2>1. status = "ready" /\ Head(out) \in Bytes /\ Tail(out) \in Seq(Bytes) /\ UNCHANGED status
      BY <1>2 DEF PrintInv, Write
    <2>2. PortInv'
      BY <1>2, <2>1, WriteKeeps DEF PrintInv
    <2>3. QED
      BY <1>2, <2>1, <2>2 DEF PrintInv
  <1>3. CASE (Drain \/ Receive) /\ UNCHANGED <<out, at, gates>>
    <2>1. PortInv' /\ UNCHANGED status
      BY <1>3, DrainKeeps, ReceiveKeeps DEF PrintInv, Drain, Receive
    <2>2. QED
      BY <1>3, <2>1 DEF PrintInv
  <1>4. CASE Quiet
    BY <1>4, QuietPrints
  <1>5. QED
    BY <1>1, <1>2, <1>3, <1>4, PortSteps

\* Whatever the firmware left in the registers and the FIFOs of the UART,
\* whenever bytes arrive and however slowly it sends: what serial_print was given
\* leaves the chip whole and in order, behind nothing but bytes that the firmware
\* had left in the transmitter (serial.c:12, serial.c:32), and a chip that has
\* passed its test is set up as init_serial means it to be, but for the
\* interrupts of a chip whose divisor latch was left open (serial.c:7).
THEOREM SerialLosesNothing == Spec => []NothingLost
  <1>1. Init => PrintInv
    BY PortInit DEF Init, SerialInit, InterruptsInit, PrintInv
  <1>2. PrintInv /\ [Next]_vars => PrintInv'
    BY PrintKeeps
  <1>3. PrintInv => NothingLost
    <2> SUFFICES ASSUME PrintInv PROVE NothingLost
      OBVIOUS
    <2>1. PortInv
      BY DEF PrintInv
    <2>2. CASE status = "ready"
      <3>1. PICK e \in Early : wire \o uart.thr = e \o printed
        BY <2>1, <2>2 DEF PortInv
      <3>2. PICK k \in 0 .. Len(left.thr) : e = SubSeq(left.thr, 1, k)
        BY <3>1 DEF Early
      <3>3. wire \o uart.thr = SubSeq(left.thr, 1, k) \o printed
        BY <3>1, <3>2
      <3>4. QED
        BY <2>1, <2>2, <3>3 DEF NothingLost, PortInv
    <2>3. CASE status # "ready"
      <3>1. wire \in Early /\ wire \in Seq(Sent) /\ printed = <<>>
        BY <2>1, <2>3 DEF PortInv
      <3>2. PICK k \in 0 .. Len(left.thr) : wire = SubSeq(left.thr, 1, k)
        BY <3>1 DEF Early
      <3>3. wire \o <<>> = SubSeq(left.thr, 1, k) \o printed
        BY <3>1, <3>2
      <3>4. QED
        BY <2>3, <3>3 DEF NothingLost
    <2>4. QED
      BY <2>2, <2>3
  <1>4. QED
    BY <1>1, <1>2, <1>3, PTL DEF Spec

-----------------------------------------------------------------------------
\* Types.

LEMMA SetOfConcat ==
    ASSUME NEW S, NEW s \in Seq(S), NEW t \in Seq(S)
    PROVE  ToSet(s \o t) = ToSet(s) \cup ToSet(t)
  <1>1. ASSUME NEW k \in 1 .. Len(s) PROVE s[k] \in ToSet(s \o t)
    BY DEF ToSet
  <1>2. ASSUME NEW k \in 1 .. Len(t) PROVE t[k] \in ToSet(s \o t)
    <2>1. Len(s) + k \in 1 .. Len(s \o t) /\ (s \o t)[Len(s) + k] = t[k]
      OBVIOUS
    <2>2. QED
      BY <2>1 DEF ToSet
  <1>3. ASSUME NEW k \in 1 .. Len(s) + Len(t) PROVE (s \o t)[k] \in ToSet(s) \cup ToSet(t)
    BY DEF ToSet
  <1>4. DOMAIN s = 1 .. Len(s) /\ DOMAIN t = 1 .. Len(t) /\ DOMAIN (s \o t) = 1 .. Len(s) + Len(t)
    OBVIOUS
  <1>5. QED
    BY <1>1, <1>2, <1>3, <1>4 DEF ToSet

\* Two messages wait only behind the exception from outside.
OutShort ==
    \/ Len(out) <= 1
    \/ /\ Len(out) = 2
       /\ \/ "bound" \in ToSet(out) \cup ToSet(printed)
          \/ cpu = "handling" /\ Halts(vector)
          \/ cpu = "halted"

\* Where messages come from, and where they go.
LEMMA OutSteps ==
    ASSUME [Next]_vars
    PROVE  \/ /\ UNCHANGED <<out, printed>>
              /\ \/ UNCHANGED <<cpu, vector>> \/ out = <<>>
                 \/ cpu = "handling" /\ cpu' = "halted"
                 \/ cpu = "handling" /\ ~Halts(vector)
           \/ out = <<>> /\ (out' = <<Now>> \/ \E v : out' = <<Message(v)>> \o out)
           \/ /\ out # <<>> /\ out' = Tail(out) /\ printed' = Append(printed, Head(out))
              /\ UNCHANGED <<cpu, vector>>
           \/ BoundExceeded
  <1>1. CASE InitSerial \/ Chip \/ Timer \/ Sleep \/ AcpiStep \/ AcpiWild \/ UNCHANGED vars
    BY <1>1 DEF InitSerial, Command, SelfTest, Chip, Drain, Receive, Timer, Sleep, AcpiStep,
         AcpiWild, Ready, bootVars, interruptVars, serialVars, vars
  <1>2. CASE Hello \/ Elsewhere \/ LoadIdt \/ AcpiReturns \/ StartTimer \/ SleepReturns
    BY <1>2 DEF Hello, Elsewhere, LoadIdt, AcpiReturns, StartTimer, SleepReturns, Ready,
         PrintThenNext, serialVars, interruptVars
  <1>3. CASE FollowMissing \/ AcpiFaults \/ TimerFaults \/ SleepFaults
    BY <1>3 DEF FollowMissing, AcpiFaults, TimerFaults, SleepFaults, Ready, Fault, serialVars
  <1>4. CASE Send
    BY <1>4 DEF Send, Write, interruptVars
  <1>5. CASE HandlerEnds \/ StackUse
    BY <1>5 DEF HandlerEnds, Halt, Leave, StackUse, Overwrite, serialVars, bootVars
  <1>6. QED
    BY <1>1, <1>2, <1>3, <1>4, <1>5 DEF Next, Processor

LEMMA OutStaysShort ==
    ASSUME PrintInv, OutShort, [Next]_vars
    PROVE  OutShort'
  <1>1. out \in Seq(Bytes) /\ printed \in Seq(Bytes)
    BY DEF PrintInv, PortInv
  <1>2. CASE /\ UNCHANGED <<out, printed>>
             /\ \/ UNCHANGED <<cpu, vector>> \/ out = <<>>
                \/ cpu = "handling" /\ cpu' = "halted"
                \/ cpu = "handling" /\ ~Halts(vector)
    BY <1>2 DEF OutShort, Halts
  <1>3. CASE out = <<>> /\ (out' = <<Now>> \/ \E v : out' = <<Message(v)>> \o out)
    <2>1. \A x : Len(<<x>>) <= 1 /\ Len(<<x>> \o <<>>) <= 1
      OBVIOUS
    <2>2. QED
      BY <1>3, <2>1, Zenon DEF OutShort
  <1>4. CASE /\ out # <<>> /\ out' = Tail(out) /\ printed' = Append(printed, Head(out))
             /\ UNCHANGED <<cpu, vector>>
    <2>1. Len(out) <= 2 /\ Len(out) \in Nat \ {0} /\ Len(Tail(out)) = Len(out) - 1
      BY <1>1, <1>4 DEF OutShort
    <2>2. Len(out') <= 1
      BY <1>4, <2>1
    <2>3. QED
      BY <2>2 DEF OutShort
  <1>5. CASE BoundExceeded
    <2>1. cpu = "running" /\ "bound" \notin ToSet(out) \cup ToSet(printed) /\ Fault(5)
      BY <1>1, <1>5, SetOfConcat DEF BoundExceeded, Fault, Raise
    <2>2. Len(out) <= 1 /\ Len(out) \in Nat
      BY <1>1, <2>1 DEF OutShort
    <2>3. CASE cpu' = "handling"
      <3>1. vector' \in {5, 8} /\ out' = <<Message(vector')>> \o out
        BY <2>1, <2>3 DEF Fault, Raise, Enter
      <3>2. Message(vector') \in Bytes
        BY <3>1 DEF Bytes
      <3>3. <<Message(vector')>> \in Seq(Bytes) /\ Len(<<Message(vector')>>) = 1
        BY <3>2
      <3>4. Len(out') = 1 + Len(out) /\ ToSet(out') = ToSet(<<Message(vector')>>) \cup ToSet(out)
        <4>1. ToSet(<<Message(vector')>> \o out) = ToSet(<<Message(vector')>>) \cup ToSet(out)
          BY <1>1, <3>3, SetOfConcat, ZenonT(30)
        <4>2. Len(<<Message(vector')>> \o out) = Len(<<Message(vector')>>) + Len(out)
          BY <1>1, <3>3, ConcatProperties, Zenon
        <4>3. QED
          BY <3>1, <3>3, <4>1, <4>2
      <3>5. vector' = 5 => "bound" \in ToSet(out')
        <4>1. Message(5) = "bound"
          BY DEF Message
        <4>2. "bound" \in ToSet(<<"bound">>)
          BY DEF ToSet
        <4>3. QED
          BY <3>4, <4>1, <4>2
      <3>6. vector' = 8 => Halts(vector')
        BY DEF Halts
      <3>7. Len(out') \in {1, 2}
        BY <2>2, <3>4
      <3>8. QED
        BY <2>3, <3>1, <3>5, <3>6, <3>7 DEF OutShort
    <2>4. CASE cpu' # "handling"
      BY <2>1, <2>2, <2>4 DEF Fault, OutShort
    <2>5. QED
      BY <2>3, <2>4
  <1>6. QED
    BY <1>2, <1>3, <1>4, <1>5, OutSteps

LEMMA GetTableTyped ==
    ASSUME tables \in Seq(STRING), NEW sig
    PROVE  GetTable(sig) \in {Wild, Dsdt} \cup 0 .. Len(tables)
  <1>1. Matching(sig) \subseteq 1 .. Len(tables) /\ Len(tables) \in Nat
    BY LenProperties DEF Matching
  <1>2. CASE Matching(sig) = {} \/ (sig = "DSD" /\ merged)
    BY <1>1, <1>2 DEF GetTable, NoTable
  <1>3. CASE Matching(sig) # {} /\ ~(sig = "DSD" /\ merged)
    <2>1. \E k \in Matching(sig) : \A h \in Matching(sig) : k <= h
      BY <1>1, <1>3, Least
    <2>2. GetTable(sig) \in Matching(sig)
      BY <1>3, <2>1 DEF GetTable
    <2>3. QED
      BY <1>1, <2>2
  <1>4. QED
    BY <1>2, <1>3

\* Types that the arguments above do not need.
RestTyped ==
    /\ tables \in Seq(STRING)
    /\ cpu \in {"running", "handling", "halted", "reset", "wild"}
    /\ found \in {Wild, Dsdt} \cup 0 .. Len(tables) /\ index \in 0 .. MaxIndex
    /\ counter \in 0 .. MaxCounter

LEMMA RestStaysTyped == ASSUME RestTyped, [Next]_vars PROVE RestTyped'
  <1>1. tables' = tables /\ tables \in Seq(STRING)
    BY MachineStays DEF RestTyped
  <1>2. cpu' \in {"running", "handling", "halted", "reset", "wild"}
    <2>1. CASE init_idt \/ Overwrite \/ UNCHANGED interruptVars
      BY <2>1 DEF init_idt, Overwrite, interruptVars, RestTyped
    <2>2. CASE \E v : Raise(v)
      BY <2>2 DEF Raise, Enter
    <2>3. CASE Halt \/ Leave \/ cpu' = "wild"
      BY <2>3 DEF Halt, Leave
    <2>4. QED
      BY <2>1, <2>2, <2>3, ExceptionSteps
  <1>3. found' \in {Wild, Dsdt} \cup 0 .. Len(tables) /\ index' \in 0 .. MaxIndex
    <2>1. CASE PrepareACPI \/ UNCHANGED acpiVars
      BY <2>1 DEF PrepareACPI, acpiVars, RestTyped
    <2>2. CASE ScanDsdt
      BY <1>1, <2>2, GetTableTyped, AcpiAssumption DEF ScanDsdt
    <2>3. CASE Scan
      <3>1. found' \in {Wild, Dsdt} \cup 0 .. Len(tables)
        BY <1>1, <2>3, GetTableTyped DEF Scan
      <3>2. index' \in 0 .. MaxIndex
        BY <2>3, AcpiAssumption DEF Scan, RestTyped
      <3>3. QED
        BY <3>1, <3>2
    <2>4. QED
      BY <2>1, <2>2, <2>3, LaiSteps
  <1>4. counter' \in 0 .. MaxCounter
    <2>1. CASE hpet_init \/ CallSleep \/ UNCHANGED hpetVars
      BY <2>1 DEF hpet_init, CallSleep, hpetVars, RestTyped
    <2>2. CASE Tick
      BY <2>2, HpetAssumption DEF Tick, RestTyped
    <2>3. QED
      BY <2>1, <2>2, TimerSteps
  <1>5. QED
    BY <1>1, <1>2, <1>3, <1>4 DEF RestTyped

\* What waits in the transmitter has been printed, is the test byte or was left
\* there.
LEMMA PortTypes ==
    ASSUME PortInv
    PROVE  /\ uart.thr \in Seq(ToSet(printed) \cup {TestByte} \cup Stale)
           /\ Len(uart.thr) <= Depth
  <1> DEFINE Named == ToSet(printed) \cup {TestByte} \cup Stale
  <1>1. /\ uart.thr \in Seq(Sent) /\ wire \in Seq(Sent) /\ printed \in Seq(Sent)
        /\ left.thr \in Seq(Stale)
    BY LeftIs, SeqMore DEF PortInv, UartTyped, Sent
  <1>2. CASE status = "ready"
    <2>1. PICK e \in Early : wire \o uart.thr = e \o printed
      BY <1>2 DEF PortInv
    <2>2. PICK k \in 0 .. Len(left.thr) : e = SubSeq(left.thr, 1, k)
      BY <2>1 DEF Early
    <2>3. e \in Seq(Stale)
      BY <1>1, <2>2
    <2>4. e \in Seq(Sent)
      BY <2>3, SeqMore DEF Sent
    <2>5. ToSet(e) \subseteq Stale
      BY <2>3 DEF ToSet
    <2>6. /\ ToSet(wire \o uart.thr) = ToSet(wire) \cup ToSet(uart.thr)
          /\ ToSet(e \o printed) = ToSet(e) \cup ToSet(printed)
      BY <1>1, <2>4, SetOfConcat
    <2>7. \A i \in 1 .. Len(uart.thr) : uart.thr[i] \in Named
      <3>1. DOMAIN uart.thr = 1 .. Len(uart.thr)
        BY <1>1
      <3>2. \A i \in 1 .. Len(uart.thr) : uart.thr[i] \in ToSet(uart.thr)
        BY <3>1 DEF ToSet
      <3>3. ToSet(uart.thr) \subseteq ToSet(e) \cup ToSet(printed)
        BY <2>1, <2>6
      <3>4. QED
        BY <2>5, <3>2, <3>3
    <2>8. Len(uart.thr) <= Depth
      BY <1>1, <1>2, SerialAssumption DEF PortInv
    <2>9. uart.thr \in Seq(Named)
      BY <1>1, <2>7
    <2>10. QED
      BY <2>8, <2>9
  <1>3. CASE uart.thr \in {<<>>, <<TestByte>>}
    <2>1. TestByte \in Named
      OBVIOUS
    <2>2. <<TestByte>> \in Seq(Named) /\ <<>> \in Seq(Named)
      BY <2>1
    <2>3. Len(<<TestByte>>) <= Depth /\ Len(<<>>) <= Depth
      BY SerialAssumption
    <2>4. QED
      BY <1>3, <2>2, <2>3, Zenon
  <1>4. CASE status = "init" /\ step <= 6
    <2>1. uart.thr \in Seq(Stale) /\ Len(uart.thr) <= Depth
      BY <1>4 DEF PortInv, Programmed, Uncleared
    <2>2. uart.thr \in Seq(Named)
      BY <2>1, SeqMore
    <2>3. QED
      BY <2>1, <2>2
  <1>5. QED
    BY <1>2, <1>3, <1>4 DEF PortInv, Programmed

\* The types of the boot's variables: the transmitter holds no more than it has
\* room for and only what was printed or the test byte, LAI is never handed
\* something that is neither a table, NULL nor one of the two stray pointers, and
\* no more than two messages wait to be printed.
THEOREM BootTyping == Spec => []TypeOK
  <1>1. Init => PrintInv /\ RestTyped /\ OutShort
    <2>1. Init => PrintInv
      BY PortInit DEF Init, SerialInit, InterruptsInit, PrintInv
    <2>2. Init => RestTyped
      <3> SUFFICES ASSUME Init PROVE RestTyped
        OBVIOUS
      <3>1. tables \in Seq(STRING) /\ counter \in 0 .. MaxCounter
        BY MachineAssumption DEF Init
      <3>2. Len(tables) \in Nat
        BY <3>1, LenProperties
      <3>3. QED
        BY <3>1, <3>2, AcpiAssumption DEF Init, InterruptsInit, AcpiInit, RestTyped, NoTable
    <2>3. Init => OutShort
      BY DEF Init, OutShort
    <2>4. QED
      BY <2>1, <2>2, <2>3
  <1>2. PrintInv /\ RestTyped /\ OutShort /\ [Next]_vars => (PrintInv /\ RestTyped /\ OutShort)'
    BY PrintKeeps, RestStaysTyped, OutStaysShort
  <1>3. PrintInv /\ RestTyped /\ OutShort => TypeOK
    <2> SUFFICES ASSUME PrintInv, RestTyped, OutShort PROVE TypeOK
      OBVIOUS
    <2>1. PortInv /\ UartTyped
      BY DEF PrintInv, PortInv
    <2>2. uart \in [dll : 0 .. 255, dlm : 0 .. 255, ier : 0 .. 255, lcr : 0 .. 255, mcr : 0 .. 255,
                    thr : Seq(ToSet(printed) \cup {TestByte} \cup Stale),
                    rbr : Seq(Typed \cup Garbled \cup {TestByte} \cup Stale)]
      BY <2>1, PortTypes DEF UartTyped, Received, Byte
    <2>3. Len(uart.thr) <= Depth /\ left \in Leftover
      BY <2>1, PortTypes DEF PortInv
    <2>4. step \in 1 .. Len(Commands) + 1
      BY <2>1, CommandsAre DEF PortInv
    <2>5. at \in 1 .. Done
      BY StepsAre DEF PrintInv, Done
    <2>6. Len(out) <= 2
      <3>1. out \in Seq(Bytes)
        BY DEF PrintInv
      <3>2. Len(out) <= 1 \/ Len(out) = 2
        BY Zenon DEF OutShort
      <3>3. QED
        BY <3>1, <3>2
    <2>7. QED
      BY <2>2, <2>3, <2>4, <2>5, <2>6 DEF TypeOK, PrintInv, RestTyped
  <1>4. QED
    BY <1>1, <1>2, <1>3, PTL DEF Spec

-----------------------------------------------------------------------------
\* What the boot draws.  Drawing shares no variable with the rest of _start, so
\* Graphics has variables of its own here; that its constants are sensible is a
\* hypothesis of its theorems.
CONSTANTS Screens, PageWords, Words, Font, GlyphWidth, GlyphHeight, Strings, Images, Windows,
          Places, MaxCalls
VARIABLES screen, mem, front, window, showing, last, calls

Draw == INSTANCE Graphics WITH status <- showing

\* The address of a column of a row, n words long.
Place(row, column, n) == row * n + column

LEMMA PlaceIsNat ==
    ASSUME NEW r \in Nat, NEW c \in Nat, NEW n \in Nat PROVE Place(r, c, n) \in Nat
  BY DEF Place

\* Rows do not meet.
LEMMA PlaceIsUnique ==
    ASSUME NEW n \in Nat, NEW r1 \in Nat, NEW c1 \in Nat, NEW r2 \in Nat, NEW c2 \in Nat,
           c1 < n, c2 < n, Place(r1, c1, n) = Place(r2, c2, n)
    PROVE  r1 = r2 /\ c1 = c2
  <1>1. (r1 - r2) * n = c2 - c1 /\ (r2 - r1) * n = c1 - c2
    BY DEF Place
  <1>2. (r1 - r2 >= 1 => (r1 - r2) * n >= n) /\ (r2 - r1 >= 1 => (r2 - r1) * n >= n)
    OBVIOUS
  <1>3. ~(r1 - r2 >= 1) /\ ~(r2 - r1 >= 1)
    BY <1>1, <1>2
  <1>4. r1 = r2
    BY <1>3
  <1>5. QED
    BY <1>4 DEF Place

LEMMA Division ==
    ASSUME NEW a \in Nat, NEW n \in Nat \ {0}
    PROVE  a = Place(a \div n, a % n, n) /\ a % n \in 0 .. n - 1 /\ a \div n \in Nat
  BY DEF Place

LEMMA PlaceTakenApart ==
    ASSUME NEW r \in Nat, NEW c \in Nat, NEW n \in Nat, c < n
    PROVE  Place(r, c, n) \div n = r /\ Place(r, c, n) % n = c
  <1> DEFINE a == Place(r, c, n)
             i == a \div n
             j == a % n
  <1>1. a \in Nat /\ n \in Nat \ {0}
    BY PlaceIsNat
  <1>2. a = Place(i, j, n) /\ i \in Nat /\ j \in Nat /\ j < n
    BY <1>1, Division
  <1> HIDE DEF i, j
  <1>3. r = i /\ c = j
    BY <1>2, PlaceIsUnique
  <1>4. QED
    BY <1>3 DEF i, j

LEMMA PlaceIsBelow ==
    ASSUME NEW r \in Nat, NEW c \in Nat, NEW n \in Nat, NEW h \in Nat, c < n, r < h
    PROVE  Place(r, c, n) < h * n
  <1>1. h * n = (r + 1) * n + (h - r - 1) * n
    OBVIOUS
  <1>2. (r + 1) * n = r * n + n /\ (h - r - 1) * n \in Nat /\ r * n \in Nat
    OBVIOUS
  <1>3. QED
    BY <1>1, <1>2 DEF Place

Drawable ==
    /\ screen \in Screens /\ window \in Windows \cup {<<>>}
    /\ mem = [a \in 0 .. Words - 1 |-> mem[a]]
    /\ front = [a \in 0 .. Draw!Size - 1 |-> front[a]]

Usable == Draw!GraphicsAssumption /\ screen \in Screens

LEMMA ScreenShape ==
    ASSUME Usable
    PROVE  /\ screen.width \in Nat /\ screen.height \in Nat /\ Draw!stride \in Nat
           /\ screen.width <= Draw!stride
           /\ Draw!Size \in Nat /\ Draw!Size <= Words /\ Words \in Nat
           /\ Draw!Size = screen.height * Draw!stride
  BY DEF Usable, Draw!GraphicsAssumption, Draw!stride, Draw!Size

At(q) == Place(q[2], q[1], Draw!stride)

LEMMA CoordinatesAt ==
    ASSUME Usable, NEW q \in Draw!Coordinates
    PROVE  /\ q[1] \in Nat /\ q[2] \in Nat /\ q = <<q[1], q[2]>>
           /\ q[1] < screen.width /\ q[1] < Draw!stride /\ q[2] < screen.height
           /\ At(q) \in 0 .. Draw!Size - 1 /\ At(q) \in 0 .. Words - 1
  <1>1. /\ q[1] \in Nat /\ q[2] \in Nat /\ q = <<q[1], q[2]>>
        /\ q[1] < screen.width /\ q[1] < Draw!stride /\ q[2] < screen.height
    <2>1. /\ screen.width \in Nat /\ screen.height \in Nat /\ Draw!stride \in Nat
          /\ screen.width <= Draw!stride
      BY ScreenShape
    <2>2. q \in (0 .. screen.width - 1) \X (0 .. screen.height - 1)
      BY DEF Draw!Coordinates
    <2>3. QED
      BY <2>1, <2>2
  <1>2. Draw!Size \in Nat /\ Draw!Size <= Words /\ Words \in Nat
    BY ScreenShape, Zenon
  <1>3. At(q) \in Nat /\ At(q) < Draw!Size
    <2>1. Draw!Size = screen.height * Draw!stride /\ screen.height \in Nat /\ Draw!stride \in Nat
      BY ScreenShape, Zenon
    <2>2. At(q) \in Nat
      BY <1>1, <2>1, PlaceIsNat DEF At
    <2>3. At(q) < screen.height * Draw!stride
      BY <1>1, <2>1, PlaceIsBelow, Zenon DEF At
    <2>4. QED
      BY <2>1, <2>2, <2>3
  <1>4. At(q) \in 0 .. Draw!Size - 1 /\ At(q) \in 0 .. Words - 1
    BY <1>2, <1>3
  <1>5. QED
    BY <1>1, <1>4

Landscape == screen.height <= screen.width

\* A dot of a glyph is there.
Dotted(p, edge, top, char) == \E d \in Font[char] : p[1] = edge + d[2] /\ p[2] = top + d[1]

\* Text.  A lit word is a lit pixel: on a screen that is no higher than wide the
\* clip by the stride takes nothing away that shows.
LEMMA PixelsShow ==
    ASSUME Usable, Landscape,
           NEW edge \in Nat, NEW top \in Nat, NEW char \in DOMAIN Font, NEW p \in Draw!Coordinates
    PROVE  At(p) \in Draw!Pixels(edge, top, char) <=> Dotted(p, edge, top, char)
  <1>1. \A d \in Font[char] : d[1] \in Nat /\ d[2] \in Nat
    BY DEF Usable, Draw!GraphicsAssumption
  <1>2. /\ p[1] \in Nat /\ p[2] \in Nat /\ p[1] < Draw!stride /\ p[2] < Draw!stride
        /\ Draw!stride \in Nat
    <2>1. /\ p[1] \in Nat /\ p[2] \in Nat /\ p[1] < Draw!stride /\ p[2] < screen.height
      BY CoordinatesAt, Zenon
    <2>2. /\ screen.height \in Nat /\ screen.width \in Nat /\ Draw!stride \in Nat
          /\ screen.width <= Draw!stride
      BY ScreenShape, Zenon
    <2>3. QED
      BY <2>1, <2>2 DEF Landscape
  <1>3. ASSUME At(p) \in Draw!Pixels(edge, top, char)
        PROVE  Dotted(p, edge, top, char)
    <2>1. PICK d \in Font[char] : /\ top + d[1] < Draw!stride /\ edge + d[2] < Draw!stride
                               /\ At(p) = (top + d[1]) * Draw!stride + edge + d[2]
      BY <1>3 DEF Draw!Pixels
    <2> DEFINE r == top + d[1]
               k == edge + d[2]
    <2>2. r \in Nat /\ k \in Nat /\ k < Draw!stride /\ d[1] \in Nat /\ d[2] \in Nat
      BY <1>1, <2>1
    <2>3. Place(p[2], p[1], Draw!stride) = Place(r, k, Draw!stride)
      BY <1>2, <2>1, <2>2 DEF At, Place
    <2> HIDE DEF r, k
    <2>4. p[2] = r /\ p[1] = k
      <3>1. p[1] \in Nat /\ p[2] \in Nat /\ p[1] < Draw!stride /\ Draw!stride \in Nat
        BY <1>2
      <3>2. r \in Nat /\ k \in Nat /\ k < Draw!stride
        BY <2>2
      <3>3. QED
        BY <3>1, <3>2, <2>3, PlaceIsUnique
    <2>5. QED
      BY <2>4 DEF r, k, Dotted
  <1>4. ASSUME NEW d \in Font[char], p[1] = edge + d[2], p[2] = top + d[1]
        PROVE  At(p) \in Draw!Pixels(edge, top, char)
    <2>1. top + d[1] < Draw!stride /\ edge + d[2] < Draw!stride
      BY <1>2, <1>4
    <2>2. At(p) = (top + d[1]) * Draw!stride + edge + d[2]
      BY <1>1, <1>2, <1>4 DEF At, Place
    <2>3. QED
      BY <2>1, <2>2 DEF Draw!Pixels
  <1>5. QED
    BY <1>3, <1>4 DEF Dotted

LEMMA TextShows ==
    ASSUME Usable, Landscape,
           NEW x \in Nat, NEW y \in Nat, NEW s \in Seq(DOMAIN Font \cup {"\n"}), NEW color,
           NEW m, 0 .. Words - 1 \subseteq DOMAIN m, NEW q \in Draw!Coordinates
    PROVE  Draw!put_string(m, x, y, s, color)[At(q)] =
               IF q \in Draw!Canvas!Lit(x, y, s) THEN color ELSE m[At(q)]
  <1> DEFINE shown == {h \in DOMAIN s : s[h] # "\n"}
             lit == UNION {Draw!Pixels(x + (k - 1) * GlyphWidth, y, s[k]) : k \in shown}
  <1>1. ASSUME NEW k \in shown
        PROVE  /\ x + (k - 1) * GlyphWidth \in Nat /\ s[k] \in DOMAIN Font
    <2>1. k - 1 \in Nat /\ GlyphWidth \in Nat /\ s[k] \in DOMAIN Font
      BY DEF Usable, Draw!GraphicsAssumption
    <2>2. (k - 1) * GlyphWidth \in Nat
      BY <2>1
    <2>3. QED
      BY <2>1, <2>2
  <1>2. ASSUME NEW k \in shown
        PROVE  At(q) \in Draw!Pixels(x + (k - 1) * GlyphWidth, y, s[k])
                 <=> q \in {<<x + (k - 1) * GlyphWidth + d[2], y + d[1]>> : d \in Font[s[k]]}
    <2> DEFINE z == x + (k - 1) * GlyphWidth
               e == s[k]
    <2>1. z \in Nat /\ e \in DOMAIN Font
      BY <1>1
    <2> HIDE DEF z, e
    <2>2. At(q) \in Draw!Pixels(z, y, e) <=> Dotted(q, z, y, e)
      BY <2>1, PixelsShow
    <2>3. q = <<q[1], q[2]>>
      BY CoordinatesAt, Zenon
    <2>4. At(q) \in Draw!Pixels(z, y, e) <=> q \in {<<z + d[2], y + d[1]>> : d \in Font[e]}
      BY <2>2, <2>3 DEF Dotted
    <2>5. QED
      BY <2>4 DEF z, e
  <1>3. At(q) \in lit <=> q \in Draw!Canvas!Lit(x, y, s)
    BY <1>2 DEF Draw!Canvas!Lit
  <1>4. At(q) \in DOMAIN m
    BY CoordinatesAt
  <1>5. Draw!put_string(m, x, y, s, color)[At(q)] = IF At(q) \in lit THEN color ELSE m[At(q)]
    BY <1>4 DEF Draw!put_string, Draw!Store
  <1>6. QED
    BY <1>3, <1>5

\* A window's rectangle, from its buffer, which is grey by then.
LEMMA WindowShows ==
    ASSUME Usable, window \in Windows, window # <<>>, Draw!Exact, NEW m, DOMAIN m = 0 .. Words - 1,
           NEW p \in Draw!Coordinates
    PROVE  Draw!blit(Draw!Filled(m), window.x, window.y, window.width, window.height,
                     Draw!WindowAt)[At(p)]
             = IF p[1] \in window.x .. window.x + window.width - 1
                    /\ p[2] \in window.y .. window.y + window.height - 1
                 THEN Draw!Grey ELSE m[At(p)]
  <1> DEFINE edge == window.x
             top == window.y
             wide == window.width
             high == window.height
             f == Draw!Filled(m)
             inside == p[1] \in edge .. edge + wide - 1 /\ p[2] \in top .. top + high - 1
  <1>1. /\ edge \in Nat /\ top \in Nat /\ wide \in Nat /\ high \in Nat
        /\ Draw!Size + wide * high <= Words
    BY DEF Usable, Draw!GraphicsAssumption, Draw!Size, Draw!stride
  <1>2. Draw!WindowAt = Draw!Size /\ (window # <<>> => edge + wide <= Draw!stride)
    BY DEF Draw!Exact, Draw!WindowAt
  <1>3. /\ p[1] \in Nat /\ p[2] \in Nat /\ p[1] < Draw!stride
        /\ At(p) \in 0 .. Draw!Size - 1 /\ At(p) \in DOMAIN m
    BY CoordinatesAt, Zenon
  <1>4. Draw!Size \in Nat /\ Draw!stride \in Nat /\ Words \in Nat
    BY ScreenShape, Zenon
  <1>5. f[At(p)] = m[At(p)] /\ DOMAIN f = 0 .. Words - 1
    <2>1. At(p) \notin Draw!WindowAt .. Draw!WindowAt + wide * high - 1
      BY <1>2, <1>3, <1>4
    <2>2. QED
      BY <1>3, <2>1 DEF Draw!Filled, Draw!Store
  <1>6. edge + wide <= Draw!stride
    BY <1>2
  <1>a. DOMAIN f = 0 .. Words - 1 /\ \A a \in DOMAIN f :
            a \in Draw!WindowAt .. Draw!WindowAt + wide * high - 1 => f[a] = Draw!Grey
    BY DEF Draw!Filled, Draw!Store
  <1> HIDE DEF edge, top, wide, high, f
  <1>b. p[1] \in Nat /\ p[2] \in Nat
    BY <1>3
  <1> DEFINE cells == Draw!Target(edge, top, wide, high)
  <1>7. ASSUME At(p) \in cells PROVE inside
    <2>1. PICK i \in 0 .. high - 1, j \in 0 .. wide - 1 :
               At(p) = (top + i) * Draw!stride + edge + j
      BY <1>7 DEF Draw!Target
    <2> DEFINE row == top + i
               column == edge + j
    <2>2. row \in Nat /\ column \in Nat /\ column < Draw!stride
      BY <1>1, <1>4, <1>6
    <2>3. Place(p[2], p[1], Draw!stride) = Place(row, column, Draw!stride)
      BY <1>1, <1>4, <2>1 DEF At, Place
    <2> HIDE DEF row, column
    <2>a. p[1] \in Nat /\ p[2] \in Nat /\ p[1] < Draw!stride /\ Draw!stride \in Nat
      BY <1>3, <1>4
    <2>4. p[2] = row /\ p[1] = column
      BY <2>a, <2>2, <2>3, PlaceIsUnique
    <2>5. QED
      BY <1>1, <2>4 DEF row, column
  <1>8. ASSUME inside PROVE At(p) \in cells
    <2> DEFINE i == p[2] - top
               j == p[1] - edge
    <2>1. i \in 0 .. high - 1 /\ j \in 0 .. wide - 1 /\ p[2] = top + i /\ p[1] = edge + j
      BY <1>1, <1>b, <1>8, SMTT(20)
    <2> HIDE DEF i, j
    <2>2. At(p) = (top + i) * Draw!stride + edge + j
      BY <1>1, <1>4, <2>1 DEF At, Place
    <2> DEFINE e == <<i, j>>
    <2>3. e \in (0 .. high - 1) \X (0 .. wide - 1) /\ e[1] = i /\ e[2] = j
      BY <2>1
    <2> HIDE DEF e
    <2>4. At(p) = (top + e[1]) * Draw!stride + edge + e[2]
      BY <2>2, <2>3
    <2>5. QED
      BY <2>3, <2>4 DEF Draw!Target
  <1>9. ASSUME inside
        PROVE  f[Draw!WindowAt + (((At(p) - edge) \div Draw!stride) - top) * wide
                   + ((At(p) - edge) % Draw!stride)] = Draw!Grey
    <2> DEFINE i == p[2] - top
               j == p[1] - edge
    <2>1. i \in Nat /\ i < high /\ j \in Nat /\ j < wide /\ j < Draw!stride
      <3>1. i \in 0 .. high - 1 /\ j \in 0 .. wide - 1 /\ p[1] = edge + j
        BY <1>1, <1>b, <1>9, SMTT(20)
      <3> HIDE DEF i, j
      <3>2. QED
        BY <1>1, <1>3, <1>4, <3>1
    <2>2. At(p) - edge = Place(p[2], j, Draw!stride)
      BY <1>1, <1>3, <1>4 DEF At, Place
    <2> HIDE DEF j
    <2>3. (At(p) - edge) \div Draw!stride = p[2] /\ (At(p) - edge) % Draw!stride = j
      BY <1>3, <1>4, <2>1, <2>2, PlaceTakenApart
    <2> DEFINE b == Place(i, j, wide)
    <2>4. b \in Nat /\ b < high * wide
      BY <1>1, <2>1, PlaceIsNat, PlaceIsBelow
    <2>5. Draw!WindowAt + (p[2] - top) * wide + j = Draw!WindowAt + b
      BY <1>1, <1>2, <1>3, <1>4, <2>1 DEF Place
    <2>6. high * wide = wide * high /\ wide * high \in Nat
      BY <1>1
    <2>7. /\ Draw!WindowAt + b \in Draw!WindowAt .. Draw!WindowAt + wide * high - 1
          /\ Draw!WindowAt + b \in 0 .. Words - 1
      <3> HIDE DEF b
      <3>1. QED
        BY <1>1, <1>2, <1>4, <2>4, <2>6
    <2>8. f[Draw!WindowAt + b] = Draw!Grey
      BY <2>7, <1>a
    <2>9. QED
      BY <2>3, <2>5, <2>8
  <1> HIDE DEF inside
  <1>10. Draw!blit(f, edge, top, wide, high, Draw!WindowAt)[At(p)]
           = IF At(p) \in cells
               THEN f[Draw!WindowAt + (((At(p) - edge) \div Draw!stride) - top) * wide
                        + ((At(p) - edge) % Draw!stride)]
               ELSE f[At(p)]
    BY <1>3, <1>5 DEF Draw!blit, Draw!Store
  <1>11. Draw!blit(f, edge, top, wide, high, Draw!WindowAt)[At(p)]
           = IF inside THEN Draw!Grey ELSE m[At(p)]
    BY <1>5, <1>7, <1>8, <1>9, <1>10
  <1>12. QED
    BY <1>11 DEF f, inside, edge, top, wide, high

\* The picture is what the memory holds at the addresses of the pixels.
Seen(m) == [p \in Draw!Coordinates |-> m[At(p)]]

LEMMA StepIs ==
    ASSUME UNCHANGED screen,
           \/ /\ last'.op = "init" /\ Seen(mem') = [p \in Draw!Coordinates |-> Draw!Black]
              /\ Seen(front') = Seen(mem')
           \/ /\ last'.op = "text" /\ Seen(front') = Seen(front)
              /\ Seen(mem') = Draw!Canvas!Text(Seen(mem), last'.x, last'.y, last'.s, last'.color)
           \/ /\ last'.op = "image" /\ Seen(front') = Seen(front)
              /\ Seen(mem') = Draw!Canvas!Picture(Seen(mem), last'.image)
           \/ last'.op = "swap" /\ Seen(front') = Seen(mem) /\ Seen(mem') = Seen(mem)
           \/ last'.op = "create" /\ Seen(front') = Seen(front) /\ Seen(mem') = Seen(mem)
           \/ /\ last'.op = "draw" /\ Seen(front') = Seen(mem')
              /\ Seen(mem') = Draw!Canvas!Text(
                                  Draw!Canvas!Rectangle(Seen(mem), last'.x, last'.y, last'.width,
                                                        last'.height, Draw!Grey),
                                  last'.x, last'.y, last'.s, Draw!Title)
    PROVE  Draw!Canvas!Step(last')
  BY DEF Draw!Canvas!Step, Seen, At, Place, Draw!Coordinates, Draw!stride

LEMMA TextStep ==
    ASSUME Usable, Drawable, Draw!PutString, Draw!Exact'
    PROVE  Draw!Canvas!Step(last')
  <1>1. PICK l \in Places, t \in Strings :
            /\ Draw!Call([op |-> "text", x |-> l[1], y |-> l[2], s |-> t, color |-> Draw!White])
            /\ mem' = Draw!put_string(mem, l[1], l[2], t, Draw!White)
    BY DEF Draw!PutString
  <1>2. /\ last'.op = "text" /\ last'.x = l[1] /\ last'.y = l[2] /\ last'.s = t
        /\ last'.color = Draw!White /\ UNCHANGED <<screen, front>>
    BY <1>1 DEF Draw!Call, Draw!PutString
  <1>3. Landscape
    BY <1>2 DEF Draw!Exact, Landscape
  <1>4. l[1] \in Nat /\ l[2] \in Nat /\ t \in Seq(DOMAIN Font \cup {"\n"})
    BY DEF Usable, Draw!GraphicsAssumption
  <1>5. 0 .. Words - 1 \subseteq DOMAIN mem
    BY DEF Drawable
  <1>6. \A p \in Draw!Coordinates : mem'[At(p)] =
            IF p \in Draw!Canvas!Lit(l[1], l[2], t) THEN Draw!White ELSE mem[At(p)]
    BY <1>1, <1>3, <1>4, <1>5, TextShows
  <1>7. Seen(mem') = Draw!Canvas!Text(Seen(mem), l[1], l[2], t, Draw!White)
    BY <1>6 DEF Seen, Draw!Canvas!Text
  <1>8. UNCHANGED screen /\ Seen(front') = Seen(front)
    BY <1>2
  <1>9. /\ last'.op = "text"
        /\ Seen(mem') = Draw!Canvas!Text(Seen(mem), last'.x, last'.y, last'.s, last'.color)
    BY <1>2, <1>7
  <1>10. QED
    BY <1>8, <1>9, StepIs

LEMMA SwapShows ==
    ASSUME Usable, Drawable, NEW ACTION m, Draw!swap_buffers(m)
    PROVE  Seen(front') = Seen(m)
  <1>1. \A p \in Draw!Coordinates : At(p) \in DOMAIN front
    BY CoordinatesAt DEF Drawable
  <1>2. QED
    BY <1>1 DEF Draw!swap_buffers, Seen

LEMMA InitStep ==
    ASSUME Usable, Drawable, Draw!graphics_init, Draw!Exact'
    PROVE  Draw!Canvas!Step(last')
  <1>1. /\ last'.op = "init" /\ UNCHANGED screen /\ Draw!swap_buffers(mem')
        /\ mem' = Draw!Flush([a \in DOMAIN mem |-> IF a < Draw!Pages(Draw!Size)
                                                     THEN Draw!Black ELSE mem[a]])
    BY DEF Draw!graphics_init, Draw!Call
  <1>2. Draw!Pages(Draw!Size) = Draw!Size
    BY <1>1 DEF Draw!Exact, Draw!Size, Draw!Pages, Draw!stride
  <1>3. \A p \in Draw!Coordinates : At(p) \in DOMAIN mem /\ At(p) < Draw!Size
    BY CoordinatesAt, ScreenShape DEF Drawable
  <1>4. \A p \in Draw!Coordinates : mem'[At(p)] = Draw!Black
    BY <1>1, <1>2, <1>3 DEF Draw!Flush, Draw!Store
  <1>5. Seen(mem') = [p \in Draw!Coordinates |-> Draw!Black]
    BY <1>4 DEF Seen
  <1>6. Seen(front') = Seen(mem')
    BY <1>1, SwapShows
  <1>7. QED
    BY <1>1, <1>5, <1>6, StepIs

LEMMA SwapStep ==
    ASSUME Usable, Drawable, Draw!Swap
    PROVE  Draw!Canvas!Step(last')
  <1>1. /\ last'.op = "swap" /\ UNCHANGED <<screen, mem>> /\ Draw!swap_buffers(mem)
    BY DEF Draw!Swap, Draw!Call
  <1>2. Seen(front') = Seen(mem) /\ Seen(mem') = Seen(mem)
    BY <1>1, SwapShows
  <1>3. QED
    BY <1>1, <1>2, StepIs

LEMMA ImageStep ==
    ASSUME Usable, Drawable, Draw!DrawImage, Draw!Exact'
    PROVE  Draw!Canvas!Step(last')
  <1>1. PICK i \in Images :
            /\ Draw!Call([op |-> "image", image |-> i])
            /\ mem' = Draw!Store(mem, [a \in {d[1] * Draw!stride + d[2] : d \in DOMAIN i} |->
                          Draw!Swapped(i[<<a \div Draw!stride, a % Draw!stride>>])])
    BY DEF Draw!DrawImage
  <1>2. last'.op = "image" /\ last'.image = i /\ UNCHANGED <<screen, front>>
    BY <1>1 DEF Draw!Call, Draw!DrawImage
  <1>3. \A d \in DOMAIN i : d[1] \in Nat /\ d[2] \in Nat /\ d = <<d[1], d[2]>>
    BY DEF Usable, Draw!GraphicsAssumption
  <1>4. \A d \in DOMAIN i : d[2] < Draw!stride
    BY <1>2 DEF Draw!Exact, Draw!stride
  <1> DEFINE places == {d[1] * Draw!stride + d[2] : d \in DOMAIN i}
  <1>5. ASSUME NEW p \in Draw!Coordinates
        PROVE  mem'[At(p)] = IF <<p[2], p[1]>> \in DOMAIN i THEN Draw!Swapped(i[<<p[2], p[1]>>])
                                                         ELSE mem[At(p)]
    <2>1. p[1] \in Nat /\ p[2] \in Nat /\ p[1] < Draw!stride /\ At(p) \in 0 .. Words - 1
      BY CoordinatesAt, Zenon
    <2>2. Draw!stride \in Nat
      BY ScreenShape, Zenon
    <2>3. ASSUME NEW d \in DOMAIN i, At(p) = d[1] * Draw!stride + d[2]
          PROVE  <<p[2], p[1]>> = d
      <3>1. Place(p[2], p[1], Draw!stride) = Place(d[1], d[2], Draw!stride)
        BY <2>3 DEF At, Place
      <3>2. p[2] = d[1] /\ p[1] = d[2]
        BY <1>3, <1>4, <2>1, <2>2, <3>1, PlaceIsUnique
      <3>3. QED
        BY <1>3, <3>2
    <2>4. At(p) \in places => <<p[2], p[1]>> \in DOMAIN i
      BY <2>3
    <2>5. <<p[2], p[1]>> \in DOMAIN i => At(p) \in places
      <3> DEFINE d == <<p[2], p[1]>>
      <3>1. At(p) = d[1] * Draw!stride + d[2]
        BY DEF At, Place
      <3> HIDE DEF d
      <3>2. d \in DOMAIN i => At(p) \in places
        BY <3>1
      <3>3. QED
        BY <3>2 DEF d
    <2>6. At(p) \div Draw!stride = p[2] /\ At(p) % Draw!stride = p[1]
      BY <2>1, <2>2, PlaceTakenApart DEF At
    <2>7. At(p) \in DOMAIN mem
      BY <2>1 DEF Drawable
    <2>8. mem'[At(p)] =
              IF At(p) \in places
                THEN Draw!Swapped(i[<<At(p) \div Draw!stride, At(p) % Draw!stride>>])
                ELSE mem[At(p)]
      BY <1>1, <2>7 DEF Draw!Store
    <2>9. QED
      BY <2>4, <2>5, <2>6, <2>8
  <1>6. Seen(mem') = Draw!Canvas!Picture(Seen(mem), i)
    BY <1>5 DEF Seen, Draw!Canvas!Picture, Draw!Swapped
  <1>7. Seen(front') = Seen(front)
    BY <1>2
  <1>8. /\ last'.op = "image" /\ UNCHANGED screen
        /\ Seen(mem') = Draw!Canvas!Picture(Seen(mem), last'.image)
    BY <1>2, <1>6
  <1>9. QED
    BY <1>7, <1>8, StepIs

LEMMA CreateStep ==
    ASSUME Usable, Drawable, Draw!init_window, Draw!Exact'
    PROVE  Draw!Canvas!Step(last')
  <1>1. PICK w \in Windows :
            /\ window' = w /\ Draw!Call([op |-> "create"])
            /\ mem' = Draw!Store(mem,
                         [a \in Draw!WindowAt .. Draw!WindowAt + Draw!Pages(w.width * w.height) - 1 |->
                             Draw!Black])
    BY DEF Draw!init_window
  <1>2. last'.op = "create" /\ UNCHANGED <<screen, front>>
    BY <1>1 DEF Draw!Call, Draw!init_window
  <1>3. Draw!WindowAt = Draw!Size
    BY <1>2 DEF Draw!Exact, Draw!WindowAt, Draw!Size, Draw!Pages, Draw!stride
  <1>4. \A p \in Draw!Coordinates : mem'[At(p)] = mem[At(p)]
    <2> SUFFICES ASSUME NEW p \in Draw!Coordinates PROVE mem'[At(p)] = mem[At(p)]
      OBVIOUS
    <2>1. At(p) \in DOMAIN mem /\ At(p) \in 0 .. Draw!Size - 1 /\ Draw!Size \in Nat
      BY CoordinatesAt, ScreenShape DEF Drawable
    <2>2. At(p) \notin Draw!WindowAt .. Draw!WindowAt + Draw!Pages(w.width * w.height) - 1
      BY <1>3, <2>1
    <2>3. QED
      BY <1>1, <2>1, <2>2 DEF Draw!Store
  <1>5. Seen(mem') = Seen(mem) /\ Seen(front') = Seen(front)
    BY <1>2, <1>4 DEF Seen
  <1>6. QED
    BY <1>2, <1>5, StepIs

LEMMA DrawStep ==
    ASSUME Usable, Drawable, Draw!draw_window, Draw!Exact'
    PROVE  Draw!Canvas!Step(last')
  <1> DEFINE m == Draw!blit(Draw!Filled(mem), window.x, window.y, window.width, window.height,
                            Draw!WindowAt)
  <1>1. /\ window # <<>> /\ UNCHANGED <<screen, window>> /\ Draw!swap_buffers(mem')
        /\ mem' = Draw!put_string(m, window.x, window.y, window.title, Draw!Title)
    BY DEF Draw!draw_window, Draw!Call
  <1>2. /\ last'.op = "draw" /\ last'.x = window.x /\ last'.y = window.y /\ last'.width = window.width
        /\ last'.height = window.height /\ last'.s = window.title
    BY DEF Draw!draw_window, Draw!Call
  <1>3. Draw!Exact /\ Landscape
    BY <1>1 DEF Draw!Exact, Draw!Size, Draw!Pages, Draw!stride, Landscape
  <1>4. window \in Windows
    BY <1>1 DEF Drawable
  <1>5. window.x \in Nat /\ window.y \in Nat /\ window.title \in Seq(DOMAIN Font \cup {"\n"})
    BY <1>4 DEF Usable, Draw!GraphicsAssumption
  <1>6. DOMAIN mem = 0 .. Words - 1 /\ DOMAIN m = 0 .. Words - 1
    BY DEF Drawable, Draw!blit, Draw!Filled, Draw!Store
  <1> DEFINE box(p) == /\ p[1] \in window.x .. window.x + window.width - 1
                       /\ p[2] \in window.y .. window.y + window.height - 1
  <1>7. \A p \in Draw!Coordinates : m[At(p)] = IF box(p) THEN Draw!Grey ELSE mem[At(p)]
    BY <1>1, <1>3, <1>4, <1>6, WindowShows
  <1> HIDE DEF m
  <1>8. \A p \in Draw!Coordinates : mem'[At(p)] =
            IF p \in Draw!Canvas!Lit(window.x, window.y, window.title) THEN Draw!Title ELSE m[At(p)]
    <2> DEFINE edge == window.x
               top == window.y
               t == window.title
    <2>1. edge \in Nat /\ top \in Nat /\ t \in Seq(DOMAIN Font \cup {"\n"})
      BY <1>5
    <2>2. 0 .. Words - 1 \subseteq DOMAIN m /\ mem' = Draw!put_string(m, edge, top, t, Draw!Title)
      BY <1>1, <1>6
    <2> HIDE DEF edge, top, t
    <2>3. \A p \in Draw!Coordinates : Draw!put_string(m, edge, top, t, Draw!Title)[At(p)] =
              IF p \in Draw!Canvas!Lit(edge, top, t) THEN Draw!Title ELSE m[At(p)]
      BY <1>3, <2>1, <2>2, TextShows
    <2>4. QED
      BY <2>2, <2>3 DEF edge, top, t
  <1>9. Seen(m) = Draw!Canvas!Rectangle(Seen(mem), window.x, window.y, window.width, window.height,
                                        Draw!Grey)
    BY <1>7 DEF Seen, Draw!Canvas!Rectangle
  <1>10. Seen(mem') = Draw!Canvas!Text(Seen(m), window.x, window.y, window.title, Draw!Title)
    BY <1>8 DEF Seen, Draw!Canvas!Text
  <1>11. Seen(front') = Seen(mem')
    BY <1>1, SwapShows
  <1>12. QED
    BY <1>1, <1>2, <1>9, <1>10, <1>11, StepIs

\* Memory keeps its extent.
LEMMA DrawableFirst == ASSUME Draw!Init PROVE Drawable
  BY DEF Draw!Init, Drawable, Draw!Size, Draw!stride

LEMMA DrawableStays == ASSUME Drawable, [Draw!Next]_(Draw!vars) PROVE Drawable'
  <1>1. screen' = screen
    BY DEF Draw!Next, Draw!graphics_init, Draw!PutString, Draw!DrawImage, Draw!Swap, Draw!init_window,
           Draw!draw_window, Draw!Call, Draw!vars
  <1>2. window' \in Windows \cup {<<>>}
    BY DEF Draw!Next, Draw!graphics_init, Draw!PutString, Draw!DrawImage, Draw!Swap, Draw!init_window,
           Draw!draw_window, Draw!vars, Drawable
  <1>3. UNCHANGED front \/ \E m : front' = [a \in DOMAIN front |-> m[a]]
    BY DEF Draw!Next, Draw!graphics_init, Draw!PutString, Draw!DrawImage, Draw!Swap, Draw!init_window,
           Draw!draw_window, Draw!vars, Draw!swap_buffers
  <1>4. mem' = [a \in DOMAIN mem |-> mem'[a]]
    <2>1. CASE Draw!graphics_init
      BY <2>1 DEF Draw!graphics_init, Draw!Flush, Draw!Store
    <2>2. CASE Draw!PutString
      BY <2>2 DEF Draw!PutString, Draw!put_string, Draw!Store
    <2>3. CASE Draw!DrawImage
      BY <2>3 DEF Draw!DrawImage, Draw!Store
    <2>4. CASE Draw!init_window
      BY <2>4 DEF Draw!init_window, Draw!Store
    <2>5. CASE Draw!draw_window
      <3> DEFINE m == Draw!blit(Draw!Filled(mem), window.x, window.y, window.width,
                                window.height, Draw!WindowAt)
      <3>1. DOMAIN m = DOMAIN mem
        BY DEF Draw!blit, Draw!Filled, Draw!Store
      <3>2. mem' = Draw!put_string(m, window.x, window.y, window.title, Draw!Title)
        BY <2>5 DEF Draw!draw_window
      <3> HIDE DEF m
      <3>3. QED
        BY <3>1, <3>2 DEF Draw!put_string, Draw!Store
    <2>6. CASE UNCHANGED mem
      BY <2>6 DEF Drawable
    <2>7. QED
      BY <2>1, <2>2, <2>3, <2>4, <2>5, <2>6 DEF Draw!Next, Draw!Swap, Draw!vars
  <1>5. front' = [a \in 0 .. Draw!Size - 1 |-> front'[a]]
    BY <1>3 DEF Drawable
  <1>6. Draw!Size' = Draw!Size
    BY <1>1 DEF Draw!Size, Draw!stride
  <1>7. mem' = [a \in 0 .. Words - 1 |-> mem'[a]]
    BY <1>4 DEF Drawable
  <1>8. QED
    BY <1>1, <1>2, <1>5, <1>6, <1>7 DEF Drawable

\* Where drawing stores, if all of it is on the screen.
Within(top) == top + GlyphHeight <= screen.height

LEMMA PixelsBelow ==
    ASSUME Usable, NEW edge \in Nat, NEW top \in Nat, Within(top), NEW char \in DOMAIN Font,
           NEW a \in Draw!Pixels(edge, top, char)
    PROVE  a \in Nat /\ a < Draw!Size
  <1>1. PICK d \in Font[char] : /\ top + d[1] < Draw!stride /\ edge + d[2] < Draw!stride
                                /\ a = (top + d[1]) * Draw!stride + edge + d[2]
    BY DEF Draw!Pixels
  <1>2. d[1] \in 0 .. GlyphHeight - 1 /\ d[2] \in Nat /\ GlyphHeight \in Nat
    BY DEF Usable, Draw!GraphicsAssumption
  <1> DEFINE i == d[1]
             j == d[2]
             row == top + i
             column == edge + j
  <1>3. screen.height \in Nat /\ Draw!stride \in Nat /\ Draw!Size = screen.height * Draw!stride
    BY ScreenShape, Zenon
  <1>4. i \in Nat /\ j \in Nat /\ i < GlyphHeight
    BY <1>2
  <1>5. column < Draw!stride /\ a = (top + i) * Draw!stride + edge + j
    BY <1>1
  <1> HIDE DEF i, j
  <1>6. row \in Nat /\ column \in Nat /\ row < screen.height
    BY <1>2, <1>3, <1>4 DEF Within
  <1>7. a = Place(row, column, Draw!stride)
    BY <1>3, <1>4, <1>5 DEF Place
  <1> HIDE DEF row, column
  <1>8. Place(row, column, Draw!stride) \in Nat
    BY <1>3, <1>6, PlaceIsNat
  <1>9. Place(row, column, Draw!stride) < screen.height * Draw!stride
    BY <1>3, <1>5, <1>6, PlaceIsBelow
  <1>10. QED
    BY <1>3, <1>7, <1>8, <1>9

Letters(edge, top, string) ==
    UNION {Draw!Pixels(edge + (k - 1) * GlyphWidth, top, string[k]) :
              k \in {h \in DOMAIN string : string[h] # "\n"}}

LEMMA LettersBelow ==
    ASSUME Usable, NEW edge \in Nat, NEW top \in Nat, Within(top),
           NEW string \in Seq(DOMAIN Font \cup {"\n"}), NEW b \in Letters(edge, top, string)
    PROVE  b < Draw!Size
  <1>1. PICK k \in {h \in DOMAIN string : string[h] # "\n"} :
            b \in Draw!Pixels(edge + (k - 1) * GlyphWidth, top, string[k])
    BY DEF Letters
  <1> DEFINE z == edge + (k - 1) * GlyphWidth
             e == string[k]
  <1>2. z \in Nat /\ e \in DOMAIN Font
    <2>1. k - 1 \in Nat /\ GlyphWidth \in Nat /\ string[k] \in DOMAIN Font
      BY DEF Usable, Draw!GraphicsAssumption
    <2>2. (k - 1) * GlyphWidth \in Nat
      BY <2>1
    <2>3. QED
      BY <2>1, <2>2
  <1>3. b \in Draw!Pixels(z, top, e)
    BY <1>1
  <1> HIDE DEF z, e
  <1>4. QED
    BY <1>2, <1>3, PixelsBelow

Own(a) == \/ a < Draw!Size
          \/ /\ last'.op \in {"create", "draw"}
             /\ a - Draw!WindowAt \in 0 .. window'.width * window'.height - 1

LEMMA TextOwn ==
    ASSUME Usable, Drawable, Draw!PutString, Draw!Inside(last'), NEW a \in DOMAIN mem, mem'[a] # mem[a]
    PROVE  Own(a)
  <1>1. PICK l \in Places, t \in Strings :
            /\ Draw!Call([op |-> "text", x |-> l[1], y |-> l[2], s |-> t, color |-> Draw!White])
            /\ mem' = Draw!put_string(mem, l[1], l[2], t, Draw!White)
    BY DEF Draw!PutString
  <1>2. l[1] \in Nat /\ l[2] \in Nat /\ t \in Seq(DOMAIN Font \cup {"\n"})
    BY DEF Usable, Draw!GraphicsAssumption
  <1>3. Within(l[2])
    <2>1. last'.op = "text" /\ last'.y = l[2]
      BY <1>1 DEF Draw!Call
    <2>2. QED
      BY <2>1 DEF Draw!Inside, Within
  <1> DEFINE x == l[1]
             y == l[2]
  <1>4. /\ x \in Nat /\ y \in Nat /\ Within(y)
        /\ a \in Letters(x, y, t)
    BY <1>1, <1>2, <1>3 DEF Draw!put_string, Draw!Store, Letters
  <1> HIDE DEF x, y
  <1>5. a < Draw!Size
    BY <1>2, <1>4, LettersBelow
  <1>6. QED
    BY <1>5 DEF Own

LEMMA ImageOwn ==
    ASSUME Usable, Drawable, Draw!DrawImage, Draw!Exact', Draw!Inside(last'),
           NEW a \in DOMAIN mem, mem'[a] # mem[a]
    PROVE  Own(a)
  <1>1. PICK i \in Images :
            /\ Draw!Call([op |-> "image", image |-> i])
            /\ mem' = Draw!Store(mem, [b \in {d[1] * Draw!stride + d[2] : d \in DOMAIN i} |->
                          Draw!Swapped(i[<<b \div Draw!stride, b % Draw!stride>>])])
    BY DEF Draw!DrawImage
  <1>2. last'.op = "image" /\ last'.image = i /\ screen' = screen
    BY <1>1 DEF Draw!Call
  <1>3. PICK d \in DOMAIN i : a = d[1] * Draw!stride + d[2]
    BY <1>1 DEF Draw!Store
  <1>4. d[1] \in Nat /\ d[2] \in Nat
    BY DEF Usable, Draw!GraphicsAssumption
  <1>5. d[2] < Draw!stride /\ d[1] < screen.height
    BY <1>2 DEF Draw!Exact, Draw!stride, Draw!Inside
  <1>6. screen.height \in Nat /\ Draw!stride \in Nat /\ Draw!Size = screen.height * Draw!stride
    BY ScreenShape, Zenon
  <1>7. Place(d[1], d[2], Draw!stride) < screen.height * Draw!stride
    BY <1>4, <1>5, <1>6, PlaceIsBelow
  <1>8. a < Draw!Size
    BY <1>3, <1>6, <1>7 DEF Place
  <1>9. QED
    BY <1>8 DEF Own

LEMMA CreateOwn ==
    ASSUME Usable, Drawable, Draw!init_window, Draw!Exact', NEW a \in DOMAIN mem, mem'[a] # mem[a]
    PROVE  Own(a)
  <1>1. PICK w \in Windows :
            /\ window' = w /\ Draw!Call([op |-> "create"])
            /\ mem' = Draw!Store(mem,
                         [b \in Draw!WindowAt .. Draw!WindowAt + Draw!Pages(w.width * w.height) - 1 |->
                             Draw!Black])
    BY DEF Draw!init_window
  <1>2. last'.op = "create" /\ screen' = screen
    BY <1>1 DEF Draw!Call
  <1>3. w # <<>> /\ w.width \in Nat /\ w.height \in Nat
    BY DEF Usable, Draw!GraphicsAssumption
  <1>4. Draw!Pages(w.width * w.height) = w.width * w.height /\ Draw!WindowAt = Draw!Size
    BY <1>1, <1>2, <1>3 DEF Draw!Exact, Draw!Pages, Draw!WindowAt, Draw!Size, Draw!stride
  <1>5. a \in Draw!WindowAt .. Draw!WindowAt + w.width * w.height - 1
    BY <1>1, <1>4 DEF Draw!Store
  <1> DEFINE n == w.width * w.height
  <1>6. n \in Nat /\ Draw!Size \in Nat
    BY <1>3, ScreenShape
  <1>7. a \in Draw!WindowAt .. Draw!WindowAt + n - 1
    BY <1>5
  <1> HIDE DEF n
  <1>8. a - Draw!WindowAt \in 0 .. n - 1
    BY <1>4, <1>6, <1>7
  <1>9. QED
    BY <1>1, <1>2, <1>8 DEF Own, n

LEMMA DrawOwn ==
    ASSUME Usable, Drawable, Draw!draw_window, Draw!Exact', Draw!Inside(last'),
           NEW a \in DOMAIN mem, mem'[a] # mem[a]
    PROVE  Own(a)
  <1> DEFINE f == Draw!Filled(mem)
             m == Draw!blit(f, window.x, window.y, window.width, window.height, Draw!WindowAt)
  <1>1. /\ window # <<>> /\ UNCHANGED <<screen, window>>
        /\ mem' = Draw!put_string(m, window.x, window.y, window.title, Draw!Title)
    BY DEF Draw!draw_window, Draw!Call
  <1>2. /\ last'.op = "draw" /\ last'.y = window.y /\ last'.height = window.height
    BY DEF Draw!draw_window, Draw!Call
  <1>3. window \in Windows
    BY <1>1 DEF Drawable
  <1>4. /\ window.x \in Nat /\ window.y \in Nat /\ window.title \in Seq(DOMAIN Font \cup {"\n"})
        /\ window.width \in Nat /\ window.height \in Nat
    BY <1>3 DEF Usable, Draw!GraphicsAssumption
  <1>5. Within(window.y) /\ window.y + window.height <= screen.height
    BY <1>2 DEF Draw!Inside, Within
  <1>6. window.x + window.width <= Draw!stride /\ Draw!WindowAt = Draw!Size
    BY <1>1 DEF Draw!Exact, Draw!stride, Draw!WindowAt, Draw!Size, Draw!Pages
  <1>7. screen.height \in Nat /\ Draw!stride \in Nat /\ Draw!Size = screen.height * Draw!stride
        /\ Draw!Size \in Nat
    BY ScreenShape, Zenon
  <1>8. DOMAIN m = DOMAIN mem /\ DOMAIN f = DOMAIN mem
    BY DEF Draw!blit, Draw!Filled, Draw!Store
  <1> HIDE DEF m
  <1>9. CASE Draw!put_string(m, window.x, window.y, window.title, Draw!Title)[a] # m[a]
    <2> DEFINE x == window.x
               y == window.y
               t == window.title
    <2>1. /\ x \in Nat /\ y \in Nat /\ Within(y) /\ t \in Seq(DOMAIN Font \cup {"\n"})
          /\ a \in Letters(x, y, t)
      BY <1>4, <1>5, <1>8, <1>9 DEF Draw!put_string, Draw!Store, Letters
    <2> HIDE DEF x, y, t
    <2>2. a < Draw!Size
      BY <2>1, LettersBelow
    <2>3. QED
      BY <2>2 DEF Own
  <1>10. CASE m[a] # f[a]
    <2>1. a \in Draw!Target(window.x, window.y, window.width, window.height)
      BY <1>8, <1>10 DEF m, Draw!blit, Draw!Store
    <2>2. PICK i \in 0 .. window.height - 1, j \in 0 .. window.width - 1 :
              a = (window.y + i) * Draw!stride + window.x + j
      BY <2>1 DEF Draw!Target
    <2> DEFINE x == window.x
               y == window.y
               wide == window.width
               high == window.height
               tall == screen.height
               row == y + i
               column == x + j
    <2>a. /\ x \in Nat /\ y \in Nat /\ wide \in Nat /\ high \in Nat /\ tall \in Nat
          /\ y + high <= tall /\ x + wide <= Draw!stride /\ Draw!stride \in Nat
      BY <1>4, <1>5, <1>6, <1>7
    <2>b. i \in 0 .. high - 1 /\ j \in 0 .. wide - 1 /\ a = (y + i) * Draw!stride + x + j
      BY <2>2
    <2> HIDE DEF x, y, wide, high, tall
    <2>c. row \in Nat /\ column \in Nat /\ row < tall /\ column < Draw!stride
      BY <2>a, <2>b
    <2>3. row \in Nat /\ column \in Nat /\ row < screen.height /\ column < Draw!stride
      BY <2>c DEF tall
    <2>4. a = Place(row, column, Draw!stride)
      BY <2>a, <2>b DEF Place
    <2> HIDE DEF row, column
    <2>5. Place(row, column, Draw!stride) < screen.height * Draw!stride
      BY <1>7, <2>3, PlaceIsBelow
    <2>6. QED
      BY <1>7, <2>4, <2>5 DEF Own
  <1>11. CASE f[a] # mem[a]
    <2> DEFINE n == window.width * window.height
    <2>1. a \in Draw!WindowAt .. Draw!WindowAt + n - 1
      BY <1>11 DEF Draw!Filled, Draw!Store
    <2>2. n \in Nat
      BY <1>4
    <2> HIDE DEF n
    <2>3. a - Draw!WindowAt \in 0 .. n - 1
      BY <1>6, <1>7, <2>1, <2>2
    <2>4. QED
      BY <1>1, <1>2, <2>3 DEF Own, n
  <1>12. QED
    BY <1>1, <1>9, <1>10, <1>11

\* Every call draws on the picture what it says, and shows it when it says so,
\* for any screen, font, images and windows on which buffers are whole pages,
\* lines are long enough and the screen is no higher than wide (graphics.c:45).
THEOREM DrawingImplementsCanvas ==
    ASSUME Draw!GraphicsAssumption
    PROVE  Draw!Spec => Draw!ImplementsCanvas
  <1>1. Drawable /\ [Draw!Next]_(Draw!vars) =>
            [Draw!Exact' => Draw!Canvas!Step(last')]_(Draw!vars)
    <2> SUFFICES ASSUME Drawable, Draw!Next, Draw!Exact' PROVE Draw!Canvas!Step(last')
      BY DEF Draw!vars
    <2>1. Usable
      BY DEF Usable, Drawable
    <2>2. QED
      BY <2>1, InitStep, TextStep, ImageStep, SwapStep, CreateStep, DrawStep DEF Draw!Next
  <1>2. QED
    BY <1>1, DrawableFirst, DrawableStays, PTL DEF Draw!Spec, Draw!ImplementsCanvas

\* Nothing but the back buffer and, where it belongs to a window, the window's
\* is stored to, as long as all that is drawn is on the screen (graphics.c:56).
THEOREM DrawingStoresInside ==
    ASSUME Draw!GraphicsAssumption
    PROVE  Draw!Spec => Draw!OnlyOwnMemory
  <1> DEFINE A == Draw!Exact' /\ Draw!Inside(last') =>
                    \A a \in DOMAIN mem : mem'[a] # mem[a] =>
                        \/ a < Draw!Size
                        \/ /\ last'.op \in {"create", "draw"}
                           /\ a - Draw!WindowAt \in 0 .. window'.width * window'.height - 1
  <1>1. Drawable /\ [Draw!Next]_(Draw!vars) => [A]_(Draw!vars)
    <2> SUFFICES ASSUME Drawable, Draw!Next, Draw!Exact', Draw!Inside(last'),
                        NEW a \in DOMAIN mem, mem'[a] # mem[a]
                 PROVE  Own(a)
      BY DEF Draw!vars, Own
    <2>1. Usable
      BY DEF Usable, Drawable
    <2>2. ~Draw!graphics_init
      BY DEF Draw!Inside, Draw!graphics_init, Draw!Call
    <2>3. ~Draw!Swap
      BY DEF Draw!Swap
    <2>4. QED
      BY <2>1, <2>2, <2>3, TextOwn, ImageOwn, CreateOwn, DrawOwn DEF Draw!Next
  <1>2. QED
    BY <1>1, DrawableFirst, DrawableStays, PTL DEF Draw!Spec, Draw!OnlyOwnMemory
=============================================================================

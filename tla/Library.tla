------------------------------ MODULE Library -------------------------------
(***************************************************************************)
(* One caller of Klibc: any sequence of calls of the functions that write, *)
(* on one memory, with what those that read return in between.  The calls  *)
(* may overlap source and destination.  A call that leaves the memory      *)
(* writes over somebody else's, and nothing is said of what follows.       *)
(***************************************************************************)
EXTENDS Klibc, SequencesExt

CONSTANTS Size,        \* bytes of the memory
          Bytes,       \* the values they take; NUL is one
          MaxLength,   \* the largest n of a call (bound)
          Numbers,     \* what to_string and to_hstring are asked to print
          Garbage,     \* what the stack may hold where "size" lies
          W            \* words have values below W (bound), 2^64 in the code

ASSUME LibraryAssumption ==
    /\ Size \in Nat \ {0} /\ MaxLength \in Nat
    /\ Bytes \subseteq 0 .. 255 /\ NUL \in Bytes
ASSUME NumbersAssumption ==
    /\ Numbers \subseteq -9999 .. 65535 /\ Garbage \subseteq 0 .. 255 /\ 0 \in Garbage
    /\ W \in Nat \ {0}

VARIABLES memory, call, off

libVars == <<memory, call, off>>

Addr == 1 .. Size
Lengths == 0 .. MaxLength
Idle == [op |-> "none"]

LibInit == memory = [a \in Addr |-> NUL] /\ call = Idle /\ off = FALSE

\* A caller sets a byte of its own.
Poke(a, b) == call = Idle /\ ~off /\ memory' = [memory EXCEPT ![a] = b] /\ UNCHANGED <<call, off>>

Call(c) == call = Idle /\ ~off /\ call' = c /\ UNCHANGED <<memory, off>>

\* The callers of strcat and strncat pass a string to add to.
Calls ==
    \E d, s \in Addr, n \in Lengths :
        \/ \E op \in {"memcpy", "memmove", "strncpy"} : Call([op |-> op, d |-> d, s |-> s, n |-> n])
        \/ End(memory, d) # None /\ Call([op |-> "strncat", d |-> d, s |-> s, n |-> n])
        \/ n = 0 /\ Call([op |-> "strcpy", d |-> d, s |-> s])
        \/ n = 0 /\ End(memory, d) # None /\ Call([op |-> "strcat", d |-> d, s |-> s])
        \/ \E b \in Bytes : s = 1 /\ Call([op |-> "memset", d |-> d, value |-> b, n |-> n])

\* Numbers are printed into buffers of their own.
Prints ==
    \E value \in Numbers :
        \/ value >= 0 /\ Call([op |-> "to_hstring", value |-> value])
        \/ \E g \in Garbage : Call([op |-> "to_string", value |-> value, garbage |-> g])

Leaves(left) == memory' = left.mem /\ off' = left.off

Answer ==
    /\ call # Idle /\ call' = Idle
    /\ \/ call.op = "memcpy" /\ Leaves(memcpy(memory, call.d, call.s, call.n))
       \/ call.op = "memmove" /\ Leaves(memmove(memory, call.d, call.s, call.n))
       \/ call.op = "memset" /\ Leaves(memset(memory, call.d, call.value, call.n))
       \/ call.op = "strcpy" /\ Leaves(strcpy(memory, call.d, call.s))
       \/ call.op = "strncpy" /\ Leaves(strncpy(memory, call.d, call.s, call.n))
       \/ call.op = "strcat" /\ Leaves(strcat(memory, call.d, call.s))
       \/ call.op = "strncat" /\ Leaves(strncat(memory, call.d, call.s, call.n))
       \/ call.op \in {"to_string", "to_hstring"} /\ Leaves(Whole(memory))

LibNext == Answer \/ Calls \/ Prints \/ \E a \in Addr, b \in Bytes : Poke(a, b)

LibSpec == LibInit /\ [][LibNext]_libVars

-----------------------------------------------------------------------------
LibTypeOK == memory \in [Addr -> Bytes] /\ off \in BOOLEAN

Chars(m, a) == SubSeq(m, a, End(m, a) - 1)
IsString(a) == End(memory, a) # None
Apart(a, b, c, d) == b < c \/ d < a

\* What the memory functions leave, and when: memcpy may run into its own
\* source, memmove may overlap it in any way.
Moved(c) == [k \in 1 .. c.n |-> IF c.op = "memset" THEN c.value ELSE memory[c.s + k - 1]]
MoveDefined(c) ==
    c.op \in {"memset", "memmove"} \/ (c.op = "memcpy" /\ ~(c.s < c.d /\ c.d < c.s + c.n))

\* What a call was to leave at its destination, as bytes, of a string that the
\* writes do not run into.
Wanted(c) ==
    CASE c.op = "strcpy" -> Append(Chars(memory, c.s), NUL)
      [] c.op = "strcat" -> Chars(memory, c.d) \o Append(Chars(memory, c.s), NUL)
      [] c.op = "strncat" ->
            Chars(memory, c.d) \o SubSeq(Append(Chars(memory, c.s), NUL), 1,
                                      IF c.n <= strlen(memory, c.s) THEN c.n ELSE strlen(memory, c.s) + 1)
      [] c.op = "strncpy" -> [k \in 1 .. c.n |->
            IF k <= strlen(memory, c.s) THEN memory[c.s + k - 1] ELSE NUL]
Strings == {"strcpy", "strcat", "strncat", "strncpy"}

StringDefined(c) ==
    /\ c.op \in Strings /\ IsString(c.s)
    /\ Apart(c.d, c.d + Len(Wanted(c)) - 1, c.s, End(memory, c.s))

Holding(d, bytes) ==
    [a \in Addr |-> IF a \in d .. d + Len(bytes) - 1 THEN bytes[a - d + 1] ELSE memory[a]]

\* A call leaves at its destination what it should and changes nothing else,
\* however source and destination of a memmove overlap; the old tail of the
\* destination stays behind a strncat that ran out of bytes.  A string
\* function stays inside the memory that its arguments name, but for strncpy of
\* a string that is not shorter than n (string.c:43-79, utils.c:30-45, 122-125).
CallsExact ==
    [][ call # Idle /\ call' = Idle =>
        /\ MoveDefined(call) /\ ~off' => memory' = Holding(call.d, Moved(call))
        /\ StringDefined(call) /\ ~off' => memory' = Holding(call.d, Wanted(call))
        /\ StringDefined(call) /\ call.d + Len(Wanted(call)) - 1 \in 0 .. Size =>
              (off' <=> call.op = "strncpy" /\ strlen(memory, call.s) >= call.n) ]_libVars

LeastOf(S) == CHOOSE x \in S : \A y \in S : x <= y
Sign(x) == IF x > 0 THEN 1 ELSE IF x < 0 THEN -1 ELSE 0

\* The order of two sequences of bytes: a proper prefix comes first.
Order(s, t, Key(_)) ==
    IF s = t THEN 0
    ELSE IF IsPrefix(s, t) THEN Sign(0 - Key(t[Len(s) + 1]))
    ELSE IF IsPrefix(t, s) THEN Sign(Key(s[Len(t) + 1]))
    ELSE LET k == LeastOf({j \in DOMAIN s \cap DOMAIN t : s[j] # t[j]})
         IN Sign(Key(s[k]) - Key(t[k]))
FirstOf(s, n) == SubSeq(s, 1, IF n < Len(s) THEN n ELSE Len(s))
Plain(b) == b

\* The comparisons return the order of the strings, strcmp that of signed and
\* strncmp that of unsigned characters, and strstr the first place where t
\* stands in s (string.c:3-40).
ComparisonsRight ==
    /\ call = Idle => \A n \in Lengths : \A s, t \in 1 .. Size + 1 - n :
        Sign(memcmp(memory, s, t, n)) = Order(SubSeq(memory, s, s + n - 1), SubSeq(memory, t, t + n - 1), Plain)
    /\ call = Idle => \A s, t \in {a \in Addr : IsString(a)} :
        /\ Sign(strcmp(memory, s, t)) = Order(Chars(memory, s), Chars(memory, t), Signed)
        /\ \A n \in Lengths :
            Sign(strncmp(memory, s, t, n)) = Order(FirstOf(Chars(memory, s), n), FirstOf(Chars(memory, t), n), Plain)
        /\ LET places == {a \in s .. End(memory, s) - 1 : IsPrefix(Chars(memory, t), SubSeq(memory, a, End(memory, s)))}
           IN strstr(memory, s, t) = IF places = {} THEN NULL ELSE LeastOf(places)

Number(digits, base) == FoldLeft(LAMBDA sum, digit : sum * base + digit, 0, digits)

Buffer == [x \in 0 .. 9 |-> NUL]

\* The digits of to_hstring read back as the number, and so do those of
\* to_string where "size" happened to start at 0.  align_up and align_down
\* return the nearest multiples, align_up as long as value + alignment - 1 does
\* not wrap (utils.c:58-104, 145-148).
NumbersRight ==
    /\ call.op = "to_hstring" =>
        Number([k \in 1 .. 4 |-> to_hstring(call.value, 2)[k - 1]], 16) = call.value
    /\ call.op = "to_string" /\ call.garbage = 0 =>
        LET out == to_string(Buffer, call.value, 0)
            neg == IF call.value < 0 THEN 1 ELSE 0
            end == LeastOf({x \in DOMAIN out : out[x] = NUL})
            read == Number([k \in 1 .. end - neg |-> out[neg + k - 1] - Zero], 10)
        IN (neg = 1 => out[0] = Minus) /\ (IF neg = 1 THEN -read ELSE read) = call.value
    /\ call = Idle /\ memory = [a \in Addr |-> NUL] =>
        \A v \in 0 .. W - 1, a \in 1 .. W - 1 :
            LET multiples == {x \in 0 .. 2 * W : x % a = 0}
            IN /\ align_down(v, a) \in multiples /\ v - align_down(v, a) \in 0 .. a - 1
               /\ v + a - 1 < W => /\ align_up(v, a, W) \in multiples
                                   /\ align_up(v, a, W) - v \in 0 .. a - 1
=============================================================================

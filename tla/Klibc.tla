------------------------------- MODULE Klibc --------------------------------
(***************************************************************************)
(* The string and memory functions of src/klibc/string.c and src/utils.c.  *)
(* A memory m is a function from addresses to bytes; a pointer is an       *)
(* address, a string runs from one to the next NUL.  What a function that  *)
(* writes leaves is [mem, off], where off says that it left the memory; so *)
(* does the value None of one that only reads.                             *)
(***************************************************************************)
EXTENDS Integers, Sequences

NUL == 0
NULL == 0
None == -1000

Signed(b) == IF b >= 128 THEN b - 256 ELSE b

At(m, a) == IF a \in DOMAIN m THEN m[a] ELSE None

\* The first of lo .. hi that satisfies the test, None if there is none.
FirstIn(lo, hi, Test(_)) ==
    IF \E k \in lo .. hi : Test(k)
      THEN CHOOSE k \in lo .. hi : Test(k) /\ \A h \in lo .. k - 1 : ~Test(h)
      ELSE None

\* The first k <= n at which a loop over two memories in step stops: where the
\* test says so, or where it leaves the memory.
InStep(m, s, t, n, Stops(_)) ==
    LET k == FirstIn(0, n, LAMBDA j : (s + j \in DOMAIN m /\ t + j \in DOMAIN m) => Stops(j))
    IN IF k = None THEN n ELSE k

-----------------------------------------------------------------------------
End(m, s) == FirstIn(s, Len(m), LAMBDA a : m[a] = NUL)

strlen(m, s) == IF End(m, s) = None THEN None ELSE End(m, s) - s

\* Mutant: the loop looks at the characters only.
strcmpPrefix(m, s, t) ==
    LET k == InStep(m, s, t, Len(m), LAMBDA j : m[s + j] = NUL \/ m[s + j] # m[t + j])
    IN IF m[s + k] = NUL THEN 0 ELSE Signed(m[s + k]) - Signed(m[t + k])

\* The first place at which two strings differ or end together; chars have a
\* sign here, not in strncmp and memcmp.
strcmp(m, s, t) ==
    LET k == InStep(m, s, t, Len(m), LAMBDA j : \/ m[s + j] # m[t + j]
                                                  \/ m[s + j] = NUL)
    IN IF At(m, s + k) = None \/ At(m, t + k) = None THEN None
       ELSE Signed(m[s + k]) - Signed(m[t + k])

strncmp(m, s, t, n) ==
    LET k == InStep(m, s, t, n, LAMBDA j : \/ m[s + j] # m[t + j]
                                             \/ m[s + j] = NUL)
    IN IF k = n THEN 0
       ELSE IF At(m, s + k) = None \/ At(m, t + k) = None THEN None
       ELSE m[s + k] - m[t + k]

memcmp(m, s, t, n) ==
    LET k == InStep(m, s, t, n, LAMBDA j : m[s + j] # m[t + j])
    IN IF k = n THEN 0
       ELSE IF At(m, s + k) = None \/ At(m, t + k) = None THEN None
       ELSE m[s + k] - m[t + k]

\* The first occurrence of t that starts before the NUL of s.
strstr(m, s, t) ==
    LET hit == FirstIn(s, End(m, s) - 1, LAMBDA a : strncmp(m, a, t, strlen(m, t)) = 0)
    IN IF hit = None THEN NULL ELSE hit

\* Mutant: the position is set past the end of the string.
strtokPast(m, p, s, delims) ==
    LET from == IF s = NULL THEN p ELSE s
        ret == IF from = NULL THEN NULL ELSE FirstIn(from, Len(m), LAMBDA x : m[x] \notin delims)
        stop == FirstIn(ret, Len(m), LAMBDA x : m[x] \in delims \cup {NUL})
    IN IF ret = NULL \/ m[ret] = NUL THEN [ret |-> NULL, p |-> p, mem |-> m]
       ELSE [ret |-> ret, p |-> stop + 1, mem |-> [m EXCEPT ![stop] = NUL]]

\* One call of strtok on the string at s, or where the static p is if s is
\* NULL: what it returns, and p and the memory it leaves.  At the end of the
\* string p stays as it was.
strtok(m, p, s, delims) ==
    LET from == IF s = NULL THEN p ELSE s
        ret == IF from = NULL THEN NULL ELSE FirstIn(from, Len(m), LAMBDA x : m[x] \notin delims)
        stop == FirstIn(ret, Len(m), LAMBDA x : m[x] \in delims \cup {NUL})
    IN IF ret = NULL \/ m[ret] = NUL THEN [ret |-> NULL, p |-> p, mem |-> m]
       ELSE IF m[stop] = NUL THEN [ret |-> ret, p |-> stop, mem |-> m]
       ELSE [ret |-> ret, p |-> stop + 1, mem |-> [m EXCEPT ![stop] = NUL]]

-----------------------------------------------------------------------------
\* *d = *s, of a memory that may have been left already.
Move(w, d, s) ==
    IF w.off \/ d \notin DOMAIN w.mem \/ s \notin DOMAIN w.mem
      THEN [w EXCEPT !.off = TRUE]
      ELSE [w EXCEPT !.mem[d] = w.mem[s]]

Whole(m) == [mem |-> m, off |-> FALSE]

\* After k bytes of a loop upwards, and of one downwards from the n-th.
Upwards(m, d, s, n) ==
    LET w[k \in 0 .. n] == IF k = 0 THEN Whole(m) ELSE Move(w[k - 1], d + k - 1, s + k - 1)
    IN w
Downwards(m, d, s, n) ==
    LET w[k \in 0 .. n] == IF k = 0 THEN Whole(m) ELSE Move(w[k - 1], d + n - k, s + n - k)
    IN w

memcpy(m, d, s, n) == Upwards(m, d, s, n)[n]

\* Mutant: always upwards.
memmoveUp(m, d, s, n) == Upwards(m, d, s, n)[n]

memmove(m, d, s, n) == IF d <= s THEN Upwards(m, d, s, n)[n] ELSE Downwards(m, d, s, n)[n]

\* Mutant: a digit 0 for a zero.
memsetDigit(m, d, value, n) ==
    [mem |-> [a \in DOMAIN m |-> IF a \in d .. d + n - 1 THEN 48 ELSE m[a]],
     off |-> ~(d .. d + n - 1 \subseteq DOMAIN m)]

memset(m, d, value, n) ==
    [mem |-> [a \in DOMAIN m |-> IF a \in d .. d + n - 1 THEN value ELSE m[a]],
     off |-> ~(d .. d + n - 1 \subseteq DOMAIN m)]

\* The copy loop of the string functions: up to the NUL it has just copied, or
\* n bytes.  Its source may change under it.
StringCopy(m, d, s, n) ==
    LET w == Upwards(m, d, s, n)
        done == FirstIn(1, n, LAMBDA k : ~w[k].off /\ w[k].mem[d + k - 1] = NUL)
    IN IF done = None THEN [k |-> n, nul |-> FALSE, left |-> w[n]]
                      ELSE [k |-> done, nul |-> TRUE, left |-> w[done]]

strcpy(m, d, s) == StringCopy(m, d, s, Len(m) + 1).left

\* Mutant: behind the NUL instead of over it.
strcatPast(m, d, s) == strcpy(m, End(m, d) + 1, s)

strcat(m, d, s) == strcpy(m, End(m, d), s)

\* The n bytes may run out before the NUL, and then none is written.
strncat(m, d, s, n) == StringCopy(m, End(m, d), s, n).left

\* Mutant: no fill if the n bytes have run out.
strncpyBounded(m, d, s, n) ==
    LET c == StringCopy(m, d, s, n)
    IN IF c.left.off \/ ~c.nul THEN c.left ELSE memset(c.left.mem, d + c.k, NUL, n - c.k)

\* The rest is filled with NULs; if the n bytes have run out, n has wrapped and
\* the fill runs over all of memory.
strncpy(m, d, s, n) ==
    LET c == StringCopy(m, d, s, n)
    IN IF c.left.off \/ ~c.nul THEN [mem |-> c.left.mem, off |-> TRUE]
       ELSE memset(c.left.mem, d + c.k, NUL, n - c.k)

-----------------------------------------------------------------------------
\* Of words of W values: the sum, and b - 1 of b = 0, wrap.
div_roundup(a, b, W) == ((a + (b - 1)) % W) \div b

\* Mutant: a multiple is rounded up too.
align_upNext(value, alignment, W) == ((1 + value \div alignment) * alignment) % W

align_up(value, alignment, W) == (div_roundup(value, alignment, W) * alignment) % W

align_down(value, alignment) == (value \div alignment) * alignment

\* Mutant: the low digit first.
to_hstringSwapped(value, bytes) ==
    LET byte(n) == (value \div 256^n) % 256
    IN [x \in 0 .. 2 * bytes - 1 |->
            IF x % 2 = 1 THEN byte((2 * bytes - 1 - x) \div 2) \div 16
                         ELSE byte((2 * bytes - 1 - x) \div 2) % 16]

\* What to_hstring leaves in hexTo_StringOutput from index 0 on, of a value of
\* "bytes" bytes: a high and a low digit per byte, the last byte first.  It
\* goes on to other bytes of the stack, whose digits land in front of the array.
to_hstring(value, bytes) ==
    LET byte(n) == (value \div 256^n) % 256
    IN [x \in 0 .. 2 * bytes - 1 |->
            IF x % 2 = 0 THEN byte((2 * bytes - 1 - x) \div 2) \div 16
                         ELSE byte((2 * bytes - 1 - x) \div 2) % 16]

\* The divisions by 10 until less than 10 is left, of values below 10^9 (bound).
Shifts(value) == FirstIn(0, 8, LAMBDA n : value \div 10^(n + 1) = 0)

\* What to_string leaves in intstringoutput, of the old contents: "size" counts
\* from what the stack holds and wraps at 256, so the digits may come later than
\* the sign.  Left out: the value without a positive counterpart.
Minus == 45
Zero == 48
to_string(old, value, garbage) ==
    LET neg == IF value < 0 THEN 1 ELSE 0
        abs == IF value < 0 THEN -value ELSE value
        last == neg + ((garbage + Shifts(abs)) % 256)
    IN [x \in DOMAIN old |->
            IF x = last + 1 THEN NUL
            ELSE IF x \in last - Shifts(abs) .. last
              THEN Zero + ((abs \div 10^(last - x)) % 10)
            ELSE IF x = 0 /\ neg = 1 THEN Minus
            ELSE old[x]]
=============================================================================

-------------------------------- MODULE Args --------------------------------
(***************************************************************************)
(* The kernel's arguments, src/KS/ARGS/args.c: parse cuts the command line *)
(* at its spaces into a table of tokens, init cuts every token at its      *)
(* equals signs, both with Klibc's strtok and its one static position.     *)
(*                                                                         *)
(* The words "devbuild" and "yes" are characters here, and so is any other *)
(* word that a line is made of.  Memory holds the two string constants and *)
(* then the line.  Each action is one call of strtok and what is done with *)
(* its result.                                                             *)
(***************************************************************************)
EXTENDS Klibc, FiniteSets

CONSTANTS Lines,       \* command lines, as sequences of characters
          MaxTokens    \* the size of the table, 100 in the code

Space == 32
Equals == 61
Devbuild == 100
Yes == 121

ASSUME ArgsAssumption ==
    /\ MaxTokens \in Nat \ {0}
    /\ Lines \subseteq Seq(1 .. 255)

VARIABLES mem, line,    \* the memory, and what it was at the call
          p,            \* strtok's static position
          tokens, count, devbuild,
          pc, i,
          a             \* init's first piece of a token, between two calls

vars == <<mem, line, p, tokens, count, devbuild, pc, i, a>>

\* The memory of a line, the constants first.
DevbuildAt == 1
YesAt == 3
LineAt == 5
Memory(l) == <<Devbuild, NUL, Yes, NUL>> \o l \o <<NUL>>

Init ==
    /\ \E l \in Lines : line = Memory(l) /\ mem = line
    /\ p = NULL
    /\ tokens = [k \in 0 .. MaxTokens - 1 |-> NULL] /\ count = 1
    /\ devbuild = FALSE
    /\ pc = "call" /\ i = 0 /\ a = NULL

\* parse() up to its loop.
FirstToken ==
    /\ pc = "call"
    /\ LET token == strtok(mem, p, LineAt, {Space})
       IN /\ mem' = token.mem /\ p' = token.p
          /\ tokens' = [tokens EXCEPT ![0] = token.ret]
          /\ IF token.ret # NULL THEN pc' = "parse" /\ UNCHANGED count
                                 ELSE pc' = "init" /\ count' = count - 1
    /\ UNCHANGED <<line, devbuild, i, a>>

\* Mutant: the NULL that ends the line is not stored, and so not counted.
NextTokenUncounted ==
    /\ pc = "parse" /\ count < MaxTokens
    /\ LET token == strtok(mem, p, NULL, {Space})
       IN /\ mem' = token.mem /\ p' = token.p
          /\ tokens' = [tokens EXCEPT ![count] = token.ret]
          /\ IF token.ret # NULL THEN count' = count + 1 /\ UNCHANGED pc
                                 ELSE count' = count - 1 /\ pc' = "init"
    /\ UNCHANGED <<line, devbuild, i, a>>
\* One round of the loop, and count-- after it.  The NULL that ends the line is
\* stored too; a store past the table hits other variables, and nothing is said
\* of what follows.
NextToken ==
    /\ pc = "parse"
    /\ LET token == strtok(mem, p, NULL, {Space})
       IN /\ mem' = token.mem /\ p' = token.p
          /\ tokens' = [tokens EXCEPT ![count] = token.ret]
          /\ \/ count = MaxTokens /\ pc' = "overrun" /\ UNCHANGED count
             \/ count < MaxTokens /\ token.ret # NULL /\ count' = count + 1 /\ UNCHANGED pc
             \/ count < MaxTokens /\ token.ret = NULL /\ pc' = "init" /\ UNCHANGED count
    /\ UNCHANGED <<line, devbuild, i, a>>

\* a = strtok(tokens[i], "=")
Name ==
    /\ pc = "init" /\ i # count
    /\ LET token == strtok(mem, p, tokens[i], {Equals})
       IN mem' = token.mem /\ p' = token.p /\ a' = token.ret
    /\ pc' = "value"
    /\ UNCHANGED <<line, tokens, count, devbuild, i>>

\* Mutant: the value is looked for from the start of the token.
ValueAgain == strtok(mem, p, tokens[i], {Equals})

\* b = strtok(NULL, "=")
Value == strtok(mem, p, NULL, {Equals})

\* strcmp of NULL reads address 0, which is not mapped: the page fault handler
\* never returns.
Option ==
    /\ pc = "value"
    /\ mem' = Value.mem /\ p' = Value.p /\ a' = NULL
    /\ \/ /\ a = NULL \/ (strcmp(mem', a, DevbuildAt) = 0 /\ Value.ret = NULL)
          /\ pc' = "fault" /\ UNCHANGED <<devbuild, i>>
       \/ /\ a # NULL /\ strcmp(mem', a, DevbuildAt) # 0
          /\ pc' = "init" /\ i' = i + 1 /\ UNCHANGED devbuild
       \/ /\ a # NULL /\ strcmp(mem', a, DevbuildAt) = 0 /\ Value.ret # NULL
          /\ pc' = "init" /\ i' = i + 1
          /\ devbuild' = (strcmp(mem', Value.ret, YesAt) = 0)
    /\ UNCHANGED <<line, tokens, count>>

Return ==
    /\ pc = "init" /\ i = count
    /\ pc' = "done"
    /\ UNCHANGED <<mem, line, p, tokens, count, devbuild, i, a>>

Next == FirstToken \/ NextToken \/ Name \/ Option \/ Return

Spec == Init /\ [][Next]_vars

-----------------------------------------------------------------------------
TypeOK ==
    /\ mem \in Seq(0 .. 255) /\ Len(mem) = Len(line)
    /\ tokens \in [0 .. MaxTokens - 1 -> 0 .. Len(mem)] /\ count \in 0 .. MaxTokens
    /\ devbuild \in BOOLEAN /\ i \in 0 .. count /\ a \in 0 .. Len(mem)
    /\ pc \in {"call", "parse", "overrun", "init", "value", "fault", "done"}

\* The fields of a range of the line: its maximal runs without a delimiter.
Fields(from, to, delim) ==
    {f \in (from .. to) \X (from .. to) :
        /\ f[1] <= f[2] /\ \A k \in f[1] .. f[2] : line[k] # delim
        /\ f[1] = from \/ line[f[1] - 1] = delim
        /\ f[2] = to \/ line[f[2] + 1] = delim}
Before(f, fs) == Cardinality({g \in fs : g[1] < f[1]})
Words == Fields(LineAt, Len(line) - 1, Space)
Parts(w) == Fields(w[1], w[2], Equals)
Part(w, n) == CHOOSE f \in Parts(w) : Before(f, Parts(w)) = n
Text(f) == SubSeq(line, f[1], f[2])

\* When parse is done the table holds the words of the line in order, each
\* ended by a NUL, and no more than fit; it leaves the table only if they do not
\* fit with the NULL that ends them (args.c:19-27).
TokensAreWords ==
    /\ pc = "init" /\ i = 0 =>
        /\ count = Cardinality(Words) /\ count < MaxTokens
        /\ \A w \in Words : /\ tokens[Before(w, Words)] = w[1]
                            /\ End(mem, w[1]) = w[2] + 1 /\ SubSeq(mem, w[1], w[2]) = Text(w)
    /\ pc = "overrun" => Cardinality(Words) >= MaxTokens

\* A word that init cannot read: no name, or devbuild without a value.
Unreadable(w) ==
    Parts(w) = {} \/ (Text(Part(w, 0)) = <<Devbuild>> /\ Cardinality(Parts(w)) = 1)
Settings == {w \in Words : Parts(w) # {} /\ Text(Part(w, 0)) = <<Devbuild>>}

\* init comes through exactly if it can read every word, and then the last
\* setting of devbuild counts, whatever the position strtok kept from parse and
\* from words before (args.c:34-49, string.c:92-96).
DevbuildAsSet ==
    /\ pc = "done" =>
        /\ \A w \in Words : ~Unreadable(w)
        /\ devbuild <=> \E w \in Settings : /\ \A v \in Settings : v[1] <= w[1]
                                            /\ Text(Part(w, 1)) = <<Yes>>
    /\ pc = "fault" => \E w \in Words : Unreadable(w)

\* Only delimiters of the line are overwritten, with NULs, and strtok's position
\* stays inside the line: the strings behind it are not touched (string.c:127).
OnlyDelimitersCleared ==
    /\ \A k \in DOMAIN mem :
        mem[k] # line[k] => k >= LineAt /\ mem[k] = NUL /\ line[k] \in {Space, Equals}
    /\ p = NULL \/ p \in LineAt .. Len(line)
=============================================================================

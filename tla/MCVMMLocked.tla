---------------------------- MODULE MCVMMLocked -----------------------------
\* TLC instance of VMMLocked: tables of two entries, the upper one the higher
\* half.
EXTENDS VMMLocked, TLC
CONSTANTS c1, c2
TwoCPUs == {c1, c2}

\* Two addresses of the higher half with a last table in common, one of them
\* through both maps, and one below it.
Text == <<1, 0, 1, 0>>
Data == <<1, 0, 1, 1>>
User == <<0, 1, 0, 1>>
SomeTargets == {<<1, Text>>, <<2, Text>>, <<1, Data>>, <<2, User>>}
OnePage == {90}
SomeFlags == {{"P", "W"}, {"U"}}
\* The CPUs are alike.
Symmetry == Permutations(CPUs)
=============================================================================

------------------------------- MODULE MCVMM --------------------------------
\* TLC instance of VMM: tables of two entries, the upper one the higher half.
EXTENDS VMM

CONSTANTS kernel, other
TwoMaps == {kernel, other}

\* One user address and two of the higher half, which share a last table.
User == <<0, 1, 0, 1>>
Text == <<1, 0, 1, 0>>
Data == <<1, 0, 1, 1>>
ThreeVirts == {User, Text, Data}
OneVirt == {Text}

Page == 90
OnePage == {Page}
SomeFlags == {{"P", "W"}, {"U"}}

\* The kernel's text.
KernelOnly == << [virt |-> Text, phys |-> Page] >>
=============================================================================

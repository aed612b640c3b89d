------------------------------- MODULE MCArgs -------------------------------
\* TLC instance of Args: every line of up to MaxLine characters.
EXTENDS Args
CONSTANT MaxLine
Characters == {Space, Equals, Devbuild, Yes}
ShortLines == UNION {[1 .. n -> Characters] : n \in 0 .. MaxLine}
=============================================================================

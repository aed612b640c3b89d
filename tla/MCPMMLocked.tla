----------------------------- MODULE MCPMMLocked ----------------------------
\* TLC instance of PMMLocked: the CPUs are model values.
EXTENDS PMMLocked
CONSTANTS c1, c2
TwoCPUs == {c1, c2}
=============================================================================

------------------------- MODULE MCFiberScheduling -------------------------
EXTENDS FiberScheduling
CONSTANTS p1, b1
=============================================================================

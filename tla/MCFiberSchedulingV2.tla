------------------------ MODULE MCFiberSchedulingV2 ------------------------
EXTENDS FiberSchedulingV2
CONSTANT p1
=============================================================================

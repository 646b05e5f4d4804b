---------------------------- MODULE MCFiberEvent ----------------------------
EXTENDS FiberEvent
CONSTANTS f1, f2, p1, s1, s2, s3
=============================================================================

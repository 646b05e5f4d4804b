------------------------- MODULE MCStreamScheduler -------------------------
EXTENDS StreamScheduler, TLC
CONSTANTS s1, s2
MCLengthy == (s1 :> 2 @@ s2 :> 1)
=============================================================================

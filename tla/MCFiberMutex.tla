---------------------------- MODULE MCFiberMutex ----------------------------
(* Two fibers of one scheduling group, one of another, and a pthread.      *)
EXTENDS FiberMutex, TLC
CONSTANTS f1, f2, f3, p1, p2
MCGroup == (f1 :> "g" @@ f2 :> "g" @@ f3 :> "h")
=============================================================================

--------------------------- MODULE MCFiberCondVar ---------------------------
EXTENDS FiberCondVar
CONSTANTS f1, f3, p1
MCGroup == (f1 :> "g" @@ f3 :> "g")
MCMaxWaits == (f1 :> 2 @@ p1 :> 1)
MCTimed == {<<f1, 1>>}
=============================================================================

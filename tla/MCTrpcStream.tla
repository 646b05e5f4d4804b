---------------------------- MODULE MCTrpcStream ----------------------------
EXTENDS TrpcStream

(* What the client and the server write, when they owe a FEEDBACK, faults. *)
Plan(c, s, feedC, feedS, n) ==
    [writes |-> [e \in End |-> IF e = "c" THEN c ELSE s],
     feeds |-> [e \in End |-> IF e = "c" THEN feedC ELSE feedS], faults |-> n]
MCPlans == {Plan(<<"a">>, <<"a", "b">>, {1}, {}, 0),
            Plan(<<>>, <<"a">>, {1}, {}, 2),
            Plan(<<"a">>, <<>>, {}, {1}, 1)}
=============================================================================

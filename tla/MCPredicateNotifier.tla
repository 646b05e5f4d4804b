------------------------ MODULE MCPredicateNotifier ------------------------
EXTENDS PredicateNotifier
CONSTANTS w1, w2, n1, n2
=============================================================================

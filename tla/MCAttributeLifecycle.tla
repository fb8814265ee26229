------------------------ MODULE MCAttributeLifecycle ------------------------
(* An instance of AttributeLifecycle for TLC.                              *)
EXTENDS AttributeLifecycle, TLC

CONSTANTS t1, t2, t3, n1, i1

TwoThreads   == {t1, t2}
ThreeThreads == {t1, t2, t3}
OneName      == {n1}
OneId        == {i1}

Symmetry == Permutations(Threads)
=============================================================================

---------------------------- MODULE MCTrisMatch ----------------------------
(* An instance of TrisMatch for TLC.                                       *)
EXTENDS TrisMatch, TLC

CONSTANTS t1, t2, t3, c1, c2

ThreeThreads == {t1, t2, t3}
TwoClients   == {c1, c2}

Symmetry == Permutations(Threads) \cup Permutations(Clients)
=============================================================================

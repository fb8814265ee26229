------------------------ MODULE MCProductLifecycle ------------------------
(***************************************************************************)
(* Instances of ProductLifecycle for TLC.                                  *)
(***************************************************************************)
EXTENDS ProductLifecycle, TLC

\* Threads and codes are only compared; uuids are in the order of drawing.
Symmetry == Permutations(Threads) \cup Permutations(Codes)
===========================================================================

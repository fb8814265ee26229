------------------------ MODULE MCBusinessLifecycle ------------------------
(* Instances of BusinessLifecycle for TLC.                                 *)
EXTENDS BusinessLife, TLC

CONSTANTS t1, t2, t3, u1, u2, i1, i2, v1, v2

TwoThreads   == {t1, t2}
ThreeThreads == {t1, t2, t3}
TwoUuids     == {u1, u2}
TwoIds       == {i1, i2}
OneValue     == {v1}
TwoValues    == {v1, v2}
NameOnly     == {"name"}
NameAndPIva  == {"name", "pIva"}

AllOps       == {"create", "update", "delete", "deleteById"}
CreateUpdate == {"create", "update"}

\* Threads, uuids, _ids and values are interchangeable.
Symmetry == Permutations(Threads) \cup Permutations(Uuids)
                \cup Permutations(Ids) \cup Permutations(Values)
=============================================================================

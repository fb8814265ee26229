------------------------- MODULE MCCategoryImport -------------------------
(***************************************************************************)
(* Instances of CategoryImport for TLC.                                    *)
(***************************************************************************)
EXTENDS CategoryImport, TLC

Segment(c) == [kind |-> "segment", code |-> c]
Family(c)  == [kind |-> "family", code |-> c]
Class(c)   == [kind |-> "class", code |-> c]

\* Documents that repeat each other's codes: a class with the code of a family,
\* a segment in common.
Catalogues == {<<Segment("A"), Family("B")>>,
               <<Segment("A"), Family("H"), Class("B")>>}

\* Sessions are only compared.
Symmetry == Permutations(Threads)
=============================================================================

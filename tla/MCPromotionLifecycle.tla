----------------------- MODULE MCPromotionLifecycle -----------------------
(***************************************************************************)
(* Instances of PromotionLifecycle for TLC.                                *)
(***************************************************************************)
EXTENDS PromotionLifecycle, TLC

\* Midnight, which reading back turns into noon, and an afternoon, which it
\* turns into a morning.
TwoDates == {[day |-> 1, hour |-> 0], [day |-> 2, hour |-> 15]}

Nothing == [active |-> None, type |-> None, from |-> None, to |-> None,
            business |-> None, nation |-> None]

\* Nothing but the uuid, each attribute alone, and all of them.
Posted ==
    {Nothing}
    \cup {[Nothing EXCEPT !.active = a] : a \in BOOLEAN}
    \cup {[Nothing EXCEPT !.type = x] : x \in Types}
    \cup {[Nothing EXCEPT !.from = d] : d \in InputDates}
    \cup {[Nothing EXCEPT !.to = d] : d \in InputDates}
    \cup {[Nothing EXCEPT !.business = b] : b \in Businesses}
    \cup {[Nothing EXCEPT !.nation = n] : n \in Nations}
    \cup {[active |-> FALSE, type |-> "SPO", from |-> d, to |-> d, business |-> b, nation |-> n] :
              d \in InputDates, b \in Businesses, n \in Nations}

\* Threads are only compared, uuids and businesses too.
Symmetry == Permutations(Threads) \cup Permutations(Uuids) \cup Permutations(Businesses)
=============================================================================

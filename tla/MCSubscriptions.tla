-------------------------- MODULE MCSubscriptions --------------------------
(* An instance of Subscriptions for TLC.                                   *)
EXTENDS Subscriptions, TLC

CONSTANTS b1, b2, u1, u2

TwoBusinesses == {b1, b2}
OneBusiness   == {b1}
TwoUsers      == {u1, u2}
ActiveAndMail == {"active", "mail"}

Symmetry == Permutations(Businesses) \cup Permutations(Users)
=============================================================================

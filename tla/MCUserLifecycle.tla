-------------------------- MODULE MCUserLifecycle --------------------------
(* An instance of UserLifecycle for TLC. *)
EXTENDS UserLifecycle, TLC

\* Everything but the uuids is only compared.
Symmetry == Permutations(Threads) \cup Permutations(Usernames) \cup Permutations(Passwords)
=============================================================================

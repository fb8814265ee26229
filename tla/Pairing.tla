------------------------------ MODULE Pairing ------------------------------
(***************************************************************************)
(* What a matchmaker of two-player games promises: at most one client      *)
(* waits, and the next one to subscribe plays with it.  After the first    *)
(* overlap of two requests it promises nothing.                            *)
(***************************************************************************)
CONSTANTS Clients, None

VARIABLES
    waiting,   \* the client that waits, or None
    pairs,     \* the pairs made: <<who waited, who came>>
    void       \* TRUE: the promise is over

Init == waiting = None /\ pairs = {} /\ void = FALSE

Wait(c) ==
    /\ ~void /\ waiting = None
    /\ waiting' = c
    /\ UNCHANGED <<pairs, void>>

Pair(c) ==
    /\ ~void /\ waiting # None
    /\ pairs' = pairs \cup {<<waiting, c>>}
    /\ waiting' = None
    /\ UNCHANGED void

GiveUp == void' = TRUE

Next == (\E c \in Clients : Wait(c) \/ Pair(c)) \/ GiveUp

Spec == Init /\ [][Next]_<<waiting, pairs, void>>
=============================================================================

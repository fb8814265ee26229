---------------------------- MODULE EntityLife ----------------------------
(***************************************************************************)
(* What the UUID registry and an entity store promise together, as a       *)
(* client sees it: an identity is reserved for one creation, becomes the   *)
(* identity of one stored entity or is spent, and once its entity is gone  *)
(* no entity ever has it again.  Crashes and refusals spend identities.    *)
(***************************************************************************)
CONSTANT Uuids

VARIABLE status

Init == status = [u \in Uuids |-> "free"]

Move(S, from, to) ==
    /\ \A u \in S : status[u] = from
    /\ status' = [u \in Uuids |-> IF u \in S THEN to ELSE status[u]]

Reserve(u) == Move({u}, "free", "reserved")
Publish(u) == Move({u}, "reserved", "live")
Retire(u)  == Move({u}, "live", "dead")
Abandon(S) == Move(S, "reserved", "spent")

Next ==
    \/ \E u \in Uuids : Reserve(u) \/ Publish(u) \/ Retire(u)
    \/ \E S \in SUBSET Uuids : Abandon(S)

Spec == Init /\ [][Next]_status
=============================================================================

--------------------------- MODULE BusinessLife ---------------------------
(***************************************************************************)
(* BusinessLifecycle implements EntityLife: the detailed interleaving of   *)
(* createUUID, matching, saving, re-reading, rolling back, removeUUID and  *)
(* deleting, crashes included, is to a client one life per uuid.           *)
(***************************************************************************)
EXTENDS BusinessLifecycle

Stored(u)   == \E d \in docs : d["uuid"] = u
Creating(u) == \E t \in Threads : op[t] = "create" /\ pat[t]["uuid"] = u

\* What the state of the service means for one identity.
Status(u) ==
    CASE u \notin drawn                       -> "free"
      [] u \in drawn /\ Stored(u)             -> "live"
      [] u \in ever /\ ~Stored(u)             -> "dead"
      [] u \in drawn \ ever /\ Creating(u)    -> "reserved"
      [] OTHER                                -> "spent"

LifeStatus == [u \in Uuids |-> Status(u)]

Life == INSTANCE EntityLife WITH status <- LifeStatus

\* Every step of the service is a step in the life of an identity, or
\* invisible: no uuid is published twice, stored again after its business was
\* removed, or published after its creation was given up.
OneLifePerUuid == Life!Spec
=============================================================================

------------------------- MODULE AttributeLifecycle -------------------------
(***************************************************************************)
(* The attributes users can have: AttributeServiceImpl, its persistence on *)
(* Mongo and the registry of uuids.  A creation draws a uuid, looks for    *)
(* the attribute by _id and name, saves it, reads it back by all of its    *)
(* fields and gives the uuid back if it is not there; an update writes     *)
(* whatever its body has, a uuid included.  No method takes a lock.  A     *)
(* step is one call of the database or the registry.                       *)
(***************************************************************************)
EXTENDS Naturals

CONSTANTS
    Threads,        \* requests and shell sessions
    Names,          \* names of attributes
    ClientIds,      \* the _ids clients send along
    MaxCreations,   \* bound on the creations
    None            \* null

ASSUME CreationsAssumption == MaxCreations \in Nat

\* The nth creation draws uuid n and is saved as _id n if the client sends none.
Uuids == 1 .. MaxCreations
Ids   == Uuids \cup ClientIds

ASSUME IdsAssumption == ClientIds \cap Nat = {}

\* The fields that are looked for; the others only go along, see touched.
Attributes == [uuid : Uuids, name : Names \cup {None}]

ASSUME NoneAssumption == None \notin Names \cup ClientIds \cup Nat \cup Attributes

VARIABLES
    creations,  \* how many creations there were
    registry,   \* the uuids registered
    stored,     \* the collection: per _id, the attribute or None
    pc,         \* per thread: where it stands
    job,        \* per thread: what it is about, see NoJob
    touched,    \* threads whose attribute somebody wrote after they had saved it:
                \* its other fields may be the ones they saved or not
    \* history
    ever,       \* uuids that were stored at some time: those a client can know
    fresh,      \* per thread: _ids written since its creation drew its uuid
    rewritten,  \* uuids that the body of an update put in or out of use
    removed,    \* uuids deleted, overwritten or lost with a crash
    disowned    \* uuids given back although another thread had written their attribute

data    == <<creations, registry, stored>>
history == <<ever, fresh, rewritten, removed, disowned>>
vars    == <<data, pc, job, touched, history>>

NoJob == [uuid |-> None,   \* the uuid drawn, or asked for
          id   |-> None,   \* a creation: the _id and the name to save
          name |-> None]

Init ==
    /\ creations = 0 /\ registry = {} /\ stored = [i \in Ids |-> None]
    /\ pc = [t \in Threads |-> "idle"] /\ job = [t \in Threads |-> NoJob] /\ touched = {}
    /\ ever = {} /\ fresh = [t \in Threads |-> {}]
    /\ rewritten = {} /\ removed = {} /\ disowned = {}

Goto(t, label) == pc' = [pc EXCEPT ![t] = label]

\* The answer, or the exception that ends the request.
End(t) == Goto(t, "idle") /\ job' = [job EXCEPT ![t] = NoJob]

Creating(t) == pc[t] \in {"look", "name", "save", "reread", "undo"}

\* t writes the attributes that have these _ids: it gets to the other creations
\* after they had drawn their uuid, perhaps after they had saved.
Wrote(t, S) ==
    /\ touched' = (touched \ {t}) \cup
                  {s \in Threads \ {t} : pc[s] = "reread" /\ job[s].id \in S}
    /\ fresh' =
        [s \in Threads |-> IF s # t /\ Creating(s) THEN fresh[s] \cup S ELSE fresh[s]]

Having(u) == {i \in Ids : stored[i] # None /\ stored[i].uuid = u}

-----------------------------------------------------------------------------
(***************************************************************************)
(* createAttribute.                                                        *)
(***************************************************************************)
\* createUUID, and the query for that uuid, which finds nothing.
CreateUUID(t, id, name) ==
    /\ pc[t] = "idle" /\ creations < MaxCreations
    /\ creations' = creations + 1
    /\ registry' = registry \cup {creations'}
    /\ job' = [job EXCEPT ![t] = [NoJob EXCEPT !.uuid = creations',
                  !.id = IF id = None THEN creations' ELSE id, !.name = name]]
    /\ Goto(t, IF id # None THEN "look" ELSE IF name # None THEN "name" ELSE "save")
    /\ fresh' = [fresh EXCEPT ![t] = {}]
    /\ UNCHANGED <<stored, touched, ever, rewritten, removed, disowned>>

\* Mutant: an attribute whose _id was looked for is not looked for by name.
LookIdOnly(t) ==
    /\ pc[t] = "look"
    /\ Goto(t, IF stored[job[t].id] # None THEN "undo" ELSE "save")
    /\ UNCHANGED <<data, job, touched, history>>

\* The findOne by _id ...
LookId(t) ==
    /\ pc[t] = "look"
    /\ Goto(t, IF stored[job[t].id] # None THEN "undo"
               ELSE IF job[t].name # None THEN "name" ELSE "save")
    /\ UNCHANGED <<data, job, touched, history>>

\* ... and by name: whatever is found refuses the creation.
LookName(t) ==
    /\ pc[t] = "name"
    /\ Goto(t, IF \E i \in Ids : stored[i] # None /\ stored[i].name = job[t].name
               THEN "undo" ELSE "save")
    /\ UNCHANGED <<data, job, touched, history>>

\* save: an attribute that has the _id by now is replaced.
Save(t) ==
    /\ pc[t] = "save"
    /\ LET i == job[t].id IN
        /\ stored' = [stored EXCEPT ![i] = [uuid |-> job[t].uuid, name |-> job[t].name]]
        /\ removed' = IF stored[i] # None THEN removed \cup {stored[i].uuid} ELSE removed
        /\ Wrote(t, {i})
    /\ ever' = ever \cup {job[t].uuid}
    /\ Goto(t, "reread")
    /\ UNCHANGED <<creations, registry, job, rewritten, disowned>>

\* The attribute has what the creation has saved: its _id if the client sent it,
\* the uuid, the name if there is one.
SavedAs(t, i) ==
    /\ stored[i] # None /\ stored[i].uuid = job[t].uuid
    /\ job[t].id \in ClientIds => i = job[t].id
    /\ job[t].name # None => stored[i].name = job[t].name

\* Mutant: the answer of the read-back is taken the wrong way round.
RereadReversed(t) ==
    /\ pc[t] = "reread"
    /\ IF \E i \in Ids : SavedAs(t, i) THEN Goto(t, "undo") /\ UNCHANGED job ELSE End(t)
    /\ touched' = touched \ {t}
    /\ UNCHANGED <<data, history>>

\* The attribute is read back by all of its fields.
Reread(t) ==
    /\ pc[t] = "reread"
    /\ \/ (\E i \in Ids : SavedAs(t, i)) /\ End(t)
       \/ /\ t \in touched \/ ~\E i \in Ids : SavedAs(t, i)
          /\ Goto(t, "undo") /\ UNCHANGED job
    /\ touched' = touched \ {t}
    /\ UNCHANGED <<data, history>>

\* Mutant: a creation that fails keeps its uuid, as those of users do.
UndoSilent(t) ==
    /\ pc[t] = "undo" /\ End(t)
    /\ UNCHANGED <<data, touched, history>>

\* Not created: removeUUID.
Undo(t) ==
    /\ pc[t] = "undo"
    /\ registry' = registry \ {job[t].uuid}
    /\ disowned' = IF job[t].id \in fresh[t] THEN disowned \cup {job[t].uuid} ELSE disowned
    /\ End(t)
    /\ UNCHANGED <<creations, stored, touched, ever, fresh, rewritten, removed>>

-----------------------------------------------------------------------------
(***************************************************************************)
(* updateAttribute: $set with the non-null fields of the body on the first *)
(* attribute that has the uuid of the path (if there is none, nothing      *)
(* happens); that is then read for the answer, without a check that it is  *)
(* still there.                                                            *)
(***************************************************************************)
\* Mutant: the null fields are written as well.
OverlayWhole(a, body) == body

Overlay(a, body) == [k \in DOMAIN a |-> IF body[k] # None THEN body[k] ELSE a[k]]

Set(t, u, body) ==
    /\ pc[t] = "idle"
    /\ \E i \in Having(u) :
          /\ stored' = [stored EXCEPT ![i] = Overlay(@, body)]
          /\ Wrote(t, {i})
    /\ rewritten' = IF body.uuid \in {None, u} THEN rewritten ELSE rewritten \cup {u, body.uuid}
    /\ Goto(t, "answer") /\ job' = [job EXCEPT ![t] = [NoJob EXCEPT !.uuid = u]]
    /\ UNCHANGED <<creations, registry, ever, removed, disowned>>

\* An attribute that is not there any more throws.
Answer(t) ==
    /\ pc[t] = "answer" /\ End(t)
    /\ UNCHANGED <<data, touched, history>>

-----------------------------------------------------------------------------
(***************************************************************************)
(* deleteAttribute: looked for, then removed; the registry is not told.    *)
(***************************************************************************)
Find(t, u) ==
    /\ pc[t] = "idle" /\ Having(u) # {}
    /\ Goto(t, "remove")
    /\ job' = [job EXCEPT ![t] = [NoJob EXCEPT !.uuid = u]]
    /\ UNCHANGED <<data, touched, history>>

Remove(t) ==
    /\ pc[t] = "remove"
    /\ LET S == Having(job[t].uuid) IN
        /\ stored' = [i \in Ids |-> IF i \in S THEN None ELSE stored[i]]
        /\ removed' = IF S = {} THEN removed ELSE removed \cup {job[t].uuid}
        /\ Wrote(t, S)
    /\ End(t)
    /\ UNCHANGED <<creations, registry, ever, rewritten, disowned>>

-----------------------------------------------------------------------------
\* The server restarts: the collections stay.
Crash ==
    /\ \E t \in Threads : pc[t] # "idle"
    /\ pc' = [t \in Threads |-> "idle"] /\ job' = [t \in Threads |-> NoJob]
    /\ fresh' = [t \in Threads |-> {}] /\ touched' = {}
    /\ removed' = removed \cup {job[t].uuid : t \in {s \in Threads : Creating(s)}}
    /\ UNCHANGED <<data, ever, rewritten, disowned>>

\* No request is in progress and no more come: a deadlock is a stuck request.
Quiet == (\A t \in Threads : pc[t] = "idle") /\ UNCHANGED vars

Bodies == [uuid : ever \cup {None}, name : Names \cup {None}]

Next ==
    \/ \E t \in Threads :
          \/ \E id \in ClientIds \cup {None}, name \in Names \cup {None} : CreateUUID(t, id, name)
          \/ LookId(t) \/ LookName(t) \/ Save(t) \/ Reread(t) \/ Undo(t)
          \/ \E u \in ever, body \in Bodies : Set(t, u, body)
          \/ Answer(t)
          \/ \E u \in ever : Find(t, u)
          \/ Remove(t)
    \/ Crash
    \/ Quiet

Spec == Init /\ [][Next]_vars

-----------------------------------------------------------------------------
(***************************************************************************)
(* Properties                                                              *)
(***************************************************************************)

\* The value of every variable has its type.
TypeOK ==
    /\ creations \in 0 .. MaxCreations /\ registry \subseteq Uuids
    /\ stored \in [Ids -> Attributes \cup {None}]
    /\ pc \in [Threads -> {"idle", "look", "name", "save", "reread", "undo", "answer", "remove"}]
    /\ job \in [Threads -> [uuid : Uuids \cup {None}, id : Ids \cup {None},
                            name : Names \cup {None}]]
    /\ touched \subseteq Threads /\ ever \subseteq Uuids /\ fresh \in [Threads -> SUBSET Ids]
    /\ rewritten \subseteq Uuids /\ removed \subseteq Uuids /\ disowned \subseteq Uuids

\* What a client finds stored is registered, unless a body brought the uuid, or
\* the creation failed to find again what another request had written over.
StoredRegistered ==
    \A i \in Ids : stored[i] # None =>
        stored[i].uuid \in registry \cup rewritten \cup disowned

\* A registered uuid is in use or about to be, unless its attribute was removed,
\* replaced by one with the same _id, or given another uuid, or the server crashed.
NoUuidLost ==
    \A u \in registry \ (removed \cup rewritten) :
        Having(u) # {} \/ \E t \in Threads : Creating(t) /\ job[t].uuid = u

\* A creation checks, then saves.  An attribute it replaces, or whose name it
\* repeats, has been written while it was checking.
NothingSavedUnseen ==
    [][\A t \in Threads : Save(t) =>
          \A i \in Ids \ fresh[t] : stored[i] # None =>
              i # job[t].id /\ (stored[i].name = job[t].name => stored[i].name = None)]_vars

\* An update that has written, and throws, has given the attribute another uuid
\* itself; or somebody else has, or has removed it.
AnsweredAsWritten ==
    \A t \in Threads : pc[t] = "answer" /\ Having(job[t].uuid) = {} =>
        job[t].uuid \in rewritten \cup removed
=============================================================================

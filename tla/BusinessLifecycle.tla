------------------------- MODULE BusinessLifecycle -------------------------
(***************************************************************************)
(* The life of a business entity: the service BusinessServiceImpl, its     *)
(* Mongo persistence BusinessPersistenceServiceImpl and the UUID registry  *)
(* UuidServiceImpl they share.                                             *)
(*                                                                         *)
(* Every REST request and shell command runs in a thread of its own inside *)
(* the one singleton of each service.  A step of this module is one        *)
(* database call, together with the local computation around it, so        *)
(* threads interleave exactly where the code lets them: createUUID and     *)
(* removeUUID are synchronized on the registry and are one step each;      *)
(* updateBusiness and deleteBusiness hold the monitor of the persistence   *)
(* object across several database calls; addBusiness holds nothing.        *)
(***************************************************************************)
EXTENDS FiniteSets, Naturals

CONSTANTS
    Threads,    \* request threads of the server
    Uuids,      \* what UUID.randomUUID() can draw
    Ids,        \* ObjectIds the driver can generate: bounds the documents saved
    Keys,       \* the unique attributes in use, a subset of the three below
    Values,     \* values of the unique attributes
    Ops,        \* the operations clients use in this instance
    MayCrash,   \* TRUE if the server may crash and restart
    Redraw,     \* TRUE if a uuid no longer registered may be drawn again
    None        \* null: an absent attribute, nobody holding the monitor

ASSUME KeysAssumption == Keys \subseteq {"fiscalCode", "name", "pIva"}
ASSUME OpsAssumption == Ops \subseteq {"create", "update", "delete", "deleteById"}
ASSUME FlagsAssumption == MayCrash \in BOOLEAN /\ Redraw \in BOOLEAN
ASSUME NoneAssumption == None \notin Threads \cup Uuids \cup Ids \cup Values

(***************************************************************************)
(* A draw can only hit a value drawn before with probability 2^-122.  The  *)
(* instances that allow it (to exercise the registry's own check) do not   *)
(* delete: a delete frees a uuid whose document is still stored.           *)
(***************************************************************************)
ASSUME RedrawAssumption == Redraw => Ops \cap {"delete", "deleteById"} = {}

VARIABLES
    registry,   \* uuids in the registry's collection
    docs,       \* the businesses collection, a set of documents
    monitor,    \* the thread inside a synchronized method of the persistence
    pc, op,     \* per thread: where it stands, in which operation
    pat,        \* per thread: the Business object it matches by
    new,        \* per thread: the attributes an update writes
    todo, hit,  \* per thread: fields getBusiness has still to query, _ids found
    \* history
    drawn,      \* uuids ever drawn
    spent,      \* ObjectIds ever generated
    ever,       \* uuids that were stored at some time: those a client can name
    gone,       \* uuids of which a deleteBusiness has been answered
    moved       \* per thread: _ids written by others since its create began

service == <<registry, docs, monitor>>
locals  == <<pc, op, pat, new, todo, hit>>
history == <<drawn, spent, ever, gone, moved>>
vars    == <<service, locals, history>>

(***************************************************************************)
(* Data.  A Business object and a stored document are both functions from  *)
(* the attributes getBusiness looks at to a value or None.                 *)
(***************************************************************************)
Fields  == {"uuid", "_id"} \cup Keys
Domain  == Uuids \cup Ids \cup Values \cup {None}
KeyVals == [Keys -> Values \cup {None}]

Blank == [f \in Fields |-> None]

\* The Business object with this uuid and these unique attributes.
Business(u, kv) == [f \in Fields |-> IF f = "uuid" THEN u
                                     ELSE IF f = "_id" THEN None ELSE kv[f]]

\* Mutant: the name is forgotten in the map getBusiness matches by.
PresentButName(b) == {f \in Fields \ {"name"} : b[f] # None}

\* Mutant: uuid and _id are forgotten.
PresentKeys(b) == {f \in Keys : b[f] # None}

Present(b) == {f \in Fields : b[f] # None}

\* Documents a findOne on one field, or on every field of b, can return.
Matches(f, v) == {d \in docs : d[f] = v}
MatchesAll(b) == {d \in docs : \A f \in Present(b) : d[f] = b[f]}

\* $set with the non-null attributes of b
Overlay(d, b) == [f \in Fields |-> IF f # "_id" /\ b[f] # None THEN b[f] ELSE d[f]]

\* getBusiness asks by uuid, _id, fiscalCode, name, pIva, in this order.
Rank == [uuid |-> 1, _id |-> 2, fiscalCode |-> 3, name |-> 4, pIva |-> 5]
NextField(S) == CHOOSE f \in S : \A g \in S : Rank[f] <= Rank[g]

\* The uuids createUUID cannot return now.
Taken == IF Redraw THEN registry ELSE drawn

Idle(t) == pc[t] = "idle"

\* The answer to the client: the thread forgets its request.
Answer(t) ==
    /\ pc' = [pc EXCEPT ![t] = "idle"]
    /\ op' = [op EXCEPT ![t] = "none"]
    /\ pat' = [pat EXCEPT ![t] = Blank]
    /\ new' = [new EXCEPT ![t] = Blank]
    /\ todo' = [todo EXCEPT ![t] = {}]
    /\ hit' = [hit EXCEPT ![t] = {}]
    /\ moved' = [moved EXCEPT ![t] = {}]

Goto(t, label) == pc' = [pc EXCEPT ![t] = label]

\* Documents in S were written: every create in progress but t's has missed it.
Written(t, S) ==
    moved' = [s \in Threads |-> IF op[s] = "create" /\ s # t
                                THEN moved[s] \cup S ELSE moved[s]]

Init ==
    /\ registry = {} /\ docs = {} /\ monitor = None
    /\ pc = [t \in Threads |-> "idle"]
    /\ op = [t \in Threads |-> "none"]
    /\ pat = [t \in Threads |-> Blank]
    /\ new = [t \in Threads |-> Blank]
    /\ todo = [t \in Threads |-> {}]
    /\ hit = [t \in Threads |-> {}]
    /\ drawn = {} /\ spent = {} /\ ever = {} /\ gone = {}
    /\ moved = [t \in Threads |-> {}]

-----------------------------------------------------------------------------
(***************************************************************************)
(* createBusiness: createUUID, then addBusiness, then, if that refuses,    *)
(* removeUUID.                                                             *)
(***************************************************************************)

\* createUUID: a value not registered is drawn and saved in the collection.
\* (Eleven collisions in a row answer null, then 630: nothing changes.)
CreateUUID(t, u, kv) ==
    /\ "create" \in Ops /\ Idle(t)
    /\ u \in Uuids \ Taken
    /\ registry' = registry \cup {u}
    /\ drawn' = drawn \cup {u}
    /\ op' = [op EXCEPT ![t] = "create"]
    /\ pat' = [pat EXCEPT ![t] = Business(u, kv)]
    /\ todo' = [todo EXCEPT ![t] = Present(Business(u, kv))]
    /\ Goto(t, "query")
    /\ UNCHANGED <<docs, monitor, new, hit, spent, ever, gone, moved>>

\* One findOne of getBusiness: any document that matches may be returned.
Query(t) ==
    /\ pc[t] = "query" /\ todo[t] # {}
    /\ LET f == NextField(todo[t]) IN
        /\ todo' = [todo EXCEPT ![t] = @ \ {f}]
        /\ IF Matches(f, pat[t][f]) = {}
           THEN hit' = hit
           ELSE \E d \in Matches(f, pat[t][f]) :
                    hit' = [hit EXCEPT ![t] = @ \cup {d["_id"]}]
    /\ UNCHANGED <<service, pc, op, pat, new, history>>

\* addBusiness: nothing matched, the document is saved.
Save(t, i) ==
    /\ pc[t] = "query" /\ op[t] = "create" /\ todo[t] = {} /\ hit[t] = {}
    /\ i \in Ids \ spent
    /\ docs' = docs \cup {[pat[t] EXCEPT !["_id"] = i]}
    /\ spent' = spent \cup {i}
    /\ ever' = ever \cup {pat[t]["uuid"]}
    /\ Written(t, {i})
    /\ Goto(t, "reread")
    /\ UNCHANGED <<registry, monitor, op, pat, new, todo, hit, drawn, gone>>

\* addBusiness: something matched, the create is refused.
Refuse(t) ==
    /\ pc[t] = "query" /\ op[t] = "create" /\ todo[t] = {} /\ hit[t] # {}
    /\ Goto(t, "rollback")
    /\ UNCHANGED <<service, op, pat, new, todo, hit, history>>

\* Mutant: the test on "created" is inverted.
RereadInverted(t) ==
    /\ pc[t] = "reread"
    /\ IF MatchesAll(pat[t]) = {}
       THEN Answer(t)
       ELSE Goto(t, "rollback") /\ UNCHANGED <<op, pat, new, todo, hit, moved>>
    /\ UNCHANGED <<service, drawn, spent, ever, gone>>

\* Mutant: a business not found again is saved again.
RereadRetries(t) ==
    /\ pc[t] = "reread"
    /\ IF MatchesAll(pat[t]) # {}
       THEN Answer(t)
       ELSE Goto(t, "query") /\ UNCHANGED <<op, pat, new, todo, hit, moved>>
    /\ UNCHANGED <<service, drawn, spent, ever, gone>>

\* addBusiness: the saved document is read back by all of its fields.
Reread(t) ==
    /\ pc[t] = "reread"
    /\ IF MatchesAll(pat[t]) # {}
       THEN Answer(t)
       ELSE Goto(t, "rollback") /\ UNCHANGED <<op, pat, new, todo, hit, moved>>
    /\ UNCHANGED <<service, drawn, spent, ever, gone>>

\* Mutant: the uuid of a refused business stays registered.
RollbackForgotten(t) ==
    /\ pc[t] = "rollback"
    /\ Answer(t)
    /\ UNCHANGED <<service, drawn, spent, ever, gone>>

\* createBusiness: created is false, removeUUID(u).
Rollback(t) ==
    /\ pc[t] = "rollback"
    /\ registry' = registry \ {pat[t]["uuid"]}
    /\ Answer(t)
    /\ UNCHANGED <<docs, monitor, drawn, spent, ever, gone>>

-----------------------------------------------------------------------------
(***************************************************************************)
(* deleteBusiness: removeUUID, its answer ignored, then the synchronized   *)
(* delete by uuid; deleteBusinessById: the synchronized delete alone.      *)
(***************************************************************************)
\* Mutant: a uuid the registry does not know is answered at once.
RemoveUUIDStrict(t, u) ==
    /\ "delete" \in Ops /\ Idle(t)
    /\ registry' = registry \ {u}
    /\ IF u \in registry
       THEN /\ op' = [op EXCEPT ![t] = "delete"]
            /\ pat' = [pat EXCEPT ![t] = [Blank EXCEPT !["uuid"] = u]]
            /\ Goto(t, "enter")
            /\ gone' = gone
       ELSE gone' = gone \cup {u} /\ UNCHANGED <<pc, op, pat>>
    /\ UNCHANGED <<docs, monitor, new, todo, hit, drawn, spent, ever, moved>>

RemoveUUID(t, u) ==
    /\ "delete" \in Ops /\ Idle(t)
    /\ registry' = registry \ {u}
    /\ op' = [op EXCEPT ![t] = "delete"]
    /\ pat' = [pat EXCEPT ![t] = [Blank EXCEPT !["uuid"] = u]]
    /\ Goto(t, "enter")
    /\ UNCHANGED <<docs, monitor, new, todo, hit, history>>

DeleteBusinessById(t, i) ==
    /\ "deleteById" \in Ops /\ Idle(t)
    /\ op' = [op EXCEPT ![t] = "deleteById"]
    /\ pat' = [pat EXCEPT ![t] = [Blank EXCEPT !["_id"] = i]]
    /\ Goto(t, "enter")
    /\ UNCHANGED <<service, new, todo, hit, history>>

\* Mutant: the synchronized keyword is lost.
EnterUnsynchronized(t) ==
    /\ pc[t] = "enter"
    /\ monitor' = t
    /\ IF op[t] = "update"
       THEN Goto(t, "load") /\ todo' = todo
       ELSE Goto(t, "query") /\ todo' = [todo EXCEPT ![t] = Present(pat[t])]
    /\ UNCHANGED <<registry, docs, op, pat, new, hit, history>>

\* A thread enters the monitor; a delete goes on to match, an update to load.
Enter(t) ==
    /\ pc[t] = "enter" /\ monitor = None
    /\ monitor' = t
    /\ IF op[t] = "update"
       THEN Goto(t, "load") /\ todo' = todo
       ELSE Goto(t, "query") /\ todo' = [todo EXCEPT ![t] = Present(pat[t])]
    /\ UNCHANGED <<registry, docs, op, pat, new, hit, history>>

\* deleteBusiness(Business): exactly one match, removed by its _id.
Remove(t) ==
    /\ pc[t] = "query" /\ op[t] \in {"delete", "deleteById"} /\ todo[t] = {}
    /\ docs' = IF Cardinality(hit[t]) = 1
               THEN {d \in docs : d["_id"] \notin hit[t]} ELSE docs
    /\ gone' = IF op[t] = "delete" THEN gone \cup {pat[t]["uuid"]} ELSE gone
    /\ monitor' = None
    /\ Answer(t)
    /\ UNCHANGED <<registry, drawn, spent, ever>>

-----------------------------------------------------------------------------
(***************************************************************************)
(* updateBusiness(uuid, business): inside the monitor the document is      *)
(* loaded by uuid, getBusiness is asked with the LOADED attributes, and    *)
(* only when it answers one document is the new data $set.                 *)
(***************************************************************************)
UpdateBusiness(t, u, kv) ==
    /\ "update" \in Ops /\ Idle(t)
    /\ op' = [op EXCEPT ![t] = "update"]
    /\ pat' = [pat EXCEPT ![t] = [Blank EXCEPT !["uuid"] = u]]
    /\ new' = [new EXCEPT ![t] = Business(u, kv)]
    /\ Goto(t, "enter")
    /\ UNCHANGED <<service, todo, hit, history>>

\* getBusinessByUuid; unknown: answer 610
Load(t) ==
    /\ pc[t] = "load"
    /\ IF Matches("uuid", pat[t]["uuid"]) = {}
       THEN monitor' = None /\ Answer(t)
       ELSE /\ \E d \in Matches("uuid", pat[t]["uuid"]) :
                /\ pat' = [pat EXCEPT ![t] = d]
                /\ todo' = [todo EXCEPT ![t] = Present(d)]
            /\ Goto(t, "query")
            /\ UNCHANGED <<monitor, op, new, hit, moved>>
    /\ UNCHANGED <<registry, docs, drawn, spent, ever, gone>>

\* One business matched: $set on the first document with the uuid.
Set(t) ==
    /\ pc[t] = "query" /\ op[t] = "update" /\ todo[t] = {}
    /\ Cardinality(hit[t]) = 1
    /\ IF Matches("uuid", pat[t]["uuid"]) = {}
       THEN UNCHANGED <<docs, moved>>
       ELSE \E d \in Matches("uuid", pat[t]["uuid"]) :
                /\ docs' = (docs \ {d}) \cup {Overlay(d, new[t])}
                /\ Written(t, {d["_id"]})
    /\ Goto(t, "confirm")
    /\ UNCHANGED <<registry, monitor, op, pat, new, todo, hit, drawn, spent, ever, gone>>

\* Mutant: the update is tried again instead of refused.
RefuseUpdateRetries(t) ==
    /\ pc[t] = "query" /\ op[t] = "update" /\ todo[t] = {}
    /\ Cardinality(hit[t]) # 1
    /\ todo' = [todo EXCEPT ![t] = Present(pat[t])]
    /\ hit' = [hit EXCEPT ![t] = {}]
    /\ UNCHANGED <<service, pc, op, pat, new, history>>

\* Several businesses matched, or none: answer 610
RefuseUpdate(t) ==
    /\ pc[t] = "query" /\ op[t] = "update" /\ todo[t] = {}
    /\ Cardinality(hit[t]) # 1
    /\ monitor' = None
    /\ Answer(t)
    /\ UNCHANGED <<registry, docs, drawn, spent, ever, gone>>

\* The updated document is read back by uuid for the answer.
Confirm(t) ==
    /\ pc[t] = "confirm"
    /\ monitor' = None
    /\ Answer(t)
    /\ UNCHANGED <<registry, docs, drawn, spent, ever, gone>>

-----------------------------------------------------------------------------
\* The server crashes and restarts: threads and monitor are lost, Mongo is not.
Crash ==
    /\ MayCrash /\ \E t \in Threads : ~Idle(t)
    /\ monitor' = None
    /\ pc' = [t \in Threads |-> "idle"]
    /\ op' = [t \in Threads |-> "none"]
    /\ pat' = [t \in Threads |-> Blank]
    /\ new' = [t \in Threads |-> Blank]
    /\ todo' = [t \in Threads |-> {}]
    /\ hit' = [t \in Threads |-> {}]
    /\ moved' = [t \in Threads |-> {}]
    /\ UNCHANGED <<registry, docs, drawn, spent, ever, gone>>

\* What a client asks for.  It can only name uuids and _ids it has been shown.
Request(t) ==
    \/ \E u \in Uuids, kv \in KeyVals : CreateUUID(t, u, kv)
    \/ \E u \in ever : RemoveUUID(t, u)
    \/ \E i \in spent : DeleteBusinessById(t, i)
    \/ \E u \in ever, kv \in KeyVals : UpdateBusiness(t, u, kv)

\* What the code does next for a request in progress.
Work(t) ==
    \/ Query(t)
    \/ \E i \in Ids : Save(t, i)
    \/ Refuse(t)
    \/ Reread(t)
    \/ Rollback(t)
    \/ Enter(t)
    \/ Remove(t)
    \/ Load(t)
    \/ Set(t)
    \/ RefuseUpdate(t)
    \/ Confirm(t)

\* No request is in progress and none comes: a deadlock is a request stuck.
Quiet == (\A t \in Threads : Idle(t)) /\ UNCHANGED vars

Next == (\E t \in Threads : Request(t) \/ Work(t)) \/ Crash \/ Quiet

Spec == Init /\ [][Next]_vars

\* The JVM runs every runnable thread.
FairSpec == Spec /\ \A t \in Threads : WF_vars(Work(t))

-----------------------------------------------------------------------------
(***************************************************************************)
(* Properties                                                              *)
(***************************************************************************)

\* The value of every variable has its type.
TypeOK ==
    /\ registry \subseteq Uuids
    /\ docs \subseteq [Fields -> Domain]
    /\ monitor \in Threads \cup {None}
    /\ pc \in [Threads -> {"idle", "query", "reread", "rollback", "enter", "load", "confirm"}]
    /\ op \in [Threads -> {"none"} \cup Ops]
    /\ pat \in [Threads -> [Fields -> Domain]]
    /\ new \in [Threads -> [Fields -> Domain]]
    /\ todo \in [Threads -> SUBSET Fields]
    /\ hit \in [Threads -> SUBSET Ids]
    /\ drawn \subseteq Uuids /\ ever \subseteq Uuids /\ gone \subseteq Uuids
    /\ spent \subseteq Ids
    /\ moved \in [Threads -> SUBSET Ids]

\* No two businesses share a uuid.  An update between save and read-back makes
\* the read miss, and the rollback frees the uuid of a document that stays: when
\* it is drawn again only the uuid query of getBusiness keeps it from a second one.
UuidsDistinct == \A d, e \in docs : d["uuid"] = e["uuid"] => d = e

\* A business is registered when it is stored, and its uuid leaves the registry
\* only for a deletion of it, or for a create that somebody's update kept from
\* finding its own document: unless uuids come again, for which the registry
\* has forgotten a stored one.
RegistryStep ==
    /\ \A d \in docs' :
          (\A e \in docs : e["_id"] # d["_id"]) => d["uuid"] \in registry'
    /\ ~Redraw => \A d \in docs : d["uuid"] \in registry \ registry' =>
          \E t \in Threads :
              \/ RemoveUUID(t, d["uuid"])
              \/ pat[t]["uuid"] = d["uuid"] /\ d["_id"] \in moved[t] /\ Rollback(t)

RegistryKept == [][RegistryStep]_vars

\* The registry holds no uuid but those of a stored business or of a create in
\* progress: nothing leaks while the server does not crash and nobody deletes
\* by _id (deleteBusinessById never tells the registry).
NoRegistryLeak ==
    ~MayCrash /\ "deleteById" \notin Ops =>
        \A u \in registry :
            \/ \E d \in docs : d["uuid"] = u
            \/ \E t \in Threads : op[t] = "create" /\ pat[t]["uuid"] = u

\* Once deleteBusiness has answered, the business is not stored and never
\* again: also when an earlier attempt crashed after removeUUID and the
\* registry refuses the uuid of the retry.
DeletedStaysDeleted == \A d \in docs : d["uuid"] \notin gone

\* What a thread matched inside the monitor is still stored when it writes:
\* the read-back of updateBusiness never meets a missing document.
MatchedStillStored ==
    \A t \in Threads :
        /\ op[t] \in {"delete", "deleteById"} =>
              \A i \in hit[t] : \E d \in docs : d["_id"] = i
        /\ op[t] = "update" /\ pc[t] \in {"query", "confirm"} =>
              Matches("uuid", pat[t]["uuid"]) # {}

\* updateBusiness refuses a stored business only if another one shares one of
\* its unique attributes.
RefusalHasACause ==
    \A t \in Threads :
        /\ op[t] = "update" /\ pc[t] = "query" /\ todo[t] = {}
        /\ Cardinality(hit[t]) # 1
        =>
        \E d \in docs : /\ d["_id"] # pat[t]["_id"]
                        /\ \E k \in Keys : d[k] # None /\ d[k] = pat[t][k]

\* addBusiness checks, then acts, without the monitor.  A business it saves may
\* only repeat a unique attribute of one that was written while it was checking.
DuplicatesOnlyFromOverlap ==
    [][\A t \in Threads, i \in Ids : Save(t, i) =>
          \A d \in docs : (\E k \in Keys : d[k] # None /\ d[k] = pat[t][k])
                              => d["_id"] \in moved[t]]_vars

\* A create is answered, never kept waiting by updates and deletes; and a thread
\* inside the monitor leaves it, whatever the others do.
CallsEnd ==
    \A t \in Threads : (op[t] = "create" \/ monitor = t) ~> (op[t] # "create" /\ monitor # t)
=============================================================================

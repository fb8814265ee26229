------------------------ MODULE PromotionLifecycle ------------------------
(***************************************************************************)
(* The life of a promotion: PromotionServiceImpl, its Mongo persistence    *)
(* PromotionServicePersistenceImpl and the UUID registry.  A step is one   *)
(* database call or one synchronized method.  What makes promotions hard   *)
(* is that every write of one is a read of the whole document into a Java  *)
(* object followed by a write of the whole object, and that neither of the *)
(* two conversions is the identity.                                        *)
(***************************************************************************)
EXTENDS Naturals

CONSTANTS
    Threads,    \* request threads
    Uuids,      \* what createUUID can draw: bounds the promotions
    Kinds,      \* what clients ask createPromotion for, see below
    InputDates, \* dates clients send
    Businesses, \* uuids of businesses
    Nations,    \* nations of businesses
    Bodies,     \* promotions clients post to have one updated
    MayCrash,   \* TRUE if the server may crash and restart
    None        \* null

(***************************************************************************)
(* A last-minute offer ("LMT") lives as a special one ("SPO") does; a type *)
(* the factory does not know is "unknown".  A creation is "malformed" if   *)
(* it asks for a special offer with a date or a price that do not convert. *)
(***************************************************************************)
Types == {"SPO", "3X2", "unknown"}

Clock == [day : Nat, hour : 0..23]

\* What the body of an update may hold besides the uuid.
Updates == [active : BOOLEAN \cup {None}, type : Types \cup {None},
            from : InputDates \cup {None}, to : InputDates \cup {None},
            business : Businesses \cup {None}, nation : Nations \cup {None}]

ASSUME KindsAssumption == Kinds \subseteq Types \cup {"malformed"}
ASSUME CrashAssumption == MayCrash \in BOOLEAN
ASSUME DatesAssumption == InputDates \subseteq Clock
ASSUME BodiesAssumption == Bodies \subseteq Updates
ASSUME NoneAssumption ==
    /\ None \notin Uuids /\ None \notin Types /\ None # "malformed"
    /\ None \notin Businesses /\ None \notin Nations
    /\ None \notin Clock /\ None \notin BOOLEAN

VARIABLES
    registry,   \* uuids registered
    docs,       \* per uuid: the stored promotion, or None
    blank,      \* how many documents without uuid and type are stored
    pc,         \* per thread
    job,        \* per thread: the uuid and the Promotion object in hand
    \* history
    kind,       \* per uuid: the kind it was drawn for, or None
    named,      \* per uuid: the businesses its creation and updates named
    retyped,    \* promotions an update gave a type that cannot be read back
    gone,       \* uuids whose promotion was deleted
    touched,    \* promotions updated before their creator had read them back
    stale,      \* threads whose promotion was written since they read it
    crashed     \* the server crashed at some time

service == <<registry, docs, blank>>
locals  == <<pc, job>>
history == <<kind, named, retyped, gone, touched, stale, crashed>>
vars    == <<service, locals, history>>

(***************************************************************************)
(* Data.  A Promotion object has dates; in the document a date is text if  *)
(* the document was saved from JSON and a date once it was updated.        *)
(***************************************************************************)
TwelveHour(h) == IF h % 12 = 0 THEN 12 ELSE h % 12

\* Gson writes the hour as one of 12, with AM or PM; the pattern that reads the
\* text takes it as one of 24: 3 PM comes back as 3 AM, midnight as noon.
Reread(d) == [d EXCEPT !.hour = TwelveHour(@)]

Dates == InputDates \cup {Reread(d) : d \in InputDates}

\* Only a SpecialOffer is ever in hand: of a Three4two nothing is read.
Objects == [active : BOOLEAN, type : {"SPO"},
            from : Dates \cup {None}, to : Dates \cup {None},
            business : Businesses \cup Nations, nation : {None}]
Stored  == [as : {"text", "date"}, at : Dates]
Docs    == [active : BOOLEAN, type : Types, from : Stored, to : Stored \cup {None},
            business : Businesses \cup Nations, nation : Nations \cup {None}]

ASSUME NoDocumentAssumption == None \notin Docs \cup Stored

NoJob == [uuid |-> None, promo |-> None]

AsText(d) == IF d = None THEN None ELSE [as |-> "text", at |-> d]

\* promotionToDBObject: Gson writes dates as text and leaves nulls out.
ToDBObject(p) == [active |-> p.active, type |-> p.type,
                  from |-> AsText(p.from), to |-> AsText(p.to),
                  business |-> p.business, nation |-> p.nation]

DateOf(s) == IF s.as = "text" THEN Reread(s.at) ELSE s.at

\* getPromotion: the factory answers null for a type it does not know, and a
\* Three4two takes no uuid over, by which it would be sorted: both exceptions.
Readable(d) == d.type = "SPO"

\* Mutant: the break after a parsed end is missing: its begin follows it.
SetByMapFallsThrough(d) ==
    [active |-> d.active, type |-> d.type, from |-> DateOf(d.from), to |-> DateOf(d.from),
     business |-> d.business, nation |-> None]

\* setByMap, keys in the document's order: a toDate that is a Date goes to
\* setFromDate, the nation goes to setBusinessUuid.
SetByMap(d) ==
    LET dated == d.to # None /\ d.to.as = "date" IN
    [active   |-> d.active,
     type     |-> d.type,
     from     |-> IF dated THEN d.to.at ELSE DateOf(d.from),
     to       |-> IF dated \/ d.to = None THEN None ELSE DateOf(d.to),
     business |-> IF d.nation # None THEN d.nation ELSE d.business,
     nation   |-> None]

\* createPromotion's parameters as a SpecialOffer's setByMap reads them: over
\* REST dates are numbers, or texts, which are read as those of a document; in
\* the shell they are Dates.  The business comes after its nation.
Asked(business, from, to, overRest) ==
    [active |-> TRUE, type |-> "SPO", business |-> business, nation |-> None,
     from |-> IF overRest THEN from ELSE to, to |-> IF overRest THEN to ELSE None]

AsDate(x, d) == IF x = None THEN d ELSE [as |-> "date", at |-> x]

OrElse(x, y) == IF x # None THEN x ELSE y

\* Mutant: update without $set replaces the nation of the document.
Replaced(d, p) ==
    [active |-> OrElse(p.active, d.active), type |-> OrElse(p.type, d.type),
     from |-> AsDate(p.from, d.from), to |-> AsDate(p.to, d.to),
     business |-> OrElse(p.business, d.business), nation |-> p.nation]

\* $set with toMap(): the attributes that are not null.
Overlay(d, p) ==
    [active |-> OrElse(p.active, d.active), type |-> OrElse(p.type, d.type),
     from |-> AsDate(p.from, d.from), to |-> AsDate(p.to, d.to),
     business |-> OrElse(p.business, d.business), nation |-> OrElse(p.nation, d.nation)]

Idle(t) == pc[t] = "idle"

Begin(t, label, u, p) ==
    /\ pc' = [pc EXCEPT ![t] = label]
    /\ job' = [job EXCEPT ![t] = [uuid |-> u, promo |-> p]]
    /\ stale' = stale \ {t}

\* The answer to the client, or the exception that ends the request.
End(t) ==
    /\ pc' = [pc EXCEPT ![t] = "idle"]
    /\ job' = [job EXCEPT ![t] = NoJob]
    /\ stale' = stale \ {t}

Init ==
    /\ registry = {} /\ docs = [u \in Uuids |-> None] /\ blank = 0
    /\ pc = [t \in Threads |-> "idle"] /\ job = [t \in Threads |-> NoJob]
    /\ kind = [u \in Uuids |-> None] /\ named = [u \in Uuids |-> {}]
    /\ retyped = {} /\ gone = {} /\ touched = {} /\ stale = {} /\ crashed = FALSE

-----------------------------------------------------------------------------
(***************************************************************************)
(* createPromotion.  addPromotion's query for the uuid just drawn finds    *)
(* nothing and is part of the save.                                        *)
(***************************************************************************)
CreateUUID(t, u, k, business, from, to, overRest) ==
    /\ Idle(t) /\ kind[u] = None
    /\ registry' = registry \cup {u}
    /\ kind' = [kind EXCEPT ![u] = k]
    /\ named' = [named EXCEPT ![u] = {business}]
    /\ Begin(t, "save", u, Asked(business, from, to, overRest))
    /\ UNCHANGED <<docs, blank, retyped, gone, touched, crashed>>

Save(t) ==
    /\ pc[t] = "save" /\ kind[job[t].uuid] = "SPO"
    /\ docs' = [docs EXCEPT ![job[t].uuid] = ToDBObject(job[t].promo)]
    /\ pc' = [pc EXCEPT ![t] = "readBack"]
    /\ UNCHANGED <<registry, blank, job, history>>

\* A Three4two takes nothing over from the parameters: no uuid and no type.
SaveBlank(t) ==
    /\ pc[t] = "save" /\ kind[job[t].uuid] = "3X2"
    /\ blank' = blank + 1
    /\ pc' = [pc EXCEPT ![t] = "readBack"]
    /\ UNCHANGED <<registry, docs, job, history>>

\* The factory answers null and createPromotion asks it for the status, or
\* setByMap throws over a date or a price: the uuid is drawn, nothing is stored.
SaveThrows(t) ==
    /\ pc[t] = "save" /\ kind[job[t].uuid] \in {"unknown", "malformed"}
    /\ End(t)
    /\ UNCHANGED <<service, kind, named, retyped, gone, touched, crashed>>

\* Mutant: the saved document is compared as the object is written by toMap.
FoundAgainAsDates(t) ==
    LET u == job[t].uuid IN
    IF kind[u] = "3X2" THEN {v \in Uuids : docs[v] # None /\ docs[v].active}
    ELSE {v \in {u} : docs[v] = Overlay(ToDBObject(job[t].promo), job[t].promo)}

\* Promotions findOne can return for the fields of the object saved: all of its
\* fields if it is a real one, only active = true if it is a Three4two.
FoundAgain(t) ==
    LET u == job[t].uuid
        q == ToDBObject(job[t].promo)
    IN IF kind[u] = "3X2"
       THEN {v \in Uuids : docs[v] # None /\ docs[v].active}
       ELSE {v \in {u} : docs[v] # None /\ \A f \in DOMAIN q : q[f] = None \/ docs[v][f] = q[f]}

\* Found: answer CREATED with what was found, or, if a Three4two has found one
\* of a type the factory does not know, an exception.
ReadBack(t) ==
    /\ pc[t] = "readBack" /\ FoundAgain(t) # {}
    /\ End(t)
    /\ UNCHANGED <<service, kind, named, retyped, gone, touched, crashed>>

\* A document without a type: the factory's null is an exception.
ReadBackBlank(t) ==
    /\ pc[t] = "readBack" /\ kind[job[t].uuid] = "3X2" /\ blank > 0
    /\ End(t)
    /\ UNCHANGED <<service, kind, named, retyped, gone, touched, crashed>>

ReadBackNothing(t) ==
    /\ pc[t] = "readBack" /\ kind[job[t].uuid] # "3X2" /\ FoundAgain(t) = {}
    /\ pc' = [pc EXCEPT ![t] = "undo"]
    /\ UNCHANGED <<service, job, history>>

\* Not CREATED: removeUUID, although the document may be stored.
Undo(t) ==
    /\ pc[t] = "undo"
    /\ registry' = registry \ {job[t].uuid}
    /\ End(t)
    /\ UNCHANGED <<docs, blank, kind, named, retyped, gone, touched, crashed>>

-----------------------------------------------------------------------------
(***************************************************************************)
(* updateActive: an unsynchronized read, then the synchronized             *)
(* updatePromotion of the whole object; rest update: the latter alone.     *)
(***************************************************************************)
\* Mutant: update(..., upsert = true).
WriteUpserts(u, p) ==
    docs' = [docs EXCEPT ![u] = IF @ = None THEN ToDBObject(p) ELSE Overlay(@, p)]

\* The document is gone between the two: nothing matches, there is no upsert,
\* and reading the answer's document is an exception.
Write(u, p) == docs' = IF docs[u] = None THEN docs ELSE [docs EXCEPT ![u] = Overlay(@, p)]

\* History of a write of u by t.
Wrote(t, u) ==
    /\ touched' = IF \E s \in Threads : pc[s] = "readBack" /\ job[s].uuid = u
                  THEN touched \cup {u} ELSE touched
    /\ stale' = (stale \cup {s \in Threads : pc[s] = "write" /\ job[s].uuid = u}) \ {t}

ReadActive(t, u, activated) ==
    /\ Idle(t) /\ docs[u] # None /\ Readable(docs[u])
    /\ Begin(t, "write", u, [SetByMap(docs[u]) EXCEPT !.active = activated])
    /\ UNCHANGED <<service, kind, named, retyped, gone, touched, crashed>>

WriteActive(t) ==
    /\ pc[t] = "write"
    /\ Write(job[t].uuid, job[t].promo)
    /\ Wrote(t, job[t].uuid)
    /\ pc' = [pc EXCEPT ![t] = "idle"]
    /\ job' = [job EXCEPT ![t] = NoJob]
    /\ UNCHANGED <<registry, blank, kind, named, retyped, gone, crashed>>

\* The client posts a promotion with its uuid and whatever else it likes, type
\* and business included; a type that cannot be read back is an exception of
\* the answer, after the write.
Update(t, u, p) ==
    /\ Idle(t) /\ docs[u] # None
    /\ Write(u, p)
    /\ Wrote(t, u)
    /\ named' = [named EXCEPT ![u] = @ \cup ({p.business} \ {None})]
    /\ retyped' = IF p.type \in {None, "SPO"} THEN retyped ELSE retyped \cup {u}
    /\ UNCHANGED <<registry, blank, locals, kind, gone, crashed>>

-----------------------------------------------------------------------------
(***************************************************************************)
(* deletePromotion: only if removeUUID has removed the uuid, the           *)
(* synchronized delete of the persistence.                                 *)
(***************************************************************************)
\* Mutant: the uuid stays registered.
RemoveUUIDKeeps(t, u) ==
    /\ Idle(t) /\ u \in registry
    /\ Begin(t, "delete", u, None)
    /\ UNCHANGED <<service, kind, named, retyped, gone, touched, crashed>>

\* (A uuid that is not registered is refused: nothing changes.)
RemoveUUID(t, u) ==
    /\ Idle(t) /\ u \in registry
    /\ registry' = registry \ {u}
    /\ Begin(t, "delete", u, None)
    /\ UNCHANGED <<docs, blank, kind, named, retyped, gone, touched, crashed>>

Delete(t) ==
    /\ pc[t] = "delete"
    /\ LET u == job[t].uuid IN
        /\ docs[u] # None /\ Readable(docs[u])
        /\ docs' = [docs EXCEPT ![u] = None]
        /\ gone' = gone \cup {u}
        /\ stale' = (stale \cup {s \in Threads : pc[s] = "write" /\ job[s].uuid = u}) \ {t}
    /\ pc' = [pc EXCEPT ![t] = "idle"]
    /\ job' = [job EXCEPT ![t] = NoJob]
    /\ UNCHANGED <<registry, blank, kind, named, retyped, touched, crashed>>

\* Nothing is found, or an exception keeps what is found from being removed.
DeleteNothing(t) ==
    /\ pc[t] = "delete"
    /\ docs[job[t].uuid] # None => ~Readable(docs[job[t].uuid])
    /\ End(t)
    /\ UNCHANGED <<service, kind, named, retyped, gone, touched, crashed>>

-----------------------------------------------------------------------------
Crash ==
    /\ MayCrash /\ \E t \in Threads : ~Idle(t)
    /\ pc' = [t \in Threads |-> "idle"] /\ job' = [t \in Threads |-> NoJob]
    /\ stale' = {} /\ crashed' = TRUE
    /\ UNCHANGED <<service, kind, named, retyped, gone, touched>>

\* A uuid is known to clients as soon as its document is listed, or answered.
Request(t) ==
    \/ \E u \in Uuids, k \in Kinds, business \in Businesses,
          from \in InputDates, to \in InputDates \cup {None}, overRest \in BOOLEAN :
            /\ to = None => overRest
            /\ CreateUUID(t, u, k, business, from, to, overRest)
    \/ \E u \in Uuids, activated \in BOOLEAN : ReadActive(t, u, activated)
    \/ \E u \in Uuids, p \in Bodies : Update(t, u, p)
    \/ \E u \in Uuids : (docs[u] # None \/ u \in gone) /\ RemoveUUID(t, u)

Work(t) ==
    \/ Save(t)
    \/ SaveBlank(t)
    \/ SaveThrows(t)
    \/ ReadBack(t)
    \/ ReadBackBlank(t)
    \/ ReadBackNothing(t)
    \/ Undo(t)
    \/ WriteActive(t)
    \/ Delete(t)
    \/ DeleteNothing(t)

\* No request is in progress and none comes: a deadlock is a request stuck.
Quiet == (\A t \in Threads : Idle(t)) /\ UNCHANGED vars

Next == (\E t \in Threads : Request(t) \/ Work(t)) \/ Crash \/ Quiet

Spec == Init /\ [][Next]_vars

-----------------------------------------------------------------------------
(***************************************************************************)
(* Properties                                                              *)
(***************************************************************************)

\* The value of every variable has its type.
TypeOK ==
    /\ registry \subseteq Uuids
    /\ docs \in [Uuids -> Docs \cup {None}]
    /\ blank \in Nat
    /\ pc \in [Threads -> {"idle", "save", "readBack", "undo", "write", "delete"}]
    /\ job \in [Threads -> [uuid : Uuids \cup {None}, promo : Objects \cup {None}]]
    /\ kind \in [Uuids -> Kinds \cup {None}]
    /\ named \in [Uuids -> SUBSET Businesses] /\ retyped \subseteq Uuids
    /\ gone \subseteq Uuids /\ touched \subseteq Uuids /\ stale \subseteq Threads
    /\ crashed \in BOOLEAN

Stores(u) == docs[u] # None
Holds(t, label, u) == pc[t] = label /\ job[t].uuid = u

\* A deleted promotion never comes back, not even by an activation that read it
\* before it was deleted and writes the whole of it afterwards.
DeletionIsFinal == \A u \in gone : ~Stores(u)

\* removeUUID elects the one request that deletes: two concurrent deletions of
\* a promotion never both reach the persistence.
OneDeleter == \A s, t \in Threads, u \in Uuids :
                  Holds(s, "delete", u) /\ Holds(t, "delete", u) => s = t

\* A stored promotion can be deleted, or is being deleted.  Its uuid is missing
\* only after a crash, if it was written between save and read-back of its
\* creation, which then takes its uuid away, or if an update gave it a type with
\* which deletePromotion took the uuid and could not read the promotion.
Deletable == \A u \in Uuids :
    Stores(u) /\ u \notin registry =>
        crashed \/ u \in touched \cup retyped \/ \E t \in Threads : Holds(t, "delete", u)

Orphan(u) == Stores(u) /\ u \notin registry /\ \A t \in Threads : ~Holds(t, "delete", u)

\* Whatever clients do, a promotion without a registered uuid that nobody is
\* deleting yet stays so for ever: the service refuses to delete it.
OrphansAreForever == [][\A u \in Uuids : Orphan(u) => Orphan(u)']_vars

\* A registered uuid that nobody works on names a stored promotion, unless a
\* crash struck or it was drawn for a creation that stores none under it: a 3X2,
\* or one that ends in an exception after createUUID.
LeaksExplained == \A u \in registry :
    Stores(u) \/ crashed \/ kind[u] # "SPO" \/ \E t \in Threads : job[t].uuid = u

Same(x, y) == y \in {x, Reread(x)}

\* An activation nobody interferes with sets active and keeps type, nation and,
\* up to what the 12-hour text does to its hour, the end.  The begin it keeps
\* only if no update wrote the end (afterwards the promotion begins at its end),
\* the business only if no nation is stored.
QuietActivation == [][\A t \in Threads :
    WriteActive(t) /\ t \notin stale /\ docs[job[t].uuid] # None =>
        LET d == docs[job[t].uuid]
            e == docs'[job[t].uuid]
        IN /\ e.active = job[t].promo.active /\ e.type = d.type /\ e.nation = d.nation
           /\ e.business = OrElse(d.nation, d.business)
           /\ d.to = None <=> e.to = None
           /\ d.to # None => Same(d.to.at, e.to.at)
           /\ IF d.to # None /\ d.to.as = "date"
              THEN e.from.at = d.to.at ELSE Same(d.from.at, e.from.at)]_vars

\* A promotion is of a business that its creation or an update of it named, also
\* when an activation writes back a business read long before; unless a nation is
\* stored, which activations take for the business.
BusinessKept == \A u \in Uuids :
    Stores(u) /\ docs[u].business \notin named[u] => docs[u].nation # None
=============================================================================

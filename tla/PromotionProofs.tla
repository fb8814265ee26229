-------------------------- MODULE PromotionProofs --------------------------
(***************************************************************************)
(* Theorems about PromotionLifecycle, for any threads, uuids and dates.    *)
(***************************************************************************)
EXTENDS PromotionLifecycle, TLAPS

(***************************************************************************)
(* The inductive invariant.  OneDeleter holds because a deleter's uuid is  *)
(* not registered; Deletable because a creation about to save still has    *)
(* its uuid, and one that was read back as absent was deleted or touched;  *)
(* BusinessKept because a nation once stored stays stored, and a business  *)
(* once named stays named.                                                 *)
(***************************************************************************)
HasUuid(t) == job[t].uuid \in Uuids /\ kind[job[t].uuid] # None

HasObject(t) == job[t].promo \in Objects /\ job[t].promo.from # None

SaveInv(t) ==
    LET u == job[t].uuid IN
    /\ ~Stores(u) /\ u \notin gone /\ u \in registry
    /\ job[t].promo.business \in named[u]

ReadBackInv(t) ==
    LET u == job[t].uuid IN
    Stores(u) /\ u \notin touched => docs[u] = ToDBObject(job[t].promo)

UndoInv(t) == Stores(job[t].uuid) => job[t].uuid \in touched

WriteInv(t) ==
    LET u == job[t].uuid IN
    /\ Stores(u) \/ u \in gone
    /\ Stores(u) /\ job[t].promo.business \notin named[u] => docs[u].nation # None

ThreadInv(t) ==
    /\ pc[t] = "idle" => job[t] = NoJob
    /\ pc[t] # "idle" => HasUuid(t)
    /\ pc[t] \in {"save", "readBack", "undo", "write"} => HasObject(t)
    /\ pc[t] = "save" => SaveInv(t)
    /\ pc[t] = "readBack" => ReadBackInv(t)
    /\ pc[t] = "undo" => UndoInv(t)
    /\ pc[t] = "write" => WriteInv(t)
    /\ pc[t] = "delete" => job[t].uuid \notin registry

Creating(t) == pc[t] \in {"save", "readBack", "undo"}

OneCreator == \A s, t \in Threads :
    Creating(s) /\ Creating(t) /\ job[s].uuid = job[t].uuid => s = t

DeletableUuid(u) ==
    Stores(u) /\ u \notin registry =>
        crashed \/ u \in touched \cup retyped \/ \E t \in Threads : Holds(t, "delete", u)

RegisteredUuid(u) ==
    u \in registry =>
        Stores(u) \/ crashed \/ kind[u] # "SPO" \/ \E t \in Threads : Holds(t, "save", u)

UuidInv(u) ==
    /\ Stores(u) \/ u \in gone \/ u \in registry => kind[u] # None
    /\ u \in gone => ~Stores(u)
    /\ Stores(u) /\ docs[u].business \notin named[u] => docs[u].nation # None
    /\ Stores(u) /\ ~Readable(docs[u]) => u \in retyped
    /\ DeletableUuid(u)
    /\ RegisteredUuid(u)

IInv ==
    /\ TypeOK
    /\ \A t \in Threads : ThreadInv(t)
    /\ \A u \in Uuids : UuidInv(u)
    /\ OneCreator
    /\ OneDeleter

USE NoneAssumption, NoDocumentAssumption

-----------------------------------------------------------------------------
(***************************************************************************)
(* The conversions keep the types.                                         *)
(***************************************************************************)
LEMMA TwelveHourFixes ==
    /\ \A h \in 0..23 : TwelveHour(h) \in 1..12
    /\ \A h \in 1..12 : TwelveHour(h) = h
  BY DEF TwelveHour

LEMMA RereadType == ASSUME NEW d \in Dates PROVE Reread(d) \in Dates /\ d # None
  <1>1. \A c \in Clock : Reread(c) \in Clock /\ Reread(c).hour \in 1..12
    BY TwelveHourFixes DEF Clock, Reread
  <1>2. \A c \in Clock : c.hour \in 1..12 => Reread(c) = c
    BY TwelveHourFixes DEF Clock, Reread
  <1>3. d \in Clock
    BY <1>1, DatesAssumption DEF Dates
  <1>4. CASE d \in InputDates
    BY <1>3, <1>4 DEF Dates
  <1>5. CASE \E e \in InputDates : d = Reread(e)
    BY <1>1, <1>2, <1>3, <1>5, DatesAssumption
  <1> QED BY <1>4, <1>5 DEF Dates

LEMMA AskedType ==
    ASSUME NEW b \in Businesses, NEW from \in InputDates, NEW to \in InputDates \cup {None},
           NEW overRest \in BOOLEAN, to = None => overRest
    PROVE  LET p == Asked(b, from, to, overRest) IN
           p \in Objects /\ p.from # None /\ p.business = b
  <1>1. from \in Dates /\ from # None /\ (to # None => to \in Dates)
    BY RereadType DEF Dates
  <1> QED BY <1>1 DEF Asked, Objects

LEMMA ToDBObjectType ==
    ASSUME NEW p \in Objects, p.from # None
    PROVE  ToDBObject(p) \in Docs /\ ToDBObject(p) # None
           /\ ToDBObject(p).business = p.business
  <1>1. AsText(p.from) \in Stored /\ AsText(p.to) \in Stored \cup {None}
    BY DEF AsText, Objects, Stored
  <1>2. ToDBObject(p) \in Docs
    BY <1>1 DEF ToDBObject, Objects, Docs, Types
  <1> QED BY <1>2 DEF ToDBObject

LEMMA SetByMapType ==
    ASSUME NEW d \in Docs, Readable(d), NEW a \in BOOLEAN
    PROVE  LET p == [SetByMap(d) EXCEPT !.active = a] IN
           p \in Objects /\ p.from # None /\ p.business = OrElse(d.nation, d.business)
  BY RereadType DEF SetByMap, DateOf, Readable, OrElse, Objects, Docs, Stored

\* The object of an activation or the body of an update over a document.
LEMMA OverlayType ==
    ASSUME NEW d \in Docs, NEW p \in Objects \cup Updates
    PROVE  /\ Overlay(d, p) \in Docs
           /\ Overlay(d, p).business = OrElse(p.business, d.business)
           /\ Overlay(d, p).nation = OrElse(p.nation, d.nation)
  <1>1. /\ p.active \in BOOLEAN \cup {None} /\ p.type \in Types \cup {None}
        /\ p.from \in Dates \cup {None} /\ p.to \in Dates \cup {None}
        /\ p.business \in Businesses \cup Nations \cup {None} /\ p.nation \in Nations \cup {None}
    BY DEF Objects, Updates, Dates, Types
  <1>2. AsDate(p.from, d.from) \in Stored /\ AsDate(p.to, d.to) \in Stored \cup {None}
    BY <1>1 DEF AsDate, Docs, Stored
  <1> QED BY <1>1, <1>2 DEF Overlay, OrElse, Docs
-----------------------------------------------------------------------------
(***************************************************************************)
(* Every step keeps the invariant.                                         *)
(***************************************************************************)
\* What a step of t does not do to the other threads.
OthersKeep(t) == \A s \in Threads \ {t} : pc'[s] = pc[s] /\ job'[s] = job[s]

\* A request begins, or ends.
LEMMA BeginFacts ==
    ASSUME TypeOK, NEW t \in Threads, NEW u \in Uuids, NEW p \in Objects \cup {None},
           NEW label \in {"save", "write", "delete"}, Begin(t, label, u, p)
    PROVE  /\ pc'[t] = label /\ job'[t] = [uuid |-> u, promo |-> p] /\ OthersKeep(t)
           /\ pc' \in [Threads -> {"idle", "save", "readBack", "undo", "write", "delete"}]
           /\ job' \in [Threads -> [uuid : Uuids \cup {None}, promo : Objects \cup {None}]]
           /\ stale' \subseteq Threads
  BY DEF TypeOK, Begin, OthersKeep

LEMMA EndFacts ==
    ASSUME TypeOK, NEW t \in Threads,
           pc' = [pc EXCEPT ![t] = "idle"], job' = [job EXCEPT ![t] = NoJob]
    PROVE  /\ pc'[t] = "idle" /\ job'[t] = NoJob /\ OthersKeep(t)
           /\ pc' \in [Threads -> {"idle", "save", "readBack", "undo", "write", "delete"}]
           /\ job' \in [Threads -> [uuid : Uuids \cup {None}, promo : Objects \cup {None}]]
  BY DEF TypeOK, OthersKeep, NoJob

LEMMA CreateUUIDKeeps ==
    ASSUME IInv, NEW t \in Threads, NEW u \in Uuids, NEW k \in Kinds,
           NEW b \in Businesses, NEW from \in InputDates, NEW to \in InputDates \cup {None},
           NEW overRest \in BOOLEAN, to = None => overRest,
           CreateUUID(t, u, k, b, from, to, overRest)
    PROVE  IInv'
  <1> DEFINE p == Asked(b, from, to, overRest)
  <1>1. p \in Objects /\ p.from # None /\ p.business = b
    BY AskedType
  <1> HIDE DEF p
  <1>2. /\ pc'[t] = "save" /\ job'[t] = [uuid |-> u, promo |-> p] /\ OthersKeep(t)
        /\ pc' \in [Threads -> {"idle", "save", "readBack", "undo", "write", "delete"}]
        /\ job' \in [Threads -> [uuid : Uuids \cup {None}, promo : Objects \cup {None}]]
        /\ stale' \subseteq Threads
    BY <1>1, BeginFacts DEF CreateUUID, IInv, p
  <1>3. /\ pc[t] = "idle" /\ kind[u] = None /\ registry' = registry \cup {u}
        /\ kind' = [kind EXCEPT ![u] = k] /\ named' = [named EXCEPT ![u] = {b}]
        /\ UNCHANGED <<docs, blank, retyped, gone, touched, crashed>>
    BY DEF CreateUUID, Idle
  <1>4. /\ kind' \in [Uuids -> Kinds \cup {None}] /\ kind'[u] # None
        /\ \A v \in Uuids : kind[v] # None => kind'[v] = kind[v] /\ v # u
        /\ named' \in [Uuids -> SUBSET Businesses] /\ named'[u] = {b}
        /\ \A v \in Uuids : v # u => named'[v] = named[v]
    BY <1>3, KindsAssumption DEF IInv, TypeOK
  <1>5. ~Stores(u) /\ u \notin gone /\ u \notin registry
    BY <1>3 DEF IInv, UuidInv
  <1>6. TypeOK'
    BY <1>2, <1>3, <1>4 DEF IInv, TypeOK
  <1>7. ThreadInv(t)'
    BY <1>1, <1>2, <1>3, <1>4, <1>5 DEF ThreadInv, HasUuid, HasObject, SaveInv, Stores
  <1>8. ASSUME NEW s \in Threads \ {t} PROVE ThreadInv(s)'
    BY <1>2, <1>3, <1>4
    DEF IInv, ThreadInv, HasUuid, HasObject, SaveInv, ReadBackInv, UndoInv, WriteInv, OthersKeep, Stores
  <1>9. ASSUME NEW v \in Uuids PROVE UuidInv(v)'
    <2>1. \A s \in Threads, l \in {"save", "delete"} : Holds(s, l, v) => Holds(s, l, v)'
      BY <1>2, <1>3 DEF OthersKeep, Holds
    <2>2. Holds(t, "save", u)'
      BY <1>2 DEF Holds
    <2>3. UuidInv(v)
      BY DEF IInv
    <2> QED BY <1>3, <1>4, <1>5, <2>1, <2>2, <2>3
            DEF UuidInv, DeletableUuid, RegisteredUuid, Stores
  <1>10. OneCreator' /\ OneDeleter'
    <2>1. \A s \in Threads \ {t} : pc[s] # "idle" => job[s].uuid # u
      BY <1>3 DEF IInv, ThreadInv, HasUuid
    <2> QED BY <1>2, <2>1 DEF IInv, OneCreator, OneDeleter, Creating, Holds, OthersKeep
  <1> QED BY <1>6, <1>7, <1>8, <1>9, <1>10 DEF IInv

\* The facts about t in the middle of a request.
LEMMA WorkingFacts ==
    ASSUME IInv, NEW t \in Threads, pc[t] # "idle"
    PROVE  /\ job[t].uuid \in Uuids /\ kind[job[t].uuid] # None /\ ThreadInv(t)
           /\ job \in [Threads -> [uuid : Uuids \cup {None}, promo : Objects \cup {None}]]
           /\ job[t] = [uuid |-> job[t].uuid, promo |-> job[t].promo]
  BY DEF IInv, TypeOK, ThreadInv, HasUuid

\* A step of t that only moves or ends t, takes uuids of no document away and
\* writes nothing.
LEMMA QuietStep ==
    ASSUME IInv, NEW t \in Threads, pc[t] # "idle", pc[t] # "write", OthersKeep(t),
           pc' \in [Threads -> {"idle", "save", "readBack", "undo", "write", "delete"}],
           job' \in [Threads -> [uuid : Uuids \cup {None}, promo : Objects \cup {None}]],
           UNCHANGED <<docs, kind, named, retyped, gone, touched, crashed>>,
           registry' \in {registry, registry \ {job[t].uuid}},
           pc'[t] \in {"idle", "readBack", "undo"},
           pc'[t] # "idle" => Creating(t) /\ job'[t] = job[t],
           ThreadInv(t)',
           registry' # registry => pc[t] = "undo",
           pc[t] = "save" => kind[job[t].uuid] # "SPO",
           pc[t] = "delete" /\ Stores(job[t].uuid) => job[t].uuid \in retyped,
           blank' \in Nat, stale' \subseteq Threads
    PROVE  IInv'
  <1> DEFINE u == job[t].uuid
  <1>1. u \in Uuids /\ kind[u] # None /\ ThreadInv(t)
    BY WorkingFacts
  <1>2. Creating(t) => \A s \in Threads \ {t} : Creating(s) => job[s].uuid # u
    BY DEF IInv, OneCreator
  <1> HIDE DEF u
  <1>3. registry' = registry \/ (registry' = registry \ {u} /\ pc[t] = "undo")
    BY DEF u
  <1>4. TypeOK'
    BY <1>3 DEF IInv, TypeOK
  <1>5. ASSUME NEW s \in Threads \ {t} PROVE ThreadInv(s)'
    BY <1>2, <1>3
    DEF IInv, ThreadInv, HasUuid, HasObject, SaveInv, ReadBackInv, UndoInv, WriteInv, OthersKeep,
        Stores, Creating
  <1>6. ASSUME NEW v \in Uuids PROVE UuidInv(v)'
    <2>1. \A s \in Threads : Holds(s, "delete", v) =>
                  Holds(s, "delete", v)' \/ (Stores(v) => v \in retyped)
      BY DEF OthersKeep, Holds
    <2>2. \A s \in Threads : Holds(s, "save", v) => Holds(s, "save", v)' \/ kind[v] # "SPO"
      BY DEF OthersKeep, Holds
    <2>3. UuidInv(v)
      BY DEF IInv
    <2>4. CASE registry' = registry
      BY <2>1, <2>2, <2>3, <2>4 DEF UuidInv, DeletableUuid, RegisteredUuid, Stores
    <2>5. CASE registry' = registry \ {u} /\ pc[t] = "undo"
      <3>1. Stores(u) => u \in touched
        BY <1>1, <2>5 DEF ThreadInv, UndoInv, u
      <3> QED BY <2>1, <2>2, <2>3, <2>5, <3>1 DEF UuidInv, DeletableUuid, RegisteredUuid, Stores
    <2> QED BY <1>3, <2>4, <2>5
  <1>7. OneCreator' /\ OneDeleter'
    <2>1. OneCreator'
      BY DEF IInv, OneCreator, Creating, OthersKeep
    <2>2. OneDeleter'
      BY DEF IInv, OneDeleter, Holds, OthersKeep
    <2> QED BY <2>1, <2>2
  <1> QED BY <1>4, <1>5, <1>6, <1>7 DEF IInv

LEMMA SaveThrowsKeeps ==
    ASSUME IInv, NEW t \in Threads, SaveThrows(t)
    PROVE  IInv'
  <1>1. /\ pc[t] = "save" /\ kind[job[t].uuid] \in {"unknown", "malformed"} /\ End(t)
        /\ UNCHANGED <<service, kind, named, retyped, gone, touched, crashed>>
    BY DEF SaveThrows
  <1>2. /\ pc'[t] = "idle" /\ job'[t] = NoJob /\ OthersKeep(t)
        /\ pc' \in [Threads -> {"idle", "save", "readBack", "undo", "write", "delete"}]
        /\ job' \in [Threads -> [uuid : Uuids \cup {None}, promo : Objects \cup {None}]]
    BY <1>1, EndFacts DEF End, IInv
  <1>3. ThreadInv(t)'
    BY <1>2 DEF ThreadInv
  <1> QED BY <1>1, <1>2, <1>3, QuietStep DEF End, IInv, TypeOK, service

LEMMA SaveBlankKeeps ==
    ASSUME IInv, NEW t \in Threads, SaveBlank(t)
    PROVE  IInv'
  <1>1. /\ pc[t] = "save" /\ kind[job[t].uuid] = "3X2" /\ blank' = blank + 1
        /\ pc' = [pc EXCEPT ![t] = "readBack"] /\ UNCHANGED <<registry, docs, job, history>>
    BY DEF SaveBlank
  <1>2. /\ pc'[t] = "readBack" /\ OthersKeep(t)
        /\ pc' \in [Threads -> {"idle", "save", "readBack", "undo", "write", "delete"}]
    BY <1>1 DEF OthersKeep, IInv, TypeOK
  <1>3. ThreadInv(t)'
    BY <1>1, <1>2, WorkingFacts
    DEF ThreadInv, HasUuid, HasObject, SaveInv, ReadBackInv, Stores, history
  <1> QED BY <1>1, <1>2, <1>3, QuietStep DEF IInv, TypeOK, Creating, history

LEMMA SaveKeeps ==
    ASSUME IInv, NEW t \in Threads, Save(t)
    PROVE  IInv'
  <1> DEFINE u == job[t].uuid
             d == ToDBObject(job[t].promo)
  <1>1. /\ pc[t] = "save" /\ u \in Uuids /\ kind[u] = "SPO" /\ ThreadInv(t)
        /\ docs' = [docs EXCEPT ![u] = d]
        /\ pc' = [pc EXCEPT ![t] = "readBack"]
        /\ UNCHANGED <<registry, blank, job, history>>
    BY WorkingFacts DEF Save
  <1>2. /\ pc'[t] = "readBack" /\ OthersKeep(t)
        /\ pc' \in [Threads -> {"idle", "save", "readBack", "undo", "write", "delete"}]
    BY <1>1 DEF OthersKeep, IInv, TypeOK
  <1>3. /\ d \in Docs /\ d # None /\ d.business \in named[u] /\ Readable(d)
        /\ u \in registry /\ u \notin gone /\ ~Stores(u)
    <2>1. job[t].promo \in Objects /\ job[t].promo.from # None /\ SaveInv(t)
      BY <1>1 DEF ThreadInv, HasObject
    <2>2. Readable(d)
      BY <2>1 DEF ToDBObject, Readable, Objects
    <2> QED BY <2>1, <2>2, ToDBObjectType DEF SaveInv
  <1>4. docs' \in [Uuids -> Docs \cup {None}] /\ docs'[u] = d
        /\ \A v \in Uuids : v # u => docs'[v] = docs[v]
    BY <1>1, <1>3 DEF IInv, TypeOK
  <1>5. \A s \in Threads \ {t} : Creating(s) => job[s].uuid # u
    BY <1>1 DEF IInv, OneCreator, Creating
  <1> HIDE DEF d
  <1>6. ThreadInv(t)'
    BY <1>1, <1>2, <1>4 DEF ThreadInv, HasUuid, HasObject, ReadBackInv, history, d
  <1>7. ASSUME NEW s \in Threads \ {t} PROVE ThreadInv(s)'
    <2>1. CASE job[s].uuid # u \/ pc[s] \in {"idle", "delete"}
      BY <1>1, <1>2, <1>4, <2>1
      DEF IInv, ThreadInv, HasUuid, HasObject, SaveInv, ReadBackInv, UndoInv, WriteInv, OthersKeep,
          Stores, history
    <2>2. job[s].uuid = u => pc[s] # "write"
      BY <1>3 DEF IInv, ThreadInv, WriteInv
    <2>3. pc[s] \in {"idle", "save", "readBack", "undo", "write", "delete"}
      BY DEF IInv, TypeOK
    <2> QED BY <1>5, <2>1, <2>2, <2>3 DEF Creating
  <1>8. TypeOK'
    BY <1>1, <1>2, <1>4 DEF IInv, TypeOK, history
  <1>9. ASSUME NEW v \in Uuids PROVE UuidInv(v)'
    <2>1. \A s \in Threads : Holds(s, "delete", v) => Holds(s, "delete", v)'
      BY <1>1, <1>2 DEF OthersKeep, Holds
    <2>2. \A s \in Threads : Holds(s, "save", v) => Holds(s, "save", v)' \/ v = u
      BY <1>1, <1>2 DEF OthersKeep, Holds
    <2>3. UuidInv(v)
      BY DEF IInv
    <2> HIDE DEF u
    <2> QED BY <1>1, <1>3, <1>4, <2>1, <2>2, <2>3
            DEF UuidInv, DeletableUuid, RegisteredUuid, Stores, history
  <1>10. OneCreator' /\ OneDeleter'
    BY <1>1, <1>2 DEF IInv, OneCreator, OneDeleter, Creating, Holds, OthersKeep
  <1> QED BY <1>6, <1>7, <1>8, <1>9, <1>10 DEF IInv

LEMMA ReadBackKeeps ==
    ASSUME IInv, NEW t \in Threads, ReadBack(t) \/ ReadBackBlank(t)
    PROVE  IInv'
  <1>1. /\ pc[t] = "readBack" /\ End(t)
        /\ UNCHANGED <<service, kind, named, retyped, gone, touched, crashed>>
    BY DEF ReadBack, ReadBackBlank
  <1>2. /\ pc'[t] = "idle" /\ job'[t] = NoJob /\ OthersKeep(t)
        /\ pc' \in [Threads -> {"idle", "save", "readBack", "undo", "write", "delete"}]
        /\ job' \in [Threads -> [uuid : Uuids \cup {None}, promo : Objects \cup {None}]]
    BY <1>1, EndFacts DEF End, IInv
  <1>3. ThreadInv(t)'
    BY <1>2 DEF ThreadInv
  <1> QED BY <1>1, <1>2, <1>3, QuietStep DEF End, IInv, TypeOK, service

LEMMA ReadBackNothingKeeps ==
    ASSUME IInv, NEW t \in Threads, ReadBackNothing(t)
    PROVE  IInv'
  <1> DEFINE u == job[t].uuid
  <1>1. /\ pc[t] = "readBack" /\ kind[u] # "3X2" /\ FoundAgain(t) = {}
        /\ pc' = [pc EXCEPT ![t] = "undo"] /\ UNCHANGED <<service, job, history>>
    BY DEF ReadBackNothing
  <1>2. pc'[t] = "undo" /\ OthersKeep(t)
        /\ pc' \in [Threads -> {"idle", "save", "readBack", "undo", "write", "delete"}]
    BY <1>1 DEF IInv, TypeOK, OthersKeep
  <1>3. u \in Uuids /\ ThreadInv(t)
    BY <1>1, WorkingFacts
  <1>4. docs[u] = ToDBObject(job[t].promo) => ~Stores(u)
    BY <1>1, <1>3 DEF FoundAgain, Stores, ToDBObject
  <1>5. ThreadInv(t)'
    BY <1>1, <1>2, <1>3, <1>4
    DEF ThreadInv, HasUuid, HasObject, ReadBackInv, UndoInv, Stores, service, history
  <1> QED BY <1>1, <1>2, <1>5, QuietStep DEF IInv, TypeOK, Creating, service, history

LEMMA UndoKeeps ==
    ASSUME IInv, NEW t \in Threads, Undo(t)
    PROVE  IInv'
  <1>1. /\ pc[t] = "undo" /\ registry' = registry \ {job[t].uuid} /\ End(t)
        /\ UNCHANGED <<docs, blank, kind, named, retyped, gone, touched, crashed>>
    BY DEF Undo
  <1>2. /\ pc'[t] = "idle" /\ job'[t] = NoJob /\ OthersKeep(t)
        /\ pc' \in [Threads -> {"idle", "save", "readBack", "undo", "write", "delete"}]
        /\ job' \in [Threads -> [uuid : Uuids \cup {None}, promo : Objects \cup {None}]]
    BY <1>1, EndFacts DEF End, IInv
  <1>3. ThreadInv(t)'
    BY <1>2 DEF ThreadInv
  <1> QED BY <1>1, <1>2, <1>3, QuietStep DEF End, IInv, TypeOK

\* A write of p over the promotion u, by a request of t that ends or is this one.
LEMMA WriteStep ==
    ASSUME IInv, NEW t \in Threads, NEW u \in Uuids, NEW p \in Objects \cup Updates,
           Write(u, p), Wrote(t, u),
           named' \in [Uuids -> SUBSET Businesses], \A v \in Uuids : named[v] \subseteq named'[v],
           p.business \in named'[u] \cup {None} \/ (Stores(u) => docs[u].nation # None),
           retyped \subseteq retyped', retyped' \subseteq Uuids,
           p.type \in {None, "SPO"} \/ u \in retyped',
           pc[t] \in {"idle", "write"}, pc'[t] = "idle", job'[t] = NoJob, OthersKeep(t),
           pc' \in [Threads -> {"idle", "save", "readBack", "undo", "write", "delete"}],
           job' \in [Threads -> [uuid : Uuids \cup {None}, promo : Objects \cup {None}]],
           UNCHANGED <<registry, blank, kind, gone, crashed>>
    PROVE  IInv'
  <1>1. docs \in [Uuids -> Docs \cup {None}]
    BY DEF IInv, TypeOK
  <1>2. \A d \in Docs : Overlay(d, p) \in Docs
    BY OverlayType
  <1>3. /\ docs' \in [Uuids -> Docs \cup {None}]
        /\ \A v \in Uuids : v # u => docs'[v] = docs[v]
        /\ docs[u] = None => docs'[u] = None
        /\ docs[u] # None => docs[u] \in Docs /\ docs'[u] = Overlay(docs[u], p) /\ docs'[u] # None
    <2>1. CASE docs[u] = None
      BY <1>1, <2>1 DEF Write
    <2>2. CASE docs[u] # None
      BY <1>1, <1>2, <2>2 DEF Write
    <2> QED BY <2>1, <2>2
  <1>4. \A v \in Uuids : Stores(v)' <=> Stores(v)
    BY <1>3 DEF Stores
  <1>5. /\ touched \subseteq touched' /\ touched' \subseteq Uuids /\ stale' \subseteq Threads
        /\ \A s \in Threads : pc[s] = "readBack" /\ job[s].uuid = u => u \in touched'
    BY DEF Wrote, IInv, TypeOK
  <1>6. TypeOK'
    BY <1>3, <1>5 DEF IInv, TypeOK
  <1>7. Stores(u) =>
            /\ docs'[u].business = OrElse(p.business, docs[u].business)
            /\ docs'[u].nation = OrElse(p.nation, docs[u].nation)
            /\ docs'[u].type = OrElse(p.type, docs[u].type)
    BY <1>3, OverlayType DEF Stores, Overlay
  <1>8. Stores(u) /\ docs[u].nation # None => docs'[u].nation # None
    BY <1>7 DEF OrElse
  <1>9. Stores(u) /\ docs'[u].business \notin named'[u] => docs'[u].nation # None
    <2>1. Stores(u) /\ docs[u].business \notin named[u] => docs[u].nation # None
      BY DEF IInv, UuidInv
    <2> QED BY <1>7, <1>8, <2>1 DEF OrElse
  <1>10. Stores(u) /\ ~Readable(docs'[u]) => u \in retyped'
    BY <1>7 DEF IInv, UuidInv, Readable, OrElse
  <1>11. ThreadInv(t)'
    BY DEF ThreadInv
  <1>12. ASSUME NEW s \in Threads \ {t} PROVE ThreadInv(s)'
    <2>1. ThreadInv(s) /\ pc'[s] = pc[s] /\ job'[s] = job[s]
      BY DEF IInv, OthersKeep
    <2>2. CASE job[s].uuid = u
      <3>1. pc[s] = "write" => WriteInv(s)'
        BY <1>4, <1>8, <2>1, <2>2 DEF ThreadInv, WriteInv
      <3>2. pc[s] = "readBack" => ReadBackInv(s)'
        BY <1>5, <2>1, <2>2 DEF ReadBackInv
      <3> QED BY <1>4, <1>5, <2>1, <2>2, <3>1, <3>2
              DEF ThreadInv, HasUuid, HasObject, SaveInv, UndoInv
    <2>3. CASE job[s].uuid # u
      BY <1>3, <1>5, <2>1, <2>3
      DEF ThreadInv, HasUuid, HasObject, SaveInv, ReadBackInv, UndoInv, WriteInv, Stores
    <2> QED BY <2>2, <2>3
  <1>13. ASSUME NEW v \in Uuids PROVE UuidInv(v)'
    <2>1. \A s \in Threads, l \in {"save", "delete"} : Holds(s, l, v) => Holds(s, l, v)'
      BY DEF OthersKeep, Holds
    <2>2. UuidInv(v)
      BY DEF IInv
    <2>3. Stores(v) /\ docs'[v].business \notin named'[v] => docs'[v].nation # None
      BY <1>3, <1>9, <2>2 DEF UuidInv, Stores
    <2>4. Stores(v) /\ ~Readable(docs'[v]) => v \in retyped'
      BY <1>3, <1>10, <2>2 DEF UuidInv, Stores
    <2>5. DeletableUuid(v)' /\ RegisteredUuid(v)'
      BY <1>4, <1>5, <2>1, <2>2 DEF UuidInv, DeletableUuid, RegisteredUuid
    <2> QED BY <1>4, <2>2, <2>3, <2>4, <2>5 DEF UuidInv, Readable
  <1>14. OneCreator' /\ OneDeleter'
    BY DEF IInv, OneCreator, OneDeleter, Creating, Holds, OthersKeep
  <1> QED BY <1>6, <1>11, <1>12, <1>13, <1>14 DEF IInv

LEMMA WriteActiveKeeps ==
    ASSUME IInv, NEW t \in Threads, WriteActive(t)
    PROVE  IInv'
  <1> DEFINE u == job[t].uuid
             p == job[t].promo
  <1>1. /\ pc[t] = "write" /\ Write(u, p) /\ Wrote(t, u)
        /\ pc' = [pc EXCEPT ![t] = "idle"] /\ job' = [job EXCEPT ![t] = NoJob]
        /\ UNCHANGED <<registry, blank, kind, named, retyped, gone, crashed>>
    BY DEF WriteActive
  <1>2. u \in Uuids /\ ThreadInv(t)
    BY <1>1, WorkingFacts
  <1>3. p \in Objects /\ p.type = "SPO" /\ WriteInv(t)
    BY <1>1, <1>2 DEF ThreadInv, HasObject, Objects
  <1>4. p.business \in named[u] \/ (Stores(u) => docs[u].nation # None)
    BY <1>3 DEF WriteInv
  <1>5. /\ pc'[t] = "idle" /\ job'[t] = NoJob /\ OthersKeep(t)
        /\ pc' \in [Threads -> {"idle", "save", "readBack", "undo", "write", "delete"}]
        /\ job' \in [Threads -> [uuid : Uuids \cup {None}, promo : Objects \cup {None}]]
    BY <1>1, EndFacts DEF IInv
  <1>6. named \in [Uuids -> SUBSET Businesses] /\ retyped \subseteq Uuids
    BY DEF IInv, TypeOK
  <1> HIDE DEF u, p
  <1> QED BY <1>1, <1>2, <1>3, <1>4, <1>5, <1>6, WriteStep

LEMMA UpdateKeeps ==
    ASSUME IInv, NEW t \in Threads, NEW u \in Uuids, NEW p \in Bodies, Update(t, u, p)
    PROVE  IInv'
  <1>1. /\ pc[t] = "idle" /\ Write(u, p) /\ Wrote(t, u)
        /\ named' = [named EXCEPT ![u] = @ \cup ({p.business} \ {None})]
        /\ retyped' = IF p.type \in {None, "SPO"} THEN retyped ELSE retyped \cup {u}
        /\ UNCHANGED <<registry, blank, locals, kind, gone, crashed>>
    BY DEF Update, Idle
  <1>2. p \in Updates
    BY BodiesAssumption
  <1>3. /\ named' \in [Uuids -> SUBSET Businesses] /\ p.business \in named'[u] \cup {None}
        /\ \A v \in Uuids : named[v] \subseteq named'[v]
    <2>1. p.business \in Businesses \cup {None}
      BY <1>2 DEF Updates
    <2>2. named \in [Uuids -> SUBSET Businesses]
      BY DEF IInv, TypeOK
    <2> QED BY <1>1, <2>1, <2>2
  <1>4. /\ retyped \subseteq retyped' /\ retyped' \subseteq Uuids
        /\ p.type \in {None, "SPO"} \/ u \in retyped'
    BY <1>1 DEF IInv, TypeOK
  <1>5. job[t] = NoJob
    BY <1>1 DEF IInv, ThreadInv
  <1>6. /\ pc'[t] = "idle" /\ job'[t] = NoJob /\ OthersKeep(t)
        /\ pc' \in [Threads -> {"idle", "save", "readBack", "undo", "write", "delete"}]
        /\ job' \in [Threads -> [uuid : Uuids \cup {None}, promo : Objects \cup {None}]]
    BY <1>1, <1>5 DEF locals, OthersKeep, IInv, TypeOK
  <1> QED BY <1>1, <1>2, <1>3, <1>4, <1>6, WriteStep

LEMMA ReadActiveKeeps ==
    ASSUME IInv, NEW t \in Threads, NEW u \in Uuids, NEW activated \in BOOLEAN,
           ReadActive(t, u, activated)
    PROVE  IInv'
  <1> DEFINE p == [SetByMap(docs[u]) EXCEPT !.active = activated]
  <1>1. /\ pc[t] = "idle" /\ Stores(u) /\ docs[u] \in Docs /\ Readable(docs[u])
        /\ Begin(t, "write", u, p)
        /\ UNCHANGED <<service, kind, named, retyped, gone, touched, crashed>>
    BY DEF ReadActive, Idle, Stores, IInv, TypeOK
  <1>2. p \in Objects /\ p.from # None /\ p.business = OrElse(docs[u].nation, docs[u].business)
    BY <1>1, SetByMapType
  <1> HIDE DEF p
  <1>3. UuidInv(u)
    BY DEF IInv
  <1>4. p.business \notin named[u] => docs[u].nation # None
    BY <1>1, <1>2, <1>3 DEF UuidInv, OrElse
  <1>5. /\ pc'[t] = "write" /\ job'[t] = [uuid |-> u, promo |-> p] /\ OthersKeep(t)
        /\ pc' \in [Threads -> {"idle", "save", "readBack", "undo", "write", "delete"}]
        /\ job' \in [Threads -> [uuid : Uuids \cup {None}, promo : Objects \cup {None}]]
        /\ stale' \subseteq Threads
    BY <1>1, <1>2, BeginFacts DEF IInv
  <1>6. TypeOK'
    BY <1>1, <1>5 DEF IInv, TypeOK, service
  <1>7. ThreadInv(t)'
    BY <1>1, <1>2, <1>3, <1>4, <1>5
    DEF ThreadInv, HasUuid, HasObject, WriteInv, Stores, service, UuidInv
  <1>8. ASSUME NEW s \in Threads \ {t} PROVE ThreadInv(s)'
    BY <1>1, <1>5 DEF IInv, ThreadInv, HasUuid, HasObject, SaveInv, ReadBackInv, UndoInv, WriteInv,
                      OthersKeep, Stores, service
  <1>9. ASSUME NEW v \in Uuids PROVE UuidInv(v)'
    <2>1. \A s \in Threads, l \in {"save", "delete"} : Holds(s, l, v) => Holds(s, l, v)'
      BY <1>1, <1>5 DEF OthersKeep, Holds
    <2> QED BY <1>1, <2>1 DEF IInv, UuidInv, DeletableUuid, RegisteredUuid, Stores, service
  <1>10. OneCreator' /\ OneDeleter'
    BY <1>1, <1>5 DEF IInv, OneCreator, OneDeleter, Creating, Holds, OthersKeep
  <1> QED BY <1>6, <1>7, <1>8, <1>9, <1>10 DEF IInv

LEMMA DeletionBegins ==
    ASSUME IInv, NEW t \in Threads, NEW u \in Uuids, Stores(u) \/ u \in gone, RemoveUUID(t, u)
    PROVE  IInv'
  <1>1. /\ pc[t] = "idle" /\ u \in registry /\ registry' = registry \ {u}
        /\ Begin(t, "delete", u, None)
        /\ UNCHANGED <<docs, blank, kind, named, retyped, gone, touched, crashed>>
    BY DEF RemoveUUID, Idle
  <1>2. /\ pc'[t] = "delete" /\ job'[t] = [uuid |-> u, promo |-> None] /\ OthersKeep(t)
        /\ pc' \in [Threads -> {"idle", "save", "readBack", "undo", "write", "delete"}]
        /\ job' \in [Threads -> [uuid : Uuids \cup {None}, promo : Objects \cup {None}]]
        /\ stale' \subseteq Threads
    BY <1>1, BeginFacts DEF IInv
  <1>3. \A s \in Threads : job[s].uuid = u => pc[s] \notin {"save", "delete"}
    BY <1>1 DEF IInv, ThreadInv, SaveInv
  <1>4. TypeOK'
    BY <1>1, <1>2 DEF IInv, TypeOK
  <1>5. ThreadInv(t)'
    BY <1>1, <1>2 DEF IInv, UuidInv, ThreadInv, HasUuid
  <1>6. ASSUME NEW s \in Threads \ {t} PROVE ThreadInv(s)'
    BY <1>1, <1>2, <1>3
    DEF IInv, ThreadInv, HasUuid, HasObject, SaveInv, ReadBackInv, UndoInv, WriteInv, OthersKeep, Stores
  <1>7. ASSUME NEW v \in Uuids PROVE UuidInv(v)'
    <2>1. \A s \in Threads, l \in {"save", "delete"} : Holds(s, l, v) => Holds(s, l, v)'
      BY <1>1, <1>2 DEF OthersKeep, Holds
    <2>2. Holds(t, "delete", u)'
      BY <1>2 DEF Holds
    <2>3. UuidInv(v)
      BY DEF IInv
    <2> QED BY <1>1, <2>1, <2>2, <2>3 DEF UuidInv, DeletableUuid, RegisteredUuid, Stores
  <1>8. OneCreator' /\ OneDeleter'
    BY <1>1, <1>2, <1>3 DEF IInv, OneCreator, OneDeleter, Creating, Holds, OthersKeep
  <1> QED BY <1>4, <1>5, <1>6, <1>7, <1>8 DEF IInv

LEMMA DeleteKeeps ==
    ASSUME IInv, NEW t \in Threads, Delete(t)
    PROVE  IInv'
  <1> DEFINE u == job[t].uuid
  <1>1. /\ pc[t] = "delete" /\ u \in Uuids /\ kind[u] # None /\ u \notin registry
        /\ docs' = [docs EXCEPT ![u] = None]
        /\ gone' = gone \cup {u}
        /\ stale' \subseteq Threads
        /\ pc' = [pc EXCEPT ![t] = "idle"] /\ job' = [job EXCEPT ![t] = NoJob]
        /\ UNCHANGED <<registry, blank, kind, named, retyped, touched, crashed>>
    BY WorkingFacts DEF Delete, ThreadInv, IInv, TypeOK
  <1>2. /\ pc'[t] = "idle" /\ job'[t] = NoJob /\ OthersKeep(t)
        /\ pc' \in [Threads -> {"idle", "save", "readBack", "undo", "write", "delete"}]
        /\ job' \in [Threads -> [uuid : Uuids \cup {None}, promo : Objects \cup {None}]]
    BY <1>1, EndFacts DEF IInv
  <1>3. /\ docs' \in [Uuids -> Docs \cup {None}] /\ docs'[u] = None
        /\ \A v \in Uuids : v # u => docs'[v] = docs[v]
    BY <1>1 DEF IInv, TypeOK
  <1> HIDE DEF u
  <1>4. TypeOK'
    BY <1>1, <1>2, <1>3 DEF IInv, TypeOK
  <1>5. ThreadInv(t)'
    BY <1>2 DEF ThreadInv
  <1>6. ASSUME NEW s \in Threads \ {t} PROVE ThreadInv(s)'
    <2>1. ThreadInv(s) /\ pc'[s] = pc[s] /\ job'[s] = job[s]
      BY <1>2 DEF IInv, OthersKeep
    <2>2. pc[s] # "idle" => job[s].uuid \in Uuids
      BY <2>1 DEF ThreadInv, HasUuid
    <2>3. pc[s] = "save" => job[s].uuid # u
      BY <1>1, <2>1 DEF ThreadInv, SaveInv
    <2> QED BY <1>1, <1>3, <2>1, <2>2, <2>3
            DEF ThreadInv, HasUuid, HasObject, SaveInv, ReadBackInv, UndoInv, WriteInv, Stores
  <1>7. ASSUME NEW v \in Uuids PROVE UuidInv(v)'
    <2>1. \A s \in Threads : Holds(s, "save", v) => Holds(s, "save", v)'
      BY <1>1, <1>2 DEF OthersKeep, Holds
    <2>2. \A s \in Threads : v # u /\ Holds(s, "delete", v) => Holds(s, "delete", v)'
      BY <1>1, <1>2 DEF OthersKeep, Holds, u
    <2>3. UuidInv(v)
      BY DEF IInv
    <2> QED BY <1>1, <1>3, <2>1, <2>2, <2>3 DEF UuidInv, DeletableUuid, RegisteredUuid, Stores
  <1>8. OneCreator' /\ OneDeleter'
    BY <1>2 DEF IInv, OneCreator, OneDeleter, Creating, Holds, OthersKeep
  <1> QED BY <1>4, <1>5, <1>6, <1>7, <1>8 DEF IInv

LEMMA DeleteNothingKeeps ==
    ASSUME IInv, NEW t \in Threads, DeleteNothing(t)
    PROVE  IInv'
  <1> DEFINE u == job[t].uuid
  <1>1. /\ pc[t] = "delete" /\ (Stores(u) => ~Readable(docs[u])) /\ End(t)
        /\ UNCHANGED <<service, kind, named, retyped, gone, touched, crashed>>
    BY DEF DeleteNothing, Stores
  <1>2. /\ pc'[t] = "idle" /\ job'[t] = NoJob /\ OthersKeep(t)
        /\ pc' \in [Threads -> {"idle", "save", "readBack", "undo", "write", "delete"}]
        /\ job' \in [Threads -> [uuid : Uuids \cup {None}, promo : Objects \cup {None}]]
    BY <1>1, EndFacts DEF End, IInv
  <1>3. Stores(u) => u \in retyped
    BY <1>1, WorkingFacts DEF IInv, UuidInv
  <1>4. ThreadInv(t)'
    BY <1>2 DEF ThreadInv
  <1> QED BY <1>1, <1>2, <1>3, <1>4, QuietStep DEF End, IInv, TypeOK, service

LEMMA CrashKeeps ==
    ASSUME IInv, Crash
    PROVE  IInv'
  <1>1. /\ pc' = [t \in Threads |-> "idle"] /\ job' = [t \in Threads |-> NoJob]
        /\ stale' = {} /\ crashed' = TRUE
        /\ UNCHANGED <<service, kind, named, retyped, gone, touched>>
    BY DEF Crash
  <1>2. TypeOK'
    BY <1>1 DEF IInv, TypeOK, NoJob, service
  <1>3. \A t \in Threads : ThreadInv(t)'
    BY <1>1 DEF ThreadInv
  <1>4. \A u \in Uuids : UuidInv(u)'
    BY <1>1 DEF IInv, UuidInv, DeletableUuid, RegisteredUuid, Stores, service
  <1>5. OneCreator' /\ OneDeleter'
    BY <1>1 DEF OneCreator, OneDeleter, Creating, Holds
  <1> QED BY <1>2, <1>3, <1>4, <1>5 DEF IInv

-----------------------------------------------------------------------------
(***************************************************************************)
(* The theorems.                                                           *)
(***************************************************************************)
LEMMA InitHolds == Init => IInv
  <1> SUFFICES ASSUME Init PROVE IInv
    OBVIOUS
  <1>1. TypeOK
    BY DEF Init, TypeOK, NoJob
  <1>2. \A t \in Threads : ThreadInv(t)
    BY DEF Init, ThreadInv
  <1>3. \A u \in Uuids : UuidInv(u)
    BY DEF Init, UuidInv, DeletableUuid, RegisteredUuid, Stores
  <1>4. OneCreator /\ OneDeleter
    BY DEF Init, OneCreator, OneDeleter, Creating, Holds
  <1> QED BY <1>1, <1>2, <1>3, <1>4 DEF IInv

LEMMA RequestKeeps == ASSUME IInv, NEW t \in Threads, Request(t) PROVE IInv'
  <1>1. CASE \E u \in Uuids, k \in Kinds, b \in Businesses,
               from \in InputDates, to \in InputDates \cup {None}, overRest \in BOOLEAN :
                (to = None => overRest) /\ CreateUUID(t, u, k, b, from, to, overRest)
    BY <1>1, CreateUUIDKeeps
  <1>2. CASE \E u \in Uuids, activated \in BOOLEAN : ReadActive(t, u, activated)
    BY <1>2, ReadActiveKeeps
  <1>3. CASE \E u \in Uuids, p \in Bodies : Update(t, u, p)
    BY <1>3, UpdateKeeps
  <1>4. CASE \E u \in Uuids : (docs[u] # None \/ u \in gone) /\ RemoveUUID(t, u)
    BY <1>4, DeletionBegins DEF Stores
  <1> QED BY <1>1, <1>2, <1>3, <1>4 DEF Request

LEMMA WorkKeeps == ASSUME IInv, NEW t \in Threads, Work(t) PROVE IInv'
  BY SaveKeeps, SaveBlankKeeps, SaveThrowsKeeps, ReadBackKeeps, ReadBackNothingKeeps, UndoKeeps,
     WriteActiveKeeps, DeleteKeeps, DeleteNothingKeeps DEF Work

LEMMA StutterKeeps == ASSUME IInv, UNCHANGED vars PROVE IInv'
  BY DEF IInv, TypeOK, ThreadInv, HasUuid, HasObject, SaveInv, ReadBackInv, UndoInv, WriteInv,
         UuidInv, DeletableUuid, RegisteredUuid, OneCreator, OneDeleter, Creating, Holds, Stores,
         vars, service, locals, history

LEMMA NextKeeps == IInv /\ [Next]_vars => IInv'
  <1> SUFFICES ASSUME IInv, [Next]_vars PROVE IInv'
    OBVIOUS
  <1>1. CASE \E t \in Threads : Request(t) \/ Work(t)
    BY <1>1, RequestKeeps, WorkKeeps
  <1>2. CASE Crash
    BY <1>2, CrashKeeps
  <1>3. CASE UNCHANGED vars
    BY <1>3, StutterKeeps
  <1> QED BY <1>1, <1>2, <1>3 DEF Next, Quiet

LEMMA InductiveInvariant == Spec => []IInv
  BY InitHolds, NextKeeps, PTL DEF Spec

\* Every promotion, request and history variable keeps its type: the two
\* conversions never produce an object or a document of another form.
THEOREM PromotionTypes == Spec => []TypeOK
  <1>1. IInv => TypeOK
    BY DEF IInv
  <1> QED BY <1>1, InductiveInvariant, PTL

\* A deleted promotion is never stored again (updateActivate's late write of
\* what it read before the deletion finds nothing to write to).
THEOREM PromotionsStayDeleted == Spec => []DeletionIsFinal
  <1>1. IInv => DeletionIsFinal
    BY DEF IInv, TypeOK, UuidInv, DeletionIsFinal
  <1> QED BY <1>1, InductiveInvariant, PTL

\* removeUUID lets one request at a time go on to delete a promotion.
THEOREM DeletionElectsOne == Spec => []OneDeleter
  <1>1. IInv => OneDeleter
    BY DEF IInv
  <1> QED BY <1>1, InductiveInvariant, PTL

\* A stored promotion has its uuid registered, unless it is being deleted, the
\* server crashed, it was written between save and read-back, or an update gave
\* it a type with which deletePromotion cannot read it.
THEOREM PromotionsAreDeletable == Spec => []Deletable
  <1>1. IInv => Deletable
    BY DEF IInv, UuidInv, DeletableUuid, Deletable
  <1> QED BY <1>1, InductiveInvariant, PTL

\* A registered uuid without promotion is explained by a crash, a request at work
\* or the kind of creation it was drawn for: a 3X2, or one that createPromotion
\* ends in an exception, over its type, a date or its price, after createUUID.
THEOREM RegisteredUuidsAreUsed == Spec => []LeaksExplained
  <1>1. IInv => LeaksExplained
    BY DEF IInv, TypeOK, UuidInv, RegisteredUuid, LeaksExplained, Holds
  <1> QED BY <1>1, InductiveInvariant, PTL

\* A promotion without a nation is of a business that its creation or an update
\* named, whatever stale businesses activations write back.
THEOREM PromotionsKeepTheirBusiness == Spec => []BusinessKept
  <1>1. IInv => BusinessKept
    BY DEF IInv, UuidInv, BusinessKept
  <1> QED BY <1>1, InductiveInvariant, PTL

-----------------------------------------------------------------------------
(***************************************************************************)
(* Orphans: no request on a stored promotion without registered uuid gets  *)
(* further than removeUUID.                                                *)
(***************************************************************************)
\* A step that neither removes u's document nor registers u, nor starts a
\* deletion of it.
LEMMA OrphanFrame ==
    ASSUME NEW u \in Uuids, Orphan(u), Stores(u)', u \notin registry',
           \A t \in Threads : Holds(t, "delete", u)' => Holds(t, "delete", u)
    PROVE  Orphan(u)'
  BY DEF Orphan

LEMMA OrphanRequest ==
    ASSUME IInv, NEW u \in Uuids, Orphan(u), NEW t \in Threads, Request(t)
    PROVE  Orphan(u)'
  <1>1. Stores(u) /\ u \notin registry /\ kind[u] # None /\ docs[u] \in Docs
    BY DEF Orphan, IInv, UuidInv, TypeOK, Stores
  <1>2. /\ pc \in [Threads -> {"idle", "save", "readBack", "undo", "write", "delete"}]
        /\ job \in [Threads -> [uuid : Uuids \cup {None}, promo : Objects \cup {None}]]
        /\ docs \in [Uuids -> Docs \cup {None}]
    BY DEF IInv, TypeOK
  <1>3. ASSUME NEW v \in Uuids, NEW k \in Kinds, NEW b \in Businesses, NEW from \in InputDates,
               NEW to \in InputDates \cup {None}, NEW overRest \in BOOLEAN,
               CreateUUID(t, v, k, b, from, to, overRest)
        PROVE  Orphan(u)'
    BY <1>1, <1>2, <1>3, OrphanFrame DEF CreateUUID, Begin, Holds, Stores
  <1>4. ASSUME NEW v \in Uuids, NEW a \in BOOLEAN, ReadActive(t, v, a) PROVE Orphan(u)'
    BY <1>1, <1>2, <1>4, OrphanFrame DEF ReadActive, Begin, Holds, Stores, service
  <1>5. ASSUME NEW v \in Uuids, NEW p \in Bodies, Update(t, v, p) PROVE Orphan(u)'
    <2>1. Overlay(docs[u], p) \in Docs
      BY <1>1, OverlayType, BodiesAssumption
    <2>2. Write(v, p) /\ UNCHANGED <<registry, locals>>
      BY <1>5 DEF Update
    <2>3. Stores(u)'
      BY <1>1, <1>2, <2>1, <2>2 DEF Write, Stores
    <2> QED BY <1>1, <2>2, <2>3, OrphanFrame DEF locals, Holds
  <1>6. ASSUME NEW v \in Uuids, RemoveUUID(t, v) PROVE Orphan(u)'
    BY <1>1, <1>2, <1>6, OrphanFrame DEF RemoveUUID, Begin, Holds, Stores
  <1> QED BY <1>3, <1>4, <1>5, <1>6 DEF Request

LEMMA OrphanWork ==
    ASSUME IInv, NEW u \in Uuids, Orphan(u), NEW t \in Threads, Work(t)
    PROVE  Orphan(u)'
  <1>1. Stores(u) /\ u \notin registry /\ docs[u] \in Docs
    BY DEF Orphan, IInv, TypeOK, Stores
  <1>2. /\ pc \in [Threads -> {"idle", "save", "readBack", "undo", "write", "delete"}]
        /\ job \in [Threads -> [uuid : Uuids \cup {None}, promo : Objects \cup {None}]]
        /\ docs \in [Uuids -> Docs \cup {None}]
    BY DEF IInv, TypeOK
  <1>3. CASE Save(t)
    <2>1. ThreadInv(t) /\ pc[t] = "save"
      BY <1>3 DEF Save, IInv
    <2>2. job[t].uuid # u
      BY <1>1, <2>1 DEF ThreadInv, SaveInv
    <2> QED BY <1>1, <1>2, <1>3, <2>2, OrphanFrame DEF Save, Holds, Stores
  <1>4. CASE ReadBack(t) \/ ReadBackBlank(t) \/ SaveThrows(t) \/ SaveBlank(t)
    BY <1>1, <1>2, <1>4, OrphanFrame
    DEF ReadBack, ReadBackBlank, SaveThrows, SaveBlank, End, Holds, Stores, service
  <1>5. CASE ReadBackNothing(t)
    BY <1>1, <1>2, <1>5, OrphanFrame DEF ReadBackNothing, Holds, Stores, service
  <1>6. CASE Undo(t)
    BY <1>1, <1>2, <1>6, OrphanFrame DEF Undo, End, Holds, Stores
  <1>7. CASE WriteActive(t)
    <2> DEFINE p == job[t].promo
    <2>1. p \in Objects
      BY <1>7 DEF WriteActive, IInv, ThreadInv, HasObject
    <2>2. Overlay(docs[u], p) \in Docs
      BY <1>1, <2>1, OverlayType
    <2>3. Write(job[t].uuid, p)
      BY <1>7 DEF WriteActive
    <2> HIDE DEF p
    <2>4. Stores(u)'
      BY <1>1, <1>2, <2>2, <2>3 DEF Write, Stores
    <2> QED BY <1>1, <1>2, <1>7, <2>4, OrphanFrame DEF WriteActive, Holds
  <1>8. CASE Delete(t) \/ DeleteNothing(t)
    <2>1. job[t].uuid # u
      BY <1>8 DEF Delete, DeleteNothing, Orphan, Holds
    <2> QED BY <1>1, <1>2, <1>8, <2>1, OrphanFrame DEF Delete, DeleteNothing, End, Holds, Stores, service
  <1> QED BY <1>3, <1>4, <1>5, <1>6, <1>7, <1>8 DEF Work

\* Once a promotion is stored without its uuid registered and nobody is about
\* to delete it, it stays: deletePromotion asks the registry first.
THEOREM OrphansStay == Spec => OrphansAreForever
  <1>1. IInv /\ [Next]_vars => [\A u \in Uuids : Orphan(u) => Orphan(u)']_vars
    <2> SUFFICES ASSUME IInv, Next, NEW u \in Uuids, Orphan(u) PROVE Orphan(u)'
      OBVIOUS
    <2>1. CASE \E t \in Threads : Request(t) \/ Work(t)
      BY <2>1, OrphanRequest, OrphanWork
    <2>2. CASE Crash
      BY <2>2, OrphanFrame DEF Crash, Orphan, Stores, Holds, service
    <2>3. CASE Quiet
      BY <2>3 DEF Quiet, vars, service, locals, Orphan, Stores, Holds
    <2> QED BY <2>1, <2>2, <2>3 DEF Next
  <1> QED BY <1>1, InductiveInvariant, PTL DEF Spec, OrphansAreForever

-----------------------------------------------------------------------------
(***************************************************************************)
(* Activations.  One that nobody interferes with holds what setByMap makes *)
(* of the document as it is stored now: whoever writes or deletes the      *)
(* document in between makes it stale.                                     *)
(***************************************************************************)
MadeFrom(p, d) == \E a \in BOOLEAN : p = [SetByMap(d) EXCEPT !.active = a]

Informed(t) ==
    pc[t] = "write" /\ t \notin stale /\ Stores(job[t].uuid) =>
        MadeFrom(job[t].promo, docs[job[t].uuid])

\* A step that leaves the activation alone, and the document unless it tells.
LEMMA StaysInformed ==
    ASSUME NEW s \in Threads, Informed(s),
           pc'[s] = "write" =>
               /\ pc[s] = "write" /\ job'[s] = job[s]
               /\ s \in stale => s \in stale'
               /\ docs'[job[s].uuid] = docs[job[s].uuid] \/ s \in stale'
    PROVE  Informed(s)'
  BY DEF Informed, Stores

LEMMA RequestInforms ==
    ASSUME IInv, NEW s \in Threads, Informed(s), NEW t \in Threads, Request(t)
    PROVE  Informed(s)'
  <1>1. /\ pc \in [Threads -> {"idle", "save", "readBack", "undo", "write", "delete"}]
        /\ job \in [Threads -> [uuid : Uuids \cup {None}, promo : Objects \cup {None}]]
        /\ docs \in [Uuids -> Docs \cup {None}] /\ stale \subseteq Threads
    BY DEF IInv, TypeOK
  <1>2. ASSUME NEW u \in Uuids, NEW k \in Kinds, NEW b \in Businesses, NEW from \in InputDates,
               NEW to \in InputDates \cup {None}, NEW overRest \in BOOLEAN,
               CreateUUID(t, u, k, b, from, to, overRest)
        PROVE  Informed(s)'
    BY <1>1, <1>2, StaysInformed DEF CreateUUID, Begin
  <1>3. ASSUME NEW u \in Uuids, NEW a \in BOOLEAN, ReadActive(t, u, a) PROVE Informed(s)'
    <2>1. /\ Begin(t, "write", u, [SetByMap(docs[u]) EXCEPT !.active = a])
          /\ docs' = docs
      BY <1>3 DEF ReadActive, service
    <2>2. CASE s = t
      <3>1. /\ job'[s].uuid = u
            /\ job'[s].promo = [SetByMap(docs[u]) EXCEPT !.active = a]
        BY <1>1, <2>1, <2>2 DEF Begin
      <3>2. MadeFrom(job'[s].promo, docs[u])
        BY <3>1 DEF MadeFrom
      <3> QED BY <2>1, <3>1, <3>2 DEF Informed
    <2>3. CASE s # t
      BY <1>1, <2>1, <2>3, StaysInformed DEF Begin
    <2> QED BY <2>2, <2>3
  <1>4. ASSUME NEW u \in Uuids, NEW p \in Bodies, Update(t, u, p) PROVE Informed(s)'
    <2>1. /\ pc' = pc /\ job' = job /\ pc[t] = "idle"
          /\ stale' = (stale \cup {r \in Threads : pc[r] = "write" /\ job[r].uuid = u}) \ {t}
          /\ \A v \in Uuids \ {u} : docs'[v] = docs[v]
      BY <1>1, <1>4 DEF Update, Idle, Wrote, Write, locals
    <2>2. pc[s] = "write" => job[s].uuid \in Uuids /\ s # t
      BY <2>1 DEF IInv, ThreadInv, HasUuid
    <2> QED BY <2>1, <2>2, StaysInformed
  <1>5. ASSUME NEW u \in Uuids, RemoveUUID(t, u) PROVE Informed(s)'
    BY <1>1, <1>5, StaysInformed DEF RemoveUUID, Begin
  <1> QED BY <1>2, <1>3, <1>4, <1>5 DEF Request

LEMMA WorkInforms ==
    ASSUME IInv, NEW s \in Threads, Informed(s), NEW t \in Threads, Work(t)
    PROVE  Informed(s)'
  <1>1. /\ pc \in [Threads -> {"idle", "save", "readBack", "undo", "write", "delete"}]
        /\ job \in [Threads -> [uuid : Uuids \cup {None}, promo : Objects \cup {None}]]
        /\ docs \in [Uuids -> Docs \cup {None}] /\ stale \subseteq Threads
    BY DEF IInv, TypeOK
  <1>2. /\ ThreadInv(s) /\ ThreadInv(t)
        /\ pc[s] = "write" => job[s].uuid \in Uuids
    BY DEF IInv, ThreadInv, HasUuid
  \* A creation saves what no activation can have read.
  <1>3. CASE Save(t)
    <2>1. pc[s] = "write" => job[s].uuid # job[t].uuid
      BY <1>2, <1>3 DEF Save, ThreadInv, SaveInv, WriteInv
    <2>2. /\ pc'[s] = "write" => pc[s] = "write" /\ job'[s] = job[s] /\ s # t
          /\ stale' = stale
          /\ \A v \in Uuids \ {job[t].uuid} : docs'[v] = docs[v]
      BY <1>1, <1>3 DEF Save, history
    <2> QED BY <1>2, <2>1, <2>2, StaysInformed
  <1>4. CASE \/ SaveThrows(t) \/ SaveBlank(t) \/ ReadBack(t) \/ ReadBackBlank(t)
             \/ ReadBackNothing(t) \/ Undo(t) \/ DeleteNothing(t)
    <2>1. docs' = docs
      BY <1>4 DEF SaveThrows, SaveBlank, ReadBack, ReadBackBlank, ReadBackNothing, Undo,
                  DeleteNothing, service
    <2>2. /\ pc'[s] = "write" => pc[s] = "write" /\ job'[s] = job[s] /\ s # t
          /\ stale' = stale \/ stale' = stale \ {t}
      BY <1>1, <1>4 DEF SaveThrows, SaveBlank, ReadBack, ReadBackBlank, ReadBackNothing, Undo,
                        DeleteNothing, End, history
    <2> QED BY <2>1, <2>2, StaysInformed
  <1>5. CASE WriteActive(t) \/ Delete(t)
    <2> DEFINE u == job[t].uuid
    <2>1. /\ pc'[s] = "write" => pc[s] = "write" /\ job'[s] = job[s] /\ s # t
          /\ stale' = (stale \cup {r \in Threads : pc[r] = "write" /\ job[r].uuid = u}) \ {t}
          /\ \A v \in Uuids \ {u} : docs'[v] = docs[v]
      <3>1. CASE WriteActive(t)
        BY <1>1, <3>1 DEF WriteActive, Wrote, Write
      <3>2. CASE Delete(t)
        BY <1>1, <3>2 DEF Delete
      <3> QED BY <1>5, <3>1, <3>2
    <2> HIDE DEF u
    <2> QED BY <1>2, <2>1, StaysInformed
  <1> QED BY <1>3, <1>4, <1>5 DEF Work

LEMMA ActivationsAreInformed == Spec => [](\A t \in Threads : Informed(t))
  <1> DEFINE AllInformed == \A t \in Threads : Informed(t)
  <1>1. Init => AllInformed
    BY DEF Init, Informed
  <1>2. IInv /\ AllInformed /\ [Next]_vars => AllInformed'
    <2> SUFFICES ASSUME IInv, [Next]_vars, NEW s \in Threads, Informed(s) PROVE Informed(s)'
      OBVIOUS
    <2>1. CASE \E t \in Threads : Request(t) \/ Work(t)
      BY <2>1, RequestInforms, WorkInforms
    <2>2. CASE Crash
      BY <2>2, StaysInformed DEF Crash
    <2>3. CASE UNCHANGED vars
      BY <2>3, StaysInformed DEF vars, service, locals, history
    <2> QED BY <2>1, <2>2, <2>3 DEF Next, Quiet
  <1> HIDE DEF AllInformed
  <1>3. Spec => []AllInformed
    BY <1>1, <1>2, InductiveInvariant, PTL DEF Spec
  <1> QED BY <1>3 DEF AllInformed

\* What reading a document into an object and $set-ting the object back does.
LEMMA Roundtrip ==
    ASSUME NEW d \in Docs, NEW p \in Objects, MadeFrom(p, d)
    PROVE  LET e == Overlay(d, p) IN
           /\ e.active = p.active /\ e.type = d.type /\ e.nation = d.nation
           /\ e.business = OrElse(d.nation, d.business)
           /\ d.to = None <=> e.to = None
           /\ d.to # None => Same(d.to.at, e.to.at)
           /\ IF d.to # None /\ d.to.as = "date"
              THEN e.from.at = d.to.at ELSE Same(d.from.at, e.from.at)
  <1> DEFINE e == Overlay(d, p)
  <1>1. PICK a \in BOOLEAN : p = [SetByMap(d) EXCEPT !.active = a]
    BY DEF MadeFrom
  <1>2. /\ p.active \in BOOLEAN /\ p.nation = None /\ p.business # None
        /\ d.from \in Stored /\ d.to \in Stored \cup {None}
    BY DEF Objects, Docs
  <1>3. /\ d.from.at \in Dates /\ DateOf(d.from) \in Dates /\ Same(d.from.at, DateOf(d.from))
        /\ d.to # None => d.to.at \in Dates /\ DateOf(d.to) \in Dates /\ Same(d.to.at, DateOf(d.to))
    BY <1>2, RereadType DEF Stored, DateOf, Same
  <1>4. \A x \in Dates : x # None
    BY RereadType
  <1>5. p.type = d.type /\ p.business = OrElse(d.nation, d.business)
    BY <1>1 DEF SetByMap, OrElse
  <1>6. /\ e.active = p.active /\ e.type = d.type /\ e.nation = d.nation
        /\ e.business = OrElse(d.nation, d.business)
    BY <1>2, <1>5 DEF Overlay, OrElse
  <1>7. CASE d.to # None /\ d.to.as = "date"
    <2>1. p.from = d.to.at /\ p.to = None
      BY <1>1, <1>7 DEF SetByMap
    <2>2. e.from = [as |-> "date", at |-> d.to.at] /\ e.to = d.to
      BY <1>3, <1>4, <1>7, <2>1 DEF Overlay, AsDate
    <2> HIDE DEF e
    <2> QED BY <1>6, <1>7, <2>2 DEF Same, e
  <1>8. CASE ~(d.to # None /\ d.to.as = "date")
    <2>1. p.from = DateOf(d.from) /\ p.to = IF d.to = None THEN None ELSE DateOf(d.to)
      BY <1>1, <1>8 DEF SetByMap
    <2>2. /\ e.from = [as |-> "date", at |-> DateOf(d.from)]
          /\ e.to = IF d.to = None THEN None ELSE [as |-> "date", at |-> DateOf(d.to)]
      BY <1>3, <1>4, <2>1 DEF Overlay, AsDate
    <2>3. d.to # None => e.to # None
      BY <1>3, <2>2 DEF Stored
    <2> HIDE DEF e
    <2> QED BY <1>3, <1>6, <1>8, <2>2, <2>3 DEF e
  <1> QED BY <1>7, <1>8

\* updateActive, when nobody writes between its read and its write, sets active
\* and keeps the rest of the promotion, dates up to what their 12-hour text does
\* to the hour, but for two things setByMap does: an end written by an update is
\* taken for the begin, and a nation stored for the business.
THEOREM QuietActivationsAreHarmless == Spec => QuietActivation
  <1> DEFINE Harmless(t) ==
          WriteActive(t) /\ t \notin stale /\ docs[job[t].uuid] # None =>
              LET d == docs[job[t].uuid]
                  e == docs'[job[t].uuid]
              IN /\ e.active = job[t].promo.active /\ e.type = d.type /\ e.nation = d.nation
                 /\ e.business = OrElse(d.nation, d.business)
                 /\ d.to = None <=> e.to = None
                 /\ d.to # None => Same(d.to.at, e.to.at)
                 /\ IF d.to # None /\ d.to.as = "date"
                    THEN e.from.at = d.to.at ELSE Same(d.from.at, e.from.at)
             AllInformed == \A t \in Threads : Informed(t)
  <1>1. ASSUME IInv, NEW t \in Threads, Informed(t) PROVE Harmless(t)
    <2> SUFFICES ASSUME WriteActive(t), t \notin stale, docs[job[t].uuid] # None
                 PROVE  Harmless(t)
      OBVIOUS
    <2> DEFINE u == job[t].uuid
               p == job[t].promo
    <2>1. u \in Uuids /\ p \in Objects /\ docs[u] \in Docs /\ docs \in [Uuids -> Docs \cup {None}]
      <3>1. ThreadInv(t) /\ pc[t] = "write" /\ docs \in [Uuids -> Docs \cup {None}]
        BY <1>1 DEF IInv, TypeOK, WriteActive
      <3>2. u \in Uuids /\ p \in Objects
        BY <3>1 DEF ThreadInv, HasUuid, HasObject
      <3>3. docs[u] # None
        OBVIOUS
      <3> HIDE DEF u
      <3> QED BY <3>1, <3>2, <3>3
    <2>2. MadeFrom(p, docs[u])
      BY <1>1 DEF Informed, WriteActive, Stores
    <2>3. docs' = [docs EXCEPT ![u] = Overlay(docs[u], p)]
      BY DEF WriteActive, Write
    <2>4. docs'[u] = Overlay(docs[u], p)
      BY <2>1, <2>3
    <2> HIDE DEF u, p
    <2>5. LET e == Overlay(docs[u], p) IN
          /\ e.active = p.active /\ e.type = docs[u].type /\ e.nation = docs[u].nation
          /\ e.business = OrElse(docs[u].nation, docs[u].business)
          /\ docs[u].to = None <=> e.to = None
          /\ docs[u].to # None => Same(docs[u].to.at, e.to.at)
          /\ IF docs[u].to # None /\ docs[u].to.as = "date"
             THEN e.from.at = docs[u].to.at ELSE Same(docs[u].from.at, e.from.at)
      BY <2>1, <2>2, Roundtrip
    <2> QED BY <2>4, <2>5 DEF u, p
  <1>2. IInv /\ AllInformed /\ [Next]_vars => [\A t \in Threads : Harmless(t)]_vars
    BY <1>1
  <1> HIDE DEF AllInformed
  <1>3. Spec => []AllInformed
    BY ActivationsAreInformed DEF AllInformed
  <1> QED BY <1>2, <1>3, InductiveInvariant, PTL DEF Spec, QuietActivation
=============================================================================

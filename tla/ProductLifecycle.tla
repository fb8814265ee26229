------------------------- MODULE ProductLifecycle -------------------------
(***************************************************************************)
(* The products of businesses: ProductServiceImpl, ProductPersistenceImpl  *)
(* and the resource that takes pictures.  createProduct upserts with an    *)
(* EMPTY query: it overwrites a product whenever there is one.  A step is  *)
(* one database call, or one call of a service with a database of its own. *)
(***************************************************************************)
EXTENDS Naturals, Sequences, FiniteSets

CONSTANTS
    Threads,   \* clients, each with one request (or form) at a time
    Codes,     \* what tells two versions of a product apart
    MaxUuids,  \* bound on the uuids drawn, for products and pictures
    MayCrash   \* TRUE if the server may crash and restart

ASSUME ThreadsAssumption == IsFiniteSet(Threads)
ASSUME BoundAssumption == MaxUuids \in Nat
ASSUME CrashAssumption == MayCrash \in BOOLEAN

None  == 0
Uuids == 1 .. MaxUuids

Products == [uuid : Uuids, code : Codes, pictures : SUBSET Uuids]

VARIABLES
    drawn,       \* uuids are drawn in sequence: 1 .. drawn
    registry,    \* uuids registered
    products,    \* the collection, in natural order; the service deletes nothing
    monitor,     \* the thread inside updateProduct, or "free"
    pc, job,     \* per thread: where it stands; the Product, the picture in hand
    \* history
    overwritten, \* uuids a creation has written another uuid over
    edited,      \* products updated before their creator had read them back
    attached,    \* <<picture, product>> of the pictures added
    outdated     \* pictures taken away by a form that had been read before them

vars == <<drawn, registry, products, monitor, pc, job,
          overwritten, edited, attached, outdated>>

NoJob == [uuid |-> None, code |-> None, pictures |-> {}, picture |-> None]

Init ==
    /\ drawn = 0 /\ registry = {} /\ products = <<>> /\ monitor = "free"
    /\ pc = [t \in Threads |-> "idle"] /\ job = [t \in Threads |-> NoJob]
    /\ overwritten = {} /\ edited = {} /\ attached = {} /\ outdated = {}

Goto(t, label) == pc' = [pc EXCEPT ![t] = label]

End(t) == Goto(t, "idle") /\ job' = [job EXCEPT ![t] = NoJob]

Begin(t, label, j) ==
    /\ pc[t] = "idle"
    /\ Goto(t, label)
    /\ job' = [job EXCEPT ![t] = j]

createUUID ==
    /\ drawn < MaxUuids
    /\ drawn' = drawn + 1
    /\ registry' = registry \cup {drawn'}

\* Where the collection has the product with this uuid.
At(u) == {i \in DOMAIN products : products[i].uuid = u}

-----------------------------------------------------------------------------
(***************************************************************************)
(* createProduct: the uuid drawn replaces the client's, nothing is found   *)
(* by it (part of the next step), and the upsert follows.                  *)
(***************************************************************************)
CreateUUID(t, c) ==
    /\ createUUID
    /\ Begin(t, "upsert", [NoJob EXCEPT !.uuid = drawn + 1, !.code = c])
    /\ UNCHANGED <<products, monitor, overwritten, edited, attached, outdated>>

\* $set writes what the product has; pictures it has none, so those found stay.
Upsert(t, i) ==
    /\ pc[t] = "upsert" /\ i \in DOMAIN products
    /\ products' = [products EXCEPT ![i].uuid = job[t].uuid, ![i].code = job[t].code]
    /\ overwritten' = overwritten \cup {products[i].uuid}
    /\ Goto(t, "readBack")
    /\ UNCHANGED <<drawn, registry, monitor, job, edited, attached, outdated>>

\* Mutant: the query of the upsert names the uuid.
UpsertFindsNoUuid(t) ==
    /\ pc[t] = "upsert" /\ At(job[t].uuid) = {}
    /\ Goto(t, "insert")
    /\ UNCHANGED <<drawn, registry, products, monitor, job, overwritten, edited, attached, outdated>>

\* Without a unique index the search of an upsert and its insertion are two
\* steps: two upserts that both find nothing both insert.
UpsertFindsNone(t) ==
    /\ pc[t] = "upsert" /\ products = <<>>
    /\ Goto(t, "insert")
    /\ UNCHANGED <<drawn, registry, products, monitor, job,
                   overwritten, edited, attached, outdated>>

Insert(t) ==
    /\ pc[t] = "insert"
    /\ products' = Append(products, [uuid |-> job[t].uuid, code |-> job[t].code, pictures |-> {}])
    /\ Goto(t, "readBack")
    /\ UNCHANGED <<drawn, registry, monitor, job,
                   overwritten, edited, attached, outdated>>

\* Mutant: the document has to be the one written, pictures included.
FoundAsWritten(t) ==
    \E i \in At(job[t].uuid) : products[i].code = job[t].code /\ products[i].pictures = {}

\* findOne with all that was written.
FoundAgain(t) == \E i \in At(job[t].uuid) : products[i].code = job[t].code

ReadBack(t) ==
    /\ pc[t] = "readBack"
    /\ IF FoundAgain(t) THEN End(t) ELSE Goto(t, "undo") /\ UNCHANGED job
    /\ UNCHANGED <<drawn, registry, products, monitor, overwritten, edited, attached, outdated>>

\* Not created: removeUUID, whatever became of the product.
Undo(t) ==
    /\ pc[t] = "undo"
    /\ registry' = registry \ {job[t].uuid}
    /\ End(t)
    /\ UNCHANGED <<drawn, products, monitor, overwritten, edited, attached, outdated>>

-----------------------------------------------------------------------------
(***************************************************************************)
(* updateProduct: a client posts the whole of a product it has read before,*)
(* the server sets the whole of it.  (deleteProduct does nothing.)         *)
(***************************************************************************)
\* toProduct takes all of a document; the client changes what it likes.
FormOf(p, c) == [uuid |-> p.uuid, code |-> c, pictures |-> p.pictures, picture |-> None]

\* retrieveProducts, and what the client makes of one.
ReadForm(t, i, c) ==
    /\ i \in DOMAIN products
    /\ Begin(t, "form", FormOf(products[i], c))
    /\ UNCHANGED <<drawn, registry, products, monitor, overwritten, edited, attached, outdated>>

\* The monitor, and one match for the uuid; without it answer 610.
Enter(t) ==
    /\ pc[t] = "form" /\ monitor = "free"
    /\ IF At(job[t].uuid) # {}
       THEN monitor' = t /\ Goto(t, "set") /\ UNCHANGED job
       ELSE End(t) /\ UNCHANGED monitor
    /\ UNCHANGED <<drawn, registry, products, overwritten, edited, attached, outdated>>

\* Mutant: the product is replaced, not set.
WrittenWhole(p, form) ==
    [uuid |-> form.uuid, code |-> form.code, pictures |-> form.pictures]

\* A list of pictures that is null, as it is until the first one, is not set.
Written(p, form) ==
    [uuid |-> form.uuid, code |-> form.code,
     pictures |-> IF form.pictures = {} THEN p.pictures ELSE form.pictures]

\* The uuid may be overwritten by now: $set then matches nothing.
Set(t) ==
    /\ pc[t] = "set"
    /\ products' = [i \in DOMAIN products |->
            IF i \in At(job[t].uuid) THEN Written(products[i], job[t]) ELSE products[i]]
    /\ edited' = IF \E s \in Threads : pc[s] = "readBack" /\ job[s].uuid = job[t].uuid
                 THEN edited \cup {job[t].uuid} ELSE edited
    /\ outdated' = IF job[t].pictures = {} THEN outdated
                   ELSE outdated \cup UNION {products[i].pictures \ job[t].pictures : i \in At(job[t].uuid)}
    /\ Goto(t, "confirm")
    /\ UNCHANGED <<drawn, registry, monitor, job, overwritten, attached>>

\* The product is read again; not found is an exception.  Both leave the monitor.
Confirm(t) ==
    /\ pc[t] = "confirm"
    /\ monitor' = "free"
    /\ End(t)
    /\ UNCHANGED <<drawn, registry, products, overwritten, edited, attached, outdated>>

-----------------------------------------------------------------------------
(***************************************************************************)
(* putPicture: a uuid for the bucket, the upload, and $addToSet.           *)
(***************************************************************************)
PutPicture(t, i) ==
    /\ i \in DOMAIN products
    /\ createUUID
    /\ Begin(t, "upload", [NoJob EXCEPT !.uuid = products[i].uuid, !.picture = drawn + 1])
    /\ UNCHANGED <<products, monitor, overwritten, edited, attached, outdated>>

Upload(t) ==
    /\ pc[t] = "upload"
    /\ Goto(t, "addPicture")
    /\ UNCHANGED <<drawn, registry, products, monitor, job,
                   overwritten, edited, attached, outdated>>

\* createBucket answers false or throws; the uuid stays registered.
UploadFails(t) ==
    /\ pc[t] = "upload"
    /\ End(t)
    /\ UNCHANGED <<drawn, registry, products, monitor, overwritten, edited, attached, outdated>>

AddPicture(t) ==
    /\ pc[t] = "addPicture"
    /\ LET u == job[t].uuid
           p == job[t].picture
       IN IF At(u) # {}
          THEN /\ products' = [i \in DOMAIN products |->
                    IF i \in At(u) THEN [products[i] EXCEPT !.pictures = @ \cup {p}] ELSE products[i]]
               /\ attached' = attached \cup {<<p, u>>}
          ELSE UNCHANGED <<products, attached>>
    /\ End(t)
    /\ UNCHANGED <<drawn, registry, monitor, overwritten, edited, outdated>>

-----------------------------------------------------------------------------
\* A restart ends every request; forms are the clients' and stay open.
Crash ==
    /\ MayCrash
    /\ LET struck == {t \in Threads : pc[t] \notin {"idle", "form"}} IN
        /\ struck # {}
        /\ pc'  = [t \in Threads |-> IF t \in struck THEN "idle" ELSE pc[t]]
        /\ job' = [t \in Threads |-> IF t \in struck THEN NoJob ELSE job[t]]
    /\ monitor' = "free"
    /\ UNCHANGED <<drawn, registry, products, overwritten, edited, attached, outdated>>

Request(t) ==
    \/ \E c \in Codes : CreateUUID(t, c)
    \/ \E i \in DOMAIN products, c \in Codes : ReadForm(t, i, c)
    \/ \E i \in DOMAIN products : PutPicture(t, i)

Work(t) ==
    \/ \E i \in DOMAIN products : Upsert(t, i)
    \/ UpsertFindsNone(t)
    \/ Insert(t)
    \/ ReadBack(t)
    \/ Undo(t)
    \/ Enter(t)
    \/ Set(t)
    \/ Confirm(t)
    \/ Upload(t)
    \/ UploadFails(t)
    \/ AddPicture(t)

\* Every uuid is drawn and no request in progress: a deadlock is a stuck request.
Quiet == (\A t \in Threads : pc[t] = "idle") /\ UNCHANGED vars

Next == (\E t \in Threads : Request(t) \/ Work(t)) \/ Crash \/ Quiet

Spec == Init /\ [][Next]_vars

-----------------------------------------------------------------------------
(***************************************************************************)
(* Properties                                                              *)
(***************************************************************************)

\* The value of every variable has its type.
TypeOK ==
    /\ drawn \in 0 .. MaxUuids /\ registry \subseteq Uuids
    /\ products \in Seq(Products)
    /\ monitor \in Threads \cup {"free"}
    /\ pc \in [Threads -> {"idle", "upsert", "insert", "readBack", "undo",
                          "form", "set", "confirm", "upload", "addPicture"}]
    /\ job \in [Threads -> [uuid : Uuids \cup {None}, code : Codes \cup {None},
                            pictures : SUBSET Uuids, picture : Uuids \cup {None}]]
    /\ overwritten \subseteq Uuids /\ edited \subseteq Uuids
    /\ attached \subseteq Uuids \X Uuids /\ outdated \subseteq Uuids

\* However many products are created, the collection never holds more of them
\* than there are clients: it only grows by upserts that began when it was empty.
AsManyAsThreads == Len(products) <= Cardinality(Threads)

\* A product that is stored has its uuid registered, unless it was updated
\* between the upsert and the read-back of its creation, which is then refused.
StoredRegistered ==
    \A i \in DOMAIN products : products[i].uuid \in registry \cup edited

\* A creation is refused only if another client wrote the product meanwhile:
\* another creation over it, or an update of it.
RefusedForACause ==
    \A t \in Threads : pc[t] = "undo" => job[t].uuid \in overwritten \cup edited

\* A picture added stays with its product as long as that is stored, unless a
\* form read before is posted after; and a product shows no other's pictures
\* but those of one that a creation has overwritten.
PicturesStay ==
    /\ \A a \in attached : \A i \in At(a[2]) : a[1] \in products[i].pictures \cup outdated
    /\ \A i \in DOMAIN products : \A p \in products[i].pictures :
            \E a \in attached : a[1] = p /\ a[2] \in {products[i].uuid} \cup overwritten
=============================================================================

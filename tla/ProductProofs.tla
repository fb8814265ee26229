-------------------------- MODULE ProductProofs --------------------------
(***************************************************************************)
(* Theorems about ProductLifecycle, for any number of clients, uuids and   *)
(* versions of a product.                                                  *)
(***************************************************************************)
EXTENDS ProductLifecycle, FiniteSetTheorems, TLAPS

(***************************************************************************)
(* The inductive invariant.                                                *)
(***************************************************************************)
Creating == {"upsert", "insert", "readBack", "undo"}

\* What a request has in hand.
Shape ==
    \A t \in Threads :
        /\ pc[t] \in {"upsert", "insert", "form", "set"} => job[t].code \in Codes
        /\ pc[t] \in {"upload", "addPicture"} => job[t].picture \in Uuids

\* Nothing is known of a uuid before it is drawn.
OnlyDrawn ==
    /\ registry \subseteq 1 .. drawn /\ overwritten \subseteq 1 .. drawn /\ edited \subseteq 1 .. drawn
    /\ \A i \in DOMAIN products : products[i].uuid \in 1 .. drawn
    /\ \A t \in Threads : pc[t] \in Creating => job[t].uuid \in 1 .. drawn

\* A uuid is in one place: one product, or one creation under way.
OnePlace ==
    /\ \A i, j \in DOMAIN products : products[i].uuid = products[j].uuid => i = j
    /\ \A s, t \in Threads : s # t /\ pc[s] \in Creating /\ pc[t] \in Creating =>
          job[s].uuid # job[t].uuid
    /\ \A i \in DOMAIN products : products[i].uuid \notin overwritten

\* Before its product is in the collection, nobody else knows the uuid.
Unknown(t) ==
    /\ job[t].uuid \in registry /\ job[t].uuid \notin overwritten \cup edited
    /\ \A i \in DOMAIN products : products[i].uuid # job[t].uuid

\* Afterwards the product is as it was written, or there is a cause.
Kept(t) ==
    \/ \E i \in DOMAIN products : products[i].uuid = job[t].uuid /\ products[i].code = job[t].code
    \/ job[t].uuid \in overwritten \cup edited

Progress ==
    \A t \in Threads :
        /\ pc[t] \in {"upsert", "insert"} => Unknown(t)
        /\ pc[t] = "readBack" => Kept(t)

\* Whoever is about to insert has found the collection empty.
Inserting == {t \in Threads : pc[t] = "insert"}
Room == Len(products) + Cardinality(Inserting) <= Cardinality(Threads)

IInv ==
    /\ TypeOK /\ Shape /\ OnlyDrawn /\ OnePlace /\ Progress /\ Room
    /\ StoredRegistered /\ RefusedForACause

-----------------------------------------------------------------------------
Labels == {"idle", "upsert", "insert", "readBack", "undo",
           "form", "set", "confirm", "upload", "addPicture"}
Jobs == [uuid : Uuids \cup {None}, code : Codes \cup {None},
         pictures : SUBSET Uuids, picture : Uuids \cup {None}]

LEMMA IsSeq ==
    ASSUME NEW S, NEW n \in Nat, NEW s \in [1 .. n -> S]
    PROVE  s \in Seq(S) /\ Len(s) = n /\ DOMAIN s = 1 .. n
  OBVIOUS

\* The collection with each of its products rewritten.
LEMMA Rewritten ==
    ASSUME products \in Seq(Products), NEW f, f = [i \in DOMAIN products |-> f[i]],
           \A i \in DOMAIN products : f[i] \in Products
    PROVE  f \in Seq(Products) /\ Len(f) = Len(products) /\ DOMAIN f = DOMAIN products
  <1>1. DOMAIN products = 1 .. Len(products) /\ Len(products) \in Nat
    OBVIOUS
  <1>2. f \in [1 .. Len(products) -> Products]
    BY <1>1
  <1> QED BY <1>1, <1>2, IsSeq

\* A set of threads is finite, and counting it gives a number.
LEMMA Counts ==
    ASSUME NEW S \in SUBSET Threads
    PROVE  IsFiniteSet(S) /\ Cardinality(S) \in Nat /\ Cardinality(S) <= Cardinality(Threads)
           /\ Cardinality(Threads) \in Nat
  BY ThreadsAssumption, FS_Subset, FS_CardinalityType

\* What t does to its own variables.
LEMMA OwnStep ==
    ASSUME TypeOK, NEW t \in Threads, NEW l \in Labels, Goto(t, l),
           NEW j \in Jobs, job' = [job EXCEPT ![t] = j]
    PROVE  /\ pc' \in [Threads -> Labels] /\ job' \in [Threads -> Jobs]
           /\ pc'[t] = l /\ job'[t] = j
           /\ \A s \in Threads \ {t} : pc'[s] = pc[s] /\ job'[s] = job[s]
  BY DEF TypeOK, Goto, Labels, Jobs

LEMMA LabelStep ==
    ASSUME TypeOK, NEW t \in Threads, NEW l \in Labels, Goto(t, l), UNCHANGED job
    PROVE  /\ pc' \in [Threads -> Labels] /\ job' \in [Threads -> Jobs]
           /\ pc'[t] = l
           /\ \A s \in Threads \ {t} : pc'[s] = pc[s]
  BY DEF TypeOK, Goto, Labels, Jobs

LEMMA NoJobType == NoJob \in Jobs
  BY DEF NoJob, Jobs, None

LEMMA DrawnAreUuids ==
    ASSUME IInv
    PROVE  1 .. drawn \subseteq Uuids /\ drawn \in Nat
  BY BoundAssumption DEF IInv, TypeOK, Uuids

(***************************************************************************)
(* A step that leaves the uuids of the collection alone, starts and        *)
(* advances no creation, and takes nothing from the registry.              *)
(***************************************************************************)
QuietStep ==
    /\ Len(products') = Len(products)
    /\ \A i \in DOMAIN products :
        /\ products'[i].uuid = products[i].uuid
        /\ \/ products'[i].code = products[i].code
           \/ \A s \in Threads : pc[s] = "readBack" /\ job[s].uuid = products[i].uuid =>
                 products[i].uuid \in edited'
    /\ overwritten' = overwritten
    /\ drawn <= drawn' /\ registry \subseteq registry' /\ registry' \subseteq 1 .. drawn'
    /\ edited \subseteq edited'
    /\ \A u \in edited' : u \in edited \/ \E s \in Threads : pc[s] = "readBack" /\ job[s].uuid = u
    /\ \A s \in Threads : pc'[s] \in Creating => pc'[s] = pc[s] /\ job'[s] = job[s]

LEMMA QuietStepKeeps ==
    ASSUME IInv, TypeOK', Shape', QuietStep
    PROVE  IInv'
  <1>1. DOMAIN products' = DOMAIN products
    BY DEF IInv, TypeOK, QuietStep
  <1>2. OnlyDrawn'
    <2>1. 1 .. drawn \subseteq 1 .. drawn'
      BY DrawnAreUuids DEF QuietStep, IInv, TypeOK
    <2>2. edited' \subseteq 1 .. drawn'
      BY <2>1 DEF IInv, OnlyDrawn, QuietStep, Creating
    <2> QED BY <1>1, <2>1, <2>2 DEF IInv, OnlyDrawn, QuietStep
  <1>3. OnePlace'
    BY <1>1 DEF IInv, OnePlace, QuietStep
  <1>4. ASSUME NEW t \in Threads, pc'[t] \in {"upsert", "insert"}
        PROVE  Unknown(t)'
    <2>1. pc'[t] = pc[t] /\ job'[t] = job[t]
      BY <1>4 DEF QuietStep, Creating
    <2>2. Unknown(t)
      BY <1>4, <2>1 DEF IInv, Progress
    <2>3. job[t].uuid \notin edited'
      BY <1>4, <2>1, <2>2 DEF QuietStep, Unknown, IInv, OnePlace, Creating
    <2> QED BY <1>1, <2>1, <2>2, <2>3 DEF Unknown, QuietStep
  <1>5. ASSUME NEW t \in Threads, pc'[t] = "readBack"
        PROVE  Kept(t)'
    <2>1. pc'[t] = pc[t] /\ job'[t] = job[t]
      BY <1>5 DEF QuietStep, Creating
    <2>2. Kept(t)
      BY <1>5, <2>1 DEF IInv, Progress
    <2> QED BY <1>1, <1>5, <2>1, <2>2 DEF Kept, QuietStep
  <1>6. Room'
    <2>1. Inserting' \subseteq Inserting
      BY DEF Inserting, QuietStep, Creating
    <2>2. Cardinality(Inserting') <= Cardinality(Inserting)
      BY <2>1, Counts, FS_Subset DEF Inserting
    <2> QED BY <2>2, Counts DEF Room, QuietStep, IInv, TypeOK, Inserting
  <1>7. StoredRegistered'
    BY <1>1 DEF StoredRegistered, IInv, QuietStep
  <1>8. RefusedForACause'
    BY DEF RefusedForACause, IInv, QuietStep, Creating
  <1> QED BY <1>2, <1>3, <1>4, <1>5, <1>6, <1>7, <1>8 DEF IInv, Progress

-----------------------------------------------------------------------------
(***************************************************************************)
(* The steps that are quiet.                                               *)
(***************************************************************************)
\* The request of t ends, or goes on to a label that belongs to no creation.
LEMMA OthersAreQuiet ==
    ASSUME IInv, NEW t \in Threads, pc'[t] \notin Creating,
           \A s \in Threads \ {t} : pc'[s] = pc[s] /\ job'[s] = job[s]
    PROVE  \A s \in Threads : pc'[s] \in Creating => pc'[s] = pc[s] /\ job'[s] = job[s]
  OBVIOUS

LEMMA ReadFormKeeps ==
    ASSUME IInv, NEW t \in Threads, NEW i \in DOMAIN products, NEW c \in Codes, ReadForm(t, i, c)
    PROVE  IInv'
  <1> DEFINE j == FormOf(products[i], c)
  <1>1. j \in Jobs
    <2>1. products[i] \in Products
      BY DEF IInv, TypeOK
    <2> QED BY <2>1 DEF Products, Jobs, FormOf
  <1>2. Goto(t, "form") /\ job' = [job EXCEPT ![t] = j]
        /\ UNCHANGED <<drawn, registry, products, monitor, overwritten, edited, attached, outdated>>
    BY DEF ReadForm, Begin
  <1> HIDE DEF j
  <1>3. /\ pc' \in [Threads -> Labels] /\ job' \in [Threads -> Jobs] /\ pc'[t] = "form"
        /\ \A s \in Threads \ {t} : pc'[s] = pc[s] /\ job'[s] = job[s]
    BY <1>1, <1>2, OwnStep DEF IInv, Labels
  <1>4. job'[t].code \in Codes
    BY <1>1, <1>2 DEF IInv, TypeOK, Jobs, j, FormOf
  <1>5. TypeOK' /\ Shape'
    BY <1>2, <1>3, <1>4 DEF IInv, TypeOK, Shape, Labels, Jobs
  <1>6. QuietStep
    BY <1>2, <1>3, OthersAreQuiet DEF QuietStep, IInv, TypeOK, OnlyDrawn, Creating
  <1> QED BY <1>5, <1>6, QuietStepKeeps

LEMMA EnterKeeps ==
    ASSUME IInv, NEW t \in Threads, Enter(t)
    PROVE  IInv'
  <1>1. UNCHANGED <<drawn, registry, products, overwritten, edited, attached, outdated>>
    BY DEF Enter
  <1>2. /\ monitor' \in Threads \cup {"free"}
        /\ pc' \in [Threads -> Labels] /\ job' \in [Threads -> Jobs] /\ pc'[t] \in {"idle", "set"}
        /\ pc'[t] = "set" => job'[t] = job[t] /\ pc[t] = "form"
        /\ \A s \in Threads \ {t} : pc'[s] = pc[s] /\ job'[s] = job[s]
    <2>1. CASE At(job[t].uuid) # {}
      <3>1. monitor' = t /\ Goto(t, "set") /\ UNCHANGED job
        BY <2>1 DEF Enter
      <3> QED BY <3>1, LabelStep DEF IInv, Labels, Enter
    <2>2. CASE At(job[t].uuid) = {}
      <3>1. Goto(t, "idle") /\ job' = [job EXCEPT ![t] = NoJob] /\ UNCHANGED monitor
        BY <2>2 DEF Enter, End
      <3> QED BY <3>1, OwnStep, NoJobType DEF IInv, TypeOK, Labels
    <2> QED BY <2>1, <2>2
  <1>3. TypeOK' /\ Shape'
    BY <1>1, <1>2 DEF IInv, TypeOK, Shape, Labels, Jobs
  <1>4. QuietStep
    BY <1>1, <1>2, OthersAreQuiet DEF QuietStep, IInv, TypeOK, OnlyDrawn, Creating
  <1> QED BY <1>3, <1>4, QuietStepKeeps

LEMMA SetKeeps ==
    ASSUME IInv, NEW t \in Threads, Set(t)
    PROVE  IInv'
  <1> DEFINE u == job[t].uuid
             W(i) == IF i \in At(u) THEN Written(products[i], job[t]) ELSE products[i]
  <1>1. /\ pc[t] = "set" /\ Goto(t, "confirm") /\ products' = [i \in DOMAIN products |-> W(i)]
        /\ UNCHANGED <<drawn, registry, monitor, job, overwritten, attached>>
    BY DEF Set
  <1>2. edited' = IF \E s \in Threads : pc[s] = "readBack" /\ job[s].uuid = u
                  THEN edited \cup {u} ELSE edited
    BY DEF Set
  <1>3. \A i \in DOMAIN products : products[i] \in Products
    BY DEF IInv, TypeOK
  <1>4. job[t] \in Jobs
    BY DEF IInv, TypeOK, Jobs
  <1>5. outdated' \subseteq Uuids
    <2>1. UNION {products[i].pictures \ job[t].pictures : i \in At(u)} \subseteq Uuids
      BY <1>3 DEF At, Products
    <2> QED BY <2>1 DEF Set, IInv, TypeOK
  <1>6. \A i \in At(u) : i \in DOMAIN products /\ products[i].uuid = u /\ u \in Uuids
    BY <1>3 DEF At, Products
  <1>7. \A i \in DOMAIN products : i \notin At(u) => products[i].uuid # u
    BY DEF At
  <1>8. \A i \in DOMAIN products :
           /\ W(i).uuid = products[i].uuid
           /\ W(i).code = products[i].code \/ i \in At(u)
    BY <1>6 DEF Written
  <1>9. \A i \in DOMAIN products : W(i) \in Products
    <2> SUFFICES ASSUME NEW i \in DOMAIN products PROVE W(i) \in Products
      OBVIOUS
    <2>1. CASE i \in At(u)
      <3>1. job[t].code \in Codes
        BY <1>1 DEF IInv, Shape
      <3> QED BY <1>3, <1>4, <1>6, <2>1, <3>1 DEF Written, Products, Jobs
    <2>2. CASE i \notin At(u)
      BY <1>3, <2>2
    <2> QED BY <2>1, <2>2
  <1> HIDE DEF W
  <1>10. /\ products' \in Seq(Products) /\ Len(products') = Len(products)
         /\ DOMAIN products' = DOMAIN products
         /\ \A i \in DOMAIN products : products'[i] = W(i)
    BY <1>1, <1>9, Rewritten DEF IInv, TypeOK
  <1>11. /\ pc' \in [Threads -> Labels] /\ job' \in [Threads -> Jobs] /\ pc'[t] = "confirm"
         /\ \A s \in Threads \ {t} : pc'[s] = pc[s] /\ job'[s] = job[s]
    BY <1>1, LabelStep DEF IInv, Labels
  <1>12. TypeOK' /\ Shape'
    <2>1. edited' \subseteq Uuids
      <3>1. \A s \in Threads : pc[s] = "readBack" => job[s].uuid \in Uuids
        BY DrawnAreUuids DEF IInv, OnlyDrawn, Creating
      <3> QED BY <1>2, <3>1 DEF IInv, TypeOK
    <2> QED BY <1>1, <1>5, <1>10, <1>11, <2>1 DEF IInv, TypeOK, Shape, Labels, Jobs
  <1>13. QuietStep
    <2>1. \A i \in DOMAIN products :
             \/ products'[i].code = products[i].code
             \/ \A s \in Threads : pc[s] = "readBack" /\ job[s].uuid = products[i].uuid =>
                   products[i].uuid \in edited'
      BY <1>2, <1>6, <1>8, <1>10
    <2>2. edited \subseteq edited'
          /\ \A v \in edited' : v \in edited \/ \E s \in Threads : pc[s] = "readBack" /\ job[s].uuid = v
      BY <1>2
    <2> QED BY <1>1, <1>8, <1>10, <1>11, <2>1, <2>2, OthersAreQuiet
            DEF QuietStep, IInv, TypeOK, OnlyDrawn, Creating
  <1> QED BY <1>12, <1>13, QuietStepKeeps

\* Confirm and UploadFails only end their request.
LEMMA EndKeeps ==
    ASSUME IInv, NEW t \in Threads, End(t), monitor' \in Threads \cup {"free"},
           UNCHANGED <<drawn, registry, products, overwritten, edited, attached, outdated>>
    PROVE  IInv'
  <1>1. /\ pc' \in [Threads -> Labels] /\ job' \in [Threads -> Jobs] /\ pc'[t] = "idle"
        /\ \A s \in Threads \ {t} : pc'[s] = pc[s] /\ job'[s] = job[s]
    BY OwnStep, NoJobType DEF End, IInv, Labels
  <1>2. TypeOK' /\ Shape'
    BY <1>1 DEF IInv, TypeOK, Shape, Labels, Jobs
  <1>3. QuietStep
    BY <1>1, OthersAreQuiet DEF QuietStep, IInv, TypeOK, OnlyDrawn, Creating
  <1> QED BY <1>2, <1>3, QuietStepKeeps

\* The uuid drawn is new to everybody.
LEMMA DrawnIsNew ==
    ASSUME IInv, createUUID
    PROVE  /\ drawn' = drawn + 1 /\ drawn' \in 0 .. MaxUuids /\ drawn' \in Uuids
           /\ registry' = registry \cup {drawn'}
           /\ registry \subseteq registry' /\ registry' \subseteq 1 .. drawn' /\ registry' \subseteq Uuids
           /\ drawn' \notin registry \cup overwritten \cup edited
           /\ \A i \in DOMAIN products : products[i].uuid # drawn'
           /\ \A s \in Threads : pc[s] \in Creating => job[s].uuid # drawn'
  <1>1. drawn' = drawn + 1 /\ drawn < MaxUuids /\ registry' = registry \cup {drawn'}
    BY DEF createUUID
  <1>2. drawn \in Nat /\ MaxUuids \in Nat /\ registry \subseteq 1 .. drawn
    BY DrawnAreUuids, BoundAssumption DEF IInv, OnlyDrawn
  <1>3. drawn' \notin 1 .. drawn /\ drawn' \in 1 .. MaxUuids /\ drawn' \in 0 .. MaxUuids
        /\ 1 .. drawn \subseteq 1 .. drawn' /\ drawn' \in 1 .. drawn' /\ 1 .. drawn \subseteq 1 .. MaxUuids
    BY <1>1, <1>2
  <1> QED BY <1>1, <1>2, <1>3 DEF IInv, OnlyDrawn, Uuids

LEMMA PutPictureKeeps ==
    ASSUME IInv, NEW t \in Threads, NEW i \in DOMAIN products, PutPicture(t, i)
    PROVE  IInv'
  <1> DEFINE j == [NoJob EXCEPT !.uuid = products[i].uuid, !.picture = drawn + 1]
  <1>1. /\ createUUID /\ Goto(t, "upload") /\ job' = [job EXCEPT ![t] = j]
        /\ UNCHANGED <<products, monitor, overwritten, edited, attached, outdated>>
    BY DEF PutPicture, Begin
  <1>2. j \in Jobs /\ j.picture \in Uuids
    <2>1. products[i] \in Products
      BY DEF IInv, TypeOK
    <2> QED BY <1>1, <2>1, DrawnIsNew DEF NoJob, Products, Jobs
  <1> HIDE DEF j
  <1>3. /\ pc' \in [Threads -> Labels] /\ job' \in [Threads -> Jobs]
        /\ pc'[t] = "upload" /\ job'[t] = j
        /\ \A s \in Threads \ {t} : pc'[s] = pc[s] /\ job'[s] = job[s]
    BY <1>1, <1>2, OwnStep DEF IInv, Labels
  <1>4. TypeOK' /\ Shape'
    BY <1>1, <1>2, <1>3, DrawnIsNew DEF IInv, TypeOK, Shape, Labels, Jobs
  <1>5. QuietStep
    BY <1>1, <1>3, DrawnIsNew, DrawnAreUuids, OthersAreQuiet DEF QuietStep, IInv, Creating
  <1> QED BY <1>4, <1>5, QuietStepKeeps

LEMMA UploadKeeps ==
    ASSUME IInv, NEW t \in Threads, Upload(t)
    PROVE  IInv'
  <1>1. /\ pc[t] = "upload" /\ Goto(t, "addPicture")
        /\ UNCHANGED <<drawn, registry, products, monitor, job,
                        overwritten, edited, attached, outdated>>
    BY DEF Upload
  <1>2. /\ pc' \in [Threads -> Labels] /\ job' \in [Threads -> Jobs] /\ pc'[t] = "addPicture"
        /\ \A s \in Threads \ {t} : pc'[s] = pc[s]
    BY <1>1, LabelStep DEF IInv, Labels
  <1>3. TypeOK' /\ Shape'
    BY <1>1, <1>2 DEF IInv, TypeOK, Shape, Labels, Jobs
  <1>4. QuietStep
    BY <1>1, <1>2, OthersAreQuiet DEF QuietStep, IInv, TypeOK, OnlyDrawn, Creating
  <1> QED BY <1>3, <1>4, QuietStepKeeps

LEMMA AddPictureKeeps ==
    ASSUME IInv, NEW t \in Threads, AddPicture(t)
    PROVE  IInv'
  <1> DEFINE u == job[t].uuid
             p == job[t].picture
             W(i) == IF i \in At(u) THEN [products[i] EXCEPT !.pictures = @ \cup {p}] ELSE products[i]
  <1>1. /\ pc[t] = "addPicture" /\ End(t)
        /\ UNCHANGED <<drawn, registry, monitor, overwritten, edited, outdated>>
    BY DEF AddPicture
  <1>2. CASE At(u) = {}
    <2>1. UNCHANGED <<products, attached>>
      BY <1>2 DEF AddPicture
    <2> QED BY <1>1, <2>1, EndKeeps DEF IInv, TypeOK
  <1>3. CASE At(u) # {}
    <2>1. /\ products' = [i \in DOMAIN products |-> W(i)]
          /\ attached' = attached \cup {<<p, u>>}
      BY <1>3 DEF AddPicture
    <2>2. \A i \in DOMAIN products : products[i] \in Products
      BY DEF IInv, TypeOK
    <2>3. p \in Uuids /\ u \in Uuids
      BY <1>1, <1>3, <2>2 DEF IInv, Shape, At, Products
    <2>4. \A i \in DOMAIN products : W(i) \in Products
      BY <2>2, <2>3 DEF Products
    <2>5. \A i \in DOMAIN products : W(i).uuid = products[i].uuid /\ W(i).code = products[i].code
      BY <2>2 DEF Products
    <2> HIDE DEF W
    <2>6. /\ products' \in Seq(Products) /\ Len(products') = Len(products)
          /\ \A i \in DOMAIN products : products'[i] = W(i)
      BY <2>1, <2>4, Rewritten DEF IInv, TypeOK
    <2>7. /\ pc' \in [Threads -> Labels] /\ job' \in [Threads -> Jobs] /\ pc'[t] = "idle"
          /\ \A s \in Threads \ {t} : pc'[s] = pc[s] /\ job'[s] = job[s]
      BY <1>1, OwnStep, NoJobType DEF End, IInv, Labels
    <2>8. TypeOK' /\ Shape'
      BY <1>1, <2>1, <2>3, <2>6, <2>7 DEF IInv, TypeOK, Shape, Labels, Jobs
    <2>9. QuietStep
      BY <1>1, <2>5, <2>6, <2>7, OthersAreQuiet DEF QuietStep, IInv, TypeOK, OnlyDrawn, Creating
    <2> QED BY <2>8, <2>9, QuietStepKeeps
  <1> QED BY <1>2, <1>3

LEMMA CrashKeeps ==
    ASSUME IInv, Crash
    PROVE  IInv'
  <1> DEFINE Struck == {t \in Threads : pc[t] \notin {"idle", "form"}}
  <1>1. /\ pc'  = [t \in Threads |-> IF t \in Struck THEN "idle" ELSE pc[t]]
        /\ job' = [t \in Threads |-> IF t \in Struck THEN NoJob ELSE job[t]]
        /\ monitor' = "free"
        /\ UNCHANGED <<drawn, registry, products, overwritten, edited, attached, outdated>>
    BY DEF Crash
  <1>2. \A t \in Threads : \/ pc'[t] = "idle"
                           \/ pc'[t] = "form" /\ pc[t] = "form" /\ job'[t] = job[t]
    BY <1>1
  <1>3. TypeOK' /\ Shape'
    BY <1>1, <1>2, NoJobType DEF IInv, TypeOK, Shape, Jobs
  <1>4. QuietStep
    BY <1>1, <1>2 DEF QuietStep, IInv, TypeOK, OnlyDrawn, Creating
  <1> QED BY <1>3, <1>4, QuietStepKeeps

-----------------------------------------------------------------------------
(***************************************************************************)
(* The steps of a creation.                                                *)
(***************************************************************************)
LEMMA CreateUUIDKeeps ==
    ASSUME IInv, NEW t \in Threads, NEW c \in Codes, CreateUUID(t, c)
    PROVE  IInv'
  <1> DEFINE j == [NoJob EXCEPT !.uuid = drawn + 1, !.code = c]
  <1>1. /\ createUUID /\ pc[t] = "idle" /\ Goto(t, "upsert") /\ job' = [job EXCEPT ![t] = j]
        /\ UNCHANGED <<products, monitor, overwritten, edited, attached, outdated>>
    BY DEF CreateUUID, Begin
  <1>2. j \in Jobs /\ j.code \in Codes /\ j.uuid = drawn'
    BY <1>1, DrawnIsNew DEF NoJob, Jobs
  <1> HIDE DEF j
  <1>3. /\ pc' \in [Threads -> Labels] /\ job' \in [Threads -> Jobs]
        /\ pc'[t] = "upsert" /\ job'[t] = j
        /\ \A s \in Threads \ {t} : pc'[s] = pc[s] /\ job'[s] = job[s]
    BY <1>1, <1>2, OwnStep DEF IInv, Labels
  <1>4. TypeOK' /\ Shape'
    BY <1>1, <1>2, <1>3, DrawnIsNew DEF IInv, TypeOK, Shape, Labels, Jobs
  <1>5. 1 .. drawn \subseteq 1 .. drawn' /\ drawn' \in 1 .. drawn'
    BY <1>1, DrawnIsNew, DrawnAreUuids
  <1>6. OnlyDrawn'
    BY <1>1, <1>2, <1>3, <1>5, DrawnIsNew DEF IInv, OnlyDrawn, Creating
  <1>7. OnePlace'
    BY <1>1, <1>2, <1>3, DrawnIsNew DEF IInv, OnePlace, Creating
  <1>8. Progress'
    <2>1. Unknown(t)'
      BY <1>1, <1>2, <1>3, DrawnIsNew DEF Unknown
    <2>2. ASSUME NEW s \in Threads \ {t} PROVE (Unknown(s) => Unknown(s)') /\ (Kept(s) => Kept(s)')
      BY <1>1, <1>3, DrawnIsNew DEF Unknown, Kept
    <2> QED BY <1>3, <2>1, <2>2 DEF IInv, Progress
  <1>9. Room'
    <2>1. Inserting' \subseteq Inserting
      BY <1>3 DEF Inserting
    <2> QED BY SMTT(30), <1>1, <2>1, Counts, FS_Subset DEF Room, IInv, TypeOK, Inserting
  <1>10. StoredRegistered' /\ RefusedForACause'
    BY <1>1, <1>3, DrawnIsNew DEF IInv, StoredRegistered, RefusedForACause
  <1> QED BY <1>4, <1>6, <1>7, <1>8, <1>9, <1>10 DEF IInv

LEMMA UpsertKeeps ==
    ASSUME IInv, NEW t \in Threads, NEW i \in DOMAIN products, Upsert(t, i)
    PROVE  IInv'
  <1> DEFINE u == job[t].uuid
             v == products[i].uuid
  <1>1. /\ pc[t] = "upsert" /\ Goto(t, "readBack")
        /\ products' = [products EXCEPT ![i].uuid = u, ![i].code = job[t].code]
        /\ overwritten' = overwritten \cup {v}
        /\ UNCHANGED <<drawn, registry, monitor, job, edited, attached, outdated>>
    BY DEF Upsert
  <1>2. /\ pc' \in [Threads -> Labels] /\ job' \in [Threads -> Jobs] /\ pc'[t] = "readBack"
        /\ \A s \in Threads \ {t} : pc'[s] = pc[s]
    BY <1>1, LabelStep DEF IInv, Labels
  <1>3. \A k \in DOMAIN products : products[k] \in Products
    BY DEF IInv, TypeOK
  <1>4. u \in 1 .. drawn /\ u \in Uuids /\ job[t].code \in Codes /\ v \in 1 .. drawn /\ v \in Uuids
        /\ Unknown(t)
    BY <1>1, DrawnAreUuids DEF IInv, Shape, OnlyDrawn, Progress, Creating
  <1>5. /\ Len(products') = Len(products) /\ DOMAIN products' = DOMAIN products
        /\ products' \in Seq(Products)
        /\ products'[i].uuid = u /\ products'[i].code = job[t].code
        /\ \A k \in DOMAIN products \ {i} : products'[k] = products[k]
    <2>1. [products[i] EXCEPT !.uuid = u, !.code = job[t].code] \in Products
      BY <1>3, <1>4 DEF Products
    <2>2. products' = [k \in DOMAIN products |->
              IF k = i THEN [products[i] EXCEPT !.uuid = u, !.code = job[t].code] ELSE products[k]]
      BY <1>1
    <2>3. products' \in Seq(Products) /\ Len(products') = Len(products) /\ DOMAIN products' = DOMAIN products
      BY <1>3, <2>1, <2>2, Rewritten DEF IInv, TypeOK
    <2> QED BY <1>3, <2>2, <2>3 DEF Products
  <1> HIDE DEF u, v
  <1>6. TypeOK' /\ Shape'
    BY <1>1, <1>2, <1>4, <1>5 DEF IInv, TypeOK, Shape, Labels, Jobs
  <1>7. OnlyDrawn'
    BY <1>1, <1>2, <1>4, <1>5 DEF IInv, OnlyDrawn, Creating
  <1>8. \A k \in DOMAIN products \ {i} : products[k].uuid # v
    BY DEF IInv, OnePlace, v
  <1>9. u # v
    BY <1>4 DEF Unknown, u, v
  <1>10. OnePlace'
    <2>1. \A k \in DOMAIN products \ {i} : products[k].uuid # u /\ products[k].uuid \notin overwritten
      BY <1>4 DEF IInv, OnePlace, Unknown, u
    <2>2. u \notin overwritten
      BY <1>4 DEF Unknown, u
    <2>3. \A k \in DOMAIN products' : products'[k].uuid \notin overwritten'
      BY <1>1, <1>5, <1>8, <1>9, <2>1, <2>2
    <2>4. \A k, l \in DOMAIN products' : products'[k].uuid = products'[l].uuid => k = l
      BY <1>5, <2>1 DEF IInv, OnePlace
    <2>5. \A r, s \in Threads : r # s /\ pc'[r] \in Creating /\ pc'[s] \in Creating =>
             job'[r].uuid # job'[s].uuid
      BY <1>1, <1>2 DEF IInv, OnePlace, Creating
    <2> QED BY <2>3, <2>4, <2>5 DEF OnePlace
  <1>11. Progress'
    <2>1. Kept(t)'
      BY <1>1, <1>5 DEF Kept, u
    <2>2. ASSUME NEW s \in Threads \ {t}, pc[s] \in {"upsert", "insert"} PROVE Unknown(s)'
      <3>1. Unknown(s) /\ job[s].uuid # u
        BY <1>1, <2>2 DEF IInv, Progress, OnePlace, Creating, u
      <3> QED BY <1>1, <1>5, <3>1 DEF Unknown, v
    <2>3. ASSUME NEW s \in Threads \ {t}, pc[s] = "readBack" PROVE Kept(s)'
      BY <1>1, <1>5, <2>3 DEF IInv, Progress, Kept, v
    <2> QED BY <1>2, <2>1, <2>2, <2>3 DEF Progress
  <1>12. Room'
    <2>1. Inserting' \subseteq Inserting
      BY <1>2 DEF Inserting
    <2> QED BY SMTT(30), <1>5, <2>1, Counts, FS_Subset DEF Room, IInv, TypeOK, Inserting
  <1>13. StoredRegistered'
    BY <1>1, <1>4, <1>5 DEF IInv, StoredRegistered, Unknown, u
  <1>14. RefusedForACause'
    BY <1>1, <1>2 DEF IInv, RefusedForACause
  <1> QED BY <1>6, <1>7, <1>10, <1>11, <1>12, <1>13, <1>14 DEF IInv

LEMMA UpsertFindsNoneKeeps ==
    ASSUME IInv, NEW t \in Threads, UpsertFindsNone(t)
    PROVE  IInv'
  <1>1. /\ pc[t] = "upsert" /\ products = <<>> /\ Goto(t, "insert")
        /\ UNCHANGED <<drawn, registry, products, monitor, job, overwritten, edited, attached, outdated>>
    BY DEF UpsertFindsNone
  <1>2. /\ pc' \in [Threads -> Labels] /\ job' \in [Threads -> Jobs] /\ pc'[t] = "insert"
        /\ \A s \in Threads \ {t} : pc'[s] = pc[s]
    BY <1>1, LabelStep DEF IInv, Labels
  <1>3. TypeOK' /\ Shape'
    BY <1>1, <1>2 DEF IInv, TypeOK, Shape, Labels, Jobs
  <1>4. OnlyDrawn' /\ OnePlace'
    BY <1>1, <1>2 DEF IInv, OnlyDrawn, OnePlace, Creating
  <1>5. Progress'
    BY <1>1, <1>2 DEF IInv, Progress, Unknown, Kept
  <1>6. Room'
    <2>1. Cardinality(Inserting') <= Cardinality(Threads) /\ Cardinality(Inserting') \in Nat
      BY Counts DEF Inserting
    <2>2. Len(products') = 0
      BY <1>1
    <2> QED BY <2>1, <2>2, Counts DEF Room
  <1>7. StoredRegistered' /\ RefusedForACause'
    BY <1>1, <1>2 DEF IInv, StoredRegistered, RefusedForACause
  <1> QED BY <1>3, <1>4, <1>5, <1>6, <1>7 DEF IInv

LEMMA InsertKeeps ==
    ASSUME IInv, NEW t \in Threads, Insert(t)
    PROVE  IInv'
  <1> DEFINE u == job[t].uuid
             d == [uuid |-> u, code |-> job[t].code, pictures |-> {}]
             n == Len(products)
  <1>1. /\ pc[t] = "insert" /\ Goto(t, "readBack") /\ products' = Append(products, d)
        /\ UNCHANGED <<drawn, registry, monitor, job, overwritten, edited, attached, outdated>>
    BY DEF Insert
  <1>2. /\ pc' \in [Threads -> Labels] /\ job' \in [Threads -> Jobs] /\ pc'[t] = "readBack"
        /\ \A s \in Threads \ {t} : pc'[s] = pc[s]
    BY <1>1, LabelStep DEF IInv, Labels
  <1>3. u \in 1 .. drawn /\ u \in Uuids /\ job[t].code \in Codes /\ Unknown(t)
    BY <1>1, DrawnAreUuids DEF IInv, Shape, OnlyDrawn, Progress, Creating
  <1>4. d \in Products /\ d.uuid = u /\ d.code = job[t].code
    BY <1>3 DEF Products
  <1> HIDE DEF d
  <1>5. /\ products' \in Seq(Products) /\ n \in Nat /\ Len(products') = n + 1
        /\ DOMAIN products = 1 .. n /\ DOMAIN products' = 1 .. n + 1
        /\ products'[n + 1] = d
        /\ \A k \in DOMAIN products : k \in DOMAIN products' /\ products'[k] = products[k]
        /\ \A k \in DOMAIN products' : k \in DOMAIN products \/ k = n + 1
    BY <1>1, <1>4 DEF IInv, TypeOK
  <1> HIDE DEF u, n
  <1>6. TypeOK' /\ Shape'
    BY <1>1, <1>2, <1>5 DEF IInv, TypeOK, Shape, Labels, Jobs
  <1>7. OnlyDrawn'
    BY <1>1, <1>2, <1>3, <1>4, <1>5 DEF IInv, OnlyDrawn, Creating
  <1>8. OnePlace'
    <2>1. \A k \in DOMAIN products : products[k].uuid # u /\ products[k].uuid \notin overwritten
      BY <1>3 DEF IInv, OnePlace, Unknown, u
    <2>2. u \notin overwritten
      BY <1>3 DEF Unknown, u
    <2>3. \A k \in DOMAIN products' : products'[k].uuid \notin overwritten'
      BY <1>1, <1>4, <1>5, <2>1, <2>2
    <2>4. \A k, l \in DOMAIN products' : products'[k].uuid = products'[l].uuid => k = l
      BY <1>4, <1>5, <2>1 DEF IInv, OnePlace
    <2>5. \A r, s \in Threads : r # s /\ pc'[r] \in Creating /\ pc'[s] \in Creating =>
             job'[r].uuid # job'[s].uuid
      BY <1>1, <1>2 DEF IInv, OnePlace, Creating
    <2> QED BY <2>3, <2>4, <2>5 DEF OnePlace
  <1>9. Progress'
    <2>1. Kept(t)'
      BY <1>1, <1>4, <1>5 DEF Kept, u
    <2>2. ASSUME NEW s \in Threads \ {t}, pc[s] \in {"upsert", "insert"} PROVE Unknown(s)'
      <3>1. Unknown(s) /\ job[s].uuid # u
        BY <1>1, <2>2 DEF IInv, Progress, OnePlace, Creating, u
      <3> QED BY <1>1, <1>4, <1>5, <3>1 DEF Unknown
    <2>3. ASSUME NEW s \in Threads \ {t}, pc[s] = "readBack" PROVE Kept(s)'
      BY <1>1, <1>5, <2>3 DEF IInv, Progress, Kept
    <2> QED BY <1>2, <2>1, <2>2, <2>3 DEF Progress
  <1>10. Room'
    <2>1. Inserting' = Inserting \ {t} /\ t \in Inserting
      BY <1>1, <1>2 DEF Inserting
    <2>2. IsFiniteSet(Inserting) /\ Cardinality(Inserting) \in Nat
      BY Counts DEF Inserting
    <2>3. Cardinality(Inserting') = Cardinality(Inserting) - 1
      BY <2>1, <2>2, FS_RemoveElement
    <2> QED BY <1>5, <2>2, <2>3, Counts DEF Room, IInv, n
  <1>11. StoredRegistered'
    BY <1>1, <1>3, <1>4, <1>5 DEF IInv, StoredRegistered, Unknown, u
  <1>12. RefusedForACause'
    BY <1>1, <1>2 DEF IInv, RefusedForACause
  <1> QED BY <1>6, <1>7, <1>8, <1>9, <1>10, <1>11, <1>12 DEF IInv

LEMMA ReadBackKeeps ==
    ASSUME IInv, NEW t \in Threads, ReadBack(t)
    PROVE  IInv'
  <1>1. /\ pc[t] = "readBack"
        /\ UNCHANGED <<drawn, registry, products, monitor, overwritten, edited, attached, outdated>>
    BY DEF ReadBack
  <1>2. CASE FoundAgain(t)
    BY <1>1, <1>2, EndKeeps DEF ReadBack, IInv, TypeOK
  <1>3. CASE ~FoundAgain(t)
    <2>1. Goto(t, "undo") /\ UNCHANGED job
      BY <1>3 DEF ReadBack
    <2>2. /\ pc' \in [Threads -> Labels] /\ job' \in [Threads -> Jobs] /\ pc'[t] = "undo"
          /\ \A s \in Threads \ {t} : pc'[s] = pc[s]
      BY <2>1, LabelStep DEF IInv, Labels
    <2>3. TypeOK' /\ Shape'
      BY <1>1, <2>1, <2>2 DEF IInv, TypeOK, Shape, Labels, Jobs
    <2>4. OnlyDrawn' /\ OnePlace'
      BY <1>1, <2>1, <2>2 DEF IInv, OnlyDrawn, OnePlace, Creating
    <2>5. Progress'
      BY <1>1, <2>1, <2>2 DEF IInv, Progress, Unknown, Kept
    <2>6. Room'
      <3>1. Inserting' \subseteq Inserting
        BY <2>2 DEF Inserting
      <3> QED BY <1>1, <3>1, Counts, FS_Subset DEF Room, IInv, TypeOK, Inserting
    <2>7. RefusedForACause'
      <3>1. Kept(t)
        BY <1>1 DEF IInv, Progress
      <3>2. job[t].uuid \in overwritten \cup edited
        BY <1>3, <3>1 DEF Kept, FoundAgain, At
      <3> QED BY <1>1, <2>1, <2>2, <3>2 DEF IInv, RefusedForACause
    <2> QED BY <1>1, <2>3, <2>4, <2>5, <2>6, <2>7 DEF IInv, StoredRegistered
  <1> QED BY <1>2, <1>3

LEMMA UndoKeeps ==
    ASSUME IInv, NEW t \in Threads, Undo(t)
    PROVE  IInv'
  <1> DEFINE u == job[t].uuid
  <1>1. /\ pc[t] = "undo" /\ registry' = registry \ {u} /\ End(t)
        /\ UNCHANGED <<drawn, products, monitor, overwritten, edited, attached, outdated>>
    BY DEF Undo
  <1>2. /\ pc' \in [Threads -> Labels] /\ job' \in [Threads -> Jobs] /\ pc'[t] = "idle"
        /\ \A s \in Threads \ {t} : pc'[s] = pc[s] /\ job'[s] = job[s]
    BY <1>1, OwnStep, NoJobType DEF End, IInv, Labels
  <1>3. u \in overwritten \cup edited
    BY <1>1 DEF IInv, RefusedForACause
  <1> HIDE DEF u
  <1>4. TypeOK' /\ Shape'
    BY <1>1, <1>2 DEF IInv, TypeOK, Shape, Labels, Jobs
  <1>5. OnlyDrawn' /\ OnePlace'
    BY ZenonT(60), <1>1, <1>2 DEF IInv, OnlyDrawn, OnePlace, Creating
  <1>6. Progress'
    BY <1>1, <1>2, <1>3 DEF IInv, Progress, Unknown, Kept
  <1>7. Room'
    <2>1. Inserting' \subseteq Inserting
      BY <1>2 DEF Inserting
    <2> QED BY <1>1, <2>1, Counts, FS_Subset DEF Room, IInv, TypeOK, Inserting
  <1>8. StoredRegistered'
    BY <1>1, <1>3 DEF IInv, StoredRegistered, OnePlace
  <1>9. RefusedForACause'
    BY <1>1, <1>2 DEF IInv, RefusedForACause
  <1> QED BY <1>4, <1>5, <1>6, <1>7, <1>8, <1>9 DEF IInv

-----------------------------------------------------------------------------
LEMMA Initially == Init => IInv
  <1> SUFFICES ASSUME Init PROVE IInv
    OBVIOUS
  <1>1. TypeOK
    BY BoundAssumption DEF Init, TypeOK, NoJob, None
  <1>2. Room
    <2>1. Inserting = {}
      BY DEF Init, Inserting
    <2> QED BY <2>1, FS_EmptySet, Counts DEF Init, Room
  <1> QED BY <1>1, <1>2 DEF Init, IInv, Shape, OnlyDrawn, OnePlace, Progress,
              StoredRegistered, RefusedForACause, Creating

LEMMA Inductive == IInv /\ [Next]_vars => IInv'
  <1> SUFFICES ASSUME IInv, [Next]_vars PROVE IInv'
    OBVIOUS
  <1>1. ASSUME NEW t \in Threads, Request(t) PROVE IInv'
    BY <1>1, CreateUUIDKeeps, ReadFormKeeps, PutPictureKeeps DEF Request
  <1>2. ASSUME NEW t \in Threads, Work(t) PROVE IInv'
    <2>1. CASE Confirm(t) \/ UploadFails(t)
      BY <2>1, EndKeeps DEF Confirm, UploadFails, IInv, TypeOK
    <2> QED BY <1>2, <2>1, UpsertKeeps, UpsertFindsNoneKeeps, InsertKeeps, ReadBackKeeps, UndoKeeps,
               EnterKeeps, SetKeeps, UploadKeeps, AddPictureKeeps DEF Work
  <1>3. CASE UNCHANGED vars
    BY <1>3 DEF vars, IInv, TypeOK, Shape, OnlyDrawn, OnePlace, Progress, Unknown, Kept,
                Room, Inserting, StoredRegistered, RefusedForACause
  <1> QED BY <1>1, <1>2, <1>3, CrashKeeps DEF Next, Quiet

LEMMA Invariance == Spec => []IInv
  BY Initially, Inductive, PTL DEF Spec

-----------------------------------------------------------------------------
(***************************************************************************)
(* Pictures.                                                               *)
(***************************************************************************)
\* Pictures are added to products that clients have seen, and forms have the
\* pictures of a product that clients have seen.
Pictured ==
    /\ PicturesStay
    /\ \A a \in attached : a[2] \in 1 .. drawn
    /\ \A a \in attached, t \in Threads : pc[t] \in {"upsert", "insert"} => a[2] # job[t].uuid
    /\ \A t \in Threads : pc[t] \in {"form", "set"} =>
          \A p \in job[t].pictures : \E a \in attached : a[1] = p /\ a[2] \in {job[t].uuid} \cup overwritten

\* A step that changes neither products nor pictures, and reads no form.
QuietForPictures ==
    /\ UNCHANGED <<products, overwritten, attached, outdated>>
    /\ 1 .. drawn \subseteq 1 .. drawn'
    /\ \A s \in Threads :
        /\ pc'[s] \in {"upsert", "insert"} =>
              \/ pc[s] \in {"upsert", "insert"} /\ job'[s] = job[s]
              \/ job'[s].uuid \notin 1 .. drawn
        /\ pc'[s] \in {"form", "set"} => pc[s] \in {"form", "set"} /\ job'[s] = job[s]

LEMMA QuietKeepsPictures ==
    ASSUME Pictured, QuietForPictures
    PROVE  Pictured'
  <1>1. PicturesStay'
    BY DEF Pictured, PicturesStay, At, QuietForPictures
  <1> QED BY <1>1 DEF Pictured, QuietForPictures

LEMMA UpsertKeepsPictures ==
    ASSUME IInv, Pictured, NEW t \in Threads, NEW i \in DOMAIN products, Upsert(t, i)
    PROVE  Pictured'
  <1> DEFINE u == job[t].uuid
             v == products[i].uuid
  <1>1. /\ pc[t] = "upsert" /\ Goto(t, "readBack") /\ overwritten' = overwritten \cup {v}
        /\ products' = [products EXCEPT ![i].uuid = u, ![i].code = job[t].code]
        /\ UNCHANGED <<drawn, registry, monitor, job, edited, attached, outdated>>
    BY DEF Upsert
  <1>2. pc'[t] = "readBack" /\ \A s \in Threads \ {t} : pc'[s] = pc[s]
    BY <1>1, LabelStep DEF IInv, Labels
  <1>3. /\ DOMAIN products' = DOMAIN products
        /\ products'[i].uuid = u /\ products'[i].pictures = products[i].pictures
        /\ \A k \in DOMAIN products \ {i} : products'[k] = products[k]
    <2>1. \A k \in DOMAIN products : products[k] \in Products
      BY DEF IInv, TypeOK
    <2>2. products' = [k \in DOMAIN products |->
              IF k = i THEN [products[i] EXCEPT !.uuid = u, !.code = job[t].code] ELSE products[k]]
      BY <1>1 DEF IInv, TypeOK
    <2> QED BY <2>1, <2>2 DEF Products
  <1>4. \A a \in attached : a[2] # u
    BY <1>1 DEF Pictured
  <1> HIDE DEF u, v
  <1>5. PicturesStay'
    <2>1. ASSUME NEW a \in attached, NEW k \in DOMAIN products, products'[k].uuid = a[2]
          PROVE  a[1] \in products'[k].pictures \cup outdated
      <3>1. k # i /\ products[k].uuid = a[2]
        BY <1>3, <1>4, <2>1
      <3> QED BY <1>3, <3>1 DEF Pictured, PicturesStay, At
    <2>2. ASSUME NEW k \in DOMAIN products, NEW p \in products'[k].pictures
          PROVE  \E a \in attached : a[1] = p /\ a[2] \in {products'[k].uuid} \cup overwritten'
      <3>1. PICK a \in attached : a[1] = p /\ a[2] \in {products[k].uuid} \cup overwritten
        BY <1>3, <2>2 DEF Pictured, PicturesStay
      <3> QED BY <1>1, <1>3, <3>1 DEF v
    <2> QED BY <1>1, <1>3, <2>1, <2>2 DEF PicturesStay, At
  <1> QED BY <1>1, <1>2, <1>5 DEF Pictured

LEMMA InsertKeepsPictures ==
    ASSUME IInv, Pictured, NEW t \in Threads, Insert(t)
    PROVE  Pictured'
  <1> DEFINE u == job[t].uuid
             d == [uuid |-> u, code |-> job[t].code, pictures |-> {}]
             n == Len(products)
  <1>1. /\ pc[t] = "insert" /\ Goto(t, "readBack") /\ products' = Append(products, d)
        /\ UNCHANGED <<drawn, registry, monitor, job, overwritten, edited, attached, outdated>>
    BY DEF Insert
  <1>2. pc'[t] = "readBack" /\ \A s \in Threads \ {t} : pc'[s] = pc[s]
    BY <1>1, LabelStep DEF IInv, Labels
  <1>3. /\ products'[n + 1] = d
        /\ \A k \in DOMAIN products : products'[k] = products[k]
        /\ \A k \in DOMAIN products' : k \in DOMAIN products \/ k = n + 1
    BY <1>1 DEF IInv, TypeOK
  <1>4. d.uuid = u /\ d.pictures = {} /\ \A a \in attached : a[2] # u
    BY <1>1 DEF Pictured
  <1> HIDE DEF u, d, n
  <1>5. PicturesStay'
    BY <1>1, <1>3, <1>4 DEF Pictured, PicturesStay, At
  <1> QED BY <1>1, <1>2, <1>5 DEF Pictured

LEMMA ReadFormKeepsPictures ==
    ASSUME IInv, Pictured, NEW t \in Threads, NEW i \in DOMAIN products, NEW c \in Codes, ReadForm(t, i, c)
    PROVE  Pictured'
  <1> DEFINE j == FormOf(products[i], c)
  <1>1. /\ Goto(t, "form") /\ job' = [job EXCEPT ![t] = j]
        /\ UNCHANGED <<drawn, registry, products, monitor, overwritten, edited, attached, outdated>>
    BY DEF ReadForm, Begin
  <1>2. /\ pc'[t] = "form" /\ job'[t] = j
        /\ \A s \in Threads \ {t} : pc'[s] = pc[s] /\ job'[s] = job[s]
    BY <1>1 DEF Goto, IInv, TypeOK
  <1>3. \A p \in j.pictures : \E a \in attached : a[1] = p /\ a[2] \in {j.uuid} \cup overwritten
    BY DEF Pictured, PicturesStay, FormOf
  <1> HIDE DEF j
  <1>4. PicturesStay'
    BY <1>1 DEF Pictured, PicturesStay, At
  <1> QED BY <1>1, <1>2, <1>3, <1>4 DEF Pictured

LEMMA SetKeepsPictures ==
    ASSUME IInv, Pictured, NEW t \in Threads, Set(t)
    PROVE  Pictured'
  <1> DEFINE u == job[t].uuid
             W(i) == IF i \in At(u) THEN Written(products[i], job[t]) ELSE products[i]
             dropped == UNION {products[i].pictures \ job[t].pictures : i \in At(u)}
  <1>1. /\ pc[t] = "set" /\ Goto(t, "confirm") /\ products' = [i \in DOMAIN products |-> W(i)]
        /\ outdated' = IF job[t].pictures = {} THEN outdated ELSE outdated \cup dropped
        /\ UNCHANGED <<drawn, registry, monitor, job, overwritten, attached>>
    BY DEF Set
  <1>2. pc'[t] = "confirm" /\ \A s \in Threads \ {t} : pc'[s] = pc[s]
    BY <1>1, LabelStep DEF IInv, Labels
  <1>3. \A i \in DOMAIN products :
           IF i \in At(u)
           THEN /\ products[i].uuid = u /\ W(i).uuid = u
                /\ W(i).pictures = IF job[t].pictures = {} THEN products[i].pictures ELSE job[t].pictures
                /\ products[i].pictures \ job[t].pictures \subseteq dropped
           ELSE W(i) = products[i]
    BY DEF At, Written
  <1> HIDE DEF W, u, dropped
  <1>4. DOMAIN products' = DOMAIN products /\ \A i \in DOMAIN products : products'[i] = W(i)
    BY <1>1
  <1>5. \A i \in DOMAIN products : products'[i].uuid = products[i].uuid
    BY <1>3, <1>4
  <1>6. PicturesStay'
    <2>1. ASSUME NEW a \in attached, NEW k \in DOMAIN products, products'[k].uuid = a[2]
          PROVE  a[1] \in products'[k].pictures \cup outdated'
      <3>1. a[1] \in products[k].pictures \cup outdated
        BY <1>5, <2>1 DEF Pictured, PicturesStay, At
      <3> QED BY <1>1, <1>3, <1>4, <3>1
    <2>2. ASSUME NEW k \in DOMAIN products, NEW p \in products'[k].pictures
          PROVE  \E a \in attached : a[1] = p /\ a[2] \in {products'[k].uuid} \cup overwritten
      <3>1. CASE p \in products[k].pictures
        BY <1>5, <3>1 DEF Pictured, PicturesStay
      <3>2. CASE p \notin products[k].pictures
        <4>1. k \in At(u) /\ p \in job[t].pictures
          BY <1>3, <1>4, <2>2, <3>2
        <4> QED BY <1>1, <1>3, <1>5, <4>1 DEF Pictured, u
      <3> QED BY <3>1, <3>2
    <2> QED BY <1>1, <1>4, <2>1, <2>2 DEF PicturesStay, At
  <1> QED BY <1>1, <1>2, <1>6 DEF Pictured

LEMMA AddPictureKeepsPictures ==
    ASSUME IInv, Pictured, NEW t \in Threads, AddPicture(t)
    PROVE  Pictured'
  <1> DEFINE u == job[t].uuid
             p == job[t].picture
             W(i) == IF i \in At(u) THEN [products[i] EXCEPT !.pictures = @ \cup {p}] ELSE products[i]
  <1>1. /\ pc[t] = "addPicture" /\ End(t)
        /\ UNCHANGED <<drawn, registry, monitor, overwritten, edited, outdated>>
    BY DEF AddPicture
  <1>2. pc'[t] = "idle" /\ \A s \in Threads \ {t} : pc'[s] = pc[s] /\ job'[s] = job[s]
    BY <1>1 DEF End, Goto, IInv, TypeOK
  <1>3. CASE At(u) = {}
    <2>1. UNCHANGED <<products, attached>>
      BY <1>3 DEF AddPicture
    <2> QED BY <1>1, <1>2, <2>1, QuietKeepsPictures DEF QuietForPictures
  <1>4. CASE At(u) # {}
    <2>1. products' = [i \in DOMAIN products |-> W(i)] /\ attached' = attached \cup {<<p, u>>}
      BY <1>4 DEF AddPicture
    <2>2. \A i \in DOMAIN products :
             /\ W(i).uuid = products[i].uuid
             /\ IF products[i].uuid = u THEN W(i).pictures = products[i].pictures \cup {p}
                                        ELSE W(i).pictures = products[i].pictures
      BY DEF At, IInv, TypeOK, Products
    <2>3. PICK k \in DOMAIN products : products[k].uuid = u
      BY <1>4 DEF At
    <2>4. u \in 1 .. drawn /\ \A s \in Threads : pc[s] \in {"upsert", "insert"} => u # job[s].uuid
      BY <2>3 DEF IInv, OnlyDrawn, Progress, Unknown
    <2>5. <<p, u>>[1] = p /\ <<p, u>>[2] = u
      OBVIOUS
    <2> HIDE DEF W, u, p
    <2>6. DOMAIN products' = DOMAIN products /\ \A i \in DOMAIN products : products'[i] = W(i)
      BY <2>1
    <2>7. PicturesStay'
      <3>1. ASSUME NEW a \in attached', NEW i \in DOMAIN products, products'[i].uuid = a[2]
            PROVE  a[1] \in products'[i].pictures \cup outdated
        BY <2>1, <2>2, <2>5, <2>6, <3>1 DEF Pictured, PicturesStay, At
      <3>2. ASSUME NEW i \in DOMAIN products, NEW q \in products'[i].pictures
            PROVE  \E a \in attached' : a[1] = q /\ a[2] \in {products'[i].uuid} \cup overwritten
        <4>1. CASE q \in products[i].pictures
          BY <2>1, <2>2, <2>6, <4>1 DEF Pictured, PicturesStay
        <4>2. CASE q \notin products[i].pictures
          <5>1. q = p /\ products[i].uuid = u
            BY <2>2, <2>6, <3>2, <4>2
          <5>2. <<p, u>> \in attached' /\ products'[i].uuid = u
            BY <2>1, <2>2, <2>6, <5>1
          <5> QED BY <2>5, <5>1, <5>2
        <4> QED BY <4>1, <4>2
      <3> QED BY <1>1, <2>6, <3>1, <3>2 DEF PicturesStay, At
    <2> QED BY <1>1, <1>2, <2>1, <2>4, <2>5, <2>7 DEF Pictured
  <1> QED BY <1>3, <1>4

LEMMA PicturesInductive ==
    ASSUME IInv, Pictured, [Next]_vars
    PROVE  Pictured'
  <1>1. ASSUME NEW t \in Threads, NEW c \in Codes, CreateUUID(t, c) PROVE Pictured'
    <2>1. /\ createUUID /\ pc'[t] = "upsert" /\ job'[t].uuid = drawn + 1
          /\ UNCHANGED <<products, overwritten, attached, outdated>>
          /\ \A s \in Threads \ {t} : pc'[s] = pc[s] /\ job'[s] = job[s]
      BY <1>1 DEF CreateUUID, Begin, Goto, NoJob, IInv, TypeOK
    <2> QED BY <2>1, DrawnIsNew, DrawnAreUuids, QuietKeepsPictures DEF QuietForPictures
  <1>2. ASSUME NEW t \in Threads, NEW i \in DOMAIN products, PutPicture(t, i) PROVE Pictured'
    <2>1. /\ createUUID /\ pc'[t] = "upload"
          /\ UNCHANGED <<products, overwritten, attached, outdated>>
          /\ \A s \in Threads \ {t} : pc'[s] = pc[s] /\ job'[s] = job[s]
      BY <1>2 DEF PutPicture, Begin, Goto, IInv, TypeOK
    <2> QED BY <2>1, DrawnIsNew, DrawnAreUuids, QuietKeepsPictures DEF QuietForPictures
  <1>3. ASSUME NEW t \in Threads, UpsertFindsNone(t) \/ Upload(t) \/ ReadBack(t) \/ Undo(t)
                                   \/ Enter(t) \/ Confirm(t) \/ UploadFails(t)
        PROVE  Pictured'
    <2>1. /\ UNCHANGED <<drawn, products, overwritten, attached, outdated>>
          /\ \A s \in Threads \ {t} : pc'[s] = pc[s] /\ job'[s] = job[s]
      BY <1>3 DEF UpsertFindsNone, Upload, ReadBack, Undo, Enter, Confirm, UploadFails,
                  End, Goto, IInv, TypeOK
    <2>2. \/ pc[t] = "upsert" /\ pc'[t] = "insert" /\ job'[t] = job[t]
          \/ pc[t] = "form" /\ pc'[t] = "set" /\ job'[t] = job[t]
          \/ pc'[t] \in {"idle", "addPicture", "undo"}
      BY <1>3 DEF UpsertFindsNone, Upload, ReadBack, Undo, Enter, Confirm, UploadFails,
                  End, Goto, IInv, TypeOK
    <2> QED BY <2>1, <2>2, QuietKeepsPictures DEF QuietForPictures
  <1>4. CASE Crash
    <2>1. \A s \in Threads : \/ pc'[s] = "idle"
                             \/ pc'[s] = "form" /\ pc[s] = "form" /\ job'[s] = job[s]
      <3> DEFINE Struck == {t \in Threads : pc[t] \notin {"idle", "form"}}
      <3>1. /\ pc'  = [t \in Threads |-> IF t \in Struck THEN "idle" ELSE pc[t]]
            /\ job' = [t \in Threads |-> IF t \in Struck THEN NoJob ELSE job[t]]
        BY <1>4 DEF Crash
      <3> QED BY <3>1
    <2> QED BY <1>4, <2>1, QuietKeepsPictures DEF Crash, QuietForPictures
  <1>5. CASE UNCHANGED vars
    BY <1>5, QuietKeepsPictures DEF vars, QuietForPictures
  <1>6. ASSUME NEW t \in Threads, Request(t) PROVE Pictured'
    BY <1>1, <1>2, <1>6, ReadFormKeepsPictures DEF Request
  <1>7. ASSUME NEW t \in Threads, Work(t) PROVE Pictured'
    BY <1>3, <1>7, UpsertKeepsPictures, InsertKeepsPictures, SetKeepsPictures, AddPictureKeepsPictures DEF Work
  <1> QED BY <1>4, <1>5, <1>6, <1>7 DEF Next, Quiet

-----------------------------------------------------------------------------
(***************************************************************************)
(* The theorems.                                                           *)
(***************************************************************************)

\* Every variable keeps its type: a picture that is attached has a uuid, and a
\* product its code, after any updates with forms read before.
THEOREM ProductTypes == Spec => []TypeOK
  BY Invariance, PTL DEF IInv

\* createProduct and its read-back: a stored product is registered, unless it was
\* updated before its creation read it back.
THEOREM StoredProductsAreRegistered == Spec => []StoredRegistered
  BY Invariance, PTL DEF IInv

\* createProduct is refused only if another client wrote the product meanwhile.
THEOREM RefusalsHaveACause == Spec => []RefusedForACause
  BY Invariance, PTL DEF IInv

\* The upsert with an empty query: there are never more products than clients.
THEOREM ProductsAreFew == Spec => []AsManyAsThreads
  <1>1. IInv => AsManyAsThreads
    BY Counts DEF IInv, TypeOK, Room, AsManyAsThreads, Inserting
  <1> QED BY <1>1, Invariance, PTL

\* putPicture and updateProduct: a picture stays with its product but for forms
\* read before it, and is shown by another only if that overwrote its product.
THEOREM PicturesStayWithProducts == Spec => []PicturesStay
  <1>1. Init => Pictured
    BY DEF Init, Pictured, PicturesStay, At
  <1>2. IInv /\ Pictured /\ [Next]_vars => Pictured'
    BY PicturesInductive
  <1>3. Spec => []Pictured
    BY <1>1, <1>2, Invariance, PTL DEF Spec
  <1> QED BY <1>3, PTL DEF Pictured
============================================================================

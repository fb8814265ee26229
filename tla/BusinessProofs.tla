--------------------------- MODULE BusinessProofs ---------------------------
(***************************************************************************)
(* Theorems about businesses, for any number of threads, uuids, documents  *)
(* and values: first BusinessLifecycle, then the followers that are part   *)
(* of the documents of businesses, Subscriptions.                          *)
(***************************************************************************)
EXTENDS BusinessLife, Subscriptions, SequenceTheorems, FiniteSetTheorems, TLAPS

(***************************************************************************)
(* The inductive invariant.                                                *)
(***************************************************************************)
Docs == {d \in [Fields -> Domain] : d["uuid"] \in Uuids /\ d["_id"] \in Ids}

\* Which steps each operation goes through, and with which pattern.
Shape ==
    /\ docs \subseteq Docs
    /\ \A t \in Threads :
        /\ pc[t] = "idle" <=> op[t] = "none"
        /\ pc[t] \in {"reread", "rollback"} => op[t] = "create"
        /\ pc[t] \in {"load", "confirm"} => op[t] = "update"
        /\ op[t] = "create" =>
              /\ pc[t] \in {"query", "reread", "rollback"}
              /\ pat[t]["uuid"] \in Uuids /\ pat[t]["_id"] = None
        /\ op[t] = "delete" =>
              /\ pc[t] \in {"enter", "query"}
              /\ pat[t]["uuid"] \in ever
              /\ pat[t] = [Blank EXCEPT !["uuid"] = pat[t]["uuid"]]
        /\ op[t] = "update" =>
              /\ pat[t]["uuid"] \in Uuids
              /\ new[t]["uuid"] = pat[t]["uuid"]
        /\ pc[t] \in {"idle", "enter", "load"} => hit[t] = {}

\* Where uuids come from: each belongs to one creation at a time, and only
\* documents of that creation have it.
OwnedByThreads ==
    /\ \A t \in Threads : op[t] = "create" =>
          /\ pat[t]["uuid"] \in Taken
          /\ pc[t] = "query" => pat[t]["uuid"] \in registry
          /\ pc[t] = "query" /\ ~Redraw => pat[t]["uuid"] \notin ever
    /\ \A s, t \in Threads : op[s] = "create" /\ op[t] = "create" /\ s # t =>
          pat[s]["uuid"] # pat[t]["uuid"]

Owned ==
    /\ registry \subseteq drawn /\ ever \subseteq drawn /\ gone \subseteq ever
    /\ \A d \in docs : d["uuid"] \in ever
    /\ Redraw => gone = {}
    /\ OwnedByThreads

\* A creation whose uuid is stored already has found it, or is yet to ask.
MatchFinds ==
    \A t \in Threads : op[t] = "create" /\ pc[t] = "query" =>
        \A d \in docs : d["uuid"] = pat[t]["uuid"] =>
            "uuid" \in todo[t] \/ hit[t] # {}

\* A deletion that has asked knows the one document it is to remove.
DeleteFinds ==
    \A t \in Threads : op[t] = "delete" /\ pc[t] = "query" =>
        \/ todo[t] = {"uuid"} /\ hit[t] = {}
        \/ /\ todo[t] = {}
           /\ \A d \in docs : d["uuid"] = pat[t]["uuid"] => hit[t] = {d["_id"]}

\* What a creation in progress knows of the stored document with its uuid.
Knows(t, d) ==
    \/ pc[t] = "reread" /\ \A f \in Present(pat[t]) : d[f] = pat[t][f]
    \/ pc[t] \in {"reread", "rollback"} /\ d["_id"] \in moved[t]

\* Unless uuids come again, the document with the uuid of a creation is as it
\* was asked, or was written by another thread since.
OwnDocument ==
    ~Redraw => \A t \in Threads : op[t] = "create" =>
        \A d \in docs : d["uuid"] = pat[t]["uuid"] => Knows(t, d)

IInv ==
    /\ TypeOK
    /\ Shape
    /\ Owned
    /\ UuidsDistinct
    /\ MatchFinds
    /\ DeleteFinds
    /\ DeletedStaysDeleted
    /\ OwnDocument

-----------------------------------------------------------------------------
(***************************************************************************)
(* Lemmas about the data.                                                  *)
(***************************************************************************)
LEMMA FieldFacts ==
    /\ "uuid" \in Fields /\ "_id" \in Fields /\ None \in Domain
    /\ None \notin Uuids /\ None \notin Ids
    /\ Blank \in [Fields -> Domain]
    /\ Blank["uuid"] = None /\ Blank["_id"] = None
  BY NoneAssumption DEF Fields, Domain, Blank

\* A Business made for a request has the uuid given and no _id.
LEMMA BusinessFacts ==
    ASSUME NEW u \in Uuids, NEW kv \in KeyVals
    PROVE  /\ Business(u, kv) \in [Fields -> Domain]
           /\ Business(u, kv)["uuid"] = u
           /\ Business(u, kv)["_id"] = None
           /\ "uuid" \in Present(Business(u, kv))
  <1>1. "uuid" # "_id" /\ "uuid" \in Fields /\ "_id" \in Fields
    BY DEF Fields
  <1>2. \A f \in Fields : f \notin {"uuid", "_id"} => kv[f] \in Domain
    BY DEF Fields, KeyVals, Domain
  <1>3. Business(u, kv) \in [Fields -> Domain]
    BY <1>2 DEF Business, Domain
  <1>4. Business(u, kv)["uuid"] = u /\ Business(u, kv)["_id"] = None
    BY <1>1 DEF Business
  <1>5. u # None
    BY NoneAssumption
  <1>6. QED
    BY <1>1, <1>3, <1>4, <1>5 DEF Present

\* The pattern of a deletion by uuid matches by nothing else.
LEMMA DeletionPattern ==
    ASSUME NEW u \in Uuids
    PROVE  /\ [Blank EXCEPT !["uuid"] = u] \in [Fields -> Domain]
           /\ Present([Blank EXCEPT !["uuid"] = u]) = {"uuid"}
  BY FieldFacts DEF Present, Blank, Domain

\* An answered thread keeps nothing of its request; the others lose nothing.
Forgets(t) ==
    /\ pc'[t] = "idle" /\ op'[t] = "none" /\ todo'[t] = {} /\ hit'[t] = {}
    /\ pc' \in [Threads -> {"idle", "query", "reread", "rollback",
                            "enter", "load", "confirm"}]
    /\ op' \in [Threads -> {"none"} \cup Ops]
    /\ pat' \in [Threads -> [Fields -> Domain]]
    /\ new' \in [Threads -> [Fields -> Domain]]
    /\ todo' \in [Threads -> SUBSET Fields]
    /\ hit' \in [Threads -> SUBSET Ids]
    /\ moved' \in [Threads -> SUBSET Ids]
    /\ \A s \in Threads \ {t} :
         /\ pc'[s] = pc[s] /\ op'[s] = op[s] /\ pat'[s] = pat[s]
         /\ new'[s] = new[s] /\ todo'[s] = todo[s] /\ hit'[s] = hit[s]
         /\ moved'[s] = moved[s]

LEMMA AnswerForgets ==
    ASSUME TypeOK, NEW t \in Threads, Answer(t)
    PROVE  Forgets(t)
  BY FieldFacts DEF TypeOK, Answer, Forgets

\* Answering, and removing documents, disturbs no request of another thread.
LEMMA OthersUndisturbed ==
    ASSUME IInv, NEW t \in Threads, Forgets(t), docs' \subseteq docs
    PROVE  /\ UuidsDistinct' /\ MatchFinds' /\ DeleteFinds'
           /\ OwnDocument'
<1> USE DEF IInv
<1>1. \A s \in Threads : op'[s] # "none" =>
          /\ pc'[s] = pc[s] /\ op'[s] = op[s] /\ pat'[s] = pat[s]
          /\ todo'[s] = todo[s] /\ hit'[s] = hit[s] /\ moved'[s] = moved[s]
  BY DEF Forgets
<1>2. UuidsDistinct'
  BY DEF UuidsDistinct
<1>3. MatchFinds'
  <2> SUFFICES ASSUME NEW s \in Threads, op'[s] = "create", pc'[s] = "query",
                      NEW d \in docs', d["uuid"] = pat'[s]["uuid"]
               PROVE  "uuid" \in todo'[s] \/ hit'[s] # {}
    BY DEF MatchFinds
  <2>1. QED
    BY <1>1 DEF MatchFinds
<1>4. DeleteFinds'
  <2> SUFFICES ASSUME NEW s \in Threads, op'[s] = "delete", pc'[s] = "query"
               PROVE  \/ todo'[s] = {"uuid"} /\ hit'[s] = {}
                      \/ /\ todo'[s] = {}
                         /\ \A d \in docs' : d["uuid"] = pat'[s]["uuid"] =>
                                hit'[s] = {d["_id"]}
    BY DEF DeleteFinds
  <2>1. op[s] = "delete" /\ pc[s] = "query" /\ pat'[s] = pat[s]
    BY <1>1
  <2>2. QED
    BY <1>1, <2>1 DEF DeleteFinds
<1>5. OwnDocument'
  <2> SUFFICES ASSUME ~Redraw, NEW s \in Threads, op'[s] = "create",
                      NEW d \in docs', d["uuid"] = pat'[s]["uuid"]
               PROVE  Knows(s, d)'
    BY DEF OwnDocument
  <2>1. /\ op[s] = "create" /\ pc'[s] = pc[s] /\ pat'[s] = pat[s]
        /\ moved'[s] = moved[s]
    BY <1>1
  <2>2. Knows(s, d)
    BY <2>1 DEF OwnDocument
  <2>3. QED
    BY <2>1, <2>2 DEF Knows, Present
<1>6. QED
  BY <1>2, <1>3, <1>4, <1>5

-----------------------------------------------------------------------------
(***************************************************************************)
(* Every action keeps the inductive invariant: one lemma per action.       *)
(***************************************************************************)
LEMMA InitEstablishes == Init => IInv
<1> SUFFICES ASSUME Init PROVE IInv
  OBVIOUS
<1> USE FieldFacts DEF Init
<1>1. TypeOK
  BY DEF TypeOK
<1>2. Shape /\ Owned /\ UuidsDistinct
  BY DEF Shape, Owned, OwnedByThreads, UuidsDistinct
<1>3. MatchFinds /\ DeleteFinds /\ DeletedStaysDeleted
  BY DEF MatchFinds, DeleteFinds, DeletedStaysDeleted
<1>4. OwnDocument
  BY DEF OwnDocument, Knows
<1>5. QED
  BY <1>1, <1>2, <1>3, <1>4 DEF IInv

LEMMA CreateUUIDKeeps ==
    ASSUME IInv, NEW t \in Threads, NEW u \in Uuids, NEW kv \in KeyVals,
           CreateUUID(t, u, kv)
    PROVE  IInv'
<1> USE BusinessFacts, FieldFacts DEF IInv, CreateUUID, Idle, Goto
<1>1. TypeOK'
  BY DEF TypeOK, Present
<1>2. op[t] = "none" /\ hit[t] = {}
  BY DEF Shape
<1>3. Shape'
  BY <1>2 DEF Shape, TypeOK
<1>4. u \notin registry /\ (~Redraw => u \notin drawn)
  BY DEF Taken, Owned
<1>5. Owned'
  BY <1>2, <1>4 DEF Owned, OwnedByThreads, Taken, TypeOK
<1>6. UuidsDistinct'
  BY DEF UuidsDistinct
<1>7. MatchFinds'
  BY <1>2 DEF MatchFinds, TypeOK
<1>8. DeleteFinds' /\ DeletedStaysDeleted'
  BY <1>2 DEF DeleteFinds, DeletedStaysDeleted, TypeOK
<1>9. ~Redraw => \A d \in docs : d["uuid"] # u
  BY <1>4 DEF Owned
<1>10. OwnDocument'
  <2> SUFFICES ASSUME ~Redraw, NEW s \in Threads, op'[s] = "create",
                      NEW d \in docs, d["uuid"] = pat'[s]["uuid"]
               PROVE  Knows(s, d)'
    BY DEF OwnDocument
  <2>1. s # t
    BY <1>9, BusinessFacts DEF TypeOK
  <2>2. op[s] = "create" /\ pat'[s] = pat[s] /\ pc'[s] = pc[s]
    BY <2>1 DEF TypeOK
  <2>3. QED
    BY <2>2 DEF OwnDocument, Knows, Present
<1>13. QED
  BY <1>1, <1>3, <1>5, <1>6, <1>7, <1>8, <1>10

LEMMA QueryKeeps ==
    ASSUME IInv, NEW t \in Threads, Query(t)
    PROVE  IInv'
<1> DEFINE f == NextField(todo[t])
           found == Matches(f, pat[t][f])
<1>1. /\ pc[t] = "query" /\ todo[t] # {}
      /\ todo' = [todo EXCEPT ![t] = @ \ {f}]
      /\ UNCHANGED <<registry, docs, monitor, pc, op, pat, new,
                     drawn, spent, ever, gone, moved>>
      /\ \/ found = {} /\ hit' = hit
         \/ \E d \in found : hit' = [hit EXCEPT ![t] = @ \cup {d["_id"]}]
  BY DEF Query, service, history
<1>2. todo[t] = {"uuid"} => f = "uuid"
  BY DEF NextField
<1>3. /\ found \subseteq docs
      /\ f = "uuid" => found = {d \in docs : d["uuid"] = pat[t]["uuid"]}
  BY DEF Matches
<1> HIDE DEF f, found
<1> USE DEF IInv
<1>4. \A d \in docs : d["_id"] \in Ids
  BY DEF Shape, Docs
<1>5. todo' \in [Threads -> SUBSET Fields] /\ hit' \in [Threads -> SUBSET Ids]
  <2>1. hit \in [Threads -> SUBSET Ids] /\ todo \in [Threads -> SUBSET Fields]
    BY DEF TypeOK
  <2>2. todo' \in [Threads -> SUBSET Fields]
    BY <1>1, <2>1
  <2>3. CASE hit' = hit
    BY <2>1, <2>2, <2>3
  <2>4. ASSUME NEW d \in found, hit' = [hit EXCEPT ![t] = @ \cup {d["_id"]}]
        PROVE  hit' \in [Threads -> SUBSET Ids]
    BY <1>3, <1>4, <2>1, <2>4
  <2>5. QED
    BY <1>1, <2>2, <2>3, <2>4
<1>6. \A s \in Threads : s # t => todo'[s] = todo[s] /\ hit'[s] = hit[s]
  BY <1>1 DEF TypeOK
<1>7. todo'[t] = todo[t] \ {f}
  BY <1>1 DEF TypeOK
<1>8. \/ found = {} /\ hit'[t] = hit[t]
      \/ \E d \in found : hit'[t] = hit[t] \cup {d["_id"]}
  BY <1>1 DEF TypeOK
<1>9. TypeOK'
  BY <1>1, <1>5 DEF TypeOK
<1>10. Shape'
  BY <1>1, <1>6 DEF Shape
<1>11. Owned' /\ UuidsDistinct' /\ DeletedStaysDeleted'
  BY <1>1 DEF Owned, OwnedByThreads, UuidsDistinct, DeletedStaysDeleted, Taken
<1>12. OwnDocument'
  BY <1>1 DEF OwnDocument, Knows
<1>13. MatchFinds'
  <2> SUFFICES ASSUME NEW s \in Threads, op[s] = "create", pc[s] = "query",
                      NEW d \in docs, d["uuid"] = pat[s]["uuid"]
               PROVE  "uuid" \in todo'[s] \/ hit'[s] # {}
    BY <1>1 DEF MatchFinds
  <2>1. "uuid" \in todo[s] \/ hit[s] # {}
    BY DEF MatchFinds
  <2>2. CASE s # t
    BY <1>6, <2>1, <2>2
  <2>3. CASE s = t /\ f = "uuid"
    <3>1. found # {}
      BY <1>3, <2>3
    <3>2. QED
      BY <1>8, <2>3, <3>1
  <2>4. CASE s = t /\ f # "uuid"
    BY <1>7, <1>8, <2>1, <2>4
  <2>5. QED
    BY <2>2, <2>3, <2>4
<1>14. DeleteFinds'
  <2> SUFFICES ASSUME NEW s \in Threads, op[s] = "delete", pc[s] = "query"
               PROVE  \/ todo'[s] = {"uuid"} /\ hit'[s] = {}
                      \/ /\ todo'[s] = {}
                         /\ \A d \in docs : d["uuid"] = pat[s]["uuid"] =>
                                hit'[s] = {d["_id"]}
    BY <1>1 DEF DeleteFinds
  <2>1. CASE s # t
    BY <1>6, <2>1 DEF DeleteFinds
  <2>2. CASE s = t
    <3>1. todo[t] = {"uuid"} /\ hit[t] = {}
      BY <1>1, <2>2 DEF DeleteFinds
    <3>2. todo'[t] = {}
      BY <1>2, <1>7, <3>1
    <3>3. ASSUME NEW d \in docs, d["uuid"] = pat[t]["uuid"]
          PROVE  hit'[t] = {d["_id"]}
      <4>1. found = {d}
        BY <1>2, <1>3, <3>1, <3>3 DEF UuidsDistinct
      <4>2. QED
        BY <1>8, <3>1, <4>1
    <3>4. QED
      BY <2>2, <3>2, <3>3
  <2>3. QED
    BY <2>1, <2>2
<1>15. QED
  BY <1>9, <1>10, <1>11, <1>12, <1>13, <1>14

LEMMA SaveKeeps ==
    ASSUME IInv, NEW t \in Threads, NEW i \in Ids, Save(t, i)
    PROVE  IInv'
<1> DEFINE u == pat[t]["uuid"]
           saved == [pat[t] EXCEPT !["_id"] = i]
<1> USE DEF IInv
<1>1. /\ op[t] = "create" /\ pc[t] = "query" /\ todo[t] = {} /\ hit[t] = {}
      /\ docs' = docs \cup {saved}
      /\ spent' = spent \cup {i} /\ ever' = ever \cup {u}
      /\ pc' = [pc EXCEPT ![t] = "reread"]
      /\ Written(t, {i})
      /\ UNCHANGED <<registry, monitor, op, pat, new, todo, hit, drawn, gone>>
  BY DEF Save, Goto
<1>0. OwnedByThreads
  BY DEF Owned
<1>2. u \in Uuids /\ u \in registry /\ pat[t]["_id"] = None
  <2>1. u \in registry
    BY <1>0, <1>1 DEF OwnedByThreads
  <2>2. QED
    BY <1>1, <2>1 DEF Shape
<1>3. /\ saved \in Docs /\ saved["uuid"] = u
      /\ \A f \in Fields : f # "_id" => saved[f] = pat[t][f]
  BY <1>2, FieldFacts DEF TypeOK, Docs, Domain
<1>4. \A d \in docs : d["uuid"] # u
  BY <1>1 DEF MatchFinds
<1>5. ~Redraw => u \notin ever
  BY <1>0, <1>1 DEF OwnedByThreads
<1>6. \A s \in Threads : op[s] = "delete" => ~Redraw
  BY RedrawAssumption DEF TypeOK
<1>7. \A s \in Threads : s # t /\ op[s] = "create" => pat[s]["uuid"] # u
  BY <1>1 DEF Owned, OwnedByThreads
<1>8. TypeOK'
  BY <1>1, <1>2, <1>3 DEF TypeOK, Docs, Written
<1>9. Shape'
  BY ZenonT(60), <1>1, <1>3 DEF Shape, TypeOK
<1>10. Owned'
  BY ZenonT(60), <1>1, <1>2, <1>3, <1>7 DEF Owned, OwnedByThreads, Taken, TypeOK
<1>11. UuidsDistinct'
  BY ZenonT(60), <1>1, <1>3, <1>4 DEF UuidsDistinct
<1>12. MatchFinds'
  <2> SUFFICES ASSUME NEW s \in Threads, op[s] = "create", pc'[s] = "query",
                      NEW d \in docs', d["uuid"] = pat[s]["uuid"]
               PROVE  "uuid" \in todo[s] \/ hit[s] # {}
    BY <1>1 DEF MatchFinds
  <2>1. s # t /\ pc[s] = "query"
    BY <1>1 DEF TypeOK
  <2>2. d \in docs
    BY <1>1, <1>3, <1>7, <2>1
  <2>3. QED
    BY <2>1, <2>2 DEF MatchFinds
<1>13. DeleteFinds'
  <2> SUFFICES ASSUME NEW s \in Threads, op[s] = "delete", pc[s] = "query"
               PROVE  pat[s]["uuid"] # u /\ s # t
    <3> SUFFICES ASSUME NEW s \in Threads, op[s] = "delete", pc'[s] = "query"
                 PROVE  \/ todo[s] = {"uuid"} /\ hit[s] = {}
                        \/ /\ todo[s] = {}
                           /\ \A d \in docs' : d["uuid"] = pat[s]["uuid"] =>
                                  hit[s] = {d["_id"]}
      BY <1>1 DEF DeleteFinds
    <3>1. pc[s] = "query" /\ pat[s]["uuid"] # saved["uuid"]
      BY <1>1, <1>3 DEF TypeOK
    <3>2. QED
      BY <1>1, <3>1 DEF DeleteFinds
  <2>1. QED
    BY <1>1, <1>5, <1>6 DEF Shape
<1>14. DeletedStaysDeleted'
  BY <1>1, <1>3, <1>5 DEF DeletedStaysDeleted, Owned, OwnedByThreads
<1>15. OwnDocument'
  <2> SUFFICES ASSUME ~Redraw, NEW s \in Threads, op[s] = "create",
                      NEW d \in docs', d["uuid"] = pat[s]["uuid"]
               PROVE  Knows(s, d)'
    BY <1>1 DEF OwnDocument
  <2>1. CASE s = t
    <3>1. d = saved
      BY <1>1, <1>4, <2>1
    <3>2. pc'[s] = "reread"
      BY <1>1, <2>1 DEF TypeOK
    <3>3. QED
      BY <1>1, <1>2, <1>3, <2>1, <3>1, <3>2 DEF Knows, Present, TypeOK
  <2>2. CASE s # t
    <3>1. d \in docs
      BY <1>1, <1>3, <1>7, <2>2
    <3>2. pc'[s] = pc[s] /\ pat'[s] = pat[s] /\ moved[s] \subseteq moved'[s]
      BY <1>1, <2>2 DEF TypeOK, Written
    <3>3. QED
      BY <3>1, <3>2 DEF OwnDocument, Knows, Present
  <2>3. QED
    BY <2>1, <2>2
<1>17. QED
  BY <1>8, <1>9, <1>10, <1>11, <1>12, <1>13, <1>14, <1>15

LEMMA RefuseKeeps ==
    ASSUME IInv, NEW t \in Threads, Refuse(t)
    PROVE  IInv'
<1> USE DEF IInv
<1>1. /\ pc[t] = "query" /\ op[t] = "create"
      /\ pc' = [pc EXCEPT ![t] = "rollback"]
      /\ UNCHANGED <<registry, docs, monitor, op, pat, new, todo, hit,
                     drawn, spent, ever, gone, moved>>
  BY DEF Refuse, Goto, service, history
<1>2. TypeOK' /\ Shape'
  BY <1>1 DEF TypeOK, Shape
<1>3. Owned' /\ UuidsDistinct' /\ DeletedStaysDeleted'
  BY <1>1 DEF Owned, OwnedByThreads, UuidsDistinct, DeletedStaysDeleted, Taken, TypeOK
<1>4. MatchFinds' /\ DeleteFinds'
  BY <1>1 DEF MatchFinds, DeleteFinds, TypeOK
<1>5. OwnDocument'
  BY <1>1 DEF OwnDocument, Knows, TypeOK
<1>6. QED
  BY <1>2, <1>3, <1>4, <1>5

LEMMA AnswerShape ==
    ASSUME IInv, NEW t \in Threads, Forgets(t), docs' \subseteq docs,
           UNCHANGED <<drawn, ever>>,
           \/ registry' = registry
           \/ op[t] = "create" /\ registry' = registry \ {pat[t]["uuid"]}
    PROVE  Shape' /\ OwnedByThreads'
<1> USE DEF IInv
<1>1. \A s \in Threads : s # t =>
          /\ pc'[s] = pc[s] /\ op'[s] = op[s] /\ pat'[s] = pat[s]
          /\ new'[s] = new[s] /\ hit'[s] = hit[s]
  BY DEF Forgets
<1>2. pc'[t] = "idle" /\ op'[t] = "none" /\ hit'[t] = {}
  BY DEF Forgets
<1>3. docs' \subseteq Docs
  BY DEF Shape
<1>4. Shape'
  <2> SUFFICES ASSUME NEW s \in Threads
      PROVE
        /\ pc'[s] = "idle" <=> op'[s] = "none"
        /\ pc'[s] \in {"reread", "rollback"} => op'[s] = "create"
        /\ pc'[s] \in {"load", "confirm"} => op'[s] = "update"
        /\ op'[s] = "create" =>
              /\ pc'[s] \in {"query", "reread", "rollback"}
              /\ pat'[s]["uuid"] \in Uuids /\ pat'[s]["_id"] = None
        /\ op'[s] = "delete" =>
              /\ pc'[s] \in {"enter", "query"}
              /\ pat'[s]["uuid"] \in ever
              /\ pat'[s] = [Blank EXCEPT !["uuid"] = pat'[s]["uuid"]]
        /\ op'[s] = "update" =>
              /\ pat'[s]["uuid"] \in Uuids
              /\ new'[s]["uuid"] = pat'[s]["uuid"]
        /\ pc'[s] \in {"idle", "enter", "load"} => hit'[s] = {}
    BY <1>3 DEF Shape, Blank, Fields
  <2>1. CASE s = t
    BY <1>2, <2>1
  <2>2. CASE s # t
    BY <1>1, <2>2 DEF Shape
  <2>3. QED
    BY <2>1, <2>2
<1>5. \A s \in Threads : op'[s] = "create" =>
          s # t /\ op[s] = "create" /\ pc'[s] = pc[s] /\ pat'[s] = pat[s]
  BY <1>1, <1>2
<1>6. \A s \in Threads : op'[s] = "create" =>
          /\ pat[s]["uuid"] \in Taken' <=> pat[s]["uuid"] \in Taken
          /\ pat[s]["uuid"] \in registry' <=> pat[s]["uuid"] \in registry
  BY <1>5 DEF Owned, OwnedByThreads, Taken
<1>7. OwnedByThreads'
  BY <1>5, <1>6 DEF Owned, OwnedByThreads
<1>8. QED
  BY <1>4, <1>7

\* An answer that leaves the registry and the collections alone.
LEMMA AnswerKeeps ==
    ASSUME IInv, NEW t \in Threads, Answer(t), op[t] # "delete",
           monitor' \in Threads \cup {None},
           UNCHANGED <<registry, docs, drawn, spent, ever, gone>>
    PROVE  IInv'
<1>1. Forgets(t)
  BY AnswerForgets DEF IInv
<1>2. UuidsDistinct' /\ MatchFinds' /\ DeleteFinds' /\ OwnDocument'
  BY <1>1, OthersUndisturbed
<1> USE <1>1 DEF IInv, Forgets
<1>3. TypeOK' /\ DeletedStaysDeleted'
  BY DEF TypeOK, DeletedStaysDeleted
<1>4. Shape' /\ OwnedByThreads'
  BY <1>1, AnswerShape
<1>5. Owned'
  BY <1>4 DEF Owned
<1>7. QED
  BY <1>2, <1>3, <1>4, <1>5

LEMMA RereadKeeps ==
    ASSUME IInv, NEW t \in Threads, Reread(t)
    PROVE  IInv'
<1>1. /\ pc[t] = "reread" /\ op[t] = "create"
      /\ UNCHANGED <<registry, docs, monitor, drawn, spent, ever, gone>>
  BY DEF Reread, service, Shape, IInv
<1>2. CASE MatchesAll(pat[t]) # {} /\ Answer(t)
  BY <1>1, <1>2, AnswerKeeps DEF IInv, TypeOK
<1>3. CASE /\ MatchesAll(pat[t]) = {}
           /\ pc' = [pc EXCEPT ![t] = "rollback"]
           /\ UNCHANGED <<op, pat, new, todo, hit, moved>>
  <2> USE DEF IInv
  <2>1. TypeOK' /\ Shape'
    BY <1>1, <1>3 DEF TypeOK, Shape
  <2>2. Owned' /\ UuidsDistinct' /\ DeletedStaysDeleted'
    BY <1>1, <1>3 DEF Owned, OwnedByThreads, UuidsDistinct, DeletedStaysDeleted, Taken, TypeOK
  <2>3. MatchFinds' /\ DeleteFinds'
    BY <1>1, <1>3 DEF MatchFinds, DeleteFinds, TypeOK
  <2>4. ~Redraw => \A d \in docs : d["uuid"] = pat[t]["uuid"] => d["_id"] \in moved[t]
    BY <1>1, <1>3 DEF OwnDocument, Knows, MatchesAll
  <2>5. OwnDocument'
    BY <1>1, <1>3, <2>4 DEF OwnDocument, Knows, Present, TypeOK
  <2>6. QED
    BY <2>1, <2>2, <2>3, <2>5
<1>4. QED
  BY <1>2, <1>3 DEF Reread, Goto

LEMMA RollbackKeeps ==
    ASSUME IInv, NEW t \in Threads, Rollback(t)
    PROVE  IInv'
<1> DEFINE u == pat[t]["uuid"]
<1>1. /\ pc[t] = "rollback" /\ op[t] = "create" /\ Answer(t)
      /\ registry' = registry \ {u}
      /\ UNCHANGED <<docs, monitor, drawn, spent, ever, gone>>
  BY DEF Rollback, Shape, IInv
<1>2. Forgets(t)
  BY <1>1, AnswerForgets DEF IInv
<1>3. UuidsDistinct' /\ MatchFinds' /\ DeleteFinds' /\ OwnDocument'
  BY <1>1, <1>2, OthersUndisturbed
<1>4. \A s \in Threads : s # t /\ op[s] = "create" => pat[s]["uuid"] # u
  BY <1>1 DEF Owned, OwnedByThreads, IInv
<1> USE <1>1, <1>2 DEF IInv, Forgets
<1>6. TypeOK' /\ DeletedStaysDeleted'
  BY DEF TypeOK, DeletedStaysDeleted
<1>7. Shape' /\ OwnedByThreads'
  BY AnswerShape
<1>8. Owned'
  BY <1>7 DEF Owned
<1>10. QED
  BY <1>3, <1>6, <1>7, <1>8

LEMMA RemoveUUIDKeeps ==
    ASSUME IInv, NEW t \in Threads, NEW u \in ever, RemoveUUID(t, u)
    PROVE  IInv'
<1> USE DEF IInv
<1>1. /\ "delete" \in Ops /\ pc[t] = "idle" /\ op[t] = "none" /\ hit[t] = {}
      /\ registry' = registry \ {u}
      /\ op' = [op EXCEPT ![t] = "delete"]
      /\ pat' = [pat EXCEPT ![t] = [Blank EXCEPT !["uuid"] = u]]
      /\ pc' = [pc EXCEPT ![t] = "enter"]
      /\ UNCHANGED <<docs, monitor, new, todo, hit,
                     drawn, spent, ever, gone, moved>>
  BY DEF RemoveUUID, Idle, Goto, history, Shape
<1>2. ~Redraw /\ u \in Uuids
  BY <1>1, RedrawAssumption DEF TypeOK
<1>3. TypeOK'
  BY <1>1, <1>2, DeletionPattern DEF TypeOK
<1>4. pat'[t]["uuid"] = u /\ pat'[t] = [Blank EXCEPT !["uuid"] = u]
  BY <1>1, FieldFacts DEF TypeOK
<1>5. Shape'
  <2>1. \A s \in Threads : s # t =>
            pc'[s] = pc[s] /\ op'[s] = op[s] /\ pat'[s] = pat[s]
    BY <1>1 DEF TypeOK
  <2>2. pc'[t] = "enter" /\ op'[t] = "delete" /\ u \in ever
    BY <1>1 DEF TypeOK
  <2>3. QED
    BY <1>1, <1>4, <2>1, <2>2 DEF Shape
<1>6. OwnedByThreads
  BY DEF Owned
<1>7. \A s \in Threads : op'[s] = "create" =>
          s # t /\ op[s] = "create" /\ pc'[s] = pc[s] /\ pat'[s] = pat[s]
  BY <1>1 DEF TypeOK
<1>8. \A s \in Threads : op[s] = "create" /\ pc[s] = "query" =>
          pat[s]["uuid"] # u /\ pat[s]["uuid"] \in registry
  BY <1>2, <1>6 DEF OwnedByThreads
<1>9. OwnedByThreads'
  BY <1>1, <1>2, <1>6, <1>7, <1>8 DEF OwnedByThreads, Taken
<1>10. Owned'
  BY <1>1, <1>9 DEF Owned
<1>11. UuidsDistinct' /\ DeletedStaysDeleted'
  BY <1>1 DEF UuidsDistinct, DeletedStaysDeleted
<1>12. MatchFinds' /\ DeleteFinds'
  BY <1>1 DEF MatchFinds, DeleteFinds, TypeOK
<1>13. OwnDocument'
  BY <1>1, <1>7 DEF OwnDocument, Knows
<1>15. QED
  BY <1>3, <1>5, <1>10, <1>11, <1>12, <1>13

LEMMA DeleteByIdKeeps ==
    ASSUME IInv, NEW t \in Threads, NEW i \in spent, DeleteBusinessById(t, i)
    PROVE  IInv'
<1> USE DEF IInv
<1>1. /\ "deleteById" \in Ops /\ pc[t] = "idle" /\ op[t] = "none" /\ hit[t] = {}
      /\ op' = [op EXCEPT ![t] = "deleteById"]
      /\ pat' = [pat EXCEPT ![t] = [Blank EXCEPT !["_id"] = i]]
      /\ pc' = [pc EXCEPT ![t] = "enter"]
      /\ UNCHANGED <<registry, docs, monitor, new, todo, hit,
                     drawn, spent, ever, gone, moved>>
  BY DEF DeleteBusinessById, Idle, Goto, service, history, Shape
<1>2. [Blank EXCEPT !["_id"] = i] \in [Fields -> Domain]
  BY FieldFacts DEF TypeOK, Domain
<1>3. TypeOK'
  BY <1>1, <1>2 DEF TypeOK
<1>4. Shape'
  BY <1>1 DEF Shape, TypeOK
<1>5. \A s \in Threads : op'[s] \in {"create", "delete"} =>
          s # t /\ op[s] = op'[s] /\ pc'[s] = pc[s] /\ pat'[s] = pat[s]
  BY <1>1 DEF TypeOK
<1>6. Owned'
  BY <1>1, <1>5 DEF Owned, OwnedByThreads, Taken
<1>7. UuidsDistinct' /\ DeletedStaysDeleted'
  BY <1>1 DEF UuidsDistinct, DeletedStaysDeleted
<1>8. MatchFinds' /\ DeleteFinds'
  BY <1>1, <1>5 DEF MatchFinds, DeleteFinds
<1>9. OwnDocument'
  BY <1>1, <1>5 DEF OwnDocument, Knows
<1>11. QED
  BY <1>3, <1>4, <1>6, <1>7, <1>8, <1>9

LEMMA EnterKeeps ==
    ASSUME IInv, NEW t \in Threads, Enter(t)
    PROVE  IInv'
<1> USE DEF IInv
<1>1. /\ pc[t] = "enter" /\ op[t] \in {"delete", "deleteById", "update"}
      /\ hit[t] = {} /\ monitor' = t
      /\ \/ op[t] = "update" /\ pc' = [pc EXCEPT ![t] = "load"] /\ todo' = todo
         \/ /\ op[t] # "update" /\ pc' = [pc EXCEPT ![t] = "query"]
            /\ todo' = [todo EXCEPT ![t] = Present(pat[t])]
      /\ UNCHANGED <<registry, docs, op, pat, new, hit,
                     drawn, spent, ever, gone, moved>>
  BY OpsAssumption DEF Enter, Goto, history, Shape, TypeOK
<1>2. op[t] = "delete" => Present(pat[t]) = {"uuid"}
  BY DeletionPattern DEF Shape, TypeOK
<1>3. TypeOK'
  BY ZenonT(60), <1>1 DEF TypeOK, Present
<1>4. Shape'
  BY <1>1 DEF Shape, TypeOK
<1>5. \A s \in Threads : op[s] = "create" => pc'[s] = pc[s] /\ todo'[s] = todo[s]
  BY <1>1 DEF TypeOK
<1>6. Owned'
  BY <1>1, <1>5 DEF Owned, OwnedByThreads, Taken
<1>7. UuidsDistinct' /\ DeletedStaysDeleted'
  BY <1>1 DEF UuidsDistinct, DeletedStaysDeleted
<1>8. MatchFinds'
  BY <1>1, <1>5 DEF MatchFinds
<1>9. DeleteFinds'
  <2> SUFFICES ASSUME NEW s \in Threads, op[s] = "delete", pc'[s] = "query"
               PROVE  \/ todo'[s] = {"uuid"} /\ hit[s] = {}
                      \/ /\ todo'[s] = {}
                         /\ \A d \in docs : d["uuid"] = pat[s]["uuid"] =>
                                hit[s] = {d["_id"]}
    BY <1>1 DEF DeleteFinds
  <2>1. CASE s = t
    BY <1>1, <1>2, <2>1 DEF TypeOK
  <2>2. CASE s # t
    BY <1>1, <2>2 DEF DeleteFinds, TypeOK
  <2>3. QED
    BY <2>1, <2>2
<1>10. OwnDocument'
  BY <1>1, <1>5 DEF OwnDocument, Knows
<1>12. QED
  BY <1>3, <1>4, <1>6, <1>7, <1>8, <1>9, <1>10

LEMMA RemoveKeeps ==
    ASSUME IInv, NEW t \in Threads, Remove(t)
    PROVE  IInv'
<1> DEFINE u == pat[t]["uuid"]
<1>1. /\ pc[t] = "query" /\ todo[t] = {} /\ Answer(t)
      /\ op[t] \in {"delete", "deleteById"} /\ monitor' = None
      /\ docs' \subseteq docs
      /\ Cardinality(hit[t]) = 1 =>
             docs' = {d \in docs : d["_id"] \notin hit[t]}
      /\ gone' = IF op[t] = "delete" THEN gone \cup {u} ELSE gone
      /\ UNCHANGED <<registry, drawn, spent, ever>>
  BY DEF Remove
<1>2. Forgets(t)
  BY <1>1, AnswerForgets DEF IInv
<1>3. UuidsDistinct' /\ MatchFinds' /\ DeleteFinds' /\ OwnDocument'
  BY <1>1, <1>2, OthersUndisturbed
<1>4. Shape' /\ OwnedByThreads'
  BY <1>1, <1>2, AnswerShape
<1> USE DEF IInv
<1>5. ASSUME op[t] = "delete"
      PROVE  \A d \in docs' : d["uuid"] # u
  <2> SUFFICES ASSUME NEW d \in docs, d \in docs', d["uuid"] = u
               PROVE  FALSE
    BY <1>1
  <2>1. hit[t] = {d["_id"]}
    BY <1>1, <1>5 DEF DeleteFinds
  <2>2. Cardinality(hit[t]) = 1
    BY <2>1, FS_Singleton
  <2>3. QED
    BY <1>1, <2>1, <2>2
<1>6. op[t] = "delete" => ~Redraw /\ u \in ever
  BY RedrawAssumption DEF TypeOK, Shape
<1>7. TypeOK'
  BY <1>1, <1>2, <1>6 DEF TypeOK, Forgets
<1>8. Owned'
  BY <1>1, <1>4, <1>6 DEF Owned
<1>9. DeletedStaysDeleted'
  BY <1>1, <1>5 DEF DeletedStaysDeleted
<1>11. QED
  BY <1>3, <1>4, <1>7, <1>8, <1>9

LEMMA UpdateBusinessKeeps ==
    ASSUME IInv, NEW t \in Threads, NEW u \in ever, NEW kv \in KeyVals,
           UpdateBusiness(t, u, kv)
    PROVE  IInv'
<1> DEFINE asked == [Blank EXCEPT !["uuid"] = u]
<1> USE DEF IInv
<1>1. /\ "update" \in Ops /\ pc[t] = "idle" /\ op[t] = "none" /\ hit[t] = {}
      /\ op' = [op EXCEPT ![t] = "update"]
      /\ pat' = [pat EXCEPT ![t] = asked]
      /\ new' = [new EXCEPT ![t] = Business(u, kv)]
      /\ pc' = [pc EXCEPT ![t] = "enter"]
      /\ UNCHANGED <<registry, docs, monitor, todo, hit,
                     drawn, spent, ever, gone, moved>>
  BY DEF UpdateBusiness, Idle, Goto, service, history, Shape
<1>2. u \in Uuids /\ asked \in [Fields -> Domain] /\ asked["uuid"] = u
  BY DeletionPattern, FieldFacts DEF TypeOK
<1>3. TypeOK'
  BY <1>1, <1>2, BusinessFacts DEF TypeOK
<1>4. \A s \in Threads : op'[s] \in {"create", "delete"} =>
          s # t /\ op[s] = op'[s] /\ pc'[s] = pc[s] /\ pat'[s] = pat[s]
  BY <1>1 DEF TypeOK
<1>5. Shape'
  <2>1. \A s \in Threads : s # t =>
            /\ pc'[s] = pc[s] /\ op'[s] = op[s] /\ pat'[s] = pat[s]
            /\ new'[s] = new[s]
    BY <1>1 DEF TypeOK
  <2>2. /\ pc'[t] = "enter" /\ op'[t] = "update"
        /\ pat'[t]["uuid"] = u /\ new'[t]["uuid"] = u
    BY <1>1, <1>2, BusinessFacts DEF TypeOK
  <2>3. QED
    BY <1>1, <1>2, <2>1, <2>2 DEF Shape
<1>6. Owned'
  BY <1>1, <1>4 DEF Owned, OwnedByThreads, Taken
<1>7. UuidsDistinct' /\ DeletedStaysDeleted'
  BY <1>1 DEF UuidsDistinct, DeletedStaysDeleted
<1>8. MatchFinds' /\ DeleteFinds'
  BY <1>1, <1>4 DEF MatchFinds, DeleteFinds
<1>9. OwnDocument'
  BY <1>1 DEF OwnDocument, Knows
<1>10. QED
  BY <1>3, <1>5, <1>6, <1>7, <1>8, <1>9

LEMMA LoadKeeps ==
    ASSUME IInv, NEW t \in Threads, Load(t)
    PROVE  IInv'
<1>1. pc[t] = "load" /\ hit[t] = {} /\ op[t] = "update" /\ "update" \in Ops
  BY OpsAssumption DEF Load, IInv, Shape, TypeOK
<1>2. CASE monitor' = None /\ Answer(t)
  BY <1>1, <1>2, AnswerKeeps DEF Load
<1>3. ASSUME NEW d \in Matches("uuid", pat[t]["uuid"]),
             pat' = [pat EXCEPT ![t] = d],
             todo' = [todo EXCEPT ![t] = Present(d)],
             pc' = [pc EXCEPT ![t] = "query"],
             UNCHANGED <<monitor, op, new, hit, moved>>
      PROVE  IInv'
  <2> USE DEF IInv
  <2>0. UNCHANGED <<registry, docs, drawn, spent, ever, gone>>
    BY DEF Load
  <2>1. d \in docs /\ d["uuid"] = pat[t]["uuid"] /\ d \in [Fields -> Domain]
    BY DEF Matches, TypeOK
  <2>2. TypeOK'
    BY <1>3, <2>0, <2>1 DEF TypeOK, Present
  <2>3. \A s \in Threads : op[s] \in {"create", "delete"} =>
            /\ s # t /\ pc'[s] = pc[s] /\ pat'[s] = pat[s]
            /\ todo'[s] = todo[s]
    BY <1>1, <1>3 DEF TypeOK
  <2>4. Shape'
    <3>1. \A s \in Threads : s # t => pc'[s] = pc[s] /\ pat'[s] = pat[s]
      BY <1>3 DEF TypeOK
    <3>2. pc'[t] = "query" /\ pat'[t] = d
      BY <1>3 DEF TypeOK
    <3>3. QED
      BY <1>1, <1>3, <2>0, <2>1, <3>1, <3>2 DEF Shape
  <2>5. Owned'
    BY <1>3, <2>0, <2>3 DEF Owned, OwnedByThreads, Taken
  <2>6. UuidsDistinct' /\ DeletedStaysDeleted'
    BY <2>0 DEF UuidsDistinct, DeletedStaysDeleted
  <2>7. MatchFinds' /\ DeleteFinds'
    BY <1>3, <2>0, <2>3 DEF MatchFinds, DeleteFinds
  <2>8. OwnDocument'
    <3> SUFFICES ASSUME ~Redraw, NEW s \in Threads, op[s] = "create",
                        NEW e \in docs, e["uuid"] = pat'[s]["uuid"]
                 PROVE  Knows(s, e)'
      BY <1>3, <2>0 DEF OwnDocument
    <3>1. pc'[s] = pc[s] /\ pat'[s] = pat[s] /\ moved' = moved
      BY <1>3, <2>3
    <3>2. Knows(s, e)
      BY <3>1 DEF OwnDocument
    <3>3. QED
      BY <3>1, <3>2 DEF Knows, Present
  <2>9. QED
    BY <2>2, <2>4, <2>5, <2>6, <2>7, <2>8
<1>4. QED
  BY <1>2, <1>3 DEF Load, Goto

\* $set leaves the identities alone.
LEMMA OverlayKeepsIdentity ==
    ASSUME NEW d \in Docs, NEW b \in [Fields -> Domain],
           b["uuid"] = d["uuid"]
    PROVE  /\ Overlay(d, b) \in Docs
           /\ Overlay(d, b)["uuid"] = d["uuid"]
           /\ Overlay(d, b)["_id"] = d["_id"]
  BY FieldFacts DEF Overlay, Docs

LEMMA SetKeeps ==
    ASSUME IInv, NEW t \in Threads, Set(t)
    PROVE  IInv'
<1> USE DEF IInv
<1>1. /\ op[t] = "update" /\ pc[t] = "query" /\ "update" \in Ops
      /\ pc' = [pc EXCEPT ![t] = "confirm"]
      /\ UNCHANGED <<registry, monitor, op, pat, new, todo, hit,
                     drawn, spent, ever, gone>>
  BY OpsAssumption DEF Set, Goto, TypeOK
<1>2. /\ docs' \subseteq Docs
      /\ moved' \in [Threads -> SUBSET Ids]
      /\ \A e \in docs' : \E d \in docs :
            /\ e["uuid"] = d["uuid"] /\ e["_id"] = d["_id"]
            /\ e = d \/ \A s \in Threads : op[s] = "create" => d["_id"] \in moved'[s]
      /\ \A s \in Threads : moved[s] \subseteq moved'[s]
      /\ UuidsDistinct'
  <2>1. CASE UNCHANGED <<docs, moved>>
    BY <2>1 DEF Shape, TypeOK, UuidsDistinct
  <2>2. ASSUME NEW d \in Matches("uuid", pat[t]["uuid"]),
               docs' = (docs \ {d}) \cup {Overlay(d, new[t])},
               Written(t, {d["_id"]})
        PROVE  <1>2
    <3>1. d \in docs /\ d \in Docs /\ d["uuid"] = pat[t]["uuid"]
      BY DEF Matches, Shape
    <3>2. new[t] \in [Fields -> Domain] /\ new[t]["uuid"] = d["uuid"]
      BY <1>1, <3>1 DEF TypeOK, Shape
    <3>3. /\ Overlay(d, new[t]) \in Docs
          /\ Overlay(d, new[t])["uuid"] = d["uuid"]
          /\ Overlay(d, new[t])["_id"] = d["_id"]
      BY <3>1, <3>2, OverlayKeepsIdentity
    <3>4. UuidsDistinct'
      BY <2>2, <3>1, <3>3 DEF UuidsDistinct
    <3>5. moved' \in [Threads -> SUBSET Ids]
      BY <2>2, <3>1 DEF Written, TypeOK, Docs
    <3>6. /\ \A s \in Threads : moved[s] \subseteq moved'[s]
          /\ \A s \in Threads : op[s] = "create" => d["_id"] \in moved'[s]
      BY <1>1, <2>2 DEF Written
    <3>7. QED
      BY <2>2, <3>1, <3>3, <3>4, <3>5, <3>6 DEF Shape
  <2>3. QED
    BY <2>1, <2>2 DEF Set
<1>3. TypeOK'
  BY <1>1, <1>2 DEF TypeOK, Docs
<1>4. Shape'
  BY <1>1, <1>2 DEF Shape, TypeOK
<1>5. \A s \in Threads : op[s] \in {"create", "delete"} => pc'[s] = pc[s]
  BY <1>1 DEF TypeOK
<1>6. Owned'
  BY <1>1, <1>2, <1>5 DEF Owned, OwnedByThreads, Taken
<1>7. MatchFinds'
  BY <1>1, <1>2, <1>5 DEF MatchFinds
<1>8. DeleteFinds'
  BY <1>1, <1>2, <1>5 DEF DeleteFinds
<1>9. DeletedStaysDeleted'
  BY <1>1, <1>2 DEF DeletedStaysDeleted
<1>10. OwnDocument'
  <2> SUFFICES ASSUME ~Redraw, NEW s \in Threads, op[s] = "create",
                      NEW e \in docs', e["uuid"] = pat[s]["uuid"]
               PROVE  Knows(s, e)'
    BY <1>1 DEF OwnDocument
  <2>1. PICK d \in docs :
            /\ e["uuid"] = d["uuid"] /\ e["_id"] = d["_id"]
            /\ e = d \/ d["_id"] \in moved'[s]
    BY <1>2
  <2>2. Knows(s, d) /\ pc'[s] = pc[s] /\ moved[s] \subseteq moved'[s]
    BY <1>2, <1>5, <2>1 DEF OwnDocument
  <2>3. QED
    BY <1>1, <2>1, <2>2 DEF Knows, Present
<1>11. QED
  BY <1>2, <1>3, <1>4, <1>6, <1>7, <1>8, <1>9, <1>10

LEMMA FinishUpdateKeeps ==
    ASSUME IInv, NEW t \in Threads, RefuseUpdate(t) \/ Confirm(t)
    PROVE  IInv'
<1>1. /\ Answer(t) /\ monitor' = None /\ op[t] # "delete"
      /\ UNCHANGED <<registry, docs, drawn, spent, ever, gone>>
  BY DEF RefuseUpdate, Confirm, IInv, Shape
<1>2. QED
  BY <1>1, AnswerKeeps

LEMMA CrashKeeps ==
    ASSUME IInv, Crash
    PROVE  IInv'
<1> USE DEF IInv, Crash
<1>1. TypeOK'
  BY FieldFacts DEF TypeOK
<1>2. Shape'
  BY DEF Shape
<1>3. Owned' /\ UuidsDistinct' /\ DeletedStaysDeleted'
  BY DEF Owned, OwnedByThreads, UuidsDistinct, DeletedStaysDeleted
<1>4. MatchFinds' /\ DeleteFinds'
  BY DEF MatchFinds, DeleteFinds
<1>5. OwnDocument'
  BY DEF OwnDocument, Knows
<1>6. QED
  BY <1>1, <1>2, <1>3, <1>4, <1>5

LEMMA StutterKeeps ==
    ASSUME IInv, UNCHANGED vars
    PROVE  IInv'
<1> USE DEF vars, service, locals, history, IInv
<1>1. TypeOK' /\ Shape' /\ Owned'
  BY DEF TypeOK, Shape, Owned, OwnedByThreads, Taken
<1>2. UuidsDistinct' /\ MatchFinds' /\ DeleteFinds' /\ DeletedStaysDeleted'
  BY DEF UuidsDistinct, MatchFinds, DeleteFinds, DeletedStaysDeleted
<1>3. OwnDocument'
  BY DEF OwnDocument, Knows
<1>4. QED
  BY <1>1, <1>2, <1>3

LEMMA NextKeeps == IInv /\ [Next]_vars => IInv'
<1> SUFFICES ASSUME IInv, [Next]_vars
             PROVE  IInv'
  OBVIOUS
<1>1. CASE UNCHANGED vars
  BY <1>1, StutterKeeps
<1>2. CASE Crash
  BY <1>2, CrashKeeps
<1>3. CASE Quiet
  BY <1>3, StutterKeeps DEF Quiet
<1>4. ASSUME NEW t \in Threads, Request(t)
      PROVE  IInv'
  BY <1>4, CreateUUIDKeeps, RemoveUUIDKeeps, DeleteByIdKeeps,
     UpdateBusinessKeeps DEF Request
<1>5. ASSUME NEW t \in Threads, Work(t)
      PROVE  IInv'
  BY <1>5, QueryKeeps, SaveKeeps, RefuseKeeps, RereadKeeps, RollbackKeeps,
     EnterKeeps, RemoveKeeps, LoadKeeps, SetKeeps, FinishUpdateKeeps DEF Work
<1>6. QED
  BY <1>1, <1>2, <1>3, <1>4, <1>5 DEF Next

\* What a step does to the registry and the businesses.
LEMMA KeepsRegistry ==
    ASSUME IInv, Next
    PROVE  RegistryStep
<1> USE DEF IInv
<1>1. CASE UNCHANGED <<registry, docs>>
  BY <1>1 DEF RegistryStep
<1>2. ASSUME NEW t \in Threads, NEW u \in Uuids, NEW kv \in KeyVals, CreateUUID(t, u, kv)
      PROVE  RegistryStep
  BY <1>2 DEF CreateUUID, RegistryStep
<1>3. ASSUME NEW t \in Threads, NEW u \in ever, RemoveUUID(t, u)
      PROVE  RegistryStep
  <2>1. docs' = docs /\ registry' = registry \ {u}
    BY <1>3 DEF RemoveUUID
  <2>2. QED
    BY <1>3, <2>1 DEF RegistryStep
<1>4. ASSUME NEW t \in Threads, NEW i \in Ids, Save(t, i)
      PROVE  RegistryStep
  <2> DEFINE saved == [pat[t] EXCEPT !["_id"] = i]
  <2>1. docs' = docs \cup {saved} /\ registry' = registry
    BY <1>4 DEF Save
  <2>2. op[t] = "create" /\ pc[t] = "query"
    BY <1>4 DEF Save
  <2>3. pat[t]["uuid"] \in registry
    BY <2>2 DEF Owned, OwnedByThreads
  <2>4. saved["uuid"] = pat[t]["uuid"]
    BY FieldFacts DEF TypeOK
  <2>5. QED
    BY <2>1, <2>3, <2>4 DEF RegistryStep
<1>5. ASSUME NEW t \in Threads, Rollback(t)
      PROVE  RegistryStep
  <2>1. docs' = docs /\ registry' = registry \ {pat[t]["uuid"]}
    BY <1>5 DEF Rollback
  <2>2. op[t] = "create" /\ pc[t] = "rollback"
    BY <1>5 DEF Rollback, Shape
  <2>3. ~Redraw => \A d \in docs : d["uuid"] = pat[t]["uuid"] => d["_id"] \in moved[t]
    BY <2>2 DEF OwnDocument, Knows
  <2>4. QED
    BY <1>5, <2>1, <2>3 DEF RegistryStep
<1>6. ASSUME NEW t \in Threads, Remove(t)
      PROVE  RegistryStep
  BY <1>6 DEF Remove, RegistryStep
<1>7. ASSUME NEW t \in Threads, Set(t)
      PROVE  RegistryStep
  <2>1. registry' = registry
    BY <1>7 DEF Set
  <2>2. \A e \in docs' : \E d \in docs : e["_id"] = d["_id"]
    <3>1. CASE docs' = docs
      BY <3>1
    <3>2. ASSUME NEW d \in Matches("uuid", pat[t]["uuid"]),
                 docs' = (docs \ {d}) \cup {Overlay(d, new[t])}
          PROVE  \A e \in docs' : \E c \in docs : e["_id"] = c["_id"]
      <4>1. d \in docs
        BY DEF Matches
      <4>2. Overlay(d, new[t])["_id"] = d["_id"]
        BY FieldFacts DEF Overlay
      <4>3. QED
        BY <3>2, <4>1, <4>2
    <3>3. QED
      BY <1>7, <3>1, <3>2 DEF Set
  <2>3. QED
    BY <2>1, <2>2 DEF RegistryStep
<1>8. ASSUME NEW t \in Threads, Request(t)
      PROVE  RegistryStep
  <2>1. ASSUME NEW i \in spent, DeleteBusinessById(t, i)
        PROVE  RegistryStep
    BY <1>1, <2>1 DEF DeleteBusinessById, service
  <2>2. ASSUME NEW u \in ever, NEW kv \in KeyVals, UpdateBusiness(t, u, kv)
        PROVE  RegistryStep
    BY <1>1, <2>2 DEF UpdateBusiness, service
  <2>3. QED
    BY <1>2, <1>3, <1>8, <2>1, <2>2 DEF Request
<1>9. ASSUME NEW t \in Threads, Work(t)
      PROVE  RegistryStep
  <2>1. CASE Query(t) \/ Refuse(t) \/ Reread(t)
    BY <1>1, <2>1 DEF Query, Refuse, Reread, service
  <2>2. CASE Enter(t) \/ Load(t) \/ RefuseUpdate(t) \/ Confirm(t)
    BY <1>1, <2>2 DEF Enter, Load, RefuseUpdate, Confirm
  <2>3. QED
    BY <1>4, <1>5, <1>6, <1>7, <1>9, <2>1, <2>2 DEF Work
<1>10. QED
  BY <1>1, <1>8, <1>9 DEF Next, Crash, Quiet, vars, service

-----------------------------------------------------------------------------
(***************************************************************************)
(* What the threads know.  A second invariant rests on the first: the      *)
(* monitor keeps what a deletion or an update has matched, and a creation, *)
(* which holds no monitor, can only have missed what was written since.    *)
(***************************************************************************)
\* Thread t is inside a synchronized method of the persistence.
Inside(t) ==
    /\ op[t] \in {"delete", "deleteById", "update"}
    /\ pc[t] \in {"query", "load", "confirm"}

MonitorHeld == \A t \in Threads : Inside(t) => monitor = t

\* An _id is generated once, and $set leaves it alone.
IdsDistinct ==
    /\ \A d \in docs : d["_id"] \in spent
    /\ \A d, e \in docs : d["_id"] = e["_id"] => d = e

\* Document d has a unique attribute of b.
Shares(d, b) == \E k \in Keys : d[k] # None /\ d[k] = b[k]

\* What a deletion has matched is stored, and finite; a deletion by uuid has matched only
\* that uuid, and it is not registered again.
DeletionKnows(t) == op[t] \in {"delete", "deleteById"} =>
    /\ IsFiniteSet(hit[t])
    /\ \A i \in hit[t] : \E d \in docs : d["_id"] = i
    /\ op[t] = "delete" =>
          /\ pat[t]["uuid"] \notin registry
          /\ \A d \in docs : d["_id"] \in hit[t] => d["uuid"] = pat[t]["uuid"]

\* An update matches by a document that is stored, finds that document by its
\* uuid, and shares a unique attribute with everything else it finds.
UpdateKnows(t) == op[t] = "update" =>
    /\ pc[t] = "query" =>
          /\ pat[t] \in docs /\ todo[t] \subseteq Present(pat[t])
          /\ "uuid" \in todo[t] \/ pat[t]["_id"] \in hit[t]
          /\ \A i \in hit[t] : \E d \in docs :
                /\ d["_id"] = i
                /\ i = pat[t]["_id"] \/ Shares(d, pat[t])
    /\ pc[t] = "confirm" => \E d \in docs : d["uuid"] = pat[t]["uuid"]

\* A creation that has found nothing yet: a document repeats an attribute it
\* has asked for only if it was written since.
CreationKnows(t) == op[t] = "create" /\ pc[t] = "query" /\ hit[t] = {} =>
    \A k \in Keys \ todo[t], d \in docs :
        d[k] # None /\ d[k] = pat[t][k] => d["_id"] \in moved[t]

ThreadKnows(t) == DeletionKnows(t) /\ UpdateKnows(t) /\ CreationKnows(t)

JInv ==
    /\ MonitorHeld
    /\ IdsDistinct
    /\ \A t \in Threads : ThreadKnows(t)

\* A thread's step leaves the requests of the others as they are.
Same(s) ==
    /\ pc'[s] = pc[s] /\ op'[s] = op[s] /\ pat'[s] = pat[s]
    /\ new'[s] = new[s] /\ todo'[s] = todo[s] /\ hit'[s] = hit[s]

LEMMA OthersKeepTheirRequests ==
    ASSUME TypeOK, NEW t \in Threads, Request(t) \/ Work(t),
           NEW s \in Threads, s # t
    PROVE  Same(s)
<1> USE DEF TypeOK, Same, Goto, locals
<1>1. ASSUME Answer(t) PROVE Same(s)
  BY <1>1 DEF Answer
<1>2. CASE Request(t)
  <2>1. ASSUME NEW u \in Uuids, NEW kv \in KeyVals, CreateUUID(t, u, kv)
        PROVE  Same(s)
    BY <2>1 DEF CreateUUID
  <2>2. ASSUME NEW u \in ever, RemoveUUID(t, u)
        PROVE  Same(s)
    BY <2>2 DEF RemoveUUID
  <2>3. ASSUME NEW i \in spent, DeleteBusinessById(t, i)
        PROVE  Same(s)
    BY <2>3 DEF DeleteBusinessById
  <2>4. ASSUME NEW u \in ever, NEW kv \in KeyVals, UpdateBusiness(t, u, kv)
        PROVE  Same(s)
    BY <2>4 DEF UpdateBusiness
  <2>5. QED
    BY <1>2, <2>1, <2>2, <2>3, <2>4 DEF Request
<1>3. CASE Work(t)
  <2>1. CASE Query(t)
    BY <2>1 DEF Query
  <2>2. ASSUME NEW i \in Ids, Save(t, i)
        PROVE  Same(s)
    BY <2>2 DEF Save
  <2>3. CASE Refuse(t) \/ Set(t)
    BY <2>3 DEF Refuse, Set
  <2>4. CASE Reread(t) \/ Rollback(t)
    BY <1>1, <2>4 DEF Reread, Rollback
  <2>5. CASE Enter(t)
    BY <2>5 DEF Enter
  <2>6. CASE Remove(t) \/ RefuseUpdate(t) \/ Confirm(t)
    BY <1>1, <2>6 DEF Remove, RefuseUpdate, Confirm
  <2>7. CASE Load(t)
    BY <1>1, <2>7 DEF Load
  <2>8. QED
    BY <1>3, <2>1, <2>2, <2>3, <2>4, <2>5, <2>6, <2>7 DEF Work
<1>4. QED
  BY <1>2, <1>3

\* Mutual exclusion: of the threads inside the monitor there is one at most.
LEMMA MonitorKept ==
    ASSUME IInv, MonitorHeld, NEW t \in Threads, Request(t) \/ Work(t)
    PROVE  MonitorHeld'
<1> USE DEF IInv
<1>1. \A s \in Threads : s # t => Same(s)
  BY OthersKeepTheirRequests
<1>2. SUFFICES \/ monitor' = t /\ monitor = None
               \/ monitor' = monitor /\ (Inside(t)' => Inside(t))
               \/ monitor' = None /\ Inside(t) /\ op'[t] = "none"
  <2> SUFFICES ASSUME NEW s \in Threads, Inside(s)' PROVE monitor' = s
    BY DEF MonitorHeld
  <2>1. CASE s = t
    BY <1>2, <2>1 DEF Inside, MonitorHeld
  <2>2. CASE s # t
    <3>1. Inside(s)
      BY <1>1, <2>2 DEF Inside, Same
    <3>2. s # None
      BY NoneAssumption
    <3>3. QED
      BY <1>2, <2>2, <3>1, <3>2 DEF MonitorHeld
  <2>3. QED
    BY <2>1, <2>2
<1>3. CASE Request(t)
  BY <1>3 DEF Request, CreateUUID, RemoveUUID, DeleteBusinessById,
     UpdateBusiness, Goto, Inside, TypeOK, service
<1>4. CASE Work(t)
  <2>1. CASE Query(t)
    BY <2>1 DEF Query, Inside, service
  <2>2. ASSUME NEW i \in Ids, Save(t, i)
        PROVE  monitor' = monitor /\ ~Inside(t)'
    BY <2>2 DEF Save, Inside
  <2>3. CASE Refuse(t) \/ Set(t)
    BY <2>3 DEF Refuse, Set, Goto, Inside, TypeOK, service
  <2>4. CASE Reread(t) \/ Rollback(t)
    BY <2>4 DEF Reread, Rollback, Answer, Goto, Inside, TypeOK, service
  <2>5. CASE Enter(t)
    BY <2>5 DEF Enter
  <2>6. CASE Remove(t) \/ RefuseUpdate(t)
    BY <2>6 DEF Remove, RefuseUpdate, Answer, Inside, TypeOK
  <2>7. CASE Confirm(t)
    BY <2>7 DEF Confirm, Answer, Inside, TypeOK, Shape
  <2>8. CASE Load(t)
    <3>1. Inside(t) /\ op[t] = "update"
      BY <2>8 DEF Load, Inside, Shape
    <3>2. QED
      BY <2>8, <3>1 DEF Load, Answer, Inside, TypeOK
  <2>9. QED
    BY <1>4, <2>1, <2>2, <2>3, <2>4, <2>5, <2>6, <2>7, <2>8 DEF Work
<1>5. QED
  BY <1>3, <1>4

\* _ids stay distinct: Save uses a new one, Set keeps the one it finds.
LEMMA IdsKept ==
    ASSUME IInv, IdsDistinct, NEW t \in Threads, Request(t) \/ Work(t)
    PROVE  IdsDistinct'
<1> USE DEF IInv
<1>1. CASE docs' \subseteq docs /\ spent' = spent
  BY <1>1 DEF IdsDistinct
<1>2. ASSUME NEW i \in Ids, Save(t, i)
      PROVE  IdsDistinct'
  <2> DEFINE saved == [pat[t] EXCEPT !["_id"] = i]
  <2>1. /\ docs' = docs \cup {saved} /\ spent' = spent \cup {i}
        /\ i \notin spent
    BY <1>2 DEF Save
  <2>2. saved["_id"] = i
    BY FieldFacts DEF TypeOK
  <2> HIDE DEF saved
  <2>3. QED
    BY <2>1, <2>2 DEF IdsDistinct
<1>3. ASSUME NEW d \in Matches("uuid", pat[t]["uuid"]), spent' = spent,
             docs' = (docs \ {d}) \cup {Overlay(d, new[t])}
      PROVE  IdsDistinct'
  <2>1. d \in docs
    BY DEF Matches
  <2>2. Overlay(d, new[t])["_id"] = d["_id"]
    BY FieldFacts DEF Overlay
  <2>3. QED
    BY <1>3, <2>1, <2>2 DEF IdsDistinct
<1>4. CASE Request(t)
  BY <1>1, <1>4 DEF Request, CreateUUID, RemoveUUID, DeleteBusinessById,
     UpdateBusiness, service, history
<1>5. CASE Work(t)
  <2>1. CASE Set(t)
    BY <1>1, <1>3, <2>1 DEF Set
  <2>2. CASE Remove(t)
    BY <1>1, <2>2 DEF Remove
  <2>3. CASE Query(t) \/ Refuse(t) \/ Reread(t) \/ Rollback(t) \/ Enter(t)
    BY <1>1, <2>3 DEF Query, Refuse, Reread, Rollback, Enter, service, history
  <2>4. CASE Load(t) \/ RefuseUpdate(t) \/ Confirm(t)
    BY <1>1, <2>4 DEF Load, RefuseUpdate, Confirm
  <2>5. QED
    BY <1>2, <1>5, <2>1, <2>2, <2>3, <2>4 DEF Work
<1>6. QED
  BY <1>4, <1>5

\* A step of another thread takes no document from a thread inside the
\* monitor, and tells a creation of every document it writes.
Undisturbed(s) ==
    /\ Same(s) /\ moved[s] \subseteq moved'[s]
    /\ \A e \in docs' : e \in docs \/
          /\ op[s] = "create" => e["_id"] \in moved'[s]
          /\ Inside(s) => e["_id"] \notin spent
    /\ Inside(s) => docs \subseteq docs'
    /\ op[s] = "delete" /\ pat[s]["uuid"] \notin registry =>
          pat[s]["uuid"] \notin registry'

LEMMA UndisturbedKnows ==
    ASSUME IInv, JInv, NEW s \in Threads, Undisturbed(s)
    PROVE  ThreadKnows(s)'
<1> USE DEF Undisturbed, Same
<1>0. ThreadKnows(s) /\ IdsDistinct
  BY DEF JInv
<1>1. op[s] \in {"delete", "deleteById"} /\ hit[s] # {} => Inside(s)
  BY DEF Inside, IInv, Shape, TypeOK
<1>2. DeletionKnows(s)'
  <2> SUFFICES ASSUME op[s] \in {"delete", "deleteById"}
               PROVE  /\ IsFiniteSet(hit[s])
                      /\ \A i \in hit[s] : \E d \in docs' : d["_id"] = i
                      /\ op[s] = "delete" =>
                            /\ pat[s]["uuid"] \notin registry'
                            /\ \A d \in docs' : d["_id"] \in hit[s] =>
                                  d["uuid"] = pat[s]["uuid"]
    BY DEF DeletionKnows
  <2>1. DeletionKnows(s)
    BY <1>0 DEF ThreadKnows
  <2>2. \A i \in hit[s] : i \in spent
    BY <1>0, <2>1 DEF DeletionKnows, IdsDistinct
  <2>3. \A i \in hit[s] : \E d \in docs' : d["_id"] = i
    BY <1>1, <2>1 DEF DeletionKnows
  <2>4. ASSUME op[s] = "delete", NEW d \in docs', d["_id"] \in hit[s]
        PROVE  d["uuid"] = pat[s]["uuid"]
    <3>1. d \in docs
      BY <1>1, <2>2, <2>4
    <3>2. QED
      BY <2>1, <2>4, <3>1 DEF DeletionKnows
  <2>5. QED
    BY <2>1, <2>3, <2>4 DEF DeletionKnows
<1>3. UpdateKnows(s)'
  <2> SUFFICES ASSUME op[s] = "update"
               PROVE  UpdateKnows(s)'
    BY DEF UpdateKnows
  <2>1. UpdateKnows(s)
    BY <1>0 DEF ThreadKnows
  <2>2. pc[s] \in {"query", "confirm"} => docs \subseteq docs'
    BY DEF Inside
  <2>3. QED
    BY <2>1, <2>2 DEF UpdateKnows, Shares, Present
<1>4. CreationKnows(s)'
  <2> SUFFICES ASSUME op[s] = "create", pc[s] = "query", hit[s] = {},
                      NEW k \in Keys \ todo[s], NEW d \in docs',
                      d[k] # None, d[k] = pat[s][k]
               PROVE  d["_id"] \in moved'[s]
    BY DEF CreationKnows
  <2>1. d \in docs => d["_id"] \in moved[s]
    BY <1>0 DEF ThreadKnows, CreationKnows
  <2>2. QED
    BY <2>1
<1>5. QED
  BY <1>2, <1>3, <1>4 DEF ThreadKnows

\* No step of a thread disturbs another: deletions and updates write inside
\* the monitor, creations only add documents.
LEMMA OthersAreUndisturbed ==
    ASSUME IInv, JInv, NEW t \in Threads, Request(t) \/ Work(t),
           NEW s \in Threads, s # t
    PROVE  Undisturbed(s)
<1> USE DEF IInv
<1>1. Same(s)
  BY OthersKeepTheirRequests
<1>2. moved \in [Threads -> SUBSET Ids] /\ MonitorHeld
  BY DEF TypeOK, JInv
<1>3. ASSUME Answer(t) PROVE moved'[s] = moved[s]
  BY <1>2, <1>3 DEF Answer
<1>4. ASSUME docs' = docs, moved'[s] = moved[s], registry' \subseteq registry
      PROVE  Undisturbed(s)
  BY <1>1, <1>4 DEF Undisturbed
<1>5. Inside(t) => ~Inside(s)
  BY <1>2 DEF MonitorHeld
<1>6. CASE Request(t)
  <2>1. ASSUME NEW u \in Uuids, NEW kv \in KeyVals, CreateUUID(t, u, kv)
        PROVE  Undisturbed(s)
    <3>1. docs' = docs /\ moved' = moved /\ registry' = registry \cup {u}
      BY <2>1 DEF CreateUUID
    <3>2. op[s] = "delete" => ~Redraw
      BY RedrawAssumption DEF TypeOK
    <3>3. op[s] = "delete" => pat[s]["uuid"] \in drawn
      BY DEF Shape, Owned
    <3>4. op[s] = "delete" => pat[s]["uuid"] # u
      BY <2>1, <3>2, <3>3 DEF CreateUUID, Taken
    <3>5. QED
      BY <1>1, <3>1, <3>4 DEF Undisturbed
  <2>2. ASSUME NEW u \in ever, RemoveUUID(t, u)
        PROVE  Undisturbed(s)
    BY <1>4, <2>2 DEF RemoveUUID, history
  <2>3. ASSUME NEW i \in spent, DeleteBusinessById(t, i)
        PROVE  Undisturbed(s)
    BY <1>4, <2>3 DEF DeleteBusinessById, service, history
  <2>4. ASSUME NEW u \in ever, NEW kv \in KeyVals, UpdateBusiness(t, u, kv)
        PROVE  Undisturbed(s)
    BY <1>4, <2>4 DEF UpdateBusiness, service, history
  <2>5. QED
    BY <1>6, <2>1, <2>2, <2>3, <2>4 DEF Request
<1>7. CASE Work(t)
  <2>1. ASSUME NEW i \in Ids, Save(t, i)
        PROVE  Undisturbed(s)
    <3> DEFINE saved == [pat[t] EXCEPT !["_id"] = i]
    <3>1. /\ docs' = docs \cup {saved} /\ registry' = registry
          /\ i \notin spent /\ Written(t, {i})
      BY <2>1 DEF Save
    <3>2. saved["_id"] = i
      BY FieldFacts DEF TypeOK
    <3> HIDE DEF saved
    <3>3. /\ moved[s] \subseteq moved'[s]
          /\ op[s] = "create" => i \in moved'[s]
      BY <3>1 DEF Written
    <3>4. QED
      BY <1>1, <3>1, <3>2, <3>3 DEF Undisturbed
  <2>2. CASE Remove(t)
    <3>1. /\ docs' \subseteq docs /\ registry' = registry
          /\ moved'[s] = moved[s] /\ Inside(t)
      BY <1>3, <2>2 DEF Remove, Inside
    <3>2. QED
      BY <1>1, <1>5, <3>1 DEF Undisturbed
  <2>3. CASE Set(t)
    <3>1. registry' = registry /\ Inside(t)
      BY <2>3 DEF Set, Inside
    <3>2. ASSUME NEW d \in Matches("uuid", pat[t]["uuid"]),
                 docs' = (docs \ {d}) \cup {Overlay(d, new[t])},
                 Written(t, {d["_id"]})
          PROVE  Undisturbed(s)
      <4>1. Overlay(d, new[t])["_id"] = d["_id"]
        BY FieldFacts DEF Overlay
      <4>2. /\ moved[s] \subseteq moved'[s]
            /\ op[s] = "create" => d["_id"] \in moved'[s]
        BY <3>2 DEF Written
      <4>3. QED
        BY <1>1, <1>5, <3>1, <3>2, <4>1, <4>2 DEF Undisturbed
    <3>3. QED
      BY <1>4, <2>3, <3>1, <3>2 DEF Set
  <2>4. CASE Query(t) \/ Refuse(t) \/ Enter(t)
    BY <1>4, <2>4 DEF Query, Refuse, Enter, service, history
  <2>5. CASE Reread(t)
    BY <1>3, <1>4, <2>5 DEF Reread, service
  <2>6. CASE Rollback(t) \/ RefuseUpdate(t) \/ Confirm(t)
    BY <1>3, <1>4, <2>6 DEF Rollback, RefuseUpdate, Confirm
  <2>7. CASE Load(t)
    BY <1>3, <1>4, <2>7 DEF Load
  <2>8. QED
    BY <1>7, <2>1, <2>2, <2>3, <2>4, <2>5, <2>6, <2>7 DEF Work
<1>8. QED
  BY <1>6, <1>7

\* The field getBusiness asks by next is one it has still to ask by.
LEMMA NextFieldIsOneOf ==
    ASSUME NEW S \in SUBSET Fields, S # {}
    PROVE  NextField(S) \in S
<1>1. Fields \subseteq {"uuid", "_id", "fiscalCode", "name", "pIva"}
  BY KeysAssumption DEF Fields
<1>2. /\ Rank["uuid"] = 1 /\ Rank["_id"] = 2 /\ Rank["fiscalCode"] = 3
      /\ Rank["name"] = 4 /\ Rank["pIva"] = 5
  BY DEF Rank
<1>3. \E f \in S : \A g \in S : Rank[f] <= Rank[g]
  <2>1. CASE "uuid" \in S
    BY <1>1, <1>2, <2>1
  <2>2. CASE "uuid" \notin S /\ "_id" \in S
    BY <1>1, <1>2, <2>2
  <2>3. CASE S \cap {"uuid", "_id"} = {} /\ "fiscalCode" \in S
    BY <1>1, <1>2, <2>3
  <2>4. CASE S \cap {"uuid", "_id", "fiscalCode"} = {} /\ "name" \in S
    BY <1>1, <1>2, <2>4
  <2>5. CASE S = {"pIva"}
    BY <1>2, <2>5
  <2>6. QED
    BY <1>1, <2>1, <2>2, <2>3, <2>4, <2>5
<1>4. QED
  BY <1>3 DEF NextField

LEMMA QueryKnows ==
    ASSUME IInv, JInv, NEW t \in Threads, Query(t)
    PROVE  ThreadKnows(t)'
<1> DEFINE f == NextField(todo[t])
           found == Matches(f, pat[t][f])
<1>1. /\ pc[t] = "query" /\ f \in todo[t]
      /\ todo'[t] = todo[t] \ {f}
      /\ UNCHANGED <<registry, docs, pc, op, pat, moved>>
      /\ \/ found = {} /\ hit'[t] = hit[t]
         \/ \E d \in found : hit'[t] = hit[t] \cup {d["_id"]}
  BY NextFieldIsOneOf DEF IInv, TypeOK, Query, service, history
<1>2. found = {d \in docs : d[f] = pat[t][f]}
  BY DEF Matches
<1>3. f = "uuid" \/ f = "_id" \/ f \in Keys
  BY <1>1 DEF IInv, TypeOK, Fields
<1> HIDE DEF f, found
<1>4. ThreadKnows(t) /\ IdsDistinct /\ UuidsDistinct
  BY DEF IInv, JInv
<1>5. DeletionKnows(t)'
  <2> SUFFICES ASSUME op[t] \in {"delete", "deleteById"}
               PROVE  DeletionKnows(t)'
    BY <1>1 DEF DeletionKnows
  <2>1. DeletionKnows(t)
    BY <1>4 DEF ThreadKnows
  <2>2. \A i \in hit'[t] : \E d \in docs : d["_id"] = i
    BY <1>1, <1>2, <2>1 DEF DeletionKnows
  <2>3. ASSUME op[t] = "delete", NEW d \in docs, d["_id"] \in hit'[t]
        PROVE  d["uuid"] = pat[t]["uuid"]
    <3>1. CASE d["_id"] \in hit[t]
      BY <2>1, <2>3, <3>1 DEF DeletionKnows
    <3>2. CASE d["_id"] \notin hit[t]
      <4>1. todo[t] = {"uuid"}
        BY <1>1, <2>3 DEF IInv, DeleteFinds
      <4>2. d \in found
        BY <1>1, <1>2, <1>4, <2>3, <3>2 DEF IdsDistinct
      <4>3. QED
        BY <1>1, <1>2, <4>1, <4>2
    <3>3. QED
      BY <3>1, <3>2
  <2>4. IsFiniteSet(hit'[t])
    <3>1. IsFiniteSet(hit[t])
      BY <2>1 DEF DeletionKnows
    <3>2. \A x : IsFiniteSet(hit[t] \cup {x})
      BY <3>1, FS_AddElement
    <3>3. QED
      BY <1>1, <3>1, <3>2
  <2>5. QED
    BY <1>1, <2>1, <2>2, <2>3, <2>4 DEF DeletionKnows
<1>6. UpdateKnows(t)'
  <2> SUFFICES ASSUME op[t] = "update"
               PROVE  UpdateKnows(t)'
    BY <1>1 DEF UpdateKnows
  <2>1. /\ pat[t] \in docs /\ todo[t] \subseteq Present(pat[t])
        /\ "uuid" \in todo[t] \/ pat[t]["_id"] \in hit[t]
        /\ \A i \in hit[t] : \E d \in docs :
              /\ d["_id"] = i
              /\ i = pat[t]["_id"] \/ Shares(d, pat[t])
    BY <1>1, <1>4 DEF ThreadKnows, UpdateKnows
  <2>2. pat[t][f] # None
    BY <1>1, <2>1 DEF Present
  <2>3. ASSUME NEW d \in found
        PROVE  d["_id"] = pat[t]["_id"] \/ Shares(d, pat[t])
    <3>1. d \in docs /\ d[f] = pat[t][f]
      BY <1>2
    <3>2. CASE f = "uuid"
      BY <1>4, <2>1, <3>1, <3>2 DEF UuidsDistinct
    <3>3. CASE f = "_id"
      BY <3>1, <3>3
    <3>4. CASE f \in Keys
      BY <2>2, <3>1, <3>4 DEF Shares
    <3>5. QED
      BY <1>3, <3>2, <3>3, <3>4
  <2>4. "uuid" \in todo'[t] \/ pat[t]["_id"] \in hit'[t]
    <3>1. CASE f = "uuid"
      <4>1. found = {pat[t]}
        BY <1>2, <1>4, <2>1, <3>1 DEF UuidsDistinct
      <4>2. QED
        BY <1>1, <4>1
    <3>2. CASE f # "uuid"
      BY <1>1, <2>1, <3>2
    <3>3. QED
      BY <3>1, <3>2
  <2>5. \A i \in hit'[t] : \E d \in docs :
            /\ d["_id"] = i
            /\ i = pat[t]["_id"] \/ Shares(d, pat[t])
    BY <1>1, <1>2, <2>1, <2>3
  <2>6. QED
    BY <1>1, <2>1, <2>4, <2>5 DEF UpdateKnows, Shares, Present
<1>7. CreationKnows(t)'
  <2> SUFFICES ASSUME op[t] = "create", hit'[t] = {},
                      NEW k \in Keys \ todo'[t], NEW d \in docs,
                      d[k] # None, d[k] = pat[t][k]
               PROVE  d["_id"] \in moved[t]
    BY <1>1 DEF CreationKnows
  <2>1. hit[t] = {} /\ found = {}
    BY <1>1
  <2>2. k \notin todo[t]
    BY <1>1, <1>2, <2>1
  <2>3. QED
    BY <1>1, <1>4, <2>1, <2>2 DEF ThreadKnows, CreationKnows
<1>8. QED
  BY <1>5, <1>6, <1>7 DEF ThreadKnows

\* What a thread knows after a step of its own.
LEMMA OwnStepKnows ==
    ASSUME IInv, JInv, NEW t \in Threads, Request(t) \/ Work(t)
    PROVE  ThreadKnows(t)'
<1> USE DEF IInv
<1>1. ASSUME op'[t] = "none" \/ (op'[t] = "create" /\ pc'[t] # "query")
      PROVE  ThreadKnows(t)'
  BY <1>1 DEF ThreadKnows, DeletionKnows, UpdateKnows, CreationKnows
<1>2. ASSUME Answer(t) PROVE ThreadKnows(t)'
  BY <1>1, <1>2 DEF Answer, TypeOK
<1>3. ThreadKnows(t) /\ IsFiniteSet({})
  BY FS_EmptySet DEF JInv
<1>4. CASE Request(t)
  <2>1. ASSUME NEW u \in Uuids, NEW kv \in KeyVals, CreateUUID(t, u, kv)
        PROVE  ThreadKnows(t)'
    <3>1. /\ op'[t] = "create" /\ pat'[t] = Business(u, kv)
          /\ todo'[t] = Present(Business(u, kv))
      BY <2>1 DEF CreateUUID, TypeOK
    <3>2. \A k \in Keys \ todo'[t] : pat'[t][k] = None
      BY <3>1 DEF Present, Fields
    <3>3. CreationKnows(t)'
      BY <3>2 DEF CreationKnows
    <3>4. QED
      BY <3>1, <3>3 DEF ThreadKnows, DeletionKnows, UpdateKnows
  <2>2. ASSUME NEW u \in ever, RemoveUUID(t, u)
        PROVE  ThreadKnows(t)'
    <3>1. /\ op'[t] = "delete" /\ hit'[t] = {} /\ pat'[t]["uuid"] = u
          /\ u \notin registry'
      BY <2>2, FieldFacts DEF RemoveUUID, Idle, TypeOK, Shape
    <3>2. QED
      BY <1>3, <3>1 DEF ThreadKnows, DeletionKnows, UpdateKnows, CreationKnows
  <2>3. ASSUME NEW i \in spent, DeleteBusinessById(t, i)
        PROVE  ThreadKnows(t)'
    <3>1. op'[t] = "deleteById" /\ hit'[t] = {}
      BY <2>3 DEF DeleteBusinessById, Idle, TypeOK, Shape
    <3>2. QED
      BY <1>3, <3>1 DEF ThreadKnows, DeletionKnows, UpdateKnows, CreationKnows
  <2>4. ASSUME NEW u \in ever, NEW kv \in KeyVals, UpdateBusiness(t, u, kv)
        PROVE  ThreadKnows(t)'
    <3>1. op'[t] = "update" /\ pc'[t] = "enter"
      BY <2>4 DEF UpdateBusiness, Goto, TypeOK
    <3>2. QED
      BY <3>1 DEF ThreadKnows, DeletionKnows, UpdateKnows, CreationKnows
  <2>5. QED
    BY <1>4, <2>1, <2>2, <2>3, <2>4 DEF Request
<1>5. CASE Work(t)
  <2>1. ASSUME NEW i \in Ids, Save(t, i)
        PROVE  ThreadKnows(t)'
    BY <1>1, <2>1 DEF Save, Goto, TypeOK
  <2>2. CASE Refuse(t)
    BY <1>1, <2>2 DEF Refuse, Goto, TypeOK
  <2>3. CASE Reread(t)
    <3>1. op[t] = "create"
      BY <2>3 DEF Reread, Shape
    <3>2. QED
      BY <1>1, <1>2, <2>3, <3>1 DEF Reread, Goto, TypeOK
  <2>4. CASE Rollback(t) \/ Remove(t) \/ RefuseUpdate(t) \/ Confirm(t)
    BY <1>2, <2>4 DEF Rollback, Remove, RefuseUpdate, Confirm
  <2>5. CASE Enter(t)
    <3>1. /\ op'[t] = op[t] /\ hit'[t] = {} /\ pat'[t] = pat[t]
          /\ registry' = registry
          /\ op[t] \in {"delete", "deleteById", "update"}
          /\ op[t] = "update" => pc'[t] = "load"
      BY <2>5, OpsAssumption DEF Enter, Goto, TypeOK, Shape
    <3>2. QED
      BY <1>3, <3>1 DEF ThreadKnows, DeletionKnows, UpdateKnows, CreationKnows
  <2>6. CASE Load(t)
    <3>1. ASSUME NEW d \in Matches("uuid", pat[t]["uuid"]),
                 pat' = [pat EXCEPT ![t] = d],
                 todo' = [todo EXCEPT ![t] = Present(d)],
                 Goto(t, "query"),
                 UNCHANGED <<monitor, op, new, hit, moved>>
          PROVE  ThreadKnows(t)'
      <4>1. /\ op'[t] = "update" /\ pat'[t] = d /\ todo'[t] = Present(d)
            /\ hit'[t] = {} /\ pc'[t] = "query" /\ docs' = docs
        BY <2>6, <3>1 DEF Load, Goto, TypeOK, Shape
      <4>2. d \in docs /\ "uuid" \in Present(d)
        BY FieldFacts, NoneAssumption DEF Matches, Shape, Docs, Present
      <4>3. UpdateKnows(t)'
        BY <4>1, <4>2 DEF UpdateKnows, Present
      <4>4. QED
        BY <4>1, <4>3 DEF ThreadKnows, DeletionKnows, CreationKnows
    <3>2. QED
      BY <1>2, <2>6, <3>1 DEF Load
  <2>7. CASE Set(t)
    <3>1. /\ op[t] = "update" /\ pc[t] = "query" /\ UNCHANGED <<op, pat>>
          /\ pc'[t] = "confirm"
      BY <2>7 DEF Set, Goto, TypeOK
    <3>2. pat[t] \in docs
      BY <1>3, <3>1 DEF ThreadKnows, UpdateKnows
    <3>3. \E e \in docs' : e["uuid"] = pat[t]["uuid"]
      <4>1. pat[t] \in Matches("uuid", pat[t]["uuid"])
        BY <3>2 DEF Matches
      <4>2. PICK d \in Matches("uuid", pat[t]["uuid"]) :
                docs' = (docs \ {d}) \cup {Overlay(d, new[t])}
        BY <2>7, <4>1 DEF Set
      <4>3. d["uuid"] = pat[t]["uuid"] /\ d \in Docs
        BY DEF Matches, Shape
      <4>4. new[t]["uuid"] = d["uuid"] /\ new[t] \in [Fields -> Domain]
        BY <3>1, <4>3 DEF Shape, TypeOK
      <4>5. Overlay(d, new[t])["uuid"] = d["uuid"]
        BY <4>3, <4>4, OverlayKeepsIdentity
      <4>6. QED
        BY <4>2, <4>3, <4>5
    <3>4. QED
      BY <3>1, <3>3 DEF ThreadKnows, DeletionKnows, UpdateKnows, CreationKnows
  <2>8. QED
    BY <1>5, <2>1, <2>2, <2>3, <2>4, <2>5, <2>6, <2>7, QueryKnows DEF Work
<1>6. QED
  BY <1>4, <1>5

LEMMA InitKnows == Init => JInv
  BY FieldFacts DEF Init, JInv, MonitorHeld, Inside, IdsDistinct, ThreadKnows,
     DeletionKnows, UpdateKnows, CreationKnows

LEMMA KnowledgeKept ==
    ASSUME IInv, JInv, [Next]_vars
    PROVE  JInv'
<1>1. CASE UNCHANGED vars
  <2> USE <1>1 DEF vars, service, locals, history
  <2>1. MonitorHeld' /\ IdsDistinct'
    BY DEF JInv, MonitorHeld, Inside, IdsDistinct
  <2>2. ASSUME NEW t \in Threads PROVE ThreadKnows(t)'
    <3>1. Undisturbed(t)
      BY DEF Undisturbed, Same
    <3>2. QED
      BY <3>1, UndisturbedKnows
  <2>3. QED
    BY <2>1, <2>2 DEF JInv
<1>2. CASE Crash
  <2>1. \A t \in Threads : op'[t] = "none"
    BY <1>2 DEF Crash
  <2>2. MonitorHeld'
    BY <2>1 DEF MonitorHeld, Inside
  <2>3. IdsDistinct'
    BY <1>2 DEF Crash, JInv, IdsDistinct
  <2>4. ASSUME NEW t \in Threads PROVE ThreadKnows(t)'
    BY <2>1 DEF ThreadKnows, DeletionKnows, UpdateKnows, CreationKnows
  <2>5. QED
    BY <2>2, <2>3, <2>4 DEF JInv
<1>3. ASSUME NEW t \in Threads, Request(t) \/ Work(t)
      PROVE  JInv'
  <2>1. MonitorHeld' /\ IdsDistinct'
    BY <1>3, MonitorKept, IdsKept DEF JInv
  <2>2. ThreadKnows(t)'
    BY <1>3, OwnStepKnows
  <2>3. ASSUME NEW s \in Threads, s # t PROVE ThreadKnows(s)'
    BY <1>3, <2>3, OthersAreUndisturbed, UndisturbedKnows
  <2>4. QED
    BY <2>1, <2>2, <2>3 DEF JInv
<1>4. QED
  BY <1>1, <1>2, <1>3 DEF Next, Quiet

\* The registry keeps a uuid only for a business or a creation in progress:
\* a deletion gives its uuid back before it removes the document, and a
\* creation is answered only once its document is found again.
LEMMA LeakKept ==
    ASSUME IInv, JInv, NoRegistryLeak, NEW t \in Threads, Request(t) \/ Work(t)
    PROVE  NoRegistryLeak'
<1> USE DEF IInv
<1> DEFINE Held(u) == \/ \E d \in docs : d["uuid"] = u
                      \/ \E s \in Threads : op[s] = "create" /\ pat[s]["uuid"] = u
           Kept(u) == \/ \E d \in docs' : d["uuid"] = u
                      \/ \E s \in Threads : op'[s] = "create" /\ pat'[s]["uuid"] = u
<1> SUFFICES ASSUME ~MayCrash, "deleteById" \notin Ops,
                    NEW v \in registry'
             PROVE  Kept(v)
  BY DEF NoRegistryLeak
<1>1. \A s \in Threads : s # t => op'[s] = op[s] /\ pat'[s] = pat[s]
  BY OthersKeepTheirRequests DEF Same
<1>2. v \in registry => Held(v)
  BY DEF NoRegistryLeak
<1>3. ASSUME docs \subseteq docs', v \in registry,
             (op'[t] = op[t] /\ pat'[t] = pat[t]) \/ op[t] # "create"
      PROVE  Kept(v)
  BY <1>1, <1>2, <1>3
<1>4. CASE Request(t)
  <2>1. ASSUME NEW u \in Uuids, NEW kv \in KeyVals, CreateUUID(t, u, kv)
        PROVE  Kept(v)
    <3>1. /\ op'[t] = "create" /\ pat'[t]["uuid"] = u /\ docs' = docs
          /\ registry' = registry \cup {u} /\ op[t] # "create"
      BY <2>1, BusinessFacts DEF CreateUUID, Idle, TypeOK, Shape
    <3>2. QED
      BY <1>3, <3>1
  <2>2. ASSUME docs' = docs, registry' \subseteq registry, Idle(t)
        PROVE  Kept(v)
    BY <1>3, <2>2 DEF Idle, Shape
  <2>3. QED
    BY <1>4, <2>1, <2>2 DEF Request, RemoveUUID, DeleteBusinessById,
       UpdateBusiness, service
<1>5. CASE Work(t)
  <2>1. ASSUME NEW i \in Ids, Save(t, i)
        PROVE  Kept(v)
    BY <1>3, <2>1 DEF Save
  <2>2. CASE Query(t) \/ Refuse(t) \/ Enter(t)
    BY <1>3, <2>2 DEF Query, Refuse, Enter, service
  <2>3. CASE Reread(t)
    <3>1. docs' = docs /\ registry' = registry
      BY <2>3 DEF Reread, service
    <3>2. CASE UNCHANGED <<op, pat>>
      BY <1>3, <3>1, <3>2
    <3>3. ASSUME NEW d \in MatchesAll(pat[t]) PROVE Kept(v)
      <4>1. d \in docs /\ pat[t]["uuid"] \in Uuids
        BY <2>3 DEF MatchesAll, Reread, Shape
      <4>2. d["uuid"] = pat[t]["uuid"]
        BY <4>1, FieldFacts DEF MatchesAll, Present
      <4>3. CASE pat[t]["uuid"] = v
        BY <3>1, <4>1, <4>2, <4>3
      <4>4. CASE pat[t]["uuid"] # v
        BY <1>1, <1>2, <3>1, <4>4
      <4>5. QED
        BY <4>3, <4>4
    <3>4. QED
      BY <2>3, <3>2, <3>3 DEF Reread
  <2>4. CASE Rollback(t)
    <3>1. docs' = docs /\ registry' = registry \ {pat[t]["uuid"]}
      BY <2>4 DEF Rollback
    <3>2. QED
      BY <1>1, <1>2, <3>1
  <2>5. CASE Remove(t)
    <3>1. op[t] = "delete" /\ registry' = registry
      BY <2>5 DEF Remove, TypeOK
    <3>2. ASSUME NEW d \in docs, d["uuid"] = v PROVE d \in docs'
      <4>1. DeletionKnows(t)
        BY DEF JInv, ThreadKnows
      <4>2. d["_id"] \notin hit[t]
        BY <3>1, <3>2, <4>1 DEF DeletionKnows
      <4>3. QED
        BY <2>5, <4>2 DEF Remove
    <3>3. QED
      BY <1>1, <1>2, <3>1, <3>2
  <2>6. CASE Set(t)
    <3>1. /\ registry' = registry /\ UNCHANGED <<op, pat>>
          /\ op[t] = "update"
      BY <2>6 DEF Set
    <3>2. ASSUME NEW d \in docs PROVE \E e \in docs' : e["uuid"] = d["uuid"]
      <4>1. CASE docs' = docs
        BY <4>1
      <4>2. ASSUME NEW c \in Matches("uuid", pat[t]["uuid"]),
                   docs' = (docs \ {c}) \cup {Overlay(c, new[t])}
            PROVE  \E e \in docs' : e["uuid"] = d["uuid"]
        <5>1. c["uuid"] = pat[t]["uuid"] /\ c \in Docs
          BY DEF Matches, Shape
        <5>2. new[t]["uuid"] = c["uuid"] /\ new[t] \in [Fields -> Domain]
          BY <3>1, <5>1 DEF Shape, TypeOK
        <5>3. Overlay(c, new[t])["uuid"] = c["uuid"]
          BY <5>1, <5>2, OverlayKeepsIdentity
        <5>4. QED
          BY <4>2, <5>3
      <4>3. QED
        BY <2>6, <4>1, <4>2 DEF Set
    <3>3. QED
      BY <1>2, <3>1, <3>2
  <2>7. CASE Load(t) \/ RefuseUpdate(t) \/ Confirm(t)
    <3>1. /\ docs' = docs /\ registry' = registry /\ op[t] # "create"
      BY <2>7 DEF Load, RefuseUpdate, Confirm, Shape
    <3>2. QED
      BY <1>3, <3>1
  <2>8. QED
    BY <1>5, <2>1, <2>2, <2>3, <2>4, <2>5, <2>6, <2>7 DEF Work
<1>6. QED
  BY <1>4, <1>5

-----------------------------------------------------------------------------
(***************************************************************************)
(* What a client sees: every step of the service is a step of EntityLife   *)
(* or leaves the status of every uuid as it was.                           *)
(***************************************************************************)
\* The five statuses exclude each other.
StatusMeans(u) ==
    /\ Status(u) \in {"free", "reserved", "live", "dead", "spent"}
    /\ Status(u) = "free" <=> u \notin drawn
    /\ Status(u) = "live" <=> Stored(u)
    /\ Status(u) = "dead" <=> u \in ever /\ ~Stored(u)
    /\ Status(u) = "reserved" <=> u \in drawn \ ever /\ Creating(u)

LEMMA StatusFacts ==
    ASSUME IInv, NEW u \in Uuids
    PROVE  StatusMeans(u)
<1>1. /\ Stored(u) => u \in ever
      /\ u \in ever => u \in drawn
  BY DEF IInv, Owned, Stored
<1>2. QED
  BY <1>1 DEF StatusMeans, Status

LEMMA StatusFactsNext ==
    ASSUME IInv', NEW u \in Uuids
    PROVE  StatusMeans(u)'
<1>1. /\ Stored(u)' => u \in ever'
      /\ u \in ever' => u \in drawn'
  BY DEF IInv, Owned, Stored
<1>2. QED
  BY <1>1 DEF StatusMeans, Status

\* An identity whose four facts do not change keeps its status.
SameFacts(u) ==
    /\ u \in drawn' <=> u \in drawn
    /\ u \in ever' <=> u \in ever
    /\ Stored(u)' <=> Stored(u)
    /\ u \in drawn \ ever => (Creating(u)' <=> Creating(u))

LEMMA SameFactsSameStatus ==
    ASSUME IInv, IInv', NEW u \in Uuids, SameFacts(u)
    PROVE  Status(u)' = Status(u)
  BY StatusFacts, StatusFactsNext DEF StatusMeans, SameFacts

\* How the statuses of all identities change together.
LEMMA Moves ==
    ASSUME NEW S \in SUBSET Uuids, NEW from, NEW to,
           \A u \in S : Status(u) = from /\ Status(u)' = to,
           \A u \in Uuids \ S : Status(u)' = Status(u)
    PROVE  Life!Move(S, from, to)
  BY DEF Life!Move, LifeStatus

LEMMA Unmoved ==
    ASSUME \A u \in Uuids : Status(u)' = Status(u)
    PROVE  UNCHANGED LifeStatus
  BY DEF LifeStatus

\* Who creates what, when the other threads keep their requests.
LEMMA CreatorsKept ==
    ASSUME IInv, NEW t \in Threads, Request(t) \/ Work(t), NEW u,
           op[t] = "create" /\ pat[t]["uuid"] = u <=>
               op'[t] = "create" /\ pat'[t]["uuid"] = u
    PROVE  Creating(u)' <=> Creating(u)
<1>1. \A s \in Threads : s # t => op'[s] = op[s] /\ pat'[s] = pat[s]
  BY OthersKeepTheirRequests DEF Same, IInv
<1>2. QED
  BY <1>1 DEF Creating

LEMMA InitIsFree == Init => Life!Init
  BY DEF Init, Life!Init, LifeStatus, Status

LEMMA CreateUUIDReserves ==
    ASSUME IInv, IInv', ~Redraw, NEW t \in Threads, NEW u \in Uuids,
           NEW kv \in KeyVals, CreateUUID(t, u, kv)
    PROVE  Life!Reserve(u)
<1>1. /\ op[t] # "create" /\ op'[t] = "create" /\ pat'[t]["uuid"] = u
      /\ u \notin drawn /\ drawn' = drawn \cup {u}
      /\ UNCHANGED <<docs, ever>>
  BY BusinessFacts DEF CreateUUID, Idle, Taken, IInv, TypeOK, Shape
<1>2. Request(t)
  BY DEF Request
<1>3. Status(u) = "free"
  BY <1>1, StatusFacts DEF StatusMeans
<1>4. Status(u)' = "reserved"
  <2>1. u \notin ever
    BY <1>1 DEF IInv, Owned
  <2>2. u \in drawn' \ ever' /\ Creating(u)'
    BY <1>1, <2>1 DEF Creating
  <2>3. QED
    BY <2>2, StatusFactsNext DEF StatusMeans
<1>5. ASSUME NEW v \in Uuids \ {u} PROVE Status(v)' = Status(v)
  <2>1. Creating(v)' <=> Creating(v)
    BY <1>1, <1>2, CreatorsKept
  <2>2. SameFacts(v)
    BY <1>1, <2>1 DEF SameFacts, Stored
  <2>3. QED
    BY <2>2, SameFactsSameStatus
<1>6. QED
  BY <1>3, <1>4, <1>5, Moves DEF Life!Reserve

LEMMA SavePublishes ==
    ASSUME IInv, IInv', ~Redraw, NEW t \in Threads, NEW i \in Ids, Save(t, i)
    PROVE  Life!Publish(pat[t]["uuid"])
<1> PICK u : u = pat[t]["uuid"]
  OBVIOUS
<1> DEFINE saved == [pat[t] EXCEPT !["_id"] = i]
<1>1. /\ op[t] = "create" /\ pc[t] = "query"
      /\ docs' = docs \cup {saved} /\ ever' = ever \cup {u}
      /\ UNCHANGED <<drawn, op, pat>>
  BY DEF Save
<1>2. u \in Uuids /\ saved["uuid"] = u
  BY <1>1, FieldFacts DEF IInv, TypeOK, Shape
<1>3. u \in drawn /\ u \notin ever
  BY <1>1 DEF IInv, Owned, OwnedByThreads, Taken
<1> HIDE DEF saved
<1>4. Status(u) = "reserved"
  <2>1. Creating(u)
    BY <1>1 DEF Creating
  <2>2. QED
    BY <1>2, <1>3, <2>1, StatusFacts DEF StatusMeans
<1>5. Status(u)' = "live"
  <2>1. Stored(u)'
    BY <1>1, <1>2 DEF Stored
  <2>2. QED
    BY <1>2, <2>1, StatusFactsNext DEF StatusMeans
<1>6. ASSUME NEW v \in Uuids \ {u} PROVE Status(v)' = Status(v)
  <2>1. SameFacts(v)
    BY <1>1, <1>2 DEF SameFacts, Stored, Creating
  <2>2. QED
    BY <2>1, SameFactsSameStatus
<1>7. Life!Publish(u)
  BY <1>2, <1>4, <1>5, <1>6, Moves DEF Life!Publish
<1>8. QED
  BY <1>7

LEMMA RemoveRetires ==
    ASSUME IInv, IInv', JInv, ~Redraw, NEW t \in Threads, Remove(t)
    PROVE  (\E u \in Uuids : Life!Retire(u)) \/ UNCHANGED LifeStatus
<1>1. /\ op[t] # "create" /\ op'[t] = "none" /\ UNCHANGED <<drawn, ever>>
      /\ docs' = IF Cardinality(hit[t]) = 1
                 THEN {d \in docs : d["_id"] \notin hit[t]} ELSE docs
  BY DEF Remove, Answer, IInv, TypeOK
<1>2. \A v \in Uuids : Creating(v)' <=> Creating(v)
  BY <1>1, CreatorsKept DEF Work
<1>3. CASE docs' = docs
  <2>1. \A v \in Uuids : SameFacts(v)
    BY <1>1, <1>2, <1>3 DEF SameFacts, Stored
  <2>2. QED
    BY <2>1, SameFactsSameStatus, Unmoved
<1>4. CASE docs' # docs
  <2>1. PICK d \in docs : d \notin docs'
    BY <1>1, <1>4
  <2>2. hit[t] = {d["_id"]}
    <3>1. Cardinality(hit[t]) = 1 /\ d["_id"] \in hit[t]
      BY <1>1, <2>1
    <3>2. IsFiniteSet(hit[t])
      BY DEF Remove, JInv, ThreadKnows, DeletionKnows
    <3>3. \E x : hit[t] = {x}
      BY <3>1, <3>2, FS_Singleton
    <3>4. QED
      BY <3>1, <3>3
  <2>3. docs' = docs \ {d}
    BY <1>1, <1>4, <2>2 DEF JInv, IdsDistinct
  <2> DEFINE u == d["uuid"]
  <2>4. u \in Uuids
    BY DEF IInv, Shape, Docs
  <2>5. \A e \in docs : e # d => e["uuid"] # u
    BY DEF IInv, UuidsDistinct
  <2>6. Status(u) = "live"
    BY <2>4, StatusFacts DEF StatusMeans, Stored
  <2>7. Status(u)' = "dead"
    <3>1. u \in ever' /\ ~Stored(u)'
      BY <1>1, <2>3, <2>5 DEF Stored, IInv, Owned
    <3>2. QED
      BY <2>4, <3>1, StatusFactsNext DEF StatusMeans
  <2>8. ASSUME NEW v \in Uuids \ {u} PROVE Status(v)' = Status(v)
    <3>1. SameFacts(v)
      BY <1>1, <1>2, <2>3 DEF SameFacts, Stored
    <3>2. QED
      BY <3>1, SameFactsSameStatus
  <2> HIDE DEF u
  <2>9. Life!Retire(u)
    BY <2>4, <2>6, <2>7, <2>8, Moves DEF Life!Retire
  <2>10. QED
    BY <2>4, <2>9
<1>5. QED
  BY <1>3, <1>4

LEMMA RollbackAbandons ==
    ASSUME IInv, IInv', ~Redraw, NEW t \in Threads, Rollback(t)
    PROVE  \E S \in SUBSET Uuids : Life!Abandon(S)
<1> PICK u : u = pat[t]["uuid"]
  OBVIOUS
<1> PICK S : S = {u} \ ever
  OBVIOUS
<1>1. /\ op[t] = "create" /\ op'[t] = "none"
      /\ UNCHANGED <<docs, drawn, ever>>
  BY DEF Rollback, Answer, IInv, TypeOK, Shape
<1>2. u \in Uuids /\ u \in drawn
  BY <1>1 DEF IInv, Shape, Owned, OwnedByThreads, Taken
<1>3. \A s \in Threads : s # t => op'[s] = op[s] /\ pat'[s] = pat[s]
  BY OthersKeepTheirRequests DEF Work, Same, IInv
<1>4. \A s \in Threads : s # t /\ op[s] = "create" => pat[s]["uuid"] # u
  BY <1>1 DEF IInv, Owned, OwnedByThreads
<1>5. Creating(u) /\ ~Creating(u)'
  BY <1>1, <1>3, <1>4 DEF Creating
<1>6. \A v : v # u => (Creating(v)' <=> Creating(v))
  BY <1>1, <1>3 DEF Creating
<1>7. ASSUME NEW v \in S PROVE Status(v) = "reserved" /\ Status(v)' = "spent"
  <2>1. v = u /\ v \in drawn \ ever /\ v \in drawn' \ ever'
    BY <1>1, <1>2
  <2>2. ~Stored(v)'
    BY <1>1, <2>1 DEF Stored, IInv, Owned
  <2>3. QED
    BY <1>2, <1>5, <2>1, <2>2, StatusFacts, StatusFactsNext DEF StatusMeans
<1>8. ASSUME NEW v \in Uuids \ S PROVE Status(v)' = Status(v)
  <2>1. SameFacts(v)
    BY <1>1, <1>6 DEF SameFacts, Stored
  <2>2. QED
    BY <2>1, SameFactsSameStatus
<1>9. S \in SUBSET Uuids
  BY <1>2
<1>10. QED
  BY <1>7, <1>8, <1>9, Moves DEF Life!Abandon

LEMMA CrashAbandons ==
    ASSUME IInv, IInv', Crash
    PROVE  \E S \in SUBSET Uuids : Life!Abandon(S)
<1> DEFINE S == {u \in Uuids : Status(u) = "reserved"}
<1>1. (\A t \in Threads : op'[t] = "none") /\ UNCHANGED <<docs, drawn, ever>>
  BY DEF Crash
<1>2. \A u : ~Creating(u)'
  BY <1>1 DEF Creating
<1>3. ASSUME NEW v \in S PROVE Status(v)' = "spent"
  <2>1. v \in Uuids /\ v \in drawn' \ ever'
    BY <1>1, StatusFacts DEF StatusMeans
  <2>2. ~Stored(v)'
    BY <2>1 DEF Stored, IInv, Owned
  <2>3. QED
    BY <1>2, <2>1, <2>2, StatusFactsNext DEF StatusMeans
<1>4. ASSUME NEW v \in Uuids \ S PROVE Status(v)' = Status(v)
  <2>1. v \in drawn \ ever => ~Creating(v)
    BY StatusFacts DEF StatusMeans
  <2>2. SameFacts(v)
    BY <1>1, <1>2, <2>1 DEF SameFacts, Stored
  <2>3. QED
    BY <2>2, SameFactsSameStatus
<1>5. S \in SUBSET Uuids /\ \A v \in S : Status(v) = "reserved"
  OBVIOUS
<1> HIDE DEF S
<1>6. QED
  BY <1>3, <1>4, <1>5, Moves DEF Life!Abandon

\* Every other step is invisible.
LEMMA OtherStepsInvisible ==
    ASSUME IInv, IInv', NEW t \in Threads, Request(t) \/ Work(t),
           UNCHANGED <<drawn, ever>>, \A v \in Uuids : Stored(v)' <=> Stored(v),
           \/ op'[t] = op[t] /\ (op[t] = "create" => pat'[t] = pat[t])
           \/ op[t] # "create" /\ op'[t] # "create"
           \/ op[t] = "create" /\ op'[t] = "none" /\ pat[t]["uuid"] \in ever
    PROVE  UNCHANGED LifeStatus
<1>1. ASSUME NEW v \in Uuids PROVE SameFacts(v)
  <2>1. v \in drawn \ ever =>
          (op[t] = "create" /\ pat[t]["uuid"] = v <=>
               op'[t] = "create" /\ pat'[t]["uuid"] = v)
    OBVIOUS
  <2>2. v \in drawn \ ever => (Creating(v)' <=> Creating(v))
    BY <2>1, CreatorsKept
  <2>3. QED
    BY <2>2 DEF SameFacts
<1>2. QED
  BY <1>1, SameFactsSameStatus, Unmoved

LEMMA StepIsAStepOfLife ==
    ASSUME IInv, IInv', JInv, ~Redraw, [Next]_vars
    PROVE  [Life!Next]_LifeStatus
<1> USE DEF Life!Next
<1>1. CASE UNCHANGED vars
  <2>1. \A u \in Uuids : Status(u)' = Status(u)
    BY <1>1 DEF Status, Stored, Creating, vars, service, locals, history
  <2>2. QED
    BY <2>1, Unmoved
<1>2. CASE Crash
  BY <1>2, CrashAbandons
<1>3. ASSUME NEW t \in Threads, Request(t)
      PROVE  [Life!Next]_LifeStatus
  <2>1. ASSUME NEW u \in Uuids, NEW kv \in KeyVals, CreateUUID(t, u, kv)
        PROVE  [Life!Next]_LifeStatus
    BY <2>1, CreateUUIDReserves
  <2>2. CASE /\ UNCHANGED <<docs, drawn, ever>> /\ op[t] # "create"
             /\ op'[t] # "create"
    BY <1>3, <2>2, OtherStepsInvisible DEF Stored
  <2>3. op[t] # "create" \/ \E u \in Uuids, kv \in KeyVals : CreateUUID(t, u, kv)
    BY <1>3 DEF Request, RemoveUUID, DeleteBusinessById, UpdateBusiness,
       Idle, IInv, Shape
  <2>4. QED
    BY <1>3, <2>1, <2>2, <2>3 DEF Request, RemoveUUID, DeleteBusinessById,
       UpdateBusiness, service, history, IInv, TypeOK
<1>4. ASSUME NEW t \in Threads, Work(t)
      PROVE  [Life!Next]_LifeStatus
  <2>1. ASSUME NEW i \in Ids, Save(t, i)
        PROVE  [Life!Next]_LifeStatus
    <3>1. pat[t]["uuid"] \in Uuids
      BY <2>1 DEF Save, IInv, Shape
    <3>2. QED
      BY <2>1, <3>1, SavePublishes
  <2>2. CASE Remove(t)
    BY <2>2, RemoveRetires
  <2>3. CASE Rollback(t)
    BY <2>3, RollbackAbandons
  <2>4. CASE Query(t) \/ Refuse(t) \/ Enter(t)
    <3>1. UNCHANGED <<docs, drawn, ever, op, pat>>
      BY <2>4 DEF Query, Refuse, Enter, service, history
    <3>2. QED
      BY <1>4, <3>1, OtherStepsInvisible DEF Stored
  <2>5. CASE Load(t) \/ RefuseUpdate(t) \/ Confirm(t)
    <3>1. /\ UNCHANGED <<docs, drawn, ever>> /\ op[t] # "create"
          /\ op'[t] # "create"
      BY <2>5 DEF Load, RefuseUpdate, Confirm, Answer, IInv, Shape, TypeOK
    <3>2. QED
      BY <1>4, <3>1, OtherStepsInvisible DEF Stored
  <2>6. CASE Reread(t)
    <3>1. UNCHANGED <<docs, drawn, ever>> /\ op[t] = "create"
      BY <2>6 DEF Reread, service, IInv, Shape
    <3>2. \/ UNCHANGED <<op, pat>>
          \/ op'[t] = "none" /\ pat[t]["uuid"] \in ever
      <4>1. ASSUME NEW d \in MatchesAll(pat[t])
            PROVE  pat[t]["uuid"] \in ever
        <5>1. d \in docs /\ pat[t]["uuid"] # None
          BY <3>1, FieldFacts DEF MatchesAll, IInv, Shape
        <5>2. d["uuid"] = pat[t]["uuid"]
          BY <5>1, FieldFacts DEF MatchesAll, Present
        <5>3. QED
          BY <5>1, <5>2 DEF IInv, Owned
      <4>2. CASE MatchesAll(pat[t]) = {}
        <5>1. op' = op /\ pat' = pat
          BY <2>6, <4>2 DEF Reread
        <5>2. QED
          BY <5>1
      <4>3. CASE MatchesAll(pat[t]) # {}
        <5>1. op'[t] = "none"
          BY <2>6, <4>3 DEF Reread, Answer, IInv, TypeOK
        <5>2. QED
          BY <4>1, <4>3, <5>1
      <4>4. QED
        BY <4>2, <4>3
    <3>3. QED
      BY <1>4, <3>1, <3>2, OtherStepsInvisible DEF Stored
  <2>7. CASE Set(t)
    <3>1. UNCHANGED <<drawn, ever, op, pat>>
      BY <2>7 DEF Set
    <3>2. \A v \in Uuids : Stored(v)' <=> Stored(v)
      <4>1. CASE docs' = docs
        BY <4>1 DEF Stored
      <4>2. ASSUME NEW c \in Matches("uuid", pat[t]["uuid"]),
                   docs' = (docs \ {c}) \cup {Overlay(c, new[t])}
            PROVE  \A v \in Uuids : Stored(v)' <=> Stored(v)
        <5>1. c \in docs /\ c \in Docs /\ c["uuid"] = pat[t]["uuid"]
          BY DEF Matches, IInv, Shape
        <5>2. new[t]["uuid"] = c["uuid"] /\ new[t] \in [Fields -> Domain]
          BY <2>7, <5>1 DEF Set, IInv, Shape, TypeOK
        <5>3. Overlay(c, new[t])["uuid"] = c["uuid"]
          BY <5>1, <5>2, OverlayKeepsIdentity
        <5>4. QED
          BY <4>2, <5>1, <5>3 DEF Stored
      <4>3. QED
        BY <2>7, <4>1, <4>2 DEF Set
    <3>3. QED
      BY <1>4, <3>1, <3>2, OtherStepsInvisible
  <2>8. QED
    BY <1>4, <2>1, <2>2, <2>3, <2>4, <2>5, <2>6, <2>7 DEF Work
<1>5. QED
  BY <1>1, <1>2, <1>3, <1>4 DEF Next, Quiet

-----------------------------------------------------------------------------
(***************************************************************************)
(* The theorems.                                                           *)
(***************************************************************************)

\* The invariant holds throughout.
LEMMA Invariance == Spec => []IInv
<1>1. Init => IInv
  BY InitEstablishes
<1>2. IInv /\ [Next]_vars => IInv'
  BY NextKeeps
<1>3. QED
  BY <1>1, <1>2, PTL DEF Spec

\* Every variable keeps its type.
THEOREM TypeCorrect == Spec => []TypeOK
<1>1. IInv => TypeOK
  BY DEF IInv
<1>2. QED
  BY <1>1, Invariance, PTL

\* createBusiness never stores two businesses under one uuid, whatever
\* createUUID draws (as long as nobody deletes, when values may come again).
THEOREM UuidsStayDistinct == Spec => []UuidsDistinct
<1>1. IInv => UuidsDistinct
  BY DEF IInv
<1>2. QED
  BY <1>1, Invariance, PTL

\* The registry and the businesses stay in step but for deletions and for
\* creations an update has kept from finding their document.
THEOREM RegistryIsKept == Spec => RegistryKept
<1>1. IInv /\ [Next]_vars => [RegistryStep]_vars
  BY KeepsRegistry
<1>2. QED
  BY <1>1, Invariance, PTL DEF RegistryKept, Spec

\* A business whose deletion was answered never comes back, crashes included.
THEOREM DeletionIsFinal == Spec => []DeletedStaysDeleted
<1>1. IInv => DeletedStaysDeleted
  BY DEF IInv
<1>2. QED
  BY <1>1, Invariance, PTL

\* What the threads know holds throughout.
LEMMA Knowledge == Spec => [](IInv /\ JInv)
<1>1. Init => IInv /\ JInv
  BY InitEstablishes, InitKnows
<1>2. IInv /\ JInv /\ [Next]_vars => IInv' /\ JInv'
  BY NextKeeps, KnowledgeKept
<1>3. QED
  BY <1>1, <1>2, PTL DEF Spec

\* What a deletion or an update has matched inside the monitor is stored until
\* it writes, for any number of threads at work beside it.
THEOREM MatchedStaysStored == Spec => []MatchedStillStored
<1>1. IInv /\ JInv => MatchedStillStored
  <2> SUFFICES ASSUME IInv, JInv, NEW t \in Threads
               PROVE  /\ op[t] \in {"delete", "deleteById"} =>
                            \A i \in hit[t] : \E d \in docs : d["_id"] = i
                      /\ op[t] = "update" /\ pc[t] \in {"query", "confirm"} =>
                            Matches("uuid", pat[t]["uuid"]) # {}
    BY DEF MatchedStillStored
  <2>1. DeletionKnows(t) /\ UpdateKnows(t)
    BY DEF JInv, ThreadKnows
  <2>2. QED
    BY <2>1 DEF DeletionKnows, UpdateKnows, Matches
<1>2. QED
  BY <1>1, Knowledge, PTL

\* updateBusiness refuses a stored business only for a unique attribute that
\* another stored business shares with it.
THEOREM RefusalsHaveACause == Spec => []RefusalHasACause
<1>1. IInv /\ JInv => RefusalHasACause
  <2> SUFFICES ASSUME IInv, JInv, NEW t \in Threads, op[t] = "update",
                      pc[t] = "query", todo[t] = {}, Cardinality(hit[t]) # 1
               PROVE  \E d \in docs : /\ d["_id"] # pat[t]["_id"]
                                      /\ Shares(d, pat[t])
    BY DEF RefusalHasACause, Shares
  <2>1. /\ pat[t]["_id"] \in hit[t]
        /\ \A i \in hit[t] : \E d \in docs :
              /\ d["_id"] = i
              /\ i = pat[t]["_id"] \/ Shares(d, pat[t])
    BY DEF JInv, ThreadKnows, UpdateKnows
  <2>2. hit[t] # {pat[t]["_id"]}
    BY FS_Singleton
  <2>3. PICK i \in hit[t] : i # pat[t]["_id"]
    BY <2>1, <2>2
  <2>4. QED
    BY <2>1, <2>3
<1>2. QED
  BY <1>1, Knowledge, PTL

\* addBusiness lets a duplicate attribute through only when the other business
\* was written while it was checking.
THEOREM DuplicatesNeedOverlap == Spec => DuplicatesOnlyFromOverlap
<1>1. ASSUME IInv, JInv, NEW t \in Threads, NEW i \in Ids, Save(t, i),
             NEW d \in docs, \E k \in Keys : d[k] # None /\ d[k] = pat[t][k]
      PROVE  d["_id"] \in moved[t]
  <2>1. op[t] = "create" /\ pc[t] = "query" /\ todo[t] = {} /\ hit[t] = {}
    BY <1>1 DEF Save
  <2>2. CreationKnows(t)
    BY <1>1 DEF JInv, ThreadKnows
  <2>3. QED
    BY <1>1, <2>1, <2>2 DEF CreationKnows
<1>2. IInv /\ JInv =>
        \A t \in Threads, i \in Ids : Save(t, i) =>
          \A d \in docs : (\E k \in Keys : d[k] # None /\ d[k] = pat[t][k])
                              => d["_id"] \in moved[t]
  BY <1>1
<1>3. QED
  BY <1>2, Knowledge, PTL DEF DuplicatesOnlyFromOverlap

\* While the server does not crash and nobody deletes by _id, the registry
\* holds no uuid that no business and no creation in progress has.
THEOREM RegistryDoesNotLeak == Spec => []NoRegistryLeak
<1>1. Init => NoRegistryLeak
  BY DEF Init, NoRegistryLeak
<1>2. IInv /\ JInv /\ NoRegistryLeak /\ [Next]_vars => NoRegistryLeak'
  <2> SUFFICES ASSUME IInv, JInv, NoRegistryLeak, [Next]_vars
               PROVE  NoRegistryLeak'
    OBVIOUS
  <2>1. CASE UNCHANGED vars
    BY <2>1 DEF NoRegistryLeak, vars, service, locals
  <2>2. CASE Crash
    BY <2>2 DEF Crash, NoRegistryLeak
  <2>3. QED
    BY <2>1, <2>2, LeakKept DEF Next, Quiet
<1>3. QED
  BY <1>1, <1>2, Knowledge, PTL DEF Spec

\* The service implements EntityLife when uuids do not come again: whatever the
\* threads and the crashes do, a uuid has one life at most.
THEOREM UuidsLiveOnce ==
    ASSUME ~Redraw
    PROVE  Spec => OneLifePerUuid
<1>1. Init => Life!Init
  BY InitIsFree
<1>2. IInv /\ IInv' /\ JInv /\ [Next]_vars => [Life!Next]_LifeStatus
  BY StepIsAStepOfLife
<1>3. QED
  BY <1>1, <1>2, Knowledge, PTL DEF Spec, OneLifePerUuid, Life!Spec
-----------------------------------------------------------------------------
(***************************************************************************)
(* The followers: what the elements of one user in one business may look   *)
(* like.  AtMostTwoElements and SettingsKept are not inductive without     *)
(* each other: that a third element is never added needs the second one to *)
(* be the default, and that it stays the default needs settings to go to   *)
(* the first.                                                              *)
(***************************************************************************)
NotFollowing(b, u) ==
    followers[b][u] = <<>> /\ told[b][u] = NoSettings /\ <<b, u>> \notin again

FollowingOnce(b, u) ==
    /\ b \in stored
    /\ Len(followers[b][u]) = 1 /\ followers[b][u][1] = told[b][u]

FollowingTwice(b, u) ==
    /\ b \in stored
    /\ Len(followers[b][u]) = 2 /\ followers[b][u][1] = told[b][u]
    /\ followers[b][u][2] = Default /\ <<b, u>> \in again

Subscription(b, u) == NotFollowing(b, u) \/ FollowingOnce(b, u) \/ FollowingTwice(b, u)

FollowersInv == FollowersTypeOK /\ \A b \in Businesses, u \in Users : Subscription(b, u)

USE NoSettingsAssumption

LEMMA DefaultType == Default \in Settings
  BY RulesAssumption DEF Default, Settings

LEMMA AppendToOne ==
    ASSUME NEW S, NEW q \in Seq(S), Len(q) = 1, NEW e \in S
    PROVE  Len(Append(q, e)) = 2 /\ Append(q, e)[1] = q[1] /\ Append(q, e)[2] = e
  <1>1. Len(Append(q, e)) = Len(q) + 1
    BY AppendProperties
  <1>2. Append(q, e)[1] = q[1]
    OBVIOUS
  <1>3. Append(q, e)[Len(q) + 1] = e
    BY ZenonT(60), AppendProperties
  <1>4. Len(q) + 1 = 2
    OBVIOUS
  <1> QED BY <1>1, <1>2, <1>3, <1>4

\* A follower has settings to be told, who does not follow has none.
LEMMA ToldType ==
    ASSUME FollowersTypeOK, NEW b \in Businesses, NEW u \in Users, Subscription(b, u)
    PROVE  /\ followers[b][u] \in Seq(Settings)
           /\ followers[b][u] # <<>> => told[b][u] \in Settings /\ told[b][u] # NoSettings
  <1>1. followers[b][u] \in Seq(Settings) /\ told[b][u] \in Settings \cup {NoSettings}
    BY DEF FollowersTypeOK
  <1>2. CASE NotFollowing(b, u)
    BY <1>1, <1>2 DEF NotFollowing
  <1>3. CASE Len(followers[b][u]) \in {1, 2} /\ followers[b][u][1] = told[b][u]
    <2>1. followers[b][u][1] \in Settings
      BY <1>1, <1>3
    <2> QED BY <1>1, <1>3, <2>1
  <1> QED
    BY <1>2, <1>3 DEF Subscription, FollowingOnce, FollowingTwice

-----------------------------------------------------------------------------
LEMMA FollowKeeps ==
    ASSUME FollowersInv, NEW b \in Businesses, NEW u \in Users, follow(b, u)
    PROVE  FollowersInv'
  <1> DEFINE s == followers[b][u]
             s2 == IF Default \in Elements(b, u) THEN s ELSE Append(s, Default)
             t2 == IF told[b][u] = NoSettings THEN Default ELSE told[b][u]
  <1>1. /\ followers \in [Businesses -> [Users -> Seq(Settings)]]
        /\ told \in [Businesses -> [Users -> Settings \cup {NoSettings}]]
        /\ again \subseteq Businesses \X Users
        /\ stored \subseteq Businesses /\ deleted \subseteq Businesses
    BY DEF FollowersInv, FollowersTypeOK
  <1>2. Subscription(b, u) /\ s \in Seq(Settings) /\ Default \in Settings
    BY ToldType, DefaultType DEF FollowersInv
  <1>3. s2 \in Seq(Settings) /\ t2 \in Settings \cup {NoSettings}
    BY <1>1, <1>2
  <1>4. /\ stored' = stored /\ deleted' = deleted /\ b \in stored
        /\ followers' = [followers EXCEPT ![b] = [@ EXCEPT ![u] = s2]]
        /\ told' = [told EXCEPT ![b] = [@ EXCEPT ![u] = t2]]
        /\ again' = IF told[b][u] = NoSettings THEN again ELSE again \cup {<<b, u>>}
    BY DEF follow
  <1>5. /\ followers'[b][u] = s2 /\ told'[b][u] = t2
        /\ \A c \in Businesses, v \in Users : <<c, v>> # <<b, u>> =>
              /\ followers'[c][v] = followers[c][v] /\ told'[c][v] = told[c][v]
              /\ <<c, v>> \in again' <=> <<c, v>> \in again
    BY <1>1, <1>4
  <1>6. FollowersTypeOK'
    <2> HIDE DEF s2, t2
    <2> QED BY <1>1, <1>3, <1>4 DEF FollowersTypeOK
  <1>7. Subscription(b, u)'
    <2>1. CASE NotFollowing(b, u)
      <3>1. s2 = <<Default>> /\ t2 = Default
        BY <2>1 DEF NotFollowing, Elements
      <3> HIDE DEF s2, t2
      <3>2. Len(s2) = 1 /\ s2[1] = t2
        BY <3>1
      <3> QED BY <3>2, <1>4, <1>5 DEF Subscription, FollowingOnce
    <2>2. CASE FollowingOnce(b, u)
      <3>1. told[b][u] # NoSettings /\ t2 = told[b][u] /\ <<b, u>> \in again'
        BY <2>2, <1>2, <1>4, ToldType DEF FollowingOnce, FollowersInv
      <3>2. CASE Default \in Elements(b, u)
        BY <2>2, <3>1, <3>2, <1>4, <1>5 DEF Subscription, FollowingOnce
      <3>3. CASE Default \notin Elements(b, u)
        <4>1. Len(s2) = 2 /\ s2[1] = s[1] /\ s2[2] = Default
          <5>1. s2 = Append(s, Default) /\ Len(s) = 1
            BY <2>2, <3>3 DEF FollowingOnce
          <5> HIDE DEF s2
          <5> QED BY <5>1, <1>2, AppendToOne
        <4> QED BY <2>2, <3>1, <4>1, <1>4, <1>5 DEF Subscription, FollowingOnce, FollowingTwice
      <3> QED BY <3>2, <3>3
    <2>3. CASE FollowingTwice(b, u)
      <3>1. told[b][u] # NoSettings /\ t2 = told[b][u] /\ <<b, u>> \in again'
        BY <2>3, <1>2, <1>4, ToldType DEF FollowingTwice, FollowersInv
      <3>2. s2 = s
        BY <2>3, <1>2 DEF FollowingTwice, Elements
      <3> QED BY <2>3, <3>1, <3>2, <1>4, <1>5 DEF Subscription, FollowingTwice
    <2> QED BY <1>2, <2>1, <2>2, <2>3 DEF Subscription
  <1>8. ASSUME NEW c \in Businesses, NEW v \in Users, <<c, v>> # <<b, u>>
        PROVE  Subscription(c, v)'
    BY <1>4, <1>5, <1>8 DEF FollowersInv, Subscription, NotFollowing, FollowingOnce, FollowingTwice
  <1> QED BY <1>6, <1>7, <1>8 DEF FollowersInv

LEMMA SetRuleKeeps ==
    ASSUME FollowersInv, NEW b \in Businesses, NEW u \in Users, NEW r \in Rules,
           NEW v \in {"on", "off"}, setSubscriptionRule(b, u, r, v)
    PROVE  FollowersInv'
  <1> DEFINE s == followers[b][u]
             s2 == [s EXCEPT ![1] = [@ EXCEPT ![r] = v]]
             t2 == [told[b][u] EXCEPT ![r] = v]
  <1>1. /\ followers \in [Businesses -> [Users -> Seq(Settings)]]
        /\ told \in [Businesses -> [Users -> Settings \cup {NoSettings}]]
        /\ again \subseteq Businesses \X Users
        /\ stored \subseteq Businesses /\ deleted \subseteq Businesses
    BY DEF FollowersInv, FollowersTypeOK
  <1>2. /\ Subscription(b, u) /\ s \in Seq(Settings) /\ s # <<>>
        /\ told[b][u] \in Settings /\ told[b][u] # NoSettings
    BY ToldType DEF FollowersInv, setSubscriptionRule, Follows
  <1>3. s[1] = told[b][u] /\ Len(s) \in {1, 2} /\ Len(s) \in Nat
    BY <1>2 DEF Subscription, NotFollowing, FollowingOnce, FollowingTwice
  <1>4. t2 \in Settings
    BY <1>2 DEF Settings
  <1>5. /\ s2 \in Seq(Settings) /\ Len(s2) = Len(s)
        /\ s2[1] = t2 /\ (Len(s) = 2 => s2[2] = s[2])
    <2>1. s2 = [s EXCEPT ![1] = t2]
      BY <1>3
    <2> HIDE DEF t2, s2
    <2> QED BY <2>1, <1>2, <1>3, <1>4
  <1>6. /\ stored' = stored /\ deleted' = deleted /\ again' = again
        /\ followers' = [followers EXCEPT ![b] = [@ EXCEPT ![u] = s2]]
        /\ told' = [told EXCEPT ![b] = [@ EXCEPT ![u] = t2]]
    BY DEF setSubscriptionRule
  <1> HIDE DEF s2, t2
  <1>7. /\ followers'[b][u] = s2 /\ told'[b][u] = t2
        /\ \A c \in Businesses, w \in Users : <<c, w>> # <<b, u>> =>
              followers'[c][w] = followers[c][w] /\ told'[c][w] = told[c][w]
    BY <1>1, <1>6
  <1>8. FollowersTypeOK'
    BY <1>1, <1>4, <1>5, <1>6 DEF FollowersTypeOK
  <1>9. Subscription(b, u)'
    BY <1>2, <1>3, <1>5, <1>6, <1>7
       DEF Subscription, NotFollowing, FollowingOnce, FollowingTwice
  <1>10. ASSUME NEW c \in Businesses, NEW w \in Users, <<c, w>> # <<b, u>>
         PROVE  Subscription(c, w)'
    BY <1>6, <1>7, <1>10 DEF FollowersInv, Subscription, NotFollowing, FollowingOnce, FollowingTwice
  <1> QED BY <1>8, <1>9, <1>10 DEF FollowersInv

\* unFollow and deleteBusiness take every element of the users concerned.
LEMMA UnFollowKeeps ==
    ASSUME FollowersInv, NEW b \in Businesses, NEW u \in Users, unFollow(b, u)
    PROVE  FollowersInv'
  <1>1. /\ followers \in [Businesses -> [Users -> Seq(Settings)]]
        /\ told \in [Businesses -> [Users -> Settings \cup {NoSettings}]]
    BY DEF FollowersInv, FollowersTypeOK
  <1>2. /\ followers'[b][u] = <<>> /\ told'[b][u] = NoSettings /\ <<b, u>> \notin again'
        /\ \A c \in Businesses, v \in Users : <<c, v>> # <<b, u>> =>
              /\ followers'[c][v] = followers[c][v] /\ told'[c][v] = told[c][v]
              /\ <<c, v>> \in again' <=> <<c, v>> \in again
    BY <1>1 DEF unFollow
  <1>3. FollowersTypeOK'
    <2>1. <<>> \in Seq(Settings)
      OBVIOUS
    <2> QED BY <2>1, <1>1 DEF FollowersInv, FollowersTypeOK, unFollow
  <1>4. Subscription(b, u)'
    BY <1>2 DEF Subscription, NotFollowing
  <1>5. ASSUME NEW c \in Businesses, NEW v \in Users, <<c, v>> # <<b, u>>
        PROVE  Subscription(c, v)'
    <2>1. stored' = stored /\ Subscription(c, v)
      BY DEF unFollow, FollowersInv
    <2> QED BY <2>1, <1>2, <1>5 DEF Subscription, NotFollowing, FollowingOnce, FollowingTwice
  <1> QED BY <1>3, <1>4, <1>5 DEF FollowersInv

LEMMA DeleteKeeps ==
    ASSUME FollowersInv, NEW b \in Businesses, DeleteBusiness(b)
    PROVE  FollowersInv'
  <1>1. /\ followers \in [Businesses -> [Users -> Seq(Settings)]]
        /\ told \in [Businesses -> [Users -> Settings \cup {NoSettings}]]
    BY DEF FollowersInv, FollowersTypeOK
  <1>2. /\ \A v \in Users : followers'[b][v] = <<>> /\ told'[b][v] = NoSettings
        /\ \A c \in Businesses \ {b} : followers'[c] = followers[c] /\ told'[c] = told[c]
        /\ \A p : p \in again' <=> p \in again /\ p[1] # b
    BY <1>1 DEF DeleteBusiness
  <1>3. FollowersTypeOK'
    <2>1. <<>> \in Seq(Settings)
      OBVIOUS
    <2>2. /\ [u \in Users |-> <<>>] \in [Users -> Seq(Settings)]
          /\ [u \in Users |-> NoSettings] \in [Users -> Settings \cup {NoSettings}]
      BY <2>1
    <2> QED BY <2>2, <1>1 DEF FollowersInv, FollowersTypeOK, DeleteBusiness
  <1>4. ASSUME NEW v \in Users PROVE Subscription(b, v)'
    BY <1>2 DEF Subscription, NotFollowing
  <1>5. ASSUME NEW c \in Businesses \ {b}, NEW v \in Users PROVE Subscription(c, v)'
    BY <1>2 DEF FollowersInv, Subscription, NotFollowing, FollowingOnce, FollowingTwice, DeleteBusiness
  <1> QED BY <1>3, <1>4, <1>5 DEF FollowersInv

LEMMA AddKeeps ==
    ASSUME FollowersInv, NEW b \in Businesses, AddBusiness(b)
    PROVE  FollowersInv'
  BY DEF FollowersInv, FollowersTypeOK, AddBusiness, Subscription, NotFollowing, FollowingOnce, FollowingTwice

-----------------------------------------------------------------------------
LEMMA FollowersInitially == FollowersInit => FollowersInv
  <1> SUFFICES ASSUME FollowersInit PROVE FollowersInv
    OBVIOUS
  <1>1. FollowersTypeOK
    <2>1. <<>> \in Seq(Settings)
      OBVIOUS
    <2>2. [u \in Users |-> <<>>] \in [Users -> Seq(Settings)]
      BY <2>1
    <2> QED BY <2>2 DEF FollowersInit, FollowersTypeOK
  <1>2. \A b \in Businesses, u \in Users : NotFollowing(b, u)
    BY DEF FollowersInit, NotFollowing
  <1> QED BY <1>1, <1>2 DEF FollowersInv, Subscription

LEMMA FollowersKept == FollowersInv /\ [FollowersNext]_followersVars => FollowersInv'
  <1> SUFFICES ASSUME FollowersInv, [FollowersNext]_followersVars PROVE FollowersInv'
    OBVIOUS
  <1>1. ASSUME NEW b \in Businesses, AddBusiness(b) \/ DeleteBusiness(b) PROVE FollowersInv'
    BY <1>1, AddKeeps, DeleteKeeps
  <1>2. ASSUME NEW b \in Businesses, NEW u \in Users, follow(b, u) \/ unFollow(b, u)
        PROVE  FollowersInv'
    BY <1>2, FollowKeeps, UnFollowKeeps
  <1>3. ASSUME NEW b \in Businesses, NEW u \in Users, NEW r \in Rules,
               NEW v \in {"on", "off"}, setSubscriptionRule(b, u, r, v)
        PROVE  FollowersInv'
    BY <1>3, SetRuleKeeps
  <1>4. CASE UNCHANGED followersVars
    BY <1>4 DEF FollowersInv, FollowersTypeOK, followersVars, Subscription, NotFollowing, FollowingOnce, FollowingTwice
  <1> QED BY <1>1, <1>2, <1>3, <1>4 DEF FollowersNext

LEMMA FollowersInvariance == FollowersSpec => []FollowersInv
  BY FollowersInitially, FollowersKept, PTL DEF FollowersSpec

\* What is stored, told and remembered of a subscription has its type.
THEOREM SubscriptionTypes == FollowersSpec => []FollowersTypeOK
  BY FollowersInvariance, PTL DEF FollowersInv

\* follow, however often it is repeated and whatever is set in between, leaves
\* a user with at most two elements in the array of followers.
THEOREM FollowersBounded == FollowersSpec => []AtMostTwoElements
  <1>1. FollowersInv => AtMostTwoElements
    <2> SUFFICES ASSUME FollowersInv, NEW b \in Businesses, NEW u \in Users
                 PROVE  LET s == followers[b][u] IN
                        Len(s) <= 1 \/ (Len(s) = 2 /\ s[2] = Default /\ <<b, u>> \in again)
      BY DEF AtMostTwoElements
    <2>1. Len(<<>>) = 0
      OBVIOUS
    <2>2. CASE NotFollowing(b, u)
      BY <2>1, <2>2 DEF NotFollowing
    <2>3. CASE FollowingOnce(b, u)
      BY <2>3 DEF FollowingOnce
    <2>4. CASE FollowingTwice(b, u)
      BY <2>4 DEF FollowingTwice
    <2> QED BY <2>2, <2>3, <2>4 DEF FollowersInv, Subscription
  <1> QED BY <1>1, FollowersInvariance, PTL

\* The list of followed businesses is what the answered requests of a user add
\* up to, however often the user follows again and sets rules in between.
THEOREM FollowedIsAsAsked == FollowersSpec => []FollowedAsAsked
  <1>1. FollowersInv => FollowedAsAsked
    <2> SUFFICES ASSUME FollowersInv, NEW u \in Users, NEW b \in Businesses
                 PROVE  Follows(b, u) <=> told[b][u] # NoSettings
      BY DEF FollowedAsAsked, retrieveFollowedByUser, Follows
    <2>1. Subscription(b, u) /\ FollowersTypeOK
      BY DEF FollowersInv
    <2>2. followers[b][u] # <<>> => told[b][u] # NoSettings
      BY <2>1, ToldType
    <2>3. Len(<<>>) = 0
      OBVIOUS
    <2>4. CASE NotFollowing(b, u)
      BY <2>4 DEF NotFollowing, Follows
    <2>5. CASE FollowingOnce(b, u) \/ FollowingTwice(b, u)
      BY <2>2, <2>3, <2>5 DEF FollowingOnce, FollowingTwice, Follows
    <2> QED BY <2>1, <2>4, <2>5 DEF Subscription
  <1> QED BY <1>1, FollowersInvariance, PTL

\* setSubscriptionRule and follow lose no setting a user was told of.
THEOREM SettingsAreKept == FollowersSpec => []SettingsKept
  <1>1. FollowersInv => SettingsKept
    BY DEF FollowersInv, SettingsKept, Subscription, NotFollowing, FollowingOnce, FollowingTwice
  <1> QED BY <1>1, FollowersInvariance, PTL

\* What retrieveSubscriptionRules answers is what the user set, or the default
\* after the user followed again.
THEOREM RulesAreReadAsSet == FollowersSpec => []RulesReadAsSet
  <1>1. FollowersInv => RulesReadAsSet
    BY DEF FollowersInv, RulesReadAsSet, retrieveSubscriptionRules, Follows,
           Subscription, NotFollowing, FollowingOnce, FollowingTwice
  <1> QED BY <1>1, FollowersInvariance, PTL
=============================================================================

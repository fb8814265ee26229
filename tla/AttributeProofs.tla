-------------------------- MODULE AttributeProofs --------------------------
(***************************************************************************)
(* Theorems about AttributeLifecycle, for any number of threads, names,    *)
(* _ids of clients and creations.                                          *)
(***************************************************************************)
EXTENDS AttributeLifecycle, TLAPS

-----------------------------------------------------------------------------
(***************************************************************************)
(* The inductive invariant.                                                *)
(***************************************************************************)

\* Nothing that was not drawn is known; _ids that were drawn number the attributes.
Known ==
    /\ \A u \in registry \cup ever : u <= creations
    /\ rewritten \subseteq ever
    /\ \A i \in Ids : stored[i] # None =>
          stored[i].uuid \in ever /\ (i \in Uuids => i <= creations)

\* A creation has a uuid of its own, registered, that no client knows until it saves.
Drawn(t) ==
    /\ Creating(t) =>
          /\ job[t].uuid \in registry
          /\ job[t].id \in Ids /\ (job[t].id \in Uuids => job[t].id <= creations)
    /\ pc[t] \in {"look", "name", "save"} => job[t].uuid \notin ever
    /\ pc[t] \in {"answer", "remove"} => job[t].uuid \in Uuids

Distinct ==
    \A s, t \in Threads :
        Creating(s) /\ Creating(t) /\ job[s].uuid = job[t].uuid => s = t

\* A creation that has looked may be surprised only by what was written since.
Looked(t) ==
    pc[t] \in {"name", "save"} =>
        \A i \in Ids \ fresh[t] : stored[i] # None =>
            /\ i # job[t].id
            /\ pc[t] = "save" /\ stored[i].name = job[t].name => stored[i].name = None

\* What a creation has saved is there as it was, unless written over since.
Kept(t) ==
    /\ t \in touched => pc[t] = "reread" /\ job[t].id \in fresh[t]
    /\ pc[t] = "reread" /\ job[t].id \notin fresh[t] => SavedAs(t, job[t].id)

\* A creation that failed has its uuid stored only for one of these reasons.
Undone(t) ==
    pc[t] = "undo" =>
        \A i \in Ids : stored[i] # None /\ stored[i].uuid = job[t].uuid =>
            job[t].uuid \in rewritten \/ job[t].id \in fresh[t]

IInv ==
    /\ TypeOK /\ Known /\ Distinct
    /\ \A t \in Threads : Drawn(t) /\ Looked(t) /\ Kept(t) /\ Undone(t)
    /\ StoredRegistered /\ NoUuidLost /\ AnsweredAsWritten

-----------------------------------------------------------------------------
LEMMA CreateUUIDKeeps ==
    ASSUME IInv, NEW t \in Threads, NEW id \in ClientIds \cup {None},
           NEW name \in Names \cup {None}, CreateUUID(t, id, name)
    PROVE  IInv'
<1> USE CreationsAssumption, IdsAssumption, NoneAssumption
    DEF Uuids, Ids, Attributes
<1>1. TypeOK'
  <2>1. creations' \in 0 .. MaxCreations /\ registry' \subseteq Uuids
    BY DEF IInv, TypeOK, Creating, CreateUUID, Goto, NoJob
  <2>2. stored' \in [Ids -> Attributes \cup {None}]
    BY DEF IInv, TypeOK, Creating, CreateUUID, Goto, NoJob
  <2>3. pc' \in [Threads -> {"idle", "look", "name", "save", "reread", "undo", "answer", "remove"}]
    BY DEF IInv, TypeOK, Creating, CreateUUID, Goto, NoJob
  <2>4. job' \in [Threads -> [uuid : Uuids \cup {None}, id : Ids \cup {None},
                            name : Names \cup {None}]]
    <3> DEFINE new == [NoJob EXCEPT !.uuid = creations',
                          !.id = IF id = None THEN creations' ELSE id, !.name = name]
    <3>1. creations' \in Uuids
      BY DEF IInv, TypeOK, CreateUUID
    <3>2. new \in [uuid : Uuids \cup {None}, id : Ids \cup {None}, name : Names \cup {None}]
      BY <3>1 DEF NoJob
    <3>3. job' = [job EXCEPT ![t] = new]
      BY DEF CreateUUID
    <3> HIDE DEF new
    <3> QED BY <3>2, <3>3 DEF IInv, TypeOK
  <2>5. touched' \subseteq Threads /\ ever' \subseteq Uuids /\ fresh' \in [Threads -> SUBSET Ids]
    BY DEF IInv, TypeOK, Creating, CreateUUID, Goto, NoJob
  <2>6. rewritten' \subseteq Uuids /\ removed' \subseteq Uuids /\ disowned' \subseteq Uuids
    BY DEF IInv, TypeOK, Creating, CreateUUID, Goto, NoJob
  <2> QED BY <2>1, <2>2, <2>3, <2>4, <2>5, <2>6 DEF TypeOK
<1>2. Known'
  BY DEF IInv, TypeOK, Known, Drawn, Creating, Having, CreateUUID, Goto, NoJob
<1>3. Distinct'
  BY DEF IInv, TypeOK, Known, Distinct, Drawn, Creating, CreateUUID, Goto, NoJob
<1>4. ASSUME NEW s \in Threads
      PROVE  Drawn(s)' /\ Looked(s)' /\ Kept(s)' /\ Undone(s)'
  <2>1. Drawn(s) /\ Looked(s) /\ Kept(s) /\ Undone(s)
    BY DEF IInv
  <2>2. Drawn(s)'
    BY <2>1 DEF IInv, TypeOK, Known, Distinct, Drawn, Creating, Having, CreateUUID, Goto, NoJob
  <2>3. Looked(s)'
    BY <2>1 DEF IInv, TypeOK, Known, Looked, Creating, Having, CreateUUID, Goto, NoJob
  <2>4. Kept(s)'
    BY <2>1 DEF IInv, TypeOK, Known, Kept, SavedAs, Drawn, Creating, Having, CreateUUID, Goto, NoJob
  <2>5. Undone(s)'
    BY <2>1 DEF IInv, TypeOK, Known, Kept, SavedAs, Undone, Drawn, Distinct, Creating, Having, CreateUUID, Goto, NoJob
  <2> QED BY <2>2, <2>3, <2>4, <2>5
<1>5. StoredRegistered'
  BY DEF IInv, TypeOK, Known, StoredRegistered, Drawn, Undone, Creating, Having, CreateUUID, Goto, NoJob
<1>6. NoUuidLost'
  BY DEF IInv, TypeOK, Known, NoUuidLost, SavedAs, Drawn, Creating, Having, CreateUUID, Goto, NoJob
<1>7. AnsweredAsWritten'
  BY DEF IInv, TypeOK, Known, AnsweredAsWritten, Drawn, Creating, Having, CreateUUID, Goto, NoJob
<1> QED BY <1>1, <1>2, <1>3, <1>4, <1>5, <1>6, <1>7 DEF IInv

LEMMA LookIdKeeps ==
    ASSUME IInv, NEW t \in Threads, LookId(t)
    PROVE  IInv'
<1> USE CreationsAssumption, IdsAssumption, NoneAssumption
    DEF Uuids, Ids, Attributes
<1>1. TypeOK'
  BY DEF IInv, TypeOK, Having, Creating, LookId, Goto, data, history
<1>2. Known'
  BY DEF IInv, TypeOK, Known, Drawn, Creating, Having, LookId, Goto, data, history
<1>3. Distinct'
  BY DEF IInv, TypeOK, Known, Distinct, Drawn, Creating, LookId, Goto, data, history
<1>4. ASSUME NEW s \in Threads
      PROVE  Drawn(s)' /\ Looked(s)' /\ Kept(s)' /\ Undone(s)'
  <2>1. Drawn(s) /\ Looked(s) /\ Kept(s) /\ Undone(s)
    BY DEF IInv
  <2>2. Drawn(s)'
    BY <2>1 DEF IInv, TypeOK, Known, Distinct, Drawn, Creating, Having, LookId, Goto, data, history
  <2>3. Looked(s)'
    BY <2>1 DEF IInv, TypeOK, Known, Looked, Creating, Having, LookId, Goto, data, history
  <2>4. Kept(s)'
    BY <2>1 DEF IInv, TypeOK, Known, Kept, SavedAs, Drawn, Creating, Having, LookId, Goto, data, history
  <2>5. Undone(s)'
    BY <2>1 DEF IInv, TypeOK, Known, Kept, SavedAs, Undone, Drawn, Distinct, Creating, Having, LookId, Goto, data, history
  <2> QED BY <2>2, <2>3, <2>4, <2>5
<1>5. StoredRegistered'
  BY DEF IInv, TypeOK, Known, StoredRegistered, Drawn, Undone, Creating, Having, LookId, Goto, data, history
<1>6. NoUuidLost'
  BY DEF IInv, TypeOK, Known, NoUuidLost, SavedAs, Drawn, Creating, Having, LookId, Goto, data, history
<1>7. AnsweredAsWritten'
  BY DEF IInv, TypeOK, Known, AnsweredAsWritten, Drawn, Creating, Having, LookId, Goto, data, history
<1> QED BY <1>1, <1>2, <1>3, <1>4, <1>5, <1>6, <1>7 DEF IInv

LEMMA LookNameKeeps ==
    ASSUME IInv, NEW t \in Threads, LookName(t)
    PROVE  IInv'
<1> USE CreationsAssumption, IdsAssumption, NoneAssumption
    DEF Uuids, Ids, Attributes
<1>1. TypeOK'
  BY DEF IInv, TypeOK, Having, Creating, LookName, Goto, data, history
<1>2. Known'
  BY DEF IInv, TypeOK, Known, Drawn, Creating, Having, LookName, Goto, data, history
<1>3. Distinct'
  BY DEF IInv, TypeOK, Known, Distinct, Drawn, Creating, LookName, Goto, data, history
<1>4. ASSUME NEW s \in Threads
      PROVE  Drawn(s)' /\ Looked(s)' /\ Kept(s)' /\ Undone(s)'
  <2>1. Drawn(s) /\ Looked(s) /\ Kept(s) /\ Undone(s)
    BY DEF IInv
  <2>2. Drawn(s)'
    BY <2>1 DEF IInv, TypeOK, Known, Distinct, Drawn, Creating, Having, LookName, Goto, data, history
  <2>3. Looked(s)'
    BY <2>1 DEF IInv, TypeOK, Known, Looked, Creating, Having, LookName, Goto, data, history
  <2>4. Kept(s)'
    BY <2>1 DEF IInv, TypeOK, Known, Kept, SavedAs, Drawn, Creating, Having, LookName, Goto, data, history
  <2>5. Undone(s)'
    BY <2>1 DEF IInv, TypeOK, Known, Kept, SavedAs, Undone, Drawn, Distinct, Creating, Having, LookName, Goto, data, history
  <2> QED BY <2>2, <2>3, <2>4, <2>5
<1>5. StoredRegistered'
  BY DEF IInv, TypeOK, Known, StoredRegistered, Drawn, Undone, Creating, Having, LookName, Goto, data, history
<1>6. NoUuidLost'
  BY DEF IInv, TypeOK, Known, NoUuidLost, SavedAs, Drawn, Creating, Having, LookName, Goto, data, history
<1>7. AnsweredAsWritten'
  BY DEF IInv, TypeOK, Known, AnsweredAsWritten, Drawn, Creating, Having, LookName, Goto, data, history
<1> QED BY <1>1, <1>2, <1>3, <1>4, <1>5, <1>6, <1>7 DEF IInv

LEMMA SaveKeeps ==
    ASSUME IInv, NEW t \in Threads, Save(t)
    PROVE  IInv'
<1> USE CreationsAssumption, IdsAssumption, NoneAssumption
    DEF Uuids, Ids, Attributes
<1>1. TypeOK'
  <2>0. job[t].uuid \in Uuids /\ job[t].id \in Ids
    BY DEF IInv, TypeOK, Drawn, Creating, Save
  <2>1. creations' \in 0 .. MaxCreations /\ registry' \subseteq Uuids
    BY <2>0 DEF IInv, TypeOK, Creating, Save, Goto, Wrote
  <2>2. stored' \in [Ids -> Attributes \cup {None}]
    BY <2>0 DEF IInv, TypeOK, Creating, Save, Goto, Wrote
  <2>3. pc' \in [Threads -> {"idle", "look", "name", "save", "reread", "undo", "answer", "remove"}]
    BY DEF IInv, TypeOK, Creating, Save, Goto, Wrote
  <2>4. job' \in [Threads -> [uuid : Uuids \cup {None}, id : Ids \cup {None},
                            name : Names \cup {None}]]
    BY DEF IInv, TypeOK, Creating, Save, Goto, Wrote
  <2>5. touched' \subseteq Threads /\ ever' \subseteq Uuids /\ fresh' \in [Threads -> SUBSET Ids]
    BY <2>0 DEF IInv, TypeOK, Creating, Save, Goto, Wrote
  <2>6. rewritten' \subseteq Uuids /\ removed' \subseteq Uuids /\ disowned' \subseteq Uuids
    BY <2>0 DEF IInv, TypeOK, Creating, Save, Goto, Wrote
  <2> QED BY <2>1, <2>2, <2>3, <2>4, <2>5, <2>6 DEF TypeOK
<1>2. Known'
  BY DEF IInv, TypeOK, Known, Drawn, Creating, Having, Save, Goto, Wrote
<1>3. Distinct'
  BY DEF IInv, TypeOK, Known, Distinct, Drawn, Creating, Save, Goto, Wrote
<1>4. ASSUME NEW s \in Threads
      PROVE  Drawn(s)' /\ Looked(s)' /\ Kept(s)' /\ Undone(s)'
  <2>1. Drawn(s) /\ Looked(s) /\ Kept(s) /\ Undone(s)
    BY DEF IInv
  <2>2. Drawn(s)'
    BY <2>1 DEF IInv, TypeOK, Known, Distinct, Drawn, Creating, Having, Save, Goto, Wrote
  <2>3. Looked(s)'
    BY <2>1 DEF IInv, TypeOK, Known, Looked, Creating, Having, Save, Goto, Wrote
  <2>4. Kept(s)'
    BY <2>1 DEF IInv, TypeOK, Known, Kept, SavedAs, Drawn, Creating, Having, Save, Goto, Wrote
  <2>5. Undone(s)'
    BY <2>1 DEF IInv, TypeOK, Known, Kept, SavedAs, Undone, Drawn, Distinct, Creating, Having, Save, Goto, Wrote
  <2> QED BY <2>2, <2>3, <2>4, <2>5
<1>5. StoredRegistered'
  BY DEF IInv, TypeOK, Known, StoredRegistered, Drawn, Undone, Creating, Having, Save, Goto, Wrote
<1>6. NoUuidLost'
  BY DEF IInv, TypeOK, Known, NoUuidLost, SavedAs, Drawn, Creating, Having, Save, Goto, Wrote
<1>7. AnsweredAsWritten'
  <2> SUFFICES ASSUME NEW s \in Threads, (pc[s] = "answer")', (Having(job[s].uuid) = {})'
               PROVE  (job[s].uuid \in rewritten \cup removed)'
    BY DEF AnsweredAsWritten
  <2>1. pc[s] = "answer" /\ job'[s] = job[s]
    BY DEF IInv, TypeOK, Save, Goto
  <2>2. CASE Having(job[s].uuid) = {}
    BY <2>1, <2>2 DEF IInv, AnsweredAsWritten, Save
  <2>3. ASSUME NEW i \in Ids, stored[i] # None, stored[i].uuid = job[s].uuid
        PROVE  job[s].uuid \in removed'
    <3>1. i = job[t].id
      BY <2>1, <2>3 DEF IInv, TypeOK, Having, Save
    <3> QED BY <2>3, <3>1 DEF Save
  <2> QED BY <2>1, <2>2, <2>3 DEF Having
<1> QED BY <1>1, <1>2, <1>3, <1>4, <1>5, <1>6, <1>7 DEF IInv

LEMMA RereadKeeps ==
    ASSUME IInv, NEW t \in Threads, Reread(t)
    PROVE  IInv'
<1> USE CreationsAssumption, IdsAssumption, NoneAssumption
    DEF Uuids, Ids, Attributes
<1>1. TypeOK'
  BY DEF IInv, TypeOK, Having, Creating, Reread, Goto, End, NoJob, data, history
<1>2. Known'
  BY DEF IInv, TypeOK, Known, Drawn, Creating, Having, Reread, Goto, End, NoJob, data, history
<1>3. Distinct'
  BY DEF IInv, TypeOK, Known, Distinct, Drawn, Creating, Reread, Goto, End, NoJob, data, history
<1>4. ASSUME NEW s \in Threads
      PROVE  Drawn(s)' /\ Looked(s)' /\ Kept(s)' /\ Undone(s)'
  <2>1. Drawn(s) /\ Looked(s) /\ Kept(s) /\ Undone(s)
    BY DEF IInv
  <2>2. Drawn(s)'
    BY <2>1 DEF IInv, TypeOK, Known, Distinct, Drawn, Creating, Having, Reread, Goto, End, NoJob, data, history
  <2>3. Looked(s)'
    BY <2>1 DEF IInv, TypeOK, Known, Looked, Creating, Having, Reread, Goto, End, NoJob, data, history
  <2>4. Kept(s)'
    BY <2>1 DEF IInv, TypeOK, Known, Kept, SavedAs, Drawn, Creating, Having, Reread, Goto, End, NoJob, data, history
  <2>5. Undone(s)'
    BY <2>1 DEF IInv, TypeOK, Known, Kept, SavedAs, Undone, Drawn, Distinct, Creating, Having, Reread, Goto, End, NoJob, data, history
  <2> QED BY <2>2, <2>3, <2>4, <2>5
<1>5. StoredRegistered'
  BY DEF IInv, TypeOK, Known, StoredRegistered, Drawn, Undone, Creating, Having, Reread, Goto, End, NoJob, data, history
<1>6. NoUuidLost'
  BY DEF IInv, TypeOK, Known, NoUuidLost, SavedAs, Drawn, Creating, Having, Reread, Goto, End, NoJob, data, history
<1>7. AnsweredAsWritten'
  BY DEF IInv, TypeOK, Known, AnsweredAsWritten, Drawn, Creating, Having, Reread, Goto, End, NoJob, data, history
<1> QED BY <1>1, <1>2, <1>3, <1>4, <1>5, <1>6, <1>7 DEF IInv

LEMMA UndoKeeps ==
    ASSUME IInv, NEW t \in Threads, Undo(t)
    PROVE  IInv'
<1> USE CreationsAssumption, IdsAssumption, NoneAssumption
    DEF Uuids, Ids, Attributes
<1>1. TypeOK'
  <2>0. job[t].uuid \in Uuids /\ job[t].id \in Ids
    BY DEF IInv, TypeOK, Drawn, Creating, Undo
  <2>1. creations' \in 0 .. MaxCreations /\ registry' \subseteq Uuids
    BY <2>0 DEF IInv, TypeOK, Creating, Undo, Goto, End, NoJob
  <2>2. stored' \in [Ids -> Attributes \cup {None}]
    BY <2>0 DEF IInv, TypeOK, Creating, Undo, Goto, End, NoJob
  <2>3. pc' \in [Threads -> {"idle", "look", "name", "save", "reread", "undo", "answer", "remove"}]
    BY DEF IInv, TypeOK, Creating, Undo, Goto, End, NoJob
  <2>4. job' \in [Threads -> [uuid : Uuids \cup {None}, id : Ids \cup {None},
                            name : Names \cup {None}]]
    BY DEF IInv, TypeOK, Creating, Undo, Goto, End, NoJob
  <2>5. touched' \subseteq Threads /\ ever' \subseteq Uuids /\ fresh' \in [Threads -> SUBSET Ids]
    BY <2>0 DEF IInv, TypeOK, Creating, Undo, Goto, End, NoJob
  <2>6. rewritten' \subseteq Uuids /\ removed' \subseteq Uuids /\ disowned' \subseteq Uuids
    BY <2>0 DEF IInv, TypeOK, Creating, Undo, Goto, End, NoJob
  <2> QED BY <2>1, <2>2, <2>3, <2>4, <2>5, <2>6 DEF TypeOK
<1>2. Known'
  BY DEF IInv, TypeOK, Known, Drawn, Creating, Having, Undo, Goto, End, NoJob
<1>3. Distinct'
  BY DEF IInv, TypeOK, Known, Distinct, Drawn, Creating, Undo, Goto, End, NoJob
<1>4. ASSUME NEW s \in Threads
      PROVE  Drawn(s)' /\ Looked(s)' /\ Kept(s)' /\ Undone(s)'
  <2>1. Drawn(s) /\ Looked(s) /\ Kept(s) /\ Undone(s)
    BY DEF IInv
  <2>2. Drawn(s)'
    BY <2>1 DEF IInv, TypeOK, Known, Distinct, Drawn, Creating, Having, Undo, Goto, End, NoJob
  <2>3. Looked(s)'
    BY <2>1 DEF IInv, TypeOK, Known, Looked, Creating, Having, Undo, Goto, End, NoJob
  <2>4. Kept(s)'
    BY <2>1 DEF IInv, TypeOK, Known, Kept, SavedAs, Drawn, Creating, Having, Undo, Goto, End, NoJob
  <2>5. Undone(s)'
    BY <2>1 DEF IInv, TypeOK, Known, Kept, SavedAs, Undone, Drawn, Distinct, Creating, Having, Undo, Goto, End, NoJob
  <2> QED BY <2>2, <2>3, <2>4, <2>5
<1>5. StoredRegistered'
  BY DEF IInv, TypeOK, Known, StoredRegistered, Drawn, Undone, Creating, Having, Undo, Goto, End, NoJob
<1>6. NoUuidLost'
  BY DEF IInv, TypeOK, Known, NoUuidLost, SavedAs, Drawn, Creating, Having, Undo, Goto, End, NoJob
<1>7. AnsweredAsWritten'
  BY DEF IInv, TypeOK, Known, AnsweredAsWritten, Drawn, Creating, Having, Undo, Goto, End, NoJob
<1> QED BY <1>1, <1>2, <1>3, <1>4, <1>5, <1>6, <1>7 DEF IInv

LEMMA SetKeeps ==
    ASSUME IInv, NEW t \in Threads, NEW u \in ever, NEW body \in Bodies, Set(t, u, body)
    PROVE  IInv'
<1> USE CreationsAssumption, IdsAssumption, NoneAssumption
    DEF Uuids, Ids, Attributes
<1>1. TypeOK'
  BY DEF IInv, TypeOK, Having, Creating, Set, Goto, NoJob, Wrote, Overlay, Bodies
<1>2. Known'
  BY DEF IInv, TypeOK, Known, Drawn, Creating, Having, Set, Goto, NoJob, Wrote, Overlay, Bodies
<1>3. Distinct'
  BY DEF IInv, TypeOK, Known, Distinct, Drawn, Creating, Set, Goto, NoJob, Wrote, Overlay, Bodies
<1>4. ASSUME NEW s \in Threads
      PROVE  Drawn(s)' /\ Looked(s)' /\ Kept(s)' /\ Undone(s)'
  <2>1. Drawn(s) /\ Looked(s) /\ Kept(s) /\ Undone(s)
    BY DEF IInv
  <2>2. Drawn(s)'
    BY <2>1 DEF IInv, TypeOK, Known, Distinct, Drawn, Creating, Having, Set, Goto, NoJob, Wrote, Overlay, Bodies
  <2>3. Looked(s)'
    BY <2>1 DEF IInv, TypeOK, Known, Looked, Creating, Having, Set, Goto, NoJob, Wrote, Overlay, Bodies
  <2>4. Kept(s)'
    BY <2>1 DEF IInv, TypeOK, Known, Kept, SavedAs, Drawn, Creating, Having, Set, Goto, NoJob, Wrote, Overlay, Bodies
  <2>5. Undone(s)'
    BY <2>1 DEF IInv, TypeOK, Known, Kept, SavedAs, Undone, Drawn, Distinct, Creating, Having, Set, Goto, NoJob, Wrote, Overlay, Bodies
  <2> QED BY <2>2, <2>3, <2>4, <2>5
<1>5. StoredRegistered'
  BY DEF IInv, TypeOK, Known, StoredRegistered, Drawn, Undone, Creating, Having, Set, Goto, NoJob, Wrote, Overlay, Bodies
<1>6. NoUuidLost'
  <2> SUFFICES ASSUME NEW v \in registry, v \notin removed, v \notin rewritten',
                      \A s \in Threads : ~(Creating(s)' /\ job'[s].uuid = v)
               PROVE  \E i \in Ids : stored'[i] # None /\ stored'[i].uuid = v
    BY DEF NoUuidLost, Having, Set
  <2>1. \A s \in Threads : ~(Creating(s) /\ job[s].uuid = v)
    BY DEF IInv, TypeOK, Creating, Set, Goto
  <2>2. PICK i \in Ids : stored[i] # None /\ stored[i].uuid = v
    BY <2>1 DEF IInv, NoUuidLost, Having, Set
  <2>3. PICK j \in Ids : /\ stored[j] # None /\ stored[j].uuid = u
                         /\ stored' = [stored EXCEPT ![j] = Overlay(stored[j], body)]
    BY DEF Set, Having
  <2>4. CASE i # j
    BY <2>2, <2>3, <2>4 DEF IInv, TypeOK
  <2>5. CASE i = j
    <3>1. body.uuid \in {None, u} /\ v = u
      BY <2>2, <2>3, <2>5 DEF Set
    <3>2. stored[j] \in Attributes
      BY <2>3 DEF IInv, TypeOK
    <3>3. stored'[j] = Overlay(stored[j], body)
      BY <2>3 DEF IInv, TypeOK
    <3>4. Overlay(stored[j], body) \in Attributes /\ Overlay(stored[j], body).uuid = u
      BY <2>3, <3>1, <3>2 DEF Overlay, Bodies, IInv, TypeOK
    <3> QED BY <3>1, <3>3, <3>4
  <2> QED BY <2>4, <2>5
<1>7. AnsweredAsWritten'
  BY DEF IInv, TypeOK, Known, AnsweredAsWritten, Drawn, Creating, Having, Set, Goto, NoJob, Wrote, Overlay, Bodies
<1> QED BY <1>1, <1>2, <1>3, <1>4, <1>5, <1>6, <1>7 DEF IInv

LEMMA AnswerKeeps ==
    ASSUME IInv, NEW t \in Threads, Answer(t)
    PROVE  IInv'
<1> USE CreationsAssumption, IdsAssumption, NoneAssumption
    DEF Uuids, Ids, Attributes
<1>1. TypeOK'
  BY DEF IInv, TypeOK, Having, Creating, Answer, Goto, End, NoJob, data, history
<1>2. Known'
  BY DEF IInv, TypeOK, Known, Drawn, Creating, Having, Answer, Goto, End, NoJob, data, history
<1>3. Distinct'
  BY DEF IInv, TypeOK, Known, Distinct, Drawn, Creating, Answer, Goto, End, NoJob, data, history
<1>4. ASSUME NEW s \in Threads
      PROVE  Drawn(s)' /\ Looked(s)' /\ Kept(s)' /\ Undone(s)'
  <2>1. Drawn(s) /\ Looked(s) /\ Kept(s) /\ Undone(s)
    BY DEF IInv
  <2>2. Drawn(s)'
    BY <2>1 DEF IInv, TypeOK, Known, Distinct, Drawn, Creating, Having, Answer, Goto, End, NoJob, data, history
  <2>3. Looked(s)'
    BY <2>1 DEF IInv, TypeOK, Known, Looked, Creating, Having, Answer, Goto, End, NoJob, data, history
  <2>4. Kept(s)'
    BY <2>1 DEF IInv, TypeOK, Known, Kept, SavedAs, Drawn, Creating, Having, Answer, Goto, End, NoJob, data, history
  <2>5. Undone(s)'
    BY <2>1 DEF IInv, TypeOK, Known, Kept, SavedAs, Undone, Drawn, Distinct, Creating, Having, Answer, Goto, End, NoJob, data, history
  <2> QED BY <2>2, <2>3, <2>4, <2>5
<1>5. StoredRegistered'
  BY DEF IInv, TypeOK, Known, StoredRegistered, Drawn, Undone, Creating, Having, Answer, Goto, End, NoJob, data, history
<1>6. NoUuidLost'
  BY DEF IInv, TypeOK, Known, NoUuidLost, SavedAs, Drawn, Creating, Having, Answer, Goto, End, NoJob, data, history
<1>7. AnsweredAsWritten'
  BY DEF IInv, TypeOK, Known, AnsweredAsWritten, Drawn, Creating, Having, Answer, Goto, End, NoJob, data, history
<1> QED BY <1>1, <1>2, <1>3, <1>4, <1>5, <1>6, <1>7 DEF IInv

LEMMA FindKeeps ==
    ASSUME IInv, NEW t \in Threads, NEW u \in ever, Find(t, u)
    PROVE  IInv'
<1> USE CreationsAssumption, IdsAssumption, NoneAssumption
    DEF Uuids, Ids, Attributes
<1>1. TypeOK'
  BY DEF IInv, TypeOK, Having, Creating, Find, Goto, NoJob, data, history
<1>2. Known'
  BY DEF IInv, TypeOK, Known, Drawn, Creating, Having, Find, Goto, NoJob, data, history
<1>3. Distinct'
  BY DEF IInv, TypeOK, Known, Distinct, Drawn, Creating, Find, Goto, NoJob, data, history
<1>4. ASSUME NEW s \in Threads
      PROVE  Drawn(s)' /\ Looked(s)' /\ Kept(s)' /\ Undone(s)'
  <2>1. Drawn(s) /\ Looked(s) /\ Kept(s) /\ Undone(s)
    BY DEF IInv
  <2>2. Drawn(s)'
    BY <2>1 DEF IInv, TypeOK, Known, Distinct, Drawn, Creating, Having, Find, Goto, NoJob, data, history
  <2>3. Looked(s)'
    BY <2>1 DEF IInv, TypeOK, Known, Looked, Creating, Having, Find, Goto, NoJob, data, history
  <2>4. Kept(s)'
    BY <2>1 DEF IInv, TypeOK, Known, Kept, SavedAs, Drawn, Creating, Having, Find, Goto, NoJob, data, history
  <2>5. Undone(s)'
    BY <2>1 DEF IInv, TypeOK, Known, Kept, SavedAs, Undone, Drawn, Distinct, Creating, Having, Find, Goto, NoJob, data, history
  <2> QED BY <2>2, <2>3, <2>4, <2>5
<1>5. StoredRegistered'
  BY DEF IInv, TypeOK, Known, StoredRegistered, Drawn, Undone, Creating, Having, Find, Goto, NoJob, data, history
<1>6. NoUuidLost'
  BY DEF IInv, TypeOK, Known, NoUuidLost, SavedAs, Drawn, Creating, Having, Find, Goto, NoJob, data, history
<1>7. AnsweredAsWritten'
  BY DEF IInv, TypeOK, Known, AnsweredAsWritten, Drawn, Creating, Having, Find, Goto, NoJob, data, history
<1> QED BY <1>1, <1>2, <1>3, <1>4, <1>5, <1>6, <1>7 DEF IInv

LEMMA RemoveKeeps ==
    ASSUME IInv, NEW t \in Threads, Remove(t)
    PROVE  IInv'
<1> USE CreationsAssumption, IdsAssumption, NoneAssumption
    DEF Uuids, Ids, Attributes
<1>1. TypeOK'
  BY DEF IInv, TypeOK, Having, Creating, Remove, Goto, End, NoJob, Wrote
<1>2. Known'
  BY DEF IInv, TypeOK, Known, Drawn, Creating, Having, Remove, Goto, End, NoJob, Wrote
<1>3. Distinct'
  BY DEF IInv, TypeOK, Known, Distinct, Drawn, Creating, Remove, Goto, End, NoJob, Wrote
<1>4. ASSUME NEW s \in Threads
      PROVE  Drawn(s)' /\ Looked(s)' /\ Kept(s)' /\ Undone(s)'
  <2>1. Drawn(s) /\ Looked(s) /\ Kept(s) /\ Undone(s)
    BY DEF IInv
  <2>2. Drawn(s)'
    BY <2>1 DEF IInv, TypeOK, Known, Distinct, Drawn, Creating, Having, Remove, Goto, End, NoJob, Wrote
  <2>3. Looked(s)'
    BY <2>1 DEF IInv, TypeOK, Known, Looked, Creating, Having, Remove, Goto, End, NoJob, Wrote
  <2>4. Kept(s)'
    BY <2>1 DEF IInv, TypeOK, Known, Kept, SavedAs, Drawn, Creating, Having, Remove, Goto, End, NoJob, Wrote
  <2>5. Undone(s)'
    BY <2>1 DEF IInv, TypeOK, Known, Kept, SavedAs, Undone, Drawn, Distinct, Creating, Having, Remove, Goto, End, NoJob, Wrote
  <2> QED BY <2>2, <2>3, <2>4, <2>5
<1>5. StoredRegistered'
  BY DEF IInv, TypeOK, Known, StoredRegistered, Drawn, Undone, Creating, Having, Remove, Goto, End, NoJob, Wrote
<1>6. NoUuidLost'
  BY DEF IInv, TypeOK, Known, NoUuidLost, SavedAs, Drawn, Creating, Having, Remove, Goto, End, NoJob, Wrote
<1>7. AnsweredAsWritten'
  <2> SUFFICES ASSUME NEW s \in Threads, (pc[s] = "answer")', (Having(job[s].uuid) = {})'
               PROVE  (job[s].uuid \in rewritten \cup removed)'
    BY DEF AnsweredAsWritten
  <2>1. s # t /\ pc[s] = "answer" /\ job'[s] = job[s]
    BY DEF IInv, TypeOK, Remove, Goto, End
  <2>2. CASE Having(job[s].uuid) = {}
    BY <2>1, <2>2 DEF IInv, AnsweredAsWritten, Remove
  <2>3. ASSUME NEW i \in Ids, stored[i] # None, stored[i].uuid = job[s].uuid
        PROVE  job[s].uuid \in removed'
    <3>1. i \in Having(job[t].uuid)
      BY <2>1, <2>3 DEF Having, Remove
    <3> QED BY <2>3, <3>1 DEF Having, Remove
  <2> QED BY <2>1, <2>2, <2>3 DEF Having
<1> QED BY <1>1, <1>2, <1>3, <1>4, <1>5, <1>6, <1>7 DEF IInv

LEMMA CrashKeeps ==
    ASSUME IInv, Crash
    PROVE  IInv'
<1> USE CreationsAssumption, IdsAssumption, NoneAssumption
    DEF Uuids, Ids, Attributes
<1>1. TypeOK'
  <2>0. ASSUME NEW s \in Threads, Creating(s)
        PROVE  job[s].uuid \in Uuids
    BY <2>0 DEF IInv, TypeOK, Drawn
  <2>1. creations' \in 0 .. MaxCreations /\ registry' \subseteq Uuids
    BY DEF IInv, TypeOK, Creating, Crash, NoJob, data
  <2>2. stored' \in [Ids -> Attributes \cup {None}]
    BY DEF IInv, TypeOK, Creating, Crash, NoJob, data
  <2>3. pc' \in [Threads -> {"idle", "look", "name", "save", "reread", "undo", "answer", "remove"}]
    BY DEF IInv, TypeOK, Creating, Crash, NoJob, data
  <2>4. job' \in [Threads -> [uuid : Uuids \cup {None}, id : Ids \cup {None},
                            name : Names \cup {None}]]
    BY DEF IInv, TypeOK, Creating, Crash, NoJob, data
  <2>5. touched' \subseteq Threads /\ ever' \subseteq Uuids /\ fresh' \in [Threads -> SUBSET Ids]
    BY DEF IInv, TypeOK, Creating, Crash, NoJob, data
  <2>6. rewritten' \subseteq Uuids /\ removed' \subseteq Uuids /\ disowned' \subseteq Uuids
    BY <2>0 DEF IInv, TypeOK, Creating, Crash, NoJob, data
  <2> QED BY <2>1, <2>2, <2>3, <2>4, <2>5, <2>6 DEF TypeOK
<1>2. Known'
  BY DEF IInv, TypeOK, Known, Drawn, Creating, Having, Crash, NoJob, data
<1>3. Distinct'
  BY DEF IInv, TypeOK, Known, Distinct, Drawn, Creating, Crash, NoJob, data
<1>4. ASSUME NEW s \in Threads
      PROVE  Drawn(s)' /\ Looked(s)' /\ Kept(s)' /\ Undone(s)'
  <2>1. Drawn(s) /\ Looked(s) /\ Kept(s) /\ Undone(s)
    BY DEF IInv
  <2>2. Drawn(s)'
    BY <2>1 DEF IInv, TypeOK, Known, Distinct, Drawn, Creating, Having, Crash, NoJob, data
  <2>3. Looked(s)'
    BY <2>1 DEF IInv, TypeOK, Known, Looked, Creating, Having, Crash, NoJob, data
  <2>4. Kept(s)'
    BY <2>1 DEF IInv, TypeOK, Known, Kept, SavedAs, Drawn, Creating, Having, Crash, NoJob, data
  <2>5. Undone(s)'
    BY <2>1 DEF IInv, TypeOK, Known, Kept, SavedAs, Undone, Drawn, Distinct, Creating, Having, Crash, NoJob, data
  <2> QED BY <2>2, <2>3, <2>4, <2>5
<1>5. StoredRegistered'
  BY DEF IInv, TypeOK, Known, StoredRegistered, Drawn, Undone, Creating, Having, Crash, NoJob, data
<1>6. NoUuidLost'
  BY DEF IInv, TypeOK, Known, NoUuidLost, SavedAs, Drawn, Creating, Having, Crash, NoJob, data
<1>7. AnsweredAsWritten'
  BY DEF IInv, TypeOK, Known, AnsweredAsWritten, Drawn, Creating, Having, Crash, NoJob, data
<1> QED BY <1>1, <1>2, <1>3, <1>4, <1>5, <1>6, <1>7 DEF IInv

LEMMA InitHolds == Init => IInv
  BY CreationsAssumption, IdsAssumption, NoneAssumption
     DEF Init, NoJob, Uuids, Ids, Attributes, IInv, TypeOK, Known, Drawn, Distinct, Looked,
         Kept, Undone, StoredRegistered, NoUuidLost, AnsweredAsWritten, Creating

LEMMA NextKeeps == IInv /\ [Next]_vars => IInv'
<1> SUFFICES ASSUME IInv, [Next]_vars PROVE IInv'
  OBVIOUS
<1>1. ASSUME NEW t \in Threads, NEW id \in ClientIds \cup {None},
             NEW name \in Names \cup {None}, CreateUUID(t, id, name)
      PROVE  IInv'
  BY <1>1, CreateUUIDKeeps
<1>2. ASSUME NEW t \in Threads, LookId(t) \/ LookName(t) \/ Save(t) \/ Reread(t) \/ Undo(t)
      PROVE  IInv'
  BY <1>2, LookIdKeeps, LookNameKeeps, SaveKeeps, RereadKeeps, UndoKeeps
<1>3. ASSUME NEW t \in Threads, NEW u \in ever, NEW body \in Bodies, Set(t, u, body)
      PROVE  IInv'
  BY <1>3, SetKeeps
<1>4. ASSUME NEW t \in Threads, Answer(t) \/ Remove(t) \/ \E u \in ever : Find(t, u)
      PROVE  IInv'
  BY <1>4, AnswerKeeps, RemoveKeeps, FindKeeps
<1>5. CASE Crash
  BY <1>5, CrashKeeps
<1>6. CASE UNCHANGED vars
  BY <1>6 DEF vars, data, history, IInv, TypeOK, Known, Drawn, Distinct, Looked, Kept, Undone,
              SavedAs, StoredRegistered, NoUuidLost, AnsweredAsWritten, Creating, Having
<1> QED BY <1>1, <1>2, <1>3, <1>4, <1>5, <1>6 DEF Next, Quiet

LEMMA Invariance == Spec => []IInv
  BY InitHolds, NextKeeps, PTL DEF Spec

LEMMA SavesSeen ==
    ASSUME IInv, NEW t \in Threads, Save(t), NEW i \in Ids \ fresh[t], stored[i] # None
    PROVE  i # job[t].id /\ (stored[i].name = job[t].name => stored[i].name = None)
  BY DEF IInv, Looked, Save

-----------------------------------------------------------------------------
(***************************************************************************)
(* The theorems.                                                           *)
(***************************************************************************)

\* Every variable keeps its type.
THEOREM AttributeTypes == Spec => []TypeOK
<1>1. IInv => TypeOK
  BY DEF IInv
<1> QED BY <1>1, Invariance, PTL

\* What is stored has a registered uuid, but for the two excuses.
THEOREM StoredAttributesAreRegistered == Spec => []StoredRegistered
<1>1. IInv => StoredRegistered
  BY DEF IInv
<1> QED BY <1>1, Invariance, PTL

\* createAttribute gives every uuid back that it cannot use.
THEOREM AttributesKeepTheirUuids == Spec => []NoUuidLost
<1>1. IInv => NoUuidLost
  BY DEF IInv
<1> QED BY <1>1, Invariance, PTL

\* Between the look of a creation and its save, a race is the only reason for a
\* second attribute with the name, or for one that is replaced.
THEOREM SavesAreSeen == Spec => NothingSavedUnseen
<1>1. IInv /\ [Next]_vars =>
        [\A t \in Threads : Save(t) =>
          \A i \in Ids \ fresh[t] : stored[i] # None =>
              i # job[t].id /\ (stored[i].name = job[t].name => stored[i].name = None)]_vars
  BY SavesSeen
<1> QED BY <1>1, Invariance, PTL DEF Spec, NothingSavedUnseen

\* An update throws only if its attribute was deleted, replaced or given another
\* uuid after it was written, or by the update itself.
THEOREM UpdatesAreAnswered == Spec => []AnsweredAsWritten
<1>1. IInv => AnsweredAsWritten
  BY DEF IInv
<1> QED BY <1>1, Invariance, PTL
=============================================================================

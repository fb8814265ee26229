-------------------------- MODULE CategoryImport --------------------------
(***************************************************************************)
(* The categories of products: CategoryPersistenceImpl, its unlocked       *)
(* check-then-save, the shell commands create and delete, and the GS1      *)
(* parser, ONE SAX handler for all imports whose fields say under which    *)
(* segment and family the next element goes.  A document is the sequence   *)
(* of its start tags.  A step is one database call or one access to the    *)
(* fields of the handler.                                                  *)
(***************************************************************************)
EXTENDS Integers, Sequences, FiniteSets

CONSTANTS
    Threads,      \* shell sessions
    Documents,    \* what the urls contain
    PlainCodes,   \* codes of the categories created by the command create
    MaxRequests,  \* bound on imports and creations together
    MaxDeletes    \* bound on deletions

Kinds    == {"segment", "family", "class"}
TagCodes == UNION {{d[i].code : i \in DOMAIN d} : d \in Documents}
Codes    == TagCodes \cup PlainCodes
Elements == [kind : Kinds, code : Codes]

\* The kind of the element an element is inside of.
Up == [family |-> "segment", class |-> "family"]

\* Families are inside of a segment, classes inside of a family.
WellFormed(d) ==
    /\ Len(d) > 0 /\ d[1].kind = "segment"
    /\ \A i \in 2 .. Len(d) : d[i].kind = "class" => d[i-1].kind \in {"family", "class"}

ASSUME DocumentsAssumption == \A d \in Documents : d \in Seq(Elements) /\ WellFormed(d)
ASSUME ThreadsAssumption == IsFiniteSet(Threads)
ASSUME BoundAssumption == MaxRequests \in Nat /\ MaxDeletes \in Nat

VARIABLES
    drawn,      \* uuids are drawn in sequence: 1 .. drawn are registered
    cats,       \* the categories collection
    field,      \* segmentUUID, familyUUID, classUUID of the handler; 0 is null
    pc, job,    \* per thread: where it stands; what is left of the document and
                \* the Category in hand
    \* history
    requests, saved,
    deleted,    \* uuids of categories deleted
    aborted,    \* uuids in hand when an exception ended an import
    made,       \* per thread: the segment and family its import created last
    overlapped  \* two requests were under way at the same time

vars == <<drawn, cats, field, pc, job, requests, saved, deleted, aborted, made, overlapped>>

None  == 0
NoJob == [todo |-> <<>>, uuid |-> None, parent |-> None, id |-> 0]
NoneMade == [segment |-> None, family |-> None]

Init ==
    /\ drawn = 0 /\ cats = {} /\ field = [k \in Kinds |-> None]
    /\ pc = [t \in Threads |-> "idle"] /\ job = [t \in Threads |-> NoJob]
    /\ requests = 0 /\ saved = 0 /\ deleted = {} /\ aborted = {}
    /\ made = [t \in Threads |-> NoneMade] /\ overlapped = FALSE

Current(t) == Head(job[t].todo)

Goto(t, label) == pc' = [pc EXCEPT ![t] = label]

End(t) ==
    /\ Goto(t, "idle")
    /\ job' = [job EXCEPT ![t] = NoJob]
    /\ made' = [made EXCEPT ![t] = NoneMade]

Begin(t, label, elements) ==
    /\ pc[t] = "idle" /\ requests < MaxRequests
    /\ requests' = requests + 1
    /\ overlapped' = (overlapped \/ \E s \in Threads : pc[s] # "idle")
    /\ Goto(t, label)
    /\ job' = [job EXCEPT ![t] = [NoJob EXCEPT !.todo = elements]]
    /\ UNCHANGED <<drawn, cats, field, saved, deleted, aborted, made>>

-----------------------------------------------------------------------------
\* addCategoriesByUrl: the fields keep what the last import left in them.
Import(t, d) == Begin(t, "element", d)

\* Shell create: a category without uuid and parent.
Create(t, c) == Begin(t, "query", <<[kind |-> "plain", code |-> c]>>)

\* Go on to the next start tag; what the import made for this one is noted.
NextElement(t, uuid) ==
    LET k == Current(t).kind
        rest == Tail(job[t].todo)
    IN IF rest = <<>> THEN End(t)
       ELSE /\ Goto(t, "element")
            /\ job' = [job EXCEPT ![t] = [NoJob EXCEPT !.todo = rest]]
            /\ made' = IF k = "segment" THEN [made EXCEPT ![t] = [NoneMade EXCEPT !.segment = uuid]]
                       ELSE IF k = "family" THEN [made EXCEPT ![t].family = uuid]
                       ELSE made

Belongs(t) == Current(t).kind \in DOMAIN Up => field[Up[Current(t).kind]] # None

\* startElement: nowhere to go under.
Skip(t) ==
    /\ pc[t] = "element" /\ ~Belongs(t)
    /\ NextElement(t, None)
    /\ UNCHANGED <<drawn, cats, field, requests, saved, deleted, aborted, overlapped>>

Enter(t) ==
    /\ pc[t] = "element" /\ Belongs(t)
    /\ Goto(t, "draw")
    /\ UNCHANGED <<drawn, cats, field, job, requests, saved, deleted, aborted, made, overlapped>>

\* createUUID, into the field.
Draw(t) ==
    /\ pc[t] = "draw"
    /\ drawn' = drawn + 1
    /\ field' = [field EXCEPT ![Current(t).kind] = drawn']
    /\ Goto(t, "uuid")
    /\ UNCHANGED <<cats, job, requests, saved, deleted, aborted, made, overlapped>>

\* setUuid reads the field, which another import may have changed.
SetUuid(t) ==
    /\ pc[t] = "uuid"
    /\ job' = [job EXCEPT ![t].uuid = field[Current(t).kind]]
    /\ Goto(t, "parent")
    /\ UNCHANGED <<drawn, cats, field, requests, saved, deleted, aborted, made, overlapped>>

\* Mutant: a class is put under the segment.
SetParentUuidSegment(t) ==
    /\ pc[t] = "parent"
    /\ job' = [job EXCEPT ![t].parent =
                  IF Current(t).kind = "segment" THEN None ELSE field["segment"]]
    /\ Goto(t, "query")
    /\ UNCHANGED <<drawn, cats, field, requests, saved, deleted, aborted, made, overlapped>>

\* setParentUuid reads the other field a second time.
SetParentUuid(t) ==
    /\ pc[t] = "parent"
    /\ job' = [job EXCEPT ![t].parent =
                  IF Current(t).kind = "segment" THEN None ELSE field[Up[Current(t).kind]]]
    /\ Goto(t, "query")
    /\ UNCHANGED <<drawn, cats, field, requests, saved, deleted, aborted, made, overlapped>>

-----------------------------------------------------------------------------
\* getCategory asks by the uuid, unless there is none, and by the code.  (One
\* step: only a second import with this uuid in hand could tell two apart.)
SameUuid(t) == {c \in cats : c.uuid = job[t].uuid /\ c.uuid # None}
SameCode(t) == {c \in cats : c.code = Current(t).code}

\* Mutant: a category that is found is not counted.
NewIfOthers(t) ==
    /\ pc[t] = "query" /\ SameUuid(t) = {} /\ \A c \in SameCode(t) : c.kind # Current(t).kind
    /\ Goto(t, "save")
    /\ UNCHANGED <<drawn, cats, field, job, requests, saved, deleted, aborted, made, overlapped>>

New(t) ==
    /\ pc[t] = "query" /\ SameUuid(t) = {} /\ SameCode(t) = {}
    /\ Goto(t, "save")
    /\ UNCHANGED <<drawn, cats, field, job, requests, saved, deleted, aborted, made, overlapped>>

\* Mutant: the exception resets nothing and is taken for a creation.
ThrowSwallowed(t) ==
    /\ pc[t] = "query" /\ \E c \in SameCode(t) : c.uuid = None
    /\ NextElement(t, job[t].uuid)
    /\ UNCHANGED <<drawn, cats, field, requests, saved, deleted, aborted, overlapped>>

\* The category found has no uuid: comparing it for the TreeMap of matches is an
\* exception nobody catches, the end of the import.
Throw(t) ==
    /\ pc[t] = "query" /\ \E c \in SameCode(t) : c.uuid = None
    /\ aborted' = aborted \cup {job[t].uuid}
    /\ End(t)
    /\ UNCHANGED <<drawn, cats, field, requests, saved, deleted, overlapped>>

\* Which field startElement clears when a creation was refused: a class clears
\* the family's.
Cleared == [segment |-> "segment", family |-> "family", class |-> "family"]

\* Mutant: the field is not cleared.
NotCreatedKeeps(t) == field' = field /\ NextElement(t, None)

NotCreated(t) ==
    /\ field' = IF Current(t).kind = "plain" THEN field
                ELSE [field EXCEPT ![Cleared[Current(t).kind]] = None]
    /\ NextElement(t, None)

Refuse(t) ==
    /\ pc[t] = "query"
    /\ IF SameCode(t) = {} THEN SameUuid(t) # {} ELSE \E c \in SameCode(t) : c.uuid # None
    /\ NotCreated(t)
    /\ UNCHANGED <<drawn, cats, requests, saved, deleted, aborted, overlapped>>

Meant(t) == IF Current(t).kind \in DOMAIN Up THEN made[t][Up[Current(t).kind]] ELSE None

\* The document; of history: under what it belongs in its import.
Save(t) ==
    /\ pc[t] = "save"
    /\ saved' = saved + 1
    /\ cats' = cats \cup
          {[id |-> saved', uuid |-> job[t].uuid, code |-> Current(t).code, kind |-> Current(t).kind,
            parent |-> job[t].parent, meant |-> Meant(t), root |-> made[t].segment]}
    /\ job' = [job EXCEPT ![t].id = saved']
    /\ Goto(t, "confirm")
    /\ UNCHANGED <<drawn, field, requests, deleted, aborted, made, overlapped>>

\* findOneById of what was saved
Confirm(t) ==
    /\ pc[t] = "confirm"
    /\ IF \E c \in cats : c.id = job[t].id
       THEN field' = field /\ NextElement(t, job[t].uuid)
       ELSE NotCreated(t)
    /\ UNCHANGED <<drawn, cats, requests, saved, deleted, aborted, overlapped>>

\* Shell delete: the collection, not the registry.  (The event it posts names
\* the category as "uuidCategory"; its one handler asks for "uuid" and does
\* nothing.)
Delete(u) ==
    /\ Cardinality(deleted) < MaxDeletes
    /\ \E c \in cats : c.uuid = u
    /\ cats' = {c \in cats : c.uuid # u}
    /\ deleted' = deleted \cup {u}
    /\ UNCHANGED <<drawn, field, pc, job, requests, saved, aborted, made, overlapped>>

-----------------------------------------------------------------------------
Request(t) ==
    \/ \E d \in Documents : Import(t, d)
    \/ \E c \in PlainCodes : Create(t, c)

Work(t) ==
    \/ Skip(t)
    \/ Enter(t)
    \/ Draw(t)
    \/ SetUuid(t)
    \/ SetParentUuid(t)
    \/ New(t)
    \/ Throw(t)
    \/ Refuse(t)
    \/ Save(t)
    \/ Confirm(t)

Quiet == (\A t \in Threads : pc[t] = "idle") /\ UNCHANGED vars

Next == (\E t \in Threads : Request(t) \/ Work(t)) \/ (\E u \in 1 .. drawn : Delete(u)) \/ Quiet

Spec == Init /\ [][Next]_vars

-----------------------------------------------------------------------------
(***************************************************************************)
(* Properties                                                              *)
(***************************************************************************)

\* The value of every variable has its type.
TypeOK ==
    /\ drawn \in Nat /\ requests \in 0 .. MaxRequests /\ saved \in Nat
    /\ cats \subseteq [id : 1 .. saved, uuid : 0 .. drawn, code : Codes,
                       kind : Kinds \cup {"plain"}, parent : 0 .. drawn,
                       meant : 0 .. drawn, root : 0 .. drawn]
    /\ field \in [Kinds -> 0 .. drawn]
    /\ pc \in [Threads -> {"idle", "element", "draw", "uuid", "parent", "query", "save", "confirm"}]
    /\ \A t \in Threads : job[t].uuid \in 0 .. drawn /\ job[t].parent \in 0 .. drawn
    /\ deleted \subseteq 1 .. drawn /\ aborted \subseteq 0 .. drawn
    /\ made \in [Threads -> [segment : 0 .. drawn, family : 0 .. drawn]]
    /\ overlapped \in BOOLEAN

\* Imports one after the other put every family under its segment and every
\* class under its family, but for classes whose SEGMENT was refused: their
\* family is skipped, and the field still names the last family of before.
RightParents == ~overlapped =>
    \A c \in cats : c.kind \in DOMAIN Up =>
        \/ c.parent = c.meant /\ c.meant # None
        \/ c.kind = "class" /\ c.root = None /\ c.meant = None

\* A parent is a category that is stored or was deleted, even when the field it
\* came from was left behind by another import, unless that import died of an
\* exception with the parent in hand.
ParentsStored == ~overlapped =>
    \A c \in cats : c.parent # None =>
        c.parent \in {d.uuid : d \in cats} \cup deleted \cup aborted

\* However requests overlap, as many categories have the same code as there are
\* sessions, those about to be saved included: one session keeps codes unique.
CopiesBounded ==
    \A code \in Codes :
        Cardinality({c \in cats : c.code = code})
        + Cardinality({t \in Threads : pc[t] = "save" /\ Current(t).code = code})
            <= Cardinality(Threads)

\* However imports mix up their parents, a parent that is stored is of the kind
\* above.
ParentsOneKindUp ==
    \A c, d \in cats : c.parent # None /\ d.uuid = c.parent => d.kind = Up[c.kind]
=============================================================================

--------------------------- MODULE CategoryProofs ---------------------------
(***************************************************************************)
(* Theorems about CategoryImport, for any number of sessions, any          *)
(* documents and any number of requests.                                   *)
(***************************************************************************)
EXTENDS CategoryImport, SequenceTheorems, FiniteSetTheorems, TLAPS

-----------------------------------------------------------------------------
(***************************************************************************)
(* The inductive invariant.                                                *)
(***************************************************************************)

\* What a thread can have to do: start tags, or the one category of a create.
Plain   == [kind : {"plain"}, code : PlainCodes]
ToDo    == Seq(Elements \cup Plain)

JobsTyped ==
    /\ job \in [Threads -> [todo : ToDo, uuid : 0 .. drawn, parent : 0 .. drawn, id : 0 .. saved]]
    /\ made \in [Threads -> [segment : 0 .. drawn, family : 0 .. drawn]]

\* What is left of a well-formed document is one, but that it may begin anywhere.
Shape(t) ==
    pc[t] # "idle" =>
        /\ job[t].todo # <<>>
        /\ \A i \in 2 .. Len(job[t].todo) :
              job[t].todo[i].kind = "class" => job[t].todo[i-1].kind \in {"family", "class"}
        /\ \/ job[t].todo \in Seq(Elements)
           \/ /\ Len(job[t].todo) = 1 /\ Current(t).kind = "plain"
              /\ pc[t] \in {"query", "save", "confirm"}
              /\ job[t].uuid = None /\ job[t].parent = None

\* Every uuid was drawn for one kind; h says for which.
Fits(h) ==
    /\ \A k \in Kinds : field[k] # None => h[field[k]] = k
    /\ \A t \in Threads : pc[t] # "idle" =>
          /\ job[t].uuid # None => h[job[t].uuid] = Current(t).kind
          /\ job[t].parent # None => Current(t).kind \in DOMAIN Up
                                     /\ h[job[t].parent] = Up[Current(t).kind]
    /\ \A c \in cats :
          /\ c.uuid # None => h[c.uuid] = c.kind
          /\ c.parent # None => c.kind \in DOMAIN Up /\ h[c.parent] = Up[c.kind]

KindsKept == \E h \in [Nat -> Kinds] : Fits(h)

OneAtATime == ~overlapped =>
    \A s, t \in Threads : pc[s] # "idle" /\ pc[t] # "idle" => s = t

\* A parent that is stored or was deleted, or the import that had it died.
Good(u) == u = None \/ (\E c \in cats : c.uuid = u) \/ u \in deleted \cup aborted

\* The fields other elements go under are good, or just drawn by a creation.
FieldsGood == ~overlapped =>
    \A k \in {"segment", "family"} :
        \/ Good(field[k])
        \/ \E t \in Threads : pc[t] \in {"uuid", "parent", "query", "save"} /\ Current(t).kind = k

\* What an import has in hand is what the fields say.
InHand(t) == ~overlapped =>
    /\ pc[t] \in {"parent", "query", "save", "confirm"} /\ Current(t).kind # "plain" =>
          job[t].uuid = field[Current(t).kind]
    /\ pc[t] = "confirm" => Good(job[t].uuid)
    /\ pc[t] \in {"query", "save"} /\ Current(t).kind \in {"family", "class"} =>
          job[t].parent = field[Up[Current(t).kind]]
    /\ pc[t] \in {"draw", "uuid", "parent", "query", "save", "confirm"}
       /\ Current(t).kind \in {"family", "class"} => field[Up[Current(t).kind]] # None
    /\ pc[t] \in {"query", "save"} /\ Current(t).kind \notin {"family", "class"} =>
          job[t].parent = None

\* The fields say what the import has made, but for the family of a segment that
\* was refused and for a family closed by a class that was refused.
Lined(t) == ~overlapped =>
    /\ made[t].segment = None => made[t].family = None
    /\ pc[t] # "idle" /\ Current(t).kind \in {"family", "class"} =>
          field["segment"] = made[t].segment
    /\ pc[t] # "idle" /\ Current(t).kind = "class" /\ made[t].segment # None =>
          field["family"] \in {None, made[t].family}

IInv ==
    /\ TypeOK /\ JobsTyped
    /\ \A t \in Threads : Shape(t) /\ InHand(t) /\ Lined(t)
    /\ KindsKept /\ OneAtATime /\ FieldsGood /\ ParentsStored /\ RightParents

-----------------------------------------------------------------------------
LEMMA UpFacts ==
    /\ DOMAIN Up = {"family", "class"}
    /\ Up["family"] = "segment" /\ Up["class"] = "family"
    /\ DOMAIN Cleared = Kinds /\ \A k \in Kinds : Cleared[k] \in {"segment", "family"}
    /\ Cleared["segment"] = "segment" /\ Cleared["family"] = "family" /\ Cleared["class"] = "family"
  BY DEF Up, Cleared, Kinds

\* The element in hand is the first of what is left, and what follows is shifted.
LEMMA Rest ==
    ASSUME NEW S, NEW s \in Seq(S), s # <<>>
    PROVE  /\ Head(s) = s[1] /\ Head(s) \in S /\ Tail(s) \in Seq(S)
           /\ Len(s) \in Nat \ {0} /\ Len(Tail(s)) = Len(s) - 1
           /\ \A i \in 1 .. Len(s) - 1 : Tail(s)[i] = s[i + 1]
           /\ Len(s) = 1 => Tail(s) = <<>>
           /\ Tail(s) # <<>> => Len(s) > 1
<1>1. Len(s) \in Nat \ {0} /\ Len(Tail(s)) = Len(s) - 1 /\ Tail(s) \in Seq(S) /\ Head(s) \in S
      /\ \A i \in 1 .. Len(s) - 1 : Tail(s)[i] = s[i + 1]
  BY HeadTailProperties, EmptySeq
<1>2. Head(s) = s[1]
  OBVIOUS
<1>5. \A q \in Seq(S) : q # <<>> => Len(q) \in Nat \ {0}
  BY EmptySeq
<1>3. Len(s) = 1 => Tail(s) = <<>>
  <2> DEFINE q == Tail(s)
             n == Len(s)
  <2>1. q \in Seq(S) /\ Len(q) = n - 1 /\ n \in Nat
    BY <1>1
  <2> HIDE DEF q, n
  <2>2. n = 1 => q = <<>>
    BY <1>5, <2>1
  <2> QED BY <2>2 DEF q, n
<1>4. Tail(s) # <<>> => Len(s) > 1
  BY <1>1, <1>5
<1> QED BY <1>1, <1>2, <1>3, <1>4

LEMMA CurrentIs ==
    ASSUME IInv, NEW t \in Threads, pc[t] # "idle"
    PROVE  /\ Current(t) \in Elements \cup Plain
           /\ Current(t).kind \in Kinds \cup {"plain"} /\ Current(t).code \in Codes
           /\ pc[t] \notin {"query", "save", "confirm"} => Current(t).kind \in Kinds
           /\ Current(t).kind = "plain" => job[t].uuid = None /\ job[t].parent = None
<1>1. job[t].todo \in ToDo /\ job[t].todo # <<>>
  BY DEF IInv, JobsTyped, Shape
<1>2. Current(t) \in Elements \cup Plain
  BY <1>1, Rest DEF Current, ToDo
<1>3. PlainCodes \subseteq Codes
  BY DEF Codes
<1>4. Current(t).kind \in Kinds \cup {"plain"} /\ Current(t).code \in Codes
  BY <1>2, <1>3 DEF Elements, Plain
<1>5. CASE job[t].todo \in Seq(Elements)
  <2>1. Current(t) \in Elements
    BY <1>1, <1>5, Rest DEF Current
  <2> QED BY <1>2, <1>4, <2>1 DEF Elements, Kinds
<1>6. CASE job[t].todo \notin Seq(Elements)
  BY <1>2, <1>4, <1>6 DEF IInv, Shape
<1> QED BY <1>5, <1>6

\* NextElement: the import ends or goes on with the next start tag.
LEMMA Goes ==
    ASSUME IInv, NEW t \in Threads, pc[t] # "idle", NEW uuid \in 0 .. drawn, NextElement(t, uuid)
    PROVE  /\ pc' \in [Threads -> {"idle", "element", "draw", "uuid", "parent", "query", "save", "confirm"}]
           /\ job' \in [Threads -> [todo : ToDo, uuid : 0 .. drawn, parent : 0 .. drawn, id : 0 .. saved]]
           /\ made' \in [Threads -> [segment : 0 .. drawn, family : 0 .. drawn]]
           /\ \A s \in Threads : s # t =>
                 pc'[s] = pc[s] /\ job'[s] = job[s] /\ made'[s] = made[s]
           /\ pc'[t] \in {"idle", "element"} /\ job'[t].uuid = None /\ job'[t].parent = None
           /\ pc'[t] = "idle" => made'[t] = NoneMade
           /\ Shape(t)'
           /\ pc'[t] = "element" =>
                 /\ Current(t)'.kind = "class" => Current(t).kind \in {"family", "class"}
                 /\ Current(t).kind \in Kinds
                 /\ made'[t] = IF Current(t).kind = "segment"
                               THEN [segment |-> uuid, family |-> None]
                               ELSE IF Current(t).kind = "family"
                               THEN [segment |-> made[t].segment, family |-> uuid]
                               ELSE made[t]
<1> USE DEF None
<1> DEFINE todo == job[t].todo
           rest == Tail(todo)
<1>1. todo \in ToDo /\ todo # <<>>
  BY DEF IInv, JobsTyped, Shape
<1>2. rest \in ToDo /\ Len(rest) = Len(todo) - 1 /\ Head(todo) = todo[1] /\ Len(todo) \in Nat \ {0}
      /\ \A i \in 1 .. Len(todo) - 1 : rest[i] = todo[i + 1]
  BY <1>1, Rest DEF ToDo
<1>3. <<>> \in ToDo
  BY DEF ToDo
<1>4. CASE rest = <<>>
  <2>1. End(t)
    BY <1>4 DEF NextElement
  <2>2. pc' = [pc EXCEPT ![t] = "idle"] /\ job' = [job EXCEPT ![t] = NoJob]
        /\ made' = [made EXCEPT ![t] = NoneMade]
    BY <2>1 DEF End, Goto
  <2>3. NoJob \in [todo : ToDo, uuid : 0 .. drawn, parent : 0 .. drawn, id : 0 .. saved]
        /\ NoJob.uuid = None /\ NoJob.parent = None
        /\ NoneMade \in [segment : 0 .. drawn, family : 0 .. drawn]
    BY <1>3 DEF NoJob, NoneMade, IInv, TypeOK
  <2> HIDE DEF rest, todo
  <2>4. pc'[t] = "idle" /\ job'[t] = NoJob /\ made'[t] = NoneMade
    BY <2>2 DEF IInv, TypeOK, JobsTyped
  <2>5. pc' \in [Threads -> {"idle", "element", "draw", "uuid", "parent", "query", "save", "confirm"}]
    BY <2>2 DEF IInv, TypeOK
  <2>6. /\ job' \in [Threads -> [todo : ToDo, uuid : 0 .. drawn, parent : 0 .. drawn, id : 0 .. saved]]
        /\ made' \in [Threads -> [segment : 0 .. drawn, family : 0 .. drawn]]
    BY <2>2, <2>3 DEF IInv, JobsTyped
  <2>7. \A s \in Threads : s # t =>
           pc'[s] = pc[s] /\ job'[s] = job[s] /\ made'[s] = made[s]
    BY <2>2 DEF IInv, TypeOK, JobsTyped
  <2> QED BY <2>3, <2>4, <2>5, <2>6, <2>7 DEF Shape
<1>5. CASE rest # <<>>
  <2>1. /\ pc' = [pc EXCEPT ![t] = "element"]
        /\ job' = [job EXCEPT ![t] = [NoJob EXCEPT !.todo = rest]]
        /\ made' = IF Current(t).kind = "segment" THEN [made EXCEPT ![t] = [NoneMade EXCEPT !.segment = uuid]]
                   ELSE IF Current(t).kind = "family" THEN [made EXCEPT ![t].family = uuid]
                   ELSE made
    BY <1>5, Zenon DEF NextElement, Goto
  <2>2. [NoJob EXCEPT !.todo = rest] = [todo |-> rest, uuid |-> 0, parent |-> 0, id |-> 0]
    <3> HIDE DEF rest
    <3> QED BY DEF NoJob
  <2>3. /\ pc' \in [Threads -> {"idle", "element", "draw", "uuid", "parent", "query", "save", "confirm"}]
        /\ pc'[t] = "element"
    BY <2>1 DEF IInv, TypeOK
  <2>4. /\ job' \in [Threads -> [todo : ToDo, uuid : 0 .. drawn, parent : 0 .. drawn, id : 0 .. saved]]
        /\ job'[t] = [todo |-> rest, uuid |-> 0, parent |-> 0, id |-> 0]
    <3> HIDE DEF rest, todo
    <3> QED BY <1>2, <2>1, <2>2 DEF IInv, TypeOK, JobsTyped
  <2>5. /\ made' \in [Threads -> [segment : 0 .. drawn, family : 0 .. drawn]]
        /\ made'[t] = IF Current(t).kind = "segment"
                      THEN [segment |-> uuid, family |-> None]
                      ELSE IF Current(t).kind = "family"
                      THEN [segment |-> made[t].segment, family |-> uuid]
                      ELSE made[t]
    <3>1. [NoneMade EXCEPT !.segment = uuid] = [segment |-> uuid, family |-> None]
          /\ made \in [Threads -> [segment : 0 .. drawn, family : 0 .. drawn]]
      BY DEF IInv, JobsTyped, NoneMade
    <3>2. CASE Current(t).kind = "segment"
      BY <2>1, <3>1, <3>2 DEF IInv, TypeOK
    <3>3. CASE Current(t).kind = "family"
      BY <2>1, <3>1, <3>3 DEF IInv, TypeOK
    <3>4. CASE Current(t).kind \notin {"segment", "family"}
      BY <2>1, <3>1, <3>4
    <3> QED BY <3>2, <3>3, <3>4
  <2>6. \A s \in Threads : s # t =>
           pc'[s] = pc[s] /\ job'[s] = job[s] /\ made'[s] = made[s]
    BY <2>1 DEF IInv, TypeOK, JobsTyped
  <2>7. todo \in Seq(Elements)
    BY <1>1, <1>5, Rest DEF IInv, Shape, ToDo
  <2>8. rest \in Seq(Elements) /\ Head(rest) = rest[1] /\ Len(rest) \in Nat \ {0}
    BY <1>1, <1>5, <2>7, Rest DEF ToDo
  <2>9. \A i \in 2 .. Len(todo) : todo[i].kind = "class" => todo[i-1].kind \in {"family", "class"}
    BY DEF IInv, Shape
  <2>10. Shape(t)'
    <3> HIDE DEF rest, todo
    <3>1. \A i \in 2 .. Len(rest) : rest[i].kind = "class" => rest[i-1].kind \in {"family", "class"}
      <4>1. SUFFICES ASSUME NEW i \in 2 .. Len(rest), rest[i].kind = "class"
                     PROVE  rest[i-1].kind \in {"family", "class"}
        OBVIOUS
      <4>2. i \in 1 .. Len(todo) - 1 /\ i - 1 \in 1 .. Len(todo) - 1
        BY <1>2
      <4>3. rest[i] = todo[i + 1] /\ rest[i - 1] = todo[(i - 1) + 1]
        BY <1>2, <4>2
      <4>4. i + 1 \in 2 .. Len(todo) /\ (i - 1) + 1 = (i + 1) - 1
        BY <1>2, <4>2
      <4> QED BY <2>9, <4>1, <4>3, <4>4
    <3> QED BY <1>5, <2>4, <2>8, <3>1 DEF Shape
  <2>11. Current(t)'.kind = "class" => Current(t).kind \in {"family", "class"}
    <3>1. Current(t)' = rest[1] /\ Current(t) = todo[1]
      <4>1. job'[t].todo = rest
        BY <2>4
      <4> QED BY <1>2, <2>8, <4>1 DEF Current
    <3>2. Len(todo) >= 2 /\ rest[1] = todo[2]
      <4> HIDE DEF rest, todo
      <4> QED BY <1>2, <2>8
    <3>3. todo[2].kind = "class" => todo[1].kind \in {"family", "class"}
      <4> HIDE DEF rest, todo
      <4>1. Len(todo) \in Nat /\ 2 \in 2 .. Len(todo) /\ 2 - 1 = 1
        BY <1>2, <3>2
      <4> QED BY <2>9, <4>1
    <3> QED BY <3>1, <3>2, <3>3
  <2>12. Current(t).kind \in Kinds
    <3>1. Current(t) \in Elements
      BY <1>1, <2>7, Rest DEF Current
    <3> HIDE DEF rest, todo
    <3> QED BY <3>1 DEF Elements
  <2> QED BY <2>3, <2>4, <2>5, <2>6, <2>10, <2>11, <2>12
<1> QED BY <1>4, <1>5

LEMMA ImportKeeps ==
    ASSUME IInv, NEW t \in Threads, NEW d \in Documents, Import(t, d)
    PROVE  IInv'
<1> USE BoundAssumption DEF None
<1>a. d \in Seq(Elements) /\ WellFormed(d) /\ d \in ToDo /\ d # <<>>
  <2>1. d \in Seq(Elements) /\ WellFormed(d)
    BY DocumentsAssumption
  <2>2. d \in ToDo
    BY <2>1, SeqMonotonic DEF ToDo
  <2> QED BY <2>1, <2>2 DEF WellFormed
<1>b. /\ pc[t] = "idle" /\ pc' = [pc EXCEPT ![t] = "element"]
      /\ job' = [job EXCEPT ![t] = [NoJob EXCEPT !.todo = d]]
      /\ overlapped' = (overlapped \/ \E s \in Threads : pc[s] # "idle")
      /\ requests < MaxRequests /\ requests' = requests + 1
      /\ UNCHANGED <<drawn, cats, field, saved, deleted, aborted, made>>
  BY DEF Import, Begin, Goto
<1>c. \A s \in Threads : s # t => pc'[s] = pc[s] /\ job'[s] = job[s] /\ Current(s)' = Current(s)
  BY <1>b DEF IInv, TypeOK, JobsTyped, Current
<1>f. [NoJob EXCEPT !.todo = d] = [todo |-> d, uuid |-> 0, parent |-> 0, id |-> 0]
  BY DEF NoJob
<1>d. /\ pc'[t] = "element" /\ job'[t] = [todo |-> d, uuid |-> 0, parent |-> 0, id |-> 0]
      /\ Current(t)' = Head(d)
  <2>2. pc'[t] = "element" /\ job'[t] = [todo |-> d, uuid |-> 0, parent |-> 0, id |-> 0]
    BY <1>b, <1>f DEF IInv, TypeOK, JobsTyped
  <2> QED BY <2>2 DEF Current
<1>e. Head(d).kind = "segment"
  BY <1>a, Rest DEF WellFormed
<1>1. TypeOK'
  <2>1. pc' \in [Threads -> {"idle", "element", "draw", "uuid", "parent", "query", "save", "confirm"}]
    BY <1>b DEF IInv, TypeOK
  <2>2. \A s \in Threads : job'[s].uuid \in 0 .. drawn' /\ job'[s].parent \in 0 .. drawn'
    BY <1>b, <1>c, <1>d DEF IInv, TypeOK
  <2>3. requests' \in 0 .. MaxRequests /\ overlapped' \in BOOLEAN
    BY <1>b DEF IInv, TypeOK
  <2> QED BY <1>b, <2>1, <2>2, <2>3 DEF IInv, TypeOK
<1>2. JobsTyped'
  <2>1. [todo |-> d, uuid |-> 0, parent |-> 0, id |-> 0]
           \in [todo : ToDo, uuid : 0 .. drawn, parent : 0 .. drawn, id : 0 .. saved]
    BY <1>a DEF IInv, TypeOK
  <2> QED BY <1>b, <1>f, <2>1 DEF IInv, JobsTyped
<1>3. ASSUME NEW s \in Threads
      PROVE  Shape(s)'
  <2>1. CASE s = t
    <3>1. job'[s].todo = d /\ d \in Seq(Elements) /\ d # <<>>
      BY <1>a, <1>d, <2>1
    <3>2. \A i \in 2 .. Len(d) : d[i].kind = "class" => d[i-1].kind \in {"family", "class"}
      BY <1>a DEF WellFormed
    <3> QED BY <3>1, <3>2 DEF Shape
  <2>2. CASE s # t
    BY <1>c, <2>2 DEF IInv, Shape
  <2> QED BY <2>1, <2>2
<1>4. KindsKept'
  <2>1. PICK h \in [Nat -> Kinds] : Fits(h)
    BY DEF IInv, KindsKept
  <2>2. Fits(h)'
    BY <1>b, <1>c, <1>d, <1>e, <2>1 DEF Fits
  <2> QED BY <2>1, <2>2 DEF KindsKept
<1>5. OneAtATime'
  BY <1>b, <1>c DEF OneAtATime
<1>6. FieldsGood'
  BY <1>b DEF IInv, FieldsGood, Good
<1>7. ASSUME NEW s \in Threads
      PROVE  InHand(s)'
  <2>1. CASE s = t
    BY <1>b, <1>d, <1>e, <2>1 DEF InHand
  <2>2. CASE s # t
    BY <1>b, <1>c, <2>2 DEF IInv, InHand, Good
  <2> QED BY <2>1, <2>2
<1>8. ASSUME NEW s \in Threads
      PROVE  Lined(s)'
  <2>1. CASE s = t
    BY <1>b, <1>d, <1>e, <2>1 DEF IInv, Lined
  <2>2. CASE s # t
    BY <1>b, <1>c, <2>2 DEF IInv, Lined
  <2> QED BY <2>1, <2>2
<1>9. ParentsStored'
  BY <1>a, <1>b, <1>c, <1>d, <1>e, UpFacts DEF IInv, ParentsStored
<1>10. RightParents'
  BY <1>a, <1>b, <1>c, <1>d, <1>e, UpFacts DEF IInv, RightParents
<1> QED BY <1>1, <1>2, <1>3, <1>4, <1>5, <1>6, <1>7, <1>8, <1>9, <1>10 DEF IInv

LEMMA CreateKeeps ==
    ASSUME IInv, NEW t \in Threads, NEW code \in PlainCodes, Create(t, code)
    PROVE  IInv'
<1> USE BoundAssumption DEF None
<1> DEFINE d == <<[kind |-> "plain", code |-> code]>>
<1>a. d \in ToDo /\ d # <<>> /\ Len(d) = 1 /\ Head(d).kind = "plain"
  <2>1. [kind |-> "plain", code |-> code] \in Elements \cup Plain
    BY DEF Plain
  <2> QED BY <2>1 DEF ToDo
<1>b. /\ pc[t] = "idle" /\ pc' = [pc EXCEPT ![t] = "query"]
      /\ job' = [job EXCEPT ![t] = [NoJob EXCEPT !.todo = d]]
      /\ overlapped' = (overlapped \/ \E s \in Threads : pc[s] # "idle")
      /\ requests < MaxRequests /\ requests' = requests + 1
      /\ UNCHANGED <<drawn, cats, field, saved, deleted, aborted, made>>
  BY DEF Create, Begin, Goto
<1> HIDE DEF d
<1>c. \A s \in Threads : s # t => pc'[s] = pc[s] /\ job'[s] = job[s] /\ Current(s)' = Current(s)
  BY <1>b DEF IInv, TypeOK, JobsTyped, Current
<1>f. [NoJob EXCEPT !.todo = d] = [todo |-> d, uuid |-> 0, parent |-> 0, id |-> 0]
  BY DEF NoJob
<1>d. /\ pc'[t] = "query" /\ job'[t] = [todo |-> d, uuid |-> 0, parent |-> 0, id |-> 0]
      /\ Current(t)' = Head(d)
  <2>2. pc'[t] = "query" /\ job'[t] = [todo |-> d, uuid |-> 0, parent |-> 0, id |-> 0]
    BY <1>b, <1>f DEF IInv, TypeOK, JobsTyped
  <2> QED BY <2>2 DEF Current
<1>e. Head(d).kind = "plain"
  BY <1>a
<1>1. TypeOK'
  <2>1. pc' \in [Threads -> {"idle", "element", "draw", "uuid", "parent", "query", "save", "confirm"}]
    BY <1>b DEF IInv, TypeOK
  <2>2. \A s \in Threads : job'[s].uuid \in 0 .. drawn' /\ job'[s].parent \in 0 .. drawn'
    BY <1>b, <1>c, <1>d DEF IInv, TypeOK
  <2>3. requests' \in 0 .. MaxRequests /\ overlapped' \in BOOLEAN
    BY <1>b DEF IInv, TypeOK
  <2> QED BY <1>b, <2>1, <2>2, <2>3 DEF IInv, TypeOK
<1>2. JobsTyped'
  <2>1. [todo |-> d, uuid |-> 0, parent |-> 0, id |-> 0]
           \in [todo : ToDo, uuid : 0 .. drawn, parent : 0 .. drawn, id : 0 .. saved]
    BY <1>a DEF IInv, TypeOK
  <2> QED BY <1>b, <1>f, <2>1 DEF IInv, JobsTyped
<1>3. ASSUME NEW s \in Threads
      PROVE  Shape(s)'
  <2>1. CASE s = t
    <3>1. /\ pc'[s] = "query" /\ job'[s].todo = d /\ job'[s].uuid = None /\ job'[s].parent = None
          /\ Current(s)'.kind = "plain"
      BY <1>d, <1>e, <2>1
    <3>2. d # <<>> /\ Len(d) = 1
      BY <1>a
    <3>3. ~(\E i \in 2 .. Len(d) : TRUE)
      BY <3>2
    <3> QED BY <3>1, <3>2, <3>3 DEF Shape
  <2>2. CASE s # t
    BY <1>c, <2>2 DEF IInv, Shape
  <2> QED BY <2>1, <2>2
<1>4. KindsKept'
  <2>1. PICK h \in [Nat -> Kinds] : Fits(h)
    BY DEF IInv, KindsKept
  <2>2. Fits(h)'
    BY <1>b, <1>c, <1>d, <1>e, <2>1 DEF Fits
  <2> QED BY <2>1, <2>2 DEF KindsKept
<1>5. OneAtATime'
  BY <1>b, <1>c DEF OneAtATime
<1>6. FieldsGood'
  BY <1>b DEF IInv, FieldsGood, Good
<1>7. ASSUME NEW s \in Threads
      PROVE  InHand(s)'
  <2>1. CASE s = t
    BY <1>b, <1>d, <1>e, <2>1 DEF InHand
  <2>2. CASE s # t
    BY <1>b, <1>c, <2>2 DEF IInv, InHand, Good
  <2> QED BY <2>1, <2>2
<1>8. ASSUME NEW s \in Threads
      PROVE  Lined(s)'
  <2>1. CASE s = t
    BY <1>b, <1>d, <1>e, <2>1 DEF IInv, Lined
  <2>2. CASE s # t
    BY <1>b, <1>c, <2>2 DEF IInv, Lined
  <2> QED BY <2>1, <2>2
<1>9. ParentsStored'
  BY <1>a, <1>b, <1>c, <1>d, <1>e, UpFacts DEF IInv, ParentsStored
<1>10. RightParents'
  BY <1>a, <1>b, <1>c, <1>d, <1>e, UpFacts DEF IInv, RightParents
<1> QED BY <1>1, <1>2, <1>3, <1>4, <1>5, <1>6, <1>7, <1>8, <1>9, <1>10 DEF IInv

LEMMA SkipKeeps ==
    ASSUME IInv, NEW t \in Threads, Skip(t)
    PROVE  IInv'
<1> USE BoundAssumption DEF None
<1>a. pc[t] # "idle"
  BY DEF Skip
<1>b. /\ Current(t).kind \in Kinds \cup {"plain"} /\ Current(t).code \in Codes
      /\ pc[t] \notin {"query", "save", "confirm"} => Current(t).kind \in Kinds
      /\ Current(t).kind = "plain" => job[t].uuid = None /\ job[t].parent = None
  BY <1>a, CurrentIs
<1> DEFINE uuid == None
<1>d. uuid \in 0 .. drawn /\ NextElement(t, uuid)
  BY DEF IInv, TypeOK, Skip
<1>e. /\ pc' \in [Threads -> {"idle", "element", "draw", "uuid", "parent", "query", "save", "confirm"}]
      /\ job' \in [Threads -> [todo : ToDo, uuid : 0 .. drawn, parent : 0 .. drawn, id : 0 .. saved]]
      /\ made' \in [Threads -> [segment : 0 .. drawn, family : 0 .. drawn]]
      /\ \A s \in Threads : s # t =>
            pc'[s] = pc[s] /\ job'[s] = job[s] /\ made'[s] = made[s] /\ Current(s)' = Current(s)
      /\ pc'[t] \in {"idle", "element"} /\ job'[t].uuid = None /\ job'[t].parent = None
      /\ pc'[t] = "idle" => made'[t].segment = None /\ made'[t].family = None
      /\ Shape(t)'
      /\ pc'[t] = "element" =>
            /\ Current(t)'.kind = "class" => Current(t).kind \in {"family", "class"}
            /\ Current(t).kind \in Kinds
            /\ made'[t] = IF Current(t).kind = "segment"
                          THEN [segment |-> uuid, family |-> None]
                          ELSE IF Current(t).kind = "family"
                          THEN [segment |-> made[t].segment, family |-> uuid]
                          ELSE made[t]
  <2> HIDE DEF uuid
  <2> QED BY <1>a, <1>d, Goes DEF Current, NoneMade
<1>f. field' = field
  BY DEF Skip
<1>u. UNCHANGED <<drawn, cats, requests, saved, deleted, aborted, overlapped>>
  BY DEF Skip
<1>g. /\ uuid = None /\ field' \in [Kinds -> 0 .. drawn]
      /\ \A k \in Kinds : field'[k] \in {field[k], None}
      /\ pc[t] = "element" /\ Current(t).kind \in {"family", "class"}
      /\ field[Up[Current(t).kind]] = None
  BY <1>b, <1>f, UpFacts DEF IInv, TypeOK, Skip, Belongs
<1> HIDE DEF uuid
<1>1. TypeOK'
  BY <1>d, <1>e, <1>g, <1>u DEF IInv, TypeOK
<1>2. JobsTyped'
  BY <1>e, <1>u DEF JobsTyped
<1>3. ASSUME NEW s \in Threads
      PROVE  Shape(s)'
  <2>1. CASE s = t
    BY <1>e, <2>1
  <2>2. CASE s # t
    <3>1. pc'[s] = pc[s] /\ job'[s] = job[s] /\ Current(s)' = Current(s)
      BY <1>e, <2>2
    <3> QED BY <3>1 DEF IInv, Shape
  <2> QED BY <2>1, <2>2
<1>4. KindsKept'
  <2>1. PICK h \in [Nat -> Kinds] : Fits(h)
    BY DEF IInv, KindsKept
  <2>2. Fits(h)'
    <3>1. \A k \in Kinds : field'[k] # None => h[field'[k]] = k
      BY <1>g, <2>1 DEF Fits
    <3>2. ASSUME NEW s \in Threads, pc'[s] # "idle"
          PROVE  /\ job'[s].uuid # None => h[job'[s].uuid] = Current(s)'.kind
                 /\ job'[s].parent # None => Current(s)'.kind \in DOMAIN Up
                                           /\ h[job'[s].parent] = Up[Current(s)'.kind]
      BY <1>e, <2>1, <3>2 DEF Fits
    <3> QED BY <1>u, <2>1, <3>1, <3>2 DEF Fits
  <2> QED BY <2>1, <2>2 DEF KindsKept
<1>5. OneAtATime'
  BY <1>a, <1>e, <1>u DEF IInv, OneAtATime
<1>6. FieldsGood'
  <2>1. ~overlapped => \A k \in {"segment", "family"} : Good(field[k]) \/ field'[k] = None
    BY <1>a, <1>b, <1>g, UpFacts DEF IInv, OneAtATime, FieldsGood, Good, Kinds, Skip
  <2> QED BY <1>g, <1>u, <2>1 DEF FieldsGood, Good, Kinds
<1>7. ASSUME NEW s \in Threads
      PROVE  InHand(s)'
  <2>1. CASE s = t
    BY <1>e, <2>1 DEF InHand
  <2>2. CASE s # t
    BY <1>a, <1>e, <1>u, <2>2 DEF IInv, OneAtATime, InHand
  <2> QED BY <2>1, <2>2
<1>8. ASSUME NEW s \in Threads
      PROVE  Lined(s)'
  <2>1. CASE s = t
    <3>1. SUFFICES ASSUME ~overlapped
                   PROVE  Lined(t)'
      BY <1>u, <2>1 DEF Lined
    <3>2. InHand(t) /\ Lined(t) /\ made[t] \in [segment : 0 .. drawn, family : 0 .. drawn]
      BY DEF IInv, JobsTyped
    <3>3. CASE pc'[t] = "idle"
      BY <1>e, <3>3 DEF Lined
    <3>4. CASE pc'[t] = "element" /\ Current(t).kind = "segment"
      BY <1>a, <1>d, <1>e, <1>g, <3>1, <3>2, <3>4 DEF Lined, InHand, Skip
    <3>5. CASE pc'[t] = "element" /\ Current(t).kind = "family"
      BY <1>a, <1>d, <1>e, <1>f, <1>g, <3>1, <3>2, <3>5, UpFacts DEF Lined, InHand, Skip
    <3>6. CASE pc'[t] = "element" /\ Current(t).kind = "class"
      BY <1>a, <1>d, <1>e, <1>f, <1>g, <3>1, <3>2, <3>6, UpFacts DEF Lined, InHand, Skip
    <3> QED BY <1>e, <3>3, <3>4, <3>5, <3>6 DEF Kinds
  <2>2. CASE s # t
    BY <1>a, <1>e, <1>u, <2>2 DEF IInv, OneAtATime, Lined
  <2> QED BY <2>1, <2>2
<1>9. ParentsStored'
  BY <1>u DEF IInv, ParentsStored
<1>10. RightParents'
  BY <1>u DEF IInv, RightParents
<1> QED BY <1>1, <1>2, <1>3, <1>4, <1>5, <1>6, <1>7, <1>8, <1>9, <1>10 DEF IInv

LEMMA EnterKeeps ==
    ASSUME IInv, NEW t \in Threads, Enter(t)
    PROVE  IInv'
<1> USE BoundAssumption DEF None
<1>a. pc[t] # "idle"
  BY DEF Enter
<1>b. /\ Current(t).kind \in Kinds \cup {"plain"} /\ Current(t).code \in Codes
      /\ pc[t] \notin {"query", "save", "confirm"} => Current(t).kind \in Kinds
      /\ Current(t).kind = "plain" => job[t].uuid = None /\ job[t].parent = None
  BY <1>a, CurrentIs
<1>c. \A s \in Threads : s # t => pc'[s] = pc[s] /\ job'[s] = job[s]
  BY DEF IInv, TypeOK, JobsTyped, Enter, Goto
<1>d. pc'[t] = "draw" /\ job'[t] = job[t]
  BY DEF IInv, TypeOK, JobsTyped, Enter, Goto
<1>e. \A s \in Threads : Current(s)' = Current(s)
  BY <1>c, <1>d DEF Current
<1>1. TypeOK'
  BY <1>a, <1>b, UpFacts DEF IInv, TypeOK, JobsTyped, Kinds, Current, Elements, Plain, Enter, Goto
<1>2. JobsTyped'
  BY <1>a, <1>b, UpFacts DEF IInv, TypeOK, JobsTyped, Kinds, Current, Enter, Goto
<1>3. ASSUME NEW s \in Threads
      PROVE  Shape(s)'
  BY <1>a, <1>b, <1>c, <1>d, <1>e, UpFacts DEF IInv, Shape, Enter
<1>4. KindsKept'
  <2>1. PICK h \in [Nat -> Kinds] : Fits(h)
    BY DEF IInv, KindsKept
  <2>2. Fits(h)'
    BY <1>a, <1>b, <1>c, <1>d, <1>e, <2>1, UpFacts DEF IInv, TypeOK, JobsTyped, Fits, Kinds, Enter
  <2> QED BY <2>1, <2>2 DEF KindsKept
<1>5. OneAtATime'
  BY <1>a, <1>b, UpFacts DEF IInv, TypeOK, OneAtATime, Enter, Goto
<1>6. FieldsGood'
  BY <1>a, <1>b, <1>c, <1>d, <1>e, UpFacts DEF IInv, TypeOK, OneAtATime, FieldsGood, InHand, Good, Kinds, Enter
<1>7. ASSUME NEW s \in Threads
      PROVE  InHand(s)'
  <2>1. InHand(s) /\ InHand(t)
    BY DEF IInv
  <2>2. CASE s = t
    BY <1>a, <1>b, <1>c, <1>d, <1>e, <2>1, <2>2, UpFacts DEF IInv, TypeOK, JobsTyped, InHand, Good, Kinds, Enter, Belongs
  <2>3. CASE s # t
    BY <1>a, <1>c, <1>e, <2>1, <2>3, UpFacts DEF IInv, OneAtATime, InHand, Good, Enter
  <2> QED BY <2>2, <2>3
<1>8. ASSUME NEW s \in Threads
      PROVE  Lined(s)'
  BY <1>a, <1>b, <1>c, <1>d, <1>e, UpFacts DEF IInv, TypeOK, OneAtATime, Lined, Kinds, Enter
<1>9. ParentsStored'
  BY <1>a, <1>b, <1>c, <1>d, <1>e, UpFacts DEF IInv, TypeOK, ParentsStored, InHand, Good, Enter
<1>10. RightParents'
  BY <1>a, <1>b, <1>c, <1>d, <1>e, UpFacts DEF IInv, TypeOK, RightParents, InHand, Lined, Meant, Kinds, Enter
<1> QED BY <1>1, <1>2, <1>3, <1>4, <1>5, <1>6, <1>7, <1>8, <1>9, <1>10 DEF IInv

LEMMA DrawKeeps ==
    ASSUME IInv, NEW t \in Threads, Draw(t)
    PROVE  IInv'
<1> USE BoundAssumption DEF None
<1>a. pc[t] # "idle"
  BY DEF Draw
<1>b. /\ Current(t).kind \in Kinds \cup {"plain"} /\ Current(t).code \in Codes
      /\ pc[t] \notin {"query", "save", "confirm"} => Current(t).kind \in Kinds
      /\ Current(t).kind = "plain" => job[t].uuid = None /\ job[t].parent = None
  BY <1>a, CurrentIs
<1>c. \A s \in Threads : s # t => pc'[s] = pc[s] /\ job'[s] = job[s]
  BY DEF IInv, TypeOK, JobsTyped, Draw, Goto
<1>d. pc'[t] = "uuid" /\ job'[t] = job[t]
  BY DEF IInv, TypeOK, JobsTyped, Draw, Goto
<1>e. \A s \in Threads : Current(s)' = Current(s)
  BY <1>c, <1>d DEF Current
<1>1. TypeOK'
  BY <1>a, <1>b, UpFacts DEF IInv, TypeOK, JobsTyped, Kinds, Current, Elements, Plain, Draw, Goto
<1>2. JobsTyped'
  BY <1>a, <1>b, UpFacts DEF IInv, TypeOK, JobsTyped, Kinds, Current, Draw, Goto
<1>3. ASSUME NEW s \in Threads
      PROVE  Shape(s)'
  BY <1>a, <1>b, <1>c, <1>d, <1>e, UpFacts DEF IInv, Shape, Draw
<1>4. KindsKept'
  <2>1. PICK h \in [Nat -> Kinds] : Fits(h)
    BY DEF IInv, KindsKept
  <2>2. PICK g \in [Nat -> Kinds] :
           g[drawn + 1] = Current(t).kind /\ \A n \in 0 .. drawn : g[n] = h[n]
    <3> DEFINE g == [h EXCEPT ![drawn + 1] = Current(t).kind]
    <3>1. g \in [Nat -> Kinds] /\ g[drawn + 1] = Current(t).kind /\ \A n \in 0 .. drawn : g[n] = h[n]
      BY <1>b, <2>1 DEF IInv, TypeOK, Draw
    <3> HIDE DEF g
    <3> QED BY <3>1
  <2>3. Fits(g)'
    <3>1. \A k \in Kinds : field'[k] # None => g[field'[k]] = k
      BY <1>b, <2>1, <2>2 DEF IInv, TypeOK, Fits, Draw
    <3>2. ASSUME NEW s \in Threads, pc'[s] # "idle"
          PROVE  /\ job'[s].uuid # None => g[job'[s].uuid] = Current(s)'.kind
                 /\ job'[s].parent # None => Current(s)'.kind \in DOMAIN Up
                                           /\ g[job'[s].parent] = Up[Current(s)'.kind]
      BY <1>a, <1>c, <1>d, <1>e, <2>1, <2>2, <3>2 DEF IInv, TypeOK, Fits
    <3>3. ASSUME NEW c \in cats
          PROVE  /\ c.uuid # None => g[c.uuid] = c.kind
                 /\ c.parent # None => c.kind \in DOMAIN Up /\ g[c.parent] = Up[c.kind]
      BY <2>1, <2>2 DEF IInv, TypeOK, Fits
    <3> QED BY <3>1, <3>2, <3>3 DEF Fits, Draw
  <2> QED BY <2>2, <2>3 DEF KindsKept
<1>5. OneAtATime'
  BY <1>a, <1>b, UpFacts DEF IInv, TypeOK, OneAtATime, Draw, Goto
<1>6. FieldsGood'
  BY <1>a, <1>b, <1>c, <1>d, <1>e, UpFacts DEF IInv, TypeOK, OneAtATime, FieldsGood, InHand, Good, Kinds, Draw
<1>7. ASSUME NEW s \in Threads
      PROVE  InHand(s)'
  <2>1. InHand(s) /\ InHand(t)
    BY DEF IInv
  <2>2. CASE s = t
    BY <1>a, <1>b, <1>c, <1>d, <1>e, <2>1, <2>2, UpFacts DEF IInv, TypeOK, JobsTyped, InHand, Good, Kinds, Draw
  <2>3. CASE s # t
    BY <1>a, <1>c, <1>e, <2>1, <2>3, UpFacts DEF IInv, OneAtATime, InHand, Good, Draw
  <2> QED BY <2>2, <2>3
<1>8. ASSUME NEW s \in Threads
      PROVE  Lined(s)'
  BY <1>a, <1>b, <1>c, <1>d, <1>e, UpFacts DEF IInv, TypeOK, OneAtATime, Lined, Kinds, Draw
<1>9. ParentsStored'
  BY <1>a, <1>b, <1>c, <1>d, <1>e, UpFacts DEF IInv, TypeOK, ParentsStored, InHand, Good, Draw
<1>10. RightParents'
  BY <1>a, <1>b, <1>c, <1>d, <1>e, UpFacts DEF IInv, TypeOK, RightParents, InHand, Lined, Meant, Kinds, Draw
<1> QED BY <1>1, <1>2, <1>3, <1>4, <1>5, <1>6, <1>7, <1>8, <1>9, <1>10 DEF IInv

LEMMA SetUuidKeeps ==
    ASSUME IInv, NEW t \in Threads, SetUuid(t)
    PROVE  IInv'
<1> USE BoundAssumption DEF None
<1>a. pc[t] # "idle"
  BY DEF SetUuid
<1>b. /\ Current(t).kind \in Kinds \cup {"plain"} /\ Current(t).code \in Codes
      /\ pc[t] \notin {"query", "save", "confirm"} => Current(t).kind \in Kinds
      /\ Current(t).kind = "plain" => job[t].uuid = None /\ job[t].parent = None
  BY <1>a, CurrentIs
<1>c. \A s \in Threads : s # t => pc'[s] = pc[s] /\ job'[s] = job[s]
  BY DEF IInv, TypeOK, JobsTyped, SetUuid, Goto
<1>d. pc'[t] = "parent" /\ job'[t].uuid = field[Current(t).kind] /\ job'[t].parent = job[t].parent
      /\ job'[t].todo = job[t].todo
  BY DEF IInv, TypeOK, JobsTyped, SetUuid, Goto
<1>e. \A s \in Threads : Current(s)' = Current(s)
  BY <1>c, <1>d DEF Current
<1>1. TypeOK'
  BY <1>a, <1>b, UpFacts DEF IInv, TypeOK, JobsTyped, Kinds, Current, Elements, Plain, SetUuid, Goto
<1>2. JobsTyped'
  BY <1>a, <1>b, UpFacts DEF IInv, TypeOK, JobsTyped, Kinds, Current, SetUuid, Goto
<1>3. ASSUME NEW s \in Threads
      PROVE  Shape(s)'
  BY <1>a, <1>b, <1>c, <1>d, <1>e, UpFacts DEF IInv, Shape, SetUuid
<1>4. KindsKept'
  <2>1. PICK h \in [Nat -> Kinds] : Fits(h)
    BY DEF IInv, KindsKept
  <2>2. Fits(h)'
    BY <1>a, <1>b, <1>c, <1>d, <1>e, <2>1, UpFacts DEF IInv, TypeOK, JobsTyped, Fits, Kinds, SetUuid
  <2> QED BY <2>1, <2>2 DEF KindsKept
<1>5. OneAtATime'
  BY <1>a, <1>b, UpFacts DEF IInv, TypeOK, OneAtATime, SetUuid, Goto
<1>6. FieldsGood'
  BY <1>a, <1>b, <1>c, <1>d, <1>e, UpFacts DEF IInv, TypeOK, OneAtATime, FieldsGood, InHand, Good, Kinds, SetUuid
<1>7. ASSUME NEW s \in Threads
      PROVE  InHand(s)'
  <2>1. InHand(s) /\ InHand(t)
    BY DEF IInv
  <2>2. CASE s = t
    BY <1>a, <1>b, <1>c, <1>d, <1>e, <2>1, <2>2, UpFacts DEF IInv, TypeOK, JobsTyped, InHand, Good, Kinds, SetUuid
  <2>3. CASE s # t
    BY <1>a, <1>c, <1>e, <2>1, <2>3, UpFacts DEF IInv, OneAtATime, InHand, Good, SetUuid
  <2> QED BY <2>2, <2>3
<1>8. ASSUME NEW s \in Threads
      PROVE  Lined(s)'
  BY <1>a, <1>b, <1>c, <1>d, <1>e, UpFacts DEF IInv, TypeOK, OneAtATime, Lined, Kinds, SetUuid
<1>9. ParentsStored'
  BY <1>a, <1>b, <1>c, <1>d, <1>e, UpFacts DEF IInv, TypeOK, ParentsStored, InHand, Good, SetUuid
<1>10. RightParents'
  BY <1>a, <1>b, <1>c, <1>d, <1>e, UpFacts DEF IInv, TypeOK, RightParents, InHand, Lined, Meant, Kinds, SetUuid
<1> QED BY <1>1, <1>2, <1>3, <1>4, <1>5, <1>6, <1>7, <1>8, <1>9, <1>10 DEF IInv

LEMMA SetParentUuidKeeps ==
    ASSUME IInv, NEW t \in Threads, SetParentUuid(t)
    PROVE  IInv'
<1> USE BoundAssumption DEF None
<1>a. pc[t] # "idle"
  BY DEF SetParentUuid
<1>b. /\ Current(t).kind \in Kinds \cup {"plain"} /\ Current(t).code \in Codes
      /\ pc[t] \notin {"query", "save", "confirm"} => Current(t).kind \in Kinds
      /\ Current(t).kind = "plain" => job[t].uuid = None /\ job[t].parent = None
  BY <1>a, CurrentIs
<1>c. \A s \in Threads : s # t => pc'[s] = pc[s] /\ job'[s] = job[s]
  BY DEF IInv, TypeOK, JobsTyped, SetParentUuid, Goto
<1>d. pc'[t] = "query" /\ job'[t].uuid = job[t].uuid /\ job'[t].todo = job[t].todo
      /\ job'[t].parent = IF Current(t).kind = "segment" THEN None ELSE field[Up[Current(t).kind]]
  BY DEF IInv, TypeOK, JobsTyped, SetParentUuid, Goto
<1>e. \A s \in Threads : Current(s)' = Current(s)
  BY <1>c, <1>d DEF Current
<1>1. TypeOK'
  <2>1. job'[t].uuid \in 0 .. drawn /\ job'[t].parent \in 0 .. drawn
    BY <1>a, <1>b, <1>d, UpFacts DEF IInv, TypeOK, Kinds, SetParentUuid
  <2>2. \A s \in Threads : job'[s].uuid \in 0 .. drawn' /\ job'[s].parent \in 0 .. drawn'
    BY <1>c, <2>1 DEF IInv, TypeOK, SetParentUuid
  <2> QED BY <2>2 DEF IInv, TypeOK, SetParentUuid, Goto
<1>2. JobsTyped'
  <2>1. UNCHANGED <<drawn, saved, made>> /\ job' = [job EXCEPT ![t].parent =
           IF Current(t).kind = "segment" THEN None ELSE field[Up[Current(t).kind]]]
    BY DEF SetParentUuid
  <2>2. (IF Current(t).kind = "segment" THEN None ELSE field[Up[Current(t).kind]]) \in 0 .. drawn
    BY <1>a, <1>b, UpFacts DEF IInv, TypeOK, Kinds, SetParentUuid
  <2> QED BY <2>1, <2>2 DEF IInv, JobsTyped
<1>3. ASSUME NEW s \in Threads
      PROVE  Shape(s)'
  BY <1>a, <1>b, <1>c, <1>d, <1>e, UpFacts DEF IInv, Shape, SetParentUuid
<1>4. KindsKept'
  <2>1. PICK h \in [Nat -> Kinds] : Fits(h)
    BY DEF IInv, KindsKept
  <2>2. Fits(h)'
    BY <1>a, <1>b, <1>c, <1>d, <1>e, <2>1, UpFacts DEF IInv, TypeOK, JobsTyped, Fits, Kinds, SetParentUuid
  <2> QED BY <2>1, <2>2 DEF KindsKept
<1>5. OneAtATime'
  BY <1>a, <1>b, UpFacts DEF IInv, TypeOK, OneAtATime, SetParentUuid, Goto
<1>6. FieldsGood'
  BY <1>a, <1>b, <1>c, <1>d, <1>e, UpFacts DEF IInv, TypeOK, OneAtATime, FieldsGood, InHand, Good, Kinds, SetParentUuid
<1>7. ASSUME NEW s \in Threads
      PROVE  InHand(s)'
  <2>1. InHand(s) /\ InHand(t)
    BY DEF IInv
  <2>2. CASE s = t
    BY <1>a, <1>b, <1>c, <1>d, <1>e, <2>1, <2>2, UpFacts DEF IInv, TypeOK, JobsTyped, InHand, Good, Kinds, SetParentUuid
  <2>3. CASE s # t
    BY <1>a, <1>c, <1>e, <2>1, <2>3, UpFacts DEF IInv, OneAtATime, InHand, Good, SetParentUuid
  <2> QED BY <2>2, <2>3
<1>8. ASSUME NEW s \in Threads
      PROVE  Lined(s)'
  BY <1>a, <1>b, <1>c, <1>d, <1>e, UpFacts DEF IInv, TypeOK, OneAtATime, Lined, Kinds, SetParentUuid
<1>9. ParentsStored'
  BY <1>a, <1>b, <1>c, <1>d, <1>e, UpFacts DEF IInv, TypeOK, ParentsStored, InHand, Good, SetParentUuid
<1>10. RightParents'
  BY <1>a, <1>b, <1>c, <1>d, <1>e, UpFacts DEF IInv, TypeOK, RightParents, InHand, Lined, Meant, Kinds, SetParentUuid
<1> QED BY <1>1, <1>2, <1>3, <1>4, <1>5, <1>6, <1>7, <1>8, <1>9, <1>10 DEF IInv

LEMMA NewKeeps ==
    ASSUME IInv, NEW t \in Threads, New(t)
    PROVE  IInv'
<1> USE BoundAssumption DEF None
<1>a. pc[t] # "idle"
  BY DEF New
<1>b. /\ Current(t).kind \in Kinds \cup {"plain"} /\ Current(t).code \in Codes
      /\ pc[t] \notin {"query", "save", "confirm"} => Current(t).kind \in Kinds
      /\ Current(t).kind = "plain" => job[t].uuid = None /\ job[t].parent = None
  BY <1>a, CurrentIs
<1>c. \A s \in Threads : s # t => pc'[s] = pc[s] /\ job'[s] = job[s]
  BY DEF IInv, TypeOK, JobsTyped, New, Goto
<1>d. pc'[t] = "save" /\ job'[t] = job[t]
  BY DEF IInv, TypeOK, JobsTyped, New, Goto
<1>e. \A s \in Threads : Current(s)' = Current(s)
  BY <1>c, <1>d DEF Current
<1>1. TypeOK'
  BY <1>a, <1>b, UpFacts DEF IInv, TypeOK, JobsTyped, Kinds, Current, Elements, Plain, New, Goto
<1>2. JobsTyped'
  BY <1>a, <1>b, UpFacts DEF IInv, TypeOK, JobsTyped, Kinds, Current, New, Goto
<1>3. ASSUME NEW s \in Threads
      PROVE  Shape(s)'
  BY <1>a, <1>b, <1>c, <1>d, <1>e, UpFacts DEF IInv, Shape, New
<1>4. KindsKept'
  <2>1. PICK h \in [Nat -> Kinds] : Fits(h)
    BY DEF IInv, KindsKept
  <2>2. Fits(h)'
    BY <1>a, <1>b, <1>c, <1>d, <1>e, <2>1, UpFacts DEF IInv, TypeOK, JobsTyped, Fits, Kinds, New
  <2> QED BY <2>1, <2>2 DEF KindsKept
<1>5. OneAtATime'
  BY <1>a, <1>b, UpFacts DEF IInv, TypeOK, OneAtATime, New, Goto
<1>6. FieldsGood'
  BY <1>a, <1>b, <1>c, <1>d, <1>e, UpFacts DEF IInv, TypeOK, OneAtATime, FieldsGood, InHand, Good, Kinds, New
<1>7. ASSUME NEW s \in Threads
      PROVE  InHand(s)'
  <2>1. InHand(s) /\ InHand(t)
    BY DEF IInv
  <2>2. CASE s = t
    BY <1>a, <1>b, <1>c, <1>d, <1>e, <2>1, <2>2, UpFacts DEF IInv, TypeOK, JobsTyped, InHand, Good, Kinds, New
  <2>3. CASE s # t
    BY <1>a, <1>c, <1>e, <2>1, <2>3, UpFacts DEF IInv, OneAtATime, InHand, Good, New
  <2> QED BY <2>2, <2>3
<1>8. ASSUME NEW s \in Threads
      PROVE  Lined(s)'
  BY <1>a, <1>b, <1>c, <1>d, <1>e, UpFacts DEF IInv, TypeOK, OneAtATime, Lined, Kinds, New
<1>9. ParentsStored'
  BY <1>a, <1>b, <1>c, <1>d, <1>e, UpFacts DEF IInv, TypeOK, ParentsStored, InHand, Good, New
<1>10. RightParents'
  BY <1>a, <1>b, <1>c, <1>d, <1>e, UpFacts DEF IInv, TypeOK, RightParents, InHand, Lined, Meant, Kinds, New
<1> QED BY <1>1, <1>2, <1>3, <1>4, <1>5, <1>6, <1>7, <1>8, <1>9, <1>10 DEF IInv

LEMMA ThrowKeeps ==
    ASSUME IInv, NEW t \in Threads, Throw(t)
    PROVE  IInv'
<1> USE BoundAssumption DEF None
<1>a. pc[t] # "idle"
  BY DEF Throw
<1>b. /\ Current(t).kind \in Kinds \cup {"plain"} /\ Current(t).code \in Codes
      /\ pc[t] \notin {"query", "save", "confirm"} => Current(t).kind \in Kinds
      /\ Current(t).kind = "plain" => job[t].uuid = None /\ job[t].parent = None
  BY <1>a, CurrentIs
<1>c. /\ pc' = [pc EXCEPT ![t] = "idle"] /\ job' = [job EXCEPT ![t] = NoJob]
      /\ made' = [made EXCEPT ![t] = NoneMade] /\ aborted' = aborted \cup {job[t].uuid}
      /\ UNCHANGED <<drawn, cats, field, requests, saved, deleted, overlapped>> /\ pc[t] = "query"
  BY DEF Throw, End, Goto
<1>d. /\ NoJob \in [todo : ToDo, uuid : 0 .. drawn, parent : 0 .. drawn, id : 0 .. saved]
      /\ NoJob.uuid = None /\ NoJob.parent = None
      /\ NoneMade \in [segment : 0 .. drawn, family : 0 .. drawn]
      /\ NoneMade.segment = None /\ NoneMade.family = None
  BY DEF NoJob, NoneMade, IInv, TypeOK, ToDo
<1>e. /\ pc'[t] = "idle" /\ job'[t] = NoJob /\ made'[t] = NoneMade
      /\ \A s \in Threads : s # t =>
            pc'[s] = pc[s] /\ job'[s] = job[s] /\ made'[s] = made[s] /\ Current(s)' = Current(s)
  BY <1>c DEF IInv, TypeOK, JobsTyped, Current
<1>1. TypeOK'
  <2>1. pc' \in [Threads -> {"idle", "element", "draw", "uuid", "parent", "query", "save", "confirm"}]
    BY <1>c DEF IInv, TypeOK
  <2>2. \A s \in Threads : job'[s].uuid \in 0 .. drawn' /\ job'[s].parent \in 0 .. drawn'
    BY <1>c, <1>d, <1>e DEF IInv, TypeOK
  <2>3. made' \in [Threads -> [segment : 0 .. drawn, family : 0 .. drawn]]
    BY <1>c, <1>d DEF IInv, TypeOK
  <2>4. aborted' \subseteq 0 .. drawn
    BY <1>c DEF IInv, TypeOK
  <2> QED BY <1>c, <2>1, <2>2, <2>3, <2>4 DEF IInv, TypeOK
<1>2. JobsTyped'
  BY <1>c, <1>d DEF IInv, JobsTyped
<1>3. ASSUME NEW s \in Threads
      PROVE  Shape(s)'
  BY <1>e DEF IInv, Shape
<1>4. KindsKept'
  <2>1. PICK h \in [Nat -> Kinds] : Fits(h)
    BY DEF IInv, KindsKept
  <2>2. Fits(h)'
    BY <1>c, <1>e, <2>1 DEF Fits
  <2> QED BY <2>1, <2>2 DEF KindsKept
<1>5. OneAtATime'
  BY <1>a, <1>c, <1>e DEF IInv, OneAtATime
<1>6. FieldsGood'
  <2>1. ASSUME ~overlapped, NEW k \in {"segment", "family"}, ~Good(field[k])
        PROVE  job[t].uuid = field[k]
    BY <1>a, <1>b, <1>c, <2>1 DEF IInv, OneAtATime, FieldsGood, InHand
  <2> QED BY <1>c, <2>1 DEF FieldsGood, Good
<1>7. ASSUME NEW s \in Threads
      PROVE  InHand(s)'
  <2>1. CASE s = t
    BY <1>e, <2>1 DEF InHand
  <2>2. CASE s # t
    BY <1>c, <1>e, <2>2 DEF IInv, InHand, Good
  <2> QED BY <2>1, <2>2
<1>8. ASSUME NEW s \in Threads
      PROVE  Lined(s)'
  BY <1>c, <1>d, <1>e DEF IInv, Lined
<1>9. ParentsStored'
  BY <1>c DEF IInv, ParentsStored
<1>10. RightParents'
  BY <1>c DEF IInv, RightParents
<1> QED BY <1>1, <1>2, <1>3, <1>4, <1>5, <1>6, <1>7, <1>8, <1>9, <1>10 DEF IInv

LEMMA RefuseKeeps ==
    ASSUME IInv, NEW t \in Threads, Refuse(t)
    PROVE  IInv'
<1> USE BoundAssumption DEF None
<1>a. pc[t] # "idle"
  BY DEF Refuse
<1>b. /\ Current(t).kind \in Kinds \cup {"plain"} /\ Current(t).code \in Codes
      /\ pc[t] \notin {"query", "save", "confirm"} => Current(t).kind \in Kinds
      /\ Current(t).kind = "plain" => job[t].uuid = None /\ job[t].parent = None
  BY <1>a, CurrentIs
<1> DEFINE uuid == None
<1>d. uuid \in 0 .. drawn /\ NextElement(t, uuid)
  BY DEF IInv, TypeOK, Refuse, NotCreated
<1>e. /\ pc' \in [Threads -> {"idle", "element", "draw", "uuid", "parent", "query", "save", "confirm"}]
      /\ job' \in [Threads -> [todo : ToDo, uuid : 0 .. drawn, parent : 0 .. drawn, id : 0 .. saved]]
      /\ made' \in [Threads -> [segment : 0 .. drawn, family : 0 .. drawn]]
      /\ \A s \in Threads : s # t =>
            pc'[s] = pc[s] /\ job'[s] = job[s] /\ made'[s] = made[s] /\ Current(s)' = Current(s)
      /\ pc'[t] \in {"idle", "element"} /\ job'[t].uuid = None /\ job'[t].parent = None
      /\ pc'[t] = "idle" => made'[t].segment = None /\ made'[t].family = None
      /\ Shape(t)'
      /\ pc'[t] = "element" =>
            /\ Current(t)'.kind = "class" => Current(t).kind \in {"family", "class"}
            /\ Current(t).kind \in Kinds
            /\ made'[t] = IF Current(t).kind = "segment"
                          THEN [segment |-> uuid, family |-> None]
                          ELSE IF Current(t).kind = "family"
                          THEN [segment |-> made[t].segment, family |-> uuid]
                          ELSE made[t]
  <2> HIDE DEF uuid
  <2> QED BY <1>a, <1>d, Goes DEF Current, NoneMade
<1>f. field' = IF Current(t).kind = "plain" THEN field
      ELSE [field EXCEPT ![Cleared[Current(t).kind]] = None]
  BY DEF Refuse, NotCreated
<1>g. /\ uuid = None /\ field' \in [Kinds -> 0 .. drawn]
      /\ \A k \in Kinds : field'[k] \in {field[k], None}
      /\ Current(t).kind = "segment" => field'["segment"] = None
      /\ Current(t).kind \in {"family", "class"} =>
            field'["segment"] = field["segment"] /\ field'["family"] = None
  BY <1>b, <1>f, UpFacts DEF IInv, TypeOK, Kinds
<1>u. UNCHANGED <<drawn, cats, requests, saved, deleted, aborted, overlapped>>
  BY DEF Refuse
<1> HIDE DEF uuid
<1>1. TypeOK'
  BY <1>d, <1>e, <1>g, <1>u DEF IInv, TypeOK
<1>2. JobsTyped'
  BY <1>e, <1>u DEF JobsTyped
<1>3. ASSUME NEW s \in Threads
      PROVE  Shape(s)'
  <2>1. CASE s = t
    BY <1>e, <2>1
  <2>2. CASE s # t
    <3>1. pc'[s] = pc[s] /\ job'[s] = job[s] /\ Current(s)' = Current(s)
      BY <1>e, <2>2
    <3> QED BY <3>1 DEF IInv, Shape
  <2> QED BY <2>1, <2>2
<1>4. KindsKept'
  <2>1. PICK h \in [Nat -> Kinds] : Fits(h)
    BY DEF IInv, KindsKept
  <2>2. Fits(h)'
    <3>1. \A k \in Kinds : field'[k] # None => h[field'[k]] = k
      BY <1>g, <2>1 DEF Fits
    <3>2. ASSUME NEW s \in Threads, pc'[s] # "idle"
          PROVE  /\ job'[s].uuid # None => h[job'[s].uuid] = Current(s)'.kind
                 /\ job'[s].parent # None => Current(s)'.kind \in DOMAIN Up
                                           /\ h[job'[s].parent] = Up[Current(s)'.kind]
      BY <1>e, <2>1, <3>2 DEF Fits
    <3> QED BY <1>u, <2>1, <3>1, <3>2 DEF Fits
  <2> QED BY <2>1, <2>2 DEF KindsKept
<1>5. OneAtATime'
  BY <1>a, <1>e, <1>u DEF IInv, OneAtATime
<1>6. FieldsGood'
  <2>1. ~overlapped => \A k \in {"segment", "family"} : Good(field[k]) \/ field'[k] = None
    BY <1>a, <1>b, <1>g, UpFacts DEF IInv, OneAtATime, FieldsGood, Good, Kinds, Refuse
  <2> QED BY <1>g, <1>u, <2>1 DEF FieldsGood, Good, Kinds
<1>7. ASSUME NEW s \in Threads
      PROVE  InHand(s)'
  <2>1. CASE s = t
    BY <1>e, <2>1 DEF InHand
  <2>2. CASE s # t
    BY <1>a, <1>e, <1>u, <2>2 DEF IInv, OneAtATime, InHand
  <2> QED BY <2>1, <2>2
<1>8. ASSUME NEW s \in Threads
      PROVE  Lined(s)'
  <2>1. CASE s = t
    <3>1. SUFFICES ASSUME ~overlapped
                   PROVE  Lined(t)'
      BY <1>u, <2>1 DEF Lined
    <3>2. InHand(t) /\ Lined(t) /\ made[t] \in [segment : 0 .. drawn, family : 0 .. drawn]
      BY DEF IInv, JobsTyped
    <3>3. CASE pc'[t] = "idle"
      BY <1>e, <3>3 DEF Lined
    <3>4. CASE pc'[t] = "element" /\ Current(t).kind = "segment"
      BY <1>a, <1>d, <1>e, <1>g, <3>1, <3>2, <3>4 DEF Lined, InHand, Refuse
    <3>5. CASE pc'[t] = "element" /\ Current(t).kind = "family"
      BY <1>a, <1>d, <1>e, <1>f, <1>g, <3>1, <3>2, <3>5, UpFacts DEF Lined, InHand, Refuse
    <3>6. CASE pc'[t] = "element" /\ Current(t).kind = "class"
      BY <1>a, <1>d, <1>e, <1>f, <1>g, <3>1, <3>2, <3>6, UpFacts DEF Lined, InHand, Refuse
    <3> QED BY <1>e, <3>3, <3>4, <3>5, <3>6 DEF Kinds
  <2>2. CASE s # t
    BY <1>a, <1>e, <1>u, <2>2 DEF IInv, OneAtATime, Lined
  <2> QED BY <2>1, <2>2
<1>9. ParentsStored'
  BY <1>u DEF IInv, ParentsStored
<1>10. RightParents'
  BY <1>u DEF IInv, RightParents
<1> QED BY <1>1, <1>2, <1>3, <1>4, <1>5, <1>6, <1>7, <1>8, <1>9, <1>10 DEF IInv

LEMMA SaveKeeps ==
    ASSUME IInv, NEW t \in Threads, Save(t)
    PROVE  IInv'
<1> USE BoundAssumption DEF None
<1>a. pc[t] # "idle"
  BY DEF Save
<1>b. /\ Current(t).kind \in Kinds \cup {"plain"} /\ Current(t).code \in Codes
      /\ pc[t] \notin {"query", "save", "confirm"} => Current(t).kind \in Kinds
      /\ Current(t).kind = "plain" => job[t].uuid = None /\ job[t].parent = None
  BY <1>a, CurrentIs
<1>c. \A s \in Threads : s # t => pc'[s] = pc[s] /\ job'[s] = job[s]
  BY DEF IInv, TypeOK, JobsTyped, Save, Goto
<1>d. pc'[t] = "confirm" /\ job'[t].uuid = job[t].uuid /\ job'[t].parent = job[t].parent
      /\ job'[t].todo = job[t].todo
  BY DEF IInv, TypeOK, JobsTyped, Save, Goto
<1>e. \A s \in Threads : Current(s)' = Current(s)
  BY <1>c, <1>d DEF Current
<1>f. \A i : Good(i) => Good(i)'
  BY DEF Good, Save
<1>g. \E c \in cats' : c.uuid = job[t].uuid
  <2> DEFINE c == [id |-> saved', uuid |-> job[t].uuid, code |-> Current(t).code, kind |-> Current(t).kind,
                   parent |-> job[t].parent, meant |-> Meant(t), root |-> made[t].segment]
  <2>1. cats' = cats \cup {c}
    BY DEF Save
  <2>2. c.uuid = job[t].uuid
    OBVIOUS
  <2> HIDE DEF c
  <2> QED BY <2>1, <2>2
<1>h. UNCHANGED <<drawn, field, deleted, aborted, made, overlapped>>
  BY DEF Save
<1>1. TypeOK'
  <2>1. saved' = saved + 1 /\ saved' \in Nat /\ 1 .. saved \subseteq 1 .. saved'
    BY DEF IInv, TypeOK, Save
  <2>2. Meant(t) \in 0 .. drawn /\ made[t].segment \in 0 .. drawn
    BY <1>b, UpFacts DEF IInv, TypeOK, Meant
  <2> DEFINE c == [id |-> saved', uuid |-> job[t].uuid, code |-> Current(t).code, kind |-> Current(t).kind,
                   parent |-> job[t].parent, meant |-> Meant(t), root |-> made[t].segment]
             type(n) == [id : 1 .. n, uuid : 0 .. drawn, code : Codes,
                         kind : Kinds \cup {"plain"}, parent : 0 .. drawn,
                         meant : 0 .. drawn, root : 0 .. drawn]
  <2>3. c \in type(saved')
    BY <1>b, <2>1, <2>2 DEF IInv, TypeOK
  <2>4. type(saved) \subseteq type(saved')
    BY <2>1
  <2>5. cats' = cats \cup {c} /\ cats \subseteq type(saved)
    BY DEF IInv, TypeOK, Save
  <2> HIDE DEF c, type
  <2>6. cats' \subseteq type(saved')
    BY <2>3, <2>4, <2>5
  <2>7. pc' \in [Threads -> {"idle", "element", "draw", "uuid", "parent", "query", "save", "confirm"}]
    BY DEF IInv, TypeOK, Save, Goto
  <2>8. \A s \in Threads : job'[s].uuid \in 0 .. drawn' /\ job'[s].parent \in 0 .. drawn'
    BY <1>c, <1>d DEF IInv, TypeOK, Save
  <2> QED BY <2>1, <2>6, <2>7, <2>8 DEF IInv, TypeOK, Save, type
<1>2. JobsTyped'
  BY <1>a, <1>b, UpFacts DEF IInv, TypeOK, JobsTyped, Kinds, Current, Save, Goto
<1>3. ASSUME NEW s \in Threads
      PROVE  Shape(s)'
  BY <1>a, <1>b, <1>c, <1>d, <1>e, UpFacts DEF IInv, Shape, Save
<1>4. KindsKept'
  <2>1. PICK h \in [Nat -> Kinds] : Fits(h)
    BY DEF IInv, KindsKept
  <2>2. Fits(h)'
    BY <1>a, <1>b, <1>c, <1>d, <1>e, <2>1, UpFacts DEF IInv, TypeOK, JobsTyped, Fits, Kinds, Save
  <2> QED BY <2>1, <2>2 DEF KindsKept
<1>5. OneAtATime'
  BY <1>a, <1>b, UpFacts DEF IInv, TypeOK, OneAtATime, Save, Goto
<1>6. FieldsGood'
  <2>1. ASSUME ~overlapped, NEW k \in {"segment", "family"}, ~Good(field[k])
        PROVE  job[t].uuid = field[k]
    BY <1>a, <1>b, <2>1 DEF IInv, OneAtATime, FieldsGood, InHand, Save
  <2> QED BY <1>f, <1>g, <1>h, <2>1 DEF FieldsGood, Good
<1>7. ASSUME NEW s \in Threads
      PROVE  InHand(s)'
  <2>1. InHand(s) /\ InHand(t)
    BY DEF IInv
  <2>2. CASE s = t
    <3>1. Good(job[t].uuid)'
      BY <1>d, <1>g DEF Good
    <3> QED BY <1>b, <1>d, <1>e, <1>h, <2>1, <2>2, <3>1 DEF InHand, Save
  <2>3. CASE s # t
    BY <1>a, <1>c, <1>e, <2>1, <2>3, UpFacts DEF IInv, OneAtATime, InHand, Good, Save
  <2> QED BY <2>2, <2>3
<1>8. ASSUME NEW s \in Threads
      PROVE  Lined(s)'
  BY <1>a, <1>b, <1>c, <1>d, <1>e, UpFacts DEF IInv, TypeOK, OneAtATime, Lined, Kinds, Save
<1>9. ParentsStored'
  <2>1. ASSUME ~overlapped
        PROVE  Good(job[t].parent)
    <3>1. CASE Current(t).kind \in {"family", "class"}
      <4>1. job[t].parent = field[Up[Current(t).kind]] /\ Up[Current(t).kind] \in {"segment", "family"}
        BY <2>1, <3>1, UpFacts DEF IInv, InHand, Save
      <4>2. Up[Current(t).kind] # Current(t).kind
        BY <3>1, UpFacts
      <4> QED BY <1>a, <2>1, <4>1, <4>2 DEF IInv, OneAtATime, FieldsGood, Save
    <3>2. CASE Current(t).kind \notin {"family", "class"}
      BY <2>1, <3>2 DEF IInv, InHand, Good, Save
    <3> QED BY <3>1, <3>2
  <2>2. ~overlapped => \A c \in cats : Good(c.parent)
    BY DEF IInv, ParentsStored, Good
  <2>3. ~overlapped => \A c \in cats' : Good(c.parent)
    BY <2>1, <2>2 DEF Save
  <2>4. ~overlapped => \A c \in cats' : c.parent # None =>
           (\E e \in cats' : e.uuid = c.parent) \/ c.parent \in deleted \cup aborted
    BY <1>f, <1>h, <2>3 DEF Good
  <2> QED BY <1>h, <2>4 DEF ParentsStored
<1>10. RightParents'
  BY <1>a, <1>b, <1>c, <1>d, <1>e, UpFacts DEF IInv, TypeOK, RightParents, InHand, Lined, Meant, Kinds, Save
<1> QED BY <1>1, <1>2, <1>3, <1>4, <1>5, <1>6, <1>7, <1>8, <1>9, <1>10 DEF IInv

LEMMA ConfirmKeeps ==
    ASSUME IInv, NEW t \in Threads, Confirm(t)
    PROVE  IInv'
<1> USE BoundAssumption DEF None
<1>a. pc[t] # "idle"
  BY DEF Confirm
<1>b. /\ Current(t).kind \in Kinds \cup {"plain"} /\ Current(t).code \in Codes
      /\ pc[t] \notin {"query", "save", "confirm"} => Current(t).kind \in Kinds
      /\ Current(t).kind = "plain" => job[t].uuid = None /\ job[t].parent = None
  BY <1>a, CurrentIs
<1> DEFINE uuid == IF \E c \in cats : c.id = job[t].id THEN job[t].uuid ELSE None
<1>d. uuid \in 0 .. drawn /\ NextElement(t, uuid)
  BY DEF IInv, TypeOK, Confirm, NotCreated
<1>e. /\ pc' \in [Threads -> {"idle", "element", "draw", "uuid", "parent", "query", "save", "confirm"}]
      /\ job' \in [Threads -> [todo : ToDo, uuid : 0 .. drawn, parent : 0 .. drawn, id : 0 .. saved]]
      /\ made' \in [Threads -> [segment : 0 .. drawn, family : 0 .. drawn]]
      /\ \A s \in Threads : s # t =>
            pc'[s] = pc[s] /\ job'[s] = job[s] /\ made'[s] = made[s] /\ Current(s)' = Current(s)
      /\ pc'[t] \in {"idle", "element"} /\ job'[t].uuid = None /\ job'[t].parent = None
      /\ pc'[t] = "idle" => made'[t].segment = None /\ made'[t].family = None
      /\ Shape(t)'
      /\ pc'[t] = "element" =>
            /\ Current(t)'.kind = "class" => Current(t).kind \in {"family", "class"}
            /\ Current(t).kind \in Kinds
            /\ made'[t] = IF Current(t).kind = "segment"
                          THEN [segment |-> uuid, family |-> None]
                          ELSE IF Current(t).kind = "family"
                          THEN [segment |-> made[t].segment, family |-> uuid]
                          ELSE made[t]
  <2> HIDE DEF uuid
  <2> QED BY <1>a, <1>d, Goes DEF Current, NoneMade
<1>f. \/ field' = field /\ uuid = job[t].uuid
      \/ /\ uuid = None
         /\ field' = IF Current(t).kind = "plain" THEN field
                     ELSE [field EXCEPT ![Cleared[Current(t).kind]] = None]
  BY DEF Confirm, NotCreated
<1>g. /\ field' \in [Kinds -> 0 .. drawn]
      /\ \A k \in Kinds : field'[k] \in {field[k], None}
      /\ \/ field' = field /\ uuid = job[t].uuid
         \/ /\ uuid = None
            /\ Current(t).kind = "segment" => field'["segment"] = None
            /\ Current(t).kind \in {"family", "class"} =>
                  field'["segment"] = field["segment"] /\ field'["family"] = None
  <2> HIDE DEF uuid
  <2> QED BY <1>b, <1>f, UpFacts DEF IInv, TypeOK, Kinds
<1>u. UNCHANGED <<drawn, cats, requests, saved, deleted, aborted, overlapped>>
  BY DEF Confirm
<1> HIDE DEF uuid
<1>1. TypeOK'
  BY <1>d, <1>e, <1>g, <1>u DEF IInv, TypeOK
<1>2. JobsTyped'
  BY <1>e, <1>u DEF JobsTyped
<1>3. ASSUME NEW s \in Threads
      PROVE  Shape(s)'
  <2>1. CASE s = t
    BY <1>e, <2>1
  <2>2. CASE s # t
    <3>1. pc'[s] = pc[s] /\ job'[s] = job[s] /\ Current(s)' = Current(s)
      BY <1>e, <2>2
    <3> QED BY <3>1 DEF IInv, Shape
  <2> QED BY <2>1, <2>2
<1>4. KindsKept'
  <2>1. PICK h \in [Nat -> Kinds] : Fits(h)
    BY DEF IInv, KindsKept
  <2>2. Fits(h)'
    <3>1. \A k \in Kinds : field'[k] # None => h[field'[k]] = k
      BY <1>g, <2>1 DEF Fits
    <3>2. ASSUME NEW s \in Threads, pc'[s] # "idle"
          PROVE  /\ job'[s].uuid # None => h[job'[s].uuid] = Current(s)'.kind
                 /\ job'[s].parent # None => Current(s)'.kind \in DOMAIN Up
                                           /\ h[job'[s].parent] = Up[Current(s)'.kind]
      BY <1>e, <2>1, <3>2 DEF Fits
    <3> QED BY <1>u, <2>1, <3>1, <3>2 DEF Fits
  <2> QED BY <2>1, <2>2 DEF KindsKept
<1>5. OneAtATime'
  BY <1>a, <1>e, <1>u DEF IInv, OneAtATime
<1>6. FieldsGood'
  <2>1. ~overlapped => \A k \in {"segment", "family"} : Good(field[k]) \/ field'[k] = None
    BY <1>a, <1>b, <1>g, UpFacts DEF IInv, OneAtATime, FieldsGood, Good, Kinds, Confirm
  <2> QED BY <1>g, <1>u, <2>1 DEF FieldsGood, Good, Kinds
<1>7. ASSUME NEW s \in Threads
      PROVE  InHand(s)'
  <2>1. CASE s = t
    BY <1>e, <2>1 DEF InHand
  <2>2. CASE s # t
    BY <1>a, <1>e, <1>u, <2>2 DEF IInv, OneAtATime, InHand
  <2> QED BY <2>1, <2>2
<1>8. ASSUME NEW s \in Threads
      PROVE  Lined(s)'
  <2>1. CASE s = t
    <3>1. SUFFICES ASSUME ~overlapped
                   PROVE  Lined(t)'
      BY <1>u, <2>1 DEF Lined
    <3>2. InHand(t) /\ Lined(t) /\ made[t] \in [segment : 0 .. drawn, family : 0 .. drawn]
      BY DEF IInv, JobsTyped
    <3>3. CASE pc'[t] = "idle"
      BY <1>e, <3>3 DEF Lined
    <3>4. CASE pc'[t] = "element" /\ Current(t).kind = "segment"
      BY <1>a, <1>d, <1>e, <1>g, <3>1, <3>2, <3>4 DEF Lined, InHand, Confirm
    <3>5. CASE pc'[t] = "element" /\ Current(t).kind = "family"
      BY <1>a, <1>d, <1>e, <1>f, <1>g, <3>1, <3>2, <3>5, UpFacts DEF Lined, InHand, Confirm
    <3>6. CASE pc'[t] = "element" /\ Current(t).kind = "class"
      BY <1>a, <1>d, <1>e, <1>f, <1>g, <3>1, <3>2, <3>6, UpFacts DEF Lined, InHand, Confirm
    <3> QED BY <1>e, <3>3, <3>4, <3>5, <3>6 DEF Kinds
  <2>2. CASE s # t
    BY <1>a, <1>e, <1>u, <2>2 DEF IInv, OneAtATime, Lined
  <2> QED BY <2>1, <2>2
<1>9. ParentsStored'
  BY <1>u DEF IInv, ParentsStored
<1>10. RightParents'
  BY <1>u DEF IInv, RightParents
<1> QED BY <1>1, <1>2, <1>3, <1>4, <1>5, <1>6, <1>7, <1>8, <1>9, <1>10 DEF IInv

LEMMA DeleteKeeps ==
    ASSUME IInv, NEW u \in 1 .. drawn, Delete(u)
    PROVE  IInv'
<1> USE BoundAssumption DEF None
<1>1. TypeOK'
  BY DEF IInv, TypeOK, JobsTyped, Kinds, Current, Elements, Plain, Delete
<1>2. JobsTyped'
  BY DEF IInv, TypeOK, JobsTyped, Kinds, Current, Delete
<1>3. ASSUME NEW s \in Threads
      PROVE  Shape(s)'
  BY DEF IInv, TypeOK, JobsTyped, Shape, Current, Delete
<1>4. KindsKept'
  <2>1. PICK h \in [Nat -> Kinds] : Fits(h)
    BY DEF IInv, KindsKept
  <2>2. \A s \in Threads : Current(s)' = Current(s)
    BY DEF Current, Delete
  <2>3. Fits(h)'
    BY <2>1, <2>2 DEF Fits, Delete
  <2> QED BY <2>1, <2>3 DEF KindsKept
<1>5. OneAtATime'
  BY DEF IInv, TypeOK, OneAtATime, Delete
<1>6. FieldsGood'
  BY DEF IInv, TypeOK, JobsTyped, OneAtATime, FieldsGood, Good, Current, Kinds, Delete
<1>7. ASSUME NEW s \in Threads
      PROVE  InHand(s)'
  BY DEF IInv, TypeOK, JobsTyped, OneAtATime, InHand, Good, Current, Kinds, Delete
<1>8. ASSUME NEW s \in Threads
      PROVE  Lined(s)'
  BY DEF IInv, TypeOK, JobsTyped, OneAtATime, Lined, Current, Kinds, Delete
<1>9. ParentsStored'
  BY DEF IInv, TypeOK, ParentsStored, InHand, Good, Delete
<1>10. RightParents'
  BY DEF IInv, TypeOK, RightParents, InHand, Lined, Delete
<1> QED BY <1>1, <1>2, <1>3, <1>4, <1>5, <1>6, <1>7, <1>8, <1>9, <1>10 DEF IInv

LEMMA InitHolds ==
    ASSUME Init
    PROVE  IInv
<1> USE BoundAssumption DEF None
<1>1. TypeOK /\ JobsTyped
  <2>1. NoJob \in [todo : ToDo, uuid : 0 .. drawn, parent : 0 .. drawn, id : 0 .. saved]
        /\ NoJob.uuid = None /\ NoJob.parent = None
        /\ NoneMade \in [segment : 0 .. drawn, family : 0 .. drawn]
    BY DEF Init, NoJob, NoneMade, ToDo
  <2>2. JobsTyped
    BY <2>1 DEF Init, JobsTyped
  <2>3. \A t \in Threads : job[t].uuid \in 0 .. drawn /\ job[t].parent \in 0 .. drawn
    BY <2>1 DEF Init
  <2>4. drawn = 0 /\ requests = 0 /\ saved = 0 /\ cats = {} /\ deleted = {} /\ aborted = {}
    BY DEF Init
  <2>5. /\ field \in [Kinds -> 0 .. drawn]
        /\ pc \in [Threads -> {"idle", "element", "draw", "uuid", "parent", "query", "save", "confirm"}]
    BY DEF Init
  <2>6. /\ drawn \in Nat /\ requests \in 0 .. MaxRequests /\ saved \in Nat
        /\ deleted \subseteq 1 .. drawn /\ aborted \subseteq 0 .. drawn
    BY <2>4
  <2>8. overlapped \in BOOLEAN
    BY DEF Init
  <2>7. \A S : cats \subseteq S
    BY <2>4
  <2> QED BY <2>2, <2>3, <2>5, <2>6, <2>7, <2>8 DEF TypeOK, JobsTyped
<1>2. \A t \in Threads : Shape(t) /\ InHand(t) /\ Lined(t)
  BY DEF Init, Shape, InHand, Lined, NoneMade
<1>3. KindsKept
  <2>1. [n \in Nat |-> "segment"] \in [Nat -> Kinds]
    BY DEF Kinds
  <2>2. Fits([n \in Nat |-> "segment"])
    BY DEF Init, Fits
  <2> QED BY <2>1, <2>2 DEF KindsKept
<1>4. OneAtATime /\ ParentsStored /\ RightParents
  BY DEF Init, OneAtATime, ParentsStored, RightParents
<1>5. FieldsGood
  BY DEF Init, FieldsGood, Good, Kinds
<1> QED BY <1>1, <1>2, <1>3, <1>4, <1>5 DEF IInv

LEMMA NextKeeps ==
    ASSUME IInv, [Next]_vars
    PROVE  IInv'
<1>1. CASE \E t \in Threads : Request(t)
  <2>1. PICK t \in Threads : Request(t)
    BY <1>1
  <2> QED BY <2>1, ImportKeeps, CreateKeeps DEF Request
<1>2. CASE \E t \in Threads : Work(t)
  <2>1. PICK t \in Threads : Work(t)
    BY <1>2
  <2> QED BY <2>1, SkipKeeps, EnterKeeps, DrawKeeps, SetUuidKeeps, SetParentUuidKeeps, NewKeeps,
             ThrowKeeps, RefuseKeeps, SaveKeeps, ConfirmKeeps DEF Work
<1>3. CASE \E u \in 1 .. drawn : Delete(u)
  BY <1>3, DeleteKeeps
<1>4. CASE UNCHANGED vars
  <2> USE <1>4 DEF vars
  <2>1. TypeOK' /\ JobsTyped'
    BY DEF IInv, TypeOK, JobsTyped
  <2>6. \A t \in Threads : Shape(t)' /\ Lined(t)'
    BY DEF IInv, Shape, Lined, Current
  <2>7. \A t \in Threads : InHand(t)'
    BY DEF IInv, InHand, Current, Good
  <2>2. \A t \in Threads : Shape(t)' /\ InHand(t)' /\ Lined(t)'
    BY <2>6, <2>7
  <2>3. KindsKept'
    BY DEF IInv, KindsKept, Fits, Current
  <2>4. OneAtATime' /\ FieldsGood'
    BY DEF IInv, OneAtATime, FieldsGood, Good, Current
  <2>5. ParentsStored' /\ RightParents'
    BY DEF IInv, ParentsStored, RightParents
  <2> QED BY <2>1, <2>2, <2>3, <2>4, <2>5 DEF IInv
<1> QED BY <1>1, <1>2, <1>3, <1>4 DEF Next, Quiet

LEMMA Invariance == Spec => []IInv
  BY InitHolds, NextKeeps, PTL DEF Spec

-----------------------------------------------------------------------------
\* The value of every variable has its type, whatever the documents say.
THEOREM CategoryTypes == Spec => []TypeOK
  BY Invariance, PTL DEF IInv

\* A uuid is drawn for one kind, and what the fields mix up when imports run
\* together is never the kind: a parent that is stored is of the kind above.
THEOREM ParentsAreOneKindUp == Spec => []ParentsOneKindUp
<1>1. IInv => ParentsOneKindUp
  <2> SUFFICES ASSUME IInv, NEW c \in cats, NEW d \in cats, c.parent # None, d.uuid = c.parent
               PROVE  d.kind = Up[c.kind]
    BY DEF ParentsOneKindUp
  <2> QED BY DEF IInv, KindsKept, Fits
<1> QED BY <1>1, Invariance, PTL

\* Imports one after the other put a family under its segment and a class under
\* its family, unless the segment of the class was refused.
THEOREM ParentsAreRight == Spec => []RightParents
  BY Invariance, PTL DEF IInv

\* Without imports at the same time, a parent is stored or was deleted, however
\* many categories the documents repeat, unless an exception ended its import.
THEOREM ParentsAreStored == Spec => []ParentsStored
  BY Invariance, PTL DEF IInv

-----------------------------------------------------------------------------
(***************************************************************************)
(* Copies.  A session decides to save a code when none is stored, and from *)
(* then on nobody else decides so once it has saved: of those that have    *)
(* decided, each turns one place of a session into one category.  What is  *)
(* bounded is both together.                                               *)
(***************************************************************************)
Stored(code) == {c \in cats : c.code = code}
Saving(code) == {t \in Threads : pc[t] = "save" /\ Current(t).code = code}

CInv == IsFiniteSet(cats) /\ CopiesBounded

LEMMA Counted ==
    ASSUME IsFiniteSet(cats), NEW code
    PROVE  /\ IsFiniteSet(Stored(code)) /\ Cardinality(Stored(code)) \in Nat
           /\ IsFiniteSet(Saving(code)) /\ Cardinality(Saving(code)) \in Nat
           /\ Cardinality(Saving(code)) <= Cardinality(Threads)
<1>1. Stored(code) \in SUBSET cats /\ Saving(code) \in SUBSET Threads
  BY DEF Stored, Saving
<1>2. IsFiniteSet(Stored(code))
  BY <1>1, FS_Subset
<1>3. IsFiniteSet(Saving(code)) /\ Cardinality(Saving(code)) <= Cardinality(Threads)
  BY <1>1, FS_Subset, ThreadsAssumption
<1> QED BY <1>2, <1>3, FS_CardinalityType

\* A step that neither stores a category nor decides to.
LEMMA NoMoreCopies ==
    ASSUME CInv, cats' \subseteq cats,
           \A t \in Threads : pc'[t] = "save" => pc[t] = "save" /\ job'[t] = job[t]
    PROVE  CInv'
<1>1. IsFiniteSet(cats) /\ IsFiniteSet(cats')
  <2>1. IsFiniteSet(cats) /\ cats' \in SUBSET cats
    BY DEF CInv
  <2> QED BY <2>1, FS_Subset
<1>2. ASSUME NEW code \in Codes
      PROVE  Cardinality(Stored(code)') + Cardinality(Saving(code)') <= Cardinality(Threads)
  <2> DEFINE a == Stored(code)
             b == Saving(code)
             c == Stored(code)'
             d == Saving(code)'
  <2>1. c \in SUBSET a /\ d \in SUBSET b
    BY DEF Stored, Saving, Current
  <2>2. /\ IsFiniteSet(a) /\ Cardinality(a) \in Nat
        /\ IsFiniteSet(b) /\ Cardinality(b) \in Nat
    BY <1>1, Counted
  <2>3. Cardinality(a) + Cardinality(b) <= Cardinality(Threads)
    BY DEF CInv, CopiesBounded, Stored, Saving
  <2>4. Cardinality(Threads) \in Nat
    BY FS_CardinalityType, ThreadsAssumption
  <2> HIDE DEF a, b, c, d
  <2>5. IsFiniteSet(c) /\ Cardinality(c) <= Cardinality(a)
        /\ IsFiniteSet(d) /\ Cardinality(d) <= Cardinality(b)
    BY <2>1, <2>2, FS_Subset
  <2>6. Cardinality(c) \in Nat /\ Cardinality(d) \in Nat
    BY <2>5, FS_CardinalityType
  <2>7. Cardinality(c) + Cardinality(d) <= Cardinality(Threads)
    BY <2>2, <2>3, <2>4, <2>5, <2>6
  <2> QED BY <2>7 DEF c, d
<1> QED BY <1>1, <1>2 DEF CInv, CopiesBounded, Stored, Saving

\* A session decides to save: of its code nothing is stored.
LEMMA DecisionsCounted ==
    ASSUME IInv, CInv, NEW t \in Threads, New(t)
    PROVE  CInv'
<1>1. /\ cats' = cats /\ job' = job /\ SameCode(t) = {}
      /\ \A s \in Threads : pc'[s] = IF s = t THEN "save" ELSE pc[s]
  <2>1. pc \in [Threads -> {"idle", "element", "draw", "uuid", "parent", "query", "save", "confirm"}]
    BY DEF IInv, TypeOK
  <2> QED BY   <2>1 DEF New, Goto
<1>2. IsFiniteSet(cats)
  BY DEF CInv
<1>3. ASSUME NEW code \in Codes
      PROVE  Cardinality(Stored(code)') + Cardinality(Saving(code)') <= Cardinality(Threads)
  <2>1. CASE code = Current(t).code
    <3>1. Stored(code)' = {}
      BY <1>1, <2>1 DEF Stored, SameCode
    <3>2. Saving(code)' \in SUBSET Threads
      BY DEF Saving
    <3>3. Cardinality(Saving(code)') \in Nat /\ Cardinality(Saving(code)') <= Cardinality(Threads)
      BY <3>2, FS_Subset, FS_CardinalityType, ThreadsAssumption
    <3> QED BY <3>1, <3>3, FS_EmptySet
  <2>2. CASE code # Current(t).code
    <3>1. Stored(code)' = Stored(code) /\ Saving(code)' = Saving(code)
      BY <1>1, <2>2 DEF Stored, Saving, Current
    <3> QED BY <3>1 DEF CInv, CopiesBounded, Stored, Saving
  <2> QED BY <2>1, <2>2
<1> QED BY <1>1, <1>2, <1>3 DEF CInv, CopiesBounded, Stored, Saving

\* A decision becomes a category.
LEMMA SavesCounted ==
    ASSUME IInv, CInv, NEW t \in Threads, Save(t)
    PROVE  CInv'
<1>1. PICK new : cats' = cats \cup {new} /\ new.code = Current(t).code
  <2>1. PICK new : new =
          [id |-> saved', uuid |-> job[t].uuid, code |-> Current(t).code, kind |-> Current(t).kind,
           parent |-> job[t].parent, meant |-> Meant(t), root |-> made[t].segment]
    OBVIOUS
  <2>2. cats' = cats \cup {new}
    BY <2>1 DEF Save
  <2>3. new.code = Current(t).code
    BY <2>1
  <2> QED BY <2>2, <2>3
<1>2. /\ pc[t] = "save" /\ pc'[t] # "save"
      /\ \A s \in Threads \ {t} : pc'[s] = pc[s] /\ job'[s] = job[s]
  <2>1. /\ pc[t] = "save" /\ pc' = [pc EXCEPT ![t] = "confirm"]
        /\ job' = [job EXCEPT ![t].id = saved']
    BY DEF Save, Goto
  <2>2. /\ pc \in [Threads -> {"idle", "element", "draw", "uuid", "parent", "query", "save", "confirm"}]
        /\ job \in [Threads -> [todo : ToDo, uuid : 0 .. drawn, parent : 0 .. drawn, id : 0 .. saved]]
    BY DEF IInv, TypeOK, JobsTyped
  <2>3. \A s \in Threads \ {t} : job'[s] = job[s]
    BY <2>1, <2>2
  <2> QED BY <2>1, <2>2, <2>3
<1>3. IsFiniteSet(cats) /\ IsFiniteSet(cats')
  <2>1. IsFiniteSet(cats)
    BY DEF CInv
  <2>2. \A x : IsFiniteSet(cats \cup {x})
    BY <2>1, FS_AddElement
  <2> QED BY <1>1, <2>1, <2>2
<1>4. ASSUME NEW code \in Codes
      PROVE  Cardinality(Stored(code)') + Cardinality(Saving(code)') <= Cardinality(Threads)
  <2> DEFINE a == Stored(code)
             b == Saving(code)
             c == Stored(code)'
             d == Saving(code)'
  <2>1. /\ IsFiniteSet(a) /\ Cardinality(a) \in Nat
        /\ IsFiniteSet(b) /\ Cardinality(b) \in Nat
    BY <1>3, Counted
  <2>2. Cardinality(a) + Cardinality(b) <= Cardinality(Threads)
    BY DEF CInv, CopiesBounded, Stored, Saving
  <2>3. ASSUME code = Current(t).code
        PROVE  Cardinality(c) + Cardinality(d) <= Cardinality(Threads)
    <3>1. c = a \cup {new} /\ d = b \ {t} /\ t \in b
      BY <1>1, <1>2, <2>3 DEF Stored, Saving, Current
    <3> HIDE DEF a, b, c, d
    <3>2. Cardinality(c) \in {Cardinality(a), Cardinality(a) + 1}
      <4>1. \A x : Cardinality(a \cup {x}) \in {Cardinality(a), Cardinality(a) + 1}
        BY <2>1, FS_AddElement
      <4> QED BY <3>1, <4>1
    <3>3. Cardinality(d) = Cardinality(b) - 1
      BY <2>1, <3>1, FS_RemoveElement
    <3>4. Cardinality(Threads) \in Nat
      BY FS_CardinalityType, ThreadsAssumption
    <3> QED BY <2>1, <2>2, <3>2, <3>3, <3>4
  <2>4. ASSUME code # Current(t).code
        PROVE  Cardinality(c) + Cardinality(d) <= Cardinality(Threads)
    <3>1. c = a /\ d = b
      BY <1>1, <1>2, <2>4 DEF Stored, Saving, Current
    <3> HIDE DEF a, b, c, d
    <3> QED BY <2>2, <3>1
  <2>5. Cardinality(c) + Cardinality(d) <= Cardinality(Threads)
    BY <2>3, <2>4
  <2> QED BY <2>5
<1> QED BY <1>3, <1>4 DEF CInv, CopiesBounded, Stored, Saving

LEMMA CopiesKept ==
    ASSUME IInv, CInv, [Next]_vars
    PROVE  CInv'
<1>1. /\ pc \in [Threads -> {"idle", "element", "draw", "uuid", "parent", "query", "save", "confirm"}]
      /\ job \in [Threads -> [todo : ToDo, uuid : 0 .. drawn, parent : 0 .. drawn, id : 0 .. saved]]
  BY DEF IInv, TypeOK, JobsTyped
<1>2. ASSUME NEW t \in Threads, Request(t) PROVE CInv'
  <2>1. cats' = cats /\ \A s \in Threads : pc'[s] = "save" => pc[s] = "save" /\ job'[s] = job[s]
    BY <1>1, <1>2 DEF Request, Import, Create, Begin, Goto
  <2> QED BY <2>1, NoMoreCopies
<1>3. ASSUME NEW t \in Threads, Work(t), ~New(t), ~Save(t) PROVE CInv'
  <2>1. cats' = cats
    BY <1>3 DEF Work, Skip, Enter, Draw, SetUuid, SetParentUuid, Throw, Refuse, Confirm
  <2>2. ASSUME NEW uuid, NextElement(t, uuid) PROVE
            \A s \in Threads : pc'[s] = "save" => pc[s] = "save" /\ job'[s] = job[s]
    BY <1>1, <2>2 DEF NextElement, End, Goto
  <2>3. \A s \in Threads : pc'[s] = "save" => pc[s] = "save" /\ job'[s] = job[s]
    <3>1. CASE Skip(t) \/ Refuse(t) \/ Confirm(t)
      BY <2>2, <3>1 DEF Skip, Refuse, Confirm, NotCreated
    <3>2. CASE Enter(t) \/ Draw(t) \/ SetUuid(t) \/ SetParentUuid(t)
      BY <1>1, <3>2 DEF Enter, Draw, SetUuid, SetParentUuid, Goto
    <3>3. CASE Throw(t)
      BY <1>1, <3>3 DEF Throw, End, Goto
    <3> QED BY <1>3, <3>1, <3>2, <3>3 DEF Work
  <2> QED BY <2>1, <2>3, NoMoreCopies
<1>4. ASSUME NEW u \in 1 .. drawn, Delete(u) PROVE CInv'
  BY <1>4, NoMoreCopies DEF Delete
<1>5. CASE UNCHANGED vars
  BY <1>5, NoMoreCopies DEF vars
<1> QED BY <1>2, <1>3, <1>4, <1>5, DecisionsCounted, SavesCounted DEF Next, Quiet

\* However many sessions import and create at once, the categories with a code
\* and the sessions about to save one are never more than the sessions: the
\* unlocked check-then-save of CategoryPersistenceImpl makes a code at most that
\* ambiguous, whatever is deleted in between.
THEOREM CopiesAreBounded == Spec => []CopiesBounded
<1>1. Init => CInv
  <2> SUFFICES ASSUME Init PROVE CInv
    OBVIOUS
  <2>1. IsFiniteSet(cats)
    BY FS_EmptySet DEF Init
  <2>2. ASSUME NEW code \in Codes PROVE Stored(code) = {} /\ Saving(code) = {}
    BY DEF Init, Stored, Saving
  <2>3. Cardinality({}) + Cardinality({}) <= Cardinality(Threads)
    BY FS_EmptySet, FS_CardinalityType, ThreadsAssumption
  <2> QED BY <2>1, <2>2, <2>3 DEF CInv, CopiesBounded, Stored, Saving
<1>2. IInv /\ CInv /\ [Next]_vars => CInv'
  BY CopiesKept
<1>3. CInv => CopiesBounded
  BY DEF CInv
<1> QED BY <1>1, <1>2, <1>3, Invariance, PTL DEF Spec
=============================================================================

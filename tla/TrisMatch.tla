----------------------------- MODULE TrisMatch -----------------------------
(***************************************************************************)
(* The matchmaker of the game of tris, GameTrisServiceImpl.match: a plain  *)
(* ArrayList of waiting clients, used by all request threads without a     *)
(* lock.  A step is one access to the fields of the list (its size, its    *)
(* array, an element of it), in the order add and remove(0) make them; so  *)
(* the races are those of the sequentially consistent executions.          *)
(***************************************************************************)
EXTENDS Integers, FiniteSets

CONSTANTS
    Threads,    \* request threads
    Clients,
    Capacity,   \* of the array the list allocates at its first add
    MaxRequests,  \* bound on the requests
    None        \* null

ASSUME CapacityAssumption == Capacity \in Nat /\ MaxRequests \in 0 .. Capacity

VARIABLES
    size,       \* ArrayList.size
    elems,      \* ArrayList.elementData, None while it is the empty array
    pc, client, \* per thread: where it stands, for which client
    stale,      \* per thread: its array was replaced since it read it
    index, got, \* per thread: the size it read, the waiting client it took
    \* history
    requests,   \* number of requests so far
    pairs,      \* pairs answered as MATCHED
    raced       \* TRUE once two requests were in match at the same time

list    == <<size, elems>>
locals  == <<pc, client, stale, index, got>>
history == <<requests, pairs, raced>>
vars    == <<list, locals, history>>

Slots == 0 .. Capacity - 1
Empty == [i \in Slots |-> None]

\* null is neither a client nor an array.
ASSUME NoneAssumption == None \notin Clients /\ None \notin [Slots -> Clients \cup {None}]

Idle(t) == pc[t] = "idle"
Goto(t, label) == pc' = [pc EXCEPT ![t] = label]

\* The request ends, with an answer or an exception.
Done(t) ==
    /\ Goto(t, "idle")
    /\ client' = [client EXCEPT ![t] = None]
    /\ stale' = [stale EXCEPT ![t] = FALSE]
    /\ index' = [index EXCEPT ![t] = 0]
    /\ got' = [got EXCEPT ![t] = None]

Init ==
    /\ size = 0 /\ elems = None
    /\ pc = [t \in Threads |-> "idle"]
    /\ client = [t \in Threads |-> None]
    /\ stale = [t \in Threads |-> FALSE]
    /\ index = [t \in Threads |-> 0]
    /\ got = [t \in Threads |-> None]
    /\ requests = 0 /\ pairs = {} /\ raced = FALSE

match(t, c) ==
    /\ Idle(t) /\ requests < MaxRequests
    /\ Goto(t, "check")
    /\ client' = [client EXCEPT ![t] = c]
    /\ requests' = requests + 1
    /\ raced' = (raced \/ \E s \in Threads : ~Idle(s))
    /\ UNCHANGED <<list, stale, index, got, pairs>>

\* Mutant: two clients may wait.
CheckLate(t) ==
    /\ pc[t] = "check"
    /\ Goto(t, IF size < 2 THEN "add" ELSE "remove")
    /\ UNCHANGED <<list, client, stale, index, got, history>>

\* if (waitingClientIds.size() == 0)
Check(t) ==
    /\ pc[t] = "check"
    /\ Goto(t, IF size = 0 THEN "add" ELSE "remove")
    /\ UNCHANGED <<list, client, stale, index, got, history>>

-----------------------------------------------------------------------------
\* waitingClientIds.add(clientId)

\* The first add allocates the array; it copies the empty one.
Grow(t) ==
    /\ pc[t] = "add"
    /\ Goto(t, IF elems = None THEN "install" ELSE "array")
    /\ UNCHANGED <<list, client, stale, index, got, history>>

Install(t) ==
    /\ pc[t] = "install"
    /\ elems' = Empty
    /\ stale' = [s \in Threads |-> stale[s] \/ pc[s] \in {"index", "bump", "store"}]
    /\ Goto(t, "array")
    /\ UNCHANGED <<size, client, index, got, history>>

\* elementData[size++] = clientId reads the array, reads the size, ...
ReadArray(t) ==
    /\ pc[t] = "array"
    /\ Goto(t, "index")
    /\ UNCHANGED <<list, client, stale, index, got, history>>

ReadSize(t) ==
    /\ pc[t] = "index"
    /\ index' = [index EXCEPT ![t] = size]
    /\ Goto(t, "bump")
    /\ UNCHANGED <<list, client, stale, got, history>>

\* ... writes the size, ...
Bump(t) ==
    /\ pc[t] = "bump"
    /\ size' = index[t] + 1
    /\ Goto(t, "store")
    /\ UNCHANGED <<elems, client, stale, index, got, history>>

\* ... and stores the element, into the array it read; the client waits.
Store(t) ==
    /\ pc[t] = "store"
    /\ elems' = IF stale[t] \/ index[t] < 0 THEN elems
                ELSE [elems EXCEPT ![index[t]] = client[t]]
    /\ Done(t)
    /\ UNCHANGED <<size, history>>

-----------------------------------------------------------------------------
\* waitingClientIds.remove(0)

\* Mutant: the size is not checked.
RangeUnchecked(t) ==
    /\ pc[t] = "remove"
    /\ Goto(t, "take")
    /\ UNCHANGED <<list, client, stale, index, got, history>>

\* rangeCheck(0): an exception ends the request.
RangeCheck(t) ==
    /\ pc[t] = "remove"
    /\ IF size <= 0
       THEN Done(t)
       ELSE Goto(t, "take") /\ UNCHANGED <<client, stale, index, got>>
    /\ UNCHANGED <<list, history>>

Take(t) ==
    /\ pc[t] = "take"
    /\ got' = [got EXCEPT ![t] = elems[0]]
    /\ Goto(t, "shift")
    /\ UNCHANGED <<list, client, stale, index, history>>

\* System.arraycopy of the size - 1 elements after the first
Shift(t) ==
    /\ pc[t] = "shift"
    /\ elems' = [i \in Slots |-> IF i < size - 1 THEN elems[i + 1] ELSE elems[i]]
    /\ Goto(t, "size")
    /\ UNCHANGED <<size, client, stale, index, got, history>>

\* elementData[--size] = null reads the size, ...
ReadSizeAgain(t) ==
    /\ pc[t] = "size"
    /\ index' = [index EXCEPT ![t] = size]
    /\ Goto(t, "drop")
    /\ UNCHANGED <<list, client, stale, got, history>>

\* ... writes it, ...
Drop(t) ==
    /\ pc[t] = "drop"
    /\ size' = index[t] - 1
    /\ Goto(t, "clear")
    /\ UNCHANGED <<elems, client, stale, index, got, history>>

\* ... and clears the element: below 0, an exception ends the request and the
\* size stays what it is.
Clear(t) ==
    /\ pc[t] = "clear"
    /\ IF index[t] - 1 \in Slots
       THEN /\ elems' = [elems EXCEPT ![index[t] - 1] = None]
            /\ pairs' = pairs \cup {<<got[t], client[t]>>}
       ELSE UNCHANGED <<elems, pairs>>
    /\ Done(t)
    /\ UNCHANGED <<size, requests, raced>>

Work(t) ==
    \/ Check(t)
    \/ Grow(t) \/ Install(t) \/ ReadArray(t) \/ ReadSize(t) \/ Bump(t) \/ Store(t)
    \/ RangeCheck(t) \/ Take(t) \/ Shift(t) \/ ReadSizeAgain(t) \/ Drop(t) \/ Clear(t)

Next == \E t \in Threads : (\E c \in Clients : match(t, c)) \/ Work(t)

Spec == Init /\ [][Next]_vars

-----------------------------------------------------------------------------
(***************************************************************************)
(* Properties                                                              *)
(***************************************************************************)

\* The value of every variable has its type; the size of the list, below 0 too,
\* is no further from 0 than there were requests, so that the array, once
\* allocated, is large enough for every element that is stored.
TypeOK ==
    /\ size \in -requests .. requests
    /\ elems \in [Slots -> Clients \cup {None}] \cup {None}
    /\ pc \in [Threads -> {"idle", "check", "add", "install", "array", "index", "bump",
                           "store", "remove", "take", "shift", "size", "drop", "clear"}]
    /\ client \in [Threads -> Clients \cup {None}]
    /\ stale \in [Threads -> BOOLEAN]
    /\ index \in [Threads -> -requests .. requests]
    /\ got \in [Threads -> Clients \cup {None}]
    /\ requests \in 0 .. MaxRequests
    /\ pairs \subseteq (Clients \cup {None}) \X Clients
    /\ raced \in BOOLEAN
    /\ \A t \in Threads : pc[t] = "store" => index[t] < Capacity

\* The size is below 0 and nobody is in the middle of an add or a remove(0).
Dead == size < 0 /\ \A t \in Threads : pc[t] \in {"idle", "check", "remove"}

\* Races can take the size below 0: from then on every later request ends with
\* an exception.  None of them changes the list, none is paired with nobody.
DeadForever == [][Dead => Dead' /\ UNCHANGED <<list, pairs>>]_vars

\* The client the list holds out for the next one to subscribe.
Taking  == {t \in Threads : pc[t] \in {"shift", "size", "drop", "clear"}}
Waiting == IF Taking # {} THEN got[CHOOSE t \in Taking : TRUE]
           ELSE IF size > 0 /\ elems # None THEN elems[0] ELSE None

Promise == INSTANCE Pairing WITH waiting <- Waiting, void <- raced

\* As long as no two requests are in match at the same time, clients are paired
\* two by two in the order they come, none waits while another does, and none
\* is paired twice for one request.
SerialPairing == Promise!Spec
=============================================================================

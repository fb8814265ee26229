--------------------------- MODULE UserLifecycle ---------------------------
(***************************************************************************)
(* The users: UserServiceImpl, its Mongo persistence and the requests that *)
(* reach them.  Whatever writes a user first looks for it by each of its   *)
(* attributes in turn, and goes on if the answers are one user; nothing    *)
(* locks.  A step is one database call.                                    *)
(***************************************************************************)
EXTENDS Naturals

CONSTANTS
    Threads,     \* requests, shell sessions and clients, one thing at a time each
    Usernames, Emails, FirstNames,
    Passwords,   \* a password stands for its salted hash
    MaxUsers,    \* bound on the requests that may create a user
    None         \* null

\* What getUser is called for: addUser, updateUser, validateIdentificatorAndGetUser,
\* the updateUser of changePassword, deleteUser, loginByOAuth2.
Operations == {"add", "update", "identify", "password", "delete", "oauth"}

ASSUME MaxUsersAssumption == MaxUsers \in Nat
\* The nth request to create a user draws uuid n, and would save it as _id n.
Uuids == 1 .. MaxUsers
Ids   == 1 .. MaxUsers

\* The mobile is one more email, the last name one more first name; the area
\* and attributes of a user are written along with the rest and never looked for.
Users == [uuid      : Uuids \cup {None},     username : Usernames \cup {None},
          email     : Emails \cup {None},    firstName : FirstNames \cup {None},
          password  : Passwords \cup {None}]

ASSUME NoneAssumption ==
    None \notin Usernames \cup Emails \cup FirstNames \cup Passwords \cup Nat
               \cup Operations \cup Users

NoUser == [uuid |-> None, username |-> None, email |-> None,
           firstName |-> None, password |-> None]

VARIABLES
    creations,  \* how many requests may have created a user
    registry,   \* uuids drawn; none is ever given back
    users,      \* the collection: per _id, the user or None
    pc,         \* per thread: where it stands
    job,        \* per thread: the request, see NoJob
    \* history
    gone,       \* uuids whose user was deleted or given another uuid
    meant,      \* per _id: the password last chosen for it
    stale,      \* threads whose copy of a user is older than its password
    reverted,   \* users written from such a copy, or from one of another user
    overlapped  \* two requests were under way at the same time

history == <<gone, meant, stale, reverted, overlapped>>
vars == <<creations, registry, users, pc, job, history>>

NoJob == [op     |-> None,    \* one of Operations
          id     |-> None,    \* the _id it would save
          user   |-> NoUser,  \* the User object in hand
          origin |-> None,    \* the _id of the user that is a copy of
          todo   |-> {},      \* the attributes getUser has yet to look for
          found  |-> None,    \* the _id of the first user found
          match  |-> NoUser,  \* and what was found
          many   |-> FALSE]   \* TRUE if another one was found

Init ==
    /\ creations = 0 /\ registry = {} /\ users = [i \in Ids |-> None]
    /\ pc = [t \in Threads |-> "idle"] /\ job = [t \in Threads |-> NoJob]
    /\ gone = {} /\ meant = [i \in Ids |-> None]
    /\ stale = {} /\ reverted = {} /\ overlapped = FALSE

Goto(t, label) == pc' = [pc EXCEPT ![t] = label]

\* The answer to the client, or the exception that ends the request.
End(t) == Goto(t, "idle") /\ job' = [job EXCEPT ![t] = NoJob]

Attributes == {"uuid", "username", "email", "firstName"}

\* Mutants of KeysOf: the email is not looked for; nor is the uuid.
KeysButEmail(user) == {k \in {"uuid", "username"} : user[k] # None}
KeysConstrained(user) == {k \in {"username", "email"} : user[k] # None}

\* What getUser(User) looks for: no names of persons.
KeysOf(user) == {k \in Attributes \ {"firstName"} : user[k] # None}

Having(key, value) == {i \in Ids : users[i] # None /\ users[i][key] = value}

-----------------------------------------------------------------------------
(***************************************************************************)
(* getUser: a findOne per attribute, in this order.  Users are told apart  *)
(* by their uuids, and those without one are all told apart, even a user   *)
(* from itself.                                                            *)
(***************************************************************************)
Rank == [uuid |-> 1, username |-> 2, email |-> 3, firstName |-> 4]
NextKey(todo) == CHOOSE k \in todo : \A l \in todo : Rank[k] <= Rank[l]

\* Only loginByOAuth2 makes use of more than the _id and the uuid of a match.
Match(operation, d) == IF operation = "oauth" THEN d ELSE [NoUser EXCEPT !.uuid = d.uuid]

\* What the next findOne can make of a request.
Looked(j) ==
    LET k    == NextKey(j.todo)
        rest == [j EXCEPT !.todo = @ \ {k}]
        hits == Having(k, j.user[k])
    IN  IF hits = {} THEN {rest}
        ELSE IF j.found = None
        THEN {[rest EXCEPT !.found = i, !.match = Match(j.op, users[i])] : i \in hits}
        ELSE {[rest EXCEPT !.many = @ \/ users[i].uuid = None \/ users[i].uuid # j.match.uuid] :
                 i \in hits}

Query(t) ==
    /\ pc[t] = "query" /\ job[t].todo # {}
    /\ \E j \in Looked(job[t]) : job' = [job EXCEPT ![t] = j]
    /\ UNCHANGED <<creations, registry, users, pc, history>>

-----------------------------------------------------------------------------
(***************************************************************************)
(* The requests.  Each but the reading of a form is a getUser first.       *)
(***************************************************************************)
Begin(t, j) ==
    /\ IF j.todo = {}
       THEN Goto(t, "idle") /\ job' = [job EXCEPT ![t] = NoJob]
       ELSE Goto(t, "query") /\ \E looked \in Looked(j) : job' = [job EXCEPT ![t] = looked]
    /\ overlapped' = (overlapped \/ \E s \in Threads \ {t} : pc[s] \notin {"idle", "form"})

\* createUser.  Nobody has the uuid it draws, so that is not looked for.
CreateUser(t, user) ==
    /\ pc[t] = "idle" /\ creations < MaxUsers
    /\ creations' = creations + 1
    /\ Begin(t, [NoJob EXCEPT !.op = "add", !.id = creations',
                              !.user = [user EXCEPT !.uuid = creations'],
                              !.todo = KeysOf(user)])
    /\ registry' = registry \cup {creations'}
    /\ UNCHANGED <<users, gone, meant, stale, reverted>>

\* updateUser with a few attributes: the shell, and setUserArea by the uuid.
UpdateUser(t, user) ==
    /\ pc[t] = "idle"
    /\ Begin(t, [NoJob EXCEPT !.op = "update", !.user = user, !.todo = KeysOf(user)])
    /\ UNCHANGED <<creations, registry, users, gone, meant, stale, reverted>>

\* A client reads a user (list), edits it ...
ReadForm(t, i, username) ==
    /\ pc[t] = "idle" /\ users[i] # None
    /\ Goto(t, "form")
    /\ job' = [job EXCEPT ![t] = [NoJob EXCEPT !.origin = i,
            !.user = [users[i] EXCEPT !.username = username]]]
    /\ UNCHANGED <<creations, registry, users, gone, meant, stale, reverted, overlapped>>

\* ... and posts the whole of it: updateUser.
PostForm(t) ==
    /\ pc[t] = "form"
    /\ Begin(t, [job[t] EXCEPT !.op = "update", !.todo = KeysOf(job[t].user)])
    /\ stale' = IF KeysOf(job[t].user) = {} THEN stale \ {t} ELSE stale
    /\ UNCHANGED <<creations, registry, users, gone, meant, reverted>>

\* changePassword looks for the user by what identifies it ...
ChangePassword(t, key, value, password) ==
    /\ pc[t] = "idle"
    /\ Begin(t, [NoJob EXCEPT !.op = "identify", !.todo = {key},
                              !.user = [NoUser EXCEPT ![key] = value, !.password = password]])
    /\ UNCHANGED <<creations, registry, users, gone, meant, stale, reverted>>

DeleteUser(t, user) ==
    /\ pc[t] = "idle"
    /\ Begin(t, [NoJob EXCEPT !.op = "delete", !.user = user, !.todo = KeysOf(user)])
    /\ UNCHANGED <<creations, registry, users, gone, meant, stale, reverted>>

\* loginByOAuth2 looks for the email and the names of a person.
LoginByOAuth2(t, user) ==
    /\ pc[t] = "idle" /\ creations < MaxUsers
    /\ creations' = creations + 1
    /\ Begin(t, [NoJob EXCEPT !.op = "oauth", !.id = creations', !.user = user,
                              !.todo = {k \in Attributes : user[k] # None}])
    /\ UNCHANGED <<registry, users, gone, meant, stale, reverted>>

-----------------------------------------------------------------------------
\* What comes next, once every attribute has been looked for.
Answered(t, operation) == pc[t] = "query" /\ job[t].todo = {} /\ job[t].op = operation
NoneFound(t) == job[t].found = None
OneFound(t)  == job[t].found # None /\ ~job[t].many

\* Existing, not existing, or more than one: nothing is written.
Refuse(t) ==
    /\ \/ Answered(t, "add") /\ ~NoneFound(t)
       \/ Answered(t, "oauth") /\ job[t].many
       \/ \E operation \in {"update", "password", "delete", "identify"} :
              Answered(t, operation) /\ ~OneFound(t)
       \/ Answered(t, "identify") /\ job[t].match.uuid = None
    /\ End(t)
    /\ stale' = stale \ {t}
    /\ UNCHANGED <<creations, registry, users, gone, meant, reverted, overlapped>>

-----------------------------------------------------------------------------
(***************************************************************************)
(* The writes.  A user that is gone by now is not written: no upsert.      *)
(***************************************************************************)
\* addUser saves, and reads what it has saved.
Save(t) ==
    /\ Answered(t, "add") /\ NoneFound(t)
    /\ LET j == job[t] IN
        /\ users' = [users EXCEPT ![j.id] = j.user]
        /\ meant' = [meant EXCEPT ![j.id] = j.user.password]
    /\ End(t)
    /\ UNCHANGED <<creations, registry, gone, stale, reverted, overlapped>>

\* A mutant of Written: nulls are written, too.
WrittenWhole(d, user) == user

\* $set writes what is not null.
Written(d, user) == [k \in DOMAIN d |-> IF user[k] # None THEN user[k] ELSE d[k]]

\* Threads whose copy is of the user with _id i.
CopiedFrom(i) ==
    {s \in Threads : job[s].origin = i \/ (job[s].op = "oauth" /\ job[s].found = i)}

\* History of a write of the user with _id i by t, from a copy of another one.
Wrote(t, i, source) ==
    /\ gone' = IF users'[i].uuid # users[i].uuid THEN gone \cup ({users[i].uuid} \ {None}) ELSE gone
    /\ IF job[t].op = "password"
       THEN /\ meant' = [meant EXCEPT ![i] = job[t].user.password]
            /\ stale' = (stale \cup CopiedFrom(i)) \ {t}
            /\ reverted' = reverted \ {i}
       ELSE /\ stale' = stale \ {t}
            /\ reverted' = IF job[t].user.password # None /\ (source # i \/ t \in stale)
                           THEN reverted \cup {i} ELSE reverted
            /\ UNCHANGED meant

Unwritten(t) == stale' = stale \ {t} /\ UNCHANGED <<users, gone, meant, reverted>>

\* updateUser, of the user found whatever its uuid.
Set(t, operation) ==
    /\ Answered(t, operation) /\ OneFound(t)
    /\ LET i == job[t].found IN
        IF users[i] # None
        THEN /\ users' = [users EXCEPT ![i] = Written(@, job[t].user)]
             /\ Wrote(t, i, job[t].origin)
        ELSE Unwritten(t)
    /\ End(t)
    /\ UNCHANGED <<creations, registry, overlapped>>

\* changePassword: the user is read again, by its uuid.
Load(t) ==
    /\ Answered(t, "identify") /\ OneFound(t) /\ job[t].match.uuid # None
    /\ LET hits == Having("uuid", job[t].match.uuid) IN
        \/ hits = {} /\ End(t)
        \/ \E i \in hits :
              LET user == [users[i] EXCEPT !.password = job[t].user.password] IN
              /\ job' = [job EXCEPT ![t] = [NoJob EXCEPT !.op = "password", !.user = user,
                                                          !.todo = KeysOf(user)]]
              /\ UNCHANGED pc
    /\ UNCHANGED <<creations, registry, users, history>>

Remove(t) ==
    /\ Answered(t, "delete") /\ OneFound(t)
    /\ LET i == job[t].found IN
        /\ users' = [users EXCEPT ![i] = None]
        /\ gone' = IF users[i] # None THEN gone \cup ({users[i].uuid} \ {None}) ELSE gone
    /\ End(t)
    /\ UNCHANGED <<creations, registry, meant, stale, reverted, overlapped>>

\* Not registered yet: addUser, which looks for the user again and knows no uuid.
Register(t) ==
    /\ Answered(t, "oauth") /\ NoneFound(t)
    /\ job' = [job EXCEPT ![t].op = "add", ![t].todo = KeysOf(job[t].user)]
    /\ UNCHANGED <<creations, registry, users, pc, history>>

\* What the user found lacks.
Completed(d, user) == [k \in DOMAIN d |-> IF d[k] = None THEN user[k] ELSE d[k]]

\* updateUserbyOAuth2 replaces the document by what was found, completed.
Replace(t) ==
    /\ Answered(t, "oauth") /\ OneFound(t)
    /\ LET i == job[t].found
           d == Completed(job[t].match, job[t].user)
       IN IF users[i] # None
          THEN /\ users' = [users EXCEPT ![i] = d]
               /\ gone' = IF d.uuid # users[i].uuid THEN gone \cup ({users[i].uuid} \ {None}) ELSE gone
               /\ reverted' = IF t \in stale THEN reverted \cup {i} ELSE reverted
               /\ stale' = stale \ {t} /\ UNCHANGED meant
          ELSE Unwritten(t)
    /\ End(t)
    /\ UNCHANGED <<creations, registry, overlapped>>

-----------------------------------------------------------------------------
\* Who is asked for: by username or email, or both.
Persons == [uuid : {None}, username : Usernames \cup {None}, email : Emails \cup {None},
            firstName : {None}, password : {None}] \ {NoUser}

\* A uuid is known to clients once its user is listed.
Known(i) == users[i] # None /\ users[i].uuid # None

Request(t) ==
    \/ \E who \in Persons, p \in Passwords : CreateUser(t, [who EXCEPT !.password = p])
    \/ \E who \in Persons : UpdateUser(t, who)
    \/ \E i \in Ids : Known(i) /\ UpdateUser(t, [NoUser EXCEPT !.uuid = users[i].uuid])
    \/ \E i \in Ids, n \in Usernames \cup {None} : ReadForm(t, i, n)
    \/ PostForm(t)
    \/ \E who \in Persons, k \in {"username", "email"}, p \in Passwords :
            who[k] # None /\ ChangePassword(t, k, who[k], p)
    \/ \E who \in Persons : DeleteUser(t, who)
    \/ \E e \in Emails, f \in FirstNames :
            LoginByOAuth2(t, [NoUser EXCEPT !.email = e, !.firstName = f])

Work(t) ==
    \/ Query(t)
    \/ Refuse(t)
    \/ Save(t)
    \/ \E operation \in {"update", "password"} : Set(t, operation)
    \/ Load(t)
    \/ Remove(t)
    \/ Register(t)
    \/ Replace(t)

\* No request is in progress and no more come: a deadlock is a stuck request.
Quiet == (\A t \in Threads : pc[t] = "idle") /\ UNCHANGED vars

Next == (\E t \in Threads : Request(t) \/ Work(t)) \/ Quiet

Spec == Init /\ [][Next]_vars

-----------------------------------------------------------------------------
(***************************************************************************)
(* Properties                                                              *)
(***************************************************************************)

\* The value of every variable has its type.
TypeOK ==
    /\ creations \in 0 .. MaxUsers /\ registry \subseteq Uuids
    /\ users \in [Ids -> Users \cup {None}]
    /\ pc \in [Threads -> {"idle", "form", "query"}]
    /\ job \in [Threads -> [op : Operations \cup {None},
                            id : Ids \cup {None}, user : Users, origin : Ids \cup {None},
                            todo : SUBSET Attributes, found : Ids \cup {None},
                            match : Users, many : BOOLEAN]]
    /\ gone \subseteq Uuids /\ meant \in [Ids -> Passwords \cup {None}]
    /\ stale \subseteq Threads /\ reverted \subseteq Ids /\ overlapped \in BOOLEAN

\* As long as requests come one after the other, no two users share a uuid, a
\* username or an email, whatever forms are posted however late.
NoDuplicates ==
    ~overlapped => \A i, j \in Ids : i # j /\ users[i] # None /\ users[j] # None =>
        \A k \in Attributes \ {"firstName"} : users[i][k] = users[j][k] => users[i][k] = None

\* A user keeps the uuid it was created with (or its lack of one) unless a form
\* gives it the uuid of a user that is gone: never that of another one.
OwnUuid ==
    \A i \in Ids : users[i] # None =>
        \/ users[i].uuid = IF i \in registry THEN i ELSE None
        \/ users[i].uuid \in gone

\* A user has the password last chosen for it, by its creation or a change of
\* it, unless an older copy, or a copy of another user, was written over it.
PasswordsStay ==
    \A i \in Ids \ reverted : users[i] # None => users[i].password = meant[i]
=============================================================================

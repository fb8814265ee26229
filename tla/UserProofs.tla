----------------------------- MODULE UserProofs -----------------------------
(***************************************************************************)
(* Theorems about UserLifecycle, for any clients and any number of users.  *)
(***************************************************************************)
EXTENDS UserLifecycle, TLAPS

Jobs == [op : Operations \cup {None},
         id : Ids \cup {None}, user : Users, origin : Ids \cup {None},
         todo : SUBSET Attributes, found : Ids \cup {None},
         match : Users, many : BOOLEAN]
Labels == {"idle", "form", "query"}

(***************************************************************************)
(* The inductive invariant.                                                *)
(***************************************************************************)
\* The uuid a user with this _id is created with.
Own(i) == IF i \in registry THEN i ELSE None

Creates(j) == j.op \in {"add", "oauth"}

Has(i, u) == users[i] # None /\ users[i].uuid = u

\* A uuid that was on a user is on it still, or gone.
Held(u) == u \in gone \/ \E i \in Ids : Has(i, u)

\* Who creates has an _id of its own, and the uuid that goes with it.
SoundId(j) == Creates(j) =>
    /\ j.id \in 1 .. creations /\ users[j.id] = None
    /\ j.user.uuid = Own(j.id)
    /\ j.op = "oauth" => j.user.uuid = None

\* Who writes a uuid has found the user that has it, unless that is gone.
SoundUuid(j) ==
    /\ ~Creates(j) /\ j.user.uuid # None => Held(j.user.uuid)
    /\ "uuid" \in j.todo => j.found = None
    /\ j.op \in {"update", "password"} /\ j.user.uuid # None /\ "uuid" \notin j.todo =>
          \/ j.user.uuid \in gone
          \/ j.found # None /\ Has(j.found, j.user.uuid)

\* What a copy knows of the user it is of.
SoundCopy(t, j) ==
    /\ j.found \in 1 .. creations \cup {None} /\ j.origin \in 1 .. creations \cup {None}
    /\ j.op = "oauth" /\ j.found # None =>
          /\ j.match.uuid \in {Own(j.found)} \cup gone
          /\ t \notin stale => j.found \in reverted \/ j.match.password = meant[j.found]
    /\ j.origin # None /\ t \notin stale =>
          j.origin \in reverted \/ j.user.password \in {None, meant[j.origin]}

\* Who changes a password has one, who logs in has none.
SoundPassword(j) ==
    /\ j.op \in {"identify", "password"} => j.user.password # None
    /\ j.op = "oauth" => j.user.password = None

Sound(t, j) == SoundId(j) /\ SoundPassword(j) /\ SoundUuid(j) /\ SoundCopy(t, j)

\* Nobody else has the _id of a user that is being created.
Apart ==
    \A s, t \in Threads : Creates(job[t]) =>
        /\ job[s].origin # job[t].id /\ job[s].found # job[t].id
        /\ s # t /\ Creates(job[s]) => job[s].id # job[t].id

Drawn ==
    /\ registry \subseteq 1 .. creations
    /\ \A i \in Ids : users[i] # None => i <= creations

Forms == \A t \in Threads : pc[t] = "form" => job[t].op = None /\ job[t].found = None

IInv ==
    /\ TypeOK /\ Drawn /\ Forms /\ Apart
    /\ \A t \in Threads : Sound(t, job[t])
    /\ OwnUuid /\ PasswordsStay

-----------------------------------------------------------------------------
(***************************************************************************)
(* The operators.                                                          *)
(***************************************************************************)
LEMMA NoJobType == NoJob \in Jobs /\ NoUser \in Users
  BY DEF NoJob, NoUser, Jobs, Users

LEMMA UserFields ==
    ASSUME NEW d \in Users
    PROVE  DOMAIN d = {"uuid", "username", "email", "firstName", "password"}
  BY DEF Users

LEMMA WrittenUser ==
    ASSUME NEW d \in Users, NEW user \in Users
    PROVE  /\ Written(d, user) \in Users
           /\ Written(d, user).uuid = IF user.uuid # None THEN user.uuid ELSE d.uuid
           /\ Written(d, user).password =
                  IF user.password # None THEN user.password ELSE d.password
  <1> DEFINE New(k) == IF user[k] # None THEN user[k] ELSE d[k]
  <1>1. Written(d, user) = [uuid |-> New("uuid"), username |-> New("username"),
                            email |-> New("email"), firstName |-> New("firstName"),
                            password |-> New("password")]
    BY UserFields DEF Written
  <1> QED BY <1>1 DEF Users

LEMMA CompletedUser ==
    ASSUME NEW d \in Users, NEW user \in Users
    PROVE  /\ Completed(d, user) \in Users
           /\ Completed(d, user).uuid = IF d.uuid = None THEN user.uuid ELSE d.uuid
           /\ Completed(d, user).password =
                  IF d.password = None THEN user.password ELSE d.password
  <1> DEFINE New(k) == IF d[k] = None THEN user[k] ELSE d[k]
  <1>1. Completed(d, user) = [uuid |-> New("uuid"), username |-> New("username"),
                              email |-> New("email"), firstName |-> New("firstName"),
                              password |-> New("password")]
    BY UserFields DEF Completed
  <1> QED BY <1>1 DEF Users

LEMMA NextKeyFacts ==
    ASSUME NEW todo \in SUBSET Attributes, todo # {}
    PROVE  NextKey(todo) \in todo /\ ("uuid" \in todo => NextKey(todo) = "uuid")
  <1>1. \E k \in todo : \A l \in todo : Rank[k] <= Rank[l]
    <2>1. CASE "uuid" \in todo
      BY <2>1 DEF Attributes, Rank
    <2>2. CASE "uuid" \notin todo /\ "username" \in todo
      BY <2>2 DEF Attributes, Rank
    <2>3. CASE "uuid" \notin todo /\ "username" \notin todo /\ "email" \in todo
      BY <2>3 DEF Attributes, Rank
    <2>4. CASE todo = {"firstName"}
      BY <2>4 DEF Rank
    <2> QED BY <2>1, <2>2, <2>3, <2>4 DEF Attributes
  <1>2. NextKey(todo) \in todo /\ \A l \in todo : Rank[NextKey(todo)] <= Rank[l]
    BY <1>1 DEF NextKey
  <1>3. \A k \in Attributes : Rank[k] <= Rank["uuid"] => k = "uuid"
    BY DEF Attributes, Rank
  <1> QED BY <1>2, <1>3

LEMMA KeysFacts ==
    ASSUME NEW user \in Users
    PROVE  KeysOf(user) \in SUBSET Attributes /\ (user.uuid # None <=> "uuid" \in KeysOf(user))
  BY DEF KeysOf, Attributes

\* One findOne: the user found first, and its uuid.
LEMMA LookedFacts ==
    ASSUME TypeOK, NEW j \in Jobs, j.todo # {}, NEW l \in Looked(j)
    PROVE  /\ l \in Jobs
           /\ l.op = j.op /\ l.id = j.id /\ l.user = j.user /\ l.origin = j.origin
           /\ l.todo = j.todo \ {NextKey(j.todo)}
           /\ \/ l.found = j.found /\ l.match = j.match
              \/ /\ j.found = None /\ l.found \in Ids
                 /\ users[l.found] # None /\ l.match = Match(j.op, users[l.found])
           /\ NextKey(j.todo) = "uuid" /\ j.found = None =>
                 \/ l.found = None /\ \A i \in Ids : ~Has(i, j.user.uuid)
                 \/ l.found # None /\ Has(l.found, j.user.uuid)
  <1> DEFINE k == NextKey(j.todo)
             rest == [j EXCEPT !.todo = @ \ {k}]
             hits == Having(k, j.user[k])
  <1>1. rest \in Jobs /\ k \in j.todo /\ k \in Attributes
    BY NextKeyFacts DEF Jobs
  <1>2. hits \subseteq Ids /\ \A i \in hits : users[i] \in Users /\ users[i] # None
    BY DEF Having, TypeOK
  <1>3. \A i \in hits : Match(j.op, users[i]) \in Users
    BY <1>2, NoJobType DEF Match, Users
  <1>4. CASE hits = {}
    <2>1. l = rest
      BY <1>4 DEF Looked
    <2>2. k = "uuid" => \A i \in Ids : ~Has(i, j.user.uuid)
      BY <1>4 DEF Having, Has
    <2> HIDE DEF hits
    <2> QED BY <1>1, <2>1, <2>2 DEF Jobs
  <1>5. CASE hits # {} /\ j.found = None
    <2>1. PICK i \in hits : l = [rest EXCEPT !.found = i, !.match = Match(j.op, users[i])]
      BY <1>5 DEF Looked
    <2>2. k = "uuid" => Has(i, j.user.uuid)
      BY DEF Having, Has
    <2> HIDE DEF hits
    <2>3. l \in Jobs
      BY <1>1, <1>2, <1>3, <2>1 DEF Jobs
    <2>4. None \notin Ids
      BY NoneAssumption, MaxUsersAssumption DEF Ids
    <2> QED BY <1>1, <1>2, <1>5, <2>1, <2>2, <2>3, <2>4 DEF Jobs
  <1>6. CASE hits # {} /\ j.found # None
    <2>1. PICK i \in hits :
              l = [rest EXCEPT !.many = @ \/ users[i].uuid = None \/ users[i].uuid # j.match.uuid]
      BY <1>6 DEF Looked
    <2> HIDE DEF hits
    <2>2. l \in Jobs
      <3>1. (j.many \/ users[i].uuid = None \/ users[i].uuid # j.match.uuid) \in BOOLEAN
        BY <1>1 DEF Jobs
      <3> QED BY <1>1, <2>1, <3>1 DEF Jobs
    <2> QED BY <1>1, <1>6, <2>1, <2>2 DEF Jobs
  <1> QED BY <1>4, <1>5, <1>6

-----------------------------------------------------------------------------
(***************************************************************************)
(* What a request knows survives the steps that leave the users alone.     *)
(***************************************************************************)
LEMMA SoundNothing == ASSUME NEW t \in Threads PROVE Sound(t, NoJob)
  BY NoneAssumption DEF Sound, SoundId, SoundPassword, SoundUuid, SoundCopy, Creates, NoJob, NoUser, Operations

LEMMA SoundLooked ==
    ASSUME IInv, NEW t \in Threads, NEW j \in Jobs, Sound(t, j), j.todo # {}, NEW l \in Looked(j)
    PROVE  l \in Jobs /\ Sound(t, l)
  <1>1. TypeOK /\ Drawn /\ OwnUuid /\ PasswordsStay
    BY DEF IInv
  <1>2. j.todo \in SUBSET Attributes
    BY DEF Jobs
  <1>3. "uuid" \in j.todo => NextKey(j.todo) = "uuid"
    BY <1>2, NextKeyFacts
  <1>4. SoundId(l)
    BY <1>1, LookedFacts DEF Sound, SoundId, Creates
  <1>5. SoundUuid(l)
    <2>1. "uuid" \notin l.todo
      BY <1>1, <1>3, LookedFacts
    <2>2. ~Creates(l) /\ l.user.uuid # None => Held(l.user.uuid)
      BY <1>1, LookedFacts DEF Sound, SoundUuid, Creates
    <2>3. ASSUME l.op \in {"update", "password"}, l.user.uuid # None
          PROVE  l.user.uuid \in gone \/ (l.found # None /\ Has(l.found, l.user.uuid))
      <3>1. l.user = j.user /\ j.op \in {"update", "password"} /\ j.user.uuid # None
        BY <1>1, <2>3, LookedFacts
      <3>2. CASE "uuid" \in j.todo
        <4>1. j.found = None /\ Held(j.user.uuid)
          BY <3>1, <3>2 DEF Sound, SoundUuid, Creates
        <4>2. \/ l.found = None /\ \A i \in Ids : ~Has(i, j.user.uuid)
              \/ l.found # None /\ Has(l.found, j.user.uuid)
          BY <1>1, <1>3, <3>2, <4>1, LookedFacts
        <4> QED BY <3>1, <4>1, <4>2 DEF Held
      <3>3. CASE "uuid" \notin j.todo
        <4>1. j.user.uuid \in gone \/ (j.found # None /\ Has(j.found, j.user.uuid))
          BY <3>1, <3>3 DEF Sound, SoundUuid
        <4>2. j.found # None => l.found = j.found
          BY <1>1, LookedFacts
        <4> QED BY <3>1, <4>1, <4>2
      <3> QED BY <3>2, <3>3
    <2> QED BY <2>1, <2>2, <2>3 DEF SoundUuid
  <1>6. SoundCopy(t, l)
    <2>1. CASE l.found = j.found /\ l.match = j.match
      BY <1>1, <2>1, LookedFacts DEF Sound, SoundCopy
    <2>2. CASE /\ j.found = None /\ l.found \in Ids
               /\ users[l.found] # None /\ l.match = Match(j.op, users[l.found])
      <3>1. l.found \in 1 .. creations
        BY <1>1, <2>2 DEF Drawn, Ids, TypeOK
      <3>2. l.op = "oauth" => l.match = users[l.found]
        BY <1>1, <2>2, LookedFacts DEF Match
      <3>3. users[l.found].uuid \in {Own(l.found)} \cup gone
        BY <1>1, <2>2 DEF OwnUuid, Own
      <3>4. l.found \in reverted \/ users[l.found].password = meant[l.found]
        BY <1>1, <2>2 DEF PasswordsStay
      <3>5. l.origin = j.origin /\ l.user = j.user
        BY <1>1, LookedFacts
      <3> QED BY <3>1, <3>2, <3>3, <3>4, <3>5 DEF Sound, SoundCopy
    <2> QED BY <1>1, <2>1, <2>2, LookedFacts
  <1>7. SoundPassword(l)
    BY <1>1, LookedFacts DEF Sound, SoundPassword
  <1> QED BY <1>1, <1>4, <1>5, <1>6, <1>7, LookedFacts DEF Sound

\* A step of t that goes on with the request j and touches nothing shared.
Goes(t, j) ==
    /\ job' = [job EXCEPT ![t] = j]
    /\ \E label \in Labels : pc' = [pc EXCEPT ![t] = label]
    /\ pc'[t] = "form" => j.op = None /\ j.found = None
    /\ stale' \subseteq stale /\ stale \ {t} \subseteq stale'
    /\ j # NoJob => stale' = stale
    /\ overlapped' \in BOOLEAN
    /\ UNCHANGED <<creations, registry, users, gone, meant, reverted>>

\* j creates the user t was creating, and is about users that are stored or
\* that t has found before.
Follows(t, j) ==
    /\ Creates(j) => Creates(job[t]) /\ j.id = job[t].id
    /\ j.found \in {None, job[t].found} \cup {i \in Ids : users[i] # None}
    /\ j.origin \in {None, job[t].origin} \cup {i \in Ids : users[i] # None}

LEMMA GoesKeeps ==
    ASSUME IInv, NEW t \in Threads, NEW j \in Jobs, Goes(t, j), Follows(t, j), Sound(t, j)
    PROVE  IInv'
  <1>1. /\ job' = [job EXCEPT ![t] = j] /\ job \in [Threads -> Jobs]
        /\ \A s \in Threads \ {t} : job'[s] = job[s] /\ pc'[s] = pc[s]
        /\ job'[t] = j
    BY DEF IInv, TypeOK, Goes, Jobs
  <1>2. TypeOK'
    BY <1>1 DEF IInv, TypeOK, Goes, Jobs, Labels
  <1>3. Drawn' /\ OwnUuid' /\ PasswordsStay'
    BY DEF IInv, Drawn, OwnUuid, PasswordsStay, Goes
  <1>4. Forms'
    BY <1>1 DEF IInv, Forms, Goes
  <1>5. Apart'
    <2>1. \A s \in Threads : Creates(job[s]) => job[s].id \in 1 .. creations /\ users[job[s].id] = None
      BY DEF IInv, Sound, SoundId
    <2>2. None \notin Ids /\ \A s \in Threads : job[s].id # None <=> job[s].id \in Ids
      BY NoneAssumption, MaxUsersAssumption, <1>1 DEF Ids, Jobs
    <2>3. \A s \in Threads : Creates(job[s]) => job[s].id # None
      BY <2>1, <2>2, MaxUsersAssumption DEF IInv, TypeOK, Ids
    <2>4. \A s \in Threads : Creates(job[s]) => j.origin # job[s].id /\ j.found # job[s].id
      BY <2>1, <2>3 DEF Follows, IInv, Apart
    <2> QED BY <1>1, <2>4 DEF IInv, Apart, Follows, Creates
  <1>6. ASSUME NEW s \in Threads PROVE Sound(s, job[s])'
    <2>1. CASE s # t
      <3>1. Sound(s, job[s])
        BY DEF IInv
      <3>2. job'[s] = job[s] /\ (s \in stale' <=> s \in stale)
        BY <1>1, <2>1 DEF Goes
      <3> QED BY <3>1, <3>2 DEF Goes, Sound, SoundId, SoundPassword, SoundUuid, SoundCopy, Creates, Held, Has, Own
    <2>2. CASE s = t
      <3>1. CASE j # NoJob
        BY <1>1, <2>2, <3>1 DEF Goes, Sound, SoundId, SoundPassword, SoundUuid, SoundCopy, Creates, Held, Has, Own
      <3>2. CASE j = NoJob
        BY NoneAssumption, <1>1, <2>2, <3>2
           DEF Sound, SoundId, SoundPassword, SoundUuid, SoundCopy, Creates, NoJob, NoUser, Operations
      <3> QED BY <3>1, <3>2
    <2> QED BY <2>1, <2>2
  <1> QED BY <1>2, <1>3, <1>4, <1>5, <1>6 DEF IInv

-----------------------------------------------------------------------------
(***************************************************************************)
(* The steps that write no user.                                           *)
(***************************************************************************)
\* A request that creates nobody begins.
LEMMA BeginKeeps ==
    ASSUME IInv, NEW t \in Threads, NEW j \in Jobs, Begin(t, j), Sound(t, j),
           ~Creates(j), j.found = None, j.origin \in {None, job[t].origin},
           stale' \subseteq stale, stale \ {t} \subseteq stale',
           j.todo # {} => stale' = stale,
           UNCHANGED <<creations, registry, users, gone, meant, reverted>>
    PROVE  IInv'
  <1>1. overlapped' \in BOOLEAN
    BY DEF Begin, IInv, TypeOK
  <1>2. CASE j.todo = {}
    <2>1. Goes(t, NoJob) /\ Follows(t, NoJob)
      BY <1>1, <1>2, NoneAssumption
         DEF Begin, Goto, Goes, Follows, Labels, NoJob, Creates, Operations, IInv, TypeOK
    <2> QED BY <2>1, NoJobType, SoundNothing, GoesKeeps
  <1>3. CASE j.todo # {}
    <2>1. PICK l \in Looked(j) : job' = [job EXCEPT ![t] = l]
      BY <1>3 DEF Begin
    <2>2. l \in Jobs /\ Sound(t, l)
      BY <1>3, SoundLooked
    <2>3. l.op = j.op /\ l.origin = j.origin
          /\ l.found \in {None} \cup {i \in Ids : users[i] # None}
      BY <1>3, LookedFacts DEF IInv
    <2>4. Goes(t, l)
      BY <1>1, <1>3, <2>1 DEF Begin, Goto, Goes, Labels, IInv, TypeOK
    <2>5. Follows(t, l)
      BY <2>3 DEF Follows, Creates
    <2> QED BY <2>2, <2>4, <2>5, GoesKeeps
  <1> QED BY <1>2, <1>3

LEMMA QueryKeeps == ASSUME IInv, NEW t \in Threads, Query(t) PROVE IInv'
  <1>1. job[t] \in Jobs /\ Sound(t, job[t]) /\ TypeOK
    BY DEF IInv, TypeOK, Jobs
  <1>2. PICK l \in Looked(job[t]) : job' = [job EXCEPT ![t] = l]
    BY DEF Query
  <1>3. l \in Jobs /\ Sound(t, l)
    BY <1>1, SoundLooked DEF Query
  <1>4. l.op = job[t].op /\ l.id = job[t].id /\ l.origin = job[t].origin
        /\ l.found \in {job[t].found} \cup {i \in Ids : users[i] # None}
    BY <1>1, LookedFacts DEF Query
  <1>5. Goes(t, l) /\ Follows(t, l)
    <2>1. pc' = [pc EXCEPT ![t] = "query"] /\ pc'[t] = "query"
      BY <1>1 DEF Query, TypeOK
    <2> QED BY <1>1, <1>2, <1>4, <2>1 DEF Query, history, Goes, Follows, Creates, Labels, TypeOK
  <1> QED BY <1>3, <1>5, GoesKeeps

LEMMA UpdateUserKeeps ==
    ASSUME IInv, NEW t \in Threads, NEW user \in Users, UpdateUser(t, user),
           user.uuid # None => \E i \in Ids : Has(i, user.uuid)
    PROVE  IInv'
  <1> DEFINE j == [NoJob EXCEPT !.op = "update", !.user = user, !.todo = KeysOf(user)]
  <1>1. /\ j \in Jobs /\ j.op = "update" /\ j.user = user /\ j.todo = KeysOf(user)
        /\ j.found = None /\ j.origin = None
    BY KeysFacts, NoJobType DEF NoJob, Jobs, Operations
  <1> HIDE DEF j
  <1>2. Sound(t, j)
    BY <1>1, KeysFacts DEF Sound, SoundId, SoundPassword, SoundUuid, SoundCopy, Creates, Held
  <1>3. Begin(t, j)
    BY DEF UpdateUser, j
  <1> QED BY <1>1, <1>2, <1>3, BeginKeeps DEF UpdateUser, Creates

LEMMA DeleteUserKeeps ==
    ASSUME IInv, NEW t \in Threads, NEW user \in Users, DeleteUser(t, user), user.uuid = None
    PROVE  IInv'
  <1> DEFINE j == [NoJob EXCEPT !.op = "delete", !.user = user, !.todo = KeysOf(user)]
  <1>1. /\ j \in Jobs /\ j.op = "delete" /\ j.user = user
        /\ j.found = None /\ j.origin = None
    BY ZenonT(60), KeysFacts, NoJobType DEF NoJob, Jobs, Operations
  <1> HIDE DEF j
  <1>2. Sound(t, j)
    BY <1>1 DEF Sound, SoundId, SoundPassword, SoundUuid, SoundCopy, Creates
  <1>3. Begin(t, j)
    BY DEF DeleteUser, j
  <1> QED BY <1>1, <1>2, <1>3, BeginKeeps DEF DeleteUser, Creates

LEMMA ChangePasswordKeeps ==
    ASSUME IInv, NEW t \in Threads, NEW key \in {"username", "email"}, NEW value,
           key = "username" => value \in Usernames, key = "email" => value \in Emails,
           NEW password \in Passwords, ChangePassword(t, key, value, password)
    PROVE  IInv'
  <1> DEFINE user == [NoUser EXCEPT ![key] = value, !.password = password]
             j == [NoJob EXCEPT !.op = "identify", !.todo = {key}, !.user = user]
  <1>1. user \in Users /\ user.uuid = None
    BY DEF NoUser, Users
  <1>2. {key} \in SUBSET Attributes /\ user.password # None
    BY NoneAssumption DEF NoUser, Attributes
  <1> HIDE DEF user
  <1>3. /\ j \in Jobs /\ j.op = "identify" /\ j.user = user
        /\ j.found = None /\ j.origin = None
    BY <1>1, <1>2, NoJobType DEF NoJob, Jobs, Operations
  <1> HIDE DEF j
  <1>4. Sound(t, j)
    BY <1>1, <1>2, <1>3 DEF Sound, SoundId, SoundPassword, SoundUuid, SoundCopy, Creates
  <1>5. Begin(t, j)
    BY DEF ChangePassword, j, user
  <1> QED BY <1>3, <1>4, <1>5, BeginKeeps DEF ChangePassword, Creates

LEMMA ReadFormKeeps ==
    ASSUME IInv, NEW t \in Threads, NEW i \in Ids, NEW username \in Usernames \cup {None},
           ReadForm(t, i, username)
    PROVE  IInv'
  <1> DEFINE user == [users[i] EXCEPT !.username = username]
             j == [NoJob EXCEPT !.origin = i, !.user = user]
  <1>1. users[i] # None /\ users[i] \in Users
    BY DEF ReadForm, IInv, TypeOK
  <1>2. user \in Users /\ user.uuid = users[i].uuid /\ user.password = users[i].password
    BY <1>1 DEF Users
  <1> HIDE DEF user
  <1>3. /\ j \in Jobs /\ j.op = None /\ j.user = user /\ j.origin = i
        /\ j.todo = {} /\ j.found = None
    BY <1>2, NoJobType DEF NoJob, Jobs
  <1>4. job' = [job EXCEPT ![t] = j]
    BY DEF ReadForm, user
  <1> HIDE DEF j
  <1>5. Sound(t, j)
    <2>1. i \in 1 .. creations
      BY <1>1 DEF IInv, Drawn, Ids, TypeOK
    <2>2. i \in reverted \/ users[i].password = meant[i]
      BY <1>1 DEF IInv, PasswordsStay
    <2> QED BY <1>1, <1>2, <1>3, <2>1, <2>2, NoneAssumption
            DEF Sound, SoundId, SoundPassword, SoundUuid, SoundCopy, Creates, Held, Has, Operations
  <1>6. Goes(t, j) /\ Follows(t, j)
    BY <1>1, <1>3, <1>4, NoneAssumption
       DEF ReadForm, Goto, Goes, Follows, Labels, Creates, Operations, IInv, TypeOK
  <1> QED BY <1>3, <1>5, <1>6, GoesKeeps

LEMMA PostFormKeeps == ASSUME IInv, NEW t \in Threads, PostForm(t) PROVE IInv'
  <1> DEFINE user == job[t].user
             j == [job[t] EXCEPT !.op = "update", !.todo = KeysOf(user)]
  <1>1. /\ job[t] \in Jobs /\ user \in Users /\ Sound(t, job[t])
        /\ job[t].op = None /\ job[t].found = None
    BY DEF IInv, TypeOK, Jobs, Forms, PostForm
  <1>2. /\ j \in Jobs /\ j.op = "update" /\ j.user = user /\ j.todo = KeysOf(user)
        /\ j.found = None /\ j.origin = job[t].origin
    BY <1>1, KeysFacts DEF Jobs, Operations
  <1>3. Begin(t, j)
    BY DEF PostForm
  <1> HIDE DEF j
  <1>4. Sound(t, j)
    BY <1>1, <1>2, KeysFacts, NoneAssumption
       DEF Sound, SoundId, SoundPassword, SoundUuid, SoundCopy, Creates, Operations
  <1>5. /\ stale' \subseteq stale /\ stale \ {t} \subseteq stale'
        /\ j.todo # {} => stale' = stale
    BY <1>2 DEF PostForm
  <1> QED BY <1>2, <1>3, <1>4, <1>5, BeginKeeps DEF PostForm, Creates

LEMMA RefuseKeeps == ASSUME IInv, NEW t \in Threads, Refuse(t) PROVE IInv'
  <1>1. Goes(t, NoJob) /\ Follows(t, NoJob)
    <2>1. /\ End(t) /\ stale' = stale \ {t}
          /\ UNCHANGED <<creations, registry, users, gone, meant, reverted, overlapped>>
      BY DEF Refuse
    <2>2. t \in DOMAIN pc /\ overlapped \in BOOLEAN
      BY DEF IInv, TypeOK
    <2> QED BY <2>1, <2>2, NoneAssumption
            DEF End, Goto, Goes, Follows, Labels, NoJob, Creates, Operations
  <1> QED BY <1>1, NoJobType, SoundNothing, GoesKeeps

LEMMA RegisterKeeps == ASSUME IInv, NEW t \in Threads, Register(t) PROVE IInv'
  <1> DEFINE j == [job[t] EXCEPT !.op = "add", !.todo = KeysOf(job[t].user)]
  <1>1. /\ job[t] \in Jobs /\ job[t].user \in Users /\ Sound(t, job[t])
        /\ job[t].op = "oauth" /\ job[t].found = None
    BY DEF IInv, TypeOK, Jobs, Register, Answered, NoneFound
  <1>2. /\ j \in Jobs /\ j.op = "add" /\ j.user = job[t].user /\ j.id = job[t].id
        /\ j.found = None /\ j.origin = job[t].origin
    BY <1>1, KeysFacts DEF Jobs, Operations
  <1>3. job' = [job EXCEPT ![t] = j]
    BY DEF Register, IInv, TypeOK
  <1> HIDE DEF j
  <1>4. Sound(t, j)
    BY <1>1, <1>2 DEF Sound, SoundId, SoundPassword, SoundUuid, SoundCopy, Creates
  <1>5. Goes(t, j) /\ Follows(t, j)
    <2>1. pc' = [pc EXCEPT ![t] = "query"] /\ pc'[t] = "query" /\ overlapped' \in BOOLEAN
      BY DEF Register, Answered, history, IInv, TypeOK
    <2> QED BY <1>1, <1>2, <1>3, <2>1
            DEF Register, history, Goes, Follows, Creates, Labels
  <1> QED BY <1>2, <1>4, <1>5, GoesKeeps

LEMMA LoadKeeps == ASSUME IInv, NEW t \in Threads, Load(t) PROVE IInv'
  <1>1. /\ job[t] \in Jobs /\ job[t].user.password \in Passwords \cup {None}
        /\ job[t].match.uuid \in Uuids \cup {None} /\ job[t].user.password # None
    BY DEF IInv, TypeOK, Jobs, Users, Sound, SoundPassword, Load, Answered
  <1>2. CASE End(t)
    <2>1. UNCHANGED <<creations, registry, users, history>> /\ t \in DOMAIN pc /\ overlapped \in BOOLEAN
      BY DEF Load, IInv, TypeOK
    <2>2. Goes(t, NoJob) /\ Follows(t, NoJob)
      BY <1>2, <2>1, NoneAssumption
         DEF history, End, Goto, Goes, Follows, Labels, NoJob, Creates, Operations
    <2> QED BY <2>2, NoJobType, SoundNothing, GoesKeeps
  <1>3. CASE ~End(t)
    <2>1. PICK i \in Having("uuid", job[t].match.uuid) :
            LET user == [users[i] EXCEPT !.password = job[t].user.password] IN
            /\ job' = [job EXCEPT ![t] = [NoJob EXCEPT !.op = "password", !.user = user,
                                                       !.todo = KeysOf(user)]]
            /\ UNCHANGED pc
      BY <1>3 DEF Load
    <2> DEFINE user == [users[i] EXCEPT !.password = job[t].user.password]
               j == [NoJob EXCEPT !.op = "password", !.user = user, !.todo = KeysOf(user)]
    <2>2. i \in Ids /\ users[i] \in Users /\ Has(i, users[i].uuid)
      BY DEF Having, Has, IInv, TypeOK
    <2>3. user \in Users /\ user.uuid = users[i].uuid /\ user.password = job[t].user.password
      BY <1>1, <2>2 DEF Users
    <2>4. job' = [job EXCEPT ![t] = j]
      BY <2>1
    <2> HIDE DEF user
    <2>5. /\ j \in Jobs /\ j.op = "password" /\ j.user = user /\ j.todo = KeysOf(user)
          /\ j.found = None /\ j.origin = None
      BY <2>3, KeysFacts, NoJobType DEF NoJob, Jobs, Operations
    <2> HIDE DEF j
    <2>6. Sound(t, j)
      BY <1>1, <2>2, <2>3, <2>5, KeysFacts DEF Sound, SoundId, SoundPassword, SoundUuid, SoundCopy, Creates, Held
    <2>7. pc' = [pc EXCEPT ![t] = "query"] /\ pc'[t] = "query" /\ overlapped' \in BOOLEAN
      BY <2>1 DEF Load, Answered, history, IInv, TypeOK
    <2>8. Goes(t, j) /\ Follows(t, j)
      BY <2>4, <2>5, <2>7 DEF Load, history, Goes, Follows, Creates, Labels
    <2> QED BY <2>5, <2>6, <2>8, GoesKeeps
  <1> QED BY <1>2, <1>3

-----------------------------------------------------------------------------
(***************************************************************************)
(* The steps that create or write a user.                                  *)
(***************************************************************************)
\* What such a step of t leaves to the others: a uuid is where it was or gone,
\* and who has an older copy of a user is stale.
Frame(t) ==
    /\ creations' \in 0 .. MaxUsers /\ creations <= creations'
    /\ \A i \in 1 .. creations : i \in registry' <=> i \in registry
    /\ gone \subseteq gone'
    /\ \A i \in Ids : users[i] # None /\ users[i].uuid # None =>
          users[i].uuid \in gone' \/ (users'[i] # None /\ users'[i].uuid = users[i].uuid)
    /\ \A i \in Ids : users[i] = None /\ users'[i] # None => Creates(job[t]) /\ i = job[t].id
    /\ \A s \in Threads \ {t} :
          /\ job'[s] = job[s] /\ pc'[s] = pc[s]
          /\ s \notin stale' => s \notin stale /\
                \A i \in Ids : s \in CopiedFrom(i) =>
                    meant'[i] = meant[i] /\ (i \in reverted => i \in reverted')

LEMMA OthersSound ==
    ASSUME IInv, NEW t \in Threads, Frame(t), NEW s \in Threads \ {t}
    PROVE  Sound(s, job[s])'
  <1>1. Sound(s, job[s]) /\ job'[s] = job[s] /\ TypeOK /\ Apart /\ job[s] \in Jobs
    BY DEF IInv, Frame, TypeOK, Jobs
  <1>2. creations \in Nat /\ creations <= MaxUsers /\ 1 .. creations \subseteq Ids
        /\ 1 .. creations \subseteq 1 .. creations' /\ None \notin Ids
    BY <1>1, MaxUsersAssumption, NoneAssumption DEF TypeOK, Ids, Frame
  <1>3. \A i \in 1 .. creations : Own(i)' = Own(i)
    BY DEF Frame, Own
  <1>4. SoundId(job[s])'
    <2>1. Creates(job[s]) => job[s].id \in 1 .. creations /\ users[job[s].id] = None
      BY <1>1 DEF Sound, SoundId
    <2>2. Creates(job[s]) => users'[job[s].id] = None
      BY <1>1, <1>2, <2>1 DEF Frame, Apart
    <2>3. Creates(job[s]) => Own(job[s].id)' = Own(job[s].id)
      <3>1. Own(job[s].id)' = IF job[s].id \in registry' THEN job[s].id ELSE None
        BY <1>1 DEF Own
      <3> QED BY <2>1, <3>1 DEF Own, Frame
    <2> QED BY <1>1, <1>2, <2>1, <2>2, <2>3 DEF Sound, SoundId, Creates
  <1>5. SoundUuid(job[s])'
    <2>1. \A u : \A i \in Ids : Has(i, u) /\ u # None => u \in gone' \/ (users'[i] # None /\ users'[i].uuid = u)
      BY DEF Has, Frame
    <2>2. \A u : Held(u) /\ u # None =>
            u \in gone' \/ \E i \in Ids : users'[i] # None /\ users'[i].uuid = u
      BY <2>1 DEF Held, Frame
    <2>3. job[s].found # None => job[s].found \in Ids
      BY <1>1, <1>2 DEF Sound, SoundCopy
    <2>4. gone \subseteq gone'
      BY DEF Frame
    <2> QED BY <1>1, <2>1, <2>2, <2>3, <2>4 DEF Sound, SoundUuid, Creates, Held, Has
  <1>6. SoundCopy(s, job[s])'
    <2>1. job[s].found \in 1 .. creations \cup {None} /\ job[s].origin \in 1 .. creations \cup {None}
      BY <1>1 DEF Sound, SoundCopy
    <2>2. ASSUME job[s].op = "oauth", job[s].found # None
          PROVE  /\ job[s].match.uuid \in {Own(job[s].found)} \cup gone'
                 /\ s \notin stale' => job[s].found \in reverted' \/ job[s].match.password = meant'[job[s].found]
      <3>1. job[s].match.uuid \in {Own(job[s].found)} \cup gone
        BY <1>1, <2>2 DEF Sound, SoundCopy
      <3>2. s \notin stale => job[s].found \in reverted \/ job[s].match.password = meant[job[s].found]
        BY <1>1, <2>2 DEF Sound, SoundCopy
      <3>3. s \in CopiedFrom(job[s].found) /\ job[s].found \in Ids
        BY <1>2, <2>1, <2>2 DEF CopiedFrom
      <3> QED BY <3>1, <3>2, <3>3 DEF Frame
    <2>3. ASSUME job[s].origin # None, s \notin stale'
          PROVE  job[s].origin \in reverted' \/ job[s].user.password \in {None, meant'[job[s].origin]}
      <3>1. s \in CopiedFrom(job[s].origin) /\ job[s].origin \in Ids
        BY <1>2, <2>1, <2>3 DEF CopiedFrom
      <3>2. s \notin stale
        BY <2>3 DEF Frame
      <3>3. job[s].origin \in reverted \/ job[s].user.password \in {None, meant[job[s].origin]}
        BY <1>1, <2>3, <3>2 DEF Sound, SoundCopy
      <3> QED BY <2>3, <3>1, <3>3 DEF Frame
    <2>4. job[s].op = "oauth" /\ job[s].found # None => Own(job[s].found)' = Own(job[s].found)
      <3>1. Own(job[s].found)' = IF job[s].found \in registry' THEN job[s].found ELSE None
        BY <1>1 DEF Own
      <3> QED BY <2>1, <3>1 DEF Own, Frame
    <2> QED BY <1>1, <1>2, <2>1, <2>2, <2>3, <2>4 DEF SoundCopy
  <1>7. SoundPassword(job[s])'
    BY <1>1 DEF Sound, SoundPassword
  <1> QED BY <1>4, <1>5, <1>6, <1>7 DEF Sound

\* A request that may create a user begins.
LEMMA CreationKeeps ==
    ASSUME IInv, NEW t \in Threads, NEW j \in Jobs, Begin(t, j), Creates(j),
           creations < MaxUsers, creations' = creations + 1, j.id = creations',
           j.found = None, j.origin = None, "uuid" \notin j.todo,
           \/ registry' = registry \cup {creations'} /\ j.user.uuid = creations' /\ j.op = "add"
           \/ registry' = registry /\ j.user.uuid = None /\ j.user.password = None,
           UNCHANGED <<users, gone, meant, stale, reverted>>
    PROVE  IInv'
  <1>1. TypeOK /\ Drawn /\ Apart /\ OwnUuid /\ PasswordsStay
    BY DEF IInv
  <1>2. /\ creations \in Nat /\ creations' \in 1 .. MaxUsers /\ creations' \in Ids
        /\ creations' \notin registry /\ users[creations'] = None /\ None \notin Ids
    BY <1>1, MaxUsersAssumption, NoneAssumption DEF TypeOK, Drawn, Ids
  <1>3. PICK l \in Jobs :
            /\ job' = [job EXCEPT ![t] = l]
            /\ \E label \in {"idle", "query"} : pc' = [pc EXCEPT ![t] = label]
            /\ \/ l = NoJob
               \/ /\ l.op = j.op /\ l.id = j.id /\ l.user = j.user /\ l.origin = None
                  /\ "uuid" \notin l.todo
                  /\ \/ l.found = None
                     \/ /\ l.found \in Ids /\ users[l.found] # None
                        /\ l.op = "oauth" => l.match = users[l.found]
    <2>1. CASE j.todo = {}
      BY <2>1, NoJobType DEF Begin, Goto
    <2>2. CASE j.todo # {}
      <3>1. PICK l \in Looked(j) : job' = [job EXCEPT ![t] = l]
        BY <2>2 DEF Begin
      <3>2. l \in Jobs /\ l.op = j.op /\ l.id = j.id /\ l.user = j.user /\ l.origin = None
            /\ "uuid" \notin l.todo
        BY <1>1, <2>2, LookedFacts
      <3>3. \/ l.found = None
            \/ l.found \in Ids /\ users[l.found] # None /\ l.match = Match(j.op, users[l.found])
        BY <1>1, <2>2, LookedFacts
      <3>4. l.op = "oauth" => Match(j.op, users[l.found]) = users[l.found]
        BY <3>2 DEF Match
      <3> QED BY <2>2, <3>1, <3>2, <3>3, <3>4 DEF Begin, Goto
    <2> QED BY <2>1, <2>2
  <1>4. /\ \A s \in Threads \ {t} : job'[s] = job[s] /\ pc'[s] = pc[s]
        /\ job'[t] = l /\ pc'[t] \in {"idle", "query"}
    BY <1>1, <1>3 DEF TypeOK
  <1>5. TypeOK'
    <2>1. registry' \subseteq Uuids
      BY <1>1, <1>2 DEF TypeOK, Uuids, Ids
    <2>2. overlapped' \in BOOLEAN
      BY <1>1 DEF Begin, TypeOK
    <2>3. job' \in [Threads -> Jobs] /\ pc' \in [Threads -> Labels]
      BY <1>1, <1>3 DEF TypeOK, Jobs, Labels
    <2> QED BY <1>1, <1>2, <2>1, <2>2, <2>3 DEF TypeOK, Jobs, Labels
  <1>6. Drawn'
    <2>1. ASSUME NEW n \in registry' PROVE n \in 1 .. creations'
      <3>1. n \in registry \/ n = creations'
        OBVIOUS
      <3>2. n \in registry => n \in 1 .. creations
        BY <1>1 DEF Drawn
      <3> QED BY <1>2, <3>1, <3>2
    <2>2. \A i \in Ids : users'[i] # None => i <= creations'
      BY <1>1, <1>2 DEF Drawn, Ids
    <2> QED BY <2>1, <2>2 DEF Drawn
  <1>7. Forms'
    BY <1>4 DEF IInv, Forms
  <1>8. \A i \in Ids : users[i] # None => Own(i)' = Own(i)
    BY <1>2 DEF Own
  <1>9. OwnUuid' /\ PasswordsStay'
    BY <1>1, <1>8 DEF OwnUuid, PasswordsStay, Own
  <1>10. Frame(t)
    BY <1>1, <1>2, <1>4 DEF Frame, TypeOK, Ids
  <1>11. ASSUME NEW s \in Threads PROVE Sound(s, job[s])'
    <2>1. CASE s # t
      BY <1>10, <2>1, OthersSound
    <2>2. CASE s = t /\ l = NoJob
      BY <1>4, <2>2, NoneAssumption
         DEF Sound, SoundId, SoundPassword, SoundUuid, SoundCopy, Creates, NoJob, NoUser, Operations
    <2>3. CASE s = t /\ l # NoJob
      <3>1. SoundId(job[s])'
        BY <1>2, <1>3, <1>4, <2>3 DEF SoundId, Creates, Own
      <3>2. SoundUuid(job[s])'
        BY <1>3, <1>4, <2>3 DEF SoundUuid, Creates
      <3>3. ASSUME l.found # None PROVE l.found \in 1 .. creations
        BY <1>1, <1>3, <2>3, <3>3 DEF Drawn, Ids, TypeOK
      <3>4. ASSUME l.op = "oauth", l.found # None
            PROVE  /\ l.match.uuid \in {Own(l.found)} \cup gone
                   /\ l.found \in reverted \/ l.match.password = meant[l.found]
        BY <1>1, <1>3, <2>3, <3>4 DEF OwnUuid, PasswordsStay, Own
      <3>5. l.found # None => (l.found \in registry' <=> l.found \in registry)
        BY <1>2, <3>3
      <3>6. SoundPassword(job[s])'
        BY <1>3, <1>4, <2>3 DEF SoundPassword, Creates
      <3>7. None \notin 1 .. creations' /\ 1 .. creations \subseteq 1 .. creations'
        BY <1>2, NoneAssumption, MaxUsersAssumption
      <3>8. SoundCopy(s, job[s])'
        BY <1>3, <1>4, <2>3, <3>3, <3>4, <3>5, <3>7 DEF SoundCopy, Own
      <3> QED BY <3>1, <3>2, <3>6, <3>8 DEF Sound
    <2> QED BY <2>1, <2>2, <2>3
  <1>12. Apart'
    <2>1. ASSUME NEW s \in Threads, Creates(job[s])
          PROVE  job[s].id \in 1 .. creations /\ users[job[s].id] = None /\ job[s].id # None
      BY <1>1, <1>2, <2>1, MaxUsersAssumption DEF IInv, Sound, SoundId, Ids, TypeOK
    <2>2. ASSUME NEW s \in Threads
          PROVE  job[s].origin # creations' /\ job[s].found # creations'
      <3>1. job[s].found \in 1 .. creations \cup {None} /\ job[s].origin \in 1 .. creations \cup {None}
        BY DEF IInv, Sound, SoundCopy
      <3> QED BY <1>2, <3>1
    <2>3. Creates(l) => l.id = creations'
      BY <1>3, NoneAssumption DEF Creates, NoJob, Operations
    <2>4. l.origin = None /\ (l.found = None \/ users[l.found] # None) /\ l.found # creations'
      BY <1>2, <1>3 DEF NoJob
    <2>5. creations' # None /\ \A i \in 1 .. creations : i # creations'
      BY <1>2
    <2> QED BY <1>1, <1>4, <2>1, <2>2, <2>3, <2>4, <2>5 DEF Apart, Creates
  <1> QED BY <1>5, <1>6, <1>7, <1>9, <1>11, <1>12 DEF IInv

LEMMA CreateUserKeeps ==
    ASSUME IInv, NEW t \in Threads, NEW user \in Users, user.uuid = None, CreateUser(t, user)
    PROVE  IInv'
  <1> DEFINE drawn == [user EXCEPT !.uuid = creations']
             j == [NoJob EXCEPT !.op = "add", !.id = creations', !.user = drawn,
                                !.todo = KeysOf(user)]
  <1>1. creations' = creations + 1 /\ creations' \in Ids /\ creations < MaxUsers
    BY MaxUsersAssumption DEF CreateUser, IInv, TypeOK, Ids
  <1>2. drawn \in Users /\ drawn.uuid = creations'
    BY <1>1 DEF Users, Uuids, Ids
  <1>3. Begin(t, j)
    BY DEF CreateUser
  <1> HIDE DEF drawn
  <1>4. /\ j \in Jobs /\ j.op = "add" /\ j.id = creations' /\ j.user = drawn
        /\ j.todo = KeysOf(user) /\ j.found = None /\ j.origin = None
    BY ZenonT(60), <1>1, <1>2, KeysFacts, NoJobType DEF NoJob, Jobs, Operations
  <1> HIDE DEF j
  <1> QED BY <1>1, <1>2, <1>3, <1>4, KeysFacts, CreationKeeps DEF CreateUser, Creates

LEMMA LoginKeeps ==
    ASSUME IInv, NEW t \in Threads, NEW user \in Users, user.uuid = None, user.password = None,
           LoginByOAuth2(t, user)
    PROVE  IInv'
  <1> DEFINE keys == {k \in Attributes : user[k] # None}
             j == [NoJob EXCEPT !.op = "oauth", !.id = creations', !.user = user, !.todo = keys]
  <1>1. creations' = creations + 1 /\ creations' \in Ids /\ creations < MaxUsers
    BY MaxUsersAssumption DEF LoginByOAuth2, IInv, TypeOK, Ids
  <1>2. keys \in SUBSET Attributes /\ "uuid" \notin keys
    OBVIOUS
  <1>3. Begin(t, j)
    BY DEF LoginByOAuth2
  <1> HIDE DEF keys
  <1>4. /\ j \in Jobs /\ j.op = "oauth" /\ j.id = creations' /\ j.user = user
        /\ j.todo = keys /\ j.found = None /\ j.origin = None
    BY <1>1, <1>2, NoJobType DEF NoJob, Jobs, Operations
  <1> HIDE DEF j
  <1> QED BY <1>1, <1>2, <1>3, <1>4, CreationKeeps DEF LoginByOAuth2, Creates

-----------------------------------------------------------------------------
(***************************************************************************)
(* The writes.                                                             *)
(***************************************************************************)
LEMMA WriteKeeps ==
    ASSUME IInv, NEW t \in Threads, Frame(t), End(t), TypeOK', Drawn', OwnUuid', PasswordsStay'
    PROVE  IInv'
  <1>1. /\ \A s \in Threads \ {t} : job'[s] = job[s] /\ pc'[s] = pc[s]
        /\ job'[t] = NoJob /\ pc'[t] = "idle"
    BY DEF IInv, TypeOK, End, Goto
  <1>2. Forms'
    BY <1>1 DEF IInv, Forms
  <1>3. None \notin Operations /\ None \notin 1 .. creations
    BY NoneAssumption, MaxUsersAssumption DEF IInv, TypeOK
  <1>4. Apart'
    <2>1. \A s \in Threads : Creates(job[s]) => job[s].id # None
      BY <1>3 DEF IInv, Sound, SoundId
    <2>2. ~Creates(NoJob) /\ NoJob.origin = None /\ NoJob.found = None
      BY <1>3 DEF Creates, NoJob, Operations
    <2> QED BY <1>1, <2>1, <2>2 DEF IInv, Apart, Creates
  <1>5. ASSUME NEW s \in Threads PROVE Sound(s, job[s])'
    <2>1. CASE s # t
      BY <2>1, OthersSound
    <2>2. CASE s = t
      BY <1>1, <1>3, <2>2 DEF Sound, SoundId, SoundPassword, SoundUuid, SoundCopy, Creates, NoJob, NoUser, Operations
    <2> QED BY <2>1, <2>2
  <1> QED BY <1>2, <1>4, <1>5 DEF IInv

\* Bookkeeping of the threads at a write.
LEMMA EndFacts ==
    ASSUME TypeOK, NEW t \in Threads, End(t)
    PROVE  /\ job' \in [Threads -> Jobs] /\ pc' \in [Threads -> Labels]
           /\ \A s \in Threads \ {t} : job'[s] = job[s] /\ pc'[s] = pc[s]
  <1>1. job \in [Threads -> Jobs] /\ pc \in [Threads -> Labels]
    BY DEF TypeOK, Jobs, Labels
  <1> QED BY <1>1, NoJobType DEF End, Goto, Labels

LEMMA SaveKeeps == ASSUME IInv, NEW t \in Threads, Save(t) PROVE IInv'
  <1> DEFINE j == job[t]
  <1>1. TypeOK /\ Drawn /\ Apart /\ OwnUuid /\ PasswordsStay
    BY DEF IInv
  <1>2. /\ j \in Jobs /\ j.user \in Users /\ Creates(j) /\ j.id \in 1 .. creations
        /\ users[j.id] = None /\ j.user.uuid = Own(j.id)
    BY <1>1 DEF IInv, Sound, SoundId, Save, Answered, Creates, TypeOK, Jobs
  <1>3. j.id \in Ids /\ j.user # None
    <2>1. j.id \in Ids
      BY <1>1, <1>2, MaxUsersAssumption DEF TypeOK, Ids
    <2>2. j.user # None
      BY <1>2, NoneAssumption
    <2> QED BY <2>1, <2>2
  <1>4. /\ users' = [users EXCEPT ![j.id] = j.user]
        /\ meant' = [meant EXCEPT ![j.id] = j.user.password]
        /\ End(t) /\ UNCHANGED <<creations, registry, gone, stale, reverted, overlapped>>
    BY DEF Save
  <1>5. TypeOK'
    <2>1. users' \in [Ids -> Users \cup {None}] /\ meant' \in [Ids -> Passwords \cup {None}]
      BY <1>1, <1>2, <1>3, <1>4 DEF TypeOK, Users
    <2> QED BY <1>1, <1>4, <2>1, EndFacts DEF TypeOK, Jobs, Labels
  <1>6. Drawn'
    BY <1>1, <1>2, <1>3, <1>4 DEF Drawn, TypeOK
  <1>7. OwnUuid'
    BY <1>1, <1>2, <1>3, <1>4 DEF OwnUuid, Own, TypeOK
  <1>8. PasswordsStay'
    BY <1>1, <1>3, <1>4 DEF PasswordsStay, TypeOK
  <1>9. Frame(t)
    <2>1. ASSUME NEW s \in Threads \ {t}, NEW i \in Ids, s \in CopiedFrom(i) PROVE i # j.id
      BY <1>1, <1>2, <2>1 DEF CopiedFrom, Apart
    <2>2. \A i \in Ids : i # j.id => meant'[i] = meant[i] /\ users'[i] = users[i]
      BY <1>1, <1>3, <1>4 DEF TypeOK
    <2> QED BY <1>1, <1>2, <1>4, <2>1, <2>2, EndFacts DEF Frame, TypeOK
  <1> QED BY <1>4, <1>5, <1>6, <1>7, <1>8, <1>9, WriteKeeps

LEMMA RemoveKeeps == ASSUME IInv, NEW t \in Threads, Remove(t) PROVE IInv'
  <1> DEFINE i == job[t].found
  <1>1. TypeOK /\ Drawn /\ OwnUuid /\ PasswordsStay
    BY DEF IInv
  <1>2. i \in Ids
    BY <1>1 DEF Remove, OneFound, TypeOK
  <1>3. /\ users' = [users EXCEPT ![i] = None]
        /\ gone' = IF users[i] # None THEN gone \cup ({users[i].uuid} \ {None}) ELSE gone
        /\ End(t) /\ UNCHANGED <<creations, registry, meant, stale, reverted, overlapped>>
    BY DEF Remove
  <1>4. TypeOK'
    <2>1. gone' \subseteq Uuids /\ users' \in [Ids -> Users \cup {None}]
      BY <1>1, <1>2, <1>3 DEF TypeOK, Users
    <2> QED BY <1>1, <1>3, <2>1, EndFacts DEF TypeOK, Jobs, Labels
  <1>5. Drawn' /\ OwnUuid' /\ PasswordsStay'
    BY <1>1, <1>2, <1>3 DEF Drawn, OwnUuid, PasswordsStay, TypeOK
  <1>6. Frame(t)
    BY <1>1, <1>2, <1>3, EndFacts DEF Frame, TypeOK
  <1> QED BY <1>3, <1>4, <1>5, <1>6, WriteKeeps

\* A user that is gone by now is not written.
LEMMA UnwrittenKeeps ==
    ASSUME IInv, NEW t \in Threads, Unwritten(t), End(t), UNCHANGED <<creations, registry, overlapped>>
    PROVE  IInv'
  <1>1. Goes(t, NoJob) /\ Follows(t, NoJob)
    <2>1. t \in DOMAIN pc /\ overlapped \in BOOLEAN
      BY DEF IInv, TypeOK
    <2> QED BY <2>1, NoneAssumption
            DEF Unwritten, End, Goto, Goes, Follows, Labels, NoJob, Creates, Operations
  <1> QED BY <1>1, NoJobType, SoundNothing, GoesKeeps

\* What is common to Set and Replace: the user with _id i becomes d.
LEMMA RewriteKeeps ==
    ASSUME IInv, NEW t \in Threads, NEW i \in Ids, NEW d \in Users, users[i] # None,
           users' = [users EXCEPT ![i] = d],
           gone' = IF d.uuid # users[i].uuid THEN gone \cup ({users[i].uuid} \ {None}) ELSE gone,
           d.uuid \in {Own(i)} \cup gone',
           meant' \in [Ids -> Passwords \cup {None}], reverted' \subseteq Ids, stale' \subseteq Threads,
           \A k \in Ids \ {i} : meant'[k] = meant[k] /\ (k \in reverted' <=> k \in reverted),
           i \in reverted' \/ d.password = meant'[i],
           \/ meant' = meant /\ reverted \subseteq reverted' /\ stale \ {t} \subseteq stale'
           \/ stale' = (stale \cup CopiedFrom(i)) \ {t},
           End(t), UNCHANGED <<creations, registry, overlapped>>
    PROVE  IInv'
  <1>1. TypeOK /\ Drawn /\ OwnUuid /\ PasswordsStay
    BY DEF IInv
  <1>2. d # None
    BY NoneAssumption
  <1>3. TypeOK'
    <2>1. gone' \subseteq Uuids /\ users' \in [Ids -> Users \cup {None}]
      BY <1>1 DEF TypeOK, Users
    <2> QED BY <1>1, <2>1, EndFacts DEF TypeOK, Jobs, Labels
  <1>4. \A k \in Ids : users'[k] = IF k = i THEN d ELSE users[k]
    BY <1>1 DEF TypeOK
  <1>5. Drawn'
    BY <1>1, <1>4 DEF Drawn
  <1>6. OwnUuid'
    BY <1>1, <1>4 DEF OwnUuid, Own
  <1>7. PasswordsStay'
    BY <1>1, <1>4 DEF PasswordsStay
  <1>8. Frame(t)
    <2>1. \A s \in Threads \ {t} : s \notin stale' => s \notin stale
      OBVIOUS
    <2>2. ASSUME NEW s \in Threads \ {t}, s \notin stale', NEW k \in Ids, s \in CopiedFrom(k)
          PROVE  meant'[k] = meant[k] /\ (k \in reverted => k \in reverted')
      BY <2>2
    <2> QED BY <1>1, <1>2, <1>4, <2>1, <2>2, EndFacts DEF Frame, TypeOK
  <1> QED BY <1>3, <1>5, <1>6, <1>7, <1>8, WriteKeeps

LEMMA SetKeeps ==
    ASSUME IInv, NEW t \in Threads, NEW operation \in {"update", "password"}, Set(t, operation)
    PROVE  IInv'
  <1> DEFINE j == job[t]
             i == j.found
             d == Written(users[i], j.user)
  <1>1. TypeOK /\ Drawn /\ OwnUuid /\ PasswordsStay /\ Sound(t, j)
    BY DEF IInv
  <1>2. /\ j \in Jobs /\ j.user \in Users /\ i \in Ids /\ j.op = operation /\ "uuid" \notin j.todo
        /\ End(t) /\ UNCHANGED <<creations, registry, overlapped>>
    BY <1>1 DEF Set, Answered, OneFound, TypeOK, Jobs
  <1>3. CASE users[i] = None
    BY <1>2, <1>3, UnwrittenKeeps DEF Set
  <1>4. CASE users[i] # None
    <2>1. users' = [users EXCEPT ![i] = d] /\ Wrote(t, i, j.origin)
      BY <1>4 DEF Set
    <2>2. users[i] \in Users /\ users'[i] = d
      BY <1>1, <1>2, <1>4, <2>1 DEF TypeOK
    <2>3. /\ d \in Users
          /\ d.uuid = IF j.user.uuid # None THEN j.user.uuid ELSE users[i].uuid
          /\ d.password = IF j.user.password # None THEN j.user.password ELSE users[i].password
      BY <1>2, <2>2, WrittenUser
    <2>4. gone' = IF d.uuid # users[i].uuid THEN gone \cup ({users[i].uuid} \ {None}) ELSE gone
      BY <2>1, <2>2 DEF Wrote
    <2> HIDE DEF d
    <2>5. d.uuid \in {Own(i)} \cup gone'
      <3>1. users[i].uuid \in {Own(i)} \cup gone
        BY <1>1, <1>2, <1>4 DEF OwnUuid, Own
      <3>2. CASE j.user.uuid # None
        <4>1. j.user.uuid \in gone \/ users[i].uuid = j.user.uuid
          BY <1>1, <1>2, <3>2 DEF Sound, SoundUuid, Has
        <4> QED BY <2>3, <2>4, <3>1, <3>2, <4>1
      <3>3. CASE j.user.uuid = None
        BY <2>3, <2>4, <3>1, <3>3
      <3> QED BY <3>2, <3>3
    <2>6. i \in reverted \/ users[i].password = meant[i]
      BY <1>1, <1>2, <1>4 DEF PasswordsStay
    <2>7. CASE j.op = "password"
      <3>1. /\ meant' = [meant EXCEPT ![i] = j.user.password]
            /\ stale' = (stale \cup CopiedFrom(i)) \ {t} /\ reverted' = reverted \ {i}
        BY <2>1, <2>7 DEF Wrote
      <3>2. j.user.password \in Passwords
        BY <1>1, <1>2, <2>7 DEF Sound, SoundPassword, Users
      <3>3. d.password = meant'[i]
        BY <1>1, <1>2, <2>3, <3>1, <3>2, NoneAssumption DEF TypeOK
      <3>4. /\ meant' \in [Ids -> Passwords \cup {None}]
            /\ \A k \in Ids \ {i} : meant'[k] = meant[k]
        BY <1>1, <1>2, <3>1, <3>2 DEF TypeOK
      <3>5. /\ reverted' \subseteq Ids /\ stale' \subseteq Threads
            /\ \A k \in Ids \ {i} : k \in reverted' <=> k \in reverted
        BY <1>1, <3>1 DEF TypeOK, CopiedFrom
      <3> QED BY <1>2, <1>4, <2>1, <2>3, <2>4, <2>5, <3>1, <3>3, <3>4, <3>5, RewriteKeeps
    <2>8. CASE j.op # "password"
      <3>1. /\ meant' = meant /\ stale' = stale \ {t}
            /\ reverted' = IF j.user.password # None /\ (j.origin # i \/ t \in stale)
                           THEN reverted \cup {i} ELSE reverted
        BY <2>1, <2>8 DEF Wrote
      <3>2. i \in reverted' \/ d.password = meant'[i]
        <4>1. CASE j.user.password # None /\ (j.origin # i \/ t \in stale)
          BY <3>1, <4>1
        <4>2. CASE j.user.password # None /\ j.origin = i /\ t \notin stale
          <5>1. i # None
            BY <1>2, NoneAssumption, MaxUsersAssumption DEF Ids
          <5>2. i \in reverted \/ j.user.password \in {None, meant[i]}
            BY <1>1, <4>2, <5>1 DEF Sound, SoundCopy
          <5> QED BY <2>3, <3>1, <4>2, <5>2
        <4>3. CASE j.user.password = None
          BY <2>3, <2>6, <3>1, <4>3
        <4> QED BY <4>1, <4>2, <4>3
      <3>3. reverted' \subseteq Ids /\ \A k \in Ids \ {i} : k \in reverted' <=> k \in reverted
        BY <1>1, <1>2, <3>1 DEF TypeOK
      <3>4. meant' \in [Ids -> Passwords \cup {None}] /\ stale' \subseteq Threads
        BY <1>1, <3>1 DEF TypeOK
      <3> QED BY <1>2, <1>4, <2>1, <2>3, <2>4, <2>5, <3>1, <3>2, <3>3, <3>4, RewriteKeeps
    <2> QED BY <2>7, <2>8
  <1> QED BY <1>3, <1>4

LEMMA ReplaceKeeps == ASSUME IInv, NEW t \in Threads, Replace(t) PROVE IInv'
  <1> DEFINE j == job[t]
             i == j.found
             d == Completed(j.match, j.user)
  <1>1. TypeOK /\ PasswordsStay /\ Sound(t, j)
    BY DEF IInv
  <1>2. /\ j \in Jobs /\ j.user \in Users /\ j.match \in Users /\ i \in Ids /\ i # None
        /\ j.op = "oauth" /\ End(t) /\ UNCHANGED <<creations, registry, overlapped>>
    BY <1>1 DEF Replace, Answered, OneFound, TypeOK, Jobs
  <1>3. CASE users[i] = None
    BY <1>2, <1>3, UnwrittenKeeps DEF Replace
  <1>4. CASE users[i] # None
    <2>1. /\ users' = [users EXCEPT ![i] = d]
          /\ gone' = IF d.uuid # users[i].uuid THEN gone \cup ({users[i].uuid} \ {None}) ELSE gone
          /\ reverted' = IF t \in stale THEN reverted \cup {i} ELSE reverted
          /\ stale' = stale \ {t} /\ meant' = meant
      BY <1>4 DEF Replace
    <2>2. j.user.uuid = None /\ j.user.password = None
      BY <1>1, <1>2 DEF Sound, SoundId, SoundPassword, Creates
    <2>3. d \in Users /\ d.uuid = j.match.uuid /\ d.password = j.match.password
      BY <1>2, <2>2, CompletedUser
    <2> HIDE DEF d
    <2>4. d.uuid \in {Own(i)} \cup gone'
      BY <1>1, <1>2, <2>1, <2>3 DEF Sound, SoundCopy
    <2>5. i \in reverted' \/ d.password = meant'[i]
      BY <1>1, <1>2, <2>1, <2>3 DEF Sound, SoundCopy
    <2>6. /\ reverted' \subseteq Ids /\ stale' \subseteq Threads /\ meant' \in [Ids -> Passwords \cup {None}]
          /\ \A k \in Ids \ {i} : meant'[k] = meant[k] /\ (k \in reverted' <=> k \in reverted)
          /\ meant' = meant /\ reverted \subseteq reverted' /\ stale \ {t} \subseteq stale'
      BY <1>1, <1>2, <2>1 DEF TypeOK
    <2> QED BY <1>2, <1>4, <2>1, <2>3, <2>4, <2>5, <2>6, RewriteKeeps
  <1> QED BY <1>3, <1>4

-----------------------------------------------------------------------------
(***************************************************************************)
(* Requests one after the other.  A second invariant, on top of the first: *)
(* a request that is alone writes only what it has looked for in vain, or  *)
(* found on the user it writes.                                            *)
(***************************************************************************)
Unique == Attributes \ {"firstName"}

\* The user a request has found is as it was found, and is the only one that
\* can have what the request has looked for.
Informed(j) ==
    /\ j.found # None => users[j.found] # None /\ j.match = Match(j.op, users[j.found])
    /\ j.found = None \/ ~j.many =>
          \A k \in Unique \ j.todo : j.user[k] # None =>
              \A i \in Having(k, j.user[k]) : i = j.found

Distinct ==
    \A i, j \in Ids : i # j /\ users[i] # None /\ users[j] # None =>
        \A k \in Unique : users[i][k] = users[j][k] => users[i][k] = None

Alone ==
    ~overlapped =>
        /\ \A s, t \in Threads : pc[s] = "query" /\ pc[t] = "query" => s = t
        /\ \A t \in Threads : pc[t] = "query" => Informed(job[t])
        /\ Distinct

AInv == gone \subseteq 1 .. creations /\ Alone

\* Every findOne adds to what the request knows: a second user with the uuid
\* of the first is the first.
LEMMA LookedInformed ==
    ASSUME TypeOK, Distinct, NEW j \in Jobs, j.todo # {}, Informed(j), NEW l \in Looked(j)
    PROVE  Informed(l)
  <1> DEFINE k == NextKey(j.todo)
             rest == [j EXCEPT !.todo = @ \ {k}]
             hits == Having(k, j.user[k])
             Only(i) == \A n \in Unique \ (j.todo \ {k}) : j.user[n] # None =>
                            \A m \in Having(n, j.user[n]) : m = i
  <1>1. /\ rest.op = j.op /\ rest.user = j.user /\ rest.todo = j.todo \ {k}
        /\ rest.found = j.found /\ rest.match = j.match /\ rest.many = j.many
        /\ rest \in Jobs
    BY DEF Jobs
  <1>2. None \notin Ids /\ \A n, v : Having(n, v) \subseteq Ids
    BY NoneAssumption, MaxUsersAssumption DEF Ids, Having
  <1>3. \A i \in hits : users[i] # None /\ users[i][k] = j.user[k]
    BY DEF Having
  <1>4. ASSUME k \in Unique, j.user[k] # None, NEW i \in hits PROVE hits = {i}
    BY <1>2, <1>3, <1>4 DEF Distinct
  <1>5. j.found = None \/ ~j.many =>
            \A n \in Unique \ j.todo : j.user[n] # None =>
                \A m \in Having(n, j.user[n]) : m = j.found
    BY DEF Informed
  <1>6. ASSUME j.found = None \/ ~j.many, NEW i, j.found # None => i = j.found,
               \A m \in hits : k \in Unique /\ j.user[k] # None => m = i
        PROVE  Only(i)
    <2> SUFFICES ASSUME NEW n \in Unique \ (j.todo \ {k}), j.user[n] # None,
                        NEW m \in Having(n, j.user[n])
                 PROVE  m = i
      OBVIOUS
    <2>1. CASE n = k
      BY <1>6, <2>1
    <2>2. CASE n # k
      <3>1. m = j.found
        BY <1>5, <1>6, <2>2
      <3> QED BY <1>2, <1>6, <3>1
    <2> QED BY <2>1, <2>2
  <1>7. CASE hits = {}
    <2>1. l = rest
      BY <1>7 DEF Looked
    <2>2. j.found = None \/ ~j.many => Only(j.found)
      BY <1>6, <1>7
    <2> HIDE DEF k, rest, hits
    <2> QED BY <1>1, <2>1, <2>2 DEF Informed
  <1>8. CASE hits # {} /\ j.found = None
    <2>1. PICK i \in hits : l = [rest EXCEPT !.found = i, !.match = Match(j.op, users[i])]
      BY <1>8 DEF Looked
    <2>2. Only(i)
      BY <1>4, <1>6, <1>8
    <2> HIDE DEF k, rest, hits
    <2>3. /\ l.op = j.op /\ l.user = j.user /\ l.todo = j.todo \ {k}
          /\ l.found = i /\ l.match = Match(j.op, users[i])
      BY <1>1, <2>1 DEF Jobs
    <2> QED BY <1>3, <2>2, <2>3 DEF Informed
  <1>9. CASE hits # {} /\ j.found # None
    <2>1. PICK i \in hits :
              l = [rest EXCEPT !.many = @ \/ users[i].uuid = None \/ users[i].uuid # j.match.uuid]
      BY <1>9 DEF Looked
    <2> HIDE DEF k, rest, hits
    <2>2. /\ l.op = j.op /\ l.user = j.user /\ l.todo = j.todo \ {k}
          /\ l.found = j.found /\ l.match = j.match
      BY <1>1, <2>1 DEF Jobs
    <2>3. l.many <=> j.many \/ users[i].uuid = None \/ users[i].uuid # j.match.uuid
      BY <1>1, <2>1 DEF Jobs
    <2>4. users[j.found] # None /\ j.match = Match(j.op, users[j.found]) /\ j.found \in Ids
      BY <1>9 DEF Informed, Jobs
    <2>5. j.match.uuid = users[j.found].uuid
      <3>1. users[j.found] \in Users
        BY <2>4 DEF TypeOK
      <3> QED BY <2>4, <3>1 DEF Match, NoUser
    <2>6. ASSUME ~l.many PROVE i = j.found
      <3>1. users[i].uuid # None /\ users[i].uuid = users[j.found].uuid
        BY <2>3, <2>5, <2>6
      <3>2. i \in Ids /\ users[i] # None
        BY <1>2, <1>3 DEF hits
      <3> QED BY <2>4, <3>1, <3>2 DEF Distinct, Unique, Attributes
    <2>7. ASSUME ~l.many PROVE Only(j.found)
      <3>1. ~j.many /\ \A m \in hits : k \in Unique /\ j.user[k] # None => m = j.found
        BY <1>4, <2>3, <2>6, <2>7
      <3> QED BY <1>6, <3>1
    <2> QED BY <1>9, <2>2, <2>4, <2>7 DEF Informed
  <1> QED BY <1>7, <1>8, <1>9

\* A step of t, when no other request is in between its queries.
LEMMA StepAlone ==
    ASSUME Alone, NEW t \in Threads,
           \A s \in Threads \ {t} : job'[s] = job[s] /\ pc'[s] = pc[s],
           ~overlapped' =>
              /\ ~overlapped /\ Distinct'
              /\ pc'[t] = "query" => Informed(job[t])'
              /\ \/ pc'[t] # "query" /\ users' = users
                 \/ \A s \in Threads \ {t} : pc[s] # "query"
    PROVE  Alone'
  <1> SUFFICES ASSUME ~overlapped'
               PROVE  /\ \A s, r \in Threads : pc'[s] = "query" /\ pc'[r] = "query" => s = r
                      /\ \A s \in Threads : pc'[s] = "query" => Informed(job[s])'
                      /\ Distinct'
    BY DEF Alone
  <1>1. \A s \in Threads : pc[s] = "query" => Informed(job[s])
    BY DEF Alone
  <1>2. ASSUME NEW s \in Threads, pc'[s] = "query" PROVE Informed(job[s])'
    <2>1. CASE s # t
      <3>1. Informed(job[s]) /\ job'[s] = job[s] /\ users' = users
        BY <1>1, <1>2, <2>1
      <3> QED BY <3>1 DEF Informed, Having
    <2> QED BY <1>2, <2>1
  <1>3. ASSUME NEW s \in Threads, NEW r \in Threads, pc'[s] = "query", pc'[r] = "query"
        PROVE  s = r
    BY <1>3 DEF Alone
  <1> QED BY <1>2, <1>3

\* A request begins, and knows what it will not look for to be on no user.
LEMMA BeginAlone ==
    ASSUME IInv, Alone, NEW t \in Threads, NEW j \in Jobs, Begin(t, j), users' = users,
           j.found = None,
           \A k \in Unique \ j.todo : j.user[k] # None => Having(k, j.user[k]) = {}
    PROVE  Alone'
  <1>1. Informed(j)
    BY DEF Informed
  <1>2. \A s \in Threads \ {t} : job'[s] = job[s] /\ pc'[s] = pc[s]
    BY DEF IInv, TypeOK, Begin, Goto
  <1>3. ~overlapped' => ~overlapped /\ \A s \in Threads \ {t} : pc[s] # "query"
    BY DEF Begin
  <1>4. ~overlapped' => Distinct /\ Distinct'
    BY <1>3 DEF Alone, Distinct
  <1>5. ASSUME ~overlapped', pc'[t] = "query" PROVE Informed(job[t])'
    <2>1. j.todo # {}
      BY <1>5 DEF Begin, Goto, IInv, TypeOK
    <2>2. PICK l \in Looked(j) : job' = [job EXCEPT ![t] = l]
      BY <2>1 DEF Begin
    <2>3. Informed(l)
      BY <1>1, <1>4, <1>5, <2>1, LookedInformed DEF IInv
    <2>4. job'[t] = l
      BY <2>2 DEF IInv, TypeOK
    <2> QED BY <2>3, <2>4 DEF Informed, Having
  <1> QED BY <1>2, <1>3, <1>4, <1>5, StepAlone

\* A uuid that is drawn now is on no user and was on none.
LEMMA DrawnIsNew ==
    ASSUME IInv, gone \subseteq 1 .. creations, NEW i \in Ids, users[i] # None
    PROVE  users[i].uuid \in 1 .. creations \cup {None}
  BY DEF IInv, OwnUuid, Drawn, TypeOK, Ids

LEMMA RequestAlone ==
    ASSUME IInv, AInv, NEW t \in Threads, Request(t)
    PROVE  Alone'
  <1> USE DEF AInv
  <1>1. \A who \in Persons : who \in Users /\ who.uuid = None
    BY DEF Persons, Users
  <1>2. \A user : \A k \in Unique \ KeysOf(user) : user[k] = None
    BY DEF KeysOf, Unique
  <1>3. ASSUME NEW user \in Users, user.uuid = None, CreateUser(t, user)
        PROVE  Alone'
    <2> DEFINE drawn == [user EXCEPT !.uuid = creations']
               j == [NoJob EXCEPT !.op = "add", !.id = creations', !.user = drawn,
                                  !.todo = KeysOf(user)]
    <2>1. creations' = creations + 1 /\ creations' \in Ids /\ creations \in Nat
      BY <1>3, MaxUsersAssumption DEF CreateUser, IInv, TypeOK, Ids
    <2>2. drawn \in Users /\ drawn.uuid = creations' /\ \A k \in Unique : k # "uuid" => drawn[k] = user[k]
      BY <2>1 DEF Users, Uuids, Ids, Unique, Attributes
    <2>3. Begin(t, j) /\ users' = users
      BY <1>3 DEF CreateUser
    <2>4. Having("uuid", creations') = {}
      <3>1. creations' \notin 1 .. creations \cup {None}
        BY <2>1, NoneAssumption
      <3> QED BY <3>1, DrawnIsNew DEF Having
    <2> HIDE DEF drawn
    <2>5. j \in Jobs /\ j.user = drawn /\ j.todo = KeysOf(user) /\ j.found = None
      BY ZenonT(60), <2>1, <2>2, KeysFacts, NoJobType DEF NoJob, Jobs, Operations
    <2> HIDE DEF j
    <2>6. \A k \in Unique \ j.todo : j.user[k] # None => Having(k, j.user[k]) = {}
      BY <1>2, <2>2, <2>4, <2>5
    <2> QED BY <2>3, <2>5, <2>6, BeginAlone
  <1>4. ASSUME NEW user \in Users, UpdateUser(t, user) PROVE Alone'
    <2> DEFINE j == [NoJob EXCEPT !.op = "update", !.user = user, !.todo = KeysOf(user)]
    <2>1. j \in Jobs /\ j.user = user /\ j.todo = KeysOf(user) /\ j.found = None
      BY KeysFacts, NoJobType DEF NoJob, Jobs, Operations
    <2>2. Begin(t, j) /\ users' = users
      BY <1>4 DEF UpdateUser
    <2> HIDE DEF j
    <2> QED BY <1>2, <2>1, <2>2, BeginAlone
  <1>5. ASSUME NEW user \in Users, DeleteUser(t, user) PROVE Alone'
    <2> DEFINE j == [NoJob EXCEPT !.op = "delete", !.user = user, !.todo = KeysOf(user)]
    <2>1. j \in Jobs /\ j.user = user /\ j.todo = KeysOf(user) /\ j.found = None
      BY KeysFacts, NoJobType DEF NoJob, Jobs, Operations
    <2>2. Begin(t, j) /\ users' = users
      BY <1>5 DEF DeleteUser
    <2> HIDE DEF j
    <2> QED BY <1>2, <2>1, <2>2, BeginAlone
  <1>6. ASSUME NEW i \in Ids, NEW n \in Usernames \cup {None}, ReadForm(t, i, n) PROVE Alone'
    <2>1. /\ \A s \in Threads \ {t} : job'[s] = job[s] /\ pc'[s] = pc[s]
          /\ pc'[t] = "form" /\ users' = users /\ overlapped' = overlapped
      BY <1>6 DEF ReadForm, Goto, IInv, TypeOK
    <2>2. Alone /\ (~overlapped' => Distinct')
      BY <2>1 DEF Alone, Distinct
    <2> QED BY <2>1, <2>2, StepAlone
  <1>7. CASE PostForm(t)
    <2> DEFINE j == [job[t] EXCEPT !.op = "update", !.todo = KeysOf(job[t].user)]
    <2>1. job[t] \in Jobs /\ job[t].user \in Users /\ job[t].found = None
      BY <1>7 DEF IInv, TypeOK, Jobs, Forms, PostForm
    <2>2. j \in Jobs /\ j.user = job[t].user /\ j.todo = KeysOf(job[t].user) /\ j.found = None
      BY <2>1, KeysFacts DEF Jobs, Operations
    <2>3. Begin(t, j) /\ users' = users
      BY <1>7 DEF PostForm
    <2> HIDE DEF j
    <2> QED BY <1>2, <2>2, <2>3, BeginAlone
  <1>8. ASSUME NEW who \in Persons, NEW key \in {"username", "email"}, NEW p \in Passwords,
               who[key] # None, ChangePassword(t, key, who[key], p)
        PROVE  Alone'
    <2> DEFINE user == [NoUser EXCEPT ![key] = who[key], !.password = p]
               j == [NoJob EXCEPT !.op = "identify", !.todo = {key}, !.user = user]
    <2>1. user \in Users /\ \A k \in Unique \ {key} : user[k] = None
      <3>1. /\ who.username \in Usernames \cup {None} /\ who.email \in Emails \cup {None}
            /\ key = "username" \/ key = "email"
        BY DEF Persons
      <3>2. CASE key = "username"
        <4>1. user = [NoUser EXCEPT !.username = who.username, !.password = p]
          BY <3>2
        <4> HIDE DEF user
        <4>2. user = [uuid |-> None, username |-> who.username, email |-> None,
                      firstName |-> None, password |-> p]
          BY <4>1 DEF NoUser
        <4>3. user \in Users
          BY <3>1, <4>2 DEF Users
        <4>4. user.uuid = None /\ user.email = None
          BY <4>2
        <4> QED BY <3>2, <4>3, <4>4 DEF Unique, Attributes
      <3>3. CASE key = "email"
        <4>1. user = [NoUser EXCEPT !.email = who.email, !.password = p]
          BY <3>3
        <4> HIDE DEF user
        <4>2. user = [uuid |-> None, username |-> None, email |-> who.email,
                      firstName |-> None, password |-> p]
          BY <4>1 DEF NoUser
        <4>3. user \in Users
          BY <3>1, <4>2 DEF Users
        <4>4. user.uuid = None /\ user.username = None
          BY <4>2
        <4> QED BY <3>3, <4>3, <4>4 DEF Unique, Attributes
      <3> QED BY <3>1, <3>2, <3>3
    <2> HIDE DEF user
    <2>2. j \in Jobs /\ j.user = user /\ j.todo = {key} /\ j.found = None
      BY <2>1, NoJobType DEF NoJob, Jobs, Operations, Attributes
    <2>3. Begin(t, j) /\ users' = users
      BY <1>8 DEF ChangePassword, user
    <2> HIDE DEF j
    <2> QED BY <2>1, <2>2, <2>3, BeginAlone
  <1>9. ASSUME NEW user \in Users, LoginByOAuth2(t, user) PROVE Alone'
    <2> DEFINE keys == {k \in Attributes : user[k] # None}
               j == [NoJob EXCEPT !.op = "oauth", !.id = creations', !.user = user, !.todo = keys]
    <2>1. creations' \in Ids
      BY <1>9, MaxUsersAssumption DEF LoginByOAuth2, IInv, TypeOK, Ids
    <2>2. keys \in SUBSET Attributes /\ \A k \in Unique \ keys : user[k] = None
      BY DEF Unique
    <2>3. Begin(t, j) /\ users' = users
      BY <1>9 DEF LoginByOAuth2
    <2> HIDE DEF keys
    <2>4. j \in Jobs /\ j.user = user /\ j.todo = keys /\ j.found = None
      BY <2>1, <2>2, NoJobType DEF NoJob, Jobs, Operations
    <2> HIDE DEF j
    <2> QED BY <2>2, <2>3, <2>4, BeginAlone
  <1>10. ASSUME NEW who \in Persons, NEW p \in Passwords
         PROVE  [who EXCEPT !.password = p] \in Users /\ [who EXCEPT !.password = p].uuid = None
    BY <1>1 DEF Users
  <1>11. ASSUME NEW i \in Ids, Known(i) PROVE [NoUser EXCEPT !.uuid = users[i].uuid] \in Users
    BY <1>11 DEF IInv, TypeOK, Users, Known, NoUser
  <1>12. ASSUME NEW e \in Emails, NEW f \in FirstNames
         PROVE  [NoUser EXCEPT !.email = e, !.firstName = f] \in Users
    BY DEF NoUser, Users
  <1> QED BY <1>1, <1>3, <1>4, <1>5, <1>6, <1>7, <1>8, <1>9, <1>10, <1>11, <1>12 DEF Request

\* The user with _id i becomes d, which shares nothing with the others.
LEMMA RewriteDistinct ==
    ASSUME TypeOK, Distinct, NEW i \in Ids, NEW d, users' = [users EXCEPT ![i] = d],
           \A k \in Unique : d[k] # None =>
              \A m \in Ids \ {i} : users[m] # None => users[m][k] # d[k]
    PROVE  Distinct'
  <1>1. \A m \in Ids : users'[m] = IF m = i THEN d ELSE users[m]
    BY DEF TypeOK
  <1> QED BY <1>1 DEF Distinct

LEMMA WorkAlone ==
    ASSUME IInv, AInv, NEW t \in Threads, Work(t)
    PROVE  Alone'
  <1> DEFINE j == job[t]
  <1> USE DEF AInv
  <1>1. TypeOK /\ j \in Jobs /\ j.user \in Users /\ j.match \in Users
    BY DEF IInv, TypeOK, Jobs
  <1>2. pc[t] = "query" /\ overlapped' = overlapped
    BY DEF Work, Query, Refuse, Save, Set, Load, Remove, Register, Replace, Answered, history
  <1>3. ~overlapped => /\ \A s \in Threads \ {t} : pc[s] # "query"
                       /\ Informed(j) /\ Distinct
    BY <1>2 DEF Alone
  <1>4. ASSUME \A s \in Threads \ {t} : job'[s] = job[s] /\ pc'[s] = pc[s],
               ~overlapped => Distinct' /\ Informed(job[t])'
        PROVE  Alone'
    BY <1>2, <1>3, <1>4, StepAlone
  <1>5. ASSUME End(t), ~overlapped => Distinct'
        PROVE  Alone'
    <2>1. pc'[t] # "query"
      BY <1>1, <1>5 DEF End, Goto, TypeOK
    <2> QED BY <1>1, <1>2, <1>3, <1>5, <2>1, EndFacts, StepAlone
  <1>6. users' = users /\ Distinct => Distinct'
    BY DEF Distinct
  <1>7. ASSUME NEW l, job' = [job EXCEPT ![t] = l], pc' = pc, users' = users,
               ~overlapped => Informed(l)
        PROVE  Alone'
    <2>1. job'[t] = l /\ \A s \in Threads \ {t} : job'[s] = job[s] /\ pc'[s] = pc[s]
      BY <1>1, <1>7 DEF TypeOK
    <2>2. ~overlapped => Informed(job[t])'
      BY <1>7, <2>1 DEF Informed, Having
    <2> QED BY <1>3, <1>4, <1>6, <1>7, <2>1, <2>2
  <1>8. CASE Query(t)
    <2>1. PICK l \in Looked(j) : job' = [job EXCEPT ![t] = l]
      BY <1>8 DEF Query
    <2>2. ~overlapped => Informed(l)
      BY <1>1, <1>3, <1>8, LookedInformed DEF Query
    <2> QED BY <1>7, <1>8, <2>1, <2>2 DEF Query
  <1>9. CASE Refuse(t)
    BY <1>3, <1>5, <1>6, <1>9 DEF Refuse
  <1>10. \A k \in Unique \ KeysOf(j.user) : j.user[k] = None
    BY DEF KeysOf, Unique
  <1>11. CASE Register(t)
    <2> DEFINE l == [j EXCEPT !.op = "add", !.todo = KeysOf(j.user)]
    <2>1. job' = [job EXCEPT ![t] = l] /\ UNCHANGED <<pc, users>>
      BY <1>1, <1>11 DEF Register, TypeOK
    <2>2. l.user = j.user /\ l.todo = KeysOf(j.user) /\ l.found = None
      BY <1>1, <1>11 DEF Register, NoneFound, Jobs
    <2> HIDE DEF l
    <2>3. Informed(l)
      BY <1>10, <2>2 DEF Informed
    <2> QED BY <1>7, <2>1, <2>3
  <1>12. CASE Load(t)
    <2>1. CASE End(t)
      BY <1>3, <1>5, <1>6, <1>12, <2>1 DEF Load
    <2>2. ASSUME NEW i \in Having("uuid", j.match.uuid), NEW user,
                 user = [users[i] EXCEPT !.password = j.user.password],
                 job' = [job EXCEPT ![t] = [NoJob EXCEPT !.op = "password", !.user = user,
                                                         !.todo = KeysOf(user)]],
                 UNCHANGED pc
          PROVE  Alone'
      <3> DEFINE l == [NoJob EXCEPT !.op = "password", !.user = user, !.todo = KeysOf(user)]
      <3>1. l.user = user /\ l.todo = KeysOf(user) /\ l.found = None
        BY DEF NoJob
      <3>2. \A k \in Unique \ KeysOf(user) : user[k] = None
        BY DEF KeysOf, Unique
      <3>3. users' = users
        BY <1>12 DEF Load
      <3>4. job' = [job EXCEPT ![t] = l]
        BY <2>2
      <3> HIDE DEF l
      <3>5. Informed(l)
        BY <3>1, <3>2 DEF Informed
      <3> QED BY <1>7, <2>2, <3>3, <3>4, <3>5
    <2> QED BY <1>12, <2>1, <2>2 DEF Load
  <1>13. CASE Save(t)
    <2>1. /\ users' = [users EXCEPT ![j.id] = j.user] /\ End(t)
          /\ j.todo = {} /\ j.found = None /\ Creates(j)
      BY <1>13 DEF Save, Answered, NoneFound, Creates
    <2>2. j.id \in Ids
      BY <2>1, MaxUsersAssumption DEF IInv, Sound, SoundId, TypeOK, Ids
    <2>3. None \notin Ids
      BY NoneAssumption, MaxUsersAssumption DEF Ids
    <2>4. ASSUME ~overlapped, NEW k \in Unique, j.user[k] # None,
                 NEW m \in Ids \ {j.id}, users[m] # None
          PROVE  users[m][k] # j.user[k]
      BY <1>3, <2>1, <2>3, <2>4 DEF Informed, Having
    <2>5. ~overlapped => Distinct'
      BY <1>1, <1>3, <2>1, <2>2, <2>4, RewriteDistinct
    <2> QED BY <1>5, <2>1, <2>5
  <1>14. CASE Remove(t)
    <2>1. users' = [users EXCEPT ![j.found] = None] /\ End(t)
      BY <1>14 DEF Remove
    <2>2. \A m \in Ids : users'[m] \in {users[m], None}
      BY <1>1, <2>1 DEF TypeOK
    <2>3. Distinct => Distinct'
      <3>1. \A m \in Ids : users'[m] # None => users[m] # None /\ users'[m] = users[m]
        BY <2>2
      <3> QED BY <3>1 DEF Distinct
    <2> QED BY <1>3, <1>5, <2>1, <2>3
  <1>15. ASSUME ~overlapped, j.todo = {}, j.found # None, ~j.many, NEW k \in Unique,
                NEW m \in Ids \ {j.found}, users[m] # None
         PROVE  /\ j.user[k] # None => users[m][k] # j.user[k]
                /\ users[j.found] # None
                /\ users[j.found][k] # None => users[m][k] # users[j.found][k]
    <2>1. j.found \in Ids /\ users[j.found] # None
      BY <1>1, <1>3, <1>15 DEF Informed, Jobs
    <2>2. j.user[k] # None => users[m][k] # j.user[k]
      BY <1>3, <1>15 DEF Informed, Having
    <2>3. users[j.found][k] # None => users[m][k] # users[j.found][k]
      BY <1>3, <1>15, <2>1 DEF Distinct
    <2> QED BY <2>1, <2>2, <2>3
  <1>16. \A d \in Users, k \in Unique :
            /\ Written(d, j.user)[k] = IF j.user[k] # None THEN j.user[k] ELSE d[k]
            /\ Completed(d, j.user)[k] = IF d[k] = None THEN j.user[k] ELSE d[k]
    BY UserFields DEF Written, Completed, Unique, Attributes
  <1>17. ASSUME NEW operation \in {"update", "password"}, Set(t, operation)
         PROVE  Alone'
    <2> DEFINE i == j.found
               d == Written(users[i], j.user)
    <2>1. End(t) /\ j.todo = {} /\ i # None /\ ~j.many /\ i \in Ids
      BY <1>1, <1>17 DEF Set, Answered, OneFound, Jobs
    <2>2. CASE users[i] = None
      BY <1>3, <1>5, <1>6, <1>17, <2>1, <2>2 DEF Set, Unwritten
    <2>3. CASE users[i] # None
      <3>1. users' = [users EXCEPT ![i] = d]
        BY <1>17, <2>3 DEF Set
      <3>2. \A k \in Unique : d[k] = IF j.user[k] # None THEN j.user[k] ELSE users[i][k]
        BY <1>1, <1>16, <2>1, <2>3 DEF TypeOK
      <3> HIDE DEF d
      <3>3. ~overlapped => \A k \in Unique : d[k] # None =>
                \A m \in Ids \ {i} : users[m] # None => users[m][k] # d[k]
        BY <1>15, <2>1, <3>2
      <3>4. ~overlapped => Distinct'
        BY <1>1, <1>3, <2>1, <3>1, <3>3, RewriteDistinct
      <3> QED BY <1>5, <2>1, <3>4
    <2> QED BY <2>2, <2>3
  <1>18. CASE Replace(t)
    <2> DEFINE i == j.found
               d == Completed(j.match, j.user)
    <2>1. End(t) /\ j.todo = {} /\ i # None /\ ~j.many /\ i \in Ids /\ j.op = "oauth"
      BY <1>1, <1>18 DEF Replace, Answered, OneFound, Jobs
    <2>2. CASE users[i] = None
      BY <1>3, <1>5, <1>6, <1>18, <2>1, <2>2 DEF Replace, Unwritten
    <2>3. CASE users[i] # None
      <3>1. users' = [users EXCEPT ![i] = d]
        BY <1>18, <2>3 DEF Replace
      <3>2. ~overlapped => j.match = users[i]
        BY <1>3, <2>1 DEF Informed, Match
      <3>3. ~overlapped => \A k \in Unique :
                d[k] = IF users[i][k] = None THEN j.user[k] ELSE users[i][k]
        BY <1>1, <1>16, <3>2
      <3> HIDE DEF d
      <3>4. ~overlapped => \A k \in Unique : d[k] # None =>
                \A m \in Ids \ {i} : users[m] # None => users[m][k] # d[k]
        BY <1>15, <2>1, <3>3
      <3>5. ~overlapped => Distinct'
        BY <1>1, <1>3, <2>1, <3>1, <3>4, RewriteDistinct
      <3> QED BY <1>5, <2>1, <3>5
    <2> QED BY <2>2, <2>3
  <1> QED BY <1>8, <1>9, <1>11, <1>12, <1>13, <1>14, <1>17, <1>18 DEF Work

\* A uuid that is gone was drawn.
LEMMA GoneKept ==
    ASSUME IInv, AInv, [Next]_vars
    PROVE  (gone \subseteq 1 .. creations)'
  <1>1. creations \in Nat /\ creations' \in Nat /\ creations <= creations'
    <2>1. creations \in Nat
      BY MaxUsersAssumption DEF IInv, TypeOK
    <2>2. creations' = creations \/ creations' = creations + 1
      <3>1. ASSUME NEW t \in Threads, Request(t)
            PROVE  creations' = creations \/ creations' = creations + 1
        BY <3>1 DEF Request, CreateUser, UpdateUser, ReadForm, PostForm, ChangePassword,
           DeleteUser, LoginByOAuth2
      <3>2. ASSUME NEW t \in Threads, Work(t) PROVE creations' = creations
        BY <3>2 DEF Work, Query, Refuse, Save, Set, Load, Remove, Register, Replace
      <3> QED BY <3>1, <3>2 DEF Next, Quiet, vars
    <2> QED BY <2>1, <2>2
  <1>2. \A u \in gone' : u \in gone \/ \E i \in Ids : users[i] # None /\ u = users[i].uuid /\ u # None
    <2>1. CASE gone' = gone
      BY <2>1
    <2>2. ASSUME NEW i \in Ids, users[i] # None,
                 gone' \subseteq gone \cup ({users[i].uuid} \ {None})
          PROVE  \A u \in gone' : u \in gone \/ \E m \in Ids : users[m] # None /\ u = users[m].uuid /\ u # None
      BY <2>2
    <2>3. ASSUME NEW t \in Threads, Request(t) PROVE gone' = gone
      BY <2>3 DEF Request, CreateUser, UpdateUser, ReadForm, PostForm, ChangePassword,
         DeleteUser, LoginByOAuth2
    <2>4. ASSUME NEW t \in Threads, Work(t)
          PROVE  gone' = gone \/ \E i \in Ids : users[i] # None /\
                     gone' \subseteq gone \cup ({users[i].uuid} \ {None})
      <3>1. job[t].found # None => job[t].found \in Ids
        BY DEF IInv, TypeOK
      <3>2. CASE Query(t) \/ Refuse(t) \/ Save(t) \/ Load(t) \/ Register(t)
        BY <3>2 DEF Query, Refuse, Save, Load, Register, history
      <3>3. ASSUME NEW operation \in {"update", "password"}, Set(t, operation)
            PROVE  gone' = gone \/ \E i \in Ids : users[i] # None /\
                       gone' \subseteq gone \cup ({users[i].uuid} \ {None})
        <4> DEFINE i == job[t].found
        <4>1. i \in Ids
          BY <3>1, <3>3 DEF Set, OneFound
        <4>2. CASE users[i] = None
          BY <3>3, <4>2 DEF Set, Unwritten
        <4>3. CASE users[i] # None
          <5>1. Wrote(t, i, job[t].origin)
            BY <3>3, <4>3 DEF Set
          <5> HIDE DEF i
          <5>2. gone' = gone \/ gone' = gone \cup ({users[i].uuid} \ {None})
            BY <5>1 DEF Wrote
          <5> QED BY <4>1, <4>3, <5>2
        <4> QED BY <4>2, <4>3
      <3>4. CASE Remove(t) \/ Replace(t)
        <4> DEFINE i == job[t].found
        <4>1. i \in Ids
          BY <3>1, <3>4 DEF Remove, Replace, OneFound
        <4>2. \/ gone' = gone
              \/ users[i] # None /\ gone' = gone \cup ({users[i].uuid} \ {None})
          <5>1. CASE Remove(t)
            BY <5>1 DEF Remove
          <5>2. CASE Replace(t)
            BY <5>2 DEF Replace, Unwritten
          <5> QED BY <3>4, <5>1, <5>2
        <4> HIDE DEF i
        <4> QED BY <4>1, <4>2
      <3> QED BY <2>4, <3>2, <3>3, <3>4 DEF Work
    <2> QED BY <2>1, <2>2, <2>3, <2>4 DEF Next, Quiet, vars, history
  <1>3. \A u \in gone' : u \in 1 .. creations
    BY <1>2, DrawnIsNew DEF AInv
  <1> QED BY <1>1, <1>3

LEMMA AloneKept ==
    ASSUME IInv, AInv, [Next]_vars
    PROVE  AInv'
  <1>1. CASE UNCHANGED vars
    BY <1>1 DEF vars, history, AInv, Alone, Informed, Having, Distinct
  <1>2. (gone \subseteq 1 .. creations)'
    BY GoneKept
  <1>3. CASE Quiet
    BY <1>1, <1>3 DEF Quiet
  <1> QED BY <1>1, <1>2, <1>3, RequestAlone, WorkAlone DEF Next, AInv

-----------------------------------------------------------------------------
(***************************************************************************)
(* The theorems.                                                           *)
(***************************************************************************)
LEMMA Initially == ASSUME Init PROVE IInv
  <1>1. TypeOK
    <2>1. users \in [Ids -> Users \cup {None}] /\ meant \in [Ids -> Passwords \cup {None}]
      BY DEF Init
    <2>2. job \in [Threads -> Jobs] /\ pc \in [Threads -> Labels]
      BY NoJobType DEF Init, Labels
    <2>3. creations \in 0 .. MaxUsers
      BY MaxUsersAssumption DEF Init
    <2> QED BY <2>1, <2>2, <2>3 DEF Init, TypeOK, Jobs, Labels
  <1>2. \A t \in Threads : job[t] = NoJob /\ Sound(t, NoJob)
    BY SoundNothing DEF Init
  <1>3. ~Creates(NoJob)
    BY NoneAssumption DEF Creates, NoJob, Operations
  <1>4. Drawn /\ Forms /\ OwnUuid /\ PasswordsStay
    BY DEF Init, Drawn, Forms, OwnUuid, PasswordsStay
  <1>5. Apart
    BY <1>2, <1>3 DEF Apart
  <1> QED BY <1>1, <1>2, <1>4, <1>5 DEF IInv

LEMMA RequestKeeps == ASSUME IInv, NEW t \in Threads, Request(t) PROVE IInv'
  <1>1. \A who \in Persons : who \in Users /\ who.uuid = None
    BY DEF Persons, Users
  <1>2. ASSUME NEW who \in Persons, NEW p \in Passwords, CreateUser(t, [who EXCEPT !.password = p])
        PROVE  IInv'
    <2>1. [who EXCEPT !.password = p] \in Users /\ [who EXCEPT !.password = p].uuid = None
      BY <1>1 DEF Users
    <2> QED BY <1>2, <2>1, CreateUserKeeps
  <1>3. ASSUME NEW who \in Persons, UpdateUser(t, who) PROVE IInv'
    BY <1>1, <1>3, UpdateUserKeeps
  <1>4. ASSUME NEW i \in Ids, Known(i), UpdateUser(t, [NoUser EXCEPT !.uuid = users[i].uuid])
        PROVE  IInv'
    <2> DEFINE user == [NoUser EXCEPT !.uuid = users[i].uuid]
    <2>1. users[i] \in Users /\ users[i].uuid \in Uuids /\ Has(i, users[i].uuid)
      BY <1>4 DEF IInv, TypeOK, Users, Known, Has
    <2>2. user \in Users /\ user.uuid = users[i].uuid
      BY <2>1 DEF NoUser, Users
    <2> QED BY <1>4, <2>1, <2>2, UpdateUserKeeps
  <1>5. ASSUME NEW i \in Ids, NEW n \in Usernames \cup {None}, ReadForm(t, i, n) PROVE IInv'
    BY <1>5, ReadFormKeeps
  <1>6. CASE PostForm(t)
    BY <1>6, PostFormKeeps
  <1>7. ASSUME NEW who \in Persons, NEW k \in {"username", "email"}, NEW p \in Passwords,
               who[k] # None, ChangePassword(t, k, who[k], p)
        PROVE  IInv'
    <2>1. (k = "username" => who[k] \in Usernames) /\ (k = "email" => who[k] \in Emails)
      BY <1>1, <1>7 DEF Users
    <2> QED BY <1>7, <2>1, ChangePasswordKeeps
  <1>8. ASSUME NEW who \in Persons, DeleteUser(t, who) PROVE IInv'
    BY <1>1, <1>8, DeleteUserKeeps
  <1>9. ASSUME NEW e \in Emails, NEW f \in FirstNames,
               LoginByOAuth2(t, [NoUser EXCEPT !.email = e, !.firstName = f])
        PROVE  IInv'
    <2> DEFINE user == [NoUser EXCEPT !.email = e, !.firstName = f]
    <2>1. user \in Users /\ user.uuid = None /\ user.password = None
      BY DEF NoUser, Users
    <2> QED BY <1>9, <2>1, LoginKeeps
  <1> QED BY <1>2, <1>3, <1>4, <1>5, <1>6, <1>7, <1>8, <1>9 DEF Request

LEMMA WorkKeeps == ASSUME IInv, NEW t \in Threads, Work(t) PROVE IInv'
  BY QueryKeeps, RefuseKeeps, SaveKeeps, SetKeeps, LoadKeeps, RemoveKeeps, RegisterKeeps,
     ReplaceKeeps DEF Work

LEMMA StutterKeeps == ASSUME IInv, UNCHANGED vars PROVE IInv'
  BY DEF IInv, TypeOK, Drawn, Forms, Apart, Creates, Sound, SoundId, SoundPassword, SoundUuid,
         SoundCopy, Own, Held, Has, OwnUuid, PasswordsStay, vars, history

\* The invariant holds, whatever requests interleave.
THEOREM Invariance == Spec => []IInv
  <1>1. Init => IInv
    BY Initially
  <1>2. IInv /\ [Next]_vars => IInv'
    BY RequestKeeps, WorkKeeps, StutterKeeps DEF Next, Quiet
  <1> QED BY <1>1, <1>2, PTL DEF Spec

\* Every variable of UserServiceImpl and its requests keeps its type.
THEOREM UserTypes == Spec => []TypeOK
  <1>1. IInv => TypeOK
    BY DEF IInv
  <1> QED BY <1>1, Invariance, PTL

\* Whatever requests interleave, a user keeps the uuid it was created with or
\* takes that of a user that is gone; the uuid of a user that is stored is
\* never written on another one (updateUser, updateUserbyOAuth2).
THEOREM UuidsStayWithUsers == Spec => []OwnUuid
  <1>1. IInv => OwnUuid
    BY DEF IInv
  <1> QED BY <1>1, Invariance, PTL

\* A user's password is the one last chosen for it, unless an older copy or
\* one of another user was written over it (changePassword, updateUser).
THEOREM PasswordsStayChosen == Spec => []PasswordsStay
  <1>1. IInv => PasswordsStay
    BY DEF IInv
  <1> QED BY <1>1, Invariance, PTL
\* As long as requests come one after the other, no two users get the same
\* uuid, username or email, whatever forms are posted however late (addUser,
\* updateUser, changePassword, loginByOAuth2).
THEOREM UsersStayDistinct == Spec => []NoDuplicates
  <1>1. Init => AInv
    <2> SUFFICES ASSUME Init PROVE AInv
      OBVIOUS
    <2>1. \A t \in Threads : pc[t] # "query"
      BY DEF Init
    <2>2. Distinct /\ gone = {}
      BY DEF Init, Distinct
    <2> QED BY <2>1, <2>2 DEF AInv, Alone
  <1>2. IInv /\ AInv /\ [Next]_vars => AInv'
    BY AloneKept
  <1>3. AInv => NoDuplicates
    BY DEF AInv, Alone, Distinct, Unique, NoDuplicates
  <1> QED BY <1>1, <1>2, <1>3, Invariance, PTL DEF Spec
=============================================================================

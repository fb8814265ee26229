# Formal verification of the plillo/develop platform

TLA+ models, TLC configurations and TLAPS proofs for the OSGi platform of this
repository: services that keep entities in MongoDB, publish them over JAX-RS,
share one registry of UUIDs and talk to each other through OSGi services,
events and MQTT.

Sections: [the system](#1-the-system), [the inventory](#2-inventory),
[the modules](#3-modules-and-how-they-correspond-to-the-code),
[the runs](#4-runs-and-bounds), [fairness](#5-fairness),
[the proofs](#6-proofs), [what was found](#7-what-was-found),
[assumptions](#8-assumptions-of-the-models),
[what is not modelled](#9-what-is-not-modelled), [the plan](#10-plan).

## 1. The system

Every bundle under `src/it.hash.osgi.*` contributes singleton service
components.  JAX-RS serves each REST request in a thread of its own, inside the
same singletons; the gogo shell adds threads of its own.  State lives in Mongo
collections and in a few fields of the singletons; a restart of the server
keeps the collections and loses everything else.

Three habits run through the whole code, and most of the hard behaviour comes
from them:

* **check, then act**: whatever creates or updates an entity first looks for
  it, by one `findOne` per attribute or by one query of them all, and then
  writes in a call of its own.  Mongo has no unique indexes here, and creation
  takes no lock.  `synchronized` is used on some methods only (the registry,
  update and delete of businesses, promotions and products).
* **draw, store, read back, give back**: creation draws a uuid, which the
  registry stores, saves the entity, reads it back by *all* of its fields and,
  if it is not found, takes the uuid out of the registry again.
* **read whole, write whole**: updates take an entity a client (or the server)
  read earlier and write all of its fields.

## 2. Inventory

| Component | State | Operations | Interacts with | Hard because | Correct if |
|---|---|---|---|---|---|
| UUID registry (`resource.uuid`) | collection `uuid` | createUUID, removeUUID (both synchronized), readers | every service that creates | draws race with removals; a crash between draw and use | a uuid names one entity for ever; no uuid is left behind |
| Businesses (`business`) | collection `businesses`, a monitor | create, update, delete, deleteById; from REST and shell | registry, users (owner), promotions | check-then-save; monitor over several calls; read-back; crash between removeUUID and delete | uuids stay distinct; deleted stays deleted; every request is answered |
| Subscriptions (`business`) | the array `followers` of a business | follow, unFollow, set and read rules, followed / not followed lists | users, businesses | `$addToSet` and the positional `$` on an array with repeated elements | lists say what was asked for; settings are not lost |
| Promotions (`business.promotion`) | collection `promotions`, a monitor | create, update, activate, delete | registry, businesses | two conversions at every write; activation reads unlocked; delete in two steps | deleted stays deleted; what is stored can be deleted; activation changes nothing else |
| Categories, GS1 import (`business.category`) | collection `categories`, three fields of the SAX handler | import by url, create, delete | registry, shell, promotions by event | one handler for all imports; exceptions half way; check-then-save | families under their segment, classes under their family; parents exist |
| Products (`business.product`) | collection `products`, a monitor | create, list, update, put picture | registry, S3 | upsert with an empty query; forms posted late; upload between read and write | products are inserted; pictures stay with their product |
| Users (`user`) | collection `users` | create, update, change password, set area, delete, OAuth2 login | registry, password service, JWT | a query per attribute without a lock; whole documents written back | one user per username, email, uuid; passwords are not changed back |
| Game of tris (`games.tris`) | a list of waiting clients, MQTT topics, the board in the messages | match, subscribe, action | broker, clients | an unsynchronized ArrayList; a referee without memory; messages that are lost, requests that come twice | players are paired two by two; the verdict is that of the rules; a session that stops has a cause |
| Attributes of users (`user.attribute`) | collection `attributes` | create, update, delete (the last from the service's interface only) | registry | creation of five calls and update of two with no monitor; a body may bring another uuid | what is stored is registered; no uuid is lost; who has written is answered |
| Application and parser whiteboards | a HashMap each | add, remove, look-up | OSGi service events | services come and go under requests | who is gone answers no more |
| Tokens, authentication (`security`) | a ThreadLocal; keys | getToken, authenticate | every resource | threads are reused | a request acts for its own token |
| Broker client (`broker`) | the field of the service, the field of each client, the monitor of each client | publish, subscribe, updated, connectionLost, activation | external broker, Config Admin, tris | the client is exchanged under publishes; publish waits for the broker inside its monitor; lost connections; exceptions half way | one connection; failures have a cause; a new configuration is taken up whoever waits |
| JAX-RS publisher (`com.eclipsesource`) | registered resources | track, publish | OSGi HTTP service | third-party | – |
| Contents, mail, Amazon, QR codes, utilities, Swagger UI, launchers | – | see `PROJECT.json` | – | – | – |

`PROJECT.json` lists every one with its sources, its status and the reason for
it, and under `hazards` what in this code is hard to test, each at its line,
with the properties that watch it.

## 3. Modules and how they correspond to the code

A **step** of the concurrent modules is one database call with the local
computation around it: that is exactly where two threads can interleave.  A
synchronized method of one database call is one step, a synchronized method of
several holds a `monitor` variable.  What a handler does after its last call
(the answer) belongs to its last step.  Variables under the comment *history*
are not in the code: they record what the properties speak of and no guard
reads them.

| Module | Models | Composition |
|---|---|---|
| `BusinessLifecycle` | `BusinessServiceImpl`, its persistence, `UuidServiceImpl`: the creation, update and deletion of businesses against the registry, and a crash | |
| `EntityLife` | what a registry and a store of entities promise: an identity is reserved, becomes live or is spent, and once dead never lives again | |
| `BusinessLife` | the refinement mapping from the former to the latter | `INSTANCE EntityLife WITH status <- LifeStatus` |
| `Subscriptions` | the followers of businesses | |
| `BusinessProofs` | theorems about `BusinessLifecycle` and `Subscriptions` | extends `BusinessLife` and `Subscriptions` |
| `PromotionLifecycle`, `PromotionProofs` | promotions with the conversions of every write, and theorems | |
| `CategoryImport`, `CategoryProofs` | the GS1 handler over documents as sequences of start tags, the shell's create and delete, and theorems | |
| `ProductLifecycle`, `ProductProofs` | products, forms and pictures, and theorems | |
| `UserLifecycle`, `UserProofs` | users, with `getUser` query by query, and theorems | |
| `TrisMatch` | `GameTrisServiceImpl.match` at the granularity of the accesses to the fields of the `ArrayList` | `INSTANCE Pairing WITH waiting <- Waiting, void <- raced` |
| `Pairing` | what a matchmaker promises while requests do not overlap | |
| `TrisGame` | a session: the messages and the referee (`action`, `winner`, `full`), with the ways a publish can end | takes `Outcomes` of a publish from what `BrokerClient` shows of them |
| `TrisProofs` | theorems about `TrisMatch` and `TrisGame` | extends both |
| `BrokerClient`, `BrokerProofs` | `BrokerServiceImpl` and `CoreMqttClient`: publish and subscribe while the client is exchanged and the connection is lost, and theorems | |
| `AttributeLifecycle`, `AttributeProofs` | the attributes of users against the registry, without a lock, with a crash, and theorems | |
| `MC*` | instances for TLC: values of the constants and symmetry | |

### BusinessLifecycle

| State | Code |
|---|---|
| `registry` | collection of `UuidServiceImpl` |
| `docs` | collection of `BusinessPersistenceServiceImpl`; a document is its uuid, `_id` and unique attributes |
| `monitor` | the lock of the persistence's synchronized methods |
| `pc`, `op`, `pat`, `new`, `todo`, `hit` | where a request stands and its locals: the Business it matches by, what it writes, the fields still to be queried, the answers so far |

`CreateUUID`, `Query`\*, `Save`, `Reread`, `Rollback` are `createBusiness` →
`addBusiness` → `getBusiness`; `Refuse` its refusal.  `RemoveUUID`, `Enter`,
`Query`\*, `Remove` are `deleteBusiness`; `DeleteBusinessById` its other entry;
`UpdateBusiness`, `Load`, `Query`\*, `Set`, `Confirm` and `RefuseUpdate` are
`updateBusiness`.  `Crash` ends every request, frees the monitor and keeps the
collections.

### Subscriptions

Each request is one Mongo call.  All of them select elements of `followers` by
user, so the array is kept as one sequence per user: `follow` appends unless
the same *element* is there (`$addToSet`), `unFollow` pulls all, a rule is set
in the first element (`$`) and read from the last.  Its specification is
`FollowersSpec`, so that `BusinessProofs` can extend it beside `BusinessLifecycle`;
for the same reason that of the game is `GameSpec`.

### PromotionLifecycle

`CreateUUID`, `Save`, `ReadBack`/`ReadBackBlank`/`ReadBackNothing`, `Undo` are
`createPromotion`; `ReadActive` and `WriteActive` the two halves of
`updateActivate`; `Update` is `updatePromotion` with whatever body a client
posts, `RemoveUUID` and `Delete`/`DeleteNothing` are `deletePromotion`.  What a
creation saves depends on what it was asked for: a `Three4two` takes nothing
over from the parameters (`SaveBlank`); a type the factory does not know, a date
of another form or a price that does not parse is an exception after
`createUUID` (`SaveThrows`).

`SetByMap` and `Overlay` model the conversions `setByMap` and `toMap` by what
they do.  A date is saved as text with hours from 1 to 12 and AM or PM, and read
with a pattern that takes the hour for one of 24 (`Reread`): 3 PM comes back as
3 AM, midnight as noon.  A `toDate` that is a Date goes to `setFromDate`, the
nation of the business to `businessUuid`.  A promotion whose type an update has
changed cannot be read back (`Readable`): activations of it do nothing, and
`deletePromotion` fails after it has taken the uuid.

### CategoryImport

`field` is `segmentUUID`, `familyUUID`, `classUUID` of the one handler.  Per
element: `NextElement` (skip it or enter), `Draw`, `SetUuid`, `SetParentUuid`,
`SameUuid`/`SameCode`/`New` (the check), `Save`, `Confirm` or `Refuse`; `Throw`
is the exception of `compareTo` on a category without uuid, which ends the
import and leaves the fields as they are.

### ProductLifecycle

`CreateUUID`, `Upsert` or `UpsertFindsNone` and `Insert`, `ReadBack`, `Undo` are
`createProduct`; the two forms of the upsert are the server's search and its
insertion.  `ReadForm`, `Enter`, `Set`, `Confirm` are a client that reads a
product, edits it and posts the whole of it; `PutPicture`, `Upload`/
`UploadFails`, `AddPicture` are the resource that takes a picture.

### UserLifecycle

Each request is a `getUser` — `Query` per attribute, `Looked` says what an answer
makes of the match — and one write: `Save` (`addUser`), `Set` (`updateUser`),
`Load` then `Set` (`changePassword`), `Remove`, `Register`/`Replace`
(`loginByOAuth2`).  `ReadForm`/`PostForm` are a client that posts a user it read
before.  `Refuse` is any answer but the one user that is wanted.

### AttributeLifecycle

`CreateUUID`, `LookId`, `LookName`, `Save`, `Reread`, `Undo` are
`createAttribute`; `Set` and `Answer` are `updateAttribute`, `Find` and `Remove`
`deleteAttribute`, which neither a resource nor the shell calls.  An attribute is
its uuid, `_id` and name.  Its other fields are written and read back with
these, so a creation whose attribute another thread has written meanwhile
(`touched`) finds it again or not.  `Crash` ends every request and keeps the
collections.

### BrokerClient

| State | Code |
|---|---|
| `mqttClient[i]` | the field of the i-th activation of `BrokerServiceImpl` |
| `myClient[c]` | the field of the c-th `CoreMqttClient`: null, an `MqttClient` without or with a connection |
| `monitor[c]` | the lock of `publish`, which is synchronized on the `CoreMqttClient` |
| `step`, `target` | where the one thread of Config Admin stands in `updated`, and on which activation |
| `pc`, `op`, `service`, `client`, `outcome` | where a request stands, what it does, what it holds, how its last call ended |

`Update`, `Disconnect`, `Forget`, `Make`, `Create`, `Connect` are `updated` with
`stopClient`, the new `CoreMqttClient` and `runClient`, each of which may throw
where the code logs the exception and goes on.  `Call`, `Read`, `Enter`,
`GetTopic`, `Send` and `Acknowledged`/`Interrupted` are `publish` and
`subscribe`: the field read once, the monitor, `getTopic` outside of the `try`
(the one exception a caller sees), the send, the wait for the acknowledgement
inside the monitor.  `ConnectionLost` is the callback, `Activate` a restart of the component.

### TrisMatch and TrisGame

`TrisMatch` follows `ArrayList.add` and `remove(0)` access by access
(`Grow`, `Install`, `ReadArray`, `ReadSize`, `Bump`, `Store`; `RangeCheck`,
`Take`, `Shift`, `ReadSizeAgain`, `Drop`, `Clear`): the list is external code
and used without a lock.

In `TrisGame` the board travels in the messages, so the state is the last
message, who listens and who has it.  `subscribe` is the server's side of the
resource, one publish per step; `Ready` tells a player its topic, `Listen` is
the player that subscribes to it, which nothing makes it do in time.  `Verdict`
is the whole of `action`, `Post` a move.  A publish is delivered, lost without a
word, or throws: the three outcomes `BrokerClient` has for it.  `PostAgain` is a
request that reaches the server again, or that the client repeats after an
exception.

## 4. Runs and bounds

| Run | Instance | Shows |
|---|---|---|
| `BusinessCrash` | 3 threads, 2 uuids, 2 `_id`s, two unique attributes with one value each, all operations, crash | a deleted business stays deleted; what was matched inside the monitor is still stored; updates refused for a cause; duplicates only from overlapping creations; uuids leave the registry for two causes only; every uuid has one life (`EntityLife`) |
| `BusinessFair` | 2 threads, create and update, 2 uuids that may be drawn again, 2 `_id`s, one unique attribute with two values, fairness | uuids distinct; no uuid leaks; every request inside the monitor and every creation comes to an end (`CallsEnd`) |
| `Subscriptions` | 2 users, 2 businesses, 2 rules | lists as asked for, settings kept |
| `NotFollowed` | 2 users, 1 business | *violation*: the list of not followed businesses has followed ones |
| `TrisMatch` | 3 threads, 5 requests of 2 clients | a list whose size fell below 0 is never changed again (`DeadForever`); without overlap it implements `Pairing` |
| `TrisGame` | every session, timers up to 1, one publish that fails or throws, or one request that comes twice | the verdict and the line announced are right on every reachable board; no mark is taken back but by a request that had been answered; a session that stops short has a cause |
| `Promotions` | 2 threads, 1 uuid, all kinds (malformed too), 2 dates, 2 businesses, 1 nation, 15 bodies, crash | deleted stays deleted; deletable but for three causes; leaks explained; business kept; what activation may change |
| `Categories` | 2 sessions, 3 requests, 1 deletion, 2 documents that share codes | parents right and stored; copies bounded; a parent is one kind up |
| `Products` | 2 clients, 4 uuids, crash | as many products as clients at most; registered; pictures stay |
| `Users` | 2 clients, 2 creations, 1 username, 1 email, 1 first name, 2 passwords | no duplicates without overlap; uuids stay with their user; passwords stay |
| `Attributes` | 3 threads, 2 creations, 1 name, 1 `_id` that clients send, crash | what is stored is registered, no uuid is lost, an update that has written is answered, each but for causes named; a creation replaces or repeats only what was written while it was checking |
| `Broker` | 2 requests, 2 configurations, 2 activations, fairness | one connection per activation; a message is lost, or publish throws, only for a cause; a configuration is taken up; a request inside the client that was replaced goes on |

Why these bounds are enough to be worth something:

* Three threads in `BusinessCrash`: a race of two requests (create against
  update, say) seen by a third that deletes.  Two documents are what a
  duplicate takes, and one value of an attribute is what makes them equal.
  With two attributes an update may match by one and write the other.
* `BusinessFair` needs two values: a creation is read back by all of its fields,
  so only an update that writes another value makes it look not created.  Its uuid
  then leaves the registry while the business stays stored, and may be drawn
  again; the query for the uuid has to refuse it.  TLC reaches that case (and with
  one value never does); the mutant that asks by the attributes only stores two
  businesses with one uuid in just that case.
* One uuid in `Promotions` suffices: promotions meet only in the answer to the
  read-back of a 3X2 promotion, which `blank` covers, and the theorems hold for
  any number.  Two threads are a creation, an activation or a deletion and what
  comes in between, as an update is one step.  The two dates, midnight and 3 PM,
  are one of each half of the day that the text changes; 3 AM and noon are what
  they come back as.  The bodies have nothing, one attribute (active, type, begin,
  end, business, nation), or all of them.
* Four uuids in `Products` allow three creations and a picture, or one and
  three; overwriting takes two.
* `Users` with two usernames holds as well (5.3 million states); one username
  and one email already make every pair of attributes match the same user, two
  users, or none.
* Five requests of `TrisMatch` bring the list from empty past a double removal
  (size -1) to the exceptions after it.  How far below 0 the size can go is not for
  a bound to say: with one request more three threads take it to -3, and the
  theorem `MatchTypes` says what holds in general, that it is no further from 0
  than there were requests.
* The boards of `TrisGame` are not bounded.  Timers only matter by comparison, so
  only the first move of a player takes time and one unit tells slower from
  faster; one trouble at any place of the session is what each of its causes takes.
* Two configurations exchange the client of the first under requests, and a third
  would only do so again; two activations leave an old client connected.
* Three threads of `Attributes`: a creation, an update of its attribute, and a
  removal or a second creation; one name is what makes two creations meet.

`CHECK_DEADLOCK FALSE` stands in `Subscriptions` and `NotFollowed` (every
business may be deleted: nothing is left to follow) and `TrisMatch` (the bound
on the requests is reached).  Elsewhere a deadlock would be a request that
cannot go on, and TLC finds none; where a bound ends the run, a disjunct of
`Next` that needs all threads idle (`Quiet`, `Over`) lets it stutter.

The type invariants are proved (section 6) and no longer spent a run on, but for
that of `TrisGame`, which says that the messages are well-formed.

## 5. Fairness

Two runs have liveness.

`BusinessFair`: `FairSpec` assumes weak fairness of each thread's work on the
request it has accepted (`WF_vars(Work(t))`), not of the arrival of requests:
the JVM runs every runnable thread, Mongo answers.  Weak fairness is not enough
to enter a monitor others keep taking, and none is claimed: `CallsEnd` says that
a thread inside leaves and that a creation, which takes no lock, is answered.

`Broker`: weak fairness of `updated` (`WF_vars(Updating)`) and of each request's
own steps (`WF_vars(Work(r))`).  The broker is outside: `Acknowledged` and
`ConnectionLost` are not fair, so a publish may wait for ever inside the monitor
of its client, and others behind it.  What is claimed holds all the same: a
configuration is taken up (`UpdateAnswered`, as `stopClient` is *not*
synchronized), and once the client of a waiting request has been replaced that
request goes on (`StopReleases`, as the MQTT library ends the waits of a
connection that is gone).

## 6. Proofs

| Module | Theorems | By |
|---|---|---|
| `BusinessProofs` | `TypeCorrect`, `UuidsStayDistinct`, `RegistryIsKept`, `DeletionIsFinal` | an inductive invariant `IInv`, one lemma per action |
| | `MatchedStaysStored`, `RefusalsHaveACause`, `DuplicatesNeedOverlap`, `RegistryDoesNotLeak`, `UuidsLiveOnce` | a second one, `JInv`, on top of it |
| | `SubscriptionTypes`, `FollowersBounded`, `FollowedIsAsAsked`, `SettingsAreKept`, `RulesAreReadAsSet` | `FollowersInv`: what the sequence of elements of one user can look like |
| `PromotionProofs` | `PromotionTypes`, `PromotionsStayDeleted`, `DeletionElectsOne`, `PromotionsAreDeletable`, `RegisteredUuidsAreUsed`, `PromotionsKeepTheirBusiness`, `OrphansStay` | `IInv`: who may hold a uuid at which step |
| | `QuietActivationsAreHarmless` | `IInv` and `Informed`: what an activation knows of what it has read |
| `ProductProofs` | `ProductTypes`, `ProductsAreFew`, `StoredProductsAreRegistered`, `RefusalsHaveACause`, `PicturesStayWithProducts` | `IInv`, and `Pictured` for the last |
| `UserProofs` | `UserTypes`, `UuidsStayWithUsers`, `PasswordsStayChosen` | `IInv`: what a request knows of the users it has found (`Sound`) |
| | `UsersStayDistinct` | `AInv`: what the one request at work knows |
| `BrokerProofs` | `BrokerTypes`, `NoConnectionIsForgotten`, `FailuresAreExplained` | `IInv`: which client may be connected while `updated` is where, what a call has met with |
| `AttributeProofs` | `AttributeTypes`, `StoredAttributesAreRegistered`, `AttributesKeepTheirUuids`, `SavesAreSeen`, `UpdatesAreAnswered` | `IInv`: who owns a uuid, what a creation has looked at |
| `CategoryProofs` | `CategoryTypes`, `ParentsAreOneKindUp`, `ParentsAreRight`, `ParentsAreStored` | `IInv`: what the fields of the handler say of the import under way |
| | `CopiesAreBounded` | `CInv`: finitely many categories, and a count |
| `TrisProofs` | `MatchTypes`, `RacesAreForEver` | `MInv`: requests that have not written the size |
| | `PairsInOrder` (refinement of `Pairing`) | `Serial`: what the only request in match finds |
| | `GameTypes`, `RefereeIsRight`, `GameGoesForward`, `SessionsEnd` | `GInv`, and lemmas about the referee |

All of them hold for every number of threads, uuids, ids, values and documents.
Every safety property of the passing runs is the statement of a theorem.

**Businesses.**  That uuids are distinct is not inductive: a creation that has
asked by uuid and is about to save, or an update that writes what it was sent,
could each break it in an arbitrary state.  `IInv` adds the shape of each
operation's locals (`Shape`: a creation matches by a uuid and no `_id`, an update
writes the uuid it matches by), who owns a uuid (`Owned`: one creation at a time,
registered while it is asking, and not stored before unless uuids come again),
that a creation whose uuid is stored has found that or is yet to ask
(`MatchFinds`), that a deletion which has asked knows the one document it is to
remove (`DeleteFinds`), and that the document of a creation is what was asked for
or was written by another thread since (`OwnDocument`, for `RegistryIsKept`).
`RedrawAssumption` (a uuid that left the registry is drawn again only where
nobody deletes) is needed for `DeletionIsFinal`: a deleted business's uuid could
come back for a new one.  The other assumptions are typing.

`JInv` adds what each request knows from its answers: a deletion inside the
monitor, that the uuid it removed is not registered and whom it is to delete
(`DeletionKnows`); an update, that what it matched is stored and shares a unique
attribute with everything else it found (`UpdateKnows`); a creation that has found
nothing so far, that whoever has an attribute it asked for was written since
(`CreationKnows`).  The refinement `UuidsLiveOnce` then goes by the status of each
uuid (`LifeStatus`): every step changes that of one uuid, as `EntityLife` lets it,
or of none; a crash only spends what was reserved.  It needs that no uuid comes
again (`~Redraw`), which is what it is about.

**Subscriptions** (at the end of `BusinessProofs`).  The one idea is that the
sequence of one user is empty, or one element, or two whose second is the default;
the first is always what the answers told, so that the list of followed businesses
is what was asked for (`FollowedIsAsAsked`).

**Promotions.**  `removeUUID` elects: a uuid on its way to be deleted is no
longer registered, so no second request holds it (`OneDeleter`), and a deleted
promotion cannot come back because every later write needs a document to be
there (`DeletionIsFinal`).  `OrphansStay` is the bad news in the same argument: a
promotion whose uuid was lost is never deleted by anyone.  `Deletable` names
every way to lose it: `IInv` says that a stored promotion which cannot be read
back was given its type by an update (`retyped`), so the deletion that takes its
uuid and fails is explained.  `BusinessKept` holds because a business once named
stays named (`named` only grows) and a nation once stored stays stored, so that an
activation which read either long before brings back nothing else.
`QuietActivation`
needs one thing more: an activation that nobody overtook holds what `setByMap`
makes of the document as it is stored *now* (`Informed`); whoever writes that
document in between makes it stale.

**Products.**  `ProductsAreFew` is a counting argument (`Room`): the products
stored plus the clients about to insert are never more than the clients, as a
client is about to insert only if it found the collection empty.  It needs
finitely many threads (`ThreadsAssumption`).  `PicturesStay` needs that the copies
in the hands of clients show only pictures that were added (`Pictured`).

**Users.**  Between the queries of a request and its write anything may happen to
the users, so `IInv` says what the request still knows (`Sound`): the `_id` and
uuid of a creation are nobody else's (`SoundId`, `Apart`); whoever writes a uuid
asked by it first, so what it has found is the user that has it, or that uuid is
gone (`SoundUuid`); a copy that no change of password has overtaken has the
password of its user (`SoundCopy`).  The steps that leave the users alone go
through one lemma (`GoesKeeps`); those that write them through another
(`OthersSound`), which needs of a step only what `Frame` says.  `UsersStayDistinct`
is about requests one after the other: the one at work has found a user as that
user is now, and nobody else has what it has looked for so far (`Informed`), answer
after answer.  `getUser` counts users by their uuids; that these are distinct
(`Distinct`) is what makes the count of what it found right.

**Broker.**  That only the current client of an activation is connected depends
on where `updated` stands: `UpdateShape` says that what is to be replaced has
been disconnected by then, `Owned` that no client is in the fields of two
activations.  `InHand` says that a request holds a client of its own activation
or one that was replaced, and `Warned` that a call has already met with whatever
makes the rest of it fail; `Ended` carries that to the answer.

**Attributes.**  `Known` says that only what was drawn is known, `Drawn` and
`Distinct` that a creation has a uuid of its own, registered, which no client
knows until it is saved, `Looked` that a creation that has asked by `_id` or name
can be surprised only by what was written since (`fresh`), `Kept` that what it
has saved is there unless written over, and `Undone` why the uuid of a creation
that failed can be stored all the same.

**Categories.**  The kinds survive any mixture of imports: `KindsKept` asks for a
function from uuids to kinds that agrees with the fields, with what every
session has in hand and with the collection, and no step but the drawing of a uuid
has to extend it.  `RightParents` and `ParentsStored` need imports one after the
other (`OneAtATime`), what is left of a well-formed document (`Shape`), that what
an import has in hand is what the fields say (`InHand`), that the fields say what
the import has made but for a refused segment (`Lined`), and that they name
categories that are there (`FieldsGood`).  The steps that go on to the next
element share one lemma (`Goes`).  `CopiesAreBounded` counts: the categories with a
code and the sessions about to save one are never more than the sessions, as a
session comes to save only when it found none stored, and then only the sessions
have one.  It needs finitely many sessions (`ThreadsAssumption`).

**The matchmaker.**  Three arguments of different kinds.  `MatchTypes` counts: each
request writes the size once, one more or one less than a size that was there, so
no size written, and none a thread holds to write, is further from 0 than the
requests that have written (`Reach`, `Within`).  That also shows that the array
never has to grow a second time, which the model relies on.  `RacesAreForEver`
needs only types.  `PairsInOrder` shows that `TrisMatch` implements `Pairing`:
while requests do not overlap, `Serial` says where the one request in match stands
and what it finds (`Mid`), the end of `add` is `Wait`, the end of `remove(0)` is
`Pair`, and every other access changes nothing that `Pairing` sees; from the first
overlap on every step is `GiveUp`.

**The game.**  The referee keeps no state and looks for a tris of player 1 before
one of player 2, so `RightVerdict` cannot be proved of `Verdict` alone: it is right
on the positions that can be reached.  `GInv` says which these are: the last
message is one of subscribe's or a verdict on a board on which whoever did not just
move has no line (`Position`, as the game would have been finished); a request
still to come, again or for the first time, is on such a board, and if it was not
answered yet is the very move the session waits for (`CopyInv`).  The lemmas about
the referee (`TrisFound`, `WinnerIs`, `VerdictCases`) then say what it answers there,
whatever the timers; `RightVerdict` speaks of the lines as they are seen on the
board (`InARow`: three cells, one midway between the others), and
`RowsColsDiagonals` shows that the rows, columns and diagonals the code goes
through are exactly these.  `OnlyForward` follows from `CopyInv`.  `Steady` is for
`SessionsEnd`: without a loss both players are told the topic and, unless one came
late, who has the turn has the message.

**Assumptions of the theorems** are those of the modules, which TLC evaluates in
every run: finite sets of threads where something is counted (products,
categories), that `None` is no value of the sets it stands beside (no boolean, no
date, no business or nation, no type and no document of a promotion, no array of
the matchmaker), the bounds being natural numbers, and those on uuids above.

**Model-checked only.**  Liveness (`CallsEnd`, `UpdateAnswered`, `StopReleases`),
which is out of reach of the prover, and the violation of `NotFollowed`.

## 7. What was found

The one run that expects a violation, with the line that says otherwise:

* `NotFollowed` — `retrieveNotFollowedByUser` excludes nothing: it compares
  elements of `followers`, which are documents, with a uuid.

What the properties had to say to be true is as informative:

* Two creations that overlap store a duplicate (`DuplicatesOnlyFromOverlap`,
  `NoDuplicates`, `CopiesBounded` say what is still guaranteed).
* An update between save and read-back makes a creation look failed and takes
  the uuid of what stays stored (`RegistryKept`, `StoredRegistered`, `Deletable`).
* A crash between `removeUUID` and the deletion of a promotion leaves one that
  nobody can delete (`Deletable`, theorem `OrphansStay`); of a business it does
  not, as the retry deletes all the same (`DeletedStaysDeleted`).  Without any
  crash, an update that brings another type does the same: `deletePromotion` takes
  the uuid, then throws as it reads the promotion.
* A creation of a promotion with a date of another form or a price that does not
  parse fails after `createUUID` and leaves its uuid registered
  (`LeaksExplained`).
* After two clients removed the same waiting client the list of the matchmaker
  has size -1, and every later subscriber gets an exception (`DeadForever`).  An
  earlier form of the type invariant bounded the damage by the number of threads;
  the run of five requests agreed, the proof did not: a thread may write a size it
  read long before, and six requests of three threads already take it to -3.
* When a segment is refused its families are skipped, but `familyUUID` keeps the
  last family of the segment before, and the classes go there: the second
  alternative of `RightParents`, and of the theorem, is that case.
* The upsert of `createProduct` has an empty query, so a product takes the place
  of the one before, and a client alone never sees two (`AsManyAsThreads`).
* An activation of a promotion whose end an update has written moves its begin to
  its end; an activation before any update moves an afternoon to a morning, and
  the hour after midnight to noon; one after an update with a nation moves the
  business to that nation (`QuietActivation`, `BusinessKept`).
* A 3X2 promotion is stored without uuid and type, and its creation can be
  answered with another promotion.
* The form of a user deleted meanwhile is written over another that has its
  username by now, uuid and password included (`OwnUuid`, `PasswordsStay`).
* A lost connection is only logged: until the next configuration every message
  is dropped without a word to the caller, and while the client is exchanged
  publish may throw a NullPointerException (`FailuresExplained`).  A component
  activated anew leaves the client of the one before connected, so that
  `OneConnection` can only promise one connection per activation.
* A game stops short, with both players waiting, when one publish fails or a
  player begins to listen after the one second for which `subscribe` sleeps
  (`StuckExplained`); an action that is delivered a second time after it was
  answered takes marks back and reopens a finished game (`OnlyForward`).  To
  repeat one that ended in an exception is safe.
* An update of an attribute whose body has another uuid gives the attribute that
  uuid, leaves its own registered for nothing, and throws when it reads the
  attribute back for the answer (`AnsweredAsWritten`, `NoUuidLost`).
* A user without uuid, as OAuth2 logins create them, counts as two when found by
  two attributes, and cannot log in that way again.

## 8. Assumptions of the models

* Mongo calls are atomic; an upsert searches and inserts in two steps (no unique
  index); a `findOne` with several matches returns any.
* A uuid drawn is new but where `Redraw` says otherwise.
* Clients name uuids they have seen; products are created without `_id` and
  pictures; promotions are created with their begin (the shell, which turns its
  dates into Dates, with both), and updates of them name a uuid.
* The milliseconds of a date, which its text leaves out, are left out.
* `_id`s are not sent by clients as such: a query by the text of an `_id` finds
  nothing, as Mongo keeps `ObjectId`s.
* Attributes no query looks at (addresses, descriptions, attributes, areas) are
  left out where they are only carried along; equal attributes (mobile and
  email, first and last name) are represented by one of them.
* The two look-ups of `getCategory` are one step; drawing a fresh uuid and
  looking for it, which finds nothing, are one.
* `ArrayList` is that of Java 8, under sequential consistency; so are the fields
  of the broker client, none of which is volatile.
* Config Admin calls `updated` one configuration at a time, with properties that
  are texts; the MQTT library ends the waits of a connection that is gone.
* The other fields of an attribute, which a creation writes and asks for, are
  represented by whether somebody wrote them since (`touched`); the `_id`s that
  clients send with attributes are texts, those of Mongo are not.
* The clients of the game are not in the repository: who is told a topic listens
  to it at some time or never, who has the turn marks a free cell.

## 9. What is not modelled

The components with status `not_modelled` in `PROJECT.json`, with their reasons:
third-party and vendored code (the JAX-RS publisher, and Swagger UI with its
JavaScript, which is by far the largest part of the repository by lines), pure
output (mail, QR codes), helpers and readers without state, stubs, tokens, which
depend on the clock and on keys, and the two whiteboards and the contents, whose
state is a map or a document that is written whole.

Of the modelled ones: searches and lists that only return what is stored,
methods nothing calls (`updatePromotion(uuid, map)`, `createCollectionByCsv`,
`updateAttributes`), `updateBusiness(uuid, map)`, which the shell's `update` of a
business calls (`Commands.java:107`) but which writes only for a `userUuid`, and
that command passes none, and stubs, the logo of a business
and `extractToForm`, the copies a last-minute offer takes of products and
categories, and what a client of the game does with a message it was not sent.

## 10. Plan

Done: businesses, subscriptions, promotions, products, categories, users,
attributes, the broker client, the matchmaker and the game, with theorems on all
of them: every safety property that a run checks is proved.  What is left, in this
order:

1. Whiteboards: applications and parsers that come and go under requests
   (`remove` is given the service where the map wants its code); contents.
2. Compositions: businesses, promotions and users with the registry in one
   module, with the copies of a business in its promotions and followers that
   are no longer users.
3. Theorems about the abstract specifications themselves (`EntityLife`, `Pairing`),
   to be carried over by the refinements.

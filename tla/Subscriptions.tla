--------------------------- MODULE Subscriptions ---------------------------
(***************************************************************************)
(* The followers of a business: selfFollow, selfUnfollow, the rules of a   *)
(* subscription and the lists of followed and not followed businesses.     *)
(*                                                                         *)
(* Each request is one call of Mongo on the array "followers" of the       *)
(* business document, so each is one step.  An element of the array is a   *)
(* user and the user's rules; every call selects elements by their user,   *)
(* so the array is modelled by the sequence of the elements of each user.  *)
(***************************************************************************)
EXTENDS Naturals, Sequences

CONSTANTS
    Businesses,   \* uuids of businesses
    Users,
    Rules,        \* names of rules clients set
    NoSettings    \* of who does not follow

ASSUME RulesAssumption == "active" \in Rules

VARIABLES
    stored,       \* businesses in the collection
    deleted,      \* businesses that were removed from it
    followers,    \* per business and user: the elements of the array, oldest first
    \* history
    told,         \* per business and user: the settings the answers add up to
    again         \* <<business, user>> that followed although already a follower

followersVars == <<stored, deleted, followers, told, again>>

Settings == [Rules -> {"absent", "on", "off"}]

\* The rules of a new follower: {active: true}
Default == [r \in Rules |-> IF r = "active" THEN "on" ELSE "absent"]

ASSUME NoSettingsAssumption == NoSettings \notin Settings

Elements(b, u) == {followers[b][u][i] : i \in DOMAIN followers[b][u]}

\* What the query "followers.user" = u selects.
Follows(b, u) == b \in stored /\ followers[b][u] # <<>>

FollowersInit ==
    /\ stored = {} /\ deleted = {}
    /\ followers = [b \in Businesses |-> [u \in Users |-> <<>>]]
    /\ told = [b \in Businesses |-> [u \in Users |-> NoSettings]]
    /\ again = {}

\* A business appears without followers, under a uuid nobody had before.
AddBusiness(b) ==
    /\ b \notin stored \cup deleted
    /\ stored' = stored \cup {b}
    /\ UNCHANGED <<deleted, followers, told, again>>

\* The document goes with its followers.
DeleteBusiness(b) ==
    /\ b \in stored
    /\ stored' = stored \ {b}
    /\ deleted' = deleted \cup {b}
    /\ followers' = [followers EXCEPT ![b] = [u \in Users |-> <<>>]]
    /\ told' = [told EXCEPT ![b] = [u \in Users |-> NoSettings]]
    /\ again' = {p \in again : p[1] # b}

\* $addToSet of {user, rules: {active: true}}: nothing is added only if an
\* element EQUAL to it is there.  (No such business: answer false.)
follow(b, u) ==
    /\ b \in stored
    /\ followers' = [followers EXCEPT ![b][u] =
                        IF Default \in Elements(b, u) THEN @ ELSE Append(@, Default)]
    /\ told' = [told EXCEPT ![b][u] = IF @ = NoSettings THEN Default ELSE @]
    /\ again' = IF told[b][u] = NoSettings THEN again ELSE again \cup {<<b, u>>}
    /\ UNCHANGED <<stored, deleted>>

\* Mutant: only the first element of the user is taken out.
unFollowOnce(b, u) ==
    /\ b \in stored
    /\ followers' = [followers EXCEPT ![b][u] = IF @ = <<>> THEN @ ELSE Tail(@)]
    /\ told' = [told EXCEPT ![b][u] = NoSettings]
    /\ again' = again \ {<<b, u>>}
    /\ UNCHANGED <<stored, deleted>>

\* $pull of every element with the user
unFollow(b, u) ==
    /\ b \in stored
    /\ followers' = [followers EXCEPT ![b][u] = <<>>]
    /\ told' = [told EXCEPT ![b][u] = NoSettings]
    /\ again' = again \ {<<b, u>>}
    /\ UNCHANGED <<stored, deleted>>

\* Mutant: the last element is written, the one that is read.
setSubscriptionRuleLast(b, u, r, v) ==
    /\ Follows(b, u)
    /\ followers' = [followers EXCEPT ![b][u][Len(followers[b][u])][r] = v]
    /\ told' = [told EXCEPT ![b][u][r] = v]
    /\ UNCHANGED <<stored, deleted, again>>

\* $set of followers.$.rules.r: the positional operator writes the FIRST
\* element with the user.  (No such follower: answer false.)
setSubscriptionRule(b, u, r, v) ==
    /\ Follows(b, u)
    /\ followers' = [followers EXCEPT ![b][u][1][r] = v]
    /\ told' = [told EXCEPT ![b][u][r] = v]
    /\ UNCHANGED <<stored, deleted, again>>

FollowersNext ==
    \/ \E b \in Businesses : AddBusiness(b) \/ DeleteBusiness(b)
    \/ \E b \in Businesses, u \in Users : follow(b, u) \/ unFollow(b, u)
    \/ \E b \in Businesses, u \in Users, r \in Rules, v \in {"on", "off"} :
            setSubscriptionRule(b, u, r, v)

FollowersSpec == FollowersInit /\ [][FollowersNext]_followersVars

-----------------------------------------------------------------------------
(***************************************************************************)
(* What clients read.                                                      *)
(***************************************************************************)

\* retrieveSubscriptionRules goes through all elements: the LAST one answers.
retrieveSubscriptionRules(b, u) ==
    IF Follows(b, u) THEN followers[b][u][Len(followers[b][u])] ELSE NoSettings

retrieveFollowedByUser(u) == {b \in stored : Follows(b, u)}

\* followers $nin [u]: an element is a document and never equal to a user, so
\* the condition excludes no business.
retrieveNotFollowedByUser(u) == stored

-----------------------------------------------------------------------------
(***************************************************************************)
(* Properties                                                              *)
(***************************************************************************)

\* The value of every variable has its type.
FollowersTypeOK ==
    /\ stored \subseteq Businesses /\ deleted \subseteq Businesses
    /\ followers \in [Businesses -> [Users -> Seq(Settings)]]
    /\ told \in [Businesses -> [Users -> Settings \cup {NoSettings}]]
    /\ again \subseteq Businesses \X Users

\* The followed list is what the requests add up to: who follows and does not
\* unfollow is listed, who unfollows is not, however often they follow again
\* and whatever rules they set in between.
FollowedAsAsked ==
    \A u \in Users, b \in Businesses :
        b \in retrieveFollowedByUser(u) <=> told[b][u] # NoSettings

\* Repeated requests do not pile up: a follower has at most two elements, and
\* two only when the second is the default and the first is not.
AtMostTwoElements ==
    \A b \in Businesses, u \in Users :
        LET s == followers[b][u] IN
        Len(s) <= 1 \/ (Len(s) = 2 /\ s[2] = Default /\ <<b, u>> \in again)

\* No acknowledged setting is lost: the first element, which all settings go
\* to, holds what the answers add up to, also after the user follows again.
SettingsKept ==
    \A b \in Businesses, u \in Users :
        followers[b][u] # <<>> => followers[b][u][1] = told[b][u]

\* A user reads the rules as last set.  Only who has followed again may read
\* the default in their place.
RulesReadAsSet ==
    \A b \in Businesses, u \in Users : Follows(b, u) =>
        \/ retrieveSubscriptionRules(b, u) = told[b][u]
        \/ <<b, u>> \in again /\ retrieveSubscriptionRules(b, u) = Default

\* The list of the not followed businesses names none that is followed: what
\* the resource by_notSelfFollowed says, and the code does not do.
NotFollowedExcludesFollowed ==
    \A u \in Users : retrieveNotFollowedByUser(u) \cap retrieveFollowedByUser(u) = {}
=============================================================================

---------------------------- MODULE BrokerProofs ----------------------------
(***************************************************************************)
(* Theorems about BrokerClient, for any number of requests, configurations *)
(* and activations.                                                        *)
(***************************************************************************)
EXTENDS BrokerClient, TLAPS

-----------------------------------------------------------------------------
(***************************************************************************)
(* The inductive invariant.                                                *)
(***************************************************************************)

\* updated: room for one more client until that is made, and from then on the
\* field has the newest; what is to be replaced has been disconnected.
UpdateShape ==
    /\ step \in {"disconnect", "forget", "make"} => updates < MaxUpdates
    /\ step \in {"disconnect", "forget", "create", "connect"} => mqttClient[target] # 0
    /\ step \in {"forget", "make"} => Link(mqttClient[target]) # "connected"

\* No client is in two services' fields, or has not been made.
Owned ==
    /\ \A i \in Instances : mqttClient[i] <= updates
    /\ \A i, j \in Instances : mqttClient[i] = mqttClient[j] /\ mqttClient[i] # 0 => i = j

\* A request has a client in hand from its read on, that of its own service.
InHand(r) ==
    /\ client[r] <= updates
    /\ pc[r] \in {"idle", "read"} <=> client[r] = 0
    /\ \A i \in Instances : mqttClient[i] = client[r] /\ client[r] # 0 => i = service[r]
    /\ pc[r] \in {"enter", "topic"} => op[r] = "publish"

\* The MqttClient the rest of the call depends on.
Ahead(r) == IF pc[r] = "read" THEN Link(mqttClient[service[r]]) ELSE Link(client[r])

\* What can go wrong with a call has been met with.
Warned(r) ==
    pc[r] # "idle" =>
        /\ step # "idle" /\ service[r] = target => "update" \in met[r]
        /\ Ahead(r) # "connected" => met[r] # {}
        /\ Ahead(r) = "none" => met[r] \cap {"update", "unmade"} # {}

Ended(r) ==
    /\ outcome[r] \in {"dropped", "failed"} => met[r] # {}
    /\ outcome[r] = "exception" => op[r] = "publish" /\ met[r] \cap {"update", "unmade"} # {}
    /\ pc[r] # "idle" => outcome[r] = "none"

IInv ==
    /\ TypeOK /\ UpdateShape /\ Owned /\ OneConnection
    /\ \A r \in Requests : InHand(r) /\ Warned(r) /\ Ended(r)

-----------------------------------------------------------------------------
LEMMA UpdateKeeps ==
    ASSUME IInv, Update
    PROVE  IInv'
<1> USE NoneAssumption, UpdatesAssumption, InstancesAssumption
    DEF config, requests, Clients, Instances
<1>1. TypeOK'
  BY DEF IInv, TypeOK, UpdateShape, Update, Meets
<1>2. UpdateShape'
  BY DEF IInv, TypeOK, UpdateShape, Owned, Link, Update, Meets
<1>3. Owned'
  BY DEF IInv, TypeOK, Owned, UpdateShape, Update, Meets
<1>4. OneConnection'
  BY DEF IInv, TypeOK, OneConnection, UpdateShape, Owned, Link, Update, Meets
<1>5. ASSUME NEW s \in Requests
      PROVE  InHand(s)' /\ Warned(s)' /\ Ended(s)'
  <2>1. InHand(s) /\ Warned(s) /\ Ended(s)
    BY DEF IInv
  <2>2. InHand(s)'
    BY <2>1 DEF IInv, TypeOK, InHand, Owned, UpdateShape, Update, Meets
  <2>3. Warned(s)'
    BY <2>1 DEF IInv, TypeOK, InHand, Warned, Ahead, Link, Owned, UpdateShape, Update, Meets
  <2>4. Ended(s)'
    BY <2>1 DEF IInv, TypeOK, InHand, Warned, Ended, Ahead, Link, Update, Meets
  <2> QED BY <2>2, <2>3, <2>4
<1> QED BY <1>1, <1>2, <1>3, <1>4, <1>5 DEF IInv

LEMMA DisconnectKeeps ==
    ASSUME IInv, Disconnect
    PROVE  IInv'
<1> USE NoneAssumption, UpdatesAssumption, InstancesAssumption
    DEF config, requests, Clients, Instances
<1>1. TypeOK'
  BY DEF IInv, TypeOK, UpdateShape, Disconnect
<1>2. UpdateShape'
  BY DEF IInv, TypeOK, UpdateShape, Owned, Link, Disconnect
<1>3. Owned'
  BY DEF IInv, TypeOK, Owned, UpdateShape, Disconnect
<1>4. OneConnection'
  BY DEF IInv, TypeOK, OneConnection, UpdateShape, Owned, Link, Disconnect
<1>5. ASSUME NEW s \in Requests
      PROVE  InHand(s)' /\ Warned(s)' /\ Ended(s)'
  <2>1. InHand(s) /\ Warned(s) /\ Ended(s)
    BY DEF IInv
  <2>2. InHand(s)'
    BY <2>1 DEF IInv, TypeOK, InHand, Owned, UpdateShape, Disconnect
  <2>3. Warned(s)'
    BY <2>1 DEF IInv, TypeOK, InHand, Warned, Ahead, Link, Owned, UpdateShape, Disconnect
  <2>4. Ended(s)'
    BY <2>1 DEF IInv, TypeOK, InHand, Warned, Ended, Ahead, Link, Disconnect
  <2> QED BY <2>2, <2>3, <2>4
<1> QED BY <1>1, <1>2, <1>3, <1>4, <1>5 DEF IInv

LEMMA ForgetKeeps ==
    ASSUME IInv, Forget
    PROVE  IInv'
<1> USE NoneAssumption, UpdatesAssumption, InstancesAssumption
    DEF config, requests, Clients, Instances
<1>1. TypeOK'
  BY DEF IInv, TypeOK, UpdateShape, Forget
<1>2. UpdateShape'
  BY DEF IInv, TypeOK, UpdateShape, Owned, Link, Forget
<1>3. Owned'
  BY DEF IInv, TypeOK, Owned, UpdateShape, Forget
<1>4. OneConnection'
  BY DEF IInv, TypeOK, OneConnection, UpdateShape, Owned, Link, Forget
<1>5. ASSUME NEW s \in Requests
      PROVE  InHand(s)' /\ Warned(s)' /\ Ended(s)'
  <2>1. InHand(s) /\ Warned(s) /\ Ended(s)
    BY DEF IInv
  <2>2. InHand(s)'
    BY <2>1 DEF IInv, TypeOK, InHand, Owned, UpdateShape, Forget
  <2>3. Warned(s)'
    BY <2>1 DEF IInv, TypeOK, InHand, Warned, Ahead, Link, Owned, UpdateShape, Forget
  <2>4. Ended(s)'
    BY <2>1 DEF IInv, TypeOK, InHand, Warned, Ended, Ahead, Link, Forget
  <2> QED BY <2>2, <2>3, <2>4
<1> QED BY <1>1, <1>2, <1>3, <1>4, <1>5 DEF IInv

LEMMA MakeKeeps ==
    ASSUME IInv, Make
    PROVE  IInv'
<1> USE NoneAssumption, UpdatesAssumption, InstancesAssumption
    DEF config, requests, Clients, Instances
<1>1. TypeOK'
  BY DEF IInv, TypeOK, UpdateShape, Make
<1>2. UpdateShape'
  BY DEF IInv, TypeOK, UpdateShape, Owned, Link, Make
<1>3. Owned'
  <2>1. target \in Instances /\ updates \in Nat /\ updates' = updates + 1
    BY DEF IInv, TypeOK, Make
  <2>2. mqttClient' = [mqttClient EXCEPT ![target] = updates + 1]
    BY DEF Make
  <2>3. ASSUME NEW i \in Instances
        PROVE  mqttClient[i] \in Nat /\ mqttClient[i] <= updates
    BY <2>3 DEF IInv, TypeOK, Owned
  <2>4. ASSUME NEW i \in Instances
        PROVE  mqttClient'[i] = IF i = target THEN updates + 1 ELSE mqttClient[i]
    BY <2>2, <2>4 DEF IInv, TypeOK
  <2> QED BY <2>1, <2>3, <2>4 DEF IInv, Owned
<1>4. OneConnection'
  BY DEF IInv, TypeOK, OneConnection, UpdateShape, Owned, Link, Make
<1>5. ASSUME NEW s \in Requests
      PROVE  InHand(s)' /\ Warned(s)' /\ Ended(s)'
  <2>1. InHand(s) /\ Warned(s) /\ Ended(s)
    BY DEF IInv
  <2>2. InHand(s)'
    BY <2>1 DEF IInv, TypeOK, InHand, Owned, UpdateShape, Make
  <2>3. Warned(s)'
    BY <2>1 DEF IInv, TypeOK, InHand, Warned, Ahead, Link, Owned, UpdateShape, Make
  <2>4. Ended(s)'
    BY <2>1 DEF IInv, TypeOK, InHand, Warned, Ended, Ahead, Link, Make
  <2> QED BY <2>2, <2>3, <2>4
<1> QED BY <1>1, <1>2, <1>3, <1>4, <1>5 DEF IInv

LEMMA CreateKeeps ==
    ASSUME IInv, Create
    PROVE  IInv'
<1> USE NoneAssumption, UpdatesAssumption, InstancesAssumption
    DEF config, requests, Clients, Instances
<1>1. TypeOK'
  BY DEF IInv, TypeOK, UpdateShape, Create
<1>2. UpdateShape'
  BY DEF IInv, TypeOK, UpdateShape, Owned, Link, Create
<1>3. Owned'
  BY DEF IInv, TypeOK, Owned, UpdateShape, Create
<1>4. OneConnection'
  BY DEF IInv, TypeOK, OneConnection, UpdateShape, Owned, Link, Create
<1>5. ASSUME NEW s \in Requests
      PROVE  InHand(s)' /\ Warned(s)' /\ Ended(s)'
  <2>1. InHand(s) /\ Warned(s) /\ Ended(s)
    BY DEF IInv
  <2>2. InHand(s)'
    BY <2>1 DEF IInv, TypeOK, InHand, Owned, UpdateShape, Create
  <2>3. Warned(s)'
    BY <2>1 DEF IInv, TypeOK, InHand, Warned, Ahead, Link, Owned, UpdateShape, Create
  <2>4. Ended(s)'
    BY <2>1 DEF IInv, TypeOK, InHand, Warned, Ended, Ahead, Link, Create
  <2> QED BY <2>2, <2>3, <2>4
<1> QED BY <1>1, <1>2, <1>3, <1>4, <1>5 DEF IInv

LEMMA ConnectKeeps ==
    ASSUME IInv, Connect
    PROVE  IInv'
<1> USE NoneAssumption, UpdatesAssumption, InstancesAssumption
    DEF config, requests, Clients, Instances
<1>1. TypeOK'
  BY DEF IInv, TypeOK, UpdateShape, Connect
<1>2. UpdateShape'
  BY DEF IInv, TypeOK, UpdateShape, Owned, Link, Connect
<1>3. Owned'
  BY DEF IInv, TypeOK, Owned, UpdateShape, Connect
<1>4. OneConnection'
  BY DEF IInv, TypeOK, OneConnection, UpdateShape, Owned, Link, Connect
<1>5. ASSUME NEW s \in Requests
      PROVE  InHand(s)' /\ Warned(s)' /\ Ended(s)'
  <2>1. InHand(s) /\ Warned(s) /\ Ended(s)
    BY DEF IInv
  <2>2. InHand(s)'
    BY <2>1 DEF IInv, TypeOK, InHand, Owned, UpdateShape, Connect
  <2>3. Warned(s)'
    BY <2>1 DEF IInv, TypeOK, InHand, Warned, Ahead, Link, Owned, UpdateShape, Connect
  <2>4. Ended(s)'
    BY <2>1 DEF IInv, TypeOK, InHand, Warned, Ended, Ahead, Link, Connect
  <2> QED BY <2>2, <2>3, <2>4
<1> QED BY <1>1, <1>2, <1>3, <1>4, <1>5 DEF IInv

LEMMA LossKeeps ==
    ASSUME IInv, NEW c \in Clients, ConnectionLost(c)
    PROVE  IInv'
<1> USE NoneAssumption, UpdatesAssumption, InstancesAssumption
    DEF config, requests, Clients, Instances
<1>1. TypeOK'
  BY DEF IInv, TypeOK, UpdateShape, ConnectionLost, Meets
<1>2. UpdateShape'
  BY DEF IInv, TypeOK, UpdateShape, Owned, Link, ConnectionLost, Meets
<1>3. Owned'
  BY DEF IInv, TypeOK, Owned, UpdateShape, ConnectionLost, Meets
<1>4. OneConnection'
  BY DEF IInv, TypeOK, OneConnection, UpdateShape, Owned, Link, ConnectionLost, Meets
<1>5. ASSUME NEW s \in Requests
      PROVE  InHand(s)' /\ Warned(s)' /\ Ended(s)'
  <2>1. InHand(s) /\ Warned(s) /\ Ended(s)
    BY DEF IInv
  <2>2. InHand(s)'
    BY <2>1 DEF IInv, TypeOK, InHand, Owned, UpdateShape, ConnectionLost, Meets
  <2>3. Warned(s)'
    <3> SUFFICES ASSUME pc[s] # "idle" PROVE Warned(s)'
      BY DEF Warned, ConnectionLost
    <3>1. IF c \in {mqttClient[service[s]], client[s]}
          THEN met'[s] = met[s] \cup {"loss"} ELSE met'[s] = met[s]
      BY DEF IInv, TypeOK, ConnectionLost, Meets
    <3>2. IF c \in {mqttClient[service[s]], client[s]} THEN TRUE ELSE Ahead(s)' = Ahead(s)
      BY DEF IInv, TypeOK, ConnectionLost, Ahead, Link
    <3>3. Ahead(s)' = "none" => Ahead(s) = "none"
      BY DEF IInv, TypeOK, ConnectionLost, Ahead, Link
    <3> QED BY <2>1, <3>1, <3>2, <3>3 DEF Warned, ConnectionLost
  <2>4. Ended(s)'
    BY <2>1 DEF IInv, TypeOK, InHand, Warned, Ended, Ahead, Link, ConnectionLost, Meets
  <2> QED BY <2>2, <2>3, <2>4
<1> QED BY <1>1, <1>2, <1>3, <1>4, <1>5 DEF IInv

LEMMA ActivateKeeps ==
    ASSUME IInv, Activate
    PROVE  IInv'
<1> USE NoneAssumption, UpdatesAssumption, InstancesAssumption
    DEF config, requests, Clients, Instances
<1>1. TypeOK'
  BY DEF IInv, TypeOK, UpdateShape, Activate
<1>2. UpdateShape'
  BY DEF IInv, TypeOK, UpdateShape, Owned, Link, Activate
<1>3. Owned'
  BY DEF IInv, TypeOK, Owned, UpdateShape, Activate
<1>4. OneConnection'
  BY DEF IInv, TypeOK, OneConnection, UpdateShape, Owned, Link, Activate
<1>5. ASSUME NEW s \in Requests
      PROVE  InHand(s)' /\ Warned(s)' /\ Ended(s)'
  <2>1. InHand(s) /\ Warned(s) /\ Ended(s)
    BY DEF IInv
  <2>2. InHand(s)'
    BY <2>1 DEF IInv, TypeOK, InHand, Owned, UpdateShape, Activate
  <2>3. Warned(s)'
    BY <2>1 DEF IInv, TypeOK, InHand, Warned, Ahead, Link, Owned, UpdateShape, Activate
  <2>4. Ended(s)'
    BY <2>1 DEF IInv, TypeOK, InHand, Warned, Ended, Ahead, Link, Activate
  <2> QED BY <2>2, <2>3, <2>4
<1> QED BY <1>1, <1>2, <1>3, <1>4, <1>5 DEF IInv

LEMMA CallKeeps ==
    ASSUME IInv, NEW r \in Requests, NEW what \in {"publish", "subscribe"}, Call(r, what)
    PROVE  IInv'
<1> USE NoneAssumption, UpdatesAssumption, InstancesAssumption
    DEF config, requests, Clients, Instances
<1>1. TypeOK'
  BY DEF IInv, TypeOK, UpdateShape, Call, MetAtOnce
<1>2. UpdateShape'
  BY DEF IInv, TypeOK, UpdateShape, Owned, Link, Call, MetAtOnce
<1>3. Owned'
  BY DEF IInv, TypeOK, Owned, UpdateShape, Call, MetAtOnce
<1>4. OneConnection'
  BY DEF IInv, TypeOK, OneConnection, UpdateShape, Owned, Link, Call, MetAtOnce
<1>5. ASSUME NEW s \in Requests
      PROVE  InHand(s)' /\ Warned(s)' /\ Ended(s)'
  <2>1. InHand(s) /\ Warned(s) /\ Ended(s)
    BY DEF IInv
  <2>2. InHand(s)'
    BY <2>1 DEF IInv, TypeOK, InHand, Owned, UpdateShape, Call, MetAtOnce
  <2>3. Warned(s)'
    <3>1. CASE s = r
      <4>1. service'[s] = instance /\ pc'[s] = "read" /\ met'[s] = MetAtOnce
        BY <3>1 DEF IInv, TypeOK, Call
      <4>2. Ahead(s)' = Link(mqttClient[instance])
        BY <4>1 DEF Ahead, Link, Call
      <4>3. Link(mqttClient[instance]) \in {"none", "unconnected", "connected"}
        BY DEF IInv, TypeOK, Link
      <4> QED BY <4>1, <4>2, <4>3 DEF Warned, MetAtOnce, Call
    <3>2. CASE s # r
      BY <2>1, <3>2 DEF IInv, TypeOK, Warned, Ahead, Link, Call
    <3> QED BY <3>1, <3>2
  <2>4. Ended(s)'
    BY <2>1 DEF IInv, TypeOK, InHand, Warned, Ended, Ahead, Link, Call, MetAtOnce
  <2> QED BY <2>2, <2>3, <2>4
<1> QED BY <1>1, <1>2, <1>3, <1>4, <1>5 DEF IInv

LEMMA ReadKeeps ==
    ASSUME IInv, NEW r \in Requests, Read(r)
    PROVE  IInv'
<1> USE NoneAssumption, UpdatesAssumption, InstancesAssumption
    DEF config, requests, Clients, Instances
<1>1. TypeOK'
  <2>1. monitor' \in [Clients -> Requests \cup {None}]
    BY DEF IInv, TypeOK, Read, Return
  <2>5. \/ /\ pc' = [pc EXCEPT ![r] = "idle"] /\ client' = [client EXCEPT ![r] = 0]
        \/ /\ pc' = [pc EXCEPT ![r] = IF op[r] = "publish" THEN "enter" ELSE "send"]
           /\ client' = [client EXCEPT ![r] = mqttClient[service[r]]]
    BY DEF Read, Return
  <2>6. mqttClient[service[r]] \in {0} \cup Clients
    BY DEF IInv, TypeOK
  <2>2. pc' \in [Requests -> {"idle", "read", "enter", "topic", "send", "wait"}]
    BY <2>5 DEF IInv, TypeOK
  <2>3. client' \in [Requests -> {0} \cup Clients]
    BY <2>5, <2>6 DEF IInv, TypeOK
  <2>4. outcome' \in [Requests -> {"none", "dropped", "exception", "failed", "delivered"}]
    BY DEF IInv, TypeOK, Read, Return
  <2> QED BY <2>1, <2>2, <2>3, <2>4 DEF IInv, TypeOK, Read, Return
<1>2. UpdateShape'
  BY DEF IInv, TypeOK, UpdateShape, Owned, Link, Read, Return
<1>3. Owned'
  BY DEF IInv, TypeOK, Owned, UpdateShape, Read, Return
<1>4. OneConnection'
  BY DEF IInv, TypeOK, OneConnection, UpdateShape, Owned, Link, Read, Return
<1>5. ASSUME NEW s \in Requests
      PROVE  InHand(s)' /\ Warned(s)' /\ Ended(s)'
  <2>1. InHand(s) /\ Warned(s) /\ Ended(s)
    BY DEF IInv
  <2>2. InHand(s)'
    BY <2>1 DEF IInv, TypeOK, InHand, Owned, UpdateShape, Read, Return
  <2>3. Warned(s)'
    <3>1. CASE s = r
      <4>1. CASE mqttClient[service[r]] = 0
        BY <3>1, <4>1 DEF IInv, TypeOK, Warned, Read, Return
      <4>2. CASE mqttClient[service[r]] # 0
        <5>1. client'[s] = mqttClient[service[s]] /\ pc'[s] \in {"enter", "send"}
          BY <3>1, <4>2 DEF IInv, TypeOK, Read
        <5>2. Ahead(s)' = Ahead(s)
          BY <3>1, <5>1 DEF Ahead, Link, Read
        <5> QED BY <2>1, <3>1, <5>2 DEF Warned, Read
      <4> QED BY <4>1, <4>2
    <3>2. CASE s # r
      <4>1. client'[s] = client[s] /\ pc'[s] = pc[s]
        BY <3>2 DEF IInv, TypeOK, Read, Return
      <4> QED BY <2>1, <4>1 DEF Warned, Ahead, Link, Read
    <3> QED BY <3>1, <3>2
  <2>4. Ended(s)'
    BY <2>1 DEF IInv, TypeOK, InHand, Warned, Ended, Ahead, Link, Read, Return
  <2> QED BY <2>2, <2>3, <2>4
<1> QED BY <1>1, <1>2, <1>3, <1>4, <1>5 DEF IInv

LEMMA EnterKeeps ==
    ASSUME IInv, NEW r \in Requests, Enter(r)
    PROVE  IInv'
<1> USE NoneAssumption, UpdatesAssumption, InstancesAssumption
    DEF config, requests, Clients, Instances
<1>1. TypeOK'
  BY DEF IInv, TypeOK, UpdateShape, Enter
<1>2. UpdateShape'
  BY DEF IInv, TypeOK, UpdateShape, Owned, Link, Enter
<1>3. Owned'
  BY DEF IInv, TypeOK, Owned, UpdateShape, Enter
<1>4. OneConnection'
  BY DEF IInv, TypeOK, OneConnection, UpdateShape, Owned, Link, Enter
<1>5. ASSUME NEW s \in Requests
      PROVE  InHand(s)' /\ Warned(s)' /\ Ended(s)'
  <2>1. InHand(s) /\ Warned(s) /\ Ended(s)
    BY DEF IInv
  <2>2. InHand(s)'
    BY <2>1 DEF IInv, TypeOK, InHand, Owned, UpdateShape, Enter
  <2>3. Warned(s)'
    BY <2>1 DEF IInv, TypeOK, InHand, Warned, Ahead, Link, Owned, UpdateShape, Enter
  <2>4. Ended(s)'
    BY <2>1 DEF IInv, TypeOK, InHand, Warned, Ended, Ahead, Link, Enter
  <2> QED BY <2>2, <2>3, <2>4
<1> QED BY <1>1, <1>2, <1>3, <1>4, <1>5 DEF IInv

LEMMA GetTopicKeeps ==
    ASSUME IInv, NEW r \in Requests, GetTopic(r)
    PROVE  IInv'
<1> USE NoneAssumption, UpdatesAssumption, InstancesAssumption
    DEF config, requests, Clients, Instances
<1>1. TypeOK'
  <2>1. monitor' \in [Clients -> Requests \cup {None}]
    BY DEF IInv, TypeOK, GetTopic, Return
  <2>2. pc' \in [Requests -> {"idle", "read", "enter", "topic", "send", "wait"}]
    <3>1. pc' = [pc EXCEPT ![r] = "idle"] \/ pc' = [pc EXCEPT ![r] = "send"]
      BY DEF GetTopic, Return
    <3> QED BY <3>1 DEF IInv, TypeOK
  <2>3. client' \in [Requests -> {0} \cup Clients]
    BY DEF IInv, TypeOK, GetTopic, Return
  <2>4. outcome' \in [Requests -> {"none", "dropped", "exception", "failed", "delivered"}]
    BY DEF IInv, TypeOK, GetTopic, Return
  <2> QED BY <2>1, <2>2, <2>3, <2>4 DEF IInv, TypeOK, GetTopic, Return
<1>2. UpdateShape'
  BY DEF IInv, TypeOK, UpdateShape, Owned, Link, GetTopic, Return
<1>3. Owned'
  BY DEF IInv, TypeOK, Owned, UpdateShape, GetTopic, Return
<1>4. OneConnection'
  BY DEF IInv, TypeOK, OneConnection, UpdateShape, Owned, Link, GetTopic, Return
<1>5. ASSUME NEW s \in Requests
      PROVE  InHand(s)' /\ Warned(s)' /\ Ended(s)'
  <2>1. InHand(s) /\ Warned(s) /\ Ended(s)
    BY DEF IInv
  <2>2. InHand(s)'
    BY <2>1 DEF IInv, TypeOK, InHand, Owned, UpdateShape, GetTopic, Return
  <2>3. Warned(s)'
    BY <2>1 DEF IInv, TypeOK, InHand, Warned, Ahead, Link, Owned, UpdateShape, GetTopic, Return
  <2>4. Ended(s)'
    BY <2>1 DEF IInv, TypeOK, InHand, Warned, Ended, Ahead, Link, GetTopic, Return
  <2> QED BY <2>2, <2>3, <2>4
<1> QED BY <1>1, <1>2, <1>3, <1>4, <1>5 DEF IInv

LEMMA SendKeeps ==
    ASSUME IInv, NEW r \in Requests, Send(r)
    PROVE  IInv'
<1> USE NoneAssumption, UpdatesAssumption, InstancesAssumption
    DEF config, requests, Clients, Instances
<1>1. TypeOK'
  <2>1. monitor' \in [Clients -> Requests \cup {None}]
    BY DEF IInv, TypeOK, Send, Return
  <2>2. pc' \in [Requests -> {"idle", "read", "enter", "topic", "send", "wait"}]
    <3>1. pc' = [pc EXCEPT ![r] = "idle"] \/ pc' = [pc EXCEPT ![r] = "wait"]
      BY DEF Send, Return
    <3> QED BY <3>1 DEF IInv, TypeOK
  <2>3. client' \in [Requests -> {0} \cup Clients]
    BY DEF IInv, TypeOK, Send, Return
  <2>4. outcome' \in [Requests -> {"none", "dropped", "exception", "failed", "delivered"}]
    BY DEF IInv, TypeOK, Send, Return
  <2> QED BY <2>1, <2>2, <2>3, <2>4 DEF IInv, TypeOK, Send, Return
<1>2. UpdateShape'
  BY DEF IInv, TypeOK, UpdateShape, Owned, Link, Send, Return
<1>3. Owned'
  BY DEF IInv, TypeOK, Owned, UpdateShape, Send, Return
<1>4. OneConnection'
  BY DEF IInv, TypeOK, OneConnection, UpdateShape, Owned, Link, Send, Return
<1>5. ASSUME NEW s \in Requests
      PROVE  InHand(s)' /\ Warned(s)' /\ Ended(s)'
  <2>1. InHand(s) /\ Warned(s) /\ Ended(s)
    BY DEF IInv
  <2>2. InHand(s)'
    BY <2>1 DEF IInv, TypeOK, InHand, Owned, UpdateShape, Send, Return
  <2>3. Warned(s)'
    BY <2>1 DEF IInv, TypeOK, InHand, Warned, Ahead, Link, Owned, UpdateShape, Send, Return
  <2>4. Ended(s)'
    BY <2>1 DEF IInv, TypeOK, InHand, Warned, Ended, Ahead, Link, Send, Return
  <2> QED BY <2>2, <2>3, <2>4
<1> QED BY <1>1, <1>2, <1>3, <1>4, <1>5 DEF IInv

LEMMA AcknowledgedKeeps ==
    ASSUME IInv, NEW r \in Requests, Acknowledged(r)
    PROVE  IInv'
<1> USE NoneAssumption, UpdatesAssumption, InstancesAssumption
    DEF config, requests, Clients, Instances
<1>1. TypeOK'
  BY DEF IInv, TypeOK, UpdateShape, Acknowledged, Return
<1>2. UpdateShape'
  BY DEF IInv, TypeOK, UpdateShape, Owned, Link, Acknowledged, Return
<1>3. Owned'
  BY DEF IInv, TypeOK, Owned, UpdateShape, Acknowledged, Return
<1>4. OneConnection'
  BY DEF IInv, TypeOK, OneConnection, UpdateShape, Owned, Link, Acknowledged, Return
<1>5. ASSUME NEW s \in Requests
      PROVE  InHand(s)' /\ Warned(s)' /\ Ended(s)'
  <2>1. InHand(s) /\ Warned(s) /\ Ended(s)
    BY DEF IInv
  <2>2. InHand(s)'
    BY <2>1 DEF IInv, TypeOK, InHand, Owned, UpdateShape, Acknowledged, Return
  <2>3. Warned(s)'
    BY <2>1 DEF IInv, TypeOK, InHand, Warned, Ahead, Link, Owned, UpdateShape, Acknowledged, Return
  <2>4. Ended(s)'
    BY <2>1 DEF IInv, TypeOK, InHand, Warned, Ended, Ahead, Link, Acknowledged, Return
  <2> QED BY <2>2, <2>3, <2>4
<1> QED BY <1>1, <1>2, <1>3, <1>4, <1>5 DEF IInv

LEMMA InterruptedKeeps ==
    ASSUME IInv, NEW r \in Requests, Interrupted(r)
    PROVE  IInv'
<1> USE NoneAssumption, UpdatesAssumption, InstancesAssumption
    DEF config, requests, Clients, Instances
<1>1. TypeOK'
  BY DEF IInv, TypeOK, UpdateShape, Interrupted, Return
<1>2. UpdateShape'
  BY DEF IInv, TypeOK, UpdateShape, Owned, Link, Interrupted, Return
<1>3. Owned'
  BY DEF IInv, TypeOK, Owned, UpdateShape, Interrupted, Return
<1>4. OneConnection'
  BY DEF IInv, TypeOK, OneConnection, UpdateShape, Owned, Link, Interrupted, Return
<1>5. ASSUME NEW s \in Requests
      PROVE  InHand(s)' /\ Warned(s)' /\ Ended(s)'
  <2>1. InHand(s) /\ Warned(s) /\ Ended(s)
    BY DEF IInv
  <2>2. InHand(s)'
    BY <2>1 DEF IInv, TypeOK, InHand, Owned, UpdateShape, Interrupted, Return
  <2>3. Warned(s)'
    BY <2>1 DEF IInv, TypeOK, InHand, Warned, Ahead, Link, Owned, UpdateShape, Interrupted, Return
  <2>4. Ended(s)'
    BY <2>1 DEF IInv, TypeOK, InHand, Warned, Ended, Ahead, Link, Interrupted, Return
  <2> QED BY <2>2, <2>3, <2>4
<1> QED BY <1>1, <1>2, <1>3, <1>4, <1>5 DEF IInv

LEMMA InitHolds == Init => IInv
  BY NoneAssumption, UpdatesAssumption, InstancesAssumption
     DEF Init, IInv, TypeOK, UpdateShape, Owned, OneConnection, InHand, Warned, Ended,
         Link, Clients, Instances

LEMMA NextKeeps == IInv /\ [Next]_vars => IInv'
<1> SUFFICES ASSUME IInv, [Next]_vars PROVE IInv'
  OBVIOUS
<1>1. CASE Update \/ Updating \/ Activate
  BY <1>1, UpdateKeeps, DisconnectKeeps, ForgetKeeps, MakeKeeps, CreateKeeps, ConnectKeeps,
     ActivateKeeps DEF Updating
<1>2. CASE \E c \in Clients : ConnectionLost(c)
  BY <1>2, LossKeeps
<1>3. ASSUME NEW r \in Requests, NEW what \in {"publish", "subscribe"}, Call(r, what)
      PROVE  IInv'
  BY <1>3, CallKeeps
<1>4. ASSUME NEW r \in Requests, Work(r) \/ Acknowledged(r)
      PROVE  IInv'
  BY <1>4, ReadKeeps, EnterKeeps, GetTopicKeeps, SendKeeps, AcknowledgedKeeps,
     InterruptedKeeps DEF Work
<1>5. CASE UNCHANGED vars
  BY <1>5 DEF vars, config, requests, IInv, TypeOK, UpdateShape, Owned, OneConnection, InHand,
              Warned, Ended, Ahead, Link
<1> QED BY <1>1, <1>2, <1>3, <1>4, <1>5 DEF Next

LEMMA Invariance == Spec => []IInv
  BY InitHolds, NextKeeps, PTL DEF Spec

-----------------------------------------------------------------------------
(***************************************************************************)
(* The theorems.                                                           *)
(***************************************************************************)

\* Every variable keeps its type.
THEOREM BrokerTypes == Spec => []TypeOK
<1>1. IInv => TypeOK
  BY DEF IInv
<1> QED BY <1>1, Invariance, PTL

\* However updated fails, an activation of the component is left with at most
\* the connection of its current client.
THEOREM NoConnectionIsForgotten == Spec => []OneConnection
<1>1. IInv => OneConnection
  BY DEF IInv
<1> QED BY <1>1, Invariance, PTL

\* A call that is not under way while the client is exchanged, nor while the
\* broker is out of reach, is delivered; a request that publishes gets an
\* exception for want of an MqttClient only.
THEOREM FailuresAreExplained == Spec => []FailuresExplained
<1>1. IInv => FailuresExplained
  BY DEF IInv, Ended, FailuresExplained
<1> QED BY <1>1, Invariance, PTL
=============================================================================

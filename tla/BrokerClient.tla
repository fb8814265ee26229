---------------------------- MODULE BrokerClient ----------------------------
(***************************************************************************)
(* BrokerServiceImpl and CoreMqttClient: requests publish and subscribe    *)
(* through the MQTT client of the service while Config Admin exchanges it  *)
(* (updated), the connection is lost and the component is activated anew.  *)
(* publish is synchronized on the CoreMqttClient and waits for the broker  *)
(* inside; nothing else is.                                                *)
(***************************************************************************)
EXTENDS Naturals

CONSTANTS
    Requests,       \* threads that publish or subscribe
    MaxUpdates,     \* bound on the configurations
    MaxInstances,   \* bound on the activations of the component
    None            \* nobody

ASSUME UpdatesAssumption == MaxUpdates \in Nat
ASSUME InstancesAssumption == MaxInstances \in Nat \ {0}
ASSUME NoneAssumption == None \notin Requests

\* The nth configuration makes CoreMqttClient n; 0 is a null field.
Clients   == 1 .. MaxUpdates
Instances == 1 .. MaxInstances

VARIABLES
    instance,    \* the BrokerServiceImpl in service
    mqttClient,  \* field of each BrokerServiceImpl
    myClient,    \* field of each CoreMqttClient: no MqttClient, one without or with a connection
    monitor,     \* of each CoreMqttClient: the request inside its publish
    updates,     \* how many CoreMqttClients were made
    step,        \* where updated stands
    target,      \* the BrokerServiceImpl it was called on
    pc,          \* per request: where it stands
    op,          \* per request: publish or subscribe
    service,     \* per request: the BrokerServiceImpl it was given
    client,      \* per request: the CoreMqttClient in its hands
    outcome,     \* per request: how its last call ended
    \* history
    met          \* per request: what its call met with

config   == <<updates, step, target>>
requests == <<pc, op, service, client, outcome>>
vars == <<instance, mqttClient, myClient, monitor, config, requests, met>>

Init ==
    /\ instance = 1 /\ mqttClient = [i \in Instances |-> 0]
    /\ myClient = [c \in Clients |-> "none"]
    /\ monitor = [c \in Clients |-> None]
    /\ updates = 0 /\ step = "idle" /\ target = 1
    /\ pc = [r \in Requests |-> "idle"] /\ op = [r \in Requests |-> "publish"]
    /\ service = [r \in Requests |-> 1] /\ client = [r \in Requests |-> 0]
    /\ outcome = [r \in Requests |-> "none"] /\ met = [r \in Requests |-> {}]

\* The MqttClient of a CoreMqttClient, which 0 does not have.
Link(c) == IF c = 0 THEN "none" ELSE myClient[c]

\* The calls under way of the requests in R meet with x.
Meets(R, x) ==
    met' = [r \in Requests |-> IF pc[r] # "idle" /\ r \in R THEN met[r] \cup {x} ELSE met[r]]

-----------------------------------------------------------------------------
(***************************************************************************)
(* updated, by the one thread of Config Admin: stopClient on the client    *)
(* before, a new CoreMqttClient, runClient.  (Without properties it        *)
(* returns.)                                                               *)
(***************************************************************************)
\* Mutant: the client before is not stopped.
UpdateUnstopped ==
    /\ step = "idle" /\ updates < MaxUpdates
    /\ target' = instance
    /\ step' = "make"
    /\ Meets({r \in Requests : service[r] = instance}, "update")
    /\ UNCHANGED <<instance, mqttClient, myClient, monitor, updates, requests>>

Update ==
    /\ step = "idle" /\ updates < MaxUpdates
    /\ target' = instance
    /\ step' = IF Link(mqttClient[instance]) = "none" THEN "make" ELSE "disconnect"
    /\ Meets({r \in Requests : service[r] = instance}, "update")
    /\ UNCHANGED <<instance, mqttClient, myClient, monitor, updates, requests>>

\* Mutant: stopClient is synchronized, as publish is.
DisconnectSynchronized ==
    /\ step = "disconnect"
    /\ LET c == mqttClient[target] IN
        /\ monitor[c] = None
        /\ IF myClient[c] = "connected"
           THEN step' = "forget" /\ myClient' = [myClient EXCEPT ![c] = "unconnected"]
           ELSE step' = "make" /\ UNCHANGED myClient
    /\ UNCHANGED <<instance, mqttClient, monitor, updates, target, requests, met>>

\* disconnect() throws if there is no connection: the exception is only logged.
Disconnect ==
    /\ step = "disconnect"
    /\ LET c == mqttClient[target] IN
        IF myClient[c] = "connected"
        THEN step' = "forget" /\ myClient' = [myClient EXCEPT ![c] = "unconnected"]
        ELSE step' = "make" /\ UNCHANGED myClient
    /\ UNCHANGED <<instance, mqttClient, monitor, updates, target, requests, met>>

Forget ==
    /\ step = "forget" /\ step' = "make"
    /\ myClient' = [myClient EXCEPT ![mqttClient[target]] = "none"]
    /\ UNCHANGED <<instance, mqttClient, monitor, updates, target, requests, met>>

\* The field has the new client before that is connected.
Make ==
    /\ step = "make" /\ step' = "create"
    /\ updates' = updates + 1
    /\ mqttClient' = [mqttClient EXCEPT ![target] = updates']
    /\ UNCHANGED <<instance, myClient, monitor, target, requests, met>>

\* new MqttClient, which may throw.
Create ==
    /\ step = "create"
    /\ \/ step' = "connect" /\ myClient' = [myClient EXCEPT ![mqttClient[target]] = "unconnected"]
       \/ step' = "idle" /\ UNCHANGED myClient
    /\ UNCHANGED <<instance, mqttClient, monitor, updates, target, requests, met>>

\* connect, which may throw: nobody tries again.
Connect ==
    /\ step = "connect" /\ step' = "idle"
    /\ \/ myClient' = [myClient EXCEPT ![mqttClient[target]] = "connected"]
       \/ UNCHANGED myClient
    /\ UNCHANGED <<instance, mqttClient, monitor, updates, target, requests, met>>

-----------------------------------------------------------------------------
\* Mutant: connectionLost throws the MqttClient away.
ConnectionLostForgets(c) ==
    /\ myClient[c] = "connected"
    /\ myClient' = [myClient EXCEPT ![c] = "none"]
    /\ Meets({r \in Requests : c \in {mqttClient[service[r]], client[r]}}, "loss")
    /\ UNCHANGED <<instance, mqttClient, monitor, config, requests>>

\* connectionLost only logs.
ConnectionLost(c) ==
    /\ myClient[c] = "connected"
    /\ myClient' = [myClient EXCEPT ![c] = "unconnected"]
    /\ Meets({r \in Requests : c \in {mqttClient[service[r]], client[r]}}, "loss")
    /\ UNCHANGED <<instance, mqttClient, monitor, config, requests>>

\* The component is deactivated, which stops no client, and activated again.
Activate ==
    /\ instance < MaxInstances
    /\ instance' = instance + 1
    /\ UNCHANGED <<mqttClient, myClient, monitor, config, requests, met>>

-----------------------------------------------------------------------------
(***************************************************************************)
(* publish and subscribe.                                                  *)
(***************************************************************************)
\* What a call meets with at once.
MetAtOnce ==
    LET c == mqttClient[instance] IN
       (IF step # "idle" /\ target = instance THEN {"update"} ELSE {})
       \cup (IF Link(c) = "none" THEN {"unmade"} ELSE {})
       \cup (IF Link(c) = "unconnected" THEN {"loss"} ELSE {})

Call(r, what) ==
    /\ pc[r] = "idle"
    /\ pc' = [pc EXCEPT ![r] = "read"]
    /\ op' = [op EXCEPT ![r] = what]
    /\ service' = [service EXCEPT ![r] = instance]
    /\ outcome' = [outcome EXCEPT ![r] = "none"]
    /\ met' = [met EXCEPT ![r] = MetAtOnce]
    /\ UNCHANGED <<instance, mqttClient, myClient, monitor, config, client>>

\* The call returns, or throws; a publish leaves the monitor.
Return(r, how) ==
    /\ pc' = [pc EXCEPT ![r] = "idle"]
    /\ client' = [client EXCEPT ![r] = 0]
    /\ outcome' = [outcome EXCEPT ![r] = how]
    /\ monitor' = [c \in Clients |-> IF monitor[c] = r THEN None ELSE monitor[c]]

\* The field is read; without a client the message is dropped.
Read(r) ==
    /\ pc[r] = "read"
    /\ LET c == mqttClient[service[r]] IN
        IF c = 0
        THEN Return(r, "dropped")
        ELSE /\ client' = [client EXCEPT ![r] = c]
             /\ pc' = [pc EXCEPT ![r] = IF op[r] = "publish" THEN "enter" ELSE "send"]
             /\ UNCHANGED <<monitor, outcome>>
    /\ UNCHANGED <<instance, mqttClient, myClient, config, op, service, met>>

Enter(r) ==
    /\ pc[r] = "enter" /\ monitor[client[r]] = None
    /\ monitor' = [monitor EXCEPT ![client[r]] = r]
    /\ pc' = [pc EXCEPT ![r] = "topic"]
    /\ UNCHANGED <<instance, mqttClient, myClient, config, op, service, client, outcome, met>>

\* getTopic, outside of the try: without an MqttClient publish throws.
GetTopic(r) ==
    /\ pc[r] = "topic"
    /\ IF myClient[client[r]] = "none"
       THEN Return(r, "exception")
       ELSE pc' = [pc EXCEPT ![r] = "send"] /\ UNCHANGED <<monitor, client, outcome>>
    /\ UNCHANGED <<instance, mqttClient, myClient, config, op, service, met>>

\* Mutant: without a connection publish tries again.
SendAgain(r) ==
    /\ pc[r] = "send"
    /\ pc' = [pc EXCEPT ![r] = IF myClient[client[r]] = "connected" THEN "wait" ELSE "topic"]
    /\ UNCHANGED <<instance, mqttClient, myClient, monitor, config, op, service, client, outcome, met>>

\* The message is sent; every exception is only logged.
Send(r) ==
    /\ pc[r] = "send"
    /\ IF myClient[client[r]] = "connected"
       THEN pc' = [pc EXCEPT ![r] = "wait"] /\ UNCHANGED <<monitor, client, outcome>>
       ELSE Return(r, "failed")
    /\ UNCHANGED <<instance, mqttClient, myClient, config, op, service, met>>

\* The broker has acknowledged: waitForCompletion returns ...
Acknowledged(r) ==
    /\ pc[r] = "wait" /\ myClient[client[r]] = "connected"
    /\ Return(r, "delivered")
    /\ UNCHANGED <<instance, mqttClient, myClient, config, op, service, met>>

\* ... or throws, once the connection is gone.
Interrupted(r) ==
    /\ pc[r] = "wait" /\ myClient[client[r]] # "connected"
    /\ Return(r, "failed")
    /\ UNCHANGED <<instance, mqttClient, myClient, config, op, service, met>>

-----------------------------------------------------------------------------
Updating == Disconnect \/ Forget \/ Make \/ Create \/ Connect

\* What a request does without the broker, and with it.
Work(r) == Read(r) \/ Enter(r) \/ GetTopic(r) \/ Send(r) \/ Interrupted(r)

Next ==
    \/ Update \/ Updating \/ Activate
    \/ \E c \in Clients : ConnectionLost(c)
    \/ \E r \in Requests :
          \/ \E what \in {"publish", "subscribe"} : Call(r, what)
          \/ Work(r) \/ Acknowledged(r)

Spec == Init /\ [][Next]_vars

\* Threads run.  The broker owes nobody an acknowledgement.
FairSpec == Spec /\ WF_vars(Updating) /\ \A r \in Requests : WF_vars(Work(r))

-----------------------------------------------------------------------------
(***************************************************************************)
(* Properties                                                              *)
(***************************************************************************)

\* The value of every variable has its type.
TypeOK ==
    /\ instance \in Instances
    /\ mqttClient \in [Instances -> {0} \cup Clients]
    /\ myClient \in [Clients -> {"none", "unconnected", "connected"}]
    /\ monitor \in [Clients -> Requests \cup {None}]
    /\ updates \in 0 .. MaxUpdates
    /\ step \in {"idle", "disconnect", "forget", "make", "create", "connect"}
    /\ target \in Instances
    /\ pc \in [Requests -> {"idle", "read", "enter", "topic", "send", "wait"}]
    /\ op \in [Requests -> {"publish", "subscribe"}]
    /\ service \in [Requests -> Instances]
    /\ client \in [Requests -> {0} \cup Clients]
    /\ outcome \in [Requests -> {"none", "dropped", "exception", "failed", "delivered"}]
    /\ met \in [Requests -> SUBSET {"update", "unmade", "loss"}]

\* An activation of the component has at most one connection to the broker,
\* that of its current client: stopClient may throw, and leaves no connection
\* behind all the same.
OneConnection ==
    \A c \in Clients : myClient[c] = "connected" => \E i \in Instances : mqttClient[i] = c

\* While the service is steady every message is delivered: a call fails silently
\* only if it met with an exchange of the client, with a broker out of reach, or
\* with no client at all.  publish throws at its caller only if it met with an
\* exchange, or if no MqttClient could be created: never for a lost connection.
FailuresExplained ==
    \A r \in Requests :
        /\ outcome[r] \in {"dropped", "failed"} => met[r] # {}
        /\ outcome[r] = "exception" =>
              op[r] = "publish" /\ met[r] \cap {"update", "unmade"} # {}

\* A new configuration is taken up whatever the requests are waiting for ...
UpdateAnswered == step # "idle" ~> step = "idle"

\* ... and a request inside of the client that was replaced goes on.
Replaced(c) == c <= updates /\ \A i \in Instances : mqttClient[i] # c

StopReleases ==
    \A c \in Clients, r \in Requests : (monitor[c] = r /\ Replaced(c)) ~> monitor[c] # r
=============================================================================

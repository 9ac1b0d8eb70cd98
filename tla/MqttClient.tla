----------------------------- MODULE MqttClient -----------------------------
(***************************************************************************)
(* MqttClient (src/esp32/mqtt.cpp): keeps a list of subscriptions and asks *)
(* the broker for each of them, one after the other, whenever the session  *)
(* comes up.                                                               *)
(*                                                                         *)
(* The event handlers run one at a time in the task of the ESP-IDF client; *)
(* add() runs in the application's thread.  Nothing is locked.  The        *)
(* ESP-IDF client and the broker are external: a request made while the    *)
(* link is up reaches the broker, which acknowledges it unless the link    *)
(* goes down first; the broker forgets a session that ends.                *)
(***************************************************************************)
EXTENDS Naturals, Sequences, SequencesExt

CONSTANTS
  Topics,    \* the subscriptions the application adds
  AddTimes,  \* when it may: "before" app_start(), also once "connected", at "any" time
  MaxDrops   \* bound: how often the link goes down

NoTopic == "none"

MqttAssumption ==
  /\ NoTopic \notin Topics
  /\ AddTimes \subseteq {"before", "connected", "any"}
  /\ MaxDrops \in Nat

VARIABLES
  subs,       \* the list of subscriptions
  connected,
  next,       \* the member next: an index in subs, or 0
  handler,    \* where the client's task is in a handler, or "idle"
  session,    \* the task has seen CONNECTED and not yet DISCONNECTED
  started,    \* app_start() was called
  addWhen,    \* when add() may be called in this behaviour: one of AddTimes
  adding,     \* the subscription of the add() under way, or NoTopic
  apc,        \* where add() is
  link,       \* the connection to the broker
  broker,     \* the subscriptions the broker has in this session
  acks,       \* acknowledgements on their way
  drops

clientVars == <<subs, connected, next>>
taskVars == <<handler, session, started>>
addVars == <<addWhen, adding, apc>>
brokerVars == <<link, broker, acks, drops>>
mqttVars == <<clientVars, taskVars, addVars, brokerVars>>

MqttInit ==
  /\ subs = <<>> /\ connected = FALSE /\ next = 0
  /\ handler = "idle" /\ session = FALSE /\ started = FALSE
  /\ addWhen \in AddTimes /\ adding = NoTopic /\ apc = "idle"
  /\ link = FALSE /\ broker = {} /\ acks = 0 /\ drops = 0

\* subscribe(); the result of esp_mqtt_client_subscribe() is only logged.
Subscribe(s) ==
  /\ broker' = IF link THEN broker \cup {s} ELSE broker
  /\ acks' = IF link THEN acks + 1 ELSE acks
  /\ UNCHANGED <<link, drops>>

Following(i) == IF i < Len(subs) THEN i + 1 ELSE 0

-----------------------------------------------------------------------------
(* The application: app_start() and add().                                 *)

AppStart ==
  /\ ~started
  /\ apc = "idle"
  /\ started' = TRUE
  /\ UNCHANGED <<clientVars, handler, session, addVars, brokerVars>>

AddAppend(s) ==
  /\ apc = "idle"
  /\ s \notin ToSet(subs)
  /\ ~started \/ addWhen = "any" \/ (addWhen = "connected" /\ connected)
  /\ subs' = Append(subs, s)
  /\ adding' = s
  /\ apc' = "test"
  /\ UNCHANGED <<connected, next, taskVars, addWhen, brokerVars>>

\* Faulty: an add() that finds the session up does not ask.
AddTest_Session ==
  /\ apc = "test"
  /\ \/ ~session /\ apc' = "subscribe" /\ UNCHANGED adding
     \/ session /\ apc' = "idle" /\ adding' = NoTopic
  /\ UNCHANGED <<clientVars, taskVars, addWhen, brokerVars>>

AddTest ==
  /\ apc = "test"
  /\ \/ connected /\ apc' = "subscribe" /\ UNCHANGED adding
     \/ ~connected /\ apc' = "idle" /\ adding' = NoTopic
  /\ UNCHANGED <<clientVars, taskVars, addWhen, brokerVars>>

AddSubscribe ==
  /\ apc = "subscribe"
  /\ Subscribe(adding)
  /\ apc' = "idle"
  /\ adding' = NoTopic
  /\ UNCHANGED <<clientVars, taskVars, addWhen>>

-----------------------------------------------------------------------------
(* The handlers, in the client's task.                                     *)

\* The link comes up: on_connected() asks for the first subscription.
OnConnected ==
  /\ handler = "idle" /\ started /\ ~session
  /\ link' = TRUE
  /\ session' = TRUE
  /\ handler' = IF subs = <<>> THEN "idle" ELSE "first"
  /\ UNCHANGED <<clientVars, started, addVars, broker, acks, drops>>

SubscribeFirst ==
  /\ handler = "first"
  /\ Subscribe(subs[1])
  /\ handler' = "second"
  /\ UNCHANGED <<clientVars, session, started, addVars>>

ReadSecond ==
  /\ handler = "second"
  /\ next' = Following(1)
  /\ handler' = "idle"
  /\ UNCHANGED <<subs, connected, session, started, addVars, brokerVars>>

\* An acknowledgement arrives: on_subscribed().
OnSubscribed ==
  /\ handler = "idle" /\ session /\ acks > 0
  /\ acks' = acks - 1
  /\ handler' = IF next # 0 THEN "next" ELSE "flag"
  /\ UNCHANGED <<clientVars, session, started, addVars, link, broker, drops>>

\* Faulty: asks for the head again.
SubscribeNext_Head ==
  /\ handler = "next"
  /\ Subscribe(subs[1])
  /\ handler' = "advance"
  /\ UNCHANGED <<clientVars, session, started, addVars>>

SubscribeNext ==
  /\ handler = "next"
  /\ Subscribe(subs[next])
  /\ handler' = "advance"
  /\ UNCHANGED <<clientVars, session, started, addVars>>

Advance ==
  /\ handler = "advance"
  /\ next' = Following(next)
  /\ handler' = "flag"
  /\ UNCHANGED <<subs, connected, session, started, addVars, brokerVars>>

\* Faulty: takes the first acknowledgement for the last.
SetConnected_First ==
  /\ handler = "flag"
  /\ connected' = TRUE
  /\ handler' = "idle"
  /\ UNCHANGED <<subs, next, session, started, addVars, brokerVars>>

SetConnected ==
  /\ handler = "flag"
  /\ connected' = (next = 0)
  /\ handler' = "idle"
  /\ UNCHANGED <<subs, next, session, started, addVars, brokerVars>>

OnDisconnected ==
  /\ handler = "idle" /\ session /\ ~link
  /\ connected' = FALSE
  /\ session' = FALSE
  /\ UNCHANGED <<subs, next, handler, started, addVars, brokerVars>>

\* The link goes down, and the broker drops the session.
Drop ==
  /\ link
  /\ drops < MaxDrops
  /\ drops' = drops + 1
  /\ link' = FALSE
  /\ broker' = {}
  /\ acks' = 0
  /\ UNCHANGED <<clientVars, taskVars, addVars>>

-----------------------------------------------------------------------------
AddStep == AddTest \/ AddSubscribe

Handlers ==
  \/ OnConnected \/ SubscribeFirst \/ ReadSecond
  \/ OnSubscribed \/ SubscribeNext \/ Advance \/ SetConnected
  \/ OnDisconnected

MqttNext == AppStart \/ (\E s \in Topics : AddAppend(s)) \/ AddStep \/ Handlers \/ Drop

MqttSpec == MqttInit /\ [][MqttNext]_mqttVars

\* Both threads are scheduled, and the client reconnects; the link drops no more
\* than MaxDrops times, so it stays up in the end.
MqttFairSpec == MqttSpec /\ WF_mqttVars(AppStart) /\ WF_mqttVars(AddStep) /\ WF_mqttVars(Handlers)

-----------------------------------------------------------------------------
(* Properties.                                                             *)

MqttTypeOK ==
  /\ subs \in Seq(Topics) /\ IsInjective(subs)
  /\ connected \in BOOLEAN
  /\ next \in 0 .. Len(subs) /\ next # 1
  /\ handler \in {"idle", "first", "second", "next", "advance", "flag"}
  /\ session \in BOOLEAN /\ started \in BOOLEAN /\ link \in BOOLEAN
  /\ addWhen \in AddTimes
  /\ adding \in Topics \cup {NoTopic}
  /\ apc \in {"idle", "test", "subscribe"}
  /\ broker \subseteq Topics
  /\ acks \in Nat /\ drops \in Nat

\* "set true when finished subscribing to handlers in the queue when starting"
\* (mqtt.cpp:180): while the link is up and connected is set, the broker has been
\* asked for every subscription but one that add() is about to ask for.
ConnectedMeansAsked ==
  connected /\ link /\ session => ToSet(subs) \ {adding} \subseteq broker

\* The handlers ask for no subscription twice in a session: each acknowledgement
\* moves them on by exactly one (mqtt.cpp:174-178).  An add() that finds connected
\* set while the link drops may ask for one that the handlers also ask for.
AskedOnce ==
  [][\A s \in Topics :
       addWhen = "before" /\ acks' > acks /\ s \in broker => broker' # broker]_mqttVars

\* Once the link stays up, the broker has every subscription, however often it
\* went down in the middle of asking, and add() knows that it may ask itself.
AllSubscribed == <>[](link /\ broker = ToSet(subs) /\ (subs = <<>> \/ connected))
=============================================================================

----------------------------- MODULE MCServices -----------------------------
(***************************************************************************)
(* The services that the applications are built of, each with the          *)
(* constants of its small instance: every behaviour is one of the          *)
(* component that part names, and the others keep still.  They are         *)
(* extended, so that their constants are those of the configuration, but   *)
(* for the dispatcher, of which this is an instance.  The items of a list  *)
(* are the events, the entries of the watchdog and the clients.            *)
(***************************************************************************)
EXTENDS DeviceInit, ThreadLife, Network, MqttClient, EvQueue, Watchdog, SocketServer

VARIABLES
  part,   \* frozen: the component that the behaviour is of; the others keep still
  dp_head, dp_tail, dp_link, dp_items, dp_sem, dp_dead, dp_putting,
  dp_killing, dp_rpc, dp_cb, dp_owed, dp_puts

dispatchVars ==
  <<dp_head, dp_tail, dp_link, dp_items, dp_sem, dp_dead, dp_putting,
    dp_killing, dp_rpc, dp_cb, dp_owed, dp_puts>>

Dp == INSTANCE Dispatch WITH
  Items <- {"a", "b", "c"}, Null <- "null", SemMax <- 3, MaxPuts <- 5,
  head <- dp_head, tail <- dp_tail, link <- dp_link, items <- dp_items,
  sem <- dp_sem, dead <- dp_dead, putting <- dp_putting,
  killing <- dp_killing, rpc <- dp_rpc, cb <- dp_cb, owed <- dp_owed,
  puts <- dp_puts

\* One thread has an event that runs once, another all other events.
MCOwner == [e \in Events |-> IF e = CHOOSE f \in Events \ Periodic : TRUE THEN "a" ELSE "b"]

\* What the components assume of their constants.
ASSUME ServicesAssumption ==
  /\ EvQueueAssumption
  /\ WatchdogAssumption
  /\ ThreadLifeAssumption
  /\ SocketServerAssumption
  /\ NetworkAssumption
  /\ MqttAssumption

allVars == <<part, vars, dispatchVars, evVars, wdVars, threadVars, srvVars, netVars, mqttVars>>

MCInit ==
  /\ part \in {"devices", "dispatch", "events", "watchdog", "threads", "server", "network", "mqtt"}
  /\ Init /\ (part # "devices" => needs = [d \in Devices |-> {}])
  /\ \A d \in Devices \ {CHOOSE f \in CanFail : TRUE} : needs[d] \subseteq Devices   \* bound
  /\ Dp!Init
  /\ EvInit
  /\ WdInit
  /\ ThreadInit /\ (part # "threads" => platform = "linux")
  /\ ServerInit /\ (part # "server" => kind = "cli")
  /\ NetInit /\ (part # "network" => access_points = <<>>)
  /\ MqttInit /\ (part # "mqtt" => addWhen = "before")

MCNext ==
  \/ part = "devices" /\ Next
     /\ UNCHANGED <<part, dispatchVars, evVars, wdVars, threadVars, srvVars, netVars, mqttVars>>
  \/ part = "dispatch" /\ Dp!Next
     /\ UNCHANGED <<part, vars, evVars, wdVars, threadVars, srvVars, netVars, mqttVars>>
  \/ part = "events" /\ EvNext
     /\ UNCHANGED <<part, vars, dispatchVars, wdVars, threadVars, srvVars, netVars, mqttVars>>
  \/ part = "watchdog" /\ WdNext
     /\ UNCHANGED <<part, vars, dispatchVars, evVars, threadVars, srvVars, netVars, mqttVars>>
  \/ part = "threads" /\ ThreadNext
     /\ UNCHANGED <<part, vars, dispatchVars, evVars, wdVars, srvVars, netVars, mqttVars>>
  \/ part = "server" /\ ServerNext
     /\ UNCHANGED <<part, vars, dispatchVars, evVars, wdVars, threadVars, netVars, mqttVars>>
  \/ part = "network" /\ NetNext
     /\ UNCHANGED <<part, vars, dispatchVars, evVars, wdVars, threadVars, srvVars, mqttVars>>
  \/ part = "mqtt" /\ MqttNext
     /\ UNCHANGED <<part, vars, dispatchVars, evVars, wdVars, threadVars, srvVars, netVars>>

\* The fairness of each component.
MCSpec ==
  /\ MCInit /\ [][MCNext]_allVars
  /\ WF_vars(part = "devices" /\ Next)
  /\ \A w \in {"a", "b", "c"} : WF_dispatchVars(part = "dispatch" /\ Dp!PutPost(w))
  /\ WF_dispatchVars(part = "dispatch" /\ Dp!KillPost)
  /\ WF_dispatchVars(part = "dispatch" /\ Dp!Run)
  /\ WF_evVars(part = "events" /\ Loop)
  /\ WF_evVars(part = "events" /\ Pass)
  /\ \A t \in Threads : WF_evVars(part = "events" /\ Add(t))
  /\ WF_wdVars(part = "watchdog" /\ CheckExpired)
  /\ WF_wdVars(part = "watchdog" /\ Done)
  /\ \A t \in Pool : WF_threadVars(part = "threads" /\ Thread(t))
  /\ WF_threadVars(part = "threads" /\ PoolOwner)
  /\ WF_srvVars(part = "server" /\ Server)
  /\ \A c \in Clients : WF_srvVars(part = "server" /\ ClientThread(c))
  /\ WF_netVars(part = "network" /\ Task)
  /\ WF_netVars(part = "network" /\ Caller)
  /\ WF_netVars(part = "network" /\ Answer)
  /\ WF_mqttVars(part = "mqtt" /\ AppStart)
  /\ WF_mqttVars(part = "mqtt" /\ AddStep)
  /\ WF_mqttVars(part = "mqtt" /\ Handlers)

-----------------------------------------------------------------------------
\* What is due is done, whatever else is: a callback that was put is executed,
\* unless the dispatcher is killed (unit-tests/dispatch_test.cpp:59); every event
\* that is added runs or is taken off (src/panglos/event_queue.h:87); a thread
\* that is late is reported, however late the others are (src/watchdog.cpp:115);
\* and all topics are subscribed to while the link stays up
\* (src/esp32/mqtt.cpp:61).
DueIsDone ==
  /\ part = "dispatch" => Dp!PutIsExecuted
  /\ part = "events" => AddedRuns
  /\ part = "watchdog" => LateIsReported
  /\ part = "mqtt" => AllSubscribed

\* What was begun comes to an end, with all that it started: init_devices()
\* returns (src/device.cpp:150), a killed run() leaves (src/dispatch.cpp:35),
\* the pool is joined and deleted (unit-tests/thread.cpp:26), the server has
\* deleted all its clients (src/socket.cpp:398), and connect() returns,
\* connected or not (src/network.cpp:237).
OwnersEnd ==
  /\ part = "devices" => Returns
  /\ part = "dispatch" => Dp!KillEndsRun
  /\ part = "threads" => PoolEnds
  /\ part = "server" => ServerEnds
  /\ part = "network" => ConnectReturns
=============================================================================

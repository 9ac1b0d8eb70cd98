------------------------------ MODULE Objects -------------------------------
(***************************************************************************)
(* The registry of objects (src/object.cpp), the init functions of the     *)
(* devices that find each other through it (src/app/devices.cpp), and the  *)
(* threads that the INIT handlers start (src/app/cli_server.cpp).          *)
(*                                                                         *)
(* The devices come in any order that init_devices() may take (module      *)
(* DeviceInit: each after those it needs, one that can fail counting as    *)
(* done).  A table of devices gives each the kind of its init function,    *)
(* its needs, the parts that find_has() looks for in them, and its flags.  *)
(***************************************************************************)
EXTENDS Naturals, Sequences, SequencesExt

CONSTANTS
  AppDevices,   \* the names of the devices
  Kind,      \* the init function of each
  Needs,     \* the sequence of the names each needs
  Parts,     \* the parts that each name contains: scl_1 contains "scl"
  MayFail,   \* the devices with F_CAN_FAIL
  Hidden,    \* the devices with F_DONT_REGISTER
  NoObject

VARIABLES
  objects,   \* the list of Objects, its head first: name and object
  status,    \* what became of each device: "todo", "made", "failed", "asserted"
  used,      \* the objects each device keeps
  app,       \* run_cli(): "boot", "cli", "init", "loop"
  server,    \* the thread of net_server()
  socket     \* the socket of the factory: "none", "live", "deleted"

objVars == <<objects, status, used, app, server, socket>>

ObjInit ==
  /\ objects = <<>>
  /\ status = [d \in AppDevices |-> "todo"]
  /\ used = [d \in AppDevices |-> {}]
  /\ app = "boot"
  /\ server = "none"
  /\ socket = "none"

\* Objects_::add() pushes, so the newest of a name is found.
Add(list, n, o) == <<[name |-> n, obj |-> o]>> \o list

Found(list, n) == SelectInSeq(list, LAMBDA item : item.name = n)
get_object(list, n) == IF Found(list, n) = 0 THEN NoObject ELSE list[Found(list, n)].obj
Removed(list, n) == IF Found(list, n) = 0 THEN list ELSE RemoveAt(list, Found(list, n))

\* The first of the needs that contains the part, or NoObject.
find_has(d, part) ==
  LET i == SelectInSeq(Needs[d], LAMBDA n : part \in Parts[n])
  IN IF i = 0 THEN NoObject ELSE Needs[d][i]

GetPart(d, part) == IF find_has(d, part) = NoObject THEN NoObject ELSE get_object(objects, find_has(d, part))

\* What the application registers besides its devices: name and object.
OwnNames == {"cli_queue", "cli", "cli_commands", "tx_socket"}
OwnObjects == {"queue", "cli", "commands", "tx"}

\* A table of devices names, for each, what its init function asserts: a device
\* that is registered and may not fail.
Offers(e) == e \in AppDevices \ (MayFail \cup Hidden) /\ Kind[e] # "reset"
Offered(d, part) == find_has(d, part) # NoObject /\ Offers(find_has(d, part))
TableIsWhole(d) ==
  /\ Kind[d] = "reset" => Offered(d, "reset")
  /\ Kind[d] = "i2c_bitbang" => Offered(d, "scl") /\ Offered(d, "sda")
  /\ Kind[d] = "port" => Offered(d, "i2c")
  /\ Kind[d] = "seven_seg" => Offers("i2c") /\ \E i \in DOMAIN Needs[d] : Needs[d][i] = "i2c"
  /\ Kind[d] = "keyboard" => /\ find_has(d, "port") # NoObject
                             /\ find_has(d, "irq") # NoObject => Offers(find_has(d, "irq"))

ObjectsAssumption ==
  /\ MayFail \subseteq AppDevices
  /\ Hidden \subseteq AppDevices
  /\ NoObject \notin AppDevices \cup OwnObjects
  /\ AppDevices \cap OwnNames = {}
  /\ \A d \in AppDevices : Needs[d] \in Seq(AppDevices) /\ TableIsWhole(d)

\* Faulty: does not wait for what a device needs.
Ready_Any(d) == app = "boot" /\ status[d] = "todo"

\* init_devices() goes on until a device fails that may not.
Ready(d) ==
  /\ app = "boot"
  /\ \A e \in AppDevices \ MayFail : status[e] \notin {"failed", "asserted"}
  /\ status[d] = "todo"
  /\ \A i \in DOMAIN Needs[d] : status[Needs[d][i]] # "todo"

Made(d, with) ==
  /\ status' = [status EXCEPT ![d] = "made"]
  /\ used' = [used EXCEPT ![d] = with]
  /\ objects' = IF d \in Hidden THEN objects ELSE Add(objects, d, d)
  /\ UNCHANGED <<app, server, socket>>

Result(d, how) ==
  /\ status' = [status EXCEPT ![d] = how]
  /\ UNCHANGED <<objects, used, app, server, socket>>

\* gpio_init(), pwm_timer_init(), i2c_init() and uart_init() make their object.
make_init(d) == Ready(d) /\ Kind[d] = "make" /\ Made(d, {})

reset_init(d) ==
  /\ Ready(d)
  /\ Kind[d] = "reset"
  /\ IF GetPart(d, "reset") = NoObject THEN Result(d, "asserted")
     ELSE /\ status' = [status EXCEPT ![d] = "made"]
          /\ used' = [used EXCEPT ![d] = {GetPart(d, "reset")}]
          /\ UNCHANGED <<objects, app, server, socket>>

\* The interface is looked for by arg or "net", not through the needs.
mqtt_init(d) ==
  /\ Ready(d)
  /\ Kind[d] = "mqtt"
  /\ IF get_object(objects, "net") = NoObject THEN Result(d, "failed") ELSE Made(d, {})

\* The bus is looked for by arg or "i2c"; a probe may find nothing.
seven_seg_init(d) ==
  /\ Ready(d)
  /\ Kind[d] = "seven_seg"
  /\ \/ get_object(objects, "i2c") = NoObject /\ Result(d, "asserted")
     \/ get_object(objects, "i2c") # NoObject /\ Made(d, {get_object(objects, "i2c")})
     \/ get_object(objects, "i2c") # NoObject /\ Result(d, "failed")

\* The assert on sda tests scl again.
i2c_bitbang_init(d) ==
  /\ Ready(d)
  /\ Kind[d] = "i2c_bitbang"
  /\ IF GetPart(d, "scl") = NoObject \/ find_has(d, "sda") = NoObject THEN Result(d, "asserted")
     ELSE Made(d, {GetPart(d, "scl"), GetPart(d, "sda")})

port_init(d) ==
  /\ Ready(d)
  /\ Kind[d] = "port"
  /\ \/ GetPart(d, "i2c") = NoObject /\ Result(d, "asserted")
     \/ GetPart(d, "i2c") # NoObject /\ Made(d, {GetPart(d, "i2c")})
     \/ GetPart(d, "i2c") # NoObject /\ Result(d, "failed")

\* Faulty: asserts that the port is there.
keyboard_init_Assert(d) ==
  /\ Ready(d)
  /\ Kind[d] = "keyboard"
  /\ IF GetPart(d, "port") = NoObject THEN Result(d, "asserted")
     ELSE Made(d, {GetPart(d, "port"), GetPart(d, "irq")})

\* Without a port there is no keyboard; without an irq the keyboard polls.
keyboard_init(d) ==
  /\ Ready(d)
  /\ Kind[d] = "keyboard"
  /\ \/ find_has(d, "port") = NoObject /\ Result(d, "asserted")
     \/ find_has(d, "port") # NoObject /\ GetPart(d, "port") = NoObject /\ Result(d, "failed")
     \/ /\ GetPart(d, "port") # NoObject
        /\ IF find_has(d, "irq") # NoObject /\ GetPart(d, "irq") = NoObject THEN Result(d, "asserted")
           ELSE Made(d, {GetPart(d, "port"), GetPart(d, "irq")} \ {NoObject})

\* The application goes on to run_cli() once every device was tried.
StartCli ==
  /\ app = "boot"
  /\ \A d \in AppDevices : status[d] # "todo"
  /\ app' = "cli"
  /\ objects' = Add(objects, "cli_queue", "queue")
  /\ UNCHANGED <<status, used, server, socket>>

\* Faulty: registers the commands after the INIT event.
AddCommands_Late ==
  /\ app = "cli"
  /\ app' = "init"
  /\ objects' = Add(objects, "cli", "cli")
  /\ UNCHANGED <<status, used, server, socket>>

AddCommands ==
  /\ app = "cli"
  /\ app' = "init"
  /\ objects' = Add(Add(objects, "cli", "cli"), "cli_commands", "commands")
  /\ UNCHANGED <<status, used, server, socket>>

\* The INIT event calls net_cli_init() and net_server_init(): the thread of the
\* first asserts that it is given the commands.
InitEvent ==
  /\ app = "init"
  /\ app' = "loop"
  /\ server' = IF get_object(objects, "cli_commands") = NoObject THEN "asserted" ELSE "get_ip"
  /\ UNCHANGED <<objects, status, used, socket>>

\* Without a network, a running interface and a connection the thread ends.
get_ip ==
  /\ server = "get_ip"
  /\ server' \in IF get_object(objects, "net") = NoObject THEN {"ended"} ELSE {"open", "ended"}
  /\ UNCHANGED <<objects, status, used, app, socket>>

Serve ==
  /\ server = "open"
  /\ server' = "serve"
  /\ objects' = Add(objects, "tx_socket", "tx")
  /\ socket' = "live"
  /\ UNCHANGED <<status, used, app>>

\* run_socket_server() returned; the factory is deleted before its socket is
\* taken off the registry.
DeleteFactory ==
  /\ server = "serve"
  /\ server' = "deleted"
  /\ socket' = "deleted"
  /\ UNCHANGED <<objects, status, used, app>>

RemoveSocket ==
  /\ server = "deleted"
  /\ server' = "ended"
  /\ objects' = Removed(objects, "tx_socket")
  /\ UNCHANGED <<status, used, app, socket>>

ObjNext ==
  \/ \E d \in AppDevices :
       \/ make_init(d) \/ reset_init(d) \/ mqtt_init(d) \/ seven_seg_init(d)
       \/ i2c_bitbang_init(d) \/ port_init(d) \/ keyboard_init(d)
  \/ StartCli \/ AddCommands \/ InitEvent
  \/ get_ip \/ Serve \/ DeleteFactory \/ RemoveSocket

ObjSpec == ObjInit /\ [][ObjNext]_objVars

\* However the devices are ordered and whichever of them fail that may, no init
\* function asserts, none keeps a part it did not find, what is registered is
\* what was made, and the threads of the INIT event find the commands
\* (src/app/devices.cpp, src/app/cli_server.cpp:65).
NeedsAreFound ==
  /\ server # "asserted"
  /\ \A d \in AppDevices :
       /\ status[d] # "asserted"
       /\ NoObject \notin used[d]
       /\ \A e \in used[d] : status[e] = "made"
       /\ (get_object(objects, d) # NoObject) = (status[d] = "made" /\ d \notin Hidden /\ Kind[d] # "reset")
=============================================================================

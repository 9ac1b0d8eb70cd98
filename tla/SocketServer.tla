---------------------------- MODULE SocketServer ----------------------------
(***************************************************************************)
(* The socket server (src/socket.cpp) and its clients: the echo client of  *)
(* its test, the command line of src/cli_net.cpp, and the clients of       *)
(* src/tx_net.cpp that all receive what is sent to one socket.  The server *)
(* makes a client with a thread for each connection; a client that ends    *)
(* puts itself on the list of those to be deleted, which the server does   *)
(* at its next connection.  Each use of a list, under its mutex, is a      *)
(* step.  All the lists link the clients through the same field.           *)
(***************************************************************************)
EXTENDS LinkedList, Integers

CONSTANTS
  Kinds,      \* of "echo", "cli" and "tx"
  TxClients,  \* bound: connections of a tx server
  EndsEarly   \* whether a client may end before the server has linked it

SocketServerAssumption ==
  /\ LinkedListAssumption /\ Kinds \subseteq {"echo", "cli", "tx"}
  /\ TxClients \in Nat /\ EndsEarly \in BOOLEAN

Clients == Items

VARIABLES
  kind,                   \* frozen: the clients of this server
  clients, ex_clients,    \* the heads of the server's lists
  xclients,               \* the head of the list of XFactory
  links,                  \* Client::next
  where,                  \* where the thread of each client is
  sock,                   \* the state of each client's socket
  logging,                \* the clients that logger has as an output
  sent,                   \* history: whom the last transmission reached, and whom not
  startSem, killed,
  server,                 \* where the server is
  cur,                    \* the client it is at
  freed

listVars == <<clients, ex_clients, xclients, links>>
serverVars == <<killed, server, cur, freed>>
srvVars == <<kind, listVars, where, sock, logging, sent, startSem, serverVars>>

ServerInit ==
  /\ kind \in Kinds
  /\ clients = Null /\ ex_clients = Null /\ xclients = Null
  /\ links = Empty.next
  /\ where = [c \in Clients |-> "none"]
  /\ sock = [c \in Clients |-> "none"]
  /\ logging = {}
  /\ sent = [reached |-> {}, left |-> {}]
  /\ startSem = 0 /\ killed = FALSE
  /\ server = "accept" /\ cur = Null /\ freed = {}

ListOf(head) == [head |-> head, next |-> links]
Linked(head) == LET passed == Walk(ListOf(head)) IN {passed[i] : i \in DOMAIN passed}
ClientGoto(c, label) == where' = [where EXCEPT ![c] = label]

-----------------------------------------------------------------------------
(* The thread of a client: Client::runner().                               *)

ClientFrame == UNCHANGED <<kind, sent, serverVars>>

\* add_client() links the client with XFactory; the server's does nothing.
AddClient(c) ==
  /\ where[c] = "started"
  /\ ClientGoto(c, "post")
  /\ LET l == ListPush(ListOf(xclients), c) IN
       IF kind = "tx" THEN xclients' = l.head /\ links' = l.next
                      ELSE UNCHANGED <<xclients, links>>
  /\ UNCHANGED <<clients, ex_clients, sock, logging, startSem>> /\ ClientFrame

PostStarted(c) ==
  /\ where[c] = "post"
  /\ startSem' = startSem + 1
  /\ ClientGoto(c, "run")
  /\ UNCHANGED <<listVars, sock, logging>> /\ ClientFrame

\* The command "log"
Log(c) ==
  /\ kind = "cli" /\ where[c] = "run" /\ sock[c] = "open"
  /\ logging' = logging \cup {c}
  /\ UNCHANGED <<listVars, where, sock, startSem>> /\ ClientFrame

\* recv() of a connection that the peer has closed returns 0, not -1.
PeerCloses(c) ==
  /\ kind # "echo" /\ where[c] = "run" /\ sock[c] = "open"
  /\ sock' = [sock EXCEPT ![c] = "eof"]
  /\ UNCHANGED <<listVars, where, logging, startSem>> /\ ClientFrame

\* Faulty: goes on logging to the client that ends.
EndRun_Logging(c) ==
  /\ where[c] = "run"
  /\ EndsEarly \/ (server # "push" \/ cur # c)
  /\ kind # "echo" => sock[c] # "eof"
  /\ ClientGoto(c, IF kind = "tx" THEN "xdel" ELSE "del")
  /\ UNCHANGED <<listVars, sock, logging, startSem>> /\ ClientFrame

\* run() of the client returns: the command "exit", an error of recv(), as when the
\* server has closed the socket (lwIP; on Linux recv() may go on waiting), or, for
\* the echo client, what it was to do is done.
EndRun(c) ==
  /\ where[c] = "run"
  /\ EndsEarly \/ (server # "push" \/ cur # c)
  /\ kind # "echo" => sock[c] # "eof"
  /\ ClientGoto(c, IF kind = "tx" THEN "xdel" ELSE "del")
  /\ logging' = logging \ {c}
  /\ UNCHANGED <<listVars, sock, startSem>> /\ ClientFrame

\* del_client() of XFactory, before that of the server
XDelClient(c) ==
  /\ where[c] = "xdel"
  /\ ClientGoto(c, "del")
  /\ LET l == ListRemove(ListOf(xclients), c) IN xclients' = l.head /\ links' = l.next
  /\ UNCHANGED <<clients, ex_clients, sock, logging, startSem>> /\ ClientFrame

\* Faulty: moves the client also when it was not on the list.
DelClient_Always(c) ==
  /\ where[c] = "del"
  /\ ClientGoto(c, "gone")
  /\ LET l == ListRemove(ListOf(clients), c)
         x == ListPush([head |-> ex_clients, next |-> l.next], c)
     IN clients' = l.head /\ ex_clients' = x.head /\ links' = x.next
  /\ UNCHANGED <<xclients, sock, logging, startSem>> /\ ClientFrame

\* Faulty: leaves it on the list of clients.
DelClient_Keep(c) ==
  /\ where[c] = "del"
  /\ ClientGoto(c, "gone")
  /\ UNCHANGED <<listVars, sock, logging, startSem>> /\ ClientFrame

\* del_client() moves the client to ex_clients, if it is on clients.
DelClient(c) ==
  /\ where[c] = "del"
  /\ ClientGoto(c, "gone")
  /\ LET l == ListRemove(ListOf(clients), c)
         x == ListPush([head |-> ex_clients, next |-> l.next], c)
     IN IF Has(ListOf(clients), c)
          THEN clients' = l.head /\ ex_clients' = x.head /\ links' = x.next
          ELSE UNCHANGED <<clients, ex_clients, links>>
  /\ UNCHANGED <<xclients, sock, logging, startSem>> /\ ClientFrame

ClientThread(c) ==
  AddClient(c) \/ PostStarted(c) \/ EndRun(c) \/ XDelClient(c) \/ DelClient(c)

\* The clients of XFactory whose run() goes on: it drops what it receives.
Receiving == {c \in Clients : kind = "tx" /\ where[c] \in {"post", "run", "xdel"}}

\* send() of the socket of XFactory: to each client on its list, holding its mutex,
\* whatever becomes of the others.
Transmit ==
  /\ kind = "tx"
  /\ sent' = [reached |-> Linked(xclients), left |-> Receiving \ Linked(xclients)]
  /\ UNCHANGED <<kind, listVars, where, sock, logging, startSem, serverVars>>

-----------------------------------------------------------------------------
(* The server: run(), then join().                                         *)

ServerFrame == UNCHANGED <<kind, xclients, logging, sent>>

New == {c \in Clients : where[c] = "none"}
Made == Cardinality(Clients) - Cardinality(New)

\* The test's factory calls kill() when it makes the last of its clients.
Accept ==
  /\ server = "accept" /\ ~killed
  /\ kind = "tx" => Made < TxClients
  /\ \E c \in New :
       /\ ClientGoto(c, "started")
       /\ sock' = [sock EXCEPT ![c] = "open"]
       /\ cur' = c
       /\ killed' = (kind = "echo" /\ New = {c})
  /\ server' = "push"
  /\ UNCHANGED <<clients, ex_clients, links, startSem, freed>> /\ ServerFrame

\* accept() fails with EBADF once the owner has closed the server's socket.
AcceptFails ==
  /\ server = "accept" /\ ~killed
  /\ kind = "tx" /\ Made > 0
  /\ killed' = TRUE
  /\ server' = "join_clients"
  /\ UNCHANGED <<clients, ex_clients, links, where, sock, startSem, cur, freed>> /\ ServerFrame

PushClient ==
  /\ server = "push"
  /\ LET l == ListPush(ListOf(clients), cur) IN clients' = l.head /\ links' = l.next
  /\ server' = "wait"
  /\ UNCHANGED <<ex_clients, where, sock, startSem, killed, cur, freed>> /\ ServerFrame

WaitStarted ==
  /\ server = "wait"
  /\ startSem > 0
  /\ startSem' = startSem - 1
  /\ server' = "tidy" /\ cur' = Null
  /\ UNCHANGED <<clients, ex_clients, links, where, sock, killed, freed>> /\ ServerFrame

\* Faulty: join() does not go on to ex_clients.
AfterTidy_Once ==
  CASE server = "tidy" -> IF killed THEN "join_clients" ELSE "accept"
    [] OTHER -> "done"

AfterTidy ==
  CASE server = "tidy" -> IF killed THEN "join_clients" ELSE "accept"
    [] server = "join_clients" -> "join_ex"
    [] server = "join_ex" -> "done"

\* tidy_clients() of ex_clients, of clients, and of ex_clients again
Tidy ==
  /\ server \in {"tidy", "join_clients", "join_ex"} /\ cur = Null
  /\ LET head == IF server = "join_clients" THEN clients ELSE ex_clients
         l == ListPop(ListOf(head))
     IN IF head = Null
          THEN server' = AfterTidy /\ UNCHANGED <<clients, ex_clients, links, cur, sock>>
          ELSE /\ cur' = head
               /\ sock' = [sock EXCEPT ![head] = "closed"]
               /\ links' = l.next
               /\ IF server = "join_clients" THEN clients' = l.head /\ UNCHANGED ex_clients
                                             ELSE ex_clients' = l.head /\ UNCHANGED clients
               /\ UNCHANGED server
  /\ UNCHANGED <<where, startSem, killed, freed>> /\ ServerFrame

\* Faulty: does not join the thread.
DeleteClient_NoJoin ==
  /\ server \in {"tidy", "join_clients", "join_ex"} /\ cur # Null
  /\ freed' = freed \cup {cur}
  /\ cur' = Null
  /\ UNCHANGED <<clients, ex_clients, links, where, sock, startSem, killed, server>> /\ ServerFrame

\* kill() joins the thread, and the client is deleted.
DeleteClient ==
  /\ server \in {"tidy", "join_clients", "join_ex"} /\ cur # Null
  /\ where[cur] = "gone"
  /\ freed' = freed \cup {cur}
  /\ cur' = Null
  /\ UNCHANGED <<clients, ex_clients, links, where, sock, startSem, killed, server>> /\ ServerFrame

Server == Accept \/ AcceptFails \/ PushClient \/ WaitStarted \/ Tidy \/ DeleteClient

ServerNext ==
  Server \/ Transmit \/ \E c \in Clients : ClientThread(c) \/ Log(c) \/ PeerCloses(c)

\* Threads are scheduled, the run() of an echo client ends, connections come.
ServerFair == WF_srvVars(Server) /\ \A c \in Clients : WF_srvVars(ClientThread(c))

ServerSpec == ServerInit /\ [][ServerNext]_srvVars /\ ServerFair

-----------------------------------------------------------------------------
(* Properties.                                                             *)

\* A client that was deleted is on no list, its thread has ended, and nothing is
\* logged to it, whenever clients end while the server tidies up.  What is sent
\* to all reaches each client from add_client() to del_client(), and no other
\* (XFactory::send(), tx_net.cpp:114).
DeletedIsUnused ==
  /\ \A c \in freed :
       /\ where[c] = "gone"
       /\ c \notin Linked(clients) \cup Linked(ex_clients) \cup Linked(xclients) \cup logging
  /\ sent.left = {} /\ Linked(xclients) \subseteq Receiving

\* A client that has ended is on the list that the next connection tidies up
\* ("housekeeping : remove any expired clients", socket.cpp:388).
EndedIsTidied ==
  \A c \in Clients \ freed :
    where[c] = "gone" => c \in Linked(ex_clients) \/ cur = c

\* Both, of the clients of every kind.
ClientsAreTidied == EndedIsTidied /\ DeletedIsUnused

\* The server of the test ends, and all its clients are deleted ("delete all the
\* clients", socket.cpp:398).
ServerEnds == kind # "cli" /\ killed ~> server = "done" /\ freed = Clients \ New
=============================================================================

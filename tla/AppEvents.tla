----------------------------- MODULE AppEvents -----------------------------
(***************************************************************************)
(* The application's loop, run_cli() (src/app/cli.cpp), and the handlers   *)
(* of its events (src/app/event.cpp).  Interrupts and threads put events   *)
(* on the queue; the loop gives each to the handlers of its type until one *)
(* takes it.  A handler may register further handlers: the list has no     *)
(* lock, and all of it is used by this thread.                             *)
(***************************************************************************)
EXTENDS LinkedList

CONSTANTS
  TypeOf,     \* the type of each handler: a function
  Senders,    \* interrupts and threads that put an event of their own type
  Slots,      \* events that the queue holds
  MaxEvents   \* bound: events put

AppEventsAssumption ==
  /\ Slots \in Nat \ {0} /\ MaxEvents \in Nat
  /\ Senders \cap {"INIT", "IDLE", "none"} = {}

Handlers == Items
EventTypes == {TypeOf[h] : h \in Handlers}

VARIABLES
  handlers,  \* the list
  queue,     \* the events on the queue
  event,     \* the event being handled: its type, or "none"
  eh,        \* the handler that handle_event() is at
  calls,     \* history: how often each handler was called, up to 2
  took,      \* history: the handlers that have taken an event of type IDLE
  begun,     \* whether the INIT event is over
  puts

appVars == <<handlers, queue, event, eh, calls, took, begun, puts>>

\* Handlers registered before the loop starts, in an order that is left open.
AppInit ==
  /\ \E a, b \in Handlers :
       /\ a # b
       /\ handlers = ListPush(ListPush(Empty, a), b)
       /\ eh = b
  /\ event = "INIT"
  /\ queue = <<>>
  /\ calls = [h \in Handlers |-> 0]
  /\ took = {} /\ begun = FALSE /\ puts = 0

\* A queue that is full makes put() wait, or drops the event of an interrupt.
PutEvent(t) ==
  /\ puts < MaxEvents /\ Len(queue) < Slots
  /\ queue' = Append(queue, t)
  /\ puts' = puts + 1
  /\ UNCHANGED <<handlers, event, eh, calls, took, begun>>

AppFrame == UNCHANGED <<begun, puts>>

\* get() with a timeout: an event, or IDLE when there is none.
GetEvent ==
  /\ begun /\ event = "none"
  /\ event' = IF queue = <<>> THEN "IDLE" ELSE Head(queue)
  /\ queue' = IF queue = <<>> THEN queue ELSE Tail(queue)
  /\ eh' = handlers.head
  /\ UNCHANGED <<handlers, calls, took>> /\ AppFrame

Skip ==
  /\ event # "none" /\ eh # Null /\ TypeOf[eh] # event
  /\ eh' = handlers.next[eh]
  /\ UNCHANGED <<handlers, queue, event, calls, took>> /\ AppFrame

\* A handler may register others.
AddHandlers(l) == {l} \cup {ListPush(l, h) : h \in {x \in Handlers : ~Has(l, x) /\ calls[x] = 0}}

\* Faulty: goes on with the handlers of a list that has changed.
CallHandler_Restart ==
  /\ event # "none" /\ eh # Null /\ TypeOf[eh] = event
  /\ calls' = [calls EXCEPT ![eh] = IF @ = 2 THEN 2 ELSE @ + 1]
  /\ handlers' \in AddHandlers(handlers)
  /\ \E ok \in (IF event = "INIT" THEN {FALSE} ELSE BOOLEAN) :
       IF ok
         THEN /\ event' = "none" /\ eh' = Null
              /\ took' = IF event = "IDLE" THEN took \cup {eh} ELSE took
         ELSE /\ eh' = IF handlers' = handlers THEN handlers.next[eh] ELSE handlers'.head
              /\ UNCHANGED <<event, took>>
  /\ UNCHANGED queue /\ AppFrame

\* handle_event() calls a handler of the type: an INIT handler must not take the
\* event; one that takes IDLE is deleted.
CallHandler ==
  /\ event # "none" /\ eh # Null /\ TypeOf[eh] = event
  /\ calls' = [calls EXCEPT ![eh] = IF @ = 2 THEN 2 ELSE @ + 1]
  /\ \E ok \in (IF event = "INIT" THEN {FALSE} ELSE BOOLEAN),
        l \in AddHandlers(handlers) :
       IF ok
         THEN /\ event' = "none" /\ eh' = Null
              /\ handlers' = IF event = "IDLE" THEN ListRemove(l, eh) ELSE l
              /\ took' = IF event = "IDLE" THEN took \cup {eh} ELSE took
         ELSE /\ handlers' = l
              /\ eh' = l.next[eh]
              /\ UNCHANGED <<event, took>>
  /\ UNCHANGED queue /\ AppFrame

\* No handler has taken it.
Unhandled ==
  /\ event \notin {"none", "INIT"} /\ eh = Null
  /\ event' = "none"
  /\ UNCHANGED <<handlers, queue, eh, calls, took>> /\ AppFrame

OfType(t) == {h \in Handlers : TypeOf[h] = t}

\* Faulty: unlinks the first handler of the type only.
UnlinkHandlers_First ==
  /\ event = "INIT" /\ eh = Null
  /\ handlers' = ListRemoveFirst(handlers, OfType("INIT"))
  /\ event' = "none" /\ begun' = TRUE
  /\ UNCHANGED <<queue, eh, calls, took, puts>>

\* unlink_handlers(INIT): the first of the type, until there is none.
UnlinkHandlers ==
  /\ event = "INIT" /\ eh = Null
  /\ IF Find(handlers, OfType("INIT")) # Null
       THEN /\ handlers' = ListRemoveFirst(handlers, OfType("INIT"))
            /\ UNCHANGED <<event, begun>>
       ELSE /\ event' = "none" /\ begun' = TRUE
            /\ UNCHANGED handlers
  /\ UNCHANGED <<queue, eh, calls, took, puts>>

HandleEvent == GetEvent \/ Skip \/ CallHandler \/ Unhandled \/ UnlinkHandlers

AppNext == (\E t \in Senders : PutEvent(t)) \/ HandleEvent

AppSpec == AppInit /\ [][AppNext]_appVars

\* Whatever handlers register meanwhile: when the loop starts, no INIT handler is
\* left and none has run twice; a handler that takes IDLE is not called again;
\* and the handler under the cursor is one that still exists.
HandlersOnce ==
  /\ \A h \in Handlers : TypeOf[h] = "INIT" =>
       calls[h] <= 1 /\ (begun => ~Has(handlers, h) \/ calls[h] = 0)
  /\ \A h \in took : calls[h] > 0 /\ ~Has(handlers, h)
  /\ eh # Null => Has(handlers, eh)
=============================================================================

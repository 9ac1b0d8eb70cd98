------------------------------- MODULE Logger -------------------------------
(***************************************************************************)
(* Logging (src/logger.cpp): threads write messages to the outputs on a    *)
(* list, each with the severity down to which it takes them, holding the   *)
(* mutex; an interrupt writes to an output of its own, without it.  Each   *)
(* output is written to in two parts.                                      *)
(***************************************************************************)
EXTENDS LinkedList, Integers

CONSTANTS
  Outs,          \* outputs, that a logger is made of
  Writers,       \* threads that log
  IrqOut,        \* the output of the interrupt
  Levels         \* severities: the lower, the more severe

LoggerAssumption ==
  /\ LinkedListAssumption /\ Outs \subseteq Items /\ IrqOut \notin Items
  /\ Levels \subseteq Nat /\ Levels # {}
  /\ "none" \notin Writers

VARIABLES
  loggers,     \* the list
  level,       \* the severity of each logger
  severity,    \* of Logging itself
  log,         \* the message that each writer is writing
  holder,      \* of the mutex
  half,        \* for each output, who has written one part of a message to it
  wrote,       \* history: the outputs that the message under way was written to
  torn         \* history: whether parts of two messages were mixed

logVars == <<loggers, level, severity, log, holder, half, wrote, torn>>

Quiet == [s |-> -1, at |-> Null]
AllOuts == Outs \cup {IrqOut}

LoggerInit ==
  /\ loggers = Empty
  /\ level = [o \in AllOuts |-> CHOOSE s \in Levels : TRUE]
  /\ severity \in Levels
  /\ log = [w \in Writers |-> Quiet]
  /\ holder = "none"
  /\ half = [o \in AllOuts |-> "none"]
  /\ wrote = {} /\ torn = FALSE

Unlocked == holder = "none"
OnList == {o \in Outs : Has(loggers, o)}

\* add() makes a logger of the output.
AddLogger ==
  /\ Unlocked
  /\ \E o \in Outs \ OnList, s \in Levels :
       /\ loggers' = ListPush(loggers, o)
       /\ level' = [level EXCEPT ![o] = s]
  /\ UNCHANGED <<severity, log, holder, half, wrote, torn>>

\* Faulty: does not take the mutex.
RemoveLogger_Unlocked ==
  /\ \E o \in OnList : loggers' = ListRemove(loggers, o)
  /\ UNCHANGED <<level, severity, log, holder, half, wrote, torn>>

\* remove() unlinks the logger; its output may be deleted after that.
RemoveLogger ==
  /\ Unlocked
  /\ \E o \in OnList : loggers' = ListRemove(loggers, o)
  /\ UNCHANGED <<level, severity, log, holder, half, wrote, torn>>

set_severity ==
  /\ severity' \in Levels
  /\ UNCHANGED <<loggers, level, log, holder, half, wrote, torn>>

\* The outputs from that of l on, and the first of them that takes a message of severity s
Rest(l) ==
  {o \in Outs : \E i, j \in 1 .. Size(loggers) :
     Walk(loggers)[i] = l /\ Walk(loggers)[j] = o /\ i <= j}
Taking(l, s) == Find(loggers, {o \in Rest(l) : s <= level[o]})

\* log() of a thread: a message that is not severe enough is dropped.
StartLog(w) ==
  /\ log[w] = Quiet /\ Unlocked
  /\ \E s \in {x \in Levels : x <= severity} :
       LET o == Find(loggers, {x \in Outs : s <= level[x]}) IN
         /\ o # Null
         /\ log' = [log EXCEPT ![w] = [s |-> s, at |-> o]]
  /\ holder' = w /\ wrote' = {}
  /\ UNCHANGED <<loggers, level, severity, half, torn>>

\* FmtOut::printf(): one part, then the other.
Part(w, o) ==
  /\ torn' = (torn \/ half[o] \notin {"none", w})
  /\ half' = [half EXCEPT ![o] = IF @ = w THEN "none" ELSE w]

Write(w) ==
  LET o == log[w].at  next == loggers.next[o] IN
    /\ log[w] # Quiet
    /\ Part(w, o)
    /\ wrote' = wrote \cup {o}
    /\ IF half[o] # w
         THEN UNCHANGED <<log, holder>>
         ELSE LET n == IF next = Null THEN Null ELSE Taking(next, log[w].s)
              IN /\ log' = [log EXCEPT ![w] = IF n = Null THEN Quiet ELSE [@ EXCEPT !.at = n]]
                 /\ holder' = IF n = Null THEN "none" ELSE w
    /\ UNCHANGED <<loggers, level, severity>>

\* log() in an interrupt: it runs to its end.
LogIrq ==
  /\ \E s \in Levels : s <= severity /\ s <= level[IrqOut]
  /\ torn' = (torn \/ half[IrqOut] # "none")
  /\ UNCHANGED <<loggers, level, severity, log, holder, half, wrote>>

LoggerNext ==
  \/ AddLogger \/ RemoveLogger \/ set_severity \/ LogIrq
  \/ \E w \in Writers : StartLog(w) \/ Write(w)

LoggerSpec == LoggerInit /\ [][LoggerNext]_logVars

\* Whoever logs while outputs come and go: a thread writes only to an output that
\* is still on the list, the parts of two messages are never mixed, and a message
\* has gone to the outputs that take its severity and to no other, but for those
\* from the one that it is being written to on.
LinesAreWhole ==
  /\ ~torn
  /\ \A w \in Writers : log[w] # Quiet =>
       /\ log[w].at \in OnList /\ holder = w
       /\ \A o \in OnList :
            /\ log[w].s <= level[o] => o \in wrote \/ o \in Rest(log[w].at)
            /\ o \in wrote => log[w].s <= level[o]
=============================================================================

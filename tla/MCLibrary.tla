------------------------------ MODULE MCLibrary -----------------------------
(***************************************************************************)
(* The library modules, each with the constants of its small instance:     *)
(* every behaviour is one of the component that part names, and the others *)
(* keep still.  Those that the theorems are about are extended, so that    *)
(* their constants are those of the configuration; the rest are instances  *)
(* with constants given here, on variables that they share.  The items of  *)
(* a list are the handlers of events and the pairs of the storage.         *)
(***************************************************************************)
EXTENDS IntrusiveList, AppEvents, Storage, Nmea, Objects, Logger, Commands, RingBuffer

\* The values of the constants that are not plain.  Commands: the words that are
\* numbers.
Numerals == [w \in {"0", "1"} |-> IF w = "1" THEN 1 ELSE 0]

\* AppEvents: what the handlers are for.
HandlerTypes == [h1 |-> "INIT", h2 |-> "INIT", h3 |-> "KEY", h4 |-> "IDLE"]

\* Objects: an application's list of devices.
DeviceNames == {"scl", "sda", "i2c", "port", "irq", "keyboard", "reset", "net", "mqtt", "seven"}
DeviceKind ==
  [d \in DeviceNames |->
     CASE d = "i2c" -> "i2c_bitbang" [] d = "seven" -> "seven_seg"
       [] d \in {"port", "keyboard", "reset", "mqtt"} -> d [] OTHER -> "make"]
DeviceNeeds ==
  [d \in DeviceNames |->
     CASE d = "i2c" -> <<"sda", "scl">> [] d \in {"port", "seven"} -> <<"i2c">>
       [] d = "keyboard" -> <<"irq", "port">> [] d = "reset" -> <<"scl">> [] OTHER -> <<>>]
NameParts == [d \in DeviceNames |-> IF d = "scl" THEN {"scl", "reset"} ELSE {d}]

\* Json: "q" is the quote, "_" a space, "t" a keyword.
JsonWords ==
  {<<"{">>, <<"}">>, <<"[">>, <<"]">>, <<":">>, <<",">>, <<"q", "a", "q">>, <<"q">>,
   <<"/">>, <<"1">>, <<"t">>, <<"_">>, <<"a">>}
JsonStarts ==
  {<<>>, <<"{", "q", "a", "q", ":">>, <<"[", "{", "q", "a", "q", ":", "1", ",">>,
   <<"{", "q", "a", "q", ":", "{", "q", "a", "q", ":">>,
   <<"{", "q", "a", "q", ":", "[", "]", ",", "q", "a", "q", ":">>}

\* Nmea: two good sentences, and those with another field in any place.
Txt(c) == [text |-> c, val |-> 0, len |-> 0, point |-> FALSE]
Whole(v, n) == [text |-> "number", val |-> v, len |-> n, point |-> FALSE]
Dec(v, n) == [text |-> "number", val |-> v, len |-> n, point |-> TRUE]
Gga ==
  <<Txt("?"), Dec(123519, 6), Dec(4807, 4), Txt("N"), Dec(1131, 5), Txt("W"), Whole(1, 1), Whole(8, 2),
    Dec(0, 1), Dec(545, 3), Txt("M"), Dec(46, 2), Txt("M"), Txt(""), Txt("")>>
Rmc ==
  <<Txt("?"), Whole(225446, 6), Txt("A"), Dec(4916, 4), Txt("S"), Dec(12311, 5), Txt("E"), Dec(5, 3),
    Dec(54, 3), Whole(191194, 6), Txt(""), Txt("")>>
Fields ==
  {Txt(""), Txt("N"), Txt("?"), Txt("V"), Whole(7, 1), Whole(310223, 6), Whole(3102234, 7), Dec(12, 2), Dec(5959, 4)}
Sentence(t, f, s) == [type |-> t, fields |-> f, star |-> s, xor |-> 1]
SomeSentences ==
  {Sentence("$GPGGA", [Gga EXCEPT ![i] = f], "right") : i \in 2 .. 15, f \in Fields}
  \cup {Sentence("$GPRMC", [Rmc EXCEPT ![i] = f], "right") : i \in 2 .. 12, f \in Fields}
  \cup {Sentence("$GPRMC", [Rmc EXCEPT ![3] = Txt("V"), ![i] = f], "right") : i \in 4 .. 12, f \in Fields}
  \cup {Sentence("$GPRMC", SubSeq(Rmc, 1, 11), "right"), Sentence("$GPRMC", Append(Rmc, Txt("")), "right"),
         Sentence("$GPGGA", Gga, "wrong"), Sentence("$GPGGA", Gga, "none"),
         [Sentence("$GPRMC", Rmc, "none") EXCEPT !.xor = 0], Sentence("$GPVTG", Rmc, "right"),
         Sentence("$GPRMC", <<Txt("?")>>, "right")}

VARIABLES
  part,   \* frozen: the component that the behaviour is of
  v1, v2, v3, v4, v5, v6, v7, v8, v9   \* of the instances, each has its own meaning of them

Da == INSTANCE DateTime WITH
  LastYear <- 8, yy <- v1, mm <- v2, dd <- v3, elapsed <- v4

He == INSTANCE HeapWalk WITH
  Addresses <- 1 .. 2, Sizes <- {1, 2}, Headroom <- 1, heap <- v1,
  snapshot <- v2, size <- v3, idx <- v4, other <- v5, cmd <- v6, shown <- v7

Sm == INSTANCE Streams WITH
  Text <- <<"a", "b", "c", "n", "n", "d", "e">>, Delimit <- {"n"},
  LineSize <- 2, OutSize <- 5, ChunkSize <- 2, MaxChunks <- 2, no_eol <- v1,
  idx <- v2, line <- v3, sent <- v4, data <- v5, taken <- v6, chunks <- v7,
  read <- v8, stuck <- v9

Js == INSTANCE Json WITH
  Words <- JsonWords, Starts <- JsonStarts, MaxWords <- 3,
  Paths <- {<< <<"a">> >>, << <<"a">>, <<"a">> >>}, MaxNest <- 3,
  Refusals <- {1, 2, 3}, text <- v1, words <- v2

\* What the components assume of their constants.
ASSUME LibraryAssumption ==
  /\ LinkedListAssumption
  /\ AppEventsAssumption
  /\ StorageAssumption
  /\ NmeaAssumption
  /\ ObjectsAssumption
  /\ Da!DateTimeAssumption
  /\ LoggerAssumption
  /\ CommandsAssumption
  /\ RingAssumption
  /\ He!HeapWalkAssumption
  /\ Sm!StreamsAssumption

shared == <<v1, v2, v3, v4, v5, v6, v7, v8, v9>>
extended == <<useVars, appVars, storageVars, nmeaVars, objVars, logVars, cmdVars, ringVars>>
allVars == <<part, extended, shared>>

SharedInit ==
  \/ /\ part \in {"list", "app", "storage", "nmea", "objects", "logger", "commands", "ring"}
     /\ v1 = 0 /\ v2 = 0 /\ v3 = 0 /\ v4 = 0 /\ v5 = 0 /\ v6 = 0 /\ v7 = 0 /\ v8 = 0 /\ v9 = 0
  \/ /\ part = "dates" /\ Da!DateInit
     /\ v5 = 0 /\ v6 = 0 /\ v7 = 0 /\ v8 = 0 /\ v9 = 0
  \/ part = "heap" /\ He!HeapInit /\ v8 = 0 /\ v9 = 0
  \/ part = "streams" /\ Sm!StreamsInit
  \/ /\ part = "json" /\ Js!JsonInit
     /\ v3 = 0 /\ v4 = 0 /\ v5 = 0 /\ v6 = 0 /\ v7 = 0 /\ v8 = 0 /\ v9 = 0

MCInit ==
  /\ SharedInit /\ ListInit /\ NmeaInit /\ ObjInit
  /\ AppInit /\ (part # "app" => handlers = ListPush(ListPush(Empty, "h1"), "h2"))
  /\ StorageInit /\ (part # "storage" => backend = "memory")
  /\ LoggerInit /\ (part # "logger" => severity = 2)
  /\ CmdInit /\ (part # "commands" => devices = {})
  /\ RingInit /\ (part # "ring" => kind = "uart")

\* All that is extended but the variables of one component keeps still.
OthersKeep ==
  /\ part # "list" => UNCHANGED useVars
  /\ part # "app" => UNCHANGED appVars
  /\ part # "storage" => UNCHANGED storageVars
  /\ part # "nmea" => UNCHANGED nmeaVars
  /\ part # "objects" => UNCHANGED objVars
  /\ part # "logger" => UNCHANGED logVars
  /\ part # "commands" => UNCHANGED cmdVars
  /\ part # "ring" => UNCHANGED ringVars

MCNext ==
  /\ UNCHANGED part
  /\ OthersKeep
  /\ \/ /\ UNCHANGED shared
        /\ \/ part = "list" /\ ListUse
           \/ part = "app" /\ AppNext
           \/ part = "storage" /\ StorageNext
           \/ part = "nmea" /\ NmeaNext
           \/ part = "objects" /\ ObjNext
           \/ part = "logger" /\ LoggerNext
           \/ part = "commands" /\ CmdNext
           \/ part = "ring" /\ RingNext
     \/ part = "dates" /\ Da!NextDay /\ UNCHANGED <<v5, v6, v7, v8, v9>>
     \/ part = "heap" /\ He!HeapNext /\ UNCHANGED <<v8, v9>>
     \/ part = "streams" /\ Sm!StreamsNext
     \/ part = "json" /\ Js!JsonNext /\ UNCHANGED <<v3, v4, v5, v6, v7, v8, v9>>

MCSpec == MCInit /\ [][MCNext]_allVars

-----------------------------------------------------------------------------
\* What the library computes is right.  The calendar numbers the days one after the
\* other (src/date.cpp:46); what the heap command shows as changed has changed, and
\* up to the end of the shorter snapshot it shows all of it
\* (src/app/cli_cmd.cpp:434); characters come out of the streams in the order in
\* which they went in, none lost but those that did not fit (src/io.cpp:129); and
\* the parser of JSON accepts the texts of the grammar and says where it stops
\* (src/json.cpp:244), its sections are read as what they hold (src/json.cpp:68), and
\* its matcher tells of the items at the paths asked for (src/json.cpp:524).
ResultsAreRight ==
  /\ part = "dates" => Da!CalendarCounts
  /\ part = "heap" => He!DiffIsSound /\ He!DiffIsComplete
  /\ part = "streams" => Sm!StreamIsKept
  /\ part = "json" => Js!ParsesTheGrammar /\ Js!SectionsAgree /\ Js!MatchesByPath
=============================================================================

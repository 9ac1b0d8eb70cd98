------------------------------ MODULE Storage ------------------------------
(***************************************************************************)
(* Storage: typed values by namespace and key.  On Linux a list of pairs   *)
(* in memory (src/linux/storage.cpp), on the ESP32 the NVS partition of    *)
(* the flash (src/esp32/storage.cpp), where a change is safe once it is    *)
(* committed; the db commands that use both (src/app/cli_cmd.cpp), and the *)
(* parameters that are read at the start (src/storage.cpp).                *)
(* A key here is a namespace with a key.  A string or a blob stands for    *)
(* its size.  Each function of Linux holds the mutex throughout.           *)
(***************************************************************************)
EXTENDS LinkedList, Integers, SequencesExt

CONSTANTS
  Keys,
  Blocks,       \* the pairs that the memory can give
  Numbers,      \* values of all types
  Room,         \* the size of the buffer that is passed to get()
  Allowed,      \* the values of a parameter that are valid
  Default,      \* its value in the program
  MaxBlob       \* bound: characters typed for a blob

StorageAssumption ==
  /\ IsFiniteSet(Keys) /\ Blocks \subseteq Items
  /\ Numbers \subseteq Nat /\ {Room, Default, MaxBlob} \subseteq Nat

Types == {"INT8", "INT16", "INT32", "STR", "BLOB"}
Nothing == [type |-> "NONE", val |-> 0]
Free == [key |-> Null, data |-> Nothing]

VARIABLES
  backend,     \* frozen: which of the two this program has
  pairs,       \* the list
  kv,          \* the pairs: key and data, or Free
  db,          \* history: what is stored for each key
  got,         \* what the last call has returned, and what it should return
  iter,        \* a Storage::List: where it is, and what it has returned
  nvs, flash,  \* NVS: the values of now, and those committed
  acked,       \* history: the values that a command has stored
  cmd,         \* the command under way: its key and where it is
  param        \* a parameter of the program

memVars == <<pairs, kv, db, got, iter>>
nvsVars == <<nvs, flash, acked, cmd, param>>
storageVars == <<backend, memVars, nvsVars>>

StorageInit ==
  /\ backend \in {"memory", "nvs"}
  /\ pairs = Empty /\ kv = [p \in Items |-> Free]
  /\ db = [k \in Keys |-> Nothing]
  /\ got = <<Nothing, Nothing>>
  /\ iter = [at |-> "none", item |-> Null, seen |-> <<>>]
  /\ nvs = [k \in Keys |-> Nothing] /\ flash = nvs
  /\ acked = nvs
  /\ cmd = [at |-> "idle"]
  /\ param = Default

-----------------------------------------------------------------------------
(* The list of pairs.                                                      *)

Used == {p \in Items : kv[p] # Free}

KeyMatch(k) == {p \in Used : kv[p].key = k}

FindPair(k) == Find(pairs, KeyMatch(k))

\* find() for a type
FindTyped(k, t) ==
  LET p == FindPair(k) IN IF p # Null /\ kv[p].data.type = t THEN p ELSE Null

\* Faulty: makes a new pair for a key that has one of another type.
FindSet_Typed(k, data) ==
  LET p == FindTyped(k, data.type) IN
    IF p # Null
      THEN kv' = [kv EXCEPT ![p].data = data] /\ UNCHANGED pairs
      ELSE \E new \in Blocks \ Used :
             /\ kv' = [kv EXCEPT ![new] = [key |-> k, data |-> data]]
             /\ pairs' = ListPush(pairs, new)

\* find_set(), and the data that it is called for: a pair that exists gives up its
\* data first.
FindSet(k, data) ==
  LET p == FindPair(k) IN
    IF p # Null
      THEN kv' = [kv EXCEPT ![p].data = data] /\ UNCHANGED pairs
      ELSE \E new \in Blocks \ Used :
             /\ kv' = [kv EXCEPT ![new] = [key |-> k, data |-> data]]
             /\ pairs' = ListPush(pairs, new)

\* set() of each type, and set_blob().
Set(k) ==
  \E t \in Types, v \in Numbers :
    LET data == [type |-> t, val |-> v] IN
      /\ FindSet(k, data)
      /\ db' = [db EXCEPT ![k] = data]
      /\ UNCHANGED <<got, iter>>

\* What get() makes of the data: a string is cut at the size of the buffer.
Read(data) ==
  IF data.type = "STR" /\ data.val > Room THEN [data EXCEPT !.val = Room] ELSE data

\* What a caller asks for by key and type, from what is stored: nothing when the
\* type is another one, or a blob does not fit.
Wanted(data, t) ==
  IF data.type # t \/ (t = "BLOB" /\ data.val > Room) THEN Nothing ELSE Read(data)

\* get() of each type
Get(k) ==
  \E t \in Types \ {"BLOB"} :
    LET p == FindTyped(k, t)
    IN /\ got' = <<IF p = Null THEN Nothing ELSE Read(kv[p].data), Wanted(db[k], t)>>
       /\ UNCHANGED <<pairs, kv, db, iter>>

GetBlob(k) ==
  LET p == FindTyped(k, "BLOB")
      fits == p # Null /\ kv[p].data.val <= Room
  IN /\ got' = <<IF fits THEN kv[p].data ELSE Nothing, Wanted(db[k], "BLOB")>>
     /\ UNCHANGED <<pairs, kv, db, iter>>

GetType(k) ==
  LET p == FindPair(k)
  IN /\ got' = <<IF p = Null THEN Nothing ELSE kv[p].data, db[k]>>
     /\ UNCHANGED <<pairs, kv, db, iter>>

\* erase() unlinks the pair, frees its data and deletes it.  It is not called while
\* the namespace is being listed: the iterator keeps a pointer without the mutex.
Erase(k) ==
  LET p == FindPair(k) IN
    /\ iter.at = "none" /\ p # Null
    /\ pairs' = ListRemove(pairs, p)
    /\ kv' = [kv EXCEPT ![p] = Free]
    /\ db' = [db EXCEPT ![k] = Nothing]
    /\ UNCHANGED <<got, iter>>

\* clear() pops one pair after the other, in one critical section.
Clear ==
  /\ iter.at = "none"
  /\ pairs' = Empty
  /\ kv' = [p \in Items |-> IF p \in {Walk(pairs)[i] : i \in 1 .. Size(pairs)} THEN Free ELSE kv[p]]
  /\ db' = [k \in Keys |-> Nothing]
  /\ UNCHANGED <<got, iter>>

\* Storage::List, of all namespaces
Start ==
  /\ iter.at = "none"
  /\ iter' = [at |-> "list", item |-> pairs.head, seen |-> <<>>]
  /\ UNCHANGED <<pairs, kv, db, got>>

\* List::get() and Iterator::next()
ListGet ==
  /\ iter.at = "list" /\ iter.item # Null
  /\ iter' = [iter EXCEPT !.item = pairs.next[iter.item],
                          !.seen = Append(@, kv[iter.item].key)]
  /\ UNCHANGED <<pairs, kv, db, got>>

\* ~List()
EndList ==
  /\ iter.at = "list"
  /\ iter' = [at |-> "none", item |-> Null, seen |-> <<>>]
  /\ UNCHANGED <<pairs, kv, db, got>>

MemNext ==
  \/ \E k \in Keys : Set(k) \/ Get(k) \/ GetBlob(k) \/ GetType(k) \/ Erase(k)
  \/ Clear \/ Start \/ ListGet \/ EndList

-----------------------------------------------------------------------------
(* NVS, and the commands.                                                  *)

Idle == cmd.at = "idle"

Stored == {[type |-> "INT32", val |-> v] : v \in Numbers \ {0}}
            \cup {[type |-> "STR", val |-> v] : v \in Numbers}

\* nvs_set_i32() and nvs_set_str() change the value of now, or fail.
NvsSet(k, data) ==
  /\ nvs' = [nvs EXCEPT ![k] = data]
  /\ cmd' = [at |-> "commit", key |-> k]
  /\ acked' = [acked EXCEPT ![k] = Nothing]

\* cmd_storage_set(): the type follows from the text; a zero stops the program on
\* the ESP32 (ASSERT(value)).  It commits when the value was set.
CmdSet ==
  /\ Idle
  /\ \E k \in Keys, data \in Stored :
       NvsSet(k, data) \/ UNCHANGED <<nvs, cmd, acked>>
  /\ UNCHANGED <<flash, param>>

\* cmd_storage_del()
CmdDel ==
  /\ Idle
  /\ \E k \in Keys : nvs[k] # Nothing /\ NvsSet(k, Nothing)
  /\ UNCHANGED <<flash, param>>

\* Faulty: says that the value is stored, without having committed it.
Commit_Not ==
  /\ cmd.at = "commit"
  /\ acked' = [acked EXCEPT ![cmd.key] = nvs[cmd.key]]
  /\ cmd' = [at |-> "idle"]
  /\ UNCHANGED <<nvs, flash, param>>

\* commit(): the command is done.
Commit ==
  /\ cmd.at = "commit"
  /\ flash' = nvs
  /\ acked' = [acked EXCEPT ![cmd.key] = nvs[cmd.key]]
  /\ cmd' = [at |-> "idle"]
  /\ UNCHANGED <<nvs, param>>

\* blob_set(): what is typed from now on goes to captured().
CmdBlob ==
  /\ Idle
  /\ \E k \in Keys : cmd' = [at |-> "capture", key |-> k, last |-> "other", idx |-> 0]
  /\ UNCHANGED <<nvs, flash, acked, param>>

\* captured(): two line ends in succession end the text, the last is left out.  The
\* blob is set and not committed, if it can be.
Captured ==
  /\ cmd.at = "capture"
  /\ \E c \in {"eol", "other"} :
       IF c = "eol" /\ cmd.last = "eol"
         THEN /\ \/ nvs' = [nvs EXCEPT ![cmd.key] = [type |-> "BLOB", val |-> cmd.idx]]
                 \/ UNCHANGED nvs
              /\ acked' = IF nvs' = nvs THEN acked ELSE [acked EXCEPT ![cmd.key] = Nothing]
              /\ cmd' = [at |-> "idle"]
         ELSE /\ cmd.idx < MaxBlob
              /\ cmd' = [cmd EXCEPT !.last = c, !.idx = @ + 1]
              /\ UNCHANGED <<nvs, acked>>
  /\ UNCHANGED <<flash, param>>

\* get_type(), and the get() of each type and get_blob()
NvsType(k) == nvs[k].type
NvsGet(k, t) == IF NvsType(k) = t THEN nvs[k] ELSE Nothing

\* What cmd_storage_get() and blob_get() show of the data: a string that does not
\* fit is an error, and so is an empty blob.
Shown(data) ==
  IF (data.type = "STR" /\ data.val > Room) \/ (data.type = "BLOB" /\ data.val = 0)
    THEN Nothing ELSE data

\* cmd_storage_get() and blob_get(): the type first, then the value.
CmdGet ==
  /\ Idle
  /\ \E k \in Keys :
       got' = <<Shown(NvsGet(k, NvsType(k))), Shown(IF acked[k] # Nothing THEN acked[k] ELSE nvs[k])>>
  /\ UNCHANGED <<nvsVars, pairs, kv, db, iter>>

\* Storage::List of NVS: those that have a value, in the order of the flash.
CmdList ==
  /\ Idle
  /\ \E order \in SetToSeqs({k \in Keys : nvs[k] # Nothing}) :
       cmd' = [at |-> "list", todo |-> order, shown |-> {}]
  /\ UNCHANGED <<nvs, flash, acked, param>>

\* List::get(): the entry, and on to the next, after the last of which the iterator
\* is released.
ListNext ==
  /\ cmd.at = "list" /\ cmd.todo # <<>>
  /\ LET k == Head(cmd.todo) IN
       cmd' = [cmd EXCEPT !.todo = Tail(@), !.shown = @ \cup {<<k, NvsType(k)>>}]
  /\ UNCHANGED <<nvs, flash, acked, param>>

\* cmd_storage_list() ends when get() returns false.
ListDone ==
  /\ cmd.at = "list" /\ cmd.todo = <<>>
  /\ cmd' = [at |-> "idle"]
  /\ UNCHANGED <<nvs, flash, acked, param>>

\* get_params(): the value of the parameter, if one is stored as INT32 and valid
\* (validate_range(), validate_set()).
GetParams ==
  /\ Idle
  /\ \E k \in Keys :
       LET v == NvsGet(k, "INT32") IN
         param' = IF v # Nothing /\ v.val \in Allowed THEN v.val ELSE param
  /\ UNCHANGED <<nvs, flash, acked, cmd>>

\* The power goes: of what was not committed, some may have reached the flash.
Restart ==
  /\ nvs' \in [Keys -> {nvs[k] : k \in Keys} \cup {flash[k] : k \in Keys}]
  /\ \A k \in Keys : nvs'[k] \in {nvs[k], flash[k]}
  /\ flash' = nvs'
  /\ cmd' = [at |-> "idle"]
  /\ param' = Default
  /\ UNCHANGED acked

NvsNext ==
  \/ /\ \/ CmdSet \/ CmdDel \/ Commit \/ CmdBlob \/ Captured
        \/ CmdList \/ ListNext \/ ListDone \/ GetParams \/ Restart
     /\ UNCHANGED memVars
  \/ CmdGet

-----------------------------------------------------------------------------
StorageNext ==
  \/ backend = "memory" /\ MemNext /\ UNCHANGED <<backend, nvsVars>>
  \/ backend = "nvs" /\ NvsNext /\ UNCHANGED backend

StorageSpec == StorageInit /\ [][StorageNext]_storageVars

\* The list of pairs is a map from keys to values: there is one pair for each key
\* that has a value, of the type it was stored with last, whatever was stored and
\* erased before; all pairs in memory are in the list; every call returns what
\* was stored; a list that is complete has returned each key that was there.
PairsAreMap ==
  LET passed == Walk(pairs) IN
    /\ {passed[i] : i \in DOMAIN passed} = Used /\ Len(passed) = Cardinality(Used)
    /\ \A p \in Used : kv[p].data = db[kv[p].key]
    /\ \A k \in Keys : db[k] = Nothing <=> FindPair(k) = Null
    /\ got[1] = got[2]
    /\ iter.at = "list" => \A i, j \in DOMAIN iter.seen : i # j => iter.seen[i] # iter.seen[j]

\* What a set or del command has stored survives a loss of power (the command
\* commits it, cli_cmd.cpp:865), and a parameter is only ever taken from the values
\* that are valid.  A list that is complete shows what is stored, with its type.
AckedSurvives ==
  /\ \A k \in Keys : acked[k] # Nothing => nvs[k] = acked[k]
  /\ param \in Allowed \cup {Default}
  /\ cmd.at = "list" => \A k \in Keys \ ToSet(cmd.todo), t \in Types :
       <<k, t>> \in cmd.shown <=> nvs[k].type = t

\* Storage holds the pairs that were set, and those that were acknowledged
\* survive a restart (src/linux/storage.cpp:153, src/esp32/storage.cpp:78).
PairsAreKept == PairsAreMap /\ AckedSurvives
=============================================================================

------------------------------ MODULE HeapWalk ------------------------------
(***************************************************************************)
(* The command "mem" (src/app/cli_cmd.cpp): a snapshot of the blocks of    *)
(* the heap, counted first and then saved while other threads go on        *)
(* allocating, and the comparison of two of them.  A block is a record of  *)
(* its address, its size and whether it is used; a snapshot is a sequence  *)
(* in the order of addresses, and the rest of its memory is zero.          *)
(***************************************************************************)
EXTENDS Integers, Sequences, FiniteSets, SequencesExt

CONSTANTS
  Addresses,    \* where blocks can begin
  Sizes,
  Headroom      \* entries of a snapshot more than blocks were counted

HeapWalkAssumption ==
  /\ Addresses \subseteq Nat \ {0} /\ IsFiniteSet(Addresses)
  /\ Sizes \subseteq Nat /\ Headroom \in Nat \ {0}

VARIABLES
  heap,            \* the blocks
  snapshot, size,  \* heap_state
  idx,
  other,           \* heap_state.other_snapshot
  cmd,             \* the command under way, and where it is
  shown            \* what it has shown

heapVars == <<heap, snapshot, size, idx, other, cmd, shown>>

\* The size of a free block does not matter.
Block == {b \in [ptr : Addresses, size : Sizes, used : BOOLEAN] :
            b.used \/ b.size = CHOOSE s \in Sizes : TRUE}
None == <<>>

HeapInit ==
  /\ heap \in {{}} \cup {{b} : b \in Block}
  /\ snapshot = None /\ size = 0 /\ idx = 0
  /\ other = [blocks |-> None, size |-> 0]
  /\ cmd = [is |-> "none", at |-> "done"]
  /\ shown = {}

\* Another thread allocates or frees, or its block is split or joined.
Allocate ==
  /\ \E a \in Addresses :
       \/ \E b \in Block : b.ptr = a /\ b \notin heap /\ heap' = {x \in heap : x.ptr # a} \cup {b}
       \/ heap' = {x \in heap : x.ptr # a}
  /\ UNCHANGED <<snapshot, size, idx, other, cmd, shown>>

\* heap_caps_walk(): the blocks by their addresses
Walk(h) == SetToSortSeq(h, LAMBDA a, b : a.ptr < b.ptr)

Begin(c) ==
  /\ cmd.at = "done"
  /\ cmd' = [is |-> c, at |-> "begin"]
  /\ shown' = {}
  /\ UNCHANGED <<heap, snapshot, size, idx, other>>

\* CMD_DIFF puts the snapshot aside first.
Aside ==
  /\ cmd = [is |-> "diff", at |-> "begin"]
  /\ IF size = 0
       THEN cmd' = [cmd EXCEPT !.at = "done"] /\ UNCHANGED <<snapshot, other>>
       ELSE /\ other' = [blocks |-> snapshot, size |-> size]
            /\ snapshot' = None
            /\ cmd' = [cmd EXCEPT !.at = "count"]
  /\ UNCHANGED <<heap, size, idx, shown>>

\* _cmd_heap_snapshot(): FN_COUNT, and the memory for the blocks ...
Count ==
  /\ cmd.at = "count" \/ cmd = [is |-> "mark", at |-> "begin"]
  /\ idx' = Cardinality(heap)
  /\ size' = idx' + Headroom
  /\ snapshot' = None
  /\ cmd' = [cmd EXCEPT !.at = "save"]
  /\ UNCHANGED <<heap, other, shown>>

\* ... FN_SAVE: as many blocks as there is memory for.
Save ==
  /\ cmd.at = "save"
  /\ snapshot' = SubSeq(Walk(heap), 1, IF Cardinality(heap) < size THEN Cardinality(heap) ELSE size)
  /\ idx' = Len(snapshot')
  /\ cmd' = [cmd EXCEPT !.at = IF cmd.is = "diff" THEN "compare" ELSE "done"]
  /\ UNCHANGED <<heap, size, other, shown>>

\* HeapItem::valid()
Valid(s, i) == i \in DOMAIN s

\* Faulty: takes every block for a used one.
cmp_heaps_Free(now, was) ==
  LET diff[i \in 1 .. Len(now) + 1, j \in 1 .. Len(was) + 1] ==
        IF ~Valid(now, i) \/ ~Valid(was, j) THEN {}
        ELSE IF now[i].ptr = was[j].ptr
          THEN (IF now[i].size # was[j].size THEN {<<"=", now[i].ptr>>} ELSE {})
                 \cup diff[i + 1, j + 1]
        ELSE IF now[i].ptr < was[j].ptr
          THEN {<<">", now[i].ptr>>} \cup diff[i + 1, j]
        ELSE {<<"<", was[j].ptr>>} \cup diff[i, j + 1]
  IN diff[1, 1]

\* cmp_heaps(): goes through both while both have blocks, skipping the free ones.
cmp_heaps(now, was) ==
  LET diff[i \in 1 .. Len(now) + 1, j \in 1 .. Len(was) + 1] ==
        IF ~Valid(now, i) \/ ~Valid(was, j) THEN {}
        ELSE IF ~now[i].used THEN diff[i + 1, j]
        ELSE IF ~was[j].used THEN diff[i, j + 1]
        ELSE IF now[i].ptr = was[j].ptr
          THEN (IF now[i].size # was[j].size THEN {<<"=", now[i].ptr>>} ELSE {})
                 \cup diff[i + 1, j + 1]
        ELSE IF now[i].ptr < was[j].ptr
          THEN {<<">", now[i].ptr>>} \cup diff[i + 1, j]
        ELSE {<<"<", was[j].ptr>>} \cup diff[i, j + 1]
  IN diff[1, 1]

\* The differences are shown and the old snapshot is put back; idx stays.
Compare ==
  /\ cmd.at = "compare"
  /\ shown' = cmp_heaps(snapshot, other.blocks)
  /\ cmd' = [is |-> "diff", at |-> "done", now |-> snapshot, was |-> other.blocks]
  /\ snapshot' = other.blocks /\ size' = other.size
  /\ other' = [blocks |-> None, size |-> 0]
  /\ UNCHANGED <<heap, idx>>

\* CMD_SHOW prints idx blocks.
Show ==
  /\ cmd = [is |-> "show", at |-> "begin"]
  /\ shown' = IF size = 0 THEN {} ELSE 1 .. idx
  /\ cmd' = [cmd EXCEPT !.at = "done"]
  /\ UNCHANGED <<heap, snapshot, size, idx, other>>

\* CMD_RELEASE
Release ==
  /\ cmd = [is |-> "release", at |-> "begin"]
  /\ snapshot' = None /\ size' = 0
  /\ cmd' = [cmd EXCEPT !.at = "done"]
  /\ UNCHANGED <<heap, idx, other, shown>>

HeapNext ==
  \/ Allocate
  \/ \E c \in {"mark", "show", "diff", "release"} : Begin(c)
  \/ Aside \/ Count \/ Save \/ Compare \/ Show \/ Release

HeapSpec == HeapInit /\ [][HeapNext]_heapVars

UsedAt(s) == {s[i].ptr : i \in {n \in DOMAIN s : s[n].used}}
SizeAt(s, a) == {s[i].size : i \in {n \in DOMAIN s : s[n].ptr = a}}

\* Whatever is allocated between the two passes of a snapshot, and between two
\* snapshots: a block that a comparison shows was used in one and not in the other,
\* or has changed its size, and it is shown as what it is.
DiffIsSound ==
  cmd.is = "diff" /\ cmd.at = "done" /\ shown # {} =>
    \A d \in shown :
      LET n == d[2] \in UsedAt(cmd.now)  w == d[2] \in UsedAt(cmd.was) IN
        CASE d[1] = ">" -> n /\ ~w
          [] d[1] = "<" -> w /\ ~n
          [] d[1] = "=" -> n /\ w /\ SizeAt(cmd.now, d[2]) # SizeAt(cmd.was, d[2])

\* A comparison shows every block that is used in one snapshot only, up to the
\* last one of the other: the loop ends there, and does not go on to "print the
\* other" (src/app/cli_cmd.cpp:479).
DiffIsComplete ==
  LET Ends(from, to) == {a \in from \ to : \E b \in to : b > a} IN
    cmd.is = "diff" /\ cmd.at = "done" /\ "now" \in DOMAIN cmd =>
      LET now == UsedAt(cmd.now)  was == UsedAt(cmd.was) IN
        {<<">", a>> : a \in Ends(now, was)} \cup {<<"<", a>> : a \in Ends(was, now)} \subseteq shown
=============================================================================

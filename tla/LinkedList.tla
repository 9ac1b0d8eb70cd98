----------------------------- MODULE LinkedList -----------------------------
(***************************************************************************)
(* The intrusive list (src/list.cpp, List<T> of src/panglos/list.h): a     *)
(* head and a link in each item.  A list is a record of its head and of    *)
(* the links of all items; lists of items with the same link share it.     *)
(* The place of an item is the item before it, or Null for the head: where *)
(* the pointer to it is stored.  Each function holds the mutex throughout. *)
(***************************************************************************)
EXTENDS Naturals, Sequences, FiniteSets

CONSTANTS Items, Null

LinkedListAssumption == IsFiniteSet(Items) /\ Null \notin Items

Empty == [head |-> Null, next |-> [w \in Items |-> Null]]

Places == Items \cup {Null}

At(l, p) == IF p = Null THEN l.head ELSE l.next[p]

Store(l, p, w) ==
  IF p = Null THEN [l EXCEPT !.head = w] ELSE [l EXCEPT !.next[p] = w]

\* for (; *head; head = next_fn(*head)): the items passed from the head.  Links
\* that form a cycle are followed until one item more than there are has passed.
Walk(l) ==
  LET after == [w \in Places |-> IF w = Null THEN Null ELSE l.next[w]]
      nth[n \in Nat] == IF n = 0 THEN l.head ELSE after[nth[n - 1]]
      count == Cardinality({n \in 0 .. Cardinality(Items) : nth[n] # Null})
  IN [i \in 1 .. count |-> nth[i - 1]]

Size(l) == Len(Walk(l))

\* list_find(), list_has() and list_visit(): the place of the first item of T,
\* or of the end of the list.
Place(l, T) ==
  CHOOSE p \in Places : \E passed \in {Walk(l)} :
    \E i \in 1 .. Len(passed) + 1 :
      /\ p = IF i = 1 THEN Null ELSE passed[i - 1]
      /\ i = Len(passed) + 1 \/ passed[i] \in T
      /\ \A j \in 1 .. i - 1 : passed[j] \notin T

Find(l, T) == [p \in Places |-> At(l, p)][Place(l, T)]
Has(l, w) == Find(l, {w}) # Null

\* _list_insert() at each place
Inserted(l, w) == [p \in Places |-> Store([l EXCEPT !.next[w] = At(l, p)], p, w)]

ListPush(l, w) == Inserted(l, w)[Null]
ListAppend(l, w) == Inserted(l, w)[Place(l, {})]

\* list_add_sorted(): before the first item of T, those that w does not come after.
AddSorted(l, w, T) == Inserted(l, w)[Place(l, T)]

\* Faulty: does not clear the link.
Popped_Linked(l) ==
  [p \in Places |-> IF At(l, p) = Null THEN l ELSE Store(l, p, l.next[At(l, p)])]

\* list_pop() at each place
Popped(l) ==
  [p \in Places |->
    LET w == At(l, p) IN
      IF w = Null THEN l ELSE [Store(l, p, l.next[w]) EXCEPT !.next[w] = Null]]

ListPop(l) == Popped(l)[Null]

\* list_remove() of the first item of T, if there is one
ListRemoveFirst(l, T) == Popped(l)[Place(l, T)]
ListRemove(l, w) == ListRemoveFirst(l, {w})
=============================================================================

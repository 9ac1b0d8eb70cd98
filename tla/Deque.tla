------------------------------- MODULE Deque -------------------------------
(***************************************************************************)
(* Deque<T> (src/panglos/deque.h): a list with a pointer to its first and  *)
(* to its last item, linked through a field of the items themselves.       *)
(***************************************************************************)
EXTENDS Naturals, Sequences, SequencesExt

CONSTANTS
  Items,  \* what may be linked
  Null

ASSUME DequeAssumption == Null \notin Items

VARIABLES
  head, tail,
  link,       \* *next_fn(w) for each item w
  items       \* history: the items that were pushed and not popped, in order

dequeVars == <<head, tail, link, items>>

DequeInit ==
  /\ head = Null
  /\ tail = Null
  /\ link = [w \in Items |-> Null]
  /\ items = <<>>

PushHead(w) ==
  /\ head' = w
  /\ tail' = IF tail = Null THEN w ELSE tail
  /\ link' = [link EXCEPT ![w] = head]
  /\ items' = <<w>> \o items

PushTail(w) ==
  /\ head' = IF head = Null THEN w ELSE head
  /\ tail' = w
  /\ link' = IF head = Null THEN [link EXCEPT ![w] = Null]
                            ELSE [[link EXCEPT ![w] = Null] EXCEPT ![tail] = w]
  /\ items' = Append(items, w)

\* pop_head() of a deque that is not empty; the item keeps its link.
PopHead ==
  /\ head # Null
  /\ \/ head = tail /\ head' = Null /\ tail' = Null
     \/ head # tail /\ head' = link[head] /\ UNCHANGED tail
  /\ items' = Tail(items)
  /\ UNCHANGED link

-----------------------------------------------------------------------------
\* The deque by itself, used as it must be: an item that is linked is not
\* pushed again.
DequeNext ==
  \/ \E w \in Items : w \notin ToSet(items) /\ (PushHead(w) \/ PushTail(w))
  \/ PopHead

DequeSpec == DequeInit /\ [][DequeNext]_dequeVars

\* Every pointer is null or an item.
DequeTypeOK ==
  /\ head \in Items \cup {Null} /\ tail \in Items \cup {Null}
  /\ link \in [Items -> Items \cup {Null}]
  /\ items \in Seq(Items)

\* The pointers represent the sequence of items: the walk from head that visit()
\* and pop_head() make passes exactly those items, in order, and ends at tail,
\* though pop_head() leaves stale links in the items it returns.
Represents ==
  /\ head = Null <=> items = <<>>
  /\ tail = Null <=> items = <<>>
  /\ items # <<>> =>
       head = items[1] /\ tail = items[Len(items)] /\ link[tail] = Null
  /\ \A i \in 1 .. Len(items) - 1 : link[items[i]] = items[i + 1]
=============================================================================

--------------------------- MODULE IntrusiveList ---------------------------
(***************************************************************************)
(* A List<T> by itself (src/panglos/list.h), with the sequence of items    *)
(* that its links should stand for.                                        *)
(***************************************************************************)
EXTENDS LinkedList, SequencesExt

VARIABLES list, items, taken

useVars == <<list, items, taken>>

ListInit == list = Empty /\ items = <<>> /\ taken = Null

Added == ToSet(items)

ListUse ==
  \/ \E w \in Items \ Added :
       \/ list' = ListPush(list, w) /\ items' = <<w>> \o items /\ taken' = Null
       \/ list' = ListAppend(list, w) /\ items' = Append(items, w) /\ taken' = Null
  \/ list' = ListPop(list) /\ taken' = list.head
     /\ items' = IF items = <<>> THEN items ELSE Tail(items)
  \/ \E w \in Items :
       /\ list' = ListRemove(list, w)
       /\ taken' = Find(list, {w})
       /\ items' = RemoveFirst(items, w)

ListSpec == ListInit /\ [][ListUse]_useVars

\* Walking the links passes exactly the items that were added and not taken, in
\* order, whatever was done before; an item that was taken has no link left, so
\* that it can go on another list.
LinksFollowItems ==
  /\ Walk(list) = items
  /\ \A w \in Items \ Added : list.next[w] = Null
=============================================================================

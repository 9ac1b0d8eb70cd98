---------------------------- MODULE Lists_proofs ----------------------------
(***************************************************************************)
(* The intrusive list, and what keeps its items on it: the queue of        *)
(* events, the watchdog, the socket server, the list by itself, the        *)
(* handlers of application events, the storage and the outputs of the log, *)
(* for any items.  A list is a sequence of distinct items (IsList), which  *)
(* each operation changes as its name says, leaving the links of all other *)
(* items alone.  The properties are not inductive, as they say nothing of  *)
(* the items that are on no list: each component has an invariant of its   *)
(* own that does.                                                          *)
(***************************************************************************)
EXTENDS EvQueue, Watchdog, SocketServer, IntrusiveList, AppEvents, Storage, Logger, ListLemmas

-----------------------------------------------------------------------------
(* The intrusive list: what its operations do to the sequence of its items.*)

\* The pointers of l link the items of q, in this order.
Link(q, i) == IF i <= Len(q) THEN q[i] ELSE Null
Before(q, i) == IF i = 1 THEN Null ELSE q[i - 1]

IsList(l, q) ==
  /\ q \in Seq(Items) /\ Distinct(q)
  /\ l = [head |-> l.head, next |-> l.next] /\ l.next \in [Items -> Places]
  /\ l.head = Link(q, 1)
  /\ \A i \in 1 .. Len(q) : l.next[q[i]] = Link(q, i + 1)

LEMMA SeqFacts ==
  ASSUME NEW q \in Seq(Items), Distinct(q)
  PROVE  /\ Len(q) \in Nat /\ DOMAIN q = 1 .. Len(q)
         /\ \A i \in 1 .. Len(q) : q[i] \in Items
         /\ \A i, j \in 1 .. Len(q) : q[i] = q[j] => i = j
         /\ q = <<>> <=> Len(q) = 0
         /\ ToSet(q) = {q[i] : i \in 1 .. Len(q)}
<1>1. Len(q) \in Nat /\ DOMAIN q = 1 .. Len(q) /\ \A i \in 1 .. Len(q) : q[i] \in Items
  BY LenProperties
<1>2. q = <<>> <=> Len(q) = 0
  BY <1>1, EmptySeq
<1> QED
  BY <1>1, <1>2 DEF Distinct, ToSet

LEMMA AtIn ==
  ASSUME NEW q \in Seq(Items), NEW i \in 1 .. Len(q)
  PROVE  q[i] \in ToSet(q)
  BY DEF ToSet

\* What storing a pointer does to the two parts of a list.
LEMMA StoreFacts ==
  ASSUME NEW h, NEW n \in [Items -> Places], NEW v, NEW x \in Items
  PROVE  /\ [[head |-> h, next |-> n] EXCEPT !.head = v] = [head |-> v, next |-> n]
         /\ [[head |-> h, next |-> n] EXCEPT !.next[x] = v] = [head |-> h, next |-> [n EXCEPT ![x] = v]]
  OBVIOUS

\* A list has no more items than there are.
LEMMA SizeBound ==
  ASSUME LinkedListAssumption, NEW q \in Seq(Items), Distinct(q)
  PROVE  /\ Len(q) <= Cardinality(Items) /\ Cardinality(Items) \in Nat
         /\ IsFiniteSet(ToSet(q)) /\ Cardinality(ToSet(q)) = Len(q)
<1>1. Len(q) \in Nat /\ DOMAIN q = 1 .. Len(q) /\ q \in [1 .. Len(q) -> Items]
  BY LenProperties
<1>7. \A i, j \in 1 .. Len(q) : q[i] = q[j] => i = j
  BY <1>1 DEF Distinct
<1>8. IsInjective(q)
  BY <1>1, <1>7 DEF IsInjective
<1>2. q \in Injection(1 .. Len(q), Items)
  BY <1>1, <1>8, Zenon DEF Injection
<1>3. IsFiniteSet(1 .. Len(q)) /\ Cardinality(1 .. Len(q)) = Len(q)
  BY <1>1, FS_Interval
<1>4. IsFiniteSet(Items) /\ Cardinality(Items) \in Nat
  BY FS_CardinalityType DEF LinkedListAssumption
<1>5. q \in Surjection(1 .. Len(q), ToSet(q))
  BY <1>1 DEF Surjection, ToSet
<1>6. q \in Injection(1 .. Len(q), ToSet(q))
  <2>1. q \in [1 .. Len(q) -> ToSet(q)]
    BY <1>1 DEF ToSet
  <2> QED
    BY <1>8, <2>1, Zenon DEF Injection
<1> QED
  BY <1>2, <1>3, <1>4, <1>5, <1>6, FS_Injection, FS_Surjection

\* Walking the list passes exactly its items, in order.
LEMMA WalkIs ==
  ASSUME LinkedListAssumption, NEW l, NEW q, IsList(l, q)
  PROVE  Walk(l) = q
<1> DEFINE after == [w \in Places |-> IF w = Null THEN Null ELSE l.next[w]]
           Steps(f) == f = [n \in Nat |-> IF n = 0 THEN l.head ELSE after[f[n - 1]]]
           nth == CHOOSE f : Steps(f)
           count == Cardinality({n \in 0 .. Cardinality(Items) : nth[n] # Null})
           f0 == [n \in Nat |-> Link(q, n + 1)]
<1>1. q \in Seq(Items) /\ Distinct(q) /\ l.next \in [Items -> Places] /\ l.head = Link(q, 1)
      /\ \A i \in 1 .. Len(q) : l.next[q[i]] = Link(q, i + 1)
  BY DEF IsList
<1>2. /\ Len(q) \in Nat /\ DOMAIN q = 1 .. Len(q)
      /\ \A i \in 1 .. Len(q) : q[i] \in Items
      /\ q \in [1 .. Len(q) -> Items]
  BY <1>1, SeqFacts, LenProperties
<1>3. Null \notin Items
  BY DEF LinkedListAssumption
<1>4. ASSUME NEW n \in Nat \ {0} PROVE Link(q, n + 1) = after[Link(q, n)]
  <2>1. CASE n <= Len(q)
    BY <1>1, <1>2, <1>3, <2>1 DEF Link, Places
  <2>2. CASE ~(n <= Len(q))
    BY <1>2, <1>3, <2>2 DEF Link, Places
  <2> QED
    BY <2>1, <2>2
<1> HIDE DEF after
<1>5. Steps(f0)
  <2>1. \A n \in Nat : Link(q, n + 1) = IF n = 0 THEN l.head ELSE after[f0[n - 1]]
    <3> TAKE n \in Nat
    <3>1. n # 0 => n - 1 \in Nat /\ f0[n - 1] = Link(q, n)
      OBVIOUS
    <3>2. CASE n = 0
      BY <1>1, <3>2
    <3>3. CASE n # 0
      BY <1>4, <3>1, <3>3
    <3> QED
      BY <3>2, <3>3
  <2> QED
    BY <2>1
<1>6. Steps(nth)
  BY <1>5
<1> HIDE DEF nth
<1>7. nth[0] = l.head /\ \A n \in Nat \ {0} : nth[n] = after[nth[n - 1]]
  BY <1>6
<1>8. \A n \in Nat : nth[n] = Link(q, n + 1)
  <2> DEFINE Bad == {n \in Nat : nth[n] # Link(q, n + 1)}
  <2> SUFFICES ASSUME Bad # {} PROVE FALSE
    OBVIOUS
  <2>1. PICK n \in Bad : \A m \in Bad : n <= m
    BY MinFact
  <2>2. n # 0
    BY <1>1, <1>7, <2>1
  <2>3. nth[n - 1] = Link(q, n)
    BY <2>1, <2>2
  <2> QED
    BY <1>4, <1>7, <2>1, <2>2, <2>3
<1>9. count = Len(q)
  <2>1. Cardinality(Items) \in Nat /\ Len(q) <= Cardinality(Items)
    BY <1>1, SizeBound
  <2>2. {n \in 0 .. Cardinality(Items) : nth[n] # Null} = 0 .. Len(q) - 1
    <3>1. \A n \in Nat : nth[n] # Null <=> n < Len(q)
      BY <1>2, <1>3, <1>8 DEF Link
    <3>2. {n \in 0 .. Cardinality(Items) : n < Len(q)} = 0 .. Len(q) - 1
      BY <1>2, <2>1
    <3> QED
      BY <2>1, <3>1, <3>2
  <2>3. Cardinality(0 .. Len(q) - 1) = Len(q)
    <3>1. PICK b \in Int : b = Len(q) - 1
      BY <1>2
    <3>2. Cardinality(0 .. b) = IF 0 > b THEN 0 ELSE b - 0 + 1
      BY FS_Interval
    <3> QED
      BY <1>2, <3>1, <3>2
  <2> QED
    BY <2>2, <2>3
<1>10. Walk(l) = [i \in 1 .. count |-> nth[i - 1]]
  BY DEF Walk, nth, after
<1> HIDE DEF count
<1> QED
  BY <1>2, <1>8, <1>9, <1>10 DEF Link

\* Where list_find() stops.
LEMMA PlaceIs ==
  ASSUME LinkedListAssumption, NEW l, NEW q, IsList(l, q), NEW T
  PROVE  \E i \in 1 .. Len(q) + 1 :
           /\ Place(l, T) = Before(q, i)
           /\ i = Len(q) + 1 \/ q[i] \in T
           /\ \A j \in 1 .. i - 1 : q[j] \notin T
<1>1. Walk(l) = q /\ q \in Seq(Items) /\ Distinct(q)
  BY WalkIs DEF IsList
<1>2. Len(q) \in Nat /\ \A i \in 1 .. Len(q) : q[i] \in Items
  BY <1>1, SeqFacts
<1> DEFINE Ends == {i \in 1 .. Len(q) + 1 : i = Len(q) + 1 \/ q[i] \in T}
           IsPlace(p) == \E i \in 1 .. Len(q) + 1 :
                            /\ p = Before(q, i)
                            /\ i = Len(q) + 1 \/ q[i] \in T
                            /\ \A j \in 1 .. i - 1 : q[j] \notin T
<1>3. \E p \in Places : IsPlace(p)
  <2>1. Len(q) + 1 \in Ends /\ Ends \subseteq Nat
    BY <1>2
  <2>2. PICK i \in Ends : \A j \in Ends : i <= j
    <3> HIDE DEF Ends
    <3> QED
      BY <2>1, MinFact
  <2>3. \A j \in 1 .. i - 1 : q[j] \notin T
    BY <1>2, <2>2
  <2>4. Before(q, i) \in Places
    BY <1>2, <2>2 DEF Before, Places
  <2> QED
    BY <2>2, <2>3, <2>4
<1>4. Place(l, T) = CHOOSE p \in Places : IsPlace(p)
  BY <1>1 DEF Place, Before
<1> HIDE DEF IsPlace
<1>5. IsPlace(Place(l, T))
  BY <1>3, <1>4
<1> QED
  BY <1>5 DEF IsPlace

LEMMA InsertAtItems ==
  ASSUME NEW q \in Seq(Items), NEW i \in 1 .. Len(q) + 1, NEW w \in Items
  PROVE  /\ InsertAt(q, i, w) \in Seq(Items) /\ Len(InsertAt(q, i, w)) = Len(q) + 1
         /\ \A j \in 1 .. Len(q) + 1 :
              InsertAt(q, i, w)[j] = IF j < i THEN q[j] ELSE IF j = i THEN w ELSE q[j - 1]
  BY InsertAtFacts

\* At the head, all others move by one.
LEMMA InsertAtHead ==
  ASSUME NEW q \in Seq(Items), NEW w \in Items
  PROVE  /\ Len(InsertAt(q, 1, w)) = Len(q) + 1 /\ InsertAt(q, 1, w)[1] = w
         /\ \A j \in 1 .. Len(q) : InsertAt(q, 1, w)[j + 1] = q[j]
<1>1. Len(q) \in Nat
  BY LenProperties
<1>2. PICK i \in 1 .. Len(q) + 1 : i = 1
  BY <1>1
<1> DEFINE r == InsertAt(q, i, w)
<1>3. Len(r) = Len(q) + 1 /\ \A j \in 1 .. Len(q) + 1 : r[j] = IF j < i THEN q[j] ELSE IF j = i THEN w ELSE q[j - 1]
  BY InsertAtItems
<1> HIDE DEF r
<1>4. r[1] = w
  BY <1>1, <1>2, <1>3
<1>5. ASSUME NEW j \in 1 .. Len(q) PROVE r[j + 1] = q[j]
  BY <1>1, <1>2, <1>3
<1> QED
  BY <1>2, <1>3, <1>4, <1>5 DEF r

\* _list_insert() at the i-th place.
LEMMA InsertedIs ==
  ASSUME LinkedListAssumption, NEW l, NEW q, IsList(l, q),
         NEW w \in Items \ ToSet(q), NEW i \in 1 .. Len(q) + 1
  PROVE  /\ IsList(Inserted(l, w)[Before(q, i)], InsertAt(q, i, w))
         /\ \A x \in Items \ (ToSet(q) \cup {w}) :
              Inserted(l, w)[Before(q, i)].next[x] = l.next[x]
<1> DEFINE r == InsertAt(q, i, w)
           p == Before(q, i)
           m == Inserted(l, w)[p]
<1>1. /\ q \in Seq(Items) /\ Distinct(q)
      /\ l = [head |-> l.head, next |-> l.next] /\ l.next \in [Items -> Places]
      /\ l.head = Link(q, 1) /\ \A j \in 1 .. Len(q) : l.next[q[j]] = Link(q, j + 1)
  BY DEF IsList
<1>2. /\ Len(q) \in Nat /\ \A j \in 1 .. Len(q) : q[j] \in Items
      /\ \A j, k \in 1 .. Len(q) : q[j] = q[k] => j = k
      /\ \A j \in 1 .. Len(q) : q[j] # w
  BY <1>1, SeqFacts
<1>3. Null \notin Items
  BY DEF LinkedListAssumption
<1>4. /\ r \in Seq(Items) /\ Len(r) = Len(q) + 1 /\ Distinct(r)
      /\ \A j \in 1 .. Len(q) + 1 : r[j] = IF j < i THEN q[j] ELSE IF j = i THEN w ELSE q[j - 1]
  <2>1. /\ InsertAt(q, i, w) \in Seq(Items) /\ Len(InsertAt(q, i, w)) = Len(q) + 1
        /\ \A j \in 1 .. Len(q) + 1 :
             InsertAt(q, i, w)[j] = IF j < i THEN q[j] ELSE IF j = i THEN w ELSE q[j - 1]
    <3>1. q \in Seq(Items) /\ i \in 1 .. Len(q) + 1 /\ w \in Items
      BY <1>1
    <3>2. InsertAt(q, i, w) \in Seq(Items) /\ Len(InsertAt(q, i, w)) = Len(q) + 1
      BY <3>1, InsertAtItems
    <3>3. ASSUME NEW j \in 1 .. Len(q) + 1
          PROVE  InsertAt(q, i, w)[j] = IF j < i THEN q[j] ELSE IF j = i THEN w ELSE q[j - 1]
      BY <3>1, InsertAtItems
    <3> QED
      BY <3>2, <3>3
  <2>2. Distinct(InsertAt(q, i, w))
    BY <1>1, InsertKeepsDistinct
  <2> QED
    BY <2>1, <2>2
<1>5. p \in Places /\ At(l, p) = Link(q, i) /\ Link(q, i) \in Places
  <2>1. CASE i = 1
    BY <1>1, <1>2, <2>1 DEF Before, At, Link, Places
  <2>2. CASE i # 1
    <3>1. i - 1 \in 1 .. Len(q) /\ i - 1 + 1 = i
      BY <1>2, <2>2
    <3> QED
      BY <1>1, <1>2, <1>3, <2>2, <3>1 DEF Before, At, Link, Places
  <2> QED
    BY <2>1, <2>2
<1>6. m = Store([l EXCEPT !.next[w] = Link(q, i)], p, w)
  BY <1>5 DEF Inserted
<1>7. /\ m = [head |-> m.head, next |-> m.next] /\ m.next \in [Items -> Places]
      /\ m.head = IF i = 1 THEN w ELSE l.head
      /\ \A x \in Items : m.next[x] = IF i # 1 /\ x = q[i - 1] THEN w
                                      ELSE IF x = w THEN Link(q, i) ELSE l.next[x]
  <2>1. CASE i = 1
    <3>1. m = [head |-> w, next |-> [l.next EXCEPT ![w] = Link(q, i)]]
      BY <1>1, <1>6, <2>1 DEF Store, Before
    <3> QED
      BY <1>1, <1>5, <2>1, <3>1 DEF Places
  <2>2. CASE i # 1
    <3>1. q[i - 1] \in Items /\ q[i - 1] # w
      BY <1>2, <2>2
    <3>2. m = [head |-> l.head, next |-> [[l.next EXCEPT ![w] = Link(q, i)] EXCEPT ![q[i - 1]] = w]]
      BY <1>1, <1>3, <1>6, <2>2, <3>1 DEF Store, Before
    <3> QED
      BY <1>1, <1>5, <2>2, <3>1, <3>2 DEF Places
  <2> QED
    BY <2>1, <2>2
<1> HIDE DEF m, r, p
<1>8. m.head = Link(r, 1)
  BY <1>1, <1>2, <1>4, <1>7 DEF Link
<1>9. ASSUME NEW j \in 1 .. Len(q) + 1 PROVE m.next[r[j]] = Link(r, j + 1)
  <2>1. CASE j = i
    <3>0. i # 1 => i - 1 \in 1 .. Len(q)
      BY <1>2
    <3>1. r[j] = w /\ m.next[w] = Link(q, i)
      BY <1>2, <1>4, <1>7, <2>1, <3>0
    <3>2. Link(r, j + 1) = Link(q, i)
      BY <1>2, <1>4, <2>1 DEF Link
    <3> QED
      BY <3>1, <3>2
  <2>2. CASE j = i - 1
    <3>1. i # 1 /\ r[j] = q[i - 1] /\ r[j] \in Items
      BY <1>2, <1>4, <2>2
    <3>2. m.next[r[j]] = w
      BY <1>7, <3>1
    <3>3. Link(r, j + 1) = w
      BY <1>2, <1>4, <2>2 DEF Link
    <3> QED
      BY <3>2, <3>3
  <2>3. CASE j < i - 1
    <3>1. r[j] = q[j] /\ j \in 1 .. Len(q) /\ i - 1 \in 1 .. Len(q) /\ q[j] # q[i - 1]
      BY <1>2, <1>4, <2>3
    <3>2. m.next[r[j]] = Link(q, j + 1)
      BY <1>1, <1>2, <1>7, <3>1
    <3>3. Link(r, j + 1) = Link(q, j + 1)
      BY <1>2, <1>4, <2>3 DEF Link
    <3> QED
      BY <3>2, <3>3
  <2>4. CASE j > i
    <3>1. r[j] = q[j - 1] /\ j - 1 \in 1 .. Len(q) /\ (i # 1 => i - 1 \in 1 .. Len(q) /\ q[j - 1] # q[i - 1])
      BY <1>2, <1>4, <2>4
    <3>2. m.next[r[j]] = Link(q, j)
      BY <1>1, <1>2, <1>7, <3>1
    <3>3. Link(r, j + 1) = Link(q, j)
      BY <1>2, <1>4, <2>4 DEF Link
    <3> QED
      BY <3>2, <3>3
  <2> QED
    BY <1>2, <2>1, <2>2, <2>3, <2>4
<1>10. IsList(m, r)
  BY <1>4, <1>7, <1>8, <1>9 DEF IsList
<1>11. \A x \in Items \ (ToSet(q) \cup {w}) : m.next[x] = l.next[x]
  <2>1. i # 1 => q[i - 1] \in ToSet(q)
    <3> SUFFICES ASSUME i # 1 PROVE q[i - 1] \in ToSet(q)
      OBVIOUS
    <3>1. PICK k \in 1 .. Len(q) : k = i - 1
      BY <1>2
    <3> QED
      BY <1>1, <3>1, AtIn
  <2> QED
    BY <1>7, <2>1
<1> QED
  BY <1>10, <1>11 DEF m, r, p

\* list_pop() at the i-th place, and at the end.
LEMMA PoppedIs ==
  ASSUME LinkedListAssumption, NEW l, NEW q, IsList(l, q), NEW i \in 1 .. Len(q) + 1
  PROVE  /\ i = Len(q) + 1 => Popped(l)[Before(q, i)] = l
         /\ i # Len(q) + 1 =>
              /\ IsList(Popped(l)[Before(q, i)], RemoveAt(q, i))
              /\ \A x \in Items \ ToSet(q) : Popped(l)[Before(q, i)].next[x] = l.next[x]
              /\ Popped(l)[Before(q, i)].next[q[i]] = Null
<1> DEFINE r == RemoveAt(q, i)
           p == Before(q, i)
           m == Popped(l)[p]
<1>1. /\ q \in Seq(Items) /\ Distinct(q)
      /\ l = [head |-> l.head, next |-> l.next] /\ l.next \in [Items -> Places]
      /\ l.head = Link(q, 1) /\ \A j \in 1 .. Len(q) : l.next[q[j]] = Link(q, j + 1)
  BY DEF IsList
<1>2. /\ Len(q) \in Nat /\ \A j \in 1 .. Len(q) : q[j] \in Items
      /\ \A j, k \in 1 .. Len(q) : q[j] = q[k] => j = k
  BY <1>1, SeqFacts
<1>3. Null \notin Items
  BY DEF LinkedListAssumption
<1>4. p \in Places /\ At(l, p) = Link(q, i)
  <2>1. CASE i = 1
    BY <1>1, <1>2, <2>1 DEF Before, At, Link, Places
  <2>2. CASE i # 1
    <3>1. i - 1 \in 1 .. Len(q) /\ i - 1 + 1 = i
      BY <1>2, <2>2
    <3> QED
      BY <1>1, <1>2, <1>3, <2>2, <3>1 DEF Before, At, Link, Places
  <2> QED
    BY <2>1, <2>2
<1>5. i = Len(q) + 1 => m = l
  BY <1>2, <1>4 DEF Popped, Link
<1>6. SUFFICES ASSUME i # Len(q) + 1
      PROVE  IsList(m, r) /\ (\A x \in Items \ ToSet(q) : m.next[x] = l.next[x]) /\ m.next[q[i]] = Null
  BY <1>5
<1>7. i \in 1 .. Len(q) /\ q[i] \in Items /\ Link(q, i + 1) \in Places
  BY <1>2, <1>6 DEF Link, Places
<1>8. m = [Store(l, p, Link(q, i + 1)) EXCEPT !.next[q[i]] = Null]
  <2>1. At(l, p) = q[i] /\ q[i] # Null
    BY <1>3, <1>4, <1>7 DEF Link
  <2>2. l.next[q[i]] = Link(q, i + 1)
    BY <1>1, <1>7
  <2> QED
    BY <1>4, <2>1, <2>2 DEF Popped
<1>9. /\ m = [head |-> m.head, next |-> m.next] /\ m.next \in [Items -> Places]
      /\ m.head = IF i = 1 THEN Link(q, 2) ELSE l.head
      /\ \A x \in Items : m.next[x] = IF x = q[i] THEN Null
                                      ELSE IF i # 1 /\ x = q[i - 1] THEN Link(q, i + 1) ELSE l.next[x]
  <2>0. PICK h, n : h = l.head /\ n = l.next /\ l = [head |-> h, next |-> n] /\ n \in [Items -> Places]
    BY <1>1
  <2>1. CASE i = 1
    <3>1. Store(l, p, Link(q, i + 1)) = [head |-> Link(q, 2), next |-> n]
      BY <2>0, <2>1, StoreFacts, <1>7 DEF Store, Before
    <3>2. m = [head |-> Link(q, 2), next |-> [n EXCEPT ![q[i]] = Null]]
      BY <1>7, <1>8, <2>0, <3>1, StoreFacts
    <3> QED
      BY <2>0, <1>7, <2>1, <3>2 DEF Places
  <2>2. CASE i # 1
    <3>1. PICK y \in Items : y = q[i - 1]
      BY <1>2, <2>2
    <3>2. Store(l, p, Link(q, i + 1)) = [head |-> h, next |-> [n EXCEPT ![y] = Link(q, i + 1)]]
      BY <1>3, <2>0, <2>2, <3>1, StoreFacts, <1>7 DEF Store, Before
    <3>3. PICK n2 : n2 = [n EXCEPT ![y] = Link(q, i + 1)]
      OBVIOUS
    <3>4. n2 \in [Items -> Places]
      BY <1>7, <2>0, <3>1, <3>3
    <3>5. m = [head |-> h, next |-> [n2 EXCEPT ![q[i]] = Null]]
      BY <1>7, <1>8, <3>2, <3>3, <3>4, StoreFacts
    <3>6. \A x \in Items : m.next[x] = IF x = q[i] THEN Null ELSE IF x = y THEN Link(q, i + 1) ELSE n[x]
      BY <1>7, <2>0, <3>1, <3>3, <3>4, <3>5
    <3>7. m.head = h /\ m = [head |-> m.head, next |-> m.next] /\ m.next \in [Items -> Places]
      BY <1>7, <3>4, <3>5 DEF Places
    <3> QED
      BY <2>0, <2>2, <3>1, <3>6, <3>7
  <2> QED
    BY <2>1, <2>2
<1>10. /\ r \in Seq(Items) /\ Len(r) = Len(q) - 1
       /\ \A j \in 1 .. Len(q) - 1 : r[j] = IF j < i THEN q[j] ELSE q[j + 1]
  BY <1>1, <1>7, RemoveAtFacts
<1> HIDE DEF m, r, p
<1>11. Distinct(r)
  <2>1. DOMAIN r = 1 .. Len(q) - 1 /\ Len(q) \in Nat /\ i \in Int
    BY <1>2, <1>10, LenProperties
  <2>2. \A a, b \in 1 .. Len(q) : q[a] = q[b] => a = b
    BY <1>2
  <2>3. ASSUME NEW a \in 1 .. Len(q) - 1, NEW b \in 1 .. Len(q) - 1, r[a] = r[b] PROVE a = b
    <3>1. /\ r[a] = (IF a < i THEN q[a] ELSE q[a + 1])
          /\ r[b] = (IF b < i THEN q[b] ELSE q[b + 1])
      BY <1>10
    <3>2. /\ a \in 1 .. Len(q) /\ a + 1 \in 1 .. Len(q)
          /\ b \in 1 .. Len(q) /\ b + 1 \in 1 .. Len(q)
      BY <2>1
    <3>3. CASE a < i /\ b < i
      BY <2>2, <2>3, <3>1, <3>2, <3>3
    <3>4. CASE a < i /\ ~(b < i)
      <4>1. a = b + 1
        BY <2>2, <2>3, <3>1, <3>2, <3>4
      <4> QED
        BY <2>1, <3>4, <4>1
    <3>5. CASE ~(a < i) /\ b < i
      <4>1. a + 1 = b
        BY <2>2, <2>3, <3>1, <3>2, <3>5
      <4> QED
        BY <2>1, <3>5, <4>1
    <3>6. CASE ~(a < i) /\ ~(b < i)
      <4>1. a + 1 = b + 1
        BY <2>2, <2>3, <3>1, <3>2, <3>6
      <4> QED
        BY <2>1, <4>1
    <3> QED
      BY <3>3, <3>4, <3>5, <3>6
  <2> QED
    BY <2>1, <2>3 DEF Distinct
<1>12. m.head = Link(r, 1)
  <2>1. CASE i = 1
    <3>1. Link(r, 1) = Link(q, 2)
      BY <1>2, <1>7, <1>10, <2>1 DEF Link
    <3> QED
      BY <1>9, <2>1, <3>1
  <2>2. CASE i # 1
    <3>1. Link(r, 1) = Link(q, 1)
      BY <1>2, <1>7, <1>10, <2>2 DEF Link
    <3> QED
      BY <1>1, <1>9, <2>2, <3>1
  <2> QED
    BY <2>1, <2>2
<1>13. ASSUME NEW j \in 1 .. Len(q) - 1 PROVE m.next[r[j]] = Link(r, j + 1)
  <2>1. CASE j < i - 1
    <3>1. r[j] = q[j] /\ j \in 1 .. Len(q) /\ i - 1 \in 1 .. Len(q)
      BY <1>2, <1>7, <1>10, <2>1
    <3>2. q[j] \in Items /\ q[j] # q[i] /\ q[j] # q[i - 1]
      BY <1>2, <1>7, <2>1, <3>1
    <3>4. m.next[q[j]] = l.next[q[j]]
      BY <1>9, <3>2
    <3>5. m.next[r[j]] = Link(q, j + 1)
      BY <1>1, <3>1, <3>4
    <3>3. Link(r, j + 1) = Link(q, j + 1)
      <4>1. j + 1 \in 1 .. Len(q) - 1 /\ j + 1 < i
        BY <1>2, <1>7, <2>1, <3>1
      <4>2. r[j + 1] = q[j + 1]
        BY <1>10, <4>1
      <4> QED
        BY <1>2, <1>10, <4>1, <4>2 DEF Link
    <3> QED
      BY <3>5, <3>3
  <2>2. CASE j = i - 1
    <3>1. r[j] = q[i - 1] /\ i # 1 /\ q[i - 1] # q[i] /\ r[j] \in Items
      BY <1>2, <1>7, <1>10, <2>2
    <3>2. m.next[r[j]] = Link(q, i + 1)
      BY <1>9, <3>1
    <3>3. Link(r, j + 1) = Link(q, i + 1)
      BY <1>2, <1>7, <1>10, <2>2 DEF Link
    <3> QED
      BY <3>2, <3>3
  <2>3. CASE j >= i
    <3>1. r[j] = q[j + 1] /\ j + 1 \in 1 .. Len(q) /\ q[j + 1] # q[i] /\ (i # 1 => q[j + 1] # q[i - 1])
      BY <1>2, <1>7, <1>10, <2>3
    <3>2. m.next[r[j]] = Link(q, j + 2)
      <4>1. q[j + 1] \in Items /\ l.next[q[j + 1]] = Link(q, j + 2)
        BY <1>1, <1>2, <3>1
      <4> QED
        BY <1>9, <3>1, <4>1
    <3>3. Link(r, j + 1) = Link(q, j + 2)
      <4>1. j + 1 \in 1 .. Len(q) - 1 => r[j + 1] = q[j + 2]
        BY <1>2, <1>7, <1>10, <2>3
      <4> QED
        BY <1>2, <1>10, <4>1 DEF Link
    <3> QED
      BY <3>2, <3>3
  <2> QED
    BY <1>2, <1>7, <2>1, <2>2, <2>3
<1>14. IsList(m, r)
  BY <1>9, <1>10, <1>11, <1>12, <1>13 DEF IsList
<1>15. \A x \in Items \ ToSet(q) : m.next[x] = l.next[x]
  <2>1. q[i] \in ToSet(q)
    BY <1>1, <1>7, AtIn
  <2>2. i # 1 => q[i - 1] \in ToSet(q)
    <3> SUFFICES ASSUME i # 1 PROVE q[i - 1] \in ToSet(q)
      OBVIOUS
    <3>1. PICK k \in 1 .. Len(q) : k = i - 1
      BY <1>2
    <3> QED
      BY <1>1, <3>1, AtIn
  <2> QED
    BY <1>9, <2>1, <2>2
<1> QED
  BY <1>7, <1>9, <1>14, <1>15

-----------------------------------------------------------------------------
(* The functions of the list, on the sequence of its items.                *)

\* Links of items that are not concerned stay as they are: they may be those of
\* another list.
KeepsOthers(l, m, C) == \A x \in Items \ C : m.next[x] = l.next[x]

LEMMA InsertedSet ==
  ASSUME LinkedListAssumption, NEW l, NEW q, IsList(l, q),
         NEW w \in Items \ ToSet(q), NEW i \in 1 .. Len(q) + 1
  PROVE  /\ IsList(Inserted(l, w)[Before(q, i)], InsertAt(q, i, w))
         /\ ToSet(InsertAt(q, i, w)) = ToSet(q) \cup {w}
         /\ KeepsOthers(l, Inserted(l, w)[Before(q, i)], ToSet(q) \cup {w})
<1>1. q \in Seq(Items) /\ Distinct(q) /\ w \in Items
  BY DEF IsList
<1>2. ToSet(InsertAt(q, i, w)) = ToSet(q) \cup {w}
  BY <1>1, InsertKeepsDistinct
<1> QED
  BY <1>2, InsertedIs DEF KeepsOthers

LEMMA PushIs ==
  ASSUME LinkedListAssumption, NEW l, NEW q, IsList(l, q), NEW w \in Items \ ToSet(q)
  PROVE  /\ IsList(ListPush(l, w), InsertAt(q, 1, w))
         /\ ToSet(InsertAt(q, 1, w)) = ToSet(q) \cup {w}
         /\ KeepsOthers(l, ListPush(l, w), ToSet(q) \cup {w})
<1>1. PICK i \in 1 .. Len(q) + 1 : i = 1
  BY SeqFacts DEF IsList
<1>2. Before(q, i) = Null
  BY <1>1 DEF Before
<1> QED
  BY <1>1, <1>2, InsertedSet DEF ListPush

LEMMA AddSortedIs ==
  ASSUME LinkedListAssumption, NEW l, NEW q, IsList(l, q), NEW w \in Items \ ToSet(q), NEW T
  PROVE  \E i \in 1 .. Len(q) + 1 :
           /\ IsList(AddSorted(l, w, T), InsertAt(q, i, w))
           /\ ToSet(InsertAt(q, i, w)) = ToSet(q) \cup {w}
           /\ i = Len(q) + 1 \/ q[i] \in T
           /\ \A j \in 1 .. i - 1 : q[j] \notin T
<1>1. PICK i \in 1 .. Len(q) + 1 :
        /\ Place(l, T) = Before(q, i)
        /\ i = Len(q) + 1 \/ q[i] \in T
        /\ \A j \in 1 .. i - 1 : q[j] \notin T
  BY PlaceIs
<1>2. /\ IsList(Inserted(l, w)[Before(q, i)], InsertAt(q, i, w))
      /\ ToSet(InsertAt(q, i, w)) = ToSet(q) \cup {w}
  BY InsertedSet
<1> QED
  BY <1>1, <1>2 DEF AddSorted

\* What is left when the i-th item is taken away.
LEMMA RemovedSet ==
  ASSUME NEW q \in Seq(Items), Distinct(q), NEW i \in 1 .. Len(q)
  PROVE  ToSet(RemoveAt(q, i)) = ToSet(q) \ {q[i]}
<1> DEFINE r == RemoveAt(q, i)
<1>1. /\ r \in Seq(Items) /\ Len(r) = Len(q) - 1
      /\ \A j \in 1 .. Len(q) - 1 : r[j] = IF j < i THEN q[j] ELSE q[j + 1]
  BY RemoveAtFacts
<1>2. /\ Len(q) \in Nat /\ DOMAIN q = 1 .. Len(q) /\ DOMAIN r = 1 .. Len(q) - 1
      /\ \A j, k \in 1 .. Len(q) : q[j] = q[k] => j = k
  BY <1>1, SeqFacts, LenProperties
<1> HIDE DEF r
<1>3. ASSUME NEW x \in ToSet(r) PROVE x \in ToSet(q) /\ x # q[i]
  <2>1. PICK j \in 1 .. Len(q) - 1 : x = r[j]
    BY <1>2, <1>3 DEF ToSet
  <2>2. PICK k \in 1 .. Len(q) : k # i /\ x = q[k]
    <3>1. CASE j < i
      BY <1>1, <1>2, <2>1, <3>1
    <3>2. CASE ~(j < i)
      <4>1. PICK k \in 1 .. Len(q) : k = j + 1
        BY <1>2
      <4> QED
        BY <1>1, <1>2, <2>1, <3>2, <4>1
    <3> QED
      BY <3>1, <3>2
  <2> QED
    BY <1>2, <2>2, AtIn
<1>4. ASSUME NEW x \in ToSet(q), x # q[i] PROVE x \in ToSet(r)
  <2>1. PICK k \in 1 .. Len(q) : x = q[k] /\ k # i
    BY <1>2, <1>4 DEF ToSet
  <2>2. PICK j \in 1 .. Len(q) - 1 : x = r[j]
    <3>1. CASE k < i
      <4>1. k \in 1 .. Len(q) - 1
        BY <1>2, <3>1
      <4> QED
        BY <1>1, <2>1, <3>1, <4>1
    <3>2. CASE ~(k < i)
      <4>1. PICK j \in 1 .. Len(q) - 1 : k = j + 1
        BY <1>2, <2>1, <3>2
      <4> QED
        BY <1>1, <2>1, <3>2, <4>1
    <3> QED
      BY <3>1, <3>2
  <2> QED
    BY <1>2, <2>2 DEF ToSet
<1> QED
  BY <1>3, <1>4 DEF r

LEMMA PoppedSet ==
  ASSUME LinkedListAssumption, NEW l, NEW q, IsList(l, q), NEW i \in 1 .. Len(q)
  PROVE  LET m == Popped(l)[Before(q, i)] IN
         /\ IsList(m, RemoveAt(q, i)) /\ ToSet(RemoveAt(q, i)) = ToSet(q) \ {q[i]}
         /\ KeepsOthers(l, m, ToSet(q)) /\ m.next[q[i]] = Null
<1>1. q \in Seq(Items) /\ Distinct(q) /\ Len(q) \in Nat
  BY LenProperties DEF IsList
<1>2. PICK k \in 1 .. Len(q) + 1 : k = i /\ k # Len(q) + 1
  BY <1>1
<1>3. ToSet(RemoveAt(q, i)) = ToSet(q) \ {q[i]}
  BY <1>1, RemovedSet
<1> QED
  BY <1>2, <1>3, PoppedIs DEF KeepsOthers

LEMMA PopIs ==
  ASSUME LinkedListAssumption, NEW l, NEW q, IsList(l, q)
  PROVE  /\ l.head = Null <=> q = <<>>
         /\ q # <<>> =>
              /\ 1 \in 1 .. Len(q) /\ l.head = q[1] /\ l.head \in ToSet(q) /\ l.head \in Items
              /\ IsList(ListPop(l), RemoveAt(q, 1)) /\ ToSet(RemoveAt(q, 1)) = ToSet(q) \ {q[1]}
              /\ KeepsOthers(l, ListPop(l), ToSet(q)) /\ ListPop(l).next[q[1]] = Null
<1>1. /\ q \in Seq(Items) /\ Distinct(q) /\ Len(q) \in Nat /\ l.head = Link(q, 1)
      /\ q = <<>> <=> Len(q) = 0
      /\ \A i \in 1 .. Len(q) : q[i] \in Items
  BY SeqFacts DEF IsList
<1>2. l.head = Null <=> q = <<>>
  BY <1>1 DEF Link, LinkedListAssumption
<1>3. ASSUME q # <<>>
      PROVE  /\ 1 \in 1 .. Len(q) /\ l.head = q[1] /\ l.head \in ToSet(q) /\ l.head \in Items
             /\ IsList(ListPop(l), RemoveAt(q, 1)) /\ ToSet(RemoveAt(q, 1)) = ToSet(q) \ {q[1]}
             /\ KeepsOthers(l, ListPop(l), ToSet(q)) /\ ListPop(l).next[q[1]] = Null
  <2>1. PICK i \in 1 .. Len(q) : i = 1
    BY <1>1, <1>3
  <2>2. ListPop(l) = Popped(l)[Before(q, i)]
    BY <2>1 DEF ListPop, Before
  <2>3. l.head = q[1] /\ q[1] \in ToSet(q) /\ q[1] \in Items
    BY <1>1, <2>1, AtIn DEF Link
  <2> QED
    BY <2>1, <2>2, <2>3, PoppedSet
<1> QED
  BY <1>2, <1>3

\* list_find(): the first item of a kind, if there is one.
LEMMA FoundIs ==
  ASSUME LinkedListAssumption, NEW l, NEW q, IsList(l, q), NEW T
  PROVE  \E i \in 1 .. Len(q) + 1 :
           /\ Find(l, T) = Link(q, i)
           /\ i = Len(q) + 1 \/ q[i] \in T
           /\ \A j \in 1 .. i - 1 : q[j] \notin T
<1>1. /\ q \in Seq(Items) /\ Distinct(q) /\ Len(q) \in Nat
      /\ l.head = Link(q, 1) /\ \A j \in 1 .. Len(q) : l.next[q[j]] = Link(q, j + 1)
      /\ \A i \in 1 .. Len(q) : q[i] \in Items
      /\ ToSet(q) = {q[i] : i \in 1 .. Len(q)}
  BY SeqFacts DEF IsList
<1>2. PICK i \in 1 .. Len(q) + 1 :
        /\ Place(l, T) = Before(q, i)
        /\ i = Len(q) + 1 \/ q[i] \in T
        /\ \A j \in 1 .. i - 1 : q[j] \notin T
  BY PlaceIs
<1>3. Before(q, i) \in Places /\ At(l, Before(q, i)) = Link(q, i)
  <2>1. CASE i = 1
    BY <1>1, <2>1 DEF Before, At, Places
  <2>2. CASE i # 1
    <3>1. PICK k \in 1 .. Len(q) : k = i - 1 /\ k + 1 = i
      BY <1>1, <2>2
    <3> QED
      BY <1>1, <2>2, <3>1 DEF Before, At, Places, LinkedListAssumption
  <2> QED
    BY <2>1, <2>2
<1>4. Find(l, T) = Link(q, i)
  BY <1>2, <1>3 DEF Find
<1> QED
  BY <1>2, <1>4

LEMMA FindIs ==
  ASSUME LinkedListAssumption, NEW l, NEW q, IsList(l, q), NEW T
  PROVE  \/ Find(l, T) = Null /\ ToSet(q) \cap T = {}
         \/ Find(l, T) \in ToSet(q) \cap T
<1>1. /\ q \in Seq(Items) /\ Len(q) \in Nat /\ ToSet(q) = {q[i] : i \in 1 .. Len(q)}
  BY SeqFacts DEF IsList
<1>2. PICK i \in 1 .. Len(q) + 1 :
        /\ Find(l, T) = Link(q, i)
        /\ i = Len(q) + 1 \/ q[i] \in T
        /\ \A j \in 1 .. i - 1 : q[j] \notin T
  BY FoundIs
<1>3. CASE i = Len(q) + 1
  BY <1>1, <1>2, <1>3 DEF Link
<1>4. CASE i # Len(q) + 1
  BY <1>1, <1>2, <1>4 DEF Link
<1> QED
  BY <1>3, <1>4

LEMMA HasIs ==
  ASSUME LinkedListAssumption, NEW l, NEW q, IsList(l, q), NEW w \in Items
  PROVE  Has(l, w) <=> w \in ToSet(q)
<1>1. Null \notin ToSet(q)
  <2>1. \A i \in DOMAIN q : q[i] \in Items
    BY SeqFacts DEF IsList
  <2> QED
    BY <2>1 DEF ToSet, LinkedListAssumption
<1> QED
  BY <1>1, FindIs DEF Has

LEMMA RemoveIs ==
  ASSUME LinkedListAssumption, NEW l, NEW q, IsList(l, q), NEW w \in Items
  PROVE  /\ w \notin ToSet(q) => ListRemove(l, w) = l
         /\ w \in ToSet(q) =>
              /\ \E i \in 1 .. Len(q) : q[i] = w /\ IsList(ListRemove(l, w), RemoveAt(q, i))
                                        /\ ToSet(RemoveAt(q, i)) = ToSet(q) \ {w}
              /\ KeepsOthers(l, ListRemove(l, w), ToSet(q)) /\ ListRemove(l, w).next[w] = Null
<1>1. /\ q \in Seq(Items) /\ Distinct(q) /\ Len(q) \in Nat
      /\ ToSet(q) = {q[i] : i \in 1 .. Len(q)}
  BY SeqFacts DEF IsList
<1>2. PICK i \in 1 .. Len(q) + 1 :
        /\ Place(l, {w}) = Before(q, i)
        /\ i = Len(q) + 1 \/ q[i] = w
        /\ \A j \in 1 .. i - 1 : q[j] # w
  BY PlaceIs
<1>3. ListRemove(l, w) = Popped(l)[Before(q, i)]
  BY <1>2 DEF ListRemove, ListRemoveFirst
<1>4. CASE i = Len(q) + 1
  <2>1. w \notin ToSet(q)
    BY <1>1, <1>2, <1>4
  <2> QED
    BY <1>3, <1>4, <2>1, PoppedIs
<1>5. CASE i # Len(q) + 1
  <2>1. i \in 1 .. Len(q) /\ q[i] = w /\ w \in ToSet(q)
    BY <1>1, <1>2, <1>5
  <2> QED
    BY <1>3, <2>1, PoppedSet
<1> QED
  BY <1>4, <1>5

LEMMA EmptyIs ==
  ASSUME LinkedListAssumption
  PROVE  IsList(Empty, <<>>) /\ ToSet(<<>>) = {}
<1>1. <<>> \in Seq(Items) /\ Len(<<>>) = 0 /\ DOMAIN <<>> = {}
  OBVIOUS
<1> QED
  BY <1>1 DEF IsList, Empty, Places, Link, Distinct, ToSet

-----------------------------------------------------------------------------
(* The queue of events.  An event that is in the list, or about to be      *)
(* added, carries the time it is meant for; and as no time is more than    *)
(* half of the counter away from another, the comparison is that of times. *)

Timed(e) == due[e] \in 0 .. LastTime + 1 /\ when[e] = Tick(due[e])

EvTypes ==
  /\ when \in [Events -> Int] /\ due \in [Events -> Int]
  /\ now \in 0 .. LastTime
  /\ doing \in [Threads -> {"idle", "add"} \X Places]
  /\ loop \in [at : {"out", "pop", "run", "again"}, t : Int, ev : Places]
  /\ added \subseteq Events

\* Whoever is about to add an event does it alone.
AddersInv ==
  \A t \in Threads : doing[t][1] = "add" =>
    \E e \in Events :
      /\ doing[t] = <<"add", e>> /\ Owner[e] = t /\ e \notin added /\ Timed(e)
      /\ e \in Periodic => loop.ev # e

\* Where the loop is.
LoopInv ==
  /\ loop.at \in {"out", "pop"} => loop.ev = Nobody
  /\ loop.at \in {"run", "again"} => loop.ev \in Events
  /\ loop.at = "again" => loop.ev \in Periodic
  /\ loop.at = "pop" => \E c \in 0 .. now : loop.t = Tick(c)
  /\ loop.at \in {"run", "again"} => \E c \in 0 .. now : loop.t = Tick(c)
  /\ \A e \in Periodic : loop.ev = e =>
       /\ e \notin added /\ Timed(e)
       /\ loop.at = "run" => due[e] <= LastTime

InOrder(q) ==
  /\ IsList(events, q) /\ ToSet(q) = added
  /\ \A i, j \in 1 .. Len(q) : i < j => due[q[i]] <= due[q[j]]

EvInv ==
  /\ EvTypes /\ AddersInv /\ LoopInv
  /\ \A e \in added : Timed(e)
  /\ \E q : InOrder(q)

LEMMA TickCompares ==
  ASSUME EvQueueAssumption
  PROVE  /\ \A a \in 0 .. LastTime + 1 : Tick(a) \in 0 .. Modulus - 1
         /\ \A a, b \in 0 .. LastTime + 1 : cmp_t(Tick(a), Tick(b)) = b - a
         /\ \A a \in 0 .. LastTime : (Tick(a) + 1) % Modulus = Tick(a + 1)
<1>1. /\ Modulus \in Nat \ {0} /\ LastTime \in Nat /\ 2 * (LastTime + 1) < Modulus
      /\ FirstNow \in 0 .. Modulus - 1
  BY DEF EvQueueAssumption
<1>2. \A a \in 0 .. LastTime + 1 : Tick(a) \in 0 .. Modulus - 1
  <2> TAKE a \in 0 .. LastTime + 1
  <2>1. PICK s \in Int : s = FirstNow + a
    BY <1>1
  <2> QED
    BY <1>1, <2>1, WrapFacts DEF Tick
<1>3. ASSUME NEW a \in 0 .. LastTime + 1, NEW b \in 0 .. LastTime + 1
      PROVE  cmp_t(Tick(a), Tick(b)) = b - a
  <2>1. PICK x \in Int, y \in Int : x = FirstNow + b /\ y = FirstNow + a
    BY <1>1
  <2>2. (Tick(b) - Tick(a)) % Modulus = (x - y) % Modulus
    BY <1>1, <2>1, ReduceFirst DEF Tick
  <2>3. PICK d \in Int : d = b - a /\ x - y = d /\ d \in -(LastTime + 1) .. LastTime + 1
    BY <1>1, <2>1
  <2>4. cmp_t(Tick(a), Tick(b)) =
          IF 2 * (d % Modulus) < Modulus THEN d % Modulus ELSE (d % Modulus) - Modulus
    BY <2>2, <2>3 DEF cmp_t
  <2>5. CASE d >= 0
    <3>1. d \in 0 .. Modulus - 1 /\ 2 * d < Modulus
      BY <1>1, <2>3, <2>5
    <3>2. d % Modulus = d
      BY <1>1, <3>1, WrapFacts
    <3> QED
      BY <2>3, <2>4, <3>1, <3>2
  <2>6. CASE ~(d >= 0)
    <3>1. d \in -Modulus .. -1 /\ ~(2 * (d + Modulus) < Modulus)
      BY <1>1, <2>3, <2>6
    <3>2. d % Modulus = d + Modulus
      BY <1>1, <3>1, WrapFacts
    <3> QED
      BY <1>1, <2>3, <2>4, <3>1, <3>2
  <2> QED
    BY <2>5, <2>6
<1>4. ASSUME NEW a \in 0 .. LastTime PROVE (Tick(a) + 1) % Modulus = Tick(a + 1)
  <2>1. PICK x \in Int, y \in Int : x = FirstNow + a /\ y = 1 /\ x + y = FirstNow + (a + 1)
    BY <1>1
  <2>2. ((x % Modulus) + y) % Modulus = (x + y) % Modulus
    BY <1>1, ReduceFirst
  <2>3. Tick(a) = x % Modulus /\ Tick(a + 1) = (x + y) % Modulus
    BY <2>1 DEF Tick
  <2> QED
    BY <2>1, <2>2, <2>3
<1> QED
  BY <1>2, <1>3, <1>4

LEMMA EvStart == ASSUME EvQueueAssumption PROVE EvInit => EvInv
<1> SUFFICES ASSUME EvInit PROVE EvInv
  OBVIOUS
<1>1. EvTypes
  BY DEF EvInit, EvTypes, EvQueueAssumption, Places, Nobody
<1>2. AddersInv /\ LoopInv
  <2>1. \A t \in Threads : doing[t][1] # "add"
    BY DEF EvInit
  <2>2. Nobody \notin Periodic
    BY DEF Nobody, EvQueueAssumption, LinkedListAssumption
  <2> QED
    BY <2>1, <2>2 DEF EvInit, AddersInv, LoopInv
<1>3. InOrder(<<>>)
  <2>1. 1 .. Len(<<>>) = {}
    OBVIOUS
  <2>2. IsList(events, <<>>) /\ ToSet(<<>>) = added
    BY EmptyIs DEF EvInit, EvQueueAssumption
  <2> QED
    BY <2>1, <2>2 DEF InOrder
<1> QED
  BY <1>1, <1>2, <1>3 DEF EvInv, EvInit

\* The list stays in order when it stays, or loses an event, or gets one.
LEMMA OrderFacts ==
  ASSUME NEW q, InOrder(q)
  PROVE  /\ IsList(events, q) /\ ToSet(q) = added /\ q \in Seq(Items) /\ Distinct(q)
         /\ \A i, j \in 1 .. Len(q) : i < j => due[q[i]] <= due[q[j]]
         /\ Len(q) \in Nat /\ \A i \in 1 .. Len(q) : q[i] \in Items /\ q[i] \in ToSet(q)
         /\ \A i, j \in 1 .. Len(q) : q[i] = q[j] => i = j
<1>1. IsList(events, q) /\ ToSet(q) = added /\ q \in Seq(Items) /\ Distinct(q)
      /\ \A i, j \in 1 .. Len(q) : i < j => due[q[i]] <= due[q[j]]
  BY DEF InOrder, IsList
<1> QED
  BY <1>1, SeqFacts, AtIn

LEMMA OrderKept ==
  ASSUME NEW q, InOrder(q), UNCHANGED <<events, added>>, \A x \in added : due'[x] = due[x]
  PROVE  InOrder(q)'
<1>1. \A i \in 1 .. Len(q) : due'[q[i]] = due[q[i]]
  BY OrderFacts
<1> QED
  BY <1>1 DEF InOrder

LEMMA OrderTaken ==
  ASSUME NEW q, InOrder(q), NEW k \in 1 .. Len(q),
         IsList(events', RemoveAt(q, k)), ToSet(RemoveAt(q, k)) = added',
         \A x \in Events \ {q[k]} : due'[x] = due[x]
  PROVE  \E r : InOrder(r)'
<1>1. /\ q \in Seq(Items) /\ Distinct(q)
      /\ \A i, j \in 1 .. Len(q) : i < j => due[q[i]] <= due[q[j]]
      /\ Len(q) \in Nat /\ \A i \in 1 .. Len(q) : q[i] \in Items
      /\ \A i, j \in 1 .. Len(q) : q[i] = q[j] => i = j
  BY OrderFacts
<1> DEFINE r == RemoveAt(q, k)
<1>2. /\ r \in Seq(Items) /\ Len(r) = Len(q) - 1
      /\ \A j \in 1 .. Len(q) - 1 : r[j] = IF j < k THEN q[j] ELSE q[j + 1]
  BY <1>1, RemoveAtFacts
<1>5. IsList(events', r) /\ ToSet(r) = added'
  OBVIOUS
<1> HIDE DEF r
<1>3. \A j \in 1 .. Len(r) :
        \E m \in 1 .. Len(q) : m # k /\ m = (IF j < k THEN j ELSE j + 1) /\ r[j] = q[m]
  <2> TAKE j \in 1 .. Len(r)
  <2>1. PICK m \in 1 .. Len(q) : m = (IF j < k THEN j ELSE j + 1)
    BY <1>1, <1>2
  <2> QED
    BY <1>1, <1>2, <2>1
<1>4. ASSUME NEW i \in 1 .. Len(r), NEW j \in 1 .. Len(r), i < j
      PROVE  due'[r[i]] <= due'[r[j]]
  <2>1. PICK m \in 1 .. Len(q) : m # k /\ m = (IF i < k THEN i ELSE i + 1) /\ r[i] = q[m]
    BY <1>3
  <2>2. PICK n \in 1 .. Len(q) : n # k /\ n = (IF j < k THEN j ELSE j + 1) /\ r[j] = q[n]
    BY <1>3
  <2>3. m < n
    BY <1>1, <1>2, <1>4, <2>1, <2>2
  <2>4. due'[q[m]] = due[q[m]] /\ due'[q[n]] = due[q[n]]
    BY <1>1, <2>1, <2>2 DEF Events
  <2> QED
    BY <1>1, <2>1, <2>2, <2>3, <2>4
<1> QED
  BY <1>4, <1>5 DEF InOrder

LEMMA OrderRemoved ==
  ASSUME EvQueueAssumption, NEW q, InOrder(q), NEW e \in Events,
         events' = ListRemove(events, e), added' = added \ {e},
         \A x \in Events \ {e} : due'[x] = due[x]
  PROVE  \E r : InOrder(r)'
<1>1. LinkedListAssumption /\ e \in Items /\ IsList(events, q) /\ ToSet(q) = added
  BY OrderFacts DEF EvQueueAssumption, Events
<1>2. CASE e \notin added
  <2>1. events' = events /\ added' = added
    BY <1>1, <1>2, RemoveIs
  <2>2. \A x \in added : due'[x] = due[x]
    <3>1. added \subseteq Items
      BY <1>1, OrderFacts DEF ToSet
    <3> QED
      BY <1>2, <3>1 DEF Events
  <2> QED
    BY <2>1, <2>2, OrderKept
<1>3. CASE e \in added
  <2>1. \E k \in 1 .. Len(q) : q[k] = e /\ IsList(ListRemove(events, e), RemoveAt(q, k))
                               /\ ToSet(RemoveAt(q, k)) = ToSet(q) \ {e}
    BY <1>1, <1>3, RemoveIs
  <2>2. PICK k \in 1 .. Len(q) : q[k] = e /\ IsList(events', RemoveAt(q, k))
                                 /\ ToSet(RemoveAt(q, k)) = added'
    BY <1>1, <2>1
  <2> QED
    BY <2>2, OrderTaken
<1> QED
  BY <1>2, <1>3

LEMMA OrderAdded ==
  ASSUME EvTypes, EvQueueAssumption, NEW q, InOrder(q), NEW e \in Events, e \notin added,
         Timed(e), \A x \in added : Timed(x), UNCHANGED <<due, when>>,
         events' = Sorted(events, e), added' = added \cup {e}
  PROVE  \E r : InOrder(r)'
<1> DEFINE T == {x \in Items : cmp_t(when[e], when[x]) >= 0}
<1>1. /\ IsList(events, q) /\ ToSet(q) = added /\ q \in Seq(Items) /\ Distinct(q)
      /\ \A i, j \in 1 .. Len(q) : i < j => due[q[i]] <= due[q[j]]
      /\ Len(q) \in Nat /\ \A i \in 1 .. Len(q) : q[i] \in Items /\ q[i] \in ToSet(q)
  <2>1. IsList(events, q) /\ ToSet(q) = added /\ q \in Seq(Items) /\ Distinct(q)
        /\ \A i, j \in 1 .. Len(q) : i < j => due[q[i]] <= due[q[j]]
    BY DEF InOrder, IsList
  <2> QED
    BY <2>1, SeqFacts, AtIn
<1>2. LinkedListAssumption /\ e \in Items \ ToSet(q) /\ LastTime \in Nat
  BY <1>1 DEF EvQueueAssumption, Events
<1>3. \A x \in added : x \in T <=> due[e] <= due[x]
  <2> TAKE x \in added
  <2>1. x \in Items /\ Timed(x) /\ Timed(e)
    BY DEF EvTypes, Events
  <2>2. cmp_t(when[e], when[x]) = due[x] - due[e]
    BY <2>1, TickCompares DEF Timed
  <2> QED
    BY <1>2, <2>1, <2>2 DEF Timed
<1>4. \A x \in added : due[x] \in Int /\ due[e] \in Int
  BY <1>2 DEF Timed
<1> HIDE DEF T
<1>5. events' = AddSorted(events, e, T)
  BY DEF Sorted, T
<1>6. PICK k \in 1 .. Len(q) + 1 :
        /\ IsList(events', InsertAt(q, k, e)) /\ ToSet(InsertAt(q, k, e)) = added'
        /\ k = Len(q) + 1 \/ q[k] \in T
        /\ \A j \in 1 .. k - 1 : q[j] \notin T
  BY <1>1, <1>2, <1>5, AddSortedIs
<1> DEFINE r == InsertAt(q, k, e)
<1>7. /\ r \in Seq(Items) /\ Len(r) = Len(q) + 1
      /\ \A j \in 1 .. Len(q) + 1 : r[j] = IF j < k THEN q[j] ELSE IF j = k THEN e ELSE q[j - 1]
  <2>1. e \in Items /\ q \in Seq(Items)
    BY <1>1, <1>2
  <2> QED
    BY ONLY <2>1, k \in 1 .. Len(q) + 1, InsertAtFacts
<1> HIDE DEF r
<1>8. \A j \in 1 .. Len(q) : (j < k => due[q[j]] <= due[e]) /\ (j >= k => due[e] <= due[q[j]])
  <2> TAKE j \in 1 .. Len(q)
  <2>1. ASSUME j < k PROVE due[q[j]] <= due[e]
    <3>1. j \in 1 .. k - 1 /\ q[j] \in added
      BY <1>1, <2>1
    <3> QED
      BY <1>3, <1>4, <1>6, <3>1
  <2>2. ASSUME j >= k PROVE due[e] <= due[q[j]]
    <3>1. k \in 1 .. Len(q) /\ q[k] \in added /\ q[j] \in added
      BY <1>1, <2>2
    <3>2. due[e] <= due[q[k]]
      BY <1>1, <1>3, <1>6, <3>1
    <3>3. due[q[k]] <= due[q[j]]
      BY <1>1, <1>4, <2>2, <3>1
    <3> QED
      BY <1>4, <3>1, <3>2, <3>3
  <2> QED
    BY <2>1, <2>2
<1>9. ASSUME NEW i \in 1 .. Len(r), NEW j \in 1 .. Len(r), i < j
      PROVE  due[r[i]] <= due[r[j]]
  <2>1. CASE i < k /\ j < k
    <3>1. r[i] = q[i] /\ r[j] = q[j] /\ i \in 1 .. Len(q) /\ j \in 1 .. Len(q)
      BY <1>1, <1>7, <2>1
    <3> QED
      BY <1>1, <1>9, <3>1
  <2>2. CASE i < k /\ j = k
    <3>1. r[i] = q[i] /\ r[j] = e /\ i \in 1 .. Len(q)
      BY <1>1, <1>7, <2>2
    <3> QED
      BY <1>8, <2>2, <3>1
  <2>3. CASE i < k /\ j > k
    <3>1. r[i] = q[i] /\ i \in 1 .. Len(q)
      BY <1>1, <1>7, <2>3
    <3>2. PICK n \in 1 .. Len(q) : n = j - 1 /\ r[j] = q[n] /\ n >= k
      BY <1>1, <1>7, <2>3
    <3>3. i < n
      BY <2>3, <3>2
    <3> QED
      BY <1>1, <3>1, <3>2, <3>3
  <2>4. CASE i = k /\ j > k
    <3>1. r[i] = e
      BY <1>1, <1>7, <2>4
    <3>2. PICK n \in 1 .. Len(q) : n = j - 1 /\ r[j] = q[n] /\ n >= k
      BY <1>1, <1>7, <2>4
    <3> QED
      BY <1>8, <3>1, <3>2
  <2>5. CASE i > k
    <3>1. PICK m \in 1 .. Len(q) : m = i - 1 /\ r[i] = q[m]
      BY <1>1, <1>7, <2>5
    <3>2. PICK n \in 1 .. Len(q) : n = j - 1 /\ r[j] = q[n]
      BY <1>1, <1>7, <1>9, <2>5
    <3>3. m < n
      BY <1>7, <1>9, <3>1, <3>2
    <3> QED
      BY <1>1, <3>1, <3>2, <3>3
  <2> QED
    BY <1>7, <1>9, <2>1, <2>2, <2>3, <2>4, <2>5
<1>10. IsList(events', r) /\ ToSet(r) = added'
  BY <1>6 DEF r
<1> QED
  BY <1>9, <1>10 DEF InOrder

-----------------------------------------------------------------------------
(* The steps of the owners.                                                *)

LEMMA DelKeeps == ASSUME EvQueueAssumption, EvInv, NEW t \in Threads, Del(t) PROVE EvInv'
<1>1. PICK e \in Events :
        /\ events' = ListRemove(events, e) /\ added' = added \ {e}
        /\ UNCHANGED <<when, doing, due, loop, now>>
  BY DEF Del, OwnerFrame
<1>2. EvTypes' /\ \A x : Timed(x)' = Timed(x)
  BY <1>1 DEF EvInv, EvTypes, Timed, Tick
<1>3. AddersInv' /\ LoopInv'
  BY <1>1, <1>2 DEF EvInv, AddersInv, LoopInv, Tick
<1>4. \A x \in added' : Timed(x)'
  BY <1>1, <1>2 DEF EvInv
<1>5. \E r : InOrder(r)'
  BY <1>1, OrderRemoved DEF EvInv
<1> QED
  BY <1>2, <1>3, <1>4, <1>5 DEF EvInv

LEMMA RescheduleKeeps ==
  ASSUME EvQueueAssumption, EvInv, NEW t \in Threads, RescheduleDel(t) PROVE EvInv'
<1>1. PICK e \in Events, n \in 1 .. LastTime :
        /\ Owner[e] = t
        /\ e \notin Periodic \/ (e \notin added /\ loop.ev # e)
        /\ now + n <= LastTime
        /\ events' = ListRemove(events, e) /\ added' = added \ {e}
        /\ due' = [due EXCEPT ![e] = now + n] /\ when' = [when EXCEPT ![e] = Tick(now + n)]
        /\ doing' = [doing EXCEPT ![t] = <<"add", e>>]
        /\ UNCHANGED <<loop, now>>
  BY DEF RescheduleDel, OwnerFrame
<1>0. PICK d \in 0 .. LastTime : d = now + n /\ Tick(d) \in Int
  <2>1. PICK d \in 0 .. LastTime : d = now + n
    BY <1>1 DEF EvInv, EvTypes, EvQueueAssumption
  <2>2. d \in 0 .. LastTime + 1 /\ Modulus \in Nat
    BY DEF EvQueueAssumption
  <2> QED
    BY <2>1, <2>2, TickCompares
<1>2. EvTypes'
  <2>1. when' \in [Events -> Int] /\ due' \in [Events -> Int]
    BY <1>0, <1>1 DEF EvInv, EvTypes
  <2>2. doing' \in [Threads -> {"idle", "add"} \X Places]
    BY <1>1 DEF EvInv, EvTypes, Places, Events
  <2>3. UNCHANGED <<loop, now>> /\ added' \subseteq Events
    BY <1>1 DEF EvInv, EvTypes
  <2> QED
    BY <2>1, <2>2, <2>3 DEF EvInv, EvTypes
<1>3. \A x \in Events \ {e} : Timed(x)' = Timed(x) /\ due'[x] = due[x]
  BY <1>1 DEF EvInv, EvTypes, Timed, Tick
<1>4. Timed(e)'
  <2>1. due'[e] = d /\ when'[e] = Tick(d)
    BY <1>0, <1>1 DEF EvInv, EvTypes
  <2> QED
    BY <1>0, <2>1 DEF Timed, Tick, EvQueueAssumption
<1>5. AddersInv'
  <2> SUFFICES ASSUME NEW u \in Threads, doing'[u][1] = "add"
               PROVE  \E f \in Events :
                        /\ doing'[u] = <<"add", f>> /\ Owner[f] = u /\ f \notin added' /\ Timed(f)'
                        /\ f \in Periodic => loop'.ev # f
    BY DEF AddersInv
  <2>1. CASE u = t
    <3>1. doing'[u] = <<"add", e>>
      BY <1>1, <2>1 DEF EvInv, EvTypes
    <3> QED
      BY <1>1, <1>4, <2>1, <3>1
  <2>2. CASE u # t
    <3>1. doing'[u] = doing[u]
      BY <1>1, <2>2 DEF EvInv, EvTypes
    <3>2. PICK f \in Events : /\ doing[u] = <<"add", f>> /\ Owner[f] = u /\ f \notin added /\ Timed(f)
                              /\ f \in Periodic => loop.ev # f
      BY <3>1 DEF EvInv, AddersInv
    <3>3. f # e
      BY <1>1, <2>2, <3>2
    <3> QED
      BY <1>1, <1>3, <3>1, <3>2, <3>3
  <2> QED
    BY <2>1, <2>2
<1>6. LoopInv'
  <2>1. ASSUME NEW f \in Periodic, loop.ev = f
        PROVE  f \notin added' /\ Timed(f)' /\ (loop.at = "run" => due'[f] <= LastTime)
    <3>1. f # e /\ f \in Events
      BY <1>1, <2>1 DEF EvQueueAssumption, Events
    <3> QED
      BY <1>1, <1>3, <2>1, <3>1 DEF EvInv, LoopInv
  <2> QED
    BY <1>1, <2>1 DEF EvInv, LoopInv, Tick
<1>7. \A x \in added' : Timed(x)'
  BY <1>1, <1>3 DEF EvInv, EvTypes
<1>8. \E r : InOrder(r)'
  BY <1>1, <1>3, OrderRemoved DEF EvInv
<1> QED
  BY <1>2, <1>5, <1>6, <1>7, <1>8 DEF EvInv

LEMMA AddKeeps == ASSUME EvQueueAssumption, EvInv, NEW t \in Threads, Add(t) PROVE EvInv'
<1>1. PICK e : /\ e = doing[t][2] /\ doing[t][1] = "add"
               /\ events' = Sorted(events, e) /\ added' = added \cup {e}
               /\ doing' = [doing EXCEPT ![t] = <<"idle", Nobody>>]
               /\ UNCHANGED <<when, due, loop, now>>
  BY DEF Add, OwnerFrame
<1>2. /\ e \in Events /\ Owner[e] = t /\ e \notin added /\ Timed(e)
      /\ e \in Periodic => loop.ev # e
  BY <1>1 DEF EvInv, AddersInv
<1>3. EvTypes' /\ \A x : Timed(x)' = Timed(x)
  BY <1>1, <1>2 DEF EvInv, EvTypes, Timed, Tick, Places, Nobody
<1>4. AddersInv'
  <2> SUFFICES ASSUME NEW u \in Threads, doing'[u][1] = "add"
               PROVE  \E f \in Events :
                        /\ doing'[u] = <<"add", f>> /\ Owner[f] = u /\ f \notin added' /\ Timed(f)'
                        /\ f \in Periodic => loop'.ev # f
    BY DEF AddersInv
  <2>1. u # t
    BY <1>1 DEF EvInv, EvTypes
  <2>2. doing'[u] = doing[u]
    BY <1>1, <2>1 DEF EvInv, EvTypes
  <2>3. PICK f \in Events : /\ doing[u] = <<"add", f>> /\ Owner[f] = u /\ f \notin added /\ Timed(f)
                            /\ f \in Periodic => loop.ev # f
    BY <2>2 DEF EvInv, AddersInv
  <2>4. f # e
    BY <1>2, <2>1, <2>3
  <2> QED
    BY <1>1, <1>3, <2>2, <2>3, <2>4
<1>5. LoopInv'
  BY <1>1, <1>2, <1>3 DEF EvInv, LoopInv, Tick
<1>6. \A x \in added' : Timed(x)'
  BY <1>1, <1>2, <1>3 DEF EvInv
<1>7. \E r : InOrder(r)'
  BY <1>1, <1>2, OrderAdded DEF EvInv
<1> QED
  BY <1>3, <1>4, <1>5, <1>6, <1>7 DEF EvInv

-----------------------------------------------------------------------------
(* The steps of the loop.                                                  *)

\* Steps that change nothing but where the loop is.
LEMMA OnlyLoop ==
  ASSUME EvInv, UNCHANGED <<events, when, doing, due, added>>, now' \in 0 .. LastTime,
         loop' \in [at : {"out", "pop", "run", "again"}, t : Int, ev : Places],
         loop'.ev = loop.ev
  PROVE  /\ EvTypes' /\ AddersInv' /\ \A x \in added' : Timed(x)'
         /\ \E r : InOrder(r)' /\ \A x : Timed(x)' = Timed(x)
<1>1. EvTypes' /\ \A x : Timed(x)' = Timed(x)
  BY DEF EvInv, EvTypes, Timed, Tick
<1>2. AddersInv' /\ \A x \in added' : Timed(x)'
  BY <1>1 DEF EvInv, AddersInv
<1>3. \E r : InOrder(r)'
  BY OrderKept DEF EvInv
<1> QED
  BY <1>1, <1>2, <1>3

LEMMA CallKeeps == ASSUME EvQueueAssumption, EvInv, Call \/ Pass \/ UNCHANGED evVars PROVE EvInv'
<1>1. CASE Call
  <2>1. now \in 0 .. LastTime + 1 /\ LastTime \in Nat /\ now \in 0 .. now /\ now \in 0 .. LastTime
    BY DEF EvInv, EvTypes, EvQueueAssumption
  <2>2. Tick(now) \in Int
    BY <2>1, TickCompares
  <2>3. /\ UNCHANGED <<events, when, doing, due, added, now>>
        /\ loop.at = "out" /\ loop' = [loop EXCEPT !.at = "pop", !.t = Tick(now)]
    BY <1>1 DEF Call, LoopFrame
  <2>4. /\ loop' \in [at : {"out", "pop", "run", "again"}, t : Int, ev : Places]
        /\ loop'.at = "pop" /\ loop'.t = Tick(now) /\ loop'.ev = loop.ev
    BY <2>2, <2>3 DEF EvInv, EvTypes
  <2>5. EvTypes' /\ AddersInv' /\ (\A x \in added' : Timed(x)') /\ \E r : InOrder(r)'
    BY <2>1, <2>3, <2>4, OnlyLoop
  <2>6. LoopInv'
    <3>1. loop'.ev = Nobody /\ Nobody \notin Periodic
      BY <2>3, <2>4 DEF EvInv, LoopInv, EvQueueAssumption, LinkedListAssumption, Nobody
    <3> QED
      BY <2>1, <2>3, <2>4, <3>1 DEF LoopInv, Tick
  <2> QED
    BY <2>5, <2>6 DEF EvInv
<1>2. CASE Pass \/ UNCHANGED evVars
  <2>1. /\ UNCHANGED <<events, when, doing, due, added, loop>>
        /\ now' \in 0 .. LastTime /\ now <= now' /\ now \in Nat
    BY <1>2 DEF Pass, evVars, EvInv, EvTypes, EvQueueAssumption
  <2>2. /\ EvTypes' /\ AddersInv' /\ (\A x \in added' : Timed(x)') /\ \E r : InOrder(r)'
        /\ \A x : Timed(x)' = Timed(x)
    BY <2>1, OnlyLoop DEF EvInv, EvTypes
  <2>3. (\E c \in 0 .. now : loop.t = Tick(c)) => \E c \in 0 .. now' : loop.t = Tick(c)
    BY <2>1
  <2>4. LoopInv'
    BY <2>1, <2>2, <2>3 DEF EvInv, LoopInv, Tick
  <2> QED
    BY <2>2, <2>4 DEF EvInv
<1> QED
  BY <1>1, <1>2

LEMMA PopKeeps == ASSUME EvQueueAssumption, EvInv, Pop PROVE EvInv'
<1>0. LinkedListAssumption /\ LastTime \in Nat /\ now \in 0 .. LastTime /\ Null \notin Periodic
  BY DEF EvInv, EvTypes, EvQueueAssumption, LinkedListAssumption
<1>1. loop.at = "pop" /\ loop.ev = Null /\ UNCHANGED <<when, due, doing, now>>
  BY DEF Pop, LoopFrame, EvInv, LoopInv, Nobody
<1>2. PICK q : InOrder(q)
  BY DEF EvInv
<1>3. IsList(events, q) /\ ToSet(q) = added
  BY <1>2, OrderFacts
<1>4. CASE events.head = Null \/ cmp_t(when[events.head], loop.t) < 0
  <2>1. loop' = [loop EXCEPT !.at = "out"] /\ UNCHANGED <<events, added>>
    BY <1>4 DEF Pop
  <2>2. /\ loop' \in [at : {"out", "pop", "run", "again"}, t : Int, ev : Places]
        /\ loop'.at = "out" /\ loop'.ev = loop.ev
    BY <2>1 DEF EvInv, EvTypes
  <2>3. EvTypes' /\ AddersInv' /\ (\A x \in added' : Timed(x)') /\ \E r : InOrder(r)'
    BY <1>0, <1>1, <2>1, <2>2, OnlyLoop
  <2>4. LoopInv'
    BY <1>0, <1>1, <2>2 DEF LoopInv, Nobody
  <2> QED
    BY <2>3, <2>4 DEF EvInv
<1>5. CASE ~(events.head = Null \/ cmp_t(when[events.head], loop.t) < 0)
  <2>1. q # <<>> /\ events.head # Null
    BY <1>0, <1>3, <1>5, PopIs
  <2>2. PICK h : h = events.head
    OBVIOUS
  <2>3. /\ events' = ListPop(events) /\ added' = added \ {h}
        /\ loop' = [loop EXCEPT !.at = "run", !.ev = h] /\ ~(cmp_t(when[h], loop.t) < 0)
    BY <1>5, <2>2 DEF Pop
  <2>4. /\ 1 \in 1 .. Len(q) /\ h = q[1] /\ h \in added /\ h \in Events
        /\ IsList(events', RemoveAt(q, 1)) /\ ToSet(RemoveAt(q, 1)) = added'
    BY <1>0, <1>3, <2>1, <2>2, <2>3, PopIs DEF Events
  <2>5. Timed(h)
    BY <2>4 DEF EvInv
  <2>6. due[h] <= LastTime
    <3>1. PICK c \in 0 .. now : loop.t = Tick(c)
      BY <1>1 DEF EvInv, LoopInv
    <3>2. PICK d \in 0 .. LastTime + 1 : d = due[h] /\ when[h] = Tick(d)
      BY <2>5 DEF Timed
    <3>3. c \in 0 .. LastTime + 1 /\ c <= LastTime
      BY <1>0, <3>1
    <3>4. cmp_t(when[h], loop.t) = c - d
      BY <3>1, <3>2, <3>3, TickCompares
    <3> QED
      BY <1>0, <2>3, <3>2, <3>3, <3>4
  <2>7. /\ loop' \in [at : {"out", "pop", "run", "again"}, t : Int, ev : Places]
        /\ loop'.at = "run" /\ loop'.ev = h /\ loop'.t = loop.t
    BY <2>3, <2>4 DEF EvInv, EvTypes, Places, Events
  <2>8. EvTypes' /\ \A x : Timed(x)' = Timed(x)
    BY <1>1, <2>3, <2>7 DEF EvInv, EvTypes, Timed, Tick
  <2>9. AddersInv'
    <3> SUFFICES ASSUME NEW u \in Threads, doing[u][1] = "add"
                 PROVE  \E f \in Events :
                          /\ doing[u] = <<"add", f>> /\ Owner[f] = u /\ f \notin added' /\ Timed(f)'
                          /\ f \in Periodic => loop'.ev # f
      BY <1>1 DEF AddersInv
    <3>1. PICK f \in Events : doing[u] = <<"add", f>> /\ Owner[f] = u /\ f \notin added /\ Timed(f)
      BY DEF EvInv, AddersInv
    <3> QED
      BY <2>3, <2>4, <2>7, <2>8, <3>1
  <2>10. LoopInv'
    BY <1>1, <2>3, <2>4, <2>5, <2>6, <2>7, <2>8 DEF EvInv, LoopInv, Tick
  <2>11. \E r : InOrder(r)'
    BY <1>1, <1>2, <2>4, OrderTaken
  <2>12. \A x \in added' : Timed(x)'
    BY <2>3, <2>8 DEF EvInv
  <2> QED
    BY <2>8, <2>9, <2>10, <2>11, <2>12 DEF EvInv
<1> QED
  BY <1>4, <1>5

LEMMA RunKeeps == ASSUME EvQueueAssumption, EvInv, RunEvent PROVE EvInv'
<1>0. /\ LastTime \in Nat /\ now \in 0 .. LastTime /\ Null \notin Periodic /\ Periodic \subseteq Events
      /\ Modulus \in Nat \ {0} /\ added \subseteq Events
  BY DEF EvInv, EvTypes, EvQueueAssumption, LinkedListAssumption, Events
<1>1. PICK e : /\ e = loop.ev /\ loop.at = "run" /\ e \in Events
               /\ loop' = [loop EXCEPT !.at = IF e \in Periodic THEN "again" ELSE "pop",
                                       !.ev = IF e \in Periodic THEN e ELSE Nobody]
               /\ when' = IF e \in Periodic THEN [when EXCEPT ![e] = (@ + 1) % Modulus] ELSE when
               /\ due' = IF e \in Periodic THEN [due EXCEPT ![e] = @ + 1] ELSE due
               /\ UNCHANGED <<events, added, doing, now>>
  BY DEF RunEvent, LoopFrame, EvInv, LoopInv
<1>2. loop.t \in Int /\ \E c \in 0 .. now : loop.t = Tick(c)
  BY <1>1 DEF EvInv, EvTypes, LoopInv
<1>3. CASE e \notin Periodic
  <2>1. /\ loop' \in [at : {"out", "pop", "run", "again"}, t : Int, ev : Places]
        /\ loop'.at = "pop" /\ loop'.ev = Nobody /\ loop'.t = loop.t
    BY <1>1, <1>3 DEF EvInv, EvTypes, Places, Nobody
  <2>2. EvTypes' /\ \A x : Timed(x)' = Timed(x)
    BY <1>1, <1>3, <2>1 DEF EvInv, EvTypes, Timed, Tick
  <2>3. AddersInv'
    BY <1>0, <1>1, <2>1, <2>2 DEF EvInv, AddersInv, Nobody
  <2>4. LoopInv'
    BY <1>0, <1>1, <1>2, <2>1 DEF LoopInv, Nobody, Tick
  <2>5. (\A x \in added' : Timed(x)') /\ \E r : InOrder(r)'
    BY <1>1, <1>3, <2>2, OrderKept DEF EvInv
  <2> QED
    BY <2>2, <2>3, <2>4, <2>5 DEF EvInv
<1>4. CASE e \in Periodic
  <2>1. e \notin added /\ Timed(e) /\ due[e] <= LastTime
    BY <1>1, <1>4 DEF EvInv, LoopInv
  <2>2. /\ loop' \in [at : {"out", "pop", "run", "again"}, t : Int, ev : Places]
        /\ loop'.at = "again" /\ loop'.ev = e /\ loop'.t = loop.t
    BY <1>1, <1>4 DEF EvInv, EvTypes, Places, Events
  <2>3. EvTypes' /\ when'[e] = (when[e] + 1) % Modulus /\ due'[e] = due[e] + 1
    <3>1. (when[e] + 1) % Modulus \in Int
      <4>1. PICK w \in Int : w = when[e] + 1
        BY <1>1 DEF EvInv, EvTypes
      <4> QED
        BY <1>0, <4>1, WrapFacts
    <3>2. when \in [Events -> Int] /\ due \in [Events -> Int]
      BY DEF EvInv, EvTypes
    <3>3. when' \in [Events -> Int] /\ due' \in [Events -> Int]
          /\ when'[e] = (when[e] + 1) % Modulus /\ due'[e] = due[e] + 1
      BY <1>1, <1>4, <3>1, <3>2
    <3> QED
      BY <1>1, <2>2, <3>3 DEF EvInv, EvTypes
  <2>4. Timed(e)'
    <3>1. PICK d \in 0 .. LastTime : d = due[e] /\ when[e] = Tick(d)
      BY <1>0, <2>1 DEF Timed
    <3>2. when'[e] = Tick(d + 1) /\ due'[e] = d + 1
      BY <2>3, <3>1, TickCompares
    <3> QED
      BY <1>0, <3>1, <3>2 DEF Timed, Tick
  <2>5. \A x \in Events \ {e} : Timed(x)' = Timed(x) /\ due'[x] = due[x]
    BY <1>1, <1>4 DEF EvInv, EvTypes, Timed, Tick
  <2>6. AddersInv'
    <3> SUFFICES ASSUME NEW u \in Threads, doing[u][1] = "add"
                 PROVE  \E f \in Events :
                          /\ doing[u] = <<"add", f>> /\ Owner[f] = u /\ f \notin added' /\ Timed(f)'
                          /\ f \in Periodic => loop'.ev # f
      BY <1>1 DEF AddersInv
    <3>1. PICK f \in Events : /\ doing[u] = <<"add", f>> /\ Owner[f] = u /\ f \notin added /\ Timed(f)
                              /\ f \in Periodic => loop.ev # f
      BY DEF EvInv, AddersInv
    <3>2. f # e
      BY <1>1, <1>4, <3>1
    <3> QED
      BY <1>1, <2>2, <2>5, <3>1, <3>2
  <2>7. LoopInv'
    BY <1>0, <1>1, <1>2, <1>4, <2>1, <2>2, <2>4 DEF LoopInv, Tick
  <2>8. \A x \in added' : Timed(x)'
    BY <1>0, <1>1, <2>1, <2>5 DEF EvInv
  <2>9. \E r : InOrder(r)'
    <3>1. \A x \in added : due'[x] = due[x]
      BY <1>0, <2>1, <2>5
    <3> QED
      BY <1>1, <3>1, OrderKept DEF EvInv
  <2> QED
    BY <2>3, <2>6, <2>7, <2>8, <2>9 DEF EvInv
<1> QED
  BY <1>3, <1>4

LEMMA AgainKeeps == ASSUME EvQueueAssumption, EvInv, AddAgain PROVE EvInv'
<1>1. PICK e : /\ e = loop.ev /\ loop.at = "again"
               /\ events' = Sorted(events, e) /\ added' = added \cup {e}
               /\ loop' = [loop EXCEPT !.at = "pop", !.ev = Nobody]
               /\ UNCHANGED <<when, due, doing, now>>
  BY DEF AddAgain, LoopFrame
<1>2. /\ e \in Periodic /\ e \in Events /\ e \notin added /\ Timed(e) /\ Null \notin Periodic
      /\ \E c \in 0 .. now : loop.t = Tick(c)
  BY <1>1 DEF EvInv, LoopInv, EvQueueAssumption, LinkedListAssumption, Events
<1>3. /\ loop' \in [at : {"out", "pop", "run", "again"}, t : Int, ev : Places]
      /\ loop'.at = "pop" /\ loop'.ev = Nobody /\ loop'.t = loop.t
  BY <1>1 DEF EvInv, EvTypes, Places, Nobody
<1>4. EvTypes' /\ \A x : Timed(x)' = Timed(x)
  BY <1>1, <1>2, <1>3 DEF EvInv, EvTypes, Timed, Tick
<1>5. AddersInv'
  <2> SUFFICES ASSUME NEW u \in Threads, doing[u][1] = "add"
               PROVE  \E f \in Events :
                        /\ doing[u] = <<"add", f>> /\ Owner[f] = u /\ f \notin added' /\ Timed(f)'
                        /\ f \in Periodic => loop'.ev # f
    BY <1>1 DEF AddersInv
  <2>1. PICK f \in Events : /\ doing[u] = <<"add", f>> /\ Owner[f] = u /\ f \notin added /\ Timed(f)
                            /\ f \in Periodic => loop.ev # f
    BY DEF EvInv, AddersInv
  <2>2. f # e
    BY <1>1, <1>2, <2>1
  <2> QED
    BY <1>1, <1>2, <1>3, <1>4, <2>1, <2>2 DEF Nobody
<1>6. LoopInv'
  BY <1>1, <1>2, <1>3 DEF LoopInv, Nobody, Tick
<1>7. \A x \in added' : Timed(x)'
  BY <1>1, <1>2, <1>4 DEF EvInv
<1>8. \E r : InOrder(r)'
  BY <1>1, <1>2, OrderAdded DEF EvInv
<1> QED
  BY <1>4, <1>5, <1>6, <1>7, <1>8 DEF EvInv

\* Whoever reschedules and whatever runs meanwhile, the list links the events that
\* are to run, each once and the soonest first (src/panglos/event_queue.h:44-117),
\* for any events and owners and any width of the counter.
THEOREM EventsInOrder == ASSUME EvQueueAssumption PROVE EvSpec => []QueueIsSound
<1>1. EvInit => EvInv
  BY EvStart
<1>2. EvInv /\ [EvNext]_evVars => EvInv'
  BY DelKeeps, RescheduleKeeps, AddKeeps, CallKeeps, PopKeeps, RunKeeps, AgainKeeps
     DEF EvNext, Loop
<1>3. EvInv => QueueIsSound
  <2> SUFFICES ASSUME EvInv PROVE QueueIsSound
    OBVIOUS
  <2>1. PICK q : InOrder(q)
    BY DEF EvInv
  <2>2. /\ IsList(events, q) /\ ToSet(q) = added /\ q \in Seq(Items) /\ Distinct(q) /\ Len(q) \in Nat
        /\ \A i, j \in 1 .. Len(q) : i < j => due[q[i]] <= due[q[j]]
    BY <2>1, OrderFacts
  <2>3. Walk(events) = q /\ Cardinality(added) = Len(q)
    BY <2>2, WalkIs, SizeBound DEF EvQueueAssumption
  <2>4. \A i \in 1 .. Len(q) - 1 : due[q[i]] <= due[q[i + 1]]
    <3> TAKE i \in 1 .. Len(q) - 1
    <3>1. PICK j \in 1 .. Len(q) : j = i + 1 /\ i < j /\ i \in 1 .. Len(q)
      BY <2>2
    <3> QED
      BY <2>2, <3>1
  <2> QED
    BY <2>2, <2>3, <2>4 DEF QueueIsSound, ToSet
<1> QED
  BY <1>1, <1>2, <1>3, PTL DEF EvSpec

-----------------------------------------------------------------------------
(* The watchdog.  While less than a turn of the counter has passed, what   *)
(* has elapsed since a poll is known from it.                              *)

WdTypes ==
  /\ clock \in 0 .. WdLastTime
  /\ last \in [Watched -> Int] /\ holdoff \in [Watched -> Nat]
  /\ alarmed \in [Watched -> BOOLEAN]
  /\ using \in Places /\ reported \subseteq Watched

\* A thread in the list polled k ticks after the start; what is on the list, and
\* what was said of it, agree.
Polled ==
  {w \in Watched :
    /\ \E k \in 0 .. clock : last[w] = (WdFirstNow + k) % WdModulus
    /\ alarmed[w] <=> w \in reported
    /\ alarmed[w] => elapsed(last[w], holdoff[w])}

WatchList(q) == IsList(tasks, q) /\ ToSet(q) \subseteq Polled

WdInv == WdTypes /\ \E q : WatchList(q)

\* What Time::elapsed() finds, c ticks after the start, of a time k ticks after it.
LEMMA ElapsedIs ==
  ASSUME WatchdogAssumption, NEW c \in 0 .. WdLastTime, NEW k \in 0 .. c, NEW h \in Nat
  PROVE  /\ ((((WdFirstNow + c) % WdModulus) - ((WdFirstNow + k) % WdModulus)) % WdModulus >= h)
              <=> (c - k >= h)
         /\ (WdFirstNow + k) % WdModulus \in Int
<1>1. /\ WdModulus \in Nat \ {0} /\ WdLastTime \in Nat /\ WdLastTime < WdModulus
      /\ WdFirstNow \in 0 .. WdModulus - 1 /\ c \in Int
  BY DEF WatchdogAssumption
<1>2. PICK x \in Int, y \in Int : x = WdFirstNow + c /\ y = WdFirstNow + k /\ x - y = c - k
  BY <1>1
<1>3. ((x % WdModulus) - (y % WdModulus)) % WdModulus = (x - y) % WdModulus
  BY <1>1, ReduceFirst
<1>4. PICK d \in 0 .. WdModulus - 1 : d = x - y /\ d % WdModulus = d
  <2>1. PICK d \in 0 .. WdModulus - 1 : d = x - y
    BY <1>1, <1>2
  <2> QED
    BY <1>1, <2>1, WrapFacts
<1>5. y % WdModulus \in Int
  BY <1>1, WrapFacts
<1> QED
  BY <1>2, <1>3, <1>4, <1>5

LEMMA WdStart == ASSUME WatchdogAssumption PROVE WdInit => WdInv
<1> SUFFICES ASSUME WdInit PROVE WdInv
  OBVIOUS
<1>1. WdTypes
  BY DEF WdInit, WdTypes, WatchdogAssumption, Places
<1>2. WatchList(<<>>)
  BY EmptyIs DEF WatchList, WdInit, WatchdogAssumption
<1> QED
  BY <1>1, <1>2 DEF WdInv

LEMMA PollKeeps == ASSUME WatchdogAssumption, WdInv, NEW w \in Watched, Poll(w) PROVE WdInv'
<1>0. LinkedListAssumption /\ Watched \subseteq Items /\ w \in Items /\ Holdoffs \subseteq Nat
  BY DEF WatchdogAssumption
<1>1. PICK q : WatchList(q)
  BY DEF WdInv
<1>2. PICK h \in Holdoffs :
        /\ last' = [last EXCEPT ![w] = Ticks] /\ holdoff' = [holdoff EXCEPT ![w] = h]
        /\ alarmed' = [alarmed EXCEPT ![w] = FALSE]
        /\ reported' = reported \ {w} /\ UNCHANGED <<using, clock>>
        /\ tasks' = IF Has(tasks, w) THEN tasks ELSE ListPush(tasks, w)
  BY DEF Poll
<1>3. Ticks = (WdFirstNow + clock) % WdModulus /\ Ticks \in Int /\ clock \in 0 .. clock
      /\ clock \in 0 .. WdLastTime
  <2>1. clock \in 0 .. clock /\ clock \in 0 .. WdLastTime
    BY DEF WdInv, WdTypes, WatchdogAssumption
  <2>2. 0 \in Nat
    OBVIOUS
  <2> QED
    BY <2>1, <2>2, ElapsedIs DEF Ticks
<1>4. WdTypes'
  <2>1. last' \in [Watched -> Int] /\ holdoff' \in [Watched -> Nat]
    BY <1>0, <1>2, <1>3 DEF WdInv, WdTypes
  <2>2. alarmed' \in [Watched -> BOOLEAN]
    BY <1>2 DEF WdInv, WdTypes
  <2> QED
    BY <1>2, <2>1, <2>2 DEF WdInv, WdTypes
<1>5. \E r : IsList(tasks', r) /\ ToSet(r) = ToSet(q) \cup {w}
  <2>1. IsList(tasks, q)
    BY <1>1 DEF WatchList
  <2>2. CASE w \in ToSet(q)
    <3>1. Has(tasks, w) /\ ToSet(q) = ToSet(q) \cup {w}
      BY <1>0, <2>1, <2>2, HasIs
    <3> QED
      BY <1>2, <2>1, <3>1
  <2>3. CASE w \notin ToSet(q)
    <3>1. ~Has(tasks, w)
      BY <1>0, <2>1, <2>3, HasIs
    <3>2. tasks' = ListPush(tasks, w) /\ w \in Items \ ToSet(q)
      BY <1>0, <1>2, <2>3, <3>1
    <3> QED
      BY <1>0, <2>1, <3>2, PushIs
  <2> QED
    BY <2>2, <2>3
<1>6. w \in Polled'
  <2>1. last'[w] = Ticks /\ clock' = clock
    BY <1>2 DEF WdInv, WdTypes
  <2>2. ~alarmed'[w] /\ w \notin reported'
    BY <1>2 DEF WdInv, WdTypes
  <2> QED
    BY <1>3, <2>1, <2>2 DEF Polled
<1>7. ToSet(q) \ {w} \subseteq Polled'
  <2> SUFFICES ASSUME NEW x \in ToSet(q) \ {w} PROVE x \in Polled'
    OBVIOUS
  <2>1. x \in Polled /\ x \in Watched
    BY <1>1 DEF WatchList, Polled
  <2>2. last'[x] = last[x] /\ holdoff'[x] = holdoff[x] /\ clock' = clock
    BY <1>2, <2>1 DEF WdInv, WdTypes
  <2>3. alarmed'[x] = alarmed[x] /\ (x \in reported' <=> x \in reported)
    BY <1>2, <2>1 DEF WdInv, WdTypes
  <2> QED
    BY <2>1, <2>2, <2>3 DEF Polled, elapsed, Ticks
<1> QED
  BY <1>1, <1>4, <1>5, <1>6, <1>7 DEF WdInv, WatchList

LEMMA RemoveKeeps == ASSUME WatchdogAssumption, WdInv, NEW w \in Watched, RemoveWatch(w) PROVE WdInv'
<1>0. LinkedListAssumption /\ w \in Items
  BY DEF WatchdogAssumption
<1>1. PICK q : WatchList(q)
  BY DEF WdInv
<1>2. /\ tasks' = ListRemove(tasks, w) /\ Has(tasks, w)
      /\ reported' = reported \ {w} /\ using' = (IF using = w THEN Null ELSE using)
      /\ UNCHANGED <<last, holdoff, alarmed, clock>>
  BY DEF RemoveWatch
<1>3. IsList(tasks, q) /\ w \in ToSet(q)
  BY <1>0, <1>1, <1>2, HasIs DEF WatchList
<1>4. \E r : IsList(tasks', r) /\ ToSet(r) = ToSet(q) \ {w}
  <2>1. \E i \in 1 .. Len(q) : q[i] = w /\ IsList(ListRemove(tasks, w), RemoveAt(q, i))
                               /\ ToSet(RemoveAt(q, i)) = ToSet(q) \ {w}
    BY <1>0, <1>3, RemoveIs
  <2> QED
    BY <1>2, <2>1
<1>5. WdTypes'
  BY <1>2 DEF WdInv, WdTypes, Places
<1>6. ToSet(q) \ {w} \subseteq Polled'
  <2> SUFFICES ASSUME NEW x \in ToSet(q) \ {w} PROVE x \in Polled'
    OBVIOUS
  <2>1. x \in Polled
    BY <1>1 DEF WatchList
  <2>2. x \in reported' <=> x \in reported
    BY <1>2
  <2> QED
    BY <1>2, <2>1, <2>2 DEF Polled, elapsed, Ticks
<1> QED
  BY <1>1, <1>4, <1>5, <1>6 DEF WdInv, WatchList

LEMMA ExpiredKeeps == ASSUME WatchdogAssumption, WdInv, CheckExpired PROVE WdInv'
<1>0. LinkedListAssumption
  BY DEF WatchdogAssumption
<1>1. PICK q : WatchList(q)
  BY DEF WdInv
<1> DEFINE T == {x \in Watched : Expired(x)}
<1>2. PICK w : /\ w = Find(tasks, T) /\ w # Null
               /\ alarmed' = [alarmed EXCEPT ![w] = TRUE] /\ using' = w
               /\ reported' = reported \cup {w} /\ UNCHANGED <<tasks, last, holdoff, clock>>
  BY DEF CheckExpired
<1>3. IsList(tasks, q)
  BY <1>1 DEF WatchList
<1> HIDE DEF T
<1>4. w \in ToSet(q) \cap T
  BY <1>0, <1>2, <1>3, FindIs
<1>5. w \in Watched /\ elapsed(last[w], holdoff[w]) /\ w \in Polled
  BY <1>1, <1>4 DEF T, Expired, WatchList
<1>6. WdTypes'
  <2>1. alarmed' \in [Watched -> BOOLEAN]
    BY <1>2 DEF WdInv, WdTypes
  <2> QED
    BY <1>2, <1>5, <2>1 DEF WdInv, WdTypes, Places, WatchdogAssumption
<1>7. ToSet(q) \subseteq Polled'
  <2> SUFFICES ASSUME NEW x \in ToSet(q) PROVE x \in Polled'
    OBVIOUS
  <2>1. x \in Polled /\ x \in Watched
    BY <1>1 DEF WatchList, Polled
  <2>2. CASE x = w
    <3>1. alarmed'[x] /\ x \in reported'
      BY <1>2, <1>5, <2>2 DEF WdInv, WdTypes
    <3> QED
      BY <1>2, <1>5, <2>1, <2>2, <3>1 DEF Polled, elapsed, Ticks
  <2>3. CASE x # w
    <3>1. alarmed'[x] = alarmed[x] /\ (x \in reported' <=> x \in reported)
      BY <1>2, <2>1, <2>3 DEF WdInv, WdTypes
    <3> QED
      BY <1>2, <2>1, <3>1 DEF Polled, elapsed, Ticks
  <2> QED
    BY <2>2, <2>3
<1> QED
  BY <1>1, <1>2, <1>6, <1>7 DEF WdInv, WatchList

LEMMA PassKeeps == ASSUME WatchdogAssumption, WdInv, Done \/ WdPass \/ UNCHANGED wdVars PROVE WdInv'
<1>1. PICK q : WatchList(q)
  BY DEF WdInv
<1>2. /\ UNCHANGED <<tasks, last, holdoff, alarmed, reported>>
      /\ using' \in Places /\ clock' \in 0 .. WdLastTime /\ clock <= clock' /\ clock \in Nat
  BY DEF Done, WdPass, wdVars, WdInv, WdTypes, Places, WatchdogAssumption
<1>3. WdTypes'
  BY <1>2 DEF WdInv, WdTypes
<1>4. ToSet(q) \subseteq Polled'
  <2> SUFFICES ASSUME NEW x \in ToSet(q) PROVE x \in Polled'
    OBVIOUS
  <2>1. x \in Polled /\ x \in Watched
    BY <1>1 DEF WatchList, Polled
  <2>2. PICK k \in 0 .. clock : last[x] = (WdFirstNow + k) % WdModulus
    BY <2>1 DEF Polled
  <2>3. holdoff[x] \in Nat /\ k \in 0 .. clock'
    BY <1>2, <2>1 DEF WdInv, WdTypes
  <2>4. k \in 0 .. clock /\ clock \in 0 .. WdLastTime /\ clock' \in 0 .. WdLastTime
    BY <1>2, <2>2 DEF WdInv, WdTypes
  <2>5. /\ elapsed(last[x], holdoff[x]) <=> clock - k >= holdoff[x]
        /\ elapsed(last[x], holdoff[x])' <=> clock' - k >= holdoff[x]
    BY <1>2, <2>2, <2>3, <2>4, ElapsedIs DEF elapsed, Ticks
  <2>6. elapsed(last[x], holdoff[x]) => elapsed(last[x], holdoff[x])'
    BY <1>2, <2>3, <2>4, <2>5
  <2> QED
    BY <1>2, <2>1, <2>2, <2>3, <2>6 DEF Polled
<1> QED
  BY <1>1, <1>2, <1>3, <1>4 DEF WdInv, WatchList

\* expired() says of a thread in the list whether it has been reported since its last
\* poll, and none is reported that still has time (src/watchdog.cpp:60-145), for any
\* threads, holdoff times and width of the counter.
THEOREM ReportedWhenLate == ASSUME WatchdogAssumption PROVE WdSpec => []ExpiredIsReported
<1>1. WdInit => WdInv
  BY WdStart
<1>2. WdInv /\ [WdNext]_wdVars => WdInv'
  BY PollKeeps, RemoveKeeps, ExpiredKeeps, PassKeeps DEF WdNext
<1>3. WdInv => ExpiredIsReported
  <2> SUFFICES ASSUME WdInv, NEW w \in Watched, Has(tasks, w)
               PROVE  (alarmed[w] <=> w \in reported) /\ (alarmed[w] => elapsed(last[w], holdoff[w]))
    BY DEF ExpiredIsReported
  <2>1. PICK q : WatchList(q)
    BY DEF WdInv
  <2>2. w \in ToSet(q)
    BY <2>1, HasIs DEF WatchList, WatchdogAssumption
  <2> QED
    BY <2>1, <2>2 DEF WatchList, Polled
<1> QED
  BY <1>1, <1>2, <1>3, PTL DEF WdSpec

-----------------------------------------------------------------------------
(* The socket server.  The lists of the server share the links, and no     *)
(* client; that of XFactory has its client in common with them.            *)

SrvTypes ==
  /\ kind \in Kinds
  /\ where \in [Items -> {"none", "started", "post", "run", "xdel", "del", "gone"}]
  /\ links \in [Items -> Places] /\ xclients \in Places /\ cur \in Places
  /\ server \in {"accept", "push", "wait", "tidy", "join_clients", "join_ex", "done"}
  /\ freed \subseteq Items

\* A client is on the list of clients, or the server has it in hand, until its thread
\* ends; what is on the lists is in use, and what is on neither links nothing.
SrvLists(q, e) ==
  /\ IsList(ListOf(clients), q) /\ IsList(ListOf(ex_clients), e)
  /\ ToSet(q) \cap ToSet(e) = {}
  /\ \A c \in Items \ (ToSet(q) \cup ToSet(e)) : links[c] = Null
  /\ \A c \in ToSet(q) \cup ToSet(e) :
       where[c] # "none" /\ c \notin freed /\ (c = cur => server = "wait")
  /\ \A c \in ToSet(e) : where[c] = "gone"
  /\ \A c \in Items : where[c] \in {"none", "gone"} \/ c \in ToSet(q) \/ c = cur
  /\ server = "wait" => cur \in ToSet(q) \cup ToSet(e)

\* When none ends before it was linked
SrvTidied(q, e) ==
  EndsEarly
    \/ /\ \A c \in ToSet(q) : where[c] # "gone"
       /\ \A c \in Items : where[c] = "gone" => c \in ToSet(e) \/ c \in freed \/ c = cur
       /\ server = "push" => where[cur] \in {"started", "post", "run"}

SrvClients ==
  /\ \A c \in freed : where[c] = "gone" /\ c # cur
  /\ \A c \in logging : c \in Items /\ where[c] = "run"
  /\ server \in {"accept", "done"} => cur = Null
  /\ server \in {"push", "wait"} => cur # Null
  /\ cur # Null => where[cur] # "none"
  /\ Receiving = {xclients} \ {Null}
  /\ kind = "tx" => \A c, d \in Items : where[c] = "none" \/ where[d] = "none" \/ c = d
  /\ kind # "tx" => \A c \in Items : where[c] # "xdel"
  /\ sent.left = {}

SrvInv == SrvTypes /\ SrvClients /\ \E q, e : SrvLists(q, e) /\ SrvTidied(q, e)

\* Changing the links of others leaves a list as it is.
LEMMA KeptList ==
  ASSUME NEW h, NEW n, NEW m \in [Items -> Places], NEW q,
         IsList([head |-> h, next |-> n], q), \A x \in ToSet(q) : m[x] = n[x]
  PROVE  IsList([head |-> h, next |-> m], q)
<1>1. /\ q \in Seq(Items) /\ Distinct(q) /\ h = Link(q, 1)
      /\ \A i \in 1 .. Len(q) : n[q[i]] = Link(q, i + 1)
  BY DEF IsList
<1>2. \A i \in 1 .. Len(q) : m[q[i]] = Link(q, i + 1)
  BY <1>1, AtIn
<1> QED
  BY <1>1, <1>2 DEF IsList

LEMMA ListItems == ASSUME NEW l, NEW q, IsList(l, q) PROVE ToSet(q) \subseteq Items
<1>1. q \in Seq(Items) /\ Distinct(q)
  BY DEF IsList
<1> QED
  BY <1>1, SeqFacts

LEMMA LinkedIs ==
  ASSUME LinkedListAssumption, NEW h, NEW q, IsList(ListOf(h), q)
  PROVE  Linked(h) = ToSet(q)
  BY WalkIs DEF Linked, ToSet

\* A transmit server has one client, which is on every list alone.
LEMMA SoleLinks ==
  ASSUME SrvClients, kind = "tx", NEW q, NEW e, SrvLists(q, e)
  PROVE  \A c \in Items : links[c] = Null
<1>1. \A c, d \in Items : where[c] = "none" \/ where[d] = "none" \/ c = d
  BY DEF SrvClients
<1>2. ASSUME NEW r, NEW h, IsList(ListOf(h), r), \A d \in ToSet(r) : where[d] # "none",
             NEW c \in ToSet(r)
      PROVE  links[c] = Null
  <2>1. /\ r \in Seq(Items) /\ Distinct(r)
        /\ \A i \in 1 .. Len(r) : links[r[i]] = Link(r, i + 1)
    BY <1>2 DEF IsList, ListOf
  <2>2. /\ Len(r) \in Nat /\ \A i \in 1 .. Len(r) : r[i] \in Items /\ r[i] \in ToSet(r)
        /\ \A i, j \in 1 .. Len(r) : r[i] = r[j] => i = j
        /\ ToSet(r) = {r[i] : i \in 1 .. Len(r)}
    BY <2>1, SeqFacts
  <2>3. PICK i \in 1 .. Len(r) : r[i] = c
    BY <1>2, <2>2
  <2>4. i + 1 \notin 1 .. Len(r)
    BY <1>1, <1>2, <2>2, <2>3
  <2> QED
    BY <2>1, <2>2, <2>3, <2>4 DEF Link
<1> QED
  BY <1>2 DEF SrvLists

LEMMA XLinked ==
  ASSUME LinkedListAssumption, SrvTypes, SrvClients, NEW q, NEW e, SrvLists(q, e)
  PROVE  Linked(xclients) = Receiving
<1>1. xclients \in Places /\ links \in [Items -> Places] /\ Receiving = {xclients} \ {Null}
  BY DEF SrvTypes, SrvClients
<1>2. CASE xclients = Null
  <2>1. IsList(ListOf(xclients), <<>>) /\ ToSet(<<>>) = {}
    BY <1>1, <1>2, EmptyIs DEF IsList, ListOf, Link
  <2> QED
    BY <1>1, <1>2, <2>1, LinkedIs
<1>3. CASE xclients # Null
  <2>1. xclients \in Items /\ xclients \in Receiving
    BY <1>1, <1>3 DEF Places
  <2>2. links[xclients] = Null
    BY <2>1, SoleLinks DEF Receiving
  <2>3. /\ <<xclients>> \in Seq(Items) /\ Len(<<xclients>>) = 1 /\ DOMAIN <<xclients>> = 1 .. 1
        /\ <<xclients>>[1] = xclients
    BY <2>1
  <2>4. Distinct(<<xclients>>) /\ ToSet(<<xclients>>) = {xclients}
    BY <2>3 DEF Distinct, ToSet
  <2>5. IsList(ListOf(xclients), <<xclients>>)
    BY <1>1, <2>2, <2>3, <2>4 DEF IsList, ListOf, Link
  <2> QED
    BY <1>1, <1>3, <2>4, <2>5, LinkedIs
<1> QED
  BY <1>2, <1>3

LEMMA SrvStart == ASSUME SocketServerAssumption PROVE ServerInit => SrvInv
<1> SUFFICES ASSUME ServerInit PROVE SrvInv
  OBVIOUS
<1>0. LinkedListAssumption /\ Kinds \subseteq {"echo", "cli", "tx"}
  BY DEF SocketServerAssumption
<1>1. SrvTypes
  BY <1>0 DEF ServerInit, SrvTypes, Empty, Places, Clients
<1>2. SrvClients
  BY <1>0 DEF ServerInit, SrvClients, Receiving, Clients
<1>3. IsList(ListOf(Null), <<>>) /\ ToSet(<<>>) = {}
  BY <1>0, EmptyIs DEF ServerInit, ListOf, Empty
<1>4. SrvLists(<<>>, <<>>) /\ SrvTidied(<<>>, <<>>)
  BY <1>0, <1>3 DEF ServerInit, SrvLists, SrvTidied, Empty, Clients
<1> QED
  BY <1>1, <1>2, <1>4 DEF SrvInv

-----------------------------------------------------------------------------
(* The clients                                                             *)

\* A client that goes on, without its end, changes none of the server's lists.
LEMMA GoesOn ==
  ASSUME SrvTypes, NEW q, NEW e, SrvLists(q, e), SrvTidied(q, e),
         NEW c \in Items, where[c] \notin {"none", "gone"}, NEW label, label \notin {"none", "gone"},
         ClientGoto(c, label),
         EndsEarly \/ server # "push" \/ cur # c \/ label \in {"started", "post", "run"},
         UNCHANGED <<clients, ex_clients, links, freed, server, cur>>
  PROVE  SrvLists(q, e)' /\ SrvTidied(q, e)'
<1>1. /\ where'[c] = label
      /\ \A d \in Items \ {c} : where'[d] = where[d]
  BY DEF ClientGoto, SrvTypes
<1>2. SrvLists(q, e)'
  <2>1. ToSet(q) \subseteq Items /\ ToSet(e) \subseteq Items
    BY SeqFacts DEF SrvLists, IsList
  <2> QED
    BY <1>1, <2>1 DEF SrvLists, ListOf
<1>3. SrvTidied(q, e)'
  <2>1. ToSet(q) \subseteq Items
    BY SeqFacts DEF SrvLists, IsList
  <2>2. cur \in Items \cup {Null} /\ cur' = cur /\ server' = server /\ freed' = freed
    BY DEF SrvTypes, Places
  <2> QED
    BY <1>1, <2>1, <2>2 DEF SrvTidied, SrvTypes, ClientGoto
<1> QED
  BY <1>2, <1>3

\* A step of a client that started
LEMMA GoesOnRest ==
  ASSUME SrvTypes, SrvClients, NEW c \in Items, where[c] \notin {"none", "gone"},
         NEW label \in {"post", "run", "xdel", "del", "gone"}, label = "xdel" => kind = "tx",
         ClientGoto(c, label), UNCHANGED <<kind, sent, server, cur, freed>>,
         links' \in [Items -> Places], xclients' \in Places, Receiving' = {xclients'} \ {Null},
         \A d \in logging' : d \in logging /\ d # c
  PROVE  SrvTypes' /\ SrvClients'
<1>1. /\ where'[c] = label /\ \A d \in Items \ {c} : where'[d] = where[d]
      /\ where' \in [Items -> {"none", "started", "post", "run", "xdel", "del", "gone"}]
  BY DEF ClientGoto, SrvTypes
<1>2. SrvTypes'
  BY <1>1 DEF SrvTypes
<1>3. \A d \in freed' : where'[d] = "gone" /\ d # cur'
  BY <1>1 DEF SrvClients, SrvTypes
<1>4. \A d \in logging' : d \in Items /\ where'[d] = "run"
  BY <1>1 DEF SrvClients, SrvTypes
<1>5. /\ server' \in {"accept", "done"} => cur' = Null
      /\ server' \in {"push", "wait"} => cur' # Null
      /\ cur' # Null => where'[cur'] # "none"
  BY <1>1 DEF SrvClients, SrvTypes, Places
<1>6. kind' = "tx" => \A d, f \in Items : where'[d] = "none" \/ where'[f] = "none" \/ d = f
  BY <1>1 DEF SrvClients, SrvTypes
<1>7. kind' # "tx" => \A d \in Items : where'[d] # "xdel"
  BY <1>1 DEF SrvClients, SrvTypes
<1> QED
  BY <1>2, <1>3, <1>4, <1>5, <1>6, <1>7 DEF SrvClients

LEMMA AddClientKeeps ==
  ASSUME SocketServerAssumption, SrvInv, NEW c \in Items, AddClient(c) PROVE SrvInv'
<1>0. LinkedListAssumption
  BY DEF SocketServerAssumption
<1>1. PICK q, e : SrvLists(q, e) /\ SrvTidied(q, e)
  BY DEF SrvInv
<1>2. /\ where[c] = "started" /\ ClientGoto(c, "post")
      /\ UNCHANGED <<clients, ex_clients, sock, logging, kind, sent, killed, server, cur, freed>>
      /\ kind # "tx" => UNCHANGED <<xclients, links>>
      /\ kind = "tx" => /\ xclients' = ListPush(ListOf(xclients), c).head
                        /\ links' = ListPush(ListOf(xclients), c).next
  BY DEF AddClient, ClientFrame, serverVars
<1>3. /\ where'[c] = "post" /\ \A d \in Items \ {c} : where'[d] = where[d]
      /\ where' \in [Items -> {"none", "started", "post", "run", "xdel", "del", "gone"}]
  BY <1>2 DEF ClientGoto, SrvInv, SrvTypes
<1>4. CASE kind # "tx"
  <2>1. Receiving = {} /\ Receiving' = {}
    BY <1>2, <1>4 DEF Receiving
  <2>2. SrvTypes' /\ SrvClients'
    <3>1. Receiving' = {xclients'} \ {Null} /\ xclients' \in Places
      BY <1>2, <1>4, <2>1 DEF SrvInv, SrvClients, SrvTypes
    <3>2. \A d \in logging' : d \in logging /\ d # c
      BY <1>2 DEF SrvInv, SrvClients
    <3> QED
      BY <1>2, <1>4, <3>1, <3>2, GoesOnRest DEF SrvInv, SrvTypes
  <2>3. SrvLists(q, e)' /\ SrvTidied(q, e)'
    BY <1>1, <1>2, <1>4, GoesOn DEF SrvInv
  <2> QED
    BY <2>2, <2>3 DEF SrvInv
<1>5. CASE kind = "tx"
  <2>1. /\ \A d \in Items : links[d] = Null
        /\ links \in [Items -> Places]
    BY <1>1, <1>5, SoleLinks DEF SrvInv, SrvTypes
  <2>2. \A d \in Items : where[d] = "none" \/ d = c
    BY <1>2, <1>5 DEF SrvInv, SrvClients
  <2>3. Receiving = {} /\ xclients = Null
    <3>1. Receiving = {}
      BY <1>2, <2>2 DEF Receiving, Clients
    <3> QED
      BY <3>1 DEF SrvInv, SrvClients
  <2>4. xclients' = c /\ links' = [links EXCEPT ![c] = Null]
    <3>1. ListOf(xclients) = [head |-> Null, next |-> links]
      BY <2>3 DEF ListOf
    <3>2. ListPush(ListOf(xclients), c) = [head |-> c, next |-> [links EXCEPT ![c] = Null]]
      <4> DEFINE l == [head |-> Null, next |-> links]
                 m == [head |-> Null, next |-> [links EXCEPT ![c] = Null]]
      <4>1. [l EXCEPT !.next[c] = At(l, Null)] = m
        BY <2>1, StoreFacts DEF At
      <4>2. Store(m, Null, c) = [head |-> c, next |-> [links EXCEPT ![c] = Null]]
        BY DEF Store
      <4>3. ListPush(l, c) = Store([l EXCEPT !.next[c] = At(l, Null)], Null, c)
        BY DEF ListPush, Inserted, Places
      <4> QED
        BY <3>1, <4>1, <4>2, <4>3
    <3> QED
      BY <1>2, <1>5, <3>2
  <2>5. links' = links
    BY <2>1, <2>4
  <2>6. Receiving' = {c} /\ c # Null
    BY <1>0, <1>2, <1>3, <1>5, <2>2 DEF Receiving, Clients, LinkedListAssumption
  <2>7. SrvTypes' /\ SrvClients'
    <3>1. Receiving' = {xclients'} \ {Null} /\ xclients' \in Places
      BY <2>4, <2>6 DEF Places
    <3>2. \A d \in logging' : d \in logging /\ d # c
      BY <1>2 DEF SrvInv, SrvClients
    <3> QED
      BY <1>2, <2>5, <3>1, <3>2, GoesOnRest DEF SrvInv, SrvTypes
  <2>8. SrvLists(q, e)' /\ SrvTidied(q, e)'
    BY <1>1, <1>2, <2>5, GoesOn DEF SrvInv
  <2> QED
    BY <2>7, <2>8 DEF SrvInv
<1> QED
  BY <1>4, <1>5

LEMMA PostKeeps ==
  ASSUME SocketServerAssumption, SrvInv, NEW c \in Items, PostStarted(c) PROVE SrvInv'
<1>1. PICK q, e : SrvLists(q, e) /\ SrvTidied(q, e)
  BY DEF SrvInv
<1>2. /\ where[c] = "post" /\ ClientGoto(c, "run")
      /\ UNCHANGED <<clients, ex_clients, xclients, links, logging, kind, sent, server, cur, freed>>
  BY DEF PostStarted, ClientFrame, serverVars, listVars
<1>3. /\ where'[c] = "run" /\ \A d \in Items \ {c} : where'[d] = where[d]
      /\ where' \in [Items -> {"none", "started", "post", "run", "xdel", "del", "gone"}]
  BY <1>2 DEF ClientGoto, SrvInv, SrvTypes
<1>4. Receiving' = Receiving
  <2>1. \A d \in Items : where'[d] \in {"post", "run", "xdel"} <=> where[d] \in {"post", "run", "xdel"}
    BY <1>2, <1>3
  <2> QED
    BY <1>2, <2>1 DEF Receiving, Clients
<1>5. SrvTypes' /\ SrvClients'
  <2>1. Receiving' = {xclients'} \ {Null} /\ xclients' \in Places
    BY <1>2, <1>4 DEF SrvInv, SrvClients, SrvTypes
  <2>2. \A d \in logging' : d \in logging /\ d # c
    BY <1>2 DEF SrvInv, SrvClients
  <2> QED
    BY <1>2, <2>1, <2>2, GoesOnRest DEF SrvInv, SrvTypes
<1>6. SrvLists(q, e)' /\ SrvTidied(q, e)'
  BY <1>1, <1>2, GoesOn DEF SrvInv
<1> QED
  BY <1>5, <1>6 DEF SrvInv

LEMMA EndRunKeeps ==
  ASSUME SocketServerAssumption, SrvInv, NEW c \in Items, EndRun(c) PROVE SrvInv'
<1>1. PICK q, e : SrvLists(q, e) /\ SrvTidied(q, e)
  BY DEF SrvInv
<1>2. PICK label : /\ label = (IF kind = "tx" THEN "xdel" ELSE "del") /\ ClientGoto(c, label)
                   /\ where[c] = "run" /\ (EndsEarly \/ server # "push" \/ cur # c)
                   /\ logging' = logging \ {c}
                   /\ UNCHANGED <<clients, ex_clients, xclients, links, kind, sent, server, cur, freed>>
  BY DEF EndRun, ClientFrame, serverVars, listVars
<1>3. /\ where'[c] = label /\ \A d \in Items \ {c} : where'[d] = where[d]
      /\ where' \in [Items -> {"none", "started", "post", "run", "xdel", "del", "gone"}]
  BY <1>2 DEF ClientGoto, SrvInv, SrvTypes
<1>4. Receiving' = Receiving
  <2>1. kind = "tx" => \A d \in Items :
          where'[d] \in {"post", "run", "xdel"} <=> where[d] \in {"post", "run", "xdel"}
    BY <1>2, <1>3
  <2> QED
    BY <1>2, <2>1 DEF Receiving, Clients
<1>5. SrvTypes' /\ SrvClients'
  <2>1. Receiving' = {xclients'} \ {Null} /\ xclients' \in Places
    BY <1>2, <1>4 DEF SrvInv, SrvClients, SrvTypes
  <2>2. \A d \in logging' : d \in logging /\ d # c
    BY <1>2 DEF SrvInv, SrvClients
  <2> QED
    BY <1>2, <2>1, <2>2, GoesOnRest DEF SrvInv, SrvTypes
<1>6. SrvLists(q, e)' /\ SrvTidied(q, e)'
  BY <1>1, <1>2, GoesOn DEF SrvInv
<1> QED
  BY <1>5, <1>6 DEF SrvInv

\* What changes no list, no thread and nothing the server does
LEMMA RestKeeps ==
  ASSUME SocketServerAssumption, SrvInv,
         (\E c \in Items : Log(c) \/ PeerCloses(c)) \/ Transmit \/ UNCHANGED srvVars
  PROVE  SrvInv'
<1>1. PICK q, e : SrvLists(q, e) /\ SrvTidied(q, e)
  BY DEF SrvInv
<1>2. UNCHANGED <<clients, ex_clients, xclients, links, where, kind, server, cur, freed>>
  BY DEF Log, PeerCloses, Transmit, srvVars, ClientFrame, serverVars, listVars
<1>3. \A c \in logging' : c \in Items /\ where[c] = "run"
  BY DEF Log, PeerCloses, Transmit, srvVars, SrvInv, SrvClients
<1>4. sent'.left = {}
  <2>1. CASE sent' = sent
    BY <2>1 DEF SrvInv, SrvClients
  <2>2. CASE Transmit
    <3>1. Linked(xclients) = Receiving
      BY <1>1, XLinked DEF SocketServerAssumption, SrvInv
    <3> QED
      BY <2>2, <3>1 DEF Transmit
  <2> QED
    BY <2>1, <2>2 DEF Log, PeerCloses, srvVars, ClientFrame
<1>5. Receiving' = Receiving
  BY <1>2 DEF Receiving
<1>6. SrvTypes' /\ SrvClients'
  BY <1>2, <1>3, <1>4, <1>5 DEF SrvInv, SrvTypes, SrvClients
<1>7. SrvLists(q, e)' /\ SrvTidied(q, e)'
  BY <1>1, <1>2 DEF SrvLists, SrvTidied, ListOf
<1> QED
  BY <1>6, <1>7 DEF SrvInv

LEMMA XDelKeeps ==
  ASSUME SocketServerAssumption, SrvInv, NEW c \in Items, XDelClient(c) PROVE SrvInv'
<1>0. LinkedListAssumption
  BY DEF SocketServerAssumption
<1>1. PICK q, e : SrvLists(q, e) /\ SrvTidied(q, e)
  BY DEF SrvInv
<1>2. /\ where[c] = "xdel" /\ ClientGoto(c, "del")
      /\ UNCHANGED <<clients, ex_clients, logging, kind, sent, server, cur, freed>>
      /\ xclients' = ListRemove(ListOf(xclients), c).head
      /\ links' = ListRemove(ListOf(xclients), c).next
  BY DEF XDelClient, ClientFrame, serverVars
<1>3. /\ where'[c] = "del" /\ \A d \in Items \ {c} : where'[d] = where[d]
      /\ where' \in [Items -> {"none", "started", "post", "run", "xdel", "del", "gone"}]
  BY <1>2 DEF ClientGoto, SrvInv, SrvTypes
<1>4. kind = "tx" /\ \A d \in Items : links[d] = Null /\ (where[d] = "none" \/ d = c)
  <2>1. kind = "tx"
    BY <1>2 DEF SrvInv, SrvClients
  <2> QED
    BY <1>1, <1>2, <2>1, SoleLinks DEF SrvInv, SrvClients
<1>5. xclients = c /\ links \in [Items -> Places] /\ c # Null
  <2>1. c \in Receiving
    BY <1>2, <1>4 DEF Receiving, Clients
  <2> QED
    BY <2>1 DEF SrvInv, SrvClients, SrvTypes
<1>6. IsList(ListOf(xclients), <<c>>) /\ ToSet(<<c>>) = {c} /\ Len(<<c>>) = 1
  <2>1. /\ <<c>> \in Seq(Items) /\ Len(<<c>>) = 1 /\ DOMAIN <<c>> = 1 .. 1 /\ <<c>>[1] = c
    OBVIOUS
  <2>2. Distinct(<<c>>) /\ ToSet(<<c>>) = {c}
    BY <2>1 DEF Distinct, ToSet
  <2> QED
    BY <1>4, <1>5, <2>1, <2>2 DEF IsList, ListOf, Link
<1>7. PICK r : /\ IsList(ListRemove(ListOf(xclients), c), r) /\ ToSet(r) = {}
               /\ \A d \in Items \ {c} : links'[d] = links[d]
               /\ links'[c] = Null
  <2>1. /\ \E i \in 1 .. Len(<<c>>) : /\ IsList(ListRemove(ListOf(xclients), c), RemoveAt(<<c>>, i))
                                      /\ ToSet(RemoveAt(<<c>>, i)) = ToSet(<<c>>) \ {c}
        /\ KeepsOthers(ListOf(xclients), ListRemove(ListOf(xclients), c), ToSet(<<c>>))
        /\ ListRemove(ListOf(xclients), c).next[c] = Null
    BY <1>0, <1>6, RemoveIs
  <2>2. PICK i : /\ IsList(ListRemove(ListOf(xclients), c), RemoveAt(<<c>>, i))
                 /\ ToSet(RemoveAt(<<c>>, i)) = ToSet(<<c>>) \ {c}
    BY <2>1
  <2>3. ListOf(xclients).next = links
    BY DEF ListOf
  <2> QED
    BY <1>2, <1>6, <2>1, <2>2, <2>3 DEF KeepsOthers
<1>8. xclients' = Null /\ links' = links
  <2>1. /\ r \in Seq(Items) /\ xclients' = Link(r, 1) /\ links' \in [Items -> Places]
        /\ Len(r) \in Nat /\ \A i \in 1 .. Len(r) : r[i] \in ToSet(r)
    BY <1>2, <1>7, AtIn, LenProperties DEF IsList
  <2>2. Len(r) = 0
    BY <1>7, <2>1
  <2> QED
    BY <1>4, <1>5, <1>7, <2>1, <2>2 DEF Link
<1>9. Receiving' = {}
  BY <1>2, <1>3, <1>4 DEF Receiving, Clients
<1>10. SrvTypes' /\ SrvClients'
  <2>1. Receiving' = {xclients'} \ {Null} /\ xclients' \in Places
    BY <1>8, <1>9 DEF Places
  <2>2. \A d \in logging' : d \in logging /\ d # c
    BY <1>2 DEF SrvInv, SrvClients
  <2> QED
    BY <1>2, <1>8, <2>1, <2>2, GoesOnRest DEF SrvInv, SrvTypes
<1>11. SrvLists(q, e)' /\ SrvTidied(q, e)'
  <2>1. EndsEarly \/ server # "push" \/ cur # c
    BY <1>1, <1>2 DEF SrvTidied
  <2> QED
    BY <1>1, <1>2, <1>8, <2>1, GoesOn DEF SrvInv
<1> QED
  BY <1>10, <1>11 DEF SrvInv

LEMMA DelClientKeeps ==
  ASSUME SocketServerAssumption, SrvInv, NEW c \in Items, DelClient(c) PROVE SrvInv'
<1>0. LinkedListAssumption
  BY DEF SocketServerAssumption
<1>1. PICK q, e : SrvLists(q, e) /\ SrvTidied(q, e)
  BY DEF SrvInv
<1> DEFINE l == ListRemove(ListOf(clients), c)
           x == ListPush([head |-> ex_clients, next |-> l.next], c)
<1>2. /\ where[c] = "del" /\ ClientGoto(c, "gone")
      /\ UNCHANGED <<xclients, logging, kind, sent, server, cur, freed>>
      /\ Has(ListOf(clients), c) => clients' = l.head /\ ex_clients' = x.head /\ links' = x.next
      /\ ~Has(ListOf(clients), c) => UNCHANGED <<clients, ex_clients, links>>
  BY DEF DelClient, ClientFrame, serverVars
<1>3. where'[c] = "gone" /\ \A d \in Items \ {c} : where'[d] = where[d]
  BY <1>2 DEF ClientGoto, SrvInv, SrvTypes
<1>4. IsList(ListOf(clients), q) /\ IsList(ListOf(ex_clients), e) /\ links \in [Items -> Places]
      /\ ToSet(q) \subseteq Items /\ ToSet(e) \subseteq Items
  <2>1. IsList(ListOf(clients), q) /\ IsList(ListOf(ex_clients), e)
    BY <1>1 DEF SrvLists
  <2> QED
    BY <2>1, ListItems DEF SrvInv, SrvTypes
<1>5. c \notin ToSet(e) /\ (c \in ToSet(q) \/ c = cur)
  BY <1>1, <1>2 DEF SrvLists
<1>6. EndsEarly \/ server # "push" \/ cur # c
  BY <1>1, <1>2 DEF SrvTidied
<1> HIDE DEF l, x
<1>7. CASE c \notin ToSet(q)
  <2>1. UNCHANGED <<clients, ex_clients, links>>
    BY <1>0, <1>2, <1>4, <1>7, HasIs
  <2>2. SrvLists(q, e)'
    BY <1>1, <1>2, <1>3, <1>4, <1>5, <1>7, <2>1 DEF SrvLists, ListOf
  <2>3. SrvTidied(q, e)'
    <3>1. SUFFICES ASSUME ~EndsEarly PROVE SrvTidied(q, e)'
      BY DEF SrvTidied
    <3>2. \A d \in ToSet(q) : where'[d] # "gone"
      BY <1>1, <1>3, <1>4, <1>7, <3>1 DEF SrvTidied
    <3>3. \A d \in Items : where'[d] = "gone" => d \in ToSet(e) \/ d \in freed' \/ d = cur'
      BY <1>1, <1>2, <1>3, <1>5, <1>7, <3>1 DEF SrvTidied
    <3>4. server' = "push" => where'[cur'] \in {"started", "post", "run"}
      BY <1>1, <1>2, <1>3, <1>5, <1>6, <1>7, <3>1
    <3> QED
      BY <3>2, <3>3, <3>4 DEF SrvTidied
  <2>4. Receiving' = Receiving
    <3>1. where'[c] \notin {"post", "run", "xdel"} /\ where[c] \notin {"post", "run", "xdel"}
      BY <1>2, <1>3
    <3>2. kind = "tx" => \A d \in Items :
            where'[d] \in {"post", "run", "xdel"} <=> where[d] \in {"post", "run", "xdel"}
      BY <1>3, <3>1
    <3> QED
      BY <1>2, <3>2 DEF Receiving, Clients
  <2>5. SrvTypes' /\ SrvClients'
    <3>1. Receiving' = {xclients'} \ {Null} /\ xclients' \in Places
      BY <1>2, <2>4 DEF SrvInv, SrvClients, SrvTypes
    <3>2. \A d \in logging' : d \in logging /\ d # c
      BY <1>2 DEF SrvInv, SrvClients
    <3> QED
      BY <1>2, <2>1, <3>1, <3>2, GoesOnRest DEF SrvInv, SrvTypes
  <2> QED
    BY <2>2, <2>3, <2>5 DEF SrvInv
<1>8. CASE c \in ToSet(q)
  <2>1. clients' = l.head /\ ex_clients' = x.head /\ links' = x.next
    BY <1>0, <1>2, <1>4, <1>8, HasIs
  <2>2. PICK q2 : /\ IsList(l, q2) /\ ToSet(q2) = ToSet(q) \ {c} /\ l.next[c] = Null
                  /\ \A d \in Items \ ToSet(q) : l.next[d] = links[d]
    BY <1>0, <1>4, <1>8, RemoveIs DEF l, KeepsOthers, ListOf
  <2>3. IsList([head |-> ex_clients, next |-> l.next], e)
    <3>1. l.next \in [Items -> Places] /\ \A d \in ToSet(e) : l.next[d] = links[d]
      BY <1>1, <1>4, <2>2 DEF IsList, SrvLists
    <3>2. IsList([head |-> ex_clients, next |-> links], e)
      BY <1>4 DEF ListOf
    <3> QED
      BY <3>1, <3>2, KeptList
  <2>4. PICK e2 : /\ IsList(x, e2) /\ ToSet(e2) = ToSet(e) \cup {c}
                  /\ \A d \in Items \ (ToSet(e) \cup {c}) : x.next[d] = l.next[d]
    BY <1>0, <1>5, <2>3, PushIs DEF x, KeepsOthers
  <2>5. IsList(ListOf(clients)', q2)
    <3>1. x.next \in [Items -> Places] /\ \A d \in ToSet(q2) : x.next[d] = l.next[d]
      BY <1>1, <1>4, <2>2, <2>4 DEF IsList, SrvLists
    <3>2. IsList([head |-> l.head, next |-> l.next], q2)
      BY <2>2 DEF IsList
    <3> QED
      BY <2>1, <3>1, <3>2, KeptList DEF ListOf
  <2>6. IsList(ListOf(ex_clients)', e2)
    BY <2>1, <2>4 DEF IsList, ListOf
  <2>7. \A d \in Items \ (ToSet(q2) \cup ToSet(e2)) : links'[d] = Null
    BY <1>1, <1>4, <1>8, <2>1, <2>2, <2>4 DEF SrvLists
  <2>8. SrvLists(q2, e2)'
    <3>1. \A d \in ToSet(q2) \cup ToSet(e2) :
            where'[d] # "none" /\ d \notin freed' /\ (d = cur' => server' = "wait")
      BY <1>1, <1>2, <1>3, <1>4, <1>8, <2>2, <2>4 DEF SrvLists
    <3>2. \A d \in ToSet(e2) : where'[d] = "gone"
      BY <1>1, <1>3, <1>4, <2>4 DEF SrvLists
    <3>3. \A d \in Items : where'[d] \in {"none", "gone"} \/ d \in ToSet(q2) \/ d = cur'
      BY <1>1, <1>2, <1>3, <2>2 DEF SrvLists
    <3>4. server' = "wait" => cur' \in ToSet(q2) \cup ToSet(e2)
      BY <1>1, <1>2, <2>2, <2>4 DEF SrvLists
    <3>5. ToSet(q2) \cap ToSet(e2) = {}
      BY <1>1, <2>2, <2>4 DEF SrvLists
    <3> QED
      BY <2>5, <2>6, <2>7, <3>1, <3>2, <3>3, <3>4, <3>5 DEF SrvLists
  <2>9. SrvTidied(q2, e2)'
    <3>1. SUFFICES ASSUME ~EndsEarly PROVE SrvTidied(q2, e2)'
      BY DEF SrvTidied
    <3>2. \A d \in ToSet(q2) : where'[d] # "gone"
      BY <1>1, <1>3, <1>4, <2>2, <3>1 DEF SrvTidied
    <3>3. \A d \in Items : where'[d] = "gone" => d \in ToSet(e2) \/ d \in freed' \/ d = cur'
      BY <1>1, <1>2, <1>3, <2>4, <3>1 DEF SrvTidied
    <3>4. server' = "push" => where'[cur'] \in {"started", "post", "run"}
      <4>1. server = "push" => cur \in Items
        BY DEF SrvInv, SrvClients, SrvTypes, Places
      <4> QED
        BY <1>1, <1>2, <1>3, <1>6, <3>1, <4>1 DEF SrvTidied
    <3> QED
      BY <3>2, <3>3, <3>4 DEF SrvTidied
  <2>10. links' \in [Items -> Places]
    BY <2>1, <2>4 DEF IsList
  <2>11. SrvTypes' /\ SrvClients'
    <3>1. Receiving' = Receiving
      <4>1. kind = "tx" => \A d \in Items :
              where'[d] \in {"post", "run", "xdel"} <=> where[d] \in {"post", "run", "xdel"}
        BY <1>2, <1>3
      <4> QED
        BY <1>2, <4>1 DEF Receiving, Clients
    <3>2. Receiving' = {xclients'} \ {Null} /\ xclients' \in Places
      BY <1>2, <3>1 DEF SrvInv, SrvClients, SrvTypes
    <3>3. \A d \in logging' : d \in logging /\ d # c
      BY <1>2 DEF SrvInv, SrvClients
    <3> QED
      BY <1>2, <2>10, <3>2, <3>3, GoesOnRest DEF SrvInv
  <2> QED
    BY <2>8, <2>9, <2>11 DEF SrvInv
<1> QED
  BY <1>7, <1>8

-----------------------------------------------------------------------------
(* The server                                                              *)

LEMMA PushKeeps == ASSUME SocketServerAssumption, SrvInv, PushClient PROVE SrvInv'
<1>0. LinkedListAssumption
  BY DEF SocketServerAssumption
<1>1. PICK q, e : SrvLists(q, e) /\ SrvTidied(q, e)
  BY DEF SrvInv
<1> DEFINE l == ListPush(ListOf(clients), cur)
<1>2. /\ server = "push" /\ server' = "wait" /\ clients' = l.head /\ links' = l.next
      /\ UNCHANGED <<ex_clients, where, cur, freed, kind, xclients, logging, sent>>
  BY DEF PushClient, ServerFrame
<1>3. cur \in Items /\ cur \notin ToSet(q) \cup ToSet(e) /\ cur \notin freed /\ where[cur] # "none"
  BY <1>1, <1>2 DEF SrvInv, SrvTypes, SrvClients, SrvLists, Places
<1>4. IsList(ListOf(clients), q) /\ IsList(ListOf(ex_clients), e) /\ ListOf(clients).next = links
  BY <1>1 DEF SrvLists, ListOf
<1> HIDE DEF l
<1>5. PICK q2 : /\ IsList(l, q2) /\ ToSet(q2) = ToSet(q) \cup {cur}
                /\ \A d \in Items \ (ToSet(q) \cup {cur}) : l.next[d] = links[d]
  BY <1>0, <1>3, <1>4, PushIs DEF l, KeepsOthers
<1>6. links' \in [Items -> Places] /\ IsList(ListOf(clients)', q2)
  BY <1>2, <1>5 DEF IsList, ListOf
<1>7. IsList(ListOf(ex_clients)', e)
  <2>1. IsList([head |-> ex_clients, next |-> links], e)
    BY <1>4 DEF ListOf
  <2>2. \A d \in ToSet(e) : l.next[d] = links[d]
    BY <1>1, <1>3, <1>4, <1>5, ListItems DEF SrvLists
  <2> QED
    BY <1>2, <1>6, <2>1, <2>2, KeptList DEF ListOf
<1>8. SrvLists(q2, e)'
  <2>1. ToSet(q2) \cap ToSet(e) = {} /\ cur' \in ToSet(q2) \cup ToSet(e)
    BY <1>1, <1>2, <1>3, <1>5 DEF SrvLists
  <2>2. \A d \in Items \ (ToSet(q2) \cup ToSet(e)) : links'[d] = Null
    BY <1>1, <1>2, <1>5 DEF SrvLists
  <2>3. \A d \in ToSet(q2) \cup ToSet(e) : where'[d] # "none" /\ d \notin freed'
    BY <1>1, <1>2, <1>3, <1>5 DEF SrvLists
  <2>4. /\ \A d \in ToSet(e) : where'[d] = "gone"
        /\ \A d \in Items : where'[d] \in {"none", "gone"} \/ d \in ToSet(q2) \/ d = cur'
    BY <1>1, <1>2, <1>5 DEF SrvLists
  <2> QED
    BY <1>2, <1>6, <1>7, <2>1, <2>2, <2>3, <2>4 DEF SrvLists
<1>9. SrvTidied(q2, e)'
  <2>1. SUFFICES ASSUME ~EndsEarly PROVE SrvTidied(q2, e)'
    BY DEF SrvTidied
  <2> QED
    BY <1>1, <1>2, <1>5, <2>1 DEF SrvTidied
<1>10. Receiving' = Receiving
  BY <1>2 DEF Receiving
<1>11. SrvTypes' /\ SrvClients'
  BY <1>2, <1>3, <1>6, <1>10 DEF SrvInv, SrvTypes, SrvClients
<1> QED
  BY <1>8, <1>9, <1>11 DEF SrvInv

LEMMA WaitKeeps == ASSUME SocketServerAssumption, SrvInv, WaitStarted PROVE SrvInv'
<1>1. PICK q, e : SrvLists(q, e) /\ SrvTidied(q, e)
  BY DEF SrvInv
<1>2. /\ server = "wait" /\ server' = "tidy" /\ cur' = Null
      /\ UNCHANGED <<clients, ex_clients, links, where, freed, kind, xclients, logging, sent>>
  BY DEF WaitStarted, ServerFrame
<1>3. Null \notin Items /\ ToSet(q) \subseteq Items /\ ToSet(e) \subseteq Items
  BY <1>1, ListItems DEF SrvLists, SocketServerAssumption, LinkedListAssumption
<1>4. SrvLists(q, e)'
  BY <1>1, <1>2, <1>3 DEF SrvLists, ListOf
<1>5. SrvTidied(q, e)'
  BY <1>1, <1>2 DEF SrvTidied, SrvLists
<1>6. Receiving' = Receiving
  BY <1>2 DEF Receiving
<1>7. SrvTypes' /\ SrvClients'
  BY <1>2, <1>3, <1>6 DEF SrvInv, SrvTypes, SrvClients, Places
<1> QED
  BY <1>4, <1>5, <1>7 DEF SrvInv

LEMMA AcceptFailsKeeps == ASSUME SocketServerAssumption, SrvInv, AcceptFails PROVE SrvInv'
<1>1. PICK q, e : SrvLists(q, e) /\ SrvTidied(q, e)
  BY DEF SrvInv
<1>2. /\ server = "accept" /\ server' = "join_clients"
      /\ UNCHANGED <<clients, ex_clients, links, where, freed, cur, kind, xclients, logging, sent>>
  BY DEF AcceptFails, ServerFrame
<1>3. Null \notin Items /\ ToSet(q) \subseteq Items /\ ToSet(e) \subseteq Items /\ cur = Null
  BY <1>1, <1>2, ListItems
    DEF SrvLists, SocketServerAssumption, LinkedListAssumption, SrvInv, SrvClients
<1>4. SrvLists(q, e)' /\ SrvTidied(q, e)'
  BY <1>1, <1>2, <1>3 DEF SrvLists, ListOf, SrvTidied
<1>5. Receiving' = Receiving
  BY <1>2 DEF Receiving
<1>6. SrvTypes' /\ SrvClients'
  BY <1>2, <1>3, <1>5 DEF SrvInv, SrvTypes, SrvClients
<1> QED
  BY <1>4, <1>6 DEF SrvInv

LEMMA DeleteKeeps == ASSUME SocketServerAssumption, SrvInv, DeleteClient PROVE SrvInv'
<1>1. PICK q, e : SrvLists(q, e) /\ SrvTidied(q, e)
  BY DEF SrvInv
<1>2. /\ server \in {"tidy", "join_clients", "join_ex"} /\ cur # Null /\ where[cur] = "gone"
      /\ freed' = freed \cup {cur} /\ cur' = Null
      /\ UNCHANGED <<clients, ex_clients, links, where, server, kind, xclients, logging, sent>>
  BY DEF DeleteClient, ServerFrame
<1>3. Null \notin Items /\ ToSet(q) \subseteq Items /\ ToSet(e) \subseteq Items /\ cur \in Items
      /\ cur \notin ToSet(q) \cup ToSet(e)
  BY <1>1, <1>2, ListItems
    DEF SrvLists, SocketServerAssumption, LinkedListAssumption, SrvInv, SrvTypes, Places
<1>4. SrvLists(q, e)'
  BY <1>1, <1>2, <1>3 DEF SrvLists, ListOf
<1>5. SrvTidied(q, e)'
  BY <1>1, <1>2, <1>3 DEF SrvTidied
<1>6. Receiving' = Receiving
  BY <1>2 DEF Receiving
<1>7. SrvTypes' /\ SrvClients'
  <2>1. freed \subseteq Items
    BY DEF SrvInv, SrvTypes
  <2> QED
    BY <1>2, <1>3, <1>6, <2>1 DEF SrvInv, SrvTypes, SrvClients, Places
<1> QED
  BY <1>4, <1>5, <1>7 DEF SrvInv

LEMMA AcceptKeeps ==
  ASSUME SocketServerAssumption, "tx" \notin Kinds \/ TxClients <= 1, SrvInv, Accept PROVE SrvInv'
<1>0. LinkedListAssumption /\ TxClients \in Nat
  BY DEF SocketServerAssumption
<1>1. PICK q, e : SrvLists(q, e) /\ SrvTidied(q, e)
  BY DEF SrvInv
<1>2. PICK c \in Items :
        /\ where[c] = "none" /\ ClientGoto(c, "started") /\ cur' = c
        /\ server = "accept" /\ server' = "push" /\ (kind = "tx" => Made < TxClients)
        /\ UNCHANGED <<clients, ex_clients, links, freed, kind, xclients, logging, sent>>
  BY DEF Accept, New, Clients, ServerFrame
<1>3. /\ where'[c] = "started" /\ \A d \in Items \ {c} : where'[d] = where[d]
      /\ where' \in [Items -> {"none", "started", "post", "run", "xdel", "del", "gone"}]
  BY <1>2 DEF ClientGoto, SrvInv, SrvTypes
<1>4. /\ Null \notin Items /\ ToSet(q) \subseteq Items /\ ToSet(e) \subseteq Items /\ cur = Null
      /\ c \notin ToSet(q) \cup ToSet(e) /\ c \notin freed /\ c # Null
  BY <1>0, <1>1, <1>2, ListItems DEF SrvLists, LinkedListAssumption, SrvInv, SrvClients
<1>5. kind = "tx" => \A d \in Items : where[d] = "none"
  <2> SUFFICES ASSUME kind = "tx" PROVE \A d \in Items : where[d] = "none"
    OBVIOUS
  <2>1. TxClients <= 1
    BY DEF SrvInv, SrvTypes
  <2>2. IsFiniteSet(Items) /\ New \subseteq Items
    BY <1>0 DEF LinkedListAssumption, New, Clients
  <2>3. Cardinality(Items) \in Nat /\ Cardinality(New) \in Nat
    BY <2>2, FS_Subset, FS_CardinalityType
  <2>4. Cardinality(New) >= Cardinality(Items)
    BY <1>0, <1>2, <2>1, <2>3 DEF Made, Clients
  <2>5. New = Items
    BY <2>2, <2>3, <2>4, FS_Subset
  <2> QED
    BY <2>5 DEF New
<1>6. SrvLists(q, e)'
  BY <1>1, <1>2, <1>3, <1>4 DEF SrvLists, ListOf
<1>7. SrvTidied(q, e)'
  BY <1>1, <1>2, <1>3, <1>4 DEF SrvTidied
<1>8. Receiving' = Receiving
  <2>1. \A d \in Items : where'[d] \in {"post", "run", "xdel"} <=> where[d] \in {"post", "run", "xdel"}
    BY <1>2, <1>3
  <2> QED
    BY <1>2, <2>1 DEF Receiving, Clients
<1>9. SrvTypes'
  BY <1>2, <1>3 DEF SrvInv, SrvTypes, Places
<1>10. SrvClients'
  <2>1. \A d \in freed' : where'[d] = "gone" /\ d # cur'
    BY <1>2, <1>3, <1>4 DEF SrvInv, SrvTypes, SrvClients
  <2>2. \A d \in logging' : d \in Items /\ where'[d] = "run"
    BY <1>2, <1>3 DEF SrvInv, SrvClients
  <2>3. kind' = "tx" => \A d, f \in Items : where'[d] = "none" \/ where'[f] = "none" \/ d = f
    BY <1>2, <1>3, <1>5
  <2>4. kind' # "tx" => \A d \in Items : where'[d] # "xdel"
    BY <1>2, <1>3 DEF SrvInv, SrvClients
  <2>5. Receiving' = {xclients'} \ {Null} /\ sent'.left = {}
    BY <1>2, <1>8 DEF SrvInv, SrvClients
  <2> QED
    BY <1>2, <1>3, <1>4, <2>1, <2>2, <2>3, <2>4, <2>5 DEF SrvClients
<1> QED
  BY <1>6, <1>7, <1>9, <1>10 DEF SrvInv

\* Taking the first client off a list shortens that list, and leaves the other.
LEMMA TakenOff ==
  ASSUME LinkedListAssumption, links \in [Items -> Places],
         NEW h, NEW q, IsList(ListOf(h), q), h # Null,
         NEW g, NEW e, IsList(ListOf(g), e), ToSet(q) \cap ToSet(e) = {},
         NEW l, l = ListPop(ListOf(h))
  PROVE  /\ h \in ToSet(q) /\ l.next[h] = Null /\ l.next \in [Items -> Places]
         /\ \A d \in Items \ ToSet(q) : l.next[d] = links[d]
         /\ IsList([head |-> g, next |-> l.next], e)
         /\ \E r : /\ IsList([head |-> l.head, next |-> l.next], r)
                   /\ ToSet(r) = ToSet(q) \ {h}
<1>1. ListOf(h).head = h /\ ListOf(h).next = links /\ ListOf(g) = [head |-> g, next |-> links]
  BY DEF ListOf
<1>2. /\ h = q[1] /\ h \in ToSet(q)
      /\ IsList(l, RemoveAt(q, 1)) /\ ToSet(RemoveAt(q, 1)) = ToSet(q) \ {q[1]}
      /\ KeepsOthers(ListOf(h), l, ToSet(q)) /\ l.next[q[1]] = Null
  BY <1>1, PopIs
<1>3. l = [head |-> l.head, next |-> l.next] /\ l.next \in [Items -> Places]
  BY <1>2 DEF IsList
<1>4. \A d \in Items \ ToSet(q) : l.next[d] = links[d]
  BY <1>1, <1>2 DEF KeepsOthers
<1>5. IsList([head |-> g, next |-> l.next], e)
  <2>1. \A d \in ToSet(e) : l.next[d] = links[d]
    BY <1>4, ListItems
  <2> QED
    BY <1>1, <1>3, <2>1, KeptList
<1> QED
  BY <1>2, <1>3, <1>4, <1>5

LEMMA TidyKeeps == ASSUME SocketServerAssumption, SrvInv, Tidy PROVE SrvInv'
<1>0. LinkedListAssumption /\ Null \notin Items
  BY DEF SocketServerAssumption, LinkedListAssumption
<1>1. PICK q, e : SrvLists(q, e) /\ SrvTidied(q, e)
  BY DEF SrvInv
<1>2. PICK h, l :
        /\ h = (IF server = "join_clients" THEN clients ELSE ex_clients) /\ l = ListPop(ListOf(h))
        /\ server \in {"tidy", "join_clients", "join_ex"} /\ cur = Null
        /\ UNCHANGED <<where, freed, kind, xclients, logging, sent>>
        /\ h = Null => server' = AfterTidy /\ UNCHANGED <<clients, ex_clients, links, cur>>
        /\ h # Null => /\ cur' = h /\ links' = l.next /\ server' = server
                       /\ server = "join_clients" => clients' = l.head /\ ex_clients' = ex_clients
                       /\ server # "join_clients" => ex_clients' = l.head /\ clients' = clients
  BY DEF Tidy, ServerFrame
<1>3. /\ IsList(ListOf(clients), q) /\ IsList(ListOf(ex_clients), e) /\ ToSet(q) \cap ToSet(e) = {}
      /\ ToSet(q) \subseteq Items /\ ToSet(e) \subseteq Items /\ links \in [Items -> Places]
  BY <1>1, ListItems DEF SrvLists, SrvInv, SrvTypes
<1>4. Receiving' = Receiving
  BY <1>2 DEF Receiving
<1>5. CASE h = Null
  <2>1. server' \in {"accept", "join_clients", "join_ex", "done"}
    BY <1>2, <1>5 DEF AfterTidy
  <2>2. SrvLists(q, e)' /\ SrvTidied(q, e)'
    BY <1>1, <1>2, <1>3, <1>5, <2>1, <1>0 DEF SrvLists, ListOf, SrvTidied
  <2>3. SrvTypes' /\ SrvClients'
    BY <1>2, <1>4, <1>5, <2>1 DEF SrvInv, SrvTypes, SrvClients
  <2> QED
    BY <2>2, <2>3 DEF SrvInv
<1>6. CASE h # Null
  <2>1. PICK q2, e2 :
          /\ IsList([head |-> clients', next |-> links'], q2)
          /\ IsList([head |-> ex_clients', next |-> links'], e2)
          /\ ToSet(q2) = ToSet(q) \ {h} /\ ToSet(e2) = ToSet(e) \ {h}
          /\ h \in ToSet(q) \cup ToSet(e) /\ links'[h] = Null /\ links' \in [Items -> Places]
          /\ \A d \in Items \ (ToSet(q) \cup ToSet(e)) : links'[d] = links[d]
    <3>1. CASE server = "join_clients"
      <4>1. h = clients /\ h \in ToSet(q)
        BY <1>0, <1>2, <1>3, <1>6, <3>1, TakenOff
      <4> QED
        BY <1>0, <1>2, <1>3, <1>6, <3>1, <4>1, TakenOff
    <3>2. CASE server # "join_clients"
      <4>0. /\ h = ex_clients /\ ex_clients # Null /\ ToSet(e) \cap ToSet(q) = {}
            /\ clients' = clients /\ ex_clients' = ListPop(ListOf(ex_clients)).head
            /\ links' = ListPop(ListOf(ex_clients)).next
        BY <1>2, <1>3, <1>6, <3>2
      <4>1. h \in ToSet(e)
        BY <1>0, <1>3, <4>0, TakenOff
      <4> QED
        BY <1>0, <1>3, <4>0, <4>1, TakenOff
    <3> QED
      BY <3>1, <3>2
  <2>2. h \in Items /\ where[h] # "none" /\ h \notin freed
    BY <1>1, <1>3, <2>1 DEF SrvLists
  <2>3. SrvLists(q2, e2)'
    <3>1. \A d \in Items \ (ToSet(q2) \cup ToSet(e2)) : links'[d] = Null
      BY <1>1, <2>1 DEF SrvLists
    <3>2. \A d \in ToSet(q2) \cup ToSet(e2) :
            where'[d] # "none" /\ d \notin freed' /\ (d = cur' => server' = "wait")
      BY <1>1, <1>2, <1>6, <2>1 DEF SrvLists
    <3>3. /\ \A d \in ToSet(e2) : where'[d] = "gone"
          /\ \A d \in Items : where'[d] \in {"none", "gone"} \/ d \in ToSet(q2) \/ d = cur'
      BY <1>0, <1>1, <1>2, <1>6, <2>1 DEF SrvLists
    <3> QED
      BY <1>2, <1>3, <1>6, <2>1, <3>1, <3>2, <3>3 DEF SrvLists, ListOf
  <2>4. SrvTidied(q2, e2)'
    BY <1>0, <1>1, <1>2, <1>6, <2>1 DEF SrvTidied
  <2>5. SrvTypes' /\ SrvClients'
    BY <1>2, <1>4, <1>6, <2>1, <2>2 DEF SrvInv, SrvTypes, SrvClients, Places
  <2> QED
    BY <2>3, <2>4, <2>5 DEF SrvInv
<1> QED
  BY <1>5, <1>6

LEMMA SrvStep ==
  ASSUME SocketServerAssumption, "tx" \notin Kinds \/ TxClients <= 1
  PROVE  SrvInv /\ [ServerNext]_srvVars => SrvInv'
<1> SUFFICES ASSUME SrvInv, [ServerNext]_srvVars PROVE SrvInv'
  OBVIOUS
<1>1. CASE Server
  BY <1>1, AcceptKeeps, AcceptFailsKeeps, PushKeeps, WaitKeeps, TidyKeeps, DeleteKeeps DEF Server
<1>2. ASSUME NEW c \in Items, ClientThread(c) PROVE SrvInv'
  BY <1>2, AddClientKeeps, PostKeeps, EndRunKeeps, XDelKeeps, DelClientKeeps DEF ClientThread
<1> QED
  BY <1>1, <1>2, RestKeeps DEF ServerNext, Clients

LEMMA SrvUnused == ASSUME LinkedListAssumption PROVE SrvInv => DeletedIsUnused
<1> SUFFICES ASSUME SrvInv PROVE DeletedIsUnused
  OBVIOUS
<1>1. PICK q, e : SrvLists(q, e)
  BY DEF SrvInv
<1>2. /\ Linked(clients) = ToSet(q) /\ Linked(ex_clients) = ToSet(e) /\ Linked(xclients) = Receiving
  BY <1>1, LinkedIs, XLinked DEF SrvLists, SrvInv
<1>3. ASSUME NEW c \in freed PROVE where[c] = "gone" /\ c \notin logging
  BY DEF SrvInv, SrvClients
<1>4. ASSUME NEW c \in freed PROVE c \notin ToSet(q) \cup ToSet(e) \cup Receiving
  BY <1>1, <1>3 DEF SrvLists, Receiving
<1>5. sent.left = {}
  BY DEF SrvInv, SrvClients
<1> QED
  BY <1>2, <1>3, <1>4, <1>5 DEF DeletedIsUnused

LEMMA SrvEnded == ASSUME LinkedListAssumption, ~EndsEarly PROVE SrvInv => EndedIsTidied
<1> SUFFICES ASSUME SrvInv PROVE EndedIsTidied
  OBVIOUS
<1>1. PICK q, e : SrvLists(q, e) /\ SrvTidied(q, e)
  BY DEF SrvInv
<1>2. Linked(ex_clients) = ToSet(e)
  BY <1>1, LinkedIs DEF SrvLists
<1> QED
  BY <1>1, <1>2 DEF EndedIsTidied, SrvTidied, Clients

\* The server deletes no client that anything still refers to, and what is sent to all
\* reaches each client (src/socket.cpp:329-352, src/tx_net.cpp:67-142), for any number
\* of clients, also when one ends before the server has linked it.  The transmit server
\* has one client: two lists share the link of a second (src/tx_net.cpp:70).
THEOREM DeletedStaysUnused ==
  ASSUME SocketServerAssumption, "tx" \notin Kinds \/ TxClients <= 1
  PROVE  ServerSpec => []DeletedIsUnused
<1>1. LinkedListAssumption
  BY DEF SocketServerAssumption
<1>2. SrvInv => DeletedIsUnused
  BY <1>1, SrvUnused
<1> QED
  BY <1>2, SrvStart, SrvStep, PTL DEF ServerSpec

\* Besides, the next connection finds each client that has ended (src/socket.cpp:388),
\* unless one ends before the server has linked it.
THEOREM ClientsTidied ==
  ASSUME SocketServerAssumption, "tx" \notin Kinds \/ TxClients <= 1, ~EndsEarly
  PROVE  ServerSpec => []ClientsAreTidied
<1>1. LinkedListAssumption
  BY DEF SocketServerAssumption
<1>2. SrvInv => ClientsAreTidied
  BY <1>1, SrvUnused, SrvEnded DEF ClientsAreTidied
<1> QED
  BY <1>2, SrvStart, SrvStep, PTL DEF ServerSpec

-----------------------------------------------------------------------------
(* A list by itself.  That the links of the items that are not on it are   *)
(* cleared is what lets an item be added again.                            *)

LEMMA AtEnds ==
  ASSUME NEW q \in Seq(Items), NEW w \in Items
  PROVE  /\ InsertAt(q, 1, w) = <<w>> \o q
         /\ InsertAt(q, Len(q) + 1, w) = Append(q, w)
         /\ q # <<>> => RemoveAt(q, 1) = Tail(q)
<1>1. Len(q) \in Nat /\ SubSeq(q, 1, Len(q)) = q /\ SubSeq(q, 1, 0) = <<>>
      /\ SubSeq(q, Len(q) + 1, Len(q)) = <<>>
  BY LenProperties, SubSeqFull, SubSeqEmpty
<1>2. <<w>> \in Seq(Items) /\ <<>> \o <<w>> = <<w>> /\ (q \o <<w>>) \o <<>> = q \o <<w>>
      /\ q \o <<w>> = Append(q, w)
  BY ConcatEmptySeq, ConcatProperties, AppendIsConcat
<1>3. InsertAt(q, 1, w) = <<w>> \o q
  BY <1>1, <1>2 DEF InsertAt
<1>4. InsertAt(q, Len(q) + 1, w) = Append(q, w)
  <2>1. PICK n \in Nat : n = Len(q) + 1 /\ n - 1 = Len(q)
    BY <1>1
  <2>2. SubSeq(q, 1, n - 1) = q /\ SubSeq(q, n, Len(q)) = <<>>
    BY <1>1, <2>1
  <2>3. InsertAt(q, n, w) = Append(q, w)
    BY <1>2, <2>2 DEF InsertAt
  <2> QED
    BY <2>1, <2>3
<1>5. ASSUME q # <<>> PROVE RemoveAt(q, 1) = Tail(q)
  <2>1. Tail(q) = SubSeq(q, 2, Len(q)) /\ Tail(q) \in Seq(Items)
    BY <1>5, TailIsSubSeq, HeadTailProperties
  <2>2. <<>> \o Tail(q) = Tail(q)
    BY <2>1, ConcatEmptySeq
  <2> QED
    BY <1>1, <2>1, <2>2 DEF RemoveAt
<1> QED
  BY <1>3, <1>4, <1>5

\* Taking away an item by its value is taking it away by its place.
LEMMA RemoveFirstIs ==
  ASSUME NEW q \in Seq(Items), Distinct(q)
  PROVE  /\ \A i \in 1 .. Len(q) : RemoveFirst(q, q[i]) = RemoveAt(q, i)
         /\ \A w \in Items \ ToSet(q) : RemoveFirst(q, w) = q
<1>1. /\ Len(q) \in Nat /\ DOMAIN q = 1 .. Len(q)
      /\ \A i, j \in 1 .. Len(q) : q[i] = q[j] => i = j
      /\ ToSet(q) = {q[i] : i \in 1 .. Len(q)}
  BY SeqFacts
<1>2. ASSUME NEW i \in 1 .. Len(q) PROVE RemoveFirst(q, q[i]) = RemoveAt(q, i)
  <2>1. {j \in 1 .. Len(q) : q[j] = q[i]} = {i}
    BY <1>1
  <2>2. Min({i}) = i
    BY <1>1 DEF Min
  <2>3. SelectInSeq(q, LAMBDA v : v = q[i]) = i
    BY <2>1, <2>2 DEF SelectInSeq
  <2> QED
    BY <2>3 DEF RemoveFirst
<1>3. ASSUME NEW w \in Items \ ToSet(q) PROVE RemoveFirst(q, w) = q
  BY <1>1 DEF RemoveFirst
<1> QED
  BY <1>2, <1>3

UseInv == IsList(list, items) /\ \A w \in Items \ ToSet(items) : list.next[w] = Null

LEMMA AddKept ==
  ASSUME LinkedListAssumption, UseInv, NEW w \in Items \ ToSet(items), NEW i \in 1 .. Len(items) + 1,
         list' = Inserted(list, w)[Before(items, i)], items' = InsertAt(items, i, w)
  PROVE  UseInv'
<1>1. /\ IsList(list', items') /\ ToSet(items') = ToSet(items) \cup {w}
      /\ KeepsOthers(list, list', ToSet(items) \cup {w})
  BY InsertedSet DEF UseInv
<1> QED
  BY <1>1 DEF UseInv, KeepsOthers

LEMMA TakeKept ==
  ASSUME LinkedListAssumption, UseInv, NEW i \in 1 .. Len(items),
         list' = Popped(list)[Before(items, i)], items' = RemoveAt(items, i)
  PROVE  UseInv'
<1>1. /\ IsList(list', items') /\ ToSet(items') = ToSet(items) \ {items[i]}
      /\ KeepsOthers(list, list', ToSet(items)) /\ list'.next[items[i]] = Null
  BY PoppedSet DEF UseInv
<1> QED
  BY <1>1 DEF UseInv, KeepsOthers

LEMMA UseKeeps == ASSUME LinkedListAssumption, UseInv, ListUse PROVE UseInv'
<1>1. items \in Seq(Items) /\ Distinct(items) /\ IsList(list, items)
  BY DEF UseInv, IsList
<1>2. Len(items) \in Nat /\ (items = <<>> <=> Len(items) = 0) /\ Added = ToSet(items)
  BY <1>1, SeqFacts DEF Added
<1>3. ASSUME NEW w \in Items \ Added, list' = ListPush(list, w), items' = <<w>> \o items
      PROVE  UseInv'
  <2>1. PICK i \in 1 .. Len(items) + 1 : i = 1
    BY <1>2
  <2>2. items' = InsertAt(items, i, w)
    BY <1>1, <1>3, <2>1, AtEnds
  <2>3. list' = Inserted(list, w)[Before(items, i)]
    BY <1>3, <2>1 DEF ListPush, Before
  <2> QED
    BY <1>2, <2>2, <2>3, AddKept
<1>4. ASSUME NEW w \in Items \ Added, list' = ListAppend(list, w), items' = Append(items, w)
      PROVE  UseInv'
  <2>1. PICK i \in 1 .. Len(items) + 1 : Place(list, {}) = Before(items, i) /\ i = Len(items) + 1
    BY <1>1, PlaceIs
  <2>2. items' = InsertAt(items, i, w)
    BY <1>1, <1>4, <2>1, AtEnds
  <2>3. list' = Inserted(list, w)[Before(items, i)]
    BY <1>4, <2>1 DEF ListAppend
  <2> QED
    BY <1>2, <2>2, <2>3, AddKept
<1>5. ASSUME list' = ListPop(list), items' = IF items = <<>> THEN items ELSE Tail(items)
      PROVE  UseInv'
  <2>1. CASE items = <<>>
    <3>1. list' = list
      <4>1. PICK i \in 1 .. Len(items) + 1 : i = 1 /\ i = Len(items) + 1
        BY <1>2, <2>1
      <4>2. Before(items, i) = Null
        BY <4>1 DEF Before
      <4> QED
        BY <1>1, <1>5, <4>1, <4>2, PoppedIs DEF ListPop
    <3> QED
      BY <1>5, <2>1, <3>1 DEF UseInv
  <2>2. CASE items # <<>>
    <3>1. PICK i \in 1 .. Len(items) : i = 1
      BY <1>2, <2>2
    <3>2. items' = RemoveAt(items, i)
      <4>1. items[i] \in Items
        BY <1>1, SeqFacts
      <4> QED
        BY <1>1, <1>5, <2>2, <3>1, <4>1, AtEnds
    <3>3. list' = Popped(list)[Before(items, i)]
      BY <1>5, <3>1 DEF ListPop, Before
    <3> QED
      BY <3>2, <3>3, TakeKept
  <2> QED
    BY <2>1, <2>2
<1>6. ASSUME NEW w \in Items, list' = ListRemove(list, w), items' = RemoveFirst(items, w)
      PROVE  UseInv'
  <2>1. PICK i \in 1 .. Len(items) + 1 :
          /\ Place(list, {w}) = Before(items, i)
          /\ i = Len(items) + 1 \/ items[i] = w
          /\ \A j \in 1 .. i - 1 : items[j] # w
    BY <1>1, PlaceIs
  <2>2. list' = Popped(list)[Before(items, i)]
    BY <1>6, <2>1 DEF ListRemove, ListRemoveFirst
  <2>3. CASE i = Len(items) + 1
    <3>1. w \notin ToSet(items)
      BY <1>1, <1>2, <2>1, <2>3, SeqFacts
    <3>2. items' = items
      BY <1>1, <1>6, <3>1, RemoveFirstIs
    <3>3. list' = list
      BY <1>1, <2>2, <2>3, PoppedIs
    <3> QED
      BY <3>2, <3>3 DEF UseInv
  <2>4. CASE i # Len(items) + 1
    <3>1. i \in 1 .. Len(items) /\ items[i] = w
      BY <1>2, <2>1, <2>4
    <3>2. items' = RemoveAt(items, i)
      BY <1>1, <1>6, <3>1, RemoveFirstIs
    <3> QED
      BY <2>2, <3>1, <3>2, TakeKept
  <2> QED
    BY <2>3, <2>4
<1> QED
  BY <1>3, <1>4, <1>5, <1>6 DEF ListUse

\* Whatever was done to a list, walking its links passes exactly the items that
\* were added and not taken, in order, and an item that was taken has no link left
\* (list.cpp:129).
THEOREM LinksFollow == ASSUME LinkedListAssumption PROVE ListSpec => []LinksFollowItems
<1>1. ListInit => UseInv
  BY EmptyIs DEF ListInit, UseInv, Empty
<1>2. UseInv /\ [ListUse]_useVars => UseInv'
  <2>1. UseInv /\ UNCHANGED useVars => UseInv'
    BY DEF UseInv, useVars, IsList
  <2> QED
    BY <2>1, UseKeeps
<1>3. UseInv => LinksFollowItems
  BY WalkIs DEF UseInv, LinksFollowItems, Added
<1> QED
  BY <1>1, <1>2, <1>3, PTL DEF ListSpec

-----------------------------------------------------------------------------
(* The handlers of events.  HandlersOnce says nothing of the handlers that *)
(* the INIT event has not reached: none of them was called.                *)

AppTypes ==
  /\ calls \in [Handlers -> 0 .. 2] /\ queue \in Seq(Senders)
  /\ begun \in BOOLEAN /\ took \subseteq Handlers
  /\ begun <=> event # "INIT"

\* The cursor is at the i-th handler, and an INIT event has reached none from there on.
Cursor(q, i) ==
  /\ eh = Link(q, i)
  /\ event = "INIT" => \A j \in i .. Len(q) : TypeOf[q[j]] = "INIT" => calls[q[j]] = 0

AppList(q) ==
  /\ IsList(handlers, q)
  /\ \E i \in 1 .. Len(q) + 1 : Cursor(q, i)
  /\ \A h \in Handlers : TypeOf[h] = "INIT" =>
       calls[h] <= 1 /\ (begun => h \notin ToSet(q) \/ calls[h] = 0)
  /\ \A h \in took : calls[h] > 0 /\ h \notin ToSet(q)

AppInv == AppTypes /\ \E q : AppList(q)

LEMMA AppStart == ASSUME LinkedListAssumption PROVE AppInit => AppInv
<1> SUFFICES ASSUME AppInit PROVE AppInv
  OBVIOUS
<1>1. PICK a, b \in Handlers : /\ a # b
                               /\ handlers = ListPush(ListPush(Empty, a), b)
                               /\ eh = b
  BY DEF AppInit
<1>2. AppTypes
  <2>1. calls = [h \in Handlers |-> 0] /\ queue = <<>> /\ begun = FALSE /\ took = {} /\ event = "INIT"
    BY DEF AppInit
  <2>2. <<>> \in Seq(Senders)
    OBVIOUS
  <2>3. calls \in [Handlers -> 0 .. 2]
    BY <2>1
  <2> QED
    BY <2>1, <2>2, <2>3 DEF AppTypes
<1> DEFINE q1 == InsertAt(<<>>, 1, a)
           q == InsertAt(q1, 1, b)
<1>3. IsList(Empty, <<>>) /\ ToSet(<<>>) = {} /\ a \in Items /\ b \in Items
  BY <1>1, EmptyIs DEF Handlers
<1>4. IsList(ListPush(Empty, a), q1) /\ ToSet(q1) = {a}
  <2>1. a \in Items \ ToSet(<<>>)
    BY <1>3
  <2>2. PICK s : s = <<>>
    OBVIOUS
  <2>3. IsList(ListPush(Empty, a), InsertAt(s, 1, a)) /\ ToSet(InsertAt(s, 1, a)) = ToSet(s) \cup {a}
    BY <1>3, <2>1, <2>2, PushIs
  <2> QED
    BY <1>3, <2>2, <2>3
<1> HIDE DEF q1
<1>5. b \in Items \ ToSet(q1)
  BY <1>1, <1>3, <1>4
<1>6. IsList(handlers, q)
  BY <1>1, <1>4, <1>5, PushIs
<1>7. q1 \in Seq(Items) /\ Len(q1) \in Nat
  BY <1>4, LenProperties DEF IsList
<1>8. 1 \in 1 .. Len(q1) + 1 /\ Len(q) = Len(q1) + 1 /\ q[1] = b
  <2>1. PICK i \in 1 .. Len(q1) + 1 : i = 1
    BY <1>7
  <2>2. Len(InsertAt(q1, i, b)) = Len(q1) + 1 /\ InsertAt(q1, i, b)[i] = b
    BY <1>3, <1>7, InsertAtItems
  <2> QED
    BY <2>1, <2>2
<1> HIDE DEF q
<1>9. \A j \in 1 .. Len(q) : q[j] \in Handlers
  BY <1>6, SeqFacts DEF IsList, Handlers
<1>10. \A h \in Handlers : calls[h] = 0
  BY DEF AppInit
<1>11. Cursor(q, 1)
  BY <1>1, <1>7, <1>8, <1>9, <1>10 DEF Cursor, Link
<1>12. begun = FALSE /\ took = {}
  BY DEF AppInit
<1>13. 1 \in 1 .. Len(q) + 1
  BY <1>7, <1>8
<1>14. AppList(q)
  BY <1>6, <1>10, <1>11, <1>12, <1>13 DEF AppList
<1> QED
  BY <1>2, <1>14 DEF AppInv

\* Nothing that the invariant is about but the queue.
LEMMA QueueOnly ==
  ASSUME AppInv, queue' \in Seq(Senders), UNCHANGED <<handlers, event, eh, calls, took, begun>>
  PROVE  AppInv'
<1>1. PICK q : AppList(q)
  BY DEF AppInv
<1>2. AppList(q)'
  BY <1>1 DEF AppList, Cursor, IsList
<1>3. AppTypes'
  BY DEF AppInv, AppTypes
<1> QED
  BY <1>2, <1>3 DEF AppInv

LEMMA GetKeeps == ASSUME AppEventsAssumption, AppInv, GetEvent PROVE AppInv'
<1>1. PICK q : AppList(q)
  BY DEF AppInv
<1>2. queue \in Seq(Senders) /\ begun
  BY DEF AppInv, AppTypes, GetEvent
<1>3. queue' \in Seq(Senders) /\ event' \in Senders \cup {"IDLE"}
  <2>1. CASE queue = <<>>
    BY <1>2, <2>1 DEF GetEvent
  <2>2. CASE queue # <<>>
    BY <1>2, <2>2, HeadTailProperties DEF GetEvent
  <2> QED
    BY <2>1, <2>2
<1>4. event' # "INIT"
  BY <1>3 DEF AppEventsAssumption
<1>5. AppTypes'
  BY <1>2, <1>3, <1>4 DEF AppInv, AppTypes, GetEvent, AppFrame
<1>6. Len(q) \in Nat /\ handlers.head = Link(q, 1)
  BY <1>1, LenProperties DEF AppList, IsList
<1>7. 1 \in 1 .. Len(q) + 1 /\ Cursor(q, 1)'
  BY <1>4, <1>6 DEF Cursor, GetEvent
<1>8. AppList(q)'
  BY <1>1, <1>7 DEF AppList, IsList, GetEvent, AppFrame
<1> QED
  BY <1>5, <1>8 DEF AppInv

\* Where the cursor is, and where it goes next.
LEMMA CursorIs ==
  ASSUME LinkedListAssumption, NEW l, NEW q, IsList(l, q), NEW i \in 1 .. Len(q) + 1, Link(q, i) # Null
  PROVE  /\ i \in 1 .. Len(q) /\ i + 1 \in 1 .. Len(q) + 1
         /\ Link(q, i) = q[i] /\ q[i] \in Items /\ q[i] \in ToSet(q) /\ l.next[q[i]] = Link(q, i + 1)
         /\ \A j \in i + 1 .. Len(q) : j \in i .. Len(q) /\ q[j] # q[i] /\ q[j] \in Items
<1>1. /\ q \in Seq(Items) /\ Distinct(q)
      /\ \A j \in 1 .. Len(q) : l.next[q[j]] = Link(q, j + 1)
  BY DEF IsList
<1>2. /\ Len(q) \in Nat /\ \A j \in 1 .. Len(q) : q[j] \in Items
      /\ \A j, k \in 1 .. Len(q) : q[j] = q[k] => j = k
  BY <1>1, SeqFacts
<1>3. i \in 1 .. Len(q) /\ i + 1 \in 1 .. Len(q) + 1 /\ Link(q, i) = q[i]
  BY <1>2 DEF Link
<1> QED
  BY <1>1, <1>2, <1>3, AtIn

LEMMA SkipKeeps == ASSUME LinkedListAssumption, AppInv, Skip PROVE AppInv'
<1>1. PICK q : AppList(q)
  BY DEF AppInv
<1>2. PICK i \in 1 .. Len(q) + 1 : Cursor(q, i)
  BY <1>1 DEF AppList
<1>3. /\ i + 1 \in 1 .. Len(q) + 1 /\ eh' = Link(q, i + 1)
      /\ \A j \in i + 1 .. Len(q) : j \in i .. Len(q)
  BY <1>1, <1>2, CursorIs DEF AppList, Cursor, Skip
<1>4. Cursor(q, i + 1)'
  BY <1>2, <1>3 DEF Cursor, Skip
<1>5. AppList(q)'
  BY <1>1, <1>3, <1>4 DEF AppList, IsList, Skip, AppFrame
<1>6. AppTypes'
  BY DEF AppInv, AppTypes, Skip, AppFrame
<1> QED
  BY <1>5, <1>6 DEF AppInv

\* What a handler that registers others leaves of the list.
LEMMA AddedIs ==
  ASSUME LinkedListAssumption, NEW q, AppList(q), eh # Null, NEW l \in AddHandlers(handlers)
  PROVE  \E r : \E k \in 1 .. Len(r) :
           /\ IsList(l, r) /\ r[k] = eh
           /\ \A x \in ToSet(r) : x \in ToSet(q) \/ calls[x] = 0
           /\ event = "INIT" => \A j \in k .. Len(r) : TypeOf[r[j]] = "INIT" => calls[r[j]] = 0
<1>1. PICK i \in 1 .. Len(q) + 1 : Cursor(q, i)
  BY DEF AppList
<1>2. i \in 1 .. Len(q) /\ eh = q[i] /\ IsList(handlers, q)
  BY <1>1, CursorIs DEF AppList, Cursor
<1>3. event = "INIT" => \A j \in i .. Len(q) : TypeOf[q[j]] = "INIT" => calls[q[j]] = 0
  BY <1>1 DEF Cursor
<1>4. CASE l = handlers
  BY <1>2, <1>3, <1>4
<1>5. ASSUME NEW h \in Handlers, ~Has(handlers, h), calls[h] = 0, l = ListPush(handlers, h)
      PROVE  \E r : \E k \in 1 .. Len(r) :
               /\ IsList(l, r) /\ r[k] = eh
               /\ \A x \in ToSet(r) : x \in ToSet(q) \/ calls[x] = 0
               /\ event = "INIT" => \A j \in k .. Len(r) : TypeOf[r[j]] = "INIT" => calls[r[j]] = 0
  <2> DEFINE r == InsertAt(q, 1, h)
  <2>1. h \in Items \ ToSet(q)
    BY <1>2, <1>5, HasIs DEF Handlers
  <2>2. IsList(l, r) /\ ToSet(r) = ToSet(q) \cup {h}
    <3>1. IsList(handlers, q)
      BY <1>2
    <3>2. IsList(ListPush(handlers, h), r) /\ ToSet(r) = ToSet(q) \cup {h}
      BY <2>1, <3>1, PushIs
    <3> QED
      BY <1>5, <3>2
  <2>3. q \in Seq(Items) /\ Len(q) \in Nat /\ 1 \in 1 .. Len(q) + 1
    BY <1>2, LenProperties DEF IsList
  <2>4. Len(r) = Len(q) + 1 /\ \A j \in 1 .. Len(q) : r[j + 1] = q[j]
    BY <2>1, <2>3, InsertAtHead
  <2> HIDE DEF r
  <2>5. \A j \in 1 .. Len(q) : j + 1 \in 1 .. Len(r) /\ r[j + 1] = q[j]
    BY <2>3, <2>4
  <2>6. i + 1 \in 1 .. Len(r) /\ r[i + 1] = eh
    BY <1>2, <2>5
  <2>7. \A x \in ToSet(r) : x \in ToSet(q) \/ calls[x] = 0
    BY <1>5, <2>2
  <2>8. ASSUME event = "INIT", NEW j \in i + 1 .. Len(r), TypeOf[r[j]] = "INIT" PROVE calls[r[j]] = 0
    <3>1. PICK k \in i .. Len(q) : j = k + 1
      <4>1. j - 1 \in i .. Len(q) /\ j = (j - 1) + 1
        BY <1>2, <2>3, <2>4
      <4> QED
        BY <4>1
    <3>2. k \in 1 .. Len(q) /\ r[j] = q[k]
      BY <1>2, <2>3, <2>4, <3>1
    <3> QED
      BY <1>3, <2>8, <3>1, <3>2
  <2> QED
    BY <2>2, <2>6, <2>7, <2>8
<1> QED
  BY <1>4, <1>5 DEF AddHandlers

LEMMA HandlerCallKeeps == ASSUME LinkedListAssumption, AppInv, CallHandler PROVE AppInv'
<1>1. PICK q : AppList(q)
  BY DEF AppInv
<1>2. PICK ok \in (IF event = "INIT" THEN {FALSE} ELSE BOOLEAN), l \in AddHandlers(handlers) :
        IF ok
          THEN /\ event' = "none" /\ eh' = Null
               /\ handlers' = IF event = "IDLE" THEN ListRemove(l, eh) ELSE l
               /\ took' = IF event = "IDLE" THEN took \cup {eh} ELSE took
          ELSE /\ handlers' = l
               /\ eh' = l.next[eh]
               /\ UNCHANGED <<event, took>>
  BY DEF CallHandler
<1>3. /\ event # "none" /\ eh # Null /\ TypeOf[eh] = event
      /\ calls' = [calls EXCEPT ![eh] = IF @ = 2 THEN 2 ELSE @ + 1]
      /\ UNCHANGED <<queue, begun, puts>>
  BY DEF CallHandler, AppFrame
<1>4. PICK r : \E k \in 1 .. Len(r) :
        /\ IsList(l, r) /\ r[k] = eh
        /\ \A x \in ToSet(r) : x \in ToSet(q) \/ calls[x] = 0
        /\ event = "INIT" => \A j \in k .. Len(r) : TypeOf[r[j]] = "INIT" => calls[r[j]] = 0
  BY <1>1, <1>3, AddedIs
<1>5. PICK k \in 1 .. Len(r) :
        /\ IsList(l, r) /\ r[k] = eh
        /\ \A x \in ToSet(r) : x \in ToSet(q) \/ calls[x] = 0
        /\ event = "INIT" => \A j \in k .. Len(r) : TypeOf[r[j]] = "INIT" => calls[r[j]] = 0
  BY <1>4
<1>6. /\ r \in Seq(Items) /\ Distinct(r) /\ Len(r) \in Nat
      /\ \A j \in 1 .. Len(r) : r[j] \in Items
      /\ \A i, j \in 1 .. Len(r) : r[i] = r[j] => i = j
  BY <1>5, SeqFacts DEF IsList
<1>7. k \in 1 .. Len(r) + 1 /\ k \in k .. Len(r) /\ Link(r, k) = eh /\ eh \in Items /\ eh \in ToSet(r)
  BY <1>5, <1>6, AtIn DEF Link
<1>8. /\ k + 1 \in 1 .. Len(r) + 1 /\ l.next[eh] = Link(r, k + 1)
      /\ \A j \in k + 1 .. Len(r) : j \in k .. Len(r) /\ r[j] # eh /\ r[j] \in Items
  BY <1>3, <1>5, <1>7, CursorIs
<1>9. /\ calls \in [Handlers -> 0 .. 2] /\ eh \in Handlers
      /\ begun <=> event # "INIT"
      /\ took \subseteq Handlers /\ begun \in BOOLEAN /\ queue \in Seq(Senders)
  BY <1>7 DEF AppInv, AppTypes, Handlers
<1>10. calls' \in [Handlers -> 0 .. 2] /\ calls'[eh] > 0 /\ (calls[eh] = 0 => calls'[eh] = 1)
       /\ \A h \in Handlers : h # eh => calls'[h] = calls[h]
  BY <1>3, <1>9
<1>11. event = "INIT" => calls[eh] = 0
  BY <1>3, <1>5, <1>7
<1>12. ASSUME NEW h \in Handlers, TypeOf[h] = "INIT"
       PROVE  calls'[h] <= 1 /\ (begun' => h \notin ToSet(r) \/ calls'[h] = 0)
  <2>1. calls[h] <= 1 /\ (begun => h \notin ToSet(q) \/ calls[h] = 0)
    BY <1>1, <1>12 DEF AppList
  <2>2. CASE h = eh
    BY <1>3, <1>9, <1>10, <1>11, <1>12, <2>2
  <2>3. CASE h # eh
    BY <1>3, <1>5, <1>10, <2>1, <2>3
  <2> QED
    BY <2>2, <2>3
<1>13. ASSUME NEW h \in took PROVE calls'[h] > 0 /\ h \notin ToSet(r)
  <2>1. calls[h] > 0 /\ h \notin ToSet(q) /\ h \in Handlers
    BY <1>1, <1>9, <1>13 DEF AppList
  <2>2. h \notin ToSet(r)
    BY <1>5, <1>9, <2>1
  <2> QED
    BY <1>7, <1>10, <2>1, <2>2
<1>14. CASE ~ok
  <2>1. handlers' = l /\ eh' = l.next[eh] /\ event' = event /\ took' = took
    BY <1>2, <1>14
  <2>2. Cursor(r, k + 1)'
    <3>1. ASSUME event = "INIT", NEW j \in k + 1 .. Len(r), TypeOf[r[j]] = "INIT" PROVE calls'[r[j]] = 0
      BY <1>5, <1>8, <1>10, <3>1 DEF Handlers
    <3> QED
      BY <1>8, <2>1, <3>1 DEF Cursor
  <2>3. AppTypes'
    BY <1>3, <1>9, <1>10, <2>1 DEF AppTypes
  <2>4. AppList(r)'
    BY <1>5, <1>8, <1>12, <1>13, <2>1, <2>2 DEF AppList
  <2> QED
    BY <2>3, <2>4 DEF AppInv
<1>15. CASE ok
  <2>1. /\ event' = "none" /\ eh' = Null /\ event # "INIT"
        /\ handlers' = IF event = "IDLE" THEN ListRemove(l, eh) ELSE l
        /\ took' = IF event = "IDLE" THEN took \cup {eh} ELSE took
    BY <1>2, <1>15
  <2>2. AppTypes'
    BY <1>3, <1>9, <1>10, <2>1 DEF AppTypes
  <2>3. PICK s : /\ IsList(handlers', s) /\ ToSet(s) \subseteq ToSet(r)
                 /\ event = "IDLE" => eh \notin ToSet(s)
    <3>1. CASE event = "IDLE"
      BY <1>5, <1>7, <2>1, <3>1, RemoveIs
    <3>2. CASE event # "IDLE"
      BY <1>5, <2>1, <3>2
    <3> QED
      BY <3>1, <3>2
  <2>4. Len(s) \in Nat
    BY <2>3, LenProperties DEF IsList
  <2>5. Len(s) + 1 \in 1 .. Len(s) + 1 /\ Cursor(s, Len(s) + 1)'
    BY <2>1, <2>4 DEF Cursor, Link
  <2>6. \A h \in Handlers : TypeOf[h] = "INIT" => calls'[h] <= 1 /\ (begun' => h \notin ToSet(s) \/ calls'[h] = 0)
    BY <1>12, <2>3
  <2>7. \A h \in took' : calls'[h] > 0 /\ h \notin ToSet(s)
    BY <1>10, <1>13, <2>1, <2>3
  <2>8. AppList(s)'
    BY <2>3, <2>5, <2>6, <2>7 DEF AppList
  <2> QED
    BY <2>2, <2>8 DEF AppInv
<1> QED
  BY <1>14, <1>15

LEMMA UnhandledKeeps == ASSUME LinkedListAssumption, AppInv, Unhandled PROVE AppInv'
<1>1. PICK q : AppList(q)
  BY DEF AppInv
<1>2. event' = "none" /\ UNCHANGED <<handlers, queue, eh, calls, took, begun>> /\ event # "INIT"
  BY DEF Unhandled, AppFrame
<1>3. AppTypes'
  BY <1>2 DEF AppInv, AppTypes
<1>4. AppList(q)'
  BY <1>1, <1>2 DEF AppList, Cursor, IsList
<1> QED
  BY <1>3, <1>4 DEF AppInv

LEMMA UnlinkKeeps == ASSUME LinkedListAssumption, AppInv, UnlinkHandlers PROVE AppInv'
<1>1. PICK q : AppList(q)
  BY DEF AppInv
<1>2. event = "INIT" /\ eh = Null /\ UNCHANGED <<queue, eh, calls, took, puts>>
  BY DEF UnlinkHandlers
<1>3. IsList(handlers, q)
  BY <1>1 DEF AppList
<1>4. CASE Find(handlers, OfType("INIT")) # Null
  <2>1. handlers' = ListRemoveFirst(handlers, OfType("INIT")) /\ UNCHANGED <<event, begun>>
    BY <1>4 DEF UnlinkHandlers
  <2>2. PICK s : IsList(handlers', s) /\ ToSet(s) \subseteq ToSet(q)
    <3>1. PICK i \in 1 .. Len(q) + 1 : Place(handlers, OfType("INIT")) = Before(q, i)
      BY <1>3, PlaceIs
    <3>2. handlers' = Popped(handlers)[Before(q, i)]
      BY <2>1, <3>1 DEF ListRemoveFirst
    <3>3. CASE i = Len(q) + 1
      BY <1>3, <3>2, <3>3, PoppedIs
    <3>4. CASE i # Len(q) + 1
      <4>1. i \in 1 .. Len(q)
        BY <1>3, <3>4, LenProperties DEF IsList
      <4> QED
        BY <1>3, <3>2, <4>1, PoppedSet
    <3> QED
      BY <3>3, <3>4
  <2>3. Len(s) \in Nat
    BY <2>2, LenProperties DEF IsList
  <2>4. Len(s) + 1 \in 1 .. Len(s) + 1 /\ Cursor(s, Len(s) + 1)'
    BY <1>2, <2>3 DEF Cursor, Link
  <2>5. AppList(s)'
    BY <1>1, <1>2, <2>1, <2>2, <2>4 DEF AppList
  <2>6. AppTypes'
    BY <1>2, <2>1 DEF AppInv, AppTypes
  <2> QED
    BY <2>5, <2>6 DEF AppInv
<1>5. CASE Find(handlers, OfType("INIT")) = Null
  <2>1. event' = "none" /\ begun' = TRUE /\ handlers' = handlers
    BY <1>5 DEF UnlinkHandlers
  <2>2. ToSet(q) \cap OfType("INIT") = {}
    <3>1. Null \notin ToSet(q)
      BY <1>3, ListItems DEF LinkedListAssumption
    <3> QED
      BY <1>3, <1>5, <3>1, FindIs
  <2>3. \A h \in Handlers : TypeOf[h] = "INIT" => h \notin ToSet(q)
    BY <2>2 DEF OfType
  <2>4. AppList(q)'
    BY <1>1, <1>2, <2>1, <2>3 DEF AppList, Cursor, IsList
  <2>5. AppTypes'
    BY <1>2, <2>1 DEF AppInv, AppTypes
  <2> QED
    BY <2>4, <2>5 DEF AppInv
<1> QED
  BY <1>4, <1>5

\* Whatever handlers register others meanwhile: no INIT handler runs twice, none is
\* left when the loop starts, one that took IDLE is not called again, and
\* handle_event() is at a handler that is on the list (app/event.cpp:91).
THEOREM CalledOnce ==
  ASSUME LinkedListAssumption, AppEventsAssumption PROVE AppSpec => []HandlersOnce
<1>1. AppInv /\ [AppNext]_appVars => AppInv'
  <2> SUFFICES ASSUME AppInv, [AppNext]_appVars PROVE AppInv'
    OBVIOUS
  <2>1. ASSUME NEW t \in Senders, PutEvent(t) PROVE AppInv'
    <3>1. queue' \in Seq(Senders)
      BY <2>1, AppendProperties DEF PutEvent, AppInv, AppTypes
    <3> QED
      BY <2>1, <3>1, QueueOnly DEF PutEvent
  <2>2. CASE UNCHANGED appVars
    <3>1. queue' \in Seq(Senders)
      BY <2>2 DEF appVars, AppInv, AppTypes
    <3> QED
      BY <2>2, <3>1, QueueOnly DEF appVars
  <2> QED
    BY <2>1, <2>2, GetKeeps, SkipKeeps, HandlerCallKeeps, UnhandledKeeps, UnlinkKeeps DEF AppNext, HandleEvent
<1>2. AppInv => HandlersOnce
  <2> SUFFICES ASSUME AppInv PROVE HandlersOnce
    OBVIOUS
  <2>1. PICK q : AppList(q)
    BY DEF AppInv
  <2>2. \A h \in Items : Has(handlers, h) <=> h \in ToSet(q)
    BY <2>1, HasIs DEF AppList
  <2>3. took \subseteq Handlers /\ Handlers = Items
    BY DEF AppInv, AppTypes, Handlers
  <2>4. eh # Null => eh \in Items /\ eh \in ToSet(q)
    BY <2>1, CursorIs DEF AppList, Cursor
  <2> QED
    BY <2>1, <2>2, <2>3, <2>4 DEF AppList, HandlersOnce
<1> QED
  BY <1>1, <1>2, AppStart, PTL DEF AppSpec

-----------------------------------------------------------------------------
(* Storage.  In memory: the pairs in the list are those that are used, one *)
(* for each key that has a value; a list that is under way is at a pair,   *)
(* and has passed those before it.  On the NVS: what a command has stored  *)
(* is in the flash, too.                                                   *)

Data == [type : Types \cup {"NONE"}, val : Nat]

PairTypes ==
  /\ kv \in [Items -> [key : Keys \cup {Null}, data : Data]] /\ db \in [Keys -> Data]
  /\ \A k \in Keys : db[k] = Nothing \/ db[k].type \in Types
  /\ got[1] = got[2]
  /\ iter = [at |-> iter.at, item |-> iter.item, seen |-> iter.seen]

\* The keys that a list has passed are those of the pairs before the n-th.
Passed(q, n) ==
  /\ iter.item = Link(q, n)
  /\ iter.seen \in Seq(Keys) /\ Len(iter.seen) < n
  /\ \A i \in 1 .. Len(iter.seen) : iter.seen[i] = kv[q[n - 1 - Len(iter.seen) + i]].key

\* The pairs hold what is stored, by key.
Holds(kvs, dbs, used) ==
  /\ \A p \in used : kvs[p].key \in Keys /\ kvs[p].data = dbs[kvs[p].key] /\ kvs[p].data # Nothing
  /\ \A p, r \in used : kvs[p].key = kvs[r].key => p = r
  /\ \A k \in Keys : dbs[k] # Nothing => \E p \in used : kvs[p].key = k

PairList(q) ==
  /\ IsList(pairs, q) /\ ToSet(q) = Used
  /\ Holds(kv, db, Used)
  /\ iter.at = "list" => \E n \in 1 .. Len(q) + 1 : Passed(q, n)

PairInv == PairTypes /\ \E q : PairList(q)

LEMMA NoneIsFree ==
  /\ Nothing \in Data /\ Nothing.type = "NONE" /\ "NONE" \notin Types /\ Free.data = Nothing
  /\ \A d \in Data : d.type \in Types => d # Nothing
  /\ \A k, d : d # Nothing => [key |-> k, data |-> d] # Free
<1>1. Nothing \in Data /\ Nothing.type = "NONE" /\ "NONE" \notin Types /\ Free.data = Nothing
  BY DEF Nothing, Data, Types, Free
<1>2. ASSUME NEW k, NEW d, [key |-> k, data |-> d] = Free PROVE d = Nothing
  <2>1. [key |-> k, data |-> d].data = Free.data
    BY <1>2
  <2> QED
    BY <1>1, <2>1
<1> QED
  BY <1>1, <1>2

LEMMA PairStart == ASSUME LinkedListAssumption PROVE StorageInit => PairInv
<1> SUFFICES ASSUME StorageInit PROVE PairInv
  OBVIOUS
<1>1. /\ pairs = Empty /\ kv = [p \in Items |-> Free] /\ db = [k \in Keys |-> Nothing]
      /\ got = <<Nothing, Nothing>> /\ iter = [at |-> "none", item |-> Null, seen |-> <<>>]
  BY DEF StorageInit
<1>2. PairTypes
  <2>1. Free \in [key : Keys \cup {Null}, data : Data]
    BY NoneIsFree DEF Free
  <2> QED
    BY <1>1, <2>1, NoneIsFree DEF PairTypes
<1>3. Used = {}
  BY <1>1 DEF Used
<1>4. Holds(kv, db, {})
  BY <1>1 DEF Holds
<1>5. iter.at # "list"
  BY <1>1
<1>6. PairList(<<>>)
  BY <1>1, <1>3, <1>4, <1>5, EmptyIs DEF PairList
<1> QED
  BY <1>2, <1>6 DEF PairInv

\* What find() finds.
LEMMA PairIs ==
  ASSUME LinkedListAssumption, PairTypes, NEW q, PairList(q), NEW k \in Keys
  PROVE  /\ db[k] \in Data
         /\ \/ FindPair(k) = Null /\ db[k] = Nothing /\ \A p \in Used : kv[p].key # k
            \/ /\ FindPair(k) # Null /\ FindPair(k) \in Used /\ kv[FindPair(k)].key = k
               /\ kv[FindPair(k)].data = db[k] /\ db[k] # Nothing /\ db[k].type \in Types
<1>1. ToSet(q) = Used /\ IsList(pairs, q) /\ Holds(kv, db, Used)
  BY DEF PairList
<1>2. \/ FindPair(k) = Null /\ ToSet(q) \cap KeyMatch(k) = {}
      \/ FindPair(k) \in ToSet(q) \cap KeyMatch(k)
  BY <1>1, FindIs DEF FindPair
<1>3. KeyMatch(k) \subseteq Used /\ Null \notin Used
  BY DEF KeyMatch, Used, LinkedListAssumption
<1>4. db[k] \in Data /\ (db[k] = Nothing \/ db[k].type \in Types)
  BY DEF PairTypes
<1>5. CASE FindPair(k) = Null /\ ToSet(q) \cap KeyMatch(k) = {}
  <2>1. \A p \in Used : kv[p].key # k
    BY <1>1, <1>5 DEF KeyMatch
  <2>2. db[k] = Nothing
    BY <1>1, <2>1 DEF Holds
  <2> QED
    BY <1>4, <1>5, <2>1, <2>2
<1>6. CASE FindPair(k) \in ToSet(q) \cap KeyMatch(k)
  <2>1. FindPair(k) \in Used /\ kv[FindPair(k)].key = k
    BY <1>1, <1>6 DEF KeyMatch
  <2>2. kv[FindPair(k)].data = db[k] /\ db[k] # Nothing
    BY <1>1, <2>1 DEF Holds
  <2> QED
    BY <1>3, <1>4, <2>1, <2>2
<1> QED
  BY <1>2, <1>5, <1>6

\* What the caller gets is what is stored.
LEMMA ReadsWhatIs ==
  ASSUME LinkedListAssumption, StorageAssumption, PairInv, NEW k \in Keys, Get(k) \/ GetBlob(k) \/ GetType(k)
  PROVE  got'[1] = got'[2]
<1>1. PICK q : PairList(q)
  BY DEF PairInv
<1> DEFINE p == FindPair(k)
<1>2. /\ db[k] \in Data
      /\ \/ p = Null /\ db[k] = Nothing
         \/ p # Null /\ kv[p].data = db[k] /\ db[k].type \in Types
  BY <1>1, PairIs DEF PairInv
<1> HIDE DEF p
<1>3. db[k].val \in Nat /\ Room \in Nat
  BY <1>2 DEF Data, StorageAssumption
<1>4. ASSUME NEW t \in Types
      PROVE  /\ FindTyped(k, t) = IF db[k].type = t THEN p ELSE Null
             /\ db[k].type = t => p # Null /\ kv[p].data = db[k]
  BY <1>2, NoneIsFree DEF FindTyped, p
<1>5. ASSUME Get(k) PROVE got'[1] = got'[2]
  <2>1. PICK t \in Types \ {"BLOB"} :
          got' = <<IF FindTyped(k, t) = Null THEN Nothing ELSE Read(kv[FindTyped(k, t)].data), Wanted(db[k], t)>>
    BY <1>5 DEF Get
  <2>2. Wanted(db[k], t) = IF db[k].type # t THEN Nothing ELSE Read(db[k])
    BY <2>1 DEF Wanted
  <2> QED
    BY <1>4, <2>1, <2>2
<1>6. ASSUME GetBlob(k) PROVE got'[1] = got'[2]
  <2>1. got' = <<IF FindTyped(k, "BLOB") # Null /\ kv[FindTyped(k, "BLOB")].data.val <= Room
                   THEN kv[FindTyped(k, "BLOB")].data ELSE Nothing, Wanted(db[k], "BLOB")>>
    BY <1>6 DEF GetBlob
  <2>2. "BLOB" \in Types
    BY DEF Types
  <2>3. CASE db[k].type = "BLOB"
    <3>1. Wanted(db[k], "BLOB") = IF db[k].val > Room THEN Nothing ELSE db[k]
      BY <2>3 DEF Wanted, Read
    <3>2. (db[k].val > Room) <=> ~(db[k].val <= Room)
      BY <1>3
    <3> QED
      BY <1>4, <2>1, <2>2, <2>3, <3>1, <3>2
  <2>4. CASE db[k].type # "BLOB"
    BY <1>4, <2>1, <2>2, <2>4 DEF Wanted
  <2> QED
    BY <2>3, <2>4
<1>7. ASSUME GetType(k) PROVE got'[1] = got'[2]
  BY <1>2, <1>7 DEF GetType, p
<1> QED
  BY <1>5, <1>6, <1>7

\* A list stays where it is when a pair comes in at the head, or none does.
LEMMA PassedKept ==
  ASSUME NEW q, IsList(pairs, q), NEW n \in 1 .. Len(q) + 1, Passed(q, n), UNCHANGED iter,
         \A p \in ToSet(q) : kv'[p].key = kv[p].key
  PROVE  Passed(q, n)'
<1>1. q \in Seq(Items) /\ Len(q) \in Nat
  BY LenProperties DEF IsList
<1>2. Len(iter.seen) \in Nat /\ Len(iter.seen) < n
  BY LenProperties DEF Passed
<1>3. ASSUME NEW i \in 1 .. Len(iter.seen) PROVE iter.seen[i] = kv'[q[n - 1 - Len(iter.seen) + i]].key
  <2>1. n - 1 - Len(iter.seen) + i \in 1 .. Len(q)
    BY <1>1, <1>2
  <2>2. q[n - 1 - Len(iter.seen) + i] \in ToSet(q)
    BY <1>1, <2>1, AtIn
  <2> QED
    BY <2>2 DEF Passed
<1> QED
  BY <1>3 DEF Passed

LEMMA PassedPushed ==
  ASSUME NEW q, IsList(pairs, q), NEW w \in Items, NEW n \in 1 .. Len(q) + 1, Passed(q, n), UNCHANGED iter,
         NEW r, r = InsertAt(q, 1, w), \A p \in ToSet(q) : kv'[p].key = kv[p].key
  PROVE  \E m \in 1 .. Len(r) + 1 : Passed(r, m)'
<1>1. q \in Seq(Items) /\ Len(q) \in Nat /\ 1 \in 1 .. Len(q) + 1
  BY LenProperties DEF IsList
<1>2. Len(r) = Len(q) + 1 /\ \A j \in 1 .. Len(q) : r[j + 1] = q[j]
  BY <1>1, InsertAtHead
<1>3. Len(iter.seen) \in Nat /\ Len(iter.seen) < n /\ iter.item = Link(q, n)
  BY LenProperties DEF Passed
<1>4. PICK m \in 1 .. Len(r) + 1 : m = n + 1
  BY <1>1, <1>2
<1>5. Link(r, m) = Link(q, n)
  BY <1>1, <1>2, <1>4 DEF Link
<1>6. ASSUME NEW i \in 1 .. Len(iter.seen) PROVE iter.seen[i] = kv'[r[m - 1 - Len(iter.seen) + i]].key
  <2>1. n - 1 - Len(iter.seen) + i \in 1 .. Len(q)
    BY <1>1, <1>3
  <2>2. PICK j \in 1 .. Len(q) : j = n - 1 - Len(iter.seen) + i
    BY <2>1
  <2>3. j + 1 = m - 1 - Len(iter.seen) + i
    BY <1>1, <1>2, <1>3, <1>4, <2>2
  <2>4. r[j + 1] = q[j] /\ q[j] \in ToSet(q)
    BY <1>1, <1>2, AtIn
  <2>5. iter.seen[i] = kv[q[j]].key
    BY <2>2 DEF Passed
  <2>6. kv'[q[j]].key = kv[q[j]].key
    BY <2>4
  <2> QED
    BY <2>3, <2>4, <2>5, <2>6
<1>7. iter.seen \in Seq(Keys) /\ Len(iter.seen) < m
  BY <1>1, <1>2, <1>3, <1>4 DEF Passed
<1>8. Passed(r, m)'
  BY <1>3, <1>5, <1>6, <1>7 DEF Passed
<1> QED
  BY <1>8

LEMMA SetKeeps == ASSUME LinkedListAssumption, StorageAssumption, PairInv, NEW k \in Keys, Set(k) PROVE PairInv'
<1>1. PICK q : PairList(q)
  BY DEF PairInv
<1>2. PICK t \in Types, v \in Numbers :
        /\ FindSet(k, [type |-> t, val |-> v])
        /\ db' = [db EXCEPT ![k] = [type |-> t, val |-> v]]
        /\ UNCHANGED <<got, iter>>
  BY DEF Set
<1> DEFINE d == [type |-> t, val |-> v]
           p == FindPair(k)
<1>3. d \in Data /\ d.type \in Types /\ d # Nothing
  BY <1>2, NoneIsFree DEF Data, StorageAssumption
<1> HIDE DEF d
<1>4. /\ kv \in [Items -> [key : Keys \cup {Null}, data : Data]] /\ db \in [Keys -> Data]
      /\ \A j \in Keys : db[j] = Nothing \/ db[j].type \in Types
      /\ IsList(pairs, q) /\ ToSet(q) = Used /\ Holds(kv, db, Used) /\ Used \subseteq Items
  BY <1>1 DEF PairInv, PairTypes, PairList, Used
<1>5. db' = [db EXCEPT ![k] = d] /\ FindSet(k, d)
  BY <1>2 DEF d
<1>6. \/ p = Null /\ db[k] = Nothing /\ \A r \in Used : kv[r].key # k
      \/ p # Null /\ p \in Used /\ kv[p].key = k
  BY <1>1, PairIs DEF PairInv
<1> HIDE DEF p
<1>7. CASE p # Null
  <2>1. p \in Used /\ kv[p].key = k /\ kv' = [kv EXCEPT ![p].data = d] /\ UNCHANGED pairs
    BY <1>5, <1>6, <1>7 DEF FindSet, p
  <2>2. kv'[p] = [key |-> k, data |-> d] /\ \A r \in Items : r # p => kv'[r] = kv[r]
    BY <1>4, <2>1
  <2>3. kv' \in [Items -> [key : Keys \cup {Null}, data : Data]]
    BY <1>3, <1>4, <2>1
  <2>4. \A r \in Items : kv'[r].key = kv[r].key
    BY <1>4, <2>1, <2>2
  <2>5. kv'[p] # Free
    BY <1>3, <2>2, NoneIsFree
  <2>6. Used' = Used
    BY <1>4, <2>1, <2>2, <2>5 DEF Used
  <2>7. Holds(kv', db', Used)
    <3>1. ASSUME NEW r \in Used PROVE kv'[r].key \in Keys /\ kv'[r].data = db'[kv'[r].key] /\ kv'[r].data # Nothing
      <4>1. kv[r].key \in Keys /\ kv[r].data = db[kv[r].key] /\ kv[r].data # Nothing
            /\ (r # p => kv[r].key # k)
        BY <1>4, <2>1 DEF Holds
      <4>2. CASE r = p
        BY <1>3, <1>4, <1>5, <2>2, <4>2
      <4>3. CASE r # p
        BY <1>4, <1>5, <2>2, <4>1, <4>3
      <4> QED
        BY <4>2, <4>3
    <3>2. \A r, s \in Used : kv'[r].key = kv'[s].key => r = s
      BY <1>4, <2>4 DEF Holds
    <3>3. ASSUME NEW j \in Keys, db'[j] # Nothing PROVE \E r \in Used : kv'[r].key = j
      BY <1>4, <1>5, <2>1, <2>4, <3>3 DEF Holds
    <3> QED
      BY <3>1, <3>2, <3>3 DEF Holds
  <2>8. iter'.at = "list" => \E n \in 1 .. Len(q) + 1 : Passed(q, n)'
    BY <1>1, <1>2, <1>4, <2>4, PassedKept DEF PairList
  <2>9. PairList(q)'
    BY <1>4, <2>1, <2>6, <2>7, <2>8 DEF PairList
  <2>10. PairTypes'
    BY <1>2, <1>3, <1>4, <1>5, <2>3 DEF PairInv, PairTypes
  <2> QED
    BY <2>9, <2>10 DEF PairInv
<1>8. CASE p = Null
  <2>1. PICK new \in Blocks \ Used :
          /\ kv' = [kv EXCEPT ![new] = [key |-> k, data |-> d]]
          /\ pairs' = ListPush(pairs, new)
    BY <1>5, <1>8 DEF FindSet, p
  <2>2. new \in Items /\ new \notin Used
    BY <2>1 DEF StorageAssumption
  <2>3. kv'[new] = [key |-> k, data |-> d] /\ \A r \in Items : r # new => kv'[r] = kv[r]
    BY <1>4, <2>1, <2>2
  <2>4. kv' \in [Items -> [key : Keys \cup {Null}, data : Data]]
    BY <1>3, <1>4, <2>1
  <2>5. kv'[new] # Free
    BY <1>3, <2>3, NoneIsFree
  <2>6. Used' = Used \cup {new}
    BY <2>2, <2>3, <2>5 DEF Used
  <2>7. \A r \in Used : kv[r].key # k
    BY <1>6, <1>8
  <2>8. Holds(kv', db', Used')
    <3>1. ASSUME NEW r \in Used PROVE kv'[r].key \in Keys /\ kv'[r].data = db'[kv'[r].key] /\ kv'[r].data # Nothing
      BY <1>4, <1>5, <2>2, <2>3, <2>7 DEF Holds
    <3>2. kv'[new].key = k /\ kv'[new].data = db'[k] /\ kv'[new].data # Nothing
      BY <1>3, <1>4, <1>5, <2>3
    <3>3. \A r, s \in Used' : kv'[r].key = kv'[s].key => r = s
      BY <1>4, <2>2, <2>3, <2>6, <2>7, <3>2 DEF Holds
    <3>4. ASSUME NEW j \in Keys, db'[j] # Nothing PROVE \E r \in Used' : kv'[r].key = j
      <4>1. CASE j = k
        BY <2>6, <3>2, <4>1
      <4>2. CASE j # k
        <5>1. PICK r \in Used : kv[r].key = j
          BY <1>4, <1>5, <3>4, <4>2 DEF Holds
        <5>2. kv'[r] = kv[r]
          BY <1>4, <2>2, <2>3
        <5> QED
          BY <2>6, <5>1, <5>2
      <4> QED
        BY <4>1, <4>2
    <3> QED
      BY <2>6, <3>1, <3>2, <3>3, <3>4 DEF Holds
  <2> DEFINE r == InsertAt(q, 1, new)
  <2>9. IsList(pairs', r) /\ ToSet(r) = Used'
    BY <1>4, <2>1, <2>2, <2>6, PushIs
  <2>10. iter'.at = "list" => \E n \in 1 .. Len(r) + 1 : Passed(r, n)'
    <3> SUFFICES ASSUME iter'.at = "list" PROVE \E n \in 1 .. Len(r) + 1 : Passed(r, n)'
      OBVIOUS
    <3>1. PICK n \in 1 .. Len(q) + 1 : Passed(q, n)
      BY <1>1, <1>2 DEF PairList
    <3>2. \A s \in ToSet(q) : kv'[s].key = kv[s].key
      BY <1>4, <2>2, <2>3
    <3> HIDE DEF r
    <3>3. r = InsertAt(q, 1, new)
      BY DEF r
    <3> QED
      BY <1>2, <1>4, <2>2, <3>1, <3>2, <3>3, PassedPushed
  <2> HIDE DEF r
  <2>11. PairList(r)'
    BY <2>8, <2>9, <2>10 DEF PairList
  <2>12. PairTypes'
    BY <1>2, <1>3, <1>4, <1>5, <2>4 DEF PairInv, PairTypes
  <2> QED
    BY <2>11, <2>12 DEF PairInv
<1> QED
  BY <1>7, <1>8

LEMMA EraseKeeps == ASSUME LinkedListAssumption, PairInv, NEW k \in Keys, Erase(k) PROVE PairInv'
<1>1. PICK q : PairList(q)
  BY DEF PairInv
<1> DEFINE p == FindPair(k)
<1>2. /\ iter.at = "none" /\ p # Null
      /\ pairs' = ListRemove(pairs, p) /\ kv' = [kv EXCEPT ![p] = Free]
      /\ db' = [db EXCEPT ![k] = Nothing] /\ UNCHANGED <<got, iter>>
  BY DEF Erase
<1>3. /\ kv \in [Items -> [key : Keys \cup {Null}, data : Data]] /\ db \in [Keys -> Data]
      /\ \A j \in Keys : db[j] = Nothing \/ db[j].type \in Types
      /\ IsList(pairs, q) /\ ToSet(q) = Used /\ Holds(kv, db, Used) /\ Used \subseteq Items
  BY <1>1 DEF PairInv, PairTypes, PairList, Used
<1>4. p \in Used /\ kv[p].key = k
  BY <1>1, <1>2, PairIs DEF PairInv
<1> HIDE DEF p
<1>5. PICK r : IsList(pairs', r) /\ ToSet(r) = Used \ {p}
  BY <1>2, <1>3, <1>4, RemoveIs
<1>6. kv'[p] = Free /\ \A s \in Items : s # p => kv'[s] = kv[s]
  BY <1>2, <1>3, <1>4
<1>7. Used' = Used \ {p}
  BY <1>3, <1>4, <1>6 DEF Used
<1>8. Holds(kv', db', Used')
  <2>1. \A s \in Used' : s \in Used /\ kv'[s] = kv[s] /\ kv[s].key # k
    BY <1>3, <1>4, <1>6, <1>7 DEF Holds
  <2>2. \A j \in Keys : j # k => db'[j] = db[j]
    BY <1>2, <1>3
  <2>3. \A s \in Used' : kv'[s].key \in Keys /\ kv'[s].data = db'[kv'[s].key] /\ kv'[s].data # Nothing
    BY <1>3, <2>1, <2>2 DEF Holds
  <2>4. \A s, u \in Used' : kv'[s].key = kv'[u].key => s = u
    BY <1>3, <2>1 DEF Holds
  <2>5. ASSUME NEW j \in Keys, db'[j] # Nothing PROVE \E s \in Used' : kv'[s].key = j
    <3>1. j # k
      BY <1>2, <1>3, <2>5
    <3>2. PICK s \in Used : kv[s].key = j
      BY <1>3, <2>2, <2>5, <3>1 DEF Holds
    <3>3. s \in Used'
      BY <1>4, <1>7, <3>1, <3>2
    <3> QED
      BY <2>1, <3>2, <3>3
  <2> QED
    BY <2>3, <2>4, <2>5 DEF Holds
<1>9. PairList(r)'
  BY <1>2, <1>5, <1>7, <1>8 DEF PairList
<1>10. PairTypes'
  <2>1. Free \in [key : Keys \cup {Null}, data : Data]
    BY NoneIsFree DEF Free
  <2> QED
    BY <1>2, <1>3, <2>1, NoneIsFree DEF PairInv, PairTypes
<1> QED
  BY <1>9, <1>10 DEF PairInv

LEMMA ClearKeeps == ASSUME LinkedListAssumption, PairInv, Clear PROVE PairInv'
<1>1. PICK q : PairList(q)
  BY DEF PairInv
<1>2. /\ iter.at = "none" /\ pairs' = Empty
      /\ kv' = [p \in Items |-> IF p \in {Walk(pairs)[i] : i \in 1 .. Size(pairs)} THEN Free ELSE kv[p]]
      /\ db' = [k \in Keys |-> Nothing] /\ UNCHANGED <<got, iter>>
  BY DEF Clear
<1>3. {Walk(pairs)[i] : i \in 1 .. Size(pairs)} = Used
  <2>1. Walk(pairs) = q /\ ToSet(q) = Used /\ q \in Seq(Items) /\ Distinct(q)
    BY <1>1, WalkIs DEF PairList, IsList
  <2> QED
    BY <2>1, SeqFacts DEF Size
<1>4. kv' = [p \in Items |-> Free]
  <2>1. \A p \in Items \ Used : kv[p] = Free
    BY DEF Used
  <2> QED
    BY <1>2, <1>3, <2>1
<1>5. Used' = {}
  BY <1>4 DEF Used
<1>6. Holds(kv', db', {})
  BY <1>2 DEF Holds
<1>7. PairList(<<>>)'
  BY <1>2, <1>5, <1>6, EmptyIs DEF PairList
<1>8. PairTypes'
  <2>1. Free \in [key : Keys \cup {Null}, data : Data]
    BY NoneIsFree DEF Free
  <2> QED
    BY <1>2, <1>4, <2>1, NoneIsFree DEF PairInv, PairTypes
<1> QED
  BY <1>7, <1>8 DEF PairInv

\* The iterator: at the first, on to the next, at none.
LEMMA IterKeeps == ASSUME LinkedListAssumption, PairInv, Start \/ ListGet \/ EndList PROVE PairInv'
<1>1. PICK q : PairList(q)
  BY DEF PairInv
<1>2. UNCHANGED <<pairs, kv, db, got>>
  BY DEF Start, ListGet, EndList
<1>3. IsList(pairs, q) /\ ToSet(q) = Used /\ Holds(kv, db, Used)
  BY <1>1 DEF PairList
<1>4. /\ q \in Seq(Items) /\ Len(q) \in Nat /\ pairs.head = Link(q, 1)
      /\ \A i \in 1 .. Len(q) : q[i] \in Items
  BY <1>3, SeqFacts DEF IsList
<1>5. iter' = [at |-> iter'.at, item |-> iter'.item, seen |-> iter'.seen]
  BY DEF PairInv, PairTypes, Start, ListGet, EndList
<1>6. iter'.at = "list" => \E n \in 1 .. Len(q) + 1 : Passed(q, n)'
  <2>1. CASE Start
    <3>1. 1 \in 1 .. Len(q) + 1 /\ iter'.item = Link(q, 1) /\ iter'.seen = <<>> /\ <<>> \in Seq(Keys) /\ Len(<<>>) = 0
      BY <1>4, <2>1 DEF Start
    <3> QED
      BY <3>1 DEF Passed
  <2>2. CASE EndList
    BY <2>2 DEF EndList
  <2>3. CASE ListGet
    <3>1. iter.at = "list" /\ iter.item # Null
      BY <2>3 DEF ListGet
    <3>2. PICK n \in 1 .. Len(q) + 1 : Passed(q, n)
      BY <1>1, <3>1 DEF PairList
    <3>3. /\ n \in 1 .. Len(q) /\ n + 1 \in 1 .. Len(q) + 1
          /\ iter.item = q[n] /\ q[n] \in ToSet(q) /\ pairs.next[q[n]] = Link(q, n + 1)
      <4>1. n \in 1 .. Len(q) /\ iter.item = q[n]
        BY <1>4, <3>1, <3>2 DEF Passed, Link
      <4> QED
        BY <1>3, <1>4, <4>1, AtIn DEF IsList
    <3>4. kv[q[n]].key \in Keys
      BY <1>3, <3>3 DEF Holds
    <3> DEFINE seen == Append(iter.seen, kv[q[n]].key)
    <3>5. iter'.item = Link(q, n + 1) /\ iter'.seen = seen
      BY <2>3, <3>3 DEF ListGet, PairInv, PairTypes
    <3>6. iter.seen \in Seq(Keys) /\ Len(iter.seen) \in Nat /\ Len(iter.seen) < n
      BY <3>2, LenProperties DEF Passed
    <3>7. /\ seen \in Seq(Keys) /\ Len(seen) = Len(iter.seen) + 1 /\ seen[Len(iter.seen) + 1] = kv[q[n]].key
          /\ \A i \in 1 .. Len(iter.seen) : seen[i] = iter.seen[i]
      BY <3>4, <3>6, AppendProperties
    <3> HIDE DEF seen
    <3>8. ASSUME NEW i \in 1 .. Len(seen) PROVE seen[i] = kv[q[n + 1 - 1 - Len(seen) + i]].key
      <4>1. n + 1 - 1 - Len(seen) + i = n - 1 - Len(iter.seen) + i
        BY <1>4, <3>6, <3>7
      <4>2. CASE i = Len(iter.seen) + 1
        <5>1. n - 1 - Len(iter.seen) + i = n
          BY <1>4, <3>6, <4>2
        <5> QED
          BY <3>7, <4>1, <4>2, <5>1
      <4>3. CASE i # Len(iter.seen) + 1
        <5>1. i \in 1 .. Len(iter.seen)
          BY <3>6, <3>7, <4>3
        <5> QED
          BY <3>2, <3>7, <4>1, <5>1 DEF Passed
      <4> QED
        BY <4>2, <4>3
    <3>9. Len(seen) < n + 1
      BY <3>6, <3>7
    <3>10. Passed(q, n + 1)'
      BY <1>2, <3>5, <3>7, <3>8, <3>9 DEF Passed
    <3> QED
      BY <3>3, <3>10
  <2> QED
    BY <2>1, <2>2, <2>3
<1>7. PairList(q)'
  BY <1>2, <1>3, <1>6 DEF PairList, Used
<1>8. PairTypes'
  BY <1>2, <1>5 DEF PairInv, PairTypes
<1> QED
  BY <1>7, <1>8 DEF PairInv

\* The pairs and the iterator stay as they are.
LEMMA PairSame == ASSUME PairInv, UNCHANGED <<pairs, kv, db, iter>>, got'[1] = got'[2] PROVE PairInv'
<1>1. PICK q : PairList(q)
  BY DEF PairInv
<1>2. PairList(q)'
  BY <1>1 DEF PairList, Passed, Used, IsList
<1>3. PairTypes'
  BY DEF PairInv, PairTypes
<1> QED
  BY <1>2, <1>3 DEF PairInv

LEMMA MemKeeps == ASSUME LinkedListAssumption, StorageAssumption, PairInv, MemNext PROVE PairInv'
<1>1. ASSUME NEW k \in Keys, Get(k) \/ GetBlob(k) \/ GetType(k) PROVE PairInv'
  <2>1. UNCHANGED <<pairs, kv, db, iter>>
    BY <1>1 DEF Get, GetBlob, GetType
  <2> QED
    BY <1>1, <2>1, ReadsWhatIs, PairSame
<1> QED
  BY <1>1, SetKeeps, EraseKeeps, ClearKeeps, IterKeeps DEF MemNext

LEMMA PairsOk == ASSUME LinkedListAssumption PROVE PairInv => PairsAreMap
<1> SUFFICES ASSUME PairInv PROVE PairsAreMap
  OBVIOUS
<1>1. PICK q : PairList(q)
  BY DEF PairInv
<1>2. /\ IsList(pairs, q) /\ ToSet(q) = Used /\ Holds(kv, db, Used) /\ Walk(pairs) = q
      /\ q \in Seq(Items) /\ Distinct(q)
  BY <1>1, WalkIs DEF PairList, IsList
<1>3. {q[i] : i \in DOMAIN q} = Used /\ Len(q) = Cardinality(Used)
  BY <1>2, SizeBound DEF ToSet
<1>4. \A p \in Used : kv[p].data = db[kv[p].key]
  BY <1>2 DEF Holds
<1>5. \A k \in Keys : db[k] = Nothing <=> FindPair(k) = Null
  BY <1>1, PairIs DEF PairInv
<1>6. got[1] = got[2]
  BY DEF PairInv, PairTypes
<1>7. ASSUME iter.at = "list", NEW i \in DOMAIN iter.seen, NEW j \in DOMAIN iter.seen, i # j
      PROVE  iter.seen[i] # iter.seen[j]
  <2>1. PICK n \in 1 .. Len(q) + 1 : Passed(q, n)
    BY <1>1, <1>7 DEF PairList
  <2>2. /\ Len(q) \in Nat /\ \A a, b \in 1 .. Len(q) : q[a] = q[b] => a = b
    BY <1>2, SeqFacts
  <2>3. /\ Len(iter.seen) \in Nat /\ Len(iter.seen) < n /\ i \in 1 .. Len(iter.seen) /\ j \in 1 .. Len(iter.seen)
    BY <1>7, <2>1, LenProperties DEF Passed
  <2>4. PICK m \in Nat : m = Len(iter.seen)
    BY <2>3
  <2>5. n - 1 - m + i \in 1 .. Len(q) /\ n - 1 - m + j \in 1 .. Len(q) /\ n - 1 - m + i # n - 1 - m + j
    <3>1. m < n /\ i \in 1 .. m /\ j \in 1 .. m /\ i # j /\ Len(q) \in Nat
      BY <1>7, <2>2, <2>3, <2>4
    <3> QED
      BY <3>1
  <2>7. PICK a \in 1 .. Len(q), b \in 1 .. Len(q) : a = n - 1 - m + i /\ b = n - 1 - m + j
    BY <2>5
  <2>6. iter.seen[i] = kv[q[a]].key /\ iter.seen[j] = kv[q[b]].key
    BY <2>1, <2>3, <2>4, <2>7 DEF Passed
  <2>8. q[a] # q[b] /\ q[a] \in Used /\ q[b] \in Used
    BY <1>2, <2>2, <2>5, <2>7, AtIn
  <2> QED
    BY <1>2, <2>6, <2>8 DEF Holds
<1> QED
  BY <1>2, <1>3, <1>4, <1>5, <1>6, <1>7 DEF PairsAreMap

NvsTypes ==
  /\ nvs \in [Keys -> Data] /\ flash \in [Keys -> Data] /\ acked \in [Keys -> Data]
  /\ param \in Allowed \cup {Default}

\* A command that is under way has a key, or the keys that it has still to show.
CmdShape ==
  /\ cmd.at \in {"commit", "capture"} => cmd.key \in Keys
  /\ cmd.at = "commit" => cmd = [at |-> "commit", key |-> cmd.key]
  /\ cmd.at = "capture" =>
       cmd = [at |-> "capture", key |-> cmd.key, last |-> cmd.last, idx |-> cmd.idx] /\ cmd.idx \in Nat
  /\ cmd.at = "list" =>
       cmd = [at |-> "list", todo |-> cmd.todo, shown |-> cmd.shown] /\ cmd.todo \in Seq(Keys)

\* What is stored is in the flash, too.
Safe == \A k \in Keys : acked[k] # Nothing => nvs[k] = acked[k] /\ flash[k] = acked[k]

\* A list shows what is there, and has shown all that it has not still to show.
ShowsAll(todo, shown) ==
  /\ \A k \in Keys, t \in Types : <<k, t>> \in shown => nvs[k].type = t
  /\ \A k \in Keys \ ToSet(todo), t \in Types : nvs[k].type = t => <<k, t>> \in shown

NvsInv == NvsTypes /\ CmdShape /\ Safe /\ (cmd.at = "list" => ShowsAll(cmd.todo, cmd.shown))

\* What typing and showing do to a command.
LEMMA TypeStep ==
  ASSUME NEW a, NEW b, NEW c, NEW d, NEW e, NEW f
  PROVE  [[at |-> a, key |-> b, last |-> c, idx |-> d] EXCEPT !.last = e, !.idx = f]
           = [at |-> a, key |-> b, last |-> e, idx |-> f]
<1> DEFINE r == [at |-> a, key |-> b, last |-> c, idx |-> d]
           s == [at |-> a, key |-> b, last |-> e, idx |-> d]
<1>1. [r EXCEPT !.last = e, !.idx = f] = [[r EXCEPT !.last = e] EXCEPT !.idx = f]
  OBVIOUS
<1>2. [r EXCEPT !.last = e] = s
  OBVIOUS
<1>3. [s EXCEPT !.idx = f] = [at |-> a, key |-> b, last |-> e, idx |-> f]
  OBVIOUS
<1> HIDE DEF r, s
<1>4. [r EXCEPT !.last = e, !.idx = f] = [at |-> a, key |-> b, last |-> e, idx |-> f]
  BY <1>1, <1>2, <1>3
<1> QED
  BY <1>4 DEF r

LEMMA ShowStep ==
  ASSUME NEW a, NEW b, NEW c, NEW e, NEW f
  PROVE  [[at |-> a, todo |-> b, shown |-> c] EXCEPT !.todo = e, !.shown = f]
           = [at |-> a, todo |-> e, shown |-> f]
<1> DEFINE r == [at |-> a, todo |-> b, shown |-> c]
           s == [at |-> a, todo |-> e, shown |-> c]
<1>1. [r EXCEPT !.todo = e, !.shown = f] = [[r EXCEPT !.todo = e] EXCEPT !.shown = f]
  OBVIOUS
<1>2. [r EXCEPT !.todo = e] = s
  OBVIOUS
<1>3. [s EXCEPT !.shown = f] = [at |-> a, todo |-> e, shown |-> f]
  OBVIOUS
<1> HIDE DEF r, s
<1>4. [r EXCEPT !.todo = e, !.shown = f] = [at |-> a, todo |-> e, shown |-> f]
  BY <1>1, <1>2, <1>3
<1> QED
  BY <1>4 DEF r

\* A sequence of all of a set.
LEMMA OrderIs ==
  ASSUME NEW S, IsFiniteSet(S), NEW q \in SetToSeqs(S)
  PROVE  q \in Seq(S) /\ ToSet(q) = S
<1> DEFINE n == Cardinality(S)
<1>1. n \in Nat
  BY FS_CardinalityType
<1>2. q \in [1 .. n -> S] /\ \A i, j \in 1 .. n : i # j => q[i] # q[j]
  BY DEF SetToSeqs
<1>3. IsFiniteSet(1 .. n) /\ Cardinality(1 .. n) = n
  BY <1>1, FS_Interval
<1> HIDE DEF n
<1>4. q \in Seq(S) /\ DOMAIN q = 1 .. n
  BY <1>1, <1>2
<1>5. ToSet(q) = {q[i] : i \in 1 .. n} /\ ToSet(q) \subseteq S
  BY <1>2, <1>4 DEF ToSet
<1>6. q \in Bijection(1 .. n, ToSet(q))
  <2>1. q \in [1 .. n -> ToSet(q)]
    BY <1>2, <1>5
  <2>2. IsInjective(q)
    BY <1>2 DEF IsInjective
  <2>3. q \in Surjection(1 .. n, ToSet(q))
    BY <1>5, <2>1 DEF Surjection
  <2> QED
    BY <2>1, <2>2, <2>3, Zenon DEF Injection, Bijection
<1>7. Cardinality(ToSet(q)) = n
  BY <1>3, <1>6, FS_Bijection, Zenon DEF ExistsBijection
<1>8. ToSet(q) = S
  BY <1>5, <1>7, FS_Subset DEF n
<1> QED
  BY <1>4, <1>8

\* The keys that are left when the first is shown.
LEMMA RestIs ==
  ASSUME NEW q \in Seq(Keys), q # <<>>
  PROVE  /\ Head(q) \in Keys /\ Tail(q) \in Seq(Keys)
         /\ \A k \in ToSet(q) : k = Head(q) \/ k \in ToSet(Tail(q))
<1>1. Len(q) \in Nat /\ Len(q) # 0 /\ DOMAIN q = 1 .. Len(q) /\ \A i \in 1 .. Len(q) : q[i] \in Keys
  BY LenProperties, EmptySeq
<1>2. Head(q) = q[1] /\ Head(q) \in Keys /\ Tail(q) \in Seq(Keys) /\ Len(Tail(q)) = Len(q) - 1
      /\ \A i \in 1 .. Len(q) - 1 : Tail(q)[i] = q[i + 1]
  BY <1>1, HeadTailProperties
<1>3. DOMAIN Tail(q) = 1 .. Len(q) - 1
  BY <1>2, LenProperties
<1>4. ASSUME NEW k \in ToSet(q), k # Head(q) PROVE k \in ToSet(Tail(q))
  <2>1. PICK i \in 1 .. Len(q) : k = q[i]
    BY <1>1 DEF ToSet
  <2>2. PICK j \in 1 .. Len(q) - 1 : i = j + 1
    <3>1. i - 1 \in 1 .. Len(q) - 1 /\ i = (i - 1) + 1
      BY <1>1, <1>2, <1>4, <2>1
    <3> QED
      BY <3>1
  <2>3. Tail(q)[j] = k
    BY <1>2, <2>1, <2>2
  <2> QED
    BY <1>3, <2>3 DEF ToSet
<1> QED
  BY <1>2, <1>4

LEMMA NvsStart == StorageInit => NvsInv
<1> SUFFICES ASSUME StorageInit PROVE NvsInv
  OBVIOUS
<1>1. nvs = [k \in Keys |-> Nothing] /\ flash = nvs /\ acked = nvs /\ cmd = [at |-> "idle"] /\ param = Default
  BY DEF StorageInit
<1> QED
  BY <1>1, NoneIsFree DEF NvsInv, NvsTypes, CmdShape, Safe

\* A command is over, or never was.
LEMMA AtRest == ASSUME NvsTypes', Safe', cmd' = [at |-> "idle"] PROVE NvsInv'
  BY DEF NvsInv, CmdShape

LEMMA SetNvsKeeps ==
  ASSUME StorageAssumption, NvsInv, NEW k \in Keys, NEW data \in Data, NvsSet(k, data), UNCHANGED <<flash, param>>
  PROVE  NvsInv'
<1>1. /\ nvs' = [nvs EXCEPT ![k] = data] /\ acked' = [acked EXCEPT ![k] = Nothing]
      /\ cmd' = [at |-> "commit", key |-> k]
  BY DEF NvsSet
<1>2. NvsTypes'
  BY <1>1, NoneIsFree DEF NvsInv, NvsTypes
<1>3. Safe'
  BY <1>1 DEF NvsInv, NvsTypes, Safe
<1>4. CmdShape' /\ cmd'.at # "list"
  BY <1>1 DEF CmdShape
<1> QED
  BY <1>2, <1>3, <1>4 DEF NvsInv

LEMMA CommandKeeps ==
  ASSUME StorageAssumption, NvsInv, CmdSet \/ CmdDel \/ Commit \/ CmdBlob PROVE NvsInv'
<1>1. CASE CmdSet
  <2>1. PICK k \in Keys, data \in Stored : NvsSet(k, data) \/ UNCHANGED <<nvs, cmd, acked>>
    BY <1>1 DEF CmdSet
  <2>2. UNCHANGED <<flash, param>>
    BY <1>1 DEF CmdSet
  <2>3. data \in Data
    BY <2>1 DEF Stored, Data, Types, StorageAssumption
  <2>4. CASE UNCHANGED <<nvs, cmd, acked>>
    BY <2>2, <2>4 DEF NvsInv, NvsTypes, CmdShape, Safe, ShowsAll
  <2> QED
    BY <2>1, <2>2, <2>3, <2>4, SetNvsKeeps
<1>2. CASE CmdDel
  <2>1. PICK k \in Keys : NvsSet(k, Nothing)
    BY <1>2 DEF CmdDel
  <2> QED
    BY <1>2, <2>1, NoneIsFree, SetNvsKeeps DEF CmdDel
<1>3. CASE Commit
  <2>1. /\ cmd.at = "commit" /\ flash' = nvs /\ acked' = [acked EXCEPT ![cmd.key] = nvs[cmd.key]]
        /\ cmd' = [at |-> "idle"] /\ UNCHANGED <<nvs, param>>
    BY <1>3 DEF Commit
  <2>2. cmd.key \in Keys
    BY <2>1 DEF NvsInv, CmdShape
  <2>3. NvsTypes' /\ Safe'
    BY <2>1, <2>2 DEF NvsInv, NvsTypes, Safe
  <2> QED
    BY <2>1, <2>3, AtRest
<1>4. CASE CmdBlob
  <2>1. PICK k \in Keys : cmd' = [at |-> "capture", key |-> k, last |-> "other", idx |-> 0]
    BY <1>4 DEF CmdBlob
  <2>2. CmdShape' /\ cmd'.at # "list"
    BY <2>1 DEF CmdShape
  <2> QED
    BY <1>4, <2>2 DEF CmdBlob, NvsInv, NvsTypes, Safe
<1> QED
  BY <1>1, <1>2, <1>3, <1>4

LEMMA CapturedKeeps == ASSUME StorageAssumption, NvsInv, Captured PROVE NvsInv'
<1>1. cmd.at = "capture" /\ UNCHANGED <<flash, param>>
  BY DEF Captured
<1>2. /\ cmd.key \in Keys /\ cmd.idx \in Nat
      /\ cmd = [at |-> "capture", key |-> cmd.key, last |-> cmd.last, idx |-> cmd.idx]
  BY <1>1 DEF NvsInv, CmdShape
<1>3. PICK c \in {"eol", "other"} :
        IF c = "eol" /\ cmd.last = "eol"
          THEN /\ \/ nvs' = [nvs EXCEPT ![cmd.key] = [type |-> "BLOB", val |-> cmd.idx]]
                  \/ UNCHANGED nvs
               /\ acked' = IF nvs' = nvs THEN acked ELSE [acked EXCEPT ![cmd.key] = Nothing]
               /\ cmd' = [at |-> "idle"]
          ELSE /\ cmd.idx < MaxBlob
               /\ cmd' = [cmd EXCEPT !.last = c, !.idx = @ + 1]
               /\ UNCHANGED <<nvs, acked>>
  BY DEF Captured
<1>4. CASE c = "eol" /\ cmd.last = "eol"
  <2>1. [type |-> "BLOB", val |-> cmd.idx] \in Data
    BY <1>2 DEF Data, Types
  <2>2. CASE nvs' = nvs
    <3>1. acked' = acked /\ cmd' = [at |-> "idle"]
      BY <1>3, <1>4, <2>2
    <3>2. NvsTypes' /\ Safe'
      BY <1>1, <2>2, <3>1 DEF NvsInv, NvsTypes, Safe
    <3> QED
      BY <3>1, <3>2, AtRest
  <2>3. CASE nvs' # nvs
    <3>1. /\ nvs' = [nvs EXCEPT ![cmd.key] = [type |-> "BLOB", val |-> cmd.idx]]
          /\ acked' = [acked EXCEPT ![cmd.key] = Nothing] /\ cmd' = [at |-> "idle"]
      BY <1>3, <1>4, <2>3
    <3>2. NvsTypes'
      BY <1>1, <1>2, <2>1, <3>1, NoneIsFree DEF NvsInv, NvsTypes
    <3>3. Safe'
      BY <1>1, <1>2, <3>1 DEF NvsInv, NvsTypes, Safe
    <3> QED
      BY <3>1, <3>2, <3>3, AtRest
  <2> QED
    BY <2>2, <2>3
<1>5. CASE ~(c = "eol" /\ cmd.last = "eol")
  <2>1. cmd' = [cmd EXCEPT !.last = c, !.idx = @ + 1] /\ UNCHANGED <<nvs, acked>>
    BY <1>3, <1>5
  <2>2. cmd' = [at |-> "capture", key |-> cmd.key, last |-> c, idx |-> cmd.idx + 1]
    <3>1. PICK b, l, i : cmd = [at |-> "capture", key |-> b, last |-> l, idx |-> i]
      BY <1>2
    <3>2. cmd.key = b /\ cmd.idx = i
      BY <3>1
    <3>3. cmd' = [[at |-> "capture", key |-> b, last |-> l, idx |-> i] EXCEPT !.last = c, !.idx = i + 1]
      BY <2>1, <3>1, <3>2
    <3> QED
      BY <3>2, <3>3, TypeStep
  <2>3. CmdShape' /\ cmd'.at # "list"
    BY <1>2, <2>2 DEF CmdShape
  <2> QED
    BY <1>1, <2>1, <2>3 DEF NvsInv, NvsTypes, Safe
<1> QED
  BY <1>4, <1>5

LEMMA ListKeeps == ASSUME StorageAssumption, NvsInv, CmdList \/ ListNext \/ ListDone PROVE NvsInv'
<1>1. UNCHANGED <<nvs, flash, acked, param>>
  BY DEF CmdList, ListNext, ListDone
<1>2. NvsTypes' /\ Safe'
  BY <1>1 DEF NvsInv, NvsTypes, Safe
<1>3. CASE CmdList
  <2> DEFINE S == {k \in Keys : nvs[k] # Nothing}
  <2>1. PICK order \in SetToSeqs(S) : cmd' = [at |-> "list", todo |-> order, shown |-> {}]
    BY <1>3 DEF CmdList
  <2>2. IsFiniteSet(S)
    BY FS_Subset DEF StorageAssumption
  <2>3. order \in Seq(S) /\ ToSet(order) = S
    BY <2>1, <2>2, OrderIs
  <2>4. order \in Seq(Keys)
    BY <2>3
  <2>5. CmdShape'
    BY <2>1, <2>4 DEF CmdShape
  <2>6. ASSUME NEW k \in Keys \ ToSet(order), NEW t \in Types PROVE nvs[k].type # t
    BY <2>3, <2>6, NoneIsFree
  <2>7. ShowsAll(order, {})'
    BY <1>1, <2>6 DEF ShowsAll
  <2>8. cmd'.todo = order /\ cmd'.shown = {}
    BY <2>1
  <2> QED
    BY <1>2, <2>5, <2>7, <2>8 DEF NvsInv
<1>4. CASE ListNext
  <2>1. cmd.at = "list" /\ cmd.todo # <<>>
    BY <1>4 DEF ListNext
  <2> DEFINE k == Head(cmd.todo)
  <2>2. cmd' = [cmd EXCEPT !.todo = Tail(@), !.shown = @ \cup {<<k, nvs[k].type>>}]
    BY <1>4 DEF ListNext, NvsType
  <2>3. /\ cmd.todo \in Seq(Keys) /\ ShowsAll(cmd.todo, cmd.shown)
        /\ cmd = [at |-> "list", todo |-> cmd.todo, shown |-> cmd.shown]
    BY <2>1 DEF NvsInv, CmdShape
  <2>4. k \in Keys /\ Tail(cmd.todo) \in Seq(Keys) /\ \A j \in ToSet(cmd.todo) : j = k \/ j \in ToSet(Tail(cmd.todo))
    BY <2>1, <2>3, RestIs
  <2> HIDE DEF k
  <2>5. cmd' = [at |-> "list", todo |-> Tail(cmd.todo), shown |-> cmd.shown \cup {<<k, nvs[k].type>>}]
    <3>1. PICK b, c : cmd = [at |-> "list", todo |-> b, shown |-> c]
      BY <2>3
    <3>2. cmd.todo = b /\ cmd.shown = c
      BY <3>1
    <3>3. cmd' = [[at |-> "list", todo |-> b, shown |-> c]
                    EXCEPT !.todo = Tail(b), !.shown = c \cup {<<k, nvs[k].type>>}]
      BY <2>2, <3>1, <3>2
    <3> QED
      BY <3>2, <3>3, ShowStep
  <2>6. CmdShape'
    BY <2>4, <2>5 DEF CmdShape
  <2>7. ShowsAll(Tail(cmd.todo), cmd.shown \cup {<<k, nvs[k].type>>})
    BY <2>3, <2>4 DEF ShowsAll
  <2>8. ShowsAll(cmd.todo, cmd.shown)'
    BY <1>1, <2>5, <2>7 DEF ShowsAll
  <2> QED
    BY <1>2, <2>6, <2>8 DEF NvsInv
<1>5. CASE ListDone
  BY <1>2, <1>5, AtRest DEF ListDone
<1> QED
  BY <1>3, <1>4, <1>5

LEMMA RestartKeeps == ASSUME NvsInv, GetParams \/ Restart PROVE NvsInv'
<1>1. CASE GetParams
  <2>1. UNCHANGED <<nvs, flash, acked, cmd>> /\ Idle /\ param' \in Allowed \cup {Default}
    BY <1>1 DEF GetParams, NvsInv, NvsTypes
  <2> QED
    BY <2>1 DEF Idle, NvsInv, NvsTypes, CmdShape, Safe
<1>2. CASE Restart
  <2>1. /\ nvs' \in [Keys -> {nvs[k] : k \in Keys} \cup {flash[k] : k \in Keys}]
        /\ \A k \in Keys : nvs'[k] \in {nvs[k], flash[k]}
        /\ flash' = nvs' /\ cmd' = [at |-> "idle"] /\ param' = Default /\ UNCHANGED acked
    BY <1>2 DEF Restart
  <2>2. NvsTypes'
    BY <2>1 DEF NvsInv, NvsTypes
  <2>3. Safe'
    BY <2>1 DEF NvsInv, Safe
  <2> QED
    BY <2>1, <2>2, <2>3, AtRest
<1> QED
  BY <1>1, <1>2

LEMMA NvsKeeps ==
  ASSUME LinkedListAssumption, StorageAssumption, PairInv, NvsInv, NvsNext PROVE PairInv' /\ NvsInv'
<1>1. CASE CmdGet
  <2>1. PICK k \in Keys :
          got' = <<Shown(NvsGet(k, NvsType(k))), Shown(IF acked[k] # Nothing THEN acked[k] ELSE nvs[k])>>
    BY <1>1 DEF CmdGet
  <2>2. NvsGet(k, NvsType(k)) = nvs[k] /\ (IF acked[k] # Nothing THEN acked[k] ELSE nvs[k]) = nvs[k]
    BY DEF NvsGet, NvsType, NvsInv, Safe
  <2>3. got'[1] = got'[2]
    BY <2>1, <2>2
  <2>4. UNCHANGED <<nvsVars, pairs, kv, db, iter>>
    BY <1>1 DEF CmdGet
  <2> QED
    BY <2>3, <2>4, PairSame DEF nvsVars, NvsInv, NvsTypes, CmdShape, Safe, ShowsAll
<1>2. CASE ~CmdGet
  <2>1. UNCHANGED memVars
    BY <1>2 DEF NvsNext
  <2>2. NvsInv'
    BY <1>2, CommandKeeps, CapturedKeeps, ListKeeps, RestartKeeps DEF NvsNext
  <2>3. PairInv'
    <3>1. UNCHANGED <<pairs, kv, db, iter>> /\ got' = got
      BY <2>1 DEF memVars
    <3>2. got'[1] = got'[2]
      BY <3>1 DEF PairInv, PairTypes
    <3> QED
      BY <3>1, <3>2, PairSame
  <2> QED
    BY <2>2, <2>3
<1> QED
  BY <1>1, <1>2

LEMMA SurvivesOk == NvsInv => AckedSurvives
  BY DEF NvsInv, NvsTypes, Safe, ShowsAll, AckedSurvives

\* The pairs in memory are a map from keys to values, and what a set or del command
\* has stored on the NVS survives a restart at any place.
THEOREM PairsKept ==
  ASSUME LinkedListAssumption, StorageAssumption
  PROVE  StorageSpec => []PairsAreKept
<1>1. StorageInit => PairInv /\ NvsInv
  BY PairStart, NvsStart
<1>2. PairInv /\ NvsInv /\ [StorageNext]_storageVars => (PairInv /\ NvsInv)'
  <2> SUFFICES ASSUME PairInv, NvsInv, [StorageNext]_storageVars PROVE PairInv' /\ NvsInv'
    OBVIOUS
  <2>1. ASSUME UNCHANGED nvsVars PROVE NvsInv'
    BY <2>1 DEF nvsVars, NvsInv, NvsTypes, CmdShape, Safe, ShowsAll
  <2>2. CASE backend = "memory" /\ MemNext /\ UNCHANGED <<backend, nvsVars>>
    BY <2>1, <2>2, MemKeeps
  <2>3. CASE NvsNext
    BY <2>3, NvsKeeps
  <2>4. CASE UNCHANGED storageVars
    <3>1. UNCHANGED <<pairs, kv, db, iter, got>> /\ UNCHANGED nvsVars
      BY <2>4 DEF storageVars, memVars
    <3>2. got'[1] = got'[2]
      BY <3>1 DEF PairInv, PairTypes
    <3> QED
      BY <2>1, <3>1, <3>2, PairSame
  <2> QED
    BY <2>2, <2>3, <2>4 DEF StorageNext
<1>3. PairInv /\ NvsInv => PairsAreKept
  BY PairsOk, SurvivesOk DEF PairsAreKept
<1> QED
  BY <1>1, <1>2, <1>3, PTL DEF StorageSpec

-----------------------------------------------------------------------------
(* Logging.  A message goes along the list: of the outputs that it has     *)
(* passed it has gone to those that take it, and to none of the others.    *)

MsgTypes ==
  /\ level \in [AllOuts -> Levels]
  /\ holder \in Writers \cup {"none"}
  /\ log \in [Writers -> {Quiet} \cup [s : Levels, at : Outs]]
  /\ half \in [AllOuts -> Writers \cup {"none"}]

\* The message of w is at the i-th output.
MsgAt(q, w, i) ==
  /\ q[i] = log[w].at /\ log[w].s <= level[q[i]]
  /\ q[i] \in wrote <=> half[q[i]] = w
  /\ \A j \in 1 .. i - 1 : log[w].s <= level[q[j]] <=> q[j] \in wrote
  /\ \A j \in i + 1 .. Len(q) : q[j] \notin wrote

\* Only the output that a message is at has one part of it.
HalfInv ==
  \A o \in AllOuts : half[o] # "none" =>
    half[o] = holder /\ log[holder] # Quiet /\ log[holder].at = o

LogList(q) ==
  /\ IsList(loggers, q) /\ ToSet(q) \subseteq Outs
  /\ \A w \in Writers : log[w] # Quiet => holder = w /\ \E i \in 1 .. Len(q) : MsgAt(q, w, i)

LogInv == MsgTypes /\ HalfInv /\ ~torn /\ \E q : LogList(q)

LEMMA LogStart == ASSUME LoggerAssumption PROVE LoggerInit => LogInv
<1> SUFFICES ASSUME LoggerInit PROVE LogInv
  OBVIOUS
<1>1. /\ loggers = Empty /\ log = [w \in Writers |-> Quiet] /\ holder = "none"
      /\ half = [o \in AllOuts |-> "none"] /\ torn = FALSE
      /\ level = [o \in AllOuts |-> CHOOSE s \in Levels : TRUE]
  BY DEF LoggerInit
<1>2. (CHOOSE s \in Levels : TRUE) \in Levels
  BY DEF LoggerAssumption
<1>3. MsgTypes
  BY <1>1, <1>2 DEF MsgTypes
<1>4. HalfInv
  BY <1>1 DEF HalfInv
<1>5. LogList(<<>>)
  <2>1. IsList(Empty, <<>>) /\ ToSet(<<>>) = {}
    BY EmptyIs DEF LoggerAssumption
  <2> QED
    BY <1>1, <2>1 DEF LogList
<1> QED
  BY <1>1, <1>3, <1>4, <1>5 DEF LogInv

\* While nobody holds the mutex no message is under way.
LEMMA AllQuiet ==
  ASSUME LoggerAssumption, LogInv, Unlocked
  PROVE  (\A w \in Writers : log[w] = Quiet) /\ (\A o \in AllOuts : half[o] = "none")
<1>1. \A w \in Writers : holder # w
  BY DEF Unlocked, LoggerAssumption
<1>2. PICK q : LogList(q)
  BY DEF LogInv
<1>3. \A w \in Writers : log[w] = Quiet
  BY <1>1, <1>2 DEF LogList
<1>4. ASSUME NEW o \in AllOuts PROVE half[o] = "none"
  BY DEF LogInv, HalfInv, Unlocked
<1> QED
  BY <1>3, <1>4

LEMMA OnListIs ==
  ASSUME LoggerAssumption, NEW q, LogList(q)
  PROVE  OnList = ToSet(q)
<1>1. \A o \in Outs : Has(loggers, o) <=> o \in ToSet(q)
  BY HasIs DEF LoggerAssumption, LogList
<1> QED
  BY <1>1 DEF OnList, LogList

LEMMA OutputsKeep ==
  ASSUME LoggerAssumption, LogInv, AddLogger \/ RemoveLogger \/ set_severity \/ LogIrq \/ UNCHANGED logVars
  PROVE  LogInv'
<1>1. PICK q : LogList(q)
  BY DEF LogInv
<1>2. IsList(loggers, q) /\ ToSet(q) \subseteq Outs /\ Outs \subseteq Items /\ LinkedListAssumption
  BY <1>1 DEF LogList, LoggerAssumption
<1>3. ASSUME Unlocked, UNCHANGED <<log, holder, half, torn>>, level' \in [AllOuts -> Levels],
             NEW p, IsList(loggers', p), ToSet(p) \subseteq Outs
      PROVE  LogInv'
  <2>1. \A w \in Writers : log'[w] = Quiet
    BY <1>3, AllQuiet
  <2>2. LogList(p)'
    BY <1>3, <2>1 DEF LogList, IsList
  <2>3. MsgTypes'
    BY <1>3 DEF LogInv, MsgTypes
  <2>4. HalfInv'
    BY <1>3 DEF LogInv, HalfInv
  <2> QED
    BY <1>3, <2>2, <2>3, <2>4 DEF LogInv
<1>4. CASE AddLogger
  <2>1. PICK o \in Outs \ OnList, s \in Levels :
          loggers' = ListPush(loggers, o) /\ level' = [level EXCEPT ![o] = s]
    BY <1>4 DEF AddLogger
  <2>2. Unlocked /\ UNCHANGED <<log, holder, half, torn>>
    BY <1>4 DEF AddLogger
  <2>3. o \in Items \ ToSet(q)
    BY <1>1, <1>2, OnListIs
  <2>4. IsList(loggers', InsertAt(q, 1, o)) /\ ToSet(InsertAt(q, 1, o)) \subseteq Outs
    <3>1. IsList(ListPush(loggers, o), InsertAt(q, 1, o)) /\ ToSet(InsertAt(q, 1, o)) = ToSet(q) \cup {o}
      BY <1>2, <2>3, PushIs
    <3> QED
      BY <1>2, <2>1, <3>1
  <2>5. level' \in [AllOuts -> Levels]
    BY <2>1 DEF LogInv, MsgTypes
  <2> QED
    BY <1>3, <2>2, <2>4, <2>5
<1>5. CASE RemoveLogger
  <2>1. PICK o \in OnList : loggers' = ListRemove(loggers, o)
    BY <1>5 DEF RemoveLogger
  <2>2. Unlocked /\ UNCHANGED <<level, log, holder, half, torn>>
    BY <1>5 DEF RemoveLogger
  <2>3. o \in Items /\ o \in ToSet(q)
    BY <1>1, <1>2, OnListIs
  <2>4. PICK i \in 1 .. Len(q) : IsList(loggers', RemoveAt(q, i)) /\ ToSet(RemoveAt(q, i)) = ToSet(q) \ {o}
    BY <1>2, <2>1, <2>3, RemoveIs
  <2>5. ToSet(RemoveAt(q, i)) \subseteq Outs /\ level' \in [AllOuts -> Levels]
    BY <1>2, <2>2, <2>4 DEF LogInv, MsgTypes
  <2> QED
    BY <1>3, <2>2, <2>4, <2>5
<1>6. CASE set_severity \/ LogIrq \/ UNCHANGED logVars
  <2>1. UNCHANGED <<loggers, level, log, holder, half, wrote>>
    BY <1>6 DEF set_severity, LogIrq, logVars
  <2>2. ~torn'
    <3>1. half[IrqOut] = "none"
      <4>1. SUFFICES ASSUME half[IrqOut] # "none" PROVE FALSE
        OBVIOUS
      <4>2. IrqOut \in AllOuts /\ IrqOut \notin Outs
        BY DEF AllOuts, LoggerAssumption
      <4>3. holder \in Writers /\ log[holder] # Quiet /\ log[holder].at = IrqOut
        BY <4>1, <4>2 DEF LogInv, HalfInv, MsgTypes
      <4>4. log[holder] \in [s : Levels, at : Outs]
        BY <4>3 DEF LogInv, MsgTypes
      <4> QED
        BY <4>2, <4>3, <4>4
    <3> QED
      BY <1>6, <3>1 DEF set_severity, LogIrq, logVars, LogInv
  <2>3. LogList(q)'
    BY <1>1, <2>1 DEF LogList, IsList, MsgAt
  <2> QED
    BY <2>1, <2>2, <2>3 DEF LogInv, MsgTypes, HalfInv
<1> QED
  BY <1>4, <1>5, <1>6

\* The outputs from the i-th on.
LEMMA RestOf ==
  ASSUME LoggerAssumption, NEW q, LogList(q), NEW i \in 1 .. Len(q)
  PROVE  Rest(q[i]) = {q[k] : k \in i .. Len(q)}
<1>1. /\ Walk(loggers) = q /\ Size(loggers) = Len(q)
  BY WalkIs DEF LogList, LoggerAssumption, Size
<1>2. /\ q \in Seq(Items) /\ Len(q) \in Nat
      /\ \A j, k \in 1 .. Len(q) : q[j] = q[k] => j = k
  BY SeqFacts DEF LogList, IsList
<1>3. \A k \in 1 .. Len(q) : q[k] \in Outs
  BY <1>2, AtIn DEF LogList
<1>4. Rest(q[i]) = {o \in Outs : \E j, k \in 1 .. Len(q) : q[j] = q[i] /\ q[k] = o /\ j <= k}
  BY <1>1 DEF Rest
<1> QED
  BY <1>2, <1>3, <1>4

\* A thread begins a message at the first output that takes it.
LEMMA StartKeeps == ASSUME LoggerAssumption, LogInv, NEW w \in Writers, StartLog(w) PROVE LogInv'
<1>1. PICK s \in Levels :
        /\ Find(loggers, {x \in Outs : s <= level[x]}) # Null
        /\ log' = [log EXCEPT ![w] = [s |-> s, at |-> Find(loggers, {x \in Outs : s <= level[x]})]]
  BY DEF StartLog
<1> DEFINE T == {x \in Outs : s <= level[x]}
<1>2. Unlocked /\ holder' = w /\ wrote' = {} /\ UNCHANGED <<loggers, level, half, torn>>
  BY DEF StartLog
<1>3. (\A v \in Writers : log[v] = Quiet) /\ (\A o \in AllOuts : half[o] = "none")
  BY <1>2, AllQuiet
<1>4. PICK q : LogList(q)
  BY DEF LogInv
<1>5. /\ q \in Seq(Items) /\ Len(q) \in Nat /\ \A k \in 1 .. Len(q) : q[k] \in Outs
  BY <1>4, SeqFacts, AtIn DEF LogList, IsList
<1>6. PICK i \in 1 .. Len(q) + 1 :
        /\ Find(loggers, T) = Link(q, i)
        /\ i = Len(q) + 1 \/ q[i] \in T
        /\ \A j \in 1 .. i - 1 : q[j] \notin T
  <2>1. IsList(loggers, q) /\ LinkedListAssumption
    BY <1>4 DEF LogList, LoggerAssumption
  <2> HIDE DEF T
  <2> QED
    BY <2>1, FoundIs
<1>7. i \in 1 .. Len(q) /\ Find(loggers, T) = q[i] /\ q[i] \in T
  BY <1>1, <1>5, <1>6 DEF Link
<1>8. log' = [log EXCEPT ![w] = [s |-> s, at |-> q[i]]]
  BY <1>1, <1>7
<1>9. MsgTypes'
  <2>1. [s |-> s, at |-> q[i]] \in [s : Levels, at : Outs]
    BY <1>5, <1>7
  <2> QED
    BY <1>2, <1>8, <2>1 DEF LogInv, MsgTypes
<1>10. HalfInv'
  BY <1>2, <1>3 DEF HalfInv
<1>11. log'[w] = [s |-> s, at |-> q[i]] /\ log'[w].s = s /\ log'[w].at = q[i]
      /\ \A v \in Writers : v # w => log'[v] = Quiet
  BY <1>3, <1>8 DEF LogInv, MsgTypes
<1>12. MsgAt(q, w, i)'
  <2>1. \A j \in 1 .. i - 1 : ~(s <= level[q[j]])
    BY <1>5, <1>6, <1>7
  <2>2. half[q[i]] = "none" /\ w # "none"
    BY <1>3, <1>5, <1>7 DEF AllOuts, LoggerAssumption
  <2> QED
    BY <1>2, <1>7, <1>11, <2>1, <2>2 DEF MsgAt
<1>13. LogList(q)'
  BY <1>2, <1>4, <1>7, <1>11, <1>12 DEF LogList, IsList
<1> QED
  BY <1>2, <1>9, <1>10, <1>13 DEF LogInv

\* The first part of a message to an output.
LEMMA FirstPartKeeps ==
  ASSUME LoggerAssumption, LogInv, NEW w \in Writers, Write(w), half[log[w].at] # w
  PROVE  LogInv'
<1> DEFINE o == log[w].at
<1>1. /\ log[w] # Quiet /\ UNCHANGED <<loggers, level, log, holder>> /\ wrote' = wrote \cup {o}
      /\ torn' = (torn \/ half[o] \notin {"none", w})
      /\ half' = [half EXCEPT ![o] = w]
  BY DEF Write, Part
<1>2. PICK q : LogList(q)
  BY DEF LogInv
<1>3. PICK i \in 1 .. Len(q) : MsgAt(q, w, i) /\ holder = w
  BY <1>1, <1>2 DEF LogList
<1>4. /\ q \in Seq(Items) /\ Len(q) \in Nat /\ \A k \in 1 .. Len(q) : q[k] \in Outs
      /\ \A j, k \in 1 .. Len(q) : q[j] = q[k] => j = k
  BY <1>2, SeqFacts, AtIn DEF LogList, IsList
<1>5. o = q[i] /\ o \in Outs /\ o \in AllOuts /\ half[o] = "none"
  <2>1. o = q[i] /\ o \in Outs /\ o \in AllOuts
    BY <1>3, <1>4 DEF MsgAt, AllOuts
  <2> QED
    BY <1>3, <2>1 DEF LogInv, HalfInv
<1> HIDE DEF o
<1>6. MsgTypes' /\ ~torn'
  BY <1>1, <1>5 DEF LogInv, MsgTypes
<1>7. half'[o] = w /\ \A x \in AllOuts : x # o => half'[x] = half[x]
  BY <1>1, <1>5 DEF LogInv, MsgTypes
<1>8. HalfInv'
  <2>1. log'[w] # Quiet /\ log'[w].at = o /\ holder' = w
    BY <1>1, <1>3 DEF o
  <2> QED
    BY <1>1, <1>7, <2>1 DEF LogInv, HalfInv
<1>9. MsgAt(q, w, i)'
  <2>1. \A j \in 1 .. Len(q) : j # i => q[j] # o
    BY <1>4, <1>5
  <2>2. q[i] = log'[w].at /\ log'[w].s <= level'[q[i]]
    BY <1>1, <1>3 DEF MsgAt
  <2>3. q[i] \in wrote' /\ half'[q[i]] = w
    BY <1>1, <1>5, <1>7
  <2>4. \A j \in 1 .. i - 1 : q[j] \in wrote' <=> q[j] \in wrote
    BY <1>1, <1>4, <2>1
  <2>5. \A j \in 1 .. i - 1 : log'[w].s <= level'[q[j]] <=> q[j] \in wrote'
    BY <1>1, <1>3, <2>4 DEF MsgAt
  <2>6. \A j \in i + 1 .. Len(q) : q[j] \notin wrote'
    BY <1>1, <1>3, <1>4, <2>1 DEF MsgAt
  <2> QED
    BY <2>2, <2>3, <2>5, <2>6 DEF MsgAt
<1>10. \A v \in Writers : log[v] # Quiet => v = w
  BY <1>2, <1>3 DEF LogList
<1>11. LogList(q)'
  BY <1>1, <1>2, <1>3, <1>9, <1>10 DEF LogList, IsList
<1> QED
  BY <1>6, <1>8, <1>11 DEF LogInv

\* The second part: the message goes on to the next output that takes it, or ends.
LEMMA SecondPartKeeps ==
  ASSUME LoggerAssumption, LogInv, NEW w \in Writers, Write(w), half[log[w].at] = w
  PROVE  LogInv'
<1> DEFINE o == log[w].at
           next == loggers.next[o]
           n == IF next = Null THEN Null ELSE Taking(next, log[w].s)
<1>1. /\ log[w] # Quiet /\ UNCHANGED <<loggers, level>> /\ wrote' = wrote \cup {o}
      /\ torn' = (torn \/ half[o] \notin {"none", w})
      /\ half' = [half EXCEPT ![o] = "none"]
      /\ log' = [log EXCEPT ![w] = IF n = Null THEN Quiet ELSE [log[w] EXCEPT !.at = n]]
      /\ holder' = IF n = Null THEN "none" ELSE w
  BY DEF Write, Part
<1>2. PICK q : LogList(q)
  BY DEF LogInv
<1>3. PICK i \in 1 .. Len(q) : MsgAt(q, w, i) /\ holder = w
  BY <1>1, <1>2 DEF LogList
<1>4. /\ q \in Seq(Items) /\ Len(q) \in Nat /\ \A k \in 1 .. Len(q) : q[k] \in Outs
      /\ \A j, k \in 1 .. Len(q) : q[j] = q[k] => j = k
  BY <1>2, SeqFacts, AtIn DEF LogList, IsList
<1>5. o = q[i] /\ o \in Outs /\ o \in AllOuts /\ next = Link(q, i + 1)
  BY <1>2, <1>3, <1>4 DEF MsgAt, AllOuts, LogList, IsList
<1>6. PICK s \in Levels : s = log[w].s /\ log[w] \in [s : Levels, at : Outs]
  BY <1>1 DEF LogInv, MsgTypes
<1>7. wrote' = wrote
  BY <1>1, <1>3, <1>5 DEF MsgAt
<1>8. ~torn' /\ half' \in [AllOuts -> Writers \cup {"none"}]
  BY <1>1 DEF LogInv, MsgTypes
<1>9. \A x \in AllOuts : half'[x] = "none"
  <2>1. \A x \in AllOuts : half[x] # "none" => x = o
    BY <1>3 DEF LogInv, HalfInv
  <2>2. \A x \in AllOuts : half'[x] = IF x = o THEN "none" ELSE half[x]
    BY <1>1 DEF LogInv, MsgTypes
  <2> QED
    BY <2>1, <2>2
<1>10. HalfInv'
  BY <1>9 DEF HalfInv
<1>11. \A v \in Writers : v # w => log'[v] = Quiet
  <2>1. \A v \in Writers : v # w => log[v] = Quiet
    BY <1>2, <1>3 DEF LogList
  <2> QED
    BY <1>1, <2>1 DEF LogInv, MsgTypes
<1>12. n = Null \/ \E k \in i + 1 .. Len(q) :
         /\ n = q[k] /\ s <= level[q[k]]
         /\ \A j \in i + 1 .. k - 1 : ~(s <= level[q[j]])
  <2>1. CASE next = Null
    BY <2>1
  <2>2. CASE next # Null
    <3>1. i + 1 \in 1 .. Len(q) /\ next = q[i + 1]
      BY <1>4, <1>5, <2>2 DEF Link
    <3>2. Rest(next) = {q[k] : k \in i + 1 .. Len(q)}
      BY <1>2, <3>1, RestOf
    <3> DEFINE T == {x \in Rest(next) : s <= level[x]}
    <3>3. n = Find(loggers, T)
      BY <1>6, <2>2 DEF Taking
    <3>4. PICK k \in 1 .. Len(q) + 1 :
            /\ Find(loggers, T) = Link(q, k)
            /\ k = Len(q) + 1 \/ q[k] \in T
            /\ \A j \in 1 .. k - 1 : q[j] \notin T
      <4>1. IsList(loggers, q) /\ LinkedListAssumption
        BY <1>2 DEF LogList, LoggerAssumption
      <4> HIDE DEF T
      <4> QED
        BY <4>1, FoundIs
    <3>5. CASE k = Len(q) + 1
      BY <1>4, <3>3, <3>4, <3>5 DEF Link
    <3>6. CASE k # Len(q) + 1
      <4>1. k \in 1 .. Len(q) /\ n = q[k] /\ q[k] \in T
        BY <1>4, <3>3, <3>4, <3>6 DEF Link
      <4>2. k \in i + 1 .. Len(q)
        BY <1>4, <3>2, <4>1
      <4>3. \A j \in i + 1 .. k - 1 : q[j] \in Rest(next) /\ q[j] \notin T
        BY <1>4, <3>2, <3>4, <4>1
      <4>4. \A j \in i + 1 .. k - 1 : ~(s <= level[q[j]])
        BY <4>3
      <4> QED
        BY <4>1, <4>2, <4>4
    <3> QED
      BY <3>5, <3>6
  <2> QED
    BY <2>1, <2>2
<1> HIDE DEF n
<1>13. CASE n = Null
  <2>1. log'[w] = Quiet /\ holder' = "none" /\ log' = [log EXCEPT ![w] = Quiet]
    BY <1>1, <1>13 DEF LogInv, MsgTypes
  <2>2. MsgTypes'
    BY <1>1, <1>8, <2>1 DEF LogInv, MsgTypes
  <2>3. LogList(q)'
    BY <1>1, <1>2, <1>11, <2>1 DEF LogList, IsList
  <2> QED
    BY <1>8, <1>10, <2>2, <2>3 DEF LogInv
<1>14. CASE n # Null
  <2>1. PICK k \in i + 1 .. Len(q) :
          /\ n = q[k] /\ s <= level[q[k]]
          /\ \A j \in i + 1 .. k - 1 : ~(s <= level[q[j]])
    BY <1>12, <1>14
  <2>2. k \in 1 .. Len(q) /\ k > i /\ q[k] \in Outs
    BY <1>4, <2>1
  <2>3. [log[w] EXCEPT !.at = n] = [s |-> s, at |-> q[k]]
    BY <1>6, <2>1
  <2>4. log' = [log EXCEPT ![w] = [s |-> s, at |-> q[k]]] /\ holder' = w
    BY <1>1, <1>14, <2>3
  <2>5. [s |-> s, at |-> q[k]] \in [s : Levels, at : Outs]
    BY <2>2
  <2>6. MsgTypes'
    BY <1>1, <1>8, <2>4, <2>5 DEF LogInv, MsgTypes
  <2>7. log'[w] = [s |-> s, at |-> q[k]] /\ log'[w].s = s /\ log'[w].at = q[k]
    BY <2>4 DEF LogInv, MsgTypes
  <2>8. MsgAt(q, w, k)'
    <3>1. half'[q[k]] # w
      BY <1>9, <2>2 DEF AllOuts, LoggerAssumption
    <3>2. \A j \in i + 1 .. Len(q) : q[j] \notin wrote'
      BY <1>3, <1>7 DEF MsgAt
    <3>3. \A j \in 1 .. i - 1 : s <= level[q[j]] <=> q[j] \in wrote'
      BY <1>3, <1>6, <1>7 DEF MsgAt
    <3>4. s <= level[q[i]] /\ q[i] \in wrote'
      BY <1>1, <1>3, <1>5, <1>6 DEF MsgAt
    <3>5. \A j \in 1 .. k - 1 : s <= level[q[j]] <=> q[j] \in wrote'
      <4> SUFFICES ASSUME NEW j \in 1 .. k - 1 PROVE s <= level[q[j]] <=> q[j] \in wrote'
        OBVIOUS
      <4>1. CASE j \in 1 .. i - 1
        BY <3>3, <4>1
      <4>2. CASE j = i
        BY <3>4, <4>2
      <4>3. CASE j \in i + 1 .. k - 1
        <5>1. j \in i + 1 .. Len(q)
          BY <2>2, <4>3
        <5> QED
          BY <2>1, <3>2, <4>3, <5>1
      <4> QED
        BY <2>2, <4>1, <4>2, <4>3
    <3>6. \A j \in k + 1 .. Len(q) : q[j] \notin wrote'
      BY <2>2, <3>2
    <3>7. q[k] \notin wrote'
      BY <2>1, <3>2
    <3> QED
      BY <1>1, <2>1, <2>7, <3>1, <3>5, <3>6, <3>7 DEF MsgAt
  <2>9. LogList(q)'
    BY <1>1, <1>2, <1>11, <2>2, <2>4, <2>8 DEF LogList, IsList
  <2> QED
    BY <1>8, <1>10, <2>6, <2>9 DEF LogInv
<1> QED
  BY <1>13, <1>14

LEMMA LinesOk == ASSUME LoggerAssumption PROVE LogInv => LinesAreWhole
<1> SUFFICES ASSUME LogInv, NEW w \in Writers, log[w] # Quiet
             PROVE  /\ log[w].at \in OnList /\ holder = w
                    /\ \A o \in OnList : /\ log[w].s <= level[o] => o \in wrote \/ o \in Rest(log[w].at)
                                         /\ o \in wrote => log[w].s <= level[o]
  BY DEF LogInv, LinesAreWhole
<1>1. PICK q : LogList(q)
  BY DEF LogInv
<1>2. PICK i \in 1 .. Len(q) : MsgAt(q, w, i) /\ holder = w
  BY <1>1 DEF LogList
<1>3. /\ q \in Seq(Items) /\ Len(q) \in Nat /\ ToSet(q) = {q[k] : k \in 1 .. Len(q)}
  BY <1>1, SeqFacts DEF LogList, IsList
<1>4. OnList = ToSet(q) /\ Rest(q[i]) = {q[k] : k \in i .. Len(q)}
  BY <1>1, OnListIs, RestOf
<1>5. q[i] = log[w].at /\ q[i] \in OnList
  BY <1>2, <1>3, <1>4 DEF MsgAt
<1>6. ASSUME NEW o \in OnList
      PROVE  /\ log[w].s <= level[o] => o \in wrote \/ o \in Rest(log[w].at)
             /\ o \in wrote => log[w].s <= level[o]
  <2>1. PICK k \in 1 .. Len(q) : o = q[k]
    BY <1>3, <1>4
  <2>2. CASE k \in 1 .. i - 1
    BY <1>2, <2>1, <2>2 DEF MsgAt
  <2>3. CASE k = i
    BY <1>2, <1>3, <1>4, <1>5, <2>1, <2>3 DEF MsgAt
  <2>4. CASE k \in i + 1 .. Len(q)
    BY <1>2, <1>3, <1>4, <1>5, <2>1, <2>4 DEF MsgAt
  <2> QED
    BY <1>3, <2>2, <2>3, <2>4
<1> QED
  BY <1>2, <1>5, <1>6

\* However many threads log to however many outputs, while outputs come and go and
\* interrupts log: a message goes to the outputs on the list that take its severity
\* and to no other, and no part of another message comes between its parts
\* (logger.cpp:161).
THEOREM LinesWhole == ASSUME LoggerAssumption PROVE LoggerSpec => []LinesAreWhole
<1>1. LogInv /\ [LoggerNext]_logVars => LogInv'
  <2>1. ASSUME LogInv, NEW w \in Writers, Write(w) PROVE LogInv'
    BY <2>1, FirstPartKeeps, SecondPartKeeps
  <2> QED
    BY <2>1, OutputsKeep, StartKeeps DEF LoggerNext
<1> QED
  BY <1>1, LogStart, LinesOk, PTL DEF LoggerSpec
=============================================================================

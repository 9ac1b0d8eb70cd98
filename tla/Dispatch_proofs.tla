-------------------------- MODULE Dispatch_proofs --------------------------
(***************************************************************************)
(* The deque, the dispatcher that links its callbacks in one, and the I/O  *)
(* expander whose interrupts it handles: for any callbacks, pins and       *)
(* users, and any number of calls.                                         *)
(***************************************************************************)
EXTENDS Expander, ListLemmas

-----------------------------------------------------------------------------
(* The deque: its pointers represent the sequence of items.  DequeInv is   *)
(* inductive; that no item is linked twice is what makes a walk end.       *)

DequeInv == DequeTypeOK /\ Represents /\ Distinct(items)

LEMMA InitInv == DequeInit => DequeInv
  BY DequeAssumption DEF DequeInit, DequeInv, DequeTypeOK, Represents, Distinct

LEMMA NotIn ==
  ASSUME NEW q \in Seq(Items), NEW w, w \notin ToSet(q), NEW i \in 1 .. Len(q)
  PROVE  q[i] # w
  BY DEF ToSet

LEMMA PushHeadInv ==
  ASSUME DequeInv, NEW w \in Items, w \notin ToSet(items), PushHead(w)
  PROVE  DequeInv'
<1> USE DEF DequeInv, DequeTypeOK
<1> DEFINE n == Len(items)
<1>1. /\ items \in Seq(Items) /\ n \in Nat /\ items' = <<w>> \o items
      /\ items' \in Seq(Items) /\ Len(items') = n + 1
      /\ items'[1] = w
      /\ \A i \in 1 .. n : items'[i + 1] = items[i]
  BY DEF PushHead
<1>2. \A i \in 1 .. n : items[i] \in Items /\ items[i] # w
  BY <1>1, NotIn
<1>3. DequeTypeOK'
  BY <1>1 DEF PushHead
<1>4. \A i \in 1 .. n : link'[items[i]] = link[items[i]]
  BY <1>2 DEF PushHead
<1>5. items' # <<>>
  BY <1>1
<1>6. head' # Null /\ tail' # Null
  BY DequeAssumption DEF PushHead
<1>7. head' = items'[1] /\ tail' = items'[Len(items')] /\ link'[tail'] = Null
  <2>1. CASE n = 0
    <3>1. items = <<>> /\ tail = Null /\ head = Null
      BY <1>1, <2>1 DEF Represents
    <3> QED
      BY <1>1, <2>1, <3>1 DEF PushHead
  <2>2. CASE n > 0
    <3>1. items # <<>> /\ tail # Null /\ tail = items[n] /\ link[tail] = Null
      BY <1>1, <2>2 DEF Represents
    <3>2. tail' = tail /\ items'[n + 1] = items[n]
      BY <1>1, <2>2, <3>1 DEF PushHead
    <3> QED
      BY <1>1, <1>4, <2>2, <3>1, <3>2 DEF PushHead
  <2> QED
    BY <1>1, <2>1, <2>2
<1>8. ASSUME NEW i \in 1 .. Len(items') - 1
      PROVE  link'[items'[i]] = items'[i + 1]
  <2>1. CASE i = 1
    <3>1. n > 0 /\ head = items[1]
      BY <1>1, <2>1 DEF Represents
    <3>2. link'[w] = head /\ items'[2] = items[1]
      BY <1>1, <3>1 DEF PushHead
    <3> QED
      BY <1>1, <2>1, <3>1, <3>2
  <2>2. CASE i > 1
    <3>1. i - 1 \in 1 .. n - 1 /\ link[items[i - 1]] = items[i]
      BY <1>1, <2>2 DEF Represents
    <3>2. items'[i] = items[i - 1] /\ items'[i + 1] = items[i]
      BY <1>1, <3>1
    <3> QED
      BY <1>4, <3>1, <3>2
  <2> QED
    BY <1>1, <2>1, <2>2
<1>9. Represents'
  BY <1>5, <1>6, <1>7, <1>8 DEF Represents
<1>10. Distinct(items')
  <2>1. \A i \in DOMAIN items' : i \in 1 .. n + 1
    BY <1>1
  <2>2. ASSUME NEW i \in 1 .. n + 1, NEW j \in 1 .. n + 1, items'[i] = items'[j]
        PROVE  i = j
    <3>1. CASE i = 1 /\ j = 1
      BY <3>1
    <3>2. CASE i = 1 /\ j > 1
      <4>1. j - 1 \in 1 .. n /\ items'[j] = items[j - 1]
        BY <1>1, <3>2
      <4> QED
        BY <1>1, <1>2, <2>2, <3>2, <4>1
    <3>3. CASE i > 1 /\ j = 1
      <4>1. i - 1 \in 1 .. n /\ items'[i] = items[i - 1]
        BY <1>1, <3>3
      <4> QED
        BY <1>1, <1>2, <2>2, <3>3, <4>1
    <3>4. CASE i > 1 /\ j > 1
      <4>1. i - 1 \in 1 .. n /\ j - 1 \in 1 .. n /\ items[i - 1] = items[j - 1]
        BY <1>1, <2>2, <3>4
      <4>2. i - 1 = j - 1
        BY <4>1 DEF Distinct
      <4> QED
        BY <1>1, <4>1, <4>2
    <3> QED
      BY <1>1, <3>1, <3>2, <3>3, <3>4
  <2> QED
    BY <2>1, <2>2 DEF Distinct
<1> QED
  BY <1>3, <1>9, <1>10

LEMMA PushTailInv ==
  ASSUME DequeInv, NEW w \in Items, w \notin ToSet(items), PushTail(w)
  PROVE  DequeInv'
<1> USE DEF DequeInv, DequeTypeOK
<1> DEFINE n == Len(items)
<1>1. /\ items \in Seq(Items) /\ n \in Nat /\ items' = Append(items, w)
      /\ items' \in Seq(Items) /\ Len(items') = n + 1 /\ items'[n + 1] = w
      /\ \A i \in 1 .. n : items'[i] = items[i]
  BY DEF PushTail
<1>2. \A i \in 1 .. n : items[i] \in Items /\ items[i] # w
  BY <1>1, NotIn
<1>3. DequeTypeOK'
  BY <1>1 DEF PushTail
<1>4. items' # <<>> /\ head' # Null /\ tail' # Null
  BY <1>1, DequeAssumption DEF PushTail
<1>5. CASE n = 0
  <2>1. items = <<>> /\ head = Null
    BY <1>1, <1>5 DEF Represents
  <2>2. head' = w /\ tail' = w /\ link'[w] = Null
    BY <2>1 DEF PushTail
  <2>3. Represents'
    BY <1>1, <1>4, <1>5, <2>2 DEF Represents
  <2>4. Distinct(items')
    BY <1>1, <1>5 DEF Distinct
  <2> QED
    BY <1>3, <2>3, <2>4
<1>6. CASE n > 0
  <2>1. items # <<>> /\ head # Null /\ head = items[1] /\ tail = items[n] /\ tail # w /\ tail \in Items
    BY <1>1, <1>2, <1>6 DEF Represents
  <2>2. head' = head /\ tail' = w /\ link'[w] = Null /\ link'[tail] = w
    BY <2>1 DEF PushTail
  <2>3. ASSUME NEW i \in 1 .. n - 1
        PROVE  link'[items[i]] = items[i + 1]
    <3>1. items[i] # tail
      BY <1>1, <1>6, <2>1 DEF Distinct
    <3>2. link[items[i]] = items[i + 1]
      BY <1>1 DEF Represents
    <3> QED
      BY <1>1, <1>2, <2>1, <3>1, <3>2 DEF PushTail
  <2>4. ASSUME NEW i \in 1 .. Len(items') - 1
        PROVE  link'[items'[i]] = items'[i + 1]
    <3>1. CASE i = n
      BY <1>1, <1>6, <2>1, <2>2, <3>1
    <3>2. CASE i < n
      <4>1. i \in 1 .. n - 1 /\ i \in 1 .. n /\ i + 1 \in 1 .. n
        BY <1>1, <3>2
      <4>2. link'[items[i]] = items[i + 1] /\ items'[i] = items[i] /\ items'[i + 1] = items[i + 1]
        BY <1>1, <2>3, <4>1
      <4> QED
        BY <4>2
    <3> QED
      BY <1>1, <3>1, <3>2
  <2>5. head' = items'[1] /\ tail' = items'[Len(items')] /\ link'[tail'] = Null
    BY <1>1, <1>6, <2>1, <2>2
  <2>6. Represents'
    BY <1>4, <2>4, <2>5 DEF Represents
  <2>7. Distinct(items')
    <3>1. ASSUME NEW i \in 1 .. n + 1, NEW j \in 1 .. n + 1, items'[i] = items'[j]
          PROVE  i = j
      BY <1>1, <1>2, <3>1 DEF Distinct
    <3>2. \A i \in DOMAIN items' : i \in 1 .. n + 1
      BY <1>1
    <3> QED
      BY <3>1, <3>2 DEF Distinct
  <2> QED
    BY <1>3, <2>6, <2>7
<1> QED
  BY <1>1, <1>5, <1>6

LEMMA OneOrMore ==
  ASSUME NEW k \in Nat, k > 0
  PROVE  k = 1 \/ k > 1
OBVIOUS

LEMMA PopHeadInv ==
  ASSUME DequeInv, PopHead
  PROVE  DequeInv'
<1> USE DEF DequeInv, DequeTypeOK
<1> DEFINE n == Len(items)
<1>1. items \in Seq(Items) /\ items # <<>> /\ n \in Nat /\ n > 0
  BY DEF PopHead, Represents
<1>2. /\ items' = Tail(items) /\ items' \in Seq(Items) /\ Len(items') = n - 1
      /\ \A i \in 1 .. n - 1 : items'[i] = items[i + 1]
  BY <1>1 DEF PopHead
<1>3. head = items[1] /\ tail = items[n] /\ link[tail] = Null /\ link' = link
  BY <1>1 DEF Represents, PopHead
<1>4. Distinct(items')
  <2>1. ASSUME NEW i \in 1 .. n - 1, NEW j \in 1 .. n - 1, items'[i] = items'[j]
        PROVE  i = j
    <3>1. i + 1 \in 1 .. n /\ j + 1 \in 1 .. n /\ items[i + 1] = items[j + 1]
      BY <1>1, <1>2, <2>1
    <3>2. i + 1 = j + 1
      BY <1>1, <3>1 DEF Distinct
    <3> QED
      BY <3>2
  <2>2. \A i \in DOMAIN items' : i \in 1 .. n - 1
    BY <1>1, <1>2
  <2> QED
    BY <2>1, <2>2 DEF Distinct
<1>5. CASE n = 1
  <2>1. head' = Null /\ tail' = Null /\ items' = <<>>
    BY <1>1, <1>2, <1>3, <1>5 DEF PopHead
  <2>2. DequeTypeOK'
    BY <1>2, <1>3, <2>1
  <2>3. Represents'
    BY <2>1 DEF Represents
  <2> QED
    BY <1>4, <2>2, <2>3
<1>6. CASE n > 1
  <2>1. head # tail
    BY <1>1, <1>3, <1>6 DEF Distinct
  <2>2. 1 \in 1 .. n - 1 /\ link[items[1]] = items[2]
    BY <1>1, <1>6 DEF Represents
  <2>3. head' = items[2] /\ tail' = tail
    BY <1>3, <2>1, <2>2 DEF PopHead
  <2>4. items[2] \in Items /\ items' # <<>>
    <3>1. 2 \in 1 .. n /\ Len(items') > 0
      BY <1>1, <1>2, <1>6
    <3>2. items[2] \in Items
      BY <1>1, <3>1
    <3>3. items' # <<>>
      BY <3>1
    <3> QED
      BY <3>2, <3>3
  <2>5. DequeTypeOK'
    BY <1>2, <1>3, <2>3, <2>4
  <2>6. head' = items'[1] /\ tail' = items'[Len(items')] /\ link'[tail'] = Null
    BY <1>1, <1>2, <1>3, <1>6, <2>3
  <2>7. ASSUME NEW i \in 1 .. Len(items') - 1
        PROVE  link'[items'[i]] = items'[i + 1]
    <3>1. i + 1 \in 1 .. n - 1 /\ i \in 1 .. n - 1
      BY <1>1, <1>2
    <3>2. link[items[i + 1]] = items[i + 2]
      BY <3>1 DEF Represents
    <3> QED
      BY <1>2, <1>3, <3>1, <3>2
  <2>8. head' # Null /\ tail' # Null
    BY <1>1, <1>3, <2>3, <2>4, DequeAssumption
  <2>9. Represents'
    BY <2>4, <2>6, <2>7, <2>8 DEF Represents
  <2> QED
    BY <1>4, <2>5, <2>9
<1> QED
  BY <1>1, <1>5, <1>6, OneOrMore

LEMMA StepInv == DequeInv /\ [DequeNext]_dequeVars => DequeInv'
<1> SUFFICES ASSUME DequeInv, [DequeNext]_dequeVars
             PROVE  DequeInv'
  OBVIOUS
<1>1. CASE DequeNext
  BY <1>1, PushHeadInv, PushTailInv, PopHeadInv DEF DequeNext
<1>2. CASE UNCHANGED dequeVars
  BY <1>2 DEF dequeVars, DequeInv, DequeTypeOK, Represents, Distinct
<1> QED
  BY <1>1, <1>2

\* The walk that visit() and pop_head() make from head passes exactly the items
\* that were pushed and not popped, in order, and ends at tail: for every set of
\* items and every order of pushes at both ends and pops (deque.h).
THEOREM PointersRepresent == DequeSpec => []Represents
<1>1. DequeInv => Represents
  BY DEF DequeInv
<1> QED
  BY InitInv, StepInv, <1>1, PTL DEF DequeSpec

-----------------------------------------------------------------------------
(* The dispatcher: what run() holds, and what is owed to each callback.    *)

\* The places and locals of run(): cb is set between the pop and the execution.
RunInv ==
  /\ sem \in 0 .. SemMax
  /\ dead \in BOOLEAN /\ killing \in BOOLEAN
  /\ putting \subseteq Items
  /\ rpc \in {"test", "wait", "pop", "execute", "left"}
  /\ cb \in Items \cup {Null}
  /\ rpc = "execute" <=> cb # Null
  /\ puts \in Nat

OwedInv == owed \in [Items -> Nat] /\ OwedIsLinked

Inv == DequeInv /\ RunInv /\ OwedInv

-----------------------------------------------------------------------------
\* Every step is a step of the deque or leaves it alone.
LEMMA StepDeque == Next => [DequeNext]_dequeVars
<1> SUFFICES ASSUME Next PROVE [DequeNext]_dequeVars
  OBVIOUS
<1>1. ASSUME NEW w \in Items, PutPush(w) PROVE DequeNext
  BY <1>1 DEF PutPush, DequeNext
<1>2. ASSUME NEW w \in Items, PutPost(w) PROVE UNCHANGED dequeVars
  BY <1>2 DEF PutPost
<1>3. CASE Kill \/ KillPost
  BY <1>3 DEF Kill, KillPost, dequeVars
<1>4. CASE Test \/ Wait \/ Execute
  BY <1>4 DEF Test, Wait, Execute, dequeVars
<1>5. CASE Pop
  BY <1>5 DEF Pop, DequeNext, dequeVars
<1> QED
  BY <1>1, <1>2, <1>3, <1>4, <1>5 DEF Next, Run

LEMMA InitOk == Init => Inv
<1> SUFFICES ASSUME Init PROVE Inv
  OBVIOUS
<1>1. DequeInv
  BY InitInv DEF Init
<1>2. RunInv
  <2>1. 0 \in 0 .. SemMax /\ 0 \in Nat /\ "test" # "execute"
    BY DispatchAssumption
  <2>2. dead \in BOOLEAN /\ killing \in BOOLEAN
    BY DEF Init
  <2> QED
    BY <2>1, <2>2 DEF Init, RunInv
<1>3. ToSet(items) = {}
  BY DEF Init, DequeInit, ToSet
<1>4. OwedInv
  BY <1>3, DequeAssumption DEF Init, OwedInv, OwedIsLinked
<1> QED
  BY <1>1, <1>2, <1>4 DEF Inv

-----------------------------------------------------------------------------
\* A pop takes the head, and nothing else, out of the set of linked items.
LEMMA PopTakesHead ==
  ASSUME DequeInv, PopHead
  PROVE  /\ head \in Items /\ head \in ToSet(items)
         /\ ToSet(items') = ToSet(items) \ {head}
<1> DEFINE n == Len(items)
<1>1. items \in Seq(Items) /\ items # <<>> /\ n \in Nat /\ n > 0
  BY DEF PopHead, Represents, DequeInv, DequeTypeOK
<1>2. /\ items' = Tail(items) /\ Len(items') = n - 1
      /\ \A i \in 1 .. n - 1 : items'[i] = items[i + 1]
  BY <1>1 DEF PopHead
<1>3. head = items[1] /\ 1 \in 1 .. n
  BY <1>1 DEF Represents, DequeInv
<1>4. DOMAIN items = 1 .. n /\ DOMAIN items' = 1 .. n - 1
  BY <1>1, <1>2
<1>5. ASSUME NEW x \in ToSet(items') PROVE x \in ToSet(items) /\ x # head
  <2>1. PICK i \in 1 .. n - 1 : x = items'[i]
    BY <1>4 DEF ToSet
  <2>2. i + 1 \in 1 .. n /\ i + 1 # 1 /\ x = items[i + 1]
    BY <1>1, <1>2, <2>1
  <2> QED
    BY <1>3, <1>4, <2>2 DEF ToSet, DequeInv, Distinct
<1>6. ASSUME NEW x \in ToSet(items), x # head PROVE x \in ToSet(items')
  <2>1. PICK i \in 1 .. n : x = items[i]
    BY <1>4 DEF ToSet
  <2>2. i # 1
    BY <1>3, <1>6, <2>1
  <2>3. i - 1 \in 1 .. n - 1 /\ (i - 1) + 1 = i
    BY <1>1, <2>1, <2>2
  <2>4. x = items'[i - 1]
    BY <1>2, <2>1, <2>3
  <2> QED
    BY <1>4, <2>3, <2>4 DEF ToSet
<1>7. head \in ToSet(items)
  BY <1>3, <1>4 DEF ToSet
<1>8. head \in Items
  BY <1>1, <1>3
<1> QED
  BY <1>5, <1>6, <1>7, <1>8

\* A push adds the item to the set of linked items.
LEMMA PushAdds ==
  ASSUME DequeInv, NEW w \in Items, PushTail(w)
  PROVE  ToSet(items') = ToSet(items) \cup {w}
<1> DEFINE n == Len(items)
<1>1. items \in Seq(Items) /\ n \in Nat
  BY DEF DequeInv, DequeTypeOK
<1>2. /\ items' = Append(items, w) /\ Len(items') = n + 1 /\ items'[n + 1] = w
      /\ \A i \in 1 .. n : items'[i] = items[i]
  BY <1>1 DEF PushTail
<1>3. DOMAIN items = 1 .. n /\ DOMAIN items' = 1 .. n + 1
  BY <1>1, <1>2
<1>4. ASSUME NEW x \in ToSet(items') PROVE x \in ToSet(items) \cup {w}
  <2>1. PICK i \in 1 .. n + 1 : x = items'[i]
    BY <1>3 DEF ToSet
  <2>2. i = n + 1 \/ i \in 1 .. n
    BY <1>1, <2>1
  <2> QED
    BY <1>2, <1>3, <2>1, <2>2 DEF ToSet
<1>5. ASSUME NEW x \in ToSet(items) PROVE x \in ToSet(items')
  <2>1. PICK i \in 1 .. n : x = items[i]
    BY <1>3 DEF ToSet
  <2>2. i \in 1 .. n + 1
    BY <1>1, <2>1
  <2> QED
    BY <1>2, <1>3, <2>1, <2>2 DEF ToSet
<1>6. n + 1 \in 1 .. n + 1
  BY <1>1
<1>7. w \in ToSet(items')
  BY <1>2, <1>3, <1>6 DEF ToSet
<1> QED
  BY <1>4, <1>5, <1>7

-----------------------------------------------------------------------------
LEMMA StepRun == Inv /\ Next => RunInv'
<1> SUFFICES ASSUME Inv, Next PROVE RunInv'
  OBVIOUS
<1> USE DEF Inv, RunInv
<1>1. ASSUME Post PROVE sem' \in 0 .. SemMax
  BY <1>1, DispatchAssumption DEF Post
<1>2. ASSUME NEW w \in Items, PutPush(w) PROVE RunInv'
  BY <1>2 DEF PutPush, runVars
<1>3. ASSUME NEW w \in Items, PutPost(w) PROVE RunInv'
  BY <1>1, <1>3 DEF PutPost, runVars
<1>4. CASE Kill
  BY <1>4 DEF Kill, runVars
<1>5. CASE KillPost
  BY <1>1, <1>5 DEF KillPost, runVars
<1>6. CASE Test
  BY <1>6 DEF Test
<1>7. CASE Wait
  <2>1. sem' \in 0 .. SemMax
    BY <1>7, DispatchAssumption DEF Wait
  <2> QED
    BY <1>7, <2>1 DEF Wait
<1>8. CASE Pop
  <2>1. CASE PopHead /\ cb' = head /\ rpc' = "execute"
    BY <1>8, <2>1, PopTakesHead, DequeAssumption DEF Pop
  <2>2. CASE head = Null /\ rpc' = "test" /\ UNCHANGED <<dequeVars, cb>>
    BY <1>8, <2>2 DEF Pop
  <2> QED
    BY <1>8, <2>1, <2>2 DEF Pop
<1>9. CASE Execute
  BY <1>9 DEF Execute
<1> QED
  BY <1>2, <1>3, <1>4, <1>5, <1>6, <1>7, <1>8, <1>9 DEF Next, Run

LEMMA StepOwed == Inv /\ Next => OwedInv'
<1> SUFFICES ASSUME Inv, Next PROVE OwedInv'
  OBVIOUS
<1>1. DequeInv /\ RunInv /\ owed \in [Items -> Nat] /\ OwedIsLinked
  BY DEF Inv, OwedInv
<1>2. ASSUME UNCHANGED <<items, cb, owed>> PROVE OwedInv'
  BY <1>1, <1>2 DEF OwedInv, OwedIsLinked
<1>3. ASSUME NEW w \in Items, PutPush(w) PROVE OwedInv'
  <2>1. ToSet(items') = ToSet(items) \cup {w} /\ w \notin ToSet(items)
    BY <1>1, <1>3, PushAdds DEF PutPush
  <2>2. owed' = [owed EXCEPT ![w] = @ + 1] /\ cb' = cb
    BY <1>3 DEF PutPush, runVars
  <2>3. owed' \in [Items -> Nat]
    BY <1>1, <2>2
  <2>4. OwedIsLinked'
    BY <1>1, <2>1, <2>2 DEF OwedIsLinked
  <2> QED
    BY <2>3, <2>4 DEF OwedInv
<1>4. ASSUME NEW w \in Items, PutPost(w) PROVE OwedInv'
  BY <1>2, <1>4 DEF PutPost, dequeVars, runVars
<1>5. CASE Kill \/ KillPost
  BY <1>2, <1>5 DEF Kill, KillPost, dequeVars, runVars
<1>6. CASE Test \/ Wait
  BY <1>2, <1>6 DEF Test, Wait, dequeVars
<1>7. CASE Pop
  <2>1. cb = Null /\ owed' = owed
    BY <1>1, <1>7 DEF Pop, RunInv
  <2>2. CASE PopHead /\ cb' = head
    <3>1. head \in Items /\ head \in ToSet(items) /\ ToSet(items') = ToSet(items) \ {head}
      BY <1>1, <2>2, PopTakesHead
    <3>2. OwedIsLinked'
      BY <1>1, <2>1, <2>2, <3>1, DequeAssumption DEF OwedIsLinked
    <3> QED
      BY <1>1, <2>1, <3>2 DEF OwedInv
  <2>3. CASE UNCHANGED <<dequeVars, cb>>
    BY <1>2, <2>1, <2>3 DEF dequeVars
  <2> QED
    BY <1>7, <2>2, <2>3 DEF Pop
<1>8. CASE Execute
  <2>1. cb \in Items /\ cb' = Null /\ items' = items /\ owed' = [owed EXCEPT ![cb] = @ - 1]
    BY <1>1, <1>8 DEF Execute, RunInv, dequeVars
  <2>2. owed[cb] \in Nat /\ owed[cb] >= 1
    BY <1>1, <2>1 DEF OwedIsLinked
  <2>3. owed[cb] - 1 \in Nat
    BY <2>2
  <2>4. owed' \in [Items -> Nat]
    BY <1>1, <2>1, <2>3
  <2>5. OwedIsLinked'
    BY <1>1, <2>1, <2>2, DequeAssumption DEF OwedIsLinked
  <2> QED
    BY <2>4, <2>5 DEF OwedInv
<1> QED
  BY <1>3, <1>4, <1>5, <1>6, <1>7, <1>8 DEF Next, Run

LEMMA StepOk == Inv /\ [Next]_vars => Inv'
<1> SUFFICES ASSUME Inv, [Next]_vars PROVE Inv'
  OBVIOUS
<1>1. CASE Next
  <2>1. DequeInv'
    BY <1>1, StepDeque, StepInv DEF Inv
  <2> QED
    BY <1>1, <2>1, StepRun, StepOwed DEF Inv
<1>2. CASE UNCHANGED vars
  <2>1. UNCHANGED dequeVars /\ UNCHANGED <<sem, dead, putting, killing, rpc, cb, owed, puts>>
    BY <1>2 DEF vars, runVars
  <2>2. DequeInv'
    BY <2>1, StepInv DEF Inv
  <2>3. RunInv' /\ OwedInv'
    BY <2>1 DEF Inv, RunInv, OwedInv, OwedIsLinked, dequeVars
  <2> QED
    BY <2>2, <2>3 DEF Inv
<1> QED
  BY <1>1, <1>2

-----------------------------------------------------------------------------
(* No callback is stranded, if the semaphore counts as far as there are    *)
(* callbacks: a post that is dropped is then not needed.                   *)

LEMMA LinkedAreItems == DequeInv => Len(items) <= Cardinality(Items)
<1> SUFFICES ASSUME DequeInv, ~(Len(items) <= Cardinality(Items)) PROVE FALSE
  OBVIOUS
<1> DEFINE n == Len(items)
<1>1. items \in [1 .. n -> Items] /\ n \in Nat /\ DOMAIN items = 1 .. n
  BY DEF DequeInv, DequeTypeOK
<1>2. IsFiniteSet(Items) /\ Cardinality(Items) \in Nat
  BY DispatchAssumption, FS_CardinalityType
<1>3. IsFiniteSet(1 .. n) /\ Cardinality(1 .. n) = n
  <2>1. 1 \in Int /\ n \in Int
    BY <1>1
  <2>2. IsFiniteSet(1 .. n) /\ Cardinality(1 .. n) = (IF 1 > n THEN 0 ELSE n - 1 + 1)
    BY <2>1, FS_Interval
  <2>3. n - 1 + 1 = n /\ (1 > n => n = 0)
    BY <1>1
  <2> QED
    BY <2>2, <2>3
<1>4. PICK i \in 1 .. n, j \in 1 .. n : i # j /\ items[i] = items[j]
  BY <1>1, <1>2, <1>3, FS_PigeonHole
<1> QED
  BY <1>1, <1>4 DEF DequeInv, Distinct

LEMMA StepNone ==
  ASSUME Cardinality(Items) <= SemMax, Inv, NoneStranded, Next
  PROVE  NoneStranded'
<1> DEFINE k == Cardinality(putting)
<1>1. DequeInv /\ RunInv /\ sem \in Nat /\ Len(items) \in Nat
  BY DEF Inv, DequeInv, RunInv, DequeTypeOK
<1>2. IsFiniteSet(putting) /\ k \in Nat
  BY <1>1, DispatchAssumption, FS_Subset, FS_CardinalityType DEF RunInv
<1>3. ASSUME Post PROVE sem' = sem + 1 \/ (sem' = sem /\ Len(items) <= sem)
  <2>1. SemMax \in Nat /\ Cardinality(Items) \in Nat
    BY DispatchAssumption, FS_CardinalityType
  <2>2. Len(items) <= SemMax
    BY <1>1, <2>1, LinkedAreItems
  <2>3. sem \in 0 .. SemMax
    BY <1>1 DEF RunInv
  <2> QED
    BY <1>1, <1>3, <2>1, <2>2, <2>3 DEF Post
<1>4. ASSUME NEW w \in Items, PutPush(w) PROVE NoneStranded'
  <2>1. Cardinality(putting') = k + 1
    BY <1>2, <1>4, FS_AddElement DEF PutPush
  <2>2. Len(items') = Len(items) + 1 /\ sem' = sem /\ rpc' = rpc
    BY <1>1, <1>4 DEF PutPush, PushTail, DequeInv, DequeTypeOK, runVars
  <2> QED
    BY <1>1, <1>2, <2>1, <2>2 DEF NoneStranded
<1>5. ASSUME NEW w \in Items, PutPost(w) PROVE NoneStranded'
  <2>1. Cardinality(putting') = k - 1 /\ k - 1 \in Nat
    <3>1. Cardinality(putting') = k - 1
      BY <1>2, <1>5, FS_RemoveElement DEF PutPost
    <3>2. IsFiniteSet(putting')
      BY <1>2, <1>5, FS_RemoveElement DEF PutPost
    <3> QED
      BY <3>1, <3>2, FS_CardinalityType
  <2>2. items' = items /\ rpc' = rpc /\ Post
    BY <1>5 DEF PutPost, dequeVars, runVars
  <2> QED
    BY <1>1, <1>2, <1>3, <2>1, <2>2 DEF NoneStranded
<1>6. CASE Kill
  BY <1>6 DEF Kill, dequeVars, runVars, NoneStranded
<1>7. CASE KillPost
  <2>1. items' = items /\ rpc' = rpc /\ putting' = putting /\ Post
    BY <1>7 DEF KillPost, dequeVars, runVars
  <2> QED
    BY <1>1, <1>2, <1>3, <2>1 DEF NoneStranded
<1>8. CASE Test \/ Execute
  BY <1>8 DEF Test, Execute, dequeVars, NoneStranded
<1>9. CASE Wait
  BY <1>1, <1>2, <1>9 DEF Wait, dequeVars, NoneStranded
<1>10. CASE Pop
  <2>1. putting' = putting /\ sem' = sem /\ rpc = "pop" /\ rpc' # "pop"
    BY <1>10 DEF Pop
  <2>2. CASE PopHead
    <3>1. items # <<>>
      BY <1>1, <2>2 DEF PopHead, DequeInv, Represents
    <3>2. Len(items') = Len(items) - 1
      BY <1>1, <2>2, <3>1 DEF PopHead, DequeInv, DequeTypeOK
    <3> QED
      BY <1>1, <1>2, <2>1, <3>2 DEF NoneStranded
  <2>3. CASE head = Null /\ UNCHANGED dequeVars
    <3>1. Len(items') = 0
      BY <1>1, <2>3 DEF dequeVars, DequeInv, Represents
    <3> QED
      BY <1>1, <1>2, <2>1, <3>1 DEF NoneStranded
  <2> QED
    BY <1>10, <2>2, <2>3 DEF Pop
<1> QED
  BY <1>4, <1>5, <1>6, <1>7, <1>8, <1>9, <1>10 DEF Next, Run

-----------------------------------------------------------------------------
\* Every variable has its type; the semaphore stays within its limit.
THEOREM DispatchTypes == Spec => []TypeOK
<1>1. Inv => TypeOK
  BY DEF Inv, DequeInv, RunInv, OwedInv, TypeOK
<1> QED
  BY InitOk, StepOk, <1>1, PTL DEF Spec

\* The dispatcher uses its deque as it must be used: it is an implementation of
\* the deque's own specification, pushing no callback that is linked
\* (dispatch.cpp:28-31 and 50).
THEOREM DispatchUsesDeque == Spec => DequeSpec
<1>1. Init => DequeInit
  BY DEF Init
<1>2. [Next]_vars => [DequeNext]_dequeVars
  BY StepDeque DEF vars
<1> QED
  BY <1>1, <1>2, PTL DEF Spec, DequeSpec

\* The pointers of the dispatcher's deque represent the callbacks that were put
\* and not yet popped, whatever the interrupts do.
THEOREM DispatchDequeSound == Spec => []Represents
BY DispatchUsesDeque, PointersRepresent, PTL

\* A callback is owed one execution for each put(), counted by its place in the
\* deque and in run(): none is lost or executed twice (dispatch.cpp:28-58).
THEOREM NoneLost == Spec => []OwedIsLinked
<1>1. Inv => OwedIsLinked
  BY DEF Inv, OwedInv
<1> QED
  BY InitOk, StepOk, <1>1, PTL DEF Spec

\* With a semaphore that counts as far as there are callbacks, run() never sleeps
\* over one that is linked and that nobody is about to wake it for: any limit
\* below that, such as the 1 of FreeRTOS, is what can strand one.
THEOREM NeverStranded ==
  ASSUME Cardinality(Items) <= SemMax
  PROVE  Spec => []NoneStranded
<1>1. Init => NoneStranded
  <2>1. Cardinality({}) = 0
    BY FS_EmptySet
  <2> QED
    BY <2>1 DEF Init, DequeInit, NoneStranded
<1>2. Inv /\ NoneStranded /\ [Next]_vars => NoneStranded'
  <2>1. CASE Next
    BY <2>1, StepNone
  <2>2. CASE UNCHANGED vars
    BY <2>2 DEF vars, dequeVars, runVars, NoneStranded
  <2> QED
    BY <2>1, <2>2
<1> QED
  BY <1>1, <1>2, InitOk, StepOk, PTL DEF Spec

-----------------------------------------------------------------------------
(* The expander's cache.  In "cache" the chip has been written and the     *)
(* cache has not; only the one thread of the lights gets there, and with   *)
(* the value that it wrote, which is what makes its write of the cache     *)
(* right.                                                                  *)

Places == {"idle", "toggle", "flush", "led", "cache"}

CacheInv ==
  /\ use \in {"pins", "irq", "keys"}
  /\ pc \in [Users -> [at : Places, bit : Bits \cup {Null}, word : SUBSET Bits]]
  /\ leds \subseteq Bits
  /\ dirty \in BOOLEAN
  /\ \A u \in Users : /\ pc[u].at \in {"led", "cache"} => u = Lights /\ use = "keys"
                      /\ pc[u].at = "cache" => olat = pc[u].word
  /\ ~dirty /\ (\A u \in Users : pc[u].at # "cache") => olat = data

LEMMA LightsUse == Lights \in Users
  BY ExpanderAssumption DEF Lights

LEMMA PutType ==
  ASSUME NEW S \in SUBSET Bits, NEW b \in Bits, NEW on
  PROVE  Put(S, b, on) \in SUBSET Bits
  BY DEF Put

LEMMA CacheInit == ExpInit => CacheInv
<1> SUFFICES ASSUME ExpInit PROVE CacheInv
  OBVIOUS
<1>1. pc = [u \in Users |-> Idle] /\ use \in {"pins", "irq", "keys"}
  BY DEF ExpInit
<1>2. Idle \in [at : Places, bit : Bits \cup {Null}, word : SUBSET Bits]
      /\ Idle.at = "idle"
  BY DEF Idle, Places
<1>3. \A u \in Users : pc[u].at = "idle"
  BY <1>1, <1>2
<1>4. leds \subseteq Bits /\ dirty \in BOOLEAN /\ olat = data
  BY DEF ExpInit, KeyboardInit
<1>5. pc \in [Users -> [at : Places, bit : Bits \cup {Null}, word : SUBSET Bits]]
  BY <1>1, <1>2
<1> QED
  BY <1>1, <1>3, <1>4, <1>5 DEF CacheInv

\* A user goes on, and neither the chip nor the cache gets out of step by it.
LEMMA UserGoes ==
  ASSUME CacheInv, NEW u \in Users, NEW at \in {"idle", "toggle", "flush"},
         NEW b \in Bits \cup {Null}, NEW word \in SUBSET Bits, Goto(u, at, b, word),
         pc[u].at # "cache", use' = use, leds' = leds, dirty' \in BOOLEAN,
         olat' = olat \/ use # "keys",
         ~dirty' => olat' = data' \/ (~dirty /\ olat' = olat /\ data' = data)
  PROVE  CacheInv'
<1>1. pc' \in [Users -> [at : Places, bit : Bits \cup {Null}, word : SUBSET Bits]]
  BY DEF CacheInv, Goto, Places
<1>2. pc'[u].at = at /\ \A v \in Users : v # u => pc'[v] = pc[v]
  BY DEF CacheInv, Goto
<1>3. \A v \in Users : /\ pc'[v].at \in {"led", "cache"} => v = Lights /\ use' = "keys"
                       /\ pc'[v].at = "cache" => olat' = pc'[v].word
  BY <1>2 DEF CacheInv
<1>4. ASSUME ~dirty', \A v \in Users : pc'[v].at # "cache" PROVE olat' = data'
  <2>1. \A v \in Users : pc[v].at # "cache"
    BY <1>2, <1>4
  <2> QED
    BY <1>4, <2>1 DEF CacheInv
<1>5. Lights' = Lights
  BY DEF Lights
<1> QED
  BY <1>1, <1>3, <1>4, <1>5 DEF CacheInv

LEMMA CacheStep == CacheInv /\ [ExpNext]_allVars => CacheInv'
<1> SUFFICES ASSUME CacheInv, [ExpNext]_allVars PROVE CacheInv'
  OBVIOUS
<1>1. ASSUME UNCHANGED <<use, pc, leds, dirty, data, olat>> PROVE CacheInv'
  BY <1>1 DEF CacheInv, Lights
<1>2. ASSUME NEW u \in Users, NEW b, NEW on, NEW auto,
             pc[u].at # "cache", PinSet(u, b, on, auto), UserFrame
      PROVE  CacheInv'
  <2>1. PICK at \in {"idle", "flush"} : Goto(u, at, Null, {})
    BY <1>2 DEF PinSet
  <2>2. olat' = olat /\ use' = use /\ leds' = leds /\ dirty' = (dirty \/ data' # data)
    BY <1>2 DEF PinSet, CacheSet, chipVars, UserFrame, appVars
  <2>3. dirty' \in BOOLEAN
    BY <2>2
  <2>4. ~dirty' => ~dirty /\ olat' = olat /\ data' = data
    BY <2>2
  <2>5. pc[u].at # "cache" /\ {} \in SUBSET Bits
    BY <1>2
  <2> HIDE DEF CacheInv
  <2> QED
    BY <2>1, <2>2, <2>3, <2>4, <2>5, UserGoes
<1>3. ASSUME NEW u \in Users, Set(u) PROVE CacheInv'
  BY <1>2, <1>3 DEF Set, Outputs
<1>4. ASSUME NEW u \in Users, Get(u) PROVE CacheInv'
  <2>1. PICK b \in Bits : Goto(u, "toggle", b, Put({}, b, b \notin data))
    BY <1>4 DEF Get, Outputs
  <2>2. PICK word \in SUBSET Bits : word = Put({}, b, b \notin data)
    BY PutType
  <2>3. UNCHANGED <<use, leds, dirty, data, olat>> /\ pc[u].at = "idle"
    BY <1>4 DEF Get, chipVars, cacheVars, UserFrame, appVars
  <2> QED
    BY <2>1, <2>2, <2>3, UserGoes DEF CacheInv
<1>5. ASSUME NEW u \in Users, Toggle(u) PROVE CacheInv'
  <2>1. PICK auto \in BOOLEAN : PinSet(u, pc[u].bit, pc[u].bit \in pc[u].word, auto)
    BY <1>5 DEF Toggle
  <2>2. pc[u].at # "cache" /\ UserFrame
    BY <1>5 DEF Toggle
  <2> QED
    BY <1>2, <2>1, <2>2
<1>6. ASSUME NEW u \in Users, Flush(u) PROVE CacheInv'
  <2>1. use = "pins" /\ dirty' = FALSE /\ data' = data
        /\ olat' = (IF dirty THEN data ELSE olat) /\ use' = use /\ leds' = leds
    BY <1>6 DEF Flush, FlushCache, UserFrame, appVars
  <2>2. \A v \in Users : pc[v].at # "cache"
    BY <2>1 DEF CacheInv
  <2>3. olat' = data'
    <3>1. CASE dirty
      BY <2>1, <3>1
    <3>2. CASE ~dirty
      BY <2>1, <2>2, <3>2 DEF CacheInv
    <3> QED
      BY <3>1, <3>2
  <2>4. CASE Goto(u, "idle", Null, {})
    <3>1. dirty' \in BOOLEAN /\ {} \in SUBSET Bits /\ Null \in Bits \cup {Null}
          /\ "idle" \in {"idle", "toggle", "flush"} /\ pc[u].at # "cache"
      BY <2>1, <2>2
    <3>2. (olat' = olat \/ use # "keys") /\ use' = use /\ leds' = leds
      BY <2>1
    <3>3. ~dirty' => olat' = data' \/ (~dirty /\ olat' = olat /\ data' = data)
      BY <2>3
    <3> QED
      BY <2>4, <3>1, <3>2, <3>3, UserGoes
  <2>5. CASE UNCHANGED pc
    BY <2>1, <2>2, <2>3, <2>5 DEF CacheInv, Lights
  <2> QED
    BY <1>6, <2>4, <2>5 DEF Flush
<1>7. ASSUME SetLed(Lights) PROVE CacheInv'
  <2>1. PICK at \in {"led", "idle"} : Goto(Lights, at, Null, leds')
    BY <1>7 DEF SetLed
  <2>2. leds' \in SUBSET Bits
    BY <1>7, PutType DEF SetLed, CacheInv
  <2>3. UNCHANGED <<use, dirty, data, olat>> /\ pc[Lights].at = "idle" /\ use = "keys"
    BY <1>7 DEF SetLed, cacheVars, KeyFrame
  <2>4. pc' \in [Users -> [at : Places, bit : Bits \cup {Null}, word : SUBSET Bits]]
    BY <2>1, <2>2 DEF CacheInv, Goto, Places
  <2>5. pc'[Lights].at = at /\ \A v \in Users : v # Lights => pc'[v] = pc[v]
    BY <2>1, LightsUse DEF CacheInv, Goto
  <2>6. \A v \in Users : pc'[v].at = "cache" <=> pc[v].at = "cache"
    BY <2>3, <2>5
  <2>7. Lights' = Lights
    BY DEF Lights
  <2> QED
    BY <2>2, <2>3, <2>4, <2>5, <2>6, <2>7 DEF CacheInv
<1>8. ASSUME LedFlush(Lights) PROVE CacheInv'
  <2>1. Goto(Lights, "led", Null, leds)
    BY <1>8 DEF LedFlush
  <2>2. UNCHANGED <<use, leds, dirty, data, olat>> /\ pc[Lights].at = "idle" /\ use = "keys"
    BY <1>8 DEF LedFlush, cacheVars, appVars, KeyFrame
  <2>3. pc' \in [Users -> [at : Places, bit : Bits \cup {Null}, word : SUBSET Bits]]
    BY <2>1 DEF CacheInv, Goto, Places
  <2>4. pc'[Lights].at = "led" /\ \A v \in Users : v # Lights => pc'[v] = pc[v]
    BY <2>1, LightsUse DEF CacheInv, Goto
  <2>5. \A v \in Users : pc'[v].at = "cache" <=> pc[v].at = "cache"
    BY <2>2, <2>4
  <2>6. Lights' = Lights
    BY DEF Lights
  <2> QED
    BY <2>2, <2>3, <2>4, <2>5, <2>6 DEF CacheInv
<1>9. ASSUME WriteChip(Lights) PROVE CacheInv'
  <2>1. Goto(Lights, "cache", Null, pc[Lights].word) /\ olat' = pc[Lights].word
        /\ pc[Lights].at = "led"
    BY <1>9 DEF WriteChip
  <2>2. UNCHANGED <<use, leds, dirty, data>> /\ use = "keys"
    BY <1>9, <2>1, LightsUse DEF WriteChip, cacheVars, appVars, KeyFrame, CacheInv
  <2>3. pc' \in [Users -> [at : Places, bit : Bits \cup {Null}, word : SUBSET Bits]]
    BY <2>1, LightsUse DEF CacheInv, Goto, Places
  <2>4. /\ pc'[Lights].at = "cache" /\ pc'[Lights].word = olat'
        /\ \A v \in Users : v # Lights => pc'[v] = pc[v]
    BY <2>1, LightsUse DEF CacheInv, Goto
  <2>5. \A v \in Users : /\ pc'[v].at \in {"led", "cache"} => v = Lights
                         /\ pc'[v].at = "cache" => olat' = pc'[v].word
    BY <2>4 DEF CacheInv
  <2>6. Lights' = Lights
    BY DEF Lights
  <2> QED
    BY <2>2, <2>3, <2>4, <2>5, <2>6, LightsUse DEF CacheInv
<1>10. ASSUME WriteCache(Lights) PROVE CacheInv'
  <2>1. Goto(Lights, "idle", Null, {}) /\ data' = pc[Lights].word
        /\ pc[Lights].at = "cache" /\ dirty' \in BOOLEAN
    BY <1>10 DEF WriteCache, CacheWrite
  <2>2. UNCHANGED <<use, leds, olat>>
    BY <1>10 DEF WriteCache, appVars, KeyFrame
  <2>3. pc' \in [Users -> [at : Places, bit : Bits \cup {Null}, word : SUBSET Bits]]
    BY <2>1 DEF CacheInv, Goto, Places
  <2>4. pc'[Lights].at = "idle" /\ \A v \in Users : v # Lights => pc'[v] = pc[v]
    BY <2>1, LightsUse DEF CacheInv, Goto
  <2>5. olat' = data'
    BY <2>1, <2>2, LightsUse DEF CacheInv
  <2>6. \A v \in Users : /\ pc'[v].at \in {"led", "cache"} => v = Lights /\ use' = "keys"
                         /\ pc'[v].at = "cache" => olat' = pc'[v].word
    BY <2>2, <2>4 DEF CacheInv
  <2>7. Lights' = Lights
    BY DEF Lights
  <2> QED
    BY <2>1, <2>2, <2>3, <2>5, <2>6, <2>7 DEF CacheInv
<1>11. CASE Make \/ Delete \/ ReadReg \/ WriteReg \/ SetPin
  BY <1>1, <1>11
    DEF Make, Delete, ReadReg, WriteReg, SetPin, MakerFrame, chipVars, cacheVars, appVars
<1>12. ASSUME NEW b \in Bits, Change(b) PROVE CacheInv'
  BY <1>1, <1>12 DEF Change, cacheVars
<1>13. CASE OnInterrupt \/ CallPin \/ RunStep \/ PutOther \/ PostOther
  BY <1>1, <1>13
    DEF OnInterrupt, CallPin, RunStep, PutOther, PostOther, IrqFrame, cacheVars, appVars
<1>14. CASE ReadKeys \/ ClearInterrupt
  BY <1>1, <1>14 DEF ReadKeys, ClearInterrupt, KeyFrame, cacheVars, appVars
<1>15. CASE UNCHANGED allVars
  BY <1>1, <1>15 DEF allVars, expVars, chipVars, cacheVars, appVars
<1> QED
  BY <1>3, <1>4, <1>5, <1>6, <1>7, <1>8, <1>9, <1>10, <1>11, <1>12, <1>13, <1>14, <1>15
    DEF ExpNext

LEMMA CacheAgrees == CacheInv => CleanMeansWritten
  BY DEF CacheInv, CleanMeansWritten

-----------------------------------------------------------------------------
(* The registers of the pins.  Every pin but the one that is being made    *)
(* or deleted agrees with the chip; of that one the steps that are not     *)
(* left to do are done.  A register is written from the value that was     *)
(* read before: only the maker writes them, so the value is not stale.     *)

Steps(m) == IF m = "none" THEN << <<"GPINTEN", FALSE>> >> ELSE Program(m)
Armed == {"IT_RISING", "IT_FALLING"}
MakerType == [todo : Seq(Regs \X BOOLEAN), read : (SUBSET Bits) \cup {Null},
              bit : Bits \cup {Null}, to : Modes \cup {"none"}]

AgreesIn(b, r, m) ==
  /\ m # "none" =>
       /\ b \in r["IODIR"] <=> m # "OUTPUT"
       /\ m \in {"INPUT_PU", "IT_RISING", "IT_FALLING"} => b \in r["GPPU"]
       /\ m = "INPUT" => b \notin r["GPPU"]
  /\ b \in r["GPINTEN"] <=> m \in Armed

StepDone(p, b, r) == b \in r[p[1]] <=> p[2]

MakerInv ==
  use # "keys" =>
  /\ reg \in [Regs -> SUBSET Bits]
  /\ mode \in [Bits -> Modes \cup {"none"}]
  /\ maker \in MakerType
  /\ maker.bit = Null => maker = NotMaking
  /\ maker.bit # Null =>
       /\ mode[maker.bit] = "none"
       /\ ToSet(maker.todo) \subseteq ToSet(Steps(maker.to))
       /\ \A p \in ToSet(Steps(maker.to)) :
            p \in ToSet(maker.todo) \/ StepDone(p, maker.bit, reg)
       /\ maker.to \notin Armed \cup {"none"} => maker.bit \notin reg["GPINTEN"]
       /\ maker.read # Null => maker.todo # <<>> /\ maker.read = reg[Head(maker.todo)[1]]
  /\ \A b \in Bits : b # maker.bit => AgreesIn(b, reg, mode[b])

LEMMA SeqOfOne == ASSUME NEW S, NEW a \in S PROVE <<a>> \in Seq(S)
OBVIOUS

LEMMA SeqOfTwo == ASSUME NEW S, NEW a \in S, NEW b \in S PROVE <<a, b>> \in Seq(S)
OBVIOUS

LEMMA SeqOfFour ==
  ASSUME NEW S, NEW a \in S, NEW b \in S, NEW c \in S, NEW d \in S
  PROVE  <<a, b, c, d>> \in Seq(S)
OBVIOUS

LEMMA SetOfOne == ASSUME NEW a PROVE ToSet(<<a>>) = {a}
BY DEF ToSet

LEMMA SetOfTwo == ASSUME NEW a, NEW b PROVE ToSet(<<a, b>>) = {a, b}
<1>1. DOMAIN <<a, b>> = {1, 2} /\ <<a, b>>[1] = a /\ <<a, b>>[2] = b
  OBVIOUS
<1> QED
  BY <1>1 DEF ToSet

LEMMA SetOfFour ==
  ASSUME NEW a, NEW b, NEW c, NEW d PROVE ToSet(<<a, b, c, d>>) = {a, b, c, d}
<1> DEFINE q == <<a, b, c, d>>
<1>1. DOMAIN q = {1, 2, 3, 4} /\ q[1] = a /\ q[2] = b /\ q[3] = c /\ q[4] = d
  OBVIOUS
<1> HIDE DEF q
<1>2. ToSet(q) = {a, b, c, d}
  BY <1>1 DEF ToSet
<1> QED
  BY <1>2 DEF q

LEMMA SetOfTail ==
  ASSUME NEW S, NEW q \in Seq(S), q # <<>>
  PROVE  ToSet(q) = {Head(q)} \cup ToSet(Tail(q)) /\ Head(q) \in S /\ Tail(q) \in Seq(S)
<1> DEFINE n == Len(q)
<1>1. n \in Nat /\ n > 0 /\ DOMAIN q = 1 .. n /\ Head(q) = q[1] /\ q[1] \in S
  OBVIOUS
<1>2. /\ Tail(q) \in Seq(S) /\ DOMAIN Tail(q) = 1 .. n - 1
      /\ \A i \in 1 .. n - 1 : Tail(q)[i] = q[i + 1]
  OBVIOUS
<1> HIDE DEF n
<1>3. ASSUME NEW x \in ToSet(q), x # q[1] PROVE x \in ToSet(Tail(q))
  <2>1. PICK i \in 1 .. n : x = q[i]
    BY <1>1 DEF ToSet
  <2>2. i - 1 \in 1 .. n - 1 /\ (i - 1) + 1 = i
    BY <1>1, <1>3, <2>1
  <2>3. x = Tail(q)[i - 1]
    BY <1>2, <2>1, <2>2
  <2> QED
    BY <1>2, <2>2, <2>3 DEF ToSet
<1>4. ASSUME NEW x \in ToSet(Tail(q)) PROVE x \in ToSet(q)
  <2>1. PICK i \in 1 .. n - 1 : x = Tail(q)[i]
    BY <1>2 DEF ToSet
  <2>2. i + 1 \in 1 .. n /\ x = q[i + 1]
    BY <1>1, <1>2, <2>1
  <2> QED
    BY <1>1, <2>2 DEF ToSet
<1>5. q[1] \in ToSet(q)
  BY <1>1 DEF ToSet
<1> QED
  BY <1>1, <1>2, <1>3, <1>4, <1>5


\* A step sets or clears the pin's bit of a register.
On(r) == <<r, TRUE>>
Off(r) == <<r, FALSE>>

LEMMA OnOff ==
  /\ \A r \in Regs : On(r) \in Regs \X BOOLEAN /\ On(r)[1] = r /\ On(r)[2]
  /\ \A r \in Regs : Off(r) \in Regs \X BOOLEAN /\ Off(r)[1] = r /\ ~Off(r)[2]
<1>1. ASSUME NEW r \in Regs, NEW v \in BOOLEAN PROVE <<r, v>> \in Regs \X BOOLEAN
  OBVIOUS
<1>2. TRUE \in BOOLEAN /\ FALSE \in BOOLEAN
  OBVIOUS
<1>3. \A r \in Regs : On(r) \in Regs \X BOOLEAN /\ Off(r) \in Regs \X BOOLEAN
  BY <1>1, <1>2 DEF On, Off
<1>4. \A r \in Regs : On(r)[1] = r /\ On(r)[2] /\ Off(r)[1] = r /\ ~Off(r)[2]
  BY DEF On, Off
<1> QED
  BY <1>3, <1>4

\* What the constructor and the destructor do to each register.
LEMMA StepsAre ==
  /\ Steps("none")       = << Off("GPINTEN") >>
  /\ Steps("OUTPUT")     = << Off("IODIR") >>
  /\ Steps("INPUT")      = << On("IODIR"), Off("GPPU") >>
  /\ Steps("INPUT_PU")   = << On("IODIR"), On("GPPU") >>
  /\ Steps("IT_RISING")  = << On("IODIR"), On("GPPU"), On("DEFVAL"), On("GPINTEN") >>
  /\ Steps("IT_FALLING") = << On("IODIR"), On("GPPU"), Off("DEFVAL"), On("GPINTEN") >>
<1>1. Steps("none") = << Off("GPINTEN") >>
  BY DEF Steps, Off
<1>2. Steps("OUTPUT") = << Off("IODIR") >>
  BY DEF Steps, Program, Off
<1>3. Steps("INPUT") = << On("IODIR"), Off("GPPU") >>
  BY DEF Steps, Program, On, Off
<1>4. Steps("INPUT_PU") = << On("IODIR"), On("GPPU") >>
  BY DEF Steps, Program, On
<1>5. Steps("IT_RISING") = << On("IODIR"), On("GPPU"), On("DEFVAL"), On("GPINTEN") >>
  BY DEF Steps, Program, On
<1>6. Steps("IT_FALLING") = << On("IODIR"), On("GPPU"), Off("DEFVAL"), On("GPINTEN") >>
  BY DEF Steps, Program, On, Off
<1> QED
  BY <1>1, <1>2, <1>3, <1>4, <1>5, <1>6

LEMMA RegsAre == {"IODIR", "GPPU", "DEFVAL", "GPINTEN"} \subseteq Regs
BY DEF Regs

LEMMA StepType ==
  ASSUME NEW m \in Modes \cup {"none"}
  PROVE  Steps(m) \in Seq(Regs \X BOOLEAN)
<1> DEFINE P == Regs \X BOOLEAN
<1>1. \A r \in Regs : On(r) \in P /\ Off(r) \in P
  BY OnOff
<1> HIDE DEF P
<1>2. /\ On("IODIR") \in P /\ On("GPPU") \in P /\ On("DEFVAL") \in P /\ On("GPINTEN") \in P
      /\ Off("IODIR") \in P /\ Off("GPPU") \in P /\ Off("DEFVAL") \in P /\ Off("GPINTEN") \in P
  BY <1>1, RegsAre
<1>3. << Off("GPINTEN") >> \in Seq(P) /\ << Off("IODIR") >> \in Seq(P)
  BY <1>2, SeqOfOne
<1>4. << On("IODIR"), Off("GPPU") >> \in Seq(P) /\ << On("IODIR"), On("GPPU") >> \in Seq(P)
  BY <1>2, SeqOfTwo
<1>5. << On("IODIR"), On("GPPU"), On("DEFVAL"), On("GPINTEN") >> \in Seq(P)
  BY <1>2, SeqOfFour
<1>6. << On("IODIR"), On("GPPU"), Off("DEFVAL"), On("GPINTEN") >> \in Seq(P)
  BY <1>2, SeqOfFour
<1>7. Steps(m) \in Seq(P)
  BY <1>3, <1>4, <1>5, <1>6, StepsAre DEF Modes
<1> QED
  BY <1>7 DEF P

LEMMA StepSets ==
  /\ ToSet(Steps("none"))       = {Off("GPINTEN")}
  /\ ToSet(Steps("OUTPUT"))     = {Off("IODIR")}
  /\ ToSet(Steps("INPUT"))      = {On("IODIR"), Off("GPPU")}
  /\ ToSet(Steps("INPUT_PU"))   = {On("IODIR"), On("GPPU")}
  /\ ToSet(Steps("IT_RISING"))  = {On("IODIR"), On("GPPU"), On("DEFVAL"), On("GPINTEN")}
  /\ ToSet(Steps("IT_FALLING")) = {On("IODIR"), On("GPPU"), Off("DEFVAL"), On("GPINTEN")}
<1>1. ToSet(Steps("none")) = {Off("GPINTEN")} /\ ToSet(Steps("OUTPUT")) = {Off("IODIR")}
  BY StepsAre, SetOfOne
<1>2. ToSet(Steps("INPUT")) = {On("IODIR"), Off("GPPU")}
      /\ ToSet(Steps("INPUT_PU")) = {On("IODIR"), On("GPPU")}
  BY StepsAre, SetOfTwo
<1>3. ToSet(Steps("IT_RISING")) = {On("IODIR"), On("GPPU"), On("DEFVAL"), On("GPINTEN")}
  BY StepsAre, SetOfFour
<1>4. ToSet(Steps("IT_FALLING")) = {On("IODIR"), On("GPPU"), Off("DEFVAL"), On("GPINTEN")}
  BY StepsAre, SetOfFour
<1> QED
  BY <1>1, <1>2, <1>3, <1>4

\* No register is set twice, and only pins with an interrupt touch GPINTEN.
LEMMA StepsDiffer ==
  ASSUME NEW m \in Modes \cup {"none"}
  PROVE  /\ \A p, q \in ToSet(Steps(m)) : p[1] = q[1] => p = q
         /\ m \notin Armed \cup {"none"} => \A p \in ToSet(Steps(m)) : p[1] # "GPINTEN"
<1>1. CASE m = "none"
  BY <1>1, StepSets, OnOff, RegsAre
<1>2. CASE m = "OUTPUT"
  BY <1>2, StepSets, OnOff, RegsAre
<1>3. CASE m = "INPUT"
  BY <1>3, StepSets, OnOff, RegsAre
<1>4. CASE m = "INPUT_PU"
  BY <1>4, StepSets, OnOff, RegsAre
<1>5. CASE m = "IT_RISING"
  BY <1>5, StepSets, OnOff, RegsAre DEF Armed
<1>6. CASE m = "IT_FALLING"
  BY <1>6, StepSets, OnOff, RegsAre DEF Armed
<1> QED
  BY <1>1, <1>2, <1>3, <1>4, <1>5, <1>6 DEF Modes

\* When all the steps for a mode are done, the chip agrees with it.
LEMMA StepsAgree ==
  ASSUME NEW m \in Modes \cup {"none"}, NEW b, NEW r,
         \A p \in ToSet(Steps(m)) : StepDone(p, b, r),
         m \notin Armed \cup {"none"} => b \notin r["GPINTEN"]
  PROVE  AgreesIn(b, r, m)
<1>1. CASE m = "none"
  BY <1>1, StepSets, OnOff, RegsAre DEF StepDone, AgreesIn, Armed
<1>2. CASE m = "OUTPUT"
  BY <1>2, StepSets, OnOff, RegsAre DEF StepDone, AgreesIn, Armed
<1>3. CASE m = "INPUT"
  BY <1>3, StepSets, OnOff, RegsAre DEF StepDone, AgreesIn, Armed
<1>4. CASE m = "INPUT_PU"
  BY <1>4, StepSets, OnOff, RegsAre DEF StepDone, AgreesIn, Armed
<1>5. CASE m = "IT_RISING"
  BY <1>5, StepSets, OnOff, RegsAre DEF StepDone, AgreesIn, Armed
<1>6. CASE m = "IT_FALLING"
  BY <1>6, StepSets, OnOff, RegsAre DEF StepDone, AgreesIn, Armed
<1> QED
  BY <1>1, <1>2, <1>3, <1>4, <1>5, <1>6 DEF Modes

LEMMA MakerStart == ExpInit => MakerInv
<1> SUFFICES ASSUME ExpInit, use # "keys" PROVE MakerInv
  BY DEF MakerInv
<1>1. reg = [r \in Regs |-> IF r = "IODIR" THEN Bits ELSE {}] /\ reg \in [Regs -> SUBSET Bits]
  BY DEF ExpInit
<1>2. mode = [b \in Bits |-> "none"] /\ maker = NotMaking
  BY DEF ExpInit
<1>3. NotMaking \in MakerType /\ NotMaking.bit = Null
  BY DEF NotMaking, MakerType
<1>4. "none" \notin Armed /\ reg["GPINTEN"] = {}
  BY <1>1 DEF Armed, Regs
<1>5. \A b \in Bits : AgreesIn(b, reg, mode[b])
  BY <1>2, <1>4 DEF AgreesIn
<1> QED
  BY <1>1, <1>2, <1>3, <1>5 DEF MakerInv

LEMMA MakeOk == MakerInv /\ Make => MakerInv'
<1> SUFFICES ASSUME MakerInv, Make PROVE MakerInv'
  OBVIOUS
<1>1. PICK b \in Bits, m \in Modes :
        mode[b] = "none" /\ maker' = [NotMaking EXCEPT !.todo = Program(m), !.bit = b, !.to = m]
  BY DEF Make
<1>2. use # "keys" /\ maker = NotMaking /\ reg' = reg /\ mode' = mode /\ use' = use
  BY DEF Make, MakerFrame, chipVars
<1>3. /\ maker' = [todo |-> Program(m), read |-> Null, bit |-> b, to |-> m]
      /\ maker'.todo = Program(m) /\ maker'.read = Null /\ maker'.bit = b /\ maker'.to = m
  BY <1>1 DEF NotMaking
<1>4. Program(m) = Steps(m) /\ Program(m) \in Seq(Regs \X BOOLEAN)
  <2>1. m # "none"
    BY DEF Modes
  <2>2. Program(m) = Steps(m)
    BY <2>1 DEF Steps
  <2> QED
    BY <2>2, StepType
<1>5. maker' \in MakerType
  BY <1>3, <1>4 DEF MakerType
<1>6. maker.bit = Null /\ Null \notin Bits
  BY <1>2, ExpanderAssumption DEF NotMaking
<1>7. \A c \in Bits : AgreesIn(c, reg, mode[c])
  BY <1>2, <1>6 DEF MakerInv
<1>8. b \notin reg["GPINTEN"]
  BY <1>1, <1>7 DEF AgreesIn, Armed
<1>9. maker'.bit # Null /\ reg \in [Regs -> SUBSET Bits] /\ mode \in [Bits -> Modes \cup {"none"}]
  BY <1>2, <1>3, <1>6 DEF MakerInv
<1> QED
  BY <1>1, <1>2, <1>3, <1>4, <1>5, <1>7, <1>8, <1>9 DEF MakerInv

LEMMA DeleteOk == MakerInv /\ Delete => MakerInv'
<1> SUFFICES ASSUME MakerInv, Delete PROVE MakerInv'
  OBVIOUS
<1> DEFINE todo == << <<"GPINTEN", FALSE>> >>
<1>1. PICK b \in Bits :
        /\ mode[b] # "none" /\ mode' = [mode EXCEPT ![b] = "none"]
        /\ maker' = [NotMaking EXCEPT !.todo = todo, !.bit = b]
  BY DEF Delete
<1>2. use # "keys" /\ maker = NotMaking /\ reg' = reg /\ use' = use
  BY DEF Delete, MakerFrame, chipVars
<1>3. todo = Steps("none") /\ todo \in Seq(Regs \X BOOLEAN)
  <2>1. todo = Steps("none")
    BY DEF Steps
  <2> QED
    BY <2>1, StepType
<1> HIDE DEF todo
<1>4. /\ maker' = [todo |-> todo, read |-> Null, bit |-> b, to |-> "none"]
      /\ maker'.todo = todo /\ maker'.read = Null /\ maker'.bit = b /\ maker'.to = "none"
  BY <1>1 DEF NotMaking
<1>5. maker' \in MakerType
  BY <1>3, <1>4 DEF MakerType
<1>6. maker.bit = Null /\ Null \notin Bits
  BY <1>2, ExpanderAssumption DEF NotMaking
<1>7. \A c \in Bits : AgreesIn(c, reg, mode[c])
  BY <1>2, <1>6 DEF MakerInv
<1>8. reg \in [Regs -> SUBSET Bits] /\ mode' \in [Bits -> Modes \cup {"none"}]
      /\ mode'[b] = "none" /\ \A c \in Bits : c # b => mode'[c] = mode[c]
  BY <1>1, <1>2 DEF MakerInv
<1>9. maker'.bit # Null
  BY <1>4, <1>6
<1> QED
  BY <1>2, <1>3, <1>4, <1>5, <1>7, <1>8, <1>9 DEF MakerInv

LEMMA ReadRegOk == MakerInv /\ ReadReg => MakerInv'
<1> SUFFICES ASSUME MakerInv, ReadReg, use # "keys" PROVE MakerInv'
  BY DEF MakerInv, ReadReg, MakerFrame
<1>1. reg' = reg /\ mode' = mode /\ use' = use /\ maker.todo # <<>>
  BY DEF ReadReg, MakerFrame, chipVars
<1>2. maker \in MakerType /\ reg \in [Regs -> SUBSET Bits]
  BY DEF MakerInv
<1>3. maker.todo \in Seq(Regs \X BOOLEAN)
  BY <1>2 DEF MakerType
<1>4. Head(maker.todo) \in Regs \X BOOLEAN
  BY <1>1, <1>3, SetOfTail
<1>5. reg[Head(maker.todo)[1]] \in SUBSET Bits
  BY <1>2, <1>4
<1>6. /\ maker' \in MakerType
      /\ maker'.todo = maker.todo /\ maker'.bit = maker.bit /\ maker'.to = maker.to
      /\ maker'.read = reg[Head(maker.todo)[1]]
  BY <1>2, <1>5 DEF ReadReg, MakerType
<1>7. maker.bit # Null
  BY <1>1 DEF MakerInv, NotMaking
<1> QED
  BY <1>1, <1>6, <1>7 DEF MakerInv

LEMMA WriteRegOk == MakerInv /\ WriteReg => MakerInv'
<1> SUFFICES ASSUME MakerInv, WriteReg, use # "keys" PROVE MakerInv'
  BY DEF MakerInv, WriteReg, MakerFrame
<1> DEFINE step == Head(maker.todo)
           m == maker.to
           b == maker.bit
<1>1. mode' = mode /\ use' = use /\ maker.todo # <<>> /\ maker.read # Null
  BY DEF WriteReg, MakerFrame
<1>2. maker \in MakerType /\ reg \in [Regs -> SUBSET Bits]
  BY DEF MakerInv
<1>3. maker.todo \in Seq(Regs \X BOOLEAN) /\ m \in Modes \cup {"none"} /\ b \in Bits \cup {Null}
  BY <1>2 DEF MakerType
<1>4. /\ step \in Regs \X BOOLEAN /\ Tail(maker.todo) \in Seq(Regs \X BOOLEAN)
      /\ ToSet(maker.todo) = {step} \cup ToSet(Tail(maker.todo))
  BY <1>1, <1>3, SetOfTail
<1>5. step[1] \in Regs
  BY <1>4
<1>6. b # Null
  BY <1>1 DEF MakerInv, NotMaking
<1>7. /\ ToSet(maker.todo) \subseteq ToSet(Steps(m))
      /\ \A p \in ToSet(Steps(m)) : p \in ToSet(maker.todo) \/ StepDone(p, b, reg)
      /\ m \notin Armed \cup {"none"} => b \notin reg["GPINTEN"]
      /\ maker.read = reg[step[1]] /\ mode[b] = "none"
  BY <1>1, <1>6 DEF MakerInv
<1>8. reg' = [reg EXCEPT ![step[1]] = Put(reg[step[1]], b, step[2])]
  BY <1>7 DEF WriteReg
<1>9. /\ maker' \in MakerType
      /\ maker'.todo = Tail(maker.todo) /\ maker'.bit = b /\ maker'.to = m
      /\ maker'.read = Null
  BY <1>2, <1>4 DEF WriteReg, MakerType
<1>10. step \in ToSet(Steps(m))
  BY <1>4, <1>7
<1> HIDE DEF step, m, b
<1>11. reg' \in [Regs -> SUBSET Bits]
  <2>1. Put(reg[step[1]], b, step[2]) \in SUBSET Bits
    BY <1>2, <1>3, <1>5, <1>6, PutType
  <2> QED
    BY <1>2, <1>8, <2>1
<1>12. StepDone(step, b, reg')
  BY <1>2, <1>5, <1>8 DEF StepDone, Put
<1>13. \A p \in ToSet(Steps(m)) : p \in ToSet(Tail(maker.todo)) \/ StepDone(p, b, reg')
  <2>1. ASSUME NEW p \in ToSet(Steps(m)), p # step, p \notin ToSet(Tail(maker.todo))
        PROVE  StepDone(p, b, reg')
    <3>1. p[1] # step[1]
      BY <1>3, <1>10, <2>1, StepsDiffer
    <3>2. StepDone(p, b, reg)
      BY <1>4, <1>7, <2>1
    <3>3. reg'[p[1]] = reg[p[1]]
      BY <1>2, <1>8, <3>1
    <3> QED
      BY <3>2, <3>3 DEF StepDone
  <2> QED
    BY <1>12, <2>1
<1>14. m \notin Armed \cup {"none"} => b \notin reg'["GPINTEN"]
  <2>1. SUFFICES ASSUME m \notin Armed \cup {"none"} PROVE b \notin reg'["GPINTEN"]
    OBVIOUS
  <2>2. step[1] # "GPINTEN"
    BY <1>3, <1>10, <2>1, StepsDiffer
  <2> QED
    BY <1>2, <1>7, <1>8, <2>1, <2>2
<1>15. ASSUME NEW c \in Bits, c # b PROVE AgreesIn(c, reg', mode[c])
  <2>1. AgreesIn(c, reg, mode[c])
    BY <1>15 DEF MakerInv, b
  <2>2. \A r \in Regs : c \in reg'[r] <=> c \in reg[r]
    BY <1>2, <1>5, <1>8, <1>15 DEF Put
  <2> QED
    BY <2>1, <2>2, RegsAre DEF AgreesIn
<1>16. ToSet(Tail(maker.todo)) \subseteq ToSet(Steps(m))
  BY <1>4, <1>7
<1>17. mode \in [Bits -> Modes \cup {"none"}]
  BY DEF MakerInv
<1> QED
  BY <1>1, <1>6, <1>7, <1>9, <1>11, <1>13, <1>14, <1>15, <1>16, <1>17 DEF MakerInv

LEMMA SetPinOk == MakerInv /\ SetPin => MakerInv'
<1> SUFFICES ASSUME MakerInv, SetPin, use # "keys" PROVE MakerInv'
  BY DEF MakerInv, SetPin, MakerFrame
<1> DEFINE m == maker.to
           b == maker.bit
<1>1. reg' = reg /\ use' = use /\ maker.todo = <<>> /\ b # Null /\ maker' = NotMaking
  BY DEF SetPin, MakerFrame, chipVars
<1>2. maker \in MakerType /\ m \in Modes \cup {"none"} /\ b \in Bits
  BY <1>1 DEF MakerInv, MakerType
<1>3. \A p \in ToSet(Steps(m)) : StepDone(p, b, reg)
  <2>1. ToSet(maker.todo) = {}
    BY <1>1 DEF ToSet
  <2> QED
    BY <1>1, <2>1 DEF MakerInv
<1>4. m \notin Armed \cup {"none"} => b \notin reg["GPINTEN"]
  BY <1>1 DEF MakerInv
<1>5. AgreesIn(b, reg, m)
  BY <1>2, <1>3, <1>4, StepsAgree
<1>6. mode \in [Bits -> Modes \cup {"none"}] /\ mode[b] = "none" /\ reg \in [Regs -> SUBSET Bits]
  BY <1>1 DEF MakerInv
<1>7. mode' = [mode EXCEPT ![b] = m]
  <2>1. CASE m = "none"
    BY <1>6, <2>1 DEF SetPin
  <2>2. CASE m # "none"
    BY <2>2 DEF SetPin
  <2> QED
    BY <2>1, <2>2
<1>8. NotMaking \in MakerType /\ NotMaking.bit = Null
  BY DEF NotMaking, MakerType
<1>9. ASSUME NEW c \in Bits PROVE AgreesIn(c, reg, mode'[c])
  <2>1. CASE c = b
    BY <1>2, <1>5, <1>6, <1>7, <2>1
  <2>2. CASE c # b
    BY <1>6, <1>7, <2>2 DEF MakerInv
  <2> QED
    BY <2>1, <2>2
<1>10. mode' \in [Bits -> Modes \cup {"none"}]
  BY <1>2, <1>6, <1>7
<1> QED
  BY <1>1, <1>6, <1>8, <1>9, <1>10 DEF MakerInv

LEMMA MakerStep == MakerInv /\ [ExpNext]_allVars => MakerInv'
<1> SUFFICES ASSUME MakerInv, [ExpNext]_allVars PROVE MakerInv'
  OBVIOUS
<1>1. ASSUME UNCHANGED <<use, reg, mode, maker>> PROVE MakerInv'
  BY <1>1 DEF MakerInv
<1>2. ASSUME NEW u \in Users, Set(u) \/ Get(u) \/ Toggle(u) \/ Flush(u) PROVE MakerInv'
  <2>1. UNCHANGED <<use, mode, maker>>
    BY <1>2 DEF Set, Get, Toggle, Flush, UserFrame
  <2>2. reg' = reg
    BY <1>2 DEF Set, Get, Toggle, Flush, PinSet, FlushCache, chipVars
  <2> QED
    BY <1>1, <2>1, <2>2
<1>3. CASE SetLed(Lights) \/ LedFlush(Lights) \/ WriteChip(Lights) \/ WriteCache(Lights)
  BY <1>1, <1>3 DEF SetLed, LedFlush, WriteChip, WriteCache, KeyFrame
<1>4. CASE Make \/ Delete \/ ReadReg \/ WriteReg \/ SetPin
  BY <1>4, MakeOk, DeleteOk, ReadRegOk, WriteRegOk, SetPinOk
<1>5. ASSUME NEW b \in Bits, Change(b) PROVE MakerInv'
  BY <1>1, <1>5 DEF Change
<1>6. CASE OnInterrupt \/ CallPin \/ RunStep \/ PutOther \/ PostOther
  BY <1>1, <1>6 DEF OnInterrupt, CallPin, RunStep, PutOther, PostOther, IrqFrame
<1>7. CASE ReadKeys \/ ClearInterrupt
  BY <1>1, <1>7 DEF ReadKeys, ClearInterrupt, KeyFrame
<1>8. CASE UNCHANGED allVars
  BY <1>1, <1>8 DEF allVars, expVars, chipVars
<1> QED
  BY <1>2, <1>3, <1>4, <1>5, <1>6, <1>7, <1>8 DEF ExpNext

LEMMA RegistersAgree == MakerInv => RegistersFollowModes
<1> SUFFICES ASSUME MakerInv, maker = NotMaking, use # "keys"
             PROVE  RegistersFollowModes
  BY DEF RegistersFollowModes
<1>1. maker.bit = Null /\ Null \notin Bits
  BY ExpanderAssumption DEF NotMaking
<1>2. \A b \in Bits : AgreesIn(b, reg, mode[b])
  BY <1>1 DEF MakerInv
<1>3. reg["GPINTEN"] \subseteq Bits
  BY RegsAre DEF MakerInv
<1>4. reg["GPINTEN"] = {b \in Bits : mode[b] \in Armed}
  BY <1>2, <1>3 DEF AgreesIn
<1> QED
  BY <1>2, <1>4 DEF RegistersFollowModes, AgreesIn, Armed

-----------------------------------------------------------------------------
(* The callback of the chip is put at most once at a time: while it is     *)
(* linked, and until it has read the flags, one is still flagged, and no   *)
(* further edge comes.  Handlers that read inputs clear flags without      *)
(* seeing them, so they are excluded here.                                 *)

Running == rpc = "execute" /\ cb = Handler

LinkInv ==
  /\ DequeInv
  /\ intf \subseteq Bits
  /\ found = {Null} \/ found \subseteq Bits
  /\ Handler \in ToSet(items) => intf # {} /\ use = "irq"
  /\ Running /\ found = {Null} => intf # {} /\ Handler \notin ToSet(items)
  /\ ~Running => found = {Null}
  /\ Running => use = "irq"
  /\ use # "keys" => ~woken

LEMMA LinkStart == ExpInit => LinkInv
<1> SUFFICES ASSUME ExpInit PROVE LinkInv
  OBVIOUS
<1>1. DequeInv
  BY InitInv DEF ExpInit, Init
<1>2. items = <<>> /\ rpc = "test" /\ intf = {} /\ found = {Null} /\ woken = FALSE
  BY DEF ExpInit, Init, DequeInit
<1>3. ToSet(items) = {}
  BY <1>2 DEF ToSet
<1> QED
  BY <1>1, <1>2, <1>3 DEF LinkInv, Running

\* Whatever leaves the deque, the flags and run() alone.
LEMMA LinkFrame ==
  LinkInv /\ UNCHANGED <<dequeVars, intf, found, use, rpc, cb, woken>> => LinkInv'
<1> SUFFICES ASSUME LinkInv, UNCHANGED <<dequeVars, intf, found, use, rpc, cb, woken>>
             PROVE  LinkInv'
  OBVIOUS
<1>1. DequeInv' /\ items' = items
  BY StepInv DEF LinkInv, dequeVars
<1> QED
  BY <1>1 DEF LinkInv, Running

LEMMA LinkChange == ASSUME NEW b \in Bits PROVE LinkInv /\ Change(b) => LinkInv'
<1> SUFFICES ASSUME LinkInv, Change(b) PROVE LinkInv'
  OBVIOUS
<1> DEFINE edge == intf = {} /\ intf' # {}
<1>1. /\ use' = use /\ found' = found /\ intf \subseteq intf' /\ intf' \subseteq Bits
      /\ woken' = (woken \/ (use = "keys" /\ edge))
      /\ IF use = "irq" /\ edge THEN PutHandler ELSE UNCHANGED vars
  BY DEF Change, LinkInv
<1> HIDE DEF edge
<1>2. use # "keys" => ~woken'
  BY <1>1 DEF LinkInv
<1>3. CASE use = "irq" /\ edge
  <2>1. PutHandler /\ intf = {} /\ intf' # {}
    BY <1>1, <1>3 DEF edge
  <2>2. PushTail(Handler) /\ rpc' = rpc /\ cb' = cb
    BY <2>1 DEF PutHandler, runVars
  <2>3. Handler \notin ToSet(items) /\ Handler \in Items
    BY <2>1, ExpanderAssumption DEF LinkInv
  <2>4. DequeInv'
    BY <2>2, <2>3, PushTailInv DEF LinkInv
  <2>5. ~(Running /\ found = {Null})
    BY <2>1 DEF LinkInv
  <2> QED
    BY <1>1, <1>2, <1>3, <2>1, <2>2, <2>4, <2>5 DEF LinkInv, Running
<1>4. CASE ~(use = "irq" /\ edge)
  <2>1. UNCHANGED vars
    BY <1>1, <1>4
  <2>2. UNCHANGED dequeVars /\ items' = items /\ rpc' = rpc /\ cb' = cb
    BY <2>1 DEF vars, dequeVars, runVars
  <2>3. DequeInv'
    BY <2>2, StepInv DEF LinkInv
  <2> QED
    BY <1>1, <1>2, <2>2, <2>3 DEF LinkInv, Running
<1> QED
  BY <1>3, <1>4

LEMMA LinkHandler ==
  ASSUME HandlersRead = FALSE
  PROVE  LinkInv /\ (OnInterrupt \/ CallPin) => LinkInv'
<1> SUFFICES ASSUME LinkInv, OnInterrupt \/ CallPin PROVE LinkInv'
  OBVIOUS
<1>1. UNCHANGED <<dequeVars, items, rpc, cb, use, woken>> /\ Running
  BY DEF OnInterrupt, CallPin, IrqFrame, vars, dequeVars, runVars, appVars, Running
<1>2. DequeInv'
  BY <1>1, StepInv DEF LinkInv
<1>3. Null \notin Bits
  BY ExpanderAssumption
<1>4. CASE OnInterrupt
  <2>1. found = {Null} /\ found' = intf /\ intf' = {}
    BY <1>4 DEF OnInterrupt
  <2>2. Handler \notin ToSet(items) /\ found' # {Null} /\ found' \subseteq Bits
    BY <1>1, <1>3, <2>1 DEF LinkInv
  <2> QED
    BY <1>1, <1>2, <2>1, <2>2 DEF LinkInv, Running
<1>5. CASE CallPin
  <2>1. PICK b \in found \ {Null} : found' = found \ {b}
    BY <1>5 DEF CallPin
  <2>2. found \subseteq Bits /\ intf' = intf
    BY <1>5, <2>1 DEF LinkInv, CallPin
  <2>3. found' # {Null} /\ found' \subseteq Bits
    BY <1>3, <2>1, <2>2
  <2> QED
    BY <1>1, <1>2, <2>2, <2>3 DEF LinkInv, Running
<1> QED
  BY <1>4, <1>5

LEMMA LinkRun == LinkInv /\ RunStep => LinkInv'
<1> SUFFICES ASSUME LinkInv, RunStep PROVE LinkInv'
  OBVIOUS
<1>1. Run /\ UNCHANGED <<use, woken, intf>>
      /\ found' = (IF rpc = "execute" THEN {Null} ELSE found)
  BY DEF RunStep, IrqFrame, appVars
<1>2. CASE Test \/ Wait
  <2>1. UNCHANGED dequeVars /\ items' = items /\ ~Running /\ ~Running' /\ found' = found
    BY <1>1, <1>2 DEF Test, Wait, dequeVars, Running
  <2>2. DequeInv'
    BY <2>1, StepInv DEF LinkInv
  <2> QED
    BY <1>1, <2>1, <2>2 DEF LinkInv
<1>3. CASE Execute
  <2>1. UNCHANGED dequeVars /\ items' = items /\ ~Running' /\ found' = {Null}
    BY <1>1, <1>3 DEF Execute, dequeVars, Running
  <2>2. DequeInv'
    BY <2>1, StepInv DEF LinkInv
  <2> QED
    BY <1>1, <2>1, <2>2 DEF LinkInv
<1>4. CASE Pop
  <2>1. found' = found /\ found = {Null}
    BY <1>1, <1>4 DEF Pop, LinkInv, Running
  <2>2. CASE PopHead /\ cb' = head /\ rpc' = "execute"
    <3>1. DequeInv'
      BY <2>2, PopHeadInv DEF LinkInv
    <3>2. head \in ToSet(items) /\ ToSet(items') = ToSet(items) \ {head}
      BY <2>2, PopTakesHead DEF LinkInv
    <3>3. Running' => head = Handler
      BY <2>2 DEF Running
    <3> QED
      BY <1>1, <2>1, <3>1, <3>2, <3>3 DEF LinkInv
  <2>3. CASE rpc' = "test" /\ UNCHANGED <<dequeVars, cb>>
    <3>1. DequeInv' /\ items' = items /\ ~Running'
      BY <2>3, StepInv DEF LinkInv, dequeVars, Running
    <3> QED
      BY <1>1, <2>1, <3>1 DEF LinkInv
  <2> QED
    BY <1>4, <2>2, <2>3 DEF Pop
<1> QED
  BY <1>1, <1>2, <1>3, <1>4 DEF Run

LEMMA LinkPut == LinkInv /\ PutOther => LinkInv'
<1> SUFFICES ASSUME LinkInv, PutOther PROVE LinkInv'
  OBVIOUS
<1>1. PICK w \in Items \ {Handler} : PutPush(w)
  BY DEF PutOther
<1>2. UNCHANGED <<use, woken, intf, found, rpc, cb>>
  BY <1>1 DEF PutOther, IrqFrame, appVars, PutPush, runVars
<1>3. ToSet(items') = ToSet(items) \cup {w} /\ DequeInv'
  BY <1>1, PushAdds, PushTailInv DEF PutPush, LinkInv
<1>4. Handler \in ToSet(items') <=> Handler \in ToSet(items)
  BY <1>3
<1> QED
  BY <1>2, <1>3, <1>4 DEF LinkInv, Running

LEMMA LinkStep ==
  ASSUME HandlersRead = FALSE
  PROVE  LinkInv /\ [ExpNext]_allVars => LinkInv'
<1> SUFFICES ASSUME LinkInv, [ExpNext]_allVars PROVE LinkInv'
  OBVIOUS
<1>1. ASSUME UNCHANGED vars, UNCHANGED <<intf, found, use, woken>> PROVE LinkInv'
  BY <1>1, LinkFrame DEF vars, runVars
<1>2. ASSUME NEW u \in Users, Set(u) \/ Get(u) \/ Toggle(u) \/ Flush(u) PROVE LinkInv'
  <2>1. UNCHANGED vars /\ UNCHANGED <<found, use, woken>>
    BY <1>2 DEF Set, Get, Toggle, Flush, UserFrame, appVars
  <2>2. intf' = intf
    BY <1>2 DEF Set, Get, Toggle, Flush, PinSet, FlushCache, chipVars
  <2> QED
    BY <1>1, <2>1, <2>2
<1>3. CASE SetLed(Lights) \/ LedFlush(Lights) \/ WriteChip(Lights) \/ WriteCache(Lights)
  BY <1>1, <1>3 DEF SetLed, LedFlush, WriteChip, WriteCache, KeyFrame, appVars
<1>4. CASE Make \/ Delete \/ ReadReg \/ WriteReg \/ SetPin
  BY <1>1, <1>4
    DEF Make, Delete, ReadReg, WriteReg, SetPin, MakerFrame, chipVars, appVars
<1>5. ASSUME NEW b \in Bits, Change(b) PROVE LinkInv'
  BY <1>5, LinkChange
<1>6. CASE OnInterrupt \/ CallPin
  BY <1>6, LinkHandler
<1>7. CASE RunStep
  BY <1>7, LinkRun
<1>8. CASE PutOther
  BY <1>8, LinkPut
<1>9. CASE PostOther
  BY <1>9, LinkFrame DEF PostOther, PutPost, IrqFrame, appVars, runVars
<1>10. CASE ReadKeys \/ ClearInterrupt
  <2>1. UNCHANGED dequeVars /\ UNCHANGED <<items, found, use, rpc, cb>> /\ intf' = {}
        /\ woken /\ woken' \in {woken, FALSE}
    BY <1>10 DEF ReadKeys, ClearInterrupt, KeyFrame, appVars, vars, dequeVars, runVars
  <2>2. use = "keys"
    BY <2>1 DEF LinkInv
  <2>3. DequeInv'
    BY <2>1, StepInv DEF LinkInv
  <2> QED
    BY <2>1, <2>2, <2>3 DEF LinkInv, Running
<1>11. CASE UNCHANGED allVars
  BY <1>1, <1>11 DEF allVars, expVars, chipVars, appVars
<1> QED
  BY <1>2, <1>3, <1>4, <1>5, <1>6, <1>7, <1>8, <1>9, <1>10, <1>11 DEF ExpNext

LEMMA LinkedOnce == LinkInv => HandlerLinkedOnce
<1> SUFFICES ASSUME LinkInv PROVE HandlerLinkedOnce
  OBVIOUS
<1> DEFINE at == {i \in DOMAIN items : items[i] = Handler}
<1>1. \A i, j \in at : i = j
  BY DEF LinkInv, DequeInv, Distinct
<1>2. CASE at = {}
  <2>1. Cardinality(at) = 0
    BY <1>2, FS_EmptySet
  <2> QED
    BY <2>1 DEF HandlerLinkedOnce
<1>3. CASE at # {}
  <2>1. PICK i \in at : at = {i}
    BY <1>1, <1>3
  <2>2. Cardinality(at) = 1
    BY <2>1, FS_Singleton
  <2> QED
    BY <2>2 DEF HandlerLinkedOnce
<1> QED
  BY <1>2, <1>3

\* The program and the chip agree: a cache that is not dirty holds what is on the
\* chip, the registers are those of the pins' modes, and the chip's callback is
\* linked at most once (mcp23s17.cpp:232, 311 and 551), for any pins, users and
\* number of calls, if no handler of a pin reads input pins.
THEOREM ChipHolds ==
  ASSUME HandlersRead = FALSE
  PROVE  ExpSpec => []ChipAgrees
<1>1. CacheInv /\ MakerInv /\ LinkInv => ChipAgrees
  BY CacheAgrees, RegistersAgree, LinkedOnce DEF ChipAgrees
<1>2. LinkInv /\ [ExpNext]_allVars => LinkInv'
  BY LinkStep
<1> QED
  BY CacheInit, CacheStep, MakerStart, MakerStep, LinkStart, <1>1, <1>2, PTL DEF ExpSpec
=============================================================================

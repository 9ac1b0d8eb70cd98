----------------------------- MODULE ListLemmas -----------------------------
(***************************************************************************)
(* Facts about the community-module operators that model the intrusive     *)
(* lists of src/list.cpp: insertion at a place, removal of the first       *)
(* occurrence of an item, and the set of the items; and the arithmetic of  *)
(* indices and counters that wrap.                                         *)
(***************************************************************************)
EXTENDS Integers, SequencesExt, SequenceTheorems, FiniteSetTheorems,
        WellFoundedInduction, TLAPS

\* A list in which no item is linked twice.
Distinct(q) == \A i, j \in DOMAIN q : q[i] = q[j] => i = j

LEMMA InsertAtFacts ==
  ASSUME NEW S, NEW q \in Seq(S), NEW i \in 1 .. Len(q) + 1, NEW w \in S
  PROVE  /\ InsertAt(q, i, w) \in Seq(S)
         /\ Len(InsertAt(q, i, w)) = Len(q) + 1
         /\ \A j \in 1 .. Len(q) + 1 :
              InsertAt(q, i, w)[j] =
                IF j < i THEN q[j] ELSE IF j = i THEN w ELSE q[j - 1]
<1> DEFINE pre == SubSeq(q, 1, i - 1)
           post == SubSeq(q, i, Len(q))
           mid == pre \o <<w>>
<1>1. /\ pre \in Seq(S)  /\ Len(pre) = i - 1
      /\ \A j \in 1 .. i - 1 : pre[j] = q[j]
  BY SubSeqProperties
<1>2. /\ post \in Seq(S)  /\ Len(post) = Len(q) - i + 1
      /\ \A j \in 1 .. Len(q) - i + 1 : post[j] = q[i + j - 1]
  BY SubSeqProperties
<1>3. InsertAt(q, i, w) = mid \o post
  BY DEF InsertAt
<1> HIDE DEF pre, post
<1>4. /\ mid \in Seq(S)  /\ Len(mid) = i
      /\ \A j \in 1 .. i : mid[j] = IF j < i THEN pre[j] ELSE w
  BY <1>1, ConcatProperties
<1> HIDE DEF mid
<1>5. /\ mid \o post \in Seq(S)
      /\ Len(mid \o post) = i + Len(post)
      /\ \A j \in 1 .. i + Len(post) :
           (mid \o post)[j] = IF j <= i THEN mid[j] ELSE post[j - i]
  BY <1>2, <1>4, ConcatProperties
<1> QED
  BY <1>1, <1>2, <1>3, <1>4, <1>5

LEMMA RemoveAtFacts ==
  ASSUME NEW S, NEW q \in Seq(S), NEW i \in 1 .. Len(q)
  PROVE  /\ RemoveAt(q, i) \in Seq(S)
         /\ Len(RemoveAt(q, i)) = Len(q) - 1
         /\ \A j \in 1 .. Len(q) - 1 :
              RemoveAt(q, i)[j] = IF j < i THEN q[j] ELSE q[j + 1]
<1> DEFINE pre == SubSeq(q, 1, i - 1)
           post == SubSeq(q, i + 1, Len(q))
<1>1. /\ pre \in Seq(S)  /\ Len(pre) = i - 1
      /\ \A j \in 1 .. i - 1 : pre[j] = q[j]
  BY SubSeqProperties
<1>2. /\ post \in Seq(S)  /\ Len(post) = Len(q) - i
      /\ \A j \in 1 .. Len(q) - i : post[j] = q[i + j]
  BY SubSeqProperties
<1>3. RemoveAt(q, i) = pre \o post
  BY DEF RemoveAt
<1> HIDE DEF pre, post
<1>4. /\ pre \o post \in Seq(S)
      /\ Len(pre \o post) = Len(pre) + Len(post)
      /\ \A j \in 1 .. Len(pre) + Len(post) :
           (pre \o post)[j] = IF j <= Len(pre) THEN pre[j] ELSE post[j - Len(pre)]
  BY <1>1, <1>2, ConcatProperties
<1>5. Len(q) \in Nat /\ i \in Nat
  BY LenProperties
<1>6. ASSUME NEW j \in 1 .. Len(q) - 1
      PROVE  (pre \o post)[j] = IF j < i THEN q[j] ELSE q[j + 1]
  <2>1. CASE j < i
    <3>1. (pre \o post)[j] = q[j]
      BY <1>1, <1>2, <1>4, <1>5, <2>1
    <3> QED
      BY <2>1, <3>1, Zenon
  <2>2. CASE ~(j < i)
    <3>1. j - (i - 1) \in 1 .. Len(q) - i /\ i + (j - (i - 1)) = j + 1
      BY <1>5, <2>2
    <3>2. (pre \o post)[j] = post[j - (i - 1)]
      BY <1>1, <1>2, <1>4, <1>5, <2>2
    <3>3. post[j - (i - 1)] = q[j + 1]
      BY <1>2, <3>1
    <3> QED
      BY <2>2, <3>2, <3>3, Zenon
  <2> QED
    BY <2>1, <2>2, Zenon
<1>7. Len(pre) + Len(post) = Len(q) - 1
  BY <1>1, <1>2, <1>5
<1> QED
  BY <1>3, <1>4, <1>6, <1>7

\* A set of naturals has a least member: strict inclusion of the intervals
\* 1 .. i is well founded.
LEMMA MinFact ==
  ASSUME NEW I, I \subseteq Nat, I # {}
  PROVE  Min(I) \in I /\ \A i \in I : Min(I) <= i
<1> DEFINE T == {1 .. i : i \in I}
<1>1. T \subseteq FiniteSubsetsOf(Nat)
  BY FS_Interval DEF FiniteSubsetsOf
<1>2. PICK m \in I : \A i \in I : ~ (<<1 .. i, 1 .. m>> \in StrictSubsetOrdering(Nat))
  <2>1. T # {}
    OBVIOUS
  <2>2. \E t \in T : \A u \in T : ~ (<<u, t>> \in StrictSubsetOrdering(Nat))
    BY <1>1, <2>1, FS_StrictSubsetOrderingWellFounded, WFMin, Zenon
  <2> QED
    BY <2>2
<1>3. ASSUME NEW i \in I
      PROVE  m <= i
  <2>1. SUFFICES ASSUME i < m PROVE FALSE
    OBVIOUS
  <2>2. /\ (1 .. i) \in SUBSET Nat /\ (1 .. m) \in SUBSET Nat
        /\ (1 .. i) \subseteq (1 .. m)
        /\ (1 .. i) # (1 .. m)
    <3>1. m \in 1 .. m /\ m \notin 1 .. i
      BY <2>1
    <3> QED
      BY <2>1, <3>1
  <2>3. <<1 .. i, 1 .. m>> \in StrictSubsetOrdering(Nat)
    BY <2>2, Zenon DEF StrictSubsetOrdering
  <2> QED
    BY <1>2, <2>3
<1> QED
  BY <1>3 DEF Min

\* Insertion of a new item keeps a list distinct and adds the item to it.
LEMMA InsertKeepsDistinct ==
  ASSUME NEW S, NEW q \in Seq(S), NEW i \in 1 .. Len(q) + 1, NEW w \in S,
         Distinct(q), w \notin ToSet(q)
  PROVE  /\ Distinct(InsertAt(q, i, w))
         /\ ToSet(InsertAt(q, i, w)) = ToSet(q) \cup {w}
<1> DEFINE r == InsertAt(q, i, w)
<1>1. /\ r \in Seq(S)
      /\ Len(r) = Len(q) + 1
      /\ \A j \in 1 .. Len(q) + 1 :
           r[j] = IF j < i THEN q[j] ELSE IF j = i THEN w ELSE q[j - 1]
  <2>1. /\ InsertAt(q, i, w) \in Seq(S)
        /\ Len(InsertAt(q, i, w)) = Len(q) + 1
    BY InsertAtFacts
  <2>2. \A j \in 1 .. Len(q) + 1 :
           InsertAt(q, i, w)[j] =
             IF j < i THEN q[j] ELSE IF j = i THEN w ELSE q[j - 1]
    <3> TAKE j \in 1 .. Len(q) + 1
    <3> QED
      BY InsertAtFacts
  <2> QED
    BY <2>1, <2>2
<1>2. /\ DOMAIN r = 1 .. Len(q) + 1 /\ DOMAIN q = 1 .. Len(q)
      /\ Len(q) \in Nat
  BY <1>1, LenProperties
<1> HIDE DEF r
<1>3. \A j \in 1 .. Len(q) : q[j] # w
  BY <1>2 DEF ToSet
<1>4. Distinct(r)
  <2>1. SUFFICES ASSUME NEW j \in 1 .. Len(q) + 1, NEW k \in 1 .. Len(q) + 1,
                        r[j] = r[k], j < k
                 PROVE  FALSE
    BY <1>2 DEF Distinct
  <2>2. \A l, m \in 1 .. Len(q) : q[l] = q[m] => l = m
    BY <1>2 DEF Distinct
  <2>3. CASE j = i
    BY <1>1, <1>2, <1>3, <2>1, <2>3
  <2>4. CASE k = i
    <3>1. j \in 1 .. Len(q) /\ j < i
      BY <1>2, <2>1, <2>4
    <3>2. r[j] = q[j] /\ r[k] = w
      BY <1>1, <2>4, <3>1
    <3> QED
      BY <1>3, <2>1, <3>1, <3>2
  <2>5. CASE j # i /\ k # i
    <3> DEFINE old(n) == IF n < i THEN n ELSE n - 1
    <3>1. old(j) \in 1 .. Len(q) /\ old(k) \in 1 .. Len(q) /\ old(j) # old(k)
      BY <1>2, <2>1, <2>5
    <3>2. r[j] = q[old(j)] /\ r[k] = q[old(k)]
      BY <1>1, <2>5
    <3> HIDE DEF old
    <3> QED
      BY <2>1, <2>2, <3>1, <3>2
  <2> QED
    BY <2>3, <2>4, <2>5
<1>5. ToSet(r) \subseteq ToSet(q) \cup {w}
  BY <1>1, <1>2 DEF ToSet
<1>6. w \in ToSet(r)
  BY <1>1, <1>2 DEF ToSet
<1>7. ASSUME NEW j \in 1 .. Len(q) PROVE q[j] \in ToSet(r)
  <2>1. CASE j < i
    BY <1>1, <1>2, <2>1 DEF ToSet
  <2>2. CASE j >= i
    <3>1. j + 1 \in 1 .. Len(q) + 1 /\ r[j + 1] = q[j]
      BY <1>1, <1>2, <2>2
    <3> QED
      BY <1>2, <3>1 DEF ToSet
  <2> QED
    BY <1>2, <2>1, <2>2
<1> QED
  BY <1>2, <1>4, <1>5, <1>6, <1>7 DEF ToSet, r

\* Removal of an item of a distinct list takes out that item and no other, and
\* leaves the others in their order.
LEMMA RemoveFirstFacts ==
  ASSUME NEW S, NEW q \in Seq(S), NEW w, Distinct(q)
  PROVE  /\ RemoveFirst(q, w) \in Seq(S)
         /\ Distinct(RemoveFirst(q, w))
         /\ ToSet(RemoveFirst(q, w)) = ToSet(q) \ {w}
         /\ \A i, j \in DOMAIN RemoveFirst(q, w) : i < j =>
              \E k, l \in DOMAIN q : /\ k < l
                                     /\ RemoveFirst(q, w)[i] = q[k]
                                     /\ RemoveFirst(q, w)[j] = q[l]
<1>0. DOMAIN q = 1 .. Len(q) /\ Len(q) \in Nat
  BY LenProperties
<1>1. CASE ~ \E i \in 1 .. Len(q) : q[i] = w
  <2>1. RemoveFirst(q, w) = q
    BY <1>1 DEF RemoveFirst
  <2> QED
    BY <1>0, <1>1, <2>1 DEF ToSet
<1>2. CASE \E i \in 1 .. Len(q) : q[i] = w
  <2>1. PICK m \in 1 .. Len(q) : q[m] = w
    BY <1>2
  <2>2. {i \in 1 .. Len(q) : q[i] = w} = {m}
    BY <1>0, <2>1 DEF Distinct
  <2>3. RemoveFirst(q, w) = RemoveAt(q, m)
    <3>1. SelectInSeq(q, LAMBDA v : v = w) = Min({m})
      BY <2>2 DEF SelectInSeq
    <3>2. Min({m}) = m
      BY DEF Min
    <3> QED
      BY <1>2, <3>1, <3>2 DEF RemoveFirst
  <2> DEFINE r == RemoveAt(q, m)
  <2>4. /\ r \in Seq(S)
        /\ DOMAIN r = 1 .. Len(q) - 1
        /\ \A j \in 1 .. Len(q) - 1 : r[j] = IF j < m THEN q[j] ELSE q[j + 1]
    BY RemoveAtFacts, LenProperties
  <2> HIDE DEF r
  <2>5. Distinct(r)
    <3>1. SUFFICES ASSUME NEW j \in DOMAIN r, NEW k \in DOMAIN r,
                          r[j] = r[k], j < k
                   PROVE  FALSE
      BY <1>0, <2>4 DEF Distinct
    <3>2. \A l, n \in 1 .. Len(q) : q[l] = q[n] => l = n
      BY <1>0 DEF Distinct
    <3> QED
      BY <1>0, <2>4, <3>1, <3>2
  <2>6. ToSet(r) \subseteq ToSet(q) \ {w}
    <3>1. ASSUME NEW j \in DOMAIN r PROVE r[j] \in ToSet(q) /\ r[j] # w
      <4>1. PICK k \in 1 .. Len(q) : r[j] = q[k] /\ k # m
        BY <1>0, <2>4
      <4>2. q[k] # q[m]
        BY <1>0, <4>1 DEF Distinct
      <4> QED
        BY <1>0, <2>1, <4>1, <4>2 DEF ToSet
    <3> QED
      BY <3>1 DEF ToSet
  <2>7. ASSUME NEW j \in 1 .. Len(q), q[j] # w PROVE q[j] \in ToSet(r)
    <3>1. CASE j < m
      <4>1. j \in 1 .. Len(q) - 1 /\ r[j] = q[j]
        BY <1>0, <2>4, <3>1
      <4> QED
        BY <2>4, <4>1 DEF ToSet
    <3>2. CASE j > m
      <4>1. j - 1 \in 1 .. Len(q) - 1 /\ r[j - 1] = q[j]
        BY <1>0, <2>4, <3>2
      <4> QED
        BY <2>4, <4>1 DEF ToSet
    <3> QED
      BY <2>1, <2>7, <3>1, <3>2
  <2>8. ASSUME NEW i \in DOMAIN r, NEW j \in DOMAIN r, i < j
        PROVE  \E k, l \in DOMAIN q : k < l /\ r[i] = q[k] /\ r[j] = q[l]
    <3>1. /\ (IF i < m THEN i ELSE i + 1) \in DOMAIN q
          /\ (IF j < m THEN j ELSE j + 1) \in DOMAIN q
          /\ (IF i < m THEN i ELSE i + 1) < (IF j < m THEN j ELSE j + 1)
      BY <1>0, <2>4, <2>8
    <3> QED
      BY <2>4, <3>1
  <2>9. ToSet(r) = ToSet(q) \ {w}
    BY <1>0, <2>6, <2>7 DEF ToSet
  <2> QED
    BY <2>3, <2>4, <2>5, <2>8, <2>9 DEF r
<1> QED
  BY <1>1, <1>2
-----------------------------------------------------------------------------
(* Arithmetic of indices and counters that wrap.                           *)

LEMMA WrapFacts ==
  ASSUME NEW n \in Nat \ {0}
  PROVE  /\ \A a \in Int : a % n \in 0 .. n - 1
         /\ \A a \in 0 .. n - 1 : a % n = a
         /\ \A a \in n .. 2 * n - 1 : a % n = a - n
         /\ \A a \in -n .. -1 : a % n = a + n
<1>1. \A a \in Int : a % n \in 0 .. n - 1
  BY SMT
<1>2. \A a \in 0 .. n - 1 : a % n = a
  BY SMT
<1>3. \A a \in n .. 2 * n - 1 : a % n = a - n
  BY SMT
<1>4. \A a \in -n .. -1 : a % n = a + n
  BY SMT
<1> QED
  BY <1>1, <1>2, <1>3, <1>4

LEMMA SuccWraps ==
  ASSUME NEW n \in Nat \ {0}, NEW a \in 0 .. n - 1
  PROVE  (a + 1) % n = IF a + 1 = n THEN 0 ELSE a + 1
<1>1. CASE a + 1 = n
  <2>1. a + 1 \in n .. 2 * n - 1
    BY <1>1
  <2> QED
    BY <1>1, <2>1, WrapFacts
<1>2. CASE a + 1 # n
  <2>1. a + 1 \in 0 .. n - 1
    BY <1>2
  <2> QED
    BY <1>2, <2>1, WrapFacts
<1> QED
  BY <1>1, <1>2

\* The quotient and the remainder, and that a remainder forgets whole turns.
LEMMA DivMod ==
  ASSUME NEW n \in Nat \ {0}, NEW a \in Int
  PROVE  a \div n \in Int /\ a % n \in 0 .. n - 1 /\ a = n * (a \div n) + (a % n)
  BY SMT

LEMMA TurnsVanish ==
  ASSUME NEW n \in Nat \ {0}, NEW k \in Int, NEW a \in Int
  PROVE  (n * k + a) % n = a % n
<1>1. PICK q \in Int, r \in 0 .. n - 1 : a = n * q + r /\ a % n = r
  BY DivMod
<1>2. n * k + a = n * (k + q) + r
  BY <1>1, SMT
<1> DEFINE m == k + q
<1>3. m \in Int /\ n * k + a = n * m + r
  BY <1>2
<1> HIDE DEF m
<1>4. (n * m + r) % n = r
  BY <1>3, SMT
<1> QED
  BY <1>1, <1>3, <1>4

\* Sums and differences may be reduced before or after.
LEMMA ReduceFirst ==
  ASSUME NEW n \in Nat \ {0}, NEW a \in Int, NEW b \in Int
  PROVE  /\ ((a % n) + b) % n = (a + b) % n
         /\ ((a % n) - (b % n)) % n = (a - b) % n
<1>1. PICK k \in Int, r \in Int : a = n * k + r /\ a % n = r
  <2>1. /\ a \div n \in Int /\ a % n \in Int
        /\ a = n * (a \div n) + (a % n)
    BY DivMod
  <2> QED
    BY <2>1
<1>2. PICK m \in Int, s \in Int : b = n * m + s /\ b % n = s
  <2>1. /\ b \div n \in Int /\ b % n \in Int
        /\ b = n * (b \div n) + (b % n)
    BY DivMod
  <2> QED
    BY <2>1
<1>3. (n * k + (r + b)) % n = (r + b) % n
  <2>1. r + b \in Int
    OBVIOUS
  <2> QED
    BY <2>1, TurnsVanish
<1>4. (n * (k - m) + (r - s)) % n = (r - s) % n
  <2>1. k - m \in Int /\ r - s \in Int
    OBVIOUS
  <2> QED
    BY <2>1, TurnsVanish
<1>5. a + b = n * k + (r + b) /\ a - b = n * (k - m) + (r - s)
  BY <1>1, <1>2, SMT
<1> QED
  BY <1>1, <1>2, <1>3, <1>4, <1>5
=============================================================================

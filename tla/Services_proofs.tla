--------------------------- MODULE Services_proofs --------------------------
(***************************************************************************)
(* The initialisation of devices, the registry of objects, threads and     *)
(* their owner, the network and the MQTT client: for any devices and       *)
(* dependencies between them, any number of threads, access points,        *)
(* observers and subscriptions; the commands, with any arguments; and the  *)
(* ring buffers, of any size.                                              *)
(***************************************************************************)
EXTENDS DeviceInit, Objects, Commands, RingBuffer, ThreadLife, Network, MqttClient,
        ListLemmas

-----------------------------------------------------------------------------
(* The devices.  Dependencies come first, and each device is initialised   *)
(* once: this is not inductive, as a device could be in two calls of       *)
(* init_device() at once, and the inner one could finish.  What excludes   *)
(* it is the shape of the stack (Chain): each call below the innermost     *)
(* waits for a device that the next call is about, and that is not done.   *)

Frames == [dev : Devices, left : SUBSET Names]

DeviceTypesOK ==
  /\ needs \in [Devices -> SUBSET Names]
  /\ todo \subseteq Devices /\ done \subseteq Devices
  /\ stack \in Seq(Frames)
  /\ rounds \in Nat
  /\ result \in {"running", "true", "false"}
  /\ failed \in BOOLEAN

Lists == todo \cap done = {} /\ todo \cup done = Devices

DoneClosed == \A d \in done : needs[d] \subseteq done

\* What a call has looked at is done, but for what the call above it is about.
Chain(s) ==
  /\ \A i \in 1 .. Len(s) : s[i].dev \in todo
  /\ \A i \in 1 .. Len(s) - 1 :
       /\ s[i + 1].dev \in needs[s[i].dev]
       /\ needs[s[i].dev] \ s[i].left \subseteq done \cup {s[i + 1].dev}
  /\ Len(s) > 0 => needs[s[Len(s)].dev] \ s[Len(s)].left \subseteq done

LeftNeeded(s) == \A i \in 1 .. Len(s) : s[i].left \subseteq needs[s[i].dev]

DeviceInv == DeviceTypesOK /\ Lists /\ DoneClosed /\ Chain(stack) /\ LeftNeeded(stack)

LEMMA TypesAre == DeviceTypesOK <=> TypeOK
BY DEF DeviceTypesOK, TypeOK, Frames

-----------------------------------------------------------------------------
(* The stack.                                                              *)

LEMMA BelowFacts ==
  ASSUME stack \in Seq(Frames), stack # <<>>
  PROVE  /\ Len(stack) \in Nat /\ Len(stack) > 0 /\ Top = stack[Len(stack)] /\ Top \in Frames
         /\ Below \in Seq(Frames) /\ Len(Below) = Len(stack) - 1
         /\ \A i \in 1 .. Len(stack) - 1 : Below[i] = stack[i]
<1>1. Len(stack) \in Nat /\ Len(stack) > 0
  OBVIOUS
<1>2. Top = stack[Len(stack)] /\ Top \in Frames
  BY <1>1 DEF Top
<1>3. Len(Below) = Len(stack) - 1
  <2> DEFINE m == Len(stack) - 1
  <2>1. m \in Nat /\ m <= Len(stack)
    BY <1>1
  <2>2. Len(SubSeq(stack, 1, m)) = m
    <3> HIDE DEF m
    <3> QED
      BY <2>1
  <2> QED
    BY <2>2 DEF Below
<1>4. \A i \in 1 .. Len(stack) - 1 : Below[i] = stack[i]
  BY <1>1 DEF Below
<1>5. Below \in Seq(Frames)
  BY <1>1 DEF Below
<1> QED
  BY <1>1, <1>2, <1>3, <1>4, <1>5

LEMMA LookedFacts ==
  ASSUME stack \in Seq(Frames), stack # <<>>, NEW n \in Names
  PROVE  /\ Looked(n) \in Seq(Frames) /\ Len(Looked(n)) = Len(stack)
         /\ \A i \in 1 .. Len(stack) - 1 : Looked(n)[i] = stack[i]
         /\ Looked(n)[Len(stack)].dev = Top.dev
         /\ Looked(n)[Len(stack)].left = Top.left \ {n}
<1> DEFINE f == [Top EXCEPT !.left = @ \ {n}]
<1>1. f \in Frames /\ f.dev = Top.dev /\ f.left = Top.left \ {n}
  BY BelowFacts DEF Frames
<1>2. Looked(n) = Append(Below, f)
  BY DEF Looked
<1> HIDE DEF f
<1>3. Looked(n) \in Seq(Frames) /\ Len(Looked(n)) = Len(stack)
  BY <1>1, <1>2, BelowFacts
<1>4. \A i \in 1 .. Len(stack) - 1 : Looked(n)[i] = stack[i]
  BY <1>1, <1>2, BelowFacts
<1>5. Looked(n)[Len(stack)] = f
  BY <1>1, <1>2, BelowFacts
<1> QED
  BY <1>1, <1>3, <1>4, <1>5

\* A need is crossed off: what the innermost call has looked at is done, but for
\* that need.
LEMMA LookedChain ==
  ASSUME DeviceInv, stack # <<>>, NEW n \in Names
  PROVE  /\ \A i \in 1 .. Len(stack) : Looked(n)[i].dev \in todo
         /\ \A i \in 1 .. Len(stack) - 1 :
              /\ Looked(n)[i + 1].dev \in needs[Looked(n)[i].dev]
              /\ needs[Looked(n)[i].dev] \ Looked(n)[i].left
                   \subseteq done \cup {Looked(n)[i + 1].dev}
         /\ needs[Top.dev] \ Looked(n)[Len(stack)].left \subseteq done \cup {n}
         /\ LeftNeeded(Looked(n))
<1> DEFINE k == Len(stack)
<1>1. stack \in Seq(Frames) /\ k \in Nat /\ k > 0 /\ Top = stack[k]
  BY BelowFacts DEF DeviceInv, DeviceTypesOK
<1>2. /\ \A i \in 1 .. k - 1 : Looked(n)[i] = stack[i]
      /\ Looked(n)[k].dev = stack[k].dev /\ Looked(n)[k].left = stack[k].left \ {n}
      /\ Len(Looked(n)) = k
  BY <1>1, LookedFacts
<1>3. ASSUME NEW i \in 1 .. k
      PROVE  Looked(n)[i].dev = stack[i].dev /\ Looked(n)[i].left \subseteq stack[i].left
  <2>1. i = k \/ i \in 1 .. k - 1
    BY <1>1
  <2> QED
    BY <1>2, <2>1
<1>4. ASSUME NEW i \in 1 .. k PROVE Looked(n)[i].dev \in todo
  BY <1>3 DEF DeviceInv, Chain
<1>5. ASSUME NEW i \in 1 .. k - 1
      PROVE  /\ Looked(n)[i + 1].dev \in needs[Looked(n)[i].dev]
             /\ needs[Looked(n)[i].dev] \ Looked(n)[i].left
                  \subseteq done \cup {Looked(n)[i + 1].dev}
  <2>1. i \in 1 .. k /\ i + 1 \in 1 .. k
    BY <1>1
  <2>2. Looked(n)[i] = stack[i] /\ Looked(n)[i + 1].dev = stack[i + 1].dev
    BY <1>2, <1>3, <2>1
  <2>3. /\ stack[i + 1].dev \in needs[stack[i].dev]
        /\ needs[stack[i].dev] \ stack[i].left \subseteq done \cup {stack[i + 1].dev}
    BY DEF DeviceInv, Chain
  <2> QED
    BY <2>2, <2>3
<1>6. needs[Top.dev] \ Top.left \subseteq done
  BY <1>1 DEF DeviceInv, Chain
<1>7. needs[Top.dev] \ Looked(n)[k].left \subseteq done \cup {n}
  BY <1>1, <1>2, <1>6
<1>8. ASSUME NEW i \in 1 .. k
      PROVE  Looked(n)[i].left \subseteq needs[Looked(n)[i].dev]
  BY <1>3 DEF DeviceInv, LeftNeeded
<1>9. LeftNeeded(Looked(n))
  BY <1>2, <1>8 DEF LeftNeeded
<1> QED
  BY <1>4, <1>5, <1>7, <1>9

\* With no call under way there is nothing to ask of the stack.
LEMMA EmptyOk ==
  ASSUME NEW s, s = <<>>
  PROVE  s \in Seq(Frames) /\ Chain(s) /\ LeftNeeded(s)
<1>1. Len(s) = 0 /\ s \in Seq(Frames)
  OBVIOUS
<1> QED
  BY <1>1 DEF Chain, LeftNeeded

-----------------------------------------------------------------------------
LEMMA DeviceInitOk == Init => DeviceInv
<1> SUFFICES ASSUME Init PROVE DeviceInv
  OBVIOUS
<1>1. stack \in Seq(Frames) /\ Chain(stack) /\ LeftNeeded(stack)
  BY EmptyOk DEF Init
<1>2. failed \in BOOLEAN
  BY DEF Init
<1>3. DeviceTypesOK
  BY <1>1, <1>2 DEF Init, DeviceTypesOK
<1>4. Lists /\ DoneClosed
  BY DEF Init, Lists, DoneClosed
<1> QED
  BY <1>1, <1>3, <1>4 DEF DeviceInv

\* A need that is done is crossed off.
LEMMA NeedDoneOk ==
  ASSUME DeviceInv, NEW n \in Names, NeedDone(n)
  PROVE  DeviceInv'
<1> DEFINE k == Len(stack)
<1>1. stack \in Seq(Frames) /\ stack # <<>> /\ k \in Nat /\ k > 0
  BY BelowFacts DEF NeedDone, Looks, DeviceInv, DeviceTypesOK
<1>2. UNCHANGED <<needs, todo, done, rounds, result, failed>> /\ stack' = Looked(n) /\ n \in done
  BY DEF NeedDone
<1>3. Looked(n) \in Seq(Frames) /\ Len(Looked(n)) = k /\ Looked(n)[k].dev = Top.dev
  BY <1>1, LookedFacts
<1>4. DeviceTypesOK' /\ Lists' /\ DoneClosed'
  BY <1>2, <1>3 DEF DeviceInv, DeviceTypesOK, Lists, DoneClosed
<1>5. needs[Looked(n)[k].dev] \ Looked(n)[k].left \subseteq done
  BY <1>1, <1>2, <1>3, LookedChain
<1>6. Chain(stack)' /\ LeftNeeded(stack)'
  BY <1>1, <1>2, <1>3, <1>5, LookedChain DEF Chain, LeftNeeded
<1> QED
  BY <1>4, <1>6 DEF DeviceInv

\* A call of init_device() begins another.
LEMMA NeedTodoOk ==
  ASSUME DeviceInv, NEW n \in Names, NeedTodo(n), Len(stack) < Loops
  PROVE  DeviceInv'
<1> DEFINE k == Len(stack)
<1> DEFINE t == stack'
<1>1. /\ stack \in Seq(Frames) /\ stack # <<>> /\ k \in Nat /\ k > 0 /\ Top = stack[k]
  BY BelowFacts DEF NeedTodo, Looks, DeviceInv, DeviceTypesOK
<1>2. /\ UNCHANGED <<needs, todo, done, rounds, result, failed>>
      /\ t = Append(Looked(n), Frame(n)) /\ n \in todo
  BY DEF NeedTodo
<1>3. n \in Devices /\ needs[n] \subseteq Names
  BY <1>2 DEF DeviceInv, DeviceTypesOK
<1>4. Frame(n) \in Frames /\ Frame(n).dev = n /\ Frame(n).left = needs[n]
  BY <1>3 DEF Frame, Frames
<1>5. Looked(n) \in Seq(Frames) /\ Len(Looked(n)) = k /\ Looked(n)[k].dev = Top.dev
  BY <1>1, LookedFacts
<1>6. /\ t \in Seq(Frames) /\ Len(t) = k + 1 /\ t[k + 1] = Frame(n)
      /\ \A i \in 1 .. k : t[i] = Looked(n)[i]
  BY <1>1, <1>2, <1>4, <1>5
<1>7. n \in needs[Top.dev]
  BY <1>1 DEF NeedTodo, Looks, DeviceInv, LeftNeeded
<1>8. DeviceTypesOK' /\ Lists' /\ DoneClosed'
  BY <1>2, <1>6 DEF DeviceInv, DeviceTypesOK, Lists, DoneClosed
<1>9. ASSUME NEW i \in 1 .. k + 1
      PROVE  t[i].dev \in todo /\ t[i].left \subseteq needs[t[i].dev]
  <2>1. i \in 1 .. k \/ i = k + 1
    BY <1>1
  <2>2. CASE i \in 1 .. k
    BY <1>1, <1>5, <1>6, <2>2, LookedChain DEF LeftNeeded
  <2>3. CASE i = k + 1
    BY <1>2, <1>4, <1>6, <2>3
  <2> QED
    BY <2>1, <2>2, <2>3
<1>10. ASSUME NEW i \in 1 .. k
       PROVE  /\ t[i + 1].dev \in needs[t[i].dev]
              /\ needs[t[i].dev] \ t[i].left \subseteq done \cup {t[i + 1].dev}
  <2>1. (i \in 1 .. k - 1 /\ i + 1 \in 1 .. k) \/ i = k
    BY <1>1
  <2>2. CASE i \in 1 .. k - 1 /\ i + 1 \in 1 .. k
    BY <1>1, <1>6, <2>2, LookedChain
  <2>3. CASE i = k
    <3>1. t[i] = Looked(n)[k] /\ t[i + 1].dev = n
      BY <1>1, <1>4, <1>6, <2>3
    <3> QED
      BY <1>1, <1>5, <1>7, <3>1, LookedChain
  <2> QED
    BY <2>1, <2>2, <2>3
<1>11. needs[t[k + 1].dev] \ t[k + 1].left = {}
  BY <1>4, <1>6
<1>12. (k + 1) - 1 = k
  BY <1>1
<1> HIDE DEF k, t
<1>13. Chain(stack)'
  BY <1>2, <1>6, <1>9, <1>10, <1>11, <1>12 DEF Chain, t
<1>14. LeftNeeded(stack)'
  BY <1>2, <1>6, <1>9 DEF LeftNeeded, t
<1> QED
  BY <1>8, <1>13, <1>14 DEF DeviceInv, t

\* Returning, with or without success, leaves no call under way.
LEMMA EmptiedOk ==
  ASSUME DeviceInv, UNCHANGED <<needs, todo, done, rounds>>, stack' = <<>>,
         result' \in {"running", "true", "false"}, failed' \in BOOLEAN
  PROVE  DeviceInv'
<1>1. (stack \in Seq(Frames) /\ Chain(stack) /\ LeftNeeded(stack))'
  <2>1. stack' \in Seq(Frames) /\ Len(stack') = 0
    OBVIOUS
  <2> QED
    BY <2>1 DEF Chain, LeftNeeded
<1>2. DeviceTypesOK'
  BY <1>1 DEF DeviceInv, DeviceTypesOK
<1> QED
  BY <1>1, <1>2 DEF DeviceInv, Lists, DoneClosed

LEMMA FailOk ==
  ASSUME DeviceInv, Fail, failed' \in BOOLEAN
  PROVE  DeviceInv'
BY EmptiedOk DEF Fail

\* init_devices() begins with a device of the todo list.
LEMMA StartOk ==
  ASSUME DeviceInv, NEW d \in Devices, Start(d)
  PROVE  DeviceInv'
<1>1. UNCHANGED <<needs, todo, done, rounds, result, failed>> /\ stack' = <<Frame(d)>> /\ d \in todo
  BY DEF Start
<1>2. Frame(d) \in Frames /\ Frame(d).dev = d /\ Frame(d).left = needs[d]
  BY DEF Frame, Frames, DeviceInv, DeviceTypesOK
<1>3. stack' \in Seq(Frames) /\ Len(stack') = 1 /\ stack'[1] = Frame(d)
  BY <1>1, <1>2
<1>4. Chain(stack)' /\ LeftNeeded(stack)'
  BY <1>1, <1>2, <1>3 DEF Chain, LeftNeeded
<1> QED
  BY <1>1, <1>3, <1>4 DEF DeviceInv, DeviceTypesOK, Lists, DoneClosed

\* The device that is initialised has its needs done, and no call below is about
\* it: the one above that call would be about a need of it that is not done.
LEMMA CallsOnce ==
  ASSUME DeviceInv, Calls
  PROVE  /\ Top.dev \in todo /\ needs[Top.dev] \subseteq done
         /\ \A i \in 1 .. Len(stack) - 1 : stack[i].dev # Top.dev
<1> DEFINE k == Len(stack)
<1>1. stack \in Seq(Frames) /\ k \in Nat /\ k > 0 /\ Top = stack[k] /\ Top.left = {}
  BY BelowFacts DEF Calls, DeviceInv, DeviceTypesOK
<1>2. Top.dev \in todo /\ needs[Top.dev] \subseteq done
  BY <1>1 DEF DeviceInv, Chain
<1>3. ASSUME NEW i \in 1 .. k - 1 PROVE stack[i].dev # Top.dev
  <2>1. i + 1 \in 1 .. k
    BY <1>1
  <2>2. stack[i + 1].dev \in needs[stack[i].dev] /\ stack[i + 1].dev \in todo
    BY <2>1 DEF DeviceInv, Chain
  <2> QED
    BY <1>2, <2>2 DEF DeviceInv, Lists
<1> QED
  BY <1>2, <1>3

\* The innermost device is initialised, and the call returns.
LEMMA InitDeviceOk ==
  ASSUME DeviceInv, InitDevice
  PROVE  DeviceInv'
<1> DEFINE k == Len(stack)
<1> DEFINE t == stack'
<1> DEFINE d == Top.dev
<1>1. /\ stack \in Seq(Frames) /\ k \in Nat /\ k > 0 /\ Top = stack[k]
      /\ Calls
  BY BelowFacts DEF InitDevice, Calls, DeviceInv, DeviceTypesOK
<1>2. /\ todo' = todo \ {d} /\ done' = done \cup {d} /\ needs' = needs /\ failed' = failed
      /\ t = Below
  BY DEF InitDevice
<1>3. /\ t \in Seq(Frames) /\ Len(t) = k - 1
      /\ \A i \in 1 .. k - 1 : t[i] = stack[i]
  BY <1>1, <1>2, BelowFacts DEF Calls
<1>4. d \in todo /\ d \in Devices /\ needs[d] \subseteq done
  BY <1>1, CallsOnce DEF DeviceInv, DeviceTypesOK
<1>5. rounds' \in Nat
  BY DEF InitDevice, DeviceInv, DeviceTypesOK
<1>6. result' \in {"running", "true", "false"}
  BY DEF InitDevice, DeviceInv, DeviceTypesOK
<1>7. DeviceTypesOK'
  BY <1>2, <1>3, <1>4, <1>5, <1>6 DEF DeviceInv, DeviceTypesOK
<1>8. Lists' /\ DoneClosed'
  BY <1>2, <1>4 DEF DeviceInv, Lists, DoneClosed
<1>9. ASSUME NEW i \in 1 .. k - 1
      PROVE  t[i].dev \in todo' /\ t[i].left \subseteq needs[t[i].dev]
  <2>1. i \in 1 .. k
    BY <1>1
  <2>2. stack[i].dev \in todo /\ stack[i].dev # d /\ stack[i].left \subseteq needs[stack[i].dev]
    BY <1>1, <2>1, CallsOnce DEF DeviceInv, Chain, LeftNeeded
  <2> QED
    BY <1>2, <1>3, <2>2
<1>10. ASSUME NEW i \in 1 .. k - 1
       PROVE  /\ stack[i + 1].dev \in needs[stack[i].dev]
              /\ needs[stack[i].dev] \ stack[i].left \subseteq done \cup {stack[i + 1].dev}
  BY DEF DeviceInv, Chain
<1>11. ASSUME NEW i \in 1 .. (k - 1) - 1
       PROVE  /\ t[i + 1].dev \in needs[t[i].dev]
              /\ needs[t[i].dev] \ t[i].left \subseteq done' \cup {t[i + 1].dev}
  <2>1. i \in 1 .. k - 1 /\ i + 1 \in 1 .. k - 1
    BY <1>1
  <2>2. t[i] = stack[i] /\ t[i + 1] = stack[i + 1]
    BY <1>3, <2>1
  <2> QED
    BY <1>2, <1>10, <2>1, <2>2
<1>12. ASSUME k - 1 > 0
       PROVE  needs[t[k - 1].dev] \ t[k - 1].left \subseteq done'
  <2>1. k - 1 \in 1 .. k - 1 /\ (k - 1) + 1 = k
    BY <1>1, <1>12
  <2>2. t[k - 1] = stack[k - 1]
    BY <1>3, <2>1
  <2> QED
    BY <1>1, <1>2, <1>10, <2>1, <2>2
<1> HIDE DEF k, t, d
<1>13. Chain(stack)'
  BY <1>2, <1>3, <1>9, <1>11, <1>12 DEF Chain, t
<1>14. LeftNeeded(stack)'
  BY <1>2, <1>3, <1>9 DEF LeftNeeded, t
<1> QED
  BY <1>7, <1>8, <1>13, <1>14 DEF DeviceInv

LEMMA DeviceStepOk == DeviceInv /\ [Next]_vars => DeviceInv'
<1> SUFFICES ASSUME DeviceInv, [Next]_vars PROVE DeviceInv'
  OBVIOUS
<1>1. ASSUME NEW d \in Devices, Start(d) PROVE DeviceInv'
  BY <1>1, StartOk
<1>2. ASSUME NEW n \in Names, NeedDone(n) PROVE DeviceInv'
  BY <1>2, NeedDoneOk
<1>3. ASSUME NEW n \in Names, NeedMissing(n) PROVE DeviceInv'
  BY <1>3, FailOk DEF NeedMissing, DeviceInv, DeviceTypesOK
<1>4. ASSUME NEW n \in Names, NeedTodo(n) PROVE DeviceInv'
  <2>1. CASE Len(stack) < Loops
    BY <1>4, <2>1, NeedTodoOk
  <2>2. CASE ~(Len(stack) < Loops)
    BY <1>4, <2>2, FailOk DEF NeedTodo, DeviceInv, DeviceTypesOK
  <2> QED
    BY <2>1, <2>2
<1>5. CASE Finish
  BY <1>5, EmptiedOk DEF Finish, DeviceInv, DeviceTypesOK
<1>6. CASE InitFails
  <2>1. Fail /\ failed' \in BOOLEAN
    BY <1>6 DEF InitFails
  <2> QED
    BY <2>1, FailOk
<1>7. CASE InitDevice
  BY <1>7, InitDeviceOk
<1>8. CASE UNCHANGED vars
  BY <1>8 DEF vars, DeviceInv, DeviceTypesOK, Lists, DoneClosed, Chain, LeftNeeded
<1> QED
  BY <1>1, <1>2, <1>3, <1>4, <1>5, <1>6, <1>7, <1>8 DEF Next

-----------------------------------------------------------------------------
LEMMA DeviceInvHolds == Spec => []DeviceInv
BY DeviceInitOk, DeviceStepOk, PTL DEF Spec

\* The lists, the calls and the counters of init_devices() keep their types
\* (device.cpp:62-160).
THEOREM TypesHold == Spec => []TypeOK
<1>1. DeviceInv => TypeOK
  BY TypesAre DEF DeviceInv
<1> QED
  BY <1>1, DeviceInvHolds, PTL

\* No device is initialised before all that it needs, for any dependencies with
\* or without cycles and any limit (device.cpp:80-115).
LEMMA NeedsHold == DeviceInv => NeedsFirst
  BY CallsOnce DEF DeviceInv, DoneClosed, NeedsFirst

\* A device is initialised at most once, and is on the todo list when it is taken
\* off it: the ASSERT of device.cpp:127 holds.
THEOREM InitialisedOnce == Spec => []OneList
<1>1. DeviceInv => OneList
  BY CallsOnce DEF DeviceInv, Lists, OneList
<1> QED
  BY <1>1, DeviceInvHolds, PTL

-----------------------------------------------------------------------------
(* The result.  That "true" takes a graph without a cycle follows from the *)
(* order in which the devices were done (Ordered); that "false" has a      *)
(* cause, from the chain of calls: one longer than there are devices comes *)
(* back to a device.                                                       *)

\* Each set of devices that are done has one that needs none of the set.
Ordered == \A S \in (SUBSET done) \ {{}} : \E d \in S : needs[d] \cap S = {}

\* Each round did at least one device.
RoundsOK == rounds <= Cardinality(done)

ResultInv == DeviceInv /\ Ordered /\ RoundsOK /\ ResultIsRight

LEMMA DoneFinite ==
  ASSUME DeviceInv
  PROVE  IsFiniteSet(done) /\ Cardinality(done) \in Nat /\ Cardinality(done) <= Cardinality(Devices)
         /\ Cardinality(Devices) \in Nat
  BY DeviceInitAssumption, FS_Subset, FS_CardinalityType DEF DeviceInv, DeviceTypesOK

\* The device that joins those done needs only them.
LEMMA OrderGrows ==
  ASSUME DeviceInv, Ordered, NEW d, d \notin done, needs[d] \subseteq done,
         done' = done \cup {d}, needs' = needs
  PROVE  Ordered'
<1> SUFFICES ASSUME NEW S \in SUBSET (done \cup {d}), S # {}
             PROVE  \E e \in S : needs[e] \cap S = {}
  BY DEF Ordered
<1>1. CASE S \cap done # {}
  <2>1. PICK e \in S \cap done : needs[e] \cap (S \cap done) = {}
    BY <1>1 DEF Ordered
  <2>2. needs[e] \subseteq done
    BY <2>1 DEF DeviceInv, DoneClosed
  <2> QED
    BY <2>1, <2>2
<1>2. CASE S \cap done = {}
  <2>1. S = {d}
    BY <1>2
  <2> QED
    BY <2>1
<1> QED
  BY <1>1, <1>2

\* A chain of needs that is longer than there are devices has a cycle in it.
LEMMA LongChainCycles ==
  ASSUME DeviceInv, NEW k \in Nat, k > Cardinality(Devices),
         NEW e \in [1 .. k -> Devices],
         \A i \in 1 .. k - 1 : e[i + 1] \in needs[e[i]]
  PROVE  ~Acyclic
<1>1. /\ IsFiniteSet(1 .. k) /\ Cardinality(1 .. k) = k
      /\ IsFiniteSet(Devices) /\ Cardinality(Devices) \in Nat
  BY DeviceInitAssumption, FS_Interval, FS_CardinalityType
<1>2. PICK a, b \in 1 .. k : a # b /\ e[a] = e[b]
  BY <1>1, FS_PigeonHole
<1>3. PICK i, j \in 1 .. k : i < j /\ e[i] = e[j]
  <2>1. CASE a < b
    BY <1>2, <2>1
  <2>2. CASE b < a
    BY <1>2, <2>2
  <2> QED
    BY <1>2, <2>1, <2>2
<1> DEFINE S == {e[m] : m \in i .. j - 1}
<1>4. S \in SUBSET Devices /\ e[i] \in S
  BY <1>3
<1>5. ASSUME NEW m \in i .. j - 1
      PROVE  needs[e[m]] \cap S # {}
  <2>1. m \in 1 .. k - 1 /\ e[m + 1] \in needs[e[m]]
    BY <1>3
  <2>2. e[m + 1] \in S
    <3>1. CASE m + 1 = j
      BY <1>3, <1>4, <3>1
    <3>2. CASE m + 1 # j
      <4>1. m + 1 \in i .. j - 1
        BY <1>3, <3>2
      <4> QED
        BY <4>1
    <3> QED
      BY <3>1, <3>2
  <2> QED
    BY <2>1, <2>2
<1>6. \A d \in S : needs[d] \cap S # {}
  BY <1>5
<1> QED
  BY <1>4, <1>6 DEF Acyclic

\* When the limit of the recursion is reached, the calls under way are a chain.
LEMMA TooDeepCycles ==
  ASSUME DeviceInv, NEW n \in Names, Looks(n), n \in todo, Len(stack) >= Loops,
         Cardinality(Devices) <= Loops
  PROVE  ~Acyclic
<1> DEFINE k == Len(stack)
           e == [i \in 1 .. k + 1 |-> IF i = k + 1 THEN n ELSE stack[i].dev]
<1>1. stack \in Seq(Frames) /\ k \in Nat /\ k > 0 /\ Top = stack[k]
  BY BelowFacts DEF Looks, DeviceInv, DeviceTypesOK
<1>2. n \in Devices /\ Cardinality(Devices) \in Nat /\ Loops \in Nat
  <2>1. n \in Devices
    BY DEF DeviceInv, DeviceTypesOK
  <2>2. Cardinality(Devices) \in Nat
    BY DeviceInitAssumption, FS_CardinalityType
  <2>3. Loops \in Nat
    BY DeviceInitAssumption
  <2> QED
    BY <2>1, <2>2, <2>3
<1>3. \A i \in 1 .. k : stack[i].dev \in Devices
  <2>1. \A i \in 1 .. Len(stack) : stack[i] \in Frames
    BY <1>1
  <2> QED
    BY <2>1 DEF Frames
<1> HIDE DEF k
<1>4. e \in [1 .. k + 1 -> Devices]
  BY <1>1, <1>2, <1>3
<1>5. ASSUME NEW i \in 1 .. (k + 1) - 1
      PROVE  e[i + 1] \in needs[e[i]]
  <2>1. CASE i = k
    <3>1. e[i] = Top.dev /\ e[i + 1] = n
      BY <1>1, <2>1
    <3>2. n \in needs[Top.dev]
      BY <1>1 DEF Looks, DeviceInv, LeftNeeded, k
    <3> QED
      BY <3>1, <3>2
  <2>2. CASE i # k
    <3>1. i \in 1 .. k - 1 /\ e[i] = stack[i].dev /\ e[i + 1] = stack[i + 1].dev
      BY <1>1, <2>2
    <3>2. stack[i + 1].dev \in needs[stack[i].dev]
      BY <3>1 DEF DeviceInv, Chain, k
    <3> QED
      BY <3>1, <3>2
  <2> QED
    BY <2>1, <2>2
<1>6. k + 1 \in Nat /\ k + 1 > Cardinality(Devices)
  BY <1>1, <1>2 DEF k
<1> HIDE DEF e
<1> QED
  BY <1>4, <1>5, <1>6, LongChainCycles

LEMMA ResultStep == ResultInv /\ DeviceInv' /\ [Next]_vars => Ordered' /\ RoundsOK' /\ ResultIsRight'
<1> SUFFICES ASSUME ResultInv, DeviceInv', [Next]_vars
             PROVE  Ordered' /\ RoundsOK' /\ ResultIsRight'
  OBVIOUS
<1> USE DEF ResultInv
<1>1. CASE \/ \E d \in Devices : Start(d)
           \/ \E n \in Names : NeedDone(n)
           \/ \E n \in Names : NeedTodo(n) /\ Len(stack) < Loops
           \/ UNCHANGED vars
  <2>1. UNCHANGED <<needs, done, rounds, result, failed>>
    BY <1>1 DEF Start, NeedDone, NeedTodo, vars
  <2> QED
    BY <2>1 DEF Ordered, RoundsOK, ResultIsRight, Closed, Acyclic
<1>2. ASSUME NEW n \in Names, NeedMissing(n)
      PROVE  Ordered' /\ RoundsOK' /\ ResultIsRight'
  <2>1. UNCHANGED <<needs, done, rounds, failed>> /\ result' = "false" /\ Looks(n) /\ n \notin Devices
    BY <1>2 DEF NeedMissing, Fail, DeviceInv, Lists
  <2>2. Top.dev \in Devices /\ n \in needs[Top.dev]
    <3>1. stack \in Seq(Frames) /\ Len(stack) \in Nat /\ Len(stack) > 0 /\ Top = stack[Len(stack)] /\ Top \in Frames
      BY <2>1, BelowFacts DEF Looks, DeviceInv, DeviceTypesOK
    <3>2. Top.left \subseteq needs[Top.dev]
      BY <3>1 DEF DeviceInv, LeftNeeded
    <3> QED
      BY <2>1, <3>1, <3>2 DEF Looks, Frames
  <2>3. ~Closed
    BY <2>1, <2>2 DEF Closed
  <2> QED
    BY <2>1, <2>3 DEF Ordered, RoundsOK, ResultIsRight, Closed
<1>3. ASSUME NEW n \in Names, NeedTodo(n), ~(Len(stack) < Loops)
      PROVE  Ordered' /\ RoundsOK' /\ ResultIsRight'
  <2>1. /\ UNCHANGED <<needs, done, rounds, failed>> /\ result' = "false" /\ Looks(n) /\ n \in todo
    BY <1>3 DEF NeedTodo, Fail
  <2>2. Len(stack) \in Nat /\ Loops \in Nat
    BY <2>1, BelowFacts, DeviceInitAssumption DEF Looks, DeviceInv, DeviceTypesOK
  <2>3. Cardinality(Devices) <= Loops => ~Acyclic
    BY <1>3, <2>1, <2>2, TooDeepCycles
  <2> QED
    BY <2>1, <2>3 DEF Ordered, RoundsOK, ResultIsRight, Acyclic
<1>4. CASE Finish
  <2>1. UNCHANGED <<needs, done, rounds, failed>> /\ result' = "true" /\ done = Devices
    BY <1>4 DEF Finish, DeviceInv, Lists
  <2>2. Closed /\ Acyclic
    BY <2>1 DEF DeviceInv, DoneClosed, Ordered, Closed, Acyclic
  <2> QED
    BY <2>1, <2>2 DEF Ordered, RoundsOK, ResultIsRight, Closed, Acyclic
<1>5. CASE InitFails
  BY <1>5 DEF InitFails, Fail, Ordered, RoundsOK, ResultIsRight
<1>6. CASE InitDevice
  <2> DEFINE d == Top.dev
  <2>1. /\ done' = done \cup {d} /\ needs' = needs /\ failed' = failed /\ result = "running"
        /\ rounds' \in {rounds, rounds + 1}
        /\ result' = IF rounds' > Loops THEN "false" ELSE result
    BY <1>6 DEF InitDevice, Calls
  <2>2. d \notin done /\ needs[d] \subseteq done
    BY <1>6, CallsOnce DEF InitDevice, DeviceInv, Lists
  <2>3. Ordered'
    BY <2>1, <2>2, OrderGrows
  <2>4. Cardinality(done') = Cardinality(done) + 1 /\ Cardinality(done) \in Nat
    BY <2>1, <2>2, DoneFinite, FS_AddElement
  <2>5. rounds \in Nat /\ Loops \in Nat
    BY DeviceInitAssumption DEF DeviceInv, DeviceTypesOK
  <2>6. RoundsOK'
    BY <2>1, <2>4, <2>5 DEF RoundsOK
  <2>7. Cardinality(Devices) \in Nat /\ Cardinality(done') <= Cardinality(Devices)
    <3>1. done' \subseteq Devices
      BY DEF DeviceInv, DeviceTypesOK
    <3> QED
      BY <3>1, DeviceInitAssumption, FS_Subset, FS_CardinalityType
  <2>8. Cardinality(Devices) <= Loops => result' = "running"
    BY <2>1, <2>4, <2>5, <2>6, <2>7 DEF RoundsOK
  <2>9. result' # "true"
    BY <2>1
  <2> QED
    BY <2>3, <2>6, <2>8, <2>9 DEF ResultIsRight
<1> QED
  BY <1>1, <1>2, <1>3, <1>4, <1>5, <1>6 DEF Next

\* The result is right for every graph, with or without cycles, and every order
\* in which its devices are met (device.cpp:70-157): "true" only when all devices
\* are done, "false" only for a missing need, a cycle or a failure; and meanwhile no
\* device is initialised before all that it needs.
THEOREM ResultHolds == Spec => []InitIsRight
<1>1. Init => ResultInv
  <2> SUFFICES ASSUME Init PROVE ResultInv
    OBVIOUS
  <2>1. rounds = 0 /\ done = {} /\ result = "running"
    BY DEF Init
  <2>2. RoundsOK
    BY <2>1, FS_EmptySet DEF RoundsOK
  <2>3. Ordered
    <3>1. \A S \in (SUBSET done) \ {{}} : FALSE
      BY <2>1
    <3> QED
      BY <3>1 DEF Ordered
  <2>4. ResultIsRight
    BY <2>1 DEF ResultIsRight
  <2>5. DeviceInv
    BY DeviceInitOk
  <2> QED
    BY <2>2, <2>3, <2>4, <2>5 DEF ResultInv
<1>2. ResultInv /\ [Next]_vars => ResultInv'
  BY DeviceStepOk, ResultStep DEF ResultInv
<1>3. ResultInv => InitIsRight
  BY NeedsHold DEF ResultInv, InitIsRight
<1> QED
  BY <1>1, <1>2, <1>3, PTL DEF Spec

-----------------------------------------------------------------------------
(* The threads.  What join() has waited for stays so, as the owner goes    *)
(* through the pool in order.                                              *)

\* The owner's loops: those before index have been started, joined, deleted.
OwnerInv ==
  /\ opc = "start" =>
       /\ deleted = {}
       /\ \A t \in Pool : t >= index => at[t] = "created"
  /\ opc = "join" =>
       /\ deleted = {}
       /\ platform = "linux" => \A t \in Pool : t < index => at[t] = "gone"
  /\ opc \in {"delete", "done"} /\ platform = "linux" =>
       \A t \in Pool : at[t] = "gone"

\* The list of running threads is what it should be.
ListInv ==
  /\ IsInjective(running)
  /\ ToSet(running) = {t \in Pool : at[t] \in {"function", "post", "remove"}}

ThreadInv == ThreadTypeOK /\ ListInv /\ OwnerInv

LEMMA DistinctIsInjective == \A q : Distinct(q) <=> IsInjective(q)
BY DEF Distinct, IsInjective

\* Entering the list at its head.
LEMMA PushFacts ==
  ASSUME NEW S, NEW q \in Seq(S), NEW w \in S, Distinct(q), w \notin ToSet(q)
  PROVE  /\ <<w>> \o q \in Seq(S) /\ Distinct(<<w>> \o q)
         /\ ToSet(<<w>> \o q) = ToSet(q) \cup {w}
<1> DEFINE r == <<w>> \o q
<1>1. /\ r \in Seq(S) /\ Len(r) = Len(q) + 1 /\ Len(q) \in Nat
      /\ DOMAIN r = 1 .. Len(q) + 1 /\ DOMAIN q = 1 .. Len(q)
      /\ \A i \in 1 .. Len(q) + 1 : r[i] = IF i = 1 THEN w ELSE q[i - 1]
  BY ConcatProperties, LenProperties
<1> HIDE DEF r
<1>2. \A i \in 1 .. Len(q) : q[i] # w
  BY <1>1 DEF ToSet
<1>3. Distinct(r)
  <2> SUFFICES ASSUME NEW i \in 1 .. Len(q) + 1, NEW j \in 1 .. Len(q) + 1, r[i] = r[j]
               PROVE  i = j
    BY <1>1 DEF Distinct
  <2>1. \A k, l \in 1 .. Len(q) : q[k] = q[l] => k = l
    BY <1>1 DEF Distinct
  <2> QED
    BY <1>1, <1>2, <2>1
<1>4. ToSet(r) = ToSet(q) \cup {w}
  <2>1. \A i \in 1 .. Len(q) : r[i + 1] = q[i] /\ i + 1 \in 1 .. Len(q) + 1
    BY <1>1
  <2>2. ToSet(r) \subseteq ToSet(q) \cup {w}
    BY <1>1 DEF ToSet
  <2>3. ToSet(q) \subseteq ToSet(r)
    BY <1>1, <2>1 DEF ToSet
  <2>4. w \in ToSet(r)
    BY <1>1 DEF ToSet
  <2> QED
    BY <2>2, <2>3, <2>4
<1> QED
  BY <1>1, <1>3, <1>4 DEF r

\* The thread's own steps.
LEMMA ThreadKeeps ==
  ASSUME ThreadLifeAssumption, ThreadInv, NEW t \in Pool, Thread(t)
  PROVE  ThreadInv'
<1> USE DEF ThreadInv, Pool
<1>1. /\ running \in Seq(Pool) /\ Distinct(running)
      /\ at \in [Pool -> {"created", "started", "function", "post", "remove", "exit", "gone"}]
      /\ dead \in [Pool -> 0 .. 1]
  BY DistinctIsInjective DEF ThreadTypeOK, ListInv
<1>2. UNCHANGED <<platform, deleted, opc, index>>
  BY DEF Thread, Enlist, Function, Post, Unlist, Exit, ownerVars
<1>3. at[t] \notin {"created", "gone"} /\ at' = [at EXCEPT ![t] = at'[t]] /\ at'[t] # "created"
  BY <1>1 DEF Thread, Enlist, Function, Post, Unlist, Exit, Goto
<1>4. at' \in [Pool -> {"created", "started", "function", "post", "remove", "exit", "gone"}]
      /\ dead' \in [Pool -> 0 .. 1]
  BY <1>1 DEF Thread, Enlist, Function, Post, Unlist, Exit, Goto
<1>5. OwnerInv'
  BY <1>1, <1>2, <1>3 DEF OwnerInv
<1>6. running' \in Seq(Pool) /\ ListInv'
  <2> HIDE DEF Pool
  <2> DEFINE Ran(a) == {u \in Pool : a[u] \in {"function", "post", "remove"}}
  <2>1. ToSet(running) = Ran(at)
    BY DEF ListInv
  <2>2. CASE Enlist(t)
    <3>1. running' = <<t>> \o running /\ at[t] = "started" /\ at' = [at EXCEPT ![t] = "function"]
      BY <2>2 DEF Enlist, Goto
    <3>2. t \notin ToSet(running)
      BY <2>1, <3>1
    <3>3. running' \in Seq(Pool) /\ Distinct(running') /\ ToSet(running') = ToSet(running) \cup {t}
      BY <1>1, <3>1, <3>2, PushFacts
    <3>4. Ran(at') = Ran(at) \cup {t}
      BY <1>1, <3>1
    <3> QED
      BY <2>1, <3>3, <3>4, DistinctIsInjective DEF ListInv
  <2>3. CASE Unlist(t)
    <3>1. running' = RemoveFirst(running, t) /\ at' = [at EXCEPT ![t] = "exit"]
      BY <2>3 DEF Unlist, Goto
    <3>2. running' \in Seq(Pool) /\ Distinct(running') /\ ToSet(running') = ToSet(running) \ {t}
      BY <1>1, <3>1, RemoveFirstFacts
    <3>3. Ran(at') = Ran(at) \ {t}
      BY <1>1, <3>1
    <3> QED
      BY <2>1, <3>2, <3>3, DistinctIsInjective DEF ListInv
  <2>4. CASE Function(t) \/ Post(t) \/ Exit(t)
    <3>1. running' = running
      BY <2>4 DEF Function, Post, Exit
    <3>2. Ran(at') = Ran(at)
      BY <1>1, <2>4 DEF Function, Post, Exit, Goto
    <3> QED
      BY <1>1, <2>1, <3>1, <3>2, DistinctIsInjective DEF ListInv
  <2> QED
    BY <2>2, <2>3, <2>4 DEF Thread
<1> QED
  BY <1>2, <1>4, <1>5, <1>6 DEF ThreadTypeOK

\* The owner's.
LEMMA OwnerKeeps ==
  ASSUME ThreadLifeAssumption, ThreadInv, PoolOwner
  PROVE  ThreadInv'
<1> USE DEF ThreadInv, Pool
<1>0. Count \in Nat \ {0}
  BY DEF ThreadLifeAssumption
<1>1. /\ index \in Pool
      /\ at \in [Pool -> {"created", "started", "function", "post", "remove", "exit", "gone"}]
      /\ dead \in [Pool -> 0 .. 1] /\ deleted \subseteq Pool
  BY DEF ThreadTypeOK
<1>2. running' = running /\ platform' = platform
  BY DEF PoolOwner, StartThread, Join, Delete
<1>3. /\ opc' \in {"start", "join", "delete", "done"} /\ index' \in Pool
      /\ deleted' \subseteq Pool /\ dead' \in [Pool -> 0 .. 1]
      /\ at' \in [Pool -> {"created", "started", "function", "post", "remove", "exit", "gone"}]
  <2>1. CASE StartThread
    BY <1>0, <1>1, <2>1 DEF StartThread, Step, Goto
  <2>2. CASE Join
    BY <1>0, <1>1, <2>2 DEF Join, Step
  <2>3. CASE Delete
    BY <1>0, <1>1, <2>3 DEF Delete, Step
  <2> QED
    BY <2>1, <2>2, <2>3 DEF PoolOwner
<1>4. ListInv'
  <2>1. CASE StartThread
    <3>1. at[index] = "created" /\ at' = [at EXCEPT ![index] = "started"]
      BY <1>0, <1>1, <2>1 DEF StartThread, Step, Goto, OwnerInv
    <3> QED
      BY <1>1, <1>2, <3>1 DEF ListInv
  <2>2. CASE Join \/ Delete
    BY <1>2, <2>2 DEF Join, Delete, ListInv
  <2> QED
    BY <2>1, <2>2 DEF PoolOwner
<1>5. OwnerInv'
  <2>1. CASE StartThread
    BY <1>0, <1>1, <2>1 DEF StartThread, Step, Goto, OwnerInv
  <2>2. CASE Join
    <3>1. opc = "join" /\ deleted' = {} /\ at' = at /\ opc' \in {"join", "delete"}
      BY <2>2 DEF Join, Step, OwnerInv
    <3>2. platform = "linux" => \A u \in Pool : u <= index => at[u] = "gone"
      BY <1>0, <1>1, <2>2, <3>1 DEF Join, OwnerInv
    <3>3. index' = IF index < Count THEN index + 1 ELSE 1
      BY <2>2 DEF Join, Step
    <3>4. opc' = IF index < Count THEN "join" ELSE "delete"
      BY <2>2 DEF Join, Step
    <3> QED
      BY <1>0, <1>1, <1>2, <3>1, <3>2, <3>3, <3>4 DEF OwnerInv
  <2>3. CASE Delete
    BY <1>1, <1>2, <2>3 DEF Delete, Step, OwnerInv
  <2> QED
    BY <2>1, <2>2, <2>3 DEF PoolOwner
<1> QED
  BY <1>2, <1>3, <1>4, <1>5 DEF ThreadTypeOK

LEMMA ThreadInvariant == ASSUME ThreadLifeAssumption PROVE ThreadSpec => []ThreadInv
<1>1. ThreadInit => ThreadInv
  <2> SUFFICES ASSUME ThreadInit PROVE ThreadInv
    OBVIOUS
  <2>1. running = <<>> /\ <<>> \in Seq(Pool) /\ ToSet(<<>>) = {} /\ IsInjective(<<>>)
    BY EmptySeq DEF ThreadInit, ToSet, IsInjective
  <2> QED
    BY <2>1 DEF ThreadInv, ThreadInit, ThreadTypeOK, ListInv, OwnerInv, ThreadLifeAssumption, Pool
<1>2. ThreadInv /\ [ThreadNext]_threadVars => ThreadInv'
  <2> SUFFICES ASSUME ThreadInv, [ThreadNext]_threadVars PROVE ThreadInv'
    OBVIOUS
  <2>1. ASSUME NEW t \in Pool, Thread(t) PROVE ThreadInv'
    BY <2>1, ThreadKeeps
  <2>2. CASE PoolOwner
    BY <2>2, OwnerKeeps
  <2>3. CASE UNCHANGED threadVars
    BY <2>3 DEF threadVars, ownerVars, ThreadInv, ThreadTypeOK, ListInv, OwnerInv
  <2> QED
    BY <2>1, <2>2, <2>3 DEF ThreadNext
<1> QED
  BY <1>1, <1>2, PTL DEF ThreadSpec

\* A thread is in the list of running threads exactly while it may run its function,
\* and once, on both platforms; what the owner of a pool deletes after join() is on no
\* list, and its thread will not touch it again, on Linux (src/linux/thread.cpp:55-75).
THEOREM ThreadsSound ==
  ASSUME ThreadLifeAssumption PROVE ThreadSpec => []ThreadsAreSound
<1>1. ThreadInv => ThreadsAreSound
  BY DEF ThreadInv, ThreadTypeOK, ListInv, OwnerInv, ThreadsAreSound
<1> QED
  BY <1>1, ThreadInvariant, PTL

-----------------------------------------------------------------------------
(* The MQTT client.  While the link is up, next says how far the broker    *)
(* has been asked; connected is set only when it was asked for all.        *)

\* What the flags say about the handler under way.
HandlerInv ==
  /\ link => session
  /\ ~link => broker = {} /\ acks = 0
  /\ session => started
  /\ ~session => handler = "idle" /\ ~connected
  /\ connected => next = 0 /\ handler \in {"idle", "flag"}
  /\ handler \in {"first", "second"} => subs # <<>>
  /\ handler \in {"next", "advance"} => next # 0
  /\ apc = "idle" <=> adding = NoTopic
  /\ ~started => ~connected /\ ~session
  /\ addWhen = "before" => apc # "subscribe" /\ (apc = "test" => ~started)

\* How many of the subscriptions the handlers have asked for in this session.
AskedUpTo ==
  CASE handler = "first" -> 0
    [] handler = "second" -> 1
    [] handler = "advance" -> next
    [] OTHER -> IF next = 0 THEN Len(subs) ELSE next - 1

\* An add() that finds connected set asks itself.
Asked ==
  link => \A i \in 1 .. AskedUpTo :
            subs[i] \in broker \/ (subs[i] = adding /\ connected)

\* Without such an add() nobody else asks.
OnlyAsked ==
  addWhen = "before" => broker \subseteq {subs[i] : i \in 1 .. AskedUpTo}

MqttInv == MqttTypeOK /\ HandlerInv /\ Asked /\ OnlyAsked

LEMMA SubsAre ==
  ASSUME MqttTypeOK
  PROVE  /\ Len(subs) \in Nat /\ DOMAIN subs = 1 .. Len(subs)
         /\ \A i \in 1 .. Len(subs) : subs[i] \in Topics
         /\ \A i, j \in 1 .. Len(subs) : subs[i] = subs[j] => i = j
         /\ subs # <<>> => Len(subs) >= 1
         /\ next \in 0 .. Len(subs) /\ next # 1
         /\ handler \in {"idle", "first", "second", "next", "advance", "flag"}
         /\ acks \in Nat /\ broker \subseteq Topics
BY LenProperties, EmptySeq DEF MqttTypeOK, IsInjective

\* The application appends to the list.
LEMMA AppendKeeps ==
  ASSUME MqttAssumption, "any" \notin AddTimes, MqttInv, NEW s \in Topics, AddAppend(s)
  PROVE  MqttInv'
<1> USE DEF MqttInv
<1>1. /\ subs' = Append(subs, s) /\ adding' = s /\ apc' = "test" /\ s # NoTopic
      /\ UNCHANGED <<connected, next, handler, session, started, addWhen, link, broker, acks, drops>>
      /\ apc = "idle" /\ s \notin ToSet(subs)
      /\ ~started \/ (addWhen = "connected" /\ connected)
  BY DEF AddAppend, MqttAssumption, taskVars, brokerVars, MqttTypeOK
<1>2. /\ subs' \in Seq(Topics) /\ Len(subs') = Len(subs) + 1
      /\ \A i \in 1 .. Len(subs) : subs'[i] = subs[i]
      /\ subs'[Len(subs) + 1] = s
  BY <1>1, AppendProperties DEF MqttTypeOK
<1>3. \A i \in 1 .. Len(subs) : subs[i] # s
  BY <1>1, SubsAre DEF ToSet
<1>4. IsInjective(subs')
  <2>1. DOMAIN subs' = 1 .. Len(subs) + 1
    BY <1>2, SubsAre, LenProperties
  <2>2. SUFFICES ASSUME NEW i \in 1 .. Len(subs) + 1, NEW j \in 1 .. Len(subs) + 1,
                        subs'[i] = subs'[j]
                 PROVE  i = j
    BY <2>1 DEF IsInjective
  <2> QED
    BY <1>2, <1>3, <2>2, SubsAre
<1>5. MqttTypeOK'
  BY <1>1, <1>2, <1>4, SubsAre DEF MqttTypeOK
<1>6. subs' # <<>>
  BY <1>2, SubsAre, EmptySeq
<1>7. HandlerInv'
  BY <1>1, <1>6 DEF HandlerInv, MqttTypeOK
<1>8. CASE ~started
  <2>1. ~link /\ broker = {}
    BY <1>8 DEF HandlerInv
  <2> QED
    BY <1>1, <1>5, <1>7, <2>1 DEF Asked, OnlyAsked
<1>9. CASE started
  <2>1. addWhen # "before" /\ connected /\ next = 0 /\ handler \in {"idle", "flag"} /\ adding = NoTopic
    BY <1>1, <1>9 DEF HandlerInv
  <2>2. AskedUpTo = Len(subs) /\ AskedUpTo' = Len(subs) + 1
    BY <1>1, <1>2, <2>1 DEF AskedUpTo
  <2>3. Asked'
    <3> SUFFICES ASSUME link, NEW i \in 1 .. Len(subs) + 1
                 PROVE  subs'[i] \in broker \/ (subs'[i] = s /\ connected)
      BY <1>1, <2>2 DEF Asked
    <3>1. CASE i = Len(subs) + 1
      BY <1>2, <2>1, <3>1
    <3>2. CASE i # Len(subs) + 1
      <4>1. i \in 1 .. Len(subs)
        BY <3>2, SubsAre
      <4>2. subs[i] # NoTopic
        BY <4>1, SubsAre DEF MqttAssumption
      <4> QED
        BY <1>2, <2>1, <2>2, <4>1, <4>2 DEF Asked
    <3> QED
      BY <3>1, <3>2
  <2>4. OnlyAsked'
    BY <1>1, <2>1 DEF OnlyAsked
  <2> QED
    BY <1>5, <1>7, <2>3, <2>4
<1> QED
  BY <1>8, <1>9

\* The steps that ask the broker, by whom and for what.
LEMMA WhoAsks ==
  ASSUME MqttInv, NEW s \in Topics, Subscribe(s)
  PROVE  /\ broker \subseteq broker' /\ (link => s \in broker') /\ broker' \subseteq broker \cup {s}
         /\ broker' \subseteq Topics /\ acks' \in Nat
         /\ (~link => broker' = {} /\ acks' = 0) /\ link' = link /\ drops' = drops
BY SubsAre DEF Subscribe, MqttInv, HandlerInv

LEMMA AskingKeeps ==
  ASSUME MqttAssumption, MqttInv, SubscribeFirst \/ SubscribeNext \/ AddSubscribe
  PROVE  MqttInv'
<1> USE DEF MqttInv
<1>1. CASE SubscribeFirst
  <2>1. /\ handler = "first" /\ handler' = "second" /\ Subscribe(subs[1])
        /\ UNCHANGED <<subs, connected, next, session, started, addWhen, adding, apc>>
    BY <1>1 DEF SubscribeFirst, clientVars, addVars
  <2>2. subs[1] \in Topics /\ 1 \in 1 .. Len(subs) /\ subs # <<>> /\ ~connected /\ session
    BY <2>1, SubsAre DEF HandlerInv
  <2>3. PICK s \in Topics : s = subs[1]
    BY <2>2
  <2>4. /\ broker \subseteq broker' /\ (link => s \in broker') /\ broker' \subseteq broker \cup {s}
        /\ broker' \subseteq Topics /\ acks' \in Nat
        /\ (~link => broker' = {} /\ acks' = 0) /\ link' = link /\ drops' = drops
    BY <2>1, <2>3, WhoAsks
  <2>5. AskedUpTo = 0 /\ AskedUpTo' = 1
    BY <2>1 DEF AskedUpTo
  <2>6. MqttTypeOK'
    BY <2>1, <2>4, SubsAre DEF MqttTypeOK
  <2>7. HandlerInv'
    BY <2>1, <2>2, <2>4 DEF HandlerInv
  <2>8. Asked'
    BY <2>1, <2>3, <2>4, <2>5 DEF Asked
  <2>9. OnlyAsked'
    BY <2>1, <2>3, <2>4, <2>5 DEF OnlyAsked
  <2> QED
    BY <2>6, <2>7, <2>8, <2>9
<1>2. CASE SubscribeNext
  <2>1. /\ handler = "next" /\ handler' = "advance" /\ Subscribe(subs[next])
        /\ UNCHANGED <<subs, connected, next, session, started, addWhen, adding, apc>>
    BY <1>2 DEF SubscribeNext, clientVars, addVars
  <2>2. subs[next] \in Topics /\ next \in 1 .. Len(subs) /\ next # 0 /\ ~connected /\ session
    BY <2>1, SubsAre DEF HandlerInv
  <2>3. PICK s \in Topics : s = subs[next]
    BY <2>2
  <2>4. /\ broker \subseteq broker' /\ (link => s \in broker') /\ broker' \subseteq broker \cup {s}
        /\ broker' \subseteq Topics /\ acks' \in Nat
        /\ (~link => broker' = {} /\ acks' = 0) /\ link' = link /\ drops' = drops
    BY <2>1, <2>3, WhoAsks
  <2>5. AskedUpTo = next - 1 /\ AskedUpTo' = next
    BY <2>1, <2>2 DEF AskedUpTo
  <2>6. MqttTypeOK'
    BY <2>1, <2>4, SubsAre DEF MqttTypeOK
  <2>7. HandlerInv'
    BY <2>1, <2>2, <2>4 DEF HandlerInv
  <2>8. \A i \in 1 .. next : i \in 1 .. next - 1 \/ i = next
    BY <2>2, SubsAre
  <2>9. Asked'
    BY <2>1, <2>2, <2>3, <2>4, <2>5, <2>8 DEF Asked
  <2>10. OnlyAsked'
    <3> SUFFICES ASSUME addWhen = "before"
                 PROVE  broker' \subseteq {subs[i] : i \in 1 .. next}
      BY <2>1, <2>5 DEF OnlyAsked
    <3>1. broker \subseteq {subs[i] : i \in 1 .. next - 1}
      BY <2>5 DEF OnlyAsked
    <3>2. \A i \in 1 .. next - 1 : i \in 1 .. next
      BY <2>2, SubsAre
    <3>3. next \in 1 .. next
      BY <2>2, SubsAre
    <3> QED
      BY <2>3, <2>4, <3>1, <3>2, <3>3
  <2> QED
    BY <2>6, <2>7, <2>9, <2>10
<1>3. CASE AddSubscribe
  <2>1. /\ apc = "subscribe" /\ apc' = "idle" /\ adding' = NoTopic /\ Subscribe(adding)
        /\ UNCHANGED <<subs, connected, next, handler, session, started, addWhen>>
    BY <1>3 DEF AddSubscribe, clientVars, taskVars
  <2>2. adding \in Topics /\ addWhen # "before"
    BY <2>1 DEF HandlerInv, MqttTypeOK
  <2>3. PICK s \in Topics : s = adding
    BY <2>2
  <2>4. /\ broker \subseteq broker' /\ (link => s \in broker') /\ broker' \subseteq broker \cup {s}
        /\ broker' \subseteq Topics /\ acks' \in Nat
        /\ (~link => broker' = {} /\ acks' = 0) /\ link' = link /\ drops' = drops
    BY <2>1, <2>3, WhoAsks
  <2>5. AskedUpTo' = AskedUpTo
    BY <2>1 DEF AskedUpTo
  <2>6. MqttTypeOK'
    BY <2>1, <2>4, SubsAre DEF MqttTypeOK
  <2>7. HandlerInv'
    BY <2>1, <2>2, <2>4 DEF HandlerInv
  <2>8. Asked'
    BY <2>1, <2>3, <2>4, <2>5 DEF Asked
  <2>9. OnlyAsked'
    BY <2>1, <2>2 DEF OnlyAsked
  <2> QED
    BY <2>6, <2>7, <2>8, <2>9
<1> QED
  BY <1>1, <1>2, <1>3

LEMMA AddTestKeeps ==
  ASSUME MqttAssumption, MqttInv, AddTest
  PROVE  MqttInv'
<1> USE DEF MqttInv
<1>1. /\ apc = "test"
      /\ \/ connected /\ apc' = "subscribe" /\ UNCHANGED adding
         \/ ~connected /\ apc' = "idle" /\ adding' = NoTopic
      /\ UNCHANGED <<subs, connected, next, handler, session, started, addWhen, link, broker, acks, drops>>
  BY DEF AddTest, clientVars, taskVars, brokerVars
<1>2. MqttTypeOK'
  BY <1>1 DEF MqttTypeOK
<1>3. HandlerInv'
  BY <1>1 DEF HandlerInv, MqttTypeOK
<1>4. AskedUpTo' = AskedUpTo
  BY <1>1 DEF AskedUpTo
<1>5. Asked'
  BY <1>1, <1>4 DEF Asked
<1>6. OnlyAsked'
  BY <1>1, <1>4 DEF OnlyAsked
<1> QED
  BY <1>2, <1>3, <1>5, <1>6

\* The other steps of the handlers ask for nothing.
LEMMA HandlersKeep ==
  ASSUME MqttAssumption, MqttInv,
         OnConnected \/ ReadSecond \/ OnSubscribed \/ Advance \/ SetConnected \/ OnDisconnected
  PROVE  MqttInv'
<1> USE DEF MqttInv
<1>1. UNCHANGED <<subs, started, addWhen, adding, apc, broker, drops>>
  BY DEF OnConnected, ReadSecond, OnSubscribed, Advance, SetConnected, OnDisconnected,
         clientVars, addVars, brokerVars
<1>2. CASE OnConnected
  <2>1. /\ handler = "idle" /\ started /\ ~session /\ link' /\ session'
        /\ handler' = IF subs = <<>> THEN "idle" ELSE "first"
        /\ UNCHANGED <<connected, next, acks>>
    BY <1>2 DEF OnConnected, clientVars
  <2>2. ~link /\ broker = {} /\ ~connected
    BY <2>1 DEF HandlerInv
  <2>3. AskedUpTo' = 0
    <3>1. subs = <<>> => Len(subs) = 0 /\ next = 0
      BY SubsAre, EmptySeq
    <3> QED
      BY <1>1, <2>1, <3>1 DEF AskedUpTo
  <2>4. MqttTypeOK'
    BY <1>1, <2>1 DEF MqttTypeOK
  <2>5. HandlerInv'
    BY <1>1, <2>1, <2>2 DEF HandlerInv
  <2>6. Asked' /\ OnlyAsked'
    BY <1>1, <2>2, <2>3 DEF Asked, OnlyAsked
  <2> QED
    BY <2>4, <2>5, <2>6
<1>3. CASE ReadSecond \/ Advance
  <2>1. /\ handler \in {"second", "advance"} /\ handler' \in {"idle", "flag"}
        /\ next' = Following(IF handler = "second" THEN 1 ELSE next)
        /\ UNCHANGED <<connected, session, link, acks>>
    BY <1>3 DEF ReadSecond, Advance, brokerVars
  <2>2. session /\ ~connected /\ (handler = "second" => subs # <<>>) /\ (handler = "advance" => next # 0)
    BY <2>1 DEF HandlerInv
  <2>3. PICK n \in 1 .. Len(subs) : n = IF handler = "second" THEN 1 ELSE next
    BY <2>1, <2>2, SubsAre
  <2>4. AskedUpTo = n
    BY <2>1, <2>3 DEF AskedUpTo
  <2>5. next' = IF n < Len(subs) THEN n + 1 ELSE 0
    BY <2>1, <2>3 DEF Following
  <2>6. AskedUpTo' = n
    BY <1>1, <2>1, <2>3, <2>5, SubsAre DEF AskedUpTo
  <2>7. MqttTypeOK'
    <3>1. next' \in 0 .. Len(subs) /\ next' # 1
      BY <2>3, <2>5, SubsAre
    <3> QED
      BY <1>1, <2>1, <3>1 DEF MqttTypeOK
  <2>8. HandlerInv'
    BY <1>1, <2>1, <2>2 DEF HandlerInv
  <2>9. Asked' /\ OnlyAsked'
    BY <1>1, <2>1, <2>4, <2>6 DEF Asked, OnlyAsked
  <2> QED
    BY <2>7, <2>8, <2>9
<1>4. CASE OnSubscribed
  <2>1. /\ handler = "idle" /\ session /\ acks > 0 /\ acks' = acks - 1
        /\ handler' = IF next # 0 THEN "next" ELSE "flag"
        /\ UNCHANGED <<connected, next, session, link>>
    BY <1>4 DEF OnSubscribed, clientVars
  <2>2. AskedUpTo' = AskedUpTo
    BY <1>1, <2>1 DEF AskedUpTo
  <2>3. MqttTypeOK'
    BY <1>1, <2>1 DEF MqttTypeOK
  <2>4. HandlerInv'
    BY <1>1, <2>1 DEF HandlerInv
  <2>5. Asked' /\ OnlyAsked'
    BY <1>1, <2>1, <2>2 DEF Asked, OnlyAsked
  <2> QED
    BY <2>3, <2>4, <2>5
<1>5. CASE SetConnected
  <2>1. /\ handler = "flag" /\ handler' = "idle" /\ connected' = (next = 0)
        /\ UNCHANGED <<next, session, link, acks>>
    BY <1>5 DEF SetConnected, brokerVars
  <2>2. AskedUpTo' = AskedUpTo /\ (connected => connected') /\ session
    BY <1>1, <2>1 DEF AskedUpTo, HandlerInv
  <2>3. MqttTypeOK'
    BY <1>1, <2>1 DEF MqttTypeOK
  <2>4. HandlerInv'
    BY <1>1, <2>1, <2>2 DEF HandlerInv
  <2>5. Asked' /\ OnlyAsked'
    BY <1>1, <2>1, <2>2 DEF Asked, OnlyAsked
  <2> QED
    BY <2>3, <2>4, <2>5
<1>6. CASE OnDisconnected
  <2>1. /\ handler = "idle" /\ session /\ ~link /\ ~connected' /\ ~session'
        /\ connected' \in BOOLEAN /\ session' \in BOOLEAN
        /\ UNCHANGED <<next, handler, link, acks>>
    BY <1>6 DEF OnDisconnected, brokerVars
  <2>2. AskedUpTo' = AskedUpTo
    BY <1>1, <2>1 DEF AskedUpTo
  <2>3. MqttTypeOK'
    BY <1>1, <2>1 DEF MqttTypeOK
  <2>4. HandlerInv'
    BY <1>1, <2>1 DEF HandlerInv
  <2>5. Asked' /\ OnlyAsked'
    BY <1>1, <2>1, <2>2 DEF Asked, OnlyAsked
  <2> QED
    BY <2>3, <2>4, <2>5
<1> QED
  BY <1>2, <1>3, <1>4, <1>5, <1>6

LEMMA OthersKeep ==
  ASSUME MqttInv, AppStart \/ Drop
  PROVE  MqttInv'
<1> USE DEF MqttInv
<1>1. CASE AppStart
  <2>1. /\ apc = "idle" /\ started' = TRUE
        /\ UNCHANGED <<subs, connected, next, handler, session, addWhen, adding, apc, link, broker, acks, drops>>
    BY <1>1 DEF AppStart, clientVars, addVars, brokerVars
  <2> QED
    BY <2>1 DEF MqttTypeOK, HandlerInv, Asked, OnlyAsked, AskedUpTo
<1>2. CASE Drop
  <2>1. /\ link /\ link' = FALSE /\ broker' = {} /\ acks' = 0 /\ drops' = drops + 1
        /\ UNCHANGED <<subs, connected, next, handler, session, started, addWhen, adding, apc>>
    BY <1>2 DEF Drop, clientVars, taskVars, addVars
  <2>2. MqttTypeOK'
    <3>1. link' \in BOOLEAN
      BY <2>1
    <3>2. broker' \subseteq Topics /\ acks' \in Nat
      BY <2>1
    <3>3. drops' \in Nat
      BY <2>1 DEF MqttTypeOK
    <3> QED
      BY <2>1, <3>1, <3>2, <3>3, SubsAre DEF MqttTypeOK
  <2>3. HandlerInv'
    BY <2>1 DEF HandlerInv
  <2>4. Asked' /\ OnlyAsked'
    BY <2>1 DEF Asked, OnlyAsked
  <2> QED
    BY <2>2, <2>3, <2>4
<1> QED
  BY <1>1, <1>2

LEMMA MqttInvariant ==
  ASSUME MqttAssumption, "any" \notin AddTimes PROVE MqttSpec => []MqttInv
<1>1. MqttInit => MqttInv
  <2> SUFFICES ASSUME MqttInit PROVE MqttInv
    OBVIOUS
  <2>1. subs = <<>> /\ <<>> \in Seq(Topics) /\ IsInjective(<<>>) /\ Len(<<>>) = 0
    BY EmptySeq DEF MqttInit, IsInjective
  <2>2. MqttTypeOK
    <3>1. /\ connected \in BOOLEAN /\ session \in BOOLEAN /\ started \in BOOLEAN /\ link \in BOOLEAN
          /\ handler = "idle" /\ apc = "idle" /\ adding = NoTopic /\ addWhen \in AddTimes
          /\ broker \subseteq Topics /\ acks = 0 /\ drops = 0 /\ next = 0
      BY DEF MqttInit
    <3> QED
      BY <2>1, <3>1 DEF MqttTypeOK
  <2>3. HandlerInv
    BY DEF MqttInit, HandlerInv
  <2>4. Asked /\ OnlyAsked
    BY DEF MqttInit, Asked, OnlyAsked
  <2> QED
    BY <2>2, <2>3, <2>4 DEF MqttInv
<1>2. MqttInv /\ [MqttNext]_mqttVars => MqttInv'
  <2> SUFFICES ASSUME MqttInv, [MqttNext]_mqttVars PROVE MqttInv'
    OBVIOUS
  <2>1. ASSUME NEW s \in Topics, AddAppend(s) PROVE MqttInv'
    BY <2>1, AppendKeeps
  <2>2. CASE AddStep
    BY <2>2, AddTestKeeps, AskingKeeps DEF AddStep
  <2>3. CASE Handlers
    BY <2>3, HandlersKeep, AskingKeeps DEF Handlers
  <2>4. CASE AppStart \/ Drop
    BY <2>4, OthersKeep
  <2>5. CASE UNCHANGED mqttVars
    BY <2>5 DEF mqttVars, clientVars, taskVars, addVars, brokerVars, MqttInv, MqttTypeOK,
                HandlerInv, Asked, OnlyAsked, AskedUpTo
  <2> QED
    BY <2>1, <2>2, <2>3, <2>4, <2>5 DEF MqttNext
<1> QED
  BY <1>1, <1>2, PTL DEF MqttSpec

\* While connected is set and the link is up, the broker has been asked for every
\* subscription but one that add() is about to ask for (src/esp32/mqtt.cpp:180), for an
\* application that adds before app_start() or when it knows of the connection.
THEOREM ConnectedHasAsked ==
  ASSUME MqttAssumption, "any" \notin AddTimes PROVE MqttSpec => []ConnectedMeansAsked
<1>1. MqttInv => ConnectedMeansAsked
  <2> SUFFICES ASSUME MqttInv, connected, link PROVE ToSet(subs) \ {adding} \subseteq broker
    BY DEF ConnectedMeansAsked
  <2>1. AskedUpTo = Len(subs)
    BY DEF MqttInv, HandlerInv, AskedUpTo
  <2> QED
    BY <2>1, SubsAre DEF MqttInv, Asked, ToSet
<1> QED
  BY <1>1, MqttInvariant, PTL

\* The handlers ask for no subscription twice in a session: each acknowledgement moves
\* them on by exactly one (src/esp32/mqtt.cpp:174).
THEOREM AsksOnce ==
  ASSUME MqttAssumption, "any" \notin AddTimes PROVE MqttSpec => AskedOnce
<1>1. MqttInv /\ [MqttNext]_mqttVars =>
        [\A s \in Topics : addWhen = "before" /\ acks' > acks /\ s \in broker => broker' # broker]_mqttVars
  <2> SUFFICES ASSUME MqttInv, MqttNext, addWhen = "before", acks' > acks, broker # {}
               PROVE  broker' # broker
    OBVIOUS
  <2>1. SubscribeFirst \/ SubscribeNext \/ AddSubscribe
    <3>1. acks \in Nat /\ ~(0 > acks) /\ ~(acks > acks) /\ ~(acks - 1 > acks)
      BY SubsAre DEF MqttInv
    <3> QED
      BY <3>1 DEF MqttNext, AppStart, AddAppend, AddStep, AddTest, Handlers, OnConnected, ReadSecond,
                  OnSubscribed, Advance, SetConnected, OnDisconnected, Drop, brokerVars
  <2>2. CASE SubscribeFirst
    <3>1. AskedUpTo = 0
      BY <2>2 DEF SubscribeFirst, AskedUpTo
    <3> QED
      BY <3>1 DEF MqttInv, OnlyAsked
  <2>3. CASE SubscribeNext
    <3>1. handler = "next" /\ Subscribe(subs[next]) /\ next # 0
      BY <2>3 DEF SubscribeNext, MqttInv, HandlerInv
    <3>2. AskedUpTo = next - 1
      BY <3>1 DEF AskedUpTo
    <3>3. subs[next] \notin broker
      BY <3>1, <3>2, SubsAre DEF MqttInv, OnlyAsked
    <3>4. link
      BY <3>1 DEF Subscribe, MqttInv, MqttTypeOK
    <3> QED
      BY <3>1, <3>3, <3>4 DEF Subscribe
  <2>4. CASE AddSubscribe
    BY <2>4 DEF AddSubscribe, MqttInv, HandlerInv
  <2> QED
    BY <2>1, <2>2, <2>3, <2>4
<1> QED
  BY <1>1, MqttInvariant, PTL DEF MqttSpec, AskedOnce

-----------------------------------------------------------------------------
(* The list of access points and its iterator.                             *)

ApTypes ==
  /\ access_points \in Seq(AccessPoints) /\ Distinct(access_points)
  /\ iter \in ToSet(access_points) \cup {None}
  /\ returned \in Seq(AccessPoints \cup {None})
  /\ missed \subseteq AccessPoints

\* The iterator has passed what is before its place, and nothing behind it.
IterInv ==
  iter # None =>
    /\ iter \in ToSet(returned)
    /\ ToSet(returned) \subseteq ToSet(access_points) \cup missed
    /\ \A i, j \in DOMAIN access_points : i < j =>
         /\ access_points[j] = iter => access_points[i] \in ToSet(returned) \cup missed
         /\ access_points[i] = iter /\ access_points[j] \in ToSet(returned) =>
              access_points[j] \in missed

ApInv == ApTypes /\ IterInv /\ EachApOnce

LEMMA ApsAre ==
  ASSUME ApTypes
  PROVE  /\ Len(access_points) \in Nat /\ DOMAIN access_points = 1 .. Len(access_points)
         /\ \A i \in 1 .. Len(access_points) : access_points[i] \in AccessPoints
         /\ \A i, j \in 1 .. Len(access_points) : access_points[i] = access_points[j] => i = j
         /\ ToSet(access_points) \subseteq AccessPoints
         /\ access_points # <<>> <=> Len(access_points) >= 1
         /\ Len(returned) \in Nat /\ DOMAIN returned = 1 .. Len(returned)
<1>1. /\ Len(access_points) \in Nat /\ DOMAIN access_points = 1 .. Len(access_points)
      /\ \A i \in 1 .. Len(access_points) : access_points[i] \in AccessPoints
      /\ Len(returned) \in Nat /\ DOMAIN returned = 1 .. Len(returned)
  BY LenProperties DEF ApTypes
<1>2. access_points # <<>> <=> Len(access_points) >= 1
  BY <1>1, EmptySeq DEF ApTypes
<1> QED
  BY <1>1, <1>2 DEF ApTypes, Distinct, ToSet

LEMMA AddApKeeps ==
  ASSUME NetworkAssumption, ApInv, AddAp PROVE ApInv'
<1> USE DEF ApInv
<1>1. PICK a \in AccessPoints \ ToSet(access_points) :
        access_points' = Append(access_points, a) /\ missed' = missed \cup {a}
  BY DEF AddAp
<1>2. iter' = iter /\ returned' = returned
  BY DEF AddAp
<1>3. access_points \in Seq(AccessPoints) /\ Distinct(access_points)
  BY DEF ApTypes
<1>4. /\ access_points' \in Seq(AccessPoints) /\ Len(access_points') = Len(access_points) + 1
      /\ \A i \in 1 .. Len(access_points) : access_points'[i] = access_points[i]
      /\ access_points'[Len(access_points) + 1] = a
  BY <1>1, <1>3, AppendProperties
<1>5. DOMAIN access_points' = 1 .. Len(access_points) + 1
  BY <1>4, LenProperties
<1>6. \A i \in 1 .. Len(access_points) : access_points[i] # a
  BY <1>1, ApsAre DEF ToSet
<1>7. Distinct(access_points')
  BY <1>4, <1>5, <1>6, ApsAre DEF Distinct
<1>8. ToSet(access_points') = ToSet(access_points) \cup {a}
  <2>1. ToSet(access_points') \subseteq ToSet(access_points) \cup {a}
    BY <1>4, <1>5, ApsAre DEF ToSet
  <2>2. \A i \in 1 .. Len(access_points) : i \in 1 .. Len(access_points) + 1
    BY ApsAre
  <2>3. ToSet(access_points) \subseteq ToSet(access_points')
    BY <1>4, <1>5, <2>2, ApsAre DEF ToSet
  <2>4. Len(access_points) + 1 \in 1 .. Len(access_points) + 1
    BY ApsAre
  <2>5. a \in ToSet(access_points')
    BY <1>4, <1>5, <2>4 DEF ToSet
  <2> QED
    BY <2>1, <2>3, <2>5
<1>9. ApTypes'
  BY <1>1, <1>2, <1>4, <1>7, <1>8 DEF ApTypes
<1>10. EachApOnce'
  BY <1>1, <1>2, <1>8 DEF EachApOnce
<1>11. IterInv'
  <2> SUFFICES ASSUME iter # None PROVE IterInv'
    BY <1>2 DEF IterInv
  <2>1. iter # a /\ iter \in ToSet(returned) /\ ToSet(returned) \subseteq ToSet(access_points) \cup missed
    BY <1>1 DEF IterInv, ApTypes
  <2>2. ASSUME NEW i \in 1 .. Len(access_points) + 1, NEW j \in 1 .. Len(access_points) + 1, i < j
        PROVE  /\ access_points'[j] = iter => access_points'[i] \in ToSet(returned) \cup missed'
               /\ access_points'[i] = iter /\ access_points'[j] \in ToSet(returned) =>
                    access_points'[j] \in missed'
    <3>1. i \in 1 .. Len(access_points) /\ (j # Len(access_points) + 1 => j \in 1 .. Len(access_points))
      BY <2>2, ApsAre
    <3>2. CASE j = Len(access_points) + 1
      BY <1>1, <1>4, <2>1, <3>2
    <3>3. CASE j # Len(access_points) + 1
      BY <1>1, <1>4, <2>2, <3>1, <3>3, ApsAre DEF IterInv
    <3> QED
      BY <3>2, <3>3
  <2> QED
    BY <1>1, <1>2, <1>5, <1>8, <2>1, <2>2 DEF IterInv
<1> QED
  BY <1>9, <1>10, <1>11

LEMMA DelApKeeps ==
  ASSUME NetworkAssumption, ApInv, DelAp PROVE ApInv'
<1> USE DEF ApInv
<1>1. PICK a \in ToSet(access_points) \ {iter} :
        access_points' = RemoveFirst(access_points, a) /\ missed' = missed \cup {a}
  BY DEF DelAp
<1>2. iter' = iter /\ returned' = returned
  BY DEF DelAp
<1>3. access_points \in Seq(AccessPoints) /\ Distinct(access_points)
  BY DEF ApTypes
<1>4. /\ access_points' \in Seq(AccessPoints) /\ Distinct(access_points')
      /\ ToSet(access_points') = ToSet(access_points) \ {a}
      /\ \A i, j \in DOMAIN access_points' : i < j =>
           \E k, l \in DOMAIN access_points : /\ k < l
                                              /\ access_points'[i] = access_points[k]
                                              /\ access_points'[j] = access_points[l]
  BY <1>1, <1>3, RemoveFirstFacts
<1>5. ApTypes'
  BY <1>1, <1>2, <1>4, ApsAre DEF ApTypes
<1>6. EachApOnce'
  BY <1>1, <1>2, <1>4 DEF EachApOnce
<1>7. IterInv'
  <2> SUFFICES ASSUME iter # None PROVE IterInv'
    BY <1>2 DEF IterInv
  <2>1. iter \in ToSet(returned) /\ ToSet(returned) \subseteq ToSet(access_points') \cup missed'
    BY <1>1, <1>4 DEF IterInv
  <2>2. ASSUME NEW i \in DOMAIN access_points', NEW j \in DOMAIN access_points', i < j
        PROVE  /\ access_points'[j] = iter => access_points'[i] \in ToSet(returned) \cup missed'
               /\ access_points'[i] = iter /\ access_points'[j] \in ToSet(returned) =>
                    access_points'[j] \in missed'
    <3>1. PICK k \in DOMAIN access_points, l \in DOMAIN access_points :
            k < l /\ access_points'[i] = access_points[k] /\ access_points'[j] = access_points[l]
      BY <1>4, <2>2
    <3> QED
      BY <1>1, <3>1 DEF IterInv
  <2> QED
    BY <1>2, <2>1, <2>2 DEF IterInv
<1> QED
  BY <1>5, <1>6, <1>7

\* The item after the iterator's.
LEMMA AfterIs ==
  ASSUME NetworkAssumption, ApTypes
  PROVE  /\ iter = None => After(access_points, iter) =
              IF access_points = <<>> THEN None ELSE access_points[1]
         /\ iter # None => \E i \in 1 .. Len(access_points) :
              /\ access_points[i] = iter
              /\ After(access_points, iter) =
                   IF i < Len(access_points) THEN access_points[i + 1] ELSE None
<1>1. CASE iter = None
  BY <1>1, ApsAre DEF After
<1>2. CASE iter # None
  <2>1. \E i \in DOMAIN access_points : access_points[i] = iter
    BY <1>2 DEF ApTypes, ToSet
  <2>2. PICK i : i = CHOOSE n \in DOMAIN access_points : access_points[n] = iter
    OBVIOUS
  <2>3. i \in DOMAIN access_points /\ access_points[i] = iter
    BY <2>1, <2>2
  <2> QED
    BY <1>2, <2>2, <2>3, ApsAre DEF After
<1> QED
  BY <1>1, <1>2

LEMMA GetApKeeps ==
  ASSUME NetworkAssumption, ApInv, GetAp PROVE ApInv'
<1> USE DEF ApInv
<1>1. /\ iter' = After(access_points, iter) /\ access_points' = access_points
      /\ returned' = IF iter = None THEN <<iter'>> ELSE Append(returned, iter')
      /\ missed' = IF iter = None THEN {} ELSE missed
  BY DEF GetAp
<1>2. None \notin AccessPoints
  BY DEF NetworkAssumption
<1>3. CASE iter = None
  <2>1. iter' = IF access_points = <<>> THEN None ELSE access_points[1]
    BY <1>1, <1>3, AfterIs
  <2>2. iter' \in ToSet(access_points) \cup {None} /\ iter' \in AccessPoints \cup {None}
    BY <2>1, ApsAre DEF ToSet
  <2>3. PICK x \in AccessPoints \cup {None} : x = iter'
    BY <2>2
  <2>4. /\ returned' = <<x>> /\ missed' = {} /\ returned' \in Seq(AccessPoints \cup {None})
        /\ ToSet(returned') = {x} /\ DOMAIN returned' = {1}
    BY <1>1, <1>3, <2>3 DEF ToSet
  <2>5. ApTypes'
    BY <1>1, <2>2, <2>4 DEF ApTypes
  <2>6. EachApOnce'
    <3>1. iter' = None => ToSet(access_points) = {}
      BY <1>2, <2>1, ApsAre DEF ToSet
    <3> QED
      BY <1>1, <2>4, <3>1 DEF EachApOnce
  <2>7. IterInv'
    <3> SUFFICES ASSUME iter' # None PROVE IterInv'
      BY DEF IterInv
    <3>1. iter' = access_points[1] /\ 1 \in 1 .. Len(access_points)
      BY <2>1, ApsAre
    <3>2. \A j \in 1 .. Len(access_points) : access_points[j] = iter' => j = 1
      BY <3>1, ApsAre
    <3> QED
      BY <1>1, <2>2, <2>3, <2>4, <3>2, ApsAre DEF IterInv
  <2> QED
    BY <2>5, <2>6, <2>7
<1>4. CASE iter # None
  <2>1. PICK i \in 1 .. Len(access_points) :
          /\ access_points[i] = iter
          /\ iter' = IF i < Len(access_points) THEN access_points[i + 1] ELSE None
    BY <1>1, <1>4, AfterIs
  <2>2. iter' \in ToSet(access_points) \cup {None} /\ iter' \in AccessPoints \cup {None}
    BY <2>1, ApsAre DEF ToSet
  <2>3. PICK x \in AccessPoints \cup {None} : x = iter'
    BY <2>2
  <2>4. /\ returned' = Append(returned, x) /\ missed' = missed
        /\ returned' \in Seq(AccessPoints \cup {None}) /\ returned' # <<>>
        /\ Len(returned') = Len(returned) + 1
        /\ \A k \in 1 .. Len(returned) : returned'[k] = returned[k]
        /\ returned'[Len(returned) + 1] = x
    BY <1>1, <1>4, <2>3, AppendProperties DEF ApTypes
  <2>5. DOMAIN returned' = 1 .. Len(returned) + 1
    BY <2>4, LenProperties
  <2>6. ToSet(returned') = ToSet(returned) \cup {x}
    <3>1. \A k \in 1 .. Len(returned) : k \in 1 .. Len(returned) + 1
      BY ApsAre
    <3>2. Len(returned) + 1 \in 1 .. Len(returned) + 1
      BY ApsAre
    <3>3. ToSet(returned') \subseteq ToSet(returned) \cup {x}
      BY <2>4, <2>5, ApsAre DEF ToSet
    <3>4. ToSet(returned) \subseteq ToSet(returned')
      BY <2>4, <2>5, <3>1, ApsAre DEF ToSet
    <3>5. x \in ToSet(returned')
      BY <2>4, <2>5, <3>2 DEF ToSet
    <3> QED
      BY <3>3, <3>4, <3>5
  <2>7. ApTypes'
    BY <1>1, <2>2, <2>4 DEF ApTypes
  <2>8. /\ iter \in ToSet(returned) /\ ToSet(returned) \subseteq ToSet(access_points) \cup missed
        /\ \A k \in 1 .. Len(access_points) : k < i => access_points[k] \in ToSet(returned) \cup missed
        /\ \A l \in 1 .. Len(access_points) :
             i < l /\ access_points[l] \in ToSet(returned) => access_points[l] \in missed
    BY <1>4, <2>1, ApsAre DEF IterInv
  <2>9. x \in ToSet(returned) => x \in missed
    <3>1. CASE i < Len(access_points)
      <4>1. i + 1 \in 1 .. Len(access_points) /\ i < i + 1
        BY <3>1, ApsAre
      <4> QED
        BY <2>1, <2>3, <2>8, <3>1, <4>1
    <3>2. CASE ~(i < Len(access_points))
      BY <1>2, <2>1, <2>3, <2>8, <3>2, ApsAre DEF ApTypes
    <3> QED
      BY <3>1, <3>2
  <2>10. EachApOnce'
    <3>1. ASSUME NEW k \in 1 .. Len(returned) + 1, NEW l \in 1 .. Len(returned) + 1,
                 k # l, returned'[k] = returned'[l]
          PROVE  returned'[k] \in missed
      <4>1. CASE k \in 1 .. Len(returned) /\ l \in 1 .. Len(returned)
        BY <2>4, <3>1, <4>1, ApsAre DEF EachApOnce
      <4>2. CASE k \notin 1 .. Len(returned) \/ l \notin 1 .. Len(returned)
        <5>1. /\ returned'[k] = x
              /\ k \in 1 .. Len(returned) \/ l \in 1 .. Len(returned)
          BY <2>4, <3>1, <4>2, ApsAre
        <5>3. /\ k \in 1 .. Len(returned) => returned'[k] = returned[k]
              /\ l \in 1 .. Len(returned) => returned'[l] = returned[l]
          BY <2>4, ApsAre
        <5>4. \E n \in 1 .. Len(returned) : returned[n] = x
          BY <3>1, <5>1, <5>3
        <5>2. x \in ToSet(returned)
          BY <5>4, ApsAre DEF ToSet
        <5> QED
          BY <2>9, <5>1, <5>2
      <4> QED
        BY <4>1, <4>2
    <3>2. iter' = None => ToSet(access_points) \ missed \subseteq ToSet(returned)
      <4> SUFFICES ASSUME iter' = None, NEW k \in 1 .. Len(access_points)
                   PROVE  access_points[k] \in ToSet(returned) \cup missed
        BY ApsAre DEF ToSet
      <4>1. ASSUME i < Len(access_points) PROVE FALSE
        <5>1. i + 1 \in 1 .. Len(access_points)
          BY <4>1, ApsAre
        <5>2. access_points[i + 1] \in AccessPoints /\ access_points[i + 1] = None
          BY <2>1, <4>1, <5>1, ApsAre
        <5> QED
          BY <1>2, <5>2
      <4>2. Len(access_points) \in Nat
        BY ApsAre
      <4>3. i = Len(access_points)
        BY <4>1, <4>2
      <4> QED
        BY <2>1, <2>8, <4>3, ApsAre
    <3> QED
      BY <1>1, <2>4, <2>5, <2>6, <3>1, <3>2 DEF EachApOnce
  <2>11. IterInv'
    <3> SUFFICES ASSUME iter' # None PROVE IterInv'
      BY DEF IterInv
    <3>1. i + 1 \in 1 .. Len(access_points) /\ x = access_points[i + 1]
      BY <2>1, <2>3, ApsAre
    <3>2. ASSUME NEW k \in 1 .. Len(access_points), NEW l \in 1 .. Len(access_points), k < l
          PROVE  /\ access_points[l] = x => access_points[k] \in ToSet(returned) \cup missed
                 /\ access_points[k] = x /\ access_points[l] \in ToSet(returned) \cup {x} =>
                      access_points[l] \in missed
      <4>1. access_points[l] = x => k = i \/ k < i
        BY <3>1, <3>2, ApsAre
      <4>2. access_points[k] = x => k = i + 1 /\ i < l /\ access_points[l] # x
        BY <3>1, <3>2, ApsAre
      <4> QED
        BY <2>1, <2>8, <4>1, <4>2
    <3> QED
      BY <1>1, <2>2, <2>3, <2>4, <2>6, <2>8, <3>2, ApsAre DEF IterInv
  <2> QED
    BY <2>7, <2>10, <2>11
<1> QED
  BY <1>3, <1>4

LEMMA ApInvariant == ASSUME NetworkAssumption PROVE NetSpec => []ApInv
<1>1. NetInit => ApInv
  <2> SUFFICES ASSUME NetInit PROVE ApInv
    OBVIOUS
  <2>1. PICK order \in SetToSeqs(AccessPoints) : \E n \in 0 .. Len(order) :
          access_points = SubSeq(order, 1, n)
    BY DEF NetInit
  <2>2. PICK n \in 0 .. Len(order) : access_points = SubSeq(order, 1, n)
    BY <2>1
  <2>3. Cardinality(AccessPoints) \in Nat
    BY FS_CardinalityType DEF NetworkAssumption
  <2>4. order \in [1 .. Cardinality(AccessPoints) -> AccessPoints]
        /\ \A i, j \in 1 .. Cardinality(AccessPoints) : i # j => order[i] # order[j]
    BY DEF SetToSeqs
  <2>5. order \in Seq(AccessPoints) /\ Len(order) = Cardinality(AccessPoints)
    BY <2>3, <2>4, SeqDef, LenProperties
  <2>6. n \in Nat /\ n <= Len(order) /\ \A i \in 1 .. n : order[i] \in AccessPoints
    BY <2>3, <2>4, <2>5
  <2>7. /\ access_points \in Seq(AccessPoints) /\ Len(access_points) = n
        /\ \A i \in 1 .. n : access_points[i] = order[i]
    BY <2>2, <2>6, SubSeqProperties
  <2>8. DOMAIN access_points = 1 .. n
    BY <2>7, LenProperties
  <2>9. Distinct(access_points)
    BY <2>3, <2>4, <2>5, <2>6, <2>7, <2>8 DEF Distinct
  <2>10. iter = None /\ missed = {} /\ returned = <<>>
    BY DEF NetInit
  <2>11. returned \in Seq(AccessPoints \cup {None}) /\ DOMAIN returned = {}
    BY <2>10
  <2> QED
    BY <2>7, <2>9, <2>10, <2>11 DEF ApInv, ApTypes, IterInv, EachApOnce
<1>2. ASSUME ApInv, [NetNext]_netVars PROVE ApInv'
  <2>1. CASE AddAp \/ DelAp \/ GetAp
    BY <1>2, <2>1, AddApKeeps, DelApKeeps, GetApKeeps
  <2>2. CASE UNCHANGED apVars
    BY <1>2, <2>2 DEF apVars, ApInv, ApTypes, IterInv, EachApOnce
  <2> QED
    BY <1>2, <2>1, <2>2 DEF NetNext, netVars, AddConnection, DelConnection, OnConnect, OnDisconnect,
      Task, Tell, Told, TaskFrame, Connect, Caller, AddWaiter, StartAttempt, Wait, DelWaiter,
      ConnectFails, CallerFrame, apVars
<1> QED
  BY <1>1, <1>2, PTL DEF NetSpec

-----------------------------------------------------------------------------
(* The observers.  A visit of them holds con_mutex, so that the list is    *)
(* the one it began with until it ends.                                    *)

VisitTypes ==
  /\ connections \in Seq(Observers \cup {Waiter}) /\ Distinct(connections)
  /\ up \in BOOLEAN
  /\ task.tells \in {"nothing", "connect", "disconnect"}
  /\ task = [tells |-> task.tells, todo |-> task.todo]
  /\ task.todo \in Seq(Observers \cup {Waiter})
  /\ told \in [Observers -> BOOLEAN]
  /\ caller = [at |-> caller.at, todo |-> caller.todo]

\* Whom the visit has passed, it has told; what it tells of a connection is the case.
VisitInv ==
  /\ task.tells = "nothing" => task.todo = <<>>
  /\ ToSet(task.todo) \subseteq ToSet(connections)
  /\ Waiter \in ToSet(connections) => caller.at \in {"start", "wait", "stop", "remove"}
  /\ task.tells = "connect" => up
  /\ task.tells # "nothing" =>
       \A o \in (ToSet(connections) \ ToSet(task.todo)) \cap Observers :
         told[o] = (task.tells = "connect")

ConInv == VisitTypes /\ VisitInv /\ ObserversAgree

LEMMA HeadFacts ==
  ASSUME NEW S, NEW q \in Seq(S), q # <<>>
  PROVE  Head(q) \in S /\ Tail(q) \in Seq(S) /\ ToSet(q) = {Head(q)} \cup ToSet(Tail(q))
<1>1. /\ Head(q) \in S /\ Tail(q) \in Seq(S) /\ Len(Tail(q)) = Len(q) - 1 /\ Head(q) = q[1]
      /\ \A i \in 1 .. Len(Tail(q)) : Tail(q)[i] = q[i + 1]
  BY HeadTailProperties
<1>2. Len(q) \in Nat \ {0} /\ DOMAIN q = 1 .. Len(q) /\ DOMAIN Tail(q) = 1 .. Len(q) - 1
  BY <1>1, EmptySeq, LenProperties
<1>3. \A i \in 1 .. Len(q) : i = 1 \/ (i - 1 \in 1 .. Len(q) - 1 /\ q[i] = Tail(q)[i - 1])
  BY <1>1, <1>2
<1>4. \A i \in 1 .. Len(q) - 1 : i + 1 \in 1 .. Len(q) /\ Tail(q)[i] = q[i + 1]
  BY <1>1, <1>2
<1>5. 1 \in 1 .. Len(q)
  BY <1>2
<1>6. ToSet(q) \subseteq {Head(q)} \cup ToSet(Tail(q))
  <2> SUFFICES ASSUME NEW i \in 1 .. Len(q), q[i] # Head(q) PROVE q[i] \in ToSet(Tail(q))
    BY <1>2 DEF ToSet
  <2>1. i - 1 \in DOMAIN Tail(q) /\ q[i] = Tail(q)[i - 1]
    BY <1>1, <1>2, <1>3
  <2> QED
    BY <2>1 DEF ToSet
<1>7. ToSet(Tail(q)) \subseteq ToSet(q)
  BY <1>2, <1>4 DEF ToSet
<1>8. Head(q) \in ToSet(q)
  BY <1>1, <1>2, <1>5 DEF ToSet
<1> QED
  BY <1>1, <1>6, <1>7, <1>8

\* Observers and waiters come and go between two visits.
LEMMA ListKeeps ==
  ASSUME NetworkAssumption, ConInv, AddConnection \/ DelConnection \/ AddWaiter \/ DelWaiter
  PROVE  ConInv'
<1> USE DEF ConInv
<1>1. /\ task.tells = "nothing" /\ task.todo = <<>> /\ task' = task /\ up' = up
      /\ ToSet(task.todo) = {}
  BY DEF AddConnection, DelConnection, AddWaiter, DelWaiter, ConMutexFree, CallerFrame, VisitInv, ToSet
<1>2. connections \in Seq(Observers \cup {Waiter}) /\ Distinct(connections)
      /\ told \in [Observers -> BOOLEAN] /\ caller = [at |-> caller.at, todo |-> caller.todo]
  BY DEF VisitTypes
<1>3. \A o \in ToSet(connections) \cap Observers : told[o] = up
  BY <1>1 DEF ObserversAgree, ConMutexFree
<1>4. Waiter \notin Observers
  BY DEF NetworkAssumption
<1>5. ASSUME connections' \in Seq(Observers \cup {Waiter}), Distinct(connections'),
             told' \in [Observers -> BOOLEAN], caller' = [at |-> caller'.at, todo |-> caller'.todo],
             Waiter \in ToSet(connections') => caller'.at \in {"start", "wait", "stop", "remove"},
             \A o \in ToSet(connections') \cap Observers : told'[o] = up
      PROVE  ConInv'
  <2>1. VisitTypes'
    BY <1>1, <1>5 DEF VisitTypes
  <2>2. VisitInv'
    BY <1>1, <1>5 DEF VisitInv
  <2>3. ObserversAgree'
    BY <1>1, <1>5 DEF ObserversAgree
  <2> QED
    BY <2>1, <2>2, <2>3
<1>6. CASE AddConnection
  <2>1. PICK o \in Observers \ ToSet(connections) :
          connections' = <<o>> \o connections /\ told' = [told EXCEPT ![o] = up]
    BY <1>6 DEF AddConnection
  <2>2. connections' \in Seq(Observers \cup {Waiter}) /\ Distinct(connections')
        /\ ToSet(connections') = ToSet(connections) \cup {o}
    BY <1>2, <2>1, PushFacts
  <2>3. caller' = caller
    BY <1>6 DEF AddConnection, waitVars
  <2>4. told' \in [Observers -> BOOLEAN]
    BY <1>2, <2>1 DEF VisitTypes
  <2>5. \A p \in ToSet(connections') \cap Observers : told'[p] = up
    BY <1>2, <1>3, <2>1, <2>2
  <2>6. Waiter \in ToSet(connections') => caller'.at \in {"start", "wait", "stop", "remove"}
    BY <1>4, <2>1, <2>2, <2>3 DEF VisitInv
  <2> QED
    BY <1>2, <1>5, <2>2, <2>3, <2>4, <2>5, <2>6
<1>7. CASE DelConnection
  <2>1. PICK o \in Observers \cap ToSet(connections) : connections' = RemoveFirst(connections, o)
    BY <1>7 DEF DelConnection
  <2>2. connections' \in Seq(Observers \cup {Waiter}) /\ Distinct(connections')
        /\ ToSet(connections') = ToSet(connections) \ {o}
    BY <1>2, <2>1, RemoveFirstFacts
  <2>3. caller' = caller /\ told' = told
    BY <1>7 DEF DelConnection, waitVars
  <2> QED
    BY <1>2, <1>3, <1>5, <2>2, <2>3 DEF VisitInv
<1>8. CASE AddWaiter
  <2>1. /\ caller.at = "next" /\ connections' = <<Waiter>> \o connections /\ told' = told
        /\ caller' = [caller EXCEPT !.at = "start"]
    BY <1>8 DEF AddWaiter, CallerFrame
  <2>2. Waiter \notin ToSet(connections)
    BY <2>1 DEF VisitInv
  <2>3. connections' \in Seq(Observers \cup {Waiter}) /\ Distinct(connections')
        /\ ToSet(connections') = ToSet(connections) \cup {Waiter}
    BY <1>2, <2>1, <2>2, PushFacts
  <2>4. caller'.at = "start" /\ caller' = [at |-> caller'.at, todo |-> caller'.todo]
    BY <1>2, <2>1
  <2> QED
    BY <1>2, <1>3, <1>4, <1>5, <2>1, <2>3, <2>4
<1>9. CASE DelWaiter
  <2>1. /\ connections' = RemoveFirst(connections, Waiter) /\ told' = told
        /\ caller' = IF caller.at = "stop" THEN [at |-> "idle", todo |-> <<>>]
                     ELSE [at |-> "next", todo |-> Tail(caller.todo)]
    BY <1>9 DEF DelWaiter, CallerFrame
  <2>2. connections' \in Seq(Observers \cup {Waiter}) /\ Distinct(connections')
        /\ ToSet(connections') = ToSet(connections) \ {Waiter}
    BY <1>2, <2>1, RemoveFirstFacts
  <2>3. caller' = [at |-> caller'.at, todo |-> caller'.todo]
    BY <2>1
  <2> QED
    BY <1>2, <1>3, <1>5, <2>1, <2>2, <2>3
<1> QED
  BY <1>6, <1>7, <1>8, <1>9

\* The steps of the visit.
LEMMA VisitKeeps ==
  ASSUME NetworkAssumption, ConInv, OnConnect \/ OnDisconnect \/ Tell \/ Told
  PROVE  ConInv'
<1> USE DEF ConInv
<1>1. UNCHANGED <<connections, caller>>
  BY DEF OnConnect, OnDisconnect, Tell, Told, TaskFrame
<1>2. CASE OnConnect \/ OnDisconnect
  <2>1. /\ told' = told /\ up' \in BOOLEAN
        /\ task' = [tells |-> task'.tells, todo |-> connections]
        /\ task'.tells \in {"connect", "disconnect"}
        /\ task'.tells = "connect" => up'
    <3>1. CASE OnConnect
      BY <3>1 DEF OnConnect
    <3>2. CASE OnDisconnect
      <4>1. up' = up /\ told' = told /\ task' = [tells |-> "disconnect", todo |-> connections]
        BY <3>2 DEF OnDisconnect
      <4> QED
        BY <4>1 DEF VisitTypes
    <3> QED
      BY <1>2, <3>1, <3>2
  <2>2. VisitTypes'
    BY <1>1, <2>1 DEF VisitTypes
  <2>3. VisitInv'
    BY <1>1, <2>1 DEF VisitInv
  <2>4. ObserversAgree'
    BY <2>1 DEF ObserversAgree, ConMutexFree
  <2> QED
    BY <2>2, <2>3, <2>4
<1>3. CASE Tell
  <2>1. /\ task.todo # <<>> /\ up' = up
        /\ task' = [task EXCEPT !.todo = Tail(task.todo)]
        /\ IF Head(task.todo) = Waiter THEN told' = told
           ELSE told' = [told EXCEPT ![Head(task.todo)] = task.tells = "connect"]
    BY <1>3 DEF Tell
  <2>2. /\ Head(task.todo) \in Observers \cup {Waiter} /\ Tail(task.todo) \in Seq(Observers \cup {Waiter})
        /\ ToSet(task.todo) = {Head(task.todo)} \cup ToSet(Tail(task.todo))
    BY <2>1, HeadFacts DEF VisitTypes
  <2>3. /\ task'.tells = task.tells /\ task'.todo = Tail(task.todo)
        /\ task' = [tells |-> task'.tells, todo |-> task'.todo] /\ task.tells # "nothing"
    BY <2>1 DEF VisitTypes, VisitInv
  <2>4. told' \in [Observers -> BOOLEAN]
    BY <2>1 DEF VisitTypes
  <2>5. VisitTypes'
    BY <1>1, <2>1, <2>2, <2>3, <2>4 DEF VisitTypes
  <2>6. ASSUME NEW o \in (ToSet(connections) \ ToSet(Tail(task.todo))) \cap Observers
        PROVE  told'[o] = (task.tells = "connect")
    <3>1. o # Waiter
      BY DEF NetworkAssumption
    <3>2. CASE o = Head(task.todo)
      BY <2>1, <3>1, <3>2 DEF VisitTypes
    <3>3. CASE o # Head(task.todo)
      <4>1. told[o] = (task.tells = "connect")
        BY <2>2, <2>3, <3>3 DEF VisitInv
      <4> QED
        BY <2>1, <3>3, <4>1 DEF VisitTypes
    <3> QED
      BY <3>2, <3>3
  <2>7. VisitInv'
    BY <1>1, <2>1, <2>2, <2>3, <2>6 DEF VisitInv
  <2>8. ObserversAgree'
    BY <2>3 DEF ObserversAgree, ConMutexFree
  <2> QED
    BY <2>5, <2>7, <2>8
<1>4. CASE Told
  <2>1. /\ task.tells # "nothing" /\ task.todo = <<>> /\ told' = told
        /\ up' = IF task.tells = "disconnect" THEN FALSE ELSE up
        /\ task' = [task EXCEPT !.tells = "nothing"]
    BY <1>4 DEF Told
  <2>2. /\ task'.tells = "nothing" /\ task'.todo = <<>> /\ ToSet(task.todo) = {}
        /\ task' = [tells |-> task'.tells, todo |-> task'.todo]
    BY <2>1 DEF VisitTypes, ToSet
  <2>3. up' = (task.tells = "connect")
    BY <2>1 DEF VisitTypes, VisitInv
  <2>4. VisitTypes'
    BY <1>1, <2>1, <2>2, <2>3 DEF VisitTypes
  <2>5. VisitInv'
    BY <1>1, <2>1, <2>2 DEF VisitInv
  <2>6. ObserversAgree'
    BY <1>1, <2>1, <2>2, <2>3 DEF ObserversAgree, VisitInv
  <2> QED
    BY <2>4, <2>5, <2>6
<1> QED
  BY <1>2, <1>3, <1>4

LEMMA ConInvariant == ASSUME NetworkAssumption PROVE NetSpec => []ConInv
<1>1. NetInit => ConInv
  <2> SUFFICES ASSUME NetInit PROVE ConInv
    OBVIOUS
  <2>1. /\ connections = <<>> /\ <<>> \in Seq(Observers \cup {Waiter}) /\ Distinct(<<>>) /\ ToSet(<<>>) = {}
        /\ up = FALSE /\ task = [tells |-> "nothing", todo |-> <<>>]
        /\ told \in [Observers -> BOOLEAN] /\ caller = [at |-> "idle", todo |-> <<>>]
    BY EmptySeq DEF NetInit, Distinct, ToSet
  <2> QED
    BY <2>1 DEF ConInv, VisitTypes, VisitInv, ObserversAgree
<1>2. ASSUME ConInv, [NetNext]_netVars PROVE ConInv'
  <2>1. CASE AddConnection \/ DelConnection \/ AddWaiter \/ DelWaiter
    BY <1>2, <2>1, ListKeeps
  <2>2. CASE OnConnect \/ OnDisconnect \/ Tell \/ Told
    BY <1>2, <2>2, VisitKeeps
  <2>3. CASE Connect \/ StartAttempt \/ Wait \/ ConnectFails
    <3>1. /\ UNCHANGED <<connections, up, task, told>>
          /\ caller' = [at |-> caller'.at, todo |-> caller'.todo]
          /\ \/ caller'.at \in {"start", "wait", "stop", "remove"}
             \/ caller.at \notin {"start", "wait", "stop", "remove"}
      BY <1>2, <2>3 DEF Connect, StartAttempt, Wait, ConnectFails, CallerFrame, ConInv, VisitTypes
    <3> QED
      BY <1>2, <3>1 DEF ConInv, VisitTypes, VisitInv, ObserversAgree, ConMutexFree
  <2>4. CASE UNCHANGED <<obsVars, up, task, waitVars>>
    BY <1>2, <2>4 DEF obsVars, waitVars, ConInv, VisitTypes, VisitInv, ObserversAgree, ConMutexFree
  <2> QED
    BY <1>2, <2>1, <2>2, <2>3, <2>4 DEF NetNext, netVars, Task, Caller, AddAp, DelAp, GetAp, ApFrame
<1> QED
  BY <1>1, <1>2, PTL DEF NetSpec

\* The waiter, on the stack of do_connect(), is in the list or in the part a visit has yet
\* to call only while that runs; when nothing is being told, what each observer was told
\* last is the state of the interface; and an iteration that has come to its end has
\* returned each access point once, apart from those added or deleted meanwhile
\* (src/network.cpp:213-254, src/esp32/network.cpp:95-112).
THEOREM NetworkSound == ASSUME NetworkAssumption PROVE NetSpec => []NetworkIsSound
<1>1. ApInv /\ ConInv => NetworkIsSound
  BY DEF ApInv, ConInv, VisitInv, ObserversAgree, WaiterAlive, NetworkIsSound
<1> QED
  BY <1>1, ApInvariant, ConInvariant, PTL

-----------------------------------------------------------------------------
(* The registry of objects.  The newest object of a name is found, and a   *)
(* device is found exactly when its init function made and registered it.  *)

Entries == [name : AppDevices \cup OwnNames, obj : AppDevices \cup OwnObjects]

\* The place of the first object of a name, or 0.
FirstOf(list, n, i) ==
  \/ i = 0 /\ \A j \in 1 .. Len(list) : list[j].name # n
  \/ i \in 1 .. Len(list) /\ list[i].name = n /\ \A j \in 1 .. i - 1 : list[j].name # n

LEMMA FoundIs ==
  ASSUME NEW list \in Seq(Entries), NEW n
  PROVE  /\ FirstOf(list, n, Found(list, n))
         /\ \A i \in Nat : FirstOf(list, n, i) => i = Found(list, n)
<1> DEFINE I == {i \in 1 .. Len(list) : list[i].name = n}
<1>1. Found(list, n) = IF I # {} THEN Min(I) ELSE 0
  BY DEF Found, SelectInSeq
<1>2. I \subseteq Nat /\ Len(list) \in Nat
  BY LenProperties
<1>3. I # {} => Min(I) \in I /\ \A i \in I : Min(I) <= i
  BY <1>2, MinFact
<1>4. FirstOf(list, n, Found(list, n))
  <2>1. CASE I = {}
    BY <1>1, <2>1 DEF FirstOf
  <2>2. CASE I # {}
    <3>1. Found(list, n) = Min(I) /\ Min(I) \in 1 .. Len(list) /\ list[Min(I)].name = n
      BY <1>1, <1>3, <2>2
    <3>2. ASSUME NEW j \in 1 .. Min(I) - 1 PROVE list[j].name # n
      <4>1. j \notin I
        BY <1>2, <1>3, <2>2, <3>1
      <4>2. j \in 1 .. Len(list)
        BY <1>2, <3>1
      <4> QED
        BY <4>1, <4>2
    <3> HIDE DEF I
    <3> QED
      BY <3>1, <3>2 DEF FirstOf
  <2> QED
    BY <2>1, <2>2
<1> HIDE DEF I
<1>5. ASSUME NEW i \in Nat, FirstOf(list, n, i) PROVE i = Found(list, n)
  <2>1. Found(list, n) \in Nat
    BY <1>2, <1>4 DEF FirstOf
  <2>2. PICK k \in Nat : k = Found(list, n)
    BY <2>1
  <2> QED
    BY <1>2, <1>4, <1>5, <2>2 DEF FirstOf
<1> QED
  BY <1>4, <1>5

LEMMA GetIs ==
  ASSUME NEW list \in Seq(Entries), NEW n, NEW i \in Nat, FirstOf(list, n, i)
  PROVE  get_object(list, n) = IF i = 0 THEN NoObject ELSE list[i].obj
<1>1. i = Found(list, n)
  BY FoundIs
<1> QED
  BY <1>1 DEF get_object

LEMMA GetAdded ==
  ASSUME NEW list \in Seq(Entries), NEW n \in AppDevices \cup OwnNames, NEW o \in AppDevices \cup OwnObjects
  PROVE  /\ Add(list, n, o) \in Seq(Entries)
         /\ get_object(Add(list, n, o), n) = o
         /\ \A m : m # n => get_object(Add(list, n, o), m) = get_object(list, m)
<1> DEFINE e == [name |-> n, obj |-> o]
           new == Add(list, n, o)
<1>1. e \in Entries /\ e.name = n /\ e.obj = o
  BY DEF Entries
<1> HIDE DEF e
<1>2. new = <<e>> \o list
  BY DEF Add, e
<1>3. <<e>> \in Seq(Entries) /\ Len(<<e>>) = 1 /\ <<e>>[1] = e
  BY <1>1
<1>4. /\ new \in Seq(Entries) /\ Len(new) = 1 + Len(list)
      /\ \A j \in 1 .. 1 + Len(list) : new[j] = IF j <= 1 THEN <<e>>[j] ELSE list[j - 1]
  BY <1>2, <1>3, ConcatProperties
<1>5. Len(list) \in Nat
  BY LenProperties
<1> HIDE DEF new
<1>6. \A j \in 1 .. 1 + Len(list) : new[j] = IF j = 1 THEN e ELSE list[j - 1]
  BY <1>3, <1>4
<1>7. get_object(new, n) = o
  <2>1. PICK k \in Nat : k = 1
    OBVIOUS
  <2>2. k \in 1 .. Len(new) /\ new[k].name = n /\ new[k].obj = o
    BY <1>1, <1>4, <1>5, <1>6, <2>1
  <2>3. FirstOf(new, n, k)
    BY <2>1, <2>2 DEF FirstOf
  <2>4. get_object(new, n) = IF k = 0 THEN NoObject ELSE new[k].obj
    BY <1>4, <2>3, GetIs
  <2> QED
    BY <2>1, <2>2, <2>4
<1>8. ASSUME NEW m, m # n PROVE get_object(new, m) = get_object(list, m)
  <2>1. PICK i : i = Found(list, m)
    OBVIOUS
  <2>2. FirstOf(list, m, i)
    BY <2>1, FoundIs
  <2>3. get_object(list, m) = IF i = 0 THEN NoObject ELSE list[i].obj
    BY <2>1 DEF get_object
  <2>4. CASE i = 0
    <3>1. \A j \in 1 .. Len(new) : new[j].name # m
      <4> SUFFICES ASSUME NEW j \in 1 .. Len(new) PROVE new[j].name # m
        OBVIOUS
      <4>1. CASE j = 1
        BY <1>1, <1>4, <1>6, <1>8, <4>1
      <4>2. CASE j # 1
        <5>1. j - 1 \in 1 .. Len(list) /\ j \in 1 .. 1 + Len(list)
          BY <1>4, <1>5, <4>2
        <5>2. new[j] = list[j - 1]
          BY <1>6, <4>2, <5>1
        <5> QED
          BY <2>2, <2>4, <5>1, <5>2 DEF FirstOf
      <4> QED
        BY <4>1, <4>2
    <3>2. PICK k \in Nat : k = 0
      OBVIOUS
    <3>3. FirstOf(new, m, k)
      BY <3>1, <3>2 DEF FirstOf
    <3>4. get_object(new, m) = IF k = 0 THEN NoObject ELSE new[k].obj
      BY <1>4, <3>3, GetIs
    <3> QED
      BY <2>3, <2>4, <3>2, <3>4
  <2>5. CASE i # 0
    <3>1. i \in 1 .. Len(list) /\ list[i].name = m /\ \A j \in 1 .. i - 1 : list[j].name # m
      BY <2>2, <2>5 DEF FirstOf
    <3>2. i + 1 \in 1 .. Len(new) /\ new[i + 1] = list[i]
      BY <1>4, <1>5, <1>6, <3>1
    <3>3. ASSUME NEW j \in 1 .. (i + 1) - 1 PROVE new[j].name # m
      <4>1. CASE j = 1
        BY <1>1, <1>4, <1>5, <1>6, <1>8, <4>1
      <4>2. CASE j # 1
        <5>1. j - 1 \in 1 .. i - 1 /\ j \in 1 .. 1 + Len(list)
          BY <1>5, <3>1, <4>2
        <5>2. new[j] = list[j - 1]
          BY <1>6, <4>2, <5>1
        <5> QED
          BY <3>1, <5>1, <5>2
      <4> QED
        BY <4>1, <4>2
    <3>4. FirstOf(new, m, i + 1) /\ i + 1 \in Nat /\ i + 1 # 0
      BY <1>5, <3>1, <3>2, <3>3 DEF FirstOf
    <3>5. get_object(new, m) = IF i + 1 = 0 THEN NoObject ELSE new[i + 1].obj
      BY <1>4, <3>4, GetIs
    <3> QED
      BY <2>3, <2>5, <3>2, <3>4, <3>5
  <2> QED
    BY <2>4, <2>5
<1> QED
  BY <1>4, <1>7, <1>8 DEF new

LEMMA GetOther ==
  ASSUME NEW list \in Seq(Entries), NEW n \in AppDevices \cup OwnNames, NEW o \in AppDevices \cup OwnObjects,
         NEW new, new = Add(list, n, o), NEW m, m # n
  PROVE  new \in Seq(Entries) /\ get_object(new, m) = get_object(list, m)
  BY GetAdded

LEMMA GetRemoved ==
  ASSUME NEW list \in Seq(Entries), NEW n
  PROVE  /\ Removed(list, n) \in Seq(Entries)
         /\ \A m : m # n => get_object(Removed(list, n), m) = get_object(list, m)
<1> DEFINE new == Removed(list, n)
<1>1. PICK k : k = Found(list, n)
  OBVIOUS
<1>2. FirstOf(list, n, k)
  BY <1>1, FoundIs
<1>3. Len(list) \in Nat
  BY LenProperties
<1>4. CASE k = 0
  BY <1>1, <1>4 DEF Removed
<1>5. CASE k # 0
  <2>1. k \in 1 .. Len(list) /\ list[k].name = n
    BY <1>2, <1>5 DEF FirstOf
  <2>2. new = RemoveAt(list, k)
    BY <1>1, <1>5 DEF Removed
  <2> HIDE DEF new
  <2>3. /\ new \in Seq(Entries) /\ Len(new) = Len(list) - 1
        /\ \A j \in 1 .. Len(list) - 1 : new[j] = IF j < k THEN list[j] ELSE list[j + 1]
    BY <2>1, <2>2, RemoveAtFacts
  <2>4. ASSUME NEW m, m # n PROVE get_object(new, m) = get_object(list, m)
    <3>1. PICK i : i = Found(list, m)
      OBVIOUS
    <3>2. FirstOf(list, m, i)
      BY <3>1, FoundIs
    <3>3. get_object(list, m) = IF i = 0 THEN NoObject ELSE list[i].obj
      BY <3>1 DEF get_object
    <3>4. CASE i = 0
      <4>1. ASSUME NEW j \in 1 .. Len(new) PROVE new[j].name # m
        <5>1. new[j] = IF j < k THEN list[j] ELSE list[j + 1]
          BY <1>3, <2>1, <2>3
        <5>2. j \in 1 .. Len(list) /\ j + 1 \in 1 .. Len(list)
          BY <1>3, <2>1, <2>3
        <5>3. list[j].name # m /\ list[j + 1].name # m
          BY <3>2, <3>4, <5>2 DEF FirstOf
        <5> QED
          BY <5>1, <5>3
      <4>2. PICK l \in Nat : l = 0
        OBVIOUS
      <4>3. FirstOf(new, m, l)
        BY <4>1, <4>2 DEF FirstOf
      <4>4. get_object(new, m) = IF l = 0 THEN NoObject ELSE new[l].obj
        BY <2>3, <4>3, GetIs
      <4> QED
        BY <3>3, <3>4, <4>2, <4>4
    <3>5. CASE i # 0
      <4>1. i \in 1 .. Len(list) /\ list[i].name = m /\ \A j \in 1 .. i - 1 : list[j].name # m
        BY <3>2, <3>5 DEF FirstOf
      <4>2. i # k
        BY <2>1, <2>4, <4>1
      <4>3. PICK l \in Nat : l = IF i < k THEN i ELSE i - 1
        BY <1>3, <4>1
      <4>4. l \in 1 .. Len(new) /\ new[l] = list[i]
        <5>1. l \in 1 .. Len(list) - 1
          BY <1>3, <2>1, <4>1, <4>2, <4>3
        <5>2. CASE i < k
          BY <2>3, <4>3, <5>1, <5>2
        <5>3. CASE ~(i < k)
          <6>1. l = i - 1 /\ ~(l < k) /\ l + 1 = i
            BY <1>3, <2>1, <4>1, <4>2, <4>3, <5>3
          <6> QED
            BY <2>3, <5>1, <6>1
        <5> QED
          BY <5>2, <5>3
      <4>5. ASSUME NEW j \in 1 .. l - 1 PROVE new[j].name # m
        <5>1. j \in 1 .. Len(list) - 1 /\ j \in 1 .. i - 1
          BY <1>3, <2>1, <2>3, <4>1, <4>3, <4>4
        <5>2. CASE j < k
          BY <2>3, <4>1, <5>1, <5>2
        <5>3. CASE ~(j < k)
          <6>1. j + 1 \in 1 .. i - 1
            BY <1>3, <2>1, <4>1, <4>3, <5>3
          <6> QED
            BY <2>3, <4>1, <5>1, <5>3, <6>1
        <5> QED
          BY <5>2, <5>3
      <4>6. FirstOf(new, m, l) /\ l # 0
        BY <1>3, <2>1, <4>1, <4>3, <4>4, <4>5 DEF FirstOf
      <4>7. get_object(new, m) = IF l = 0 THEN NoObject ELSE new[l].obj
        BY <2>3, <4>6, GetIs
      <4> QED
        BY <3>3, <3>5, <4>4, <4>6, <4>7
    <3> QED
      BY <3>4, <3>5
  <2> QED
    BY <2>3, <2>4 DEF new
<1> QED
  BY <1>4, <1>5

Listed(d) == status[d] = "made" /\ d \notin Hidden /\ Kind[d] # "reset"

ObjInv ==
  /\ status \in [AppDevices -> {"todo", "made", "failed"}]
  /\ used \in [AppDevices -> SUBSET AppDevices]
  /\ objects \in Seq(Entries)
  /\ \A d \in AppDevices : \A e \in used[d] : status[e] = "made"
  /\ \A d \in AppDevices : get_object(objects, d) = IF Listed(d) THEN d ELSE NoObject
  /\ app = "init" => get_object(objects, "cli_commands") = "commands"
  /\ server # "asserted"

\* What a part of the needs is, and what is found of it.
LEMMA PartIs ==
  ASSUME ObjectsAssumption, NEW d \in AppDevices, NEW part, find_has(d, part) # NoObject
  PROVE  find_has(d, part) \in AppDevices /\ \E i \in DOMAIN Needs[d] : Needs[d][i] = find_has(d, part)
<1> DEFINE I == {i \in 1 .. Len(Needs[d]) : part \in Parts[Needs[d][i]]}
<1>1. find_has(d, part) = LET i == IF I # {} THEN Min(I) ELSE 0
                          IN IF i = 0 THEN NoObject ELSE Needs[d][i]
  BY DEF find_has, SelectInSeq
<1>2. Needs[d] \in Seq(AppDevices)
  BY DEF ObjectsAssumption
<1>3. I \subseteq Nat /\ DOMAIN Needs[d] = 1 .. Len(Needs[d])
  BY <1>2, LenProperties
<1>4. I # {} /\ find_has(d, part) = Needs[d][Min(I)]
  BY <1>1
<1>5. Min(I) \in I
  BY <1>3, <1>4, MinFact
<1>6. PICK i : i = Min(I)
  OBVIOUS
<1>7. i \in 1 .. Len(Needs[d]) /\ find_has(d, part) = Needs[d][i]
  BY <1>4, <1>5, <1>6
<1> QED
  BY <1>2, <1>3, <1>7, ElementOfSeq

LEMMA OfferIsMade ==
  ASSUME ObjInv, NEW d \in AppDevices, Ready(d), NEW i \in DOMAIN Needs[d],
         NEW e, e = Needs[d][i], Offers(e)
  PROVE  get_object(objects, e) = e /\ status[e] = "made"
<1>1. e \in AppDevices \ MayFail /\ e \notin Hidden /\ Kind[e] # "reset"
  BY DEF Offers
<1>2. status[e] # "failed" /\ status[e] # "todo" /\ status[e] \in {"todo", "made", "failed"}
  BY <1>1 DEF Ready, ObjInv
<1>3. status[e] = "made"
  BY <1>2
<1> QED
  BY <1>1, <1>3 DEF ObjInv, Listed

LEMMA PartFound ==
  ASSUME ObjectsAssumption, ObjInv, NEW d \in AppDevices, Ready(d), NEW part
  PROVE  /\ GetPart(d, part) # NoObject => GetPart(d, part) \in AppDevices /\ status[GetPart(d, part)] = "made"
         /\ find_has(d, part) # NoObject /\ Offers(find_has(d, part)) => GetPart(d, part) # NoObject
<1>1. PICK e : e = find_has(d, part)
  OBVIOUS
<1>2. CASE e = NoObject
  BY <1>1, <1>2 DEF GetPart
<1>3. CASE e # NoObject
  <2>1. e \in AppDevices /\ GetPart(d, part) = get_object(objects, e)
    BY <1>1, <1>3, PartIs DEF GetPart
  <2>2. PICK i \in DOMAIN Needs[d] : e = Needs[d][i]
    BY <1>1, <1>3, PartIs
  <2>3. get_object(objects, e) = IF Listed(e) THEN e ELSE NoObject
    BY <2>1 DEF ObjInv
  <2>4. Offers(e) => get_object(objects, e) = e
    BY <2>2, OfferIsMade
  <2>5. e # NoObject
    BY <1>3
  <2> QED
    BY <1>1, <2>1, <2>3, <2>4, <2>5 DEF Listed
<1> QED
  BY <1>2, <1>3

LEMMA MadeKeeps ==
  ASSUME ObjectsAssumption, ObjInv, NEW d \in AppDevices, Ready(d), Kind[d] # "reset",
         NEW with \in SUBSET AppDevices, \A e \in with : status[e] = "made", Made(d, with)
  PROVE  ObjInv'
<1>1. /\ status' = [status EXCEPT ![d] = "made"] /\ used' = [used EXCEPT ![d] = with]
      /\ app' = app /\ server' = server /\ app = "boot" /\ status[d] = "todo"
  BY DEF Made, Ready
<1>2. /\ status' \in [AppDevices -> {"todo", "made", "failed"}]
      /\ used' \in [AppDevices -> SUBSET AppDevices]
      /\ \A e \in AppDevices : status'[e] = IF e = d THEN "made" ELSE status[e]
      /\ \A e \in AppDevices : used'[e] = IF e = d THEN with ELSE used[e]
  BY <1>1 DEF ObjInv
<1>3. \A c \in AppDevices : \A e \in used'[c] : status'[e] = "made"
  BY <1>1, <1>2 DEF ObjInv
<1>4. objects' \in Seq(Entries)
  BY GetAdded DEF ObjInv, Made
<1>5. ASSUME NEW e \in AppDevices PROVE get_object(objects', e) = IF Listed(e)' THEN e ELSE NoObject
  <2>1. CASE e # d
    <3>1. get_object(objects', e) = get_object(objects, e)
      <4>1. objects \in Seq(Entries) /\ d \in AppDevices \cup OwnNames /\ d \in AppDevices \cup OwnObjects
        BY DEF ObjInv
      <4>2. PICK l : l = Add(objects, d, d)
        OBVIOUS
      <4>3. get_object(l, e) = get_object(objects, e)
        BY <2>1, <4>1, <4>2, GetOther
      <4>4. objects' = objects \/ objects' = l
        BY <4>2 DEF Made
      <4> QED
        BY <4>3, <4>4
    <3>2. get_object(objects, e) = IF Listed(e) THEN e ELSE NoObject
      BY DEF ObjInv
    <3>3. status'[e] = status[e]
      BY <1>2, <2>1
    <3> QED
      BY <3>1, <3>2, <3>3 DEF Listed
  <2>2. CASE e = d /\ d \in Hidden
    <3>1. get_object(objects, d) = NoObject
      BY <1>1 DEF ObjInv, Listed
    <3>2. objects' = objects
      BY <2>2 DEF Made
    <3> QED
      BY <2>2, <3>1, <3>2 DEF Listed
  <2>3. CASE e = d /\ d \notin Hidden
    <3>1. get_object(objects', d) = d
      BY <2>3, GetAdded DEF ObjInv, Made
    <3>2. status'[d] = "made"
      BY <1>2
    <3> QED
      BY <2>3, <3>1, <3>2 DEF Listed
  <2> QED
    BY <2>1, <2>2, <2>3
<1>6. app' # "init" /\ server' # "asserted"
  BY <1>1 DEF ObjInv
<1> QED
  BY <1>2, <1>3, <1>4, <1>5, <1>6 DEF ObjInv

LEMMA FailedKeeps ==
  ASSUME ObjInv, NEW d \in AppDevices, Ready(d), Result(d, "failed")
  PROVE  ObjInv'
<1>1. /\ status' = [status EXCEPT ![d] = "failed"] /\ UNCHANGED <<objects, used, app, server>>
      /\ status[d] = "todo"
  BY DEF Result, Ready
<1>2. /\ status' \in [AppDevices -> {"todo", "made", "failed"}]
      /\ \A e \in AppDevices : status'[e] = IF e = d THEN "failed" ELSE status[e]
  BY <1>1 DEF ObjInv
<1>3. \A c \in AppDevices : \A e \in used'[c] : status'[e] = "made"
  <2> SUFFICES ASSUME NEW c \in AppDevices, NEW e \in used[c] PROVE status'[e] = "made"
    BY <1>1
  <2>1. e \in AppDevices /\ status[e] = "made"
    BY DEF ObjInv
  <2> QED
    BY <1>1, <1>2, <2>1
<1>4. ASSUME NEW e \in AppDevices PROVE get_object(objects', e) = IF Listed(e)' THEN e ELSE NoObject
  <2>1. get_object(objects', e) = IF Listed(e) THEN e ELSE NoObject
    BY <1>1 DEF ObjInv
  <2>2. status'[e] = "made" <=> status[e] = "made"
    BY <1>1, <1>2
  <2> QED
    BY <2>1, <2>2 DEF Listed
<1> QED
  BY <1>1, <1>2, <1>3, <1>4 DEF ObjInv

\* The application registers something of its own.
LEMMA OwnAdded ==
  ASSUME NEW list \in Seq(Entries), NEW n \in OwnNames, NEW o \in OwnObjects, NEW new, new = Add(list, n, o)
  PROVE  /\ new \in Seq(Entries) /\ get_object(new, n) = o
         /\ \A c : c # n => get_object(new, c) = get_object(list, c)
<1>1. n \in AppDevices \cup OwnNames /\ o \in AppDevices \cup OwnObjects
  OBVIOUS
<1>2. new \in Seq(Entries) /\ get_object(new, n) = o
  BY <1>1, GetAdded
<1>3. ASSUME NEW c, c # n PROVE get_object(new, c) = get_object(list, c)
  BY <1>1, <1>3, GetOther
<1> QED
  BY <1>2, <1>3

\* Nothing of the devices changes but the registry, and no device is taken off.
LEMMA AppKeeps ==
  ASSUME ObjInv, UNCHANGED <<status, used>>, objects' \in Seq(Entries),
         \A d \in AppDevices : get_object(objects', d) = get_object(objects, d),
         app' = "init" => get_object(objects', "cli_commands") = "commands",
         server' # "asserted"
  PROVE  ObjInv'
<1>1. ASSUME NEW e \in AppDevices PROVE get_object(objects', e) = IF Listed(e)' THEN e ELSE NoObject
  BY DEF ObjInv, Listed
<1> QED
  BY <1>1 DEF ObjInv

LEMMA MakeKeeps == ASSUME ObjectsAssumption, ObjInv, NEW d \in AppDevices, make_init(d) \/ mqtt_init(d) PROVE ObjInv'
<1>1. Ready(d) /\ Kind[d] # "reset" /\ (Made(d, {}) \/ Result(d, "failed"))
  BY DEF make_init, mqtt_init
<1> QED
  BY <1>1, MadeKeeps, FailedKeeps

LEMMA ResetKeeps == ASSUME ObjectsAssumption, ObjInv, NEW d \in AppDevices, reset_init(d) PROVE ObjInv'
<1>1. PICK g : g = GetPart(d, "reset")
  OBVIOUS
<1>2. Ready(d) /\ Kind[d] = "reset" /\ Offered(d, "reset")
  BY DEF reset_init, ObjectsAssumption, TableIsWhole
<1>3. g # NoObject /\ g \in AppDevices /\ status[g] = "made"
  BY <1>1, <1>2, PartFound DEF Offered
<1>4. /\ status' = [status EXCEPT ![d] = "made"] /\ used' = [used EXCEPT ![d] = {g}]
      /\ UNCHANGED <<objects, app, server>> /\ status[d] = "todo"
  BY <1>1, <1>2, <1>3 DEF reset_init, Ready
<1>5. /\ status' \in [AppDevices -> {"todo", "made", "failed"}]
      /\ used' \in [AppDevices -> SUBSET AppDevices]
      /\ \A e \in AppDevices : status'[e] = IF e = d THEN "made" ELSE status[e]
      /\ \A e \in AppDevices : used'[e] = IF e = d THEN {g} ELSE used[e]
  BY <1>3, <1>4 DEF ObjInv
<1>6. \A c \in AppDevices : \A e \in used'[c] : status'[e] = "made"
  BY <1>3, <1>5 DEF ObjInv
<1>7. ASSUME NEW e \in AppDevices PROVE get_object(objects', e) = IF Listed(e)' THEN e ELSE NoObject
  <2>1. get_object(objects', e) = IF Listed(e) THEN e ELSE NoObject
    BY <1>4 DEF ObjInv
  <2>2. Listed(e)' <=> Listed(e)
    BY <1>2, <1>5 DEF Listed
  <2> QED
    BY <2>1, <2>2
<1> QED
  BY <1>4, <1>5, <1>6, <1>7 DEF ObjInv

LEMMA SevenSegKeeps == ASSUME ObjectsAssumption, ObjInv, NEW d \in AppDevices, seven_seg_init(d) PROVE ObjInv'
<1>1. Ready(d) /\ Kind[d] = "seven_seg"
  BY DEF seven_seg_init
<1>2. PICK e : e = "i2c"
  OBVIOUS
<1>3. Offers(e) /\ \E i \in DOMAIN Needs[d] : Needs[d][i] = e
  BY <1>1, <1>2 DEF ObjectsAssumption, TableIsWhole
<1>4. get_object(objects, e) = e /\ status[e] = "made"
  BY <1>1, <1>3, OfferIsMade
<1>5. e \in AppDevices /\ e # NoObject
  BY <1>3 DEF Offers, ObjectsAssumption
<1>6. Made(d, {e}) \/ Result(d, "failed")
  BY <1>2, <1>4, <1>5 DEF seven_seg_init
<1> QED
  BY <1>1, <1>4, <1>5, <1>6, MadeKeeps, FailedKeeps

LEMMA BusMadeKeeps == ASSUME ObjectsAssumption, ObjInv, NEW d \in AppDevices, i2c_bitbang_init(d) PROVE ObjInv'
<1>1. Ready(d) /\ Kind[d] = "i2c_bitbang" /\ Offered(d, "scl") /\ Offered(d, "sda")
  BY DEF i2c_bitbang_init, ObjectsAssumption, TableIsWhole
<1>2. PICK g, h : g = GetPart(d, "scl") /\ h = GetPart(d, "sda")
  OBVIOUS
<1>3. /\ g # NoObject /\ g \in AppDevices /\ status[g] = "made"
      /\ h # NoObject /\ h \in AppDevices /\ status[h] = "made"
  BY <1>1, <1>2, PartFound DEF Offered
<1>4. Made(d, {g, h})
  BY <1>1, <1>2, <1>3 DEF i2c_bitbang_init, Offered
<1> QED
  BY <1>1, <1>3, <1>4, MadeKeeps

LEMMA PortKeeps == ASSUME ObjectsAssumption, ObjInv, NEW d \in AppDevices, port_init(d) PROVE ObjInv'
<1>1. Ready(d) /\ Kind[d] = "port" /\ Offered(d, "i2c")
  BY DEF port_init, ObjectsAssumption, TableIsWhole
<1>2. PICK g : g = GetPart(d, "i2c")
  OBVIOUS
<1>3. g # NoObject /\ g \in AppDevices /\ status[g] = "made"
  BY <1>1, <1>2, PartFound DEF Offered
<1>4. Made(d, {g}) \/ Result(d, "failed")
  BY <1>2, <1>3 DEF port_init
<1> QED
  BY <1>1, <1>3, <1>4, MadeKeeps, FailedKeeps

LEMMA KeyboardKeeps == ASSUME ObjectsAssumption, ObjInv, NEW d \in AppDevices, keyboard_init(d) PROVE ObjInv'
<1>1. /\ Ready(d) /\ Kind[d] = "keyboard" /\ find_has(d, "port") # NoObject
      /\ find_has(d, "irq") # NoObject => Offers(find_has(d, "irq"))
  BY DEF keyboard_init, ObjectsAssumption, TableIsWhole
<1>2. PICK g, h : g = GetPart(d, "port") /\ h = GetPart(d, "irq")
  OBVIOUS
<1>3. /\ g # NoObject => g \in AppDevices /\ status[g] = "made"
      /\ h # NoObject => h \in AppDevices /\ status[h] = "made"
      /\ find_has(d, "irq") # NoObject => h # NoObject
  BY <1>1, <1>2, PartFound
<1>4. Result(d, "failed") \/ (g # NoObject /\ Made(d, {g, h} \ {NoObject}))
  BY <1>1, <1>2, <1>3 DEF keyboard_init
<1>5. {g, h} \ {NoObject} \in SUBSET AppDevices /\ \A e \in {g, h} \ {NoObject} : status[e] = "made"
  BY <1>3
<1> QED
  BY <1>1, <1>4, <1>5, MadeKeeps, FailedKeeps

LEMMA CliKeeps ==
  ASSUME ObjectsAssumption, ObjInv, StartCli \/ AddCommands \/ InitEvent \/ get_ip
  PROVE  ObjInv'
<1>1. objects \in Seq(Entries) /\ server # "asserted" /\ (app = "init" => get_object(objects, "cli_commands") = "commands")
  BY DEF ObjInv
<1>2. \A d \in AppDevices : d \notin OwnNames
  BY DEF ObjectsAssumption
<1>3. CASE StartCli
  <2>1. objects' = Add(objects, "cli_queue", "queue") /\ UNCHANGED <<status, used, server>> /\ app' = "cli"
    BY <1>3 DEF StartCli
  <2>2. objects' \in Seq(Entries) /\ \A m : m # "cli_queue" => get_object(objects', m) = get_object(objects, m)
    <3>1. PICK n, o : n = "cli_queue" /\ o = "queue"
      OBVIOUS
    <3>2. n \in OwnNames /\ o \in OwnObjects /\ objects' = Add(objects, n, o)
      BY <2>1, <3>1 DEF OwnNames, OwnObjects
    <3>3. objects' \in Seq(Entries) /\ \A m : m # n => get_object(objects', m) = get_object(objects, m)
      BY <1>1, <3>2, OwnAdded
    <3> QED
      BY <3>1, <3>3
  <2> QED
    BY <1>1, <1>2, <2>1, <2>2, AppKeeps DEF OwnNames
<1>4. CASE AddCommands
  <2>1. PICK l : l = Add(objects, "cli", "cli")
    OBVIOUS
  <2>2. objects' = Add(l, "cli_commands", "commands") /\ UNCHANGED <<status, used, server>>
    BY <1>4, <2>1 DEF AddCommands
  <2>3. l \in Seq(Entries) /\ \A m : m # "cli" => get_object(l, m) = get_object(objects, m)
    <3>1. PICK n, o : n = "cli" /\ o = "cli"
      OBVIOUS
    <3>2. n \in OwnNames /\ o \in OwnObjects /\ l = Add(objects, n, o)
      BY <2>1, <3>1 DEF OwnNames, OwnObjects
    <3>3. l \in Seq(Entries) /\ \A m : m # n => get_object(l, m) = get_object(objects, m)
      BY <1>1, <3>2, OwnAdded
    <3> QED
      BY <3>1, <3>3
  <2>4. /\ objects' \in Seq(Entries) /\ get_object(objects', "cli_commands") = "commands"
        /\ \A m : m # "cli_commands" => get_object(objects', m) = get_object(l, m)
    <3>1. PICK n, o : n = "cli_commands" /\ o = "commands"
      OBVIOUS
    <3>2. n \in OwnNames /\ o \in OwnObjects /\ objects' = Add(l, n, o)
      BY <2>2, <3>1 DEF OwnNames, OwnObjects
    <3>3. /\ objects' \in Seq(Entries) /\ get_object(objects', n) = o
          /\ \A m : m # n => get_object(objects', m) = get_object(l, m)
      BY <2>3, <3>2, OwnAdded
    <3> QED
      BY <3>1, <3>3
  <2>5. \A d \in AppDevices : get_object(objects', d) = get_object(objects, d)
    BY <1>2, <2>3, <2>4 DEF OwnNames
  <2> QED
    BY <1>1, <2>2, <2>4, <2>5, AppKeeps
<1>5. CASE InitEvent
  <2>1. UNCHANGED <<objects, status, used>> /\ app' = "loop"
    BY <1>5 DEF InitEvent
  <2>2. "commands" # NoObject
    BY DEF ObjectsAssumption, OwnObjects
  <2>3. server' # "asserted"
    BY <1>1, <1>5, <2>2 DEF InitEvent
  <2> QED
    BY <1>1, <2>1, <2>3, AppKeeps
<1>6. CASE get_ip
  <2>1. UNCHANGED <<objects, status, used, app>> /\ server' # "asserted"
    BY <1>6 DEF get_ip
  <2> QED
    BY <1>1, <2>1, AppKeeps
<1> QED
  BY <1>3, <1>4, <1>5, <1>6

LEMMA ServerKeeps ==
  ASSUME ObjectsAssumption, ObjInv, Serve \/ DeleteFactory \/ RemoveSocket
  PROVE  ObjInv'
<1>1. objects \in Seq(Entries) /\ server # "asserted" /\ (app = "init" => get_object(objects, "cli_commands") = "commands")
  BY DEF ObjInv
<1>2. UNCHANGED <<status, used, app>> /\ server' # "asserted"
  BY DEF Serve, DeleteFactory, RemoveSocket
<1>3. PICK n, o : n = "tx_socket" /\ o = "tx"
  OBVIOUS
<1>4. objects' \in Seq(Entries) /\ \A m : m # n => get_object(objects', m) = get_object(objects, m)
  <2>1. n \in OwnNames /\ o \in OwnObjects
    BY <1>3 DEF OwnNames, OwnObjects
  <2>2. CASE objects' = Add(objects, n, o)
    BY <1>1, <2>1, <2>2, OwnAdded
  <2>3. CASE objects' = Removed(objects, n)
    <3>1. /\ Removed(objects, n) \in Seq(Entries)
          /\ \A m : m # n => get_object(Removed(objects, n), m) = get_object(objects, m)
      BY <1>1, GetRemoved, Zenon
    <3> QED
      BY <2>3, <3>1
  <2>4. CASE objects' = objects
    BY <1>1, <2>4
  <2> QED
    BY <1>3, <2>2, <2>3, <2>4 DEF Serve, DeleteFactory, RemoveSocket
<1>5. \A d \in AppDevices : get_object(objects', d) = get_object(objects, d)
  BY <1>3, <1>4 DEF ObjectsAssumption, OwnNames
<1>6. "cli_commands" # n
  BY <1>3
<1> QED
  BY <1>1, <1>2, <1>4, <1>5, <1>6, AppKeeps

\* No init function asserts and none keeps a part that was not made, in any order
\* of the devices and whichever of them fail that may, for every table that names
\* what they assert; and the threads of the INIT event find the commands
\* (src/app/devices.cpp, src/app/cli_server.cpp:65).
THEOREM NeedsFound == ASSUME ObjectsAssumption PROVE ObjSpec => []NeedsAreFound
<1>1. ASSUME ObjInit PROVE ObjInv
  <2>1. /\ status \in [AppDevices -> {"todo", "made", "failed"}]
        /\ used \in [AppDevices -> SUBSET AppDevices] /\ \A d \in AppDevices : used[d] = {}
        /\ app # "init" /\ server # "asserted" /\ objects = <<>>
        /\ \A d \in AppDevices : status[d] = "todo"
    BY <1>1 DEF ObjInit
  <2>2. PICK k \in Nat : k = 0
    OBVIOUS
  <2>3. <<>> \in Seq(Entries) /\ Len(<<>>) = k
    BY <2>2
  <2>4. ASSUME NEW d \in AppDevices PROVE get_object(objects, d) = NoObject
    <3>1. FirstOf(objects, d, k)
      BY <2>1, <2>2, <2>3 DEF FirstOf
    <3>2. objects \in Seq(Entries)
      BY <2>1, <2>3
    <3> QED
      BY <2>2, <3>1, <3>2, GetIs
  <2>5. objects \in Seq(Entries)
    BY <2>1, <2>3
  <2> QED
    BY <2>1, <2>4, <2>5 DEF ObjInv, Listed
<1>2. ObjInv /\ [ObjNext]_objVars => ObjInv'
  <2> SUFFICES ASSUME ObjInv, [ObjNext]_objVars PROVE ObjInv'
    OBVIOUS
  <2>1. CASE UNCHANGED objVars
    BY <2>1, AppKeeps DEF objVars, ObjInv
  <2> QED
    BY <2>1, MakeKeeps, ResetKeeps, SevenSegKeeps, BusMadeKeeps, PortKeeps, KeyboardKeeps,
       CliKeeps, ServerKeeps DEF ObjNext
<1>3. ObjInv => NeedsAreFound
  <2> SUFFICES ASSUME ObjInv, NEW d \in AppDevices
               PROVE  /\ status[d] # "asserted"
                      /\ NoObject \notin used[d]
                      /\ \A e \in used[d] : status[e] = "made"
                      /\ (get_object(objects, d) # NoObject) = (status[d] = "made" /\ d \notin Hidden /\ Kind[d] # "reset")
    BY DEF NeedsAreFound, ObjInv
  <2>1. status[d] # "asserted" /\ \A e \in used[d] : status[e] = "made"
    BY DEF ObjInv
  <2>2. used[d] \subseteq AppDevices /\ NoObject \notin AppDevices
    BY DEF ObjInv, ObjectsAssumption
  <2>3. get_object(objects, d) = IF Listed(d) THEN d ELSE NoObject
    BY DEF ObjInv
  <2>4. (get_object(objects, d) # NoObject) <=> Listed(d)
    BY <2>2, <2>3 DEF Listed
  <2> QED
    BY <2>1, <2>2, <2>4 DEF Listed
<1> QED
  BY <1>1, <1>2, <1>3, PTL DEF ObjSpec


-----------------------------------------------------------------------------
(* The commands of the command line.                                       *)

\* A command that reports an error has left the devices as they were.
LEMMA CommandErrs ==
  ASSUME NEW args, Command(args), reply' = "error"
  PROVE  UNCHANGED state
<1>1. \A text : Say(text) => reply' = text
  BY DEF Say
<1>2. cli_error => UNCHANGED state
  BY DEF cli_error
<1>3. cmd_gpio(args) => UNCHANGED state
  <2>1. ASSUME NEW is, NEW pins, StartLoop(is, pins) PROVE FALSE
    BY <2>1 DEF StartLoop
  <2>2. ASSUME NEW g, NEW a, GpioSet(g, a) PROVE UNCHANGED state
    <3>1. gpio' = gpio
      BY <2>2 DEF GpioSet
    <3> QED
      BY <2>2, <3>1 DEF GpioSet, state
  <2> HIDE DEF StartLoop
  <2> QED
    BY <2>1, <2>2 DEF cmd_gpio, state
<1>4. cmd_verbose(args) \/ cmd_logging(args) => UNCHANGED state
  BY <1>1, <1>2 DEF cmd_verbose, cmd_logging
<1>5. cmd_help(args) \/ cmd_banner(args) \/ cmd_devices(args) => UNCHANGED state
  BY DEF cmd_help, cmd_banner, cmd_devices
<1>6. cmd_pwm(args) \/ cmd_uart(args) => UNCHANGED state
  BY <1>1, <1>2 DEF cmd_pwm, cmd_uart
<1>7. cmd_rtc_set(args) \/ cmd_rtc_get(args) => UNCHANGED state
  BY <1>1, <1>2 DEF cmd_rtc_set, cmd_rtc_get
<1>8. cmd_i2c(args) \/ cmd_spi(args) => UNCHANGED state
  BY <1>1, <1>2 DEF cmd_i2c, cmd_spi
<1> QED
  BY <1>3, <1>4, <1>5, <1>6, <1>7, <1>8 DEF Command

\* Whatever the arguments, the devices there are and the words that are numbers, a
\* command that reports an error has changed no device (cli_cmd.cpp:676).
THEOREM ErrorsKeepState == CmdSpec => ErrorsChangeNothing
<1>1. [CmdNext]_cmdVars => [ErrorKeepsState]_cmdVars
  <2> SUFFICES ASSUME CmdNext, reply' = "error", loop.is = "none" PROVE UNCHANGED state
    BY DEF ErrorKeepsState
  <2>1. CASE Run
    BY <2>1, CommandErrs DEF Run
  <2>2. CASE Round
    BY <2>2 DEF Round
  <2>3. CASE gpio_terminate_loop
    BY <2>3 DEF gpio_terminate_loop
  <2> QED
    BY <2>1, <2>2, <2>3 DEF CmdNext
<1> QED
  BY <1>1, PTL DEF CmdSpec, ErrorsChangeNothing

-----------------------------------------------------------------------------
(* The ring buffers.  That of src/panglos/buffer.h holds what was added    *)
(* and not drawn; that of the UART holds, at each place, the latest        *)
(* character that arrived for it.                                          *)

Wrapped(x) == IF x < Extent THEN x ELSE x - Extent
Away(i, o) == IF i >= o THEN i - o ELSE i - o + Extent

LEMMA WrapIs ==
  ASSUME RingAssumption
  PROVE  /\ \A x \in 0 .. 2 * Extent - 1 : x % Extent = Wrapped(x)
         /\ \A i, o \in Idx : (i + Extent - o) % Extent = Away(i, o)
<1>1. Extent \in Nat \ {0}
  BY DEF RingAssumption
<1>2. ASSUME NEW x \in 0 .. 2 * Extent - 1 PROVE x % Extent = Wrapped(x)
  <2>1. x \in 0 .. Extent - 1 \/ x \in Extent .. 2 * Extent - 1
    BY <1>1
  <2>2. /\ \A a \in 0 .. Extent - 1 : a % Extent = a
        /\ \A a \in Extent .. 2 * Extent - 1 : a % Extent = a - Extent
    BY <1>1, WrapFacts, Zenon
  <2> QED
    BY <1>1, <2>1, <2>2 DEF Wrapped
<1>3. ASSUME NEW i \in Idx, NEW o \in Idx PROVE (i + Extent - o) % Extent = Away(i, o)
  <2>1. i + Extent - o \in 0 .. 2 * Extent - 1
    BY <1>1 DEF Idx
  <2>2. Wrapped(i + Extent - o) = Away(i, o)
    BY <1>1 DEF Idx, Wrapped, Away
  <2> QED
    BY <1>2, <2>1, <2>2
<1> QED
  BY <1>2, <1>3

LEMMA After1Is == ASSUME RingAssumption, NEW i \in Idx PROVE After1(i) = Wrapped(i + 1) /\ After1(i) \in Idx
  BY DEF RingAssumption, Idx, After1, Wrapped

\* The k-th value held is at the k-th place from out on.
LEMMA HeldIs ==
  ASSUME RingAssumption, NEW i \in Idx, NEW o \in Idx, NEW d \in [Idx -> Nat]
  PROVE  /\ Held(i, o, d) \in Seq(Nat)
         /\ Len(Held(i, o, d)) = Away(i, o)
         /\ Away(i, o) \in 0 .. Extent - 1
         /\ \A k \in 1 .. Away(i, o) : Wrapped(o + k - 1) \in Idx /\ Held(i, o, d)[k] = d[Wrapped(o + k - 1)]
<1>1. Extent \in Nat \ {0, 1}
  BY DEF RingAssumption
<1>2. Away(i, o) \in 0 .. Extent - 1
  BY <1>1 DEF Away, Idx
<1>3. Held(i, o, d) = [k \in 1 .. Away(i, o) |-> d[(o + k - 1) % Extent]]
  BY WrapIs DEF Held
<1>4. ASSUME NEW k \in 1 .. Away(i, o)
      PROVE  Wrapped(o + k - 1) \in Idx /\ (o + k - 1) % Extent = Wrapped(o + k - 1)
  <2>1. o + k - 1 \in 0 .. 2 * Extent - 1
    BY <1>1, <1>2 DEF Idx
  <2>2. Wrapped(o + k - 1) \in Idx
    BY <1>1, <2>1 DEF Wrapped, Idx
  <2> QED
    BY <2>1, <2>2, WrapIs
<1>5. \A k \in 1 .. Away(i, o) : Wrapped(o + k - 1) \in Idx /\ Held(i, o, d)[k] = d[Wrapped(o + k - 1)]
  BY <1>3, <1>4
<1>6. Held(i, o, d) \in [1 .. Away(i, o) -> Nat]
  <2>1. \A k \in 1 .. Away(i, o) : d[(o + k - 1) % Extent] \in Nat
    BY <1>4
  <2> QED
    BY <1>3, <2>1
<1>7. Held(i, o, d) \in Seq(Nat) /\ Len(Held(i, o, d)) = Away(i, o)
  BY <1>2, <1>6
<1> QED
  BY <1>2, <1>5, <1>7

\* Two sequences with the same values are the same.
LEMMA SameSeq ==
  ASSUME NEW s \in Seq(Nat), NEW t \in Seq(Nat), Len(s) = Len(t), \A k \in 1 .. Len(s) : s[k] = t[k]
  PROVE  s = t
  BY SeqEqual

LEMMA JoinThree ==
  ASSUME NEW s \in Seq(Nat), NEW t \in Seq(Nat), NEW u \in Seq(Nat)
  PROVE  (s \o t) \o u = s \o (t \o u)
<1>1. /\ s \o t \in Seq(Nat) /\ Len(s \o t) = Len(s) + Len(t)
      /\ t \o u \in Seq(Nat) /\ Len(t \o u) = Len(t) + Len(u)
  BY ConcatProperties
<1>2. /\ (s \o t) \o u \in Seq(Nat) /\ Len((s \o t) \o u) = Len(s) + Len(t) + Len(u)
      /\ s \o (t \o u) \in Seq(Nat) /\ Len(s \o (t \o u)) = Len(s) + Len(t) + Len(u)
  BY <1>1
<1>3. ASSUME NEW k \in 1 .. Len(s) + Len(t) + Len(u)
      PROVE  ((s \o t) \o u)[k] = (s \o (t \o u))[k]
  BY <1>1, <1>2
<1> QED
  BY <1>2, <1>3, SameSeq

\* More is held after what was: m values, written from the index i on.
Grows(i, o, d, j, e, m, new) ==
  /\ i \in Idx /\ o \in Idx /\ j \in Idx /\ j = Wrapped(i + m)
  /\ d \in [Idx -> Nat] /\ e \in [Idx -> Nat]
  /\ m \in Nat /\ new \in Seq(Nat) /\ Len(new) = m /\ Away(i, o) + m < Extent
  /\ \A p \in Idx : p \notin {Wrapped(i + k) : k \in 0 .. m - 1} => e[p] = d[p]
  /\ \A k \in 0 .. m - 1 : e[Wrapped(i + k)] = new[k + 1]

LEMMA HeldGrows ==
  ASSUME RingAssumption, NEW i, NEW o, NEW d, NEW j, NEW e, NEW m, NEW new, Grows(i, o, d, j, e, m, new)
  PROVE  Held(j, o, e) = Held(i, o, d) \o new
<1>0. /\ i \in Idx /\ o \in Idx /\ j \in Idx /\ j = Wrapped(i + m)
      /\ d \in [Idx -> Nat] /\ e \in [Idx -> Nat]
      /\ m \in Nat /\ new \in Seq(Nat) /\ Len(new) = m /\ Away(i, o) + m < Extent
      /\ \A p \in Idx : p \notin {Wrapped(i + k) : k \in 0 .. m - 1} => e[p] = d[p]
      /\ \A k \in 0 .. m - 1 : e[Wrapped(i + k)] = new[k + 1]
  BY DEF Grows
<1> DEFINE n == Away(i, o)
           h == Held(i, o, d)
           g == Held(j, o, e)
<1>9. /\ i \in Idx /\ o \in Idx /\ j \in Idx /\ j = Wrapped(i + m)
      /\ m \in Nat /\ Away(i, o) + m < Extent /\ Extent \in Nat \ {0, 1}
  BY <1>0 DEF RingAssumption
<1>1. Extent \in Nat \ {0, 1} /\ n \in 0 .. Extent - 1
  BY <1>9 DEF Away, Idx
<1>2. Away(j, o) = n + m
  BY <1>9 DEF Away, Wrapped, Idx
<1>3. h \in Seq(Nat) /\ Len(h) = n /\ \A k \in 1 .. n : Wrapped(o + k - 1) \in Idx /\ h[k] = d[Wrapped(o + k - 1)]
  BY <1>0, HeldIs
<1> HIDE DEF n
<1>4. /\ g \in Seq(Nat) /\ Len(g) = n + m
      /\ \A k \in 1 .. n + m : Wrapped(o + k - 1) \in Idx /\ g[k] = e[Wrapped(o + k - 1)]
  <2>1. /\ g \in Seq(Nat) /\ Len(g) = Away(j, o)
        /\ \A k \in 1 .. Away(j, o) : Wrapped(o + k - 1) \in Idx /\ g[k] = e[Wrapped(o + k - 1)]
    <3>1. j \in Idx /\ o \in Idx /\ e \in [Idx -> Nat]
      BY <1>0
    <3> QED
      BY <3>1, HeldIs
  <2> HIDE DEF g
  <2> QED
    BY <1>2, <2>1
<1> HIDE DEF g, h
<1>5. /\ h \o new \in Seq(Nat) /\ Len(h \o new) = n + m
      /\ \A k \in 1 .. n + m : (h \o new)[k] = IF k <= n THEN h[k] ELSE new[k - n]
  <2>1. /\ h \o new \in Seq(Nat) /\ Len(h \o new) = Len(h) + Len(new)
        /\ \A k \in 1 .. Len(h) + Len(new) : (h \o new)[k] = IF k <= Len(h) THEN h[k] ELSE new[k - Len(h)]
    BY <1>0, <1>3, ConcatProperties
  <2> QED
    BY <1>0, <1>3, <2>1
<1>6. ASSUME NEW k \in 1 .. n + m PROVE g[k] = (h \o new)[k]
  <2>1. CASE k <= n
    <3>1. k \in 1 .. n
      BY <1>1, <2>1
    <3>2. ASSUME NEW q \in 0 .. m - 1 PROVE Wrapped(o + k - 1) # Wrapped(i + q)
      <4>1. i \in Idx /\ o \in Idx /\ m \in Nat /\ Away(i, o) + m < Extent /\ k \in 1 .. Away(i, o)
        BY <1>9, <3>1 DEF n
      <4> QED
        BY <1>1, <4>1 DEF Away, Wrapped, Idx
    <3>3. e[Wrapped(o + k - 1)] = d[Wrapped(o + k - 1)]
      BY <1>0, <1>3, <3>1, <3>2
    <3> QED
      BY <1>3, <1>4, <1>5, <2>1, <3>1, <3>3
  <2>2. CASE ~(k <= n)
    <3>1. PICK q \in 0 .. m - 1 : q = k - n - 1
      BY <1>1, <1>9, <2>2
    <3>2. Wrapped(o + k - 1) = Wrapped(i + q)
      BY <1>9, <2>2, <3>1 DEF n, Away, Wrapped, Idx
    <3>3. q + 1 = k - n
      BY <1>1, <3>1
    <3> QED
      BY <1>0, <1>4, <1>5, <2>2, <3>2, <3>3
  <2> QED
    BY <2>1, <2>2
<1> QED
  BY <1>0, <1>4, <1>5, <1>6, SameSeq DEF g, h

\* The first m values are taken.
LEMMA HeldShrinks ==
  ASSUME RingAssumption, NEW i \in Idx, NEW o \in Idx, NEW d \in [Idx -> Nat],
         NEW m \in 0 .. Away(i, o), NEW q, q = Wrapped(o + m)
  PROVE  /\ q \in Idx
         /\ SubSeq(Held(i, o, d), 1, m) \in Seq(Nat)
         /\ Held(i, q, d) \in Seq(Nat)
         /\ Held(i, o, d) = SubSeq(Held(i, o, d), 1, m) \o Held(i, q, d)
<1> DEFINE n == Away(i, o)
           h == Held(i, o, d)
           g == Held(i, q, d)
           s == SubSeq(h, 1, m)
<1>1. Extent \in Nat \ {0, 1} /\ n \in 0 .. Extent - 1
  BY HeldIs DEF RingAssumption
<1>2. q \in Idx /\ Away(i, q) = n - m
  BY <1>1 DEF Away, Wrapped, Idx
<1>3. h \in Seq(Nat) /\ Len(h) = n /\ \A k \in 1 .. n : Wrapped(o + k - 1) \in Idx /\ h[k] = d[Wrapped(o + k - 1)]
  BY HeldIs
<1> HIDE DEF n
<1>4. /\ g \in Seq(Nat) /\ Len(g) = n - m
      /\ \A k \in 1 .. n - m : Wrapped(q + k - 1) \in Idx /\ g[k] = d[Wrapped(q + k - 1)]
  <2>1. /\ g \in Seq(Nat) /\ Len(g) = Away(i, q)
        /\ \A k \in 1 .. Away(i, q) : Wrapped(q + k - 1) \in Idx /\ g[k] = d[Wrapped(q + k - 1)]
    BY <1>2, HeldIs
  <2> HIDE DEF g
  <2> QED
    BY <1>2, <2>1
<1>5. s \in Seq(Nat) /\ Len(s) = m /\ \A k \in 1 .. m : s[k] = h[k]
  <2>1. m \in Nat /\ m <= Len(h) /\ 1 \in Nat
    BY <1>1, <1>3 DEF n
  <2> HIDE DEF h
  <2> QED
    BY <1>3, <2>1, SubSeqProperties
<1> HIDE DEF g, h, s
<1>6. /\ s \o g \in Seq(Nat) /\ Len(s \o g) = n
      /\ \A k \in 1 .. n : (s \o g)[k] = IF k <= m THEN s[k] ELSE g[k - m]
  <2>1. /\ s \o g \in Seq(Nat) /\ Len(s \o g) = Len(s) + Len(g)
        /\ \A k \in 1 .. Len(s) + Len(g) : (s \o g)[k] = IF k <= Len(s) THEN s[k] ELSE g[k - Len(s)]
    BY <1>4, <1>5, ConcatProperties
  <2>2. Len(s) + Len(g) = n
    BY <1>1, <1>4, <1>5
  <2> QED
    BY <1>5, <2>1, <2>2
<1>7. ASSUME NEW k \in 1 .. n PROVE h[k] = (s \o g)[k]
  <2>1. CASE k <= m
    BY <1>1, <1>5, <1>6, <2>1
  <2>2. CASE ~(k <= m)
    <3>1. PICK j \in 1 .. n - m : j = k - m
      BY <1>1, <2>2
    <3>2. Wrapped(q + j - 1) = Wrapped(o + k - 1)
      BY <1>1, <2>2, <3>1 DEF n, Away, Wrapped, Idx
    <3> QED
      BY <1>3, <1>4, <1>6, <2>2, <3>1, <3>2
  <2> QED
    BY <2>1, <2>2
<1>8. h = s \o g
  BY <1>3, <1>6, <1>7, SameSeq
<1> QED
  BY <1>2, <1>4, <1>5, <1>8 DEF g, h, s

RingTypes ==
  /\ kind \in {"locked", "uart"}
  /\ data \in [Idx -> Nat]
  /\ added \in Seq(Nat) /\ drawn \in Seq(Nat)
LockInv == in \in Idx /\ out \in Idx /\ added = drawn \o Held(in, out, data)
\* The values of a place are those whose number is its own, but for the turns.
Latest(p) ==
  /\ data[p] <= Len(added)
  /\ data[p] # 0 => (data[p] - 1) % Extent = p
  /\ \A k \in 1 .. Len(added) : (k - 1) % Extent = p => k <= data[p]
DrawnPlaces == \A i \in 1 .. Len(drawn) : drawn[i] >= i /\ (drawn[i] - i) % Extent = 0
UartInv ==
  /\ Len(drawn) <= Len(added) /\ Len(added) < Len(drawn) + Modulus
  /\ in = Len(added) % Modulus /\ out = Len(drawn) % Modulus
  /\ \A p \in Idx : Latest(p)
  /\ DrawnPlaces
RingInv == RingTypes /\ (kind = "locked" => LockInv) /\ (kind = "uart" => UartInv)

LEMMA RingAddKeeps == ASSUME RingAssumption, RingInv, AddOne PROVE RingInv'
<1>1. /\ kind = "locked" /\ kind' = kind /\ UNCHANGED <<out, drawn>>
      /\ in \in Idx /\ out \in Idx /\ added = drawn \o Held(in, out, data)
      /\ data \in [Idx -> Nat] /\ added \in Seq(Nat) /\ drawn \in Seq(Nat)
  BY DEF AddOne, RingInv, RingTypes, LockInv
<1>2. CASE Full(in, out)
  BY <1>1, <1>2 DEF AddOne, RingInv, RingTypes, LockInv
<1>3. CASE ~Full(in, out)
  <2>1. data' = [data EXCEPT ![in] = Fresh] /\ in' = After1(in) /\ added' = Append(added, Fresh)
    BY <1>3 DEF AddOne
  <2>2. Fresh \in Nat
    BY <1>1 DEF Fresh
  <2>3. PICK m \in Nat : m = 1
    OBVIOUS
  <2>4. PICK new \in Seq(Nat) : new = <<Fresh>> /\ Len(new) = m /\ new[1] = Fresh
    <3>1. PICK f \in Nat : f = Fresh
      BY <2>2
    <3>2. <<f>> \in Seq(Nat) /\ Len(<<f>>) = 1 /\ <<f>>[1] = f
      OBVIOUS
    <3> QED
      BY <2>3, <3>1, <3>2
  <2>5. in' \in Idx /\ in' = Wrapped(in + m) /\ in' # out
    BY <1>1, <1>3, <2>1, <2>3, After1Is DEF Full
  <2>6. Away(in, out) + m < Extent
    BY <1>1, <2>3, <2>5 DEF RingAssumption, Idx, Away, Wrapped
  <2>7. data' \in [Idx -> Nat] /\ \A p \in Idx : data'[p] = IF p = in THEN Fresh ELSE data[p]
    BY <1>1, <2>1, <2>2
  <2>8. in = Wrapped(in + 0) /\ 0 \in 0 .. m - 1
    BY <1>1, <2>3 DEF RingAssumption, Idx, Wrapped
  <2>9. \A p \in Idx : p \notin {Wrapped(in + k) : k \in 0 .. m - 1} => data'[p] = data[p]
    BY <2>7, <2>8
  <2>10. \A k \in 0 .. m - 1 : data'[Wrapped(in + k)] = new[k + 1]
    <3> SUFFICES ASSUME NEW k \in 0 .. m - 1 PROVE data'[Wrapped(in + k)] = new[k + 1]
      OBVIOUS
    <3>1. k = 0 /\ k + 1 = 1 /\ Wrapped(in + k) = in
      BY <2>3, <2>8
    <3> QED
      BY <1>1, <2>4, <2>7, <3>1
  <2>11. Held(in', out, data') = Held(in, out, data) \o new
    <3>1. Grows(in, out, data, in', data', m, new)
      BY <1>1, <2>4, <2>5, <2>6, <2>7, <2>9, <2>10 DEF Grows
    <3> QED
      BY <3>1, HeldGrows
  <2>12. added' = added \o new
    BY <1>1, <2>1, <2>2, <2>4
  <2>13. Held(in, out, data) \in Seq(Nat)
    BY <1>1, HeldIs
  <2>14. added' = drawn \o Held(in', out, data') /\ added' \in Seq(Nat)
    <3>1. PICK h \in Seq(Nat) : h = Held(in, out, data)
      BY <2>13
    <3>2. (drawn \o h) \o new = drawn \o (h \o new)
      <4>1. drawn \in Seq(Nat) /\ h \in Seq(Nat) /\ new \in Seq(Nat)
        BY <1>1
      <4> QED
        BY <4>1, JoinThree, Zenon
    <3>3. added' \in Seq(Nat)
      BY <1>1, <2>12
    <3> QED
      BY <1>1, <2>11, <2>12, <3>1, <3>2, <3>3
  <2> QED
    BY <1>1, <2>5, <2>7, <2>14 DEF RingInv, RingTypes, LockInv
<1> QED
  BY <1>2, <1>3

LEMMA AddManyKeeps == ASSUME RingAssumption, RingInv, NEW n \in 1 .. Extent, AddMany(n) PROVE RingInv'
<1> DEFINE room == (Extent - 1) - Len(Held(in, out, data))
           m == IF n < room THEN n ELSE room
           new == [k \in 1 .. m |-> Len(added) + k]
<1>1. /\ kind = "locked" /\ kind' = kind /\ UNCHANGED <<out, drawn>>
      /\ in \in Idx /\ out \in Idx /\ added = drawn \o Held(in, out, data)
      /\ data \in [Idx -> Nat] /\ added \in Seq(Nat) /\ drawn \in Seq(Nat)
  BY DEF AddMany, RingInv, RingTypes, LockInv
<1>2. /\ data' = [p \in Idx |-> IF \E k \in 0 .. m - 1 : p = (in + k) % Extent
                               THEN Fresh + ((p + Extent - in) % Extent) ELSE data[p]]
      /\ in' = (in + m) % Extent /\ added' = added \o new
  BY DEF AddMany
<1>3. Extent \in Nat \ {0, 1} /\ Len(added) \in Nat
  BY <1>1 DEF RingAssumption
<1>4. Len(Held(in, out, data)) = Away(in, out) /\ Away(in, out) \in 0 .. Extent - 1
  BY <1>1, HeldIs
<1>5. m \in 0 .. Extent - 1 /\ Away(in, out) + m < Extent
  BY <1>3, <1>4
<1> HIDE DEF m
<1>6. new \in Seq(Nat) /\ Len(new) = m /\ \A k \in 1 .. m : new[k] = Len(added) + k
  <2>1. new \in [1 .. m -> Nat]
    BY <1>3, <1>5
  <2> QED
    BY <1>5, <2>1
<1> HIDE DEF new
<1>7. in' = Wrapped(in + m) /\ in' \in Idx
  <2>1. in + m \in 0 .. 2 * Extent - 1
    BY <1>1, <1>3, <1>5 DEF Idx
  <2>2. (in + m) % Extent = Wrapped(in + m)
    BY <2>1, WrapIs
  <2> QED
    BY <1>2, <1>3, <2>1, <2>2 DEF Wrapped, Idx
<1>8. \A k \in 0 .. m - 1 : (in + k) % Extent = Wrapped(in + k) /\ Wrapped(in + k) \in Idx
  <2> SUFFICES ASSUME NEW k \in 0 .. m - 1
               PROVE  (in + k) % Extent = Wrapped(in + k) /\ Wrapped(in + k) \in Idx
    OBVIOUS
  <2>1. in + k \in 0 .. 2 * Extent - 1
    BY <1>1, <1>3, <1>5 DEF Idx
  <2>2. Wrapped(in + k) \in Idx
    BY <1>3, <2>1 DEF Wrapped, Idx
  <2> QED
    BY <2>1, <2>2, WrapIs
<1>9. \A p \in Idx : (p + Extent - in) % Extent = Away(p, in) /\ Away(p, in) \in Nat
  <2> SUFFICES ASSUME NEW p \in Idx PROVE (p + Extent - in) % Extent = Away(p, in) /\ Away(p, in) \in Nat
    OBVIOUS
  <2>1. Away(p, in) \in Nat
    BY <1>1, <1>3 DEF Away, Idx
  <2> QED
    BY <1>1, <2>1, WrapIs
<1>10. data' \in [Idx -> Nat]
  <2>1. \A p \in Idx : Fresh + ((p + Extent - in) % Extent) \in Nat /\ data[p] \in Nat
    BY <1>1, <1>3, <1>9 DEF Fresh
  <2> QED
    BY <1>2, <2>1
<1>11. \A p \in Idx : p \notin {Wrapped(in + k) : k \in 0 .. m - 1} => data'[p] = data[p]
  BY <1>2, <1>8
<1>12. ASSUME NEW k \in 0 .. m - 1 PROVE data'[Wrapped(in + k)] = new[k + 1]
  <2>1. PICK p \in Idx : p = Wrapped(in + k) /\ p = (in + k) % Extent
    BY <1>8
  <2>2. data'[p] = Fresh + ((p + Extent - in) % Extent)
    BY <1>2, <2>1
  <2>3. Away(p, in) = k
    BY <1>1, <1>3, <1>5, <2>1 DEF Away, Wrapped, Idx
  <2>4. k + 1 \in 1 .. m /\ Fresh + k = Len(added) + (k + 1)
    BY <1>3, <1>5 DEF Fresh
  <2> QED
    BY <1>6, <1>9, <2>1, <2>2, <2>3, <2>4
<1>13. Held(in', out, data') = Held(in, out, data) \o new
  <2>1. Grows(in, out, data, in', data', m, new)
    BY <1>1, <1>5, <1>6, <1>7, <1>10, <1>11, <1>12 DEF Grows
  <2> QED
    BY <2>1, HeldGrows
<1>14. Held(in, out, data) \in Seq(Nat)
  BY <1>1, HeldIs
<1>15. added' = drawn \o Held(in', out, data') /\ added' \in Seq(Nat)
  <2>1. PICK h \in Seq(Nat) : h = Held(in, out, data)
    BY <1>14
  <2>2. (drawn \o h) \o new = drawn \o (h \o new)
    <3>1. drawn \in Seq(Nat) /\ h \in Seq(Nat) /\ new \in Seq(Nat)
      BY <1>1, <1>6
    <3> QED
      BY <3>1, JoinThree, Zenon
  <2>3. added' \in Seq(Nat)
    BY <1>1, <1>2, <1>6
  <2> QED
    BY <1>1, <1>2, <1>13, <2>1, <2>2, <2>3
<1> QED
  BY <1>1, <1>7, <1>10, <1>15 DEF RingInv, RingTypes, LockInv

LEMMA RingGetKeeps == ASSUME RingAssumption, RingInv, NEW n \in 1 .. Extent, GetOne(n) PROVE RingInv'
<1> DEFINE held == Held(in, out, data)
           m == IF n < Len(held) THEN n ELSE Len(held)
<1>1. /\ kind = "locked" /\ kind' = kind /\ UNCHANGED <<in, data, added>>
      /\ in \in Idx /\ out \in Idx /\ added = drawn \o held
      /\ data \in [Idx -> Nat] /\ added \in Seq(Nat) /\ drawn \in Seq(Nat)
  BY DEF GetOne, RingInv, RingTypes, LockInv
<1>2. out' = (out + m) % Extent /\ drawn' = drawn \o SubSeq(held, 1, m)
  BY DEF GetOne
<1>3. Len(held) = Away(in, out) /\ Away(in, out) \in 0 .. Extent - 1 /\ Extent \in Nat \ {0, 1}
  BY <1>1, HeldIs DEF RingAssumption
<1> HIDE DEF held
<1>4. m \in 0 .. Away(in, out)
  BY <1>3
<1> HIDE DEF m
<1>5. out' = Wrapped(out + m)
  <2>1. out + m \in 0 .. 2 * Extent - 1
    BY <1>1, <1>3, <1>4 DEF Idx
  <2> QED
    BY <1>2, <2>1, WrapIs
<1>6. /\ out' \in Idx
      /\ SubSeq(held, 1, m) \in Seq(Nat)
      /\ Held(in, out', data) \in Seq(Nat)
      /\ held = SubSeq(held, 1, m) \o Held(in, out', data)
  BY <1>1, <1>4, <1>5, HeldShrinks DEF held
<1>7. PICK s \in Seq(Nat), g \in Seq(Nat) : s = SubSeq(held, 1, m) /\ g = Held(in, out', data)
  BY <1>6
<1>8. drawn' = drawn \o s /\ drawn' \in Seq(Nat) /\ added = drawn \o (s \o g)
  <2>1. drawn' = drawn \o s /\ held = s \o g
    BY <1>2, <1>6, <1>7
  <2>2. drawn \o s \in Seq(Nat)
    BY <1>1
  <2> QED
    BY <1>1, <2>1, <2>2
<1>9. added = drawn' \o g
  <2>1. drawn \in Seq(Nat) /\ s \in Seq(Nat) /\ g \in Seq(Nat)
    BY <1>1
  <2>2. (drawn \o s) \o g = drawn \o (s \o g)
    BY <2>1, JoinThree, Zenon
  <2> QED
    BY <1>8, <2>2
<1> QED
  BY <1>1, <1>6, <1>7, <1>8, <1>9 DEF RingInv, RingTypes, LockInv

LEMMA EmptiedKeeps == ASSUME RingAssumption, RingInv, Reset PROVE RingInv'
<1> DEFINE held == Held(in, out, data)
<1>1. /\ kind = "locked" /\ kind' = kind /\ UNCHANGED <<out, data, drawn>> /\ in' = out
      /\ in \in Idx /\ out \in Idx /\ added = drawn \o held
      /\ added' = SubSeq(added, 1, Len(added) - Len(held))
      /\ data \in [Idx -> Nat] /\ added \in Seq(Nat) /\ drawn \in Seq(Nat)
  BY DEF Reset, RingInv, RingTypes, LockInv
<1>2. held \in Seq(Nat) /\ Held(out, out, data) \in Seq(Nat) /\ Len(Held(out, out, data)) = 0
  <2>1. Away(out, out) = 0
    BY <1>1 DEF Away, Idx, RingAssumption
  <2> QED
    BY <1>1, <2>1, HeldIs
<1> HIDE DEF held
<1>3. added' = drawn
  <2>1. Len(added) = Len(drawn) + Len(held) /\ \A k \in 1 .. Len(drawn) : added[k] = drawn[k]
    BY <1>1, <1>2, ConcatProperties
  <2>2. Len(drawn) \in Nat /\ Len(added) - Len(held) = Len(drawn) /\ Len(drawn) <= Len(added)
    BY <1>1, <1>2, <2>1
  <2>3. /\ SubSeq(added, 1, Len(drawn)) \in Seq(Nat) /\ Len(SubSeq(added, 1, Len(drawn))) = Len(drawn)
        /\ \A k \in 1 .. Len(drawn) : SubSeq(added, 1, Len(drawn))[k] = added[k]
    BY <1>1, <2>2, SubSeqProperties
  <2>4. SubSeq(added, 1, Len(drawn)) = drawn
    BY <1>1, <2>1, <2>3, SameSeq
  <2> QED
    BY <1>1, <2>2, <2>4
<1>4. drawn = drawn \o Held(out, out, data)
  <2>1. PICK e \in Seq(Nat) : e = Held(out, out, data) /\ Len(e) = 0
    BY <1>2
  <2>2. e = <<>>
    BY <2>1
  <2> QED
    BY <1>1, <2>1, <2>2
<1> QED
  BY <1>1, <1>3, <1>4 DEF RingInv, RingTypes, LockInv

-----------------------------------------------------------------------------
(* The UART: a place has the numbers that are equal modulo Extent.         *)

\* Indices that run freely are masked to the same place as the numbers.
LEMMA Masked ==
  ASSUME RingAssumption, NEW x \in Nat, NEW k \in Nat
  PROVE  ((x % Modulus) + k) % Extent = (x + k) % Extent
<1>1. PICK n \in Nat \ {0}, m \in Nat \ {0} : n = Extent /\ m = Modulus /\ m % n = 0
  BY DEF RingAssumption
<1>2. PICK c \in Int, z \in Int : m = n * c + z /\ z = 0
  <2>1. m \div n \in Int /\ m % n \in Int /\ m = n * (m \div n) + (m % n)
    BY DivMod
  <2> QED
    BY <1>1, <2>1
<1>3. PICK q \in Int, r \in Int : x = m * q + r /\ x % m = r
  <2>1. x \div m \in Int /\ x % m \in Int /\ x = m * (x \div m) + (x % m)
    BY DivMod
  <2> QED
    BY <2>1
<1>4. PICK t \in Int : t = c * q
  OBVIOUS
<1>5. m * q = n * t
  BY <1>2, <1>4, SMT
<1>6. PICK y \in Int : y = n * t
  OBVIOUS
<1>7. x + k = y + (r + k)
  BY <1>3, <1>5, <1>6
<1>8. (n * t + (r + k)) % n = (r + k) % n
  <2>1. r + k \in Int
    OBVIOUS
  <2> QED
    BY <2>1, TurnsVanish
<1> QED
  BY <1>1, <1>3, <1>6, <1>7, <1>8

LEMMA SameResidue ==
  ASSUME NEW n \in Nat \ {0}, NEW a \in Int, NEW b \in Int, a % n = b % n
  PROVE  (a - b) % n = 0
<1>1. ((a % n) - (b % n)) % n = (a - b) % n
  BY ReduceFirst
<1>2. a % n \in Int
  BY DivMod
<1>3. (a % n) - (b % n) = 0
  BY <1>2
<1>4. 0 % n = 0
  BY SMT
<1> QED
  BY <1>1, <1>3, <1>4

\* A step of an index.
LEMMA NextIs ==
  ASSUME RingAssumption, NEW x \in Nat
  PROVE  Next1(x % Modulus) = (x + 1) % Modulus
<1>1. PICK m \in Nat \ {0}, k \in Int : m = Modulus /\ k = 1
  BY DEF RingAssumption
<1>2. ((x % m) + k) % m = (x + k) % m
  <2>1. x \in Int
    OBVIOUS
  <2> QED
    BY <1>1, <2>1, ReduceFirst, Zenon
<1> QED
  BY <1>1, <1>2 DEF Next1

LEMMA UartWriteKeeps == ASSUME RingAssumption, RingInv, buff_write PROVE RingInv'
<1>1. /\ kind = "uart" /\ kind' = kind /\ UNCHANGED <<out, drawn>>
      /\ data \in [Idx -> Nat] /\ added \in Seq(Nat) /\ drawn \in Seq(Nat) /\ UartInv
  BY DEF buff_write, RingInv, RingTypes
<1>2. Extent \in Nat \ {0} /\ Modulus \in Nat \ {0}
  BY DEF RingAssumption
<1>3. PICK a \in Nat, g \in Nat : a = Len(added) /\ g = Len(drawn)
  BY <1>1
<1>4. g <= a /\ a < g + Modulus /\ in = a % Modulus /\ out = g % Modulus /\ (\A p \in Idx : Latest(p)) /\ DrawnPlaces
  BY <1>1, <1>3 DEF UartInv
<1>5. CASE Next1(in) = out
  BY <1>1, <1>5 DEF buff_write, RingInv, RingTypes, UartInv, Latest, DrawnPlaces
<1>6. CASE Next1(in) # out
  <2>1. /\ data' = [data EXCEPT ![in % Extent] = Fresh] /\ in' = Next1(in) /\ added' = Append(added, Fresh)
    BY <1>6 DEF buff_write
  <2>2. Fresh = a + 1
    BY <1>3 DEF Fresh
  <2>3. added' \in Seq(Nat) /\ Len(added') = a + 1
    BY <1>1, <1>3, <2>1, <2>2, AppendProperties
  <2>4. in' = (a + 1) % Modulus
    BY <1>4, <2>1, NextIs
  <2>5. a + 1 < g + Modulus
    <3>1. ASSUME a + 1 = g + Modulus PROVE FALSE
      <4>1. PICK k \in Int, m \in Nat \ {0} : k = 1 /\ m = Modulus
        BY <1>2
      <4>2. (m * k + g) % m = g % m
        <5>1. g \in Int
          OBVIOUS
        <5> QED
          BY <4>1, <5>1, TurnsVanish, Zenon
      <4>3. m * k + g = a + 1
        BY <3>1, <4>1
      <4>4. Next1(in) = (a + 1) % Modulus
        BY <1>4, NextIs
      <4> QED
        BY <1>4, <1>6, <4>1, <4>2, <4>3, <4>4
    <3> QED
      BY <1>2, <1>4, <3>1
  <2>6. in % Extent = a % Extent /\ a % Extent \in Idx
    <3>1. PICK k \in Nat : k = 0
      OBVIOUS
    <3>2. ((a % Modulus) + k) % Extent = (a + k) % Extent
      BY Masked
    <3>3. a % Modulus \in Int /\ a % Extent \in 0 .. Extent - 1
      BY <1>2, DivMod
    <3>4. (a % Modulus) + k = a % Modulus /\ a + k = a
      BY <3>1, <3>3
    <3> QED
      BY <1>4, <3>2, <3>3, <3>4 DEF Idx
  <2>7. PICK p \in Idx : p = a % Extent
    BY <2>6
  <2>8. data' \in [Idx -> Nat] /\ \A q \in Idx : data'[q] = IF q = p THEN a + 1 ELSE data[q]
    BY <1>1, <2>1, <2>2, <2>6, <2>7
  <2>9. ASSUME NEW q \in Idx PROVE Latest(q)'
    <3>1. Latest(q) /\ data[q] \in Nat
      BY <1>1, <1>4
    <3>2. CASE q = p
      <4>1. data'[q] = a + 1 /\ (a + 1) - 1 = a /\ a % Extent = q
        BY <2>7, <2>8, <3>2
      <4> QED
        BY <2>3, <4>1 DEF Latest
    <3>3. CASE q # p
      <4>1. data'[q] = data[q]
        BY <2>8, <3>3
      <4>2. ASSUME NEW k \in 1 .. a + 1, (k - 1) % Extent = q PROVE k <= data[q]
        <5>1. k # a + 1
          <6>1. (a + 1) - 1 = a
            OBVIOUS
          <6> QED
            BY <2>7, <3>3, <4>2, <6>1
        <5> QED
          BY <1>3, <3>1, <4>2, <5>1 DEF Latest
      <4> QED
        BY <1>3, <2>3, <3>1, <4>1, <4>2 DEF Latest
    <3> QED
      BY <3>2, <3>3
  <2>10. DrawnPlaces'
    BY <1>1, <1>4 DEF DrawnPlaces
  <2>11. Len(drawn') = g /\ out' = g % Modulus /\ g <= a + 1
    BY <1>1, <1>3, <1>4
  <2>12. UartInv'
    BY <2>3, <2>4, <2>5, <2>9, <2>10, <2>11 DEF UartInv
  <2> QED
    BY <1>1, <2>3, <2>8, <2>12 DEF RingInv, RingTypes
<1> QED
  BY <1>5, <1>6

\* What is at the place of a number that has come and was not drawn.
LEMMA AtPlace ==
  ASSUME RingAssumption, NEW p \in Idx, data[p] \in Nat, Latest(p), Len(added) \in Nat,
         NEW v \in 1 .. Len(added), (v - 1) % Extent = p
  PROVE  data[p] >= v /\ data[p] <= Len(added) /\ (data[p] - v) % Extent = 0
<1>1. Extent \in Nat \ {0}
  BY DEF RingAssumption
<1>2. v <= data[p] /\ data[p] <= Len(added)
  BY DEF Latest
<1>3. PICK w \in Nat : w = data[p]
  OBVIOUS
<1>4. (w - 1) % Extent = (v - 1) % Extent
  BY <1>2, <1>3 DEF Latest
<1>5. w - 1 \in Int /\ v - 1 \in Int /\ (w - 1) - (v - 1) = w - v
  OBVIOUS
<1>6. ((w - 1) - (v - 1)) % Extent = 0
  BY <1>1, <1>4, <1>5, SameResidue
<1> QED
  BY <1>2, <1>3, <1>5, <1>6

LEMMA UartReadKeeps == ASSUME RingAssumption, RingInv, rx PROVE RingInv'
<1>1. /\ kind = "uart" /\ kind' = kind /\ UNCHANGED <<in, data, added>>
      /\ data \in [Idx -> Nat] /\ added \in Seq(Nat) /\ drawn \in Seq(Nat) /\ UartInv
      /\ in # out /\ drawn' = Append(drawn, data[out % Extent]) /\ out' = Next1(out)
  BY DEF rx, RingInv, RingTypes
<1>2. Extent \in Nat \ {0} /\ Modulus \in Nat \ {0}
  BY DEF RingAssumption
<1>3. PICK a \in Nat, g \in Nat : a = Len(added) /\ g = Len(drawn)
  BY <1>1
<1>4. g <= a /\ a < g + Modulus /\ in = a % Modulus /\ out = g % Modulus /\ (\A p \in Idx : Latest(p)) /\ DrawnPlaces
  BY <1>1, <1>3 DEF UartInv
<1>5. g < a
  BY <1>1, <1>4
<1>6. out % Extent = g % Extent /\ g % Extent \in Idx
  <2>1. PICK k \in Nat : k = 0
    OBVIOUS
  <2>2. ((g % Modulus) + k) % Extent = (g + k) % Extent
    BY Masked
  <2>3. g % Modulus \in Int /\ g % Extent \in 0 .. Extent - 1
    BY <1>2, DivMod
  <2>4. (g % Modulus) + k = g % Modulus /\ g + k = g
    BY <2>1, <2>3
  <2> QED
    BY <1>4, <2>2, <2>3, <2>4 DEF Idx
<1>7. PICK p \in Idx : p = g % Extent /\ p = out % Extent
  BY <1>6
<1>8. PICK v \in 1 .. a : v = g + 1 /\ v - 1 = g
  BY <1>5
<1>9. data[p] \in Nat /\ data[p] >= v /\ (data[p] - v) % Extent = 0
  <2>1. data[p] \in Nat /\ Latest(p) /\ Len(added) \in Nat /\ v \in 1 .. Len(added) /\ (v - 1) % Extent = p
    BY <1>1, <1>3, <1>4, <1>7, <1>8
  <2> QED
    BY <2>1, AtPlace
<1>10. PICK x \in Nat : x = data[p]
  BY <1>9
<1>11. /\ drawn' \in Seq(Nat) /\ Len(drawn') = g + 1
       /\ \A i \in 1 .. g : drawn'[i] = drawn[i]
       /\ drawn'[g + 1] = x
  BY <1>1, <1>3, <1>7, <1>10, AppendProperties
<1>12. DrawnPlaces'
  <2> SUFFICES ASSUME NEW i \in 1 .. g + 1 PROVE drawn'[i] >= i /\ (drawn'[i] - i) % Extent = 0
    BY <1>11 DEF DrawnPlaces
  <2>1. CASE i = g + 1
    BY <1>8, <1>9, <1>10, <1>11, <2>1
  <2>2. CASE i # g + 1
    <3>1. i \in 1 .. g
      BY <2>2
    <3> QED
      BY <1>3, <1>4, <1>11, <3>1 DEF DrawnPlaces
  <2> QED
    BY <2>1, <2>2
<1>13. out' = (g + 1) % Modulus
  BY <1>1, <1>4, NextIs
<1>14. \A q \in Idx : Latest(q)'
  BY <1>1, <1>4 DEF Latest
<1>15. UartInv'
  <2>1. Len(drawn') = g + 1 /\ Len(added') = a /\ g + 1 <= a /\ a < (g + 1) + Modulus
    <3>1. Len(drawn') = g + 1 /\ Len(added') = a
      BY <1>1, <1>3, <1>11
    <3> QED
      BY <1>2, <1>4, <1>5, <3>1
  <2>2. in' = a % Modulus
    BY <1>1, <1>4
  <2> QED
    BY <1>12, <1>13, <1>14, <2>1, <2>2 DEF UartInv
<1> QED
  BY <1>1, <1>11, <1>15 DEF RingInv, RingTypes

LEMMA UartPlaces == ASSUME RingAssumption, RingInv PROVE UartKeepsPlaces
<1> SUFFICES ASSUME kind = "uart" PROVE UartKeepsPlaces
  BY DEF UartKeepsPlaces
<1>1. data \in [Idx -> Nat] /\ added \in Seq(Nat) /\ drawn \in Seq(Nat) /\ UartInv
  BY DEF RingInv, RingTypes
<1>2. Extent \in Nat \ {0} /\ Modulus \in Nat \ {0}
  BY DEF RingAssumption
<1>3. PICK a \in Nat, g \in Nat : a = Len(added) /\ g = Len(drawn)
  BY <1>1
<1>4. g <= a /\ a < g + Modulus /\ in = a % Modulus /\ out = g % Modulus /\ (\A p \in Idx : Latest(p)) /\ DrawnPlaces
  BY <1>1, <1>3 DEF UartInv
<1>5. (in - out) % Modulus = a - g
  <2>1. PICK m \in Nat \ {0} : m = Modulus
    BY <1>2
  <2>2. ((a % m) - (g % m)) % m = (a - g) % m
    <3>1. a \in Int /\ g \in Int
      OBVIOUS
    <3> QED
      BY <2>1, <3>1, ReduceFirst, Zenon
  <2>3. a - g \in 0 .. m - 1
    BY <1>4, <2>1
  <2>4. (a - g) % m = a - g
    BY <2>3, WrapFacts
  <2> QED
    BY <1>4, <2>1, <2>2, <2>4
<1>6. ASSUME a - g <= Extent, NEW k \in 0 .. (a - g) - 1
      PROVE  data[(out + k) % Extent] = g + k + 1
  <2>1. PICK v \in 1 .. a : v = g + k + 1 /\ v - 1 = g + k
    BY <1>4
  <2>2. (out + k) % Extent = (g + k) % Extent
    BY <1>4, Masked
  <2>3. PICK p \in Idx : p = (g + k) % Extent
    <3>1. g + k \in Int
      OBVIOUS
    <3>2. (g + k) % Extent \in 0 .. Extent - 1
      BY <1>2, <3>1, DivMod
    <3> QED
      BY <3>2 DEF Idx
  <2>4. data[p] \in Nat /\ data[p] >= v /\ data[p] <= a /\ (data[p] - v) % Extent = 0
    <3>1. data[p] \in Nat /\ Latest(p) /\ Len(added) \in Nat /\ v \in 1 .. Len(added) /\ (v - 1) % Extent = p
      BY <1>1, <1>3, <1>4, <2>1, <2>3
    <3> QED
      BY <1>3, <3>1, AtPlace
  <2>5. PICK w \in Nat : w = data[p]
    BY <2>4
  <2>6. w - v \in 0 .. Extent - 1
    BY <1>2, <1>6, <2>1, <2>4, <2>5
  <2>7. (w - v) % Extent = w - v
    BY <1>2, <2>6, WrapFacts
  <2>8. w = v
    BY <2>4, <2>5, <2>6, <2>7
  <2> QED
    BY <2>1, <2>2, <2>3, <2>5, <2>8
<1>7. \A i \in DOMAIN drawn : drawn[i] >= i /\ (drawn[i] - i) % Extent = 0
  BY <1>1, <1>4, LenProperties DEF DrawnPlaces
<1> QED
  BY <1>3, <1>5, <1>6, <1>7 DEF UartKeepsPlaces

\* Both rings, for any size, any number of values and any order of the steps of
\* the writer, the reader and reset(): what the reader of the ring buffer gets is
\* what was added and not reset, in its order, without a gap, and the rest is held
\* (src/panglos/buffer.h:26); and the reader of the UART reads from each place
\* what arrived for it, all of it while it does not fall behind by more than the
\* ring (src/stm32/uart_f1.cpp:84).
THEOREM RingsKeep == ASSUME RingAssumption PROVE RingSpec => []RingsAreKept
<1>1. ASSUME RingInit PROVE RingInv
  <2>1. /\ kind \in {"locked", "uart"} /\ in = 0 /\ out = 0 /\ added = <<>> /\ drawn = <<>>
        /\ data \in [Idx -> Nat] /\ \A p \in Idx : data[p] = 0
    BY <1>1 DEF RingInit
  <2>2. Extent \in Nat \ {0, 1} /\ Modulus \in Nat \ {0} /\ in \in Idx /\ out \in Idx
    BY <2>1 DEF RingAssumption, Idx
  <2>3. RingTypes
    BY <2>1 DEF RingTypes
  <2>4. LockInv
    <3>1. Away(in, out) = 0
      BY <2>1 DEF Away
    <3>2. PICK e \in Seq(Nat) : e = Held(in, out, data) /\ Len(e) = 0
      BY <2>1, <2>2, <3>1, HeldIs
    <3>3. e = <<>>
      BY <3>2
    <3>4. added = drawn \o e
      BY <2>1, <3>3
    <3> QED
      BY <2>2, <3>2, <3>4 DEF LockInv
  <2>5. UartInv
    <3>1. Len(added) = 0 /\ Len(drawn) = 0 /\ 0 % Modulus = 0
      BY <2>1, <2>2, SMT
    <3> QED
      BY <2>1, <2>2, <3>1 DEF UartInv, Latest, DrawnPlaces
  <2> QED
    BY <2>3, <2>4, <2>5 DEF RingInv
<1>2. RingInv /\ [RingNext]_ringVars => RingInv'
  <2> SUFFICES ASSUME RingInv, [RingNext]_ringVars PROVE RingInv'
    OBVIOUS
  <2>1. CASE UNCHANGED <<kind, in, out, data, added, drawn>>
    BY <2>1 DEF RingInv, RingTypes, LockInv, UartInv, Latest, DrawnPlaces
  <2>2. CASE Posted \/ Look \/ Wake \/ UNCHANGED ringVars
    BY <2>1, <2>2 DEF Posted, Look, Wake, ringVars
  <2> QED
    BY <2>2, RingAddKeeps, AddManyKeeps, RingGetKeeps, EmptiedKeeps, UartWriteKeeps, UartReadKeeps DEF RingNext
<1>3. RingInv => RingsAreKept
  <2>1. RingInv => RingIsFifo
    BY DEF RingInv, LockInv, RingIsFifo
  <2> QED
    BY <2>1, UartPlaces DEF RingsAreKept
<1> QED
  BY <1>1, <1>2, <1>3, PTL DEF RingSpec
=============================================================================

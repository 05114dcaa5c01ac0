-------------------------- MODULE ExpiringSetProofs --------------------------
(***************************************************************************)
(* Theorems about ExpiringSet, for every set of items, every TTL and every *)
(* length of the expiry queue.                                             *)
(***************************************************************************)
EXTENDS ExpiringSet, TLAPS

\* Facts about sequences.
LEMMA AppendFacts ==
    ASSUME NEW S, NEW q \in Seq(S), NEW x \in S
    PROVE  /\ Append(q, x) \in Seq(S)
           /\ Len(Append(q, x)) = Len(q) + 1
           /\ Len(q) \in Nat
           /\ \A i \in 1..Len(q) : Append(q, x)[i] = q[i]
           /\ Append(q, x)[Len(q) + 1] = x
  OBVIOUS

\* The same, for the rest of a sequence.
LEMMA TailFacts ==
    ASSUME NEW S, NEW q \in Seq(S), q # <<>>
    PROVE  /\ Tail(q) \in Seq(S)
           /\ Len(Tail(q)) = Len(q) - 1
           /\ Len(q) \in Nat \ {0}
           /\ Head(q) = q[1]
           /\ \A i \in 1..Len(q) - 1 : Tail(q)[i] = q[i + 1]
  OBVIOUS

\* The elements of a sequence over a set are in the set.
LEMMA ElementType ==
    ASSUME NEW S, NEW q \in Seq(S), NEW i \in 1..Len(q)
    PROVE  q[i] \in S
  OBVIOUS

-----------------------------------------------------------------------------
\* The types hold initially.
LEMMA TypeInit == Init => TypeOK
  <1> SUFFICES ASSUME Init PROVE TypeOK
    OBVIOUS
  <1>1. queue \in Seq(Entry) /\ disk \in Seq(Entry)
    BY DEF Init
  <1>2. /\ now \in Nat /\ items \subseteq Item /\ pos \in Nat \ {0}
        /\ arg \in Item \cup {None} /\ answer \in Answer \cup {None}
    BY DEF Init
  <1>4. raised \in BOOLEAN
    BY DEF Init
  <1>3. op = "idle"
    BY DEF Init
  <1> QED
    BY <1>1, <1>2, <1>3, <1>4 DEF TypeOK

\* No step violates them.
LEMMA TypeStep == TypeOK /\ [Next \/ StepBack]_vars => TypeOK'
  <1> SUFFICES ASSUME TypeOK, [Next \/ StepBack]_vars PROVE TypeOK'
    OBVIOUS
  <1> USE DEF TypeOK
  <1>1. CASE Tick \/ StepBack
    BY <1>1 DEF Tick, StepBack
  <1>2. ASSUME NEW x \in Item, CallContains(x) PROVE TypeOK'
    BY <1>2 DEF CallContains
  <1>3. CASE CallAdd
    BY <1>3, NoneAssumption DEF CallAdd, AddPending, Answer
  <1>4. CASE CallPersist
    BY <1>4 DEF CallPersist
  <1>5. CASE Crash
    <2>1. queue' \in Seq(Entry)
      BY <1>5 DEF Crash
    <2> QED
      BY <1>5, <2>1 DEF Crash
  <1>6. CASE CallLoad
    BY <1>6 DEF CallLoad
  <1>7. CASE PopExpired
    BY <1>7, TailFacts DEF PopExpired, HeadExpired
  <1>8. CASE LoadEntry
    <2>1. disk[pos] \in Entry
      BY <1>8, ElementType DEF LoadEntry
    <2>2. queue' \in Seq(Entry)
      BY <1>8, <2>1, AppendFacts DEF LoadEntry
    <2> QED
      BY <1>8, <2>2 DEF LoadEntry
  <1>9. CASE ReturnContains
    BY <1>9 DEF ReturnContains, Answer
  <1>10. CASE ReturnAdd
    <2>1. [item |-> arg, at |-> now] \in Entry
      BY <1>10 DEF ReturnAdd, Entry
    <2> QED
      BY <1>10, <2>1, AppendFacts DEF ReturnAdd
  <1>11. CASE ReturnPersist
    BY <1>11 DEF ReturnPersist
  <1>12. CASE ReturnLoad
    <2>1. ItemsOf(queue) \subseteq Item
      <3>1. \A i \in 1..Len(queue) : queue[i] \in Entry
        BY ElementType
      <3> QED
        BY <3>1 DEF ItemsOf, Entry
    <2> QED
      BY <1>12, <2>1 DEF ReturnLoad
  <1>13. CASE UNCHANGED vars
    BY <1>13 DEF vars
  <1> QED
    BY <1>1, <1>2, <1>3, <1>4, <1>5, <1>6, <1>7, <1>8, <1>9, <1>10, <1>11, <1>12, <1>13
       DEF Next, Call, Return

\* ExpiringSet keeps its types, under a clock that is set back at any time, too.
THEOREM TypeCorrect == SteppedSpec => []TypeOK
  BY TypeInit, TypeStep, PTL DEF SteppedSpec

-----------------------------------------------------------------------------
(* The queue and the item set agree.  This needs no order of the timestamps. *)

Distinct(q) == \A i, j \in 1..Len(q) : q[i].item = q[j].item => i = j

\* No item is loaded twice: what has been loaded differs from what is left.
LoadApart ==
    op = "load" => \A i \in 1..Len(queue) : \A j \in pos..Len(disk) : queue[i].item # disk[j].item

ItemsAgree ==
    IF op \in {"down", "load"}
    THEN items = {} /\ answer = None /\ (op = "down" => queue = <<>>)
    ELSE items = ItemsOf(queue)

\* What is about to be added is not in the set.
AddIsNew ==
    /\ AddPending => answer.item \notin ItemsOf(queue)
    /\ op = "add" => AddPending /\ arg = answer.item

SetInv == NeverRaises /\ Distinct(queue) /\ Distinct(disk) /\ LoadApart /\ ItemsAgree /\ AddIsNew

\* A queue of distinct items stays one when a new item is appended.
LEMMA AppendDistinct ==
    ASSUME NEW q \in Seq(Entry), NEW e \in Entry, e.item \notin ItemsOf(q), Distinct(q)
    PROVE  Distinct(Append(q, e)) /\ ItemsOf(Append(q, e)) = ItemsOf(q) \cup {e.item}
  <1>1. /\ Len(Append(q, e)) = Len(q) + 1
        /\ Len(q) \in Nat
        /\ \A i \in 1..Len(q) : Append(q, e)[i] = q[i]
        /\ Append(q, e)[Len(q) + 1] = e
    BY AppendFacts
  <1>2. \A i \in 1..Len(q) : q[i].item # e.item
    BY DEF ItemsOf
  <1>3. Distinct(Append(q, e))
    BY <1>1, <1>2 DEF Distinct
  <1>4. ItemsOf(Append(q, e)) \subseteq ItemsOf(q) \cup {e.item}
    BY <1>1 DEF ItemsOf
  <1>5. ItemsOf(q) \cup {e.item} \subseteq ItemsOf(Append(q, e))
    BY <1>1 DEF ItemsOf
  <1> QED
    BY <1>3, <1>4, <1>5

\* What is popped from such a queue is not in the rest of it.
LEMMA TailDistinct ==
    ASSUME NEW q \in Seq(Entry), q # <<>>, Distinct(q)
    PROVE  /\ Distinct(Tail(q))
           /\ ItemsOf(Tail(q)) = ItemsOf(q) \ {Head(q).item}
           /\ Head(q).item \in ItemsOf(q)
  <1>1. /\ Len(Tail(q)) = Len(q) - 1
        /\ Len(q) \in Nat \ {0}
        /\ Head(q) = q[1]
        /\ \A i \in 1..Len(q) - 1 : Tail(q)[i] = q[i + 1]
    BY TailFacts
  <1>2. Distinct(Tail(q))
    BY <1>1 DEF Distinct
  <1>3. ItemsOf(Tail(q)) \subseteq ItemsOf(q) \ {Head(q).item}
    BY <1>1 DEF ItemsOf, Distinct
  <1>4. ASSUME NEW x \in ItemsOf(q), x # Head(q).item PROVE x \in ItemsOf(Tail(q))
    <2>1. PICK i \in 1..Len(q) : x = q[i].item
      BY DEF ItemsOf
    <2>2. i - 1 \in 1..Len(Tail(q)) /\ Tail(q)[i - 1] = q[i]
      BY <1>1, <1>4, <2>1
    <2> QED
      BY <2>1, <2>2 DEF ItemsOf
  <1>5. Head(q).item \in ItemsOf(q)
    BY <1>1 DEF ItemsOf
  <1> QED
    BY <1>2, <1>3, <1>4, <1>5

\* The steps that only change the clock.
LEMMA SetIdle ==
    ASSUME SetInv, UNCHANGED <<items, queue, disk, op, arg, pos, answer, raised>>
    PROVE  SetInv'
  BY DEF SetInv, NeverRaises, Distinct, LoadApart, ItemsAgree, AddIsNew, AddPending, ItemsOf

\* No step lets the set and the queue disagree.
LEMMA SetStep == TypeOK /\ SetInv /\ [Next \/ StepBack]_vars => SetInv'
  <1> SUFFICES ASSUME TypeOK, SetInv, [Next \/ StepBack]_vars PROVE SetInv'
    OBVIOUS
  <1> USE DEF SetInv, NeverRaises, LoadApart, ItemsAgree, AddIsNew
  <1>1. CASE Tick \/ StepBack \/ UNCHANGED vars
    BY <1>1, SetIdle DEF Tick, StepBack, vars
  <1>2. ASSUME NEW x \in Item, CallContains(x) PROVE SetInv'
    BY <1>2 DEF CallContains, Distinct, ItemsOf, AddPending
  <1>3. CASE CallAdd
    BY <1>3 DEF CallAdd, Distinct, ItemsOf, AddPending
  <1>4. CASE CallPersist
    BY <1>4 DEF CallPersist, Distinct, ItemsOf, AddPending
  <1>5. CASE PopExpired
    <2>1. queue \in Seq(Entry) /\ queue # <<>> /\ queue' = Tail(queue) /\ op \notin {"load", "down"}
      BY <1>5 DEF PopExpired, HeadExpired, TypeOK
    <2>2. /\ Distinct(queue')
          /\ ItemsOf(queue)' = ItemsOf(queue) \ {Head(queue).item}
          /\ Head(queue).item \in ItemsOf(queue)
      BY <2>1, TailDistinct DEF ItemsOf
    <2>3. items = ItemsOf(queue)
      BY <2>1
    <2>4. op' = op /\ items' = ItemsOf(queue)' /\ UNCHANGED <<disk, arg, answer, raised>>
      BY <1>5, <2>2, <2>3 DEF PopExpired
    <2> QED
      BY <2>1, <2>2, <2>4 DEF AddPending, Distinct
  <1>6. CASE ReturnContains
    <2>1. answer'.item = arg /\ answer'.found = (arg \in items)
      BY <1>6 DEF ReturnContains
    <2>2. AddPending' => answer'.item \notin ItemsOf(queue)
      BY <1>6, <2>1 DEF ReturnContains, AddPending
    <2> QED
      BY <1>6, <2>2 DEF ReturnContains, Distinct, ItemsOf
  <1>7. CASE ReturnAdd
    <2> DEFINE e == [item |-> arg, at |-> now]
    <2>1. e \in Entry /\ queue \in Seq(Entry) /\ e.item \notin ItemsOf(queue)
      BY <1>7 DEF ReturnAdd, TypeOK, Entry
    <2>2. Distinct(queue') /\ ItemsOf(queue)' = ItemsOf(queue) \cup {arg}
      BY <1>7, <2>1, AppendDistinct DEF ReturnAdd, ItemsOf
    <2> QED
      BY <1>7, <2>2 DEF ReturnAdd, AddPending, Distinct
  <1>8. CASE ReturnPersist
    BY <1>8 DEF ReturnPersist, Distinct, ItemsOf, AddPending
  <1>9. CASE Crash
    <2>1. Len(<<>>) = 0
      OBVIOUS
    <2> QED
      BY <1>9, <2>1 DEF Crash, Distinct, ItemsOf, AddPending
  <1>10. CASE CallLoad
    BY <1>10 DEF CallLoad, Distinct, ItemsOf, AddPending
  <1>11. CASE LoadEntry
    <2>1. pos \in 1..Len(disk) /\ disk[pos] \in Entry /\ queue \in Seq(Entry)
      BY <1>11, ElementType DEF LoadEntry, TypeOK
    <2>2. disk[pos].item \notin ItemsOf(queue)
      BY <1>11, <2>1 DEF LoadEntry, ItemsOf
    <2>3. \A j \in pos + 1..Len(disk) : disk[j].item # disk[pos].item
      BY <2>1 DEF Distinct
    <2>4. CASE queue' = Append(queue, disk[pos])
      <3>1. Distinct(queue')
        BY <2>1, <2>2, <2>4, AppendDistinct
      <3>2. \A i \in 1..Len(queue') : queue'[i] = disk[pos] \/ (i \in 1..Len(queue) /\ queue'[i] = queue[i])
        BY <2>1, <2>4, AppendFacts
      <3>3. LoadApart'
        BY <1>11, <2>1, <2>3, <3>2 DEF LoadEntry
      <3> QED
        BY <1>11, <3>1, <3>3 DEF LoadEntry, AddPending, Distinct
    <2>5. CASE queue' = queue
      BY <1>11, <2>1, <2>5 DEF LoadEntry, AddPending, Distinct, ItemsOf
    <2> QED
      BY <1>11, <2>4, <2>5 DEF LoadEntry
  <1>12. CASE ReturnLoad
    BY <1>12 DEF ReturnLoad, Distinct, ItemsOf, AddPending
  <1> QED
    BY <1>1, <1>2, <1>3, <1>4, <1>5, <1>6, <1>7, <1>8, <1>9, <1>10, <1>11, <1>12
       DEF Next, Call, Return

\* They agree initially.
LEMMA SetInit == Init => SetInv
  <1>1. Len(<<>>) = 0
    OBVIOUS
  <1> QED
    BY <1>1 DEF Init, SetInv, NeverRaises, Distinct, LoadApart, ItemsAgree, AddIsNew, AddPending,
       ItemsOf

(***************************************************************************)
(* NeverRaises for every clock: no call ends in a KeyError, even if the    *)
(* wall clock is set back between any two readings.                        *)
(***************************************************************************)
THEOREM NoKeyError == SteppedSpec => []NeverRaises
  <1>1. SetInv => NeverRaises
    BY DEF SetInv
  <1> QED
    BY <1>1, SetInit, SetStep, TypeCorrect, PTL DEF SteppedSpec

-----------------------------------------------------------------------------
(* With a clock that never goes back the queue is ordered by age, so that    *)
(* what _expire leaves is all fresh.                                         *)

Ordered(q) ==
    /\ \A i, j \in 1..Len(q) : i <= j => q[i].at <= q[j].at
    /\ \A i \in 1..Len(q) : q[i].at <= now

LoadOrdered ==
    op = "load" =>
        /\ \A i \in 1..Len(queue) : \A j \in pos..Len(disk) : queue[i].at <= disk[j].at
        /\ EntriesOf(queue) \subseteq EntriesOf(disk)
        /\ \A j \in 1..Len(disk) : j < pos /\ Fresh(disk[j], now) => disk[j] \in EntriesOf(queue)

TimeInv == Ordered(queue) /\ Ordered(disk) /\ LoadOrdered

\* A queue ordered by time stays so when an entry of the present is appended.
LEMMA AppendOrdered ==
    ASSUME TypeOK, NEW q \in Seq(Entry), NEW e \in Entry, Ordered(q), e.at <= now,
           \A i \in 1..Len(q) : q[i].at <= e.at
    PROVE  Ordered(Append(q, e)) /\ EntriesOf(Append(q, e)) = EntriesOf(q) \cup {e}
  <1>1. /\ Len(Append(q, e)) = Len(q) + 1
        /\ Len(q) \in Nat
        /\ \A i \in 1..Len(q) : Append(q, e)[i] = q[i]
        /\ Append(q, e)[Len(q) + 1] = e
    BY AppendFacts
  <1>2. e.at \in Nat
    BY DEF Entry
  <1>3. Ordered(Append(q, e))
    BY <1>1, <1>2 DEF Ordered
  <1>4. EntriesOf(Append(q, e)) \subseteq EntriesOf(q) \cup {e}
    BY <1>1 DEF EntriesOf
  <1>5. EntriesOf(q) \cup {e} \subseteq EntriesOf(Append(q, e))
    BY <1>1 DEF EntriesOf
  <1> QED
    BY <1>3, <1>4, <1>5

\* No step brings the queue out of order, as long as the clock does not go back.
LEMMA TimeStep == TypeOK /\ SetInv /\ TimeInv /\ [Next]_vars => TimeInv'
  <1> SUFFICES ASSUME TypeOK, SetInv, TimeInv, [Next]_vars PROVE TimeInv'
    OBVIOUS
  <1> USE DEF TimeInv, LoadOrdered
  <1>1. ASSUME NEW q \in Seq(Entry), NEW i \in 1..Len(q) PROVE q[i].at \in Nat
    <2>1. q[i] \in Entry
      BY ElementType
    <2> QED
      BY <2>1 DEF Entry
  <1>2. now \in Nat /\ queue \in Seq(Entry) /\ disk \in Seq(Entry) /\ TTL \in Nat
    BY TTLAssumption DEF TypeOK
  <1>3. CASE Tick
    <2>1. now' = now + 1
      BY <1>3 DEF Tick
    <2>2. Ordered(queue)' /\ Ordered(disk)'
      BY <1>1, <1>2, <1>3, <2>1 DEF Tick, Ordered
    <2>3. \A j \in 1..Len(disk) : Fresh(disk[j], now') => Fresh(disk[j], now)
      BY <1>1, <1>2, <2>1 DEF Fresh
    <2> QED
      BY <1>3, <2>2, <2>3 DEF Tick, EntriesOf
  <1>4. ASSUME NEW x \in Item, CallContains(x) PROVE TimeInv'
    BY <1>4 DEF CallContains, Ordered
  <1>5. CASE CallAdd
    BY <1>5 DEF CallAdd, Ordered
  <1>6. CASE CallPersist
    BY <1>6 DEF CallPersist, Ordered
  <1>7. CASE PopExpired
    <2>1. /\ queue' = Tail(queue) /\ op' # "load" /\ UNCHANGED <<disk, now>>
          /\ Len(Tail(queue)) = Len(queue) - 1 /\ Len(queue) \in Nat \ {0}
          /\ \A i \in 1..Len(queue) - 1 : Tail(queue)[i] = queue[i + 1]
      BY <1>2, <1>7, TailFacts DEF PopExpired, HeadExpired
    <2> QED
      BY <2>1 DEF Ordered
  <1>8. CASE ReturnContains
    BY <1>8 DEF ReturnContains, Ordered
  <1>9. CASE ReturnAdd
    <2> DEFINE e == [item |-> arg, at |-> now]
    <2>1. e \in Entry /\ \A i \in 1..Len(queue) : queue[i].at <= e.at
      BY <1>2, <1>9 DEF ReturnAdd, TypeOK, Entry, Ordered
    <2>2. Ordered(queue')
      BY <1>2, <1>9, <2>1, AppendOrdered DEF ReturnAdd
    <2> QED
      BY <1>9, <2>2 DEF ReturnAdd, Ordered
  <1>10. CASE ReturnPersist
    BY <1>10 DEF ReturnPersist, Ordered
  <1>11. CASE Crash
    <2>1. Len(<<>>) = 0
      OBVIOUS
    <2> QED
      BY <1>11, <2>1 DEF Crash, Ordered
  <1>12. CASE CallLoad
    <2>1. queue = <<>> /\ EntriesOf(<<>>) = {} /\ Len(<<>>) = 0
      BY <1>12 DEF CallLoad, SetInv, ItemsAgree, EntriesOf
    <2> QED
      BY <1>2, <1>12, <2>1 DEF CallLoad, Ordered, EntriesOf
  <1>13. CASE LoadEntry
    <2>1. /\ pos \in 1..Len(disk) /\ disk[pos] \in Entry /\ Len(disk) \in Nat /\ Len(queue) \in Nat
          /\ pos' = pos + 1 /\ op = "load" /\ op' = op /\ UNCHANGED <<disk, now>>
      BY <1>2, <1>13, ElementType DEF LoadEntry, TypeOK
    <2>2. disk[pos] \in EntriesOf(disk)
      BY <2>1 DEF EntriesOf
    <2>3. CASE queue' = Append(queue, disk[pos])
      <3>1. Ordered(queue') /\ EntriesOf(queue') = EntriesOf(queue) \cup {disk[pos]}
        BY <1>2, <2>1, <2>3, AppendOrdered DEF Ordered
      <3>2. \A i \in 1..Len(queue') : queue'[i] = disk[pos] \/ (i \in 1..Len(queue) /\ queue'[i] = queue[i])
        BY <1>2, <2>1, <2>3, AppendFacts
      <3>3. \A i \in 1..Len(queue') : \A j \in pos'..Len(disk) : queue'[i].at <= disk[j].at
        BY <2>1, <3>2 DEF Ordered
      <3>4. \A j \in 1..Len(disk) : j < pos' => j < pos \/ j = pos
        BY <2>1
      <3> QED
        BY <2>1, <2>2, <3>1, <3>3, <3>4 DEF Ordered, EntriesOf
    <2>4. CASE queue' = queue /\ ~Fresh(disk[pos], now)
      <3>1. \A j \in 1..Len(disk) : j < pos' => j < pos \/ j = pos
        BY <2>1
      <3>2. Ordered(queue)' /\ Ordered(disk)'
        BY <2>1, <2>4 DEF Ordered
      <3>3. EntriesOf(queue)' = EntriesOf(queue) /\ EntriesOf(disk)' = EntriesOf(disk)
        BY <2>1, <2>4 DEF EntriesOf
      <3>4. \A i \in 1..Len(queue) : \A j \in pos'..Len(disk) : queue[i].at <= disk[j].at
        BY <2>1
      <3> QED
        BY <2>1, <2>4, <3>1, <3>2, <3>3, <3>4
    <2> QED
      BY <1>13, <2>3, <2>4 DEF LoadEntry
  <1>14. CASE ReturnLoad
    BY <1>14 DEF ReturnLoad, Ordered
  <1>15. CASE UNCHANGED vars
    BY <1>15 DEF vars, Ordered, EntriesOf
  <1> QED
    BY <1>3, <1>4, <1>5, <1>6, <1>7, <1>8, <1>9, <1>10, <1>11, <1>12, <1>13, <1>14, <1>15
       DEF Next, Call, Return

\* The queue is in order initially.
LEMMA TimeInit == Init => TimeInv
  <1>1. Len(<<>>) = 0
    OBVIOUS
  <1> QED
    BY <1>1 DEF Init, TimeInv, Ordered, LoadOrdered

-----------------------------------------------------------------------------
(* ExpiringSet implements ReportMemory. *)

\* The entries that the abstract memory holds.
Remembered == IF op = "load" THEN {} ELSE Live(EntriesOf(queue), now)

Inv == TypeOK /\ SetInv /\ TimeInv

\* What _expire leaves in the queue is fresh.
LEMMA AllFresh ==
    ASSUME Inv, ~HeadExpired
    PROVE  Live(EntriesOf(queue), now) = EntriesOf(queue)
  <1>1. \A i \in 1..Len(queue) : queue[i].at \in Nat
    <2> SUFFICES ASSUME NEW i \in 1..Len(queue) PROVE queue[i].at \in Nat
      OBVIOUS
    <2>1. queue[i] \in Entry
      BY ElementType DEF Inv, TypeOK
    <2> QED
      BY <2>1 DEF Entry
  <1>2. ASSUME NEW i \in 1..Len(queue) PROVE Fresh(queue[i], now)
    <2>1. queue # <<>> /\ Head(queue) = queue[1] /\ 1 \in 1..Len(queue) /\ 1 <= i
      BY <1>2, TailFacts DEF Inv, TypeOK
    <2>2. queue[1].at <= queue[i].at
      BY <2>1 DEF Inv, TimeInv, Ordered
    <2>3. now \in Nat /\ TTL \in Nat /\ now - queue[1].at < TTL
      BY <1>1, <2>1, TTLAssumption DEF HeadExpired, Inv, TypeOK
    <2> QED
      BY <1>1, <2>1, <2>2, <2>3 DEF Fresh
  <1> QED
    BY <1>2 DEF Live, EntriesOf

\* The entry that _expire takes away was not remembered any more.
LEMMA PopForgetsNothing ==
    ASSUME Inv, HeadExpired
    PROVE  Live(EntriesOf(Tail(queue)), now) = Live(EntriesOf(queue), now)
  <1>1. /\ Len(Tail(queue)) = Len(queue) - 1
        /\ Len(queue) \in Nat \ {0}
        /\ Head(queue) = queue[1]
        /\ \A i \in 1..Len(queue) - 1 : Tail(queue)[i] = queue[i + 1]
    BY TailFacts DEF HeadExpired, Inv, TypeOK
  <1>2. EntriesOf(Tail(queue)) \subseteq EntriesOf(queue)
    BY <1>1 DEF EntriesOf
  <1>3. queue[1].at \in Nat /\ now \in Nat /\ TTL \in Nat
    <2>1. queue[1] \in Entry
      BY <1>1, ElementType DEF Inv, TypeOK
    <2> QED
      BY <2>1, TTLAssumption DEF Entry, Inv, TypeOK
  <1>4. ~Fresh(queue[1], now)
    BY <1>1, <1>3 DEF HeadExpired, Fresh
  <1>5. ASSUME NEW e \in EntriesOf(queue), Fresh(e, now) PROVE e \in EntriesOf(Tail(queue))
    <2>1. PICK i \in 1..Len(queue) : e = queue[i]
      BY DEF EntriesOf
    <2>2. i # 1
      BY <1>4, <1>5, <2>1
    <2>3. i - 1 \in 1..Len(Tail(queue)) /\ Tail(queue)[i - 1] = queue[i]
      BY <1>1, <2>1, <2>2
    <2> QED
      BY <2>1, <2>3 DEF EntriesOf
  <1> QED
    BY <1>2, <1>5 DEF Live

\* The operators that both modules take from TimedEntries.
LEMMA SameOperators ==
    ASSUME NEW s, NEW x, NEW t
    PROVE  Memory!Live(s, t) = Live(s, t) /\ Memory!Remembers(s, x, t) = Remembers(s, x, t)
  BY DEF Memory!Live, Live, Memory!Remembers, Remembers, Memory!Fresh, Fresh

\* The initial states are initial states of the memory.
LEMMA RefineInit == Init => Memory!Init
  BY DEF Init, Memory!Init, Live, EntriesOf

\* Every step is a step of the memory or leaves it alone.
LEMMA RefineStep == Inv /\ [Next]_vars => [Memory!Next]_Memory!memoryVars
  <1> SUFFICES ASSUME Inv, [Next]_vars
               PROVE  Memory!Next \/ UNCHANGED <<now, Remembered, EntriesOf(disk), answer>>
    BY DEF Memory!memoryVars, Remembered
  <1> USE DEF Remembered
  <1>1. CASE Tick
    <2>1. now \in Nat /\ TTL \in Nat /\ now' = now + 1
      BY <1>1, TTLAssumption DEF Inv, TypeOK, Tick
    <2>2. ASSUME NEW e \in EntriesOf(queue), Fresh(e, now') PROVE Fresh(e, now)
      <3>1. PICK i \in 1..Len(queue) : e = queue[i]
        BY DEF EntriesOf
      <3>2. e.at \in Nat
        <4>1. queue[i] \in Entry
          BY ElementType DEF Inv, TypeOK
        <4> QED
          BY <3>1, <4>1 DEF Entry
      <3> QED
        BY <2>1, <2>2, <3>2 DEF Fresh
    <2>3. Live(EntriesOf(queue), now') = Live(Live(EntriesOf(queue), now), now')
      BY <2>2 DEF Live
    <2>4. Remembered' = Live(Remembered, now')
      BY <1>1, <2>3 DEF Tick, EntriesOf, Live
    <2> QED
      BY <1>1, <2>4, SameOperators DEF Tick, Memory!Next, Memory!Tick, EntriesOf
  <1>2. CASE \/ \E x \in Item : CallContains(x)
             \/ CallAdd \/ CallPersist
    BY <1>2 DEF CallContains, CallAdd, CallPersist
  <1>3. CASE PopExpired
    BY <1>3, PopForgetsNothing DEF PopExpired
  <1>4. CASE ReturnContains
    <2>1. /\ arg \in Item /\ op = "contains" /\ op' = "idle"
          /\ Remembered = EntriesOf(queue) /\ items = ItemsOf(queue)
      BY <1>4, AllFresh DEF ReturnContains, Inv, TypeOK, SetInv, ItemsAgree
    <2>2. Remembers(Remembered, arg, now) <=> arg \in items
      BY <1>4, <2>1, AllFresh DEF ReturnContains, Remembers, Live, EntriesOf, ItemsOf
    <2>3. answer' = [item |-> arg, found |-> Remembers(Remembered, arg, now)]
      <3>1. answer' = [item |-> arg, found |-> arg \in items]
        BY <1>4 DEF ReturnContains
      <3>2. (arg \in items) = Remembers(Remembered, arg, now)
        <4>1. Remembers(Remembered, arg, now) \in BOOLEAN
          BY Zenon DEF Remembers
        <4>2. (arg \in items) \in BOOLEAN
          BY SMT
        <4> QED
          BY <2>2, <4>1, <4>2, Zenon
      <3> QED
        BY <3>1, <3>2, Zenon
    <2>4. Memory!Contains(arg)
      <3>1. Memory!Remembers(Remembered, arg, now) = Remembers(Remembered, arg, now)
        BY SameOperators
      <3>2. UNCHANGED <<now, Remembered, EntriesOf(disk)>>
        BY <1>4, <2>1 DEF ReturnContains, EntriesOf
      <3> QED
        BY <2>3, <3>1, <3>2 DEF Memory!Contains
    <2> QED
      BY <2>1, <2>4 DEF Memory!Next
  <1>5. CASE ReturnAdd
    <2> DEFINE e == [item |-> arg, at |-> now]
    <2>1. e \in Entry /\ queue \in Seq(Entry) /\ AddPending /\ answer.item = arg
      BY <1>5 DEF ReturnAdd, Inv, TypeOK, Entry, SetInv, AddIsNew
    <2>2. EntriesOf(queue)' = EntriesOf(queue) \cup {e}
      <3>1. \A i \in 1..Len(queue) : queue[i].at <= e.at
        BY DEF Inv, TimeInv, Ordered
      <3> QED
        BY <1>5, <2>1, <3>1, AppendOrdered DEF ReturnAdd, Inv, TypeOK, TimeInv, EntriesOf
    <2>3. Remembered = EntriesOf(queue) /\ op' = "idle" /\ now' = now
      BY <1>5, AllFresh DEF ReturnAdd
    <2>4. Remembered' = Live(Remembered \cup {e}, now)
      BY <2>2, <2>3
    <2> QED
      <3>1. UNCHANGED <<now, EntriesOf(disk)>> /\ answer' = None
        BY <1>5 DEF ReturnAdd, EntriesOf
      <3>2. Memory!Live(Remembered \cup {e}, now) = Live(Remembered \cup {e}, now)
        BY SameOperators
      <3> QED
        BY <2>1, <2>4, <3>1, <3>2 DEF AddPending, Memory!Next, Memory!Add
  <1>6. CASE ReturnPersist
    <2>1. EntriesOf(disk)' = Remembered
      BY <1>6, AllFresh DEF ReturnPersist, EntriesOf
    <2> QED
      BY <1>6, <2>1 DEF ReturnPersist, Memory!Next, Memory!Persist
  <1>7. CASE Crash
    <2>1. EntriesOf(queue)' = {}
      BY <1>7 DEF Crash, EntriesOf
    <2> QED
      BY <1>7, <2>1 DEF Crash, Live, Memory!Next, Memory!Crash
  <1>8. CASE CallLoad
    <2>1. EntriesOf(queue) = {}
      BY <1>8 DEF CallLoad, Inv, SetInv, ItemsAgree, EntriesOf
    <2> QED
      BY <1>8, <2>1 DEF CallLoad, Live
  <1>9. CASE LoadEntry
    BY <1>9 DEF LoadEntry
  <1>10. CASE ReturnLoad
    <2>1. /\ EntriesOf(queue) \subseteq EntriesOf(disk)
          /\ \A j \in 1..Len(disk) : Fresh(disk[j], now) => disk[j] \in EntriesOf(queue)
      BY <1>10 DEF ReturnLoad, Inv, TimeInv, LoadOrdered, TypeOK
    <2>2. Live(EntriesOf(queue), now) = Live(EntriesOf(disk), now)
      BY <2>1 DEF Live, EntriesOf
    <2> QED
      <3>1. op = "load" /\ op' = "idle" /\ UNCHANGED <<now, queue, disk, answer>>
        BY <1>10 DEF ReturnLoad
      <3>2. Memory!Live(EntriesOf(disk), now) = Live(EntriesOf(disk), now)
        BY SameOperators
      <3>3. Remembered' = Live(EntriesOf(disk), now)
        BY <2>2, <3>1 DEF EntriesOf, Live
      <3> QED
        BY <3>1, <3>2, <3>3 DEF EntriesOf, Memory!Next, Memory!Load
  <1>11. CASE UNCHANGED vars
    BY <1>11 DEF vars
  <1> QED
    BY <1>1, <1>2, <1>3, <1>4, <1>5, <1>6, <1>7, <1>8, <1>9, <1>10, <1>11 DEF Next, Call, Return

(***************************************************************************)
(* ImplementsMemory for every TTL, every number of items and every history *)
(* of calls, expiries and restarts: what App relies on.                    *)
(***************************************************************************)
THEOREM Implementation == Spec => ImplementsMemory
  <1>1. Init => Inv
    BY TypeInit, SetInit, TimeInit DEF Inv
  <1>2. Inv /\ [Next]_vars => Inv'
    BY TypeStep, SetStep, TimeStep DEF Inv
  <1> QED
    BY <1>1, <1>2, RefineInit, RefineStep, PTL DEF Spec, ImplementsMemory, Memory!Spec
=============================================================================

---------------------------- MODULE AlarmProofs ----------------------------
(***************************************************************************)
(* Alarms fire on their tick, for any number of alarms and any width of    *)
(* the counter, as long as no two end on one tick and an alarm is released *)
(* only when it is alone: the two cases in which alarm.c goes wrong.       *)
(***************************************************************************)
EXTENDS Alarm, CountProofs, FiniteSetTheorems, TLAPS

\* What callers keep to.
Callers == Releases \in {"none", "only"} /\ DistinctTimes

-----------------------------------------------------------------------------
(* The inductive invariant.                                                *)

Places == 0..(count - 1)

\* The queue names each active alarm in one place.
OnePlaceEach == \A i, j \in Places : queue[i] = queue[j] => i = j

\* left is how far the alarm's target is ahead of the counter, and no two
\* targets are the same, the one being served included.
LeftIsAhead ==
    /\ \A a \in active : left[a] \in 0..(Wrap - 1) /\ target[a] = (now + left[a]) % Wrap
    /\ \A a, b \in active : target[a] = target[b] => a = b
    /\ disp.pc = "call" => \A a \in active : target[a] # disp.target

\* An alarm that is due is first in the queue, and its interrupt is pending or
\* being served.
DueIsServed == \A a \in active : left[a] = 0 => (irq \/ disp.pc = "fire") /\ a = queue[0]

\* The compare register waits for the first alarm that is not due.
CompareSet ==
    /\ disp.pc # "fire" => /\ matching <=> count > 0
                           /\ count > 0 => comp = target[queue[0]]
    /\ disp.pc = "fire" => /\ count > 0 /\ left[queue[0]] = 0 /\ ~irq
                           /\ matching <=> count > 1
                           /\ count > 1 => comp = target[queue[1]]
    /\ irq => disp.pc = "idle" /\ count > 0 /\ left[queue[0]] = 0

Inv ==
    /\ TypeOK /\ QueueIsActive /\ OnePlaceEach /\ QueueInOrder
    /\ LeftIsAhead /\ DueIsServed /\ CompareSet
    /\ FiresOnTime /\ ElapsedExact

-----------------------------------------------------------------------------
(* Lemmas about the operators.                                             *)

\* The sum and the difference of two times, without %.
LEMMA TurnForward ==
    ASSUME NEW x \in Time, NEW y \in Time
    PROVE  (x + y) % Wrap = (IF x + y < Wrap THEN x + y ELSE x + y - Wrap)
BY AlarmAssumption DEF Time
LEMMA TurnNone ==
    ASSUME NEW x \in Time
    PROVE  (x + 0) % Wrap = x
<1>1. x \in Int /\ x >= 0 /\ x < Wrap /\ Wrap \in Int
  BY AlarmAssumption DEF Time
<1> QED
  BY <1>1
LEMMA TurnBack ==
    ASSUME NEW x \in Time, NEW y \in Time
    PROVE  (x - y) % Wrap = (IF x >= y THEN x - y ELSE x - y + Wrap)
BY AlarmAssumption DEF Time

\* A set of numbers that holds all smaller ones is an interval, as long as it has members.
LEMMA InitialSegment ==
    ASSUME NEW n \in Nat, NEW S \in SUBSET (0..(n - 1)),
           \A i \in S : \A j \in 0..(n - 1) : j < i => j \in S
    PROVE  Cardinality(S) \in 0..n /\ S = 0..(Cardinality(S) - 1)
<1> DEFINE Out == (0..n) \ S
<1>1. Out \in SUBSET Nat /\ Out # {}
  <2>1. n \in Out
    OBVIOUS
  <2> QED
    BY <2>1
<1> HIDE DEF Out
<1>2. PICK m \in Out : \A k \in Out : m <= k
  BY <1>1, LeastNatural
<1>3. m \in 0..n /\ m \notin S
  BY DEF Out
<1>4. \A i \in 0..(m - 1) : i \in S
  BY <1>2, <1>3 DEF Out
<1>5. S = 0..(m - 1)
  <2>1. ASSUME NEW i \in S, ~(i < m) PROVE FALSE
    <3>1. i \in 0..(n - 1) /\ i # m
      BY <1>3
    <3>2. m \in 0..(n - 1) /\ m < i
      BY <1>3, <2>1, <3>1
    <3> QED
      BY <1>3, <3>2
  <2>2. \A i \in S : i \in 0..(m - 1)
    BY <1>3, <2>1
  <2> QED
    BY <1>4, <2>2
<1>6. Cardinality(0..(m - 1)) = m
  BY <1>3, FS_Interval
<1> QED
  BY <1>3, <1>5, <1>6

\* An alarm's distance from the counter is what is left of it.
LEMMA AheadIsLeft ==
    ASSUME TypeOK, LeftIsAhead, NEW a \in active
    PROVE  Ahead(target[a]) = left[a]
<1>1. now \in Time /\ left[a] \in Time /\ target[a] \in Time
  BY DEF TypeOK, LeftIsAhead, Time
<1>2. target[a] = (IF now + left[a] < Wrap THEN now + left[a] ELSE now + left[a] - Wrap)
  BY <1>1, TurnForward DEF LeftIsAhead
<1>3. Ahead(target[a]) = (IF target[a] >= now THEN target[a] - now ELSE target[a] - now + Wrap)
  BY <1>1, TurnBack DEF Ahead
<1> QED
  BY <1>1, <1>2, <1>3, AlarmAssumption DEF Time

LEMMA AheadOfEnds ==
    ASSUME TypeOK, NEW time \in 1..(Wrap - 1)
    PROVE  Ends(time) \in Time /\ Ahead(Ends(time)) = time
<1>1. now \in Time /\ time \in Time
  BY AlarmAssumption DEF TypeOK, Time
<1>2. Ends(time) = (IF now + time < Wrap THEN now + time ELSE now + time - Wrap)
  BY <1>1, TurnForward DEF Ends
<1>3. Ends(time) \in Time
  BY <1>1, <1>2, AlarmAssumption DEF Time
<1> QED
  BY <1>1, <1>2, <1>3, TurnBack, AlarmAssumption DEF Ahead, Time

\* The place for a new alarm is behind those that fire no later.
LEMMA SlotSplits ==
    ASSUME Inv, NEW time \in 1..(Wrap - 1)
    PROVE  LET k == Slot(Ends(time))
           IN  /\ k \in 0..count
               /\ \A i \in Places : i < k <=> left[queue[i]] <= time
<1> DEFINE S == {i \in Places : left[queue[i]] <= time}
<1>1. \A i \in Places : queue[i] \in active
  BY DEF Inv, QueueIsActive, Queued, Places
<1>2. \A i \in Places : Ahead(target[queue[i]]) = left[queue[i]]
  BY <1>1, AheadIsLeft DEF Inv
<1>3. Slot(Ends(time)) = Cardinality(S)
  BY <1>2, AheadOfEnds DEF Slot, Inv, Places
<1>4. count \in Nat /\ S \in SUBSET (0..(count - 1))
  BY DEF Inv, TypeOK, Places
<1>5. \A i \in S : \A j \in 0..(count - 1) : j < i => j \in S
  <2> SUFFICES ASSUME NEW i \in S, NEW j \in Places, j < i PROVE left[queue[j]] <= time
    BY DEF Places
  <2>1. left[queue[j]] <= left[queue[i]]
    BY DEF Inv, QueueInOrder, Places
  <2>2. left[queue[i]] \in Int /\ left[queue[j]] \in Int
    BY <1>1 DEF Inv, LeftIsAhead
  <2> QED
    BY <2>1, <2>2
<1>6. Cardinality(S) \in 0..count /\ S = 0..(Cardinality(S) - 1)
  <2> HIDE DEF S
  <2> QED
    BY <1>4, <1>5, InitialSegment
<1>7. \A i \in Places : i \in S <=> left[queue[i]] <= time
  OBVIOUS
<1> HIDE DEF S
<1>8. \A i \in Places : i \in S <=> i < Cardinality(S)
  BY <1>4, <1>6 DEF Places
<1> QED
  BY <1>3, <1>6, <1>7, <1>8

-----------------------------------------------------------------------------
(* Every step keeps the invariant.                                         *)

LEMMA InitInv == Init => Inv
<1> SUFFICES ASSUME Init PROVE Inv
  OBVIOUS
<1> USE AlarmAssumption DEF Init, NoDisp
<1>1. TypeOK
  <2>1. 0 \in Time /\ 0 \in Id /\ 0 \in 0..NAlarms /\ 0 \in -1..(Wrap - 1)
    BY DEF Time, Id
  <2> QED
    BY <2>1 DEF TypeOK
<1>2. QueueIsActive
  BY FS_EmptySet DEF QueueIsActive, Queued, CountIsActive
<1> QED
  BY <1>1, <1>2 DEF Inv, OnePlaceEach, QueueInOrder, LeftIsAhead, DueIsServed, CompareSet,
     FiresOnTime, ElapsedExact, Places

\* The lowest free bit belongs to no active alarm.
LEMMA FreeIsFree ==
    ASSUME TypeOK, active # Id
    PROVE  FreeAlarm \in Id \ active
<1>1. (Id \ active) \in SUBSET Nat /\ Id \ active # {}
  <2>1. Id \in SUBSET Nat
    BY AlarmAssumption DEF Id
  <2> QED
    BY <2>1 DEF TypeOK
<1>2. \E a \in Id \ active : \A b \in Id \ active : a <= b
  BY <1>1, LeastNatural
<1> QED
  BY <1>2 DEF FreeAlarm

\* An alarm that is free leaves room in the queue.
LEMMA RoomForOne ==
    ASSUME TypeOK, CountIsActive, NEW a \in Id \ active
    PROVE  /\ count + 1 <= NAlarms
           /\ Cardinality(active \cup {a}) = count + 1
<1>1. IsFiniteSet(Id) /\ Cardinality(Id) = NAlarms
  BY FS_Interval, AlarmAssumption DEF Id
<1>2. IsFiniteSet(active)
  BY <1>1, FS_Subset DEF TypeOK
<1>3. Cardinality(active \cup {a}) = count + 1
  BY <1>2, FS_AddElement DEF CountIsActive
<1>4. (active \cup {a}) \in SUBSET Id
  BY DEF TypeOK
<1>5. Cardinality(active \cup {a}) <= NAlarms
  BY <1>1, <1>4, FS_Subset
<1> QED
  BY <1>3, <1>5

LEMMA SetAlarmInv ==
    ASSUME Inv, Callers, NEW time \in 1..(Wrap - 1), SetAlarm(time)
    PROVE  Inv'
<1> DEFINE a == FreeAlarm
           t == Ends(time)
           k == Slot(t)
<1>1. a \in Id \ active
  BY FreeIsFree DEF Inv, SetAlarm
<1>2. count + 1 <= NAlarms /\ Cardinality(active \cup {a}) = count + 1
  BY <1>1, RoomForOne DEF Inv, QueueIsActive
<1>3. t \in Time /\ Ahead(t) = time
  BY AheadOfEnds DEF Inv
<1>4. k \in 0..count /\ \A i \in Places : i < k <=> left[queue[i]] <= time
  BY SlotSplits
<1>5. t \notin Taken
  BY DEF SetAlarm, Callers
<1>6. /\ disp.pc \in {"idle", "call"}
      /\ active' = active \cup {a}
      /\ set' = [set EXCEPT ![a] = now]
      /\ target' = [target EXCEPT ![a] = t]
      /\ queue' = [i \in 0..NAlarms |->
                      IF i = k THEN a
                      ELSE IF k < i /\ i <= count THEN queue[i - 1] ELSE queue[i]]
      /\ count' = count + 1
      /\ comp' = IF k = 0 THEN t ELSE comp
      /\ matching' = (matching \/ k = 0)
      /\ left' = [left EXCEPT ![a] = time]
      /\ UNCHANGED <<now, irq, disp, misfired>>
  BY DEF SetAlarm
<1>7. t = (now + time) % Wrap
  BY DEF Ends
<1> HIDE DEF a, t, k
<1>n. count \in Nat /\ NAlarms \in Nat /\ Places = 0..(count - 1) /\ Places' = 0..count
  BY <1>6, AlarmAssumption DEF Inv, TypeOK, Places
<1>b. matching' \in BOOLEAN /\ (matching' <=> matching \/ k = 0)
  BY <1>6 DEF Inv, TypeOK
<1>t. TypeOK'
  <2>1. active' \subseteq Id /\ count' \in 0..NAlarms
    BY <1>1, <1>2, <1>6, <1>n DEF Inv, TypeOK
  <2>2. queue' \in [0..NAlarms -> Id]
    <3>1. \A i \in 0..NAlarms : k < i => i - 1 \in 0..NAlarms
      BY <1>4, <1>n
    <3>2. queue \in [0..NAlarms -> Id]
      BY DEF Inv, TypeOK
    <3> QED
      BY <3>1, <3>2, <1>1, <1>6
  <2>3. set' \in [Id -> Time] /\ target' \in [Id -> Time] /\ now' \in Time /\ comp' \in Time
    BY <1>3, <1>6 DEF Inv, TypeOK
  <2>4. left' \in [Id -> -1..(Wrap - 1)]
    <3>1. time \in -1..(Wrap - 1)
      BY AlarmAssumption
    <3> QED
      BY <3>1, <1>6 DEF Inv, TypeOK
  <2> QED
    BY <2>1, <2>2, <2>3, <2>4, <1>b, <1>6 DEF Inv, TypeOK
<1>m. \A i \in Places : queue[i] \in active /\ queue[i] \in Id /\ queue[i] # a
  BY <1>1, <1>n DEF Inv, QueueIsActive, Queued, Places, TypeOK
<1>q. \A i \in Places' : /\ i < k => i \in Places /\ queue'[i] = queue[i]
                         /\ i = k => queue'[i] = a
                         /\ i > k => i - 1 \in Places /\ queue'[i] = queue[i - 1]
  BY <1>2, <1>4, <1>6, <1>n
<1>8. QueueIsActive'
  <2>1. CountIsActive'
    BY <1>2, <1>6 DEF CountIsActive
  <2>2. ASSUME NEW i \in Places' PROVE queue'[i] \in active'
    BY <1>6, <1>m, <1>q, <1>4, <1>n, SMTT(60)
  <2>3. ASSUME NEW b \in active' PROVE \E i \in Places' : queue'[i] = b
    <3>1. CASE b = a
      BY <3>1, <1>4, <1>n, <1>q
    <3>2. CASE b \in active
      <4>1. PICK i \in Places : queue[i] = b
        BY <3>2 DEF Inv, QueueIsActive, Queued, Places
      <4>2. CASE i < k
        BY <4>1, <4>2, <1>n, <1>q
      <4>3. CASE ~(i < k)
        <5>1. i + 1 \in Places' /\ i + 1 > k /\ (i + 1) - 1 = i
          BY <4>3, <1>n, <1>4
        <5> QED
          BY <4>1, <5>1, <1>q
      <4> QED
        BY <4>2, <4>3
    <3> QED
      BY <3>1, <3>2, <1>6
  <2> QED
    BY <2>1, <2>2, <2>3 DEF QueueIsActive, Queued, Places
<1>9. OnePlaceEach'
  <2> SUFFICES ASSUME NEW i \in Places', NEW j \in Places', queue'[i] = queue'[j], i # j PROVE FALSE
    BY DEF OnePlaceEach
  <2>1. \A x, y \in Places : queue[x] = queue[y] => x = y
    BY DEF Inv, OnePlaceEach
  <2> QED
    BY <2>1, <1>m, <1>q, <1>n, <1>4
<1>l. \A i \in Places' : left'[queue'[i]] = (IF i < k THEN left[queue[i]] ELSE IF i = k THEN time
                                             ELSE left[queue[i - 1]])
  <2> SUFFICES ASSUME NEW i \in Places'
               PROVE  left'[queue'[i]] = (IF i < k THEN left[queue[i]] ELSE IF i = k THEN time
                                          ELSE left[queue[i - 1]])
    OBVIOUS
  <2>1. left \in [Id -> Int]
    BY DEF Inv, TypeOK
  <2> QED
    BY <2>1, <1>1, <1>6, <1>m, <1>q, <1>n, <1>4
<1>10. QueueInOrder'
  <2> SUFFICES ASSUME NEW i \in Places', NEW j \in Places', i < j
               PROVE  left'[queue'[i]] <= left'[queue'[j]]
    BY DEF QueueInOrder, Places
  <2>1. \A x, y \in Places : x < y => left[queue[x]] <= left[queue[y]]
    BY DEF Inv, QueueInOrder, Places
  <2>2. \A x \in Places : left[queue[x]] \in Int
    BY <1>m DEF Inv, TypeOK
  <2>3. CASE j < k
    BY <2>1, <2>3, <1>l, <1>n, <1>4, <1>q
  <2>4. CASE j = k
    BY <2>4, <1>l, <1>n, <1>4, <1>q
  <2>5. CASE j > k
    <3>1. j - 1 \in Places /\ left'[queue'[j]] = left[queue[j - 1]]
      BY <2>5, <1>l, <1>q, <1>4, <1>n
    <3>2. CASE i < k
      <4>1. i \in Places /\ left'[queue'[i]] = left[queue[i]] /\ i < j - 1
        BY <3>2, <2>5, <1>l, <1>q, <1>4, <1>n
      <4> QED
        BY <3>1, <4>1, <2>1
    <3>3. CASE i = k
      <4>1. ~(j - 1 < k)
        BY <2>5, <1>4, <1>n
      <4> QED
        BY <3>1, <3>3, <4>1, <1>4, <1>l, <2>2
    <3>4. CASE i > k
      <4>1. i - 1 \in Places /\ left'[queue'[i]] = left[queue[i - 1]] /\ i - 1 < j - 1
        BY <3>4, <1>l, <1>q, <1>4, <1>n
      <4> QED
        BY <3>1, <4>1, <2>1
    <3> QED
      BY <3>2, <3>3, <3>4, <1>4, <1>n
  <2> QED
    BY <2>3, <2>4, <2>5, <1>4, <1>n
<1>11. LeftIsAhead'
  <2>1. time \in 0..(Wrap - 1)
    BY AlarmAssumption
  <2>2. \A b \in active : b # a /\ b \in Id /\ left'[b] = left[b] /\ target'[b] = target[b] /\ target[b] # t
    BY <1>1, <1>5, <1>6 DEF Inv, TypeOK, Taken
  <2>3. left'[a] = time /\ target'[a] = t /\ now' = now /\ disp' = disp
    BY <1>1, <1>6 DEF Inv, TypeOK
  <2>4. disp.pc = "call" => t # disp.target
    BY <1>5 DEF Taken
  <2>5. \A b \in active : left[b] \in 0..(Wrap - 1) /\ target[b] = (now + left[b]) % Wrap
    BY DEF Inv, LeftIsAhead
  <2>6. \A b \in active' : left'[b] \in 0..(Wrap - 1) /\ target'[b] = (now' + left'[b]) % Wrap
    BY <2>1, <2>2, <2>3, <2>5, <1>6, <1>7
  <2>7. \A b, c \in active' : target'[b] = target'[c] => b = c
    BY <2>2, <2>3, <1>6 DEF Inv, LeftIsAhead
  <2>8. disp'.pc = "call" => \A b \in active' : target'[b] # disp'.target
    BY <2>2, <2>3, <2>4, <1>6 DEF Inv, LeftIsAhead
  <2> QED
    BY <2>6, <2>7, <2>8 DEF LeftIsAhead
<1>12. DueIsServed'
  <2> SUFFICES ASSUME NEW b \in active', left'[b] = 0
               PROVE  (irq' \/ disp'.pc = "fire") /\ b = queue'[0]
    BY DEF DueIsServed
  <2>1. b # a /\ b \in active /\ left[b] = 0
    BY <1>1, <1>6 DEF Inv, TypeOK
  <2>2. irq /\ b = queue[0]
    BY <2>1, <1>6 DEF Inv, DueIsServed
  <2>3. 0 \in Places
    BY <2>2, <1>n DEF Inv, CompareSet
  <2>4. 0 < k
    BY <2>1, <2>2, <2>3, <1>4
  <2>5. queue'[0] = queue[0]
    BY <2>3, <2>4, <1>q, <1>n
  <2> QED
    BY <2>2, <2>5, <1>6
<1>13. CompareSet'
  <2>1. CASE k = 0
    <3>1. ~irq
      <4> SUFFICES ASSUME irq PROVE FALSE
        OBVIOUS
      <4>1. 0 \in Places /\ left[queue[0]] = 0
        BY <1>n DEF Inv, CompareSet
      <4> QED
        BY <4>1, <2>1, <1>4
    <3>2. target'[queue'[0]] = t
      BY <2>1, <1>1, <1>6, <1>q, <1>n DEF Inv, TypeOK
    <3>3. matching' /\ count' > 0 /\ comp' = t /\ ~irq' /\ disp'.pc # "fire"
      BY <2>1, <3>1, <1>6, <1>n, <1>b
    <3> QED
      BY <3>2, <3>3 DEF CompareSet
  <2>2. CASE k # 0
    <3>1. 0 \in Places /\ 0 < k /\ count > 0 /\ queue'[0] = queue[0]
      BY <2>2, <1>4, <1>n, <1>q
    <3>2. left'[queue'[0]] = left[queue[0]] /\ target'[queue'[0]] = target[queue[0]]
      BY <3>1, <1>1, <1>6, <1>m DEF Inv, TypeOK
    <3>3. disp.pc # "fire" /\ matching /\ comp = target[queue[0]]
      BY <3>1, <1>6 DEF Inv, CompareSet
    <3>4. matching' /\ count' > 0 /\ comp' = target'[queue'[0]] /\ disp' = disp /\ irq' = irq
      BY <2>2, <3>1, <3>2, <3>3, <1>6, <1>n, <1>b
    <3>5. irq => disp.pc = "idle" /\ left[queue[0]] = 0
      BY DEF Inv, CompareSet
    <3> QED
      BY <3>2, <3>3, <3>4, <3>5 DEF CompareSet
  <2> QED
    BY <2>1, <2>2
<1>14. FiresOnTime'
  BY <1>6 DEF FiresOnTime, Inv
<1>15. ElapsedExact'
  <2> SUFFICES ASSUME NEW b \in active'
               PROVE  Elapsed(b)' = ((target'[b] - set'[b]) % Wrap) - left'[b]
    BY DEF ElapsedExact
  <2>1. CASE b = a
    <3>1. target'[b] = t /\ set'[b] = now /\ left'[b] = time /\ now' = now
      BY <2>1, <1>1, <1>6 DEF Inv, TypeOK
    <3>2. now \in Time
      BY DEF Inv, TypeOK
    <3>3. (t - now) % Wrap = time
      BY <1>3 DEF Ahead
    <3> QED
      BY <3>1, <3>2, <3>3, AlarmAssumption DEF Elapsed, Time
  <2>2. CASE b # a
    <3>1. b \in active /\ target'[b] = target[b] /\ set'[b] = set[b] /\ left'[b] = left[b] /\ now' = now
      BY <2>2, <1>1, <1>6 DEF Inv, TypeOK
    <3> QED
      BY <3>1 DEF Inv, ElapsedExact, Elapsed
  <2> QED
    BY <2>1, <2>2
<1> QED
  BY <1>t, <1>8, <1>9, <1>10, <1>11, <1>12, <1>13, <1>14, <1>15 DEF Inv

\* The only alarm there is leaves nothing behind.
LEMMA ReleaseAlarmInv ==
    ASSUME Inv, Callers, NEW a \in Id, ReleaseAlarm(a)
    PROVE  Inv'
<1>1. active = {a} /\ ~irq /\ disp.pc \in {"idle", "call"}
  BY DEF ReleaseAlarm, Callers
<1>2. count = 1
  BY <1>1, FS_Singleton DEF Inv, QueueIsActive, CountIsActive
<1>3. /\ count' = 0 /\ active' = {} /\ ~ matching'
      /\ queue' = Shifted(0) /\ left' = [left EXCEPT ![a] = 0]
      /\ UNCHANGED <<set, target, now, comp, irq, disp, misfired>>
  <2>1. count' = 0 /\ active' = {}
    BY <1>1, <1>2 DEF ReleaseAlarm
  <2>2. ~ matching'
    BY <2>1 DEF ReleaseAlarm
  <2>3. queue' = Shifted(0)
    BY <2>1 DEF ReleaseAlarm
  <2> QED
    BY <2>1, <2>2, <2>3 DEF ReleaseAlarm
<1>t. TypeOK'
  <2>1. queue' \in [0..NAlarms -> Id]
    BY <1>3, AlarmAssumption DEF Inv, TypeOK, Shifted
  <2>2. left' \in [Id -> -1..(Wrap - 1)]
    BY <1>3, AlarmAssumption DEF Inv, TypeOK
  <2>3. matching' \in BOOLEAN
    BY <1>1, <1>2 DEF Inv, TypeOK, ReleaseAlarm
  <2> QED
    BY <1>3, <2>1, <2>2, <2>3, AlarmAssumption DEF Inv, TypeOK
<1>4. QueueIsActive'
  BY <1>3, FS_EmptySet DEF QueueIsActive, Queued, CountIsActive
<1>5. CompareSet'
  BY <1>1, <1>3 DEF CompareSet
<1> QED
  BY <1>t, <1>3, <1>4, <1>5
     DEF Inv, OnePlaceEach, QueueInOrder, LeftIsAhead, DueIsServed, FiresOnTime, ElapsedExact, Places

\* Time passes only when nothing is due, and what becomes due raises the interrupt.
LEMMA TickInv ==
    ASSUME Inv, Callers, Tick
    PROVE  Inv'
<1>1. /\ ~irq /\ disp.pc # "fire"
      /\ disp.pc = "call" => \A a \in active : left[a] > 1
      /\ now' = (now + 1) % Wrap
      /\ irq' = (matching /\ now' = comp)
      /\ left' = [a \in Id |-> IF a \notin active THEN 0
                               ELSE IF left[a] <= 0 THEN -1 ELSE left[a] - 1]
      /\ UNCHANGED <<active, count, queue, set, target, comp, matching, disp, misfired>>
  BY DEF Tick, alarms
<1>2. \A a \in active : a \in Id /\ left[a] \in 1..(Wrap - 1) /\ left'[a] = left[a] - 1
  <2> SUFFICES ASSUME NEW a \in active
               PROVE  a \in Id /\ left[a] \in 1..(Wrap - 1) /\ left'[a] = left[a] - 1
    OBVIOUS
  <2>1. a \in Id /\ left[a] \in 0..(Wrap - 1)
    BY DEF Inv, TypeOK, LeftIsAhead
  <2>2. left[a] # 0
    BY <1>1 DEF Inv, DueIsServed
  <2> QED
    BY <1>1, <2>1, <2>2
<1>3. now \in Time /\ 1 \in Time /\ now' = (IF now + 1 < Wrap THEN now + 1 ELSE now + 1 - Wrap)
  <2>1. now \in Time /\ 1 \in Time
    BY AlarmAssumption DEF Inv, TypeOK, Time
  <2> QED
    BY <2>1, <1>1, TurnForward
<1>4. now' \in Time
  BY <1>3, AlarmAssumption DEF Time
<1>b. irq' \in BOOLEAN /\ (irq' <=> matching /\ now' = comp)
  BY <1>1 DEF Inv, TypeOK
<1>t. TypeOK'
  <2>1. left' \in [Id -> -1..(Wrap - 1)]
    <3>1. left' = [a \in Id |-> IF a \notin active THEN 0
                                 ELSE IF left[a] <= 0 THEN -1 ELSE left[a] - 1]
      BY <1>1
    <3>2. left \in [Id -> -1..(Wrap - 1)] /\ Wrap \in Nat
      BY AlarmAssumption DEF Inv, TypeOK
    <3> QED
      BY <3>1, <3>2, AlarmAssumption
  <2> QED
    BY <2>1, <1>1, <1>4, <1>b DEF Inv, TypeOK
<1>5. \A a \in active : target[a] = (now' + left'[a]) % Wrap
  <2> SUFFICES ASSUME NEW a \in active PROVE target[a] = (now' + left'[a]) % Wrap
    OBVIOUS
  <2>1. left[a] \in Time /\ left'[a] \in Time /\ left[a] > 0 /\ left'[a] = left[a] - 1
    BY <1>2, AlarmAssumption DEF Time
  <2>2. target[a] = (IF now + left[a] < Wrap THEN now + left[a] ELSE now + left[a] - Wrap)
    BY <1>3, <2>1, TurnForward DEF Inv, LeftIsAhead
  <2>3. (now' + left'[a]) % Wrap
          = (IF now' + left'[a] < Wrap THEN now' + left'[a] ELSE now' + left'[a] - Wrap)
    BY <1>4, <2>1, TurnForward
  <2> QED
    BY <1>3, <2>1, <2>2, <2>3, AlarmAssumption DEF Time
<1>6. \A a \in active : left'[a] = 0 => target[a] = now'
  <2> SUFFICES ASSUME NEW a \in active, left'[a] = 0 PROVE target[a] = now'
    OBVIOUS
  <2>1. target[a] = (now' + 0) % Wrap
    BY <1>5
  <2> QED
    BY <2>1, <1>4, TurnNone
<1>7. QueueIsActive' /\ OnePlaceEach'
  BY <1>1 DEF Inv, QueueIsActive, Queued, CountIsActive, OnePlaceEach, Places
<1>m. \A i \in Places : queue[i] \in active
  BY DEF Inv, QueueIsActive, Queued, Places
<1>8. QueueInOrder'
  <2> SUFFICES ASSUME NEW i \in Places, NEW j \in Places, i < j
               PROVE  left'[queue[i]] <= left'[queue[j]]
    BY <1>1 DEF QueueInOrder, Places
  <2>1. left[queue[i]] <= left[queue[j]]
    BY DEF Inv, QueueInOrder, Places
  <2> QED
    BY <2>1, <1>2, <1>m
<1>9. LeftIsAhead'
  <2>1. \A a \in active : left'[a] \in 0..(Wrap - 1)
    BY <1>2, AlarmAssumption
  <2> QED
    BY <2>1, <1>5, <1>1 DEF Inv, LeftIsAhead
<1>f. count > 0 => 0 \in Places /\ matching /\ comp = target[queue[0]] /\ queue[0] \in active
  BY <1>1, <1>m DEF Inv, CompareSet, Places, TypeOK
<1>10. DueIsServed'
  <2> SUFFICES ASSUME NEW a \in active, left'[a] = 0 PROVE irq' /\ a = queue[0]
    BY <1>1 DEF DueIsServed
  <2>1. PICK i \in Places : queue[i] = a
    BY DEF Inv, QueueIsActive, Queued, Places
  <2>2. 0 \in Places /\ count > 0
    BY <2>1 DEF Places, Inv, TypeOK
  <2>3. i = 0 \/ left[queue[0]] <= left[a]
    BY <2>1, <2>2 DEF Inv, QueueInOrder, Places
  <2>4. left'[queue[0]] = 0
    BY <2>1, <2>3, <1>2, <1>f, <2>2
  <2>5. target[queue[0]] = now' /\ target[a] = now'
    BY <2>2, <2>4, <1>6, <1>f
  <2>6. a = queue[0]
    BY <2>2, <2>5, <1>f DEF Inv, LeftIsAhead
  <2> QED
    BY <2>2, <2>5, <2>6, <1>b, <1>f
<1>11. CompareSet'
  <2>1. irq' => disp.pc = "idle" /\ count > 0 /\ left'[queue[0]] = 0
    <3> SUFFICES ASSUME irq' PROVE disp.pc = "idle" /\ count > 0 /\ left'[queue[0]] = 0
      OBVIOUS
    <3>1. matching /\ now' = comp
      BY <1>b
    <3>2. count > 0
      BY <3>1, <1>1 DEF Inv, CompareSet
    <3>3. target[queue[0]] = now' /\ queue[0] \in active
      BY <3>1, <3>2, <1>f
    <3>4. left'[queue[0]] \in Time
      BY <3>3, <1>2, AlarmAssumption DEF Time
    <3>5. now' = (IF now' + left'[queue[0]] < Wrap THEN now' + left'[queue[0]]
                  ELSE now' + left'[queue[0]] - Wrap)
      BY <3>3, <3>4, <1>4, <1>5, TurnForward
    <3>6. left'[queue[0]] = 0
      BY <3>4, <3>5, <1>4, AlarmAssumption DEF Time
    <3>7. disp.pc # "call"
      BY <3>3, <3>6, <1>1, <1>2
    <3> QED
      BY <3>2, <3>6, <3>7, <1>1 DEF Inv, TypeOK
  <2> QED
    BY <2>1, <1>1, <1>f DEF Inv, CompareSet
<1>12. FiresOnTime'
  BY <1>1 DEF FiresOnTime, Inv
<1>13. ElapsedExact'
  <2> SUFFICES ASSUME NEW a \in active
               PROVE  Elapsed(a)' = ((target[a] - set[a]) % Wrap) - left'[a]
    BY <1>1 DEF ElapsedExact
  <2>1. set[a] \in Time /\ target[a] \in Time
    BY <1>2 DEF Inv, TypeOK
  <2>2. Elapsed(a) = ((target[a] - set[a]) % Wrap) - left[a]
    BY DEF Inv, ElapsedExact
  <2>3. (target[a] - set[a]) % Wrap \in 0..(Wrap - 1)
    BY <2>1, TurnBack, AlarmAssumption DEF Time
  <2>4. Elapsed(a)' = IF now' >= set[a] THEN now' - set[a] ELSE now' + (Wrap - set[a])
    BY <1>1 DEF Elapsed
  <2>5. Elapsed(a) = IF now >= set[a] THEN now - set[a] ELSE now + (Wrap - set[a])
    BY DEF Elapsed
  <2> DEFINE d == (target[a] - set[a]) % Wrap
  <2>6. d \in 0..(Wrap - 1) /\ Elapsed(a) = d - left[a]
    BY <2>2, <2>3
  <2> HIDE DEF d
  <2>7. Elapsed(a)' = d - left'[a]
    BY <2>1, <2>4, <2>5, <2>6, <1>2, <1>3, AlarmAssumption DEF Time
  <2> QED
    BY <2>7 DEF d
<1> QED
  BY <1>t, <1>7, <1>8, <1>9, <1>10, <1>11, <1>12, <1>13 DEF Inv

\* The handler is entered with the first alarm due and the register moved on.
LEMMA IrqEnterInv ==
    ASSUME Inv, Callers, IrqEnter
    PROVE  Inv'
<1>1. /\ disp.pc = "idle" /\ irq /\ ~irq'
      /\ comp' = IF count >= 2 THEN target[queue[1]] ELSE comp
      /\ disp' = [disp EXCEPT !.pc = "fire"]
      /\ UNCHANGED <<active, count, queue, set, target, now, left, misfired>>
  BY DEF IrqEnter, alarms, ghosts
<1>b. matching' \in BOOLEAN /\ (matching' <=> count >= 2) /\ irq' \in BOOLEAN
  <2>1. matching' = (count >= 2)
    BY DEF IrqEnter
  <2>a. (count >= 2) \in BOOLEAN
    OBVIOUS
  <2>2. matching' \in BOOLEAN /\ (matching' <=> count >= 2)
    BY <2>1, <2>a, Zenon
  <2>3. irq' \in BOOLEAN
    BY DEF IrqEnter
  <2> QED
    BY <2>2, <2>3
<1>2. count > 0 /\ left[queue[0]] = 0 /\ count \in 0..NAlarms
  BY <1>1 DEF Inv, CompareSet, TypeOK
<1>3. disp' \in [pc : {"idle", "fire", "call"}, target : Time] /\ disp'.pc = "fire"
  BY <1>1 DEF Inv, TypeOK
<1>4. comp' \in Time
  <2>1. 1 \in 0..NAlarms
    BY AlarmAssumption
  <2> QED
    BY <2>1, <1>1 DEF Inv, TypeOK
<1>5. TypeOK'
  BY <1>1, <1>b, <1>3, <1>4 DEF Inv, TypeOK
<1>6. CompareSet'
  BY <1>1, <1>b, <1>2, <1>3 DEF CompareSet
<1>7. LeftIsAhead' /\ DueIsServed'
  BY <1>1, <1>3 DEF Inv, LeftIsAhead, DueIsServed
<1> QED
  BY <1>1, <1>5, <1>6, <1>7
     DEF Inv, QueueIsActive, Queued, CountIsActive, OnePlaceEach, QueueInOrder, FiresOnTime,
         ElapsedExact, Elapsed, Places

\* The first alarm is due when it is called, and the register waits for the next.
LEMMA FireInv ==
    ASSUME Inv, Callers, Fire
    PROVE  Inv'
<1> DEFINE a == queue[0]
<1>1. /\ disp.pc = "fire"
      /\ count' = count - 1 /\ queue' = Shifted(count')
      /\ active' = active \ {a}
      /\ disp' = [pc |-> "call", target |-> target[a]]
      /\ left' = [left EXCEPT ![a] = 0]
      /\ UNCHANGED <<set, target, now, comp, matching, irq>>
  BY DEF Fire, timer
<1>b. misfired' <=> misfired \/ left[a] # 0
  BY DEF Fire
<1>2. count > 0 /\ left[a] = 0 /\ count \in 1..NAlarms /\ ~irq
  BY <1>1, AlarmAssumption DEF Inv, CompareSet, TypeOK
<1>3. Places = 0..(count - 1) /\ Places' = 0..(count - 2)
  BY <1>1, <1>2 DEF Places
<1>4. 0 \in Places /\ a \in active /\ a \in Id
  BY <1>2, <1>3 DEF Inv, QueueIsActive, Queued, Places, TypeOK
<1>5. \A i \in Places' : i + 1 \in Places /\ i + 1 # 0 /\ queue'[i] = queue[i + 1]
  BY <1>1, <1>2, <1>3, AlarmAssumption DEF Shifted
<1>m. \A i \in Places : queue[i] \in active /\ queue[i] \in Id
  BY DEF Inv, QueueIsActive, Queued, Places, TypeOK
<1>6. \A i \in Places' : queue'[i] \in active' /\ left'[queue'[i]] = left[queue[i + 1]]
  <2> SUFFICES ASSUME NEW i \in Places'
               PROVE  queue'[i] \in active' /\ left'[queue'[i]] = left[queue[i + 1]]
    OBVIOUS
  <2>1. queue[i + 1] # a
    BY <1>4, <1>5 DEF Inv, OnePlaceEach
  <2> QED
    BY <2>1, <1>1, <1>4, <1>5, <1>m DEF Inv, TypeOK
<1>7. \A b \in active' : b \in active /\ b # a /\ b \in Id /\ left'[b] = left[b]
  BY <1>1, <1>4 DEF Inv, TypeOK
<1>t. TypeOK'
  <2>1. queue' \in [0..NAlarms -> Id]
    <3>1. \A i \in 0..NAlarms : i < count - 1 => i + 1 \in 0..NAlarms
      BY <1>2, AlarmAssumption
    <3> QED
      BY <3>1, <1>1, <1>2 DEF Inv, TypeOK, Shifted
  <2>2. left' \in [Id -> -1..(Wrap - 1)]
    BY <1>1, AlarmAssumption DEF Inv, TypeOK
  <2>3. misfired' \in BOOLEAN
    BY DEF Fire
  <2>4. disp' \in [pc : {"idle", "fire", "call"}, target : Time]
    BY <1>1, <1>4 DEF Inv, TypeOK
  <2>5. count' \in 0..NAlarms
    BY <1>1, <1>2, AlarmAssumption
  <2>6. active' \subseteq Id
    BY <1>1 DEF Inv, TypeOK
  <2> QED
    BY <1>1, <2>1, <2>2, <2>3, <2>4, <2>5, <2>6 DEF Inv, TypeOK
<1>8. QueueIsActive'
  <2>1. CountIsActive'
    <3>1. IsFiniteSet(active)
      <4>1. IsFiniteSet(0..(NAlarms - 1))
        BY FS_Interval, AlarmAssumption
      <4> QED
        BY <4>1, FS_Subset DEF Inv, TypeOK, Id
    <3>2. Cardinality(active \ {a}) = Cardinality(active) - 1
      BY <3>1, <1>4, FS_RemoveElement
    <3> QED
      BY <3>2, <1>1 DEF Inv, QueueIsActive, CountIsActive
  <2>2. ASSUME NEW b \in active' PROVE \E i \in Places' : queue'[i] = b
    <3>1. PICK i \in Places : queue[i] = b
      BY <1>7 DEF Inv, QueueIsActive, Queued, Places
    <3>2. i # 0
      BY <3>1, <1>7
    <3>3. i - 1 \in Places' /\ (i - 1) + 1 = i
      BY <3>2, <1>2, <1>3
    <3> QED
      BY <3>1, <3>3, <1>5
  <2> QED
    BY <2>1, <2>2, <1>6 DEF QueueIsActive, Queued, Places
<1>9. OnePlaceEach'
  <2> SUFFICES ASSUME NEW i \in Places', NEW j \in Places', queue'[i] = queue'[j] PROVE i = j
    BY DEF OnePlaceEach
  <2>1. i + 1 = j + 1
    BY <1>5 DEF Inv, OnePlaceEach
  <2> QED
    BY <2>1, <1>2, <1>3
<1>10. QueueInOrder'
  <2> SUFFICES ASSUME NEW i \in Places', NEW j \in Places', i < j
               PROVE  left'[queue'[i]] <= left'[queue'[j]]
    BY DEF QueueInOrder, Places
  <2>1. i + 1 \in Places /\ j + 1 \in Places /\ i + 1 < j + 1
    BY <1>2, <1>3, <1>5
  <2> QED
    BY <2>1, <1>6 DEF Inv, QueueInOrder, Places
<1>11. LeftIsAhead'
  <2>1. \A b \in active' : target[b] # disp'.target
    BY <1>1, <1>4, <1>7 DEF Inv, LeftIsAhead
  <2> QED
    BY <2>1, <1>1, <1>7 DEF Inv, LeftIsAhead
<1>12. DueIsServed'
  BY <1>1, <1>7 DEF Inv, DueIsServed
<1>13. CompareSet'
  <2>1. count' > 0 => queue'[0] = queue[1]
    BY <1>1, <1>2, <1>3, <1>5
  <2>2. count' > 0 => matching' /\ comp' = target'[queue'[0]]
    BY <2>1, <1>1, <1>2 DEF Inv, CompareSet
  <2>3. matching' => count' > 0
    BY <1>1, <1>2 DEF Inv, CompareSet
  <2> QED
    BY <2>2, <2>3, <1>1, <1>2 DEF CompareSet
<1>14. FiresOnTime'
  BY <1>b, <1>2 DEF Inv, FiresOnTime
<1>15. ElapsedExact'
  BY <1>1, <1>7 DEF Inv, ElapsedExact, Elapsed
<1> QED
  BY <1>t, <1>8, <1>9, <1>10, <1>11, <1>12, <1>13, <1>14, <1>15 DEF Inv

\* No other alarm ends on the tick that was served, so the loop is over.
LEMMA CallReturnInv ==
    ASSUME Inv, Callers, CallReturn
    PROVE  Inv'
<1>1. disp.pc = "call" /\ UNCHANGED <<active, count, queue, set, target, now, comp, matching, irq, left, misfired>>
  BY DEF CallReturn, alarms, timer, ghosts
<1>2. ~(count > 0 /\ disp.target = target[queue[0]])
  <2>1. count > 0 => queue[0] \in active
    BY DEF Inv, QueueIsActive, Queued, TypeOK
  <2> QED
    BY <2>1, <1>1 DEF Inv, LeftIsAhead
<1>3. disp' = NoDisp
  BY <1>1, <1>2 DEF CallReturn
<1>4. disp' \in [pc : {"idle", "fire", "call"}, target : Time] /\ disp'.pc = "idle"
  BY <1>3, AlarmAssumption DEF NoDisp, Time
<1>5. TypeOK'
  BY <1>1, <1>4 DEF Inv, TypeOK
<1>6. CompareSet'
  BY <1>1, <1>4 DEF Inv, CompareSet
<1>7. LeftIsAhead' /\ DueIsServed'
  BY <1>1, <1>4 DEF Inv, LeftIsAhead, DueIsServed
<1> QED
  BY <1>1, <1>5, <1>6, <1>7
     DEF Inv, QueueIsActive, Queued, CountIsActive, OnePlaceEach, QueueInOrder, FiresOnTime,
         ElapsedExact, Elapsed, Places

LEMMA StutterInv == Inv /\ UNCHANGED vars => Inv'
BY DEF Inv, TypeOK, QueueIsActive, Queued, CountIsActive, OnePlaceEach, QueueInOrder, LeftIsAhead,
   DueIsServed, CompareSet, FiresOnTime, ElapsedExact, Elapsed, Places, vars, alarms, timer, ghosts

LEMMA NextInv == Callers /\ Inv /\ [Next]_vars => Inv'
BY SetAlarmInv, ReleaseAlarmInv, TickInv, IrqEnterInv, FireInv, CallReturnInv, StutterInv DEF Next

LEMMA AlwaysInv == Callers /\ Spec => []Inv
<1> SUFFICES ASSUME Callers
             PROVE  Spec => []Inv
  OBVIOUS
<1>1. Inv /\ [Next]_vars => Inv'
  BY NextInv
<1> QED
  BY InitInv, <1>1, PTL DEF Spec

-----------------------------------------------------------------------------
(* What it shows.                                                          *)

\* Compare register, queue, bitfield and count tell the same story between any two
\* interrupts: the queue is the active alarms in firing order, and the register
\* waits for the first of them.
THEOREM AlarmsStayInStep == Callers /\ Spec => []AlarmsInStep
<1>1. Inv => AlarmsInStep
  <2>1. Inv => CompareAhead
    BY DEF Inv, CompareSet, CompareAhead
  <2> QED
    BY <2>1 DEF Inv, AlarmsInStep
<1> QED
  BY <1>1, AlwaysInv, PTL

\* Every callback runs on the tick that was asked for.
THEOREM AlarmsFireOnTime == Callers /\ Spec => []FiresOnTime
<1>1. Inv => FiresOnTime
  BY DEF Inv
<1> QED
  BY <1>1, AlwaysInv, PTL

\* ReleaseAlarm tells the time since SetAlarm, whichever way the counter wrapped.
THEOREM ElapsedIsExact == Callers /\ Spec => []ElapsedExact
<1>1. Inv => ElapsedExact
  BY DEF Inv
<1> QED
  BY <1>1, AlwaysInv, PTL
=============================================================================

--------------------------- MODULE HostPump_proofs ---------------------------
(***************************************************************************)
(* Proofs about HostPump, for any alarms, periods, threads and batches:    *)
(* the alarm list stays in the order of fire times and holds no alarm      *)
(* twice; no dispatch or drain is nested in another; the disable count is  *)
(* what the frames of the executing fiber raised it by; the types.         *)
(***************************************************************************)
EXTENDS HostPump, LeastNumber, FiniteSetTheorems, SequenceTheorems, TLAPS

-----------------------------------------------------------------------------
(* Sorted lists of alarms. *)

\* The list q holds no alarm twice and is sorted by the ticks w.
Sorted(q, w) ==
    \A i, j \in 1 .. Len(q) : i < j => q[i] # q[j] /\ w[q[i]] <= w[q[j]]

IsIn(a, q) == \E i \in 1 .. Len(q) : q[i] = a

\* The list without its place k, and the list with a behind its place k.
Drop(q, k) == SubSeq(q, 1, k - 1) \o SubSeq(q, k + 1, Len(q))
Put(q, k, a) == SubSeq(q, 1, k) \o <<a>> \o SubSeq(q, k + 1, Len(q))

\* r has what q has but its place k.
Shifted(q, k, r) ==
    \A i \in 1 .. Len(q) - 1 : r[i] = IF i < k THEN q[i] ELSE q[i + 1]

\* What is where after an alarm is unlinked.
LEMMA DropPlaces ==
    ASSUME NEW q \in Seq(Alarms), NEW k \in 1 .. Len(q)
    PROVE  /\ Drop(q, k) \in Seq(Alarms)
           /\ Len(Drop(q, k)) = Len(q) - 1
           /\ Shifted(q, k, Drop(q, k))
<1> DEFINE front == SubSeq(q, 1, k - 1)
           back == SubSeq(q, k + 1, Len(q))
<1>0. Len(q) \in Nat /\ k \in Nat /\ 1 <= k /\ k <= Len(q)
  OBVIOUS
<1>1. /\ front \in Seq(Alarms) /\ Len(front) = k - 1
      /\ \A i \in 1 .. k - 1 : front[i] = q[i]
  BY SubSeqProperties, \A i \in 1 .. k - 1 : q[i] \in Alarms
<1>2. /\ back \in Seq(Alarms) /\ Len(back) = Len(q) - k
      /\ \A i \in 1 .. Len(q) - k : back[i] = q[k + i]
  BY SubSeqProperties, \A i \in k + 1 .. Len(q) : q[i] \in Alarms
<1> HIDE DEF front, back
<1>3. /\ front \o back \in Seq(Alarms) /\ Len(front \o back) = Len(q) - 1
      /\ \A i \in 1 .. Len(q) - 1 :
            (front \o back)[i] = IF i <= Len(front) THEN front[i] ELSE back[i - Len(front)]
  <2>1. Len(front) + Len(back) = Len(q) - 1
    BY <1>0, <1>1, <1>2
  <2>2. /\ front \o back \in Seq(Alarms)
        /\ Len(front \o back) = Len(front) + Len(back)
        /\ \A i \in 1 .. Len(front) + Len(back) :
              (front \o back)[i] = IF i <= Len(front) THEN front[i] ELSE back[i - Len(front)]
    BY <1>1, <1>2, ConcatProperties
  <2> QED BY <2>1, <2>2
<1>4. ASSUME NEW i \in 1 .. Len(q) - 1
      PROVE  (front \o back)[i] = IF i < k THEN q[i] ELSE q[i + 1]
  <2>1. CASE i < k
    BY <1>0, <1>1, <1>3, <2>1
  <2>2. CASE i >= k
    <3>1. PICK j \in Int : j = i - (k - 1)
      OBVIOUS
    <3>2. j \in 1 .. Len(q) - k /\ k + j = i + 1 /\ (front \o back)[i] = back[j]
      BY <1>0, <1>1, <1>3, <2>2, <3>1
    <3>3. back[j] = q[i + 1] /\ ~ (i < k)
      BY <1>0, <1>2, <2>2, <3>2
    <3> QED BY <3>2, <3>3
  <2>3. i < k \/ i >= k
    BY <1>0
  <2> QED BY <2>1, <2>2, <2>3
<1> QED BY <1>3, <1>4 DEF Drop, Shifted, front, back

\* What is where after an alarm is linked.
LEMMA PutPlaces ==
    ASSUME NEW q \in Seq(Alarms), NEW k \in 0 .. Len(q), NEW a \in Alarms
    PROVE  /\ Put(q, k, a) \in Seq(Alarms)
           /\ Len(Put(q, k, a)) = Len(q) + 1
           /\ \A i \in 1 .. Len(q) + 1 :
                Put(q, k, a)[i] = IF i <= k THEN q[i] ELSE IF i = k + 1 THEN a ELSE q[i - 1]
<1> DEFINE front == SubSeq(q, 1, k)
           mid == front \o <<a>>
           back == SubSeq(q, k + 1, Len(q))
<1>1. /\ front \in Seq(Alarms) /\ Len(front) = k
      /\ \A i \in 1 .. k : front[i] = q[i]
  BY SubSeqProperties, \A i \in 1 .. k : q[i] \in Alarms
<1>2. /\ back \in Seq(Alarms) /\ Len(back) = Len(q) - k
      /\ \A i \in 1 .. Len(q) - k : back[i] = q[k + i]
  BY SubSeqProperties, \A i \in k + 1 .. Len(q) : q[i] \in Alarms
<1>0. Put(q, k, a) = mid \o back /\ Len(q) \in Nat /\ k \in Nat /\ k <= Len(q)
  BY DEF Put
<1> HIDE DEF front, back
<1>3. /\ mid \in Seq(Alarms) /\ Len(mid) = k + 1
      /\ \A i \in 1 .. k + 1 : mid[i] = IF i <= k THEN q[i] ELSE a
  BY <1>1, ConcatProperties
<1> HIDE DEF mid
<1>4. /\ mid \o back \in Seq(Alarms) /\ Len(mid \o back) = Len(q) + 1
      /\ \A i \in 1 .. Len(q) + 1 :
            (mid \o back)[i] = IF i <= Len(mid) THEN mid[i] ELSE back[i - Len(mid)]
  <2>1. Len(mid) + Len(back) = Len(q) + 1
    BY <1>0, <1>2, <1>3
  <2>2. /\ mid \o back \in Seq(Alarms)
        /\ Len(mid \o back) = Len(mid) + Len(back)
        /\ \A i \in 1 .. Len(mid) + Len(back) :
              (mid \o back)[i] = IF i <= Len(mid) THEN mid[i] ELSE back[i - Len(mid)]
    BY <1>2, <1>3, ConcatProperties
  <2> QED BY <2>1, <2>2
<1>5. ASSUME NEW i \in 1 .. Len(q) + 1
      PROVE  (mid \o back)[i] = IF i <= k THEN q[i] ELSE IF i = k + 1 THEN a ELSE q[i - 1]
  <2>1. CASE i <= k + 1
    BY <1>3, <1>4, <2>1
  <2>2. CASE i > k + 1
    <3>1. PICK j \in Int : j = i - (k + 1)
      OBVIOUS
    <3>2. j \in 1 .. Len(q) - k /\ k + j = i - 1 /\ (mid \o back)[i] = back[j]
      BY <1>3, <1>4, <2>2, <3>1
    <3>3. back[j] = q[k + j]
      BY <1>2, <3>2
    <3>4. ~ (i <= k) /\ i # k + 1
      BY <1>0, <2>2
    <3> QED BY <3>2, <3>3, <3>4
  <2>3. i <= k + 1 \/ i > k + 1
    BY <1>0
  <2> QED BY <2>1, <2>2, <2>3
<1> QED BY <1>0, <1>4, <1>5

\* The tail of a list drops its first alarm.
LEMMA TailDrops ==
    ASSUME NEW q \in Seq(Alarms), q # <<>>
    PROVE  /\ Tail(q) \in Seq(Alarms) /\ Len(Tail(q)) = Len(q) - 1
           /\ \A i \in 1 .. Len(q) - 1 : Tail(q)[i] = q[i + 1]
OBVIOUS

\* Unlinking keeps a list sorted, and the alarm is not in it any more.
LEMMA DropSorted ==
    ASSUME NEW q \in Seq(Alarms), NEW w \in [Alarms -> Nat], Sorted(q, w),
           NEW k \in 1 .. Len(q),
           NEW r \in Seq(Alarms), Len(r) = Len(q) - 1,
           Shifted(q, k, r)
    PROVE  Sorted(r, w) /\ ~ IsIn(q[k], r)
<1>0. ASSUME NEW x \in 1 .. Len(q) - 1
      PROVE  (x < k => r[x] = q[x]) /\ (k <= x => r[x] = q[x + 1])
  <2>1. Len(q) \in Nat /\ k \in Nat /\ x \in Nat /\ (k <= x => ~ (x < k))
    OBVIOUS
  <2> QED BY <2>1 DEF Shifted
<1>1. Sorted(r, w)
  <2> SUFFICES ASSUME NEW i \in 1 .. Len(r), NEW j \in 1 .. Len(r), i < j
               PROVE  r[i] # r[j] /\ w[r[i]] <= w[r[j]]
    BY DEF Sorted
  <2>0. /\ Len(q) \in Nat /\ k \in Nat
        /\ i \in 1 .. Len(q) - 1 /\ j \in 1 .. Len(q) - 1
        /\ i < k \/ k <= i
        /\ j < k \/ k <= j
    OBVIOUS
  <2>1. CASE i < k /\ j < k
    <3>1. r[i] = q[i] /\ r[j] = q[j]
      BY <1>0, <2>0, <2>1
    <3>2. \A n \in Nat : 1 .. n - 1 \subseteq 1 .. n
      OBVIOUS
    <3>3. i \in 1 .. Len(q) /\ j \in 1 .. Len(q)
      BY <2>0, <3>2
    <3> QED BY <3>1, <3>3 DEF Sorted
  <2>2. CASE i < k /\ k <= j
    <3>1. r[i] = q[i] /\ r[j] = q[j + 1]
      BY <1>0, <2>0, <2>2
    <3>2. i \in 1 .. Len(q) /\ j + 1 \in 1 .. Len(q) /\ i < j + 1
      BY <2>0
    <3> QED BY <3>1, <3>2 DEF Sorted
  <2>3. CASE k <= i /\ k <= j
    <3>1. r[i] = q[i + 1] /\ r[j] = q[j + 1]
      BY <1>0, <2>0, <2>3
    <3>2. i + 1 \in 1 .. Len(q) /\ j + 1 \in 1 .. Len(q) /\ i + 1 < j + 1
      BY <2>0
    <3> QED BY <3>1, <3>2 DEF Sorted
  <2>4. ~ (k <= i /\ j < k)
    BY <2>0
  <2> QED BY <2>0, <2>1, <2>2, <2>3, <2>4
<1>2. ~ IsIn(q[k], r)
  <2> SUFFICES ASSUME NEW i \in 1 .. Len(r) PROVE r[i] # q[k]
    BY DEF IsIn
  <2>0. Len(q) \in Nat /\ i \in 1 .. Len(q) - 1 /\ (i < k \/ i >= k)
    OBVIOUS
  <2>1. CASE i < k
    <3>1. r[i] = q[i] /\ i \in 1 .. Len(q)
      BY <1>0, <2>0, <2>1
    <3> QED BY <2>1, <3>1 DEF Sorted
  <2>2. CASE i >= k
    <3>1. r[i] = q[i + 1] /\ i + 1 \in 1 .. Len(q) /\ k < i + 1
      BY <1>0, <2>0, <2>2
    <3> QED BY <3>1 DEF Sorted
  <2> QED BY <2>0, <2>1, <2>2
<1> QED BY <1>1, <1>2

\* There is a place behind all alarms that fire no later.
LEMMA PlaceExists ==
    ASSUME NEW q \in Seq(Alarms), NEW w \in [Alarms -> Nat], NEW d \in Nat
    PROVE  \E i \in 0 .. Len(q) :
              /\ \A j \in 1 .. i : w[q[j]] <= d
              /\ i < Len(q) => w[q[i + 1]] > d
<1> DEFINE later == {i \in 1 .. Len(q) : w[q[i]] > d}
<1>0. \A i \in 1 .. Len(q) : w[q[i]] \in Nat
  OBVIOUS
<1>1. CASE later = {}
  <2>1. \A j \in 1 .. Len(q) : w[q[j]] <= d
    BY <1>0, <1>1
  <2> QED BY <2>1
<1>2. CASE later # {}
  <2>0. later \subseteq Nat
    OBVIOUS
  <2>1. PICK x \in later : \A y \in later : x <= y
    <3> HIDE DEF later
    <3> QED BY <1>2, <2>0, HasLeast
  <2>2. \A j \in 1 .. x - 1 : w[q[j]] <= d
    BY <1>0, <2>1
  <2>3. x - 1 \in 0 .. Len(q) /\ w[q[(x - 1) + 1]] > d
    BY <2>1
  <2> QED BY <2>2, <2>3
<1> QED BY <1>1, <1>2

\* InsertAlarm keeps the list sorted, with the fire time of the new alarm.
LEMMA InsertSorted ==
    ASSUME NEW q \in Seq(Alarms), wait \in [Alarms -> Nat], Sorted(q, wait),
           NEW a \in Alarms, ~ IsIn(a, q), NEW d \in Nat
    PROVE  /\ InsertAlarm(q, a, d) \in Seq(Alarms)
           /\ Sorted(InsertAlarm(q, a, d), [wait EXCEPT ![a] = d])
<1> DEFINE Place(i) == /\ \A j \in 1 .. i : wait[q[j]] <= d
                       /\ i < Len(q) => wait[q[i + 1]] > d
           k == CHOOSE i \in 0 .. Len(q) : Place(i)
           r == Put(q, k, a)
           w == [wait EXCEPT ![a] = d]
<1>1. InsertAlarm(q, a, d) = r
  BY DEF InsertAlarm, Put
<1>2. k \in 0 .. Len(q) /\ Place(k)
  BY PlaceExists
<1> HIDE DEF k
<1>3. /\ r \in Seq(Alarms) /\ Len(r) = Len(q) + 1
      /\ \A i \in 1 .. Len(q) + 1 :
            r[i] = IF i <= k THEN q[i] ELSE IF i = k + 1 THEN a ELSE q[i - 1]
  BY <1>2, PutPlaces
<1> HIDE DEF r
<1>4. \A i \in 1 .. Len(q) : q[i] \in Alarms /\ q[i] # a /\ w[q[i]] = wait[q[i]] /\ wait[q[i]] \in Nat
  BY DEF IsIn
<1>5. \A i \in 1 .. Len(q) : IF i <= k THEN wait[q[i]] <= d ELSE d <= wait[q[i]]
  <2>1. ASSUME NEW i \in 1 .. Len(q), i > k PROVE d <= wait[q[i]]
    <3>1. k + 1 \in 1 .. Len(q) /\ wait[q[k + 1]] > d
      BY <1>2, <2>1
    <3>2. wait[q[k + 1]] <= wait[q[i]]
      BY <1>2, <1>4, <2>1, <3>1 DEF Sorted
    <3> QED BY <1>4, <2>1, <3>1, <3>2
  <2> QED BY <1>2, <2>1
<1>6. w[a] = d
  OBVIOUS
<1> HIDE DEF w
<1>7. /\ \A i \in 1 .. k : i \in 1 .. Len(q) /\ r[i] = q[i]
      /\ r[k + 1] = a
      /\ \A i \in k + 2 .. Len(q) + 1 : i - 1 \in 1 .. Len(q) /\ r[i] = q[i - 1]
  <2> HIDE DEF Place
  <2>0. Len(q) \in Nat /\ k \in Nat /\ k <= Len(q)
    BY <1>2
  <2>1. ASSUME NEW i \in 1 .. k PROVE i \in 1 .. Len(q) /\ r[i] = q[i]
    BY <1>3, <2>0
  <2>2. r[k + 1] = a
    BY <1>3, <2>0
  <2>3. ASSUME NEW i \in k + 2 .. Len(q) + 1 PROVE i - 1 \in 1 .. Len(q) /\ r[i] = q[i - 1]
    <3>1. i \in 1 .. Len(q) + 1 /\ ~ (i <= k) /\ i # k + 1 /\ i - 1 \in 1 .. Len(q)
      BY <2>0
    <3> QED BY <1>3, <3>1
  <2> QED BY <2>1, <2>2, <2>3
<1>8. \A x, y \in 1 .. Len(q) : x < y => q[x] # q[y] /\ w[q[x]] <= w[q[y]]
  BY <1>4 DEF Sorted
<1>9. \A x \in 1 .. Len(q) : q[x] # a /\ IF x <= k THEN w[q[x]] <= w[a] ELSE w[a] <= w[q[x]]
  BY <1>4, <1>5, <1>6
<1>10. Sorted(r, w)
  <2> SUFFICES ASSUME NEW i \in 1 .. Len(r), NEW j \in 1 .. Len(r), i < j
               PROVE  r[i] # r[j] /\ w[r[i]] <= w[r[j]]
    BY DEF Sorted
  <2> HIDE DEF Place
  <2>0. /\ Len(q) \in Nat /\ k \in Nat /\ i \in Nat /\ j \in Nat
        /\ i \in 1 .. k \/ i = k + 1 \/ i \in k + 2 .. Len(q) + 1
        /\ j \in 1 .. k \/ j = k + 1 \/ j \in k + 2 .. Len(q) + 1
    <3>1. Len(q) \in Nat /\ k \in Nat /\ i \in Nat /\ j \in Nat
      BY <1>2
    <3>2. i \in 1 .. Len(q) + 1 /\ j \in 1 .. Len(q) + 1
      BY <1>3
    <3> QED BY <3>1, <3>2
  <2>1. CASE j \in 1 .. k
    <3>1. i \in 1 .. k
      BY <2>0, <2>1
    <3>2. i \in 1 .. Len(q) /\ j \in 1 .. Len(q) /\ r[i] = q[i] /\ r[j] = q[j]
      BY <1>7, <2>1, <3>1
    <3> QED BY <1>8, <3>2
  <2>2. CASE j = k + 1
    <3>1. i \in 1 .. k
      BY <2>0, <2>2
    <3>2. i \in 1 .. Len(q) /\ i <= k /\ r[i] = q[i] /\ r[j] = a
      BY <1>7, <2>0, <2>2, <3>1
    <3> QED BY <1>9, <3>2
  <2>3. CASE j \in k + 2 .. Len(q) + 1
    <3>0. j - 1 \in 1 .. Len(q) /\ r[j] = q[j - 1] /\ ~ (j - 1 <= k)
      <4>1. ~ (j - 1 <= k)
        BY <2>0, <2>3
      <4> QED BY <1>7, <2>3, <4>1
    <3>1. CASE i \in 1 .. k
      <4>1. i < j - 1 /\ i \in 1 .. Len(q) /\ r[i] = q[i]
        BY <1>7, <2>0, <2>3, <3>1
      <4> QED BY <1>8, <3>0, <4>1
    <3>2. CASE i = k + 1
      <4>1. r[i] = a
        BY <1>7, <3>2
      <4> QED BY <1>9, <3>0, <4>1
    <3>3. CASE i \in k + 2 .. Len(q) + 1
      <4>1. i - 1 < j - 1 /\ i - 1 \in 1 .. Len(q) /\ r[i] = q[i - 1]
        BY <1>7, <2>0, <3>3
      <4> QED BY <1>8, <3>0, <4>1
    <3> QED BY <2>0, <3>1, <3>2, <3>3
  <2> QED BY <2>0, <2>1, <2>2, <2>3
<1> QED BY <1>1, <1>3, <1>10 DEF w

-----------------------------------------------------------------------------
(* The alarm list of the pump. *)

AlarmInv ==
    /\ queue \in Seq(Alarms)
    /\ wait \in [Alarms -> Nat]
    /\ period \in [Alarms -> Nat]
    /\ QueueSorted

\* The list is empty.
LEMMA AlarmInit == ASSUME Init PROVE AlarmInv
BY DEF Init, AlarmInv, QueueSorted

\* An alarm that is not in the list is armed.
LEMMA ArmKeeps ==
    ASSUME AlarmInv, NEW q \in Seq(Alarms), Sorted(q, wait), NEW a \in Alarms, ~ IsIn(a, q),
           NEW d \in Nat, NEW p \in Nat, Arm(q, a, d, p)
    PROVE  AlarmInv'
<1>1. /\ queue' = InsertAlarm(q, a, d)
      /\ wait' = [wait EXCEPT ![a] = d]
      /\ period' = [period EXCEPT ![a] = p]
  BY DEF Arm
<1>2. /\ InsertAlarm(q, a, d) \in Seq(Alarms)
      /\ Sorted(InsertAlarm(q, a, d), [wait EXCEPT ![a] = d])
  BY InsertSorted DEF AlarmInv
<1>3. queue' \in Seq(Alarms) /\ Sorted(queue', wait')
  BY <1>1, <1>2
<1>4. wait' \in [Alarms -> Nat] /\ period' \in [Alarms -> Nat]
  BY <1>1 DEF AlarmInv
<1> QED BY <1>3, <1>4 DEF AlarmInv, QueueSorted, Sorted

\* A due alarm is unlinked, and armed again if it is periodic.
LEMMA DispatchKeeps == ASSUME AlarmInv, DispatchAlarm PROVE AlarmInv'
<1> DEFINE a == Head(queue)
           q == Tail(queue)
<1>1. queue \in Seq(Alarms) /\ queue # <<>> /\ Len(queue) \in Nat \ {0}
        /\ a = queue[1] /\ a \in Alarms /\ Sorted(queue, wait)
        /\ wait \in [Alarms -> Nat] /\ period \in [Alarms -> Nat]
  BY DEF AlarmInv, DispatchAlarm, HeadIsDue, QueueSorted, Sorted
<1>2. /\ q \in Seq(Alarms) /\ Len(q) = Len(queue) - 1
      /\ \A i \in 1 .. Len(queue) - 1 : q[i] = queue[i + 1]
  BY <1>1, TailDrops
<1>3. \/ queue' = q /\ UNCHANGED <<wait, period>>
      \/ \E d \in 1 .. period[a] : Arm(q, a, d, period[a])
  BY DEF DispatchAlarm
<1> HIDE DEF a, q
<1>4. Sorted(q, wait) /\ ~ IsIn(a, q)
  <2>1. Shifted(queue, 1, q)
    BY <1>2 DEF Shifted
  <2>2. 1 \in 1 .. Len(queue)
    BY <1>1
  <2> QED BY <1>1, <1>2, <2>1, <2>2, DropSorted
<1>5. CASE queue' = q /\ UNCHANGED <<wait, period>>
  <2>1. Sorted(queue', wait')
    BY <1>4, <1>5
  <2> QED BY <1>1, <1>2, <1>5, <2>1 DEF AlarmInv, QueueSorted, Sorted
<1>6. CASE \E d \in 1 .. period[a] : Arm(q, a, d, period[a])
  <2>1. PICK d \in 1 .. period[a] : Arm(q, a, d, period[a])
    BY <1>6
  <2>2. d \in Nat /\ period[a] \in Nat
    BY <1>1
  <2> QED BY <1>1, <1>2, <1>4, <2>1, <2>2, ArmKeeps
<1> QED BY <1>3, <1>5, <1>6

\* An alarm is cancelled in the middle of the list; its place in it is the
\* one Without finds.
LEMMA CancelKeeps == ASSUME AlarmInv, NEW a \in Alarms, OSCancelAlarm(a) PROVE AlarmInv'
<1> DEFINE k == CHOOSE i \in 1 .. Len(queue) : queue[i] = a
<1>1. k \in 1 .. Len(queue) /\ queue[k] = a
  BY DEF OSCancelAlarm, Queued
<1>2. queue' = Drop(queue, k)
  BY DEF OSCancelAlarm, Without, Drop
<1> HIDE DEF k
<1>3. queue \in Seq(Alarms) /\ Sorted(queue, wait) /\ wait \in [Alarms -> Nat]
  BY DEF AlarmInv, QueueSorted, Sorted
<1>4. queue' \in Seq(Alarms) /\ Sorted(queue', wait) /\ ~ IsIn(a, queue')
  <2>1. /\ Drop(queue, k) \in Seq(Alarms) /\ Len(Drop(queue, k)) = Len(queue) - 1
        /\ Shifted(queue, k, Drop(queue, k))
    BY <1>1, <1>3, DropPlaces
  <2> HIDE DEF Drop
  <2>2. Sorted(Drop(queue, k), wait) /\ ~ IsIn(queue[k], Drop(queue, k))
    BY <1>1, <1>3, <2>1, DropSorted
  <2> QED BY <1>1, <1>2, <2>1, <2>2
<1>5. wait' = [wait EXCEPT ![a] = 0] /\ period' = [period EXCEPT ![a] = 0]
  BY DEF OSCancelAlarm
<1>6. \A i \in 1 .. Len(queue') : wait'[queue'[i]] = wait[queue'[i]]
  BY <1>3, <1>4, <1>5 DEF IsIn
<1>7. Sorted(queue', wait')
  BY <1>4, <1>6 DEF Sorted
<1> QED BY <1>3, <1>4, <1>5, <1>7 DEF AlarmInv, QueueSorted, Sorted

\* Time passes for all alarms alike.
LEMMA TickKeeps == ASSUME AlarmInv, Tick PROVE AlarmInv'
<1>1. queue' = queue /\ period' = period
        /\ wait' = [a \in Alarms |-> IF wait[a] = 0 THEN 0 ELSE wait[a] - 1]
  BY DEF Tick
<1>2. wait' \in [Alarms -> Nat]
  BY <1>1 DEF AlarmInv
<1>3. \A a, b \in Alarms : wait[a] <= wait[b] => wait'[a] <= wait'[b]
  BY <1>1 DEF AlarmInv
<1>4. \A i \in 1 .. Len(queue) : queue[i] \in Alarms
  BY DEF AlarmInv
<1>5. QueueSorted'
  BY <1>1, <1>3, <1>4 DEF AlarmInv, QueueSorted
<1> QED BY <1>1, <1>2, <1>5 DEF AlarmInv

\* The other steps leave the alarms alone.
LEMMA ApartFromAlarms == ASSUME AlarmInv, UNCHANGED alarmVars PROVE AlarmInv'
BY DEF AlarmInv, alarmVars, QueueSorted

\* Guest code arms alarms that are not armed, and cancels armed ones.
LEMMA GuestKeeps == ASSUME AlarmInv, GuestCode PROVE AlarmInv'
<1>1. queue \in Seq(Alarms) /\ Sorted(queue, wait) /\ MaxWait \in Nat
  BY PumpConstants DEF AlarmInv, QueueSorted, Sorted
<1>2. ASSUME NEW a \in Alarms, NEW d \in 0 .. MaxWait, OSSetAlarm(a, d) PROVE AlarmInv'
  BY <1>1, <1>2, ArmKeeps DEF OSSetAlarm, Queued, IsIn
<1>3. ASSUME NEW a \in Alarms, NEW d \in 0 .. MaxWait, NEW p \in 1 .. MaxWait,
             OSSetPeriodicAlarm(a, d, p)
      PROVE  AlarmInv'
  BY <1>1, <1>3, ArmKeeps DEF OSSetPeriodicAlarm, Queued, IsIn
<1>4. ASSUME NEW a \in Alarms, OSCancelAlarm(a) PROVE AlarmInv'
  BY <1>4, CancelKeeps
<1>5. CASE \/ NandAsync
           \/ \E t \in Threads : OSWakeupThread(t)
           \/ \E t \in Cancellable : OSCancelThread(t)
           \/ Return
  BY <1>5, ApartFromAlarms DEF NandAsync, OSWakeupThread, OSCancelThread, Return
<1> QED BY <1>2, <1>3, <1>4, <1>5 DEF GuestCode

\* Every step keeps the list sorted.
LEMMA AlarmStep == ASSUME AlarmInv, [Next]_vars PROVE AlarmInv'
<1>1. CASE DispatchAlarm
  BY <1>1, DispatchKeeps
<1>2. CASE \/ EndHandler \/ EndDispatch \/ Completions \/ DispatchNandCallback
           \/ EndDrain \/ EndPump \/ EndDeferred \/ IdleEnds
  BY <1>2, ApartFromAlarms
  DEF EndHandler, EndDispatch, Completions, DispatchNandCallback, EndDrain, EndPump,
      EndDeferred, IdleEnds
<1>3. CASE \/ OSSleepThread \/ RFLiIsWorking \/ ProcessAlarmsDeferred
           \/ IdlePump \/ (\E t \in Threads : DeviceWakes(t)) \/ UNCHANGED vars
  BY <1>3, ApartFromAlarms
  DEF OSSleepThread, RFLiIsWorking, ProcessAlarmsDeferred, IdlePump, DeviceWakes, vars
<1>4. CASE Tick
  BY <1>4, TickKeeps
<1>5. CASE GuestCode
  BY <1>5, GuestKeeps
<1> QED BY <1>1, <1>2, <1>3, <1>4, <1>5 DEF Next, HostCode

\* The alarm list holds each alarm once, in the order of fire times, however
\* handlers and preempting threads arm and cancel while it is processed.
THEOREM AlarmsStaySorted == Spec => []QueueSorted
<1>1. AlarmInv => QueueSorted
  BY DEF AlarmInv
<1> QED BY <1>1, AlarmInit, AlarmStep, PTL DEF Spec

-----------------------------------------------------------------------------
(* The frames of a fiber. *)

\* There is exactly one frame of this kind on s.
Once(s, op) ==
    \E i \in 1 .. Len(s) : s[i].op = op /\ \A j \in 1 .. Len(s) : s[j].op = op => j = i

InHandler(s) == Has(s, "handler") \/ Has(s, "endHandler")
HandlerOnTop(s) == s # <<>> /\ Head(s).op \in {"handler", "endHandler"}

\* The frame f is pushed on s.
Push(f, s) == <<f>> \o s

\* What a frame adds to those below it.
LEMMA PushFacts ==
    ASSUME NEW f \in Frame, NEW s \in Seq(Frame)
    PROVE  /\ Push(f, s) \in Seq(Frame) /\ Push(f, s) # <<>>
           /\ Head(Push(f, s)) = f /\ Tail(Push(f, s)) = s
           /\ \A op : Has(Push(f, s), op) <=> f.op = op \/ Has(s, op)
           /\ \A op : Once(Push(f, s), op) <=>
                        (f.op = op /\ ~ Has(s, op)) \/ (f.op # op /\ Once(s, op))
<1> DEFINE p == Push(f, s)
<1>1. /\ p \in Seq(Frame) /\ Len(p) = Len(s) + 1 /\ Len(s) \in Nat
      /\ p[1] = f /\ \A i \in 1 .. Len(s) : p[i + 1] = s[i]
  BY DEF Push
<1>2. p # <<>> /\ Head(p) = f /\ Tail(p) = s
  <2>1. p # <<>> /\ Head(p) = f
    BY <1>1
  <2>2. Tail(p) \in Seq(Frame) /\ Len(Tail(p)) = Len(s)
          /\ \A i \in 1 .. Len(s) : Tail(p)[i] = s[i]
    BY <1>1
  <2> QED BY <2>1, <2>2, SeqEqual
<1> HIDE DEF p
<1>3. \A i \in 1 .. Len(p) : i = 1 \/ (i - 1 \in 1 .. Len(s) /\ p[i] = s[i - 1])
  <2> SUFFICES ASSUME NEW i \in 1 .. Len(p), i # 1
               PROVE  i - 1 \in 1 .. Len(s) /\ p[i] = s[i - 1]
    OBVIOUS
  <2>1. i - 1 \in 1 .. Len(s) /\ i = (i - 1) + 1
    BY <1>1
  <2> QED BY <1>1, <2>1
<1>4. \A i \in 1 .. Len(s) : i + 1 \in 1 .. Len(p) /\ p[i + 1] = s[i] /\ i + 1 # 1
  BY <1>1
<1>5. 1 \in 1 .. Len(p)
  BY <1>1
<1>6. ASSUME NEW op PROVE Has(p, op) <=> f.op = op \/ Has(s, op)
  <2>1. ASSUME Has(p, op) PROVE f.op = op \/ Has(s, op)
    BY <1>1, <1>3, <2>1 DEF Has
  <2>2. ASSUME f.op = op PROVE Has(p, op)
    BY <1>1, <1>5, <2>2, Zenon DEF Has
  <2>3. ASSUME Has(s, op) PROVE Has(p, op)
    <3>1. PICK i \in 1 .. Len(s) : s[i].op = op
      BY <2>3 DEF Has
    <3>2. i + 1 \in 1 .. Len(p) /\ p[i + 1].op = op
      BY <1>4, <3>1
    <3> QED BY <3>2, Zenon DEF Has
  <2> QED BY <2>1, <2>2, <2>3
<1>7. ASSUME NEW op 
      PROVE  Once(p, op) <=> (f.op = op /\ ~ Has(s, op)) \/ (f.op # op /\ Once(s, op))
  <2>1. ASSUME f.op = op, ~ Has(s, op) PROVE Once(p, op)
    <3>1. \A j \in 1 .. Len(p) : p[j].op = op => j = 1
      BY <1>3, <2>1 DEF Has
    <3> QED BY <1>1, <1>5, <2>1, <3>1, Zenon DEF Once
  <2>2. ASSUME f.op # op, Once(s, op) PROVE Once(p, op)
    <3>1. PICK i \in 1 .. Len(s) : s[i].op = op /\ \A j \in 1 .. Len(s) : s[j].op = op => j = i
      BY <2>2 DEF Once
    <3>2. i + 1 \in 1 .. Len(p) /\ p[i + 1].op = op
      BY <1>4, <3>1
    <3>3. ASSUME NEW j \in 1 .. Len(p), p[j].op = op PROVE j = i + 1
      <4>1. j - 1 \in 1 .. Len(s) /\ s[j - 1].op = op
        BY <1>1, <1>3, <2>2, <3>3
      <4>2. j - 1 = i
        BY <3>1, <4>1
      <4> QED BY <1>1, <4>2
    <3> QED BY <3>2, <3>3 DEF Once
  <2>3. ASSUME f.op = op, Has(s, op), Once(p, op) PROVE FALSE
    <3>1. PICK i \in 1 .. Len(s) : s[i].op = op
      BY <2>3 DEF Has
    <3>2. i + 1 \in 1 .. Len(p) /\ p[i + 1].op = op /\ i + 1 # 1
      BY <1>4, <3>1
    <3> QED BY <1>1, <1>5, <2>3, <3>2 DEF Once
  <2>4. ASSUME f.op # op, Once(p, op) PROVE Once(s, op)
    <3>1. PICK i \in 1 .. Len(p) : p[i].op = op /\ \A j \in 1 .. Len(p) : p[j].op = op => j = i
      BY <2>4 DEF Once
    <3>2. PICK k \in 1 .. Len(s) : k = i - 1 /\ s[k].op = op
      BY <1>1, <1>3, <2>4, <3>1
    <3>3. ASSUME NEW j \in 1 .. Len(s), s[j].op = op PROVE j = k
      <4>1. j + 1 = i
        BY <1>4, <3>1, <3>3
      <4> QED BY <1>1, <3>2, <4>1
    <3> QED BY <3>2, <3>3, Zenon DEF Once
  <2> QED BY <2>1, <2>2, <2>3, <2>4
<1> QED BY <1>1, <1>2, <1>6, <1>7 DEF p

\* A fiber with frames has a topmost one.
LEMMA PopFacts ==
    ASSUME NEW s \in Seq(Frame), s # <<>>
    PROVE  Head(s) \in Frame /\ Tail(s) \in Seq(Frame) /\ s = Push(Head(s), Tail(s))
<1>1. Head(s) \in Frame /\ Tail(s) \in Seq(Frame) /\ Len(s) \in Nat \ {0}
  OBVIOUS
<1>2. Push(Head(s), Tail(s)) \in Seq(Frame) /\ Len(Push(Head(s), Tail(s))) = Len(s)
        /\ \A i \in 1 .. Len(s) : Push(Head(s), Tail(s))[i] = s[i]
  BY <1>1 DEF Push
<1> QED BY <1>1, <1>2, SeqEqual

\* What is on a fiber is its topmost frame or below it.
LEMMA TopOrBelow ==
    ASSUME NEW s \in Seq(Frame), s # <<>>
    PROVE  /\ \A op : Has(s, op) <=> Head(s).op = op \/ Has(Tail(s), op)
           /\ \A op : Once(s, op) <=>
                (Head(s).op = op /\ ~ Has(Tail(s), op)) \/ (Head(s).op # op /\ Once(Tail(s), op))
<1>1. PICK f \in Frame, r \in Seq(Frame) : f = Head(s) /\ r = Tail(s) /\ s = Push(f, r)
  BY PopFacts
<1>2. /\ \A op : Has(Push(f, r), op) <=> f.op = op \/ Has(r, op)
      /\ \A op : Once(Push(f, r), op) <=> (f.op = op /\ ~ Has(r, op)) \/ (f.op # op /\ Once(r, op))
  BY PushFacts
<1> QED BY <1>1, <1>2, Zenon

\* Two frames are pushed one after the other.
LEMMA PushTwo ==
    ASSUME NEW f \in Frame, NEW g \in Frame, NEW s \in Seq(Frame)
    PROVE  <<f, g>> \o s = Push(f, Push(g, s))
<1>1. /\ <<f, g>> \o s \in Seq(Frame) /\ Push(f, Push(g, s)) \in Seq(Frame)
      /\ Len(<<f, g>> \o s) = Len(s) + 2 /\ Len(Push(f, Push(g, s))) = Len(s) + 2
  BY DEF Push
<1>2. \A i \in 1 .. Len(s) + 2 : (<<f, g>> \o s)[i] = Push(f, Push(g, s))[i]
  BY DEF Push
<1> QED BY <1>1, <1>2, SeqEqual

\* Nothing is on an empty fiber.
LEMMA EmptyFacts == \A op : ~ Has(<<>>, op) /\ ~ Once(<<>>, op)
BY DEF Has, Once

\* A single frame of a kind is a frame of that kind.
LEMMA OnceHas == ASSUME NEW s, NEW op, Once(s, op) PROVE Has(s, op)
BY DEF Once, Has

-----------------------------------------------------------------------------
(* What the guards and the disable count say about the frames. *)

\* The guard n of the frames op: none is up, or one, on one fiber.
Guarded(op, n, stk) ==
    \/ n = 0 /\ \A t \in Threads : ~ Has(stk[t], op)
    \/ /\ n = 1
       /\ \E t \in Threads : Once(stk[t], op) /\ \A u \in Threads \ {t} : ~ Has(stk[u], op)

\* Nothing on s has raised the disable count.
Clear(s) == ~ InHandler(s) /\ ~ Has(s, "endDeferred")

\* What the frames of s have raised the disable count by.
Raised(s) ==
    (IF HandlerOnTop(s) THEN 1 ELSE 0) + (IF Has(s, "endDeferred") THEN 1 ELSE 0)

\* A handler is topmost; no fiber both idles and serves a renderer.
Shape(s, d) ==
    /\ s # <<>> => ~ InHandler(Tail(s))
    /\ Has(s, "endDeferred") => Once(s, "endDeferred") /\ ~ Has(s, "idle")
    /\ d = Raised(s)

StackInv ==
    /\ stack \in [Threads -> Seq(Frame)] /\ host \in Threads
    /\ Guarded("alarms", alarmDepth, stack)
    /\ Guarded("drain", drainDepth, stack)
    /\ \A t \in Threads \ {host} : Clear(stack[t])
    /\ Shape(stack[host], disable)
    /\ HandlerOnTop(stack[host]) => alarmDepth = 1

\* s may be left on the fiber of the host with the counts d, n and m.
Fits(s, d, n, m) ==
    /\ s \in Seq(Frame)
    /\ Guarded("alarms", n, [stack EXCEPT ![host] = s])
    /\ Guarded("drain", m, [stack EXCEPT ![host] = s])
    /\ Shape(s, d)
    /\ HandlerOnTop(s) => n = 1

\* A guard as the frames of one fiber change.
LEMMA GuardMoves ==
    ASSUME NEW stk \in [Threads -> Seq(Frame)], NEW h \in Threads, NEW s, NEW op, NEW n,
           Guarded(op, n, stk)
    PROVE  /\ (Has(s, op) <=> Has(stk[h], op)) /\ (Once(s, op) <=> Once(stk[h], op))
                => Guarded(op, n, [stk EXCEPT ![h] = s])
           /\ n = 0 /\ Once(s, op) => Guarded(op, 1, [stk EXCEPT ![h] = s])
           /\ Has(stk[h], op) /\ ~ Has(s, op) => n = 1 /\ Guarded(op, 0, [stk EXCEPT ![h] = s])
           /\ n \in {0, 1}
           /\ n = 0 => ~ Has(stk[h], op)
           /\ Has(stk[h], op) => n = 1
<1> DEFINE new == [stk EXCEPT ![h] = s]
<1>1. new[h] = s /\ \A t \in Threads \ {h} : new[t] = stk[t]
  OBVIOUS
<1>2. n \in {0, 1} /\ (n = 0 => ~ Has(stk[h], op)) /\ (Has(stk[h], op) => n = 1)
  BY DEF Guarded
<1> HIDE DEF new
<1>3. ASSUME Has(s, op) <=> Has(stk[h], op), Once(s, op) <=> Once(stk[h], op)
      PROVE  Guarded(op, n, new)
  <2>1. \A t \in Threads : (Has(new[t], op) <=> Has(stk[t], op))
                             /\ (Once(new[t], op) <=> Once(stk[t], op))
    BY <1>1, <1>3
  <2> QED BY <2>1 DEF Guarded
<1>4. ASSUME n = 0, Once(s, op) PROVE Guarded(op, 1, new)
  <2>1. \A t \in Threads \ {h} : ~ Has(new[t], op)
    BY <1>1, <1>4 DEF Guarded
  <2> QED BY <1>1, <1>4, <2>1 DEF Guarded
<1>5. ASSUME Has(stk[h], op), ~ Has(s, op) PROVE Guarded(op, 0, new)
  <2>1. \A t \in Threads \ {h} : ~ Has(stk[t], op)
    BY <1>5, OnceHas DEF Guarded
  <2> QED BY <1>1, <1>5, <2>1 DEF Guarded
<1> QED BY <1>2, <1>3, <1>4, <1>5 DEF new

\* A fiber under which the count is not raised is clear, and conversely.
LEMMA ShapeClear == ASSUME NEW s \in Seq(Frame) PROVE Shape(s, 0) <=> Clear(s)
<1>1. CASE s = <<>>
  BY <1>1, EmptyFacts DEF Shape, Clear, Raised, HandlerOnTop, InHandler
<1>2. CASE s # <<>>
  <2>1. \A op : Has(s, op) <=> Head(s).op = op \/ Has(Tail(s), op)
    BY <1>2, PopFacts, PushFacts
  <2>2. /\ HandlerOnTop(s) <=> Head(s).op \in {"handler", "endHandler"}
        /\ InHandler(s) <=> HandlerOnTop(s) \/ InHandler(Tail(s))
    BY <1>2, <2>1 DEF InHandler, HandlerOnTop
  <2> QED BY <1>2, <2>2 DEF Shape, Clear, Raised
<1> QED BY <1>1, <1>2

\* The host stays where it is.
LEMMA StayFits ==
    ASSUME StackInv, NEW s, Fits(s, disable', alarmDepth', drainDepth'),
           NEW st, NEW hint, Stay(st, s, hint)
    PROVE  StackInv'
<1>1. stack' = [stack EXCEPT ![host] = s] /\ host' = host
  BY DEF Stay
<1>2. stack' \in [Threads -> Seq(Frame)] /\ host' \in Threads
  BY <1>1 DEF StackInv, Fits
<1>3. stack'[host'] = s /\ \A t \in Threads \ {host'} : stack'[t] = stack[t]
  BY <1>1 DEF StackInv
<1>4. \A t \in Threads \ {host'} : Clear(stack'[t])
  BY <1>1, <1>3 DEF StackInv
<1> QED BY <1>1, <1>2, <1>3, <1>4 DEF StackInv, Fits

\* The host leaves the fiber, whose frames have not raised the count.
LEMMA SwitchFits ==
    ASSUME StackInv, NEW s, Fits(s, disable', alarmDepth', drainDepth'), disable' = 0,
           NEW st, SwitchFrom(st, s)
    PROVE  StackInv'
<1>1. stack' = [stack EXCEPT ![host] = s] /\ host' \in Threads
  BY DEF SwitchFrom, MostUrgent, Ready
<1>2. stack' \in [Threads -> Seq(Frame)]
  BY <1>1 DEF StackInv, Fits
<1>3. stack'[host] = s /\ \A t \in Threads \ {host} : stack'[t] = stack[t]
  BY <1>1 DEF StackInv
<1>4. Clear(s)
  BY ShapeClear DEF Fits
<1>5. \A t \in Threads : Clear(stack'[t])
  BY <1>3, <1>4 DEF StackInv
<1>6. Shape(stack'[host'], 0) /\ ~ HandlerOnTop(stack'[host'])
  <2>1. Shape(stack'[host'], 0)
    BY <1>1, <1>2, <1>5, ShapeClear
  <2> QED BY <2>1 DEF Shape, Raised
<1> QED BY <1>1, <1>2, <1>5, <1>6 DEF StackInv, Fits

\* A frame that is no guard and no handler is pushed.
LEMMA PushFits ==
    ASSUME StackInv, NEW s, NEW n, NEW m, Fits(s, 0, n, m), ~ Has(s, "endDeferred"),
           NEW f \in Frame, f.op = "idle"
    PROVE  Fits(Push(f, s), 0, n, m)
<1>1. /\ s \in Seq(Frame) /\ Clear(s)
      /\ Guarded("alarms", n, [stack EXCEPT ![host] = s])
      /\ Guarded("drain", m, [stack EXCEPT ![host] = s])
  BY ShapeClear DEF Fits
<1>2. /\ Push(f, s) \in Seq(Frame) /\ Push(f, s) # <<>>
      /\ Head(Push(f, s)) = f /\ Tail(Push(f, s)) = s
      /\ \A op : Has(Push(f, s), op) <=> f.op = op \/ Has(s, op)
      /\ \A op : Once(Push(f, s), op) <=>
                   (f.op = op /\ ~ Has(s, op)) \/ (f.op # op /\ Once(s, op))
  BY <1>1, PushFacts
<1>3. Clear(Push(f, s))
  BY <1>1, <1>2 DEF Clear, InHandler
<1>4. Shape(Push(f, s), 0) /\ ~ HandlerOnTop(Push(f, s))
  <2>1. Shape(Push(f, s), 0)
    BY <1>2, <1>3, ShapeClear
  <2> QED BY <2>1 DEF Shape, Raised
<1>5. ASSUME NEW op \in {"alarms", "drain"}, NEW k, Guarded(op, k, [stack EXCEPT ![host] = s])
      PROVE  Guarded(op, k, [stack EXCEPT ![host] = Push(f, s)])
  <2> DEFINE stk == [stack EXCEPT ![host] = s]
  <2>1. stk \in [Threads -> Seq(Frame)] /\ stk[host] = s /\ host \in Threads
          /\ [stk EXCEPT ![host] = Push(f, s)] = [stack EXCEPT ![host] = Push(f, s)]
    BY <1>1 DEF StackInv
  <2>2. Guarded(op, k, stk)
    BY <1>5
  <2>3. (Has(Push(f, s), op) <=> Has(s, op)) /\ (Once(Push(f, s), op) <=> Once(s, op))
    BY <1>2
  <2>4. Guarded(op, k, [stk EXCEPT ![host] = Push(f, s)])
    <3> HIDE DEF stk
    <3> QED BY <2>1, <2>2, <2>3, GuardMoves
  <2> QED BY <2>1, <2>4
<1> QED BY <1>1, <1>2, <1>4, <1>5 DEF Fits

\* SelectThread keeps the fiber, leaves it, or idles on it.
LEMMA SelectFits ==
    ASSUME StackInv, NEW s, Fits(s, disable', alarmDepth', drainDepth'),
           NEW st, NEW hint, Select(st, s, hint)
    PROVE  StackInv'
<1> DEFINE st2 == IF st[host] = "running" THEN [st EXCEPT ![host] = "ready"] ELSE st
           idle == Fr("idle", 0, HostBatch, FALSE)
<1>1. disable' \in Nat /\ s \in Seq(Frame)
  BY DEF Fits, Shape, Raised
<1>2. \/ Stay(st, s, hint)
      \/ ~ Refuses(s) /\ SwitchFrom(st2, s)
      \/ ~ Refuses(s) /\ Stay(st2, Push(idle, s), hint)
  BY DEF Select, Push
<1> HIDE DEF st2, idle
<1>3. ~ Refuses(s) => disable' = 0
  BY <1>1 DEF Refuses
<1>4. idle \in Frame /\ idle.op = "idle"
  <2>1. 0 \in Left /\ HostBatch \in Batches
    BY PumpConstants DEF Left, Batches, DrainBatch
  <2> QED BY <2>1 DEF idle, Fr, Frame
<1>5. CASE Stay(st, s, hint)
  BY <1>5, StayFits
<1>6. CASE ~ Refuses(s) /\ SwitchFrom(st2, s)
  BY <1>3, <1>6, SwitchFits
<1>7. CASE ~ Refuses(s) /\ Stay(st2, Push(idle, s), hint)
  <2>1. Fits(s, 0, alarmDepth', drainDepth') /\ disable' = 0
    BY <1>3, <1>7
  <2>2. ~ Has(s, "endDeferred")
    BY <1>1, <2>1, ShapeClear DEF Fits, Clear
  <2>3. Fits(Push(idle, s), disable', alarmDepth', drainDepth')
    BY <1>4, <2>1, <2>2, PushFits
  <2> QED BY <1>7, <2>3, StayFits
<1> QED BY <1>2, <1>5, <1>6, <1>7

-----------------------------------------------------------------------------
(* The steps, by what they leave on the fiber of the host. *)

\* s has raised and guards what the fiber of the host has and does.
Alike(s) ==
    /\ s \in Seq(Frame)
    /\ \A op \in {"alarms", "drain", "endDeferred", "idle"} :
        (Has(s, op) <=> Has(stack[host], op)) /\ (Once(s, op) <=> Once(stack[host], op))
    /\ HandlerOnTop(s) <=> HandlerOnTop(stack[host])
    /\ s # <<>> => ~ InHandler(Tail(s))

\* A guard that is up is up for one frame.
LEMMA GuardOnce ==
    ASSUME NEW stk, NEW h \in Threads, NEW op, NEW n, Guarded(op, n, stk), Has(stk[h], op)
    PROVE  Once(stk[h], op)
BY DEF Guarded

\* Such frames fit without a change of the counts.
LEMMA AlikeFits ==
    ASSUME StackInv, NEW s, Alike(s)
    PROVE  Fits(s, disable, alarmDepth, drainDepth)
<1>1. stack \in [Threads -> Seq(Frame)] /\ host \in Threads
        /\ Guarded("alarms", alarmDepth, stack) /\ Guarded("drain", drainDepth, stack)
  BY DEF StackInv
<1>2. /\ Guarded("alarms", alarmDepth, [stack EXCEPT ![host] = s])
      /\ Guarded("drain", drainDepth, [stack EXCEPT ![host] = s])
  BY <1>1, GuardMoves DEF Alike
<1>3. Shape(s, disable)
  BY DEF StackInv, Alike, Shape, Raised
<1> QED BY <1>2, <1>3 DEF Fits, StackInv, Alike

\* The frames of the fiber that is executing.
LEMMA TopFacts ==
    ASSUME StackInv, stack[host] # <<>>
    PROVE  /\ Top \in Frame /\ Rest \in Seq(Frame) /\ stack[host] = Push(Top, Rest)
           /\ ~ InHandler(Rest) /\ ~ HandlerOnTop(Rest)
           /\ HandlerOnTop(stack[host]) <=> Top.op \in {"handler", "endHandler"}
           /\ \A op : Has(stack[host], op) <=> Top.op = op \/ Has(Rest, op)
           /\ \A op : Once(stack[host], op) <=>
                        (Top.op = op /\ ~ Has(Rest, op)) \/ (Top.op # op /\ Once(Rest, op))
<1>1. stack[host] \in Seq(Frame)
  BY DEF StackInv
<1>2. Top \in Frame /\ Rest \in Seq(Frame) /\ stack[host] = Push(Top, Rest)
  BY <1>1, PopFacts DEF Top, Rest
<1>3. ~ InHandler(Rest)
  BY DEF StackInv, Shape, Rest
<1>4. ~ HandlerOnTop(Rest)
  <2>1. ASSUME Rest # <<>> PROVE \A op : Has(Rest, op) <=> Head(Rest).op = op \/ Has(Tail(Rest), op)
    BY <1>2, <2>1, TopOrBelow, Zenon
  <2> QED BY <1>3, <2>1 DEF HandlerOnTop, InHandler
<1>5. HandlerOnTop(stack[host]) <=> Top.op \in {"handler", "endHandler"}
  BY DEF HandlerOnTop, Top
<1>6. /\ \A op : Has(stack[host], op) <=> Top.op = op \/ Has(Rest, op)
      /\ \A op : Once(stack[host], op) <=>
                   (Top.op = op /\ ~ Has(Rest, op)) \/ (Top.op # op /\ Once(Rest, op))
  BY <1>1, TopOrBelow, Zenon DEF Top, Rest
<1> QED BY <1>2, <1>3, <1>4, <1>5, <1>6

\* The topmost frame, which is no guard, gives way to another, or returns.
LEMMA SwapAlike ==
    ASSUME StackInv, stack[host] # <<>>, Top.op \in {"callback", "completions", "reschedule"}
    PROVE  /\ Alike(Rest)
           /\ \A f \in Frame : f.op \in {"callback", "completions", "reschedule"}
                                => Alike(Push(f, Rest))
<1>1. Alike(Rest)
  <2>1. Rest # <<>> => ~ InHandler(Tail(Rest))
    <3>1. Rest # <<>> => \A op : Has(Rest, op) <=> Head(Rest).op = op \/ Has(Tail(Rest), op)
      BY TopFacts, TopOrBelow, Zenon
    <3> QED BY <3>1, TopFacts DEF InHandler
  <2> QED BY <2>1, TopFacts DEF Alike
<1>2. ASSUME NEW f \in Frame, f.op \in {"callback", "completions", "reschedule"}
      PROVE  Alike(Push(f, Rest))
  <2>1. ~ HandlerOnTop(Push(f, Rest))
    BY <1>2, TopFacts, PushFacts DEF HandlerOnTop
  <2> QED BY <1>2, <2>1, TopFacts, PushFacts DEF Alike
<1> QED BY <1>1, <1>2

\* What guest code leaves when it returns, and what is there all the time.
LEMMA AfterAlike == ASSUME StackInv PROVE Alike(stack[host]) /\ (InCode => Alike(After))
<1>1. Alike(stack[host])
  BY DEF StackInv, Alike, Shape
<1>2. CASE InThread
  <2>1. ~ At("handler")
    BY <1>2 DEF InThread, At
  <2>2. After = stack[host]
    BY <1>2, <2>1, Zenon DEF After, InThread
  <2> QED BY <1>1, <2>2
<1>3. CASE ~ InThread /\ At("handler")
  <2> DEFINE f == [Top EXCEPT !.op = "endHandler"]
  <2>1. After = Push(f, Rest)
    BY <1>3, Zenon DEF After, Push
  <2>2. f \in Frame /\ f.op = "endHandler"
    BY <1>3, TopFacts DEF Frame, At
  <2> HIDE DEF f
  <2>3. Top.op = "handler" /\ stack[host] # <<>>
    BY <1>3 DEF At
  <2>4. HandlerOnTop(Push(f, Rest))
    BY <2>2, <2>3, TopFacts, PushFacts DEF HandlerOnTop
  <2>5. /\ \A op : Has(stack[host], op) <=> Top.op = op \/ Has(Rest, op)
        /\ \A op : Once(stack[host], op) <=>
                     (Top.op = op /\ ~ Has(Rest, op)) \/ (Top.op # op /\ Once(Rest, op))
        /\ HandlerOnTop(stack[host]) /\ ~ InHandler(Rest) /\ Rest \in Seq(Frame)
    BY <2>3, TopFacts
  <2>6. /\ Push(f, Rest) \in Seq(Frame) /\ Tail(Push(f, Rest)) = Rest
        /\ \A op : Has(Push(f, Rest), op) <=> f.op = op \/ Has(Rest, op)
        /\ \A op : Once(Push(f, Rest), op) <=>
                     (f.op = op /\ ~ Has(Rest, op)) \/ (f.op # op /\ Once(Rest, op))
    BY <2>2, <2>5, PushFacts
  <2>7. Alike(Push(f, Rest))
    BY <2>2, <2>3, <2>4, <2>5, <2>6 DEF Alike
  <2> QED BY <1>1, <2>1, <2>7
<1>4. CASE ~ InThread /\ At("callback")
  <2>1. After = Rest
    <3>1. ~ At("handler")
      BY <1>4 DEF At
    <3> QED BY <1>4, <3>1, Zenon DEF After
  <2>2. stack[host] # <<>> /\ Top.op = "callback"
    BY <1>4 DEF At
  <2>3. Alike(Rest)
    BY <2>2, SwapAlike
  <2> QED BY <1>1, <2>1, <2>3
<1> QED BY <1>1, <1>2, <1>3, <1>4, Zenon DEF InCode

\* The step changes no count.
CountsKept == UNCHANGED disable /\ UNCHANGED guards

\* Such a step that stays on the fiber keeps the invariant.
LEMMA StayAlike ==
    ASSUME StackInv, NEW s, Alike(s), CountsKept, NEW st, NEW hint, Stay(st, s, hint)
    PROVE  StackInv'
<1>1. disable' = disable /\ alarmDepth' = alarmDepth /\ drainDepth' = drainDepth
  BY DEF CountsKept, guards
<1> QED BY <1>1, AlikeFits, StayFits

\* So does one that selects.
LEMMA SelectAlike ==
    ASSUME StackInv, NEW s, Alike(s), CountsKept, NEW st, NEW hint, Select(st, s, hint)
    PROVE  StackInv'
<1>1. disable' = disable /\ alarmDepth' = alarmDepth /\ drainDepth' = drainDepth
  BY DEF CountsKept, guards
<1> QED BY <1>1, AlikeFits, SelectFits

\* A pump begins on s, or is refused.
LEMMA PumpFits ==
    ASSUME StackInv, NEW s, Fits(s, disable', alarmDepth, drainDepth'), NEW b \in Batches,
           ProcessAlarmQueue(b, s)
    PROVE  StackInv'
<1> DEFINE f == Fr("alarms", b, b, FALSE)
<1>1. CASE alarmDepth # 0
  <2>1. Stay(state, s, resched) /\ alarmDepth' = alarmDepth
    BY <1>1 DEF ProcessAlarmQueue, Refused
  <2> QED BY <2>1, StayFits
<1>2. CASE alarmDepth = 0
  <2>1. Stay(state, Push(f, s), resched) /\ alarmDepth' = 1
    BY <1>2 DEF ProcessAlarmQueue, Refused, Push
  <2>2. f \in Frame /\ f.op = "alarms"
    <3>1. {GuestBatch, HostBatch, MinDrain} \subseteq Nat
      BY PumpConstants
    <3>2. b \in Left
      BY <3>1 DEF Left, Batches, DrainBatch
    <3> QED BY <3>2 DEF Fr, Frame
  <2> HIDE DEF f
  <2>3. /\ Push(f, s) \in Seq(Frame) /\ Push(f, s) # <<>>
        /\ Head(Push(f, s)) = f /\ Tail(Push(f, s)) = s
        /\ \A op : Has(Push(f, s), op) <=> f.op = op \/ Has(s, op)
        /\ \A op : Once(Push(f, s), op) <=>
                     (f.op = op /\ ~ Has(s, op)) \/ (f.op # op /\ Once(s, op))
    BY <2>2, PushFacts DEF Fits
  <2> DEFINE stk == [stack EXCEPT ![host] = s]
  <2>4. /\ stk \in [Threads -> Seq(Frame)] /\ stk[host] = s /\ host \in Threads
        /\ [stk EXCEPT ![host] = Push(f, s)] = [stack EXCEPT ![host] = Push(f, s)]
        /\ Guarded("alarms", 0, stk) /\ Guarded("drain", drainDepth', stk)
    BY <1>2 DEF StackInv, Fits
  <2>5. Guarded("alarms", 1, [stk EXCEPT ![host] = Push(f, s)])
    <3> HIDE DEF stk
    <3>1. ~ Has(s, "alarms")
      BY <2>4, GuardMoves
    <3>2. Once(Push(f, s), "alarms")
      BY <2>2, <2>3, <3>1
    <3> QED BY <2>4, <3>2, GuardMoves
  <2>6. Guarded("drain", drainDepth', [stk EXCEPT ![host] = Push(f, s)])
    <3> HIDE DEF stk
    <3>1. (Has(Push(f, s), "drain") <=> Has(s, "drain")) /\ (Once(Push(f, s), "drain") <=> Once(s, "drain"))
      BY <2>2, <2>3
    <3> QED BY <2>4, <3>1, GuardMoves
  <2>7. ~ HandlerOnTop(s) /\ ~ HandlerOnTop(Push(f, s)) /\ ~ InHandler(s)
    <3>1. ~ HandlerOnTop(s)
      BY <1>2 DEF Fits
    <3>2. ~ InHandler(s)
      <4>1. s # <<>> => \A op : Has(s, op) <=> Head(s).op = op \/ Has(Tail(s), op)
        BY PopFacts, PushFacts DEF Fits
      <4> QED BY <3>1, <4>1, EmptyFacts DEF Fits, Shape, InHandler, HandlerOnTop
    <3> QED BY <2>2, <2>3, <3>1, <3>2 DEF HandlerOnTop
  <2>8. Shape(Push(f, s), disable')
    BY <2>2, <2>3, <2>7 DEF Fits, Shape, Raised
  <2>9. Fits(Push(f, s), disable', alarmDepth', drainDepth')
    BY <2>1, <2>3, <2>4, <2>5, <2>6, <2>7, <2>8 DEF Fits
  <2> QED BY <2>1, <2>9, StayFits
<1> QED BY <1>1, <1>2

\* The head of the list is due: a handler runs, under a raised count.
LEMMA DispatchStacks == ASSUME StackInv, DispatchAlarm PROVE StackInv'
<1> DEFINE h == Fr("handler", 0, Top.b, FALSE)
           g == [Top EXCEPT !.n = @ - 1]
<1>1. /\ stack[host] # <<>> /\ Top.op = "alarms" /\ Top \in Frame /\ Rest \in Seq(Frame)
      /\ Top.n \in Nat \ {0} /\ ~ InHandler(Rest) /\ ~ HandlerOnTop(stack[host])
      /\ disable' = disable + 1 /\ alarmDepth' = alarmDepth /\ drainDepth' = drainDepth
  <2>1. stack[host] # <<>> /\ Top.op = "alarms" /\ Top.n > 0
    BY DEF DispatchAlarm, At
  <2>2. /\ Top \in Frame /\ Rest \in Seq(Frame)
        /\ ~ InHandler(Rest) /\ ~ HandlerOnTop(stack[host])
    BY <2>1, TopFacts
  <2>3. disable' = disable + 1 /\ alarmDepth' = alarmDepth /\ drainDepth' = drainDepth
    BY DEF DispatchAlarm, IncrementDisable, guards
  <2>4. Top.n \in Nat
    BY <2>2, PumpConstants DEF Frame, Left
  <2> QED BY <2>1, <2>2, <2>3, <2>4
<1>2. h \in Frame /\ g \in Frame /\ h.op = "handler" /\ g.op = "alarms"
  <2>1. Top.n - 1 \in Left /\ 0 \in Left /\ Top.b \in Batches
    <3>1. Top.n \in Left /\ Top.b \in Batches
      BY <1>1 DEF Frame
    <3>2. {DrainBatch(GuestBatch), DrainBatch(HostBatch)} \subseteq Nat
      BY PumpConstants DEF DrainBatch
    <3> QED BY <1>1, <3>1, <3>2 DEF Left
  <2> QED BY <1>1, <2>1 DEF Fr, Frame
<1>3. Stay(state, Push(h, Push(g, Rest)), resched)
  BY <1>1, <1>2, PushTwo DEF DispatchAlarm
<1> HIDE DEF h, g
<1> DEFINE r == Push(g, Rest)
           s == Push(h, r)
<1>4. /\ r \in Seq(Frame)
      /\ \A op : Has(r, op) <=> g.op = op \/ Has(Rest, op)
      /\ \A op : Once(r, op) <=>
                   (g.op = op /\ ~ Has(Rest, op)) \/ (g.op # op /\ Once(Rest, op))
  BY <1>1, <1>2, PushFacts
<1> HIDE DEF r
<1>5. /\ s \in Seq(Frame) /\ s # <<>> /\ Head(s) = h /\ Tail(s) = r
      /\ \A op : Has(s, op) <=> h.op = op \/ Has(r, op)
      /\ \A op : Once(s, op) <=> (h.op = op /\ ~ Has(r, op)) \/ (h.op # op /\ Once(r, op))
  BY <1>2, <1>4, PushFacts
<1>6. /\ \A op : Has(stack[host], op) <=> Top.op = op \/ Has(Rest, op)
      /\ \A op : Once(stack[host], op) <=>
                   (Top.op = op /\ ~ Has(Rest, op)) \/ (Top.op # op /\ Once(Rest, op))
  BY <1>1, TopFacts
<1> HIDE DEF s
<1>7. \A op \in {"alarms", "drain", "endDeferred", "idle"} :
        (Has(s, op) <=> Has(stack[host], op)) /\ (Once(s, op) <=> Once(stack[host], op))
  BY <1>1, <1>2, <1>4, <1>5, <1>6
<1>8. /\ stack \in [Threads -> Seq(Frame)] /\ host \in Threads
      /\ Guarded("alarms", alarmDepth, stack) /\ Guarded("drain", drainDepth, stack)
  BY DEF StackInv
<1>9. /\ Guarded("alarms", alarmDepth, [stack EXCEPT ![host] = s])
      /\ Guarded("drain", drainDepth, [stack EXCEPT ![host] = s])
  BY <1>7, <1>8, GuardMoves
<1>10. alarmDepth = 1
  <2>1. Has(stack[host], "alarms")
    BY <1>1, <1>6
  <2> QED BY <1>8, <2>1, GuardMoves
<1>11. HandlerOnTop(s) /\ ~ InHandler(Tail(s))
  BY <1>1, <1>2, <1>4, <1>5 DEF HandlerOnTop, InHandler
<1>12. Shape(s, disable + 1)
  <2>1. Raised(s) = Raised(stack[host]) + 1
    BY <1>1, <1>7, <1>11 DEF Raised
  <2> QED BY <1>7, <1>11, <2>1 DEF StackInv, Shape
<1>13. Fits(s, disable', alarmDepth', drainDepth')
  BY <1>1, <1>5, <1>9, <1>10, <1>12 DEF Fits
<1> QED BY <1>3, <1>13, StayFits DEF s, r

\* A handler has returned; a reschedule may follow.
LEMMA EndHandlerStacks == ASSUME StackInv, EndHandler PROVE StackInv'
<1>1. /\ stack[host] # <<>> /\ Top.op = "endHandler"
      /\ disable' = IF disable = 0 THEN 0 ELSE disable - 1
      /\ alarmDepth' = alarmDepth /\ drainDepth' = drainDepth
  BY DEF EndHandler, At, DecrementDisable, guards
<1>2. /\ Rest \in Seq(Frame) /\ ~ InHandler(Rest) /\ ~ HandlerOnTop(Rest)
      /\ HandlerOnTop(stack[host])
  BY <1>1, TopFacts
<1>3. \A op \in {"alarms", "drain", "endDeferred", "idle"} :
        (Has(Rest, op) <=> Has(stack[host], op)) /\ (Once(Rest, op) <=> Once(stack[host], op))
  BY <1>1, TopFacts
<1>4. /\ stack \in [Threads -> Seq(Frame)] /\ host \in Threads
      /\ Guarded("alarms", alarmDepth, stack) /\ Guarded("drain", drainDepth, stack)
  BY DEF StackInv
<1>5. /\ Guarded("alarms", alarmDepth, [stack EXCEPT ![host] = Rest])
      /\ Guarded("drain", drainDepth, [stack EXCEPT ![host] = Rest])
  BY <1>3, <1>4, GuardMoves
<1>6. Shape(Rest, disable')
  <2>1. Rest # <<>> => ~ InHandler(Tail(Rest))
    <3>1. Rest # <<>> => \A op : Has(Rest, op) <=> Head(Rest).op = op \/ Has(Tail(Rest), op)
      BY <1>2, TopOrBelow, Zenon
    <3> QED BY <1>2, <3>1 DEF InHandler
  <2>2. disable = 1 + Raised(Rest) /\ Raised(Rest) \in Nat
    BY <1>2, <1>3 DEF StackInv, Shape, Raised
  <2>3. disable' = Raised(Rest)
    BY <1>1, <2>2
  <2> QED BY <1>3, <2>1, <2>3 DEF StackInv, Shape
<1>7. Fits(Rest, disable', alarmDepth', drainDepth')
  BY <1>1, <1>2, <1>5, <1>6 DEF Fits
<1>8. Select(state, Rest, resched) \/ Stay(state, Rest, resched)
  BY DEF EndHandler, RunDeferredReschedule
<1> QED BY <1>7, <1>8, SelectFits, StayFits

\* The renderer's pump has returned.
LEMMA EndDeferredStacks == ASSUME StackInv, EndDeferred PROVE StackInv'
<1>1. /\ stack[host] # <<>> /\ Top.op = "endDeferred" /\ Stay(state, Rest, resched)
      /\ disable' = IF disable = 0 THEN 0 ELSE disable - 1
      /\ alarmDepth' = alarmDepth /\ drainDepth' = drainDepth
  BY DEF EndDeferred, At, DecrementDisable, guards
<1>2. /\ Rest \in Seq(Frame) /\ ~ InHandler(Rest) /\ ~ HandlerOnTop(Rest)
      /\ ~ HandlerOnTop(stack[host])
  BY <1>1, TopFacts
<1>3. Has(stack[host], "endDeferred") /\ ~ Has(Rest, "endDeferred")
  <2>1. Has(stack[host], "endDeferred")
    BY <1>1, TopFacts
  <2>2. Once(stack[host], "endDeferred")
    BY <2>1 DEF StackInv, Shape
  <2> QED BY <1>1, <2>1, <2>2, TopFacts
<1>4. \A op \in {"alarms", "drain"} :
        (Has(Rest, op) <=> Has(stack[host], op)) /\ (Once(Rest, op) <=> Once(stack[host], op))
  BY <1>1, TopFacts
<1>5. /\ stack \in [Threads -> Seq(Frame)] /\ host \in Threads
      /\ Guarded("alarms", alarmDepth, stack) /\ Guarded("drain", drainDepth, stack)
  BY DEF StackInv
<1>6. /\ Guarded("alarms", alarmDepth, [stack EXCEPT ![host] = Rest])
      /\ Guarded("drain", drainDepth, [stack EXCEPT ![host] = Rest])
  BY <1>4, <1>5, GuardMoves
<1>7. Shape(Rest, disable')
  <2>1. disable = 1
    BY <1>2, <1>3 DEF StackInv, Shape, Raised
  <2>2. Shape(Rest, 0)
    BY <1>2, <1>3, ShapeClear DEF Clear
  <2> QED BY <1>1, <2>1, <2>2
<1>8. Fits(Rest, disable', alarmDepth', drainDepth')
  BY <1>1, <1>2, <1>6, <1>7 DEF Fits
<1> QED BY <1>1, <1>8, StayFits

\* A guard is lowered, or raised, with the frame it belongs to.
LEMMA GuardSteps ==
    ASSUME StackInv, stack[host] # <<>>, NEW f \in Frame,
           NEW st, NEW hint, Stay(st, Push(f, Rest), hint),
           disable' = disable,
           \/ /\ Top.op = "alarms" /\ f.op = "completions"
              /\ alarmDepth' = alarmDepth - 1 /\ drainDepth' = drainDepth
           \/ /\ Top.op = "completions" /\ f.op = "drain" /\ drainDepth = 0
              /\ drainDepth' = 1 /\ alarmDepth' = alarmDepth
           \/ /\ Top.op = "drain" /\ f.op = "reschedule"
              /\ drainDepth' = drainDepth - 1 /\ alarmDepth' = alarmDepth
    PROVE  StackInv'
<1> DEFINE s == Push(f, Rest)
<1>1. /\ \A op : Has(stack[host], op) <=> Top.op = op \/ Has(Rest, op)
      /\ \A op : Once(stack[host], op) <=>
                   (Top.op = op /\ ~ Has(Rest, op)) \/ (Top.op # op /\ Once(Rest, op))
      /\ HandlerOnTop(stack[host]) <=> Top.op \in {"handler", "endHandler"}
      /\ ~ InHandler(Rest) /\ Rest \in Seq(Frame)
  BY TopFacts
<1>2. /\ s \in Seq(Frame) /\ s # <<>> /\ Head(s) = f /\ Tail(s) = Rest
      /\ \A op : Has(s, op) <=> f.op = op \/ Has(Rest, op)
      /\ \A op : Once(s, op) <=> (f.op = op /\ ~ Has(Rest, op)) \/ (f.op # op /\ Once(Rest, op))
  BY <1>1, PushFacts
<1>3. /\ stack \in [Threads -> Seq(Frame)] /\ host \in Threads
      /\ Guarded("alarms", alarmDepth, stack) /\ Guarded("drain", drainDepth, stack)
  BY DEF StackInv
<1> HIDE DEF s
<1>4. ~ HandlerOnTop(s) /\ ~ HandlerOnTop(stack[host]) /\ ~ InHandler(Tail(s))
  BY <1>1, <1>2 DEF HandlerOnTop
<1>5. \A op \in {"endDeferred", "idle"} :
        (Has(s, op) <=> Has(stack[host], op)) /\ (Once(s, op) <=> Once(stack[host], op))
  BY <1>1, <1>2
<1>6. Shape(s, disable')
  BY <1>4, <1>5 DEF StackInv, Shape, Raised
<1>7. ASSUME NEW op, NEW n, Guarded(op, n, stack), Top.op # op, f.op # op
      PROVE  Guarded(op, n, [stack EXCEPT ![host] = s])
  <2>1. (Has(s, op) <=> Has(stack[host], op)) /\ (Once(s, op) <=> Once(stack[host], op))
    BY <1>1, <1>2, <1>7
  <2> QED BY <1>3, <1>7, <2>1, GuardMoves
<1>8. ASSUME NEW op, NEW n, Guarded(op, n, stack), Top.op = op, f.op # op
      PROVE  n = 1 /\ Guarded(op, 0, [stack EXCEPT ![host] = s])
  <2>1. Has(stack[host], op)
    BY <1>1, <1>8
  <2>2. ~ Has(Rest, op)
    BY <1>1, <1>3, <1>8, <2>1, GuardOnce
  <2>3. ~ Has(s, op)
    BY <1>2, <1>8, <2>2
  <2> QED BY <1>3, <1>8, <2>1, <2>3, GuardMoves
<1>9. ASSUME NEW op, Guarded(op, 0, stack), f.op = op
      PROVE  Guarded(op, 1, [stack EXCEPT ![host] = s])
  <2>1. ~ Has(stack[host], op)
    BY <1>3, <1>9, GuardMoves
  <2>2. Once(s, op)
    BY <1>1, <1>2, <1>9, <2>1
  <2> QED BY <1>3, <1>9, <2>2, GuardMoves
<1>10. /\ Guarded("alarms", alarmDepth', [stack EXCEPT ![host] = s])
       /\ Guarded("drain", drainDepth', [stack EXCEPT ![host] = s])
  <2>1. CASE /\ Top.op = "alarms" /\ f.op = "completions"
             /\ alarmDepth' = alarmDepth - 1 /\ drainDepth' = drainDepth
    <3>1. alarmDepth = 1 /\ Guarded("alarms", 0, [stack EXCEPT ![host] = s])
      BY <1>3, <1>8, <2>1
    <3>2. Guarded("drain", drainDepth, [stack EXCEPT ![host] = s])
      BY <1>3, <1>7, <2>1
    <3>3. alarmDepth' = 0
      BY <2>1, <3>1
    <3> QED BY <2>1, <3>1, <3>2, <3>3
  <2>2. CASE /\ Top.op = "completions" /\ f.op = "drain" /\ drainDepth = 0
             /\ drainDepth' = 1 /\ alarmDepth' = alarmDepth
    <3>1. Guarded("alarms", alarmDepth, [stack EXCEPT ![host] = s])
      BY <1>3, <1>7, <2>2
    <3>2. Guarded("drain", 1, [stack EXCEPT ![host] = s])
      BY <1>3, <1>9, <2>2
    <3> QED BY <2>2, <3>1, <3>2
  <2>3. CASE /\ Top.op = "drain" /\ f.op = "reschedule"
             /\ drainDepth' = drainDepth - 1 /\ alarmDepth' = alarmDepth
    <3>1. drainDepth = 1 /\ Guarded("drain", 0, [stack EXCEPT ![host] = s])
      BY <1>3, <1>8, <2>3
    <3>2. Guarded("alarms", alarmDepth, [stack EXCEPT ![host] = s])
      BY <1>3, <1>7, <2>3
    <3>3. drainDepth' = 0
      BY <2>3, <3>1
    <3> QED BY <2>3, <3>1, <3>2, <3>3
  <2> QED BY <2>1, <2>2, <2>3
<1>11. Fits(s, disable', alarmDepth', drainDepth')
  BY <1>2, <1>4, <1>6, <1>10 DEF Fits
<1> QED BY <1>11, StayFits DEF s

\* The bounds of the batches are numbers.
LEMMA LeftFacts ==
    /\ Left \subseteq Nat /\ 0 \in Left
    /\ \A b \in Batches : DrainBatch(b) \in Left /\ b \in Left
    /\ \A n \in Left : n > 0 => n - 1 \in Left
<1>1. {GuestBatch, HostBatch, MinDrain} \subseteq Nat
  BY PumpConstants
<1>2. {DrainBatch(GuestBatch), DrainBatch(HostBatch)} \subseteq Nat
        /\ GuestBatch <= DrainBatch(GuestBatch) /\ HostBatch <= DrainBatch(HostBatch)
  BY <1>1 DEF DrainBatch
<1> QED BY <1>1, <1>2 DEF Left, Batches

\* No head is due: the guard is lowered before the completions.
LEMMA EndDispatchStacks == ASSUME StackInv, EndDispatch PROVE StackInv'
<1> DEFINE f == [Top EXCEPT !.op = "completions", !.n = 0]
<1>1. /\ stack[host] # <<>> /\ Top.op = "alarms" /\ Stay(state, Push(f, Rest), resched)
      /\ disable' = disable /\ alarmDepth' = alarmDepth - 1 /\ drainDepth' = drainDepth
  BY DEF EndDispatch, At, LowerGuard, Push
<1>2. f \in Frame /\ f.op = "completions"
  BY <1>1, TopFacts, LeftFacts DEF Frame
<1> HIDE DEF f
<1> QED BY <1>1, <1>2, GuardSteps

\* Results are delivered; a drain begins unless one is under way.
LEMMA CompletionsStacks == ASSUME StackInv, Completions PROVE StackInv'
<1>1. stack[host] # <<>> /\ Top.op = "completions" /\ Top \in Frame
        /\ disable' = disable /\ alarmDepth' = alarmDepth
        /\ drainDepth' = IF drainDepth # 0 THEN drainDepth ELSE 1
  BY TopFacts DEF Completions, At
<1>2. PICK woken \in SUBSET {t \in Threads : state[t] = "asleep"} :
        \E new \in {0, 1} :
            LET st == [t \in Threads |-> IF t \in woken THEN "ready" ELSE state[t]]
                f == [Top EXCEPT !.did = woken # {} \/ new = 1]
                next == IF drainDepth # 0 THEN [f EXCEPT !.op = "reschedule", !.n = 0]
                        ELSE [f EXCEPT !.op = "drain", !.n = DrainBatch(f.b)]
            IN  Stay(st, <<next>> \o Rest, resched \/ woken # {})
  BY DEF Completions
<1>3. PICK new \in {0, 1} :
            LET st == [t \in Threads |-> IF t \in woken THEN "ready" ELSE state[t]]
                f == [Top EXCEPT !.did = woken # {} \/ new = 1]
                next == IF drainDepth # 0 THEN [f EXCEPT !.op = "reschedule", !.n = 0]
                        ELSE [f EXCEPT !.op = "drain", !.n = DrainBatch(f.b)]
            IN  Stay(st, <<next>> \o Rest, resched \/ woken # {})
  BY <1>2
<1> DEFINE st == [t \in Threads |-> IF t \in woken THEN "ready" ELSE state[t]]
           did == woken # {} \/ new = 1
           f == [Top EXCEPT !.did = did]
           again == [f EXCEPT !.op = "reschedule", !.n = 0]
           drain == [f EXCEPT !.op = "drain", !.n = DrainBatch(f.b)]
<1>4. did \in BOOLEAN
  OBVIOUS
<1>5. f \in Frame /\ f.b = Top.b
  <2> HIDE DEF did
  <2> QED BY <1>1, <1>4 DEF Frame
<1>6. /\ drainDepth # 0 => Stay(st, Push(again, Rest), resched \/ woken # {})
      /\ drainDepth = 0 => Stay(st, Push(drain, Rest), resched \/ woken # {})
  BY <1>3 DEF Push
<1> HIDE DEF st, f
<1>7. /\ again \in Frame /\ again.op = "reschedule"
      /\ drain \in Frame /\ drain.op = "drain"
  BY <1>5, LeftFacts DEF Frame
<1> HIDE DEF again, drain
<1>8. CASE drainDepth # 0
  <2>1. Alike(Push(again, Rest))
    BY <1>1, <1>7, SwapAlike
  <2>2. CountsKept
    BY <1>1, <1>8 DEF CountsKept, guards
  <2> QED BY <1>6, <1>8, <2>1, <2>2, StayAlike
<1>9. CASE drainDepth = 0
  BY <1>1, <1>6, <1>7, <1>9, GuardSteps
<1> QED BY <1>8, <1>9

\* A callback is dispatched on top of the drain.
LEMMA CallbackStacks == ASSUME StackInv, DispatchNandCallback PROVE StackInv'
<1> DEFINE f == Fr("callback", 0, Top.b, FALSE)
           g == [Top EXCEPT !.n = @ - 1, !.did = TRUE]
           r == Push(g, Rest)
           s == Push(f, r)
<1>1. /\ stack[host] # <<>> /\ Top.op = "drain" /\ Top \in Frame /\ Rest \in Seq(Frame)
      /\ Top.n > 0 /\ ~ InHandler(Rest)
      /\ HandlerOnTop(stack[host]) <=> FALSE
      /\ \A op : Has(stack[host], op) <=> Top.op = op \/ Has(Rest, op)
      /\ \A op : Once(stack[host], op) <=>
                   (Top.op = op /\ ~ Has(Rest, op)) \/ (Top.op # op /\ Once(Rest, op))
  <2>1. stack[host] # <<>> /\ Top.op = "drain" /\ Top.n > 0
    BY DEF DispatchNandCallback, At
  <2> QED BY <2>1, TopFacts
<1>2. f \in Frame /\ f.op = "callback" /\ g \in Frame /\ g.op = "drain"
  BY <1>1, LeftFacts DEF Frame, Fr
<1>3. Stay(state, s, resched) /\ CountsKept
  BY <1>1, <1>2, PushTwo DEF DispatchNandCallback, CountsKept
<1> HIDE DEF f, g
<1>4. /\ r \in Seq(Frame)
      /\ \A op : Has(r, op) <=> g.op = op \/ Has(Rest, op)
      /\ \A op : Once(r, op) <=>
                   (g.op = op /\ ~ Has(Rest, op)) \/ (g.op # op /\ Once(Rest, op))
  BY <1>1, <1>2, PushFacts
<1> HIDE DEF r
<1>5. /\ s \in Seq(Frame) /\ s # <<>> /\ Head(s) = f /\ Tail(s) = r
      /\ \A op : Has(s, op) <=> f.op = op \/ Has(r, op)
      /\ \A op : Once(s, op) <=> (f.op = op /\ ~ Has(r, op)) \/ (f.op # op /\ Once(r, op))
  BY <1>2, <1>4, PushFacts
<1> HIDE DEF s
<1>6. ~ HandlerOnTop(s) /\ ~ InHandler(Tail(s))
  BY <1>1, <1>2, <1>4, <1>5 DEF HandlerOnTop, InHandler
<1>7. Alike(s)
  BY <1>1, <1>2, <1>4, <1>5, <1>6 DEF Alike
<1> QED BY <1>3, <1>7, StayAlike

\* The drain is over.
LEMMA EndDrainStacks == ASSUME StackInv, EndDrain PROVE StackInv'
<1> DEFINE f == [Top EXCEPT !.op = "reschedule", !.n = 0]
<1>1. /\ stack[host] # <<>> /\ Top.op = "drain" /\ Stay(state, Push(f, Rest), resched)
      /\ disable' = disable /\ alarmDepth' = alarmDepth /\ drainDepth' = drainDepth - 1
  BY DEF EndDrain, At, Push
<1>2. f \in Frame /\ f.op = "reschedule"
  BY <1>1, TopFacts, LeftFacts DEF Frame
<1> HIDE DEF f
<1> QED BY <1>1, <1>2, GuardSteps

\* The pump is over; a reschedule follows what it completed.
LEMMA EndPumpStacks == ASSUME StackInv, EndPump PROVE StackInv'
<1>1. /\ stack[host] # <<>> /\ Top.op = "reschedule" /\ CountsKept
      /\ Select(state, Rest, resched) \/ Stay(state, Rest, resched)
  BY DEF EndPump, At, CountsKept, RunDeferredReschedule
<1>2. Alike(Rest)
  BY <1>1, SwapAlike
<1> QED BY <1>1, <1>2, StayAlike, SelectAlike

\* Guest code returns, or makes a call: it pumps, selects or does neither.
LEMMA GuestStacks == ASSUME StackInv, GuestCode PROVE StackInv'
<1> SUFFICES ASSUME InCode PROVE StackInv'
  BY DEF GuestCode, OSSetAlarm, OSSetPeriodicAlarm, OSCancelAlarm, NandAsync, OSWakeupThread,
         OSCancelThread, Return
<1>1. Alike(After)
  BY AfterAlike
<1>2. GuestBatch \in Batches
  BY DEF Batches
<1>3. ASSUME NEW changed, SetTimer(changed) PROVE StackInv'
  <2>1. CASE changed
    <3>1. ProcessAlarmQueue(GuestBatch, After) /\ disable' = disable /\ drainDepth' = drainDepth
      BY <1>3, <2>1 DEF SetTimer
    <3>2. Fits(After, disable', alarmDepth, drainDepth')
      BY <1>1, <3>1, AlikeFits
    <3> QED BY <1>2, <3>1, <3>2, PumpFits
  <2>2. CASE ~ changed
    <3>1. Stay(state, After, resched) /\ CountsKept
      BY <1>3, <2>2 DEF SetTimer, CountsKept, guards
    <3> QED BY <1>1, <3>1, StayAlike
  <2> QED BY <2>1, <2>2
<1>4. CASE \/ \E a \in Alarms, d \in 0 .. MaxWait : OSSetAlarm(a, d)
           \/ NandAsync
           \/ Return
  <2>1. Stay(state, After, resched) /\ CountsKept
    BY <1>4 DEF OSSetAlarm, NandAsync, Return, CountsKept
  <2> QED BY <1>1, <2>1, StayAlike
<1>5. ASSUME NEW a \in Alarms, NEW d \in 0 .. MaxWait, NEW p \in 1 .. MaxWait,
             OSSetPeriodicAlarm(a, d, p)
      PROVE  StackInv'
  BY <1>3, <1>5 DEF OSSetPeriodicAlarm
<1>6. ASSUME NEW a \in Alarms, OSCancelAlarm(a) PROVE StackInv'
  BY <1>3, <1>6 DEF OSCancelAlarm
<1>7. ASSUME NEW t \in Threads, OSWakeupThread(t) PROVE StackInv'
  <2>1. Select([state EXCEPT ![t] = "ready"], After, TRUE) /\ CountsKept
    BY <1>7 DEF OSWakeupThread, CountsKept
  <2> QED BY <1>1, <2>1, SelectAlike
<1>8. ASSUME NEW t \in Threads, OSCancelThread(t) PROVE StackInv'
  <2> DEFINE st == [state EXCEPT ![t] = "ended"]
             hint == resched \/ state[t] = "running"
  <2>1. (Select(st, After, hint) \/ Stay(st, After, hint)) /\ CountsKept
    BY <1>8 DEF OSCancelThread, CountsKept
  <2> HIDE DEF st, hint
  <2> QED BY <1>1, <2>1, SelectAlike, StayAlike
<1>9. \A t \in Cancellable : t \in Threads
  BY PumpConstants
<1> QED BY <1>4, <1>5, <1>6, <1>7, <1>8, <1>9 DEF GuestCode

\* A thread sleeps or pumps, a renderer pumps with the scheduler disabled.
LEMMA ThreadStacks ==
    ASSUME StackInv, OSSleepThread \/ RFLiIsWorking \/ ProcessAlarmsDeferred
    PROVE  StackInv'
<1>1. stack[host] = <<>> /\ {GuestBatch, HostBatch} \subseteq Batches
  BY DEF OSSleepThread, RFLiIsWorking, ProcessAlarmsDeferred, InThread, Batches
<1>2. Alike(<<>>)
  BY <1>1, AfterAlike
<1>3. CASE OSSleepThread
  <2>1. Select([state EXCEPT ![host] = "asleep"], <<>>, TRUE) /\ CountsKept
    BY <1>3 DEF OSSleepThread, CountsKept
  <2> QED BY <1>2, <2>1, SelectAlike
<1>4. CASE RFLiIsWorking
  <2>1. ProcessAlarmQueue(GuestBatch, <<>>) /\ disable' = disable /\ drainDepth' = drainDepth
    BY <1>4 DEF RFLiIsWorking
  <2>2. Fits(<<>>, disable', alarmDepth, drainDepth')
    BY <1>2, <2>1, AlikeFits
  <2> QED BY <1>1, <2>1, <2>2, PumpFits
<1>5. CASE ProcessAlarmsDeferred
  <2> DEFINE f == Fr("endDeferred", 0, HostBatch, FALSE)
             s == Push(f, <<>>)
  <2>1. /\ ProcessAlarmQueue(HostBatch, s) /\ disable' = disable + 1
        /\ drainDepth' = drainDepth
    <3>1. s = <<f>>
      BY DEF Push
    <3> QED BY <1>5, <3>1 DEF ProcessAlarmsDeferred, IncrementDisable
  <2>2. f \in Frame /\ f.op = "endDeferred"
    BY <1>1, LeftFacts DEF Frame, Fr
  <2> HIDE DEF f
  <2>3. /\ s \in Seq(Frame) /\ s # <<>> /\ Head(s) = f /\ Tail(s) = <<>>
        /\ \A op : Has(s, op) <=> f.op = op \/ Has(<<>>, op)
        /\ \A op : Once(s, op) <=>
                     (f.op = op /\ ~ Has(<<>>, op)) \/ (f.op # op /\ Once(<<>>, op))
    <3>1. <<>> \in Seq(Frame)
      OBVIOUS
    <3> QED BY <2>2, <3>1, PushFacts
  <2> HIDE DEF s
  <2>4. Shape(s, 1) /\ ~ HandlerOnTop(s)
    <3>1. \A op : ~ Has(<<>>, op)
      BY EmptyFacts
    <3>2. Has(s, "endDeferred") /\ Once(s, "endDeferred") /\ ~ Has(s, "idle")
      BY <2>2, <2>3, <3>1
    <3>3. ~ HandlerOnTop(s) /\ ~ InHandler(Tail(s))
      BY <2>2, <2>3, <3>1 DEF HandlerOnTop, InHandler
    <3> QED BY <3>2, <3>3 DEF Shape, Raised
  <2>5. disable = 0
    BY <1>1, EmptyFacts DEF StackInv, Shape, Raised, HandlerOnTop
  <2>6. /\ stack \in [Threads -> Seq(Frame)] /\ host \in Threads
        /\ Guarded("alarms", alarmDepth, stack) /\ Guarded("drain", drainDepth, stack)
    BY DEF StackInv
  <2>7. \A op \in {"alarms", "drain"} :
          (Has(s, op) <=> Has(stack[host], op)) /\ (Once(s, op) <=> Once(stack[host], op))
    BY <1>1, <2>2, <2>3
  <2>8. /\ Guarded("alarms", alarmDepth, [stack EXCEPT ![host] = s])
        /\ Guarded("drain", drainDepth, [stack EXCEPT ![host] = s])
    BY <2>6, <2>7, GuardMoves
  <2>9. Fits(s, disable', alarmDepth, drainDepth')
    BY <2>1, <2>3, <2>4, <2>5, <2>8 DEF Fits
  <2> QED BY <1>1, <2>1, <2>9, PumpFits
<1> QED BY <1>3, <1>4, <1>5

\* The idle loop: a device wakes a thread, the loop pumps, or it ends.
LEMMA IdleStacks ==
    ASSUME StackInv, (\E t \in Threads : DeviceWakes(t)) \/ IdlePump \/ IdleEnds
    PROVE  StackInv'
<1>1. stack[host] # <<>> /\ Top.op = "idle" /\ Alike(stack[host]) /\ HostBatch \in Batches
  BY AfterAlike DEF DeviceWakes, IdlePump, IdleEnds, At, Batches
<1>2. ASSUME NEW t \in Threads, DeviceWakes(t) PROVE StackInv'
  <2>1. Stay([state EXCEPT ![t] = "ready"], stack[host], TRUE) /\ CountsKept
    BY <1>2 DEF DeviceWakes, CountsKept
  <2> QED BY <1>1, <2>1, StayAlike
<1>3. CASE IdlePump
  <2>1. ProcessAlarmQueue(HostBatch, stack[host]) /\ disable' = disable /\ drainDepth' = drainDepth
    BY <1>3 DEF IdlePump
  <2>2. Fits(stack[host], disable', alarmDepth, drainDepth')
    BY <1>1, <2>1, AlikeFits
  <2> QED BY <1>1, <2>1, <2>2, PumpFits
<1>4. CASE IdleEnds
  <2>1. SwitchFrom(state, Rest) /\ disable' = disable
          /\ alarmDepth' = alarmDepth /\ drainDepth' = drainDepth
    BY <1>4 DEF IdleEnds, guards
  <2>2. /\ Rest \in Seq(Frame) /\ ~ InHandler(Rest) /\ ~ HandlerOnTop(Rest)
        /\ HandlerOnTop(stack[host]) <=> FALSE
        /\ \A op : Has(stack[host], op) <=> Top.op = op \/ Has(Rest, op)
        /\ \A op : Once(stack[host], op) <=>
                     (Top.op = op /\ ~ Has(Rest, op)) \/ (Top.op # op /\ Once(Rest, op))
    BY <1>1, TopFacts
  <2>3. ~ Has(stack[host], "endDeferred")
    BY <1>1, <2>2 DEF StackInv, Shape
  <2>4. disable = 0
    BY <2>2, <2>3 DEF StackInv, Shape, Raised
  <2>5. Shape(Rest, 0)
    BY <1>1, <2>2, <2>3, ShapeClear DEF Clear
  <2>6. /\ stack \in [Threads -> Seq(Frame)] /\ host \in Threads
        /\ Guarded("alarms", alarmDepth, stack) /\ Guarded("drain", drainDepth, stack)
    BY DEF StackInv
  <2>7. \A op \in {"alarms", "drain"} :
          (Has(Rest, op) <=> Has(stack[host], op)) /\ (Once(Rest, op) <=> Once(stack[host], op))
    BY <1>1, <2>2
  <2>8. /\ Guarded("alarms", alarmDepth, [stack EXCEPT ![host] = Rest])
        /\ Guarded("drain", drainDepth, [stack EXCEPT ![host] = Rest])
    BY <2>6, <2>7, GuardMoves
  <2>9. Fits(Rest, disable', alarmDepth', drainDepth')
    BY <2>1, <2>2, <2>4, <2>5, <2>8 DEF Fits
  <2> QED BY <2>1, <2>4, <2>9, SwitchFits
<1> QED BY <1>2, <1>3, <1>4

\* No fiber has frames at first.
LEMMA StackInit == ASSUME Init PROVE StackInv
<1>1. stack = [t \in Threads |-> <<>>] /\ disable = 0 /\ alarmDepth = 0 /\ drainDepth = 0
        /\ host \in Threads
  BY DEF Init, MostUrgent
<1>2. stack \in [Threads -> Seq(Frame)] /\ \A t \in Threads : stack[t] = <<>>
  BY <1>1
<1>3. \A t \in Threads : Clear(stack[t])
  BY <1>2, EmptyFacts DEF Clear, InHandler
<1>4. Shape(stack[host], 0)
  BY <1>1, <1>2, <1>3, ShapeClear
<1>5. ~ HandlerOnTop(stack[host])
  BY <1>1, <1>2 DEF HandlerOnTop
<1> QED BY <1>1, <1>2, <1>3, <1>4, <1>5, EmptyFacts DEF StackInv, Guarded

\* Every step keeps the guards and the count with the frames.
LEMMA StackStep == ASSUME StackInv, [Next]_vars PROVE StackInv'
<1>1. CASE DispatchAlarm \/ EndHandler \/ EndDispatch \/ EndDeferred
  BY <1>1, DispatchStacks, EndHandlerStacks, EndDispatchStacks, EndDeferredStacks
<1>2. CASE Completions \/ DispatchNandCallback \/ EndDrain \/ EndPump
  BY <1>2, CompletionsStacks, CallbackStacks, EndDrainStacks, EndPumpStacks
<1>3. CASE GuestCode
  BY <1>3, GuestStacks
<1>4. CASE OSSleepThread \/ RFLiIsWorking \/ ProcessAlarmsDeferred
  BY <1>4, ThreadStacks
<1>5. CASE (\E t \in Threads : DeviceWakes(t)) \/ IdlePump \/ IdleEnds
  BY <1>5, IdleStacks
<1>6. CASE Tick \/ UNCHANGED vars
  <2>1. UNCHANGED <<stack, host, disable, alarmDepth, drainDepth>>
    BY <1>6 DEF Tick, vars, threadVars, guards
  <2> QED BY <2>1 DEF StackInv
<1> QED BY <1>1, <1>2, <1>3, <1>4, <1>5, <1>6 DEF Next, HostCode

-----------------------------------------------------------------------------
(* What the guards and the count promise. *)

\* As many frames of a kind as its guard says.
LEMMA GuardCount ==
    ASSUME StackInv, NEW op, NEW n, Guarded(op, n, stack)
    PROVE  Cardinality(Places(LAMBDA f : f.op = op)) = n /\ n \in {0, 1}
<1> DEFINE P == Places(LAMBDA f : f.op = op)
<1>1. \A x : x \in P <=> \E t \in Threads : \E i \in 1 .. Len(stack[t]) :
                            x = <<t, i>> /\ stack[t][i].op = op
  BY DEF Places
<1> HIDE DEF P
<1>2. CASE n = 0 /\ \A t \in Threads : ~ Has(stack[t], op)
  <2>1. P = {}
    BY <1>1, <1>2 DEF Has
  <2> QED BY <1>2, <2>1, FS_EmptySet DEF P
<1>3. CASE n = 1 /\ \E t \in Threads : Once(stack[t], op) /\ \A u \in Threads \ {t} : ~ Has(stack[u], op)
  <2>1. PICK t \in Threads : Once(stack[t], op) /\ \A u \in Threads \ {t} : ~ Has(stack[u], op)
    BY <1>3
  <2>2. PICK i \in 1 .. Len(stack[t]) :
            stack[t][i].op = op /\ \A j \in 1 .. Len(stack[t]) : stack[t][j].op = op => j = i
    BY <2>1 DEF Once
  <2>3. <<t, i>> \in P
    BY <1>1, <2>2
  <2>4. ASSUME NEW x \in P PROVE x = <<t, i>>
    <3>1. PICK u \in Threads : \E j \in 1 .. Len(stack[u]) : x = <<u, j>> /\ stack[u][j].op = op
      BY <1>1
    <3>2. u = t
      BY <2>1, <3>1 DEF Has
    <3> QED BY <2>2, <3>1, <3>2
  <2>5. P = {<<t, i>>}
    BY <2>3, <2>4
  <2> QED BY <1>3, <2>5, FS_Singleton DEF P
<1> QED BY <1>2, <1>3 DEF Guarded

\* The frames that raise the count: the handler on top, the pump of a renderer.
LEMMA DisableCount ==
    ASSUME StackInv
    PROVE  /\ disable = Cardinality(Places(Disables)) /\ disable \in 0 .. 2
           /\ \A x \in Places(Disables) : x[1] = host
<1> DEFINE P == Places(Disables)
           s == stack[host]
<1>1. \A x : x \in P <=> \E t \in Threads : \E i \in 1 .. Len(stack[t]) :
                            /\ x = <<t, i>>
                            /\ stack[t][i].op \in {"handler", "endHandler", "endDeferred"}
  BY DEF Places, Disables
<1>2. s \in Seq(Frame) /\ host \in Threads
  BY DEF StackInv
<1>3. ASSUME NEW x \in P PROVE \E i \in 1 .. Len(s) : x = <<host, i>>
  <2>1. PICK t \in Threads : \E i \in 1 .. Len(stack[t]) :
                            /\ x = <<t, i>>
                            /\ stack[t][i].op \in {"handler", "endHandler", "endDeferred"}
    BY <1>1
  <2>2. t = host
    BY <2>1 DEF StackInv, Clear, InHandler, Has
  <2> QED BY <2>1, <2>2
<1>4. ASSUME NEW i \in 1 .. Len(s)
      PROVE  s[i].op \in {"handler", "endHandler"} <=> i = 1 /\ HandlerOnTop(s)
  <2>1. s # <<>> /\ Head(s) = s[1] /\ Tail(s) \in Seq(Frame) /\ Len(Tail(s)) = Len(s) - 1
          /\ \A j \in 1 .. Len(s) - 1 : Tail(s)[j] = s[j + 1]
    BY <1>2
  <2>2. CASE i = 1
    BY <2>1, <2>2 DEF HandlerOnTop
  <2>3. CASE i # 1
    <3>1. i - 1 \in 1 .. Len(s) - 1 /\ (i - 1) + 1 = i
      BY <1>2, <2>3
    <3>2. Tail(s)[i - 1] = s[i] /\ i - 1 \in 1 .. Len(Tail(s))
      BY <2>1, <3>1
    <3>3. ~ InHandler(Tail(s))
      BY <2>1 DEF StackInv, Shape
    <3> QED BY <2>3, <3>2, <3>3 DEF InHandler, Has
  <2> QED BY <2>2, <2>3
<1>5. ASSUME Has(s, "endDeferred")
      PROVE  \E e \in 1 .. Len(s) : \A i \in 1 .. Len(s) : s[i].op = "endDeferred" <=> i = e
  <2>1. Once(s, "endDeferred")
    BY <1>5 DEF StackInv, Shape
  <2> QED BY <2>1 DEF Once
<1>6. disable = Raised(s)
  BY DEF StackInv, Shape
<1>7. \A i \in 1 .. Len(s) :
        <<host, i>> \in P <=> (i = 1 /\ HandlerOnTop(s)) \/ s[i].op = "endDeferred"
  <2> SUFFICES ASSUME NEW i \in 1 .. Len(s)
               PROVE  <<host, i>> \in P <=> (i = 1 /\ HandlerOnTop(s)) \/ s[i].op = "endDeferred"
    OBVIOUS
  <2>1. <<host, i>> \in P <=> s[i].op \in {"handler", "endHandler", "endDeferred"}
    BY <1>1, <1>2
  <2> QED BY <1>4, <2>1
<1>8. HandlerOnTop(s) => 1 \in 1 .. Len(s) /\ s[1].op # "endDeferred"
  BY <1>2 DEF HandlerOnTop
<1> HIDE DEF P, s
<1>9. Cardinality(P) = Raised(s)
  <2>1. CASE ~ Has(s, "endDeferred")
    <3>0. \A i \in 1 .. Len(s) : s[i].op # "endDeferred"
      BY <2>1 DEF Has
    <3>1. CASE ~ HandlerOnTop(s)
      <4>1. P = {}
        BY <1>3, <1>7, <3>0, <3>1
      <4> QED BY <2>1, <3>1, <4>1, FS_EmptySet DEF Raised
    <3>2. CASE HandlerOnTop(s)
      <4>1. P = {<<host, 1>>}
        BY <1>3, <1>7, <1>8, <3>0, <3>2
      <4>2. Cardinality(P) = 1
        BY <4>1, FS_Singleton, Zenon
      <4> QED BY <2>1, <3>2, <4>2 DEF Raised
    <3> QED BY <3>1, <3>2
  <2>2. CASE Has(s, "endDeferred")
    <3>0. PICK e \in 1 .. Len(s) : \A i \in 1 .. Len(s) : s[i].op = "endDeferred" <=> i = e
      BY <1>5, <2>2
    <3>1. CASE ~ HandlerOnTop(s)
      <4>1. P = {<<host, e>>}
        BY <1>3, <1>7, <3>0, <3>1
      <4>2. Cardinality(P) = 1
        BY <4>1, FS_Singleton, Zenon
      <4> QED BY <2>2, <3>1, <4>2 DEF Raised
    <3>2. CASE HandlerOnTop(s)
      <4>1. e # 1
        BY <1>8, <3>0, <3>2
      <4>2. P = {<<host, e>>} \cup {<<host, 1>>}
        BY <1>3, <1>7, <1>8, <3>0, <3>2
      <4>3. <<host, 1>> \notin {<<host, e>>}
        BY <4>1
      <4>4. Cardinality({<<host, e>>}) = 1 /\ IsFiniteSet({<<host, e>>})
        BY FS_Singleton
      <4>5. Cardinality(P) = Cardinality({<<host, e>>}) + 1
        BY <4>2, <4>3, <4>4, FS_AddElement, Zenon
      <4> QED BY <2>2, <3>2, <4>4, <4>5 DEF Raised
    <3> QED BY <3>1, <3>2
  <2> QED BY <2>1, <2>2
<1>10. disable \in 0 .. 2
  BY <1>6 DEF Raised
<1>11. \A x \in P : x[1] = host
  BY <1>3
<1> QED BY <1>6, <1>9, <1>10, <1>11 DEF P

\* No dispatch and no drain is entered from inside another, on whatever fiber
\* the other one was left: ProcessAlarmQueue and NandProcessPendingCallbacks
\* raise a guard that all fibers share.
THEOREM DispatchesAreFlat == Spec => []OneDispatch
<1>1. StackInv => OneDispatch
  <2> SUFFICES ASSUME StackInv PROVE OneDispatch
    OBVIOUS
  <2>1. Guarded("alarms", alarmDepth, stack) /\ Guarded("drain", drainDepth, stack)
    BY DEF StackInv
  <2>2. Cardinality(Places(LAMBDA f : f.op = "alarms")) = alarmDepth /\ alarmDepth \in {0, 1}
    BY <2>1, GuardCount
  <2>3. Cardinality(Places(LAMBDA f : f.op = "drain")) = drainDepth /\ drainDepth \in {0, 1}
    BY <2>1, GuardCount
  <2> QED BY <2>2, <2>3 DEF OneDispatch
<1> QED BY <1>1, StackInit, StackStep, PTL DEF Spec

\* OSDisableScheduler's count is what the frames of the executing fiber have
\* raised it by, and no other fiber is left with a raised count.
THEOREM CountMatchesFrames == Spec => []DisableBalanced
<1>1. StackInv => DisableBalanced
  BY DisableCount DEF DisableBalanced
<1> QED BY <1>1, StackInit, StackStep, PTL DEF Spec

-----------------------------------------------------------------------------
(* The types. *)

States == [Threads -> {"ready", "running", "asleep", "ended"}]

Typed ==
    /\ wait \in [Alarms -> 0 .. MaxWait]
    /\ period \in [Alarms -> 0 .. MaxWait]
    /\ callbacks \in 0 .. MaxCallbacks
    /\ state \in States
    /\ resched \in BOOLEAN

\* The alarms stay in their bounds and the callbacks in theirs.
TimesKept == wait' \in [Alarms -> 0 .. MaxWait] /\ period' \in [Alarms -> 0 .. MaxWait]
ThreadsKept == state' \in States /\ resched' \in BOOLEAN

\* The thread states after a step that keeps the fiber, or selects.
LEMMA StayTyped ==
    ASSUME NEW st \in States, NEW hint \in BOOLEAN, NEW s, Stay(st, s, hint)
    PROVE  ThreadsKept
BY Zenon DEF Stay, ThreadsKept

\* And after one that selects.
LEMMA SelectTyped ==
    ASSUME NEW st \in States, NEW hint \in BOOLEAN, NEW s,
           host \in Threads, Select(st, s, hint)
    PROVE  ThreadsKept
<1> DEFINE st2 == IF st[host] = "running" THEN [st EXCEPT ![host] = "ready"] ELSE st
<1>1. st2 \in States
  BY DEF States
<1>2. \/ Stay(st, s, hint)
      \/ SwitchFrom(st2, s)
      \/ Stay(st2, <<Fr("idle", 0, HostBatch, FALSE)>> \o s, hint)
  BY Zenon DEF Select
<1> HIDE DEF st2
<1>3. CASE SwitchFrom(st2, s)
  <2>1. PICK t \in Threads : state' = [st2 EXCEPT ![t] = "running"]
    BY <1>3 DEF SwitchFrom, MostUrgent, Ready
  <2>2. state' \in States
    BY <1>1, <2>1 DEF States
  <2>3. resched' \in BOOLEAN
    BY <1>3, Zenon DEF SwitchFrom
  <2> QED BY <2>2, <2>3, Zenon DEF ThreadsKept
<1> QED BY <1>1, <1>2, <1>3, StayTyped, Zenon

\* An alarm is armed within the bounds.
LEMMA ArmTyped ==
    ASSUME Typed, NEW q, NEW a \in Alarms, NEW d \in 0 .. MaxWait, NEW p \in 0 .. MaxWait,
           Arm(q, a, d, p)
    PROVE  TimesKept
BY DEF Typed, Arm, TimesKept

\* A list that holds no alarm twice is no longer than there are alarms.
LEMMA QueueShort == ASSUME AlarmInv PROVE Len(queue) \in Nat /\ Len(queue) <= Cardinality(Alarms)
<1> DEFINE n == Len(queue)
           F == [i \in 1 .. n |-> queue[i]]
<1>1. n \in Nat /\ \A i \in 1 .. n : queue[i] \in Alarms
  BY DEF AlarmInv
<1>2. F \in [1 .. n -> Alarms]
  BY <1>1
<1>3. ASSUME NEW i \in 1 .. n, NEW j \in 1 .. n, F[i] = F[j] PROVE i = j
  <2>1. i < j \/ i = j \/ j < i
    BY <1>1
  <2>2. queue[i] = queue[j]
    BY <1>3
  <2> QED BY <2>1, <2>2 DEF AlarmInv, QueueSorted
<1> HIDE DEF F, n
<1>4. IsFiniteSet(1 .. n) /\ Cardinality(1 .. n) = n
  <2>1. n \in Int /\ 1 \in Int /\ n = n - 1 + 1 /\ (1 > n => n = 0)
    BY <1>1
  <2> QED BY <2>1, FS_Interval
<1>5. F \in Injection(1 .. n, Alarms)
  BY <1>2, <1>3 DEF Injection, IsInjective
<1>6. Cardinality(1 .. n) <= Cardinality(Alarms)
  BY <1>5, FS_Injection, PumpConstants
<1> QED BY <1>1, <1>4, <1>6 DEF n

\* What an action of the alarms or the host does to the rest of the state.
LEMMA HostTyped ==
    ASSUME StackInv, AlarmInv, Typed,
           \/ DispatchAlarm \/ EndHandler \/ EndDispatch
           \/ Completions \/ DispatchNandCallback \/ EndDrain \/ EndPump
           \/ EndDeferred \/ IdleEnds
    PROVE  Typed'
<1> USE DEF Typed
<1>1. host \in Threads /\ MaxCallbacks \in Nat /\ MaxWait \in Nat
  BY PumpConstants DEF StackInv
<1>2. ASSUME TimesKept, ThreadsKept, callbacks' \in 0 .. MaxCallbacks PROVE Typed'
  BY <1>2, Zenon DEF TimesKept, ThreadsKept
<1>3. UNCHANGED alarmVars => TimesKept
  BY DEF alarmVars, TimesKept
<1>4. CASE DispatchAlarm
  <2>1. PICK a \in Alarms : a = Head(queue)
    BY <1>4 DEF DispatchAlarm, HeadIsDue, AlarmInv
  <2>2. TimesKept
    <3>1. \/ UNCHANGED <<wait, period>>
          \/ \E d \in 1 .. period[a] : Arm(Tail(queue), a, d, period[a])
      BY <1>4, <2>1 DEF DispatchAlarm
    <3>2. CASE UNCHANGED <<wait, period>>
      BY <3>2 DEF TimesKept
    <3>3. CASE \E d \in 1 .. period[a] : Arm(Tail(queue), a, d, period[a])
      <4>1. PICK d \in 1 .. period[a] : Arm(Tail(queue), a, d, period[a])
        BY <3>3
      <4>2. d \in 0 .. MaxWait /\ period[a] \in 0 .. MaxWait
        BY <1>1, <2>1
      <4> QED BY <2>1, <4>1, <4>2, ArmTyped
    <3> QED BY <3>1, <3>2, <3>3
  <2>3. ThreadsKept /\ callbacks' = callbacks
    BY <1>4, StayTyped, Zenon DEF DispatchAlarm
  <2> QED BY <1>2, <2>2, <2>3
<1>5. CASE EndHandler \/ EndPump
  <2>1. PICK s : Select(state, s, resched) \/ Stay(state, s, resched)
    BY <1>5, Zenon DEF EndHandler, EndPump, RunDeferredReschedule
  <2>2. ThreadsKept
    BY <1>1, <2>1, StayTyped, SelectTyped, Zenon
  <2>3. UNCHANGED alarmVars /\ callbacks' = callbacks
    BY <1>5 DEF EndHandler, EndPump
  <2> QED BY <1>2, <1>3, <2>2, <2>3
<1>6. CASE EndDispatch \/ EndDrain \/ EndDeferred
  <2>1. ThreadsKept
    BY <1>6, StayTyped, Zenon DEF EndDispatch, EndDrain, EndDeferred
  <2>2. UNCHANGED alarmVars /\ callbacks' = callbacks
    BY <1>6 DEF EndDispatch, EndDrain, EndDeferred
  <2> QED BY <1>2, <1>3, <2>1, <2>2
<1>7. CASE DispatchNandCallback
  <2>1. ThreadsKept
    BY <1>7, StayTyped, Zenon DEF DispatchNandCallback
  <2>2. UNCHANGED alarmVars /\ callbacks' = callbacks - 1 /\ callbacks > 0
    BY <1>7 DEF DispatchNandCallback
  <2>3. callbacks' \in 0 .. MaxCallbacks
    BY <1>1, <2>2
  <2> QED BY <1>2, <1>3, <2>1, <2>2, <2>3
<1>8. CASE Completions
  <2>1. PICK woken \in SUBSET Threads : \E new \in {0, 1} : \E s :
            /\ callbacks + new <= MaxCallbacks
            /\ callbacks' = callbacks + new
            /\ Stay([t \in Threads |-> IF t \in woken THEN "ready" ELSE state[t]], s,
                    resched \/ woken # {})
    <3>1. PICK woken \in SUBSET {t \in Threads : state[t] = "asleep"} : \E new \in {0, 1} : \E s :
            /\ callbacks + new <= MaxCallbacks
            /\ callbacks' = callbacks + new
            /\ Stay([t \in Threads |-> IF t \in woken THEN "ready" ELSE state[t]], s,
                    resched \/ woken # {})
      BY <1>8, Zenon DEF Completions
    <3>2. woken \in SUBSET Threads
      OBVIOUS
    <3> QED BY <3>1, <3>2, Zenon
  <2>2. PICK new \in {0, 1} : \E s :
            /\ callbacks + new <= MaxCallbacks
            /\ callbacks' = callbacks + new
            /\ Stay([t \in Threads |-> IF t \in woken THEN "ready" ELSE state[t]], s,
                    resched \/ woken # {})
    BY <2>1
  <2>3. callbacks' \in 0 .. MaxCallbacks
    <3>1. callbacks + new <= MaxCallbacks /\ callbacks' = callbacks + new
      BY <2>2, Zenon
    <3> QED BY <1>1, <3>1
  <2>4. ThreadsKept
    <3> DEFINE st == [t \in Threads |-> IF t \in woken THEN "ready" ELSE state[t]]
               hint == resched \/ woken # {}
    <3>1. st \in States
      BY DEF States
    <3>2. hint \in BOOLEAN
      BY Zenon
    <3>3. \E s : Stay(st, s, hint)
      BY <2>2, Zenon
    <3> HIDE DEF st, hint
    <3> QED BY <3>1, <3>2, <3>3, StayTyped, Zenon
  <2>5. UNCHANGED alarmVars
    BY <1>8, Zenon DEF Completions
  <2> QED BY <1>2, <1>3, <2>3, <2>4, <2>5
<1>9. CASE IdleEnds
  <2>1. UNCHANGED alarmVars /\ callbacks' = callbacks
    BY <1>9 DEF IdleEnds
  <2>2. PICK t \in Threads : state' = [state EXCEPT ![t] = "running"]
    BY <1>9 DEF IdleEnds, SwitchFrom, MostUrgent, Ready
  <2>3. state' \in States
    BY <2>2 DEF States
  <2>4. resched' \in BOOLEAN
    BY <1>9, Zenon DEF IdleEnds, SwitchFrom
  <2>5. ThreadsKept
    BY <2>3, <2>4, Zenon DEF ThreadsKept
  <2> QED BY <1>2, <1>3, <2>1, <2>5
<1> QED BY <1>4, <1>5, <1>6, <1>7, <1>8, <1>9

\* What guest code and the idle loop do to the rest of the state.
LEMMA GuestTyped == ASSUME StackInv, AlarmInv, Typed, GuestCode PROVE Typed'
<1> USE DEF Typed
<1>1. host \in Threads /\ MaxCallbacks \in Nat \ {0} /\ MaxWait \in Nat \ {0}
  BY PumpConstants DEF StackInv
<1>2. ASSUME TimesKept, ThreadsKept, callbacks' \in 0 .. MaxCallbacks PROVE Typed'
  BY <1>2, Zenon DEF TimesKept, ThreadsKept
<1>3. UNCHANGED alarmVars => TimesKept
  BY DEF alarmVars, TimesKept
<1>4. ASSUME NEW changed, SetTimer(changed) PROVE ThreadsKept /\ callbacks' = callbacks
  <2>1. \E s : Stay(state, s, resched)
    BY <1>4, Zenon DEF SetTimer, ProcessAlarmQueue
  <2>2. ThreadsKept
    BY <2>1, StayTyped, Zenon
  <2> QED BY <1>4, <2>2 DEF SetTimer
<1>5. ASSUME NEW a \in Alarms, NEW d \in 0 .. MaxWait, OSSetAlarm(a, d) PROVE Typed'
  <2>1. Arm(queue, a, d, 0) /\ callbacks' = callbacks /\ 0 \in 0 .. MaxWait
    BY <1>1, <1>5 DEF OSSetAlarm
  <2>2. ThreadsKept
    BY <1>5, StayTyped, Zenon DEF OSSetAlarm
  <2>3. TimesKept
    BY <2>1, ArmTyped
  <2> QED BY <1>2, <2>1, <2>2, <2>3
<1>6. ASSUME NEW a \in Alarms, NEW d \in 0 .. MaxWait, NEW p \in 1 .. MaxWait,
             OSSetPeriodicAlarm(a, d, p)
      PROVE  Typed'
  <2>1. Arm(queue, a, d, p) /\ p \in 0 .. MaxWait
    BY <1>1, <1>6 DEF OSSetPeriodicAlarm
  <2>2. ThreadsKept /\ callbacks' = callbacks
    BY <1>4, <1>6 DEF OSSetPeriodicAlarm
  <2>3. TimesKept
    BY <2>1, ArmTyped
  <2> QED BY <1>2, <2>2, <2>3
<1>7. ASSUME NEW a \in Alarms, OSCancelAlarm(a) PROVE Typed'
  <2>1. wait' = [wait EXCEPT ![a] = 0] /\ period' = [period EXCEPT ![a] = 0]
    BY <1>7 DEF OSCancelAlarm
  <2>2. TimesKept
    BY <1>1, <2>1 DEF TimesKept
  <2>3. ThreadsKept /\ callbacks' = callbacks
    BY <1>4, <1>7 DEF OSCancelAlarm
  <2> QED BY <1>2, <2>2, <2>3
<1>8. CASE NandAsync
  <2>1. UNCHANGED alarmVars /\ callbacks' = callbacks + 1 /\ callbacks < MaxCallbacks
    BY <1>8 DEF NandAsync
  <2>2. callbacks' \in 0 .. MaxCallbacks
    BY <1>1, <2>1
  <2>3. ThreadsKept
    BY <1>8, StayTyped, Zenon DEF NandAsync
  <2> QED BY <1>2, <1>3, <2>1, <2>2, <2>3
<1>9. CASE Return
  <2>1. UNCHANGED alarmVars /\ callbacks' = callbacks
    BY <1>9 DEF Return
  <2>2. ThreadsKept
    BY <1>9, StayTyped, Zenon DEF Return
  <2> QED BY <1>2, <1>3, <2>1, <2>2
<1>10. ASSUME NEW t \in Threads, OSWakeupThread(t) PROVE Typed'
  <2>1. UNCHANGED alarmVars /\ callbacks' = callbacks
    BY <1>10 DEF OSWakeupThread
  <2>2. [state EXCEPT ![t] = "ready"] \in States
    BY DEF States
  <2>3. ThreadsKept
    BY <1>1, <1>10, <2>2, SelectTyped, Zenon DEF OSWakeupThread
  <2> QED BY <1>2, <1>3, <2>1, <2>3
<1>11. ASSUME NEW t \in Threads, OSCancelThread(t) PROVE Typed'
  <2> DEFINE st == [state EXCEPT ![t] = "ended"]
             hint == resched \/ state[t] = "running"
  <2>1. UNCHANGED alarmVars /\ callbacks' = callbacks
    BY <1>11 DEF OSCancelThread
  <2>2. Select(st, After, hint) \/ Stay(st, After, hint)
    BY <1>11, Zenon DEF OSCancelThread
  <2>3. st \in States /\ hint \in BOOLEAN
    BY DEF States
  <2> HIDE DEF st, hint
  <2>4. ThreadsKept
    BY <1>1, <2>2, <2>3, StayTyped, SelectTyped, Zenon
  <2> QED BY <1>2, <1>3, <2>1, <2>4
<1>12. \A t \in Cancellable : t \in Threads
  BY PumpConstants
<1> QED BY <1>5, <1>6, <1>7, <1>8, <1>9, <1>10, <1>11, <1>12 DEF GuestCode

\* What threads, the idle loop and time do to the rest of the state.
LEMMA OtherTyped ==
    ASSUME StackInv, Typed,
           \/ OSSleepThread \/ RFLiIsWorking \/ ProcessAlarmsDeferred \/ IdlePump
           \/ \E t \in Threads : DeviceWakes(t)
           \/ Tick
    PROVE  Typed'
<1> USE DEF Typed
<1>1. host \in Threads /\ MaxWait \in Nat
  BY PumpConstants DEF StackInv
<1>2. ASSUME UNCHANGED <<wait, period, callbacks>>, ThreadsKept PROVE Typed'
  BY <1>2, Zenon DEF ThreadsKept
<1>3. CASE OSSleepThread
  <2>1. UNCHANGED <<wait, period, callbacks>>
    BY <1>3 DEF OSSleepThread, alarmVars
  <2>2. [state EXCEPT ![host] = "asleep"] \in States
    BY <1>1 DEF States
  <2>3. ThreadsKept
    <3>1. TRUE \in BOOLEAN
      OBVIOUS
    <3> QED BY <1>1, <1>3, <2>2, <3>1, SelectTyped, Zenon DEF OSSleepThread
  <2> QED BY <1>2, <2>1, <2>3
<1>4. CASE RFLiIsWorking \/ ProcessAlarmsDeferred \/ IdlePump
  <2>1. UNCHANGED <<wait, period, callbacks>>
    BY <1>4 DEF RFLiIsWorking, ProcessAlarmsDeferred, IdlePump, alarmVars
  <2>2. \E s : Stay(state, s, resched)
    BY <1>4, Zenon DEF RFLiIsWorking, ProcessAlarmsDeferred, IdlePump, ProcessAlarmQueue
  <2>3. ThreadsKept
    BY <2>2, StayTyped, Zenon
  <2> QED BY <1>2, <2>1, <2>3
<1>5. ASSUME NEW t \in Threads, DeviceWakes(t) PROVE Typed'
  <2>1. UNCHANGED <<wait, period, callbacks>>
    BY <1>5 DEF DeviceWakes, alarmVars
  <2>2. [state EXCEPT ![t] = "ready"] \in States /\ TRUE \in BOOLEAN
    BY DEF States
  <2>3. ThreadsKept
    BY <1>5, <2>2, StayTyped, Zenon DEF DeviceWakes
  <2> QED BY <1>2, <2>1, <2>3
<1>6. CASE Tick
  <2>1. /\ wait' = [a \in Alarms |-> IF wait[a] = 0 THEN 0 ELSE wait[a] - 1]
        /\ UNCHANGED <<period, callbacks, state, resched>>
    BY <1>6 DEF Tick, threadVars
  <2>2. wait' \in [Alarms -> 0 .. MaxWait]
    BY <1>1, <2>1
  <2> QED BY <2>1, <2>2, Zenon
<1> QED BY <1>3, <1>4, <1>5, <1>6

\* The pump keeps its types: the list holds no more alarms than there are, the
\* frames of every fiber are frames, and the count is at most that of a handler
\* under the pump of a renderer.
THEOREM PumpTypeCorrect == Spec => []TypeOK
<1> DEFINE Inv == StackInv /\ AlarmInv /\ Typed
<1>1. Init => Inv
  <2> SUFFICES ASSUME Init PROVE Typed
    BY StackInit, AlarmInit
  <2>1. 0 \in 0 .. MaxWait /\ 0 \in 0 .. MaxCallbacks
    BY PumpConstants
  <2>2. state \in States
    BY DEF Init, States
  <2>3. resched \in BOOLEAN
    BY Zenon DEF Init
  <2> QED BY <2>1, <2>2, <2>3 DEF Init, Typed
<1>2. Inv /\ [Next]_vars => Inv'
  <2> SUFFICES ASSUME Inv, [Next]_vars PROVE Typed'
    BY StackStep, AlarmStep
  <2>1. CASE UNCHANGED vars
    BY <2>1, Zenon DEF vars, alarmVars, threadVars, Typed
  <2>2. CASE Next
    <3>1. \/ \/ DispatchAlarm \/ EndHandler \/ EndDispatch
             \/ Completions \/ DispatchNandCallback \/ EndDrain \/ EndPump
             \/ EndDeferred \/ IdleEnds
          \/ GuestCode
          \/ \/ OSSleepThread \/ RFLiIsWorking \/ ProcessAlarmsDeferred \/ IdlePump
             \/ \E t \in Threads : DeviceWakes(t)
             \/ Tick
      BY <2>2, Zenon DEF Next, HostCode
    <3> QED BY <3>1, HostTyped, GuestTyped, OtherTyped, Zenon
  <2> QED BY <2>1, <2>2
<1>3. Inv => TypeOK
  <2> SUFFICES ASSUME Inv PROVE TypeOK
    OBVIOUS
  <2>1. Len(queue) <= Cardinality(Alarms) /\ queue \in Seq(Alarms)
    BY QueueShort DEF AlarmInv
  <2>2. alarmDepth \in Nat /\ drainDepth \in Nat /\ disable \in 0 .. 2
    <3>1. disable \in 0 .. 2
      BY DisableCount
    <3>2. alarmDepth \in {0, 1} /\ drainDepth \in {0, 1}
      BY DEF StackInv, Guarded
    <3> QED BY <3>1, <3>2
  <2>3. stack \in [Threads -> Seq(Frame)] /\ host \in Threads
    BY DEF StackInv
  <2> QED BY <2>1, <2>2, <2>3, Zenon DEF TypeOK, Typed, States
<1> QED BY <1>1, <1>2, <1>3, PTL DEF Spec


=============================================================================

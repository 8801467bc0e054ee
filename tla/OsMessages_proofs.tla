-------------------------- MODULE OsMessages_proofs --------------------------
(***************************************************************************)
(* Proofs about OsMessages for every array length, capacity, message and   *)
(* set of threads: the ring stays in bounds, no wakeup is lost, and the    *)
(* message queue implements the bounded deque of GuestFifo.                *)
(***************************************************************************)
EXTENDS OsMessages, FiniteSetTheorems, SequenceTheorems, TLAPS

-----------------------------------------------------------------------------
(* Arithmetic of the ring. *)

\* An index below the size is kept.
LEMMA ModSmall ==
    ASSUME NEW n \in Nat \ {0}, NEW i \in Nat, i < n
    PROVE  i % n = i
BY SMT

\* An index past the end wraps around once.
LEMMA ModWrap ==
    ASSUME NEW n \in Nat \ {0}, NEW i \in Nat, n <= i, i < n + n
    PROVE  i % n = i - n
BY SMT

SlotIn(n, i) == IF i < n THEN i ELSE i - n

\* The slot of the i-th message, with the wrap of os_message.cpp written out.
LEMMA SlotIsMod ==
    ASSUME NEW n \in Nat \ {0}, NEW i \in Nat, i < n + n
    PROVE  i % n = SlotIn(n, i)
<1>1. CASE i < n
  BY <1>1, ModSmall DEF SlotIn
<1>2. CASE n <= i
  <2>1. i % n = i - n
    BY <1>2, ModWrap
  <2> QED BY <1>2, <2>1 DEF SlotIn
<1> QED BY <1>1, <1>2

-----------------------------------------------------------------------------
(* Typing. *)

\* The parts of the state that the ring's typing rests on.
Ring == TypeOK /\ RingInBounds

\* The calls a thread may make have the fields their operation needs.
LEMMA CallsTyped ==
    ASSUME NEW c \in Calls
    PROVE  /\ c.op \in {"send", "jam", "receive"}
           /\ c.op # "receive" => c.msg \in Messages
           /\ c.block \in BOOLEAN
BY DEF Calls

\* OSWakeupThread empties a queue of guest threads.
LEMMA WakesAll ==
    ASSUME NEW q, q \subseteq Threads
    PROVE  LeftAsleep(q) = {{}}
<1>1. Cardinality(q) <= Cardinality(Threads) /\ Cardinality(q) \in Nat
            /\ Cardinality(Threads) \in Nat
  BY WakeReachesAll, FS_Subset, FS_CardinalityType
<1>2. Cardinality(q) <= MaxWake
  BY <1>1, WakeReachesAll
<1>3. ~(Cardinality(q) > MaxWake)
  BY <1>1, <1>2, WakeReachesAll
<1> QED BY <1>2, <1>3 DEF LeftAsleep

\* A call that is applied keeps the ring in bounds and typed.
LEMMA ApplyTyped ==
    ASSUME Ring, NEW c \in Calls, Ready(c), Apply(c)
    PROVE  /\ array' \in [Slots -> Messages \cup {NoMessage}]
           /\ count' = count
           /\ first' \in Nat
           /\ used' \in Nat
           /\ RingInBounds'
<1> USE DEF Ring, TypeOK, RingInBounds, buffer
<1>0. count \in Nat /\ count <= NumSlots /\ NumSlots \in Nat
  BY MessageConstants
<1>1. CASE c.op = "send"
  <2>1. Enqueue(c.msg) /\ ~IsFull /\ c.msg \in Messages
    BY <1>1, CallsTyped DEF Ready, Apply
  <2>2. CASE count = 0
    BY <2>1, <2>2 DEF Enqueue
  <2>3. CASE count # 0
    <3>1. used < count /\ first < count
      BY <1>0, <2>1, <2>3 DEF IsFull
    <3>2. (first + used) % count = SlotIn(count, first + used)
      BY <1>0, <2>3, <3>1, SlotIsMod
    <3>3. (first + used) % count \in Slots
      BY <1>0, <3>1, <3>2 DEF SlotIn, Slots
    <3> QED BY <1>0, <2>1, <2>3, <3>1, <3>3 DEF Enqueue
  <2> QED BY <2>2, <2>3
<1>2. CASE c.op = "jam"
  <2>1. Jam(c.msg) /\ ~IsFull /\ c.msg \in Messages
    BY <1>2, CallsTyped DEF Ready, Apply
  <2>2. CASE count = 0
    BY <2>1, <2>2 DEF Jam
  <2>3. CASE count # 0
    BY <1>0, <2>1, <2>3 DEF Jam, IsFull, Slots
  <2> QED BY <2>2, <2>3
<1>3. CASE c.op = "receive"
  <2>1. Dequeue /\ used # 0
    BY <1>3 DEF Ready, Apply, IsEmpty
  <2>2. count # 0 /\ first < count
    BY <1>0, <2>1
  <2>3. (first + 1) % count = SlotIn(count, first + 1)
    BY <1>0, <2>2, SlotIsMod
  <2> QED BY <1>0, <2>1, <2>2, <2>3 DEF Dequeue, SlotIn
<1> QED BY <1>1, <1>2, <1>3, CallsTyped

\* The message a receive returns is one of the array's words.
LEMMA HeadTyped ==
    ASSUME Ring, used # 0
    PROVE  array[first] \in Messages \cup {NoMessage} /\ count # 0 /\ first < count
<1>1. count \in Nat /\ count <= NumSlots /\ NumSlots \in Nat
  BY MessageConstants DEF Ring, TypeOK
<1>2. count # 0 /\ first < count
  BY <1>1 DEF Ring, TypeOK, RingInBounds
<1> QED BY <1>1, <1>2 DEF Ring, TypeOK, Slots

\* OSInitMessageQueue leaves an empty ring.
LEMMA RingInit == ASSUME Init PROVE Ring
BY MessageConstants DEF Init, Ring, TypeOK, RingInBounds

\* One round of a call keeps the ring in bounds.
LEMMA RingOp ==
    ASSUME Ring, NEW t \in Threads, NEW c \in Calls, MsgQueueOp(t, c)
    PROVE  Ring'
<1> USE DEF Ring
<1>1. CASE Ready(c) /\ Apply(c) /\ WakeOpposite(c)
            /\ Returns(t, 1, IF c.op = "receive" THEN array[first] ELSE NoMessage)
  <2>1. RingInBounds' /\ count' = count /\ used' \in Nat /\ first' \in Nat
            /\ array' \in [Slots -> Messages \cup {NoMessage}]
    BY <1>1, ApplyTyped
  <2>2. sendQ' \subseteq Threads /\ recvQ' \subseteq Threads
    BY <1>1 DEF WakeOpposite, LeftAsleep, TypeOK
  <2>3. last' \in [thread : Threads, result : {0, 1}, msg : Messages \cup {NoMessage}]
    BY <1>1, HeadTyped DEF Returns, Ready, IsEmpty
  <2>4. call' \in [Threads -> Calls \cup {NoCall}]
    BY <1>1 DEF Returns, TypeOK
  <2> QED BY <2>1, <2>2, <2>3, <2>4 DEF TypeOK
<1>2. CASE ~Ready(c) /\ ~c.block /\ Returns(t, 0, NoMessage) /\ UNCHANGED <<buffer, waiters>>
  BY <1>2 DEF Returns, TypeOK, RingInBounds, buffer, waiters
<1>3. CASE ~Ready(c) /\ c.block /\ SleepFor(t, c) /\ call' = [call EXCEPT ![t] = c]
            /\ UNCHANGED <<buffer, last>>
  BY <1>3 DEF SleepFor, TypeOK, RingInBounds, buffer
<1> QED BY <1>1, <1>2, <1>3 DEF MsgQueueOp

\* Every call, wakeup and cancellation keeps the ring in bounds.
LEMMA RingStep == ASSUME Ring, [Next]_vars PROVE Ring'
<1>1. ASSUME NEW t \in Threads, Call(t) PROVE Ring'
  BY <1>1, RingOp DEF Call
<1>2. ASSUME NEW t \in Threads, Retry(t) PROVE Ring'
  BY <1>2, RingOp DEF Retry, Ring, TypeOK
<1>3. ASSUME NEW t \in Threads, Cancel(t) PROVE Ring'
  BY <1>3 DEF Cancel, Ring, TypeOK, RingInBounds, buffer
<1>4. CASE InitMessageQueue
  BY <1>4, MessageConstants DEF InitMessageQueue, Ring, TypeOK, RingInBounds
<1>5. CASE UNCHANGED vars
  BY <1>5 DEF vars, buffer, waiters, Ring, TypeOK, RingInBounds
<1> QED BY <1>1, <1>2, <1>3, <1>4, <1>5 DEF Next

\* The ring never leaves the array the guest gave, and never holds more
\* messages than it has slots.
THEOREM RingBounded == Spec => []RingInBounds
<1>1. Ring => RingInBounds
  BY DEF Ring
<1> QED BY <1>1, RingInit, RingStep, PTL DEF Spec

\* The two wait lists hold threads, each thread does what its call does next,
\* and the slots hold messages.
THEOREM MessagesTypeCorrect == Spec => []TypeOK
<1>1. Ring => TypeOK
  BY DEF Ring
<1> QED BY <1>1, RingInit, RingStep, PTL DEF Spec

-----------------------------------------------------------------------------
(* Wakeups. *)

\* One round of MsgQueueOp wakes all that its change of the ring concerns.
LEMMA WakeupOp ==
    ASSUME Ring, NoLostWakeup, NEW t \in Threads, t \notin Asleep, NEW c \in Calls,
           call[t] # NoCall => call[t] = c, MsgQueueOp(t, c)
    PROVE  NoLostWakeup'
<1> USE DEF Ring, TypeOK, NoLostWakeup
<1>0. c # NoCall /\ sendQ \subseteq Threads /\ recvQ \subseteq Threads
  BY MessageConstants
<1>1. CASE Ready(c) /\ Apply(c) /\ WakeOpposite(c)
            /\ Returns(t, 1, IF c.op = "receive" THEN array[first] ELSE NoMessage)
  <2>1. CASE c.op = "receive"
    <3>1. recvQ = {} /\ recvQ' = {}
      BY <1>1, <2>1 DEF Ready, WakeOpposite
    <3>2. sendQ' = {}
      BY <1>0, <1>1, <2>1, WakesAll DEF WakeOpposite
    <3> QED BY <1>1, <3>1, <3>2 DEF Returns
  <2>2. CASE c.op # "receive"
    <3>1. sendQ = {} /\ sendQ' = {}
      BY <1>1, <2>2 DEF Ready, WakeOpposite
    <3>2. recvQ' = {}
      BY <1>0, <1>1, <2>2, WakesAll DEF WakeOpposite
    <3> QED BY <1>1, <3>1, <3>2 DEF Returns
  <2> QED BY <2>1, <2>2
<1>2. CASE ~Ready(c) /\ ~c.block /\ Returns(t, 0, NoMessage) /\ UNCHANGED <<buffer, waiters>>
  BY <1>2 DEF Returns, buffer, waiters, IsEmpty, IsFull, Asleep
<1>3. CASE ~Ready(c) /\ c.block /\ SleepFor(t, c) /\ call' = [call EXCEPT ![t] = c]
            /\ UNCHANGED <<buffer, last>>
  BY <1>0, <1>3 DEF SleepFor, Ready, buffer, IsEmpty, IsFull, Asleep
<1> QED BY <1>1, <1>2, <1>3 DEF MsgQueueOp

\* No step of any thread leaves a sleeper past its wakeup.
LEMMA WakeupStep == ASSUME Ring, NoLostWakeup, [Next]_vars PROVE NoLostWakeup'
<1>1. ASSUME NEW t \in Threads, Call(t) PROVE NoLostWakeup'
  <2>1. t \notin Asleep
    BY <1>1 DEF Call, NoLostWakeup, Asleep
  <2> QED BY <1>1, <2>1, WakeupOp DEF Call
<1>2. ASSUME NEW t \in Threads, Retry(t) PROVE NoLostWakeup'
  BY <1>2, WakeupOp DEF Retry, Ring, TypeOK
<1>3. ASSUME NEW t \in Threads, Cancel(t) PROVE NoLostWakeup'
  BY <1>3 DEF Cancel, NoLostWakeup, Ring, TypeOK, buffer, IsEmpty, IsFull
<1>4. CASE InitMessageQueue
  BY <1>4 DEF InitMessageQueue, NoLostWakeup
<1>5. CASE UNCHANGED vars
  BY <1>5 DEF vars, buffer, waiters, NoLostWakeup, IsEmpty, IsFull
<1> QED BY <1>1, <1>2, <1>3, <1>4, <1>5 DEF Next

\* For any number of senders and receivers, and whatever order they are
\* resumed or cancelled in, nobody sleeps past a message or a free slot.
THEOREM NoWakeupIsLost == Spec => []NoLostWakeup
<1>1. Init => Ring /\ NoLostWakeup
  BY RingInit DEF Init, NoLostWakeup
<1>2. Ring /\ NoLostWakeup /\ [Next]_vars => (Ring /\ NoLostWakeup)'
  BY RingStep, WakeupStep
<1> QED BY <1>1, <1>2, PTL DEF Spec

-----------------------------------------------------------------------------
(* The message queue is a bounded deque. *)

\* A ring of n slots, its oldest message at f, u messages in it.
Deque(a, n, f, u) == [k \in 1 .. u |-> a[(f + k - 1) % n]]

InRing(a, n, f, u) ==
    /\ a \in [Slots -> Messages \cup {NoMessage}]
    /\ n \in 0 .. NumSlots
    /\ u \in 0 .. n
    /\ f = 0 \/ f \in 0 .. n - 1

\* The messages d of such a ring: the k-th is found by going around at most once.
IsDeque(d, a, n, f, u) ==
    /\ d \in Seq(Messages \cup {NoMessage})
    /\ Len(d) = u
    /\ \A k \in 1 .. u : d[k] = a[SlotIn(n, f + k - 1)] /\ SlotIn(n, f + k - 1) \in Slots

\* What the ring's types and bounds say in the form the next lemmas use.
LEMMA InRingIntro ==
    ASSUME NEW a \in [Slots -> Messages \cup {NoMessage}], NEW n \in 0 .. NumSlots,
           NEW f \in Nat, NEW u \in Nat, u <= n, f = 0 \/ f < n
    PROVE  InRing(a, n, f, u)
BY MessageConstants DEF InRing

\* A ring in bounds is such a ring.
LEMMA RingIsInRing ==
    /\ Ring => InRing(array, count, first, used)
    /\ Ring' => InRing(array', count', first', used')
BY MessageConstants, InRingIntro DEF Ring, TypeOK, RingInBounds

\* The sequence read off the ring has a word of the array for each slot in use.
LEMMA DequeSlots ==
    ASSUME NEW a, NEW n, NEW f, NEW u, InRing(a, n, f, u)
    PROVE  IsDeque(Deque(a, n, f, u), a, n, f, u)
<1> USE DEF InRing, SlotIn, Slots
<1>0. n \in Nat /\ u \in Nat /\ f \in Nat /\ NumSlots \in Nat
  BY MessageConstants
<1>1. ASSUME NEW k \in 1 .. u
      PROVE  (f + k - 1) % n = SlotIn(n, f + k - 1) /\ SlotIn(n, f + k - 1) \in Slots
  <2>1. n # 0 /\ f + k - 1 \in Nat /\ f + k - 1 < n + n
    BY <1>0
  <2>2. (f + k - 1) % n = SlotIn(n, f + k - 1)
    BY <1>0, <2>1, SlotIsMod
  <2> QED BY <1>0, <2>1, <2>2
<1>2. \A k \in 1 .. u : Deque(a, n, f, u)[k] = a[SlotIn(n, f + k - 1)]
  BY <1>1 DEF Deque
<1>3. \A k \in 1 .. u : Deque(a, n, f, u)[k] \in Messages \cup {NoMessage}
  BY <1>1, <1>2
<1>4. Deque(a, n, f, u) \in [1 .. u -> Messages \cup {NoMessage}]
  BY <1>3 DEF Deque
<1>5. Deque(a, n, f, u) \in Seq(Messages \cup {NoMessage}) /\ Len(Deque(a, n, f, u)) = u
  BY <1>0, <1>4
<1> QED BY <1>1, <1>2, <1>5 DEF IsDeque

\* The array b is a with the message m written to slot i.
Stores(b, a, i, m) == \A k \in Slots : b[k] = IF k = i THEN m ELSE a[k]

\* Two sequences of the same length with the same elements are equal.
LEMMA SeqExt ==
    ASSUME NEW S, NEW s \in Seq(S), NEW r \in Seq(S), Len(s) = Len(r),
           \A k \in 1 .. Len(s) : s[k] = r[k]
    PROVE  s = r
OBVIOUS

\* OSSendMessage appends: the slot after the newest message is none of those
\* in use.
LEMMA EnqueueAppends ==
    ASSUME NEW a, NEW n, NEW f, NEW u, InRing(a, n, f, u), NEW m \in Messages,
           u < n, NEW w, w = u + 1,
           NEW i, i = (f + u) % n, NEW b, Stores(b, a, i, m), InRing(b, n, f, w)
    PROVE  Deque(b, n, f, w) = Append(Deque(a, n, f, u), m)
<1> DEFINE old == Deque(a, n, f, u)
           new == Deque(b, n, f, w)
<1>1. n \in Nat \ {0} /\ f \in 0 .. n - 1 /\ u \in 0 .. n /\ NumSlots \in Nat /\ n <= NumSlots /\ w \in Nat
  BY MessageConstants DEF InRing, Stores
<1>2. (f + u) % n = SlotIn(n, f + u) /\ SlotIn(n, f + u) \in Slots
  <2>1. n \in Nat \ {0} /\ f + u \in Nat /\ f + u < n + n
    BY <1>1
  <2>2. (f + u) % n = SlotIn(n, f + u)
    BY <2>1, SlotIsMod
  <2> QED BY <1>1, <2>1, <2>2 DEF SlotIn, Slots
<1>3. IsDeque(old, a, n, f, u)
  BY DequeSlots
<1>4. IsDeque(new, b, n, f, w)
  BY DequeSlots
<1> HIDE DEF old, new
<1>5. /\ old \in Seq(Messages \cup {NoMessage}) /\ Len(old) = u
      /\ \A k \in 1 .. u : old[k] = a[SlotIn(n, f + k - 1)] /\ SlotIn(n, f + k - 1) \in Slots
  BY <1>3 DEF IsDeque
<1>6. /\ new \in Seq(Messages \cup {NoMessage}) /\ Len(new) = w
      /\ \A k \in 1 .. w : new[k] = b[SlotIn(n, f + k - 1)]
  BY <1>4 DEF IsDeque
<1>7. Append(old, m) \in Seq(Messages \cup {NoMessage}) /\ Len(Append(old, m)) = w
  BY <1>5
<1>8. ASSUME NEW k \in 1 .. w PROVE new[k] = Append(old, m)[k]
  <2>0. k = w \/ k \in 1 .. u
    BY <1>1
  <2>1. CASE k = w
    <3>1. new[k] = b[SlotIn(n, f + u)]
      BY <1>1, <1>6, <2>1
    <3>2. b[SlotIn(n, f + u)] = m
      BY <1>2 DEF InRing, Stores
    <3> QED BY <1>1, <1>5, <2>1, <3>1, <3>2
  <2>2. CASE k \in 1 .. u
    <3>1. SlotIn(n, f + k - 1) # SlotIn(n, f + u)
      BY <1>1, <2>2 DEF SlotIn
    <3>2. b[SlotIn(n, f + k - 1)] = a[SlotIn(n, f + k - 1)]
      BY <1>2, <1>5, <2>2, <3>1 DEF InRing, Stores
    <3> QED BY <1>1, <1>5, <1>6, <2>2, <3>2
  <2> QED BY <2>0, <2>1, <2>2
<1>9. new = Append(old, m)
  BY <1>1, <1>6, <1>7, <1>8, SeqExt
<1> QED BY <1>9 DEF old, new

\* OSJamMessage prepends.
Before(n, f) == IF f = 0 THEN n - 1 ELSE f - 1

\* OSJamMessage prepends: it steps back to a slot that is not in use.
LEMMA JamPrepends ==
    ASSUME NEW a, NEW n, NEW f, NEW u, InRing(a, n, f, u), NEW m \in Messages,
           u < n, NEW w, w = u + 1, NEW b,
           Stores(b, a, Before(n, f), m), InRing(b, n, Before(n, f), w)
    PROVE  Deque(b, n, Before(n, f), w) = <<m>> \o Deque(a, n, f, u)
<1> DEFINE g == Before(n, f)
           old == Deque(a, n, f, u)
           new == Deque(b, n, g, w)
<1>1. n \in Nat \ {0} /\ f \in 0 .. n - 1 /\ u \in 0 .. n /\ NumSlots \in Nat /\ n <= NumSlots /\ w \in Nat
        /\ g \in 0 .. n - 1 /\ g \in Slots
  BY MessageConstants DEF InRing, Slots, Before
<1>2. IsDeque(old, a, n, f, u)
  BY DequeSlots
<1>3. IsDeque(new, b, n, g, w)
  BY DequeSlots
<1> HIDE DEF old, new
<1>4. /\ old \in Seq(Messages \cup {NoMessage}) /\ Len(old) = u
      /\ \A k \in 1 .. u : old[k] = a[SlotIn(n, f + k - 1)] /\ SlotIn(n, f + k - 1) \in Slots
  BY <1>2 DEF IsDeque
<1>5. /\ new \in Seq(Messages \cup {NoMessage}) /\ Len(new) = w
      /\ \A k \in 1 .. w : new[k] = b[SlotIn(n, g + k - 1)]
  BY <1>3 DEF IsDeque
<1>6. /\ <<m>> \o old \in Seq(Messages \cup {NoMessage}) /\ Len(<<m>> \o old) = w
      /\ (<<m>> \o old)[1] = m
      /\ \A k \in 2 .. w : (<<m>> \o old)[k] = old[k - 1]
  BY <1>1, <1>4
<1>7. ASSUME NEW k \in 1 .. w PROVE new[k] = (<<m>> \o old)[k]
  <2>0. k = 1 \/ k \in 2 .. w
    BY <1>1
  <2>1. CASE k = 1
    <3>1. SlotIn(n, g + k - 1) = g
      BY <1>1, <2>1 DEF SlotIn
    <3>2. b[g] = m
      BY <1>1 DEF InRing, Stores
    <3> QED BY <1>1, <1>5, <1>6, <2>1, <3>1, <3>2
  <2>2. CASE k \in 2 .. w
    <3> DEFINE j == k - 1
    <3>1. j \in 1 .. u /\ SlotIn(n, g + k - 1) = SlotIn(n, f + j - 1)
      BY <1>1, <2>2 DEF SlotIn, Before
    <3>2. SlotIn(n, f + j - 1) # g
      BY <1>1, <2>2 DEF SlotIn, Before
    <3>3. b[SlotIn(n, f + j - 1)] = a[SlotIn(n, f + j - 1)]
      BY <1>1, <1>4, <3>1, <3>2 DEF InRing, Stores
    <3> QED BY <1>1, <1>4, <1>5, <1>6, <2>2, <3>1, <3>3
  <2> QED BY <2>0, <2>1, <2>2
<1>8. new = <<m>> \o old
  BY <1>1, <1>5, <1>6, <1>7, SeqExt
<1> QED BY <1>8 DEF old, new

\* OSReceiveMessage takes the head.
LEMMA DequeueTakesHead ==
    ASSUME NEW a, NEW n, NEW f, NEW u, InRing(a, n, f, u), u # 0,
           InRing(a, n, (f + 1) % n, u - 1)
    PROVE  /\ Deque(a, n, f, u) # <<>>
           /\ Head(Deque(a, n, f, u)) = a[f]
           /\ Deque(a, n, (f + 1) % n, u - 1) = Tail(Deque(a, n, f, u))
<1> DEFINE old == Deque(a, n, f, u)
           g == (f + 1) % n
           new == Deque(a, n, g, u - 1)
<1>0. n \in Nat \ {0} /\ f \in 0 .. n - 1 /\ u \in 1 .. n /\ NumSlots \in Nat /\ n <= NumSlots
  BY MessageConstants DEF InRing
<1>1. g = SlotIn(n, f + 1)
  BY <1>0, SlotIsMod
<1>2. /\ old \in Seq(Messages \cup {NoMessage}) /\ Len(old) = u
      /\ \A k \in 1 .. u : old[k] = a[SlotIn(n, f + k - 1)]
  BY DequeSlots DEF IsDeque
<1>3. /\ new \in Seq(Messages \cup {NoMessage}) /\ Len(new) = u - 1
      /\ \A k \in 1 .. u - 1 : new[k] = a[SlotIn(n, g + k - 1)]
  BY <1>0, DequeSlots DEF IsDeque
<1>4. old # <<>> /\ Head(old) = a[f]
  <2>1. old[1] = a[f]
    BY <1>0, <1>2 DEF SlotIn
  <2> QED BY <1>0, <1>2, <2>1
<1>5. Tail(old) \in Seq(Messages \cup {NoMessage}) /\ Len(Tail(old)) = u - 1
        /\ \A k \in 1 .. u - 1 : Tail(old)[k] = old[k + 1]
  BY <1>0, <1>2, <1>4
<1>6. ASSUME NEW k \in 1 .. u - 1 PROVE new[k] = Tail(old)[k]
  <2>1. SlotIn(n, g + k - 1) = SlotIn(n, f + (k + 1) - 1)
    BY <1>0, <1>1 DEF SlotIn
  <2>2. k + 1 \in 1 .. u
    BY <1>0
  <2> QED BY <1>2, <1>3, <1>5, <2>1, <2>2
<1>7. new = Tail(old)
  BY <1>0, <1>3, <1>5, <1>6, SeqExt
<1> QED BY <1>4, <1>7

\* The refinement mapping reads the messages in the order of the ring.
LEMMA ContentsIsDeque ==
    /\ Contents = Deque(array, count, first, used)
    /\ Contents' = Deque(array', count', first', used')
BY DEF Contents, Deque

\* The mapped deque has as many words as the ring has slots in use.
LEMMA ContentsTyped ==
    ASSUME Ring
    PROVE  /\ Contents \in Seq(Messages \cup {NoMessage}) /\ Len(Contents) = used
           /\ count \in Nat
<1>1. IsDeque(Contents, array, count, first, used)
  BY RingIsInRing, DequeSlots, ContentsIsDeque
<1> QED BY <1>1, MessageConstants DEF IsDeque, Ring, TypeOK

\* A call that is applied is a put or a take, or is lost in a ring without slots.
LEMMA ApplyIsFifo ==
    ASSUME Ring, Ring', NEW t \in Threads, NEW c \in Calls, Ready(c), Apply(c),
           Returns(t, 1, IF c.op = "receive" THEN array[first] ELSE NoMessage)
    PROVE  Fifo!Next
<1>0. InRing(array, count, first, used) /\ count' = count
  BY RingIsInRing, ApplyTyped
<1>1. InRing(array', count', first', used')
  BY RingIsInRing
<1>2. Len(Contents) = used /\ count \in Nat /\ used \in Nat /\ first \in Nat
  BY ContentsTyped DEF Ring, TypeOK
<1>3. CASE c.op = "receive"
  <2>1. Dequeue /\ used # 0 /\ last' = [thread |-> t, result |-> 1, msg |-> array[first]]
    BY <1>3 DEF Ready, Apply, IsEmpty, Returns
  <2>2. InRing(array, count, (first + 1) % count, used - 1)
    BY <1>0, <1>1, <2>1 DEF Dequeue
  <2>3. /\ Contents # <<>> /\ Head(Contents) = array[first]
        /\ Contents' = Tail(Contents)
    BY <1>0, <2>1, <2>2, DequeueTakesHead, ContentsIsDeque DEF Dequeue
  <2>4. Fifo!Take(t)
    BY <1>0, <2>1, <2>3 DEF Fifo!Take, Fifo!Returned
  <2> QED BY <2>4 DEF Fifo!Next
<1>4. CASE c.op # "receive" /\ count = 0
  <2>1. UNCHANGED buffer /\ last' = [thread |-> t, result |-> 1, msg |-> NoMessage]
    BY <1>4, CallsTyped DEF Apply, Enqueue, Jam, Returns
  <2>2. Contents' = Contents
    BY <2>1 DEF buffer, Contents
  <2>3. Fifo!Lose(t)
    BY <1>0, <1>4, <2>1, <2>2 DEF Fifo!Lose, Fifo!Returned
  <2> QED BY <2>3 DEF Fifo!Next
<1>5. CASE c.op # "receive" /\ count # 0
  <2>1. used < count /\ c.msg \in Messages
            /\ last' = [thread |-> t, result |-> 1, msg |-> NoMessage]
    BY <1>2, <1>5, CallsTyped DEF Ready, IsFull, Returns
  <2>2. CASE c.op = "send"
    <3>1. array' = [array EXCEPT ![(first + used) % count] = c.msg]
      BY <1>5, <2>2 DEF Apply, Enqueue
    <3>2. first' = first /\ used' = used + 1
      BY <1>5, <2>2 DEF Apply, Enqueue
    <3>3. Stores(array', array, (first + used) % count, c.msg)
      BY <3>1 DEF Ring, TypeOK, Stores
    <3>4. InRing(array', count, first, used')
      BY <1>0, <1>1, <3>2
    <3>5. Deque(array', count, first, used') = Append(Deque(array, count, first, used), c.msg)
      BY <1>0, <2>1, <3>2, <3>3, <3>4, EnqueueAppends
    <3>6. Contents' = Append(Contents, c.msg)
      BY <1>0, <3>2, <3>5, ContentsIsDeque
    <3>7. Fifo!Put(t, Append(Contents, c.msg))
      BY <1>0, <1>2, <2>1, <3>6 DEF Fifo!Put, Fifo!Returned
    <3> QED BY <2>1, <3>7 DEF Fifo!Next
  <2>3. CASE c.op = "jam"
    <3>1. array' = [array EXCEPT ![Before(count, first)] = c.msg]
      BY <1>5, <2>3 DEF Apply, Jam, Before
    <3>2. first' = Before(count, first)
      BY <1>5, <2>3 DEF Apply, Jam, Before
    <3>3. used' = used + 1
      BY <1>5, <2>3 DEF Apply, Jam
    <3>4. Stores(array', array, Before(count, first), c.msg)
      BY <3>1 DEF Ring, TypeOK, Stores
    <3>5. InRing(array', count, Before(count, first), used')
      BY <1>0, <1>1, <3>2
    <3>6. Deque(array', count, Before(count, first), used')
            = <<c.msg>> \o Deque(array, count, first, used)
      BY <1>0, <2>1, <3>3, <3>4, <3>5, JamPrepends
    <3>7. Contents' = <<c.msg>> \o Contents
      BY <1>0, <3>2, <3>6, ContentsIsDeque
    <3>8. Fifo!Put(t, <<c.msg>> \o Contents)
      BY <1>0, <1>2, <2>1, <3>7 DEF Fifo!Put, Fifo!Returned
    <3> QED BY <2>1, <3>8 DEF Fifo!Next
  <2> QED BY <1>5, <2>2, <2>3, CallsTyped
<1> QED BY <1>3, <1>4, <1>5

\* Every round of a call is a step of the bounded deque or leaves it alone.
LEMMA OpIsFifo ==
    ASSUME Ring, Ring', NEW t \in Threads, NEW c \in Calls, MsgQueueOp(t, c)
    PROVE  [Fifo!Next]_(Fifo!vars)
<1>0. /\ Len(Contents) = used /\ count \in Nat /\ used \in Nat /\ used <= count
      /\ Contents \in Seq(Messages \cup {NoMessage})
  BY ContentsTyped DEF Ring, TypeOK, RingInBounds
<1>1. CASE Ready(c) /\ Apply(c) /\ WakeOpposite(c)
            /\ Returns(t, 1, IF c.op = "receive" THEN array[first] ELSE NoMessage)
  BY <1>1, ApplyIsFifo
<1>2. CASE ~Ready(c) /\ ~c.block /\ Returns(t, 0, NoMessage) /\ UNCHANGED <<buffer, waiters>>
  <2>1. Contents' = Contents /\ count' = count
    BY <1>2 DEF buffer, Contents
  <2>2. Contents = <<>> \/ Len(Contents) = count
    BY <1>0, <1>2 DEF Ready, IsEmpty, IsFull
  <2>3. Fifo!Refuse(t)
    BY <1>2, <2>1, <2>2 DEF Fifo!Refuse, Fifo!Returned, Returns
  <2> QED BY <2>3 DEF Fifo!Next
<1>3. CASE ~Ready(c) /\ c.block /\ SleepFor(t, c) /\ call' = [call EXCEPT ![t] = c]
            /\ UNCHANGED <<buffer, last>>
  BY <1>3 DEF buffer, Contents, Fifo!vars
<1> QED BY <1>1, <1>2, <1>3 DEF MsgQueueOp

\* Every step of the ring with its threads maps to a step of the deque.
LEMMA FifoStep == ASSUME Ring, Ring', [Next]_vars PROVE [Fifo!Next]_(Fifo!vars)
<1>1. ASSUME NEW t \in Threads, Call(t) PROVE [Fifo!Next]_(Fifo!vars)
  BY <1>1, OpIsFifo DEF Call
<1>2. ASSUME NEW t \in Threads, Retry(t) PROVE [Fifo!Next]_(Fifo!vars)
  BY <1>2, OpIsFifo DEF Retry, Ring, TypeOK
<1>3. ASSUME NEW t \in Threads, Cancel(t) PROVE [Fifo!Next]_(Fifo!vars)
  BY <1>3 DEF Cancel, buffer, Contents, Fifo!vars
<1>4. CASE InitMessageQueue
  <2>1. Contents' = <<>>
    BY <1>4, DequeSlots, ContentsIsDeque, RingIsInRing DEF InitMessageQueue, Contents
  <2>2. Fifo!Reset(count')
    BY <1>4, <2>1 DEF InitMessageQueue, Fifo!Reset
  <2> QED BY <1>4, <2>2 DEF InitMessageQueue, Fifo!Next
<1>5. CASE UNCHANGED vars
  BY <1>5 DEF vars, buffer, Contents, Fifo!vars
<1> QED BY <1>1, <1>2, <1>3, <1>4, <1>5 DEF Next

\* The initial ring maps to the empty deque.
LEMMA FifoInit == ASSUME Init PROVE Fifo!Init
<1>1. Contents = <<>>
  BY DEF Init, Contents
<1> QED BY <1>1 DEF Init, Fifo!Init

\* Send, jam and receive on the ring in guest memory are the operations of a
\* bounded deque, for every array length and capacity, 0 included.
THEOREM QueueIsFifo == Spec => FifoSpec
<1>1. Init => Ring /\ Fifo!Init
  BY RingInit, FifoInit
<1>2. Ring /\ [Next]_vars => Ring'
  BY RingStep
<1>3. Ring /\ Ring' /\ [Next]_vars => [Fifo!Next]_(Fifo!vars)
  BY FifoStep
<1> QED BY <1>1, <1>2, <1>3, PTL DEF Spec, FifoSpec, Fifo!Spec

=============================================================================

-------------------------- MODULE OsThreads_proofs --------------------------
(***************************************************************************)
(* Type correctness of OsThreads, and that the pending mask covers every   *)
(* run queue that is not empty, for any guest program, any threads, queues *)
(* and mutexes, and any number of priorities.                              *)
(***************************************************************************)
EXTENDS OsThreads, LeastNumber, SequenceTheorems, TLAPS

-----------------------------------------------------------------------------
(***************************************************************************)
(* Sequences and minima.                                                   *)
(***************************************************************************)

\* A nonempty set of natural numbers has the least element that Least names.
LEMMA LeastProperties ==
    ASSUME NEW S, S \subseteq Nat, S # {}
    PROVE  /\ Least(S) \in S
           /\ \A y \in S : Least(S) <= y
BY HasLeast DEF Least

\* Unlinking a thread leaves a list of threads.
LEMMA UnlinkType ==
    ASSUME NEW S, NEW s \in Seq(S), NEW t
    PROVE  Unlink(s, t) \in Seq(S)
<1>1. CASE Linked(s, t)
  <2> DEFINE i == CHOOSE j \in 1 .. Len(s) : s[j] = t
  <2>1. i \in 1 .. Len(s)
    BY <1>1 DEF Linked
  <2>2. SubSeq(s, 1, i - 1) \in Seq(S)
    BY <2>1, \A j \in 1 .. i - 1 : s[j] \in S, SubSeqProperties
  <2>3. SubSeq(s, i + 1, Len(s)) \in Seq(S)
    BY <2>1, \A j \in i + 1 .. Len(s) : s[j] \in S, SubSeqProperties
  <2> QED
    BY <1>1, <2>2, <2>3, ConcatProperties DEF Unlink
<1>2. CASE ~ Linked(s, t)
  BY <1>2 DEF Unlink
<1> QED
  BY <1>1, <1>2

\* Inserting by priority gives a list of threads that is not empty.
LEMMA InsertSortedType ==
    ASSUME NEW S, NEW s \in Seq(S), NEW pr, NEW t \in S, NEW p
    PROVE  /\ InsertSorted(s, pr, t, p) \in Seq(S)
           /\ InsertSorted(s, pr, t, p) # <<>>
<1> DEFINE Before == {i \in 1 .. Len(s) : \A j \in 1 .. i : pr[s[j]] <= p}
           k == Cardinality(Before)
<1>1. k \in 0 .. Len(s)
  <2>1. Len(s) \in Nat
    BY LenProperties
  <2>2. IsFiniteSet(1 .. Len(s)) /\ Cardinality(1 .. Len(s)) = Len(s)
    BY <2>1, FS_Interval
  <2>3. IsFiniteSet(Before) /\ k <= Len(s)
    BY <2>2, FS_Subset, Before \in SUBSET (1 .. Len(s))
  <2> QED
    BY <2>1, <2>3, FS_CardinalityType
<1> HIDE DEF k
<1>2. SubSeq(s, 1, k) \in Seq(S)
  BY <1>1, \A j \in 1 .. k : s[j] \in S, SubSeqProperties
<1>3. SubSeq(s, k + 1, Len(s)) \in Seq(S)
  BY <1>1, \A j \in k + 1 .. Len(s) : s[j] \in S, SubSeqProperties
<1>4. SubSeq(s, 1, k) \o <<t>> \in Seq(S) /\ SubSeq(s, 1, k) \o <<t>> # <<>>
  BY <1>2, ConcatProperties, ConcatEqualIffEmpty, <<t>> \in Seq(S), <<t>> # <<>>
<1>5. (SubSeq(s, 1, k) \o <<t>>) \o SubSeq(s, k + 1, Len(s)) \in Seq(S)
  BY <1>3, <1>4, ConcatProperties
<1>6. (SubSeq(s, 1, k) \o <<t>>) \o SubSeq(s, k + 1, Len(s)) # <<>>
  BY <1>3, <1>4, ConcatEqualIffEmpty
<1> QED
  BY <1>5, <1>6 DEF InsertSorted, k
-----------------------------------------------------------------------------
(***************************************************************************)
(* The queues and the pending mask, whatever changes them.                 *)
(***************************************************************************)

QueueSetOK(qs, mask, ln) ==
    /\ qs \in [QueueIds -> Seq(Threads)]
    /\ mask \subseteq Prios
    /\ ln \in [Threads -> QueueIds \cup {NoQueue}]
    /\ \A p \in Prios : qs[p] # <<>> => p \in mask

\* The inductive invariant.  With the types go the cover of the mask, and that an
\* owned mutex has a count: without it OSUnlockMutex could count below zero.
IInv == TypeOK /\ PendingCoversQueues /\ MutexCounted

MutexesOK == MutexesTypeOK /\ MutexCounted

\* The invariant's part about queues, as a statement about any set of queues.
LEMMA QueueSetOfState ==
    /\ IInv => QueueSetOK(queue, pending, link)
    /\ QueueSetOK(queue, pending, link) => QueuesTypeOK /\ PendingCoversQueues
BY DEF IInv, TypeOK, QueuesTypeOK, PendingCoversQueues, QueueSetOK

\* The addresses of queues: run queues are numbers, and none is null.
LEMMA QueueIdsFacts ==
    /\ NumPrio \in Nat \ {0}
    /\ Prios \subseteq QueueIds /\ Prios \subseteq Nat
    /\ 0 .. NumPrio \subseteq QueueIds
    /\ WaitQueues \subseteq QueueIds
    /\ Threads \subseteq WaitQueues /\ Mutexes \subseteq WaitQueues /\ Queues \subseteq WaitQueues
    /\ NoQueue \notin QueueIds
BY ConstantsAssumption, AddressesAssumption DEF Prios, QueueIds, WaitQueues

\* The flag of a frame that needs none is a number a frame may carry.
LEMMA Zero == 0 \in 0 .. NumPrio
BY ConstantsAssumption

\* UpdatePendingMaskForQueue drops no bit whose run queue holds a thread.
LEMMA ClearedMaskOK ==
    ASSUME NEW qs, NEW mask, NEW ln, QueueSetOK(qs, mask, ln), NEW q
    PROVE  QueueSetOK(qs, ClearedMask(mask, q, qs), ln)
BY DEF QueueSetOK, ClearedMask

\* Unlinking from an empty list changes nothing.
LEMMA UnlinkEmpty == ASSUME NEW t PROVE Unlink(<<>>, t) = <<>>
BY DEF Unlink, Linked

\* RemoveThreadFromQueue keeps every run queue that holds a thread in the mask.
LEMMA RemovedOK ==
    ASSUME IInv, NEW t \in Threads
    PROVE  /\ QueueSetOK(Removed(t), RemovedMask(t), link)
           /\ QueueSetOK(Removed(t), RemovedMask(t), Delinked(t))
<1>1. QueueSetOK(queue, pending, link)
  BY QueueSetOfState
<1>2. QueueSetOK(Removed(t), pending, link)
  <2>1. CASE link[t] = NoQueue
    BY <1>1, <2>1 DEF Removed
  <2>2. CASE link[t] # NoQueue
    <3>1. link[t] \in QueueIds
      BY <1>1, <2>2 DEF QueueSetOK
    <3>2. queue[link[t]] \in Seq(Threads)
      BY <1>1, <3>1 DEF QueueSetOK
    <3>3. Unlink(queue[link[t]], t) \in Seq(Threads)
      BY <3>2, UnlinkType
    <3> QED
      BY <1>1, <2>2, <3>1, <3>3, UnlinkEmpty DEF QueueSetOK, Removed
  <2> QED
    BY <2>1, <2>2
<1>3. QueueSetOK(Removed(t), RemovedMask(t), link)
  BY <1>2, ClearedMaskOK DEF RemovedMask
<1> QED
  BY <1>3 DEF QueueSetOK, Delinked

\* InsertThreadIntoQueueByPriority publishes the run queue it inserts into.
LEMMA InsertedOK ==
    ASSUME IInv, NEW qs, NEW mask, NEW ln, QueueSetOK(qs, mask, ln),
           NEW q \in QueueIds, NEW t \in Threads, NEW p
    PROVE  QueueSetOK(Inserted(qs, q, t, p), InsertedMask(mask, q), [ln EXCEPT ![t] = q])
<1>1. InsertSorted(qs[q], prio, t, p) \in Seq(Threads)
  BY InsertSortedType DEF QueueSetOK
<1> QED
  BY <1>1 DEF QueueSetOK, Inserted, InsertedMask

\* LinkThreadOnRunQueue followed by MarkRunQueuePending publishes its queue.
LEMMA EnqueuedOK ==
    ASSUME NEW qs, NEW mask, NEW ln, QueueSetOK(qs, mask, ln),
           NEW t \in Threads, NEW p \in 0 .. NumPrio
    PROVE  QueueSetOK(Enqueued(qs, t, p), MarkedMask(mask, p), [ln EXCEPT ![t] = p])
<1>1. p \in QueueIds /\ p % NumPrio \in Prios
  BY QueueIdsFacts DEF Prios
<1>2. p \in Prios => p % NumPrio = p
  BY QueueIdsFacts DEF Prios
<1>3. Append(qs[p], t) \in Seq(Threads)
  BY <1>1, AppendProperties DEF QueueSetOK
<1> QED
  BY <1>1, <1>2, <1>3 DEF QueueSetOK, Enqueued, MarkedMask

\* Taking the head off a queue, as PopThreadQueueHead does, uncovers none.
LEMMA ShrunkOK ==
    ASSUME NEW qs, NEW mask, NEW ln, QueueSetOK(qs, mask, ln), NEW q \in QueueIds, qs[q] # <<>>
    PROVE  /\ Head(qs[q]) \in Threads
           /\ Tail(qs[q]) \in Seq(Threads)
           /\ QueueSetOK([qs EXCEPT ![q] = Tail(@)], mask, ln)
<1>1. Head(qs[q]) \in Threads /\ Tail(qs[q]) \in Seq(Threads)
  BY HeadTailProperties DEF QueueSetOK
<1> QED
  BY <1>1 DEF QueueSetOK

\* SetThreadEffectivePriority, OSResumeThread and OSSuspendThread change the
\* queues through these.
LEMMA QueueChangesOK ==
    ASSUME IInv, NEW t \in Threads
    PROVE  /\ KeepQueues => QueueSetOK(queue', pending', link')
           /\ Delink(t) => QueueSetOK(queue', pending', link')
           /\ \A p : Reinsert(t, p) => QueueSetOK(queue', pending', link')
           /\ \A p : \A q \in QueueIds : Insert(queue, pending, q, t, p)
                        => QueueSetOK(queue', pending', link')
           /\ \A p : \A q \in QueueIds : Insert(Removed(t), RemovedMask(t), q, t, p)
                        => QueueSetOK(queue', pending', link')
<1>1. QueueSetOK(queue, pending, link)
  BY QueueSetOfState
<1>2. QueueSetOK(Removed(t), RemovedMask(t), link) /\ QueueSetOK(Removed(t), RemovedMask(t), Delinked(t))
  BY RemovedOK
<1>3. KeepQueues => QueueSetOK(queue', pending', link')
  BY <1>1 DEF KeepQueues
<1>4. Delink(t) => QueueSetOK(queue', pending', link')
  BY <1>2 DEF Delink
<1>5. ASSUME NEW p, NEW q \in QueueIds, Insert(Removed(t), RemovedMask(t), q, t, p)
      PROVE  QueueSetOK(queue', pending', link')
  BY <1>2, <1>5, InsertedOK DEF Insert
<1>6. ASSUME NEW p, NEW q \in QueueIds, Insert(queue, pending, q, t, p)
      PROVE  QueueSetOK(queue', pending', link')
  BY <1>1, <1>6, InsertedOK DEF Insert
<1>7. ASSUME NEW p, Reinsert(t, p) PROVE QueueSetOK(queue', pending', link')
  <2>1. link[t] \in QueueIds \cup {NoQueue}
    BY <1>1 DEF QueueSetOK
  <2>2. CASE link[t] = NoQueue
    BY <1>3, <1>7, <2>2 DEF Reinsert
  <2>3. CASE link[t] # NoQueue
    BY <1>5, <1>7, <2>1, <2>3 DEF Reinsert
  <2> QED
    BY <2>2, <2>3
<1> QED
  BY <1>3, <1>4, <1>5, <1>6, <1>7

-----------------------------------------------------------------------------
(***************************************************************************)
(* Frames and the stacks of fibers.                                        *)
(***************************************************************************)

\* The frames the handlers push are frames.
LEMMA FrameForms ==
    /\ ReschedFrame \in Frame
    /\ \A n \in 0 .. 1 : SelectFrame(n) \in Frame /\ Fr("endDeferred", NoQueue, NoThread, n) \in Frame
    /\ \A op \in {"pick", "idle", "exited", "fiberEnd"} : Fr(op, NoQueue, NoThread, 0) \in Frame
    /\ \A q \in WaitQueues : \A op \in {"sleep", "wake", "wakeResched", "wakeFiber"} :
          Fr(op, q, NoThread, 0) \in Frame
    /\ \A q \in WaitQueues : WakeFrame(q) \in Frame
    /\ \A q \in WaitQueues, t \in Threads : Fr("slept", q, t, 0) \in Frame
    /\ \A m \in Mutexes, t \in Threads : Fr("lock", m, t, 0) \in Frame
    /\ \A t \in Threads : \A op \in {"unlockAll", "joined", "ticked"} : Fr(op, NoQueue, t, 0) \in Frame
    /\ \A t \in Threads \cup {NoThread}, n \in 0 .. NumPrio :
          Fr("promote", NoQueue, t, n) \in Frame /\ Fr("propagate", NoQueue, t, n) \in Frame
BY QueueIdsFacts
   DEF Frame, FrameOps, Fr, ReschedFrame, SelectFrame, WakeFrame

\* Pushing one frame gives a stack.
LEMMA PushType ==
    ASSUME NEW f \in Frame, NEW s \in Seq(Frame)
    PROVE  <<f>> \o s \in Seq(Frame)
BY <<f>> \in Seq(Frame), ConcatProperties

\* Pushing two frames gives a stack.
LEMMA Push2Type ==
    ASSUME NEW f \in Frame, NEW g \in Frame, NEW s \in Seq(Frame)
    PROVE  <<f, g>> \o s \in Seq(Frame)
BY <<f, g>> \in Seq(Frame), ConcatProperties

\* The topmost frame of the running fiber, and those below it.
LEMMA TopType ==
    ASSUME IInv
    PROVE  /\ host \in Threads
           /\ stack[host] \in Seq(Frame)
           /\ \A op : At(op) => Top \in Frame /\ Top.op = op /\ Rest \in Seq(Frame)
<1>1. host \in Threads /\ stack[host] \in Seq(Frame)
  BY DEF IInv, TypeOK, FibersTypeOK
<1> QED
  BY <1>1, HeadTailProperties DEF At, Top, Rest

\* Replacing the stack of the running fiber keeps all stacks well typed.
LEMMA GotoType ==
    ASSUME IInv, NEW s \in Seq(Frame), Goto(s)
    PROVE  stack' \in [Threads -> Seq(Frame)]
BY DEF IInv, TypeOK, FibersTypeOK, Goto

-----------------------------------------------------------------------------
(***************************************************************************)
(* The parts the operations share.                                         *)
(***************************************************************************)

\* ComputeThreadEffectivePriority yields a priority, that of a suspended waiter
\* at most.
LEMMA EffectivePriorityType ==
    ASSUME IInv, NEW t \in Threads, NEW ms \in Seq(Mutexes)
    PROVE  EffectivePriority(t, ms) \in 0 .. NumPrio
<1> DEFINE Waited == {j \in 1 .. Len(ms) : queue[ms[j]] # <<>>}
           S == {BasePrio[t]} \cup {prio[queue[ms[i]][1]] : i \in Waited}
<1>1. BasePrio[t] \in 0 .. NumPrio
  BY ConstantsAssumption DEF Prios
<1>2. ASSUME NEW i \in Waited PROVE prio[queue[ms[i]][1]] \in 0 .. NumPrio
  <2>1. ms[i] \in QueueIds
    BY QueueIdsFacts, ElementOfSeq
  <2>2. queue[ms[i]] \in Seq(Threads) /\ queue[ms[i]] # <<>>
    BY <2>1 DEF IInv, TypeOK, QueuesTypeOK
  <2>3. queue[ms[i]][1] \in Threads
    BY <2>2, ElementOfSeq, EmptySeq, LenProperties
  <2> QED
    BY <2>3 DEF IInv, TypeOK, ThreadsTypeOK
<1>3. S \subseteq 0 .. NumPrio /\ S # {}
  BY <1>1, <1>2
<1> HIDE DEF S
<1>4. S \subseteq Nat
  BY <1>3, QueueIdsFacts
<1>5. Least(S) \in S
  BY <1>3, <1>4, LeastProperties
<1> QED
  BY <1>3, <1>5 DEF EffectivePriority, S

\* The next link of a chain of owners is a thread or null.
LEMMA BlockedOnType ==
    ASSUME IInv, NEW t \in Threads
    PROVE  BlockedOn(t) \in Threads \cup {NoThread}
BY DEF BlockedOn, IInv, TypeOK, ThreadsTypeOK, MutexesTypeOK

\* SetThreadEffectivePriority keeps the queues covered and the priorities typed.
LEMMA SetThreadEffectivePriorityOK ==
    ASSUME IInv, NEW t \in Threads, NEW p \in 0 .. NumPrio, SetThreadEffectivePriority(t, p)
    PROVE  /\ prio' \in [Threads -> 0 .. NumPrio]
           /\ resched' \in BOOLEAN
           /\ QueueSetOK(queue', pending', link')
<1>1. prio' \in [Threads -> 0 .. NumPrio] /\ resched' \in BOOLEAN
  BY DEF SetThreadEffectivePriority, IInv, TypeOK, ThreadsTypeOK, SchedulerTypeOK
<1>2. p \in QueueIds
  BY QueueIdsFacts
<1>3. QueueSetOK(queue', pending', link')
  BY <1>2, QueueChangesOK DEF SetThreadEffectivePriority
<1> QED
  BY <1>1, <1>3

\* What OSResumeThread does, on behalf of the guest or of a sleep timer.
LEMMA ResumeThreadOK ==
    ASSUME IInv, NEW t \in Threads, NEW rest \in Seq(Frame), ResumeThread(t, rest)
    PROVE  /\ suspend' \in [Threads -> Nat]
           /\ state' \in [Threads -> States]
           /\ prio' \in [Threads -> 0 .. NumPrio]
           /\ resched' \in BOOLEAN
           /\ QueueSetOK(queue', pending', link')
           /\ stack' \in [Threads -> Seq(Frame)]
<1>1. suspend' \in [Threads -> Nat]
  BY DEF ResumeThread, IInv, TypeOK, ThreadsTypeOK
<1>2. CASE suspend[t] # 1
  <2>1. Goto(rest) /\ KeepQueues /\ UNCHANGED <<state, prio, resched>>
    BY <1>2 DEF ResumeThread
  <2> QED
    BY <1>1, <2>1, GotoType, QueueChangesOK DEF IInv, TypeOK, ThreadsTypeOK, SchedulerTypeOK
<1>3. CASE suspend[t] = 1
  <2> DEFINE p == EffectivePriority(t, owned[t])
             revived == state[t] \in {"READY", "RUNNING"}
             s == <<Fr("propagate", NoQueue, BlockedOn(t), 0), ReschedFrame>> \o rest
  <2>1. /\ state' = IF revived THEN [state EXCEPT ![t] = "READY"] ELSE state
        /\ prio' = IF Terminated(t) THEN prio ELSE [prio EXCEPT ![t] = p]
        /\ resched' = (resched \/ revived)
        /\ CASE revived -> Insert(queue, pending, p, t, p)
             [] state[t] = "WAITING" -> Reinsert(t, p)
             [] OTHER -> KeepQueues
        /\ Goto(s)
    BY <1>3 DEF ResumeThread
  <2>2. p \in 0 .. NumPrio /\ p \in QueueIds
    BY EffectivePriorityType, QueueIdsFacts DEF IInv, TypeOK, ThreadsTypeOK
  <2>3. s \in Seq(Frame)
    <3>1. Fr("propagate", NoQueue, BlockedOn(t), 0) \in Frame
      BY FrameForms, BlockedOnType, QueueIdsFacts, Zero
    <3> QED
      BY <3>1, FrameForms, Push2Type
  <2> HIDE DEF p, s
  <2>4. /\ state' \in [Threads -> States]
        /\ prio' \in [Threads -> 0 .. NumPrio]
        /\ resched' \in BOOLEAN
    BY <2>1, <2>2 DEF IInv, TypeOK, ThreadsTypeOK, SchedulerTypeOK, States
  <2>5. QueueSetOK(queue', pending', link')
    BY <2>1, <2>2, QueueChangesOK
  <2>6. stack' \in [Threads -> Seq(Frame)]
    BY <2>1, <2>3, GotoType
  <2> QED
    BY <1>1, <2>4, <2>5, <2>6
<1> QED
  BY <1>2, <1>3

\* What OSSuspendThread does, on behalf of the guest or of OSSleepTicks.
LEMMA SuspendThreadOK ==
    ASSUME IInv, NEW t \in Threads, NEW rest \in Seq(Frame), SuspendThread(t, rest)
    PROVE  /\ suspend' \in [Threads -> Nat]
           /\ state' \in [Threads -> States]
           /\ prio' \in [Threads -> 0 .. NumPrio]
           /\ resched' \in BOOLEAN
           /\ QueueSetOK(queue', pending', link')
           /\ stack' \in [Threads -> Seq(Frame)]
<1>1. suspend' \in [Threads -> Nat]
  BY DEF SuspendThread, IInv, TypeOK, ThreadsTypeOK
<1>2. CASE suspend[t] # 0
  <2>1. Goto(rest) /\ KeepQueues /\ UNCHANGED <<state, prio, resched>>
    BY <1>2 DEF SuspendThread
  <2> QED
    BY <1>1, <2>1, GotoType, QueueChangesOK DEF IInv, TypeOK, ThreadsTypeOK, SchedulerTypeOK
<1>3. CASE suspend[t] = 0
  <2> DEFINE s == <<Fr("propagate", NoQueue, BlockedOn(t), 0), ReschedFrame>> \o rest
  <2>1. /\ state' = IF state[t] = "RUNNING" THEN [state EXCEPT ![t] = "READY"] ELSE state
        /\ prio' = IF state[t] = "WAITING" THEN [prio EXCEPT ![t] = NumPrio] ELSE prio
        /\ resched' = (resched \/ state[t] = "RUNNING")
        /\ CASE state[t] = "READY" -> Delink(t)
             [] state[t] = "WAITING" -> Reinsert(t, NumPrio)
             [] OTHER -> KeepQueues
        /\ Goto(s)
    BY <1>3 DEF SuspendThread
  <2>2. s \in Seq(Frame)
    <3>1. Fr("propagate", NoQueue, BlockedOn(t), 0) \in Frame
      BY FrameForms, BlockedOnType, QueueIdsFacts, Zero
    <3> QED
      BY <3>1, FrameForms, Push2Type
  <2> HIDE DEF s
  <2>3. /\ state' \in [Threads -> States]
        /\ prio' \in [Threads -> 0 .. NumPrio]
        /\ resched' \in BOOLEAN
    BY <2>1, QueueIdsFacts DEF IInv, TypeOK, ThreadsTypeOK, SchedulerTypeOK, States
  <2>4. QueueSetOK(queue', pending', link')
    BY <2>1, QueueChangesOK
  <2>5. stack' \in [Threads -> Seq(Frame)]
    BY <2>1, <2>2, GotoType
  <2> QED
    BY <1>1, <2>3, <2>4, <2>5
<1> QED
  BY <1>2, <1>3

\* What OSExitThread and OSCancelThread do to a thread that ends.
LEMMA TerminateThreadOK ==
    ASSUME IInv, NEW t \in Threads, NEW rest \in Seq(Frame), TerminateThread(t, rest)
    PROVE  /\ state' \in [Threads -> States]
           /\ listed' \subseteq Threads
           /\ holds' \in [Mutexes -> SUBSET Threads]
           /\ fiberCur' \in Threads \cup {NoThread}
           /\ stack' \in [Threads -> Seq(Frame)]
<1>1. EndingFrames(t, rest) \in Seq(Frame)
  BY FrameForms, Push2Type, QueueIdsFacts DEF EndingFrames
<1>2. stack' \in [Threads -> Seq(Frame)]
  BY <1>1, EmptySeq DEF TerminateThread, IInv, TypeOK, FibersTypeOK
<1> QED
  BY <1>2 DEF TerminateThread, States, IInv, TypeOK, ThreadsTypeOK, MutexesTypeOK, FibersTypeOK

\* SwitchToThread between the fibers of two threads.
LEMMA SwitchToOK ==
    ASSUME IInv, NEW t \in Threads, stack[host] # <<>>, SwitchTo(t)
    PROVE  /\ host' \in Threads
           /\ fiberCur' \in Threads \cup {NoThread}
           /\ prev' \in [Threads -> Threads \cup {NoThread}]
           /\ stack' \in [Threads -> Seq(Frame)]
<1>1. host \in Threads /\ Rest \in Seq(Frame) /\ <<>> \in Seq(Frame)
  BY TopType, HeadTailProperties DEF Rest
<1>2. stack' \in [Threads -> Seq(Frame)]
  BY <1>1, GotoType DEF SwitchTo
<1>3. ResumedThread(t, t, t) \in Threads \cup {NoThread}
  BY DEF ResumedThread, IInv, TypeOK, FibersTypeOK
<1> QED
  BY <1>1, <1>2, <1>3 DEF SwitchTo, IInv, TypeOK, FibersTypeOK

-----------------------------------------------------------------------------
(***************************************************************************)
(* Every step keeps the types and the cover of the mask.  An action keeps  *)
(* them when it keeps the parts named here, each of which is proved from   *)
(* the lemmas above or is left alone.                                      *)
(***************************************************************************)

\* The invariant of the next state, from its parts.
LEMMA PartsOfIInv ==
    ASSUME ThreadsTypeOK', SchedulerTypeOK', MutexesOK', FibersTypeOK',
           QueueSetOK(queue', pending', link')
    PROVE  IInv'
BY DEF IInv, TypeOK, QueuesTypeOK, PendingCoversQueues, QueueSetOK, MutexesOK

\* The typing facts that hold before a step, unfolded.
TypedState ==
    /\ ThreadsTypeOK /\ SchedulerTypeOK /\ MutexesOK /\ FibersTypeOK
    /\ QueueSetOK(queue, pending, link)

\* What the steps below need of the state they start in.
LEMMA TypedStateOfIInv == ASSUME IInv PROVE TypedState
BY QueueSetOfState DEF IInv, TypeOK, TypedState, MutexesOK

\* SelectThread: its refusals, the idle loop, the timers and the dispatch.
LEMMA SelectSteps ==
    ASSUME IInv
    PROVE  /\ \A t \in Threads : SleepTimerFires(t) => IInv'
           /\ SelectRefused => IInv'
           /\ SelectBegins => IInv'
           /\ \A q \in Queues : IdleCallback(q) => IInv'
           /\ IdleEnds => IInv'
           /\ Pick => IInv'
           /\ ReschedStep => IInv'
<1> USE TypedStateOfIInv, PartsOfIInv
<1>1. ASSUME NEW t \in Threads, SleepTimerFires(t) PROVE IInv'
  <2>1. stack[host] \in Seq(Frame) /\ host \in Threads
    BY TopType
  <2>2. CASE state[t] = "READY" /\ suspend[t] >= 1
    <3>1. ResumeThread(t, stack[host])
      BY <1>1, <2>2 DEF SleepTimerFires
    <3> QED
      BY <1>1, <2>1, <3>1, ResumeThreadOK
         DEF SleepTimerFires, Unpark, SameFiber, mutex, TypedState, ThreadsTypeOK,
             SchedulerTypeOK, MutexesOK, MutexesTypeOK, MutexCounted, FibersTypeOK
  <2>3. CASE ~ (state[t] = "READY" /\ suspend[t] >= 1)
    BY <1>1, <2>1, <2>3
       DEF SleepTimerFires, Unpark, SameFiber, mutex, TypedState, ThreadsTypeOK,
           SchedulerTypeOK, MutexesOK, MutexesTypeOK, MutexCounted, FibersTypeOK
  <2> QED
    BY <2>2, <2>3
<1>2. ASSUME SelectRefused PROVE IInv'
  <2>1. stack' \in [Threads -> Seq(Frame)]
    BY <1>2, TopType, GotoType DEF SelectRefused, Return
  <2> QED
    BY <1>2, <2>1
       DEF SelectRefused, Return, SameFiber, thread, sched, mutex, sleep, TypedState,
           ThreadsTypeOK, SchedulerTypeOK, MutexesOK, MutexesTypeOK, MutexCounted, FibersTypeOK
<1>3. ASSUME SelectBegins PROVE IInv'
  <2>1. running \in Threads /\ Rest \in Seq(Frame)
    BY <1>3, TopType DEF SelectBegins, SelectRefuses, TypedState, SchedulerTypeOK
  <2>2. prio[running] \in 0 .. NumPrio
    BY <2>1 DEF TypedState, ThreadsTypeOK
  <2>3. state' \in [Threads -> States] /\ QueueSetOK(queue', pending', link')
    <3>1. CASE state[running] = "RUNNING"
      <4>1. /\ state' = [state EXCEPT ![running] = "READY"]
            /\ queue' = Enqueued(queue, running, prio[running])
            /\ link' = [link EXCEPT ![running] = prio[running]]
            /\ pending' = MarkedMask(pending, prio[running])
        BY <1>3, <3>1 DEF SelectBegins
      <4>2. state' \in [Threads -> States]
        BY <4>1 DEF TypedState, ThreadsTypeOK, States
      <4> QED
        BY <2>1, <2>2, <4>1, <4>2, EnqueuedOK DEF TypedState
    <3>2. CASE state[running] # "RUNNING"
      BY <1>3, <3>2 DEF SelectBegins, TypedState, ThreadsTypeOK
    <3> QED
      BY <3>1, <3>2
  <2>4. /\ resched' \in BOOLEAN
        /\ running' \in Threads \cup {NoThread}
        /\ current' \in Threads \cup {NoThread, IdleContext}
    BY <1>3 DEF SelectBegins, TypedState, SchedulerTypeOK
  <2>5. stack' \in [Threads -> Seq(Frame)]
    <3>1. \A op \in {"pick", "idle"} : <<Fr(op, NoQueue, NoThread, 0)>> \o Rest \in Seq(Frame)
      BY <2>1, FrameForms, PushType
    <3> QED
      BY <1>3, <3>1, GotoType DEF SelectBegins
  <2> QED
    BY <1>3, <2>3, <2>4, <2>5
       DEF SelectBegins, SameFiber, mutex, sleep, TypedState, ThreadsTypeOK,
           SchedulerTypeOK, MutexesOK, MutexesTypeOK, MutexCounted, FibersTypeOK
<1>4. ASSUME NEW q \in Queues, IdleCallback(q) PROVE IInv'
  <2>1. <<WakeFrame(q)>> \o stack[host] \in Seq(Frame)
    BY TopType, FrameForms, PushType, QueueIdsFacts
  <2>2. stack' \in [Threads -> Seq(Frame)]
    BY <1>4, <2>1, GotoType DEF IdleCallback
  <2> QED
    BY <1>4, <2>2
       DEF IdleCallback, SameFiber, thread, sched, mutex, sleep, TypedState,
           ThreadsTypeOK, SchedulerTypeOK, MutexesOK, MutexesTypeOK, MutexCounted, FibersTypeOK
<1>5. ASSUME IdleEnds PROVE IInv'
  <2>1. <<Fr("pick", NoQueue, NoThread, 0)>> \o Rest \in Seq(Frame)
    BY <1>5, TopType, FrameForms, PushType DEF IdleEnds
  <2>2. stack' \in [Threads -> Seq(Frame)]
    BY <1>5, <2>1, GotoType DEF IdleEnds
  <2> QED
    BY <1>5, <2>2
       DEF IdleEnds, SameFiber, thread, mutex, sleep, TypedState,
           ThreadsTypeOK, SchedulerTypeOK, MutexesOK, MutexesTypeOK, MutexCounted, FibersTypeOK, QueueSetOK
<1>6. ASSUME Pick PROVE IInv'
  <2> DEFINE p == Least(pending)
  <2>1. Rest \in Seq(Frame) /\ stack[host] # <<>>
    BY <1>6, TopType DEF Pick, At
  <2>2. pending # {} => p \in pending /\ p \in Prios /\ p \in QueueIds
    BY LeastProperties, QueueIdsFacts DEF TypedState, QueueSetOK
  <2> HIDE DEF p
  <2>3. /\ detached' = detached /\ suspend' = suspend /\ prio' = prio /\ tmutex' = tmutex
        /\ owned' = owned /\ listed' = listed /\ resched' = resched /\ disable' = disable
        /\ UNCHANGED mutex /\ UNCHANGED sleep /\ UNCHANGED holds
    BY <1>6 DEF Pick
  <2> DEFINE Kept == UNCHANGED <<state, running, current>>
             Goal == /\ QueueSetOK(queue', pending', link')
                     /\ state' \in [Threads -> States]
                     /\ running' \in Threads \cup {NoThread}
                     /\ current' \in Threads \cup {NoThread, IdleContext}
                     /\ host' \in Threads
                     /\ fiberCur' \in Threads \cup {NoThread}
                     /\ prev' \in [Threads -> Threads \cup {NoThread}]
                     /\ stack' \in [Threads -> Seq(Frame)]
  <2>4. ASSUME pending = {} PROVE Goal
    <3>1. Return /\ KeepQueues /\ Kept
      BY <1>6, <2>4 DEF Pick
    <3> QED
      BY <2>1, <3>1, GotoType DEF Return, SameFiber, KeepQueues, TypedState, ThreadsTypeOK,
         SchedulerTypeOK, FibersTypeOK
  <2>5. ASSUME pending # {}, queue[p] = <<>> PROVE Goal
    <3>1. pending' = pending \ {p} /\ UNCHANGED <<queue, link, fiber>> /\ Kept
      BY <1>6, <2>5 DEF Pick, p
    <3>2. QueueSetOK(queue', pending', link')
      BY <2>5, <3>1 DEF TypedState, QueueSetOK
    <3> QED
      BY <3>1, <3>2 DEF fiber, TypedState, ThreadsTypeOK, SchedulerTypeOK, FibersTypeOK
  <2>6. ASSUME pending # {}, queue[p] # <<>>, Terminated(Head(queue[p])) PROVE Goal
    <3>1. Delink(Head(queue[p])) /\ Kept /\ UNCHANGED fiber
      BY <1>6, <2>6 DEF Pick, p
    <3>2. Head(queue[p]) \in Threads
      BY <2>2, <2>6, ShrunkOK DEF TypedState
    <3>3. QueueSetOK(queue', pending', link')
      BY <3>1, <3>2, QueueChangesOK
    <3> QED
      BY <3>1, <3>3 DEF fiber, TypedState, ThreadsTypeOK, SchedulerTypeOK, FibersTypeOK
  <2>7. ASSUME pending # {}, queue[p] # <<>>, ~ Terminated(Head(queue[p])) PROVE Goal
    <3> DEFINE t == Head(queue[p])
    <3>1. Dispatch(p)
      BY <1>6, <2>7 DEF Pick, p
    <3>2. t \in Threads /\ QueueSetOK([queue EXCEPT ![p] = Tail(@)], pending, link)
      BY <2>2, <2>7, ShrunkOK DEF TypedState
    <3>3. /\ queue' = [queue EXCEPT ![p] = Tail(@)]
          /\ pending' = IF Tail(queue[p]) = <<>> THEN pending \ {p} ELSE pending
          /\ link' = [link EXCEPT ![t] = NoQueue]
          /\ state' = [state EXCEPT ![t] = "RUNNING"]
          /\ running' = t
          /\ current' = t
          /\ SwitchTo(t)
      BY <3>1 DEF Dispatch, Delinked
    <3> HIDE DEF t
    <3>4. QueueSetOK(queue', pending', link')
      <4>1. queue'[p] = Tail(queue[p])
        BY <2>2, <2>7, <3>3 DEF TypedState, QueueSetOK
      <4> QED
        BY <3>2, <3>3, <4>1 DEF QueueSetOK
    <3>5. state' \in [Threads -> States]
      BY <3>2, <3>3 DEF TypedState, ThreadsTypeOK, States
    <3>6. /\ host' \in Threads
          /\ fiberCur' \in Threads \cup {NoThread}
          /\ prev' \in [Threads -> Threads \cup {NoThread}]
          /\ stack' \in [Threads -> Seq(Frame)]
      BY <2>1, <3>2, <3>3, SwitchToOK
    <3> QED
      BY <3>2, <3>3, <3>4, <3>5, <3>6
  <2>8. Goal
    BY <2>4, <2>5, <2>6, <2>7
  <2> QED
    BY <2>3, <2>8
       DEF mutex, sleep, TypedState, ThreadsTypeOK, SchedulerTypeOK, MutexesOK, MutexesTypeOK, MutexCounted, FibersTypeOK
<1>7. ASSUME ReschedStep PROVE IInv'
  <2>1. Rest \in Seq(Frame) /\ <<SelectFrame(0)>> \o Rest \in Seq(Frame)
    BY <1>7, TopType, FrameForms, PushType DEF ReschedStep
  <2>2. stack' \in [Threads -> Seq(Frame)]
    BY <1>7, <2>1, GotoType DEF ReschedStep
  <2> QED
    BY <1>7, <2>2
       DEF ReschedStep, SameFiber, thread, sched, mutex, sleep, TypedState,
           ThreadsTypeOK, SchedulerTypeOK, MutexesOK, MutexesTypeOK, MutexCounted, FibersTypeOK
<1> QED
  BY <1>1, <1>2, <1>3, <1>4, <1>5, <1>6, <1>7

\* PromoteThreadPriority and PropagateMutexOwnerPriority.
LEMMA InheritanceSteps ==
    ASSUME IInv
    PROVE  /\ PromoteStep => IInv'
           /\ PropagateStep => IInv'
<1> USE TypedStateOfIInv, PartsOfIInv
<1>1. ASSUME PromoteStep PROVE IInv'
  <2> DEFINE t == Top.t
             n == Top.n
             done == t = NoThread \/ suspend[t] > 0 \/ prio[t] <= n
  <2>1. Top \in Frame /\ Rest \in Seq(Frame)
    BY <1>1, TopType DEF PromoteStep
  <2>2. t \in Threads \cup {NoThread} /\ n \in 0 .. NumPrio
    BY <2>1 DEF Frame
  <2>3. /\ UNCHANGED <<state, detached, suspend, tmutex, owned, listed, disable, running,
                       current, mutex, sleep, holds>>
        /\ UNCHANGED <<host, fiberCur, prev>>
    BY <1>1 DEF PromoteStep, Return, SameFiber
  <2>4. /\ prio' \in [Threads -> 0 .. NumPrio]
        /\ resched' \in BOOLEAN
        /\ QueueSetOK(queue', pending', link')
        /\ stack' \in [Threads -> Seq(Frame)]
    <3>1. CASE done
      <4>1. Return /\ KeepQueues /\ UNCHANGED <<prio, resched>>
        BY <1>1, <3>1 DEF PromoteStep
      <4> QED
        BY <2>1, <4>1, GotoType
           DEF Return, KeepQueues, TypedState, ThreadsTypeOK, SchedulerTypeOK
    <3>2. CASE ~ done
      <4>1. /\ SetThreadEffectivePriority(t, n)
            /\ Goto(<<Fr("promote", NoQueue, BlockedOn(t), n)>> \o Rest)
        BY <1>1, <3>2 DEF PromoteStep
      <4>2. t \in Threads
        BY <2>2, <3>2
      <4>3. <<Fr("promote", NoQueue, BlockedOn(t), n)>> \o Rest \in Seq(Frame)
        BY <2>1, <2>2, <4>2, BlockedOnType, FrameForms, PushType
      <4> QED
        BY <2>2, <4>1, <4>2, <4>3, GotoType, SetThreadEffectivePriorityOK
    <3> QED
      BY <3>1, <3>2
  <2> QED
    BY <2>3, <2>4
       DEF mutex, sleep, TypedState, ThreadsTypeOK, SchedulerTypeOK, MutexesOK, MutexesTypeOK, MutexCounted, FibersTypeOK
<1>2. ASSUME PropagateStep PROVE IInv'
  <2> DEFINE t == Top.t
             p == EffectivePriority(t, owned[t])
             done == t = NoThread \/ suspend[t] > 0 \/ prio[t] = p
  <2>1. Top \in Frame /\ Rest \in Seq(Frame)
    BY <1>2, TopType DEF PropagateStep
  <2>2. t \in Threads \cup {NoThread}
    BY <2>1 DEF Frame
  <2>3. /\ UNCHANGED <<state, detached, suspend, tmutex, owned, listed, disable, running,
                       current, mutex, sleep, holds>>
        /\ UNCHANGED <<host, fiberCur, prev>>
    BY <1>2 DEF PropagateStep, Return, SameFiber
  <2>4. /\ prio' \in [Threads -> 0 .. NumPrio]
        /\ resched' \in BOOLEAN
        /\ QueueSetOK(queue', pending', link')
        /\ stack' \in [Threads -> Seq(Frame)]
    <3>1. CASE done
      <4>1. Return /\ KeepQueues /\ UNCHANGED <<prio, resched>>
        BY <1>2, <3>1 DEF PropagateStep
      <4> QED
        BY <2>1, <4>1, GotoType
           DEF Return, KeepQueues, TypedState, ThreadsTypeOK, SchedulerTypeOK
    <3>2. CASE ~ done
      <4>1. /\ SetThreadEffectivePriority(t, p)
            /\ Goto(<<Fr("propagate", NoQueue, BlockedOn(t), 0)>> \o Rest)
        BY <1>2, <3>2 DEF PropagateStep
      <4>2. t \in Threads
        BY <2>2, <3>2
      <4>3. p \in 0 .. NumPrio
        BY <4>2, EffectivePriorityType DEF TypedState, ThreadsTypeOK
      <4>4. <<Fr("propagate", NoQueue, BlockedOn(t), 0)>> \o Rest \in Seq(Frame)
        BY <2>1, <4>2, BlockedOnType, FrameForms, PushType, Zero
      <4> QED
        BY <4>1, <4>2, <4>3, <4>4, GotoType, SetThreadEffectivePriorityOK
    <3> QED
      BY <3>1, <3>2
  <2> QED
    BY <2>3, <2>4
       DEF mutex, sleep, TypedState, ThreadsTypeOK, SchedulerTypeOK, MutexesOK, MutexesTypeOK, MutexCounted, FibersTypeOK
<1> QED
  BY <1>1, <1>2

\* OSSleepThread and the loop of OSLockMutex.
LEMMA BlockingSteps ==
    ASSUME IInv
    PROVE  /\ SleepStep => IInv'
           /\ SleptStep => IInv'
           /\ LockStep => IInv'
<1> USE TypedStateOfIInv, PartsOfIInv
<1>1. ASSUME SleepStep PROVE IInv'
  <2> DEFINE t == IF running = NoThread THEN Main ELSE running
             parked == <<SelectFrame(0), Fr("slept", Top.q, t, 0)>> \o Rest
  <2>1. Top.q \in WaitQueues /\ Rest \in Seq(Frame)
    BY <1>1, TopType DEF SleepStep, Frame
  <2>2. t \in Threads /\ Top.q \in QueueIds
    BY <2>1, QueueIdsFacts, ConstantsAssumption DEF TypedState, SchedulerTypeOK
  <2>3. parked \in Seq(Frame)
    BY <2>1, <2>2, FrameForms, Push2Type
  <2>4. /\ UNCHANGED <<detached, suspend, prio, tmutex, owned, listed, disable, mutex, sleep, holds>>
        /\ UNCHANGED <<host, fiberCur, prev>>
        /\ running' = t
        /\ current' = IF running = NoThread THEN Main ELSE current
        /\ IF disable # 0
           THEN Goto(Rest) /\ KeepQueues /\ UNCHANGED <<state, resched>>
           ELSE /\ state' = [state EXCEPT ![t] = "WAITING"]
                /\ Insert(queue, pending, Top.q, t, prio[t])
                /\ resched' = TRUE
                /\ Goto(parked)
    BY <1>1 DEF SleepStep, SameFiber
  <2> HIDE DEF t, parked
  <2>5. QueueSetOK(queue', pending', link')
    BY <2>2, <2>4, QueueChangesOK
  <2>6. stack' \in [Threads -> Seq(Frame)]
    BY <2>1, <2>3, <2>4, GotoType
  <2>7. state' \in [Threads -> States] /\ resched' \in BOOLEAN
    BY <2>4 DEF TypedState, ThreadsTypeOK, SchedulerTypeOK, States
  <2>8. current' \in Threads \cup {NoThread, IdleContext}
    BY <2>4, ConstantsAssumption DEF TypedState, SchedulerTypeOK
  <2> QED
    BY <2>2, <2>4, <2>5, <2>6, <2>7, <2>8
       DEF mutex, sleep, TypedState, ThreadsTypeOK, SchedulerTypeOK, MutexesOK, MutexesTypeOK, MutexCounted, FibersTypeOK
<1>2. ASSUME SleptStep PROVE IInv'
  <2>1. Top.t \in Threads /\ Rest \in Seq(Frame)
    BY <1>2, TopType DEF SleptStep, Frame
  <2>2. stack' \in [Threads -> Seq(Frame)]
    BY <1>2, <2>1, GotoType DEF SleptStep, Return
  <2>3. QueueSetOK(queue', pending', link') /\ state' \in [Threads -> States]
    <3>1. QueueSetOK(Removed(Top.t), RemovedMask(Top.t), Delinked(Top.t))
      BY <2>1, RemovedOK
    <3>2. QueueSetOK(Removed(Top.t), pending, Delinked(Top.t))
      BY <3>1 DEF QueueSetOK, RemovedMask, ClearedMask, TypedState
    <3> QED
      BY <1>2, <2>1, <3>2 DEF SleptStep, TypedState, ThreadsTypeOK, States
  <2> QED
    BY <1>2, <2>2, <2>3
       DEF SleptStep, Return, SameFiber, mutex, sleep, TypedState, ThreadsTypeOK,
           SchedulerTypeOK, MutexesOK, MutexesTypeOK, MutexCounted, FibersTypeOK
<1>3. ASSUME LockStep PROVE IInv'
  <2> DEFINE m == Top.q
             t == Top.t
             again == <<Fr("promote", NoQueue, owner[m], prio[t]), Fr("sleep", m, NoThread, 0)>>
                      \o stack[host]
  <2>1. m \in Mutexes /\ t \in Threads /\ Rest \in Seq(Frame) /\ stack[host] \in Seq(Frame)
    BY <1>3, TopType DEF LockStep, Frame
  <2>2. again \in Seq(Frame)
    <3>1. owner[m] \in Threads \cup {NoThread} /\ prio[t] \in 0 .. NumPrio
      BY <2>1 DEF TypedState, MutexesOK, MutexesTypeOK, MutexCounted, ThreadsTypeOK
    <3>2. Fr("sleep", m, NoThread, 0) \in Frame
      BY <2>1, FrameForms, QueueIdsFacts
    <3> QED
      BY <2>1, <3>1, <3>2, FrameForms, Push2Type
  <2>3. /\ UNCHANGED <<state, detached, suspend, prio, link, listed, sched, sleep>>
        /\ UNCHANGED <<host, fiberCur, prev>>
        /\ \/ /\ owner' = [owner EXCEPT ![m] = t]
              /\ count' = [count EXCEPT ![m] = @ + 1]
              /\ owned' = IF owner[m] = t THEN owned ELSE [owned EXCEPT ![t] = Append(@, m)]
              /\ tmutex' = [tmutex EXCEPT ![t] = NoQueue]
              /\ holds' = [holds EXCEPT ![m] = @ \cup {host}]
              /\ Goto(Rest)
           \/ /\ tmutex' = [tmutex EXCEPT ![t] = m]
              /\ Goto(again)
              /\ UNCHANGED <<owner, count, owned, holds>>
    BY <1>3 DEF LockStep, SameFiber
  <2> HIDE DEF m, t, again
  <2>4. stack' \in [Threads -> Seq(Frame)]
    BY <2>1, <2>2, <2>3, GotoType
  <2>5. tmutex' \in [Threads -> Mutexes \cup {NoQueue}] /\ owned' \in [Threads -> Seq(Mutexes)]
    <3>1. Append(owned[t], m) \in Seq(Mutexes)
      BY <2>1, AppendProperties DEF TypedState, ThreadsTypeOK
    <3> QED
      BY <2>1, <2>3, <3>1 DEF TypedState, ThreadsTypeOK
  <2>6. MutexesOK'
    <3>1. owner' \in [Mutexes -> Threads \cup {NoThread}]
      BY <2>1, <2>3 DEF TypedState, MutexesOK, MutexesTypeOK, MutexCounted
    <3>2. count' \in [Mutexes -> Nat]
      BY <2>1, <2>3 DEF TypedState, MutexesOK, MutexesTypeOK, MutexCounted
    <3>3. holds' \in [Mutexes -> SUBSET Threads]
      <4>1. holds[m] \cup {host} \in SUBSET Threads
        BY <2>1 DEF TypedState, MutexesOK, MutexesTypeOK, MutexCounted, FibersTypeOK
      <4> QED
        BY <2>1, <2>3, <4>1 DEF TypedState, MutexesOK, MutexesTypeOK, MutexCounted
    <3>4. MutexCounted'
      BY <2>1, <2>3, AddressesAssumption DEF TypedState, MutexesOK, MutexesTypeOK, MutexCounted
    <3> QED
      BY <3>1, <3>2, <3>3, <3>4 DEF MutexesOK, MutexesTypeOK, MutexCounted
  <2> QED
    BY <2>3, <2>4, <2>5, <2>6
       DEF sched, sleep, TypedState, ThreadsTypeOK, SchedulerTypeOK, FibersTypeOK
<1> QED
  BY <1>1, <1>2, <1>3

\* OSWakeupThread and its variant without a switch.
LEMMA WakingSteps ==
    ASSUME IInv
    PROVE  /\ WakeStep => IInv'
           /\ WakeEnds => IInv'
<1> USE TypedStateOfIInv, PartsOfIInv
<1>1. ASSUME WakeStep PROVE IInv'
  <2> DEFINE q == Top.q
             t == Head(queue[q])
             rest == [queue EXCEPT ![q] = Tail(@)]
             runs == ~ Terminated(t) /\ suspend[t] < 1
             p == IF prio[t] = NumPrio THEN NumPrio - 1 ELSE prio[t]
             top == [Top EXCEPT !.op = Readied(@)]
  <2>1. /\ q \in WaitQueues /\ Top \in Frame /\ Rest \in Seq(Frame) /\ stack[host] \in Seq(Frame)
        /\ Top.op \in {"wake", "wakeResched", "wakeFiber"}
    BY <1>1, TopType DEF WakeStep, Frame
  <2>2. q \in QueueIds /\ queue[q] # <<>>
    BY <1>1, <2>1, QueueIdsFacts DEF WakeStep
  <2>3. t \in Threads /\ QueueSetOK(rest, pending, link)
    BY <2>2, ShrunkOK DEF TypedState
  <2>4. p \in 0 .. NumPrio
    <3>1. prio[t] \in 0 .. NumPrio
      BY <2>3 DEF TypedState, ThreadsTypeOK
    <3> HIDE DEF t
    <3> QED
      BY <3>1, QueueIdsFacts
  <2>5. top \in Frame
    BY <2>1 DEF Frame, FrameOps, Readied
  <2>6. /\ UNCHANGED <<detached, suspend, prio, tmutex, owned, listed, disable, running, current,
                       mutex, sleep, holds>>
        /\ UNCHANGED <<host, fiberCur, prev>>
        /\ state' = IF Terminated(t) THEN state ELSE [state EXCEPT ![t] = "READY"]
        /\ queue' = IF runs THEN Enqueued(rest, t, p) ELSE rest
        /\ pending' = IF runs THEN MarkedMask(pending, p) ELSE pending
        /\ link' = CASE runs -> [link EXCEPT ![t] = p]
                    [] ~ runs /\ (Terminated(t) \/ Top.op = "wakeFiber") -> Delinked(t)
                    [] OTHER -> link
        /\ resched' = (resched \/ runs)
        /\ Goto(IF runs THEN <<top>> \o Rest ELSE stack[host])
    BY <1>1 DEF WakeStep, SameFiber
  <2> HIDE DEF t, rest, runs, p, top, q
  <2>7. QueueSetOK(queue', pending', link')
    <3>1. CASE runs
      BY <2>3, <2>4, <2>6, <3>1, EnqueuedOK
    <3>2. CASE ~ runs
      BY <2>3, <2>6, <3>2 DEF QueueSetOK, Delinked
    <3> QED
      BY <3>1, <3>2
  <2>8. stack' \in [Threads -> Seq(Frame)]
    <3>1. (IF runs THEN <<top>> \o Rest ELSE stack[host]) \in Seq(Frame)
      BY <2>1, <2>5, PushType
    <3> QED
      BY <2>6, <3>1, GotoType
  <2>9. state' \in [Threads -> States] /\ resched' \in BOOLEAN
    BY <2>6 DEF TypedState, ThreadsTypeOK, SchedulerTypeOK, States
  <2> QED
    BY <2>6, <2>7, <2>8, <2>9
       DEF mutex, sleep, TypedState, ThreadsTypeOK, SchedulerTypeOK, MutexesOK, MutexesTypeOK, MutexCounted, FibersTypeOK
<1>2. ASSUME WakeEnds PROVE IInv'
  <2>1. Rest \in Seq(Frame) /\ <<SelectFrame(0)>> \o Rest \in Seq(Frame)
    BY <1>2, TopType, FrameForms, PushType DEF WakeEnds
  <2>2. stack' \in [Threads -> Seq(Frame)]
    BY <1>2, <2>1, GotoType DEF WakeEnds
  <2> QED
    BY <1>2, <2>2
       DEF WakeEnds, SameFiber, thread, sched, mutex, sleep, TypedState,
           ThreadsTypeOK, SchedulerTypeOK, MutexesOK, MutexesTypeOK, MutexCounted, FibersTypeOK
<1> QED
  BY <1>1, <1>2

\* The tails of OSExitThread, OSJoinThread, OSSleepTicks, FiberProc and of a
\* deferred callback.
LEMMA EndingSteps ==
    ASSUME IInv
    PROVE  /\ UnlockAllStep => IInv'
           /\ ExitedStep => IInv'
           /\ JoinedStep => IInv'
           /\ TickedStep => IInv'
           /\ EndDeferredStep => IInv'
           /\ FiberEndStep => IInv'
<1> USE TypedStateOfIInv, PartsOfIInv
<1>1. ASSUME UnlockAllStep PROVE IInv'
  <2> DEFINE t == Top.t
             ms == owned[t]
  <2>1. t \in Threads /\ Rest \in Seq(Frame) /\ stack[host] \in Seq(Frame)
    BY <1>1, TopType DEF UnlockAllStep, Frame
  <2>2. ms \in Seq(Mutexes)
    BY <2>1 DEF TypedState, ThreadsTypeOK
  <2>3. /\ UNCHANGED <<state, detached, suspend, prio, link, tmutex, listed, sched, sleep, holds>>
        /\ UNCHANGED <<host, fiberCur, prev>>
    BY <1>1 DEF UnlockAllStep, SameFiber
  <2>4. /\ owned' \in [Threads -> Seq(Mutexes)]
        /\ owner' \in [Mutexes -> Threads \cup {NoThread}]
        /\ count' \in [Mutexes -> Nat]
        /\ MutexCounted'
        /\ stack' \in [Threads -> Seq(Frame)]
    <3>1. CASE ms = <<>>
      <4>1. Goto(Rest) /\ UNCHANGED <<owned, owner, count>>
        BY <1>1, <3>1 DEF UnlockAllStep
      <4> QED
        BY <2>1, <4>1, GotoType DEF TypedState, ThreadsTypeOK, MutexesOK, MutexesTypeOK, MutexCounted
    <3>2. CASE ms # <<>>
      <4>1. /\ owned' = [owned EXCEPT ![t] = Tail(@)]
            /\ owner' = [owner EXCEPT ![Head(ms)] = NoThread]
            /\ count' = [count EXCEPT ![Head(ms)] = 0]
            /\ Goto(<<WakeFrame(Head(ms))>> \o stack[host])
        BY <1>1, <3>2 DEF UnlockAllStep
      <4>2. Head(ms) \in Mutexes /\ Tail(ms) \in Seq(Mutexes)
        BY <2>2, <3>2, HeadTailProperties
      <4>3. <<WakeFrame(Head(ms))>> \o stack[host] \in Seq(Frame)
        BY <2>1, <4>2, FrameForms, PushType, QueueIdsFacts
      <4>4. stack' \in [Threads -> Seq(Frame)]
        BY <4>1, <4>3, GotoType
      <4>5. owned' \in [Threads -> Seq(Mutexes)]
        BY <2>1, <4>1, <4>2 DEF TypedState, ThreadsTypeOK
      <4> HIDE DEF ms
      <4>6. owner' \in [Mutexes -> Threads \cup {NoThread}] /\ count' \in [Mutexes -> Nat]
        BY <4>1, <4>2 DEF TypedState, MutexesOK, MutexesTypeOK
      <4>7. MutexCounted'
        BY <4>1, <4>2 DEF TypedState, MutexesOK, MutexesTypeOK, MutexCounted
      <4> QED
        BY <4>4, <4>5, <4>6, <4>7
    <3> QED
      BY <3>1, <3>2
  <2> QED
    BY <2>3, <2>4
       DEF sched, sleep, TypedState, ThreadsTypeOK, SchedulerTypeOK, MutexesOK, MutexesTypeOK, MutexCounted, FibersTypeOK
<1>2. ASSUME ExitedStep PROVE IInv'
  <2>1. <<SelectFrame(0)>> \o Rest \in Seq(Frame)
    BY <1>2, TopType, FrameForms, PushType DEF ExitedStep
  <2>2. stack' \in [Threads -> Seq(Frame)]
    BY <1>2, <2>1, GotoType DEF ExitedStep
  <2> QED
    BY <1>2, <2>2
       DEF ExitedStep, SameFiber, thread, mutex, sleep, TypedState,
           ThreadsTypeOK, SchedulerTypeOK, MutexesOK, MutexesTypeOK, MutexCounted, FibersTypeOK
<1>3. ASSUME JoinedStep PROVE IInv'
  <2>1. Top.t \in Threads /\ Rest \in Seq(Frame)
    BY <1>3, TopType DEF JoinedStep, Frame
  <2>2. stack' \in [Threads -> Seq(Frame)]
    BY <1>3, <2>1, GotoType DEF JoinedStep, Return
  <2>3. state' \in [Threads -> States] /\ listed' \subseteq Threads
    BY <1>3, <2>1 DEF JoinedStep, Collect, TypedState, ThreadsTypeOK, States
  <2> QED
    BY <1>3, <2>2, <2>3
       DEF JoinedStep, Return, SameFiber, sched, mutex, sleep, TypedState,
           ThreadsTypeOK, SchedulerTypeOK, MutexesOK, MutexesTypeOK, MutexCounted, FibersTypeOK
<1>4. ASSUME TickedStep PROVE IInv'
  <2> DEFINE t == Top.t
  <2>1. t \in Threads /\ Rest \in Seq(Frame)
    BY <1>4, TopType DEF TickedStep, Frame
  <2>2. stack' \in [Threads -> Seq(Frame)]
    BY <1>4, <2>1, GotoType DEF TickedStep, Return
  <2>3. suspend' \in [Threads -> Nat] /\ state' \in [Threads -> States]
    <3>1. CASE suspend[t] > 0
      <4>1. suspend[t] \in Nat /\ suspend[t] - 1 \in Nat
        BY <2>1, <3>1 DEF TypedState, ThreadsTypeOK
      <4> QED
        BY <1>4, <3>1, <4>1 DEF TickedStep, TypedState, ThreadsTypeOK, States
    <3>2. CASE ~ (suspend[t] > 0)
      BY <1>4, <3>2 DEF TickedStep, TypedState, ThreadsTypeOK
    <3> QED
      BY <3>1, <3>2
  <2>4. timers' \subseteq Threads /\ parks' \subseteq Threads
    BY <1>4 DEF TickedStep, Unpark, sleep, TypedState, FibersTypeOK
  <2> QED
    BY <1>4, <2>2, <2>3, <2>4
       DEF TickedStep, Return, SameFiber, sched, mutex, TypedState,
           ThreadsTypeOK, SchedulerTypeOK, MutexesOK, MutexesTypeOK, MutexCounted, FibersTypeOK
<1>5. ASSUME EndDeferredStep PROVE IInv'
  <2>1. Rest \in Seq(Frame) /\ <<ReschedFrame>> \o Rest \in Seq(Frame)
    BY <1>5, TopType, FrameForms, PushType DEF EndDeferredStep
  <2>2. stack' \in [Threads -> Seq(Frame)]
    BY <1>5, <2>1, GotoType DEF EndDeferredStep
  <2>3. disable' \in Nat
    BY <1>5 DEF EndDeferredStep, TypedState, SchedulerTypeOK
  <2> QED
    BY <1>5, <2>2, <2>3
       DEF EndDeferredStep, SameFiber, thread, mutex, sleep, TypedState,
           ThreadsTypeOK, SchedulerTypeOK, MutexesOK, MutexesTypeOK, MutexCounted, FibersTypeOK
<1>6. ASSUME FiberEndStep PROVE IInv'
  <2>1. stack' \in [Threads -> Seq(Frame)]
    BY <1>6, GotoType, EmptySeq DEF FiberEndStep
  <2>2. fiberCur' \in Threads \cup {NoThread} /\ host' \in Threads
    BY <1>6, ConstantsAssumption DEF FiberEndStep, ResumedThread, TypedState, FibersTypeOK
  <2>3. running' \in Threads \cup {NoThread} /\ current' \in Threads \cup {NoThread, IdleContext}
    BY <1>6 DEF FiberEndStep, TypedState, SchedulerTypeOK
  <2> QED
    BY <1>6, <2>1, <2>2, <2>3
       DEF FiberEndStep, thread, mutex, sleep, TypedState,
           ThreadsTypeOK, SchedulerTypeOK, MutexesOK, MutexesTypeOK, MutexCounted, FibersTypeOK
<1> QED
  BY <1>1, <1>2, <1>3, <1>4, <1>5, <1>6

\* The guest creates, resumes or suspends a thread, sleeps or wakes.
LEMMA ThreadCalls ==
    ASSUME IInv
    PROVE  /\ \A t \in Threads, d \in BOOLEAN : OSCreateThread(t, d) => IInv'
           /\ \A t \in Threads : OSResumeThread(t) => IInv'
           /\ \A t \in Threads : OSSuspendThread(t) => IInv'
           /\ OSSleepTicks => IInv'
           /\ OSThreadCall => IInv'
<1> USE TypedStateOfIInv, PartsOfIInv
<1>0. <<>> \in Seq(Frame)
  BY EmptySeq
<1>1. ASSUME NEW t \in Threads, NEW d \in BOOLEAN, OSCreateThread(t, d) PROVE IInv'
  <2>1. t \in QueueIds /\ <<>> \in Seq(Threads) /\ <<>> \in Seq(Mutexes)
    BY QueueIdsFacts, EmptySeq
  <2>2. QueueSetOK(queue', pending', link')
    BY <1>1, <2>1 DEF OSCreateThread, TypedState, QueueSetOK
  <2>3. stack' \in [Threads -> Seq(Frame)] /\ prev' \in [Threads -> Threads \cup {NoThread}]
    BY <1>0, <1>1 DEF OSCreateThread, TypedState, FibersTypeOK
  <2>4. ThreadsTypeOK'
    <3>1. BasePrio[t] \in 0 .. NumPrio
      BY ConstantsAssumption DEF Prios
    <3>2. state' \in [Threads -> States] /\ detached' \in [Threads -> BOOLEAN]
      BY <1>1 DEF OSCreateThread, TypedState, ThreadsTypeOK, States
    <3>3. suspend' \in [Threads -> Nat] /\ prio' \in [Threads -> 0 .. NumPrio]
      BY <1>1, <3>1 DEF OSCreateThread, TypedState, ThreadsTypeOK
    <3>4. tmutex' \in [Threads -> Mutexes \cup {NoQueue}] /\ owned' \in [Threads -> Seq(Mutexes)]
      BY <1>1, <2>1 DEF OSCreateThread, TypedState, ThreadsTypeOK
    <3>5. listed' \subseteq Threads
      BY <1>1 DEF OSCreateThread, TypedState, ThreadsTypeOK
    <3> QED
      BY <3>2, <3>3, <3>4, <3>5 DEF ThreadsTypeOK
  <2> QED
    BY <1>1, <2>2, <2>3, <2>4
       DEF OSCreateThread, mutex, sleep, TypedState, SchedulerTypeOK, MutexesOK, MutexesTypeOK, MutexCounted, FibersTypeOK
<1>2. ASSUME NEW t \in Threads, OSResumeThread(t) PROVE IInv'
  <2>1. ResumeThread(t, <<>>)
    BY <1>2 DEF OSResumeThread
  <2>2. timers' \subseteq Threads /\ parks' \subseteq Threads
    BY <1>2 DEF OSResumeThread, Unpark, sleep, TypedState, FibersTypeOK
  <2> QED
    BY <1>0, <1>2, <2>1, <2>2, ResumeThreadOK
       DEF OSResumeThread, SameFiber, mutex, TypedState, ThreadsTypeOK,
           SchedulerTypeOK, MutexesOK, MutexesTypeOK, MutexCounted, FibersTypeOK
<1>3. ASSUME NEW t \in Threads, OSSuspendThread(t) PROVE IInv'
  <2>1. SuspendThread(t, <<>>)
    BY <1>3 DEF OSSuspendThread
  <2> QED
    BY <1>0, <1>3, <2>1, SuspendThreadOK
       DEF OSSuspendThread, SameFiber, mutex, sleep, TypedState, ThreadsTypeOK,
           SchedulerTypeOK, MutexesOK, MutexesTypeOK, MutexCounted, FibersTypeOK
<1>4. ASSUME OSSleepTicks PROVE IInv'
  <2> DEFINE t == Sleeper
             rest == <<Fr("ticked", NoQueue, t, 0)>>
  <2>1. t \in Threads
    BY <1>4 DEF OSSleepTicks, Sleeper, TypedState, SchedulerTypeOK, FibersTypeOK
  <2>2. rest \in Seq(Frame)
    <3>1. Fr("ticked", NoQueue, t, 0) \in Frame
      BY <2>1, FrameForms
    <3> QED
      BY <3>1
  <2>3. SuspendThread(t, rest)
    BY <1>4 DEF OSSleepTicks
  <2>4. timers' \subseteq Threads /\ parks' \subseteq Threads
    BY <1>4, <2>1 DEF OSSleepTicks, TypedState, FibersTypeOK
  <2> HIDE DEF rest
  <2> QED
    BY <1>4, <2>1, <2>2, <2>3, <2>4, SuspendThreadOK
       DEF OSSleepTicks, SameFiber, mutex, TypedState, ThreadsTypeOK,
           SchedulerTypeOK, MutexesOK, MutexesTypeOK, MutexCounted, FibersTypeOK
<1>5. ASSUME OSThreadCall PROVE IInv'
  <2>1. \A q \in Queues : <<Fr("sleep", q, NoThread, 0)>> \in Seq(Frame) /\ <<WakeFrame(q)>> \in Seq(Frame)
    <3>1. ASSUME NEW q \in Queues PROVE Fr("sleep", q, NoThread, 0) \in Frame /\ WakeFrame(q) \in Frame
      BY FrameForms, QueueIdsFacts
    <3> QED
      BY <3>1
  <2>2. <<SelectFrame(1)>> \in Seq(Frame)
    BY FrameForms
  <2>3. stack' \in [Threads -> Seq(Frame)]
    BY <1>5, <2>1, <2>2, GotoType DEF OSThreadCall, CallHandler
  <2> QED
    BY <1>5, <2>3
       DEF OSThreadCall, SameFiber, thread, sched, mutex, sleep, TypedState, ThreadsTypeOK,
           SchedulerTypeOK, MutexesOK, MutexesTypeOK, MutexCounted, FibersTypeOK
<1> QED
  BY <1>1, <1>2, <1>3, <1>4, <1>5

\* The guest calls OSLockMutex or OSUnlockMutex.
LEMMA MutexCalls ==
    ASSUME IInv
    PROVE  /\ \A m \in Mutexes : OSLockMutex(m) => IInv'
           /\ \A m \in Mutexes : OSUnlockMutex(m) => IInv'
<1> USE TypedStateOfIInv, PartsOfIInv
<1>1. ASSUME NEW m \in Mutexes, OSLockMutex(m) PROVE IInv'
  <2>1. holds' \in [Mutexes -> SUBSET Threads]
    <3>1. holds[m] \cup {host} \in SUBSET Threads
      BY DEF TypedState, MutexesOK, MutexesTypeOK, MutexCounted, FibersTypeOK
    <3> QED
      BY <1>1, <3>1 DEF OSLockMutex, TypedState, MutexesOK, MutexesTypeOK, MutexCounted
  <2>2. stack' \in [Threads -> Seq(Frame)]
    <3>1. CASE running = NoThread
      BY <1>1, <3>1 DEF OSLockMutex, TypedState, FibersTypeOK
    <3>2. CASE running # NoThread
      <4>1. <<Fr("lock", m, running, 0)>> \in Seq(Frame)
        <5>1. running \in Threads
          BY <3>2 DEF TypedState, SchedulerTypeOK
        <5>2. Fr("lock", m, running, 0) \in Frame
          BY <5>1, FrameForms
        <5> QED
          BY <5>2
      <4> QED
        BY <1>1, <3>2, <4>1, GotoType DEF OSLockMutex
    <3> QED
      BY <3>1, <3>2
  <2> QED
    BY <1>1, <2>1, <2>2
       DEF OSLockMutex, SameFiber, thread, sched, mutex, sleep, TypedState, ThreadsTypeOK,
           SchedulerTypeOK, MutexesOK, MutexesTypeOK, MutexCounted, FibersTypeOK
<1>2. ASSUME NEW m \in Mutexes, OSUnlockMutex(m) PROVE IInv'
  <2> DEFINE t == running
             locked == t # NoThread /\ owner[m] = t
             freed == locked /\ count[m] = 1
             others == Unlink(owned[t], m)
  <2>1. /\ count' = IF locked THEN [count EXCEPT ![m] = @ - 1] ELSE count
        /\ owner' = IF freed THEN [owner EXCEPT ![m] = NoThread] ELSE owner
        /\ owned' = IF freed THEN [owned EXCEPT ![t] = others] ELSE owned
        /\ prio' = IF freed /\ prio[t] < BasePrio[t]
                   THEN [prio EXCEPT ![t] = EffectivePriority(t, others)] ELSE prio
        /\ holds' = IF locked /\ ~ freed THEN holds ELSE [holds EXCEPT ![m] = @ \ {host}]
        /\ Goto(IF freed THEN <<WakeFrame(m)>> ELSE <<>>)
        /\ UNCHANGED <<host, fiberCur, prev>>
        /\ UNCHANGED <<state, detached, suspend, link, tmutex, listed, sched, sleep>>
    BY <1>2 DEF OSUnlockMutex, SameFiber
  <2>2. locked => t \in Threads /\ others \in Seq(Mutexes)
    BY UnlinkType DEF TypedState, ThreadsTypeOK, SchedulerTypeOK
  <2>3. locked => count[m] \in Nat \ {0}
    BY DEF TypedState, MutexesOK, MutexesTypeOK, MutexCounted
  <2>4. stack' \in [Threads -> Seq(Frame)]
    <3>1. WakeFrame(m) \in Frame
      BY FrameForms, QueueIdsFacts
    <3>2. <<WakeFrame(m)>> \in Seq(Frame) /\ <<>> \in Seq(Frame)
      BY <3>1
    <3> QED
      BY <2>1, <3>2, GotoType
  <2>5. MutexesOK'
    <3>1. CASE ~ locked
      BY <2>1, <3>1 DEF TypedState, MutexesOK, MutexesTypeOK, MutexCounted
    <3>2. CASE locked /\ ~ freed
      BY <2>1, <2>3, <3>2 DEF TypedState, MutexesOK, MutexesTypeOK, MutexCounted
    <3>3. CASE freed
      BY <2>1, <2>3, <3>3 DEF TypedState, MutexesOK, MutexesTypeOK, MutexCounted
    <3> QED
      BY <3>1, <3>2, <3>3
  <2>6. prio' \in [Threads -> 0 .. NumPrio] /\ owned' \in [Threads -> Seq(Mutexes)]
    <3>1. locked => EffectivePriority(t, others) \in 0 .. NumPrio
      BY <2>2, EffectivePriorityType
    <3> HIDE DEF others
    <3> QED
      BY <2>1, <2>2, <3>1 DEF TypedState, ThreadsTypeOK
  <2> QED
    BY <2>1, <2>4, <2>5, <2>6
       DEF sched, sleep, TypedState, ThreadsTypeOK, SchedulerTypeOK, FibersTypeOK
<1> QED
  BY <1>1, <1>2

\* The guest ends, joins or detaches a thread, or its entry function returns.
LEMMA LifeCycleCalls ==
    ASSUME IInv
    PROVE  /\ OSExitThread => IInv'
           /\ \A t \in Threads : OSCancelThread(t) => IInv'
           /\ \A t \in Threads : OSJoinThread(t) => IInv'
           /\ \A t \in Threads : OSDetachThread(t) => IInv'
           /\ FiberReturns => IInv'
<1> USE TypedStateOfIInv, PartsOfIInv
<1>1. ASSUME OSExitThread PROVE IInv'
  <2> DEFINE rest == <<Fr("exited", NoQueue, NoThread, 0)>>
  <2>1. rest \in Seq(Frame)
    BY FrameForms
  <2>2. running \in Threads /\ TerminateThread(running, rest)
    BY <1>1 DEF OSExitThread
  <2> HIDE DEF rest
  <2>3. UNCHANGED <<host, prev>>
    BY <2>2 DEF TerminateThread
  <2> QED
    BY <1>1, <2>1, <2>2, <2>3, TerminateThreadOK
       DEF OSExitThread, sched, mutex, sleep, TypedState, ThreadsTypeOK, SchedulerTypeOK,
           MutexesOK, MutexesTypeOK, MutexCounted, FibersTypeOK
<1>2. ASSUME NEW t \in Threads, OSCancelThread(t) PROVE IInv'
  <2> DEFINE rest == <<ReschedFrame>>
  <2>1. rest \in Seq(Frame)
    BY FrameForms
  <2>2. TerminateThread(t, rest)
    BY <1>2 DEF OSCancelThread
  <2> HIDE DEF rest
  <2>3. UNCHANGED <<host, prev>>
    BY <2>2 DEF TerminateThread
  <2>4. QueueSetOK(queue', pending', link')
    BY <1>2, QueueChangesOK DEF OSCancelThread
  <2>5. resched' \in BOOLEAN
    BY <1>2 DEF OSCancelThread, TypedState, SchedulerTypeOK
  <2> QED
    BY <1>2, <2>1, <2>2, <2>3, <2>4, <2>5, TerminateThreadOK
       DEF OSCancelThread, mutex, sleep, TypedState, ThreadsTypeOK, SchedulerTypeOK,
           MutexesOK, MutexesTypeOK, MutexCounted, FibersTypeOK
<1>3. ASSUME NEW t \in Threads, OSJoinThread(t) PROVE IInv'
  <2>1. <<Fr("sleep", t, NoThread, 0), Fr("joined", NoQueue, t, 0)>> \in Seq(Frame)
    <3>1. Fr("sleep", t, NoThread, 0) \in Frame /\ Fr("joined", NoQueue, t, 0) \in Frame
      BY FrameForms, QueueIdsFacts
    <3> QED
      BY <3>1
  <2>2. stack' \in [Threads -> Seq(Frame)]
    <3>1. CASE state[t] = "MORIBUND"
      BY <1>3, <3>1 DEF OSJoinThread, TypedState, FibersTypeOK
    <3>2. CASE state[t] # "MORIBUND"
      BY <1>3, <2>1, <3>2, GotoType DEF OSJoinThread
    <3> QED
      BY <3>1, <3>2
  <2>3. state' \in [Threads -> States] /\ listed' \subseteq Threads
    BY <1>3 DEF OSJoinThread, Collect, TypedState, ThreadsTypeOK, States
  <2> QED
    BY <1>3, <2>2, <2>3
       DEF OSJoinThread, SameFiber, sched, mutex, sleep, TypedState, ThreadsTypeOK,
           SchedulerTypeOK, MutexesOK, MutexesTypeOK, MutexCounted, FibersTypeOK
<1>4. ASSUME NEW t \in Threads, OSDetachThread(t) PROVE IInv'
  <2>1. <<WakeFrame(t)>> \in Seq(Frame)
    <3>1. WakeFrame(t) \in Frame
      BY FrameForms, QueueIdsFacts
    <3> QED
      BY <3>1
  <2>2. stack' \in [Threads -> Seq(Frame)]
    BY <1>4, <2>1, GotoType DEF OSDetachThread
  <2>3. /\ state' \in [Threads -> States] /\ listed' \subseteq Threads
        /\ detached' \in [Threads -> BOOLEAN]
    BY <1>4 DEF OSDetachThread, Collect, TypedState, ThreadsTypeOK, States
  <2> QED
    BY <1>4, <2>2, <2>3
       DEF OSDetachThread, SameFiber, sched, mutex, sleep, TypedState, ThreadsTypeOK,
           SchedulerTypeOK, MutexesOK, MutexesTypeOK, MutexCounted, FibersTypeOK
<1>5. ASSUME FiberReturns PROVE IInv'
  <2>1. host \in Threads
    BY DEF TypedState, FibersTypeOK
  <2>2. <<Fr("wakeFiber", host, NoThread, 0), Fr("fiberEnd", NoQueue, NoThread, 0)>> \in Seq(Frame)
    <3>1. Fr("wakeFiber", host, NoThread, 0) \in Frame /\ Fr("fiberEnd", NoQueue, NoThread, 0) \in Frame
      BY <2>1, FrameForms, QueueIdsFacts
    <3> QED
      BY <3>1
  <2>3. stack' \in [Threads -> Seq(Frame)]
    BY <1>5, <2>2, GotoType DEF FiberReturns
  <2>4. QueueSetOK(queue', pending', link')
    BY <1>5, <2>1, QueueChangesOK DEF FiberReturns
  <2>5. state' \in [Threads -> States] /\ holds' \in [Mutexes -> SUBSET Threads]
    BY <1>5, <2>1 DEF FiberReturns, TypedState, ThreadsTypeOK, MutexesOK, MutexesTypeOK, States
  <2> QED
    BY <1>5, <2>3, <2>4, <2>5
       DEF FiberReturns, SameFiber, mutex, sleep, TypedState, ThreadsTypeOK,
           SchedulerTypeOK, MutexesOK, MutexesTypeOK, MutexCounted, FibersTypeOK
<1> QED
  BY <1>1, <1>2, <1>3, <1>4, <1>5

\* The guest disables the scheduler, or a host callback does.
LEMMA SchedulerCalls ==
    ASSUME IInv
    PROVE  /\ OSDisableScheduler => IInv'
           /\ OSEnableScheduler => IInv'
           /\ \A q \in Queues, n \in 0 .. 1 : DeferredCallback(q, n) => IInv'
<1> USE TypedStateOfIInv, PartsOfIInv
<1>1. ASSUME OSDisableScheduler PROVE IInv'
  <2>1. disable' \in Nat
    BY <1>1 DEF OSDisableScheduler, TypedState, SchedulerTypeOK
  <2>2. QueueSetOK(queue', pending', link')
    BY <1>1 DEF OSDisableScheduler, thread, TypedState, QueueSetOK
  <2> QED
    BY <1>1, <2>1, <2>2
       DEF OSDisableScheduler, thread, mutex, sleep, fiber, TypedState, ThreadsTypeOK,
           SchedulerTypeOK, MutexesOK, MutexesTypeOK, MutexCounted, FibersTypeOK
<1>2. ASSUME OSEnableScheduler PROVE IInv'
  <2>1. disable' \in Nat
    BY <1>2 DEF OSEnableScheduler, TypedState, SchedulerTypeOK
  <2>2. QueueSetOK(queue', pending', link')
    BY <1>2 DEF OSEnableScheduler, thread, TypedState, QueueSetOK
  <2> QED
    BY <1>2, <2>1, <2>2
       DEF OSEnableScheduler, thread, mutex, sleep, fiber, TypedState, ThreadsTypeOK,
           SchedulerTypeOK, MutexesOK, MutexesTypeOK, MutexCounted, FibersTypeOK
<1>3. ASSUME NEW q \in Queues, NEW n \in 0 .. 1, DeferredCallback(q, n) PROVE IInv'
  <2>1. <<WakeFrame(q), Fr("endDeferred", NoQueue, NoThread, n)>> \in Seq(Frame)
    <3>1. WakeFrame(q) \in Frame /\ Fr("endDeferred", NoQueue, NoThread, n) \in Frame
      BY FrameForms, QueueIdsFacts
    <3> QED
      BY <3>1
  <2>2. stack' \in [Threads -> Seq(Frame)]
    BY <1>3, <2>1, GotoType DEF DeferredCallback
  <2> QED
    BY <1>3, <2>2
       DEF DeferredCallback, SameFiber, thread, mutex, sleep, TypedState, ThreadsTypeOK,
           SchedulerTypeOK, MutexesOK, MutexesTypeOK, MutexCounted, FibersTypeOK, QueueSetOK
<1> QED
  BY <1>1, <1>2, <1>3

-----------------------------------------------------------------------------
(***************************************************************************)
(* The theorems.                                                           *)
(***************************************************************************)

\* OSThreadInit establishes the invariant.
LEMMA InitIInv == Init => IInv
<1> SUFFICES ASSUME Init PROVE IInv
  OBVIOUS
<1>1. /\ <<>> \in Seq(Threads) /\ <<>> \in Seq(Mutexes) /\ <<>> \in Seq(Frame)
      /\ BasePrio \in [Threads -> 0 .. NumPrio]
      /\ Main \in Threads
  BY ConstantsAssumption, EmptySeq DEF Prios
<1>2. ThreadsTypeOK
  BY <1>1 DEF Init, ThreadsTypeOK, States
<1>3. QueuesTypeOK /\ PendingCoversQueues
  BY <1>1, QueueIdsFacts DEF Init, QueuesTypeOK, PendingCoversQueues
<1>4. SchedulerTypeOK
  BY <1>1 DEF Init, SchedulerTypeOK
<1>5. MutexesTypeOK /\ MutexCounted
  BY DEF Init, MutexesTypeOK, MutexCounted
<1>6. FibersTypeOK
  BY <1>1 DEF Init, FibersTypeOK
<1> QED
  BY <1>2, <1>3, <1>4, <1>5, <1>6 DEF IInv, TypeOK

\* The invariant depends on nothing but the variables.
LEMMA StutterIInv == IInv /\ UNCHANGED vars => IInv'
BY DEF vars, thread, sched, mutex, sleep, fiber, IInv, TypeOK, ThreadsTypeOK, QueuesTypeOK,
       SchedulerTypeOK, MutexesTypeOK, FibersTypeOK, PendingCoversQueues, MutexCounted

\* Every step of the scheduler and of the guest keeps the invariant.
LEMMA NextIInv == IInv /\ [Next]_vars => IInv'
<1> SUFFICES ASSUME IInv, [Next]_vars PROVE IInv'
  OBVIOUS
<1>1. CASE FrameStep
  BY <1>1, SelectSteps, InheritanceSteps, BlockingSteps, WakingSteps, EndingSteps DEF FrameStep
<1>2. CASE GuestCall
  BY <1>2, ThreadCalls, MutexCalls, LifeCycleCalls, SchedulerCalls DEF GuestCall
<1>3. CASE UNCHANGED vars
  BY <1>3, StutterIInv
<1> QED
  BY <1>1, <1>2, <1>3 DEF Next

\* The types, the cover of the run queues by the mask, and the counts of the
\* mutexes hold together in every state that SelectThread, OSSleepThread,
\* OSWakeupThread and the other handlers reach.
THEOREM InductiveInvariant == Spec => []IInv
BY InitIInv, NextIInv, PTL DEF Spec

\* Every state the handlers reach is of its type; among the types is what each
\* frame of a handler that was switched away needs when it goes on: the thread
\* OSSleepThread put to sleep, the mutex OSLockMutex is after, the queue a
\* wakeup is emptying.
THEOREM TypeCorrect == Spec => []TypeOK
<1>1. IInv => TypeOK
  BY DEF IInv
<1> QED
  BY <1>1, InductiveInvariant, PTL

\* Whatever interleaving of handlers, timers and threads: a run queue that holds
\* a thread has its bit in the pending mask, so SelectThread, which looks only at
\* the mask, finds it, and the idle loop ends.
THEOREM MaskCovers == Spec => []PendingCoversQueues
<1>1. IInv => PendingCoversQueues
  BY DEF IInv
<1> QED
  BY <1>1, InductiveInvariant, PTL

\* A mutex has a count exactly while it has an owner, so the decrement in
\* OSUnlockMutex never wraps, and a free mutex is never left with a count that
\* would keep it locked after the next OSUnlockMutex.
THEOREM MutexesCounted == Spec => []MutexCounted
<1>1. IInv => MutexCounted
  BY DEF IInv
<1> QED
  BY <1>1, InductiveInvariant, PTL
=============================================================================

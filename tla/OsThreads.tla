------------------------------ MODULE OsThreads ------------------------------
(***************************************************************************)
(* The guest thread system of the runtime: SelectThread, the thread queues *)
(* and the pending mask (hle/os/os_scheduler.cpp), the thread life cycle   *)
(* and priority inheritance (hle/os/os_thread.cpp), OSSleepThread and the  *)
(* sleep timers (hle/os/os_sleep.cpp), and the host fibers that carry the  *)
(* guest threads (fiber_manager.cpp).                                      *)
(*                                                                         *)
(* Every fiber runs on one host thread, so exactly one host context makes  *)
(* progress at a time: `host' names it.  A handler that calls SelectThread *)
(* may be switched away in the middle; what is left of it is a sequence of *)
(* frames on the stack of its fiber, and a step executes the topmost frame *)
(* of the fiber that is running.  A fiber whose stack is empty executes    *)
(* guest code, which may call any of the operations in `guest'.            *)
(*                                                                         *)
(* A guest queue is a doubly linked list threaded through the OSThread     *)
(* structures.  It is modelled by the sequence it denotes, which is        *)
(* faithful as long as no thread is linked twice: QueuesWellFormed.        *)
(***************************************************************************)
EXTENDS Naturals, Sequences, FiniteSets

CONSTANTS
    Threads,     \* OSThread structures of the guest
    Main,        \* kDefaultThreadContextAddr, carried by the scheduler fiber
    Queues,      \* OSThreadQueue objects of the guest
    Mutexes,     \* OSMutex objects; the address of one is its wait queue's
    NumPrio,     \* number of priorities (32); also kSuspendedWaitPriority
    BasePrio,    \* the priority each thread is created with
    Guests,      \* guest programs, each by the operations it uses
    MaxSuspend,  \* bound on suspend counts
    MaxCount,    \* bound on recursive locking and OSDisableScheduler nesting
    MaxDepth,    \* bound on the frames under which a timer fires
    NoThread,    \* a null thread pointer
    NoQueue,     \* a null queue or mutex pointer
    IdleContext  \* kIdleThreadContextAddr

Prios == 0 .. NumPrio - 1

\* Addresses that head an OSThreadQueue: the run queues, the guest's own
\* queues, the queue of a mutex, and the join queue inside an OSThread.
\* Nothing checks the priority LinkThreadOnRunQueue is given, so NumPrio is
\* the address behind the run queues, which it writes for that priority.
WaitQueues == Queues \cup Mutexes \cup Threads
QueueIds == 0 .. NumPrio \cup WaitQueues

AllOps == {"create", "resume", "suspend", "sleep", "wakeup", "lock", "unlock",
           "exit", "cancel", "join", "detach", "ticks", "yield", "disable",
           "callback", "return"}

ASSUME ConstantsAssumption ==
    /\ Main \in Threads
    /\ NumPrio \in Nat \ {0}
    /\ BasePrio \in [Threads -> Prios]
    /\ MaxSuspend \in Nat \ {0}
    /\ MaxCount \in Nat \ {0}
    /\ MaxDepth \in Nat \ {0}
    /\ Guests \subseteq SUBSET AllOps
    /\ IsFiniteSet(Threads)

ASSUME AddressesAssumption ==
    /\ Threads \cap Queues = {}
    /\ Threads \cap Mutexes = {}
    /\ Queues \cap Mutexes = {}
    /\ WaitQueues \cap Nat = {}
    /\ NoThread \notin Threads
    /\ NoQueue \notin QueueIds
    /\ IdleContext \notin Threads \cup {NoThread}

VARIABLES
    state,     \* OSThread.state
    detached,  \* OSThread.attr, bit 0
    suspend,   \* OSThread.suspend
    prio,      \* OSThread.priority, the effective one
    link,      \* OSThread.queue, the queue the thread is linked on
    tmutex,    \* OSThread.mutex, the mutex the thread waits for
    owned,     \* OSThread.queueMutex, the mutexes the thread owns
    listed,    \* the active thread list
    queue,     \* contents of every OSThreadQueue
    pending,   \* the pending mask: one bit per run queue
    resched,   \* the reschedule hint
    disable,   \* the OSDisableScheduler nesting count
    running,   \* kOSRunningContextAddr
    current,   \* kOSCurrentContextAddr
    owner,     \* OSMutex.thread
    count,     \* OSMutex.count
    timers,    \* threads with an entry in gSleepTimers
    parks,     \* gOutstandingParks
    host,      \* the thread whose fiber the host executes
    fiberCur,  \* GuestFiberManager::s_currentGuestThread
    prev,      \* previousThread of each fiber's suspended SwitchToThread
    stack,     \* what is left to do on each fiber, topmost frame first
    holds,     \* history: threads inside a critical section of each mutex
    guest      \* the operations this guest uses, one of Guests

thread == <<state, detached, suspend, prio, link, tmutex, owned, listed>>
sched == <<queue, pending, resched, disable, running, current>>
mutex == <<owner, count>>
sleep == <<timers, parks>>
fiber == <<host, fiberCur, prev, stack>>
vars == <<thread, sched, mutex, sleep, fiber, holds, guest>>

States == {"NONE", "READY", "RUNNING", "WAITING", "MORIBUND"}

FrameOps == {"select", "pick", "idle", "slept", "sleep", "lock", "promote",
             "propagate", "resched", "wake", "wakeResched", "wakeFiber",
             "unlockAll", "exited", "joined", "ticked", "endDeferred", "fiberEnd"}

\* A frame: what is to be done next, and the queue or mutex, the thread and the
\* priority or flag it is done with.
Frame ==
    {f \in [op : FrameOps, q : WaitQueues \cup {NoQueue},
            t : Threads \cup {NoThread}, n : 0 .. NumPrio] :
        /\ f.op \in {"sleep", "slept", "wake", "wakeResched", "wakeFiber"} => f.q \in WaitQueues
        /\ f.op = "lock" => f.q \in Mutexes
        /\ f.op \in {"slept", "lock", "unlockAll", "joined", "ticked"} => f.t \in Threads}

Fr(op, q, t, n) == [op |-> op, q |-> q, t |-> t, n |-> n]

SelectFrame(force) == Fr("select", NoQueue, NoThread, force)
ReschedFrame == Fr("resched", NoQueue, NoThread, 0)
WakeFrame(q) == Fr("wake", q, NoThread, 0)

-----------------------------------------------------------------------------
(***************************************************************************)
(* Queues and priorities.                                                  *)
(***************************************************************************)

\* ThreadStateIsTerminated.  A fiber's terminated flag is set together with
\* these states and cleared by OSCreateThread, so it is not kept separately.
Terminated(t) == state[t] \in {"NONE", "MORIBUND"}

Linked(s, t) == \E i \in 1 .. Len(s) : s[i] = t

\* The forms named Def_Fault are what Def would be with a plausible fault; the
\* properties are tested against them, and no specification uses them.
Unlink_OnlyHead(s, t) == IF s # <<>> /\ Head(s) = t THEN Tail(s) ELSE s
Unlink_Nothing(s, t) == s

\* UnlinkGuestListNode on the list that s denotes.
Unlink(s, t) ==
    IF Linked(s, t)
    THEN LET i == CHOOSE j \in 1 .. Len(s) : s[j] = t
         IN  SubSeq(s, 1, i - 1) \o SubSeq(s, i + 1, Len(s))
    ELSE s

\* The first element with a larger priority value stops the scan, so a thread
\* goes behind its equals.
InsertSorted(s, pr, t, p) ==
    LET k == Cardinality({i \in 1 .. Len(s) : \A j \in 1 .. i : pr[s[j]] <= p})
    IN  SubSeq(s, 1, k) \o <<t>> \o SubSeq(s, k + 1, Len(s))

\* UpdatePendingMaskForQueue: a run queue that became empty loses its bit.
ClearedMask(mask, q, qs) == IF q \in Prios /\ qs[q] = <<>> THEN mask \ {q} ELSE mask

\* RemoveThreadFromQueue: the queues and the pending mask without thread t.
Removed(t) == IF link[t] = NoQueue THEN queue
              ELSE [queue EXCEPT ![link[t]] = Unlink(@, t)]
RemovedMask(t) == ClearedMask(pending, link[t], Removed(t))

\* InsertThreadIntoQueueByPriority into the queue set qs.
Inserted(qs, q, t, p) == [qs EXCEPT ![q] = InsertSorted(@, prio, t, p)]
InsertedMask(mask, q) == IF q \in Prios THEN mask \cup {q} ELSE mask

MarkedMask_OffByOne(mask, p) == mask \cup {p + 1}

\* LinkThreadOnRunQueue and MarkRunQueuePending: tail enqueue.  The shift
\* count 31 - priority is taken modulo the width of the mask.
Enqueued(qs, t, p) == [qs EXCEPT ![p] = Append(@, t)]
MarkedMask(mask, p) == mask \cup {p % NumPrio}

Least(S) == CHOOSE x \in S : \A y \in S : x <= y

\* ComputeThreadEffectivePriority for a thread t that owns the mutexes ms: the
\* least of the base priority and the priorities of the first waiters.
EffectivePriority(t, ms) ==
    Least({BasePrio[t]} \cup
          {prio[queue[ms[i]][1]] : i \in {j \in 1 .. Len(ms) : queue[ms[j]] # <<>>}})

-----------------------------------------------------------------------------
(***************************************************************************)
(* Frames.                                                                 *)
(***************************************************************************)

InGuestCode == stack[host] = <<>>
Top == Head(stack[host])
Rest == Tail(stack[host])
At(op) == stack[host] # <<>> /\ Top.op = op

\* The running fiber's stack becomes s.
Goto(s) == stack' = [stack EXCEPT ![host] = s]
SameFiber == UNCHANGED <<host, fiberCur, prev>>
Return == Goto(Rest) /\ SameFiber

Delinked(t) == [link EXCEPT ![t] = NoQueue]

\* RemoveThreadFromQueue as the only change to the queues.
Delink(t) ==
    /\ queue' = Removed(t)
    /\ pending' = RemovedMask(t)
    /\ link' = Delinked(t)

KeepQueues == UNCHANGED <<queue, pending, link>>

-----------------------------------------------------------------------------
(***************************************************************************)
(* The parts the operations share.                                         *)
(***************************************************************************)

\* InsertThreadIntoQueueByPriority into the queues qs, as the last change.
Insert(qs, mask, q, t, p) ==
    /\ queue' = Inserted(qs, q, t, p)
    /\ pending' = InsertedMask(mask, q)
    /\ link' = [link EXCEPT ![t] = q]

\* A thread changes its place in the wait queue it is linked on.
Reinsert(t, p) ==
    IF link[t] = NoQueue THEN KeepQueues
    ELSE Insert(Removed(t), RemovedMask(t), link[t], t, p)

\* SetThreadEffectivePriority.
SetThreadEffectivePriority(t, p) ==
    /\ prio' = IF Terminated(t) THEN prio ELSE [prio EXCEPT ![t] = p]
    /\ resched' = (resched \/ state[t] \in {"READY", "RUNNING"})
    /\ CASE state[t] = "READY" -> Insert(Removed(t), RemovedMask(t), p, t, p)
         [] state[t] = "WAITING" -> Reinsert(t, p)
         [] OTHER -> KeepQueues

BlockedOn_Nobody(t) == NoThread

\* The owner of the mutex a thread waits for, the next link of a chain.
BlockedOn(t) == IF state[t] = "WAITING" /\ tmutex[t] # NoQueue
                THEN owner[tmutex[t]] ELSE NoThread


\* OSResumeThread, apart from the timer and the park it cancels; rest is what
\* its caller does next.  A thread that is RUNNING here is recovered as READY.
ResumeThread(t, rest) ==
    /\ suspend' = [suspend EXCEPT ![t] = IF @ = 0 THEN 0 ELSE @ - 1]
    /\ IF suspend[t] # 1
       THEN /\ Goto(rest)
            /\ KeepQueues
            /\ UNCHANGED <<state, prio, resched>>
       ELSE LET p == EffectivePriority(t, owned[t])
                revived == state[t] \in {"READY", "RUNNING"}
            IN  /\ state' = IF revived THEN [state EXCEPT ![t] = "READY"] ELSE state
                /\ prio' = IF Terminated(t) THEN prio ELSE [prio EXCEPT ![t] = p]
                /\ resched' = (resched \/ revived)
                /\ CASE revived -> Insert(queue, pending, p, t, p)
                     [] state[t] = "WAITING" -> Reinsert(t, p)
                     [] OTHER -> KeepQueues
                /\ Goto(<<Fr("propagate", NoQueue, BlockedOn(t), 0), ReschedFrame>> \o rest)

\* OSSuspendThread.
SuspendThread(t, rest) ==
    /\ suspend' = [suspend EXCEPT ![t] = @ + 1]
    /\ IF suspend[t] # 0
       THEN /\ Goto(rest)
            /\ KeepQueues
            /\ UNCHANGED <<state, prio, resched>>
       ELSE /\ state' = IF state[t] = "RUNNING" THEN [state EXCEPT ![t] = "READY"] ELSE state
            /\ prio' = IF state[t] = "WAITING" THEN [prio EXCEPT ![t] = NumPrio] ELSE prio
            /\ resched' = (resched \/ state[t] = "RUNNING")
            /\ CASE state[t] = "READY" -> Delink(t)
                 [] state[t] = "WAITING" -> Reinsert(t, NumPrio)
                 [] OTHER -> KeepQueues
            /\ Goto(<<Fr("propagate", NoQueue, BlockedOn(t), 0), ReschedFrame>> \o rest)

Unpark_KeepsTimer(t) == parks' = parks \ {t} /\ UNCHANGED timers

\* CancelSleepTimer and ClearOutstandingPark.
Unpark(t) ==
    /\ timers' = timers \ {t}
    /\ parks' = parks \ {t}

\* What TerminateThreadCommon calls once the thread is marked as ended.
EndingFrames_KeepsMutexes(t, rest) == <<WakeFrame(t)>> \o rest

EndingFrames(t, rest) == <<Fr("unlockAll", NoQueue, t, 0), WakeFrame(t)>> \o rest

\* TerminateThreadCommon.  ExitGuestThread destroys the fiber of a thread that
\* is not the running one.
TerminateThread(t, rest) ==
    /\ state' = [state EXCEPT ![t] = IF detached[t] THEN "NONE" ELSE "MORIBUND"]
    /\ listed' = IF detached[t] THEN listed \ {t} ELSE listed
    /\ fiberCur' = IF fiberCur = t THEN NoThread ELSE fiberCur
    /\ stack' = [stack EXCEPT ![t] = <<>>, ![host] = EndingFrames(t, rest)]
    /\ holds' = [m \in Mutexes |-> holds[m] \ {t}]
    /\ UNCHANGED <<host, prev, guest>>

ResumedThread_Forgets(h, r, c) == NoThread

\* What SwitchToThread restores when the fiber of h continues, r being the
\* running and the current context: its thread's identity, or none at all.
ResumedThread(h, r, c) ==
    IF prev[h] # NoThread /\ prev[h] = r /\ prev[h] = c THEN prev[h] ELSE NoThread

-----------------------------------------------------------------------------
(***************************************************************************)
(* SelectThread.                                                           *)
(***************************************************************************)

Polling_SelectOnly == At("select")

\* ProcessSleepTimers runs at the head of SelectThread and in the idle loop.
Polling == At("select") \/ At("idle")

\* A due timer.  A RUNNING thread's timer is put back; a thread that is not parked loses it.  The code
\* has no bound on how deep the resumes it makes from here may nest.
SleepTimerFires(t) ==
    /\ Polling
    /\ Len(stack[host]) <= MaxDepth
    /\ t \in timers
    /\ state[t] # "RUNNING"
    /\ Unpark(t)
    /\ IF state[t] = "READY" /\ suspend[t] >= 1
       THEN ResumeThread(t, stack[host])
       ELSE UNCHANGED <<state, suspend, prio, link, queue, pending, resched, stack>>
    /\ UNCHANGED <<detached, tmutex, owned, listed, disable, running, current, mutex, holds, guest>>
    /\ SameFiber

KeepsRunning_Always(force) == running # NoThread /\ state[running] = "RUNNING"

KeepsRunning(force) ==
    /\ running # NoThread
    /\ state[running] = "RUNNING"
    /\ force = 0
    /\ \A p \in pending : prio[running] <= p

SelectRefuses_Enabled ==
    current = NoThread \/ current # running \/ KeepsRunning(Top.n)
SelectRefuses_Waiting ==
    \/ disable >= 1 \/ current = NoThread \/ current # running
    \/ KeepsRunning(Top.n)
    \/ (running # NoThread /\ state[running] = "WAITING" /\ pending # {})

SelectRefuses ==
    \/ disable >= 1
    \/ current = NoThread
    \/ current # running
    \/ KeepsRunning(Top.n)

SelectRefused ==
    /\ At("select")
    /\ SelectRefuses
    /\ Return
    /\ UNCHANGED <<thread, sched, mutex, sleep, holds, guest>>

\* The running thread, if it can go on, is put back on its run queue; then
\* SelectThread either idles or goes on to pick a thread.
SelectBegins ==
    /\ At("select")
    /\ ~ SelectRefuses
    /\ LET p == prio[running]
           preempts == state[running] = "RUNNING"
       IN  IF preempts
           THEN /\ state' = [state EXCEPT ![running] = "READY"]
                /\ queue' = Enqueued(queue, running, p)
                /\ link' = [link EXCEPT ![running] = p]
                /\ pending' = MarkedMask(pending, p)
           ELSE UNCHANGED <<state, queue, link, pending>>
    /\ IF pending' # {}
       THEN /\ resched' = FALSE
            /\ Goto(<<Fr("pick", NoQueue, NoThread, 0)>> \o Rest)
            /\ UNCHANGED <<running, current>>
       ELSE /\ running' = NoThread
            /\ current' = IdleContext
            /\ Goto(<<Fr("idle", NoQueue, NoThread, 0)>> \o Rest)
            /\ UNCHANGED resched
    /\ SameFiber
    /\ UNCHANGED <<detached, suspend, prio, tmutex, owned, listed, disable, mutex, sleep, holds, guest>>

\* The idle loop polls devices, whose callbacks wake guest queues.
IdleCallback(q) ==
    /\ "wakeup" \in guest
    /\ At("idle")
    /\ queue[q] # <<>>
    /\ Goto(<<WakeFrame(q)>> \o stack[host])
    /\ SameFiber
    /\ UNCHANGED <<thread, sched, mutex, sleep, holds, guest>>

IdleEnds ==
    /\ At("idle")
    /\ pending # {}
    /\ resched' = FALSE
    /\ Goto(<<Fr("pick", NoQueue, NoThread, 0)>> \o Rest)
    /\ SameFiber
    /\ UNCHANGED <<thread, queue, pending, disable, running, current, mutex, sleep, holds, guest>>


\* SwitchToThread from the running fiber to that of t.  What was left to do for
\* a thread that has terminated is never done.
SwitchTo(t) ==
    IF t = host
    THEN /\ fiberCur' = t
         /\ Goto(Rest)
         /\ UNCHANGED <<host, prev>>
    ELSE /\ host' = t
         /\ fiberCur' = ResumedThread(t, t, t)
         /\ prev' = [prev EXCEPT ![host] = fiberCur]
         /\ Goto(IF Terminated(host) THEN <<>> ELSE Rest)

\* The head of the first run queue in the mask, which holds a thread that can run.
Dispatch(p) ==
    LET t == Head(queue[p])
    IN  /\ queue' = [queue EXCEPT ![p] = Tail(@)]
        /\ pending' = IF Tail(queue[p]) = <<>> THEN pending \ {p} ELSE pending
        /\ link' = Delinked(t)
        /\ state' = [state EXCEPT ![t] = "RUNNING"]
        /\ running' = t
        /\ current' = t
        /\ SwitchTo(t)

\* One round of the search for the next thread.  A bit without a queue and a
\* thread that has terminated are dropped, and the search goes on.
Pick ==
    /\ At("pick")
    /\ LET p == Least(pending)
       IN  CASE pending = {} ->
                  Return /\ KeepQueues /\ UNCHANGED <<state, running, current>>
             [] pending # {} /\ queue[p] = <<>> ->
                  /\ pending' = pending \ {p}
                  /\ UNCHANGED <<queue, link, state, running, current, fiber>>
             [] pending # {} /\ queue[p] # <<>> /\ Terminated(Head(queue[p])) ->
                  Delink(Head(queue[p])) /\ UNCHANGED <<state, running, current, fiber>>
             [] OTHER -> Dispatch(p)
    /\ UNCHANGED <<detached, suspend, prio, tmutex, owned, listed, resched, disable, mutex,
                   sleep, holds, guest>>

\* A handler calls SelectThread if a reschedule has been asked for.
ReschedStep ==
    /\ At("resched")
    /\ Goto(IF resched THEN <<SelectFrame(0)>> \o Rest ELSE Rest)
    /\ SameFiber
    /\ UNCHANGED <<thread, sched, mutex, sleep, holds, guest>>

-----------------------------------------------------------------------------
(***************************************************************************)
(* The rest of the frames.                                                 *)
(***************************************************************************)

\* PromoteThreadPriority: one link of a chain of owners gets the priority n.
PromoteStep ==
    /\ At("promote")
    /\ LET t == Top.t
           done == t = NoThread \/ suspend[t] > 0 \/ prio[t] <= Top.n
       IN  IF done
           THEN Return /\ KeepQueues /\ UNCHANGED <<prio, resched>>
           ELSE /\ SetThreadEffectivePriority(t, Top.n)
                /\ Goto(<<Fr("promote", NoQueue, BlockedOn(t), Top.n)>> \o Rest)
                /\ SameFiber
    /\ UNCHANGED <<state, detached, suspend, tmutex, owned, listed, disable, running, current,
                   mutex, sleep, holds, guest>>

\* PropagateMutexOwnerPriority: the same with the priority each owner is due.
PropagateStep ==
    /\ At("propagate")
    /\ LET t == Top.t
           p == EffectivePriority(t, owned[t])
           done == t = NoThread \/ suspend[t] > 0 \/ prio[t] = p
       IN  IF done
           THEN Return /\ KeepQueues /\ UNCHANGED <<prio, resched>>
           ELSE /\ SetThreadEffectivePriority(t, p)
                /\ Goto(<<Fr("propagate", NoQueue, BlockedOn(t), 0)>> \o Rest)
                /\ SameFiber
    /\ UNCHANGED <<state, detached, suspend, tmutex, owned, listed, disable, running, current,
                   mutex, sleep, holds, guest>>

\* OSSleepThread up to its call of SelectThread.  Where nothing may switch, the
\* caller is not parked and has to try again.
SleepStep ==
    /\ At("sleep")
    /\ LET t == IF running = NoThread THEN Main ELSE running
       IN  /\ running' = t
           /\ current' = IF running = NoThread THEN Main ELSE current
           /\ IF disable # 0
              THEN Goto(Rest) /\ KeepQueues /\ UNCHANGED <<state, resched>>
              ELSE /\ state' = [state EXCEPT ![t] = "WAITING"]
                   /\ Insert(queue, pending, Top.q, t, prio[t])
                   /\ resched' = TRUE
                   /\ Goto(<<SelectFrame(0), Fr("slept", Top.q, t, 0)>> \o Rest)
    /\ SameFiber
    /\ UNCHANGED <<detached, suspend, prio, tmutex, owned, listed, disable, mutex, sleep, holds, guest>>

\* The tail of OSSleepThread: a thread that was not switched away leaves the queue.
SleptStep ==
    /\ At("slept")
    /\ IF state[Top.t] = "WAITING" /\ link[Top.t] = Top.q
       THEN /\ queue' = Removed(Top.t)
            /\ link' = Delinked(Top.t)
            /\ state' = [state EXCEPT ![Top.t] = "RUNNING"]
       ELSE UNCHANGED <<queue, link, state>>
    /\ Return
    /\ UNCHANGED <<detached, suspend, prio, tmutex, owned, listed, pending, resched, disable,
                   running, current, mutex, sleep, holds, guest>>

CanTake_AfterSleep(m, t) == owner[m] \in {NoThread, t} \/ tmutex[t] = m

CanTake(m, t) == owner[m] \in {NoThread, t}

\* One round of the loop of OSLockMutex on behalf of thread Top.t.
LockStep ==
    /\ At("lock")
    /\ LET m == Top.q
           t == Top.t
       IN  IF CanTake(m, t)
           THEN /\ owner' = [owner EXCEPT ![m] = t]
                /\ count' = [count EXCEPT ![m] = @ + 1]
                /\ owned' = IF owner[m] = t THEN owned ELSE [owned EXCEPT ![t] = Append(@, m)]
                /\ tmutex' = [tmutex EXCEPT ![t] = NoQueue]
                /\ holds' = [holds EXCEPT ![m] = @ \cup {host}]
                /\ Goto(Rest)
           ELSE /\ tmutex' = [tmutex EXCEPT ![t] = m]
                /\ Goto(<<Fr("promote", NoQueue, owner[m], prio[t]), Fr("sleep", m, NoThread, 0)>>
                        \o stack[host])
                /\ UNCHANGED <<owner, count, owned, holds>>
    /\ SameFiber
    /\ UNCHANGED <<state, detached, suspend, prio, link, listed, sched, sleep, guest>>

Readied(op) == IF op = "wake" THEN "wakeResched" ELSE op

\* One round of WakeupThreadQueue (wake, and wakeResched once it has readied a
\* thread) or of WakeGuestThreadsOnQueueNoSwitch (wakeFiber).
WakeStep ==
    /\ \E op \in {"wake", "wakeResched", "wakeFiber"} : At(op)
    /\ queue[Top.q] # <<>>
    /\ LET t == Head(queue[Top.q])
           rest == [queue EXCEPT ![Top.q] = Tail(@)]
           runs == ~ Terminated(t) /\ suspend[t] < 1
           p == IF prio[t] = NumPrio THEN NumPrio - 1 ELSE prio[t]
       IN  /\ state' = IF Terminated(t) THEN state ELSE [state EXCEPT ![t] = "READY"]
           /\ queue' = IF runs THEN Enqueued(rest, t, p) ELSE rest
           /\ pending' = IF runs THEN MarkedMask(pending, p) ELSE pending
           /\ link' = CASE runs -> [link EXCEPT ![t] = p]
                       [] ~ runs /\ (Terminated(t) \/ Top.op = "wakeFiber") -> Delinked(t)
                       [] OTHER -> link
           /\ resched' = (resched \/ runs)
           /\ Goto(IF runs THEN <<[Top EXCEPT !.op = Readied(@)]>> \o Rest ELSE stack[host])
    /\ SameFiber
    /\ UNCHANGED <<detached, suspend, prio, tmutex, owned, listed, disable, running, current,
                   mutex, sleep, holds, guest>>

\* OSWakeupThread reschedules if it has made a thread ready.
WakeEnds ==
    /\ \E op \in {"wake", "wakeResched", "wakeFiber"} : At(op)
    /\ queue[Top.q] = <<>>
    /\ Goto(IF Top.op = "wakeResched" THEN <<SelectFrame(0)>> \o Rest ELSE Rest)
    /\ SameFiber
    /\ UNCHANGED <<thread, sched, mutex, sleep, holds, guest>>


\* __OSUnlockAllMutex: the next mutex of the thread is released and woken.
UnlockAllStep ==
    /\ At("unlockAll")
    /\ LET ms == owned[Top.t]
       IN  IF ms = <<>>
           THEN Goto(Rest) /\ UNCHANGED <<owned, owner, count>>
           ELSE /\ owned' = [owned EXCEPT ![Top.t] = Tail(@)]
                /\ owner' = [owner EXCEPT ![Head(ms)] = NoThread]
                /\ count' = [count EXCEPT ![Head(ms)] = 0]
                /\ Goto(<<WakeFrame(Head(ms))>> \o stack[host])
    /\ SameFiber
    /\ UNCHANGED <<state, detached, suspend, prio, link, tmutex, listed, sched, sleep, holds, guest>>

\* The end of OSExitThread.
ExitedStep ==
    /\ At("exited")
    /\ resched' = TRUE
    /\ Goto(<<SelectFrame(0)>> \o Rest)
    /\ SameFiber
    /\ UNCHANGED <<thread, queue, pending, disable, running, current, mutex, sleep, holds, guest>>

\* A thread that has ended is taken off the list, and its structure is free.
Collect(t) ==
    /\ listed' = listed \ {t}
    /\ state' = [state EXCEPT ![t] = "NONE"]

\* OSJoinThread once it has slept on the join queue.
JoinedStep ==
    /\ At("joined")
    /\ IF state[Top.t] = "MORIBUND" THEN Collect(Top.t) ELSE UNCHANGED <<listed, state>>
    /\ Return
    /\ UNCHANGED <<detached, suspend, prio, link, tmutex, owned, sched, mutex, sleep, holds, guest>>

\* The tail of OSSleepTicks: a suspension that did not park is taken back.
TickedStep ==
    /\ At("ticked")
    /\ LET t == Top.t
           running1 == suspend[t] = 1 /\ state[t] = "READY" /\ link[t] = NoQueue
       IN  IF suspend[t] > 0
           THEN /\ Unpark(t)
                /\ suspend' = [suspend EXCEPT ![t] = @ - 1]
                /\ state' = IF running1 THEN [state EXCEPT ![t] = "RUNNING"] ELSE state
           ELSE UNCHANGED <<suspend, state, sleep>>
    /\ Return
    /\ UNCHANGED <<detached, prio, link, tmutex, owned, listed, sched, mutex, holds, guest>>

\* The end of a deferred callback; n = 1 if its caller then reschedules.
EndDeferredStep ==
    /\ At("endDeferred")
    /\ disable' = IF disable = 0 THEN 0 ELSE disable - 1
    /\ Goto(IF Top.n = 1 THEN <<ReschedFrame>> \o Rest ELSE Rest)
    /\ SameFiber
    /\ UNCHANGED <<thread, queue, pending, resched, running, current, mutex, sleep, holds, guest>>

\* The end of FiberProc: back to the scheduler's fiber, which is also Main's.
FiberEndStep ==
    /\ At("fiberEnd")
    /\ LET r == IF running = host THEN NoThread ELSE running
           c == IF current = host THEN NoThread ELSE current
       IN  /\ running' = r
           /\ current' = c
           /\ fiberCur' = ResumedThread(Main, r, c)
    /\ resched' = TRUE
    /\ host' = Main
    /\ Goto(<<>>)
    /\ UNCHANGED <<thread, queue, pending, disable, mutex, sleep, prev, holds, guest>>

FrameStep ==
    \/ \E t \in Threads : SleepTimerFires(t)
    \/ SelectRefused
    \/ SelectBegins
    \/ \E q \in Queues : IdleCallback(q)
    \/ IdleEnds
    \/ Pick
    \/ ReschedStep
    \/ PromoteStep
    \/ PropagateStep
    \/ SleepStep
    \/ SleptStep
    \/ LockStep
    \/ WakeStep
    \/ WakeEnds
    \/ UnlockAllStep
    \/ ExitedStep
    \/ JoinedStep
    \/ TickedStep
    \/ EndDeferredStep
    \/ FiberEndStep

-----------------------------------------------------------------------------
(***************************************************************************)
(* What guest code may call.  The guest keeps the rules of the SDK: it uses *)
(* a thread structure it has created, unlocks what it has locked, and ends  *)
(* neither the default thread nor, with the scheduler disabled, itself.     *)
(***************************************************************************)
Calls(op) == op \in guest /\ InGuestCode

OSCreateThread(t, d) ==
    /\ Calls("create")
    /\ state[t] = "NONE"
    /\ d => "detach" \in guest
    /\ state' = [state EXCEPT ![t] = "READY"]
    /\ detached' = [detached EXCEPT ![t] = d]
    /\ suspend' = [suspend EXCEPT ![t] = 1]
    /\ prio' = [prio EXCEPT ![t] = BasePrio[t]]
    /\ tmutex' = [tmutex EXCEPT ![t] = NoQueue]
    /\ owned' = [owned EXCEPT ![t] = <<>>]
    /\ listed' = listed \cup {t}
    /\ queue' = [queue EXCEPT ![t] = <<>>]
    /\ stack' = [stack EXCEPT ![t] = <<>>]
    /\ prev' = [prev EXCEPT ![t] = t]
    /\ UNCHANGED <<link, pending, resched, disable, running, current, mutex, sleep, host,
                   fiberCur, holds, guest>>

OSResumeThread(t) ==
    /\ Calls("resume")
    /\ state[t] # "NONE"
    /\ suspend[t] > 0
    /\ IF suspend[t] = 1 THEN Unpark(t) ELSE UNCHANGED sleep
    /\ ResumeThread(t, <<>>)
    /\ SameFiber
    /\ UNCHANGED <<detached, tmutex, owned, listed, disable, running, current, mutex, holds, guest>>

OSSuspendThread(t) ==
    /\ Calls("suspend")
    /\ state[t] # "NONE"
    /\ suspend[t] < MaxSuspend
    /\ SuspendThread(t, <<>>)
    /\ SameFiber
    /\ UNCHANGED <<detached, tmutex, owned, listed, disable, running, current, mutex, sleep, holds, guest>>

\* The thread that OSSleepTicks parks, and when it refuses to.
Sleeper == IF fiberCur # NoThread THEN fiberCur ELSE running
Unparkable == disable # 0 \/ (current # NoThread /\ current # Sleeper)

OSSleepTicks ==
    /\ Calls("ticks")
    /\ Sleeper # NoThread
    /\ ~ Unparkable
    /\ suspend[Sleeper] < MaxSuspend
    /\ timers' = timers \cup {Sleeper}
    /\ parks' = parks \cup {Sleeper}
    /\ SuspendThread(Sleeper, <<Fr("ticked", NoQueue, Sleeper, 0)>>)
    /\ SameFiber
    /\ UNCHANGED <<detached, tmutex, owned, listed, disable, running, current, mutex, holds, guest>>

\* The calls that only push the frames of a handler.
CallHandler ==
    \/ \E q \in Queues : Calls("sleep") /\ Goto(<<Fr("sleep", q, NoThread, 0)>>)
    \/ \E q \in Queues : Calls("wakeup") /\ queue[q] # <<>> /\ Goto(<<WakeFrame(q)>>)
    \/ Calls("yield") /\ Goto(<<SelectFrame(1)>>)

OSThreadCall ==
    /\ CallHandler
    /\ SameFiber
    /\ UNCHANGED <<thread, sched, mutex, sleep, holds, guest>>

\* With no running thread the mutex is not locked, and the caller is not told.
OSLockMutex(m) ==
    /\ Calls("lock")
    /\ host \in holds[m] => count[m] < MaxCount
    /\ IF running = NoThread
       THEN holds' = [holds EXCEPT ![m] = @ \cup {host}] /\ UNCHANGED stack
       ELSE Goto(<<Fr("lock", m, running, 0)>>) /\ UNCHANGED holds
    /\ SameFiber
    /\ UNCHANGED <<thread, sched, mutex, sleep, guest>>


OSUnlockMutex(m) ==
    /\ Calls("unlock")
    /\ host \in holds[m]
    /\ LET t == running
           locked == t # NoThread /\ owner[m] = t
           freed == locked /\ count[m] = 1
           others == Unlink(owned[t], m)
       IN  /\ count' = IF locked THEN [count EXCEPT ![m] = @ - 1] ELSE count
           /\ owner' = IF freed THEN [owner EXCEPT ![m] = NoThread] ELSE owner
           /\ owned' = IF freed THEN [owned EXCEPT ![t] = others] ELSE owned
           /\ prio' = IF freed /\ prio[t] < BasePrio[t]
                      THEN [prio EXCEPT ![t] = EffectivePriority(t, others)] ELSE prio
           /\ holds' = IF locked /\ ~ freed THEN holds ELSE [holds EXCEPT ![m] = @ \ {host}]
           /\ Goto(IF freed THEN <<WakeFrame(m)>> ELSE <<>>)
    /\ SameFiber
    /\ UNCHANGED <<state, detached, suspend, link, tmutex, listed, sched, sleep, guest>>

OSExitThread ==
    /\ Calls("exit")
    /\ running \in Threads \ {Main}
    /\ disable = 0
    /\ TerminateThread(running, <<Fr("exited", NoQueue, NoThread, 0)>>)
    /\ UNCHANGED <<detached, suspend, prio, link, tmutex, owned, sched, mutex, sleep>>

OSCancelThread(t) ==
    /\ Calls("cancel")
    /\ t # Main
    /\ ~ Terminated(t)
    /\ t = running => disable = 0
    /\ IF state[t] = "WAITING" \/ (state[t] = "READY" /\ suspend[t] < 1)
       THEN Delink(t) ELSE KeepQueues
    /\ resched' = (resched \/ state[t] = "RUNNING")
    /\ TerminateThread(t, <<ReschedFrame>>)
    /\ UNCHANGED <<detached, suspend, prio, tmutex, owned, disable, running, current, mutex, sleep>>

OSJoinThread(t) ==
    /\ Calls("join")
    /\ t # host
    /\ state[t] # "NONE"
    /\ IF state[t] = "MORIBUND"
       THEN Collect(t) /\ UNCHANGED stack
       ELSE /\ ~ detached[t]
            /\ queue[t] = <<>>
            /\ Goto(<<Fr("sleep", t, NoThread, 0), Fr("joined", NoQueue, t, 0)>>)
            /\ UNCHANGED <<state, listed>>
    /\ SameFiber
    /\ UNCHANGED <<detached, suspend, prio, link, tmutex, owned, sched, mutex, sleep, holds, guest>>

OSDetachThread(t) ==
    /\ Calls("detach")
    /\ state[t] # "NONE"
    /\ detached' = [detached EXCEPT ![t] = TRUE]
    /\ IF state[t] = "MORIBUND" THEN Collect(t) ELSE UNCHANGED <<state, listed>>
    /\ Goto(<<WakeFrame(t)>>)
    /\ SameFiber
    /\ UNCHANGED <<suspend, prio, link, tmutex, owned, sched, mutex, sleep, holds, guest>>

OSDisableScheduler ==
    /\ Calls("disable")
    /\ disable < MaxCount
    /\ disable' = disable + 1
    /\ UNCHANGED <<thread, queue, pending, resched, running, current, mutex, sleep, fiber, holds, guest>>

OSEnableScheduler ==
    /\ Calls("disable")
    /\ disable > 0
    /\ disable' = disable - 1
    /\ UNCHANGED <<thread, queue, pending, resched, running, current, mutex, sleep, fiber, holds, guest>>

\* A host event serviced while guest code waits for the renderer or enters a
\* handler: its callback wakes a queue with the scheduler disabled.
DeferredCallback(q, n) ==
    /\ Calls("callback")
    /\ disable < MaxCount
    /\ queue[q] # <<>>
    /\ disable' = disable + 1
    /\ Goto(<<WakeFrame(q), Fr("endDeferred", NoQueue, NoThread, n)>>)
    /\ SameFiber
    /\ UNCHANGED <<thread, queue, pending, resched, running, current, mutex, sleep, holds, guest>>

\* FiberProc when the entry function of a thread returns.
FiberReturns ==
    /\ Calls("return")
    /\ host # Main
    /\ disable = 0
    /\ Delink(host)
    /\ state' = [state EXCEPT ![host] = IF detached[host] THEN "NONE" ELSE "MORIBUND"]
    /\ holds' = [m \in Mutexes |-> holds[m] \ {host}]
    /\ Goto(<<Fr("wakeFiber", host, NoThread, 0), Fr("fiberEnd", NoQueue, NoThread, 0)>>)
    /\ SameFiber
    /\ UNCHANGED <<detached, suspend, prio, tmutex, owned, listed, resched, disable, running,
                   current, mutex, sleep, guest>>

GuestCall ==
    \/ \E t \in Threads, d \in BOOLEAN : OSCreateThread(t, d)
    \/ \E t \in Threads : OSResumeThread(t)
    \/ \E t \in Threads : OSSuspendThread(t)
    \/ OSSleepTicks
    \/ OSThreadCall
    \/ \E m \in Mutexes : OSLockMutex(m)
    \/ \E m \in Mutexes : OSUnlockMutex(m)
    \/ OSExitThread
    \/ \E t \in Threads : OSCancelThread(t)
    \/ \E t \in Threads : OSJoinThread(t)
    \/ \E t \in Threads : OSDetachThread(t)
    \/ OSDisableScheduler
    \/ OSEnableScheduler
    \/ \E q \in Queues, n \in 0 .. 1 : DeferredCallback(q, n)
    \/ FiberReturns

\* OSThreadInit and RegisterMainThreadAsFiber: the default thread is running.
Init ==
    /\ state = [t \in Threads |-> IF t = Main THEN "RUNNING" ELSE "NONE"]
    /\ detached = [t \in Threads |-> FALSE]
    /\ suspend = [t \in Threads |-> 0]
    /\ prio = BasePrio
    /\ link = [t \in Threads |-> NoQueue]
    /\ tmutex = [t \in Threads |-> NoQueue]
    /\ owned = [t \in Threads |-> <<>>]
    /\ listed = {Main}
    /\ queue = [q \in QueueIds |-> <<>>]
    /\ pending = {}
    /\ resched = FALSE
    /\ disable = 0
    /\ running = Main
    /\ current = Main
    /\ owner = [m \in Mutexes |-> NoThread]
    /\ count = [m \in Mutexes |-> 0]
    /\ timers = {}
    /\ parks = {}
    /\ host = Main
    /\ fiberCur = Main
    /\ prev = [t \in Threads |-> t]
    /\ stack = [t \in Threads |-> <<>>]
    /\ holds = [m \in Mutexes |-> {}]
    /\ guest \in Guests

Next == FrameStep \/ GuestCall

Spec == Init /\ [][Next]_vars

\* The host thread carries every handler it has begun to its end, and keeps
\* polling while the guest idles.  Guest code may do as it likes.
FairSpec ==
    /\ Spec
    /\ WF_vars(FrameStep)
    /\ \A t \in Threads : WF_vars(SleepTimerFires(t))

-----------------------------------------------------------------------------
(***************************************************************************)
(* Properties.                                                             *)
(***************************************************************************)

ThreadsTypeOK ==
    /\ state \in [Threads -> States]
    /\ detached \in [Threads -> BOOLEAN]
    /\ suspend \in [Threads -> Nat]
    /\ prio \in [Threads -> 0 .. NumPrio]
    /\ tmutex \in [Threads -> Mutexes \cup {NoQueue}]
    /\ owned \in [Threads -> Seq(Mutexes)]
    /\ listed \subseteq Threads

QueuesTypeOK ==
    /\ queue \in [QueueIds -> Seq(Threads)]
    /\ pending \subseteq Prios
    /\ link \in [Threads -> QueueIds \cup {NoQueue}]

SchedulerTypeOK ==
    /\ resched \in BOOLEAN
    /\ disable \in Nat
    /\ running \in Threads \cup {NoThread}
    /\ current \in Threads \cup {NoThread, IdleContext}

MutexesTypeOK ==
    /\ owner \in [Mutexes -> Threads \cup {NoThread}]
    /\ count \in [Mutexes -> Nat]
    /\ holds \in [Mutexes -> SUBSET Threads]

FibersTypeOK ==
    /\ timers \subseteq Threads
    /\ parks \subseteq Threads
    /\ host \in Threads
    /\ fiberCur \in Threads \cup {NoThread}
    /\ prev \in [Threads -> Threads \cup {NoThread}]
    /\ stack \in [Threads -> Seq(Frame)]

\* The type invariant, which also says which frames a handler may leave behind.
TypeOK == ThreadsTypeOK /\ QueuesTypeOK /\ SchedulerTypeOK /\ MutexesTypeOK /\ FibersTypeOK

\* No run queue holds a thread without its bit in the pending mask: such a
\* thread is ready, and SelectThread would never look at it.
PendingCoversQueues == {p \in Prios : queue[p] # <<>>} \subseteq pending

\* No bit of the mask outlives its queue either: "ERROR - pending bit set but
\* no thread in queue!" (os_scheduler.cpp:405) is never logged.
PendingExact == pending = {p \in Prios : queue[p] # <<>>}

\* No thread is linked twice, on one queue or on two, and OSThread.queue names
\* the queue it is linked on, from where RemoveThreadFromQueue would unlink it.
LinkedOnce ==
    \A q \in QueueIds : \A i \in 1 .. Len(queue[q]) :
        /\ link[queue[q][i]] = q
        /\ \A j \in 1 .. Len(queue[q]) : queue[q][i] = queue[q][j] => i = j

\* Wait queues are in priority order when a thread is about to be woken.
WaitQueuesSorted ==
    InGuestCode => \A q \in WaitQueues : \A i, j \in 1 .. Len(queue[q]) :
        i <= j => prio[queue[q][i]] <= prio[queue[q][j]]

\* The active thread list holds the threads that can still be joined, only.
ListedIsAlive == \A t \in Threads : t \in listed <=> state[t] # "NONE"

\* Every list is well formed, whatever calls link and unlink its threads: the
\* run queues and their mask, the wait queues, the list of active threads.
QueuesWellFormed == PendingExact /\ LinkedOnce /\ WaitQueuesSorted /\ ListedIsAlive

\* A park whose timer is gone would need the reconciler of ProcessSleepTimers.
NoStrandedPark == parks \subseteq timers

\* Between two calls of the guest no thread is lost: each is linked where its
\* state says somebody will look for it, or waits for its own resume, or for
\* the timer that its park has.
NoLostThread ==
    /\ NoStrandedPark
    /\ InGuestCode \/ At("idle") =>
        \A t \in Threads :
            /\ state[t] = "READY" /\ suspend[t] = 0 => Linked(queue[prio[t]], t)
            /\ state[t] = "WAITING" => link[t] \in WaitQueues /\ Linked(queue[link[t]], t)
            /\ state[t] \in {"NONE", "MORIBUND", "RUNNING"} \/ (state[t] = "READY" /\ suspend[t] > 0)
                  => \A q \in QueueIds : ~ Linked(queue[q], t)

\* The fiber that executes guest code is that of the one RUNNING thread, the
\* one the scheduler, the fiber manager and the current context agree on.
HostRunsRunningThread ==
    InGuestCode =>
        /\ running = host
        /\ current = host
        /\ fiberCur = host
        /\ {t \in Threads : state[t] = "RUNNING"} = {host}

\* The count of a mutex says whether it is owned.
MutexCounted == \A m \in Mutexes : count[m] > 0 <=> owner[m] # NoThread

\* A mutex counts only while it is owned, is on the list of its owner and on no
\* other, and is not left with a thread that has ended.
MutexConsistent ==
    /\ MutexCounted
    /\ \A m \in Mutexes :
          /\ \A t \in Threads : Linked(owned[t], m) <=> owner[m] = t
          /\ InGuestCode /\ owner[m] # NoThread => ~ Terminated(owner[m])

\* Between two calls a thread that may run is at least as urgent as the first
\* waiter of each mutex it owns.
PriorityInherited ==
    InGuestCode =>
        \A t \in Threads : ~ Terminated(t) /\ suspend[t] = 0 =>
            prio[t] <= EffectivePriority(t, owned[t])

\* A guest that runs is the most urgent of the threads that could, unless
\* wakeups were deferred: nothing selects when the scheduler is enabled again.
MostUrgentRuns ==
    {"disable", "callback"} \cap guest = {} /\ InGuestCode => \A p \in pending : prio[host] <= p

\* A timer takes a suspension only off a thread that sleeps in OSSleepTicks.
TimerWakesSleeper ==
    [][\A t \in Threads : SleepTimerFires(t) /\ suspend'[t] # suspend[t] =>
          \E i \in 1 .. Len(stack[t]) : stack[t][i].op = "ticked"]_vars

\* Once the guest goes on after a thread has ended, the thread owns no mutex and
\* nobody waits to join it.
TerminatedThreadIsCleanedUp ==
    InGuestCode => \A t \in Threads : Terminated(t) => owned[t] = <<>> /\ queue[t] = <<>>

\* While the scheduler is disabled no other fiber gets the processor: a callback
\* runs inside host code that cannot be left (os_alarm.cpp:377).
NoSwitchWhileDisabled == [][disable > 0 => host' = host]_vars

\* Nothing but OSLockMutex puts a thread into a critical section, one at a time.
Critical == INSTANCE GuestMutex WITH holder <- holds
ImplementsGuestMutex == Critical!Spec

\* A handler that has begun ends, or the guest idles: no loop of the scheduler,
\* of a wakeup or of a mutex spins for ever.
HandlersEnd == []<>(InGuestCode \/ At("idle"))

\* Every sleep timer is served while the guest idles or makes calls that poll: no
\* thread is left in the idle loop, or in a handler, over a timer that is due.
SleepersAreServed == \A t \in Threads : t \in timers ~> t \notin timers \/ InGuestCode

=============================================================================

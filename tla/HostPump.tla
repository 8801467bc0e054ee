------------------------------- MODULE HostPump -------------------------------
(***************************************************************************)
(* The pump that stands in for the interrupts of the console: it runs due  *)
(* OSAlarms (hle/os/os_alarm.cpp), delivers network results and dispatches *)
(* queued NAND and IOS callbacks (hle/storage/nand_async.cpp).  The guest  *)
(* pumps from PPCMtdec and RFLiIsWorking, the renderer from the middle of  *)
(* GX calls with the scheduler disabled, the scheduler from its idle loop. *)
(*                                                                         *)
(* What a pump calls is guest code, which may wake a more urgent thread,   *)
(* pump again, or cancel the thread it interrupted.  A fiber that is       *)
(* switched away keeps the frames of its pump, while the guards against    *)
(* re-entry and the disable count belong to the host thread they share.    *)
(***************************************************************************)
EXTENDS Naturals, Sequences, FiniteSets

CONSTANTS
    Threads,       \* guest threads, each on a fiber of its own
    Prio,          \* their priorities, the smaller the more urgent
    Cancellable,   \* the threads OSCancelThread is called on
    Alarms,        \* OSAlarm structures
    MaxWait,       \* bound: ticks from arming an alarm to its fire time
    GuestBatch,    \* maxToProcess of PPCMtdec and RFLiIsWorking (32)
    HostBatch,     \* maxToProcess of the idle loop and the renderer (8)
    MinDrain,      \* the callbacks a drain may dispatch at least (64)
    MaxCallbacks   \* bound: callbacks queued at a time

ASSUME PumpConstants ==
    /\ Threads # {} /\ IsFiniteSet(Threads)
    /\ Prio \in [Threads -> Nat]
    /\ Cancellable \subseteq Threads
    /\ IsFiniteSet(Alarms)
    /\ {MaxWait, GuestBatch, HostBatch, MinDrain, MaxCallbacks} \subseteq Nat \ {0}

VARIABLES
    queue,       \* the alarm list; an alarm's handler field is set iff it is here
    wait,        \* ticks until the fire time of each alarm, 0 once it is due
    period,      \* OSAlarm.period, 0 for a one-shot alarm
    callbacks,   \* number of g_pendingNandCallbacks
    state,       \* OSThread.state
    host,        \* the thread whose fiber the host executes
    stack,       \* frames of host code on each fiber, topmost first
    resched,     \* kSchedulerReschedCounterAddr
    disable,     \* kSchedulerIdleFlagAddr, the OSDisableScheduler count
    alarmDepth,  \* g_alarmProcessDepth
    drainDepth   \* g_nandCallbackDrainDepth

alarmVars == <<queue, wait, period>>
threadVars == <<state, host, stack, resched>>
guards == <<alarmDepth, drainDepth>>
vars == <<alarmVars, callbacks, threadVars, disable, guards>>

Batches == {GuestBatch, HostBatch}
DrainBatch(b) == IF b > MinDrain THEN b ELSE MinDrain
Left == 0 .. DrainBatch(GuestBatch) \cup 0 .. DrainBatch(HostBatch)

\* A frame: what runs, what is left of its batch, the batch of its pump, and
\* whether the pump has completed any request so far.
Fr(op, n, b, did) == [op |-> op, n |-> n, b |-> b, did |-> did]
Frame == [op : {"alarms", "handler", "endHandler", "completions", "drain",
                "callback", "reschedule", "endDeferred", "idle"},
          n : Left, b : Batches, did : BOOLEAN]

\* Handlers run with the scheduler disabled; so does a deferred pump.
Disables(f) == f.op \in {"handler", "endHandler", "endDeferred"}

Has(s, op) == \E i \in 1 .. Len(s) : s[i].op = op
Places(P(_)) == {x \in UNION {{t} \X (1 .. Len(stack[t])) : t \in Threads} :
                    P(stack[x[1]][x[2]])}
Ready(st) == {t \in Threads : st[t] = "ready"}
MostUrgent(S) == {t \in S : \A u \in S : Prio[t] <= Prio[u]}

Init ==
    /\ queue = <<>>
    /\ wait = [a \in Alarms |-> 0]
    /\ period = [a \in Alarms |-> 0]
    /\ callbacks = 0
    /\ \E t \in MostUrgent(Threads) :
        /\ host = t
        /\ state = [u \in Threads |-> IF u = t THEN "running" ELSE "ready"]
    /\ stack = [t \in Threads |-> <<>>]
    /\ resched = FALSE
    /\ disable = 0
    /\ alarmDepth = 0
    /\ drainDepth = 0

-----------------------------------------------------------------------------
(***************************************************************************)
(* The scheduler as the pump sees it.  OsThreads has it in full.           *)
(***************************************************************************)

\* The idle loop has no running thread and a context of its own, for which
\* SelectThread returns at once.  (The forms named Def_Fault are what Def would
\* be with a plausible fault; the properties are tested against them.)
Refuses_NotWhenDisabled(s) == Has(s, "idle")
Refuses(s) == disable' > 0 \/ Has(s, "idle")

\* The host leaves the fiber of `host', whose frames are s, for a thread of st.
SwitchFrom(st, s) ==
    /\ \E t \in MostUrgent(Ready(st)) :
        /\ host' = t
        /\ state' = [st EXCEPT ![t] = "running"]
    /\ stack' = [stack EXCEPT ![host] = s]
    /\ resched' = FALSE

Stay(st, s, hint) ==
    /\ state' = st
    /\ stack' = [stack EXCEPT ![host] = s]
    /\ resched' = hint
    /\ UNCHANGED host

Keeps(st) == st[host] = "running" /\ \A t \in Ready(st) : Prio[host] <= Prio[t]

\* SelectThread(0), called with the thread states st and s left on the fiber.
Select(st, s, hint) ==
    LET st2 == IF st[host] = "running" THEN [st EXCEPT ![host] = "ready"] ELSE st
    IN  \/ (Refuses(s) \/ Keeps(st)) /\ Stay(st, s, hint)
        \/ ~ Refuses(s) /\ ~ Keeps(st) /\ Ready(st2) # {} /\ SwitchFrom(st2, s)
        \/ ~ Refuses(s) /\ ~ Keeps(st) /\ Ready(st2) = {}
            /\ Stay(st2, <<Fr("idle", 0, HostBatch, FALSE)>> \o s, hint)

\* RunDeferredReschedule.
RunDeferredReschedule(s) ==
    IF resched THEN Select(state, s, resched) ELSE Stay(state, s, resched)

IncrementDisable == disable' = disable + 1
DecrementDisable_Never == disable' = disable
DecrementDisable == disable' = IF disable = 0 THEN 0 ELSE disable - 1

-----------------------------------------------------------------------------
(***************************************************************************)
(* The alarm list.                                                         *)
(***************************************************************************)

Queued(a) == \E i \in 1 .. Len(queue) : queue[i] = a

\* The list without a, which is linked there once.
Without(q, a) ==
    LET k == CHOOSE i \in 1 .. Len(q) : q[i] = a
    IN  SubSeq(q, 1, k - 1) \o SubSeq(q, k + 1, Len(q))

InsertAlarm_AtTail(q, a, d) == Append(q, a)

\* a, which fires after d ticks, goes behind all that fire no later.
InsertAlarm(q, a, d) ==
    LET k == CHOOSE i \in 0 .. Len(q) :
                /\ \A j \in 1 .. i : wait[q[j]] <= d
                /\ i < Len(q) => wait[q[i + 1]] > d
    IN  SubSeq(q, 1, k) \o <<a>> \o SubSeq(q, k + 1, Len(q))

Arm(q, a, d, p) ==
    /\ queue' = InsertAlarm(q, a, d)
    /\ wait' = [wait EXCEPT ![a] = d]
    /\ period' = [period EXCEPT ![a] = p]

\* System time passes.
Tick ==
    /\ \E a \in Alarms : wait[a] > 0
    /\ wait' = [a \in Alarms |-> IF wait[a] = 0 THEN 0 ELSE wait[a] - 1]
    /\ UNCHANGED <<queue, period, callbacks, threadVars, disable, guards>>

-----------------------------------------------------------------------------
(***************************************************************************)
(* ProcessAlarmQueue, one frame at a time.                                 *)
(***************************************************************************)

Refused_PerFiber == Has(stack[host], "alarms")
Refused == alarmDepth # 0

\* A pump begins with s below it, unless a dispatch is under way.
ProcessAlarmQueue(b, s) ==
    IF Refused
    THEN Stay(state, s, resched) /\ UNCHANGED alarmDepth
    ELSE /\ Stay(state, <<Fr("alarms", b, b, FALSE)>> \o s, resched)
         /\ alarmDepth' = alarmDepth + 1

Top == Head(stack[host])
Rest == Tail(stack[host])
At(op) == stack[host] # <<>> /\ Top.op = op

HeadIsDue == queue # <<>> /\ wait[Head(queue)] = 0

\* The head of the list is due: it is unlinked, armed again if it is periodic
\* (InsertAlarm's SetTimer pumps, which is refused), and its handler called.
DispatchAlarm ==
    /\ At("alarms")
    /\ Top.n > 0 /\ HeadIsDue
    /\ LET a == Head(queue)
       IN  \/ period[a] = 0 /\ queue' = Tail(queue) /\ UNCHANGED <<wait, period>>
           \/ \E d \in 1 .. period[a] : Arm(Tail(queue), a, d, period[a])
    /\ IncrementDisable
    /\ Stay(state, <<Fr("handler", 0, Top.b, FALSE), [Top EXCEPT !.n = @ - 1]>> \o Rest, resched)
    /\ UNCHANGED <<callbacks, guards>>

\* The handler has returned.  The guard is still up.
EndHandler ==
    /\ At("endHandler")
    /\ DecrementDisable
    /\ RunDeferredReschedule(Rest)
    /\ UNCHANGED <<alarmVars, callbacks, guards>>

LowerGuard_NotWhenIdle ==
    alarmDepth' = IF Has(stack[host], "idle") THEN alarmDepth ELSE alarmDepth - 1
LowerGuard == alarmDepth' = alarmDepth - 1

EndDispatch ==
    /\ At("alarms")
    /\ ~ (Top.n > 0 /\ HeadIsDue)
    /\ LowerGuard
    /\ Stay(state, <<[Top EXCEPT !.op = "completions", !.n = 0]>> \o Rest, resched)
    /\ UNCHANGED <<alarmVars, callbacks, disable, drainDepth>>

\* Network_HLE_ProcessCompletions: waiters become READY without a reschedule,
\* or a callback is queued.  The drain follows, unless one is under way.
Completions ==
    /\ At("completions")
    /\ \E woken \in SUBSET {t \in Threads : state[t] = "asleep"}, new \in {0, 1} :
        LET st == [t \in Threads |-> IF t \in woken THEN "ready" ELSE state[t]]
            f == [Top EXCEPT !.did = woken # {} \/ new = 1]
            next == IF drainDepth # 0 THEN [f EXCEPT !.op = "reschedule", !.n = 0]
                    ELSE [f EXCEPT !.op = "drain", !.n = DrainBatch(f.b)]
        IN  /\ callbacks + new <= MaxCallbacks
            /\ callbacks' = callbacks + new
            /\ Stay(st, <<next>> \o Rest, resched \/ woken # {})
    /\ drainDepth' = IF drainDepth # 0 THEN drainDepth ELSE 1
    /\ UNCHANGED <<alarmVars, disable, alarmDepth>>

\* NandProcessPendingCallbacks.
DispatchNandCallback ==
    /\ At("drain") /\ Top.n > 0 /\ callbacks > 0
    /\ callbacks' = callbacks - 1
    /\ Stay(state, <<Fr("callback", 0, Top.b, FALSE),
                     [Top EXCEPT !.n = @ - 1, !.did = TRUE]>> \o Rest, resched)
    /\ UNCHANGED <<alarmVars, disable, guards>>

EndDrain ==
    /\ At("drain")
    /\ ~ (Top.n > 0 /\ callbacks > 0)
    /\ drainDepth' = drainDepth - 1
    /\ Stay(state, <<[Top EXCEPT !.op = "reschedule", !.n = 0]>> \o Rest, resched)
    /\ UNCHANGED <<alarmVars, callbacks, disable, alarmDepth>>

EndPump ==
    /\ At("reschedule")
    /\ UNCHANGED <<alarmVars, callbacks, disable, guards>>
    /\ IF Top.did THEN RunDeferredReschedule(Rest) ELSE Stay(state, Rest, resched)

\* OS_HLE_ProcessAlarmsDeferred returns to the renderer; nothing is selected.
EndDeferred ==
    /\ At("endDeferred")
    /\ DecrementDisable
    /\ Stay(state, Rest, resched)
    /\ UNCHANGED <<alarmVars, callbacks, guards>>

-----------------------------------------------------------------------------
(***************************************************************************)
(* Guest code: of a thread whose stack is empty, of a handler, or of a     *)
(* callback.  The latter two make at most one call each.                   *)
(***************************************************************************)

InThread == stack[host] = <<>>
InCode == InThread \/ At("handler") \/ At("callback")

\* What is left on the fiber when the code that is running has returned.
After ==
    CASE InThread -> <<>>
      [] At("handler") -> <<[Top EXCEPT !.op = "endHandler"]>> \o Rest
      [] OTHER -> Rest

Return ==
    /\ InCode /\ ~ InThread
    /\ Stay(state, After, resched)
    /\ UNCHANGED <<alarmVars, callbacks, disable, guards>>

\* OSSetAlarm, on an alarm that is not armed.
OSSetAlarm(a, d) ==
    /\ InCode /\ ~ Queued(a)
    /\ Arm(queue, a, d, 0)
    /\ Stay(state, After, resched)
    /\ UNCHANGED <<callbacks, disable, guards>>

\* OSSetPeriodicAlarm and OSCancelAlarm.  The SDK sets the decrementer when
\* the head of the list has changed, and PPCMtdec pumps.
SetTimer(changed) ==
    /\ IF changed THEN ProcessAlarmQueue(GuestBatch, After)
       ELSE Stay(state, After, resched) /\ UNCHANGED alarmDepth
    /\ UNCHANGED <<callbacks, disable, drainDepth>>

OSSetPeriodicAlarm(a, d, p) ==
    /\ InCode /\ ~ Queued(a)
    /\ Arm(queue, a, d, p)
    /\ SetTimer(queue'[1] = a)

OSCancelAlarm(a) ==
    /\ InCode /\ Queued(a)
    /\ queue' = Without(queue, a)
    /\ wait' = [wait EXCEPT ![a] = 0]
    /\ period' = [period EXCEPT ![a] = 0]
    /\ SetTimer(queue[1] = a /\ Len(queue) > 1)

\* An asynchronous NAND call runs at once and queues its callback.
NandAsync ==
    /\ InCode /\ callbacks < MaxCallbacks
    /\ callbacks' = callbacks + 1
    /\ Stay(state, After, resched)
    /\ UNCHANGED <<alarmVars, disable, guards>>

\* OSWakeupThread on a queue where t is asleep.
OSWakeupThread(t) ==
    /\ InCode /\ state[t] = "asleep"
    /\ UNCHANGED <<alarmVars, callbacks, disable, guards>>
    /\ Select([state EXCEPT ![t] = "ready"], After, TRUE)

\* OSCancelThread.  A renderer call is not cancelled from its own pump.
OSCancelThread(t) ==
    /\ InCode /\ state[t] # "ended"
    /\ t = host => ~ Has(stack[host], "endDeferred")
    /\ UNCHANGED <<alarmVars, callbacks, disable, guards>>
    /\ LET st == [state EXCEPT ![t] = "ended"]
           hint == resched \/ state[t] = "running"
       IN  IF hint THEN Select(st, After, hint) ELSE Stay(st, After, hint)

\* OSSleepThread.  A handler that calls it returns at once, as its disable
\* count forbids to park; callbacks must not call it.
OSSleepThread ==
    /\ InThread /\ disable = 0
    /\ UNCHANGED <<alarmVars, callbacks, disable, guards>>
    /\ Select([state EXCEPT ![host] = "asleep"], <<>>, TRUE)

RFLiIsWorking ==
    /\ InThread
    /\ ProcessAlarmQueue(GuestBatch, <<>>)
    /\ UNCHANGED <<alarmVars, callbacks, disable, drainDepth>>

\* A GX call services the guest's timing in the middle of its work.
ProcessAlarmsDeferred ==
    /\ InThread
    /\ IncrementDisable
    /\ ProcessAlarmQueue(HostBatch, <<Fr("endDeferred", 0, HostBatch, FALSE)>>)
    /\ UNCHANGED <<alarmVars, callbacks, drainDepth>>

-----------------------------------------------------------------------------
(***************************************************************************)
(* The idle loop of SelectThread.                                          *)
(***************************************************************************)

\* A retrace, a sleep timer or the audio wakes a thread.
DeviceWakes(t) ==
    /\ At("idle") /\ state[t] = "asleep"
    /\ Stay([state EXCEPT ![t] = "ready"], stack[host], TRUE)
    /\ UNCHANGED <<alarmVars, callbacks, disable, guards>>

IdlePump ==
    /\ At("idle") /\ Ready(state) = {}
    /\ ProcessAlarmQueue(HostBatch, stack[host])
    /\ UNCHANGED <<alarmVars, callbacks, disable, drainDepth>>

IdleEnds ==
    /\ At("idle") /\ Ready(state) # {}
    /\ SwitchFrom(state, Rest)
    /\ UNCHANGED <<alarmVars, callbacks, disable, guards>>

GuestCode ==
    \/ \E a \in Alarms, d \in 0 .. MaxWait : OSSetAlarm(a, d)
    \/ \E a \in Alarms, d \in 0 .. MaxWait, p \in 1 .. MaxWait : OSSetPeriodicAlarm(a, d, p)
    \/ \E a \in Alarms : OSCancelAlarm(a)
    \/ NandAsync
    \/ \E t \in Threads : OSWakeupThread(t)
    \/ \E t \in Cancellable : OSCancelThread(t)
    \/ Return

HostCode ==
    \/ DispatchAlarm \/ EndHandler \/ EndDispatch
    \/ Completions \/ DispatchNandCallback \/ EndDrain \/ EndPump
    \/ EndDeferred \/ IdleEnds
    \/ ~ InThread /\ GuestCode

Next ==
    \/ HostCode
    \/ InThread /\ GuestCode
    \/ OSSleepThread \/ RFLiIsWorking \/ ProcessAlarmsDeferred
    \/ IdlePump
    \/ \E t \in Threads : DeviceWakes(t)
    \/ Tick

\* The host finishes what it has begun; time passes.  A thread that keeps
\* being run sleeps at last, as the threads of a frame loop do.  A pass of the
\* idle loop is much shorter than the period of any device, so not every pass
\* finds a thread woken before it comes to the pump.
Fairness ==
    /\ WF_vars(HostCode)
    /\ WF_vars(Tick)
    /\ \A t \in Threads : SF_vars(host = t /\ OSSleepThread)
    /\ SF_vars(IdlePump)

Spec == Init /\ [][Next]_vars
FairSpec == Spec /\ Fairness

-----------------------------------------------------------------------------
(***************************************************************************)
(* Properties.                                                             *)
(***************************************************************************)

\* The type invariant.
TypeOK ==
    /\ queue \in Seq(Alarms) /\ Len(queue) <= Cardinality(Alarms)
    /\ wait \in [Alarms -> 0 .. MaxWait]
    /\ period \in [Alarms -> 0 .. MaxWait]
    /\ callbacks \in 0 .. MaxCallbacks
    /\ state \in [Threads -> {"ready", "running", "asleep", "ended"}]
    /\ host \in Threads
    /\ stack \in [Threads -> Seq(Frame)]
    /\ resched \in BOOLEAN
    /\ disable \in 0 .. 2
    /\ alarmDepth \in Nat
    /\ drainDepth \in Nat

\* The alarm list holds each alarm once, in the order of fire times, however
\* handlers and preempting threads arm and cancel while it is being processed:
\* the loop of ProcessAlarmQueue stops at the first alarm that is not due.
QueueSorted ==
    \A i, j \in 1 .. Len(queue) : i < j =>
        queue[i] # queue[j] /\ wait[queue[i]] <= wait[queue[j]]

\* No dispatch and no drain is ever entered from inside another, on whatever
\* fiber that other one was left: the chain of hidden-Mii loads that nested
\* hundreds of frames deep is dispatched flat (nand_async.cpp:68).
OneDispatch ==
    /\ Cardinality(Places(LAMBDA f : f.op = "alarms")) = alarmDepth
    /\ Cardinality(Places(LAMBDA f : f.op = "drain")) = drainDepth
    /\ {alarmDepth, drainDepth} \subseteq {0, 1}

\* The disable count is exactly what the frames of the executing fiber have
\* raised it by.  Were one switched away under a raised count, no thread could
\* run but the one that was switched to (os_alarm.cpp:384-388).
DisableBalanced ==
    /\ disable = Cardinality(Places(Disables))
    /\ \A x \in Places(Disables) : x[1] = host

\* The frames of a dispatch or a drain are on a fiber that will not run again.
GuardLost ==
    \E t \in Threads : \E i \in 1 .. Len(stack[t]) :
        /\ state[t] = "ended" /\ stack[t][i].op \in {"alarms", "drain"}
        /\ t # host \/ \E j \in 1 .. i - 1 : stack[t][j].op = "idle"

\* A due alarm fires or is cancelled, and a queued callback is followed by the
\* dispatch of one, unless a thread was cancelled under a raised guard.
DueIsServed ==
    /\ \A a \in Alarms :
        Queued(a) /\ wait[a] = 0 ~> GuardLost \/ ~ (Queued(a) /\ wait[a] = 0)
    /\ callbacks > 0 ~> GuardLost \/ At("callback")

\* The dispatch guard is up only while the fiber that dispatches is executing,
\* so that no other fiber is refused a pump: what the comment at
\* os_alarm.cpp:165-168 gives as the reason for the guard's scope.
GuardStaysWithDispatch == alarmDepth # 0 => Has(stack[host], "alarms")

=============================================================================

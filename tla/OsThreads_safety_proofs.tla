----------------------- MODULE OsThreads_safety_proofs -----------------------
(***************************************************************************)
(* Safety of the scheduler of OsThreads: no switch while it is disabled,   *)
(* for every guest.  For guests that keep the two rules of                 *)
(* GuestsKeepTheRules: every list of threads is well formed, and guest     *)
(* code runs on the fiber of the one running thread; with                  *)
(* SleepersAreLeftAlone, timers wake sleepers.  In the behaviours in which *)
(* nobody exits or is cancelled while another waits for a mutex it owns,   *)
(* EndsUncontended: no thread is lost, the owners of mutexes and their     *)
(* lists agree, critical sections exclude each other, and a thread that    *)
(* has ended is cleaned up.  For guests whose enders own nothing,          *)
(* EndersOwnNothing: owners inherit the priorities of those who wait, and  *)
(* the most urgent thread runs.  Types, the cover of the mask and the      *)
(* counts of mutexes are those of IInv, proved in OsThreads_proofs.        *)
(***************************************************************************)
EXTENDS OsThreads_proofs

-----------------------------------------------------------------------------
(***************************************************************************)
(* What the steps do to stacks.                                            *)
(***************************************************************************)

\* A step that replaces the stack of the running fiber replaces that one only.
LEMMA GotoHere ==
    ASSUME IInv, NEW s, Goto(s)
    PROVE  /\ stack'[host] = s
           /\ \A t \in Threads \ {host} : stack'[t] = stack[t]
BY DEF Goto, IInv, TypeOK, FibersTypeOK

\* The frames of the running fiber are of a set when all of its stack are.
LEMMA TopOf ==
    ASSUME NEW F, stack[host] \in Seq(F), stack[host] # <<>>
    PROVE  Top \in F /\ Rest \in Seq(F)
BY HeadTailProperties DEF Top, Rest

\* One frame, or two, on a stack.
LEMMA PushOn ==
    ASSUME NEW F, NEW s \in Seq(F), NEW f \in F
    PROVE  /\ <<f>> \o s \in Seq(F)
           /\ \A g \in F : <<f, g>> \o s \in Seq(F)
<1>1. <<f>> \in Seq(F) /\ \A g \in F : <<f, g>> \in Seq(F)
  OBVIOUS
<1> QED
  BY <1>1, ConcatProperties

\* OSResumeThread and OSSuspendThread go on with what their caller does next,
\* after the priorities of a chain of owners and a reschedule at most.
LEMMA ResumeStack ==
    ASSUME IInv, NEW t \in Threads, NEW rest,
           ResumeThread(t, rest) \/ SuspendThread(t, rest)
    PROVE  \E b \in Threads \cup {NoThread} :
               \/ Goto(rest)
               \/ Goto(<<Fr("propagate", NoQueue, b, 0), ReschedFrame>> \o rest)
BY BlockedOnType DEF ResumeThread, SuspendThread

\* F holds every frame that handlers push, apart from those of the search of
\* SelectThread, of a join, of the end of a fiber, and those of HoldsTop and of
\* HoldsEnding.
HoldsPushed(F) ==
    /\ F \subseteq Frame
    /\ ReschedFrame \in F
    /\ \A n \in 0 .. 1 : SelectFrame(n) \in F /\ Fr("endDeferred", NoQueue, NoThread, n) \in F
    /\ Fr("exited", NoQueue, NoThread, 0) \in F
    /\ \A q \in WaitQueues \ Mutexes : WakeFrame(q) \in F
    /\ \A q \in WaitQueues, t \in Threads : Fr("slept", q, t, 0) \in F
    /\ "lock" \in guest => \A m \in Mutexes, t \in Threads : Fr("lock", m, t, 0) \in F
    /\ \A t \in Threads : \A op \in {"joined", "ticked"} : Fr(op, NoQueue, t, 0) \in F
    /\ \A f \in F : f.op \in {"wake", "wakeResched", "wakeFiber"} =>
          [f EXCEPT !.op = Readied(@)] \in F

\* F also holds the frames that are gone before anything else is done: those of
\* going to sleep, of inheriting priorities, and of a wakeup on a mutex.
HoldsTop(F) ==
    /\ \A m \in Mutexes : WakeFrame(m) \in F
    /\ \A q \in Queues \cup Mutexes : Fr("sleep", q, NoThread, 0) \in F
    /\ \A t \in Threads \cup {NoThread}, n \in 0 .. NumPrio :
          Fr("promote", NoQueue, t, n) \in F /\ Fr("propagate", NoQueue, t, n) \in F

\* F holds the frame that releases the mutexes of a thread that ends.
HoldsEnding(F) == \A t \in Threads : Fr("unlockAll", NoQueue, t, 0) \in F

\* A step on one fiber leaves frames of F on it, and may clear the stacks of others.
Pushes(F) ==
    /\ UNCHANGED host
    /\ stack'[host] \in Seq(F)
    /\ \A t \in Threads \ {host} : stack'[t] \in {stack[t], <<>>}

\* A step that replaces the stack by frames of F pushes frames of F.
LEMMA PushesGoto ==
    ASSUME IInv, NEW F, NEW s \in Seq(F), Goto(s), UNCHANGED host
    PROVE  Pushes(F)
BY GotoHere DEF Pushes

\* The frames of handlers push frames of handlers.
LEMMA FramesPush ==
    ASSUME IInv, NEW F, HoldsPushed(F),
           \/ HoldsTop(F)
           \/ ~ (PromoteStep \/ PropagateStep \/ LockStep \/ UnlockAllStep \/ \E t \in Threads : SleepTimerFires(t)),
           stack[host] \in Seq(F) \/ (At("sleep") /\ Rest \in Seq(F)),
           \/ \E t \in Threads : SleepTimerFires(t)
           \/ SelectRefused \/ (\E q \in Queues : IdleCallback(q)) \/ ReschedStep
           \/ PromoteStep \/ PropagateStep \/ SleepStep \/ SleptStep \/ LockStep \/ WakeStep
           \/ WakeEnds \/ UnlockAllStep \/ ExitedStep \/ JoinedStep \/ TickedStep \/ EndDeferredStep
    PROVE  Pushes(F)
<1>0. /\ stack[host] # <<>> /\ Top \in Frame /\ Rest \in Seq(F)
      /\ ~ At("sleep") => stack[host] \in Seq(F) /\ Top \in F
  <2>1. stack[host] # <<>>
    BY DEF SleepTimerFires, Polling, SelectRefused, IdleCallback, ReschedStep, PromoteStep,
           PropagateStep, SleepStep, SleptStep, LockStep, WakeStep, WakeEnds, UnlockAllStep,
           ExitedStep, JoinedStep, TickedStep, EndDeferredStep, At
  <2>2. Top \in Frame
    BY <2>1, TopType DEF At
  <2>3. stack[host] \in Seq(F) => Top \in F /\ Rest \in Seq(F)
    BY <2>1, TopOf
  <2> QED
    BY <2>1, <2>2, <2>3
<1>1. ASSUME NEW t \in Threads, SleepTimerFires(t) PROVE Pushes(F)
  <2>1. UNCHANGED host /\ stack[host] \in Seq(F)
    BY <1>0, <1>1 DEF SleepTimerFires, SameFiber, Polling, At
  <2>2. CASE ResumeThread(t, stack[host])
    <3>1. PICK b \in Threads \cup {NoThread} :
             \/ Goto(stack[host])
             \/ Goto(<<Fr("propagate", NoQueue, b, 0), ReschedFrame>> \o stack[host])
      BY <2>2, ResumeStack
    <3>2. <<Fr("propagate", NoQueue, b, 0), ReschedFrame>> \o stack[host] \in Seq(F)
      BY <1>1, <2>1, PushOn, Zero DEF HoldsPushed, HoldsTop
    <3> QED
      BY <2>1, <3>1, <3>2, PushesGoto
  <2>3. CASE UNCHANGED stack
    BY <2>1, <2>3 DEF Pushes
  <2> QED
    BY <1>1, <2>2, <2>3 DEF SleepTimerFires
<1>2. CASE SelectRefused \/ SleptStep \/ JoinedStep \/ TickedStep
  <2>1. UNCHANGED host /\ Goto(Rest)
    BY <1>2 DEF SelectRefused, SleptStep, JoinedStep, TickedStep, Return, SameFiber
  <2> QED
    BY <1>0, <2>1, PushesGoto
<1>3. ASSUME NEW q \in Queues, IdleCallback(q) PROVE Pushes(F)
  <2>1. UNCHANGED host /\ Goto(<<WakeFrame(q)>> \o stack[host]) /\ stack[host] \in Seq(F)
    BY <1>0, <1>3 DEF IdleCallback, SameFiber, At
  <2>2. WakeFrame(q) \in F
    BY QueueIdsFacts, AddressesAssumption DEF HoldsPushed
  <2> QED
    BY <2>1, <2>2, PushOn, PushesGoto
<1>4. CASE ReschedStep \/ WakeEnds \/ ExitedStep \/ EndDeferredStep
  <2>1. /\ UNCHANGED host
        /\ Goto(Rest) \/ Goto(<<SelectFrame(0)>> \o Rest) \/ Goto(<<ReschedFrame>> \o Rest)
    BY <1>4 DEF ReschedStep, WakeEnds, ExitedStep, EndDeferredStep, SameFiber
  <2>2. <<SelectFrame(0)>> \o Rest \in Seq(F) /\ <<ReschedFrame>> \o Rest \in Seq(F)
    BY <1>0, PushOn DEF HoldsPushed
  <2> QED
    BY <1>0, <2>1, <2>2, PushesGoto
<1>5. CASE PromoteStep \/ PropagateStep
  <2>1. UNCHANGED host
    BY <1>5 DEF PromoteStep, PropagateStep, Return, SameFiber
  <2>2. \/ Goto(Rest)
        \/ \E n \in {0, Top.n} : \E op \in {"promote", "propagate"} :
              /\ Top.t # NoThread
              /\ Goto(<<Fr(op, NoQueue, BlockedOn(Top.t), n)>> \o Rest)
    BY <1>5 DEF PromoteStep, PropagateStep, Return
  <2>3. ASSUME Top.t # NoThread, NEW n \in {0, Top.n}, NEW op \in {"promote", "propagate"}
        PROVE  <<Fr(op, NoQueue, BlockedOn(Top.t), n)>> \o Rest \in Seq(F)
    <3>1. Top.t \in Threads /\ n \in 0 .. NumPrio
      BY <1>0, <2>3, Zero DEF Frame
    <3>2. BlockedOn(Top.t) \in Threads \cup {NoThread}
      BY <3>1, BlockedOnType
    <3>3. Fr(op, NoQueue, BlockedOn(Top.t), n) \in F
      BY <1>5, <3>1, <3>2 DEF HoldsTop
    <3> QED
      BY <1>0, <3>3, PushOn
  <2> QED
    BY <1>0, <2>1, <2>2, <2>3, PushesGoto
<1>6. CASE SleepStep
  <2> DEFINE t == IF running = NoThread THEN Main ELSE running
  <2>1. /\ UNCHANGED host
        /\ Goto(Rest) \/ Goto(<<SelectFrame(0), Fr("slept", Top.q, t, 0)>> \o Rest)
    BY <1>6 DEF SleepStep, SameFiber
  <2>2. Top.q \in WaitQueues /\ t \in Threads
    BY <1>0, <1>6, ConstantsAssumption DEF SleepStep, At, Frame, IInv, TypeOK, SchedulerTypeOK
  <2> HIDE DEF t
  <2>3. SelectFrame(0) \in F /\ Fr("slept", Top.q, t, 0) \in F
    BY <2>2 DEF HoldsPushed
  <2> QED
    BY <1>0, <2>1, <2>3, PushOn, PushesGoto
<1>7. CASE LockStep
  <2>1. /\ UNCHANGED host /\ stack[host] \in Seq(F)
        /\ \/ Goto(Rest)
           \/ Goto(<<Fr("promote", NoQueue, owner[Top.q], prio[Top.t]), Fr("sleep", Top.q, NoThread, 0)>>
                   \o stack[host])
    BY <1>0, <1>7 DEF LockStep, SameFiber, At
  <2>2. Top.q \in Mutexes /\ Top.t \in Threads
    BY <1>0, <1>7 DEF LockStep, At, Frame
  <2>3. owner[Top.q] \in Threads \cup {NoThread} /\ prio[Top.t] \in 0 .. NumPrio
    BY <2>2 DEF IInv, TypeOK, MutexesTypeOK, ThreadsTypeOK
  <2>4. Fr("promote", NoQueue, owner[Top.q], prio[Top.t]) \in F /\ Fr("sleep", Top.q, NoThread, 0) \in F
    BY <1>7, <2>2, <2>3 DEF HoldsTop
  <2> QED
    BY <1>0, <2>1, <2>4, PushOn, PushesGoto
<1>8. CASE WakeStep
  <2>1. /\ UNCHANGED host /\ stack[host] \in Seq(F) /\ Top \in F
        /\ Top.op \in {"wake", "wakeResched", "wakeFiber"}
        /\ Goto(stack[host]) \/ Goto(<<[Top EXCEPT !.op = Readied(@)]>> \o Rest)
    BY <1>0, <1>8 DEF WakeStep, SameFiber, At
  <2>2. [Top EXCEPT !.op = Readied(@)] \in F
    BY <2>1 DEF HoldsPushed
  <2>3. <<[Top EXCEPT !.op = Readied(@)]>> \o Rest \in Seq(F)
    BY <1>0, <2>2, PushOn
  <2> QED
    BY <2>1, <2>3, PushesGoto
<1>9. CASE UnlockAllStep
  <2> DEFINE ms == owned[Top.t]
  <2>1. /\ UNCHANGED host /\ stack[host] \in Seq(F)
        /\ \/ Goto(Rest)
           \/ ms # <<>> /\ Goto(<<WakeFrame(Head(ms))>> \o stack[host])
    BY <1>0, <1>9 DEF UnlockAllStep, SameFiber, At
  <2>2. ASSUME ms # <<>> PROVE <<WakeFrame(Head(ms))>> \o stack[host] \in Seq(F)
    <3>1. Top.t \in Threads
      BY <1>0, <1>9 DEF UnlockAllStep, At, Frame
    <3>2. ms \in Seq(Mutexes)
      BY <3>1 DEF IInv, TypeOK, ThreadsTypeOK
    <3>3. Head(ms) \in Mutexes
      BY <2>2, <3>2, HeadTailProperties
    <3> HIDE DEF ms
    <3>4. WakeFrame(Head(ms)) \in F
      BY <1>9, <3>3 DEF HoldsTop
    <3> QED
      BY <2>1, <3>4, PushOn
  <2> HIDE DEF ms
  <2> QED
    BY <1>0, <2>1, <2>2, PushesGoto
<1> QED
  BY <1>1, <1>2, <1>3, <1>4, <1>5, <1>6, <1>7, <1>8, <1>9

\* What the guest and the host's callbacks begin, a join and the return of an
\* entry function apart.
LEMMA CallsPush ==
    ASSUME IInv, NEW F, HoldsPushed(F),
           \/ HoldsTop(F)
           \/ ~ (OSThreadCall \/ OSSleepTicks \/ (\E m \in Mutexes : OSUnlockMutex(m))
                 \/ \E t \in Threads : OSResumeThread(t) \/ OSSuspendThread(t)),
           HoldsEnding(F) \/ ~ (OSExitThread \/ \E t \in Threads : OSCancelThread(t)),
           GuestCall, ~ FiberReturns, \A t \in Threads : ~ OSJoinThread(t)
    PROVE  Pushes(F)
<1>0. /\ host \in Threads /\ stack \in [Threads -> Seq(Frame)]
      /\ <<>> \in Seq(F) /\ \A f, g \in F : <<f>> \in Seq(F) /\ <<f, g>> \in Seq(F)
  BY DEF IInv, TypeOK, FibersTypeOK
<1>1. ASSUME NEW t \in Threads, NEW d \in BOOLEAN, OSCreateThread(t, d) PROVE Pushes(F)
  <2>1. UNCHANGED host /\ stack' = [stack EXCEPT ![t] = <<>>] /\ stack[host] = <<>>
    BY <1>1 DEF OSCreateThread, Calls, InGuestCode
  <2> QED
    BY <1>0, <2>1 DEF Pushes
<1>2. ASSUME NEW t \in Threads, OSResumeThread(t) \/ OSSuspendThread(t) PROVE Pushes(F)
  <2>1. UNCHANGED host /\ (ResumeThread(t, <<>>) \/ SuspendThread(t, <<>>))
    BY <1>2 DEF OSResumeThread, OSSuspendThread, SameFiber
  <2>2. PICK b \in Threads \cup {NoThread} :
           \/ Goto(<<>>)
           \/ Goto(<<Fr("propagate", NoQueue, b, 0), ReschedFrame>> \o <<>>)
    BY <2>1, ResumeStack
  <2>3. <<Fr("propagate", NoQueue, b, 0), ReschedFrame>> \o <<>> \in Seq(F)
    BY <1>0, <1>2, PushOn, Zero DEF HoldsPushed, HoldsTop
  <2> QED
    BY <1>0, <2>1, <2>2, <2>3, PushesGoto
<1>3. CASE OSSleepTicks
  <2> DEFINE rest == <<Fr("ticked", NoQueue, Sleeper, 0)>>
  <2>1. UNCHANGED host /\ Sleeper \in Threads /\ SuspendThread(Sleeper, rest)
    BY <1>3 DEF OSSleepTicks, SameFiber, Sleeper, IInv, TypeOK, FibersTypeOK, SchedulerTypeOK
  <2>2. rest \in Seq(F)
    BY <1>0, <2>1 DEF HoldsPushed
  <2> HIDE DEF rest
  <2>3. PICK b \in Threads \cup {NoThread} :
           Goto(rest) \/ Goto(<<Fr("propagate", NoQueue, b, 0), ReschedFrame>> \o rest)
    BY <2>1, ResumeStack
  <2>4. <<Fr("propagate", NoQueue, b, 0), ReschedFrame>> \o rest \in Seq(F)
    BY <1>3, <2>2, PushOn, Zero DEF HoldsPushed, HoldsTop
  <2> QED
    BY <2>1, <2>2, <2>3, <2>4, PushesGoto
<1>4. CASE OSThreadCall
  <2>1. UNCHANGED host
    BY <1>4 DEF OSThreadCall, SameFiber
  <2>2. \E f \in F : Goto(<<f>>)
    <3>1. \A q \in Queues : Fr("sleep", q, NoThread, 0) \in F /\ WakeFrame(q) \in F
      BY <1>4, QueueIdsFacts, AddressesAssumption DEF HoldsPushed, HoldsTop
    <3>2. SelectFrame(1) \in F
      BY DEF HoldsPushed
    <3>3. \/ \E q \in Queues : Goto(<<Fr("sleep", q, NoThread, 0)>>)
          \/ \E q \in Queues : Goto(<<WakeFrame(q)>>)
          \/ Goto(<<SelectFrame(1)>>)
      BY <1>4, Zenon DEF OSThreadCall, CallHandler
    <3> QED
      BY <3>1, <3>2, <3>3, Zenon
  <2> QED
    BY <1>0, <2>1, <2>2, PushesGoto
<1>5. ASSUME NEW m \in Mutexes, OSLockMutex(m) PROVE Pushes(F)
  <2>1. UNCHANGED host /\ stack[host] = <<>>
    BY <1>5 DEF OSLockMutex, SameFiber, Calls, InGuestCode
  <2>2. CASE running = NoThread
    BY <1>0, <1>5, <2>1, <2>2 DEF OSLockMutex, Pushes
  <2>3. CASE running # NoThread
    <3>1. Goto(<<Fr("lock", m, running, 0)>>) /\ running \in Threads /\ "lock" \in guest
      BY <1>5, <2>3 DEF OSLockMutex, Calls, IInv, TypeOK, SchedulerTypeOK
    <3>2. Fr("lock", m, running, 0) \in F
      BY <3>1 DEF HoldsPushed
    <3> QED
      BY <1>0, <2>1, <3>1, <3>2, PushesGoto
  <2> QED
    BY <2>2, <2>3
<1>6. ASSUME NEW m \in Mutexes, OSUnlockMutex(m) PROVE Pushes(F)
  <2>1. UNCHANGED host /\ (Goto(<<WakeFrame(m)>>) \/ Goto(<<>>))
    BY <1>6 DEF OSUnlockMutex, SameFiber
  <2>2. WakeFrame(m) \in F
    BY <1>6 DEF HoldsTop
  <2> QED
    BY <1>0, <2>1, <2>2, PushesGoto
<1>7. ASSUME NEW t \in Threads, NEW f \in {Fr("exited", NoQueue, NoThread, 0), ReschedFrame},
             TerminateThread(t, <<f>>), HoldsEnding(F)
      PROVE  Pushes(F)
  <2>1. UNCHANGED host /\ stack' = [stack EXCEPT ![t] = <<>>, ![host] = EndingFrames(t, <<f>>)]
    BY <1>7 DEF TerminateThread
  <2>2. EndingFrames(t, <<f>>) \in Seq(F)
    <3>1. f \in F /\ Fr("unlockAll", NoQueue, t, 0) \in F /\ WakeFrame(t) \in F
      BY <1>7, QueueIdsFacts, AddressesAssumption DEF HoldsPushed, HoldsEnding
    <3>2. <<f>> \in Seq(F)
      BY <1>0, <3>1
    <3> QED
      BY <3>1, <3>2, PushOn DEF EndingFrames
  <2> QED
    BY <1>0, <2>1, <2>2 DEF Pushes
<1>8. CASE OSExitThread \/ \E t \in Threads : OSCancelThread(t)
  BY <1>7, <1>8 DEF OSExitThread, OSCancelThread
<1>9. ASSUME NEW t \in Threads, OSDetachThread(t) PROVE Pushes(F)
  <2>1. UNCHANGED host /\ Goto(<<WakeFrame(t)>>) /\ WakeFrame(t) \in F
    BY <1>9, QueueIdsFacts, AddressesAssumption DEF OSDetachThread, SameFiber, HoldsPushed
  <2> QED
    BY <1>0, <2>1, PushesGoto
<1>10. CASE OSDisableScheduler \/ OSEnableScheduler
  <2>1. UNCHANGED <<host, stack>> /\ stack[host] = <<>>
    BY <1>10 DEF OSDisableScheduler, OSEnableScheduler, fiber, Calls, InGuestCode
  <2> QED
    BY <1>0, <2>1 DEF Pushes
<1>11. ASSUME NEW q \in Queues, NEW n \in 0 .. 1, DeferredCallback(q, n) PROVE Pushes(F)
  <2>1. UNCHANGED host /\ Goto(<<WakeFrame(q), Fr("endDeferred", NoQueue, NoThread, n)>>)
    BY <1>11 DEF DeferredCallback, SameFiber
  <2>2. WakeFrame(q) \in F /\ Fr("endDeferred", NoQueue, NoThread, n) \in F
    BY QueueIdsFacts, AddressesAssumption DEF HoldsPushed
  <2> QED
    BY <1>0, <2>1, <2>2, PushesGoto
<1> QED
  BY <1>1, <1>2, <1>3, <1>4, <1>5, <1>6, <1>8, <1>9, <1>10, <1>11 DEF GuestCall

-----------------------------------------------------------------------------
(***************************************************************************)
(* No switch while the scheduler is disabled, whatever the guest does.     *)
(***************************************************************************)

\* Frames that do not end with a switch before SelectThread has agreed to one.
Calm == {f \in Frame : f.op \notin {"pick", "idle", "fiberEnd"}}

\* The inductive part: once SelectThread has agreed to switch, nothing disables
\* the scheduler before the switch.
DisabledIsCalm == disable > 0 => stack[host] \in Seq(Calm)

\* The frames that the handlers push, apart from the three, are calm.
LEMMA CalmForms ==
    /\ HoldsPushed(Calm) /\ HoldsTop(Calm) /\ HoldsEnding(Calm)
    /\ \A q \in WaitQueues : Fr("sleep", q, NoThread, 0) \in Calm
<1>1. \A f \in Calm : f.op \in {"wake", "wakeResched", "wakeFiber"} => [f EXCEPT !.op = Readied(@)] \in Calm
  BY DEF Calm, Frame, FrameOps, Readied
<1> QED
  BY <1>1, FrameForms, QueueIdsFacts DEF HoldsPushed, HoldsTop, HoldsEnding, Calm, Fr, ReschedFrame, SelectFrame, WakeFrame

\* Every step keeps the frames calm while the scheduler is disabled, and stays
\* on the fiber it began on: SelectThread agrees to nothing, and only from guest
\* code is the scheduler disabled.
LEMMA CalmStep ==
    ASSUME IInv, DisabledIsCalm, [Next]_vars
    PROVE  DisabledIsCalm' /\ (disable > 0 => host' = host)
<1>0. /\ host \in Threads /\ disable \in Nat
      /\ disable > 0 /\ stack[host] # <<>> => Top.op \notin {"pick", "idle", "fiberEnd"}
  <2>1. host \in Threads /\ disable \in Nat
    BY DEF IInv, TypeOK, FibersTypeOK, SchedulerTypeOK
  <2> QED
    BY <2>1, TopOf DEF DisabledIsCalm, Calm
<1>1. CASE SelectBegins
  BY <1>0, <1>1 DEF SelectBegins, SelectRefuses, SameFiber, DisabledIsCalm
<1>2. CASE IdleEnds \/ Pick \/ FiberEndStep
  <2>1. UNCHANGED disable /\ ~ (disable > 0)
    BY <1>0, <1>2 DEF IdleEnds, Pick, FiberEndStep, At
  <2> QED
    BY <2>1 DEF DisabledIsCalm
<1>3. CASE \/ \E t \in Threads : SleepTimerFires(t)
           \/ SelectRefused \/ (\E q \in Queues : IdleCallback(q)) \/ ReschedStep
           \/ PromoteStep \/ PropagateStep \/ SleepStep \/ SleptStep \/ LockStep \/ WakeStep
           \/ WakeEnds \/ UnlockAllStep \/ ExitedStep \/ JoinedStep \/ TickedStep \/ EndDeferredStep
  <2>1. disable' > 0 => disable > 0
    <3>1. CASE EndDeferredStep
      BY <1>0, <3>1 DEF EndDeferredStep
    <3>2. CASE ~ EndDeferredStep
      <4>1. UNCHANGED disable
        BY <1>3, <3>2, Zenon
           DEF SleepTimerFires, SelectRefused, IdleCallback, ReschedStep, PromoteStep, PropagateStep,
               SleepStep, SleptStep, LockStep, WakeStep, WakeEnds, UnlockAllStep, ExitedStep,
               JoinedStep, TickedStep, sched
      <4> QED
        BY <4>1
    <3> QED
      BY <3>1, <3>2
  <2>2. disable > 0 => Pushes(Calm)
    BY <1>3, CalmForms, FramesPush DEF DisabledIsCalm
  <2> QED
    BY <2>1, <2>2 DEF DisabledIsCalm, Pushes
<1>4. CASE FiberReturns
  BY <1>4 DEF FiberReturns, SameFiber, DisabledIsCalm
<1>5. ASSUME NEW t \in Threads, OSJoinThread(t) PROVE DisabledIsCalm' /\ UNCHANGED host
  <2>1. /\ UNCHANGED host /\ stack[host] = <<>>
        /\ \/ UNCHANGED stack
           \/ Goto(<<Fr("sleep", t, NoThread, 0), Fr("joined", NoQueue, t, 0)>>)
    BY <1>5 DEF OSJoinThread, SameFiber, Calls, InGuestCode
  <2>2. Fr("sleep", t, NoThread, 0) \in Calm /\ Fr("joined", NoQueue, t, 0) \in Calm
    BY CalmForms, QueueIdsFacts DEF HoldsPushed
  <2>3. <<>> \in Seq(Calm) /\ <<Fr("sleep", t, NoThread, 0), Fr("joined", NoQueue, t, 0)>> \in Seq(Calm)
    BY <2>2
  <2> QED
    BY <2>1, <2>3, GotoHere DEF DisabledIsCalm
<1>6. CASE GuestCall /\ ~ FiberReturns /\ \A t \in Threads : ~ OSJoinThread(t)
  BY <1>6, CalmForms, CallsPush DEF DisabledIsCalm, Pushes
<1>7. CASE UNCHANGED vars
  BY <1>7 DEF vars, sched, fiber, DisabledIsCalm
<1> QED
  BY <1>1, <1>2, <1>3, <1>4, <1>5, <1>6, <1>7 DEF Next, FrameStep

\* While OSDisableScheduler or a deferred callback has the scheduler disabled, no
\* handler leaves the fiber it runs on: SelectThread refuses, and nothing can
\* disable the scheduler between its consent to a switch and the switch.
THEOREM DisabledKeepsFiber == Spec => NoSwitchWhileDisabled
<1>1. Init => DisabledIsCalm
  BY DEF Init, DisabledIsCalm
<1>2. IInv /\ DisabledIsCalm /\ [Next]_vars => DisabledIsCalm'
  BY CalmStep
<1>3. IInv /\ DisabledIsCalm /\ [Next]_vars => [disable > 0 => host' = host]_vars
  BY CalmStep
<1> QED
  BY <1>1, <1>2, <1>3, InductiveInvariant, PTL DEF Spec, NoSwitchWhileDisabled

-----------------------------------------------------------------------------
(***************************************************************************)
(* Lists of threads: what is where after one is unlinked or inserted.      *)
(***************************************************************************)

\* No element occurs twice in s.
NoDup(s) == \A i, j \in 1 .. Len(s) : s[i] = s[j] => i = j

\* The threads in s are in the order of the priorities pr.
InOrder(s, pr) == \A i, j \in 1 .. Len(s) : i <= j => pr[s[i]] <= pr[s[j]]

\* u has the elements of s, t excepted, in the order of s.
Without(u, s, t) ==
    \E k \in 1 .. Len(s) :
        /\ s[k] = t
        /\ Len(u) = Len(s) - 1
        /\ \A i \in 1 .. Len(u) : u[i] = IF i < k THEN s[i] ELSE s[i + 1]

\* u has the elements of s in the order of s, and t in front of the k-th.
WithAt(u, s, t, k) ==
    /\ Len(u) = Len(s) + 1
    /\ \A i \in 1 .. Len(u) : u[i] = IF i < k THEN s[i] ELSE IF i = k THEN t ELSE s[i - 1]

\* A listed thread that is unlinked leaves all others in their order.
LEMMA UnlinkPlaces ==
    ASSUME NEW S, NEW s \in Seq(S), NEW t, Linked(s, t)
    PROVE  Without(Unlink(s, t), s, t)
<1> DEFINE k == CHOOSE j \in 1 .. Len(s) : s[j] = t
           front == SubSeq(s, 1, k - 1)
           back == SubSeq(s, k + 1, Len(s))
<1>1. k \in 1 .. Len(s) /\ s[k] = t
  BY DEF Linked
<1>2. Unlink(s, t) = front \o back
  BY DEF Unlink
<1> HIDE DEF k
<1>0. Len(s) \in Nat /\ k \in Nat /\ 1 <= k /\ k <= Len(s)
  BY <1>1
<1>3. /\ front \in Seq(S) /\ Len(front) = k - 1
      /\ \A i \in 1 .. k - 1 : front[i] = s[i]
  BY <1>0, SubSeqProperties, \A i \in 1 .. k - 1 : s[i] \in S
<1>4. /\ back \in Seq(S) /\ Len(back) = Len(s) - k
      /\ \A i \in 1 .. Len(s) - k : back[i] = s[k + i]
  BY <1>0, SubSeqProperties, \A i \in k + 1 .. Len(s) : s[i] \in S, SMTT(20)
<1> HIDE DEF front, back
<1>5. /\ Len(front \o back) = Len(s) - 1
      /\ \A i \in 1 .. Len(s) - 1 :
            (front \o back)[i] = IF i <= Len(front) THEN front[i] ELSE back[i - Len(front)]
  <2>1. Len(front) + Len(back) = Len(s) - 1
    BY <1>0, <1>3, <1>4
  <2>2. /\ Len(front \o back) = Len(front) + Len(back)
        /\ \A i \in 1 .. Len(front) + Len(back) :
              (front \o back)[i] = IF i <= Len(front) THEN front[i] ELSE back[i - Len(front)]
    BY <1>3, <1>4, ConcatProperties
  <2> QED
    BY <2>1, <2>2
<1>6. ASSUME NEW i \in 1 .. Len(s) - 1
      PROVE  (front \o back)[i] = IF i < k THEN s[i] ELSE s[i + 1]
  <2>1. CASE i < k
    BY <1>0, <1>3, <1>5, <2>1
  <2>2. CASE i >= k
    <3>1. PICK j \in Int : j = i - (k - 1)
      BY <1>0
    <3>2. j \in 1 .. Len(s) - k /\ k + j = i + 1 /\ (front \o back)[i] = back[j]
      BY <1>0, <1>3, <1>5, <2>2, <3>1
    <3>3. back[j] = s[i + 1] /\ ~ (i < k)
      BY <1>0, <1>4, <2>2, <3>2
    <3> QED
      BY <3>2, <3>3
  <2>3. i < k \/ i >= k
    BY <1>0
  <2> QED
    BY <2>1, <2>2, <2>3
<1> QED
  BY <1>1, <1>2, <1>5, <1>6 DEF Without

\* How many threads at the head of s are at least as urgent as p.
Ahead(s, pr, p) == Cardinality({i \in 1 .. Len(s) : \A j \in 1 .. i : pr[s[j]] <= p})

\* The scan of InsertThreadIntoQueueByPriority: all in front of the place it finds
\* are at least as urgent as p, and the one behind it is not.
LEMMA ScanStops ==
    ASSUME NEW S, NEW s \in Seq(S), NEW pr \in [S -> Nat], NEW p \in Nat
    PROVE  /\ Ahead(s, pr, p) \in 0 .. Len(s)
           /\ \A i \in 1 .. Ahead(s, pr, p) : pr[s[i]] <= p
           /\ Ahead(s, pr, p) < Len(s) => pr[s[Ahead(s, pr, p) + 1]] > p
<1> DEFINE Before == {i \in 1 .. Len(s) : \A j \in 1 .. i : pr[s[j]] <= p}
           After == (1 .. Len(s)) \ Before
<1>0. Len(s) \in Nat
  OBVIOUS
<1>1. \E m \in 0 .. Len(s) : /\ Before = 1 .. m
                             /\ m < Len(s) => m + 1 \notin Before
  <2>1. CASE After = {}
    <3>1. Before = 1 .. Len(s)
      BY <2>1
    <3> QED
      BY <1>0, <3>1
  <2>2. CASE After # {}
    <3>1. PICK n \in After : \A y \in After : n <= y
      BY <2>2, HasLeast, After \subseteq Nat
    <3>2. n \in 1 .. Len(s) /\ n \notin Before
      BY <3>1
    <3>3. \A i \in 1 .. Len(s) : i < n => i \in Before
      BY <3>1, <3>2
    <3>4. \A i \in Before : i < n
      <4>1. SUFFICES ASSUME NEW i \in Before, n <= i PROVE n \in Before
        BY <3>2
      <4> QED
        BY <3>2, <4>1
    <3> HIDE DEF Before, After
    <3>5. Before = 1 .. n - 1
      <4>1. ASSUME NEW i \in Before PROVE i \in 1 .. n - 1
        <5>1. i \in 1 .. Len(s)
          BY <4>1 DEF Before
        <5> QED
          BY <1>0, <3>2, <3>4, <4>1, <5>1
      <4>2. ASSUME NEW i \in 1 .. n - 1 PROVE i \in Before
        BY <1>0, <3>2, <3>3
      <4> QED
        BY <4>1, <4>2
    <3> QED
      BY <1>0, <3>2, <3>5
  <2> QED
    BY <2>1, <2>2
<1>2. PICK m \in 0 .. Len(s) : Before = 1 .. m /\ (m < Len(s) => m + 1 \notin Before)
  BY <1>1
<1>3. Cardinality(Before) = m
  <2>1. m \in Int /\ 1 \in Int /\ 0 <= m
    BY <1>0
  <2>2. Cardinality(1 .. m) = m
    BY <2>1, FS_Interval
  <2> QED
    BY <1>2, <2>2
<1>4. \A i \in 1 .. m : pr[s[i]] <= p
  <2>1. \A i \in Before : pr[s[i]] <= p
    OBVIOUS
  <2> QED
    BY <1>2, <2>1
<1>5. ASSUME m < Len(s) PROVE pr[s[m + 1]] > p
  <2>1. m + 1 \in 1 .. Len(s) /\ m \in Nat
    BY <1>0, <1>5
  <2>2. PICK j \in 1 .. m + 1 : ~ (pr[s[j]] <= p)
    BY <1>2, <1>5, <2>1
  <2>3. j = m + 1
    BY <1>4, <2>1, <2>2
  <2>4. pr[s[m + 1]] \in Nat
    BY <2>1
  <2> QED
    BY <2>2, <2>3, <2>4
<1>6. Ahead(s, pr, p) = m
  BY <1>3 DEF Ahead
<1> QED
  BY <1>4, <1>5, <1>6

\* Where a thread is inserted by priority, and that it is the right place.
LEMMA InsertPlaces ==
    ASSUME NEW S, NEW s \in Seq(S), NEW pr \in [S -> Nat], NEW p \in Nat, NEW t \in S
    PROVE  \E k \in 1 .. Len(s) + 1 :
               /\ WithAt(InsertSorted(s, pr, t, p), s, t, k)
               /\ \A i \in 1 .. k - 1 : pr[s[i]] <= p
               /\ k <= Len(s) => pr[s[k]] > p
<1> DEFINE k == Ahead(s, pr, p)
           front == SubSeq(s, 1, k)
           mid == front \o <<t>>
           back == SubSeq(s, k + 1, Len(s))
<1>1. /\ k \in 0 .. Len(s)
      /\ \A i \in 1 .. k : pr[s[i]] <= p
      /\ k < Len(s) => pr[s[k + 1]] > p
  BY ScanStops
<1>2. InsertSorted(s, pr, t, p) = mid \o back
  BY DEF InsertSorted, Ahead
<1> HIDE DEF k
<1>0. Len(s) \in Nat /\ k \in Nat /\ 0 <= k /\ k <= Len(s)
  BY <1>1
<1>3. /\ front \in Seq(S) /\ Len(front) = k
      /\ \A i \in 1 .. k : front[i] = s[i]
  BY <1>0, SubSeqProperties, \A i \in 1 .. k : s[i] \in S
<1>4. /\ back \in Seq(S) /\ Len(back) = Len(s) - k
      /\ \A i \in 1 .. Len(s) - k : back[i] = s[k + i]
  BY <1>0, SubSeqProperties, \A i \in k + 1 .. Len(s) : s[i] \in S, SMTT(20)
<1> HIDE DEF front, back
<1>5. /\ mid \in Seq(S) /\ Len(mid) = k + 1
      /\ \A i \in 1 .. k + 1 : mid[i] = IF i <= k THEN s[i] ELSE t
  BY <1>0, <1>3, ConcatProperties, SMTT(20)
<1> HIDE DEF mid
<1>6. /\ Len(mid \o back) = Len(s) + 1
      /\ \A i \in 1 .. Len(s) + 1 :
            (mid \o back)[i] = IF i <= Len(mid) THEN mid[i] ELSE back[i - Len(mid)]
  <2>1. Len(mid) + Len(back) = Len(s) + 1
    BY <1>0, <1>4, <1>5
  <2>2. /\ Len(mid \o back) = Len(mid) + Len(back)
        /\ \A i \in 1 .. Len(mid) + Len(back) :
              (mid \o back)[i] = IF i <= Len(mid) THEN mid[i] ELSE back[i - Len(mid)]
    BY <1>4, <1>5, ConcatProperties
  <2> QED
    BY <2>1, <2>2
<1>7. ASSUME NEW i \in 1 .. Len(s) + 1
      PROVE  (mid \o back)[i] = IF i < k + 1 THEN s[i] ELSE IF i = k + 1 THEN t ELSE s[i - 1]
  <2>1. CASE i <= k + 1
    BY <1>0, <1>5, <1>6, <2>1, SMTT(20)
  <2>2. CASE i > k + 1
    <3>1. PICK j \in Int : j = i - (k + 1)
      BY <1>0
    <3>2. j \in 1 .. Len(s) - k /\ k + j = i - 1 /\ (mid \o back)[i] = back[j]
      BY <1>0, <1>5, <1>6, <2>2, <3>1
    <3>3. back[j] = s[i - 1]
      BY <1>4, <3>2
    <3>4. ~ (i < k + 1) /\ i # k + 1
      BY <1>0, <2>2
    <3> QED
      BY <3>2, <3>3, <3>4
  <2>3. i <= k + 1 \/ i > k + 1
    BY <1>0
  <2> QED
    BY <2>1, <2>2, <2>3
<1>8. WithAt(mid \o back, s, t, k + 1)
  BY <1>6, <1>7 DEF WithAt
<1>9. /\ k + 1 \in 1 .. Len(s) + 1
      /\ \A i \in 1 .. (k + 1) - 1 : pr[s[i]] <= p
      /\ k + 1 <= Len(s) => pr[s[k + 1]] > p
  BY <1>0, <1>1
<1> QED
  BY <1>2, <1>8, <1>9

\* What unlinking keeps.
LEMMA WithoutKeeps ==
    ASSUME NEW S, NEW s \in Seq(S), NoDup(s), NEW t, NEW u, Without(u, s, t)
    PROVE  /\ NoDup(u)
           /\ \A x : Linked(u, x) <=> Linked(s, x) /\ x # t
           /\ \A pr : InOrder(s, pr) => InOrder(u, pr)
<1>1. PICK k \in 1 .. Len(s) :
         /\ s[k] = t
         /\ Len(u) = Len(s) - 1
         /\ \A i \in 1 .. Len(u) : u[i] = IF i < k THEN s[i] ELSE s[i + 1]
  BY DEF Without
<1>0. Len(s) \in Nat /\ k \in Nat /\ 1 <= k /\ k <= Len(s)
  OBVIOUS
<1> DEFINE at(i) == IF i < k THEN i ELSE i + 1
<1>2. \A i \in 1 .. Len(u) : at(i) \in 1 .. Len(s) /\ at(i) # k /\ u[i] = s[at(i)]
  BY <1>0, <1>1
<1>3. \A i, j \in 1 .. Len(u) : /\ at(i) = at(j) => i = j
                                /\ i <= j => at(i) <= at(j)
  BY <1>0, <1>1
<1>4. NoDup(u)
  <2>1. ASSUME NEW i \in 1 .. Len(u), NEW j \in 1 .. Len(u), u[i] = u[j] PROVE i = j
    <3>1. s[at(i)] = s[at(j)] /\ at(i) \in 1 .. Len(s) /\ at(j) \in 1 .. Len(s)
      BY <1>2, <2>1
    <3>2. at(i) = at(j)
      BY <3>1 DEF NoDup
    <3> QED
      BY <1>3, <3>2
  <2> QED
    BY <2>1 DEF NoDup
<1>5. ASSUME NEW x PROVE Linked(u, x) <=> Linked(s, x) /\ x # t
  <2>1. ASSUME NEW i \in 1 .. Len(u), u[i] = x PROVE Linked(s, x) /\ x # t
    <3>1. at(i) \in 1 .. Len(s) /\ at(i) # k /\ s[at(i)] = x
      BY <1>2, <2>1
    <3> QED
      BY <1>1, <3>1 DEF Linked, NoDup
  <2>2. ASSUME NEW j \in 1 .. Len(s), s[j] = x, x # t PROVE Linked(u, x)
    <3>1. j # k
      BY <1>1, <2>2
    <3>2. CASE j < k
      <4>1. j \in 1 .. Len(u) /\ at(j) = j
        BY <1>0, <1>1, <3>2
      <4> QED
        BY <1>2, <2>2, <4>1 DEF Linked
    <3>3. CASE j > k
      <4>1. j - 1 \in 1 .. Len(u) /\ at(j - 1) = j
        BY <1>0, <1>1, <3>3
      <4> QED
        BY <1>2, <2>2, <4>1 DEF Linked
    <3> QED
      BY <1>0, <3>1, <3>2, <3>3
  <2> QED
    BY <2>1, <2>2 DEF Linked
<1>6. ASSUME NEW pr, InOrder(s, pr) PROVE InOrder(u, pr)
  <2>1. ASSUME NEW i \in 1 .. Len(u), NEW j \in 1 .. Len(u), i <= j PROVE pr[u[i]] <= pr[u[j]]
    <3>1. at(i) <= at(j) /\ at(i) \in 1 .. Len(s) /\ at(j) \in 1 .. Len(s)
      BY <1>2, <1>3, <2>1
    <3>2. pr[s[at(i)]] <= pr[s[at(j)]]
      BY <1>6, <3>1 DEF InOrder
    <3> QED
      BY <1>2, <3>2
  <2> QED
    BY <2>1 DEF InOrder
<1> QED
  BY <1>4, <1>5, <1>6

\* What inserting a thread that is not in the list keeps.
LEMMA WithKeeps ==
    ASSUME NEW S, NEW s \in Seq(S), NoDup(s), NEW t, ~ Linked(s, t),
           NEW k \in 1 .. Len(s) + 1, NEW u, WithAt(u, s, t, k)
    PROVE  /\ NoDup(u)
           /\ \A x : Linked(u, x) <=> Linked(s, x) \/ x = t
<1>0. Len(s) \in Nat /\ k \in Nat /\ 1 <= k /\ k <= Len(s) + 1
  OBVIOUS
<1>1. /\ Len(u) = Len(s) + 1
      /\ \A i \in 1 .. Len(u) : u[i] = IF i < k THEN s[i] ELSE IF i = k THEN t ELSE s[i - 1]
  BY DEF WithAt
<1> DEFINE at(i) == IF i < k THEN i ELSE i - 1
<1>2. /\ \A i \in 1 .. Len(u) : i # k => at(i) \in 1 .. Len(s) /\ u[i] = s[at(i)]
      /\ k \in 1 .. Len(u) /\ u[k] = t
  BY <1>0, <1>1
<1>3. \A i, j \in 1 .. Len(u) : i # k /\ j # k /\ at(i) = at(j) => i = j
  BY <1>0, <1>1
<1>4. NoDup(u)
  <2>1. ASSUME NEW i \in 1 .. Len(u), NEW j \in 1 .. Len(u), u[i] = u[j] PROVE i = j
    <3>1. CASE i # k /\ j # k
      <4>1. s[at(i)] = s[at(j)] /\ at(i) \in 1 .. Len(s) /\ at(j) \in 1 .. Len(s)
        BY <1>2, <2>1, <3>1
      <4>2. at(i) = at(j)
        BY <4>1 DEF NoDup
      <4> QED
        BY <1>3, <3>1, <4>2
    <3>2. CASE i = k /\ j # k
      <4>1. s[at(j)] = t /\ at(j) \in 1 .. Len(s)
        BY <1>2, <2>1, <3>2
      <4> QED
        BY <4>1 DEF Linked
    <3>3. CASE i # k /\ j = k
      <4>1. s[at(i)] = t /\ at(i) \in 1 .. Len(s)
        BY <1>2, <2>1, <3>3
      <4> QED
        BY <4>1 DEF Linked
    <3> QED
      BY <3>1, <3>2, <3>3
  <2> QED
    BY <2>1 DEF NoDup
<1>5. ASSUME NEW x PROVE Linked(u, x) <=> Linked(s, x) \/ x = t
  <2>1. ASSUME NEW i \in 1 .. Len(u), u[i] = x, x # t PROVE Linked(s, x)
    <3>1. at(i) \in 1 .. Len(s) /\ s[at(i)] = x
      BY <1>2, <2>1
    <3> QED
      BY <3>1 DEF Linked
  <2>2. ASSUME NEW j \in 1 .. Len(s), s[j] = x PROVE Linked(u, x)
    <3>2. CASE j < k
      <4>1. j \in 1 .. Len(u) /\ at(j) = j /\ j # k
        BY <1>0, <1>1, <3>2
      <4> QED
        BY <1>2, <2>2, <4>1 DEF Linked
    <3>3. CASE j >= k
      <4>1. j + 1 \in 1 .. Len(u) /\ at(j + 1) = j /\ j + 1 # k
        BY <1>0, <1>1, <3>3
      <4> QED
        BY <1>2, <2>2, <4>1 DEF Linked
    <3> QED
      BY <1>0, <3>2, <3>3
  <2>3. Linked(u, t)
    BY <1>2 DEF Linked
  <2> QED
    BY <2>1, <2>2, <2>3 DEF Linked
<1> QED
  BY <1>4, <1>5

\* A thread inserted by its priority, at the place that the scan finds.
LEMMA InsertSortedKeeps ==
    ASSUME NEW S, NEW s \in Seq(S), NoDup(s), NEW pr \in [S -> Nat], NEW p \in Nat,
           NEW t \in S, ~ Linked(s, t)
    PROVE  /\ NoDup(InsertSorted(s, pr, t, p))
           /\ \A x : Linked(InsertSorted(s, pr, t, p), x) <=> Linked(s, x) \/ x = t
           /\ InOrder(s, pr) => InOrder(InsertSorted(s, pr, t, p), [pr EXCEPT ![t] = p])
<1> DEFINE u == InsertSorted(s, pr, t, p)
           pr2 == [pr EXCEPT ![t] = p]
<1>1. PICK k \in 1 .. Len(s) + 1 :
         /\ WithAt(u, s, t, k)
         /\ \A i \in 1 .. k - 1 : pr[s[i]] <= p
         /\ k <= Len(s) => pr[s[k]] > p
  BY InsertPlaces
<1> HIDE DEF u
<1>2. NoDup(u) /\ \A x : Linked(u, x) <=> Linked(s, x) \/ x = t
  BY <1>1, WithKeeps
<1>0. Len(s) \in Nat /\ k \in Nat /\ 1 <= k /\ k <= Len(s) + 1
  OBVIOUS
<1>4. \A a, b \in Nat : a <= p /\ b > p => a <= b
  OBVIOUS
<1>3. ASSUME InOrder(s, pr) PROVE InOrder(u, pr2)
  <2>1. /\ Len(u) = Len(s) + 1
        /\ \A i \in 1 .. Len(u) : u[i] = IF i < k THEN s[i] ELSE IF i = k THEN t ELSE s[i - 1]
    BY <1>1 DEF WithAt
  <2>2. pr2[t] = p /\ \A i \in 1 .. Len(s) : pr2[s[i]] = pr[s[i]] /\ pr[s[i]] \in Nat
    <3>1. \A i \in 1 .. Len(s) : s[i] \in S /\ s[i] # t
      BY DEF Linked
    <3> QED
      BY <3>1
  <2>3. \A i \in 1 .. Len(s) : i >= k => pr[s[i]] > p
    <3>1. ASSUME NEW i \in 1 .. Len(s), i >= k PROVE pr[s[i]] > p
      <4>1. k \in 1 .. Len(s) /\ pr[s[k]] > p
        BY <1>0, <1>1, <3>1
      <4>2. pr[s[k]] <= pr[s[i]]
        BY <1>3, <3>1, <4>1 DEF InOrder
      <4>3. pr[s[k]] \in Nat /\ pr[s[i]] \in Nat
        BY <2>2, <4>1
      <4> QED
        BY <4>1, <4>2, <4>3
    <3> QED
      BY <3>1
  <2> HIDE DEF pr2
  <2>4. \A i \in 1 .. Len(u) :
           pr2[u[i]] = IF i < k THEN pr[s[i]] ELSE IF i = k THEN p ELSE pr[s[i - 1]]
    <3>1. ASSUME NEW i \in 1 .. Len(u)
          PROVE  pr2[u[i]] = IF i < k THEN pr[s[i]] ELSE IF i = k THEN p ELSE pr[s[i - 1]]
      <4>1. CASE i < k
        <5>1. i \in 1 .. Len(s) /\ u[i] = s[i]
          BY <1>0, <2>1, <4>1
        <5> QED
          BY <2>2, <4>1, <5>1
      <4>2. CASE i = k
        BY <1>0, <2>1, <2>2, <4>2
      <4>3. CASE i > k
        <5>1. i - 1 \in 1 .. Len(s) /\ u[i] = s[i - 1] /\ ~ (i < k) /\ i # k
          BY <1>0, <2>1, <4>3
        <5> QED
          BY <2>2, <5>1, SMTT(20)
      <4> QED
        BY <1>0, <4>1, <4>2, <4>3
    <3> QED
      BY <3>1
  <2>5. ASSUME NEW i \in 1 .. Len(u), NEW j \in 1 .. Len(u), i <= j PROVE pr2[u[i]] <= pr2[u[j]]
    <3>0. i \in Nat /\ j \in Nat /\ i >= 1 /\ j <= Len(s) + 1
      BY <1>0, <2>1
    <3>1. CASE j < k
      <4>1. i \in 1 .. Len(s) /\ j \in 1 .. Len(s) /\ i < k
        BY <1>0, <2>5, <3>0, <3>1
      <4>2. pr[s[i]] <= pr[s[j]]
        BY <1>3, <2>5, <4>1 DEF InOrder
      <4> QED
        BY <2>4, <3>1, <4>1, <4>2
    <3>2. CASE i < k /\ j = k
      <4>1. i \in 1 .. k - 1
        BY <1>0, <3>0, <3>2
      <4>2. pr[s[i]] <= p
        BY <1>1, <4>1
      <4> QED
        BY <2>4, <3>2, <4>2
    <3>3. CASE i < k /\ j > k
      <4>1. i \in 1 .. k - 1 /\ i \in 1 .. Len(s) /\ j - 1 \in 1 .. Len(s) /\ j - 1 >= k /\ ~ (j < k) /\ j # k
        BY <1>0, <3>0, <3>3
      <4>2. pr[s[i]] <= p /\ pr[s[j - 1]] > p /\ pr[s[i]] \in Nat /\ pr[s[j - 1]] \in Nat
        BY <1>1, <2>2, <2>3, <4>1
      <4>3. pr2[u[i]] = pr[s[i]] /\ pr2[u[j]] = pr[s[j - 1]]
        BY <2>4, <3>3, <4>1
      <4>4. pr[s[i]] <= pr[s[j - 1]]
        BY <1>4, <4>2
      <4> QED
        BY <4>3, <4>4, Zenon
    <3>4. CASE i = k /\ j = k
      BY <2>4, <3>4
    <3>5. CASE i = k /\ j > k
      <4>1. j - 1 \in 1 .. Len(s) /\ j - 1 >= k /\ ~ (j < k) /\ j # k
        BY <1>0, <3>0, <3>5
      <4>2. pr[s[j - 1]] > p /\ pr[s[j - 1]] \in Nat
        BY <2>2, <2>3, <4>1
      <4>3. pr2[u[i]] = p /\ pr2[u[j]] = pr[s[j - 1]]
        BY <1>0, <2>4, <3>5, <4>1
      <4> QED
        BY <4>2, <4>3
    <3>6. CASE i > k
      <4>1. /\ i - 1 \in 1 .. Len(s) /\ j - 1 \in 1 .. Len(s) /\ i - 1 <= j - 1
            /\ ~ (i < k) /\ i # k /\ ~ (j < k) /\ j # k
        BY <1>0, <2>5, <3>0, <3>6
      <4>2. pr[s[i - 1]] <= pr[s[j - 1]]
        BY <1>3, <4>1 DEF InOrder
      <4> QED
        BY <2>4, <4>1, <4>2
    <3> QED
      BY <1>0, <2>5, <3>0, <3>1, <3>2, <3>3, <3>4, <3>5, <3>6
  <2> QED
    BY <2>5 DEF InOrder
<1> QED
  BY <1>2, <1>3 DEF u

\* A thread that is not in the list goes behind all others.
LEMMA AppendKeeps ==
    ASSUME NEW S, NEW s \in Seq(S), NoDup(s), NEW t \in S, ~ Linked(s, t)
    PROVE  /\ NoDup(Append(s, t))
           /\ \A x : Linked(Append(s, t), x) <=> Linked(s, x) \/ x = t
<1>1. WithAt(Append(s, t), s, t, Len(s) + 1)
  BY DEF WithAt
<1> QED
  BY <1>1, WithKeeps, Len(s) + 1 \in 1 .. Len(s) + 1

\* The head of a list leaves it.
LEMMA TailKeeps ==
    ASSUME NEW S, NEW s \in Seq(S), NoDup(s), s # <<>>
    PROVE  /\ NoDup(Tail(s))
           /\ \A x : Linked(Tail(s), x) <=> Linked(s, x) /\ x # Head(s)
           /\ Linked(s, Head(s))
           /\ \A pr : InOrder(s, pr) => InOrder(Tail(s), pr)
<1>1. /\ Len(s) \in Nat /\ 1 \in 1 .. Len(s) /\ s[1] = Head(s)
      /\ Len(Tail(s)) = Len(s) - 1
      /\ \A i \in 1 .. Len(Tail(s)) : Tail(s)[i] = s[i + 1]
  BY HeadTailProperties
<1>2. Without(Tail(s), s, Head(s))
  BY <1>1 DEF Without
<1>3. Linked(s, Head(s))
  BY <1>1 DEF Linked
<1>4. /\ NoDup(Tail(s))
      /\ \A x : Linked(Tail(s), x) <=> Linked(s, x) /\ x # Head(s)
      /\ \A pr : InOrder(s, pr) => InOrder(Tail(s), pr)
  <2> DEFINE u == Tail(s)
             t == Head(s)
  <2>1. Without(u, s, t)
    BY <1>2
  <2> HIDE DEF u, t
  <2>2. /\ NoDup(u)
        /\ \A x : Linked(u, x) <=> Linked(s, x) /\ x # t
        /\ \A pr : InOrder(s, pr) => InOrder(u, pr)
    BY <2>1, WithoutKeeps
  <2> QED
    BY <2>2 DEF u, t
<1> QED
  BY <1>3, <1>4

\* An empty list, and one that is not.
LEMMA LinkedFacts ==
    /\ \A t : ~ Linked(<<>>, t)
    /\ \A S : \A s \in Seq(S) : s # <<>> => \E t \in S : Linked(s, t)
<1>1. \A t : ~ Linked(<<>>, t)
  BY DEF Linked
<1>2. ASSUME NEW S, NEW s \in Seq(S), s # <<>> PROVE \E t \in S : Linked(s, t)
  <2>1. 1 \in 1 .. Len(s) /\ s[1] \in S
    BY <1>2
  <2> QED
    BY <2>1 DEF Linked
<1> QED
  BY <1>1, <1>2

-----------------------------------------------------------------------------
(***************************************************************************)
(* All lists together: the queues and the mask.                            *)
(***************************************************************************)

\* The lists qs and the mask, each by itself: no thread is twice on a list, the
\* mask shows exactly the run queues that hold a thread, wait queues are sorted.
ListsOK(qs, mask, pr) ==
    /\ \A q \in QueueIds : NoDup(qs[q])
    /\ mask = {p \in Prios : qs[p] # <<>>}
    /\ \A q \in WaitQueues : InOrder(qs[q], pr)

\* A thread that is on no list.
Nowhere(qs, t) == \A q \in QueueIds : ~ Linked(qs[q], t)

\* OSThread.queue names the list that a thread is on.
LinksOK(qs, ln) == \A q \in QueueIds : \A t \in Threads : Linked(qs[q], t) => ln[t] = q

\* The facts about a queue set that the lemmas below start from.
GoodLists(qs, mask, pr) ==
    /\ qs \in [QueueIds -> Seq(Threads)]
    /\ pr \in [Threads -> 0 .. NumPrio]
    /\ ListsOK(qs, mask, pr)

\* RemoveThreadFromQueue takes the thread off whatever list it is on.
LEMMA RemovedLists ==
    ASSUME GoodLists(queue, pending, prio), LinksOK(queue, link),
           link \in [Threads -> QueueIds \cup {NoQueue}], NEW t \in Threads
    PROVE  /\ GoodLists(Removed(t), RemovedMask(t), prio)
           /\ Nowhere(Removed(t), t)
           /\ \A q \in QueueIds : \A x \in Threads :
                 Linked(Removed(t)[q], x) <=> Linked(queue[q], x) /\ x # t
<1>0. ListsOK(queue, pending, prio) /\ queue \in [QueueIds -> Seq(Threads)]
  BY DEF GoodLists
<1>1. Removed(t) \in [QueueIds -> Seq(Threads)]
  <2>1. ASSUME link[t] # NoQueue PROVE Unlink(queue[link[t]], t) \in Seq(Threads) /\ link[t] \in QueueIds
    BY <1>0, <2>1, UnlinkType
  <2> QED
    BY <1>0, <2>1 DEF Removed
<1>2. \A q \in QueueIds : \/ Removed(t)[q] = queue[q] /\ ~ Linked(queue[q], t)
                          \/ /\ q = link[t] /\ Linked(queue[q], t)
                             /\ Without(Removed(t)[q], queue[q], t)
  <2>1. ASSUME NEW q \in QueueIds
        PROVE  \/ Removed(t)[q] = queue[q] /\ ~ Linked(queue[q], t)
               \/ /\ q = link[t] /\ Linked(queue[q], t)
                  /\ Without(Removed(t)[q], queue[q], t)
    <3>1. CASE q # link[t] \/ link[t] = NoQueue
      <4>1. Removed(t)[q] = queue[q]
        BY <1>0, <3>1 DEF Removed
      <4>2. ~ Linked(queue[q], t)
        BY <2>1, <3>1, QueueIdsFacts DEF LinksOK
      <4> QED
        BY <4>1, <4>2
    <3>2. CASE q = link[t] /\ link[t] # NoQueue
      <4>1. Removed(t)[q] = Unlink(queue[q], t) /\ queue[q] \in Seq(Threads)
        BY <1>0, <3>2 DEF Removed
      <4>2. CASE Linked(queue[q], t)
        BY <3>2, <4>1, <4>2, UnlinkPlaces
      <4>3. CASE ~ Linked(queue[q], t)
        BY <4>1, <4>3 DEF Unlink
      <4> QED
        BY <4>2, <4>3
    <3> QED
      BY <3>1, <3>2
  <2> QED
    BY <2>1
<1>3. \A q \in QueueIds :
         /\ NoDup(Removed(t)[q])
         /\ \A x : Linked(Removed(t)[q], x) <=> Linked(queue[q], x) /\ x # t
         /\ \A pr : InOrder(queue[q], pr) => InOrder(Removed(t)[q], pr)
  <2>1. ASSUME NEW q \in QueueIds
        PROVE  /\ NoDup(Removed(t)[q])
               /\ \A x : Linked(Removed(t)[q], x) <=> Linked(queue[q], x) /\ x # t
               /\ \A pr : InOrder(queue[q], pr) => InOrder(Removed(t)[q], pr)
    <3>1. NoDup(queue[q]) /\ queue[q] \in Seq(Threads)
      BY <1>0 DEF ListsOK
    <3>2. CASE Removed(t)[q] = queue[q] /\ ~ Linked(queue[q], t)
      BY <3>1, <3>2, Zenon
    <3>3. CASE Without(Removed(t)[q], queue[q], t)
      BY <3>1, <3>3, WithoutKeeps, Zenon
    <3> QED
      BY <1>2, <3>2, <3>3
  <2> QED
    BY <2>1, Zenon
<1>4. RemovedMask(t) = {p \in Prios : Removed(t)[p] # <<>>}
  <2>1. pending = {p \in Prios : queue[p] # <<>>}
    BY <1>0 DEF ListsOK
  <2>2. \A p \in Prios : p # link[t] => Removed(t)[p] = queue[p]
    BY <1>2, QueueIdsFacts
  <2>3. \A p \in Prios : queue[p] = <<>> => Removed(t)[p] = <<>>
    BY <1>2, LinkedFacts, QueueIdsFacts
  <2> QED
    BY <2>1, <2>2, <2>3 DEF RemovedMask, ClearedMask
<1>5. \A q \in WaitQueues : InOrder(Removed(t)[q], prio)
  BY <1>0, <1>3, QueueIdsFacts DEF ListsOK
<1> QED
  BY <1>1, <1>3, <1>4, <1>5, Zenon DEF GoodLists, ListsOK, Nowhere

\* InsertThreadIntoQueueByPriority puts a thread that was on no list on one.
LEMMA InsertedLists ==
    ASSUME NEW qs, NEW mask, GoodLists(qs, mask, prio), NEW t \in Threads, Nowhere(qs, t),
           NEW q \in QueueIds, NEW p \in 0 .. NumPrio
    PROVE  /\ GoodLists(Inserted(qs, q, t, p), InsertedMask(mask, q), [prio EXCEPT ![t] = p])
           /\ \A r \in QueueIds : \A x \in Threads :
                 Linked(Inserted(qs, q, t, p)[r], x) <=> Linked(qs[r], x) \/ (x = t /\ r = q)
<1> DEFINE u == InsertSorted(qs[q], prio, t, p)
           pr2 == [prio EXCEPT ![t] = p]
<1>0. /\ qs \in [QueueIds -> Seq(Threads)] /\ qs[q] \in Seq(Threads)
      /\ prio \in [Threads -> 0 .. NumPrio] /\ ListsOK(qs, mask, prio)
  BY DEF GoodLists
<1>1. prio \in [Threads -> Nat] /\ p \in Nat /\ pr2 \in [Threads -> 0 .. NumPrio]
  BY <1>0, QueueIdsFacts
<1>2. u \in Seq(Threads) /\ u # <<>>
  BY <1>0, InsertSortedType
<1>3. ~ Linked(qs[q], t) /\ NoDup(qs[q])
  BY <1>0 DEF Nowhere, ListsOK
<1>4. /\ NoDup(u)
      /\ \A x : Linked(u, x) <=> Linked(qs[q], x) \/ x = t
      /\ InOrder(qs[q], prio) => InOrder(u, pr2)
  BY <1>0, <1>1, <1>3, InsertSortedKeeps
<1>5. Inserted(qs, q, t, p) = [qs EXCEPT ![q] = u]
  BY DEF Inserted
<1> HIDE DEF u
<1>6. /\ Inserted(qs, q, t, p) \in [QueueIds -> Seq(Threads)]
      /\ \A r \in QueueIds : Inserted(qs, q, t, p)[r] = IF r = q THEN u ELSE qs[r]
  BY <1>0, <1>2, <1>5
<1>7. \A r \in WaitQueues : InOrder(Inserted(qs, q, t, p)[r], pr2)
  <2>1. ASSUME NEW r \in WaitQueues PROVE InOrder(Inserted(qs, q, t, p)[r], pr2)
    <3>1. r \in QueueIds /\ InOrder(qs[r], prio) /\ qs[r] \in Seq(Threads)
      BY <1>0, QueueIdsFacts DEF ListsOK
    <3>2. CASE r = q
      BY <1>4, <1>6, <3>1, <3>2
    <3>3. CASE r # q
      <4>1. \A i \in 1 .. Len(qs[r]) : qs[r][i] \in Threads /\ qs[r][i] # t
        BY <3>1 DEF Nowhere, Linked
      <4>2. \A i \in 1 .. Len(qs[r]) : pr2[qs[r][i]] = prio[qs[r][i]]
        BY <1>0, <4>1
      <4> HIDE DEF pr2
      <4>3. InOrder(qs[r], pr2)
        BY <3>1, <4>2 DEF InOrder
      <4> QED
        BY <1>6, <3>1, <3>3, <4>3
    <3> QED
      BY <3>2, <3>3
  <2> QED
    BY <2>1
<1> HIDE DEF pr2
<1>8. \A r \in QueueIds : NoDup(Inserted(qs, q, t, p)[r])
  BY <1>0, <1>4, <1>6 DEF ListsOK
<1>9. InsertedMask(mask, q) = {r \in Prios : Inserted(qs, q, t, p)[r] # <<>>}
  <2>1. mask = {r \in Prios : qs[r] # <<>>}
    BY <1>0 DEF ListsOK
  <2> QED
    BY <1>2, <1>6, <2>1, QueueIdsFacts DEF InsertedMask
<1>10. GoodLists(Inserted(qs, q, t, p), InsertedMask(mask, q), pr2)
  BY <1>1, <1>6, <1>7, <1>8, <1>9 DEF GoodLists, ListsOK
<1>11. \A r \in QueueIds : \A x \in Threads :
          Linked(Inserted(qs, q, t, p)[r], x) <=> Linked(qs[r], x) \/ (x = t /\ r = q)
  BY <1>4, <1>6, Zenon
<1> QED
  BY <1>10, <1>11 DEF pr2

\* LinkThreadOnRunQueue and MarkRunQueuePending, for a thread on no list.
LEMMA EnqueuedLists ==
    ASSUME NEW qs, NEW mask, GoodLists(qs, mask, prio), NEW t \in Threads, Nowhere(qs, t),
           NEW p \in Prios
    PROVE  /\ GoodLists(Enqueued(qs, t, p), MarkedMask(mask, p), prio)
           /\ \A r \in QueueIds : \A x \in Threads :
                 Linked(Enqueued(qs, t, p)[r], x) <=> Linked(qs[r], x) \/ (x = t /\ r = p)
<1> DEFINE u == Append(qs[p], t)
<1>0. /\ p \in QueueIds /\ p \notin WaitQueues
      /\ qs \in [QueueIds -> Seq(Threads)] /\ qs[p] \in Seq(Threads)
      /\ prio \in [Threads -> 0 .. NumPrio] /\ ListsOK(qs, mask, prio)
  BY QueueIdsFacts, AddressesAssumption DEF GoodLists
<1>2. u \in Seq(Threads) /\ u # <<>>
  BY <1>0, AppendProperties
<1>3. ~ Linked(qs[p], t) /\ NoDup(qs[p])
  BY <1>0 DEF Nowhere, ListsOK
<1>4. NoDup(u) /\ \A x : Linked(u, x) <=> Linked(qs[p], x) \/ x = t
  BY <1>0, <1>3, AppendKeeps
<1>5. Enqueued(qs, t, p) = [qs EXCEPT ![p] = u]
  BY DEF Enqueued
<1> HIDE DEF u
<1>6. /\ Enqueued(qs, t, p) \in [QueueIds -> Seq(Threads)]
      /\ \A r \in QueueIds : Enqueued(qs, t, p)[r] = IF r = p THEN u ELSE qs[r]
  BY <1>0, <1>2, <1>5
<1>7. \A r \in WaitQueues : InOrder(Enqueued(qs, t, p)[r], prio)
  BY <1>0, <1>6, QueueIdsFacts DEF ListsOK
<1>8. \A r \in QueueIds : NoDup(Enqueued(qs, t, p)[r])
  BY <1>0, <1>4, <1>6 DEF ListsOK
<1>9. MarkedMask(mask, p) = {r \in Prios : Enqueued(qs, t, p)[r] # <<>>}
  <2>1. mask = {r \in Prios : qs[r] # <<>>}
    BY <1>0 DEF ListsOK
  <2>2. p % NumPrio = p
    BY QueueIdsFacts DEF Prios
  <2> QED
    BY <1>2, <1>6, <2>1, <2>2, QueueIdsFacts DEF MarkedMask
<1>10. GoodLists(Enqueued(qs, t, p), MarkedMask(mask, p), prio)
  BY <1>0, <1>6, <1>7, <1>8, <1>9 DEF GoodLists, ListsOK
<1>11. \A r \in QueueIds : \A x \in Threads :
          Linked(Enqueued(qs, t, p)[r], x) <=> Linked(qs[r], x) \/ (x = t /\ r = p)
  BY <1>4, <1>6, Zenon
<1> QED
  BY <1>10, <1>11

\* The head of a queue is taken off; the mask is what it has to be if the queue
\* is a run queue and is then seen to be empty.
LEMMA ShrunkLists ==
    ASSUME GoodLists(queue, pending, prio), LinksOK(queue, link), NEW q \in QueueIds,
           queue[q] # <<>>,
           NEW mask, mask = IF q \in Prios /\ Tail(queue[q]) = <<>> THEN pending \ {q} ELSE pending
    PROVE  LET qs == [queue EXCEPT ![q] = Tail(@)]
               t == Head(queue[q])
           IN  /\ GoodLists(qs, mask, prio)
               /\ t \in Threads /\ Linked(queue[q], t)
               /\ Nowhere(qs, t)
               /\ \A r \in QueueIds : \A x \in Threads :
                     Linked(qs[r], x) <=> Linked(queue[r], x) /\ x # t
<1> DEFINE qs == [queue EXCEPT ![q] = Tail(@)]
           t == Head(queue[q])
<1>0. /\ queue \in [QueueIds -> Seq(Threads)] /\ queue[q] \in Seq(Threads)
      /\ prio \in [Threads -> 0 .. NumPrio] /\ ListsOK(queue, pending, prio)
  BY DEF GoodLists
<1>1. t \in Threads /\ Tail(queue[q]) \in Seq(Threads)
  BY <1>0, HeadTailProperties
<1>2. NoDup(queue[q])
  BY <1>0 DEF ListsOK
<1>3. /\ NoDup(Tail(queue[q]))
      /\ \A x : Linked(Tail(queue[q]), x) <=> Linked(queue[q], x) /\ x # t
      /\ Linked(queue[q], t)
      /\ \A pr : InOrder(queue[q], pr) => InOrder(Tail(queue[q]), pr)
  BY <1>0, <1>2, TailKeeps
<1> HIDE DEF t
<1>4. /\ qs \in [QueueIds -> Seq(Threads)]
      /\ \A r \in QueueIds : qs[r] = IF r = q THEN Tail(queue[q]) ELSE queue[r]
  BY <1>0, <1>1
<1> HIDE DEF qs
<1>5. \A r \in QueueIds : r # q => ~ Linked(queue[r], t)
  BY <1>1, <1>3 DEF LinksOK
<1>6. \A r \in QueueIds : \A x \in Threads : Linked(qs[r], x) <=> Linked(queue[r], x) /\ x # t
  BY <1>3, <1>4, <1>5, Zenon
<1>7. mask = {p \in Prios : qs[p] # <<>>}
  <2>1. pending = {p \in Prios : queue[p] # <<>>}
    BY <1>0 DEF ListsOK
  <2> QED
    BY <1>4, <2>1, QueueIdsFacts
<1>8. /\ \A r \in QueueIds : NoDup(qs[r])
      /\ \A r \in WaitQueues : InOrder(qs[r], prio)
  BY <1>0, <1>3, <1>4, QueueIdsFacts DEF ListsOK
<1>9. GoodLists(qs, mask, prio)
  BY <1>0, <1>4, <1>7, <1>8 DEF GoodLists, ListsOK
<1>10. Nowhere(qs, t)
  BY <1>1, <1>6 DEF Nowhere
<1> QED
  BY <1>1, <1>3, <1>6, <1>9, <1>10 DEF qs, t

\* The priority of a thread that is on no wait queue is free to change.
LEMMA ReprioLists ==
    ASSUME NEW qs, NEW mask, NEW pr, GoodLists(qs, mask, pr), NEW t \in Threads,
           \A q \in WaitQueues : ~ Linked(qs[q], t), NEW p \in 0 .. NumPrio
    PROVE  GoodLists(qs, mask, [pr EXCEPT ![t] = p])
<1> DEFINE pr2 == [pr EXCEPT ![t] = p]
<1>0. /\ qs \in [QueueIds -> Seq(Threads)] /\ pr \in [Threads -> 0 .. NumPrio]
      /\ pr2 \in [Threads -> 0 .. NumPrio] /\ ListsOK(qs, mask, pr)
  BY DEF GoodLists
<1>1. ASSUME NEW q \in WaitQueues PROVE InOrder(qs[q], pr2)
  <2>1. InOrder(qs[q], pr) /\ qs[q] \in Seq(Threads)
    BY <1>0, QueueIdsFacts DEF ListsOK
  <2>2. \A i \in 1 .. Len(qs[q]) : qs[q][i] \in Threads /\ qs[q][i] # t
    BY <1>1, <2>1 DEF Linked
  <2>3. \A i \in 1 .. Len(qs[q]) : pr2[qs[q][i]] = pr[qs[q][i]]
    BY <1>0, <2>2
  <2> HIDE DEF pr2
  <2> QED
    BY <2>1, <2>3 DEF InOrder
<1> HIDE DEF pr2
<1>2. GoodLists(qs, mask, pr2)
  BY <1>0, <1>1 DEF GoodLists, ListsOK
<1> QED
  BY <1>2 DEF pr2

-----------------------------------------------------------------------------
(***************************************************************************)
(* The invariant of the lists and of the fiber that runs.                  *)
(***************************************************************************)

\* The two rules.  No entry function returns: FiberProc leaves the lists and the
\* owner of the processor to a thread it may never come back to.  And a guest that
\* disables the scheduler suspends nobody: a thread that suspends itself with the
\* scheduler disabled goes on running as a thread that is not to run.
GuestsKeepTheRules ==
    \A g \in Guests : /\ "return" \notin g
                      /\ "suspend" \in g => {"disable", "callback"} \cap g = {}

\* A thread on a list is on the list its link names, and is there for a reason: it
\* waits, or it is ready and not suspended.  A thread that waits knows where.
Shelved(qs, ln, st, su) ==
    /\ \A q \in QueueIds : \A t \in Threads : Linked(qs[q], t) =>
          /\ ln[t] = q
          /\ \/ q \in WaitQueues /\ st[t] = "WAITING"
             \/ q \in Prios /\ st[t] = "READY" /\ su[t] = 0
    /\ \A t \in Threads : st[t] = "WAITING" => ln[t] \in WaitQueues

\* Only a suspended thread has the priority of a suspended waiter.
PriosOK(st, su, pr) ==
    \A t \in Threads : st[t] \notin {"NONE", "MORIBUND"} /\ pr[t] = NumPrio => su[t] > 0

\* The converse: every thread that may run, or that waits, is on its list.
Placed ==
    \A t \in Threads :
        /\ state[t] = "READY" /\ suspend[t] = 0 => Linked(queue[prio[t]], t)
        /\ state[t] = "WAITING" => Linked(queue[link[t]], t)

\* An empty wait queue gets a thread from OSSleepThread only.
EmptyStays ==
    \A q \in WaitQueues : queue[q] = <<>> => queue'[q] = <<>> \/ (At("sleep") /\ q = Top.q)

PlacedStays == Placed => Placed' /\ EmptyStays

\* The lists, and why each thread is where it is.
QueuesInv ==
    /\ GoodLists(queue, pending, prio)
    /\ Shelved(queue, link, state, suspend)
    /\ PriosOK(state, suspend, prio)
    /\ ListedIsAlive

\* The fiber manager knows who runs, and what a switch back will restore.
FiberInv ==
    /\ ~ Terminated(host) => fiberCur = host
    /\ \A t \in Threads \ {host} : ~ Terminated(t) => prev[t] = t

\* The frames of fiber t outside the search of SelectThread.
Quiet(t) ==
    {f \in Frame : /\ f.op \notin {"pick", "idle", "wakeFiber", "fiberEnd"}
                   /\ f.op \in {"slept", "lock", "ticked"} => f.t = t}

\* Frames that come to nothing but the frames below them.
Passing == {f \in Frame : f.op \in {"propagate", "wake", "wakeResched", "unlockAll", "resched"}}

\* Frames from which SelectThread is called, r being the reschedule hint.
Selecting(r) == {f \in Frame : f.op \in {"select", "exited"} \/ (f.op = "resched" /\ r)}

IdleFrame == Fr("idle", NoQueue, NoThread, 0)

\* What the timers and callbacks of the idle loop push.
AboveIdle == {f \in Frame : f.op \in {"propagate", "wake", "wakeResched", "resched", "select"}}

\* Some frame of s is in C, with frames of A above it and frames of B below.
Split(s, A, C, B) ==
    \E n \in 1 .. Len(s) :
        /\ s[n] \in C
        /\ \A i \in 1 .. n - 1 : s[i] \in A
        /\ \A i \in n + 1 .. Len(s) : s[i] \in B

\* The thread of the running fiber runs.
Runs ==
    /\ state[host] = "RUNNING" /\ suspend[host] = 0
    /\ running = host /\ current = host
    /\ stack[host] \in Seq(Quiet(host))

\* It has gone to sleep, suspended itself, or ended, and will come to SelectThread
\* before anything else of its own is done.
Yields ==
    /\ state[host] # "RUNNING" /\ disable = 0
    /\ running = host /\ current = host
    /\ Split(stack[host], Passing, Selecting(resched), Quiet(host))

\* SelectThread found nobody: its idle loop runs on this fiber.
Idles ==
    /\ state[host] # "RUNNING" /\ disable = 0
    /\ running = NoThread /\ current = IdleContext
    /\ Split(stack[host], AboveIdle, {IdleFrame}, Quiet(host))

\* SelectThread is about to take a thread, and there is one.
Picks ==
    /\ state[host] # "RUNNING" /\ disable = 0
    /\ pending # {}
    /\ stack[host] # <<>> /\ Top.op = "pick" /\ Rest \in Seq(Quiet(host))

HostInv ==
    /\ Runs \/ Yields \/ Idles \/ Picks
    /\ \A t \in Threads \ {host} : state[t] # "RUNNING" /\ stack[t] \in Seq(Quiet(t))
    /\ guest \in Guests
    /\ "suspend" \in guest => disable = 0

SafeInv == QueuesInv /\ FiberInv /\ HostInv

-----------------------------------------------------------------------------
(***************************************************************************)
(* The lists under the parts that operations share.                        *)
(***************************************************************************)

\* What the lemmas below use of the invariant.
LEMMA QueuesFacts ==
    ASSUME IInv, QueuesInv
    PROVE  /\ GoodLists(queue, pending, prio) /\ LinksOK(queue, link)
           /\ link \in [Threads -> QueueIds \cup {NoQueue}]
           /\ prio \in [Threads -> 0 .. NumPrio] /\ suspend \in [Threads -> Nat]
           /\ state \in [Threads -> States]
           /\ \A t \in Threads :
                 state[t] \notin {"WAITING", "READY"} \/ (state[t] = "READY" /\ suspend[t] > 0)
                    => Nowhere(queue, t)
<1>1. suspend \in [Threads -> Nat]
  BY DEF IInv, TypeOK, ThreadsTypeOK
<1>2. ASSUME NEW t \in Threads,
             state[t] \notin {"WAITING", "READY"} \/ (state[t] = "READY" /\ suspend[t] > 0)
      PROVE  Nowhere(queue, t)
  BY <1>1, <1>2 DEF QueuesInv, Shelved, Nowhere
<1> QED
  BY <1>1, <1>2 DEF QueuesInv, Shelved, LinksOK, IInv, TypeOK, QueuesTypeOK, ThreadsTypeOK

\* Run queues are not wait queues.
LEMMA PriosAreNoWaitQueues ==
    /\ WaitQueues \cap Prios = {} /\ Prios \subseteq QueueIds /\ Prios \subseteq 0 .. NumPrio
    /\ WaitQueues \subseteq QueueIds /\ NoQueue \notin WaitQueues /\ NumPrio \notin Prios
    /\ NumPrio \in Nat /\ NumPrio \in 0 .. NumPrio
    /\ \A n \in 0 .. NumPrio : n # NumPrio => n \in Prios
BY QueueIdsFacts, AddressesAssumption DEF Prios

\* The priority a thread is due is that of a run queue: it is no less urgent than
\* the thread's base priority.
LEMMA EffectiveIsPrio ==
    ASSUME IInv, NEW t \in Threads, NEW ms \in Seq(Mutexes)
    PROVE  EffectivePriority(t, ms) \in Prios
<1> DEFINE S == {BasePrio[t]} \cup {prio[queue[ms[i]][1]] : i \in {j \in 1 .. Len(ms) : queue[ms[j]] # <<>>}}
<1>1. BasePrio[t] \in Prios
  BY ConstantsAssumption
<1>2. S \subseteq Nat
  <2>1. ASSUME NEW i \in 1 .. Len(ms), queue[ms[i]] # <<>> PROVE prio[queue[ms[i]][1]] \in Nat
    <3>1. ms[i] \in QueueIds
      BY QueueIdsFacts, ElementOfSeq
    <3>2. queue[ms[i]] \in Seq(Threads)
      BY <3>1 DEF IInv, TypeOK, QueuesTypeOK
    <3>3. queue[ms[i]][1] \in Threads
      BY <2>1, <3>2, ElementOfSeq, EmptySeq, LenProperties
    <3> QED
      BY <3>3, QueueIdsFacts DEF IInv, TypeOK, ThreadsTypeOK
  <2> QED
    BY <1>1, <2>1, QueueIdsFacts
<1>3. Least(S) \in S /\ Least(S) <= BasePrio[t]
  BY <1>2, LeastProperties
<1>4. Least(S) \in Nat
  BY <1>2, <1>3
<1>5. EffectivePriority(t, ms) = Least(S)
  BY DEF EffectivePriority
<1> HIDE DEF S
<1> QED
  BY <1>1, <1>3, <1>4, <1>5, QueueIdsFacts DEF Prios

\* The lists depend on what they are made of, and nothing else.
LEMMA QueuesStutter ==
    ASSUME QueuesInv, UNCHANGED <<queue, pending, link, state, suspend, prio, listed>>
    PROVE  QueuesInv' /\ PlacedStays
BY DEF QueuesInv, GoodLists, ListsOK, Shelved, PriosOK, ListedIsAlive, PlacedStays, EmptyStays, Placed

\* What a step does to the lists: thread t leaves the list it is on, if any, and
\* then, if it moves, is on q.
Left(t) ==
    \A r \in QueueIds : \A x \in Threads : Linked(queue'[r], x) <=> Linked(queue[r], x) /\ x # t

Moved(t, q) ==
    \A r \in QueueIds : \A x \in Threads :
        Linked(queue'[r], x) <=> (Linked(queue[r], x) /\ x # t) \/ (x = t /\ r = q)

\* Nothing else that says why the other threads are where they are changes.
OthersStay(t) ==
    \A x \in Threads \ {t} :
        link'[x] = link[x] /\ state'[x] = state[x] /\ suspend'[x] = suspend[x] /\ prio'[x] = prio[x]

\* The lists that the other threads may be on have names.
LEMMA PlacesAreLists ==
    ASSUME IInv, Shelved(queue, link, state, suspend), NEW x \in Threads
    PROVE  prio[x] \in QueueIds /\ (state[x] = "WAITING" => link[x] \in QueueIds)
<1>1. prio[x] \in 0 .. NumPrio
  BY DEF IInv, TypeOK, ThreadsTypeOK
<1>2. state[x] = "WAITING" => link[x] \in WaitQueues
  BY DEF Shelved
<1> QED
  BY <1>1, <1>2, QueueIdsFacts

\* A thread that leaves its list neither waits nor may run any more; one that moves
\* is on its new list for a reason.
LEMMA LeftShelved ==
    ASSUME IInv, Shelved(queue, link, state, suspend), NEW pr, GoodLists(queue', pending', pr),
           NEW t \in Threads, Left(t), OthersStay(t),
           state'[t] # "WAITING", ~ (state'[t] = "READY" /\ suspend'[t] = 0)
    PROVE  Shelved(queue', link', state', suspend') /\ PlacedStays
<1>1. \A r \in QueueIds : \A x \in Threads : Linked(queue'[r], x) => Linked(queue[r], x) /\ x # t
  BY Zenon DEF Left
<1>2. Shelved(queue', link', state', suspend')
  BY <1>1 DEF Shelved, OthersStay
<1>3. \A r \in QueueIds : \A x \in Threads : Linked(queue[r], x) /\ x # t => Linked(queue'[r], x)
  BY Zenon DEF Left
<1>4. Placed => Placed'
  BY <1>3, PlacesAreLists DEF Placed, OthersStay
<1>5. EmptyStays
  <2> SUFFICES ASSUME NEW q \in WaitQueues, queue[q] = <<>>, queue'[q] # <<>> PROVE FALSE
    BY DEF EmptyStays
  <2>1. q \in QueueIds
    BY QueueIdsFacts
  <2>2. PICK x \in Threads : Linked(queue'[q], x)
    BY <2>1, LinkedFacts DEF GoodLists
  <2>3. Linked(queue[q], x)
    BY <1>1, <2>1, <2>2
  <2> QED
    BY <2>3, LinkedFacts
<1> QED
  BY <1>2, <1>4, <1>5 DEF PlacedStays

\* A thread that moves to another list has the state that belongs there.
LEMMA MovedShelved ==
    ASSUME IInv, Shelved(queue, link, state, suspend), NEW pr, GoodLists(queue', pending', pr),
           NEW t \in Threads, NEW q \in QueueIds,
           Moved(t, q), OthersStay(t), link'[t] = q,
           \/ /\ q \in WaitQueues /\ state'[t] = "WAITING"
              /\ (state[t] = "WAITING" /\ link[t] = q) \/ (At("sleep") /\ Top.q = q)
           \/ q \in Prios /\ state'[t] = "READY" /\ suspend'[t] = 0 /\ prio'[t] = q
    PROVE  Shelved(queue', link', state', suspend') /\ PlacedStays
<1>1. \A r \in QueueIds : \A x \in Threads :
         Linked(queue'[r], x) => (Linked(queue[r], x) /\ x # t) \/ (x = t /\ r = q)
  BY Zenon DEF Moved
<1>2. Shelved(queue', link', state', suspend')
  BY <1>1 DEF Shelved, OthersStay
<1>3. \A r \in QueueIds : \A x \in Threads : Linked(queue[r], x) /\ x # t => Linked(queue'[r], x)
  BY Zenon DEF Moved
<1>4. Linked(queue'[q], t)
  BY Zenon DEF Moved
<1>5. ASSUME Placed, NEW x \in Threads \ {t}
      PROVE  /\ state'[x] = "READY" /\ suspend'[x] = 0 => Linked(queue'[prio'[x]], x)
             /\ state'[x] = "WAITING" => Linked(queue'[link'[x]], x)
  BY <1>3, <1>5, PlacesAreLists DEF Placed, OthersStay
<1>6. /\ state'[t] = "READY" /\ suspend'[t] = 0 => Linked(queue'[prio'[t]], t)
      /\ state'[t] = "WAITING" => Linked(queue'[link'[t]], t)
  BY <1>4
<1>7. Placed => Placed'
  BY <1>5, <1>6 DEF Placed
<1>8. ASSUME Placed PROVE EmptyStays
  <2> SUFFICES ASSUME NEW r \in WaitQueues, queue[r] = <<>>, queue'[r] # <<>>
               PROVE  At("sleep") /\ r = Top.q
    BY DEF EmptyStays
  <2>1. r \in QueueIds /\ r \notin Prios
    BY PriosAreNoWaitQueues, QueueIdsFacts
  <2>2. PICK x \in Threads : Linked(queue'[r], x)
    BY <2>1, LinkedFacts DEF GoodLists
  <2>3. x = t /\ r = q /\ ~ Linked(queue[q], t)
    BY <1>1, <2>1, <2>2, LinkedFacts
  <2> QED
    BY <1>8, <2>1, <2>3 DEF Placed
<1> QED
  BY <1>2, <1>7, <1>8 DEF PlacedStays

\* A waiter or a ready thread moves to its place for priority p.
LEMMA RequeueLists ==
    ASSUME IInv, QueuesInv, NEW t \in Threads, NEW q \in QueueIds, NEW p \in 0 .. NumPrio,
           \/ Insert(Removed(t), RemovedMask(t), q, t, p)
           \/ Nowhere(queue, t) /\ Insert(queue, pending, q, t, p)
    PROVE  /\ GoodLists(queue', pending', [prio EXCEPT ![t] = p])
           /\ link' = [link EXCEPT ![t] = q]
           /\ Moved(t, q)
<1>1. CASE Insert(Removed(t), RemovedMask(t), q, t, p)
  <2>1. /\ GoodLists(Removed(t), RemovedMask(t), prio)
        /\ Nowhere(Removed(t), t)
        /\ \A r \in QueueIds : \A x \in Threads :
              Linked(Removed(t)[r], x) <=> Linked(queue[r], x) /\ x # t
    BY QueuesFacts, RemovedLists
  <2>2. /\ GoodLists(queue', pending', [prio EXCEPT ![t] = p])
        /\ \A r \in QueueIds : \A x \in Threads :
              Linked(queue'[r], x) <=> Linked(Removed(t)[r], x) \/ (x = t /\ r = q)
    BY <1>1, <2>1, InsertedLists DEF Insert
  <2>3. Moved(t, q)
    BY <2>1, <2>2, Zenon DEF Moved
  <2>4. link' = [link EXCEPT ![t] = q]
    BY <1>1 DEF Insert
  <2> QED
    BY <2>2, <2>3, <2>4
<1>2. CASE Nowhere(queue, t) /\ Insert(queue, pending, q, t, p)
  <2>0. GoodLists(queue, pending, prio) /\ Nowhere(queue, t)
    BY <1>2, QueuesFacts
  <2>1. /\ GoodLists(Inserted(queue, q, t, p), InsertedMask(pending, q), [prio EXCEPT ![t] = p])
        /\ \A r \in QueueIds : \A x \in Threads :
              Linked(Inserted(queue, q, t, p)[r], x) <=> Linked(queue[r], x) \/ (x = t /\ r = q)
    BY <2>0, InsertedLists
  <2>2. /\ queue' = Inserted(queue, q, t, p) /\ pending' = InsertedMask(pending, q)
        /\ link' = [link EXCEPT ![t] = q]
    BY <1>2 DEF Insert
  <2>3. \A r \in QueueIds : \A x \in Threads : Linked(queue'[r], x) <=> Linked(queue[r], x) \/ (x = t /\ r = q)
    BY <2>1, <2>2, Zenon
  <2>4. Moved(t, q)
    BY <2>0, <2>3, Zenon DEF Moved, Nowhere
  <2> QED
    BY <2>1, <2>2, <2>4
<1> QED
  BY <1>1, <1>2

\* A waiter takes its place in its wait queue anew.
LEMMA ReinsertLists ==
    ASSUME IInv, QueuesInv, NEW t \in Threads, state[t] = "WAITING", NEW p \in 0 .. NumPrio,
           Reinsert(t, p)
    PROVE  /\ GoodLists(queue', pending', [prio EXCEPT ![t] = p])
           /\ link' = [link EXCEPT ![t] = link[t]]
           /\ link[t] \in WaitQueues
           /\ Moved(t, link[t])
<1>1. link[t] \in WaitQueues
  BY DEF QueuesInv, Shelved
<1>2. link[t] \in QueueIds /\ link[t] # NoQueue
  BY <1>1, PriosAreNoWaitQueues
<1>3. Insert(Removed(t), RemovedMask(t), link[t], t, p)
  BY <1>2 DEF Reinsert
<1> QED
  BY <1>1, <1>2, <1>3, RequeueLists

\* SetThreadEffectivePriority, for the priority of a run queue and a thread that
\* is not suspended.
LEMMA SetThreadEffectivePriorityLists ==
    ASSUME IInv, QueuesInv, NEW t \in Threads, suspend[t] = 0, NEW p \in Prios,
           SetThreadEffectivePriority(t, p), UNCHANGED <<state, suspend, listed>>
    PROVE  QueuesInv' /\ PlacedStays
<1> DEFINE pr2 == [prio EXCEPT ![t] = p]
<1>0. /\ GoodLists(queue, pending, prio) /\ prio \in [Threads -> 0 .. NumPrio]
      /\ link \in [Threads -> QueueIds \cup {NoQueue}] /\ state \in [Threads -> States]
      /\ p \in 0 .. NumPrio /\ p \in QueueIds /\ p # NumPrio
      /\ pr2 \in [Threads -> 0 .. NumPrio]
  BY QueuesFacts, PriosAreNoWaitQueues
<1>1. PriosOK(state, suspend, pr2)
  BY <1>0 DEF QueuesInv, PriosOK
<1>2. ListedIsAlive'
  BY DEF QueuesInv, ListedIsAlive
<1>3. CASE Terminated(t)
  <2>1. UNCHANGED <<queue, pending, link, prio>>
    BY <1>3 DEF SetThreadEffectivePriority, Terminated, KeepQueues
  <2> QED
    BY <2>1, QueuesStutter
<1>4. CASE ~ Terminated(t)
  <2>1. prio' = pr2
    BY <1>4 DEF SetThreadEffectivePriority
  <2> HIDE DEF pr2
  <2>2. CASE state[t] = "READY"
    <3>1. Insert(Removed(t), RemovedMask(t), p, t, p)
      BY <2>2 DEF SetThreadEffectivePriority
    <3>2. /\ GoodLists(queue', pending', [prio EXCEPT ![t] = p])
          /\ link' = [link EXCEPT ![t] = p]
          /\ Moved(t, p)
      BY <1>0, <3>1, RequeueLists
    <3>3. OthersStay(t) /\ link'[t] = p /\ prio'[t] = p
      BY <1>0, <2>1, <3>2 DEF OthersStay, pr2
    <3>4. Shelved(queue', link', state', suspend') /\ PlacedStays
      BY <1>0, <2>2, <3>2, <3>3, MovedShelved DEF QueuesInv
    <3> QED
      BY <1>1, <1>2, <2>1, <3>2, <3>4 DEF QueuesInv, pr2
  <2>3. CASE state[t] = "WAITING"
    <3>1. Reinsert(t, p)
      BY <2>3 DEF SetThreadEffectivePriority
    <3>2. /\ GoodLists(queue', pending', [prio EXCEPT ![t] = p])
          /\ link' = [link EXCEPT ![t] = link[t]]
          /\ link[t] \in WaitQueues
          /\ Moved(t, link[t])
      BY <1>0, <2>3, <3>1, ReinsertLists
    <3>3. OthersStay(t) /\ link'[t] = link[t]
      BY <1>0, <2>1, <3>2 DEF OthersStay, pr2
    <3>4. Shelved(queue', link', state', suspend') /\ PlacedStays
      BY <2>3, <3>2, <3>3, MovedShelved, PriosAreNoWaitQueues DEF QueuesInv
    <3> QED
      BY <1>1, <1>2, <2>1, <3>2, <3>4 DEF QueuesInv, pr2
  <2>4. CASE state[t] \notin {"READY", "WAITING"}
    <3>1. UNCHANGED <<queue, pending, link>>
      BY <2>4 DEF SetThreadEffectivePriority, KeepQueues
    <3>2. \A q \in WaitQueues : ~ Linked(queue[q], t)
      BY <2>4, QueuesFacts, QueueIdsFacts DEF Nowhere
    <3>3. GoodLists(queue, pending, pr2)
      BY <1>0, <3>2, ReprioLists DEF pr2
    <3>4. Shelved(queue, link, state, suspend)
      BY DEF QueuesInv
    <3>5. PlacedStays
      BY <1>0, <2>1, <2>4, <3>1 DEF PlacedStays, EmptyStays, Placed, pr2
    <3> QED
      BY <1>1, <1>2, <2>1, <3>1, <3>3, <3>4, <3>5 DEF QueuesInv
  <2> QED
    BY <2>2, <2>3, <2>4
<1> QED
  BY <1>3, <1>4

\* OSResumeThread and the timers: a thread that nothing suspends any more is put
\* where it is looked for.
LEMMA ResumeThreadLists ==
    ASSUME IInv, QueuesInv, NEW t \in Threads, NEW rest, ResumeThread(t, rest), UNCHANGED listed
    PROVE  QueuesInv' /\ PlacedStays
<1> DEFINE p == EffectivePriority(t, owned[t])
           pr2 == [prio EXCEPT ![t] = p]
<1>0. /\ GoodLists(queue, pending, prio) /\ prio \in [Threads -> 0 .. NumPrio]
      /\ link \in [Threads -> QueueIds \cup {NoQueue}] /\ state \in [Threads -> States]
      /\ suspend \in [Threads -> Nat]
  BY QueuesFacts
<1>1. suspend' = [suspend EXCEPT ![t] = IF @ = 0 THEN 0 ELSE @ - 1]
  BY DEF ResumeThread
<1>2. CASE suspend[t] # 1
  <2>1. UNCHANGED <<queue, pending, link, state, prio>>
    BY <1>2 DEF ResumeThread, KeepQueues
  <2>2. \A x \in Threads : /\ suspend[x] = 0 => suspend'[x] = 0
                           /\ suspend[x] > 0 => suspend'[x] > 0
    BY <1>0, <1>1, <1>2
  <2>3. Shelved(queue, link, state, suspend')
    BY <2>2 DEF QueuesInv, Shelved
  <2>4. PriosOK(state, suspend', prio)
    BY <2>2 DEF QueuesInv, PriosOK
  <2>5. PlacedStays
    <3>1. \A x \in Threads : suspend'[x] = 0 => suspend[x] = 0
      BY <1>0, <1>1, <1>2
    <3> QED
      BY <2>1, <3>1 DEF PlacedStays, EmptyStays, Placed
  <2> QED
    BY <1>0, <2>1, <2>3, <2>4, <2>5 DEF QueuesInv, ListedIsAlive
<1>3. CASE suspend[t] = 1
  <2> DEFINE revived == state[t] \in {"READY", "RUNNING"}
  <2>1. /\ state' = IF revived THEN [state EXCEPT ![t] = "READY"] ELSE state
        /\ prio' = IF Terminated(t) THEN prio ELSE pr2
        /\ CASE revived -> Insert(queue, pending, p, t, p)
             [] state[t] = "WAITING" -> Reinsert(t, p)
             [] OTHER -> KeepQueues
    BY <1>3 DEF ResumeThread
  <2>2. p \in Prios
    BY EffectiveIsPrio DEF IInv, TypeOK, ThreadsTypeOK
  <2>3. p \in 0 .. NumPrio /\ p \in QueueIds /\ p # NumPrio
    BY <2>2, PriosAreNoWaitQueues
  <2> HIDE DEF p
  <2>4. suspend'[t] = 0 /\ \A x \in Threads : x # t => suspend'[x] = suspend[x]
    BY <1>0, <1>1, <1>3
  <2>5. CASE Terminated(t)
    <3>1. UNCHANGED <<queue, pending, link, state, prio>>
      BY <2>1, <2>5 DEF Terminated, KeepQueues
    <3>2. Nowhere(queue, t)
      BY <2>5, QueuesFacts DEF Terminated
    <3>3. Shelved(queue, link, state, suspend')
      BY <2>4, <3>2 DEF QueuesInv, Shelved, Nowhere
    <3>4. PriosOK(state, suspend', prio)
      BY <2>4, <2>5 DEF QueuesInv, PriosOK, Terminated
    <3>5. PlacedStays
      BY <2>4, <2>5, <3>1 DEF PlacedStays, EmptyStays, Placed, Terminated
    <3> QED
      BY <1>0, <3>1, <3>3, <3>4, <3>5 DEF QueuesInv, ListedIsAlive
  <2>6. CASE ~ Terminated(t)
    <3>0. prio' = pr2
      BY <2>1, <2>6
    <3>1. PriosOK(state', suspend', prio')
      <4>1. \A x \in Threads : x # t => state'[x] = state[x] /\ prio'[x] = prio[x]
        BY <1>0, <2>1, <3>0
      <4>2. prio'[t] # NumPrio
        BY <1>0, <2>3, <3>0
      <4> QED
        BY <2>4, <4>1, <4>2 DEF QueuesInv, PriosOK
    <3>2. ListedIsAlive'
      BY <1>0, <2>1 DEF QueuesInv, ListedIsAlive
    <3> HIDE DEF pr2
    <3>3. CASE revived
      <4>1. Insert(queue, pending, p, t, p) /\ state' = [state EXCEPT ![t] = "READY"]
        BY <2>1, <3>3
      <4>2. Nowhere(queue, t)
        BY <1>3, <3>3, QueuesFacts
      <4>3. /\ GoodLists(queue', pending', [prio EXCEPT ![t] = p])
            /\ link' = [link EXCEPT ![t] = p]
            /\ Moved(t, p)
        BY <2>3, <4>1, <4>2, RequeueLists
      <4>4. state'[t] = "READY" /\ link'[t] = p /\ prio'[t] = p /\ OthersStay(t)
        BY <1>0, <2>4, <3>0, <4>1, <4>3 DEF OthersStay, pr2
      <4>6. Shelved(queue', link', state', suspend') /\ PlacedStays
        BY <2>2, <2>3, <2>4, <4>3, <4>4, MovedShelved DEF QueuesInv
      <4> QED
        BY <3>0, <3>1, <3>2, <4>3, <4>6 DEF QueuesInv, pr2
    <3>4. CASE state[t] = "WAITING"
      <4>1. Reinsert(t, p) /\ state' = state
        BY <2>1, <3>4
      <4>2. /\ GoodLists(queue', pending', [prio EXCEPT ![t] = p])
            /\ link' = [link EXCEPT ![t] = link[t]]
            /\ link[t] \in WaitQueues
            /\ Moved(t, link[t])
        BY <2>3, <3>4, <4>1, ReinsertLists
      <4>3. link'[t] = link[t] /\ OthersStay(t)
        BY <1>0, <2>4, <3>0, <4>1, <4>2 DEF OthersStay, pr2
      <4>4. Shelved(queue', link', state', suspend') /\ PlacedStays
        BY <3>4, <4>1, <4>2, <4>3, MovedShelved, PriosAreNoWaitQueues DEF QueuesInv
      <4> QED
        BY <3>0, <3>1, <3>2, <4>2, <4>4 DEF QueuesInv, pr2
    <3> QED
      BY <1>0, <2>6, <3>3, <3>4 DEF Terminated, States
  <2> QED
    BY <2>5, <2>6
<1> QED
  BY <1>2, <1>3

\* OSSuspendThread: a thread that is suspended leaves its run queue.
LEMMA SuspendThreadLists ==
    ASSUME IInv, QueuesInv, NEW t \in Threads, NEW rest, SuspendThread(t, rest), UNCHANGED listed
    PROVE  QueuesInv' /\ PlacedStays
<1>0. /\ GoodLists(queue, pending, prio) /\ prio \in [Threads -> 0 .. NumPrio]
      /\ link \in [Threads -> QueueIds \cup {NoQueue}] /\ state \in [Threads -> States]
      /\ suspend \in [Threads -> Nat] /\ LinksOK(queue, link)
  BY QueuesFacts
<1>1. suspend' = [suspend EXCEPT ![t] = @ + 1]
  BY DEF SuspendThread
<1>2. suspend'[t] > 0 /\ \A x \in Threads : x # t => suspend'[x] = suspend[x]
  BY <1>0, <1>1
<1>3. CASE suspend[t] # 0
  <2>1. UNCHANGED <<queue, pending, link, state, prio>>
    BY <1>3 DEF SuspendThread, KeepQueues
  <2>2. Shelved(queue, link, state, suspend')
    BY <1>2, <1>3 DEF QueuesInv, Shelved
  <2>3. PriosOK(state, suspend', prio)
    BY <1>2 DEF QueuesInv, PriosOK
  <2>4. PlacedStays
    BY <1>2, <2>1 DEF PlacedStays, EmptyStays, Placed
  <2> QED
    BY <1>0, <2>1, <2>2, <2>3, <2>4 DEF QueuesInv, ListedIsAlive
<1>4. CASE suspend[t] = 0
  <2>1. /\ state' = IF state[t] = "RUNNING" THEN [state EXCEPT ![t] = "READY"] ELSE state
        /\ prio' = IF state[t] = "WAITING" THEN [prio EXCEPT ![t] = NumPrio] ELSE prio
        /\ CASE state[t] = "READY" -> Delink(t)
             [] state[t] = "WAITING" -> Reinsert(t, NumPrio)
             [] OTHER -> KeepQueues
    BY <1>4 DEF SuspendThread
  <2>2. /\ \A x \in Threads : x # t => state'[x] = state[x] /\ prio'[x] = prio[x]
        /\ state'[t] = IF state[t] = "RUNNING" THEN "READY" ELSE state[t]
    BY <1>0, <2>1
  <2>3. PriosOK(state', suspend', prio')
    BY <1>2, <2>2 DEF QueuesInv, PriosOK
  <2>4. ListedIsAlive'
    BY <2>2 DEF QueuesInv, ListedIsAlive
  <2>5. CASE state[t] = "READY"
    <3>1. Delink(t) /\ state' = state /\ prio' = prio
      BY <2>1, <2>5
    <3>2. /\ GoodLists(queue', pending', prio)
          /\ Nowhere(queue', t)
          /\ \A q \in QueueIds : \A x \in Threads :
                Linked(queue'[q], x) <=> Linked(queue[q], x) /\ x # t
      BY <1>0, <3>1, RemovedLists DEF Delink
    <3>3. Left(t) /\ OthersStay(t)
      <4>1. Left(t)
        BY <3>2, Zenon DEF Left
      <4>2. OthersStay(t)
        BY <1>0, <1>2, <3>1 DEF Delink, Delinked, OthersStay
      <4> QED
        BY <4>1, <4>2
    <3>4. Shelved(queue', link', state', suspend') /\ PlacedStays
      BY <1>2, <2>5, <3>1, <3>2, <3>3, LeftShelved DEF QueuesInv
    <3> QED
      BY <2>3, <2>4, <3>1, <3>2, <3>4 DEF QueuesInv
  <2>6. CASE state[t] = "WAITING"
    <3>1. Reinsert(t, NumPrio) /\ state' = state /\ prio' = [prio EXCEPT ![t] = NumPrio]
      BY <2>1, <2>6
    <3>2. /\ GoodLists(queue', pending', [prio EXCEPT ![t] = NumPrio])
          /\ link' = [link EXCEPT ![t] = link[t]]
          /\ link[t] \in WaitQueues
          /\ Moved(t, link[t])
      BY <2>6, <3>1, ReinsertLists, PriosAreNoWaitQueues
    <3>3. link'[t] = link[t] /\ OthersStay(t)
      BY <1>0, <1>2, <3>1, <3>2 DEF OthersStay
    <3>4. Shelved(queue', link', state', suspend') /\ PlacedStays
      BY <2>6, <3>1, <3>2, <3>3, MovedShelved, PriosAreNoWaitQueues DEF QueuesInv
    <3> QED
      BY <2>3, <2>4, <3>1, <3>2, <3>4 DEF QueuesInv
  <2>7. CASE state[t] \notin {"READY", "WAITING"}
    <3>1. UNCHANGED <<queue, pending, link, prio>>
      BY <2>1, <2>7 DEF KeepQueues
    <3>2. Nowhere(queue, t)
      BY <2>7, QueuesFacts
    <3>3. Shelved(queue, link, state', suspend')
      BY <1>2, <2>2, <2>7, <3>2 DEF QueuesInv, Shelved, Nowhere
    <3>4. PlacedStays
      BY <1>2, <2>2, <2>7, <3>1 DEF PlacedStays, EmptyStays, Placed
    <3> QED
      BY <1>0, <2>3, <2>4, <3>1, <3>3, <3>4 DEF QueuesInv
  <2> QED
    BY <2>5, <2>6, <2>7
<1> QED
  BY <1>3, <1>4
-----------------------------------------------------------------------------
(***************************************************************************)
(* The stack of the running fiber.                                         *)
(***************************************************************************)

\* A sequence whose elements are in a set is a sequence over that set.
LEMMA SeqOfElements ==
    ASSUME NEW S, NEW s \in Seq(S), NEW B, \A i \in 1 .. Len(s) : s[i] \in B
    PROVE  s \in Seq(B)
<1>1. s \in [1 .. Len(s) -> B] /\ Len(s) \in Nat
  OBVIOUS
<1> QED
  BY <1>1, SeqDef

\* The topmost frame of a stack that is split, and what is left under it.
LEMMA SplitTop ==
    ASSUME NEW s \in Seq(Frame), NEW A, NEW C, NEW B \in SUBSET Frame, Split(s, A, C, B)
    PROVE  /\ s # <<>>
           /\ \/ Head(s) \in C /\ Tail(s) \in Seq(B)
              \/ Head(s) \in A /\ Split(Tail(s), A, C, B)
<1>1. PICK n \in 1 .. Len(s) :
         /\ s[n] \in C
         /\ \A i \in 1 .. n - 1 : s[i] \in A
         /\ \A i \in n + 1 .. Len(s) : s[i] \in B
  BY DEF Split
<1>2. Len(s) \in Nat /\ n \in Nat /\ 1 <= n /\ n <= Len(s) /\ s # <<>>
  OBVIOUS
<1>3. /\ Head(s) = s[1] /\ Tail(s) \in Seq(Frame) /\ Len(Tail(s)) = Len(s) - 1
      /\ \A i \in 1 .. Len(Tail(s)) : Tail(s)[i] = s[i + 1]
  BY <1>2, HeadTailProperties
<1> DEFINE u == Tail(s)
<1> HIDE DEF u
<1>4. u \in Seq(Frame) /\ Len(u) = Len(s) - 1 /\ \A i \in 1 .. Len(u) : u[i] = s[i + 1]
  BY <1>3 DEF u
<1>5. CASE n = 1
  <2>1. \A i \in 1 .. Len(u) : u[i] \in B
    BY <1>1, <1>2, <1>4, <1>5
  <2>2. u \in Seq(B)
    BY <1>2, <1>4, <2>1, SeqOfElements
  <2> QED
    BY <1>1, <1>2, <1>3, <1>5, <2>2 DEF u
<1>6. CASE n > 1
  <2>1. s[1] \in A
    BY <1>1, <1>2, <1>6
  <2>2. /\ n - 1 \in 1 .. Len(u) /\ u[n - 1] \in C
        /\ \A i \in 1 .. (n - 1) - 1 : u[i] \in A
        /\ \A i \in (n - 1) + 1 .. Len(u) : u[i] \in B
    <3>1. n - 1 \in 1 .. Len(u) /\ (n - 1) + 1 = n
      BY <1>2, <1>4, <1>6
    <3>2. u[n - 1] = s[n]
      BY <1>4, <3>1
    <3>3. ASSUME NEW i \in 1 .. (n - 1) - 1 PROVE u[i] \in A
      <4>1. i \in 1 .. Len(u) /\ i + 1 \in 1 .. n - 1
        BY <1>2, <1>4, <1>6
      <4> QED
        BY <1>1, <1>4, <4>1
    <3>4. ASSUME NEW i \in (n - 1) + 1 .. Len(u) PROVE u[i] \in B
      <4>1. i \in 1 .. Len(u) /\ i + 1 \in n + 1 .. Len(s)
        BY <1>2, <1>4, <1>6
      <4> QED
        BY <1>1, <1>4, <4>1
    <3> QED
      BY <1>1, <3>1, <3>2, <3>3, <3>4
  <2>3. Split(u, A, C, B)
    BY <2>2 DEF Split
  <2> QED
    BY <1>2, <1>3, <2>1, <2>3 DEF u
<1> QED
  BY <1>2, <1>5, <1>6

\* A frame that is pushed on a split stack, and one that splits the stack.
LEMMA SplitPush ==
    ASSUME NEW s \in Seq(Frame), NEW A, NEW C, NEW B, NEW f \in Frame
    PROVE  /\ f \in A /\ Split(s, A, C, B) => Split(<<f>> \o s, A, C, B)
           /\ f \in C /\ s \in Seq(B) => Split(<<f>> \o s, A, C, B)
<1> DEFINE u == <<f>> \o s
<1>1. /\ Len(s) \in Nat /\ Len(u) = Len(s) + 1 /\ u[1] = f
      /\ \A i \in 2 .. Len(u) : u[i] = s[i - 1]
  <2>1. <<f>> \in Seq(Frame) /\ Len(<<f>>) = 1 /\ <<f>>[1] = f
    OBVIOUS
  <2> QED
    BY <2>1, ConcatProperties
<1> HIDE DEF u
<1>2. ASSUME f \in A, Split(s, A, C, B) PROVE Split(u, A, C, B)
  <2>1. PICK n \in 1 .. Len(s) :
           /\ s[n] \in C
           /\ \A i \in 1 .. n - 1 : s[i] \in A
           /\ \A i \in n + 1 .. Len(s) : s[i] \in B
    BY <1>2 DEF Split
  <2>2. n + 1 \in 1 .. Len(u) /\ u[n + 1] \in C
    BY <1>1, <2>1
  <2>3. ASSUME NEW i \in 1 .. (n + 1) - 1 PROVE u[i] \in A
    <3>1. i = 1 \/ (i \in 2 .. Len(u) /\ i - 1 \in 1 .. n - 1)
      BY <1>1
    <3> QED
      BY <1>1, <1>2, <2>1, <3>1
  <2>4. ASSUME NEW i \in (n + 1) + 1 .. Len(u) PROVE u[i] \in B
    <3>1. i \in 2 .. Len(u) /\ i - 1 \in n + 1 .. Len(s)
      BY <1>1
    <3> QED
      BY <1>1, <2>1, <3>1
  <2> QED
    BY <2>2, <2>3, <2>4 DEF Split
<1>3. ASSUME f \in C, s \in Seq(B) PROVE Split(u, A, C, B)
  <2>1. \A i \in 1 + 1 .. Len(u) : u[i] \in B
    <3>1. \A i \in 1 .. Len(s) : s[i] \in B
      BY <1>3
    <3>2. \A i \in 1 + 1 .. Len(u) : i \in 2 .. Len(u) /\ i - 1 \in 1 .. Len(s)
      BY <1>1
    <3> QED
      BY <1>1, <3>1, <3>2
  <2>2. 1 \in 1 .. Len(u) /\ u[1] \in C /\ \A i \in 1 .. 1 - 1 : u[i] \in A
    BY <1>1, <1>3
  <2> QED
    BY <2>1, <2>2 DEF Split
<1> QED
  BY <1>2, <1>3 DEF u

\* What a split stack consists of, and larger sets that split it as well.
LEMMA SplitOf ==
    ASSUME NEW s \in Seq(Frame), NEW A, NEW C, NEW B, Split(s, A, C, B)
    PROVE  /\ A \subseteq B /\ C \subseteq B => s \in Seq(B)
           /\ \A D : C \subseteq D => Split(s, A, D, B)
<1>1. PICK n \in 1 .. Len(s) :
         /\ s[n] \in C
         /\ \A i \in 1 .. n - 1 : s[i] \in A
         /\ \A i \in n + 1 .. Len(s) : s[i] \in B
  BY DEF Split
<1>2. ASSUME A \subseteq B, C \subseteq B PROVE s \in Seq(B)
  <2>1. \A i \in 1 .. Len(s) : i \in 1 .. n - 1 \/ i = n \/ i \in n + 1 .. Len(s)
    BY LenProperties
  <2>2. \A i \in 1 .. Len(s) : s[i] \in B
    BY <1>1, <1>2, <2>1
  <2> QED
    BY <2>2, SeqOfElements
<1>3. ASSUME NEW D, C \subseteq D PROVE Split(s, A, D, B)
  BY <1>1, <1>3 DEF Split
<1> QED
  BY <1>2, <1>3

\* The sets of frames, by inclusion.
LEMMA FrameSets ==
    ASSUME NEW t, NEW r
    PROVE  /\ Quiet(t) \in SUBSET Frame /\ Passing \subseteq Quiet(t) /\ Selecting(r) \subseteq Quiet(t)
           /\ AboveIdle \subseteq Quiet(t) /\ IdleFrame \notin Quiet(t)
           /\ Selecting(r) \subseteq Selecting(TRUE)
           /\ IdleFrame \in Frame
<1>1. IdleFrame \in Frame
  BY Zero DEF IdleFrame, Fr, Frame, FrameOps
<1> QED
  BY <1>1 DEF Quiet, Passing, Selecting, AboveIdle, IdleFrame, Fr

\* Where the running fiber is, by the frame on top of its stack.
LEMMA TopCases ==
    ASSUME IInv, HostInv, stack[host] # <<>>
    PROVE  /\ host \in Threads /\ Top \in Frame /\ Rest \in Seq(Frame)
           /\ stack[host] \in Seq(Frame)
           /\ Top.op \notin {"wakeFiber", "fiberEnd"}
           /\ \/ Runs /\ Top \in Quiet(host) /\ Rest \in Seq(Quiet(host))
              \/ Yields /\ Top \in Selecting(resched) /\ Rest \in Seq(Quiet(host))
              \/ /\ Yields /\ Top \in Passing /\ Rest \in Seq(Quiet(host))
                 /\ Split(Rest, Passing, Selecting(resched), Quiet(host))
              \/ Idles /\ Top = IdleFrame /\ Rest \in Seq(Quiet(host))
              \/ Idles /\ Top \in AboveIdle /\ Split(Rest, AboveIdle, {IdleFrame}, Quiet(host))
              \/ Picks
<1>1. host \in Threads /\ stack[host] \in Seq(Frame)
  BY DEF IInv, TypeOK, FibersTypeOK
<1>2. Top \in Frame /\ Rest \in Seq(Frame)
  BY <1>1, TopOf
<1>3. CASE Runs
  <2>1. Top \in Quiet(host) /\ Rest \in Seq(Quiet(host))
    BY <1>3, TopOf DEF Runs
  <2> QED
    BY <1>1, <1>2, <1>3, <2>1 DEF Quiet
<1>4. CASE Yields
  <2>1. \/ Top \in Selecting(resched) /\ Rest \in Seq(Quiet(host))
        \/ Top \in Passing /\ Split(Rest, Passing, Selecting(resched), Quiet(host))
    BY <1>1, <1>4, SplitTop, FrameSets DEF Yields, Top, Rest
  <2>2. Split(Rest, Passing, Selecting(resched), Quiet(host)) => Rest \in Seq(Quiet(host))
    BY <1>2, SplitOf, FrameSets
  <2>3. Top.op \notin {"wakeFiber", "fiberEnd"}
    BY <2>1 DEF Selecting, Passing
  <2> QED
    BY <1>1, <1>2, <1>4, <2>1, <2>2, <2>3
<1>5. CASE Idles
  <2>1. \/ Top \in {IdleFrame} /\ Rest \in Seq(Quiet(host))
        \/ Top \in AboveIdle /\ Split(Rest, AboveIdle, {IdleFrame}, Quiet(host))
    BY <1>1, <1>5, SplitTop, FrameSets DEF Idles, Top, Rest
  <2>2. Top.op \notin {"wakeFiber", "fiberEnd"}
    BY <2>1 DEF AboveIdle, IdleFrame, Fr
  <2> QED
    BY <1>1, <1>2, <1>5, <2>1, <2>2
<1>6. CASE Picks
  BY <1>1, <1>2, <1>6 DEF Picks
<1> QED
  BY <1>3, <1>4, <1>5, <1>6 DEF HostInv

\* The frames that only the fiber of the running thread has on top.
LEMMA TopRuns ==
    ASSUME IInv, HostInv, stack[host] # <<>>
    PROVE  /\ Top.op \in {"slept", "sleep", "lock", "promote", "joined", "ticked", "endDeferred"}
                 => Runs /\ Top \in Quiet(host) /\ Rest \in Seq(Quiet(host))
           /\ Top.op = "pick" => Picks
           /\ Top.op = "idle" => Idles /\ Top = IdleFrame /\ Rest \in Seq(Quiet(host))
           /\ Top.op \notin {"pick", "idle"} => Runs \/ Yields \/ Idles
           /\ Top.op = "exited" => Runs \/ Yields
BY TopCases DEF Selecting, Passing, AboveIdle, IdleFrame, Fr, Quiet, Picks

\* Guest code runs on the fiber of the thread that runs.
LEMMA GuestRuns ==
    ASSUME IInv, HostInv, InGuestCode
    PROVE  Runs /\ host \in Threads /\ stack[host] = <<>>
<1>1. host \in Threads /\ stack[host] \in Seq(Frame) /\ stack[host] = <<>>
  BY DEF IInv, TypeOK, FibersTypeOK, InGuestCode
<1>2. ~ Yields /\ ~ Idles
  BY <1>1, SplitTop, FrameSets DEF Yields, Idles
<1>3. ~ Picks
  BY <1>1 DEF Picks
<1> QED
  BY <1>1, <1>2, <1>3 DEF HostInv

-----------------------------------------------------------------------------
(***************************************************************************)
(* Every step keeps the lists.                                             *)
(***************************************************************************)

\* A thread that ends is on no list by then, and a thread that is collected was
\* on none.
LEMMA EndedLists ==
    ASSUME IInv, QueuesInv, NEW t \in Threads, state[t] # "NONE",
           GoodLists(queue', pending', prio), Left(t), UNCHANGED <<prio, suspend>>,
           \A x \in Threads \ {t} : link'[x] = link[x],
           NEW s \in {"NONE", "MORIBUND"}, state' = [state EXCEPT ![t] = s],
           listed' = IF s = "NONE" THEN listed \ {t} ELSE listed
    PROVE  QueuesInv' /\ PlacedStays
<1>0. state \in [Threads -> States]
  BY QueuesFacts
<1>1. OthersStay(t) /\ state'[t] = s
  BY <1>0 DEF OthersStay
<1>2. Shelved(queue', link', state', suspend') /\ PlacedStays
  BY <1>1, LeftShelved DEF QueuesInv
<1>3. PriosOK(state', suspend', prio')
  BY <1>1 DEF QueuesInv, PriosOK, OthersStay
<1>4. ListedIsAlive'
  BY <1>0 DEF QueuesInv, ListedIsAlive
<1> QED
  BY <1>2, <1>3, <1>4 DEF QueuesInv

\* A thread that is on no list leaves none.
LEMMA NowhereLeft ==
    ASSUME NEW t \in Threads, Nowhere(queue, t), UNCHANGED queue
    PROVE  Left(t)
BY DEF Nowhere, Left

\* SelectThread puts the thread that runs behind the others of its priority.
LEMMA SelectBeginsLists ==
    ASSUME IInv, QueuesInv, HostInv, SelectBegins
    PROVE  QueuesInv' /\ PlacedStays
<1>0. /\ GoodLists(queue, pending, prio) /\ prio \in [Threads -> 0 .. NumPrio]
      /\ link \in [Threads -> QueueIds \cup {NoQueue}] /\ state \in [Threads -> States]
      /\ suspend \in [Threads -> Nat]
  BY QueuesFacts
<1>1. UNCHANGED <<suspend, prio, listed>>
  BY DEF SelectBegins
<1>2. CASE state[running] # "RUNNING"
  <2>1. UNCHANGED <<state, queue, link, pending>>
    BY <1>2 DEF SelectBegins
  <2> QED
    BY <1>1, <2>1, QueuesStutter
<1>3. CASE state[running] = "RUNNING"
  <2>1. running = host /\ host \in Threads /\ Runs
    <3>1. stack[host] # <<>> /\ Top.op = "select" /\ current = running /\ current # NoThread
      BY DEF SelectBegins, At, SelectRefuses
    <3>2. host \in Threads /\ (Runs \/ Yields \/ Idles)
      BY <3>1, TopRuns, TopCases
    <3> QED
      BY <1>3, <3>1, <3>2 DEF Runs, Yields, Idles
  <2>2. /\ state' = [state EXCEPT ![host] = "READY"]
        /\ queue' = Enqueued(queue, host, prio[host])
        /\ link' = [link EXCEPT ![host] = prio[host]]
        /\ pending' = MarkedMask(pending, prio[host])
    BY <1>3, <2>1 DEF SelectBegins
  <2>3. prio[host] \in Prios /\ prio[host] \in QueueIds /\ Nowhere(queue, host)
    <3>1. state[host] = "RUNNING" /\ suspend[host] = 0 /\ prio[host] \in 0 .. NumPrio
      BY <1>0, <2>1 DEF Runs
    <3>2. prio[host] # NumPrio
      BY <2>1, <3>1 DEF QueuesInv, PriosOK
    <3> QED
      BY <2>1, <3>1, <3>2, PriosAreNoWaitQueues, QueuesFacts
  <2>4. /\ GoodLists(queue', pending', prio)
        /\ \A r \in QueueIds : \A x \in Threads :
              Linked(queue'[r], x) <=> Linked(queue[r], x) \/ (x = host /\ r = prio[host])
    BY <1>0, <2>1, <2>2, <2>3, EnqueuedLists
  <2>5. Moved(host, prio[host])
    BY <2>3, <2>4, Zenon DEF Moved, Nowhere
  <2>6. /\ OthersStay(host) /\ link'[host] = prio[host] /\ prio'[host] = prio[host]
        /\ state'[host] = "READY" /\ suspend'[host] = 0
    BY <1>0, <1>1, <2>1, <2>2 DEF OthersStay, Runs
  <2>7. Shelved(queue', link', state', suspend') /\ PlacedStays
    BY <2>1, <2>3, <2>4, <2>5, <2>6, MovedShelved DEF QueuesInv
  <2>8. PriosOK(state', suspend', prio')
    BY <1>1, <2>1, <2>3, <2>6, PriosAreNoWaitQueues DEF QueuesInv, PriosOK, OthersStay
  <2>9. ListedIsAlive'
    BY <1>0, <1>1, <1>3, <2>1, <2>2 DEF QueuesInv, ListedIsAlive
  <2> QED
    BY <1>1, <2>4, <2>7, <2>8, <2>9 DEF QueuesInv
<1> QED
  BY <1>2, <1>3

\* What SelectThread finds: the head of the first run queue of the mask is ready
\* and not suspended, so the search ends at once with it.
LEMMA PickDispatches ==
    ASSUME IInv, QueuesInv, HostInv, Pick
    PROVE  LET p == Least(pending)
               t == Head(queue[p])
           IN  /\ Picks /\ p \in Prios /\ p \in pending /\ queue[p] # <<>>
               /\ t \in Threads /\ state[t] = "READY" /\ suspend[t] = 0 /\ Linked(queue[p], t)
               /\ Dispatch(p)
<1> DEFINE p == Least(pending)
           t == Head(queue[p])
<1>0. GoodLists(queue, pending, prio) /\ LinksOK(queue, link)
  BY QueuesFacts
<1>1. Picks /\ pending # {} /\ pending = {r \in Prios : queue[r] # <<>>}
  BY <1>0, TopRuns DEF Pick, At, Picks, GoodLists, ListsOK
<1>2. p \in pending /\ p \in Prios /\ p \in QueueIds /\ queue[p] # <<>>
  <2>1. pending \subseteq Nat
    BY <1>1 DEF Prios
  <2>2. p \in pending
    BY <1>1, <2>1, LeastProperties
  <2> QED
    BY <1>1, <2>2, PriosAreNoWaitQueues
<1> HIDE DEF p
<1>3. t \in Threads /\ Linked(queue[p], t)
  <2>1. queue[p] \in Seq(Threads) /\ NoDup(queue[p])
    BY <1>0, <1>2 DEF GoodLists, ListsOK
  <2> QED
    BY <1>2, <2>1, TailKeeps, HeadTailProperties
<1>4. state[t] = "READY" /\ suspend[t] = 0
  BY <1>2, <1>3, PriosAreNoWaitQueues DEF QueuesInv, Shelved
<1>5. Dispatch(p)
  <2>1. ~ Terminated(t)
    BY <1>4 DEF Terminated
  <2>2. pending # {} /\ ~ (queue[p] = <<>>) /\ ~ Terminated(Head(queue[p]))
    BY <1>1, <1>2, <2>1
  <2> QED
    BY <2>2, Zenon DEF Pick, p
<1> QED
  BY <1>1, <1>2, <1>3, <1>4, <1>5 DEF p

\* The thread that is taken leaves its run queue.
LEMMA PickLists ==
    ASSUME IInv, QueuesInv, HostInv, Pick
    PROVE  QueuesInv' /\ PlacedStays
<1> DEFINE p == Least(pending)
           t == Head(queue[p])
<1>0. /\ GoodLists(queue, pending, prio) /\ LinksOK(queue, link)
      /\ link \in [Threads -> QueueIds \cup {NoQueue}] /\ state \in [Threads -> States]
  BY QueuesFacts
<1>1. /\ p \in Prios /\ p \in pending /\ queue[p] # <<>>
      /\ t \in Threads /\ state[t] = "READY" /\ suspend[t] = 0
      /\ Dispatch(p)
  BY PickDispatches
<1> HIDE DEF p
<1>2. p \in QueueIds
  BY <1>1, PriosAreNoWaitQueues
<1>3. /\ queue' = [queue EXCEPT ![p] = Tail(@)]
      /\ pending' = IF Tail(queue[p]) = <<>> THEN pending \ {p} ELSE pending
      /\ link' = Delinked(t)
      /\ state' = [state EXCEPT ![t] = "RUNNING"]
  BY <1>1, Zenon DEF Dispatch
<1>4. UNCHANGED <<suspend, prio, listed>>
  BY DEF Pick
<1>5. pending' = IF p \in Prios /\ Tail(queue[p]) = <<>> THEN pending \ {p} ELSE pending
  BY <1>1, <1>3
<1>6. /\ GoodLists([queue EXCEPT ![p] = Tail(@)], pending', prio)
      /\ \A r \in QueueIds : \A x \in Threads :
            Linked([queue EXCEPT ![p] = Tail(@)][r], x) <=> Linked(queue[r], x) /\ x # t
  BY <1>0, <1>1, <1>2, <1>5, ShrunkLists
<1>7. Left(t)
  BY <1>3, <1>6, Zenon DEF Left
<1> HIDE DEF t
<1>8. OthersStay(t) /\ state'[t] = "RUNNING"
  BY <1>0, <1>1, <1>3, <1>4 DEF OthersStay, Delinked
<1>9. Shelved(queue', link', state', suspend') /\ PlacedStays
  BY <1>1, <1>3, <1>6, <1>7, <1>8, LeftShelved DEF QueuesInv
<1>10. PriosOK(state', suspend', prio')
  BY <1>1, <1>4, <1>8 DEF QueuesInv, PriosOK, OthersStay
<1>11. ListedIsAlive'
  BY <1>0, <1>1, <1>3, <1>4 DEF QueuesInv, ListedIsAlive
<1> QED
  BY <1>3, <1>4, <1>6, <1>9, <1>10, <1>11 DEF QueuesInv

\* Priorities passed on along a chain of owners.
LEMMA InheritanceLists ==
    ASSUME IInv, QueuesInv, HostInv, PromoteStep \/ PropagateStep
    PROVE  QueuesInv' /\ PlacedStays
<1>0. /\ prio \in [Threads -> 0 .. NumPrio] /\ suspend \in [Threads -> Nat]
      /\ stack[host] # <<>> /\ Top \in Frame
  BY QueuesFacts, TopCases DEF PromoteStep, PropagateStep, At
<1>1. UNCHANGED <<state, suspend, listed>>
  BY DEF PromoteStep, PropagateStep
<1>2. CASE UNCHANGED <<queue, pending, link, prio>>
  BY <1>1, <1>2, QueuesStutter
<1>3. CASE PromoteStep /\ ~ (Top.t = NoThread \/ suspend[Top.t] > 0 \/ prio[Top.t] <= Top.n)
  <2>1. Top.t \in Threads /\ Top.n \in 0 .. NumPrio
    BY <1>0, <1>3 DEF Frame
  <2>2. SetThreadEffectivePriority(Top.t, Top.n)
    BY <1>3 DEF PromoteStep
  <2>3. suspend[Top.t] = 0
    BY <1>0, <1>3, <2>1
  <2>4. Top.n \in Prios
    <3>1. prio[Top.t] \in 0 .. NumPrio
      BY <1>0, <2>1
    <3>2. Top.n # NumPrio
      BY <1>3, <2>1, <3>1, PriosAreNoWaitQueues
    <3> QED
      BY <2>1, <3>2, PriosAreNoWaitQueues
  <2> QED
    BY <1>1, <2>1, <2>2, <2>3, <2>4, SetThreadEffectivePriorityLists
<1>4. CASE PropagateStep /\ ~ (Top.t = NoThread \/ suspend[Top.t] > 0
                               \/ prio[Top.t] = EffectivePriority(Top.t, owned[Top.t]))
  <2>1. Top.t \in Threads
    BY <1>0, <1>4 DEF Frame
  <2>2. SetThreadEffectivePriority(Top.t, EffectivePriority(Top.t, owned[Top.t]))
    BY <1>4 DEF PropagateStep
  <2>3. suspend[Top.t] = 0
    BY <1>0, <1>4, <2>1
  <2>4. EffectivePriority(Top.t, owned[Top.t]) \in Prios
    BY <2>1, EffectiveIsPrio DEF IInv, TypeOK, ThreadsTypeOK
  <2> QED
    BY <1>1, <2>1, <2>2, <2>3, <2>4, SetThreadEffectivePriorityLists
<1> QED
  BY <1>2, <1>3, <1>4 DEF PromoteStep, PropagateStep, KeepQueues

\* OSSleepThread puts the thread that runs on a wait queue, by its priority; its
\* tail finds that the thread has been taken off it.
LEMMA SleepLists ==
    ASSUME IInv, QueuesInv, HostInv, SleepStep \/ SleptStep
    PROVE  QueuesInv' /\ PlacedStays
<1>0. /\ prio \in [Threads -> 0 .. NumPrio] /\ state \in [Threads -> States]
      /\ link \in [Threads -> QueueIds \cup {NoQueue}]
      /\ host \in Threads /\ Top \in Frame /\ Runs /\ Top \in Quiet(host)
  BY QueuesFacts, TopCases, TopRuns DEF SleepStep, SleptStep, At
<1>1. CASE SleptStep
  <2>1. Top.t = host /\ state[host] = "RUNNING"
    BY <1>0, <1>1 DEF SleptStep, At, Quiet, Runs
  <2> QED
    BY <1>1, <2>1, QueuesStutter DEF SleptStep
<1>2. CASE SleepStep
  <2>0. running = host /\ running # NoThread
    BY <1>0, AddressesAssumption DEF Runs
  <2>1. UNCHANGED <<suspend, prio, listed>>
    BY <1>2 DEF SleepStep
  <2>2. CASE disable # 0
    BY <1>2, <2>1, <2>2, QueuesStutter DEF SleepStep, KeepQueues
  <2>3. CASE disable = 0
    <3>1. state' = [state EXCEPT ![host] = "WAITING"] /\ Insert(queue, pending, Top.q, host, prio[host])
      BY <1>2, <2>0, <2>3 DEF SleepStep
    <3>2. Nowhere(queue, host) /\ Top.q \in WaitQueues /\ Top.q \in QueueIds
      BY <1>0, <1>2, QueuesFacts, PriosAreNoWaitQueues DEF Runs, SleepStep, At, Frame
    <3>3. prio[host] \in 0 .. NumPrio /\ [prio EXCEPT ![host] = prio[host]] = prio
      BY <1>0
    <3>4. /\ GoodLists(queue', pending', prio)
          /\ link' = [link EXCEPT ![host] = Top.q]
          /\ Moved(host, Top.q)
      <4>1. GoodLists(queue', pending', [prio EXCEPT ![host] = prio[host]])
        BY <1>0, <3>1, <3>2, <3>3, RequeueLists
      <4> QED
        BY <1>0, <3>1, <3>2, <3>3, <4>1, RequeueLists
    <3>5. OthersStay(host) /\ link'[host] = Top.q /\ state'[host] = "WAITING" /\ At("sleep")
      BY <1>0, <1>2, <2>1, <3>1, <3>4 DEF OthersStay, SleepStep
    <3>6. Shelved(queue', link', state', suspend') /\ PlacedStays
      BY <1>0, <3>2, <3>4, <3>5, MovedShelved DEF QueuesInv
    <3>7. PriosOK(state', suspend', prio')
      BY <1>0, <2>1, <3>5 DEF QueuesInv, PriosOK, OthersStay, Runs
    <3>8. ListedIsAlive'
      BY <1>0, <2>1, <3>1 DEF QueuesInv, ListedIsAlive, Runs
    <3> QED
      BY <2>1, <3>4, <3>6, <3>7, <3>8 DEF QueuesInv
  <2> QED
    BY <2>2, <2>3
<1> QED
  BY <1>1, <1>2

\* A thread that is woken leaves the wait queue; it goes behind the threads that
\* are ready, unless it is suspended.
LEMMA WakeLists ==
    ASSUME IInv, QueuesInv, HostInv, WakeStep
    PROVE  QueuesInv' /\ PlacedStays
<1> DEFINE q == Top.q
           t == Head(queue[q])
           rest == [queue EXCEPT ![q] = Tail(@)]
           runs == suspend[t] < 1
           p == IF prio[t] = NumPrio THEN NumPrio - 1 ELSE prio[t]
<1>0. /\ GoodLists(queue, pending, prio) /\ LinksOK(queue, link)
      /\ prio \in [Threads -> 0 .. NumPrio] /\ state \in [Threads -> States]
      /\ link \in [Threads -> QueueIds \cup {NoQueue}] /\ suspend \in [Threads -> Nat]
  BY QueuesFacts
<1>1. q \in WaitQueues /\ q \in QueueIds /\ q \notin Prios /\ queue[q] # <<>>
  BY TopCases, PriosAreNoWaitQueues DEF WakeStep, At, Frame
<1>2. /\ GoodLists(rest, pending, prio) /\ Nowhere(rest, t)
      /\ t \in Threads /\ Linked(queue[q], t)
      /\ \A r \in QueueIds : \A x \in Threads : Linked(rest[r], x) <=> Linked(queue[r], x) /\ x # t
  <2> HIDE DEF q
  <2>1. pending = IF q \in Prios /\ Tail(queue[q]) = <<>> THEN pending \ {q} ELSE pending
    BY <1>1
  <2> QED
    BY <1>0, <1>1, <2>1, ShrunkLists
<1>3. state[t] = "WAITING" /\ ~ Terminated(t)
  BY <1>1, <1>2 DEF QueuesInv, Shelved, Terminated
<1>4. /\ state' = [state EXCEPT ![t] = "READY"]
      /\ queue' = IF runs THEN Enqueued(rest, t, p) ELSE rest
      /\ pending' = IF runs THEN MarkedMask(pending, p) ELSE pending
      /\ runs => link' = [link EXCEPT ![t] = p]
      /\ ~ runs => link' = Delinked(t) \/ link' = link
      /\ UNCHANGED <<suspend, prio, listed>>
  <2>1. /\ state' = [state EXCEPT ![t] = "READY"]
        /\ queue' = IF runs THEN Enqueued(rest, t, p) ELSE rest
        /\ pending' = IF runs THEN MarkedMask(pending, p) ELSE pending
        /\ UNCHANGED <<suspend, prio, listed>>
    BY <1>3 DEF WakeStep
  <2>2. link' = CASE runs -> [link EXCEPT ![t] = p]
                  [] ~ runs /\ (Terminated(t) \/ Top.op = "wakeFiber") -> Delinked(t)
                  [] OTHER -> link
    BY <1>3 DEF WakeStep
  <2> HIDE DEF p, t, runs
  <2>3. runs => link' = [link EXCEPT ![t] = p]
    BY <2>2
  <2>4. ~ runs => link' = Delinked(t) \/ link' = link
    BY <2>2
  <2> QED
    BY <2>1, <2>3, <2>4
<1> HIDE DEF q, t, rest
<1>5. p \in Prios /\ p \in QueueIds
  <2>1. prio[t] \in 0 .. NumPrio /\ NumPrio - 1 \in Prios
    BY <1>0, <1>2, ConstantsAssumption DEF Prios
  <2>2. p \in Prios
    BY <2>1, PriosAreNoWaitQueues
  <2> QED
    BY <2>2, PriosAreNoWaitQueues
<1>5a. runs => prio[t] = p
  BY <1>0, <1>2, <1>3 DEF QueuesInv, PriosOK
<1> HIDE DEF p
<1>6. OthersStay(t) /\ state'[t] = "READY"
  BY <1>0, <1>2, <1>4 DEF OthersStay, Delinked
<1>7. PriosOK(state', suspend', prio')
  BY <1>2, <1>3, <1>4, <1>6 DEF QueuesInv, PriosOK, OthersStay
<1>8. ListedIsAlive'
  BY <1>0, <1>2, <1>3, <1>4 DEF QueuesInv, ListedIsAlive
<1>9. CASE runs
  <2>1. /\ GoodLists(queue', pending', prio)
        /\ \A r \in QueueIds : \A x \in Threads :
              Linked(queue'[r], x) <=> Linked(rest[r], x) \/ (x = t /\ r = p)
    BY <1>2, <1>4, <1>5, <1>9, EnqueuedLists
  <2>2. Moved(t, p)
    BY <1>2, <2>1, Zenon DEF Moved
  <2>3. link'[t] = p /\ suspend'[t] = 0 /\ prio'[t] = p
    BY <1>0, <1>2, <1>4, <1>5a, <1>9
  <2>4. Shelved(queue', link', state', suspend') /\ PlacedStays
    BY <1>2, <1>5, <1>6, <2>1, <2>2, <2>3, MovedShelved DEF QueuesInv
  <2> QED
    BY <1>4, <1>7, <1>8, <2>1, <2>4 DEF QueuesInv
<1>10. CASE ~ runs
  <2>1. GoodLists(queue', pending', prio) /\ queue' = rest
    BY <1>2, <1>4, <1>10
  <2>2. Left(t)
    BY <1>2, <2>1, Zenon DEF Left
  <2>3. suspend'[t] # 0
    BY <1>0, <1>2, <1>4, <1>10
  <2>4. Shelved(queue', link', state', suspend') /\ PlacedStays
    BY <1>2, <1>6, <2>1, <2>2, <2>3, LeftShelved DEF QueuesInv
  <2> QED
    BY <1>4, <1>7, <1>8, <2>1, <2>4 DEF QueuesInv
<1> QED
  BY <1>9, <1>10

\* A thread that is collected was on no list.
LEMMA CollectLists ==
    ASSUME IInv, QueuesInv, NEW t \in Threads, state[t] = "MORIBUND", Collect(t),
           UNCHANGED <<queue, pending, link, suspend, prio>>
    PROVE  QueuesInv' /\ PlacedStays
<1>1. Nowhere(queue, t) /\ GoodLists(queue, pending, prio)
  BY QueuesFacts
<1>2. Left(t)
  BY <1>1, NowhereLeft
<1>3. GoodLists(queue', pending', prio)
  BY <1>1
<1> QED
  BY <1>2, <1>3, EndedLists DEF Collect

\* The tails of OSJoinThread and OSSleepTicks.
LEMMA TailLists ==
    ASSUME IInv, QueuesInv, HostInv, JoinedStep \/ TickedStep
    PROVE  QueuesInv' /\ PlacedStays
<1>0. host \in Threads /\ Top \in Frame /\ Runs /\ Top \in Quiet(host)
  BY TopCases, TopRuns DEF JoinedStep, TickedStep, At
<1>1. CASE JoinedStep
  <2>1. UNCHANGED <<queue, pending, link, suspend, prio>> /\ Top.t \in Threads
    BY <1>0, <1>1 DEF JoinedStep, sched, At, Frame
  <2>2. CASE state[Top.t] = "MORIBUND"
    BY <1>1, <2>1, <2>2, CollectLists DEF JoinedStep
  <2>3. CASE state[Top.t] # "MORIBUND"
    BY <1>1, <2>1, <2>3, QueuesStutter DEF JoinedStep
  <2> QED
    BY <2>2, <2>3
<1>2. CASE TickedStep
  <2>1. Top.t = host /\ ~ (suspend[host] > 0)
    BY <1>0, <1>2 DEF TickedStep, At, Quiet, Runs
  <2> QED
    BY <1>2, <2>1, QueuesStutter DEF TickedStep, sched
<1> QED
  BY <1>1, <1>2

\* OSCreateThread empties the join queue in the structure; the threads that were
\* on it are on no list then.
LEMMA CreateLists ==
    ASSUME IInv, QueuesInv, NEW t \in Threads, NEW d, OSCreateThread(t, d)
    PROVE  QueuesInv' /\ (queue[t] = <<>> => PlacedStays)
<1>0. /\ GoodLists(queue, pending, prio) /\ Nowhere(queue, t)
      /\ prio \in [Threads -> 0 .. NumPrio] /\ state \in [Threads -> States]
      /\ suspend \in [Threads -> Nat] /\ queue \in [QueueIds -> Seq(Threads)]
      /\ t \in QueueIds /\ t \notin Prios /\ <<>> \in Seq(Threads)
  <2>1. state[t] = "NONE"
    BY DEF OSCreateThread
  <2>2. GoodLists(queue, pending, prio) /\ Nowhere(queue, t)
    BY <2>1, QueuesFacts
  <2>3. t \in WaitQueues
    BY DEF WaitQueues
  <2>4. t \in QueueIds /\ t \notin Prios
    BY <2>3, PriosAreNoWaitQueues
  <2> QED
    BY <2>2, <2>4, QueuesFacts DEF GoodLists
<1>1. /\ state' = [state EXCEPT ![t] = "READY"] /\ suspend' = [suspend EXCEPT ![t] = 1]
      /\ prio' = [prio EXCEPT ![t] = BasePrio[t]] /\ listed' = listed \cup {t}
      /\ queue' = [queue EXCEPT ![t] = <<>>] /\ UNCHANGED <<link, pending>>
  BY DEF OSCreateThread
<1>2. \A q \in QueueIds : queue'[q] = IF q = t THEN <<>> ELSE queue[q]
  BY <1>0, <1>1
<1>3. GoodLists(queue', pending', prio)
  <2>1. NoDup(<<>>) /\ InOrder(<<>>, prio)
    BY DEF NoDup, InOrder
  <2>2. /\ \A q \in QueueIds : NoDup(queue'[q])
        /\ \A q \in WaitQueues : InOrder(queue'[q], prio)
    BY <1>0, <1>2, <2>1, PriosAreNoWaitQueues DEF GoodLists, ListsOK
  <2>3. pending' = {p \in Prios : queue'[p] # <<>>}
    BY <1>0, <1>1, <1>2, PriosAreNoWaitQueues DEF GoodLists, ListsOK
  <2>4. queue' \in [QueueIds -> Seq(Threads)]
    BY <1>0, <1>1
  <2> QED
    BY <1>0, <2>2, <2>3, <2>4 DEF GoodLists, ListsOK
<1>4. \A q \in QueueIds : \A x \in Threads : Linked(queue'[q], x) => Linked(queue[q], x) /\ x # t
  BY <1>0, <1>2, LinkedFacts, Zenon DEF Nowhere
<1>5. GoodLists(queue', pending', prio')
  <2>1. \A q \in WaitQueues : ~ Linked(queue'[q], t)
    BY <1>4, PriosAreNoWaitQueues, Zenon
  <2>2. BasePrio[t] \in 0 .. NumPrio
    BY ConstantsAssumption, PriosAreNoWaitQueues
  <2> QED
    BY <1>1, <1>3, <2>1, <2>2, ReprioLists
<1>6. /\ \A x \in Threads : x # t => state'[x] = state[x] /\ suspend'[x] = suspend[x] /\ prio'[x] = prio[x]
      /\ state'[t] = "READY" /\ suspend'[t] = 1
  BY <1>0, <1>1
<1>7. Shelved(queue', link', state', suspend')
  BY <1>1, <1>4, <1>6 DEF QueuesInv, Shelved
<1>8. PriosOK(state', suspend', prio')
  BY <1>6 DEF QueuesInv, PriosOK
<1>9. ListedIsAlive'
  BY <1>0, <1>1 DEF QueuesInv, ListedIsAlive
<1>10. ASSUME queue[t] = <<>> PROVE PlacedStays
  <2>1. queue' = queue
    BY <1>0, <1>1, <1>10
  <2> QED
    BY <1>1, <1>6, <2>1 DEF PlacedStays, EmptyStays, Placed
<1> QED
  BY <1>5, <1>7, <1>8, <1>9, <1>10 DEF QueuesInv

\* OSUnlockMutex gives the thread that runs the priority it is due.
LEMMA UnlockLists ==
    ASSUME IInv, QueuesInv, HostInv, NEW m \in Mutexes, OSUnlockMutex(m)
    PROVE  QueuesInv' /\ PlacedStays
<1>0. Runs /\ host \in Threads
  BY GuestRuns DEF OSUnlockMutex, Calls
<1> DEFINE others == Unlink(owned[running], m)
           p == EffectivePriority(running, others)
<1>1. /\ UNCHANGED <<state, suspend, link, listed, queue, pending>>
      /\ prio' = prio \/ prio' = [prio EXCEPT ![running] = p]
  BY DEF OSUnlockMutex, sched
<1>2. CASE prio' = prio
  BY <1>1, <1>2, QueuesStutter
<1>3. CASE prio' = [prio EXCEPT ![running] = p]
  <2>1. running \in Threads /\ state[running] = "RUNNING"
    BY <1>0 DEF Runs
  <2>2. others \in Seq(Mutexes)
    BY <2>1, UnlinkType DEF IInv, TypeOK, ThreadsTypeOK
  <2> HIDE DEF others
  <2>3. p \in Prios
    BY <2>1, <2>2, EffectiveIsPrio
  <2>4. p \in 0 .. NumPrio /\ p # NumPrio
    BY <2>3, PriosAreNoWaitQueues
  <2> HIDE DEF p
  <2>5. /\ GoodLists(queue, pending, prio) /\ Nowhere(queue, running)
        /\ prio \in [Threads -> 0 .. NumPrio]
    BY <2>1, QueuesFacts
  <2>6. GoodLists(queue', pending', prio')
    BY <1>1, <1>3, <2>1, <2>4, <2>5, ReprioLists, PriosAreNoWaitQueues DEF Nowhere
  <2>7. PriosOK(state', suspend', prio')
    BY <1>1, <1>3, <2>1, <2>4, <2>5 DEF QueuesInv, PriosOK
  <2>8. PlacedStays
    BY <1>1, <1>3, <2>1, <2>5 DEF PlacedStays, EmptyStays, Placed
  <2> QED
    BY <1>1, <2>6, <2>7, <2>8 DEF QueuesInv, ListedIsAlive
<1> QED
  BY <1>1, <1>2, <1>3

\* OSExitThread and OSCancelThread.
LEMMA TerminateLists ==
    ASSUME IInv, QueuesInv, HostInv, OSExitThread \/ \E t \in Threads : OSCancelThread(t)
    PROVE  QueuesInv' /\ PlacedStays
<1>0. /\ GoodLists(queue, pending, prio) /\ LinksOK(queue, link)
      /\ link \in [Threads -> QueueIds \cup {NoQueue}] /\ state \in [Threads -> States]
  BY QueuesFacts
<1>1. CASE OSExitThread
  <2>1. /\ running \in Threads /\ state[running] = "RUNNING" /\ Runs
        /\ UNCHANGED <<queue, pending, link, suspend, prio>>
    BY <1>1, GuestRuns DEF OSExitThread, Calls, Runs, sched
  <2>2. Left(running) /\ GoodLists(queue', pending', prio)
    BY <1>0, <2>1, QueuesFacts, NowhereLeft
  <2>3. \E s \in {"NONE", "MORIBUND"} :
            /\ state' = [state EXCEPT ![running] = s]
            /\ listed' = IF s = "NONE" THEN listed \ {running} ELSE listed
    BY <1>1 DEF OSExitThread, TerminateThread
  <2> QED
    BY <2>1, <2>2, <2>3, EndedLists
<1>2. ASSUME NEW t \in Threads, OSCancelThread(t) PROVE QueuesInv' /\ PlacedStays
  <2>1. ~ Terminated(t) /\ state[t] # "NONE" /\ UNCHANGED <<suspend, prio>>
    BY <1>2 DEF OSCancelThread, Terminated
  <2>2. \E s \in {"NONE", "MORIBUND"} :
            /\ state' = [state EXCEPT ![t] = s]
            /\ listed' = IF s = "NONE" THEN listed \ {t} ELSE listed
    BY <1>2 DEF OSCancelThread, TerminateThread
  <2>3. /\ Left(t) /\ GoodLists(queue', pending', prio)
        /\ \A x \in Threads \ {t} : link'[x] = link[x]
    <3>1. CASE state[t] = "WAITING" \/ (state[t] = "READY" /\ suspend[t] < 1)
      <4>1. Delink(t)
        BY <1>2, <3>1 DEF OSCancelThread
      <4>2. /\ GoodLists(queue', pending', prio)
            /\ \A q \in QueueIds : \A x \in Threads : Linked(queue'[q], x) <=> Linked(queue[q], x) /\ x # t
        BY <1>0, <4>1, RemovedLists DEF Delink
      <4>3. Left(t)
        BY <4>2, Zenon DEF Left
      <4> QED
        BY <1>0, <4>1, <4>2, <4>3 DEF Delink, Delinked
    <3>2. CASE ~ (state[t] = "WAITING" \/ (state[t] = "READY" /\ suspend[t] < 1))
      <4>1. UNCHANGED <<queue, pending, link>>
        BY <1>2, <3>2 DEF OSCancelThread, KeepQueues
      <4>2. suspend[t] \in Nat
        BY DEF IInv, TypeOK, ThreadsTypeOK
      <4>3. Nowhere(queue, t)
        BY <3>2, <4>2, QueuesFacts
      <4> QED
        BY <1>0, <4>1, <4>3, NowhereLeft
    <3> QED
      BY <3>1, <3>2
  <2> QED
    BY <2>1, <2>2, <2>3, EndedLists
<1> QED
  BY <1>1, <1>2

\* Between two calls of the guest nobody waits to join a thread that has ended.
NoLateJoiner == InGuestCode => \A t \in Threads : Terminated(t) => queue[t] = <<>>

\* Every step, for guests that keep the rules.
LEMMA NextLists ==
    ASSUME GuestsKeepTheRules, IInv, QueuesInv, HostInv, [Next]_vars
    PROVE  QueuesInv' /\ (NoLateJoiner => PlacedStays)
<1>1. ASSUME NEW t \in Threads, SleepTimerFires(t) PROVE QueuesInv' /\ PlacedStays
  <2>1. UNCHANGED listed
    BY <1>1 DEF SleepTimerFires
  <2>2. CASE ResumeThread(t, stack[host])
    BY <2>1, <2>2, ResumeThreadLists
  <2>3. CASE UNCHANGED <<state, suspend, prio, link, queue, pending>>
    BY <2>1, <2>3, QueuesStutter
  <2> QED
    BY <1>1, <2>2, <2>3 DEF SleepTimerFires
<1>2. CASE \/ SelectRefused \/ (\E q \in Queues : IdleCallback(q)) \/ IdleEnds \/ ReschedStep
           \/ LockStep \/ WakeEnds \/ UnlockAllStep \/ ExitedStep \/ EndDeferredStep
           \/ OSThreadCall \/ (\E m \in Mutexes : OSLockMutex(m))
           \/ OSDisableScheduler \/ OSEnableScheduler
           \/ (\E q \in Queues, n \in 0 .. 1 : DeferredCallback(q, n))
           \/ UNCHANGED vars
  <2>1. UNCHANGED <<queue, pending, link, state, suspend, prio, listed>>
    BY <1>2 DEF SelectRefused, IdleCallback, IdleEnds, ReschedStep, LockStep, WakeEnds, UnlockAllStep,
                ExitedStep, EndDeferredStep, OSThreadCall, OSLockMutex, OSDisableScheduler,
                OSEnableScheduler, DeferredCallback, thread, sched, vars
  <2> QED
    BY <2>1, QueuesStutter
<1>3. CASE FiberEndStep
  BY <1>3, TopCases DEF FiberEndStep, At
<1>4. CASE FiberReturns
  BY <1>4 DEF FiberReturns, Calls, GuestsKeepTheRules, HostInv
<1>5. ASSUME NEW t \in Threads, OSResumeThread(t) \/ OSSuspendThread(t) PROVE QueuesInv' /\ PlacedStays
  BY <1>5, ResumeThreadLists, SuspendThreadLists DEF OSResumeThread, OSSuspendThread
<1>6. CASE OSSleepTicks
  <2>1. Sleeper \in Threads
    BY <1>6 DEF OSSleepTicks, Sleeper, IInv, TypeOK, FibersTypeOK, SchedulerTypeOK
  <2>2. SuspendThread(Sleeper, <<Fr("ticked", NoQueue, Sleeper, 0)>>) /\ UNCHANGED listed
    BY <1>6 DEF OSSleepTicks
  <2> QED
    BY <2>1, <2>2, SuspendThreadLists
<1>7. ASSUME NEW t \in Threads, OSJoinThread(t) \/ OSDetachThread(t) PROVE QueuesInv' /\ PlacedStays
  <2>1. UNCHANGED <<queue, pending, link, suspend, prio>>
    BY <1>7 DEF OSJoinThread, OSDetachThread, sched
  <2>2. \/ state[t] = "MORIBUND" /\ Collect(t)
        \/ UNCHANGED <<state, listed>>
    BY <1>7 DEF OSJoinThread, OSDetachThread
  <2> QED
    BY <2>1, <2>2, CollectLists, QueuesStutter
<1>8. ASSUME NEW t \in Threads, NEW d \in BOOLEAN, OSCreateThread(t, d)
      PROVE  QueuesInv' /\ (NoLateJoiner => PlacedStays)
  BY <1>8, CreateLists DEF NoLateJoiner, OSCreateThread, Calls, Terminated
<1>9. ASSUME NEW m \in Mutexes, OSUnlockMutex(m) PROVE QueuesInv' /\ PlacedStays
  BY <1>9, UnlockLists
<1>10. CASE SelectBegins \/ Pick \/ PromoteStep \/ PropagateStep \/ SleepStep \/ SleptStep \/ WakeStep
            \/ JoinedStep \/ TickedStep \/ OSExitThread \/ \E t \in Threads : OSCancelThread(t)
  BY <1>10, SelectBeginsLists, PickLists, InheritanceLists, SleepLists, WakeLists, TailLists, TerminateLists
<1> QED
  BY <1>1, <1>2, <1>3, <1>4, <1>5, <1>6, <1>7, <1>8, <1>9, <1>10 DEF Next, FrameStep, GuestCall

-----------------------------------------------------------------------------
(***************************************************************************)
(* The fiber that runs, from step to step.                                 *)
(***************************************************************************)

\* What the running fiber may go on with, as it runs, yields or idles, r being the
\* reschedule hint.
Carries(s, r) ==
    /\ s \in Seq(Frame)
    /\ \/ Runs /\ s \in Seq(Quiet(host))
       \/ Yields /\ Split(s, Passing, Selecting(r), Quiet(host))
       \/ Idles /\ Split(s, AboveIdle, {IdleFrame}, Quiet(host))

\* Frames that may be pushed wherever the running fiber is.
Harmless == Passing \cap AboveIdle

\* The frames that the handlers push.
LEMMA PushedFrames ==
    ASSUME NEW t \in Threads, NEW r
    PROVE  /\ ReschedFrame \in Harmless /\ ReschedFrame \in Selecting(TRUE)
           /\ \A n \in 0 .. 1 : /\ SelectFrame(n) \in Selecting(r) /\ SelectFrame(n) \in AboveIdle
                                /\ Fr("endDeferred", NoQueue, NoThread, n) \in Quiet(t)
           /\ \A q \in WaitQueues : WakeFrame(q) \in Harmless /\ Fr("sleep", q, NoThread, 0) \in Quiet(t)
           /\ \A q \in WaitQueues : Fr("slept", q, t, 0) \in Quiet(t)
           /\ \A m \in Mutexes : Fr("lock", m, t, 0) \in Quiet(t)
           /\ \A b \in Threads \cup {NoThread} : Fr("propagate", NoQueue, b, 0) \in Harmless
           /\ \A b \in Threads \cup {NoThread}, n \in 0 .. NumPrio : Fr("promote", NoQueue, b, n) \in Quiet(t)
           /\ \A x \in Threads : /\ Fr("unlockAll", NoQueue, x, 0) \in Passing
                                 /\ Fr("joined", NoQueue, x, 0) \in Quiet(t)
           /\ Fr("ticked", NoQueue, t, 0) \in Quiet(t)
           /\ Fr("exited", NoQueue, NoThread, 0) \in Selecting(r)
<1>1. /\ ReschedFrame \in Harmless /\ ReschedFrame \in Selecting(TRUE)
      /\ \A n \in 0 .. 1 : SelectFrame(n) \in Selecting(r) /\ SelectFrame(n) \in AboveIdle
      /\ Fr("exited", NoQueue, NoThread, 0) \in Selecting(r)
  BY FrameForms DEF Fr, ReschedFrame, SelectFrame, Harmless, Passing, AboveIdle, Selecting
<1>2. /\ \A q \in WaitQueues : WakeFrame(q) \in Harmless
      /\ \A x \in Threads : Fr("unlockAll", NoQueue, x, 0) \in Passing
  BY FrameForms DEF Fr, WakeFrame, Harmless, Passing, AboveIdle
<1>3. \A b \in Threads \cup {NoThread} : Fr("propagate", NoQueue, b, 0) \in Harmless
  <2>1. \A b \in Threads \cup {NoThread} : Fr("propagate", NoQueue, b, 0) \in Frame
    BY FrameForms, Zero
  <2> QED
    BY <2>1 DEF Fr, Harmless, Passing, AboveIdle
<1>4. /\ \A q \in WaitQueues : Fr("sleep", q, NoThread, 0) \in Quiet(t) /\ Fr("slept", q, t, 0) \in Quiet(t)
      /\ \A m \in Mutexes : Fr("lock", m, t, 0) \in Quiet(t)
  BY FrameForms DEF Fr, Quiet
<1>5. /\ \A n \in 0 .. 1 : Fr("endDeferred", NoQueue, NoThread, n) \in Quiet(t)
      /\ \A b \in Threads \cup {NoThread}, n \in 0 .. NumPrio : Fr("promote", NoQueue, b, n) \in Quiet(t)
  BY FrameForms DEF Fr, Quiet
<1>6. /\ \A x \in Threads : Fr("joined", NoQueue, x, 0) \in Quiet(t)
      /\ Fr("ticked", NoQueue, t, 0) \in Quiet(t)
  BY FrameForms DEF Fr, Quiet
<1> QED
  BY <1>1, <1>2, <1>3, <1>4, <1>5, <1>6

\* Two frames are pushed one after the other.
LEMMA TwoFrames ==
    ASSUME NEW f \in Frame, NEW g \in Frame, NEW s \in Seq(Frame)
    PROVE  <<f, g>> \o s = <<f>> \o (<<g>> \o s) /\ <<g>> \o s \in Seq(Frame)
<1>1. <<f>> \in Seq(Frame) /\ <<g>> \in Seq(Frame) /\ <<f>> \o <<g>> = <<f, g>>
  <2> DEFINE u == <<f>> \o <<g>>
             v == <<f, g>>
  <2>1. <<f>> \in Seq(Frame) /\ <<g>> \in Seq(Frame) /\ v \in Seq(Frame)
        /\ Len(v) = 2 /\ v[1] = f /\ v[2] = g
        /\ Len(<<f>>) = 1 /\ <<f>>[1] = f /\ Len(<<g>>) = 1 /\ <<g>>[1] = g
    OBVIOUS
  <2>2. u \in Seq(Frame) /\ Len(u) = 2 /\ u[1] = f /\ u[2] = g
    BY <2>1, ConcatProperties
  <2> HIDE DEF u, v
  <2>3. u = v
    BY <2>1, <2>2, SeqEqual
  <2> QED
    BY <2>1, <2>3 DEF u, v
<1>2. (<<f>> \o <<g>>) \o s = <<f>> \o (<<g>> \o s)
  BY <1>1, ConcatAssociative
<1>3. <<g>> \o s \in Seq(Frame)
  BY <1>1, ConcatProperties
<1> QED
  BY <1>1, <1>2, <1>3

\* Frames on a stack.
LEMMA CarriesPush ==
    ASSUME IInv, NEW r, NEW s, Carries(s, r)
    PROVE  /\ \A f \in Harmless : Carries(<<f>> \o s, r)
           /\ Runs => s \in Seq(Quiet(host)) /\ \A f \in Quiet(host) : Carries(<<f>> \o s, r)
           /\ Yields => \A f \in Passing : Carries(<<f>> \o s, r)
           /\ \A u : (r => u) /\ r \in BOOLEAN /\ u \in BOOLEAN => Carries(s, u)
<1>0. s \in Seq(Frame)
  BY DEF Carries
<1>1. /\ Quiet(host) \subseteq Frame /\ Harmless \subseteq Passing /\ Harmless \subseteq AboveIdle
      /\ Passing \subseteq Quiet(host)
  BY FrameSets DEF Harmless
<1>2. \A f \in Frame : <<f>> \o s \in Seq(Frame)
  BY <1>0, PushOn
<1>3. \A f \in Quiet(host) : s \in Seq(Quiet(host)) => <<f>> \o s \in Seq(Quiet(host))
  BY PushOn
<1>4. /\ Runs => ~ Yields /\ ~ Idles
      /\ Yields => ~ Idles
  BY AddressesAssumption, TopType DEF Runs, Yields, Idles, IInv, TypeOK, FibersTypeOK
<1>5. ASSUME NEW f \in Passing, Yields PROVE Carries(<<f>> \o s, r)
  <2>1. Split(s, Passing, Selecting(r), Quiet(host)) /\ f \in Frame
    BY <1>1, <1>4, <1>5 DEF Carries
  <2>2. Split(<<f>> \o s, Passing, Selecting(r), Quiet(host))
    BY <1>0, <1>5, <2>1, SplitPush
  <2> QED
    BY <1>2, <1>5, <2>1, <2>2 DEF Carries
<1>6. ASSUME NEW f \in Quiet(host), Runs PROVE Carries(<<f>> \o s, r) /\ s \in Seq(Quiet(host))
  <2>1. s \in Seq(Quiet(host))
    BY <1>4, <1>6 DEF Carries
  <2> QED
    BY <1>1, <1>2, <1>3, <1>6, <2>1 DEF Carries
<1>7. ASSUME Runs PROVE s \in Seq(Quiet(host))
  BY <1>4, <1>7 DEF Carries
<1>8. ASSUME NEW f \in Harmless PROVE Carries(<<f>> \o s, r)
  <2>1. CASE Idles
    <3>1. Split(s, AboveIdle, {IdleFrame}, Quiet(host)) /\ f \in Frame /\ f \in AboveIdle
      BY <1>1, <1>4, <1>8, <2>1 DEF Carries
    <3>2. Split(<<f>> \o s, AboveIdle, {IdleFrame}, Quiet(host))
      BY <1>0, <3>1, SplitPush
    <3> QED
      BY <1>2, <2>1, <3>1, <3>2 DEF Carries
  <2>2. CASE Runs \/ Yields
    BY <1>1, <1>5, <1>6, <1>8, <2>2
  <2> QED
    BY <2>1, <2>2 DEF Carries
<1>9. ASSUME NEW u, r \in BOOLEAN, u \in BOOLEAN, r => u PROVE Carries(s, u)
  <2>1. Selecting(r) \subseteq Selecting(u)
    BY <1>9 DEF Selecting
  <2>2. Split(s, Passing, Selecting(r), Quiet(host)) => Split(s, Passing, Selecting(u), Quiet(host))
    BY <1>0, <2>1, SplitOf
  <2> QED
    BY <1>0, <2>2 DEF Carries
<1> QED
  BY <1>5, <1>6, <1>7, <1>8, <1>9

\* What the running fiber may go on with when the frame on top is done.
LEMMA CarriesRest ==
    ASSUME IInv, HostInv
    PROVE  /\ Runs \/ Yields \/ Idles => Carries(stack[host], resched)
           /\ stack[host] # <<>> /\ Top.op \in {"propagate", "wake", "wakeResched", "unlockAll"}
                 => Carries(Rest, resched)
           /\ stack[host] # <<>> /\ Top.op = "resched" /\ ~ resched => Carries(Rest, resched)
           /\ stack[host] # <<>> /\ Top.op \in {"select", "wakeResched", "resched", "exited"}
                 => \A u, n : Runs \/ Yields \/ (Idles /\ Top.op # "select") =>
                       (n \in 0 .. 1 => Carries(<<SelectFrame(n)>> \o Rest, u))
           /\ stack[host] # <<>> /\ Top.op = "select" /\ Idles => Carries(Rest, resched)
           /\ stack[host] # <<>> /\ Top.op = "select" /\ ~ Idles => Rest \in Seq(Quiet(host))
<1>0. stack[host] \in Seq(Frame) /\ host \in Threads
  BY DEF IInv, TypeOK, FibersTypeOK
<1>1. Runs \/ Yields \/ Idles => Carries(stack[host], resched)
  BY <1>0 DEF Carries, Runs, Yields, Idles
<1>2. ASSUME stack[host] # <<>>,
             \/ Top.op \in {"propagate", "wake", "wakeResched", "unlockAll"}
             \/ Top.op = "resched" /\ ~ resched
             \/ Top.op = "select" /\ Idles
      PROVE  Carries(Rest, resched)
  <2>1. Top \in Selecting(resched) => Top.op \in {"select", "exited"} \/ (Top.op = "resched" /\ resched)
    BY DEF Selecting
  <2>2. Top = IdleFrame => Top.op = "idle"
    BY DEF IdleFrame, Fr
  <2>3. /\ Rest \in Seq(Frame)
        /\ \/ Runs /\ Rest \in Seq(Quiet(host))
           \/ Yields /\ Top.op \in {"select", "exited"}
           \/ Yields /\ Split(Rest, Passing, Selecting(resched), Quiet(host))
           \/ Idles /\ Split(Rest, AboveIdle, {IdleFrame}, Quiet(host))
    BY <1>2, <2>1, <2>2, TopCases DEF Picks
  <2>4. ~ (Idles /\ Yields)
    BY <1>0, AddressesAssumption DEF Yields, Idles
  <2> QED
    BY <1>2, <2>3, <2>4 DEF Carries
<1>3. ASSUME stack[host] # <<>>, Top.op \in {"select", "wakeResched", "resched", "exited"},
             Runs \/ Yields \/ (Idles /\ Top.op # "select"), NEW u, NEW n \in 0 .. 1
      PROVE  Carries(<<SelectFrame(n)>> \o Rest, u)
  <2>1. /\ Rest \in Seq(Frame)
        /\ \/ Runs /\ Rest \in Seq(Quiet(host))
           \/ Yields /\ Rest \in Seq(Quiet(host))
           \/ Idles /\ Split(Rest, AboveIdle, {IdleFrame}, Quiet(host))
    BY <1>3, TopCases DEF Picks, IdleFrame, Fr
  <2>2. /\ SelectFrame(n) \in Selecting(u) /\ SelectFrame(n) \in AboveIdle
        /\ SelectFrame(n) \in Quiet(host) /\ SelectFrame(n) \in Frame
    BY <1>0, <1>3, PushedFrames, FrameSets
  <2>3. <<SelectFrame(n)>> \o Rest \in Seq(Frame)
    BY <2>1, <2>2, PushOn
  <2>4. /\ Rest \in Seq(Quiet(host)) =>
              /\ <<SelectFrame(n)>> \o Rest \in Seq(Quiet(host))
              /\ Split(<<SelectFrame(n)>> \o Rest, Passing, Selecting(u), Quiet(host))
        /\ Split(Rest, AboveIdle, {IdleFrame}, Quiet(host)) =>
              Split(<<SelectFrame(n)>> \o Rest, AboveIdle, {IdleFrame}, Quiet(host))
    BY <2>1, <2>2, PushOn, SplitPush
  <2> QED
    BY <2>1, <2>3, <2>4 DEF Carries
<1>4. ASSUME stack[host] # <<>>, Top.op = "select", ~ Idles PROVE Rest \in Seq(Quiet(host))
  BY <1>4, TopCases DEF Picks
<1> QED
  BY <1>1, <1>2, <1>3, <1>4

\* No other thread begins to run, and no thread that has ended is alive again.
NobodyElse ==
    \A t \in Threads : /\ t # host /\ state'[t] = "RUNNING" => state[t] = "RUNNING"
                       /\ Terminated(t) => state'[t] \in {"NONE", "MORIBUND"}

\* The same fiber goes on.
LEMMA HostStays ==
    ASSUME IInv, FiberInv, HostInv, SameFiber, UNCHANGED guest, NobodyElse,
           "suspend" \in guest => disable' = 0,
           \A t \in Threads \ {host} : stack'[t] \in {stack[t], <<>>},
           (Runs \/ Yields \/ Idles \/ Picks)'
    PROVE  FiberInv' /\ HostInv'
<1>0. host \in Threads /\ \A t \in Threads : ~ Terminated(t)' => ~ Terminated(t)
  BY TopType DEF NobodyElse, Terminated
<1>1. FiberInv'
  BY <1>0 DEF SameFiber, FiberInv
<1>2. \A t \in Threads \ {host} : state'[t] # "RUNNING" /\ stack'[t] \in Seq(Quiet(t))
  <2>1. \A t \in Threads \ {host} : state'[t] # "RUNNING"
    BY DEF NobodyElse, HostInv
  <2>2. \A t \in Threads \ {host} : stack[t] \in Seq(Quiet(t)) /\ <<>> \in Seq(Quiet(t))
    BY EmptySeq DEF HostInv
  <2>3. \A t \in Threads \ {host} : stack'[t] \in Seq(Quiet(t))
    BY <2>2
  <2> QED
    BY <2>1, <2>3
<1> QED
  BY <1>1, <1>2 DEF HostInv, SameFiber

\* It goes on as it did.
LEMMA CarriesOn ==
    ASSUME IInv, FiberInv, HostInv, SameFiber, UNCHANGED <<guest, running, current>>, NobodyElse,
           disable = 0 => disable' = 0, NEW s, Goto(s), Carries(s, resched'),
           Runs => state'[host] = "RUNNING" /\ suspend'[host] = 0,
           state[host] # "RUNNING" => state'[host] # "RUNNING"
    PROVE  FiberInv' /\ HostInv'
<1>0. host' = host /\ stack'[host] = s /\ \A t \in Threads \ {host} : stack'[t] = stack[t]
  BY GotoHere DEF SameFiber
<1>1. CASE Runs
  <2>1. s \in Seq(Quiet(host))
    BY <1>1, CarriesPush
  <2>2. Runs'
    BY <1>0, <1>1, <2>1 DEF Runs
  <2> QED
    BY <1>0, <2>2, HostStays DEF HostInv
<1>2. CASE Yields /\ Split(s, Passing, Selecting(resched'), Quiet(host))
  <2>1. Yields'
    BY <1>0, <1>2 DEF Yields
  <2> QED
    BY <1>0, <2>1, HostStays DEF HostInv
<1>3. CASE Idles /\ Split(s, AboveIdle, {IdleFrame}, Quiet(host))
  <2>1. Idles'
    BY <1>0, <1>3 DEF Idles
  <2> QED
    BY <1>0, <2>1, HostStays DEF HostInv
<1> QED
  BY <1>1, <1>2, <1>3 DEF Carries

\* States that do not change begin nothing.
LEMMA NobodyIfSame == UNCHANGED state => NobodyElse
BY DEF NobodyElse, Terminated

\* The mode of the running fiber, by what its thread is.
LEMMA ModeFacts ==
    ASSUME IInv, HostInv
    PROVE  /\ host \in Threads /\ host # NoThread
           /\ Runs <=> state[host] = "RUNNING"
           /\ Yields => ~ Idles
           /\ resched \in BOOLEAN /\ disable \in Nat /\ running \in Threads \cup {NoThread}
           /\ state \in [Threads -> States] /\ suspend \in [Threads -> Nat]
BY AddressesAssumption
   DEF HostInv, Runs, Yields, Idles, Picks, IInv, TypeOK, FibersTypeOK, SchedulerTypeOK, ThreadsTypeOK

\* What OSResumeThread and OSSuspendThread do to states, hint and stack: the frames
\* they push end with a reschedule, which has been asked for if a thread that ran
\* stopped.
LEMMA ResumeFrames ==
    ASSUME IInv, HostInv, NEW t \in Threads, NEW rest, Carries(rest, resched),
           ResumeThread(t, rest) \/ SuspendThread(t, rest)
    PROVE  /\ resched' \in BOOLEAN /\ (resched => resched')
           /\ NobodyElse
           /\ \A x \in Threads \ {t} : state'[x] = state[x] /\ suspend'[x] = suspend[x]
           /\ state[t] # "RUNNING" => state'[t] # "RUNNING"
           /\ \E s : Goto(s) /\ Carries(s, resched')
<1>0. /\ resched \in BOOLEAN /\ state \in [Threads -> States] /\ suspend \in [Threads -> Nat]
      /\ host \in Threads
  BY ModeFacts
<1>1. PICK b \in Threads \cup {NoThread} :
         \/ Goto(rest)
         \/ Goto(<<Fr("propagate", NoQueue, b, 0), ReschedFrame>> \o rest)
  BY ResumeStack
<1>2. resched' \in BOOLEAN /\ (resched => resched')
  BY <1>0, Zenon DEF ResumeThread, SuspendThread
<1>3. \/ state' = state
      \/ state' = [state EXCEPT ![t] = "READY"] /\ state[t] \in {"READY", "RUNNING"}
  BY DEF ResumeThread, SuspendThread
<1>4. NobodyElse
  BY <1>0, <1>3 DEF NobodyElse, Terminated
<1>5. Carries(rest, resched')
  BY <1>0, <1>2, CarriesPush
<1>6. Carries(<<Fr("propagate", NoQueue, b, 0), ReschedFrame>> \o rest, resched')
  <2>1. Fr("propagate", NoQueue, b, 0) \in Harmless /\ ReschedFrame \in Harmless
    BY <1>0, PushedFrames
  <2>2. Harmless \subseteq Frame
    BY DEF Harmless, Passing
  <2>3. rest \in Seq(Frame)
    BY DEF Carries
  <2>4. Carries(<<ReschedFrame>> \o rest, resched')
    BY <1>5, <2>1, CarriesPush
  <2>5. Carries(<<Fr("propagate", NoQueue, b, 0)>> \o (<<ReschedFrame>> \o rest), resched')
    BY <2>1, <2>4, CarriesPush
  <2> QED
    BY <2>1, <2>2, <2>3, <2>5, TwoFrames
<1>7. \A x \in Threads \ {t} : state'[x] = state[x] /\ suspend'[x] = suspend[x]
  BY <1>0, <1>3 DEF ResumeThread, SuspendThread
<1>8. state[t] # "RUNNING" => state'[t] # "RUNNING"
  BY <1>0, <1>3
<1> QED
  BY <1>1, <1>2, <1>4, <1>5, <1>6, <1>7, <1>8

\* The steps of SelectThread before it takes a thread.
LEMMA SelectHost ==
    ASSUME IInv, QueuesInv, FiberInv, HostInv,
           \/ \E t \in Threads : SleepTimerFires(t)
           \/ SelectRefused \/ SelectBegins \/ IdleEnds \/ ReschedStep
           \/ \E q \in Queues : IdleCallback(q)
    PROVE  FiberInv' /\ HostInv'
<1>0. /\ host \in Threads /\ host # NoThread /\ (Runs <=> state[host] = "RUNNING")
      /\ resched \in BOOLEAN /\ disable \in Nat /\ state \in [Threads -> States]
      /\ suspend \in [Threads -> Nat]
  BY ModeFacts
<1>1. ASSUME NEW t \in Threads, SleepTimerFires(t) PROVE FiberInv' /\ HostInv'
  <2>1. /\ state[t] # "RUNNING" /\ SameFiber /\ UNCHANGED <<guest, running, current, disable>>
        /\ stack[host] # <<>> /\ Top.op \in {"select", "idle"}
    BY <1>1 DEF SleepTimerFires, Polling, At
  <2>2. Carries(stack[host], resched)
    BY <2>1, TopRuns, CarriesRest
  <2>3. CASE ResumeThread(t, stack[host])
    <3>1. /\ NobodyElse
          /\ \A x \in Threads \ {t} : state'[x] = state[x] /\ suspend'[x] = suspend[x]
          /\ state'[t] # "RUNNING"
          /\ \E s : Goto(s) /\ Carries(s, resched')
      BY <2>1, <2>2, <2>3, ResumeFrames
    <3>2. Runs => state'[host] = "RUNNING" /\ suspend'[host] = 0
      BY <1>0, <2>1, <3>1 DEF Runs
    <3>3. state[host] # "RUNNING" => state'[host] # "RUNNING"
      BY <1>0, <3>1
    <3> QED
      BY <2>1, <3>1, <3>2, <3>3, CarriesOn
  <2>4. CASE UNCHANGED <<state, suspend, resched, stack>>
    <3>1. Goto(stack[host])
      BY <1>0, <2>4 DEF Goto, IInv, TypeOK, FibersTypeOK
    <3>2. NobodyElse
      BY <2>4, NobodyIfSame
    <3>3. Carries(stack[host], resched')
      BY <2>2, <2>4
    <3>4. Runs => state'[host] = "RUNNING" /\ suspend'[host] = 0
      BY <2>4 DEF Runs
    <3> QED
      BY <2>1, <2>4, <3>1, <3>2, <3>3, <3>4, CarriesOn
  <2> QED
    BY <1>1, <2>3, <2>4 DEF SleepTimerFires
<1>2. CASE SelectRefused
  <2>1. /\ SameFiber /\ UNCHANGED <<guest, running, current, disable, resched, state, suspend>>
        /\ Goto(Rest) /\ stack[host] # <<>> /\ Top.op = "select" /\ SelectRefuses
    BY <1>2 DEF SelectRefused, thread, sched, Return, At
  <2>2. ~ Yields
    BY <1>0, <2>1, AddressesAssumption DEF Yields, SelectRefuses, KeepsRunning
  <2>3. CASE Idles
    <3>1. Carries(Rest, resched)
      BY <2>1, <2>3, CarriesRest
    <3> QED
      BY <1>0, <2>1, <3>1, CarriesOn, NobodyIfSame DEF Runs
  <2>4. CASE Runs
    <3>1. ~ Idles
      BY <1>0, <2>4 DEF Idles
    <3>2. Carries(Rest, resched)
      <4>1. Rest \in Seq(Quiet(host)) /\ Rest \in Seq(Frame)
        BY <2>1, <3>1, CarriesRest, TopCases
      <4> QED
        BY <2>4, <4>1 DEF Carries
    <3> QED
      BY <1>0, <2>1, <3>2, CarriesOn, NobodyIfSame DEF Runs
  <2> QED
    BY <2>1, <2>2, <2>3, <2>4, TopRuns
<1>3. CASE SelectBegins
  <2>1. /\ SameFiber /\ UNCHANGED <<guest, disable>>
        /\ stack[host] # <<>> /\ Top.op = "select" /\ ~ SelectRefuses
        /\ current = running /\ current # NoThread /\ disable = 0
    BY <1>0, <1>3 DEF SelectBegins, At, SelectRefuses
  <2>2. ~ Idles /\ (Runs \/ Yields)
    BY <2>1, TopRuns DEF Idles
  <2>3. /\ Rest \in Seq(Quiet(host)) /\ Rest \in Seq(Frame) /\ running = host
    BY <2>1, <2>2, CarriesRest, TopCases DEF Runs, Yields
  <2>4. /\ state'[host] # "RUNNING" /\ NobodyElse
    <3>1. CASE Runs
      <4>1. state' = [state EXCEPT ![host] = "READY"]
        BY <1>0, <1>3, <2>3, <3>1 DEF SelectBegins
      <4> QED
        BY <1>0, <3>1, <4>1 DEF NobodyElse, Terminated
    <3>2. CASE Yields
      <4>1. state' = state /\ state[host] # "RUNNING"
        BY <1>3, <2>3, <3>2 DEF SelectBegins, Yields
      <4> QED
        BY <4>1, NobodyIfSame
    <3> QED
      BY <2>2, <3>1, <3>2
  <2>5. CASE pending' # {}
    <3>1. Goto(<<Fr("pick", NoQueue, NoThread, 0)>> \o Rest)
      BY <1>3, <2>5 DEF SelectBegins
    <3>2. /\ stack'[host] = <<Fr("pick", NoQueue, NoThread, 0)>> \o Rest
          /\ \A t \in Threads \ {host} : stack'[t] = stack[t]
      BY <3>1, GotoHere
    <3>3. stack'[host] # <<>> /\ Head(stack'[host]).op = "pick" /\ Tail(stack'[host]) = Rest
      BY <2>3, <3>2 DEF Fr
    <3>4. Tail(stack'[host]) \in Seq(Quiet(host)) /\ host' = host /\ disable' = 0
      BY <2>1, <2>3, <3>3 DEF SameFiber
    <3>5. Picks'
      BY <2>4, <2>5, <3>3, <3>4 DEF Picks, Top, Rest
    <3> QED
      BY <2>1, <2>4, <3>2, <3>5, HostStays DEF HostInv
  <2>6. CASE pending' = {}
    <3>1. /\ Goto(<<IdleFrame>> \o Rest) /\ running' = NoThread /\ current' = IdleContext
      BY <1>3, <2>6 DEF SelectBegins, IdleFrame
    <3>2. /\ stack'[host] = <<IdleFrame>> \o Rest
          /\ \A t \in Threads \ {host} : stack'[t] = stack[t]
      BY <3>1, GotoHere
    <3>3. Split(stack'[host], AboveIdle, {IdleFrame}, Quiet(host))
      BY <2>3, <3>2, SplitPush, FrameSets
    <3>4. Idles'
      BY <2>1, <2>4, <3>1, <3>3 DEF Idles, SameFiber
    <3> QED
      BY <2>1, <2>4, <3>2, <3>4, HostStays DEF HostInv
  <2> QED
    BY <2>5, <2>6
<1>4. CASE IdleEnds
  <2>1. /\ SameFiber /\ UNCHANGED <<guest, disable, pending, state>> /\ pending # {}
        /\ stack[host] # <<>> /\ Top.op = "idle"
        /\ Goto(<<Fr("pick", NoQueue, NoThread, 0)>> \o Rest)
    BY <1>4 DEF IdleEnds, At, thread
  <2>2. Idles /\ Rest \in Seq(Quiet(host))
    BY <2>1, TopRuns
  <2>3. /\ stack'[host] = <<Fr("pick", NoQueue, NoThread, 0)>> \o Rest
        /\ \A t \in Threads \ {host} : stack'[t] = stack[t]
    BY <2>1, GotoHere
  <2>4. stack'[host] # <<>> /\ Head(stack'[host]).op = "pick" /\ Tail(stack'[host]) = Rest
    BY <2>2, <2>3 DEF Fr
  <2>5. /\ Tail(stack'[host]) \in Seq(Quiet(host)) /\ host' = host /\ disable' = 0
        /\ state'[host] # "RUNNING"
    BY <2>1, <2>2, <2>4 DEF SameFiber, Idles
  <2>6. Picks'
    BY <2>1, <2>4, <2>5 DEF Picks, Top, Rest
  <2> QED
    BY <2>1, <2>3, <2>6, HostStays, NobodyIfSame DEF HostInv
<1>5. CASE ReschedStep
  <2>1. /\ SameFiber /\ UNCHANGED <<guest, running, current, disable, resched, state, suspend>>
        /\ Goto(IF resched THEN <<SelectFrame(0)>> \o Rest ELSE Rest)
        /\ stack[host] # <<>> /\ Top.op = "resched"
    BY <1>5 DEF ReschedStep, thread, sched, At
  <2>2. Runs \/ Yields \/ Idles
    BY <2>1, TopRuns
  <2>3. Carries(IF resched THEN <<SelectFrame(0)>> \o Rest ELSE Rest, resched)
    BY <2>1, <2>2, CarriesRest
  <2> QED
    BY <1>0, <2>1, <2>3, CarriesOn, NobodyIfSame DEF Runs
<1>6. ASSUME NEW q \in Queues, IdleCallback(q) PROVE FiberInv' /\ HostInv'
  <2>1. /\ SameFiber /\ UNCHANGED <<guest, running, current, disable, resched, state, suspend>>
        /\ Goto(<<WakeFrame(q)>> \o stack[host])
        /\ stack[host] # <<>> /\ Top.op = "idle"
    BY <1>6 DEF IdleCallback, thread, sched, At
  <2>2. Carries(stack[host], resched)
    BY <2>1, TopRuns, CarriesRest
  <2>3. WakeFrame(q) \in Harmless
    BY <1>0, PushedFrames, QueueIdsFacts
  <2>4. Carries(<<WakeFrame(q)>> \o stack[host], resched')
    BY <2>1, <2>2, <2>3, CarriesPush
  <2> QED
    BY <1>0, <2>1, <2>4, CarriesOn, NobodyIfSame DEF Runs
<1> QED
  BY <1>1, <1>2, <1>3, <1>4, <1>5, <1>6

\* SelectThread switches: the fiber it goes on with is the one of the thread it
\* took, which then runs, and the fiber manager knows it.
LEMMA PickHost ==
    ASSUME IInv, QueuesInv, FiberInv, HostInv, Pick
    PROVE  FiberInv' /\ HostInv'
<1> DEFINE p == Least(pending)
           t == Head(queue[p])
<1>0. /\ host \in Threads /\ host # NoThread /\ state \in [Threads -> States]
      /\ stack \in [Threads -> Seq(Frame)] /\ prev \in [Threads -> Threads \cup {NoThread}]
  BY ModeFacts DEF IInv, TypeOK, FibersTypeOK
<1>1. /\ Picks /\ t \in Threads /\ state[t] = "READY" /\ suspend[t] = 0
      /\ Dispatch(p)
  BY PickDispatches
<1>2. /\ state' = [state EXCEPT ![t] = "RUNNING"] /\ running' = t /\ current' = t
      /\ SwitchTo(t)
  BY <1>1, Zenon DEF Dispatch
<1>3. UNCHANGED <<suspend, disable, guest>>
  BY DEF Pick
<1> HIDE DEF t, p
<1>4. /\ state[host] # "RUNNING" /\ disable = 0 /\ Rest \in Seq(Quiet(host))
      /\ \A x \in Threads \ {host} : state[x] # "RUNNING" /\ stack[x] \in Seq(Quiet(x))
  BY <1>1 DEF Picks, HostInv
<1>5. CASE t = host
  <2>1. UNCHANGED <<host, prev>> /\ fiberCur' = host /\ Goto(Rest)
    BY <1>2, <1>5 DEF SwitchTo
  <2>2. Runs'
    BY <1>0, <1>1, <1>2, <1>3, <1>4, <1>5, <2>1, GotoHere DEF Runs
  <2>3. \A x \in Threads \ {host} : state'[x] = state[x] /\ stack'[x] = stack[x]
    BY <1>0, <1>2, <1>5, <2>1, GotoHere
  <2>4. FiberInv'
    BY <2>1, <2>3 DEF FiberInv, Terminated
  <2> QED
    BY <1>3, <1>4, <2>1, <2>2, <2>3, <2>4 DEF HostInv
<1>6. CASE t # host
  <2>1. /\ host' = t /\ fiberCur' = ResumedThread(t, t, t)
        /\ prev' = [prev EXCEPT ![host] = fiberCur]
        /\ Goto(IF Terminated(host) THEN <<>> ELSE Rest)
    BY <1>2, <1>6 DEF SwitchTo
  <2>2. prev[t] = t /\ t # NoThread
    BY <1>1, <1>6, AddressesAssumption DEF FiberInv, Terminated
  <2>3. fiberCur' = t
    BY <2>1, <2>2 DEF ResumedThread
  <2>4. /\ stack'[host] \in Seq(Quiet(host))
        /\ \A x \in Threads \ {host} : stack'[x] = stack[x]
    BY <1>4, <2>1, GotoHere, EmptySeq
  <2>5. \A x \in Threads \ {t} : state'[x] # "RUNNING" /\ stack'[x] \in Seq(Quiet(x))
    BY <1>0, <1>1, <1>2, <1>4, <2>4
  <2>6. Runs'
    BY <1>0, <1>1, <1>2, <1>3, <1>4, <1>6, <2>1, <2>4 DEF Runs
  <2>7. ASSUME NEW x \in Threads \ {t}, ~ Terminated(x)' PROVE prev'[x] = x
    <3>1. ~ Terminated(x)
      BY <1>0, <1>1, <1>2, <2>7 DEF Terminated
    <3> QED
      BY <1>0, <2>1, <2>7, <3>1 DEF FiberInv
  <2>8. FiberInv'
    BY <2>1, <2>3, <2>7 DEF FiberInv
  <2> QED
    BY <1>3, <1>4, <2>1, <2>5, <2>6, <2>8 DEF HostInv
<1> QED
  BY <1>5, <1>6

\* The steps that inherit, sleep, lock and wake.
LEMMA FramesHost ==
    ASSUME IInv, QueuesInv, FiberInv, HostInv,
           PromoteStep \/ PropagateStep \/ SleepStep \/ SleptStep \/ LockStep \/ WakeStep \/ WakeEnds
    PROVE  FiberInv' /\ HostInv'
<1>0. /\ host \in Threads /\ host # NoThread /\ (Runs <=> state[host] = "RUNNING")
      /\ resched \in BOOLEAN /\ disable \in Nat /\ state \in [Threads -> States]
      /\ suspend \in [Threads -> Nat]
      /\ stack[host] # <<>> /\ Top \in Frame /\ Rest \in Seq(Frame) /\ stack[host] \in Seq(Frame)
  <2>1. stack[host] # <<>>
    BY DEF PromoteStep, PropagateStep, SleepStep, SleptStep, LockStep, WakeStep, WakeEnds, At
  <2> QED
    BY <2>1, ModeFacts, TopCases
<1>1. ASSUME Runs, Top.op \in {"slept", "sleep", "lock", "promote"}
      PROVE  Carries(Rest, resched) /\ Carries(stack[host], resched)
  <2>1. Rest \in Seq(Quiet(host))
    BY <1>0, <1>1, TopRuns
  <2> QED
    BY <1>0, <1>1, <2>1, CarriesRest DEF Carries
<1>2. CASE PromoteStep
  <2>1. /\ SameFiber /\ UNCHANGED <<guest, running, current, disable, state, suspend>>
        /\ Top.op = "promote" /\ Runs
    BY <1>0, <1>2, TopRuns DEF PromoteStep, Return, At
  <2>2. \/ Goto(Rest) /\ UNCHANGED resched
        \/ /\ Top.t # NoThread /\ resched' \in BOOLEAN /\ (resched => resched')
           /\ Goto(<<Fr("promote", NoQueue, BlockedOn(Top.t), Top.n)>> \o Rest)
    BY <1>0, <1>2, Zenon DEF PromoteStep, Return, SetThreadEffectivePriority
  <2>3. ASSUME Top.t # NoThread PROVE Fr("promote", NoQueue, BlockedOn(Top.t), Top.n) \in Quiet(host)
    <3>1. Top.t \in Threads /\ Top.n \in 0 .. NumPrio
      BY <1>0, <2>3 DEF Frame
    <3> QED
      BY <1>0, <3>1, BlockedOnType, PushedFrames
  <2>4. Carries(Rest, resched)
    BY <1>1, <2>1
  <2>5. \E s : Goto(s) /\ Carries(s, resched')
    <3>1. CASE Goto(Rest) /\ UNCHANGED resched
      BY <2>4, <3>1
    <3>2. CASE /\ Top.t # NoThread /\ resched' \in BOOLEAN /\ (resched => resched')
               /\ Goto(<<Fr("promote", NoQueue, BlockedOn(Top.t), Top.n)>> \o Rest)
      <4>1. Carries(Rest, resched')
        BY <1>0, <2>4, <3>2, CarriesPush
      <4> QED
        BY <2>1, <2>3, <3>2, <4>1, CarriesPush
    <3> QED
      BY <2>2, <3>1, <3>2
  <2> QED
    BY <2>1, <2>5, CarriesOn, NobodyIfSame DEF Runs
<1>3. CASE PropagateStep
  <2>1. /\ SameFiber /\ UNCHANGED <<guest, running, current, disable, state, suspend>>
        /\ Top.op = "propagate"
    BY <1>0, <1>3 DEF PropagateStep, Return, At
  <2>2. \/ Goto(Rest) /\ UNCHANGED resched
        \/ /\ Top.t # NoThread /\ resched' \in BOOLEAN /\ (resched => resched')
           /\ Goto(<<Fr("propagate", NoQueue, BlockedOn(Top.t), 0)>> \o Rest)
    BY <1>0, <1>3, Zenon DEF PropagateStep, Return, SetThreadEffectivePriority
  <2>3. ASSUME Top.t # NoThread PROVE Fr("propagate", NoQueue, BlockedOn(Top.t), 0) \in Harmless
    <3>1. Top.t \in Threads
      BY <1>0, <2>3 DEF Frame
    <3> QED
      BY <1>0, <3>1, BlockedOnType, PushedFrames
  <2>4. Carries(Rest, resched)
    BY <1>0, <2>1, CarriesRest
  <2>5. \E s : Goto(s) /\ Carries(s, resched')
    <3>1. CASE Goto(Rest) /\ UNCHANGED resched
      BY <2>4, <3>1
    <3>2. CASE /\ Top.t # NoThread /\ resched' \in BOOLEAN /\ (resched => resched')
               /\ Goto(<<Fr("propagate", NoQueue, BlockedOn(Top.t), 0)>> \o Rest)
      <4>1. Carries(Rest, resched')
        BY <1>0, <2>4, <3>2, CarriesPush
      <4> QED
        BY <2>3, <3>2, <4>1, CarriesPush
    <3> QED
      BY <2>2, <3>1, <3>2
  <2> QED
    BY <1>0, <2>1, <2>5, CarriesOn, NobodyIfSame DEF Runs
<1>4. CASE SleepStep
  <2>1. /\ SameFiber /\ UNCHANGED <<guest, disable, suspend>> /\ Top.op = "sleep" /\ Runs
    BY <1>0, <1>4, TopRuns DEF SleepStep, At
  <2>2. /\ Rest \in Seq(Quiet(host)) /\ running = host /\ current = host
        /\ running' = host /\ current' = host
    BY <1>0, <1>4, <2>1, TopRuns DEF SleepStep, Runs
  <2>3. CASE disable # 0
    <3>1. Goto(Rest) /\ UNCHANGED <<state, resched>>
      BY <1>4, <2>3 DEF SleepStep
    <3> QED
      BY <1>1, <2>1, <2>2, <3>1, CarriesOn, NobodyIfSame DEF Runs
  <2>4. CASE disable = 0
    <3>1. /\ state' = [state EXCEPT ![host] = "WAITING"] /\ resched' = TRUE
          /\ Goto(<<SelectFrame(0), Fr("slept", Top.q, host, 0)>> \o Rest)
      BY <1>0, <1>4, <2>2, <2>4 DEF SleepStep
    <3>2. /\ Top.q \in WaitQueues
          /\ SelectFrame(0) \in Selecting(TRUE) /\ Fr("slept", Top.q, host, 0) \in Quiet(host)
      <4>1. Top.q \in WaitQueues
        BY <1>0, <2>1 DEF Frame
      <4>2. SelectFrame(0) \in Selecting(TRUE)
        BY <1>0, PushedFrames, 0 \in 0 .. 1
      <4>3. Fr("slept", Top.q, host, 0) \in Quiet(host)
        BY <1>0, <4>1, PushedFrames
      <4> QED
        BY <4>1, <4>2, <4>3
    <3>3. SelectFrame(0) \in Frame /\ Fr("slept", Top.q, host, 0) \in Frame
      BY <3>2 DEF Selecting, Quiet
    <3>4. /\ stack'[host] = <<SelectFrame(0)>> \o (<<Fr("slept", Top.q, host, 0)>> \o Rest)
          /\ \A t \in Threads \ {host} : stack'[t] = stack[t]
      BY <1>0, <3>1, <3>3, GotoHere, TwoFrames
    <3>5. <<Fr("slept", Top.q, host, 0)>> \o Rest \in Seq(Quiet(host))
      BY <2>2, <3>2, PushOn
    <3>6. <<Fr("slept", Top.q, host, 0)>> \o Rest \in Seq(Frame)
      BY <1>0, <3>3, PushOn
    <3>7. Split(stack'[host], Passing, Selecting(TRUE), Quiet(host))
      BY <3>2, <3>3, <3>4, <3>5, <3>6, SplitPush
    <3>8. state'[host] # "RUNNING" /\ NobodyElse
      BY <1>0, <2>1, <3>1 DEF NobodyElse, Terminated, Runs
    <3>9. Yields'
      BY <2>1, <2>2, <2>4, <3>1, <3>7, <3>8 DEF Yields, SameFiber
    <3> QED
      BY <2>1, <2>4, <3>4, <3>8, <3>9, HostStays DEF HostInv
  <2> QED
    BY <2>3, <2>4
<1>5. CASE SleptStep
  <2>1. /\ SameFiber /\ UNCHANGED <<guest, running, current, disable, suspend, resched>>
        /\ Goto(Rest) /\ Top.op = "slept" /\ Runs /\ Top \in Quiet(host)
    BY <1>0, <1>5, TopRuns DEF SleptStep, Return, At
  <2>2. Top.t = host /\ state[host] = "RUNNING"
    BY <2>1 DEF Quiet, Runs
  <2>3. UNCHANGED state
    BY <1>5, <2>2 DEF SleptStep
  <2> QED
    BY <1>1, <2>1, <2>3, CarriesOn, NobodyIfSame DEF Runs
<1>6. CASE LockStep
  <2>1. /\ SameFiber /\ UNCHANGED <<guest, running, current, disable, state, suspend, resched>>
        /\ Top.op = "lock" /\ Runs
        /\ \/ Goto(Rest)
           \/ Goto(<<Fr("promote", NoQueue, owner[Top.q], prio[Top.t]), Fr("sleep", Top.q, NoThread, 0)>>
                   \o stack[host])
    BY <1>0, <1>6, TopRuns DEF LockStep, At, sched
  <2>2. /\ Fr("promote", NoQueue, owner[Top.q], prio[Top.t]) \in Quiet(host)
        /\ Fr("sleep", Top.q, NoThread, 0) \in Quiet(host)
    <3>1. Top.q \in Mutexes /\ Top.t \in Threads /\ Top.q \in WaitQueues
      BY <1>0, <2>1, QueueIdsFacts DEF Frame
    <3>2. owner[Top.q] \in Threads \cup {NoThread} /\ prio[Top.t] \in 0 .. NumPrio
      BY <3>1 DEF IInv, TypeOK, MutexesTypeOK, ThreadsTypeOK
    <3> QED
      BY <1>0, <3>1, <3>2, PushedFrames
  <2>3. Carries(Rest, resched) /\ Carries(stack[host], resched)
    BY <1>1, <2>1
  <2>4. Carries(<<Fr("promote", NoQueue, owner[Top.q], prio[Top.t]), Fr("sleep", Top.q, NoThread, 0)>>
                \o stack[host], resched)
    <3>1. Carries(<<Fr("sleep", Top.q, NoThread, 0)>> \o stack[host], resched)
      BY <2>1, <2>2, <2>3, CarriesPush
    <3>2. Carries(<<Fr("promote", NoQueue, owner[Top.q], prio[Top.t])>>
                  \o (<<Fr("sleep", Top.q, NoThread, 0)>> \o stack[host]), resched)
      BY <2>1, <2>2, <3>1, CarriesPush
    <3>3. /\ Fr("promote", NoQueue, owner[Top.q], prio[Top.t]) \in Frame
          /\ Fr("sleep", Top.q, NoThread, 0) \in Frame
      BY <2>2 DEF Quiet
    <3> QED
      BY <1>0, <3>2, <3>3, TwoFrames
  <2> QED
    BY <2>1, <2>3, <2>4, CarriesOn, NobodyIfSame DEF Runs
<1>7. CASE WakeStep
  <2> DEFINE t == Head(queue[Top.q])
             f == [Top EXCEPT !.op = Readied(@)]
  <2>1. /\ SameFiber /\ UNCHANGED <<guest, running, current, disable, suspend>>
        /\ Top.op \in {"wake", "wakeResched"}
    BY <1>0, <1>7, TopCases DEF WakeStep, At
  <2>2. Top.q \in WaitQueues /\ queue[Top.q] # <<>>
    BY <1>0, <1>7, <2>1 DEF WakeStep, Frame
  <2>3. t \in Threads /\ state[t] = "WAITING"
    <3>1. queue[Top.q] \in Seq(Threads) /\ NoDup(queue[Top.q]) /\ Top.q \in QueueIds /\ Top.q \notin Prios
      BY <2>2, QueuesFacts, PriosAreNoWaitQueues DEF GoodLists, ListsOK
    <3>2. t \in Threads /\ Linked(queue[Top.q], t)
      BY <2>2, <3>1, TailKeeps, HeadTailProperties
    <3> QED
      BY <3>1, <3>2 DEF QueuesInv, Shelved
  <2>4. state' = [state EXCEPT ![t] = "READY"]
    BY <1>7, <2>3 DEF WakeStep, Terminated
  <2>5. resched' \in BOOLEAN /\ (resched => resched')
    <3>1. resched' = (resched \/ (~ Terminated(t) /\ suspend[t] < 1))
      BY <1>7 DEF WakeStep
    <3> QED
      BY <1>0, <3>1, Zenon
  <2>6. Goto(stack[host]) \/ Goto(<<f>> \o Rest)
    BY <1>7 DEF WakeStep
  <2>7. f \in Harmless
    BY <1>0, <2>1, <2>2 DEF Harmless, Passing, AboveIdle, Frame, FrameOps, Readied
  <2> HIDE DEF t, f
  <2>8. \A x \in Threads : (state[x] = "RUNNING" <=> state'[x] = "RUNNING") /\ NobodyElse
    BY <1>0, <2>3, <2>4 DEF NobodyElse, Terminated
  <2>9. Carries(stack[host], resched) /\ Carries(Rest, resched)
    BY <1>0, <2>1, TopRuns, CarriesRest
  <2>10. Carries(stack[host], resched') /\ Carries(Rest, resched')
    BY <1>0, <2>5, <2>9, CarriesPush
  <2>11. Carries(<<f>> \o Rest, resched')
    BY <2>7, <2>10, CarriesPush
  <2>12. Runs => state'[host] = "RUNNING" /\ suspend'[host] = 0
    BY <1>0, <2>1, <2>8 DEF Runs
  <2>13. (state[host] # "RUNNING" => state'[host] # "RUNNING") /\ NobodyElse
    BY <1>0, <2>8
  <2> QED
    BY <2>1, <2>6, <2>10, <2>11, <2>12, <2>13, CarriesOn
<1>8. CASE WakeEnds
  <2>1. /\ SameFiber /\ UNCHANGED <<guest, running, current, disable, state, suspend, resched>>
        /\ Top.op \in {"wake", "wakeResched"}
        /\ Goto(IF Top.op = "wakeResched" THEN <<SelectFrame(0)>> \o Rest ELSE Rest)
    BY <1>0, <1>8, TopCases DEF WakeEnds, At, sched, thread
  <2>2. Runs \/ Yields \/ Idles
    BY <1>0, <2>1, TopRuns
  <2>3. Carries(IF Top.op = "wakeResched" THEN <<SelectFrame(0)>> \o Rest ELSE Rest, resched)
    BY <1>0, <2>1, <2>2, CarriesRest
  <2> QED
    BY <1>0, <2>1, <2>3, CarriesOn, NobodyIfSame DEF Runs
<1> QED
  BY <1>2, <1>3, <1>4, <1>5, <1>6, <1>7, <1>8

\* The steps that end a thread, a join, a sleep and a callback.
LEMMA EndingHost ==
    ASSUME IInv, FiberInv, HostInv,
           UnlockAllStep \/ ExitedStep \/ JoinedStep \/ TickedStep \/ EndDeferredStep
    PROVE  FiberInv' /\ HostInv'
<1>0. /\ host \in Threads /\ host # NoThread /\ (Runs <=> state[host] = "RUNNING")
      /\ resched \in BOOLEAN /\ disable \in Nat /\ state \in [Threads -> States]
      /\ suspend \in [Threads -> Nat]
      /\ stack[host] # <<>> /\ Top \in Frame /\ Rest \in Seq(Frame) /\ stack[host] \in Seq(Frame)
  <2>1. stack[host] # <<>>
    BY DEF UnlockAllStep, ExitedStep, JoinedStep, TickedStep, EndDeferredStep, At
  <2> QED
    BY <2>1, ModeFacts, TopCases
<1>1. ASSUME Runs, Top.op \in {"joined", "ticked", "endDeferred"}
      PROVE  Carries(Rest, resched)
  <2>1. Rest \in Seq(Quiet(host))
    BY <1>0, <1>1, TopRuns
  <2> QED
    BY <1>0, <1>1, <2>1 DEF Carries
<1>2. CASE UnlockAllStep
  <2> DEFINE ms == owned[Top.t]
  <2>1. /\ SameFiber /\ UNCHANGED <<guest, running, current, disable, state, suspend, resched>>
        /\ Top.op = "unlockAll"
        /\ Goto(Rest) \/ (ms # <<>> /\ Goto(<<WakeFrame(Head(ms))>> \o stack[host]))
    BY <1>2 DEF UnlockAllStep, At, sched
  <2>2. ms \in Seq(Mutexes)
    <3>1. Top.t \in Threads
      BY <1>0, <2>1 DEF Frame
    <3> QED
      BY <3>1 DEF IInv, TypeOK, ThreadsTypeOK
  <2>3. ms # <<>> => WakeFrame(Head(ms)) \in Harmless
    BY <1>0, <2>2, HeadTailProperties, PushedFrames, QueueIdsFacts
  <2> HIDE DEF ms
  <2>4. Carries(Rest, resched) /\ Carries(stack[host], resched)
    BY <1>0, <2>1, TopRuns, CarriesRest
  <2>5. ms # <<>> => Carries(<<WakeFrame(Head(ms))>> \o stack[host], resched)
    BY <2>3, <2>4, CarriesPush
  <2> QED
    BY <1>0, <2>1, <2>4, <2>5, CarriesOn, NobodyIfSame DEF Runs
<1>3. CASE ExitedStep
  <2>1. /\ SameFiber /\ UNCHANGED <<guest, running, current, disable, state, suspend>>
        /\ Top.op = "exited" /\ Goto(<<SelectFrame(0)>> \o Rest)
    BY <1>3 DEF ExitedStep, At, thread
  <2>2. Runs \/ Yields
    BY <1>0, <2>1, TopRuns
  <2>3. Carries(<<SelectFrame(0)>> \o Rest, resched')
    BY <1>0, <2>1, <2>2, CarriesRest
  <2> QED
    BY <1>0, <2>1, <2>3, CarriesOn, NobodyIfSame DEF Runs
<1>4. CASE JoinedStep
  <2>1. /\ SameFiber /\ UNCHANGED <<guest, running, current, disable, suspend, resched>>
        /\ Top.op = "joined" /\ Goto(Rest) /\ Runs
    BY <1>0, <1>4, TopRuns DEF JoinedStep, Return, At, sched
  <2>2. \/ UNCHANGED state
        \/ state[Top.t] = "MORIBUND" /\ state' = [state EXCEPT ![Top.t] = "NONE"]
    BY <1>4 DEF JoinedStep, Collect
  <2>3. NobodyElse /\ state'[host] = state[host]
    BY <1>0, <2>1, <2>2 DEF NobodyElse, Terminated, Runs
  <2> QED
    BY <1>1, <2>1, <2>3, CarriesOn DEF Runs
<1>5. CASE TickedStep
  <2>1. /\ SameFiber /\ UNCHANGED <<guest, running, current, disable, resched>>
        /\ Top.op = "ticked" /\ Goto(Rest) /\ Runs /\ Top.t = host
    BY <1>0, <1>5, TopRuns DEF TickedStep, Return, At, sched, Quiet
  <2>2. UNCHANGED <<state, suspend>>
    BY <1>5, <2>1 DEF TickedStep, Runs
  <2> QED
    BY <1>1, <2>1, <2>2, CarriesOn, NobodyIfSame DEF Runs
<1>6. CASE EndDeferredStep
  <2>1. /\ SameFiber /\ UNCHANGED <<guest, running, current, state, suspend, resched>>
        /\ Top.op = "endDeferred" /\ Runs /\ (disable = 0 => disable' = 0)
        /\ Goto(Rest) \/ Goto(<<ReschedFrame>> \o Rest)
    BY <1>0, <1>6, TopRuns DEF EndDeferredStep, At, thread
  <2>2. Carries(Rest, resched) /\ ReschedFrame \in Harmless
    BY <1>0, <1>1, <2>1, PushedFrames
  <2>3. Carries(<<ReschedFrame>> \o Rest, resched)
    BY <2>2, CarriesPush
  <2> QED
    BY <2>1, <2>2, <2>3, CarriesOn, NobodyIfSame DEF Runs
<1> QED
  BY <1>2, <1>3, <1>4, <1>5, <1>6

\* What guest code may begin with, on an empty stack, and go on as it did.
LEMMA CarriesCalls ==
    ASSUME IInv, HostInv, InGuestCode, NEW r
    PROVE  /\ Runs /\ Carries(<<>>, r)
           /\ \A f \in Quiet(host) : Carries(<<f>>, r)
           /\ \A f \in Quiet(host), g \in Quiet(host) : Carries(<<f, g>>, r)
<1>1. Runs
  BY GuestRuns
<1>2. /\ <<>> \in Seq(Frame) /\ <<>> \in Seq(Quiet(host))
      /\ \A f, g \in Quiet(host) : <<f>> \in Seq(Quiet(host)) /\ <<f, g>> \in Seq(Quiet(host))
      /\ \A f, g \in Frame : <<f>> \in Seq(Frame) /\ <<f, g>> \in Seq(Frame)
  OBVIOUS
<1>3. Quiet(host) \subseteq Frame
  BY FrameSets
<1> QED
  BY <1>1, <1>2, <1>3 DEF Carries

\* The running thread stops: it comes to SelectThread with the frames it leaves.
LEMMA StopsRunning ==
    ASSUME IInv, FiberInv, HostInv, Runs, SameFiber, UNCHANGED <<guest, running, current>>, NobodyElse,
           state'[host] # "RUNNING", disable' = 0, NEW s, Goto(s),
           Split(s, Passing, Selecting(resched'), Quiet(host))
    PROVE  FiberInv' /\ HostInv'
<1>1. host' = host /\ stack'[host] = s /\ \A t \in Threads \ {host} : stack'[t] = stack[t]
  BY GotoHere DEF SameFiber
<1>2. Yields'
  BY <1>1 DEF Yields, Runs
<1> QED
  BY <1>1, <1>2, HostStays DEF HostInv

\* OSSuspendThread of the thread that runs, with what it does once it is resumed.
LEMMA SuspendSelf ==
    ASSUME IInv, FiberInv, HostInv, Runs, SameFiber, UNCHANGED <<guest, running, current>>,
           disable' = 0, NEW rest \in Seq(Quiet(host)), SuspendThread(host, rest)
    PROVE  FiberInv' /\ HostInv'
<1>0. /\ host \in Threads /\ state \in [Threads -> States] /\ resched \in BOOLEAN
      /\ state[host] = "RUNNING" /\ suspend[host] = 0
  BY ModeFacts DEF Runs
<1>1. /\ state' = [state EXCEPT ![host] = "READY"] /\ resched' = TRUE
      /\ Goto(<<Fr("propagate", NoQueue, BlockedOn(host), 0), ReschedFrame>> \o rest)
  BY <1>0 DEF SuspendThread
<1>2. /\ Fr("propagate", NoQueue, BlockedOn(host), 0) \in Passing /\ ReschedFrame \in Selecting(TRUE)
      /\ Fr("propagate", NoQueue, BlockedOn(host), 0) \in Frame /\ ReschedFrame \in Frame
      /\ rest \in Seq(Frame)
  <2>1. Fr("propagate", NoQueue, BlockedOn(host), 0) \in Harmless
    BY <1>0, BlockedOnType, PushedFrames
  <2>2. ReschedFrame \in Selecting(TRUE)
    BY <1>0, PushedFrames
  <2>3. rest \in Seq(Frame)
    BY FrameSets, SeqMonotonic
  <2> QED
    BY <2>1, <2>2, <2>3 DEF Harmless, Passing, Selecting
<1>3. Split(<<ReschedFrame>> \o rest, Passing, Selecting(TRUE), Quiet(host))
  BY <1>2, SplitPush
<1>4. <<ReschedFrame>> \o rest \in Seq(Frame)
  BY <1>2, PushOn
<1>5. Split(<<Fr("propagate", NoQueue, BlockedOn(host), 0)>> \o (<<ReschedFrame>> \o rest),
            Passing, Selecting(TRUE), Quiet(host))
  BY <1>2, <1>3, <1>4, SplitPush
<1>6. Split(<<Fr("propagate", NoQueue, BlockedOn(host), 0), ReschedFrame>> \o rest,
            Passing, Selecting(TRUE), Quiet(host))
  BY <1>2, <1>5, TwoFrames
<1>7. NobodyElse /\ state'[host] # "RUNNING"
  BY <1>0, <1>1 DEF NobodyElse, Terminated
<1> QED
  BY <1>1, <1>6, <1>7, StopsRunning

\* The calls that resume and suspend.
LEMMA SuspendHost ==
    ASSUME GuestsKeepTheRules, IInv, FiberInv, HostInv,
           \/ \E t \in Threads : OSResumeThread(t) \/ OSSuspendThread(t)
           \/ OSSleepTicks
    PROVE  FiberInv' /\ HostInv'
<1>0. /\ host \in Threads /\ host # NoThread /\ (Runs <=> state[host] = "RUNNING")
      /\ resched \in BOOLEAN /\ disable \in Nat /\ InGuestCode
      /\ Runs /\ suspend[host] = 0 /\ Carries(<<>>, resched) /\ fiberCur = host
  <2>1. InGuestCode
    BY DEF OSResumeThread, OSSuspendThread, OSSleepTicks, Calls
  <2>2. Runs /\ Carries(<<>>, resched)
    BY <2>1, CarriesCalls
  <2>3. fiberCur = host
    BY <2>2 DEF Runs, FiberInv, Terminated
  <2> QED
    BY <2>1, <2>2, <2>3, ModeFacts DEF Runs
<1>1. ASSUME NEW t \in Threads, t # host, ResumeThread(t, <<>>) \/ SuspendThread(t, <<>>),
             SameFiber, UNCHANGED <<guest, running, current, disable>>
      PROVE  FiberInv' /\ HostInv'
  <2>1. /\ NobodyElse
        /\ \A x \in Threads \ {t} : state'[x] = state[x] /\ suspend'[x] = suspend[x]
        /\ \E s : Goto(s) /\ Carries(s, resched')
    BY <1>0, <1>1, ResumeFrames
  <2>2. state'[host] = "RUNNING" /\ suspend'[host] = 0
    BY <1>0, <1>1, <2>1
  <2> QED
    BY <1>0, <1>1, <2>1, <2>2, CarriesOn
<1>2. ASSUME NEW t \in Threads, OSResumeThread(t) PROVE FiberInv' /\ HostInv'
  <2>1. t # host
    BY <1>0, <1>2 DEF OSResumeThread
  <2> QED
    BY <1>1, <1>2, <2>1 DEF OSResumeThread
<1>3. ASSUME NEW t \in Threads, OSSuspendThread(t) PROVE FiberInv' /\ HostInv'
  <2>1. disable = 0 /\ UNCHANGED disable
    BY <1>3 DEF OSSuspendThread, Calls, HostInv
  <2>2. CASE t # host
    BY <1>1, <1>3, <2>2 DEF OSSuspendThread
  <2>3. CASE t = host
    <3>1. <<>> \in Seq(Quiet(host))
      OBVIOUS
    <3> QED
      BY <1>0, <1>3, <2>1, <2>3, <3>1, SuspendSelf DEF OSSuspendThread
  <2> QED
    BY <2>2, <2>3
<1>4. CASE OSSleepTicks
  <2>1. Sleeper = host /\ disable = 0 /\ UNCHANGED disable
    BY <1>0, <1>4 DEF OSSleepTicks, Sleeper, Unparkable
  <2>2. <<Fr("ticked", NoQueue, host, 0)>> \in Seq(Quiet(host))
    <3>1. Fr("ticked", NoQueue, host, 0) \in Quiet(host)
      BY <1>0, PushedFrames
    <3> QED
      BY <3>1
  <2> QED
    BY <1>0, <1>4, <2>1, <2>2, SuspendSelf DEF OSSleepTicks
<1> QED
  BY <1>2, <1>3, <1>4

\* The calls that push frames, lock, unlock, join and detach.
LEMMA CallsHost ==
    ASSUME IInv, FiberInv, HostInv,
           \/ OSThreadCall
           \/ \E m \in Mutexes : OSLockMutex(m) \/ OSUnlockMutex(m)
           \/ \E t \in Threads : OSJoinThread(t) \/ OSDetachThread(t)
    PROVE  FiberInv' /\ HostInv'
<1>0. /\ host \in Threads /\ host # NoThread /\ (Runs <=> state[host] = "RUNNING")
      /\ InGuestCode /\ stack[host] = <<>> /\ Runs /\ running = host /\ suspend[host] = 0
      /\ state \in [Threads -> States]
  <2>1. InGuestCode
    BY DEF OSThreadCall, CallHandler, OSLockMutex, OSUnlockMutex, OSJoinThread, OSDetachThread, Calls
  <2> QED
    BY <2>1, ModeFacts, GuestRuns DEF Runs
<1>1. /\ Carries(<<>>, resched)
      /\ \A f \in Quiet(host) : Carries(<<f>>, resched)
      /\ \A f \in Quiet(host), g \in Quiet(host) : Carries(<<f, g>>, resched)
  BY <1>0, CarriesCalls
<1>2. \A q \in WaitQueues : WakeFrame(q) \in Quiet(host) /\ Fr("sleep", q, NoThread, 0) \in Quiet(host)
  BY <1>0, PushedFrames, FrameSets DEF Harmless
<1>3. /\ UNCHANGED <<guest, running, current, disable, resched, suspend>> /\ SameFiber
      /\ \/ UNCHANGED state
         \/ \E t \in Threads : state[t] = "MORIBUND" /\ state' = [state EXCEPT ![t] = "NONE"]
  BY DEF OSThreadCall, OSLockMutex, OSUnlockMutex, OSJoinThread, OSDetachThread, thread, sched, Collect
<1>4. NobodyElse /\ state'[host] = state[host]
  BY <1>0, <1>3 DEF NobodyElse, Terminated
<1>5. UNCHANGED stack => Goto(<<>>)
  BY <1>0 DEF Goto, IInv, TypeOK, FibersTypeOK
<1>6. \E s : Goto(s) /\ Carries(s, resched)
  <2>1. CASE OSThreadCall
    <3>1. \A q \in Queues : q \in WaitQueues
      BY QueueIdsFacts
    <3>2. SelectFrame(1) \in Quiet(host)
      <4>1. SelectFrame(1) \in Selecting(TRUE)
        BY <1>0, PushedFrames, 1 \in 0 .. 1
      <4> QED
        BY <4>1, FrameSets
    <3>3. \/ \E q \in Queues : Goto(<<Fr("sleep", q, NoThread, 0)>>)
          \/ \E q \in Queues : Goto(<<WakeFrame(q)>>)
          \/ Goto(<<SelectFrame(1)>>)
      BY <2>1, Zenon DEF OSThreadCall, CallHandler
    <3> QED
      BY <1>1, <1>2, <3>1, <3>2, <3>3
  <2>2. ASSUME NEW m \in Mutexes, OSLockMutex(m) PROVE \E s : Goto(s) /\ Carries(s, resched)
    <3>1. Goto(<<Fr("lock", m, host, 0)>>)
      BY <1>0, <2>2 DEF OSLockMutex
    <3>2. Fr("lock", m, host, 0) \in Quiet(host)
      BY <1>0, PushedFrames
    <3> QED
      BY <1>1, <3>1, <3>2
  <2>3. ASSUME NEW m \in Mutexes, OSUnlockMutex(m) PROVE \E s : Goto(s) /\ Carries(s, resched)
    <3>1. Goto(<<WakeFrame(m)>>) \/ Goto(<<>>)
      BY <2>3 DEF OSUnlockMutex
    <3> QED
      BY <1>1, <1>2, <3>1, QueueIdsFacts
  <2>4. ASSUME NEW t \in Threads, OSJoinThread(t) \/ OSDetachThread(t)
        PROVE  \E s : Goto(s) /\ Carries(s, resched)
    <3>1. \/ Goto(<<Fr("sleep", t, NoThread, 0), Fr("joined", NoQueue, t, 0)>>)
          \/ Goto(<<WakeFrame(t)>>)
          \/ Goto(<<>>)
      BY <1>5, <2>4 DEF OSJoinThread, OSDetachThread
    <3>2. t \in WaitQueues /\ Fr("joined", NoQueue, t, 0) \in Quiet(host)
      BY <1>0, PushedFrames, QueueIdsFacts
    <3> QED
      BY <1>1, <1>2, <3>1, <3>2
  <2> QED
    BY <2>1, <2>2, <2>3, <2>4
<1> QED
  BY <1>0, <1>3, <1>4, <1>6, CarriesOn

\* The calls that disable and enable the scheduler, and a host callback.
LEMMA DisableHost ==
    ASSUME GuestsKeepTheRules, IInv, FiberInv, HostInv,
           \/ OSDisableScheduler \/ OSEnableScheduler
           \/ \E q \in Queues, n \in 0 .. 1 : DeferredCallback(q, n)
    PROVE  FiberInv' /\ HostInv'
<1>0. /\ host \in Threads /\ InGuestCode /\ stack[host] = <<>> /\ Runs
  <2>1. InGuestCode
    BY DEF OSDisableScheduler, OSEnableScheduler, DeferredCallback, Calls
  <2> QED
    BY <2>1, GuestRuns
<1>1. /\ UNCHANGED <<guest, running, current, suspend, state>> /\ SameFiber
      /\ {"disable", "callback"} \cap guest # {}
  BY DEF OSDisableScheduler, OSEnableScheduler, DeferredCallback, thread, Calls, fiber, SameFiber
<1>2. "suspend" \notin guest
  BY <1>1 DEF GuestsKeepTheRules, HostInv
<1>3. /\ stack'[host] \in Seq(Quiet(host))
      /\ \A t \in Threads \ {host} : stack'[t] = stack[t]
  <2>1. CASE UNCHANGED stack
    <3>1. <<>> \in Seq(Quiet(host))
      OBVIOUS
    <3> QED
      BY <1>0, <2>1, <3>1
  <2>2. ASSUME NEW q \in Queues, NEW n \in 0 .. 1, DeferredCallback(q, n)
        PROVE  /\ stack'[host] \in Seq(Quiet(host))
               /\ \A t \in Threads \ {host} : stack'[t] = stack[t]
    <3>1. Goto(<<WakeFrame(q), Fr("endDeferred", NoQueue, NoThread, n)>>)
      BY <2>2 DEF DeferredCallback
    <3>2. WakeFrame(q) \in Quiet(host) /\ Fr("endDeferred", NoQueue, NoThread, n) \in Quiet(host)
      <4>1. WakeFrame(q) \in Quiet(host)
        BY <1>0, PushedFrames, FrameSets, QueueIdsFacts DEF Harmless
      <4>2. Fr("endDeferred", NoQueue, NoThread, n) \in Quiet(host)
        BY <1>0, PushedFrames
      <4> QED
        BY <4>1, <4>2
    <3>3. <<WakeFrame(q), Fr("endDeferred", NoQueue, NoThread, n)>> \in Seq(Quiet(host))
      BY <3>2
    <3> QED
      BY <3>1, <3>3, GotoHere
  <2> QED
    BY <2>1, <2>2 DEF OSDisableScheduler, OSEnableScheduler, fiber
<1>4. Runs'
  BY <1>0, <1>1, <1>3 DEF Runs, SameFiber
<1> QED
  BY <1>1, <1>2, <1>3, <1>4, HostStays, NobodyIfSame

\* The calls that begin and end the life of a thread.
LEMMA LifeHost ==
    ASSUME IInv, FiberInv, HostInv,
           \/ \E t \in Threads, d \in BOOLEAN : OSCreateThread(t, d)
           \/ OSExitThread
           \/ \E t \in Threads : OSCancelThread(t)
    PROVE  FiberInv' /\ HostInv'
<1>0. /\ host \in Threads /\ host # NoThread /\ InGuestCode /\ stack[host] = <<>> /\ Runs
      /\ running = host /\ current = host /\ state[host] = "RUNNING" /\ suspend[host] = 0
      /\ fiberCur = host /\ resched \in BOOLEAN
      /\ state \in [Threads -> States] /\ suspend \in [Threads -> Nat]
      /\ stack \in [Threads -> Seq(Frame)] /\ prev \in [Threads -> Threads \cup {NoThread}]
  <2>1. InGuestCode
    BY DEF OSCreateThread, OSExitThread, OSCancelThread, Calls
  <2>2. Runs /\ stack[host] = <<>>
    BY <2>1, GuestRuns
  <2> QED
    BY <2>1, <2>2, ModeFacts DEF Runs, FiberInv, Terminated, IInv, TypeOK, FibersTypeOK
<1>1. ASSUME NEW t \in Threads, NEW d \in BOOLEAN, OSCreateThread(t, d) PROVE FiberInv' /\ HostInv'
  <2>1. /\ state[t] = "NONE" /\ state' = [state EXCEPT ![t] = "READY"]
        /\ suspend' = [suspend EXCEPT ![t] = 1] /\ stack' = [stack EXCEPT ![t] = <<>>]
        /\ prev' = [prev EXCEPT ![t] = t]
        /\ UNCHANGED <<host, fiberCur, running, current, disable, guest>>
    BY <1>1 DEF OSCreateThread
  <2>2. t # host
    BY <1>0, <2>1
  <2>3. /\ state'[host] = "RUNNING" /\ suspend'[host] = 0 /\ stack'[host] = <<>>
        /\ \A x \in Threads \ {host} :
              /\ state'[x] = IF x = t THEN "READY" ELSE state[x]
              /\ stack'[x] = IF x = t THEN <<>> ELSE stack[x]
              /\ prev'[x] = IF x = t THEN t ELSE prev[x]
    BY <1>0, <2>1, <2>2
  <2>4. <<>> \in Seq(Quiet(host)) /\ \A x \in Threads : <<>> \in Seq(Quiet(x))
    BY EmptySeq
  <2>5. Runs'
    BY <1>0, <2>1, <2>3, <2>4 DEF Runs
  <2>6. FiberInv'
    BY <1>0, <2>1, <2>3 DEF FiberInv, Terminated
  <2>7. \A x \in Threads \ {host} : state'[x] # "RUNNING" /\ stack'[x] \in Seq(Quiet(x))
    BY <2>3, <2>4 DEF HostInv
  <2> QED
    BY <2>1, <2>5, <2>6, <2>7 DEF HostInv
<1>2. ASSUME NEW t \in Threads, NEW f \in Frame, TerminateThread(t, <<f>>),
             UNCHANGED <<suspend, running, current, disable>>,
             \/ t = host /\ disable = 0 /\ f \in Selecting(resched')
             \/ t # host /\ f \in Quiet(host)
      PROVE  FiberInv' /\ HostInv'
  <2>1. /\ state'[t] \in {"NONE", "MORIBUND"}
        /\ \A x \in Threads \ {t} : state'[x] = state[x]
        /\ fiberCur' = IF t = host THEN NoThread ELSE host
        /\ stack' = [stack EXCEPT ![t] = <<>>, ![host] = EndingFrames(t, <<f>>)]
        /\ UNCHANGED <<host, prev, guest>>
    BY <1>0, <1>2 DEF TerminateThread
  <2>2. /\ stack'[host] = EndingFrames(t, <<f>>)
        /\ \A x \in Threads \ {host} : stack'[x] \in {stack[x], <<>>}
    BY <1>0, <2>1
  <2>3. EndingFrames(t, <<f>>) = <<Fr("unlockAll", NoQueue, t, 0)>> \o (<<WakeFrame(t)>> \o <<f>>)
    <3>1. WakeFrame(t) \in Frame /\ Fr("unlockAll", NoQueue, t, 0) \in Frame /\ <<f>> \in Seq(Frame)
      BY FrameForms, QueueIdsFacts
    <3> QED
      BY <3>1, TwoFrames DEF EndingFrames
  <2>4. /\ Fr("unlockAll", NoQueue, t, 0) \in Passing /\ WakeFrame(t) \in Passing
        /\ Passing \subseteq Frame /\ Passing \subseteq Quiet(host)
    BY PushedFrames, QueueIdsFacts, FrameSets DEF Harmless, Passing
  <2>5. \A x \in Threads \ {host} : state'[x] # "RUNNING" /\ stack'[x] \in Seq(Quiet(x))
    <3>1. \A x \in Threads \ {host} : stack[x] \in Seq(Quiet(x)) /\ <<>> \in Seq(Quiet(x)) /\ state[x] # "RUNNING"
      BY EmptySeq DEF HostInv
    <3>2. \A x \in Threads \ {host} : state'[x] # "RUNNING"
      BY <2>1, <3>1
    <3> QED
      BY <2>2, <3>1, <3>2
  <2>6. FiberInv'
    BY <1>0, <2>1 DEF FiberInv, Terminated
  <2>7. CASE t = host
    <3>1. f \in Selecting(resched') /\ disable' = 0 /\ state'[host] # "RUNNING"
      BY <1>2, <2>1, <2>7
    <3>2. Split(<<f>>, Passing, Selecting(resched'), Quiet(host))
      BY <3>1 DEF Split
    <3>3. Split(<<WakeFrame(t)>> \o <<f>>, Passing, Selecting(resched'), Quiet(host))
      BY <2>4, <3>2, SplitPush, <<f>> \in Seq(Frame)
    <3>4. <<WakeFrame(t)>> \o <<f>> \in Seq(Frame)
      BY <2>4, PushOn, <<f>> \in Seq(Frame)
    <3>5. Split(EndingFrames(t, <<f>>), Passing, Selecting(resched'), Quiet(host))
      BY <2>3, <2>4, <3>3, <3>4, SplitPush
    <3>6. Yields'
      BY <1>0, <1>2, <2>1, <2>2, <3>1, <3>5 DEF Yields
    <3> QED
      BY <1>2, <2>1, <2>5, <2>6, <3>6 DEF HostInv
  <2>8. CASE t # host
    <3>1. /\ f \in Quiet(host) /\ state'[host] = "RUNNING"
      BY <1>0, <1>2, <2>1, <2>8
    <3>2. EndingFrames(t, <<f>>) \in Seq(Quiet(host))
      <4>1. <<WakeFrame(t)>> \o <<f>> \in Seq(Quiet(host))
        BY <2>4, <3>1, PushOn, <<f>> \in Seq(Quiet(host))
      <4> QED
        BY <2>3, <2>4, <4>1, PushOn
    <3>3. Runs'
      BY <1>0, <1>2, <2>1, <2>2, <3>1, <3>2 DEF Runs
    <3> QED
      BY <1>2, <2>1, <2>5, <2>6, <3>3 DEF HostInv
  <2> QED
    BY <2>7, <2>8
<1>3. CASE OSExitThread
  <2>1. /\ TerminateThread(host, <<Fr("exited", NoQueue, NoThread, 0)>>) /\ disable = 0
        /\ UNCHANGED <<suspend, running, current, disable>>
    BY <1>0, <1>3 DEF OSExitThread, sched
  <2>2. Fr("exited", NoQueue, NoThread, 0) \in Selecting(resched') /\ Fr("exited", NoQueue, NoThread, 0) \in Frame
    BY <1>0, PushedFrames, FrameForms
  <2> QED
    BY <1>0, <1>2, <2>1, <2>2
<1>4. ASSUME NEW t \in Threads, OSCancelThread(t) PROVE FiberInv' /\ HostInv'
  <2>1. /\ TerminateThread(t, <<ReschedFrame>>) /\ (t = host => disable = 0)
        /\ resched' = (resched \/ state[t] = "RUNNING")
        /\ UNCHANGED <<suspend, running, current, disable>>
    BY <1>0, <1>4 DEF OSCancelThread
  <2>2. /\ ReschedFrame \in Selecting(TRUE) /\ ReschedFrame \in Quiet(host) /\ ReschedFrame \in Frame
    BY <1>0, PushedFrames, FrameSets, FrameForms
  <2>3. t = host => resched' = TRUE
    BY <1>0, <2>1
  <2> QED
    BY <1>2, <2>1, <2>2, <2>3
<1> QED
  BY <1>1, <1>3, <1>4


\* Every step, for guests that keep the rules.
LEMMA NextHost ==
    ASSUME GuestsKeepTheRules, IInv, SafeInv, [Next]_vars
    PROVE  FiberInv' /\ HostInv'
<1>0. QueuesInv /\ FiberInv /\ HostInv
  BY DEF SafeInv
<1>1. CASE FrameStep
  <2>1. ~ FiberEndStep
    BY <1>0, TopCases DEF FiberEndStep, At
  <2>2. CASE \/ \E t \in Threads : SleepTimerFires(t)
             \/ SelectRefused \/ SelectBegins \/ IdleEnds \/ ReschedStep
             \/ \E q \in Queues : IdleCallback(q)
    BY <1>0, <2>2, SelectHost
  <2>3. CASE Pick
    BY <1>0, <2>3, PickHost
  <2>4. CASE PromoteStep \/ PropagateStep \/ SleepStep \/ SleptStep \/ LockStep \/ WakeStep \/ WakeEnds
    BY <1>0, <2>4, FramesHost
  <2>5. CASE UnlockAllStep \/ ExitedStep \/ JoinedStep \/ TickedStep \/ EndDeferredStep
    BY <1>0, <2>5, EndingHost
  <2> QED
    BY <1>1, <2>1, <2>2, <2>3, <2>4, <2>5 DEF FrameStep
<1>2. CASE GuestCall
  <2>1. ~ FiberReturns
    BY <1>0 DEF FiberReturns, Calls, GuestsKeepTheRules, HostInv
  <2>2. CASE (\E t \in Threads : OSResumeThread(t) \/ OSSuspendThread(t)) \/ OSSleepTicks
    BY <1>0, <2>2, SuspendHost
  <2>3. CASE \/ OSThreadCall
             \/ \E m \in Mutexes : OSLockMutex(m) \/ OSUnlockMutex(m)
             \/ \E t \in Threads : OSJoinThread(t) \/ OSDetachThread(t)
    BY <1>0, <2>3, CallsHost
  <2>4. CASE \/ OSDisableScheduler \/ OSEnableScheduler
             \/ \E q \in Queues, n \in 0 .. 1 : DeferredCallback(q, n)
    BY <1>0, <2>4, DisableHost
  <2>5. CASE \/ \E t \in Threads, d \in BOOLEAN : OSCreateThread(t, d)
             \/ OSExitThread
             \/ \E t \in Threads : OSCancelThread(t)
    BY <1>0, <2>5, LifeHost
  <2> QED
    BY <1>2, <2>1, <2>2, <2>3, <2>4, <2>5 DEF GuestCall
<1>3. CASE UNCHANGED vars
  BY <1>0, <1>3 DEF vars, thread, sched, fiber, FiberInv, HostInv, Runs, Yields, Idles, Picks,
                    Terminated, Top, Rest
<1> QED
  BY <1>1, <1>2, <1>3 DEF Next

-----------------------------------------------------------------------------
(***************************************************************************)
(* The theorems.                                                           *)
(***************************************************************************)

\* OSThreadInit: the default thread runs, and every list is empty.
LEMMA InitSafe == ASSUME GuestsKeepTheRules, Init PROVE SafeInv
<1>1. Main \in Threads /\ BasePrio \in [Threads -> Prios]
  BY ConstantsAssumption
<1>2. GoodLists(queue, pending, prio)
  <2>1. queue \in [QueueIds -> Seq(Threads)] /\ prio \in [Threads -> 0 .. NumPrio]
    BY InitIInv DEF IInv, TypeOK, QueuesTypeOK, ThreadsTypeOK
  <2>2. \A q \in QueueIds : queue[q] = <<>> /\ Len(queue[q]) = 0
    BY DEF Init
  <2>3. WaitQueues \subseteq QueueIds /\ Prios \subseteq QueueIds /\ pending = {}
    BY QueueIdsFacts DEF Init
  <2> QED
    BY <2>1, <2>2, <2>3 DEF GoodLists, ListsOK, NoDup, InOrder
<1>3. Shelved(queue, link, state, suspend)
  BY <1>1 DEF Init, Shelved, Linked
<1>4. PriosOK(state, suspend, prio)
  BY <1>1, QueueIdsFacts DEF Init, PriosOK, Prios
<1>5. ListedIsAlive
  BY <1>1 DEF Init, ListedIsAlive
<1>6. FiberInv
  BY <1>1 DEF Init, FiberInv, Terminated
<1>7. \A t \in Threads : stack[t] \in Seq(Quiet(t))
  <2>1. \A t \in Threads : stack[t] = <<>>
    BY DEF Init
  <2>2. \A t \in Threads : <<>> \in Seq(Quiet(t))
    OBVIOUS
  <2> QED
    BY <2>1, <2>2
<1>8. HostInv
  <2>1. Runs
    BY <1>1, <1>7 DEF Init, Runs
  <2>2. disable = 0 /\ guest \in Guests /\ \A t \in Threads \ {host} : state[t] # "RUNNING"
    BY DEF Init
  <2> QED
    BY <1>7, <2>1, <2>2 DEF HostInv
<1> QED
  BY <1>2, <1>3, <1>4, <1>5, <1>6, <1>8 DEF SafeInv, QueuesInv

\* The lists and the running fiber are right together: what SelectThread takes
\* off a run queue is the thread it then dispatches, and what calls a handler is
\* the thread that runs.
THEOREM SafeInvariant ==
    ASSUME GuestsKeepTheRules
    PROVE  Spec => []SafeInv
<1>1. Init => SafeInv
  BY InitSafe
<1>2. IInv /\ SafeInv /\ [Next]_vars => SafeInv'
  BY NextLists, NextHost DEF SafeInv
<1> QED
  BY <1>1, <1>2, InductiveInvariant, PTL DEF Spec

\* The pending mask shows exactly the run queues that hold a thread, no thread is
\* linked twice or elsewhere than OSThread.queue says, wait queues are sorted when
\* a thread is about to be woken, and the active list holds the threads that can
\* still be joined: whatever LinkThreadOnRunQueue, InsertThreadIntoQueueByPriority
\* and RemoveThreadFromQueue are called for, and in whatever order.
THEOREM ListsWellFormed ==
    ASSUME GuestsKeepTheRules
    PROVE  Spec => []QueuesWellFormed
<1>1. IInv /\ SafeInv => QueuesWellFormed
  <2> SUFFICES ASSUME IInv, QueuesInv PROVE QueuesWellFormed
    BY DEF SafeInv
  <2>1. PendingExact /\ ListedIsAlive
    BY DEF QueuesInv, GoodLists, ListsOK, PendingExact
  <2>2. queue \in [QueueIds -> Seq(Threads)]
    BY DEF QueuesInv, GoodLists
  <2>3. LinkedOnce
    <3> SUFFICES ASSUME NEW q \in QueueIds, NEW i \in 1 .. Len(queue[q])
                 PROVE  /\ link[queue[q][i]] = q
                        /\ \A j \in 1 .. Len(queue[q]) : queue[q][i] = queue[q][j] => i = j
      BY DEF LinkedOnce
    <3>1. queue[q][i] \in Threads /\ Linked(queue[q], queue[q][i])
      BY <2>2, ElementOfSeq DEF Linked
    <3>2. link[queue[q][i]] = q
      BY <3>1 DEF QueuesInv, Shelved
    <3> QED
      BY <3>2 DEF QueuesInv, GoodLists, ListsOK, NoDup
  <2>4. WaitQueuesSorted
    BY DEF QueuesInv, GoodLists, ListsOK, InOrder, WaitQueuesSorted
  <2> QED
    BY <2>1, <2>3, <2>4 DEF QueuesWellFormed
<1> QED
  BY <1>1, SafeInvariant, InductiveInvariant, PTL

\* Guest code runs on the fiber of the one RUNNING thread, and the scheduler's
\* running thread, the current context and the fiber manager name that thread:
\* SwitchToThread, the resumption of a fiber that was switched away, the idle loop
\* of SelectThread and the end of a thread never leave them apart.
THEOREM RunningThreadIsHosts ==
    ASSUME GuestsKeepTheRules
    PROVE  Spec => []HostRunsRunningThread
<1>1. IInv /\ SafeInv => HostRunsRunningThread
  <2> SUFFICES ASSUME IInv, FiberInv, HostInv, InGuestCode
               PROVE  /\ running = host /\ current = host /\ fiberCur = host
                      /\ {t \in Threads : state[t] = "RUNNING"} = {host}
    BY DEF SafeInv, HostRunsRunningThread
  <2>1. Runs /\ host \in Threads
    BY GuestRuns
  <2>2. fiberCur = host
    BY <2>1 DEF FiberInv, Runs, Terminated
  <2> QED
    BY <2>1, <2>2 DEF Runs, HostInv
<1> QED
  BY <1>1, SafeInvariant, InductiveInvariant, PTL

-----------------------------------------------------------------------------
(***************************************************************************)
(* No thread is lost.                                                      *)
(***************************************************************************)

\* Nobody waits for a mutex that t owns.
Uncontended(t) == \A m \in Mutexes : Linked(owned[t], m) => queue[m] = <<>>

\* The third rule, on behaviours: no thread exits or is cancelled while another waits for a
\* mutex it owns.  Where one does, the first waiter may take the processor for good before
\* the thread is cleaned up.
EndsUncontended ==
    /\ OSExitThread => Uncontended(running)
    /\ \A t \in Threads : OSCancelThread(t) => Uncontended(t)

\* The frames of a guest g, apart from that of OSJoinThread going to sleep and that of
\* __OSUnlockAllMutex.
Tame(g) ==
    {f \in Frame : /\ f.op = "sleep" => f.q \notin Threads
                   /\ f.op = "lock" => "lock" \in g
                   /\ f.op # "unlockAll"}

\* The stack s of the fiber on which the mutexes of t are released and its joiners woken.
Releases(t, s, g) ==
    /\ s # <<>> /\ Head(s) = Fr("unlockAll", NoQueue, t, 0)
    /\ Tail(s) # <<>> /\ Head(Tail(s)) = WakeFrame(t)
    /\ Tail(s) \in Seq(Tame(g))

\* The running fiber releases, one by one, the mutexes of t, which has ended: nobody waits
\* for them, so that no wakeup on them comes to anything.
Ending(t, g) ==
    /\ Terminated(t) /\ Uncontended(t) /\ {"exit", "cancel"} \cap g # {}
    /\ \/ Releases(t, stack[host], g)
       \/ At("wake") /\ Top.q \in Mutexes /\ queue[Top.q] = <<>> /\ Releases(t, Rest, g)

\* A thread goes to sleep on the join queue of a thread only right after it has
\* seen that the thread is alive, before anything else is done; so does the release
\* of the mutexes of a thread that has ended.
JoinsTheLiving(g) ==
    /\ \A t \in Threads \ {host} : stack[t] \in Seq(Tame(g))
    /\ \/ stack[host] \in Seq(Tame(g))
       \/ /\ At("sleep") /\ Top.q \in Threads /\ ~ Terminated(Top.q)
          /\ Rest \in Seq(Tame(g))
       \/ \E t \in Threads : Ending(t, g)

\* A guest without OSLockMutex owns no mutex.
OwnsNothing == "lock" \in guest \/ \A t \in Threads : owned[t] = <<>>

\* What is on top of the running fiber wakes the threads that join t.
CleansUp(t) == stack[host] # <<>> /\ Top.op \in {"wake", "wakeResched"} /\ Top.q = t

\* Nobody waits to join a thread that has ended and been cleaned up.
JoinersLeft ==
    \A t \in Threads : Terminated(t) => queue[t] = <<>> \/ CleansUp(t) \/ Ending(t, guest)

\* The inductive invariant of the theorems below, over that of the lists.
PlacedInv == Placed /\ JoinersLeft /\ JoinsTheLiving(guest) /\ OwnsNothing

\* The frames that handlers push are tame, and so are those of the search.
LEMMA TameForms ==
    ASSUME NEW g \in Guests, guest = g
    PROVE  /\ HoldsPushed(Tame(g)) /\ HoldsTop(Tame(g))
           /\ Fr("pick", NoQueue, NoThread, 0) \in Tame(g)
           /\ Fr("idle", NoQueue, NoThread, 0) \in Tame(g)
           /\ \A t \in Threads : Fr("joined", NoQueue, t, 0) \in Tame(g)
<1>1. \A f \in Tame(g) : f.op \in {"wake", "wakeResched", "wakeFiber"} => [f EXCEPT !.op = Readied(@)] \in Tame(g)
  BY DEF Tame, Frame, FrameOps, Readied
<1>2. \A q \in Queues \cup Mutexes : q \notin Threads /\ q \in WaitQueues
  BY AddressesAssumption, QueueIdsFacts
<1> QED
  BY <1>1, <1>2, FrameForms, QueueIdsFacts DEF HoldsPushed, HoldsTop, Tame, Fr, ReschedFrame, SelectFrame, WakeFrame

\* A pushed frame is on top.
LEMMA HeadTailOfPush ==
    ASSUME NEW F, NEW s \in Seq(F), NEW f
    PROVE  Head(<<f>> \o s) = f /\ Tail(<<f>> \o s) = s /\ <<f>> \o s # <<>>
OBVIOUS

\* What is on top while the mutexes of t are released: nothing but that is executed.
LEMMA EndingTop ==
    ASSUME IInv, NEW t \in Threads, NEW g, Ending(t, g)
    PROVE  /\ stack[host] # <<>> /\ Top.op \in {"unlockAll", "wake"}
           /\ Top.op = "unlockAll" => Top.t = t /\ Releases(t, stack[host], g)
           /\ Top.op = "wake" => Top.q \in Mutexes /\ queue[Top.q] = <<>> /\ Releases(t, Rest, g)
<1>1. CASE Releases(t, stack[host], g)
  <2>1. stack[host] # <<>> /\ Top = Fr("unlockAll", NoQueue, t, 0)
    BY <1>1 DEF Releases, Top
  <2> QED
    BY <1>1, <2>1 DEF Fr
<1>2. CASE At("wake") /\ Top.q \in Mutexes /\ queue[Top.q] = <<>> /\ Releases(t, Rest, g)
  BY <1>2 DEF At
<1> QED
  BY <1>1, <1>2 DEF Ending

\* Only the release of mutexes brings a frame of __OSUnlockAllMutex to the top.
LEMMA TopEnds ==
    ASSUME IInv, NEW g, JoinsTheLiving(g), At("unlockAll")
    PROVE  \E t \in Threads : Top.t = t /\ Ending(t, g)
<1>1. stack[host] \notin Seq(Tame(g)) /\ ~ At("sleep")
  <2>1. ASSUME stack[host] \in Seq(Tame(g)) PROVE FALSE
    <3>1. Top \in Tame(g) /\ Top.op = "unlockAll"
      BY <2>1, TopOf DEF At
    <3> QED
      BY <3>1 DEF Tame
  <2> QED
    BY <2>1 DEF At
<1>2. PICK t \in Threads : Ending(t, g)
  BY <1>1 DEF JoinsTheLiving
<1> QED
  BY <1>2, EndingTop DEF At

\* A release goes on, and changes nothing but the mutexes of t and the stack it runs on,
\* until t owns no mutex and those who join it are woken.
LEMMA EndingStep ==
    ASSUME IInv, NEW t \in Threads, NEW g, Ending(t, g), [Next]_vars
    PROVE  /\ UNCHANGED <<state, suspend, prio, link, queue, host, holds, guest>>
           /\ \A x \in Threads \ {host} : stack'[x] = stack[x]
           /\ \/ UNCHANGED <<owned, owner>>
              \/ /\ owned[t] # <<>> /\ owned' = [owned EXCEPT ![t] = Tail(@)]
                 /\ owner' = [owner EXCEPT ![Head(owned[t])] = NoThread]
           /\ \/ Ending(t, g)'
              \/ owned'[t] = <<>> /\ stack'[host] \in Seq(Tame(g)) /\ CleansUp(t)'
<1>0. /\ stack[host] # <<>> /\ Top.op \in {"unlockAll", "wake"}
      /\ Top.op = "unlockAll" => Top.t = t /\ Releases(t, stack[host], g)
      /\ Top.op = "wake" => Top.q \in Mutexes /\ queue[Top.q] = <<>> /\ Releases(t, Rest, g)
      /\ host \in Threads /\ Rest \in Seq(Frame) /\ stack[host] \in Seq(Frame)
      /\ owned \in [Threads -> Seq(Mutexes)]
  <2>1. /\ stack[host] # <<>> /\ Top.op \in {"unlockAll", "wake"}
        /\ Top.op = "unlockAll" => Top.t = t /\ Releases(t, stack[host], g)
        /\ Top.op = "wake" => Top.q \in Mutexes /\ queue[Top.q] = <<>> /\ Releases(t, Rest, g)
    BY EndingTop
  <2> QED
    BY <2>1, TopType DEF At, IInv, TypeOK, ThreadsTypeOK
<1>1. UnlockAllStep \/ WakeEnds \/ UNCHANGED vars
  <2>1. ~ WakeStep
    BY <1>0 DEF WakeStep, At
  <2>2. FrameStep => UnlockAllStep \/ WakeEnds
    BY <1>0, <2>1
       DEF FrameStep, SleepTimerFires, Polling, SelectRefused, SelectBegins, IdleCallback,
           IdleEnds, Pick, ReschedStep, PromoteStep, PropagateStep, SleepStep, SleptStep, LockStep,
           ExitedStep, JoinedStep, TickedStep, EndDeferredStep, FiberEndStep, At
  <2>3. ~ GuestCall
    BY <1>0
       DEF GuestCall, OSCreateThread, OSResumeThread, OSSuspendThread, OSSleepTicks, OSThreadCall, CallHandler,
           OSLockMutex, OSUnlockMutex, OSExitThread, OSCancelThread, OSJoinThread,
           OSDetachThread, OSDisableScheduler, OSEnableScheduler, DeferredCallback, FiberReturns,
           Calls, InGuestCode
  <2> QED
    BY <2>2, <2>3 DEF Next
<1>2. UNCHANGED <<state, suspend, prio, link, queue, host, holds, guest>>
  BY <1>1 DEF UnlockAllStep, WakeEnds, vars, thread, sched, SameFiber, fiber
<1>3. Terminated(t)' /\ {"exit", "cancel"} \cap g # {}
  BY <1>2 DEF Ending, Terminated
<1>4. CASE UnlockAllStep
  <2>1. /\ Top.t = t /\ Releases(t, stack[host], g)
        /\ IF owned[t] = <<>>
           THEN Goto(Rest) /\ UNCHANGED <<owned, owner>>
           ELSE /\ owned' = [owned EXCEPT ![t] = Tail(@)]
                /\ owner' = [owner EXCEPT ![Head(owned[t])] = NoThread]
                /\ Goto(<<WakeFrame(Head(owned[t]))>> \o stack[host])
    BY <1>0, <1>4 DEF UnlockAllStep, At
  <2>2. CASE owned[t] = <<>>
    <3>1. /\ stack'[host] = Rest /\ \A x \in Threads \ {host} : stack'[x] = stack[x]
          /\ owned'[t] = <<>>
      BY <2>1, <2>2, GotoHere
    <3>2. stack'[host] \in Seq(Tame(g)) /\ stack'[host] # <<>> /\ Head(stack'[host]) = WakeFrame(t)
      BY <2>1, <3>1 DEF Releases, Rest
    <3>3. CleansUp(t)'
      BY <1>2, <3>2 DEF CleansUp, Top, WakeFrame, Fr
    <3> QED
      BY <1>2, <2>1, <2>2, <3>1, <3>2, <3>3
  <2>3. CASE owned[t] # <<>>
    <3> DEFINE m == Head(owned[t])
    <3>1. /\ owned[t] \in Seq(Mutexes) /\ m \in Mutexes /\ Linked(owned[t], m) /\ queue[m] = <<>>
      <4>1. owned[t] \in Seq(Mutexes) /\ m \in Mutexes
        BY <1>0, <2>3, HeadTailProperties
      <4>2. 1 \in 1 .. Len(owned[t]) /\ owned[t][1] = m
        BY <2>3, <4>1
      <4> QED
        BY <4>1, <4>2 DEF Linked, Ending, Uncontended
    <3>2. /\ stack'[host] = <<WakeFrame(m)>> \o stack[host]
          /\ \A x \in Threads \ {host} : stack'[x] = stack[x]
      BY <2>1, <2>3, GotoHere
    <3>3. /\ owned'[t] = Tail(owned[t])
          /\ \A n : Linked(Tail(owned[t]), n) => Linked(owned[t], n)
      <4>1. owned'[t] = Tail(owned[t])
        BY <1>0, <2>1, <2>3
      <4>2. /\ Len(owned[t]) \in Nat /\ Len(Tail(owned[t])) = Len(owned[t]) - 1
            /\ \A i \in 1 .. Len(Tail(owned[t])) : i + 1 \in 1 .. Len(owned[t]) /\ Tail(owned[t])[i] = owned[t][i + 1]
        BY <2>3, <3>1, HeadTailProperties
      <4> QED
        BY <4>1, <4>2 DEF Linked
    <3>4. Uncontended(t)'
      BY <1>2, <3>3 DEF Ending, Uncontended
    <3> HIDE DEF m
    <3>5. Head(stack'[host]) = WakeFrame(m) /\ Tail(stack'[host]) = stack[host] /\ stack'[host] # <<>>
      <4> DEFINE w == WakeFrame(m)
      <4>1. stack'[host] = <<w>> \o stack[host] /\ stack[host] \in Seq(Frame)
        BY <1>0, <3>2
      <4> HIDE DEF w
      <4>2. Head(<<w>> \o stack[host]) = w /\ Tail(<<w>> \o stack[host]) = stack[host] /\ <<w>> \o stack[host] # <<>>
        BY <4>1, HeadTailOfPush
      <4> QED
        BY <4>1, <4>2 DEF w
    <3>6. /\ stack'[host'] # <<>> /\ Top'.op = "wake" /\ Top'.q = m
          /\ queue'[Top'.q] = <<>> /\ Releases(t, Rest', g)
      <4>1. host' = host /\ queue' = queue
        BY <1>2
      <4>2. Top' = WakeFrame(m) /\ Rest' = stack[host]
        BY <3>5, <4>1 DEF Top, Rest
      <4>3. WakeFrame(m).op = "wake" /\ WakeFrame(m).q = m
        BY DEF WakeFrame, Fr
      <4> QED
        BY <2>1, <3>1, <3>5, <4>1, <4>2, <4>3
    <3>7. Ending(t, g)'
      BY <1>3, <3>1, <3>4, <3>6 DEF Ending, Releases, At
    <3> QED
      BY <1>2, <2>1, <2>3, <3>2, <3>7
  <2> QED
    BY <2>2, <2>3
<1>5. CASE WakeEnds
  <2>1. Top.op = "wake" /\ Goto(Rest) /\ UNCHANGED <<owned, owner>>
    BY <1>0, <1>5 DEF WakeEnds, At, thread, mutex
  <2>2. stack'[host] = Rest /\ \A x \in Threads \ {host} : stack'[x] = stack[x]
    BY <2>1, GotoHere
  <2>3. Releases(t, stack'[host'], g) /\ Uncontended(t)'
    BY <1>0, <1>2, <2>1, <2>2 DEF Ending, Uncontended
  <2>4. Ending(t, g)'
    BY <1>3, <2>3 DEF Ending, Releases
  <2> QED
    BY <1>2, <2>1, <2>2, <2>4
<1>6. CASE UNCHANGED vars
  <2>1. Ending(t, g)'
    BY <1>6 DEF vars, fiber, thread, sched, Ending, Uncontended, Releases, Terminated, At, Top, Rest
  <2> QED
    BY <1>2, <1>6, <2>1 DEF vars, fiber, thread, mutex
<1> QED
  BY <1>1, <1>4, <1>5, <1>6

\* A thread that ends leaves the queue it is on and enters none.
LEMMA EndersLeave ==
    ASSUME IInv, OSExitThread \/ \E t \in Threads : OSCancelThread(t)
    PROVE  \A q \in QueueIds : queue[q] = <<>> => queue'[q] = <<>>
<1>1. CASE OSExitThread
  BY <1>1 DEF OSExitThread, sched
<1>2. ASSUME NEW t \in Threads, OSCancelThread(t) PROVE \A q \in QueueIds : queue[q] = <<>> => queue'[q] = <<>>
  <2>1. queue' = Removed(t) \/ UNCHANGED queue
    BY <1>2 DEF OSCancelThread, Delink, KeepQueues
  <2>2. UNCHANGED queue \/ queue' = [queue EXCEPT ![link[t]] = Unlink(@, t)]
    BY <2>1 DEF Removed
  <2>3. queue \in [QueueIds -> Seq(Threads)]
    BY DEF IInv, TypeOK, QueuesTypeOK
  <2> QED
    BY <2>2, <2>3, UnlinkEmpty
<1> QED
  BY <1>1, <1>2

\* A thread that ends while nobody waits for its mutexes is about to be cleaned up.
LEMMA EndBegins ==
    ASSUME IInv, NEW g \in Guests, guest = g, InGuestCode, {"exit", "cancel"} \cap g # {},
           NEW t \in Threads, Uncontended(t), UNCHANGED owned,
           NEW f \in Tame(g), TerminateThread(t, <<f>>),
           \A q \in QueueIds : queue[q] = <<>> => queue'[q] = <<>>
    PROVE  /\ Ending(t, g)' /\ UNCHANGED host
           /\ \A x \in Threads \ {host} : stack'[x] \in {stack[x], <<>>}
<1>0. host \in Threads /\ stack \in [Threads -> Seq(Frame)] /\ state \in [Threads -> States]
  BY DEF IInv, TypeOK, FibersTypeOK, ThreadsTypeOK
<1>1. /\ state' = [state EXCEPT ![t] = IF detached[t] THEN "NONE" ELSE "MORIBUND"]
      /\ stack' = [stack EXCEPT ![t] = <<>>, ![host] = EndingFrames(t, <<f>>)]
      /\ UNCHANGED host
  BY DEF TerminateThread
<1>2. Terminated(t)' /\ Uncontended(t)'
  BY <1>0, <1>1, QueueIdsFacts DEF Terminated, Uncontended
<1> DEFINE u == Fr("unlockAll", NoQueue, t, 0)
           w == WakeFrame(t)
<1>3. w \in Tame(g)
  BY TameForms, QueueIdsFacts, AddressesAssumption DEF HoldsPushed
<1> HIDE DEF u, w
<1>4. stack'[host] = <<u, w>> \o <<f>>
  BY <1>0, <1>1 DEF EndingFrames, u, w
<1>5. /\ Head(stack'[host]) = u /\ stack'[host] # <<>> /\ Tail(stack'[host]) # <<>>
      /\ Head(Tail(stack'[host])) = w /\ Tail(stack'[host]) \in Seq(Tame(g))
  <2> DEFINE r == <<w>> \o <<f>>
  <2>1. <<f>> \in Seq(Tame(g)) /\ <<f>> \in Seq(Frame) /\ u \in Frame /\ w \in Frame
    BY <1>3, FrameForms DEF Tame, u
  <2>2. r \in Seq(Tame(g)) /\ Head(r) = w /\ r # <<>>
    BY <1>3, <2>1, PushOn, HeadTailOfPush
  <2>3. <<u, w>> \o <<f>> = <<u>> \o r /\ r \in Seq(Frame)
    BY <2>1, TwoFrames
  <2> HIDE DEF r
  <2>4. Head(<<u>> \o r) = u /\ Tail(<<u>> \o r) = r /\ <<u>> \o r # <<>>
    BY <2>3, HeadTailOfPush
  <2> QED
    BY <1>4, <2>2, <2>3, <2>4
<1>6. Releases(t, stack'[host'], g)
  BY <1>1, <1>5 DEF Releases, u, w
<1> QED
  BY <1>0, <1>1, <1>2, <1>6 DEF Ending, Releases

\* The same, for the two calls that end a thread.
LEMMA CallsEnd ==
    ASSUME IInv, NEW g \in Guests, guest = g, EndsUncontended,
           OSExitThread \/ \E t \in Threads : OSCancelThread(t)
    PROVE  \E t \in Threads, f \in Tame(g) :
              /\ TerminateThread(t, <<f>>) /\ InGuestCode /\ UNCHANGED <<owned, owner, count>>
              /\ Ending(t, g)' /\ UNCHANGED host
              /\ \A x \in Threads \ {host} : stack'[x] \in {stack[x], <<>>}
<1>1. ReschedFrame \in Tame(g) /\ Fr("exited", NoQueue, NoThread, 0) \in Tame(g)
  BY TameForms DEF HoldsPushed
<1>2. ASSUME NEW t \in Threads, Uncontended(t), NEW f \in Tame(g), TerminateThread(t, <<f>>), InGuestCode,
             UNCHANGED <<owned, owner, count>>, {"exit", "cancel"} \cap g # {}
      PROVE  /\ TerminateThread(t, <<f>>) /\ InGuestCode /\ UNCHANGED <<owned, owner, count>>
             /\ Ending(t, g)' /\ UNCHANGED host
             /\ \A x \in Threads \ {host} : stack'[x] \in {stack[x], <<>>}
  BY <1>2, EndersLeave, EndBegins
<1>3. CASE OSExitThread
  <2>1. /\ running \in Threads /\ TerminateThread(running, <<Fr("exited", NoQueue, NoThread, 0)>>)
        /\ InGuestCode /\ UNCHANGED <<owned, owner, count>> /\ "exit" \in g /\ Uncontended(running)
    BY <1>3 DEF OSExitThread, Calls, EndsUncontended, mutex
  <2> QED
    BY <1>1, <1>2, <2>1
<1>4. ASSUME NEW t \in Threads, OSCancelThread(t)
      PROVE  /\ TerminateThread(t, <<ReschedFrame>>) /\ InGuestCode /\ UNCHANGED <<owned, owner, count>>
             /\ "cancel" \in g /\ Uncontended(t)
  BY <1>4 DEF OSCancelThread, Calls, EndsUncontended, mutex
<1> QED
  BY <1>1, <1>2, <1>3, <1>4

\* Every step but the end of a fiber leaves tame frames, a join that has not gone to
\* sleep yet, or the release of the mutexes of a thread that has ended.
LEMMA JoinsStep ==
    ASSUME GuestsKeepTheRules, IInv, SafeInv, NEW g, guest = g, JoinsTheLiving(g), [Next]_vars,
           EndsUncontended \/ UNCHANGED vars
    PROVE  JoinsTheLiving(g)'
<1> DEFINE F == Tame(g)
<1>0. /\ host \in Threads /\ stack \in [Threads -> Seq(Frame)]
      /\ <<>> \in Seq(F) /\ F \subseteq Frame
      /\ QueuesInv /\ HostInv /\ g \in Guests
      /\ HoldsPushed(F) /\ HoldsTop(F)
      /\ \A t \in Threads \ {host} : stack[t] \in Seq(F)
  BY TameForms DEF HostInv, IInv, TypeOK, FibersTypeOK, SafeInv, JoinsTheLiving, Tame
<1> HIDE DEF F
<1>1. ASSUME NEW t \in Threads, Ending(t, g) PROVE JoinsTheLiving(g)'
  <2>1. /\ UNCHANGED host /\ \A x \in Threads \ {host} : stack'[x] = stack[x]
        /\ Ending(t, g)' \/ stack'[host] \in Seq(Tame(g))
    BY <1>1, EndingStep
  <2> QED
    BY <1>0, <2>1 DEF JoinsTheLiving, F
<1>2. ASSUME UNCHANGED host, NEW t \in Threads, Ending(t, g)',
             \A x \in Threads \ {host} : stack'[x] \in {stack[x], <<>>}
      PROVE  JoinsTheLiving(g)'
  <2>1. \A x \in Threads \ {host} : stack'[x] \in Seq(F)
    BY <1>0, <1>2
  <2> QED
    BY <1>2, <2>1 DEF JoinsTheLiving, F
<1>3. ASSUME Pushes(F) PROVE JoinsTheLiving(g)'
  <2>1. \A t \in Threads \ {host} : stack[t] \in Seq(F) /\ stack'[t] \in {stack[t], <<>>}
    BY <1>0, <1>3 DEF Pushes
  <2>2. \A t \in Threads \ {host} : stack'[t] \in Seq(F)
    BY <1>0, <2>1
  <2> QED
    BY <1>3, <2>2 DEF JoinsTheLiving, Pushes, F
<1>4. SUFFICES ASSUME ~ \E t \in Threads : Ending(t, g) PROVE JoinsTheLiving(g)'
  BY <1>1
<1>5. stack[host] \in Seq(F) \/ (At("sleep") /\ Rest \in Seq(F))
  BY <1>4 DEF JoinsTheLiving, F
<1>6. CASE \/ \E t \in Threads : SleepTimerFires(t)
           \/ SelectRefused \/ (\E q \in Queues : IdleCallback(q)) \/ ReschedStep
           \/ PromoteStep \/ PropagateStep \/ SleepStep \/ SleptStep \/ LockStep \/ WakeStep
           \/ WakeEnds \/ UnlockAllStep \/ ExitedStep \/ JoinedStep \/ TickedStep \/ EndDeferredStep
  BY <1>0, <1>3, <1>5, <1>6, FramesPush
<1>7. CASE /\ GuestCall /\ ~ FiberReturns /\ \A t \in Threads : ~ OSJoinThread(t)
           /\ ~ OSExitThread /\ \A t \in Threads : ~ OSCancelThread(t)
  BY <1>0, <1>3, <1>7, CallsPush
<1>8. CASE OSExitThread \/ \E t \in Threads : OSCancelThread(t)
  <2>1. CASE UNCHANGED vars
    BY <1>0, <1>5, <2>1 DEF vars, fiber, thread, JoinsTheLiving, At, Top, Rest, Terminated, F
  <2>2. CASE EndsUncontended
    BY <1>0, <1>2, <1>8, <2>2, CallsEnd
  <2> QED
    BY <2>1, <2>2
<1>9. CASE FiberReturns
  BY <1>0, <1>9 DEF FiberReturns, Calls, GuestsKeepTheRules, HostInv
<1>10. ASSUME NEW t \in Threads, OSJoinThread(t) PROVE JoinsTheLiving(g)'
  <2>1. UNCHANGED host /\ stack[host] = <<>> /\ state[t] # "NONE"
    BY <1>10 DEF OSJoinThread, SameFiber, Calls, InGuestCode
  <2>2. CASE state[t] = "MORIBUND"
    <3>1. UNCHANGED stack /\ stack[host] \in Seq(F)
      BY <1>0, <1>10, <2>1, <2>2 DEF OSJoinThread
    <3> QED
      BY <1>0, <2>1, <3>1 DEF JoinsTheLiving, F
  <2>3. CASE state[t] # "MORIBUND"
    <3> DEFINE f == Fr("sleep", t, NoThread, 0)
               j == Fr("joined", NoQueue, t, 0)
    <3>1. Goto(<<f, j>>) /\ UNCHANGED state
      BY <1>10, <2>3 DEF OSJoinThread
    <3>2. stack'[host] = <<f, j>> /\ \A x \in Threads \ {host} : stack'[x] = stack[x]
      BY <3>1, GotoHere
    <3>3. f.op = "sleep" /\ f.q = t
      BY DEF Fr
    <3>4. j \in F
      BY <1>0, TameForms DEF F
    <3> HIDE DEF f, j
    <3>5. Head(<<f, j>>) = f /\ Tail(<<f, j>>) = <<j>> /\ <<j>> \in Seq(F) /\ <<f, j>> # <<>>
      BY <3>4
    <3>6. At("sleep")' /\ Top'.q = t /\ Rest' \in Seq(F)
      BY <2>1, <3>2, <3>3, <3>5 DEF At, Top, Rest
    <3>7. ~ Terminated(t)'
      BY <2>1, <2>3, <3>1 DEF Terminated
    <3>8. Top'.q \in Threads /\ ~ Terminated(Top.q)'
      BY <3>6, <3>7 DEF Terminated
    <3> QED
      BY <1>0, <2>1, <3>2, <3>6, <3>8 DEF JoinsTheLiving, F
  <2> QED
    BY <2>2, <2>3
<1>11. CASE SelectBegins \/ IdleEnds
  <2>1. UNCHANGED host /\ ~ At("sleep") /\ stack[host] # <<>>
    BY <1>11 DEF SelectBegins, IdleEnds, SameFiber, At
  <2>2. \E f \in {Fr("pick", NoQueue, NoThread, 0), Fr("idle", NoQueue, NoThread, 0)} : Goto(<<f>> \o Rest)
    BY <1>11 DEF SelectBegins, IdleEnds
  <2>3. \A f \in {Fr("pick", NoQueue, NoThread, 0), Fr("idle", NoQueue, NoThread, 0)} : f \in F
    BY <1>0, TameForms DEF F
  <2>4. Rest \in Seq(F)
    BY <1>5, <2>1, TopOf
  <2> QED
    BY <1>0, <1>3, <2>1, <2>2, <2>3, <2>4, PushOn, PushesGoto
<1>12. CASE Pick
  <2> DEFINE x == Head(queue[Least(pending)])
  <2>1. x \in Threads /\ Dispatch(Least(pending))
    BY <1>0, <1>12, PickDispatches
  <2>2. SwitchTo(x)
    BY <2>1 DEF Dispatch
  <2> HIDE DEF x
  <2>3. ~ At("sleep") /\ stack[host] # <<>>
    BY <1>12 DEF Pick, At
  <2>4. Rest \in Seq(F)
    BY <1>5, <2>3, TopOf
  <2>5. host' = x /\ (Goto(Rest) \/ Goto(<<>>))
    BY <2>2, Zenon DEF SwitchTo
  <2>6. stack'[host] \in Seq(F) /\ \A t \in Threads \ {host} : stack'[t] = stack[t]
    BY <1>0, <2>4, <2>5, GotoHere
  <2>7. \A t \in Threads : stack'[t] \in Seq(F)
    BY <1>0, <2>6
  <2> QED
    BY <2>1, <2>5, <2>7 DEF JoinsTheLiving, F
<1>13. CASE FiberEndStep
  BY <1>0, <1>13, TopCases DEF FiberEndStep, At
<1>14. CASE UNCHANGED vars
  BY <1>0, <1>14 DEF vars, fiber, thread, JoinsTheLiving, At, Top, Rest, Terminated, Ending, Releases, Uncontended, sched
<1> QED
  BY <1>6, <1>7, <1>8, <1>9, <1>10, <1>11, <1>12, <1>13, <1>14 DEF Next, FrameStep

\* A thread ends in OSExitThread and OSCancelThread only, or as its fiber returns.
LEMMA NobodyEnds ==
    ASSUME IInv, [Next]_vars, ~ OSExitThread, \A t \in Threads : ~ OSCancelThread(t), ~ FiberReturns,
           NEW t \in Threads, Terminated(t)'
    PROVE  Terminated(t)
<1> SUFFICES ASSUME state'[t] \in {"NONE", "MORIBUND"}, state[t] \notin {"NONE", "MORIBUND"} PROVE FALSE
  BY DEF Terminated
<1>0. state \in [Threads -> States] /\ host \in Threads
  BY DEF IInv, TypeOK, ThreadsTypeOK, FibersTypeOK
<1>1. ASSUME UNCHANGED state PROVE FALSE
  BY <1>1
<1>2. ASSUME NEW x, NEW s, s \notin {"NONE", "MORIBUND"}, state' = [state EXCEPT ![x] = s] PROVE FALSE
  BY <1>0, <1>2
<1>3. ASSUME NEW x, state[x] = "MORIBUND", Collect(x) PROVE FALSE
  BY <1>0, <1>3 DEF Collect
<1>4. ASSUME NEW x, NEW rest, ResumeThread(x, rest) \/ SuspendThread(x, rest) PROVE FALSE
  <2>1. UNCHANGED state \/ state' = [state EXCEPT ![x] = "READY"]
    BY <1>4 DEF ResumeThread, SuspendThread
  <2> QED
    BY <1>1, <1>2, <2>1
<1>5. CASE \/ SelectRefused \/ (\E q \in Queues : IdleCallback(q)) \/ IdleEnds \/ ReschedStep
           \/ PromoteStep \/ PropagateStep \/ LockStep \/ WakeEnds \/ UnlockAllStep \/ ExitedStep
           \/ EndDeferredStep \/ FiberEndStep
           \/ OSThreadCall \/ (\E m \in Mutexes : OSLockMutex(m) \/ OSUnlockMutex(m))
           \/ OSDisableScheduler \/ OSEnableScheduler
           \/ (\E q \in Queues, n \in 0 .. 1 : DeferredCallback(q, n))
           \/ UNCHANGED vars
  <2>1. UNCHANGED state
    BY <1>5 DEF SelectRefused, IdleCallback, IdleEnds, ReschedStep, PromoteStep, PropagateStep, LockStep,
                WakeEnds, UnlockAllStep, ExitedStep, EndDeferredStep, FiberEndStep, OSThreadCall,
                OSLockMutex, OSUnlockMutex, OSDisableScheduler, OSEnableScheduler, DeferredCallback,
                thread, vars
  <2> QED
    BY <1>1, <2>1
<1>6. CASE SelectBegins \/ SleepStep \/ SleptStep \/ WakeStep \/ TickedStep
  <2>1. \/ UNCHANGED state
        \/ \E x : \E s \in {"READY", "WAITING", "RUNNING"} : state' = [state EXCEPT ![x] = s]
    BY <1>6 DEF SelectBegins, SleepStep, SleptStep, WakeStep, TickedStep
  <2> QED
    BY <1>1, <1>2, <2>1
<1>7. CASE Pick
  <2>1. \/ UNCHANGED state
        \/ \E x : state' = [state EXCEPT ![x] = "RUNNING"]
    BY <1>7, Zenon DEF Pick, Dispatch
  <2> QED
    BY <1>1, <1>2, <2>1
<1>8. CASE JoinedStep \/ \E x \in Threads : OSJoinThread(x) \/ OSDetachThread(x)
  <2>1. UNCHANGED state \/ \E x : state[x] = "MORIBUND" /\ Collect(x)
    BY <1>8 DEF JoinedStep, OSJoinThread, OSDetachThread
  <2> QED
    BY <1>1, <1>3, <2>1
<1>9. CASE \E x \in Threads : SleepTimerFires(x) \/ OSResumeThread(x) \/ OSSuspendThread(x)
  BY <1>1, <1>4, <1>9 DEF SleepTimerFires, OSResumeThread, OSSuspendThread
<1>10. CASE OSSleepTicks
  BY <1>4, <1>10 DEF OSSleepTicks
<1>11. CASE \E x \in Threads, d \in BOOLEAN : OSCreateThread(x, d)
  BY <1>2, <1>11 DEF OSCreateThread
<1> QED
  BY <1>5, <1>6, <1>7, <1>8, <1>9, <1>10, <1>11 DEF Next, FrameStep, GuestCall

\* What the guest may do is settled at the start.
LEMMA GuestStays == ASSUME [Next]_vars PROVE guest' = guest
<1>1. CASE FrameStep
  BY <1>1
     DEF FrameStep, SleepTimerFires, SelectRefused, SelectBegins, IdleCallback,
         IdleEnds, Pick, ReschedStep, PromoteStep, PropagateStep, SleepStep, SleptStep, LockStep,
         WakeStep, WakeEnds, UnlockAllStep, ExitedStep, JoinedStep, TickedStep, EndDeferredStep,
         FiberEndStep
<1>2. CASE GuestCall
  BY <1>2
     DEF GuestCall, OSCreateThread, OSResumeThread, OSSuspendThread, OSSleepTicks, OSThreadCall,
         OSLockMutex, OSUnlockMutex, OSExitThread, OSCancelThread, TerminateThread, OSJoinThread,
         OSDetachThread, OSDisableScheduler, OSEnableScheduler, DeferredCallback, FiberReturns
<1> QED
  BY <1>1, <1>2 DEF Next, vars

\* A guest without OSLockMutex never gets to own a mutex.
LEMMA OwnsNothingStep ==
    ASSUME GuestsKeepTheRules, IInv, SafeInv, JoinsTheLiving(guest), OwnsNothing, [Next]_vars
    PROVE  OwnsNothing'
<1> SUFFICES ASSUME "lock" \notin guest
             PROVE  \A t \in Threads : owned'[t] = <<>>
  BY GuestStays DEF OwnsNothing
<1>0. \A t \in Threads : owned[t] = <<>>
  BY DEF OwnsNothing
<1>1. ASSUME NEW x, owned' = [owned EXCEPT ![x] = <<>>] PROVE owned' = owned
  BY <1>0, <1>1 DEF IInv, TypeOK, ThreadsTypeOK
<1>2. ~ LockStep
  <2>1. ASSUME LockStep PROVE Top \in Tame(guest) /\ Top.op = "lock"
    <3>1. stack[host] # <<>> /\ Top.op = "lock"
      BY <2>1 DEF LockStep, At
    <3>2. \A t \in Threads : ~ Ending(t, guest)
      <4>1. PICK g : g = guest
        OBVIOUS
      <4> QED
        BY <3>1, <4>1, EndingTop
    <3>3. stack[host] \in Seq(Tame(guest))
      BY <3>1, <3>2 DEF JoinsTheLiving, At
    <3> QED
      BY <3>1, <3>3, TopOf
  <2> QED
    BY <2>1 DEF Tame
<1>3. CASE UnlockAllStep
  <2>1. Top.t \in Threads
    BY <1>3, TopType DEF UnlockAllStep, Frame
  <2> QED
    BY <1>0, <1>3, <2>1 DEF UnlockAllStep
<1>4. ASSUME NEW m \in Mutexes, OSUnlockMutex(m) PROVE \A t \in Threads : owned'[t] = <<>>
  <2>1. \/ UNCHANGED owned
        \/ running \in Threads /\ owned' = [owned EXCEPT ![running] = Unlink(owned[running], m)]
    BY <1>4 DEF OSUnlockMutex, IInv, TypeOK, SchedulerTypeOK
  <2>2. running \in Threads => Unlink(owned[running], m) = <<>>
    BY <1>0, UnlinkEmpty
  <2> QED
    BY <1>0, <1>1, <2>1, <2>2
<1>5. CASE \E t \in Threads, d \in BOOLEAN : OSCreateThread(t, d)
  BY <1>0, <1>1, <1>5 DEF OSCreateThread
<1>6. CASE FrameStep /\ ~ UnlockAllStep
  <2>1. UNCHANGED owned
    BY <1>2, <1>6, Zenon
       DEF FrameStep, SleepTimerFires, SelectRefused, SelectBegins, IdleCallback,
           IdleEnds, Pick, ReschedStep, PromoteStep, PropagateStep, SleepStep, SleptStep,
           WakeStep, WakeEnds, ExitedStep, JoinedStep, TickedStep, EndDeferredStep,
           FiberEndStep, thread
  <2> QED
    BY <1>0, <2>1
<1>7. CASE UNCHANGED vars \/ (/\ GuestCall /\ \A t \in Threads, d \in BOOLEAN : ~ OSCreateThread(t, d)
                             /\ \A m \in Mutexes : ~ OSUnlockMutex(m))
  <2>1. UNCHANGED owned
    BY <1>7, Zenon
       DEF GuestCall, OSResumeThread, OSSuspendThread, OSSleepTicks, OSThreadCall,
           OSLockMutex, OSExitThread, OSCancelThread, TerminateThread, OSJoinThread,
           OSDetachThread, OSDisableScheduler, OSEnableScheduler, DeferredCallback, FiberReturns,
           vars, thread
  <2> QED
    BY <1>0, <2>1
<1> QED
  BY <1>0, <1>3, <1>4, <1>5, <1>6, <1>7 DEF Next, GuestCall

\* The clean-up of a thread that has ended goes on until nobody waits to join it.
LEMMA CleaningUp ==
    ASSUME IInv, [Next]_vars, NEW t \in Threads, CleansUp(t)
    PROVE  queue'[t] = <<>> \/ CleansUp(t)'
<1>0. /\ stack[host] # <<>> /\ Top.op \in {"wake", "wakeResched"} /\ Top.q = t
      /\ host \in Threads /\ Top \in Frame /\ Rest \in Seq(Frame) /\ stack[host] \in Seq(Frame)
  <2>1. stack[host] # <<>> /\ Top.op \in {"wake", "wakeResched"} /\ Top.q = t
    BY DEF CleansUp
  <2> QED
    BY <2>1, TopType DEF At
<1>1. CASE WakeStep
  <2> DEFINE f == [Top EXCEPT !.op = Readied(@)]
  <2>1. UNCHANGED host /\ (Goto(<<f>> \o Rest) \/ Goto(stack[host]))
    BY <1>1 DEF WakeStep, SameFiber
  <2>2. f.q = t /\ f.op \in {"wake", "wakeResched"}
    BY <1>0 DEF Frame, Readied
  <2> HIDE DEF f
  <2>3. Head(<<f>> \o Rest) = f /\ <<f>> \o Rest # <<>>
    BY <1>0, HeadTailOfPush
  <2>4. stack'[host] = <<f>> \o Rest \/ stack'[host] = stack[host]
    BY <1>0, <2>1, GotoHere
  <2> QED
    BY <1>0, <2>1, <2>2, <2>3, <2>4 DEF CleansUp, Top, Rest
<1>2. CASE WakeEnds
  BY <1>2 DEF WakeEnds, At, CleansUp, sched
<1>3. CASE UNCHANGED vars
  BY <1>3 DEF vars, fiber, thread, CleansUp, Top, Rest
<1>4. CASE FrameStep /\ ~ WakeStep /\ ~ WakeEnds
  BY <1>0, <1>4
     DEF FrameStep, SleepTimerFires, Polling, SelectRefused, SelectBegins, IdleCallback,
         IdleEnds, Pick, ReschedStep, PromoteStep, PropagateStep, SleepStep, SleptStep, LockStep,
         UnlockAllStep, ExitedStep, JoinedStep, TickedStep, EndDeferredStep, FiberEndStep, At
<1>5. ~ GuestCall
  BY <1>0
     DEF GuestCall, OSCreateThread, OSResumeThread, OSSuspendThread, OSSleepTicks, OSThreadCall, CallHandler,
         OSLockMutex, OSUnlockMutex, OSExitThread, OSCancelThread, OSJoinThread,
         OSDetachThread, OSDisableScheduler, OSEnableScheduler, DeferredCallback, FiberReturns,
         Calls, InGuestCode
<1> QED
  BY <1>1, <1>2, <1>3, <1>4, <1>5 DEF Next

\* Nobody joins a thread that has ended.
LEMMA NobodyJoinsTheDead ==
    ASSUME IInv, NEW g, JoinsTheLiving(g), NEW t \in Threads, Terminated(t)
    PROVE  ~ (At("sleep") /\ Top.q = t)
<1> SUFFICES ASSUME At("sleep"), Top.q = t PROVE FALSE
  OBVIOUS
<1>1. stack[host] \notin Seq(Tame(g))
  <2> SUFFICES ASSUME stack[host] \in Seq(Tame(g)) PROVE FALSE
    OBVIOUS
  <2>1. Top \in Tame(g) /\ Top.op = "sleep"
    BY TopOf DEF At
  <2> QED
    BY <2>1 DEF Tame
<1>2. ASSUME NEW x \in Threads, Ending(x, g) PROVE FALSE
  BY <1>2, EndingTop DEF At
<1> QED
  BY <1>1, <1>2 DEF JoinsTheLiving

\* Every step keeps all of it, for guests that keep the rules, if nobody ends whose
\* mutexes another waits for.
LEMMA PlacedStep ==
    ASSUME GuestsKeepTheRules, IInv, SafeInv, PlacedInv, [Next]_vars, EndsUncontended \/ UNCHANGED vars
    PROVE  PlacedInv'
<1>0. /\ QueuesInv /\ HostInv /\ guest \in Guests
      /\ Placed /\ JoinersLeft /\ JoinsTheLiving(guest) /\ OwnsNothing
  BY DEF SafeInv, HostInv, PlacedInv
<1>1. guest' = guest
  BY GuestStays
<1>2. JoinsTheLiving(guest)'
  <2>1. PICK g : g = guest
    OBVIOUS
  <2>2. JoinsTheLiving(g)
    BY <1>0, <2>1
  <2>3. JoinsTheLiving(g)'
    BY <2>1, <2>2, JoinsStep
  <2> QED
    BY <1>1, <2>1, <2>3
<1>3. OwnsNothing'
  BY <1>0, OwnsNothingStep
<1>4. NoLateJoiner
  <2>1. ASSUME InGuestCode, NEW t \in Threads, Ending(t, guest) PROVE FALSE
    BY <2>1, EndingTop DEF InGuestCode
  <2> QED
    BY <1>0, <2>1 DEF NoLateJoiner, JoinersLeft, CleansUp, InGuestCode
<1>5. Placed' /\ EmptyStays
  BY <1>0, <1>4, NextLists DEF PlacedStays
<1>6. ASSUME NEW t \in Threads, Terminated(t), queue[t] = <<>> PROVE queue'[t] = <<>>
  BY <1>0, <1>5, <1>6, NobodyJoinsTheDead, QueueIdsFacts DEF EmptyStays
<1>7. ASSUME NEW t \in Threads, Terminated(t) PROVE queue'[t] = <<>> \/ CleansUp(t)' \/ Ending(t, guest)'
  <2>1. CASE queue[t] = <<>>
    BY <1>6, <1>7, <2>1
  <2>2. CASE CleansUp(t)
    BY <2>2, CleaningUp
  <2>3. CASE Ending(t, guest)
    <3>1. PICK g : g = guest
      OBVIOUS
    <3>2. Ending(t, g)' \/ CleansUp(t)'
      BY <2>3, <3>1, EndingStep
    <3> QED
      BY <1>1, <3>1, <3>2
  <2> QED
    BY <1>0, <1>7, <2>1, <2>2, <2>3 DEF JoinersLeft
<1>8. ~ FiberReturns
  BY <1>0 DEF FiberReturns, Calls, GuestsKeepTheRules
<1>9. CASE ~ OSExitThread /\ \A t \in Threads : ~ OSCancelThread(t)
  <2>1. JoinersLeft'
    BY <1>7, <1>8, <1>9, NobodyEnds DEF JoinersLeft
  <2> QED
    BY <1>2, <1>3, <1>5, <2>1 DEF PlacedInv
<1>10. CASE UNCHANGED vars
  <2>1. JoinersLeft'
    BY <1>7, <1>10 DEF JoinersLeft, vars, thread, Terminated
  <2> QED
    BY <1>2, <1>3, <1>5, <2>1 DEF PlacedInv
<1>11. CASE EndsUncontended /\ (OSExitThread \/ \E t \in Threads : OSCancelThread(t))
  <2>1. PICK g : g = guest
    OBVIOUS
  <2>2. PICK t \in Threads, f \in Tame(g) : TerminateThread(t, <<f>>) /\ Ending(t, g)'
    BY <1>0, <1>11, <2>1, CallsEnd
  <2>3. ASSUME NEW x \in Threads, Terminated(x)'
        PROVE  queue'[x] = <<>> \/ CleansUp(x)' \/ Ending(x, guest)'
    <3>1. x # t => Terminated(x)
      BY <2>2, <2>3 DEF TerminateThread, Terminated, IInv, TypeOK, ThreadsTypeOK
    <3>2. Ending(t, guest)'
      BY <1>1, <2>1, <2>2
    <3> QED
      BY <1>7, <3>1, <3>2
  <2>4. JoinersLeft'
    BY <2>3 DEF JoinersLeft
  <2> QED
    BY <1>2, <1>3, <1>5, <2>4 DEF PlacedInv
<1> QED
  BY <1>9, <1>10, <1>11

\* A park is armed together with its timer, and both go together.
LEMMA ParksStep == ASSUME IInv, NoStrandedPark, [Next]_vars PROVE NoStrandedPark'
<1>1. \/ UNCHANGED sleep
      \/ \E t \in Threads : Unpark(t)
      \/ timers' = timers \cup {Sleeper} /\ parks' = parks \cup {Sleeper}
  <2>1. CASE FrameStep /\ ~ TickedStep
    BY <2>1 DEF FrameStep, SleepTimerFires, SelectRefused, SelectBegins, IdleCallback, IdleEnds, Pick, ReschedStep,
                PromoteStep, PropagateStep, SleepStep, SleptStep, LockStep, WakeStep, WakeEnds, UnlockAllStep,
                ExitedStep, JoinedStep, EndDeferredStep, FiberEndStep
  <2>2. CASE TickedStep
    BY <2>2, TopType DEF TickedStep, Frame
  <2>3. CASE GuestCall
    BY <2>3 DEF GuestCall, OSCreateThread, OSResumeThread, OSSuspendThread, OSSleepTicks, OSThreadCall, OSLockMutex,
                OSUnlockMutex, OSExitThread, OSCancelThread, OSJoinThread, OSDetachThread,
                OSDisableScheduler, OSEnableScheduler, DeferredCallback, FiberReturns
  <2>4. CASE UNCHANGED vars
    BY <2>4 DEF vars
  <2> QED
    BY <2>1, <2>2, <2>3, <2>4 DEF Next
<1> QED
  BY <1>1 DEF NoStrandedPark, Unpark, sleep

\* OSThreadInit: nobody waits, nobody has ended while others joined.
LEMMA InitPlaced == ASSUME Init PROVE PlacedInv
<1>0. /\ Main \in Threads /\ Threads \subseteq QueueIds
      /\ \A t \in Threads : state[t] \in {"RUNNING", "NONE"} /\ stack[t] = <<>> /\ owned[t] = <<>>
      /\ \A q \in QueueIds : queue[q] = <<>>
      /\ host \in Threads
  BY ConstantsAssumption, QueueIdsFacts DEF Init
<1>1. Placed
  BY <1>0 DEF Placed
<1>2. JoinersLeft
  BY <1>0 DEF JoinersLeft
<1>3. JoinsTheLiving(guest)
  BY <1>0, EmptySeq DEF JoinsTheLiving
<1> QED
  BY <1>0, <1>1, <1>2, <1>3 DEF PlacedInv, OwnsNothing

\* The invariant by which no thread is lost, while nobody ends whose mutexes another
\* waits for.
LEMMA UncontendedPlaced ==
    ASSUME GuestsKeepTheRules
    PROVE  Spec /\ [][EndsUncontended]_vars => []PlacedInv
<1>1. Init => PlacedInv
  BY InitPlaced
<1>2. IInv /\ SafeInv /\ PlacedInv /\ [Next]_vars /\ [EndsUncontended]_vars => PlacedInv'
  BY PlacedStep
<1> QED
  BY <1>1, <1>2, SafeInvariant, InductiveInvariant, PTL DEF Spec

\* Between two calls of the guest, and while SelectThread idles, every thread is where
\* somebody will look for it: on the run queue of its priority if it may run, on the
\* queue it waits on, or off all queues with its own resume to wait for.  No call of
\* OSSuspendThread, OSResumeThread, a timer, a wakeup, an inheritance of priority, a
\* cancellation or the reuse of a structure takes a thread off its queue for good.
THEOREM NoThreadIsLost ==
    ASSUME GuestsKeepTheRules
    PROVE  Spec /\ [][EndsUncontended]_vars => []NoLostThread
<1>1. Init => NoStrandedPark
  BY DEF Init, NoStrandedPark
<1>2. IInv /\ NoStrandedPark /\ [Next]_vars => NoStrandedPark'
  BY ParksStep
<1>3. IInv /\ SafeInv /\ PlacedInv /\ NoStrandedPark => NoLostThread
  <2> SUFFICES ASSUME IInv, QueuesInv, Placed, NoStrandedPark, NEW t \in Threads
               PROVE  /\ state[t] = "READY" /\ suspend[t] = 0 => Linked(queue[prio[t]], t)
                      /\ state[t] = "WAITING" => link[t] \in WaitQueues /\ Linked(queue[link[t]], t)
                      /\ state[t] \in {"NONE", "MORIBUND", "RUNNING"} \/ (state[t] = "READY" /\ suspend[t] > 0)
                            => \A q \in QueueIds : ~ Linked(queue[q], t)
    BY DEF SafeInv, PlacedInv, NoLostThread
  <2>1. state[t] = "WAITING" => link[t] \in WaitQueues
    BY DEF QueuesInv, Shelved
  <2>2. state[t] \notin {"WAITING", "READY"} \/ (state[t] = "READY" /\ suspend[t] > 0) => Nowhere(queue, t)
    BY QueuesFacts
  <2> QED
    BY <2>1, <2>2 DEF Placed, Nowhere
<1> QED
  BY <1>1, <1>2, <1>3, SafeInvariant, UncontendedPlaced, InductiveInvariant, PTL DEF Spec

-----------------------------------------------------------------------------
(***************************************************************************)
(* Mutexes: who owns one, who is inside its critical section.              *)
(***************************************************************************)

\* The list of the mutexes a thread owns, and the owner that each of them names.
OwnersListed ==
    \A t \in Threads : /\ NoDup(owned[t])
                       /\ \A m \in Mutexes : Linked(owned[t], m) <=> owner[m] = t

\* The owner of a mutex is inside its critical section, and nobody else is.
HoldersOwn == \A m \in Mutexes : holds[m] = {owner[m]} \ {NoThread}

OwnersLive == \A m \in Mutexes : owner[m] # NoThread => ~ Terminated(owner[m])

MutexInv == OwnersListed /\ HoldersOwn /\ OwnersLive

\* Where no thread ends and no owner changes, all stays.
LEMMA MutexStays ==
    ASSUME IInv, MutexInv, UNCHANGED <<owned, owner, holds>>,
           \A t \in Threads : Terminated(t)' => Terminated(t)
    PROVE  MutexInv' /\ [Critical!Next]_holds
<1>1. \A m \in Mutexes : owner[m] \in Threads \cup {NoThread}
  BY DEF IInv, TypeOK, MutexesTypeOK
<1>2. OwnersListed'
  BY Zenon DEF MutexInv, OwnersListed
<1>3. HoldersOwn'
  BY DEF MutexInv, HoldersOwn
<1>4. OwnersLive'
  BY <1>1 DEF MutexInv, OwnersLive
<1> QED
  BY <1>2, <1>3, <1>4 DEF MutexInv

\* A thread without mutexes is the owner of none.
LEMMA OwnerOfNone ==
    ASSUME MutexInv, NEW t \in Threads
    PROVE  owned[t] = <<>> => \A m \in Mutexes : owner[m] # t
<1>1. \A m \in Mutexes : Linked(owned[t], m) <=> owner[m] = t
  BY Zenon DEF MutexInv, OwnersListed
<1>2. \A m : ~ Linked(<<>>, m)
  BY LinkedFacts
<1> QED
  BY <1>1, <1>2, Zenon

\* OSLockMutex: a free mutex is entered, one's own is entered again.
LEMMA LockMutexes ==
    ASSUME IInv, HostInv, MutexInv, LockStep
    PROVE  MutexInv' /\ [Critical!Next]_holds
<1> DEFINE m == Top.q
<1>0. /\ host \in Threads /\ host # NoThread /\ ~ Terminated(host)
      /\ Top.t = host /\ m \in Mutexes
      /\ owner \in [Mutexes -> Threads \cup {NoThread}] /\ owned \in [Threads -> Seq(Mutexes)]
      /\ holds \in [Mutexes -> SUBSET Threads]
  <2>1. stack[host] # <<>> /\ Top.op = "lock"
    BY DEF LockStep, At
  <2>2. host \in Threads /\ Top \in Frame /\ Runs /\ Top \in Quiet(host)
    BY <2>1, TopCases, TopRuns
  <2>3. ~ Terminated(host) /\ host # NoThread
    BY <2>2, AddressesAssumption DEF Runs, Terminated
  <2>4. Top.t = host /\ m \in Mutexes
    BY <2>1, <2>2 DEF Quiet, Frame
  <2> QED
    BY <2>2, <2>3, <2>4 DEF IInv, TypeOK, MutexesTypeOK, ThreadsTypeOK
<1>1. UNCHANGED state /\ \A t \in Threads : Terminated(t)' => Terminated(t)
  BY DEF LockStep, Terminated
<1> HIDE DEF m
<1>2. CASE owner[m] = NoThread
  <2>1. /\ owner' = [owner EXCEPT ![m] = host]
        /\ owned' = [owned EXCEPT ![host] = Append(@, m)]
        /\ holds' = [holds EXCEPT ![m] = @ \cup {host}]
    BY <1>0, <1>2 DEF LockStep, CanTake, m
  <2>2. holds[m] = {}
    BY <1>0, <1>2 DEF MutexInv, HoldersOwn
  <2>3. /\ owned'[host] = Append(owned[host], m) /\ owned[host] \in Seq(Mutexes)
        /\ \A t \in Threads \ {host} : owned'[t] = owned[t]
        /\ owner'[m] = host /\ \A n \in Mutexes \ {m} : owner'[n] = owner[n]
    BY <1>0, <2>1
  <2>4. ~ Linked(owned[host], m)
    BY <1>0, <1>2, Zenon DEF MutexInv, OwnersListed
  <2>5. /\ NoDup(owned'[host])
        /\ \A x : Linked(owned'[host], x) <=> Linked(owned[host], x) \/ x = m
    <3>1. NoDup(owned[host])
      BY <1>0 DEF MutexInv, OwnersListed
    <3>2. /\ NoDup(Append(owned[host], m))
          /\ \A x : Linked(Append(owned[host], m), x) <=> Linked(owned[host], x) \/ x = m
      BY <1>0, <2>3, <2>4, <3>1, AppendKeeps
    <3> QED
      BY <2>3, <3>2, Zenon
  <2>6. OwnersListed'
    <3>1. \A n \in Mutexes : Linked(owned'[host], n) <=> owner'[n] = host
      BY <1>0, <2>3, <2>5, Zenon DEF MutexInv, OwnersListed
    <3>2. ASSUME NEW t \in Threads \ {host}
          PROVE  NoDup(owned'[t]) /\ \A n \in Mutexes : Linked(owned'[t], n) <=> owner'[n] = t
      <4>1. t \in Threads /\ t # host /\ t # NoThread /\ owned'[t] = owned[t]
        BY <2>3, <3>2, AddressesAssumption
      <4>2. NoDup(owned[t]) /\ \A n \in Mutexes : Linked(owned[t], n) <=> owner[n] = t
        BY <4>1, Zenon DEF MutexInv, OwnersListed
      <4>3. \A n \in Mutexes : owner'[n] = t <=> owner[n] = t
        BY <1>0, <1>2, <2>3, <4>1
      <4> QED
        BY <4>1, <4>2, <4>3, Zenon
    <3> QED
      BY <2>5, <3>1, <3>2, Zenon DEF OwnersListed
  <2>7. HoldersOwn'
    BY <1>0, <2>1, <2>2, <2>3 DEF MutexInv, HoldersOwn
  <2>8. OwnersLive'
    BY <1>0, <1>1, <2>3 DEF MutexInv, OwnersLive, Terminated
  <2>9. Critical!Enter(host, m)
    BY <1>0, <2>1, <2>2 DEF Critical!Enter
  <2> QED
    BY <1>0, <2>6, <2>7, <2>8, <2>9 DEF MutexInv, Critical!Next
<1>3. CASE owner[m] = host
  <2>1. UNCHANGED owned /\ owner' = [owner EXCEPT ![m] = host] /\ holds' = [holds EXCEPT ![m] = @ \cup {host}]
    BY <1>0, <1>3 DEF LockStep, CanTake, m
  <2>2. holds[m] = {host}
    BY <1>0, <1>3 DEF MutexInv, HoldersOwn
  <2> QED
    BY <1>0, <1>1, <1>3, <2>1, <2>2, MutexStays
<1>4. CASE owner[m] \notin {NoThread, host}
  <2>1. UNCHANGED <<owned, owner, holds>>
    BY <1>0, <1>4 DEF LockStep, CanTake, m
  <2> QED
    BY <1>1, <2>1, MutexStays
<1> QED
  BY <1>2, <1>3, <1>4

\* OSUnlockMutex: the thread that is inside leaves, or one level of its locks.
LEMMA UnlockMutexes ==
    ASSUME IInv, HostInv, MutexInv, NEW m \in Mutexes, OSUnlockMutex(m)
    PROVE  MutexInv' /\ [Critical!Next]_holds
<1>0. /\ host \in Threads /\ host # NoThread /\ running = host /\ owner[m] = host
      /\ owner \in [Mutexes -> Threads \cup {NoThread}] /\ owned \in [Threads -> Seq(Mutexes)]
      /\ holds \in [Mutexes -> SUBSET Threads]
  <2>1. Runs /\ host \in Threads /\ host \in holds[m]
    BY GuestRuns DEF OSUnlockMutex, Calls
  <2>2. owner[m] = host
    BY <2>1 DEF MutexInv, HoldersOwn
  <2> QED
    BY <2>1, <2>2, AddressesAssumption DEF Runs, IInv, TypeOK, MutexesTypeOK, ThreadsTypeOK
<1>1. UNCHANGED state /\ \A t \in Threads : Terminated(t)' => Terminated(t)
  BY DEF OSUnlockMutex, Terminated
<1>2. CASE count[m] # 1
  <2>1. UNCHANGED <<owned, owner, holds>>
    BY <1>0, <1>2 DEF OSUnlockMutex
  <2> QED
    BY <1>1, <2>1, MutexStays
<1>3. CASE count[m] = 1
  <2>1. /\ owner' = [owner EXCEPT ![m] = NoThread]
        /\ owned' = [owned EXCEPT ![host] = Unlink(owned[host], m)]
        /\ holds' = [holds EXCEPT ![m] = @ \ {host}]
    BY <1>0, <1>3 DEF OSUnlockMutex
  <2>2. holds[m] = {host}
    BY <1>0 DEF MutexInv, HoldersOwn
  <2>3. /\ owned'[host] = Unlink(owned[host], m) /\ owned[host] \in Seq(Mutexes)
        /\ \A t \in Threads \ {host} : owned'[t] = owned[t]
        /\ owner'[m] = NoThread /\ \A n \in Mutexes \ {m} : owner'[n] = owner[n]
    BY <1>0, <2>1
  <2>4. /\ NoDup(owned'[host])
        /\ \A x : Linked(owned'[host], x) <=> Linked(owned[host], x) /\ x # m
    <3>1. Linked(owned[host], m) /\ NoDup(owned[host])
      BY <1>0, Zenon DEF MutexInv, OwnersListed
    <3>2. Without(owned'[host], owned[host], m)
      BY <2>3, <3>1, UnlinkPlaces
    <3> QED
      BY <2>3, <3>1, <3>2, WithoutKeeps
  <2>5. OwnersListed'
    <3>1. \A n \in Mutexes : Linked(owned'[host], n) <=> owner'[n] = host
      BY <1>0, <2>3, <2>4, Zenon DEF MutexInv, OwnersListed
    <3>2. ASSUME NEW t \in Threads \ {host}
          PROVE  NoDup(owned'[t]) /\ \A n \in Mutexes : Linked(owned'[t], n) <=> owner'[n] = t
      <4>1. t \in Threads /\ t # host /\ t # NoThread /\ owned'[t] = owned[t]
        BY <2>3, <3>2, AddressesAssumption
      <4>2. NoDup(owned[t]) /\ \A n \in Mutexes : Linked(owned[t], n) <=> owner[n] = t
        BY <4>1, Zenon DEF MutexInv, OwnersListed
      <4>3. \A n \in Mutexes : owner'[n] = t <=> owner[n] = t
        BY <1>0, <2>3, <4>1
      <4> QED
        BY <4>1, <4>2, <4>3, Zenon
    <3> QED
      BY <2>4, <3>1, <3>2, Zenon DEF OwnersListed
  <2>6. HoldersOwn'
    BY <1>0, <2>1, <2>2, <2>3 DEF MutexInv, HoldersOwn
  <2>7. OwnersLive'
    BY <1>0, <1>1, <2>3 DEF MutexInv, OwnersLive, Terminated
  <2>8. Critical!Leave(host, m)
    BY <1>0, <2>1, <2>2 DEF Critical!Leave
  <2> QED
    BY <1>0, <2>5, <2>6, <2>7, <2>8 DEF MutexInv, Critical!Next
<1> QED
  BY <1>2, <1>3

\* While the mutexes of t are released, which has ended, t is still the owner of some,
\* and inside the critical section of none.
ReleasingInv(t) ==
    /\ Ending(t, guest) /\ OwnersListed
    /\ \A m \in Mutexes : /\ holds[m] = {owner[m]} \ {NoThread, t}
                          /\ owner[m] \notin {NoThread, t} => ~ Terminated(owner[m])

\* The layer of the mutexes.
OwnersInv == MutexInv \/ \E t \in Threads : ReleasingInv(t)

\* A thread that ends leaves all its critical sections at once.
LEMMA EndMutexes ==
    ASSUME IInv, MutexInv, NEW t \in Threads, NEW rest, TerminateThread(t, rest),
           UNCHANGED <<owned, owner>>, Ending(t, guest)'
    PROVE  ReleasingInv(t)' /\ [Critical!Next]_holds
<1>1. /\ holds' = [m \in Mutexes |-> holds[m] \ {t}]
      /\ state' = [state EXCEPT ![t] = IF detached[t] THEN "NONE" ELSE "MORIBUND"]
      /\ state \in [Threads -> States]
      /\ \A m \in Mutexes : owner[m] \in Threads \cup {NoThread}
  BY DEF TerminateThread, IInv, TypeOK, ThreadsTypeOK, MutexesTypeOK
<1>2. OwnersListed'
  BY Zenon DEF MutexInv, OwnersListed
<1>3. \A m \in Mutexes : /\ holds'[m] = {owner[m]} \ {NoThread, t}
                         /\ owner[m] \notin {NoThread, t} => ~ Terminated(owner[m])'
  BY <1>1 DEF MutexInv, HoldersOwn, OwnersLive, Terminated
<1>4. Critical!End(t)
  BY <1>1 DEF Critical!End
<1> QED
  BY <1>2, <1>3, <1>4 DEF ReleasingInv, Critical!Next

\* The release of a mutex takes the first off the list of its owner.
LEMMA ReleaseListed ==
    ASSUME IInv, OwnersListed, NEW t \in Threads, owned[t] # <<>>,
           owned' = [owned EXCEPT ![t] = Tail(@)], owner' = [owner EXCEPT ![Head(owned[t])] = NoThread]
    PROVE  OwnersListed' /\ Head(owned[t]) \in Mutexes /\ owner[Head(owned[t])] = t
<1> DEFINE m == Head(owned[t])
<1>0. /\ owner \in [Mutexes -> Threads \cup {NoThread}] /\ owned \in [Threads -> Seq(Mutexes)]
      /\ owned[t] \in Seq(Mutexes) /\ m \in Mutexes /\ t # NoThread
  <2>1. owned[t] \in Seq(Mutexes) /\ t # NoThread
    BY AddressesAssumption DEF IInv, TypeOK, ThreadsTypeOK
  <2>2. m \in Mutexes
    BY <2>1, HeadTailProperties
  <2> QED
    BY <2>1, <2>2 DEF IInv, TypeOK, MutexesTypeOK, ThreadsTypeOK
<1>1. NoDup(owned[t]) /\ \A n \in Mutexes : Linked(owned[t], n) <=> owner[n] = t
  BY Zenon DEF OwnersListed
<1>2. Linked(owned[t], m)
  <2>1. 1 \in 1 .. Len(owned[t]) /\ owned[t][1] = m
    BY <1>0
  <2> QED
    BY <2>1 DEF Linked
<1>3. owner[m] = t
  BY <1>0, <1>1, <1>2, Zenon
<1>4. /\ owned'[t] = Tail(owned[t]) /\ \A x \in Threads \ {t} : owned'[x] = owned[x]
      /\ owner'[m] = NoThread /\ \A n \in Mutexes \ {m} : owner'[n] = owner[n]
  BY <1>0
<1>5. /\ NoDup(Tail(owned[t]))
      /\ \A x : Linked(Tail(owned[t]), x) <=> Linked(owned[t], x) /\ x # m
  BY <1>0, <1>1, TailKeeps
<1> HIDE DEF m
<1>6. \A n \in Mutexes : Linked(owned'[t], n) <=> owner'[n] = t
  BY <1>0, <1>1, <1>4, <1>5, Zenon
<1>7. ASSUME NEW x \in Threads \ {t}
      PROVE  NoDup(owned'[x]) /\ \A n \in Mutexes : Linked(owned'[x], n) <=> owner'[n] = x
  <2>1. x \in Threads /\ x # t /\ x # NoThread /\ owned'[x] = owned[x]
    BY <1>4, <1>7, AddressesAssumption
  <2>2. NoDup(owned[x]) /\ \A n \in Mutexes : Linked(owned[x], n) <=> owner[n] = x
    BY <2>1, Zenon DEF OwnersListed
  <2>3. \A n \in Mutexes : owner'[n] = x <=> owner[n] = x
    BY <1>0, <1>3, <1>4, <2>1
  <2> QED
    BY <2>1, <2>2, <2>3, Zenon
<1>8. NoDup(owned'[t])
  BY <1>4, <1>5
<1> QED
  BY <1>0, <1>3, <1>6, <1>7, <1>8, Zenon DEF OwnersListed, m

\* The release goes on until the thread that has ended is the owner of no mutex.
LEMMA ReleaseMutexes ==
    ASSUME IInv, NEW t \in Threads, ReleasingInv(t), [Next]_vars
    PROVE  OwnersInv' /\ UNCHANGED holds
<1>0. /\ Ending(t, guest) /\ OwnersListed
      /\ \A m \in Mutexes : /\ holds[m] = {owner[m]} \ {NoThread, t}
                            /\ owner[m] \notin {NoThread, t} => ~ Terminated(owner[m])
      /\ owner \in [Mutexes -> Threads \cup {NoThread}] /\ owned \in [Threads -> Seq(Mutexes)]
      /\ t # NoThread
  BY AddressesAssumption DEF ReleasingInv, IInv, TypeOK, MutexesTypeOK, ThreadsTypeOK
<1>1. PICK g : g = guest
  OBVIOUS
<1>2. /\ UNCHANGED <<state, holds, guest>>
      /\ \/ UNCHANGED <<owned, owner>>
         \/ /\ owned[t] # <<>> /\ owned' = [owned EXCEPT ![t] = Tail(@)]
            /\ owner' = [owner EXCEPT ![Head(owned[t])] = NoThread]
      /\ Ending(t, g)' \/ owned'[t] = <<>>
  BY <1>0, <1>1, EndingStep
<1>3. OwnersListed'
  <2>1. CASE UNCHANGED <<owned, owner>>
    BY <1>0, <2>1, Zenon DEF OwnersListed
  <2> QED
    BY <1>0, <1>2, <2>1, ReleaseListed
<1>4. \A m \in Mutexes : \/ owner'[m] = owner[m]
                         \/ owner[m] = t /\ owner'[m] = NoThread
  BY <1>0, <1>2, ReleaseListed
<1>5. \A m \in Mutexes : /\ holds'[m] = {owner'[m]} \ {NoThread, t}
                         /\ owner'[m] \notin {NoThread, t} => ~ Terminated(owner[m])'
  BY <1>0, <1>2, <1>4 DEF Terminated
<1>6. CASE Ending(t, g)'
  BY <1>1, <1>2, <1>3, <1>5, <1>6 DEF ReleasingInv, OwnersInv
<1>7. CASE owned'[t] = <<>>
  <2>1. \A m \in Mutexes : owner'[m] # t
    <3>1. \A m \in Mutexes : Linked(owned'[t], m) <=> owner'[m] = t
      BY <1>3, Zenon DEF OwnersListed
    <3>2. \A m : ~ Linked(<<>>, m)
      BY LinkedFacts
    <3> QED
      BY <1>7, <3>1, <3>2, Zenon
  <2>2. HoldersOwn' /\ OwnersLive'
    BY <1>5, <2>1 DEF HoldersOwn, OwnersLive, Terminated
  <2> QED
    BY <1>2, <1>3, <2>2 DEF MutexInv, OwnersInv
<1> QED
  BY <1>2, <1>6, <1>7

\* OSCreateThread takes a structure whose thread owns nothing.
LEMMA CreateMutexes ==
    ASSUME IInv, MutexInv, NEW t \in Threads, NEW d, OSCreateThread(t, d)
    PROVE  UNCHANGED owned
<1>1. Terminated(t) /\ owned' = [owned EXCEPT ![t] = <<>>]
  BY DEF OSCreateThread, Terminated
<1>2. \A m \in Mutexes : owner[m] # t
  BY <1>1, AddressesAssumption DEF MutexInv, OwnersLive
<1>3. \A m \in Mutexes : ~ Linked(owned[t], m)
  BY <1>2, Zenon DEF MutexInv, OwnersListed
<1>4. owned \in [Threads -> Seq(Mutexes)]
  BY DEF IInv, TypeOK, ThreadsTypeOK
<1>5. owned[t] = <<>>
  BY <1>3, <1>4, LinkedFacts
<1> QED
  BY <1>1, <1>4, <1>5

\* Every step keeps the owners, and is a step of the critical sections or leaves
\* them alone.
LEMMA MutexStep ==
    ASSUME GuestsKeepTheRules, IInv, SafeInv, PlacedInv, OwnersInv, [Next]_vars,
           EndsUncontended \/ UNCHANGED vars
    PROVE  OwnersInv' /\ [Critical!Next]_holds
<1>0. /\ HostInv /\ guest \in Guests /\ JoinsTheLiving(guest)
  BY DEF SafeInv, HostInv, PlacedInv
<1>1. ASSUME NEW t \in Threads, ReleasingInv(t) PROVE OwnersInv' /\ [Critical!Next]_holds
  BY <1>1, ReleaseMutexes
<1> SUFFICES ASSUME MutexInv PROVE OwnersInv' /\ [Critical!Next]_holds
  BY <1>1 DEF OwnersInv
<1>2. CASE LockStep
  BY <1>0, <1>2, LockMutexes DEF OwnersInv
<1>3. ASSUME NEW m \in Mutexes, OSUnlockMutex(m) PROVE OwnersInv' /\ [Critical!Next]_holds
  BY <1>0, <1>3, UnlockMutexes DEF OwnersInv
<1>4. CASE EndsUncontended /\ (OSExitThread \/ \E t \in Threads : OSCancelThread(t))
  <2>1. PICK g : g = guest
    OBVIOUS
  <2>2. PICK t \in Threads, f \in Tame(g) :
           TerminateThread(t, <<f>>) /\ UNCHANGED <<owned, owner>> /\ Ending(t, g)'
    BY <1>0, <1>4, <2>1, CallsEnd
  <2>3. Ending(t, guest)'
    BY <2>1, <2>2, GuestStays
  <2> QED
    BY <2>2, <2>3, EndMutexes DEF OwnersInv
<1>5. CASE UNCHANGED vars
  BY <1>5, MutexStays DEF vars, thread, mutex, Terminated, OwnersInv
<1>6. ~ FiberReturns
  BY <1>0 DEF FiberReturns, Calls, GuestsKeepTheRules
<1>7. CASE /\ ~ LockStep /\ ~ OSExitThread
           /\ (\A m \in Mutexes : ~ OSUnlockMutex(m)) /\ (\A t \in Threads : ~ OSCancelThread(t))
  <2>1. \A t \in Threads : Terminated(t)' => Terminated(t)
    BY <1>6, <1>7, NobodyEnds
  <2>2. UNCHANGED <<owned, owner, holds>>
    <3>1. CASE UnlockAllStep
      <4>1. \E t \in Threads : Top.t = t /\ Ending(t, guest)
        BY <1>0, <3>1, TopEnds DEF UnlockAllStep
      <4>2. Top.t \in Threads /\ Terminated(Top.t)
        BY <4>1 DEF Ending
      <4>3. \A m \in Mutexes : ~ Linked(owned[Top.t], m)
        <5>1. \A m \in Mutexes : owner[m] # Top.t
          BY <4>2, AddressesAssumption DEF MutexInv, OwnersLive
        <5> QED
          BY <4>2, <5>1, Zenon DEF MutexInv, OwnersListed
      <4>4. owned[Top.t] = <<>>
        <5>1. owned[Top.t] \in Seq(Mutexes)
          BY <4>2 DEF IInv, TypeOK, ThreadsTypeOK
        <5> QED
          BY <4>3, <5>1, LinkedFacts
      <4> QED
        BY <3>1, <4>4 DEF UnlockAllStep
    <3>2. ASSUME NEW t \in Threads, NEW d \in BOOLEAN, OSCreateThread(t, d) PROVE UNCHANGED <<owned, owner, holds>>
      BY <3>2, CreateMutexes DEF OSCreateThread, mutex
    <3>3. ASSUME NEW m \in Mutexes, OSLockMutex(m) PROVE UNCHANGED <<owned, owner, holds>>
      <4>1. running # NoThread
        BY <1>0, <3>3, GuestRuns, AddressesAssumption DEF OSLockMutex, Calls, Runs
      <4> QED
        BY <3>3, <4>1 DEF OSLockMutex, thread, mutex
    <3>4. CASE UNCHANGED vars
      BY <3>4 DEF vars, thread, mutex
    <3>5. CASE FrameStep /\ ~ UnlockAllStep
      BY <1>7, <3>5, Zenon
         DEF FrameStep, SleepTimerFires, SelectRefused, SelectBegins, IdleCallback, IdleEnds, Pick, ReschedStep,
             PromoteStep, PropagateStep, SleepStep, SleptStep, WakeStep, WakeEnds, ExitedStep,
             JoinedStep, TickedStep, EndDeferredStep, FiberEndStep, thread, mutex
    <3>6. CASE GuestCall /\ (\A m \in Mutexes : ~ OSLockMutex(m))
                         /\ (\A t \in Threads, d \in BOOLEAN : ~ OSCreateThread(t, d))
      BY <1>6, <1>7, <3>6, Zenon
         DEF GuestCall, OSResumeThread, OSSuspendThread, OSSleepTicks, OSThreadCall, OSJoinThread,
             OSDetachThread, OSDisableScheduler, OSEnableScheduler, DeferredCallback, thread, mutex
    <3> QED
      BY <3>1, <3>2, <3>3, <3>4, <3>5, <3>6 DEF Next
  <2> QED
    BY <2>1, <2>2, MutexStays DEF OwnersInv
<1> QED
  BY <1>2, <1>3, <1>4, <1>5, <1>7

\* Nobody owns a mutex at first.
LEMMA InitMutexes == ASSUME Init PROVE MutexInv /\ Critical!Init
<1>1. /\ \A t \in Threads : owned[t] = <<>>
      /\ \A m \in Mutexes : owner[m] = NoThread /\ holds[m] = {}
      /\ holds = [m \in Mutexes |-> {}]
  BY DEF Init
<1>2. OwnersListed
  <2>1. NoDup(<<>>) /\ \A m : ~ Linked(<<>>, m)
    BY LinkedFacts DEF NoDup
  <2>2. \A t \in Threads : \A m \in Mutexes : owner[m] # t
    BY <1>1, AddressesAssumption
  <2> QED
    BY <1>1, <2>1, <2>2 DEF OwnersListed
<1> QED
  BY <1>1, <1>2 DEF MutexInv, HoldersOwn, OwnersLive, Critical!Init

\* The layer of the mutexes holds in every reachable state, while nobody ends whose
\* mutexes another waits for.
LEMMA UncontendedOwners ==
    ASSUME GuestsKeepTheRules
    PROVE  Spec /\ [][EndsUncontended]_vars => []OwnersInv
<1>1. Init => OwnersInv
  BY InitMutexes DEF OwnersInv
<1>2. IInv /\ SafeInv /\ PlacedInv /\ OwnersInv /\ [Next]_vars /\ [EndsUncontended]_vars => OwnersInv'
  BY MutexStep
<1> QED
  BY <1>1, <1>2, SafeInvariant, UncontendedPlaced, InductiveInvariant, PTL DEF Spec

\* In guest code no release is going on.
LEMMA NoReleaseInGuest ==
    ASSUME IInv, OwnersInv, InGuestCode
    PROVE  MutexInv
<1>1. ASSUME NEW t \in Threads, Ending(t, guest) PROVE FALSE
  BY <1>1, EndingTop DEF InGuestCode
<1> QED
  BY <1>1 DEF OwnersInv, ReleasingInv

\* A mutex counts locks exactly while it is owned, is on the list of its owner and of
\* nobody else, and its owner is alive: OSLockMutex, OSUnlockMutex, the end of a thread
\* that owns mutexes and the reuse of a thread's structure keep OSMutex.thread,
\* OSMutex.count and OSThread.queueMutex together.
THEOREM MutexesConsistent ==
    ASSUME GuestsKeepTheRules
    PROVE  Spec /\ [][EndsUncontended]_vars => []MutexConsistent
<1>1. IInv /\ OwnersInv => MutexConsistent
  <2> SUFFICES ASSUME IInv, OwnersInv PROVE MutexConsistent
    OBVIOUS
  <2>1. OwnersListed
    BY DEF OwnersInv, MutexInv, ReleasingInv
  <2>2. InGuestCode => OwnersLive
    BY NoReleaseInGuest DEF MutexInv
  <2> QED
    BY <2>1, <2>2, Zenon DEF IInv, OwnersListed, OwnersLive, MutexConsistent
<1> QED
  BY <1>1, UncontendedOwners, InductiveInvariant, PTL

\* The guest's critical sections: whatever OSLockMutex, OSUnlockMutex and the end of a
\* thread do with queues, priorities and fibers, a thread enters a mutex only when
\* nobody is inside, one leaves only a mutex it is inside of, and one that ends leaves
\* all of them at once.
THEOREM MutexesExclude ==
    ASSUME GuestsKeepTheRules
    PROVE  Spec /\ [][EndsUncontended]_vars => ImplementsGuestMutex
<1>1. Init => Critical!Init
  BY InitMutexes
<1>2. IInv /\ SafeInv /\ PlacedInv /\ OwnersInv /\ [Next]_vars /\ [EndsUncontended]_vars
        => [Critical!Next]_holds
  BY MutexStep
<1> QED
  BY <1>1, <1>2, SafeInvariant, UncontendedPlaced, UncontendedOwners, InductiveInvariant, PTL
     DEF Spec, ImplementsGuestMutex, Critical!Spec

\* Between two calls of the guest a thread that has ended owns no mutex, however many it
\* owned when it ended, and nobody is left on its join queue: OSExitThread,
\* OSCancelThread and OSJoinThread leave no thread to wait for one that will not come
\* back.
THEOREM EndedThreadIsCleanedUp ==
    ASSUME GuestsKeepTheRules
    PROVE  Spec /\ [][EndsUncontended]_vars => []TerminatedThreadIsCleanedUp
<1>1. IInv /\ PlacedInv /\ OwnersInv => TerminatedThreadIsCleanedUp
  <2> SUFFICES ASSUME IInv, PlacedInv, MutexInv, InGuestCode, NEW t \in Threads, Terminated(t)
               PROVE  owned[t] = <<>> /\ queue[t] = <<>>
    BY NoReleaseInGuest DEF TerminatedThreadIsCleanedUp
  <2>1. queue[t] = <<>>
    <3>1. ~ Ending(t, guest)
      BY EndingTop DEF InGuestCode
    <3> QED
      BY <3>1 DEF PlacedInv, JoinersLeft, CleansUp, InGuestCode
  <2>2. \A m \in Mutexes : owner[m] # t
    BY AddressesAssumption DEF MutexInv, OwnersLive
  <2>3. \A m \in Mutexes : ~ Linked(owned[t], m)
    BY <2>2, Zenon DEF MutexInv, OwnersListed
  <2>4. owned[t] \in Seq(Mutexes)
    BY DEF IInv, TypeOK, ThreadsTypeOK
  <2> QED
    BY <2>1, <2>3, <2>4, LinkedFacts
<1> QED
  BY <1>1, UncontendedPlaced, UncontendedOwners, InductiveInvariant, PTL

-----------------------------------------------------------------------------
(***************************************************************************)
(* Guests whose enders own nothing.                                        *)
(***************************************************************************)

\* The fourth rule: a guest whose threads exit or are cancelled locks no mutex, so that
\* nobody who ends keeps another waiting.
EndersOwnNothing == \A g \in Guests : "lock" \in g => {"exit", "cancel"} \cap g = {}

\* Such a guest keeps the third rule by itself.
LEMMA EndersKeepTheThirdRule ==
    ASSUME EndersOwnNothing, IInv, SafeInv, PlacedInv, Next
    PROVE  EndsUncontended
<1>0. guest \in Guests
  BY DEF SafeInv, HostInv
<1>1. ASSUME NEW t \in Threads, {"exit", "cancel"} \cap guest # {} PROVE Uncontended(t)
  <2>1. owned[t] = <<>>
    BY <1>0, <1>1 DEF EndersOwnNothing, PlacedInv, OwnsNothing
  <2>2. \A m : ~ Linked(<<>>, m)
    BY LinkedFacts
  <2> QED
    BY <2>1, <2>2 DEF Uncontended
<1>2. OSExitThread => running \in Threads /\ "exit" \in guest
  BY DEF OSExitThread, Calls
<1>3. \A t \in Threads : OSCancelThread(t) => "cancel" \in guest
  BY DEF OSCancelThread, Calls
<1> QED
  BY <1>1, <1>2, <1>3 DEF EndsUncontended

\* The two layers above, for such guests in every behaviour.
LEMMA PlacedInvariant ==
    ASSUME GuestsKeepTheRules, EndersOwnNothing
    PROVE  Spec => []PlacedInv
<1>1. Init => PlacedInv
  BY InitPlaced
<1>2. IInv /\ SafeInv /\ PlacedInv /\ [Next]_vars => PlacedInv'
  BY PlacedStep, EndersKeepTheThirdRule
<1> QED
  BY <1>1, <1>2, SafeInvariant, InductiveInvariant, PTL DEF Spec

LEMMA MutexInvariant ==
    ASSUME GuestsKeepTheRules, EndersOwnNothing
    PROVE  Spec => []MutexInv
<1>1. Init => OwnersInv
  BY InitMutexes DEF OwnersInv
<1>2. IInv /\ SafeInv /\ PlacedInv /\ OwnersInv /\ [Next]_vars => OwnersInv'
  BY MutexStep, EndersKeepTheThirdRule
<1>3. IInv /\ SafeInv /\ PlacedInv /\ OwnersInv => MutexInv
  <2> SUFFICES ASSUME IInv, SafeInv, PlacedInv, NEW t \in Threads, ReleasingInv(t) PROVE MutexInv
    BY DEF OwnersInv
  <2>1. owned[t] = <<>>
    BY DEF ReleasingInv, Ending, EndersOwnNothing, SafeInv, HostInv, PlacedInv, OwnsNothing
  <2>2. \A m \in Mutexes : owner[m] # t
    <3>1. \A m \in Mutexes : Linked(owned[t], m) <=> owner[m] = t
      BY Zenon DEF ReleasingInv, OwnersListed
    <3>2. \A m : ~ Linked(<<>>, m)
      BY LinkedFacts
    <3> QED
      BY <2>1, <3>1, <3>2, Zenon
  <2>3. HoldersOwn /\ OwnersLive
    BY <2>2 DEF ReleasingInv, HoldersOwn, OwnersLive
  <2> QED
    BY <2>3 DEF ReleasingInv, MutexInv
<1> QED
  BY <1>1, <1>2, <1>3, SafeInvariant, PlacedInvariant, InductiveInvariant, PTL DEF Spec

-----------------------------------------------------------------------------
(***************************************************************************)
(* Timers wake sleepers.                                                   *)
(***************************************************************************)

\* Some frame of s is of one of the kinds in O.
Has(s, O) == \E i \in 1 .. Len(s) : s[i].op \in O

\* Which frames are on a stack after one or two are pushed, or one is gone.
LEMMA HasPush ==
    ASSUME NEW s \in Seq(Frame), NEW O
    PROVE  /\ \A f : Has(<<f>> \o s, O) <=> f.op \in O \/ Has(s, O)
           /\ \A f, g : Has(<<f, g>> \o s, O) <=> f.op \in O \/ g.op \in O \/ Has(s, O)
           /\ s # <<>> => (Has(s, O) <=> Head(s).op \in O \/ Has(Tail(s), O))
           /\ ~ Has(<<>>, O)
<1>1. ASSUME NEW f PROVE Has(<<f>> \o s, O) <=> f.op \in O \/ Has(s, O)
  <2>1. /\ Len(<<f>> \o s) = Len(s) + 1 /\ (<<f>> \o s)[1] = f /\ Len(s) \in Nat
        /\ \A i \in 1 .. Len(s) : (<<f>> \o s)[i + 1] = s[i]
        /\ \A i \in 2 .. Len(s) + 1 : (<<f>> \o s)[i] = s[i - 1]
    OBVIOUS
  <2> DEFINE u == <<f>> \o s
  <2> HIDE DEF u
  <2>2. Has(u, O) => f.op \in O \/ Has(s, O)
    <3>1. ASSUME NEW i \in 1 .. Len(u), u[i].op \in O PROVE f.op \in O \/ Has(s, O)
      <4>1. CASE i = 1
        BY <2>1, <3>1, <4>1 DEF u
      <4>2. CASE i # 1
        BY <2>1, <3>1, <4>2 DEF u, Has
      <4> QED
        BY <4>1, <4>2
    <3> QED
      BY <3>1 DEF Has
  <2>3. f.op \in O \/ Has(s, O) => Has(u, O)
    <3>1. Len(u) = Len(s) + 1 /\ u[1] = f /\ \A i \in 1 .. Len(s) : u[i + 1] = s[i]
      BY <2>1 DEF u
    <3> QED
      BY <2>1, <3>1 DEF Has
  <2> QED
    BY <2>2, <2>3 DEF u
<1>2. ASSUME s # <<>> PROVE Has(s, O) <=> Head(s).op \in O \/ Has(Tail(s), O)
  <2>1. /\ Len(Tail(s)) = Len(s) - 1 /\ Head(s) = s[1] /\ Len(s) \in Nat \ {0}
        /\ \A i \in 1 .. Len(s) - 1 : Tail(s)[i] = s[i + 1]
    BY <1>2
  <2>2. Has(s, O) => Head(s).op \in O \/ Has(Tail(s), O)
    <3> SUFFICES ASSUME NEW i \in 1 .. Len(s), s[i].op \in O, i # 1
                 PROVE  \E j \in 1 .. Len(Tail(s)) : Tail(s)[j].op \in O
      BY <2>1 DEF Has
    <3>1. i - 1 \in 1 .. Len(s) - 1 /\ (i - 1) + 1 = i
      BY <2>1
    <3>2. Tail(s)[i - 1] = s[i]
      BY <2>1, <3>1
    <3> QED
      BY <2>1, <3>1, <3>2
  <2> QED
    BY <2>1, <2>2 DEF Has
<1>3. ASSUME NEW f, NEW g PROVE Has(<<f, g>> \o s, O) <=> f.op \in O \/ g.op \in O \/ Has(s, O)
  <2> DEFINE u == <<f, g>> \o s
  <2>1. /\ Len(u) = Len(s) + 2 /\ u[1] = f /\ u[2] = g /\ Len(s) \in Nat
        /\ \A i \in 1 .. Len(s) : u[i + 2] = s[i]
        /\ \A i \in 3 .. Len(s) + 2 : u[i] = s[i - 2]
    OBVIOUS
  <2> HIDE DEF u
  <2>2. Has(u, O) => f.op \in O \/ g.op \in O \/ Has(s, O)
    <3>1. ASSUME NEW i \in 1 .. Len(u), u[i].op \in O, i \notin {1, 2} PROVE s[i - 2].op \in O /\ i - 2 \in 1 .. Len(s)
      BY <2>1, <3>1
    <3> QED
      BY <2>1, <3>1 DEF Has
  <2>3. f.op \in O \/ g.op \in O \/ Has(s, O) => Has(u, O)
    BY <2>1 DEF Has
  <2> QED
    BY <2>2, <2>3 DEF u
<1>4. ~ Has(<<>>, O)
  BY DEF Has
<1> QED
  BY <1>1, <1>2, <1>3, <1>4

\* The same for one frame, with one of the operations.
LEMMA HasOn ==
    ASSUME NEW s \in Seq(Frame), NEW O, NEW f, f.op \in O
    PROVE  Has(<<f>> \o s, O)
BY HasPush

\* What a step of a frame does to the stack it is on: its frame may go, and one or
\* two may come.
Piles ==
    /\ UNCHANGED host
    /\ stack[host] # <<>>
    /\ \/ UNCHANGED stack
       \/ Goto(Rest)
       \/ \E f, g : \E s \in {Rest, stack[host]} : Goto(<<f>> \o s) \/ Goto(<<f, g>> \o s)

\* The steps of frames apart from those that switch.
LEMMA FramePiles ==
    ASSUME IInv, FrameStep, ~ Pick, ~ FiberEndStep
    PROVE  Piles
<1>0. stack = [stack EXCEPT ![host] = stack[host]]
  BY DEF IInv, TypeOK, FibersTypeOK
<1>1. ASSUME NEW t \in Threads, SleepTimerFires(t) PROVE Piles
  <2>1. CASE ResumeThread(t, stack[host])
    <3>1. \/ Goto(stack[host])
          \/ Goto(<<Fr("propagate", NoQueue, BlockedOn(t), 0), ReschedFrame>> \o stack[host])
      BY <2>1 DEF ResumeThread
    <3> QED
      BY <1>0, <1>1, <3>1 DEF SleepTimerFires, SameFiber, Polling, At, Piles, Goto
  <2>2. CASE UNCHANGED stack
    BY <1>1, <2>2 DEF SleepTimerFires, SameFiber, Polling, At, Piles
  <2> QED
    BY <1>1, <2>1, <2>2 DEF SleepTimerFires
<1>2. CASE SelectBegins
  BY <1>2 DEF SelectBegins, SameFiber, At, Piles
<1>3. CASE SelectRefused \/ (\E q \in Queues : IdleCallback(q)) \/ IdleEnds \/ ReschedStep
  BY <1>3 DEF SelectRefused, IdleCallback, IdleEnds, ReschedStep, Return, SameFiber, At, Piles
<1>4. CASE PromoteStep
  BY <1>4 DEF PromoteStep, Return, SameFiber, At, Piles
<1>5. CASE PropagateStep
  BY <1>5 DEF PropagateStep, Return, SameFiber, At, Piles
<1>6. CASE SleepStep
  BY <1>6 DEF SleepStep, Return, SameFiber, At, Piles
<1>7. CASE SleptStep \/ JoinedStep \/ TickedStep
  BY <1>7 DEF SleptStep, JoinedStep, TickedStep, Return, SameFiber, At, Piles
<1>8. CASE LockStep
  BY <1>8 DEF LockStep, SameFiber, At, Piles
<1>9. CASE WakeStep
  <2>1. Goto(stack[host]) \/ \E f : Goto(<<f>> \o Rest)
    BY <1>9 DEF WakeStep
  <2> QED
    BY <1>0, <1>9, <2>1 DEF WakeStep, SameFiber, At, Piles, Goto
<1>10. CASE WakeEnds \/ UnlockAllStep \/ ExitedStep \/ EndDeferredStep
  BY <1>10 DEF WakeEnds, UnlockAllStep, ExitedStep, EndDeferredStep, SameFiber, At, Piles
<1> QED
  BY <1>1, <1>2, <1>3, <1>4, <1>5, <1>6, <1>7, <1>8, <1>9, <1>10 DEF FrameStep

\* What is on a stack stays there until it is on top.
LEMMA PilesKeep ==
    ASSUME IInv, Piles, NEW O, Top.op \notin O, Has(stack[host], O)
    PROVE  Has(stack'[host], O)
<1>1. /\ stack[host] \in Seq(Frame) /\ Rest \in Seq(Frame) /\ stack[host] # <<>>
  <2>1. stack[host] \in Seq(Frame) /\ stack[host] # <<>>
    BY DEF IInv, TypeOK, FibersTypeOK, Piles
  <2> QED
    BY <2>1, TopOf
<1>2. Has(Rest, O)
  BY <1>1, HasPush DEF Top, Rest
<1>3. ASSUME NEW s \in {Rest, stack[host]}, NEW f, NEW g PROVE Has(s, O) /\ Has(<<f>> \o s, O) /\ Has(<<f, g>> \o s, O)
  BY <1>1, <1>2, HasPush
<1>4. ASSUME NEW s, Goto(s) PROVE stack'[host] = s
  BY <1>4, GotoHere
<1>5. CASE UNCHANGED stack
  BY <1>5
<1>6. CASE Goto(Rest)
  BY <1>2, <1>4, <1>6
<1>7. ASSUME NEW f, NEW g, NEW s \in {Rest, stack[host]}, Goto(<<f>> \o s) \/ Goto(<<f, g>> \o s)
      PROVE  Has(stack'[host], O)
  <2>1. CASE Goto(<<f>> \o s)
    BY <1>3, <1>4, <2>1
  <2>2. CASE Goto(<<f, g>> \o s)
    BY <1>3, <1>4, <2>2
  <2> QED
    BY <1>7, <2>1, <2>2
<1> QED
  BY <1>5, <1>6, <1>7 DEF Piles

\* The stacks of the other fibers.
LEMMA PilesOthers ==
    ASSUME IInv, Piles
    PROVE  \A t \in Threads \ {host} : stack'[t] = stack[t]
BY GotoHere DEF Piles

\* A call of the guest leaves the stacks of the other fibers alone, unless it begins
\* or ends a thread.
LEMMA CallsOthers ==
    ASSUME GuestsKeepTheRules, IInv, HostInv, GuestCall, ~ OSExitThread,
           \A t \in Threads : ~ OSCancelThread(t), \A t \in Threads, d \in BOOLEAN : ~ OSCreateThread(t, d)
    PROVE  InGuestCode /\ \A t \in Threads \ {host} : stack'[t] = stack[t]
<1>1. ~ FiberReturns
  BY DEF FiberReturns, Calls, GuestsKeepTheRules, HostInv
<1>2. InGuestCode
  BY DEF GuestCall, OSResumeThread, OSSuspendThread, OSSleepTicks, OSThreadCall, CallHandler, OSLockMutex,
         OSUnlockMutex, OSJoinThread, OSDetachThread, OSDisableScheduler, OSEnableScheduler,
         DeferredCallback, FiberReturns, Calls
<1>3. UNCHANGED stack \/ \E s : Goto(s)
  <2>1. ASSUME NEW t \in Threads, OSResumeThread(t) \/ OSSuspendThread(t) PROVE \E s : Goto(s)
    BY <2>1, ResumeStack DEF OSResumeThread, OSSuspendThread
  <2>2. CASE OSSleepTicks
    <3>1. Sleeper \in Threads
      BY <2>2 DEF OSSleepTicks, Sleeper, IInv, TypeOK, FibersTypeOK, SchedulerTypeOK
    <3> QED
      BY <2>2, <3>1, ResumeStack DEF OSSleepTicks
  <2> QED
    BY <1>1, <2>1, <2>2
       DEF GuestCall, OSThreadCall, CallHandler, OSLockMutex, OSUnlockMutex, OSJoinThread, OSDetachThread,
           OSDisableScheduler, OSEnableScheduler, DeferredCallback, fiber
<1> QED
  BY <1>2, <1>3, GotoHere

\* The fourth rule: a guest whose threads sleep in OSSleepTicks cancels nobody.  A
\* cancelled sleeper leaves its timer behind, for whoever gets its structure.
SleepersAreLeftAlone == \A g \in Guests : "ticks" \in g => "cancel" \notin g

\* A thread with a timer is suspended, alive, and somewhere in OSSleepTicks.
SleepersInv ==
    /\ "ticks" \in guest \/ timers = {}
    /\ \A t \in timers : suspend[t] > 0 /\ ~ Terminated(t) /\ Has(stack[t], {"ticked"})

\* Every step keeps the threads with a timer in OSSleepTicks.
LEMMA SleepersStep ==
    ASSUME GuestsKeepTheRules, SleepersAreLeftAlone, IInv, SafeInv, SleepersInv, [Next]_vars
    PROVE  SleepersInv'
<1>0. /\ HostInv /\ guest \in Guests /\ host \in Threads /\ timers \subseteq Threads
      /\ suspend \in [Threads -> Nat] /\ state \in [Threads -> States]
      /\ stack \in [Threads -> Seq(Frame)] /\ guest' = guest
  BY GuestStays DEF SafeInv, HostInv, IInv, TypeOK, ThreadsTypeOK, FibersTypeOK
<1>1. ASSUME timers' \subseteq timers,
             \A t \in timers' : suspend'[t] > 0 /\ ~ Terminated(t)' /\ Has(stack'[t], {"ticked"})
      PROVE  SleepersInv'
  BY <1>0, <1>1 DEF SleepersInv
<1>2. ASSUME InGuestCode PROVE host \notin timers /\ Runs
  BY <1>0, <1>2, HasPush, GuestRuns DEF SleepersInv, InGuestCode
<1>3. ASSUME Terminated(host) PROVE host \notin timers
  BY <1>3 DEF SleepersInv
<1>4. ~ FiberReturns
  BY <1>0 DEF FiberReturns, Calls, GuestsKeepTheRules
<1>5. CASE FrameStep /\ ~ Pick /\ ~ FiberEndStep
  <2>0. Piles /\ \A t \in Threads \ {host} : stack'[t] = stack[t]
    BY <1>5, FramePiles, PilesOthers
  <2>1. \A t \in Threads : Terminated(t)' => Terminated(t)
    <3>1. ~ OSExitThread /\ \A t \in Threads : ~ OSCancelThread(t)
      BY <2>0 DEF OSExitThread, OSCancelThread, Calls, InGuestCode, Piles
    <3> QED
      BY <1>4, <3>1, NobodyEnds
  <2>2. CASE TickedStep
    <3>1. Top.t = host /\ suspend[host] = 0
      BY <1>0, <2>2, TopRuns DEF TickedStep, At, Quiet, Runs
    <3>2. UNCHANGED <<suspend, timers>> /\ host \notin timers
      BY <2>2, <3>1 DEF TickedStep, sleep, SleepersInv
    <3> QED
      BY <1>0, <1>1, <2>0, <2>1, <3>2 DEF SleepersInv
  <2>3. CASE ~ TickedStep
    <3>1. Top.op # "ticked"
      <4>1. \/ \E t \in Threads : SleepTimerFires(t)
            \/ FrameStep /\ ~ \E t \in Threads : SleepTimerFires(t)
        BY <1>5
      <4> QED
        BY <1>5, <2>3, <4>1
           DEF FrameStep, SleepTimerFires, Polling, SelectRefused, SelectBegins, IdleCallback, IdleEnds, ReschedStep,
               PromoteStep, PropagateStep, SleepStep, SleptStep, LockStep, WakeStep, WakeEnds, UnlockAllStep,
               ExitedStep, JoinedStep, EndDeferredStep, At
    <3>2. \A t \in timers : Has(stack'[t], {"ticked"})
      <4>1. Has(stack[host], {"ticked"}) => Has(stack'[host], {"ticked"})
        BY <2>0, <3>1, PilesKeep
      <4> QED
        BY <1>0, <2>0, <4>1 DEF SleepersInv
    <3>3. timers' \subseteq timers /\ \A t \in timers' : suspend'[t] > 0
      <4>1. ASSUME NEW x \in Threads, SleepTimerFires(x)
            PROVE  timers' \subseteq timers /\ \A t \in timers' : suspend'[t] > 0
        <5>1. timers' = timers \ {x} /\ \A t \in Threads \ {x} : suspend'[t] = suspend[t]
          BY <1>0, <4>1 DEF SleepTimerFires, Unpark, ResumeThread
        <5> QED
          BY <1>0, <5>1 DEF SleepersInv
      <4>2. CASE ~ \E t \in Threads : SleepTimerFires(t)
        <5>1. UNCHANGED <<suspend, timers>>
          BY <1>5, <2>3, <4>2, Zenon
             DEF FrameStep, SelectRefused, SelectBegins, IdleCallback, IdleEnds, ReschedStep,
                 PromoteStep, PropagateStep, SleepStep, SleptStep, LockStep, WakeStep, WakeEnds, UnlockAllStep,
                 ExitedStep, JoinedStep, EndDeferredStep, thread, sleep
        <5> QED
          BY <5>1 DEF SleepersInv
      <4> QED
        BY <4>1, <4>2
    <3> QED
      BY <1>0, <1>1, <2>1, <3>2, <3>3 DEF SleepersInv
  <2> QED
    BY <2>2, <2>3
<1>6. CASE Pick
  <2> DEFINE x == Head(queue[Least(pending)])
  <2>1. x \in Threads /\ Dispatch(Least(pending)) /\ UNCHANGED <<suspend, timers>>
    BY <1>0, <1>6, PickDispatches DEF Pick, sleep, SafeInv
  <2>2. SwitchTo(x) /\ state' = [state EXCEPT ![x] = "RUNNING"]
    BY <2>1 DEF Dispatch
  <2>3. Goto(Rest) \/ (Goto(<<>>) /\ Terminated(host))
    BY <2>2, Zenon DEF SwitchTo
  <2>4. stack[host] # <<>> /\ Top.op = "pick"
    BY <1>6 DEF Pick, At
  <2>5. Has(stack[host], {"ticked"}) => Has(Rest, {"ticked"})
    BY <1>0, <2>4, HasPush DEF Top, Rest
  <2>6. \A t \in timers : Has(stack'[t], {"ticked"})
    <3>1. CASE Goto(Rest)
      BY <1>0, <2>5, <3>1, GotoHere DEF SleepersInv
    <3>2. CASE Goto(<<>>) /\ Terminated(host)
      BY <1>0, <1>3, <3>2, GotoHere DEF SleepersInv
    <3> QED
      BY <2>3, <3>1, <3>2
  <2>7. \A t \in Threads : Terminated(t)' => Terminated(t)
    BY <1>0, <2>1, <2>2 DEF Terminated
  <2> QED
    BY <1>0, <1>1, <2>1, <2>6, <2>7 DEF SleepersInv
<1>7. CASE FiberEndStep
  BY <1>0, <1>7, TopCases DEF FiberEndStep, At
<1>8. ASSUME NEW t \in Threads, NEW d \in BOOLEAN, OSCreateThread(t, d) PROVE SleepersInv'
  <2>1. t \notin timers /\ timers' = timers
    BY <1>8 DEF OSCreateThread, SleepersInv, Terminated, sleep
  <2>2. \A x \in Threads \ {t} : suspend'[x] = suspend[x] /\ state'[x] = state[x] /\ stack'[x] = stack[x]
    BY <1>0, <1>8 DEF OSCreateThread
  <2> QED
    BY <1>0, <1>1, <2>1, <2>2 DEF SleepersInv, Terminated
<1>9. ASSUME NEW t \in Threads, OSCancelThread(t) PROVE SleepersInv'
  <2>1. "cancel" \in guest /\ UNCHANGED timers
    BY <1>9 DEF OSCancelThread, Calls, sleep
  <2> QED
    BY <1>0, <1>1, <2>1 DEF SleepersAreLeftAlone, SleepersInv
<1>10. CASE OSExitThread
  <2>1. /\ running = host /\ host \notin timers
        /\ UNCHANGED <<suspend, timers>> /\ TerminateThread(running, <<Fr("exited", NoQueue, NoThread, 0)>>)
    BY <1>2, <1>10 DEF OSExitThread, Calls, Runs, sleep
  <2>2. \A x \in Threads \ {host} : state'[x] = state[x] /\ stack'[x] = stack[x]
    BY <1>0, <2>1 DEF TerminateThread
  <2> QED
    BY <1>0, <1>1, <2>1, <2>2 DEF SleepersInv, Terminated
<1>11. CASE GuestCall /\ ~ OSExitThread /\ (\A t \in Threads : ~ OSCancelThread(t))
                      /\ \A t \in Threads, d \in BOOLEAN : ~ OSCreateThread(t, d)
  <2>0. InGuestCode /\ \A t \in Threads \ {host} : stack'[t] = stack[t]
    BY <1>0, <1>11, CallsOthers
  <2>1. host \notin timers /\ Runs
    BY <1>2, <2>0
  <2>2. \A t \in Threads : Terminated(t)' => Terminated(t)
    BY <1>4, <1>11, NobodyEnds
  <2>3. \A t \in Threads \ {host} : stack'[t] = stack[t]
    BY <2>0
  <2>4. ASSUME NEW t \in Threads, OSResumeThread(t) PROVE SleepersInv'
    <3>1. suspend' = [suspend EXCEPT ![t] = IF @ = 0 THEN 0 ELSE @ - 1]
      BY <2>4 DEF OSResumeThread, ResumeThread
    <3>2. IF suspend[t] = 1 THEN timers' = timers \ {t} ELSE timers' = timers
      BY <2>4 DEF OSResumeThread, Unpark, sleep
    <3>3. \A x \in timers' : suspend'[x] > 0
      BY <1>0, <3>1, <3>2 DEF SleepersInv
    <3>4. timers' \subseteq timers /\ host \notin timers'
      BY <2>1, <3>2
    <3> QED
      BY <1>0, <1>1, <2>2, <2>3, <3>3, <3>4 DEF SleepersInv
  <2>5. ASSUME NEW t \in Threads, OSSuspendThread(t) PROVE SleepersInv'
    <3>1. suspend' = [suspend EXCEPT ![t] = @ + 1] /\ timers' = timers
      BY <2>5 DEF OSSuspendThread, SuspendThread, sleep
    <3>2. \A x \in timers' : suspend'[x] > 0
      BY <1>0, <3>1 DEF SleepersInv
    <3> QED
      BY <1>0, <1>1, <2>1, <2>2, <2>3, <3>1, <3>2 DEF SleepersInv
  <2>6. CASE OSSleepTicks
    <3>1. Sleeper = host
      BY <2>1 DEF Sleeper, FiberInv, SafeInv, Runs, Terminated
    <3> DEFINE k == Fr("ticked", NoQueue, host, 0)
    <3>2. /\ timers' = timers \cup {host} /\ "ticks" \in guest
          /\ SuspendThread(host, <<k>>)
      BY <2>6, <3>1 DEF OSSleepTicks, Calls
    <3>3. suspend' = [suspend EXCEPT ![host] = @ + 1]
      BY <3>2 DEF SuspendThread
    <3>4. \/ Goto(<<k>>)
          \/ \E b : Goto(<<Fr("propagate", NoQueue, b, 0), ReschedFrame>> \o <<k>>)
      BY <1>0, <3>2, ResumeStack
    <3>5. k.op = "ticked" /\ k \in Frame
      BY <1>0, FrameForms DEF Fr
    <3> HIDE DEF k
    <3>6. <<k>> \in Seq(Frame) /\ Has(<<k>>, {"ticked"})
      BY <3>5 DEF Has
    <3>7. Has(stack'[host], {"ticked"})
      <4>1. CASE Goto(<<k>>)
        BY <3>6, <4>1, GotoHere
      <4>2. ASSUME NEW b, Goto(<<Fr("propagate", NoQueue, b, 0), ReschedFrame>> \o <<k>>)
            PROVE  Has(stack'[host], {"ticked"})
        <5>1. \A f, g : Has(<<f, g>> \o <<k>>, {"ticked"})
          BY <3>6, HasPush
        <5> QED
          BY <4>2, <5>1, GotoHere
      <4> QED
        BY <3>4, <4>1, <4>2
    <3>8. \A x \in timers' : suspend'[x] > 0
      BY <1>0, <3>2, <3>3 DEF SleepersInv
    <3>9. \A x \in timers' : ~ Terminated(x)'
      BY <1>0, <2>1, <2>2, <3>2 DEF SleepersInv, Runs, Terminated
    <3> QED
      BY <1>0, <2>1, <2>3, <3>2, <3>7, <3>8, <3>9 DEF SleepersInv
  <2>7. CASE /\ ~ OSSleepTicks /\ \A t \in Threads : ~ OSResumeThread(t) /\ ~ OSSuspendThread(t)
    <3>1. UNCHANGED <<suspend, timers>>
      BY <1>4, <1>11, <2>7, Zenon
         DEF GuestCall, OSThreadCall, OSLockMutex, OSUnlockMutex, OSJoinThread, OSDetachThread,
             OSDisableScheduler, OSEnableScheduler, DeferredCallback, thread, sleep
    <3> QED
      BY <1>0, <1>1, <2>1, <2>2, <2>3, <3>1 DEF SleepersInv
  <2> QED
    BY <2>4, <2>5, <2>6, <2>7
<1>12. CASE UNCHANGED vars
  BY <1>0, <1>12 DEF vars, thread, sleep, fiber, SleepersInv, Terminated
<1> QED
  BY <1>5, <1>6, <1>7, <1>8, <1>9, <1>10, <1>11, <1>12 DEF Next, GuestCall

\* A timer that is due takes a suspension only off a thread that is in OSSleepTicks:
\* OSResumeThread cancels the timer of the thread it lets run, and the tail of
\* OSSleepTicks that of a sleep that did not park.
THEOREM TimersWakeSleepers ==
    ASSUME GuestsKeepTheRules, SleepersAreLeftAlone
    PROVE  Spec => TimerWakesSleeper
<1>1. Init => SleepersInv
  BY DEF Init, SleepersInv
<1>2. IInv /\ SafeInv /\ SleepersInv /\ [Next]_vars => SleepersInv'
  BY SleepersStep
<1>3. SleepersInv => [\A t \in Threads : SleepTimerFires(t) /\ suspend'[t] # suspend[t] =>
                         \E i \in 1 .. Len(stack[t]) : stack[t][i].op = "ticked"]_vars
  BY DEF SleepersInv, SleepTimerFires, Has
<1> QED
  BY <1>1, <1>2, <1>3, SafeInvariant, InductiveInvariant, PTL DEF Spec, TimerWakesSleeper

-----------------------------------------------------------------------------
(***************************************************************************)
(* Which frames may be where, and who waits for a mutex.                   *)
(***************************************************************************)

\* The frames that may be anywhere on a stack.  The others are on top of the running
\* fiber only, and gone before anything else of it is done.
Plain ==
    {f \in Frame : /\ f.op \notin {"sleep", "promote", "propagate"}
                   /\ f.op \in {"wake", "wakeResched"} => f.q \notin Mutexes}

\* The running thread waits for m, and has yet to sleep on it.
Blocks(m) == m \in Mutexes /\ tmutex[host] = m /\ owner[m] \notin {NoThread, host}

\* Where a sleep, a wakeup on a mutex, and an inheritance of priority are on a stack:
\* OSSleepThread is about to sleep on a mutex that is owned, a mutex is woken that is
\* not, and priorities are passed on before OSLockMutex sleeps or a handler reschedules.
HostForms ==
    \/ stack[host] \in Seq(Plain)
    \/ \E f \in Frame, u \in Seq(Plain) :
          \/ /\ stack[host] = <<f>> \o u /\ f.op = "sleep"
             /\ f.q \in Mutexes => Blocks(f.q)
             /\ f.q \notin Mutexes => tmutex[host] = NoQueue
          \/ /\ stack[host] = <<f>> \o u /\ f.op \in {"wake", "wakeResched"}
             /\ f.q \in Mutexes /\ owner[f.q] = NoThread
          \/ stack[host] = <<f, ReschedFrame>> \o u /\ f.op = "propagate"
          \/ /\ stack[host] = <<f, Fr("sleep", tmutex[host], NoThread, 0)>> \o u /\ f.op = "promote"
             /\ Blocks(tmutex[host])

FormsInv == HostForms /\ \A t \in Threads \ {host} : stack[t] \in Seq(Plain)

\* A thread that waits for a mutex is somewhere in OSLockMutex.
Locking == \A t \in Threads : ~ Terminated(t) /\ tmutex[t] # NoQueue => Has(stack[t], {"lock"})

\* Two frames on a stack.
LEMMA TwoPush ==
    ASSUME NEW F, NEW s \in Seq(F), NEW f, NEW g
    PROVE  /\ Head(<<f, g>> \o s) = f /\ Tail(<<f, g>> \o s) = <<g>> \o s /\ <<f, g>> \o s # <<>>
OBVIOUS

\* Handlers push plain frames, apart from the walks and the sleeps.
LEMMA PlainForms ==
    /\ HoldsPushed(Plain) /\ HoldsEnding(Plain)
    /\ \A op \in {"pick", "idle"} : Fr(op, NoQueue, NoThread, 0) \in Plain
    /\ Plain \subseteq Frame
<1>1. \A f \in Plain : f.op \in {"wake", "wakeResched", "wakeFiber"} => [f EXCEPT !.op = Readied(@)] \in Plain
  BY DEF Plain, Frame, FrameOps, Readied
<1>2. \A q \in WaitQueues \ Mutexes : WakeFrame(q) \in Plain
  BY FrameForms DEF Plain, WakeFrame, Fr
<1> QED
  BY <1>1, <1>2, FrameForms, QueueIdsFacts DEF HoldsPushed, HoldsEnding, Plain, Fr, ReschedFrame, SelectFrame

\* The stack of the running fiber by the frame on top.
LEMMA FormsTop ==
    ASSUME IInv, FormsInv, stack[host] # <<>>
    PROVE  /\ Top \in Frame /\ Rest \in Seq(Frame)
           /\ Top.op # "promote" => Rest \in Seq(Plain)
           /\ \/ Top.op = "sleep" /\ (Top.q \in Mutexes => Blocks(Top.q))
                                  /\ (Top.q \notin Mutexes => tmutex[host] = NoQueue)
              \/ Top.op \in {"wake", "wakeResched"} /\ Top.q \in Mutexes /\ owner[Top.q] = NoThread
              \/ /\ Top.op = "propagate" /\ Has(Rest, {"resched"})
                 /\ \E u \in Seq(Plain) : Rest = <<ReschedFrame>> \o u
              \/ /\ Top.op = "promote" /\ Blocks(tmutex[host])
                 /\ \E u \in Seq(Plain) : Rest = <<Fr("sleep", tmutex[host], NoThread, 0)>> \o u
              \/ Top \in Plain /\ stack[host] \in Seq(Plain)
<1>0. Top \in Frame /\ Rest \in Seq(Frame)
  BY TopType DEF At
<1>1. CASE stack[host] \in Seq(Plain)
  <2>1. Top \in Plain /\ Rest \in Seq(Plain)
    BY <1>1, TopOf
  <2> QED
    BY <1>0, <1>1, <2>1 DEF Plain
<1>2. ASSUME NEW f \in Frame, NEW u \in Seq(Plain), stack[host] = <<f>> \o u PROVE Top = f /\ Rest = u
  BY <1>2, HeadTailOfPush DEF Top, Rest
<1>3. ASSUME NEW f \in Frame, NEW u \in Seq(Plain), NEW g, stack[host] = <<f, g>> \o u PROVE Top = f /\ Rest = <<g>> \o u
  BY <1>3, TwoPush DEF Top, Rest
<1>4. ASSUME NEW u \in Seq(Plain) PROVE <<ReschedFrame>> \o u \in Seq(Plain) /\ Has(<<ReschedFrame>> \o u, {"resched"})
  <2>1. ReschedFrame \in Plain /\ u \in Seq(Frame) /\ ReschedFrame.op = "resched"
    BY PlainForms DEF HoldsPushed, ReschedFrame, Fr
  <2> QED
    BY <1>4, <2>1, PushOn, HasPush
<1>5. CASE ~ (stack[host] \in Seq(Plain))
  <2>1. PICK f \in Frame, u \in Seq(Plain) :
          \/ /\ stack[host] = <<f>> \o u /\ f.op = "sleep"
             /\ f.q \in Mutexes => Blocks(f.q)
             /\ f.q \notin Mutexes => tmutex[host] = NoQueue
          \/ /\ stack[host] = <<f>> \o u /\ f.op \in {"wake", "wakeResched"}
             /\ f.q \in Mutexes /\ owner[f.q] = NoThread
          \/ stack[host] = <<f, ReschedFrame>> \o u /\ f.op = "propagate"
          \/ /\ stack[host] = <<f, Fr("sleep", tmutex[host], NoThread, 0)>> \o u /\ f.op = "promote"
             /\ Blocks(tmutex[host])
    BY <1>5 DEF FormsInv, HostForms
  <2>2. CASE /\ stack[host] = <<f>> \o u
             /\ \/ /\ f.op = "sleep"
                   /\ f.q \in Mutexes => Blocks(f.q)
                   /\ f.q \notin Mutexes => tmutex[host] = NoQueue
                \/ f.op \in {"wake", "wakeResched"} /\ f.q \in Mutexes /\ owner[f.q] = NoThread
    BY <1>0, <1>2, <2>2
  <2>3. CASE stack[host] = <<f, ReschedFrame>> \o u /\ f.op = "propagate"
    BY <1>0, <1>3, <1>4, <2>3
  <2>4. CASE /\ stack[host] = <<f, Fr("sleep", tmutex[host], NoThread, 0)>> \o u /\ f.op = "promote"
             /\ Blocks(tmutex[host])
    BY <1>0, <1>3, <2>4
  <2> QED
    BY <2>1, <2>2, <2>3, <2>4
<1> QED
  BY <1>1, <1>5

\* Unlocking the mutexes of a thread that ends comes to nothing.
LEMMA UnlockAllReturns ==
    ASSUME EndersOwnNothing, IInv, SafeInv, PlacedInv, UnlockAllStep
    PROVE  Goto(Rest) /\ UNCHANGED <<host, owned, owner, count>>
<1>1. \E t \in Threads : Top.t = t /\ Ending(t, guest)
  BY TopEnds DEF PlacedInv, UnlockAllStep
<1>2. Top.t \in Threads /\ "lock" \notin guest
  BY <1>1 DEF Ending, EndersOwnNothing, SafeInv, HostInv
<1>3. owned[Top.t] = <<>>
  BY <1>2 DEF PlacedInv, OwnsNothing
<1> QED
  BY <1>3 DEF UnlockAllStep, SameFiber

\* OSLockMutex is about to sleep: it has seen that the mutex is owned.
Sleeps == stack[host] # <<>> /\ (Top.op = "promote" \/ (Top.op = "sleep" /\ Top.q \in Mutexes))

\* Pushed frames, one by one or together.
LEMMA PushTwice ==
    ASSUME NEW F, NEW u \in Seq(F), NEW f, NEW g
    PROVE  <<f>> \o (<<g>> \o u) = <<f, g>> \o u
<1> DEFINE G == F \cup {f, g}
           v == <<g>> \o u
           x == <<f>> \o v
           y == <<f, g>> \o u
<1>1. u \in Seq(G) /\ f \in G /\ g \in G
  OBVIOUS
<1> HIDE DEF G
<1>2. v \in Seq(G) /\ Len(v) = Len(u) + 1 /\ v[1] = g /\ \A i \in 2 .. Len(u) + 1 : v[i] = u[i - 1]
  BY <1>1
<1>3. y \in Seq(G) /\ Len(y) = Len(u) + 2 /\ y[1] = f /\ y[2] = g /\ \A i \in 3 .. Len(u) + 2 : y[i] = u[i - 2]
  BY <1>1
<1> HIDE DEF v
<1>4. x \in Seq(G) /\ Len(x) = Len(v) + 1 /\ x[1] = f /\ \A i \in 2 .. Len(v) + 1 : x[i] = v[i - 1]
  BY <1>1, <1>2
<1> HIDE DEF x, y
<1>5. Len(u) \in Nat
  OBVIOUS
<1>6. Len(x) = Len(y) /\ \A i \in 1 .. Len(x) : x[i] = y[i]
  <2>1. ASSUME NEW i \in 3 .. Len(u) + 2 PROVE x[i] = y[i]
    <3>1. i \in 2 .. Len(v) + 1 /\ i - 1 \in 2 .. Len(u) + 1 /\ (i - 1) - 1 = i - 2
      BY <1>2, <1>5, <2>1
    <3>2. x[i] = v[i - 1] /\ v[i - 1] = u[(i - 1) - 1] /\ y[i] = u[i - 2]
      BY <1>2, <1>3, <1>4, <3>1
    <3> QED
      BY <3>1, <3>2
  <2>2. Len(x) = Len(u) + 2 /\ x[1] = y[1]
    BY <1>2, <1>3, <1>4, <1>5
  <2>3. x[2] = y[2]
    BY <1>2, <1>3, <1>4, <1>5
  <2>4. \A i \in 1 .. Len(x) : i = 1 \/ i = 2 \/ i \in 3 .. Len(u) + 2
    BY <1>5, <2>2
  <2> QED
    BY <1>3, <2>1, <2>2, <2>3, <2>4
<1>7. x = y
  BY <1>3, <1>4, <1>6, SeqEqual
<1> QED
  BY <1>7 DEF x, y, v

\* The frames on top stay as FormsInv says, and only OSLockMutex comes to sleep on a
\* mutex.
LEMMA FormsStep ==
    ASSUME GuestsKeepTheRules, EndersOwnNothing, IInv, SafeInv, PlacedInv, FormsInv, Locking, [Next]_vars
    PROVE  FormsInv' /\ (Sleeps' => LockStep \/ PromoteStep \/ UNCHANGED vars)
<1> DEFINE Done == FormsInv' /\ ~ Sleeps'
<1>0. /\ HostInv /\ QueuesInv /\ guest \in Guests /\ host \in Threads
      /\ stack \in [Threads -> Seq(Frame)] /\ prio \in [Threads -> 0 .. NumPrio]
      /\ owner \in [Mutexes -> Threads \cup {NoThread}] /\ tmutex \in [Threads -> Mutexes \cup {NoQueue}]
      /\ \A t \in Threads \ {host} : stack[t] \in Seq(Plain)
      /\ <<>> \in Seq(Plain)
  BY DEF SafeInv, HostInv, IInv, TypeOK, ThreadsTypeOK, MutexesTypeOK, FibersTypeOK, FormsInv
<1>1. ASSUME host' \in Threads, \A t \in Threads : stack'[t] \in Seq(Plain) PROVE Done
  <2>1. stack'[host'] \in Seq(Plain)
    BY <1>1
  <2>2. ~ Sleeps'
    <3>1. ASSUME stack'[host'] # <<>> PROVE Head(stack'[host']) \in Plain
      BY <2>1, <3>1, HeadTailProperties
    <3> QED
      BY <3>1 DEF Sleeps, Top, Plain
  <2> QED
    BY <1>1, <2>1, <2>2 DEF FormsInv, HostForms
<1>2. ASSUME Pushes(Plain) PROVE Done
  <2>1. \A t \in Threads : stack'[t] \in Seq(Plain)
    BY <1>0, <1>2 DEF Pushes
  <2> QED
    BY <1>0, <1>1, <1>2, <2>1 DEF Pushes
<1>3. ASSUME NEW s \in Seq(Plain), Goto(s), UNCHANGED host PROVE Done
  BY <1>2, <1>3, PlainForms, PushesGoto
<1>4. ASSUME NEW f \in Frame, NEW u \in Seq(Plain), Goto(<<f, ReschedFrame>> \o u), f.op = "propagate", UNCHANGED host
      PROVE  Done
  <2>1. stack'[host] = <<f, ReschedFrame>> \o u /\ \A t \in Threads \ {host} : stack'[t] = stack[t]
    BY <1>4, GotoHere
  <2>2. Top' = f
    BY <1>4, <2>1, TwoPush DEF Top
  <2>3. HostForms'
    BY <1>4, <2>1 DEF HostForms
  <2> QED
    BY <1>0, <1>4, <2>1, <2>2, <2>3 DEF FormsInv, Sleeps
<1>5. ASSUME NEW f \in Frame, NEW u \in Seq(Plain), Goto(<<f>> \o u), UNCHANGED host,
             \/ f.op \in {"wake", "wakeResched"} /\ f.q \in Mutexes /\ owner'[f.q] = NoThread
             \/ f.op = "sleep" /\ f.q \notin Mutexes /\ tmutex'[host] = NoQueue
      PROVE  Done
  <2>1. stack'[host] = <<f>> \o u /\ \A t \in Threads \ {host} : stack'[t] = stack[t]
    BY <1>5, GotoHere
  <2>2. Top' = f
    BY <1>5, <2>1, HeadTailOfPush DEF Top
  <2>3. HostForms'
    BY <1>5, <2>1 DEF HostForms
  <2> QED
    BY <1>0, <1>5, <2>1, <2>2, <2>3 DEF FormsInv, Sleeps
<1>6. ASSUME NEW t \in Threads, NEW u \in Seq(Plain), ResumeThread(t, u) \/ SuspendThread(t, u), UNCHANGED host
      PROVE  Done
  <2>1. PICK b \in Threads \cup {NoThread} :
            Goto(u) \/ Goto(<<Fr("propagate", NoQueue, b, 0), ReschedFrame>> \o u)
    BY <1>6, ResumeStack
  <2>2. Fr("propagate", NoQueue, b, 0) \in Frame /\ Fr("propagate", NoQueue, b, 0).op = "propagate"
    BY FrameForms, Zero DEF Fr
  <2> QED
    BY <1>3, <1>4, <1>6, <2>1, <2>2
<1>7. ASSUME InGuestCode PROVE Runs /\ stack[host] = <<>> /\ tmutex[host] = NoQueue
  <2>1. Runs /\ stack[host] = <<>>
    BY <1>0, <1>7, GuestRuns
  <2> QED
    BY <1>0, <2>1, SMTT(20) DEF Locking, Runs, Terminated, Has
<1>8. ASSUME NEW t \in Threads, SleepTimerFires(t) PROVE Done
  <2>1. stack[host] \in Seq(Plain)
    BY <1>8, FormsTop DEF SleepTimerFires, Polling, At
  <2>2. CASE ResumeThread(t, stack[host])
    BY <1>6, <1>8, <2>1, <2>2 DEF SleepTimerFires, SameFiber
  <2>3. CASE UNCHANGED stack
    BY <1>0, <1>1, <1>8, <2>1, <2>3 DEF SleepTimerFires, SameFiber
  <2> QED
    BY <1>8, <2>2, <2>3 DEF SleepTimerFires
<1>9. CASE PropagateStep
  <2>1. UNCHANGED host /\ \E u \in Seq(Plain) : Rest = <<ReschedFrame>> \o u
    <3>1. stack[host] # <<>> /\ Top.op = "propagate"
      BY <1>9 DEF PropagateStep, At
    <3>2. \E u \in Seq(Plain) : Rest = <<ReschedFrame>> \o u
      BY <3>1, FormsTop DEF Plain
    <3>3. UNCHANGED host
      BY <1>9 DEF PropagateStep, Return, SameFiber
    <3> QED
      BY <3>2, <3>3
  <2>2. PICK u \in Seq(Plain) : Rest = <<ReschedFrame>> \o u
    BY <2>1
  <2>3. Goto(Rest) \/ \E b \in Threads \cup {NoThread} : Goto(<<Fr("propagate", NoQueue, b, 0)>> \o Rest)
    <3>1. Top.t \in Threads => BlockedOn(Top.t) \in Threads \cup {NoThread}
      BY BlockedOnType
    <3>2. Top.t \in Threads \cup {NoThread}
      BY <1>9, TopType DEF PropagateStep, Frame
    <3> QED
      BY <1>9, <3>1, <3>2 DEF PropagateStep, Return
  <2>4. CASE Goto(Rest)
    <3>1. Rest \in Seq(Plain)
      BY <1>9, FormsTop DEF PropagateStep, At
    <3> QED
      BY <1>3, <2>1, <2>4, <3>1
  <2>5. ASSUME NEW b \in Threads \cup {NoThread}, Goto(<<Fr("propagate", NoQueue, b, 0)>> \o Rest) PROVE Done
    <3>1. Fr("propagate", NoQueue, b, 0) \in Frame /\ Fr("propagate", NoQueue, b, 0).op = "propagate"
      BY FrameForms, Zero DEF Fr
    <3>2. Goto(<<Fr("propagate", NoQueue, b, 0), ReschedFrame>> \o u)
      BY <2>2, <2>5, PushTwice
    <3> QED
      BY <1>4, <2>1, <3>1, <3>2
  <2> QED
    BY <2>3, <2>4, <2>5
<1>10. CASE PromoteStep
  <2>1. UNCHANGED <<host, tmutex, owner>> /\ Blocks(tmutex[host])
        /\ \E u \in Seq(Plain) : Rest = <<Fr("sleep", tmutex[host], NoThread, 0)>> \o u
    <3>1. stack[host] # <<>> /\ Top.op = "promote"
      BY <1>10 DEF PromoteStep, At
    <3>2. Blocks(tmutex[host]) /\ \E u \in Seq(Plain) : Rest = <<Fr("sleep", tmutex[host], NoThread, 0)>> \o u
      BY <3>1, FormsTop DEF Plain
    <3>3. UNCHANGED <<host, tmutex, owner>>
      BY <1>10 DEF PromoteStep, Return, SameFiber, mutex
    <3> QED
      BY <3>2, <3>3
  <2>0. PICK m \in Mutexes : m = tmutex[host]
    BY <2>1 DEF Blocks
  <2> DEFINE f == Fr("sleep", m, NoThread, 0)
  <2>2. PICK u \in Seq(Plain) : Rest = <<f>> \o u
    BY <2>0, <2>1
  <2>3. f.op = "sleep" /\ f.q = m /\ f \in Frame
    <3>1. f.op = "sleep" /\ f.q = m /\ m \in WaitQueues
      BY QueueIdsFacts DEF Fr, WaitQueues
    <3> QED
      BY <3>1, FrameForms
  <2> HIDE DEF f
  <2>4. Goto(Rest) \/ \E b \in Threads \cup {NoThread} : Goto(<<Fr("promote", NoQueue, b, Top.n)>> \o Rest)
    <3>1. Top.t \in Threads => BlockedOn(Top.t) \in Threads \cup {NoThread}
      BY BlockedOnType
    <3>2. Top.t \in Threads \cup {NoThread}
      BY <1>10, TopType DEF PromoteStep, Frame
    <3> QED
      BY <1>10, <3>1, <3>2 DEF PromoteStep, Return
  <2>5. ASSUME NEW s, Goto(s) PROVE stack'[host] = s /\ \A t \in Threads \ {host} : stack'[t] = stack[t]
    BY <2>5, GotoHere
  <2>6. Blocks(m)' /\ tmutex'[host'] = m
    BY <2>0, <2>1 DEF Blocks
  <2>7. CASE Goto(Rest)
    <3>1. stack'[host'] = <<f>> \o u
      BY <2>1, <2>2, <2>5, <2>7
    <3>2. HostForms'
      BY <2>2, <2>3, <2>6, <3>1 DEF HostForms
    <3>3. \A t \in Threads \ {host'} : stack'[t] \in Seq(Plain)
      BY <1>0, <2>1, <2>5, <2>7
    <3> QED
      BY <1>10, <3>2, <3>3 DEF FormsInv
  <2>8. ASSUME NEW b \in Threads \cup {NoThread}, Goto(<<Fr("promote", NoQueue, b, Top.n)>> \o Rest) PROVE FormsInv'
    <3>1. Fr("promote", NoQueue, b, Top.n) \in Frame /\ Fr("promote", NoQueue, b, Top.n).op = "promote"
      BY <1>10, TopType, FrameForms DEF Fr, PromoteStep, Frame
    <3>2. stack'[host] = <<Fr("promote", NoQueue, b, Top.n), f>> \o u
      BY <2>2, <2>5, <2>8, PushTwice
    <3>3. HostForms'
      BY <2>1, <2>2, <2>6, <3>1, <3>2 DEF HostForms, f
    <3> QED
      BY <1>0, <2>1, <2>5, <2>8, <3>3 DEF FormsInv
  <2> QED
    BY <1>10, <2>4, <2>7, <2>8
<1>11. CASE LockStep
  <2> DEFINE m == Top.q
             f == Fr("promote", NoQueue, owner[m], prio[host])
             g == Fr("sleep", m, NoThread, 0)
  <2>1. /\ UNCHANGED host /\ stack[host] \in Seq(Plain) /\ Rest \in Seq(Plain) /\ m \in Mutexes /\ Top.t = host
    <3>1. stack[host] # <<>> /\ Top.op = "lock"
      BY <1>11 DEF LockStep, At
    <3>2. Top.t = host
      BY <1>0, <3>1, TopRuns DEF Quiet
    <3>3. m \in Mutexes /\ stack[host] \in Seq(Plain) /\ Rest \in Seq(Plain)
      BY <3>1, FormsTop DEF Frame
    <3> QED
      BY <1>11, <3>2, <3>3 DEF LockStep, SameFiber
  <2>2. CASE CanTake(m, host)
    BY <1>3, <1>11, <2>1, <2>2 DEF LockStep, Done
  <2>3. CASE ~ CanTake(m, host)
    <3>1. /\ tmutex' = [tmutex EXCEPT ![host] = m] /\ UNCHANGED owner
          /\ Goto(<<f, g>> \o stack[host])
      BY <1>11, <2>1, <2>3 DEF LockStep
    <3>2. owner[m] \notin {NoThread, host} /\ tmutex'[host] = m
      BY <1>0, <2>3, <3>1 DEF CanTake
    <3>3. f \in Frame /\ f.op = "promote"
      BY <1>0, <2>1, FrameForms DEF Fr
    <3>4. stack'[host] = <<f, g>> \o stack[host] /\ \A t \in Threads \ {host} : stack'[t] = stack[t]
      BY <3>1, GotoHere
    <3> HIDE DEF f
    <3>5. HostForms'
      BY <2>1, <3>1, <3>2, <3>3, <3>4 DEF HostForms, Blocks
    <3> QED
      BY <1>0, <1>11, <2>1, <3>4, <3>5 DEF FormsInv
  <2> QED
    BY <2>2, <2>3, <1>11 DEF Done
<1>12. CASE UnlockAllStep
  <2>1. Rest \in Seq(Plain)
    BY <1>12, FormsTop DEF UnlockAllStep, At
  <2> QED
    BY <1>3, <1>12, <2>1, UnlockAllReturns
<1>13. CASE SelectBegins \/ IdleEnds
  <2>1. Rest \in Seq(Plain) /\ UNCHANGED host
    BY <1>13, FormsTop DEF SelectBegins, IdleEnds, At, SameFiber
  <2>2. Goto(<<Fr("pick", NoQueue, NoThread, 0)>> \o Rest) \/ Goto(<<Fr("idle", NoQueue, NoThread, 0)>> \o Rest)
    BY <1>13 DEF SelectBegins, IdleEnds
  <2> QED
    BY <1>3, <2>1, <2>2, PlainForms, PushOn
<1>14. CASE Pick
  <2> DEFINE x == Head(queue[Least(pending)])
  <2>1. x \in Threads /\ SwitchTo(x)
    BY <1>0, <1>14, PickDispatches DEF Dispatch
  <2> HIDE DEF x
  <2>2. host' = x /\ (Goto(Rest) \/ Goto(<<>>))
    BY <2>1, Zenon DEF SwitchTo
  <2>3. Rest \in Seq(Plain)
    BY <1>14, FormsTop DEF Pick, At
  <2>4. \A t \in Threads : stack'[t] \in Seq(Plain)
    BY <1>0, <2>2, <2>3, GotoHere
  <2> QED
    BY <1>1, <2>1, <2>2, <2>4
<1>15. CASE (WakeStep \/ WakeEnds) /\ Top.q \in Mutexes
  <2>1. /\ stack[host] # <<>> /\ Top.op \in {"wake", "wakeResched", "wakeFiber"}
        /\ UNCHANGED <<host, owner>>
    BY <1>15 DEF WakeStep, WakeEnds, At, SameFiber, mutex
  <2>2. Top.op \in {"wake", "wakeResched"} /\ Top \in Frame /\ owner[Top.q] = NoThread /\ Rest \in Seq(Plain)
    BY <1>0, <1>15, <2>1, FormsTop, TopCases DEF Plain
  <2>3. CASE WakeEnds
    <3>1. SelectFrame(0) \in Plain
      <4>1. 0 \in 0 .. 1
        OBVIOUS
      <4> QED
        BY <4>1, PlainForms DEF HoldsPushed
    <3>2. <<SelectFrame(0)>> \o Rest \in Seq(Plain)
      BY <2>2, <3>1, PushOn
    <3>3. Goto(Rest) \/ Goto(<<SelectFrame(0)>> \o Rest)
      BY <2>3 DEF WakeEnds
    <3> QED
      BY <1>3, <2>1, <2>2, <3>2, <3>3
  <2>4. CASE WakeStep
    <3>1. Goto(<<[Top EXCEPT !.op = Readied(@)]>> \o Rest) \/ Goto(stack[host])
      BY <2>4 DEF WakeStep
    <3>2. stack[host] = <<Top>> \o Rest
      <4>1. stack[host] \in Seq(Frame)
        BY <1>0
      <4> QED
        BY <2>1, <4>1 DEF Top, Rest
    <3> DEFINE f == [Top EXCEPT !.op = Readied(@)]
    <3>3. f \in Frame /\ f.op \in {"wake", "wakeResched"} /\ f.q = Top.q
      BY <1>15, <2>2 DEF Frame, FrameOps, Readied
    <3> HIDE DEF f
    <3>4. CASE Goto(<<f>> \o Rest)
      BY <1>5, <1>15, <2>1, <2>2, <3>3, <3>4
    <3>5. CASE Goto(stack[host])
      BY <1>5, <1>15, <2>1, <2>2, <3>2, <3>5
    <3> QED
      BY <3>1, <3>4, <3>5 DEF f
  <2> QED
    BY <1>15, <2>3, <2>4
<1>16. CASE /\ \A t \in Threads : ~ SleepTimerFires(t)
            /\ ~ PromoteStep /\ ~ PropagateStep /\ ~ LockStep /\ ~ UnlockAllStep
            /\ ~ ((WakeStep \/ WakeEnds) /\ Top.q \in Mutexes)
            /\ \/ SelectRefused \/ (\E q \in Queues : IdleCallback(q)) \/ ReschedStep
               \/ SleepStep \/ SleptStep \/ WakeStep \/ WakeEnds
               \/ ExitedStep \/ JoinedStep \/ TickedStep \/ EndDeferredStep
  <2>1. /\ stack[host] # <<>>
        /\ Top.op \notin {"promote", "propagate"} /\ (Top.op \in {"wake", "wakeResched"} => Top.q \notin Mutexes)
    BY <1>16 DEF SelectRefused, IdleCallback, ReschedStep, SleepStep, SleptStep, WakeStep, WakeEnds,
                ExitedStep, JoinedStep, TickedStep, EndDeferredStep, At
  <2>2. stack[host] \in Seq(Plain) \/ (At("sleep") /\ Rest \in Seq(Plain))
    BY <2>1, FormsTop DEF At
  <2> QED
    BY <1>2, <1>16, <2>2, FramesPush, PlainForms
<1>17. CASE FiberEndStep
  BY <1>0, <1>17, TopCases DEF FiberEndStep, At
<1>18. CASE FrameStep
  BY <1>8, <1>9, <1>10, <1>11, <1>12, <1>13, <1>14, <1>15, <1>16, <1>17, <1>18 DEF FrameStep, Done
<1>19. ASSUME NEW t \in Threads, OSResumeThread(t) \/ OSSuspendThread(t) PROVE Done
  BY <1>0, <1>6, <1>19 DEF OSResumeThread, OSSuspendThread, SameFiber
<1>20. CASE OSSleepTicks
  <2>1. Sleeper \in Threads
    BY <1>20 DEF OSSleepTicks, Sleeper, IInv, TypeOK, FibersTypeOK, SchedulerTypeOK
  <2>2. <<Fr("ticked", NoQueue, Sleeper, 0)>> \in Seq(Plain)
    BY <2>1, PlainForms DEF HoldsPushed
  <2> QED
    BY <1>6, <1>20, <2>1, <2>2 DEF OSSleepTicks, SameFiber
<1>21. CASE OSThreadCall
  <2>1. UNCHANGED <<host, tmutex>> /\ InGuestCode
    BY <1>21 DEF OSThreadCall, CallHandler, SameFiber, thread, Calls
  <2>2. ASSUME NEW f \in Plain, Goto(<<f>>) PROVE Done
    <3>1. <<f>> \in Seq(Plain)
      OBVIOUS
    <3> QED
      BY <1>3, <2>1, <2>2, <3>1
  <2>3. ASSUME NEW q \in Queues, Goto(<<Fr("sleep", q, NoThread, 0)>>) PROVE Done
    <3>1. Fr("sleep", q, NoThread, 0) \in Frame /\ Fr("sleep", q, NoThread, 0).op = "sleep"
          /\ Fr("sleep", q, NoThread, 0).q = q /\ q \notin Mutexes
      BY FrameForms, AddressesAssumption, QueueIdsFacts DEF Fr
    <3>2. <<Fr("sleep", q, NoThread, 0)>> \o <<>> = <<Fr("sleep", q, NoThread, 0)>>
      OBVIOUS
    <3> QED
      BY <1>0, <1>5, <1>7, <2>1, <2>3, <3>1, <3>2
  <2>4. ASSUME NEW q \in Queues, Goto(<<WakeFrame(q)>>) PROVE Done
    <3>1. WakeFrame(q) \in Plain
      BY PlainForms, AddressesAssumption, QueueIdsFacts DEF HoldsPushed
    <3> QED
      BY <2>2, <2>4, <3>1
  <2>5. CASE Goto(<<SelectFrame(1)>>)
    <3>1. SelectFrame(1) \in Plain
      <4>1. 1 \in 0 .. 1
        OBVIOUS
      <4> QED
        BY <4>1, PlainForms DEF HoldsPushed
    <3> QED
      BY <2>2, <2>5, <3>1
  <2> QED
    BY <1>21, <2>3, <2>4, <2>5 DEF OSThreadCall, CallHandler
<1>22. ASSUME NEW m \in Mutexes, OSUnlockMutex(m) PROVE Done
  <2>1. UNCHANGED host /\ (Goto(<<>>) \/ (Goto(<<WakeFrame(m)>>) /\ owner' = [owner EXCEPT ![m] = NoThread]))
    BY <1>22 DEF OSUnlockMutex, SameFiber
  <2>2. /\ WakeFrame(m) \in Frame /\ WakeFrame(m).op = "wake" /\ WakeFrame(m).q = m
        /\ <<WakeFrame(m)>> \o <<>> = <<WakeFrame(m)>>
    BY FrameForms, QueueIdsFacts DEF WakeFrame, Fr
  <2>3. CASE Goto(<<>>)
    BY <1>0, <1>3, <2>1, <2>3
  <2>4. CASE Goto(<<WakeFrame(m)>>) /\ owner' = [owner EXCEPT ![m] = NoThread]
    BY <1>0, <1>5, <2>1, <2>2, <2>4
  <2> QED
    BY <2>1, <2>3, <2>4
<1>23. ASSUME NEW t \in Threads, OSJoinThread(t) PROVE Done
  <2>1. UNCHANGED <<host, tmutex>> /\ InGuestCode
    BY <1>23 DEF OSJoinThread, SameFiber, Calls
  <2> DEFINE f == Fr("sleep", t, NoThread, 0)
             j == Fr("joined", NoQueue, t, 0)
  <2>2. f \in Frame /\ f.op = "sleep" /\ f.q \notin Mutexes /\ j \in Plain
    BY FrameForms, AddressesAssumption, QueueIdsFacts, PlainForms DEF Fr, HoldsPushed
  <2>3. UNCHANGED stack \/ Goto(<<f, j>>)
    BY <1>23 DEF OSJoinThread
  <2> HIDE DEF f, j
  <2>4. <<j>> \in Seq(Plain) /\ <<f, j>> = <<f>> \o <<j>>
    <3>1. <<>> \in Seq(Plain) /\ <<j>> \o <<>> = <<j>> /\ <<f, j>> \o <<>> = <<f, j>> /\ <<j>> \in Seq(Plain)
      BY <2>2
    <3>2. <<f>> \o (<<j>> \o <<>>) = <<f, j>> \o <<>>
      BY <3>1, PushTwice
    <3> QED
      BY <3>1, <3>2
  <2>5. CASE UNCHANGED stack
    BY <1>0, <1>1, <1>7, <2>1, <2>5
  <2> QED
    BY <1>5, <1>7, <2>1, <2>2, <2>3, <2>4, <2>5
<1>24. ~ FiberReturns
  BY <1>0 DEF FiberReturns, Calls, GuestsKeepTheRules
<1>25. CASE GuestCall
  <2>1. CASE OSSleepTicks \/ OSThreadCall \/ (\E t \in Threads : OSResumeThread(t) \/ OSSuspendThread(t) \/ OSJoinThread(t))
             \/ \E m \in Mutexes : OSUnlockMutex(m)
    BY <1>19, <1>20, <1>21, <1>22, <1>23, <2>1
  <2>2. CASE ~ (OSSleepTicks \/ OSThreadCall \/ (\E t \in Threads : OSResumeThread(t) \/ OSSuspendThread(t) \/ OSJoinThread(t))
             \/ \E m \in Mutexes : OSUnlockMutex(m))
    BY <1>2, <1>24, <1>25, <2>2, CallsPush, PlainForms
  <2> QED
    BY <2>1, <2>2 DEF Done
<1>26. CASE UNCHANGED vars
  BY <1>26 DEF vars, thread, mutex, fiber, FormsInv, HostForms, Blocks
<1> QED
  BY <1>18, <1>25, <1>26 DEF Next, Done

\* What a step may do to the state of thread t.
Moves(t) ==
    \/ state'[t] = state[t]
    \/ state[t] = "NONE" /\ state'[t] = "READY" /\ \E d \in BOOLEAN : OSCreateThread(t, d)
    \/ state[t] = "READY" /\ state'[t] = "RUNNING" /\ Pick
    \/ state[t] = "RUNNING" /\ state'[t] = "READY" /\ t = host
       /\ (SelectBegins \/ OSSuspendThread(t) \/ OSSleepTicks)
    \/ state[t] = "RUNNING" /\ state'[t] = "WAITING" /\ t = host /\ link'[t] = Top.q
       /\ SleepStep /\ disable = 0
    \/ state[t] = "WAITING" /\ state'[t] = "READY" /\ WakeStep /\ link[t] = Top.q
    \/ Terminated(t)' /\ (Terminated(t) \/ OSCancelThread(t) \/ (OSExitThread /\ t = host))

\* A waiter that still waits is where it was.
WaitsOn(t) == state[t] = "WAITING" /\ state'[t] = "WAITING" => link'[t] = link[t]

\* OSResumeThread and OSSuspendThread leave every state alone, but that of the thread
\* that runs and suspends itself.
LEMMA ResumeMoves ==
    ASSUME IInv, SafeInv, NEW x \in Threads, NEW rest, NEW t \in Threads
    PROVE  /\ ResumeThread(x, rest) => state' = state /\ WaitsOn(t)
           /\ SuspendThread(x, rest) =>
                 /\ WaitsOn(t)
                 /\ \/ state'[t] = state[t]
                    \/ state[t] = "RUNNING" /\ state'[t] = "READY" /\ t = host /\ t = x
<1>0. /\ host \in Threads /\ state \in [Threads -> States] /\ link \in [Threads -> QueueIds \cup {NoQueue}]
      /\ suspend \in [Threads -> Nat]
      /\ \A y \in Threads : state[y] = "RUNNING" => y = host /\ suspend[y] = 0
  BY DEF SafeInv, HostInv, Runs, Yields, Idles, Picks, IInv, TypeOK, ThreadsTypeOK, QueuesTypeOK, FibersTypeOK
<1>1. ASSUME ResumeThread(x, rest) PROVE state' = state /\ WaitsOn(t)
  <2>1. CASE suspend[x] # 1
    BY <1>1, <2>1 DEF ResumeThread, KeepQueues, WaitsOn
  <2>2. CASE suspend[x] = 1
    <3>1. state[x] # "RUNNING"
      BY <1>0, <2>2
    <3>2. state' = state
      <4>1. \/ state' = state
            \/ state[x] = "READY" /\ state' = [state EXCEPT ![x] = "READY"]
        BY <1>1, <2>2, <3>1 DEF ResumeThread
      <4> QED
        BY <1>0, <4>1
    <3>3. WaitsOn(t)
      <4>1. CASE state[x] = "READY"
        <5>1. \E p : link' = [link EXCEPT ![x] = p]
          BY <1>1, <2>2, <4>1 DEF ResumeThread, Insert
        <5> QED
          BY <1>0, <4>1, <5>1 DEF WaitsOn
      <4>2. CASE state[x] = "WAITING"
        <5>1. \E p : Reinsert(x, p)
          BY <1>1, <2>2, <4>2 DEF ResumeThread
        <5>2. link' = link \/ link' = [link EXCEPT ![x] = link[x]]
          BY <5>1 DEF Reinsert, Insert, KeepQueues
        <5> QED
          BY <1>0, <5>2 DEF WaitsOn
      <4>3. CASE state[x] \notin {"READY", "WAITING"}
        BY <1>1, <2>2, <3>1, <4>3 DEF ResumeThread, KeepQueues, WaitsOn
      <4> QED
        BY <4>1, <4>2, <4>3
    <3> QED
      BY <3>2, <3>3
  <2> QED
    BY <2>1, <2>2
<1>2. ASSUME SuspendThread(x, rest)
      PROVE  /\ WaitsOn(t)
             /\ \/ state'[t] = state[t]
                \/ state[t] = "RUNNING" /\ state'[t] = "READY" /\ t = host /\ t = x
  <2>1. \/ state' = state
        \/ state[x] = "RUNNING" /\ state' = [state EXCEPT ![x] = "READY"]
    BY <1>2 DEF SuspendThread
  <2>2. WaitsOn(t)
    <3>1. CASE suspend[x] # 0
      BY <1>2, <3>1 DEF SuspendThread, KeepQueues, WaitsOn
    <3>2. CASE suspend[x] = 0 /\ state[x] = "READY"
      <4>1. link' = [link EXCEPT ![x] = NoQueue]
        BY <1>2, <3>2 DEF SuspendThread, Delink, Delinked
      <4> QED
        BY <1>0, <3>2, <4>1 DEF WaitsOn
    <3>3. CASE suspend[x] = 0 /\ state[x] = "WAITING"
      <4>1. Reinsert(x, NumPrio)
        BY <1>2, <3>3 DEF SuspendThread
      <4>2. link' = link \/ link' = [link EXCEPT ![x] = link[x]]
        BY <4>1 DEF Reinsert, Insert, KeepQueues
      <4> QED
        BY <1>0, <4>2 DEF WaitsOn
    <3>4. CASE suspend[x] = 0 /\ state[x] \notin {"READY", "WAITING"}
      BY <1>2, <3>4 DEF SuspendThread, KeepQueues, WaitsOn
    <3> QED
      BY <3>1, <3>2, <3>3, <3>4
  <2> QED
    BY <1>0, <2>1, <2>2
<1> QED
  BY <1>1, <1>2

\* Every step moves a thread from list to list in one of these ways.
LEMMA MovesStep ==
    ASSUME GuestsKeepTheRules, IInv, SafeInv, [Next]_vars, NEW t \in Threads
    PROVE  Moves(t) /\ WaitsOn(t)
<1>0. /\ HostInv /\ QueuesInv /\ guest \in Guests /\ host \in Threads
      /\ state \in [Threads -> States] /\ link \in [Threads -> QueueIds \cup {NoQueue}]
      /\ queue \in [QueueIds -> Seq(Threads)]
  BY DEF SafeInv, HostInv, IInv, TypeOK, ThreadsTypeOK, QueuesTypeOK, FibersTypeOK
<1>1. ASSUME UNCHANGED <<state, link>> PROVE Moves(t) /\ WaitsOn(t)
  BY <1>1 DEF Moves, WaitsOn
<1>2. CASE \/ SelectRefused \/ (\E q \in Queues : IdleCallback(q)) \/ IdleEnds \/ ReschedStep
           \/ LockStep \/ WakeEnds \/ UnlockAllStep \/ ExitedStep
           \/ EndDeferredStep
           \/ OSThreadCall \/ (\E m \in Mutexes : OSLockMutex(m) \/ OSUnlockMutex(m))
           \/ OSDisableScheduler \/ OSEnableScheduler
           \/ (\E q \in Queues, n \in 0 .. 1 : DeferredCallback(q, n))
           \/ UNCHANGED vars
  <2>1. UNCHANGED <<state, link>>
    BY <1>2 DEF SelectRefused, IdleCallback, IdleEnds, ReschedStep, LockStep,
                WakeEnds, UnlockAllStep, ExitedStep, EndDeferredStep, OSThreadCall,
                OSLockMutex, OSUnlockMutex, OSDisableScheduler, OSEnableScheduler, DeferredCallback,
                thread, vars
  <2> QED
    BY <1>1, <2>1
<1>3. CASE PromoteStep \/ PropagateStep
  <2>1. \/ UNCHANGED link
        \/ \E x, p : SetThreadEffectivePriority(x, p)
    BY <1>3 DEF PromoteStep, PropagateStep, KeepQueues
  <2>2. UNCHANGED state
    BY <1>3 DEF PromoteStep, PropagateStep
  <2>3. ASSUME NEW x, NEW p, SetThreadEffectivePriority(x, p) PROVE WaitsOn(t)
    <3>1. CASE state[x] = "READY"
      <4>1. link' = [link EXCEPT ![x] = p]
        BY <2>3, <3>1 DEF SetThreadEffectivePriority, Insert
      <4> QED
        BY <1>0, <3>1, <4>1 DEF WaitsOn
    <3>2. CASE state[x] = "WAITING"
      <4>1. Reinsert(x, p)
        BY <2>3, <3>2 DEF SetThreadEffectivePriority
      <4>2. link' = link \/ link' = [link EXCEPT ![x] = link[x]]
        BY <4>1 DEF Reinsert, Insert, KeepQueues
      <4> QED
        BY <1>0, <4>2 DEF WaitsOn
    <3>3. CASE state[x] \notin {"READY", "WAITING"}
      BY <2>3, <3>3 DEF SetThreadEffectivePriority, KeepQueues, WaitsOn
    <3> QED
      BY <3>1, <3>2, <3>3
  <2> QED
    BY <2>1, <2>2, <2>3 DEF Moves, WaitsOn
<1>4. CASE \E x \in Threads : SleepTimerFires(x) \/ OSResumeThread(x) \/ OSSuspendThread(x)
  <2>1. ASSUME NEW x \in Threads, SleepTimerFires(x) PROVE Moves(t) /\ WaitsOn(t)
    <3>1. UNCHANGED <<state, link>> \/ ResumeThread(x, stack[host])
      BY <2>1 DEF SleepTimerFires
    <3> QED
      BY <1>1, <3>1, ResumeMoves DEF Moves
  <2>2. ASSUME NEW x \in Threads, OSResumeThread(x) PROVE Moves(t) /\ WaitsOn(t)
    BY <2>2, ResumeMoves DEF OSResumeThread, Moves
  <2>3. ASSUME NEW x \in Threads, OSSuspendThread(x) PROVE Moves(t) /\ WaitsOn(t)
    <3>1. SuspendThread(x, <<>>)
      BY <2>3 DEF OSSuspendThread
    <3> QED
      BY <2>3, <3>1, ResumeMoves DEF Moves
  <2> QED
    BY <1>4, <2>1, <2>2, <2>3
<1>5. CASE OSSleepTicks
  <2>1. Sleeper \in Threads
    BY <1>5 DEF OSSleepTicks, Sleeper, IInv, TypeOK, FibersTypeOK, SchedulerTypeOK
  <2>2. SuspendThread(Sleeper, <<Fr("ticked", NoQueue, Sleeper, 0)>>)
    BY <1>5 DEF OSSleepTicks
  <2> QED
    BY <1>5, <2>1, <2>2, ResumeMoves DEF Moves
<1>6. CASE SelectBegins
  <2>1. CASE state[running] = "RUNNING"
    <3>1. state' = [state EXCEPT ![running] = "READY"] /\ link' = [link EXCEPT ![running] = prio[running]]
      BY <1>6, <2>1 DEF SelectBegins
    <3>2. Runs \/ Yields \/ Idles
      BY <1>0, <1>6, TopRuns DEF SelectBegins, At
    <3>3. running = host
      BY <1>6, <2>1, <3>2 DEF Runs, Yields, Idles, SelectBegins, SelectRefuses
    <3> QED
      BY <1>0, <1>6, <2>1, <3>1, <3>3 DEF Moves, WaitsOn
  <2>2. CASE state[running] # "RUNNING"
    BY <1>1, <1>6, <2>2 DEF SelectBegins
  <2> QED
    BY <2>1, <2>2
<1>7. CASE Pick
  <2> DEFINE x == Head(queue[Least(pending)])
  <2>1. x \in Threads /\ state[x] = "READY" /\ Dispatch(Least(pending))
    BY <1>0, <1>7, PickDispatches
  <2>2. state' = [state EXCEPT ![x] = "RUNNING"] /\ link' = [link EXCEPT ![x] = NoQueue]
    BY <2>1 DEF Dispatch, Delinked
  <2> HIDE DEF x
  <2> QED
    BY <1>0, <1>7, <2>1, <2>2 DEF Moves, WaitsOn
<1>8. CASE SleepStep
  <2>1. Runs /\ running # NoThread
    <3>1. Runs
      BY <1>0, <1>8, TopRuns DEF SleepStep, At
    <3> QED
      BY <1>0, <3>1, AddressesAssumption DEF Runs
  <2>2. \/ UNCHANGED <<state, link>>
        \/ /\ disable = 0
           /\ state' = [state EXCEPT ![host] = "WAITING"]
           /\ link' = [link EXCEPT ![host] = Top.q]
    BY <1>8, <2>1 DEF SleepStep, KeepQueues, Insert, Runs
  <2> QED
    BY <1>0, <1>1, <1>8, <2>1, <2>2 DEF Moves, WaitsOn, Runs
<1>9. CASE SleptStep
  <2>1. Runs /\ Top.t = host
    BY <1>0, <1>9, TopRuns DEF SleptStep, At, Quiet
  <2> QED
    BY <1>1, <1>9, <2>1 DEF SleptStep, Runs
<1>10. CASE WakeStep
  <2> DEFINE x == Head(queue[Top.q])
  <2>1. /\ Top.q \in WaitQueues /\ queue[Top.q] # <<>>
    BY <1>10, TopType DEF WakeStep, At, Frame
  <2>2. x \in Threads /\ Linked(queue[Top.q], x)
    <3>1. queue[Top.q] \in Seq(Threads)
      BY <1>0, <2>1, PriosAreNoWaitQueues
    <3>2. x = queue[Top.q][1] /\ 1 \in 1 .. Len(queue[Top.q]) /\ x \in Threads
      BY <2>1, <3>1
    <3> QED
      BY <3>2 DEF Linked
  <2> HIDE DEF x
  <2>3. state[x] = "WAITING" /\ link[x] = Top.q
    <3>1. Top.q \in QueueIds /\ Top.q \notin Prios
      BY <2>1, PriosAreNoWaitQueues
    <3> QED
      BY <1>0, <2>2, <3>1, Zenon DEF QueuesInv, Shelved
  <2>4. state' = [state EXCEPT ![x] = "READY"] /\ \A y \in Threads \ {x} : link'[y] = link[y]
    <3>1. ~ Terminated(x)
      BY <2>3 DEF Terminated
    <3>2. state' = [state EXCEPT ![x] = "READY"]
      BY <1>10, <3>1 DEF WakeStep, x
    <3>3. link' = link \/ \E p : link' = [link EXCEPT ![x] = p]
      BY <1>10, <3>1, Zenon DEF WakeStep, Delinked, x
    <3> QED
      BY <1>0, <3>2, <3>3
  <2> QED
    BY <1>0, <1>10, <2>2, <2>3, <2>4 DEF Moves, WaitsOn
<1>11. CASE JoinedStep \/ \E x \in Threads : OSJoinThread(x) \/ OSDetachThread(x)
  <2>1. UNCHANGED link /\ (UNCHANGED state \/ \E x : state[x] = "MORIBUND" /\ Collect(x))
    BY <1>11 DEF JoinedStep, OSJoinThread, OSDetachThread
  <2> QED
    BY <1>0, <2>1 DEF Collect, Moves, WaitsOn, Terminated
<1>12. CASE TickedStep
  <2>1. Runs /\ Top.t = host
    BY <1>0, <1>12, TopRuns DEF TickedStep, At, Quiet
  <2> QED
    BY <1>1, <1>12, <2>1 DEF TickedStep, Runs
<1>13. CASE FiberEndStep \/ FiberReturns
  BY <1>0, <1>13, TopCases DEF FiberEndStep, FiberReturns, Calls, At, GuestsKeepTheRules
<1>14. ASSUME NEW x \in Threads, NEW d \in BOOLEAN, OSCreateThread(x, d) PROVE Moves(t) /\ WaitsOn(t)
  <2>1. state[x] = "NONE" /\ state' = [state EXCEPT ![x] = "READY"] /\ UNCHANGED link
    BY <1>14 DEF OSCreateThread
  <2> QED
    BY <1>0, <1>14, <2>1 DEF Moves, WaitsOn
<1>15. ASSUME OSExitThread PROVE Moves(t) /\ WaitsOn(t)
  <2>1. running = host /\ UNCHANGED link
    BY <1>0, <1>15, GuestRuns DEF OSExitThread, Calls, Runs
  <2>2. \E s \in {"NONE", "MORIBUND"} : state' = [state EXCEPT ![host] = s]
    BY <1>15, <2>1 DEF OSExitThread, TerminateThread
  <2> QED
    BY <1>0, <1>15, <2>1, <2>2 DEF Moves, WaitsOn, Terminated
<1>16. ASSUME NEW x \in Threads, OSCancelThread(x) PROVE Moves(t) /\ WaitsOn(t)
  <2>1. \E s \in {"NONE", "MORIBUND"} : state' = [state EXCEPT ![x] = s]
    BY <1>16 DEF OSCancelThread, TerminateThread
  <2>2. link' = link \/ link' = [link EXCEPT ![x] = NoQueue]
    BY <1>16 DEF OSCancelThread, Delink, Delinked, KeepQueues
  <2> QED
    BY <1>0, <1>16, <2>1, <2>2 DEF Moves, WaitsOn, Terminated
<1> QED
  BY <1>2, <1>3, <1>4, <1>5, <1>6, <1>7, <1>8, <1>9, <1>10, <1>11, <1>12, <1>13, <1>14, <1>15, <1>16
     DEF Next, FrameStep, GuestCall

\* A thread that waits for a mutex stays in OSLockMutex.
LEMMA LockingStep ==
    ASSUME GuestsKeepTheRules, IInv, SafeInv, Locking, [Next]_vars
    PROVE  Locking'
<1>0. /\ HostInv /\ host \in Threads /\ guest \in Guests
      /\ state \in [Threads -> States] /\ stack \in [Threads -> Seq(Frame)]
      /\ tmutex \in [Threads -> Mutexes \cup {NoQueue}]
  BY DEF SafeInv, HostInv, IInv, TypeOK, ThreadsTypeOK, FibersTypeOK
<1>1. ASSUME \A t \in Threads : Terminated(t) => Terminated(t)',
             \A t \in Threads \ {host} : stack'[t] = stack[t] /\ tmutex'[t] = tmutex[t],
             \/ state'[host] \in {"NONE", "MORIBUND"} \/ tmutex'[host] = NoQueue
             \/ Has(stack'[host], {"lock"})
             \/ tmutex'[host] = tmutex[host] /\ (Has(stack[host], {"lock"}) => Has(stack'[host], {"lock"}))
      PROVE  Locking'
  <2>1. ASSUME NEW t \in Threads, ~ Terminated(t)', tmutex'[t] # NoQueue PROVE Has(stack'[t], {"lock"})
    <3>1. ~ Terminated(t)
      BY <1>1, <2>1
    <3>2. CASE t = host
      <4>1. tmutex[host] # NoQueue => Has(stack[host], {"lock"})
        BY <3>1, <3>2 DEF Locking
      <4> QED
        BY <1>1, <2>1, <3>2, <4>1 DEF Terminated
    <3>3. CASE t # host
      <4>1. stack'[t] = stack[t] /\ tmutex'[t] = tmutex[t]
        BY <1>1, <3>3
      <4>2. Has(stack[t], {"lock"})
        BY <2>1, <3>1, <4>1 DEF Locking
      <4> QED
        BY <4>1, <4>2
    <3> QED
      BY <3>2, <3>3
  <2> QED
    BY <2>1 DEF Locking
<1>2. ASSUME InGuestCode PROVE Runs /\ tmutex[host] = NoQueue
  <2>1. Runs /\ stack[host] = <<>>
    BY <1>0, <1>2, GuestRuns
  <2> QED
    BY <1>0, <2>1 DEF Locking, Runs, Terminated, Has
<1>3. ASSUME NEW t \in Threads, ~ (\E d \in BOOLEAN : OSCreateThread(t, d)), Terminated(t) PROVE Terminated(t)'
  BY <1>0, <1>3, MovesStep DEF Moves, Terminated
<1>4. CASE FrameStep /\ ~ Pick /\ ~ FiberEndStep
  <2>1. Piles /\ \A t \in Threads \ {host} : stack'[t] = stack[t]
    BY <1>4, FramePiles, PilesOthers
  <2>2. \A t \in Threads, d \in BOOLEAN : ~ OSCreateThread(t, d)
    BY <2>1 DEF Piles, OSCreateThread, Calls, InGuestCode
  <2>3. \A t \in Threads : Terminated(t) => Terminated(t)'
    BY <1>3, <2>2
  <2>4. CASE LockStep
    <3>1. stack[host] # <<>> /\ Top.op = "lock" /\ Top.t = host
      <4>1. stack[host] # <<>> /\ Top.op = "lock"
        BY <2>4 DEF LockStep, At
      <4> QED
        BY <1>0, <4>1, TopRuns DEF Quiet
    <3>2. \A t \in Threads \ {host} : tmutex'[t] = tmutex[t]
      BY <1>0, <2>4, <3>1 DEF LockStep
    <3>3. CASE CanTake(Top.q, Top.t)
      <4>1. tmutex' = [tmutex EXCEPT ![host] = NoQueue]
        BY <2>4, <3>1, <3>3 DEF LockStep
      <4>2. tmutex'[host] = NoQueue
        BY <1>0, <4>1
      <4> QED
        BY <1>1, <2>1, <2>3, <3>2, <4>2
    <3>4. CASE ~ CanTake(Top.q, Top.t)
      <4>1. \E f, g : stack'[host] = <<f, g>> \o stack[host]
        <5>1. \E f, g : Goto(<<f, g>> \o stack[host])
          BY <2>4, <3>1, <3>4 DEF LockStep
        <5> QED
          BY <5>1, GotoHere
      <4>2. stack[host] \in Seq(Frame) /\ Head(stack[host]).op \in {"lock"}
        BY <1>0, <3>1 DEF Top
      <4>3. Has(stack[host], {"lock"})
        BY <3>1, <4>2, HasPush
      <4>4. \A f, g : Has(<<f, g>> \o stack[host], {"lock"})
        BY <4>2, <4>3, HasPush
      <4>5. Has(stack'[host], {"lock"})
        BY <4>1, <4>4
      <4> QED
        BY <1>1, <2>1, <2>3, <3>2, <4>5
    <3> QED
      BY <3>3, <3>4
  <2>5. CASE ~ LockStep
    <3>1. UNCHANGED tmutex /\ Top.op # "lock"
      BY <1>4, <2>5, Zenon
         DEF FrameStep, SelectRefused, SelectBegins, IdleCallback, IdleEnds, ReschedStep, SleepTimerFires, Polling,
             PromoteStep, PropagateStep, SleepStep, SleptStep, WakeStep, WakeEnds, UnlockAllStep,
             ExitedStep, JoinedStep, TickedStep, EndDeferredStep, thread, At
    <3>2. Has(stack[host], {"lock"}) => Has(stack'[host], {"lock"})
      BY <2>1, <3>1, PilesKeep
    <3> QED
      BY <1>1, <2>1, <2>3, <3>1, <3>2
  <2> QED
    BY <2>4, <2>5
<1>5. CASE Pick
  <2> DEFINE x == Head(queue[Least(pending)])
  <2>1. x \in Threads /\ Dispatch(Least(pending)) /\ UNCHANGED tmutex
    BY <1>0, <1>5, PickDispatches DEF Pick, SafeInv
  <2>2. SwitchTo(x)
    BY <2>1 DEF Dispatch
  <2>3. Goto(Rest) \/ (Goto(<<>>) /\ Terminated(host))
    BY <2>2, Zenon DEF SwitchTo
  <2>4. stack[host] # <<>> /\ Top.op = "pick"
    BY <1>5 DEF Pick, At
  <2>5. Has(stack[host], {"lock"}) => Has(Rest, {"lock"})
    BY <1>0, <2>4, HasPush DEF Top, Rest
  <2>6. \A t \in Threads : Terminated(t) => Terminated(t)'
    BY <1>3, <2>4 DEF OSCreateThread, Calls, InGuestCode
  <2>7. state'[host] \in {"NONE", "MORIBUND"} \/ (Has(stack[host], {"lock"}) => Has(stack'[host], {"lock"}))
    <3>1. CASE Goto(Rest)
      <4>1. stack'[host] = Rest
        BY <3>1, GotoHere
      <4> QED
        BY <2>5, <4>1
    <3>2. CASE Terminated(host)
      BY <1>0, <2>6, <3>2 DEF Terminated
    <3> QED
      BY <2>3, <3>1, <3>2
  <2>8. \A t \in Threads \ {host} : stack'[t] = stack[t]
    BY <2>3, GotoHere
  <2> QED
    BY <1>1, <2>1, <2>6, <2>7, <2>8
<1>6. CASE FiberEndStep
  BY <1>0, <1>6, TopCases DEF FiberEndStep, At
<1>7. ASSUME NEW t \in Threads, NEW d \in BOOLEAN, OSCreateThread(t, d) PROVE Locking'
  <2>1. tmutex' = [tmutex EXCEPT ![t] = NoQueue]
    BY <1>7 DEF OSCreateThread
  <2>2. \A x \in Threads \ {t} : state'[x] = state[x] /\ stack'[x] = stack[x]
    BY <1>0, <1>7 DEF OSCreateThread
  <2>3. tmutex'[t] = NoQueue /\ \A x \in Threads \ {t} : tmutex'[x] = tmutex[x]
    BY <1>0, <2>1
  <2>4. \A x \in Threads \ {t} : Terminated(x)' <=> Terminated(x)
    BY <2>2 DEF Terminated
  <2> QED
    BY <2>2, <2>3, <2>4 DEF Locking
<1>8. ASSUME NEW t \in Threads, NEW rest, TerminateThread(t, rest), UNCHANGED tmutex, InGuestCode PROVE Locking'
  <2>1. /\ Terminated(t)'
        /\ \A x \in Threads \ {t} : state'[x] = state[x]
        /\ \A x \in Threads \ {t, host} : stack'[x] = stack[x]
    BY <1>0, <1>8 DEF TerminateThread, Terminated
  <2>2. \A x \in Threads \ {t} : Terminated(x)' <=> Terminated(x)
    BY <2>1 DEF Terminated
  <2> QED
    BY <1>2, <1>8, <2>1, <2>2 DEF Locking
<1>9. CASE OSExitThread \/ \E t \in Threads : OSCancelThread(t)
  <2>1. CASE OSExitThread
    <3>1. running \in Threads /\ InGuestCode /\ UNCHANGED tmutex
          /\ TerminateThread(running, <<Fr("exited", NoQueue, NoThread, 0)>>)
      BY <2>1 DEF OSExitThread, Calls
    <3> QED
      BY <1>8, <3>1
  <2>2. ASSUME NEW t \in Threads, OSCancelThread(t) PROVE Locking'
    BY <1>8, <2>2 DEF OSCancelThread, Calls
  <2> QED
    BY <1>9, <2>1, <2>2
<1>10. CASE GuestCall /\ ~ OSExitThread /\ (\A t \in Threads : ~ OSCancelThread(t))
                      /\ \A t \in Threads, d \in BOOLEAN : ~ OSCreateThread(t, d)
  <2>1. InGuestCode /\ \A t \in Threads \ {host} : stack'[t] = stack[t]
    BY <1>0, <1>10, CallsOthers
  <2>2. UNCHANGED tmutex
    BY <1>10, Zenon
       DEF GuestCall, OSResumeThread, OSSuspendThread, OSSleepTicks, OSThreadCall, OSLockMutex, OSUnlockMutex,
           OSJoinThread, OSDetachThread, OSDisableScheduler, OSEnableScheduler, DeferredCallback, FiberReturns, thread
  <2>3. \A t \in Threads : Terminated(t) => Terminated(t)'
    BY <1>3, <1>10
  <2> QED
    BY <1>1, <1>2, <2>1, <2>2, <2>3
<1>11. CASE UNCHANGED vars
  BY <1>11 DEF vars, thread, fiber, Locking, Terminated
<1> QED
  BY <1>4, <1>5, <1>6, <1>7, <1>9, <1>10, <1>11 DEF Next, GuestCall

\* What a step may do to the suspensions and the priority of thread t.
Prices(t) ==
    \/ suspend'[t] = suspend[t] /\ prio'[t] = prio[t]
    \/ \E rest : ResumeThread(t, rest)
                 /\ (OSResumeThread(t) \/ (SleepTimerFires(t) /\ state[t] = "READY" /\ rest = stack[host]))
    \/ \E rest : SuspendThread(t, rest) /\ (OSSuspendThread(t) \/ (OSSleepTicks /\ t = host))
    \/ suspend[t] = 0 /\ suspend'[t] = 0 /\ (PromoteStep \/ PropagateStep) /\ t = Top.t
    \/ suspend'[t] = suspend[t] /\ t = host /\ \E m \in Mutexes : OSUnlockMutex(m)
    \/ \E d \in BOOLEAN : OSCreateThread(t, d)

\* What a step may do to the mutex that thread t waits for, and to the owner of m.
Owns(t, m) ==
    /\ tmutex'[t] = tmutex[t] \/ (LockStep /\ t = host) \/ \E d \in BOOLEAN : OSCreateThread(t, d)
    /\ \/ owner'[m] = owner[m]
       \/ LockStep /\ m = Top.q /\ owner[m] = NoThread /\ owner'[m] = host /\ CanTake(m, host)
       \/ OSUnlockMutex(m) /\ owner[m] = host /\ owner'[m] = NoThread /\ Goto(<<WakeFrame(m)>>)

\* Every step changes a priority or a suspend count in one of these ways.
LEMMA PricesStep ==
    ASSUME GuestsKeepTheRules, IInv, SafeInv, [Next]_vars, NEW t \in Threads
    PROVE  Prices(t)
<1>0. /\ HostInv /\ guest \in Guests /\ host \in Threads
      /\ suspend \in [Threads -> Nat] /\ prio \in [Threads -> 0 .. NumPrio]
  BY DEF SafeInv, HostInv, IInv, TypeOK, ThreadsTypeOK, FibersTypeOK
<1>1. ASSUME UNCHANGED <<suspend, prio>> PROVE Prices(t)
  BY <1>1 DEF Prices
<1>2. CASE \/ SelectRefused \/ SelectBegins \/ (\E q \in Queues : IdleCallback(q)) \/ IdleEnds \/ Pick \/ ReschedStep
           \/ SleepStep \/ SleptStep \/ LockStep \/ WakeStep \/ WakeEnds \/ UnlockAllStep \/ ExitedStep
           \/ JoinedStep \/ EndDeferredStep
  <2>1. UNCHANGED <<suspend, prio>>
    BY <1>2, Zenon
       DEF SelectRefused, SelectBegins, IdleCallback, IdleEnds, Pick, ReschedStep, SleepStep, SleptStep, LockStep,
           WakeStep, WakeEnds, UnlockAllStep, ExitedStep, JoinedStep, EndDeferredStep, thread
  <2> QED
    BY <1>1, <2>1
<1>3. CASE \/ OSThreadCall \/ (\E m \in Mutexes : OSLockMutex(m)) \/ OSExitThread
           \/ (\E x \in Threads : OSCancelThread(x) \/ OSJoinThread(x) \/ OSDetachThread(x))
           \/ OSDisableScheduler \/ OSEnableScheduler
           \/ (\E q \in Queues, n \in 0 .. 1 : DeferredCallback(q, n))
           \/ UNCHANGED vars
  <2>1. UNCHANGED <<suspend, prio>>
    BY <1>3, Zenon
       DEF OSThreadCall, OSLockMutex, OSExitThread, OSCancelThread, OSJoinThread, OSDetachThread,
           OSDisableScheduler, OSEnableScheduler, DeferredCallback, thread, vars
  <2> QED
    BY <1>1, <2>1
<1>4. CASE TickedStep
  <2>1. Runs /\ Top.t = host
    BY <1>0, <1>4, TopRuns DEF TickedStep, At, Quiet
  <2>2. UNCHANGED <<suspend, prio>>
    BY <1>0, <1>4, <2>1 DEF TickedStep, Runs
  <2> QED
    BY <1>1, <2>2
<1>5. CASE FiberEndStep \/ FiberReturns
  BY <1>0, <1>5, TopCases DEF FiberEndStep, FiberReturns, Calls, At, GuestsKeepTheRules
<1>6. CASE PromoteStep \/ PropagateStep
  <2>1. UNCHANGED suspend
    BY <1>6 DEF PromoteStep, PropagateStep
  <2>2. \/ UNCHANGED prio
        \/ /\ Top.t # NoThread /\ ~ suspend[Top.t] > 0
           /\ \E p : SetThreadEffectivePriority(Top.t, p)
    BY <1>6, Zenon DEF PromoteStep, PropagateStep
  <2>3. CASE Top.t # NoThread /\ ~ suspend[Top.t] > 0 /\ \E p : SetThreadEffectivePriority(Top.t, p)
    <3>1. Top.t \in Threads
      BY <1>6, <2>3, TopType DEF PromoteStep, PropagateStep, Frame
    <3>2. \E p : prio' = prio \/ prio' = [prio EXCEPT ![Top.t] = p]
      BY <2>3 DEF SetThreadEffectivePriority
    <3>3. \A x \in Threads \ {Top.t} : prio'[x] = prio[x]
      BY <1>0, <3>2
    <3>4. suspend[Top.t] = 0
      BY <1>0, <2>3, <3>1
    <3> QED
      BY <1>6, <2>1, <3>3, <3>4 DEF Prices
  <2> QED
    BY <1>1, <2>1, <2>2, <2>3
<1>7. ASSUME NEW x \in Threads, NEW rest, ResumeThread(x, rest) \/ SuspendThread(x, rest), x # t PROVE Prices(t)
  <2>1. suspend'[t] = suspend[t]
    BY <1>0, <1>7 DEF ResumeThread, SuspendThread
  <2>2. prio' = prio \/ \E p : prio' = [prio EXCEPT ![x] = p]
    BY <1>7 DEF ResumeThread, SuspendThread
  <2> QED
    BY <1>0, <1>7, <2>1, <2>2 DEF Prices
<1>8. ASSUME NEW x \in Threads, SleepTimerFires(x) PROVE Prices(t)
  <2>1. UNCHANGED <<suspend, prio>> \/ (state[x] = "READY" /\ ResumeThread(x, stack[host]))
    BY <1>8 DEF SleepTimerFires
  <2> QED
    BY <1>1, <1>7, <1>8, <2>1 DEF Prices
<1>9. ASSUME NEW x \in Threads, OSResumeThread(x) PROVE Prices(t)
  <2>1. ResumeThread(x, <<>>)
    BY <1>9 DEF OSResumeThread
  <2> QED
    BY <1>7, <1>9, <2>1 DEF Prices
<1>10. ASSUME NEW x \in Threads, OSSuspendThread(x) PROVE Prices(t)
  <2>1. SuspendThread(x, <<>>)
    BY <1>10 DEF OSSuspendThread
  <2> QED
    BY <1>7, <1>10, <2>1 DEF Prices
<1>11. CASE OSSleepTicks
  <2>1. Runs
    BY <1>0, <1>11, GuestRuns DEF OSSleepTicks, Calls
  <2>2. Sleeper = host
    BY <2>1 DEF Sleeper, FiberInv, SafeInv, Runs, Terminated
  <2>3. SuspendThread(host, <<Fr("ticked", NoQueue, host, 0)>>)
    BY <1>11, <2>2 DEF OSSleepTicks
  <2> QED
    BY <1>0, <1>7, <1>11, <2>3 DEF Prices
<1>12. ASSUME NEW m \in Mutexes, OSUnlockMutex(m) PROVE Prices(t)
  <2>1. UNCHANGED suspend /\ running = host
    BY <1>0, <1>12, GuestRuns DEF OSUnlockMutex, Calls, Runs
  <2>2. prio' = prio \/ \E p : prio' = [prio EXCEPT ![host] = p]
    BY <1>12, <2>1 DEF OSUnlockMutex
  <2> QED
    BY <1>0, <1>12, <2>1, <2>2 DEF Prices
<1>13. ASSUME NEW x \in Threads, NEW d \in BOOLEAN, OSCreateThread(x, d) PROVE Prices(t)
  <2>1. suspend' = [suspend EXCEPT ![x] = 1] /\ prio' = [prio EXCEPT ![x] = BasePrio[x]]
    BY <1>13 DEF OSCreateThread
  <2> QED
    BY <1>0, <1>13, <2>1 DEF Prices
<1> QED
  BY <1>2, <1>3, <1>4, <1>5, <1>6, <1>8, <1>9, <1>10, <1>11, <1>12, <1>13 DEF Next, FrameStep, GuestCall

\* Every step changes an owner, or what a thread waits for, in one of these ways.
LEMMA OwnsStep ==
    ASSUME GuestsKeepTheRules, EndersOwnNothing, IInv, SafeInv, PlacedInv, [Next]_vars, NEW t \in Threads, NEW m \in Mutexes
    PROVE  Owns(t, m)
<1>0. /\ HostInv /\ guest \in Guests /\ host \in Threads
      /\ owner \in [Mutexes -> Threads \cup {NoThread}] /\ tmutex \in [Threads -> Mutexes \cup {NoQueue}]
  BY DEF SafeInv, HostInv, IInv, TypeOK, ThreadsTypeOK, MutexesTypeOK, FibersTypeOK
<1>1. ASSUME UNCHANGED <<tmutex, owner>> PROVE Owns(t, m)
  BY <1>1 DEF Owns
<1>2. CASE LockStep
  <2>1. Top.t = host /\ Top.q \in Mutexes
    <3>1. stack[host] # <<>> /\ Top.op = "lock"
      BY <1>2 DEF LockStep, At
    <3> QED
      BY <1>0, <3>1, TopRuns, TopType DEF Quiet, Frame
  <2>2. \E q : tmutex' = [tmutex EXCEPT ![host] = q]
    BY <1>2, <2>1 DEF LockStep
  <2>3. \/ UNCHANGED owner
        \/ owner' = [owner EXCEPT ![Top.q] = host] /\ CanTake(Top.q, host)
    BY <1>2, <2>1 DEF LockStep
  <2>4. CASE UNCHANGED owner
    BY <1>0, <1>2, <2>2, <2>4 DEF Owns
  <2>5. CASE owner' = [owner EXCEPT ![Top.q] = host] /\ CanTake(Top.q, host)
    <3>1. owner[Top.q] \in {NoThread, host}
      BY <2>5 DEF CanTake
    <3> QED
      BY <1>0, <1>2, <2>1, <2>2, <2>5, <3>1 DEF Owns
  <2> QED
    BY <2>3, <2>4, <2>5
<1>3. CASE UnlockAllStep
  <2>1. UNCHANGED <<tmutex, owner>>
    BY <1>3, UnlockAllReturns DEF UnlockAllStep
  <2> QED
    BY <1>1, <2>1
<1>4. CASE FrameStep /\ ~ LockStep /\ ~ UnlockAllStep
  <2>1. UNCHANGED <<tmutex, owner>>
    BY <1>4, Zenon
       DEF FrameStep, SelectRefused, SelectBegins, IdleCallback, IdleEnds, ReschedStep, SleepTimerFires, Pick,
           PromoteStep, PropagateStep, SleepStep, SleptStep, WakeStep, WakeEnds,
           ExitedStep, JoinedStep, TickedStep, EndDeferredStep, FiberEndStep, thread, mutex
  <2> QED
    BY <1>1, <2>1
<1>5. ASSUME NEW x \in Threads, NEW d \in BOOLEAN, OSCreateThread(x, d) PROVE Owns(t, m)
  <2>1. tmutex' = [tmutex EXCEPT ![x] = NoQueue] /\ UNCHANGED owner
    BY <1>5 DEF OSCreateThread, mutex
  <2> QED
    BY <1>0, <1>5, <2>1 DEF Owns
<1>6. ASSUME NEW n \in Mutexes, OSUnlockMutex(n) PROVE Owns(t, m)
  <2>1. UNCHANGED tmutex /\ running = host /\ host # NoThread
    BY <1>0, <1>6, GuestRuns, AddressesAssumption DEF OSUnlockMutex, Calls, Runs
  <2>2. \/ UNCHANGED owner
        \/ owner[n] = host /\ owner' = [owner EXCEPT ![n] = NoThread] /\ Goto(<<WakeFrame(n)>>)
    BY <1>6, <2>1 DEF OSUnlockMutex
  <2> QED
    BY <1>0, <1>6, <2>1, <2>2 DEF Owns
<1>7. CASE GuestCall /\ (\A n \in Mutexes : ~ OSUnlockMutex(n)) /\ \A x \in Threads, d \in BOOLEAN : ~ OSCreateThread(x, d)
  <2>1. UNCHANGED <<tmutex, owner>>
    BY <1>7, Zenon
       DEF GuestCall, OSResumeThread, OSSuspendThread, OSSleepTicks, OSThreadCall, OSLockMutex, OSExitThread, OSCancelThread,
           OSJoinThread, OSDetachThread, OSDisableScheduler, OSEnableScheduler, DeferredCallback, FiberReturns, thread, mutex
  <2> QED
    BY <1>1, <2>1
<1>8. CASE UNCHANGED vars
  BY <1>1, <1>8 DEF vars, thread, mutex
<1> QED
  BY <1>2, <1>3, <1>4, <1>5, <1>6, <1>7, <1>8 DEF Next, GuestCall

\* Thread x is on the wait queue of m.
Waits(x, m) == state[x] = "WAITING" /\ link[x] = m

\* A waiter of OSLockMutex is on the queue that OSThread.mutex names; nobody waits
\* for a mutex that is free, unless the waiters are being woken; and a waiter that
\* is suspended is behind all others.
WaitsThere ==
    \A t \in Threads : state[t] = "WAITING" /\ (link[t] \in Mutexes \/ tmutex[t] # NoQueue) => link[t] = tmutex[t]
Unowned ==
    \A m \in Mutexes, x \in Threads : owner[m] = NoThread /\ Waits(x, m) =>
        stack[host] # <<>> /\ Top.op \in {"wake", "wakeResched"} /\ Top.q = m
WaiterPrio == \A t \in Threads : state[t] = "WAITING" /\ suspend[t] > 0 => prio[t] = NumPrio

WaitInv == FormsInv /\ Locking /\ WaitsThere /\ Unowned /\ WaiterPrio

\* OSSleepThread goes to sleep where the invariant of the frames says.
LEMMA SleepForms ==
    ASSUME IInv, FormsInv, SleepStep
    PROVE  /\ Top.q \in Mutexes => Blocks(Top.q)
           /\ Top.q \notin Mutexes => tmutex[host] = NoQueue
<1>1. stack[host] # <<>> /\ Top.op = "sleep"
  BY DEF SleepStep, At
<1> QED
  BY <1>1, FormsTop DEF Plain

\* Who is on the queue of a mutex.
LEMMA WaitersLinked ==
    ASSUME IInv, QueuesInv, Placed, NEW m \in WaitQueues, NEW x \in Threads
    PROVE  Linked(queue[m], x) <=> Waits(x, m)
<1>1. m \in QueueIds /\ m \notin Prios
  BY PriosAreNoWaitQueues
<1>2. Linked(queue[m], x) => Waits(x, m)
  BY <1>1, Zenon DEF QueuesInv, Shelved, Waits
<1>3. Waits(x, m) => Linked(queue[m], x)
  BY Zenon DEF Placed, Waits
<1> QED
  BY <1>2, <1>3

\* Every step keeps the frames in their places and the waiters on their queues.
LEMMA WaitStep ==
    ASSUME GuestsKeepTheRules, EndersOwnNothing, IInv, SafeInv, PlacedInv, WaitInv, [Next]_vars
    PROVE  WaitInv'
<1>0. /\ HostInv /\ QueuesInv /\ Placed /\ guest \in Guests /\ host \in Threads
      /\ suspend \in [Threads -> Nat] /\ prio \in [Threads -> 0 .. NumPrio]
      /\ state \in [Threads -> States] /\ tmutex \in [Threads -> Mutexes \cup {NoQueue}]
      /\ FormsInv /\ Locking
  BY DEF SafeInv, HostInv, PlacedInv, WaitInv, IInv, TypeOK, ThreadsTypeOK, FibersTypeOK
<1>1. FormsInv' /\ Locking'
  BY <1>0, FormsStep, LockingStep
<1>2. ASSUME NEW t \in Threads, state'[t] = "WAITING"
      PROVE  \/ state[t] = "WAITING" /\ link'[t] = link[t]
             \/ state[t] = "RUNNING" /\ t = host /\ link'[t] = Top.q /\ SleepStep
  <2>1. Moves(t) /\ WaitsOn(t)
    BY MovesStep
  <2> QED
    BY <1>2, <2>1 DEF Moves, WaitsOn, Terminated
<1>3. ASSUME NEW t \in Threads, LockStep \/ SleepStep \/ (\E m \in Mutexes : OSUnlockMutex(m)) PROVE state[host] = "RUNNING"
  <2>1. CASE LockStep \/ SleepStep
    BY <1>0, <2>1, TopRuns DEF LockStep, SleepStep, At, Runs
  <2>2. CASE \E m \in Mutexes : OSUnlockMutex(m)
    BY <1>0, <2>2, GuestRuns DEF OSUnlockMutex, Calls, Runs
  <2> QED
    BY <1>3, <2>1, <2>2
<1>4. WaitsThere'
  <2>1. ASSUME NEW t \in Threads, state'[t] = "WAITING", link'[t] \in Mutexes \/ tmutex'[t] # NoQueue
        PROVE  link'[t] = tmutex'[t]
    <3>1. CASE state[t] = "WAITING" /\ link'[t] = link[t]
      <4>1. tmutex'[t] = tmutex[t]
        <5>1. ~ (LockStep /\ t = host)
          BY <1>3, <3>1
        <5>2. \A d \in BOOLEAN : ~ OSCreateThread(t, d)
          BY <3>1 DEF OSCreateThread
        <5>3. \A m \in Mutexes : Owns(t, m)
          BY OwnsStep
        <5>4. Mutexes = {} \/ tmutex'[t] = tmutex[t]
          BY <5>1, <5>2, <5>3 DEF Owns
        <5>5. CASE Mutexes = {}
          <6>1. tmutex' \in [Threads -> Mutexes \cup {NoQueue}]
            <7>1. IInv'
              BY NextIInv
            <7> QED
              BY <7>1 DEF IInv, TypeOK, ThreadsTypeOK
          <6> QED
            BY <1>0, <5>5, <6>1
        <5> QED
          BY <5>4, <5>5
      <4> QED
        BY <2>1, <3>1, <4>1 DEF WaitInv, WaitsThere
    <3>2. CASE state[t] = "RUNNING" /\ t = host /\ link'[t] = Top.q /\ SleepStep
      <4>1. tmutex' = tmutex
        BY <3>2 DEF SleepStep
      <4> QED
        BY <1>0, <2>1, <3>2, <4>1, SleepForms DEF Blocks
    <3> QED
      BY <1>2, <2>1, <3>1, <3>2
  <2> QED
    BY <2>1 DEF WaitsThere
<1>5. Unowned'
  <2>1. ASSUME NEW m \in Mutexes, NEW x \in Threads, owner'[m] = NoThread, state'[x] = "WAITING", link'[x] = m
        PROVE  stack'[host'] # <<>> /\ Head(stack'[host']).op \in {"wake", "wakeResched"} /\ Head(stack'[host']).q = m
    <3>1. Owns(x, m)
      BY OwnsStep
    <3>2. CASE OSUnlockMutex(m) /\ Goto(<<WakeFrame(m)>>)
      <4>1. host' = host /\ stack'[host] = <<WakeFrame(m)>>
        BY <3>2, GotoHere DEF OSUnlockMutex, SameFiber
      <4>2. WakeFrame(m).op = "wake" /\ WakeFrame(m).q = m
        BY DEF WakeFrame, Fr
      <4> QED
        BY <4>1, <4>2
    <3>3. CASE owner[m] = NoThread
      <4>1. state[x] = "WAITING" /\ link[x] = m
        <5>1. ~ (x = host /\ link'[x] = Top.q /\ SleepStep)
          BY <1>0, <2>1, <3>3, SleepForms DEF Blocks
        <5> QED
          BY <1>2, <2>1, <5>1
      <4>2. stack[host] # <<>> /\ Top.op \in {"wake", "wakeResched"} /\ Top.q = m
        BY <3>3, <4>1 DEF WaitInv, Unowned, Waits
      <4>3. Linked(queue[m], x) /\ m \in WaitQueues
        BY <1>0, <4>1, WaitersLinked, QueueIdsFacts DEF Waits, WaitQueues
      <4>4. queue[m] # <<>>
        BY <4>3, LinkedFacts
      <4>5. CASE WakeStep
        <5>1. Goto(<<[Top EXCEPT !.op = Readied(@)]>> \o Rest) \/ Goto(stack[host])
          BY <4>5 DEF WakeStep
        <5>2. host' = host /\ Top \in Frame /\ Rest \in Seq(Frame)
          BY <4>2, <4>5, TopType DEF WakeStep, SameFiber, At
        <5> DEFINE f == [Top EXCEPT !.op = Readied(@)]
        <5>3. f.op \in {"wake", "wakeResched"} /\ f.q = m
          BY <4>2, <5>2 DEF Frame, Readied
        <5> HIDE DEF f
        <5>4. CASE Goto(<<f>> \o Rest)
          <6>1. stack'[host] = <<f>> \o Rest
            BY <5>4, GotoHere
          <6> QED
            BY <5>2, <5>3, <6>1, HeadTailOfPush
        <5>5. CASE Goto(stack[host])
          <6>1. stack'[host] = stack[host]
            BY <5>5, GotoHere
          <6> QED
            BY <4>2, <5>2, <6>1 DEF Top
        <5> QED
          BY <5>1, <5>4, <5>5 DEF f
      <4>6. CASE UNCHANGED vars
        BY <4>2, <4>6 DEF vars, fiber, Top
      <4>7. ~ WakeEnds
        BY <4>2, <4>4 DEF WakeEnds
      <4>8. ~ GuestCall
        <5>1. ~ InGuestCode
          BY <4>2 DEF InGuestCode
        <5> QED
          BY <5>1
             DEF GuestCall, OSCreateThread, OSResumeThread, OSSuspendThread, OSSleepTicks, OSThreadCall, CallHandler, OSLockMutex,
                 OSUnlockMutex, OSExitThread, OSCancelThread, OSJoinThread, OSDetachThread, OSDisableScheduler,
                 OSEnableScheduler, DeferredCallback, FiberReturns, Calls
      <4>9. FrameStep => WakeStep \/ WakeEnds
        BY <4>2
           DEF FrameStep, SleepTimerFires, Polling, SelectRefused, SelectBegins, IdleCallback, IdleEnds, Pick, ReschedStep,
               PromoteStep, PropagateStep, SleepStep, SleptStep, LockStep, UnlockAllStep,
               ExitedStep, JoinedStep, TickedStep, EndDeferredStep, FiberEndStep, At
      <4> QED
        BY <4>5, <4>6, <4>7, <4>8, <4>9 DEF Next
    <3>4. CASE LockStep /\ m = Top.q /\ owner'[m] = host
      BY <1>0, <2>1, <3>4, AddressesAssumption
    <3> QED
      BY <2>1, <3>1, <3>2, <3>3, <3>4 DEF Owns
  <2> QED
    BY <2>1 DEF Unowned, Waits, Top
<1>6. WaiterPrio'
  <2>1. ASSUME NEW t \in Threads, state'[t] = "WAITING", suspend'[t] > 0 PROVE prio'[t] = NumPrio
    <3>1. Prices(t)
      BY PricesStep
    <3>2. state[t] = "WAITING"
      <4>1. CASE state[t] = "RUNNING" /\ t = host /\ SleepStep
        <5>1. Runs /\ UNCHANGED suspend
          BY <1>0, <4>1, TopRuns DEF SleepStep, At
        <5> QED
          BY <2>1, <4>1, <5>1 DEF Runs
      <4> QED
        BY <1>2, <2>1, <4>1
    <3>3. CASE suspend'[t] = suspend[t] /\ prio'[t] = prio[t]
      BY <2>1, <3>2, <3>3 DEF WaitInv, WaiterPrio
    <3>4. ASSUME NEW rest, ResumeThread(t, rest) PROVE prio'[t] = NumPrio
      <4>1. suspend'[t] = IF suspend[t] = 0 THEN 0 ELSE suspend[t] - 1
        BY <1>0, <3>4 DEF ResumeThread
      <4>2. suspend[t] # 1 /\ suspend[t] > 0
        BY <1>0, <2>1, <4>1
      <4> QED
        BY <3>2, <3>4, <4>2 DEF ResumeThread, WaitInv, WaiterPrio
    <3>5. ASSUME NEW rest, SuspendThread(t, rest) PROVE prio'[t] = NumPrio
      <4>1. CASE suspend[t] = 0
        BY <1>0, <3>2, <3>5, <4>1 DEF SuspendThread
      <4>2. CASE suspend[t] # 0
        BY <1>0, <3>2, <3>5, <4>2 DEF SuspendThread, WaitInv, WaiterPrio
      <4> QED
        BY <4>1, <4>2
    <3>6. CASE suspend'[t] = 0
      BY <2>1, <3>6
    <3>7. CASE t = host /\ \E m \in Mutexes : OSUnlockMutex(m)
      BY <1>3, <3>2, <3>7
    <3>8. CASE \E d \in BOOLEAN : OSCreateThread(t, d)
      BY <3>2, <3>8 DEF OSCreateThread
    <3> QED
      BY <3>1, <3>3, <3>4, <3>5, <3>6, <3>7, <3>8 DEF Prices
  <2> QED
    BY <2>1 DEF WaiterPrio
<1> QED
  BY <1>1, <1>4, <1>5, <1>6 DEF WaitInv

-----------------------------------------------------------------------------
(***************************************************************************)
(* Inheritance of priorities.                                              *)
(***************************************************************************)

\* Thread x waits for a mutex of thread t; or it is about to.
WaitsFor(x, t) == state[x] = "WAITING" /\ link[x] \in Mutexes /\ owner[link[x]] = t
Claims(x, t) ==
    \/ WaitsFor(x, t)
    \/ Sleeps /\ x = host /\ tmutex[host] \in Mutexes /\ owner[tmutex[host]] = t

\* Thread t may run.
Alive(t) == ~ Terminated(t) /\ suspend[t] = 0

\* The priority of t is about to be computed anew.
Waived(t) == At("propagate") /\ Top.t = t

\* Thread t is about to get a priority that is enough for x.
Promised(x, t) == At("promote") /\ Top.t = t /\ Top.n <= prio[x]

\* A guest that never defers a reschedule.
Steady == {"disable", "callback"} \cap guest = {}

\* Thread t is as urgent as all who wait for it, and p is no more than it is due.
Inherits(t) ==
    prio[t] <= BasePrio[t] /\ \A x \in Threads : Claims(x, t) => prio[t] <= prio[x] \/ Promised(x, t)
Warranted(t, p) == BasePrio[t] <= p \/ \E x \in Threads : Claims(x, t) /\ prio[x] <= p

\* Every thread that may run has the priority it is due, but for the one owner whose
\* turn it is in the chain of owners that is being passed on.
FairInv ==
    /\ At("promote") => Top.n = prio[host]
    /\ \A t \in Threads : Alive(t) => Waived(t) \/ (Inherits(t) /\ (Steady => Warranted(t, prio[t])))
    /\ Steady => disable = 0 /\ (At("promote") /\ Top.t # NoThread => Warranted(Top.t, Top.n))

\* What ComputeThreadEffectivePriority returns.
LEMMA Due ==
    ASSUME IInv, QueuesInv, Placed, NEW t \in Threads, NEW ms \in Seq(Mutexes)
    PROVE  /\ EffectivePriority(t, ms) \in Prios
           /\ EffectivePriority(t, ms) <= BasePrio[t]
           /\ \A i \in 1 .. Len(ms), x \in Threads : Waits(x, ms[i]) => EffectivePriority(t, ms) <= prio[x]
           /\ \/ EffectivePriority(t, ms) = BasePrio[t]
              \/ \E i \in 1 .. Len(ms), x \in Threads : Waits(x, ms[i]) /\ prio[x] = EffectivePriority(t, ms)
<1> DEFINE S == {BasePrio[t]} \cup {prio[queue[ms[i]][1]] : i \in {j \in 1 .. Len(ms) : queue[ms[j]] # <<>>}}
           e == EffectivePriority(t, ms)
<1>0. prio \in [Threads -> 0 .. NumPrio] /\ BasePrio \in [Threads -> Prios] /\ NumPrio \in Nat
  BY ConstantsAssumption DEF IInv, TypeOK, ThreadsTypeOK
<1>1. ASSUME NEW i \in 1 .. Len(ms)
      PROVE  /\ ms[i] \in Mutexes /\ ms[i] \in WaitQueues /\ queue[ms[i]] \in Seq(Threads)
             /\ InOrder(queue[ms[i]], prio)
             /\ \A x \in Threads : Linked(queue[ms[i]], x) <=> Waits(x, ms[i])
  <2>1. ms[i] \in Mutexes /\ ms[i] \in WaitQueues /\ ms[i] \in QueueIds
    BY QueueIdsFacts, ElementOfSeq
  <2>2. queue[ms[i]] \in Seq(Threads) /\ InOrder(queue[ms[i]], prio)
    BY <2>1 DEF IInv, TypeOK, QueuesTypeOK, QueuesInv, GoodLists, ListsOK
  <2> QED
    BY <2>1, <2>2, WaitersLinked
<1>2. ASSUME NEW i \in 1 .. Len(ms), queue[ms[i]] # <<>>
      PROVE  queue[ms[i]][1] \in Threads /\ Waits(queue[ms[i]][1], ms[i])
  <2>1. 1 \in 1 .. Len(queue[ms[i]]) /\ queue[ms[i]][1] \in Threads
    BY <1>1, <1>2
  <2>2. Linked(queue[ms[i]], queue[ms[i]][1])
    BY <2>1 DEF Linked
  <2> QED
    BY <1>1, <2>1, <2>2
<1>3. S \subseteq Nat
  BY <1>0, <1>2 DEF Prios
<1>4. e \in Prios /\ e = Least(S)
  BY EffectiveIsPrio DEF EffectivePriority
<1>5. Least(S) \in S /\ \A y \in S : Least(S) <= y
  BY <1>3, LeastProperties
<1>6. BasePrio[t] \in S /\ \A i \in 1 .. Len(ms) : queue[ms[i]] # <<>> => prio[queue[ms[i]][1]] \in S
  OBVIOUS
<1>7. ASSUME NEW i \in 1 .. Len(ms), NEW x \in Threads, Waits(x, ms[i]) PROVE e <= prio[x]
  <2> DEFINE s == queue[ms[i]]
  <2>1. Linked(s, x) /\ s \in Seq(Threads) /\ InOrder(s, prio)
    BY <1>1, <1>7
  <2> HIDE DEF s
  <2>2. PICK j \in 1 .. Len(s) : s[j] = x
    BY <2>1 DEF Linked
  <2>3. s # <<>> /\ 1 \in 1 .. Len(s) /\ 1 <= j
    BY <2>1, <2>2
  <2>4. prio[s[1]] <= prio[s[j]] /\ s[1] \in Threads
    BY <2>1, <2>2, <2>3 DEF InOrder
  <2>5. e <= prio[s[1]]
    BY <1>4, <1>5, <1>6, <2>3 DEF s
  <2> QED
    BY <1>0, <1>4, <2>2, <2>4, <2>5 DEF Prios
<1>8. e = BasePrio[t] \/ \E i \in 1 .. Len(ms), x \in Threads : Waits(x, ms[i]) /\ prio[x] = e
  <2>1. CASE \E i \in 1 .. Len(ms) : queue[ms[i]] # <<>> /\ e = prio[queue[ms[i]][1]]
    BY <1>2, <2>1
  <2> QED
    BY <1>4, <1>5, <2>1
<1> QED
  BY <1>4, <1>5, <1>6, <1>7, <1>8

\* The same for the mutexes that t owns.
LEMMA DueOwner ==
    ASSUME IInv, QueuesInv, Placed, OwnersListed, ~ Sleeps, NEW t \in Threads
    PROVE  /\ EffectivePriority(t, owned[t]) \in Prios
           /\ EffectivePriority(t, owned[t]) <= BasePrio[t]
           /\ \A x \in Threads : Claims(x, t) => EffectivePriority(t, owned[t]) <= prio[x]
           /\ \/ EffectivePriority(t, owned[t]) = BasePrio[t]
              \/ \E x \in Threads : Claims(x, t) /\ prio[x] = EffectivePriority(t, owned[t])
<1> DEFINE e == EffectivePriority(t, owned[t])
<1>1. owned[t] \in Seq(Mutexes)
  BY DEF IInv, TypeOK, ThreadsTypeOK
<1>2. /\ e \in Prios /\ e <= BasePrio[t]
      /\ \A i \in 1 .. Len(owned[t]), x \in Threads : Waits(x, owned[t][i]) => e <= prio[x]
      /\ \/ e = BasePrio[t]
         \/ \E i \in 1 .. Len(owned[t]), x \in Threads : Waits(x, owned[t][i]) /\ prio[x] = e
  BY <1>1, Due
<1>3. \A i \in 1 .. Len(owned[t]) : owned[t][i] \in Mutexes /\ owner[owned[t][i]] = t
  <2>1. ASSUME NEW i \in 1 .. Len(owned[t]) PROVE owned[t][i] \in Mutexes /\ owner[owned[t][i]] = t
    <3>1. owned[t][i] \in Mutexes /\ Linked(owned[t], owned[t][i])
      BY <1>1, ElementOfSeq DEF Linked
    <3> QED
      BY <3>1, Zenon DEF OwnersListed
  <2> QED
    BY <2>1
<1>4. \A m \in Mutexes : owner[m] = t => \E i \in 1 .. Len(owned[t]) : owned[t][i] = m
  <2>1. \A m \in Mutexes : owner[m] = t => Linked(owned[t], m)
    BY Zenon DEF OwnersListed
  <2> QED
    BY <2>1 DEF Linked
<1> HIDE DEF e
<1>5. \A x \in Threads : Claims(x, t) => e <= prio[x]
  BY <1>2, <1>4 DEF Claims, WaitsFor, Waits
<1>6. e = BasePrio[t] \/ \E x \in Threads : Claims(x, t) /\ prio[x] = e
  BY <1>2, <1>3 DEF Claims, WaitsFor, Waits
<1> QED
  BY <1>2, <1>5, <1>6 DEF e

\* A step that changes neither who waits for whom, nor the priority of anybody this
\* is about.
LEMMA CalmFair ==
    ASSUME FairInv, ~ At("promote"), ~ At("propagate"), ~ At("promote")', guest' = guest,
           \A t \in Threads : Alive(t)' => Alive(t) /\ prio'[t] = prio[t],
           \A x, t \in Threads : Claims(x, t)' => Claims(x, t) /\ prio'[x] = prio[x],
           Steady => disable' = 0 /\ \A x, t \in Threads : Claims(x, t) => Claims(x, t)'
    PROVE  FairInv'
<1>1. ASSUME NEW t \in Threads, Alive(t)' PROVE Inherits(t)' /\ (Steady' => Warranted(t, prio[t])')
  <2>1. Inherits(t) /\ (Steady => Warranted(t, prio[t])) /\ prio'[t] = prio[t]
    BY <1>1 DEF FairInv, Waived
  <2>2. \A x \in Threads : ~ Promised(x, t)
    BY DEF Promised
  <2>3. Inherits(t)'
    BY <2>1, <2>2 DEF Inherits
  <2>4. ASSUME Steady PROVE Warranted(t, prio[t])'
    BY <2>1, <2>4 DEF Warranted
  <2> QED
    BY <2>3, <2>4 DEF Steady
<1> QED
  BY <1>1 DEF FairInv, Steady

\* A thread gets another priority, or is suspended or resumed; if its priority is
\* another then the owner it waits for is next.
LEMMA RepricedFair ==
    ASSUME IInv, QueuesInv, Placed, OwnersListed, FairInv, NEW t \in Threads,
           ~ Sleeps, ~ At("promote"), ~ At("promote")', guest' = guest, Steady => disable' = 0,
           prio' \in [Threads -> 0 .. NumPrio],
           \A s \in Threads \ {t} : ~ Waived(s) /\ prio'[s] = prio[s] /\ (Alive(s)' => Alive(s)),
           \A x, s \in Threads : Claims(x, s)' <=> Claims(x, s),
           \A s \in Threads : Claims(t, s) => s = BlockedOn(t),
           prio'[t] = prio[t] \/ \A s \in Threads : s = BlockedOn(t) => Waived(s)',
           Alive(t)' => prio'[t] = EffectivePriority(t, owned[t])
    PROVE  FairInv'
<1>0. prio \in [Threads -> 0 .. NumPrio] /\ NumPrio \in Nat /\ BasePrio \in [Threads -> Prios]
  BY ConstantsAssumption DEF IInv, TypeOK, ThreadsTypeOK
<1>1. ASSUME NEW s \in Threads \ {t}, Alive(s)', ~ Waived(s)'
      PROVE  Inherits(s)' /\ (Steady' => Warranted(s, prio[s])')
  <2>1. Inherits(s) /\ (Steady => Warranted(s, prio[s])) /\ prio'[s] = prio[s]
    BY <1>1 DEF FairInv
  <2>2. \A x \in Threads : ~ Promised(x, s)
    BY DEF Promised
  <2>3. \A x \in Threads : Claims(x, s) => prio'[x] = prio[x]
    BY <1>1
  <2>4. Inherits(s)'
    BY <2>1, <2>2, <2>3 DEF Inherits
  <2>5. ASSUME Steady PROVE Warranted(s, prio[s])'
    BY <2>1, <2>3, <2>5 DEF Warranted
  <2> QED
    BY <2>4, <2>5 DEF Steady
<1>2. ASSUME Alive(t)' PROVE Inherits(t)' /\ Warranted(t, prio[t])'
  <2> DEFINE e == EffectivePriority(t, owned[t])
  <2>1. /\ e \in Prios /\ e <= BasePrio[t]
        /\ \A x \in Threads : Claims(x, t) => e <= prio[x]
        /\ e = BasePrio[t] \/ \E x \in Threads : Claims(x, t) /\ prio[x] = e
    BY DueOwner
  <2>2. prio'[t] = e
    BY <1>2
  <2> HIDE DEF e
  <2>3. \A x \in Threads : Claims(x, t) => e <= prio'[x] /\ (prio[x] = e => prio'[x] = e)
    BY <1>0, <2>1, <2>2 DEF Prios
  <2>4. Inherits(t)'
    BY <2>1, <2>2, <2>3 DEF Inherits
  <2>5. Warranted(t, prio[t])'
    BY <1>0, <2>1, <2>2, <2>3 DEF Warranted, Prios
  <2> QED
    BY <2>4, <2>5
<1> QED
  BY <1>1, <1>2 DEF FairInv, Steady

\* Where no owner changes, who waits for whom changes only as OSSleepThread goes to
\* sleep: what is woken on a mutex, or cancelled, waits for nobody.
LEMMA WaitersKept ==
    ASSUME GuestsKeepTheRules, EndersOwnNothing, IInv, SafeInv, PlacedInv, WaitInv, MutexInv, [Next]_vars,
           ~ LockStep, \A m \in Mutexes : ~ OSUnlockMutex(m), NEW x \in Threads, NEW t \in Threads
    PROVE  /\ WaitsFor(x, t) => WaitsFor(x, t)'
           /\ WaitsFor(x, t)' => \/ WaitsFor(x, t)
                                 \/ SleepStep /\ x = host /\ Blocks(Top.q) /\ owner[Top.q] = t
<1>0. /\ HostInv /\ host \in Threads /\ guest \in Guests /\ NoThread \notin Threads
      /\ state \in [Threads -> States] /\ owned \in [Threads -> Seq(Mutexes)]
  BY AddressesAssumption DEF SafeInv, HostInv, IInv, TypeOK, ThreadsTypeOK, FibersTypeOK
<1>1. \A m \in Mutexes : owner'[m] = owner[m]
  <2>1. \A m \in Mutexes : Owns(x, m)
    BY OwnsStep
  <2> QED
    BY <2>1 DEF Owns
<1>2. Moves(x) /\ WaitsOn(x)
  BY MovesStep
<1>3. ASSUME WaitsFor(x, t) PROVE WaitsFor(x, t)'
  <2>1. state[x] = "WAITING" /\ link[x] \in Mutexes /\ owner[link[x]] = t
    BY <1>3 DEF WaitsFor
  <2>2. ~ (WakeStep /\ link[x] = Top.q)
    <3>1. ASSUME WakeStep, link[x] = Top.q PROVE FALSE
      <4>1. stack[host] # <<>> /\ Top.op \in {"wake", "wakeResched", "wakeFiber"}
        BY <3>1 DEF WakeStep, At
      <4>2. Top.op # "wakeFiber"
        BY <1>0, <4>1, TopCases
      <4>3. owner[Top.q] = NoThread
        BY <2>1, <3>1, <4>1, <4>2, FormsTop DEF WaitInv, Plain
      <4> QED
        BY <1>0, <2>1, <3>1, <4>3
    <3> QED
      BY <3>1
  <2>3. ~ OSCancelThread(x)
    <3>1. ASSUME OSCancelThread(x) PROVE FALSE
      <4>1. "lock" \notin guest
        BY <1>0, <3>1 DEF OSCancelThread, Calls, EndersOwnNothing
      <4>2. owned[t] = <<>>
        BY <4>1 DEF PlacedInv, OwnsNothing
      <4> QED
        BY <2>1, <4>2, OwnerOfNone
    <3> QED
      BY <3>1
  <2>4. ~ (OSExitThread /\ x = host)
    BY <1>0, <2>1, GuestRuns DEF OSExitThread, Calls, Runs
  <2>5. state'[x] = "WAITING"
    BY <1>2, <2>1, <2>2, <2>3, <2>4 DEF Moves, Terminated
  <2> QED
    BY <1>1, <1>2, <2>1, <2>5 DEF WaitsOn, WaitsFor
<1>4. ASSUME WaitsFor(x, t)'
      PROVE  \/ WaitsFor(x, t)
             \/ SleepStep /\ x = host /\ Blocks(Top.q) /\ owner[Top.q] = t
  <2>1. state'[x] = "WAITING" /\ link'[x] \in Mutexes /\ owner'[link'[x]] = t
    BY <1>4 DEF WaitsFor
  <2>2. CASE state[x] = "WAITING"
    BY <1>1, <1>2, <2>1, <2>2 DEF WaitsOn, WaitsFor
  <2>3. CASE state[x] # "WAITING"
    <3>1. x = host /\ link'[x] = Top.q /\ SleepStep
      BY <1>2, <2>1, <2>3 DEF Moves, Terminated
    <3>2. Blocks(Top.q)
      BY <2>1, <3>1, SleepForms DEF WaitInv
    <3> QED
      BY <1>1, <2>1, <3>1, <3>2
  <2> QED
    BY <2>2, <2>3
<1> QED
  BY <1>3, <1>4

\* A guest that never disables the scheduler never has it disabled.
LEMMA SteadyStep ==
    ASSUME IInv, [Next]_vars, Steady, disable = 0
    PROVE  disable' = 0
<1>1. CASE EndDeferredStep
  BY <1>1 DEF EndDeferredStep
<1>2. CASE FrameStep /\ ~ EndDeferredStep
  BY <1>2, Zenon
     DEF FrameStep, SelectRefused, SelectBegins, IdleCallback, IdleEnds, ReschedStep, SleepTimerFires, Pick,
         PromoteStep, PropagateStep, SleepStep, SleptStep, LockStep, WakeStep, WakeEnds, UnlockAllStep,
         ExitedStep, JoinedStep, TickedStep, FiberEndStep, sched
<1>3. ~ OSDisableScheduler /\ ~ OSEnableScheduler /\ \A q \in Queues, n \in 0 .. 1 : ~ DeferredCallback(q, n)
  BY DEF OSDisableScheduler, OSEnableScheduler, DeferredCallback, Calls, Steady
<1>4. CASE GuestCall
  BY <1>3, <1>4, Zenon
     DEF GuestCall, OSCreateThread, OSResumeThread, OSSuspendThread, OSSleepTicks, OSThreadCall, OSLockMutex, OSUnlockMutex,
         OSExitThread, OSCancelThread, OSJoinThread, OSDetachThread, FiberReturns, sched
<1>5. CASE UNCHANGED vars
  BY <1>5 DEF vars, sched
<1> QED
  BY <1>1, <1>2, <1>4, <1>5 DEF Next

\* The steps that change no priority, no owner and no suspension.
LEMMA OtherFair ==
    ASSUME GuestsKeepTheRules, EndersOwnNothing, IInv, SafeInv, PlacedInv, WaitInv, MutexInv, FairInv, [Next]_vars,
           ~ PromoteStep, ~ PropagateStep, ~ LockStep, \A m \in Mutexes : ~ OSUnlockMutex(m),
           \A t \in Threads : \/ suspend'[t] = suspend[t] /\ prio'[t] = prio[t]
                              \/ \E d \in BOOLEAN : OSCreateThread(t, d)
    PROVE  FairInv'
<1>0. CASE UNCHANGED vars
  BY <1>0 DEF vars, thread, sched, mutex, sleep, fiber, FairInv, At, Top, Alive, Terminated, Waived, Inherits, Claims,
              WaitsFor, Sleeps, Promised, Steady, Warranted
<1>1. CASE Next /\ ~ UNCHANGED vars
  <2>0. /\ HostInv /\ host \in Threads /\ tmutex \in [Threads -> Mutexes \cup {NoQueue}]
        /\ state \in [Threads -> States] /\ link \in [Threads -> QueueIds \cup {NoQueue}]
    BY DEF SafeInv, IInv, TypeOK, ThreadsTypeOK, QueuesTypeOK, FibersTypeOK
  <2>1. ~ At("promote") /\ ~ At("propagate") /\ (At("sleep") => SleepStep)
    <3>1. ASSUME At("promote") \/ At("propagate") \/ At("sleep"), ~ SleepStep PROVE FALSE
      <4>1. ~ FrameStep
        BY <3>1 DEF FrameStep, SleepTimerFires, Polling, SelectRefused, SelectBegins, IdleCallback, IdleEnds, Pick, ReschedStep,
               SleptStep, WakeStep, WakeEnds, UnlockAllStep,
               ExitedStep, JoinedStep, TickedStep, EndDeferredStep, FiberEndStep, At
      <4>2. ~ InGuestCode
        BY <3>1 DEF InGuestCode, At
      <4>3. ~ GuestCall
        BY <4>2
           DEF GuestCall, OSCreateThread, OSResumeThread, OSSuspendThread, OSSleepTicks, OSThreadCall, CallHandler, OSLockMutex,
               OSUnlockMutex, OSExitThread, OSCancelThread, OSJoinThread, OSDetachThread, OSDisableScheduler,
               OSEnableScheduler, DeferredCallback, FiberReturns, Calls
      <4> QED
        BY <1>1, <4>1, <4>3 DEF Next
    <3>2. SleepStep => Top.op = "sleep"
      BY DEF SleepStep, At
    <3> QED
      BY <3>1, <3>2 DEF At
  <2>2. ~ Sleeps' /\ ~ At("promote")'
    <3>1. ~ Sleeps'
      BY <1>1, FormsStep DEF WaitInv
    <3> QED
      BY <3>1 DEF Sleeps, At
  <2>3. ASSUME NEW t \in Threads, Alive(t)' PROVE Alive(t) /\ prio'[t] = prio[t]
    <3>1. Moves(t)
      BY MovesStep
    <3>2. \A d \in BOOLEAN : ~ OSCreateThread(t, d)
      <4>1. ASSUME NEW d \in BOOLEAN, OSCreateThread(t, d) PROVE FALSE
        <5>1. suspend'[t] = 1
          BY <4>1 DEF OSCreateThread, IInv, TypeOK, ThreadsTypeOK
        <5> QED
          BY <2>3, <5>1 DEF Alive
      <4> QED
        BY <4>1
    <3> QED
      BY <2>3, <3>1, <3>2 DEF Alive, Moves, Terminated
  <2>4. ASSUME NEW x \in Threads, NEW t \in Threads, Claims(x, t)' PROVE Claims(x, t) /\ prio'[x] = prio[x]
    <3>1. WaitsFor(x, t)'
      BY <2>2, <2>4 DEF Claims
    <3>2. WaitsFor(x, t) \/ (SleepStep /\ x = host /\ Blocks(Top.q) /\ owner[Top.q] = t)
      BY <3>1, WaitersKept
    <3>3. Claims(x, t)
      <4>1. CASE SleepStep /\ x = host /\ Blocks(Top.q) /\ owner[Top.q] = t
        BY <4>1 DEF Claims, Sleeps, Blocks, SleepStep, At
      <4> QED
        BY <3>2, <4>1 DEF Claims
    <3>4. \A d \in BOOLEAN : ~ OSCreateThread(x, d)
      BY <2>0, <3>1 DEF OSCreateThread, WaitsFor
    <3> QED
      BY <3>3, <3>4
  <2>5. ASSUME Steady, NEW x \in Threads, NEW t \in Threads, Claims(x, t) PROVE Claims(x, t)'
    <3>1. CASE WaitsFor(x, t)
      BY <3>1, WaitersKept DEF Claims
    <3>2. CASE Sleeps /\ x = host /\ tmutex[host] \in Mutexes /\ owner[tmutex[host]] = t
      <4>1. SleepStep /\ Top.q = tmutex[host]
        <5>1. SleepStep
          BY <2>1, <3>2 DEF Sleeps, At
        <5>2. Top.q \in Mutexes
          BY <2>1, <3>2 DEF Sleeps, At
        <5>3. Blocks(Top.q)
          BY <5>1, <5>2, SleepForms DEF WaitInv
        <5> QED
          BY <5>1, <5>3 DEF Blocks
      <4>2. Runs /\ running # NoThread /\ disable = 0
        <5>1. Runs
          BY <2>0, <4>1, TopRuns DEF SleepStep, At
        <5> QED
          BY <2>0, <2>5, <5>1, AddressesAssumption DEF Runs, FairInv
      <4>3. state' = [state EXCEPT ![host] = "WAITING"] /\ link' = [link EXCEPT ![host] = Top.q] /\ UNCHANGED owner
        BY <4>1, <4>2 DEF SleepStep, Insert, Runs, mutex
      <4> QED
        BY <2>0, <3>2, <4>1, <4>3 DEF Claims, WaitsFor
    <3> QED
      BY <2>5, <3>1, <3>2 DEF Claims
  <2>6. guest' = guest /\ (Steady => disable' = 0)
    BY GuestStays, SteadyStep DEF FairInv
  <2> QED
    BY <2>1, <2>2, <2>3, <2>4, <2>5, <2>6, CalmFair
<1> QED
  BY <1>0, <1>1

\* Where OSLockMutex is not involved, the same threads wait for the same owners.
LEMMA ClaimsKept ==
    ASSUME GuestsKeepTheRules, EndersOwnNothing, IInv, SafeInv, PlacedInv, WaitInv, MutexInv, FairInv, [Next]_vars,
           ~ Sleeps, ~ LockStep, ~ PromoteStep, ~ SleepStep, \A m \in Mutexes : ~ OSUnlockMutex(m)
    PROVE  /\ ~ Sleeps' /\ ~ At("promote") /\ ~ At("promote")'
           /\ guest' = guest /\ (Steady => disable' = 0)
           /\ prio' \in [Threads -> 0 .. NumPrio]
           /\ \A x, s \in Threads : Claims(x, s)' <=> Claims(x, s)
           /\ \A x, s \in Threads : Claims(x, s) => s = BlockedOn(x)
<1>1. ~ Sleeps'
  <2>1. Sleeps' => UNCHANGED vars
    BY FormsStep DEF WaitInv
  <2>2. UNCHANGED vars => ~ Sleeps'
    BY DEF vars, fiber, Sleeps, Top
  <2> QED
    BY <2>1, <2>2
<1>2. ~ At("promote") /\ ~ At("promote")'
  BY <1>1 DEF Sleeps, At
<1>3. guest' = guest /\ (Steady => disable' = 0)
  BY GuestStays, SteadyStep DEF FairInv
<1>4. prio' \in [Threads -> 0 .. NumPrio]
  <2>1. IInv'
    BY NextIInv
  <2> QED
    BY <2>1 DEF IInv, TypeOK, ThreadsTypeOK
<1>5. \A x, s \in Threads : WaitsFor(x, s)' <=> WaitsFor(x, s)
  BY WaitersKept
<1>6. \A x, s \in Threads : Claims(x, s)' <=> Claims(x, s)
  BY <1>1, <1>5 DEF Claims
<1>7. ASSUME NEW x \in Threads, NEW s \in Threads, Claims(x, s) PROVE s = BlockedOn(x)
  <2>1. state[x] = "WAITING" /\ link[x] \in Mutexes /\ owner[link[x]] = s
    BY <1>7 DEF Claims, WaitsFor
  <2>2. link[x] = tmutex[x] /\ tmutex[x] # NoQueue
    BY <2>1, AddressesAssumption DEF WaitInv, WaitsThere, QueueIds, WaitQueues
  <2> QED
    BY <2>1, <2>2 DEF BlockedOn
<1> QED
  BY <1>1, <1>2, <1>3, <1>4, <1>6, <1>7

\* A step in which the same threads may run, with the same priorities.
LEMMA SettledFair ==
    ASSUME GuestsKeepTheRules, EndersOwnNothing, IInv, SafeInv, PlacedInv, WaitInv, MutexInv, FairInv, [Next]_vars,
           ~ Sleeps, ~ At("propagate"), ~ LockStep, ~ PromoteStep, ~ SleepStep, \A m \in Mutexes : ~ OSUnlockMutex(m),
           prio' = prio, \A t \in Threads : Alive(t)' => Alive(t)
    PROVE  FairInv'
<1>1. /\ ~ At("promote") /\ ~ At("promote")'
      /\ guest' = guest /\ (Steady => disable' = 0)
      /\ \A x, s \in Threads : Claims(x, s)' <=> Claims(x, s)
  BY ClaimsKept
<1> QED
  BY <1>1, CalmFair

\* A step that gives another priority to thread t only.
LEMMA RepricedStep ==
    ASSUME GuestsKeepTheRules, EndersOwnNothing, IInv, SafeInv, PlacedInv, WaitInv, MutexInv, FairInv, [Next]_vars,
           ~ Sleeps, ~ LockStep, ~ PromoteStep, ~ SleepStep, \A m \in Mutexes : ~ OSUnlockMutex(m),
           NEW t \in Threads,
           \A s \in Threads \ {t} : ~ Waived(s) /\ prio'[s] = prio[s] /\ (Alive(s)' => Alive(s)),
           prio'[t] = prio[t] \/ \A s \in Threads : s = BlockedOn(t) => Waived(s)',
           Alive(t)' => prio'[t] = EffectivePriority(t, owned[t])
    PROVE  FairInv'
<1>1. /\ ~ At("promote") /\ ~ At("promote")'
      /\ guest' = guest /\ (Steady => disable' = 0)
      /\ prio' \in [Threads -> 0 .. NumPrio]
      /\ \A x, s \in Threads : Claims(x, s)' <=> Claims(x, s)
      /\ \A s \in Threads : Claims(t, s) => s = BlockedOn(t)
  BY ClaimsKept
<1>2. QueuesInv /\ Placed /\ OwnersListed
  BY DEF SafeInv, PlacedInv, MutexInv
<1> QED
  BY <1>1, <1>2, RepricedFair

\* The next owner in the chain is up.
LEMMA NextInChain ==
    ASSUME IInv, NEW b, NEW r, Goto(<<Fr("propagate", NoQueue, b, 0)>> \o r) \/ Goto(<<Fr("propagate", NoQueue, b, 0), ReschedFrame>> \o r),
           r \in Seq(Frame), UNCHANGED host
    PROVE  \A s \in Threads : s = b => Waived(s)'
<1> DEFINE f == Fr("propagate", NoQueue, b, 0)
<1>1. f.op = "propagate" /\ f.t = b
  BY DEF Fr
<1> HIDE DEF f
<1>2. CASE Goto(<<f>> \o r)
  <2>1. stack'[host'] = <<f>> \o r
    BY <1>2, GotoHere
  <2>2. stack'[host'] # <<>> /\ Head(stack'[host']) = f
    BY <2>1, HeadTailOfPush
  <2> QED
    BY <1>1, <2>2 DEF Waived, At, Top
<1>3. CASE Goto(<<f, ReschedFrame>> \o r)
  <2>1. stack'[host'] = <<f, ReschedFrame>> \o r
    BY <1>3, GotoHere
  <2>2. stack'[host'] # <<>> /\ Head(stack'[host']) = f
    BY <2>1, TwoPush
  <2> QED
    BY <1>1, <2>2 DEF Waived, At, Top
<1> QED
  BY <1>2, <1>3 DEF f

\* OSResumeThread and OSSuspendThread, from guest code or a timer.
LEMMA ResumedFair ==
    ASSUME GuestsKeepTheRules, EndersOwnNothing, IInv, SafeInv, PlacedInv, WaitInv, MutexInv, FairInv, [Next]_vars,
           InGuestCode \/ Polling, UNCHANGED host, \A m \in Mutexes : ~ OSUnlockMutex(m),
           NEW t \in Threads, NEW rest \in Seq(Frame), ResumeThread(t, rest) \/ SuspendThread(t, rest)
    PROVE  FairInv'
<1>0. /\ ~ Sleeps /\ ~ At("propagate") /\ ~ LockStep /\ ~ PromoteStep /\ ~ SleepStep
      /\ \A s \in Threads : ~ Waived(s)
  BY DEF InGuestCode, Polling, At, Sleeps, LockStep, PromoteStep, SleepStep, Waived
<1>1. suspend \in [Threads -> Nat] /\ prio \in [Threads -> 0 .. NumPrio] /\ state \in [Threads -> States]
  BY DEF IInv, TypeOK, ThreadsTypeOK
<1>2. \A s \in Threads : Terminated(s) => Terminated(s)'
  <2>1. ASSUME NEW s \in Threads PROVE Terminated(s) => Terminated(s)'
    <3>1. state'[s] = state[s] \/ state[s] = "RUNNING"
      BY ResumeMoves
    <3> QED
      BY <3>1 DEF Terminated
  <2> QED
    BY <2>1
<1>3. \A s \in Threads \ {t} : suspend'[s] = suspend[s] /\ prio'[s] = prio[s]
  <2>1. prio' = prio \/ \E p : prio' = [prio EXCEPT ![t] = p]
    BY DEF ResumeThread, SuspendThread
  <2> QED
    BY <1>1, <2>1 DEF ResumeThread, SuspendThread
<1>4. \A s \in Threads \ {t} : Alive(s)' => Alive(s)
  BY <1>2, <1>3 DEF Alive
<1>5. ASSUME ResumeThread(t, rest), suspend[t] # 1 PROVE FairInv'
  <2>1. suspend'[t] = (IF suspend[t] = 0 THEN 0 ELSE suspend[t] - 1) /\ prio' = prio
    BY <1>1, <1>5 DEF ResumeThread
  <2>2. Alive(t)' => Alive(t)
    BY <1>1, <1>2, <1>5, <2>1 DEF Alive
  <2> QED
    BY <1>0, <1>4, <2>1, <2>2, SettledFair
<1>6. ASSUME ResumeThread(t, rest), suspend[t] = 1 PROVE FairInv'
  <2>1. Goto(<<Fr("propagate", NoQueue, BlockedOn(t), 0), ReschedFrame>> \o rest)
    BY <1>6 DEF ResumeThread
  <2>2. \A s \in Threads : s = BlockedOn(t) => Waived(s)'
    BY <2>1, NextInChain
  <2>3. Alive(t)' => prio'[t] = EffectivePriority(t, owned[t])
    <3>1. Alive(t)' => ~ Terminated(t)
      BY <1>2 DEF Alive
    <3>2. ~ Terminated(t) => prio' = [prio EXCEPT ![t] = EffectivePriority(t, owned[t])]
      BY <1>6 DEF ResumeThread
    <3> QED
      BY <1>1, <3>1, <3>2
  <2> QED
    BY <1>0, <1>3, <1>4, <2>2, <2>3, RepricedStep
<1>7. ASSUME SuspendThread(t, rest) PROVE FairInv'
  <2>1. ~ Alive(t)'
    BY <1>1, <1>7 DEF SuspendThread, Alive
  <2>2. CASE suspend[t] # 0
    <3>1. prio' = prio
      BY <1>7, <2>2 DEF SuspendThread
    <3> QED
      BY <1>0, <1>4, <2>1, <3>1, SettledFair
  <2>3. CASE suspend[t] = 0
    <3>1. Goto(<<Fr("propagate", NoQueue, BlockedOn(t), 0), ReschedFrame>> \o rest)
      BY <1>7, <2>3 DEF SuspendThread
    <3>2. \A s \in Threads : s = BlockedOn(t) => Waived(s)'
      BY <3>1, NextInChain
    <3> QED
      BY <1>0, <1>3, <1>4, <2>1, <3>2, RepricedStep
  <2> QED
    BY <2>2, <2>3
<1> QED
  BY <1>5, <1>6, <1>7

\* One link of the chain gets the priority it is due.
LEMMA PropagateFair ==
    ASSUME GuestsKeepTheRules, EndersOwnNothing, IInv, SafeInv, PlacedInv, WaitInv, MutexInv, FairInv, [Next]_vars,
           PropagateStep
    PROVE  FairInv'
<1>0. /\ ~ Sleeps /\ ~ LockStep /\ ~ PromoteStep /\ ~ SleepStep /\ At("propagate") /\ UNCHANGED <<state, suspend, host>>
      /\ \A m \in Mutexes : ~ OSUnlockMutex(m)
  BY DEF At, Sleeps, LockStep, PromoteStep, SleepStep, PropagateStep, SameFiber, Return, OSUnlockMutex, Calls, InGuestCode
<1>1. /\ suspend \in [Threads -> Nat] /\ prio \in [Threads -> 0 .. NumPrio] /\ state \in [Threads -> States]
      /\ Top \in Frame /\ Rest \in Seq(Frame) /\ NoThread \notin Threads
  BY <1>0, TopType, AddressesAssumption DEF IInv, TypeOK, ThreadsTypeOK
<1>2. \A s \in Threads : Alive(s)' => Alive(s)
  BY <1>0 DEF Alive, Terminated
<1>3. CASE Top.t = NoThread
  <2>1. prio' = prio
    BY <1>3 DEF PropagateStep
  <2>2. /\ ~ At("promote") /\ ~ At("promote")'
        /\ guest' = guest /\ (Steady => disable' = 0)
        /\ \A x, s \in Threads : Claims(x, s)' <=> Claims(x, s)
    BY <1>0, ClaimsKept
  <2>3. \A s \in Threads : ~ Waived(s) /\ \A x \in Threads : ~ Promised(x, s)
    BY <1>1, <1>3, <2>2 DEF Waived, Promised
  <2>4. ASSUME NEW s \in Threads, Alive(s)' PROVE Inherits(s)' /\ (Steady' => Warranted(s, prio[s])')
    <3>1. Inherits(s) /\ (Steady => Warranted(s, prio[s]))
      BY <1>2, <2>3, <2>4 DEF FairInv
    <3>2. Inherits(s)'
      BY <2>1, <2>2, <2>3, <3>1 DEF Inherits
    <3>3. ASSUME Steady PROVE Warranted(s, prio[s])'
      BY <2>1, <2>2, <3>1, <3>3 DEF Warranted
    <3> QED
      BY <2>2, <3>2, <3>3 DEF Steady
  <2> QED
    BY <2>2, <2>4 DEF FairInv, Steady
<1>4. ASSUME Top.t # NoThread PROVE FairInv'
  <2>1. PICK t \in Threads : t = Top.t
    BY <1>0, <1>1, <1>4 DEF Frame
  <2> DEFINE p == EffectivePriority(t, owned[t])
  <2>2. \A s \in Threads \ {t} : ~ Waived(s)
    BY <2>1 DEF Waived
  <2>3. CASE suspend[t] > 0 \/ prio[t] = p
    <3>1. prio' = prio
      BY <2>1, <2>3 DEF PropagateStep
    <3>2. Alive(t)' => prio'[t] = p
      BY <1>0, <1>1, <2>1, <2>3, <3>1 DEF Alive
    <3> QED
      BY <1>0, <1>2, <2>1, <2>2, <3>1, <3>2, RepricedStep
  <2>4. CASE ~ (suspend[t] > 0 \/ prio[t] = p)
    <3>1. SetThreadEffectivePriority(t, p) /\ Goto(<<Fr("propagate", NoQueue, BlockedOn(t), 0)>> \o Rest)
      BY <1>4, <2>1, <2>4 DEF PropagateStep
    <3>2. prio' = IF Terminated(t) THEN prio ELSE [prio EXCEPT ![t] = p]
      BY <3>1 DEF SetThreadEffectivePriority
    <3>3. Alive(t)' => prio'[t] = p
      BY <1>0, <1>1, <1>2, <2>1, <3>2 DEF Alive
    <3>4. \A s \in Threads \ {t} : prio'[s] = prio[s]
      BY <1>1, <2>1, <3>2
    <3>5. \A s \in Threads : s = BlockedOn(t) => Waived(s)'
      BY <1>0, <1>1, <3>1, NextInChain
    <3> QED
      BY <1>0, <1>2, <2>1, <2>2, <3>3, <3>4, <3>5, RepricedStep
  <2> QED
    BY <2>3, <2>4
<1> QED
  BY <1>3, <1>4

\* OSLockMutex takes a mutex that nobody waits for, or starts a chain for its owner.
LEMMA LockFair ==
    ASSUME GuestsKeepTheRules, EndersOwnNothing, IInv, SafeInv, PlacedInv, WaitInv, MutexInv, FairInv, [Next]_vars,
           LockStep
    PROVE  FairInv'
<1>0. /\ stack[host] # <<>> /\ Top.op = "lock"
      /\ ~ Sleeps /\ ~ At("promote") /\ ~ At("propagate")
      /\ UNCHANGED <<host, state, suspend, prio, link, disable>>
      /\ guest' = guest
  BY GuestStays DEF LockStep, At, Sleeps, SameFiber, sched
<1>1. /\ HostInv /\ host \in Threads /\ NoThread \notin Threads
      /\ Top \in Frame /\ Rest \in Seq(Frame) /\ stack[host] \in Seq(Frame) /\ NoQueue \notin Mutexes
      /\ owner \in [Mutexes -> Threads \cup {NoThread}] /\ tmutex \in [Threads -> Mutexes \cup {NoQueue}]
      /\ prio \in [Threads -> 0 .. NumPrio]
  <2>1. Top \in Frame /\ Rest \in Seq(Frame) /\ host \in Threads
    BY <1>0, TopType DEF At
  <2> QED
    BY <2>1, AddressesAssumption
       DEF SafeInv, IInv, TypeOK, MutexesTypeOK, ThreadsTypeOK, FibersTypeOK, QueueIds, WaitQueues
<1>2. Top.t = host
  BY <1>0, <1>1, TopRuns DEF Quiet
<1>3. PICK m \in Mutexes : m = Top.q
  BY <1>0, <1>1 DEF Frame
<1>4. \A x, t \in Threads : Claims(x, t) <=> WaitsFor(x, t)
  BY <1>0 DEF Claims
<1>5. CASE CanTake(m, host)
  <2>1. owner' = [owner EXCEPT ![m] = host] /\ Goto(Rest)
    BY <1>2, <1>3, <1>5 DEF LockStep
  <2>2. Rest \in Seq(Plain) /\ stack'[host] = Rest
    BY <1>0, <2>1, FormsTop, GotoHere DEF WaitInv
  <2>3. ~ Sleeps' /\ ~ At("promote")'
    <3>1. ASSUME Rest # <<>> PROVE Head(Rest).op \notin {"sleep", "promote"}
      <4>1. Head(Rest) \in Plain
        BY <2>2, <3>1
      <4> QED
        BY <4>1 DEF Plain
    <3> QED
      BY <1>0, <2>2, <3>1 DEF Sleeps, At, Top
  <2>4. ASSUME NEW x \in Threads, NEW t \in Threads PROVE Claims(x, t)' <=> Claims(x, t)
    <3>1. Claims(x, t)' <=> WaitsFor(x, t)'
      BY <2>3 DEF Claims
    <3>2. state[x] = "WAITING" /\ link[x] = m => owner[m] = host
      BY <1>0, <1>3, <1>5 DEF CanTake, WaitInv, Unowned, Waits
    <3>3. WaitsFor(x, t)' <=> WaitsFor(x, t)
      BY <1>0, <1>1, <2>1, <3>2 DEF WaitsFor
    <3> QED
      BY <1>4, <3>1, <3>3
  <2>5. \A t \in Threads : Alive(t)' => Alive(t)
    BY <1>0 DEF Alive, Terminated
  <2>6. Steady => disable' = 0
    BY <1>0 DEF FairInv
  <2> QED
    BY <1>0, <2>3, <2>4, <2>5, <2>6, CalmFair
<1>6. CASE ~ CanTake(m, host)
  <2> DEFINE f == Fr("promote", NoQueue, owner[m], prio[host])
             g == Fr("sleep", m, NoThread, 0)
  <2>1. tmutex' = [tmutex EXCEPT ![host] = m] /\ Goto(<<f, g>> \o stack[host]) /\ UNCHANGED owner
    BY <1>2, <1>3, <1>6 DEF LockStep
  <2>2. f.op = "promote" /\ f.t = owner[m] /\ f.n = prio[host]
    BY DEF Fr
  <2> HIDE DEF f, g
  <2>3. stack'[host'] # <<>> /\ Head(stack'[host']) = f
    <3>1. stack'[host'] = <<f, g>> \o stack[host]
      BY <1>0, <2>1, GotoHere
    <3> QED
      BY <1>1, <3>1, TwoPush
  <2>4. At("promote")' /\ Top'.t = owner[m] /\ Top'.n = prio[host] /\ ~ At("propagate")' /\ Sleeps'
    BY <2>2, <2>3 DEF At, Top, Sleeps
  <2>5. tmutex'[host'] = m /\ owner[m] \in Threads
    BY <1>0, <1>1, <1>6, <2>1 DEF CanTake
  <2>6. \A x, t \in Threads : Claims(x, t)' <=> Claims(x, t) \/ (x = host /\ owner[m] = t)
    <3>1. \A x, t \in Threads : WaitsFor(x, t)' <=> WaitsFor(x, t)
      BY <1>0, <2>1 DEF WaitsFor
    <3> QED
      BY <1>0, <1>4, <2>1, <2>4, <2>5, <3>1 DEF Claims
  <2>7. ASSUME NEW t \in Threads, Alive(t)' PROVE Inherits(t)' /\ (Steady' => Warranted(t, prio[t])')
    <3>1. Inherits(t) /\ (Steady => Warranted(t, prio[t]))
      <4>1. Alive(t) /\ ~ Waived(t)
        BY <1>0, <2>7 DEF Alive, Terminated, Waived
      <4> QED
        BY <4>1 DEF FairInv
    <3>2. \A x \in Threads : ~ Promised(x, t)
      BY <1>0 DEF Promised
    <3>3. owner[m] = t => Promised(host, t)'
      BY <1>0, <1>1, <2>4 DEF Promised
    <3>4. Inherits(t)'
      BY <1>0, <2>6, <3>1, <3>2, <3>3 DEF Inherits
    <3>5. ASSUME Steady PROVE Warranted(t, prio[t])'
      BY <1>0, <2>6, <3>1, <3>5 DEF Warranted
    <3> QED
      BY <1>0, <3>4, <3>5 DEF Steady
  <2>8. Warranted(Top.t, Top.n)'
    <3>1. PICK h \in Threads, b \in Threads : h = host /\ b = owner[m]
      BY <1>1, <2>5
    <3>2. Claims(h, b)'
      BY <2>6, <3>1
    <3>3. Top'.t = b /\ Top'.n = prio[h] /\ prio'[h] <= prio[h]
      BY <1>0, <1>1, <2>4, <3>1
    <3> QED
      BY <3>1, <3>2, <3>3 DEF Warranted
  <2>9. Steady' => disable' = 0
    BY <1>0 DEF FairInv, Steady
  <2> QED
    BY <1>0, <2>4, <2>7, <2>8, <2>9 DEF FairInv
<1> QED
  BY <1>5, <1>6

\* What the other mutexes of a thread that unlocks m are worth.
LEMMA DueOthers ==
    ASSUME IInv, QueuesInv, Placed, OwnersListed, NEW h \in Threads, NEW m \in Mutexes, owner[m] = h
    PROVE  LET e == EffectivePriority(h, Unlink(owned[h], m))
           IN  /\ e \in Prios /\ e <= BasePrio[h]
               /\ \A n \in Mutexes \ {m}, x \in Threads : owner[n] = h /\ Waits(x, n) => e <= prio[x]
               /\ \/ e = BasePrio[h]
                  \/ \E n \in Mutexes \ {m}, x \in Threads : owner[n] = h /\ Waits(x, n) /\ prio[x] = e
<1> DEFINE others == Unlink(owned[h], m)
           e == EffectivePriority(h, others)
<1>1. others \in Seq(Mutexes) /\ \A n \in Mutexes : Linked(others, n) <=> owner[n] = h /\ n # m
  <2>1. owned[h] \in Seq(Mutexes)
    BY DEF IInv, TypeOK, ThreadsTypeOK
  <2>2. NoDup(owned[h]) /\ \A n \in Mutexes : Linked(owned[h], n) <=> owner[n] = h
    BY Zenon DEF OwnersListed
  <2>3. Without(others, owned[h], m)
    BY <2>1, <2>2, UnlinkPlaces
  <2>4. others \in Seq(Mutexes)
    BY <2>1, UnlinkType
  <2> HIDE DEF others
  <2>5. \A n : Linked(others, n) <=> Linked(owned[h], n) /\ n # m
    BY <2>1, <2>2, <2>3, WithoutKeeps
  <2> QED
    BY <2>2, <2>4, <2>5, Zenon
<1> HIDE DEF others
<1>2. /\ e \in Prios /\ e <= BasePrio[h]
      /\ \A i \in 1 .. Len(others), x \in Threads : Waits(x, others[i]) => e <= prio[x]
      /\ \/ e = BasePrio[h]
         \/ \E i \in 1 .. Len(others), x \in Threads : Waits(x, others[i]) /\ prio[x] = e
  BY <1>1, Due
<1> HIDE DEF e
<1>3. ASSUME NEW n \in Mutexes \ {m}, NEW x \in Threads, owner[n] = h, Waits(x, n) PROVE e <= prio[x]
  <2>1. Linked(others, n)
    BY <1>1, <1>3, Zenon
  <2>2. \E i \in 1 .. Len(others) : others[i] = n
    BY <2>1 DEF Linked
  <2> QED
    BY <1>2, <1>3, <2>2
<1>4. \A i \in 1 .. Len(others) : others[i] \in Mutexes \ {m} /\ owner[others[i]] = h
  <2>1. ASSUME NEW i \in 1 .. Len(others) PROVE others[i] \in Mutexes \ {m} /\ owner[others[i]] = h
    <3>1. others[i] \in Mutexes /\ Linked(others, others[i])
      BY <1>1, ElementOfSeq DEF Linked
    <3>2. owner[others[i]] = h /\ others[i] # m
      BY <1>1, <3>1, Zenon
    <3> QED
      BY <3>1, <3>2
  <2> QED
    BY <2>1
<1>5. e = BasePrio[h] \/ \E n \in Mutexes \ {m}, x \in Threads : owner[n] = h /\ Waits(x, n) /\ prio[x] = e
  BY <1>2, <1>4
<1> QED
  BY <1>2, <1>3, <1>5 DEF e, others

\* OSUnlockMutex: the thread gets the priority its other mutexes are worth.
LEMMA UnlockFair ==
    ASSUME GuestsKeepTheRules, EndersOwnNothing, IInv, SafeInv, PlacedInv, WaitInv, MutexInv, FairInv, [Next]_vars,
           NEW m \in Mutexes, OSUnlockMutex(m)
    PROVE  FairInv'
<1>0. /\ host \in Threads /\ stack[host] = <<>> /\ running = host /\ host \in holds[m]
      /\ state[host] = "RUNNING" /\ suspend[host] = 0
      /\ UNCHANGED <<host, state, suspend, link, disable>> /\ guest' = guest
  <2>1. Runs /\ host \in Threads /\ stack[host] = <<>> /\ host \in holds[m]
    BY GuestRuns DEF OSUnlockMutex, Calls, SafeInv
  <2>2. UNCHANGED <<host, state, suspend, link, disable>>
    BY DEF OSUnlockMutex, SameFiber, sched
  <2> QED
    BY <2>1, <2>2, GuestStays DEF Runs
<1>1. /\ owner \in [Mutexes -> Threads \cup {NoThread}] /\ owned \in [Threads -> Seq(Mutexes)]
      /\ prio \in [Threads -> 0 .. NumPrio] /\ BasePrio \in [Threads -> Prios]
      /\ NoThread \notin Threads /\ owner[m] = host
  BY <1>0, ConstantsAssumption, AddressesAssumption
     DEF IInv, TypeOK, ThreadsTypeOK, MutexesTypeOK, MutexInv, HoldersOwn
<1>2. ~ Sleeps /\ ~ At("promote") /\ ~ At("propagate") /\ \A x, t \in Threads : ~ Promised(x, t) /\ ~ Waived(t)
  BY <1>0 DEF Sleeps, At, Promised, Waived
<1>3. \A x, t \in Threads : Claims(x, t) => WaitsFor(x, t) /\ x # host
  BY <1>0, <1>2 DEF Claims, WaitsFor
<1>4. ~ Sleeps' /\ ~ At("promote")'
  <2>1. \E s \in {<<>>, <<WakeFrame(m)>>} : Goto(s)
    BY DEF OSUnlockMutex
  <2>2. stack'[host'] \in {<<>>, <<WakeFrame(m)>>}
    BY <1>0, <2>1, GotoHere
  <2>3. WakeFrame(m).op = "wake"
    BY DEF WakeFrame, Fr
  <2> QED
    BY <2>2, <2>3 DEF Sleeps, At, Top
<1>5. CASE count[m] # 1
  <2>1. UNCHANGED <<owner, prio>>
    BY <1>0, <1>5 DEF OSUnlockMutex
  <2>2. \A x, t \in Threads : Claims(x, t)' <=> Claims(x, t)
    BY <1>0, <1>2, <1>4, <2>1 DEF Claims, WaitsFor
  <2>3. \A t \in Threads : Alive(t)' => Alive(t)
    BY <1>0 DEF Alive, Terminated
  <2>4. Steady => disable' = 0
    BY <1>0 DEF FairInv
  <2> QED
    BY <1>0, <1>2, <1>4, <2>1, <2>2, <2>3, <2>4, CalmFair
<1>6. CASE count[m] = 1
  <2> DEFINE e == EffectivePriority(host, Unlink(owned[host], m))
  <2>1. /\ owner' = [owner EXCEPT ![m] = NoThread]
        /\ prio' = IF prio[host] < BasePrio[host] THEN [prio EXCEPT ![host] = e] ELSE prio
    BY <1>0, <1>1, <1>6 DEF OSUnlockMutex
  <2>2. /\ e \in Prios /\ e <= BasePrio[host]
        /\ \A n \in Mutexes \ {m}, x \in Threads : owner[n] = host /\ Waits(x, n) => e <= prio[x]
        /\ \/ e = BasePrio[host]
           \/ \E n \in Mutexes \ {m}, x \in Threads : owner[n] = host /\ Waits(x, n) /\ prio[x] = e
    BY <1>0, <1>1, DueOthers DEF SafeInv, PlacedInv, MutexInv
  <2> HIDE DEF e
  <2>3. \A x, t \in Threads : Claims(x, t)' <=> Claims(x, t) /\ link[x] # m
    BY <1>0, <1>1, <1>2, <1>4, <2>1 DEF Claims, WaitsFor
  <2>4. \A x, t \in Threads : Claims(x, t) => prio'[x] = prio[x]
    BY <1>0, <1>1, <1>3, <2>1
  <2>5. ASSUME NEW t \in Threads, Alive(t)' PROVE Inherits(t)' /\ (Steady' => Warranted(t, prio[t])')
    <3>1. Inherits(t) /\ (Steady => Warranted(t, prio[t]))
      BY <1>0, <1>2, <2>5 DEF FairInv, Alive, Terminated
    <3>2. CASE t # host
      <4>1. prio'[t] = prio[t] /\ \A x \in Threads : Claims(x, t)' <=> Claims(x, t)
        <5>1. prio'[t] = prio[t]
          BY <1>1, <2>1, <3>2
        <5>2. \A x \in Threads : Claims(x, t) => link[x] # m
          BY <1>1, <1>3, <3>2 DEF WaitsFor
        <5> QED
          BY <2>3, <5>1, <5>2
      <4>2. Inherits(t)'
        BY <1>2, <2>4, <3>1, <4>1 DEF Inherits
      <4>3. ASSUME Steady PROVE Warranted(t, prio[t])'
        BY <2>4, <3>1, <4>1, <4>3 DEF Warranted
      <4> QED
        BY <1>0, <4>2, <4>3 DEF Steady
    <3>3. CASE t = host /\ prio[host] < BasePrio[host]
      <4>1. prio'[t] = e
        BY <1>0, <1>1, <2>1, <3>3
      <4>2. ASSUME NEW x \in Threads, Claims(x, t)' PROVE e <= prio'[x]
        <5>1. state[x] = "WAITING" /\ link[x] \in Mutexes /\ owner[link[x]] = host /\ link[x] # m
          BY <1>3, <2>3, <3>3, <4>2 DEF WaitsFor
        <5>2. e <= prio[x]
          BY <2>2, <5>1 DEF Waits
        <5> QED
          BY <2>3, <2>4, <4>2, <5>2
      <4>3. Inherits(t)'
        BY <2>2, <3>3, <4>1, <4>2 DEF Inherits
      <4>4. Warranted(t, prio[t])'
        <5>1. ASSUME NEW n \in Mutexes \ {m}, NEW x \in Threads, owner[n] = host, Waits(x, n), prio[x] = e
              PROVE  Claims(x, t)' /\ prio'[x] <= e
          <6>1. Claims(x, t) /\ link[x] # m
            BY <3>3, <5>1 DEF Claims, WaitsFor, Waits
          <6>2. e <= e
            BY <2>2 DEF Prios
          <6> QED
            BY <2>3, <2>4, <5>1, <6>1, <6>2
        <5> QED
          BY <1>1, <2>2, <3>3, <4>1, <5>1 DEF Warranted, Prios
      <4> QED
        BY <4>3, <4>4
    <3>4. CASE t = host /\ ~ (prio[host] < BasePrio[host])
      <4>1. prio' = prio /\ BasePrio[t] <= prio[t]
        BY <1>0, <1>1, ConstantsAssumption, <2>1, <3>4 DEF Prios
      <4>2. Inherits(t)'
        BY <1>2, <2>3, <3>1, <4>1 DEF Inherits
      <4>3. Warranted(t, prio[t])'
        BY <4>1 DEF Warranted
      <4> QED
        BY <4>2, <4>3
    <3> QED
      BY <3>2, <3>3, <3>4
  <2>6. Steady' => disable' = 0
    BY <1>0 DEF FairInv, Steady
  <2> QED
    BY <1>4, <2>5, <2>6 DEF FairInv
<1> QED
  BY <1>5, <1>6

\* One link of the chain gets the priority of the thread that waits.
LEMMA PromoteFair ==
    ASSUME GuestsKeepTheRules, EndersOwnNothing, IInv, SafeInv, PlacedInv, WaitInv, MutexInv, FairInv, [Next]_vars,
           PromoteStep
    PROVE  FairInv'
<1>0. /\ stack[host] # <<>> /\ Top.op = "promote" /\ At("promote") /\ Sleeps
      /\ ~ LockStep /\ ~ SleepStep /\ (\A m \in Mutexes : ~ OSUnlockMutex(m))
      /\ UNCHANGED <<host, state, suspend, owner, tmutex, disable>> /\ guest' = guest
  BY GuestStays DEF PromoteStep, At, Sleeps, LockStep, SleepStep, OSUnlockMutex, Calls, InGuestCode, SameFiber, Return, mutex
<1>1. /\ host \in Threads /\ NoThread \notin Threads /\ Top \in Frame /\ Rest \in Seq(Frame)
      /\ owner \in [Mutexes -> Threads \cup {NoThread}] /\ tmutex \in [Threads -> Mutexes \cup {NoQueue}]
      /\ prio \in [Threads -> 0 .. NumPrio] /\ suspend \in [Threads -> Nat] /\ NumPrio \in Nat
      /\ BasePrio \in [Threads -> Prios]
  <2>1. Top \in Frame /\ Rest \in Seq(Frame) /\ host \in Threads
    BY <1>0, TopType
  <2> QED
    BY <2>1, ConstantsAssumption, AddressesAssumption DEF IInv, TypeOK, ThreadsTypeOK, MutexesTypeOK
<1>2. PICK n \in 0 .. NumPrio, b \in Threads \cup {NoThread}, k \in Mutexes :
         n = Top.n /\ b = Top.t /\ n = prio[host] /\ k = tmutex[host] /\ owner[k] # NoThread
  <2>1. Blocks(tmutex[host])
    BY <1>0, FormsTop DEF WaitInv, Plain
  <2>2. Top.n = prio[host] /\ Top.n \in 0 .. NumPrio /\ Top.t \in Threads \cup {NoThread}
    BY <1>0, <1>1 DEF FairInv, Frame
  <2> QED
    BY <2>1, <2>2 DEF Blocks
<1>3. \A x, s \in Threads : WaitsFor(x, s)' <=> WaitsFor(x, s)
  BY <1>0, WaitersKept
<1>4. ASSUME Sleeps' PROVE \A x, s \in Threads : Claims(x, s)' <=> Claims(x, s)
  BY <1>0, <1>3, <1>4 DEF Claims
<1>5. \A s \in Threads : /\ Alive(s)' => Alive(s)
                         /\ Alive(s) => Inherits(s) /\ (Steady => Warranted(s, prio[s]))
  BY <1>0 DEF Alive, Terminated, FairInv, Waived, At
<1>6. \A x, s \in Threads : Promised(x, s) <=> s = b /\ n <= prio[x]
  BY <1>0, <1>2 DEF Promised
<1>7. Steady' => disable' = 0
  BY <1>0 DEF FairInv, Steady
<1>8. CASE b = NoThread \/ suspend[b] > 0 \/ prio[b] <= n
  <2>1. prio' = prio /\ Goto(Rest)
    BY <1>2, <1>8 DEF PromoteStep, Return
  <2>2. ~ At("promote")' /\ ~ At("propagate")' /\ Sleeps'
    <3>1. PICK u \in Seq(Plain) : Rest = <<Fr("sleep", k, NoThread, 0)>> \o u
      BY <1>0, <1>2, FormsTop DEF WaitInv, Plain
    <3> DEFINE g == Fr("sleep", k, NoThread, 0)
    <3>2. g.op = "sleep" /\ g.q = k
      BY DEF Fr
    <3> HIDE DEF g
    <3>3. stack'[host'] = <<g>> \o u
      BY <1>0, <2>1, <3>1, GotoHere DEF g
    <3>4. stack'[host'] # <<>> /\ Head(stack'[host']) = g
      BY <3>3, HeadTailOfPush
    <3> QED
      BY <1>2, <3>2, <3>4 DEF At, Sleeps, Top
  <2>3. ASSUME NEW s \in Threads, Alive(s)' PROVE Inherits(s)' /\ (Steady' => Warranted(s, prio[s])')
    <3>1. Inherits(s) /\ (Steady => Warranted(s, prio[s])) /\ suspend[s] = 0
      BY <1>0, <1>5, <2>3 DEF Alive
    <3>2. \A x \in Threads : Promised(x, s) => prio[s] <= prio[x]
      BY <1>1, <1>2, <1>6, <1>8, <3>1
    <3>3. Inherits(s)'
      BY <1>4, <2>1, <2>2, <3>1, <3>2 DEF Inherits
    <3>4. ASSUME Steady PROVE Warranted(s, prio[s])'
      BY <1>4, <2>1, <2>2, <3>1, <3>4 DEF Warranted
    <3> QED
      BY <1>0, <3>3, <3>4 DEF Steady
  <2> QED
    BY <1>7, <2>2, <2>3 DEF FairInv
<1>9. CASE ~ (b = NoThread \/ suspend[b] > 0 \/ prio[b] <= n)
  <2>0. b \in Threads /\ b # host /\ suspend[b] = 0 /\ n < prio[b]
    BY <1>1, <1>2, <1>9
  <2> DEFINE f == Fr("promote", NoQueue, BlockedOn(b), n)
  <2>1. SetThreadEffectivePriority(b, n) /\ Goto(<<f>> \o Rest)
    BY <1>2, <1>9 DEF PromoteStep
  <2>2. f.op = "promote" /\ f.t = BlockedOn(b) /\ f.n = n
    BY DEF Fr
  <2> HIDE DEF f
  <2>3. At("promote")' /\ Top'.t = BlockedOn(b) /\ Top'.n = n /\ ~ At("propagate")' /\ Sleeps'
    <3>1. stack'[host'] = <<f>> \o Rest
      BY <1>0, <2>1, GotoHere
    <3>2. stack'[host'] # <<>> /\ Head(stack'[host']) = f
      BY <3>1, HeadTailOfPush
    <3> QED
      BY <2>2, <3>2 DEF At, Top, Sleeps
  <2>4. prio' = IF Terminated(b) THEN prio ELSE [prio EXCEPT ![b] = n]
    BY <2>1 DEF SetThreadEffectivePriority
  <2>5. /\ \A x \in Threads \ {b} : prio'[x] = prio[x]
        /\ \A x \in Threads : prio'[x] <= prio[x] /\ (prio[x] < n \/ n <= prio'[x])
        /\ ~ Terminated(b) => prio'[b] = n
    BY <1>1, <2>0, <2>4
  <2>6. prio' \in [Threads -> 0 .. NumPrio]
    BY <1>1, <1>2, <2>4
  <2>7. ASSUME NEW s \in Threads, Claims(b, s) PROVE s = BlockedOn(b)
    <3>1. state[b] = "WAITING" /\ link[b] \in Mutexes /\ owner[link[b]] = s
      BY <2>0, <2>7 DEF Claims, WaitsFor
    <3>2. link[b] = tmutex[b] /\ tmutex[b] # NoQueue
      BY <2>0, <3>1, AddressesAssumption DEF WaitInv, WaitsThere, QueueIds, WaitQueues
    <3> QED
      BY <3>1, <3>2 DEF BlockedOn
  <2>8. ASSUME NEW s \in Threads, Alive(s)' PROVE Inherits(s)' /\ (Steady' => Warranted(s, prio[s])')
    <3>1. Inherits(s) /\ (Steady => Warranted(s, prio[s])) /\ Alive(s)
      BY <1>5, <2>8
    <3>2. CASE s # b
      <4>1. ASSUME NEW x \in Threads, Claims(x, s) PROVE prio'[s] <= prio'[x] \/ Promised(x, s)'
        <5>1. prio[s] <= prio[x] /\ prio'[s] = prio[s]
          BY <1>6, <2>5, <3>1, <3>2, <4>1 DEF Inherits
        <5>2. CASE x # b
          BY <2>5, <5>1, <5>2
        <5>3. CASE x = b
          <6>1. s = BlockedOn(b)
            BY <2>7, <4>1, <5>3
          <6>2. n <= prio'[x]
            BY <1>1, <1>2, <2>0, <2>5, <2>6, <5>3
          <6> QED
            BY <2>3, <6>1, <6>2 DEF Promised
        <5> QED
          BY <5>2, <5>3
      <4>2. Inherits(s)'
        BY <1>4, <2>3, <2>5, <3>1, <3>2, <4>1 DEF Inherits
      <4>3. ASSUME Steady PROVE Warranted(s, prio[s])'
        <5>1. prio'[s] = prio[s]
          BY <2>5, <3>2
        <5>2. \A x \in Threads : prio[x] <= prio[s] => prio'[x] <= prio'[s]
          BY <1>1, <2>5, <2>6, <5>1
        <5> QED
          BY <1>4, <2>3, <3>1, <4>3, <5>1, <5>2 DEF Warranted
      <4> QED
        BY <1>0, <4>2, <4>3 DEF Steady
    <3>3. CASE s = b
      <4>1. prio'[s] = n /\ n <= BasePrio[s]
        <5>1. ~ Terminated(b) /\ prio[b] <= BasePrio[b]
          BY <3>1, <3>3 DEF Alive, Inherits
        <5> QED
          BY <1>1, <1>2, <2>0, <2>5, <3>3, <5>1 DEF Prios
      <4>2. ASSUME NEW x \in Threads, Claims(x, s) PROVE n <= prio'[x]
        <5>1. n <= prio[x]
          <6>1. prio[s] <= prio[x] \/ n <= prio[x]
            BY <1>6, <3>1, <4>2 DEF Inherits
          <6> QED
            BY <1>1, <1>2, <2>0, <3>3, <6>1
        <5> QED
          BY <1>1, <1>2, <2>5, <2>6, <5>1
      <4>3. Inherits(s)'
        BY <1>4, <2>3, <4>1, <4>2 DEF Inherits
      <4>4. ASSUME Steady PROVE Warranted(s, prio[s])'
        <5>1. Warranted(s, n)
          BY <1>0, <1>1, <1>2, <2>0, <3>3, <4>4 DEF FairInv
        <5>2. \A x \in Threads : prio[x] <= n => prio'[x] <= n
          BY <1>1, <1>2, <2>5, <2>6
        <5> QED
          BY <1>4, <2>3, <4>1, <5>1, <5>2 DEF Warranted
      <4> QED
        BY <1>0, <4>3, <4>4 DEF Steady
    <3> QED
      BY <3>2, <3>3
  <2>9. ASSUME Top'.t # NoThread PROVE Warranted(Top.t, Top.n)'
    <3>1. PICK c : c = BlockedOn(b)
      OBVIOUS
    <3>2. state[b] = "WAITING" /\ tmutex[b] # NoQueue /\ c = owner[tmutex[b]] /\ c # NoThread
      BY <2>3, <2>9, <3>1 DEF BlockedOn
    <3>3. link[b] = tmutex[b] /\ tmutex[b] \in Mutexes /\ c \in Threads
      BY <1>1, <2>0, <3>2 DEF WaitInv, WaitsThere
    <3>4. Claims(b, c)
      BY <3>2, <3>3 DEF Claims, WaitsFor
    <3>5. Claims(b, c)'
      BY <1>4, <2>0, <2>3, <3>3, <3>4
    <3>6. prio'[b] <= n
      BY <1>1, <1>2, <2>0, <2>5, <3>2 DEF Terminated
    <3> QED
      BY <2>0, <2>3, <3>1, <3>5, <3>6 DEF Warranted
  <2>10. Top'.n = prio'[host']
    BY <1>0, <1>1, <1>2, <2>0, <2>3, <2>5
  <2> QED
    BY <1>7, <2>3, <2>8, <2>9, <2>10 DEF FairInv
<1> QED
  BY <1>8, <1>9

\* Every step keeps the priorities fair.
LEMMA FairStep ==
    ASSUME GuestsKeepTheRules, EndersOwnNothing, IInv, SafeInv, PlacedInv, WaitInv, MutexInv, FairInv, [Next]_vars
    PROVE  FairInv'
<1>1. CASE LockStep
  BY <1>1, LockFair
<1>2. CASE \E m \in Mutexes : OSUnlockMutex(m)
  BY <1>2, UnlockFair
<1>3. CASE PromoteStep
  BY <1>3, PromoteFair
<1>4. CASE PropagateStep
  BY <1>4, PropagateFair
<1>5. ASSUME ~ LockStep, ~ PromoteStep, ~ PropagateStep, \A m \in Mutexes : ~ OSUnlockMutex(m) PROVE FairInv'
  <2>1. ASSUME NEW t \in Threads,
               ~ ((suspend'[t] = suspend[t] /\ prio'[t] = prio[t]) \/ \E d \in BOOLEAN : OSCreateThread(t, d))
        PROVE  FairInv'
    <3>1. Prices(t)
      BY PricesStep
    <3>2. ASSUME NEW rest, ResumeThread(t, rest),
                 OSResumeThread(t) \/ (SleepTimerFires(t) /\ state[t] = "READY" /\ rest = stack[host])
          PROVE  FairInv'
      <4>1. CASE OSResumeThread(t)
        <5>1. ResumeThread(t, <<>>) /\ InGuestCode /\ UNCHANGED host /\ <<>> \in Seq(Frame)
          BY <4>1 DEF OSResumeThread, Calls, SameFiber
        <5> QED
          BY <1>5, <5>1, ResumedFair
      <4>2. CASE SleepTimerFires(t) /\ rest = stack[host]
        <5>1. Polling /\ UNCHANGED host /\ stack[host] \in Seq(Frame)
          BY <4>2 DEF SleepTimerFires, SameFiber, IInv, TypeOK, FibersTypeOK
        <5> QED
          BY <1>5, <3>2, <4>2, <5>1, ResumedFair
      <4> QED
        BY <3>2, <4>1, <4>2
    <3>3. ASSUME NEW rest, SuspendThread(t, rest), OSSuspendThread(t) \/ (OSSleepTicks /\ t = host) PROVE FairInv'
      <4>1. CASE OSSuspendThread(t)
        <5>1. SuspendThread(t, <<>>) /\ InGuestCode /\ UNCHANGED host /\ <<>> \in Seq(Frame)
          BY <4>1 DEF OSSuspendThread, Calls, SameFiber
        <5> QED
          BY <1>5, <5>1, ResumedFair
      <4>2. CASE OSSleepTicks /\ t = host
        <5> DEFINE r == <<Fr("ticked", NoQueue, Sleeper, 0)>>
        <5>1. Sleeper \in Threads
          BY <4>2 DEF OSSleepTicks, Sleeper, IInv, TypeOK, FibersTypeOK, SchedulerTypeOK
        <5>2. SuspendThread(Sleeper, r) /\ InGuestCode /\ UNCHANGED host
          BY <4>2 DEF OSSleepTicks, Calls, SameFiber
        <5>3. r \in Seq(Frame)
          <6>1. Fr("ticked", NoQueue, Sleeper, 0) \in Frame
            BY <5>1, FrameForms
          <6> QED
            BY <6>1
        <5> HIDE DEF r
        <5> QED
          BY <1>5, <5>1, <5>2, <5>3, ResumedFair
      <4> QED
        BY <3>3, <4>1, <4>2
    <3> QED
      BY <1>5, <2>1, <3>1, <3>2, <3>3 DEF Prices
  <2>2. CASE \A t \in Threads : \/ suspend'[t] = suspend[t] /\ prio'[t] = prio[t]
                                \/ \E d \in BOOLEAN : OSCreateThread(t, d)
    BY <1>5, <2>2, OtherFair
  <2> QED
    BY <2>1, <2>2
<1> QED
  BY <1>1, <1>2, <1>3, <1>4, <1>5

\* The default thread owns nothing, waits for nothing and has its own priority.
LEMMA InitWaits == ASSUME Init PROVE WaitInv /\ FairInv
<1>0. Main \in Threads /\ <<>> \in Seq(Plain) /\ prio = BasePrio /\ BasePrio \in [Threads -> Prios] /\ NumPrio \in Nat
      /\ NoQueue \notin Mutexes
  BY ConstantsAssumption, AddressesAssumption DEF Init, QueueIds, WaitQueues
<1>1. \A t \in Threads : state[t] # "WAITING" /\ stack[t] = <<>> /\ tmutex[t] = NoQueue
  BY DEF Init
<1>2. host = Main /\ stack[host] = <<>> /\ disable = 0
  BY <1>0, <1>1 DEF Init
<1>3. WaitInv
  BY <1>0, <1>1, <1>2 DEF WaitInv, FormsInv, HostForms, Locking, WaitsThere, Unowned, WaiterPrio, Waits
<1>4. \A x, t \in Threads : ~ Claims(x, t)
  BY <1>1, <1>2 DEF Claims, WaitsFor, Sleeps
<1>5. \A t \in Threads : BasePrio[t] \in Nat /\ prio[t] = BasePrio[t]
  BY <1>0 DEF Prios
<1>6. FairInv
  BY <1>2, <1>4, <1>5 DEF FairInv, At, Inherits, Warranted
<1> QED
  BY <1>3, <1>6

\* Frames, waiters and priorities are as they should be in every reachable state.
LEMMA FairInvariant ==
    ASSUME GuestsKeepTheRules, EndersOwnNothing
    PROVE  Spec => [](WaitInv /\ FairInv)
<1>1. Init => WaitInv /\ FairInv
  BY InitWaits
<1>2. IInv /\ SafeInv /\ PlacedInv /\ MutexInv /\ WaitInv /\ FairInv /\ [Next]_vars => WaitInv' /\ FairInv'
  BY WaitStep, FairStep
<1> QED
  BY <1>1, <1>2, SafeInvariant, PlacedInvariant, MutexInvariant, InductiveInvariant, PTL DEF Spec

\* Between two calls of the guest no thread that may run is less urgent than a waiter of
\* a mutex it owns: what PromoteThreadPriority passes on when OSLockMutex blocks is lost
\* by no OSSuspendThread, OSResumeThread, timer or OSUnlockMutex of any thread of the
\* chain, each of which has PropagateMutexOwnerPriority or a recomputation make up for it.
THEOREM PrioritiesAreInherited ==
    ASSUME GuestsKeepTheRules, EndersOwnNothing
    PROVE  Spec => []PriorityInherited
<1>1. IInv /\ SafeInv /\ PlacedInv /\ MutexInv /\ WaitInv /\ FairInv => PriorityInherited
  <2> SUFFICES ASSUME IInv, SafeInv, PlacedInv, MutexInv, FairInv, InGuestCode, NEW t \in Threads, Alive(t)
               PROVE  prio[t] <= EffectivePriority(t, owned[t])
    BY Zenon DEF PriorityInherited, Alive
  <2> DEFINE e == EffectivePriority(t, owned[t])
  <2>1. ~ Sleeps /\ ~ Waived(t) /\ \A x \in Threads : ~ Promised(x, t)
    BY DEF InGuestCode, Sleeps, Waived, Promised, At
  <2>2. prio[t] <= BasePrio[t] /\ \A x \in Threads : Claims(x, t) => prio[t] <= prio[x]
    BY <2>1 DEF FairInv, Inherits
  <2>3. \/ e = BasePrio[t]
        \/ \E x \in Threads : Claims(x, t) /\ prio[x] = e
    BY <2>1, DueOwner DEF SafeInv, PlacedInv, MutexInv
  <2> HIDE DEF e
  <2> QED
    BY <2>2, <2>3 DEF e
<1> QED
  BY <1>1, SafeInvariant, PlacedInvariant, MutexInvariant, FairInvariant, InductiveInvariant, PTL

-----------------------------------------------------------------------------
(***************************************************************************)
(* The most urgent thread runs.                                            *)
(***************************************************************************)

\* No thread that is ready is more urgent than that of the running fiber.
Urgent == \A x \in Threads : state[x] = "READY" /\ suspend[x] = 0 => prio[host] <= prio[x]

\* SelectThread is called before the guest goes on.
Comes ==
    \/ Has(stack[host], {"select", "wakeResched"})
    \/ resched /\ Has(stack[host], {"resched"})
    \/ At("wake") /\ \E x \in Threads : Waits(x, Top.q) /\ suspend[x] = 0

UrgentInv == Steady /\ state[host] = "RUNNING" => Urgent \/ Comes

\* Ready threads are on the run queue of their priority, and no others are.
LEMMA ReadyPlaces ==
    ASSUME IInv, QueuesInv, Placed
    PROVE  /\ \A x \in Threads : state[x] = "READY" /\ suspend[x] = 0 => prio[x] \in pending
           /\ \A p \in Prios, x \in Threads : Linked(queue[p], x) =>
                 state[x] = "READY" /\ suspend[x] = 0 /\ prio[x] = p
           /\ \A p \in pending : p \in Prios /\ \E x \in Threads : Linked(queue[p], x)
<1>0. /\ GoodLists(queue, pending, prio) /\ pending = {r \in Prios : queue[r] # <<>>}
      /\ queue \in [QueueIds -> Seq(Threads)] /\ prio \in [Threads -> 0 .. NumPrio]
      /\ Prios \subseteq QueueIds /\ WaitQueues \cap Prios = {}
  BY QueuesFacts, PriosAreNoWaitQueues DEF GoodLists, ListsOK
<1>1. ASSUME NEW x \in Threads, state[x] = "READY", suspend[x] = 0 PROVE prio[x] \in pending
  <2>1. prio[x] \in Prios
    BY <1>0, <1>1, PriosAreNoWaitQueues DEF QueuesInv, PriosOK
  <2>2. Linked(queue[prio[x]], x)
    BY <1>1, Zenon DEF Placed
  <2>3. queue[prio[x]] # <<>>
    BY <2>2, LinkedFacts
  <2> QED
    BY <1>0, <2>1, <2>3
<1>2. ASSUME NEW p \in Prios, NEW x \in Threads, Linked(queue[p], x)
      PROVE  state[x] = "READY" /\ suspend[x] = 0 /\ prio[x] = p
  <2>1. p \in QueueIds /\ p \notin WaitQueues
    BY <1>0
  <2>2. link[x] = p /\ state[x] = "READY" /\ suspend[x] = 0
    BY <1>2, <2>1, Zenon DEF QueuesInv, Shelved
  <2>3. Linked(queue[prio[x]], x) /\ prio[x] \in QueueIds
    BY <1>0, <2>2, PriosAreNoWaitQueues, QueueIdsFacts DEF Placed, QueuesInv, PriosOK
  <2>4. link[x] = prio[x]
    BY <2>3, Zenon DEF QueuesInv, Shelved
  <2> QED
    BY <2>2, <2>4
<1>3. ASSUME NEW p \in pending PROVE p \in Prios /\ \E x \in Threads : Linked(queue[p], x)
  <2>1. p \in Prios /\ queue[p] \in Seq(Threads) /\ queue[p] # <<>>
    BY <1>0
  <2> QED
    BY <2>1, LinkedFacts
<1> QED
  BY <1>1, <1>2, <1>3

\* The thread that SelectThread takes is the most urgent one.
LEMMA PickUrgent ==
    ASSUME IInv, QueuesInv, HostInv, Placed, Pick
    PROVE  Urgent'
<1>0. /\ state \in [Threads -> States] /\ prio \in [Threads -> 0 .. NumPrio] /\ pending \subseteq Nat
  BY DEF IInv, TypeOK, ThreadsTypeOK, QueuesTypeOK, Prios
<1>1. PICK p \in Prios, t \in Threads :
         p = Least(pending) /\ p \in pending /\ t = Head(queue[p]) /\ Linked(queue[p], t) /\ Dispatch(p)
  BY PickDispatches
<1>2. host' = t /\ state' = [state EXCEPT ![t] = "RUNNING"] /\ prio' = prio /\ suspend' = suspend
  BY <1>1 DEF Dispatch, SwitchTo, Pick
<1>3. prio[t] = p
  BY <1>1, ReadyPlaces
<1>4. ASSUME NEW x \in Threads, state[x] = "READY", suspend[x] = 0 PROVE p <= prio[x]
  <2>1. prio[x] \in pending
    BY <1>4, ReadyPlaces
  <2> QED
    BY <1>0, <1>1, <2>1, LeastProperties
<1> QED
  BY <1>0, <1>2, <1>3, <1>4 DEF Urgent

\* A step that makes no thread ready or more urgent, and lets the same one run.
LEMMA UrgentStays ==
    ASSUME GuestsKeepTheRules, IInv, SafeInv, [Next]_vars, Urgent, ~ WakeStep, state'[host] = "RUNNING", UNCHANGED host,
           \A t \in Threads : \/ suspend'[t] = suspend[t] /\ prio'[t] = prio[t]
                              \/ \E d \in BOOLEAN : OSCreateThread(t, d),
           state[host] = "RUNNING"
    PROVE  Urgent'
<1>0. host \in Threads /\ suspend \in [Threads -> Nat]
  BY DEF IInv, TypeOK, ThreadsTypeOK, FibersTypeOK
<1>1. ASSUME NEW x \in Threads, state'[x] = "READY", suspend'[x] = 0
      PROVE  state[x] = "READY" /\ suspend[x] = 0 /\ prio'[x] = prio[x]
  <2>1. \A d \in BOOLEAN : ~ OSCreateThread(x, d)
    <3>1. ASSUME NEW d \in BOOLEAN, OSCreateThread(x, d) PROVE suspend'[x] = 1
      BY <1>0, <3>1 DEF OSCreateThread
    <3> QED
      BY <1>1, <3>1
  <2>2. x # host
    BY <1>1
  <2>3. Moves(x)
    BY MovesStep
  <2> QED
    BY <1>1, <2>1, <2>2, <2>3 DEF Moves, Terminated
<1>2. prio'[host] = prio[host]
  <2>1. \A d \in BOOLEAN : ~ OSCreateThread(host, d)
    BY DEF OSCreateThread
  <2> QED
    BY <1>0, <2>1
<1> QED
  BY <1>1, <1>2 DEF Urgent

\* OSResumeThread makes a thread ready and reschedules; OSSuspendThread takes one away.
LEMMA ResumeUrgent ==
    ASSUME IInv, SafeInv, Urgent, state[host] = "RUNNING", suspend[host] = 0, state'[host] = "RUNNING", UNCHANGED host,
           NEW t \in Threads, NEW rest \in Seq(Frame), ResumeThread(t, rest) \/ SuspendThread(t, rest)
    PROVE  Urgent' \/ Comes'
<1>0. /\ host \in Threads /\ suspend \in [Threads -> Nat] /\ prio \in [Threads -> 0 .. NumPrio]
      /\ state \in [Threads -> States]
  BY DEF IInv, TypeOK, ThreadsTypeOK, FibersTypeOK
<1>1. \A s \in Threads \ {t} : suspend'[s] = suspend[s] /\ prio'[s] = prio[s]
  <2>1. prio' = prio \/ \E p : prio' = [prio EXCEPT ![t] = p]
    BY DEF ResumeThread, SuspendThread
  <2> QED
    BY <1>0, <2>1 DEF ResumeThread, SuspendThread
<1>2. \A s \in Threads : state'[s] = "READY" => state[s] = "READY"
  <2>1. ASSUME NEW s \in Threads, state'[s] = "READY" PROVE state[s] = "READY"
    <3>1. state'[s] = state[s] \/ s = host
      BY ResumeMoves
    <3> QED
      BY <2>1, <3>1
  <2> QED
    BY <2>1
<1>3. ASSUME t # host, suspend'[t] = 0 => suspend[t] = 0 /\ prio'[t] = prio[t] PROVE Urgent'
  BY <1>0, <1>1, <1>2, <1>3 DEF Urgent
<1>4. CASE ResumeThread(t, rest) /\ suspend[t] # 1
  <2>1. suspend'[t] = (IF suspend[t] = 0 THEN 0 ELSE suspend[t] - 1) /\ prio' = prio
    BY <1>0, <1>4 DEF ResumeThread
  <2>2. suspend'[t] = 0 => suspend[t] = 0
    BY <1>0, <1>4, <2>1
  <2> QED
    BY <1>1, <1>2, <2>1, <2>2 DEF Urgent
<1>5. CASE ResumeThread(t, rest) /\ suspend[t] = 1
  <2>1. t # host
    BY <1>5
  <2>2. CASE state[t] # "READY"
    BY <1>0, <1>1, <1>2, <2>1, <2>2 DEF Urgent
  <2>3. CASE state[t] = "READY"
    <3> DEFINE f == Fr("propagate", NoQueue, BlockedOn(t), 0)
    <3>1. resched' /\ Goto(<<f, ReschedFrame>> \o rest)
      BY <1>5, <2>3 DEF ResumeThread
    <3> HIDE DEF f
    <3>2. Has(stack'[host'], {"resched"})
      <4>1. stack'[host'] = <<f, ReschedFrame>> \o rest
        BY <3>1, GotoHere
      <4>2. ReschedFrame.op = "resched"
        BY DEF ReschedFrame, Fr
      <4>3. \A g : Has(<<f, g>> \o rest, {"resched"}) <=> f.op \in {"resched"} \/ g.op \in {"resched"} \/ Has(rest, {"resched"})
        BY HasPush
      <4> QED
        BY <4>1, <4>2, <4>3
    <3> QED
      BY <3>1, <3>2 DEF Comes
  <2> QED
    BY <2>2, <2>3
<1>6. CASE SuspendThread(t, rest)
  <2>1. suspend'[t] # 0
    BY <1>0, <1>6 DEF SuspendThread
  <2>2. t # host
    <3>1. ASSUME t = host PROVE FALSE
      <4>1. state' = [state EXCEPT ![host] = "READY"]
        BY <1>6, <3>1 DEF SuspendThread
      <4> QED
        BY <1>0, <4>1
    <3> QED
      BY <3>1
  <2> QED
    BY <1>3, <2>1, <2>2
<1> QED
  BY <1>4, <1>5, <1>6

\* What calls SelectThread stays on the stack while other frames are on top of it.
LEMMA ComesStays ==
    ASSUME IInv, Comes, Piles, resched => resched',
           Top.op \notin {"select", "wakeResched", "resched", "wake"}
    PROVE  Comes'
<1>1. host' = host /\ ~ At("wake")
  BY DEF Piles, At
<1>2. CASE Has(stack[host], {"select", "wakeResched"})
  BY <1>1, <1>2, PilesKeep DEF Comes
<1>3. CASE resched /\ Has(stack[host], {"resched"})
  BY <1>1, <1>3, PilesKeep DEF Comes
<1> QED
  BY <1>1, <1>2, <1>3 DEF Comes

\* OSUnlockMutex gives up an inherited priority only where the waiter it came from
\* is woken next.
LEMMA UnlockUrgent ==
    ASSUME GuestsKeepTheRules, EndersOwnNothing, IInv, SafeInv, PlacedInv, WaitInv, MutexInv, FairInv,
           Steady, Urgent, NEW m \in Mutexes, OSUnlockMutex(m)
    PROVE  Urgent' \/ Comes'
<1>0. /\ host \in Threads /\ stack[host] = <<>> /\ running = host /\ host \in holds[m]
      /\ state[host] = "RUNNING" /\ suspend[host] = 0
      /\ UNCHANGED <<host, state, suspend, link>>
  <2>1. Runs /\ host \in Threads /\ stack[host] = <<>> /\ host \in holds[m]
    BY GuestRuns DEF OSUnlockMutex, Calls, SafeInv
  <2>2. UNCHANGED <<host, state, suspend, link>>
    BY DEF OSUnlockMutex, SameFiber
  <2> QED
    BY <2>1, <2>2 DEF Runs
<1>1. /\ prio \in [Threads -> 0 .. NumPrio] /\ BasePrio \in [Threads -> Prios] /\ NumPrio \in Nat
      /\ suspend \in [Threads -> Nat] /\ NoThread \notin Threads /\ owner[m] = host
  BY <1>0, ConstantsAssumption, AddressesAssumption DEF IInv, TypeOK, ThreadsTypeOK, MutexInv, HoldersOwn
<1>2. CASE count[m] # 1 \/ ~ (prio[host] < BasePrio[host])
  <2>1. prio' = prio
    BY <1>0, <1>2 DEF OSUnlockMutex
  <2> QED
    BY <1>0, <2>1 DEF Urgent
<1>3. CASE count[m] = 1 /\ prio[host] < BasePrio[host]
  <2> DEFINE e == EffectivePriority(host, Unlink(owned[host], m))
  <2>1. prio' = [prio EXCEPT ![host] = e] /\ Goto(<<WakeFrame(m)>>)
    BY <1>0, <1>1, <1>3 DEF OSUnlockMutex
  <2>2. e \in Prios /\ \A n \in Mutexes \ {m}, x \in Threads : owner[n] = host /\ Waits(x, n) => e <= prio[x]
    BY <1>0, <1>1, DueOthers DEF SafeInv, PlacedInv, MutexInv
  <2> HIDE DEF e
  <2>3. PICK x \in Threads : WaitsFor(x, host) /\ prio[x] <= prio[host]
    <3>1. Warranted(host, prio[host])
      BY <1>0 DEF FairInv, Alive, Terminated, Waived, At
    <3>2. \A x \in Threads : Claims(x, host) => WaitsFor(x, host)
      BY <1>0 DEF Claims, Sleeps
    <3> QED
      BY <1>0, <1>1, <1>3, <3>1, <3>2 DEF Warranted, Prios
  <2>4. state[x] = "WAITING" /\ link[x] \in Mutexes /\ owner[link[x]] = host
    BY <2>3 DEF WaitsFor
  <2>5. CASE link[x] # m
    <3>1. e <= prio[x]
      BY <2>2, <2>4, <2>5 DEF Waits
    <3>2. e <= prio[host]
      BY <1>0, <1>1, <2>2, <2>3, <3>1 DEF Prios
    <3> QED
      BY <1>0, <1>1, <2>1, <2>2, <3>2 DEF Urgent, Prios
  <2>6. CASE link[x] = m
    <3>1. suspend[x] = 0
      <4>1. prio[x] # NumPrio
        BY <1>0, <1>1, <1>3, <2>3 DEF Prios
      <4> QED
        BY <1>1, <2>4, <4>1 DEF WaitInv, WaiterPrio
    <3> DEFINE f == WakeFrame(m)
    <3>2. f.op = "wake" /\ f.q = m
      BY DEF WakeFrame, Fr
    <3> HIDE DEF f
    <3>3. stack'[host'] = <<f>>
      BY <1>0, <2>1, GotoHere DEF f
    <3>4. At("wake")' /\ Top'.q = m
      BY <3>2, <3>3 DEF At, Top
    <3>5. state'[x] = "WAITING" /\ link'[x] = Top'.q /\ suspend'[x] = 0
      BY <1>0, <2>4, <2>6, <3>1, <3>4
    <3> QED
      BY <3>4, <3>5 DEF Comes, Waits
  <2> QED
    BY <2>5, <2>6
<1> QED
  BY <1>2, <1>3

\* A wakeup that makes a thread ready calls SelectThread; one that does not readies
\* none.
LEMMA WakeUrgent ==
    ASSUME IInv, SafeInv, PlacedInv, WakeStep \/ WakeEnds, Urgent \/ Comes, state[host] = "RUNNING"
    PROVE  Urgent' \/ Comes'
<1>0. /\ stack[host] # <<>> /\ Top.op \in {"wake", "wakeResched"} /\ Top.q \in WaitQueues
      /\ Top \in Frame /\ Rest \in Seq(Frame) /\ stack[host] \in Seq(Frame) /\ host \in Threads
      /\ UNCHANGED <<host, suspend, prio>>
  <2>1. stack[host] # <<>> /\ Top.op \in {"wake", "wakeResched", "wakeFiber"} /\ UNCHANGED <<host, suspend, prio>>
    BY DEF WakeStep, WakeEnds, At, SameFiber, thread
  <2> QED
    BY <2>1, TopCases DEF SafeInv, Frame
<1>1. /\ state \in [Threads -> States] /\ suspend \in [Threads -> Nat] /\ queue \in [QueueIds -> Seq(Threads)]
      /\ link \in [Threads -> QueueIds \cup {NoQueue}]
  BY DEF IInv, TypeOK, ThreadsTypeOK, QueuesTypeOK
<1>2. /\ Has(stack[host], {"select", "wakeResched"})
            <=> Top.op \in {"select", "wakeResched"} \/ Has(Rest, {"select", "wakeResched"})
      /\ Has(stack[host], {"resched"}) => Has(Rest, {"resched"})
  BY <1>0, HasPush DEF Top, Rest
<1>3. \A x \in Threads : Linked(queue[Top.q], x) <=> Waits(x, Top.q)
  BY <1>0, WaitersLinked DEF SafeInv, PlacedInv
<1>4. CASE WakeEnds
  <2>1. queue[Top.q] = <<>> /\ UNCHANGED <<state, resched>>
    BY <1>4 DEF WakeEnds, thread, sched
  <2>2. \A x \in Threads : ~ Waits(x, Top.q)
    BY <1>3, <2>1, LinkedFacts
  <2>3. CASE Top.op = "wakeResched"
    <3> DEFINE f == SelectFrame(0)
    <3>1. f.op = "select"
      BY DEF SelectFrame, Fr
    <3> HIDE DEF f
    <3>2. stack'[host'] = <<f>> \o Rest
      BY <1>0, <1>4, <2>3, GotoHere DEF WakeEnds, f
    <3>3. Has(stack'[host'], {"select", "wakeResched"})
      <4>1. Has(<<f>> \o Rest, {"select", "wakeResched"})
        BY <1>0, <3>1, HasOn
      <4> QED
        BY <3>1, <3>2, <4>1
    <3> QED
      BY <3>3 DEF Comes
  <2>4. CASE Top.op # "wakeResched"
    <3>1. stack'[host'] = Rest
      BY <1>0, <1>4, <2>4, GotoHere DEF WakeEnds
    <3>2. Comes => Comes'
      BY <1>0, <1>2, <2>1, <2>2, <2>4, <3>1 DEF Comes
    <3> QED
      BY <1>0, <2>1, <3>2 DEF Urgent
  <2> QED
    BY <2>3, <2>4
<1>5. CASE WakeStep
  <2> DEFINE t == Head(queue[Top.q])
  <2>1. queue[Top.q] # <<>>
    BY <1>5 DEF WakeStep
  <2>2. t \in Threads /\ Linked(queue[Top.q], t)
    <3>1. queue[Top.q] \in Seq(Threads)
      BY <1>0, <1>1, PriosAreNoWaitQueues
    <3>2. t = queue[Top.q][1] /\ 1 \in 1 .. Len(queue[Top.q]) /\ t \in Threads
      BY <2>1, <3>1
    <3> QED
      BY <3>2 DEF Linked
  <2> HIDE DEF t
  <2>3. state[t] = "WAITING" /\ link[t] = Top.q /\ ~ Terminated(t)
    BY <1>3, <2>2 DEF Waits, Terminated
  <2>4. state' = [state EXCEPT ![t] = "READY"]
    BY <1>5, <2>3 DEF WakeStep, t
  <2>5. CASE suspend[t] < 1
    <3> DEFINE f == [Top EXCEPT !.op = Readied(@)]
    <3>1. f.op = "wakeResched"
      BY <1>0 DEF Readied, Frame
    <3>2. Goto(<<f>> \o Rest)
      BY <1>5, <2>3, <2>5 DEF WakeStep, t
    <3> HIDE DEF f
    <3>3. stack'[host'] = <<f>> \o Rest
      BY <1>0, <3>2, GotoHere
    <3>4. Has(stack'[host'], {"select", "wakeResched"})
      <4>1. Has(<<f>> \o Rest, {"select", "wakeResched"})
        BY <1>0, <3>1, HasOn
      <4> QED
        BY <3>1, <3>3, <4>1
    <3> QED
      BY <3>4 DEF Comes
  <2>6. CASE ~ (suspend[t] < 1)
    <3>1. stack'[host] = stack[host] /\ resched' = resched
      <4>1. Goto(stack[host]) /\ resched' = (resched \/ FALSE)
        BY <1>5, <2>3, <2>6, Zenon DEF WakeStep, t
      <4>2. resched \in BOOLEAN
        BY DEF IInv, TypeOK, SchedulerTypeOK
      <4> QED
        BY <4>1, <4>2, GotoHere
    <3>2. \A x \in Threads \ {t} : link'[x] = link[x]
      <4>1. link' = link \/ link' = [link EXCEPT ![t] = NoQueue]
        BY <1>5, <2>3, <2>6, Zenon DEF WakeStep, Delinked, t
      <4> QED
        BY <1>1, <4>1
    <3>3. \A x \in Threads : Waits(x, Top.q) /\ suspend[x] = 0 => x # t
      BY <2>6
    <3>4. \A x \in Threads : Waits(x, Top.q) /\ suspend[x] = 0 => state'[x] = "WAITING" /\ link'[x] = Top.q
      BY <1>1, <2>4, <3>2, <3>3 DEF Waits
    <3>5. Comes => Comes'
      <4>1. Top' = Top
        BY <1>0, <3>1 DEF Top
      <4> QED
        BY <1>0, <3>1, <3>4, <4>1 DEF Comes, At, Waits
    <3>6. Urgent => Urgent'
      BY <1>0, <1>1, <2>2, <2>4, <2>6 DEF Urgent
    <3> QED
      BY <3>5, <3>6
  <2> QED
    BY <2>5, <2>6
<1> QED
  BY <1>4, <1>5

\* An owner on the chain gets at most the priority of the thread that runs; or the
\* handler that passes on priorities reschedules.
LEMMA ChainUrgent ==
    ASSUME IInv, SafeInv, WaitInv, FairInv, PromoteStep \/ PropagateStep, Urgent, state[host] = "RUNNING"
    PROVE  Urgent' \/ Comes'
<1>0. /\ stack[host] # <<>> /\ Top.op \in {"promote", "propagate"} /\ host \in Threads
      /\ Top \in Frame /\ Rest \in Seq(Frame)
      /\ UNCHANGED <<host, suspend, state>>
      /\ prio \in [Threads -> 0 .. NumPrio] /\ NumPrio \in Nat /\ NoThread \notin Threads
  <2>1. stack[host] # <<>> /\ Top.op \in {"promote", "propagate"} /\ UNCHANGED <<host, suspend, state>>
    BY DEF PromoteStep, PropagateStep, At, SameFiber, Return
  <2> QED
    BY <2>1, TopCases, ConstantsAssumption, AddressesAssumption DEF SafeInv, IInv, TypeOK, ThreadsTypeOK
<1>1. ASSUME prio' = prio PROVE Urgent'
  BY <1>0, <1>1 DEF Urgent
<1>2. CASE PromoteStep
  <2>1. Top.n = prio[host]
    BY <1>2 DEF PromoteStep, FairInv
  <2>2. CASE Top.t = NoThread \/ suspend[Top.t] > 0 \/ prio[Top.t] <= Top.n
    <3>1. prio' = prio
      BY <1>2, <2>2 DEF PromoteStep
    <3> QED
      BY <1>1, <3>1
  <2>3. CASE ~ (Top.t = NoThread \/ suspend[Top.t] > 0 \/ prio[Top.t] <= Top.n)
    <3>1. PICK t \in Threads : t = Top.t
      BY <1>0, <2>3 DEF Frame
    <3>2. SetThreadEffectivePriority(t, prio[host])
      BY <1>2, <2>1, <2>3, <3>1 DEF PromoteStep
    <3>3. prio' = prio \/ prio' = [prio EXCEPT ![t] = prio[host]]
      BY <3>2 DEF SetThreadEffectivePriority
    <3>4. t # host
      BY <1>0, <2>1, <2>3, <3>1
    <3> QED
      BY <1>0, <1>1, <3>3, <3>4 DEF Urgent
  <2> QED
    BY <2>2, <2>3
<1>3. CASE PropagateStep
  <2> DEFINE p == EffectivePriority(Top.t, owned[Top.t])
  <2>1. CASE Top.t = NoThread \/ suspend[Top.t] > 0 \/ prio[Top.t] = p
    <3>1. prio' = prio
      BY <1>3, <2>1 DEF PropagateStep
    <3> QED
      BY <1>1, <3>1
  <2>2. CASE ~ (Top.t = NoThread \/ suspend[Top.t] > 0 \/ prio[Top.t] = p)
    <3>1. PICK t \in Threads : t = Top.t
      BY <1>0, <2>2 DEF Frame
    <3> DEFINE f == Fr("propagate", NoQueue, BlockedOn(Top.t), 0)
    <3>2. SetThreadEffectivePriority(t, p) /\ Goto(<<f>> \o Rest)
      BY <1>3, <2>2, <3>1 DEF PropagateStep
    <3> HIDE DEF f, p
    <3>3. CASE state[t] \in {"READY", "RUNNING"}
      <4>1. resched'
        BY <3>2, <3>3 DEF SetThreadEffectivePriority
      <4>2. Has(Rest, {"resched"})
        BY <1>0, <1>3, FormsTop DEF WaitInv, Plain, PropagateStep, At
      <4>3. stack'[host'] = <<f>> \o Rest
        BY <1>0, <3>2, GotoHere
      <4>4. Has(stack'[host'], {"resched"})
        BY <1>0, <4>2, <4>3, HasPush
      <4> QED
        BY <4>1, <4>4 DEF Comes
    <3>4. CASE state[t] \notin {"READY", "RUNNING"}
      <4>1. prio' = prio \/ prio' = [prio EXCEPT ![t] = p]
        BY <3>2 DEF SetThreadEffectivePriority
      <4>2. \A x \in Threads : state[x] = "READY" \/ x = host => prio'[x] = prio[x]
        BY <1>0, <3>4, <4>1
      <4> QED
        BY <1>0, <4>2 DEF Urgent
    <3> QED
      BY <3>3, <3>4
  <2> QED
    BY <2>1, <2>2
<1> QED
  BY <1>2, <1>3

\* A stack without frames calls nothing.
LEMMA NothingComes == stack[host] = <<>> => ~ Comes
<1>1. \A O : ~ Has(<<>>, O)
  BY DEF Has
<1> QED
  BY <1>1 DEF Comes, At

\* The frames of the thread that runs.
LEMMA FrameUrgent ==
    ASSUME GuestsKeepTheRules, EndersOwnNothing, IInv, SafeInv, PlacedInv, WaitInv, FairInv, UrgentInv, [Next]_vars,
           FrameStep, ~ Pick, Steady, state[host] = "RUNNING", state'[host] = "RUNNING"
    PROVE  Urgent' \/ Comes'
<1>0. /\ HostInv /\ host \in Threads /\ suspend \in [Threads -> Nat] /\ stack \in [Threads -> Seq(Frame)]
      /\ disable = 0 /\ NoThread \notin Threads
  BY AddressesAssumption DEF SafeInv, IInv, TypeOK, ThreadsTypeOK, FibersTypeOK, FairInv
<1>1. Runs
  BY <1>0 DEF HostInv, Yields, Idles, Picks
<1>2. ~ FiberEndStep
  BY <1>0, TopCases DEF FiberEndStep, At
<1>3. Piles /\ stack[host] # <<>> /\ host' = host
  <2>1. Piles
    BY <1>2, FramePiles
  <2> QED
    BY <2>1 DEF Piles
<1>4. Urgent \/ Comes
  BY DEF UrgentInv
<1>5. /\ Rest \in Seq(Frame) /\ stack[host] \in Seq(Frame) /\ Top.op \notin {"idle", "pick"}
      /\ \A O : Has(stack[host], O) <=> Top.op \in O \/ Has(Rest, O)
  <2>1. Rest \in Seq(Frame) /\ stack[host] \in Seq(Frame)
    BY <1>0, <1>3, TopCases
  <2>2. Top.op \notin {"idle", "pick"}
    BY <1>0, <1>1, <1>3, TopRuns DEF Idles, Picks, Runs
  <2> QED
    BY <1>3, <2>1, <2>2, HasPush DEF Top, Rest
<1>6. ASSUME Urgent, ~ WakeStep, ~ PromoteStep, ~ PropagateStep, \A t \in Threads : ~ SleepTimerFires(t) PROVE Urgent'
  <2>1. ASSUME NEW t \in Threads
        PROVE  (suspend'[t] = suspend[t] /\ prio'[t] = prio[t]) \/ \E d \in BOOLEAN : OSCreateThread(t, d)
    <3>1. ~ InGuestCode
      BY <1>3 DEF InGuestCode
    <3>2. ~ OSResumeThread(t) /\ ~ OSSuspendThread(t) /\ ~ OSSleepTicks /\ \A m \in Mutexes : ~ OSUnlockMutex(m)
      BY <3>1 DEF OSResumeThread, OSSuspendThread, OSSleepTicks, OSUnlockMutex, Calls
    <3>3. Prices(t)
      BY PricesStep
    <3> QED
      BY <1>6, <3>2, <3>3 DEF Prices
  <2> QED
    BY <1>3, <1>6, <2>1, UrgentStays
<1>7. CASE \E t \in Threads : SleepTimerFires(t)
  <2>1. PICK t \in Threads : SleepTimerFires(t)
    BY <1>7
  <2>2. Top.op = "select"
    BY <1>5, <2>1 DEF SleepTimerFires, Polling, At
  <2>3. Has(stack[host], {"select", "wakeResched"})
    BY <1>5, <2>2
  <2>4. \/ UNCHANGED stack
        \/ \E f, g : Goto(stack[host]) \/ Goto(<<f, g>> \o stack[host])
    BY <2>1 DEF SleepTimerFires, ResumeThread
  <2>5. \A f, g : Has(<<f, g>> \o stack[host], {"select", "wakeResched"})
    <3>1. \A f, g : Has(<<f, g>> \o stack[host], {"select", "wakeResched"})
            <=> \/ f.op \in {"select", "wakeResched"} \/ g.op \in {"select", "wakeResched"}
                \/ Has(stack[host], {"select", "wakeResched"})
      BY <1>5, HasPush
    <3> QED
      BY <2>3, <3>1
  <2>6. ASSUME NEW s, Goto(s) PROVE stack'[host] = s
    BY <2>6, GotoHere
  <2>7. Has(stack'[host], {"select", "wakeResched"})
    BY <2>3, <2>4, <2>5, <2>6
  <2> QED
    BY <1>3, <2>7 DEF Comes
<1>8. CASE SelectRefused
  <2>1. UNCHANGED <<state, suspend, prio>> /\ KeepsRunning(Top.n)
    BY <1>0, <1>1, <1>8 DEF SelectRefused, SelectRefuses, Runs, thread
  <2>2. \A p \in pending : prio[host] <= p
    BY <1>1, <2>1 DEF KeepsRunning, Runs
  <2>3. Urgent
    BY <2>2, ReadyPlaces DEF Urgent, SafeInv, PlacedInv
  <2> QED
    BY <1>3, <2>1, <2>3 DEF Urgent
<1>9. CASE SelectBegins
  <2>1. state' = [state EXCEPT ![host] = "READY"]
    BY <1>1, <1>9 DEF SelectBegins, Runs
  <2> QED
    BY <1>0, <2>1 DEF IInv, TypeOK, ThreadsTypeOK
<1>10. CASE ReschedStep
  <2>1. stack[host] # <<>> /\ Top.op = "resched" /\ UNCHANGED <<state, suspend, prio, resched>>
    BY <1>3, <1>10 DEF ReschedStep, At, thread, sched
  <2>2. CASE resched
    <3> DEFINE f == SelectFrame(0)
    <3>1. f.op = "select"
      BY DEF SelectFrame, Fr
    <3> HIDE DEF f
    <3>2. stack'[host] = <<f>> \o Rest
      BY <1>10, <2>2, GotoHere DEF ReschedStep, f
    <3>3. \A g : Has(<<g>> \o Rest, {"select", "wakeResched"})
            <=> g.op \in {"select", "wakeResched"} \/ Has(Rest, {"select", "wakeResched"})
      BY <1>5, HasPush
    <3>4. Has(stack'[host], {"select", "wakeResched"})
      BY <3>1, <3>2, <3>3
    <3> QED
      BY <1>3, <3>4 DEF Comes
  <2>3. CASE ~ resched
    <3>1. Urgent => Urgent'
      BY <1>3, <2>1 DEF Urgent
    <3>2. Comes => Has(Rest, {"select", "wakeResched"})
      BY <1>5, <2>1, <2>3 DEF Comes, At
    <3>3. stack'[host] = Rest
      BY <1>10, <2>3, GotoHere DEF ReschedStep
    <3> QED
      BY <1>3, <1>4, <3>1, <3>2, <3>3 DEF Comes
  <2> QED
    BY <2>2, <2>3
<1>11. CASE WakeStep \/ WakeEnds
  BY <1>4, <1>11, WakeUrgent
<1>12. CASE PromoteStep \/ PropagateStep
  <2>1. CASE Urgent
    BY <1>12, <2>1, ChainUrgent
  <2>2. CASE Comes
    <3>1. resched => resched'
      BY <1>12 DEF PromoteStep, PropagateStep, SetThreadEffectivePriority
    <3>2. Top.op \in {"promote", "propagate"}
      BY <1>12 DEF PromoteStep, PropagateStep, At
    <3> QED
      BY <1>3, <2>2, <3>1, <3>2, ComesStays
  <2> QED
    BY <1>4, <2>1, <2>2
<1>13. CASE SleepStep \/ SleptStep \/ LockStep \/ UnlockAllStep \/ ExitedStep \/ JoinedStep \/ TickedStep \/ EndDeferredStep
  <2>1. /\ Top.op \in {"sleep", "slept", "lock", "unlockAll", "exited", "joined", "ticked", "endDeferred"}
        /\ resched => resched'
    BY <1>13 DEF SleepStep, SleptStep, LockStep, UnlockAllStep, ExitedStep, JoinedStep, TickedStep, EndDeferredStep, At, sched
  <2>2. CASE Comes
    BY <1>3, <2>1, <2>2, ComesStays
  <2>3. CASE Urgent
    <3>1. ~ WakeStep /\ ~ PromoteStep /\ ~ PropagateStep /\ \A t \in Threads : ~ SleepTimerFires(t)
      BY <2>1 DEF WakeStep, PromoteStep, PropagateStep, SleepTimerFires, Polling, At
    <3> QED
      BY <1>6, <2>3, <3>1
  <2> QED
    BY <1>4, <2>2, <2>3
<1>14. ~ IdleEnds /\ \A q \in Queues : ~ IdleCallback(q)
  BY <1>5 DEF IdleEnds, IdleCallback, At
<1> QED
  BY <1>2, <1>7, <1>8, <1>9, <1>10, <1>11, <1>12, <1>13, <1>14 DEF FrameStep

\* Every step leaves the most urgent thread running, or SelectThread to come.
LEMMA UrgentStep ==
    ASSUME GuestsKeepTheRules, EndersOwnNothing, IInv, SafeInv, PlacedInv, WaitInv, MutexInv, FairInv, UrgentInv, [Next]_vars
    PROVE  UrgentInv'
<1> SUFFICES ASSUME Steady', state'[host'] = "RUNNING" PROVE Urgent' \/ Comes'
  BY DEF UrgentInv
<1>0. /\ HostInv /\ host \in Threads /\ guest \in Guests /\ Steady /\ stack \in [Threads -> Seq(Frame)]
      /\ \A t \in Threads \ {host} : state[t] # "RUNNING"
      /\ host' \in Threads
  <2>1. IInv'
    BY NextIInv
  <2> QED
    BY <2>1, GuestStays DEF SafeInv, HostInv, IInv, TypeOK, FibersTypeOK, Steady
<1>1. CASE Pick
  BY <1>0, <1>1, PickUrgent DEF SafeInv, PlacedInv
<1>2. CASE UNCHANGED vars
  <2>1. Urgent \/ Comes
    BY <1>2 DEF UrgentInv, Steady, vars, thread, fiber
  <2> QED
    BY <1>2, <2>1 DEF vars, thread, fiber, sched, Urgent, Comes, At, Top, Waits
<1>3. CASE Next /\ ~ Pick
  <2>1. state[host'] = "RUNNING" /\ host' = host
    <3>1. state[host'] = "RUNNING"
      <4>1. PICK t \in Threads : t = host'
        BY <1>0
      <4>2. Moves(t)
        BY MovesStep
      <4> QED
        BY <1>3, <4>1, <4>2 DEF Moves, Terminated
    <3> QED
      BY <1>0, <3>1
  <2>2. CASE FrameStep
    BY <1>0, <1>3, <2>1, <2>2, FrameUrgent
  <2>3. CASE GuestCall
    <3>1. InGuestCode
      BY <2>3
         DEF GuestCall, OSCreateThread, OSResumeThread, OSSuspendThread, OSSleepTicks, OSThreadCall, CallHandler, OSLockMutex,
             OSUnlockMutex, OSExitThread, OSCancelThread, OSJoinThread, OSDetachThread, OSDisableScheduler,
             OSEnableScheduler, DeferredCallback, FiberReturns, Calls
    <3>2. Runs /\ stack[host] = <<>>
      BY <1>0, <3>1, GuestRuns
    <3>3. Urgent
      <4>1. ~ Comes
        BY <3>2, NothingComes
      <4> QED
        BY <1>0, <2>1, <4>1 DEF UrgentInv
    <3>4. CASE \E m \in Mutexes : OSUnlockMutex(m)
      BY <1>0, <3>3, <3>4, UnlockUrgent
    <3>5. ASSUME \A m \in Mutexes : ~ OSUnlockMutex(m) PROVE Urgent' \/ Comes'
      <4>1. CASE \E t \in Threads : OSResumeThread(t) \/ OSSuspendThread(t)
        <5>1. PICK t \in Threads : ResumeThread(t, <<>>) \/ SuspendThread(t, <<>>)
          BY <4>1 DEF OSResumeThread, OSSuspendThread
        <5>2. <<>> \in Seq(Frame)
          OBVIOUS
        <5> QED
          BY <2>1, <3>2, <3>3, <5>1, <5>2, ResumeUrgent DEF Runs
      <4>2. CASE OSSleepTicks
        <5> DEFINE r == <<Fr("ticked", NoQueue, Sleeper, 0)>>
        <5>1. Sleeper \in Threads
          BY <4>2 DEF OSSleepTicks, Sleeper, IInv, TypeOK, FibersTypeOK, SchedulerTypeOK
        <5>2. SuspendThread(Sleeper, r)
          BY <4>2 DEF OSSleepTicks
        <5>3. r \in Seq(Frame)
          <6>1. Fr("ticked", NoQueue, Sleeper, 0) \in Frame
            BY <5>1, FrameForms
          <6> QED
            BY <6>1
        <5> HIDE DEF r
        <5> QED
          BY <2>1, <3>2, <3>3, <5>1, <5>2, <5>3, ResumeUrgent DEF Runs
      <4>3. ASSUME ~ OSSleepTicks, \A t \in Threads : ~ OSResumeThread(t) /\ ~ OSSuspendThread(t) PROVE Urgent'
        <5>1. ~ WakeStep /\ ~ PromoteStep /\ ~ PropagateStep /\ \A t \in Threads : ~ SleepTimerFires(t)
          BY <3>2 DEF WakeStep, PromoteStep, PropagateStep, SleepTimerFires, Polling, At
        <5>2. ASSUME NEW t \in Threads
              PROVE  (suspend'[t] = suspend[t] /\ prio'[t] = prio[t]) \/ \E d \in BOOLEAN : OSCreateThread(t, d)
          <6>1. Prices(t)
            BY PricesStep
          <6> QED
            BY <3>5, <4>3, <5>1, <6>1 DEF Prices
        <5> QED
          BY <2>1, <3>3, <5>1, <5>2, UrgentStays
      <4> QED
        BY <4>1, <4>2, <4>3
    <3> QED
      BY <3>4, <3>5
  <2> QED
    BY <1>3, <2>2, <2>3 DEF Next
<1> QED
  BY <1>1, <1>2, <1>3

\* Where nothing defers a reschedule, guest code runs on the most urgent of the threads
\* that could run: no thread made ready by a wakeup or a resume, no priority that was
\* inherited, given up with a mutex or lost to a suspension is left without the call of
\* SelectThread that has to follow, and SelectThread takes the least pending priority.
THEOREM MostUrgentThreadRuns ==
    ASSUME GuestsKeepTheRules, EndersOwnNothing
    PROVE  Spec => []MostUrgentRuns
<1>1. Init => UrgentInv
  <2>1. Init => Urgent
    BY ConstantsAssumption DEF Init, Urgent
  <2> QED
    BY <2>1 DEF UrgentInv
<1>2. IInv /\ SafeInv /\ PlacedInv /\ MutexInv /\ WaitInv /\ FairInv /\ UrgentInv /\ [Next]_vars => UrgentInv'
  BY UrgentStep
<1>3. IInv /\ SafeInv /\ PlacedInv /\ UrgentInv => MostUrgentRuns
  <2> SUFFICES ASSUME IInv, SafeInv, PlacedInv, UrgentInv, Steady, InGuestCode, NEW p \in pending
               PROVE  prio[host] <= p
    BY DEF MostUrgentRuns, Steady
  <2>1. Runs /\ stack[host] = <<>>
    BY GuestRuns DEF SafeInv
  <2>2. ~ Comes
    BY <2>1, NothingComes
  <2>3. Urgent
    BY <2>1, <2>2 DEF UrgentInv, Runs
  <2>4. PICK x \in Threads : p \in Prios /\ Linked(queue[p], x)
    BY ReadyPlaces DEF SafeInv, PlacedInv
  <2>5. state[x] = "READY" /\ suspend[x] = 0 /\ prio[x] = p
    BY <2>4, ReadyPlaces DEF SafeInv, PlacedInv
  <2> QED
    BY <2>3, <2>5 DEF Urgent
<1> QED
  BY <1>1, <1>2, <1>3, SafeInvariant, PlacedInvariant, MutexInvariant, FairInvariant, InductiveInvariant, PTL DEF Spec

=============================================================================

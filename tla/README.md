# The guest operating system of wiicompiled-nx, in TLA+

The runtime of this repository answers the calls a Wii game makes to its
operating system. Translated guest code runs on host fibers; the functions under
`runtime/src/hle/` read and write the guest's own data structures (OSThread,
OSThreadQueue, OSMutex, OSMessageQueue, OSAlarm) in guest memory, keep the guest's
save files in the host's file system, and stand in for its network, its DSP and
its interrupts. These modules model the threads, the message queues, the network
requests that outlive a call, the pump that replaces interrupts, the audio output
and the save files, check them with TLC on small guests, and prove with TLAPS, of
each of them, what holds for guests of any size.

Paths below are relative to `runtime/src/` unless they say otherwise.

## 1. Inventory

| Component | State | Operations | Depends on |
|---|---|---|---|
| Thread scheduler, `hle/os/os_scheduler.cpp` | run queues, pending mask, reschedule hint, disable count, running and current context | SelectThread, OSWakeupThread, OSLockMutex, OSUnlockMutex | fibers, sleep timers, everything polled by the idle loop |
| Thread life cycle, `hle/os/os_thread.cpp` | OSThread fields, active list, join queues, owned mutexes | OSCreateThread, OSExitThread, OSCancelThread, OSJoinThread, OSDetachThread, OSSuspendThread, OSResumeThread, priority inheritance | scheduler, fibers |
| Sleeping, `hle/os/os_sleep.cpp` | `gSleepTimers`, `gOutstandingParks` | OSSleepThread, OSSleepTicks, ProcessSleepTimers | scheduler, life cycle |
| Guest fibers, `fiber_manager.cpp` | fiber table, current guest thread, fibers awaiting destruction | CreateGuestFiber, SwitchToThread, ExitGuestThread, FiberProc | host contexts |
| Alarms, `hle/os/os_alarm.cpp` | alarm list, dispatch depth, disable count | OSSetAlarm, OSSetPeriodicAlarm, ProcessAlarmQueue, deferred pumps | scheduler, network, NAND callbacks |
| Message queues, `hle/os/os_message.cpp` | ring buffer, two wait queues | OSInitMessageQueue, OSSendMessage, OSReceiveMessage, OSJamMessage | scheduler |
| NAND files, `hle/storage/nand_api.cpp`, `nand_async.cpp` | host files, descriptor table | NANDOpen, NANDSafeOpen, NANDWrite, NANDClose, NANDSafeClose, NANDDelete | host file system |
| NAND and IOS callbacks, `hle/storage/nand_async.cpp` | pending callbacks, drain depth | InvokeNandCallback, NandProcessPendingCallbacks | alarms, scheduler |
| Network, `hle/net/` | socket table with generations, pending lookups, polls and connects, results by token | IOS ioctls, worker threads, completion pump | scheduler, host network |
| Audio, `hle/audio/audio.cpp`, `hle/audio/ax_mix.cpp`, `audio_backend.cpp` | AI DMA and its elapsed time, mail state, command list, mix worker, aux shadows, ring of wave buffers | ticks, mails, list mixing, join, push | host thread, worker thread, renderer |
| DVD, `hle/storage/dvd.cpp` | outstanding reads | asynchronous reads, cancel | scheduler |
| Video, input, graphics | host devices | polling, callbacks | scheduler (callbacks only) |
| Translator, launcher, Aurora | build time, vendored | - | - |

How they meet: every guest thread has one host fiber, and all fibers run on one
host thread. A handler that calls SelectThread may leave its fiber in the
middle; the rest of the handler happens when that fiber is switched to again, if
ever. Timers, alarms, audio, video and network completions are polled from
SelectThread, from its idle loop, and at a few points where guest code enters a
handler; their callbacks wake guest queues.

What is hard here: handlers interrupted by other handlers at each SelectThread;
wakeups that come early, late or twice (timers, cancelled sleepers, recreated
threads); priority inheritance along chains of owners; threads that end while
they own mutexes and are joined; callbacks with the scheduler disabled; a pump
that is entered again from the callbacks it runs, on another fiber even; answers
of the network for callers whose stack is in use by someone else; a worker that
mixes sound from memory the guest goes on writing; save files across crashes.
What makes each component correct:

- scheduler: the mask and the queues agree; a thread that can run is found; the
  fiber that runs is the running thread's; the most urgent thread runs;
- life cycle: lists stay well formed over creation, death and reuse; what a dead
  thread held is released;
- sleeping: a timer wakes the sleeper it was armed for, and each sleeper wakes;
- mutexes: mutual exclusion, inheritance, no waiter lost;
- messages: a bounded deque, nobody asleep past a message or a free slot;
- the pump: due alarms and queued callbacks are served, one dispatch at a time,
  and the disable count it raises is given back;
- network: a request has one answer, for the caller that made it and the socket it
  was made on;
- audio: blocks whole and in order, a mix as if done when mailed, never read before
  it is done, and no way to fall silent for ever;
- save files: old or new contents after a crash, a retry after a failure.

## 2. Modules

| Module | Models |
|---|---|
| `OsThreads` | scheduler, life cycle, sleeping, mutexes and fibers together: they call each other in the middle of handlers, so they share one module |
| `GuestMutex` | the abstract lock service: who is inside the critical section of each mutex |
| `MCOsThreads` | priorities of the small guests TLC runs |
| `OsThreads_proofs` | types, the pending mask and the counts of mutexes of `OsThreads` |
| `OsThreads_safety_proofs` | lists, fibers, lost threads, mutual exclusion, timers and priorities of `OsThreads` |
| `LeastNumber` | the least element of a set of numbers, for the other proofs |
| `GuestFifo` | what a message queue promises: a bounded deque |
| `OsMessages` | message queues: the ring in guest memory, the calls and their sleeps; refines `GuestFifo` |
| `OsMessages_proofs` | lemmas and theorems about `OsMessages` |
| `NetDeferred` | sockets, deferred network requests, workers, the completion pump |
| `NetDeferred_proofs` | lemmas and theorems about the waiters and the answers of `NetDeferred` |
| `HostPump` | alarms, NAND callbacks and the pump that runs both |
| `MCHostPump` | the priorities of the two threads TLC runs |
| `HostPump_proofs` | lemmas and theorems about the alarm list, the dispatch and the guards of `HostPump` |
| `AudioRing` | the Switch's ring of wave buffers between the program and the renderer |
| `AudioOut` | the AI DMA ticks, the DSP's mail and the mix worker, over `AudioRing` |
| `AudioOut_proofs` | lemmas and theorems about the mix worker of `AudioOut` and the ring |
| `NandSave` | the system save: opens, shadow file, writes, commit, host failures, crashes |
| `MCNandSave` | the hosts and guests TLC runs |
| `NandSave_proofs` | lemmas and theorems about crashes, commits, failed closes and recovery in `NandSave` |

The modules meet at narrow points, and each states the others as it sees them.
`OsThreads` has the scheduler in full; a device callback there is any wakeup.
`OsMessages` and `NetDeferred` let any thread that is awake go on, so what they
show holds for every priority, suspension and order of scheduling. `HostPump` has
the part of the scheduler that decides when a pump's fiber is left, and takes
network results and device wakeups as they come. The handlers of the save files
never select a thread, and the audio's host thread is all the guest there is for
the mix worker, so those modules leave the threads out.

### `OsThreads`: state

`state`, `detached`, `suspend`, `prio`, `link`, `tmutex`, `owned` are the fields
of each OSThread, `listed` the active list, `queue` the contents of every
OSThreadQueue (run queues `0 .. NumPrio - 1`, guest queues, the queue of a mutex,
the join queue of a thread), `pending` the mask as a set of priorities. A queue in
guest memory is a doubly linked list through the threads; its sequence is a
faithful picture while no thread is linked twice, which is the checked property
`QueuesWellFormed`. `BasePrio` is constant because no handler of the runtime
changes the base priority.

`LinkThreadOnRunQueue` does not check the priority it is given. A suspended
waiter has priority 32, so `NumPrio` is among the queue addresses, and
`MarkedMask` takes the shift modulo the width, as the hosts' processors do.

`stack[t]` is what the fiber of `t` has still to do: frames named after the point
in the code where the handler goes on (`select`, `pick`, `idle`, `slept`, ...). A
frame carries what the handler has in local variables, as read when they were
read. `host` is the thread whose fiber executes; `fiberCur` and `prev` are what
SwitchToThread keeps, `s_currentGuestThread` and the local `previousThread`.

`holds` is a history variable: which threads' guest code is between a returned
OSLockMutex and the matching OSUnlockMutex.

### `OsThreads`: actions

A step is either a frame of the running fiber (`FrameStep`) or, when its stack is
empty, a call by guest code (`GuestCall`). Code between two points where a switch
or a callback can happen is one step. So OSLockMutex is a call that pushes a
`lock` frame, and each round of its loop is `LockStep`: take the mutex, or note
the wait, promote the owners (`PromoteStep`, one link of the chain at a time), and
sleep (`SleepStep`), whose tail (`SleptStep`) runs after the switch back.
`SelectBegins` requeues the running thread and decides between `idle` and `pick`;
`Pick` is one round of the search loop, and its last round is `Dispatch`, with
`SwitchTo`. A thread that has ended and is switched away from never continues, so
its frames are dropped.

`SleepTimerFires` is a due timer in ProcessSleepTimers, from SelectThread or the
idle loop. Time is not modelled: any armed timer may be due at any poll.
`IdleCallback` is a device callback of the idle loop, `DeferredCallback` one that
the host runs with the scheduler disabled; `n = 1` if RunDeferredReschedule
follows, as it does in ProcessAlarmQueue, `n = 0` for the callbacks of vi.cpp and
audio.cpp that only end the deferral.

`UnlockAllStep` models `__OSUnlockAllMutex`, guest code called by address
(`hle/os/os_thread.cpp:219`). `OSDisableScheduler` and `OSEnableScheduler` are
guest code too; the runtime counts the same word.

### `OsThreads`: the guest

A guest uses a set of operations. `Guests` is a set of such sets, and the variable
`guest` is chosen from it at the start and never changes, so that one run looks at
several kinds of guest, each in depth. All guests keep the rules of the SDK: they use structures they
have created, unlock what they have locked, create a thread again only after it
was collected, and end neither the default thread nor, with the scheduler
disabled, themselves.

### `OsMessages`: state and actions

`array`, `count`, `first` and `used` are the words of an OSMessageQueue, `sendQ`
and `recvQ` the threads on its two wait queues, `call` the blocking call that each
thread has slept in. A call runs with interrupts disabled, so one round of the loop
of `MsgQueueOp` is a step: the buffer changes, the other side is woken and the call
returns, or it is refused, or its thread sleeps. A woken thread tests the buffer
again (`Retry`); another may have been faster. `LeftAsleep` is OSWakeupThread with
its limit of 256 threads (`MaxWake`). `Cancel` is OSCancelThread at any point of a
call. `last` is the call that returned last, which is what `GuestFifo` sees too.
A queue of no slots is legal: sends to it succeed and keep nothing.

### `NetDeferred`: state and actions

`sockets` is `g_sockets` with the generation that tells a reused descriptor from
the one it was, and what the host knows of the native socket; `workers`,
`completed`, `polls` and `connects` are the places where a request can be; a
request is a record of what was copied into it. `thread` keeps, of each guest
thread, its state and whether it is on the queue in its stack frame; the `cookie`
in that frame survives the thread, as stack memory does, and `token` is what the
thread waits for. `called` counts the callbacks of each asynchronous request.

Entries, socket calls and the pump run on the scheduler's host thread and do not
switch inside, so each is one step (`StartSync`, `StartAsync`, `NewWiiSocket`,
`DeleteWiiSocket`, `Shutdown`, `ReconnectWiiSocket`, `DirectConnect`,
`ProcessCompletions`); workers (`RunWorker`), the host's TCP (`HostSettles`) and
the clock (the set of requests whose deadline has passed, chosen by each pump)
take steps between them. Threads are cancelled asleep or woken, created again on
the same stack, and sleep on queues of their own (`SleepElsewhere`).

### `HostPump`: state and actions

`stack[t]` is what the fiber of `t` has still to do, as in `OsThreads`: a dispatch
of alarms (`alarms`), its handler and what follows it, the completions, the drain
of callbacks, the last reschedule, the end of a deferred pump, the idle loop. What
makes the component hard is that a fiber that is switched away keeps its frames
while `alarmDepth`, `drainDepth` and `disable` belong to the one host thread.
Guest code (`GuestCode`) runs from a thread, a handler or a callback; the latter
two make one call at most. `wait` counts down to each alarm's fire time, so that
time is finite. InsertAlarm, SetTimer and OSCancelAlarm are the SDK's and reach
the runtime through PPCMtdec (external). Callbacks of NAND do not sleep, a rule of
the console's interrupt level, and a renderer call is not cancelled from its own
pump.

### `AudioRing` and `AudioOut`: state and actions

`AudioRing` is the part of `audio_backend.cpp` behind `__SWITCH__`: which buffer is
being filled and how far (`slot`, `fill`), the buffer states as last read back
(`wave`) and what the renderer has really still to play (`playing`). `Update` is
audrvUpdate; each function that calls it says so. `AppendSamples` is one round of
the loop that copies a block, since the renderer plays meanwhile.

In `AudioOut` the host thread is at one place (`at`): in guest code, in one of the
stages of a tick, or in the AX frame that the AI callback and the resume callback
of the DSP start (`sync`, `size`, `address`, `aux`). `tick` is what Audio_HLE_Tick
keeps in local variables, read again after each block. The mix worker is the second
thread: `mixer` holds its flags under `m_mixMutex`; a command list is which aux
buffer it uploads to and which it reads (`list`). Of an aux buffer the model tells
whether its contents are from the last list and whether the guest has processed
them in place. JoinMix is the guard `Joined` followed by `PublishAuxOutputs`.
`read` and `want` are history variables: what the mix of the list has read from its
aux input, and what it would have read at once. Elapsed time is counted in blocks.
`__AXSyncPBs`, `__AXProcessAux` and the rest of the AX frame are the SDK's
(external): the code relies on their order in comments at `hle/audio/ax_mix.cpp:956-960`
and `:1288-1292`. `world` says what there is, chosen at the start: a host with a
renderer and a guest with any callback, or a guest with AX on a host without; the
two halves meet in `at` only, and both at once would be over a million states.

### `NandSave`: state

`dir` maps the two names, the save and its shadow (`SafeTempPathFor`), to files;
`data` holds their contents as the program sees them. Contents are one version
number per block: 0 for zero bytes, and a new number for each write, which is
all the properties need to tell old, new, torn and blank apart.

A crash does not leave what the program sees. `older` holds the directories that
the host may still have on disk, and `disk` the versions that each block of a file
may have there: all that were written since the last sync, and the one before. A
sync of a file (`Synced`) fixes its blocks; a sync of the directory, or
MOVEFILE_WRITE_THROUGH (`Settled`), forgets the older directories;
`HostWritesBack` does both at any time. This is the model of a host without
ordering guarantees for which FlushFileToDisk and the sync of the directory were
written; it is external code and says so in PROJECT.json.

`handle` is the part of `g_fileHandles` behind each NANDFileInfo, `flag` its
openFlag, `created` is `g_savesCreatedThisSession`, `probe` the answer of the last
reading open, which a careful guest heeds. `promised` is a history variable: the
contents that the guest may find after a crash, namely those of the last commit
that succeeded and of one under way. `failed` remembers reported failures.

### `NandSave`: actions

No handler of the save files switches fibers, so handlers do not interleave. What
can come between two of their host calls is a crash. `op` is the handler in
progress and there is one action for each host call that changes the disk
(`CopyStep`, `FlushStep`, `RenameStep`, `UnlinkStep`, ...), with one disjunct for
success and one for failure: a failure with a reason in the model (a POSIX host
alone removes or replaces open files, `Removable`, `Replaceable`) or, if the host
call is in `world.fails`, for a reason of its own.

`world` is the host and the guest, chosen from `Worlds` at the start: the kind of
host (`posix`, `win32`, and `fat` for the Switch's card, where a rename cannot
replace a file), which calls may fail, what the guest does, and how many
NANDFileInfo it uses.

## 3. Runs

### Threads

All runs have three threads (the default thread and two more), which is the
least number for an owner, a waiter and a third party, or a sleeper, a waker and
a runner. Priorities: `Graded` puts the default thread between the two others,
`MainFirst` above and `MainLast` below them. Suspend counts reach `MaxSuspend`
(1, or 2 where foreign suspensions matter), lock recursion and scheduler nesting
`MaxCount`. `MaxDepth` bounds how many frames may be on a fiber when a timer
fires: the code resumes the sleeper from inside SelectThread, which selects
again, so the host stack of a thread that is preempted at each of its polls grows
with no bound of its own; 3 or 4 frames allow two nested levels. A guest program
may leave all its threads waiting, so no run of threads checks for deadlock: a
thread that waits for good is legal, and a lost one is what `NoLostThread`
excludes.

| Run | Guests | Shows |
|---|---|---|
| `guests` | five: one that creates, ends, joins and detaches threads in two structures; one with two mutexes, recursion 2 and sleeping inside; one that suspends owners and waiters up to twice; one with OSSleepTicks and foreign suspensions; one with callbacks and OSDisableScheduler | `TypeOK`, `QueuesWellFormed` (the mask is exact, no thread is linked twice, wait queues are sorted, the active list is right), `NoLostThread`, `HostRunsRunningThread`, `MutexConsistent`, `PriorityInherited`, `MostUrgentRuns`, `TimerWakesSleeper`, `NoSwitchWhileDisabled`, and `ImplementsGuestMutex`: the detailed functions refine `GuestMutex` |
| `endings` | three: one whose threads end, by exit or cancel, while they own a mutex; one with a mutex, timers and queues; one whose entry functions return, and that never sleeps. Under `FairSpec` | `MutexConsistent`, `TerminatedThreadIsCleanedUp`; every handler ends or waits (`HandlersEnd`); no sleep timer is left in an idle loop or a handler that goes on for ever (`SleepersAreServed`) |
| `exit_contended`, `stale_timer` | see section 5 | the code disagrees with its comments |

The guest that ends threads in `endings` never sleeps inside a critical section,
because then the disagreement of `exit_contended` occurs. The third, whose entry
functions return, yields, exits and cancels, but neither sleeps nor joins nor locks:
after a return the default thread goes on in whatever state it is, and with a sleep
or a join it would be linked twice (section 5). `MostUrgentRuns` is
not claimed for guests that disable the scheduler or run callbacks, which may end
without a reschedule.

`NoStrandedPark`, a part of `NoLostThread`, is why ProcessSleepTimers' reconciler (`hle/os/os_sleep.cpp:160-237`)
is not in the model: it acts on parks without a timer, and there are none.

Fairness (`FairSpec`): the host thread always executes the topmost frame of the
running fiber, and nothing in a handler waits for another fiber except by
switching to it, so `FrameStep` is weakly fair. A timer that stays armed while the
host keeps polling becomes due, so each `SleepTimerFires` is weakly fair. Nothing
is assumed of guest code, which may compute for ever or stop calling.

### Messages, network, pump and audio

| Run | Instance | Shows |
|---|---|---|
| `messages` | three threads, two messages, an array of three slots used as a queue of 0, 2 or 3 | `TypeOK`, `RingInBounds`, `NoLostWakeup`, and `FifoSpec`: the ring with its retries and cancellations refines `GuestFifo`; no deadlock |
| `network` | one thread structure created again and again, one descriptor with two generations, two requests of any kind. Under fairness | `TypeOK`, `WokenHasItsResult`, `OneAnswerPerRequest`, `ConnectedIsCurrent`, and `Answered` |
| `pumps` | a thread that pumps and a more urgent one, both cancellable, two alarms, one pending callback, batches of 1 and 2. Under `FairSpec` | `TypeOK`, `QueueSorted`, `OneDispatch`, `DisableBalanced`, and `DueIsServed` |
| `dispatch_guard` | the same without cancellation | see section 5 |
| `audio` | a ring of three buffers of three units with blocks of two and a limit of five; two aux buffers; at most two blocks behind and two in a tick; two resume callbacks. Under fairness | `TypeOK`, `MixIsDoneWhenRead`, `MixReadsAsIfAtOnce`, `BlocksStayWhole`, `BlocksAreAccepted`, `AudioGoesOn` (time that has passed becomes blocks, and no tick waits for a mix for ever) |

Three threads in `messages` let a third one take what another was woken for; a
capacity of three in an array of three wraps around, one of two leaves a slot
outside the ring, and none is the edge of the code's modulus. In `network` one
structure is enough for the hazard of a reused stack, because the request of its
earlier life stays; one descriptor for that of a reused socket. In `pumps` one fiber
is left for another in the middle of a pump, and the batch of one ends with
something still due. `audio` has units that do not divide the buffers, as the
384-byte blocks do not divide 4096 bytes, and a limit below the ring's size.

Fairness. Network: some worker that runs publishes, and the pump runs again and
again at moments when the deadlines there are have passed. `Answered` excepts polls
without a deadline on an open socket, and lookups whose worker could publish neither
a result nor a failure (`lost`), for which nothing in the code stands in. Pump: the
host thread goes on with what it has begun (`HostCode`) and time passes (`Tick`); a
thread that keeps being run sleeps at last, as those of a frame loop do, and not
every pass of the idle loop finds a thread woken before it comes to the pump (strong
fairness, as both are disabled again and again).
`DueIsServed` excepts `GuardLost`, a thread cancelled under a raised guard, which
nothing in the code repairs. Audio: the worker, the host thread and the renderer go
on; the guest is polled again and again when it renders or idles (strong fairness
of `Polls`, which a guest in its own code may delay).

In `audio` the aux uploads need no property of their own against being published
twice, of which `hle/audio/ax_mix.cpp:1333-1335` warns: ExecuteCommandList clears
the shadows as well, and either alone suffices.

### Save files

Two blocks (`NumBlocks`) are the least for a torn file, and two versions
(`MaxVersion`) for an old and a new one beside zero bytes. `NumInodes` is 4: save,
shadow, and the two that an older directory may still name. `MaxOlder` is 3
directories; a handler that would need a fourth waits for `HostWritesBack`, so the
host is never assumed to write back sooner than after three changes of the
directory, more than the host calls of one commit that come before its sync.

| Run | Worlds | Shows |
|---|---|---|
| `nand_saves` | five: a POSIX host that never fails; one whose flush and directory sync may fail; Windows with two handles and a failing rename; the Switch with failing removal, flush and directory sync and a guest that retries closes; the Switch with failing probe, copy and open and a careful guest | `TypeOK`; `CrashLeavesSaveOrShadow`; `SafeOkMeansSaved`; `FailedCloseLeavesOriginal`; `ReportedRenameSurvives`, on the hosts whose directory sync does not fail; `RecoverySourceKept` |
| `nand_rename_fails`, `nand_two_writers` | see section 5 | the code disagrees with its comments |

`CrashLeavesSaveOrShadow` is weaker on the Switch's card: between the removal of
the save and the second rename a crash leaves only the shadow, whole, as the code
says where it gives up atomicity (`hle/storage/nand_async.cpp:284-288`). `RecoverySourceKept` is what
then keeps the shadow, for a guest that reads its save before it writes it.
There is no liveness here: every handler is a bounded chain of host calls.

## 4. Proofs

Every theorem holds for all values of the constants that satisfy the assumptions
of its module; the hypotheses that a few theorems add are about what the guest or
the host does, and each is there because the property fails without it.

### Threads

`OsThreads_proofs` and `OsThreads_safety_proofs` take any finite set of threads and
any queues, mutexes, priorities and bounds (`ConstantsAssumption`,
`AddressesAssumption`). For every guest:

- `TypeCorrect`: `Spec => []TypeOK`. `TypeOK` includes `Frame`, which says which
  thread, queue or mutex each kind of frame needs, so it also says that no handler
  resumes with a null pointer where it needs an object.
- `MaskCovers`: `Spec => []PendingCoversQueues`. No run queue holds a thread that
  the mask does not show: the half of `PendingExact` that needs no rule of the guest.
- `MutexesCounted`: `Spec => []MutexCounted`. The count of a mutex is positive
  exactly while it is owned.
- `DisabledKeepsFiber`: `Spec => NoSwitchWhileDisabled`. A switch is made by two
  frames only, `pick` and `fiberEnd`, and while the scheduler is disabled neither
  is anywhere on the running fiber (`DisabledIsCalm`): SelectThread returns before
  it pushes them, and the frames that raise the count are not pushed above them.

For guests whose entry functions do not return, and that do not use
OSSuspendThread together with a disabled scheduler (`GuestsKeepTheRules`):

- `ListsWellFormed`: `Spec => []QueuesWellFormed`. The mask is exact, no thread is
  linked twice or elsewhere than its link says, wait queues are in the order of
  priorities, and the active list holds the threads that can be joined.
- `RunningThreadIsHosts`: `Spec => []HostRunsRunningThread`.

For those guests that, besides, do not cancel threads if their threads sleep in
OSSleepTicks (`SleepersAreLeftAlone`):

- `TimersWakeSleepers`: `Spec => TimerWakesSleeper`. A due timer takes a suspension
  only off a thread that is in OSSleepTicks.

In the behaviours of guests of `GuestsKeepTheRules` in which nobody exits or is
cancelled while another thread waits for a mutex it owns (`EndsUncontended`; mutexes
nobody waits for may be owned by a thread that ends), that is, with
`Tidy == Spec /\ [][EndsUncontended]_vars`:

- `NoThreadIsLost`: `Tidy => []NoLostThread`.
- `MutexesConsistent`: `Tidy => []MutexConsistent`.
- `MutexesExclude`: `Tidy => ImplementsGuestMutex`, the refinement of `GuestMutex`
  under the mapping `holds`: every step enters a free critical section, leaves one
  it is inside of, ends a thread, or stutters.
- `EndedThreadIsCleanedUp`: `Tidy => []TerminatedThreadIsCleanedUp`. A thread that
  exits or is cancelled has released all the mutexes it owned, and has woken its
  joiners, before guest code goes on.

For guests of `GuestsKeepTheRules` that do not end threads (OSExitThread,
OSCancelThread) if they use mutexes (`EndersOwnNothing`):

- `PrioritiesAreInherited`: `Spec => []PriorityInherited`. Whenever guest code goes
  on, every thread that is not suspended is as urgent as the most urgent of those who
  wait for its mutexes, along chains of owners of any length.
- `MostUrgentThreadRuns`: `Spec => []MostUrgentRuns`. Guest code does not go on while
  a more urgent thread is ready, unless the guest defers reschedules (section 3).

Why the hypotheses. After an entry function returned, the default thread's fiber
goes on in whatever state that thread is, perhaps asleep and linked (section 5). A
thread that suspends itself with the scheduler disabled runs on, though it is not
to run, and is not on the fiber of a RUNNING thread. And a thread that ends while
another waits for its mutex is switched away from in the middle of
`__OSUnlockAllMutex`: `exit_contended` is the exit, and section 5 has the cancel.
A cancelled sleeper leaves its timer to whoever gets its structure: `stale_timer`.
The third rule cannot be one about which operations a guest uses, since a thread that
owns a mutex may end: so it is one about when. The guests of the run `guests` keep all
of the rules; that of `exit_contended` breaks the third. The first guest of `endings`
keeps it and ends threads that own mutexes, which is the case that
`EndedThreadIsCleanedUp` is about. The two theorems about priorities have the
stronger rule `EndersOwnNothing`: their invariants follow the chains of owners, and a
thread that releases its mutexes one by one is a chain that comes apart.

The argument is in layers, each inductive relative to earlier ones:

1. `IInv == TypeOK /\ PendingCoversQueues /\ MutexCounted` (`InductiveInvariant`).
   `TypeOK` alone is not inductive: OSUnlockMutex decrements the count of a mutex
   its caller owns, and only `MutexCounted` says that it is not zero. A queue and
   its bit are written in separate statements, so each of the six ways to change a
   queue has a lemma (`RemovedOK`, `InsertedOK`, `EnqueuedOK`, `ShrunkOK`,
   `QueueChangesOK`); so has each operator that handlers share
   (`SetThreadEffectivePriorityOK`, `ResumeThreadOK`, `SuspendThreadOK`,
   `TerminateThreadOK`, `SwitchToOK`), and each group of actions.
   `EffectivePriorityType` rests on the least element of a finite set of
   priorities, by well-foundedness (`HasLeast`, in `LeastNumber`).
2. `SafeInv == QueuesInv /\ FiberInv /\ HostInv` (`SafeInvariant`). `QueuesInv` is
   about the lists: well formed (`GoodLists`), and a thread is on one for a reason,
   waiting, or ready and not suspended (`Shelved`); without the reason, unlinking
   by `link` would miss it. `HostInv` is about the frames: the thread of the running
   fiber runs (`Runs`); or it has gone to sleep, and some frame of its stack will
   select before any other of its own goes on (`Yields`); or it idles (`Idles`) or
   takes a thread (`Picks`). In the last two nobody runs, so a frame left by a
   handler that assumes its caller runs must not come before the switch; `Split`
   says where on the stack which frames may be. The lists and the frames need each
   other: OSWakeupThread may dequeue because the sleeper is on that queue, and the
   tail of OSSleepThread may unlink because its own thread does not run.
3. `PlacedInv` (`PlacedInvariant`) is the converse of `Shelved`: a thread that may
   run or waits is on its list. It holds between the steps of a handler too, so
   there is nowhere a thread could be forgotten. Its other parts keep a joiner from
   queueing on a dead thread: `JoinersLeft`, with `CleansUp` for the wakeup that is
   still to come, and `JoinsTheLiving`, that OSJoinThread sleeps right after it saw
   the thread alive. `NoStrandedPark` is inductive by itself. An ending thread that
   owned mutexes adds frames that release them before the joiners are woken; nobody
   waits for any of them (`ReleasingInv`, from `EndsUncontended`), so the wakeup in
   between finds an empty queue and does not switch away.
4. `MutexInv` (`MutexInvariant`): a mutex is on its owner's list and on no other
   (`OwnersListed`), the guest is inside exactly the mutexes it owns
   (`HoldersOwn`), and owners are alive (`OwnersLive`). It is proved for behaviours of
   `EndersOwnNothing`; `OwnersInv` is the same with the exception of the one thread
   whose mutexes `__OSUnlockAllMutex` is about to release, for `EndsUncontended`.
5. `SleepersInv` (over `SafeInv`): a thread with a timer is suspended, alive, and has
   the tail of OSSleepTicks on its stack. OSResumeThread takes the timer of a thread
   that it lets run, and the tail that of a sleep that did not park.
6. `WaitInv`, for the priorities. They are passed on by a walk along the owners, one
   link a step, and others may wait, end or be suspended before and after it, but not
   during it: `FormsInv` says which frames may be on a stack below the topmost one,
   so that a walk (`promote`, `propagate`) or the wakeup of a mutex is always on top of
   the running fiber. So an owner is never released between OSLockMutex's look at it
   and the sleep, and nobody waits for a mutex without an owner but those who are
   being woken (`Unowned`). A waiter is on the queue that its OSThread.mutex names
   (`WaitsThere`), which the walk follows, and a suspended one has the priority 32
   that puts it behind all others (`WaiterPrio`); `Locking` keeps OSThread.mutex from
   outliving the OSLockMutex that set it.
7. `FairInv`: a thread that may run is as urgent as each that waits for it or is about
   to (`Claims`), unless it is the one that the walk has come to, which is about to get
   that priority (`Promised`) or to have its own computed (`Waived`). The walk stops
   at an owner that is urgent enough already; that all owners behind it are then urgent
   enough too is this invariant for that owner. For the next theorem it also says
   that no priority is more urgent than it has to be (`Warranted`): a thread that kept an
   inherited priority would run before threads that are more urgent.
8. `UrgentInv`: no ready thread is more urgent than the running one, or SelectThread
   is still to be called before guest code goes on (`Comes`): by a frame of the
   stack, by a reschedule that will look at the hint, or by a wakeup that will make
   somebody ready. OSUnlockMutex is where both are needed: it gives the priority back
   and only its wakeup selects. If nobody waited, the priority that it gives back was
   the thread's own, or due to its other mutexes, by `Warranted`.

### Messages

`OsMessages_proofs` proves, for any threads, messages, array length and capacities
(`MessageConstants`), and threads few enough for one OSWakeupThread
(`WakeReachesAll`):

- `RingBounded`: `Spec => []RingInBounds`, and `MessagesTypeCorrect`:
  `Spec => []TypeOK`. The indices stay inside the array, and a retest after a wakeup
  never overfills it. The two are inductive together (`Ring`); the modulus of the code is reduced to a comparison
  (`ModSmall`, `ModWrap`, `SlotIsMod`).
- `NoWakeupIsLost`: `Spec => []NoLostWakeup`, inductive relative to `Ring`. The 256
  threads of OSWakeupThread are where it would fail: `WakesAll` needs
  `WakeReachesAll`.
- `QueueIsFifo`: `Spec => FifoSpec`. Each round of a call maps to a step of the
  deque or to a stutter (`OpIsFifo`), by one lemma for each operation on the ring
  (`EnqueueAppends`, `JamPrepends`, `DequeueTakesHead`), each of which shows where
  the slots in use are.

### Network

`NetDeferred_proofs` proves, for any threads, descriptors, generations and number of
requests, that no answer goes astray:

- `WokenFindsResult`: `Spec => []WokenHasItsResult`. The inductive invariant
  `WaitersInv` says of every thread that its queue in the frame is linked exactly
  while it sleeps in a request, under a cookie that is the token it waits for
  (`Waiter`), and that no two threads wait for one token, all older than the next
  (`TokensAreApart`). So a request that the pump answers has the token of the
  thread it wakes (`DeliverKeeps`), although that thread's stack may be that of
  one that was cancelled: the cookie is all that tells them apart. All that the
  guest's own steps change is one thread (`OneThread`).
- `AnsweredOnce`: `Spec => []OneAnswerPerRequest`. A sleeping caller has a request of
  its own on the way (`CallerAsked`), an asynchronous request is on the way or has
  had its one callback (`CallbackOwed`), and a request is in one of the four places
  where it can be, once (`OneOfEach`). The pump of one moment answers many requests
  and moves others on, so the proof counts what it does to one of them
  (`Outstanding`, `Counted`). The inductive invariant is `AnswersInv`, which
  includes `WaitersInv` and the types.
- `ConnectReportsItsSocket`: `Spec => ConnectedIsCurrent`. A connect is answered with
  success only if its socket is of the generation that the request was made on.
- `TypeCorrect`: `Spec => []TypeOK`.

### Audio

`AudioOut_proofs` proves, for any aux buffers, backlogs and resume callbacks:

- `MixIsJoined`: `Spec => []MixIsDoneWhenRead`. That the parameter blocks are
  touched only after a join is not local to the code that touches them: a resume
  callback opens a frame long after the join of its tick. `FrameIsOpen` is what
  carries it: the guest's note that a frame is due (`__AXOutDspReady = 2`) is made
  after a join, and taken back before the list of the next frame is mailed.
- `MixReadsWhatWasMailed`: `Spec => []MixReadsAsIfAtOnce`, inductive with `Promised`:
  while a list waits or is mixed, its snapshot holds what a mix at once would
  have read. Both share the invariant `MixInv`.
- `BlocksArriveWhole`: `Spec => []BlocksStayWhole`, for a ring of any size that holds
  a block. `RingInv` says more than the property: the slots with the renderer are
  consecutive and end before the one that is filled (`Order`), all are marked queued
  (so the program cannot take one back early, whatever it last read), and what is
  left of a block fits into the slots the renderer does not have. The renderer plays
  between any two rounds of the copy.
- `AudioTypeCorrect`: `Spec => []TypeOK`.

### The pump

`HostPump_proofs` proves, for any finite set of alarms, any periods, threads and
batches:

- `AlarmsStaySorted`: `Spec => []QueueSorted`, inductive with the types of the three
  alarm variables (`AlarmInv`). The work is in the list: where each alarm is after
  one is unlinked or linked (`DropPlaces`, `PutPlaces`), that InsertAlarm finds a
  place at all (`PlaceExists`, from `HasLeast` of `LeastNumber`), and that it is the
  right one (`InsertSorted`).

- `DispatchesAreFlat`: `Spec => []OneDispatch`, and `CountMatchesFrames`:
  `Spec => []DisableBalanced`, cancellation included. Both follow from `StackInv`,
  which says of every fiber what the three counters of the one host thread are
  worth there: `alarmDepth` and `drainDepth` are up only if at most one fiber holds
  the guarded frame, a handler is topmost and on the running fiber only (`Clear`:
  no fiber is left inside one), and the disable count is what the frames of the
  running fiber raised it by (`Raised`).
- `PumpTypeCorrect`: `Spec => []TypeOK`.

### Save files

`NandSave_proofs` proves, for any number of blocks, versions, files, older
directories and infos, and any worlds:

- `SafeOkIsTold`: `Spec => []SafeOkMeansSaved` (inductive part `Told`), and
  `TypeCorrect`: `Spec => []TypeOK`.
- `CrashSafe`: `Spec => []CrashLeavesSaveOrShadow`, and `FailedCommitIsHarmless`:
  `Spec => FailedCloseLeavesOriginal`, in worlds (`SafeWorlds`) where a rename fails
  for no reason of its own except on Windows, and where a POSIX guest opens the save
  for safe writing through one NANDFileInfo only. Each exclusion is one of the
  violations of section 5 (`nand_rename_fails`, `nand_two_writers`), and the worlds of
  `nand_saves` are within them.
- `ReportedRenameIsDurable`: `Spec => ReportedRenameSurvives`, in `SafeWorlds`. The
  file that a close commits is the shadow until it is renamed, then the save
  (`Publishing`). With two writers on a POSIX host it is not: the second takes the
  name of the shadow for a file of its own, and that is what the first one's close
  renames.
- `RecoverySourceIsKept`: `Spec => RecoverySourceKept`, in the worlds of `SafeWorlds`
  in which a careful guest does not delete its save, removing does not fail and, if
  opening may fail, there is one NANDFileInfo (`CarefulWorlds`). TLC finds a
  violation without each of the three: a shadow that could not be removed after a
  failed commit is discarded by the next open, as is one that is left when the guest
  deletes the save, or when `w+b` empties it in place because another handle is open.

`CrashSafe` is about every directory that the disk may still have (`OnDisk`), not
the present one, so its invariant is too: in each of them the save is one that was
promised, or the shadow is, where the code gives up atomicity (`SafeFor`). `FineDirs`
adds two facts about files that are still written: where only the unfinished shadow
is left, the guest is ready to find no save (`HiddenFor`), and a file written in
place is in no such directory unless any contents may be found (`ApartFor`). It is
not inductive alone: the rename makes the shadow's file the save, so that file must
be fully on disk and promised before (`Committed`), which is why the commit syncs
the file first; the removal on the Switch leaves a directory without a save for one
step (`Accounted`). All of this needs to know which files a handle or a handler may
still write (`NamesOK`), and that on a POSIX host nothing is open when a shadow is
discarded (`Alone`), which is where a second writer breaks it.

What carries `RecoverySourceIsKept` is `SourceIsTold`: while the save has no data and
an unused shadow has some, reading has told the guest neither "ok" nor "missing" in
this session, nothing was created, and no handler is under way but a close without a
commit. It has to hold when nothing is being destroyed yet, since what the guest
was told may be long ago. That a session cannot get into this state after reading
told it otherwise is what the steps show: a shadow is a copy of the save or blank
until it is opened, a commit ends with the shadow gone or in use, and an open in place
empties a save only where there is no shadow (`InPlaceNeedsNone`). `ShadowHandles`
says that only committing handles are on the shadow, so none but a commit lets go of it.

### What is only model-checked

Liveness (`HandlersEnd`, `SleepersAreServed`, `Answered`, `DueIsServed`,
`BlocksAreAccepted`, `AudioGoesOn`), which is out of the prover's reach, like ENABLED.
Every invariant and every action property of a passing run is a theorem, under the
hypotheses above; for the guest of `endings` whose entry functions return, which the
hypotheses leave out, `MutexConsistent` and `TerminatedThreadIsCleanedUp` are only
model-checked.

## 5. Where the code and its comments disagree

- `exit_contended`: TerminateThreadCommon releases the mutexes of a thread that is
  already marked as ended; the wakeup in `__OSUnlockAllMutex` selects a thread at
  once, and a thread that is MORIBUND is not requeued. If somebody waited for its
  mutex, the host never returns to the exit: its other mutexes stay owned and its
  joiners wait for ever, although "wakes joiners/mutex waiters"
  (`hle/os/os_thread.cpp:222-223`). The functions follow the SDK's order here.
- `stale_timer`: OSCancelThread leaves the sleep timer of the thread it ends. A
  thread created in the same structure is READY with one suspension, the shape of
  a sleeper, and is started by the timer of its predecessor
  (`hle/os/os_sleep.cpp:120-123`).
- `dispatch_guard`: ProcessAlarmQueue reschedules after each handler while its guard
  is up (`hle/os/os_alarm.cpp:226`). If the handler woke a more urgent thread, the
  fiber is left there, and the thread it is left for is refused every pump until the
  first one runs again: the very thing that "would make the resumed fiber skip all
  alarm/network/callback pumping" (`hle/os/os_alarm.cpp:165-168`).
- `nand_rename_fails`: on the Switch, a commit removes the save and renames the
  shadow; if that second rename fails, the error path removes the shadow as well
  (`hle/storage/nand_async.cpp:384-394`), and the close that was to leave "the
  original exactly as it was" leaves nothing.
- `nand_two_writers`: NANDSafeOpen does not ask `IsHostPathOpen`, as NANDOpen does.
  Two safe opens of the save share a shadow; the second close removes the save that
  the first has just published.

Seen while modelling and proving, with no run of their own:

- OSCancelThread of a thread whose mutexes others wait for is left in the middle of
  `__OSUnlockAllMutex`, as the exit of `exit_contended` is, if a waiter is more urgent
  than the canceller. Meanwhile the dead thread can be joined, created again in the
  same structure, and lock a mutex; when the canceller goes on, its loop over
  `queueMutex` (`hle/os/os_thread.cpp:219`) releases the mutex that the new life of the
  thread holds, and another thread enters. TLC finds it for a guest that mixes
  create, resume, cancel, join, lock, unlock and sleep, with the default thread the
  least urgent; it is why `MutexesExclude` assumes `EndsUncontended`;
- FiberProc is to "complete the guest OSThread lifecycle" of a thread whose entry
  function returns (`fiber_manager.cpp:667-669`), but does not release its mutexes, as
  the OSExitThread it stands for does: whoever waits for one waits for ever. TLC finds
  `TerminatedThreadIsCleanedUp` violated for a guest that creates, resumes, returns
  and locks, under `MainLast`;
- FiberProc then goes "back to the scheduler" by switching to the fiber of the default
  thread (`fiber_manager.cpp:705`), whose guest code goes on without SelectThread, in
  whatever state that thread is. If it was in OSSleepThread, the tail block that "never
  fires there" (`hle/os/os_sleep.cpp:489-491`) fires and unlinks it. If it waited to join
  the thread, it is READY and on a run queue while it runs, and its next sleep links it
  on a wait queue as well, with the same pair of links: `QueuesWellFormed` is violated
  for a guest that creates, resumes, returns and joins, under `MainFirst`;
- the sync of the directory after a rename is there "so the rename itself survives a
  crash" (`hle/storage/nand_async.cpp:299`), but whether it could be opened and synced
  is not looked at (`:300-304`): the close reports success, and a crash may bring the
  old save back. `ReportedRenameSurvives` excepts hosts whose sync may fail; without
  the exception TLC finds it violated on a POSIX host;
- a failed NANDSafeClose keeps openFlag for a retry (`hle/storage/nand_async.cpp:534`),
  but CommitAndCloseFd has already erased the handle (`:363`): the retry can only fail;
- after a failed NANDClose a second one finds no handle, for which plain closes
  report success although the data is gone (`hle/storage/nand_api.cpp:215-218`);
- SetMixWorkerEnabled only sets its flag (`hle/audio/ax_mix.cpp:144-147`), although the
  overlay says that it "joins any in-flight mix before switching"
  (`settings_overlay.cpp:1018-1019`). It does no harm: the next list joins first, and
  `audio` lets the setting change at any time;
- a detached thread whose entry function returns stays on the active list, in state
  NONE: FiberProc (`fiber_manager.cpp:664-690`) does not unlink it, as
  TerminateThreadCommon does (`hle/os/os_thread.cpp:234`).

Worth knowing, with no comment against it: after such a return running and current
context are null, so SelectThread does nothing until the default thread sleeps, and
OSLockMutex returns without locking; a contended OSLockMutex with the scheduler
disabled spins, as the code says (`hle/os/os_sleep.cpp:343-345`). A returning
entry function also breaks `HostRunsRunningThread` (nobody is running) and, in some
guests, `NoLostThread`, which is why returning threads are in `endings` only, in a
guest that does not sleep. After a list has been linked twice the model, whose lists
are sequences, says nothing of the code any more.

## 6. What is left out

- Of the modelled files: register contexts, stacks and exit values (data); the
  switch callback; statistics and tracing; the 256-thread limit of OSWakeupThread,
  which `OsMessages` has;
  memory access violations, which a valid guest does not cause;
  VI_HLE_IsAdvancingRetrace, which suppresses a reschedule only where SelectThread
  would refuse it (the retrace runs with the scheduler disabled or from the idle
  loop); OSSetThreadPriority-like changes, which the runtime does not handle.
- Threads created by translated code without a fiber; every thread here comes
  from OSCreateThread.
- Destruction of host stacks in the fiber manager.
- Of the save files: NANDMove, directories, seeding of the face library, files
  other than the save, seeking and lengths. A write reaches the host: that
  NANDWrite ignores the result of fflush (`hle/storage/nand_api.cpp:283`) matters
  only with a C library that drops bytes on error. An existing save that `r+b`
  cannot open for a moment is emptied by `w+b` (`hle/storage/nand_api.cpp:169`):
  the model does it too, but the code promises nothing of writing in place.
- Of the pump: the retrace and its guard and pacing (vi.cpp); lists that link to
  themselves, which SanitizeAlarmQueue repairs; handlers that make more than one call.
- Of the network: the data of every request, the TLS handshake, and what the ioctls
  that complete at once do.
- Of the audio: the arithmetic of the mix, the SDL stream of other hosts, the
  attenuation of music, DSP tasks other than AX, rate changes of the renderer.
- DVD reads are synchronous in the code, and their callbacks run before the call
  returns: there is nothing to interleave.
- The components marked `not_modelled` in PROJECT.json: translator, launcher and
  Aurora are not runtime state machines; graphics and input transform data;
  the others are planned.

## 7. Plan

Done: `OsThreads` with `GuestMutex`, `NandSave`, `OsMessages` with `GuestFifo`,
`NetDeferred`, `HostPump`, `AudioRing` and `AudioOut`. Next, in order of what matters
most to a guest:

1. The retrace of the video interface with its guard, as another device of
   `HostPump`; the other half of the save files (NANDMove, directories).
2. The intrusive list itself (next, prev, head, tail) as a module, with the proof
   that linking and unlinking refine the sequence operators of `OsThreads`.

------------------------------ MODULE AudioOut ------------------------------
(***************************************************************************)
(* The audio interface of the console (hle/audio/audio.cpp) and the DSP    *)
(* that mixes for it (hle/audio/ax_mix.cpp).  For every block of time that *)
(* has passed, a tick hands the block to the backend and calls the guest,  *)
(* which mails the DSP a command list for the next one.  The list is mixed *)
(* on a worker thread or at once.  All else runs on the one host thread of *)
(* the guest: from its idle loop and from the waits of the renderer.       *)
(***************************************************************************)
EXTENDS AudioRing

CONSTANTS
    MaxBacklog,   \* blocks the AI may be behind (166: kMaxCatchUpSeconds)
    MaxTick,      \* kMaxBlocksPerTick (64)
    MaxResumes,   \* bound: resume callbacks outstanding
    Buffers,      \* the guest's aux buffers
    Uploads,      \* those that its command lists upload to
    Worlds,       \* what host and guest there may be: sets of "renderer", "ax"
    NotRead       \* the contents of no aux buffer

ASSUME AudioConstants ==
    /\ {MaxBacklog, MaxTick, MaxResumes} \subseteq Nat \ {0}
    /\ Uploads \subseteq Buffers /\ Uploads # {}

VARIABLES
    world,    \* the host and the guest, chosen at the start
    ai,       \* g_ai, with the elapsed time in whole blocks
    at,       \* where the host thread is
    tick,     \* what Audio_HLE_Tick holds in local variables
    dsp,      \* m_mailState, m_deferredResumeCallbacks; the guest's __AXOutDspReady
    mixer,    \* the worker thread and its flags
    list,     \* m_cmdList: the aux buffers it uploads to and reads
    auxIn,    \* m_auxIn: the snapshot of the aux buffers
    auxOut,   \* m_auxOut: buffers whose upload is not in guest memory yet
    mem,      \* aux buffers in guest memory
    read,     \* history: what the mix of the list has read, until it is joined
    want      \* history: what it would have read if mixed when mailed

mix == <<mixer, list, auxIn, auxOut, mem, read, want>>
vars == <<world, ring, ai, at, tick, dsp, mix>>

Stages == {"guest", "claim", "join", "push", "append", "invoke", "sync", "size",
           "address", "aux", "service", "reload", "reset", "off"}

\* The contents of an aux buffer: uploaded by the last list or by an earlier
\* one, and processed by the guest since, or not.
Aux == [old : BOOLEAN, wet : BOOLEAN]
Upload == [old |-> FALSE, wet |-> FALSE]
Aged(m) == [b \in Buffers |-> [m[b] EXCEPT !.old = TRUE]]

TypeOK ==
    /\ RingTypeOK
    /\ world \in Worlds
    /\ ai \in [enabled : BOOLEAN, dma : BOOLEAN, callback : BOOLEAN,
               acc : 0 .. MaxBacklog, active : BOOLEAN]
    /\ at \in Stages
    /\ tick \in [dma : BOOLEAN, callback : BOOLEAN, blocks : 0 .. MaxTick]
    /\ dsp \in [mail : {"size", "address", "task"}, resumes : 0 .. MaxResumes, ready : 0 .. 2]
    /\ mixer \in [thread : {"none", "waiting", "mixing", "done"},
                  pending : BOOLEAN, busy : BOOLEAN, stop : BOOLEAN, on : BOOLEAN]
    /\ list \in [up : Uploads, down : Buffers]
    /\ auxOut \in SUBSET Uploads
    /\ mem \in [Buffers -> Aux]
    /\ {auxIn, read, want} \subseteq Aux \cup {NotRead}

Init ==
    /\ world \in Worlds
    /\ RingInit
    /\ ai = [enabled |-> FALSE, dma |-> FALSE, callback |-> FALSE, acc |-> 0, active |-> FALSE]
    /\ at = "guest"
    /\ tick = [dma |-> FALSE, callback |-> FALSE, blocks |-> 0]
    /\ dsp = [mail |-> "size", resumes |-> 0, ready |-> 0]
    /\ mixer = [thread |-> "none", pending |-> FALSE, busy |-> FALSE, stop |-> FALSE, on |-> FALSE]
    /\ \E b \in Uploads : list = [up |-> b, down |-> b]
    /\ auxOut = {}
    /\ mem = [b \in Buffers |-> [old |-> TRUE, wet |-> FALSE]]
    /\ auxIn = NotRead /\ read = NotRead /\ want = NotRead

-----------------------------------------------------------------------------
(***************************************************************************)
(* The mix worker.                                                         *)
(***************************************************************************)

\* JoinMix waits for the worker ...  (The forms named Def_Fault are what Def
\* would be with a plausible fault; the properties are tested against them.)
Joined_IgnoresPending == mixer.thread = "none" \/ ~ mixer.busy
Joined == mixer.thread = "none" \/ (~ mixer.pending /\ ~ mixer.busy)

\* ... and publishes its aux uploads.
Published == [b \in Buffers |-> IF b \in auxOut THEN Upload ELSE mem[b]]
PublishAuxOutputs == mem' = Published /\ auxOut' = {}

\* What a mix of list l reads: what it has itself uploaded there, else m.
ReadAuxInBuffer(l, m) == IF l.up = l.down THEN Upload ELSE m

WorkerTakes ==
    /\ mixer.thread = "waiting" /\ mixer.pending
    /\ mixer' = [mixer EXCEPT !.thread = "mixing", !.pending = FALSE, !.busy = TRUE]
    /\ UNCHANGED <<ring, ai, at, tick, dsp, list, auxIn, auxOut, mem, read, want>>

Snapshot_Live == mem[list.down]
Snapshot == auxIn

\* ExecuteCommandList on the worker, or what it has done when it throws.
WorkerMixes ==
    /\ mixer.thread = "mixing"
    /\ mixer' = [mixer EXCEPT !.thread = "done"]
    /\ \/ auxOut' = {list.up} /\ read' = ReadAuxInBuffer(list, Snapshot)
       \/ auxOut' \in {{}, {list.up}} /\ UNCHANGED read
    /\ UNCHANGED <<ring, ai, at, tick, dsp, list, auxIn, mem, want>>

WorkerFinishes_StaysBusy ==
    /\ mixer.thread = "done"
    /\ mixer' = [mixer EXCEPT !.thread = "waiting"]
    /\ UNCHANGED <<ring, ai, at, tick, dsp, list, auxIn, auxOut, mem, read, want>>

WorkerFinishes ==
    /\ mixer.thread = "done"
    /\ mixer' = [mixer EXCEPT !.thread = "waiting", !.busy = FALSE]
    /\ UNCHANGED <<ring, ai, at, tick, dsp, list, auxIn, auxOut, mem, read, want>>

WorkerEnds ==
    /\ mixer.thread = "waiting" /\ mixer.stop /\ ~ mixer.pending
    /\ mixer' = [mixer EXCEPT !.thread = "none"]
    /\ UNCHANGED <<ring, ai, at, tick, dsp, list, auxIn, auxOut, mem, read, want>>

-----------------------------------------------------------------------------
(***************************************************************************)
(* Audio_HLE_Tick.                                                         *)
(***************************************************************************)

Goes(stage) == at' = stage

\* Whether the AI runs: the early return of a tick.
Runs == ai.enabled /\ ai.dma

Elapsed_Uncapped(d) == ai.acc + d
Elapsed(d) == IF ai.acc + d < MaxBacklog THEN ai.acc + d ELSE MaxBacklog

\* A poll from the idle loop or from a wait of the renderer, after d blocks.
\* One from the guest code of a tick only takes note of the time.
Poll(d) ==
    /\ at \in {"guest", "aux"}
    /\ Runs
    /\ IF ai.active
       THEN ai' = [ai EXCEPT !.acc = Elapsed(d)] /\ UNCHANGED <<at, tick>>
       ELSE /\ ai' = [ai EXCEPT !.acc = Elapsed(d), !.active = TRUE]
            /\ tick' = [dma |-> ai.dma, callback |-> ai.callback, blocks |-> 0]
            /\ Goes("claim")
    /\ UNCHANGED <<ring, dsp, mix>>

\* A block is claimed once its time has passed, up to a limit.
ClaimBlock ==
    /\ at = "claim"
    /\ ai.acc > 0 /\ tick.blocks < MaxTick
    /\ ai' = [ai EXCEPT !.acc = @ - 1]
    /\ Goes("join")
    /\ UNCHANGED <<ring, tick, dsp, mix>>

EndTick ==
    /\ at = "claim"
    /\ ai.acc = 0 \/ tick.blocks = MaxTick
    /\ ai' = [ai EXCEPT !.active = FALSE]
    /\ Goes("guest")
    /\ UNCHANGED <<ring, tick, dsp, mix>>

JoinMixWorker ==
    /\ at = "join" /\ Joined
    /\ PublishAuxOutputs
    /\ Goes("push")
    /\ read' = NotRead /\ want' = NotRead
    /\ UNCHANGED <<ring, ai, tick, dsp, mixer, list, auxIn>>

\* The reset of tickActive by the destructor of ActiveTickReset.
ActiveTickReset_Forgotten == ai' = [ai EXCEPT !.enabled = FALSE]
ActiveTickReset == ai' = [ai EXCEPT !.enabled = FALSE, !.active = FALSE]

\* The block goes to the backend if there is one.  A block that cannot be read
\* or queued disables the DMA.
PushAudioBlock ==
    /\ at = "push"
    /\ IF ~ backend
       THEN \/ UNCHANGED ring /\ Goes("invoke")
            \/ EnsureInitialized("renderer" \in world) /\ backend' /\ Goes("push")
       ELSE IF tick.dma THEN PushSamples /\ Goes("append")
       ELSE UNCHANGED ring /\ Goes("guest")
    /\ IF backend /\ ~ tick.dma THEN ActiveTickReset ELSE UNCHANGED ai
    /\ UNCHANGED <<tick, dsp, mix>>

AppendBlock ==
    /\ at = "append"
    /\ IF rest > 0 THEN AppendSamples /\ UNCHANGED at
       ELSE UNCHANGED ring /\ Goes("invoke")
    /\ UNCHANGED <<ai, tick, dsp, mix>>

AppendBlockFails ==
    /\ at = "append"
    /\ AppendFails
    /\ ActiveTickReset
    /\ Goes("guest")
    /\ UNCHANGED <<tick, dsp, mix>>

\* The AI DMA callback, __AXOutAiCallback: a new frame if the DSP is ready.  The
\* callback of a guest without AX is any code.
InvokeCallback ==
    /\ at = "invoke"
    /\ IF ~ tick.callback THEN Goes("reload") /\ UNCHANGED dsp
       ELSE IF "ax" \notin world THEN Goes("aux") /\ UNCHANGED dsp
       ELSE IF dsp.ready = 1 THEN Goes("sync") /\ dsp' = [dsp EXCEPT !.ready = 0]
       ELSE Goes("service") /\ dsp' = [dsp EXCEPT !.ready = 2]
    /\ UNCHANGED <<ring, ai, tick, mix>>

\* ServiceDeferredCallbacks calls __AXDSPResumeCallback: a new frame if the AI
\* has waited for it.
ServiceDeferredCallbacks ==
    /\ at = "service"
    /\ IF dsp.resumes = 0 THEN Goes("reload") /\ UNCHANGED dsp
       ELSE IF dsp.ready = 2
            THEN Goes("sync") /\ dsp' = [dsp EXCEPT !.resumes = @ - 1, !.ready = 0]
            ELSE Goes("service") /\ dsp' = [dsp EXCEPT !.resumes = @ - 1, !.ready = 1]
    /\ UNCHANGED <<ring, ai, tick, mix>>

Reload ==
    /\ at = "reload"
    /\ tick' = [dma |-> ai.dma, callback |-> ai.callback, blocks |-> tick.blocks + 1]
    /\ Goes("claim")
    /\ UNCHANGED <<ring, ai, dsp, mix>>

-----------------------------------------------------------------------------
(***************************************************************************)
(* __AXOutNewFrame of the guest, and the DSP at the other end of its mail. *)
(***************************************************************************)

\* __AXSyncPBs reads and writes the parameter blocks of the voices.
SyncPBs ==
    /\ at = "sync"
    /\ Goes("size")
    /\ UNCHANGED <<ring, ai, tick, dsp, mix>>

\* HandleMail, for the size of a command list ...
MailSize ==
    /\ at = "size"
    /\ dsp.mail \in {"size", "task"}
    /\ dsp' = [dsp EXCEPT !.mail = "address"]
    /\ Goes("address")
    /\ UNCHANGED <<ring, ai, tick, mix>>

\* EnsureMixWorker starts the thread, which the host may refuse.
Started == [mixer EXCEPT !.thread = "waiting", !.stop = FALSE, !.pending = FALSE, !.busy = FALSE]

\* ... and for its address: DispatchCommandList of a list l.
Dispatch(l, m) ==
    \/ /\ mixer.on
       /\ mixer' = [(IF mixer.thread = "none" THEN Started ELSE mixer) EXCEPT !.pending = TRUE]
       /\ auxIn' = m[l.down]
       /\ mem' = m
       /\ read' = NotRead
    \/ /\ ~ mixer.on \/ mixer.thread = "none"
       /\ mem' = [m EXCEPT ![l.up] = Upload]
       /\ read' = ReadAuxInBuffer(l, m[l.down])
       /\ auxIn' = NotRead
       /\ UNCHANGED mixer

MailAddress ==
    /\ at = "address" /\ Joined
    /\ dsp.resumes < MaxResumes
    /\ \E b \in Uploads, c \in Buffers :
         LET l == [up |-> b, down |-> c]
         IN  /\ list' = l
             /\ Dispatch(l, Aged(Published))
             /\ want' = ReadAuxInBuffer(l, Aged(Published)[c])
    /\ auxOut' = {}
    /\ dsp' = [dsp EXCEPT !.mail = "task", !.resumes = @ + 1]
    /\ Goes("aux")
    /\ UNCHANGED <<ring, ai, tick>>

\* The rest of the callback.  __AXProcessAux works in place on what it finds in
\* a buffer.
ProcessAux ==
    /\ at = "aux"
    /\ \E S \in SUBSET (IF "ax" \in world THEN Buffers ELSE {}) :
         mem' = [b \in Buffers |-> IF b \in S THEN [mem[b] EXCEPT !.wet = TRUE] ELSE mem[b]]
    /\ Goes("service")
    /\ UNCHANGED <<ring, ai, tick, dsp, mixer, list, auxIn, auxOut, read, want>>

-----------------------------------------------------------------------------
(***************************************************************************)
(* Calls of guest code, from its threads or from the callback.             *)
(***************************************************************************)

InCode == at \in {"guest", "aux"}

AIInitDMA(valid) ==
    /\ InCode
    /\ ai' = [ai EXCEPT !.dma = valid]
    /\ UNCHANGED <<ring, at, tick, dsp, mix>>

AIStartDMA ==
    /\ InCode
    /\ ai' = [ai EXCEPT !.enabled = TRUE]
    /\ EnsureInitialized("renderer" \in world)
    /\ UNCHANGED <<at, tick, dsp, mix>>

AIRegisterDMACallback(registered) ==
    /\ InCode
    /\ ai' = [ai EXCEPT !.callback = registered]
    /\ UNCHANGED <<ring, at, tick, dsp, mix>>

\* __AXOutInitDSP: the worker is joined and the mail starts over.
AXOutInitDSP ==
    /\ at = "guest" /\ "ax" \in world /\ Joined
    /\ \E on \in BOOLEAN : mixer' = [mixer EXCEPT !.on = on]
    /\ mem' = Published /\ auxOut' = {}
    /\ auxIn' = NotRead
    /\ dsp' = [mail |-> "size", resumes |-> 0, ready |-> 1]
    /\ UNCHANGED <<ring, ai, at, tick, list, read, want>>

\* DSPAddTask, which asserts the task.
AddTask ==
    /\ at = "guest" /\ "ax" \in world /\ Joined
    /\ dsp.resumes < MaxResumes - 1
    /\ PublishAuxOutputs
    /\ dsp' = [dsp EXCEPT !.resumes = @ + 1]
    /\ UNCHANGED <<ring, ai, at, tick, mixer, list, auxIn, read, want>>

OSStopAudioSystem ==
    /\ at = "guest" /\ Joined
    /\ ai' = [ai EXCEPT !.enabled = FALSE, !.acc = 0]
    /\ PublishAuxOutputs
    /\ dsp' = [dsp EXCEPT !.mail = "size", !.resumes = 0]
    /\ UNCHANGED <<ring, at, tick, mixer, list, auxIn, read, want>>

\* From the settings overlay, whenever it is drawn.
SetMixWorkerEnabled ==
    /\ at = "guest"
    /\ mixer' = [mixer EXCEPT !.on = ~ @]
    /\ UNCHANGED <<ring, ai, at, tick, dsp, list, auxIn, auxOut, mem, read, want>>

ChangeVolume ==
    /\ at = "guest"
    /\ SetMuted
    /\ UNCHANGED <<ai, at, tick, dsp, mix>>

\* OSResetSystem stops the worker, and then unmaps the guest's memory.
OSResetSystem ==
    /\ InCode
    /\ mixer' = [mixer EXCEPT !.stop = mixer.thread # "none"]
    /\ Goes("reset")
    /\ UNCHANGED <<ring, ai, tick, dsp, list, auxIn, auxOut, mem, read, want>>

Stopped_NotJoined == TRUE
Stopped == mixer.thread = "none"

MemoryReset ==
    /\ at = "reset" /\ Stopped
    /\ Goes("off")
    /\ UNCHANGED <<ring, ai, tick, dsp, mix>>

-----------------------------------------------------------------------------
Worker == WorkerTakes \/ WorkerMixes \/ WorkerFinishes \/ WorkerEnds

HostCode ==
    \/ ClaimBlock \/ EndTick \/ JoinMixWorker
    \/ PushAudioBlock \/ AppendBlock \/ AppendBlockFails
    \/ InvokeCallback \/ ServiceDeferredCallbacks \/ Reload
    \/ SyncPBs \/ MailSize \/ MailAddress \/ ProcessAux
    \/ MemoryReset

GuestCode ==
    \/ \E valid \in BOOLEAN : AIInitDMA(valid)
    \/ \E registered \in BOOLEAN : AIRegisterDMACallback(registered)
    \/ AIStartDMA
    \/ AXOutInitDSP \/ AddTask \/ OSStopAudioSystem
    \/ SetMixWorkerEnabled \/ ChangeVolume \/ OSResetSystem

Polls == \E d \in 0 .. MaxBacklog : Poll(d)

Plays == RendererPlays /\ UNCHANGED <<ai, at, tick, dsp, mix>>

Next ==
    /\ UNCHANGED world
    /\ \/ Worker \/ HostCode \/ GuestCode \/ Plays
       \/ Polls

\* The worker and the host go on with what they have begun, and the renderer
\* plays.  The guest is polled again and again while it renders or idles.
Fairness ==
    /\ WF_vars(Worker /\ UNCHANGED world)
    /\ WF_vars(HostCode /\ UNCHANGED world)
    /\ WF_vars(Plays /\ UNCHANGED world)
    /\ SF_vars(at = "guest" /\ Polls /\ UNCHANGED world)

Spec == Init /\ [][Next]_vars /\ Fairness

-----------------------------------------------------------------------------
(***************************************************************************)
(* Properties.                                                             *)
(***************************************************************************)

\* Nobody reads what a mix writes, or touches the parameter blocks it works on,
\* while a list is waiting for the worker or being mixed, and the guest's memory
\* is not unmapped under it (ax_dsp.h:22-26, ax_mix.cpp:956-960).
MixIsDoneWhenRead ==
    at \in {"push", "append", "invoke", "sync", "off"} =>
        ~ mixer.pending /\ mixer.thread # "mixing"

\* A list that is mixed later on the worker reads from the aux buffers what it
\* would have read at once, whatever the guest has written since
\* (ax_mix.cpp:1288-1292).
MixReadsAsIfAtOnce == read \in {NotRead, want}

\* While the AI runs, the time that has passed becomes blocks for the backend: no
\* tick ends in a way that keeps the next from starting (audio.cpp:444), and none
\* is left before its block.  A tick that waits for the mix goes on, whatever the
\* worker is at: it is told to start, stopped, switched off, or throws
\* (ax_mix.cpp:125, JoinMix).
AudioGoesOn ==
    /\ ai.enabled /\ ai.acc > 0 ~> at = "push" \/ ~ Runs \/ at = "off"
    /\ at = "join" ~> at = "push"

\* Blocks are not refused for ever because of buffers that were played long ago
\* (audio_backend.cpp:307-311).
BlocksAreAccepted ==
    []<>(at = "push" /\ backend /\ tick.dma) => []<>(rest > 0)

=============================================================================

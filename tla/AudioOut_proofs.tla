--------------------------- MODULE AudioOut_proofs ---------------------------
(***************************************************************************)
(* Proofs about the mix worker of AudioOut: nobody reads what it is still  *)
(* working on, and it mixes what the guest mailed, for any number of aux   *)
(* buffers, blocks and resume callbacks.                                   *)
(***************************************************************************)
EXTENDS AudioOut, FiniteSetTheorems, FunctionTheorems, TLAPS

MixerType ==
    [thread : {"none", "waiting", "mixing", "done"},
     pending : BOOLEAN, busy : BOOLEAN, stop : BOOLEAN, on : BOOLEAN]

DspType == [mail : {"size", "address", "task"}, resumes : Nat, ready : 0 .. 2]

\* No list is waiting for the worker or being mixed.
Quiet(m) == ~ m.pending /\ m.thread # "mixing"

\* The flags of the worker tell whether it is at work.
Flags(m) ==
    /\ m.thread = "none" => ~ m.pending
    /\ m.thread = "mixing" => m.busy

\* The guest has noted that it waits for a frame (ready = 2) only since the
\* last join: a frame takes the note back before it mails its list.
FrameIsOpen ==
    /\ dsp.ready = 2 => Quiet(mixer)
    /\ at \in {"sync", "size", "address"} => dsp.ready = 0

\* What the worker has snapshotted is what a mix at once would have read.
Promised ==
    ~ Quiet(mixer) => ReadAuxInBuffer(list, auxIn) = want

MixInv ==
    /\ mixer \in MixerType
    /\ dsp \in DspType
    /\ Flags(mixer)
    /\ FrameIsOpen
    /\ Promised
    /\ MixIsDoneWhenRead
    /\ MixReadsAsIfAtOnce

\* There is no worker at first.
LEMMA MixInit == ASSUME Init PROVE MixInv
BY DEF Init, MixInv, MixerType, DspType, Flags, Quiet, FrameIsOpen, Promised,
       MixIsDoneWhenRead, MixReadsAsIfAtOnce

\* Whoever has joined the worker finds it quiet.
LEMMA JoinedIsQuiet == ASSUME MixInv, Joined PROVE Quiet(mixer)
BY DEF MixInv, MixerType, Flags, Joined, Quiet

\* Steps that leave the worker, its list and the mail of the guest alone.
LEMMA ApartFromMix ==
    ASSUME MixInv, UNCHANGED <<mixer, list, auxIn, read, want>>,
           dsp' \in DspType, dsp'.ready # 2 \/ dsp' = dsp,
           at' \in {"push", "append", "invoke", "off"} =>
              at' = at \/ Quiet(mixer),
           at' \notin {"sync", "size", "address"} \/ (at' = at /\ dsp' = dsp)
    PROVE  MixInv'
BY DEF MixInv, Flags, Quiet, FrameIsOpen, Promised, MixIsDoneWhenRead, MixReadsAsIfAtOnce,
       ReadAuxInBuffer, MixerType, DspType

\* The worker's own steps: it takes a list, mixes it from the snapshot, ends.
LEMMA WorkerKeeps == ASSUME MixInv, Worker, UNCHANGED world PROVE MixInv'
<1> USE DEF MixInv, MixerType, DspType, Flags, FrameIsOpen, Promised, Quiet,
            MixIsDoneWhenRead, MixReadsAsIfAtOnce
<1>1. CASE WorkerTakes
  BY <1>1 DEF WorkerTakes, ReadAuxInBuffer
<1>2. CASE WorkerMixes
  BY <1>2 DEF WorkerMixes, ReadAuxInBuffer, Snapshot
<1>3. CASE WorkerFinishes
  BY <1>3 DEF WorkerFinishes, ReadAuxInBuffer
<1>4. CASE WorkerEnds
  BY <1>4 DEF WorkerEnds, ReadAuxInBuffer
<1> QED BY <1>1, <1>2, <1>3, <1>4 DEF Worker

\* A list is mailed: the worker has been joined, and takes a snapshot or leaves
\* the mix to the DSP.
LEMMA MailKeeps == ASSUME MixInv, MailAddress PROVE MixInv'
<1> USE DEF MixInv, MixerType, DspType
<1>1. Quiet(mixer) /\ dsp.ready = 0
  BY JoinedIsQuiet DEF MailAddress, FrameIsOpen
<1>2. PICK l, m :
        /\ Dispatch(l, m)
        /\ list' = l
        /\ want' = ReadAuxInBuffer(l, m[l.down])
  BY DEF MailAddress
<1>3. at' = "aux" /\ dsp' \in DspType /\ dsp'.ready = 0
  <2> DEFINE k == dsp.resumes + 1
  <2>1. at' = "aux" /\ dsp' = [dsp EXCEPT !.mail = "task", !.resumes = k]
    BY DEF MailAddress, Goes
  <2>2. k \in Nat
    OBVIOUS
  <2> HIDE DEF k
  <2> QED BY <1>1, <2>1, <2>2
<1>4. CASE /\ mixer.on
           /\ mixer' = [(IF mixer.thread = "none" THEN Started ELSE mixer) EXCEPT !.pending = TRUE]
           /\ auxIn' = m[l.down]
           /\ read' = NotRead
  <2>1. mixer' \in MixerType /\ Flags(mixer')
    BY <1>1, <1>4 DEF Started, Flags, Quiet
  <2>2. Promised'
    BY <1>2, <1>4 DEF Promised, ReadAuxInBuffer
  <2> QED BY <1>3, <1>4, <2>1, <2>2 DEF FrameIsOpen, MixIsDoneWhenRead, MixReadsAsIfAtOnce
<1>5. CASE read' = ReadAuxInBuffer(l, m[l.down]) /\ UNCHANGED mixer
  BY <1>1, <1>2, <1>3, <1>5
  DEF Flags, Quiet, FrameIsOpen, Promised, MixIsDoneWhenRead, MixReadsAsIfAtOnce
<1> QED BY <1>2, <1>4, <1>5 DEF Dispatch

\* The steps of a tick and of the guest's callback.
LEMMA HostKeeps == ASSUME MixInv, HostCode PROVE MixInv'
<1> USE DEF MixInv, Goes
<1>1. CASE ClaimBlock \/ EndTick \/ Reload \/ AppendBlock \/ AppendBlockFails \/ ProcessAux
  BY <1>1, ApartFromMix
  DEF ClaimBlock, EndTick, Reload, AppendBlock, AppendBlockFails, ProcessAux, mix,
      MixIsDoneWhenRead, Quiet
<1>2. CASE JoinMixWorker
  <2>1. Quiet(mixer)
    BY <1>2, JoinedIsQuiet DEF JoinMixWorker
  <2> QED BY <1>2, <2>1 DEF JoinMixWorker, Flags, Quiet, FrameIsOpen, Promised,
                MixIsDoneWhenRead, MixReadsAsIfAtOnce
<1>3. CASE PushAudioBlock
  BY <1>3, ApartFromMix DEF PushAudioBlock, mix, MixIsDoneWhenRead, Quiet
<1>4. CASE InvokeCallback
  <2>1. Quiet(mixer)
    BY <1>4 DEF InvokeCallback, MixIsDoneWhenRead, Quiet
  <2> QED BY <1>4, <2>1 DEF InvokeCallback, mix, DspType, Flags, Quiet, FrameIsOpen, Promised,
                MixIsDoneWhenRead, MixReadsAsIfAtOnce, ReadAuxInBuffer
<1>5. CASE ServiceDeferredCallbacks
  <2> DEFINE k == dsp.resumes - 1
  <2>0. dsp.resumes # 0 => k \in Nat
    BY DEF DspType
  <2>1. \/ at' = "reload" /\ dsp' = dsp
        \/ /\ dsp.resumes # 0 /\ dsp.ready = 2
           /\ at' = "sync" /\ dsp' = [dsp EXCEPT !.resumes = k, !.ready = 0]
        \/ /\ dsp.resumes # 0
           /\ at' = "service" /\ dsp' = [dsp EXCEPT !.resumes = k, !.ready = 1]
    BY <1>5 DEF ServiceDeferredCallbacks
  <2> HIDE DEF k
  <2>2. \A r \in 0 .. 2 :
          dsp.resumes # 0 /\ dsp' = [dsp EXCEPT !.resumes = k, !.ready = r] =>
            dsp' \in DspType /\ dsp'.ready = r
    BY <2>0 DEF DspType
  <2>3. /\ dsp' \in DspType
        /\ \/ at' = "reload" /\ dsp' = dsp
           \/ at' = "sync" /\ dsp.ready = 2 /\ dsp'.ready = 0
           \/ at' = "service" /\ dsp'.ready = 1
    BY <2>1, <2>2
  <2> QED BY <1>5, <2>3 DEF ServiceDeferredCallbacks, mix, Flags, Quiet, FrameIsOpen, Promised,
                MixIsDoneWhenRead, MixReadsAsIfAtOnce, ReadAuxInBuffer, MixerType
<1>6. CASE SyncPBs \/ MailSize
  BY <1>6 DEF SyncPBs, MailSize, mix, DspType, Flags, Quiet, FrameIsOpen, Promised,
              MixIsDoneWhenRead, MixReadsAsIfAtOnce, ReadAuxInBuffer
<1>7. CASE MailAddress
  BY <1>7, MailKeeps
<1>8. CASE MemoryReset
  BY <1>8 DEF MemoryReset, Stopped, mix, Flags, Quiet, FrameIsOpen, Promised,
              MixIsDoneWhenRead, MixReadsAsIfAtOnce, ReadAuxInBuffer
<1> QED BY <1>1, <1>2, <1>3, <1>4, <1>5, <1>6, <1>7, <1>8 DEF HostCode

\* Calls of the guest; those that restart the DSP join the worker first.
LEMMA GuestKeeps == ASSUME MixInv, GuestCode PROVE MixInv'
<1> USE DEF MixInv
<1>1. CASE (\E valid \in BOOLEAN : AIInitDMA(valid) \/ AIRegisterDMACallback(valid)) \/ AIStartDMA
            \/ ChangeVolume
  BY <1>1, ApartFromMix DEF AIInitDMA, AIStartDMA, AIRegisterDMACallback, ChangeVolume, InCode, mix
<1>2. CASE AXOutInitDSP \/ AddTask \/ OSStopAudioSystem
  <2>1. Quiet(mixer)
    BY <1>2, JoinedIsQuiet DEF AXOutInitDSP, AddTask, OSStopAudioSystem
  <2>2. /\ mixer' \in MixerType /\ dsp' \in DspType
        /\ mixer'.thread = mixer.thread /\ mixer'.pending = mixer.pending
        /\ mixer'.busy = mixer.busy
        /\ at' = at /\ at = "guest"
        /\ UNCHANGED <<read, want>>
    <3>1. CASE AXOutInitDSP
      BY <3>1 DEF AXOutInitDSP, MixerType, DspType
    <3>2. CASE AddTask
      <4> DEFINE k == dsp.resumes + 1
      <4>1. k \in Nat /\ dsp' = [dsp EXCEPT !.resumes = k] /\ UNCHANGED mixer
        BY <3>2 DEF AddTask, DspType
      <4> HIDE DEF k
      <4> QED BY <3>2, <4>1 DEF AddTask, DspType
    <3>3. CASE OSStopAudioSystem
      BY <3>3 DEF OSStopAudioSystem, DspType
    <3> QED BY <1>2, <3>1, <3>2, <3>3
  <2> QED BY <2>1, <2>2 DEF Flags, Quiet, FrameIsOpen, Promised,
                MixIsDoneWhenRead, MixReadsAsIfAtOnce
<1>3. CASE SetMixWorkerEnabled \/ OSResetSystem
  <2>1. /\ mixer' \in MixerType
        /\ mixer'.thread = mixer.thread /\ mixer'.pending = mixer.pending
        /\ mixer'.busy = mixer.busy
        /\ at' \in {"guest", "reset"}
        /\ UNCHANGED <<dsp, list, auxIn, read, want>>
    BY <1>3 DEF SetMixWorkerEnabled, OSResetSystem, Goes, MixerType
  <2> QED BY <2>1 DEF Flags, Quiet, FrameIsOpen, Promised, DspType,
                MixIsDoneWhenRead, MixReadsAsIfAtOnce, ReadAuxInBuffer
<1> QED BY <1>1, <1>2, <1>3 DEF GuestCode

\* Every step keeps the worker apart from those who read what it writes.
LEMMA MixStep == ASSUME MixInv, [Next]_vars PROVE MixInv'
<1>1. CASE UNCHANGED vars
  BY <1>1, ApartFromMix DEF vars, mix, MixInv
<1>2. CASE Polls \/ Plays
  BY <1>2, ApartFromMix DEF Polls, Poll, Plays, Goes, mix, MixInv
<1>3. CASE Worker /\ UNCHANGED world
  BY <1>3, WorkerKeeps
<1> QED BY <1>1, <1>2, <1>3, HostKeeps, GuestKeeps DEF Next

\* Nobody touches the parameter blocks or reads the aux buffers and the block
\* of samples while a list is waiting for the worker or being mixed, and the
\* guest's memory is not unmapped under it.
THEOREM MixIsJoined == Spec => []MixIsDoneWhenRead
<1>1. MixInv => MixIsDoneWhenRead
  BY DEF MixInv
<1> QED BY <1>1, MixInit, MixStep, PTL DEF Spec

\* A list that is mixed later on the worker reads from the aux buffers what it
\* would have read at once, whatever the guest has written since.
THEOREM MixReadsWhatWasMailed == Spec => []MixReadsAsIfAtOnce
<1>1. MixInv => MixReadsAsIfAtOnce
  BY DEF MixInv
<1> QED BY <1>1, MixInit, MixStep, PTL DEF Spec

-----------------------------------------------------------------------------
(* The ring of buffers. *)

\* The units of n full buffers.
Full(n) == SlotUnits * n

\* Full buffers are counted one by one, and a whole ring of them is all there is.
LEMMA FullFacts ==
    ASSUME NEW n \in Nat
    PROVE  /\ Full(n) \in Nat
           /\ Full(n + 1) = Full(n) + SlotUnits
           /\ Full(Slots) = Slots * SlotUnits
           /\ n > 0 => Full(n - 1) <= Full(n)
           /\ n >= Slots => Full(n) >= Full(Slots)
<1> USE RingConstants DEF Full
<1>1. Full(n) \in Nat
  OBVIOUS
<1>2. Full(n + 1) = Full(n) + SlotUnits
  OBVIOUS
<1>3. Full(Slots) = Slots * SlotUnits
  OBVIOUS
<1>4. n > 0 => Full(n - 1) <= Full(n)
  OBVIOUS
<1>5. ASSUME n >= Slots PROVE Full(n) >= Full(Slots)
  <2> DEFINE d == n - Slots
  <2>1. d \in Nat /\ n = Slots + d
    BY <1>5
  <2> HIDE DEF d
  <2>2. SlotUnits * (Slots + d) = SlotUnits * Slots + SlotUnits * d
    BY <2>1
  <2>3. SlotUnits * d \in Nat
    BY <2>1
  <2> QED BY <2>1, <2>2, <2>3
<1> QED BY <1>1, <1>2, <1>3, <1>4, <1>5

\* An index that wraps at most once.
Wrapped(i) == IF i < Slots THEN i ELSE i - Slots

\* Below twice the size of the ring, the remainder is at most one subtraction.
LEMMA WrapsOnce ==
    ASSUME NEW i \in Nat, i < Slots + Slots
    PROVE  i % Slots = Wrapped(i) /\ Wrapped(i) \in Slot
<1> USE RingConstants
<1>1. Slots \in Nat \ {0}
  OBVIOUS
<1>2. CASE i < Slots
  <2>1. i % Slots = i
    BY <1>1, <1>2, SMT
  <2> QED BY <1>2, <2>1 DEF Wrapped, Slot
<1>3. CASE i >= Slots
  <2>1. i % Slots = i - Slots
    BY <1>1, <1>3, SMT
  <2> QED BY <1>1, <1>3, <2>1 DEF Wrapped, Slot
<1> QED BY <1>2, <1>3

\* Fewer than a whole ring before a slot are apart, and apart from it.
LEMMA WrapsApart ==
    ASSUME NEW s \in Slot, NEW n \in 0 .. Slots, NEW i \in 1 .. n
    PROVE  /\ \A j \in 1 .. n :
                Wrapped(s + Slots + i - 1 - n) = Wrapped(s + Slots + j - 1 - n) => i = j
           /\ n < Slots => Wrapped(s + Slots + i - 1 - n) # s
BY RingConstants DEF Wrapped, Slot

\* When the next slot is being filled, the places before it are the same, and the
\* slot itself is the last of them.
LEMMA WrapsNext ==
    ASSUME NEW s \in Slot, NEW n \in Nat, n < Slots
    PROVE  /\ \A i \in 1 .. n :
                Wrapped(s + Slots + i - 1 - n) = Wrapped(Wrapped(s + 1) + Slots + i - 1 - (n + 1))
           /\ Wrapped(Wrapped(s + 1) + Slots + (n + 1) - 1 - (n + 1)) = s
<1>1. CASE s + 1 < Slots
  <2>1. Wrapped(s + 1) = s + 1
    BY <1>1 DEF Wrapped
  <2> QED BY <1>1, <2>1, RingConstants DEF Wrapped, Slot
<1>2. CASE s + 1 = Slots
  <2>1. Wrapped(s + 1) = 0
    BY <1>2, RingConstants DEF Wrapped
  <2> QED BY <1>2, <2>1, RingConstants DEF Wrapped, Slot
<1> QED BY <1>1, <1>2, RingConstants DEF Slot

\* The slots of n buffers submitted before slot s, in the order of the ring.
Order(p, s) ==
    \A i \in 1 .. Len(p) : p[i] = Wrapped(s + Slots + i - 1 - Len(p))

\* The order of the ring, without the remainder.
LEMMA OrderIsOrder ==
    ASSUME slot \in Slot, playing \in Seq(Slot), Len(playing) <= Slots
    PROVE  PlaysInOrder <=> Order(playing, slot)
<1> USE RingConstants
<1>1. ASSUME NEW i \in 1 .. Len(playing)
      PROVE  (slot + Slots + i - 1 - Len(playing)) % Slots
                = Wrapped(slot + Slots + i - 1 - Len(playing))
  <2> DEFINE j == slot + Slots + i - 1 - Len(playing)
  <2>1. j \in Nat /\ j < Slots + Slots
    <3> DEFINE n == Len(playing)
    <3>1. n \in Nat /\ n <= Slots /\ i \in 1 .. n /\ slot \in Nat /\ slot < Slots
      BY DEF Slot
    <3>2. Slots \in Nat
      OBVIOUS
    <3> HIDE DEF n
    <3> QED BY <3>1, <3>2
  <2> HIDE DEF j
  <2>2. j % Slots = Wrapped(j)
    BY <2>1, WrapsOnce
  <2> QED BY <2>2 DEF j
<1> QED BY <1>1 DEF PlaysInOrder, Order

\* The ring is in bounds and in order, what the renderer has is queued, and what
\* is left of a block fits into the buffers the renderer does not have.
RingInv ==
    /\ RingTypeOK
    /\ Len(playing) <= Slots
    /\ Order(playing, slot)
    /\ \A s \in Submitted : wave[s] = "queued"
    /\ rest > 0 => fill + Full(Len(playing)) + rest <= Full(Slots)
    /\ fill > 0 => Len(playing) < Slots

\* The renderer has no slot twice, and not the one that is being filled.
LEMMA SlotsApart ==
    ASSUME RingInv
    PROVE  /\ \A i, j \in 1 .. Len(playing) : playing[i] = playing[j] => i = j
           /\ Len(playing) < Slots => slot \notin Submitted
<1> DEFINE n == Len(playing)
<1>0. n \in 0 .. Slots /\ slot \in Slot
  BY RingConstants DEF RingInv, RingTypeOK
<1>1. \A i \in 1 .. n : playing[i] = Wrapped(slot + Slots + i - 1 - n)
  BY DEF RingInv, Order
<1> HIDE DEF n
<1>2. \A i, j \in 1 .. n : playing[i] = playing[j] => i = j
  BY <1>0, <1>1, WrapsApart
<1>3. n < Slots => \A i \in 1 .. n : playing[i] # slot
  BY <1>0, <1>1, WrapsApart
<1> QED BY <1>2, <1>3 DEF Submitted, n

\* A block that still has a rest leaves the renderer short of a whole ring.
LEMMA RestFits == ASSUME RingInv, rest > 0 \/ fill > 0 PROVE Len(playing) < Slots
<1>1. Len(playing) \in Nat
  BY DEF RingInv, RingTypeOK
<1>2. CASE rest > 0
  <2>1. fill \in Nat /\ rest \in Nat /\ Slots \in Nat
    BY RingConstants DEF RingInv, RingTypeOK
  <2>2. Len(playing) >= Slots => Full(Len(playing)) >= Full(Slots)
    BY <1>1, FullFacts
  <2>3. Full(Len(playing)) \in Nat /\ Full(Slots) \in Nat
    BY <1>1, <2>1, FullFacts
  <2> QED BY <1>1, <1>2, <2>1, <2>2, <2>3 DEF RingInv
<1> QED BY <1>2 DEF RingInv

\* The invariant is more than the property.
LEMMA RingImplies == RingInv => BlocksStayWhole
BY RestFits, SlotsApart, OrderIsOrder DEF RingInv, RingTypeOK, BlocksStayWhole, FillsOwnBuffer

\* The buffers in flight, as the states are read back, are those the renderer has.
LEMMA InFlightNow ==
    ASSUME RingInv
    PROVE  InFlight(Update) = Submitted /\ Cardinality(Submitted) = Len(playing)
<1> DEFINE n == Len(playing)
           F == [i \in 1 .. n |-> playing[i]]
<1>0. n \in Nat /\ playing \in [1 .. n -> Slot]
  BY DEF RingInv, RingTypeOK
<1>1. InFlight(Update) = Submitted
  BY <1>0 DEF InFlight, Update, Submitted, RingInv, RingTypeOK
<1>2. F \in Bijection(1 .. n, Submitted)
  <2>1. F \in [1 .. n -> Submitted]
    BY DEF Submitted
  <2>2. \A i, j \in 1 .. n : F[i] = F[j] => i = j
    BY SlotsApart
  <2>3. \A s \in Submitted : \E i \in 1 .. n : F[i] = s
    BY DEF Submitted
  <2> HIDE DEF F, n
  <2> QED BY <2>1, <2>2, <2>3, Fun_IsBij
<1>3. ExistsBijection(1 .. n, Submitted)
  BY <1>2 DEF ExistsBijection
<1>4. IsFiniteSet(1 .. n) /\ Cardinality(1 .. n) = n
  <2> HIDE DEF n, F
  <2>1. n \in Int /\ 1 \in Int /\ n = n - 1 + 1 /\ (1 > n => n = 0)
    BY <1>0
  <2> QED BY <2>1, FS_Interval
<1> QED BY <1>1, <1>3, <1>4, FS_Bijection

\* There is no buffer with the renderer.
LEMMA RingInvInit == ASSUME RingInit PROVE RingInv
<1> USE RingConstants DEF RingInit
<1>1. RingTypeOK
  <2>1. 0 \in Slot /\ 0 \in 0 .. SlotUnits /\ 0 \in 0 .. BlockUnits
    BY DEF Slot
  <2>2. wave \in [Slot -> {"free", "queued", "done"}]
    OBVIOUS
  <2>3. playing \in Seq(Slot)
    OBVIOUS
  <2> QED BY <2>1, <2>2, <2>3 DEF RingTypeOK
<1>2. Len(playing) = 0
  OBVIOUS
<1> QED BY <1>1, <1>2 DEF RingInv, Order, Submitted

\* Reading the states back never frees a buffer that the renderer has.
LEMMA UpdateKeeps ==
    ASSUME RingInv
    PROVE  /\ Update \in [Slot -> {"free", "queued", "done"}]
           /\ \A s \in Submitted : Update[s] = "queued"
<1>1. Submitted \subseteq Slot
  BY DEF RingInv, RingTypeOK, Submitted
<1> QED BY <1>1 DEF RingInv, RingTypeOK, Update

\* A block is admitted when it fits, with what is in flight, into the ring.
LEMMA PushKeeps == ASSUME RingInv, PushSamples PROVE RingInv'
<1> DEFINE n == Len(playing)
<1>0. /\ wave' = Update /\ UNCHANGED <<backend, slot, fill, playing>>
      /\ rest' = IF QueuedUnits(Update) + BlockUnits > Limit THEN 0 ELSE BlockUnits
  BY DEF PushSamples, Counted
<1>1. QueuedUnits(Update) = fill + Full(n) /\ n \in Nat /\ fill \in Nat
  BY InFlightNow DEF QueuedUnits, Full, RingInv, RingTypeOK
<1>2. Full(n) \in Nat /\ Limit <= Full(Slots) /\ Full(Slots) \in Nat
  BY <1>1, FullFacts, RingConstants
<1>3. rest' \in 0 .. BlockUnits
  BY <1>0, RingConstants
<1>4. rest' > 0 => fill + Full(n) + rest' <= Full(Slots)
  <2>1. {Limit, BlockUnits} \subseteq Nat
    BY RingConstants
  <2> QED BY <1>0, <1>1, <1>2, <2>1
<1>5. RingTypeOK'
  BY <1>0, <1>3, UpdateKeeps DEF RingInv, RingTypeOK
<1>6. Submitted' = Submitted
  BY <1>0 DEF Submitted
<1> QED BY <1>0, <1>4, <1>5, <1>6, UpdateKeeps DEF RingInv

\* A part of a block is copied; a full buffer goes to the renderer.
LEMMA AppendKeeps == ASSUME RingInv, AppendSamples PROVE RingInv'
<1> DEFINE n == Len(playing)
           wv == IF wave[slot] = "queued" THEN Update ELSE wave
<1>0. /\ n \in Nat /\ n < Slots /\ slot \in Slot /\ slot \notin Submitted
      /\ fill \in 0 .. SlotUnits /\ rest \in 0 .. BlockUnits /\ rest > 0
      /\ {Slots, SlotUnits, BlockUnits} \subseteq Nat \ {0}
      /\ playing \in Seq(Slot)
  BY RestFits, SlotsApart, RingConstants DEF RingInv, RingTypeOK, AppendSamples
<1>1. wv \in [Slot -> {"free", "queued", "done"}] /\ \A s \in Submitted : wv[s] = "queued"
  BY UpdateKeeps DEF RingInv, RingTypeOK
<1>2. /\ Full(n) \in Nat /\ Full(n + 1) = Full(n) + SlotUnits /\ Full(Slots) \in Nat
      /\ fill + Full(n) + rest <= Full(Slots)
  BY <1>0, FullFacts DEF RingInv
<1>3. Copied \in Nat /\ Copied <= rest /\ fill + Copied <= SlotUnits
  BY <1>0 DEF Copied, Room
<1>4. CASE rest' = 0 /\ wave' = wv /\ UNCHANGED <<backend, slot, fill, playing>>
  <2>1. RingTypeOK'
    BY <1>0, <1>1, <1>4 DEF RingInv, RingTypeOK
  <2>2. Submitted' = Submitted
    BY <1>4 DEF Submitted
  <2> HIDE DEF wv
  <2> QED BY <1>1, <1>4, <2>1, <2>2 DEF RingInv
<1>5. CASE /\ rest' = rest - Copied /\ fill + Copied < SlotUnits
           /\ fill' = fill + Copied /\ wave' = wv /\ UNCHANGED <<backend, slot, playing>>
  <2>1. rest' \in 0 .. BlockUnits /\ fill' \in 0 .. SlotUnits /\ fill' + rest' = fill + rest
    BY <1>0, <1>3, <1>5
  <2>2. RingTypeOK'
    BY <1>1, <1>5, <2>1 DEF RingInv, RingTypeOK
  <2>3. Submitted' = Submitted
    BY <1>5 DEF Submitted
  <2>4. fill' + Full(n) + rest' <= Full(Slots)
    <3>1. {fill, rest, fill', rest'} \subseteq Nat
      BY <1>0, <2>1
    <3> HIDE DEF n
    <3> QED BY <1>2, <2>1, <3>1
  <2> HIDE DEF wv
  <2> QED BY <1>0, <1>1, <1>5, <2>2, <2>3, <2>4 DEF RingInv
<1>6. CASE /\ rest' = rest - Copied /\ fill + Copied >= SlotUnits
           /\ playing' = Append(playing, slot) /\ wave' = [Update EXCEPT ![slot] = "queued"]
           /\ slot' = (slot + 1) % Slots /\ fill' = 0 /\ UNCHANGED backend
  <2>1. /\ slot' = Wrapped(slot + 1) /\ slot' \in Slot
    <3>1. slot + 1 \in Nat /\ slot + 1 < Slots + Slots
      BY <1>0 DEF Slot
    <3> QED BY <1>6, <3>1, WrapsOnce
  <2>2. rest' \in 0 .. BlockUnits /\ fill + Copied = SlotUnits
    <3>1. fill + Copied = SlotUnits
      BY <1>0, <1>3, <1>6
    <3>2. rest - Copied \in 0 .. BlockUnits
      BY <1>0, <1>3
    <3> QED BY <1>6, <3>1, <3>2
  <2>3. wave' \in [Slot -> {"free", "queued", "done"}]
    BY <1>6, UpdateKeeps
  <2>4. playing' \in Seq(Slot) /\ Len(playing') = n + 1
    BY <1>0, <1>6
  <2>5. RingTypeOK'
    BY <1>0, <1>6, <2>1, <2>2, <2>3, <2>4 DEF RingInv, RingTypeOK
  <2>6. Len(playing') <= Slots
    BY <1>0, <2>4
  <2>7. \A i \in 1 .. n : playing'[i] = playing[i]
    BY <1>0, <1>6
  <2>8. playing'[n + 1] = slot
    BY <1>0, <1>6
  <2>9. \A s \in Submitted' : wave'[s] = "queued"
    <3>1. Submitted' \subseteq Submitted \cup {slot}
      BY <1>0, <2>4, <2>7, <2>8 DEF Submitted
    <3>2. Submitted \subseteq Slot
      BY <1>0 DEF Submitted
    <3> QED BY <1>0, <1>6, <3>1, <3>2, UpdateKeeps
  <2>10. Order(playing', slot')
    <3>1. ASSUME NEW i \in 1 .. n
          PROVE  Wrapped(slot + Slots + i - 1 - n) = Wrapped(slot' + Slots + i - 1 - (n + 1))
      <4> HIDE DEF n
      <4> QED BY <1>0, <2>1, <3>1, WrapsNext
    <3>2. slot = Wrapped(slot' + Slots + (n + 1) - 1 - (n + 1))
      <4> HIDE DEF n
      <4> QED BY <1>0, <2>1, WrapsNext
    <3>3. \A i \in 1 .. n : playing[i] = Wrapped(slot + Slots + i - 1 - n)
      BY DEF RingInv, Order
    <3>4. ASSUME NEW i \in 1 .. n + 1
          PROVE  playing'[i] = Wrapped(slot' + Slots + i - 1 - (n + 1))
      <4>1. CASE i = n + 1
        BY <2>8, <3>2, <4>1
      <4>2. CASE i \in 1 .. n
        BY <2>7, <3>1, <3>3, <4>2
      <4> QED BY <1>0, <4>1, <4>2
    <3> QED BY <2>4, <3>4 DEF Order
  <2>11. rest' > 0 => fill' + Full(n + 1) + rest' <= Full(Slots)
    <3>1. rest \in Nat /\ fill \in Nat /\ Copied \in Nat /\ SlotUnits \in Nat
            /\ Full(n) \in Nat /\ Full(Slots) \in Nat
      BY <1>0, <1>2, <1>3
    <3>2. rest' = rest - Copied /\ fill' = 0 /\ fill + Copied >= SlotUnits
      BY <1>6
    <3>3. Full(n + 1) = Full(n) + SlotUnits
      BY <1>2
    <3>4. rest > 0 => fill + Full(n) + rest <= Full(Slots)
      BY <1>2
    <3> HIDE DEF n
    <3> QED BY <3>1, <3>2, <3>3, <3>4
  <2> QED BY <1>6, <2>4, <2>5, <2>6, <2>9, <2>10, <2>11 DEF RingInv
<1>7. \/ rest' = 0 /\ wave' = wv /\ UNCHANGED <<backend, slot, fill, playing>>
      \/ /\ rest' = rest - Copied /\ fill + Copied < SlotUnits
         /\ fill' = fill + Copied /\ wave' = wv /\ UNCHANGED <<backend, slot, playing>>
      \/ /\ rest' = rest - Copied /\ fill + Copied >= SlotUnits
         /\ playing' = Append(playing, slot) /\ wave' = [Update EXCEPT ![slot] = "queued"]
         /\ slot' = (slot + 1) % Slots /\ fill' = 0 /\ UNCHANGED backend
  <2>1. ~(fill + Copied < SlotUnits) => fill + Copied >= SlotUnits
    BY <1>0, <1>3
  <2> QED BY <2>1 DEF AppendSamples
<1> QED BY <1>4, <1>5, <1>6, <1>7

\* The renderer plays its first buffer to the end.
LEMMA PlayKeeps == ASSUME RingInv, RendererPlays PROVE RingInv'
<1> DEFINE n == Len(playing)
<1>0. /\ n \in Nat \ {0} /\ n <= Slots /\ playing \in Seq(Slot) /\ slot \in Slot
      /\ Slots \in Nat
      /\ playing' = Tail(playing) /\ UNCHANGED <<backend, slot, fill, wave, rest>>
  BY RingConstants DEF RingInv, RingTypeOK, RendererPlays
<1>1. /\ playing' \in Seq(Slot) /\ Len(playing') = n - 1
      /\ \A i \in 1 .. n - 1 : playing'[i] = playing[i + 1]
  BY <1>0
<1>2. RingTypeOK'
  BY <1>0, <1>1 DEF RingInv, RingTypeOK
<1>3. Submitted' \subseteq Submitted
  BY <1>0, <1>1 DEF Submitted
<1>4. Order(playing', slot')
  <2>1. \A i \in 1 .. n : playing[i] = Wrapped(slot + Slots + i - 1 - n)
    BY DEF RingInv, Order
  <2>2. ASSUME NEW i \in 1 .. n - 1
        PROVE  playing'[i] = Wrapped(slot + Slots + i - 1 - (n - 1))
    <3>1. i + 1 \in 1 .. n
      BY <1>0
    <3>2. slot + Slots + (i + 1) - 1 - n = slot + Slots + i - 1 - (n - 1)
      <4> HIDE DEF n
      <4> QED BY <1>0 DEF Slot
    <3> QED BY <1>1, <2>1, <3>1, <3>2
  <2> QED BY <1>0, <1>1, <2>2 DEF Order
<1>5. rest > 0 => fill + Full(n - 1) + rest <= Full(Slots)
  <2>1. Full(n - 1) <= Full(n) /\ Full(n) \in Nat /\ Full(n - 1) \in Nat /\ Full(Slots) \in Nat
    BY <1>0, FullFacts
  <2>2. rest > 0 => fill + Full(n) + rest <= Full(Slots)
    BY DEF RingInv
  <2>3. fill \in Nat /\ rest \in Nat
    BY RingConstants DEF RingInv, RingTypeOK
  <2> QED BY <2>1, <2>2, <2>3
<1> QED BY <1>0, <1>1, <1>2, <1>3, <1>4, <1>5 DEF RingInv

\* Every call on the ring keeps it.
LEMMA RingStep ==
    ASSUME RingInv,
           \/ UNCHANGED ring \/ EnsureInitialized("renderer" \in world)
           \/ RendererPlays \/ PushSamples \/ AppendSamples \/ AppendFails \/ SetMuted
    PROVE  RingInv'
<1>1. CASE UNCHANGED ring \/ EnsureInitialized("renderer" \in world)
  <2>1. UNCHANGED <<slot, fill, wave, playing, rest>>
    BY <1>1 DEF ring, EnsureInitialized
  <2>2. Submitted' = Submitted
    BY <2>1 DEF Submitted
  <2>3. \A b : EnsureInitialized(b) => backend' = backend \/ backend' = b
    BY DEF EnsureInitialized
  <2>4. ("renderer" \in world) \in BOOLEAN
    OBVIOUS
  <2>5. backend' = backend \/ backend' \in BOOLEAN
    <3>1. CASE UNCHANGED ring
      BY <3>1 DEF ring
    <3>2. CASE EnsureInitialized("renderer" \in world)
      BY <2>3, <2>4, <3>2, Zenon
    <3> QED BY <1>1, <3>1, <3>2
  <2>6. RingTypeOK'
    BY <2>1, <2>5 DEF RingInv, RingTypeOK
  <2> QED BY <2>1, <2>2, <2>6 DEF RingInv
<1>2. CASE AppendFails
  <2>1. Len(playing) < Slots
    BY <1>2, RestFits DEF AppendFails
  <2>2. /\ UNCHANGED <<backend, slot, wave, playing>> /\ fill' = SlotUnits /\ rest' = 0
    BY <1>2 DEF AppendFails
  <2>3. Submitted' = Submitted
    BY <2>2 DEF Submitted
  <2>4. RingTypeOK'
    BY <2>2, RingConstants DEF RingInv, RingTypeOK
  <2> QED BY <2>1, <2>2, <2>3, <2>4 DEF RingInv
<1>3. CASE SetMuted
  <2>1. wave' = Update /\ UNCHANGED <<backend, slot, fill, playing, rest>>
    BY <1>3 DEF SetMuted
  <2>2. Submitted' = Submitted
    BY <2>1 DEF Submitted
  <2> QED BY <2>1, <2>2, UpdateKeeps DEF RingInv, RingTypeOK
<1> QED BY <1>1, <1>2, <1>3, PlayKeeps, PushKeeps, AppendKeeps

\* A tick, a volume change or the renderer makes one call on the ring, or none.
LEMMA RingCalls ==
    ASSUME [Next]_vars
    PROVE  \/ UNCHANGED ring \/ EnsureInitialized("renderer" \in world)
           \/ RendererPlays \/ PushSamples \/ AppendSamples \/ AppendFails \/ SetMuted
<1>1. CASE Worker
  BY <1>1 DEF Worker, WorkerTakes, WorkerMixes, WorkerFinishes, WorkerEnds
<1>2. ASSUME HostCode
      PROVE  \/ UNCHANGED ring \/ EnsureInitialized("renderer" \in world)
             \/ PushSamples \/ AppendSamples \/ AppendFails
  BY <1>2 DEF HostCode, ClaimBlock, EndTick, JoinMixWorker, PushAudioBlock, AppendBlock,
     AppendBlockFails, InvokeCallback, ServiceDeferredCallbacks, Reload, SyncPBs, MailSize,
     MailAddress, ProcessAux, MemoryReset
<1>3. ASSUME GuestCode
      PROVE  UNCHANGED ring \/ EnsureInitialized("renderer" \in world) \/ SetMuted
  BY <1>3 DEF GuestCode, AIInitDMA, AIStartDMA, AIRegisterDMACallback, AXOutInitDSP, AddTask,
     OSStopAudioSystem, SetMixWorkerEnabled, ChangeVolume, OSResetSystem
<1>4. CASE Polls \/ Plays \/ UNCHANGED vars
  BY <1>4 DEF Polls, Poll, Plays, vars
<1> QED BY <1>1, <1>2, <1>3, <1>4 DEF Next

\* A block for which there was room reaches the renderer whole and in order: the
\* buffer that is being filled is never one that the renderer still has.
THEOREM BlocksArriveWhole == Spec => []BlocksStayWhole
<1>1. Init => RingInv
  BY RingInvInit DEF Init
<1>2. RingInv /\ [Next]_vars => RingInv'
  BY RingCalls, RingStep
<1> QED BY <1>1, <1>2, RingImplies, PTL DEF Spec

-----------------------------------------------------------------------------
(* Types. *)

AiType == [enabled : BOOLEAN, dma : BOOLEAN, callback : BOOLEAN,
           acc : 0 .. MaxBacklog, active : BOOLEAN]
TickType == [dma : BOOLEAN, callback : BOOLEAN, blocks : 0 .. MaxTick]
ResumeType == [mail : {"size", "address", "task"}, resumes : 0 .. MaxResumes, ready : 0 .. 2]
ListType == [up : Uploads, down : Buffers]

\* What the worker, the DSP and the guest leave in the aux buffers.
AuxTyped ==
    /\ mixer \in MixerType
    /\ list \in ListType
    /\ auxOut \in SUBSET Uploads
    /\ mem \in [Buffers -> Aux]
    /\ auxIn \in Aux \cup {NotRead} /\ read \in Aux \cup {NotRead}
    /\ want \in Aux \cup {NotRead}

\* A block is claimed below the limit of a tick, and counted when the callback has
\* returned; it is being handled at every stage in between.
Handling == {"join", "push", "append", "invoke", "sync", "size", "address", "aux",
             "service", "reload"}
TickTyped ==
    /\ world \in Worlds
    /\ ai \in AiType
    /\ at \in Stages
    /\ tick \in TickType
    /\ dsp \in ResumeType
    /\ at \in Handling => tick.blocks < MaxTick

AudioTyped == RingInv /\ AuxTyped /\ TickTyped

\* The parts are the type invariant.
LEMMA AudioTypedImplies == AudioTyped => TypeOK
BY DEF AudioTyped, RingInv, AuxTyped, TickTyped, TypeOK, AiType, TickType, ResumeType,
       ListType, MixerType

\* The aux buffers are those of an earlier list.
LEMMA AudioTypedInit == ASSUME Init PROVE AudioTyped
<1> USE AudioConstants
<1>1. RingInv
  BY RingInvInit DEF Init
<1>2. AuxTyped
  BY DEF Init, AuxTyped, MixerType, ListType, Aux
<1>3. TickTyped
  <2>1. 0 \in 0 .. MaxBacklog /\ 0 \in 0 .. MaxTick /\ 0 \in 0 .. MaxResumes
    OBVIOUS
  <2> QED BY <2>1 DEF Init, TickTyped, AiType, TickType, ResumeType, Stages, Handling
<1> QED BY <1>1, <1>2, <1>3 DEF AudioTyped

\* Contents of aux buffers stay contents of aux buffers.
LEMMA AuxContents ==
    ASSUME AuxTyped
    PROVE  /\ Upload \in Aux
           /\ Published \in [Buffers -> Aux]
           /\ \A m \in [Buffers -> Aux] : Aged(m) \in [Buffers -> Aux]
           /\ \A l \in ListType, a \in Aux \cup {NotRead} :
                ReadAuxInBuffer(l, a) \in {Upload, a}
<1>1. Upload \in Aux
  BY DEF Upload, Aux
<1>2. Published \in [Buffers -> Aux]
  BY <1>1 DEF Published, AuxTyped
<1>3. ASSUME NEW m \in [Buffers -> Aux] PROVE Aged(m) \in [Buffers -> Aux]
  <2>1. ASSUME NEW b \in Buffers PROVE [m[b] EXCEPT !.old = TRUE] \in Aux
    BY DEF Aux
  <2> QED BY <2>1 DEF Aged
<1> QED BY <1>1, <1>2, <1>3 DEF ReadAuxInBuffer

\* A list is mailed.
LEMMA AuxMailed == ASSUME AuxTyped, MailAddress PROVE AuxTyped'
<1> USE AudioConstants
<1> DEFINE m == Aged(Published)
<1>1. m \in [Buffers -> Aux] /\ Upload \in Aux
  BY AuxContents
<1>2. PICK b \in Uploads : \E c \in Buffers :
         LET l == [up |-> b, down |-> c]
         IN  list' = l /\ Dispatch(l, m) /\ want' = ReadAuxInBuffer(l, m[c])
  BY DEF MailAddress
<1>3. PICK c \in Buffers :
         LET l == [up |-> b, down |-> c]
         IN  list' = l /\ Dispatch(l, m) /\ want' = ReadAuxInBuffer(l, m[c])
  BY <1>2
<1> DEFINE l == [up |-> b, down |-> c]
<1>4. l \in ListType /\ l.up = b /\ l.down = c /\ list' = l
  BY <1>3 DEF ListType
<1>5. Dispatch(l, m) /\ want' = ReadAuxInBuffer(l, m[l.down])
  BY <1>3, <1>4
<1> HIDE DEF l, m
<1>6. want' \in Aux \cup {NotRead} /\ ReadAuxInBuffer(l, m[l.down]) \in Aux
  BY <1>1, <1>4, <1>5, AuxContents
<1>7. mixer' \in MixerType /\ mem' \in [Buffers -> Aux]
      /\ auxIn' \in Aux \cup {NotRead} /\ read' \in Aux \cup {NotRead}
  <2>1. CASE /\ mixer' = [(IF mixer.thread = "none" THEN Started ELSE mixer) EXCEPT !.pending = TRUE]
             /\ auxIn' = m[l.down] /\ mem' = m /\ read' = NotRead
    BY <1>1, <1>4, <2>1 DEF Started, MixerType, AuxTyped
  <2>2. CASE /\ mem' = [m EXCEPT ![l.up] = Upload] /\ read' = ReadAuxInBuffer(l, m[l.down])
             /\ auxIn' = NotRead /\ UNCHANGED mixer
    BY <1>1, <1>4, <1>6, <2>2 DEF AuxTyped
  <2> QED BY <1>5, <2>1, <2>2 DEF Dispatch
<1>8. auxOut' = {}
  BY DEF MailAddress
<1> QED BY <1>4, <1>6, <1>7, <1>8 DEF AuxTyped

\* Worker, tick and guest keep the types of what they share.
LEMMA AuxStep == ASSUME AuxTyped, [Next]_vars PROVE AuxTyped'
<1> USE AudioConstants
<1>1. CASE Worker
  <2>1. /\ UNCHANGED <<list, auxIn, mem, want>> /\ mixer' \in MixerType
        /\ auxOut' \in {auxOut, {}, {list.up}}
        /\ read' \in {read, ReadAuxInBuffer(list, auxIn)}
    BY <1>1 DEF Worker, WorkerTakes, WorkerMixes, WorkerFinishes, WorkerEnds, Snapshot, AuxTyped,
       MixerType
  <2>2. ReadAuxInBuffer(list, auxIn) \in Aux \cup {NotRead} /\ list.up \in Uploads
    BY AuxContents DEF AuxTyped, ListType
  <2> QED BY <2>1, <2>2 DEF AuxTyped
<1>2. CASE MailAddress
  BY <1>2, AuxMailed
<1>3. CASE JoinMixWorker \/ AXOutInitDSP \/ AddTask \/ OSStopAudioSystem
  <2>1. /\ mem' = Published /\ auxOut' = {} /\ mixer' \in MixerType
        /\ UNCHANGED list /\ auxIn' \in {auxIn, NotRead}
        /\ read' \in {read, NotRead} /\ want' \in {want, NotRead}
    BY <1>3 DEF JoinMixWorker, AXOutInitDSP, AddTask, OSStopAudioSystem, PublishAuxOutputs,
       AuxTyped, MixerType
  <2> QED BY <2>1, AuxContents DEF AuxTyped
<1>4. CASE ProcessAux
  <2>1. PICK S : mem' = [b \in Buffers |-> IF b \in S THEN [mem[b] EXCEPT !.wet = TRUE] ELSE mem[b]]
    BY <1>4 DEF ProcessAux
  <2>2. ASSUME NEW b \in Buffers
        PROVE  mem[b] \in Aux /\ [mem[b] EXCEPT !.wet = TRUE] \in Aux
    BY DEF AuxTyped, Aux
  <2>3. mem' \in [Buffers -> Aux]
    BY <2>1, <2>2
  <2> QED BY <1>4, <2>3 DEF ProcessAux, AuxTyped
<1>5. CASE SetMixWorkerEnabled \/ OSResetSystem
  BY <1>5 DEF SetMixWorkerEnabled, OSResetSystem, AuxTyped, MixerType
<1>6. CASE UNCHANGED mix
  BY <1>6 DEF mix, AuxTyped
<1>7. \/ Worker \/ MailAddress \/ ProcessAux \/ SetMixWorkerEnabled \/ OSResetSystem
      \/ JoinMixWorker \/ AXOutInitDSP \/ AddTask \/ OSStopAudioSystem
      \/ UNCHANGED mix
  <2>1. ASSUME HostCode PROVE MailAddress \/ ProcessAux \/ JoinMixWorker \/ UNCHANGED mix
    BY <2>1 DEF HostCode, ClaimBlock, EndTick, PushAudioBlock, AppendBlock, AppendBlockFails,
       InvokeCallback, ServiceDeferredCallbacks, Reload, SyncPBs, MailSize, MemoryReset
  <2>2. ASSUME GuestCode
        PROVE  \/ SetMixWorkerEnabled \/ OSResetSystem
               \/ AXOutInitDSP \/ AddTask \/ OSStopAudioSystem \/ UNCHANGED mix
    BY <2>2 DEF GuestCode, AIInitDMA, AIStartDMA, AIRegisterDMACallback, ChangeVolume
  <2>3. Polls \/ Plays \/ UNCHANGED vars => UNCHANGED mix
    BY DEF Polls, Poll, Plays, vars
  <2> QED BY <2>1, <2>2, <2>3 DEF Next
<1> QED BY <1>1, <1>2, <1>3, <1>4, <1>5, <1>6, <1>7

\* The steps of a tick count its blocks, and keep to their limits.
LEMMA TickStep == ASSUME TickTyped, AuxTyped, [Next]_vars PROVE TickTyped'
<1> USE AudioConstants DEF Goes
<1>0. /\ ai \in AiType /\ at \in Stages /\ tick \in TickType /\ dsp \in ResumeType
      /\ {MaxBacklog, MaxTick, MaxResumes} \subseteq Nat \ {0}
  BY DEF TickTyped
<1>1. world' = world
  BY DEF Next, vars
<1>2. CASE Worker \/ Plays \/ UNCHANGED vars
  <2>1. UNCHANGED <<ai, at, tick, dsp>>
    BY <1>2 DEF Worker, WorkerTakes, WorkerMixes, WorkerFinishes, WorkerEnds, Plays, vars
  <2> QED BY <1>1, <2>1 DEF TickTyped
<1>3. ASSUME NEW d \in 0 .. MaxBacklog, Poll(d) PROVE TickTyped'
  <2>1. Elapsed(d) \in 0 .. MaxBacklog
    BY <1>0 DEF Elapsed, AiType
  <2>2. ai' \in AiType
    BY <1>0, <1>3, <2>1 DEF Poll, AiType
  <2>3. \/ UNCHANGED <<at, tick>>
        \/ at' = "claim" /\ tick' = [dma |-> ai.dma, callback |-> ai.callback, blocks |-> 0]
    BY <1>3 DEF Poll
  <2>4. dsp' = dsp
    BY <1>3 DEF Poll
  <2>5. tick' \in TickType
    BY <1>0, <2>3 DEF TickType, AiType
  <2> QED BY <1>1, <2>2, <2>3, <2>4, <2>5 DEF TickTyped, Stages, Handling
<1>4. CASE ClaimBlock
  <2> DEFINE k == ai.acc - 1
  <2>1. k \in 0 .. MaxBacklog /\ tick.blocks < MaxTick
    BY <1>0, <1>4 DEF ClaimBlock, AiType, TickType
  <2>2. ai' = [ai EXCEPT !.acc = k]
    BY <1>4 DEF ClaimBlock
  <2> HIDE DEF k
  <2>3. ai' \in AiType
    BY <1>0, <2>1, <2>2 DEF AiType
  <2> QED BY <1>0, <1>1, <1>4, <2>1, <2>3 DEF ClaimBlock, TickTyped, Stages
<1>5. CASE EndTick
  BY <1>0, <1>1, <1>5 DEF EndTick, TickTyped, AiType, Stages, Handling
<1>6. CASE JoinMixWorker \/ AppendBlock \/ SyncPBs
  BY <1>1, <1>6 DEF JoinMixWorker, AppendBlock, SyncPBs, TickTyped, Stages, Handling
<1>7. CASE PushAudioBlock \/ AppendBlockFails
  <2>1. ai' \in AiType /\ at' \in {"push", "append", "invoke", "guest"} /\ UNCHANGED <<tick, dsp>>
        /\ at \in {"push", "append"}
    BY <1>0, <1>7 DEF PushAudioBlock, AppendBlockFails, ActiveTickReset, AiType
  <2> QED BY <1>1, <2>1 DEF TickTyped, Stages, Handling
<1>8. CASE InvokeCallback \/ MailSize
  <2>1. dsp' \in ResumeType /\ at' \in {"reload", "aux", "sync", "service", "address"}
        /\ UNCHANGED <<ai, tick>> /\ at \in {"invoke", "size"}
    BY <1>0, <1>8 DEF InvokeCallback, MailSize, ResumeType
  <2> QED BY <1>1, <2>1 DEF TickTyped, Stages, Handling
<1>9. CASE ServiceDeferredCallbacks
  <2> DEFINE k == dsp.resumes - 1
  <2>1. dsp.resumes # 0 => k \in 0 .. MaxResumes
    BY <1>0 DEF ResumeType
  <2>2. \/ dsp' = dsp
        \/ dsp.resumes # 0 /\ dsp' = [dsp EXCEPT !.resumes = k, !.ready = 0]
        \/ dsp.resumes # 0 /\ dsp' = [dsp EXCEPT !.resumes = k, !.ready = 1]
    BY <1>9 DEF ServiceDeferredCallbacks
  <2> HIDE DEF k
  <2>3. ASSUME dsp.resumes # 0, NEW r \in 0 .. 2
        PROVE  [dsp EXCEPT !.resumes = k, !.ready = r] \in ResumeType
    <3>1. k \in 0 .. MaxResumes
      BY <2>1, <2>3
    <3> QED BY <1>0, <3>1 DEF ResumeType
  <2>4. dsp' \in ResumeType
    BY <1>0, <2>2, <2>3
  <2> QED BY <1>1, <1>9, <2>4 DEF ServiceDeferredCallbacks, TickTyped, Stages, Handling
<1>10. CASE Reload
  <2> DEFINE k == tick.blocks + 1
  <2>1. k \in 0 .. MaxTick
    BY <1>0, <1>10 DEF Reload, TickTyped, Handling, TickType
  <2>2. tick' = [dma |-> ai.dma, callback |-> ai.callback, blocks |-> k]
    BY <1>10 DEF Reload
  <2> HIDE DEF k
  <2>3. tick' \in TickType
    BY <1>0, <2>1, <2>2 DEF TickType, AiType
  <2> QED BY <1>0, <1>1, <1>10, <2>3 DEF Reload, TickTyped, Stages, Handling
<1>11. CASE MailAddress \/ AddTask
  <2> DEFINE k == dsp.resumes + 1
  <2>1. k \in 0 .. MaxResumes
    BY <1>0, <1>11 DEF MailAddress, AddTask, ResumeType
  <2>2. dsp' = [dsp EXCEPT !.mail = "task", !.resumes = k] \/ dsp' = [dsp EXCEPT !.resumes = k]
    BY <1>11 DEF MailAddress, AddTask
  <2> HIDE DEF k
  <2>3. dsp' \in ResumeType
    BY <1>0, <2>1, <2>2 DEF ResumeType
  <2> QED BY <1>1, <1>11, <2>3 DEF MailAddress, AddTask, TickTyped, Stages, Handling
<1>12. CASE ProcessAux \/ MemoryReset
  BY <1>1, <1>12 DEF ProcessAux, MemoryReset, TickTyped, Stages, Handling, mix
<1>13. ASSUME (\E valid \in BOOLEAN : AIInitDMA(valid) \/ AIRegisterDMACallback(valid)) \/ AIStartDMA
       PROVE  TickTyped'
  <2>1. ai' \in AiType /\ UNCHANGED <<at, tick, dsp>>
    BY <1>0, <1>13 DEF AIInitDMA, AIStartDMA, AIRegisterDMACallback, AiType
  <2> QED BY <1>1, <2>1 DEF TickTyped
<1>14. CASE AXOutInitDSP \/ OSStopAudioSystem
  <2>0. 0 \in 0 .. MaxResumes /\ 0 \in 0 .. MaxBacklog
    BY <1>0
  <2>1. ai' \in AiType /\ dsp' \in ResumeType /\ UNCHANGED <<at, tick>>
    <3>1. CASE AXOutInitDSP
      BY <1>0, <2>0, <3>1 DEF AXOutInitDSP, ResumeType
    <3>2. CASE OSStopAudioSystem
      <4>1. ai' \in AiType
        BY <1>0, <2>0, <3>2 DEF OSStopAudioSystem, AiType
      <4>2. dsp' \in ResumeType
        BY <1>0, <2>0, <3>2 DEF OSStopAudioSystem, ResumeType
      <4> QED BY <3>2, <4>1, <4>2 DEF OSStopAudioSystem
    <3> QED BY <1>14, <3>1, <3>2
  <2> QED BY <1>1, <2>1 DEF TickTyped
<1>15. CASE SetMixWorkerEnabled \/ ChangeVolume \/ OSResetSystem
  BY <1>1, <1>15 DEF SetMixWorkerEnabled, ChangeVolume, OSResetSystem, TickTyped, Stages, Handling
<1> QED
  BY <1>2, <1>3, <1>4, <1>5, <1>6, <1>7, <1>8, <1>9, <1>10, <1>11, <1>12, <1>13, <1>14, <1>15
  DEF Next, HostCode, GuestCode, Polls

\* A tick never handles more blocks than it may, the AI never owes more than its
\* backlog, and the ring, the DSP and the aux buffers keep their types.
THEOREM AudioTypeCorrect == Spec => []TypeOK
<1>1. AudioTyped /\ [Next]_vars => AudioTyped'
  BY RingCalls, RingStep, AuxStep, TickStep DEF AudioTyped
<1> QED BY <1>1, AudioTypedInit, AudioTypedImplies, PTL DEF Spec

=============================================================================

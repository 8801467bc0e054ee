------------------------------ MODULE AudioRing ------------------------------
(***************************************************************************)
(* The ring of buffers between the AI DMA and the audio renderer of the    *)
(* Switch (audio_backend.cpp).  The program fills one buffer at a time and *)
(* hands it to the renderer, which plays in its own time.  The program     *)
(* sees how far the renderer is only in the buffer states that             *)
(* audrvUpdate() reads back.                                               *)
(***************************************************************************)
EXTENDS Naturals, Sequences, FiniteSets

CONSTANTS
    Slots,       \* kSwitchAudioBufferCount (8)
    SlotUnits,   \* kSwitchAudioBufferBytes (4096), in some unit of bytes
    BlockUnits,  \* length of an AI DMA block (about 384 bytes)
    Limit        \* QueueLimitBytesLocked (15360 bytes at 32 kHz stereo)

ASSUME RingConstants ==
    /\ {Slots, SlotUnits, BlockUnits, Limit} \subseteq Nat \ {0}
    /\ Limit <= Slots * SlotUnits

VARIABLES
    backend,   \* m_initialized
    slot,      \* m_nxWriteSlot
    fill,      \* m_nxWriteBytes
    wave,      \* s_waveBufs[].state as last read back
    playing,   \* the slots the renderer still has to play, in order
    rest       \* what AppendSamplesLocked has still to append of a block

ring == <<backend, slot, fill, wave, playing, rest>>

Slot == 0 .. Slots - 1

\* The slots that the renderer still has to play.
Submitted == {playing[i] : i \in 1 .. Len(playing)}

RingTypeOK ==
    /\ backend \in BOOLEAN
    /\ slot \in Slot
    /\ fill \in 0 .. SlotUnits
    /\ wave \in [Slot -> {"free", "queued", "done"}]
    /\ playing \in Seq(Slot)
    /\ rest \in 0 .. BlockUnits

RingInit ==
    /\ backend = FALSE
    /\ slot = 0 /\ fill = 0 /\ rest = 0
    /\ wave = [s \in Slot |-> "free"]
    /\ playing = <<>>

\* EnsureInitializedLocked, which starts with an empty ring if the host has a
\* renderer.  One that runs with the same rate and channels is kept.
EnsureInitialized(hasRenderer) ==
    /\ backend' \in {backend, hasRenderer}
    /\ backend => backend'
    /\ UNCHANGED <<slot, fill, wave, playing, rest>>

\* The renderer plays a buffer to its end.
RendererPlays ==
    /\ playing # <<>>
    /\ playing' = Tail(playing)
    /\ UNCHANGED <<backend, slot, fill, wave, rest>>

\* What audrvUpdate makes of the buffer states.
Update ==
    [s \in Slot |-> IF wave[s] = "queued" /\ s \notin Submitted THEN "done" ELSE wave[s]]

InFlight(wv) == {s \in Slot : wv[s] = "queued"}

\* QueuedBytesLocked, which refreshes the states before it counts them.
Counted_Stale == wave
Counted == Update
QueuedUnits_FillOnly(wv) == fill
QueuedUnits(wv) == fill + SlotUnits * Cardinality(InFlight(wv))

\* PushWiiAiSamplesBE16: a block for which there is no room is dropped.
PushSamples ==
    /\ wave' = Counted
    /\ rest' = IF QueuedUnits(wave') + BlockUnits > Limit THEN 0 ELSE BlockUnits
    /\ UNCHANGED <<backend, slot, fill, playing>>

Room == SlotUnits - fill
Copied == IF rest < Room THEN rest ELSE Room

\* One round of the loop of AppendSamplesLocked: what fits is copied, and a
\* full buffer goes to the renderer, which is updated at once.  A block that
\* meets a buffer in flight loses its rest.
AppendSamples ==
    LET wv == IF wave[slot] = "queued" THEN Update ELSE wave
    IN  /\ rest > 0
        /\ UNCHANGED backend
        /\ IF wv[slot] = "queued"
           THEN rest' = 0 /\ wave' = wv /\ UNCHANGED <<slot, fill, playing>>
           ELSE /\ rest' = rest - Copied
                /\ IF fill + Copied < SlotUnits
                   THEN fill' = fill + Copied /\ wave' = wv /\ UNCHANGED <<slot, playing>>
                   ELSE /\ playing' = Append(playing, slot)
                        /\ wave' = [Update EXCEPT ![slot] = "queued"]
                        /\ slot' = (slot + 1) % Slots
                        /\ fill' = 0

\* audrvVoiceAddWaveBuf refuses the full buffer: the push fails, and the buffer
\* is submitted by the next.
AppendFails ==
    /\ rest > 0 /\ fill + Copied = SlotUnits
    /\ wave[slot] # "queued"
    /\ fill' = SlotUnits
    /\ rest' = 0
    /\ UNCHANGED <<backend, slot, wave, playing>>

\* Changes of the volume update the driver as well.
SetMuted ==
    /\ backend
    /\ wave' = Update
    /\ UNCHANGED <<backend, slot, fill, playing, rest>>

-----------------------------------------------------------------------------
\* The renderer has what was submitted, in the order of the ring.
PlaysInOrder ==
    \A i \in 1 .. Len(playing) : playing[i] = (slot + Slots + i - 1 - Len(playing)) % Slots

\* The buffer that is being filled is not with the renderer, so a block for
\* which there was room is never cut short: the count of queued bytes and the
\* turn of the write slot agree, however far the renderer has come since the
\* states were read (audio_backend.cpp:376-390).
FillsOwnBuffer == rest > 0 \/ fill > 0 => slot \notin Submitted

\* Audio reaches the renderer block by block, whole and in order.
BlocksStayWhole == FillsOwnBuffer /\ PlaysInOrder

=============================================================================

----------------------------- MODULE OsMessages -----------------------------
(***************************************************************************)
(* OSMessageQueue (hle/os/os_message.cpp): a ring buffer in guest memory   *)
(* with a queue of threads that wait for room and one of threads that wait *)
(* for a message.                                                          *)
(*                                                                         *)
(* A call runs with interrupts disabled, so it is one step from its entry, *)
(* or from the wakeup that resumes it, to its return or to the sleep it    *)
(* falls into.  Which of the threads that are awake goes on is the         *)
(* scheduler's choice (OsThreads); here it may be any of them, so what is  *)
(* shown holds for every priority and every suspension.                    *)
(***************************************************************************)
EXTENDS Integers, Sequences, FiniteSets

CONSTANTS
    Threads,     \* guest threads
    Messages,    \* message words
    NumSlots,    \* the length of the guest's message array
    Capacities,  \* the msgCount values a guest passes to OSInitMessageQueue
    MaxWake,     \* kMaxWake, the threads one OSWakeupThread visits (256)
    NoMessage,   \* what a slot holds that nothing was written to
    NoCall       \* a thread that is not inside a call

Slots == 0 .. NumSlots - 1

Calls == [op : {"send", "jam"}, msg : Messages, block : BOOLEAN]
            \cup [op : {"receive"}, msg : {NoMessage}, block : BOOLEAN]

ASSUME MessageConstants ==
    /\ NumSlots \in Nat
    /\ Capacities \subseteq 0 .. NumSlots
    /\ NoMessage \notin Messages
    /\ NoCall \notin Calls

\* One OSWakeupThread can reach every thread that may sleep.
ASSUME WakeReachesAll ==
    /\ MaxWake \in Nat
    /\ IsFiniteSet(Threads)
    /\ Cardinality(Threads) <= MaxWake

VARIABLES
    array,   \* the message array
    count,   \* msgCount
    first,   \* index of the oldest message
    used,    \* number of messages
    sendQ,   \* threads linked on the queue at kMsgQueueSendOffset
    recvQ,   \* threads linked on the queue at kMsgQueueRecvOffset
    call,    \* the blocking call each thread has slept in, or NoCall
    last     \* the call that returned last: its thread, result and message

buffer == <<array, count, first, used>>
waiters == <<sendQ, recvQ>>
vars == <<buffer, waiters, call, last>>

TypeOK ==
    /\ array \in [Slots -> Messages \cup {NoMessage}]
    /\ count \in Capacities
    /\ first \in Nat
    /\ used \in Nat
    /\ sendQ \subseteq Threads
    /\ recvQ \subseteq Threads
    /\ call \in [Threads -> Calls \cup {NoCall}]
    /\ last \in [thread : Threads, result : {0, 1}, msg : Messages \cup {NoMessage}]

Init ==
    /\ array = [i \in Slots |-> NoMessage]
    /\ count \in Capacities
    /\ first = 0
    /\ used = 0
    /\ sendQ = {}
    /\ recvQ = {}
    /\ call = [t \in Threads |-> NoCall]
    /\ \E t \in Threads : last = [thread |-> t, result |-> 0, msg |-> NoMessage]

-----------------------------------------------------------------------------
(* The ring buffer. *)

IsFull_OffByOne == count # 0 /\ used > count
IsFull == count # 0 /\ used >= count
IsEmpty == used = 0

Enqueue(msg) ==
    IF count = 0 THEN UNCHANGED buffer
    ELSE /\ array' = [array EXCEPT ![(first + used) % count] = msg]
         /\ used' = used + 1
         /\ UNCHANGED <<count, first>>

Jam_WithoutWrap(msg) ==
    /\ array' = [array EXCEPT ![first - 1] = msg]
    /\ first' = first - 1
    /\ used' = used + 1
    /\ UNCHANGED count

Jam_BeforeStepBack(msg) ==
    /\ count # 0
    /\ array' = [array EXCEPT ![first] = msg]
    /\ first' = (first + count - 1) % count
    /\ used' = used + 1
    /\ UNCHANGED count

Jam(msg) ==
    LET before == IF first = 0 THEN count - 1 ELSE first - 1
    IN IF count = 0 THEN UNCHANGED buffer
       ELSE /\ array' = [array EXCEPT ![before] = msg]
            /\ first' = before
            /\ used' = used + 1
            /\ UNCHANGED count

Dequeue ==
    /\ first' = (first + 1) % count
    /\ used' = used - 1
    /\ UNCHANGED <<array, count>>

-----------------------------------------------------------------------------
(* The calls. *)

Ready(c) == IF c.op = "receive" THEN ~IsEmpty ELSE ~IsFull

Apply(c) ==
    \/ c.op = "send" /\ Enqueue(c.msg)
    \/ c.op = "jam" /\ Jam(c.msg)
    \/ c.op = "receive" /\ Dequeue

\* OSWakeupThread unlinks the threads of a queue, MaxWake of them at most.
LeftAsleep(q) ==
    {rest \in SUBSET q :
        \/ Cardinality(q) <= MaxWake /\ rest = {}
        \/ Cardinality(q) > MaxWake /\ Cardinality(rest) = Cardinality(q) - MaxWake}

WakeOpposite_NotAfterJam(c) ==
    /\ sendQ' = IF c.op = "receive" THEN {} ELSE sendQ
    /\ recvQ' = IF c.op = "send" THEN {} ELSE recvQ

\* A receive wakes the senders, a send or a jam the receivers.
WakeOpposite(c) ==
    IF c.op = "receive" THEN sendQ' \in LeftAsleep(sendQ) /\ UNCHANGED recvQ
    ELSE recvQ' \in LeftAsleep(recvQ) /\ UNCHANGED sendQ

SleepFor(t, c) ==
    IF c.op = "receive" THEN recvQ' = recvQ \cup {t} /\ UNCHANGED sendQ
    ELSE sendQ' = sendQ \cup {t} /\ UNCHANGED recvQ

Returns(t, r, m) ==
    /\ last' = [thread |-> t, result |-> r, msg |-> m]
    /\ call' = [call EXCEPT ![t] = NoCall]

\* One round of the loop in MsgQueueOp.
MsgQueueOp(t, c) ==
    \/ /\ Ready(c)
       /\ Apply(c)
       /\ WakeOpposite(c)
       /\ Returns(t, 1, IF c.op = "receive" THEN array[first] ELSE NoMessage)
    \/ /\ ~Ready(c)
       /\ ~c.block
       /\ Returns(t, 0, NoMessage)
       /\ UNCHANGED <<buffer, waiters>>
    \/ /\ ~Ready(c)
       /\ c.block
       /\ SleepFor(t, c)
       /\ call' = [call EXCEPT ![t] = c]
       /\ UNCHANGED <<buffer, last>>

Asleep == sendQ \cup recvQ

Call(t) == call[t] = NoCall /\ \E c \in Calls : MsgQueueOp(t, c)

\* A thread that was woken tests the buffer again.
Retry(t) == call[t] # NoCall /\ t \notin Asleep /\ MsgQueueOp(t, call[t])

\* OSCancelThread unlinks a thread from the queue it sleeps on, and ends its
\* call at whatever point it has reached.
Cancel(t) ==
    /\ call[t] # NoCall
    /\ sendQ' = sendQ \ {t}
    /\ recvQ' = recvQ \ {t}
    /\ call' = [call EXCEPT ![t] = NoCall]
    /\ UNCHANGED <<buffer, last>>

\* The guest initialises a queue on which no thread sleeps.  The array keeps
\* what it held.
InitMessageQueue ==
    /\ Asleep = {}
    /\ count' \in Capacities
    /\ first' = 0
    /\ used' = 0
    /\ sendQ' = {}
    /\ recvQ' = {}
    /\ UNCHANGED <<array, call, last>>

Next == (\E t \in Threads : Call(t) \/ Retry(t) \/ Cancel(t)) \/ InitMessageQueue

Spec == Init /\ [][Next]_vars

-----------------------------------------------------------------------------
(* Properties. *)

\* The ring stays inside the array it was initialised with: OSJamMessage and
\* OSReceiveMessage never leave `first' behind the last slot, and the retest
\* after a wakeup never lets a sender overfill the buffer.
RingInBounds ==
    /\ used <= count
    /\ first = 0 \/ first < count

\* No lost wakeup: a thread sleeps on the receive queue only while there is no
\* message, on the send queue only while there is no room, and only inside a
\* blocking call of that kind, whoever took the message it was woken for.
NoLostWakeup ==
    /\ recvQ # {} => IsEmpty
    /\ sendQ # {} => IsFull
    /\ \A t \in recvQ : call[t] # NoCall /\ call[t].op = "receive"
    /\ \A t \in sendQ : call[t] # NoCall /\ call[t].op # "receive"
    /\ \A t \in Threads : call[t] # NoCall => call[t].block

\* The buffer holds these messages, oldest first.
Contents == [i \in 1 .. used |-> array[(first + i - 1) % count]]

\* The calls are those of a bounded deque: what a receive returns is the
\* message at its head, and a slot that was used before is never read.
Fifo == INSTANCE GuestFifo WITH fifo <- Contents, capacity <- count
FifoSpec == Fifo!Spec

=============================================================================

------------------------------ MODULE GuestFifo ------------------------------
(***************************************************************************)
(* What an OSMessageQueue promises the guest: a bounded deque.  A send     *)
(* appends, a jam prepends, a receive takes the first message, and a call  *)
(* that does not wait reports that there was no room or no message.        *)
(***************************************************************************)
EXTENDS Naturals, Sequences

CONSTANTS Threads, Messages, Capacities, NoMessage

VARIABLES
    fifo,      \* the messages, oldest first
    capacity,  \* how many fit
    last       \* the call that returned last: its thread, result and message

vars == <<fifo, capacity, last>>

Returned(t, r, m) == last' = [thread |-> t, result |-> r, msg |-> m]

Init ==
    /\ fifo = <<>>
    /\ capacity \in Capacities
    /\ \E t \in Threads : last = [thread |-> t, result |-> 0, msg |-> NoMessage]

Put(t, contents) ==
    /\ Len(fifo) < capacity
    /\ fifo' = contents
    /\ Returned(t, 1, NoMessage)
    /\ UNCHANGED capacity

Take(t) ==
    /\ fifo # <<>>
    /\ fifo' = Tail(fifo)
    /\ Returned(t, 1, Head(fifo))
    /\ UNCHANGED capacity

\* A queue without slots accepts every message and keeps none.
Lose(t) == capacity = 0 /\ Returned(t, 1, NoMessage) /\ UNCHANGED <<fifo, capacity>>

\* A call that does not wait finds no message, or no room.
Refuse(t) ==
    /\ fifo = <<>> \/ Len(fifo) = capacity
    /\ Returned(t, 0, NoMessage)
    /\ UNCHANGED <<fifo, capacity>>

Reset(n) == fifo' = <<>> /\ capacity' = n /\ UNCHANGED last

Next ==
    \/ \E t \in Threads, m \in Messages :
        Put(t, Append(fifo, m)) \/ Put(t, <<m>> \o fifo)
    \/ \E t \in Threads : Take(t) \/ Lose(t) \/ Refuse(t)
    \/ \E n \in Capacities : Reset(n)

Spec == Init /\ [][Next]_vars

=============================================================================

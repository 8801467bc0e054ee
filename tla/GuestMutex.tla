----------------------------- MODULE GuestMutex -----------------------------
(***************************************************************************)
(* What the OSMutex functions promise a guest, without queues, priorities  *)
(* or a scheduler: a mutex has at most one holder, who may leave it, and a *)
(* thread that ends leaves all it holds at once.                           *)
(***************************************************************************)
CONSTANTS Threads, Mutexes

VARIABLE holder  \* the threads inside the critical section of each mutex

Init == holder = [m \in Mutexes |-> {}]

\* OSLockMutex returns to t.
Enter(t, m) ==
    /\ holder[m] = {}
    /\ holder' = [holder EXCEPT ![m] = {t}]

\* t calls OSUnlockMutex for the last time.
Leave(t, m) ==
    /\ t \in holder[m]
    /\ holder' = [holder EXCEPT ![m] = @ \ {t}]

\* t exits, is cancelled, or returns.
End(t) == holder' = [m \in Mutexes |-> holder[m] \ {t}]

Next == \E t \in Threads : End(t) \/ \E m \in Mutexes : Enter(t, m) \/ Leave(t, m)

Spec == Init /\ [][Next]_holder
=============================================================================

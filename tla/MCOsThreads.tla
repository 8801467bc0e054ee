----------------------------- MODULE MCOsThreads -----------------------------
(***************************************************************************)
(* Small guests for model checking OsThreads.                              *)
(***************************************************************************)
EXTENDS OsThreads

CONSTANTS main, t1, t2

\* Main above, between, and below the threads it creates.
MainFirst == [t \in Threads |-> IF t = main THEN 0 ELSE 1]
MainLast == [t \in Threads |-> IF t = main THEN 1 ELSE 0]
Graded == [t \in Threads |-> CASE t = main -> 1 [] t = t1 -> 0 [] t = t2 -> 2]

=============================================================================

----------------------------- MODULE MCHostPump -----------------------------
(***************************************************************************)
(* Values for checking HostPump: lo, which pumps, and the more urgent hi.  *)
(***************************************************************************)
EXTENDS HostPump

CONSTANTS hi, lo

MCPrio == [t \in Threads |-> IF t = hi THEN 1 ELSE 2]

=============================================================================

------------------------- MODULE MCMemoryAdmission -------------------------
(* Constants for the runs of MemoryAdmission. *)
EXTENDS MemoryAdmission, TLC

CONSTANTS r1, r2, r3

MCSize == (r1 :> 4) @@ (r2 :> 5) @@ (r3 :> 6)
\* Weights 2 and 4.
MCPriorityMin == -1
=============================================================================

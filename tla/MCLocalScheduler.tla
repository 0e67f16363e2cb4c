-------------------------- MODULE MCLocalScheduler --------------------------
(* Constants for the runs of LocalScheduler. *)
EXTENDS LocalScheduler

CONSTANTS p1, p2, gpu, npu

Processes == <<p1, p2, p2>>
MCPidOf == [h \in Handles |-> Processes[h]]
MCDeviceOf == [h \in Handles |-> <<gpu, npu, gpu>>[h]]
MCNice == (p1 :> -120) @@ (p2 :> -100)
MCRate == (0 :> 2) @@ (1 :> 1)
MCSliceOf == (0 :> 1) @@ (1 :> 2) @@ (2 :> 4) @@ (3 :> 8)

Hint(k, h, v) == [kind |-> k, h |-> h, p |-> Processes[h], v |-> v]
GivenUnder(t) ==
  CASE t \in {"HPF", "HHPF", "CFS"} -> {Hint("Priority", 1, 1)}
    [] t = "IAH" -> {Hint("Priority", 1, 1),
                     [kind |-> "MemoryIntensity", h |-> None, d |-> npu, v |-> 10]}
    [] t = "LAX" -> {[kind |-> "Laxity", h |-> 1, v |-> 1, lax |-> -1, crit |-> 1]}
    [] t = "KEDF" -> {Hint("Deadline", 1, 1), Hint("Deadline", 3, 2)}
    [] t = "AWF" -> {[kind |-> "WindowActive", h |-> None, p |-> q, v |-> 1] : q \in Pids}
    [] t = "UP" -> {Hint("Utilization", h, 50) : h \in {1, 2}}
                     \cup {[kind |-> "Timeslice", h |-> None, v |-> 2]}
    [] t = "PUP" -> {Hint("Utilization", 1, 100)}
    [] t = "SLO" -> {Hint("Priority", 1, 1), Hint("Deadline", 3, 2), Hint("Utilization", 1, 50)}
    [] OTHER -> {}
MCHints == [t \in PolicyType |-> {e \in GivenUnder(t) : e.h \in Handles \cup {None}}]

MCMaxEvents ==
  [t \in PolicyType |-> IF t \in {"KEDF", "CFS", "SLO", "MLFQ"} THEN 3 ELSE 4]
=============================================================================

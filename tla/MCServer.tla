------------------------------ MODULE MCServer ------------------------------
(* Constants for the runs of Server. *)
EXTENDS Server

CONSTANTS p1, p2, gpu

MCPidOf == [h \in Handles |-> <<p1, p2>>[h]]
MCDeviceOf == [h \in Handles |-> gpu]
MCHints == [t \in PolicyType |-> {[kind |-> "Priority", h |-> 2, v |-> 1]}]
MCMaxEvents == [t \in PolicyType |-> 4]
MCNice == [p \in Pids |-> 0]
MCRate == [v \in {0, 1} |-> 1]
MCSliceOf == [l \in 0..3 |-> 1]
MCJoined == {{p1}, {p1, p2}}
=============================================================================

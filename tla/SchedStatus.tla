---------------------------- MODULE SchedStatus ----------------------------
(***************************************************************************)
(* The table a LocalScheduler keeps of processes and XQueues (status.h)    *)
(* and what events and operations do to it (local.cpp).  The table is a    *)
(* record, so that policies can be operators on it.                        *)
(*                                                                         *)
(* A handle holds its process id (xqueue.h builds it from the address and  *)
(* the pid), so the process of a handle is a constant.                     *)
(***************************************************************************)
EXTENDS Integers, FiniteSets

CONSTANTS
  Handles,    \* XQueue handles
  Pids,       \* processes
  Devices,    \* devices the XQueues are created on
  NoDevice,   \* kDeviceTypeUnknown
  PidOf,      \* the process of a handle
  DeviceOf    \* the device a handle's XQueue is created on

ASSUME StatusAssumption ==
  /\ NoDevice \notin Devices
  /\ PidOf \in [Handles -> Pids] /\ DeviceOf \in [Handles -> Devices]

\* Status: the keys of xqueue_status and their fields, the keys of
\* process_status and their two lists.  age is the time since ready_time.
Status ==
  [known : SUBSET Handles, ready : SUBSET Handles, suspended : SUBSET Handles,
   device : [Handles -> Devices \cup {NoDevice}], age : [Handles -> Nat],
   procs : SUBSET Pids,
   running : [Pids -> SUBSET Handles], stopped : [Pids -> SUBSET Handles]]

\* The process p of a status has XQueues.
HasXQueues(st, p) == st.running[p] # {} \/ st.stopped[p] # {}

\* Faulty variant: the entry of the suspended list is not removed.
ResumeAllKeepsList(st, R) ==
  [st EXCEPT !.suspended = @ \ R,
             !.running = [p \in Pids |-> @[p] \cup {h \in R : PidOf[h] = p}]]

\* LocalScheduler::Suspend and ::Resume for every handle of a set.
SuspendAll(st, S) ==
  LET T == S \cap st.known
      Of(p) == {h \in T : PidOf[h] = p /\ p \in st.procs}
  IN [st EXCEPT !.suspended = @ \cup T,
                !.running = [p \in Pids |-> @[p] \ Of(p)],
                !.stopped = [p \in Pids |-> @[p] \cup Of(p)]]

ResumeAll(st, S) ==
  LET T == S \cap st.known
      Of(p) == {h \in T : PidOf[h] = p /\ p \in st.procs}
  IN [st EXCEPT !.suspended = @ \ T,
                !.running = [p \in Pids |-> @[p] \cup Of(p)],
                !.stopped = [p \in Pids |-> @[p] \ Of(p)]]

CreateXQueueStatus(st, h, d, isReady) ==
  [st EXCEPT !.known = @ \cup {h},
             !.ready = IF isReady THEN @ \cup {h} ELSE @ \ {h},
             !.suspended = @ \ {h}, !.device[h] = d, !.age[h] = 0,
             !.procs = @ \cup {PidOf[h]}, !.running[PidOf[h]] = @ \cup {h}]

-----------------------------------------------------------------------------
(* UpdateStatus, one operator for each type of event.  Queries only read. *)

ProcessCreate(st, p) == [st EXCEPT !.procs = @ \cup {p}]

\* Faulty variant: the XQueues of the process are kept.
ProcessDestroyKeepsXQueues(st, p) == [st EXCEPT !.procs = @ \ {p}]

ProcessDestroy(st, p) ==
  IF p \notin st.procs THEN st
  ELSE LET Q == st.running[p] \cup st.stopped[p]
       IN [st EXCEPT !.known = @ \ Q, !.ready = @ \ Q, !.suspended = @ \ Q,
                     !.procs = @ \ {p}, !.running[p] = {}, !.stopped[p] = {}]

\* XQueueCreate and XQueueConfigUpdate.
XQueueCreate(st, h) ==
  IF h \notin st.known THEN CreateXQueueStatus(st, h, DeviceOf[h], FALSE)
  ELSE [st EXCEPT !.device[h] = DeviceOf[h]]

XQueueDestroy(st, h) ==
  IF h \notin st.known \/ PidOf[h] \notin st.procs THEN st
  ELSE [st EXCEPT !.known = @ \ {h}, !.ready = @ \ {h}, !.suspended = @ \ {h},
                  !.running[PidOf[h]] = @ \ {h}, !.stopped[PidOf[h]] = @ \ {h}]

\* t is the time that has passed since the XQueue became ready.
XQueueReady(st, h, t) ==
  IF h \notin st.known
  THEN [CreateXQueueStatus(st, h, NoDevice, TRUE) EXCEPT !.age[h] = t]
  ELSE [st EXCEPT !.ready = @ \cup {h}, !.age[h] = t]

XQueueIdle(st, h) ==
  IF h \notin st.known THEN CreateXQueueStatus(st, h, NoDevice, FALSE)
  ELSE [st EXCEPT !.ready = @ \ {h}]

-----------------------------------------------------------------------------
(* Every known XQueue is in one of the two lists of its process, the one   *)
(* its suspended flag says, and the lists hold nothing else.               *)
Consistent(st) ==
  /\ st.ready \subseteq st.known /\ st.suspended \subseteq st.known
  /\ \A h \in st.known : PidOf[h] \in st.procs
  /\ \A p \in Pids :
       /\ st.running[p] = {h \in st.known \ st.suspended : PidOf[h] = p}
       /\ st.stopped[p] = {h \in st.suspended : PidOf[h] = p}

=============================================================================

------------------------------- MODULE XQueue -------------------------------
(***************************************************************************)
(* One preemptible XQueue: the command buffer between the application and  *)
(* the launch worker (command_buffer.cpp), the launch worker with its log  *)
(* of in-flight commands (launch_worker.cpp), the queue that ties them     *)
(* together (async_xqueue.cpp, XQueueManager::Del of xqueue.cpp), and the  *)
(* in-order hardware queue below it with the deactivate / reactivate       *)
(* protocol of the CUDA level-2 queue (level2/cuda_queue.cpp).             *)
(*                                                                         *)
(* Client threads call the XQueue API, each in the roles the constants     *)
(* give it; one worker thread per XQueue launches the commands; the        *)
(* hardware retires them.  A step is what one thread does between two      *)
(* points at which another thread can observe it.  The launch worker's     *)
(* mtx_ is held across several steps and so is the variable lock; the      *)
(* mutex of the command buffer only protects single steps.                 *)
(***************************************************************************)
EXTENDS Integers, Sequences, FiniteSets

CONSTANTS
  Clients,        \* threads calling the API (application threads, executor)
  Worker,         \* the worker thread of the XQueue
  NoThread,       \* value of lock when nobody holds it
  Submitters,     \* clients that call XQueueSubmit
  Waiters,        \* clients that call XQueueWait
  Syncers,        \* clients that call XQueueWaitAll
  Suspenders,     \* clients that call XQueueSuspend and XQueueResume
  Configurers,    \* clients that call XQueueSetPreemptLevel / SetLaunchConfig
  Destroyers,     \* clients that call XQueueDestroy
  Kinds,          \* the kinds of hardware commands submitted, see Kind
  SuspendFlags,   \* flags given to Suspend: "None", "Sync"
  ResumeFlags,    \* flags given to Resume: "None", "Drop"
  Blocking,       \* whether a submission may be a blocking one
  Level0, Threshold0, Batch0,   \* the configuration the queue is created with
  Levels,         \* the levels SetPreemptLevel may ask for
  LaunchConfigs,  \* the <<threshold, batch size>> SetLaunchConfig may ask for
  MaxCmds,        \* bound: hardware commands submitted in a behaviour
  MaxPauses       \* bound: times the worker is paused in a behaviour

Threads == Clients \cup {Worker}
Kind == {"kernel", "record", "copy", "callback"}
Level == 1..3     \* kPreemptLevelBlock, Deactivate, Interrupt

ASSUME ThreadsAssumption ==
  /\ Worker \notin Clients /\ NoThread \notin Threads
  /\ Submitters \cup Waiters \cup Syncers \cup Suspenders
       \cup Configurers \cup Destroyers \subseteq Clients
ASSUME InputAssumption ==
  /\ Kinds \subseteq Kind
  /\ SuspendFlags \subseteq {"None", "Sync"} /\ ResumeFlags \subseteq {"None", "Drop"}
  /\ Blocking \subseteq BOOLEAN
  /\ Levels \subseteq Level
  /\ LaunchConfigs \subseteq {c \in (Nat \ {0}) \X (Nat \ {0}) : c[1] >= c[2]}
  /\ MaxCmds \in Nat /\ MaxPauses \in Nat
\* The constructor of LaunchWorker asserts threshold >= batch size.
ASSUME ConfigAssumption ==
  /\ Level0 \in Level /\ Threshold0 \in Nat \ {0} /\ Batch0 \in Nat \ {0}
  /\ Threshold0 >= Batch0

VARIABLES
  \* CommandBuffer
  cmds,          \* cmds_: the buffered commands
  lastCmd,       \* last_cmd_
  xqState,       \* xq_state_
  waCount,       \* how many XQueueWaitAllCommands have been created
  waState,       \* their states
  \* hardware commands, named by the index Submit gives them
  hwState, kind,
  synced,        \* the ones EnableSynchronization() has succeeded for
  \* LaunchWorker
  wstate, pauseCount, cmdLog, syncLog, lastSyncIdx, dropIdx,
  lock,          \* the thread that holds mtx_
  cur,           \* the command the worker has dequeued
  \* AsyncXQueue and XQueueManager
  level, threshold, batch, suspended, terminated, nextIdx,
  destroyState,  \* state of the XQueueDestroyCommand
  registered,    \* the XQueue is in XQueueManager::xqs_
  \* threads
  pc,
  arg,           \* the command a thread waits for, or the index it works with
  snap,          \* current_pause_cnt, or a position in the log
  ret,           \* where a thread continues after a call
  flag,          \* flags argument of Suspend / Resume
  \* hardware queue
  dev,           \* launched commands the hardware has not retired, in order
  exitFlag,      \* global_exit_flag of the preempt buffer
  preemptIdx,    \* preempt_idx of the preempt buffer
  execs,         \* how often a command took effect (2: more than once)
  \* history
  must,          \* commands a running WaitAll of a client has to wait for
  settled,       \* commands some client was told are finished
  dropped        \* commands completed by a Resume that drops commands

bufVars    == <<cmds, lastCmd, xqState, waCount, waState>>
cmdVars    == <<hwState, kind, synced>>
pauseVars  == <<wstate, pauseCount>>
logVars    == <<cmdLog, syncLog, lastSyncIdx, dropIdx>>
configVars == <<level, threshold, batch>>
queueVars  == <<suspended, terminated, nextIdx, destroyState, registered>>
localVars  == <<arg, snap, ret, flag>>
devVars    == <<dev, exitFlag, preemptIdx, execs>>
histVars   == <<must, settled, dropped>>
vars == <<bufVars, cmdVars, pauseVars, logVars, configVars, queueVars, devVars,
          histVars, pc, localVars, lock, cur>>

\* What a step leaves alone that only moves a thread, and one that besides
\* only changes the command buffer.
ThreadStep == UNCHANGED <<bufVars, cmdVars, pauseVars, logVars, configVars,
                          queueVars, devVars, histVars>>
BufferStep == UNCHANGED <<cmdVars, pauseVars, logVars, configVars, devVars, lock>>

-----------------------------------------------------------------------------
(* Commands *)

Idx == 1..MaxCmds
WaitAlls == 0..MaxCmds   \* one at construction, at most one per submission
All == 0                 \* in place of an index: every command in flight

\* XCommandState
Created == 0
Pending == 1
InFlight == 2
Completed == 3
CommandState == Created..Completed

Hardware(i) == [type |-> "Hardware", id |-> i]
WaitAllCmd(n) == [type |-> "WaitAll", id |-> n]
BatchSync == [type |-> "BatchSync", id |-> 0]
DestroyCmd == [type |-> "Destroy", id |-> 0]
XCommand == [type : {"Hardware"}, id : Idx] \cup [type : {"WaitAll"}, id : Nat]
              \cup {BatchSync, DestroyCmd}

\* Properties of the command classes of cuda_command.h: a kernel can be
\* deactivated, an event record is idempotent, a copy is neither, and a
\* callback command is neither and can never be synchronized with.
Deactivatable(c) == kind[c] = "kernel"
Idempotent(c)    == kind[c] = "record"
CanSync(c)       == kind[c] # "callback"
Synchronizable(c) == Idempotent(c) \/ c \in synced

\* Commands handed to the command buffer so far.
Submitted == {c \in Idx : hwState[c] >= Pending}

\* SetState(kCommandStateCompleted) on every command of S.
Complete(S) ==
  hwState' = [c \in Idx |-> IF c \in S THEN Completed ELSE hwState[c]]

FirstOf(S) == CHOOSE j \in S : \A k \in S : j <= k

\* Faulty variant: completing one command too many.
FinishedWithOneMore(c, target) == target = All \/ c <= target + 1

\* A finished synchronization with target means that command c has finished.
FinishedWith(c, target) == target = All \/ c <= target
\* How many commands are popped from the front of a log then: the loop stops at
\* the first one with a larger index.
PopCount(log, target) ==
  FirstOf({k \in 0..Len(log) : k < Len(log) => ~FinishedWith(log[k + 1], target)})
PopThrough(log, target) == SubSeq(log, PopCount(log, target) + 1, Len(log))
Popped(log, target) == {log[j] : j \in 1..PopCount(log, target)}
InLog(log) == {log[j] : j \in 1..Len(log)}

Goto(t, label) == pc' = [pc EXCEPT ![t] = label]
\* A local variable that is not read again is reset.
Forget(v, t) == [v EXCEPT ![t] = 0]

-----------------------------------------------------------------------------
(* Hardware queue: an in-order stream.  A guarded command checks the exit  *)
(* flag before it starts and, if the flag is set, leaves its index as the  *)
(* index to resume from (the first to do so) and has no effect.            *)

HwRetire ==
  /\ dev # <<>>
  /\ dev' = Tail(dev)
  /\ IF Head(dev).guarded /\ exitFlag
     THEN /\ preemptIdx' = IF preemptIdx = 0 THEN Head(dev).cmd ELSE preemptIdx
          /\ UNCHANGED execs
     ELSE /\ execs' = [execs EXCEPT ![Head(dev).cmd] = IF @ = 2 THEN 2 ELSE @ + 1]
          /\ UNCHANGED preemptIdx
  /\ UNCHANGED <<bufVars, cmdVars, pauseVars, logVars, configVars, queueVars,
                 exitFlag, histVars, pc, localVars, lock, cur>>

\* What Launch(cmd) appends: at level 2 and above kernels are launched with
\* the guardian entry point.
DevEntry(c) == [cmd |-> c, guarded |-> level >= 2 /\ Deactivatable(c)]

\* Synchronize() of the queue (All) or of a command returns once the hardware
\* has executed, or flushed, what it waits for.
HwFinished(c) == \A j \in 1..Len(dev) : c # All /\ dev[j].cmd # c

-----------------------------------------------------------------------------
(* CommandBuffer *)

\* Faulty variants: not telling the scheduler, not waiting for what follows
\* the last synchronizable command.
ReportIdleForgotten == UNCHANGED xqState
EverythingWaitedForTooEarly == lastCmd.type \in {"WaitAll", "BatchSync"}

\* Dequeue, a command is there.  "DequeueWait" is the wait inside the WaitAll
\* case, which only looks at the buffer.
DequeueFront ==
  /\ pc[Worker] \in {"Dequeue", "DequeueWait"} /\ cmds # <<>>
  /\ cur' = Head(cmds)
  /\ cmds' = Tail(cmds)
  /\ Goto(Worker, "Dequeued")
  /\ UNCHANGED <<lastCmd, xqState, waCount, waState>>

\* Dequeue, empty and everything was waited for: report idle, then wait.
EverythingWaitedFor == lastCmd.type = "WaitAll"
ReportIdle == xqState' = "Idle"
DequeueIdle ==
  /\ pc[Worker] = "Dequeue" /\ cmds = <<>> /\ EverythingWaitedFor
  /\ ReportIdle
  /\ Goto(Worker, "DequeueWait")
  /\ UNCHANGED <<cmds, lastCmd, waCount, waState, cur>>

\* Dequeue, empty after a BatchSynchronizeCommand: generate a wait-all.
DequeueGenWaitAll ==
  /\ pc[Worker] = "Dequeue" /\ cmds = <<>> /\ lastCmd.type = "BatchSync"
  /\ cur' = WaitAllCmd(waCount)
  /\ lastCmd' = WaitAllCmd(waCount)
  /\ waCount' = waCount + 1
  /\ waState' = [waState EXCEPT ![waCount] = Pending]
  /\ Goto(Worker, "Dequeued")
  /\ UNCHANGED <<cmds, xqState>>

\* Dequeue, empty after any other command: generate a BatchSynchronizeCommand.
DequeueGenBatchSync ==
  /\ pc[Worker] = "Dequeue" /\ cmds = <<>>
  /\ lastCmd.type \notin {"WaitAll", "BatchSync"}
  /\ cur' = BatchSync
  /\ lastCmd' = BatchSync
  /\ Goto(Worker, "Dequeued")
  /\ UNCHANGED <<cmds, xqState, waCount, waState>>

Dequeue ==
  /\ DequeueFront \/ DequeueIdle \/ DequeueGenWaitAll \/ DequeueGenBatchSync
  /\ BufferStep /\ UNCHANGED <<queueVars, histVars, localVars>>

\* Enqueue: a hardware command makes an idle queue ready.
ReportReady(c) == xqState' = IF c.type = "Hardware" THEN "Ready" ELSE xqState
Enqueue(c) ==
  /\ ReportReady(c)
  /\ lastCmd' = c
  /\ cmds' = Append(cmds, c)
  /\ UNCHANGED <<waCount, waState>>

\* EnqueueXQueueWaitAllCommand: an idle queue, or one whose last command is a
\* wait-all, shares that command; otherwise a new one is enqueued.
SharesWaitAll == xqState = "Idle" \/ lastCmd.type = "WaitAll"
EnqueueWaitAll(t) ==
  IF SharesWaitAll
  THEN /\ arg' = [arg EXCEPT ![t] = lastCmd.id]
       /\ UNCHANGED bufVars
  ELSE /\ arg' = [arg EXCEPT ![t] = waCount]
       /\ waCount' = waCount + 1
       /\ waState' = [waState EXCEPT ![waCount] = Pending]
       /\ lastCmd' = WaitAllCmd(waCount)
       /\ cmds' = Append(cmds, WaitAllCmd(waCount))
       /\ UNCHANGED xqState

OfType(buf, type) == {buf[j].id : j \in {i \in 1..Len(buf) : buf[i].type = type}}

-----------------------------------------------------------------------------
(* LaunchWorker: SyncAllWithLock (target All) and SyncCmdWithLock are the   *)
(* same loop.  They are called and return with the lock held, and release   *)
(* it while the worker is paused and while they wait for the hardware.      *)

\* Faulty variants: completing commands although, and retrying although not,
\* the worker was paused during the synchronization; not waiting for a resume.
PausedMeanwhileUnchecked(t) == FALSE
PausedMeanwhileAlways(t) == TRUE
NothingToSyncUnlessRunning(t) ==
  wstate # "Running" \/ IF arg[t] = All THEN cmdLog = <<>>
                        ELSE hwState[arg[t]] = Completed

CallSync(t, target, label) ==
  /\ arg' = [arg EXCEPT ![t] = target]
  /\ ret' = [ret EXCEPT ![t] = label]
  /\ Goto(t, "Sync")

\* Nothing to wait for.  For a command this is checked even when paused.
NothingToSync(t) ==
  \/ wstate = "Terminated"
  \/ IF arg[t] = All THEN wstate = "Running" /\ cmdLog = <<>>
     ELSE hwState[arg[t]] = Completed

\* The checks at the top of the loop, made on entry, before a retry and when
\* the wait for a resume ends.
SyncCheck(t) ==
  /\ \/ pc[t] = "Sync" /\ lock = t
     \/ /\ pc[t] = "SyncPaused" /\ lock = NoThread
        /\ wstate # "Paused" \/ NothingToSync(t)
  /\ \/ /\ NothingToSync(t)
        /\ lock' = t
        /\ Goto(t, ret[t])
        /\ UNCHANGED snap
     \/ /\ ~NothingToSync(t) /\ wstate = "Running"
        /\ snap' = [snap EXCEPT ![t] = pauseCount]
        /\ lock' = NoThread
        /\ Goto(t, "SyncHw")
     \/ /\ ~NothingToSync(t) /\ wstate = "Paused"
        /\ lock' = NoThread
        /\ Goto(t, "SyncPaused")
        /\ UNCHANGED snap
  /\ ThreadStep /\ UNCHANGED <<arg, ret, flag, cur>>

SyncHw(t) ==
  /\ pc[t] = "SyncHw" /\ HwFinished(arg[t])
  /\ Goto(t, "SyncRelock")
  /\ ThreadStep /\ UNCHANGED <<localVars, lock, cur>>

\* Retry if the queue was preempted since pause_count_ was read; otherwise the
\* target and all commands launched before it are completed.
PausedMeanwhile(t) == snap[t] # pauseCount
SyncRelock(t) ==
  /\ pc[t] = "SyncRelock" /\ lock = NoThread
  /\ lock' = t
  /\ snap' = Forget(snap, t)
  /\ IF PausedMeanwhile(t)
     THEN /\ Goto(t, "Sync")
          /\ UNCHANGED <<syncLog, hwState, cmdLog>>
     ELSE /\ syncLog' = PopThrough(syncLog, arg[t])
          /\ Complete(Popped(cmdLog, arg[t]))
          /\ cmdLog' = PopThrough(cmdLog, arg[t])
          /\ Goto(t, ret[t])
  /\ UNCHANGED <<bufVars, kind, synced, pauseVars, lastSyncIdx, dropIdx, configVars,
                 queueVars, devVars, histVars, arg, ret, flag, cur>>

Sync(t) == SyncCheck(t) \/ SyncHw(t) \/ SyncRelock(t)

-----------------------------------------------------------------------------
(* LaunchWorker: LaunchHwCommand *)

\* Faulty variants: no wait for deactivatable commands, launching while paused,
\* and keeping the last dropped command.
WaitsForDeactivatableNever(c) == FALSE
MayLaunchAlways == TRUE
IsDroppedOffByOne(c) == c < dropIdx

\* Where the log holds deactivatable commands, the synchronizable ones from the
\* last of these on, and the synchronizable ones whose completion empties a slot.
DeactivatableAt == {j \in 1..Len(cmdLog) : Deactivatable(cmdLog[j])}
SyncAfterAt == {j \in 1..Len(cmdLog) : /\ \A k \in DeactivatableAt : k <= j
                                      /\ Synchronizable(cmdLog[j])}
SyncFreeingAt == {j \in 1..Len(syncLog) : syncLog[j] >= cmdLog[1]}

\* A command that is neither deactivatable nor idempotent waits until the
\* deactivatable ones in flight have completed.
WaitsForDeactivatable(c) ==
  level >= 2 /\ ~Deactivatable(c) /\ ~Idempotent(c) /\ DeactivatableAt # {}
LaunchEnter ==
  /\ pc[Worker] = "Dequeued" /\ cur.type = "Hardware"
  /\ lock = NoThread /\ lock' = Worker
  /\ IF WaitsForDeactivatable(cur.id)
     THEN CallSync(Worker, IF SyncAfterAt = {} THEN All ELSE cmdLog[FirstOf(SyncAfterAt)],
                   "Threshold")
     ELSE Goto(Worker, "Threshold") /\ UNCHANGED <<arg, ret>>
  /\ ThreadStep /\ UNCHANGED <<snap, flag, cur>>

\* The log is full: wait for a slot.  Otherwise wait until not paused.
LogFull == Len(cmdLog) >= threshold
MayLaunch == wstate = "Running"
LaunchThreshold ==
  /\ pc[Worker] = "Threshold" /\ lock = Worker
  /\ \/ /\ LogFull
        /\ CallSync(Worker, IF SyncFreeingAt = {} THEN All
                            ELSE syncLog[FirstOf(SyncFreeingAt)], "Launch")
        /\ UNCHANGED lock
     \/ /\ ~LogFull /\ MayLaunch
        /\ Goto(Worker, "Launch") /\ UNCHANGED <<lock, arg, ret>>
     \/ /\ ~LogFull /\ ~MayLaunch
        /\ Goto(Worker, "LaunchPaused") /\ lock' = NoThread /\ UNCHANGED <<arg, ret>>
  /\ ThreadStep /\ UNCHANGED <<snap, flag, cur>>

LaunchResumed ==
  /\ pc[Worker] = "LaunchPaused" /\ lock = NoThread /\ MayLaunch
  /\ lock' = Worker
  /\ Goto(Worker, "Launch")
  /\ ThreadStep /\ UNCHANGED <<localVars, cur>>

\* The command is completed without being launched if it was dropped.
IsDropped(c) == c <= dropIdx
LaunchDrop ==
  /\ pc[Worker] = "Launch" /\ lock = Worker /\ IsDropped(cur.id)
  /\ Complete({cur.id})
  /\ dropped' = dropped \cup {cur.id}
  /\ arg' = Forget(arg, Worker)
  /\ lock' = NoThread
  /\ Goto(Worker, "Dequeue")
  /\ UNCHANGED <<bufVars, kind, synced, pauseVars, logVars, configVars, queueVars,
                 devVars, must, settled, snap, ret, flag, cur>>

\* The command is launched; the last one of a batch gets synchronization.
LaunchCommand ==
  /\ pc[Worker] = "Launch" /\ lock = Worker /\ ~IsDropped(cur.id)
  /\ LET c == cur.id IN
     /\ synced' = synced \cup (IF c - lastSyncIdx >= batch /\ CanSync(c) THEN {c} ELSE {})
     /\ dev' = Append(dev, DevEntry(c))
     /\ hwState' = [hwState EXCEPT ![c] = InFlight]
     /\ cmdLog' = Append(cmdLog, c)
     /\ IF Idempotent(c) \/ c \in synced'
        THEN syncLog' = Append(syncLog, c) /\ lastSyncIdx' = c
        ELSE UNCHANGED <<syncLog, lastSyncIdx>>
  /\ arg' = Forget(arg, Worker)
  /\ lock' = NoThread
  /\ Goto(Worker, "Dequeue")
  /\ UNCHANGED <<bufVars, kind, pauseVars, dropIdx, configVars, queueVars, exitFlag,
                 preemptIdx, execs, histVars, snap, ret, flag, cur>>

LaunchHwCommand ==
  LaunchEnter \/ LaunchThreshold \/ LaunchResumed \/ LaunchDrop \/ LaunchCommand

-----------------------------------------------------------------------------
(* LaunchWorker: the other commands of WorkerLoop *)

WaitAllEnter ==
  /\ pc[Worker] = "Dequeued" /\ cur.type = "WaitAll"
  /\ lock = NoThread /\ lock' = Worker
  /\ waState' = [waState EXCEPT ![cur.id] = InFlight]
  /\ CallSync(Worker, All, "WaitAllDone")
  /\ UNCHANGED <<cmds, lastCmd, xqState, waCount, cmdVars, pauseVars, logVars,
                 configVars, queueVars, devVars, histVars, snap, flag, cur>>

WaitAllDone ==
  /\ pc[Worker] = "WaitAllDone" /\ lock = Worker
  /\ waState' = [waState EXCEPT ![cur.id] = Completed]
  /\ lock' = NoThread
  /\ Goto(Worker, "Dequeue")
  /\ UNCHANGED <<cmds, lastCmd, xqState, waCount, cmdVars, pauseVars, logVars,
                 configVars, queueVars, devVars, histVars, localVars, cur>>

\* A BatchSynchronizeCommand waits for the first synchronizable command.
\* Nobody waits for a BatchSynchronizeCommand: its state is left out.
BatchSyncEnter ==
  /\ pc[Worker] = "Dequeued" /\ cur.type = "BatchSync" /\ lock = NoThread
  /\ IF syncLog = <<>>
     THEN Goto(Worker, "Dequeue") /\ UNCHANGED <<lock, arg, ret>>
     ELSE lock' = Worker /\ CallSync(Worker, syncLog[1], "BatchSyncDone")
  /\ ThreadStep /\ UNCHANGED <<snap, flag, cur>>

BatchSyncDone ==
  /\ pc[Worker] = "BatchSyncDone" /\ lock = Worker
  /\ arg' = Forget(arg, Worker)
  /\ lock' = NoThread
  /\ Goto(Worker, "Dequeue")
  /\ ThreadStep /\ UNCHANGED <<snap, ret, flag, cur>>

DestroyEnter ==
  /\ pc[Worker] = "Dequeued" /\ cur.type = "Destroy"
  /\ lock = NoThread /\ lock' = Worker
  /\ destroyState' = InFlight
  /\ CallSync(Worker, All, "DestroyDone")
  /\ UNCHANGED <<bufVars, cmdVars, pauseVars, logVars, configVars, suspended,
                 terminated, nextIdx, registered, devVars, histVars, snap, flag, cur>>

\* The worker thread ends.
DestroyDone ==
  /\ pc[Worker] = "DestroyDone" /\ lock = Worker
  /\ wstate' = "Terminated"
  /\ destroyState' = Completed
  /\ lock' = NoThread
  /\ Goto(Worker, "Exited")
  /\ UNCHANGED <<bufVars, cmdVars, pauseCount, logVars, configVars, suspended,
                 terminated, nextIdx, registered, devVars, histVars, localVars, cur>>

WorkerLoop ==
  \/ Dequeue \/ LaunchHwCommand \/ Sync(Worker)
  \/ WaitAllEnter \/ WaitAllDone \/ BatchSyncEnter \/ BatchSyncDone
  \/ DestroyEnter \/ DestroyDone

-----------------------------------------------------------------------------
(* AsyncXQueue::Submit, WaitAll, Wait.  A call begins by looking the queue  *)
(* up in the XQueueManager, which gives the caller a reference to it.       *)

MayCall(t, role) == pc[t] = "Idle" /\ registered /\ t \in role

\* Submit takes the index ...
SubmitIdx(t) ==
  /\ MayCall(t, Submitters) /\ nextIdx <= MaxCmds
  /\ nextIdx' = nextIdx + 1
  /\ arg' = [arg EXCEPT ![t] = nextIdx]
  /\ \E k \in Kinds : kind' = [kind EXCEPT ![nextIdx] = k]
  /\ Goto(t, "Submit")
  /\ UNCHANGED <<bufVars, hwState, synced, pauseVars, logVars, configVars, suspended,
                 terminated, destroyState, registered, devVars, histVars, snap, ret,
                 flag, lock, cur>>

\* ... and enqueues the command, which another submitter may do in between.
SubmitEnqueue(t) ==
  /\ pc[t] = "Submit"
  /\ hwState' = [hwState EXCEPT ![arg[t]] = Pending]
  /\ Enqueue(Hardware(arg[t]))
  /\ \/ /\ FALSE \in Blocking /\ Goto(t, "Idle")
        /\ arg' = Forget(arg, t)
     \/ /\ TRUE \in Blocking /\ Goto(t, "SubmitBlocked")
        /\ UNCHANGED arg
  /\ UNCHANGED <<kind, synced, pauseVars, logVars, configVars, queueVars, devVars,
                 histVars, snap, ret, flag, lock, cur>>

\* A blocking submission returns when the command has been launched.
IsLaunched(c) == hwState[c] >= InFlight
SubmitReturn(t) ==
  /\ pc[t] = "SubmitBlocked" /\ IsLaunched(arg[t])
  /\ Goto(t, "Idle") /\ arg' = Forget(arg, t)
  /\ ThreadStep /\ UNCHANGED <<snap, ret, flag, lock, cur>>

\* WaitAll, for XQueueWaitAll, the configuration calls and Del.
BeginWaitAll(t, label) ==
  /\ EnqueueWaitAll(t)
  /\ must' = [must EXCEPT ![t] = Submitted]
  /\ ret' = [ret EXCEPT ![t] = label]
  /\ Goto(t, "WaitAll")
  /\ BufferStep /\ UNCHANGED <<queueVars, settled, dropped, snap, flag, cur>>

WaitAllCall(t) == MayCall(t, Syncers) /\ BeginWaitAll(t, "Idle")

WaitAllReturn(t) ==
  /\ pc[t] = "WaitAll" /\ waState[arg[t]] = Completed
  /\ settled' = settled \cup must[t]
  /\ must' = [must EXCEPT ![t] = {}]
  /\ Goto(t, ret[t]) /\ arg' = Forget(arg, t)
  /\ BufferStep /\ UNCHANGED <<bufVars, queueVars, dropped, snap, ret, flag, cur>>

\* Wait: what cannot be synchronized, or is completed, needs no hardware.
WaitCall(t) ==
  /\ MayCall(t, Waiters)
  /\ \E c \in Submitted :
       /\ arg' = [arg EXCEPT ![t] = c]
       /\ Goto(t, IF Synchronizable(c) /\ hwState[c] # Completed
                  THEN "WaitInFlight" ELSE "WaitCompleted")
  /\ ThreadStep /\ UNCHANGED <<snap, ret, flag, lock, cur>>

WaitInFlight(t) ==
  /\ pc[t] = "WaitInFlight" /\ IsLaunched(arg[t])
  /\ lock = NoThread /\ lock' = t
  /\ CallSync(t, arg[t], "WaitDone")
  /\ ThreadStep /\ UNCHANGED <<snap, flag, cur>>

WaitReturn(t) ==
  /\ \/ pc[t] = "WaitCompleted" /\ hwState[arg[t]] = Completed /\ UNCHANGED lock
     \/ pc[t] = "WaitDone" /\ lock = t /\ lock' = NoThread
  /\ settled' = settled \cup {arg[t]}
  /\ Goto(t, "Idle") /\ arg' = Forget(arg, t)
  /\ UNCHANGED <<bufVars, cmdVars, pauseVars, logVars, configVars, queueVars, devVars,
                 must, dropped, snap, ret, flag, cur>>

-----------------------------------------------------------------------------
(* AsyncXQueue::Suspend *)

SuspendCall(t) ==
  /\ MayCall(t, Suspenders) /\ pauseCount < MaxPauses
  /\ \E f \in SuspendFlags : flag' = [flag EXCEPT ![t] = f]
  /\ Goto(t, "Suspend")
  /\ ThreadStep /\ UNCHANGED <<arg, snap, ret, lock, cur>>

\* terminated_ is checked, then suspended_ is set if it was not.
SuspendMark(t) ==
  /\ pc[t] = "Suspend"
  /\ Goto(t, IF terminated \/ suspended THEN "Idle" ELSE "Pause")
  /\ suspended' = (suspended \/ ~terminated)
  /\ UNCHANGED <<bufVars, cmdVars, pauseVars, logVars, configVars, terminated, nextIdx,
                 destroyState, registered, devVars, histVars, localVars, lock, cur>>

Pause(t) ==
  /\ pc[t] = "Pause" /\ lock = NoThread
  /\ wstate' = "Paused"
  /\ pauseCount' = pauseCount + 1
  /\ Goto(t, "Deactivate")
  /\ UNCHANGED <<bufVars, cmdVars, logVars, configVars, queueVars, devVars, histVars,
                 localVars, lock, cur>>

\* Deactivate sets the exit flag; Interrupt makes the running command see it.
Deactivate(t) ==
  /\ pc[t] = "Deactivate"
  /\ exitFlag' = (exitFlag \/ level >= 2)
  /\ Goto(t, IF flag[t] = "Sync" THEN "SuspendSync" ELSE "Idle")
  /\ UNCHANGED <<bufVars, cmdVars, pauseVars, logVars, configVars, queueVars, dev,
                 preemptIdx, execs, histVars, localVars, lock, cur>>

SuspendSync(t) ==
  /\ pc[t] = "SuspendSync" /\ HwFinished(All)
  /\ Goto(t, "Idle")
  /\ ThreadStep /\ UNCHANGED <<localVars, lock, cur>>

Suspend(t) == SuspendMark(t) \/ Pause(t) \/ Deactivate(t) \/ SuspendSync(t)

-----------------------------------------------------------------------------
(* AsyncXQueue::Resume, also called by XQueueManager::Del and ~AsyncXQueue *)

\* Faulty variants: leaving the worker paused, launching the whole log again,
\* keeping dropped commands in the buffer, dropping the next command too.
WakeWorkerForgotten == UNCHANGED wstate
LaunchesAgainAll(c, from) == TRUE
ClearBufferForgotten == UNCHANGED cmds
LastSubmittedTooLate == nextIdx

BeginResume(t, f, label) ==
  /\ flag' = [flag EXCEPT ![t] = f]
  /\ ret' = [ret EXCEPT ![t] = label]
  /\ Goto(t, "Resume")
  /\ BufferStep /\ UNCHANGED <<bufVars, histVars, arg, snap, cur>>

ResumeCall(t) ==
  /\ MayCall(t, Suspenders)
  /\ \E f \in ResumeFlags : BeginResume(t, f, "Idle")
  /\ UNCHANGED queueVars

\* suspended_ is cleared; level Block ignores the flags.
ResumeMark(t) ==
  /\ pc[t] = "Resume"
  /\ Goto(t, IF ~suspended THEN ret[t]
             ELSE IF level = 1 THEN "ResumeWorker" ELSE "Reactivate")
  /\ suspended' = FALSE
  /\ UNCHANGED <<bufVars, cmdVars, pauseVars, logVars, configVars, terminated, nextIdx,
                 destroyState, registered, devVars, histVars, localVars, lock, cur>>

\* Reactivate synchronizes with the stream, then reads and clears the preempt
\* buffer ...
Reactivate(t) ==
  /\ pc[t] = "Reactivate" /\ HwFinished(All)
  /\ arg' = [arg EXCEPT ![t] = IF flag[t] = "Drop" THEN 0 ELSE preemptIdx]
  /\ preemptIdx' = 0
  /\ exitFlag' = FALSE
  /\ Goto(t, IF flag[t] = "Drop" THEN "DropAll"
             ELSE IF preemptIdx = 0 THEN "ResumeWorker" ELSE "Relaunch")
  /\ UNCHANGED <<bufVars, cmdVars, pauseVars, logVars, configVars, queueVars, dev, execs,
                 histVars, snap, ret, flag, lock, cur>>

\* ... and launches the logged commands from the first preempted one on.  The
\* loop over the log, whose position is kept in snap, does not hold the lock.
LaunchesAgain(c, from) == c >= from
RelaunchNext(t) ==
  /\ pc[t] = "Relaunch" /\ snap[t] < Len(cmdLog)
  /\ LET c == cmdLog[snap[t] + 1] IN
     dev' = IF LaunchesAgain(c, arg[t]) THEN Append(dev, DevEntry(c)) ELSE dev
  /\ snap' = [snap EXCEPT ![t] = @ + 1]
  /\ UNCHANGED <<bufVars, cmdVars, pauseVars, logVars, configVars, queueVars, exitFlag,
                 preemptIdx, execs, histVars, pc, arg, ret, flag, lock, cur>>

RelaunchEnd(t) ==
  /\ pc[t] = "Relaunch" /\ snap[t] >= Len(cmdLog)
  /\ Goto(t, "ResumeWorker") /\ arg' = Forget(arg, t) /\ snap' = Forget(snap, t)
  /\ ThreadStep /\ UNCHANGED <<ret, flag, lock, cur>>

WakeWorker == wstate' = "Running"
ResumeWorker(t) ==
  /\ pc[t] = "ResumeWorker" /\ lock = NoThread
  /\ WakeWorker
  /\ Goto(t, ret[t])
  /\ UNCHANGED <<bufVars, cmdVars, pauseCount, logVars, configVars, queueVars, devVars,
                 histVars, localVars, lock, cur>>

\* CommandBuffer::DropAll completes what is buffered.
ClearBuffer == cmds' = <<>>
DropAll(t) ==
  /\ pc[t] = "DropAll"
  /\ Complete(OfType(cmds, "Hardware"))
  /\ waState' = [n \in WaitAlls |-> IF n \in OfType(cmds, "WaitAll") THEN Completed
                                    ELSE waState[n]]
  /\ ClearBuffer
  /\ dropped' = dropped \cup OfType(cmds, "Hardware")
  /\ Goto(t, "DropIdx")
  /\ UNCHANGED <<lastCmd, xqState, waCount, kind, synced, pauseVars, logVars, configVars,
                 queueVars, devVars, must, settled, localVars, lock, cur>>

\* drop_idx is the index of the last command submitted.
LastSubmitted == nextIdx - 1
DropIdx(t) ==
  /\ pc[t] = "DropIdx"
  /\ arg' = [arg EXCEPT ![t] = LastSubmitted]
  /\ Goto(t, "ResumeAndDrop")
  /\ ThreadStep /\ UNCHANGED <<snap, ret, flag, lock, cur>>

ResumeAndDrop(t) ==
  /\ pc[t] = "ResumeAndDrop" /\ lock = NoThread
  /\ Complete(InLog(cmdLog))
  /\ dropped' = dropped \cup InLog(cmdLog)
  /\ syncLog' = <<>> /\ cmdLog' = <<>>
  /\ dropIdx' = arg[t]
  /\ WakeWorker
  /\ Goto(t, ret[t]) /\ arg' = Forget(arg, t)
  /\ UNCHANGED <<bufVars, kind, synced, pauseCount, lastSyncIdx, configVars, queueVars,
                 devVars, must, settled, snap, ret, flag, lock, cur>>

Resume(t) ==
  \/ ResumeMark(t) \/ Reactivate(t) \/ RelaunchNext(t) \/ RelaunchEnd(t)
  \/ ResumeWorker(t)
  \/ DropAll(t) \/ DropIdx(t) \/ ResumeAndDrop(t)

-----------------------------------------------------------------------------
(* AsyncXQueue::SetPreemptLevel and SetLaunchConfig: wait for everything,   *)
(* then change the configuration.  XQueueManager::Del: the queue leaves the *)
(* manager, is resumed and waited for; ~AsyncXQueue runs when the last      *)
(* reference is gone.                                                       *)

\* Faulty variants: changing the launch configuration without waiting, and
\* dropping what is suspended when the queue is deleted.
ConfigureCallAtOnce(t) ==
  /\ MayCall(t, Configurers) /\ LaunchConfigs # {}
  /\ Goto(t, "SetLaunchConfig")
  /\ ThreadStep /\ UNCHANGED <<localVars, lock, cur>>
DelResumeFlagDrop == "Drop"

ConfigureCall(t) ==
  /\ MayCall(t, Configurers)
  /\ \/ Levels # {} /\ BeginWaitAll(t, "SetLevel")
     \/ LaunchConfigs # {} /\ BeginWaitAll(t, "SetLaunchConfig")

Configure(t) ==
  /\ \/ /\ pc[t] = "SetLevel"
        /\ level' \in Levels /\ UNCHANGED <<threshold, batch>>
     \/ /\ pc[t] = "SetLaunchConfig"
        /\ \E c \in LaunchConfigs : threshold' = c[1] /\ batch' = c[2]
        /\ UNCHANGED level
  /\ Goto(t, "Idle")
  /\ UNCHANGED <<bufVars, cmdVars, pauseVars, logVars, queueVars, devVars, histVars,
                 localVars, lock, cur>>

DelResumeFlag == "None"
DelCall(t) ==
  /\ MayCall(t, Destroyers)
  /\ registered' = FALSE
  /\ BeginResume(t, DelResumeFlag, "DelWaitAll")
  /\ UNCHANGED <<suspended, terminated, nextIdx, destroyState>>

DelWaitAll(t) == pc[t] = "DelWaitAll" /\ BeginWaitAll(t, "Release")

\* References are held by calls under way and by commands not yet completed.
Dtor(t) ==
  /\ pc[t] = "Release"
  /\ \A u \in Clients \ {t} : pc[u] = "Idle"
  /\ \A c \in Submitted : hwState[c] = Completed
  /\ terminated' = TRUE
  /\ BeginResume(t, "Drop", "DtorEnqueue")
  /\ UNCHANGED <<suspended, nextIdx, destroyState, registered>>

DtorEnqueue(t) ==
  /\ pc[t] = "DtorEnqueue"
  /\ destroyState' = Pending
  /\ Enqueue(DestroyCmd)
  /\ Goto(t, "DtorWait")
  /\ BufferStep
  /\ UNCHANGED <<suspended, terminated, nextIdx, registered, histVars, localVars, cur>>

DtorReturn(t) ==
  /\ pc[t] = "DtorWait" /\ destroyState = Completed
  /\ Goto(t, "Destroyed")
  /\ ThreadStep /\ UNCHANGED <<localVars, lock, cur>>

-----------------------------------------------------------------------------
(* Specification *)

Call(t) ==
  \/ SubmitIdx(t) \/ WaitAllCall(t) \/ WaitCall(t) \/ SuspendCall(t)
  \/ ResumeCall(t) \/ ConfigureCall(t) \/ DelCall(t)

\* A call that has begun.
Continue(t) ==
  \/ SubmitEnqueue(t) \/ SubmitReturn(t) \/ WaitAllReturn(t)
  \/ WaitInFlight(t) \/ Sync(t) \/ WaitReturn(t) \/ Suspend(t) \/ Resume(t)
  \/ Configure(t) \/ DelWaitAll(t) \/ Dtor(t) \/ DtorEnqueue(t) \/ DtorReturn(t)

\* The constructed queue: its first wait-all is completed, the worker looks
\* for a command.
Init ==
  /\ cmds = <<>> /\ lastCmd = WaitAllCmd(0) /\ xqState = "Idle"
  /\ waCount = 1 /\ waState = [n \in WaitAlls |-> IF n = 0 THEN Completed ELSE Created]
  /\ hwState = [c \in Idx |-> Created] /\ kind = [c \in Idx |-> "callback"]
  /\ synced = {}
  /\ wstate = "Running" /\ pauseCount = 0 /\ cmdLog = <<>> /\ syncLog = <<>>
  /\ lastSyncIdx = -1 /\ dropIdx = -1 /\ cur = WaitAllCmd(0) /\ lock = NoThread
  /\ level = Level0 /\ threshold = Threshold0 /\ batch = Batch0
  /\ suspended = FALSE /\ terminated = FALSE /\ nextIdx = 1
  /\ destroyState = Created /\ registered = TRUE
  /\ pc = [t \in Threads |-> IF t = Worker THEN "Dequeue" ELSE "Idle"]
  /\ arg = [t \in Threads |-> 0] /\ snap = [t \in Threads |-> 0]
  /\ ret = [t \in Threads |-> "Idle"] /\ flag = [t \in Threads |-> "None"]
  /\ dev = <<>> /\ exitFlag = FALSE /\ preemptIdx = 0
  /\ execs = [c \in Idx |-> 0]
  /\ must = [t \in Threads |-> {}] /\ settled = {} /\ dropped = {}

Next ==
  \/ HwRetire
  \/ WorkerLoop
  \/ \E t \in Clients : Call(t) \/ Continue(t)

Spec == Init /\ [][Next]_vars

\* The worker thread and the hardware keep going, a call that has begun is
\* carried on, and a suspended queue that is still registered is resumed: the
\* scheduler resumes what it suspended.
Fairness ==
  /\ WF_vars(HwRetire)
  /\ WF_vars(WorkerLoop)
  /\ \A t \in Clients : WF_vars(Continue(t))
  /\ \A t \in Suspenders : WF_vars(suspended /\ ResumeCall(t))

FairSpec == Spec /\ Fairness

-----------------------------------------------------------------------------
(* Properties *)

Labels ==
  {"Idle", "Submit", "SubmitBlocked", "WaitAll", "WaitInFlight",
   "WaitCompleted", "WaitDone", "Sync", "SyncPaused", "SyncHw", "SyncRelock",
   "Suspend", "Pause", "Deactivate", "SuspendSync", "Resume", "Reactivate",
   "Relaunch", "ResumeWorker", "DropAll", "DropIdx", "ResumeAndDrop", "SetLevel",
   "SetLaunchConfig", "DelWaitAll", "Release", "DtorEnqueue", "DtorWait",
   "Destroyed", "Dequeue", "DequeueWait", "Dequeued", "Threshold", "Launch",
   "LaunchPaused", "WaitAllDone", "BatchSyncDone", "DestroyDone", "Exited"}

BufferType ==
  /\ cmds \in Seq(XCommand) /\ lastCmd \in XCommand
  /\ xqState \in {"Idle", "Ready"}
  /\ waCount \in Nat /\ waState \in [WaitAlls -> CommandState]
CommandType ==
  /\ hwState \in [Idx -> CommandState] /\ kind \in [Idx -> Kind]
  /\ synced \in SUBSET Idx
PauseType ==
  wstate \in {"Running", "Paused", "Terminated"} /\ pauseCount \in Nat
LogType ==
  /\ cmdLog \in Seq(Idx) /\ syncLog \in Seq(Idx)
  /\ lastSyncIdx \in Int /\ dropIdx \in -1..MaxCmds
ConfigType ==
  level \in Level /\ threshold \in Nat \ {0} /\ batch \in Nat \ {0}
QueueType ==
  /\ suspended \in BOOLEAN /\ terminated \in BOOLEAN /\ registered \in BOOLEAN
  /\ nextIdx \in 1..(MaxCmds + 1) /\ destroyState \in CommandState
DeviceType ==
  /\ dev \in Seq([cmd : Idx, guarded : BOOLEAN])
  /\ exitFlag \in BOOLEAN /\ preemptIdx \in 0..MaxCmds
  /\ execs \in [Idx -> 0..2]
HistoryType ==
  must \in [Threads -> SUBSET Idx] /\ settled \in SUBSET Idx /\ dropped \in SUBSET Idx
ThreadType ==
  /\ pc \in [Threads -> Labels] /\ ret \in [Threads -> Labels]
  /\ arg \in [Threads -> Nat] /\ snap \in [Threads -> Nat]
  /\ flag \in [Threads -> {"None", "Sync", "Drop"}]
  /\ lock \in Threads \cup {NoThread} /\ cur \in XCommand

\* Every variable has its type; in particular drop_idx never exceeds the index
\* of the last command.
TypeOK ==
  /\ BufferType /\ CommandType /\ PauseType /\ LogType /\ ConfigType
  /\ QueueType /\ DeviceType /\ HistoryType /\ ThreadType

\* SetState asserts that the state of a command never goes back: no thread
\* moves a command to an earlier state, however the worker, the waiters and a
\* dropping resume interleave.
NeverGoesBack ==
  [][/\ \A c \in Idx : hwState'[c] >= hwState[c]
     /\ \A n \in WaitAlls : waState'[n] >= waState[n]]_vars

\* At most threshold commands are in flight.
InFlightBound == Len(cmdLog) <= threshold

\* A command is reported completed only after it took effect on the hardware,
\* unless a resume dropped it: no synchronization completes a command that is
\* still queued or was flushed by a deactivation.
CompletedMeansExecuted ==
  \A c \in Idx : hwState[c] = Completed => execs[c] > 0 \/ c \in dropped

\* A command that is not idempotent takes effect at most once, however often
\* the queue is deactivated and its log launched again.
AtMostOnce == \A c \in Idx : ~Idempotent(c) => execs[c] < 2

\* A command that writes memory takes effect only after all commands submitted
\* before it have (or have been dropped): deactivation never lets a later
\* command overtake a flushed one.
InOrder ==
  [][\A c \in Idx : execs'[c] > execs[c] /\ ~Idempotent(c)
       => \A b \in 1..(c - 1) : execs[b] > 0 \/ b \in dropped]_vars

\* When XQueueWaitAll or XQueueWait has returned, the commands it waited for
\* are completed.
SettledCompleted == \A c \in settled : hwState[c] = Completed

\* When XQueueWaitAll or XQueueWait has returned, the commands it waited for
\* have no further effect.
SettledQuiet == [][\A c \in settled : execs'[c] = execs[c]]_vars

\* A queue that reports idle has nothing left to do: every submitted command
\* is completed and the command WaitAll returns is completed.
IdleMeansDone ==
  xqState = "Idle" =>
    /\ \A c \in Submitted : hwState[c] = Completed
    /\ lastCmd.type = "WaitAll" => waState[lastCmd.id] = Completed

\* Commands are only launched while the worker is running.
NoLaunchWhilePaused ==
  [][\A c \in Idx : hwState[c] # InFlight /\ hwState'[c] = InFlight
       => wstate = "Running"]_vars

\* When no suspend or resume is under way, the worker is paused exactly if the
\* queue is marked suspended.
Switching(t) ==
  pc[t] \in {"Pause", "Deactivate", "SuspendSync", "Reactivate", "Relaunch",
             "ResumeWorker", "DropAll", "DropIdx", "ResumeAndDrop"}
SuspendedMeansPaused ==
  (\A t \in Clients : ~Switching(t)) => (suspended <=> wstate = "Paused")

\* Destroying the queue loses nothing, although the destructor resumes with
\* the drop flag: when XQueueDestroy has returned the worker has ended, the
\* hardware is drained and every submitted command took effect.
DestroyLosesNothing ==
  (\E t \in Clients : pc[t] = "Destroyed") =>
    /\ pc[Worker] = "Exited" /\ dev = <<>> /\ cmds = <<>>
    /\ \A c \in Submitted : execs[c] > 0

\* Every call eventually returns.
CallsReturn == \A t \in Clients : pc[t] # "Idle" ~> pc[t] \in {"Idle", "Destroyed"}

\* The queue eventually reports idle: commands run out and nothing is left over.
BecomesIdle == xqState = "Ready" ~> (xqState = "Idle" \/ \E t \in Clients : pc[t] = "Destroyed")

=============================================================================

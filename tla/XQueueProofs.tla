---------------------------- MODULE XQueueProofs ----------------------------
(***************************************************************************)
(* Two properties of XQueue, for any number of client threads in any       *)
(* roles, any configuration and any bounds: the type invariant, and that   *)
(* the state of a command never goes back.  TypeOK is inductive together   *)
(* with ControlOK, which says where the threads return to and that they    *)
(* have the arguments they need there; the second property needs Owned,    *)
(* which says who may still change the state of a command.                 *)
(*                                                                         *)
(* Then how the XQueue is controlled: who may hold the worker's mutex, how *)
(* the log of commands in flight and the log of synchronizable ones are    *)
(* kept together, and how suspend, resume and destruction follow each      *)
(* other.  Three properties are proved from this for any number of         *)
(* commands and pauses, any thresholds and any number of threads:          *)
(*                                                                         *)
(*   - InFlightBound, if the launch configuration is not changed, however  *)
(*     many threads submit, wait, suspend, resume and drop;                *)
(*   - SuspendedMeansPaused, if one thread controls the queue;             *)
(*   - NoLaunchWhilePaused, if no thread calls XQueueWait and none resumes *)
(*     with the drop flag.                                                 *)
(*                                                                         *)
(* Each hypothesis is a condition on the constants and is needed: a queue  *)
(* that violates it has a behaviour that violates the property.            *)
(***************************************************************************)
EXTENDS XQueue, SequenceTheorems, WellFoundedInduction, TLAPS

-----------------------------------------------------------------------------
(* The inductive invariant *)

SyncLabels == {"Sync", "SyncPaused", "SyncHw", "SyncRelock"}
ResumeLabels == {"Resume", "Reactivate", "Relaunch", "ResumeWorker", "DropAll",
                 "DropIdx", "ResumeAndDrop"}

\* Where the worker continues after a synchronization, and where it is while it
\* launches a command.
WorkerRets == {"Threshold", "Launch", "WaitAllDone", "BatchSyncDone", "DestroyDone"}
Launching ==
  \/ pc[Worker] \in {"Threshold", "Launch", "LaunchPaused"}
  \/ pc[Worker] \in SyncLabels /\ ret[Worker] \in {"Threshold", "Launch"}

\* Threads return to where they were called from, with the argument they need
\* there.
ClientControl(t) ==
  /\ pc[t] \in SyncLabels \cup {"Submit", "SubmitBlocked", "WaitInFlight", "WaitCompleted",
                                "WaitDone"} => arg[t] \in Idx
  /\ pc[t] \in SyncLabels => ret[t] = "WaitDone"
  /\ pc[t] = "WaitAll" => ret[t] \in {"Idle", "SetLevel", "SetLaunchConfig", "Release"}
  /\ pc[t] \in ResumeLabels => ret[t] \in {"Idle", "DelWaitAll", "DtorEnqueue"}
  /\ pc[t] = "ResumeAndDrop" => arg[t] \in 0..MaxCmds
ControlOK ==
  /\ \A t \in Clients : ClientControl(t)
  /\ pc[Worker] \in SyncLabels => ret[Worker] \in WorkerRets
  /\ Launching => cur.type = "Hardware"

-----------------------------------------------------------------------------
(* Facts about the logs *)

\* A nonempty set of naturals has a least element, and FirstOf is that element.
LEMMA FirstOfIsLeast ==
  ASSUME NEW S \in SUBSET Nat, S # {}
  PROVE  FirstOf(S) \in S /\ \A k \in S : FirstOf(S) <= k
<1> DEFINE R == {ss \in Nat \X Nat : ss[1] < ss[2]}
<1>1. IsWellFoundedOn(R, Nat)
  BY NatLessThanWellFounded DEF OpToRel
<1>2. PICK x \in S : \A y \in S : ~(<<y, x>> \in R)
  <2> HIDE DEF R
  <2> QED BY <1>1, WFMin
<1>3. ASSUME NEW y \in S PROVE x <= y
  <2>1. x \in Nat /\ y \in Nat
    OBVIOUS
  <2>2. ~(y < x)
    BY <1>2, <2>1
  <2>3. QED
    BY <2>1, <2>2
<1>4. QED
  BY <1>3 DEF FirstOf

\* The loop that pops a log stops at the end of the log at the latest.
LEMMA PopCountType ==
  ASSUME NEW log \in Seq(Idx), NEW target
  PROVE  PopCount(log, target) \in 0..Len(log)
<1> DEFINE S == {k \in 0..Len(log) : k < Len(log) => ~FinishedWith(log[k + 1], target)}
<1>1. Len(log) \in Nat
  BY LenProperties
<1>2. Len(log) \in S
  BY <1>1
<1>3. S \in SUBSET Nat /\ S # {}
  BY <1>1, <1>2
<1>4. FirstOf(S) \in S
  <2> HIDE DEF S
  <2> QED BY <1>3, FirstOfIsLeast
<1>5. QED
  BY <1>4 DEF PopCount

\* What remains of a log of commands is a log of commands ...
LEMMA PopThroughType ==
  ASSUME NEW log \in Seq(Idx), NEW target
  PROVE  PopThrough(log, target) \in Seq(Idx)
<1>1. PICK k \in 0..Len(log) : k = PopCount(log, target)
  BY PopCountType
<1>2. \A i \in (k + 1)..Len(log) : log[i] \in Idx
  BY <1>1, LenProperties, ElementOfSeq
<1>3. SubSeq(log, k + 1, Len(log)) \in Seq(Idx)
  BY <1>1, <1>2, LenProperties, SubSeqProperties
<1>4. QED
  BY <1>1, <1>3 DEF PopThrough

\* ... and what is popped is a set of commands.
LEMMA PoppedType ==
  ASSUME NEW log \in Seq(Idx), NEW target
  PROVE  Popped(log, target) \in SUBSET Idx
BY PopCountType, LenProperties, ElementOfSeq DEF Popped


-----------------------------------------------------------------------------
(* Facts about types *)

\* Indices and waiting targets are natural numbers.
LEMMA IdxNat == Idx \in SUBSET Nat
BY InputAssumption DEF Idx

\* The four states of a command.
LEMMA CommandStates ==
  /\ Created \in CommandState /\ Pending \in CommandState
  /\ InFlight \in CommandState /\ Completed \in CommandState
BY DEF CommandState, Created, Pending, InFlight, Completed

\* The fields of a command ...
LEMMA CommandFields ==
  ASSUME NEW c \in XCommand
  PROVE  c.id \in Nat /\ (c.type = "Hardware" => c.id \in Idx)
BY InputAssumption DEF XCommand, Idx, BatchSync, DestroyCmd

\* ... and the commands the queue makes.
LEMMA CommandsMade ==
  /\ \A i \in Idx : Hardware(i) \in XCommand
  /\ \A n \in Nat : WaitAllCmd(n) \in XCommand
  /\ BatchSync \in XCommand /\ DestroyCmd \in XCommand
BY DEF XCommand, Hardware, WaitAllCmd

\* The elements of the logs are commands.
LEMMA LogElements ==
  ASSUME LogType
  PROVE  /\ Len(cmdLog) \in Nat /\ \A j \in 1..Len(cmdLog) : cmdLog[j] \in Idx
         /\ Len(syncLog) \in Nat /\ \A j \in 1..Len(syncLog) : syncLog[j] \in Idx
         /\ syncLog # <<>> => syncLog[1] \in Idx
BY LenProperties, ElementOfSeq, EmptySeq DEF LogType

\* The hardware commands in the buffer.
LEMMA BufferedIdx ==
  ASSUME TypeOK
  PROVE  OfType(cmds, "Hardware") \in SUBSET Idx
BY CommandFields, ElementOfSeq, LenProperties DEF TypeOK, BufferType, OfType

\* What the worker is about to launch is a hardware command.
LEMMA LaunchingIdx ==
  ASSUME TypeOK, ControlOK, pc[Worker] = "Launch"
  PROVE  cur.id \in Idx
BY CommandFields DEF TypeOK, ThreadType, ControlOK, Launching

\* What a full log, or a command that must not overtake kernels, waits for.
LEMMA SyncTargetType ==
  ASSUME TypeOK
  PROVE  /\ SyncAfterAt # {} => cmdLog[FirstOf(SyncAfterAt)] \in Idx
         /\ SyncFreeingAt # {} => syncLog[FirstOf(SyncFreeingAt)] \in Idx
<1>1. /\ Len(cmdLog) \in Nat /\ \A j \in 1..Len(cmdLog) : cmdLog[j] \in Idx
      /\ Len(syncLog) \in Nat /\ \A j \in 1..Len(syncLog) : syncLog[j] \in Idx
  BY LogElements DEF TypeOK
<1>2. /\ SyncAfterAt \in SUBSET Nat /\ SyncAfterAt \in SUBSET (1..Len(cmdLog))
      /\ SyncFreeingAt \in SUBSET Nat /\ SyncFreeingAt \in SUBSET (1..Len(syncLog))
  BY <1>1 DEF SyncAfterAt, SyncFreeingAt
<1>3. QED
  BY <1>1, <1>2, FirstOfIsLeast

\* What a launch puts on the hardware queue.
LEMMA DevEntryType ==
  ASSUME NEW c \in Idx
  PROVE  DevEntry(c) \in [cmd : Idx, guarded : BOOLEAN]
BY DEF DevEntry, Deactivatable

\* Variables that do not change keep their types ...
LEMMA TypeFrame ==
  ASSUME TypeOK
  PROVE  /\ UNCHANGED bufVars => BufferType'
         /\ UNCHANGED cmdVars => CommandType'
         /\ UNCHANGED pauseVars => PauseType'
         /\ UNCHANGED logVars => LogType'
         /\ UNCHANGED configVars => ConfigType'
         /\ UNCHANGED queueVars => QueueType'
         /\ UNCHANGED devVars => DeviceType'
         /\ UNCHANGED histVars => HistoryType'
         /\ UNCHANGED <<pc, localVars, lock, cur>> => ThreadType'
BY DEF TypeOK, BufferType, CommandType, PauseType, LogType, ConfigType, QueueType,
       DeviceType, HistoryType, ThreadType, bufVars, cmdVars, pauseVars, logVars,
       configVars, queueVars, devVars, histVars, localVars

\* ... and threads that do not move keep their control state ...
LEMMA ControlFrame ==
  ASSUME ControlOK, UNCHANGED <<pc, localVars, cur>>
  PROVE  ControlOK'
BY DEF ControlOK, ClientControl, Launching, localVars

\* ... also when another thread moves.
LEMMA ClientControlFrame ==
  ASSUME TypeOK, ControlOK, NEW t \in Clients, ClientControl(t)', cur' = cur,
         \A u \in Threads \ {t} : pc'[u] = pc[u] /\ arg'[u] = arg[u] /\ ret'[u] = ret[u]
  PROVE  ControlOK'
<1>1. Worker \in Threads \ {t}
  BY ThreadsAssumption DEF Threads
<1>2. ASSUME NEW u \in Clients PROVE ClientControl(u)'
  <2>1. CASE u = t
    BY <2>1
  <2>2. CASE u # t
    BY <2>2 DEF Threads, ControlOK, ClientControl
  <2>3. QED
    BY <2>1, <2>2
<1>3. QED
  BY <1>1, <1>2 DEF ControlOK, Launching

\* Beginning a WaitAll.
LEMMA BeginWaitAllTyped ==
  ASSUME TypeOK, NEW t \in Clients, NEW label \in Labels, BeginWaitAll(t, label)
  PROVE  BufferType' /\ HistoryType' /\ ThreadType'
<1>1. BufferType'
  <2>1. WaitAllCmd(waCount) \in XCommand
    BY CommandsMade DEF TypeOK, BufferType
  <2>2. Append(cmds, WaitAllCmd(waCount)) \in Seq(XCommand)
    BY <2>1, AppendProperties DEF TypeOK, BufferType
  <2>3. waState' \in [WaitAlls -> CommandState]
    BY CommandStates DEF TypeOK, BufferType, BeginWaitAll, EnqueueWaitAll, bufVars
  <2>4. cmds' \in Seq(XCommand) /\ lastCmd' \in XCommand
    BY <2>1, <2>2 DEF TypeOK, BufferType, BeginWaitAll, EnqueueWaitAll, bufVars
  <2>5. QED
    BY <2>3, <2>4 DEF TypeOK, BufferType, BeginWaitAll, EnqueueWaitAll, bufVars
<1>2. HistoryType'
  BY DEF TypeOK, HistoryType, BeginWaitAll, Submitted, Threads, histVars
<1>3. lastCmd.id \in Nat /\ waCount \in Nat
  BY CommandFields DEF TypeOK, BufferType
<1>4. ThreadType'
  BY <1>3 DEF TypeOK, ThreadType, BeginWaitAll, EnqueueWaitAll, BufferStep, Goto, Threads,
     Labels, localVars
<1>5. QED
  BY <1>1, <1>2, <1>4

\* The thread that waits for everything returns to where it was called.
LEMMA BeginWaitAllControl ==
  ASSUME TypeOK, ControlOK, NEW t \in Clients,
         NEW label \in {"Idle", "SetLevel", "SetLaunchConfig", "Release"},
         BeginWaitAll(t, label)
  PROVE  ControlOK'
<1>1. pc'[t] = "WaitAll" /\ ret'[t] = label
  BY DEF TypeOK, ThreadType, BeginWaitAll, Goto, Threads
<1>2. ClientControl(t)'
  BY <1>1 DEF ClientControl, SyncLabels, ResumeLabels
<1>3. \A u \in Threads \ {t} : pc'[u] = pc[u] /\ arg'[u] = arg[u] /\ ret'[u] = ret[u]
  BY DEF TypeOK, ThreadType, BeginWaitAll, EnqueueWaitAll, Goto
<1>4. QED
  BY <1>2, <1>3, ClientControlFrame DEF BeginWaitAll

-----------------------------------------------------------------------------
(* The hardware and the command buffer *)

\* HwRetire keeps the types and the control state.
LEMMA HwRetireTyped ==
  ASSUME TypeOK, ControlOK, HwRetire
  PROVE  TypeOK' /\ ControlOK'
<1>1. /\ BufferType' /\ CommandType' /\ PauseType' /\ LogType'
      /\ ConfigType' /\ QueueType' /\ HistoryType' /\ ThreadType'
  BY TypeFrame DEF HwRetire
<1>2. DeviceType'
  <2> DEFINE Entry == [cmd : Idx, guarded : BOOLEAN]
  <2>1. Head(dev) \in Entry /\ Tail(dev) \in Seq(Entry)
    BY HeadTailProperties DEF TypeOK, DeviceType, HwRetire
  <2>2. Head(dev).cmd \in Idx
    BY <2>1
  <2>3. preemptIdx' \in 0..MaxCmds
    BY <2>2, InputAssumption DEF TypeOK, DeviceType, HwRetire, Idx
  <2>4. execs' \in [Idx -> 0..2]
    BY <2>2 DEF TypeOK, DeviceType, HwRetire
  <2>5. QED
    BY <2>1, <2>3, <2>4 DEF TypeOK, DeviceType, HwRetire
<1>3. ControlOK'
  BY ControlFrame DEF HwRetire
<1>4. QED
  BY <1>1, <1>2, <1>3 DEF TypeOK

\* DequeueFront keeps the types and the control state.
LEMMA DequeueFrontTyped ==
  ASSUME TypeOK, ControlOK, DequeueFront, BufferStep, UNCHANGED <<queueVars, histVars, localVars>>
  PROVE  TypeOK' /\ ControlOK'
<1>1. /\ CommandType' /\ PauseType' /\ LogType' /\ ConfigType'
      /\ QueueType' /\ DeviceType' /\ HistoryType'
  BY TypeFrame DEF DequeueFront, BufferStep
<1>2. BufferType'
  BY HeadTailProperties DEF TypeOK, BufferType, DequeueFront, BufferStep
<1>3. ThreadType'
  BY HeadTailProperties DEF TypeOK, ThreadType, BufferType, DequeueFront, Goto,
    BufferStep, Threads, Labels, localVars
<1>4. ControlOK'
  BY ThreadsAssumption DEF TypeOK, ThreadType, ControlOK, ClientControl, Launching,
    SyncLabels, ResumeLabels, WorkerRets, DequeueFront, Goto, BufferStep, localVars,
    Threads
<1>5. QED
  BY <1>1, <1>2, <1>3, <1>4 DEF TypeOK

\* DequeueIdle keeps the types and the control state.
LEMMA DequeueIdleTyped ==
  ASSUME TypeOK, ControlOK, DequeueIdle, BufferStep, UNCHANGED <<queueVars, histVars, localVars>>
  PROVE  TypeOK' /\ ControlOK'
<1>1. /\ CommandType' /\ PauseType' /\ LogType' /\ ConfigType'
      /\ QueueType' /\ DeviceType' /\ HistoryType'
  BY TypeFrame DEF DequeueIdle, BufferStep
<1>2. BufferType'
  BY DEF TypeOK, BufferType, ReportIdle, DequeueIdle, BufferStep
<1>3. ThreadType'
  BY DEF TypeOK, ThreadType, DequeueIdle, Goto, BufferStep, Threads, Labels, localVars
<1>4. ControlOK'
  BY ThreadsAssumption DEF TypeOK, ThreadType, ControlOK, ClientControl, Launching,
    SyncLabels, ResumeLabels, WorkerRets, DequeueIdle, Goto, BufferStep, localVars,
    Threads
<1>5. QED
  BY <1>1, <1>2, <1>3, <1>4 DEF TypeOK

\* DequeueGenWaitAll keeps the types and the control state.
LEMMA DequeueGenWaitAllTyped ==
  ASSUME TypeOK, ControlOK, DequeueGenWaitAll, BufferStep, UNCHANGED <<queueVars, histVars, localVars>>
  PROVE  TypeOK' /\ ControlOK'
<1>1. /\ CommandType' /\ PauseType' /\ LogType' /\ ConfigType'
      /\ QueueType' /\ DeviceType' /\ HistoryType'
  BY TypeFrame DEF DequeueGenWaitAll, BufferStep
<1>2. BufferType'
  <2>1. waState' \in [WaitAlls -> CommandState]
    BY CommandStates DEF TypeOK, BufferType, DequeueGenWaitAll
  <2>2. QED
    BY <2>1, CommandsMade DEF TypeOK, BufferType, DequeueGenWaitAll
<1>3. ThreadType'
  BY CommandsMade DEF TypeOK, ThreadType, BufferType, DequeueGenWaitAll, Goto,
    BufferStep, Threads, Labels, localVars
<1>4. ControlOK'
  BY ThreadsAssumption DEF TypeOK, ThreadType, ControlOK, ClientControl, Launching,
    SyncLabels, ResumeLabels, WorkerRets, DequeueGenWaitAll, Goto, BufferStep,
    localVars, Threads
<1>5. QED
  BY <1>1, <1>2, <1>3, <1>4 DEF TypeOK

\* DequeueGenBatchSync keeps the types and the control state.
LEMMA DequeueGenBatchSyncTyped ==
  ASSUME TypeOK, ControlOK, DequeueGenBatchSync, BufferStep, UNCHANGED <<queueVars, histVars, localVars>>
  PROVE  TypeOK' /\ ControlOK'
<1>1. /\ CommandType' /\ PauseType' /\ LogType' /\ ConfigType'
      /\ QueueType' /\ DeviceType' /\ HistoryType'
  BY TypeFrame DEF DequeueGenBatchSync, BufferStep
<1>2. BufferType'
  BY CommandsMade DEF TypeOK, BufferType, DequeueGenBatchSync, BufferStep
<1>3. ThreadType'
  BY CommandsMade DEF TypeOK, ThreadType, DequeueGenBatchSync, Goto, BufferStep,
    Threads, Labels, localVars
<1>4. ControlOK'
  BY ThreadsAssumption DEF TypeOK, ThreadType, ControlOK, ClientControl, Launching,
    SyncLabels, ResumeLabels, WorkerRets, DequeueGenBatchSync, Goto, BufferStep,
    localVars, Threads
<1>5. QED
  BY <1>1, <1>2, <1>3, <1>4 DEF TypeOK

-----------------------------------------------------------------------------
(* Synchronization *)

\* SyncCheck keeps the types and the control state.
LEMMA SyncCheckTyped ==
  ASSUME TypeOK, ControlOK, NEW t \in Threads, SyncCheck(t)
  PROVE  TypeOK' /\ ControlOK'
<1>1. /\ BufferType' /\ CommandType' /\ PauseType' /\ LogType'
      /\ ConfigType' /\ QueueType' /\ DeviceType' /\ HistoryType'
  BY TypeFrame DEF SyncCheck, ThreadStep
<1>2. ThreadType'
  BY DEF TypeOK, ThreadType, PauseType, SyncCheck, Goto, ThreadStep, Threads, Labels
<1>3. ControlOK'
  BY ThreadsAssumption DEF TypeOK, ThreadType, ControlOK, ClientControl, Launching,
    SyncLabels, ResumeLabels, WorkerRets, SyncCheck, Goto, ThreadStep, Threads
<1>4. QED
  BY <1>1, <1>2, <1>3 DEF TypeOK

\* SyncHw keeps the types and the control state.
LEMMA SyncHwTyped ==
  ASSUME TypeOK, ControlOK, NEW t \in Threads, SyncHw(t)
  PROVE  TypeOK' /\ ControlOK'
<1>1. /\ BufferType' /\ CommandType' /\ PauseType' /\ LogType'
      /\ ConfigType' /\ QueueType' /\ DeviceType' /\ HistoryType'
  BY TypeFrame DEF SyncHw, ThreadStep
<1>2. ThreadType'
  BY DEF TypeOK, ThreadType, SyncHw, Goto, ThreadStep, Threads, Labels, localVars
<1>3. ControlOK'
  BY ThreadsAssumption DEF TypeOK, ThreadType, ControlOK, ClientControl, Launching,
    SyncLabels, ResumeLabels, WorkerRets, SyncHw, Goto, ThreadStep, localVars, Threads
<1>4. QED
  BY <1>1, <1>2, <1>3 DEF TypeOK

\* SyncRelock keeps the types and the control state.
LEMMA SyncRelockTyped ==
  ASSUME TypeOK, ControlOK, NEW t \in Threads, SyncRelock(t)
  PROVE  TypeOK' /\ ControlOK'
<1>1. /\ BufferType' /\ PauseType' /\ ConfigType'
      /\ QueueType' /\ DeviceType' /\ HistoryType'
  BY TypeFrame DEF SyncRelock
<1>2. CommandType'
  BY CommandStates DEF TypeOK, CommandType, Complete, SyncRelock
<1>3. LogType'
  BY PopThroughType DEF TypeOK, LogType, SyncRelock
<1>4. ThreadType'
  BY DEF TypeOK, ThreadType, SyncRelock, Goto, Forget, Threads, Labels
<1>5. ControlOK'
  BY ThreadsAssumption DEF TypeOK, ThreadType, ControlOK, ClientControl, Launching,
    SyncLabels, ResumeLabels, WorkerRets, SyncRelock, Goto, Forget, Threads
<1>6. QED
  BY <1>1, <1>2, <1>3, <1>4, <1>5 DEF TypeOK

-----------------------------------------------------------------------------
(* Launching *)

\* LaunchEnter keeps the types and the control state.
LEMMA LaunchEnterTyped ==
  ASSUME TypeOK, ControlOK, LaunchEnter
  PROVE  TypeOK' /\ ControlOK'
<1>1. /\ BufferType' /\ CommandType' /\ PauseType' /\ LogType'
      /\ ConfigType' /\ QueueType' /\ DeviceType' /\ HistoryType'
  BY TypeFrame DEF LaunchEnter, ThreadStep
<1>2. ThreadType'
  <2>1. (IF SyncAfterAt = {} THEN All ELSE cmdLog[FirstOf(SyncAfterAt)]) \in Nat
    BY IdxNat, SyncTargetType DEF TypeOK, All
  <2>2. pc' \in [Threads -> Labels] /\ ret' \in [Threads -> Labels]
    BY DEF TypeOK, ThreadType, LaunchEnter, CallSync, Goto, Labels
  <2>3. arg' \in [Threads -> Nat]
    BY <2>1 DEF TypeOK, ThreadType, LaunchEnter, CallSync
  <2>4. QED
    BY <2>2, <2>3 DEF TypeOK, ThreadType, LaunchEnter, Threads
<1>3. ControlOK'
  BY ThreadsAssumption DEF TypeOK, ThreadType, ControlOK, ClientControl, Launching,
    SyncLabels, ResumeLabels, WorkerRets, LaunchEnter, CallSync, Goto, ThreadStep,
    Threads
<1>4. QED
  BY <1>1, <1>2, <1>3 DEF TypeOK

\* LaunchThreshold keeps the types and the control state.
LEMMA LaunchThresholdTyped ==
  ASSUME TypeOK, ControlOK, LaunchThreshold
  PROVE  TypeOK' /\ ControlOK'
<1>1. /\ BufferType' /\ CommandType' /\ PauseType' /\ LogType'
      /\ ConfigType' /\ QueueType' /\ DeviceType' /\ HistoryType'
  BY TypeFrame DEF LaunchThreshold, ThreadStep
<1>2. ThreadType'
  <2>1. (IF SyncFreeingAt = {} THEN All ELSE syncLog[FirstOf(SyncFreeingAt)]) \in Nat
    BY IdxNat, SyncTargetType DEF TypeOK, All
  <2>2. pc' \in [Threads -> Labels] /\ ret' \in [Threads -> Labels]
    BY DEF TypeOK, ThreadType, LaunchThreshold, CallSync, Goto, Labels
  <2>3. arg' \in [Threads -> Nat]
    BY <2>1 DEF TypeOK, ThreadType, LaunchThreshold, CallSync
  <2>4. QED
    BY <2>2, <2>3 DEF TypeOK, ThreadType, LaunchThreshold, Threads
<1>3. ControlOK'
  BY ThreadsAssumption DEF TypeOK, ThreadType, ControlOK, ClientControl, Launching,
    SyncLabels, ResumeLabels, WorkerRets, LaunchThreshold, CallSync, Goto, ThreadStep,
    Threads
<1>4. QED
  BY <1>1, <1>2, <1>3 DEF TypeOK

\* LaunchResumed keeps the types and the control state.
LEMMA LaunchResumedTyped ==
  ASSUME TypeOK, ControlOK, LaunchResumed
  PROVE  TypeOK' /\ ControlOK'
<1>1. /\ BufferType' /\ CommandType' /\ PauseType' /\ LogType'
      /\ ConfigType' /\ QueueType' /\ DeviceType' /\ HistoryType'
  BY TypeFrame DEF LaunchResumed, ThreadStep
<1>2. ThreadType'
  BY DEF TypeOK, ThreadType, LaunchResumed, Goto, ThreadStep, Threads, Labels,
    localVars
<1>3. ControlOK'
  BY ThreadsAssumption DEF TypeOK, ThreadType, ControlOK, ClientControl, Launching,
    SyncLabels, ResumeLabels, WorkerRets, LaunchResumed, Goto, ThreadStep, localVars,
    Threads
<1>4. QED
  BY <1>1, <1>2, <1>3 DEF TypeOK

\* LaunchDrop keeps the types and the control state.
LEMMA LaunchDropTyped ==
  ASSUME TypeOK, ControlOK, LaunchDrop
  PROVE  TypeOK' /\ ControlOK'
<1>1. /\ BufferType' /\ PauseType' /\ LogType'
      /\ ConfigType' /\ QueueType' /\ DeviceType'
  BY TypeFrame DEF LaunchDrop
<1>2. CommandType'
  BY CommandStates DEF TypeOK, CommandType, Complete, LaunchDrop
<1>3. HistoryType'
  BY LaunchingIdx DEF TypeOK, HistoryType, LaunchDrop
<1>4. ThreadType'
  BY DEF TypeOK, ThreadType, LaunchDrop, Goto, Forget, Threads, Labels
<1>5. ControlOK'
  BY ThreadsAssumption DEF TypeOK, ThreadType, ControlOK, ClientControl, Launching,
    SyncLabels, ResumeLabels, WorkerRets, LaunchDrop, Goto, Forget, Threads
<1>6. QED
  BY <1>1, <1>2, <1>3, <1>4, <1>5 DEF TypeOK

\* LaunchCommand keeps the types and the control state.
LEMMA LaunchCommandTyped ==
  ASSUME TypeOK, ControlOK, LaunchCommand
  PROVE  TypeOK' /\ ControlOK'
<1>1. BufferType' /\ PauseType' /\ ConfigType' /\ QueueType' /\ HistoryType'
  BY TypeFrame DEF LaunchCommand
<1>2. CommandType'
  BY LaunchingIdx, CommandStates DEF TypeOK, CommandType, LaunchCommand
<1>3. LogType'
  <2>1. cur.id \in Idx
    BY LaunchingIdx DEF LaunchCommand
  <2>2. Append(cmdLog, cur.id) \in Seq(Idx) /\ Append(syncLog, cur.id) \in Seq(Idx)
    BY <2>1, AppendProperties DEF TypeOK, LogType
  <2>3. cur.id \in Int
    BY <2>1 DEF Idx
  <2>4. QED
    BY <2>2, <2>3 DEF TypeOK, LogType, LaunchCommand
<1>4. DeviceType'
  <2>1. cur.id \in Idx
    BY LaunchingIdx DEF LaunchCommand
  <2>2. QED
    BY <2>1, DevEntryType, AppendProperties DEF TypeOK, DeviceType, LaunchCommand
<1>5. ThreadType'
  BY DEF TypeOK, ThreadType, LaunchCommand, Goto, Forget, Threads, Labels
<1>6. ControlOK'
  BY ThreadsAssumption DEF TypeOK, ThreadType, ControlOK, ClientControl, Launching,
    SyncLabels, ResumeLabels, WorkerRets, LaunchCommand, Goto, Forget, Threads
<1>7. QED
  BY <1>1, <1>2, <1>3, <1>4, <1>5, <1>6 DEF TypeOK

-----------------------------------------------------------------------------
(* The other commands of the worker *)

\* WaitAllEnter keeps the types and the control state.
LEMMA WaitAllEnterTyped ==
  ASSUME TypeOK, ControlOK, WaitAllEnter
  PROVE  TypeOK' /\ ControlOK'
<1>1. /\ CommandType' /\ PauseType' /\ LogType' /\ ConfigType'
      /\ QueueType' /\ DeviceType' /\ HistoryType'
  BY TypeFrame DEF WaitAllEnter
<1>2. BufferType'
  <2>1. waState' \in [WaitAlls -> CommandState]
    BY CommandStates DEF TypeOK, BufferType, WaitAllEnter
  <2>2. QED
    BY <2>1 DEF TypeOK, BufferType, WaitAllEnter
<1>3. ThreadType'
  BY DEF TypeOK, ThreadType, All, WaitAllEnter, CallSync, Goto, Threads, Labels
<1>4. ControlOK'
  BY ThreadsAssumption DEF TypeOK, ThreadType, ControlOK, ClientControl, Launching,
    SyncLabels, ResumeLabels, WorkerRets, WaitAllEnter, CallSync, Goto, Threads
<1>5. QED
  BY <1>1, <1>2, <1>3, <1>4 DEF TypeOK

\* WaitAllDone keeps the types and the control state.
LEMMA WaitAllDoneTyped ==
  ASSUME TypeOK, ControlOK, WaitAllDone
  PROVE  TypeOK' /\ ControlOK'
<1>1. /\ CommandType' /\ PauseType' /\ LogType' /\ ConfigType'
      /\ QueueType' /\ DeviceType' /\ HistoryType'
  BY TypeFrame DEF WaitAllDone
<1>2. BufferType'
  <2>1. waState' \in [WaitAlls -> CommandState]
    BY CommandStates DEF TypeOK, BufferType, WaitAllDone
  <2>2. QED
    BY <2>1 DEF TypeOK, BufferType, WaitAllDone
<1>3. ThreadType'
  BY DEF TypeOK, ThreadType, WaitAllDone, Goto, Threads, Labels, localVars
<1>4. ControlOK'
  BY ThreadsAssumption DEF TypeOK, ThreadType, ControlOK, ClientControl, Launching,
    SyncLabels, ResumeLabels, WorkerRets, WaitAllDone, Goto, localVars, Threads
<1>5. QED
  BY <1>1, <1>2, <1>3, <1>4 DEF TypeOK

\* BatchSyncEnter keeps the types and the control state.
LEMMA BatchSyncEnterTyped ==
  ASSUME TypeOK, ControlOK, BatchSyncEnter
  PROVE  TypeOK' /\ ControlOK'
<1>1. /\ BufferType' /\ CommandType' /\ PauseType' /\ LogType'
      /\ ConfigType' /\ QueueType' /\ DeviceType' /\ HistoryType'
  BY TypeFrame DEF BatchSyncEnter, ThreadStep
<1>2. ThreadType'
  <2>1. syncLog # <<>> => syncLog[1] \in Nat
    BY IdxNat, LogElements DEF TypeOK
  <2>2. pc' \in [Threads -> Labels] /\ ret' \in [Threads -> Labels]
    BY DEF TypeOK, ThreadType, BatchSyncEnter, CallSync, Goto, Labels
  <2>3. arg' \in [Threads -> Nat]
    BY <2>1 DEF TypeOK, ThreadType, BatchSyncEnter, CallSync
  <2>4. QED
    BY <2>2, <2>3 DEF TypeOK, ThreadType, BatchSyncEnter, Threads
<1>3. ControlOK'
  BY ThreadsAssumption DEF TypeOK, ThreadType, ControlOK, ClientControl, Launching,
    SyncLabels, ResumeLabels, WorkerRets, BatchSyncEnter, CallSync, Goto, ThreadStep,
    Threads
<1>4. QED
  BY <1>1, <1>2, <1>3 DEF TypeOK

\* BatchSyncDone keeps the types and the control state.
LEMMA BatchSyncDoneTyped ==
  ASSUME TypeOK, ControlOK, BatchSyncDone
  PROVE  TypeOK' /\ ControlOK'
<1>1. /\ BufferType' /\ CommandType' /\ PauseType' /\ LogType'
      /\ ConfigType' /\ QueueType' /\ DeviceType' /\ HistoryType'
  BY TypeFrame DEF BatchSyncDone, ThreadStep
<1>2. ThreadType'
  BY DEF TypeOK, ThreadType, BatchSyncDone, Goto, Forget, ThreadStep, Threads, Labels
<1>3. ControlOK'
  BY ThreadsAssumption DEF TypeOK, ThreadType, ControlOK, ClientControl, Launching,
    SyncLabels, ResumeLabels, WorkerRets, BatchSyncDone, Goto, Forget, ThreadStep,
    Threads
<1>4. QED
  BY <1>1, <1>2, <1>3 DEF TypeOK

\* DestroyEnter keeps the types and the control state.
LEMMA DestroyEnterTyped ==
  ASSUME TypeOK, ControlOK, DestroyEnter
  PROVE  TypeOK' /\ ControlOK'
<1>1. /\ BufferType' /\ CommandType' /\ PauseType' /\ LogType'
      /\ ConfigType' /\ DeviceType' /\ HistoryType'
  BY TypeFrame DEF DestroyEnter
<1>2. QueueType'
  BY CommandStates DEF TypeOK, QueueType, DestroyEnter, CallSync
<1>3. ThreadType'
  BY DEF TypeOK, ThreadType, All, DestroyEnter, CallSync, Goto, Threads, Labels
<1>4. ControlOK'
  BY ThreadsAssumption DEF TypeOK, ThreadType, ControlOK, ClientControl, Launching,
    SyncLabels, ResumeLabels, WorkerRets, DestroyEnter, CallSync, Goto, Threads
<1>5. QED
  BY <1>1, <1>2, <1>3, <1>4 DEF TypeOK

\* DestroyDone keeps the types and the control state.
LEMMA DestroyDoneTyped ==
  ASSUME TypeOK, ControlOK, DestroyDone
  PROVE  TypeOK' /\ ControlOK'
<1>1. /\ BufferType' /\ CommandType' /\ LogType'
      /\ ConfigType' /\ DeviceType' /\ HistoryType'
  BY TypeFrame DEF DestroyDone
<1>2. PauseType'
  BY DEF TypeOK, PauseType, DestroyDone
<1>3. QueueType'
  BY CommandStates DEF TypeOK, QueueType, DestroyDone
<1>4. ThreadType'
  BY DEF TypeOK, ThreadType, DestroyDone, Goto, Threads, Labels, localVars
<1>5. ControlOK'
  BY ThreadsAssumption DEF TypeOK, ThreadType, ControlOK, ClientControl, Launching,
    SyncLabels, ResumeLabels, WorkerRets, DestroyDone, Goto, localVars, Threads
<1>6. QED
  BY <1>1, <1>2, <1>3, <1>4, <1>5 DEF TypeOK

-----------------------------------------------------------------------------
(* Submitting and waiting *)

\* SubmitIdx keeps the types and the control state.
LEMMA SubmitIdxTyped ==
  ASSUME TypeOK, ControlOK, NEW t \in Clients, SubmitIdx(t)
  PROVE  TypeOK' /\ ControlOK'
<1>1. /\ BufferType' /\ PauseType' /\ LogType'
      /\ ConfigType' /\ DeviceType' /\ HistoryType'
  BY TypeFrame DEF SubmitIdx
<1>2. CommandType'
  BY InputAssumption DEF TypeOK, CommandType, QueueType, Idx, SubmitIdx
<1>3. QueueType'
  BY InputAssumption DEF TypeOK, QueueType, SubmitIdx
<1>4. ThreadType'
  BY DEF TypeOK, ThreadType, QueueType, SubmitIdx, Goto, Threads, Labels
<1>5. ControlOK'
  BY ClientControlFrame DEF TypeOK, ThreadType, ControlOK, ClientControl, SyncLabels,
    ResumeLabels, QueueType, Idx, SubmitIdx, Goto, Threads
<1>6. QED
  BY <1>1, <1>2, <1>3, <1>4, <1>5 DEF TypeOK

\* SubmitEnqueue keeps the types and the control state.
LEMMA SubmitEnqueueTyped ==
  ASSUME TypeOK, ControlOK, NEW t \in Clients, SubmitEnqueue(t)
  PROVE  TypeOK' /\ ControlOK'
<1>1. /\ PauseType' /\ LogType' /\ ConfigType'
      /\ QueueType' /\ DeviceType' /\ HistoryType'
  BY TypeFrame DEF SubmitEnqueue, Enqueue
<1>2. BufferType'
  <2>1. Hardware(arg[t]) \in XCommand
    BY CommandsMade DEF ControlOK, ClientControl, SubmitEnqueue
  <2>2. Append(cmds, Hardware(arg[t])) \in Seq(XCommand)
    BY <2>1, AppendProperties DEF TypeOK, BufferType
  <2>3. QED
    BY <2>1, <2>2 DEF TypeOK, BufferType, SubmitEnqueue, Enqueue, ReportReady
<1>3. CommandType'
  BY CommandStates DEF TypeOK, CommandType, SubmitEnqueue
<1>4. ThreadType'
  <2>1. CASE Goto(t, "Idle") /\ arg' = Forget(arg, t)
    BY <2>1 DEF TypeOK, ThreadType, SubmitEnqueue, Goto, Forget, Labels
  <2>2. CASE Goto(t, "SubmitBlocked") /\ UNCHANGED arg
    BY <2>2 DEF TypeOK, ThreadType, SubmitEnqueue, Goto, Labels
  <2>3. QED
    BY <2>1, <2>2 DEF SubmitEnqueue
<1>5. ControlOK'
  BY ClientControlFrame DEF TypeOK, ThreadType, ControlOK, ClientControl, SyncLabels,
    ResumeLabels, SubmitEnqueue, Enqueue, Goto, Forget, Threads
<1>6. QED
  BY <1>1, <1>2, <1>3, <1>4, <1>5 DEF TypeOK

\* SubmitReturn keeps the types and the control state.
LEMMA SubmitReturnTyped ==
  ASSUME TypeOK, ControlOK, NEW t \in Clients, SubmitReturn(t)
  PROVE  TypeOK' /\ ControlOK'
<1>1. /\ BufferType' /\ CommandType' /\ PauseType' /\ LogType'
      /\ ConfigType' /\ QueueType' /\ DeviceType' /\ HistoryType'
  BY TypeFrame DEF SubmitReturn, ThreadStep
<1>2. ThreadType'
  BY DEF TypeOK, ThreadType, SubmitReturn, Goto, Forget, ThreadStep, Threads, Labels
<1>3. ControlOK'
  BY ClientControlFrame DEF TypeOK, ThreadType, ControlOK, ClientControl, SyncLabels,
    ResumeLabels, SubmitReturn, Goto, Forget, ThreadStep, Threads
<1>4. QED
  BY <1>1, <1>2, <1>3 DEF TypeOK

\* WaitAllCall keeps the types and the control state.
LEMMA WaitAllCallTyped ==
  ASSUME TypeOK, ControlOK, NEW t \in Clients, WaitAllCall(t)
  PROVE  TypeOK' /\ ControlOK'
<1>1. /\ CommandType' /\ PauseType' /\ LogType'
      /\ ConfigType' /\ QueueType' /\ DeviceType'
  BY TypeFrame DEF WaitAllCall, BeginWaitAll, BufferStep
<1>2. BufferType' /\ HistoryType' /\ ThreadType'
  BY BeginWaitAllTyped DEF WaitAllCall, Labels
<1>3. ControlOK'
  BY BeginWaitAllControl DEF WaitAllCall
<1>4. QED
  BY <1>1, <1>2, <1>3 DEF TypeOK

\* WaitAllReturn keeps the types and the control state.
LEMMA WaitAllReturnTyped ==
  ASSUME TypeOK, ControlOK, NEW t \in Clients, WaitAllReturn(t)
  PROVE  TypeOK' /\ ControlOK'
<1>1. /\ BufferType' /\ CommandType' /\ PauseType' /\ LogType'
      /\ ConfigType' /\ QueueType' /\ DeviceType'
  BY TypeFrame DEF WaitAllReturn, BufferStep
<1>2. HistoryType'
  BY DEF TypeOK, HistoryType, WaitAllReturn, BufferStep, Threads
<1>3. ThreadType'
  BY DEF TypeOK, ThreadType, WaitAllReturn, Goto, Forget, BufferStep, Threads, Labels
<1>4. ControlOK'
  BY ClientControlFrame DEF TypeOK, ThreadType, ControlOK, ClientControl, SyncLabels,
    ResumeLabels, WaitAllReturn, Goto, Forget, BufferStep, Threads
<1>5. QED
  BY <1>1, <1>2, <1>3, <1>4 DEF TypeOK

\* WaitCall keeps the types and the control state.
LEMMA WaitCallTyped ==
  ASSUME TypeOK, ControlOK, NEW t \in Clients, WaitCall(t)
  PROVE  TypeOK' /\ ControlOK'
<1>1. /\ BufferType' /\ CommandType' /\ PauseType' /\ LogType'
      /\ ConfigType' /\ QueueType' /\ DeviceType' /\ HistoryType'
  BY TypeFrame DEF WaitCall, ThreadStep
<1>2. ThreadType'
  BY IdxNat DEF TypeOK, ThreadType, Submitted, WaitCall, Goto, ThreadStep, Threads,
    Labels
<1>3. ControlOK'
  BY ClientControlFrame DEF TypeOK, ThreadType, ControlOK, ClientControl, SyncLabels,
    ResumeLabels, Submitted, WaitCall, Goto, ThreadStep, Threads
<1>4. QED
  BY <1>1, <1>2, <1>3 DEF TypeOK

\* WaitInFlight keeps the types and the control state.
LEMMA WaitInFlightTyped ==
  ASSUME TypeOK, ControlOK, NEW t \in Clients, WaitInFlight(t)
  PROVE  TypeOK' /\ ControlOK'
<1>1. /\ BufferType' /\ CommandType' /\ PauseType' /\ LogType'
      /\ ConfigType' /\ QueueType' /\ DeviceType' /\ HistoryType'
  BY TypeFrame DEF WaitInFlight, ThreadStep
<1>2. ThreadType'
  BY DEF TypeOK, ThreadType, WaitInFlight, CallSync, Goto, ThreadStep, Threads, Labels
<1>3. ControlOK'
  BY ClientControlFrame DEF TypeOK, ThreadType, ControlOK, ClientControl, SyncLabels,
    ResumeLabels, WaitInFlight, CallSync, Goto, ThreadStep, Threads
<1>4. QED
  BY <1>1, <1>2, <1>3 DEF TypeOK

\* WaitReturn keeps the types and the control state.
LEMMA WaitReturnTyped ==
  ASSUME TypeOK, ControlOK, NEW t \in Clients, WaitReturn(t)
  PROVE  TypeOK' /\ ControlOK'
<1>1. /\ BufferType' /\ CommandType' /\ PauseType' /\ LogType'
      /\ ConfigType' /\ QueueType' /\ DeviceType'
  BY TypeFrame DEF WaitReturn
<1>2. HistoryType'
  BY DEF TypeOK, HistoryType, ControlOK, ClientControl, WaitReturn
<1>3. ThreadType'
  BY DEF TypeOK, ThreadType, WaitReturn, Goto, Forget, Threads, Labels
<1>4. ControlOK'
  BY ClientControlFrame DEF TypeOK, ThreadType, ControlOK, ClientControl, SyncLabels,
    ResumeLabels, WaitReturn, Goto, Forget, Threads
<1>5. QED
  BY <1>1, <1>2, <1>3, <1>4 DEF TypeOK

-----------------------------------------------------------------------------
(* Suspending *)

\* SuspendCall keeps the types and the control state.
LEMMA SuspendCallTyped ==
  ASSUME TypeOK, ControlOK, NEW t \in Clients, SuspendCall(t)
  PROVE  TypeOK' /\ ControlOK'
<1>1. /\ BufferType' /\ CommandType' /\ PauseType' /\ LogType'
      /\ ConfigType' /\ QueueType' /\ DeviceType' /\ HistoryType'
  BY TypeFrame DEF SuspendCall, ThreadStep
<1>2. ThreadType'
  BY InputAssumption DEF TypeOK, ThreadType, SuspendCall, Goto, ThreadStep, Threads,
    Labels
<1>3. ControlOK'
  BY ClientControlFrame DEF TypeOK, ThreadType, ControlOK, ClientControl, SyncLabels,
    ResumeLabels, SuspendCall, Goto, ThreadStep, Threads
<1>4. QED
  BY <1>1, <1>2, <1>3 DEF TypeOK

\* SuspendMark keeps the types and the control state.
LEMMA SuspendMarkTyped ==
  ASSUME TypeOK, ControlOK, NEW t \in Clients, SuspendMark(t)
  PROVE  TypeOK' /\ ControlOK'
<1>1. /\ BufferType' /\ CommandType' /\ PauseType' /\ LogType'
      /\ ConfigType' /\ DeviceType' /\ HistoryType'
  BY TypeFrame DEF SuspendMark
<1>2. QueueType'
  BY DEF TypeOK, QueueType, SuspendMark
<1>3. ThreadType'
  BY DEF TypeOK, ThreadType, SuspendMark, Goto, Threads, Labels, localVars
<1>4. ControlOK'
  BY ClientControlFrame DEF TypeOK, ThreadType, ControlOK, ClientControl, SyncLabels,
    ResumeLabels, SuspendMark, Goto, localVars, Threads
<1>5. QED
  BY <1>1, <1>2, <1>3, <1>4 DEF TypeOK

\* Pause keeps the types and the control state.
LEMMA PauseTyped ==
  ASSUME TypeOK, ControlOK, NEW t \in Clients, Pause(t)
  PROVE  TypeOK' /\ ControlOK'
<1>1. /\ BufferType' /\ CommandType' /\ LogType' /\ ConfigType'
      /\ QueueType' /\ DeviceType' /\ HistoryType'
  BY TypeFrame DEF Pause
<1>2. PauseType'
  BY DEF TypeOK, PauseType, Pause
<1>3. ThreadType'
  BY DEF TypeOK, ThreadType, Pause, Goto, Threads, Labels, localVars
<1>4. ControlOK'
  BY ClientControlFrame DEF TypeOK, ThreadType, ControlOK, ClientControl, SyncLabels,
    ResumeLabels, Pause, Goto, localVars, Threads
<1>5. QED
  BY <1>1, <1>2, <1>3, <1>4 DEF TypeOK

\* Deactivate keeps the types and the control state.
LEMMA DeactivateTyped ==
  ASSUME TypeOK, ControlOK, NEW t \in Clients, Deactivate(t)
  PROVE  TypeOK' /\ ControlOK'
<1>1. /\ BufferType' /\ CommandType' /\ PauseType' /\ LogType'
      /\ ConfigType' /\ QueueType' /\ HistoryType'
  BY TypeFrame DEF Deactivate
<1>2. DeviceType'
  BY DEF TypeOK, DeviceType, Deactivate
<1>3. ThreadType'
  BY DEF TypeOK, ThreadType, Deactivate, Goto, Threads, Labels, localVars
<1>4. ControlOK'
  BY ClientControlFrame DEF TypeOK, ThreadType, ControlOK, ClientControl, SyncLabels,
    ResumeLabels, Deactivate, Goto, localVars, Threads
<1>5. QED
  BY <1>1, <1>2, <1>3, <1>4 DEF TypeOK

\* SuspendSync keeps the types and the control state.
LEMMA SuspendSyncTyped ==
  ASSUME TypeOK, ControlOK, NEW t \in Clients, SuspendSync(t)
  PROVE  TypeOK' /\ ControlOK'
<1>1. /\ BufferType' /\ CommandType' /\ PauseType' /\ LogType'
      /\ ConfigType' /\ QueueType' /\ DeviceType' /\ HistoryType'
  BY TypeFrame DEF SuspendSync, ThreadStep
<1>2. ThreadType'
  BY DEF TypeOK, ThreadType, SuspendSync, Goto, ThreadStep, Threads, Labels, localVars
<1>3. ControlOK'
  BY ClientControlFrame DEF TypeOK, ThreadType, ControlOK, ClientControl, SyncLabels,
    ResumeLabels, SuspendSync, Goto, ThreadStep, localVars, Threads
<1>4. QED
  BY <1>1, <1>2, <1>3 DEF TypeOK

-----------------------------------------------------------------------------
(* Resuming *)

\* ResumeCall keeps the types and the control state.
LEMMA ResumeCallTyped ==
  ASSUME TypeOK, ControlOK, NEW t \in Clients, ResumeCall(t)
  PROVE  TypeOK' /\ ControlOK'
<1>1. /\ BufferType' /\ CommandType' /\ PauseType' /\ LogType'
      /\ ConfigType' /\ QueueType' /\ DeviceType' /\ HistoryType'
  BY TypeFrame DEF ResumeCall, BeginResume, BufferStep
<1>2. ThreadType'
  BY InputAssumption DEF TypeOK, ThreadType, ResumeCall, BeginResume, Goto, BufferStep,
    Threads, Labels
<1>3. ControlOK'
  BY ClientControlFrame DEF TypeOK, ThreadType, ControlOK, ClientControl, SyncLabels,
    ResumeLabels, ResumeCall, BeginResume, Goto, BufferStep, Threads
<1>4. QED
  BY <1>1, <1>2, <1>3 DEF TypeOK

\* ResumeMark keeps the types and the control state.
LEMMA ResumeMarkTyped ==
  ASSUME TypeOK, ControlOK, NEW t \in Clients, ResumeMark(t)
  PROVE  TypeOK' /\ ControlOK'
<1>1. /\ BufferType' /\ CommandType' /\ PauseType' /\ LogType'
      /\ ConfigType' /\ DeviceType' /\ HistoryType'
  BY TypeFrame DEF ResumeMark
<1>2. QueueType'
  BY DEF TypeOK, QueueType, ResumeMark
<1>3. ThreadType'
  BY DEF TypeOK, ThreadType, ResumeMark, Goto, Threads, Labels, localVars
<1>4. ControlOK'
  BY ClientControlFrame DEF TypeOK, ThreadType, ControlOK, ClientControl, SyncLabels,
    ResumeLabels, ResumeMark, Goto, localVars, Threads
<1>5. QED
  BY <1>1, <1>2, <1>3, <1>4 DEF TypeOK

\* Reactivate keeps the types and the control state.
LEMMA ReactivateTyped ==
  ASSUME TypeOK, ControlOK, NEW t \in Clients, Reactivate(t)
  PROVE  TypeOK' /\ ControlOK'
<1>1. /\ BufferType' /\ CommandType' /\ PauseType' /\ LogType'
      /\ ConfigType' /\ QueueType' /\ HistoryType'
  BY TypeFrame DEF Reactivate
<1>2. DeviceType'
  <2>1. 0 \in 0..MaxCmds
    BY InputAssumption
  <2>2. QED
    BY <2>1 DEF TypeOK, DeviceType, Reactivate
<1>3. ThreadType'
  BY DEF TypeOK, ThreadType, DeviceType, Reactivate, Goto, Threads, Labels
<1>4. ControlOK'
  BY ClientControlFrame DEF TypeOK, ThreadType, ControlOK, ClientControl, SyncLabels,
    ResumeLabels, Reactivate, Goto, Threads
<1>5. QED
  BY <1>1, <1>2, <1>3, <1>4 DEF TypeOK

\* RelaunchNext keeps the types and the control state.
LEMMA RelaunchNextTyped ==
  ASSUME TypeOK, ControlOK, NEW t \in Clients, RelaunchNext(t)
  PROVE  TypeOK' /\ ControlOK'
<1>1. /\ BufferType' /\ CommandType' /\ PauseType' /\ LogType'
      /\ ConfigType' /\ QueueType' /\ HistoryType'
  BY TypeFrame DEF RelaunchNext
<1>2. DeviceType'
  <2>1. cmdLog[snap[t] + 1] \in Idx
    BY LogElements DEF TypeOK, ThreadType, RelaunchNext, Threads
  <2>2. QED
    BY <2>1, DevEntryType, AppendProperties DEF TypeOK, DeviceType, RelaunchNext
<1>3. ThreadType'
  BY DEF TypeOK, ThreadType, RelaunchNext, Threads, Labels
<1>4. ControlOK'
  BY ClientControlFrame DEF TypeOK, ThreadType, ControlOK, ClientControl, SyncLabels,
    ResumeLabels, RelaunchNext, Threads
<1>5. QED
  BY <1>1, <1>2, <1>3, <1>4 DEF TypeOK

\* RelaunchEnd keeps the types and the control state.
LEMMA RelaunchEndTyped ==
  ASSUME TypeOK, ControlOK, NEW t \in Clients, RelaunchEnd(t)
  PROVE  TypeOK' /\ ControlOK'
<1>1. /\ BufferType' /\ CommandType' /\ PauseType' /\ LogType'
      /\ ConfigType' /\ QueueType' /\ DeviceType' /\ HistoryType'
  BY TypeFrame DEF RelaunchEnd, ThreadStep
<1>2. ThreadType'
  BY DEF TypeOK, ThreadType, RelaunchEnd, Goto, Forget, ThreadStep, Threads, Labels
<1>3. ControlOK'
  BY ClientControlFrame DEF TypeOK, ThreadType, ControlOK, ClientControl, SyncLabels,
    ResumeLabels, RelaunchEnd, Goto, Forget, ThreadStep, Threads
<1>4. QED
  BY <1>1, <1>2, <1>3 DEF TypeOK

\* ResumeWorker keeps the types and the control state.
LEMMA ResumeWorkerTyped ==
  ASSUME TypeOK, ControlOK, NEW t \in Clients, ResumeWorker(t)
  PROVE  TypeOK' /\ ControlOK'
<1>1. /\ BufferType' /\ CommandType' /\ LogType' /\ ConfigType'
      /\ QueueType' /\ DeviceType' /\ HistoryType'
  BY TypeFrame DEF ResumeWorker
<1>2. PauseType'
  BY DEF TypeOK, PauseType, WakeWorker, ResumeWorker
<1>3. ThreadType'
  BY DEF TypeOK, ThreadType, ResumeWorker, Goto, Threads, Labels, localVars
<1>4. ControlOK'
  BY ClientControlFrame DEF TypeOK, ThreadType, ControlOK, ClientControl, SyncLabels,
    ResumeLabels, ResumeWorker, Goto, localVars, Threads
<1>5. QED
  BY <1>1, <1>2, <1>3, <1>4 DEF TypeOK

\* DropAll keeps the types and the control state.
LEMMA DropAllTyped ==
  ASSUME TypeOK, ControlOK, NEW t \in Clients, DropAll(t)
  PROVE  TypeOK' /\ ControlOK'
<1>1. PauseType' /\ LogType' /\ ConfigType' /\ QueueType' /\ DeviceType'
  BY TypeFrame DEF DropAll
<1>2. BufferType'
  BY EmptySeq, CommandStates DEF TypeOK, BufferType, ClearBuffer, DropAll
<1>3. CommandType'
  BY CommandStates DEF TypeOK, CommandType, Complete, DropAll
<1>4. HistoryType'
  BY BufferedIdx DEF TypeOK, HistoryType, DropAll
<1>5. ThreadType'
  BY DEF TypeOK, ThreadType, DropAll, Goto, Threads, Labels, localVars
<1>6. ControlOK'
  BY ClientControlFrame DEF TypeOK, ThreadType, ControlOK, ClientControl, SyncLabels,
    ResumeLabels, DropAll, Goto, localVars, Threads
<1>7. QED
  BY <1>1, <1>2, <1>3, <1>4, <1>5, <1>6 DEF TypeOK

\* DropIdx keeps the types and the control state.
LEMMA DropIdxTyped ==
  ASSUME TypeOK, ControlOK, NEW t \in Clients, DropIdx(t)
  PROVE  TypeOK' /\ ControlOK'
<1>1. /\ BufferType' /\ CommandType' /\ PauseType' /\ LogType'
      /\ ConfigType' /\ QueueType' /\ DeviceType' /\ HistoryType'
  BY TypeFrame DEF DropIdx, ThreadStep
<1>2. ThreadType'
  BY DEF TypeOK, ThreadType, QueueType, LastSubmitted, DropIdx, Goto, ThreadStep,
    Threads, Labels
<1>3. ControlOK'
  <2>1. LastSubmitted \in 0..MaxCmds
    BY InputAssumption DEF TypeOK, QueueType, LastSubmitted
  <2>2. QED
    BY <2>1, ClientControlFrame DEF TypeOK, ThreadType, ControlOK, ClientControl,
      SyncLabels, ResumeLabels, DropIdx, Goto, Threads
<1>4. QED
  BY <1>1, <1>2, <1>3 DEF TypeOK

\* ResumeAndDrop keeps the types and the control state.
LEMMA ResumeAndDropTyped ==
  ASSUME TypeOK, ControlOK, NEW t \in Clients, ResumeAndDrop(t)
  PROVE  TypeOK' /\ ControlOK'
<1>1. BufferType' /\ ConfigType' /\ QueueType' /\ DeviceType'
  BY TypeFrame DEF ResumeAndDrop
<1>2. CommandType'
  BY CommandStates DEF TypeOK, CommandType, Complete, ResumeAndDrop
<1>3. LogType'
  BY EmptySeq DEF TypeOK, LogType, ControlOK, ClientControl, ResumeAndDrop
<1>4. PauseType'
  BY DEF TypeOK, PauseType, WakeWorker, ResumeAndDrop
<1>5. HistoryType'
  BY LogElements DEF TypeOK, HistoryType, InLog, LogType, ResumeAndDrop
<1>6. ThreadType'
  BY DEF TypeOK, ThreadType, ResumeAndDrop, Goto, Forget, Threads, Labels
<1>7. ControlOK'
  BY ClientControlFrame DEF TypeOK, ThreadType, ControlOK, ClientControl, SyncLabels,
    ResumeLabels, ResumeAndDrop, Goto, Forget, Threads
<1>8. QED
  BY <1>1, <1>2, <1>3, <1>4, <1>5, <1>6, <1>7 DEF TypeOK

-----------------------------------------------------------------------------
(* Configuring and destroying *)

\* ConfigureCall keeps the types and the control state.
LEMMA ConfigureCallTyped ==
  ASSUME TypeOK, ControlOK, NEW t \in Clients, ConfigureCall(t)
  PROVE  TypeOK' /\ ControlOK'
<1>1. /\ CommandType' /\ PauseType' /\ LogType'
      /\ ConfigType' /\ QueueType' /\ DeviceType'
  BY TypeFrame DEF ConfigureCall, BeginWaitAll, BufferStep
<1>2. BufferType' /\ HistoryType' /\ ThreadType'
  BY BeginWaitAllTyped DEF ConfigureCall, Labels
<1>3. ControlOK'
  BY BeginWaitAllControl DEF ConfigureCall
<1>4. QED
  BY <1>1, <1>2, <1>3 DEF TypeOK

\* Configure keeps the types and the control state.
LEMMA ConfigureTyped ==
  ASSUME TypeOK, ControlOK, NEW t \in Clients, Configure(t)
  PROVE  TypeOK' /\ ControlOK'
<1>1. /\ BufferType' /\ CommandType' /\ PauseType' /\ LogType'
      /\ QueueType' /\ DeviceType' /\ HistoryType'
  BY TypeFrame DEF Configure
<1>2. ConfigType'
  BY InputAssumption DEF TypeOK, ConfigType, Configure
<1>3. ThreadType'
  BY DEF TypeOK, ThreadType, Configure, Goto, Threads, Labels, localVars
<1>4. ControlOK'
  BY ClientControlFrame DEF TypeOK, ThreadType, ControlOK, ClientControl, SyncLabels,
    ResumeLabels, Configure, Goto, localVars, Threads
<1>5. QED
  BY <1>1, <1>2, <1>3, <1>4 DEF TypeOK

\* DelCall keeps the types and the control state.
LEMMA DelCallTyped ==
  ASSUME TypeOK, ControlOK, NEW t \in Clients, DelCall(t)
  PROVE  TypeOK' /\ ControlOK'
<1>1. /\ BufferType' /\ CommandType' /\ PauseType' /\ LogType'
      /\ ConfigType' /\ DeviceType' /\ HistoryType'
  BY TypeFrame DEF DelCall, BeginResume, BufferStep
<1>2. QueueType'
  BY DEF TypeOK, QueueType, DelCall, BeginResume, BufferStep
<1>3. ThreadType'
  BY DEF TypeOK, ThreadType, DelResumeFlag, DelCall, BeginResume, Goto, BufferStep,
    Threads, Labels
<1>4. ControlOK'
  BY ClientControlFrame DEF TypeOK, ThreadType, ControlOK, ClientControl, SyncLabels,
    ResumeLabels, DelCall, BeginResume, Goto, BufferStep, Threads
<1>5. QED
  BY <1>1, <1>2, <1>3, <1>4 DEF TypeOK

\* DelWaitAll keeps the types and the control state.
LEMMA DelWaitAllTyped ==
  ASSUME TypeOK, ControlOK, NEW t \in Clients, DelWaitAll(t)
  PROVE  TypeOK' /\ ControlOK'
<1>1. /\ CommandType' /\ PauseType' /\ LogType'
      /\ ConfigType' /\ QueueType' /\ DeviceType'
  BY TypeFrame DEF DelWaitAll, BeginWaitAll, BufferStep
<1>2. BufferType' /\ HistoryType' /\ ThreadType'
  BY BeginWaitAllTyped DEF DelWaitAll, Labels
<1>3. ControlOK'
  BY BeginWaitAllControl DEF DelWaitAll
<1>4. QED
  BY <1>1, <1>2, <1>3 DEF TypeOK

\* Dtor keeps the types and the control state.
LEMMA DtorTyped ==
  ASSUME TypeOK, ControlOK, NEW t \in Clients, Dtor(t)
  PROVE  TypeOK' /\ ControlOK'
<1>1. /\ BufferType' /\ CommandType' /\ PauseType' /\ LogType'
      /\ ConfigType' /\ DeviceType' /\ HistoryType'
  BY TypeFrame DEF Dtor, BeginResume, BufferStep
<1>2. QueueType'
  BY DEF TypeOK, QueueType, Dtor, BeginResume, BufferStep
<1>3. ThreadType'
  BY DEF TypeOK, ThreadType, Dtor, BeginResume, Goto, BufferStep, Threads, Labels
<1>4. ControlOK'
  BY ClientControlFrame DEF TypeOK, ThreadType, ControlOK, ClientControl, SyncLabels,
    ResumeLabels, Dtor, BeginResume, Goto, BufferStep, Threads
<1>5. QED
  BY <1>1, <1>2, <1>3, <1>4 DEF TypeOK

\* DtorEnqueue keeps the types and the control state.
LEMMA DtorEnqueueTyped ==
  ASSUME TypeOK, ControlOK, NEW t \in Clients, DtorEnqueue(t)
  PROVE  TypeOK' /\ ControlOK'
<1>1. /\ CommandType' /\ PauseType' /\ LogType'
      /\ ConfigType' /\ DeviceType' /\ HistoryType'
  BY TypeFrame DEF DtorEnqueue, Enqueue, BufferStep
<1>2. BufferType'
  <2>1. Append(cmds, DestroyCmd) \in Seq(XCommand)
    BY CommandsMade, AppendProperties DEF TypeOK, BufferType
  <2>2. QED
    BY <2>1, CommandsMade DEF TypeOK, BufferType, DtorEnqueue, Enqueue, ReportReady
<1>3. QueueType'
  BY CommandStates DEF TypeOK, QueueType, DtorEnqueue, Enqueue, BufferStep
<1>4. ThreadType'
  BY DEF TypeOK, ThreadType, DtorEnqueue, Enqueue, Goto, BufferStep, Threads, Labels,
    localVars
<1>5. ControlOK'
  BY ClientControlFrame DEF TypeOK, ThreadType, ControlOK, ClientControl, SyncLabels,
    ResumeLabels, DtorEnqueue, Enqueue, Goto, BufferStep, localVars, Threads
<1>6. QED
  BY <1>1, <1>2, <1>3, <1>4, <1>5 DEF TypeOK

\* DtorReturn keeps the types and the control state.
LEMMA DtorReturnTyped ==
  ASSUME TypeOK, ControlOK, NEW t \in Clients, DtorReturn(t)
  PROVE  TypeOK' /\ ControlOK'
<1>1. /\ BufferType' /\ CommandType' /\ PauseType' /\ LogType'
      /\ ConfigType' /\ QueueType' /\ DeviceType' /\ HistoryType'
  BY TypeFrame DEF DtorReturn, ThreadStep
<1>2. ThreadType'
  BY DEF TypeOK, ThreadType, DtorReturn, Goto, ThreadStep, Threads, Labels, localVars
<1>3. ControlOK'
  BY ClientControlFrame DEF TypeOK, ThreadType, ControlOK, ClientControl, SyncLabels,
    ResumeLabels, DtorReturn, Goto, ThreadStep, localVars, Threads
<1>4. QED
  BY <1>1, <1>2, <1>3 DEF TypeOK

-----------------------------------------------------------------------------
(* Type correctness *)

\* The constructed queue has its types.
LEMMA InitTyped == Init => TypeOK /\ ControlOK
<1> SUFFICES ASSUME Init PROVE TypeOK /\ ControlOK
  OBVIOUS
<1>1. WaitAllCmd(0) \in XCommand
  BY CommandsMade
<1>2. BufferType
  <2>1. cmds \in Seq(XCommand) /\ waState \in [WaitAlls -> CommandState]
    BY CommandStates, EmptySeq DEF Init
  <2>2. QED
    BY <1>1, <2>1 DEF Init, BufferType
<1>3. /\ CommandType /\ QueueType /\ LogType
      /\ DeviceType
  <2>1. CommandType
    BY CommandStates DEF Init, CommandType, Kind
  <2>2. QueueType
    <3>1. 1 \in 1..(MaxCmds + 1)
      BY InputAssumption
    <3>2. QED
      BY <3>1, CommandStates DEF Init, QueueType
  <2>3. LogType
    <3>1. cmdLog \in Seq(Idx) /\ syncLog \in Seq(Idx)
      BY EmptySeq DEF Init
    <3>2. -1 \in Int /\ -1 \in -1..MaxCmds
      BY InputAssumption
    <3>3. QED
      BY <3>1, <3>2 DEF Init, LogType
  <2>4. DeviceType
    <3>1. dev \in Seq([cmd : Idx, guarded : BOOLEAN])
      BY EmptySeq DEF Init
    <3>2. 0 \in 0..MaxCmds /\ execs \in [Idx -> 0..2]
      BY InputAssumption DEF Init
    <3>3. QED
      BY <3>1, <3>2 DEF Init, DeviceType
  <2>5. QED
    BY <2>1, <2>2, <2>3, <2>4
<1>4. PauseType /\ ConfigType /\ HistoryType
  BY ConfigAssumption DEF Init, PauseType, ConfigType, HistoryType
<1>5. ThreadType
  BY <1>1, ThreadsAssumption DEF Init, ThreadType, Threads, Labels
<1>6. ControlOK
  BY ThreadsAssumption
  DEF Init, ControlOK, ClientControl, Launching, SyncLabels, ResumeLabels, Threads
<1>7. QED
  BY <1>2, <1>3, <1>4, <1>5, <1>6 DEF TypeOK

\* Every step keeps the types and the control state.
LEMMA NextTyped == TypeOK /\ ControlOK /\ [Next]_vars => TypeOK' /\ ControlOK'
<1> SUFFICES ASSUME TypeOK, ControlOK, [Next]_vars PROVE TypeOK' /\ ControlOK'
  OBVIOUS
<1>1. CASE UNCHANGED vars
  <2>1. UNCHANGED <<bufVars, cmdVars, pauseVars, logVars, configVars, queueVars, devVars,
                    histVars, pc, localVars, lock, cur>>
    BY <1>1 DEF vars
  <2>2. QED
    BY <2>1, TypeFrame, ControlFrame DEF TypeOK
<1>2. CASE HwRetire
  BY <1>2, HwRetireTyped
<1>3. ASSUME NEW t \in Threads, Sync(t) PROVE TypeOK' /\ ControlOK'
  BY <1>3, SyncCheckTyped, SyncHwTyped, SyncRelockTyped DEF Sync
<1>4. CASE WorkerLoop
  <2>1. CASE Dequeue
    BY <2>1, DequeueFrontTyped, DequeueIdleTyped, DequeueGenWaitAllTyped,
       DequeueGenBatchSyncTyped DEF Dequeue
  <2>2. CASE LaunchHwCommand
    BY <2>2, LaunchEnterTyped, LaunchThresholdTyped, LaunchResumedTyped, LaunchDropTyped,
       LaunchCommandTyped DEF LaunchHwCommand
  <2>3. CASE Sync(Worker)
    BY <2>3, <1>3 DEF Threads
  <2>4. QED
    BY <1>4, <2>1, <2>2, <2>3, WaitAllEnterTyped, WaitAllDoneTyped, BatchSyncEnterTyped,
       BatchSyncDoneTyped, DestroyEnterTyped, DestroyDoneTyped DEF WorkerLoop
<1>5. ASSUME NEW t \in Clients, Call(t) PROVE TypeOK' /\ ControlOK'
  BY <1>5, SubmitIdxTyped, WaitAllCallTyped, WaitCallTyped, SuspendCallTyped,
     ResumeCallTyped, ConfigureCallTyped, DelCallTyped DEF Call
<1>6. ASSUME NEW t \in Clients, Continue(t) PROVE TypeOK' /\ ControlOK'
  <2>1. CASE Suspend(t)
    BY <2>1, SuspendMarkTyped, PauseTyped, DeactivateTyped, SuspendSyncTyped DEF Suspend
  <2>2. CASE Resume(t)
    BY <2>2, ResumeMarkTyped, ReactivateTyped, RelaunchNextTyped, RelaunchEndTyped,
       ResumeWorkerTyped, DropAllTyped, DropIdxTyped, ResumeAndDropTyped DEF Resume
  <2>3. CASE Sync(t)
    BY <2>3, <1>3 DEF Threads
  <2>4. QED
    BY <1>6, <2>1, <2>2, <2>3, SubmitEnqueueTyped, SubmitReturnTyped, WaitAllReturnTyped,
       WaitInFlightTyped, WaitReturnTyped, ConfigureTyped, DelWaitAllTyped, DtorTyped,
       DtorEnqueueTyped, DtorReturnTyped DEF Continue
<1>7. QED
  BY <1>1, <1>2, <1>4, <1>5, <1>6 DEF Next

\* The type invariant of XQueue holds for any number of threads in any roles,
\* any configuration and any bounds.  In particular the index up to which a
\* dropping resume drops (LaunchWorker::ResumeAndDrop) is that of a submitted
\* command, and what is launched is always a hardware command.
THEOREM TypeCorrect == Spec => []TypeOK
<1>1. Spec => [](TypeOK /\ ControlOK)
  BY InitTyped, NextTyped, PTL DEF Spec
<1>2. QED
  BY <1>1, PTL

-----------------------------------------------------------------------------
(* The state of a command never goes back (the assertion of                *)
(* XCommand::SetState): from TypeOK, ControlOK and Owned, which says who   *)
(* may change it.                                                          *)

\* Who may still change the state of a command.  One that was not submitted, or
\* is just being submitted, is in its first state; one that is in the buffer or
\* held by the worker is pending, and in one of these places only; a wait-all the
\* worker executes, and a command in the log, have left that state.
Same(c, d) == c.type = d.type /\ c.id = d.id
StatePending(c) ==
  /\ c.type = "Hardware" => hwState[c.id] = Pending
  /\ c.type = "WaitAll" => c.id < waCount /\ (c.id \in WaitAlls => waState[c.id] = Pending)
Stateful(c) == c.type \in {"Hardware", "WaitAll"}
Holding == Launching \/ (pc[Worker] = "Dequeued" /\ Stateful(cur))
Waiting == \/ pc[Worker] = "WaitAllDone"
           \/ pc[Worker] \in SyncLabels /\ ret[Worker] = "WaitAllDone"

SubmitOwned ==
  /\ \A c \in Idx : c >= nextIdx => hwState[c] = Created
  /\ \A t \in Clients : pc[t] = "Submit" => arg[t] < nextIdx /\ hwState[arg[t]] = Created
  /\ \A t, u \in Clients :
       pc[t] = "Submit" /\ pc[u] = "Submit" /\ arg[t] = arg[u] => t = u
BufferOwned ==
  /\ \A n \in WaitAlls : n >= waCount => waState[n] = Created
  /\ \A j \in 1..Len(cmds) : StatePending(cmds[j])
  /\ \A i, j \in 1..Len(cmds) : Stateful(cmds[i]) /\ Same(cmds[i], cmds[j]) => i = j
WorkerOwned ==
  /\ Holding => /\ StatePending(cur)
                /\ \A j \in 1..Len(cmds) : ~Same(cmds[j], cur)
  /\ Waiting => /\ cur.type = "WaitAll" /\ cur.id < waCount
                /\ cur.id \in WaitAlls => waState[cur.id] >= InFlight
LogOwned == \A j \in 1..Len(cmdLog) : hwState[cmdLog[j]] >= InFlight

Owned == SubmitOwned /\ BufferOwned /\ WorkerOwned /\ LogOwned

-----------------------------------------------------------------------------
(* Steps that leave the states of commands alone *)

ownVars == <<hwState, waState, waCount, cmds, nextIdx, cmdLog, cur>>

\* The commands of the buffer: their fields, and the length of the buffer.
LEMMA BufferElements ==
  ASSUME TypeOK
  PROVE  /\ Len(cmds) \in Nat
         /\ \A j \in 1..Len(cmds) :
              /\ cmds[j] \in XCommand /\ cmds[j].id \in Nat
              /\ cmds[j].type = "Hardware" => cmds[j].id \in Idx
<1>1. Len(cmds) \in Nat /\ \A j \in 1..Len(cmds) : cmds[j] \in XCommand
  BY LenProperties, ElementOfSeq DEF TypeOK, BufferType
<1>2. QED
  BY <1>1, CommandFields

\* States are ordered.
LEMMA StateOrder ==
  ASSUME NEW s \in CommandState
  PROVE  /\ s \in Int /\ Created <= s /\ s <= Completed
         /\ (s >= InFlight => s # Pending /\ s # Created) /\ Pending # Created
         /\ InFlight >= InFlight /\ Completed >= InFlight /\ Pending >= Created
         /\ InFlight >= Pending /\ Completed >= Pending
BY DEF CommandState, Created, Pending, InFlight, Completed

\* Completing commands of S leaves the others alone and lowers no state.
LEMMA CompleteFrame ==
  ASSUME TypeOK, NEW S, Complete(S)
  PROVE  \A c \in Idx : /\ hwState'[c] >= hwState[c]
                        /\ c \notin S => hwState'[c] = hwState[c]
                        /\ hwState[c] >= InFlight => hwState'[c] >= InFlight
BY StateOrder DEF TypeOK, CommandType, Complete

\* A step of a client that does not touch the commands, and does not begin to
\* submit one ...
LEMMA ClientOwnedFrame ==
  ASSUME TypeOK, Owned, NEW t \in Clients, UNCHANGED ownVars, pc'[t] # "Submit",
         \A u \in Threads \ {t} : pc'[u] = pc[u] /\ arg'[u] = arg[u] /\ ret'[u] = ret[u]
  PROVE  Owned'
<1>1. Worker \in Threads \ {t}
  BY ThreadsAssumption DEF Threads
<1>2. \A u \in Clients : pc'[u] = "Submit" => u # t /\ pc[u] = "Submit" /\ arg'[u] = arg[u]
  BY DEF Threads
<1>3. SubmitOwned'
  BY <1>2 DEF Owned, SubmitOwned, ownVars
<1>4. BufferOwned' /\ LogOwned'
  BY DEF Owned, BufferOwned, LogOwned, StatePending, ownVars
<1>5. WorkerOwned'
  BY <1>1 DEF Owned, WorkerOwned, Holding, Waiting, Launching, StatePending, ownVars
<1>6. QED
  BY <1>3, <1>4, <1>5 DEF Owned

\* ... and one of any thread that gets hold of none.
LEMMA OwnedFrame ==
  ASSUME TypeOK, Owned, UNCHANGED ownVars, Holding' => Holding, Waiting' => Waiting,
         \A u \in Clients : pc'[u] = "Submit" => pc[u] = "Submit" /\ arg'[u] = arg[u]
  PROVE  Owned'
<1>1. SubmitOwned'
  BY DEF Owned, SubmitOwned, ownVars
<1>2. BufferOwned' /\ LogOwned'
  BY DEF Owned, BufferOwned, LogOwned, StatePending, ownVars
<1>3. WorkerOwned'
  BY DEF Owned, WorkerOwned, StatePending, ownVars
<1>4. QED
  BY <1>1, <1>2, <1>3 DEF Owned

\* The client steps that leave the commands alone.
LEMMA ClientMoves ==
  ASSUME TypeOK, ControlOK, Owned, NEW t \in Clients,
         SubmitReturn(t) \/ WaitAllReturn(t) \/ WaitCall(t) \/ WaitInFlight(t) \/
         WaitReturn(t) \/ SuspendCall(t) \/ SuspendMark(t) \/ Pause(t) \/ Deactivate(t)
         \/ SuspendSync(t) \/ ResumeCall(t) \/ ResumeMark(t) \/ Reactivate(t) \/
         RelaunchNext(t) \/ RelaunchEnd(t) \/ ResumeWorker(t) \/ DropIdx(t) \/
         Configure(t) \/ DelCall(t) \/ Dtor(t) \/ DtorReturn(t)
  PROVE  Owned'
<1>1. CASE SubmitReturn(t)
  <2>1. UNCHANGED ownVars
    BY <1>1 DEF ownVars, SubmitReturn, ThreadStep, bufVars, cmdVars, logVars, queueVars
  <2>2. pc'[t] # "Submit"
    BY <1>1 DEF TypeOK, ThreadType, Threads, SubmitReturn, Goto
  <2>3. \A u \in Threads \ {t} : pc'[u] = pc[u] /\ arg'[u] = arg[u] /\ ret'[u] = ret[u]
    BY <1>1 DEF TypeOK, ThreadType, SubmitReturn, Goto, Forget
  <2>4. QED
    BY <2>1, <2>2, <2>3, ClientOwnedFrame
<1>2. CASE WaitAllReturn(t)
  <2>1. UNCHANGED ownVars
    BY <1>2 DEF ownVars, WaitAllReturn, BufferStep, bufVars, cmdVars, logVars, queueVars
  <2>2. pc'[t] # "Submit"
    BY <1>2 DEF TypeOK, ThreadType, Threads, ControlOK, ClientControl, SyncLabels,
      ResumeLabels, WaitAllReturn, Goto
  <2>3. \A u \in Threads \ {t} : pc'[u] = pc[u] /\ arg'[u] = arg[u] /\ ret'[u] = ret[u]
    BY <1>2 DEF TypeOK, ThreadType, WaitAllReturn, Goto, Forget
  <2>4. QED
    BY <2>1, <2>2, <2>3, ClientOwnedFrame
<1>3. CASE WaitCall(t)
  <2>1. UNCHANGED ownVars
    BY <1>3 DEF ownVars, WaitCall, ThreadStep, bufVars, cmdVars, logVars, queueVars
  <2>2. pc'[t] # "Submit"
    BY <1>3 DEF TypeOK, ThreadType, Threads, WaitCall, Goto
  <2>3. \A u \in Threads \ {t} : pc'[u] = pc[u] /\ arg'[u] = arg[u] /\ ret'[u] = ret[u]
    BY <1>3 DEF TypeOK, ThreadType, WaitCall, Goto
  <2>4. QED
    BY <2>1, <2>2, <2>3, ClientOwnedFrame
<1>4. CASE WaitInFlight(t)
  <2>1. UNCHANGED ownVars
    BY <1>4 DEF ownVars, WaitInFlight, CallSync, ThreadStep, bufVars, cmdVars, logVars,
      queueVars
  <2>2. pc'[t] # "Submit"
    BY <1>4 DEF TypeOK, ThreadType, Threads, WaitInFlight, CallSync, Goto
  <2>3. \A u \in Threads \ {t} : pc'[u] = pc[u] /\ arg'[u] = arg[u] /\ ret'[u] = ret[u]
    BY <1>4 DEF TypeOK, ThreadType, WaitInFlight, CallSync, Goto
  <2>4. QED
    BY <2>1, <2>2, <2>3, ClientOwnedFrame
<1>5. CASE WaitReturn(t)
  <2>1. UNCHANGED ownVars
    BY <1>5 DEF ownVars, WaitReturn, bufVars, cmdVars, logVars, queueVars
  <2>2. pc'[t] # "Submit"
    BY <1>5 DEF TypeOK, ThreadType, Threads, WaitReturn, Goto
  <2>3. \A u \in Threads \ {t} : pc'[u] = pc[u] /\ arg'[u] = arg[u] /\ ret'[u] = ret[u]
    BY <1>5 DEF TypeOK, ThreadType, WaitReturn, Goto, Forget
  <2>4. QED
    BY <2>1, <2>2, <2>3, ClientOwnedFrame
<1>6. CASE SuspendCall(t)
  <2>1. UNCHANGED ownVars
    BY <1>6 DEF ownVars, SuspendCall, ThreadStep, bufVars, cmdVars, logVars, queueVars
  <2>2. pc'[t] # "Submit"
    BY <1>6 DEF TypeOK, ThreadType, Threads, SuspendCall, Goto
  <2>3. \A u \in Threads \ {t} : pc'[u] = pc[u] /\ arg'[u] = arg[u] /\ ret'[u] = ret[u]
    BY <1>6 DEF TypeOK, ThreadType, SuspendCall, Goto
  <2>4. QED
    BY <2>1, <2>2, <2>3, ClientOwnedFrame
<1>7. CASE SuspendMark(t)
  <2>1. UNCHANGED ownVars
    BY <1>7 DEF ownVars, SuspendMark, bufVars, cmdVars, logVars
  <2>2. pc'[t] # "Submit"
    BY <1>7 DEF TypeOK, ThreadType, Threads, SuspendMark, Goto
  <2>3. \A u \in Threads \ {t} : pc'[u] = pc[u] /\ arg'[u] = arg[u] /\ ret'[u] = ret[u]
    BY <1>7 DEF TypeOK, ThreadType, SuspendMark, Goto, localVars
  <2>4. QED
    BY <2>1, <2>2, <2>3, ClientOwnedFrame
<1>8. CASE Pause(t)
  <2>1. UNCHANGED ownVars
    BY <1>8 DEF ownVars, Pause, bufVars, cmdVars, logVars, queueVars
  <2>2. pc'[t] # "Submit"
    BY <1>8 DEF TypeOK, ThreadType, Threads, Pause, Goto
  <2>3. \A u \in Threads \ {t} : pc'[u] = pc[u] /\ arg'[u] = arg[u] /\ ret'[u] = ret[u]
    BY <1>8 DEF TypeOK, ThreadType, Pause, Goto, localVars
  <2>4. QED
    BY <2>1, <2>2, <2>3, ClientOwnedFrame
<1>9. CASE Deactivate(t)
  <2>1. UNCHANGED ownVars
    BY <1>9 DEF ownVars, Deactivate, bufVars, cmdVars, logVars, queueVars
  <2>2. pc'[t] # "Submit"
    BY <1>9 DEF TypeOK, ThreadType, Threads, Deactivate, Goto
  <2>3. \A u \in Threads \ {t} : pc'[u] = pc[u] /\ arg'[u] = arg[u] /\ ret'[u] = ret[u]
    BY <1>9 DEF TypeOK, ThreadType, Deactivate, Goto, localVars
  <2>4. QED
    BY <2>1, <2>2, <2>3, ClientOwnedFrame
<1>10. CASE SuspendSync(t)
  <2>1. UNCHANGED ownVars
    BY <1>10 DEF ownVars, SuspendSync, ThreadStep, bufVars, cmdVars, logVars, queueVars
  <2>2. pc'[t] # "Submit"
    BY <1>10 DEF TypeOK, ThreadType, Threads, SuspendSync, Goto
  <2>3. \A u \in Threads \ {t} : pc'[u] = pc[u] /\ arg'[u] = arg[u] /\ ret'[u] = ret[u]
    BY <1>10 DEF TypeOK, ThreadType, SuspendSync, Goto, localVars
  <2>4. QED
    BY <2>1, <2>2, <2>3, ClientOwnedFrame
<1>11. CASE ResumeCall(t)
  <2>1. UNCHANGED ownVars
    BY <1>11 DEF ownVars, ResumeCall, BeginResume, BufferStep, bufVars, cmdVars,
      logVars, queueVars
  <2>2. pc'[t] # "Submit"
    BY <1>11 DEF TypeOK, ThreadType, Threads, ResumeCall, BeginResume, Goto
  <2>3. \A u \in Threads \ {t} : pc'[u] = pc[u] /\ arg'[u] = arg[u] /\ ret'[u] = ret[u]
    BY <1>11 DEF TypeOK, ThreadType, ResumeCall, BeginResume, Goto
  <2>4. QED
    BY <2>1, <2>2, <2>3, ClientOwnedFrame
<1>12. CASE ResumeMark(t)
  <2>1. UNCHANGED ownVars
    BY <1>12 DEF ownVars, ResumeMark, bufVars, cmdVars, logVars
  <2>2. pc'[t] # "Submit"
    BY <1>12 DEF TypeOK, ThreadType, Threads, ControlOK, ClientControl, SyncLabels,
      ResumeLabels, ResumeMark, Goto
  <2>3. \A u \in Threads \ {t} : pc'[u] = pc[u] /\ arg'[u] = arg[u] /\ ret'[u] = ret[u]
    BY <1>12 DEF TypeOK, ThreadType, ResumeMark, Goto, localVars
  <2>4. QED
    BY <2>1, <2>2, <2>3, ClientOwnedFrame
<1>13. CASE Reactivate(t)
  <2>1. UNCHANGED ownVars
    BY <1>13 DEF ownVars, Reactivate, bufVars, cmdVars, logVars, queueVars
  <2>2. pc'[t] # "Submit"
    BY <1>13 DEF TypeOK, ThreadType, Threads, Reactivate, Goto
  <2>3. \A u \in Threads \ {t} : pc'[u] = pc[u] /\ arg'[u] = arg[u] /\ ret'[u] = ret[u]
    BY <1>13 DEF TypeOK, ThreadType, Reactivate, Goto
  <2>4. QED
    BY <2>1, <2>2, <2>3, ClientOwnedFrame
<1>14. CASE RelaunchNext(t)
  <2>1. UNCHANGED ownVars
    BY <1>14 DEF ownVars, RelaunchNext, bufVars, cmdVars, logVars, queueVars
  <2>2. pc'[t] # "Submit"
    BY <1>14 DEF TypeOK, ThreadType, Threads, RelaunchNext
  <2>3. \A u \in Threads \ {t} : pc'[u] = pc[u] /\ arg'[u] = arg[u] /\ ret'[u] = ret[u]
    BY <1>14 DEF TypeOK, ThreadType, RelaunchNext
  <2>4. QED
    BY <2>1, <2>2, <2>3, ClientOwnedFrame
<1>15. CASE RelaunchEnd(t)
  <2>1. UNCHANGED ownVars
    BY <1>15 DEF ownVars, RelaunchEnd, ThreadStep, bufVars, cmdVars, logVars, queueVars
  <2>2. pc'[t] # "Submit"
    BY <1>15 DEF TypeOK, ThreadType, Threads, RelaunchEnd, Goto
  <2>3. \A u \in Threads \ {t} : pc'[u] = pc[u] /\ arg'[u] = arg[u] /\ ret'[u] = ret[u]
    BY <1>15 DEF TypeOK, ThreadType, RelaunchEnd, Goto, Forget
  <2>4. QED
    BY <2>1, <2>2, <2>3, ClientOwnedFrame
<1>16. CASE ResumeWorker(t)
  <2>1. UNCHANGED ownVars
    BY <1>16 DEF ownVars, ResumeWorker, bufVars, cmdVars, logVars, queueVars
  <2>2. pc'[t] # "Submit"
    BY <1>16 DEF TypeOK, ThreadType, Threads, ControlOK, ClientControl, SyncLabels,
      ResumeLabels, ResumeWorker, Goto
  <2>3. \A u \in Threads \ {t} : pc'[u] = pc[u] /\ arg'[u] = arg[u] /\ ret'[u] = ret[u]
    BY <1>16 DEF TypeOK, ThreadType, ResumeWorker, Goto, localVars
  <2>4. QED
    BY <2>1, <2>2, <2>3, ClientOwnedFrame
<1>17. CASE DropIdx(t)
  <2>1. UNCHANGED ownVars
    BY <1>17 DEF ownVars, DropIdx, ThreadStep, bufVars, cmdVars, logVars, queueVars
  <2>2. pc'[t] # "Submit"
    BY <1>17 DEF TypeOK, ThreadType, Threads, DropIdx, Goto
  <2>3. \A u \in Threads \ {t} : pc'[u] = pc[u] /\ arg'[u] = arg[u] /\ ret'[u] = ret[u]
    BY <1>17 DEF TypeOK, ThreadType, DropIdx, Goto
  <2>4. QED
    BY <2>1, <2>2, <2>3, ClientOwnedFrame
<1>18. CASE Configure(t)
  <2>1. UNCHANGED ownVars
    BY <1>18 DEF ownVars, Configure, bufVars, cmdVars, logVars, queueVars
  <2>2. pc'[t] # "Submit"
    BY <1>18 DEF TypeOK, ThreadType, Threads, Configure, Goto
  <2>3. \A u \in Threads \ {t} : pc'[u] = pc[u] /\ arg'[u] = arg[u] /\ ret'[u] = ret[u]
    BY <1>18 DEF TypeOK, ThreadType, Configure, Goto, localVars
  <2>4. QED
    BY <2>1, <2>2, <2>3, ClientOwnedFrame
<1>19. CASE DelCall(t)
  <2>1. UNCHANGED ownVars
    BY <1>19 DEF ownVars, DelCall, BeginResume, BufferStep, bufVars, cmdVars, logVars
  <2>2. pc'[t] # "Submit"
    BY <1>19 DEF TypeOK, ThreadType, Threads, DelCall, BeginResume, Goto
  <2>3. \A u \in Threads \ {t} : pc'[u] = pc[u] /\ arg'[u] = arg[u] /\ ret'[u] = ret[u]
    BY <1>19 DEF TypeOK, ThreadType, DelCall, BeginResume, Goto
  <2>4. QED
    BY <2>1, <2>2, <2>3, ClientOwnedFrame
<1>20. CASE Dtor(t)
  <2>1. UNCHANGED ownVars
    BY <1>20 DEF ownVars, Dtor, BeginResume, BufferStep, bufVars, cmdVars, logVars
  <2>2. pc'[t] # "Submit"
    BY <1>20 DEF TypeOK, ThreadType, Threads, Dtor, BeginResume, Goto
  <2>3. \A u \in Threads \ {t} : pc'[u] = pc[u] /\ arg'[u] = arg[u] /\ ret'[u] = ret[u]
    BY <1>20 DEF TypeOK, ThreadType, Dtor, BeginResume, Goto
  <2>4. QED
    BY <2>1, <2>2, <2>3, ClientOwnedFrame
<1>21. CASE DtorReturn(t)
  <2>1. UNCHANGED ownVars
    BY <1>21 DEF ownVars, DtorReturn, ThreadStep, bufVars, cmdVars, logVars, queueVars
  <2>2. pc'[t] # "Submit"
    BY <1>21 DEF TypeOK, ThreadType, Threads, DtorReturn, Goto
  <2>3. \A u \in Threads \ {t} : pc'[u] = pc[u] /\ arg'[u] = arg[u] /\ ret'[u] = ret[u]
    BY <1>21 DEF TypeOK, ThreadType, DtorReturn, Goto, localVars
  <2>4. QED
    BY <2>1, <2>2, <2>3, ClientOwnedFrame
<1>22. QED
  BY <1>1, <1>2, <1>3, <1>4, <1>5, <1>6, <1>7, <1>8, <1>9, <1>10, <1>11, <1>12, <1>13,
    <1>14, <1>15, <1>16, <1>17, <1>18, <1>19, <1>20, <1>21

\* The steps of the hardware and of the worker that leave the commands alone.
LEMMA WorkerMoves ==
  ASSUME TypeOK, ControlOK, Owned,
         \/ HwRetire \/ LaunchEnter \/ LaunchThreshold \/ LaunchResumed \/ BatchSyncEnter
         \/ BatchSyncDone \/ DestroyEnter \/ DestroyDone
         \/ DequeueIdle /\ BufferStep /\ UNCHANGED <<queueVars, localVars>>
  PROVE  Owned'
<1>1. CASE HwRetire
  <2>1. UNCHANGED ownVars
    BY <1>1 DEF ownVars, HwRetire, bufVars, cmdVars, logVars, queueVars
  <2>2. (Holding' => Holding) /\ (Waiting' => Waiting)
    BY <1>1 DEF TypeOK, ThreadType, Threads, Holding, Waiting, Launching, SyncLabels,
      Stateful, HwRetire, localVars
  <2>3. \A u \in Clients : pc'[u] = pc[u] /\ arg'[u] = arg[u]
    BY <1>1, ThreadsAssumption DEF TypeOK, ThreadType, Threads, HwRetire, localVars
  <2>4. QED
    BY <2>1, <2>2, <2>3, OwnedFrame
<1>2. CASE DequeueIdle /\ BufferStep /\ UNCHANGED <<queueVars, localVars>>
  <2>1. UNCHANGED ownVars
    BY <1>2 DEF ownVars, DequeueIdle, BufferStep, cmdVars, logVars, queueVars
  <2>2. (Holding' => Holding) /\ (Waiting' => Waiting)
    BY <1>2 DEF TypeOK, ThreadType, Threads, Holding, Waiting, Launching, SyncLabels,
      Stateful, DequeueIdle, Goto, localVars
  <2>3. \A u \in Clients : pc'[u] = pc[u] /\ arg'[u] = arg[u]
    BY <1>2, ThreadsAssumption DEF TypeOK, ThreadType, Threads, DequeueIdle, Goto,
      localVars
  <2>4. QED
    BY <2>1, <2>2, <2>3, OwnedFrame
<1>3. CASE LaunchEnter
  <2>1. UNCHANGED ownVars
    BY <1>3 DEF ownVars, LaunchEnter, ThreadStep, bufVars, cmdVars, logVars, queueVars
  <2>2. (Holding' => Holding) /\ (Waiting' => Waiting)
    BY <1>3 DEF TypeOK, ThreadType, Threads, Holding, Waiting, Launching, SyncLabels,
      Stateful, LaunchEnter, CallSync, Goto
  <2>3. \A u \in Clients : pc'[u] = pc[u] /\ arg'[u] = arg[u]
    BY <1>3, ThreadsAssumption DEF TypeOK, ThreadType, Threads, LaunchEnter, CallSync,
      Goto
  <2>4. QED
    BY <2>1, <2>2, <2>3, OwnedFrame
<1>4. CASE LaunchThreshold
  <2>1. UNCHANGED ownVars
    BY <1>4 DEF ownVars, LaunchThreshold, ThreadStep, bufVars, cmdVars, logVars,
      queueVars
  <2>2. (Holding' => Holding) /\ (Waiting' => Waiting)
    BY <1>4 DEF TypeOK, ThreadType, Threads, Holding, Waiting, Launching, SyncLabels,
      Stateful, LaunchThreshold, CallSync, Goto
  <2>3. \A u \in Clients : pc'[u] = pc[u] /\ arg'[u] = arg[u]
    BY <1>4, ThreadsAssumption DEF TypeOK, ThreadType, Threads, LaunchThreshold,
      CallSync, Goto
  <2>4. QED
    BY <2>1, <2>2, <2>3, OwnedFrame
<1>5. CASE LaunchResumed
  <2>1. UNCHANGED ownVars
    BY <1>5 DEF ownVars, LaunchResumed, ThreadStep, bufVars, cmdVars, logVars, queueVars
  <2>2. (Holding' => Holding) /\ (Waiting' => Waiting)
    BY <1>5 DEF TypeOK, ThreadType, Threads, Holding, Waiting, Launching, SyncLabels,
      Stateful, LaunchResumed, Goto, localVars
  <2>3. \A u \in Clients : pc'[u] = pc[u] /\ arg'[u] = arg[u]
    BY <1>5, ThreadsAssumption DEF TypeOK, ThreadType, Threads, LaunchResumed, Goto,
      localVars
  <2>4. QED
    BY <2>1, <2>2, <2>3, OwnedFrame
<1>6. CASE BatchSyncEnter
  <2>1. UNCHANGED ownVars
    BY <1>6 DEF ownVars, BatchSyncEnter, ThreadStep, bufVars, cmdVars, logVars,
      queueVars
  <2>2. (Holding' => Holding) /\ (Waiting' => Waiting)
    BY <1>6 DEF TypeOK, ThreadType, Threads, Holding, Waiting, Launching, SyncLabels,
      Stateful, BatchSyncEnter, CallSync, Goto
  <2>3. \A u \in Clients : pc'[u] = pc[u] /\ arg'[u] = arg[u]
    BY <1>6, ThreadsAssumption DEF TypeOK, ThreadType, Threads, BatchSyncEnter,
      CallSync, Goto
  <2>4. QED
    BY <2>1, <2>2, <2>3, OwnedFrame
<1>7. CASE BatchSyncDone
  <2>1. UNCHANGED ownVars
    BY <1>7 DEF ownVars, BatchSyncDone, ThreadStep, bufVars, cmdVars, logVars, queueVars
  <2>2. (Holding' => Holding) /\ (Waiting' => Waiting)
    BY <1>7 DEF TypeOK, ThreadType, Threads, Holding, Waiting, Launching, SyncLabels,
      Stateful, BatchSyncDone, Goto
  <2>3. \A u \in Clients : pc'[u] = pc[u] /\ arg'[u] = arg[u]
    BY <1>7, ThreadsAssumption DEF TypeOK, ThreadType, Threads, BatchSyncDone, Goto,
      Forget
  <2>4. QED
    BY <2>1, <2>2, <2>3, OwnedFrame
<1>8. CASE DestroyEnter
  <2>1. UNCHANGED ownVars
    BY <1>8 DEF ownVars, DestroyEnter, bufVars, cmdVars, logVars
  <2>2. (Holding' => Holding) /\ (Waiting' => Waiting)
    BY <1>8 DEF TypeOK, ThreadType, Threads, Holding, Waiting, Launching, SyncLabels,
      Stateful, DestroyEnter, CallSync, Goto
  <2>3. \A u \in Clients : pc'[u] = pc[u] /\ arg'[u] = arg[u]
    BY <1>8, ThreadsAssumption DEF TypeOK, ThreadType, Threads, DestroyEnter, CallSync,
      Goto
  <2>4. QED
    BY <2>1, <2>2, <2>3, OwnedFrame
<1>9. CASE DestroyDone
  <2>1. UNCHANGED ownVars
    BY <1>9 DEF ownVars, DestroyDone, bufVars, cmdVars, logVars
  <2>2. (Holding' => Holding) /\ (Waiting' => Waiting)
    BY <1>9 DEF TypeOK, ThreadType, Threads, Holding, Waiting, Launching, SyncLabels,
      Stateful, DestroyDone, Goto, localVars
  <2>3. \A u \in Clients : pc'[u] = pc[u] /\ arg'[u] = arg[u]
    BY <1>9, ThreadsAssumption DEF TypeOK, ThreadType, Threads, DestroyDone, Goto,
      localVars
  <2>4. QED
    BY <2>1, <2>2, <2>3, OwnedFrame
<1>10. QED
  BY <1>1, <1>2, <1>3, <1>4, <1>5, <1>6, <1>7, <1>8, <1>9

-----------------------------------------------------------------------------
(* Steps of clients that change commands *)

\* A submission that takes the next index: nobody else has it.
LEMMA SubmitIdxOwned ==
  ASSUME TypeOK, ControlOK, Owned, NEW t \in Clients, SubmitIdx(t)
  PROVE  Owned'
<1>1. /\ pc'[t] = "Submit" /\ arg'[t] = nextIdx /\ nextIdx' = nextIdx + 1
      /\ nextIdx \in Idx /\ nextIdx \in Nat
      /\ UNCHANGED <<hwState, waState, waCount, cmds, cmdLog, cur>>
  BY DEF TypeOK, ThreadType, QueueType, SubmitIdx, Goto, Threads, Idx, bufVars, logVars
<1>2. \A u \in Threads \ {t} : pc'[u] = pc[u] /\ arg'[u] = arg[u] /\ ret'[u] = ret[u]
  BY DEF TypeOK, ThreadType, SubmitIdx, Goto
<1>3. SubmitOwned'
  <2>1. \A c \in Idx : c >= nextIdx' => hwState'[c] = Created
    BY <1>1, IdxNat DEF Owned, SubmitOwned
  <2>2. \A u \in Clients \ {t} : pc'[u] = "Submit" =>
          pc[u] = "Submit" /\ arg'[u] = arg[u] /\ arg[u] < nextIdx /\ arg[u] \in Nat
    BY <1>2 DEF Owned, SubmitOwned, Threads, TypeOK, ThreadType
  <2>3. \A u \in Clients : pc'[u] = "Submit" =>
          arg'[u] < nextIdx' /\ hwState'[arg'[u]] = Created
    BY <1>1, <2>2 DEF Owned, SubmitOwned
  <2>4. \A u, v \in Clients :
          pc'[u] = "Submit" /\ pc'[v] = "Submit" /\ arg'[u] = arg'[v] => u = v
    BY <1>1, <2>2 DEF Owned, SubmitOwned
  <2>5. QED
    BY <2>1, <2>3, <2>4 DEF SubmitOwned
<1>4. BufferOwned' /\ LogOwned'
  BY <1>1 DEF Owned, BufferOwned, LogOwned, StatePending
<1>5. WorkerOwned'
  <2>1. Worker \in Threads \ {t}
    BY ThreadsAssumption DEF Threads
  <2>2. QED
    BY <1>1, <1>2, <2>1
    DEF Owned, WorkerOwned, Holding, Waiting, Launching, StatePending
<1>6. QED
  BY <1>3, <1>4, <1>5 DEF Owned

\* The submitted command was in its first state, so neither the buffer nor the
\* worker nor the log had it.
LEMMA SubmitEnqueueOwned ==
  ASSUME TypeOK, ControlOK, Owned, NEW t \in Clients, SubmitEnqueue(t)
  PROVE  Owned'
<1>0. PICK c : c = arg[t]
  OBVIOUS
<1>1. /\ c \in Idx /\ c < nextIdx /\ hwState[c] = Created /\ pc[t] = "Submit"
      /\ hwState' = [hwState EXCEPT ![c] = Pending]
      /\ cmds' = Append(cmds, Hardware(c))
      /\ UNCHANGED <<waState, waCount, nextIdx, cmdLog, cur, ret>>
  BY <1>0 DEF ControlOK, ClientControl, Owned, SubmitOwned, SubmitEnqueue, Enqueue, logVars,
     queueVars
<1>2. /\ pc'[t] # "Submit"
      /\ \A u \in Threads \ {t} : pc'[u] = pc[u] /\ arg'[u] = arg[u]
  BY DEF TypeOK, ThreadType, SubmitEnqueue, Goto, Forget, Threads
<1>3. /\ hwState'[c] = Pending
      /\ \A d \in Idx : d # c => hwState'[d] = hwState[d]
  BY <1>1 DEF TypeOK, CommandType
<1>4. SubmitOwned'
  <2>1. \A d \in Idx : d >= nextIdx' => hwState'[d] = Created
    BY <1>1, <1>3, IdxNat DEF Owned, SubmitOwned, TypeOK, QueueType
  <2>2. \A u \in Clients : pc'[u] = "Submit" =>
          /\ u # t /\ pc[u] = "Submit" /\ arg'[u] = arg[u]
          /\ arg[u] \in Idx /\ arg[u] # c
    BY <1>0, <1>1, <1>2 DEF Owned, SubmitOwned, ControlOK, ClientControl, Threads
  <2>3. \A u \in Clients : pc'[u] = "Submit" =>
          arg'[u] < nextIdx' /\ hwState'[arg'[u]] = Created
    BY <1>1, <1>3, <2>2 DEF Owned, SubmitOwned
  <2>4. QED
    BY <2>1, <2>2, <2>3 DEF Owned, SubmitOwned
<1>5. /\ Len(cmds') = Len(cmds) + 1 /\ Len(cmds) \in Nat
      /\ cmds'[Len(cmds) + 1] = Hardware(c)
      /\ \A j \in 1..Len(cmds) : cmds'[j] = cmds[j]
  <2>1. cmds \in Seq(XCommand) /\ Hardware(c) \in XCommand
    BY <1>1, CommandsMade DEF TypeOK, BufferType
  <2>2. QED
    BY <1>1, <2>1, AppendProperties, LenProperties
<1>6. ASSUME NEW x \in XCommand, StatePending(x) PROVE StatePending(x)' /\ ~Same(x, Hardware(c))
  BY <1>1, <1>3, <1>6, CommandFields, StateOrder, CommandStates
  DEF StatePending, Same, Hardware
<1>7. BufferOwned'
  <2>1. \A j \in 1..Len(cmds) : /\ StatePending(cmds[j])' /\ cmds'[j] = cmds[j]
                                /\ ~Same(cmds[j], Hardware(c))
    BY <1>5, <1>6, BufferElements DEF Owned, BufferOwned
  <2>2. StatePending(Hardware(c))'
    BY <1>3 DEF StatePending, Hardware
  <2>3. \A j \in 1..Len(cmds') : StatePending(cmds[j])'
    BY <1>5, <2>1, <2>2
  <2>4. \A i, j \in 1..Len(cmds') :
          Stateful(cmds'[i]) /\ Same(cmds'[i], cmds'[j]) => i = j
    BY <1>5, <2>1 DEF Owned, BufferOwned, Same
  <2>5. QED
    BY <1>1, <2>3, <2>4 DEF Owned, BufferOwned
<1>8. WorkerOwned'
  <2>1. pc'[Worker] = pc[Worker] /\ ret'[Worker] = ret[Worker]
    BY <1>1, <1>2, ThreadsAssumption DEF Threads
  <2>2. (Holding' <=> Holding) /\ (Waiting' <=> Waiting)
    BY <1>1, <2>1 DEF Holding, Waiting, Launching
  <2>3. Holding => /\ StatePending(cur)' /\ ~Same(cur, Hardware(c))
                   /\ \A j \in 1..Len(cmds) : ~Same(cmds[j], cur)
    BY <1>1, <1>6 DEF Owned, WorkerOwned, TypeOK, ThreadType
  <2>4. Holding => \A j \in 1..Len(cmds') : ~Same(cmds'[j], cur)
    BY <1>5, <2>3 DEF Same
  <2>5. QED
    BY <1>1, <2>2, <2>3, <2>4 DEF Owned, WorkerOwned
<1>9. LogOwned'
  BY <1>1, <1>3, LogElements, StateOrder, CommandStates
  DEF Owned, LogOwned, TypeOK, CommandType
<1>10. QED
  BY <1>4, <1>7, <1>8, <1>9 DEF Owned

\* A new wait-all has a number no earlier one has.
LEMMA BeginWaitAllOwned ==
  ASSUME TypeOK, ControlOK, Owned, NEW t \in Clients, NEW label, BeginWaitAll(t, label)
  PROVE  Owned'
<1>1. /\ pc'[t] = "WaitAll"
      /\ \A u \in Threads \ {t} : pc'[u] = pc[u] /\ arg'[u] = arg[u] /\ ret'[u] = ret[u]
      /\ UNCHANGED <<hwState, nextIdx, cmdLog, cur>>
  BY DEF TypeOK, ThreadType, BeginWaitAll, EnqueueWaitAll, Goto, Threads, BufferStep,
     cmdVars, logVars, queueVars
<1>2. CASE UNCHANGED bufVars
  BY <1>1, <1>2, ClientOwnedFrame DEF ownVars, bufVars
<1>3. CASE ~SharesWaitAll
  <2>1. PICK n \in Nat : n = waCount
    BY DEF TypeOK, BufferType
  <2>2. /\ waState' = [waState EXCEPT ![n] = Pending]
        /\ waCount' = n + 1 /\ cmds' = Append(cmds, WaitAllCmd(n))
    BY <1>3, <2>1 DEF BeginWaitAll, EnqueueWaitAll
  <2>3. /\ Len(cmds') = Len(cmds) + 1 /\ Len(cmds) \in Nat
        /\ cmds'[Len(cmds) + 1] = WaitAllCmd(n)
        /\ \A j \in 1..Len(cmds) : cmds'[j] = cmds[j]
    <3>1. cmds \in Seq(XCommand) /\ WaitAllCmd(n) \in XCommand
      BY CommandsMade DEF TypeOK, BufferType
    <3>2. QED
      BY <2>2, <3>1, AppendProperties, LenProperties
  <2>4. /\ n \in WaitAlls => waState'[n] = Pending
        /\ \A k \in WaitAlls : k # n => waState'[k] = waState[k]
    BY <2>2 DEF TypeOK, BufferType
  <2>5. ASSUME NEW x \in XCommand, StatePending(x)
        PROVE  StatePending(x)' /\ ~Same(x, WaitAllCmd(n))
    BY <1>1, <2>1, <2>2, <2>4, <2>5, CommandFields DEF StatePending, Same, WaitAllCmd
  <2>6. SubmitOwned'
    <3>1. \A u \in Clients :
            pc'[u] = "Submit" => u # t /\ pc[u] = "Submit" /\ arg'[u] = arg[u]
      BY <1>1 DEF Threads
    <3>2. QED
      BY <1>1, <3>1 DEF Owned, SubmitOwned
  <2>7. BufferOwned'
    <3>1. \A j \in 1..Len(cmds) : /\ StatePending(cmds[j])' /\ cmds'[j] = cmds[j]
                                  /\ ~Same(cmds[j], WaitAllCmd(n))
      BY <2>3, <2>5, BufferElements DEF Owned, BufferOwned
    <3>2. StatePending(WaitAllCmd(n))'
      BY <2>2, <2>4 DEF StatePending, WaitAllCmd
    <3>3. \A j \in 1..Len(cmds') : StatePending(cmds[j])'
      BY <2>3, <3>1, <3>2
    <3>4. \A i, j \in 1..Len(cmds') :
            Stateful(cmds'[i]) /\ Same(cmds'[i], cmds'[j]) => i = j
      BY <2>3, <3>1 DEF Owned, BufferOwned, Same
    <3>5. \A k \in WaitAlls : k >= waCount' => waState'[k] = Created
      BY <2>1, <2>2, <2>4 DEF Owned, BufferOwned, WaitAlls
    <3>6. QED
      BY <3>3, <3>4, <3>5 DEF BufferOwned
  <2>8. WorkerOwned'
    <3>1. pc'[Worker] = pc[Worker] /\ ret'[Worker] = ret[Worker]
      BY <1>1, ThreadsAssumption DEF Threads
    <3>2. (Holding' <=> Holding) /\ (Waiting' <=> Waiting)
      BY <1>1, <3>1 DEF Holding, Waiting, Launching
    <3>3. Holding => /\ StatePending(cur)' /\ ~Same(cur, WaitAllCmd(n))
                     /\ \A j \in 1..Len(cmds) : ~Same(cmds[j], cur)
      BY <1>1, <2>5 DEF Owned, WorkerOwned, TypeOK, ThreadType
    <3>4. Holding => \A j \in 1..Len(cmds') : ~Same(cmds'[j], cur)
      BY <2>3, <3>3 DEF Same
    <3>5. cur.id \in Nat
      BY CommandFields DEF TypeOK, ThreadType
    <3>6. Waiting => /\ cur.type = "WaitAll" /\ cur.id < waCount'
                     /\ cur.id \in WaitAlls => waState'[cur.id] >= InFlight
      BY <2>1, <2>2, <2>4, <3>5 DEF Owned, WorkerOwned
    <3>7. QED
      BY <1>1, <3>2, <3>3, <3>4, <3>6 DEF WorkerOwned
  <2>9. LogOwned'
    BY <1>1 DEF Owned, LogOwned
  <2>10. QED
    BY <2>6, <2>7, <2>8, <2>9 DEF Owned
<1>4. QED
  BY <1>2, <1>3 DEF BeginWaitAll, EnqueueWaitAll

\* The destroy command has no state anybody else reads.
LEMMA DtorEnqueueOwned ==
  ASSUME TypeOK, ControlOK, Owned, NEW t \in Clients, DtorEnqueue(t)
  PROVE  Owned'
<1>1. /\ pc'[t] # "Submit" /\ cmds' = Append(cmds, DestroyCmd)
      /\ \A u \in Threads \ {t} : pc'[u] = pc[u] /\ arg'[u] = arg[u] /\ ret'[u] = ret[u]
      /\ UNCHANGED <<hwState, waState, waCount, nextIdx, cmdLog, cur>>
  BY DEF TypeOK, ThreadType, DtorEnqueue, Enqueue, Goto, Threads, BufferStep, cmdVars,
     logVars, localVars
<1>2. /\ Len(cmds') = Len(cmds) + 1 /\ Len(cmds) \in Nat
      /\ cmds'[Len(cmds) + 1] = DestroyCmd
      /\ \A j \in 1..Len(cmds) : cmds'[j] = cmds[j]
  <2>1. cmds \in Seq(XCommand) /\ DestroyCmd \in XCommand
    BY CommandsMade DEF TypeOK, BufferType
  <2>2. QED
    BY <1>1, <2>1, AppendProperties, LenProperties
<1>3. SubmitOwned'
  <2>1. \A u \in Clients :
          pc'[u] = "Submit" => u # t /\ pc[u] = "Submit" /\ arg'[u] = arg[u]
    BY <1>1 DEF Threads
  <2>2. QED
    BY <1>1, <2>1 DEF Owned, SubmitOwned
<1>4. \A j \in 1..Len(cmds') :
        \/ j \in 1..Len(cmds) /\ cmds'[j] = cmds[j]
        \/ j = Len(cmds') /\ cmds'[j] = DestroyCmd
  BY <1>2
<1>5. BufferOwned'
  <2>1. \A j \in 1..Len(cmds') : StatePending(cmds[j])'
    BY <1>1, <1>4 DEF Owned, BufferOwned, StatePending, DestroyCmd
  <2>2. \A i, j \in 1..Len(cmds') :
          Stateful(cmds'[i]) /\ Same(cmds'[i], cmds'[j]) => i = j
    BY <1>4 DEF Owned, BufferOwned, Same, Stateful, DestroyCmd
  <2>3. QED
    BY <1>1, <2>1, <2>2 DEF Owned, BufferOwned
<1>6. WorkerOwned'
  <2>1. pc'[Worker] = pc[Worker] /\ ret'[Worker] = ret[Worker]
    BY <1>1, ThreadsAssumption DEF Threads
  <2>2. (Holding' <=> Holding) /\ (Waiting' <=> Waiting)
    BY <1>1, <2>1 DEF Holding, Waiting, Launching
  <2>3. Holding => cur.type # "Destroy"
    BY DEF Holding, Stateful, ControlOK
  <2>4. Holding => \A j \in 1..Len(cmds') : ~Same(cmds'[j], cur)
    BY <1>4, <2>3 DEF Owned, WorkerOwned, Same, DestroyCmd
  <2>5. QED
    BY <1>1, <2>2, <2>4 DEF Owned, WorkerOwned, StatePending
<1>7. LogOwned'
  BY <1>1 DEF Owned, LogOwned
<1>8. QED
  BY <1>3, <1>5, <1>6, <1>7 DEF Owned

-----------------------------------------------------------------------------
(* Steps of the worker that change commands, and dropping resumes *)

\* The worker takes the first command of the buffer.
LEMMA DequeueFrontOwned ==
  ASSUME TypeOK, ControlOK, Owned, DequeueFront, BufferStep,
         UNCHANGED <<queueVars, localVars>>
  PROVE  Owned'
<1>1. /\ pc'[Worker] = "Dequeued" /\ cmds' = Tail(cmds) /\ cur' = Head(cmds) /\ cmds # <<>>
      /\ \A u \in Clients : pc'[u] = pc[u] /\ arg'[u] = arg[u]
      /\ UNCHANGED <<hwState, waState, waCount, nextIdx, cmdLog>>
  BY ThreadsAssumption DEF TypeOK, ThreadType, DequeueFront, Goto, Threads, BufferStep,
     cmdVars, logVars, queueVars, localVars
<1>2. /\ Len(cmds) \in Nat /\ Len(cmds) >= 1 /\ Len(cmds') = Len(cmds) - 1
      /\ cur' = cmds[1]
      /\ \A j \in 1..Len(cmds') : cmds'[j] = cmds[j + 1]
  BY <1>1, HeadTailProperties, LenProperties, EmptySeq DEF TypeOK, BufferType
<1>3. \A j \in 1..Len(cmds') : j + 1 \in 1..Len(cmds) /\ j + 1 # 1
  BY <1>2
<1>4. SubmitOwned' /\ LogOwned'
  BY <1>1 DEF Owned, SubmitOwned, LogOwned
<1>5. BufferOwned'
  <2>1. \A j \in 1..Len(cmds') : StatePending(cmds[j])'
    BY <1>1, <1>2, <1>3 DEF Owned, BufferOwned, StatePending
  <2>2. \A i, j \in 1..Len(cmds') :
          Stateful(cmds'[i]) /\ Same(cmds'[i], cmds'[j]) => i = j
    BY <1>2, <1>3 DEF Owned, BufferOwned
  <2>3. QED
    BY <1>1, <2>1, <2>2 DEF Owned, BufferOwned
<1>6. WorkerOwned'
  <2>1. ~Waiting' /\ (Holding' => Stateful(cur'))
    BY <1>1 DEF Holding, Waiting, Launching, SyncLabels
  <2>2. StatePending(cur)'
    BY <1>1, <1>2 DEF Owned, BufferOwned, StatePending
  <2>3. Stateful(cur') => \A j \in 1..Len(cmds') : ~Same(cmds'[j], cur')
    BY <1>2, <1>3 DEF Owned, BufferOwned, Same
  <2>4. QED
    BY <2>1, <2>2, <2>3 DEF WorkerOwned
<1>7. QED
  BY <1>4, <1>5, <1>6 DEF Owned

\* A wait-all the worker generates is new, and the buffer is empty.
LEMMA DequeueGenWaitAllOwned ==
  ASSUME TypeOK, ControlOK, Owned, DequeueGenWaitAll, BufferStep,
         UNCHANGED <<queueVars, localVars>>
  PROVE  Owned'
<1>1. /\ pc'[Worker] = "Dequeued" /\ cmds = <<>> /\ cur' = WaitAllCmd(waCount)
      /\ waCount' = waCount + 1 /\ waState' = [waState EXCEPT ![waCount] = Pending]
      /\ \A u \in Clients : pc'[u] = pc[u] /\ arg'[u] = arg[u]
      /\ UNCHANGED <<cmds, hwState, nextIdx, cmdLog>>
  BY ThreadsAssumption DEF TypeOK, ThreadType, DequeueGenWaitAll, Goto, Threads, BufferStep,
     cmdVars, logVars, queueVars, localVars
<1>2. /\ waCount \in Nat /\ Len(cmds') = 0
      /\ waCount \in WaitAlls => waState'[waCount] = Pending
      /\ \A k \in WaitAlls : k # waCount => waState'[k] = waState[k]
  BY <1>1, EmptySeq DEF TypeOK, BufferType
<1>3. SubmitOwned' /\ LogOwned'
  BY <1>1 DEF Owned, SubmitOwned, LogOwned
<1>4. BufferOwned'
  BY <1>1, <1>2 DEF Owned, BufferOwned, WaitAlls
<1>5. WorkerOwned'
  <2>1. ~Waiting'
    BY <1>1 DEF Waiting, SyncLabels
  <2>2. StatePending(cur)'
    BY <1>1, <1>2 DEF StatePending, WaitAllCmd
  <2>3. QED
    BY <1>2, <2>1, <2>2 DEF WorkerOwned
<1>6. QED
  BY <1>3, <1>4, <1>5 DEF Owned

\* A generated batch-sync has no state.
LEMMA DequeueGenBatchSyncOwned ==
  ASSUME TypeOK, ControlOK, Owned, DequeueGenBatchSync, BufferStep,
         UNCHANGED <<queueVars, localVars>>
  PROVE  Owned'
<1>1. /\ pc'[Worker] = "Dequeued" /\ cur' = BatchSync
      /\ \A u \in Clients : pc'[u] = pc[u] /\ arg'[u] = arg[u]
      /\ UNCHANGED <<cmds, waState, waCount, hwState, nextIdx, cmdLog>>
  BY ThreadsAssumption DEF TypeOK, ThreadType, DequeueGenBatchSync, Goto, Threads,
     BufferStep, cmdVars, logVars, queueVars, localVars
<1>2. SubmitOwned' /\ LogOwned'
  BY <1>1 DEF Owned, SubmitOwned, LogOwned
<1>3. BufferOwned'
  BY <1>1 DEF Owned, BufferOwned, StatePending
<1>4. WorkerOwned'
  BY <1>1 DEF WorkerOwned, Holding, Waiting, Launching, SyncLabels, Stateful, BatchSync
<1>5. QED
  BY <1>2, <1>3, <1>4 DEF Owned

\* Synchronizing threads stay where they are or return: the worker to what it
\* holds already, a client to the end of its wait.
LEMMA SyncMoves ==
  ASSUME TypeOK, ControlOK, NEW t \in Threads, pc[t] \in SyncLabels,
         NEW l \in SyncLabels \cup {ret[t]}, Goto(t, l), UNCHANGED <<arg, ret, cur>>
  PROVE  /\ Holding' => Holding
         /\ Waiting' => Waiting
         /\ \A u \in Clients : pc'[u] = "Submit" => pc[u] = "Submit" /\ arg'[u] = arg[u]
<1>1. pc'[t] = l /\ \A u \in Threads : u # t => pc'[u] = pc[u]
  BY DEF TypeOK, ThreadType, Goto
<1>2. CASE t = Worker
  <2>1. pc'[Worker] \in SyncLabels \cup WorkerRets /\ l = pc'[Worker]
    BY <1>1, <1>2 DEF ControlOK
  <2>2. Holding' => Holding
    BY <1>1, <1>2, <2>1 DEF Holding, Launching, SyncLabels, WorkerRets
  <2>3. Waiting' => Waiting
    BY <1>1, <1>2, <2>1 DEF Waiting, SyncLabels, WorkerRets
  <2>4. QED
    BY <1>1, <1>2, <2>2, <2>3, ThreadsAssumption DEF Threads
<1>3. CASE t \in Clients
  <2>1. pc'[t] # "Submit"
    BY <1>1, <1>3 DEF ControlOK, ClientControl, SyncLabels
  <2>2. pc'[Worker] = pc[Worker]
    BY <1>1, <1>3, ThreadsAssumption DEF Threads
  <2>3. QED
    BY <1>1, <2>1, <2>2 DEF Holding, Waiting, Launching, Threads
<1>4. QED
  BY <1>2, <1>3 DEF Threads

\* A synchronization completes commands of the log, which were launched.
LEMMA SyncOwned ==
  ASSUME TypeOK, ControlOK, Owned, NEW t \in Threads, Sync(t)
  PROVE  Owned'
<1>1. PICK l \in SyncLabels \cup {ret[t]} : Goto(t, l)
  BY DEF Sync, SyncCheck, SyncHw, SyncRelock, SyncLabels
<1>2. /\ pc[t] \in SyncLabels /\ UNCHANGED <<arg, ret, cur>>
      /\ UNCHANGED <<waState, waCount, cmds, nextIdx>>
  BY DEF Sync, SyncCheck, SyncHw, SyncRelock, SyncLabels, ThreadStep, localVars, bufVars,
     queueVars
<1>3. /\ Holding' => Holding
      /\ Waiting' => Waiting
      /\ \A u \in Clients : pc'[u] = "Submit" => pc[u] = "Submit" /\ arg'[u] = arg[u]
  BY <1>1, <1>2, SyncMoves
<1>4. CASE UNCHANGED <<hwState, cmdLog>>
  BY <1>2, <1>3, <1>4, OwnedFrame DEF ownVars
<1>5. CASE /\ Complete(Popped(cmdLog, arg[t]))
           /\ cmdLog' = PopThrough(cmdLog, arg[t])
  <2>1. PICK S, k : S = Popped(cmdLog, arg[t]) /\ k = PopCount(cmdLog, arg[t])
    OBVIOUS
  <2>2. /\ k \in 0..Len(cmdLog) /\ Len(cmdLog) \in Nat
        /\ S = {cmdLog[j] : j \in 1..k} /\ cmdLog' = SubSeq(cmdLog, k + 1, Len(cmdLog))
    BY <1>5, <2>1, PopCountType, LenProperties
    DEF TypeOK, LogType, Popped, PopThrough
  <2>3. \A c \in S : c \in Idx /\ hwState[c] >= InFlight
    BY <2>2, LogElements DEF Owned, LogOwned, TypeOK
  <2>4. \A c \in Idx : /\ c \notin S => hwState'[c] = hwState[c]
                       /\ hwState[c] >= InFlight => hwState'[c] >= InFlight
    BY <1>5, <2>1, CompleteFrame
  <2>5. \A c \in Idx : hwState[c] \in {Created, Pending} => hwState'[c] = hwState[c]
    BY <2>3, <2>4, StateOrder DEF TypeOK, CommandType
  <2>6. SubmitOwned'
    BY <1>2, <1>3, <2>5 DEF Owned, SubmitOwned, ControlOK, ClientControl
  <2>7. ASSUME NEW x \in XCommand, StatePending(x) PROVE StatePending(x)'
    BY <1>2, <2>5, <2>7, CommandFields DEF StatePending
  <2>8. BufferOwned'
    BY <1>2, <2>7, BufferElements DEF Owned, BufferOwned
  <2>9. WorkerOwned'
    BY <1>2, <1>3, <2>7 DEF Owned, WorkerOwned, TypeOK, ThreadType
  <2>10. LogOwned'
    <3>1. \A j \in 1..Len(cmdLog') : \E i \in 1..Len(cmdLog) : cmdLog'[j] = cmdLog[i]
      BY <2>2, SubSeqProperties, LogElements DEF TypeOK
    <3>2. QED
      BY <2>4, <3>1, LogElements DEF Owned, LogOwned, TypeOK
  <2>11. QED
    BY <2>6, <2>8, <2>9, <2>10 DEF Owned
<1>6. QED
  BY <1>4, <1>5 DEF Sync, SyncCheck, SyncHw, SyncRelock, ThreadStep, cmdVars, logVars

\* The worker launches, or drops, the pending command it holds.
LEMMA LaunchOwned ==
  ASSUME TypeOK, ControlOK, Owned, LaunchDrop \/ LaunchCommand
  PROVE  Owned'
<1>1. PICK c : c = cur.id
  OBVIOUS
<1>2. /\ c \in Idx /\ hwState[c] = Pending /\ cur.type = "Hardware"
      /\ \A j \in 1..Len(cmds) : ~Same(cmds[j], cur)
  BY <1>1, LaunchingIdx DEF LaunchDrop, LaunchCommand, ControlOK, Launching, Owned,
     WorkerOwned, Holding, StatePending
<1>3. /\ hwState'[c] >= InFlight
      /\ \A d \in Idx : d # c => hwState'[d] = hwState[d]
  <2>1. CASE LaunchDrop
    BY <1>1, <1>2, <2>1, StateOrder, CommandStates DEF LaunchDrop, Complete
  <2>2. CASE LaunchCommand
    BY <1>1, <1>2, <2>2, StateOrder, CommandStates DEF LaunchCommand, TypeOK, CommandType
  <2>3. QED
    BY <2>1, <2>2
<1>4. /\ pc'[Worker] = "Dequeue" /\ \A u \in Clients : pc'[u] = pc[u] /\ arg'[u] = arg[u]
      /\ UNCHANGED <<cmds, waState, waCount, nextIdx, cur>>
  BY ThreadsAssumption DEF TypeOK, ThreadType, LaunchDrop, LaunchCommand, Goto, Forget,
     Threads, bufVars, queueVars
<1>5. SubmitOwned'
  BY <1>2, <1>3, <1>4, CommandStates, StateOrder
  DEF Owned, SubmitOwned, ControlOK, ClientControl
<1>6. BufferOwned'
  <2>1. \A j \in 1..Len(cmds) : cmds[j].type = "Hardware" => cmds[j].id # c
    BY <1>1, <1>2 DEF Same
  <2>2. \A j \in 1..Len(cmds) : StatePending(cmds[j])'
    BY <1>3, <1>4, <2>1, BufferElements DEF Owned, BufferOwned, StatePending
  <2>3. QED
    BY <1>4, <2>2 DEF Owned, BufferOwned
<1>7. WorkerOwned'
  BY <1>4 DEF WorkerOwned, Holding, Waiting, Launching, SyncLabels
<1>8. LogOwned'
  <2>1. \A d \in Idx : hwState[d] >= InFlight => hwState'[d] >= InFlight
    BY <1>3
  <2>2. CASE LaunchDrop
    BY <2>1, <2>2, LogElements DEF Owned, LogOwned, TypeOK, LaunchDrop, logVars
  <2>3. CASE LaunchCommand
    <3>1. /\ Len(cmdLog) \in Nat /\ Len(cmdLog') = Len(cmdLog) + 1
          /\ cmdLog'[Len(cmdLog) + 1] = c
          /\ \A j \in 1..Len(cmdLog) : cmdLog'[j] = cmdLog[j] /\ cmdLog[j] \in Idx
      BY <1>1, <1>2, <2>3, AppendProperties, LogElements DEF TypeOK, LogType, LaunchCommand
    <3>2. QED
      BY <1>3, <2>1, <3>1 DEF Owned, LogOwned
  <2>4. QED
    BY <2>2, <2>3
<1>9. QED
  BY <1>5, <1>6, <1>7, <1>8 DEF Owned

\* The worker executes a wait-all, which is no longer in the buffer.
LEMMA WaitAllOwned ==
  ASSUME TypeOK, ControlOK, Owned, WaitAllEnter \/ WaitAllDone
  PROVE  Owned'
<1>1. PICK n : n = cur.id
  OBVIOUS
<1>2. /\ n \in Nat /\ n < waCount /\ waCount \in Nat
      /\ \A j \in 1..Len(cmds) : cmds[j].type = "WaitAll" /\ cmds[j].id \in WaitAlls
                                   => cmds[j].id # n
  <2>1. n \in Nat /\ waCount \in Nat
    BY <1>1, CommandFields DEF TypeOK, ThreadType, BufferType
  <2>2. CASE WaitAllEnter
    BY <1>1, <2>1, <2>2 DEF WaitAllEnter, Holding, Stateful, Owned, WorkerOwned, StatePending,
       Same
  <2>3. CASE WaitAllDone
    <3>1. n < waCount /\ (n \in WaitAlls => waState[n] >= InFlight)
      BY <1>1, <2>3 DEF WaitAllDone, Waiting, Owned, WorkerOwned
    <3>2. \A j \in 1..Len(cmds) : cmds[j].type = "WaitAll" /\ cmds[j].id \in WaitAlls
                                   => waState[cmds[j].id] = Pending
      BY DEF Owned, BufferOwned, StatePending
    <3>3. QED
      BY <2>1, <3>1, <3>2, CommandStates, StateOrder
  <2>4. QED
    BY <2>2, <2>3
<1>3. /\ n \in WaitAlls => waState'[n] >= InFlight
      /\ \A k \in WaitAlls : k # n => waState'[k] = waState[k]
  BY <1>1, StateOrder, CommandStates DEF TypeOK, BufferType, WaitAllEnter, WaitAllDone
<1>4. /\ \A u \in Clients : pc'[u] = pc[u] /\ arg'[u] = arg[u]
      /\ UNCHANGED <<cmds, hwState, waCount, nextIdx, cmdLog, cur>>
  BY ThreadsAssumption DEF TypeOK, ThreadType, WaitAllEnter, WaitAllDone, CallSync, Goto,
     Threads, cmdVars, queueVars, logVars, localVars
<1>5. SubmitOwned' /\ LogOwned'
  BY <1>4 DEF Owned, SubmitOwned, LogOwned
<1>6. BufferOwned'
  <2>1. \A k \in WaitAlls : k >= waCount' => waState'[k] = Created
    BY <1>2, <1>3, <1>4 DEF Owned, BufferOwned, WaitAlls
  <2>2. \A j \in 1..Len(cmds) : StatePending(cmds[j])'
    BY <1>2, <1>3, <1>4 DEF Owned, BufferOwned, StatePending
  <2>3. QED
    BY <1>4, <2>1, <2>2 DEF Owned, BufferOwned
<1>7. WorkerOwned'
  <2>1. ~Holding'
    BY DEF TypeOK, ThreadType, Threads, WaitAllEnter, WaitAllDone, CallSync, Goto, Holding,
       Launching, SyncLabels
  <2>2. Waiting' => cur.type = "WaitAll"
    BY DEF TypeOK, ThreadType, Threads, WaitAllEnter, WaitAllDone, Goto, Waiting, SyncLabels
  <2>3. QED
    BY <1>1, <1>2, <1>3, <1>4, <2>1, <2>2 DEF WorkerOwned
<1>8. QED
  BY <1>5, <1>6, <1>7 DEF Owned

\* A dropping resume completes what is in the buffer, which nobody else holds ...
LEMMA DropAllOwned ==
  ASSUME TypeOK, ControlOK, Owned, NEW t \in Clients, DropAll(t)
  PROVE  Owned'
<1>1. PICK H, W : H = OfType(cmds, "Hardware") /\ W = OfType(cmds, "WaitAll")
  OBVIOUS
<1>2. /\ pc'[t] # "Submit"
      /\ \A u \in Threads \ {t} : pc'[u] = pc[u] /\ arg'[u] = arg[u] /\ ret'[u] = ret[u]
      /\ UNCHANGED <<waCount, nextIdx, cmdLog, cur>> /\ Len(cmds') = 0
  BY EmptySeq DEF TypeOK, ThreadType, DropAll, ClearBuffer, Goto, Threads, logVars,
     queueVars, localVars
<1>3. /\ \A c \in H : c \in Idx /\ hwState[c] = Pending
      /\ \A n \in W : n < waCount
  <2>1. \A j \in 1..Len(cmds) : StatePending(cmds[j]) /\ cmds[j] \in XCommand
    BY BufferElements DEF Owned, BufferOwned
  <2>2. QED
    BY <1>1, <2>1, CommandFields DEF OfType, StatePending
<1>4. \A c \in Idx : /\ c \notin H => hwState'[c] = hwState[c]
                     /\ hwState[c] >= InFlight => hwState'[c] >= InFlight
  BY <1>1, CompleteFrame DEF DropAll
<1>5. \A n \in WaitAlls : waState'[n] = IF n \in W THEN Completed ELSE waState[n]
  BY <1>1 DEF DropAll
<1>6. SubmitOwned'
  <2>1. \A c \in Idx : hwState[c] = Created => hwState'[c] = Created
    BY <1>3, <1>4, StateOrder, CommandStates
  <2>2. \A u \in Clients : pc'[u] = "Submit" => pc[u] = "Submit" /\ arg'[u] = arg[u]
    BY <1>2 DEF Threads
  <2>3. QED
    BY <1>2, <2>1, <2>2 DEF Owned, SubmitOwned, ControlOK, ClientControl
<1>7. BufferOwned'
  <2>1. \A n \in WaitAlls : n >= waCount' => waState'[n] = Created
    BY <1>2, <1>3, <1>5 DEF Owned, BufferOwned, WaitAlls, TypeOK, BufferType
  <2>2. QED
    BY <1>2, <2>1 DEF BufferOwned
<1>8. WorkerOwned'
  <2>1. pc'[Worker] = pc[Worker] /\ ret'[Worker] = ret[Worker]
    BY <1>2, ThreadsAssumption DEF Threads
  <2>2. (Holding' <=> Holding) /\ (Waiting' <=> Waiting)
    BY <1>2, <2>1 DEF Holding, Waiting, Launching
  <2>3. Holding => StatePending(cur)'
    <3>1. Holding => /\ cur.type = "Hardware" => cur.id \notin H
                     /\ cur.type = "WaitAll" => cur.id \notin W
      BY <1>1 DEF Owned, WorkerOwned, OfType, Same
    <3>2. cur.type = "Hardware" => cur.id \in Idx
      BY CommandFields DEF TypeOK, ThreadType
    <3>3. QED
      BY <1>2, <1>4, <1>5, <3>1, <3>2 DEF Owned, WorkerOwned, StatePending
  <2>4. Waiting => (cur.id \in WaitAlls => waState'[cur.id] >= InFlight)
    BY <1>5, StateOrder, CommandStates DEF Owned, WorkerOwned
  <2>5. QED
    BY <1>2, <2>2, <2>3, <2>4 DEF Owned, WorkerOwned
<1>9. LogOwned'
  BY <1>2, <1>4, LogElements DEF Owned, LogOwned, TypeOK
<1>10. QED
  BY <1>6, <1>7, <1>8, <1>9 DEF Owned

\* ... and what is in the log, which was launched.
LEMMA ResumeAndDropOwned ==
  ASSUME TypeOK, ControlOK, Owned, NEW t \in Clients, ResumeAndDrop(t)
  PROVE  Owned'
<1>1. PICK S : S = InLog(cmdLog)
  OBVIOUS
<1>2. /\ pc'[t] # "Submit"
      /\ \A u \in Threads \ {t} : pc'[u] = pc[u] /\ arg'[u] = arg[u] /\ ret'[u] = ret[u]
      /\ UNCHANGED <<waState, waCount, cmds, nextIdx, cur>> /\ Len(cmdLog') = 0
  BY EmptySeq DEF TypeOK, ThreadType, ControlOK, ClientControl, ResumeLabels, ResumeAndDrop,
     Goto, Forget, Threads, bufVars, queueVars
<1>3. \A c \in S : c \in Idx /\ hwState[c] >= InFlight
  BY <1>1, LogElements DEF InLog, Owned, LogOwned, TypeOK
<1>4. \A c \in Idx : hwState[c] \in {Created, Pending} => hwState'[c] = hwState[c]
  <2>1. \A c \in Idx : c \notin S => hwState'[c] = hwState[c]
    BY <1>1, CompleteFrame DEF ResumeAndDrop
  <2>2. QED
    BY <1>3, <2>1, StateOrder DEF TypeOK, CommandType
<1>5. SubmitOwned'
  <2>1. \A u \in Clients : pc'[u] = "Submit" => pc[u] = "Submit" /\ arg'[u] = arg[u]
    BY <1>2 DEF Threads
  <2>2. QED
    BY <1>2, <1>4, <2>1 DEF Owned, SubmitOwned, ControlOK, ClientControl
<1>6. ASSUME NEW x \in XCommand, StatePending(x) PROVE StatePending(x)'
  BY <1>2, <1>4, <1>6, CommandFields DEF StatePending
<1>7. BufferOwned'
  BY <1>2, <1>6, BufferElements DEF Owned, BufferOwned
<1>8. WorkerOwned'
  <2>1. pc'[Worker] = pc[Worker] /\ ret'[Worker] = ret[Worker]
    BY <1>2, ThreadsAssumption DEF Threads
  <2>2. (Holding' <=> Holding) /\ (Waiting' <=> Waiting)
    BY <1>2, <2>1 DEF Holding, Waiting, Launching
  <2>3. QED
    BY <1>2, <1>6, <2>2 DEF Owned, WorkerOwned, TypeOK, ThreadType
<1>9. LogOwned'
  BY <1>2 DEF LogOwned
<1>10. QED
  BY <1>5, <1>7, <1>8, <1>9 DEF Owned

-----------------------------------------------------------------------------
(* Ownership is an invariant, and so states never go back *)

\* In the constructed queue nothing was submitted.
LEMMA InitOwned == Init => Owned
<1> SUFFICES ASSUME Init PROVE Owned
  OBVIOUS
<1>1. Len(cmds) = 0 /\ Len(cmdLog) = 0
  BY EmptySeq DEF Init
<1>2. pc[Worker] = "Dequeue" /\ \A t \in Clients : pc[t] = "Idle"
  BY ThreadsAssumption DEF Init, Threads
<1>3. SubmitOwned
  BY <1>2 DEF Init, SubmitOwned
<1>4. BufferOwned
  <2>1. \A n \in WaitAlls : n >= waCount => waState[n] = Created
    BY DEF Init
  <2>2. QED
    BY <1>1, <2>1 DEF BufferOwned
<1>5. WorkerOwned
  BY <1>2 DEF WorkerOwned, Holding, Waiting, Launching, SyncLabels
<1>6. LogOwned
  BY <1>1 DEF LogOwned
<1>7. QED
  BY <1>3, <1>4, <1>5, <1>6 DEF Owned

\* Every step keeps it clear who may change the state of a command.
LEMMA NextOwned ==
  TypeOK /\ ControlOK /\ Owned /\ [Next]_vars => Owned'
<1> SUFFICES ASSUME TypeOK, ControlOK, Owned, [Next]_vars PROVE Owned'
  OBVIOUS
<1>1. CASE UNCHANGED vars
  <2>1. UNCHANGED <<ownVars, pc, arg, ret>>
    BY <1>1 DEF vars, ownVars, bufVars, cmdVars, logVars, queueVars, localVars
  <2>2. QED
    BY <2>1, OwnedFrame DEF Holding, Waiting, Launching, ownVars
<1>2. CASE HwRetire
  BY <1>2, WorkerMoves
<1>3. CASE WorkerLoop
  <2>1. CASE Dequeue
    BY <2>1, WorkerMoves, DequeueFrontOwned, DequeueGenWaitAllOwned,
       DequeueGenBatchSyncOwned DEF Dequeue
  <2>2. CASE LaunchHwCommand
    BY <2>2, WorkerMoves, LaunchOwned DEF LaunchHwCommand
  <2>3. CASE Sync(Worker)
    BY <2>3, SyncOwned DEF Threads
  <2>4. QED
    BY <1>3, <2>1, <2>2, <2>3, WorkerMoves, WaitAllOwned DEF WorkerLoop
<1>4. ASSUME NEW t \in Clients, Call(t) PROVE Owned'
  BY <1>4, SubmitIdxOwned, BeginWaitAllOwned, ClientMoves
  DEF Call, WaitAllCall, ConfigureCall
<1>5. ASSUME NEW t \in Clients, Continue(t) PROVE Owned'
  <2>1. CASE Suspend(t)
    BY <2>1, ClientMoves DEF Suspend
  <2>2. CASE Resume(t)
    BY <2>2, ClientMoves, DropAllOwned, ResumeAndDropOwned DEF Resume
  <2>3. CASE Sync(t)
    BY <2>3, SyncOwned DEF Threads
  <2>4. CASE DelWaitAll(t)
    BY <2>4, BeginWaitAllOwned DEF DelWaitAll
  <2>5. QED
    BY <1>5, <2>1, <2>2, <2>3, <2>4, ClientMoves, SubmitEnqueueOwned, DtorEnqueueOwned
    DEF Continue
<1>6. QED
  BY <1>1, <1>2, <1>3, <1>4, <1>5 DEF Next

\* The states of commands never go back in a step.
Forward ==
  /\ \A c \in Idx : hwState'[c] >= hwState[c]
  /\ \A n \in WaitAlls : waState'[n] >= waState[n]

\* A step that leaves the states alone, or only completes hardware commands, is
\* such a step.
LEMMA ForwardFrame ==
  ASSUME TypeOK, UNCHANGED waState, UNCHANGED hwState \/ \E S : Complete(S)
  PROVE  Forward
<1>1. \A n \in WaitAlls : waState'[n] >= waState[n]
  BY StateOrder DEF TypeOK, BufferType
<1>2. CASE UNCHANGED hwState
  BY <1>1, <1>2, StateOrder DEF Forward, TypeOK, CommandType
<1>3. CASE \E S : Complete(S)
  BY <1>1, <1>3, CompleteFrame DEF Forward
<1>4. QED
  BY <1>2, <1>3

\* A new wait-all is in its first state before.
LEMMA NewWaitAllForward ==
  ASSUME TypeOK, Owned, UNCHANGED hwState,
         waState' = [waState EXCEPT ![waCount] = Pending]
  PROVE  Forward
<1>1. waCount \in WaitAlls => waState[waCount] = Created
  BY DEF Owned, BufferOwned, TypeOK, BufferType
<1>2. \A n \in WaitAlls : waState'[n] >= waState[n]
  BY <1>1, StateOrder, CommandStates DEF TypeOK, BufferType
<1>3. QED
  BY <1>2, StateOrder DEF Forward, TypeOK, CommandType

\* Every step goes forward, because a command that a thread moves to a state is
\* known to be in the state before.
LEMMA NextForward ==
  TypeOK /\ ControlOK /\ Owned /\ [Next]_vars => Forward
<1> SUFFICES ASSUME TypeOK, ControlOK, Owned, [Next]_vars PROVE Forward
  OBVIOUS
<1>1. CASE UNCHANGED vars
  BY <1>1, ForwardFrame DEF vars, bufVars, cmdVars
<1>2. CASE HwRetire
  BY <1>2, ForwardFrame DEF HwRetire, bufVars, cmdVars
<1>3. ASSUME NEW t \in Threads, Sync(t) PROVE Forward
  BY <1>3, ForwardFrame DEF Sync, SyncCheck, SyncHw, SyncRelock, ThreadStep, bufVars, cmdVars
<1>4. CASE WorkerLoop
  <2>1. CASE Dequeue
    BY <2>1, ForwardFrame, NewWaitAllForward
    DEF Dequeue, DequeueFront, DequeueIdle, DequeueGenWaitAll, DequeueGenBatchSync,
        BufferStep, cmdVars
  <2>2. CASE LaunchCommand
    <3>1. hwState[cur.id] = Pending /\ cur.id \in Idx
      BY <2>2, LaunchingIdx DEF LaunchCommand, ControlOK, Launching, Owned, WorkerOwned,
         Holding, StatePending
    <3>2. UNCHANGED waState /\ hwState' = [hwState EXCEPT ![cur.id] = InFlight]
      BY <2>2 DEF LaunchCommand, bufVars
    <3>3. QED
      BY <3>1, <3>2, StateOrder, CommandStates
      DEF Forward, TypeOK, CommandType, BufferType
  <2>3. CASE LaunchHwCommand /\ ~LaunchCommand
    BY <2>3, ForwardFrame DEF LaunchHwCommand, LaunchEnter, LaunchThreshold, LaunchResumed,
       LaunchDrop, ThreadStep, bufVars, cmdVars
  <2>4. CASE WaitAllEnter
    <3>1. cur.id \in WaitAlls => waState[cur.id] = Pending
      BY <2>4 DEF WaitAllEnter, Holding, Stateful, Owned, WorkerOwned, StatePending
    <3>2. UNCHANGED hwState /\ waState' = [waState EXCEPT ![cur.id] = InFlight]
      BY <2>4 DEF WaitAllEnter, cmdVars
    <3>3. QED
      BY <3>1, <3>2, StateOrder, CommandStates
      DEF Forward, TypeOK, CommandType, BufferType
  <2>5. CASE WaitAllDone
    <3>1. UNCHANGED hwState /\ waState' = [waState EXCEPT ![cur.id] = Completed]
      BY <2>5 DEF WaitAllDone, cmdVars
    <3>2. QED
      BY <3>1, StateOrder, CommandStates DEF Forward, TypeOK, CommandType, BufferType
  <2>6. CASE BatchSyncEnter \/ BatchSyncDone \/ DestroyEnter \/ DestroyDone
    BY <2>6, ForwardFrame DEF BatchSyncEnter, BatchSyncDone, DestroyEnter, DestroyDone,
       ThreadStep, bufVars, cmdVars
  <2>7. CASE Sync(Worker)
    BY <2>7, <1>3 DEF Threads
  <2>8. QED
    BY <1>4, <2>1, <2>2, <2>3, <2>4, <2>5, <2>6, <2>7 DEF WorkerLoop
<1>5. ASSUME NEW t \in Clients, NEW label, BeginWaitAll(t, label) PROVE Forward
  BY <1>5, ForwardFrame, NewWaitAllForward
  DEF BeginWaitAll, EnqueueWaitAll, BufferStep, bufVars, cmdVars
<1>6. ASSUME NEW t \in Clients, Call(t) PROVE Forward
  BY <1>6, <1>5, ForwardFrame
  DEF Call, SubmitIdx, WaitAllCall, WaitCall, SuspendCall, ResumeCall, ConfigureCall,
      DelCall, BeginResume, ThreadStep, BufferStep, bufVars, cmdVars
<1>7. ASSUME NEW t \in Clients, Continue(t) PROVE Forward
  <2>1. CASE SubmitEnqueue(t)
    <3>1. arg[t] \in Idx /\ hwState[arg[t]] = Created
      BY <2>1 DEF SubmitEnqueue, ControlOK, ClientControl, Owned, SubmitOwned
    <3>2. UNCHANGED waState /\ hwState' = [hwState EXCEPT ![arg[t]] = Pending]
      BY <2>1 DEF SubmitEnqueue, Enqueue
    <3>3. QED
      BY <3>1, <3>2, StateOrder, CommandStates
      DEF Forward, TypeOK, CommandType, BufferType
  <2>2. CASE Suspend(t)
    BY <2>2, ForwardFrame DEF Suspend, SuspendMark, Pause, Deactivate, SuspendSync,
       ThreadStep, bufVars, cmdVars
  <2>3. CASE DropAll(t)
    <3>1. \A n \in WaitAlls : waState'[n] \in {Completed, waState[n]}
      BY <2>3 DEF DropAll
    <3>2. \A n \in WaitAlls : waState'[n] >= waState[n]
      BY <3>1, StateOrder DEF TypeOK, BufferType
    <3>3. QED
      BY <2>3, <3>2, CompleteFrame DEF DropAll, Forward
  <2>4. CASE Resume(t) /\ ~DropAll(t)
    BY <2>4, ForwardFrame DEF Resume, ResumeMark, Reactivate, RelaunchNext, RelaunchEnd,
       ResumeWorker, DropIdx, ResumeAndDrop, ThreadStep, bufVars, cmdVars
  <2>5. CASE Sync(t)
    BY <2>5, <1>3 DEF Threads
  <2>6. CASE DelWaitAll(t)
    BY <2>6, <1>5 DEF DelWaitAll
  <2>7. CASE \/ SubmitReturn(t) \/ WaitAllReturn(t) \/ WaitInFlight(t) \/ WaitReturn(t)
             \/ Configure(t) \/ Dtor(t) \/ DtorEnqueue(t) \/ DtorReturn(t)
    BY <2>7, ForwardFrame DEF SubmitReturn, WaitAllReturn, WaitInFlight, WaitReturn,
       Configure, Dtor, DtorEnqueue, DtorReturn, Enqueue, BeginResume, ThreadStep,
       BufferStep, bufVars, cmdVars
  <2>8. QED
    BY <1>7, <2>1, <2>2, <2>3, <2>4, <2>5, <2>6, <2>7 DEF Continue
<1>8. QED
  BY <1>1, <1>2, <1>4, <1>6, <1>7 DEF Next

\* The state of a command never goes back, for any number of submitting, waiting,
\* suspending, configuring and destroying threads: the assertion in
\* XCommand::SetState never fails.
THEOREM StatesNeverGoBack == Spec => NeverGoesBack
<1>1. Spec => [](TypeOK /\ ControlOK /\ Owned)
  BY InitTyped, NextTyped, InitOwned, NextOwned, PTL DEF Spec
<1>2. TypeOK /\ ControlOK /\ Owned /\ [Next]_vars => [Forward]_vars
  BY NextForward
<1>3. Spec => [][Forward]_vars
  BY <1>1, <1>2, PTL DEF Spec
<1>4. QED
  BY <1>3 DEF NeverGoesBack, Forward

-----------------------------------------------------------------------------
(* The mutex of the launch worker and the logs *)

\* Where a thread holds mtx_, and that it does.
Holders == {"Sync", "WaitDone", "Threshold", "Launch", "WaitAllDone", "BatchSyncDone",
            "DestroyDone"}
LockHeld == \A t \in Threads : pc[t] \in Holders => lock = t

\* The log holds the commands in flight, each once; the log of synchronizable
\* commands is a part of it in the same order.
Found(k) == \E i \in 1..Len(cmdLog) : cmdLog[i] = syncLog[k]
LogInFlight == \A i \in 1..Len(cmdLog) : hwState[cmdLog[i]] = InFlight
LogDistinct == \A i, j \in 1..Len(cmdLog) : cmdLog[i] = cmdLog[j] => i = j
SyncLogged == \A k \in 1..Len(syncLog) : Found(k)
SyncOrdered ==
  \A i \in 1..Len(cmdLog), k \in 1..Len(syncLog) :
    cmdLog[i] = syncLog[k] =>
      \A m \in 1..(k - 1) : \E h \in 1..(i - 1) : cmdLog[h] = syncLog[m]
LogOK == LogInFlight /\ LogDistinct /\ SyncLogged /\ SyncOrdered

\* The worker that waits because the log is full waits for a command whose
\* completion frees a slot; it gets to the launch with a slot free.
Logged(c) == \E j \in 1..Len(cmdLog) : cmdLog[j] = c
FreesSlot ==
  /\ pc[Worker] \in SyncLabels /\ ret[Worker] = "Launch" /\ Len(cmdLog) = threshold
       => arg[Worker] = All \/ (Logged(arg[Worker]) /\ arg[Worker] >= cmdLog[1])
  /\ pc[Worker] \in {"Launch", "LaunchPaused"} => Len(cmdLog) < threshold
EndedIsExited == wstate = "Terminated" => pc[Worker] = "Exited"

\* Hypothesis: nobody changes the launch configuration.
FixedLaunchConfig == LaunchConfigs = {}
SlotsOK == FixedLaunchConfig /\ EndedIsExited /\ InFlightBound /\ FreesSlot

-----------------------------------------------------------------------------
(* Teardown *)

\* A client is in the destructor, or deletes the queue.
InDtor(t) ==
  \/ pc[t] \in {"DtorEnqueue", "DtorWait", "Destroyed"}
  \/ pc[t] \in ResumeLabels /\ ret[t] = "DtorEnqueue"
Deleting(t) ==
  \/ pc[t] \in {"DelWaitAll", "Release"}
  \/ pc[t] \in ResumeLabels /\ ret[t] = "DelWaitAll"
  \/ pc[t] = "WaitAll" /\ ret[t] = "Release"
DelAlone == \A t \in Clients : Deleting(t) => ~registered

\* The destructor runs when nobody else has a reference to the queue.
Drained(t) ==
  /\ terminated /\ ~registered
  /\ \A u \in Clients \ {t} : pc[u] = "Idle"
  /\ \A c \in Idx : hwState[c] \in {Created, Completed}
DtorAlone == \A t \in Clients : InDtor(t) => Drained(t)

\* The worker ends only for a destructor that waits for it.
DestroyUnderWay == \E t \in Clients : pc[t] \in {"DtorWait", "Destroyed"}
WorkerDestroys ==
  \/ pc[Worker] \in {"DestroyDone", "Exited"}
  \/ pc[Worker] \in SyncLabels /\ ret[Worker] = "DestroyDone"
HasDestroy == \E j \in 1..Len(cmds) : cmds[j].type = "Destroy"
DestroyOnce == HasDestroy \/ cur.type = "Destroy" \/ WorkerDestroys => DestroyUnderWay
DestroyOK == DelAlone /\ DtorAlone /\ DestroyOnce

-----------------------------------------------------------------------------
(* Suspend and resume *)

\* Hypothesis: one thread suspends, resumes and destroys the queue.
Controllers == Suspenders \cup Destroyers
OneController == \A s, t \in Controllers : s = t

\* Where a client is in a suspend, a resume or the destruction of the queue.
Controlling(t) ==
  \/ pc[t] \in {"Suspend", "Pause", "Deactivate", "SuspendSync", "DelWaitAll", "Release",
                "DtorEnqueue", "DtorWait", "Destroyed"} \cup ResumeLabels
  \/ pc[t] = "WaitAll" /\ ret[t] = "Release"
RolesKept == \A t \in Clients : Controlling(t) => t \in Controllers

\* What suspended_ and the state of the worker are while a client controls it.
PhaseOK(t) ==
  /\ pc[t] = "Pause" => suspended /\ wstate = "Running"
  /\ pc[t] \in {"Deactivate", "SuspendSync"} => suspended /\ wstate = "Paused"
  /\ pc[t] \in ResumeLabels \ {"Resume"} => ~suspended /\ wstate = "Paused"
  /\ pc[t] \in {"DtorEnqueue", "DtorWait", "Destroyed"} => ~suspended
PhasesOK == \A t \in Clients : PhaseOK(t)
SwitchOK == OneController /\ RolesKept /\ PhasesOK /\ SuspendedMeansPaused

-----------------------------------------------------------------------------
(* Launching *)

\* Hypotheses: no thread resumes with the drop flag, none calls XQueueWait.
NeverDrops == "Drop" \notin ResumeFlags
NobodyWaits == Waiters = {}

\* Then only the destructor drops, and only the worker synchronizes.
DropsInDtor(t) ==
  /\ pc[t] \in ResumeLabels /\ flag[t] = "Drop" => ret[t] = "DtorEnqueue"
  /\ pc[t] \in {"DropAll", "DropIdx", "ResumeAndDrop"} => flag[t] = "Drop"
DropsOnlyInDtor == \A t \in Clients : DropsInDtor(t)
DropOK == NeverDrops /\ DropsOnlyInDtor
NoClientSyncs ==
  \A t \in Clients :
    pc[t] \notin SyncLabels \cup {"WaitInFlight", "WaitCompleted", "WaitDone"}

\* The worker launches while running, although it may get there from a
\* synchronization, which ends only if the queue was not paused meanwhile.
LaunchesRunning ==
  /\ pc[Worker] = "Launch" => wstate = "Running"
  /\ pc[Worker] \in {"SyncHw", "SyncRelock"} =>
       /\ snap[Worker] <= pauseCount
       /\ snap[Worker] = pauseCount => wstate = "Running"
  /\ pc[Worker] \in SyncLabels /\ ret[Worker] = "Launch" /\ arg[Worker] # All
       => Logged(arg[Worker])
LaunchOK == NobodyWaits /\ NoClientSyncs /\ LaunchesRunning

-----------------------------------------------------------------------------
(* What a step of one thread does to the others *)

\* A step of thread t moves no other thread, takes the mutex only if it is free
\* and leaves t with the mutex wherever t needs it.
Still(u) ==
  /\ pc'[u] = pc[u] /\ arg'[u] = arg[u] /\ snap'[u] = snap[u]
  /\ ret'[u] = ret[u] /\ flag'[u] = flag[u]
Moves(t) ==
  /\ \A u \in Threads \ {t} : Still(u)
  /\ lock' = lock \/ lock \in {NoThread, t}
  /\ pc'[t] \in Holders => lock' = t

\* A synchronization of any thread.
LEMMA SyncStep ==
  ASSUME TypeOK, ControlOK, NEW t \in Threads, Sync(t)
  PROVE  Moves(t)
<1>1. CASE SyncCheck(t)
  BY <1>1 DEF SyncCheck, Goto, Moves, Still, Holders, TypeOK, ThreadType
<1>2. CASE SyncHw(t)
  BY <1>2 DEF SyncHw, Goto, localVars, Moves, Still, Holders, TypeOK, ThreadType
<1>3. CASE SyncRelock(t)
  BY <1>3 DEF SyncRelock, Goto, Forget, Moves, Still, Holders, TypeOK, ThreadType
<1>4. QED
  BY <1>1, <1>2, <1>3 DEF Sync

\* A call.
LEMMA CallStep ==
  ASSUME TypeOK, ControlOK, NEW t \in Clients, Call(t)
  PROVE  Moves(t)
<1>1. CASE SubmitIdx(t) \/ WaitCall(t) \/ SuspendCall(t)
  BY <1>1 DEF SubmitIdx, WaitCall, SuspendCall, Goto, Moves, Still, Holders, TypeOK,
    ThreadType, Threads
<1>2. CASE ResumeCall(t) \/ DelCall(t)
  BY <1>2 DEF ResumeCall, DelCall, BeginResume, Goto, BufferStep, Moves, Still, Holders,
    TypeOK, ThreadType, Threads
<1>3. CASE WaitAllCall(t) \/ ConfigureCall(t)
  BY <1>3 DEF WaitAllCall, ConfigureCall, BeginWaitAll, Goto, BufferStep,
    EnqueueWaitAll, Moves, Still, Holders, TypeOK, ThreadType, Threads
<1>4. QED
  BY <1>1, <1>2, <1>3 DEF Call

\* A step of a call that has begun.
LEMMA ContinueStep ==
  ASSUME TypeOK, ControlOK, NEW t \in Clients, Continue(t)
  PROVE  Moves(t)
<1>1. CASE SubmitEnqueue(t) \/ SubmitReturn(t) \/ WaitInFlight(t) \/ WaitReturn(t)
  BY <1>1 DEF SubmitEnqueue, SubmitReturn, WaitInFlight, WaitReturn, Goto, Forget,
    CallSync, Moves, Still, Holders, TypeOK, ThreadType, Threads
<1>2. CASE WaitAllReturn(t)
  BY <1>2 DEF WaitAllReturn, Goto, Forget, BufferStep, Moves, Still, Holders, TypeOK,
    ThreadType, Threads, ControlOK, ClientControl, ResumeLabels, SyncLabels
<1>3. CASE SuspendMark(t) \/ Pause(t) \/ Deactivate(t) \/ SuspendSync(t)
  BY <1>3 DEF SuspendMark, Pause, Deactivate, SuspendSync, Goto, localVars, Moves,
    Still, Holders, TypeOK, ThreadType, Threads
<1>4. CASE ResumeMark(t) \/ ResumeWorker(t)
  BY <1>4 DEF ResumeMark, ResumeWorker, Goto, localVars, Moves, Still, Holders, TypeOK,
    ThreadType, Threads, ControlOK, ClientControl, ResumeLabels, SyncLabels
<1>5. CASE Reactivate(t) \/ RelaunchNext(t) \/ RelaunchEnd(t)
  BY <1>5 DEF Reactivate, RelaunchNext, RelaunchEnd, Goto, Forget, Moves, Still,
    Holders, TypeOK, ThreadType, Threads
<1>6. CASE DropAll(t) \/ DropIdx(t)
  BY <1>6 DEF DropAll, DropIdx, Goto, localVars, Moves, Still, Holders, TypeOK,
    ThreadType, Threads
<1>7. CASE ResumeAndDrop(t)
  BY <1>7 DEF ResumeAndDrop, Goto, Forget, Moves, Still, Holders, TypeOK, ThreadType,
    Threads, ControlOK, ClientControl, ResumeLabels, SyncLabels
<1>8. CASE Configure(t) \/ DelWaitAll(t) \/ Dtor(t) \/ DtorEnqueue(t) \/ DtorReturn(t)
  BY <1>8 DEF Configure, DelWaitAll, Dtor, DtorEnqueue, DtorReturn, Goto, BeginWaitAll,
    BufferStep, EnqueueWaitAll, BeginResume, localVars, Moves, Still, Holders, TypeOK,
    ThreadType, Threads
<1>9. QED
  BY <1>1, <1>2, <1>3, <1>4, <1>5, <1>6, <1>7, <1>8, SyncStep
  DEF Continue, Suspend, Resume, Threads

\* A step of the worker thread.
LEMMA WorkerStep ==
  ASSUME TypeOK, ControlOK, WorkerLoop
  PROVE  Moves(Worker)
<1>1. CASE Dequeue
  BY <1>1 DEF Dequeue, BufferStep, localVars, DequeueFront, DequeueIdle,
    DequeueGenWaitAll, DequeueGenBatchSync, Goto, Moves, Still, Holders, TypeOK,
    ThreadType, Threads
<1>2. CASE LaunchEnter \/ LaunchThreshold \/ LaunchResumed
  BY <1>2 DEF LaunchEnter, LaunchThreshold, LaunchResumed, Goto, CallSync, localVars,
    Moves, Still, Holders, TypeOK, ThreadType, Threads
<1>3. CASE LaunchDrop \/ LaunchCommand
  BY <1>3 DEF LaunchDrop, LaunchCommand, Goto, Forget, Moves, Still, Holders, TypeOK,
    ThreadType, Threads
<1>4. CASE WaitAllEnter \/ WaitAllDone \/ BatchSyncEnter
  BY <1>4 DEF WaitAllEnter, WaitAllDone, BatchSyncEnter, CallSync, Goto, localVars,
    Moves, Still, Holders, TypeOK, ThreadType, Threads
<1>5. CASE BatchSyncDone \/ DestroyEnter \/ DestroyDone
  BY <1>5 DEF BatchSyncDone, DestroyEnter, DestroyDone, Goto, Forget, CallSync,
    localVars, Moves, Still, Holders, TypeOK, ThreadType, Threads
<1>6. QED
  BY <1>1, <1>2, <1>3, <1>4, <1>5, SyncStep DEF WorkerLoop, LaunchHwCommand, Threads

\* The mutex is held wherever a thread needs it.
LEMMA LockFrame ==
  ASSUME TypeOK, LockHeld, NEW t \in Threads, Moves(t)
  PROVE  LockHeld'
BY ThreadsAssumption DEF LockHeld, Moves, Still

-----------------------------------------------------------------------------
(* The logs *)

\* What is popped from a log is the longest prefix of finished commands ...
LEMMA PopCountIsPrefix ==
  ASSUME NEW log \in Seq(Idx), NEW target
  PROVE  /\ PopCount(log, target) \in 0..Len(log)
         /\ \A i \in 1..PopCount(log, target) : FinishedWith(log[i], target)
         /\ PopCount(log, target) < Len(log)
              => ~FinishedWith(log[PopCount(log, target) + 1], target)
<1> DEFINE S == {k \in 0..Len(log) : k < Len(log) => ~FinishedWith(log[k + 1], target)}
           p == PopCount(log, target)
<1>1. Len(log) \in Nat
  BY LenProperties
<1>2. S \in SUBSET Nat /\ Len(log) \in S
  BY <1>1
<1>3. FirstOf(S) \in S /\ \A k \in S : FirstOf(S) <= k
  <2> HIDE DEF S
  <2> QED BY <1>2, FirstOfIsLeast
<1>4. p = FirstOf(S)
  BY DEF PopCount
<1>5. p \in S /\ \A k \in S : p <= k
  BY <1>3, <1>4
<1> HIDE DEF p
<1>6. ASSUME NEW i \in 1..p PROVE FinishedWith(log[i], target)
  <2>1. p \in 0..Len(log) /\ i - 1 \in 0..Len(log) /\ i - 1 < p
    BY <1>1, <1>5
  <2>2. i - 1 \notin S
    <3>1. \A k \in S : p <= k
      BY <1>5
    <3>2. ~(p <= i - 1)
      BY <1>1, <2>1
    <3> HIDE DEF S
    <3> QED
      BY <3>1, <3>2
  <2>3. ~(i - 1 < Len(log) => ~FinishedWith(log[(i - 1) + 1], target))
    BY <2>1, <2>2
  <2>4. (i - 1) + 1 = i
    BY <1>1, <2>1
  <2>5. QED
    BY <2>3, <2>4
<1>7. QED
  BY <1>1, <1>5, <1>6 DEF p

\* ... and the rest of the log moves up.
LEMMA PopThroughIsRest ==
  ASSUME NEW log \in Seq(Idx), NEW target
  PROVE  /\ Len(PopThrough(log, target)) = Len(log) - PopCount(log, target)
         /\ \A i \in 1..(Len(log) - PopCount(log, target)) :
              PopThrough(log, target)[i] = log[PopCount(log, target) + i]
<1>1. Len(log) \in Nat /\ PopCount(log, target) \in 0..Len(log)
  BY LenProperties, PopCountIsPrefix
<1>2. PICK p \in 0..Len(log) : p = PopCount(log, target)
  BY <1>1
<1>3. \A i \in (p + 1)..Len(log) : log[i] \in Idx
  BY <1>1, <1>2, ElementOfSeq
<1>4. /\ Len(SubSeq(log, p + 1, Len(log))) = Len(log) - p
      /\ \A i \in 1..(Len(log) - p) : SubSeq(log, p + 1, Len(log))[i] = log[p + i]
  BY <1>1, <1>3, SubSeqProperties
<1>5. QED
  BY <1>2, <1>4 DEF PopThrough

\* A command that leaves the log leaves the log of synchronizable commands with
\* it, although the two logs are popped on their own.
LEMMA PoppedTogether ==
  ASSUME LogType, SyncOrdered, NEW target,
         NEW i \in 1..PopCount(cmdLog, target), NEW k \in 1..Len(syncLog),
         cmdLog[i] = syncLog[k]
  PROVE  k <= PopCount(syncLog, target)
<1>1. Len(cmdLog) \in Nat /\ Len(syncLog) \in Nat
  BY LogElements
<1>2. PICK p \in 0..Len(cmdLog) :
        p = PopCount(cmdLog, target) /\ \A j \in 1..p : FinishedWith(cmdLog[j], target)
  BY PopCountIsPrefix DEF LogType
<1>3. PICK q \in 0..Len(syncLog) :
        /\ q = PopCount(syncLog, target)
        /\ q < Len(syncLog) => ~FinishedWith(syncLog[q + 1], target)
  BY PopCountIsPrefix DEF LogType
<1>4. SUFFICES ASSUME k > q PROVE FALSE
  BY <1>1, <1>3
<1>5. CASE k = q + 1
  BY <1>1, <1>2, <1>3, <1>4, <1>5
<1>6. CASE k # q + 1
  <2>1. q + 1 \in 1..(k - 1) /\ q < Len(syncLog) /\ i \in 1..Len(cmdLog)
    BY <1>1, <1>2, <1>3, <1>4, <1>6
  <2>2. PICK h \in 1..(i - 1) : cmdLog[h] = syncLog[q + 1]
    BY <2>1 DEF SyncOrdered
  <2>3. h \in 1..p
    BY <1>1, <1>2, <2>1, <2>2
  <2>4. QED
    BY <1>2, <1>3, <2>1, <2>2, <2>3
<1>7. QED
  BY <1>5, <1>6

\* Popping both logs keeps them in order.
LEMMA PopKeepsLogs ==
  ASSUME TypeOK, LogOK, NEW target,
         syncLog' = PopThrough(syncLog, target), cmdLog' = PopThrough(cmdLog, target),
         Complete(Popped(cmdLog, target))
  PROVE  LogOK'
<1>1. /\ Len(cmdLog) \in Nat /\ \A j \in 1..Len(cmdLog) : cmdLog[j] \in Idx
      /\ Len(syncLog) \in Nat
  BY LogElements DEF TypeOK
<1>2. PICK p \in 0..Len(cmdLog) : p = PopCount(cmdLog, target)
  BY PopCountIsPrefix DEF TypeOK, LogType
<1>3. PICK q \in 0..Len(syncLog) : q = PopCount(syncLog, target)
  BY PopCountIsPrefix DEF TypeOK, LogType
<1>4. /\ Len(cmdLog') = Len(cmdLog) - p
      /\ \A i \in 1..(Len(cmdLog) - p) : cmdLog'[i] = cmdLog[p + i]
  BY <1>2, PopThroughIsRest DEF TypeOK, LogType
<1>5. /\ Len(syncLog') = Len(syncLog) - q
      /\ \A k \in 1..(Len(syncLog) - q) : syncLog'[k] = syncLog[q + k]
  BY <1>3, PopThroughIsRest DEF TypeOK, LogType
<1>6. \A i \in 1..p, k \in 1..Len(syncLog) : cmdLog[i] = syncLog[k] => k <= q
  BY <1>2, <1>3, PoppedTogether DEF TypeOK, LogOK
<1>7. LogDistinct'
  <2>1. ASSUME NEW i \in 1..Len(cmdLog'), NEW j \in 1..Len(cmdLog'), cmdLog'[i] = cmdLog'[j]
        PROVE  i = j
    <3>1. /\ p + i \in 1..Len(cmdLog) /\ cmdLog'[i] = cmdLog[p + i]
          /\ p + j \in 1..Len(cmdLog) /\ cmdLog'[j] = cmdLog[p + j]
      BY <1>1, <1>2, <1>4
    <3>2. p + i = p + j
      BY <2>1, <3>1 DEF LogOK, LogDistinct
    <3>3. QED
      BY <1>1, <1>2, <1>4, <3>2
  <2>2. QED
    BY <2>1 DEF LogDistinct
<1>8. LogInFlight'
  <2>1. ASSUME NEW i \in 1..Len(cmdLog') PROVE hwState'[cmdLog'[i]] = InFlight
    <3>1. p + i \in 1..Len(cmdLog) /\ cmdLog'[i] = cmdLog[p + i]
      BY <1>1, <1>2, <1>4
    <3>2. cmdLog[p + i] \notin Popped(cmdLog, target)
      BY <1>1, <1>2, <1>4, <3>1 DEF Popped, LogOK, LogDistinct
    <3>3. QED
      BY <1>1, <3>1, <3>2 DEF Complete, LogOK, LogInFlight
  <2>2. QED
    BY <2>1 DEF LogInFlight
<1>9. SyncLogged'
  <2>1. ASSUME NEW k \in 1..Len(syncLog') PROVE Found(k)'
    <3>1. q + k \in 1..Len(syncLog) /\ syncLog'[k] = syncLog[q + k] /\ ~(q + k <= q)
      BY <1>1, <1>3, <1>5
    <3>2. PICK i \in 1..Len(cmdLog) : cmdLog[i] = syncLog[q + k]
      BY <3>1 DEF LogOK, SyncLogged, Found
    <3>3. i - p \in 1..Len(cmdLog') /\ p + (i - p) = i
      <4>1. i \notin 1..p
        BY <1>6, <3>1, <3>2
      <4>2. QED
        BY <1>1, <1>2, <1>4, <4>1
    <3>4. cmdLog'[i - p] = cmdLog[i]
      BY <1>1, <1>4, <3>3
    <3>5. QED
      BY <3>1, <3>2, <3>3, <3>4 DEF Found
  <2>2. QED
    BY <2>1 DEF SyncLogged
<1>10. SyncOrdered'
  <2>1. SUFFICES ASSUME NEW i \in 1..Len(cmdLog'), NEW k \in 1..Len(syncLog'),
                        cmdLog'[i] = syncLog'[k], NEW m \in 1..(k - 1)
                 PROVE  \E h \in 1..(i - 1) : cmdLog'[h] = syncLog'[m]
    BY DEF SyncOrdered
  <2>2. /\ p + i \in 1..Len(cmdLog) /\ q + k \in 1..Len(syncLog)
        /\ cmdLog[p + i] = syncLog[q + k] /\ q + m \in 1..((q + k) - 1)
        /\ q + m \in 1..Len(syncLog) /\ syncLog'[m] = syncLog[q + m] /\ ~(q + m <= q)
    <3>1. /\ i \in 1..(Len(cmdLog) - p) /\ p \in Nat
          /\ k \in 1..(Len(syncLog) - q) /\ q \in Nat /\ m \in 1..(k - 1)
      BY <1>2, <1>3, <1>4, <1>5
    <3>2. p + i \in 1..Len(cmdLog)
      BY <1>1, <3>1
    <3>3. q + k \in 1..Len(syncLog)
      BY <1>1, <3>1
    <3>4. /\ q + m \in 1..((q + k) - 1) /\ ~(q + m <= q) /\ q + m \in 1..Len(syncLog)
          /\ m \in 1..(Len(syncLog) - q)
      BY <1>1, <3>1
    <3>5. QED
      BY <1>4, <1>5, <2>1, <3>1, <3>2, <3>3, <3>4
  <2>3. PICK h \in 1..((p + i) - 1) : cmdLog[h] = syncLog[q + m]
    BY <2>2 DEF LogOK, SyncOrdered
  <2>4. h \notin 1..p
    BY <1>6, <2>2, <2>3
  <2>5. h - p \in 1..(i - 1) /\ p + (h - p) = h /\ h - p \in 1..(Len(cmdLog) - p)
    <3>1. i \in 1..(Len(cmdLog) - p) /\ p \in Nat /\ h \in 1..((p + i) - 1)
      BY <1>1, <1>2, <1>4
    <3>2. QED
      BY <1>1, <2>4, <3>1
  <2>6. QED
    BY <1>4, <2>2, <2>3, <2>5
<1>11. QED
  BY <1>7, <1>8, <1>9, <1>10 DEF LogOK

\* A step that leaves the logs and the states of the commands in them alone.
LogsKept ==
  UNCHANGED <<cmdLog, syncLog>> /\ \A i \in 1..Len(cmdLog) : hwState'[cmdLog[i]] = InFlight

\* The logs only change when a synchronization ends, when a command is launched
\* and when a resume drops what is in flight.
LEMMA LogSteps ==
  ASSUME TypeOK, ControlOK, Owned, LogOK, [Next]_vars
  PROVE  \/ LogsKept
         \/ \E t \in Threads : SyncRelock(t)
         \/ LaunchCommand
         \/ \E t \in Clients : ResumeAndDrop(t)
<1>1. ASSUME UNCHANGED <<hwState, cmdLog, syncLog>> PROVE LogsKept
  BY <1>1 DEF LogsKept, LogOK, LogInFlight
<1>2. CASE UNCHANGED vars
  BY <1>1, <1>2 DEF vars, cmdVars, logVars
<1>3. CASE HwRetire
  BY <1>1, <1>3 DEF HwRetire, cmdVars, logVars
<1>4. ASSUME NEW t \in Threads, SyncCheck(t) \/ SyncHw(t) PROVE LogsKept
  BY <1>1, <1>4 DEF SyncCheck, SyncHw, ThreadStep, cmdVars, logVars
<1>5. ASSUME NEW S, Complete(S), UNCHANGED <<cmdLog, syncLog>>,
             \A c \in S : c \in Idx => hwState[c] = Pending
      PROVE  LogsKept
  <2>1. \A i \in 1..Len(cmdLog) : cmdLog[i] \in Idx /\ cmdLog[i] \notin S
    BY <1>5, LogElements DEF TypeOK, LogOK, LogInFlight, Pending, InFlight
  <2>2. QED
    BY <1>5, <2>1 DEF LogsKept, Complete, LogOK, LogInFlight
<1>6. CASE WorkerLoop /\ ~LaunchCommand /\ ~SyncRelock(Worker)
  <2>1. CASE Dequeue
    BY <1>1, <2>1 DEF Dequeue, BufferStep, cmdVars, logVars
  <2>2. CASE LaunchEnter \/ LaunchThreshold \/ LaunchResumed
    BY <1>1, <2>2 DEF LaunchEnter, LaunchThreshold, LaunchResumed, ThreadStep, cmdVars,
      logVars
  <2>3. CASE LaunchDrop
    <3>1. hwState[cur.id] = Pending
      BY <2>3 DEF LaunchDrop, ControlOK, Launching, Owned, WorkerOwned, Holding, StatePending
    <3>2. QED
      BY <1>5, <2>3, <3>1 DEF LaunchDrop, logVars
  <2>4. CASE \/ WaitAllEnter \/ WaitAllDone \/ BatchSyncEnter \/ BatchSyncDone
             \/ DestroyEnter \/ DestroyDone
    BY <1>1, <2>4 DEF WaitAllEnter, WaitAllDone, BatchSyncEnter, BatchSyncDone,
      DestroyEnter, DestroyDone, ThreadStep, cmdVars, logVars
  <2>5. QED
    BY <1>4, <1>6, <2>1, <2>2, <2>3, <2>4 DEF WorkerLoop, LaunchHwCommand, Sync, Threads
<1>7. ASSUME NEW t \in Clients, Call(t) PROVE LogsKept
  BY <1>1, <1>7 DEF SubmitIdx, WaitAllCall, WaitCall, SuspendCall, ResumeCall,
    ConfigureCall, DelCall, BeginWaitAll, BufferStep, ThreadStep, BeginResume, logVars,
    cmdVars, Call
<1>8. ASSUME NEW t \in Clients, Continue(t), ~SyncRelock(t), ~ResumeAndDrop(t)
      PROVE  LogsKept
  <2>1. CASE SubmitEnqueue(t)
    <3>1. arg[t] \in Idx /\ hwState[arg[t]] = Created
      BY <2>1 DEF SubmitEnqueue, ControlOK, ClientControl, Owned, SubmitOwned
    <3>2. \A i \in 1..Len(cmdLog) : cmdLog[i] \in Idx /\ cmdLog[i] # arg[t]
      BY <3>1, LogElements DEF TypeOK, LogOK, LogInFlight, Created, InFlight
    <3>3. QED
      BY <2>1, <3>2 DEF SubmitEnqueue, logVars, LogsKept, LogOK, LogInFlight, TypeOK,
         CommandType
  <2>2. CASE DropAll(t)
    <3>1. \A c \in OfType(cmds, "Hardware") : hwState[c] = Pending
      BY DEF OfType, Owned, BufferOwned, StatePending
    <3>2. QED
      BY <1>5, <2>2, <3>1 DEF DropAll, logVars
  <2>3. CASE Suspend(t)
    BY <1>1, <2>3 DEF SuspendMark, Pause, Deactivate, SuspendSync, ThreadStep, cmdVars,
      logVars, Suspend
  <2>4. CASE \/ ResumeMark(t) \/ Reactivate(t) \/ RelaunchNext(t) \/ RelaunchEnd(t)
             \/ ResumeWorker(t) \/ DropIdx(t)
    BY <1>1, <2>4 DEF ResumeMark, Reactivate, RelaunchNext, RelaunchEnd, ResumeWorker,
      DropIdx, ThreadStep, cmdVars, logVars
  <2>5. CASE \/ SubmitReturn(t) \/ WaitAllReturn(t) \/ WaitInFlight(t) \/ WaitReturn(t)
             \/ Configure(t) \/ DelWaitAll(t) \/ Dtor(t) \/ DtorEnqueue(t) \/ DtorReturn(t)
    BY <1>1, <2>5 DEF SubmitReturn, WaitAllReturn, WaitInFlight, WaitReturn, Configure,
      DelWaitAll, Dtor, DtorEnqueue, DtorReturn, ThreadStep, BufferStep, BeginWaitAll,
      BeginResume, cmdVars, logVars
  <2>6. QED
    BY <1>4, <1>8, <2>1, <2>2, <2>3, <2>4, <2>5 DEF Continue, Resume, Sync, Threads
<1>9. QED
  BY <1>2, <1>3, <1>6, <1>7, <1>8 DEF Next, Threads

\* Launching a command appends it to the logs.
LEMMA LaunchKeepsLogs ==
  ASSUME TypeOK, ControlOK, Owned, LogOK, LaunchCommand
  PROVE  LogOK'
<1> DEFINE c == cur.id
<1>1. /\ Len(cmdLog) \in Nat /\ \A j \in 1..Len(cmdLog) : cmdLog[j] \in Idx
      /\ Len(syncLog) \in Nat
  BY LogElements DEF TypeOK
<1>2. c \in Idx /\ hwState[c] = Pending
  BY LaunchingIdx DEF LaunchCommand, ControlOK, Launching, Owned, WorkerOwned, Holding,
     StatePending
<1>3. /\ cmdLog' = Append(cmdLog, c)
      /\ syncLog' = syncLog \/ syncLog' = Append(syncLog, c)
      /\ hwState' = [hwState EXCEPT ![c] = InFlight]
  BY DEF LaunchCommand
<1> HIDE DEF c
<1>4. /\ Len(cmdLog') = Len(cmdLog) + 1 /\ cmdLog'[Len(cmdLog) + 1] = c
      /\ \A i \in 1..Len(cmdLog) : cmdLog'[i] = cmdLog[i]
  BY <1>2, <1>3, AppendProperties DEF TypeOK, LogType
<1>5. /\ \A k \in 1..Len(syncLog) : syncLog'[k] = syncLog[k]
      /\ \/ Len(syncLog') = Len(syncLog)
         \/ Len(syncLog') = Len(syncLog) + 1 /\ syncLog'[Len(syncLog) + 1] = c
  BY <1>2, <1>3, AppendProperties DEF TypeOK, LogType
<1>6. \A i \in 1..Len(cmdLog) : cmdLog[i] # c
  BY <1>2 DEF LogOK, LogInFlight, Pending, InFlight
<1>7. \A k \in 1..Len(syncLog) : syncLog[k] # c /\ Found(k)
  BY <1>6 DEF LogOK, SyncLogged, Found
<1>8. LogInFlight' /\ LogDistinct'
  BY <1>1, <1>2, <1>3, <1>4, <1>6 DEF LogOK, LogInFlight, LogDistinct, TypeOK, CommandType
<1>9. SyncLogged'
  <2>1. ASSUME NEW k \in 1..Len(syncLog') PROVE Found(k)'
    <3>1. CASE k \in 1..Len(syncLog)
      BY <1>1, <1>4, <1>5, <1>7, <3>1 DEF Found
    <3>2. CASE k \notin 1..Len(syncLog)
      BY <1>1, <1>4, <1>5, <3>2 DEF Found
    <3>3. QED
      BY <3>1, <3>2
  <2>2. QED
    BY <2>1 DEF SyncLogged
<1>10. SyncOrdered'
  <2>1. SUFFICES ASSUME NEW i \in 1..Len(cmdLog'), NEW k \in 1..Len(syncLog'),
                        cmdLog'[i] = syncLog'[k], NEW m \in 1..(k - 1)
                 PROVE  \E h \in 1..(i - 1) : cmdLog'[h] = syncLog'[m]
    BY DEF SyncOrdered
  <2>2. m \in 1..Len(syncLog) /\ syncLog'[m] = syncLog[m]
    BY <1>1, <1>5
  <2>3. CASE k \in 1..Len(syncLog)
    <3>1. i \in 1..Len(cmdLog) /\ cmdLog[i] = syncLog[k]
      BY <1>1, <1>4, <1>5, <1>7, <2>1, <2>3
    <3>2. PICK h \in 1..(i - 1) : cmdLog[h] = syncLog[m]
      BY <2>3, <3>1 DEF LogOK, SyncOrdered
    <3>3. QED
      BY <1>1, <1>4, <2>2, <3>1, <3>2
  <2>4. CASE k \notin 1..Len(syncLog)
    <3>1. syncLog'[k] = c
      BY <1>1, <1>5, <2>4
    <3>2. i = Len(cmdLog) + 1
      BY <1>1, <1>4, <1>6, <2>1, <3>1
    <3>3. PICK h \in 1..Len(cmdLog) : cmdLog[h] = syncLog[m]
      BY <1>7, <2>2 DEF Found
    <3>4. QED
      BY <1>1, <1>4, <2>2, <3>2, <3>3
  <2>5. QED
    BY <2>3, <2>4
<1>11. QED
  BY <1>8, <1>9, <1>10 DEF LogOK

\* Every step keeps the logs in order.
LEMMA NextLogs ==
  ASSUME TypeOK, ControlOK, Owned, LogOK, [Next]_vars
  PROVE  LogOK'
<1>1. CASE LogsKept
  BY <1>1 DEF LogsKept, LogOK, LogInFlight, LogDistinct, SyncLogged, SyncOrdered, Found
<1>2. ASSUME NEW t \in Threads, SyncRelock(t) PROVE LogOK'
  <2>1. CASE PausedMeanwhile(t)
    BY <1>2, <2>1 DEF SyncRelock, LogOK, LogInFlight, LogDistinct, SyncLogged, SyncOrdered,
       Found
  <2>2. CASE ~PausedMeanwhile(t)
    BY <1>2, <2>2, PopKeepsLogs DEF SyncRelock
  <2>3. QED
    BY <2>1, <2>2
<1>3. ASSUME NEW t \in Clients, ResumeAndDrop(t) PROVE LogOK'
  <2>1. cmdLog' = <<>> /\ syncLog' = <<>> /\ Len(cmdLog') = 0 /\ Len(syncLog') = 0
    BY <1>3 DEF ResumeAndDrop
  <2>2. QED
    BY <2>1 DEF LogOK, LogInFlight, LogDistinct, SyncLogged, SyncOrdered, Found
<1>4. QED
  BY <1>1, <1>2, <1>3, LaunchKeepsLogs, LogSteps

-----------------------------------------------------------------------------
(* The steps that change a variable *)

\* The state of the worker changes when it is paused, resumed or ends.
LEMMA PauseSteps ==
  ASSUME [Next]_vars
  PROVE  \/ UNCHANGED <<wstate, pauseCount>>
         \/ DestroyDone
         \/ \E t \in Clients : Pause(t) \/ ResumeWorker(t) \/ ResumeAndDrop(t)
<1>1. CASE UNCHANGED vars
  BY <1>1 DEF vars, pauseVars
<1>2. CASE HwRetire
  BY <1>2 DEF HwRetire, pauseVars
<1>3. ASSUME NEW t \in Threads, SyncCheck(t) \/ SyncHw(t) \/ SyncRelock(t)
      PROVE  UNCHANGED <<wstate, pauseCount>>
  BY <1>3 DEF SyncCheck, SyncHw, SyncRelock, ThreadStep, pauseVars
<1>4. CASE Dequeue
  BY <1>4 DEF Dequeue, BufferStep, pauseVars, DequeueFront, DequeueIdle, DequeueGenWaitAll,
    DequeueGenBatchSync
<1>5. CASE LaunchEnter \/ LaunchThreshold \/ LaunchResumed \/ LaunchDrop \/ LaunchCommand
  BY <1>5 DEF LaunchEnter, LaunchThreshold, LaunchResumed, LaunchDrop, LaunchCommand,
    ThreadStep, pauseVars
<1>6. CASE \/ WaitAllEnter \/ WaitAllDone \/ BatchSyncEnter \/ BatchSyncDone
          \/ DestroyEnter
  BY <1>6 DEF WaitAllEnter, WaitAllDone, BatchSyncEnter, BatchSyncDone, DestroyEnter,
    ThreadStep, pauseVars
<1>7. ASSUME NEW t \in Clients, Call(t) PROVE UNCHANGED <<wstate, pauseCount>>
  BY <1>7 DEF Call, SubmitIdx, WaitAllCall, WaitCall, SuspendCall, ResumeCall,
    ConfigureCall, DelCall, BeginWaitAll, BufferStep, ThreadStep, BeginResume, pauseVars
<1>8. ASSUME NEW t \in Clients, \/ SuspendMark(t) \/ Deactivate(t) \/ SuspendSync(t)
      PROVE  UNCHANGED <<wstate, pauseCount>>
  BY <1>8 DEF SuspendMark, Deactivate, SuspendSync, ThreadStep, pauseVars
<1>9. ASSUME NEW t \in Clients, \/ ResumeMark(t) \/ Reactivate(t) \/ RelaunchNext(t)
             \/ RelaunchEnd(t) \/ DropAll(t) \/ DropIdx(t)
      PROVE  UNCHANGED <<wstate, pauseCount>>
  BY <1>9 DEF ResumeMark, Reactivate, RelaunchNext, RelaunchEnd, DropAll, DropIdx,
    ThreadStep, pauseVars
<1>10. ASSUME NEW t \in Clients, \/ SubmitEnqueue(t) \/ SubmitReturn(t) \/ WaitAllReturn(t)
             \/ WaitInFlight(t) \/ WaitReturn(t)
      PROVE  UNCHANGED <<wstate, pauseCount>>
  BY <1>10 DEF SubmitEnqueue, SubmitReturn, WaitAllReturn, WaitInFlight, WaitReturn,
    ThreadStep, BufferStep, pauseVars
<1>11. ASSUME NEW t \in Clients, \/ Configure(t) \/ DelWaitAll(t) \/ Dtor(t)
             \/ DtorEnqueue(t) \/ DtorReturn(t)
      PROVE  UNCHANGED <<wstate, pauseCount>>
  BY <1>11 DEF Configure, DelWaitAll, Dtor, DtorEnqueue, DtorReturn, BeginWaitAll,
    BufferStep, BeginResume, ThreadStep, pauseVars
<1>12. QED
  BY <1>1, <1>2, <1>3, <1>4, <1>5, <1>6, <1>7, <1>8, <1>9, <1>10, <1>11
  DEF Next, WorkerLoop, LaunchHwCommand, Call, Continue, Sync, Suspend, Resume, Threads

\* The queue is marked suspended by a suspend and unmarked by a resume.
LEMMA SuspendSteps ==
  ASSUME [Next]_vars
  PROVE  \/ UNCHANGED suspended
         \/ \E t \in Clients : SuspendMark(t) \/ ResumeMark(t)
<1>1. CASE UNCHANGED vars
  BY <1>1 DEF vars, queueVars
<1>2. CASE HwRetire
  BY <1>2 DEF HwRetire, queueVars
<1>3. ASSUME NEW t \in Threads, SyncCheck(t) \/ SyncHw(t) \/ SyncRelock(t)
      PROVE  UNCHANGED suspended
  BY <1>3 DEF SyncCheck, SyncHw, SyncRelock, ThreadStep, queueVars
<1>4. CASE Dequeue
  BY <1>4 DEF Dequeue, BufferStep, queueVars, DequeueFront, DequeueIdle, DequeueGenWaitAll,
    DequeueGenBatchSync
<1>5. CASE LaunchEnter \/ LaunchThreshold \/ LaunchResumed \/ LaunchDrop \/ LaunchCommand
  BY <1>5 DEF LaunchEnter, LaunchThreshold, LaunchResumed, LaunchDrop, LaunchCommand,
    ThreadStep, queueVars
<1>6. CASE \/ WaitAllEnter \/ WaitAllDone \/ BatchSyncEnter \/ BatchSyncDone
          \/ DestroyEnter \/ DestroyDone
  BY <1>6 DEF WaitAllEnter, WaitAllDone, BatchSyncEnter, BatchSyncDone, DestroyEnter,
    DestroyDone, ThreadStep, queueVars
<1>7. ASSUME NEW t \in Clients, Call(t) PROVE UNCHANGED suspended
  BY <1>7 DEF Call, SubmitIdx, WaitAllCall, WaitCall, SuspendCall, ResumeCall,
    ConfigureCall, DelCall, BeginWaitAll, ThreadStep, queueVars
<1>8. ASSUME NEW t \in Clients, \/ Pause(t) \/ Deactivate(t) \/ SuspendSync(t)
      PROVE  UNCHANGED suspended
  BY <1>8 DEF Pause, Deactivate, SuspendSync, ThreadStep, queueVars
<1>9. ASSUME NEW t \in Clients, \/ Reactivate(t) \/ RelaunchNext(t) \/ RelaunchEnd(t)
             \/ ResumeWorker(t) \/ DropAll(t) \/ DropIdx(t) \/ ResumeAndDrop(t)
      PROVE  UNCHANGED suspended
  BY <1>9 DEF Reactivate, RelaunchNext, RelaunchEnd, ResumeWorker, DropAll, DropIdx,
    ResumeAndDrop, ThreadStep, queueVars
<1>10. ASSUME NEW t \in Clients, \/ SubmitEnqueue(t) \/ SubmitReturn(t) \/ WaitAllReturn(t)
             \/ WaitInFlight(t) \/ WaitReturn(t)
      PROVE  UNCHANGED suspended
  BY <1>10 DEF SubmitEnqueue, SubmitReturn, WaitAllReturn, WaitInFlight, WaitReturn,
    ThreadStep, queueVars
<1>11. ASSUME NEW t \in Clients, \/ Configure(t) \/ DelWaitAll(t) \/ Dtor(t)
             \/ DtorEnqueue(t) \/ DtorReturn(t)
      PROVE  UNCHANGED suspended
  BY <1>11 DEF Configure, DelWaitAll, Dtor, DtorEnqueue, DtorReturn, BeginWaitAll,
    ThreadStep, queueVars
<1>12. QED
  BY <1>1, <1>2, <1>3, <1>4, <1>5, <1>6, <1>7, <1>8, <1>9, <1>10, <1>11
  DEF Next, WorkerLoop, LaunchHwCommand, Call, Continue, Sync, Suspend, Resume, Threads

\* Only a configuration call changes the launch configuration.
LEMMA ThresholdSteps ==
  ASSUME [Next]_vars
  PROVE  \/ UNCHANGED <<threshold, batch>>
         \/ \E t \in Clients : Configure(t)
<1>1. CASE UNCHANGED vars
  BY <1>1 DEF vars, configVars
<1>2. CASE HwRetire
  BY <1>2 DEF HwRetire, configVars
<1>3. ASSUME NEW t \in Threads, SyncCheck(t) \/ SyncHw(t) \/ SyncRelock(t)
      PROVE  UNCHANGED <<threshold, batch>>
  BY <1>3 DEF SyncCheck, SyncHw, SyncRelock, ThreadStep, configVars
<1>4. CASE Dequeue
  BY <1>4 DEF Dequeue, BufferStep, configVars, DequeueFront, DequeueIdle,
    DequeueGenWaitAll, DequeueGenBatchSync
<1>5. CASE LaunchEnter \/ LaunchThreshold \/ LaunchResumed \/ LaunchDrop \/ LaunchCommand
  BY <1>5 DEF LaunchEnter, LaunchThreshold, LaunchResumed, LaunchDrop, LaunchCommand,
    ThreadStep, configVars
<1>6. CASE \/ WaitAllEnter \/ WaitAllDone \/ BatchSyncEnter \/ BatchSyncDone
          \/ DestroyEnter \/ DestroyDone
  BY <1>6 DEF WaitAllEnter, WaitAllDone, BatchSyncEnter, BatchSyncDone, DestroyEnter,
    DestroyDone, ThreadStep, configVars
<1>7. ASSUME NEW t \in Clients, Call(t) PROVE UNCHANGED <<threshold, batch>>
  BY <1>7 DEF Call, SubmitIdx, WaitAllCall, WaitCall, SuspendCall, ResumeCall,
    ConfigureCall, DelCall, BeginWaitAll, BufferStep, ThreadStep, BeginResume,
    configVars
<1>8. ASSUME NEW t \in Clients, \/ SuspendMark(t) \/ Pause(t) \/ Deactivate(t)
             \/ SuspendSync(t)
      PROVE  UNCHANGED <<threshold, batch>>
  BY <1>8 DEF SuspendMark, Pause, Deactivate, SuspendSync, ThreadStep, configVars
<1>9. ASSUME NEW t \in Clients, \/ ResumeMark(t) \/ Reactivate(t) \/ RelaunchNext(t)
             \/ RelaunchEnd(t) \/ ResumeWorker(t) \/ DropAll(t) \/ DropIdx(t)
             \/ ResumeAndDrop(t)
      PROVE  UNCHANGED <<threshold, batch>>
  BY <1>9 DEF ResumeMark, Reactivate, RelaunchNext, RelaunchEnd, ResumeWorker, DropAll,
    DropIdx, ResumeAndDrop, ThreadStep, configVars
<1>10. ASSUME NEW t \in Clients, \/ SubmitEnqueue(t) \/ SubmitReturn(t) \/ WaitAllReturn(t)
             \/ WaitInFlight(t) \/ WaitReturn(t)
      PROVE  UNCHANGED <<threshold, batch>>
  BY <1>10 DEF SubmitEnqueue, SubmitReturn, WaitAllReturn, WaitInFlight, WaitReturn,
    ThreadStep, BufferStep, configVars
<1>11. ASSUME NEW t \in Clients, \/ DelWaitAll(t) \/ Dtor(t) \/ DtorEnqueue(t)
             \/ DtorReturn(t)
      PROVE  UNCHANGED <<threshold, batch>>
  BY <1>11 DEF DelWaitAll, Dtor, DtorEnqueue, DtorReturn, BeginWaitAll, BufferStep,
    BeginResume, ThreadStep, configVars
<1>12. QED
  BY <1>1, <1>2, <1>3, <1>4, <1>5, <1>6, <1>7, <1>8, <1>9, <1>10, <1>11
  DEF Next, WorkerLoop, LaunchHwCommand, Call, Continue, Sync, Suspend, Resume, Threads

\* The queue leaves the manager when it is deleted, and is terminated by its
\* destructor.
LEMMA DestroySteps ==
  ASSUME [Next]_vars
  PROVE  \/ UNCHANGED <<terminated, registered>>
         \/ \E t \in Clients : Dtor(t) \/ DelCall(t)
<1>1. CASE UNCHANGED vars
  BY <1>1 DEF vars, queueVars
<1>2. CASE HwRetire
  BY <1>2 DEF HwRetire, queueVars
<1>3. ASSUME NEW t \in Threads, SyncCheck(t) \/ SyncHw(t) \/ SyncRelock(t)
      PROVE  UNCHANGED <<terminated, registered>>
  BY <1>3 DEF SyncCheck, SyncHw, SyncRelock, ThreadStep, queueVars
<1>4. CASE Dequeue
  BY <1>4 DEF Dequeue, BufferStep, queueVars, DequeueFront, DequeueIdle, DequeueGenWaitAll,
    DequeueGenBatchSync
<1>5. CASE LaunchEnter \/ LaunchThreshold \/ LaunchResumed \/ LaunchDrop \/ LaunchCommand
  BY <1>5 DEF LaunchEnter, LaunchThreshold, LaunchResumed, LaunchDrop, LaunchCommand,
    ThreadStep, queueVars
<1>6. CASE \/ WaitAllEnter \/ WaitAllDone \/ BatchSyncEnter \/ BatchSyncDone
          \/ DestroyEnter \/ DestroyDone
  BY <1>6 DEF WaitAllEnter, WaitAllDone, BatchSyncEnter, BatchSyncDone, DestroyEnter,
    DestroyDone, ThreadStep, queueVars
<1>7. ASSUME NEW t \in Clients, \/ SubmitIdx(t) \/ WaitAllCall(t) \/ WaitCall(t)
             \/ SuspendCall(t) \/ ResumeCall(t) \/ ConfigureCall(t)
      PROVE  UNCHANGED <<terminated, registered>>
  BY <1>7 DEF SubmitIdx, WaitAllCall, WaitCall, SuspendCall, ResumeCall, ConfigureCall,
    BeginWaitAll, ThreadStep, queueVars
<1>8. ASSUME NEW t \in Clients, \/ SuspendMark(t) \/ Pause(t) \/ Deactivate(t)
             \/ SuspendSync(t)
      PROVE  UNCHANGED <<terminated, registered>>
  BY <1>8 DEF SuspendMark, Pause, Deactivate, SuspendSync, ThreadStep, queueVars
<1>9. ASSUME NEW t \in Clients, \/ ResumeMark(t) \/ Reactivate(t) \/ RelaunchNext(t)
             \/ RelaunchEnd(t) \/ ResumeWorker(t) \/ DropAll(t) \/ DropIdx(t)
             \/ ResumeAndDrop(t)
      PROVE  UNCHANGED <<terminated, registered>>
  BY <1>9 DEF ResumeMark, Reactivate, RelaunchNext, RelaunchEnd, ResumeWorker, DropAll,
    DropIdx, ResumeAndDrop, ThreadStep, queueVars
<1>10. ASSUME NEW t \in Clients, \/ SubmitEnqueue(t) \/ SubmitReturn(t) \/ WaitAllReturn(t)
             \/ WaitInFlight(t) \/ WaitReturn(t)
      PROVE  UNCHANGED <<terminated, registered>>
  BY <1>10 DEF SubmitEnqueue, SubmitReturn, WaitAllReturn, WaitInFlight, WaitReturn,
    ThreadStep, queueVars
<1>11. ASSUME NEW t \in Clients, \/ Configure(t) \/ DelWaitAll(t) \/ DtorEnqueue(t)
             \/ DtorReturn(t)
      PROVE  UNCHANGED <<terminated, registered>>
  BY <1>11 DEF Configure, DelWaitAll, DtorEnqueue, DtorReturn, BeginWaitAll, ThreadStep,
    queueVars
<1>12. QED
  BY <1>1, <1>2, <1>3, <1>4, <1>5, <1>6, <1>7, <1>8, <1>9, <1>10, <1>11
  DEF Next, WorkerLoop, LaunchHwCommand, Call, Continue, Sync, Suspend, Resume, Threads

-----------------------------------------------------------------------------
(* The bound on the commands in flight *)

\* A step of the hardware moves no thread; all others are steps of one thread.
LEMMA ThreadSteps ==
  ASSUME TypeOK, ControlOK, [Next]_vars
  PROVE  \/ (\A u \in Threads : Still(u)) /\ lock' = lock
         \/ WorkerLoop /\ Moves(Worker)
         \/ \E t \in Clients : (Call(t) \/ Continue(t)) /\ Moves(t)
<1>1. CASE UNCHANGED vars
  BY <1>1 DEF vars, localVars, Still
<1>2. CASE HwRetire
  BY <1>2 DEF HwRetire, localVars, Still
<1>3. QED
  BY <1>1, <1>2, WorkerStep, CallStep, ContinueStep DEF Next

\* The worker stays where it is unless it is the one that takes the step.
LEMMA WorkerStill ==
  ASSUME TypeOK, ControlOK, [Next]_vars
  PROVE  WorkerLoop \/ Still(Worker)
BY ThreadSteps, ThreadsAssumption DEF Moves, Threads

\* The mutex is held wherever a thread needs it.
LEMMA NextLock ==
  ASSUME TypeOK, ControlOK, LockHeld, [Next]_vars
  PROVE  LockHeld'
<1>1. CASE (\A u \in Threads : Still(u)) /\ lock' = lock
  BY <1>1 DEF LockHeld, Still
<1>2. QED
  BY <1>1, ThreadSteps, LockFrame DEF Threads

\* The worker has ended when it is in its last state: WorkerLoop returns.
LEMMA NextEnded ==
  ASSUME TypeOK, ControlOK, EndedIsExited, [Next]_vars
  PROVE  EndedIsExited'
<1>1. WorkerLoop => pc[Worker] # "Exited"
  BY DEF WorkerLoop, Dequeue, DequeueFront, DequeueIdle, DequeueGenWaitAll,
     DequeueGenBatchSync, LaunchHwCommand, LaunchEnter, LaunchThreshold, LaunchResumed,
     LaunchDrop, LaunchCommand, Sync, SyncCheck, SyncHw, SyncRelock, WaitAllEnter,
     WaitAllDone, BatchSyncEnter, BatchSyncDone, DestroyEnter, DestroyDone
<1>2. CASE UNCHANGED <<wstate, pauseCount>>
  BY <1>1, <1>2, WorkerStill DEF EndedIsExited, Still
<1>3. CASE DestroyDone
  BY <1>3 DEF DestroyDone, Goto, EndedIsExited, TypeOK, ThreadType, Threads
<1>4. CASE \E t \in Clients : Pause(t) \/ ResumeWorker(t) \/ ResumeAndDrop(t)
  BY <1>4 DEF Pause, ResumeWorker, ResumeAndDrop, WakeWorker, EndedIsExited
<1>5. QED
  BY <1>2, <1>3, <1>4, PauseSteps

\* Popping with the target All empties a log; with a target not smaller than
\* its first command, it pops that command at least.
LEMMA PopFrees ==
  ASSUME NEW log \in Seq(Idx), NEW target,
         target = All \/ (target >= log[1] /\ Len(log) > 0)
  PROVE  /\ PopCount(log, target) = Len(log) \/ PopCount(log, target) > 0
         /\ target = All => PopCount(log, target) = Len(log)
<1>1. Len(log) \in Nat
  BY LenProperties
<1>2. PICK p \in 0..Len(log) :
        p = PopCount(log, target) /\ (p < Len(log) => ~FinishedWith(log[p + 1], target))
  BY PopCountIsPrefix
<1>3. target = All => p = Len(log)
  BY <1>1, <1>2 DEF FinishedWith
<1>4. CASE target >= log[1] /\ Len(log) > 0
  <2>1. p # 0
    BY <1>1, <1>2, <1>4, ElementOfSeq, IdxNat DEF FinishedWith, Idx
  <2>2. QED
    BY <1>1, <1>2, <1>3, <2>1
<1>5. QED
  BY <1>2, <1>3, <1>4

\* What a full log is waited for with is in the log, and not before its first
\* command.
LEMMA FreeingLogged ==
  ASSUME TypeOK, LogOK, SyncFreeingAt # {}
  PROVE  /\ Logged(syncLog[FirstOf(SyncFreeingAt)])
         /\ syncLog[FirstOf(SyncFreeingAt)] >= cmdLog[1]
<1>1. SyncFreeingAt \in SUBSET Nat
  BY LogElements DEF TypeOK, SyncFreeingAt
<1>2. FirstOf(SyncFreeingAt) \in SyncFreeingAt
  BY <1>1, FirstOfIsLeast
<1>3. QED
  BY <1>2 DEF SyncFreeingAt, LogOK, SyncLogged, Found, Logged

\* The log is bounded, and the worker that waits for a slot gets one.
LEMMA NextSlots ==
  ASSUME TypeOK, ControlOK, Owned, LogOK, SlotsOK, [Next]_vars
  PROVE  SlotsOK'
<1>1. Len(cmdLog) \in Nat /\ threshold \in Nat \ {0}
  BY LogElements DEF TypeOK, ConfigType
<1>2. FixedLaunchConfig' /\ EndedIsExited' /\ threshold' = threshold
  <2>1. FixedLaunchConfig'
    BY DEF SlotsOK, FixedLaunchConfig
  <2>2. threshold' = threshold
    BY ThresholdSteps DEF Configure, SlotsOK, FixedLaunchConfig
  <2>3. QED
    BY <2>1, <2>2, NextEnded DEF SlotsOK
<1>3. ASSUME NEW t \in Threads, SyncRelock(t)
      PROVE  /\ Len(cmdLog') \in Nat /\ Len(cmdLog') <= Len(cmdLog)
             /\ Len(cmdLog') = Len(cmdLog)
                  => \A i \in 1..Len(cmdLog) : cmdLog'[i] = cmdLog[i]
             /\ ~PausedMeanwhile(t) /\ (arg[t] = All \/ (arg[t] >= cmdLog[1] /\ Len(cmdLog) > 0))
                  => Len(cmdLog') < Len(cmdLog) \/ Len(cmdLog') = 0
  <2>1. CASE PausedMeanwhile(t)
    BY <1>1, <1>3, <2>1 DEF SyncRelock
  <2>2. CASE ~PausedMeanwhile(t)
    <3>1. cmdLog' = PopThrough(cmdLog, arg[t])
      BY <1>3, <2>2 DEF SyncRelock
    <3>2. PICK p \in 0..Len(cmdLog) : p = PopCount(cmdLog, arg[t])
      BY PopCountIsPrefix DEF TypeOK, LogType
    <3>3. /\ Len(cmdLog') = Len(cmdLog) - p
          /\ \A i \in 1..(Len(cmdLog) - p) : cmdLog'[i] = cmdLog[p + i]
      BY <3>1, <3>2, PopThroughIsRest DEF TypeOK, LogType
    <3>4. arg[t] = All \/ (arg[t] >= cmdLog[1] /\ Len(cmdLog) > 0) => p = Len(cmdLog) \/ p > 0
      BY <3>2, PopFrees DEF TypeOK, LogType
    <3>5. QED
      BY <1>1, <3>2, <3>3, <3>4
  <2>3. QED
    BY <2>1, <2>2
<1>4. CASE Still(Worker)
  <2>1. CASE LogsKept
    BY <1>2, <1>4, <2>1 DEF Still, LogsKept, SlotsOK, InFlightBound, FreesSlot, Logged
  <2>2. ASSUME NEW t \in Threads, SyncRelock(t) PROVE InFlightBound' /\ FreesSlot'
    <3>1. /\ Len(cmdLog') \in Nat /\ Len(cmdLog') <= Len(cmdLog)
          /\ Len(cmdLog') = Len(cmdLog) => \A i \in 1..Len(cmdLog) : cmdLog'[i] = cmdLog[i]
      BY <1>3, <2>2
    <3>2. InFlightBound'
      BY <1>1, <1>2, <3>1 DEF SlotsOK, InFlightBound
    <3>3. ASSUME Len(cmdLog') = threshold
          PROVE  /\ Len(cmdLog) = threshold /\ cmdLog'[1] = cmdLog[1]
                 /\ Logged(arg[Worker]) => Logged(arg[Worker])'
      <4>1. Len(cmdLog') = Len(cmdLog)
        BY <1>1, <3>1, <3>3 DEF SlotsOK, InFlightBound
      <4>2. QED
        BY <1>1, <1>4, <3>1, <3>3, <4>1 DEF Logged, Still
    <3>4. QED
      BY <1>1, <1>2, <1>4, <3>1, <3>2, <3>3 DEF SlotsOK, FreesSlot, Still
  <2>3. ASSUME NEW t \in Clients, ResumeAndDrop(t) PROVE InFlightBound' /\ FreesSlot'
    BY <1>1, <1>2, <1>4, <2>3 DEF ResumeAndDrop, InFlightBound, FreesSlot
  <2>4. CASE LaunchCommand
    BY <1>4, <2>4 DEF LaunchCommand, Still, Goto, TypeOK, ThreadType, Threads
  <2>5. QED
    BY <1>2, <2>1, <2>2, <2>3, <2>4, LogSteps DEF SlotsOK
<1>5. CASE LaunchThreshold
  <2>1. /\ UNCHANGED <<cmdLog, syncLog>> /\ pc[Worker] = "Threshold"
        /\ pc'[Worker] \in {"Sync", "Launch", "LaunchPaused"}
    BY <1>5 DEF LaunchThreshold, CallSync, Goto, ThreadStep, logVars, TypeOK, ThreadType, Threads
  <2>2. CASE LogFull
    <3>1. /\ pc'[Worker] = "Sync"
          /\ arg'[Worker] = IF SyncFreeingAt = {} THEN All ELSE syncLog[FirstOf(SyncFreeingAt)]
      BY <1>5, <2>2 DEF LaunchThreshold, CallSync, Goto, TypeOK, ThreadType, Threads
    <3>2. ASSUME SyncFreeingAt # {}
          PROVE  Logged(arg'[Worker]) /\ arg'[Worker] >= cmdLog[1]
      BY <3>1, <3>2, FreeingLogged
    <3>3. QED
      BY <1>2, <2>1, <3>1, <3>2 DEF SlotsOK, InFlightBound, FreesSlot, Logged
  <2>3. CASE ~LogFull
    BY <1>1, <1>2, <1>5, <2>1, <2>3 DEF LogFull, LaunchThreshold, Goto, SlotsOK,
       InFlightBound, FreesSlot, SyncLabels, TypeOK, ThreadType, Threads
  <2>4. QED
    BY <2>2, <2>3
<1>6. CASE LaunchCommand
  <2>1. Len(cmdLog') = Len(cmdLog) + 1 /\ pc'[Worker] = "Dequeue"
    BY <1>6, LaunchingIdx, AppendProperties DEF LaunchCommand, Goto, TypeOK, LogType,
       ThreadType, Threads
  <2>2. Len(cmdLog) < threshold
    BY <1>6 DEF LaunchCommand, SlotsOK, FreesSlot
  <2>3. QED
    BY <1>1, <1>2, <2>1, <2>2 DEF SlotsOK, InFlightBound, FreesSlot, SyncLabels
<1>7. CASE SyncCheck(Worker)
  <2>1. UNCHANGED <<cmdLog, hwState, ret, arg>> /\ pc[Worker] \in {"Sync", "SyncPaused"}
    BY <1>7 DEF SyncCheck, ThreadStep, logVars, cmdVars
  <2>2. CASE NothingToSync(Worker)
    <3>1. pc'[Worker] = ret[Worker] /\ ret[Worker] \in WorkerRets /\ wstate # "Terminated"
      BY <1>7, <2>1, <2>2 DEF SyncCheck, Goto, TypeOK, ThreadType, Threads, ControlOK,
         SyncLabels, SlotsOK, EndedIsExited
    <3>2. ret[Worker] = "Launch" => Len(cmdLog) < threshold
      <4>1. SUFFICES ASSUME ret[Worker] = "Launch", Len(cmdLog) = threshold PROVE FALSE
        BY <1>1 DEF SlotsOK, InFlightBound
      <4>2. arg[Worker] # All /\ Logged(arg[Worker])
        BY <1>1, <2>1, <2>2, <3>1, <4>1 DEF SlotsOK, FreesSlot, SyncLabels, NothingToSync
      <4>3. QED
        BY <2>2, <3>1, <4>2 DEF NothingToSync, Logged, LogOK, LogInFlight, InFlight, Completed
    <3>3. QED
      BY <1>2, <2>1, <3>1, <3>2 DEF SlotsOK, InFlightBound, FreesSlot, WorkerRets, SyncLabels
  <2>3. CASE ~NothingToSync(Worker)
    <3>1. pc'[Worker] \in {"SyncHw", "SyncPaused"}
      BY <1>7, <2>3 DEF SyncCheck, Goto, TypeOK, ThreadType, Threads
    <3>2. QED
      BY <1>2, <2>1, <3>1 DEF SlotsOK, InFlightBound, FreesSlot, SyncLabels, Logged
  <2>4. QED
    BY <2>2, <2>3
<1>8. CASE SyncHw(Worker)
  BY <1>2, <1>8 DEF SyncHw, Goto, ThreadStep, logVars, localVars, TypeOK, ThreadType,
     Threads, SlotsOK, InFlightBound, FreesSlot, SyncLabels, Logged
<1>9. CASE SyncRelock(Worker)
  <2>1. /\ UNCHANGED <<arg, ret>> /\ pc[Worker] = "SyncRelock"
        /\ pc'[Worker] = IF PausedMeanwhile(Worker) THEN "Sync" ELSE ret[Worker]
    BY <1>9 DEF SyncRelock, Goto, TypeOK, ThreadType, Threads
  <2>2. CASE PausedMeanwhile(Worker)
    BY <1>2, <1>9, <2>1, <2>2 DEF SyncRelock, SlotsOK, InFlightBound, FreesSlot, SyncLabels,
       Logged
  <2>3. CASE ~PausedMeanwhile(Worker)
    <3>1. Len(cmdLog') \in Nat /\ Len(cmdLog') <= Len(cmdLog)
      BY <1>3, <1>9 DEF Threads
    <3>2. ASSUME ret[Worker] = "Launch" PROVE Len(cmdLog') < threshold
      <4>1. CASE Len(cmdLog) < threshold
        BY <1>1, <3>1, <4>1
      <4>2. CASE Len(cmdLog) = threshold
        <5>1. arg[Worker] = All \/ (arg[Worker] >= cmdLog[1] /\ Len(cmdLog) > 0)
          BY <1>1, <2>1, <3>2, <4>2 DEF SlotsOK, FreesSlot, SyncLabels
        <5>2. Len(cmdLog') < Len(cmdLog) \/ Len(cmdLog') = 0
          BY <1>3, <1>9, <2>3, <5>1 DEF Threads
        <5>3. QED
          BY <1>1, <4>2, <5>2
      <4>3. QED
        BY <1>1, <4>1, <4>2 DEF SlotsOK, InFlightBound
    <3>3. ret[Worker] \in WorkerRets
      BY <2>1 DEF ControlOK, SyncLabels
    <3>4. QED
      BY <1>1, <1>2, <2>1, <2>3, <3>1, <3>2, <3>3 DEF SlotsOK, InFlightBound, FreesSlot,
         WorkerRets, SyncLabels
  <2>4. QED
    BY <2>2, <2>3
<1>10. CASE LaunchResumed
  BY <1>2, <1>10 DEF LaunchResumed, Goto, ThreadStep, logVars, TypeOK, ThreadType, Threads,
     SlotsOK, InFlightBound, FreesSlot, SyncLabels
<1>11. ASSUME UNCHANGED cmdLog, pc'[Worker] \notin {"Launch", "LaunchPaused"},
              pc'[Worker] \in SyncLabels => ret'[Worker] # "Launch"
       PROVE  SlotsOK'
  BY <1>2, <1>11 DEF SlotsOK, InFlightBound, FreesSlot
<1>12. CASE Dequeue
  BY <1>11, <1>12 DEF Dequeue, DequeueFront, DequeueIdle, DequeueGenWaitAll,
     DequeueGenBatchSync, BufferStep, Goto, logVars, TypeOK, ThreadType, Threads, SyncLabels
<1>13. CASE LaunchEnter
  BY <1>11, <1>13 DEF LaunchEnter, CallSync, ThreadStep, Goto, logVars, TypeOK, ThreadType,
     Threads, SyncLabels
<1>14. CASE LaunchDrop
  BY <1>11, <1>14 DEF LaunchDrop, Goto, logVars, TypeOK, ThreadType, Threads, SyncLabels
<1>15. CASE WaitAllEnter \/ WaitAllDone \/ BatchSyncEnter
  BY <1>11, <1>15 DEF WaitAllEnter, WaitAllDone, BatchSyncEnter, CallSync, ThreadStep,
     Goto, logVars, TypeOK, ThreadType, Threads, SyncLabels
<1>16. CASE BatchSyncDone \/ DestroyEnter \/ DestroyDone
  BY <1>11, <1>16 DEF BatchSyncDone, DestroyEnter, DestroyDone, CallSync, ThreadStep,
     Goto, logVars, TypeOK, ThreadType, Threads, SyncLabels
<1>17. QED
  BY <1>4, <1>5, <1>6, <1>7, <1>8, <1>9, <1>10, <1>12, <1>13, <1>14, <1>15, <1>16,
     WorkerStill DEF WorkerLoop, LaunchHwCommand, Sync

\* Initially the mutex is free and the logs are empty.
LEMMA InitControl ==
  ASSUME Init
  PROVE  LockHeld /\ LogOK /\ EndedIsExited /\ InFlightBound /\ FreesSlot
<1>1. LockHeld
  BY ThreadsAssumption DEF Init, LockHeld, Holders, Threads
<1>2. LogOK
  BY DEF Init, LogOK, LogInFlight, LogDistinct, SyncLogged, SyncOrdered, Found
<1>3. EndedIsExited /\ FreesSlot
  BY ThreadsAssumption DEF Init, EndedIsExited, FreesSlot, SyncLabels, Threads
<1>4. InFlightBound
  BY ConfigAssumption DEF Init, InFlightBound
<1>5. QED
  BY <1>1, <1>2, <1>3, <1>4

Base == TypeOK /\ ControlOK /\ Owned /\ LockHeld /\ LogOK /\ EndedIsExited

\* What holds of every queue: types, control state, who owns a command, the mutex
\* and the logs.
LEMMA BaseInvariant == Spec => []Base
<1>1. Init => Base
  BY InitTyped, InitOwned, InitControl DEF Base
<1>2. Base /\ [Next]_vars => Base'
  BY NextTyped, NextOwned, NextLock, NextLogs, NextEnded DEF Base
<1>3. QED
  BY <1>1, <1>2, PTL DEF Spec

\* At most threshold commands are in flight: the worker launches only when the
\* log has a free slot, although it gives up the mutex while it waits for one and
\* other threads, which pop the log too, may run in between.
THEOREM InFlightBounded == FixedLaunchConfig /\ Spec => []InFlightBound
<1>1. FixedLaunchConfig /\ Init => SlotsOK
  BY InitControl DEF SlotsOK
<1>2. Base /\ SlotsOK /\ [Next]_vars => SlotsOK'
  BY NextSlots DEF Base
<1>3. SlotsOK => InFlightBound
  BY DEF SlotsOK
<1>4. QED
  BY <1>1, <1>2, <1>3, BaseInvariant, PTL DEF Spec

-----------------------------------------------------------------------------
(* Deleting and destroying the queue *)

\* The steps that change the state of a hardware command.
LEMMA StateSteps ==
  ASSUME [Next]_vars
  PROVE  \/ UNCHANGED hwState
         \/ \E t \in Threads : SyncRelock(t)
         \/ LaunchDrop \/ LaunchCommand
         \/ \E t \in Clients : SubmitEnqueue(t) \/ DropAll(t) \/ ResumeAndDrop(t)
<1>1. CASE UNCHANGED vars
  BY <1>1 DEF vars, cmdVars
<1>2. CASE HwRetire
  BY <1>2 DEF HwRetire, cmdVars
<1>3. ASSUME NEW t \in Threads, SyncCheck(t) \/ SyncHw(t) PROVE UNCHANGED hwState
  BY <1>3 DEF SyncCheck, SyncHw, ThreadStep, cmdVars
<1>4. CASE Dequeue
  BY <1>4 DEF Dequeue, BufferStep, cmdVars, DequeueFront, DequeueIdle, DequeueGenWaitAll,
    DequeueGenBatchSync
<1>5. CASE LaunchEnter \/ LaunchThreshold \/ LaunchResumed
  BY <1>5 DEF LaunchEnter, LaunchThreshold, LaunchResumed, ThreadStep, cmdVars
<1>6. CASE \/ WaitAllEnter \/ WaitAllDone \/ BatchSyncEnter \/ BatchSyncDone
          \/ DestroyEnter \/ DestroyDone
  BY <1>6 DEF WaitAllEnter, WaitAllDone, BatchSyncEnter, BatchSyncDone, DestroyEnter,
    DestroyDone, ThreadStep, cmdVars
<1>7. ASSUME NEW t \in Clients, Call(t) PROVE UNCHANGED hwState
  BY <1>7 DEF Call, SubmitIdx, WaitAllCall, WaitCall, SuspendCall, ResumeCall,
    ConfigureCall, DelCall, BeginWaitAll, BufferStep, ThreadStep, BeginResume, cmdVars
<1>8. ASSUME NEW t \in Clients, \/ SuspendMark(t) \/ Pause(t) \/ Deactivate(t)
             \/ SuspendSync(t)
      PROVE  UNCHANGED hwState
  BY <1>8 DEF SuspendMark, Pause, Deactivate, SuspendSync, ThreadStep, cmdVars
<1>9. ASSUME NEW t \in Clients, \/ ResumeMark(t) \/ Reactivate(t) \/ RelaunchNext(t)
             \/ RelaunchEnd(t) \/ ResumeWorker(t) \/ DropIdx(t)
      PROVE  UNCHANGED hwState
  BY <1>9 DEF ResumeMark, Reactivate, RelaunchNext, RelaunchEnd, ResumeWorker, DropIdx,
    ThreadStep, cmdVars
<1>10. ASSUME NEW t \in Clients, \/ SubmitReturn(t) \/ WaitAllReturn(t) \/ WaitInFlight(t)
             \/ WaitReturn(t)
      PROVE  UNCHANGED hwState
  BY <1>10 DEF SubmitReturn, WaitAllReturn, WaitInFlight, WaitReturn, ThreadStep,
    BufferStep, cmdVars
<1>11. ASSUME NEW t \in Clients, \/ Configure(t) \/ DelWaitAll(t) \/ Dtor(t)
             \/ DtorEnqueue(t) \/ DtorReturn(t)
      PROVE  UNCHANGED hwState
  BY <1>11 DEF Configure, DelWaitAll, Dtor, DtorEnqueue, DtorReturn, BeginWaitAll,
    BufferStep, BeginResume, ThreadStep, cmdVars
<1>12. QED
  BY <1>1, <1>2, <1>3, <1>4, <1>5, <1>6, <1>7, <1>8, <1>9, <1>10, <1>11
  DEF Next, WorkerLoop, LaunchHwCommand, Call, Continue, Sync, Suspend, Resume, Threads

\* The steps that change the buffer.
LEMMA BufferSteps ==
  ASSUME [Next]_vars
  PROVE  \/ UNCHANGED cmds
         \/ DequeueFront
         \/ \E t \in Clients : \/ WaitAllCall(t) \/ ConfigureCall(t) \/ SubmitEnqueue(t)
                                \/ DropAll(t) \/ DelWaitAll(t) \/ DtorEnqueue(t)
<1>1. CASE UNCHANGED vars
  BY <1>1 DEF vars, bufVars
<1>2. CASE HwRetire
  BY <1>2 DEF HwRetire, bufVars
<1>3. ASSUME NEW t \in Threads, SyncCheck(t) \/ SyncHw(t) \/ SyncRelock(t)
      PROVE  UNCHANGED cmds
  BY <1>3 DEF SyncCheck, SyncHw, SyncRelock, ThreadStep, bufVars
<1>4. CASE Dequeue /\ ~DequeueFront
  BY <1>4 DEF Dequeue, DequeueIdle, DequeueGenWaitAll, DequeueGenBatchSync
<1>5. CASE LaunchEnter \/ LaunchThreshold \/ LaunchResumed \/ LaunchDrop \/ LaunchCommand
  BY <1>5 DEF LaunchEnter, LaunchThreshold, LaunchResumed, LaunchDrop, LaunchCommand,
    ThreadStep, bufVars
<1>6. CASE \/ WaitAllEnter \/ WaitAllDone \/ BatchSyncEnter \/ BatchSyncDone
          \/ DestroyEnter \/ DestroyDone
  BY <1>6 DEF WaitAllEnter, WaitAllDone, BatchSyncEnter, BatchSyncDone, DestroyEnter,
    DestroyDone, ThreadStep, bufVars
<1>7. ASSUME NEW t \in Clients, \/ SubmitIdx(t) \/ WaitCall(t) \/ SuspendCall(t)
             \/ ResumeCall(t) \/ DelCall(t)
      PROVE  UNCHANGED cmds
  BY <1>7 DEF SubmitIdx, WaitCall, SuspendCall, ResumeCall, DelCall, ThreadStep,
    BeginResume, bufVars
<1>8. ASSUME NEW t \in Clients, \/ SuspendMark(t) \/ Pause(t) \/ Deactivate(t)
             \/ SuspendSync(t)
      PROVE  UNCHANGED cmds
  BY <1>8 DEF SuspendMark, Pause, Deactivate, SuspendSync, ThreadStep, bufVars
<1>9. ASSUME NEW t \in Clients, \/ ResumeMark(t) \/ Reactivate(t) \/ RelaunchNext(t)
             \/ RelaunchEnd(t) \/ ResumeWorker(t) \/ DropIdx(t) \/ ResumeAndDrop(t)
      PROVE  UNCHANGED cmds
  BY <1>9 DEF ResumeMark, Reactivate, RelaunchNext, RelaunchEnd, ResumeWorker, DropIdx,
    ResumeAndDrop, ThreadStep, bufVars
<1>10. ASSUME NEW t \in Clients, \/ SubmitReturn(t) \/ WaitAllReturn(t) \/ WaitInFlight(t)
             \/ WaitReturn(t)
      PROVE  UNCHANGED cmds
  BY <1>10 DEF SubmitReturn, WaitAllReturn, WaitInFlight, WaitReturn, ThreadStep, bufVars
<1>11. ASSUME NEW t \in Clients, \/ Configure(t) \/ Dtor(t) \/ DtorReturn(t)
      PROVE  UNCHANGED cmds
  BY <1>11 DEF Configure, Dtor, DtorReturn, BeginResume, ThreadStep, bufVars
<1>12. QED
  BY <1>1, <1>2, <1>3, <1>4, <1>5, <1>6, <1>7, <1>8, <1>9, <1>10, <1>11
  DEF Next, WorkerLoop, Dequeue, LaunchHwCommand, Call, Continue, Sync,
    Suspend, Resume, Threads

\* A call finds the queue in the manager; the other steps of a client belong to
\* a call that has begun.
LEMMA CallGuard ==
  ASSUME NEW t \in Clients
  PROVE  /\ Call(t) => registered /\ pc[t] = "Idle"
         /\ Continue(t) => pc[t] \notin {"Idle", "Destroyed"}
<1>1. Call(t) => registered /\ pc[t] = "Idle"
  BY DEF Call, MayCall, SubmitIdx, WaitAllCall, WaitCall, SuspendCall, ResumeCall,
     ConfigureCall, DelCall
<1>2. Continue(t) => pc[t] \notin {"Idle", "Destroyed"}
  BY DEF Continue, Sync, Suspend, Resume, SubmitEnqueue, SubmitReturn, WaitAllReturn,
     WaitInFlight, SyncCheck, SyncHw, SyncRelock, WaitReturn, SuspendMark, Pause,
     Deactivate, SuspendSync, ResumeMark, Reactivate, RelaunchNext, RelaunchEnd,
     ResumeWorker, DropAll, DropIdx, ResumeAndDrop, Configure, DelWaitAll, Dtor,
     DtorEnqueue, DtorReturn
<1>3. QED
  BY <1>1, <1>2

\* How a client gets to delete, to destroy and to control the queue.
Enters(t) ==
  /\ InDtor(t)' => InDtor(t) \/ Dtor(t)
  /\ Deleting(t)' => Deleting(t) \/ DelCall(t)
  /\ Controlling(t)' => \/ Controlling(t) \/ SuspendCall(t) \/ ResumeCall(t) \/ DelCall(t)
  /\ pc[t] = "DtorWait" => pc'[t] = "Destroyed"
  /\ pc'[t] \in {"DtorWait", "Destroyed"} => pc[t] = "DtorWait" \/ DtorEnqueue(t)

\* Every step of a client follows that way.
LEMMA ClientEnters ==
  ASSUME TypeOK, ControlOK, NEW t \in Clients, Call(t) \/ Continue(t)
  PROVE  Enters(t)
<1>1. CASE SubmitIdx(t) \/ WaitCall(t) \/ SuspendCall(t)
  BY <1>1 DEF SubmitIdx, WaitCall, SuspendCall, Goto, MayCall, TypeOK, ThreadType,
    Threads, Enters, InDtor, Deleting, Controlling, ResumeLabels, SyncLabels
<1>2. CASE ResumeCall(t) \/ DelCall(t)
  BY <1>2 DEF ResumeCall, DelCall, BeginResume, Goto, MayCall, TypeOK, ThreadType,
    Threads, Enters, InDtor, Deleting, Controlling, ResumeLabels, SyncLabels
<1>3. CASE WaitAllCall(t) \/ ConfigureCall(t)
  BY <1>3 DEF WaitAllCall, ConfigureCall, BeginWaitAll, Goto, MayCall, TypeOK,
    ThreadType, Threads, Enters, InDtor, Deleting, Controlling, ResumeLabels, SyncLabels
<1>4. CASE SubmitEnqueue(t) \/ SubmitReturn(t) \/ WaitInFlight(t) \/ WaitReturn(t)
  BY <1>4 DEF SubmitEnqueue, SubmitReturn, WaitInFlight, WaitReturn, Goto, CallSync,
    TypeOK, ThreadType, Threads, Enters, InDtor, Deleting, Controlling, ResumeLabels,
    SyncLabels
<1>5. CASE WaitAllReturn(t)
  BY <1>5 DEF WaitAllReturn, Goto, ControlOK, ClientControl, TypeOK, ThreadType,
    Threads, Enters, InDtor, Deleting, Controlling, ResumeLabels, SyncLabels
<1>6. CASE SyncCheck(t) \/ SyncHw(t) \/ SyncRelock(t)
  BY <1>6 DEF SyncCheck, SyncHw, SyncRelock, Goto, localVars, ControlOK, ClientControl,
    TypeOK, ThreadType, Threads, Enters, InDtor, Deleting, Controlling, ResumeLabels,
    SyncLabels
<1>7. CASE SuspendMark(t) \/ Pause(t) \/ Deactivate(t) \/ SuspendSync(t)
  BY <1>7 DEF SuspendMark, Pause, Deactivate, SuspendSync, Goto, localVars, TypeOK,
    ThreadType, Threads, Enters, InDtor, Deleting, Controlling, ResumeLabels, SyncLabels
<1>8. CASE ResumeMark(t) \/ ResumeWorker(t)
  BY <1>8 DEF ResumeMark, ResumeWorker, Goto, localVars, ControlOK, ClientControl,
    TypeOK, ThreadType, Threads, Enters, InDtor, Deleting, Controlling, ResumeLabels,
    SyncLabels
<1>9. CASE Reactivate(t) \/ RelaunchNext(t) \/ RelaunchEnd(t)
  BY <1>9 DEF Reactivate, RelaunchNext, RelaunchEnd, Goto, TypeOK, ThreadType, Threads,
    Enters, InDtor, Deleting, Controlling, ResumeLabels, SyncLabels
<1>10. CASE DropAll(t) \/ DropIdx(t)
  BY <1>10 DEF DropAll, DropIdx, Goto, localVars, TypeOK, ThreadType, Threads, Enters,
    InDtor, Deleting, Controlling, ResumeLabels, SyncLabels
<1>11. CASE ResumeAndDrop(t)
  BY <1>11 DEF ResumeAndDrop, Goto, ControlOK, ClientControl, TypeOK, ThreadType,
    Threads, Enters, InDtor, Deleting, Controlling, ResumeLabels, SyncLabels
<1>12. CASE Configure(t) \/ DelWaitAll(t) \/ Dtor(t)
  BY <1>12 DEF Configure, DelWaitAll, Dtor, Goto, BeginWaitAll, BeginResume, localVars,
    TypeOK, ThreadType, Threads, Enters, InDtor, Deleting, Controlling, ResumeLabels,
    SyncLabels
<1>13. CASE DtorEnqueue(t) \/ DtorReturn(t)
  BY <1>13 DEF DtorEnqueue, DtorReturn, Goto, localVars, TypeOK, ThreadType, Threads,
    Enters, InDtor, Deleting, Controlling, ResumeLabels, SyncLabels
<1>14. QED
  BY <1>1, <1>2, <1>3, <1>4, <1>5, <1>6, <1>7, <1>8, <1>9, <1>10, <1>11, <1>12, <1>13
  DEF Call, Continue, Sync, Suspend, Resume

\* While the queue is deleted it is not in the manager.
LEMMA NextDeleting ==
  ASSUME Base, DelAlone, [Next]_vars
  PROVE  DelAlone'
<1>1. registered' => registered
  BY DestroySteps DEF Dtor, DelCall
<1>2. ASSUME NEW t \in Clients, Deleting(t)' PROVE ~registered'
  <2>1. CASE Still(t)
    BY <1>1, <1>2, <2>1 DEF Still, Deleting, DelAlone
  <2>2. CASE Call(t) \/ Continue(t)
    BY <1>1, <1>2, <2>2, ClientEnters DEF Base, Enters, DelAlone, DelCall
  <2>3. QED
    BY <2>1, <2>2, ThreadSteps, ThreadsAssumption DEF Base, Moves, Threads
<1>3. QED
  BY <1>2 DEF DelAlone

\* What the destructor found when it began stays so.
LEMMA DrainedKept ==
  ASSUME Base, NEW t \in Clients, InDtor(t), Drained(t), [Next]_vars
  PROVE  Drained(t)'
<1>1. ASSUME NEW u \in Clients PROVE ~Dtor(u) /\ ~DelCall(u)
  BY DEF Drained, InDtor, Dtor, DelCall, MayCall, ResumeLabels
<1>2. UNCHANGED <<terminated, registered>>
  BY <1>1, DestroySteps
<1>3. ASSUME NEW u \in Clients \ {t} PROVE pc'[u] = "Idle"
  <2>1. ~Call(u) /\ ~Continue(u)
    BY CallGuard DEF Drained
  <2>2. Still(u)
    BY <2>1, ThreadSteps, ThreadsAssumption DEF Base, Moves, Threads
  <2>3. QED
    BY <2>2 DEF Drained, Still
<1>4. ASSUME NEW c \in Idx PROVE hwState'[c] \in {Created, Completed}
  <2>1. ASSUME NEW u \in Clients PROVE ~SubmitEnqueue(u)
    BY DEF Drained, InDtor, SubmitEnqueue, ResumeLabels
  <2>2. ~LaunchCommand
    BY LaunchingIdx DEF Base, LaunchCommand, ControlOK, Launching, Owned, WorkerOwned, Holding,
       StatePending, Drained, Created, Pending, Completed
  <2>3. hwState' = hwState \/ \E S : Complete(S)
    BY <2>1, <2>2, StateSteps DEF SyncRelock, LaunchDrop, DropAll, ResumeAndDrop
  <2>4. QED
    BY <2>3 DEF Drained, Complete
<1>5. QED
  BY <1>2, <1>3, <1>4 DEF Drained

\* The destructor runs alone.
LEMMA NextDtorAlone ==
  ASSUME Base, DelAlone, DtorAlone, [Next]_vars
  PROVE  DtorAlone'
<1>1. ASSUME NEW t \in Clients, InDtor(t)' PROVE Drained(t)'
  <2>1. CASE InDtor(t)
    BY <2>1, DrainedKept DEF DtorAlone
  <2>2. CASE ~InDtor(t) /\ Dtor(t)
    <3>1. ~registered /\ UNCHANGED <<registered, hwState>> /\ terminated'
      BY <2>2 DEF Dtor, BeginResume, BufferStep, cmdVars, DelAlone, Deleting
    <3>2. \A c \in Idx : hwState[c] \in {Created, Completed}
      BY <2>2, StateOrder DEF Dtor, Submitted, Base, TypeOK, CommandType, CommandState,
         Created, Pending, Completed
    <3>3. ASSUME NEW u \in Clients \ {t} PROVE pc'[u] = "Idle"
      BY <2>2, ThreadsAssumption DEF Dtor, BeginResume, Goto, Base, TypeOK, ThreadType, Threads
    <3>4. QED
      BY <3>1, <3>2, <3>3 DEF Drained
  <2>3. CASE ~InDtor(t) /\ Still(t)
    BY <1>1, <2>3 DEF InDtor, Still
  <2>4. CASE ~InDtor(t) /\ ~Dtor(t) /\ (Call(t) \/ Continue(t))
    BY <1>1, <2>4, ClientEnters DEF Base, Enters
  <2>5. QED
    BY <2>1, <2>2, <2>3, <2>4, ThreadSteps, ThreadsAssumption DEF Base, Moves, Threads
<1>2. QED
  BY <1>1 DEF DtorAlone

\* The destructor, once it waits for the worker, is not left again.
LEMMA NextUnderWay ==
  ASSUME Base, DestroyUnderWay, [Next]_vars
  PROVE  DestroyUnderWay'
<1>1. PICK t \in Clients : pc[t] \in {"DtorWait", "Destroyed"}
  BY DEF DestroyUnderWay
<1>2. CASE Still(t)
  BY <1>1, <1>2 DEF Still, DestroyUnderWay
<1>3. CASE Call(t) \/ Continue(t)
  BY <1>1, <1>3, ClientEnters, CallGuard DEF Base, Enters, DestroyUnderWay
<1>4. QED
  BY <1>2, <1>3, ThreadSteps, ThreadsAssumption DEF Base, Moves, Threads

\* The steps that give the worker another command.
LEMMA DequeuedSteps ==
  ASSUME [Next]_vars
  PROVE  \/ UNCHANGED cur
         \/ DequeueFront \/ DequeueGenWaitAll \/ DequeueGenBatchSync
<1>1. CASE UNCHANGED vars
  BY <1>1 DEF vars
<1>2. CASE HwRetire
  BY <1>2 DEF HwRetire
<1>3. ASSUME NEW t \in Threads, SyncCheck(t) \/ SyncHw(t) \/ SyncRelock(t)
      PROVE  UNCHANGED cur
  BY <1>3 DEF SyncCheck, SyncHw, SyncRelock
<1>4. CASE Dequeue /\ ~DequeueFront /\ ~DequeueGenWaitAll /\ ~DequeueGenBatchSync
  BY <1>4 DEF Dequeue, DequeueIdle
<1>5. CASE LaunchEnter \/ LaunchThreshold \/ LaunchResumed \/ LaunchDrop \/ LaunchCommand
  BY <1>5 DEF LaunchEnter, LaunchThreshold, LaunchResumed, LaunchDrop, LaunchCommand
<1>6. CASE \/ WaitAllEnter \/ WaitAllDone \/ BatchSyncEnter \/ BatchSyncDone
          \/ DestroyEnter \/ DestroyDone
  BY <1>6 DEF WaitAllEnter, WaitAllDone, BatchSyncEnter, BatchSyncDone, DestroyEnter,
    DestroyDone
<1>7. ASSUME NEW t \in Clients, Call(t) PROVE UNCHANGED cur
  BY <1>7 DEF Call, SubmitIdx, WaitAllCall, WaitCall, SuspendCall, ResumeCall,
    ConfigureCall, DelCall, BeginWaitAll, BeginResume
<1>8. ASSUME NEW t \in Clients, \/ SuspendMark(t) \/ Pause(t) \/ Deactivate(t)
             \/ SuspendSync(t)
      PROVE  UNCHANGED cur
  BY <1>8 DEF SuspendMark, Pause, Deactivate, SuspendSync
<1>9. ASSUME NEW t \in Clients, \/ ResumeMark(t) \/ Reactivate(t) \/ RelaunchNext(t)
             \/ RelaunchEnd(t) \/ ResumeWorker(t) \/ DropAll(t) \/ DropIdx(t)
             \/ ResumeAndDrop(t)
      PROVE  UNCHANGED cur
  BY <1>9 DEF ResumeMark, Reactivate, RelaunchNext, RelaunchEnd, ResumeWorker, DropAll,
    DropIdx, ResumeAndDrop
<1>10. ASSUME NEW t \in Clients, \/ SubmitEnqueue(t) \/ SubmitReturn(t) \/ WaitAllReturn(t)
             \/ WaitInFlight(t) \/ WaitReturn(t)
      PROVE  UNCHANGED cur
  BY <1>10 DEF SubmitEnqueue, SubmitReturn, WaitAllReturn, WaitInFlight, WaitReturn
<1>11. ASSUME NEW t \in Clients, \/ Configure(t) \/ DelWaitAll(t) \/ Dtor(t)
             \/ DtorEnqueue(t) \/ DtorReturn(t)
      PROVE  UNCHANGED cur
  BY <1>11 DEF Configure, DelWaitAll, Dtor, DtorEnqueue, DtorReturn, BeginWaitAll,
    BeginResume
<1>12. QED
  BY <1>1, <1>2, <1>3, <1>4, <1>5, <1>6, <1>7, <1>8, <1>9, <1>10, <1>11
  DEF Next, WorkerLoop, Dequeue, LaunchHwCommand, Call, Continue, Sync,
    Suspend, Resume, Threads

\* Only the destructor enqueues a destroy command.
LEMMA DestroyEnqueued ==
  ASSUME TypeOK, ControlOK, [Next]_vars, HasDestroy'
  PROVE  HasDestroy \/ \E t \in Clients : DtorEnqueue(t)
<1>1. ASSUME UNCHANGED cmds PROVE HasDestroy
  BY <1>1 DEF HasDestroy
<1>2. ASSUME NEW c \in XCommand, c.type # "Destroy", cmds' = Append(cmds, c)
      PROVE  HasDestroy
  BY <1>2, AppendProperties, LenProperties DEF HasDestroy, TypeOK, BufferType
<1>3. CASE DequeueFront
  <2>1. cmds' = Tail(cmds) /\ cmds # <<>> /\ cmds \in Seq(XCommand)
    BY <1>3 DEF DequeueFront, TypeOK, BufferType
  <2>2. Len(cmds') = Len(cmds) - 1 /\ \A j \in 1..Len(cmds') : cmds'[j] = cmds[j + 1]
    BY <2>1, HeadTailProperties
  <2>3. QED
    BY <2>1, <2>2, LenProperties DEF HasDestroy
<1>4. ASSUME NEW t \in Clients, NEW label, BeginWaitAll(t, label) PROVE HasDestroy
  <2>1. WaitAllCmd(waCount) \in XCommand /\ WaitAllCmd(waCount).type # "Destroy"
    BY CommandsMade DEF TypeOK, BufferType, WaitAllCmd
  <2>2. QED
    BY <1>1, <1>2, <1>4, <2>1 DEF BeginWaitAll, EnqueueWaitAll, bufVars
<1>5. ASSUME NEW t \in Clients, SubmitEnqueue(t) PROVE HasDestroy
  <2>1. Hardware(arg[t]) \in XCommand /\ Hardware(arg[t]).type # "Destroy"
    BY <1>5, CommandsMade DEF SubmitEnqueue, ControlOK, ClientControl, Hardware
  <2>2. QED
    BY <1>2, <1>5, <2>1 DEF SubmitEnqueue, Enqueue
<1>6. ASSUME NEW t \in Clients, DropAll(t) PROVE FALSE
  BY <1>6 DEF DropAll, ClearBuffer, HasDestroy
<1>7. QED
  BY <1>1, <1>3, <1>4, <1>5, <1>6, BufferSteps DEF WaitAllCall, ConfigureCall, DelWaitAll

\* The worker only executes a destroy command that the destructor enqueued, and
\* ends only then.
LEMMA NextDestroyOnce ==
  ASSUME Base, DestroyOnce, [Next]_vars
  PROVE  DestroyOnce'
<1>1. SUFFICES ASSUME HasDestroy' \/ cur'.type = "Destroy" \/ WorkerDestroys'
               PROVE  HasDestroy \/ cur.type = "Destroy" \/ WorkerDestroys
                        \/ \E t \in Clients : DtorEnqueue(t)
  <2>1. ASSUME NEW t \in Clients, DtorEnqueue(t) PROVE DestroyUnderWay'
    BY <2>1 DEF DtorEnqueue, Goto, DestroyUnderWay, Base, TypeOK, ThreadType, Threads
  <2>2. QED
    BY <2>1, NextUnderWay DEF DestroyOnce
<1>2. CASE HasDestroy'
  BY <1>2, DestroyEnqueued DEF Base
<1>3. CASE cur'.type = "Destroy"
  <2>1. CASE DequeueFront
    <3>1. cmds # <<>> /\ cur' = cmds[1] /\ Len(cmds) > 0 /\ Len(cmds) \in Nat
      BY <2>1, HeadTailProperties, LenProperties, EmptySeq
      DEF DequeueFront, Base, TypeOK, BufferType
    <3>2. QED
      BY <1>3, <3>1 DEF HasDestroy
  <2>2. CASE DequeueGenWaitAll \/ DequeueGenBatchSync
    BY <1>3, <2>2 DEF DequeueGenWaitAll, DequeueGenBatchSync, WaitAllCmd, BatchSync
  <2>3. QED
    BY <1>3, <2>1, <2>2, DequeuedSteps
<1>4. CASE WorkerDestroys'
  <2>1. CASE Still(Worker)
    BY <1>4, <2>1 DEF Still, WorkerDestroys
  <2>2. CASE Dequeue
    BY <1>4, <2>2 DEF Dequeue, DequeueFront, DequeueIdle, DequeueGenWaitAll,
      DequeueGenBatchSync, Goto, WorkerDestroys, SyncLabels, Base, TypeOK, ThreadType,
      Threads
  <2>3. CASE Sync(Worker)
    BY <1>4, <2>3 DEF Sync, SyncCheck, SyncHw, SyncRelock, Goto, localVars,
      WorkerDestroys, SyncLabels, WorkerRets, Base, TypeOK, ThreadType, Threads,
      ControlOK
  <2>4. CASE LaunchHwCommand
    BY <1>4, <2>4 DEF LaunchHwCommand, LaunchEnter, LaunchThreshold, LaunchResumed,
      LaunchDrop, LaunchCommand, Goto, CallSync, localVars, WorkerDestroys, SyncLabels,
      Base, TypeOK, ThreadType, Threads
  <2>5. CASE WaitAllEnter \/ WaitAllDone \/ BatchSyncEnter \/ BatchSyncDone
    BY <1>4, <2>5 DEF WaitAllEnter, WaitAllDone, BatchSyncEnter, BatchSyncDone,
      CallSync, Goto, localVars, WorkerDestroys, SyncLabels, Base, TypeOK, ThreadType,
      Threads
  <2>6. CASE DestroyEnter \/ DestroyDone
    BY <2>6 DEF DestroyEnter, DestroyDone, WorkerDestroys
  <2>7. QED
    BY <2>1, <2>2, <2>3, <2>4, <2>5, <2>6, WorkerStill DEF Base, WorkerLoop
<1>5. QED
  BY <1>1, <1>2, <1>3, <1>4

\* Deleting the queue and destroying it, for any number of threads.
LEMMA DestroyInvariant == Spec => [](Base /\ DestroyOK)
<1>1. Init => DestroyOK
  BY ThreadsAssumption DEF Init, DestroyOK, DelAlone, Deleting, DtorAlone, InDtor, ResumeLabels,
     DestroyOnce, HasDestroy, WorkerDestroys, SyncLabels, WaitAllCmd, Threads
<1>2. Base /\ DestroyOK /\ [Next]_vars => DestroyOK'
  BY NextDeleting, NextDtorAlone, NextDestroyOnce DEF DestroyOK
<1>3. QED
  BY <1>1, <1>2, BaseInvariant, PTL DEF Spec

\* While a client is in the middle of a call, the worker has not ended.
LEMMA NotEnded ==
  ASSUME Base, DestroyOK, NEW t \in Clients, pc[t] \notin {"Idle", "DtorWait", "Destroyed"}
  PROVE  wstate # "Terminated"
<1>1. SUFFICES ASSUME wstate = "Terminated" PROVE FALSE
  OBVIOUS
<1>2. PICK u \in Clients : pc[u] \in {"DtorWait", "Destroyed"}
  BY <1>1 DEF Base, EndedIsExited, DestroyOK, DestroyOnce, WorkerDestroys, DestroyUnderWay
<1>3. QED
  BY <1>2 DEF DestroyOK, DtorAlone, InDtor, Drained

-----------------------------------------------------------------------------
(* A suspended queue is paused *)

\* Only threads that suspend, resume or destroy the queue get there.
LEMMA NextRoles ==
  ASSUME Base, RolesKept, [Next]_vars
  PROVE  RolesKept'
<1>1. ASSUME NEW t \in Clients, Controlling(t)' PROVE t \in Controllers
  <2>1. CASE Still(t)
    BY <1>1, <2>1 DEF Still, Controlling, RolesKept
  <2>2. CASE Call(t) \/ Continue(t)
    BY <1>1, <2>2, ClientEnters DEF Base, Enters, RolesKept, SuspendCall, ResumeCall, DelCall,
       MayCall, Controllers
  <2>3. QED
    BY <2>1, <2>2, ThreadSteps, ThreadsAssumption DEF Base, Moves, Threads
<1>2. QED
  BY <1>1 DEF RolesKept

\* The phase of the only thread that controls the queue decides; a step of it has
\* to find the queue in the phase before.
LEMMA SwitchFrame ==
  ASSUME OneController, RolesKept', NEW t \in Clients \cap Controllers, PhaseOK(t)',
         ~Switching(t)' => (suspended' <=> wstate' = "Paused")
  PROVE  PhasesOK' /\ SuspendedMeansPaused'
<1>1. ASSUME NEW u \in Clients, u # t PROVE ~Controlling(u)'
  BY <1>1 DEF OneController, RolesKept
<1>2. ASSUME NEW u \in Clients, u # t PROVE PhaseOK(u)' /\ ~Switching(u)'
  BY <1>1, <1>2 DEF PhaseOK, Switching, Controlling, ResumeLabels
<1>3. QED
  BY <1>2 DEF PhasesOK, SuspendedMeansPaused

\* While the controlling thread is not in a switch, nobody is.
LEMMA SwitchNow ==
  ASSUME SwitchOK, NEW t \in Clients, Controlling(t), ~Switching(t)
  PROVE  suspended <=> wstate = "Paused"
<1>1. ASSUME NEW u \in Clients PROVE ~Switching(u)
  BY DEF SwitchOK, OneController, RolesKept, Controlling, Switching, ResumeLabels
<1>2. QED
  BY <1>1 DEF SwitchOK, SuspendedMeansPaused

\* A step of a suspend or a resume.
LEMMA SwitchStep ==
  ASSUME Base, DestroyOK, SwitchOK, RolesKept', NEW t \in Clients,
         Suspend(t) \/ Resume(t) \/ DtorEnqueue(t)
  PROVE  PhasesOK' /\ SuspendedMeansPaused'
<1>1. Controlling(t) /\ t \in Clients \cap Controllers /\ PhaseOK(t) /\ OneController
  BY DEF Suspend, Resume, SuspendMark, Pause, Deactivate, SuspendSync, ResumeMark,
     Reactivate, RelaunchNext, RelaunchEnd, ResumeWorker, DropAll, DropIdx,
     ResumeAndDrop, DtorEnqueue, Controlling, ResumeLabels, SwitchOK, RolesKept,
     PhasesOK
<1>2. SUFFICES PhaseOK(t)' /\ (~Switching(t)' => (suspended' <=> wstate' = "Paused"))
  BY <1>1, SwitchFrame
<1>3. ~Switching(t) => (suspended <=> wstate = "Paused")
  BY <1>1, SwitchNow
<1>4. CASE SuspendMark(t)
  <2>1. pc[t] = "Suspend" /\ wstate \in {"Running", "Paused"}
    BY <1>4, NotEnded DEF SuspendMark, Base, TypeOK, PauseType
  <2>2. QED
    BY <1>3, <1>4, <2>1 DEF SuspendMark, Goto, pauseVars, Base, TypeOK, ThreadType,
      Threads, PhaseOK, Switching, ResumeLabels
<1>5. CASE Pause(t) \/ Deactivate(t) \/ SuspendSync(t)
  BY <1>1, <1>5 DEF Pause, Deactivate, SuspendSync, Goto, ThreadStep, queueVars,
    pauseVars, Base, TypeOK, ThreadType, Threads, PhaseOK, Switching, ResumeLabels
<1>6. CASE ResumeMark(t)
  BY <1>3, <1>6 DEF ResumeMark, Goto, pauseVars, Base, TypeOK, ThreadType, Threads,
    PhaseOK, Switching, ControlOK, ClientControl, SyncLabels, ResumeLabels
<1>7. CASE Reactivate(t) \/ RelaunchNext(t) \/ RelaunchEnd(t) \/ DropAll(t) \/ DropIdx(t)
  BY <1>1, <1>7 DEF Reactivate, RelaunchNext, RelaunchEnd, DropAll, DropIdx, Goto,
    ThreadStep, pauseVars, queueVars, Base, TypeOK, ThreadType, Threads, PhaseOK,
    Switching, ResumeLabels
<1>8. CASE ResumeWorker(t) \/ ResumeAndDrop(t)
  <2>1. ~suspended' /\ wstate' = "Running"
    BY <1>1, <1>8 DEF ResumeWorker, ResumeAndDrop, WakeWorker, queueVars, PhaseOK,
      ResumeLabels
  <2>2. pc'[t] = ret[t] /\ ret[t] \in {"Idle", "DelWaitAll", "DtorEnqueue"}
    BY <1>8 DEF ResumeWorker, ResumeAndDrop, Goto, Base, TypeOK, ThreadType, Threads,
      ControlOK, ClientControl, SyncLabels, ResumeLabels
  <2>3. QED
    BY <2>1, <2>2 DEF PhaseOK, Switching, ResumeLabels
<1>9. CASE DtorEnqueue(t)
  BY <1>1, <1>3, <1>9 DEF DtorEnqueue, Goto, BufferStep, pauseVars, Base, TypeOK,
    ThreadType, Threads, PhaseOK, Switching, ControlOK, ClientControl, SyncLabels,
    ResumeLabels
<1>10. QED
  BY <1>4, <1>5, <1>6, <1>7, <1>8, <1>9 DEF Suspend, Resume

\* The other steps of a client neither begin nor end a switch.
LEMMA SwitchKept ==
  ASSUME Base, NEW t \in Clients, Call(t) \/ Continue(t),
         ~Suspend(t), ~Resume(t), ~DtorEnqueue(t)
  PROVE  /\ ~Switching(t) /\ ~Switching(t)'
         /\ pc'[t] \in {"DtorEnqueue", "DtorWait", "Destroyed"} => pc[t] = "DtorWait"
<1>1. CASE SubmitIdx(t) \/ WaitCall(t) \/ SuspendCall(t)
  BY <1>1 DEF SubmitIdx, WaitCall, SuspendCall, Goto, MayCall, Base, TypeOK, ThreadType,
    Threads, Switching
<1>2. CASE ResumeCall(t) \/ DelCall(t)
  BY <1>2 DEF ResumeCall, DelCall, BeginResume, Goto, MayCall, Base, TypeOK, ThreadType,
    Threads, Switching
<1>3. CASE WaitAllCall(t) \/ ConfigureCall(t)
  BY <1>3 DEF WaitAllCall, ConfigureCall, BeginWaitAll, Goto, MayCall, Base, TypeOK,
    ThreadType, Threads, Switching
<1>4. CASE SubmitEnqueue(t) \/ SubmitReturn(t) \/ WaitInFlight(t) \/ WaitReturn(t)
  BY <1>4 DEF SubmitEnqueue, SubmitReturn, WaitInFlight, WaitReturn, Goto, CallSync,
    Base, TypeOK, ThreadType, Threads, Switching
<1>5. CASE WaitAllReturn(t)
  BY <1>5 DEF WaitAllReturn, Goto, ControlOK, ClientControl, SyncLabels, ResumeLabels,
    Base, TypeOK, ThreadType, Threads, Switching
<1>6. CASE SyncCheck(t) \/ SyncHw(t) \/ SyncRelock(t)
  BY <1>6 DEF SyncCheck, SyncHw, SyncRelock, Goto, ControlOK, ClientControl, SyncLabels,
    ResumeLabels, Base, TypeOK, ThreadType, Threads, Switching
<1>7. CASE Configure(t) \/ DelWaitAll(t) \/ Dtor(t) \/ DtorReturn(t)
  BY <1>7 DEF Configure, DelWaitAll, Dtor, DtorReturn, Goto, BeginWaitAll, BeginResume,
    Base, TypeOK, ThreadType, Threads, Switching
<1>8. QED
  BY <1>1, <1>2, <1>3, <1>4, <1>5, <1>6, <1>7 DEF Call, Continue, Sync

\* A suspended queue stays paused, whatever the worker, the application and the
\* one controlling thread do.
LEMMA NextSwitch ==
  ASSUME Base, DestroyOK, SwitchOK, [Next]_vars
  PROVE  SwitchOK'
<1>1. OneController' /\ RolesKept'
  BY NextRoles DEF SwitchOK, OneController, Controllers
<1>2. SUFFICES PhasesOK' /\ SuspendedMeansPaused'
  BY <1>1 DEF SwitchOK
<1>3. CASE DestroyDone
  <2>1. PICK t \in Clients : pc[t] \in {"DtorWait", "Destroyed"}
    BY <1>3 DEF DestroyDone, DestroyOK, DestroyOnce, WorkerDestroys, DestroyUnderWay
  <2>2. ~suspended /\ \A u \in Clients : u # t => pc[u] = "Idle"
    BY <2>1 DEF DestroyOK, DtorAlone, InDtor, Drained, SwitchOK, PhasesOK, PhaseOK
  <2>3. UNCHANGED suspended /\ wstate' = "Terminated" /\ \A u \in Clients : pc'[u] = pc[u]
    BY <1>3, ThreadsAssumption DEF DestroyDone, Goto, Base, TypeOK, ThreadType, Threads
  <2>4. ASSUME NEW u \in Clients PROVE pc'[u] \in {"Idle", "DtorWait", "Destroyed"}
    BY <2>1, <2>2, <2>3
  <2>5. QED
    BY <2>2, <2>3, <2>4 DEF PhasesOK, PhaseOK, SuspendedMeansPaused, ResumeLabels
<1>4. CASE \E t \in Clients : Suspend(t) \/ Resume(t) \/ DtorEnqueue(t)
  BY <1>1, <1>4, SwitchStep
<1>5. CASE ~DestroyDone /\ \A t \in Clients : ~Suspend(t) /\ ~Resume(t) /\ ~DtorEnqueue(t)
  <2>1. UNCHANGED <<suspended, wstate>>
    BY <1>5, SuspendSteps, PauseSteps DEF Suspend, Resume
  <2>2. ASSUME NEW u \in Clients
        PROVE  \/ pc'[u] = pc[u]
               \/ /\ ~Switching(u) /\ ~Switching(u)'
                  /\ pc'[u] \in {"DtorEnqueue", "DtorWait", "Destroyed"} => pc[u] = "DtorWait"
    <3>1. CASE Still(u)
      BY <3>1 DEF Still
    <3>2. CASE Call(u) \/ Continue(u)
      BY <1>5, <3>2, SwitchKept
    <3>3. QED
      BY <3>1, <3>2, ThreadSteps, ThreadsAssumption DEF Base, Moves, Threads
  <2>3. PhasesOK'
    BY <2>1, <2>2 DEF SwitchOK, PhasesOK, PhaseOK, Switching, ResumeLabels
  <2>4. \A u \in Clients : Switching(u)' <=> Switching(u)
    BY <2>2 DEF Switching
  <2>5. QED
    BY <2>1, <2>3, <2>4 DEF SwitchOK, SuspendedMeansPaused
<1>6. QED
  BY <1>3, <1>4, <1>5

\* With one controlling thread, the worker is paused exactly if the queue is
\* marked suspended whenever no suspend or resume is under way: suspended_ and the
\* worker's state are set in separate steps and never get out of step.
THEOREM SuspendedIsPaused == OneController /\ Spec => []SuspendedMeansPaused
<1>1. OneController /\ Init => SwitchOK
  BY ThreadsAssumption DEF Init, SwitchOK, RolesKept, Controlling, PhasesOK, PhaseOK, ResumeLabels,
     SuspendedMeansPaused, Threads
<1>2. Base /\ DestroyOK /\ SwitchOK /\ [Next]_vars => SwitchOK'
  BY NextSwitch
<1>3. SwitchOK => SuspendedMeansPaused
  BY DEF SwitchOK
<1>4. QED
  BY <1>1, <1>2, <1>3, DestroyInvariant, PTL DEF Spec

-----------------------------------------------------------------------------
(* Commands are only launched while the worker is running *)

\* Without the drop flag, only the destructor drops commands.
LEMMA NextDrops ==
  ASSUME Base, DropOK, [Next]_vars
  PROVE  DropOK'
<1>1. NeverDrops'
  BY DEF DropOK, NeverDrops
<1>2. ASSUME NEW t \in Clients, Call(t) \/ Continue(t) PROVE DropsInDtor(t)'
  <2>1. DropsInDtor(t)
    BY DEF DropOK, DropsOnlyInDtor
  <2>2. CASE SubmitIdx(t) \/ WaitCall(t) \/ SuspendCall(t)
    BY <2>1, <2>2 DEF SubmitIdx, WaitCall, SuspendCall, Goto, DropsInDtor, ResumeLabels,
      SyncLabels, Base, TypeOK, ThreadType, Threads
  <2>3. CASE ResumeCall(t) \/ DelCall(t)
    BY <2>1, <2>3 DEF ResumeCall, DelCall, BeginResume, Goto, DelResumeFlag, DropOK,
      NeverDrops, DropsInDtor, ResumeLabels, SyncLabels, Base, TypeOK, ThreadType,
      Threads
  <2>4. CASE WaitAllCall(t) \/ ConfigureCall(t)
    BY <2>1, <2>4 DEF WaitAllCall, ConfigureCall, BeginWaitAll, Goto, DropsInDtor,
      ResumeLabels, SyncLabels, Base, TypeOK, ThreadType, Threads
  <2>5. CASE SubmitEnqueue(t) \/ SubmitReturn(t) \/ WaitInFlight(t) \/ WaitReturn(t)
    BY <2>1, <2>5 DEF SubmitEnqueue, SubmitReturn, WaitInFlight, WaitReturn, Goto,
      CallSync, DropsInDtor, ResumeLabels, SyncLabels, Base, TypeOK, ThreadType, Threads
  <2>6. CASE WaitAllReturn(t)
    BY <2>1, <2>6 DEF WaitAllReturn, Goto, ControlOK, ClientControl, SyncLabels,
      ResumeLabels, DropsInDtor, Base, TypeOK, ThreadType, Threads
  <2>7. CASE SyncCheck(t) \/ SyncHw(t) \/ SyncRelock(t)
    BY <2>1, <2>7 DEF SyncCheck, SyncHw, SyncRelock, Goto, localVars, ControlOK,
      ClientControl, SyncLabels, ResumeLabels, DropsInDtor, Base, TypeOK, ThreadType,
      Threads
  <2>8. CASE SuspendMark(t) \/ Pause(t) \/ Deactivate(t) \/ SuspendSync(t)
    BY <2>1, <2>8 DEF SuspendMark, Pause, Deactivate, SuspendSync, Goto, localVars,
      DropsInDtor, ResumeLabels, SyncLabels, Base, TypeOK, ThreadType, Threads
  <2>9. CASE ResumeMark(t) \/ ResumeWorker(t)
    BY <2>1, <2>9 DEF ResumeMark, ResumeWorker, Goto, localVars, ControlOK,
      ClientControl, SyncLabels, ResumeLabels, DropsInDtor, Base, TypeOK, ThreadType,
      Threads
  <2>10. CASE Reactivate(t) \/ RelaunchNext(t) \/ RelaunchEnd(t)
    BY <2>1, <2>10 DEF Reactivate, RelaunchNext, RelaunchEnd, Goto, DropsInDtor,
      ResumeLabels, SyncLabels, Base, TypeOK, ThreadType, Threads
  <2>11. CASE DropAll(t) \/ DropIdx(t)
    BY <2>1, <2>11 DEF DropAll, DropIdx, Goto, localVars, DropsInDtor, ResumeLabels,
      SyncLabels, Base, TypeOK, ThreadType, Threads
  <2>12. CASE ResumeAndDrop(t)
    BY <2>1, <2>12 DEF ResumeAndDrop, Goto, ControlOK, ClientControl, SyncLabels,
      ResumeLabels, DropsInDtor, Base, TypeOK, ThreadType, Threads
  <2>13. CASE Configure(t) \/ DelWaitAll(t) \/ Dtor(t) \/ DtorEnqueue(t) \/ DtorReturn(t)
    BY <2>1, <2>13 DEF Configure, DelWaitAll, Dtor, DtorEnqueue, DtorReturn, Goto,
      BeginWaitAll, BeginResume, localVars, DropsInDtor, ResumeLabels, SyncLabels, Base,
      TypeOK, ThreadType, Threads
  <2>14. QED
    BY <1>2, <2>2, <2>3, <2>4, <2>5, <2>6, <2>7, <2>8, <2>9, <2>10, <2>11, <2>12, <2>13
    DEF Call, Continue, Sync, Suspend, Resume
<1>3. ASSUME NEW t \in Clients, Still(t) PROVE DropsInDtor(t)'
  BY <1>3 DEF DropOK, DropsOnlyInDtor, DropsInDtor, Still
<1>4. ASSUME NEW t \in Clients PROVE DropsInDtor(t)'
  BY <1>2, <1>3, ThreadSteps, ThreadsAssumption DEF Base, Moves, Threads
<1>5. QED
  BY <1>1, <1>4 DEF DropOK, DropsOnlyInDtor

\* When a resume drops commands then, none is in flight.
LEMMA DropsNothing ==
  ASSUME Base, DestroyOK, DropOK, NEW t \in Clients,
         pc[t] \in {"DropAll", "DropIdx", "ResumeAndDrop"}
  PROVE  Drained(t) /\ cmdLog = <<>>
<1>1. Drained(t)
  BY DEF DropOK, DropsOnlyInDtor, DropsInDtor, ResumeLabels, DestroyOK, DtorAlone, InDtor
<1>2. \A i \in 1..Len(cmdLog) : FALSE
  BY <1>1, LogElements DEF Base, TypeOK, LogOK, LogInFlight, Drained, Created, InFlight,
     Completed
<1>3. cmdLog = <<>>
  BY <1>2, EmptySeq, LenProperties DEF Base, TypeOK, LogType
<1>4. QED
  BY <1>1, <1>3

\* Without waiting threads, the worker is the only one that synchronizes.
LEMMA NextNoClientSyncs ==
  ASSUME Base, NobodyWaits, NoClientSyncs, [Next]_vars
  PROVE  NoClientSyncs'
<1> DEFINE WaitLabels == SyncLabels \cup {"WaitInFlight", "WaitCompleted", "WaitDone"}
<1>1. ASSUME NEW t \in Clients, Call(t) \/ Continue(t) PROVE pc'[t] \notin WaitLabels
  <2>1. CASE SubmitIdx(t) \/ SuspendCall(t)
    BY <2>1 DEF SubmitIdx, SuspendCall, Goto, SyncLabels, Base, TypeOK, ThreadType,
      Threads
  <2>2. CASE ResumeCall(t) \/ DelCall(t)
    BY <2>2 DEF ResumeCall, DelCall, BeginResume, Goto, SyncLabels, Base, TypeOK,
      ThreadType, Threads
  <2>3. CASE WaitAllCall(t) \/ ConfigureCall(t)
    BY <2>3 DEF WaitAllCall, ConfigureCall, BeginWaitAll, Goto, SyncLabels, Base,
      TypeOK, ThreadType, Threads
  <2>4. CASE \/ WaitCall(t) \/ WaitInFlight(t) \/ WaitReturn(t)
             \/ SyncCheck(t) \/ SyncHw(t) \/ SyncRelock(t)
    BY <2>4 DEF WaitCall, WaitInFlight, WaitReturn, SyncCheck, SyncHw, SyncRelock, Goto,
      CallSync, MayCall, NobodyWaits, NoClientSyncs, SyncLabels, Base, TypeOK,
      ThreadType, Threads
  <2>5. CASE SubmitEnqueue(t) \/ SubmitReturn(t)
    BY <2>5 DEF SubmitEnqueue, SubmitReturn, Goto, SyncLabels, Base, TypeOK, ThreadType,
      Threads
  <2>6. CASE WaitAllReturn(t)
    BY <2>6 DEF WaitAllReturn, Goto, ControlOK, ClientControl, SyncLabels, ResumeLabels,
      Base, TypeOK, ThreadType, Threads
  <2>7. CASE SuspendMark(t) \/ Pause(t) \/ Deactivate(t) \/ SuspendSync(t)
    BY <2>7 DEF SuspendMark, Pause, Deactivate, SuspendSync, Goto, SyncLabels, Base,
      TypeOK, ThreadType, Threads
  <2>8. CASE ResumeMark(t) \/ ResumeWorker(t)
    BY <2>8 DEF ResumeMark, ResumeWorker, Goto, ControlOK, ClientControl, SyncLabels,
      ResumeLabels, Base, TypeOK, ThreadType, Threads
  <2>9. CASE Reactivate(t) \/ RelaunchNext(t) \/ RelaunchEnd(t)
    BY <2>9 DEF Reactivate, RelaunchNext, RelaunchEnd, Goto, SyncLabels, Base, TypeOK,
      ThreadType, Threads
  <2>10. CASE DropAll(t) \/ DropIdx(t)
    BY <2>10 DEF DropAll, DropIdx, Goto, SyncLabels, Base, TypeOK, ThreadType, Threads
  <2>11. CASE ResumeAndDrop(t)
    BY <2>11 DEF ResumeAndDrop, Goto, ControlOK, ClientControl, SyncLabels,
      ResumeLabels, Base, TypeOK, ThreadType, Threads
  <2>12. CASE Configure(t) \/ DelWaitAll(t) \/ Dtor(t) \/ DtorEnqueue(t) \/ DtorReturn(t)
    BY <2>12 DEF Configure, DelWaitAll, Dtor, DtorEnqueue, DtorReturn, Goto,
      BeginWaitAll, BeginResume, SyncLabels, Base, TypeOK, ThreadType, Threads
  <2>13. QED
    BY <1>1, <2>1, <2>2, <2>3, <2>4, <2>5, <2>6, <2>7, <2>8, <2>9, <2>10, <2>11, <2>12
    DEF Call, Continue, Sync, Suspend, Resume
<1>2. ASSUME NEW t \in Clients, Still(t) PROVE pc'[t] \notin WaitLabels
  BY <1>2 DEF NoClientSyncs, Still
<1>3. ASSUME NEW t \in Clients PROVE pc'[t] \notin WaitLabels
  BY <1>1, <1>2, ThreadSteps, ThreadsAssumption DEF Base, Moves, Threads
<1>4. QED
  BY <1>3 DEF NoClientSyncs

\* The worker waits for commands in the log, and gets to the launch only while it
\* is running.
LEMMA NextLaunches ==
  ASSUME Base, DestroyOK, DropOK, LaunchOK, [Next]_vars
  PROVE  LaunchesRunning'
<1>1. pauseCount \in Nat /\ snap[Worker] \in Nat
  BY DEF Base, TypeOK, PauseType, ThreadType, Threads
<1>2. CASE Still(Worker)
  <2>1. ASSUME Logged(arg[Worker]), pc[Worker] \in SyncLabels PROVE Logged(arg[Worker])'
    <3>1. CASE LogsKept
      BY <1>2, <2>1, <3>1 DEF LogsKept, Logged, Still
    <3>2. ASSUME NEW t \in Threads, SyncRelock(t) PROVE FALSE
      <4>1. t = Worker
        BY <3>2 DEF LaunchOK, NoClientSyncs, SyncRelock, SyncLabels, Threads
      <4>2. pc'[Worker] # "SyncRelock"
        BY <3>2, <4>1 DEF SyncRelock, Goto, Base, TypeOK, ThreadType, Threads, ControlOK,
           SyncLabels, WorkerRets
      <4>3. QED
        BY <1>2, <3>2, <4>1, <4>2 DEF SyncRelock, Still
    <3>3. ~LaunchCommand
      BY <2>1 DEF LaunchCommand, SyncLabels
    <3>4. ASSUME NEW t \in Clients, ResumeAndDrop(t) PROVE FALSE
      <4>1. cmdLog = <<>>
        BY <3>4, DropsNothing DEF ResumeAndDrop
      <4>2. QED
        BY <2>1, <4>1 DEF Logged
    <3>5. QED
      BY <3>1, <3>2, <3>3, <3>4, LogSteps DEF Base
  <2>2. \/ UNCHANGED <<wstate, pauseCount>>
        \/ \E t \in Clients : Pause(t)
        \/ wstate' = "Running" /\ pauseCount' = pauseCount
    <3>1. ~DestroyDone
      BY <1>2 DEF DestroyDone, Goto, Still, Base, TypeOK, ThreadType, Threads
    <3>2. QED
      BY <3>1, PauseSteps DEF ResumeWorker, ResumeAndDrop, WakeWorker
  <2>3. ASSUME NEW t \in Clients, Pause(t)
        PROVE  pc[Worker] # "Launch" /\ pauseCount' = pauseCount + 1
    BY <2>3, ThreadsAssumption DEF Pause, Base, LockHeld, Holders, Threads
  <2>4. pc'[Worker] = pc[Worker] /\ snap'[Worker] = snap[Worker] /\ ret'[Worker] = ret[Worker]
          /\ arg'[Worker] = arg[Worker]
    BY <1>2 DEF Still
  <2>5. pc[Worker] = "Launch" => wstate' = "Running"
    BY <2>2, <2>3 DEF LaunchOK, LaunchesRunning
  <2>6. pc[Worker] \in {"SyncHw", "SyncRelock"} =>
          snap[Worker] <= pauseCount' /\ (snap[Worker] = pauseCount' => wstate' = "Running")
    BY <1>1, <2>2, <2>3 DEF LaunchOK, LaunchesRunning
  <2>7. QED
    BY <2>1, <2>4, <2>5, <2>6 DEF LaunchOK, LaunchesRunning
<1>3. CASE LaunchThreshold
  <2>1. UNCHANGED <<cmdLog, wstate>>
    BY <1>3 DEF LaunchThreshold, ThreadStep, logVars, pauseVars
  <2>2. CASE LogFull
    <3>1. /\ pc'[Worker] = "Sync"
          /\ arg'[Worker] = IF SyncFreeingAt = {} THEN All ELSE syncLog[FirstOf(SyncFreeingAt)]
      BY <1>3, <2>2 DEF LaunchThreshold, CallSync, Goto, Base, TypeOK, ThreadType, Threads
    <3>2. QED
      BY <2>1, <3>1, FreeingLogged DEF Base, LaunchesRunning, Logged
  <2>3. CASE ~LogFull
    <3>1. pc'[Worker] = IF MayLaunch THEN "Launch" ELSE "LaunchPaused"
      BY <1>3, <2>3 DEF LaunchThreshold, Goto, Base, TypeOK, ThreadType, Threads
    <3>2. QED
      BY <2>1, <3>1 DEF LaunchesRunning, SyncLabels, MayLaunch
  <2>4. QED
    BY <2>2, <2>3
<1>4. CASE LaunchResumed
  BY <1>4 DEF LaunchResumed, MayLaunch, Goto, ThreadStep, pauseVars, Base, TypeOK, ThreadType,
     Threads, LaunchesRunning, SyncLabels
<1>5. CASE SyncCheck(Worker)
  <2>1. /\ UNCHANGED <<cmdLog, wstate, pauseCount, ret, arg>>
        /\ pc[Worker] \in {"Sync", "SyncPaused"}
    BY <1>5 DEF SyncCheck, ThreadStep, logVars, pauseVars
  <2>2. wstate # "Terminated"
    BY <2>1 DEF Base, EndedIsExited
  <2>3. CASE NothingToSync(Worker)
    <3>1. pc'[Worker] = ret[Worker] /\ ret[Worker] \in WorkerRets
      BY <1>5, <2>1, <2>3 DEF SyncCheck, Goto, Base, TypeOK, ThreadType, Threads, ControlOK,
         SyncLabels
    <3>2. ret[Worker] = "Launch" => wstate = "Running"
      <4>1. SUFFICES ASSUME ret[Worker] = "Launch" PROVE arg[Worker] = All
        BY <2>2, <2>3 DEF NothingToSync
      <4>2. SUFFICES ASSUME Logged(arg[Worker]), hwState[arg[Worker]] = Completed PROVE FALSE
        BY <2>1, <2>2, <2>3, <4>1 DEF NothingToSync, LaunchOK, LaunchesRunning, SyncLabels
      <4>3. QED
        BY <4>2 DEF Logged, Base, LogOK, LogInFlight, InFlight, Completed
    <3>3. QED
      BY <2>1, <3>1, <3>2 DEF LaunchesRunning, WorkerRets, SyncLabels
  <2>4. CASE ~NothingToSync(Worker)
    <3>1. \/ pc'[Worker] = "SyncPaused"
          \/ pc'[Worker] = "SyncHw" /\ snap'[Worker] = pauseCount /\ wstate = "Running"
      BY <1>5, <2>4 DEF SyncCheck, Goto, Base, TypeOK, ThreadType, Threads
    <3>2. QED
      BY <1>1, <2>1, <3>1 DEF LaunchOK, LaunchesRunning, SyncLabels, Logged
  <2>5. QED
    BY <2>3, <2>4
<1>6. CASE SyncHw(Worker)
  BY <1>6 DEF SyncHw, Goto, ThreadStep, pauseVars, logVars, localVars, Base, TypeOK, ThreadType,
     Threads, LaunchOK, LaunchesRunning, SyncLabels, Logged
<1>7. CASE SyncRelock(Worker)
  <2>1. /\ UNCHANGED <<arg, ret, wstate, pauseCount>> /\ pc[Worker] = "SyncRelock"
        /\ pc'[Worker] = IF PausedMeanwhile(Worker) THEN "Sync" ELSE ret[Worker]
        /\ ret[Worker] \in WorkerRets
    BY <1>7 DEF SyncRelock, Goto, pauseVars, Base, TypeOK, ThreadType, Threads, ControlOK,
       SyncLabels
  <2>2. CASE PausedMeanwhile(Worker)
    BY <1>7, <2>1, <2>2 DEF SyncRelock, LaunchOK, LaunchesRunning, SyncLabels, Logged
  <2>3. CASE ~PausedMeanwhile(Worker)
    BY <2>1, <2>3 DEF PausedMeanwhile, LaunchOK, LaunchesRunning, SyncLabels, WorkerRets
  <2>4. QED
    BY <2>2, <2>3
<1>8. ASSUME pc'[Worker] \notin {"Launch", "SyncHw", "SyncRelock"},
             pc'[Worker] \in SyncLabels => ret'[Worker] # "Launch"
      PROVE  LaunchesRunning'
  BY <1>8 DEF LaunchesRunning
<1>9. CASE Dequeue
  BY <1>8, <1>9 DEF Dequeue, DequeueFront, DequeueIdle, DequeueGenWaitAll, DequeueGenBatchSync,
     Goto, Base, TypeOK, ThreadType, Threads, SyncLabels
<1>10. CASE LaunchEnter \/ LaunchDrop \/ LaunchCommand
  BY <1>8, <1>10 DEF LaunchEnter, LaunchDrop, LaunchCommand, CallSync, Goto, Base, TypeOK,
     ThreadType, Threads, SyncLabels
<1>11. CASE WaitAllEnter \/ WaitAllDone \/ BatchSyncEnter
  BY <1>8, <1>11 DEF WaitAllEnter, WaitAllDone, BatchSyncEnter, CallSync, Goto, Base, TypeOK,
     ThreadType, Threads, SyncLabels
<1>12. CASE BatchSyncDone \/ DestroyEnter \/ DestroyDone
  BY <1>8, <1>12 DEF BatchSyncDone, DestroyEnter, DestroyDone, CallSync, Goto, Base, TypeOK,
     ThreadType, Threads, SyncLabels
<1>13. QED
  BY <1>2, <1>3, <1>4, <1>5, <1>6, <1>7, <1>9, <1>10, <1>11, <1>12, WorkerStill
  DEF Base, WorkerLoop, LaunchHwCommand, Sync

RunningLaunch ==
  \A c \in Idx : hwState[c] # InFlight /\ hwState'[c] = InFlight => wstate = "Running"

\* A step that launches a command finds the worker running.
LEMMA LaunchStep ==
  ASSUME Base, LaunchOK, [Next]_vars
  PROVE  RunningLaunch
<1>1. ASSUME NEW S, Complete(S) PROVE RunningLaunch
  BY <1>1 DEF RunningLaunch, Complete, InFlight, Completed
<1>2. CASE hwState' = hwState
  BY <1>2 DEF RunningLaunch
<1>3. CASE LaunchCommand
  BY <1>3 DEF LaunchCommand, LaunchOK, LaunchesRunning, RunningLaunch
<1>4. ASSUME NEW t \in Clients, SubmitEnqueue(t) PROVE RunningLaunch
  BY <1>4 DEF SubmitEnqueue, RunningLaunch, Base, TypeOK, CommandType, InFlight, Pending
<1>5. QED
  BY <1>1, <1>2, <1>3, <1>4, StateSteps DEF SyncRelock, LaunchDrop, DropAll, ResumeAndDrop

\* A command is launched only while the worker is running, although the worker
\* does not look at its state again after the wait for a slot: that wait only ends
\* in a running worker.  A thread in XQueueWait, or a drop, could complete what
\* the worker waits for while it is paused, hence the two hypotheses.
THEOREM LaunchedRunning == NobodyWaits /\ NeverDrops /\ Spec => NoLaunchWhilePaused
<1>1. NobodyWaits /\ NeverDrops /\ Init => DropOK /\ LaunchOK
  <2>1. ASSUME Init PROVE DropsOnlyInDtor /\ NoClientSyncs
    BY <2>1, ThreadsAssumption DEF Init, DropsOnlyInDtor, DropsInDtor, NoClientSyncs,
       ResumeLabels, SyncLabels, Threads
  <2>2. ASSUME Init PROVE LaunchesRunning
    BY <2>2, ThreadsAssumption DEF Init, LaunchesRunning, SyncLabels, Threads
  <2>3. QED
    BY <2>1, <2>2 DEF DropOK, LaunchOK
<1>2. Base /\ DestroyOK /\ DropOK /\ LaunchOK /\ [Next]_vars => DropOK' /\ LaunchOK'
  <2>1. NobodyWaits => NobodyWaits'
    BY DEF NobodyWaits
  <2>2. QED
    BY <2>1, NextDrops, NextNoClientSyncs, NextLaunches DEF LaunchOK
<1>3. Base /\ DropOK /\ LaunchOK /\ [Next]_vars => [RunningLaunch]_vars
  BY LaunchStep
<1>4. NobodyWaits /\ NeverDrops /\ Spec => [][RunningLaunch]_vars
  BY <1>1, <1>2, <1>3, DestroyInvariant, PTL DEF Spec
<1>5. QED
  BY <1>4 DEF NoLaunchWhilePaused, RunningLaunch

=============================================================================

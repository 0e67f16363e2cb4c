------------------------ MODULE XQueueDeliveryProofs ------------------------
(***************************************************************************)
(* Where the commands of an XQueue are, from their submission until they   *)
(* are completed, when they take effect, and what a thread that has waited *)
(* may rely on.                                                            *)
(*                                                                         *)
(* First: a command that is pending is in the buffer or with the worker,   *)
(* one in flight is in the log; a wait-all is behind every command it      *)
(* stands for and the worker takes all of these out of the log before it   *)
(* completes the wait-all.  If no thread resumes with the drop flag, this  *)
(* gives                                                                   *)
(*                                                                         *)
(*   - IdleMeansDone;                                                      *)
(*   - SettledCompleted, if moreover no thread calls XQueueWait or only    *)
(*     one thread submits.                                                 *)
(*                                                                         *)
(* Then the hardware queue is related to the log: it holds a part of the   *)
(* log, what is before that part has taken effect unless it was flushed,   *)
(* and what was flushed is launched again.  For OrderlyUse of the queue    *)
(* (one submitting and one controlling thread, no drops, no wait for a     *)
(* single command, a level not lowered to Block) this gives                *)
(*                                                                         *)
(*   - CompletedMeansExecuted, AtMostOnce and InOrder: deactivation loses, *)
(*     repeats and reorders no effect;                                     *)
(*   - SettledQuiet and DestroyLosesNothing;                               *)
(*   - the steps of CommandStream, if no command is an event record.       *)
(*                                                                         *)
(* All this is for any number of commands, pauses and threads and any      *)
(* thresholds.  Each hypothesis is a condition on the constants.           *)
(***************************************************************************)
EXTENDS XQueueProofs, XQueueStream, FiniteSetTheorems

-----------------------------------------------------------------------------
(* Where the commands are *)

\* The worker holds a hardware command, or a wait-all, it has not finished with.
HoldsHw == Launching \/ (pc[Worker] = "Dequeued" /\ cur.type = "Hardware")
HoldsWait == Waiting \/ (pc[Worker] = "Dequeued" /\ cur.type = "WaitAll")
Held(c) == HoldsHw /\ cur.id = c
WaitHeld(n) == HoldsWait /\ cur.id = n
Buffered(c) == \E j \in 1..Len(cmds) : cmds[j].type = "Hardware" /\ cmds[j].id = c
WaitBuffered(n) == \E j \in 1..Len(cmds) : cmds[j].type = "WaitAll" /\ cmds[j].id = n

\* No command is lost: what is pending is in the buffer or with the worker, what
\* is in flight is in the log.
LocatedAt(c) ==
  /\ hwState[c] = Pending => Held(c) \/ Buffered(c)
  /\ hwState[c] = InFlight => Logged(c)
Located == \A c \in Idx : LocatedAt(c)
WaitLocatedAt(n) ==
  n < waCount /\ waState[n] # Completed => WaitHeld(n) \/ WaitBuffered(n)
WaitLocated == \A n \in WaitAlls : WaitLocatedAt(n)

\* A destroy command is the last one; the worker does not look for more after it.
DestroyTaken == cur.type = "Destroy" /\ (pc[Worker] = "Dequeued" \/ WorkerDestroys)
DestroyLast ==
  lastCmd.type = "Destroy" =>
    /\ DestroyUnderWay
    /\ HasDestroy \/ DestroyTaken

\* There is a submission between any two wait-alls, so that their number is
\* bounded by the number of submissions.
WaitBound ==
  /\ waCount + (IF lastCmd.type \in {"WaitAll", "Destroy"} THEN 0 ELSE 1)
       <= 1 + Cardinality(Submitted)
  /\ lastCmd.type = "WaitAll" => lastCmd.id < waCount
  /\ \A t \in Clients : pc[t] = "WaitAll" => arg[t] < waCount

-----------------------------------------------------------------------------
(* The steps that move commands *)

\* An enqueue adds a command at the end, the worker takes the first one.
LEMMA Appended ==
  ASSUME TypeOK, NEW c \in XCommand, cmds' = Append(cmds, c)
  PROVE  /\ Len(cmds) \in Nat /\ Len(cmds') = Len(cmds) + 1
         /\ cmds'[Len(cmds) + 1] = c
         /\ \A j \in 1..Len(cmds) : cmds'[j] = cmds[j]
BY AppendProperties, LenProperties DEF TypeOK, BufferType

\* Dequeuing takes the first command, and moves the others up.
LEMMA FrontTaken ==
  ASSUME TypeOK, DequeueFront
  PROVE  /\ Len(cmds) \in Nat /\ Len(cmds) > 0 /\ Len(cmds') = Len(cmds) - 1
         /\ cur' = cmds[1] /\ \A j \in 1..Len(cmds') : cmds'[j] = cmds[j + 1]
         /\ pc[Worker] \in {"Dequeue", "DequeueWait"} /\ pc'[Worker] = "Dequeued"
<1>1. cmds \in Seq(XCommand) /\ cmds # <<>> /\ cur' = Head(cmds) /\ cmds' = Tail(cmds)
  BY DEF DequeueFront, TypeOK, BufferType
<1>2. pc[Worker] \in {"Dequeue", "DequeueWait"} /\ pc'[Worker] = "Dequeued"
  BY DEF DequeueFront, Goto, TypeOK, ThreadType, Threads
<1>3. QED
  BY <1>1, <1>2, HeadTailProperties, LenProperties, EmptySeq

\* The steps that change the buffer, the logs or the states of commands.
LEMMA DeliverySteps ==
  ASSUME [Next]_vars
  PROVE  \/ UNCHANGED <<cmds, lastCmd, xqState, waCount, waState, hwState, cmdLog>>
         \/ \E t \in Threads : SyncRelock(t)
         \/ DequeueFront \/ DequeueIdle \/ DequeueGenWaitAll \/ DequeueGenBatchSync
         \/ LaunchDrop \/ LaunchCommand \/ WaitAllEnter \/ WaitAllDone
         \/ \E t \in Clients : \/ WaitAllCall(t) \/ ConfigureCall(t) \/ DelWaitAll(t)
                               \/ SubmitEnqueue(t) \/ DropAll(t) \/ ResumeAndDrop(t)
                               \/ DtorEnqueue(t)
<1>1. CASE UNCHANGED vars
  BY <1>1 DEF vars, bufVars, cmdVars, logVars
<1>2. CASE HwRetire
  BY <1>2 DEF HwRetire, bufVars, cmdVars, logVars
<1>3. ASSUME NEW t \in Threads, SyncCheck(t) \/ SyncHw(t)
      PROVE  UNCHANGED <<cmds, lastCmd, xqState, waCount, waState, hwState, cmdLog>>
  BY <1>3 DEF SyncCheck, SyncHw, ThreadStep, bufVars, cmdVars, logVars
<1>4. CASE /\ Dequeue /\ ~DequeueFront /\ ~DequeueIdle
           /\ ~DequeueGenWaitAll /\ ~DequeueGenBatchSync
  BY <1>4 DEF Dequeue
<1>5. CASE LaunchEnter \/ LaunchThreshold \/ LaunchResumed
  BY <1>5 DEF LaunchEnter, LaunchThreshold, LaunchResumed, ThreadStep, bufVars, cmdVars,
    logVars
<1>6. CASE \/ BatchSyncEnter \/ BatchSyncDone \/ DestroyEnter \/ DestroyDone
  BY <1>6 DEF BatchSyncEnter, BatchSyncDone, DestroyEnter, DestroyDone, ThreadStep,
    bufVars, cmdVars, logVars
<1>7. ASSUME NEW t \in Clients,
             \/ SubmitIdx(t) \/ WaitCall(t) \/ SuspendCall(t)
             \/ ResumeCall(t) \/ DelCall(t)
      PROVE  UNCHANGED <<cmds, lastCmd, xqState, waCount, waState, hwState, cmdLog>>
  BY <1>7 DEF SubmitIdx, WaitCall, SuspendCall, ResumeCall, DelCall, ThreadStep,
    BeginResume, BufferStep, bufVars, logVars, cmdVars
<1>8. ASSUME NEW t \in Clients, \/ SuspendMark(t) \/ Pause(t) \/ Deactivate(t)
             \/ SuspendSync(t)
      PROVE  UNCHANGED <<cmds, lastCmd, xqState, waCount, waState, hwState, cmdLog>>
  BY <1>8 DEF SuspendMark, Pause, Deactivate, SuspendSync, ThreadStep, bufVars, cmdVars,
    logVars
<1>9. ASSUME NEW t \in Clients, \/ ResumeMark(t) \/ Reactivate(t) \/ RelaunchNext(t)
             \/ RelaunchEnd(t) \/ ResumeWorker(t) \/ DropIdx(t)
      PROVE  UNCHANGED <<cmds, lastCmd, xqState, waCount, waState, hwState, cmdLog>>
  BY <1>9 DEF ResumeMark, Reactivate, RelaunchNext, RelaunchEnd, ResumeWorker, DropIdx,
    ThreadStep, bufVars, cmdVars, logVars
<1>10. ASSUME NEW t \in Clients, \/ SubmitReturn(t) \/ WaitAllReturn(t) \/ WaitInFlight(t)
             \/ WaitReturn(t)
      PROVE  UNCHANGED <<cmds, lastCmd, xqState, waCount, waState, hwState, cmdLog>>
  BY <1>10 DEF SubmitReturn, WaitAllReturn, WaitInFlight, WaitReturn, ThreadStep,
    BufferStep, bufVars, cmdVars, logVars
<1>11. ASSUME NEW t \in Clients, \/ Configure(t) \/ Dtor(t) \/ DtorReturn(t)
      PROVE  UNCHANGED <<cmds, lastCmd, xqState, waCount, waState, hwState, cmdLog>>
  BY <1>11 DEF Configure, Dtor, DtorReturn, BeginResume, BufferStep, ThreadStep, bufVars,
    cmdVars, logVars
<1>12. QED
  BY <1>1, <1>2, <1>3, <1>4, <1>5, <1>6, <1>7, <1>8, <1>9, <1>10, <1>11
  DEF Next, WorkerLoop, Dequeue, LaunchHwCommand, Call, Continue, Sync, Suspend, Resume,
    Threads

\* Most steps leave what the worker holds with it.
Keeps == /\ HoldsHw' <=> HoldsHw
         /\ HoldsWait' <=> HoldsWait
         /\ cur' = cur

\* The steps that change what the worker holds.
LEMMA HoldSteps ==
  ASSUME Base, [Next]_vars
  PROVE  \/ Keeps
         \/ DequeueFront \/ DequeueGenWaitAll \/ DequeueGenBatchSync
         \/ LaunchDrop \/ LaunchCommand \/ WaitAllDone
<1>1. CASE Still(Worker)
  <2>1. ASSUME DequeueFront \/ DequeueGenWaitAll \/ DequeueGenBatchSync PROVE FALSE
    BY <1>1, <2>1 DEF DequeueFront, DequeueGenWaitAll, DequeueGenBatchSync, Goto, Still,
      HoldsHw, HoldsWait, Launching, Waiting, SyncLabels, Base, TypeOK, ThreadType,
      Threads
  <2>2. cur' = cur
    BY <2>1, DequeuedSteps
  <2>3. QED
    BY <1>1, <2>2 DEF Still, Keeps, HoldsHw, HoldsWait, Launching, Waiting
<1>2. CASE DequeueIdle
  BY <1>2 DEF DequeueIdle, Goto, Keeps, HoldsHw, HoldsWait, Launching, Waiting,
    SyncLabels, Base, TypeOK, ThreadType, Threads
<1>3. CASE SyncCheck(Worker) \/ SyncHw(Worker) \/ SyncRelock(Worker)
  BY <1>3 DEF SyncCheck, SyncHw, SyncRelock, Goto, localVars, Keeps, ControlOK,
    WorkerRets, HoldsHw, HoldsWait, Launching, Waiting, SyncLabels, Base, TypeOK,
    ThreadType, Threads
<1>4. CASE LaunchEnter \/ LaunchThreshold \/ LaunchResumed
  BY <1>4 DEF LaunchEnter, LaunchThreshold, LaunchResumed, Goto, CallSync, localVars,
    Keeps, HoldsHw, HoldsWait, Launching, Waiting, SyncLabels, Base, TypeOK, ThreadType,
    Threads
<1>5. CASE WaitAllEnter \/ BatchSyncEnter \/ BatchSyncDone
  BY <1>5 DEF WaitAllEnter, BatchSyncEnter, BatchSyncDone, CallSync, Goto, Keeps,
    HoldsHw, HoldsWait, Launching, Waiting, SyncLabels, Base, TypeOK, ThreadType,
    Threads
<1>6. CASE DestroyEnter \/ DestroyDone
  BY <1>6 DEF DestroyEnter, DestroyDone, CallSync, Goto, localVars, Keeps, HoldsHw,
    HoldsWait, Launching, Waiting, SyncLabels, Base, TypeOK, ThreadType, Threads
<1>7. QED
  BY <1>1, <1>2, <1>3, <1>4, <1>5, <1>6, WorkerStill
  DEF Base, WorkerLoop, Dequeue, LaunchHwCommand, Sync

\* The others take a command, or finish with it.
LEMMA HoldChanges ==
  ASSUME Base
  PROVE  /\ DequeueFront => /\ ~HoldsHw /\ ~HoldsWait
                            /\ HoldsHw' <=> cur'.type = "Hardware"
                            /\ HoldsWait' <=> cur'.type = "WaitAll"
         /\ DequeueGenWaitAll => /\ ~HoldsHw /\ ~HoldsWait /\ ~HoldsHw' /\ HoldsWait'
                                 /\ cur'.id = waCount
         /\ DequeueGenBatchSync => ~HoldsHw /\ ~HoldsWait /\ ~HoldsHw' /\ ~HoldsWait'
         /\ LaunchDrop \/ LaunchCommand =>
              HoldsHw /\ ~HoldsWait /\ ~HoldsHw' /\ ~HoldsWait' /\ cur' = cur
         /\ WaitAllDone => ~HoldsHw /\ HoldsWait /\ ~HoldsHw' /\ ~HoldsWait' /\ cur' = cur
<1>1. DequeueFront => /\ ~HoldsHw /\ ~HoldsWait
                      /\ HoldsHw' <=> cur'.type = "Hardware"
                      /\ HoldsWait' <=> cur'.type = "WaitAll"
  BY DEF DequeueFront, Goto, HoldsHw, HoldsWait, Launching, Waiting, SyncLabels, Base,
    TypeOK, ThreadType, Threads
<1>2. DequeueGenWaitAll => /\ ~HoldsHw /\ ~HoldsWait /\ ~HoldsHw' /\ HoldsWait'
                           /\ cur'.id = waCount
  BY DEF DequeueGenWaitAll, Goto, WaitAllCmd, HoldsHw, HoldsWait, Launching, Waiting,
    SyncLabels, Base, TypeOK, ThreadType, Threads
<1>3. DequeueGenBatchSync => ~HoldsHw /\ ~HoldsWait /\ ~HoldsHw' /\ ~HoldsWait'
  BY DEF DequeueGenBatchSync, Goto, BatchSync, HoldsHw, HoldsWait, Launching, Waiting,
    SyncLabels, Base, TypeOK, ThreadType, Threads
<1>4. LaunchDrop \/ LaunchCommand =>
        HoldsHw /\ ~HoldsWait /\ ~HoldsHw' /\ ~HoldsWait' /\ cur' = cur
  BY DEF LaunchDrop, LaunchCommand, Goto, HoldsHw, HoldsWait, Launching, Waiting,
    SyncLabels, Base, TypeOK, ThreadType, Threads
<1>5. WaitAllDone => ~HoldsHw /\ HoldsWait /\ ~HoldsHw' /\ ~HoldsWait' /\ cur' = cur
  BY DEF WaitAllDone, Goto, localVars, HoldsHw, HoldsWait, Launching, Waiting,
    SyncLabels, Base, TypeOK, ThreadType, Threads
<1>6. QED
  BY <1>1, <1>2, <1>3, <1>4, <1>5

\* Nobody calls, and nobody is in a call, once the destructor waits.
LEMMA LastCall ==
  ASSUME Base, DestroyOK, DestroyUnderWay, NEW t \in Clients, Call(t) \/ Continue(t)
  PROVE  pc[t] = "DtorWait"
<1>1. PICK u \in Clients : pc[u] \in {"DtorWait", "Destroyed"}
  BY DEF DestroyUnderWay
<1>2. ~registered /\ (t # u => pc[t] = "Idle")
  BY <1>1 DEF DestroyOK, DtorAlone, InDtor, Drained
<1>3. QED
  BY <1>1, <1>2, CallGuard

-----------------------------------------------------------------------------
(* No command is lost *)

\* What an enqueue adds to the buffer ...
LEMMA BufferGrows ==
  ASSUME TypeOK, NEW d \in XCommand, cmds' = Append(cmds, d)
  PROVE  /\ \A c : Buffered(c)' <=> Buffered(c) \/ (d.type = "Hardware" /\ d.id = c)
         /\ \A n : WaitBuffered(n)' <=> WaitBuffered(n) \/ (d.type = "WaitAll" /\ d.id = n)
         /\ HasDestroy' <=> HasDestroy \/ d.type = "Destroy"
<1>1. /\ Len(cmds) \in Nat /\ Len(cmds') = Len(cmds) + 1 /\ cmds'[Len(cmds) + 1] = d
      /\ \A j \in 1..Len(cmds) : cmds'[j] = cmds[j]
  BY Appended
<1>2. \A j \in 1..Len(cmds') : j \in 1..Len(cmds) \/ j = Len(cmds) + 1
  BY <1>1
<1>3. Len(cmds) + 1 \in 1..Len(cmds') /\ \A j \in 1..Len(cmds) : j \in 1..Len(cmds')
  BY <1>1
<1>4. ASSUME NEW c
      PROVE  Buffered(c)' <=> Buffered(c) \/ (d.type = "Hardware" /\ d.id = c)
  BY <1>1, <1>2, <1>3 DEF Buffered
<1>5. ASSUME NEW n
      PROVE  WaitBuffered(n)' <=> WaitBuffered(n) \/ (d.type = "WaitAll" /\ d.id = n)
  BY <1>1, <1>2, <1>3 DEF WaitBuffered
<1>6. HasDestroy' <=> HasDestroy \/ d.type = "Destroy"
  BY <1>1, <1>2, <1>3 DEF HasDestroy
<1>7. QED
  BY <1>4, <1>5, <1>6

\* ... and what the worker takes from it.
LEMMA BufferShrinks ==
  ASSUME TypeOK, DequeueFront
  PROVE  /\ \A c : Buffered(c) <=> Buffered(c)' \/ (cur'.type = "Hardware" /\ cur'.id = c)
         /\ \A n : WaitBuffered(n) <=> WaitBuffered(n)' \/ (cur'.type = "WaitAll" /\ cur'.id = n)
         /\ HasDestroy <=> HasDestroy' \/ cur'.type = "Destroy"
<1>1. /\ Len(cmds) \in Nat /\ Len(cmds) > 0 /\ Len(cmds') = Len(cmds) - 1
      /\ cur' = cmds[1] /\ \A j \in 1..Len(cmds') : cmds'[j] = cmds[j + 1]
  BY FrontTaken
<1>2. \A j \in 1..Len(cmds) : j = 1 \/ (j - 1 \in 1..Len(cmds') /\ cmds'[j - 1] = cmds[j])
  BY <1>1
<1>3. 1 \in 1..Len(cmds) /\ \A j \in 1..Len(cmds') : j + 1 \in 1..Len(cmds)
  BY <1>1
<1>4. ASSUME NEW c
      PROVE  Buffered(c) <=> Buffered(c)' \/ (cur'.type = "Hardware" /\ cur'.id = c)
  BY <1>1, <1>2, <1>3 DEF Buffered
<1>5. ASSUME NEW n
      PROVE  WaitBuffered(n) <=> WaitBuffered(n)' \/ (cur'.type = "WaitAll" /\ cur'.id = n)
  BY <1>1, <1>2, <1>3 DEF WaitBuffered
<1>6. HasDestroy <=> HasDestroy' \/ cur'.type = "Destroy"
  BY <1>1, <1>2, <1>3 DEF HasDestroy
<1>7. QED
  BY <1>4, <1>5, <1>6

\* A synchronization that ends completes what it removes from the log.
LEMMA Relocked ==
  ASSUME Base, NEW t \in Threads, SyncRelock(t), NEW c \in Idx
  PROVE  \/ hwState'[c] = hwState[c] /\ (Logged(c)' <=> Logged(c))
         \/ hwState'[c] = Completed /\ Logged(c) /\ ~Logged(c)'
<1>1. CASE PausedMeanwhile(t)
  BY <1>1 DEF SyncRelock, Logged
<1>2. CASE ~PausedMeanwhile(t)
  <2>1. cmdLog' = PopThrough(cmdLog, arg[t]) /\ Complete(Popped(cmdLog, arg[t]))
    BY <1>2 DEF SyncRelock
  <2>2. Len(cmdLog) \in Nat /\ cmdLog \in Seq(Idx)
    BY LogElements DEF Base, TypeOK, LogType
  <2>3. PICK p \in 0..Len(cmdLog) : p = PopCount(cmdLog, arg[t])
    BY <2>2, PopCountIsPrefix
  <2>4. /\ Len(cmdLog') = Len(cmdLog) - p
        /\ \A i \in 1..(Len(cmdLog) - p) : cmdLog'[i] = cmdLog[p + i]
    BY <2>1, <2>2, <2>3, PopThroughIsRest
  <2>5. c \in Popped(cmdLog, arg[t]) <=> \E i \in 1..p : cmdLog[i] = c
    BY <2>3 DEF Popped
  <2>6. Logged(c) <=> c \in Popped(cmdLog, arg[t]) \/ Logged(c)'
    <3>1. \A i \in 1..Len(cmdLog) :
            i \in 1..p \/ (i - p \in 1..(Len(cmdLog) - p) /\ p + (i - p) = i)
      BY <2>2, <2>3
    <3>2. \A i \in 1..(Len(cmdLog) - p) : p + i \in 1..Len(cmdLog)
      BY <2>2, <2>3
    <3>3. \A i \in 1..p : i \in 1..Len(cmdLog)
      BY <2>2, <2>3
    <3>4. QED
      BY <2>4, <2>5, <3>1, <3>2, <3>3 DEF Logged
  <2>7. c \in Popped(cmdLog, arg[t]) => ~Logged(c)'
    <3>1. SUFFICES ASSUME NEW i \in 1..p, NEW j \in 1..(Len(cmdLog) - p),
                          cmdLog[i] = cmdLog[p + j]
                   PROVE  FALSE
      BY <2>4, <2>5 DEF Logged
    <3>2. i \in 1..Len(cmdLog) /\ p + j \in 1..Len(cmdLog) /\ i # p + j
      BY <2>2, <2>3
    <3>3. QED
      BY <3>1, <3>2 DEF Base, LogOK, LogDistinct
  <2>8. QED
    BY <2>1, <2>6, <2>7 DEF Complete
<1>3. QED
  BY <1>1, <1>2

\* Launching a command adds it to the log.
LEMMA LaunchLogs ==
  ASSUME Base, LaunchCommand
  PROVE  /\ cur.id \in Idx /\ hwState' = [hwState EXCEPT ![cur.id] = InFlight]
         /\ \A c : Logged(c)' <=> Logged(c) \/ c = cur.id
<1>1. cur.id \in Idx /\ cmdLog \in Seq(Idx) /\ cmdLog' = Append(cmdLog, cur.id)
  BY LaunchingIdx DEF LaunchCommand, Base, TypeOK, LogType
<1>2. /\ Len(cmdLog) \in Nat /\ Len(cmdLog') = Len(cmdLog) + 1
      /\ cmdLog'[Len(cmdLog) + 1] = cur.id
      /\ \A j \in 1..Len(cmdLog) : cmdLog'[j] = cmdLog[j]
  BY <1>1, AppendProperties, LenProperties
<1>3. /\ \A j \in 1..Len(cmdLog') : j \in 1..Len(cmdLog) \/ j = Len(cmdLog) + 1
      /\ Len(cmdLog) + 1 \in 1..Len(cmdLog')
      /\ \A j \in 1..Len(cmdLog) : j \in 1..Len(cmdLog')
  BY <1>2
<1>4. ASSUME NEW c PROVE Logged(c)' <=> Logged(c) \/ c = cur.id
  BY <1>2, <1>3 DEF Logged
<1>5. QED
  BY <1>1, <1>4 DEF LaunchCommand

\* A submitted command is added to the buffer.
LEMMA SubmitBuffers ==
  ASSUME Base, NEW t \in Clients, SubmitEnqueue(t)
  PROVE  /\ arg[t] \in Idx /\ hwState[arg[t]] = Created
         /\ hwState' = [hwState EXCEPT ![arg[t]] = Pending]
         /\ Hardware(arg[t]) \in XCommand /\ cmds' = Append(cmds, Hardware(arg[t]))
         /\ lastCmd' = Hardware(arg[t]) /\ xqState' = "Ready"
         /\ UNCHANGED <<waCount, waState, cmdLog>>
<1>1. arg[t] \in Idx /\ hwState[arg[t]] = Created
  BY DEF SubmitEnqueue, Base, ControlOK, ClientControl, Owned, SubmitOwned
<1>2. QED
  BY <1>1, CommandsMade DEF SubmitEnqueue, Enqueue, ReportReady, Hardware, logVars

\* A wait-all call shares the last wait-all or adds a new one.
NewWaitAll(n) ==
  /\ n = waCount /\ waCount' = n + 1 /\ waState' = [waState EXCEPT ![n] = Pending]
  /\ lastCmd' = WaitAllCmd(n) /\ UNCHANGED <<xqState, hwState, cmdLog>>

\* What XQueueWaitAll does to the buffer: it shares the last wait-all, appends a
\* new one, or finds the queue idle.
LEMMA WaitAllBuffers ==
  ASSUME Base, NEW t \in Clients, NEW label, BeginWaitAll(t, label)
  PROVE  /\ UNCHANGED <<hwState, cmdLog, xqState>>
         /\ \/ /\ SharesWaitAll /\ arg'[t] = lastCmd.id
               /\ UNCHANGED <<cmds, lastCmd, waCount, waState>>
            \/ /\ ~SharesWaitAll /\ arg'[t] = waCount /\ NewWaitAll(waCount)
               /\ WaitAllCmd(waCount) \in XCommand
               /\ cmds' = Append(cmds, WaitAllCmd(waCount))
BY CommandsMade DEF BeginWaitAll, EnqueueWaitAll, BufferStep, bufVars, cmdVars, logVars,
   NewWaitAll, Base, TypeOK, BufferType, ThreadType, Threads

\* The destructor adds the destroy command.
LEMMA DtorBuffers ==
  ASSUME Base, NEW t \in Clients, DtorEnqueue(t)
  PROVE  /\ UNCHANGED <<hwState, cmdLog, xqState, waCount, waState>>
         /\ lastCmd' = DestroyCmd /\ DestroyCmd \in XCommand
         /\ cmds' = Append(cmds, DestroyCmd)
BY CommandsMade
DEF DtorEnqueue, Enqueue, ReportReady, DestroyCmd, BufferStep, cmdVars, logVars

\* Only a dequeue takes a command from the buffer, or generates one.
LEMMA DequeueAlone ==
  ASSUME Base, [Next]_vars,
         DequeueFront \/ DequeueIdle \/ DequeueGenWaitAll \/ DequeueGenBatchSync
  PROVE  Dequeue
<1>1. pc[Worker] \in {"Dequeue", "DequeueWait"} /\ pc'[Worker] # pc[Worker]
  BY DEF DequeueFront, DequeueIdle, DequeueGenWaitAll, DequeueGenBatchSync, Goto, Base,
     TypeOK, ThreadType, Threads
<1>2. WorkerLoop
  BY <1>1, WorkerStill DEF Base, Still
<1>3. QED
  BY <1>1, <1>2
  DEF WorkerLoop, LaunchHwCommand, LaunchEnter, LaunchThreshold, LaunchResumed,
     LaunchDrop, LaunchCommand, Sync, SyncCheck, SyncHw, SyncRelock, WaitAllEnter,
     WaitAllDone, BatchSyncEnter, BatchSyncDone, DestroyEnter, DestroyDone

\* What a dequeue does besides.
LEMMA DequeueBuffers ==
  ASSUME Dequeue
  PROVE  /\ UNCHANGED <<hwState, cmdLog>>
         /\ DequeueFront => UNCHANGED <<lastCmd, xqState, waCount, waState>>
         /\ DequeueIdle => UNCHANGED <<cmds, lastCmd, waCount, waState>>
         /\ DequeueGenWaitAll => UNCHANGED cmds /\ cmds = <<>> /\ NewWaitAll(waCount)
         /\ DequeueGenBatchSync => /\ UNCHANGED <<cmds, xqState, waCount, waState>>
                                   /\ cmds = <<>> /\ lastCmd' = BatchSync
BY
DEF Dequeue, DequeueFront, DequeueIdle, DequeueGenWaitAll, DequeueGenBatchSync, NewWaitAll,
   BufferStep, cmdVars, logVars

\* A step keeps what the worker holds, or it is one of six; and of the others, only
\* the ones named here change the buffer, the log or the states of commands.
LEMMA MoveSteps ==
  ASSUME Base, [Next]_vars
  PROVE  \/ Dequeue /\ (DequeueFront \/ DequeueGenWaitAll \/ DequeueGenBatchSync)
         \/ LaunchDrop \/ LaunchCommand \/ WaitAllDone
         \/ Keeps /\ \/ UNCHANGED <<cmds, lastCmd, xqState, waCount, waState, hwState, cmdLog>>
                     \/ (Dequeue /\ DequeueIdle) \/ WaitAllEnter
                     \/ \E t \in Threads : SyncRelock(t)
                     \/ \E t \in Clients, label \in Labels : BeginWaitAll(t, label)
                     \/ \E t \in Clients : SubmitEnqueue(t) \/ DtorEnqueue(t)
                     \/ \E t \in Clients : DropAll(t) \/ ResumeAndDrop(t)
<1>1. ASSUME NEW t \in Clients, WaitAllCall(t) \/ ConfigureCall(t) \/ DelWaitAll(t)
      PROVE  \E label \in Labels : BeginWaitAll(t, label)
  <2>1. "Idle" \in Labels /\ "SetLevel" \in Labels /\ "SetLaunchConfig" \in Labels
          /\ "Release" \in Labels
    BY DEF Labels
  <2>2. QED
    BY <1>1, <2>1 DEF WaitAllCall, ConfigureCall, DelWaitAll
<1>2. QED
  BY <1>1, DeliverySteps, HoldSteps, DequeueAlone

\* A pending command stays in the buffer or with the worker, one in flight stays in
\* the log.
LEMMA NextLocated ==
  ASSUME Base, Located, [Next]_vars
  PROVE  Located'
<1>1. SUFFICES ASSUME NEW c \in Idx PROVE LocatedAt(c)'
  BY DEF Located
<1>2. LocatedAt(c) /\ hwState \in [Idx -> CommandState]
  BY DEF Located, Base, TypeOK, CommandType
<1>3. ASSUME UNCHANGED <<hwState, cmdLog>>, Keeps, Buffered(c) => Buffered(c)'
      PROVE  LocatedAt(c)'
  BY <1>2, <1>3 DEF LocatedAt, Keeps, Held, Logged
<1>4. CASE Dequeue /\ DequeueFront
  BY <1>2, <1>4, DequeueBuffers, HoldChanges, BufferShrinks
  DEF LocatedAt, Base, Held, Logged
<1>5. CASE Dequeue /\ (DequeueGenWaitAll \/ DequeueGenBatchSync)
  BY <1>2, <1>5, DequeueBuffers, HoldChanges DEF LocatedAt, Held, Logged, Buffered
<1>6. CASE LaunchDrop
  <2>1. hwState' = [d \in Idx |-> IF d \in {cur.id} THEN Completed ELSE hwState[d]]
          /\ UNCHANGED <<cmds, cmdLog>>
    BY <1>6 DEF LaunchDrop, Complete, bufVars, logVars
  <2>2. QED
    BY <1>2, <2>1 DEF LocatedAt, Held, Buffered, Logged, Completed, Pending, InFlight
<1>7. CASE LaunchCommand
  <2>1. UNCHANGED cmds
    BY <1>7 DEF LaunchCommand, bufVars
  <2>2. QED
    BY <1>2, <1>7, <2>1, LaunchLogs DEF LocatedAt, Held, Buffered, Pending, InFlight
<1>8. CASE WaitAllDone
  BY <1>2, <1>8, HoldChanges
  DEF WaitAllDone, cmdVars, logVars, LocatedAt, Held, Buffered, Logged
<1>9. CASE Keeps
  <2>1. CASE UNCHANGED <<cmds, lastCmd, xqState, waCount, waState, hwState, cmdLog>>
    BY <1>3, <1>9, <2>1 DEF Buffered
  <2>2. CASE Dequeue /\ DequeueIdle
    BY <1>3, <1>9, <2>2, DequeueBuffers DEF Buffered
  <2>3. CASE WaitAllEnter
    BY <1>3, <1>9, <2>3 DEF WaitAllEnter, cmdVars, logVars, Buffered
  <2>4. ASSUME NEW t \in Threads, SyncRelock(t)
        PROVE  LocatedAt(c)'
    <3>1. UNCHANGED cmds
      BY <2>4 DEF SyncRelock, bufVars
    <3>2. QED
      BY <1>2, <1>9, <2>4, <3>1, Relocked
      DEF LocatedAt, Keeps, Held, Buffered, Completed, Pending, InFlight
  <2>5. ASSUME NEW t \in Clients, NEW label \in Labels, BeginWaitAll(t, label)
        PROVE  LocatedAt(c)'
    <3>1. Buffered(c) => Buffered(c)'
      <4>1. CASE UNCHANGED cmds
        BY <4>1 DEF Buffered
      <4>2. CASE WaitAllCmd(waCount) \in XCommand /\ cmds' = Append(cmds, WaitAllCmd(waCount))
        BY <4>2, BufferGrows DEF Base
      <4>3. QED
        BY <2>5, <4>1, <4>2, WaitAllBuffers
    <3>2. QED
      BY <1>3, <1>9, <2>5, <3>1, WaitAllBuffers
  <2>6. ASSUME NEW t \in Clients, SubmitEnqueue(t)
        PROVE  LocatedAt(c)'
    <3>1. /\ hwState' = [hwState EXCEPT ![arg[t]] = Pending] /\ UNCHANGED cmdLog
          /\ Hardware(arg[t]) \in XCommand /\ cmds' = Append(cmds, Hardware(arg[t]))
      BY <2>6, SubmitBuffers
    <3>2. Buffered(c)' <=> Buffered(c) \/ c = arg[t]
      BY <3>1, BufferGrows DEF Base, Hardware
    <3>3. QED
      BY <1>2, <1>9, <3>1, <3>2 DEF LocatedAt, Keeps, Held, Logged, Pending, InFlight
  <2>7. ASSUME NEW t \in Clients, DtorEnqueue(t)
        PROVE  LocatedAt(c)'
    BY <1>3, <1>9, <2>7, DtorBuffers, BufferGrows DEF Base
  <2>8. ASSUME NEW t \in Clients, DropAll(t)
        PROVE  LocatedAt(c)'
    <3>1. UNCHANGED cmdLog /\ Complete(OfType(cmds, "Hardware"))
      BY <2>8 DEF DropAll, logVars
    <3>2. Buffered(c) => c \in OfType(cmds, "Hardware")
      BY DEF Buffered, OfType
    <3>3. QED
      BY <1>2, <1>9, <3>1, <3>2
      DEF LocatedAt, Keeps, Held, Logged, Complete, Completed, Pending, InFlight
  <2>9. ASSUME NEW t \in Clients, ResumeAndDrop(t)
        PROVE  LocatedAt(c)'
    <3>1. UNCHANGED cmds /\ Complete(InLog(cmdLog))
      BY <2>9 DEF ResumeAndDrop, bufVars
    <3>2. Logged(c) => c \in InLog(cmdLog)
      BY DEF Logged, InLog
    <3>3. QED
      BY <1>2, <1>9, <3>1, <3>2
      DEF LocatedAt, Keeps, Held, Buffered, Complete, Completed, Pending, InFlight
  <2>10. QED
    BY <1>4, <1>5, <1>6, <1>7, <1>8, <2>1, <2>2, <2>3, <2>4, <2>5, <2>6, <2>7, <2>8, <2>9,
       MoveSteps
<1>10. QED
  BY <1>4, <1>5, <1>6, <1>7, <1>8, <1>9, MoveSteps

\* A wait-all that is not completed stays in the buffer or with the worker.
LEMMA NextWaitLocated ==
  ASSUME Base, WaitLocated, [Next]_vars
  PROVE  WaitLocated'
<1>1. SUFFICES ASSUME NEW n \in WaitAlls PROVE WaitLocatedAt(n)'
  BY DEF WaitLocated
<1>2. /\ WaitLocatedAt(n) /\ waState \in [WaitAlls -> CommandState]
      /\ waCount \in Nat /\ n \in Nat
  BY DEF WaitLocated, WaitAlls, Base, TypeOK, BufferType
<1>3. ASSUME UNCHANGED <<waCount, waState>>, Keeps, WaitBuffered(n) => WaitBuffered(n)'
      PROVE  WaitLocatedAt(n)'
  BY <1>2, <1>3 DEF WaitLocatedAt, Keeps, WaitHeld
<1>4. CASE Dequeue /\ DequeueFront
  BY <1>2, <1>4, DequeueBuffers, HoldChanges, BufferShrinks
  DEF WaitLocatedAt, Base, WaitHeld
<1>5. CASE Dequeue /\ DequeueGenWaitAll
  <2>1. ~WaitBuffered(n) /\ ~HoldsWait
    BY <1>5, DequeueBuffers, HoldChanges DEF WaitBuffered
  <2>2. HoldsWait' /\ cur'.id = waCount
    BY <1>5, HoldChanges
  <2>3. QED
    BY <1>2, <1>5, <2>1, <2>2, DequeueBuffers DEF NewWaitAll, WaitLocatedAt, WaitHeld
<1>6. CASE Dequeue /\ DequeueGenBatchSync
  BY <1>2, <1>6, DequeueBuffers, HoldChanges DEF WaitLocatedAt, WaitHeld, WaitBuffered
<1>7. CASE LaunchDrop \/ LaunchCommand
  BY <1>2, <1>7, HoldChanges
  DEF LaunchDrop, LaunchCommand, bufVars, WaitLocatedAt, WaitHeld,
     WaitBuffered
<1>8. CASE WaitAllDone
  BY <1>2, <1>8, HoldChanges DEF WaitAllDone, WaitLocatedAt, WaitHeld, WaitBuffered
<1>9. CASE Keeps
  <2>1. CASE UNCHANGED <<cmds, lastCmd, xqState, waCount, waState, hwState, cmdLog>>
    BY <1>3, <1>9, <2>1 DEF WaitBuffered
  <2>2. CASE Dequeue /\ DequeueIdle
    BY <1>3, <1>9, <2>2, DequeueBuffers DEF WaitBuffered
  <2>3. CASE WaitAllEnter
    <3>1. /\ UNCHANGED <<cmds, waCount>> /\ HoldsWait
          /\ waState' = [waState EXCEPT ![cur.id] = InFlight]
      BY <2>3 DEF WaitAllEnter, HoldsWait
    <3>2. QED
      BY <1>2, <1>9, <3>1 DEF Keeps, WaitLocatedAt, WaitHeld, WaitBuffered
  <2>4. ASSUME NEW t \in Threads, SyncRelock(t) PROVE WaitLocatedAt(n)'
    BY <1>3, <1>9, <2>4 DEF SyncRelock, bufVars, WaitBuffered
  <2>5. ASSUME NEW t \in Clients, NEW label \in Labels, BeginWaitAll(t, label)
        PROVE  WaitLocatedAt(n)'
    <3>1. CASE UNCHANGED <<cmds, lastCmd, waCount, waState>>
      BY <1>3, <1>9, <3>1 DEF WaitBuffered
    <3>2. CASE /\ NewWaitAll(waCount) /\ WaitAllCmd(waCount) \in XCommand
               /\ cmds' = Append(cmds, WaitAllCmd(waCount))
      <4>1. WaitBuffered(n)' <=> WaitBuffered(n) \/ n = waCount
        BY <3>2, BufferGrows DEF Base, WaitAllCmd
      <4>2. QED
        BY <1>2, <1>9, <3>2, <4>1 DEF NewWaitAll, Keeps, WaitLocatedAt, WaitHeld
    <3>3. QED
      BY <2>5, <3>1, <3>2, WaitAllBuffers
  <2>6. ASSUME NEW t \in Clients, SubmitEnqueue(t) PROVE WaitLocatedAt(n)'
    BY <1>3, <1>9, <2>6, SubmitBuffers, BufferGrows DEF Base
  <2>7. ASSUME NEW t \in Clients, DtorEnqueue(t) PROVE WaitLocatedAt(n)'
    BY <1>3, <1>9, <2>7, DtorBuffers, BufferGrows DEF Base
  <2>8. ASSUME NEW t \in Clients, DropAll(t) PROVE WaitLocatedAt(n)'
    <3>1. /\ UNCHANGED waCount
          /\ waState' = [m \in WaitAlls |-> IF m \in OfType(cmds, "WaitAll") THEN Completed
                                            ELSE waState[m]]
      BY <2>8 DEF DropAll
    <3>2. WaitBuffered(n) => n \in OfType(cmds, "WaitAll")
      BY DEF WaitBuffered, OfType
    <3>3. QED
      BY <1>2, <1>9, <3>1, <3>2 DEF Keeps, WaitLocatedAt, WaitHeld
  <2>9. ASSUME NEW t \in Clients, ResumeAndDrop(t) PROVE WaitLocatedAt(n)'
    BY <1>3, <1>9, <2>9 DEF ResumeAndDrop, bufVars, WaitBuffered
  <2>10. QED
    BY <1>4, <1>5, <1>6, <1>7, <1>8, <2>1, <2>2, <2>3, <2>4, <2>5, <2>6, <2>7, <2>8, <2>9,
       MoveSteps
<1>10. QED
  BY <1>4, <1>5, <1>6, <1>7, <1>8, <1>9, MoveSteps

-----------------------------------------------------------------------------
(* The number of wait-alls *)

\* After a destroy command, the worker does not get back to the buffer.
LEMMA NextDestroyLast ==
  ASSUME Base, DestroyOK, DestroyLast, [Next]_vars
  PROVE  DestroyLast'
<1>1. SUFFICES ASSUME lastCmd'.type = "Destroy"
               PROVE  DestroyUnderWay' /\ (HasDestroy' \/ DestroyTaken')
  BY DEF DestroyLast
<1>2. ASSUME NEW t \in Clients, DtorEnqueue(t) PROVE DestroyUnderWay' /\ HasDestroy'
  <2>1. DestroyUnderWay'
    BY <1>2 DEF DtorEnqueue, Goto, DestroyUnderWay, Base, TypeOK, ThreadType, Threads
  <2>2. HasDestroy'
    BY <1>2, DtorBuffers, BufferGrows DEF Base, DestroyCmd
  <2>3. QED
    BY <2>1, <2>2
<1>3. ASSUME \A t \in Clients : ~DtorEnqueue(t) PROVE lastCmd.type = "Destroy"
  <2>1. ASSUME NEW t \in Clients, NEW label \in Labels, BeginWaitAll(t, label)
        PROVE  lastCmd.type = "Destroy"
    BY <1>1, <2>1, WaitAllBuffers DEF NewWaitAll, WaitAllCmd
  <2>2. ASSUME NEW t \in Clients, SubmitEnqueue(t) PROVE FALSE
    <3>1. lastCmd' = Hardware(arg[t])
      BY <2>2, SubmitBuffers
    <3>2. QED
      BY <1>1, <3>1 DEF Hardware
  <2>3. CASE Dequeue
    BY <1>1, <2>3, DequeueBuffers DEF Dequeue, NewWaitAll, WaitAllCmd, BatchSync
  <2>4. ASSUME LaunchDrop \/ LaunchCommand \/ WaitAllDone \/ WaitAllEnter
        PROVE  UNCHANGED lastCmd
    BY <2>4 DEF LaunchDrop, LaunchCommand, WaitAllDone, WaitAllEnter, bufVars
  <2>5. ASSUME NEW t \in Threads, SyncRelock(t) PROVE UNCHANGED lastCmd
    BY <2>5 DEF SyncRelock, bufVars
  <2>6. ASSUME NEW t \in Clients, DropAll(t) \/ ResumeAndDrop(t) PROVE UNCHANGED lastCmd
    BY <2>6 DEF DropAll, ResumeAndDrop, bufVars
  <2>7. QED
    BY <1>1, <1>3, <2>1, <2>2, <2>3, <2>4, <2>5, <2>6, MoveSteps
<1>4. ASSUME lastCmd.type = "Destroy"
      PROVE  DestroyUnderWay' /\ (HasDestroy' \/ DestroyTaken')
  <2>1. DestroyUnderWay /\ DestroyUnderWay'
    BY <1>4, NextUnderWay DEF DestroyLast
  <2>2. ASSUME NEW t \in Clients, Call(t) \/ Continue(t) PROVE pc[t] = "DtorWait"
    BY <2>1, <2>2, LastCall
  <2>3. CASE DequeueFront
    <3>1. HasDestroy
      BY <1>4, <2>3, FrontTaken
      DEF Base, DestroyLast, DestroyTaken, WorkerDestroys, SyncLabels
    <3>2. QED
      BY <2>1, <2>3, <3>1, BufferShrinks, FrontTaken DEF Base, DestroyTaken
  <2>4. CASE ~DequeueFront
    <3>1. UNCHANGED cmds
      BY <2>2, <2>4, BufferSteps DEF Call, Continue, Resume, WaitAllCall, ConfigureCall,
         SubmitEnqueue, DropAll, DelWaitAll, DtorEnqueue, MayCall
    <3>2. HasDestroy => HasDestroy'
      BY <3>1 DEF HasDestroy
    <3>3. ASSUME DestroyTaken PROVE DestroyTaken'
      <4>1. UNCHANGED cur
        BY <3>3, DequeuedSteps DEF DequeueFront, DequeueGenWaitAll, DequeueGenBatchSync,
           DestroyTaken, WorkerDestroys, SyncLabels
      <4>2. CASE Still(Worker)
        BY <3>3, <4>1, <4>2 DEF Still, DestroyTaken, WorkerDestroys
      <4>3. CASE Sync(Worker)
        BY <3>3, <4>1, <4>3
        DEF Sync, SyncCheck, SyncHw, SyncRelock, Goto, localVars, Base,
           TypeOK, ThreadType, Threads, SyncLabels, DestroyTaken, WorkerDestroys
      <4>4. CASE DestroyEnter \/ DestroyDone
        BY <3>3, <4>1, <4>4 DEF DestroyEnter, DestroyDone, CallSync, Goto, Base, TypeOK,
           ThreadType, Threads, SyncLabels, DestroyTaken, WorkerDestroys
      <4>5. ASSUME WorkerLoop, ~Sync(Worker), ~DestroyEnter, ~DestroyDone PROVE FALSE
        BY <3>3, <4>5
        DEF WorkerLoop, Dequeue, DequeueFront, DequeueIdle, DequeueGenWaitAll,
           DequeueGenBatchSync, LaunchHwCommand, LaunchEnter, LaunchThreshold,
             LaunchResumed,
           LaunchDrop, LaunchCommand, WaitAllEnter, WaitAllDone, BatchSyncEnter,
           BatchSyncDone, DestroyTaken, WorkerDestroys, SyncLabels
      <4>6. QED
        BY <4>2, <4>3, <4>4, <4>5, WorkerStill DEF Base
    <3>4. QED
      BY <1>4, <2>1, <3>2, <3>3 DEF DestroyLast
  <2>5. QED
    BY <2>3, <2>4
<1>5. QED
  BY <1>2, <1>3, <1>4

\* How a client gets to a wait-all, a submission and a synchronization.
Reaches(t) ==
  /\ pc'[t] = "WaitAll" => WaitAllCall(t) \/ ConfigureCall(t) \/ DelWaitAll(t)
  /\ pc'[t] = "Submit" => SubmitIdx(t)
  /\ pc'[t] \in SyncLabels => (pc[t] \in SyncLabels \/ WaitInFlight(t)) /\ arg'[t] = arg[t]
  /\ pc'[t] = "WaitDone" => /\ pc[t] \in SyncLabels /\ arg'[t] = arg[t]
                            /\ \/ SyncCheck(t) /\ NothingToSync(t)
                               \/ SyncRelock(t) /\ ~PausedMeanwhile(t)

\* These are the only ways a call or a continuation gets there.
LEMMA ClientReaches ==
  ASSUME Base, NEW t \in Clients, Call(t) \/ Continue(t)
  PROVE  Reaches(t)
<1>1. CASE SubmitIdx(t) \/ SuspendCall(t)
  BY <1>1 DEF SubmitIdx, SuspendCall, Goto, SyncLabels, Reaches, Base, TypeOK,
    ThreadType, Threads
<1>2. CASE ResumeCall(t) \/ DelCall(t)
  BY <1>2 DEF ResumeCall, DelCall, BeginResume, Goto, SyncLabels, Reaches, Base, TypeOK,
    ThreadType, Threads
<1>3. CASE WaitAllCall(t) \/ ConfigureCall(t)
  BY <1>3 DEF WaitAllCall, ConfigureCall, BeginWaitAll, Goto, SyncLabels, Reaches, Base,
    TypeOK, ThreadType, Threads
<1>4. CASE WaitCall(t) \/ WaitReturn(t)
  BY <1>4 DEF WaitCall, WaitReturn, Goto, SyncLabels, Reaches, Base, TypeOK, ThreadType,
    Threads
<1>5. CASE SubmitEnqueue(t) \/ SubmitReturn(t)
  BY <1>5 DEF SubmitEnqueue, SubmitReturn, Goto, SyncLabels, Reaches, Base, TypeOK,
    ThreadType, Threads
<1>6. CASE WaitAllReturn(t)
  BY <1>6 DEF WaitAllReturn, Goto, ControlOK, ClientControl, ResumeLabels, SyncLabels,
    Reaches, Base, TypeOK, ThreadType, Threads
<1>7. CASE SuspendMark(t) \/ Pause(t) \/ Deactivate(t) \/ SuspendSync(t)
  BY <1>7 DEF SuspendMark, Pause, Deactivate, SuspendSync, Goto, SyncLabels, Reaches,
    Base, TypeOK, ThreadType, Threads
<1>8. CASE ResumeMark(t) \/ ResumeWorker(t)
  BY <1>8 DEF ResumeMark, ResumeWorker, Goto, ControlOK, ClientControl, ResumeLabels,
    SyncLabels, Reaches, Base, TypeOK, ThreadType, Threads
<1>9. CASE Reactivate(t) \/ RelaunchNext(t) \/ RelaunchEnd(t)
  BY <1>9 DEF Reactivate, RelaunchNext, RelaunchEnd, Goto, SyncLabels, Reaches, Base,
    TypeOK, ThreadType, Threads
<1>10. CASE DropAll(t) \/ DropIdx(t)
  BY <1>10 DEF DropAll, DropIdx, Goto, SyncLabels, Reaches, Base, TypeOK, ThreadType,
    Threads
<1>11. CASE ResumeAndDrop(t)
  BY <1>11 DEF ResumeAndDrop, Goto, ControlOK, ClientControl, ResumeLabels, SyncLabels,
    Reaches, Base, TypeOK, ThreadType, Threads
<1>12. CASE Configure(t) \/ DelWaitAll(t) \/ Dtor(t) \/ DtorEnqueue(t) \/ DtorReturn(t)
  BY <1>12 DEF Configure, DelWaitAll, Dtor, DtorEnqueue, DtorReturn, Goto, BeginWaitAll,
    BeginResume, SyncLabels, Reaches, Base, TypeOK, ThreadType, Threads
<1>13. CASE WaitInFlight(t)
  BY <1>13 DEF WaitInFlight, CallSync, Goto, SyncLabels, Reaches, Base, TypeOK,
    ThreadType, Threads
<1>14. CASE SyncCheck(t) \/ SyncHw(t) \/ SyncRelock(t)
  BY <1>14 DEF SyncCheck, SyncHw, SyncRelock, Goto, Forget, localVars, ControlOK,
    ClientControl, ResumeLabels, SyncLabels, Reaches, Base, TypeOK, ThreadType, Threads
<1>15. QED
  BY <1>1, <1>2, <1>3, <1>4, <1>5, <1>6, <1>7, <1>8, <1>9, <1>10, <1>11, <1>12, <1>13,
     <1>14
  DEF Call, Continue, Sync, Suspend, Resume

\* What a client waits for is decided when its wait-all begins.
LEMMA MustSteps ==
  ASSUME [Next]_vars
  PROVE  \/ UNCHANGED must
         \/ \E t \in Clients : \/ WaitAllCall(t) \/ ConfigureCall(t) \/ WaitAllReturn(t)
                               \/ DelWaitAll(t)
<1>1. CASE UNCHANGED vars
  BY <1>1 DEF vars, histVars
<1>2. CASE HwRetire
  BY <1>2 DEF HwRetire, histVars
<1>3. ASSUME NEW t \in Threads, SyncCheck(t) \/ SyncHw(t) \/ SyncRelock(t)
      PROVE  UNCHANGED must
  BY <1>3 DEF SyncCheck, SyncHw, SyncRelock, ThreadStep, histVars
<1>4. CASE Dequeue
  BY <1>4 DEF Dequeue, BufferStep, histVars, DequeueFront, DequeueIdle, DequeueGenWaitAll,
    DequeueGenBatchSync
<1>5. CASE LaunchEnter \/ LaunchThreshold \/ LaunchResumed \/ LaunchDrop \/ LaunchCommand
  BY <1>5 DEF LaunchEnter, LaunchThreshold, LaunchResumed, LaunchDrop, LaunchCommand,
    ThreadStep, histVars
<1>6. CASE \/ WaitAllEnter \/ WaitAllDone \/ BatchSyncEnter \/ BatchSyncDone
          \/ DestroyEnter \/ DestroyDone
  BY <1>6 DEF WaitAllEnter, WaitAllDone, BatchSyncEnter, BatchSyncDone, DestroyEnter,
    DestroyDone, ThreadStep, histVars
<1>7. ASSUME NEW t \in Clients,
             \/ SubmitIdx(t) \/ WaitCall(t) \/ SuspendCall(t)
             \/ ResumeCall(t) \/ DelCall(t)
      PROVE  UNCHANGED must
  BY <1>7 DEF SubmitIdx, WaitCall, SuspendCall, ResumeCall, DelCall, ThreadStep,
    BeginResume, histVars
<1>8. ASSUME NEW t \in Clients, \/ SuspendMark(t) \/ Pause(t) \/ Deactivate(t)
             \/ SuspendSync(t)
      PROVE  UNCHANGED must
  BY <1>8 DEF SuspendMark, Pause, Deactivate, SuspendSync, ThreadStep, histVars
<1>9. ASSUME NEW t \in Clients, \/ ResumeMark(t) \/ Reactivate(t) \/ RelaunchNext(t)
             \/ RelaunchEnd(t) \/ ResumeWorker(t) \/ DropAll(t) \/ DropIdx(t)
             \/ ResumeAndDrop(t)
      PROVE  UNCHANGED must
  BY <1>9 DEF ResumeMark, Reactivate, RelaunchNext, RelaunchEnd, ResumeWorker, DropAll,
    DropIdx, ResumeAndDrop, ThreadStep, histVars
<1>10. ASSUME NEW t \in Clients, \/ SubmitEnqueue(t) \/ SubmitReturn(t) \/ WaitInFlight(t)
             \/ WaitReturn(t)
      PROVE  UNCHANGED must
  BY <1>10 DEF SubmitEnqueue, SubmitReturn, WaitInFlight, WaitReturn, ThreadStep, histVars
<1>11. ASSUME NEW t \in Clients, \/ Configure(t) \/ Dtor(t) \/ DtorEnqueue(t)
             \/ DtorReturn(t)
      PROVE  UNCHANGED must
  BY <1>11 DEF Configure, Dtor, DtorEnqueue, DtorReturn, BeginResume, ThreadStep, histVars
<1>12. QED
  BY <1>1, <1>2, <1>3, <1>4, <1>5, <1>6, <1>7, <1>8, <1>9, <1>10, <1>11
  DEF Next, WorkerLoop, LaunchHwCommand, Call, Continue, Sync, Suspend, Resume, Threads

\* A client in a wait-all has just begun it, or nothing happened to it.
LEMMA WaiterSteps ==
  ASSUME Base, [Next]_vars, NEW t \in Clients, pc'[t] = "WaitAll"
  PROVE  \/ pc[t] = "WaitAll" /\ arg'[t] = arg[t] /\ must'[t] = must[t]
         \/ \E label \in Labels : BeginWaitAll(t, label)
<1>1. CASE Call(t) \/ Continue(t)
  <2>1. {"Idle", "SetLevel", "SetLaunchConfig", "Release"} \subseteq Labels
    BY DEF Labels
  <2>2. WaitAllCall(t) \/ ConfigureCall(t) \/ DelWaitAll(t)
    BY <1>1, ClientReaches DEF Reaches
  <2>3. QED
    BY <2>1, <2>2 DEF WaitAllCall, ConfigureCall, DelWaitAll
<1>2. CASE Still(t)
  <2>1. ASSUME NEW u \in Clients, NEW S, must' = [must EXCEPT ![u] = S], u # t
        PROVE  must'[t] = must[t]
    BY <2>1 DEF Base, TypeOK, HistoryType
  <2>2. ASSUME NEW u \in Clients,
               WaitAllCall(u) \/ ConfigureCall(u) \/ WaitAllReturn(u) \/ DelWaitAll(u)
        PROVE  u # t /\ \E S : must' = [must EXCEPT ![u] = S]
    <3>1. \E S : must' = [must EXCEPT ![u] = S]
      BY <2>2 DEF WaitAllCall, ConfigureCall, WaitAllReturn, DelWaitAll, BeginWaitAll
    <3>2. u # t
      <4>1. CASE WaitAllReturn(u)
        BY <1>2, <4>1 DEF WaitAllReturn, Still, Goto, Base, TypeOK, ThreadType, Threads,
           ControlOK, ClientControl
      <4>2. CASE WaitAllCall(u) \/ ConfigureCall(u) \/ DelWaitAll(u)
        BY <1>2, <4>2 DEF WaitAllCall, ConfigureCall, DelWaitAll, MayCall, Still
      <4>3. QED
        BY <2>2, <4>1, <4>2
    <3>3. QED
      BY <3>1, <3>2
  <2>3. must'[t] = must[t]
    BY <2>1, <2>2, MustSteps
  <2>4. QED
    BY <1>2, <2>3 DEF Still
<1>3. QED
  BY <1>1, <1>2, ThreadSteps, ThreadsAssumption DEF Base, Moves, Threads

\* The submitted commands only become more, by one when one is enqueued.
LEMMA SubmittedGrows ==
  ASSUME Base, [Next]_vars
  PROVE  /\ Cardinality(Submitted) \in Nat /\ Cardinality(Submitted) <= MaxCmds
         /\ Cardinality(Submitted') \in Nat
         /\ Cardinality(Submitted) <= Cardinality(Submitted')
         /\ (\E t \in Clients : SubmitEnqueue(t)) =>
              Cardinality(Submitted') = Cardinality(Submitted) + 1
<1>1. IsFiniteSet(Idx) /\ Cardinality(Idx) = MaxCmds
  BY InputAssumption, FS_Interval DEF Idx
<1>2. Submitted \in SUBSET Idx /\ Submitted' \in SUBSET Idx
  BY DEF Submitted
<1>3. /\ IsFiniteSet(Submitted) /\ Cardinality(Submitted) <= MaxCmds
      /\ IsFiniteSet(Submitted')
  BY <1>1, <1>2, FS_Subset
<1>4. Cardinality(Submitted) \in Nat /\ Cardinality(Submitted') \in Nat
  BY <1>3, FS_CardinalityType
<1>5. Submitted \in SUBSET (Submitted')
  <2>1. Forward /\ TypeOK /\ TypeOK'
    BY NextForward, NextTyped DEF Base
  <2>2. QED
    BY <2>1
    DEF Forward, Submitted, TypeOK, CommandType, CommandState, Created, Completed, Pending
<1>6. Cardinality(Submitted) <= Cardinality(Submitted')
  BY <1>3, <1>5, FS_Subset
<1>7. ASSUME NEW t \in Clients, SubmitEnqueue(t)
      PROVE  Cardinality(Submitted') = Cardinality(Submitted) + 1
  <2>1. /\ arg[t] \in Idx /\ hwState[arg[t]] = Created
        /\ hwState' = [hwState EXCEPT ![arg[t]] = Pending]
        /\ hwState \in [Idx -> CommandState]
    BY <1>7, SubmitBuffers DEF Base, TypeOK, CommandType
  <2>2. arg[t] \notin Submitted /\ Submitted' = Submitted \cup {arg[t]}
    BY <2>1 DEF Submitted, Created, Pending
  <2>3. QED
    BY <1>3, <2>2, FS_AddElement
<1>8. QED
  BY <1>3, <1>4, <1>6, <1>7

\* When the queue reports idle, its last command is one to wait for.
IdleLast == xqState = "Idle" => lastCmd.type \in {"WaitAll", "Destroy"}

\* A wait-all does not begin after the destroy command ...
LEMMA NoLateWaitAll ==
  ASSUME Base, DestroyOK, DestroyLast, [Next]_vars, NEW t \in Clients, NEW label,
         BeginWaitAll(t, label)
  PROVE  lastCmd.type # "Destroy"
<1>1. SUFFICES ASSUME DestroyUnderWay PROVE FALSE
  BY DEF DestroyLast
<1>2. pc'[t] = "WaitAll"
  BY DEF BeginWaitAll, Goto, Base, TypeOK, ThreadType, Threads
<1>3. PICK u \in Clients : pc[u] \in {"DtorWait", "Destroyed"}
  BY <1>1 DEF DestroyUnderWay
<1>4. pc[t] \in {"DtorWait", "Destroyed", "Idle"}
  BY <1>3 DEF DestroyOK, DtorAlone, InDtor, Drained
<1>5. Call(t) \/ Continue(t)
  BY <1>2, <1>4, ThreadSteps, ThreadsAssumption DEF Base, Moves, Still, Threads
<1>6. WaitAllCall(t) \/ ConfigureCall(t) \/ DelWaitAll(t)
  BY <1>2, <1>5, ClientReaches DEF Reaches
<1>7. QED
  BY <1>1, <1>5, <1>6, LastCall DEF WaitAllCall, ConfigureCall, DelWaitAll, MayCall

\* ... and the worker generates nothing after it.
LEMMA NoLateGeneration ==
  ASSUME Base, DestroyLast, cmds = <<>>, pc[Worker] = "Dequeue"
  PROVE  lastCmd.type # "Destroy"
BY DEF DestroyLast, HasDestroy, DestroyTaken, WorkerDestroys, SyncLabels

\* How the last command, the number of wait-alls and the reported state change.
LEMMA LastSteps ==
  ASSUME Base, DestroyOK, DestroyLast, [Next]_vars
  PROVE  \/ UNCHANGED <<lastCmd, waCount, xqState>>
         \/ UNCHANGED <<lastCmd, waCount>> /\ lastCmd.type = "WaitAll"
         \/ NewWaitAll(waCount) /\ lastCmd.type \notin {"WaitAll", "Destroy"}
         \/ /\ lastCmd' = BatchSync /\ lastCmd.type \notin {"WaitAll", "Destroy"}
            /\ UNCHANGED <<waCount, xqState>>
         \/ \E t \in Clients : /\ SubmitEnqueue(t) /\ lastCmd' = Hardware(arg[t])
                               /\ xqState' = "Ready" /\ UNCHANGED waCount
         \/ lastCmd' = DestroyCmd /\ UNCHANGED <<waCount, xqState>>
<1>1. CASE Dequeue /\ (DequeueFront \/ DequeueIdle)
  BY <1>1, DequeueBuffers DEF DequeueIdle, EverythingWaitedFor
<1>2. CASE Dequeue /\ DequeueGenWaitAll
  BY <1>2, DequeueBuffers DEF DequeueGenWaitAll
<1>3. CASE Dequeue /\ DequeueGenBatchSync
  BY <1>3, DequeueBuffers, NoLateGeneration DEF DequeueGenBatchSync
<1>4. CASE LaunchDrop \/ LaunchCommand \/ WaitAllDone \/ WaitAllEnter
  BY <1>4 DEF LaunchDrop, LaunchCommand, WaitAllDone, WaitAllEnter, bufVars
<1>5. ASSUME NEW t \in Threads, SyncRelock(t)
      PROVE  UNCHANGED <<lastCmd, waCount, xqState>>
  BY <1>5 DEF SyncRelock, bufVars
<1>6. ASSUME NEW t \in Clients, NEW label \in Labels, BeginWaitAll(t, label)
      PROVE  \/ UNCHANGED <<lastCmd, waCount, xqState>>
             \/ NewWaitAll(waCount) /\ lastCmd.type \notin {"WaitAll", "Destroy"}
  BY <1>6, WaitAllBuffers, NoLateWaitAll DEF SharesWaitAll
<1>7. ASSUME NEW t \in Clients, SubmitEnqueue(t)
      PROVE  lastCmd' = Hardware(arg[t]) /\ xqState' = "Ready" /\ UNCHANGED waCount
  BY <1>7, SubmitBuffers
<1>8. ASSUME NEW t \in Clients, DtorEnqueue(t)
      PROVE  lastCmd' = DestroyCmd /\ UNCHANGED <<waCount, xqState>>
  BY <1>8, DtorBuffers
<1>9. ASSUME NEW t \in Clients, DropAll(t) \/ ResumeAndDrop(t)
      PROVE  UNCHANGED <<lastCmd, waCount, xqState>>
  BY <1>9 DEF DropAll, ResumeAndDrop, bufVars
<1>10. QED
  BY <1>1, <1>2, <1>3, <1>4, <1>5, <1>6, <1>7, <1>8, <1>9, MoveSteps

\* An idle queue stays one that ends with a wait-all.
LEMMA NextIdleLast ==
  ASSUME Base, DestroyOK, DestroyLast, IdleLast, [Next]_vars
  PROVE  IdleLast'
BY LastSteps DEF IdleLast, NewWaitAll, WaitAllCmd, BatchSync, DestroyCmd

\* Every second wait-all needs a submission before it.
LEMMA NextWaitBound ==
  ASSUME Base, DestroyOK, DestroyLast, IdleLast, WaitBound, [Next]_vars
  PROVE  WaitBound'
<1>1. /\ waCount \in Nat /\ waCount' \in Nat
      /\ Cardinality(Submitted) \in Nat /\ Cardinality(Submitted') \in Nat
      /\ Cardinality(Submitted) <= Cardinality(Submitted')
      /\ (\E t \in Clients : SubmitEnqueue(t)) =>
           Cardinality(Submitted') = Cardinality(Submitted) + 1
  BY SubmittedGrows, NextTyped DEF Base, TypeOK, BufferType
<1> DEFINE Last(c) == IF c.type \in {"WaitAll", "Destroy"} THEN 0 ELSE 1
           S == Cardinality(Submitted)
           T == Cardinality(Submitted')
<1>2. waCount + Last(lastCmd) <= 1 + S
  BY DEF WaitBound
<1>3. waCount' + Last(lastCmd') <= 1 + T
  <2>1. ASSUME UNCHANGED <<lastCmd, waCount>> PROVE waCount' + Last(lastCmd') <= 1 + T
    BY <1>1, <1>2, <2>1
  <2>2. CASE NewWaitAll(waCount) /\ lastCmd.type \notin {"WaitAll", "Destroy"}
    <3>1. waCount' = waCount + 1 /\ Last(lastCmd) = 1 /\ Last(lastCmd') = 0
      BY <2>2 DEF NewWaitAll, WaitAllCmd
    <3>2. QED
      BY <1>1, <1>2, <3>1
  <2>3. CASE /\ lastCmd' = BatchSync /\ lastCmd.type \notin {"WaitAll", "Destroy"}
             /\ UNCHANGED waCount
    <3>1. Last(lastCmd) = 1 /\ Last(lastCmd') = 1
      BY <2>3 DEF BatchSync
    <3>2. QED
      BY <1>1, <1>2, <2>3, <3>1
  <2>4. ASSUME NEW t \in Clients, SubmitEnqueue(t), UNCHANGED waCount
        PROVE  waCount' + Last(lastCmd') <= 1 + T
    <3>1. T = S + 1 /\ Last(lastCmd) \in {0, 1} /\ Last(lastCmd') \in {0, 1}
      BY <1>1, <2>4
    <3>2. QED
      BY <1>1, <1>2, <2>4, <3>1
  <2>5. CASE lastCmd' = DestroyCmd /\ UNCHANGED waCount
    <3>1. Last(lastCmd) \in {0, 1} /\ Last(lastCmd') = 0
      BY <2>5 DEF DestroyCmd
    <3>2. QED
      BY <1>1, <1>2, <2>5, <3>1
  <2>6. QED
    BY <2>1, <2>2, <2>3, <2>4, <2>5, LastSteps
<1>4. waCount <= waCount' /\ (lastCmd'.type = "WaitAll" => lastCmd'.id < waCount')
  <2>1. lastCmd.type = "WaitAll" => lastCmd.id < waCount
    BY DEF WaitBound
  <2>2. QED
    BY <1>1, <2>1, LastSteps DEF NewWaitAll, WaitAllCmd, BatchSync, DestroyCmd, Hardware
<1>5. ASSUME NEW t \in Clients, pc'[t] = "WaitAll" PROVE arg'[t] < waCount'
  <2>1. CASE pc[t] = "WaitAll" /\ arg'[t] = arg[t]
    <3>1. arg[t] < waCount /\ arg[t] \in Nat
      BY <2>1 DEF WaitBound, Base, TypeOK, ThreadType, Threads
    <3>2. QED
      BY <1>1, <1>4, <2>1, <3>1
  <2>2. ASSUME NEW label \in Labels, BeginWaitAll(t, label) PROVE arg'[t] < waCount'
    <3>1. CASE SharesWaitAll /\ arg'[t] = lastCmd.id /\ UNCHANGED waCount
      <4>1. lastCmd.type = "WaitAll"
        BY <2>2, <3>1, NoLateWaitAll DEF SharesWaitAll, IdleLast
      <4>2. QED
        BY <3>1, <4>1 DEF WaitBound
    <3>2. CASE arg'[t] = waCount /\ NewWaitAll(waCount)
      BY <1>1, <3>2 DEF NewWaitAll
    <3>3. QED
      BY <2>2, <3>1, <3>2, WaitAllBuffers
  <2>3. QED
    BY <1>5, <2>1, <2>2, WaiterSteps
<1>6. QED
  BY <1>3, <1>4, <1>5 DEF WaitBound

\* So the wait-all that is made next has a state.
LEMMA RoomForWaitAll ==
  ASSUME Base, WaitBound
  PROVE  /\ waCount <= MaxCmds + 1
         /\ lastCmd.type \notin {"WaitAll", "Destroy"} => waCount \in WaitAlls
         /\ \A n \in Nat : n < waCount => n \in WaitAlls
<1>1. Submitted \in SUBSET Idx
  BY DEF Submitted
<1>2. IsFiniteSet(Idx) /\ Cardinality(Idx) = MaxCmds /\ MaxCmds \in Nat
  BY InputAssumption, FS_Interval DEF Idx
<1>3. Cardinality(Submitted) <= MaxCmds /\ Cardinality(Submitted) \in Nat
  BY <1>1, <1>2, FS_Subset, FS_CardinalityType
<1>4. waCount \in Nat
  BY DEF Base, TypeOK, BufferType
<1>5. CASE lastCmd.type \in {"WaitAll", "Destroy"}
  <2>1. waCount <= 1 + Cardinality(Submitted)
    BY <1>3, <1>4, <1>5 DEF WaitBound
  <2>2. QED
    BY <1>2, <1>3, <1>4, <1>5, <2>1 DEF WaitAlls
<1>6. CASE lastCmd.type \notin {"WaitAll", "Destroy"}
  <2>1. waCount + 1 <= 1 + Cardinality(Submitted)
    BY <1>3, <1>4, <1>6 DEF WaitBound
  <2>2. QED
    BY <1>2, <1>3, <1>4, <2>1 DEF WaitAlls
<1>7. QED
  BY <1>5, <1>6

\* No command and no wait-all is lost, whatever the threads do.
Delivery == Located /\ WaitLocated /\ DestroyLast /\ IdleLast /\ WaitBound

\* Delivery holds in every reachable state.
LEMMA DeliveryInvariant == Spec => [](Base /\ DestroyOK /\ Delivery)
<1>1. Init => Delivery
  <2> SUFFICES ASSUME Init PROVE Delivery
    OBVIOUS
  <2>1. Located /\ WaitLocated
    <3>1. /\ \A c \in Idx : hwState[c] = Created
          /\ waCount = 1 /\ \A n \in WaitAlls : n < 1 => n = 0
          /\ \A n \in WaitAlls : n = 0 => waState[n] = Completed
      BY DEF Init, WaitAlls
    <3>2. QED
      BY <3>1
      DEF Located, LocatedAt, WaitLocated, WaitLocatedAt, Created, Pending, InFlight
  <2>2. lastCmd.type = "WaitAll" /\ lastCmd.id = 0
    BY DEF Init, WaitAllCmd
  <2>3. DestroyLast /\ IdleLast
    BY <2>2 DEF DestroyLast, IdleLast
  <2>4. WaitBound
    <3>1. Submitted = {} /\ waCount = 1
      BY DEF Init, Submitted, Created, Pending
    <3>2. Cardinality(Submitted) = 0
      BY <3>1, FS_EmptySet
    <3>3. \A t \in Clients : pc[t] # "WaitAll"
      BY ThreadsAssumption DEF Init, Threads
    <3>4. QED
      BY <2>2, <3>1, <3>2, <3>3 DEF WaitBound
  <2>5. QED
    BY <2>1, <2>3, <2>4 DEF Delivery
<1>2. Base /\ DestroyOK /\ Delivery /\ [Next]_vars => Delivery'
  BY NextLocated, NextWaitLocated, NextDestroyLast, NextIdleLast, NextWaitBound
  DEF Delivery
<1>3. QED
  BY <1>1, <1>2, DestroyInvariant, PTL DEF Spec

-----------------------------------------------------------------------------
(* What a wait-all waits for *)

\* The worker is done with a wait-all, or ends, with nothing in flight.
WaitsForAll ==
  /\ pc[Worker] \in SyncLabels /\ ret[Worker] \in {"WaitAllDone", "DestroyDone"}
       => arg[Worker] = All
  /\ pc[Worker] \in {"WaitAllDone", "DestroyDone"} => cmdLog = <<>>

\* A synchronization with everything empties the log.
LEMMA PopsAll ==
  ASSUME Base, NEW t \in Threads, SyncRelock(t), ~PausedMeanwhile(t), arg[t] = All
  PROVE  cmdLog' = <<>>
<1>1. cmdLog \in Seq(Idx) /\ Len(cmdLog) \in Nat /\ cmdLog' = PopThrough(cmdLog, All)
  BY LogElements DEF SyncRelock, Base, TypeOK, LogType
<1>2. PopCount(cmdLog, All) = Len(cmdLog)
  BY <1>1, PopCountIsPrefix DEF FinishedWith
<1>3. Len(cmdLog') = 0
  BY <1>1, <1>2, PopThroughIsRest
<1>4. cmdLog' \in Seq(Idx)
  BY <1>1, <1>2, SubSeqProperties DEF PopThrough
<1>5. QED
  BY <1>3, <1>4, EmptySeq, LenProperties

\* The worker gets to the end of a wait-all with an empty log, and keeps the mutex
\* until then.
LEMMA NextWaitsForAll ==
  ASSUME Base, WaitsForAll, [Next]_vars
  PROVE  WaitsForAll'
<1>1. ASSUME pc'[Worker] \notin SyncLabels \cup {"WaitAllDone", "DestroyDone"}
      PROVE  WaitsForAll'
  BY <1>1 DEF WaitsForAll
<1>2. ASSUME pc'[Worker] \notin {"WaitAllDone", "DestroyDone"},
             ret'[Worker] \notin {"WaitAllDone", "DestroyDone"}
      PROVE  WaitsForAll'
  BY <1>2 DEF WaitsForAll
<1>3. CASE Still(Worker)
  <2>1. ASSUME pc[Worker] \in {"WaitAllDone", "DestroyDone"} PROVE cmdLog' = <<>>
    <3>1. cmdLog = <<>> /\ lock = Worker
      BY <2>1 DEF WaitsForAll, Base, LockHeld, Holders, Threads
    <3>2. ASSUME NEW t \in Threads, SyncRelock(t) PROVE FALSE
      BY <3>1, <3>2, ThreadsAssumption DEF SyncRelock, Threads
    <3>3. ~LaunchCommand
      BY <2>1 DEF LaunchCommand
    <3>4. ASSUME NEW t \in Clients, ResumeAndDrop(t) PROVE FALSE
      BY <3>1, <3>4, ThreadsAssumption DEF ResumeAndDrop, Threads
    <3>5. LogsKept
      BY <3>2, <3>3, <3>4, LogSteps DEF Base
    <3>6. QED
      BY <3>1, <3>5 DEF LogsKept
  <2>2. QED
    BY <1>3, <2>1 DEF Still, WaitsForAll
<1>4. CASE Dequeue
  BY <1>1, <1>4
  DEF Dequeue, DequeueFront, DequeueIdle, DequeueGenWaitAll, DequeueGenBatchSync,
     Goto, Base, TypeOK, ThreadType, Threads, SyncLabels
<1>5. CASE LaunchResumed \/ LaunchDrop \/ LaunchCommand
  BY <1>1, <1>5 DEF LaunchResumed, LaunchDrop, LaunchCommand, Goto, Base, TypeOK,
     ThreadType, Threads, SyncLabels
<1>6. CASE LaunchEnter \/ LaunchThreshold \/ BatchSyncEnter
  BY <1>1, <1>2, <1>6
  DEF LaunchEnter, LaunchThreshold, BatchSyncEnter, CallSync, Goto, Base,
     TypeOK, ThreadType, Threads, SyncLabels
<1>7. CASE WaitAllDone \/ BatchSyncDone \/ DestroyDone
  BY <1>1, <1>7 DEF WaitAllDone, BatchSyncDone, DestroyDone, Goto, Base, TypeOK,
     ThreadType, Threads, SyncLabels
<1>8. CASE WaitAllEnter \/ DestroyEnter
  BY <1>8 DEF WaitAllEnter, DestroyEnter, CallSync, Goto, Base, TypeOK,
     ThreadType, Threads, SyncLabels, WaitsForAll
<1>9. CASE SyncCheck(Worker)
  <2>1. /\ UNCHANGED <<cmdLog, ret, arg>> /\ pc[Worker] \in {"Sync", "SyncPaused"}
        /\ wstate # "Terminated"
    BY <1>9 DEF SyncCheck, ThreadStep, logVars, Base, EndedIsExited
  <2>2. \/ pc'[Worker] \in {"SyncHw", "SyncPaused"}
        \/ pc'[Worker] = ret[Worker] /\ NothingToSync(Worker)
    BY <1>9 DEF SyncCheck, Goto, Base, TypeOK, ThreadType, Threads
  <2>3. QED
    BY <2>1, <2>2 DEF WaitsForAll, SyncLabels, NothingToSync
<1>10. CASE SyncHw(Worker)
  BY <1>10
  DEF SyncHw, Goto, localVars, Base, TypeOK, ThreadType, Threads, SyncLabels, WaitsForAll
<1>11. CASE SyncRelock(Worker)
  <2>1. /\ UNCHANGED <<ret, arg>> /\ pc[Worker] = "SyncRelock"
        /\ pc'[Worker] = IF PausedMeanwhile(Worker) THEN "Sync" ELSE ret[Worker]
    BY <1>11 DEF SyncRelock, Goto, Base, TypeOK, ThreadType, Threads
  <2>2. ~PausedMeanwhile(Worker) /\ arg[Worker] = All => cmdLog' = <<>>
    BY <1>11, PopsAll DEF Threads
  <2>3. QED
    BY <2>1, <2>2 DEF WaitsForAll, SyncLabels
<1>12. QED
  BY <1>3, <1>4, <1>5, <1>6, <1>7, <1>8, <1>9, <1>10, <1>11, WorkerStill
  DEF Base, WorkerLoop, LaunchHwCommand, Sync

\* Command c is completed before wait-all n is: it is, or it is in flight, or the
\* worker has got to c but not to n, or both are in the buffer in this order.
InBufferBefore(c, n) ==
  \E i, j \in 1..Len(cmds) :
    /\ i < j
    /\ cmds[i].type = "Hardware" /\ cmds[i].id = c
    /\ cmds[j].type = "WaitAll" /\ cmds[j].id = n
Before(c, n) ==
  \/ hwState[c] = Completed
  \/ Logged(c) /\ waState[n] # Completed
  \/ Held(c) /\ waState[n] = Pending
  \/ InBufferBefore(c, n)

\* What is held or buffered is pending, and the worker holds one command.
LEMMA PendingPlaces ==
  ASSUME Base
  PROVE  /\ \A c \in Idx : Held(c) \/ Buffered(c) => hwState[c] = Pending
         /\ \A c \in Idx : Logged(c) => hwState[c] = InFlight
         /\ \A n \in WaitAlls : WaitBuffered(n) => waState[n] = Pending /\ n < waCount
         /\ ~(HoldsHw /\ HoldsWait)
<1>1. \A j \in 1..Len(cmds) : StatePending(cmds[j])
  BY DEF Base, Owned, BufferOwned
<1>2. HoldsHw => Holding /\ cur.type = "Hardware"
  BY DEF HoldsHw, Holding, Stateful, Base, ControlOK
<1>3. Holding => StatePending(cur)
  BY DEF Base, Owned, WorkerOwned
<1>4. ~(HoldsHw /\ HoldsWait)
  BY <1>2 DEF HoldsHw, HoldsWait, Base, Owned, WorkerOwned
<1>5. QED
  BY <1>1, <1>2, <1>3, <1>4
  DEF StatePending, Held, Buffered, WaitBuffered, Logged, Base, LogOK,
     LogInFlight

\* A wait-all that is completed had nothing before it that is not.
LEMMA BeforeCompleted ==
  ASSUME Base, NEW c \in Idx, NEW n \in WaitAlls, Before(c, n), waState[n] = Completed
  PROVE  hwState[c] = Completed
<1>1. InBufferBefore(c, n) => WaitBuffered(n)
  BY DEF InBufferBefore, WaitBuffered
<1>2. QED
  BY <1>1, PendingPlaces DEF Before, Completed, Pending

\* The order in the buffer is kept until the worker takes the first of the two.
LEMMA OrderTaken ==
  ASSUME Base, DequeueFront, NEW c \in Idx, NEW n \in WaitAlls, InBufferBefore(c, n)
  PROVE  InBufferBefore(c, n)' \/ (cur'.type = "Hardware" /\ cur'.id = c)
<1>1. /\ Len(cmds) \in Nat /\ Len(cmds') = Len(cmds) - 1 /\ cur' = cmds[1]
      /\ \A j \in 1..Len(cmds') : cmds'[j] = cmds[j + 1]
  BY FrontTaken DEF Base
<1>2. PICK i, j \in 1..Len(cmds) : /\ i < j
                                   /\ cmds[i].type = "Hardware" /\ cmds[i].id = c
                                   /\ cmds[j].type = "WaitAll" /\ cmds[j].id = n
  BY DEF InBufferBefore
<1>3. CASE i = 1
  BY <1>1, <1>2, <1>3
<1>4. CASE i # 1
  <2>1. /\ i - 1 \in 1..Len(cmds') /\ j - 1 \in 1..Len(cmds') /\ i - 1 < j - 1
        /\ (i - 1) + 1 = i /\ (j - 1) + 1 = j
    BY <1>1, <1>2, <1>4
  <2>2. cmds'[i - 1] = cmds[i] /\ cmds'[j - 1] = cmds[j]
    BY <1>1, <2>1
  <2>3. QED
    BY <1>2, <2>1, <2>2 DEF InBufferBefore
<1>5. QED
  BY <1>3, <1>4

\* ... and by an enqueue.
LEMMA OrderKept ==
  ASSUME Base, NEW d \in XCommand, cmds' = Append(cmds, d), NEW c, NEW n
  PROVE  /\ InBufferBefore(c, n) => InBufferBefore(c, n)'
         /\ Buffered(c) /\ d.type = "WaitAll" /\ d.id = n => InBufferBefore(c, n)'
<1>1. /\ Len(cmds) \in Nat /\ Len(cmds') = Len(cmds) + 1 /\ cmds'[Len(cmds) + 1] = d
      /\ \A j \in 1..Len(cmds) : cmds'[j] = cmds[j]
  BY Appended DEF Base
<1>2. /\ Len(cmds) + 1 \in 1..Len(cmds')
      /\ \A j \in 1..Len(cmds) : j \in 1..Len(cmds') /\ j < Len(cmds) + 1
  BY <1>1
<1>3. QED
  BY <1>1, <1>2 DEF InBufferBefore, Buffered

\* No step lets a wait-all overtake a command that was before it.
LEMMA NextBefore ==
  ASSUME Base, DestroyOK, DropOK, WaitsForAll, [Next]_vars,
         NEW c \in Idx, NEW n \in WaitAlls, n < waCount, Before(c, n)
  PROVE  Before(c, n)'
<1>1. /\ hwState \in [Idx -> CommandState] /\ hwState' \in [Idx -> CommandState]
      /\ waState \in [WaitAlls -> CommandState] /\ waCount \in Nat /\ n \in Nat
  BY NextTyped DEF Base, TypeOK, CommandType, BufferType, WaitAlls
<1>2. hwState[c] = Completed => hwState'[c] = Completed
  <2>1. hwState'[c] >= hwState[c]
    BY NextForward DEF Base, Forward
  <2>2. QED
    BY <1>1, <2>1 DEF CommandState, Created, Completed
<1>3. ASSUME Keeps, UNCHANGED <<cmdLog, waState>>,
             InBufferBefore(c, n) => InBufferBefore(c, n)'
      PROVE  Before(c, n)'
  BY <1>2, <1>3 DEF Before, Keeps, Held, Logged
<1>4. CASE Dequeue /\ DequeueFront
  <2>1. UNCHANGED <<hwState, cmdLog, waState>>
    BY <1>4, DequeueBuffers
  <2>2. InBufferBefore(c, n) => WaitBuffered(n)
    BY DEF InBufferBefore, WaitBuffered
  <2>3. QED
    BY <1>4, <2>1, <2>2, OrderTaken, HoldChanges, PendingPlaces DEF Before, Held, Logged
<1>5. CASE Dequeue /\ (DequeueGenWaitAll \/ DequeueGenBatchSync)
  <2>1. UNCHANGED <<hwState, cmdLog>> /\ ~Held(c) /\ ~InBufferBefore(c, n)
    BY <1>5, DequeueBuffers, HoldChanges DEF Held, InBufferBefore
  <2>2. waState'[n] = waState[n]
    BY <1>1, <1>5, DequeueBuffers DEF NewWaitAll
  <2>3. QED
    BY <2>1, <2>2 DEF Before, Logged
<1>6. CASE LaunchDrop
  <2>1. UNCHANGED <<cmds, cmdLog, waState>> /\ Complete({cur.id})
    BY <1>6 DEF LaunchDrop, bufVars, logVars
  <2>2. QED
    BY <1>1, <1>2, <2>1 DEF Before, Complete, Held, Logged, InBufferBefore
<1>7. CASE LaunchCommand
  <2>1. UNCHANGED <<cmds, waState>>
    BY <1>7 DEF LaunchCommand, bufVars
  <2>2. \A d : Logged(d)' <=> Logged(d) \/ d = cur.id
    BY <1>7, LaunchLogs
  <2>3. Pending # Completed
    BY DEF Pending, Completed
  <2>4. QED
    BY <1>2, <2>1, <2>2, <2>3 DEF Before, Held, InBufferBefore
<1>8. CASE WaitAllDone
  <2>1. cmdLog = <<>> /\ ~HoldsHw /\ UNCHANGED <<cmds, hwState, cmdLog>>
    BY <1>8, HoldChanges DEF WaitAllDone, WaitsForAll, cmdVars, logVars
  <2>2. ~Logged(c) /\ ~Held(c)
    BY <2>1 DEF Logged, Held
  <2>3. QED
    BY <2>1, <2>2 DEF Before, InBufferBefore
<1>9. CASE Keeps
  <2>1. CASE UNCHANGED <<cmds, lastCmd, xqState, waCount, waState, hwState, cmdLog>>
    BY <1>3, <1>9, <2>1 DEF InBufferBefore
  <2>2. CASE Dequeue /\ DequeueIdle
    BY <1>3, <1>9, <2>2, DequeueBuffers DEF InBufferBefore
  <2>3. CASE WaitAllEnter
    <3>1. /\ UNCHANGED <<cmds, cmdLog>> /\ ~Held(c)
          /\ waState' = [waState EXCEPT ![cur.id] = InFlight]
      BY <2>3, PendingPlaces DEF WaitAllEnter, HoldsWait, Held, logVars
    <3>2. waState'[n] = waState[n] \/ waState'[n] = InFlight
      BY <1>1, <3>1
    <3>3. QED
      BY <1>2, <3>1, <3>2 DEF Before, Logged, InBufferBefore, InFlight, Completed
  <2>4. ASSUME NEW t \in Threads, SyncRelock(t) PROVE Before(c, n)'
    <3>1. UNCHANGED <<cmds, waState>>
      BY <2>4 DEF SyncRelock, bufVars
    <3>2. QED
      BY <1>2, <1>9, <2>4, <3>1, Relocked DEF Before, Keeps, Held, InBufferBefore
  <2>5. ASSUME NEW t \in Clients, NEW label \in Labels, BeginWaitAll(t, label)
        PROVE  Before(c, n)'
    <3>1. UNCHANGED cmdLog
      BY <2>5, WaitAllBuffers
    <3>2. CASE UNCHANGED <<cmds, waState>>
      BY <1>3, <1>9, <3>1, <3>2 DEF InBufferBefore
    <3>3. CASE /\ NewWaitAll(waCount) /\ WaitAllCmd(waCount) \in XCommand
               /\ cmds' = Append(cmds, WaitAllCmd(waCount))
      <4>1. waState'[n] = waState[n]
        BY <1>1, <3>3 DEF NewWaitAll
      <4>2. InBufferBefore(c, n) => InBufferBefore(c, n)'
        BY <3>3, OrderKept
      <4>3. QED
        BY <1>2, <1>9, <3>1, <4>1, <4>2 DEF Before, Keeps, Held, Logged
    <3>4. QED
      BY <2>5, <3>2, <3>3, WaitAllBuffers
  <2>6. ASSUME NEW t \in Clients, SubmitEnqueue(t) PROVE Before(c, n)'
    BY <1>3, <1>9, <2>6, SubmitBuffers, OrderKept
  <2>7. ASSUME NEW t \in Clients, DtorEnqueue(t) PROVE Before(c, n)'
    BY <1>3, <1>9, <2>7, DtorBuffers, OrderKept
  <2>8. ASSUME NEW t \in Clients, DropAll(t) \/ ResumeAndDrop(t) PROVE Before(c, n)'
    <3>1. hwState[c] \in {Created, Completed}
      BY <2>8, DropsNothing DEF Drained, DropAll, ResumeAndDrop
    <3>2. InBufferBefore(c, n) => Buffered(c)
      BY DEF InBufferBefore, Buffered
    <3>3. hwState[c] = Completed
      BY <3>1, <3>2, PendingPlaces DEF Before, Created, Pending, InFlight, Completed
    <3>4. QED
      BY <1>2, <3>3 DEF Before
  <2>9. QED
    BY <1>4, <1>5, <1>6, <1>7, <1>8, <2>1, <2>2, <2>3, <2>4, <2>5, <2>6, <2>7, <2>8,
      MoveSteps
<1>10. QED
  BY <1>4, <1>5, <1>6, <1>7, <1>8, <1>9, MoveSteps

\* A client in a wait-all, and the last wait-all, have everything submitted before
\* them.
Ordered ==
  /\ \A t \in Clients : pc[t] = "WaitAll" => \A c \in must[t] : Before(c, arg[t])
  /\ lastCmd.type = "WaitAll" => \A c \in Submitted : Before(c, lastCmd.id)

\* A new wait-all comes after everything submitted: a client's ...
LEMMA NewBefore ==
  ASSUME Base, Delivery, [Next]_vars, NEW t \in Clients, NEW label, BeginWaitAll(t, label),
         ~SharesWaitAll, lastCmd.type # "Destroy", NEW c \in Submitted,
         NEW n, n = waCount
  PROVE  Before(c, n)'
<1>1. /\ NewWaitAll(waCount) /\ UNCHANGED <<hwState, cmdLog>>
      /\ WaitAllCmd(waCount) \in XCommand /\ cmds' = Append(cmds, WaitAllCmd(waCount))
  BY WaitAllBuffers
<1>2. waCount \in WaitAlls /\ waState \in [WaitAlls -> CommandState]
  BY RoomForWaitAll DEF Delivery, SharesWaitAll, Base, TypeOK, BufferType
<1>3. waState'[waCount] = Pending /\ Pending # Completed
  BY <1>1, <1>2 DEF NewWaitAll, Pending, Completed
<1>4. Keeps
  <2>1. pc'[t] = "WaitAll"
    BY DEF BeginWaitAll, Goto, Base, TypeOK, ThreadType, Threads
  <2>2. UNCHANGED cur /\ \A u \in Threads \ {t} : pc'[u] = pc[u] /\ ret'[u] = ret[u]
    BY DEF BeginWaitAll, Goto, Base, TypeOK, ThreadType
  <2>3. Worker \in Threads \ {t}
    BY ThreadsAssumption DEF Threads
  <2>4. QED
    BY <2>2, <2>3 DEF Keeps, HoldsHw, HoldsWait, Launching, Waiting
<1>5. c \in Idx /\ hwState[c] \in {Pending, InFlight, Completed}
  BY
  DEF Submitted, Base, TypeOK, CommandType, CommandState, Created, Pending, InFlight, Completed
<1>6. CASE hwState[c] = Completed
  BY <1>1, <1>6 DEF Before
<1>7. CASE Logged(c)
  BY <1>1, <1>3, <1>7 DEF Before, Logged
<1>8. CASE Held(c)
  BY <1>3, <1>4, <1>8 DEF Before, Held, Keeps
<1>9. CASE Buffered(c)
  <2>1. WaitAllCmd(waCount).type = "WaitAll" /\ WaitAllCmd(waCount).id = waCount
    BY DEF WaitAllCmd
  <2>2. InBufferBefore(c, n)'
    BY <1>1, <1>9, <2>1, OrderKept
  <2>3. QED
    BY <2>2 DEF Before
<1>10. QED
  BY <1>5, <1>6, <1>7, <1>8, <1>9 DEF Delivery, Located, LocatedAt

\* ... and one the worker generates when the buffer is empty.
LEMMA GeneratedBefore ==
  ASSUME Base, Delivery, Dequeue, DequeueGenWaitAll, NEW c \in Submitted, NEW n, n = waCount
  PROVE  Before(c, n)'
<1>1. NewWaitAll(waCount) /\ UNCHANGED <<hwState, cmdLog>> /\ cmds = <<>> /\ ~HoldsHw
  BY DequeueBuffers, HoldChanges
<1>2. waCount \in WaitAlls /\ waState \in [WaitAlls -> CommandState]
  BY RoomForWaitAll DEF Delivery, DequeueGenWaitAll, Base, TypeOK, BufferType
<1>3. waState'[n] = Pending /\ Pending # Completed
  BY <1>1, <1>2 DEF NewWaitAll, Pending, Completed
<1>4. c \in Idx /\ hwState[c] \in {Pending, InFlight, Completed}
  BY
  DEF Submitted, Base, TypeOK, CommandType, CommandState, Created, Pending, InFlight, Completed
<1>5. ~Held(c) /\ ~Buffered(c)
  BY <1>1 DEF Held, Buffered
<1>6. hwState[c] = Completed \/ Logged(c)
  BY <1>4, <1>5 DEF Delivery, Located, LocatedAt
<1>7. QED
  BY <1>1, <1>3, <1>6 DEF Before, Logged

\* Only an enqueue makes a command a submitted one.
LEMMA SubmittedSame ==
  ASSUME Base, [Next]_vars, \A t \in Clients : ~SubmitEnqueue(t)
  PROVE  Submitted' = Submitted
<1>1. hwState \in [Idx -> CommandState] /\ hwState' \in [Idx -> CommandState] /\ Forward
  BY NextTyped, NextForward DEF Base, TypeOK, CommandType
<1>2. SUFFICES ASSUME NEW c \in Idx, hwState[c] = Created PROVE hwState'[c] = Created
  <2>1. \A c \in Idx : (hwState[c] = Created <=> hwState'[c] = Created)
    BY <1>1, <1>2 DEF Forward, CommandState, Created, Completed
  <2>2. QED
    BY <1>1, <2>1 DEF Submitted, CommandState, Created, Completed, Pending
<1>3. ~Held(c) /\ ~Buffered(c) /\ ~Logged(c)
  BY <1>2, PendingPlaces DEF Created, Pending, InFlight
<1>4. ASSUME NEW t \in Threads, SyncRelock(t) PROVE hwState'[c] = Created
  BY <1>2, <1>3, <1>4, Relocked
<1>5. CASE LaunchDrop \/ LaunchCommand
  <2>1. HoldsHw /\ cur.id # c
    BY <1>3, <1>5, HoldChanges DEF Held
  <2>2. QED
    BY <1>1, <1>2, <1>5, <2>1 DEF LaunchDrop, LaunchCommand, Complete
<1>6. ASSUME NEW t \in Clients, DropAll(t) PROVE hwState'[c] = Created
  <2>1. c \notin OfType(cmds, "Hardware")
    BY <1>3 DEF OfType, Buffered
  <2>2. QED
    BY <1>2, <1>6, <2>1 DEF DropAll, Complete
<1>7. ASSUME NEW t \in Clients, ResumeAndDrop(t) PROVE hwState'[c] = Created
  <2>1. c \notin InLog(cmdLog)
    BY <1>3 DEF InLog, Logged
  <2>2. QED
    BY <1>2, <1>7, <2>1 DEF ResumeAndDrop, Complete
<1>8. QED
  BY <1>2, <1>4, <1>5, <1>6, <1>7, StateSteps

\* No step takes a command out of the order it was submitted in with wait-alls.
LEMMA NextOrdered ==
  ASSUME Base, DestroyOK, DropOK, Delivery, WaitsForAll, Ordered, [Next]_vars
  PROVE  Ordered'
<1>1. DestroyLast /\ IdleLast /\ WaitBound
  BY DEF Delivery
<1>2. /\ waCount \in Nat /\ lastCmd.id \in Nat /\ Submitted \in SUBSET Idx
      /\ \A t \in Clients : must[t] \in SUBSET Idx /\ arg[t] \in Nat
  BY CommandFields
  DEF Base, TypeOK, BufferType, HistoryType, ThreadType, Threads, Submitted
<1>3. ASSUME NEW c \in Idx, NEW n \in Nat, n < waCount, Before(c, n) PROVE Before(c, n)'
  BY <1>1, <1>3, NextBefore, RoomForWaitAll
<1>4. ASSUME lastCmd.type = "WaitAll", NEW c \in Submitted, NEW n, n = lastCmd.id
      PROVE  Before(c, n)'
  <2>1. n \in Nat /\ n < waCount /\ c \in Idx
    BY <1>1, <1>2, <1>4 DEF WaitBound
  <2>2. Before(c, n)
    BY <1>4 DEF Ordered
  <2>3. QED
    BY <1>3, <2>1, <2>2
<1>5. ASSUME NEW t \in Clients, NEW label \in Labels, BeginWaitAll(t, label)
      PROVE  \A c \in Submitted : Before(c, arg[t])'
  <2>1. lastCmd.type # "Destroy"
    BY <1>1, <1>5, NoLateWaitAll
  <2>2. CASE SharesWaitAll
    <3>1. lastCmd.type = "WaitAll" /\ arg'[t] = lastCmd.id
      BY <1>1, <1>5, <2>1, <2>2, WaitAllBuffers DEF SharesWaitAll, IdleLast
    <3>2. PICK n : n = lastCmd.id
      OBVIOUS
    <3>3. \A c \in Submitted : Before(c, n)'
      BY <1>4, <3>1, <3>2
    <3>4. QED
      BY <3>1, <3>2, <3>3 DEF Before, InBufferBefore
  <2>3. CASE ~SharesWaitAll
    <3>1. arg'[t] = waCount
      BY <1>5, <2>3, WaitAllBuffers
    <3>2. PICK n : n = waCount
      OBVIOUS
    <3>3. \A c \in Submitted : Before(c, n)'
      BY <1>5, <2>1, <2>3, <3>2, NewBefore
    <3>4. QED
      BY <3>1, <3>2, <3>3 DEF Before, InBufferBefore
  <2>4. QED
    BY <2>2, <2>3
<1>6. ASSUME NEW t \in Clients, pc'[t] = "WaitAll"
      PROVE  \A c \in must'[t] : Before(c, arg[t])'
  <2>1. CASE pc[t] = "WaitAll" /\ arg'[t] = arg[t] /\ must'[t] = must[t]
    <3>1. PICK n : n = arg[t]
      OBVIOUS
    <3>2. \A c \in must[t] : Before(c, n)
      BY <2>1, <3>1 DEF Ordered
    <3>3. n \in Nat /\ n < waCount
      BY <1>1, <1>2, <2>1, <3>1 DEF WaitBound
    <3>4. \A c \in must[t] : Before(c, n)'
      BY <1>2, <1>3, <3>2, <3>3
    <3>5. QED
      BY <2>1, <3>1, <3>4 DEF Before, InBufferBefore
  <2>2. ASSUME NEW label \in Labels, BeginWaitAll(t, label)
        PROVE  \A c \in must'[t] : Before(c, arg[t])'
    <3>1. must'[t] = Submitted
      BY <2>2 DEF BeginWaitAll, Base, TypeOK, HistoryType, Threads
    <3>2. QED
      BY <1>5, <2>2, <3>1
  <2>3. QED
    BY <1>6, <2>1, <2>2, WaiterSteps
<1>7. ASSUME lastCmd'.type = "WaitAll" PROVE \A c \in Submitted' : Before(c, lastCmd.id)'
  <2>1. ASSUME NEW t \in Clients, SubmitEnqueue(t) PROVE FALSE
    <3>1. lastCmd' = Hardware(arg[t])
      BY <2>1, SubmitBuffers
    <3>2. QED
      BY <1>7, <3>1 DEF Hardware
  <2>2. Submitted' = Submitted
    BY <2>1, SubmittedSame
  <2>3. CASE UNCHANGED lastCmd
    <3>1. PICK n : n = lastCmd.id
      OBVIOUS
    <3>2. \A c \in Submitted : Before(c, n)'
      BY <1>4, <1>7, <2>3, <3>1
    <3>3. QED
      BY <2>2, <2>3, <3>1, <3>2 DEF Before, InBufferBefore
  <2>4. CASE NewWaitAll(waCount) /\ lastCmd.type \notin {"WaitAll", "Destroy"}
    <3>1. PICK n : n = waCount
      OBVIOUS
    <3>2. lastCmd'.id = n
      BY <2>4, <3>1 DEF NewWaitAll, WaitAllCmd
    <3>3. UNCHANGED lastCmd => FALSE
      BY <1>7, <2>4
    <3>4. \A c \in Submitted : Before(c, n)'
      <4>1. CASE Dequeue /\ DequeueGenWaitAll
        BY <3>1, <4>1, GeneratedBefore
      <4>2. ASSUME NEW t \in Clients, NEW label \in Labels, BeginWaitAll(t, label)
            PROVE  \A c \in Submitted : Before(c, n)'
        <5>1. ~SharesWaitAll
          BY <3>3, <4>2, WaitAllBuffers
        <5>2. QED
          BY <2>4, <3>1, <4>2, <5>1, NewBefore
      <4>3. QED
        <5>1. CASE Dequeue
          BY <1>7, <3>3, <4>1, <5>1, DequeueBuffers DEF Dequeue, BatchSync
        <5>2. ASSUME LaunchDrop \/ LaunchCommand \/ WaitAllDone \/ WaitAllEnter
              PROVE  FALSE
          BY <3>3, <5>2 DEF LaunchDrop, LaunchCommand, WaitAllDone, WaitAllEnter, bufVars
        <5>3. ASSUME NEW t \in Threads, SyncRelock(t) PROVE FALSE
          BY <3>3, <5>3 DEF SyncRelock, bufVars
        <5>4. ASSUME NEW t \in Clients, DropAll(t) \/ ResumeAndDrop(t) PROVE FALSE
          BY <3>3, <5>4 DEF DropAll, ResumeAndDrop, bufVars
        <5>5. ASSUME NEW t \in Clients, DtorEnqueue(t) PROVE FALSE
          BY <1>7, <5>5, DtorBuffers DEF DestroyCmd
        <5>6. QED
          BY <2>1, <3>3, <4>2, <5>1, <5>2, <5>3, <5>4, <5>5, MoveSteps
    <3>5. QED
      BY <2>2, <3>2, <3>4 DEF Before, InBufferBefore
  <2>5. QED
    BY <1>1, <1>7, <2>1, <2>3, <2>4, LastSteps DEF BatchSync, DestroyCmd
<1>8. QED
  BY <1>6, <1>7 DEF Ordered

\* The worker finds the buffer empty after a wait-all: everything is completed.
LEMMA FoundIdle ==
  ASSUME Base, Delivery, Ordered, DequeueIdle
  PROVE  /\ waState[lastCmd.id] = Completed
         /\ \A c \in Submitted : hwState[c] = Completed
<1>1. lastCmd.type = "WaitAll" /\ cmds = <<>> /\ pc[Worker] = "Dequeue"
  BY DEF DequeueIdle, EverythingWaitedFor
<1>2. PICK n : n = lastCmd.id
  OBVIOUS
<1>3. n \in WaitAlls /\ n < waCount
  <2>1. n \in Nat
    BY <1>2, CommandFields DEF Base, TypeOK, BufferType
  <2>2. n < waCount
    BY <1>1, <1>2 DEF Delivery, WaitBound
  <2>3. QED
    BY <2>1, <2>2, RoomForWaitAll DEF Delivery
<1>4. ~WaitHeld(n) /\ ~WaitBuffered(n)
  BY <1>1 DEF WaitHeld, WaitBuffered, HoldsWait, Waiting, SyncLabels
<1>5. waState[n] = Completed
  BY <1>3, <1>4 DEF Delivery, WaitLocated, WaitLocatedAt
<1>6. ASSUME NEW c \in Submitted PROVE hwState[c] = Completed
  <2>1. Before(c, n) /\ c \in Idx
    BY <1>1, <1>2, <1>6 DEF Ordered, Submitted
  <2>2. QED
    BY <1>3, <1>5, <2>1, BeforeCompleted
<1>7. QED
  BY <1>2, <1>5, <1>6

\* An idle queue stays done until something is submitted.
LEMMA NextIdleDone ==
  ASSUME Base, DestroyOK, Delivery, Ordered, IdleMeansDone, [Next]_vars
  PROVE  IdleMeansDone'
<1>1. SUFFICES ASSUME xqState' = "Idle"
               PROVE  /\ \A c \in Submitted' : hwState'[c] = Completed
                      /\ lastCmd'.type = "WaitAll" => waState'[lastCmd'.id] = Completed
  BY DEF IdleMeansDone
<1>2. /\ hwState' \in [Idx -> CommandState] /\ waState' \in [WaitAlls -> CommandState]
      /\ hwState \in [Idx -> CommandState] /\ waState \in [WaitAlls -> CommandState]
      /\ Forward /\ lastCmd.id \in Nat
  BY NextTyped, NextForward, CommandFields DEF Base, TypeOK, CommandType, BufferType
<1>3. /\ \A c \in Idx : hwState[c] = Completed => hwState'[c] = Completed
      /\ \A n \in WaitAlls : waState[n] = Completed => waState'[n] = Completed
  BY <1>2 DEF Forward, CommandState, Created, Completed
<1>4. ASSUME NEW t \in Clients, SubmitEnqueue(t) PROVE FALSE
  BY <1>1, <1>4, SubmitBuffers
<1>5. Submitted' = Submitted /\ Submitted \in SUBSET Idx
  BY <1>4, SubmittedSame DEF Submitted
<1>6. DestroyLast /\ WaitBound /\ IdleLast
  BY DEF Delivery
<1>7. lastCmd.type = "WaitAll" => lastCmd.id \in WaitAlls
  BY <1>2, <1>6, RoomForWaitAll DEF WaitBound
<1>8. CASE xqState = "Idle"
  <2>1. /\ \A c \in Submitted : hwState[c] = Completed
        /\ lastCmd.type = "WaitAll" => waState[lastCmd.id] = Completed
    BY <1>8 DEF IdleMeansDone
  <2>2. lastCmd'.type = "WaitAll" => UNCHANGED lastCmd
    BY <1>4, <1>6, <1>8, LastSteps DEF IdleLast, BatchSync, DestroyCmd
  <2>3. QED
    BY <1>3, <1>5, <1>7, <2>1, <2>2
<1>9. CASE xqState # "Idle"
  <2>1. DequeueIdle /\ Dequeue
    <3>1. CASE Dequeue
      BY <1>1, <1>9, <3>1, DequeueBuffers DEF Dequeue, NewWaitAll
    <3>2. ASSUME LaunchDrop \/ LaunchCommand \/ WaitAllDone \/ WaitAllEnter PROVE FALSE
      BY <1>1, <1>9, <3>2
      DEF LaunchDrop, LaunchCommand, WaitAllDone, WaitAllEnter, bufVars
    <3>3. ASSUME NEW t \in Threads, SyncRelock(t) PROVE FALSE
      BY <1>1, <1>9, <3>3 DEF SyncRelock, bufVars
    <3>4. ASSUME NEW t \in Clients, DropAll(t) \/ ResumeAndDrop(t) PROVE FALSE
      BY <1>1, <1>9, <3>4 DEF DropAll, ResumeAndDrop, bufVars
    <3>5. ASSUME NEW t \in Clients, DtorEnqueue(t) PROVE FALSE
      BY <1>1, <1>9, <3>5, DtorBuffers
    <3>6. ASSUME NEW t \in Clients, NEW label \in Labels, BeginWaitAll(t, label)
          PROVE  FALSE
      BY <1>1, <1>9, <3>6, WaitAllBuffers
    <3>7. QED
      BY <1>1, <1>4, <1>9, <3>1, <3>2, <3>3, <3>4, <3>5, <3>6, MoveSteps
  <2>2. UNCHANGED lastCmd /\ lastCmd.type = "WaitAll"
    BY <2>1, DequeueBuffers DEF DequeueIdle, EverythingWaitedFor
  <2>3. QED
    BY <1>3, <1>5, <1>7, <2>1, <2>2, FoundIdle
<1>10. QED
  BY <1>8, <1>9

\* The invariant that says which commands a wait-all waits for.
LEMMA OrderedInvariant ==
  NeverDrops /\ Spec =>
    [](Base /\ DestroyOK /\ Delivery /\ DropOK /\ WaitsForAll /\ Ordered /\ IdleMeansDone)
<1>1. NeverDrops /\ Init => DropOK /\ WaitsForAll /\ Ordered /\ IdleMeansDone
  <2> SUFFICES ASSUME NeverDrops, Init PROVE DropOK /\ WaitsForAll /\ Ordered /\ IdleMeansDone
    OBVIOUS
  <2>1. pc[Worker] = "Dequeue" /\ \A t \in Clients : pc[t] = "Idle"
    BY ThreadsAssumption DEF Init, Threads
  <2>2. DropOK
    BY <2>1 DEF DropOK, DropsOnlyInDtor, DropsInDtor, ResumeLabels
  <2>3. WaitsForAll
    BY <2>1 DEF WaitsForAll, SyncLabels
  <2>4. Submitted = {}
    BY DEF Init, Submitted, Created, Pending
  <2>5. Ordered
    BY <2>1, <2>4 DEF Ordered
  <2>6. waState[lastCmd.id] = Completed
    BY InputAssumption DEF Init, WaitAllCmd, WaitAlls
  <2>7. QED
    BY <2>2, <2>3, <2>4, <2>5, <2>6 DEF IdleMeansDone
<1>2. /\ Base /\ DestroyOK /\ Delivery /\ DropOK /\ WaitsForAll /\ Ordered /\ IdleMeansDone
      /\ [Next]_vars
     => DropOK' /\ WaitsForAll' /\ Ordered' /\ IdleMeansDone'
  BY NextDrops, NextWaitsForAll, NextOrdered, NextIdleDone
<1>3. QED
  BY <1>1, <1>2, DeliveryInvariant, PTL DEF Spec

\* A queue that reports idle has nothing left to do: every submitted command is
\* completed, and so is the wait-all that XQueueWaitAll returns then.  The worker
\* reports idle from the last command alone; that everything before it is completed
\* follows from the order of the buffer and the log.  A resume that drops commands
\* completes wait-alls before it completes the log, hence the hypothesis.
THEOREM IdleIsDone == NeverDrops /\ Spec => []IdleMeansDone
BY OrderedInvariant, PTL

-----------------------------------------------------------------------------
(* One submitter *)

\* Hypothesis: one thread submits.  Then the commands are buffered, launched and
\* logged in the order of their indices, which Submit hands out.
OneSubmitter == \A s, t \in Submitters : s = t
LogAscends == \A i, j \in 1..Len(cmdLog) : i < j => cmdLog[i] < cmdLog[j]
LogFirst == \A c, d \in Idx : Logged(c) /\ (Held(d) \/ Buffered(d)) => c < d
HeldFirst == \A c, d \in Idx : Held(c) /\ Buffered(d) => c < d
BufferAscends ==
  \A i, j \in 1..Len(cmds) :
    i < j /\ cmds[i].type = "Hardware" /\ cmds[j].type = "Hardware" => cmds[i].id < cmds[j].id
SubmitLast ==
  \A t \in Clients : pc[t] = "Submit" => t \in Submitters /\ \A c \in Submitted : c < arg[t]
Ascending == LogAscends /\ LogFirst /\ HeldFirst /\ BufferAscends /\ SubmitLast

\* What is somewhere has been submitted.
LEMMA PlacesSubmitted ==
  ASSUME Base, NEW c \in Idx, Held(c) \/ Buffered(c) \/ Logged(c)
  PROVE  c \in Submitted
BY PendingPlaces DEF Submitted, Pending, InFlight

\* Only a launch adds to the log.
LEMMA LogShrinks ==
  ASSUME Base, [Next]_vars, ~LaunchCommand, NEW c \in Idx, Logged(c)'
  PROVE  Logged(c)
<1>1. ASSUME NEW t \in Threads, SyncRelock(t) PROVE Logged(c)
  BY <1>1, Relocked
<1>2. ASSUME NEW t \in Clients, ResumeAndDrop(t) PROVE FALSE
  BY <1>2 DEF ResumeAndDrop, Logged
<1>3. CASE LogsKept
  BY <1>3 DEF LogsKept, Logged
<1>4. QED
  BY <1>1, <1>2, <1>3, LogSteps DEF Base

\* Where a command is held or buffered after a step.
LEMMA PlaceSteps ==
  ASSUME Base, [Next]_vars
  PROVE  \/ Dequeue /\ DequeueFront
         \/ LaunchCommand
         \/ /\ \A c \in Idx : Held(c)' => Held(c)
            /\ \/ \A c \in Idx : Buffered(c)' => Buffered(c)
               \/ \E t \in Clients : /\ SubmitEnqueue(t)
                                     /\ \A c \in Idx : Buffered(c)' => Buffered(c) \/ c = arg[t]
<1>1. ASSUME Keeps PROVE \A c \in Idx : Held(c)' => Held(c)
  BY <1>1 DEF Keeps, Held
<1>2. ASSUME UNCHANGED cmds PROVE \A c \in Idx : Buffered(c)' => Buffered(c)
  BY <1>2 DEF Buffered
<1>3. CASE Dequeue /\ (DequeueGenWaitAll \/ DequeueGenBatchSync)
  BY <1>2, <1>3, DequeueBuffers, HoldChanges DEF Held
<1>4. CASE LaunchDrop \/ WaitAllDone
  <2>1. UNCHANGED cmds
    BY <1>4 DEF LaunchDrop, WaitAllDone, bufVars
  <2>2. QED
    BY <1>2, <1>4, <2>1, HoldChanges DEF Held
<1>5. ASSUME Dequeue /\ DequeueIdle PROVE UNCHANGED cmds
  BY <1>5, DequeueBuffers
<1>6. ASSUME WaitAllEnter \/ \E t \in Threads : SyncRelock(t) PROVE UNCHANGED cmds
  BY <1>6 DEF WaitAllEnter, SyncRelock, bufVars
<1>7. ASSUME NEW t \in Clients, NEW label \in Labels, BeginWaitAll(t, label)
      PROVE  \A c \in Idx : Buffered(c)' => Buffered(c)
  <2>1. CASE UNCHANGED cmds
    BY <1>2, <2>1
  <2>2. CASE WaitAllCmd(waCount) \in XCommand /\ cmds' = Append(cmds, WaitAllCmd(waCount))
    BY <2>2, BufferGrows DEF Base, WaitAllCmd
  <2>3. QED
    BY <1>7, <2>1, <2>2, WaitAllBuffers
<1>8. ASSUME NEW t \in Clients, SubmitEnqueue(t)
      PROVE  \A c \in Idx : Buffered(c)' => Buffered(c) \/ c = arg[t]
  <2>1. Hardware(arg[t]) \in XCommand /\ cmds' = Append(cmds, Hardware(arg[t]))
    BY <1>8, SubmitBuffers
  <2>2. QED
    BY <2>1, BufferGrows DEF Base, Hardware
<1>9. ASSUME NEW t \in Clients, DtorEnqueue(t)
      PROVE  \A c \in Idx : Buffered(c)' => Buffered(c)
  BY <1>9, DtorBuffers, BufferGrows DEF Base, DestroyCmd
<1>10. ASSUME NEW t \in Clients, DropAll(t) \/ ResumeAndDrop(t)
       PROVE  \A c \in Idx : Buffered(c)' => Buffered(c)
  BY <1>10 DEF DropAll, ResumeAndDrop, ClearBuffer, bufVars, Buffered
<1>11. QED
  BY <1>1, <1>2, <1>3, <1>4, <1>5, <1>6, <1>7, <1>8, <1>9, <1>10, MoveSteps

\* The log stays in order.
LEMMA NextLogAscends ==
  ASSUME Base, Ascending, [Next]_vars
  PROVE  LogAscends'
<1>1. LogAscends /\ Len(cmdLog) \in Nat /\ cmdLog \in Seq(Idx)
  BY LogElements DEF Ascending, Base, TypeOK, LogType
<1>2. CASE UNCHANGED cmdLog
  BY <1>1, <1>2 DEF LogAscends
<1>3. ASSUME NEW t \in Threads, SyncRelock(t) PROVE LogAscends'
  <2>1. CASE PausedMeanwhile(t)
    BY <1>2, <1>3, <2>1 DEF SyncRelock
  <2>2. CASE ~PausedMeanwhile(t)
    <3>1. PICK p \in 0..Len(cmdLog) : p = PopCount(cmdLog, arg[t])
      BY <1>1, PopCountIsPrefix
    <3>2. /\ Len(cmdLog') = Len(cmdLog) - p
          /\ \A i \in 1..(Len(cmdLog) - p) : cmdLog'[i] = cmdLog[p + i]
      BY <1>1, <1>3, <2>2, <3>1, PopThroughIsRest DEF SyncRelock
    <3>3. \A i, j \in 1..(Len(cmdLog) - p) :
            i < j => p + i < p + j /\ p + i \in 1..Len(cmdLog) /\ p + j \in 1..Len(cmdLog)
      BY <1>1, <3>1
    <3>4. QED
      BY <1>1, <3>2, <3>3 DEF LogAscends
  <2>3. QED
    BY <2>1, <2>2
<1>4. CASE LaunchCommand
  <2>1. cur.id \in Idx /\ cmdLog' = Append(cmdLog, cur.id) /\ Held(cur.id)
    BY <1>4, LaunchingIdx, HoldChanges DEF LaunchCommand, Base, Held
  <2>2. /\ Len(cmdLog') = Len(cmdLog) + 1 /\ cmdLog'[Len(cmdLog) + 1] = cur.id
        /\ \A j \in 1..Len(cmdLog) : cmdLog'[j] = cmdLog[j]
    BY <1>1, <2>1, AppendProperties
  <2>3. \A j \in 1..Len(cmdLog) : cmdLog[j] \in Idx /\ Logged(cmdLog[j])
    BY <1>1, LogElements DEF Logged, Base, TypeOK
  <2>4. \A j \in 1..Len(cmdLog) : cmdLog[j] < cur.id
    BY <2>1, <2>3 DEF Ascending, LogFirst
  <2>5. \A i, j \in 1..Len(cmdLog') :
          i < j => i \in 1..Len(cmdLog) /\ (j \in 1..Len(cmdLog) \/ j = Len(cmdLog) + 1)
    BY <1>1, <2>2
  <2>6. QED
    BY <1>1, <2>2, <2>4, <2>5 DEF LogAscends
<1>5. ASSUME NEW t \in Clients, ResumeAndDrop(t) PROVE LogAscends'
  BY <1>5 DEF ResumeAndDrop, LogAscends
<1>6. QED
  BY <1>2, <1>3, <1>4, <1>5, LogSteps DEF Base, LogsKept

\* What is launched next comes after the log.
LEMMA NextLogFirst ==
  ASSUME Base, Ascending, [Next]_vars
  PROVE  LogFirst'
<1>1. SUFFICES ASSUME NEW c \in Idx, NEW d \in Idx, Logged(c)', Held(d)' \/ Buffered(d)'
               PROVE  c < d
  BY DEF LogFirst
<1>2. ASSUME Logged(c), Held(d) \/ Buffered(d) PROVE c < d
  BY <1>2 DEF Ascending, LogFirst
<1>3. CASE Dequeue /\ DequeueFront
  <2>1. Logged(c)
    BY <1>1, <1>3, DequeueBuffers DEF Logged
  <2>2. Buffered(d)
    BY <1>1, <1>3, BufferShrinks, HoldChanges DEF Base, Held
  <2>3. QED
    BY <1>2, <2>1, <2>2
<1>4. CASE LaunchCommand
  <2>1. /\ Logged(c) \/ Held(c)
        /\ ~Held(d)' /\ UNCHANGED cmds
    BY <1>1, <1>4, LaunchLogs, HoldChanges DEF Held, LaunchCommand, bufVars
  <2>2. Buffered(d)
    BY <1>1, <2>1 DEF Buffered
  <2>3. QED
    BY <1>2, <2>1, <2>2 DEF Ascending, HeldFirst
<1>5. CASE ~LaunchCommand /\ (Held(d) \/ Buffered(d))
  BY <1>1, <1>2, <1>5, LogShrinks
<1>6. ASSUME NEW t \in Clients, SubmitEnqueue(t), d = arg[t], ~LaunchCommand PROVE c < d
  <2>1. c \in Submitted
    BY <1>1, <1>6, LogShrinks, PlacesSubmitted
  <2>2. QED
    BY <1>6, <2>1 DEF SubmitEnqueue, Ascending, SubmitLast
<1>7. QED
  BY <1>1, <1>3, <1>4, <1>5, <1>6, PlaceSteps

\* What the worker holds comes before the buffer.
LEMMA NextHeldFirst ==
  ASSUME Base, Ascending, [Next]_vars
  PROVE  HeldFirst'
<1>1. SUFFICES ASSUME NEW c \in Idx, NEW d \in Idx, Held(c)', Buffered(d)' PROVE c < d
  BY DEF HeldFirst
<1>2. CASE Dequeue /\ DequeueFront
  <2>1. /\ Len(cmds) \in Nat /\ Len(cmds') = Len(cmds) - 1 /\ Len(cmds) > 0
        /\ cur' = cmds[1] /\ \A j \in 1..Len(cmds') : cmds'[j] = cmds[j + 1]
    BY <1>2, FrontTaken DEF Base
  <2>2. cmds[1].type = "Hardware" /\ cmds[1].id = c
    BY <1>1, <1>2, <2>1, HoldChanges DEF Held
  <2>3. PICK j \in 1..Len(cmds') : cmds'[j].type = "Hardware" /\ cmds'[j].id = d
    BY <1>1 DEF Buffered
  <2>4. 1 \in 1..Len(cmds) /\ j + 1 \in 1..Len(cmds) /\ 1 < j + 1
    BY <2>1
  <2>5. QED
    BY <2>1, <2>2, <2>3, <2>4 DEF Ascending, BufferAscends
<1>3. CASE LaunchCommand
  BY <1>1, <1>3, HoldChanges DEF Held
<1>4. CASE Held(c) /\ Buffered(d)
  BY <1>4 DEF Ascending, HeldFirst
<1>5. ASSUME NEW t \in Clients, SubmitEnqueue(t), d = arg[t], Held(c) PROVE c < d
  BY <1>5, PlacesSubmitted DEF SubmitEnqueue, Ascending, SubmitLast
<1>6. QED
  BY <1>1, <1>2, <1>3, <1>4, <1>5, PlaceSteps

\* The buffer stays in order.
LEMMA NextBufferAscends ==
  ASSUME Base, Ascending, [Next]_vars
  PROVE  BufferAscends'
<1>1. BufferAscends /\ Len(cmds) \in Nat
  BY BufferElements DEF Ascending, Base
<1>2. CASE UNCHANGED cmds
  BY <1>1, <1>2 DEF BufferAscends
<1>3. CASE DequeueFront
  <2>1. /\ Len(cmds') = Len(cmds) - 1 /\ \A j \in 1..Len(cmds') : cmds'[j] = cmds[j + 1]
    BY <1>3, FrontTaken DEF Base
  <2>2. \A i, j \in 1..Len(cmds') :
          i < j => i + 1 < j + 1 /\ i + 1 \in 1..Len(cmds) /\ j + 1 \in 1..Len(cmds)
    BY <1>1, <2>1
  <2>3. QED
    BY <1>1, <2>1, <2>2 DEF BufferAscends
<1>4. ASSUME NEW d \in XCommand, cmds' = Append(cmds, d),
             d.type = "Hardware" => \A c \in Submitted : c < d.id
      PROVE  BufferAscends'
  <2>1. /\ Len(cmds') = Len(cmds) + 1 /\ cmds'[Len(cmds) + 1] = d
        /\ \A j \in 1..Len(cmds) : cmds'[j] = cmds[j]
    BY <1>4, Appended DEF Base
  <2>2. \A i, j \in 1..Len(cmds') :
          i < j => i \in 1..Len(cmds) /\ (j \in 1..Len(cmds) \/ j = Len(cmds) + 1)
    BY <1>1, <2>1
  <2>3. ASSUME NEW i \in 1..Len(cmds), cmds[i].type = "Hardware"
        PROVE  cmds[i].id \in Submitted
    <3>1. Buffered(cmds[i].id) /\ cmds[i].id \in Idx
      BY <2>3, BufferElements DEF Buffered, Base
    <3>2. QED
      BY <3>1, PlacesSubmitted
  <2>4. QED
    BY <1>1, <1>4, <2>1, <2>2, <2>3 DEF BufferAscends
<1>5. ASSUME NEW t \in Clients, NEW label \in Labels, BeginWaitAll(t, label)
      PROVE  BufferAscends'
  BY <1>2, <1>4, <1>5, WaitAllBuffers DEF WaitAllCmd
<1>6. ASSUME NEW t \in Clients, SubmitEnqueue(t) PROVE BufferAscends'
  <2>1. Hardware(arg[t]) \in XCommand /\ cmds' = Append(cmds, Hardware(arg[t]))
    BY <1>6, SubmitBuffers
  <2>2. \A c \in Submitted : c < Hardware(arg[t]).id
    BY <1>6 DEF SubmitEnqueue, Ascending, SubmitLast, Hardware
  <2>3. QED
    BY <1>4, <2>1, <2>2
<1>7. ASSUME NEW t \in Clients, DtorEnqueue(t) PROVE BufferAscends'
  <2>1. DestroyCmd.type # "Hardware"
    BY DEF DestroyCmd
  <2>2. QED
    BY <1>4, <1>7, <2>1, DtorBuffers
<1>8. ASSUME NEW t \in Clients, DropAll(t) PROVE BufferAscends'
  BY <1>8 DEF DropAll, ClearBuffer, BufferAscends
<1>9. ASSUME NEW t \in Clients, WaitAllCall(t) \/ ConfigureCall(t) \/ DelWaitAll(t)
      PROVE  \E label \in Labels : BeginWaitAll(t, label)
  BY <1>9 DEF WaitAllCall, ConfigureCall, DelWaitAll, Labels
<1>10. QED
  BY <1>2, <1>3, <1>5, <1>6, <1>7, <1>8, <1>9, BufferSteps

\* A new index is larger than those of the commands submitted.
LEMMA NextSubmitLast ==
  ASSUME Base, OneSubmitter, Ascending, [Next]_vars
  PROVE  SubmitLast'
<1>1. SUFFICES ASSUME NEW t \in Clients, pc'[t] = "Submit"
               PROVE  t \in Submitters /\ \A c \in Submitted' : c < arg'[t]
  BY DEF SubmitLast
<1>2. CASE Still(t)
  <2>1. pc[t] = "Submit" /\ arg'[t] = arg[t]
    BY <1>1, <1>2 DEF Still
  <2>2. t \in Submitters /\ \A c \in Submitted : c < arg[t]
    BY <2>1 DEF Ascending, SubmitLast
  <2>3. ASSUME NEW u \in Clients, SubmitEnqueue(u) PROVE FALSE
    <3>1. u = t
      BY <2>2, <2>3 DEF SubmitEnqueue, Ascending, SubmitLast, OneSubmitter
    <3>2. QED
      BY <1>1, <2>3, <3>1 DEF SubmitEnqueue, Goto, Base, TypeOK, ThreadType, Threads
  <2>4. QED
    BY <2>1, <2>2, <2>3, SubmittedSame
<1>3. CASE Call(t) \/ Continue(t)
  <2>1. SubmitIdx(t)
    BY <1>1, <1>3, ClientReaches DEF Reaches
  <2>2. t \in Submitters /\ arg'[t] = nextIdx /\ UNCHANGED hwState /\ nextIdx \in Nat
    BY <2>1 DEF SubmitIdx, MayCall, Base, TypeOK, ThreadType, QueueType, Threads
  <2>3. \A c \in Idx : c >= nextIdx => hwState[c] = Created
    BY DEF Base, Owned, SubmitOwned
  <2>4. \A c \in Submitted : c < nextIdx
    BY <2>2, <2>3, InputAssumption DEF Submitted, Idx, Created, Pending
  <2>5. QED
    BY <2>2, <2>4 DEF Submitted
<1>4. QED
  BY <1>2, <1>3, ThreadSteps, ThreadsAssumption DEF Base, Moves, Threads

\* With one submitter, commands stay in the order of their indices everywhere.
LEMMA AscendingInvariant == OneSubmitter /\ Spec => []Ascending
<1>1. Init => Ascending
  <2> SUFFICES ASSUME Init PROVE Ascending
    OBVIOUS
  <2>1. Len(cmds) = 0 /\ Len(cmdLog) = 0 /\ \A t \in Clients : pc[t] # "Submit"
    BY EmptySeq, ThreadsAssumption DEF Init, Threads
  <2>2. QED
    BY <2>1
    DEF Ascending, LogAscends, LogFirst, HeldFirst, BufferAscends, SubmitLast, Logged,
       Buffered
<1>2. OneSubmitter => OneSubmitter'
  BY DEF OneSubmitter
<1>3. Base /\ OneSubmitter /\ Ascending /\ [Next]_vars => OneSubmitter' /\ Ascending'
  BY <1>2, NextLogAscends, NextLogFirst, NextHeldFirst, NextBufferAscends, NextSubmitLast
  DEF Ascending
<1>4. QED
  BY <1>1, <1>3, BaseInvariant, PTL DEF Spec

-----------------------------------------------------------------------------
(* What clients are told *)

\* A client is told that commands are finished when a wait returns.
LEMMA SettledSteps ==
  ASSUME [Next]_vars
  PROVE  \/ UNCHANGED settled
         \/ \E t \in Clients : WaitAllReturn(t) \/ WaitReturn(t)
<1>1. CASE UNCHANGED vars
  BY <1>1 DEF vars, histVars
<1>2. CASE HwRetire
  BY <1>2 DEF HwRetire, histVars
<1>3. ASSUME NEW t \in Threads, SyncCheck(t) \/ SyncHw(t) \/ SyncRelock(t)
      PROVE  UNCHANGED settled
  BY <1>3 DEF SyncCheck, SyncHw, SyncRelock, ThreadStep, histVars
<1>4. CASE Dequeue
  BY <1>4 DEF Dequeue, BufferStep, histVars, DequeueFront, DequeueIdle, DequeueGenWaitAll,
    DequeueGenBatchSync
<1>5. CASE LaunchEnter \/ LaunchThreshold \/ LaunchResumed \/ LaunchDrop \/ LaunchCommand
  BY <1>5 DEF LaunchEnter, LaunchThreshold, LaunchResumed, LaunchDrop, LaunchCommand,
    ThreadStep, histVars
<1>6. CASE \/ WaitAllEnter \/ WaitAllDone \/ BatchSyncEnter \/ BatchSyncDone
          \/ DestroyEnter \/ DestroyDone
  BY <1>6 DEF WaitAllEnter, WaitAllDone, BatchSyncEnter, BatchSyncDone, DestroyEnter,
    DestroyDone, ThreadStep, histVars
<1>7. ASSUME NEW t \in Clients, Call(t) PROVE UNCHANGED settled
  BY <1>7 DEF Call, SubmitIdx, WaitAllCall, WaitCall, SuspendCall, ResumeCall,
    ConfigureCall, DelCall, BeginWaitAll, ThreadStep, BeginResume, histVars
<1>8. ASSUME NEW t \in Clients, \/ SuspendMark(t) \/ Pause(t) \/ Deactivate(t)
             \/ SuspendSync(t)
      PROVE  UNCHANGED settled
  BY <1>8 DEF SuspendMark, Pause, Deactivate, SuspendSync, ThreadStep, histVars
<1>9. ASSUME NEW t \in Clients, \/ ResumeMark(t) \/ Reactivate(t) \/ RelaunchNext(t)
             \/ RelaunchEnd(t) \/ ResumeWorker(t) \/ DropAll(t) \/ DropIdx(t)
             \/ ResumeAndDrop(t)
      PROVE  UNCHANGED settled
  BY <1>9 DEF ResumeMark, Reactivate, RelaunchNext, RelaunchEnd, ResumeWorker, DropAll,
    DropIdx, ResumeAndDrop, ThreadStep, histVars
<1>10. ASSUME NEW t \in Clients, \/ SubmitEnqueue(t) \/ SubmitReturn(t) \/ WaitInFlight(t)
      PROVE  UNCHANGED settled
  BY <1>10 DEF SubmitEnqueue, SubmitReturn, WaitInFlight, ThreadStep, histVars
<1>11. ASSUME NEW t \in Clients, \/ Configure(t) \/ DelWaitAll(t) \/ Dtor(t)
             \/ DtorEnqueue(t) \/ DtorReturn(t)
      PROVE  UNCHANGED settled
  BY <1>11 DEF Configure, DelWaitAll, Dtor, DtorEnqueue, DtorReturn, BeginWaitAll,
    BeginResume, ThreadStep, histVars
<1>12. QED
  BY <1>1, <1>2, <1>3, <1>4, <1>5, <1>6, <1>7, <1>8, <1>9, <1>10, <1>11
  DEF Next, WorkerLoop, LaunchHwCommand, Call, Continue, Sync, Suspend, Resume, Threads

\* A client that waits for one command waits for a launched one, and is told when
\* it is completed.
ToldAt(t) ==
  /\ pc[t] \in SyncLabels => hwState[arg[t]] >= InFlight
  /\ pc[t] = "WaitDone" => hwState[arg[t]] = Completed
Told == \A t \in Clients : ToldAt(t)

\* With one submitter, a synchronization with a command completes that command: the
\* commands before it in the log, which are popped first, have smaller indices.
LEMMA PopsTarget ==
  ASSUME Base, Located, LogAscends, NEW t \in Threads, SyncRelock(t), ~PausedMeanwhile(t),
         arg[t] \in Idx, hwState[arg[t]] >= InFlight
  PROVE  hwState'[arg[t]] = Completed
<1>1. /\ Complete(Popped(cmdLog, arg[t])) /\ hwState[arg[t]] \in {InFlight, Completed}
      /\ cmdLog \in Seq(Idx) /\ Len(cmdLog) \in Nat
  <2>1. Complete(Popped(cmdLog, arg[t]))
    BY DEF SyncRelock
  <2>2. cmdLog \in Seq(Idx) /\ Len(cmdLog) \in Nat /\ hwState[arg[t]] \in CommandState
    BY LogElements DEF Base, TypeOK, LogType, CommandType
  <2>3. QED
    BY <2>1, <2>2 DEF CommandState, Created, InFlight, Completed
<1>2. CASE hwState[arg[t]] = Completed
  BY <1>1, <1>2 DEF Complete
<1>3. CASE hwState[arg[t]] = InFlight
  <2>1. PICK k \in 1..Len(cmdLog) : cmdLog[k] = arg[t]
    BY <1>3 DEF Located, LocatedAt, Logged
  <2>2. PICK p \in 0..Len(cmdLog) :
          /\ p = PopCount(cmdLog, arg[t])
          /\ p < Len(cmdLog) => ~FinishedWith(cmdLog[p + 1], arg[t])
    BY <1>1, PopCountIsPrefix
  <2>3. k \in 1..p
    <3>1. SUFFICES ASSUME k > p PROVE FALSE
      BY <1>1, <2>1, <2>2
    <3>2. p + 1 \in 1..Len(cmdLog) /\ p < Len(cmdLog) /\ (p + 1 = k \/ p + 1 < k)
      BY <1>1, <2>1, <2>2, <3>1
    <3>3. cmdLog[p + 1] \in Idx /\ cmdLog[k] \in Idx
      BY <2>1, <3>2, LogElements DEF Base, TypeOK
    <3>4. cmdLog[p + 1] <= arg[t]
      BY <2>1, <3>2, <3>3, InputAssumption DEF LogAscends, Idx
    <3>5. QED
      BY <2>2, <3>2, <3>4 DEF FinishedWith
  <2>4. arg[t] \in Popped(cmdLog, arg[t])
    BY <2>1, <2>2, <2>3 DEF Popped
  <2>5. QED
    BY <1>1, <2>4 DEF Complete
<1>4. QED
  BY <1>1, <1>2, <1>3

\* A client gets to the end of its wait with the command completed.
LEMMA NextTold ==
  ASSUME Base, DestroyOK, Delivery, Ascending, Told, [Next]_vars
  PROVE  Told'
<1>1. SUFFICES ASSUME NEW t \in Clients PROVE ToldAt(t)'
  BY DEF Told
<1>2. /\ ToldAt(t) /\ Forward /\ hwState \in [Idx -> CommandState]
      /\ hwState' \in [Idx -> CommandState]
      /\ pc[t] \in SyncLabels \cup {"WaitInFlight", "WaitDone"} => arg[t] \in Idx
  BY NextTyped, NextForward DEF Told, Base, TypeOK, CommandType, ControlOK, ClientControl
<1>3. ASSUME NEW c \in Idx
      PROVE  /\ hwState[c] >= InFlight => hwState'[c] >= InFlight
             /\ hwState[c] = Completed => hwState'[c] = Completed
  BY <1>2 DEF Forward, CommandState, Created, InFlight, Completed
<1>4. CASE Still(t)
  BY <1>2, <1>3, <1>4 DEF Still, ToldAt
<1>5. CASE Call(t) \/ Continue(t)
  <2>1. Reaches(t)
    BY <1>5, ClientReaches
  <2>2. ASSUME pc'[t] \in SyncLabels PROVE hwState'[arg'[t]] >= InFlight
    <3>1. arg'[t] = arg[t] /\ (pc[t] \in SyncLabels \/ WaitInFlight(t))
      BY <2>1, <2>2 DEF Reaches
    <3>2. arg[t] \in Idx /\ hwState[arg[t]] >= InFlight
      BY <1>2, <3>1 DEF ToldAt, WaitInFlight, IsLaunched
    <3>3. QED
      BY <1>3, <3>1, <3>2
  <2>3. ASSUME pc'[t] = "WaitDone" PROVE hwState'[arg'[t]] = Completed
    <3>1. /\ arg'[t] = arg[t] /\ pc[t] \in SyncLabels
          /\ \/ SyncCheck(t) /\ NothingToSync(t)
             \/ SyncRelock(t) /\ ~PausedMeanwhile(t)
      BY <2>1, <2>3 DEF Reaches
    <3>2. arg[t] \in Idx /\ hwState[arg[t]] >= InFlight
      BY <1>2, <3>1 DEF ToldAt
    <3>3. CASE NothingToSync(t)
      <4>1. wstate # "Terminated"
        BY <3>1, NotEnded DEF SyncLabels
      <4>2. arg[t] # All
        BY <3>2 DEF Idx, All
      <4>3. hwState[arg[t]] = Completed
        BY <3>3, <4>1, <4>2 DEF NothingToSync
      <4>4. QED
        BY <1>3, <3>1, <3>2, <4>3
    <3>4. CASE SyncRelock(t) /\ ~PausedMeanwhile(t)
      BY <3>1, <3>2, <3>4, PopsTarget DEF Delivery, Ascending, Threads
    <3>5. QED
      BY <3>1, <3>3, <3>4
  <2>4. QED
    BY <2>2, <2>3 DEF ToldAt
<1>6. QED
  BY <1>4, <1>5, ThreadSteps, ThreadsAssumption DEF Base, Moves, Threads

\* A client is told the truth.
LEMMA NextSettled ==
  ASSUME Base, Delivery, Ordered, Told \/ NoClientSyncs, SettledCompleted, [Next]_vars
  PROVE  SettledCompleted'
<1>1. /\ Forward /\ hwState \in [Idx -> CommandState] /\ hwState' \in [Idx -> CommandState]
      /\ settled \in SUBSET Idx
  BY NextTyped, NextForward DEF Base, TypeOK, CommandType, HistoryType
<1>2. \A c \in Idx : hwState[c] = Completed => hwState'[c] = Completed
  BY <1>1 DEF Forward, CommandState, Created, Completed
<1>3. \A c \in settled : hwState'[c] = Completed
  BY <1>1, <1>2 DEF SettledCompleted
<1>4. ASSUME NEW t \in Clients, WaitAllReturn(t) PROVE SettledCompleted'
  <2>1. PICK n : n = arg[t]
    OBVIOUS
  <2>2. pc[t] = "WaitAll" /\ waState[n] = Completed /\ settled' = settled \cup must[t]
    BY <1>4, <2>1 DEF WaitAllReturn
  <2>3. n \in WaitAlls
    <3>1. n \in Nat /\ n < waCount
      BY <2>1, <2>2 DEF Delivery, WaitBound, Base, TypeOK, ThreadType, Threads
    <3>2. QED
      BY <3>1, RoomForWaitAll DEF Delivery
  <2>4. must[t] \in SUBSET Idx
    BY DEF Base, TypeOK, HistoryType, Threads
  <2>5. \A c \in must[t] : hwState[c] = Completed
    BY <2>1, <2>2, <2>3, <2>4, BeforeCompleted DEF Ordered
  <2>6. QED
    BY <1>2, <1>3, <2>2, <2>4, <2>5 DEF SettledCompleted
<1>5. ASSUME NEW t \in Clients, WaitReturn(t) PROVE SettledCompleted'
  <2>1. pc[t] \in {"WaitCompleted", "WaitDone"} /\ settled' = settled \cup {arg[t]}
    BY <1>5 DEF WaitReturn
  <2>2. arg[t] \in Idx /\ hwState[arg[t]] = Completed
    BY <1>5, <2>1
    DEF WaitReturn, Told, ToldAt, NoClientSyncs, Base, ControlOK, ClientControl
  <2>3. QED
    BY <1>2, <1>3, <2>1, <2>2 DEF SettledCompleted
<1>6. CASE UNCHANGED settled
  BY <1>3, <1>6 DEF SettledCompleted
<1>7. QED
  BY <1>4, <1>5, <1>6, SettledSteps

\* When XQueueWaitAll or XQueueWait has returned, the commands it waited for are
\* completed: a wait-all is completed after everything submitted before it, whoever
\* submitted it, and the target of a wait is popped from the log.  XQueueWait needs one
\* submitter: the loop that pops the log stops at the first larger index, and two
\* submitters may enqueue their commands in the other order than their indices.
THEOREM SettledIsCompleted ==
  NeverDrops /\ (NobodyWaits \/ OneSubmitter) /\ Spec => []SettledCompleted
<1>1. Init => Told /\ NoClientSyncs /\ SettledCompleted
  BY ThreadsAssumption
  DEF Init, Told, ToldAt, NoClientSyncs, SettledCompleted, SyncLabels, Threads
<1>2. Base /\ DestroyOK /\ Delivery /\ Ascending /\ Told /\ [Next]_vars => Told'
  BY NextTold
<1>3. Base /\ NobodyWaits /\ NoClientSyncs /\ [Next]_vars => NobodyWaits' /\ NoClientSyncs'
  <2>1. NobodyWaits => NobodyWaits'
    BY DEF NobodyWaits
  <2>2. QED
    BY <2>1, NextNoClientSyncs
<1>4. OneSubmitter /\ Spec => []Told
  BY <1>1, <1>2, DeliveryInvariant, AscendingInvariant, PTL DEF Spec
<1>5. NobodyWaits /\ Spec => []NoClientSyncs
  BY <1>1, <1>3, BaseInvariant, PTL DEF Spec
<1>6. /\ Base /\ Delivery /\ Ordered /\ (Told \/ NoClientSyncs) /\ SettledCompleted
      /\ [Next]_vars
      => SettledCompleted'
  BY NextSettled
<1>7. QED
  BY <1>1, <1>4, <1>5, <1>6, OrderedInvariant, PTL DEF Spec

-----------------------------------------------------------------------------
(* The hardware queue and the log *)

\* Hypotheses: one thread submits, one suspends, resumes and destroys, and it does not
\* drop; nobody waits for a single command; the level is not lowered to Block.
NeverBlocks == 1 \notin Levels
OrderlyUse == OneController /\ NobodyWaits /\ NeverDrops /\ OneSubmitter /\ NeverBlocks

\* What holds of the threads, the buffer and the log then.
Steady ==
  /\ OrderlyUse /\ Base /\ DestroyOK /\ Delivery /\ SwitchOK /\ DropOK /\ LaunchOK
  /\ WaitsForAll /\ Ascending /\ SettledCompleted

\* The hardware queue holds the commands from position i + 1 to n of the log.
InDev(i, n) ==
  /\ i \in 0..n /\ n \in 0..Len(cmdLog) /\ Len(dev) = n - i
  /\ \A j \in 1..Len(dev) : dev[j].cmd = cmdLog[i + j]

\* A logged command has taken effect, or may take effect now.
Ran(j) == execs[cmdLog[j]] > 0
Fresh(j) == Idempotent(cmdLog[j]) \/ execs[cmdLog[j]] = 0

\* It has, unless it is still in the hardware queue or was flushed ...
Flushed(j) == preemptIdx # 0 /\ cmdLog[j] >= preemptIdx
StreamEffects(i) ==
  \A j \in 1..Len(cmdLog) : IF j > i \/ Flushed(j) THEN Fresh(j) ELSE Ran(j)
Streaming(i) == InDev(i, Len(cmdLog)) /\ StreamEffects(i)

\* ... or waits to be launched again.
Relaunching(t) == pc[t] = "Relaunch"
ReplayEffects(i, from) ==
  \A j \in 1..Len(cmdLog) : IF j > i /\ cmdLog[j] >= from THEN Fresh(j) ELSE Ran(j)
Replaying(t, i) == InDev(i, snap[t]) /\ ReplayEffects(i, arg[t])

DevLog ==
  \/ (\A t \in Clients : ~Relaunching(t)) /\ \E i \in 0..Len(cmdLog) : Streaming(i)
  \/ \E t \in Clients : Relaunching(t) /\ \E i \in 0..Len(cmdLog) : Replaying(t, i)

\* When command c has been flushed, it is a kernel in the log, and everything from it
\* on may be launched again; what the hardware still holds is flushed as well, or
\* idempotent.
FlushedFrom(c) ==
  c # 0 =>
    /\ level >= 2 /\ c \in Idx /\ Logged(c) /\ Deactivatable(c)
    /\ \A j \in 1..Len(cmdLog) :
         cmdLog[j] >= c => Deactivatable(cmdLog[j]) \/ Idempotent(cmdLog[j])
    /\ \A j \in 1..Len(dev) : dev[j].cmd >= c /\ (dev[j].guarded \/ Idempotent(dev[j].cmd))
FlushOK ==
  /\ FlushedFrom(preemptIdx)
  /\ \A t \in Clients : Relaunching(t) => arg[t] # 0 /\ FlushedFrom(arg[t])

\* Behind a command that checks the exit flag there is none that neither checks it nor
\* may take effect twice.
GuardOK ==
  /\ \A j \in 1..Len(dev) : dev[j].guarded => level >= 2 /\ Deactivatable(dev[j].cmd)
  /\ \A j, k \in 1..Len(dev) : j < k /\ dev[j].guarded => dev[k].guarded \/ Idempotent(dev[k].cmd)

\* The exit flag is set only while the worker is paused.
FlagOK ==
  /\ exitFlag => wstate = "Paused" /\ level >= 2
  /\ preemptIdx # 0 => exitFlag
  /\ \A t \in Clients :
       pc[t] \in {"Relaunch", "ResumeWorker", "DropAll", "DropIdx", "ResumeAndDrop"} => ~exitFlag

\* A command takes effect after its launch and before its completion.
NotYet == \A c \in Idx : hwState[c] < InFlight => execs[c] = 0
Done == \A c \in Idx : hwState[c] = Completed => execs[c] > 0

\* Nothing is dropped, and the position in the log is reset.
NothingDropped == dropped = {} /\ (dropIdx # -1 => \E t \in Clients : InDtor(t))
SnapsReset == \A t \in Clients : ~Relaunching(t) => snap[t] = 0

\* The worker synchronizes with a logged command; when its synchronization was not
\* interrupted, the hardware is done with that command.
TargetLogged == pc[Worker] \in SyncLabels => arg[Worker] = All \/ Logged(arg[Worker])
SyncDone == pc[Worker] = "SyncRelock" /\ snap[Worker] = pauseCount => HwFinished(arg[Worker])

\* A command that writes memory and cannot be deactivated is launched behind no kernel
\* that can be.
Writes(c) == ~Deactivatable(c) /\ ~Idempotent(c)
WriteWaits ==
  pc[Worker] \in SyncLabels /\ ret[Worker] = "Threshold" /\ arg[Worker] # All =>
    \A j \in 1..Len(cmdLog) : cmdLog[j] > arg[Worker] => ~Deactivatable(cmdLog[j])
PastWait == \/ pc[Worker] \in {"Threshold", "Launch", "LaunchPaused"}
            \/ pc[Worker] \in SyncLabels /\ ret[Worker] = "Launch"
Unguarded ==
  /\ \A j \in 1..Len(dev) : ~dev[j].guarded
  /\ preemptIdx = 0 /\ \A t \in Clients : ~Relaunching(t)
WriteBehind == PastWait /\ Writes(cur.id) => Unguarded

\* The invariant of the hardware queue.
Device ==
  /\ NothingDropped /\ SnapsReset /\ FlagOK /\ TargetLogged /\ SyncDone /\ WriteWaits
  /\ DevLog /\ FlushOK /\ GuardOK /\ WriteBehind /\ NotYet /\ Done

-----------------------------------------------------------------------------
(* The steps that touch the hardware queue *)

\* What is known of threads, buffer and log is kept by every step.
LEMMA SteadyInvariant == OrderlyUse /\ Spec => []Steady
<1>1. OrderlyUse /\ Init => OrderlyUse /\ SwitchOK /\ LaunchOK
  <2>1. Init => NoClientSyncs /\ LaunchesRunning /\ RolesKept /\ PhasesOK /\ SuspendedMeansPaused
    BY ThreadsAssumption DEF Init, NoClientSyncs, LaunchesRunning, RolesKept, Controlling,
       PhasesOK, PhaseOK, SuspendedMeansPaused, ResumeLabels, SyncLabels, Threads
  <2>2. QED
    BY <2>1 DEF OrderlyUse, SwitchOK, LaunchOK
<1>2. OrderlyUse => OrderlyUse'
  BY DEF OrderlyUse, OneController, Controllers, NobodyWaits, NeverDrops, OneSubmitter,
     NeverBlocks
<1>3. /\ OrderlyUse /\ Base /\ DestroyOK /\ DropOK /\ SwitchOK /\ LaunchOK /\ [Next]_vars
      => OrderlyUse' /\ SwitchOK' /\ LaunchOK'
  BY <1>2, NextSwitch, NextNoClientSyncs, NextLaunches DEF LaunchOK, OrderlyUse
<1>4. OrderlyUse => NeverDrops /\ OneSubmitter /\ NobodyWaits
  BY DEF OrderlyUse
<1>5. OrderlyUse /\ Spec => [](OrderlyUse /\ SwitchOK /\ LaunchOK)
  BY <1>1, <1>3, <1>4, OrderedInvariant, PTL DEF Spec
<1>6. /\ OrderlyUse /\ SwitchOK /\ LaunchOK /\ Base /\ DestroyOK /\ Delivery /\ DropOK
      /\ WaitsForAll /\ Ascending /\ SettledCompleted
      => Steady
  BY DEF Steady
<1>7. QED
  BY <1>4, <1>5, <1>6, OrderedInvariant, AscendingInvariant, SettledIsCompleted, PTL

\* The steps that change the hardware queue or the preempt buffer.
LEMMA DeviceSteps ==
  ASSUME [Next]_vars
  PROVE  \/ UNCHANGED <<dev, exitFlag, preemptIdx, execs>>
         \/ HwRetire \/ LaunchCommand
         \/ \E t \in Clients : Deactivate(t) \/ Reactivate(t) \/ RelaunchNext(t)
<1>1. CASE UNCHANGED vars
  BY <1>1 DEF vars, devVars
<1>2. ASSUME NEW t \in Threads, SyncCheck(t) \/ SyncHw(t) \/ SyncRelock(t)
      PROVE  UNCHANGED <<dev, exitFlag, preemptIdx, execs>>
  BY <1>2 DEF SyncCheck, SyncHw, SyncRelock, ThreadStep, devVars
<1>3. CASE Dequeue
  BY <1>3 DEF Dequeue, BufferStep, devVars
<1>4. CASE LaunchEnter \/ LaunchThreshold \/ LaunchResumed \/ LaunchDrop
  BY <1>4 DEF LaunchEnter, LaunchThreshold, LaunchResumed, LaunchDrop, ThreadStep, devVars
<1>5. CASE \/ WaitAllEnter \/ WaitAllDone \/ BatchSyncEnter \/ BatchSyncDone
          \/ DestroyEnter \/ DestroyDone
  BY <1>5 DEF WaitAllEnter, WaitAllDone, BatchSyncEnter, BatchSyncDone, DestroyEnter,
    DestroyDone, ThreadStep, devVars
<1>6. ASSUME NEW t \in Clients, Call(t)
      PROVE  UNCHANGED <<dev, exitFlag, preemptIdx, execs>>
  BY <1>6 DEF Call, SubmitIdx, WaitAllCall, WaitCall, SuspendCall, ResumeCall,
    ConfigureCall, DelCall, BeginWaitAll, BufferStep, ThreadStep, BeginResume, devVars
<1>7. ASSUME NEW t \in Clients, \/ SuspendMark(t) \/ Pause(t) \/ SuspendSync(t)
      PROVE  UNCHANGED <<dev, exitFlag, preemptIdx, execs>>
  BY <1>7 DEF SuspendMark, Pause, SuspendSync, ThreadStep, devVars
<1>8. ASSUME NEW t \in Clients, \/ ResumeMark(t) \/ RelaunchEnd(t) \/ ResumeWorker(t)
             \/ DropAll(t) \/ DropIdx(t) \/ ResumeAndDrop(t)
      PROVE  UNCHANGED <<dev, exitFlag, preemptIdx, execs>>
  BY <1>8 DEF ResumeMark, RelaunchEnd, ResumeWorker, DropAll, DropIdx, ResumeAndDrop,
    ThreadStep, devVars
<1>9. ASSUME NEW t \in Clients, \/ SubmitEnqueue(t) \/ SubmitReturn(t) \/ WaitAllReturn(t)
             \/ WaitInFlight(t) \/ WaitReturn(t)
      PROVE  UNCHANGED <<dev, exitFlag, preemptIdx, execs>>
  BY <1>9 DEF SubmitEnqueue, SubmitReturn, WaitAllReturn, WaitInFlight, WaitReturn,
    ThreadStep, BufferStep, devVars
<1>10. ASSUME NEW t \in Clients, \/ Configure(t) \/ DelWaitAll(t) \/ Dtor(t)
             \/ DtorEnqueue(t) \/ DtorReturn(t)
      PROVE  UNCHANGED <<dev, exitFlag, preemptIdx, execs>>
  BY <1>10 DEF Configure, DelWaitAll, Dtor, DtorEnqueue, DtorReturn, BeginWaitAll,
    BufferStep, BeginResume, ThreadStep, devVars
<1>11. QED
  BY <1>1, <1>2, <1>3, <1>4, <1>5, <1>6, <1>7, <1>8, <1>9, <1>10
  DEF Next, WorkerLoop, LaunchHwCommand, Call, Continue, Sync, Suspend, Resume, Threads

\* The level and the kinds of commands change only where they are chosen.
LEMMA ChoiceSteps ==
  ASSUME [Next]_vars
  PROVE  \/ UNCHANGED <<level, kind>>
         \/ \E t \in Clients : Configure(t) \/ SubmitIdx(t)
<1>1. CASE UNCHANGED vars
  BY <1>1 DEF vars, configVars, cmdVars
<1>2. CASE HwRetire
  BY <1>2 DEF HwRetire, configVars, cmdVars
<1>3. ASSUME NEW t \in Threads, SyncCheck(t) \/ SyncHw(t) \/ SyncRelock(t)
      PROVE  UNCHANGED <<level, kind>>
  BY <1>3 DEF SyncCheck, SyncHw, SyncRelock, ThreadStep, configVars, cmdVars
<1>4. CASE Dequeue
  BY <1>4 DEF Dequeue, BufferStep, configVars, cmdVars
<1>5. CASE LaunchEnter \/ LaunchThreshold \/ LaunchResumed \/ LaunchDrop \/ LaunchCommand
  BY <1>5 DEF LaunchEnter, LaunchThreshold, LaunchResumed, LaunchDrop, LaunchCommand,
    ThreadStep, configVars, cmdVars
<1>6. CASE \/ WaitAllEnter \/ WaitAllDone \/ BatchSyncEnter \/ BatchSyncDone
          \/ DestroyEnter \/ DestroyDone
  BY <1>6 DEF WaitAllEnter, WaitAllDone, BatchSyncEnter, BatchSyncDone, DestroyEnter,
    DestroyDone, ThreadStep, configVars, cmdVars
<1>7. ASSUME NEW t \in Clients, \/ WaitAllCall(t) \/ WaitCall(t) \/ SuspendCall(t)
             \/ ResumeCall(t) \/ ConfigureCall(t) \/ DelCall(t)
      PROVE  UNCHANGED <<level, kind>>
  BY <1>7 DEF WaitAllCall, WaitCall, SuspendCall, ResumeCall, ConfigureCall, DelCall,
    BeginWaitAll, BufferStep, ThreadStep, BeginResume, configVars, cmdVars
<1>8. ASSUME NEW t \in Clients, \/ SuspendMark(t) \/ Pause(t) \/ Deactivate(t)
             \/ SuspendSync(t)
      PROVE  UNCHANGED <<level, kind>>
  BY <1>8 DEF SuspendMark, Pause, Deactivate, SuspendSync, ThreadStep, configVars, cmdVars
<1>9. ASSUME NEW t \in Clients, \/ ResumeMark(t) \/ Reactivate(t) \/ RelaunchNext(t)
             \/ RelaunchEnd(t) \/ ResumeWorker(t) \/ DropAll(t) \/ DropIdx(t)
             \/ ResumeAndDrop(t)
      PROVE  UNCHANGED <<level, kind>>
  BY <1>9 DEF ResumeMark, Reactivate, RelaunchNext, RelaunchEnd, ResumeWorker, DropAll,
    DropIdx, ResumeAndDrop, ThreadStep, configVars, cmdVars
<1>10. ASSUME NEW t \in Clients, \/ SubmitEnqueue(t) \/ SubmitReturn(t) \/ WaitAllReturn(t)
             \/ WaitInFlight(t) \/ WaitReturn(t)
      PROVE  UNCHANGED <<level, kind>>
  BY <1>10 DEF SubmitEnqueue, SubmitReturn, WaitAllReturn, WaitInFlight, WaitReturn,
    ThreadStep, BufferStep, configVars, cmdVars
<1>11. ASSUME NEW t \in Clients, \/ DelWaitAll(t) \/ Dtor(t) \/ DtorEnqueue(t)
             \/ DtorReturn(t)
      PROVE  UNCHANGED <<level, kind>>
  BY <1>11 DEF DelWaitAll, Dtor, DtorEnqueue, DtorReturn, BeginWaitAll, BufferStep,
    BeginResume, ThreadStep, configVars, cmdVars
<1>12. QED
  BY <1>1, <1>2, <1>3, <1>4, <1>5, <1>6, <1>7, <1>8, <1>9, <1>10, <1>11
  DEF Next, WorkerLoop, LaunchHwCommand, Call, Continue, Sync, Suspend, Resume, Threads

\* The steps that drop commands.
LEMMA DropSteps ==
  ASSUME [Next]_vars
  PROVE  \/ UNCHANGED <<dropped, dropIdx>>
         \/ LaunchDrop
         \/ \E t \in Clients : DropAll(t) \/ ResumeAndDrop(t)
<1>1. CASE UNCHANGED vars
  BY <1>1 DEF vars, histVars, logVars
<1>2. CASE HwRetire
  BY <1>2 DEF HwRetire, histVars, logVars
<1>3. ASSUME NEW t \in Threads, SyncCheck(t) \/ SyncHw(t) \/ SyncRelock(t)
      PROVE  UNCHANGED <<dropped, dropIdx>>
  BY <1>3 DEF SyncCheck, SyncHw, SyncRelock, ThreadStep, histVars, logVars
<1>4. CASE Dequeue
  BY <1>4 DEF Dequeue, BufferStep, histVars, logVars
<1>5. CASE LaunchEnter \/ LaunchThreshold \/ LaunchResumed \/ LaunchCommand
  BY <1>5 DEF LaunchEnter, LaunchThreshold, LaunchResumed, LaunchCommand, ThreadStep,
    histVars, logVars
<1>6. CASE \/ WaitAllEnter \/ WaitAllDone \/ BatchSyncEnter \/ BatchSyncDone
          \/ DestroyEnter \/ DestroyDone
  BY <1>6 DEF WaitAllEnter, WaitAllDone, BatchSyncEnter, BatchSyncDone, DestroyEnter,
    DestroyDone, ThreadStep, histVars, logVars
<1>7. ASSUME NEW t \in Clients, Call(t) PROVE UNCHANGED <<dropped, dropIdx>>
  BY <1>7 DEF Call, SubmitIdx, WaitAllCall, WaitCall, SuspendCall, ResumeCall,
    ConfigureCall, DelCall, BeginWaitAll, BufferStep, ThreadStep, BeginResume, histVars,
    logVars
<1>8. ASSUME NEW t \in Clients, \/ SuspendMark(t) \/ Pause(t) \/ Deactivate(t)
             \/ SuspendSync(t)
      PROVE  UNCHANGED <<dropped, dropIdx>>
  BY <1>8 DEF SuspendMark, Pause, Deactivate, SuspendSync, ThreadStep, histVars, logVars
<1>9. ASSUME NEW t \in Clients, \/ ResumeMark(t) \/ Reactivate(t) \/ RelaunchNext(t)
             \/ RelaunchEnd(t) \/ ResumeWorker(t) \/ DropIdx(t)
      PROVE  UNCHANGED <<dropped, dropIdx>>
  BY <1>9 DEF ResumeMark, Reactivate, RelaunchNext, RelaunchEnd, ResumeWorker, DropIdx,
    ThreadStep, histVars, logVars
<1>10. ASSUME NEW t \in Clients, \/ SubmitEnqueue(t) \/ SubmitReturn(t) \/ WaitAllReturn(t)
             \/ WaitInFlight(t) \/ WaitReturn(t)
      PROVE  UNCHANGED <<dropped, dropIdx>>
  BY <1>10 DEF SubmitEnqueue, SubmitReturn, WaitAllReturn, WaitInFlight, WaitReturn,
    ThreadStep, BufferStep, histVars, logVars
<1>11. ASSUME NEW t \in Clients, \/ Configure(t) \/ DelWaitAll(t) \/ Dtor(t)
             \/ DtorEnqueue(t) \/ DtorReturn(t)
      PROVE  UNCHANGED <<dropped, dropIdx>>
  BY <1>11 DEF Configure, DelWaitAll, Dtor, DtorEnqueue, DtorReturn, BeginWaitAll,
    BufferStep, BeginResume, ThreadStep, histVars, logVars
<1>12. QED
  BY <1>1, <1>2, <1>3, <1>4, <1>5, <1>6, <1>7, <1>8, <1>9, <1>10, <1>11
  DEF Next, WorkerLoop, LaunchHwCommand, Call, Continue, Sync, Suspend, Resume, Threads

\* How a client gets through a resume.
Resumes(t) ==
  /\ pc[t] = "Relaunch" => RelaunchNext(t) \/ RelaunchEnd(t)
  /\ pc'[t] = "Relaunch" => Reactivate(t) \/ RelaunchNext(t)
  /\ pc'[t] \in {"ResumeWorker", "DropAll", "DropIdx", "ResumeAndDrop"} =>
       \/ pc[t] \in {"Relaunch", "DropAll", "DropIdx"}
       \/ Reactivate(t)
       \/ ResumeMark(t) /\ level = 1
       \/ ResumeMark(t) /\ pc'[t] # "ResumeWorker"
  /\ \/ snap'[t] = snap[t]
     \/ RelaunchNext(t)
     \/ RelaunchEnd(t) /\ snap'[t] = 0
     \/ pc[t] \in SyncLabels

\* Every step of a client follows that way.
LEMMA ClientResumes ==
  ASSUME Base, NEW t \in Clients, Call(t) \/ Continue(t)
  PROVE  Resumes(t)
<1>1. CASE SubmitIdx(t) \/ SuspendCall(t)
  BY <1>1 DEF SubmitIdx, SuspendCall, Goto, MayCall, Resumes, Base, TypeOK, ThreadType,
    Threads
<1>2. CASE ResumeCall(t) \/ DelCall(t)
  BY <1>2 DEF ResumeCall, DelCall, BeginResume, Goto, MayCall, Resumes, Base, TypeOK,
    ThreadType, Threads
<1>3. CASE WaitAllCall(t) \/ ConfigureCall(t)
  BY <1>3 DEF WaitAllCall, ConfigureCall, BeginWaitAll, Goto, MayCall, Resumes, Base,
    TypeOK, ThreadType, Threads
<1>4. CASE WaitCall(t) \/ WaitReturn(t)
  BY <1>4 DEF WaitCall, WaitReturn, Goto, MayCall, Resumes, Base, TypeOK, ThreadType,
    Threads
<1>5. CASE SubmitEnqueue(t) \/ SubmitReturn(t)
  BY <1>5 DEF SubmitEnqueue, SubmitReturn, Goto, Resumes, Base, TypeOK, ThreadType,
    Threads
<1>6. CASE WaitAllReturn(t)
  BY <1>6 DEF WaitAllReturn, Goto, ControlOK, ClientControl, ResumeLabels, SyncLabels,
    Resumes, Base, TypeOK, ThreadType, Threads
<1>7. CASE SuspendMark(t) \/ Pause(t) \/ Deactivate(t) \/ SuspendSync(t)
  BY <1>7 DEF SuspendMark, Pause, Deactivate, SuspendSync, Goto, localVars, Resumes,
    Base, TypeOK, ThreadType, Threads
<1>8. CASE ResumeMark(t) \/ ResumeWorker(t)
  BY <1>8 DEF ResumeMark, ResumeWorker, Goto, localVars, ControlOK, ClientControl,
    ResumeLabels, SyncLabels, Resumes, Base, TypeOK, ThreadType, Threads
<1>9. CASE Reactivate(t) \/ RelaunchNext(t) \/ RelaunchEnd(t)
  BY <1>9 DEF Reactivate, RelaunchNext, RelaunchEnd, Forget, Goto, Resumes, Base, TypeOK,
    ThreadType, Threads
<1>10. CASE DropAll(t) \/ DropIdx(t)
  BY <1>10 DEF DropAll, DropIdx, Goto, localVars, Resumes, Base, TypeOK, ThreadType,
    Threads
<1>11. CASE ResumeAndDrop(t)
  BY <1>11 DEF ResumeAndDrop, Goto, ControlOK, ClientControl, ResumeLabels, SyncLabels,
    Resumes, Base, TypeOK, ThreadType, Threads
<1>12. CASE Configure(t) \/ DelWaitAll(t) \/ Dtor(t) \/ DtorEnqueue(t) \/ DtorReturn(t)
  BY <1>12 DEF Configure, DelWaitAll, Dtor, DtorEnqueue, DtorReturn, Goto, BeginWaitAll,
    BeginResume, localVars, Resumes, Base, TypeOK, ThreadType, Threads
<1>13. CASE WaitInFlight(t)
  BY <1>13 DEF WaitInFlight, CallSync, Goto, Resumes, Base, TypeOK, ThreadType, Threads
<1>14. CASE SyncCheck(t) \/ SyncHw(t) \/ SyncRelock(t)
  BY <1>14 DEF SyncCheck, SyncHw, SyncRelock, Goto, localVars, ControlOK, ClientControl,
    ResumeLabels, SyncLabels, Resumes, Base, TypeOK, ThreadType, Threads
<1>15. QED
  BY <1>1, <1>2, <1>3, <1>4, <1>5, <1>6, <1>7, <1>8, <1>9, <1>10, <1>11, <1>12, <1>13,
     <1>14
  DEF Call, Continue, Sync, Suspend, Resume

\* What the log and the hardware queue hold.
LEMMA LogFacts ==
  ASSUME Steady
  PROVE  /\ Len(cmdLog) \in Nat /\ cmdLog \in Seq(Idx)
         /\ \A j \in 1..Len(cmdLog) :
              /\ cmdLog[j] \in Idx /\ cmdLog[j] \in Nat /\ cmdLog[j] # 0
              /\ hwState[cmdLog[j]] = InFlight
         /\ \A i, j \in 1..Len(cmdLog) : /\ i < j => cmdLog[i] < cmdLog[j]
                                         /\ cmdLog[i] = cmdLog[j] => i = j
<1>1. /\ Len(cmdLog) \in Nat /\ cmdLog \in Seq(Idx)
      /\ \A j \in 1..Len(cmdLog) : cmdLog[j] \in Idx
  BY LogElements DEF Steady, Base, TypeOK, LogType
<1>2. \A c \in Idx : c \in Nat /\ c # 0
  BY InputAssumption DEF Idx
<1>3. LogAscends /\ LogDistinct /\ LogInFlight
  BY DEF Steady, Ascending, Base, LogOK
<1>4. QED
  BY <1>1, <1>2, <1>3 DEF LogAscends, LogDistinct, LogInFlight

\* The types of what the hardware queue holds.
LEMMA DevFacts ==
  ASSUME Steady
  PROVE  /\ dev \in Seq([cmd : Idx, guarded : BOOLEAN]) /\ Len(dev) \in Nat
         /\ \A j \in 1..Len(dev) : /\ dev[j] \in [cmd : Idx, guarded : BOOLEAN]
                                   /\ dev[j].cmd \in Idx /\ dev[j].cmd \in Nat
                                   /\ dev[j].guarded \in BOOLEAN
<1>1. dev \in Seq([cmd : Idx, guarded : BOOLEAN])
  BY DEF Steady, Base, TypeOK, DeviceType
<1>2. Len(dev) \in Nat /\ \A j \in 1..Len(dev) : dev[j] \in [cmd : Idx, guarded : BOOLEAN]
  BY <1>1, ElementOfSeq, LenProperties
<1>3. QED
  BY <1>1, <1>2, InputAssumption DEF Idx

\* A submitted command keeps its kind.
LEMMA KindsKept ==
  ASSUME Base, [Next]_vars, NEW c \in Submitted
  PROVE  kind'[c] = kind[c]
<1>1. CASE UNCHANGED kind
  BY <1>1
<1>2. ASSUME NEW t \in Clients, Configure(t) PROVE UNCHANGED kind
  BY <1>2 DEF Configure, cmdVars
<1>3. ASSUME NEW t \in Clients, SubmitIdx(t) PROVE kind'[c] = kind[c]
  <2>1. PICK k \in Kinds : kind' = [kind EXCEPT ![nextIdx] = k]
    BY <1>3 DEF SubmitIdx
  <2>2. c \in Idx /\ hwState[c] # Created
    BY DEF Submitted, Created, Pending
  <2>3. c # nextIdx
    BY <2>2 DEF Base, TypeOK, QueueType, Owned, SubmitOwned, Idx
  <2>4. QED
    BY <2>1, <2>2, <2>3 DEF Base, TypeOK, CommandType
<1>4. QED
  BY <1>1, <1>2, <1>3, ChoiceSteps

\* The level is never lowered to Block.
LEMMA LevelKept ==
  ASSUME Steady, [Next]_vars, level >= 2
  PROVE  level' >= 2
<1>1. ASSUME NEW t \in Clients, Configure(t) PROVE level' = level \/ level' \in Levels
  BY <1>1 DEF Configure
<1>2. ASSUME NEW t \in Clients, SubmitIdx(t) PROVE level' = level
  BY <1>2 DEF SubmitIdx, configVars
<1>3. \A l \in Levels : l >= 2
  BY InputAssumption DEF Steady, OrderlyUse, NeverBlocks, Level
<1>4. QED
  BY <1>1, <1>2, <1>3, ChoiceSteps

\* The log changes when the worker launches a command or completes a synchronization.
LEMMA LogMoves ==
  ASSUME Steady, [Next]_vars
  PROVE  \/ cmdLog' = cmdLog
         \/ SyncRelock(Worker) /\ ~PausedMeanwhile(Worker)
         \/ LaunchCommand
<1>1. ASSUME NEW t \in Threads, SyncRelock(t)
      PROVE  t = Worker /\ (PausedMeanwhile(t) => cmdLog' = cmdLog)
  BY <1>1 DEF SyncRelock, Steady, LaunchOK, NoClientSyncs, SyncLabels, Threads
<1>2. ASSUME NEW t \in Clients, ResumeAndDrop(t) PROVE cmdLog' = cmdLog
  BY <1>2, DropsNothing DEF ResumeAndDrop, Steady
<1>3. QED
  BY <1>1, <1>2, LogSteps DEF LogsKept, Steady, Base

\* A client in the destructor stays there.
LEMMA DtorAdvances ==
  ASSUME Steady, NEW t \in Clients, InDtor(t), Call(t) \/ Continue(t)
  PROVE  InDtor(t)'
<1>1. ~registered
  BY DEF Steady, DestroyOK, DtorAlone, Drained
<1>2. Continue(t) /\ pc[t] # "Destroyed"
  BY <1>1, CallGuard
<1>3. CASE pc[t] \in {"DtorEnqueue", "DtorWait"}
  BY <1>2, <1>3 DEF Continue, SubmitEnqueue, SubmitReturn, WaitAllReturn, WaitInFlight, Sync,
     SyncCheck, SyncHw, SyncRelock, WaitReturn, Suspend, SuspendMark, Pause, Deactivate,
     SuspendSync, Resume, ResumeMark, Reactivate, RelaunchNext, RelaunchEnd, ResumeWorker,
     DropAll, DropIdx, ResumeAndDrop, Configure, DelWaitAll, Dtor, DtorEnqueue, DtorReturn,
     Goto, InDtor, Steady, Base, TypeOK, ThreadType, Threads
<1>4. CASE pc[t] \in ResumeLabels /\ ret[t] = "DtorEnqueue"
  <2>1. Resume(t)
    BY <1>2, <1>4 DEF Continue, SubmitEnqueue, SubmitReturn, WaitAllReturn, WaitInFlight,
       Sync, SyncCheck, SyncHw, SyncRelock, WaitReturn, Suspend, SuspendMark, Pause,
       Deactivate, SuspendSync, Configure, DelWaitAll, Dtor, DtorEnqueue, DtorReturn,
       ResumeLabels
  <2>2. pc'[t] \in ResumeLabels \cup {"DtorEnqueue"} /\ ret' = ret
    BY <1>4, <2>1 DEF Resume, ResumeMark, Reactivate, RelaunchNext, RelaunchEnd, ResumeWorker,
       DropAll, DropIdx, ResumeAndDrop, Goto, localVars, ResumeLabels, Steady, Base, TypeOK,
       ThreadType, Threads
  <2>3. QED
    BY <1>4, <2>2 DEF InDtor
<1>5. QED
  BY <1>2, <1>3, <1>4 DEF InDtor

\* Nothing is buffered when the destructor drops the buffer.
LEMMA NothingBuffered ==
  ASSUME Steady, NEW t \in Clients, pc[t] = "DropAll"
  PROVE  OfType(cmds, "Hardware") = {}
<1>1. SUFFICES ASSUME NEW c \in OfType(cmds, "Hardware") PROVE FALSE
  OBVIOUS
<1>2. c \in Idx /\ Buffered(c)
  BY BufferedIdx DEF Steady, Base, OfType, Buffered
<1>3. hwState[c] = Pending /\ hwState[c] \in {Created, Completed}
  BY <1>2, PendingPlaces, DropsNothing DEF Steady, Drained
<1>4. QED
  BY <1>3 DEF Pending, Created, Completed

-----------------------------------------------------------------------------
(* The parts of the invariant that need no other part *)

\* Only the destructor drops, and it finds nothing to drop.
LEMMA NextNothingDropped ==
  ASSUME Steady, NothingDropped, [Next]_vars
  PROVE  NothingDropped'
<1>1. ASSUME NEW t \in Clients, InDtor(t) PROVE InDtor(t)'
  <2>1. CASE Still(t)
    BY <1>1, <2>1 DEF Still, InDtor
  <2>2. CASE Call(t) \/ Continue(t)
    BY <1>1, <2>2, DtorAdvances
  <2>3. QED
    BY <2>1, <2>2, ThreadSteps, ThreadsAssumption DEF Steady, Base, Moves, Threads
<1>2. CASE UNCHANGED <<dropped, dropIdx>>
  BY <1>1, <1>2 DEF NothingDropped
<1>3. ASSUME LaunchDrop PROVE FALSE
  <2>1. cur.id \in Idx /\ dropIdx # -1 /\ Held(cur.id)
    BY <1>3, LaunchingIdx, HoldChanges, InputAssumption
    DEF LaunchDrop, IsDropped, Steady, Base, Held, Idx
  <2>2. PICK t \in Clients : InDtor(t)
    BY <2>1 DEF NothingDropped
  <2>3. hwState[cur.id] = Pending /\ hwState[cur.id] \in {Created, Completed}
    BY <2>1, <2>2, PendingPlaces DEF Steady, DestroyOK, DtorAlone, Drained
  <2>4. QED
    BY <2>3 DEF Pending, Created, Completed
<1>4. ASSUME NEW t \in Clients, DropAll(t) PROVE NothingDropped'
  <2>1. UNCHANGED dropIdx /\ dropped' = dropped \cup OfType(cmds, "Hardware")
    BY <1>4 DEF DropAll, logVars
  <2>2. OfType(cmds, "Hardware") = {}
    BY <1>4, NothingBuffered DEF DropAll
  <2>3. QED
    BY <1>1, <2>1, <2>2 DEF NothingDropped
<1>5. ASSUME NEW t \in Clients, ResumeAndDrop(t) PROVE NothingDropped'
  <2>1. dropped' = dropped \cup InLog(cmdLog) /\ pc'[t] = ret[t]
    BY <1>5 DEF ResumeAndDrop, Goto, Steady, Base, TypeOK, ThreadType, Threads
  <2>2. InLog(cmdLog) = {}
    BY <1>5, DropsNothing DEF ResumeAndDrop, Steady, InLog
  <2>3. ret[t] = "DtorEnqueue"
    BY <1>5 DEF ResumeAndDrop, Steady, DropOK, DropsOnlyInDtor, DropsInDtor, ResumeLabels
  <2>4. QED
    BY <2>1, <2>2, <2>3 DEF NothingDropped, InDtor
<1>6. QED
  BY <1>2, <1>3, <1>4, <1>5, DropSteps

\* A client's position in the log is reset when it has launched the log again.
LEMMA NextSnapsReset ==
  ASSUME Steady, SnapsReset, [Next]_vars
  PROVE  SnapsReset'
<1>1. SUFFICES ASSUME NEW t \in Clients, ~Relaunching(t)' PROVE snap'[t] = 0
  BY DEF SnapsReset
<1>2. CASE Still(t)
  BY <1>1, <1>2 DEF SnapsReset, Relaunching, Still
<1>3. CASE Call(t) \/ Continue(t)
  <2>1. Resumes(t) /\ pc[t] \notin SyncLabels
    BY <1>3, ClientResumes DEF Steady, LaunchOK, NoClientSyncs
  <2>2. RelaunchNext(t) => pc'[t] = "Relaunch"
    BY DEF RelaunchNext
  <2>3. pc[t] # "Relaunch" => snap[t] = 0
    BY DEF SnapsReset, Relaunching
  <2>4. RelaunchEnd(t) => snap'[t] = 0
    BY DEF RelaunchEnd, Forget, Steady, Base, TypeOK, ThreadType, Threads
  <2>5. QED
    BY <1>1, <2>1, <2>2, <2>3, <2>4 DEF Resumes, Relaunching
<1>4. QED
  BY <1>2, <1>3, ThreadSteps, ThreadsAssumption DEF Steady, Base, Moves, Threads

\* No other client switches the worker meanwhile.
LEMMA Alone ==
  ASSUME Steady, NEW t \in Clients, NEW u \in Clients, Controlling(t), Controlling(u)
  PROVE  t = u
BY DEF Steady, SwitchOK, RolesKept, OneController

\* The exit flag is set and cleared while the worker is paused.
LEMMA NextFlagOK ==
  ASSUME Steady, FlagOK, [Next]_vars
  PROVE  FlagOK'
<1>1. level >= 2 => level' >= 2
  BY LevelKept
<1>2. ASSUME NEW t \in Clients,
             pc'[t] \in {"Relaunch", "ResumeWorker", "DropAll", "DropIdx", "ResumeAndDrop"},
             exitFlag' = exitFlag
      PROVE  ~exitFlag'
  <2>1. CASE Still(t)
    BY <1>2, <2>1 DEF FlagOK, Still
  <2>2. CASE Call(t) \/ Continue(t)
    <3>1. Resumes(t)
      BY <2>2, ClientResumes DEF Steady
    <3>2. ASSUME Reactivate(t) PROVE ~exitFlag'
      BY <3>2 DEF Reactivate
    <3>3. ASSUME ResumeMark(t), pc'[t] # "ResumeWorker" PROVE FALSE
      BY <1>2, <3>3 DEF ResumeMark, Goto, Steady, Base, ControlOK, ClientControl, ResumeLabels,
         SyncLabels, TypeOK, ThreadType, Threads
    <3>4. CASE ResumeMark(t) /\ level = 1
      BY <1>2, <3>4 DEF FlagOK
    <3>5. CASE pc[t] \in {"Relaunch", "DropAll", "DropIdx"}
      BY <1>2, <3>5 DEF FlagOK
    <3>6. CASE RelaunchNext(t)
      BY <1>2, <3>6 DEF FlagOK, RelaunchNext
    <3>7. QED
      BY <1>2, <3>1, <3>2, <3>3, <3>4, <3>5, <3>6 DEF Resumes
  <2>3. QED
    BY <2>1, <2>2, ThreadSteps, ThreadsAssumption DEF Steady, Base, Moves, Threads
<1>3. ASSUME exitFlag, exitFlag' = exitFlag PROVE wstate' = "Paused"
  <2>1. wstate = "Paused"
    BY <1>3 DEF FlagOK
  <2>2. ASSUME DestroyDone PROVE FALSE
    <3>1. PICK t \in Clients : pc[t] \in {"DtorWait", "Destroyed"}
      BY <2>2 DEF DestroyDone, Steady, DestroyOK, DestroyOnce, WorkerDestroys, DestroyUnderWay
    <3>2. Controlling(t) /\ ~Switching(t) /\ ~suspended
      BY <3>1 DEF Controlling, Switching, Steady, SwitchOK, PhasesOK, PhaseOK
    <3>3. QED
      BY <2>1, <3>2, SwitchNow DEF Steady
  <2>3. ASSUME NEW t \in Clients, ResumeWorker(t) \/ ResumeAndDrop(t) PROVE FALSE
    BY <1>3, <2>3 DEF FlagOK, ResumeWorker, ResumeAndDrop
  <2>4. ASSUME NEW t \in Clients, Pause(t) PROVE wstate' = "Paused"
    BY <2>4 DEF Pause
  <2>5. QED
    BY <2>1, <2>2, <2>3, <2>4, PauseSteps
<1>4. ASSUME exitFlag' = exitFlag, preemptIdx' = preemptIdx PROVE FlagOK'
  BY <1>1, <1>2, <1>3, <1>4 DEF FlagOK
<1>5. CASE HwRetire
  <2>1. exitFlag' = exitFlag /\ (exitFlag \/ preemptIdx' = preemptIdx)
    BY <1>5 DEF HwRetire
  <2>2. QED
    BY <1>1, <1>2, <1>3, <2>1 DEF FlagOK
<1>6. CASE LaunchCommand
  BY <1>4, <1>6 DEF LaunchCommand
<1>7. ASSUME NEW t \in Clients, Deactivate(t) PROVE FlagOK'
  <2>1. /\ exitFlag' = (exitFlag \/ level >= 2) /\ wstate = "Paused"
        /\ UNCHANGED <<wstate, level, preemptIdx>> /\ Controlling(t)
    BY <1>7 DEF Deactivate, pauseVars, configVars, Controlling, Steady, SwitchOK, PhasesOK,
       PhaseOK
  <2>2. ASSUME NEW u \in Clients
        PROVE  pc'[u] \notin {"Relaunch", "ResumeWorker", "DropAll", "DropIdx", "ResumeAndDrop"}
    <3>1. CASE u = t
      BY <1>7, <3>1 DEF Deactivate, Goto, Steady, Base, TypeOK, ThreadType, Threads
    <3>2. CASE u # t
      <4>1. ~Controlling(u)
        BY <2>1, <3>2, Alone
      <4>2. pc'[u] = pc[u]
        BY <1>7, <3>2 DEF Deactivate, Goto, Steady, Base, TypeOK, ThreadType, Threads
      <4>3. QED
        BY <4>1, <4>2 DEF Controlling, ResumeLabels
    <3>3. QED
      BY <3>1, <3>2
  <2>3. QED
    BY <2>1, <2>2 DEF FlagOK
<1>8. ASSUME NEW t \in Clients, Reactivate(t) PROVE FlagOK'
  BY <1>8 DEF Reactivate, FlagOK
<1>9. ASSUME NEW t \in Clients, RelaunchNext(t) PROVE FlagOK'
  BY <1>4, <1>9 DEF RelaunchNext
<1>10. QED
  BY <1>4, <1>5, <1>6, <1>7, <1>8, <1>9, DeviceSteps

\* The log changes only when the worker moves.
LEMMA LogStill ==
  ASSUME Steady, [Next]_vars, Still(Worker)
  PROVE  cmdLog' = cmdLog
<1>1. SyncRelock(Worker) => pc'[Worker] # pc[Worker]
  BY DEF SyncRelock, Goto, Steady, Base, TypeOK, ThreadType, Threads, ControlOK, SyncLabels,
     WorkerRets
<1>2. LaunchCommand => pc'[Worker] # pc[Worker]
  BY DEF LaunchCommand, Goto, Steady, Base, TypeOK, ThreadType, Threads
<1>3. QED
  BY <1>1, <1>2, LogMoves DEF Still

\* Which command the worker waits for, and where it goes from there.
WaitsFor ==
  /\ pc'[Worker] \in SyncLabels =>
       /\ cmdLog' = cmdLog
       /\ \/ pc[Worker] \in SyncLabels /\ arg'[Worker] = arg[Worker] /\ ret'[Worker] = ret[Worker]
          \/ arg'[Worker] = All
          \/ /\ ret'[Worker] = "Threshold" /\ SyncAfterAt # {}
             /\ arg'[Worker] = cmdLog[FirstOf(SyncAfterAt)]
          \/ /\ ret'[Worker] = "Launch" /\ SyncFreeingAt # {}
             /\ arg'[Worker] = syncLog[FirstOf(SyncFreeingAt)]
          \/ /\ ret'[Worker] = "BatchSyncDone" /\ syncLog # <<>>
             /\ arg'[Worker] = syncLog[1]
  /\ pc'[Worker] = "SyncRelock" => SyncHw(Worker)

\* Every step of the worker waits so.
LEMMA WorkerWaits ==
  ASSUME Base, WorkerLoop
  PROVE  WaitsFor
<1>1. CASE Dequeue
  BY <1>1 DEF Dequeue, DequeueFront, DequeueIdle, DequeueGenWaitAll, DequeueGenBatchSync,
     Goto, Base, TypeOK, ThreadType, Threads, SyncLabels, WaitsFor
<1>2. CASE SyncCheck(Worker) \/ SyncHw(Worker)
  BY <1>2 DEF SyncCheck, SyncHw, ThreadStep, logVars, localVars, Goto, Base, TypeOK, ThreadType,
     Threads, ControlOK, WorkerRets, SyncLabels, WaitsFor
<1>3. CASE SyncRelock(Worker)
  BY <1>3 DEF SyncRelock, Goto, Base, TypeOK, ThreadType, Threads, ControlOK, WorkerRets,
     SyncLabels, WaitsFor
<1>4. CASE LaunchEnter
  BY <1>4 DEF LaunchEnter, CallSync, ThreadStep, logVars, Goto, Base, TypeOK, ThreadType,
     Threads, SyncLabels, WaitsFor
<1>5. CASE LaunchThreshold
  BY <1>5 DEF LaunchThreshold, CallSync, ThreadStep, logVars, Goto, Base, TypeOK, ThreadType,
     Threads, SyncLabels, WaitsFor
<1>6. CASE LaunchResumed \/ LaunchDrop \/ LaunchCommand
  BY <1>6 DEF LaunchResumed, LaunchDrop, LaunchCommand, Goto, Base, TypeOK, ThreadType,
     Threads, SyncLabels, WaitsFor
<1>7. CASE WaitAllEnter \/ DestroyEnter
  BY <1>7 DEF WaitAllEnter, DestroyEnter, CallSync, logVars, Goto, Base, TypeOK, ThreadType,
     Threads, SyncLabels, WaitsFor
<1>8. CASE BatchSyncEnter
  BY <1>8 DEF BatchSyncEnter, CallSync, ThreadStep, logVars, Goto, Base, TypeOK, ThreadType,
     Threads, SyncLabels, WaitsFor
<1>9. CASE WaitAllDone \/ BatchSyncDone \/ DestroyDone
  BY <1>9 DEF WaitAllDone, BatchSyncDone, DestroyDone, Goto, Base, TypeOK, ThreadType, Threads,
     SyncLabels, WaitsFor
<1>10. QED
  BY <1>1, <1>2, <1>3, <1>4, <1>5, <1>6, <1>7, <1>8, <1>9
  DEF WorkerLoop, LaunchHwCommand, Sync

\* The targets the worker chooses are in the log.
LEMMA ChosenLogged ==
  ASSUME Base
  PROVE  /\ SyncAfterAt # {} => FirstOf(SyncAfterAt) \in SyncAfterAt
         /\ SyncAfterAt # {} => Logged(cmdLog[FirstOf(SyncAfterAt)])
         /\ SyncFreeingAt # {} => Logged(syncLog[FirstOf(SyncFreeingAt)])
         /\ syncLog # <<>> => Logged(syncLog[1])
<1>1. SyncAfterAt \in SUBSET Nat /\ SyncFreeingAt \in SUBSET Nat
  BY LogElements DEF SyncAfterAt, SyncFreeingAt, Base, TypeOK
<1>2. SyncAfterAt # {} => FirstOf(SyncAfterAt) \in SyncAfterAt
  BY <1>1, FirstOfIsLeast
<1>3. SyncFreeingAt # {} => FirstOf(SyncFreeingAt) \in SyncFreeingAt
  BY <1>1, FirstOfIsLeast
<1>4. syncLog # <<>> => 1 \in 1..Len(syncLog)
  BY EmptySeq, LenProperties DEF Base, TypeOK, LogType
<1>5. ASSUME NEW k \in 1..Len(syncLog) PROVE Logged(syncLog[k])
  BY DEF Base, LogOK, SyncLogged, Found, Logged
<1>6. SyncFreeingAt \subseteq 1..Len(syncLog) /\ SyncAfterAt \subseteq 1..Len(cmdLog)
  BY DEF SyncFreeingAt, SyncAfterAt
<1>7. QED
  BY <1>2, <1>3, <1>4, <1>5, <1>6 DEF Logged

\* The worker waits for what is in the log.
LEMMA NextTargetLogged ==
  ASSUME Steady, TargetLogged, [Next]_vars
  PROVE  TargetLogged'
<1>1. CASE Still(Worker)
  BY <1>1, LogStill DEF Still, TargetLogged, Logged
<1>2. CASE WorkerLoop
  <2>1. SUFFICES ASSUME pc'[Worker] \in SyncLabels PROVE arg'[Worker] = All \/ Logged(arg[Worker])'
    BY DEF TargetLogged
  <2>2. WaitsFor /\ cmdLog' = cmdLog
    BY <1>2, <2>1, WorkerWaits DEF Steady, WaitsFor
  <2>3. arg'[Worker] = All \/ Logged(arg'[Worker])
    BY <2>1, <2>2, ChosenLogged DEF Steady, WaitsFor, TargetLogged
  <2>4. QED
    BY <2>2, <2>3 DEF Logged
<1>3. QED
  BY <1>1, <1>2, WorkerStill DEF Steady, Base

\* The kernels behind the target of a command that waits: none.
LEMMA NextWriteWaits ==
  ASSUME Steady, WriteWaits, [Next]_vars
  PROVE  WriteWaits'
<1>1. \A j \in 1..Len(cmdLog) : kind'[cmdLog[j]] = kind[cmdLog[j]]
  BY LogFacts, KindsKept DEF Steady, Submitted, InFlight, Pending
<1>2. CASE Still(Worker)
  BY <1>1, <1>2, LogStill DEF Still, WriteWaits, Deactivatable
<1>3. CASE WorkerLoop
  <2>1. SUFFICES ASSUME pc'[Worker] \in SyncLabels, ret'[Worker] = "Threshold", arg'[Worker] # All,
                        NEW j \in 1..Len(cmdLog), cmdLog[j] > arg'[Worker], Deactivatable(cmdLog[j]),
                        cmdLog' = cmdLog
                 PROVE  FALSE
    <3>1. cmdLog' = cmdLog \/ pc'[Worker] \notin SyncLabels
      BY <1>3, WorkerWaits DEF Steady, WaitsFor
    <3>2. QED
      BY <1>1, <2>1, <3>1 DEF WriteWaits, Deactivatable
  <2>2. CASE pc[Worker] \in SyncLabels /\ arg'[Worker] = arg[Worker] /\ ret'[Worker] = ret[Worker]
    BY <2>1, <2>2 DEF WriteWaits
  <2>3. CASE SyncAfterAt # {} /\ arg'[Worker] = cmdLog[FirstOf(SyncAfterAt)]
    <3>1. PICK k \in 1..Len(cmdLog) :
            /\ \A m \in DeactivatableAt : m <= k
            /\ arg'[Worker] = cmdLog[k]
      BY <2>3, ChosenLogged DEF Steady, SyncAfterAt
    <3>2. j <= k
      BY <2>1, <3>1 DEF DeactivatableAt
    <3>3. cmdLog[j] <= cmdLog[k]
      BY <3>2, LogFacts
    <3>4. QED
      BY <2>1, <3>1, <3>3, LogFacts
  <2>4. QED
    BY <1>3, <2>1, <2>2, <2>3, WorkerWaits DEF Steady, WaitsFor
<1>4. QED
  BY <1>2, <1>3, WorkerStill DEF Steady, Base

-----------------------------------------------------------------------------
(* What the steps do to the hardware queue *)

\* The hardware takes the first command from the queue.
LEMMA Retired ==
  ASSUME Steady, HwRetire
  PROVE  /\ Len(dev) > 0 /\ Head(dev) = dev[1] /\ Len(dev') = Len(dev) - 1
         /\ \A j \in 1..Len(dev') : j + 1 \in 1..Len(dev) /\ dev'[j] = dev[j + 1]
         /\ UNCHANGED <<cmdLog, hwState, kind, level, exitFlag, pc, arg, snap, ret, cur, wstate,
                        pauseCount, settled>>
<1>1. dev \in Seq([cmd : Idx, guarded : BOOLEAN]) /\ dev # <<>> /\ dev' = Tail(dev)
  BY DevFacts DEF HwRetire
<1>2. /\ Len(dev) > 0 /\ Len(dev) \in Nat /\ Head(dev) = dev[1] /\ Len(dev') = Len(dev) - 1
      /\ \A j \in 1..Len(dev') : dev'[j] = dev[j + 1]
  BY <1>1, HeadTailProperties, LenProperties, EmptySeq
<1>3. \A j \in 1..Len(dev') : j + 1 \in 1..Len(dev)
  BY <1>2
<1>4. QED
  BY <1>2, <1>3 DEF HwRetire, logVars, cmdVars, configVars, localVars, pauseVars, histVars

\* The hardware flushes the command, or it takes effect.
Flushes(e) == e.guarded /\ exitFlag

\* A step of the hardware does one of the two, and no other command takes effect.
LEMMA Retires ==
  ASSUME Steady, HwRetire
  PROVE  \/ /\ Flushes(dev[1]) /\ UNCHANGED execs
            /\ preemptIdx' = IF preemptIdx = 0 THEN dev[1].cmd ELSE preemptIdx
         \/ /\ ~Flushes(dev[1]) /\ UNCHANGED preemptIdx
            /\ execs'[dev[1].cmd] = IF execs[dev[1].cmd] = 2 THEN 2 ELSE execs[dev[1].cmd] + 1
            /\ \A c \in Idx : c # dev[1].cmd => execs'[c] = execs[c]
<1>1. Head(dev) = dev[1]
  BY Retired
<1>2. 1 \in 1..Len(dev)
  BY Retired, DevFacts
<1>3. dev[1].cmd \in Idx /\ execs \in [Idx -> 0..2]
  BY <1>2, DevFacts DEF Steady, Base, TypeOK, DeviceType
<1>4. QED
  BY <1>1, <1>3 DEF HwRetire, Flushes

\* A launch appends to the hardware queue.
Launches(c) ==
  /\ Len(dev') = Len(dev) + 1 /\ dev'[Len(dev) + 1] = DevEntry(c)
  /\ \A j \in 1..Len(dev) : dev'[j] = dev[j]

\* What is launched, first or again, comes last in the hardware queue.
LEMMA DevAppended ==
  ASSUME Steady, NEW c \in Idx, dev' = Append(dev, DevEntry(c))
  PROVE  Launches(c)
<1>1. DevEntry(c) \in [cmd : Idx, guarded : BOOLEAN]
  BY DevEntryType
<1>2. QED
  BY <1>1, DevFacts, AppendProperties DEF Launches

\* A command is launched for the first time while the worker is running.
LEMMA Launched ==
  ASSUME Steady, LaunchCommand
  PROVE  /\ cur.id \in Idx /\ Launches(cur.id) /\ hwState[cur.id] = Pending
         /\ Len(cmdLog') = Len(cmdLog) + 1 /\ cmdLog'[Len(cmdLog) + 1] = cur.id
         /\ \A j \in 1..Len(cmdLog) : cmdLog'[j] = cmdLog[j]
         /\ UNCHANGED <<kind, level, exitFlag, preemptIdx, execs, wstate>>
         /\ wstate = "Running" /\ pc[Worker] = "Launch"
<1>1. cur.id \in Idx /\ cmdLog' = Append(cmdLog, cur.id) /\ dev' = Append(dev, DevEntry(cur.id))
  BY LaunchingIdx DEF LaunchCommand, Steady, Base
<1>2. Launches(cur.id)
  BY <1>1, DevAppended
<1>3. /\ Len(cmdLog') = Len(cmdLog) + 1 /\ cmdLog'[Len(cmdLog) + 1] = cur.id
      /\ \A j \in 1..Len(cmdLog) : cmdLog'[j] = cmdLog[j]
  BY <1>1, LogFacts, AppendProperties
<1>4. hwState[cur.id] = Pending
  BY <1>1, HoldChanges, PendingPlaces DEF LaunchCommand, Steady, Base, Held
<1>5. wstate = "Running"
  BY DEF LaunchCommand, Steady, LaunchOK, LaunchesRunning
<1>6. QED
  BY <1>1, <1>2, <1>3, <1>4, <1>5 DEF LaunchCommand, configVars, pauseVars

\* While a client launches the log again, or is about to, the worker is paused.
LEMMA RelaunchPaused ==
  ASSUME Steady, NEW t \in Clients, Relaunching(t) \/ pc[t] = "Reactivate"
  PROVE  wstate = "Paused" /\ Controlling(t)
BY DEF Steady, SwitchOK, PhasesOK, PhaseOK, Relaunching, Controlling, ResumeLabels

\* A synchronization that was not interrupted has seen the hardware finish: nothing is
\* launched again while the worker is running.
LEMMA NextSyncDone ==
  ASSUME Steady, SyncDone, [Next]_vars
  PROVE  SyncDone'
<1>1. SUFFICES ASSUME pc'[Worker] = "SyncRelock", snap'[Worker] = pauseCount'
               PROVE  HwFinished(arg[Worker])'
  BY DEF SyncDone
<1>2. CASE Still(Worker)
  <2>1. pc[Worker] = "SyncRelock" /\ snap[Worker] = pauseCount' /\ arg'[Worker] = arg[Worker]
    BY <1>1, <1>2 DEF Still
  <2>2. snap[Worker] <= pauseCount /\ snap[Worker] \in Nat /\ pauseCount \in Nat
    BY <2>1 DEF Steady, LaunchOK, LaunchesRunning, Base, TypeOK, ThreadType, PauseType, Threads
  <2>3. ASSUME NEW t \in Clients, Pause(t) PROVE FALSE
    BY <2>1, <2>2, <2>3 DEF Pause
  <2>4. pauseCount' = pauseCount
    BY <2>3, PauseSteps DEF DestroyDone, ResumeWorker, ResumeAndDrop
  <2>5. HwFinished(arg[Worker]) /\ wstate = "Running"
    BY <2>1, <2>4 DEF SyncDone, Steady, LaunchOK, LaunchesRunning
  <2>6. CASE UNCHANGED dev
    BY <2>1, <2>5, <2>6 DEF HwFinished
  <2>7. CASE HwRetire
    BY <2>1, <2>5, <2>7, Retired DEF HwFinished
  <2>8. CASE LaunchCommand
    BY <2>1, <2>8 DEF LaunchCommand
  <2>9. ASSUME NEW t \in Clients, RelaunchNext(t) PROVE FALSE
    BY <2>5, <2>9, RelaunchPaused DEF RelaunchNext, Relaunching
  <2>10. ASSUME NEW t \in Clients, Deactivate(t) \/ Reactivate(t) PROVE UNCHANGED dev
    BY <2>10 DEF Deactivate, Reactivate
  <2>11. QED
    BY <2>6, <2>7, <2>8, <2>9, <2>10, DeviceSteps
<1>3. CASE WorkerLoop
  <2>1. SyncHw(Worker)
    BY <1>1, <1>3, WorkerWaits DEF Steady, WaitsFor
  <2>2. QED
    BY <2>1 DEF SyncHw, HwFinished, ThreadStep, devVars, localVars
<1>4. QED
  BY <1>2, <1>3, WorkerStill DEF Steady, Base

-----------------------------------------------------------------------------
(* The hardware queue holds the last commands of the log *)

\* A logged command keeps its kind.
LEMMA LoggedKinds ==
  ASSUME Steady, [Next]_vars
  PROVE  \A j \in 1..Len(cmdLog) : kind'[cmdLog[j]] = kind[cmdLog[j]]
BY LogFacts, KindsKept DEF Steady, Submitted, InFlight, Pending

\* The hardware moves on by one command of the log.
LEMMA RetiredInDev ==
  ASSUME Steady, HwRetire, NEW i, NEW n, InDev(i, n)
  PROVE  /\ i + 1 \in 1..Len(cmdLog) /\ i + 1 \in 0..n /\ dev[1].cmd = cmdLog[i + 1]
         /\ InDev(i + 1, n)'
<1>1. /\ i \in 0..n /\ n \in 0..Len(cmdLog) /\ Len(dev) = n - i
      /\ \A j \in 1..Len(dev) : dev[j].cmd = cmdLog[i + j]
  BY DEF InDev
<1>2. Len(dev) > 0 /\ Len(dev) \in Nat /\ Len(cmdLog) \in Nat /\ cmdLog' = cmdLog
  BY Retired, DevFacts, LogFacts
<1>3. i + 1 \in 1..Len(cmdLog) /\ i + 1 \in 0..n /\ 1 \in 1..Len(dev)
  BY <1>1, <1>2
<1>4. /\ Len(dev') = n - (i + 1)
      /\ \A j \in 1..Len(dev') : /\ j + 1 \in 1..Len(dev) /\ i + (j + 1) = (i + 1) + j
                                 /\ dev'[j] = dev[j + 1]
  BY <1>1, <1>2, Retired
<1>5. \A j \in 1..Len(dev') : dev'[j].cmd = cmdLog[(i + 1) + j]
  BY <1>1, <1>4
<1>6. QED
  BY <1>1, <1>2, <1>3, <1>4, <1>5 DEF InDev

\* What takes effect is in the log, is still to take effect, and comes after nothing
\* that is, unless it is idempotent.
Executes(c) ==
  /\ c \in Idx /\ Logged(c)
  /\ Idempotent(c) \/ execs[c] = 0
  /\ Idempotent(c) \/ \A k \in 1..Len(cmdLog) : cmdLog[k] < c => Ran(k)

\* The command the hardware executes is such a command.
LEMMA HwExecutes ==
  ASSUME Steady, DevLog, FlushOK, FlagOK, HwRetire, ~Flushes(dev[1])
  PROVE  Executes(dev[1].cmd)
<1>1. /\ 1 \in 1..Len(dev) /\ dev[1].guarded \in BOOLEAN /\ exitFlag \in BOOLEAN
      /\ preemptIdx \in Nat
  BY Retired, DevFacts DEF Steady, Base, TypeOK, DeviceType
<1>2. CASE \E i \in 0..Len(cmdLog) : Streaming(i)
  <2>1. PICK i \in 0..Len(cmdLog) : InDev(i, Len(cmdLog)) /\ StreamEffects(i)
    BY <1>2 DEF Streaming
  <2>2. i + 1 \in 1..Len(cmdLog) /\ dev[1].cmd = cmdLog[i + 1]
    BY <2>1, RetiredInDev
  <2>3. i + 1 > i /\ \A k \in 1..Len(cmdLog) : cmdLog[k] < cmdLog[i + 1] => ~(k > i)
    <3>1. \A k \in 1..Len(cmdLog) : k > i => k = i + 1 \/ i + 1 < k
      BY <2>1, LogFacts
    <3>2. QED
      BY <2>1, <2>2, <3>1, LogFacts
  <2>4. Fresh(i + 1)
    BY <2>1, <2>2, <2>3 DEF StreamEffects
  <2>5. ASSUME ~Idempotent(dev[1].cmd) PROVE preemptIdx = 0
    BY <1>1, <2>5 DEF FlushOK, FlushedFrom, FlagOK, Flushes
  <2>6. ASSUME ~Idempotent(dev[1].cmd), NEW k \in 1..Len(cmdLog), cmdLog[k] < cmdLog[i + 1]
        PROVE  Ran(k)
    BY <2>1, <2>3, <2>5, <2>6 DEF StreamEffects, Flushed
  <2>7. QED
    BY <2>2, <2>4, <2>6, LogFacts DEF Executes, Fresh, Logged
<1>3. CASE \E t \in Clients : \E i \in 0..Len(cmdLog) : Replaying(t, i) /\ Relaunching(t)
  <2>1. PICK t \in Clients, i \in 0..Len(cmdLog) :
          InDev(i, snap[t]) /\ ReplayEffects(i, arg[t]) /\ Relaunching(t)
    BY <1>3 DEF Replaying
  <2>2. i + 1 \in 1..Len(cmdLog) /\ dev[1].cmd = cmdLog[i + 1]
    BY <2>1, RetiredInDev
  <2>3. i + 1 > i /\ \A k \in 1..Len(cmdLog) : cmdLog[k] < cmdLog[i + 1] => ~(k > i)
    <3>1. \A k \in 1..Len(cmdLog) : k > i => k = i + 1 \/ i + 1 < k
      BY <2>1, LogFacts
    <3>2. QED
      BY <2>1, <2>2, <3>1, LogFacts
  <2>4. cmdLog[i + 1] >= arg[t]
    BY <1>1, <2>1, <2>2 DEF FlushOK, FlushedFrom
  <2>5. Fresh(i + 1)
    BY <2>1, <2>2, <2>3, <2>4 DEF ReplayEffects
  <2>6. \A k \in 1..Len(cmdLog) : cmdLog[k] < cmdLog[i + 1] => Ran(k)
    BY <2>1, <2>3 DEF ReplayEffects
  <2>7. QED
    BY <2>2, <2>5, <2>6, LogFacts DEF Executes, Fresh, Logged
<1>4. QED
  BY <1>2, <1>3 DEF DevLog

\* A retired command has taken effect, or was flushed.
LEMMA RetireDevLog ==
  ASSUME Steady, DevLog, FlushOK, FlagOK, HwRetire
  PROVE  DevLog'
<1>1. /\ UNCHANGED <<cmdLog, kind, pc, arg, snap>>
      /\ 1 \in 1..Len(dev) /\ dev[1].guarded \in BOOLEAN /\ exitFlag \in BOOLEAN
      /\ preemptIdx \in Nat /\ execs \in [Idx -> 0..2]
      /\ dev[1].cmd \in Nat /\ dev[1].cmd \in Idx /\ dev[1].cmd # 0
  BY Retired, DevFacts, InputAssumption DEF Steady, Base, TypeOK, DeviceType, Idx
<1>2. ASSUME NEW i \in 0..Len(cmdLog), i + 1 \in 1..Len(cmdLog), dev[1].cmd = cmdLog[i + 1]
      PROVE  /\ i + 1 > i /\ \A j \in 1..Len(cmdLog) : j > i <=> j = i + 1 \/ j > i + 1
             /\ ~(i + 1 > i + 1)
             /\ \A j \in 1..Len(cmdLog) : cmdLog[j] >= dev[1].cmd <=> j > i
             /\ \A j \in 1..Len(cmdLog) : cmdLog[j] \in Idx /\ (j # i + 1 => cmdLog[j] # dev[1].cmd)
  <2>1. \A j \in 1..Len(cmdLog) : j > i <=> j = i + 1 \/ j > i + 1
    BY LogFacts
  <2>2. \A j \in 1..Len(cmdLog) : j < i + 1 \/ j = i + 1 \/ i + 1 < j
    BY LogFacts
  <2>3. ASSUME NEW j \in 1..Len(cmdLog) PROVE cmdLog[j] >= dev[1].cmd <=> j > i
    <3>1. j < i + 1 => cmdLog[j] < dev[1].cmd /\ ~(j > i)
      BY <1>2, LogFacts
    <3>2. i + 1 < j => dev[1].cmd < cmdLog[j] /\ j > i
      BY <1>2, LogFacts
    <3>3. j = i + 1 => dev[1].cmd = cmdLog[j] /\ j > i
      BY <1>2
    <3>4. QED
      BY <1>1, <2>2, <3>1, <3>2, <3>3, LogFacts
  <2>4. QED
    BY <1>2, <2>1, <2>3, LogFacts
<1>3. ASSUME NEW i \in 0..Len(cmdLog), Streaming(i), \A t \in Clients : ~Relaunching(t)
      PROVE  DevLog'
  <2>1. InDev(i, Len(cmdLog)) /\ StreamEffects(i)
    BY <1>3 DEF Streaming
  <2>2. /\ i + 1 \in 1..Len(cmdLog) /\ i + 1 \in 0..Len(cmdLog) /\ dev[1].cmd = cmdLog[i + 1]
        /\ InDev(i + 1, Len(cmdLog))'
    <3>1. PICK n : n = Len(cmdLog)
      OBVIOUS
    <3>2. InDev(i, n)
      BY <2>1, <3>1
    <3>3. /\ i + 1 \in 1..Len(cmdLog) /\ i + 1 \in 0..n /\ dev[1].cmd = cmdLog[i + 1]
          /\ InDev(i + 1, n)'
      BY <3>2, RetiredInDev
    <3>4. n = Len(cmdLog)'
      BY <1>1, <3>1
    <3>5. QED
      BY <3>1, <3>3, <3>4
  <2>3. CASE Flushes(dev[1])
    <3>1. execs' = execs /\ preemptIdx' = IF preemptIdx = 0 THEN dev[1].cmd ELSE preemptIdx
      BY <2>3, Retires
    <3>2. preemptIdx # 0 => dev[1].cmd >= preemptIdx
      BY <1>1 DEF FlushOK, FlushedFrom
    <3>3. ASSUME NEW j \in 1..Len(cmdLog)
          PROVE  j > i \/ Flushed(j) <=> j > i + 1 \/ Flushed(j)'
      <4>1. CASE preemptIdx = 0
        BY <1>1, <1>2, <2>2, <3>1, <4>1 DEF Flushed
      <4>2. CASE preemptIdx # 0
        <5>1. Flushed(i + 1) /\ (Flushed(j)' <=> Flushed(j))
          BY <1>1, <2>2, <3>1, <3>2, <4>2 DEF Flushed
        <5>2. QED
          BY <1>2, <2>2, <5>1
      <4>3. QED
        BY <4>1, <4>2
    <3>4. StreamEffects(i + 1)'
      BY <1>1, <2>1, <3>1, <3>3 DEF StreamEffects, Fresh, Ran, Idempotent
    <3>5. QED
      BY <1>1, <1>3, <2>2, <3>4 DEF DevLog, Streaming, Relaunching
  <2>4. CASE ~Flushes(dev[1])
    <3>1. /\ preemptIdx' = preemptIdx /\ execs'[cmdLog[i + 1]] > 0
          /\ \A j \in 1..Len(cmdLog) : j # i + 1 => execs'[cmdLog[j]] = execs[cmdLog[j]]
      BY <1>1, <1>2, <2>2, <2>4, Retires
    <3>2. preemptIdx # 0 => Idempotent(cmdLog[i + 1])
      BY <1>1, <2>2, <2>4 DEF FlushOK, FlushedFrom, FlagOK, Flushes
    <3>3. \A j \in 1..Len(cmdLog) : Flushed(j)' <=> Flushed(j)
      BY <1>1, <3>1 DEF Flushed
    <3>4. ASSUME NEW j \in 1..Len(cmdLog), j # i + 1
          PROVE  IF j > i + 1 \/ Flushed(j)' THEN Fresh(j)' ELSE Ran(j)'
      <4>1. j > i \/ Flushed(j) <=> j > i + 1 \/ Flushed(j)'
        BY <1>2, <2>2, <3>3, <3>4
      <4>2. (Fresh(j)' <=> Fresh(j)) /\ (Ran(j)' <=> Ran(j))
        BY <1>1, <3>1, <3>4 DEF Fresh, Ran, Idempotent
      <4>3. QED
        BY <2>1, <4>1, <4>2 DEF StreamEffects
    <3>5. IF i + 1 > i + 1 \/ Flushed(i + 1)' THEN Fresh(i + 1)' ELSE Ran(i + 1)'
      <4>1. Ran(i + 1)'
        BY <1>1, <3>1 DEF Ran
      <4>2. Flushed(i + 1)' => Fresh(i + 1)'
        BY <1>1, <3>1, <3>2 DEF Flushed, Fresh, Idempotent
      <4>3. QED
        BY <1>2, <2>2, <4>1, <4>2
    <3>6. StreamEffects(i + 1)'
      BY <1>1, <3>4, <3>5 DEF StreamEffects
    <3>7. QED
      BY <1>1, <1>3, <2>2, <3>6 DEF DevLog, Streaming, Relaunching
  <2>5. QED
    BY <2>3, <2>4
<1>4. ASSUME NEW t \in Clients, Relaunching(t), NEW i \in 0..Len(cmdLog), Replaying(t, i)
      PROVE  DevLog'
  <2>1. InDev(i, snap[t]) /\ ReplayEffects(i, arg[t])
    BY <1>4 DEF Replaying
  <2>2. PICK n : n = snap[t]
    OBVIOUS
  <2>3. /\ i + 1 \in 1..Len(cmdLog) /\ dev[1].cmd = cmdLog[i + 1] /\ InDev(i + 1, n)'
    BY <2>1, <2>2, RetiredInDev
  <2>4. InDev(i + 1, snap[t])'
    BY <1>1, <2>2, <2>3 DEF InDev
  <2>5. ~Flushes(dev[1])
    BY <1>4 DEF Flushes, FlagOK, Relaunching
  <2>6. /\ execs'[cmdLog[i + 1]] > 0
        /\ \A j \in 1..Len(cmdLog) : j # i + 1 => execs'[cmdLog[j]] = execs[cmdLog[j]]
    BY <1>1, <1>2, <2>3, <2>5, Retires
  <2>7. ASSUME NEW j \in 1..Len(cmdLog)
        PROVE  IF j > i + 1 /\ cmdLog[j] >= arg[t] THEN Fresh(j)' ELSE Ran(j)'
    <3>1. CASE j = i + 1
      BY <1>1, <2>6, <3>1, LogFacts DEF Ran
    <3>2. CASE j # i + 1
      <4>1. (Fresh(j)' <=> Fresh(j)) /\ (Ran(j)' <=> Ran(j))
        BY <1>1, <2>6, <3>2 DEF Fresh, Ran, Idempotent
      <4>2. QED
        BY <1>2, <2>1, <2>3, <3>2, <4>1 DEF ReplayEffects
    <3>3. QED
      BY <3>1, <3>2
  <2>8. ReplayEffects(i + 1, arg[t])'
    BY <1>1, <2>7 DEF ReplayEffects
  <2>9. i + 1 \in 0..Len(cmdLog) /\ Relaunching(t)'
    BY <1>1, <1>4, <2>3, LogFacts DEF Relaunching
  <2>10. QED
    BY <1>1, <2>4, <2>8, <2>9 DEF DevLog, Replaying
<1>5. QED
  BY <1>3, <1>4 DEF DevLog

\* A client starts, goes on with or ends launching the log again, or leaves it alone.
RelaunchStill(t) ==
  /\ Relaunching(t)' <=> Relaunching(t)
  /\ Relaunching(t) => snap'[t] = snap[t] /\ arg'[t] = arg[t]

\* No other step has to do with launching the log again.
LEMMA RelaunchMoves ==
  ASSUME Steady, [Next]_vars, NEW t \in Clients
  PROVE  \/ RelaunchStill(t)
         \/ Reactivate(t) /\ Relaunching(t)'
         \/ RelaunchNext(t) \/ RelaunchEnd(t)
<1>1. CASE Still(t)
  BY <1>1 DEF Still, RelaunchStill, Relaunching
<1>2. CASE Call(t) \/ Continue(t)
  <2>1. Resumes(t)
    BY <1>2, ClientResumes DEF Steady
  <2>2. QED
    BY <2>1 DEF Resumes, RelaunchStill, Relaunching
<1>3. QED
  BY <1>1, <1>2, ThreadSteps, ThreadsAssumption DEF Steady, Base, Moves, Threads

\* Where log, hardware queue and effects stay what they are.
LEMMA DevLogFrame ==
  ASSUME Steady, DevLog, [Next]_vars, UNCHANGED <<cmdLog, dev, execs, preemptIdx>>,
         \A t \in Clients : RelaunchStill(t)
  PROVE  DevLog'
<1>1. \A j \in 1..Len(cmdLog) : /\ Fresh(j)' <=> Fresh(j)
                                /\ Ran(j)' <=> Ran(j)
                                /\ Flushed(j)' <=> Flushed(j)
  BY LoggedKinds DEF Fresh, Ran, Flushed, Idempotent
<1>2. ASSUME NEW i \in 0..Len(cmdLog), Streaming(i), \A t \in Clients : ~Relaunching(t)
      PROVE  DevLog'
  <2>1. InDev(i, Len(cmdLog))'
    BY <1>2 DEF Streaming, InDev
  <2>2. StreamEffects(i)'
    BY <1>1, <1>2 DEF Streaming, StreamEffects
  <2>3. i \in 0..Len(cmdLog)' /\ \A t \in Clients : ~Relaunching(t)'
    BY <1>2 DEF RelaunchStill
  <2>4. QED
    BY <2>1, <2>2, <2>3 DEF DevLog, Streaming
<1>3. ASSUME NEW t \in Clients, Relaunching(t), NEW i \in 0..Len(cmdLog), Replaying(t, i)
      PROVE  DevLog'
  <2>1. snap'[t] = snap[t] /\ arg'[t] = arg[t] /\ Relaunching(t)'
    BY <1>3 DEF RelaunchStill
  <2>2. InDev(i, snap[t])'
    BY <1>3, <2>1 DEF Replaying, InDev
  <2>3. ReplayEffects(i, arg[t])'
    BY <1>1, <1>3, <2>1 DEF Replaying, ReplayEffects
  <2>4. i \in 0..Len(cmdLog)'
    OBVIOUS
  <2>5. QED
    BY <2>1, <2>2, <2>3, <2>4 DEF DevLog, Replaying
<1>4. QED
  BY <1>2, <1>3 DEF DevLog

\* A command launched for the first time is the last of the log and of the hardware queue.
LEMMA LaunchDevLog ==
  ASSUME Steady, DevLog, FlagOK, NotYet, [Next]_vars, LaunchCommand
  PROVE  DevLog'
<1>1. /\ cur.id \in Idx /\ Launches(cur.id) /\ hwState[cur.id] = Pending
      /\ Len(cmdLog') = Len(cmdLog) + 1 /\ cmdLog'[Len(cmdLog) + 1] = cur.id
      /\ \A j \in 1..Len(cmdLog) : cmdLog'[j] = cmdLog[j]
      /\ UNCHANGED <<kind, level, exitFlag, preemptIdx, execs, wstate>>
      /\ wstate = "Running"
  BY Launched
<1>2. \A t \in Clients : ~Relaunching(t)
  BY <1>1, RelaunchPaused
<1>3. \A t \in Clients : ~Relaunching(t)'
  BY <1>2, RelaunchMoves DEF RelaunchStill, Reactivate, RelaunchNext, RelaunchEnd, Relaunching,
     LaunchCommand, Goto
<1>4. preemptIdx = 0
  BY <1>1 DEF FlagOK
<1>5. PICK i \in 0..Len(cmdLog) : InDev(i, Len(cmdLog)) /\ StreamEffects(i)
  BY <1>2 DEF DevLog, Streaming
<1>6. Len(cmdLog) \in Nat /\ Len(dev) \in Nat
  BY LogFacts, DevFacts
<1>7. i \in 0..Len(cmdLog)' /\ Len(dev') = Len(cmdLog') - i /\ Len(cmdLog') \in 0..Len(cmdLog')
  BY <1>1, <1>5, <1>6 DEF InDev, Launches
<1>8. \A j \in 1..Len(dev') : dev'[j].cmd = cmdLog'[i + j]
  <2>1. SUFFICES ASSUME NEW j \in 1..Len(dev') PROVE dev'[j].cmd = cmdLog'[i + j]
    OBVIOUS
  <2>2. CASE j \in 1..Len(dev)
    <3>1. dev'[j].cmd = cmdLog[i + j] /\ i + j \in 1..Len(cmdLog)
      BY <1>1, <1>5, <1>6, <2>2 DEF Launches, InDev
    <3>2. QED
      BY <1>1, <3>1
  <2>3. CASE j = Len(dev) + 1
    <3>1. i + j = Len(cmdLog) + 1
      BY <1>5, <1>6, <2>3 DEF InDev
    <3>2. QED
      BY <1>1, <2>3, <3>1 DEF Launches, DevEntry
  <2>4. QED
    BY <1>1, <1>6, <2>1, <2>2, <2>3 DEF Launches
<1>9. StreamEffects(i)'
  <2>1. SUFFICES ASSUME NEW j \in 1..Len(cmdLog')
                 PROVE  IF j > i \/ Flushed(j)' THEN Fresh(j)' ELSE Ran(j)'
    BY DEF StreamEffects
  <2>2. ~Flushed(j)'
    BY <1>1, <1>4 DEF Flushed
  <2>3. CASE j \in 1..Len(cmdLog)
    <3>1. (Fresh(j)' <=> Fresh(j)) /\ (Ran(j)' <=> Ran(j)) /\ ~Flushed(j)
      BY <1>1, <1>4, <2>3 DEF Fresh, Ran, Idempotent, Flushed
    <3>2. QED
      BY <1>5, <2>2, <2>3, <3>1 DEF StreamEffects
  <2>4. CASE j = Len(cmdLog) + 1
    <3>1. j > i
      BY <1>5, <1>6, <2>4
    <3>2. execs[cur.id] = 0
      BY <1>1 DEF NotYet, Pending, InFlight
    <3>3. Fresh(j)'
      BY <1>1, <2>4, <3>2 DEF Fresh
    <3>4. QED
      BY <3>1, <3>3
  <2>5. QED
    BY <1>1, <1>6, <2>1, <2>3, <2>4
<1>10. QED
  BY <1>3, <1>7, <1>8, <1>9 DEF DevLog, Streaming, InDev

\* What the worker completes are commands the hardware is done with.
PoppedNow == PopCount(cmdLog, arg[Worker])

\* They lie before what the hardware still holds.
LEMMA PopsDone ==
  ASSUME Steady, TargetLogged, SyncDone, SyncRelock(Worker), ~PausedMeanwhile(Worker),
         NEW i \in 0..Len(cmdLog), InDev(i, Len(cmdLog))
  PROVE  PoppedNow \in 0..i
<1>1. HwFinished(arg[Worker]) /\ (arg[Worker] = All \/ Logged(arg[Worker]))
  BY DEF SyncRelock, PausedMeanwhile, SyncDone, TargetLogged, SyncLabels
<1>2. cmdLog \in Seq(Idx) /\ Len(cmdLog) \in Nat /\ Len(dev) \in Nat
  BY LogFacts, DevFacts
<1>3. /\ PoppedNow \in 0..Len(cmdLog)
      /\ \A j \in 1..PoppedNow : FinishedWith(cmdLog[j], arg[Worker])
  BY <1>2, PopCountIsPrefix DEF PoppedNow
<1>4. CASE arg[Worker] = All
  <2>1. Len(dev) = 0
    BY <1>1, <1>2, <1>4 DEF HwFinished
  <2>2. QED
    BY <1>2, <1>3, <2>1 DEF InDev
<1>5. CASE arg[Worker] # All
  <2>1. PICK k \in 1..Len(cmdLog) : cmdLog[k] = arg[Worker]
    BY <1>1, <1>5 DEF Logged
  <2>2. k <= i
    <3>1. SUFFICES ASSUME k > i PROVE FALSE
      BY <1>2
    <3>2. k - i \in 1..Len(dev) /\ i + (k - i) = k
      BY <1>2, <3>1 DEF InDev
    <3>3. dev[k - i].cmd = arg[Worker]
      BY <2>1, <3>2 DEF InDev
    <3>4. QED
      BY <1>1, <3>2, <3>3 DEF HwFinished
  <2>3. PoppedNow <= k
    <3>1. SUFFICES ASSUME k + 1 \in 1..PoppedNow PROVE FALSE
      BY <1>2, <1>3
    <3>2. cmdLog[k + 1] <= cmdLog[k]
      BY <1>3, <1>5, <2>1, <3>1 DEF FinishedWith
    <3>3. k + 1 \in 1..Len(cmdLog) /\ k < k + 1
      BY <1>2, <1>3, <3>1
    <3>4. cmdLog[k] < cmdLog[k + 1] /\ cmdLog[k] \in Nat /\ cmdLog[k + 1] \in Nat
      BY <3>3, LogFacts
    <3>5. QED
      BY <3>2, <3>4
  <2>4. QED
    BY <1>2, <1>3, <2>2, <2>3
<1>6. QED
  BY <1>4, <1>5

\* They took effect; the hardware queue keeps its place in the log.
LEMMA SyncDevLog ==
  ASSUME Steady, DevLog, FlagOK, TargetLogged, SyncDone, [Next]_vars,
         SyncRelock(Worker), ~PausedMeanwhile(Worker)
  PROVE  /\ DevLog'
         /\ \A c \in Idx : hwState'[c] = Completed => hwState[c] = Completed \/ execs[c] > 0
<1>1. /\ cmdLog' = PopThrough(cmdLog, arg[Worker])
      /\ Complete(Popped(cmdLog, arg[Worker]))
      /\ UNCHANGED <<kind, dev, execs, preemptIdx>>
      /\ \A t \in Clients : pc'[t] = pc[t]
  BY ThreadsAssumption
  DEF SyncRelock, devVars, Goto, Steady, Base, TypeOK, ThreadType, Threads
<1>2. wstate = "Running"
  BY DEF SyncRelock, PausedMeanwhile, Steady, LaunchOK, LaunchesRunning
<1>3. /\ preemptIdx = 0
      /\ \A t \in Clients : ~Relaunching(t) /\ ~Relaunching(t)'
  BY <1>1, <1>2, RelaunchPaused DEF FlagOK, Relaunching
<1>4. PICK i \in 0..Len(cmdLog) : InDev(i, Len(cmdLog)) /\ StreamEffects(i)
  BY <1>3 DEF DevLog, Streaming
<1>5. PICK p \in 0..i : p = PoppedNow
  BY <1>4, PopsDone
<1>6. cmdLog \in Seq(Idx) /\ Len(cmdLog) \in Nat /\ Len(dev) \in Nat
  BY LogFacts, DevFacts
<1>7. /\ Len(cmdLog') = Len(cmdLog) - p
      /\ \A j \in 1..Len(cmdLog') : p + j \in 1..Len(cmdLog) /\ cmdLog'[j] = cmdLog[p + j]
  <2>1. /\ Len(cmdLog') = Len(cmdLog) - p
        /\ \A j \in 1..(Len(cmdLog) - p) : cmdLog'[j] = cmdLog[p + j]
    BY <1>1, <1>5, <1>6, PopThroughIsRest DEF PoppedNow
  <2>2. QED
    BY <1>4, <1>5, <1>6, <2>1
<1>8. \A j \in 1..Len(cmdLog) : ~Flushed(j) /\ (j <= i => Ran(j)) /\ (j > i => Fresh(j))
  BY <1>3, <1>4, <1>6 DEF StreamEffects, Flushed
<1>9. DevLog'
  <2>1. i - p \in 0..Len(cmdLog') /\ Len(cmdLog') \in Nat /\ Len(dev') = Len(cmdLog') - (i - p)
    BY <1>1, <1>4, <1>5, <1>6, <1>7 DEF InDev
  <2>2. \A j \in 1..Len(dev') : dev'[j].cmd = cmdLog'[(i - p) + j]
    <3>1. SUFFICES ASSUME NEW j \in 1..Len(dev') PROVE dev'[j].cmd = cmdLog'[(i - p) + j]
      OBVIOUS
    <3>2. (i - p) + j \in 1..Len(cmdLog') /\ p + ((i - p) + j) = i + j
      <4>1. i \in Nat /\ p \in Nat /\ i - p \in Nat
        BY <1>4, <1>5, <1>6
      <4>2. PICK n, m : n = Len(cmdLog') /\ m = Len(dev')
        OBVIOUS
      <4>3. n \in Nat /\ m = n - (i - p) /\ j \in 1..m
        BY <2>1, <4>2
      <4>4. QED
        BY <4>1, <4>2, <4>3
    <3>3. cmdLog'[(i - p) + j] = cmdLog[i + j]
      BY <1>7, <3>2
    <3>4. QED
      BY <1>1, <1>4, <3>1, <3>3 DEF InDev
  <2>3. StreamEffects(i - p)'
    <3>1. SUFFICES ASSUME NEW j \in 1..Len(cmdLog')
                   PROVE  IF j > i - p \/ Flushed(j)' THEN Fresh(j)' ELSE Ran(j)'
      BY DEF StreamEffects
    <3>2. p + j \in 1..Len(cmdLog) /\ cmdLog'[j] = cmdLog[p + j] /\ (j > i - p <=> p + j > i)
      BY <1>4, <1>5, <1>6, <1>7
    <3>3. ~Flushed(j)' /\ (Fresh(j)' <=> Fresh(p + j)) /\ (Ran(j)' <=> Ran(p + j))
      BY <1>1, <1>3, <3>2 DEF Flushed, Fresh, Ran, Idempotent
    <3>4. p + j <= i \/ p + j > i
      BY <1>4, <3>2
    <3>5. QED
      BY <1>8, <3>2, <3>3, <3>4
  <2>4. InDev(i - p, Len(cmdLog))'
    <3>1. Len(cmdLog') \in 0..Len(cmdLog')
      BY <2>1
    <3>2. QED
      BY <2>1, <2>2, <3>1 DEF InDev
  <2>5. Streaming(i - p)'
    BY <2>3, <2>4 DEF Streaming
  <2>6. \E k \in 0..Len(cmdLog') : Streaming(k)'
    BY <2>1, <2>5
  <2>7. QED
    BY <1>3, <2>6 DEF DevLog
<1>10. ASSUME NEW c \in Idx, hwState'[c] = Completed, hwState[c] # Completed
       PROVE  execs[c] > 0
  <2>1. c \in Popped(cmdLog, arg[Worker])
    BY <1>1, <1>10 DEF Complete
  <2>2. PICK j \in 1..p : c = cmdLog[j]
    BY <1>5, <2>1 DEF Popped, PoppedNow
  <2>3. j \in 1..Len(cmdLog) /\ j <= i
    BY <1>4, <1>5, <1>6, <2>2
  <2>4. QED
    BY <1>8, <2>2, <2>3 DEF Ran
<1>11. QED
  BY <1>9, <1>10

\* Only the client that launches the log again does so.
LEMMA OthersStill ==
  ASSUME Steady, [Next]_vars, NEW t \in Clients,
         Reactivate(t) \/ RelaunchNext(t) \/ RelaunchEnd(t)
  PROVE  /\ UNCHANGED <<cmdLog, kind, execs>> /\ Len(dev) \in Nat /\ Len(cmdLog) \in Nat
         /\ \A u \in Clients \ {t} : ~Relaunching(u) /\ ~Relaunching(u)'
         /\ \A j \in 1..Len(cmdLog) : (Fresh(j)' <=> Fresh(j)) /\ (Ran(j)' <=> Ran(j))
<1>1. /\ UNCHANGED <<cmdLog, kind, execs>>
      /\ \A u \in Clients \ {t} : pc'[u] = pc[u]
  BY DEF Reactivate, RelaunchNext, RelaunchEnd, ThreadStep, logVars, cmdVars, devVars, Goto,
     Steady, Base, TypeOK, ThreadType, Threads
<1>2. Controlling(t)
  BY DEF Reactivate, RelaunchNext, RelaunchEnd, Controlling, ResumeLabels
<1>3. \A u \in Clients : Relaunching(u) => Controlling(u)
  BY RelaunchPaused
<1>4. \A u \in Clients \ {t} : ~Relaunching(u) /\ ~Relaunching(u)'
  BY <1>1, <1>2, <1>3, Alone DEF Relaunching
<1>5. \A j \in 1..Len(cmdLog) : (Fresh(j)' <=> Fresh(j)) /\ (Ran(j)' <=> Ran(j))
  BY <1>1 DEF Fresh, Ran, Idempotent
<1>6. QED
  BY <1>1, <1>4, <1>5, LogFacts, DevFacts

\* A reactivation drains the hardware queue; what was flushed is now to be launched again.
LEMMA ReactivateDevLog ==
  ASSUME Steady, DevLog, SnapsReset, [Next]_vars, NEW t \in Clients, Reactivate(t)
  PROVE  DevLog'
<1>1. /\ UNCHANGED <<cmdLog, kind, execs>> /\ Len(dev) \in Nat /\ Len(cmdLog) \in Nat
      /\ \A u \in Clients \ {t} : ~Relaunching(u) /\ ~Relaunching(u)'
      /\ \A j \in 1..Len(cmdLog) : (Fresh(j)' <=> Fresh(j)) /\ (Ran(j)' <=> Ran(j))
  BY OthersStill
<1>2. /\ pc[t] = "Reactivate" /\ HwFinished(All) /\ dev' = dev /\ snap' = snap
      /\ preemptIdx' = 0
      /\ arg'[t] = IF flag[t] = "Drop" THEN 0 ELSE preemptIdx
      /\ pc'[t] = IF flag[t] = "Drop" THEN "DropAll"
                  ELSE IF preemptIdx = 0 THEN "ResumeWorker" ELSE "Relaunch"
  BY DEF Reactivate, Goto, Steady, Base, TypeOK, ThreadType, Threads
<1>3. Len(dev) = 0
  <2>1. ~(1 \in 1..Len(dev))
    BY <1>2 DEF HwFinished
  <2>2. QED
    BY <1>1, <2>1
<1>4. \A u \in Clients : ~Relaunching(u)
  BY <1>1, <1>2 DEF Relaunching
<1>5. PICK i \in 0..Len(cmdLog) : InDev(i, Len(cmdLog)) /\ StreamEffects(i)
  BY <1>4 DEF DevLog, Streaming
<1>6. i = Len(cmdLog) /\ \A j \in 1..Len(cmdLog) : ~(j > i)
  BY <1>1, <1>3, <1>5 DEF InDev
<1>7. CASE pc'[t] = "Relaunch"
  <2>1. arg'[t] = preemptIdx /\ preemptIdx # 0 /\ snap'[t] = 0
    BY <1>2, <1>4, <1>7 DEF SnapsReset
  <2>2. InDev(0, snap[t])'
    BY <1>1, <1>2, <1>3, <2>1 DEF InDev
  <2>3. ReplayEffects(0, arg[t])'
    <3>1. SUFFICES ASSUME NEW j \in 1..Len(cmdLog)
                   PROVE  IF j > 0 /\ cmdLog[j] >= preemptIdx THEN Fresh(j) ELSE Ran(j)
      BY <1>1, <2>1 DEF ReplayEffects
    <3>2. QED
      BY <1>1, <1>5, <1>6, <2>1, <3>1 DEF StreamEffects, Flushed
  <2>4. QED
    BY <1>1, <1>7, <2>2, <2>3 DEF DevLog, Replaying, Relaunching
<1>8. CASE pc'[t] # "Relaunch"
  <2>1. \A u \in Clients : ~Relaunching(u)'
    BY <1>1, <1>8 DEF Relaunching
  <2>2. InDev(i, Len(cmdLog))'
    BY <1>1, <1>2, <1>5 DEF InDev
  <2>3. StreamEffects(i)'
    <3>1. CASE flag[t] = "Drop"
      <4>1. ret[t] = "DtorEnqueue" /\ InDtor(t)
        BY <1>2, <3>1
        DEF Steady, DropOK, DropsOnlyInDtor, DropsInDtor, ResumeLabels, InDtor
      <4>2. \A c \in Idx : hwState[c] \in {Created, Completed}
        BY <4>1 DEF Steady, DestroyOK, DtorAlone, Drained
      <4>3. 1..Len(cmdLog) = {}
        BY <4>2, LogFacts DEF Created, Completed, InFlight
      <4>4. QED
        BY <1>1, <4>3 DEF StreamEffects
    <3>2. CASE flag[t] # "Drop"
      <4>1. preemptIdx = 0
        BY <1>2, <1>8, <3>2
      <4>2. QED
        BY <1>1, <1>2, <1>5, <4>1 DEF StreamEffects, Flushed
    <3>3. QED
      BY <3>1, <3>2
  <2>4. QED
    BY <1>1, <2>1, <2>2, <2>3 DEF DevLog, Streaming
<1>9. QED
  BY <1>7, <1>8

\* The next logged command is launched again, or comes before the ones to be.
LEMMA RelaunchNextDevLog ==
  ASSUME Steady, DevLog, FlushOK, [Next]_vars, NEW t \in Clients, RelaunchNext(t)
  PROVE  DevLog'
<1>1. /\ UNCHANGED <<cmdLog, kind, execs>> /\ Len(dev) \in Nat /\ Len(cmdLog) \in Nat
      /\ \A u \in Clients \ {t} : ~Relaunching(u) /\ ~Relaunching(u)'
      /\ \A j \in 1..Len(cmdLog) : (Fresh(j)' <=> Fresh(j)) /\ (Ran(j)' <=> Ran(j))
  BY OthersStill
<1>2. PICK s : s = snap[t]
  OBVIOUS
<1>3. s \in Nat /\ s < Len(cmdLog) /\ s + 1 \in 1..Len(cmdLog)
  BY <1>1, <1>2 DEF RelaunchNext, Steady, Base, TypeOK, ThreadType, Threads
<1>4. PICK c \in Idx : c = cmdLog[s + 1]
  BY <1>3, LogFacts
<1>5. /\ dev' = IF c >= arg[t] THEN Append(dev, DevEntry(c)) ELSE dev
      /\ snap'[t] = s + 1 /\ UNCHANGED arg /\ Relaunching(t) /\ Relaunching(t)'
  BY <1>2, <1>4
  DEF RelaunchNext, LaunchesAgain, Relaunching, Steady, Base, TypeOK, ThreadType, Threads
<1>6. PICK i \in 0..Len(cmdLog) : InDev(i, s) /\ ReplayEffects(i, arg[t])
  BY <1>1, <1>2, <1>5 DEF DevLog, Replaying
<1>7. CASE c >= arg[t]
  <2>1. Launches(c)
    BY <1>5, <1>7, DevAppended
  <2>2. InDev(i, s + 1)'
    <3>1. i \in 0..(s + 1) /\ s + 1 \in 0..Len(cmdLog') /\ Len(dev') = (s + 1) - i
      BY <1>1, <1>3, <1>6, <2>1 DEF InDev, Launches
    <3>2. ASSUME NEW j \in 1..Len(dev') PROVE dev'[j].cmd = cmdLog'[i + j]
      <4>1. CASE j \in 1..Len(dev)
        BY <1>1, <1>6, <2>1, <4>1 DEF InDev, Launches
      <4>2. CASE j = Len(dev) + 1
        <5>1. i + j = s + 1
          BY <1>1, <1>3, <1>6, <4>2 DEF InDev
        <5>2. QED
          BY <1>1, <1>4, <2>1, <4>2, <5>1 DEF Launches, DevEntry
      <4>3. QED
        BY <1>1, <2>1, <3>2, <4>1, <4>2 DEF Launches
    <3>3. QED
      BY <3>1, <3>2 DEF InDev
  <2>3. ReplayEffects(i, arg[t])'
    BY <1>1, <1>5, <1>6 DEF ReplayEffects
  <2>4. QED
    BY <1>1, <1>5, <2>2, <2>3 DEF DevLog, Replaying
<1>8. CASE ~(c >= arg[t])
  <2>1. Len(dev) = 0
    <3>1. SUFFICES ASSUME 1 \in 1..Len(dev) PROVE FALSE
      BY <1>1
    <3>2. dev[1].cmd >= arg[t] /\ dev[1].cmd = cmdLog[i + 1]
      BY <1>5, <1>6, <3>1 DEF FlushOK, FlushedFrom, InDev
    <3>3. i + 1 < s + 1 /\ i + 1 \in 1..Len(cmdLog)
      BY <1>1, <1>3, <1>6, <3>1 DEF InDev
    <3>4. cmdLog[i + 1] < c /\ cmdLog[i + 1] \in Nat /\ c \in Nat
      BY <1>3, <1>4, <3>3, LogFacts
    <3>5. arg[t] \in Nat
      BY DEF Steady, Base, TypeOK, ThreadType, Threads
    <3>6. QED
      BY <1>8, <3>2, <3>4, <3>5
  <2>2. i = s
    BY <1>1, <1>3, <1>6, <2>1 DEF InDev
  <2>3. InDev(s + 1, s + 1)'
    BY <1>1, <1>3, <1>5, <1>8, <2>1 DEF InDev
  <2>4. ReplayEffects(s + 1, arg[t])'
    <3>1. SUFFICES ASSUME NEW j \in 1..Len(cmdLog)
                   PROVE  IF j > s + 1 /\ cmdLog[j] >= arg[t] THEN Fresh(j) ELSE Ran(j)
      BY <1>1, <1>5 DEF ReplayEffects
    <3>2. j > s /\ cmdLog[j] >= arg[t] <=> j > s + 1 /\ cmdLog[j] >= arg[t]
      <4>1. j > s <=> j = s + 1 \/ j > s + 1
        BY <1>3, <3>1
      <4>2. j > s + 1 => j > s
        BY <1>3, <3>1
      <4>3. QED
        BY <1>4, <1>8, <4>1, <4>2
    <3>3. QED
      BY <1>6, <2>2, <3>1, <3>2 DEF ReplayEffects
  <2>5. s + 1 \in 0..Len(cmdLog')
    BY <1>1, <1>3
  <2>6. QED
    BY <1>1, <1>5, <2>3, <2>4, <2>5 DEF DevLog, Replaying
<1>9. QED
  BY <1>7, <1>8

\* When the log has been launched again, the hardware queue ends where the log ends.
LEMMA RelaunchEndDevLog ==
  ASSUME Steady, DevLog, FlushOK, FlagOK, [Next]_vars, NEW t \in Clients, RelaunchEnd(t)
  PROVE  DevLog'
<1>1. /\ UNCHANGED <<cmdLog, kind, execs>> /\ Len(dev) \in Nat /\ Len(cmdLog) \in Nat
      /\ \A u \in Clients \ {t} : ~Relaunching(u) /\ ~Relaunching(u)'
      /\ \A j \in 1..Len(cmdLog) : (Fresh(j)' <=> Fresh(j)) /\ (Ran(j)' <=> Ran(j))
  BY OthersStill
<1>2. /\ pc[t] = "Relaunch" /\ pc'[t] = "ResumeWorker" /\ snap[t] >= Len(cmdLog)
      /\ UNCHANGED <<dev, preemptIdx>>
  BY DEF RelaunchEnd, ThreadStep, devVars, Goto, Steady, Base, TypeOK, ThreadType, Threads
<1>3. PICK i \in 0..Len(cmdLog) : InDev(i, snap[t]) /\ ReplayEffects(i, arg[t])
  BY <1>1, <1>2 DEF DevLog, Replaying, Relaunching
<1>4. snap[t] = Len(cmdLog)
  BY <1>1, <1>2, <1>3 DEF InDev
<1>5. preemptIdx = 0
  BY <1>2 DEF FlagOK
<1>6. InDev(i, Len(cmdLog))'
  BY <1>1, <1>2, <1>3, <1>4 DEF InDev
<1>7. ASSUME NEW j \in 1..Len(cmdLog), j > i PROVE cmdLog[j] >= arg[t]
  <2>1. j - i \in 1..Len(dev) /\ i + (j - i) = j
    BY <1>1, <1>3, <1>4, <1>7 DEF InDev
  <2>2. dev[j - i].cmd = cmdLog[j]
    BY <1>3, <2>1 DEF InDev
  <2>3. QED
    BY <1>2, <2>1, <2>2 DEF FlushOK, FlushedFrom, Relaunching
<1>8. StreamEffects(i)'
  BY <1>1, <1>2, <1>3, <1>5, <1>7 DEF StreamEffects, ReplayEffects, Flushed
<1>9. QED
  BY <1>1, <1>2, <1>6, <1>8 DEF DevLog, Streaming, Relaunching

\* The hardware queue holds the last commands of the log, and all before them took effect.
LEMMA NextDevLog ==
  ASSUME Steady, Device, [Next]_vars
  PROVE  DevLog'
<1>1. Steady /\ DevLog /\ FlushOK /\ FlagOK /\ SnapsReset /\ TargetLogged /\ SyncDone /\ NotYet
  BY DEF Device
<1>2. CASE HwRetire
  BY <1>1, <1>2, RetireDevLog
<1>3. CASE LaunchCommand
  BY <1>1, <1>3, LaunchDevLog
<1>4. CASE SyncRelock(Worker) /\ ~PausedMeanwhile(Worker)
  BY <1>1, <1>4, SyncDevLog
<1>5. CASE \E t \in Clients : Reactivate(t)
  BY <1>1, <1>5, ReactivateDevLog
<1>6. CASE \E t \in Clients : RelaunchNext(t)
  BY <1>1, <1>6, RelaunchNextDevLog
<1>7. CASE \E t \in Clients : RelaunchEnd(t)
  BY <1>1, <1>7, RelaunchEndDevLog
<1>8. CASE /\ ~HwRetire /\ ~LaunchCommand /\ ~(SyncRelock(Worker) /\ ~PausedMeanwhile(Worker))
           /\ \A t \in Clients : ~Reactivate(t) /\ ~RelaunchNext(t) /\ ~RelaunchEnd(t)
  <2>1. cmdLog' = cmdLog
    BY <1>8, LogMoves
  <2>2. UNCHANGED <<dev, execs, preemptIdx>>
    BY <1>8, DeviceSteps DEF Deactivate
  <2>3. \A t \in Clients : RelaunchStill(t)
    BY <1>8, RelaunchMoves
  <2>4. QED
    BY <1>1, <2>1, <2>2, <2>3, DevLogFrame
<1>9. QED
  BY <1>2, <1>3, <1>4, <1>5, <1>6, <1>7, <1>8

-----------------------------------------------------------------------------
(* When commands take effect *)

\* What is in the hardware queue is logged, in the order of the log.
LEMMA DevOrdered ==
  ASSUME Steady, DevLog
  PROVE  /\ \A j \in 1..Len(dev) : Logged(dev[j].cmd)
         /\ \A j, k \in 1..Len(dev) : j < k => dev[j].cmd < dev[k].cmd
<1>1. Len(dev) \in Nat /\ Len(cmdLog) \in Nat
  BY LogFacts, DevFacts
<1>2. PICK i \in Nat, n \in Nat : InDev(i, n) /\ n <= Len(cmdLog)
  <2>1. CASE \E i \in 0..Len(cmdLog) : Streaming(i)
    BY <1>1, <2>1 DEF Streaming
  <2>2. CASE \E t \in Clients, i \in 0..Len(cmdLog) : Replaying(t, i)
    <3>1. PICK t \in Clients, i \in 0..Len(cmdLog) : InDev(i, snap[t])
      BY <2>2 DEF Replaying
    <3>2. i \in Nat /\ snap[t] \in Nat /\ snap[t] <= Len(cmdLog)
      BY <1>1, <3>1 DEF InDev
    <3>3. QED
      BY <3>1, <3>2
  <2>3. QED
    BY <2>1, <2>2 DEF DevLog
<1>3. \A j \in 1..Len(dev) : i + j \in 1..Len(cmdLog) /\ dev[j].cmd = cmdLog[i + j]
  BY <1>1, <1>2 DEF InDev
<1>4. \A j, k \in 1..Len(dev) : j < k => i + j < i + k
  BY <1>1, <1>2
<1>5. QED
  BY <1>3, <1>4, LogFacts DEF Logged

\* A command takes effect after its launch.
LEMMA NextNotYet ==
  ASSUME Steady, DevLog, NotYet, [Next]_vars
  PROVE  NotYet'
<1>1. SUFFICES ASSUME NEW c \in Idx, hwState'[c] < InFlight PROVE execs'[c] = 0
  BY DEF NotYet
<1>2. hwState'[c] >= hwState[c]
  BY NextForward DEF Steady, Base, Forward
<1>3. hwState[c] \in 0..3 /\ hwState'[c] \in 0..3
  <2>1. TypeOK'
    BY NextTyped DEF Steady, Base
  <2>2. QED
    BY <2>1 DEF Steady, Base, TypeOK, CommandType, CommandState, Created, Completed
<1>4. hwState[c] < InFlight /\ execs[c] = 0
  BY <1>1, <1>2, <1>3 DEF NotYet, InFlight
<1>5. ASSUME HwRetire PROVE execs'[c] = execs[c]
  <2>1. 1 \in 1..Len(dev)
    BY <1>5, Retired, DevFacts
  <2>2. hwState[dev[1].cmd] = InFlight
    BY <2>1, DevOrdered, LogFacts DEF Logged
  <2>3. c # dev[1].cmd
    BY <1>4, <2>2 DEF InFlight
  <2>4. QED
    BY <1>5, <2>3, Retires
<1>6. ~HwRetire => execs' = execs
  BY DeviceSteps DEF LaunchCommand, Deactivate, Reactivate, RelaunchNext
<1>7. QED
  BY <1>4, <1>5, <1>6

\* The effects of commands are not undone.
LEMMA EffectsKept ==
  ASSUME Steady, [Next]_vars, NEW c \in Idx, execs[c] > 0
  PROVE  execs'[c] > 0
<1>1. execs[c] \in 0..2
  BY DEF Steady, Base, TypeOK, DeviceType
<1>2. CASE HwRetire
  BY <1>1, <1>2, Retires
<1>3. ~HwRetire => execs' = execs
  BY DeviceSteps DEF LaunchCommand, Deactivate, Reactivate, RelaunchNext
<1>4. QED
  BY <1>2, <1>3

\* The worker drops no command.
LEMMA NoLaunchDrop ==
  ASSUME Steady, NothingDropped
  PROVE  ~LaunchDrop
<1>1. SUFFICES ASSUME LaunchDrop PROVE FALSE
  OBVIOUS
<1>2. cur.id \in Idx /\ dropIdx # -1 /\ Held(cur.id)
  BY <1>1, LaunchingIdx, HoldChanges, InputAssumption
  DEF LaunchDrop, IsDropped, Steady, Base, Held, Idx
<1>3. PICK t \in Clients : InDtor(t)
  BY <1>2 DEF NothingDropped
<1>4. hwState[cur.id] = Pending /\ hwState[cur.id] \in {Created, Completed}
  BY <1>2, <1>3, PendingPlaces DEF Steady, DestroyOK, DtorAlone, Drained
<1>5. QED
  BY <1>4 DEF Pending, Created, Completed

\* A command is completed after it has taken effect.
LEMMA NextDone ==
  ASSUME Steady, Device, [Next]_vars
  PROVE  Done'
<1>1. SUFFICES ASSUME NEW c \in Idx, hwState'[c] = Completed, hwState[c] # Completed
               PROVE  execs[c] > 0
  BY EffectsKept DEF Device, Done
<1>2. hwState \in [Idx -> CommandState]
  BY DEF Steady, Base, TypeOK, CommandType
<1>3. ASSUME NEW t \in Threads, SyncRelock(t) PROVE execs[c] > 0
  <2>1. t = Worker
    BY <1>3 DEF SyncRelock, SyncLabels, Steady, LaunchOK, NoClientSyncs, Threads
  <2>2. ~PausedMeanwhile(Worker)
    BY <1>1, <1>3, <2>1 DEF SyncRelock
  <2>3. QED
    BY <1>1, <1>3, <2>1, <2>2, SyncDevLog DEF Device
<1>4. ~LaunchDrop
  BY NoLaunchDrop DEF Device
<1>5. ASSUME LaunchCommand PROVE FALSE
  BY <1>1, <1>2, <1>5 DEF LaunchCommand, InFlight, Completed
<1>6. ASSUME NEW t \in Clients, SubmitEnqueue(t) PROVE FALSE
  BY <1>1, <1>2, <1>6 DEF SubmitEnqueue, Pending, Completed
<1>7. ASSUME NEW t \in Clients, DropAll(t) PROVE FALSE
  <2>1. OfType(cmds, "Hardware") = {}
    BY <1>7, NothingBuffered DEF DropAll
  <2>2. QED
    BY <1>1, <1>7, <2>1 DEF DropAll, Complete
<1>8. ASSUME NEW t \in Clients, ResumeAndDrop(t) PROVE FALSE
  <2>1. InLog(cmdLog) = {}
    BY <1>8, DropsNothing DEF ResumeAndDrop, Steady, InLog
  <2>2. QED
    BY <1>1, <1>8, <2>1 DEF ResumeAndDrop, Complete
<1>9. QED
  BY <1>1, <1>3, <1>4, <1>5, <1>6, <1>7, <1>8, StateSteps

-----------------------------------------------------------------------------
(* What is flushed is launched again *)

\* While the worker is paused the log stays what it is.
LEMMA PausedLog ==
  ASSUME Steady, [Next]_vars, wstate = "Paused"
  PROVE  cmdLog' = cmdLog /\ ~LaunchCommand
<1>1. ~LaunchCommand
  BY Launched
<1>2. ~(SyncRelock(Worker) /\ ~PausedMeanwhile(Worker))
  BY DEF SyncRelock, PausedMeanwhile, Steady, LaunchOK, LaunchesRunning
<1>3. QED
  BY <1>1, <1>2, LogMoves

\* What a launch puts into the hardware queue.
LEMMA EntryFields ==
  ASSUME NEW c
  PROVE  DevEntry(c).cmd = c /\ (DevEntry(c).guarded <=> level >= 2 /\ Deactivatable(c))
BY DEF DevEntry

\* The entries of the hardware queue that were there, and the ones that are new.
OldEntry(e) == \E k \in 1..Len(dev) : e = dev[k]

\* An entry is new only by a launch or by launching the log again.
LEMMA Entries ==
  ASSUME Steady, [Next]_vars, NEW j \in 1..Len(dev')
  PROVE  \/ OldEntry(dev'[j])
         \/ j = Len(dev) + 1 /\ dev'[j] = DevEntry(cur.id) /\ LaunchCommand
         \/ \E t \in Clients : /\ RelaunchNext(t) /\ snap[t] + 1 \in 1..Len(cmdLog)
                               /\ cmdLog[snap[t] + 1] >= arg[t]
                               /\ j = Len(dev) + 1 /\ dev'[j] = DevEntry(cmdLog[snap[t] + 1])
<1>1. Len(dev) \in Nat
  BY DevFacts
<1>2. dev' = dev => OldEntry(dev'[j])
  BY DEF OldEntry
<1>3. CASE HwRetire
  BY <1>3, Retired DEF OldEntry
<1>4. ASSUME NEW c \in Idx, Launches(c)
      PROVE  OldEntry(dev'[j]) \/ (j = Len(dev) + 1 /\ dev'[j] = DevEntry(c))
  <2>1. j \in 1..Len(dev) \/ j = Len(dev) + 1
    BY <1>1, <1>4 DEF Launches
  <2>2. QED
    BY <1>4, <2>1 DEF Launches, OldEntry
<1>5. CASE LaunchCommand
  BY <1>4, <1>5, Launched
<1>6. ASSUME NEW t \in Clients, RelaunchNext(t), dev' # dev
      PROVE  /\ snap[t] + 1 \in 1..Len(cmdLog) /\ cmdLog[snap[t] + 1] >= arg[t]
             /\ OldEntry(dev'[j]) \/ (j = Len(dev) + 1 /\ dev'[j] = DevEntry(cmdLog[snap[t] + 1]))
  <2>1. snap[t] + 1 \in 1..Len(cmdLog)
    BY <1>6, LogFacts DEF RelaunchNext, Steady, Base, TypeOK, ThreadType, Threads
  <2>2. PICK c \in Idx : c = cmdLog[snap[t] + 1]
    BY <2>1, LogFacts
  <2>3. c >= arg[t] /\ dev' = Append(dev, DevEntry(c))
    BY <1>6, <2>2 DEF RelaunchNext, LaunchesAgain
  <2>4. Launches(c)
    BY <2>3, DevAppended
  <2>5. QED
    BY <1>4, <2>1, <2>2, <2>3, <2>4
<1>7. QED
  BY <1>2, <1>3, <1>5, <1>6, DeviceSteps DEF Deactivate, Reactivate

\* The kind of a command in the hardware queue does not change.
LEMMA DevKinds ==
  ASSUME Steady, DevLog, [Next]_vars, NEW e, OldEntry(e)
  PROVE  /\ e.cmd \in Idx /\ Logged(e.cmd) /\ e.guarded \in BOOLEAN
         /\ kind'[e.cmd] = kind[e.cmd]
<1>1. PICK k \in 1..Len(dev) : e = dev[k]
  BY DEF OldEntry
<1>2. Logged(dev[k].cmd)
  BY DevOrdered
<1>3. kind'[dev[k].cmd] = kind[dev[k].cmd]
  BY <1>2, LoggedKinds DEF Logged
<1>4. QED
  BY <1>1, <1>2, <1>3, DevFacts

\* What was flushed stays so while log and hardware queue are kept, or grow behind it.
LEMMA FlushedKept ==
  ASSUME Steady, DevLog, [Next]_vars, NEW c \in Nat, FlushedFrom(c), cmdLog' = cmdLog,
         \A j \in 1..Len(dev') :
           \/ OldEntry(dev'[j])
           \/ dev'[j].cmd >= c /\ (dev'[j].guarded \/ kind'[dev'[j].cmd] = "record")
  PROVE  FlushedFrom(c)'
<1>1. SUFFICES ASSUME c # 0 PROVE FlushedFrom(c)'
  BY DEF FlushedFrom
<1>2. level' >= 2
  BY <1>1, LevelKept DEF FlushedFrom
<1>3. c \in Idx /\ Logged(c)' /\ Deactivatable(c)'
  BY <1>1, LoggedKinds DEF FlushedFrom, Logged, Deactivatable
<1>4. \A j \in 1..Len(cmdLog') :
        cmdLog'[j] >= c => Deactivatable(cmdLog[j])' \/ Idempotent(cmdLog[j])'
  BY <1>1, LoggedKinds DEF FlushedFrom, Deactivatable, Idempotent
<1>5. ASSUME NEW j \in 1..Len(dev')
      PROVE  dev'[j].cmd >= c /\ (dev'[j].guarded \/ Idempotent(dev[j].cmd)')
  <2>1. CASE OldEntry(dev'[j])
    <3>1. PICK k \in 1..Len(dev) : dev'[j] = dev[k]
      BY <2>1 DEF OldEntry
    <3>2. dev[k].cmd >= c /\ (dev[k].guarded \/ Idempotent(dev[k].cmd))
      BY <1>1 DEF FlushedFrom
    <3>3. kind'[dev'[j].cmd] = kind[dev[k].cmd]
      BY <2>1, <3>1, DevKinds
    <3>4. QED
      BY <3>1, <3>2, <3>3 DEF Idempotent
  <2>2. CASE ~OldEntry(dev'[j])
    BY <2>2 DEF Idempotent
  <2>3. QED
    BY <2>1, <2>2
<1>6. QED
  BY <1>2, <1>3, <1>4, <1>5 DEF FlushedFrom

\* The first command flushed is followed by commands that are flushed as well, or that
\* may take effect twice.
LEMMA FirstFlushed ==
  ASSUME Steady, Device, [Next]_vars, HwRetire, Flushes(dev[1]), preemptIdx = 0
  PROVE  FlushedFrom(preemptIdx)'
<1>1. /\ preemptIdx' = dev[1].cmd /\ exitFlag /\ dev[1].guarded
      /\ UNCHANGED <<cmdLog, kind, level>>
  BY Retires, Retired DEF Flushes
<1>2. Len(dev) \in Nat /\ Len(cmdLog) \in Nat /\ 1 \in 1..Len(dev)
  BY LogFacts, DevFacts, Retired
<1>3. \A t \in Clients : ~Relaunching(t)
  BY <1>1 DEF Device, FlagOK, Relaunching
<1>4. PICK i \in 0..Len(cmdLog) : InDev(i, Len(cmdLog))
  BY <1>3 DEF Device, DevLog, Streaming
<1>5. PICK c \in Idx : c = dev[1].cmd
  BY <1>2, DevFacts
<1>6. level >= 2 /\ Logged(c) /\ Deactivatable(c)
  BY <1>1, <1>2, <1>5, DevOrdered DEF Device, GuardOK
<1>7. \A k \in 1..Len(dev) :
        k # 1 => c < dev[k].cmd /\ (dev[k].guarded \/ Idempotent(dev[k].cmd))
  <2>1. \A k \in 1..Len(dev) : k # 1 => 1 < k
    BY <1>2
  <2>2. QED
    BY <1>1, <1>2, <1>5, <2>1, DevOrdered DEF Device, GuardOK
<1>8. ASSUME NEW j \in 1..Len(cmdLog), cmdLog[j] >= c
      PROVE  Deactivatable(cmdLog[j]) \/ Idempotent(cmdLog[j])
  <2>1. c = cmdLog[i + 1] /\ i + 1 \in 1..Len(cmdLog)
    BY <1>2, <1>4, <1>5 DEF InDev
  <2>2. j >= i + 1
    <3>1. j < i + 1 => cmdLog[j] < c /\ cmdLog[j] \in Nat /\ c \in Nat
      BY <2>1, LogFacts
    <3>2. QED
      BY <1>2, <1>8, <2>1, <3>1
  <2>3. j - i \in 1..Len(dev) /\ dev[j - i].cmd = cmdLog[j]
    <3>1. j - i \in 1..Len(dev) /\ i + (j - i) = j
      BY <1>2, <1>4, <2>2 DEF InDev
    <3>2. QED
      BY <1>4, <3>1 DEF InDev
  <2>4. dev[j - i].guarded \/ Idempotent(dev[j - i].cmd)
    BY <1>1, <1>7, <2>3
  <2>5. QED
    BY <2>3, <2>4 DEF Device, GuardOK
<1>9. ASSUME NEW j \in 1..Len(dev')
      PROVE  dev'[j].cmd >= c /\ (dev'[j].guarded \/ Idempotent(dev'[j].cmd))
  <2>1. j + 1 \in 1..Len(dev) /\ dev'[j] = dev[j + 1] /\ j + 1 # 1
    BY Retired, <1>2
  <2>2. c < dev[j + 1].cmd /\ dev[j + 1].cmd \in Nat /\ c \in Nat
    BY <1>2, <1>5, <1>7, <2>1, DevFacts
  <2>3. QED
    BY <1>7, <2>1, <2>2
<1>10. QED
  BY <1>1, <1>5, <1>6, <1>8, <1>9 DEF FlushedFrom, Logged, Deactivatable, Idempotent

\* What was flushed can be launched again, and is followed by nothing that cannot.
LEMMA NextFlushOK ==
  ASSUME Steady, Device, [Next]_vars
  PROVE  FlushOK'
<1>1. preemptIdx \in Nat /\ \A t \in Clients : arg[t] \in Nat
  BY InputAssumption DEF Steady, Base, TypeOK, DeviceType, ThreadType, Threads
<1>2. DevLog /\ FlushedFrom(preemptIdx) /\ FlagOK
  BY DEF Device, FlushOK
<1>3. FlushedFrom(preemptIdx)'
  <2>1. CASE preemptIdx' = 0
    BY <2>1 DEF FlushedFrom
  <2>2. CASE preemptIdx' = preemptIdx /\ preemptIdx # 0
    <3>1. PICK c \in Nat : c = preemptIdx
      BY <1>1
    <3>2. wstate = "Paused" /\ cmdLog' = cmdLog /\ ~LaunchCommand
      BY <1>2, <2>2, PausedLog DEF FlagOK
    <3>3. ~\E t \in Clients : RelaunchNext(t)
      BY <1>2, <2>2 DEF FlagOK, RelaunchNext
    <3>4. \A j \in 1..Len(dev') : OldEntry(dev'[j])
      BY <3>2, <3>3, Entries
    <3>5. FlushedFrom(c)'
      BY <1>2, <3>1, <3>2, <3>4, FlushedKept
    <3>6. QED
      BY <2>2, <3>1, <3>5
  <2>3. CASE HwRetire /\ preemptIdx = 0
    BY <1>1, <2>1, <2>3, Retires, FirstFlushed
  <2>4. CASE HwRetire /\ preemptIdx # 0
    BY <2>2, <2>4, Retires
  <2>5. CASE ~HwRetire
    <3>1. preemptIdx' = preemptIdx \/ preemptIdx' = 0
      BY <2>5, DeviceSteps DEF LaunchCommand, Deactivate, Reactivate, RelaunchNext
    <3>2. QED
      BY <2>1, <2>2, <3>1
  <2>6. QED
    BY <2>3, <2>4, <2>5
<1>4. ASSUME NEW t \in Clients, Relaunching(t)'
      PROVE  arg'[t] # 0 /\ FlushedFrom(arg[t])'
  <2>1. CASE Relaunching(t)
    <3>1. PICK c \in Nat : c = arg[t]
      BY <1>1
    <3>2. c # 0 /\ FlushedFrom(c)
      BY <2>1, <3>1 DEF Device, FlushOK
    <3>3. wstate = "Paused" /\ cmdLog' = cmdLog /\ ~LaunchCommand /\ Controlling(t)
      BY <2>1, RelaunchPaused, PausedLog
    <3>4. arg'[t] = c
      BY <1>4, <2>1, <3>1, RelaunchMoves
      DEF RelaunchStill, Reactivate, RelaunchNext, RelaunchEnd, Relaunching, Goto, Steady,
          Base, TypeOK, ThreadType, Threads
    <3>5. ASSUME NEW j \in 1..Len(dev'), ~OldEntry(dev'[j])
          PROVE  dev'[j].cmd >= c /\ (dev'[j].guarded \/ kind'[dev'[j].cmd] = "record")
      <4>1. PICK u \in Clients : /\ RelaunchNext(u) /\ snap[u] + 1 \in 1..Len(cmdLog)
                                 /\ cmdLog[snap[u] + 1] >= arg[u]
                                 /\ dev'[j] = DevEntry(cmdLog[snap[u] + 1])
        BY <3>3, <3>5, Entries
      <4>2. u = t
        BY <3>3, <4>1, Alone DEF RelaunchNext, Controlling, ResumeLabels
      <4>3. PICK k \in 1..Len(cmdLog) : cmdLog[k] >= c /\ dev'[j] = DevEntry(cmdLog[k])
        BY <3>1, <4>1, <4>2
      <4>4. level >= 2 /\ (Deactivatable(cmdLog[k]) \/ Idempotent(cmdLog[k]))
        BY <3>2, <4>3 DEF FlushedFrom
      <4>5. kind'[cmdLog[k]] = kind[cmdLog[k]]
        BY LoggedKinds
      <4>6. QED
        BY <4>3, <4>4, <4>5, EntryFields DEF Idempotent
    <3>6. FlushedFrom(c)'
      BY <1>2, <3>2, <3>3, <3>5, FlushedKept
    <3>7. QED
      BY <3>2, <3>4, <3>6
  <2>2. CASE ~Relaunching(t)
    <3>1. Reactivate(t)
      BY <1>4, <2>2, RelaunchMoves DEF RelaunchStill, RelaunchNext, RelaunchEnd, Relaunching
    <3>2. PICK c \in Nat : c = preemptIdx
      BY <1>1
    <3>3. arg'[t] = c /\ c # 0 /\ UNCHANGED <<cmdLog, dev>>
      BY <1>4, <3>1, <3>2
      DEF Reactivate, Relaunching, Goto, logVars, Steady, Base, TypeOK, ThreadType, Threads
    <3>4. FlushedFrom(c)'
      BY <1>2, <3>2, <3>3, FlushedKept DEF OldEntry
    <3>5. QED
      BY <3>3, <3>4
  <2>3. QED
    BY <2>1, <2>2
<1>5. QED
  BY <1>3, <1>4 DEF FlushOK

-----------------------------------------------------------------------------
(* What is launched behind a kernel *)

\* A launch behind guarded commands keeps GuardOK unless the command writes memory.
LEMMA LaunchGuarded ==
  ASSUME Steady, GuardOK, NEW c \in Idx, Launches(c), UNCHANGED <<level, kind>>,
         (\E j \in 1..Len(dev) : dev[j].guarded) => ~Writes(c)
  PROVE  GuardOK'
<1>1. Len(dev) \in Nat
  BY DevFacts
<1>2. dev'[Len(dev) + 1].cmd = c /\ (dev'[Len(dev) + 1].guarded <=> level >= 2 /\ Deactivatable(c))
  BY EntryFields DEF Launches
<1>3. \A j \in 1..Len(dev') : (j \in 1..Len(dev) /\ dev'[j] = dev[j]) \/ j = Len(dev) + 1
  BY <1>1 DEF Launches
<1>4. ASSUME NEW j \in 1..Len(dev'), dev'[j].guarded
      PROVE  level' >= 2 /\ Deactivatable(dev[j].cmd)'
  BY <1>2, <1>3, <1>4 DEF GuardOK, Deactivatable
<1>5. ASSUME NEW j \in 1..Len(dev'), NEW k \in 1..Len(dev'), j < k, dev'[j].guarded
      PROVE  dev'[k].guarded \/ Idempotent(dev[k].cmd)'
  <2>1. j \in 1..Len(dev) /\ dev'[j] = dev[j]
    BY <1>1, <1>3, <1>5 DEF Launches
  <2>2. CASE k \in 1..Len(dev) /\ dev'[k] = dev[k]
    BY <1>5, <2>1, <2>2 DEF GuardOK, Idempotent
  <2>3. CASE k = Len(dev) + 1
    <3>1. level >= 2 /\ ~Writes(c)
      BY <1>5, <2>1 DEF GuardOK
    <3>2. QED
      BY <1>2, <2>3, <3>1 DEF Writes, Idempotent
  <2>4. QED
    BY <1>3, <2>2, <2>3
<1>6. QED
  BY <1>4, <1>5 DEF GuardOK

\* Nothing that writes memory gets behind a command that may be flushed.
LEMMA NextGuardOK ==
  ASSUME Steady, Device, [Next]_vars
  PROVE  GuardOK'
<1>1. GuardOK /\ DevLog /\ FlushOK /\ WriteBehind
  BY DEF Device
<1>2. CASE HwRetire
  <2>1. \A j \in 1..Len(dev') : j + 1 \in 1..Len(dev) /\ dev'[j] = dev[j + 1]
    BY <1>2, Retired
  <2>2. \A j, k \in 1..Len(dev') : j < k => j + 1 < k + 1
    BY <1>2, Retired, DevFacts
  <2>3. UNCHANGED <<level, kind>>
    BY <1>2, Retired
  <2>4. ASSUME NEW j \in 1..Len(dev'), dev'[j].guarded
        PROVE  level' >= 2 /\ Deactivatable(dev[j].cmd)'
    BY <1>1, <2>1, <2>3, <2>4 DEF GuardOK, Deactivatable
  <2>5. ASSUME NEW j \in 1..Len(dev'), NEW k \in 1..Len(dev'), j < k, dev'[j].guarded
        PROVE  dev'[k].guarded \/ Idempotent(dev[k].cmd)'
    <3>1. /\ j + 1 \in 1..Len(dev) /\ dev[j + 1].guarded
          /\ k + 1 \in 1..Len(dev) /\ j + 1 < k + 1 /\ dev'[k] = dev[k + 1]
      BY <2>1, <2>2, <2>5
    <3>2. dev[k + 1].guarded \/ Idempotent(dev[k + 1].cmd)
      BY <1>1, <3>1 DEF GuardOK
    <3>3. QED
      BY <2>3, <3>1, <3>2 DEF Idempotent
  <2>6. QED
    BY <2>4, <2>5 DEF GuardOK
<1>3. CASE LaunchCommand
  <2>1. /\ cur.id \in Idx /\ Launches(cur.id) /\ UNCHANGED <<level, kind>> /\ pc[Worker] = "Launch"
    BY <1>3, Launched
  <2>2. (\E j \in 1..Len(dev) : dev[j].guarded) => ~Writes(cur.id)
    BY <1>1, <2>1 DEF WriteBehind, PastWait, Unguarded
  <2>3. QED
    BY <1>1, <2>1, <2>2, LaunchGuarded
<1>4. ASSUME NEW t \in Clients, RelaunchNext(t), dev' # dev PROVE GuardOK'
  <2>1. snap[t] + 1 \in 1..Len(cmdLog) /\ UNCHANGED <<level, kind>> /\ Relaunching(t)
    BY <1>4, LogFacts
    DEF RelaunchNext, configVars, cmdVars, Relaunching, Steady, Base, TypeOK, ThreadType, Threads
  <2>2. PICK c \in Idx : c = cmdLog[snap[t] + 1]
    BY <2>1, LogFacts
  <2>3. c >= arg[t] /\ dev' = Append(dev, DevEntry(c))
    BY <1>4, <2>2 DEF RelaunchNext, LaunchesAgain
  <2>4. Launches(c)
    BY <2>3, DevAppended
  <2>5. ~Writes(c)
    BY <1>1, <2>1, <2>2, <2>3 DEF FlushOK, FlushedFrom, Writes
  <2>6. QED
    BY <1>1, <2>1, <2>4, <2>5, LaunchGuarded
<1>5. CASE dev' = dev
  <2>1. \A j \in 1..Len(dev) : kind'[dev[j].cmd] = kind[dev[j].cmd]
    BY <1>1, DevKinds DEF OldEntry
  <2>2. QED
    BY <1>1, <1>5, <2>1, LevelKept DEF GuardOK, Deactivatable, Idempotent
<1>6. QED
  BY <1>2, <1>3, <1>4, <1>5, DeviceSteps DEF Deactivate, Reactivate

\* How the worker gets past the wait for kernels, or stays there.
LEMMA PastWaitEntered ==
  ASSUME Steady, TargetLogged, [Next]_vars, PastWait'
  PROVE  \/ PastWait /\ cur' = cur
         \/ LaunchEnter /\ ~WaitsForDeactivatable(cur.id) /\ cur' = cur
         \/ SyncRelock(Worker) /\ ~PausedMeanwhile(Worker) /\ ret[Worker] = "Threshold"
         \/ SyncCheck(Worker) /\ cmdLog = <<>> /\ ret[Worker] \in {"Threshold", "Launch"}
<1>1. CASE Still(Worker)
  <2>1. PastWait
    BY <1>1 DEF PastWait, Still
  <2>2. ~DequeueFront /\ ~DequeueGenWaitAll /\ ~DequeueGenBatchSync
    BY <2>1 DEF PastWait, DequeueFront, DequeueGenWaitAll, DequeueGenBatchSync, SyncLabels
  <2>3. QED
    BY <2>1, <2>2, DequeuedSteps
<1>2. CASE Dequeue
  BY <1>2 DEF Dequeue, DequeueFront, DequeueIdle, DequeueGenWaitAll, DequeueGenBatchSync, Goto,
    PastWait, Steady, Base, TypeOK, ThreadType, Threads, SyncLabels
<1>3. CASE SyncCheck(Worker)
  <2>1. CASE NothingToSync(Worker)
    <3>1. wstate # "Terminated"
      BY <1>3 DEF Steady, Base, EndedIsExited, SyncCheck
    <3>2. CASE arg[Worker] = All
      <4>1. cmdLog = <<>>
        BY <2>1, <3>1, <3>2 DEF NothingToSync
      <4>2. ret[Worker] \in WorkerRets /\ pc'[Worker] = ret[Worker]
        BY <1>3, <2>1 DEF SyncCheck, Goto, Steady, Base, TypeOK, ControlOK, ThreadType, Threads,
          SyncLabels
      <4>3. QED
        BY <1>3, <4>1, <4>2 DEF PastWait, WorkerRets, SyncLabels
    <3>3. CASE arg[Worker] # All
      <4>1. Logged(arg[Worker])
        BY <1>3, <3>3 DEF TargetLogged, SyncCheck, SyncLabels
      <4>2. hwState[arg[Worker]] = InFlight
        BY <4>1, LogFacts DEF Logged
      <4>3. QED
        BY <2>1, <3>1, <3>3, <4>2 DEF NothingToSync, InFlight, Completed
    <3>4. QED
      BY <3>2, <3>3
  <2>2. CASE ~NothingToSync(Worker)
    BY <1>3, <2>2 DEF SyncCheck, Goto, PastWait, Steady, Base, TypeOK, ThreadType, Threads,
      SyncLabels
  <2>3. QED
    BY <2>1, <2>2
<1>4. CASE SyncHw(Worker)
  BY <1>4 DEF SyncHw, localVars, Goto, PastWait, Steady, Base, TypeOK, ThreadType, Threads,
    SyncLabels
<1>5. CASE SyncRelock(Worker)
  BY <1>5 DEF SyncRelock, Goto, PastWait, Steady, Base, TypeOK, ControlOK, WorkerRets, ThreadType,
    Threads, SyncLabels
<1>6. CASE LaunchEnter
  BY <1>6 DEF LaunchEnter, CallSync, Goto, PastWait, Steady, Base, TypeOK, ThreadType, Threads,
    SyncLabels
<1>7. CASE LaunchThreshold \/ LaunchResumed
  BY <1>7 DEF LaunchThreshold, LaunchResumed, CallSync, Goto, PastWait
<1>8. CASE LaunchDrop \/ LaunchCommand
  BY <1>8 DEF LaunchDrop, LaunchCommand, Goto, PastWait, Steady, Base, TypeOK, ThreadType, Threads,
    SyncLabels
<1>9. CASE \/ WaitAllEnter \/ WaitAllDone \/ BatchSyncEnter \/ BatchSyncDone
          \/ DestroyEnter \/ DestroyDone
  BY <1>9 DEF WaitAllEnter, WaitAllDone, BatchSyncEnter, BatchSyncDone, DestroyEnter,
    DestroyDone, CallSync, Goto, PastWait, Steady, Base, TypeOK, ThreadType, Threads, SyncLabels
<1>10. QED
  BY <1>1, <1>2, <1>3, <1>4, <1>5, <1>6, <1>7, <1>8, <1>9, WorkerStill
  DEF Steady, Base, WorkerLoop, LaunchHwCommand, Sync

\* Where no kernel may be flushed, none is, and nothing is launched again.
LEMMA NoKernels ==
  ASSUME Steady, DevLog, GuardOK, FlushOK, level < 2 \/ DeactivatableAt = {}
  PROVE  Unguarded
<1>1. ASSUME NEW c, level >= 2, Logged(c), Deactivatable(c) PROVE FALSE
  BY <1>1 DEF Logged, DeactivatableAt, Steady, Base, TypeOK, ConfigType, Level
<1>2. \A j \in 1..Len(dev) : ~dev[j].guarded
  BY <1>1, DevOrdered DEF GuardOK
<1>3. \A c : FlushedFrom(c) => c = 0
  BY <1>1 DEF FlushedFrom
<1>4. QED
  BY <1>2, <1>3 DEF Unguarded, FlushOK

\* It stays so until a command is launched.
LEMMA UnguardedKept ==
  ASSUME Steady, Unguarded, [Next]_vars, ~LaunchCommand
  PROVE  Unguarded'
<1>1. preemptIdx = 0 /\ \A t \in Clients : ~Relaunching(t) /\ ~RelaunchNext(t) /\ ~RelaunchEnd(t)
  BY DEF Unguarded, Relaunching, RelaunchNext, RelaunchEnd
<1>2. ASSUME NEW t \in Clients PROVE ~Relaunching(t)'
  <2>1. ~(Reactivate(t) /\ Relaunching(t)')
    BY <1>1 DEF Reactivate, Relaunching, Goto, Steady, Base, TypeOK, ThreadType, Threads
  <2>2. QED
    BY <1>1, <2>1, RelaunchMoves DEF RelaunchStill
<1>3. CASE HwRetire
  <2>1. 1 \in 1..Len(dev) /\ \A j \in 1..Len(dev') : j + 1 \in 1..Len(dev) /\ dev'[j] = dev[j + 1]
    BY <1>3, Retired, DevFacts
  <2>2. ~Flushes(dev[1])
    BY <2>1 DEF Unguarded, Flushes
  <2>3. QED
    BY <1>1, <1>2, <1>3, <2>1, <2>2, Retires DEF Unguarded
<1>4. CASE ~HwRetire
  <2>1. dev' = dev /\ preemptIdx' = 0
    BY <1>1, <1>4, DeviceSteps DEF Deactivate, Reactivate
  <2>2. QED
    BY <1>2, <2>1 DEF Unguarded
<1>5. QED
  BY <1>3, <1>4

\* The wait of a command that writes memory ends when no kernel before it can be flushed.
LEMMA WaitedForKernels ==
  ASSUME Steady, Device, SyncRelock(Worker), ~PausedMeanwhile(Worker), ret[Worker] = "Threshold"
  PROVE  Unguarded
<1>1. /\ wstate = "Running" /\ HwFinished(arg[Worker]) /\ pc[Worker] \in SyncLabels
      /\ arg[Worker] = All \/ Logged(arg[Worker])
  BY DEF SyncRelock, PausedMeanwhile, Steady, LaunchOK, LaunchesRunning, Device, SyncDone,
     TargetLogged, SyncLabels
<1>2. preemptIdx = 0 /\ \A t \in Clients : ~Relaunching(t)
  BY <1>1, RelaunchPaused DEF Device, FlagOK
<1>3. PICK i \in 0..Len(cmdLog) : InDev(i, Len(cmdLog))
  BY <1>2 DEF Device, DevLog, Streaming
<1>4. Len(cmdLog) \in Nat /\ Len(dev) \in Nat
  BY LogFacts, DevFacts
<1>5. ASSUME NEW j \in 1..Len(dev), arg[Worker] # All PROVE ~dev[j].guarded
  <2>1. PICK k \in 1..Len(cmdLog) : cmdLog[k] = arg[Worker]
    BY <1>1, <1>5 DEF Logged
  <2>2. k <= i
    <3>1. SUFFICES ASSUME k > i PROVE FALSE
      BY <1>3, <1>4
    <3>2. k - i \in 1..Len(dev) /\ i + (k - i) = k
      BY <1>3, <1>4, <3>1 DEF InDev
    <3>3. dev[k - i].cmd = arg[Worker]
      BY <1>3, <2>1, <3>2 DEF InDev
    <3>4. QED
      BY <1>1, <3>2, <3>3 DEF HwFinished
  <2>3. i + j \in 1..Len(cmdLog) /\ k < i + j /\ dev[j].cmd = cmdLog[i + j]
    BY <1>3, <1>4, <2>2 DEF InDev
  <2>4. cmdLog[i + j] > arg[Worker]
    BY <2>1, <2>3, LogFacts
  <2>5. ~Deactivatable(cmdLog[i + j])
    BY <1>1, <1>5, <2>3, <2>4 DEF Device, WriteWaits
  <2>6. QED
    BY <2>3, <2>5 DEF Device, GuardOK
<1>6. ASSUME NEW j \in 1..Len(dev), arg[Worker] = All PROVE FALSE
  BY <1>1, <1>6 DEF HwFinished
<1>7. QED
  BY <1>2, <1>5, <1>6 DEF Unguarded

\* A command that writes memory is launched behind no kernel that may be flushed.
LEMMA NextWriteBehind ==
  ASSUME Steady, Device, [Next]_vars
  PROVE  WriteBehind'
<1>1. SUFFICES ASSUME PastWait', Writes(cur.id)' PROVE Unguarded'
  BY DEF WriteBehind
<1>2. ~LaunchCommand
  BY <1>1 DEF LaunchCommand, Goto, PastWait, Steady, Base, TypeOK, ThreadType, Threads, SyncLabels
<1>3. \/ PastWait /\ cur' = cur
      \/ LaunchEnter /\ ~WaitsForDeactivatable(cur.id) /\ cur' = cur
      \/ SyncRelock(Worker) /\ ~PausedMeanwhile(Worker) /\ ret[Worker] = "Threshold"
      \/ SyncCheck(Worker) /\ cmdLog = <<>> /\ ret[Worker] \in {"Threshold", "Launch"}
  BY <1>1, PastWaitEntered DEF Device
<1>4. cur' = cur /\ HoldsHw /\ cur.type = "Hardware"
  BY <1>3 DEF PastWait, LaunchEnter, SyncRelock, SyncCheck, HoldsHw, Launching, SyncLabels,
    Steady, Base, ControlOK
<1>5. cur.id \in Idx
  BY <1>4, CommandFields DEF Steady, Base, TypeOK, ThreadType
<1>6. Writes(cur.id)
  <2>1. cur.id \in Submitted
    BY <1>4, <1>5, PlacesSubmitted DEF Held, Steady
  <2>2. kind'[cur.id] = kind[cur.id]
    BY <2>1, KindsKept DEF Steady
  <2>3. QED
    BY <1>1, <1>4, <2>2 DEF Writes, Deactivatable, Idempotent
<1>7. Unguarded
  <2>1. CASE PastWait
    BY <1>6, <2>1 DEF Device, WriteBehind
  <2>2. CASE LaunchEnter /\ ~WaitsForDeactivatable(cur.id)
    <3>1. level < 2 \/ DeactivatableAt = {}
      BY <1>6, <2>2
      DEF WaitsForDeactivatable, Writes, Steady, Base, TypeOK, ConfigType, Level
    <3>2. QED
      BY <3>1, NoKernels DEF Device
  <2>3. CASE SyncRelock(Worker) /\ ~PausedMeanwhile(Worker) /\ ret[Worker] = "Threshold"
    BY <2>3, WaitedForKernels
  <2>4. CASE cmdLog = <<>>
    <3>1. DeactivatableAt = {}
      BY <2>4 DEF DeactivatableAt
    <3>2. QED
      BY <3>1, NoKernels DEF Device
  <2>5. QED
    BY <1>3, <2>1, <2>2, <2>3, <2>4
<1>8. QED
  BY <1>2, <1>7, UnguardedKept

-----------------------------------------------------------------------------
(* The hardware does what the log says *)

\* Initially nothing is launched.
LEMMA InitDevice ==
  Init => Device
<1>1. SUFFICES ASSUME Init PROVE Device
  OBVIOUS
<1>2. /\ \A t \in Clients : pc[t] = "Idle" /\ snap[t] = 0
      /\ pc[Worker] = "Dequeue" /\ Len(cmdLog) = 0 /\ Len(dev) = 0 /\ preemptIdx = 0
      /\ exitFlag = FALSE /\ dropped = {} /\ dropIdx = -1
  BY <1>1, ThreadsAssumption DEF Init, Threads
<1>3. NothingDropped /\ SnapsReset /\ FlagOK /\ TargetLogged /\ SyncDone /\ WriteWaits /\ WriteBehind
  BY <1>2 DEF NothingDropped, SnapsReset, FlagOK, TargetLogged, SyncDone, WriteWaits,
     WriteBehind, PastWait, SyncLabels
<1>4. \A t \in Clients : ~Relaunching(t)
  BY <1>2 DEF Relaunching
<1>5. DevLog
  <2>1. Streaming(0) /\ 0 \in 0..Len(cmdLog)
    BY <1>2 DEF Streaming, InDev, StreamEffects
  <2>2. QED
    BY <1>4, <2>1 DEF DevLog
<1>6. FlushOK /\ GuardOK
  BY <1>2, <1>4 DEF FlushOK, FlushedFrom, GuardOK
<1>7. NotYet /\ Done
  BY <1>1 DEF Init, NotYet, Done, Created, Completed
<1>8. QED
  BY <1>3, <1>5, <1>6, <1>7 DEF Device

\* The invariant of the hardware queue is kept by every step.
LEMMA DeviceInvariant == OrderlyUse /\ Spec => [](Steady /\ Device)
<1>1. ASSUME Steady, Device, [Next]_vars PROVE Device'
  <2>1. NothingDropped' /\ SnapsReset' /\ FlagOK' /\ TargetLogged' /\ SyncDone' /\ WriteWaits'
    BY <1>1, NextNothingDropped, NextSnapsReset, NextFlagOK, NextTargetLogged, NextSyncDone,
       NextWriteWaits
    DEF Device
  <2>2. DevLog' /\ FlushOK' /\ GuardOK' /\ WriteBehind' /\ Done'
    BY <1>1, NextDevLog, NextFlushOK, NextGuardOK, NextWriteBehind, NextDone
  <2>3. NotYet'
    BY <1>1, NextNotYet DEF Device
  <2>4. QED
    BY <2>1, <2>2, <2>3 DEF Device
<1>2. Steady /\ Device /\ [Next]_vars => Device'
  BY <1>1
<1>3. QED
  BY <1>2, InitDevice, SteadyInvariant, PTL DEF Spec

\* No synchronization completes a command that is still in the hardware queue or was
\* flushed by a deactivation.
THEOREM CompletedWasExecuted == OrderlyUse /\ Spec => []CompletedMeansExecuted
<1>1. Device => CompletedMeansExecuted
  BY DEF Device, Done, CompletedMeansExecuted
<1>2. QED
  BY <1>1, DeviceInvariant, PTL

\* A command that is not idempotent takes effect in one step at most.
LEMMA NextAtMostOnce ==
  ASSUME Steady, Device, AtMostOnce, [Next]_vars
  PROVE  AtMostOnce'
<1>1. SUFFICES ASSUME NEW c \in Idx, ~Idempotent(c)' PROVE execs'[c] < 2
  BY DEF AtMostOnce
<1>2. execs[c] \in 0..2
  BY DEF Steady, Base, TypeOK, DeviceType
<1>3. CASE hwState[c] < InFlight
  <2>1. execs[c] = 0
    BY <1>3 DEF Device, NotYet
  <2>2. QED
    <3>1. ~HwRetire => execs' = execs
      BY DeviceSteps DEF LaunchCommand, Deactivate, Reactivate, RelaunchNext
    <3>2. HwRetire => execs'[c] = execs[c] \/ execs'[c] = 1
      BY <2>1, Retires
    <3>3. QED
      BY <2>1, <3>1, <3>2
<1>4. CASE ~(hwState[c] < InFlight)
  <2>1. c \in Submitted
    BY <1>4 DEF Submitted, InFlight, Pending, Steady, Base, TypeOK, CommandType, CommandState,
      Created, Completed
  <2>2. ~Idempotent(c)
    BY <1>1, <2>1, KindsKept DEF Idempotent, Steady
  <2>3. execs[c] < 2
    BY <2>2 DEF AtMostOnce
  <2>4. CASE HwRetire
    <3>1. CASE Flushes(dev[1])
      BY <2>3, <2>4, <3>1, Retires
    <3>2. CASE ~Flushes(dev[1])
      <4>1. c = dev[1].cmd => execs[c] = 0
        BY <2>2, <2>4, <3>2, HwExecutes DEF Device, Executes
      <4>2. QED
        BY <2>3, <2>4, <3>2, <4>1, Retires
    <3>3. QED
      BY <3>1, <3>2
  <2>5. ~HwRetire => execs' = execs
    BY DeviceSteps DEF LaunchCommand, Deactivate, Reactivate, RelaunchNext
  <2>6. QED
    BY <2>3, <2>4, <2>5
<1>5. QED
  BY <1>3, <1>4

\* A command that is not idempotent takes effect at most once, however often the queue is
\* deactivated and its log launched again.
THEOREM EffectsOnce == OrderlyUse /\ Spec => []AtMostOnce
<1>1. Init => AtMostOnce
  BY DEF Init, AtMostOnce
<1>2. Steady /\ Device /\ AtMostOnce /\ [Next]_vars => AtMostOnce'
  BY NextAtMostOnce
<1>3. QED
  BY <1>1, <1>2, DeviceInvariant, PTL DEF Spec

\* What a client was told to be finished takes no effect any more.
THEOREM SettledAreQuiet == OrderlyUse /\ Spec => SettledQuiet
<1>1. ASSUME Steady, Device, [Next]_vars, NEW c \in settled PROVE execs'[c] = execs[c]
  <2>1. c \in Idx /\ hwState[c] = Completed
    BY <1>1 DEF Steady, SettledCompleted, Base, TypeOK, HistoryType
  <2>2. CASE HwRetire
    <3>1. 1 \in 1..Len(dev)
      BY <1>1, <2>2, Retired, DevFacts
    <3>2. Logged(dev[1].cmd)
      BY <1>1, <3>1, DevOrdered DEF Device
    <3>3. hwState[dev[1].cmd] = InFlight
      BY <1>1, <3>2, LogFacts DEF Logged
    <3>4. c # dev[1].cmd
      BY <2>1, <3>3 DEF InFlight, Completed
    <3>5. QED
      BY <1>1, <2>1, <2>2, <3>4, Retires
  <2>3. CASE ~HwRetire
    BY <1>1, <2>3, DeviceSteps DEF LaunchCommand, Deactivate, Reactivate, RelaunchNext
  <2>4. QED
    BY <2>2, <2>3
<1>2. Steady /\ Device /\ [Next]_vars => [\A c \in settled : execs'[c] = execs[c]]_vars
  BY <1>1
<1>3. QED
  BY <1>2, DeviceInvariant, PTL DEF Spec, SettledQuiet

-----------------------------------------------------------------------------
(* The order of effects *)

\* Submit hands out the indices in order.
LEMMA IndexSteps ==
  ASSUME [Next]_vars
  PROVE  UNCHANGED nextIdx \/ \E t \in Clients : SubmitIdx(t)
<1>1. CASE UNCHANGED vars
  BY <1>1 DEF vars, queueVars
<1>2. CASE HwRetire
  BY <1>2 DEF HwRetire, queueVars
<1>3. ASSUME NEW t \in Threads, SyncCheck(t) \/ SyncHw(t) \/ SyncRelock(t)
      PROVE  UNCHANGED nextIdx
  BY <1>3 DEF SyncCheck, SyncHw, SyncRelock, ThreadStep, queueVars
<1>4. CASE Dequeue
  BY <1>4 DEF Dequeue, queueVars
<1>5. CASE LaunchEnter \/ LaunchThreshold \/ LaunchResumed \/ LaunchDrop \/ LaunchCommand
  BY <1>5 DEF LaunchEnter, LaunchThreshold, LaunchResumed, LaunchDrop, LaunchCommand,
    ThreadStep, queueVars
<1>6. CASE \/ WaitAllEnter \/ WaitAllDone \/ BatchSyncEnter \/ BatchSyncDone
          \/ DestroyEnter \/ DestroyDone
  BY <1>6 DEF WaitAllEnter, WaitAllDone, BatchSyncEnter, BatchSyncDone, DestroyEnter,
    DestroyDone, ThreadStep, queueVars
<1>7. ASSUME NEW t \in Clients, \/ WaitAllCall(t) \/ WaitCall(t) \/ SuspendCall(t)
             \/ ResumeCall(t) \/ ConfigureCall(t) \/ DelCall(t)
      PROVE  UNCHANGED nextIdx
  BY <1>7 DEF WaitAllCall, WaitCall, SuspendCall, ResumeCall, ConfigureCall, DelCall,
    BeginWaitAll, ThreadStep, queueVars
<1>8. ASSUME NEW t \in Clients, \/ SuspendMark(t) \/ Pause(t) \/ Deactivate(t)
             \/ SuspendSync(t)
      PROVE  UNCHANGED nextIdx
  BY <1>8 DEF SuspendMark, Pause, Deactivate, SuspendSync, ThreadStep, queueVars
<1>9. ASSUME NEW t \in Clients, \/ ResumeMark(t) \/ Reactivate(t) \/ RelaunchNext(t)
             \/ RelaunchEnd(t) \/ ResumeWorker(t) \/ DropAll(t) \/ DropIdx(t)
             \/ ResumeAndDrop(t)
      PROVE  UNCHANGED nextIdx
  BY <1>9 DEF ResumeMark, Reactivate, RelaunchNext, RelaunchEnd, ResumeWorker, DropAll,
    DropIdx, ResumeAndDrop, ThreadStep, queueVars
<1>10. ASSUME NEW t \in Clients, \/ SubmitEnqueue(t) \/ SubmitReturn(t) \/ WaitAllReturn(t)
             \/ WaitInFlight(t) \/ WaitReturn(t)
      PROVE  UNCHANGED nextIdx
  BY <1>10 DEF SubmitEnqueue, SubmitReturn, WaitAllReturn, WaitInFlight, WaitReturn,
    ThreadStep, queueVars
<1>11. ASSUME NEW t \in Clients, \/ Configure(t) \/ DelWaitAll(t) \/ Dtor(t)
             \/ DtorEnqueue(t) \/ DtorReturn(t)
      PROVE  UNCHANGED nextIdx
  BY <1>11 DEF Configure, DelWaitAll, Dtor, DtorEnqueue, DtorReturn, BeginWaitAll,
    ThreadStep, queueVars
<1>12. QED
  BY <1>1, <1>2, <1>3, <1>4, <1>5, <1>6, <1>7, <1>8, <1>9, <1>10, <1>11
  DEF Next, WorkerLoop, LaunchHwCommand, Call, Continue, Sync, Suspend, Resume, Threads

\* The indices handed out are submitted, or about to be.
Submitting(c) == \E t \in Clients : pc[t] = "Submit" /\ arg[t] = c
IndicesUsed == \A c \in Idx : c < nextIdx => c \in Submitted \/ Submitting(c)

\* It remains so: an index leaves a submitter only with its command.
LEMMA NextIndicesUsed ==
  ASSUME Base, IndicesUsed, [Next]_vars
  PROVE  IndicesUsed'
<1>1. SUFFICES ASSUME NEW c \in Idx, c < nextIdx' PROVE c \in Submitted' \/ Submitting(c)'
  BY DEF IndicesUsed
<1>2. CASE c \in Submitted
  <2>1. hwState[c] \in 0..3 /\ hwState'[c] \in 0..3 /\ hwState'[c] >= hwState[c]
    <3>1. TypeOK'
      BY NextTyped DEF Base
    <3>2. QED
      BY <3>1, NextForward
      DEF Base, Forward, TypeOK, CommandType, CommandState, Created, Completed
  <2>2. QED
    BY <1>2, <2>1 DEF Submitted, Pending
<1>3. CASE Submitting(c)
  <2>1. PICK t \in Clients : pc[t] = "Submit" /\ arg[t] = c
    BY <1>3 DEF Submitting
  <2>2. CASE Still(t)
    BY <2>1, <2>2 DEF Still, Submitting
  <2>3. CASE SubmitEnqueue(t)
    BY <2>1, <2>3
    DEF SubmitEnqueue, Submitted, Pending, Base, TypeOK, CommandType
  <2>4. CASE (Call(t) \/ Continue(t)) /\ ~SubmitEnqueue(t)
    BY <2>1, <2>4
    DEF Call, SubmitIdx, WaitAllCall, WaitCall, SuspendCall, ResumeCall, ConfigureCall, DelCall,
      MayCall, Continue, SubmitReturn, WaitAllReturn, WaitInFlight, Sync, SyncCheck, SyncHw,
      SyncRelock, WaitReturn, Suspend, SuspendMark, Pause, Deactivate, SuspendSync, Resume,
      ResumeMark, Reactivate, RelaunchNext, RelaunchEnd, ResumeWorker, DropAll, DropIdx,
      ResumeAndDrop, Configure, DelWaitAll, Dtor, DtorEnqueue, DtorReturn
  <2>5. QED
    BY <2>2, <2>3, <2>4, ThreadSteps, ThreadsAssumption DEF Base, Moves, Threads
<1>4. CASE c \notin Submitted /\ ~Submitting(c)
  <2>1. ~(c < nextIdx)
    BY <1>4 DEF IndicesUsed
  <2>2. PICK t \in Clients : SubmitIdx(t)
    BY <1>1, <2>1, IndexSteps
  <2>3. nextIdx \in Nat /\ nextIdx' = nextIdx + 1 /\ pc'[t] = "Submit" /\ arg'[t] = nextIdx
    BY <2>2 DEF SubmitIdx, Goto, Base, TypeOK, QueueType, ThreadType, Threads
  <2>4. c = nextIdx
    BY <1>1, <2>1, <2>3, InputAssumption DEF Idx
  <2>5. QED
    BY <2>3, <2>4 DEF Submitting
<1>5. QED
  BY <1>2, <1>3, <1>4

\* With one submitter, what precedes a submitted command has been submitted.
LEMMA SubmittedBelow ==
  ASSUME Steady, IndicesUsed, NEW c \in Submitted, NEW b \in Idx, b < c
  PROVE  b \in Submitted
<1>1. c \in Idx /\ c < nextIdx /\ b < nextIdx
  BY InputAssumption
  DEF Submitted, Pending, Created, Steady, Base, Owned, SubmitOwned, TypeOK, QueueType, Idx
<1>2. ASSUME Submitting(b) PROVE FALSE
  BY <1>2, <1>1, InputAssumption DEF Submitting, Steady, Ascending, SubmitLast, Idx
<1>3. QED
  BY <1>1, <1>2 DEF IndicesUsed

\* This holds of every behaviour, with any number of submitters.
LEMMA IndicesInvariant == Spec => []IndicesUsed
<1>1. Init => IndicesUsed
  BY InputAssumption DEF Init, IndicesUsed, Idx
<1>2. Base /\ IndicesUsed /\ [Next]_vars => IndicesUsed'
  BY NextIndicesUsed
<1>3. QED
  BY <1>1, <1>2, BaseInvariant, PTL DEF Spec

\* When a command that writes memory takes effect, all submitted before it have.
LEMMA EffectsOrdered ==
  ASSUME Steady, Device, IndicesUsed, HwRetire, NEW c \in Idx, execs'[c] > execs[c],
         ~Idempotent(c), NEW b \in Idx, b < c
  PROVE  execs[b] > 0
<1>1. execs \in [Idx -> 0..2]
  BY DEF Steady, Base, TypeOK, DeviceType
<1>2. ~Flushes(dev[1]) /\ c = dev[1].cmd
  BY <1>1, Retires
<1>3. Executes(c)
  BY <1>2, HwExecutes DEF Device
<1>4. Logged(c) /\ \A k \in 1..Len(cmdLog) : cmdLog[k] < c => Ran(k)
  BY <1>3 DEF Executes
<1>5. b \in Submitted
  BY <1>4, PlacesSubmitted, SubmittedBelow DEF Steady
<1>6. hwState[b] \in {Pending, InFlight, Completed}
  BY <1>5 DEF Submitted, Steady, Base, TypeOK, CommandType, CommandState, Created, Pending,
    InFlight, Completed
<1>7. CASE hwState[b] = Completed
  BY <1>7 DEF Device, Done
<1>8. CASE hwState[b] = InFlight
  <2>1. Logged(b)
    BY <1>8 DEF Steady, Delivery, Located, LocatedAt
  <2>2. QED
    BY <1>4, <2>1 DEF Logged, Ran
<1>9. CASE hwState[b] = Pending
  <2>1. Held(b) \/ Buffered(b)
    BY <1>9 DEF Steady, Delivery, Located, LocatedAt
  <2>2. c < b
    BY <1>4, <2>1 DEF Steady, Ascending, LogFirst
  <2>3. QED
    BY <2>2, InputAssumption DEF Idx
<1>10. QED
  BY <1>6, <1>7, <1>8, <1>9

\* Deactivation never lets a later command overtake a flushed one.
THEOREM EffectsInOrder == OrderlyUse /\ Spec => InOrder
<1>1. ASSUME Steady, Device, IndicesUsed, [Next]_vars, NEW c \in Idx, execs'[c] > execs[c],
             ~Idempotent(c), NEW b \in 1..(c - 1)
      PROVE  execs[b] > 0
  <2>1. b \in Idx /\ b < c
    BY InputAssumption DEF Idx
  <2>2. HwRetire
    <3>1. execs[c] \in 0..2
      BY <1>1 DEF Steady, Base, TypeOK, DeviceType
    <3>2. ~HwRetire => execs' = execs
      BY <1>1, DeviceSteps DEF LaunchCommand, Deactivate, Reactivate, RelaunchNext
    <3>3. QED
      BY <1>1, <3>1, <3>2
  <2>3. QED
    BY <1>1, <2>1, <2>2, EffectsOrdered
<1>2. Steady /\ Device /\ IndicesUsed /\ [Next]_vars
      => [\A c \in Idx : execs'[c] > execs[c] /\ ~Idempotent(c)
            => \A b \in 1..(c - 1) : execs[b] > 0 \/ b \in dropped]_vars
  BY <1>1
<1>3. QED
  BY <1>2, DeviceInvariant, IndicesInvariant, PTL DEF Spec, InOrder

-----------------------------------------------------------------------------
(* The end of the queue *)

\* The steps that change the state of the destroy command.
LEMMA EndSteps ==
  ASSUME [Next]_vars
  PROVE  \/ UNCHANGED destroyState
         \/ DestroyEnter \/ DestroyDone \/ \E t \in Clients : DtorEnqueue(t)
<1>1. CASE UNCHANGED vars
  BY <1>1 DEF vars, queueVars
<1>2. CASE HwRetire
  BY <1>2 DEF HwRetire, queueVars
<1>3. ASSUME NEW t \in Threads, SyncCheck(t) \/ SyncHw(t) \/ SyncRelock(t)
      PROVE  UNCHANGED destroyState
  BY <1>3 DEF SyncCheck, SyncHw, SyncRelock, ThreadStep, queueVars
<1>4. CASE Dequeue
  BY <1>4 DEF Dequeue, queueVars
<1>5. CASE LaunchEnter \/ LaunchThreshold \/ LaunchResumed \/ LaunchDrop \/ LaunchCommand
  BY <1>5 DEF LaunchEnter, LaunchThreshold, LaunchResumed, LaunchDrop, LaunchCommand,
    ThreadStep, queueVars
<1>6. CASE WaitAllEnter \/ WaitAllDone \/ BatchSyncEnter \/ BatchSyncDone
  BY <1>6 DEF WaitAllEnter, WaitAllDone, BatchSyncEnter, BatchSyncDone, ThreadStep, queueVars
<1>7. ASSUME NEW t \in Clients, Call(t) PROVE UNCHANGED destroyState
  BY <1>7 DEF Call, SubmitIdx, WaitAllCall, WaitCall, SuspendCall, ResumeCall, ConfigureCall,
    DelCall, BeginWaitAll, ThreadStep, queueVars
<1>8. ASSUME NEW t \in Clients, \/ SuspendMark(t) \/ Pause(t) \/ Deactivate(t)
             \/ SuspendSync(t)
      PROVE  UNCHANGED destroyState
  BY <1>8 DEF SuspendMark, Pause, Deactivate, SuspendSync, ThreadStep, queueVars
<1>9. ASSUME NEW t \in Clients, \/ ResumeMark(t) \/ Reactivate(t) \/ RelaunchNext(t)
             \/ RelaunchEnd(t) \/ ResumeWorker(t) \/ DropAll(t) \/ DropIdx(t)
             \/ ResumeAndDrop(t)
      PROVE  UNCHANGED destroyState
  BY <1>9 DEF ResumeMark, Reactivate, RelaunchNext, RelaunchEnd, ResumeWorker, DropAll,
    DropIdx, ResumeAndDrop, ThreadStep, queueVars
<1>10. ASSUME NEW t \in Clients, \/ SubmitEnqueue(t) \/ SubmitReturn(t) \/ WaitAllReturn(t)
             \/ WaitInFlight(t) \/ WaitReturn(t)
      PROVE  UNCHANGED destroyState
  BY <1>10 DEF SubmitEnqueue, SubmitReturn, WaitAllReturn, WaitInFlight, WaitReturn,
    ThreadStep, queueVars
<1>11. ASSUME NEW t \in Clients, \/ Configure(t) \/ DelWaitAll(t) \/ Dtor(t) \/ DtorReturn(t)
      PROVE  UNCHANGED destroyState
  BY <1>11 DEF Configure, DelWaitAll, Dtor, DtorReturn, BeginWaitAll, ThreadStep, queueVars
<1>12. QED
  BY <1>1, <1>2, <1>3, <1>4, <1>5, <1>6, <1>7, <1>8, <1>9, <1>10, <1>11
  DEF Next, WorkerLoop, LaunchHwCommand, Call, Continue, Sync, Suspend, Resume, Threads

\* The destroy command is completed, and the destructor returns, only when the worker
\* has ended.
EndSeen ==
  /\ destroyState = Completed => pc[Worker] = "Exited"
  /\ \A t \in Clients : pc[t] = "Destroyed" => pc[Worker] = "Exited"

\* Nobody completes the destroy command but the worker that ends.
LEMMA NextEndSeen ==
  ASSUME Base, EndSeen, [Next]_vars
  PROVE  EndSeen'
<1>1. pc[Worker] = "Exited" => pc'[Worker] = "Exited"
  <2>1. pc[Worker] = "Exited" => ~WorkerLoop
    BY DEF WorkerLoop, Dequeue, DequeueFront, DequeueIdle, DequeueGenWaitAll,
      DequeueGenBatchSync, LaunchHwCommand, LaunchEnter, LaunchThreshold, LaunchResumed,
      LaunchDrop, LaunchCommand, Sync, SyncCheck, SyncHw, SyncRelock, WaitAllEnter, WaitAllDone,
      BatchSyncEnter, BatchSyncDone, DestroyEnter, DestroyDone
  <2>2. QED
    BY <2>1, WorkerStill DEF Base, Still
<1>2. destroyState' = Completed => pc'[Worker] = "Exited"
  <2>1. CASE UNCHANGED destroyState
    BY <1>1, <2>1 DEF EndSeen
  <2>2. CASE DestroyDone
    BY <2>2 DEF DestroyDone, Goto, Base, TypeOK, ThreadType, Threads
  <2>3. ASSUME DestroyEnter \/ \E t \in Clients : DtorEnqueue(t) PROVE destroyState' # Completed
    BY <2>3 DEF DestroyEnter, DtorEnqueue, Pending, InFlight, Completed
  <2>4. QED
    BY <2>1, <2>2, <2>3, EndSteps
<1>3. ASSUME NEW t \in Clients, pc'[t] = "Destroyed" PROVE pc'[Worker] = "Exited"
  <2>1. CASE pc[t] = "Destroyed"
    BY <1>1, <2>1 DEF EndSeen
  <2>2. CASE pc[t] # "Destroyed"
    <3>1. Call(t) \/ Continue(t)
      BY <1>3, <2>2, ThreadSteps, ThreadsAssumption DEF Base, Moves, Still, Threads
    <3>2. ~DtorEnqueue(t)
      BY <1>3 DEF DtorEnqueue, Goto, Base, TypeOK, ThreadType, Threads
    <3>3. pc[t] = "DtorWait"
      BY <1>3, <2>2, <3>1, <3>2, ClientEnters DEF Base, Enters
    <3>4. destroyState = Completed
      BY <3>1, <3>3 DEF Call, SubmitIdx, WaitAllCall, WaitCall, SuspendCall, ResumeCall,
        ConfigureCall, DelCall, MayCall, Continue, SubmitEnqueue, SubmitReturn, WaitAllReturn,
        WaitInFlight, Sync, SyncCheck, SyncHw, SyncRelock, WaitReturn, Suspend, SuspendMark,
        Pause, Deactivate, SuspendSync, Resume, ResumeMark, Reactivate, RelaunchNext,
        RelaunchEnd, ResumeWorker, DropAll, DropIdx, ResumeAndDrop, Configure, DelWaitAll,
        Dtor, DtorEnqueue, DtorReturn
    <3>5. QED
      BY <1>1, <3>4 DEF EndSeen
  <2>3. QED
    BY <2>1, <2>2
<1>4. QED
  BY <1>2, <1>3 DEF EndSeen

\* The destroy command is the last one in the buffer; the worker executes it when the
\* buffer is empty.
WorkerEnds == WorkerDestroys \/ (pc[Worker] = "Dequeued" /\ cur.type = "Destroy")
EndLast ==
  /\ \A j \in 1..Len(cmds) : cmds[j].type = "Destroy" => j = Len(cmds)
  /\ WorkerEnds => cmds = <<>>

\* The worker gets to the destroy command by dequeuing it only.
LEMMA EndsByDequeue ==
  ASSUME Base, [Next]_vars, WorkerEnds', ~DequeueFront
  PROVE  WorkerEnds
<1>1. CASE Still(Worker)
  <2>1. DequeueGenWaitAll \/ DequeueGenBatchSync => pc[Worker] # pc'[Worker]
    BY DEF DequeueGenWaitAll, DequeueGenBatchSync, Goto, Base, TypeOK, ThreadType, Threads
  <2>2. UNCHANGED cur
    BY <1>1, <2>1, DequeuedSteps DEF Still
  <2>3. QED
    BY <1>1, <2>2 DEF Still, WorkerEnds, WorkerDestroys
<1>2. CASE Dequeue
  BY <1>2 DEF Dequeue, DequeueIdle, DequeueGenWaitAll, DequeueGenBatchSync, Goto, WorkerEnds,
    WorkerDestroys, SyncLabels, WaitAllCmd, BatchSync, Base, TypeOK, ThreadType, Threads
<1>3. CASE Sync(Worker)
  BY <1>3 DEF Sync, SyncCheck, SyncHw, SyncRelock, Goto, localVars, WorkerEnds, WorkerDestroys,
    SyncLabels, WorkerRets, Base, TypeOK, ThreadType, Threads, ControlOK
<1>4. CASE LaunchHwCommand
  BY <1>4 DEF LaunchHwCommand, LaunchEnter, LaunchThreshold, LaunchResumed, LaunchDrop,
    LaunchCommand, Goto, CallSync, localVars, WorkerEnds, WorkerDestroys, SyncLabels, Base,
    TypeOK, ThreadType, Threads
<1>5. CASE WaitAllEnter \/ WaitAllDone \/ BatchSyncEnter \/ BatchSyncDone
  BY <1>5 DEF WaitAllEnter, WaitAllDone, BatchSyncEnter, BatchSyncDone, CallSync, Goto,
    localVars, WorkerEnds, WorkerDestroys, SyncLabels, Base, TypeOK, ThreadType, Threads
<1>6. CASE DestroyEnter \/ DestroyDone
  BY <1>6 DEF DestroyEnter, DestroyDone, WorkerEnds, WorkerDestroys
<1>7. QED
  BY <1>1, <1>2, <1>3, <1>4, <1>5, <1>6, WorkerStill DEF Base, WorkerLoop

\* Nothing is enqueued behind a destroy command.
LEMMA NextEndLast ==
  ASSUME Base, DestroyOK, EndLast, [Next]_vars
  PROVE  EndLast'
<1>1. CASE ~DestroyUnderWay'
  <2>1. ~HasDestroy' /\ cur'.type # "Destroy" /\ ~WorkerDestroys'
    BY <1>1, NextDestroyOnce DEF DestroyOK, DestroyOnce
  <2>2. QED
    BY <2>1 DEF EndLast, WorkerEnds, HasDestroy
<1>2. CASE ~DestroyUnderWay /\ DestroyUnderWay'
  <2>1. PICK t \in Clients : DtorEnqueue(t)
    <3>1. PICK u \in Clients : /\ pc'[u] \in {"DtorWait", "Destroyed"}
                                /\ pc[u] \notin {"DtorWait", "Destroyed"}
      BY <1>2 DEF DestroyUnderWay
    <3>2. Call(u) \/ Continue(u)
      BY <3>1, ThreadSteps, ThreadsAssumption DEF Base, Moves, Still, Threads
    <3>3. QED
      BY <3>1, <3>2, ClientEnters DEF Base, Enters
  <2>2. ~HasDestroy /\ cur.type # "Destroy" /\ ~WorkerDestroys
    BY <1>2 DEF DestroyOK, DestroyOnce
  <2>3. ~WorkerEnds'
    <3>1. ~DequeueFront
      BY <2>1 DEF DtorEnqueue, DequeueFront, Goto, Base, TypeOK, ThreadType, Threads,
        ControlOK, ClientControl
    <3>2. QED
      BY <2>2, <3>1, EndsByDequeue DEF WorkerEnds
  <2>4. ASSUME NEW j \in 1..Len(cmds'), cmds'[j].type = "Destroy" PROVE j = Len(cmds')
    <3>1. DestroyCmd \in XCommand /\ cmds' = Append(cmds, DestroyCmd)
      BY <2>1, DtorBuffers
    <3>2. Len(cmds) \in Nat /\ Len(cmds') = Len(cmds) + 1
          /\ \A k \in 1..Len(cmds) : cmds'[k] = cmds[k]
      BY <3>1, Appended DEF Base
    <3>3. QED
      BY <2>2, <2>4, <3>2 DEF HasDestroy
  <2>5. QED
    BY <2>3, <2>4 DEF EndLast
<1>3. CASE DestroyUnderWay
  <2>1. ASSUME NEW t \in Clients, Call(t) \/ Continue(t) PROVE pc[t] = "DtorWait"
    BY <1>3, <2>1, LastCall
  <2>2. CASE DequeueFront
    <3>1. /\ Len(cmds) \in Nat /\ Len(cmds) > 0 /\ Len(cmds') = Len(cmds) - 1
          /\ cur' = cmds[1] /\ \A j \in 1..Len(cmds') : cmds'[j] = cmds[j + 1]
          /\ pc'[Worker] = "Dequeued"
      BY <2>2, FrontTaken DEF Base
    <3>2. ASSUME NEW j \in 1..Len(cmds'), cmds'[j].type = "Destroy" PROVE j = Len(cmds')
      <4>1. j + 1 \in 1..Len(cmds) /\ cmds[j + 1].type = "Destroy"
        BY <3>1, <3>2
      <4>2. QED
        BY <3>1, <4>1 DEF EndLast
    <3>3. ASSUME WorkerEnds' PROVE cmds' = <<>>
      <4>1. cmds[1].type = "Destroy"
        BY <3>1, <3>3 DEF WorkerEnds, WorkerDestroys, SyncLabels
      <4>2. Len(cmds) = 1
        BY <3>1, <4>1 DEF EndLast
      <4>3. cmds' \in Seq(XCommand)
        BY NextTyped DEF Base, TypeOK, BufferType
      <4>4. QED
        BY <3>1, <4>2, <4>3, EmptySeq
    <3>4. QED
      BY <3>2, <3>3 DEF EndLast
  <2>3. CASE ~DequeueFront
    <3>1. UNCHANGED cmds
      BY <2>1, <2>3, BufferSteps DEF Call, Continue, Resume, WaitAllCall, ConfigureCall,
         SubmitEnqueue, DropAll, DelWaitAll, DtorEnqueue, MayCall
    <3>2. QED
      BY <2>3, <3>1, EndsByDequeue DEF EndLast
  <2>4. QED
    BY <2>2, <2>3
<1>4. QED
  BY <1>1, <1>2, <1>3

\* Both hold of every behaviour.
LEMMA EndInvariant == Spec => [](EndSeen /\ EndLast)
<1>1. Init => EndSeen /\ EndLast
  BY ThreadsAssumption DEF Init, EndSeen, EndLast, WorkerEnds, WorkerDestroys, SyncLabels,
    WaitAllCmd, Created, Completed, Threads
<1>2. Base /\ DestroyOK /\ EndSeen /\ EndLast /\ [Next]_vars => EndSeen' /\ EndLast'
  BY NextEndSeen, NextEndLast
<1>3. QED
  BY <1>1, <1>2, DestroyInvariant, PTL DEF Spec

\* Destroying the queue loses nothing, although the destructor resumes with the drop flag.
THEOREM DestroyedIsDrained == OrderlyUse /\ Spec => []DestroyLosesNothing
<1>1. ASSUME Steady, Device, EndSeen, EndLast, NEW t \in Clients, pc[t] = "Destroyed"
      PROVE  /\ pc[Worker] = "Exited" /\ dev = <<>> /\ cmds = <<>>
             /\ \A c \in Submitted : execs[c] > 0
  <2>1. pc[Worker] = "Exited" /\ cmds = <<>>
    BY <1>1 DEF EndSeen, EndLast, WorkerEnds, WorkerDestroys
  <2>2. \A c \in Idx : hwState[c] \in {Created, Completed}
    BY <1>1 DEF Steady, DestroyOK, DtorAlone, InDtor, Drained
  <2>3. ASSUME NEW c \in Submitted PROVE execs[c] > 0
    <3>1. c \in Idx /\ hwState[c] = Completed
      BY <2>2 DEF Submitted, Created, Pending, Completed
    <3>2. QED
      BY <1>1, <3>1 DEF Device, Done
  <2>4. dev = <<>>
    <3>1. ASSUME NEW j \in 1..Len(dev) PROVE FALSE
      <4>1. PICK i \in 1..Len(cmdLog) : cmdLog[i] = dev[j].cmd
        BY <1>1, DevOrdered DEF Device, Logged
      <4>2. cmdLog[i] \in Idx /\ hwState[cmdLog[i]] = InFlight
        BY <1>1, LogFacts
      <4>3. QED
        BY <2>2, <4>2 DEF InFlight, Created, Completed
    <3>2. QED
      BY <1>1, <3>1, DevFacts, EmptySeq
  <2>5. QED
    BY <2>1, <2>3, <2>4
<1>2. Steady /\ Device /\ EndSeen /\ EndLast => DestroyLosesNothing
  BY <1>1 DEF DestroyLosesNothing
<1>3. QED
  BY <1>2, DeviceInvariant, EndInvariant, PTL

-----------------------------------------------------------------------------
(* The abstract stream of commands *)

\* Hypothesis: no command is an event record.  Such a command is idempotent and may
\* take effect again when the log is launched again, which the stream does not allow.
NoRecords == "record" \notin Kinds

\* A command has one of the kinds that are submitted.
KindsGiven == \A c \in Idx : c < nextIdx => kind[c] \in Kinds

\* A kind is given with the index and is not changed.
LEMMA NextKindsGiven ==
  ASSUME Base, KindsGiven, [Next]_vars
  PROVE  KindsGiven'
<1>1. CASE UNCHANGED <<nextIdx, kind>>
  BY <1>1 DEF KindsGiven
<1>2. ASSUME NEW t \in Clients, SubmitIdx(t) PROVE KindsGiven'
  <2>1. PICK k \in Kinds : kind' = [kind EXCEPT ![nextIdx] = k]
    BY <1>2 DEF SubmitIdx
  <2>2. nextIdx' = nextIdx + 1 /\ nextIdx \in Nat /\ nextIdx \in Idx
    BY <1>2, InputAssumption DEF SubmitIdx, Base, TypeOK, QueueType, Idx
  <2>3. ASSUME NEW c \in Idx, c < nextIdx' PROVE kind'[c] \in Kinds
    <3>1. CASE c = nextIdx
      BY <2>1, <2>2, <3>1 DEF Base, TypeOK, CommandType
    <3>2. CASE c # nextIdx
      <4>1. c < nextIdx
        BY <2>2, <2>3, <3>2, InputAssumption DEF Idx
      <4>2. QED
        BY <2>1, <3>2, <4>1 DEF KindsGiven, Base, TypeOK, CommandType
    <3>3. QED
      BY <3>1, <3>2
  <2>4. QED
    BY <2>3 DEF KindsGiven
<1>3. ASSUME NEW t \in Clients, Configure(t) PROVE UNCHANGED <<nextIdx, kind>>
  BY <1>3 DEF Configure, cmdVars, queueVars
<1>4. QED
  BY <1>1, <1>2, <1>3, ChoiceSteps, IndexSteps

\* What the simulation of the stream rests on.
Streams == Steady /\ Device /\ IndicesUsed /\ AtMostOnce /\ NoRecords /\ KindsGiven

\* It is an invariant of every behaviour without records.
LEMMA StreamsInvariant == OrderlyUse /\ NoRecords /\ Spec => []Streams
<1>1. Init => KindsGiven
  BY InputAssumption DEF Init, KindsGiven, Idx
<1>2. Base /\ KindsGiven /\ [Next]_vars => KindsGiven'
  BY NextKindsGiven
<1>3. Spec => []KindsGiven
  BY <1>1, <1>2, BaseInvariant, PTL DEF Spec
<1>4. NoRecords => NoRecords'
  BY DEF NoRecords
<1>5. NoRecords /\ Spec => []NoRecords
  BY <1>4, PTL DEF Spec
<1>6. Steady /\ Device /\ IndicesUsed /\ AtMostOnce /\ NoRecords /\ KindsGiven => Streams
  BY DEF Streams
<1>7. QED
  BY <1>3, <1>5, <1>6, DeviceInvariant, IndicesInvariant, EffectsOnce, PTL

\* Then a command takes effect once or not at all, and only after its submission.
LEMMA OneEffect ==
  ASSUME Streams, NEW c \in Idx
  PROVE  /\ execs[c] \in {0, 1}
         /\ c \in Submitted => ~Idempotent(c)
         /\ c \notin Submitted => execs[c] = 0
         /\ hwState[c] = Completed => execs[c] = 1
<1>1. execs[c] \in 0..2 /\ hwState[c] \in 0..3
  BY DEF Streams, Steady, Base, TypeOK, DeviceType, CommandType, CommandState, Created,
    Completed
<1>2. ASSUME c \in Submitted PROVE ~Idempotent(c) /\ execs[c] < 2
  <2>1. c < nextIdx
    BY <1>2, InputAssumption
    DEF Submitted, Pending, Created, Streams, Steady, Base, Owned, SubmitOwned, TypeOK,
      QueueType, Idx
  <2>2. ~Idempotent(c)
    BY <2>1 DEF Streams, KindsGiven, NoRecords, Idempotent
  <2>3. QED
    BY <2>2 DEF Streams, AtMostOnce
<1>3. ASSUME c \notin Submitted PROVE execs[c] = 0 /\ hwState[c] # Completed
  BY <1>1, <1>3
  DEF Streams, Device, NotYet, Submitted, Pending, InFlight, Completed
<1>4. hwState[c] = Completed => execs[c] > 0
  BY DEF Streams, Device, Done
<1>5. QED
  BY <1>1, <1>2, <1>3, <1>4

Executed == {c \in Idx : execs[c] = 1}
Reported == {c \in Idx : hwState[c] = Completed}

\* The hardware retires a command: it is executed, or flushed and nothing happens.
LEMMA StreamExecutes ==
  ASSUME Streams, HwRetire
  PROVE  [Stream!Next]_(Stream!streamVars)
<1>1. Submitted' = Submitted /\ Reported' = Reported /\ settled' = settled
  BY Retired DEF Streams, Submitted, Reported
<1>2. CASE UNCHANGED execs
  BY <1>1, <1>2 DEF Stream!streamVars, Executed, Reported
<1>3. CASE ~UNCHANGED execs
  <2>1. PICK c \in Idx : c = dev[1].cmd
    BY Retired, DevFacts DEF Streams
  <2>2. 1 \in 1..Len(dev)
    BY Retired, DevFacts DEF Streams
  <2>3. c \in Submitted
    BY <2>1, <2>2, DevOrdered, PlacesSubmitted DEF Streams, Device, Steady
  <2>4. /\ ~Flushes(dev[1]) /\ \A b \in Idx : b # c => execs'[b] = execs[b]
        /\ execs'[c] = IF execs[c] = 2 THEN 2 ELSE execs[c] + 1
    BY <1>3, <2>1, Retires DEF Streams
  <2>5. ~Idempotent(c) /\ execs[c] \in {0, 1}
    BY <2>3, OneEffect
  <2>6. execs[c] = 0 /\ execs'[c] = 1
    <3>1. Executes(c)
      BY <2>1, <2>4, HwExecutes DEF Streams, Device
    <3>2. execs[c] = 0
      BY <2>5, <3>1 DEF Executes
    <3>3. QED
      BY <2>4, <3>2
  <2>7. ASSUME NEW b \in Submitted, b < c PROVE execs[b] = 1
    <3>1. b \in Idx
      BY DEF Submitted
    <3>2. execs[b] > 0
      BY <2>5, <2>6, <2>7, <3>1, EffectsOrdered DEF Streams
    <3>3. QED
      BY <3>1, <3>2, OneEffect
  <2>8. Executed' = Executed \cup {c} /\ c \in Submitted \ Executed
        /\ \A b \in Submitted : b < c => b \in Executed
    BY <2>3, <2>4, <2>6, <2>7 DEF Executed, Submitted
  <2>9. Stream!Execute(c)
    BY <1>1, <2>8 DEF Stream!Execute, Executed, Reported
  <2>10. QED
    BY <2>1, <2>9 DEF Stream!Next
<1>4. QED
  BY <1>2, <1>3

\* An enqueue submits the next command.
LEMMA StreamSubmits ==
  ASSUME Streams, NEW t \in Clients, SubmitEnqueue(t)
  PROVE  [Stream!Next]_(Stream!streamVars)
<1>1. PICK c \in Idx : c = arg[t]
  BY SubmitBuffers DEF Streams, Steady
<1>2. hwState[c] = Created /\ hwState' = [hwState EXCEPT ![c] = Pending]
  BY <1>1, SubmitBuffers DEF Streams, Steady
<1>3. execs' = execs /\ settled' = settled
  BY DEF SubmitEnqueue, devVars, histVars
<1>4. hwState \in [Idx -> CommandState]
  BY DEF Streams, Steady, Base, TypeOK, CommandType
<1>5. Submitted' = Submitted \cup {c} /\ c \notin Submitted
  BY <1>2, <1>4 DEF Submitted, Created, Pending
<1>6. Reported' = Reported /\ Executed' = Executed
  BY <1>2, <1>3, <1>4 DEF Reported, Executed, Created, Pending, Completed
<1>7. ASSUME NEW b \in Idx, b < c PROVE b \in Submitted
  <2>1. pc[t] = "Submit" /\ t \in Submitters /\ c < nextIdx
    BY <1>1 DEF SubmitEnqueue, Streams, Steady, Ascending, SubmitLast, Base, Owned, SubmitOwned
  <2>2. b < nextIdx
    BY <1>7, <2>1, InputAssumption DEF Idx, Streams, Steady, Base, TypeOK, QueueType
  <2>3. ASSUME Submitting(b) PROVE FALSE
    <3>1. PICK u \in Clients : pc[u] = "Submit" /\ arg[u] = b
      BY <2>3 DEF Submitting
    <3>2. u = t
      BY <2>1, <3>1
      DEF Streams, Steady, OrderlyUse, OneSubmitter, Ascending, SubmitLast
    <3>3. QED
      BY <1>1, <1>7, <3>1, <3>2, InputAssumption DEF Idx
  <2>4. QED
    BY <2>2, <2>3 DEF Streams, IndicesUsed
<1>8. Stream!Submit(c)
  BY <1>3, <1>5, <1>6, <1>7 DEF Stream!Submit, Executed, Reported
<1>9. QED
  BY <1>8 DEF Stream!Next

\* A waiting call returns.
LEMMA StreamAnswers ==
  ASSUME Streams, Steady', NEW t \in Clients, WaitAllReturn(t) \/ WaitReturn(t)
  PROVE  [Stream!Next]_(Stream!streamVars)
<1>1. UNCHANGED <<hwState, execs>>
  BY DEF WaitAllReturn, WaitReturn, BufferStep, cmdVars, devVars
<1>2. \E S : settled' = settled \cup S
  BY DEF WaitAllReturn, WaitReturn
<1>3. settled' \subseteq Reported
  BY <1>1 DEF Steady, SettledCompleted, Reported, Base, TypeOK, HistoryType
<1>4. Stream!Answer(settled')
  BY <1>1, <1>2, <1>3 DEF Stream!Answer, Submitted, Executed, Reported
<1>5. settled' \in SUBSET Idx
  BY <1>3 DEF Reported
<1>6. QED
  BY <1>4, <1>5 DEF Stream!Next

\* Any other step reports what it completes.
LEMMA StreamReports ==
  ASSUME Streams, Streams', [Next]_vars, ~HwRetire, \A t \in Clients : ~SubmitEnqueue(t),
         UNCHANGED settled
  PROVE  [Stream!Next]_(Stream!streamVars)
<1>1. execs' = execs
  BY DeviceSteps DEF LaunchCommand, Deactivate, Reactivate, RelaunchNext
<1>2. Submitted' = Submitted
  BY SubmittedSame DEF Streams, Steady
<1>3. Reported' \subseteq Executed
  <2>1. ASSUME NEW c \in Reported' PROVE c \in Executed
    <3>1. c \in Idx /\ hwState'[c] = Completed
      BY DEF Reported
    <3>2. execs'[c] > 0
      BY <3>1 DEF Streams, Device, Done
    <3>3. QED
      BY <1>1, <3>1, <3>2, OneEffect DEF Executed
  <2>2. QED
    BY <2>1
<1>4. Reported' = Reported \cup Reported'
  <2>1. ASSUME NEW c \in Reported PROVE c \in Reported'
    <3>1. c \in Idx /\ hwState[c] = Completed /\ hwState'[c] >= hwState[c]
      BY NextForward DEF Reported, Forward, Streams, Steady, Base
    <3>2. hwState'[c] \in 0..3
      BY <3>1 DEF Streams, Steady, Base, TypeOK, CommandType, CommandState, Created, Completed
    <3>3. QED
      BY <3>1, <3>2 DEF Reported, Completed
  <2>2. QED
    BY <2>1
<1>5. PICK S \in SUBSET Idx : S = Reported'
  BY DEF Reported
<1>6. Stream!Report(S)
  BY <1>1, <1>2, <1>3, <1>4, <1>5 DEF Stream!Report, Executed, Reported
<1>7. QED
  BY <1>6 DEF Stream!Next

\* The steps of an XQueue are steps of the stream.
StreamSteps == Stream!Init /\ [][Stream!Next]_(Stream!streamVars)

\* Suspending, deactivating, flushing and launching again are invisible to the application:
\* behind them the queue is an in-order stream of commands that take effect once.
THEOREM StreamImplemented == OrderlyUse /\ NoRecords /\ Spec => StreamSteps
<1>1. Init => Stream!Init
  <2>1. Init => Submitted = {} /\ Executed = {} /\ Reported = {} /\ settled = {}
    BY DEF Init, Submitted, Executed, Reported, Created, Pending, Completed
  <2>2. QED
    BY <2>1 DEF Stream!Init, Executed, Reported
<1>2. ASSUME Streams, Streams', [Next]_vars PROVE [Stream!Next]_(Stream!streamVars)
  <2>1. CASE HwRetire
    BY <1>2, <2>1, StreamExecutes
  <2>2. ASSUME NEW t \in Clients, SubmitEnqueue(t) PROVE [Stream!Next]_(Stream!streamVars)
    BY <1>2, <2>2, StreamSubmits
  <2>3. ASSUME NEW t \in Clients, WaitAllReturn(t) \/ WaitReturn(t)
        PROVE  [Stream!Next]_(Stream!streamVars)
    <3>1. Steady'
      BY <1>2 DEF Streams
    <3>2. QED
      BY <1>2, <2>3, <3>1, StreamAnswers
  <2>4. CASE ~HwRetire /\ (\A t \in Clients : ~SubmitEnqueue(t)) /\ UNCHANGED settled
    BY <1>2, <2>4, StreamReports
  <2>5. QED
    BY <1>2, <2>1, <2>2, <2>3, <2>4, SettledSteps
<1>3. Streams /\ Streams' /\ [Next]_vars => [Stream!Next]_(Stream!streamVars)
  BY <1>2
<1>4. QED
  BY <1>1, <1>3, StreamsInvariant, PTL DEF Spec, StreamSteps

=============================================================================

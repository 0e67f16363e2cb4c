# A TLA+ model of HB-UXSched

HB-UXSched (XSched) schedules accelerators from user space. An application's
commands go to an *XQueue* instead of the driver; a worker thread launches
them; a scheduler, in the process or in a server, suspends and resumes XQueues
so that the more important ones get the device. This directory specifies the
program in TLA+, checks it with TLC on small instances, and proves part of it
with TLAPS for all instances. Paths below are relative to the repository.

## 1. The system

| Component | Code | State | Operations | Interaction |
|---|---|---|---|---|
| XCommand, HwCommand | `preempt/src/xqueue/xcommand.cpp`, `preempt/src/hal/hw_command.cpp` | state (created, pending, in flight, completed), index, properties | SetState, WaitUntil, Synchronize | states are written by the worker, waiting threads and a dropping resume |
| CommandBuffer | `preempt/src/xqueue/command_buffer.cpp` | list of commands, last command, idle / ready | Enqueue, Dequeue, DropAll, EnqueueXQueueWaitAllCommand | between submitters and the worker; sends ready and idle events to the scheduler |
| LaunchWorker | `preempt/src/xqueue/launch_worker.cpp` | paused or not, pause count, command log, log of synchronizable commands, drop index | WorkerLoop, LaunchHwCommand, SyncAll, SyncCmd, Pause, Resume, ResumeAndDrop | one thread per XQueue; shares `mtx_` with waiting threads and the suspending thread |
| AsyncXQueue | `preempt/src/xqueue/async_xqueue.cpp` | level, launch configuration, suspended, terminated, next index | Submit, Wait, WaitAll, Suspend, Resume, SetPreemptLevel, SetLaunchConfig, destructor | ties the three above together |
| XQueueManager, C API | `preempt/src/xqueue/xqueue.cpp` | table of XQueues | Add, Del, Get, AutoCreate | called by application threads and the executor |
| CUDA HAL | `platforms/cuda/hal/` | stream; exit flag and preempt index in device memory | Launch, Synchronize, Deactivate, Reactivate | the worker launches, the suspending thread deactivates |
| SchedAgent, SchedExecutor, hints | `preempt/src/sched/` | scheduler in use, executor thread | send event, execute operations | events to, operations from the scheduler |
| LocalScheduler, policies | `sched/src/` | event queue, status of processes and XQueues, timers | UpdateStatus, Sched, SetPolicy | one thread; decides what to suspend and resume |
| GlobalScheduler, Server, client, CLI | `sched/src/scheduler/global.cpp`, `service/` | processes, channels | requests, process exit | shared memory channels and HTTP between processes |
| MemoryAdmissionManager | `preempt/src/memory/admission.cpp` | regions, queues, residency | register, touch, suspend, resume, remove | called when queues are suspended and resumed |
| HB split backend, runtime strategy | `platforms/cuda/hal/src/hb_split/`, `.../runtime/` | split progress, strategy state | split a kernel, choose a strategy | below Launch |
| CUDA shim, other platforms, utilities | `platforms/`, `utils/` | handle tables; locks | interception, MCSLock, PidWaiter | |

What is hard here:

* Several threads work on one XQueue without a common lock. The worker's
  `mtx_` is released while a thread waits for the hardware and while the
  worker is paused; `suspended_` and the worker's own paused state are two
  variables; the index of a command and its place in the buffer are given in
  two steps; the command log is handed out by reference for a relaunch.
* Deactivation makes the hardware *flush* commands: they finish without having
  run. A thread that waits for the hardware cannot tell this from completion
  and has to look at the pause count.
* The worker invents commands of its own (batch-sync, wait-all) when the
  buffer is empty, in a race with submissions.
* Shutting down uses a dropping resume, and level and launch configuration
  change while a queue may be suspended.
* The scheduler learns of queues through events that it handles later, in
  batches, and acts through operations that arrive later still, for queues
  that may be gone. Some policies decide by the time that passes without any
  event, so that a missing timer is a missed decision.
* Clients of the server die at any moment, with events of theirs in a channel
  and operations on their way to them.
* The driver may refuse any migration of memory in the middle of an eviction.
* A launch that is split is submitted by one thread while the worker already
  completes its parts and clears the list of them.

`PROJECT.json` lists these hazards line by line, with the property that covers
each or the reason why none does.

What makes each part correct: a command's state never goes back, and completed
means executed, once and in order; a wait returns when its commands are
completed and not before, and always returns if suspended queues are resumed;
an idle queue has nothing left to do; at most *threshold* commands are in
flight; a suspended queue launches nothing; destroying a queue loses nothing.
For the scheduler: what it believes to be suspended is what it suspended; the
policy's choice is carried out for every device; nothing ready waits for ever.
For the server: the dead are forgotten and the others served. For memory: an
eviction goes as far as the watermark and no farther, in the right order. For
splitting: every block of the grid runs exactly once.

## 2. The plan

Done, in this order:

1. **XQueue**: command buffer, worker, queue, hardware queue; **XQueueProofs**:
   type invariant, states never go back, suspending, launching and the commands
   in flight; **XQueueDeliveryProofs**: idle queues and
   waits, then the hardware queue, what takes effect and the steps of the refinement.
2. **CommandStream**: what an XQueue promises its application;
   **XQueueStream**: the refinement.
3. **SchedStatus**, **Policies**, **LocalScheduler**: status table, the twelve
   policies as operators, the scheduler thread with the queues it schedules;
   **LocalSchedulerProofs**: status table and view of the queues;
   **PolicyProofs**: what the decisions of the policies keep true.
4. **Server**, which extends LocalScheduler by clients, channels and the thread
   that waits for deaths; **ServerProofs**: the status, then the dead, the connected
   clients, and the devices they share.
5. **MemoryAdmission**, **MemoryAdmissionProofs**.
6. **HbSplit**: decomposition of grids, and the groups of commands;
   **HbSplitProofs**: both, for grids of any size.
7. **MCSLock**, **MCSLockProofs**: the lock of the launch workers.

Left:

* proofs of the admission's evictions (`PressureRelieved`, `SuspendedFirst`,
  `WithinShare`), see section 5.5;
* requests to the server that change the policy or a configuration;
* a process that replaces its scheduler while it runs (`ReplaceScheduler`);
* `ProcessSync`, and the CUDA events of level 1.

## 3. The models

### 3.1 An XQueue

`XQueue.tla`; `MCXQueue.tla` gives constants that a configuration file cannot
write. A thread has a program counter; a step is what it does between two
points where another thread can see the difference. The roles of the client
threads are constants, so that one module serves all runs.

| Model | Code |
|---|---|
| `cmds`, `lastCmd`, `xqState`, `waCount`, `waState` | CommandBuffer: `cmds_`, `last_cmd_`, `xq_state_`, the wait-all commands made so far and their states |
| `hwState`, `kind`, `synced` | HwCommand: state, command class, EnableSynchronization has succeeded |
| `wstate`, `pauseCount`, `cmdLog`, `syncLog`, `lastSyncIdx`, `dropIdx`, `lock`, `cur` | LaunchWorker, with `lock` for `mtx_` and `cur` for the dequeued command |
| `level`, `threshold`, `batch`, `suspended`, `terminated`, `nextIdx`, `destroyState`, `registered` | AsyncXQueue and its entry in the XQueueManager |
| `dev`, `exitFlag`, `preemptIdx`, `execs` | the stream, the preempt buffer, and how often a command took effect |
| `pc`, `arg`, `snap`, `ret`, `flag` | locals of the threads |
| `must`, `settled`, `dropped` | history, for the properties only |

Actions, in the order of the code: `Dequeue*` and `Enqueue*` (CommandBuffer);
`SyncCheck`, `SyncHw`, `SyncRelock` (the loop of SyncAllWithLock and
SyncCmdWithLock); `Launch*` (LaunchHwCommand); `WaitAll*`, `BatchSync*`,
`Destroy*` (the other cases of WorkerLoop); `Submit*`, `WaitAll*`, `Wait*`
(application calls); `SuspendMark`, `Pause`, `Deactivate`, `SuspendSync`;
`ResumeMark`, `Reactivate`, `RelaunchNext`, `RelaunchEnd`, `ResumeWorker`,
`DropAll`, `DropIdx`, `ResumeAndDrop`; `Configure*`; `Del*`, `Dtor*`;
`HwRetire`, the hardware.

Abstractions:

* A kernel runs as a whole. With block-level preemption part of its blocks may
  have run; the relaunch continues with the rest. The model's kernel that was
  flushed had no effect.
* Level 3 (Interrupt) is level 2 for the worker. The platform hooks of suspend
  and resume that move memory are left out.
* `All` in place of a command makes SyncAllWithLock and SyncCmdWithLock one
  loop; they differ in what is checked first (`NothingToSync`).
* Setting a submitted command pending and appending it to the buffer are one
  step: nobody can reach the command in between.
* A BatchSynchronizeCommand's state is left out, nobody waits for it. Host
  function commands are never constructed.
* The last reference to a queue is held by the deleting client: `Dtor` waits
  until other calls have returned and commands are completed.

**What it implements.** `CommandStream.tla` knows of no buffer, worker, log or
preemption: commands are submitted, take effect in this order, are reported
completed, and threads are answered about completed commands only; with weak
fairness of executing and reporting, all of them in the end. `XQueueStream.tla`
maps the submitted indices, the commands that took effect exactly once, those
whose state is completed, and `settled` to its four sets. A command that takes
effect twice would leave the second set, which no step of the stream allows.

### 3.2 The scheduler and its policies

`SchedStatus.tla` (`sched/protocol/status.h` and `UpdateStatus` in `local.cpp`),
`Policies.tla` (`sched/src/policy/`), `LocalScheduler.tla` (`local.cpp`).

| Model | Code |
|---|---|
| `status`: `procs`, `known`, `device`, `ready`, `suspended`, `age`, and the two lists of each process, `running` and `stopped` | `status_`: ProcessStatus and XQueueStatus; `age` is the time since `ready_time` |
| `pol` | the policy object: its type and the maps it keeps |
| `evq`, `batch`, `timers` | `event_queue_`, `tmp_queue`, `timers_` (as the time that is left) |
| `wpc`, `todo`, `final`, `terminate` | where the thread is: waiting, in a batch, executing operations |
| `phase`, `busy`, `paused` | the queues as they really are, and `suspended_` of each |

`TakeEvents`, `TakeTimers`, `HandleEvent`, `FinishBatch`, `ExecuteOperation` and
`EndReschedule` are `Worker()`, cut where the mutex is released or another
process is reached: events arrive between any two of them, and a batch may
reschedule in the middle (a destroyed queue or process, a hint). `SetPolicy`
stops the thread and `SetPolicyEnd` is what follows its end. Queues create,
become ready and idle, and are destroyed in two steps, out of the table of the
process first (`Del`), with the event later (`Destroy`).

A policy is a pair of operators, `Sched...` from policy state and status to
what is suspended, resumed and timed, and `Hint...`. Loops over the status map
are quantifiers and `CHOOSE`; where the code takes the first of equals in
handle order the operator does too. Time is a number of ticks, one tick being
the period of the policies that measure it; budgets and virtual runtimes are
integers in that unit. Hints are checked and clamped as in `RecvHint`.

### 3.3 The server

`Server.tla` extends LocalScheduler: `chan`, `ops` are the channels, `rpc` and
`rcv` the thread `RecvWorker`, `chans` is `client_chans_`, `pidFds`, `epoll` and
`wpid` are PidFdWaiter (`waitpid.cpp`), `client` the processes. A client joins,
leaves and dies (`Join`, `Leave`, `Die`); `Receive`, `CleanUpProcess`,
`OpenChannel`, `AddWait` and `PassOn` are the steps of `RecvWorker` between which
other threads run; `Wake`, `ReportDeath` and `CleanUpDead` are the callback of the
waiter; `Execute` looks the channel up when the operation is made, and drops the
operation if there is none. Messages keep their order and are not lost, except
those to a dead client. Requests that change the policy are modelled in
LocalScheduler, not here.

### 3.4 Memory admission

`MemoryAdmission.tla`: every function of the manager holds one lock and is one
action. `order` is the map of regions by last touch, `owner`, `resident`, `prio`
and `active` its fields; the queues' states come with the calls. What the driver
says is in use and which migrations it refuses is arbitrary at every call
(external). One backend, context and device; sizes in one unit.

### 3.5 Splitting of kernels

`HbSplit.tla`: `DecomposeGrid` applies a recursive function that divides a box as
the code does. `TryLaunchKernelFixed` and the runtime strategy decide from a set of
facts about the launch (`has`: known function, low priority, queue, parameters
that match ...) what is submitted; the PTX transformation is left out.
`LaunchSplit`, `SetLaunchConfig`, `SubmitChild`, `EndSubmit` are the submitting
thread, `WorkerLaunch` and `Complete` the queue with the listeners, which runs
its commands in order (what 3.1 shows).

### 3.6 The lock

`MCSLock.tla`: one action per access to memory that another thread can see, in
`lock()` and `unlock()` of `lock.cpp`. `flag` and `next` are the one node a
thread has for all locks. `issued`, `served` and `ticket` are history. Memory is
sequentially consistent; the code's fences are not weakened. Critical sections
are not nested.

## 4. What is checked

Passing runs:

| Run | Instance | Shows |
|---|---|---|
| `lifecycle` | one thread submits (blocking too), waits for all, raises the level from Block to Deactivate and lowers the threshold; one suspends, resumes and destroys | a wait returns only when its commands are completed (`SettledCompleted`); an idle queue is done (`IdleMeansDone`); a smaller threshold is respected from the start (`InFlightBound`); worker and queue agree on being suspended (`SuspendedMeansPaused`); destruction loses nothing (`DestroyLosesNothing`) |
| `deactivate` | level Deactivate; kernels, copies and event records; two suspensions | flushed commands are not reported completed (`CompletedMeansExecuted`), take effect once (`AtMostOnce`), in order (`InOrder`); nothing is launched while paused (`NoLaunchWhilePaused`) |
| `drop` | resumes that drop, suspends that synchronize | types (`TypeOK`), states never go back (`NeverGoesBack`), nothing runs after a wait for it has returned (`SettledQuiet`) |
| `live` | level Deactivate, waits for single commands, fairness | every call returns (`CallsReturn`), the queue becomes idle again (`BecomesIdle`), and it implements CommandStream with its fairness (`ImplementsStream`) |
| `sched` | ten policies, three queues of two processes on two devices | flags and lists of the status agree (`StatusConsistent`); whenever the thread sleeps it knows what there is and suspended is what it says (`ViewAccurate`), a device with work runs some (`WorkConserving`), the highest rank first (`HighestFirst`), as many as the policy allows (`OneAtATime`), CFS within a slice of fair (`FairRuntime`), MLFQ within its slice (`SliceKept`), and a timer is set for the next decision (`WakeupPending`) |
| `sched_live` | UP and PUP, two queues, no bound on events and ticks, fairness | every ready queue with a share runs again (`EveryoneRuns`), a change of policy ends (`SetPolicyReturns`), `WorkConserving` |
| `server` | two clients, one of which joins, leaves and dies | when everything has arrived the dead are forgotten (`DeadForgotten`), the others' queues are known and suspended as the scheduler says (`ClientsServed`), and not held back for a process that is gone (`SurvivorsRun`) |
| `admission` | three regions, two queues, six calls, any refusals | owners exist (`OwnersExist`); an eviction ends at the low watermark, its limit or the driver's refusals and no later (`PressureRelieved`), spares no suspended queue for an active one (`SuspendedFirst`); prefetches keep to the share (`WithinShare`) |
| `split` | every grid up to 4x4x4 for parts of 1, 2, 3 and 5 blocks, offsets on three sets of axes; every reason for a refusal; two threads | every block exactly once (`ExecutedOnce`), for a single thread one part in flight at most, and none too large (`PreemptionDelay`), groups freed (`GroupsReleased`) |
| `lock` | three threads, two locks, three tickets each | exclusion (`Exclusion`), first come first served (`InTurn`), no reference left behind (`NodesLeft`), calls return (`LockReturns`) |

Violation runs, where the code does not do what it says:

| Run | What happens |
|---|---|
| `launch_paused` | A command is launched on a suspended queue. When the log is full the worker waits for a command and does not look at the pause again, as the other branch does; a thread that waits for the same command may complete it after the suspension. At level Deactivate a resume may then launch it twice. |
| `server_rejoin` | A process that connects twice (it replaced its scheduler) has two descriptors in the epoll set and one entry in `pid_fds_`; after its death the second wake-up fails the assertion "pid fd not found", which ends the server. |

**Bounds.** XQueue: `MaxCmds` commands and `MaxPauses` suspensions per
behaviour, two clients. Three commands fill a log of two and leave one for the
buffer, which is what the threshold, the batch and the order of a flushed
kernel, a record and a copy need; two suspensions are needed to be paused again
while a thread waits for the hardware. `live` has a thread that waits for single
commands, and a log of one, with which the stream is kept; with a log of two and three
commands its steps are violated, as `launch_paused` shows. `drop` has one
suspension: with two, `SettledQuiet` is violated for the same reason. The passing runs use one submitting and
one controlling thread, the use the code is written for. `lifecycle` changes the
configuration to a threshold of one (`SmallerConfig`), from two. Scheduler:
`MaxEvents` events (three, or four where the policy has fewer timers), two of
them waiting at a time, two ticks: enough for a queue to become ready, be held
back, and the one that runs to use up its slice, become idle or be destroyed in
the middle of a batch. `sched_live` counts nothing (`Bounded` is false), so that
liveness is not cut short. Server: `MaxJoins` is one in `server` and two in
`server_rejoin`; two messages in the channel. Admission: six calls, sizes 4, 5
and 6 of 16, so that evictions need one or two regions and the limit and the
watermark both end one.

**Deadlock** is not checked where a behaviour ends by design: a destroyed queue,
a bound on events, calls, launches or tickets used up.

**Fairness.** XQueue (`FairSpec`): the worker thread and the hardware make
progress, a call that has begun is continued (threads are scheduled and mutexes
handed on), and a suspended queue is eventually resumed by who suspended it. The
last is an assumption about the scheduler; `EveryoneRuns` shows it for UP and
PUP, the policies that promise it. Scheduler: weak fairness of the thread, of
the caller of SetPolicy after `join`, and of the clock. Lock: every thread that is
in `lock()` or `unlock()` or holds a lock goes on. Spinning threads need no more,
as every step they wait for is another thread's next one.

**Also seen**, each with a TLC counterexample, and not kept as runs:

* Two threads submit to one queue: index and place in the buffer are given in
  two steps (`async_xqueue.cpp:50`), and a command is reported completed before
  it ran.
* Two threads suspend and resume: the queue stays paused although marked running,
  or the reverse (`async_xqueue.cpp:108`).
* The controlling thread changes the level or the launch configuration of a queue
  it has suspended, as the executor may, and waits for ever
  (`async_xqueue.cpp:177`).
* The level is lowered to Block during a suspension: the exit flag stays set, and
  after the level is raised kernels are flushed and reported completed
  (`async_xqueue.cpp:130`).
* Dropping resumes: a wait-all can return while a command the worker holds is
  pending until it is dropped; with two suspensions a command is launched while
  paused or after a wait for it; a drop that ends a configuration's wait leaves
  more in flight than the new threshold; the queue reports ready until the next
  submission. A suspend under way while the queue is destroyed leaves the worker
  paused and the destroying thread waiting.
* MLFQ: a queue that becomes ready beside the chosen one is not suspended
  (`mlfq.cpp:153`), although the comment at line 154 says "Not chosen, must wait":
  only queues marked running are.
* AWF: a process owns the active windows of two displays, one display changes to a
  window of another process, and `RecvHint` takes the process out of the foreground
  (`awf.cpp:48`), although the other display still shows it. Background queues then
  run beside its own; `sched/README.md:74` says "Firstly run the xqueue in the active
  window".
* A process disconnects and connects again with a queue it still has: the server
  forgets the queue with the first connection and never learns of it again, so
  `ClientsServed` is violated when `MaxJoins` is two.
* `PRIORITY_NO_EXECUTE` is clamped to the lowest priority (`hpf.cpp:51`), which
  runs if nothing else is ready; `hint.h:20` says the queue "will not be executed".
* A running queue that was never suspended is not in the active set
  (`admission.cpp:326`), so its memory may be evicted before a suspended queue's;
  `SchedUM.md:153` says every running queue is in it.

Read in the code, without a counterexample of their own: replacing the scheduler
leaves suspended what the old one suspended (`agent.cpp:135`); SetPolicy resumes
queues in the status, and in their processes only with the next event
(`local.cpp:58`), hence `fresh` in `EveryoneRuns`; an event of a process that
arrives after its death creates it again, for ever, hence `late` in
`DeadForgotten`; a configuration whose batch is not smaller than the threshold is
refused by the server and accepted by the queue; CFS gives a queue that was known
but idle a runtime of zero (`cfs.cpp:84`), unlike the comment at line 58; KEDF runs
no queue without a deadline; a second thread may submit parts before the first has lowered the
threshold (`backend.cpp:797`), hence the single thread in `PreemptionDelay`; a
thread that nests two MCS locks would use its node twice (`lock.cpp:17`).

## 5. What is proved

`TLAPS` proves the following for all values of the constants that satisfy the
named assumptions of the modules. A theorem with a hypothesis (`OneController`,
`NeverDrops` ...) is about the instances in which it holds; each hypothesis names
a use of the code without which TLC finds a counterexample, unless it says otherwise
below. The passing runs of these properties satisfy the hypotheses, with three
exceptions: `lifecycle` checks `InFlightBound` with a change of configuration by the
thread that submits, `drop` checks `SettledQuiet` with a drop, and `live` the stream
with a thread that waits for single commands.

### 5.1 An XQueue

* `TypeCorrect`: `Spec => []TypeOK` (`XQueueProofs.tla`), for any number of threads
  in any roles. `TypeOK` is not inductive: that a launched command is in the domain
  of `hwState`, or the drop index in range, depends on where a thread came from.
  `ControlOK` says so: a synchronizing client returns to the end of its wait and
  waits for a command, the worker launches hardware commands only, a dropping
  resume carries the index of a submitted command. Each action has a lemma; what
  it leaves alone follows from `TypeFrame`.
* `StatesNeverGoBack`: `Spec => NeverGoesBack` (`XQueueProofs.tla`), the
  assertion in `XCommand::SetState`. The invariant `Owned` says who may still
  change a command: an index that is being submitted belongs to one thread and
  its command is in the first state; what is in the buffer is pending, is there
  once and not with the worker; what the worker is about to launch is pending;
  what is in the log was launched; wait-all commands get new numbers. Then
  every step moves a command forward. This holds with two submitters and two
  suspenders too, where other properties fail.

`Base` joins these invariants with who holds the mutex (`LockHeld`) and that both
logs hold launched commands, without repetition (`LogOK`). It is an invariant of
every queue (`BaseInvariant`), and what follows builds on it.

* `InFlightBounded`: `FixedLaunchConfig /\ Spec => []InFlightBound`
  (`XQueueProofs.tla`). The worker tests the length of the log and launches
  later, after it has waited without the mutex. `SlotsOK` adds that a worker that
  found the log full waits for a synchronizable command that is in the log, or
  that somebody else has removed, so that there is room when it launches. If
  one thread submits while another lowers the threshold, commands launched after
  the wait-all of `SetLaunchConfig` are more than the new threshold
  (`async_xqueue.cpp:185`).
* `SuspendedIsPaused`: `OneController /\ Spec => []SuspendedMeansPaused`
  (`XQueueProofs.tla`). `SwitchOK` says what `suspended_` and the worker's
  state are at each point of a suspend, a resume and the destructor, and that only
  one thread is at such a point.
* `LaunchedRunning`: `NobodyWaits /\ NeverDrops /\ Spec => NoLaunchWhilePaused`
  (`XQueueProofs.tla`). `LaunchOK`: a worker about to
  launch is running; while it waits for room, an unchanged pause count means that
  it is, and the command it waits for is still in the log, so that it looks at the
  count again. A client that waits
  takes the command out of the log (run `launch_paused`); a drop empties it.
* `IdleIsDone`: `NeverDrops /\ Spec => []IdleMeansDone` (`XQueueDeliveryProofs.tla`),
  for any number of submitters, waiters and suspenders. `Delivery` says where a
  command is: pending in the buffer or with the worker, in flight in the log, a
  wait-all unfinished in the buffer or with the worker, a destroy command last
  (`Located`, `WaitLocated`, `DestroyLast`). `WaitBound`: there is a submission between
  two wait-alls, so that their numbers do not run out. `Ordered`: each command
  submitted before a wait-all is completed, or in the log while the wait-all is not
  completed, or with the worker while it is still pending, or before it in the
  buffer; this is where the queue's order comes in, and none of it is visible in
  `IdleMeansDone`. With drops it is violated between `DropAll` and `ResumeAndDrop`:
  the buffer is empty and the worker still holds a command.
* `SettledIsCompleted`: `NeverDrops /\ (NobodyWaits \/ OneSubmitter) /\ Spec =>
  []SettledCompleted` (`XQueueDeliveryProofs.tla`). `Told` says what a thread on its
  way out of a wait may promise. A wait for a single command synchronizes the
  log up to it, which is enough only if the log is in the order of the indices
  (`Ascending`). Two submitters and a waiter make the log <<2, 1>>, and a wait for 1
  is answered for 2 as well.

The second half of `XQueueDeliveryProofs.tla` is about what takes effect on the
hardware, for the use of the queue the code is written for:

    OrderlyUse == OneController /\ NobodyWaits /\ NeverDrops /\ OneSubmitter /\ NeverBlocks

One thread submits, one suspends, resumes and destroys, and it does not drop, no
thread waits for a single command, the level is not lowered to Block. Any number
of threads may wait for all and configure, commands are of any kind, and threshold,
batch, levels and numbers of commands and pauses are arbitrary.

* `CompletedWasExecuted`: `OrderlyUse /\ Spec => []CompletedMeansExecuted`.
* `EffectsOnce`: `OrderlyUse /\ Spec => []AtMostOnce`.
* `EffectsInOrder`: `OrderlyUse /\ Spec => InOrder`.
* `SettledAreQuiet`: `OrderlyUse /\ Spec => SettledQuiet`.
* `DestroyedIsDrained`: `OrderlyUse /\ Spec => []DestroyLosesNothing`.
* `StreamImplemented`: `OrderlyUse /\ NoRecords /\ Spec => StreamSteps`, the initial
  state and the steps of `ImplementsStream`.

None of these properties says how the parts fit together; the invariant `Device`
does. Its heart is `DevLog`: the hardware queue holds a part of the log, in its
order. While nobody launches the log again this part is its end; what is before it
has taken effect, or was flushed and is at or behind the index in the preempt
buffer (`Streaming`). While a client launches it again, the part ends where the
client has got to, and what is behind and at or above the resume index has still to
take effect (`Replaying`). Five more facts keep this true:

  * `FlagOK`, the exit flag is set only while the worker is paused, so that what a
    synchronization finds retired after an unchanged pause count was not flushed
    (`SyncDone`);
  * `FlushOK`, from the first flushed command on, all in the log are kernels or event
    records, so that nothing that must not run twice is launched again;
  * `GuardOK`, behind a command that checks the flag there is none in the hardware
    queue that writes and does not check it;
  * `WriteBehind`, a worker about to launch a copy has waited for the kernels; it knows
    so from `WriteWaits`, which says where in the log the command it waits for is;
  * `TargetLogged`, the command it waits for stays in the log.

`Done` is `CompletedMeansExecuted` without drops, and `NotYet` that nothing takes
effect before its launch. Order needs in addition that the submitted indices have no
gap (`IndicesUsed`). Destruction needs that the destroy command is the last one in
the buffer and that the worker gets to it when the buffer is empty (`EndLast`, for
every use of the queue), and that the destructor returns when the worker has ended
(`EndSeen`); `DtorAlone` says that by then all is completed, hence has taken effect,
and the log is empty, hence the hardware queue. In the simulation an enqueue is a
`Submit`, a command the hardware does not flush an `Execute`, a returning wait an
`Answer`, and every other step a `Report` of what it completes, of nothing in most.

Which hypothesis is needed for what, by TLC (three commands, two suspensions): with a
second submitter, or a second controlling thread, each property is violated. With a
thread that waits for a single command all but `SettledQuiet` are, as a
command launched on a suspended queue may be launched again by the resume
(run `launch_paused`). If the level may be lowered to Block all but `SettledQuiet`
are, as kernels flushed by an exit flag that stayed set are reported completed. With
drops `SettledQuiet`, `DestroyLosesNothing` and the steps of the stream are; for
the other three no counterexample was found, the proof needs that the worker launches only
while running. An event record that is launched again violates the steps of the
stream, hence `NoRecords`, and nothing else.

### 5.2 The scheduler

* `StatusStaysConsistent`: `Spec => []StatusConsistent` (`LocalSchedulerProofs.tla`).
  The invariant `SchedInv` adds the type of the status and that what the two event
  queues hold are events that can be handled. Nothing is assumed of the policies:
  suspending and resuming any sets keeps the status consistent.
* `ViewStaysAccurate`: `Spec => []ViewAccurate` (`LocalSchedulerProofs.tla`).
  `ViewAccurate` speaks of a scheduler that sleeps with nothing on its way. `ViewInv`
  says what is true at every other moment: the status of a queue, changed by the
  events about it that are waiting, in the batch and in the queue, is what the queue
  is (`Traced`); and once a decision has been carried out for its process, a queue
  that is not being destroyed is suspended as the status says (`InSync`). This uses
  that a change of policy resumes all, and leaves `fresh` until the next decision.

`PolicyProofs.tla` is about the twelve policies. Its first part proves what `Sched`
of each returns, policy by policy: that a policy's state keeps its shape
(`PolicyOK`), that what is chosen is one queue for each device, what is stopped and
which timers are set. "The code takes the best one of a finite set" is an induction
over the number of queues, done once in `FiniteLeast` by a least counterexample.
The theorems then each have an invariant that a decision establishes, that holds
until the next event is handled, and that is kept by ticks of the clock and by
hints. `ViewStaysAccurate` carries it from the status to the queues.

* `OnlyOneRuns`: `Spec => []OneAtATime`. `OneInv`: not more than one ready queue of a
  device is unsuspended in the status (CFS, SLO, IAH), or k (KEDF).
* `HighestRuns`: `OwnDisplay /\ Spec => []HighestFirst`. `RankInv` orders the queues
  that run by rank. The ranks of LAX change with time alone: `LaxTimed` says that a
  timer expires no later than any laxity still running. For AWF the foreground has
  to be the owners of the active windows (`WindowsOK`), which is true if a process
  has its windows on one display (`OwnDisplay`, see below).
* `WakesInTime`: `Spec => [](pol.type \notin {"UP", "PUP"} => WakeupPending)`,
  `SliceEnds`: `Spec => []SliceKept` and `FairShares`: `Spec => []FairRuntime` share
  `TimeInv`. `TimedOK`: what a queue has run since the decision and what a timer has
  left make at most a slice, until the timer expires. `FairOK`: a running queue had
  the least runtime. `SlicesOK`, at all times: no entry of MLFQ has used up its
  slice, as the next decision demotes it first. `SliceKept` alone is not inductive,
  it does not say what had been used when the slice began.
* `NoIdleDevice`: `Spec => [](pol.type # "PUP" => WorkConserving)`. CFS, MLFQ, SLO and
  UP resume a queue only if they do not believe it to be running, so a queue
  marked as running must be so. `MarkedRun` says this of all moments, also in
  the middle of a batch; `BoundsOK` is what `RecvHint` clamps values to, without
  which the scans of IAH and KEDF find no queue. LAX may hold back everything
  once a laxity has run out, until its timer.
* `ServerStatusConsistent`: `ServerSpec => []StatusConsistent` (`ServerProofs.tla`),
  with any clients, deaths and late events. `ServerInv` adds the channel, and that
  the two threads of the server work on processes (`ThreadsOK`). The other theorems of
  `ServerProofs.tla` speak of a server with nothing on its way; their invariants, each
  an extension of the one before, say what is true of it at every other moment.
* `DeadAreForgotten`: `ServerSpec => []DeadForgotten`. `DeathInv` follows a client in
  its own steps, in those of the two threads and in the three queues of events at
  once. `Watched`: who has a channel is in the epoll set or is about to be. `Followed`:
  a dead client is unknown when what is waiting has been handled (`Gone`), or its
  death is still to be reported, or its events came late. "The end of the queue decides" is `Ended`, "nothing is said of
  it" `Silent`, with their lemmas for adding and taking an event (`SaidAppend`, `SaidTail`).
* `ClientsAreServed`: `MaxJoins <= 1 => (ServerSpec => []ClientsServed)`. `TrackInv` is
  `ViewInv` for a server: three histories of a queue, what the batch, the event
  queue and the channel say of it, each beginning where the last one ends (`Heard`,
  `OnTheWay`), and the last ending with what the queue is. The channel drops out once the
  death of its process has been reported. `ServedInv` adds the orders: a queue
  the scheduler has come to is suspended as the last order on its way says, or, if
  there is none, as the status says (`Told`). No client may connect twice: one
  that does may bring along a queue the server has forgotten (section 4).
* `SurvivorsKeepRunning`: `MaxJoins <= 1 => (ServerSpec => [](PerDevice => SurvivorsRun))`.
  `SurviveInv` adds that the scheduler knows the devices of queues (`DeviceKnown`) and
  that the hints in the channel are typed (`TypedInv`), and takes `WorkInv` from
  `PolicyProofs.tla`, whose lemma `StepsKeepWork` is about the scheduler's steps alone
  and so serves both specifications. `PerDevice` are the policies that decide for each
  device on its own (HPF, CHPF, CFS, MLFQ, SLO); the others hold a device back for a
  queue of another one. Here `MaxJoins <= 1` is what `TrackInv` needs; TLC finds no
  violation with two.

Assumed of the constants of the policies: finitely many queues, handles not zero;
a time slice of at least a tick; hints of the types the messages have
(`TypedHint`), with a priority that is in CFS's table of rates and a deadline below
`Forever`, which is `time_point::max()`.

### 5.3 Memory and locks

* `OwnersAlwaysExist`: `Spec => []OwnersExist` (`MemoryAdmissionProofs.tla`);
  `OwnerInv` adds the types of owners and queues.
* `LineKept`, `MutualExclusion`, `NodesLeftAlone` (`MCSLockProofs.tla`): `LockInv` is
  `TypeOK`, `LineOK`, `InTurn` and `PointsOK`. `LineOK` is the heart: how tails,
  links and local variables represent one line of threads per lock while links are
  missing, and that the thread at the tail has no successor. `InTurn` says that who
  is inside has the ticket to be served, and tickets are given once, which is
  mutual exclusion; that nothing in any line refers to a thread outside is
  `NodesLeft`.

### 5.4 Splitting of kernels

`HbSplitProofs.tla`, for any number of threads, launches of any sizes in any order
and any configuration. Assumed of the constants: what `SplitAssumption` says of their
types, and finitely many threads.

* `GridDecomposed`: the boxes that `DecomposeGrid` makes of a grid lie in it, have
  `most` blocks at most, and every block is in exactly one of them (`Parted`).
  `DividedInTwo` is the heart: the two parts of a box are smaller, and each block of
  it is in one of them, wherever the divisions of the code round to. The function
  is recursive, so a solution of its equation has to exist: `SolutionExists` takes
  the least number of blocks for which there is none, `SolutionsAgree` the smallest box
  on which two differ, and `DecomposeBoxParts` the smallest box that would not be
  parted. The least element of a set of numbers replaces an induction (`LeastNumber`).
* `EveryBlockOnce`: `Spec => []ExecutedOnce`. `SplitInv` calls what is in flight and in
  the queue a line (`Line`). `Ordered`: the line holds, of each launch, the parts that
  have been submitted and not executed, each once and in their order; `RanOK`: what has
  been executed is the beginning of the parts. When everything is over the line is
  empty, so it is all of them. `BlocksAre` relates a part to the blocks the
  transformed kernel executes: on an axis without an offset `CapabilitySupportsGrid`
  leaves one block at most.
* `GroupsAreReleased`: `Spec => []GroupsReleased`. `GroupOK`: a group counts the parts
  executed and holds its commands until the last. A listener clears them only when
  every part has been executed, hence submitted: the loop that submits them
  (`UnderWay`) ends where it should.
* `PreemptionIsPrompt`: `Spec => []PreemptionDelay`. `DelayInv`, if one thread has
  launches: before the threshold is 1 there is no part in the line; the thread that
  configures the queue has its wait at the end of the line, so that with the wait the
  line is gone, and at most one command is in flight from then on.

The lemmas on logs (`FirstOfIsLeast`, `PopCountType`, `PopThroughType`) rest on
the well-foundedness of the natural numbers.

### 5.5 Only model-checked

* Liveness under fairness, and with it the second half of `ImplementsStream`: out of
  the prover's reach. `StreamImplemented` is its first half.
* `WakeupPending` for UP and PUP: their timer is a budget, a share of a sum over all
  queues or processes. `WorkConserving` for PUP: its run queue is filtered and
  rotated element by element.
* The evictions of MemoryAdmission. Its orders, victims and bytes are `SelectSeq`, `SetToSortSeq`
  and `MapThenSumSet`, as the code filters, sorts and sums. The first is built into
  the prover and has no definition to expand; the others take an operator, which
  the SMT backend does not accept, and rest on induction over the set.

## 6. Not modelled

See "components" of `PROJECT.json`. Out of scope: code injection for GPU
generations (instruction encodings), trap handlers and driver ioctls of level 3,
the byte layout of messages, the X11 tools, HTTP and printing, the thin HALs of
other platforms, which are level-1 queues, and the interception layers, one
forwarding function per driver call.

Of the roughly 205,000 lines of the implementation about 175,000 are headers of
vendors' drivers (`acl.h`, `cuda.h`, `ze_api.h`, `vpi.h`, `hip.h`, `cl.h` and others):
declarations without behaviour. Most of the rest is interception and loading of
these drivers. The parts that keep state and decide, `preempt/`, `sched/`, the
server, the waiter, the lock and the splitting of kernels, are the ones modelled.

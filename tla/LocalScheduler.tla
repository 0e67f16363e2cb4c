--------------------------- MODULE LocalScheduler ---------------------------
(***************************************************************************)
(* The scheduler thread (local.cpp) with its event queue, status and       *)
(* timers, the change of its policy, and the XQueues it schedules: they    *)
(* send events when they are created, become ready or idle and are         *)
(* destroyed (async_xqueue.cpp, command_buffer.cpp), and are suspended and *)
(* resumed as SchedExecutor carries operations out (executor.cpp).         *)
(*                                                                         *)
(* Here an operation is executed at once in the process it is for, as with *)
(* a scheduler in the process; Server.tla has the channels in between.     *)
(***************************************************************************)
EXTENDS Policies

CONSTANTS
  Policies0,    \* the policies the scheduler may start with
  NextPolicies, \* the policies SetPolicy may ask for
  Existing,     \* XQueues that exist in the beginning
  Removable,    \* XQueues that may be created and destroyed
  Configured,   \* XQueues whose configuration may be changed
  HintsOf,      \* the hints that are given under a policy
  Bounded,      \* whether events and ticks are counted
  MaxEvents,    \* bound: events and changes of policy, under each policy
  MaxQueue,     \* bound: events in the event queue
  MaxTicks      \* bound: ticks of the clock in a behaviour

ASSUME SchedulerAssumption ==
  /\ Policies0 \subseteq PolicyType /\ NextPolicies \subseteq PolicyType
  /\ Existing \subseteq Handles /\ Removable \subseteq Handles
  /\ Configured \subseteq Handles /\ Bounded \in BOOLEAN
  /\ \A t \in PolicyType : \A e \in HintsOf[t] : TypedHint(e)
  /\ MaxEvents \in [PolicyType -> Nat] /\ MaxQueue \in Nat /\ MaxTicks \in Nat

VARIABLES
  evq,        \* event_queue_
  batch,      \* tmp_queue, the events being processed
  status,     \* status_
  pol,        \* policy_
  timers,     \* timers_, as the times until they expire
  wpc,        \* where the scheduler thread is
  todo,       \* processes ExecuteOperations has not come to yet
  final,      \* the Reschedule under way is the one after the batch
  terminate,  \* the batch held a SchedulerTerminateEvent
  newType,    \* argument of a SetPolicy that waits for the thread, or None
  \* the XQueues in their processes
  phase,      \* "none", "idle", "ready", and "closing" in XQueueManager::Del
  busy,       \* the closing ones with commands left
  paused,     \* AsyncXQueue::suspended_
  \* bounds and history
  events, ticks,
  fresh       \* the policy is new and has not been asked yet

schedVars == <<status, pol, timers, wpc, todo, final, terminate>>
queueVars == <<phase, busy, paused>>
vars == <<evq, batch, schedVars, newType, queueVars, events, ticks, fresh>>

TerminateEvent == [type |-> "Terminate"]

Count(n) == IF Bounded THEN n + 1 ELSE n

\* RecvEvent, for what processes send.
Send(e) ==
  /\ events < MaxEvents[pol.type] /\ Len(evq) < MaxQueue
  /\ evq' = Append(evq, e) /\ events' = Count(events)

-----------------------------------------------------------------------------
(* XQueues *)

\* In XQueueManager::xqs_.
Registered == {h \in Handles : phase[h] \in {"idle", "ready"}}
ReallyReady == {h \in Handles : phase[h] = "ready"}

CreateQueue(h) ==
  /\ h \in Removable /\ phase[h] = "none"
  /\ phase' = [phase EXCEPT ![h] = "idle"]
  /\ UNCHANGED <<busy, paused>>

\* The first command is submitted to an idle queue.
FirstCommand(h) ==
  /\ phase[h] = "idle"
  /\ phase' = [phase EXCEPT ![h] = "ready"]
  /\ UNCHANGED <<busy, paused>>

\* The last command is completed; a suspended queue completes none.
LastCommand(h) ==
  /\ phase[h] = "ready" \/ h \in busy
  /\ h \notin paused
  /\ phase' = [phase EXCEPT ![h] = IF @ = "ready" THEN "idle" ELSE @]
  /\ busy' = busy \ {h}
  /\ UNCHANGED paused

\* Del takes the queue out of the table and resumes it; when its commands
\* are completed the destructor sends the event.
DelQueue(h) ==
  /\ h \in Removable \cap Registered
  /\ phase' = [phase EXCEPT ![h] = "closing"]
  /\ busy' = IF phase[h] = "ready" THEN busy \cup {h} ELSE busy
  /\ paused' = paused \ {h}
DestroyQueue(h) ==
  /\ phase[h] = "closing" /\ h \notin busy
  /\ phase' = [phase EXCEPT ![h] = "none"]
  /\ UNCHANGED <<busy, paused>>

\* The same with the events they send.
CreateEvent(h) == [type |-> "Create", h |-> h]
DestroyEvent(h) == [type |-> "Destroy", h |-> h]
ReadyEvent(h) == [type |-> "Ready", h |-> h, age |-> 0]
IdleEvent(h) == [type |-> "Idle", h |-> h]

Create(h) == /\ CreateQueue(h) /\ Send(CreateEvent(h))
             /\ UNCHANGED <<batch, schedVars, newType, ticks, fresh>>
BecomeReady(h) == /\ FirstCommand(h) /\ Send(ReadyEvent(h))
                  /\ UNCHANGED <<batch, schedVars, newType, ticks, fresh>>
BecomeIdle(h) == /\ LastCommand(h) /\ Send(IdleEvent(h))
                 /\ UNCHANGED <<batch, schedVars, newType, ticks, fresh>>
Del(h) == /\ DelQueue(h)
          /\ UNCHANGED <<evq, batch, schedVars, newType, events, ticks, fresh>>
Destroy(h) == /\ DestroyQueue(h) /\ Send(DestroyEvent(h))
              /\ UNCHANGED <<batch, schedVars, newType, ticks, fresh>>

\* XQueueConfigUpdate: a change of the level or of the launch configuration.
Configure(h) ==
  /\ h \in Configured /\ phase[h] = "idle"
  /\ Send(CreateEvent(h))
  /\ UNCHANGED <<batch, schedVars, newType, queueVars, ticks, fresh>>

\* XHint...: the hints about a queue are refused unless it exists.
GiveHint(e) ==
  /\ e.h \in Registered \cup {None}
  /\ Send([type |-> "Hint", hint |-> e])
  /\ UNCHANGED <<batch, schedVars, newType, queueVars, ticks, fresh>>

-----------------------------------------------------------------------------
(* The scheduler thread *)

UpdateStatus(st, e) ==
  CASE e.type = "Create"  -> XQueueCreate(st, e.h)
    [] e.type = "Destroy" -> XQueueDestroy(st, e.h)
    [] e.type = "Ready"   -> XQueueReady(st, e.h, e.age)
    [] e.type = "Idle"    -> XQueueIdle(st, e.h)
    [] e.type = "ProcessCreate"  -> ProcessCreate(st, e.p)
    [] e.type = "ProcessDestroy" -> ProcessDestroy(st, e.p)
    [] OTHER -> st

\* Reschedule on a status; then ExecuteOperations goes through processes.
Reschedule(st) ==
  \E o \in PolicySched(pol, st) :
    LET new == ResumeAll(SuspendAll(st, o.stop), o.run)
    IN /\ pol' = o.pol
       /\ status' = new
       /\ timers' = timers \cup o.timers
       /\ todo' = {p \in new.procs : HasXQueues(new, p)}
       /\ wpc' = "exec" /\ fresh' = FALSE

\* Events have come: the thread takes all of them.
TakeEvents ==
  /\ wpc = "wait" /\ evq # <<>>
  /\ batch' = evq /\ evq' = <<>>
  /\ wpc' = "batch"
  /\ UNCHANGED <<status, pol, timers, todo, final, terminate, newType,
                 queueVars, events, ticks, fresh>>

\* No events, but timers have expired: they are removed.
Expired(T) == {t \in T : t = 0}
TakeTimers ==
  /\ wpc = "wait" /\ evq = <<>> /\ Expired(timers) # {}
  /\ timers' = timers \ Expired(timers)
  /\ wpc' = "batch"
  /\ UNCHANGED <<evq, batch, status, pol, todo, final, terminate, newType,
                 queueVars, events, ticks, fresh>>

HandleEvent ==
  /\ wpc = "batch" /\ batch # <<>>
  /\ batch' = Tail(batch)
  /\ LET e == Head(batch) IN
       \/ /\ e.type = "Terminate"
          /\ terminate' = TRUE
          /\ UNCHANGED <<status, pol, timers, wpc, todo, final, fresh>>
       \/ /\ e.type = "Hint"
          /\ pol' = RecvHint(pol, e.hint)
          /\ UNCHANGED <<status, timers, wpc, todo, final, terminate, fresh>>
       \/ /\ e.type = "Ready"
          /\ Reschedule(UpdateStatus(status, e))
          /\ UNCHANGED <<final, terminate>>
       \/ /\ e.type \notin {"Terminate", "Hint", "Ready"}
          /\ status' = UpdateStatus(status, e)
          /\ UNCHANGED <<pol, timers, wpc, todo, final, terminate, fresh>>
  /\ UNCHANGED <<evq, newType, queueVars, events, ticks>>

\* The Reschedule after the batch.
FinishBatch ==
  /\ wpc = "batch" /\ batch = <<>>
  /\ Reschedule(status)
  /\ final' = TRUE
  /\ UNCHANGED <<evq, batch, terminate, newType, queueVars, events, ticks>>

\* Faulty variant: queues that are being destroyed are suspended too.
CarriedAlways(P, run, stop) == (P \ run) \cup stop

\* SchedExecutor carries an operation out: it resumes what runs and suspends
\* the rest, as far as the manager still has it.
Carried(P, run, stop) == (P \ run) \cup (stop \cap Registered)

\* Execute of the operation for one process.
ExecuteOperation(p) ==
  /\ wpc = "exec" /\ p \in todo
  /\ paused' = Carried(paused, status.running[p], status.stopped[p])
  /\ todo' = todo \ {p}
  /\ UNCHANGED <<evq, batch, status, pol, timers, wpc, final, terminate, newType,
                 phase, busy, events, ticks, fresh>>

\* Faulty variant: the thread does not end while there are events.
EndsIfIdle == terminate /\ evq = <<>>
Ends == terminate

\* After the operations the thread goes on with the batch, waits, or ends.
EndReschedule ==
  /\ wpc = "exec" /\ todo = {}
  /\ wpc' = IF ~final THEN "batch" ELSE IF Ends THEN "off" ELSE "wait"
  /\ final' = FALSE
  /\ terminate' = IF final THEN FALSE ELSE terminate
  /\ UNCHANGED <<evq, batch, status, pol, timers, todo, newType, queueVars,
                 events, ticks, fresh>>

-----------------------------------------------------------------------------
(* SetPolicy *)

\* Stop: the terminate event is sent and the thread joined.
SetPolicy(t) ==
  /\ newType = "" /\ t # pol.type
  /\ Send(TerminateEvent)
  /\ newType' = t
  /\ UNCHANGED <<batch, schedVars, queueVars, ticks, fresh>>

\* Stop clears the timers; then a new policy, everything resumed in the
\* status, and Run.
SetPolicyEnd ==
  /\ newType # "" /\ wpc = "off"
  /\ pol' = InitPolicy(newType)
  /\ status' = ResumeAll(status, status.known)
  /\ timers' = {}
  /\ wpc' = "wait" /\ newType' = "" /\ fresh' = TRUE
  /\ UNCHANGED <<evq, batch, todo, final, terminate, queueVars, events, ticks>>

-----------------------------------------------------------------------------
(* Time.  Without bounds the time a queue has been ready is not counted;   *)
(* the policies UP and PUP do not look at it.                              *)

AgeEvent(e) == IF e.type = "Ready" THEN [e EXCEPT !.age = Count(@)] ELSE e
AgeEvents(q) == [i \in DOMAIN q |-> AgeEvent(q[i])]
AgeStatus(st) == [st EXCEPT !.age = [h \in Handles |->
                                       IF h \in st.ready THEN Count(@[h]) ELSE @[h]]]

\* A tick is of interest while something is ready and to the policies that
\* look at the time.
Timed == {"UP", "PUP", "KEDF", "LAX", "CFS", "MLFQ", "SLO"}
Tick ==
  /\ ticks < MaxTicks /\ ReallyReady # {} /\ pol.type \in Timed
  /\ ticks' = Count(ticks)
  /\ evq' = AgeEvents(evq) /\ batch' = AgeEvents(batch)
  /\ status' = AgeStatus(status)
  /\ pol' = AgePolicy(pol)
  /\ timers' = {Rest(t, 1) : t \in timers}
  /\ UNCHANGED <<wpc, todo, final, terminate, newType, queueVars, events, fresh>>

-----------------------------------------------------------------------------
(* The specification.  In the beginning the queues of Existing are known,  *)
(* idle and running, and the thread waits.                                 *)

StatusWith(Q) ==
  [known |-> Q, ready |-> {}, suspended |-> {},
   device |-> [h \in Handles |-> IF h \in Q THEN DeviceOf[h] ELSE NoDevice],
   age |-> [h \in Handles |-> 0], procs |-> Pids,
   running |-> [p \in Pids |-> {h \in Q : PidOf[h] = p}],
   stopped |-> [p \in Pids |-> {}]]

Init ==
  /\ evq = <<>> /\ batch = <<>>
  /\ status = StatusWith(Existing)
  /\ \E t \in Policies0 : pol = InitPolicy(t)
  /\ timers = {} /\ wpc = "wait" /\ todo = {} /\ final = FALSE /\ terminate = FALSE
  /\ newType = ""
  /\ phase = [h \in Handles |-> IF h \in Existing THEN "idle" ELSE "none"]
  /\ busy = {} /\ paused = {}
  /\ events = 0 /\ ticks = 0 /\ fresh = TRUE

Queue(h) == Create(h) \/ BecomeReady(h) \/ BecomeIdle(h) \/ Configure(h)
              \/ Del(h) \/ Destroy(h)
Worker == TakeEvents \/ TakeTimers \/ HandleEvent \/ FinishBatch
            \/ (\E p \in Pids : ExecuteOperation(p)) \/ EndReschedule

Next ==
  \/ \E h \in Handles : Queue(h)
  \/ \E e \in HintsOf[pol.type] : GiveHint(e)
  \/ Worker
  \/ \E t \in NextPolicies : SetPolicy(t)
  \/ SetPolicyEnd
  \/ Tick

Spec == Init /\ [][Next]_vars

\* The thread is scheduled and the clock goes on; the caller of SetPolicy
\* returns from join.
FairSpec == Spec /\ WF_vars(Worker) /\ WF_vars(SetPolicyEnd) /\ WF_vars(Tick)

-----------------------------------------------------------------------------
(* Properties *)

\* The two lists of a process and the suspended flags of its queues always
\* say the same, whatever order events, policies and their changes come in
\* (status.h keeps all three, and an operation is made from the lists).
StatusConsistent == Consistent(status)

\* The thread sleeps with nothing to do, and the policy has been asked.
Quiet == /\ wpc = "wait" /\ evq = <<>> /\ Expired(timers) = {}
         /\ newType = "" /\ ~fresh

\* When the scheduler sleeps, it knows the queues there are, which of them
\* are ready and on which device, and exactly those it believes to be
\* suspended are: events are handled late and operations refused for queues
\* that are gone, but nothing stays behind.
ViewAccurate ==
  Quiet => /\ status.known = {h \in Handles : phase[h] # "none"}
           /\ status.ready = ReallyReady \cup busy
           /\ \A h \in status.known : status.device[h] = DeviceOf[h]
           /\ \A h \in Registered : h \in paused <=> h \in status.suspended
           /\ paused \subseteq Registered

\* The queues a policy may leave suspended although they are ready: without
\* a utilization under UP, without a deadline under KEDF, of a priority
\* below the lowest under LAX.
Eligible(h) ==
  CASE pol.type = "UP" -> pol.utils[h] # NoEntry
    [] pol.type = "KEDF" -> pol.deadline[h] # <<>>
    [] pol.type = "LAX" -> LaxPrio(pol, status, h) >= PriorityMin
    [] OTHER -> TRUE
PerDevice == pol.type \in {"HPF", "CHPF", "CFS", "MLFQ", "SLO"}
Competes(g, h) == PerDevice => DeviceOf[g] = DeviceOf[h]

\* Whenever the scheduler sleeps, a device with ready work runs some of it
\* (the whole system does, for the policies that look at all devices): a
\* queue is held back only for another ready queue that runs.
WorkConserving ==
  Quiet => \A h \in ReallyReady : Eligible(h) =>
             \E g \in ReallyReady \cup busy : g \notin paused /\ Competes(g, h)

\* Under the policies that rank the queues (by priority, laxity, window in the
\* foreground or latency) a ready queue that runs has no ready competitor of
\* a higher rank, also when a laxity has run out without any event, whichever
\* windows were active before and however hints and events arrived.
OneIf(b) == IF b THEN 1 ELSE 0
Rank(h) ==
  CASE pol.type \in {"HPF", "HHPF"} -> pol.prio[h]
    [] pol.type = "CHPF" -> Nice[PidOf[h]]
    [] pol.type = "LAX" -> LaxPrio(pol, status, h)
    [] pol.type = "AWF" -> OneIf(\E d \in DOMAIN pol.windows : pol.windows[d] = PidOf[h])
    [] pol.type = "SLO" -> OneIf(IsLatencySensitive(pol.info[h]))
HighestFirst ==
  (Quiet /\ pol.type \in {"HPF", "HHPF", "CHPF", "LAX", "AWF", "SLO"}) =>
    \A g, h \in ReallyReady :
      h \notin paused /\ Competes(g, h) => Rank(g) <= Rank(h)

\* CFS, SLO and IAH run one ready queue of a device at a time, KEDF at most
\* k queues.
OneAtATime ==
  Quiet =>
    /\ pol.type \in {"CFS", "SLO", "IAH"} =>
         \A g, h \in ReallyReady \ paused : DeviceOf[g] = DeviceOf[h] => g = h
    /\ pol.type = "KEDF" => Cardinality(Registered \ paused) <= pol.k

\* CFS: the queue that runs is never more than one time slice of its virtual
\* runtime ahead of another ready queue of the device.
Runtime(h) == pol.info[h].vruntime
                + IF pol.info[h].running THEN pol.info[h].age * pol.info[h].rate ELSE 0
FairRuntime ==
  (Quiet /\ pol.type = "CFS") =>
    \A g, h \in ReallyReady :
      h \notin paused /\ DeviceOf[g] = DeviceOf[h] =>
        Runtime(h) <= Runtime(g) + Timeslice * pol.info[h].rate

\* The thread never sleeps past the moment at which the policy has to be
\* asked again: the end of a slice under UP and PUP, of a laxity, the next
\* tick of the policies that measure time.
Deadlines ==
  CASE pol.type = "UP" -> IF pol.cur # None /\ pol.cur \in status.ready THEN {pol.rest} ELSE {}
    [] pol.type = "PUP" -> IF \E i \in DOMAIN pol.runQueue :
                                pol.runQueue[i].running /\ pol.runQueue[i].ready
                           THEN {pol.rest} ELSE {}
    [] pol.type = "LAX" -> {pol.lax[h][1] - status.age[h] :
                              h \in {g \in ReadyQueues(status) :
                                       pol.lax[g] # <<>> /\ IsLax(pol, status, g)}}
    [] pol.type \in {"CFS", "MLFQ"} -> IF ReadyQueues(status) = {} THEN {} ELSE {Timeslice}
    [] pol.type = "SLO" -> IF ReadyQueues(status) = {} THEN {} ELSE {pol.timeslice}
    [] OTHER -> {}
WakeupPending ==
  Quiet => \A d \in Deadlines : \E t \in timers : t <= d

\* MLFQ: a queue that runs is stopped or demoted before it has used one tick
\* more than its slice, even if the clock is about to tick.
SliceKept ==
  (Quiet /\ pol.type = "MLFQ") =>
    \A h \in ReallyReady :
      LET i == pol.info[h]
      IN i.running => i.used + i.age + 1 < SliceOf[i.prio] + Timeslice

\* UP and PUP: a ready queue that may run is run eventually.  It is not if
\* the policy is changed meanwhile: the new one is asked, and the queue
\* resumed in its process, only when another event comes (SetPolicy).
EveryoneRuns ==
  \A h \in Handles : (h \in ReallyReady /\ Eligible(h)) ~> (h \notin paused \/ fresh)

\* A change of policy ends: the thread finishes its batch, whatever it holds,
\* before SetPolicy joins it, and events do not keep it from ending.
SetPolicyReturns == (newType # "") ~> (newType = "")

=============================================================================

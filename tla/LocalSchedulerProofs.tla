------------------------ MODULE LocalSchedulerProofs ------------------------
(***************************************************************************)
(* The status of a LocalScheduler stays consistent, and whenever the       *)
(* scheduler thread sleeps it is accurate: it says what the queues are,    *)
(* and the queues are suspended as it says.  Both hold whatever the policy *)
(* decides: nothing is used of a policy but that it returns outcomes.      *)
(***************************************************************************)
EXTENDS LocalScheduler, SequenceTheorems, TLAPS

\* The part of an event's type the status depends on.
HandledEvent(e) ==
  \/ e \in [type : {"Create", "Destroy", "Idle"}, h : Handles]
  \/ e \in [type : {"Ready"}, h : Handles, age : Nat]
  \/ e \in [type : {"ProcessCreate", "ProcessDestroy"}, p : Pids]
  \/ e.type \in {"Terminate", "Hint"}

GoodStatus(st) == st \in Status /\ Consistent(st)

-----------------------------------------------------------------------------
(* What events and operations do to a consistent status *)

\* Suspending queues leaves a status consistent (LocalScheduler::Suspend).
LEMMA SuspendAllGood ==
  ASSUME NEW st, GoodStatus(st), NEW S
  PROVE  GoodStatus(SuspendAll(st, S))
<1>1. SuspendAll(st, S) \in Status
  BY StatusAssumption DEF GoodStatus, Status, SuspendAll
<1>2. Consistent(SuspendAll(st, S))
  BY StatusAssumption DEF GoodStatus, Status, SuspendAll, Consistent
<1> QED BY <1>1, <1>2 DEF GoodStatus

\* Resuming queues leaves a status consistent (LocalScheduler::Resume).
LEMMA ResumeAllGood ==
  ASSUME NEW st, GoodStatus(st), NEW S
  PROVE  GoodStatus(ResumeAll(st, S))
<1>1. ResumeAll(st, S) \in Status
  BY StatusAssumption DEF GoodStatus, Status, ResumeAll
<1>2. Consistent(ResumeAll(st, S))
  BY StatusAssumption DEF GoodStatus, Status, ResumeAll, Consistent
<1> QED BY <1>1, <1>2 DEF GoodStatus

\* A new queue leaves a status consistent (LocalScheduler::CreateXQueueStatus).
LEMMA CreateStatusGood ==
  ASSUME NEW st, GoodStatus(st), NEW h \in Handles,
         h \notin st.known, NEW d \in Devices \cup {NoDevice}, NEW r \in BOOLEAN
  PROVE  GoodStatus(CreateXQueueStatus(st, h, d, r))
<1> DEFINE new == CreateXQueueStatus(st, h, d, r)
           ready == IF r THEN st.ready \cup {h} ELSE st.ready \ {h}
           device == [st.device EXCEPT ![h] = d]
           age == [st.age EXCEPT ![h] = 0]
           running == [st.running EXCEPT ![PidOf[h]] = @ \cup {h}]
<1>1. PidOf[h] \in Pids /\ st \in Status
  BY StatusAssumption DEF GoodStatus
<1>2. ready \subseteq Handles
  BY <1>1 DEF Status
<1>3. device \in [Handles -> Devices \cup {NoDevice}] /\ age \in [Handles -> Nat]
  BY <1>1 DEF Status
<1>4. running \in [Pids -> SUBSET Handles]
  BY <1>1 DEF Status
<1>5. new = [known |-> st.known \cup {h}, ready |-> ready, suspended |-> st.suspended \ {h},
             device |-> device, age |-> age, procs |-> st.procs \cup {PidOf[h]},
             running |-> running, stopped |-> st.stopped]
  <2>1. new = [st EXCEPT !.known = @ \cup {h}, !.ready = ready, !.suspended = @ \ {h},
                         !.device = device, !.age = age, !.procs = @ \cup {PidOf[h]},
                         !.running = running]
    BY DEF CreateXQueueStatus
  <2> HIDE DEF new, ready, device, age, running
  <2> QED BY <1>1, <2>1 DEF Status
<1>6. new \in Status
  <2> HIDE DEF new, ready, device, age, running
  <2> QED BY <1>1, <1>2, <1>3, <1>4, <1>5 DEF Status
<1>7. Consistent(new)
  <2>1. new.ready \subseteq new.known /\ new.suspended \subseteq new.known
    BY <1>5 DEF GoodStatus, Consistent
  <2>2. \A g \in new.known : PidOf[g] \in new.procs
    BY <1>5 DEF GoodStatus, Consistent
  <2>3. \A p \in Pids :
          /\ new.running[p] = {g \in new.known \ new.suspended : PidOf[g] = p}
          /\ new.stopped[p] = {g \in new.suspended : PidOf[g] = p}
    <3> HIDE DEF new, ready, device, age
    <3> QED BY <1>1, <1>5 DEF GoodStatus, Status, Consistent
  <2> QED BY <2>1, <2>2, <2>3 DEF Consistent
<1> QED BY <1>6, <1>7 DEF GoodStatus

\* A new process leaves a status consistent (UpdateStatus).
LEMMA ProcessCreateGood ==
  ASSUME NEW st, GoodStatus(st), NEW p \in Pids
  PROVE  GoodStatus(ProcessCreate(st, p))
<1>1. ProcessCreate(st, p) \in Status
  BY StatusAssumption DEF GoodStatus, Status, ProcessCreate
<1>2. Consistent(ProcessCreate(st, p))
  BY StatusAssumption DEF GoodStatus, Status, ProcessCreate, Consistent
<1> QED BY <1>1, <1>2 DEF GoodStatus

\* Forgetting a process and its queues leaves a status consistent (UpdateStatus).
LEMMA ProcessDestroyGood ==
  ASSUME NEW st, GoodStatus(st), NEW p \in Pids
  PROVE  GoodStatus(ProcessDestroy(st, p))
<1>1. ProcessDestroy(st, p) \in Status
  BY StatusAssumption DEF GoodStatus, Status, ProcessDestroy
<1>2. Consistent(ProcessDestroy(st, p))
  BY StatusAssumption DEF GoodStatus, Status, ProcessDestroy, Consistent
<1> QED BY <1>1, <1>2 DEF GoodStatus

\* The events of a queue leave a status consistent (UpdateStatus).
LEMMA XQueueCreateGood ==
  ASSUME NEW st, GoodStatus(st), NEW h \in Handles
  PROVE  GoodStatus(XQueueCreate(st, h))
<1>1. CASE h \notin st.known
  BY <1>1, CreateStatusGood, StatusAssumption DEF XQueueCreate
<1>2. CASE h \in st.known
  BY <1>2, StatusAssumption DEF XQueueCreate, GoodStatus, Status, Consistent
<1> QED BY <1>1, <1>2

\* A ready event for a queue that is not known yet creates its entry.
LEMMA XQueueReadyGood ==
  ASSUME NEW st, GoodStatus(st), NEW h \in Handles, NEW t \in Nat
  PROVE  GoodStatus(XQueueReady(st, h, t))
<1>1. CASE h \notin st.known
  <2> DEFINE new == CreateXQueueStatus(st, h, NoDevice, TRUE)
  <2>1. GoodStatus(new)
    BY <1>1, CreateStatusGood
  <2>2. XQueueReady(st, h, t) = [new EXCEPT !.age[h] = t]
    BY <1>1 DEF XQueueReady
  <2> HIDE DEF new
  <2>3. [new EXCEPT !.age[h] = t] \in Status
    BY <2>1 DEF GoodStatus, Status
  <2>4. Consistent([new EXCEPT !.age[h] = t])
    BY <2>1 DEF GoodStatus, Status, Consistent
  <2> QED BY <2>2, <2>3, <2>4 DEF GoodStatus
<1>2. CASE h \in st.known
  BY <1>2, StatusAssumption DEF XQueueReady, GoodStatus, Status, Consistent
<1> QED BY <1>1, <1>2

\* So does an idle event.
LEMMA XQueueIdleGood ==
  ASSUME NEW st, GoodStatus(st), NEW h \in Handles
  PROVE  GoodStatus(XQueueIdle(st, h))
<1>1. CASE h \notin st.known
  BY <1>1, CreateStatusGood DEF XQueueIdle
<1>2. CASE h \in st.known
  BY <1>2, StatusAssumption DEF XQueueIdle, GoodStatus, Status, Consistent
<1> QED BY <1>1, <1>2

\* Forgetting a queue leaves a status consistent (UpdateStatus).
LEMMA XQueueDestroyGood ==
  ASSUME NEW st, GoodStatus(st), NEW h \in Handles
  PROVE  GoodStatus(XQueueDestroy(st, h))
<1>1. XQueueDestroy(st, h) \in Status
  BY StatusAssumption DEF GoodStatus, Status, XQueueDestroy
<1>2. Consistent(XQueueDestroy(st, h))
  BY StatusAssumption DEF GoodStatus, Status, XQueueDestroy, Consistent
<1> QED BY <1>1, <1>2 DEF GoodStatus

\* Every event leaves a status consistent (UpdateStatus).
LEMMA UpdateStatusGood ==
  ASSUME NEW st, GoodStatus(st), NEW e, HandledEvent(e)
  PROVE  GoodStatus(UpdateStatus(st, e))
<1>1. CASE e \in [type : {"Create", "Destroy", "Idle"}, h : Handles]
  BY <1>1, XQueueCreateGood, XQueueDestroyGood, XQueueIdleGood DEF UpdateStatus
<1>2. CASE e \in [type : {"Ready"}, h : Handles, age : Nat]
  BY <1>2, XQueueReadyGood DEF UpdateStatus
<1>3. CASE e \in [type : {"ProcessCreate", "ProcessDestroy"}, p : Pids]
  BY <1>3, ProcessCreateGood, ProcessDestroyGood DEF UpdateStatus
<1>4. CASE e.type \in {"Terminate", "Hint"}
  BY <1>4 DEF UpdateStatus
<1> QED BY <1>1, <1>2, <1>3, <1>4 DEF HandledEvent

\* Reschedule leaves the status consistent, whatever the policy decides.
LEMMA RescheduleGood ==
  ASSUME NEW st, GoodStatus(st), Reschedule(st)
  PROVE  GoodStatus(status')
<1>1. PICK o \in PolicySched(pol, st) : status' = ResumeAll(SuspendAll(st, o.stop), o.run)
  BY DEF Reschedule
<1>2. GoodStatus(SuspendAll(st, o.stop))
  BY SuspendAllGood
<1> QED BY <1>1, <1>2, ResumeAllGood

-----------------------------------------------------------------------------
(* The inductive invariant: besides the status, what the two queues hold   *)
(* are events the status can be updated with.  S is any set that holds     *)
(* them; the hints, which are not looked at, need no type.                 *)

Queued(S) ==
  evq \in Seq(S) /\ batch \in Seq(S) /\ \A e \in S : HandledEvent(e)
SchedInv == GoodStatus(status) /\ \E S : Queued(S)

\* In the beginning the queues that exist are known and running.
LEMMA SchedInit == Init => SchedInv
<1> SUFFICES ASSUME Init PROVE SchedInv
  OBVIOUS
<1>1. status \in Status
  BY StatusAssumption, SchedulerAssumption DEF Init, Status, StatusWith
<1>2. Consistent(status)
  BY StatusAssumption, SchedulerAssumption DEF Init, Consistent, StatusWith
<1>3. evq = <<>> /\ batch = <<>>
  BY DEF Init
<1>4. Queued({})
  BY <1>3 DEF Queued
<1> QED BY <1>1, <1>2, <1>4 DEF SchedInv, GoodStatus

\* Sending an event that can be handled keeps the queues good (RecvEvent).
LEMMA SendGood ==
  ASSUME NEW S, Queued(S), NEW e, HandledEvent(e), Send(e), UNCHANGED batch
  PROVE  \E T : Queued(T)'
<1>1. evq' = Append(evq, e)
  BY DEF Send
<1>2. evq' \in Seq(S \cup {e}) /\ batch' \in Seq(S \cup {e})
  <2>1. evq \in Seq(S \cup {e}) /\ batch \in Seq(S \cup {e})
    BY DEF Queued
  <2> QED BY <1>1, <2>1
<1>3. \A x \in S \cup {e} : HandledEvent(x)
  BY DEF Queued
<1>4. Queued(S \cup {e})'
  BY <1>2, <1>3 DEF Queued
<1> QED BY <1>4

\* A step that sends such an event and leaves the status alone keeps the
\* invariant.
LEMMA SendKeepsInv ==
  ASSUME SchedInv, NEW e, HandledEvent(e), Send(e), UNCHANGED <<batch, status>>
  PROVE  SchedInv'
<1>1. PICK S : Queued(S)
  BY DEF SchedInv
<1>2. \E T : Queued(T)'
  BY <1>1, SendGood
<1> QED BY <1>2 DEF SchedInv

\* A step that leaves the queues of events alone.
LEMMA StatusStepKeepsInv ==
  ASSUME SchedInv, UNCHANGED <<evq, batch>>, GoodStatus(status')
  PROVE  SchedInv'
<1>1. PICK S : Queued(S)
  BY DEF SchedInv
<1>2. Queued(S)'
  BY <1>1 DEF Queued
<1> QED BY <1>2 DEF SchedInv

\* The steps of the queues: they send events about themselves.
LEMMA QueueKeepsInv ==
  ASSUME SchedInv, NEW h \in Handles, Queue(h)
  PROVE  SchedInv'
<1>1. HandledEvent(CreateEvent(h)) /\ HandledEvent(DestroyEvent(h))
        /\ HandledEvent(ReadyEvent(h)) /\ HandledEvent(IdleEvent(h))
  BY DEF HandledEvent, CreateEvent, DestroyEvent, ReadyEvent, IdleEvent
<1>2. CASE Create(h)
  BY <1>1, <1>2, SendKeepsInv DEF Create, schedVars
<1>3. CASE BecomeReady(h)
  BY <1>1, <1>3, SendKeepsInv DEF BecomeReady, schedVars
<1>4. CASE BecomeIdle(h)
  BY <1>1, <1>4, SendKeepsInv DEF BecomeIdle, schedVars
<1>5. CASE Configure(h)
  BY <1>1, <1>5, SendKeepsInv DEF Configure, schedVars
<1>6. CASE Del(h)
  BY <1>6, StatusStepKeepsInv DEF Del, schedVars, SchedInv
<1>7. CASE Destroy(h)
  BY <1>1, <1>7, SendKeepsInv DEF Destroy, schedVars
<1> QED BY <1>2, <1>3, <1>4, <1>5, <1>6, <1>7 DEF Queue

\* The steps of the scheduler thread.
LEMMA WorkerKeepsInv ==
  ASSUME SchedInv, Worker
  PROVE  SchedInv'
<1>1. PICK S : Queued(S)
  BY DEF SchedInv
<1>2. GoodStatus(status)
  BY DEF SchedInv
<1>3. CASE TakeEvents
  <2>1. batch' \in Seq(S) /\ evq' \in Seq(S) /\ status' = status
    BY <1>1, <1>3 DEF TakeEvents, Queued
  <2>2. Queued(S)'
    BY <1>1, <2>1 DEF Queued
  <2> QED BY <1>2, <2>1, <2>2 DEF SchedInv
<1>4. CASE TakeTimers
  BY <1>2, <1>4, StatusStepKeepsInv DEF TakeTimers
<1>5. CASE HandleEvent
  <2> DEFINE e == Head(batch)
  <2>1. evq' = evq /\ batch' = Tail(batch) /\ batch # <<>>
    BY <1>5 DEF HandleEvent
  <2>2. Queued(S)'
    BY <1>1, <2>1 DEF Queued
  <2>3. HandledEvent(e)
    BY <1>1, <2>1 DEF Queued
  <2>4. GoodStatus(UpdateStatus(status, e))
    BY <1>2, <2>3, UpdateStatusGood
  <2>5. \/ status' = status
        \/ Reschedule(UpdateStatus(status, e))
        \/ status' = UpdateStatus(status, e)
    BY <1>5 DEF HandleEvent
  <2>6. GoodStatus(status')
    <3> HIDE DEF e
    <3> QED BY <1>2, <2>4, <2>5, RescheduleGood
  <2> QED BY <2>2, <2>6 DEF SchedInv
<1>6. CASE FinishBatch
  BY <1>2, <1>6, RescheduleGood, StatusStepKeepsInv DEF FinishBatch
<1>7. CASE \E p \in Pids : ExecuteOperation(p)
  BY <1>2, <1>7, StatusStepKeepsInv DEF ExecuteOperation
<1>8. CASE EndReschedule
  BY <1>2, <1>8, StatusStepKeepsInv DEF EndReschedule
<1> QED BY <1>3, <1>4, <1>5, <1>6, <1>7, <1>8 DEF Worker

\* Time only changes ages.
LEMMA TickKeepsInv ==
  ASSUME SchedInv, Tick
  PROVE  SchedInv'
<1>1. PICK S : Queued(S)
  BY DEF SchedInv
<1>2. GoodStatus(status) /\ status' = AgeStatus(status)
  BY DEF SchedInv, Tick
<1>3. \A n \in Nat : Count(n) \in Nat
  BY DEF Count
<1>4. GoodStatus(status')
  <2>1. [h \in Handles |-> IF h \in status.ready THEN Count(status.age[h]) ELSE status.age[h]]
          \in [Handles -> Nat]
    BY <1>2, <1>3 DEF GoodStatus, Status
  <2> QED BY <1>2, <2>1 DEF GoodStatus, Status, Consistent, AgeStatus
<1> DEFINE T == {AgeEvent(e) : e \in S}
<1>5. \A e \in T : HandledEvent(e)
  BY <1>1, <1>3 DEF Queued, HandledEvent, AgeEvent
<1>6. \A q \in Seq(S) : AgeEvents(q) \in Seq(T)
  BY DEF AgeEvents
<1>7. evq' \in Seq(T) /\ batch' \in Seq(T)
  BY <1>1, <1>6 DEF Queued, Tick
<1>8. Queued(T)'
  <2> HIDE DEF T
  <2> QED BY <1>5, <1>7 DEF Queued
<1> QED BY <1>4, <1>8 DEF SchedInv

\* Every step keeps the invariant.
LEMMA SchedNext == SchedInv /\ [Next]_vars => SchedInv'
<1> SUFFICES ASSUME SchedInv, [Next]_vars PROVE SchedInv'
  OBVIOUS
<1>1. CASE \E h \in Handles : Queue(h)
  BY <1>1, QueueKeepsInv
<1>2. CASE \E e \in HintsOf[pol.type] : GiveHint(e)
  <2>1. PICK e \in HintsOf[pol.type] : GiveHint(e)
    BY <1>2
  <2>2. HandledEvent([type |-> "Hint", hint |-> e])
    BY DEF HandledEvent
  <2> QED BY <2>1, <2>2, SendKeepsInv DEF GiveHint, schedVars
<1>3. CASE Worker
  BY <1>3, WorkerKeepsInv
<1>4. CASE \E t \in NextPolicies : SetPolicy(t)
  <2>1. HandledEvent(TerminateEvent)
    BY DEF HandledEvent, TerminateEvent
  <2> QED BY <1>4, <2>1, SendKeepsInv DEF SetPolicy, schedVars
<1>5. CASE SetPolicyEnd
  BY <1>5, ResumeAllGood, StatusStepKeepsInv DEF SetPolicyEnd, SchedInv
<1>6. CASE Tick
  BY <1>6, TickKeepsInv
<1>7. CASE UNCHANGED vars
  BY <1>7, StatusStepKeepsInv DEF vars, schedVars, SchedInv
<1> QED BY <1>1, <1>2, <1>3, <1>4, <1>5, <1>6, <1>7 DEF Next

\* In every behaviour of the scheduler, with any policies, queues, processes,
\* hints and changes of policy, the lists of the processes and the flags of
\* the queues agree (status_ of LocalScheduler).
THEOREM StatusStaysConsistent == Spec => []StatusConsistent
<1>1. SchedInv => StatusConsistent
  BY DEF SchedInv, GoodStatus, StatusConsistent
<1> QED BY <1>1, SchedInit, SchedNext, PTL DEF Spec

-----------------------------------------------------------------------------
(* What a status says of a queue, and how that follows the events          *)

\* A queue is unknown, idle or ready to a status, and it is not there, idle or
\* ready in its process, a closing one with commands left included.
Views == {"none", "idle", "ready"}
ViewOf(st, h) ==
  IF h \notin st.known THEN "none" ELSE IF h \in st.ready THEN "ready" ELSE "idle"
Real(h) ==
  IF phase[h] = "none" THEN "none"
  ELSE IF phase[h] = "ready" \/ h \in busy THEN "ready" ELSE "idle"

\* What is said of h when the event e has been handled.
About(e, h) == e.type \in {"Create", "Destroy", "Ready", "Idle"} /\ e.h = h
Removes(e, h) ==
  \/ e.type = "Destroy" /\ e.h = h
  \/ e.type = "ProcessDestroy" /\ e.p = PidOf[h]
After(v, e, h) ==
  IF Removes(e, h) THEN "none"
  ELSE IF ~About(e, h) THEN v
  ELSE IF e.type = "Create" THEN IF v = "none" THEN "idle" ELSE v
  ELSE IF e.type = "Ready" THEN "ready" ELSE "idle"

\* V holds what is said of h before and after each event of q.  A queue that
\* is known first and unknown later was destroyed in between.
Follows(V, q, h) ==
  /\ V \in [0..Len(q) -> Views]
  /\ \A i \in 1..Len(q) : V[i] = After(V[i - 1], q[i], h)
  /\ \A i, j \in 0..Len(q) :
       i <= j /\ V[i] # "none" /\ V[j] = "none" =>
         \E k \in 1..Len(q) : i < k /\ Removes(q[k], h)

\* A queue is created before it becomes ready or idle.
Announced(V, q, h) ==
  \A i \in 1..Len(q) : q[i].type \in {"Ready", "Idle"} /\ q[i].h = h => V[i - 1] # "none"

\* After gives a view.
LEMMA AfterViews ==
  ASSUME NEW v \in Views, NEW e, NEW h
  PROVE  After(v, e, h) \in Views
BY DEF Views, After

\* An event changes what a status says as After does (UpdateStatus).
LEMMA UpdateView ==
  ASSUME NEW st, GoodStatus(st), NEW e, HandledEvent(e), NEW h \in Handles
  PROVE  ViewOf(UpdateStatus(st, e), h) = After(ViewOf(st, h), e, h)
<1>1. st \in Status /\ Consistent(st) /\ PidOf \in [Handles -> Pids]
  BY StatusAssumption DEF GoodStatus
<1>2. CASE e.type = "Create" /\ e.h \in Handles
  BY <1>1, <1>2 DEF UpdateStatus, XQueueCreate, CreateXQueueStatus, ViewOf, After, About, Removes,
    Status, Consistent
<1>3. CASE e.type = "Destroy" /\ e.h \in Handles
  BY <1>1, <1>3 DEF UpdateStatus, XQueueDestroy, ViewOf, After, About, Removes, Status, Consistent
<1>4. CASE e.type = "Idle" /\ e.h \in Handles
  BY <1>1, <1>4 DEF UpdateStatus, XQueueIdle, CreateXQueueStatus, ViewOf, After, About, Removes,
    Status, Consistent
<1>5. CASE e.type = "Ready" /\ e.h \in Handles /\ e.age \in Nat
  <2>1. UpdateStatus(st, e) = XQueueReady(st, e.h, e.age)
    BY <1>5 DEF UpdateStatus
  <2>2. /\ XQueueReady(st, e.h, e.age).known = st.known \cup {e.h}
        /\ XQueueReady(st, e.h, e.age).ready = st.ready \cup {e.h}
    BY <1>1, <1>5 DEF XQueueReady, CreateXQueueStatus, Status
  <2>3. QED
    BY <1>1, <1>5, <2>1, <2>2 DEF ViewOf, After, About, Removes, Consistent
<1>6. CASE e.type = "ProcessCreate" /\ e.p \in Pids
  BY <1>1, <1>6 DEF UpdateStatus, ProcessCreate, ViewOf, After, About, Removes, Status
<1>7. CASE e.type = "ProcessDestroy" /\ e.p \in Pids
  BY <1>1, <1>7 DEF UpdateStatus, ProcessDestroy, ViewOf, After, About, Removes, Status, Consistent
<1>8. CASE e.type \in {"Terminate", "Hint"}
  BY <1>8 DEF UpdateStatus, ViewOf, After, About, Removes
<1>9. QED
  BY <1>2, <1>3, <1>4, <1>5, <1>6, <1>7, <1>8 DEF HandledEvent

\* The device of a known queue stays the right one if events about a queue
\* that is not known create it (UpdateStatus).
DevicesRight(st) == \A h \in st.known : st.device[h] = DeviceOf[h]

\* It does for every event.
LEMMA UpdateDevices ==
  ASSUME NEW st, GoodStatus(st), DevicesRight(st), NEW e, HandledEvent(e),
         e.type \in {"Ready", "Idle"} => e.h \in st.known
  PROVE  DevicesRight(UpdateStatus(st, e))
<1>1. st \in Status
  BY DEF GoodStatus
<1>2. CASE e.type = "Create" /\ e.h \in Handles
  BY <1>1, <1>2 DEF UpdateStatus, XQueueCreate, CreateXQueueStatus, DevicesRight, Status
<1>3. CASE e.type \in {"Destroy", "Idle"} /\ e.h \in Handles
  BY <1>1, <1>3 DEF UpdateStatus, XQueueDestroy, XQueueIdle, DevicesRight, Status
<1>4. CASE e.type = "Ready" /\ e.h \in Handles /\ e.age \in Nat
  BY <1>1, <1>4 DEF UpdateStatus, XQueueReady, DevicesRight, Status
<1>5. CASE e.type \in {"ProcessCreate", "ProcessDestroy"} /\ e.p \in Pids
  BY <1>1, <1>5 DEF UpdateStatus, ProcessCreate, ProcessDestroy, DevicesRight, Status
<1>6. CASE e.type \in {"Terminate", "Hint"}
  BY <1>6 DEF UpdateStatus
<1>7. QED
  BY <1>2, <1>3, <1>4, <1>5, <1>6 DEF HandledEvent

\* A policy decides about queues, and changes nothing else of them
\* (LocalScheduler::Suspend and ::Resume).
LEMMA DecisionKeeps ==
  ASSUME NEW st, st \in Status, NEW S, NEW R
  PROVE  LET new == ResumeAll(SuspendAll(st, S), R)
         IN new.known = st.known /\ new.ready = st.ready /\ new.device = st.device
BY DEF ResumeAll, SuspendAll, Status

\* So Reschedule leaves the view of every queue and the devices.
LEMMA RescheduleKeeps ==
  ASSUME NEW st, GoodStatus(st), Reschedule(st)
  PROVE  /\ status'.known = st.known /\ status'.ready = st.ready /\ status'.device = st.device
         /\ wpc' = "exec" /\ fresh' = FALSE
         /\ todo' = {p \in status'.procs : HasXQueues(status', p)}
<1>1. PICK o \in PolicySched(pol, st) :
        /\ status' = ResumeAll(SuspendAll(st, o.stop), o.run)
        /\ wpc' = "exec" /\ fresh' = FALSE
        /\ todo' = {p \in status'.procs : HasXQueues(status', p)}
  BY DEF Reschedule
<1>2. QED
  BY <1>1, DecisionKeeps DEF GoodStatus

-----------------------------------------------------------------------------
(* Following the events of a queue that grows, shrinks or ages *)

\* Nothing happens in an empty queue.
LEMMA FollowsNothing ==
  ASSUME NEW v \in Views, NEW h
  PROVE  /\ Follows([i \in 0..0 |-> v], <<>>, h)
         /\ Announced([i \in 0..0 |-> v], <<>>, h)
BY DEF Follows, Announced

\* An event is added at the end.
LEMMA FollowsAppend ==
  ASSUME NEW S, NEW q \in Seq(S), NEW e, NEW h, NEW V, Follows(V, q, h)
  PROVE  \E W : /\ Follows(W, Append(q, e), h)
                /\ W[0] = V[0] /\ W[Len(Append(q, e))] = After(V[Len(q)], e, h)
                /\ \A i \in 0..Len(q) : W[i] = V[i]
                /\ Announced(V, q, h)
                     /\ (e.type \in {"Ready", "Idle"} /\ e.h = h => V[Len(q)] # "none")
                   => Announced(W, Append(q, e), h)
<1> DEFINE n == Len(q)
           W == [i \in 0..(n + 1) |-> IF i <= n THEN V[i] ELSE After(V[n], e, h)]
           r == Append(q, e)
<1>1. n \in Nat /\ Len(r) = n + 1 /\ r[n + 1] = e /\ \A i \in 1..n : r[i] = q[i]
  BY AppendProperties, LenProperties
<1>2. V[n] \in Views /\ V \in [0..n -> Views]
  BY <1>1 DEF Follows
<1>3. W \in [0..(n + 1) -> Views]
  BY <1>1, <1>2, AfterViews
<1>4. W[n + 1] = After(V[n], e, h) /\ \A i \in 0..n : W[i] = V[i]
  BY <1>1
<1> HIDE DEF W, r, n
<1>5. \A i \in 1..(n + 1) : W[i] = After(W[i - 1], r[i], h)
  <2>1. \A i \in 1..n : V[i] = After(V[i - 1], q[i], h)
    BY DEF Follows, n
  <2>2. QED
    BY <1>1, <1>4, <2>1
<1>6. ASSUME NEW i \in 0..(n + 1), NEW j \in 0..(n + 1), i <= j, W[i] # "none", W[j] = "none"
      PROVE  \E k \in 1..(n + 1) : i < k /\ Removes(r[k], h)
  <2>1. CASE j <= n
    <3>1. \E k \in 1..n : i < k /\ Removes(q[k], h)
      BY <1>1, <1>4, <1>6, <2>1 DEF Follows, n
    <3>2. QED
      BY <1>1, <3>1
  <2>2. CASE j = n + 1 /\ Removes(e, h)
    BY <1>1, <1>6, <2>2
  <2>3. CASE j = n + 1 /\ ~Removes(e, h)
    <3>1. i <= n /\ V[i] # "none" /\ After(V[n], e, h) = "none"
      BY <1>1, <1>4, <1>6, <2>3
    <3>2. V[n] = "none"
      BY <3>1, <2>3, <1>2 DEF After, About, Views
    <3>3. \E k \in 1..n : i < k /\ Removes(q[k], h)
      BY <1>1, <3>1, <3>2 DEF Follows, n
    <3>4. QED
      BY <1>1, <3>3
  <2>4. QED
    BY <1>1, <2>1, <2>2, <2>3
<1>7. Follows(W, r, h)
  BY <1>1, <1>3, <1>5, <1>6 DEF Follows
<1>8. Announced(V, q, h) /\ (e.type \in {"Ready", "Idle"} /\ e.h = h => V[n] # "none")
        => Announced(W, r, h)
  <2>1. ASSUME Announced(V, q, h), e.type \in {"Ready", "Idle"} /\ e.h = h => V[n] # "none",
               NEW i \in 1..(n + 1), r[i].type \in {"Ready", "Idle"}, r[i].h = h
        PROVE  W[i - 1] # "none"
    BY <1>1, <1>4, <2>1 DEF Announced, n
  <2>2. QED
    BY <1>1, <2>1 DEF Announced
<1>9. QED
  BY <1>1, <1>4, <1>7, <1>8 DEF r, n

\* The first event is taken.
LEMMA FollowsTail ==
  ASSUME NEW S, NEW q \in Seq(S), q # <<>>, NEW h, NEW V, Follows(V, q, h)
  PROVE  \E W : /\ Follows(W, Tail(q), h)
                /\ W[0] = After(V[0], Head(q), h) /\ W[Len(Tail(q))] = V[Len(q)]
                /\ \A i \in 0..(Len(q) - 1) : W[i] = V[i + 1]
                /\ Announced(V, q, h) => Announced(W, Tail(q), h)
<1> DEFINE n == Len(q)
           W == [i \in 0..(n - 1) |-> V[i + 1]]
           r == Tail(q)
<1>1. /\ n \in Nat /\ n > 0 /\ Len(r) = n - 1 /\ Head(q) = q[1]
      /\ \A i \in 1..(n - 1) : r[i] = q[i + 1]
  BY HeadTailProperties, LenProperties, EmptySeq
<1>2. V \in [0..n -> Views]
  BY DEF Follows
<1>3. W \in [0..(n - 1) -> Views] /\ \A i \in 0..(n - 1) : W[i] = V[i + 1]
  BY <1>1, <1>2
<1> HIDE DEF W, r, n
<1>4. \A i \in 1..n : V[i] = After(V[i - 1], q[i], h)
  BY DEF Follows, n
<1>5. ASSUME NEW i \in 1..(n - 1) PROVE W[i] = After(W[i - 1], r[i], h)
  <2>1. i + 1 \in 1..n /\ i - 1 \in 0..(n - 1) /\ (i + 1) - 1 = (i - 1) + 1
    BY <1>1
  <2>2. V[i + 1] = After(V[(i + 1) - 1], q[i + 1], h)
    BY <1>4, <2>1
  <2>3. QED
    BY <1>1, <1>3, <2>1, <2>2
<1>6. ASSUME NEW i \in 0..(n - 1), NEW j \in 0..(n - 1), i <= j, W[i] # "none", W[j] = "none"
      PROVE  \E k \in 1..(n - 1) : i < k /\ Removes(r[k], h)
  <2>1. i + 1 \in 0..n /\ j + 1 \in 0..n /\ i + 1 <= j + 1
    BY <1>1, <1>6
  <2>2. PICK k \in 1..n : i + 1 < k /\ Removes(q[k], h)
    BY <1>3, <1>6, <2>1 DEF Follows, n
  <2>3. k - 1 \in 1..(n - 1) /\ i < k - 1 /\ (k - 1) + 1 = k
    BY <1>1, <2>2
  <2>4. QED
    BY <1>1, <2>2, <2>3
<1>7. Follows(W, r, h)
  BY <1>1, <1>3, <1>5, <1>6 DEF Follows
<1>8. W[0] = After(V[0], q[1], h) /\ W[n - 1] = V[n]
  BY <1>1, <1>3, <1>4
<1>9. ASSUME Announced(V, q, h), NEW i \in 1..(n - 1),
             r[i].type \in {"Ready", "Idle"}, r[i].h = h
      PROVE  W[i - 1] # "none"
  <2>1. i + 1 \in 1..n /\ i - 1 \in 0..(n - 1) /\ (i + 1) - 1 = (i - 1) + 1
    BY <1>1
  <2>2. V[(i + 1) - 1] # "none"
    BY <1>1, <1>9, <2>1 DEF Announced, n
  <2>3. QED
    BY <1>3, <2>1, <2>2
<1>10. QED
  BY <1>1, <1>3, <1>7, <1>8, <1>9 DEF Announced, r, n

\* Ages do not matter.
LEMMA FollowsAge ==
  ASSUME NEW S, NEW q \in Seq(S), \A e \in S : HandledEvent(e),
         NEW h, NEW V, Follows(V, q, h)
  PROVE  /\ Follows(V, AgeEvents(q), h) /\ Len(AgeEvents(q)) = Len(q)
         /\ Announced(V, q, h) => Announced(V, AgeEvents(q), h)
<1>1. Len(q) \in Nat /\ DOMAIN q = 1..Len(q) /\ \A i \in 1..Len(q) : q[i] \in S
  BY LenProperties
<1>2. Len(AgeEvents(q)) = Len(q) /\ \A i \in 1..Len(q) : AgeEvents(q)[i] = AgeEvent(q[i])
  BY <1>1 DEF AgeEvents
<1>3. \A e : HandledEvent(e) =>
        /\ AgeEvent(e).type = e.type
        /\ e.type \in {"Create", "Destroy", "Ready", "Idle"} => AgeEvent(e).h = e.h
        /\ e.type = "ProcessDestroy" => AgeEvent(e).p = e.p
  BY DEF HandledEvent, AgeEvent
<1>4. ASSUME NEW i \in 1..Len(q)
      PROVE  /\ Removes(AgeEvents(q)[i], h) <=> Removes(q[i], h)
             /\ AgeEvents(q)[i].type = q[i].type
             /\ About(AgeEvents(q)[i], h) <=> About(q[i], h)
  BY <1>1, <1>2, <1>3 DEF Removes, About
<1>5. \A i \in 1..Len(q) : \A v : After(v, AgeEvents(q)[i], h) = After(v, q[i], h)
  BY <1>4 DEF After
<1>6. Follows(V, AgeEvents(q), h)
  BY <1>2, <1>4, <1>5 DEF Follows
<1>7. Announced(V, q, h) => Announced(V, AgeEvents(q), h)
  BY <1>2, <1>4 DEF Announced, About
<1>8. QED
  BY <1>2, <1>6, <1>7

-----------------------------------------------------------------------------
(* The invariant of the view: what the status says of a queue now, changed  *)
(* as the events on their way will change it, is what the queue is.         *)

TracedBy(V, W, h) ==
  /\ Follows(V, batch, h) /\ Announced(V, batch, h)
  /\ Follows(W, evq, h) /\ Announced(W, evq, h)
  /\ V[0] = ViewOf(status, h) /\ V[Len(batch)] = W[0] /\ W[Len(evq)] = Real(h)
Traced(h) == \E V, W : TracedBy(V, W, h)

\* The queues in their processes.
QueuesOK ==
  /\ phase \in [Handles -> {"none", "idle", "ready", "closing"}]
  /\ busy \subseteq {h \in Handles : phase[h] = "closing"}
  /\ paused \subseteq Registered

\* The thread has handled its batch: it waits, has ended, or executes the
\* operations of the Reschedule after the batch.
BatchDone == wpc \in {"wait", "off"} \/ (wpc = "exec" /\ final)
ThreadOK ==
  /\ wpc \in {"wait", "batch", "exec", "off"} /\ final \in BOOLEAN
  /\ wpc # "exec" => ~final
  /\ BatchDone => batch = <<>>

\* Then a queue the thread has come to is suspended as the status says, unless
\* it has been destroyed meanwhile, and perhaps created again.
DestroySent(h) == \E i \in 1..Len(evq) : Removes(evq[i], h)
InSync(h) ==
  /\ BatchDone /\ ~fresh /\ (wpc = "exec" => PidOf[h] \notin todo)
  /\ h \in status.known \cap Registered /\ ~DestroySent(h)
  => (h \in paused <=> h \in status.suspended)

ViewInv ==
  /\ SchedInv /\ QueuesOK /\ ThreadOK /\ DevicesRight(status)
  /\ \A h \in Handles : Traced(h) /\ InSync(h)

\* A queue is what it was, to the status and in its process.
LEMMA TracedSame ==
  ASSUME NEW h, Traced(h), UNCHANGED <<evq, batch>>,
         ViewOf(status', h) = ViewOf(status, h), Real(h)' = Real(h)
  PROVE  Traced(h)'
<1>1. PICK V, W : TracedBy(V, W, h)
  BY DEF Traced
<1>2. TracedBy(V, W, h)'
  BY <1>1 DEF TracedBy, Follows, Announced
<1>3. QED
  BY <1>2 DEF Traced

\* An event is sent that tells how the queue has changed (RecvEvent).
LEMMA TracedSend ==
  ASSUME SchedInv, NEW h, Traced(h), NEW e, Send(e), UNCHANGED <<batch, status>>,
         Real(h)' = After(Real(h), e, h),
         e.type \in {"Ready", "Idle"} /\ e.h = h => Real(h) # "none"
  PROVE  Traced(h)'
<1>1. PICK V, W : TracedBy(V, W, h)
  BY DEF Traced
<1>2. PICK S : evq \in Seq(S)
  BY DEF SchedInv, Queued
<1>3. evq' = Append(evq, e)
  BY DEF Send
<1>4. /\ Follows(W, evq, h) /\ Announced(W, evq, h)
      /\ e.type \in {"Ready", "Idle"} /\ e.h = h => W[Len(evq)] # "none"
  BY <1>1 DEF TracedBy
<1>5. PICK U : /\ Follows(U, Append(evq, e), h)
               /\ U[0] = W[0] /\ U[Len(Append(evq, e))] = After(W[Len(evq)], e, h)
               /\ Announced(W, evq, h)
                    /\ (e.type \in {"Ready", "Idle"} /\ e.h = h => W[Len(evq)] # "none")
                  => Announced(U, Append(evq, e), h)
  BY <1>2, <1>4, FollowsAppend
<1>6. Announced(U, Append(evq, e), h)
  BY <1>4, <1>5
<1>7. TracedBy(V, U, h)'
  BY <1>1, <1>3, <1>5, <1>6 DEF TracedBy, Follows, Announced
<1>8. QED
  BY <1>7 DEF Traced

\* InSync does not depend on events that are sent, except that they end it.
LEMMA InSyncSend ==
  ASSUME SchedInv, NEW h, InSync(h), NEW e, Send(e),
         UNCHANGED <<wpc, final, fresh, todo, status>>,
         \/ Removes(e, h)
         \/ (h \in Registered' => h \in Registered) /\ UNCHANGED (h \in paused)
         \/ h \notin Registered' \/ h \notin status.known \/ DestroySent(h)
  PROVE  InSync(h)'
<1>1. PICK S : evq \in Seq(S)
  BY DEF SchedInv, Queued
<1>2. evq' = Append(evq, e)
  BY DEF Send
<1>3. /\ Len(evq) \in Nat /\ Len(evq') = Len(evq) + 1 /\ evq'[Len(evq) + 1] = e
      /\ \A i \in 1..Len(evq) : evq'[i] = evq[i]
  BY <1>1, <1>2, AppendProperties, LenProperties
<1>4. DestroySent(h)' <=> DestroySent(h) \/ Removes(e, h)
  BY <1>3 DEF DestroySent
<1>5. QED
  BY <1>4 DEF InSync, BatchDone

\* The status knows nothing of a queue that does not exist, or will be told.
LEMMA GoneIsTold ==
  ASSUME ViewInv, NEW h \in Handles, phase[h] = "none", BatchDone
  PROVE  h \notin status.known \/ DestroySent(h)
<1>1. PICK V, W : TracedBy(V, W, h)
  BY DEF ViewInv, Traced
<1>2. batch = <<>> /\ Len(batch) = 0
  BY DEF ViewInv, ThreadOK
<1>3. PICK S : evq \in Seq(S)
  BY DEF ViewInv, SchedInv, Queued
<1>4. W[0] = ViewOf(status, h) /\ W[Len(evq)] = "none" /\ Follows(W, evq, h) /\ Len(evq) \in Nat
  BY <1>1, <1>2, <1>3, LenProperties DEF TracedBy, Real
<1>5. CASE W[0] # "none"
  <2>1. \E k \in 1..Len(evq) : Removes(evq[k], h)
    BY <1>4, <1>5 DEF Follows
  <2>2. QED
    BY <2>1 DEF DestroySent
<1>6. CASE W[0] = "none"
  BY <1>4, <1>6 DEF ViewOf
<1>7. QED
  BY <1>5, <1>6

-----------------------------------------------------------------------------
(* The steps keep the invariant *)

\* What a step of a queue tells is what happens (CreateXQueue, Submit,
\* OnIdle, Del and the destructor of AsyncXQueue).
LEMMA QueueTells ==
  ASSUME QueuesOK, NEW g \in Handles, Queue(g)
  PROVE  /\ QueuesOK' /\ UNCHANGED <<batch, status, wpc, final, fresh, todo>>
         /\ \/ Del(g) /\ UNCHANGED evq /\ \A h \in Handles : Real(h)' = Real(h)
            \/ \E e \in {CreateEvent(g), DestroyEvent(g), ReadyEvent(g), IdleEvent(g)} :
                 /\ Send(e)
                 /\ \A h \in Handles : Real(h)' = After(Real(h), e, h)
                 /\ e.type \in {"Ready", "Idle"} => Real(g) # "none"
                 /\ \/ Create(g)
                    \/ (g \in Registered' => g \in Registered) /\ UNCHANGED paused
<1> USE DEF QueuesOK, Registered
<1> DEFINE Tells(e) == \A h \in Handles : Real(h)' = After(Real(h), e, h)
<1>1. CASE Create(g)
  <2>1. QueuesOK' /\ UNCHANGED <<batch, status, wpc, final, fresh, todo>>
    BY <1>1 DEF Create, CreateQueue, schedVars
  <2>2. Send(CreateEvent(g)) /\ Tells(CreateEvent(g))
    BY <1>1 DEF Create, CreateQueue, Real, After, About, Removes, CreateEvent
  <2>3. CreateEvent(g).type = "Create"
    BY DEF CreateEvent
  <2>4. QED
    BY <1>1, <2>1, <2>2, <2>3
<1>2. CASE BecomeReady(g)
  <2>1. QueuesOK' /\ UNCHANGED <<batch, status, wpc, final, fresh, todo>>
    BY <1>2 DEF BecomeReady, FirstCommand, schedVars
  <2>2. Send(ReadyEvent(g)) /\ Tells(ReadyEvent(g)) /\ Real(g) # "none"
    BY <1>2 DEF BecomeReady, FirstCommand, Real, After, About, Removes, ReadyEvent
  <2>3. g \in Registered /\ UNCHANGED paused
    BY <1>2 DEF BecomeReady, FirstCommand
  <2>4. QED
    BY <2>1, <2>2, <2>3 DEF ReadyEvent
<1>3. CASE BecomeIdle(g)
  <2>1. QueuesOK' /\ UNCHANGED <<batch, status, wpc, final, fresh, todo>>
    BY <1>3 DEF BecomeIdle, LastCommand, schedVars
  <2>2. Send(IdleEvent(g)) /\ Tells(IdleEvent(g)) /\ Real(g) # "none"
    BY <1>3 DEF BecomeIdle, LastCommand, Real, After, About, Removes, IdleEvent
  <2>3. (g \in Registered' => g \in Registered) /\ UNCHANGED paused
    BY <1>3 DEF BecomeIdle, LastCommand
  <2>4. QED
    BY <2>1, <2>2, <2>3 DEF IdleEvent
<1>4. CASE Configure(g)
  <2>1. QueuesOK' /\ UNCHANGED <<batch, status, wpc, final, fresh, todo, phase, paused>>
    BY <1>4 DEF Configure, schedVars, queueVars
  <2>2. Send(CreateEvent(g)) /\ Tells(CreateEvent(g))
    BY <1>4 DEF Configure, queueVars, Real, After, About, Removes, CreateEvent
  <2>3. QED
    BY <2>1, <2>2 DEF CreateEvent
<1>5. CASE Del(g)
  <2>1. QueuesOK' /\ UNCHANGED <<evq, batch, status, wpc, final, fresh, todo>>
    BY <1>5 DEF Del, DelQueue, schedVars
  <2>2. \A h \in Handles : Real(h)' = Real(h)
    BY <1>5 DEF Del, DelQueue, Real
  <2>3. QED
    BY <1>5, <2>1, <2>2
<1>6. CASE Destroy(g)
  <2>1. QueuesOK' /\ UNCHANGED <<batch, status, wpc, final, fresh, todo, paused>>
    BY <1>6 DEF Destroy, DestroyQueue, schedVars
  <2>2. Send(DestroyEvent(g)) /\ Tells(DestroyEvent(g))
    BY <1>6 DEF Destroy, DestroyQueue, Real, After, About, Removes, DestroyEvent
  <2>3. g \notin Registered'
    BY <1>6 DEF Destroy, DestroyQueue
  <2>4. QED
    BY <2>1, <2>2, <2>3 DEF DestroyEvent
<1>7. QED
  BY <1>1, <1>2, <1>3, <1>4, <1>5, <1>6 DEF Queue

\* A step of one queue leaves the others alone.
LEMMA OthersLeft ==
  ASSUME QueuesOK, NEW g \in Handles, Queue(g), NEW h \in Handles, h # g
  PROVE  UNCHANGED <<phase[h], h \in paused>>
BY DEF QueuesOK, Queue, Create, CreateQueue, BecomeReady, FirstCommand, BecomeIdle, LastCommand,
  Configure, Del, DelQueue, Destroy, DestroyQueue, queueVars

\* So the steps of the queues keep the invariant.
LEMMA QueueKeepsView ==
  ASSUME ViewInv, NEW g \in Handles, Queue(g)
  PROVE  ViewInv'
<1>1. /\ SchedInv /\ QueuesOK /\ ThreadOK /\ DevicesRight(status)
      /\ \A h \in Handles : Traced(h) /\ InSync(h)
  BY DEF ViewInv
<1>2. SchedInv'
  BY <1>1, QueueKeepsInv
<1>3. QueuesOK' /\ UNCHANGED <<batch, status, wpc, final, fresh, todo>>
  BY <1>1, QueueTells
<1>4. ThreadOK' /\ DevicesRight(status')
  BY <1>1, <1>3 DEF ThreadOK, BatchDone
<1>5. CASE Del(g) /\ UNCHANGED evq /\ \A h \in Handles : Real(h)' = Real(h)
  <2>1. ASSUME NEW h \in Handles PROVE Traced(h)'
    BY <1>1, <1>3, <1>5, TracedSame
  <2>2. ASSUME NEW h \in Handles PROVE InSync(h)'
    <3>1. h # g => UNCHANGED <<phase[h], h \in paused>>
      BY <1>1, OthersLeft
    <3>2. h = g => h \notin Registered'
      BY <1>1, <1>5 DEF Del, DelQueue, Registered, QueuesOK
    <3>3. QED
      BY <1>1, <1>3, <1>5, <3>1, <3>2 DEF InSync, BatchDone, DestroySent, Registered
  <2>3. QED
    BY <1>2, <1>3, <1>4, <2>1, <2>2 DEF ViewInv
<1>6. ASSUME NEW e \in {CreateEvent(g), DestroyEvent(g), ReadyEvent(g), IdleEvent(g)},
             /\ Send(e)
             /\ \A h \in Handles : Real(h)' = After(Real(h), e, h)
             /\ e.type \in {"Ready", "Idle"} => Real(g) # "none"
             /\ \/ Create(g)
                \/ (g \in Registered' => g \in Registered) /\ UNCHANGED paused
      PROVE  ViewInv'
  <2>1. e.h = g
    BY <1>6 DEF CreateEvent, DestroyEvent, ReadyEvent, IdleEvent
  <2>2. ASSUME NEW h \in Handles PROVE Traced(h)'
    BY <1>1, <1>3, <1>6, <2>1, TracedSend
  <2>3. ASSUME NEW h \in Handles PROVE InSync(h)'
    <3>1. CASE h # g
      <4>1. (h \in Registered' => h \in Registered) /\ UNCHANGED (h \in paused)
        BY <1>1, <3>1, OthersLeft DEF Registered
      <4>2. QED
        BY <1>1, <1>3, <1>6, <4>1, InSyncSend
    <3>2. CASE h = g /\ Create(g)
      <4>1. phase[h] = "none"
        BY <3>2 DEF Create, CreateQueue
      <4>2. BatchDone => h \notin status.known \/ DestroySent(h)
        BY <4>1, GoneIsTold
      <4>3. CASE ~BatchDone
        BY <1>3, <4>3 DEF InSync, BatchDone
      <4>4. CASE h \notin status.known \/ DestroySent(h)
        BY <1>1, <1>3, <1>6, <4>4, InSyncSend
      <4>5. QED
        BY <4>2, <4>3, <4>4
    <3>3. CASE h = g /\ ~Create(g)
      BY <1>1, <1>3, <1>6, <3>3, InSyncSend
    <3>4. QED
      BY <3>1, <3>2, <3>3
  <2>4. QED
    BY <1>2, <1>3, <1>4, <2>2, <2>3 DEF ViewInv
<1>7. QED
  BY <1>1, <1>5, <1>6, QueueTells

\* A step of the thread that leaves the queues and the events alone, and
\* changes neither known nor ready nor device, keeps the trace of each queue.
LEMMA TracedStatus ==
  ASSUME NEW h, Traced(h), UNCHANGED <<evq, batch, phase, busy>>,
         UNCHANGED <<status.known, status.ready>>
  PROVE  Traced(h)'
<1>1. ViewOf(status', h) = ViewOf(status, h) /\ Real(h)' = Real(h)
  BY DEF ViewOf, Real
<1>2. QED
  BY <1>1, TracedSame

\* The thread takes the events.
LEMMA TakeEventsKeepsView ==
  ASSUME ViewInv, TakeEvents
  PROVE  ViewInv'
<1>1. /\ SchedInv /\ QueuesOK /\ ThreadOK /\ DevicesRight(status)
      /\ \A h \in Handles : Traced(h) /\ InSync(h)
  BY DEF ViewInv
<1>2. /\ batch' = evq /\ evq' = <<>> /\ wpc = "wait" /\ wpc' = "batch"
      /\ UNCHANGED <<status, final, phase, busy, paused>>
  BY DEF TakeEvents, queueVars
<1>3. SchedInv'
  BY <1>1, WorkerKeepsInv DEF Worker
<1>4. QueuesOK' /\ ThreadOK' /\ DevicesRight(status')
  BY <1>1, <1>2 DEF QueuesOK, ThreadOK, BatchDone, Registered
<1>5. ASSUME NEW h \in Handles PROVE Traced(h)'
  <2>1. PICK V, W : TracedBy(V, W, h)
    BY <1>1 DEF Traced
  <2>2. batch = <<>> /\ Len(batch) = 0 /\ V[0] = W[0]
    BY <1>1, <1>2, <2>1 DEF ThreadOK, BatchDone, TracedBy
  <2>3. PICK S : evq \in Seq(S)
    BY <1>1 DEF SchedInv, Queued
  <2>4. PICK v \in Views : v = W[Len(evq)]
    BY <2>1, <2>3, LenProperties DEF TracedBy, Follows
  <2> DEFINE U == [i \in 0..0 |-> v]
  <2>5. Follows(U, <<>>, h) /\ Announced(U, <<>>, h) /\ U[0] = W[Len(evq)]
    BY <2>4, FollowsNothing
  <2> HIDE DEF U
  <2>6. Len(<<>>) = 0 /\ Real(h)' = Real(h)
    BY <1>2 DEF Real
  <2>7. TracedBy(W, U, h)'
    <3>1. /\ Follows(W, batch', h) /\ Announced(W, batch', h)
          /\ Follows(U, evq', h) /\ Announced(U, evq', h)
      BY <1>2, <2>1, <2>5 DEF TracedBy
    <3>2. /\ W[0] = ViewOf(status', h) /\ W[Len(batch')] = U[0]
          /\ U[Len(evq')] = Real(h)'
      BY <1>2, <2>1, <2>2, <2>5, <2>6 DEF TracedBy
    <3>3. QED
      BY <3>1, <3>2 DEF TracedBy, Follows, Announced
  <2>8. QED
    BY <2>7 DEF Traced
<1>6. ASSUME NEW h \in Handles PROVE InSync(h)'
  BY <1>1, <1>2 DEF InSync, BatchDone, ThreadOK
<1>7. QED
  BY <1>3, <1>4, <1>5, <1>6 DEF ViewInv

\* It handles one of them.
LEMMA HandleEventKeepsView ==
  ASSUME ViewInv, HandleEvent
  PROVE  ViewInv'
<1> DEFINE e == Head(batch)
           st == UpdateStatus(status, e)
<1>1. /\ SchedInv /\ QueuesOK /\ ThreadOK /\ DevicesRight(status) /\ GoodStatus(status)
      /\ \A h \in Handles : Traced(h) /\ InSync(h)
  BY DEF ViewInv, SchedInv
<1>2. /\ batch # <<>> /\ batch' = Tail(batch) /\ wpc = "batch"
      /\ UNCHANGED <<evq, final, phase, busy, paused>>
      /\ \/ status' = status /\ wpc' = wpc /\ e.type \in {"Terminate", "Hint"}
         \/ Reschedule(st)
         \/ status' = st /\ wpc' = wpc
  BY DEF HandleEvent, queueVars
<1>3. SchedInv'
  BY <1>1, WorkerKeepsInv DEF Worker
<1>4. PICK S : Queued(S)
  BY <1>1 DEF SchedInv
<1>5. HandledEvent(e) /\ batch \in Seq(S)
  BY <1>2, <1>4 DEF Queued
<1>6. GoodStatus(st)
  BY <1>1, <1>5, UpdateStatusGood
<1> HIDE DEF e, st
<1>7. ~BatchDone' /\ ThreadOK'
  <2>1. wpc' = "batch" \/ wpc' = "exec"
    BY <1>1, <1>2, <1>6, RescheduleKeeps
  <2>2. QED
    BY <1>1, <1>2, <2>1 DEF ThreadOK, BatchDone
<1>8. QueuesOK'
  BY <1>1, <1>2 DEF QueuesOK, Registered
<1>9. /\ status'.known = st.known /\ status'.ready = st.ready /\ status'.device = st.device
  <2>1. e.type \in {"Terminate", "Hint"} => st = status
    BY DEF UpdateStatus, st
  <2>2. QED
    BY <1>2, <1>6, <2>1, RescheduleKeeps
<1>10. ASSUME NEW h \in Handles
       PROVE  Traced(h)' /\ (e.type \in {"Ready", "Idle"} /\ e.h = h => h \in status.known)
  <2>1. PICK V, W : TracedBy(V, W, h)
    BY <1>1 DEF Traced
  <2>2. PICK U : /\ Follows(U, Tail(batch), h)
                 /\ U[0] = After(V[0], e, h) /\ U[Len(Tail(batch))] = V[Len(batch)]
                 /\ Announced(V, batch, h) => Announced(U, Tail(batch), h)
    <3>1. Follows(V, batch, h)
      BY <2>1 DEF TracedBy
    <3>2. QED
      BY <1>2, <1>5, <3>1, FollowsTail DEF e
  <2>3. ViewOf(st, h) = After(V[0], e, h)
    BY <1>1, <1>5, <2>1, UpdateView DEF TracedBy, st
  <2>4. ViewOf(status', h) = ViewOf(st, h) /\ Real(h)' = Real(h)
    BY <1>2, <1>9 DEF ViewOf, Real
  <2>5. TracedBy(U, W, h)'
    BY <1>2, <2>1, <2>2, <2>3, <2>4 DEF TracedBy, Follows, Announced
  <2>6. ASSUME e.type \in {"Ready", "Idle"}, e.h = h PROVE h \in status.known
    <3>1. 1 \in 1..Len(batch) /\ batch[1] = e
      BY <1>2, <1>5, LenProperties, EmptySeq, HeadTailProperties DEF e
    <3>2. V[0] # "none"
      BY <2>1, <2>6, <3>1 DEF TracedBy, Announced
    <3>3. QED
      BY <2>1, <3>2 DEF TracedBy, ViewOf
  <2>7. QED
    BY <2>5, <2>6 DEF Traced
<1>11. DevicesRight(status')
  <2>1. e.type \in {"Ready", "Idle"} => e.h \in Handles
    BY <1>5 DEF HandledEvent
  <2>2. DevicesRight(st)
    BY <1>1, <1>5, <1>10, <2>1, UpdateDevices DEF st
  <2>3. QED
    BY <1>9, <2>2 DEF DevicesRight
<1>12. QED
  BY <1>3, <1>7, <1>8, <1>10, <1>11 DEF ViewInv, InSync

\* After the batch it asks the policy: every known queue is in a process that
\* ExecuteOperations comes to.
LEMMA FinishBatchKeepsView ==
  ASSUME ViewInv, FinishBatch
  PROVE  ViewInv'
<1>1. /\ SchedInv /\ QueuesOK /\ ThreadOK /\ DevicesRight(status) /\ GoodStatus(status)
      /\ \A h \in Handles : Traced(h) /\ InSync(h)
  BY DEF ViewInv, SchedInv
<1>2. /\ batch = <<>> /\ final' = TRUE /\ Reschedule(status)
      /\ UNCHANGED <<evq, batch, phase, busy, paused>>
  BY DEF FinishBatch, queueVars
<1>3. SchedInv'
  BY <1>1, WorkerKeepsInv DEF Worker
<1>4. /\ UNCHANGED <<status.known, status.ready, status.device>> /\ wpc' = "exec"
      /\ todo' = {p \in status'.procs : HasXQueues(status', p)}
  BY <1>1, <1>2, RescheduleKeeps
<1>5. QueuesOK' /\ ThreadOK' /\ DevicesRight(status')
  BY <1>1, <1>2, <1>4 DEF QueuesOK, ThreadOK, BatchDone, Registered, DevicesRight
<1>6. ASSUME NEW h \in Handles PROVE Traced(h)'
  BY <1>1, <1>2, <1>4, TracedStatus
<1>7. ASSUME NEW h \in Handles PROVE InSync(h)'
  <2>1. Consistent(status') /\ PidOf[h] \in Pids
    BY <1>3, StatusAssumption DEF SchedInv, GoodStatus
  <2>2. h \in status'.known => PidOf[h] \in todo'
    BY <1>4, <2>1 DEF Consistent, HasXQueues
  <2>3. QED
    BY <1>4, <2>2 DEF InSync
<1>8. QED
  BY <1>3, <1>5, <1>6, <1>7 DEF ViewInv

\* The queues of a process are suspended and resumed (ExecuteOperations and
\* SchedExecutor): now they are as the status says.
LEMMA ExecuteKeepsView ==
  ASSUME ViewInv, NEW p \in Pids, ExecuteOperation(p)
  PROVE  ViewInv'
<1>1. /\ SchedInv /\ QueuesOK /\ ThreadOK /\ DevicesRight(status)
      /\ Consistent(status) /\ \A h \in Handles : Traced(h) /\ InSync(h)
  BY DEF ViewInv, SchedInv, GoodStatus
<1>2. /\ paused' = Carried(paused, status.running[p], status.stopped[p])
      /\ todo' = todo \ {p} /\ UNCHANGED <<evq, batch, status, wpc, final, phase, busy, fresh>>
  BY DEF ExecuteOperation
<1>3. SchedInv'
  BY <1>1, WorkerKeepsInv DEF Worker
<1>4. QueuesOK' /\ ThreadOK' /\ DevicesRight(status')
  BY <1>1, <1>2 DEF QueuesOK, ThreadOK, BatchDone, Registered, DevicesRight, Carried
<1>5. ASSUME NEW h \in Handles PROVE Traced(h)'
  BY <1>1, <1>2, TracedStatus
<1>6. ASSUME NEW h \in Handles PROVE InSync(h)'
  <2>1. Registered' = Registered /\ DestroySent(h)' = DestroySent(h)
    BY <1>2 DEF Registered, DestroySent
  <2>2. CASE PidOf[h] = p
    <3>1. h \in status.known \cap Registered => (h \in paused' <=> h \in status.suspended)
      BY <1>1, <1>2, <2>2 DEF Carried, Consistent
    <3>2. QED
      BY <1>2, <2>1, <3>1 DEF InSync
  <2>3. CASE PidOf[h] # p
    <3>1. h \in paused' <=> h \in paused
      BY <1>1, <1>2, <2>3 DEF Carried, Consistent
    <3>2. QED
      BY <1>1, <1>2, <2>1, <2>3, <3>1 DEF InSync, BatchDone
  <2>4. QED
    BY <2>2, <2>3
<1>7. QED
  BY <1>3, <1>4, <1>5, <1>6 DEF ViewInv

\* The other steps of the thread look at no queue: it finds timers expired, or
\* has executed all operations.
LEMMA WorkerKeepsView ==
  ASSUME ViewInv, Worker
  PROVE  ViewInv'
<1>1. /\ SchedInv /\ QueuesOK /\ ThreadOK /\ DevicesRight(status)
      /\ \A h \in Handles : Traced(h) /\ InSync(h)
  BY DEF ViewInv
<1>2. ASSUME TakeTimers \/ EndReschedule PROVE ViewInv'
  <2>1. UNCHANGED <<evq, batch, status, todo, fresh, phase, busy, paused>>
    BY <1>2 DEF TakeTimers, EndReschedule, queueVars
  <2>2. SchedInv'
    BY <1>1, WorkerKeepsInv
  <2>3. QueuesOK' /\ DevicesRight(status')
    BY <1>1, <2>1 DEF QueuesOK, Registered, DevicesRight
  <2>4. ThreadOK' /\ (BatchDone' => BatchDone /\ (wpc = "exec" => todo = {}))
    <3>1. CASE TakeTimers
      BY <1>1, <2>1, <3>1 DEF TakeTimers, ThreadOK, BatchDone
    <3>2. CASE EndReschedule
      <4>1. /\ wpc = "exec" /\ todo = {} /\ final' = FALSE
            /\ IF final THEN wpc' \in {"wait", "off"} ELSE wpc' = "batch"
        BY <1>1, <3>2 DEF EndReschedule, ThreadOK
      <4>2. QED
        BY <1>1, <2>1, <4>1 DEF ThreadOK, BatchDone
    <3>3. QED
      BY <1>2, <3>1, <3>2
  <2>5. ASSUME NEW h \in Handles PROVE Traced(h)' /\ InSync(h)'
    <3>1. Traced(h)'
      BY <1>1, <2>1, TracedStatus
    <3>2. InSync(h)'
      BY <1>1, <2>1, <2>4 DEF InSync, Registered, DestroySent
    <3>3. QED
      BY <3>1, <3>2
  <2>6. QED
    BY <2>2, <2>3, <2>4, <2>5 DEF ViewInv
<1>3. QED
  BY <1>2, TakeEventsKeepsView, HandleEventKeepsView, FinishBatchKeepsView, ExecuteKeepsView
  DEF Worker

\* An event that is about no queue changes nothing of what is said.
LEMMA OtherEventKeepsView ==
  ASSUME ViewInv, NEW e, e.type \in {"Terminate", "Hint"}, Send(e),
         UNCHANGED <<batch, status, wpc, final, fresh, todo, phase, busy, paused>>
  PROVE  ViewInv'
<1>1. /\ SchedInv /\ QueuesOK /\ ThreadOK /\ DevicesRight(status)
      /\ \A h \in Handles : Traced(h) /\ InSync(h)
  BY DEF ViewInv
<1>2. SchedInv'
  BY <1>1, SendKeepsInv DEF HandledEvent
<1>3. QueuesOK' /\ ThreadOK' /\ DevicesRight(status')
  BY <1>1 DEF QueuesOK, ThreadOK, BatchDone, Registered, DevicesRight
<1>4. ASSUME NEW h \in Handles PROVE Traced(h)'
  <2>1. Real(h)' = Real(h) /\ Real(h) = After(Real(h), e, h)
    BY DEF Real, After, About, Removes
  <2>2. QED
    BY <1>1, <2>1, TracedSend
<1>5. ASSUME NEW h \in Handles PROVE InSync(h)'
  <2>1. (h \in Registered' => h \in Registered) /\ UNCHANGED (h \in paused)
    BY DEF Registered
  <2>2. QED
    BY <1>1, <2>1, InSyncSend
<1>6. QED
  BY <1>2, <1>3, <1>4, <1>5 DEF ViewInv

\* Time changes nothing either.
LEMMA TickKeepsView ==
  ASSUME ViewInv, Tick
  PROVE  ViewInv'
<1>1. /\ SchedInv /\ QueuesOK /\ ThreadOK /\ DevicesRight(status) /\ status \in Status
      /\ \A h \in Handles : Traced(h) /\ InSync(h)
  BY DEF ViewInv, SchedInv, GoodStatus
<1>2. /\ evq' = AgeEvents(evq) /\ batch' = AgeEvents(batch) /\ status' = AgeStatus(status)
      /\ UNCHANGED <<wpc, todo, final, fresh, phase, busy, paused>>
  BY DEF Tick, queueVars
<1>3. SchedInv'
  BY <1>1, TickKeepsInv
<1>4. UNCHANGED <<status.known, status.ready, status.device, status.suspended>>
  BY <1>1, <1>2 DEF AgeStatus, Status
<1>5. PICK S : evq \in Seq(S) /\ batch \in Seq(S) /\ \A e \in S : HandledEvent(e)
  BY <1>1 DEF SchedInv, Queued
<1>6. ASSUME NEW h \in Handles PROVE Traced(h)'
  <2>1. PICK V, W : TracedBy(V, W, h)
    BY <1>1 DEF Traced
  <2>2. Follows(V, batch, h) /\ Announced(V, batch, h)
          /\ Follows(W, evq, h) /\ Announced(W, evq, h)
    BY <2>1 DEF TracedBy
  <2>3. Follows(V, batch', h) /\ Announced(V, batch', h) /\ Len(batch') = Len(batch)
    BY <1>2, <1>5, <2>2, FollowsAge
  <2>4. Follows(W, evq', h) /\ Announced(W, evq', h) /\ Len(evq') = Len(evq)
    BY <1>2, <1>5, <2>2, FollowsAge
  <2>5. ViewOf(status', h) = ViewOf(status, h) /\ Real(h)' = Real(h)
    BY <1>2, <1>4 DEF ViewOf, Real
  <2>6. TracedBy(V, W, h)'
    BY <2>1, <2>3, <2>4, <2>5 DEF TracedBy, Follows, Announced
  <2>7. QED
    BY <2>6 DEF Traced
<1>7. ASSUME NEW h \in Handles PROVE InSync(h)'
  <2>1. ASSUME NEW i \in 1..Len(evq) PROVE Removes(evq'[i], h) <=> Removes(evq[i], h)
    <3>1. evq[i] \in S /\ evq'[i] = AgeEvent(evq[i])
      BY <1>2, <1>5, LenProperties DEF AgeEvents
    <3>2. QED
      BY <1>5, <3>1 DEF HandledEvent, AgeEvent, Removes
  <2>2. DestroySent(h)' <=> DestroySent(h)
    <3>1. Len(evq') = Len(evq)
      BY <1>2, <1>5, LenProperties DEF AgeEvents
    <3>2. QED
      BY <2>1, <3>1 DEF DestroySent
  <2>3. QED
    BY <1>1, <1>2, <1>4, <2>2 DEF InSync, BatchDone, Registered
<1>8. QueuesOK' /\ ThreadOK' /\ DevicesRight(status')
  <2>1. batch = <<>> => batch' = <<>>
    BY <1>2, <1>5 DEF AgeEvents
  <2>2. QED
    BY <1>1, <1>2, <1>4, <2>1 DEF QueuesOK, ThreadOK, BatchDone, Registered, DevicesRight
<1>9. QED
  BY <1>3, <1>6, <1>7, <1>8 DEF ViewInv

\* A change of policy resumes every queue in the status only; the policy is
\* asked, and the queues resumed, when an event comes.
LEMMA SetPolicyEndKeepsView ==
  ASSUME ViewInv, SetPolicyEnd
  PROVE  ViewInv'
<1>1. /\ SchedInv /\ QueuesOK /\ ThreadOK /\ DevicesRight(status) /\ GoodStatus(status)
      /\ \A h \in Handles : Traced(h) /\ InSync(h)
  BY DEF ViewInv, SchedInv
<1>2. /\ status' = ResumeAll(status, status.known)
      /\ wpc = "off" /\ wpc' = "wait" /\ fresh' = TRUE
      /\ UNCHANGED <<evq, batch, final, phase, busy, paused>>
  BY DEF SetPolicyEnd, queueVars
<1>3. SchedInv' /\ UNCHANGED <<status.known, status.ready, status.device>>
  <2>1. GoodStatus(status')
    BY <1>1, <1>2, ResumeAllGood
  <2>2. UNCHANGED <<status.known, status.ready, status.device>>
    BY <1>1, <1>2 DEF ResumeAll, GoodStatus, Status
  <2>3. QED
    BY <1>1, <1>2, <2>1, <2>2, StatusStepKeepsInv
<1>4. QueuesOK' /\ ThreadOK' /\ DevicesRight(status')
  BY <1>1, <1>2, <1>3 DEF QueuesOK, ThreadOK, BatchDone, Registered, DevicesRight
<1>5. ASSUME NEW h \in Handles PROVE Traced(h)'
  BY <1>1, <1>2, <1>3, TracedStatus
<1>6. QED
  BY <1>2, <1>3, <1>4, <1>5 DEF ViewInv, InSync

\* In the beginning nothing is on its way, and the status is right.
LEMMA ViewInit == Init => ViewInv
<1> SUFFICES ASSUME Init PROVE ViewInv
  OBVIOUS
<1>1. SchedInv
  BY SchedInit
<1>2. /\ evq = <<>> /\ batch = <<>> /\ status = StatusWith(Existing) /\ wpc = "wait"
      /\ final = FALSE /\ fresh = TRUE /\ busy = {} /\ paused = {}
      /\ phase = [h \in Handles |-> IF h \in Existing THEN "idle" ELSE "none"]
  BY DEF Init
<1>3. QueuesOK /\ ThreadOK /\ DevicesRight(status)
  BY <1>2, SchedulerAssumption
  DEF QueuesOK, ThreadOK, BatchDone, Registered, DevicesRight, StatusWith
<1>4. ASSUME NEW h \in Handles PROVE Traced(h) /\ InSync(h)
  <2>1. ViewOf(status, h) = Real(h) /\ Real(h) \in Views
    BY <1>2 DEF ViewOf, Real, StatusWith, Views
  <2>2. PICK V : V = [i \in 0..0 |-> Real(h)]
    OBVIOUS
  <2>3. Follows(V, <<>>, h) /\ Announced(V, <<>>, h) /\ V[0] = Real(h) /\ Len(<<>>) = 0
    BY <2>1, <2>2, FollowsNothing
  <2>4. TracedBy(V, V, h)
    BY <1>2, <2>1, <2>3 DEF TracedBy
  <2>5. QED
    BY <1>2, <2>4 DEF Traced, InSync
<1>5. QED
  BY <1>1, <1>3, <1>4 DEF ViewInv

\* Every step keeps the invariant.
LEMMA ViewNext == ViewInv /\ [Next]_vars => ViewInv'
<1> SUFFICES ASSUME ViewInv, [Next]_vars PROVE ViewInv'
  OBVIOUS
<1>1. CASE \E h \in Handles : Queue(h)
  BY <1>1, QueueKeepsView
<1>2. CASE \E e \in HintsOf[pol.type] : GiveHint(e)
  <2>1. PICK e \in HintsOf[pol.type] : GiveHint(e)
    BY <1>2
  <2> DEFINE x == [type |-> "Hint", hint |-> e]
  <2>2. /\ x.type = "Hint" /\ Send(x)
        /\ UNCHANGED <<batch, status, wpc, final, fresh, todo, phase, busy, paused>>
    BY <2>1 DEF GiveHint, schedVars, queueVars
  <2> HIDE DEF x
  <2>3. QED
    BY <2>2, OtherEventKeepsView
<1>3. CASE Worker
  BY <1>3, WorkerKeepsView
<1>4. CASE \E t \in NextPolicies : SetPolicy(t)
  <2>1. /\ TerminateEvent.type = "Terminate" /\ Send(TerminateEvent)
        /\ UNCHANGED <<batch, status, wpc, final, fresh, todo, phase, busy, paused>>
    BY <1>4 DEF SetPolicy, schedVars, queueVars, TerminateEvent
  <2>2. QED
    BY <2>1, OtherEventKeepsView
<1>5. CASE SetPolicyEnd
  BY <1>5, SetPolicyEndKeepsView
<1>6. CASE Tick
  BY <1>6, TickKeepsView
<1>7. CASE UNCHANGED vars
  <2>1. UNCHANGED <<evq, batch, status, wpc, final, fresh, todo, phase, busy, paused>>
    BY <1>7 DEF vars, schedVars, queueVars
  <2>2. SchedInv'
    BY <2>1, StatusStepKeepsInv DEF ViewInv, SchedInv
  <2>3. \A h \in Handles : Traced(h)'
    BY <2>1, TracedStatus DEF ViewInv
  <2>4. QED
    BY <2>1, <2>2, <2>3 DEF ViewInv, QueuesOK, ThreadOK, BatchDone, Registered, DevicesRight,
      InSync, DestroySent
<1>8. QED
  BY <1>1, <1>2, <1>3, <1>4, <1>5, <1>6, <1>7 DEF Next

\* The invariant says it when the thread sleeps.
LEMMA ViewAccurateNow == ViewInv => ViewAccurate
<1> SUFFICES ASSUME ViewInv, Quiet PROVE ViewAccurate
  BY DEF ViewAccurate
<1>1. /\ wpc = "wait" /\ evq = <<>> /\ ~fresh /\ batch = <<>> /\ Len(<<>>) = 0
      /\ BatchDone /\ Consistent(status) /\ status \in Status
  BY DEF Quiet, ViewInv, ThreadOK, BatchDone, SchedInv, GoodStatus
<1>2. ASSUME NEW h \in Handles PROVE ViewOf(status, h) = Real(h)
  BY <1>1 DEF ViewInv, Traced, TracedBy
<1>3. busy \subseteq {h \in Handles : phase[h] = "closing"} /\ paused \subseteq Registered
  BY DEF ViewInv, QueuesOK
<1>4. status.known = {h \in Handles : phase[h] # "none"}
  BY <1>1, <1>2 DEF ViewOf, Real, Status
<1>5. status.ready = ReallyReady \cup busy
  BY <1>1, <1>2, <1>3 DEF ViewOf, Real, Status, Consistent, ReallyReady
<1>6. \A h \in status.known : status.device[h] = DeviceOf[h]
  BY DEF ViewInv, DevicesRight
<1>7. ASSUME NEW h \in Registered PROVE h \in paused <=> h \in status.suspended
  <2>1. h \in Handles /\ h \in status.known
    BY <1>4 DEF Registered
  <2>2. ~DestroySent(h)
    BY <1>1 DEF DestroySent
  <2>3. QED
    BY <1>1, <2>1, <2>2 DEF ViewInv, InSync
<1>8. QED
  BY <1>3, <1>4, <1>5, <1>6, <1>7 DEF ViewAccurate

\* With any policies and changes of policy, any queues that are created,
\* configured and destroyed while their events are on the way, and operations
\* executed late: when the scheduler thread sleeps, its status is what the
\* queues are, and they are suspended as it says.
THEOREM ViewStaysAccurate == Spec => []ViewAccurate
BY ViewAccurateNow, ViewInit, ViewNext, PTL DEF Spec

=============================================================================

----------------------------- MODULE Policies -----------------------------
(***************************************************************************)
(* The scheduling policies (sched/src/policy).  A policy's state is a      *)
(* record with the type of the policy in the field type; Sched gives the   *)
(* set of outcomes a policy's Sched may have on a status, RecvHint the     *)
(* state after a hint.  An outcome holds the new state of the policy, the  *)
(* handles it suspends, those it resumes afterwards, and the timers it     *)
(* adds.  There are several outcomes where the code takes the first of     *)
(* several equal candidates in the order of an unordered_map or after an   *)
(* unstable sort.                                                          *)
(*                                                                         *)
(* Time is relative: a point in the past is the time since then (age), a   *)
(* point in the future the time until then (rest), counted in the ticks of *)
(* the clock, and AgePolicy is the passing of one tick.                    *)
(***************************************************************************)
EXTENDS SchedStatus, Sequences, TLC, FiniteSetsExt

CONSTANTS
  Nice,         \* CHPF: what /proc/<pid>/sched says about a process
  Timeslice,    \* TIMESLICE_DEFAULT, the time slice of CFS, the tick of MLFQ
  SliceOf,      \* MLFQ: get_time_slice, for each priority level
  Recovery,     \* MLFQ: recovery_threshold_
  Rate          \* CFS: 1024 / weight for each priority, scaled to integers

ASSUME PolicyAssumption ==
  /\ Handles \subseteq Nat \ {0} /\ IsFiniteSet(Handles)
  /\ Timeslice \in Nat \ {0} /\ Recovery \in Nat
  /\ Nice \in [Pids -> Int] /\ SliceOf \in [0..3 -> Nat \ {0}]
  /\ 0 \in DOMAIN Rate /\ \A v \in DOMAIN Rate : Rate[v] \in Nat

PolicyType == {"HPF", "HHPF", "UP", "PUP", "KEDF", "LAX", "AWF", "CHPF",
               "CFS", "MLFQ", "SLO", "IAH"}

None == 0                  \* no handle
PriorityMin == -255
PriorityDefault == 0
PriorityMax == 255
UtilMin == 0
UtilMax == 100
TimesliceMin == 1           \* less than a tick of the clock
TimesliceMax == 20 * Timeslice
NoEntry == -1              \* in place of a utilization or a k-deadline
Forever == 1000000         \* time_point::max()

Outcome(pol, stop, run, timers) ==
  [pol |-> pol, stop |-> stop, run |-> run, timers |-> timers]

ReadyQueues(st) == st.known \cap st.ready
OnDevice(st, d) == {h \in ReadyQueues(st) : st.device[h] = d}
Rest(t, used) == IF used < t THEN t - used ELSE 0

\* The elements of S for which key is least.
Least(S, key(_)) == {x \in S : \A y \in S : key(x) <= key(y)}

\* One ready queue for each device with ready queues, out of the best ones.
BusyDevices(st) == {st.device[h] : h \in ReadyQueues(st)}
BestPerDevice(st, best) ==
  {f \in [BusyDevices(st) -> ReadyQueues(st)] : \A d \in DOMAIN f : f[d] \in best[d]}

-----------------------------------------------------------------------------
(* The policies ordered by priority *)

\* Faulty variant: the highest priority of all queues, ready or not.
ContendersAny(st) == st.known

\* A queue is suspended if a ready queue it competes with, of its device or
\* of any, has a higher priority.
Contenders(st) == ReadyQueues(st)
Outranked(st, h, prio, perDevice) ==
  \E g \in Contenders(st) : /\ perDevice => st.device[g] = st.device[h]
                            /\ prio[g] > prio[h]
ByPriority(pol, st, prio, perDevice) ==
  LET S == {h \in st.known : Outranked(st, h, prio, perDevice)}
  IN {Outcome(pol, S, st.known \ S, {})}

SchedHPF(pol, st) == ByPriority(pol, st, pol.prio, TRUE)
SchedHHPF(pol, st) == ByPriority(pol, st, pol.prio, FALSE)
\* pid_prio has an entry for the processes of the status only, or zero.
SchedCHPF(pol, st) ==
  LET prio == [h \in Handles |-> IF PidOf[h] \in st.procs THEN Nice[PidOf[h]] ELSE 0]
  IN ByPriority(pol, st, prio, TRUE)

\* LaxityPolicy.  lax holds <<laxity, lax priority, critical priority>> or
\* is empty.
IsLax(pol, st, h) == st.age[h] < pol.lax[h][1]
LaxPrio(pol, st, h) ==
  IF pol.lax[h] = <<>> THEN PriorityDefault
  ELSE IF h \notin st.ready \/ IsLax(pol, st, h) THEN pol.lax[h][2]
  ELSE pol.lax[h][3]
\* Faulty variant: no timer for the end of a laxity.
LaxTimersForgotten(pol, st) == {}
LaxTimers(pol, st) ==
  LET T == {pol.lax[h][1] - st.age[h] :
              h \in {g \in ReadyQueues(st) : pol.lax[g] # <<>> /\ IsLax(pol, st, g)}}
  IN IF T = {} THEN {} ELSE {Min(T)}
SchedLAX(pol, st) ==
  LET prio(h) == LaxPrio(pol, st, h)
      highest == Max({PriorityMin} \cup {prio(h) : h \in ReadyQueues(st)})
      S == {h \in st.known : prio(h) < highest}
  IN {Outcome(pol, S, st.known \ S, LaxTimers(pol, st))}

\* KEarliestDeadlineFirstPolicy.
Deadline(pol, st, h) ==
  IF h \in st.ready /\ pol.deadline[h] # <<>>
  THEN pol.deadline[h][1] - st.age[h] ELSE Forever
\* Faulty variant: one queue too many.
SlotsOneMore(pol, st) == Min({pol.k + 1, Cardinality(st.known)})
Slots(pol, st) == Min({pol.k, Cardinality(st.known)})
SchedKEDF(pol, st) ==
  LET Earliest == {R \in SUBSET st.known :
                     /\ Cardinality(R) = Slots(pol, st)
                     /\ \A r \in R, s \in st.known \ R :
                          Deadline(pol, st, r) <= Deadline(pol, st, s)}
  IN {Outcome(pol, st.known \ R, R, {}) : R \in Earliest}

\* InterferenceAwareHeterogeneousPolicy; intensities in tenths, the sum of
\* two of them is high above kIntensityThreshold = 1.2.
IsHighInterference(pol, d, e) == d = e \/ pol.intensity[d] + pol.intensity[e] > 12
GlobalMaxDevices(pol, st) ==
  LET P == {pol.prio[h] : h \in ReadyQueues(st)}
  IN IF P \subseteq {PriorityMin} THEN {NoDevice}
     ELSE {st.device[h] : h \in {g \in ReadyQueues(st) : pol.prio[g] = Max(P)}}
SchedIAH(pol, st) ==
  LET top == Max({PriorityMin} \cup {pol.prio[h] : h \in ReadyQueues(st)})
      ShouldRun(h, best, global) ==
        /\ best[st.device[h]] = h
        /\ \/ pol.prio[h] >= top
           \/ global # st.device[h] /\ ~IsHighInterference(pol, st.device[h], global)
      R(best, global) == {h \in ReadyQueues(st) : ShouldRun(h, best, global)}
      Best == [d \in BusyDevices(st) |-> Least(OnDevice(st, d), LAMBDA h : -pol.prio[h])]
  IN {Outcome(pol, ReadyQueues(st) \ R(best, global), R(best, global), {}) :
        best \in BestPerDevice(st, Best), global \in GlobalMaxDevices(pol, st)}

\* ActiveWindowFirstPolicy.
SchedAWF(pol, st) ==
  LET A == {h \in st.known : PidOf[h] \in pol.active}
      S == IF A \cap st.ready = {} THEN {} ELSE st.known \ A
  IN {Outcome(pol, S, st.known \ S, {})}

-----------------------------------------------------------------------------
(* UtilizationPartitionPolicy: one XQueue at a time, for its share of the  *)
(* time slice.  utils holds NoEntry for a queue without utilization.       *)

HasUtil(pol) == {h \in Handles : pol.utils[h] # NoEntry}

\* GetBudget; with no utilization at all the code falls back on the default.
GetBudget(pol, h) ==
  LET total == MapThenSumSet(LAMBDA g : pol.utils[g], HasUtil(pol))
  IN IF total = 0 THEN Timeslice ELSE (pol.timeslice * pol.utils[h]) \div total

\* Faulty variant: the timer of the slice is forgotten.
SwitchToNoTimer(pol, st, h) ==
  Outcome([pol EXCEPT !.cur = h, !.rest = GetBudget(pol, h)], st.known \ {h}, {h}, {})

SwitchTo(pol, st, h) ==
  Outcome([pol EXCEPT !.cur = h, !.rest = GetBudget(pol, h)],
          st.known \ {h}, {h}, {GetBudget(pol, h)})

SwitchToAny(pol, st) ==
  LET C == HasUtil(pol) \cap ReadyQueues(st)
  IN IF C = {} THEN {Outcome([pol EXCEPT !.cur = None], st.known, {}, {})}
     ELSE {SwitchTo(pol, st, h) : h \in C}

\* Faulty variant: the next queue, ready or not.
NextInRoundUnready(pol, st) ==
  LET C == HasUtil(pol) \ {pol.cur}
      Later == {h \in C : h > pol.cur}
  IN IF Later # {} THEN Min(Later) ELSE IF C # {} THEN Min(C) ELSE None

\* The next ready queue after the current one, in the order of utils_ and
\* from its start again, or None.
NextInRound(pol, st) ==
  LET C == (HasUtil(pol) \cap ReadyQueues(st)) \ {pol.cur}
      Later == {h \in C : h > pol.cur}
  IN IF Later # {} THEN Min(Later) ELSE IF C # {} THEN Min(C) ELSE None

\* utils_ and cur_running_ without destroyed queues.
DropDestroyed(pol, st) ==
  [pol EXCEPT !.utils = [h \in Handles |-> IF h \in st.known THEN @[h] ELSE NoEntry],
              !.cur = IF @ \in st.known THEN @ ELSE None]

SchedUP(pol0, st) ==
  LET pol == DropDestroyed(pol0, st)
      next == NextInRound(pol, st)
  IN IF HasUtil(pol) = {} THEN {Outcome(pol, {}, {}, {})}
     ELSE IF pol.cur = None THEN SwitchToAny(pol, st)
     ELSE IF pol.rest > 0 /\ pol.cur \in st.ready THEN {Outcome(pol, {}, {}, {})}
     ELSE IF next # None THEN {SwitchTo(pol, st, next)}
     ELSE {Outcome([pol EXCEPT !.cur = None], {}, {}, {})}

-----------------------------------------------------------------------------
(* ProcessUtilizationPartitionPolicy: the processes take turns.            *)

ProcessReady(st, p) == (st.running[p] \cup st.stopped[p]) \cap st.ready # {}

UtilOf(pol, p) == IF pol.utils[p] = NoEntry THEN UtilMax ELSE pol.utils[p]

GetBudgetUs(pol, rq, p) ==
  LET total == MapThenSumSet(LAMBDA i : UtilOf(pol, rq[i].pid), DOMAIN rq)
  IN IF total = 0 THEN 0
     ELSE (pol.timeslice * Len(rq) * UtilOf(pol, p)) \div total

\* A saved budget above the new one decays by a tenth of the difference.
AddBudget(saved, new) ==
  new + IF saved > new THEN new + ((saved - new) * 9) \div 10 ELSE saved

\* The run queue without processes that have no queues, with new ones added
\* at the end in any order.
RunQueues(pol, st) ==
  LET kept == SelectSeq(pol.runQueue, LAMBDA e : e.pid \in st.procs /\ HasXQueues(st, e.pid))
      inQueue == {kept[i].pid : i \in DOMAIN kept}
      new == {p \in st.procs \ inQueue : HasXQueues(st, p)}
      Entry(p) == [pid |-> p, ready |-> ProcessReady(st, p), running |-> FALSE, budget |-> 0]
      orders == {f \in [1..Cardinality(new) -> new] :
                   \A i, j \in 1..Cardinality(new) : f[i] = f[j] => i = j}
  IN {[i \in DOMAIN kept |-> [kept[i] EXCEPT !.ready = ProcessReady(st, kept[i].pid)]]
        \o [i \in 1..Cardinality(new) |-> Entry(f[i])] : f \in orders}

\* The running process at the front goes to the end with what is left of its
\* slice.
Rotate(rq, rest) ==
  Append(Tail(rq), [Head(rq) EXCEPT !.running = FALSE, !.budget = rest])

\* Processes at the front that are not ready go to the end and get a budget.
PassOver(pol, rq) ==
  LET k == Min({i \in DOMAIN rq : rq[i].ready})
      Passed(i) == [rq[i] EXCEPT !.running = FALSE,
                      !.budget = AddBudget(@, GetBudgetUs(pol, rq, rq[i].pid))]
  IN SubSeq(rq, k, Len(rq)) \o [i \in 1..(k - 1) |-> Passed(i)]

SwitchProcess(pol, st, rq) ==
  LET p == rq[1].pid
      slice == AddBudget(rq[1].budget, GetBudgetUs(pol, rq, p))
      others == {rq[i].pid : i \in DOMAIN rq} \ {p}
  IN Outcome([pol EXCEPT !.rest = slice,
                !.runQueue = [i \in DOMAIN rq |-> [rq[i] EXCEPT !.running = i = 1]]],
             UNION {st.running[q] : q \in others}, st.stopped[p], {slice})

SchedPUP(pol0, st) ==
  LET pol == [pol0 EXCEPT !.utils =
                [p \in Pids |-> IF p \in st.procs THEN @[p] ELSE NoEntry]]
      Run(rq) ==
        IF \A i \in DOMAIN rq : ~rq[i].ready
        THEN Outcome([pol EXCEPT !.runQueue = rq], {}, {}, {})
        ELSE IF rq[1].running /\ pol.rest > 0 /\ rq[1].ready
        THEN Outcome([pol EXCEPT !.runQueue = rq], {}, {}, {})
        ELSE SwitchProcess(pol, st,
               PassOver(pol, IF rq[1].running THEN Rotate(rq, pol.rest) ELSE rq))
  IN {Run(rq) : rq \in RunQueues(pol, st)}

-----------------------------------------------------------------------------
(* CompletelyFairSchedulerPolicy: the ready queue with the least virtual   *)
(* runtime of each device.  info is empty for a queue without an entry.    *)

NewCFSNode == [vruntime |-> 0, running |-> FALSE, age |-> 0, rate |-> Rate[PriorityDefault]]

\* Virtual runtimes brought up to date.
Charge(pol, st) ==
  [h \in Handles |->
     IF h \notin st.known \/ pol.info[h] = <<>> \/ ~pol.info[h].running THEN pol.info[h]
     ELSE [pol.info[h] EXCEPT !.vruntime = @ + pol.info[h].age * pol.info[h].rate,
                              !.age = 0]]

\* A ready queue seen for the first time inherits the least virtual runtime
\* of its device.
Inherit(info, st) ==
  [h \in Handles |->
     IF info[h] # <<>> \/ h \notin ReadyQueues(st) THEN info[h]
     ELSE LET V == {info[g].vruntime : g \in {x \in OnDevice(st, st.device[h]) : info[x] # <<>>}}
          IN [NewCFSNode EXCEPT !.vruntime = IF V = {} THEN 0 ELSE Min(V)]]

\* Faulty variant: the most runtime first.
LeastRuntimeReversed(info, S) == Least(S, LAMBDA h : -info[h].vruntime)
LeastRuntime(info, S) == Least(S, LAMBDA h : info[h].vruntime)

\* The entries after the choice: a queue that is not ready gets one too.
Chosen(info, st, run) ==
  [h \in Handles |->
     IF h \notin st.known THEN info[h]
     ELSE [(IF info[h] = <<>> THEN NewCFSNode ELSE info[h]) EXCEPT
             !.running = h \in run, !.age = IF h \in run THEN 0 ELSE @]]

SchedCFS(pol, st) ==
  LET info == Inherit(Charge(pol, st), st)
      Best == [d \in BusyDevices(st) |-> LeastRuntime(info, OnDevice(st, d))]
      Run(best) == {best[d] : d \in DOMAIN best}
  IN {Outcome([pol EXCEPT !.info = Chosen(info, st, Run(best))],
              ReadyQueues(st) \ Run(best), {h \in Run(best) : ~info[h].running},
              IF ReadyQueues(st) = {} THEN {} ELSE {Timeslice}) :
        best \in BestPerDevice(st, Best)}

-----------------------------------------------------------------------------
(* SLOAdaptivePolicy: urgent queues, then latency-sensitive ones, then     *)
(* batch queues by virtual runtime.                                        *)

NewSLOInfo == [prio |-> PriorityDefault, deadline |-> <<>>, util |-> UtilMax,
               vruntime |-> 0, running |-> FALSE, age |-> 0]

IsLatencySensitive(i) == i.deadline # <<>> \/ i.prio > PriorityDefault
GetSlack(st, i, h) == IF i.deadline = <<>> THEN Forever ELSE i.deadline[1] - st.age[h]
IsUrgent(pol, st, i, h) == i.deadline # <<>> /\ GetSlack(st, i, h) <= pol.timeslice
GetUtilization(pol, i, h) ==
  IF pol.procUtils[PidOf[h]] = NoEntry THEN i.util ELSE pol.procUtils[PidOf[h]]

UpdateRuntime(pol, st) ==
  [h \in Handles |->
     IF h \notin st.known \/ ~pol.info[h].running THEN pol.info[h]
     ELSE [pol.info[h] EXCEPT !.age = 0, !.vruntime =
             @ + (pol.info[h].age * UtilMax)
                   \div Max({1, GetUtilization(pol, pol.info[h], h)})]]

PickBestQueue(pol, st, info, S) ==
  LET slack(h) == GetSlack(st, info[h], h)
      lowPrio(h) == -info[h].prio
      urgent == {h \in S : IsUrgent(pol, st, info[h], h)}
      sensitive == {h \in S : IsLatencySensitive(info[h])}
  IN IF urgent # {} THEN Least(Least(urgent, slack), lowPrio)
     ELSE IF sensitive # {} THEN Least(Least(sensitive, lowPrio), slack)
     ELSE Least(S, LAMBDA h : info[h].vruntime)

SchedSLO(pol, st) ==
  LET info == UpdateRuntime(pol, st)
      Best == [d \in BusyDevices(st) |-> PickBestQueue(pol, st, info, OnDevice(st, d))]
      Run(best) == {best[d] : d \in DOMAIN best}
      After(R) == [h \in Handles |-> IF h \notin st.known THEN info[h]
                     ELSE [info[h] EXCEPT !.running = h \in R,
                                          !.age = IF h \in R THEN 0 ELSE @]]
  IN {Outcome([pol EXCEPT !.info = After(Run(best))],
              {h \in ReadyQueues(st) \ Run(best) : info[h].running \/ h \notin st.suspended},
              {h \in Run(best) : ~info[h].running},
              IF ReadyQueues(st) = {} THEN {} ELSE {pol.timeslice}) :
        best \in BestPerDevice(st, Best)}

-----------------------------------------------------------------------------
(* MultiLevelFeedbackQueuePolicy: level 0 is the highest.  A queue that    *)
(* used up its slice goes down a level, one that waited goes up again.     *)

NewMLFQNode == [prio |-> 0, running |-> FALSE, wasReady |-> FALSE, sinceUpdate |-> 0,
                pending |-> 0, sincePending |-> 0, used |-> 0, age |-> 0]
MaxLevel == 3

\* Edge detection, then the pending and the run time.
Account(i, isReady) ==
  LET woken == isReady /\ ~i.wasReady
      j == [i EXCEPT !.wasReady = isReady,
                     !.sincePending = IF woken THEN 0 ELSE @]
  IN IF ~isReady THEN j
     ELSE IF j.running THEN [j EXCEPT !.used = @ + j.age, !.age = 0]
     ELSE [j EXCEPT !.pending = @ + j.sincePending, !.sincePending = 0]

\* effective_time > recovery_threshold_ with the discount factor 1 for a
\* single queue of the level and 0.9 / n for n of them.
Recovers(i, n) ==
  IF n > 1 THEN 10 * n * i.sinceUpdate - 9 * i.pending > 10 * n * Recovery
  ELSE i.sinceUpdate - i.pending > Recovery
Recover(i) == [i EXCEPT !.prio = IF @ > 0 THEN @ - 1 ELSE 0,
                        !.sinceUpdate = 0, !.pending = 0, !.used = 0]

\* Faulty variant: the slice may be used up and more.
ExhaustedTooLate(i) == i.running /\ i.used > SliceOf[i.prio]
Exhausted(i) == i.running /\ i.used >= SliceOf[i.prio]
Demote(i) == [i EXCEPT !.prio = IF @ < MaxLevel THEN @ + 1 ELSE @, !.running = FALSE,
                       !.sinceUpdate = 0, !.used = 0, !.pending = 0, !.sincePending = 0]

SchedMLFQ(pol, st) ==
  LET Node(h) == IF pol.info[h] = <<>> THEN NewMLFQNode ELSE pol.info[h]
      first == [h \in Handles |-> IF h \in st.known
                                  THEN Account(Node(h), h \in st.ready) ELSE pol.info[h]]
      Peers(h) == {g \in OnDevice(st, st.device[h]) : first[g].prio = first[h].prio}
      second == [h \in Handles |->
                   IF h \in ReadyQueues(st) /\ Recovers(first[h], Cardinality(Peers(h)))
                   THEN Recover(first[h]) ELSE first[h]]
      demoted == {h \in ReadyQueues(st) : Exhausted(second[h])}
      info == [h \in Handles |-> IF h \in demoted THEN Demote(second[h]) ELSE second[h]]
      Best == [d \in BusyDevices(st) |->
                Least(Least(OnDevice(st, d), LAMBDA h : info[h].prio), LAMBDA h : -info[h].pending)]
      Run(best) == {best[d] : d \in DOMAIN best}
      Stopped(R) == {h \in ReadyQueues(st) \ R : info[h].running}
      After(R) == [h \in Handles |->
                     IF h \notin st.known THEN info[h]
                     ELSE IF h \in R
                     THEN [info[h] EXCEPT !.running = TRUE, !.age = 0,
                             !.sincePending = IF info[h].running THEN @ ELSE 0]
                     ELSE [info[h] EXCEPT !.running = FALSE,
                             !.sincePending = IF h \in Stopped(R) THEN 0 ELSE @]]
  IN {Outcome([pol EXCEPT !.info = After(Run(best))],
              demoted \cup Stopped(Run(best)), {h \in Run(best) : ~info[h].running},
              IF ReadyQueues(st) = {} THEN {} ELSE {Timeslice}) :
        best \in BestPerDevice(st, Best)}

-----------------------------------------------------------------------------
(* Creating a policy, scheduling, hints and time *)

\* CreatePolicy.
InitPolicy(t) ==
  CASE t \in {"HPF", "HHPF"} -> [type |-> t, prio |-> [h \in Handles |-> PriorityDefault]]
    [] t = "IAH" -> [type |-> t, prio |-> [h \in Handles |-> PriorityDefault],
                     intensity |-> [d \in Devices \cup {NoDevice} |-> 5]]
    [] t = "CHPF" -> [type |-> t]
    [] t = "LAX" -> [type |-> t, lax |-> [h \in Handles |-> <<>>]]
    [] t = "KEDF" -> [type |-> t, deadline |-> [h \in Handles |-> <<>>], k |-> 1]
    [] t = "AWF" -> [type |-> t, active |-> {}, windows |-> <<>>]
    [] t = "UP" -> [type |-> t, utils |-> [h \in Handles |-> NoEntry],
                    timeslice |-> Timeslice, cur |-> None, rest |-> 0]
    [] t = "PUP" -> [type |-> t, utils |-> [p \in Pids |-> NoEntry],
                     timeslice |-> Timeslice, runQueue |-> <<>>, rest |-> 0]
    [] t \in {"CFS", "MLFQ"} -> [type |-> t, info |-> [h \in Handles |-> <<>>]]
    [] t = "SLO" -> [type |-> t, info |-> [h \in Handles |-> NewSLOInfo],
                     procUtils |-> [p \in Pids |-> NoEntry], timeslice |-> Timeslice]

PolicySched(pol, st) ==
  CASE pol.type = "HPF" -> SchedHPF(pol, st) [] pol.type = "HHPF" -> SchedHHPF(pol, st)
    [] pol.type = "UP" -> SchedUP(pol, st)   [] pol.type = "PUP" -> SchedPUP(pol, st)
    [] pol.type = "KEDF" -> SchedKEDF(pol, st) [] pol.type = "LAX" -> SchedLAX(pol, st)
    [] pol.type = "AWF" -> SchedAWF(pol, st) [] pol.type = "CHPF" -> SchedCHPF(pol, st)
    [] pol.type = "CFS" -> SchedCFS(pol, st) [] pol.type = "MLFQ" -> SchedMLFQ(pol, st)
    [] pol.type = "SLO" -> SchedSLO(pol, st) [] pol.type = "IAH" -> SchedIAH(pol, st)

\* A priority or a utilization forced into its range.
Clamp(v, low, high) == Max({low, Min({v, high})})
InRange(v, low, high) == low <= v /\ v <= high

\* The hints there are.
TypedHint(e) ==
  /\ e.kind \in {"Priority", "Laxity", "Deadline", "KDeadline", "Utilization", "Timeslice",
                 "MemoryIntensity", "WindowActive"}
  /\ e.kind \in {"Priority", "Laxity", "Deadline"} => e.h \in Handles
  /\ e.kind = "MemoryIntensity" => e.d \in Devices
  /\ e.kind = "Laxity" => e.lax \in Int /\ e.crit \in Int
  /\ e.kind = "Priority" => e.v \in DOMAIN Rate
  /\ e.kind # "WindowActive" => e.v \in Int
  /\ e.kind = "Timeslice" => e.v \in Nat
  /\ e.kind = "Deadline" => e.v < Forever

\* RecvHint of the policies.  A hint has a kind, a handle h, a process p and
\* a value v, as far as its kind needs them; h is None and p no process where
\* they are not set.  Hints a policy does not know, and values out of range,
\* change nothing.
HintHPF(pol, e) ==
  IF e.kind = "Priority"
  THEN [pol EXCEPT !.prio[e.h] = Clamp(e.v, PriorityMin, PriorityMax)] ELSE pol
HintIAH(pol, e) ==
  IF e.kind = "MemoryIntensity" THEN [pol EXCEPT !.intensity[e.d] = Clamp(e.v, 0, 10)]
  ELSE HintHPF(pol, e)
HintLAX(pol, e) ==
  IF e.kind = "Laxity"
  THEN [pol EXCEPT !.lax[e.h] = <<IF e.v < 0 THEN -1 ELSE e.v, e.lax, e.crit>>] ELSE pol
HintKEDF(pol, e) ==
  CASE e.kind = "Deadline" -> [pol EXCEPT !.deadline[e.h] = <<e.v>>]
    [] e.kind = "KDeadline" /\ e.v >= 1 -> [pol EXCEPT !.k = e.v]
    [] OTHER -> pol

\* The window of display v is one of process p.
Shows(windows, v, p) ==
  [d \in DOMAIN windows \cup {v} |-> IF d = v THEN p ELSE windows[d]]

\* Faulty variant: the former window of the display stays active.
HintAWFKeepsFormer(pol, e) ==
  IF e.kind # "WindowActive" \/ e.p \notin Pids THEN pol
  ELSE [pol EXCEPT !.active = @ \cup {e.p}, !.windows = Shows(@, e.v, e.p)]
HintAWF(pol, e) ==
  IF e.kind # "WindowActive" \/ e.p \notin Pids THEN pol
  ELSE LET former == IF e.v \in DOMAIN pol.windows THEN {pol.windows[e.v]} ELSE {}
       IN [pol EXCEPT !.active = (@ \ former) \cup {e.p},
                      !.windows = Shows(@, e.v, e.p)]

HintUP(pol, e) ==
  CASE e.kind = "Utilization" /\ InRange(e.v, UtilMin, UtilMax) ->
         [pol EXCEPT !.utils[e.h] = e.v]
    [] e.kind = "Timeslice" -> [pol EXCEPT !.timeslice = e.v]
    [] OTHER -> pol
HintPUP(pol, e) ==
  CASE e.kind = "Utilization" /\ e.p \in Pids /\ InRange(e.v, UtilMin, UtilMax) ->
         [pol EXCEPT !.utils[e.p] = e.v]
    [] e.kind = "Timeslice" /\ InRange(e.v, TimesliceMin, TimesliceMax) ->
         [pol EXCEPT !.timeslice = e.v]
    [] OTHER -> pol
HintCFS(pol, e) ==
  IF e.kind # "Priority" THEN pol
  ELSE [pol EXCEPT !.info[e.h] =
          [(IF @ = <<>> THEN NewCFSNode ELSE @) EXCEPT !.rate = Rate[e.v]]]
HintSLO(pol, e) ==
  CASE e.kind = "Priority" ->
         [pol EXCEPT !.info[e.h].prio = Clamp(e.v, PriorityMin, PriorityMax)]
    [] e.kind = "Deadline" ->
         [pol EXCEPT !.info[e.h].deadline = IF e.v = -1 THEN <<>> ELSE <<e.v>>]
    [] e.kind = "Utilization" ->
         LET util == Clamp(e.v, UtilMin, UtilMax) IN
         [pol EXCEPT !.info = [h \in Handles |-> IF h = e.h THEN [@[h] EXCEPT !.util = util]
                                                 ELSE @[h]],
                     !.procUtils = [p \in Pids |-> IF p = e.p THEN util ELSE @[p]]]
    [] e.kind = "Timeslice" /\ InRange(e.v, TimesliceMin, TimesliceMax) ->
         [pol EXCEPT !.timeslice = e.v]
    [] OTHER -> pol

RecvHint(pol, e) ==
  CASE pol.type \in {"HPF", "HHPF"} -> HintHPF(pol, e) [] pol.type = "IAH" -> HintIAH(pol, e)
    [] pol.type = "LAX" -> HintLAX(pol, e) [] pol.type = "KEDF" -> HintKEDF(pol, e)
    [] pol.type = "AWF" -> HintAWF(pol, e) [] pol.type = "UP" -> HintUP(pol, e)
    [] pol.type = "PUP" -> HintPUP(pol, e) [] pol.type = "CFS" -> HintCFS(pol, e)
    [] pol.type = "SLO" -> HintSLO(pol, e) [] pol.type \in {"CHPF", "MLFQ"} -> pol

\* One tick of the clock, for a policy and for a status.
AgeInfo(t, i) ==
  IF i = <<>> THEN i
  ELSE IF t = "MLFQ"
  THEN [i EXCEPT !.age = @ + 1, !.sinceUpdate = @ + 1, !.sincePending = @ + 1]
  ELSE IF i.running THEN [i EXCEPT !.age = @ + 1] ELSE i
AgePolicy(pol) ==
  IF pol.type \in {"UP", "PUP"} THEN [pol EXCEPT !.rest = Rest(@, 1)]
  ELSE IF pol.type \in {"CFS", "MLFQ", "SLO"}
  THEN [pol EXCEPT !.info = [h \in Handles |-> AgeInfo(pol.type, @[h])]]
  ELSE pol

=============================================================================

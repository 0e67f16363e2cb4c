-------------------------- MODULE MemoryAdmission --------------------------
(***************************************************************************)
(* MemoryAdmissionManager (admission.cpp): memory regions of a device that *)
(* is oversubscribed are evicted when a queue is suspended, and brought    *)
(* back before one is resumed.  One backend, context and device; every     *)
(* function holds the lock g_mtx, so each is one action.  The driver is    *)
(* external: the memory it says is in use, and which migrations it         *)
(* refuses, are arbitrary.                                                 *)
(***************************************************************************)
EXTENDS Integers, Sequences, FiniteSets, FiniteSetsExt, SequencesExt

CONSTANTS
  Regions,       \* tracked allocations
  Size,          \* their sizes
  Queues,        \* XQueue handles
  NoQueue,       \* the handle 0
  Priorities,    \* priorities a queue may be given, already in range
  PriorityMin,
  Total,         \* memory of the device
  HighPercent, LowPercent,      \* the watermarks of the environment
  EvictLimit, PrefetchLimit,    \* 0 for no limit
  DriverUsed,    \* what the driver may say is in use
  MaxCalls       \* bound: calls of the manager in a behaviour

ASSUME AdmissionAssumption ==
  /\ Size \in [Regions -> Nat \ {0}] /\ NoQueue \notin Queues
  /\ Priorities \subseteq Int /\ PriorityMin \in Int
  /\ \A p \in Priorities : PriorityMin <= p
  /\ Total \in Nat \ {0} /\ DriverUsed \subseteq 0..Total
  /\ HighPercent \in 1..99 /\ LowPercent \in 1..99
  /\ EvictLimit \in Nat /\ PrefetchLimit \in Nat /\ MaxCalls \in Nat

Default == 0     \* PRIORITY_DEFAULT

VARIABLES
  order,      \* the keys of g_regions, by last_touch
  owner,      \* owner of each region
  resident,   \* the regions marked resident
  prio,       \* priority of the queues
  active,     \* the queues marked active
  queue,      \* state of the queues: "none", "running", "suspended"
  resumed,    \* history: the queues that were resumed since their creation
  last,       \* history: the last migration
  calls

vars == <<order, owner, resident, prio, active, queue, resumed, last, calls>>

Known == {order[i] : i \in DOMAIN order}
Bytes(S) == MapThenSumSet(LAMBDA r : Size[r], S)

\* A migration for queue q: the memory in use (evict), the regions the
\* driver refused, those that moved and those that did not.
Migration(op, q, used, failed, moved, spared) ==
  [op |-> op, q |-> q, used |-> used, failed |-> failed, moved |-> moved, spared |-> spared]
NoMigration == Migration("none", NoQueue, 0, {}, {}, {})

Call == calls < MaxCalls /\ calls' = calls + 1

-----------------------------------------------------------------------------
(* Watermarks and budgets *)

HighWatermark == (Total * HighPercent) \div 100
\* A low watermark that is not below the high one is replaced.
LowWatermark ==
  LET low == IF LowPercent >= HighPercent THEN Max({1, HighPercent - 10}) ELSE LowPercent
  IN (Total * low) \div 100

Limited(need, limit) == IF limit = 0 THEN need ELSE Min({need, limit})

QueueWeight(p) == Max({1, p - PriorityMin + 1})

\* Faulty variant: the queue does not share with other active ones.
QueueBudgetAlone(q, A, own) ==
  LET hot == Bytes({r \in Known : own[r] = q})
  IN IF hot = 0 THEN LowWatermark ELSE Min({LowWatermark, hot})

\* QueueBudget, with A the active queues and own the owners.
QueueBudget(q, A, own) ==
  LET sum == MapThenSumSet(LAMBDA x : QueueWeight(prio[x]), A)
      share == (LowWatermark * QueueWeight(prio[q])) \div sum
      hot == Bytes({r \in Known : own[r] = q})
  IN IF hot = 0 THEN share ELSE Min({share, hot})

-----------------------------------------------------------------------------
(* Regions and queues *)

\* The region gets the newest last_touch.
Touched(s, r) == Append(Remove(s, r), r)
TouchedAll(s, t) == SelectSeq(s, LAMBDA r : r \notin {t[i] : i \in DOMAIN t}) \o t

RegisterRegion(r) ==
  /\ Call
  /\ order' = Touched(order, r)
  /\ owner' = [owner EXCEPT ![r] = NoQueue]
  /\ resident' = resident \cup {r}
  /\ UNCHANGED <<prio, active, queue, resumed, last>>

UnregisterRegion(r) ==
  /\ Call /\ r \in Known
  /\ order' = Remove(order, r)
  /\ owner' = [owner EXCEPT ![r] = NoQueue]
  /\ resident' = resident \ {r}
  /\ UNCHANGED <<prio, active, queue, resumed, last>>

TouchRegion(r, q) ==
  /\ Call /\ r \in Known /\ queue[q] = "running"
  /\ order' = Touched(order, r)
  /\ owner' = [owner EXCEPT ![r] = q]
  /\ UNCHANGED <<resident, prio, active, queue, resumed, last>>

SetQueuePriority(q, p) ==
  /\ Call /\ queue[q] # "none" /\ p # prio[q]
  /\ prio' = [prio EXCEPT ![q] = p]
  /\ UNCHANGED <<order, owner, resident, active, queue, resumed, last>>

\* A queue is created; the manager does not hear of it.
CreateQueue(q) ==
  /\ Call /\ queue[q] = "none"
  /\ queue' = [queue EXCEPT ![q] = "running"]
  /\ UNCHANGED <<order, owner, resident, prio, active, resumed, last>>

\* Faulty variant: the regions keep their owner.
DisownKept(q) == owner
Disown(q) == [r \in Regions |-> IF owner[r] = q THEN NoQueue ELSE owner[r]]
RemoveQueue(q) ==
  /\ Call /\ queue[q] # "none"
  /\ queue' = [queue EXCEPT ![q] = "none"]
  /\ prio' = [prio EXCEPT ![q] = Default] /\ active' = active \ {q}
  /\ owner' = Disown(q)
  /\ resumed' = resumed \ {q}
  /\ UNCHANGED <<order, resident, last>>

-----------------------------------------------------------------------------
(* Migration *)

\* The elements of s that move: up to and with the one that makes up need.
\* The driver refuses those of F.
Moved(s, need, F) ==
  LET Upto(k) == {s[i] : i \in 1..k} \ F
      enough == {k \in DOMAIN s : Bytes(Upto(k)) >= need}
  IN IF enough = {} THEN Upto(Len(s)) ELSE Upto(Min(enough))

\* AdoptContextRegions, in the order of an unordered_map.
Adopted(q) == IF q = NoQueue THEN {} ELSE {r \in Known : owner[r] = NoQueue}
Adopt(q) == [r \in Regions |-> IF r \in Adopted(q) THEN q ELSE owner[r]]

\* Faulty variant: whether the owner is active is not looked at.
EvictedBeforeByPriority(A, own, s, x, y) ==
  LET p(r) == IF own[r] = NoQueue THEN Default ELSE prio[own[r]]
      at(r) == CHOOSE i \in DOMAIN s : s[i] = r
  IN IF p(x) # p(y) THEN p(x) < p(y) ELSE at(x) < at(y)

\* The order of victims: inactive queues first, then low priorities, then by
\* last_touch (no two are equal).
EvictedBefore(A, own, s, x, y) ==
  LET p(r) == IF own[r] = NoQueue THEN Default ELSE prio[own[r]]
      at(r) == CHOOSE i \in DOMAIN s : s[i] = r
  IN IF (own[x] \in A) # (own[y] \in A) THEN own[x] \notin A
     ELSE IF p(x) # p(y) THEN p(x) < p(y) ELSE at(x) < at(y)

\* Faulty variant: only the excess over the high watermark is evicted.
EvictionNeedToHigh(used) ==
  IF used <= HighWatermark THEN 0 ELSE Limited(used - HighWatermark, EvictLimit)
EvictionNeed(used) ==
  IF used <= HighWatermark THEN 0 ELSE Limited(used - LowWatermark, EvictLimit)

\* What happens to the regions when q is suspended.  The driver does not
\* answer (no eviction), or says that d is in use and refuses F.
Evict(q, A) ==
  \E t \in SetToSeqs(Adopted(q)) :
    LET s == TouchedAll(order, t) IN
    /\ owner' = Adopt(q)
    /\ \/ /\ order' = s
          /\ UNCHANGED <<resident, last>>
       \/ \E d \in DriverUsed, F \in SUBSET resident :
            LET used == Max({d, Bytes(resident)})
                need == EvictionNeed(used)
                v == SetToSortSeq(resident, LAMBDA x, y : EvictedBefore(A, Adopt(q), s, x, y))
                out == Moved(v, need, F)
            IN /\ need > 0
               /\ resident' = resident \ out
               /\ order' = TouchedAll(s, SelectSeq(v, LAMBDA r : r \in out))
               /\ last' = Migration("evict", q, used, F, out, resident \ out)

OnQueueSuspend(q) ==
  /\ Call /\ queue[q] = "running"
  /\ queue' = [queue EXCEPT ![q] = "suspended"]
  /\ active' = active \ {q}
  /\ Evict(q, active \ {q})
  /\ UNCHANGED <<prio, resumed>>

\* A queue that was removed while it was being suspended has the handle 0.
OnRemovedQueueSuspend ==
  /\ Call
  /\ Evict(NoQueue, active)
  /\ UNCHANGED <<prio, active, queue, resumed>>

BeforeQueueResume(q) ==
  LET A == active \cup {q}
      own == Adopt(q)
      budget == QueueBudget(q, A, own)
      mine == {r \in Known : own[r] = q}
      have == Bytes(mine \cap resident)
      need == IF have >= budget THEN 0 ELSE Limited(budget - have, PrefetchLimit)
  IN
  /\ Call /\ queue[q] = "suspended"
  /\ queue' = [queue EXCEPT ![q] = "running"]
  /\ active' = A /\ resumed' = resumed \cup {q}
  /\ owner' = own
  /\ \E t \in SetToSeqs(Adopted(q)) :
       LET s == TouchedAll(order, t) IN
       \/ order' = s /\ UNCHANGED <<resident, last>>
       \/ \E F \in SUBSET (mine \ resident) :
            LET c == Reverse(SelectSeq(s, LAMBDA r : r \in mine \ resident))
                in == Moved(c, need, F)
            IN /\ need > 0
               /\ resident' = resident \cup in
               /\ order' = TouchedAll(s, SelectSeq(c, LAMBDA r : r \in in))
               /\ last' = Migration("prefetch", q, have, F, in, (mine \ resident) \ in)
  /\ UNCHANGED prio

-----------------------------------------------------------------------------
(* The specification *)

Init ==
  /\ order = <<>> /\ owner = [r \in Regions |-> NoQueue] /\ resident = {}
  /\ prio = [q \in Queues |-> Default] /\ active = {}
  /\ queue = [q \in Queues |-> "running"] /\ resumed = {}
  /\ last = NoMigration /\ calls = 0

Next ==
  \/ \E r \in Regions : RegisterRegion(r) \/ UnregisterRegion(r)
  \/ \E r \in Regions, q \in Queues : TouchRegion(r, q)
  \/ \E q \in Queues : \/ CreateQueue(q) \/ RemoveQueue(q)
                       \/ OnQueueSuspend(q) \/ BeforeQueueResume(q)
                       \/ \E p \in Priorities : SetQueuePriority(q, p)
  \/ OnRemovedQueueSuspend

Spec == Init /\ [][Next]_vars

-----------------------------------------------------------------------------
(* Properties *)

\* Memory is never attributed to a queue that does not exist, nor is such a
\* queue in the active set, whose weights the budgets are shared by: queues
\* come and go while regions stay.
OwnersExist ==
  /\ \A r \in Regions : owner[r] # NoQueue => queue[owner[r]] # "none"
  /\ \A q \in active : queue[q] = "running"

Evicts == last' # last /\ last'.op = "evict"
Prefetches == last' # last /\ last'.op = "prefetch"

\* An eviction ends at the low watermark or at its limit, unless the driver
\* refuses the rest; and it does not go on when it is there: without one of
\* the regions it would not be.
Relieved(used, out) ==
  used - Bytes(out) <= LowWatermark \/ (EvictLimit > 0 /\ Bytes(out) >= EvictLimit)
PressureRelieved ==
  [][Evicts => /\ Relieved(last'.used, last'.moved) \/ last'.spared \subseteq last'.failed
               /\ last'.moved # {} =>
                    \E r \in last'.moved : ~Relieved(last'.used, last'.moved \ {r})]_vars

\* Among the regions the driver would move, one of a suspended queue is never
\* spared for one of a running queue that is in the active set, whichever
\* queues were suspended, resumed or removed before.
Stopped(r) == owner'[r] # NoQueue /\ queue'[owner'[r]] = "suspended"
SuspendedFirst ==
  [][Evicts => \A r \in last'.moved, s \in last'.spared \ last'.failed :
                 Stopped(s) => ~(owner'[r] \in resumed' /\ queue'[owner'[r]] = "running")]_vars

\* A queue that is resumed gets less than its share of the memory below the
\* low watermark, or exceeds it by a part of one region.
Weights(A) == MapThenSumSet(LAMBDA q : QueueWeight(prio[q]), A)
WithinShare ==
  [][Prefetches /\ last'.moved # {} =>
       \E r \in last'.moved :
         (last'.used + Bytes(last'.moved \ {r})) * Weights(active')
           < LowWatermark * QueueWeight(prio[last'.q])]_vars

=============================================================================

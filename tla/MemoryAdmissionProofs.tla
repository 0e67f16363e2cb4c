----------------------- MODULE MemoryAdmissionProofs -----------------------
(***************************************************************************)
(* Memory is only ever attributed to queues that exist, for any regions,   *)
(* queues, watermarks and answers of the driver.                           *)
(***************************************************************************)
EXTENDS MemoryAdmission, TLAPS

\* OwnersExist is inductive with the types of the tables it speaks of.
OwnerType ==
  /\ owner \in [Regions -> Queues \cup {NoQueue}]
  /\ active \subseteq Queues
  /\ queue \in [Queues -> {"none", "running", "suspended"}]
OwnerInv == OwnerType /\ OwnersExist

\* Adopting regions for a queue that exists keeps the owners in existence
\* (AdoptContextRegions).
LEMMA AdoptKeepsOwners ==
  ASSUME OwnerInv, NEW q \in Queues \cup {NoQueue}, q # NoQueue => queue[q] # "none"
  PROVE  /\ Adopt(q) \in [Regions -> Queues \cup {NoQueue}]
         /\ \A r \in Regions : Adopt(q)[r] # NoQueue => queue[Adopt(q)[r]] # "none"
BY DEF OwnerInv, OwnerType, OwnersExist, Adopt

\* In the beginning no region has an owner and no queue is active.
LEMMA OwnerInit == Init => OwnerInv
BY AdmissionAssumption DEF Init, OwnerInv, OwnerType, OwnersExist

\* Every call of the manager keeps the invariant.
LEMMA OwnerNext == OwnerInv /\ [Next]_vars => OwnerInv'
<1> SUFFICES ASSUME OwnerInv, [Next]_vars PROVE OwnerInv'
  OBVIOUS
<1> USE DEF OwnerInv, OwnerType, OwnersExist
<1>1. CASE \E r \in Regions : RegisterRegion(r) \/ UnregisterRegion(r)
  BY <1>1 DEF RegisterRegion, UnregisterRegion
<1>2. CASE \E r \in Regions, q \in Queues : TouchRegion(r, q)
  BY <1>2, AdmissionAssumption DEF TouchRegion
<1>3. ASSUME NEW q \in Queues, CreateQueue(q) PROVE OwnerInv'
  BY <1>3 DEF CreateQueue
<1>4. ASSUME NEW q \in Queues, RemoveQueue(q) PROVE OwnerInv'
  BY <1>4, AdmissionAssumption DEF RemoveQueue, Disown
<1>5. ASSUME NEW q \in Queues, OnQueueSuspend(q) PROVE OwnerInv'
  <2>1. /\ queue' = [queue EXCEPT ![q] = "suspended"] /\ queue[q] = "running"
        /\ active' = active \ {q} /\ owner' = Adopt(q)
    BY <1>5 DEF OnQueueSuspend, Evict
  <2> QED BY <2>1, AdoptKeepsOwners
<1>6. ASSUME NEW q \in Queues, BeforeQueueResume(q) PROVE OwnerInv'
  <2>1. /\ queue' = [queue EXCEPT ![q] = "running"] /\ queue[q] = "suspended"
        /\ active' = active \cup {q} /\ owner' = Adopt(q)
    BY <1>6 DEF BeforeQueueResume
  <2> QED BY <2>1, AdoptKeepsOwners
<1>7. ASSUME NEW q \in Queues, NEW p \in Priorities, SetQueuePriority(q, p) PROVE OwnerInv'
  BY <1>7 DEF SetQueuePriority
<1>8. CASE OnRemovedQueueSuspend
  <2>1. queue' = queue /\ active' = active /\ owner' = Adopt(NoQueue)
    BY <1>8 DEF OnRemovedQueueSuspend, Evict
  <2> QED BY <2>1, AdoptKeepsOwners
<1>9. CASE UNCHANGED vars
  BY <1>9 DEF vars
<1> QED BY <1>1, <1>2, <1>3, <1>4, <1>5, <1>6, <1>7, <1>8, <1>9 DEF Next

\* In every behaviour of the manager a region's owner is a queue that exists,
\* and the active set holds only queues that run (RemoveQueue, Adopt and the
\* two hooks of suspending and resuming).
THEOREM OwnersAlwaysExist == Spec => []OwnersExist
<1>1. OwnerInv => OwnersExist
  BY DEF OwnerInv
<1> QED BY <1>1, OwnerInit, OwnerNext, PTL DEF Spec
=============================================================================

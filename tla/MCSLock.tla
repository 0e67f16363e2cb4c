------------------------------ MODULE MCSLock ------------------------------
(***************************************************************************)
(* The queue lock MCSLock, which protects the logs of every launch worker. *)
(* There is one lock per XQueue but one node per thread (a static          *)
(* thread_local), used for whatever lock the thread takes next.  A step is *)
(* one access to memory that another thread can see.                       *)
(***************************************************************************)
EXTENDS Integers

CONSTANTS
  Threads,    \* the threads that lock: workers, waiters, suspenders
  Locks,      \* the mtx_ of each launch worker
  None,       \* nullptr
  MaxTickets  \* bound: how often each lock is taken

ASSUME MCSAssumption == None \notin Threads /\ MaxTickets \in Nat

VARIABLES
  tail,    \* tail_ of each lock
  flag,    \* "Waiting" or "Granted" (LockStatus), in the node of each thread
  next,    \* the other field of the node
  on,      \* the lock a thread is locking, holds or unlocks
  pred,    \* the local variable of lock() with the former tail
  pc,      \* where the thread is in lock() or unlock()
  issued,  \* history: how many threads have queued for each lock
  served,  \* history: how many have released it
  ticket   \* history: the place of a thread in the line of its lock

vars == <<tail, flag, next, on, pred, pc, issued, served, ticket>>

\* Out of any lock; about to exchange the tail; about to link to the former
\* tail; spinning; in the critical section; about to compare and exchange;
\* waiting for the successor to link; about to grant.
Points == {"Out", "Exchange", "Link", "Spin", "Held", "Cas", "Successor", "Grant"}

TypeOK ==
  /\ tail \in [Locks -> Threads \cup {None}]
  /\ flag \in [Threads -> {"Waiting", "Granted"}]
  /\ next \in [Threads -> Threads \cup {None}]
  /\ on \in [Threads -> Locks]
  /\ pred \in [Threads -> Threads \cup {None}]
  /\ pc \in [Threads -> Points]
  /\ issued \in [Locks -> Nat] /\ served \in [Locks -> Nat]
  /\ ticket \in [Threads -> Nat]

\* A thread_local node starts out zeroed.
Init ==
  /\ tail = [l \in Locks |-> None]
  /\ flag = [t \in Threads |-> "Waiting"] /\ next = [t \in Threads |-> None]
  /\ \E l \in Locks : on = [t \in Threads |-> l]
  /\ pred = [t \in Threads |-> None] /\ pc = [t \in Threads |-> "Out"]
  /\ issued = [l \in Locks |-> 0] /\ served = [l \in Locks |-> 0]
  /\ ticket = [t \in Threads |-> 0]

Goto(t, point) == pc' = [pc EXCEPT ![t] = point]

-----------------------------------------------------------------------------
(* lock() *)

\* The same, with the flag of the last time left as it is.
PrepareKeepsFlag(t, l) ==
  /\ pc[t] = "Out" /\ issued[l] < MaxTickets
  /\ next' = [next EXCEPT ![t] = None]
  /\ on' = [on EXCEPT ![t] = l]
  /\ Goto(t, "Exchange")
  /\ UNCHANGED <<tail, flag, pred, issued, served, ticket>>

\* Nobody else refers to the node while its owner is out (NodesLeft), so that
\* resetting its two fields is one step.
Prepare(t, l) ==
  /\ pc[t] = "Out" /\ issued[l] < MaxTickets
  /\ flag' = [flag EXCEPT ![t] = "Waiting"]
  /\ next' = [next EXCEPT ![t] = None]
  /\ on' = [on EXCEPT ![t] = l]
  /\ Goto(t, "Exchange")
  /\ UNCHANGED <<tail, pred, issued, served, ticket>>

Exchange(t) ==
  LET l == on[t] IN
  /\ pc[t] = "Exchange"
  /\ pred' = [pred EXCEPT ![t] = tail[l]]
  /\ tail' = [tail EXCEPT ![l] = t]
  /\ Goto(t, IF tail[l] = None THEN "Held" ELSE "Link")
  /\ ticket' = [ticket EXCEPT ![t] = issued[l]]
  /\ issued' = [issued EXCEPT ![l] = @ + 1]
  /\ UNCHANGED <<flag, next, on, served>>

Link(t) ==
  /\ pc[t] = "Link"
  /\ next' = [next EXCEPT ![pred[t]] = t]
  /\ Goto(t, "Spin")
  /\ UNCHANGED <<tail, flag, on, pred, issued, served, ticket>>

Spin(t) ==
  /\ pc[t] = "Spin" /\ flag[t] = "Granted"
  /\ Goto(t, "Held")
  /\ UNCHANGED <<tail, flag, next, on, pred, issued, served, ticket>>

-----------------------------------------------------------------------------
(* unlock() *)

Unlock(t) ==
  /\ pc[t] = "Held"
  /\ Goto(t, IF next[t] = None THEN "Cas" ELSE "Grant")
  /\ UNCHANGED <<tail, flag, next, on, pred, issued, served, ticket>>

Leave(t) ==
  /\ served' = [served EXCEPT ![on[t]] = @ + 1]
  /\ Goto(t, "Out")

\* The same, with a plain store instead of a comparison.
CasUnchecked(t) ==
  /\ pc[t] = "Cas"
  /\ tail' = [tail EXCEPT ![on[t]] = None] /\ Leave(t)
  /\ UNCHANGED <<flag, next, on, pred, issued, ticket>>

Cas(t) ==
  /\ pc[t] = "Cas"
  /\ \/ /\ tail[on[t]] = t
        /\ tail' = [tail EXCEPT ![on[t]] = None] /\ Leave(t)
     \/ /\ tail[on[t]] # t
        /\ Goto(t, "Successor") /\ UNCHANGED <<tail, served>>
  /\ UNCHANGED <<flag, next, on, pred, issued, ticket>>

\* The same, not waiting for the successor that has exchanged the tail.
SuccessorGone(t) ==
  /\ pc[t] = "Successor"
  /\ IF next[t] # None THEN Goto(t, "Grant") /\ UNCHANGED served ELSE Leave(t)
  /\ UNCHANGED <<tail, flag, next, on, pred, issued, ticket>>

Successor(t) ==
  /\ pc[t] = "Successor" /\ next[t] # None
  /\ Goto(t, "Grant")
  /\ UNCHANGED <<tail, flag, next, on, pred, issued, served, ticket>>

Grant(t) ==
  /\ pc[t] = "Grant"
  /\ flag' = [flag EXCEPT ![next[t]] = "Granted"] /\ Leave(t)
  /\ UNCHANGED <<tail, next, on, pred, issued, ticket>>

-----------------------------------------------------------------------------
\* Whoever has called lock() or unlock() goes on, and a thread that holds the
\* lock releases it: no critical section of the launch worker waits for another
\* thread without unlocking.
Step(t) ==
  Exchange(t) \/ Link(t) \/ Spin(t) \/ Unlock(t) \/ Cas(t) \/ Successor(t) \/ Grant(t)

Next == \E t \in Threads : (\E l \in Locks : Prepare(t, l)) \/ Step(t)

Spec == Init /\ [][Next]_vars
FairSpec == Spec /\ \A t \in Threads : WF_vars(Step(t))

-----------------------------------------------------------------------------
(* Properties *)

\* In the line of its lock, from the exchange to the end of unlock().
InLine(t) == pc[t] \in Points \ {"Out", "Exchange"}

\* Past the loop of lock(): the critical section and unlock().
Inside(t) == pc[t] \in {"Held", "Cas", "Successor", "Grant"}

\* A waiting thread whose flag is set need only look to be inside.
Admitted(t) == Inside(t) \/ (pc[t] = "Spin" /\ flag[t] = "Granted")

\* No two threads are inside the same lock, nor is one inside while another
\* has been granted it.
Exclusion ==
  \A t, u \in Threads : Admitted(t) /\ Admitted(u) /\ on[t] = on[u] => t = u

\* A lock is handed on in the order in which lock() exchanged the tail.
InTurn == \A t \in Threads : Admitted(t) => ticket[t] = served[on[t]]

\* Once unlock() has returned nothing refers to the thread's node any more: it
\* can be used for another lock, and the thread can end (the node is thread
\* local memory).
NodesLeft ==
  \A t \in Threads : pc[t] \in {"Out", "Exchange"} =>
    /\ \A l \in Locks : tail[l] # t
    /\ \A u \in Threads : /\ pc[u] = "Link" => pred[u] # t
                          /\ Inside(u) => next[u] # t

\* Queued behind another thread and not granted the lock yet.
Behind(t) == pc[t] = "Link" \/ (pc[t] = "Spin" /\ flag[t] = "Waiting")

\* How tail_, next and the local variable of lock() represent the line of
\* threads of every lock while links are missing: tickets are given once,
\* everybody behind someone is behind the thread one place ahead, which
\* points back once linked and not before, and the tail is the last.
LineOK ==
  /\ \A t \in Threads : InLine(t) =>
       served[on[t]] <= ticket[t] /\ ticket[t] < issued[on[t]]
  /\ \A t, u \in Threads :
       InLine(t) /\ InLine(u) /\ on[t] = on[u] /\ ticket[t] = ticket[u] => t = u
  /\ \A t \in Threads : Behind(t) =>
       /\ pred[t] \in Threads /\ InLine(pred[t]) /\ on[pred[t]] = on[t]
       /\ ticket[t] = ticket[pred[t]] + 1
       /\ next[pred[t]] = IF pc[t] = "Link" THEN None ELSE t
  /\ \A t \in Threads : InLine(t) /\ next[t] # None =>
       pc[next[t]] = "Spin" /\ flag[next[t]] = "Waiting" /\ pred[next[t]] = t
  /\ \A l \in Locks : tail[l] = None => issued[l] = served[l]
  /\ \A l \in Locks : tail[l] # None =>
       InLine(tail[l]) /\ on[tail[l]] = l /\ issued[l] = ticket[tail[l]] + 1

\* lock() and unlock() return: neither a link nor a grant is ever missed.
LockReturns == \A t \in Threads : pc[t] # "Out" ~> pc[t] = "Out"
=============================================================================

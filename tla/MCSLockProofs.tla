--------------------------- MODULE MCSLockProofs ---------------------------
(***************************************************************************)
(* The queue lock excludes, is first come first served and leaves no       *)
(* reference to a node behind, for any number of threads and locks.  The   *)
(* invariant is the line of threads (LineOK) with what the two flags of a  *)
(* node say at each point of lock() and unlock().                          *)
(***************************************************************************)
EXTENDS MCSLock, TLAPS

PointsOK ==
  /\ \A t \in Threads : pc[t] = "Exchange" => flag[t] = "Waiting" /\ next[t] = None
  /\ \A t \in Threads : pc[t] = "Link" => flag[t] = "Waiting"
  /\ \A t \in Threads : pc[t] = "Grant" => next[t] # None

LockInv == TypeOK /\ LineOK /\ InTurn /\ PointsOK

\* Every lock is free and nobody is in line.
LEMMA LockInit == Init => LockInv
  BY MCSAssumption
  DEF Init, LockInv, TypeOK, LineOK, InTurn, PointsOK, Points, InLine, Behind, Admitted, Inside

\* The thread at the tail has no successor yet: it would hold a ticket that
\* was not issued.
LEMMA TailIsLast ==
  ASSUME LockInv, NEW l \in Locks, tail[l] # None
  PROVE  next[tail[l]] = None
  BY MCSAssumption, SMTT(30)
  DEF LockInv, TypeOK, LineOK, Points, InLine, Behind

\* lock() resets the node of a thread nobody refers to.
LEMMA PrepareOK ==
  ASSUME LockInv, NEW t \in Threads, NEW l \in Locks, Prepare(t, l)
  PROVE  LockInv'
<1>1. TypeOK' BY DEF LockInv, TypeOK, Prepare, Goto, Points
<1>2. LineOK' BY MCSAssumption, SMTT(30)
      DEF LockInv, TypeOK, LineOK, Prepare, Goto, Points, InLine, Behind
<1>3. InTurn' BY SMTT(30)
      DEF LockInv, TypeOK, InTurn, Prepare, Goto, Points, Admitted, Inside
<1>4. PointsOK' BY SMTT(30) DEF LockInv, TypeOK, PointsOK, Prepare, Goto
<1> QED BY <1>1, <1>2, <1>3, <1>4 DEF LockInv

\* A thread that exchanges the tail joins the line as its last.
LEMMA ExchangeOK ==
  ASSUME LockInv, NEW t \in Threads, Exchange(t)
  PROVE  LockInv'
<1> DEFINE l == on[t]
<1>0. l \in Locks BY DEF LockInv, TypeOK
<1>1. TypeOK' BY DEF LockInv, TypeOK, Exchange, Goto, Points
<1>2. tail[l] # None => next[tail[l]] = None BY <1>0, TailIsLast
<1>3. LineOK' BY <1>0, <1>1, <1>2, MCSAssumption, SMTT(60)
      DEF LockInv, TypeOK, LineOK, PointsOK, Exchange, Goto, Points, InLine, Behind
<1>4. InTurn' BY <1>0, SMTT(30)
      DEF LockInv, TypeOK, LineOK, InTurn, Exchange, Goto, Points, Admitted, Inside
<1>5. PointsOK' BY SMTT(30) DEF LockInv, TypeOK, PointsOK, Exchange, Goto
<1> QED BY <1>1, <1>3, <1>4, <1>5 DEF LockInv

\* Linking makes the thread ahead point back; no other thread is behind it.
LEMMA LinkOK ==
  ASSUME LockInv, NEW t \in Threads, Link(t)
  PROVE  LockInv'
<1>1. TypeOK' BY DEF LockInv, TypeOK, Link, Goto, Points
<1>2. LineOK' BY <1>1, MCSAssumption, SMTT(60)
      DEF LockInv, TypeOK, LineOK, PointsOK, Link, Goto, Points, InLine, Behind
<1>3. InTurn' BY SMTT(30)
      DEF LockInv, TypeOK, LineOK, InTurn, PointsOK, Link, Goto, Points, Admitted, Inside
<1>4. PointsOK' BY MCSAssumption, SMTT(30)
      DEF LockInv, TypeOK, PointsOK, LineOK, Link, Goto, InLine, Behind, Points
<1> QED BY <1>1, <1>2, <1>3, <1>4 DEF LockInv

\* A granted thread was admitted before it looked.
LEMMA SpinOK ==
  ASSUME LockInv, NEW t \in Threads, Spin(t)
  PROVE  LockInv'
<1>1. TypeOK' BY DEF LockInv, TypeOK, Spin, Goto, Points
<1>2. LineOK' BY MCSAssumption, SMTT(60)
      DEF LockInv, TypeOK, LineOK, Spin, Goto, Points, InLine, Behind
<1>3. InTurn' BY SMTT(30)
      DEF LockInv, TypeOK, InTurn, Spin, Goto, Points, Admitted, Inside
<1>4. PointsOK' BY SMTT(30) DEF LockInv, TypeOK, PointsOK, Spin, Goto
<1> QED BY <1>1, <1>2, <1>3, <1>4 DEF LockInv

\* Looking for a successor changes nothing but the place in the code.
LEMMA UnlockOK ==
  ASSUME LockInv, NEW t \in Threads, Unlock(t) \/ Successor(t)
  PROVE  LockInv'
<1>1. TypeOK' BY DEF LockInv, TypeOK, Unlock, Successor, Goto, Points
<1>2. LineOK' BY MCSAssumption, SMTT(60)
      DEF LockInv, TypeOK, LineOK, Unlock, Successor, Goto, Points, InLine, Behind
<1>3. InTurn' BY SMTT(30)
      DEF LockInv, TypeOK, InTurn, Unlock, Successor, Goto, Points, Admitted, Inside
<1>4. PointsOK' BY SMTT(30) DEF LockInv, TypeOK, PointsOK, Unlock, Successor, Goto
<1> QED BY <1>1, <1>2, <1>3, <1>4 DEF LockInv

\* Whoever is inside and still the tail is alone in line; otherwise the
\* comparison fails and nothing but the place in the code changes.
LEMMA CasOK ==
  ASSUME LockInv, NEW t \in Threads, Cas(t)
  PROVE  LockInv'
<1>1. TypeOK' BY DEF LockInv, TypeOK, Cas, Leave, Goto, Points
<1>2. on[t] \in Locks BY DEF LockInv, TypeOK
<1>3. CASE tail[on[t]] = t
  <2>1. \A u \in Threads : InLine(u) /\ on[u] = on[t] => u = t
        BY <1>2, <1>3, MCSAssumption, SMTT(30)
        DEF LockInv, TypeOK, LineOK, InTurn, Cas, InLine, Admitted, Inside, Points
  <2>2. LineOK' BY <1>1, <1>2, <1>3, <2>1, MCSAssumption, SMTT(60)
        DEF LockInv, TypeOK, LineOK, InTurn, Cas, Leave, Goto, Points, InLine, Behind,
            Admitted, Inside
  <2>3. InTurn' BY <1>2, <1>3, <2>1, SMTT(30)
        DEF LockInv, TypeOK, InTurn, Cas, Leave, Goto, Points, InLine, Admitted, Inside
  <2>4. PointsOK' BY <1>3, SMTT(30) DEF LockInv, TypeOK, PointsOK, Cas, Leave, Goto
  <2> QED BY <1>1, <2>2, <2>3, <2>4 DEF LockInv
<1>4. CASE tail[on[t]] # t
  <2>1. LineOK' BY <1>4, MCSAssumption, SMTT(60)
        DEF LockInv, TypeOK, LineOK, Cas, Goto, Points, InLine, Behind
  <2>2. InTurn' BY <1>4, SMTT(30)
        DEF LockInv, TypeOK, InTurn, Cas, Goto, Points, Admitted, Inside
  <2>3. PointsOK' BY <1>4, SMTT(30) DEF LockInv, TypeOK, PointsOK, Cas, Goto
  <2> QED BY <1>1, <2>1, <2>2, <2>3 DEF LockInv
<1> QED BY <1>3, <1>4

\* The lock goes to the thread one place behind, which was waiting; everybody
\* else in line is behind that one.
LEMMA GrantOK ==
  ASSUME LockInv, NEW t \in Threads, Grant(t)
  PROVE  LockInv'
<1> DEFINE u == next[t]
<1>1. /\ on[t] \in Locks /\ u \in Threads /\ u # t
      /\ pc[u] = "Spin" /\ flag[u] = "Waiting" /\ pred[u] = t
      /\ on[u] = on[t] /\ ticket[u] = ticket[t] + 1
      /\ ticket[t] = served[on[t]]
      BY MCSAssumption, SMTT(30)
      DEF LockInv, TypeOK, LineOK, InTurn, PointsOK, Grant, InLine, Behind, Admitted, Inside,
          Points
<1>2. TypeOK' BY <1>1, SMTT(30) DEF LockInv, TypeOK, Grant, Leave, Goto, Points
<1>3. \A v \in Threads : v # t /\ InLine(v) /\ on[v] = on[t] => ticket[v] > ticket[t]
      BY <1>1, SMTT(30) DEF LockInv, TypeOK, LineOK, Grant, InLine, Points
<1>4. \A v \in Threads : v # u /\ Behind(v) => pred[v] # t
      BY <1>1, SMTT(30) DEF LockInv, TypeOK, LineOK, InLine, Behind, Points
<1>5. tail[on[t]] # t /\ tail[on[t]] # None
      BY <1>1, MCSAssumption, SMTT(30) DEF LockInv, TypeOK, LineOK, InLine, Behind, Points
<1>6. \A v \in Threads : v # t /\ InLine(v) => next[v] # u
      BY <1>1, MCSAssumption, SMTT(30) DEF LockInv, TypeOK, LineOK
<1>7. LineOK' BY <1>2, <1>1, <1>3, <1>4, <1>5, <1>6, MCSAssumption, SMTT(60)
      DEF LockInv, TypeOK, LineOK, Grant, Leave, Goto, Points, InLine, Behind
<1>8. InTurn' BY <1>1, <1>3, SMTT(60)
      DEF LockInv, TypeOK, InTurn, Grant, Leave, Goto, Points, InLine, Admitted, Inside
<1>9. PointsOK' BY <1>1, SMTT(30) DEF LockInv, TypeOK, PointsOK, Grant, Leave, Goto
<1> QED BY <1>2, <1>7, <1>8, <1>9 DEF LockInv

\* Every step keeps the invariant.
LEMMA LockStep == LockInv /\ [Next]_vars => LockInv'
<1> SUFFICES ASSUME LockInv, [Next]_vars PROVE LockInv'
  OBVIOUS
<1>1. CASE Next
  <2>1. PICK t \in Threads : (\E l \in Locks : Prepare(t, l)) \/ Step(t)
        BY <1>1 DEF Next
  <2>2. CASE \E l \in Locks : Prepare(t, l) BY <2>2, PrepareOK
  <2>3. CASE Step(t)
        BY <2>3, ExchangeOK, LinkOK, SpinOK, UnlockOK, CasOK, GrantOK DEF Step
  <2> QED BY <2>1, <2>2, <2>3
<1>2. CASE UNCHANGED vars
      BY <1>2 DEF vars, LockInv, TypeOK, LineOK, InTurn, PointsOK, InLine, Behind,
         Admitted, Inside
<1> QED BY <1>1, <1>2

\* The line of threads is kept, and nobody overtakes.
THEOREM LineKept == Spec => [](LineOK /\ InTurn)
<1>1. LockInv => LineOK /\ InTurn BY DEF LockInv
<1> QED BY <1>1, LockInit, LockStep, PTL DEF Spec

\* At most one thread is inside a lock or has been granted it: the state of a
\* launch worker (mtx_) is accessed by one thread at a time.
THEOREM MutualExclusion == Spec => []Exclusion
<1>1. LockInv => Exclusion
      BY DEF LockInv, TypeOK, LineOK, InTurn, Exclusion, InLine, Admitted, Inside, Points
<1> QED BY <1>1, LockInit, LockStep, PTL DEF Spec

\* After unlock() nothing refers to the node of the thread.
THEOREM NodesLeftAlone == Spec => []NodesLeft
<1>1. LockInv => NodesLeft
      BY MCSAssumption, SMTT(30)
      DEF LockInv, TypeOK, LineOK, NodesLeft, InLine, Behind, Inside, Points
<1> QED BY <1>1, LockInit, LockStep, PTL DEF Spec
=============================================================================

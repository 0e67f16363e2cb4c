---------------------------- MODULE PolicyProofs ----------------------------
(***************************************************************************)
(* What the decisions of the policies keep true of the scheduler they      *)
(* decide for.  The proof goes policy by policy (what Sched returns, what  *)
(* RecvHint and the clock do to a policy's state), then over the steps of  *)
(* the scheduler, and ends with the accuracy of the scheduler's view,      *)
(* which turns what is true of the status into what is true of the queues. *)
(***************************************************************************)
EXTENDS LocalSchedulerProofs, FiniteSetTheorems, NaturalsInduction

-----------------------------------------------------------------------------
(* The state of each policy *)

Priorities == [Handles -> Int]
IsHPF(p) == p \in [type : {"HPF", "HHPF"}, prio : Priorities]
IsIAH(p) == p \in [type : {"IAH"}, prio : Priorities,
                   intensity : [Devices \cup {NoDevice} -> Int]]
IsCHPF(p) == p \in [type : {"CHPF"}]
Laxities == {<<>>} \cup (Int \X Int \X Int)
IsLAX(p) == p \in [type : {"LAX"}, lax : [Handles -> Laxities]]
DeadlineValues == {<<>>} \cup {<<v>> : v \in Int}
IsKEDF(p) == p \in [type : {"KEDF"}, deadline : [Handles -> DeadlineValues], k : Nat]
IsAWF(p) == p \in [type : {"AWF"}, active : SUBSET Pids, windows : {p.windows}]
IsUP(p) == p \in [type : {"UP"}, utils : [Handles -> Int], timeslice : Nat,
                  cur : Handles \cup {None}, rest : {p.rest}]
IsPUP(p) == p \in [type : {"PUP"}, utils : [Pids -> Int], timeslice : Nat,
                   runQueue : {p.runQueue}, rest : {p.rest}]
CFSNode == [vruntime : Int, running : BOOLEAN, age : Nat, rate : Nat]
IsCFS(p) == p \in [type : {"CFS"}, info : [Handles -> {<<>>} \cup CFSNode]]
Levels == 0..MaxLevel
MLFQNode == [prio : Levels, running : BOOLEAN, wasReady : BOOLEAN, sinceUpdate : Nat,
             pending : Nat, sincePending : Nat, used : Nat, age : Nat]
IsMLFQ(p) == p \in [type : {"MLFQ"}, info : [Handles -> {<<>>} \cup MLFQNode]]
SLOInfo == [prio : Int, deadline : DeadlineValues, util : Int,
            vruntime : Int, running : BOOLEAN, age : Nat]
IsSLO(p) == p \in [type : {"SLO"}, info : [Handles -> SLOInfo],
                   procUtils : [Pids -> Int], timeslice : Nat]

PolicyOK(p) == IsHPF(p) \/ IsIAH(p) \/ IsCHPF(p) \/ IsLAX(p) \/ IsKEDF(p) \/ IsAWF(p)
                 \/ IsUP(p) \/ IsPUP(p) \/ IsCFS(p) \/ IsMLFQ(p) \/ IsSLO(p)

\* The type says which.
LEMMA TypeOf ==
  ASSUME NEW p
  PROVE  /\ (IsHPF(p) => p.type \in {"HPF", "HHPF"}) /\ (IsIAH(p) => p.type = "IAH")
         /\ (IsCHPF(p) => p.type = "CHPF") /\ (IsLAX(p) => p.type = "LAX")
         /\ (IsKEDF(p) => p.type = "KEDF") /\ (IsAWF(p) => p.type = "AWF")
         /\ (IsUP(p) => p.type = "UP") /\ (IsPUP(p) => p.type = "PUP")
         /\ (IsCFS(p) => p.type = "CFS") /\ (IsMLFQ(p) => p.type = "MLFQ")
         /\ (IsSLO(p) => p.type = "SLO")
BY DEF IsHPF, IsIAH, IsCHPF, IsLAX, IsKEDF, IsAWF, IsUP, IsPUP, IsCFS, IsMLFQ, IsSLO

\* CreatePolicy.
LEMMA InitPolicyOK ==
  ASSUME NEW t \in PolicyType
  PROVE  PolicyOK(InitPolicy(t)) /\ InitPolicy(t).type = t
<1>0. Timeslice \in Nat
  BY PolicyAssumption
<1>1. CASE t \in {"HPF", "HHPF"}
  BY <1>1 DEF InitPolicy, PolicyOK, IsHPF, Priorities, PriorityDefault
<1>2. CASE t = "IAH"
  BY <1>2 DEF InitPolicy, PolicyOK, IsIAH, Priorities, PriorityDefault
<1>3. CASE t = "CHPF"
  BY <1>3 DEF InitPolicy, PolicyOK, IsCHPF
<1>4. CASE t = "LAX"
  BY <1>4 DEF InitPolicy, PolicyOK, IsLAX, Laxities
<1>5. CASE t = "KEDF"
  BY <1>5 DEF InitPolicy, PolicyOK, IsKEDF, DeadlineValues
<1>6. CASE t = "AWF"
  BY <1>6 DEF InitPolicy, PolicyOK, IsAWF
<1>7. CASE t = "UP"
  BY <1>7, <1>0 DEF InitPolicy, PolicyOK, IsUP, NoEntry, None
<1>8. CASE t = "PUP"
  BY <1>8, <1>0 DEF InitPolicy, PolicyOK, IsPUP, NoEntry
<1>9. CASE t = "CFS"
  BY <1>9 DEF InitPolicy, PolicyOK, IsCFS
<1>10. CASE t = "MLFQ"
  BY <1>10 DEF InitPolicy, PolicyOK, IsMLFQ
<1>11. CASE t = "SLO"
  <2>1. NewSLOInfo \in SLOInfo
    BY DEF NewSLOInfo, SLOInfo, DeadlineValues, PriorityDefault, UtilMax
  <2>2. QED
    BY <1>11, <1>0, <2>1 DEF InitPolicy, PolicyOK, IsSLO, NoEntry
<1>12. QED
  BY <1>1, <1>2, <1>3, <1>4, <1>5, <1>6, <1>7, <1>8, <1>9, <1>10, <1>11 DEF PolicyType

\* The library's Min and Max, of two numbers.
LEMMA MinTwo ==
  ASSUME NEW a \in Int, NEW b \in Int
  PROVE  Min({a, b}) = IF a <= b THEN a ELSE b
<1>1. \E x \in {a, b} : \A y \in {a, b} : x <= y
  OBVIOUS
<1>2. Min({a, b}) \in {a, b} /\ \A y \in {a, b} : Min({a, b}) <= y
  BY <1>1 DEF Min
<1>3. QED
  BY <1>2

\* The same for the greater of two.
LEMMA MaxTwo ==
  ASSUME NEW a \in Int, NEW b \in Int
  PROVE  Max({a, b}) = IF a >= b THEN a ELSE b
<1>1. \E x \in {a, b} : \A y \in {a, b} : x >= y
  OBVIOUS
<1>2. Max({a, b}) \in {a, b} /\ \A y \in {a, b} : Max({a, b}) >= y
  BY <1>1 DEF Max
<1>3. QED
  BY <1>2

\* The clamp the hints go through (priority, utilization) returns an integer.
LEMMA ClampInt ==
  ASSUME NEW v \in Int, NEW a \in Int, NEW b \in Int
  PROVE  Clamp(v, a, b) \in Int
BY MinTwo, MaxTwo DEF Clamp

\* So do the three ranges hpf.cpp, up.cpp and iah.cpp clamp a hint to.
LEMMA RangesInt ==
  ASSUME NEW v \in Int
  PROVE  /\ Clamp(v, PriorityMin, PriorityMax) \in Int
         /\ Clamp(v, UtilMin, UtilMax) \in Int
         /\ Clamp(v, 0, 10) \in Int
<1>1. /\ PriorityMin \in Int /\ PriorityMax \in Int
      /\ UtilMin \in Int /\ UtilMax \in Int /\ 0 \in Int /\ 10 \in Int
  BY DEF PriorityMin, PriorityMax, UtilMin, UtilMax
<1>2. QED
  BY <1>1, ClampInt, Zenon

\* RecvHint.
LEMMA RecvHintOK ==
  ASSUME NEW p, PolicyOK(p), NEW e, TypedHint(e)
  PROVE  PolicyOK(RecvHint(p, e)) /\ RecvHint(p, e).type = p.type
<1>0. /\ e.kind \in {"Priority", "Laxity", "Deadline"} => e.h \in Handles
      /\ e.kind = "MemoryIntensity" => e.d \in Devices
      /\ e.kind = "Laxity" => e.lax \in Int /\ e.crit \in Int
      /\ e.kind = "Priority" => e.v \in DOMAIN Rate
      /\ e.kind # "WindowActive" => e.v \in Int
      /\ e.kind = "Timeslice" => e.v \in Nat
  BY DEF TypedHint
<1>1. ASSUME IsHPF(p) PROVE IsHPF(HintHPF(p, e)) /\ HintHPF(p, e).type = p.type
  <2> DEFINE v == Clamp(e.v, PriorityMin, PriorityMax)
  <2>1. e.kind = "Priority" => v \in Int
    BY <1>0, RangesInt
  <2> HIDE DEF v
  <2>2. QED
    BY <1>1, <1>0, <2>1 DEF IsHPF, HintHPF, Priorities, v
<1>2. ASSUME IsIAH(p) PROVE IsIAH(HintIAH(p, e)) /\ HintIAH(p, e).type = p.type
  <2> DEFINE v == Clamp(e.v, PriorityMin, PriorityMax)
             w == Clamp(e.v, 0, 10)
  <2>1. (e.kind = "Priority" => v \in Int) /\ (e.kind = "MemoryIntensity" => w \in Int)
    BY <1>0, RangesInt
  <2> HIDE DEF v, w
  <2>2. QED
    BY <1>2, <1>0, <2>1 DEF IsIAH, HintIAH, HintHPF, Priorities, v, w
<1>3. ASSUME IsLAX(p) PROVE IsLAX(HintLAX(p, e)) /\ HintLAX(p, e).type = p.type
  <2> DEFINE x == <<IF e.v < 0 THEN -1 ELSE e.v, e.lax, e.crit>>
  <2>1. e.kind = "Laxity" => x \in Laxities
    BY <1>0 DEF Laxities
  <2>2. HintLAX(p, e) = IF e.kind = "Laxity" THEN [p EXCEPT !.lax[e.h] = x] ELSE p
    BY DEF HintLAX
  <2> HIDE DEF x
  <2>3. QED
    BY <1>3, <1>0, <2>1, <2>2 DEF IsLAX
<1>4. ASSUME IsKEDF(p) PROVE IsKEDF(HintKEDF(p, e)) /\ HintKEDF(p, e).type = p.type
  <2>1. CASE e.kind = "Deadline"
    BY <1>4, <1>0, <2>1 DEF IsKEDF, HintKEDF, DeadlineValues
  <2>2. CASE e.kind = "KDeadline" /\ e.v >= 1
    <3>1. e.v \in Nat /\ HintKEDF(p, e) = [p EXCEPT !.k = e.v]
      BY <1>0, <2>2 DEF HintKEDF
    <3>2. QED
      BY <1>4, <3>1 DEF IsKEDF
  <2>3. CASE e.kind # "Deadline" /\ ~(e.kind = "KDeadline" /\ e.v >= 1)
    BY <1>4, <2>3 DEF HintKEDF
  <2>4. QED
    BY <2>1, <2>2, <2>3
<1>5. ASSUME IsAWF(p) PROVE IsAWF(HintAWF(p, e)) /\ HintAWF(p, e).type = p.type
  <2>1. CASE e.kind # "WindowActive" \/ e.p \notin Pids
    BY <1>5, <2>1 DEF HintAWF
  <2>2. CASE ~(e.kind # "WindowActive" \/ e.p \notin Pids)
    <3>1. PICK F, W : HintAWF(p, e) = [p EXCEPT !.active = (@ \ F) \cup {e.p}, !.windows = W]
      BY <2>2 DEF HintAWF
    <3>2. [p EXCEPT !.active = (@ \ F) \cup {e.p}, !.windows = W]
            \in [type : {"AWF"}, active : SUBSET Pids, windows : {W}]
      BY <1>5, <2>2 DEF IsAWF
    <3>3. QED
      BY <3>1, <3>2 DEF IsAWF
  <2>3. QED
    BY <2>1, <2>2
<1>6. ASSUME IsUP(p) PROVE IsUP(HintUP(p, e)) /\ HintUP(p, e).type = p.type
  <2>1. CASE e.kind = "Utilization" /\ InRange(e.v, UtilMin, UtilMax)
    BY <1>6, <1>0, <2>1 DEF IsUP, HintUP
  <2>2. CASE e.kind = "Timeslice"
    BY <1>6, <1>0, <2>2 DEF IsUP, HintUP
  <2>3. QED
    BY <1>6, <2>1, <2>2 DEF HintUP
<1>7. ASSUME IsPUP(p) PROVE IsPUP(HintPUP(p, e)) /\ HintPUP(p, e).type = p.type
  <2>1. CASE e.kind = "Utilization" /\ e.p \in Pids /\ InRange(e.v, UtilMin, UtilMax)
    BY <1>7, <1>0, <2>1 DEF IsPUP, HintPUP
  <2>2. CASE e.kind = "Timeslice" /\ InRange(e.v, TimesliceMin, TimesliceMax)
    BY <1>7, <1>0, <2>2 DEF IsPUP, HintPUP
  <2>3. QED
    BY <1>7, <2>1, <2>2 DEF HintPUP
<1>8. ASSUME IsCFS(p) PROVE IsCFS(HintCFS(p, e)) /\ HintCFS(p, e).type = p.type
  <2>1. CASE e.kind # "Priority"
    BY <1>8, <2>1 DEF HintCFS
  <2>2. CASE e.kind = "Priority"
    <3> DEFINE n == [(IF p.info[e.h] = <<>> THEN NewCFSNode ELSE p.info[e.h])
                       EXCEPT !.rate = Rate[e.v]]
    <3>1. HintCFS(p, e) = [p EXCEPT !.info[e.h] = n]
      BY <2>2 DEF HintCFS
    <3>2. n \in CFSNode
      <4>1. NewCFSNode \in CFSNode /\ Rate[e.v] \in Nat
        BY <1>0, <2>2, PolicyAssumption DEF NewCFSNode, CFSNode, PriorityDefault
      <4>2. p.info[e.h] \in {<<>>} \cup CFSNode
        BY <1>8, <1>0, <2>2 DEF IsCFS
      <4>3. (IF p.info[e.h] = <<>> THEN NewCFSNode ELSE p.info[e.h]) \in CFSNode
        BY <4>1, <4>2
      <4>4. QED
        BY <4>1, <4>3 DEF CFSNode
    <3> HIDE DEF n
    <3>3. QED
      BY <1>8, <1>0, <2>2, <3>1, <3>2 DEF IsCFS
  <2>3. QED
    BY <2>1, <2>2
<1>9. ASSUME IsSLO(p) PROVE IsSLO(HintSLO(p, e)) /\ HintSLO(p, e).type = p.type
  <2>1. CASE e.kind = "Priority"
    <3> DEFINE v == Clamp(e.v, PriorityMin, PriorityMax)
    <3>1. v \in Int /\ HintSLO(p, e) = [p EXCEPT !.info[e.h].prio = v]
      BY <1>0, <2>1, RangesInt DEF HintSLO
    <3> HIDE DEF v
    <3>2. [p.info[e.h] EXCEPT !.prio = v] \in SLOInfo
      BY <1>9, <1>0, <2>1, <3>1 DEF IsSLO, SLOInfo
    <3>3. HintSLO(p, e)
            = [p EXCEPT !.info = [p.info EXCEPT ![e.h] = [p.info[e.h] EXCEPT !.prio = v]]]
      BY <1>9, <1>0, <2>1, <3>1 DEF IsSLO
    <3>4. QED
      BY <1>9, <3>2, <3>3 DEF IsSLO
  <2>2. CASE e.kind = "Deadline"
    <3> DEFINE v == IF e.v = -1 THEN <<>> ELSE <<e.v>>
    <3>1. v \in DeadlineValues /\ HintSLO(p, e) = [p EXCEPT !.info[e.h].deadline = v]
      BY <1>0, <2>2 DEF HintSLO, DeadlineValues
    <3> HIDE DEF v
    <3>2. [p.info[e.h] EXCEPT !.deadline = v] \in SLOInfo
      BY <1>9, <1>0, <2>2, <3>1 DEF IsSLO, SLOInfo
    <3>3. HintSLO(p, e)
            = [p EXCEPT !.info = [p.info EXCEPT ![e.h] = [p.info[e.h] EXCEPT !.deadline = v]]]
      BY <1>9, <1>0, <2>2, <3>1 DEF IsSLO
    <3>4. QED
      BY <1>9, <3>2, <3>3 DEF IsSLO
  <2>3. CASE e.kind = "Utilization"
    <3> DEFINE v == Clamp(e.v, UtilMin, UtilMax)
               F == [h \in Handles |->
                      IF h = e.h THEN [p.info[h] EXCEPT !.util = v] ELSE p.info[h]]
               G == [q \in Pids |-> IF q = e.p THEN v ELSE p.procUtils[q]]
    <3>1. v \in Int /\ HintSLO(p, e) = [p EXCEPT !.info = F, !.procUtils = G]
      BY <1>0, <2>3, RangesInt DEF HintSLO
    <3>2. F \in [Handles -> SLOInfo]
      <4>1. ASSUME NEW h \in Handles
            PROVE  [p.info[h] EXCEPT !.util = v] \in SLOInfo /\ p.info[h] \in SLOInfo
        <5> HIDE DEF v
        <5>1. QED
          BY <1>9, <3>1 DEF IsSLO, SLOInfo
      <4>2. QED
        BY <4>1
    <3>3. G \in [Pids -> Int]
      BY <1>9, <3>1 DEF IsSLO
    <3> HIDE DEF v, F, G
    <3>4. QED
      BY <1>9, <3>1, <3>2, <3>3 DEF IsSLO
  <2>4. CASE e.kind = "Timeslice" /\ InRange(e.v, TimesliceMin, TimesliceMax)
    BY <1>9, <1>0, <2>4 DEF IsSLO, HintSLO
  <2>5. QED
    BY <1>9, <2>1, <2>2, <2>3, <2>4 DEF HintSLO
<1>11. CASE IsHPF(p)
  BY <1>11, <1>1, TypeOf DEF RecvHint, PolicyOK
<1>12. CASE IsIAH(p)
  BY <1>12, <1>2, TypeOf DEF RecvHint, PolicyOK
<1>13. CASE IsLAX(p)
  BY <1>13, <1>3, TypeOf DEF RecvHint, PolicyOK
<1>14. CASE IsKEDF(p)
  BY <1>14, <1>4, TypeOf DEF RecvHint, PolicyOK
<1>15. CASE IsAWF(p)
  BY <1>15, <1>5, TypeOf DEF RecvHint, PolicyOK
<1>16. CASE IsUP(p)
  BY <1>16, <1>6, TypeOf DEF RecvHint, PolicyOK
<1>17. CASE IsPUP(p)
  BY <1>17, <1>7, TypeOf DEF RecvHint, PolicyOK
<1>18. CASE IsCFS(p)
  BY <1>18, <1>8, TypeOf DEF RecvHint, PolicyOK
<1>19. CASE IsSLO(p)
  BY <1>19, <1>9, TypeOf DEF RecvHint, PolicyOK
<1>20. CASE IsCHPF(p) \/ IsMLFQ(p)
  BY <1>20, TypeOf DEF RecvHint
<1>21. QED
  BY <1>11, <1>12, <1>13, <1>14, <1>15, <1>16, <1>17, <1>18, <1>19, <1>20 DEF PolicyOK

-----------------------------------------------------------------------------
(* The least and the greatest value of a function on a finite set *)

\* A function has a least value on a finite set: a scan over the queues of the
\* status finds one.
LEMMA FiniteLeast ==
  ASSUME NEW S, IsFiniteSet(S), S # {}, NEW f \in [S -> Int]
  PROVE  \E x \in S : \A y \in S : f[x] <= f[y]
<1> DEFINE HasLeast(T) == \E x \in T : \A y \in T : f[x] <= f[y]
           Bad == {n \in Nat : \E T \in SUBSET S : T # {} /\ Cardinality(T) = n /\ ~HasLeast(T)}
           R == {ss \in Nat \X Nat : ss[1] < ss[2]}
<1>1. SUFFICES ASSUME ~HasLeast(S) PROVE FALSE
  OBVIOUS
<1>2. Cardinality(S) \in Bad
  BY <1>1, FS_CardinalityType
<1>3. IsWellFoundedOn(R, Nat)
  BY NatLessThanWellFounded DEF OpToRel
<1>4. PICK n \in Bad : \A m \in Bad : ~(<<m, n>> \in R)
  <2>1. Bad \subseteq Nat /\ Bad # {}
    BY <1>2
  <2> HIDE DEF R, Bad
  <2>2. QED
    BY <1>3, <2>1, WFMin
<1>5. PICK T \in SUBSET S : T # {} /\ Cardinality(T) = n /\ ~HasLeast(T)
  BY <1>4
<1>6. PICK x \in T : TRUE
  BY <1>5
<1>7. IsFiniteSet(T)
  BY FS_Subset
<1>8. IsFiniteSet(T \ {x}) /\ Cardinality(T \ {x}) = n - 1
  BY <1>5, <1>7, FS_RemoveElement
<1>9. HasLeast(T \ {x}) \/ T \ {x} = {}
  <2>1. n - 1 \in Nat /\ n \in Nat
    BY <1>8, FS_CardinalityType, <1>4
  <2>2. <<n - 1, n>> \in R
    BY <2>1
  <2>3. n - 1 \notin Bad
    BY <1>4, <2>2
  <2>4. QED
    BY <2>1, <2>3, <1>8
<1>10. CASE T \ {x} = {}
  <2>1. T = {x} /\ f[x] \in Int
    BY <1>10
  <2>2. QED
    BY <2>1, <1>5
<1>11. CASE HasLeast(T \ {x})
  <2>1. PICK y \in T \ {x} : \A z \in T \ {x} : f[y] <= f[z]
    BY <1>11
  <2>2. \A z \in T : f[z] \in Int
    OBVIOUS
  <2>3. CASE f[x] <= f[y]
    <3>1. \A z \in T : f[x] <= f[z]
      BY <2>1, <2>2, <2>3
    <3>2. QED
      BY <3>1, <1>5
  <2>4. CASE ~(f[x] <= f[y])
    <3>1. \A z \in T : f[y] <= f[z]
      BY <2>1, <2>2, <2>4
    <3>2. QED
      BY <3>1, <1>5
  <2>5. QED
    BY <2>3, <2>4
<1>12. QED
  BY <1>9, <1>10, <1>11

\* And a greatest one.
LEMMA FiniteGreatest ==
  ASSUME NEW S, IsFiniteSet(S), S # {}, NEW f \in [S -> Int]
  PROVE  \E x \in S : \A y \in S : f[x] >= f[y]
<1> DEFINE g == [x \in S |-> -f[x]]
<1>1. g \in [S -> Int] /\ \A x \in S : g[x] = -f[x] /\ f[x] \in Int
  OBVIOUS
<1> HIDE DEF g
<1>2. PICK x \in S : \A y \in S : g[x] <= g[y]
  BY <1>1, FiniteLeast
<1>3. \A y \in S : f[x] >= f[y]
  BY <1>1, <1>2
<1>4. QED
  BY <1>3

\* The library's Min and Max of the values.
LEMMA MinOfValues ==
  ASSUME NEW S, IsFiniteSet(S), S # {}, NEW f \in [S -> Int], NEW V, V = {f[x] : x \in S}
  PROVE  Min(V) \in V /\ \A v \in V : Min(V) <= v
<1>1. \E v \in V : \A w \in V : v <= w
  BY FiniteLeast
<1>2. QED
  BY <1>1 DEF Min

\* The library's Max of the values.
LEMMA MaxOfValues ==
  ASSUME NEW S, IsFiniteSet(S), S # {}, NEW f \in [S -> Int], NEW V, V = {f[x] : x \in S}
  PROVE  Max(V) \in V /\ \A v \in V : Max(V) >= v
<1>1. \E v \in V : \A w \in V : v >= w
  BY FiniteGreatest
<1>2. QED
  BY <1>1 DEF Max

\* An entry is not the empty tuple.
LEMMA NodeNotEmpty == (\A i \in CFSNode : i # <<>>) /\ (\A i \in MLFQNode : i # <<>>)
<1>1. DOMAIN <<>> = {}
  OBVIOUS
<1>2. ASSUME NEW i \in CFSNode PROVE "age" \in DOMAIN i
  BY DEF CFSNode
<1>3. ASSUME NEW i \in MLFQNode PROVE "age" \in DOMAIN i
  BY DEF MLFQNode
<1>4. QED
  BY <1>1, <1>2, <1>3, Zenon

-----------------------------------------------------------------------------
(* The clock and Sched keep the state of a policy in shape *)

\* Time passing changes the ages the policies measure with, and nothing else.
LEMMA AgePolicyOK ==
  ASSUME NEW p, PolicyOK(p)
  PROVE  PolicyOK(AgePolicy(p)) /\ AgePolicy(p).type = p.type
<1>1. CASE IsUP(p)
  <2>1. AgePolicy(p) = [p EXCEPT !.rest = Rest(p.rest, 1)]
    BY <1>1, TypeOf DEF AgePolicy
  <2>2. [p EXCEPT !.rest = Rest(p.rest, 1)]
          \in [type : {"UP"}, utils : [Handles -> Int], timeslice : Nat,
               cur : Handles \cup {None}, rest : {Rest(p.rest, 1)}]
    BY <1>1 DEF IsUP
  <2>3. QED
    BY <1>1, <2>1, <2>2, TypeOf DEF IsUP, PolicyOK
<1>2. CASE IsPUP(p)
  <2>1. AgePolicy(p) = [p EXCEPT !.rest = Rest(p.rest, 1)]
    BY <1>2, TypeOf DEF AgePolicy
  <2>2. [p EXCEPT !.rest = Rest(p.rest, 1)]
          \in [type : {"PUP"}, utils : [Pids -> Int], timeslice : Nat,
               runQueue : {p.runQueue}, rest : {Rest(p.rest, 1)}]
    BY <1>2 DEF IsPUP
  <2>3. QED
    BY <1>2, <2>1, <2>2, TypeOf DEF IsPUP, PolicyOK
<1>3. CASE IsCFS(p)
  <2> DEFINE I == [h \in Handles |-> AgeInfo("CFS", p.info[h])]
  <2>1. AgePolicy(p) = [p EXCEPT !.info = I]
    BY <1>3, TypeOf DEF AgePolicy
  <2>2. ASSUME NEW h \in Handles PROVE I[h] \in {<<>>} \cup CFSNode
    <3>1. p.info[h] \in {<<>>} \cup CFSNode
      BY <1>3 DEF IsCFS
    <3>2. QED
      BY <3>1 DEF AgeInfo, CFSNode
  <2> HIDE DEF I
  <2>3. I \in [Handles -> {<<>>} \cup CFSNode]
    BY <2>2 DEF I
  <2>4. QED
    BY <1>3, <2>1, <2>3 DEF IsCFS, PolicyOK
<1>4. CASE IsMLFQ(p)
  <2> DEFINE I == [h \in Handles |-> AgeInfo("MLFQ", p.info[h])]
  <2>1. AgePolicy(p) = [p EXCEPT !.info = I]
    BY <1>4, TypeOf DEF AgePolicy
  <2>2. ASSUME NEW h \in Handles PROVE I[h] \in {<<>>} \cup MLFQNode
    <3>1. p.info[h] \in {<<>>} \cup MLFQNode
      BY <1>4 DEF IsMLFQ
    <3>2. CASE p.info[h] = <<>>
      BY <3>2 DEF AgeInfo
    <3>3. CASE p.info[h] # <<>>
      <4> DEFINE i == p.info[h]
                 a == i.age + 1
                 b == i.sinceUpdate + 1
                 c == i.sincePending + 1
      <4>1. i \in MLFQNode /\ I[h] = [i EXCEPT !.age = a, !.sinceUpdate = b, !.sincePending = c]
        BY <3>1, <3>3 DEF AgeInfo
      <4>2. a \in Nat /\ b \in Nat /\ c \in Nat
        BY <4>1 DEF MLFQNode
      <4> HIDE DEF a, b, c, i, I
      <4>3. QED
        BY <4>1, <4>2 DEF MLFQNode
    <3>4. QED
      BY <3>2, <3>3
  <2> HIDE DEF I
  <2>3. I \in [Handles -> {<<>>} \cup MLFQNode]
    BY <2>2 DEF I
  <2>4. QED
    BY <1>4, <2>1, <2>3 DEF IsMLFQ, PolicyOK
<1>5. CASE IsSLO(p)
  <2> DEFINE I == [h \in Handles |-> AgeInfo("SLO", p.info[h])]
  <2>1. AgePolicy(p) = [p EXCEPT !.info = I]
    BY <1>5, TypeOf DEF AgePolicy
  <2>2. ASSUME NEW h \in Handles PROVE I[h] \in SLOInfo
    <3>1. p.info[h] \in SLOInfo
      BY <1>5 DEF IsSLO
    <3>2. QED
      BY <3>1 DEF AgeInfo, SLOInfo
  <2> HIDE DEF I
  <2>3. I \in [Handles -> SLOInfo]
    BY <2>2 DEF I
  <2>4. QED
    BY <1>5, <2>1, <2>3 DEF IsSLO, PolicyOK
<1>6. CASE p.type \notin {"UP", "PUP", "CFS", "MLFQ", "SLO"}
  BY <1>6 DEF AgePolicy
<1>7. QED
  BY <1>1, <1>2, <1>3, <1>4, <1>5, <1>6, TypeOf DEF PolicyOK

\* The choice of one queue for each device.
OneEach(st, best) ==
  /\ best \in [BusyDevices(st) -> ReadyQueues(st)]
  /\ \A d \in BusyDevices(st) : best[d] \in OnDevice(st, d)
Run1(st, best) == {best[d] : d \in BusyDevices(st)}

\* Sched of IAH.
TopPriority(p, st) == Max({PriorityMin} \cup {p.prio[h] : h \in ReadyQueues(st)})
IAHRuns(p, st, best, global) ==
  {h \in ReadyQueues(st) :
     /\ best[st.device[h]] = h
     /\ \/ p.prio[h] >= TopPriority(p, st)
        \/ global # st.device[h] /\ ~IsHighInterference(p, st.device[h], global)}
IAHOutcome(p, st, o, best, global) ==
  /\ OneEach(st, best)
  /\ \A d \in BusyDevices(st) : \A y \in OnDevice(st, d) : -p.prio[best[d]] <= -p.prio[y]
  /\ o.pol = p
  /\ o.run = IAHRuns(p, st, best, global)
  /\ o.stop = ReadyQueues(st) \ IAHRuns(p, st, best, global) /\ o.timers = {}

\* Sched of IAH chooses a queue for each device and a device of the highest intensity,
\* and runs the chosen queues of the highest priority or of a device that does not
\* interfere.
LEMMA SchedIAHOutcome ==
  ASSUME NEW p, p.type = "IAH", NEW st, NEW o \in PolicySched(p, st)
  PROVE  \E best, global : IAHOutcome(p, st, o, best, global)
<1> DEFINE top == TopPriority(p, st)
           R(best, global) == {h \in ReadyQueues(st) :
             /\ best[st.device[h]] = h
             /\ \/ p.prio[h] >= top
                \/ global # st.device[h] /\ ~IsHighInterference(p, st.device[h], global)}
           Best == [d \in BusyDevices(st) |-> {x \in OnDevice(st, d) :
                      \A y \in OnDevice(st, d) : -p.prio[x] <= -p.prio[y]}]
           F(best, global) == Outcome(p, ReadyQueues(st) \ R(best, global), R(best, global), {})
<1>1. o \in SchedIAH(p, st)
  BY DEF PolicySched
<1>2. SchedIAH(p, st) = {F(best, global) : best \in BestPerDevice(st, Best),
                                           global \in GlobalMaxDevices(p, st)}
  BY SMT DEF SchedIAH, Least, TopPriority
<1>3. PICK best \in BestPerDevice(st, Best), global \in GlobalMaxDevices(p, st) :
           o = F(best, global)
  <2> HIDE DEF F, Best
  <2>1. QED
    BY <1>1, <1>2
<1>4. /\ best \in [BusyDevices(st) -> ReadyQueues(st)]
      /\ \A d \in BusyDevices(st) : best[d] \in Best[d]
  BY DEF BestPerDevice
<1>5. OneEach(st, best)
  BY <1>4 DEF OneEach
<1>6. R(best, global) = IAHRuns(p, st, best, global)
  BY DEF IAHRuns
<1> HIDE DEF R
<1>7. /\ o.pol = p /\ o.run = R(best, global) /\ o.stop = ReadyQueues(st) \ R(best, global)
      /\ o.timers = {}
  BY <1>3 DEF Outcome
<1>8. QED
  BY <1>4, <1>5, <1>6, <1>7 DEF IAHOutcome

\* The policies that keep no state of their own.
LEMMA RankingKeeps ==
  ASSUME NEW p, NEW st, NEW o \in PolicySched(p, st),
         p.type \in {"HPF", "HHPF", "CHPF", "LAX", "KEDF", "IAH", "AWF"}
  PROVE  o.pol = p
<1>1. CASE p.type \in {"HPF", "HHPF", "CHPF"}
  <2>1. CASE p.type = "HPF"
    BY <2>1 DEF PolicySched, SchedHPF, ByPriority, Outcome
  <2>2. CASE p.type = "HHPF"
    BY <2>2 DEF PolicySched, SchedHHPF, ByPriority, Outcome
  <2>3. CASE p.type = "CHPF"
    BY <2>3 DEF PolicySched, SchedCHPF, ByPriority, Outcome
  <2>4. QED
    BY <1>1, <2>1, <2>2, <2>3
<1>2. CASE p.type = "LAX"
  BY <1>2 DEF PolicySched, SchedLAX, Outcome
<1>3. CASE p.type = "KEDF"
  BY <1>3 DEF PolicySched, SchedKEDF, Outcome
<1>4. CASE p.type = "IAH"
  BY <1>4, SchedIAHOutcome DEF IAHOutcome
<1>5. CASE p.type = "AWF"
  BY <1>5 DEF PolicySched, SchedAWF, Outcome
<1>6. QED
  BY <1>1, <1>2, <1>3, <1>4, <1>5

\* The entries of SLO after the choice of R.
SLOAfter(info, st, R) ==
  [h \in Handles |-> IF h \notin st.known THEN info[h]
     ELSE [info[h] EXCEPT !.running = h \in R, !.age = IF h \in R THEN 0 ELSE @]]

\* Most of them set no timers.
LEMMA NoTimers ==
  ASSUME NEW p, NEW st, NEW o \in PolicySched(p, st),
         p.type \in {"HPF", "HHPF", "CHPF", "KEDF", "IAH", "AWF"}
  PROVE  o.timers = {}
<1>1. CASE p.type = "HPF"
  BY <1>1 DEF PolicySched, SchedHPF, ByPriority, Outcome
<1>2. CASE p.type = "HHPF"
  BY <1>2 DEF PolicySched, SchedHHPF, ByPriority, Outcome
<1>3. CASE p.type = "CHPF"
  BY <1>3 DEF PolicySched, SchedCHPF, ByPriority, Outcome
<1>4. CASE p.type = "KEDF"
  BY <1>4 DEF PolicySched, SchedKEDF, Outcome
<1>5. CASE p.type = "IAH"
  BY <1>5, SchedIAHOutcome DEF IAHOutcome
<1>6. CASE p.type = "AWF"
  BY <1>6 DEF PolicySched, SchedAWF, Outcome
<1>7. QED
  BY <1>1, <1>2, <1>3, <1>4, <1>5, <1>6

\* PickBestQueue picks one of the queues it is given.
LEMMA PickBestInside ==
  ASSUME NEW p, NEW st, NEW info, NEW S
  PROVE  PickBestQueue(p, st, info, S) \subseteq S
BY DEF PickBestQueue, Least

\* Sched of SLO.
SLOOutcome(p, st, o, info, best) ==
  /\ OneEach(st, best)
  /\ \A d \in BusyDevices(st) : best[d] \in PickBestQueue(p, st, info, OnDevice(st, d))
  /\ o.pol = [p EXCEPT !.info = SLOAfter(info, st, Run1(st, best))]
  /\ o.stop = {h \in ReadyQueues(st) \ Run1(st, best) :
                info[h].running \/ h \notin st.suspended}
  /\ o.run = {h \in Run1(st, best) : ~info[h].running}
  /\ o.timers = IF ReadyQueues(st) = {} THEN {} ELSE {p.timeslice}

\* Sched of SLO picks the best queue of each device, stops the others and sets the timer.
LEMMA SchedSLOOutcome ==
  ASSUME NEW p, IsSLO(p), NEW st, NEW o \in PolicySched(p, st), NEW info,
         info = UpdateRuntime(p, st)
  PROVE  \E best : SLOOutcome(p, st, o, info, best)
<1> DEFINE Best == [d \in BusyDevices(st) |-> PickBestQueue(p, st, info, OnDevice(st, d))]
           Run(best) == {best[d] : d \in DOMAIN best}
<1>1. o \in SchedSLO(p, st)
  BY TypeOf DEF PolicySched
<1>2. PICK best \in BestPerDevice(st, Best) :
        o = Outcome([p EXCEPT !.info = SLOAfter(info, st, Run(best))],
              {h \in ReadyQueues(st) \ Run(best) : info[h].running \/ h \notin st.suspended},
              {h \in Run(best) : ~info[h].running},
              IF ReadyQueues(st) = {} THEN {} ELSE {p.timeslice})
  BY <1>1 DEF SchedSLO, SLOAfter
<1>3. /\ best \in [BusyDevices(st) -> ReadyQueues(st)]
      /\ \A d \in BusyDevices(st) : best[d] \in PickBestQueue(p, st, info, OnDevice(st, d))
  BY DEF BestPerDevice
<1>4. OneEach(st, best)
  BY <1>3, PickBestInside DEF OneEach
<1>5. Run(best) = Run1(st, best)
  BY <1>3 DEF Run1
<1> HIDE DEF Run
<1>6. /\ o.pol = [p EXCEPT !.info = SLOAfter(info, st, Run1(st, best))]
      /\ o.stop = {h \in ReadyQueues(st) \ Run1(st, best) :
                    info[h].running \/ h \notin st.suspended}
      /\ o.run = {h \in Run1(st, best) : ~info[h].running}
      /\ o.timers = IF ReadyQueues(st) = {} THEN {} ELSE {p.timeslice}
  BY <1>2, <1>5 DEF Outcome
<1>7. QED
  BY <1>3, <1>4, <1>6 DEF SLOOutcome

\* Sched of CFS.
CFSOutcome(p, st, o, info, best) ==
  /\ OneEach(st, best)
  /\ \A d \in BusyDevices(st) : \A y \in OnDevice(st, d) :
       info[best[d]].vruntime <= info[y].vruntime
  /\ o.pol = [p EXCEPT !.info = Chosen(info, st, Run1(st, best))]
  /\ o.stop = ReadyQueues(st) \ Run1(st, best)
  /\ o.run = {h \in Run1(st, best) : ~info[h].running}
  /\ o.timers = IF ReadyQueues(st) = {} THEN {} ELSE {Timeslice}

\* Sched of CFS runs a queue of the least runtime on each device and stops the others.
LEMMA SchedCFSOutcome ==
  ASSUME NEW p, IsCFS(p), NEW st, NEW o \in PolicySched(p, st), NEW info,
         info = Inherit(Charge(p, st), st)
  PROVE  \E best : CFSOutcome(p, st, o, info, best)
<1> DEFINE Best == [d \in BusyDevices(st) |-> LeastRuntime(info, OnDevice(st, d))]
           Run(best) == {best[d] : d \in DOMAIN best}
<1>1. o \in SchedCFS(p, st)
  BY TypeOf DEF PolicySched
<1>2. PICK best \in BestPerDevice(st, Best) :
        o = Outcome([p EXCEPT !.info = Chosen(info, st, Run(best))],
              ReadyQueues(st) \ Run(best), {h \in Run(best) : ~info[h].running},
              IF ReadyQueues(st) = {} THEN {} ELSE {Timeslice})
  BY <1>1 DEF SchedCFS
<1>3. /\ best \in [BusyDevices(st) -> ReadyQueues(st)]
      /\ \A d \in BusyDevices(st) : best[d] \in LeastRuntime(info, OnDevice(st, d))
  BY DEF BestPerDevice
<1>4. \A d \in BusyDevices(st) :
        /\ best[d] \in OnDevice(st, d)
        /\ \A y \in OnDevice(st, d) : info[best[d]].vruntime <= info[y].vruntime
  BY <1>3 DEF LeastRuntime, Least
<1>5. OneEach(st, best)
  BY <1>3, <1>4 DEF OneEach
<1>6. Run(best) = Run1(st, best)
  BY <1>3 DEF Run1
<1> HIDE DEF Run
<1>7. /\ o.pol = [p EXCEPT !.info = Chosen(info, st, Run1(st, best))]
      /\ o.stop = ReadyQueues(st) \ Run1(st, best)
      /\ o.run = {h \in Run1(st, best) : ~info[h].running}
      /\ o.timers = IF ReadyQueues(st) = {} THEN {} ELSE {Timeslice}
  BY <1>2, <1>6 DEF Outcome
<1>8. QED
  BY <1>4, <1>5, <1>7 DEF CFSOutcome

\* The entries of CFS while Sched goes on: every ready queue gets one.
LEMMA CFSEntries ==
  ASSUME NEW p, IsCFS(p), NEW st \in Status, NEW info, info = Inherit(Charge(p, st), st)
  PROVE  /\ info \in [Handles -> {<<>>} \cup CFSNode]
         /\ \A h \in ReadyQueues(st) : info[h] \in CFSNode
         /\ \A h \in Handles : info[h] # <<>> /\ info[h].running =>
              p.info[h] # <<>> /\ p.info[h].running
         /\ \A h \in st.known : p.info[h] # <<>> /\ p.info[h].running =>
              info[h] # <<>> /\ info[h].running
<1> DEFINE C == Charge(p, st)
<1>0. IsFiniteSet(Handles) /\ ReadyQueues(st) \subseteq Handles /\ NewCFSNode \in CFSNode
      /\ ~NewCFSNode.running
  BY PolicyAssumption DEF Status, ReadyQueues, NewCFSNode, CFSNode, PriorityDefault
<1>1. ASSUME NEW h \in Handles
      PROVE  /\ C[h] \in {<<>>} \cup CFSNode
             /\ C[h] = <<>> => p.info[h] = <<>>
             /\ p.info[h] = <<>> => C[h] = <<>>
             /\ C[h] # <<>> => C[h].running = p.info[h].running
  <2>1. p.info[h] \in {<<>>} \cup CFSNode
    BY DEF IsCFS
  <2>2. CASE h \notin st.known \/ p.info[h] = <<>> \/ ~p.info[h].running
    BY <2>1, <2>2 DEF Charge
  <2>3. CASE ~(h \notin st.known \/ p.info[h] = <<>> \/ ~p.info[h].running)
    <3> DEFINE i == p.info[h]
               v == i.vruntime + i.age * i.rate
    <3>1. i \in CFSNode /\ C[h] = [i EXCEPT !.vruntime = v, !.age = 0] /\ p.info[h] # <<>>
      BY <2>1, <2>3 DEF Charge
    <3>2. v \in Int
      BY <3>1 DEF CFSNode
    <3> HIDE DEF v, i
    <3>3. C[h] \in CFSNode /\ C[h].running = i.running
      <4>1. [i EXCEPT !.vruntime = v, !.age = 0] \in CFSNode
            /\ [i EXCEPT !.vruntime = v, !.age = 0].running = i.running
        BY <3>1, <3>2 DEF CFSNode
      <4>2. QED
        BY <3>1, <4>1
    <3>4. C[h] # <<>>
      BY <3>3, NodeNotEmpty
    <3>5. QED
      BY <3>1, <3>3, <3>4 DEF i
  <2>4. QED
    BY <2>2, <2>3
<1>2. ASSUME NEW h \in ReadyQueues(st), C[h] = <<>>
      PROVE  info[h] \in CFSNode /\ ~info[h].running
  <2> DEFINE S == {x \in OnDevice(st, st.device[h]) : C[x] # <<>>}
             V == {C[g].vruntime : g \in S}
             m == IF V = {} THEN 0 ELSE Min(V)
  <2>1. info[h] = [NewCFSNode EXCEPT !.vruntime = m]
    BY <1>0, <1>2 DEF Inherit
  <2>2. m \in Int
    <3>1. CASE V = {}
      BY <3>1
    <3>2. CASE V # {}
      <4> DEFINE f == [g \in S |-> C[g].vruntime]
      <4>1. S \subseteq Handles /\ S # {}
        BY <1>0, <3>2 DEF OnDevice
      <4>2. IsFiniteSet(S)
        BY <4>1, <1>0, FS_Subset
      <4>3. f \in [S -> Int]
        <5>1. ASSUME NEW g \in S PROVE C[g].vruntime \in Int
          <6>1. C[g] \in CFSNode
            BY <1>1, <4>1
          <6>2. QED
            BY <6>1 DEF CFSNode
        <5>2. QED
          BY <5>1
      <4>4. V = {f[g] : g \in S}
        OBVIOUS
      <4> HIDE DEF f, S, V
      <4>5. Min(V) \in V
        BY <4>1, <4>2, <4>3, <4>4, MinOfValues
      <4>6. Min(V) \in Int
        BY <4>3, <4>4, <4>5 
      <4>7. QED
        BY <4>6, <3>2
    <3>3. QED
      BY <3>1, <3>2
  <2> HIDE DEF m
  <2>3. QED
    BY <1>0, <2>1, <2>2 DEF CFSNode
<1>3. \A h \in Handles : C[h] # <<>> \/ h \notin ReadyQueues(st) => info[h] = C[h]
  BY DEF Inherit
<1>4. info \in [Handles -> {<<>>} \cup CFSNode]
  <2>1. info = [h \in Handles |-> info[h]]
    BY DEF Inherit
  <2>2. \A h \in Handles : info[h] \in {<<>>} \cup CFSNode
    BY <1>1, <1>2, <1>3
  <2>3. QED
    BY <2>1, <2>2
<1> HIDE DEF C
<1>5. QED
  BY <1>0, <1>1, <1>2, <1>3, <1>4 DEF Status

\* The steps of an entry of MLFQ.
WithinSlice(i) == i.used < SliceOf[i.prio]

\* An entry that has used nothing is within its time slice, which is not zero.
LEMMA UnusedSlice ==
  ASSUME NEW i \in MLFQNode, i.used = 0
  PROVE  WithinSlice(i)
<1>1. i.prio \in Levels
  BY DEF MLFQNode
<1>2. SliceOf[i.prio] \in Nat \ {0}
  BY <1>1, PolicyAssumption DEF Levels, MaxLevel
<1>3. QED
  BY <1>2 DEF WithinSlice

\* The accounting of Sched of MLFQ charges only a queue that runs and is ready.
LEMMA MLFQAccount ==
  ASSUME NEW i \in MLFQNode, NEW b \in BOOLEAN
  PROVE  /\ Account(i, b) \in MLFQNode /\ Account(i, b).running = i.running
         /\ Account(i, b).prio = i.prio
         /\ ~i.running => Account(i, b).used = i.used
         /\ ~b => Account(i, b).used = i.used
<1> DEFINE s == IF b /\ ~i.wasReady THEN 0 ELSE i.sincePending
           j == [i EXCEPT !.wasReady = b, !.sincePending = s]
<1>1. s \in Nat
  BY DEF MLFQNode
<1> HIDE DEF s
<1>2. /\ j \in MLFQNode /\ j.running = i.running /\ j.prio = i.prio /\ j.used = i.used
      /\ j.pending = i.pending /\ j.age = i.age /\ j.sincePending = s
  BY <1>1 DEF MLFQNode
<1>3. Account(i, b) = IF ~b THEN j
                      ELSE IF j.running THEN [j EXCEPT !.used = j.used + j.age, !.age = 0]
                      ELSE [j EXCEPT !.pending = j.pending + j.sincePending, !.sincePending = 0]
  BY <1>2 DEF Account, s, MLFQNode
<1> HIDE DEF j
<1>4. /\ Account(i, b) \in MLFQNode /\ Account(i, b).running = i.running
      /\ Account(i, b).prio = i.prio
      /\ (~i.running => Account(i, b).used = i.used)
      /\ (~b => Account(i, b).used = i.used)
  <2>1. CASE ~b
    BY <1>2, <1>3, <2>1
  <2>2. CASE b /\ j.running
    <3> DEFINE u == j.used + j.age
    <3>1. u \in Nat
      BY <1>2 DEF MLFQNode
    <3> HIDE DEF u
    <3>2. /\ [j EXCEPT !.used = u, !.age = 0] \in MLFQNode
          /\ [j EXCEPT !.used = u, !.age = 0].running = j.running
          /\ [j EXCEPT !.used = u, !.age = 0].prio = j.prio
      BY <1>2, <3>1 DEF MLFQNode
    <3>3. QED
      BY <1>2, <1>3, <2>2, <3>2 DEF u
  <2>3. CASE b /\ ~j.running
    <3> DEFINE u == j.pending + j.sincePending
    <3>1. u \in Nat
      BY <1>2 DEF MLFQNode
    <3> HIDE DEF u
    <3>2. /\ [j EXCEPT !.pending = u, !.sincePending = 0] \in MLFQNode
          /\ [j EXCEPT !.pending = u, !.sincePending = 0].running = j.running
          /\ [j EXCEPT !.pending = u, !.sincePending = 0].prio = j.prio
          /\ [j EXCEPT !.pending = u, !.sincePending = 0].used = j.used
      BY <1>2, <3>1 DEF MLFQNode
    <3>3. QED
      BY <1>2, <1>3, <2>3, <3>2 DEF u
  <2>4. QED
    BY <2>1, <2>2, <2>3
<1>5. QED
  BY <1>4

\* A queue that is promoted or demoted starts with an unused slice.
LEMMA MLFQMoves ==
  ASSUME NEW i \in MLFQNode
  PROVE  /\ Recover(i) \in MLFQNode /\ Recover(i).running = i.running /\ Recover(i).used = 0
         /\ WithinSlice(Recover(i))
         /\ Demote(i) \in MLFQNode /\ ~Demote(i).running /\ Demote(i).used = 0
         /\ WithinSlice(Demote(i))
<1>1. Recover(i) \in MLFQNode /\ Recover(i).running = i.running /\ Recover(i).used = 0
  <2> DEFINE q == IF i.prio > 0 THEN i.prio - 1 ELSE 0
  <2>1. q \in Levels
    BY DEF MLFQNode, Levels, MaxLevel
  <2> DEFINE r == [i EXCEPT !.prio = q, !.sinceUpdate = 0, !.pending = 0, !.used = 0]
  <2>2. Recover(i) = r
    BY DEF Recover
  <2> HIDE DEF q
  <2>3. r \in MLFQNode
    BY <2>1 DEF MLFQNode
  <2>4. r.running = i.running /\ r.used = 0
    BY DEF MLFQNode
  <2>5. QED
    BY <2>2, <2>3, <2>4
<1>2. Demote(i) \in MLFQNode /\ ~Demote(i).running /\ Demote(i).used = 0
  <2> DEFINE q == IF i.prio < MaxLevel THEN i.prio + 1 ELSE i.prio
  <2>1. q \in Levels
    BY DEF MLFQNode, Levels, MaxLevel
  <2> DEFINE r == [i EXCEPT !.prio = q, !.running = FALSE, !.sinceUpdate = 0, !.used = 0,
                            !.pending = 0, !.sincePending = 0]
  <2>2. Demote(i) = r
    BY DEF Demote
  <2> HIDE DEF q
  <2>3. r \in MLFQNode
    BY <2>1 DEF MLFQNode
  <2>4. ~r.running /\ r.used = 0
    BY DEF MLFQNode
  <2>5. QED
    BY <2>2, <2>3, <2>4
<1>3. QED
  BY <1>1, <1>2, UnusedSlice

\* Sched of MLFQ: the entries before the choice, and the choice.
MLFQAfter(info, st, R) ==
  [h \in Handles |->
     IF h \notin st.known THEN info[h]
     ELSE IF h \in R
     THEN [info[h] EXCEPT !.running = TRUE, !.age = 0,
             !.sincePending = IF info[h].running THEN @ ELSE 0]
     ELSE [info[h] EXCEPT !.running = FALSE,
             !.sincePending = IF h \in {g \in ReadyQueues(st) \ R : info[g].running}
                              THEN 0 ELSE @]]
MLFQOutcome(p, st, o, info, demoted, best) ==
  /\ OneEach(st, best)
  /\ info \in [Handles -> {<<>>} \cup MLFQNode]
  /\ \A h \in st.known : info[h] \in MLFQNode
  /\ \A h \in Handles \ st.known : info[h] = p.info[h]
  /\ \A h \in st.known : info[h].running => p.info[h] # <<>> /\ p.info[h].running
  /\ demoted \subseteq ReadyQueues(st) /\ \A h \in demoted : ~info[h].running
  /\ \A h \in st.known :
       (p.info[h] # <<>> => WithinSlice(p.info[h])) => WithinSlice(info[h])
  /\ o.pol = [p EXCEPT !.info = MLFQAfter(info, st, Run1(st, best))]
  /\ o.stop = demoted \cup {h \in ReadyQueues(st) \ Run1(st, best) : info[h].running}
  /\ o.run = {h \in Run1(st, best) : ~info[h].running}
  /\ o.timers = IF ReadyQueues(st) = {} THEN {} ELSE {Timeslice}

\* Sched of MLFQ accounts, promotes and demotes the entries, runs one queue for each
\* device, and stops the demoted and the running ones not chosen.  No entry it leaves
\* has used up its slice.
LEMMA SchedMLFQOutcome ==
  ASSUME NEW p, IsMLFQ(p), NEW st \in Status, NEW o \in PolicySched(p, st)
  PROVE  \E info, demoted, best : MLFQOutcome(p, st, o, info, demoted, best)
<1> DEFINE Node(h) == IF p.info[h] = <<>> THEN NewMLFQNode ELSE p.info[h]
           first == [h \in Handles |-> IF h \in st.known
                                       THEN Account(Node(h), h \in st.ready) ELSE p.info[h]]
           Peers(h) == {g \in OnDevice(st, st.device[h]) : first[g].prio = first[h].prio}
           second == [h \in Handles |->
                        IF h \in ReadyQueues(st) /\ Recovers(first[h], Cardinality(Peers(h)))
                        THEN Recover(first[h]) ELSE first[h]]
           demoted == {h \in ReadyQueues(st) : Exhausted(second[h])}
           info == [h \in Handles |-> IF h \in demoted THEN Demote(second[h]) ELSE second[h]]
           Best == [d \in BusyDevices(st) |->
                     Least(Least(OnDevice(st, d), LAMBDA h : info[h].prio),
                           LAMBDA h : -info[h].pending)]
           Run(best) == {best[d] : d \in DOMAIN best}
           Stopped(R) == {h \in ReadyQueues(st) \ R : info[h].running}
           F(best) == Outcome([p EXCEPT !.info = MLFQAfter(info, st, Run(best))],
                        demoted \cup Stopped(Run(best)), {h \in Run(best) : ~info[h].running},
                        IF ReadyQueues(st) = {} THEN {} ELSE {Timeslice})
<1>0. st.known \subseteq Handles /\ ReadyQueues(st) \subseteq st.known
  BY DEF Status, ReadyQueues
<1>1. o \in SchedMLFQ(p, st)
  BY TypeOf DEF PolicySched
<1>2. SchedMLFQ(p, st) = {F(best) : best \in BestPerDevice(st, Best)}
  BY SMT DEF SchedMLFQ, Least, MLFQAfter
<1> HIDE DEF Best
<1>3. PICK best \in BestPerDevice(st, Best) : o = F(best)
  <2> HIDE DEF F
  <2>1. QED
    BY <1>1, <1>2
<1>4. OneEach(st, best)
  <2>1. \A d \in BusyDevices(st) : Best[d] \subseteq OnDevice(st, d)
    BY DEF Least, Best
  <2>2. QED
    BY <2>1 DEF BestPerDevice, OneEach
<1>5. Run(best) = Run1(st, best)
  BY <1>4 DEF Run1, OneEach
<1>6. ASSUME NEW h \in Handles \ st.known PROVE info[h] = p.info[h]
  BY <1>0, <1>6
<1>7. ASSUME NEW h \in st.known
      PROVE  /\ second[h] \in MLFQNode
             /\ second[h].running => p.info[h] # <<>> /\ p.info[h].running
             /\ ~Exhausted(second[h]) \/ h \notin st.ready
                  => ((p.info[h] # <<>> => WithinSlice(p.info[h])) => WithinSlice(second[h]))
  <2>0. h \in Handles
    BY <1>0
  <2>1. Node(h) \in MLFQNode /\ (p.info[h] = <<>> => ~Node(h).running /\ Node(h).used = 0)
    <3>1. NewMLFQNode \in MLFQNode /\ ~NewMLFQNode.running /\ NewMLFQNode.used = 0
      <4>1. 0 \in Levels
        BY DEF Levels, MaxLevel
      <4>2. QED
        BY <4>1 DEF NewMLFQNode, MLFQNode
    <3>2. p.info[h] \in {<<>>} \cup MLFQNode
      BY <2>0 DEF IsMLFQ
    <3>3. QED
      BY <3>1, <3>2
  <2>2. WithinSlice(p.info[h]) \/ p.info[h] = <<>> => WithinSlice(Node(h))
    BY <2>1, UnusedSlice
  <2>3. p.info[h] # <<>> => Node(h) = p.info[h]
    OBVIOUS
  <2> DEFINE i == Node(h)
             a == Account(i, h \in st.ready)
  <2>4. first[h] = a
    BY <2>0
  <2> HIDE DEF Node, i
  <2>5. /\ a \in MLFQNode /\ a.running = i.running /\ a.prio = i.prio
        /\ (~i.running => a.used = i.used) /\ (h \notin st.ready => a.used = i.used)
    <3>1. (h \in st.ready) \in BOOLEAN
      OBVIOUS
    <3>2. QED
      BY <2>1, <3>1, MLFQAccount, Zenon DEF i
  <2> HIDE DEF first
  <2>6. CASE second[h] = first[h]
    <3>1. ~Exhausted(a) \/ h \notin st.ready => (WithinSlice(i) => WithinSlice(a))
      <4>1. CASE h \notin st.ready \/ ~a.running
        BY <4>1, <2>5 DEF WithinSlice
      <4>2. CASE a.running /\ h \in st.ready
        <5>1. a.used \in Nat /\ SliceOf[a.prio] \in Nat
          <6>1. a.used \in Nat /\ a.prio \in Levels
            BY <2>5 DEF MLFQNode
          <6>2. QED
            BY <6>1, PolicyAssumption DEF Levels, MaxLevel
        <5> HIDE DEF a
        <5>2. QED
          BY <4>2, <5>1 DEF WithinSlice, Exhausted
      <4>3. QED
        BY <4>1, <4>2
    <3> HIDE DEF a, second
    <3>2. QED
      BY <2>1, <2>2, <2>3, <2>4, <2>5, <2>6, <3>1 DEF i
  <2>7. CASE second[h] = Recover(first[h])
    <3>1. Recover(a) \in MLFQNode /\ Recover(a).running = a.running /\ Recover(a).used = 0
      BY <2>5, MLFQMoves
    <3>2. WithinSlice(Recover(a))
      BY <2>5, MLFQMoves
    <3> HIDE DEF a, second
    <3>3. QED
      BY <2>1, <2>3, <2>4, <2>5, <2>7, <3>1, <3>2 DEF i
  <2>8. second[h] = first[h] \/ second[h] = Recover(first[h])
    BY <2>0
  <2>9. QED
    BY <2>6, <2>7, <2>8
<1>8. ASSUME NEW h \in st.known
      PROVE  /\ info[h] \in MLFQNode
             /\ info[h].running => p.info[h] # <<>> /\ p.info[h].running
             /\ h \in demoted => ~info[h].running
             /\ (p.info[h] # <<>> => WithinSlice(p.info[h])) => WithinSlice(info[h])
  <2>0. h \in Handles
    BY <1>0
  <2> HIDE DEF second
  <2>1. CASE h \in demoted
    <3>1. info[h] = Demote(second[h])
      BY <2>0, <2>1
    <3>2. info[h] \in MLFQNode /\ ~info[h].running /\ info[h].used = 0
      BY <1>7, <3>1, MLFQMoves
    <3>3. WithinSlice(info[h])
      BY <3>2, UnusedSlice
    <3>4. QED
      BY <3>2, <3>3
  <2>2. CASE h \notin demoted
    <3>1. info[h] = second[h]
      BY <2>0, <2>2
    <3>2. ~Exhausted(second[h]) \/ h \notin st.ready
      BY <2>2 DEF ReadyQueues
    <3>3. QED
      BY <1>7, <2>2, <3>1, <3>2
  <2>3. QED
    BY <2>1, <2>2
<1>9. info \in [Handles -> {<<>>} \cup MLFQNode]
  <2>1. info = [h \in Handles |-> info[h]]
    OBVIOUS
  <2>2. \A h \in Handles : p.info[h] \in {<<>>} \cup MLFQNode
    BY DEF IsMLFQ
  <2> HIDE DEF info
  <2>3. QED
    BY <1>6, <1>8, <2>1, <2>2
<1>10. demoted \subseteq ReadyQueues(st) /\ \A h \in demoted : ~info[h].running
  <2>1. demoted \subseteq ReadyQueues(st)
    OBVIOUS
  <2> HIDE DEF demoted, info
  <2>2. QED
    BY <1>0, <1>8, <2>1
<1> HIDE DEF info, demoted, Run
<1>11. /\ o.pol = [p EXCEPT !.info = MLFQAfter(info, st, Run1(st, best))]
       /\ o.stop = demoted \cup {h \in ReadyQueues(st) \ Run1(st, best) : info[h].running}
       /\ o.run = {h \in Run1(st, best) : ~info[h].running}
       /\ o.timers = IF ReadyQueues(st) = {} THEN {} ELSE {Timeslice}
  BY <1>3, <1>5 DEF Outcome
<1>12. QED
  BY <1>4, <1>6, <1>8, <1>9, <1>10, <1>11 DEF MLFQOutcome

\* Sched of UP.
LEMMA DropDestroyedUP ==
  ASSUME NEW p, IsUP(p), NEW st
  PROVE  IsUP(DropDestroyed(p, st))
<1> DEFINE U == [h \in Handles |-> IF h \in st.known THEN p.utils[h] ELSE NoEntry]
           c == IF p.cur \in st.known THEN p.cur ELSE None
<1>1. DropDestroyed(p, st) = [p EXCEPT !.utils = U, !.cur = c]
  BY DEF DropDestroyed
<1>2. U \in [Handles -> Int] /\ c \in Handles \cup {None}
  BY DEF IsUP, NoEntry
<1> HIDE DEF U, c
<1>3. [p EXCEPT !.utils = U, !.cur = c]
        \in [type : {"UP"}, utils : [Handles -> Int], timeslice : Nat,
             cur : Handles \cup {None}, rest : {p.rest}]
  BY <1>2 DEF IsUP
<1>4. QED
  BY <1>1, <1>3 DEF IsUP

\* Assigning the current queue and its budget keeps the shape of the state of UP.
LEMMA SetCurUP ==
  ASSUME NEW p, IsUP(p), NEW h \in Handles \cup {None}, NEW b
  PROVE  IsUP([p EXCEPT !.cur = h]) /\ IsUP([p EXCEPT !.cur = h, !.rest = b])
<1>1. [p EXCEPT !.cur = h]
        \in [type : {"UP"}, utils : [Handles -> Int], timeslice : Nat,
             cur : Handles \cup {None}, rest : {p.rest}]
  BY DEF IsUP
<1>2. [p EXCEPT !.cur = h, !.rest = b]
        \in [type : {"UP"}, utils : [Handles -> Int], timeslice : Nat,
             cur : Handles \cup {None}, rest : {b}]
  BY DEF IsUP
<1>3. QED
  BY <1>1, <1>2 DEF IsUP
\* NextInRound is a ready queue with a utilization other than the current
\* one, and None only if there is no such queue.
LEMMA NextReady ==
  ASSUME NEW p, IsUP(p), NEW st
  PROVE  LET C == (HasUtil(p) \cap ReadyQueues(st)) \ {p.cur}
             next == NextInRound(p, st)
         IN  IF C = {} THEN next = None ELSE next \in C
<1> DEFINE C == (HasUtil(p) \cap ReadyQueues(st)) \ {p.cur}
           Later == {h \in C : h > p.cur}
<1>1. NextInRound(p, st) = IF Later # {} THEN Min(Later) ELSE IF C # {} THEN Min(C) ELSE None
  BY DEF NextInRound
<1>2. C \subseteq Handles /\ Handles \subseteq Int /\ IsFiniteSet(Handles)
  BY PolicyAssumption DEF HasUtil
<1>3. ASSUME NEW S \in SUBSET C, S # {} PROVE Min(S) \in S
  <2> DEFINE f == [h \in S |-> h]
  <2>1. f \in [S -> Int] /\ S = {f[h] : h \in S}
    BY <1>2
  <2>2. IsFiniteSet(S)
    BY <1>2, FS_Subset
  <2> HIDE DEF f
  <2>3. QED
    BY <1>3, <2>1, <2>2, MinOfValues
<1>4. Later \in SUBSET C
  OBVIOUS
<1> HIDE DEF Later
<1>5. QED
  BY <1>1, <1>3, <1>4

\* The four ends of Sched of UP: nothing to do, no queue to run and all stopped, a
\* switch to another ready queue, and the current queue given up.
LEMMA SchedUPOutcome ==
  ASSUME NEW p, IsUP(p), NEW st, NEW o \in PolicySched(p, st), NEW q, q = DropDestroyed(p, st)
  PROVE  \/ /\ HasUtil(q) = {} \/ (q.cur # None /\ q.rest > 0 /\ q.cur \in st.ready)
            /\ o = Outcome(q, {}, {}, {})
         \/ /\ q.cur = None /\ HasUtil(q) \cap ReadyQueues(st) = {}
            /\ o = Outcome([q EXCEPT !.cur = None], st.known, {}, {})
         \/ \E h \in HasUtil(q) \cap ReadyQueues(st) : o = SwitchTo(q, st, h)
         \/ /\ q.cur # None /\ HasUtil(q) \cap ReadyQueues(st) \subseteq {q.cur}
            /\ o = Outcome([q EXCEPT !.cur = None], {}, {}, {})
<1>0. IsUP(q)
  BY DropDestroyedUP
<1>1. o \in SchedUP(p, st)
  BY TypeOf DEF PolicySched
<1> DEFINE next == NextInRound(q, st)
<1>2. o \in IF HasUtil(q) = {} THEN {Outcome(q, {}, {}, {})}
            ELSE IF q.cur = None THEN SwitchToAny(q, st)
            ELSE IF q.rest > 0 /\ q.cur \in st.ready THEN {Outcome(q, {}, {}, {})}
            ELSE IF next # None THEN {SwitchTo(q, st, next)}
            ELSE {Outcome([q EXCEPT !.cur = None], {}, {}, {})}
  BY <1>1 DEF SchedUP
<1>3. CASE HasUtil(q) = {}
  BY <1>2, <1>3
<1>4. CASE HasUtil(q) # {} /\ q.cur = None
  BY <1>2, <1>4 DEF SwitchToAny
<1>5. CASE HasUtil(q) # {} /\ q.cur # None /\ q.rest > 0 /\ q.cur \in st.ready
  BY <1>2, <1>5
<1>6. CASE HasUtil(q) # {} /\ q.cur # None /\ ~(q.rest > 0 /\ q.cur \in st.ready)
  <2>1. 0 \notin Handles /\ HasUtil(q) \subseteq Handles
    BY PolicyAssumption DEF HasUtil
  <2>2. next # None => next \in HasUtil(q) \cap ReadyQueues(st)
    BY <1>0, NextReady
  <2>3. next = None => HasUtil(q) \cap ReadyQueues(st) \subseteq {q.cur}
    BY <1>0, NextReady, <2>1 DEF None
  <2> HIDE DEF next
  <2>4. QED
    BY <1>2, <1>6, <2>2, <2>3
<1>7. QED
  BY <1>3, <1>4, <1>5, <1>6

\* Whichever end it takes, Sched of UP leaves a state of UP.
LEMMA SchedUPKeeps ==
  ASSUME NEW p, IsUP(p), NEW st, NEW o \in PolicySched(p, st)
  PROVE  IsUP(o.pol)
<1> DEFINE q == DropDestroyed(p, st)
<1>0. IsUP(q) /\ HasUtil(q) \subseteq Handles
  BY DropDestroyedUP DEF HasUtil
<1> HIDE DEF q
<1>1. CASE o = Outcome(q, {}, {}, {})
  BY <1>0, <1>1 DEF Outcome
<1>2. CASE \E S : o = Outcome([q EXCEPT !.cur = None], S, {}, {})
  <2>1. o.pol = [q EXCEPT !.cur = None]
    BY <1>2 DEF Outcome
  <2>2. IsUP([q EXCEPT !.cur = None])
    BY <1>0, SetCurUP, Zenon
  <2>3. QED
    BY <2>1, <2>2
<1>3. CASE \E h \in HasUtil(q) \cap ReadyQueues(st) : o = SwitchTo(q, st, h)
  <2>1. PICK h \in HasUtil(q) \cap ReadyQueues(st) : o = SwitchTo(q, st, h)
    BY <1>3
  <2>2. o.pol = [q EXCEPT !.cur = h, !.rest = GetBudget(q, h)]
    BY <2>1 DEF SwitchTo, Outcome
  <2>3. IsUP([q EXCEPT !.cur = h, !.rest = GetBudget(q, h)])
    <3>1. h \in Handles \cup {None}
      BY <1>0
    <3>2. QED
      BY <1>0, <3>1, SetCurUP, Zenon
  <2>4. QED
    BY <2>2, <2>3
<1>4. QED
  BY <1>1, <1>2, <1>3, SchedUPOutcome DEF q

\* Sched of PUP.
LEMMA SchedPUPKeeps ==
  ASSUME NEW p, IsPUP(p), NEW st, NEW o \in PolicySched(p, st)
  PROVE  IsPUP(o.pol)
<1> DEFINE U == [i \in Pids |-> IF i \in st.procs THEN p.utils[i] ELSE NoEntry]
           q == [p EXCEPT !.utils = U]
<1>1. o \in SchedPUP(p, st)
  BY TypeOf DEF PolicySched
<1>2. U \in [Pids -> Int]
  BY DEF IsPUP, NoEntry
<1> HIDE DEF U
<1>3. q \in [type : {"PUP"}, utils : [Pids -> Int], timeslice : Nat,
             runQueue : {p.runQueue}, rest : {p.rest}]
  BY <1>2 DEF IsPUP
<1>4. \E rq, s : \/ o.pol = [q EXCEPT !.runQueue = rq]
                 \/ o.pol = [q EXCEPT !.rest = s, !.runQueue = rq]
  <2> DEFINE Turn(rq) == PassOver(q, IF rq[1].running THEN Rotate(rq, q.rest) ELSE rq)
             Run(rq) == IF \A i \in DOMAIN rq : ~rq[i].ready
                        THEN Outcome([q EXCEPT !.runQueue = rq], {}, {}, {})
                        ELSE IF rq[1].running /\ q.rest > 0 /\ rq[1].ready
                        THEN Outcome([q EXCEPT !.runQueue = rq], {}, {}, {})
                        ELSE SwitchProcess(q, st, Turn(rq))
  <2>1. SchedPUP(p, st) = {Run(rq) : rq \in RunQueues(q, st)}
    BY DEF SchedPUP, U
  <2> HIDE DEF q, Turn
  <2>2. PICK rq : o = Run(rq)
    BY <1>1, <2>1
  <2>3. CASE o = Outcome([q EXCEPT !.runQueue = rq], {}, {}, {})
    BY <2>3 DEF Outcome
  <2>4. CASE o = SwitchProcess(q, st, Turn(rq))
    <3>1. \E x, s : o.pol = [q EXCEPT !.rest = s, !.runQueue = x]
      BY <2>4 DEF SwitchProcess, Outcome
    <3>2. QED
      BY <3>1
  <2>5. QED
    BY <2>2, <2>3, <2>4
<1> HIDE DEF q
<1>5. PICK rq, s : \/ o.pol = [q EXCEPT !.runQueue = rq]
                   \/ o.pol = [q EXCEPT !.rest = s, !.runQueue = rq]
  BY <1>4
<1>6. [q EXCEPT !.runQueue = rq]
        \in [type : {"PUP"}, utils : [Pids -> Int], timeslice : Nat, runQueue : {rq},
             rest : {p.rest}]
  BY <1>3
<1>7. [q EXCEPT !.rest = s, !.runQueue = rq]
        \in [type : {"PUP"}, utils : [Pids -> Int], timeslice : Nat, runQueue : {rq},
             rest : {s}]
  BY <1>3
<1>8. QED
  BY <1>5, <1>6, <1>7 DEF IsPUP

\* The entries after the choice.
LEMMA ChosenEntries ==
  ASSUME NEW info \in [Handles -> {<<>>} \cup CFSNode], NEW st, NEW R
  PROVE  /\ Chosen(info, st, R) \in [Handles -> {<<>>} \cup CFSNode]
         /\ \A h \in Handles \ st.known : Chosen(info, st, R)[h] = info[h]
         /\ \A h \in Handles \cap st.known :
              LET i == Chosen(info, st, R)[h] IN
              /\ i \in CFSNode /\ i.running = (h \in R) /\ (h \in R => i.age = 0)
              /\ info[h] # <<>> => i.vruntime = info[h].vruntime
<1> DEFINE C == Chosen(info, st, R)
<1>0. NewCFSNode \in CFSNode
  BY PolicyAssumption DEF NewCFSNode, CFSNode, PriorityDefault
<1>1. ASSUME NEW h \in Handles \ st.known PROVE C[h] = info[h]
  BY <1>1 DEF Chosen
<1>2. ASSUME NEW h \in Handles \cap st.known
      PROVE  /\ C[h] \in CFSNode /\ C[h].running = (h \in R) /\ (h \in R => C[h].age = 0)
             /\ info[h] # <<>> => C[h].vruntime = info[h].vruntime
  <2> DEFINE n == IF info[h] = <<>> THEN NewCFSNode ELSE info[h]
             b == h \in R
             a == IF h \in R THEN 0 ELSE n.age
  <2>1. C[h] = [n EXCEPT !.running = b, !.age = a]
    BY DEF Chosen
  <2>2. n \in CFSNode
    BY <1>0
  <2>3. b \in BOOLEAN /\ a \in Nat
    BY <2>2 DEF CFSNode
  <2> HIDE DEF n, b, a, C
  <2>4. C[h] \in CFSNode /\ C[h].running = b /\ C[h].age = a /\ C[h].vruntime = n.vruntime
    BY <2>1, <2>2, <2>3 DEF CFSNode
  <2>5. QED
    BY <2>4 DEF n, b, a
<1>3. C = [h \in Handles |-> C[h]]
  BY DEF Chosen
<1> HIDE DEF C
<1>4. C \in [Handles -> {<<>>} \cup CFSNode]
  BY <1>1, <1>2, <1>3
<1>5. QED
  BY <1>1, <1>2, <1>4 DEF C

\* After the choice of MLFQ exactly the chosen queues are marked running, with a
\* fresh age; levels and used slices stay.
LEMMA MLFQAfterEntries ==
  ASSUME NEW info \in [Handles -> {<<>>} \cup MLFQNode], NEW st,
         \A h \in Handles \cap st.known : info[h] \in MLFQNode, NEW R
  PROVE  /\ MLFQAfter(info, st, R) \in [Handles -> {<<>>} \cup MLFQNode]
         /\ \A h \in Handles \ st.known : MLFQAfter(info, st, R)[h] = info[h]
         /\ \A h \in Handles \cap st.known :
              LET i == MLFQAfter(info, st, R)[h] IN
              /\ i \in MLFQNode /\ i.running = (h \in R) /\ (h \in R => i.age = 0)
              /\ i.used = info[h].used /\ i.prio = info[h].prio
<1> DEFINE C == MLFQAfter(info, st, R)
<1>1. ASSUME NEW h \in Handles \ st.known PROVE C[h] = info[h]
  BY <1>1 DEF MLFQAfter
<1>2. ASSUME NEW h \in Handles \cap st.known
      PROVE  /\ C[h] \in MLFQNode /\ C[h].running = (h \in R) /\ (h \in R => C[h].age = 0)
             /\ C[h].used = info[h].used /\ C[h].prio = info[h].prio
  <2> DEFINE n == info[h]
             c == IF n.running THEN n.sincePending ELSE 0
             d == IF h \in {g \in ReadyQueues(st) \ R : info[g].running} THEN 0
                  ELSE n.sincePending
  <2>1. CASE h \in R
    <3>1. C[h] = [n EXCEPT !.running = TRUE, !.age = 0, !.sincePending = c]
      BY <2>1 DEF MLFQAfter
    <3>2. n \in MLFQNode
      OBVIOUS
    <3>3. c \in Nat
      BY <3>2 DEF MLFQNode
    <3> DEFINE r == [n EXCEPT !.running = TRUE, !.age = 0, !.sincePending = c]
    <3> HIDE DEF n, c
    <3>4. r \in MLFQNode
      BY <3>2, <3>3 DEF MLFQNode
    <3>5. r.running = TRUE /\ r.age = 0 /\ r.used = n.used /\ r.prio = n.prio
      BY <3>2 DEF MLFQNode
    <3> HIDE DEF C, r
    <3>6. QED
      BY <2>1, <3>1, <3>4, <3>5 DEF n, r
  <2>2. CASE h \notin R
    <3>1. C[h] = [n EXCEPT !.running = FALSE, !.sincePending = d]
      BY <2>2 DEF MLFQAfter
    <3>2. n \in MLFQNode
      OBVIOUS
    <3>3. d \in Nat
      BY <3>2 DEF MLFQNode
    <3> DEFINE r == [n EXCEPT !.running = FALSE, !.sincePending = d]
    <3> HIDE DEF n, d
    <3>4. r \in MLFQNode
      BY <3>2, <3>3 DEF MLFQNode
    <3>5. r.running = FALSE /\ r.used = n.used /\ r.prio = n.prio
      BY <3>2 DEF MLFQNode
    <3> HIDE DEF C, r
    <3>6. QED
      <4>1. C[h] = r /\ n = info[h] /\ C[h].running = FALSE /\ (h \in R) = FALSE
        BY <2>2, <3>1, <3>5 DEF n, r
      <4>2. QED
        BY <2>2, <3>4, <3>5, <4>1
  <2>3. QED
    BY <2>1, <2>2
<1>3. C = [h \in Handles |-> C[h]]
  BY DEF MLFQAfter
<1> HIDE DEF C
<1>4. C \in [Handles -> {<<>>} \cup MLFQNode]
  BY <1>1, <1>2, <1>3
<1>5. QED
  BY <1>1, <1>2, <1>4 DEF C
\* SLO: only the runtime, the age and the running flag change.
SameRank(i, j) == i.prio = j.prio /\ i.deadline = j.deadline

\* UpdateRuntime and the choice of SLO leave the deadlines and priorities alone, and
\* after the choice exactly the chosen queues are marked running.
LEMMA SLOEntries ==
  ASSUME NEW p, IsSLO(p), NEW st, NEW R, NEW info, info = UpdateRuntime(p, st)
  PROVE  /\ info \in [Handles -> SLOInfo]
         /\ \A h \in Handles : SameRank(info[h], p.info[h])
         /\ \A h \in Handles : info[h].running = p.info[h].running
         /\ SLOAfter(info, st, R) \in [Handles -> SLOInfo]
         /\ \A h \in Handles : SameRank(SLOAfter(info, st, R)[h], info[h])
         /\ \A h \in Handles \cap st.known : SLOAfter(info, st, R)[h].running = (h \in R)
         /\ \A h \in Handles \ st.known : SLOAfter(info, st, R)[h] = info[h]
<1>0. p.info \in [Handles -> SLOInfo] /\ p.procUtils \in [Pids -> Int] /\ p.timeslice \in Nat
  BY DEF IsSLO
<1>1. ASSUME NEW h \in Handles
      PROVE  /\ info[h] \in SLOInfo /\ SameRank(info[h], p.info[h])
             /\ info[h].running = p.info[h].running
  <2> DEFINE i == p.info[h]
             m == Max({1, GetUtilization(p, i, h)})
             v == i.vruntime + (i.age * UtilMax) \div m
  <2>0. i \in SLOInfo
    BY <1>0
  <2>1. CASE h \notin st.known \/ ~i.running
    BY <2>0, <2>1 DEF UpdateRuntime, SameRank
  <2>2. CASE ~(h \notin st.known \/ ~i.running)
    <3>1. info[h] = [i EXCEPT !.age = 0, !.vruntime = v]
      BY <2>2 DEF UpdateRuntime
    <3>2. v \in Int
      <4>1. GetUtilization(p, i, h) \in Int
        <5>1. PidOf[h] \in Pids
          BY StatusAssumption
        <5>2. p.procUtils[PidOf[h]] \in Int /\ i.util \in Int
          BY <1>0, <2>0, <5>1 DEF SLOInfo
        <5>3. QED
          BY <5>2 DEF GetUtilization
      <4>2. m \in Int /\ m > 0
        BY <4>1, MaxTwo
      <4>3. i.vruntime \in Int /\ i.age * UtilMax \in Int
        BY <2>0 DEF SLOInfo, UtilMax
      <4> HIDE DEF m
      <4>4. QED
        BY <4>2, <4>3
    <3> HIDE DEF v, i
    <3>3. /\ [i EXCEPT !.age = 0, !.vruntime = v] \in SLOInfo
          /\ SameRank([i EXCEPT !.age = 0, !.vruntime = v], i)
          /\ [i EXCEPT !.age = 0, !.vruntime = v].running = i.running
      BY <2>0, <3>2 DEF SLOInfo, SameRank
    <3>4. QED
      BY <3>1, <3>3 DEF i
  <2>3. QED
    BY <2>1, <2>2
<1>2. info = [h \in Handles |-> info[h]]
  BY DEF UpdateRuntime
<1>3. info \in [Handles -> SLOInfo]
  BY <1>1, <1>2
<1> DEFINE C == SLOAfter(info, st, R)
<1>4. ASSUME NEW h \in Handles
      PROVE  /\ C[h] \in SLOInfo /\ SameRank(C[h], info[h])
             /\ h \in st.known => C[h].running = (h \in R)
             /\ h \notin st.known => C[h] = info[h]
  <2> DEFINE i == info[h]
             b == h \in R
             a == IF h \in R THEN 0 ELSE i.age
  <2>0. i \in SLOInfo
    BY <1>3
  <2>1. C[h] = IF h \notin st.known THEN i ELSE [i EXCEPT !.running = b, !.age = a]
    BY DEF SLOAfter
  <2>2. b \in BOOLEAN /\ a \in Nat
    BY <2>0 DEF SLOInfo
  <2> HIDE DEF i, b, a, C
  <2>3. /\ [i EXCEPT !.running = b, !.age = a] \in SLOInfo
        /\ SameRank([i EXCEPT !.running = b, !.age = a], i)
        /\ [i EXCEPT !.running = b, !.age = a].running = b
    BY <2>0, <2>2 DEF SLOInfo, SameRank
  <2>4. QED
    BY <2>0, <2>1, <2>3 DEF i, b, SameRank
<1>5. C = [h \in Handles |-> C[h]]
  BY DEF SLOAfter
<1> HIDE DEF C
<1>6. C \in [Handles -> SLOInfo]
  BY <1>4, <1>5
<1>7. QED
  BY <1>1, <1>3, <1>4, <1>6 DEF C

\* The state Sched leaves is a state of the same policy.
LEMMA SchedKeeps ==
  ASSUME NEW p, PolicyOK(p), NEW st \in Status, NEW o \in PolicySched(p, st)
  PROVE  PolicyOK(o.pol) /\ o.pol.type = p.type
<1>1. CASE p.type \in {"HPF", "HHPF", "CHPF", "LAX", "KEDF", "IAH", "AWF"}
  BY <1>1, RankingKeeps
<1>2. CASE IsUP(p)
  BY <1>2, SchedUPKeeps, TypeOf DEF PolicyOK
<1>3. CASE IsPUP(p)
  BY <1>3, SchedPUPKeeps, TypeOf DEF PolicyOK
<1>4. CASE IsCFS(p)
  <2> DEFINE info == Inherit(Charge(p, st), st)
  <2>1. PICK best : CFSOutcome(p, st, o, info, best)
    BY <1>4, SchedCFSOutcome
  <2>2. info \in [Handles -> {<<>>} \cup CFSNode]
    BY <1>4, CFSEntries
  <2> DEFINE C == Chosen(info, st, Run1(st, best))
  <2> HIDE DEF info
  <2>3. C \in [Handles -> {<<>>} \cup CFSNode]
    BY <2>2, ChosenEntries
  <2> HIDE DEF C
  <2>4. [p EXCEPT !.info = C] \in [type : {"CFS"}, info : [Handles -> {<<>>} \cup CFSNode]]
    BY <1>4, <2>3 DEF IsCFS
  <2>5. QED
    BY <1>4, <2>1, <2>4, TypeOf DEF IsCFS, PolicyOK, C, CFSOutcome
<1>5. CASE IsMLFQ(p)
  <2>1. PICK info, demoted, best : MLFQOutcome(p, st, o, info, demoted, best)
    BY <1>5, SchedMLFQOutcome
  <2> DEFINE C == MLFQAfter(info, st, Run1(st, best))
  <2>2. C \in [Handles -> {<<>>} \cup MLFQNode]
    BY <2>1, MLFQAfterEntries DEF MLFQOutcome
  <2> HIDE DEF C
  <2>3. [p EXCEPT !.info = C] \in [type : {"MLFQ"}, info : [Handles -> {<<>>} \cup MLFQNode]]
    BY <1>5, <2>2 DEF IsMLFQ
  <2>4. QED
    BY <1>5, <2>1, <2>3, TypeOf DEF IsMLFQ, PolicyOK, C, MLFQOutcome
<1>6. CASE IsSLO(p)
  <2>0. PICK info : info = UpdateRuntime(p, st)
    OBVIOUS
  <2>1. PICK best : SLOOutcome(p, st, o, info, best)
    BY <1>6, <2>0, SchedSLOOutcome
  <2> DEFINE C == SLOAfter(info, st, Run1(st, best))
  <2>2. C \in [Handles -> SLOInfo]
    BY <1>6, <2>0, SLOEntries
  <2> HIDE DEF C
  <2>3. [p EXCEPT !.info = C] \in [type : {"SLO"}, info : [Handles -> SLOInfo],
                                   procUtils : [Pids -> Int], timeslice : Nat]
    BY <1>6, <2>2 DEF IsSLO
  <2>4. QED
    BY <1>6, <2>1, <2>3, TypeOf DEF IsSLO, PolicyOK, C, SLOOutcome
<1>7. QED
  BY <1>1, <1>2, <1>3, <1>4, <1>5, <1>6, TypeOf DEF PolicyOK

-----------------------------------------------------------------------------
(* The policy of the scheduler always has the state of its type: besides,  *)
(* the hints on their way have the fields of their kind.                   *)

GivenHints == UNION {HintsOf[t] : t \in PolicyType}
TypedEvent(e) == e.type = "Hint" => e.hint \in GivenHints
HintsIn(S) ==
  evq \in Seq(S) /\ batch \in Seq(S) /\ \A e \in S : TypedEvent(e)
PolInv ==
  PolicyOK(pol) /\ newType \in {""} \cup PolicyType /\ \E S : HintsIn(S)

\* An event is sent.
LEMMA SendTyped ==
  ASSUME NEW S, HintsIn(S), NEW e, TypedEvent(e), Send(e), UNCHANGED batch
  PROVE  \E T : HintsIn(T)'
<1>1. evq' = Append(evq, e)
  BY DEF Send
<1>2. evq' \in Seq(S \cup {e}) /\ batch' \in Seq(S \cup {e})
  <2>1. evq \in Seq(S \cup {e}) /\ batch \in Seq(S \cup {e})
    BY DEF HintsIn
  <2> QED BY <1>1, <2>1
<1>3. \A x \in S \cup {e} : TypedEvent(x)
  BY DEF HintsIn
<1>4. HintsIn(S \cup {e})'
  BY <1>2, <1>3 DEF HintsIn
<1> QED BY <1>4

\* Handling events updates the status: it suspends nothing.
LEMMA UpdateSuspendsNothing ==
  ASSUME NEW st, GoodStatus(st), NEW e, HandledEvent(e)
  PROVE  UpdateStatus(st, e).suspended \subseteq st.suspended
<1>0. st \in Status
  BY DEF GoodStatus
<1>1. CASE e.type = "Create"
  BY <1>0, <1>1 DEF UpdateStatus, XQueueCreate, CreateXQueueStatus, Status
<1>2. CASE e.type = "Destroy"
  BY <1>0, <1>2 DEF UpdateStatus, XQueueDestroy, Status
<1>3. CASE e.type = "Ready"
  BY <1>0, <1>3 DEF UpdateStatus, XQueueReady, CreateXQueueStatus, Status
<1>4. CASE e.type = "Idle"
  BY <1>0, <1>4 DEF UpdateStatus, XQueueIdle, CreateXQueueStatus, Status
<1>5. CASE e.type = "ProcessCreate"
  BY <1>0, <1>5 DEF UpdateStatus, ProcessCreate, Status
<1>6. CASE e.type = "ProcessDestroy"
  BY <1>0, <1>6 DEF UpdateStatus, ProcessDestroy, Status
<1>7. CASE e.type \notin {"Create", "Destroy", "Ready", "Idle", "ProcessCreate", "ProcessDestroy"}
  BY <1>7 DEF UpdateStatus
<1>8. QED
  BY <1>1, <1>2, <1>3, <1>4, <1>5, <1>6, <1>7

\* What a step may do to the policy, the status it decides on and the timers.
Undecided == UNCHANGED <<pol, status, timers, fresh>> /\ (BatchDone' => BatchDone)
Updated == /\ ~BatchDone' /\ UNCHANGED <<pol, timers>>
           /\ GoodStatus(status') /\ status'.suspended \subseteq status.suspended
Hinted == /\ ~BatchDone' /\ UNCHANGED <<status, timers>>
          /\ \E e \in GivenHints : pol' = RecvHint(pol, e)
Decided == \E st : /\ GoodStatus(st) /\ st.suspended \subseteq status.suspended
                   /\ Reschedule(st)

\* Every step of the scheduler, of its queues or of the clock does one of these.
LEMMA PolicySteps ==
  ASSUME ViewInv, PolInv, [Next]_vars
  PROVE  Undecided \/ TakeTimers \/ Updated \/ Hinted \/ Decided \/ SetPolicyEnd \/ Tick
<1>0. GoodStatus(status) /\ ThreadOK
  BY DEF ViewInv, SchedInv
<1>1. CASE \E h \in Handles : Queue(h)
  BY <1>1 DEF Queue, Create, BecomeReady, BecomeIdle, Configure, Del, Destroy, schedVars,
    Undecided, BatchDone
<1>2. CASE \E e \in HintsOf[pol.type] : GiveHint(e)
  BY <1>2 DEF GiveHint, schedVars, Undecided, BatchDone
<1>3. CASE TakeEvents
  BY <1>3 DEF TakeEvents, Undecided, BatchDone
<1>4. CASE HandleEvent
  <2> DEFINE e == Head(batch)
  <2>1. wpc = "batch" /\ batch # <<>> /\ ~final
    BY <1>0, <1>4 DEF HandleEvent, ThreadOK
  <2>2. HandledEvent(e)
    BY <2>1 DEF ViewInv, SchedInv, Queued
  <2>3. TypedEvent(e)
    <3>1. PICK S : HintsIn(S)
      BY DEF PolInv
    <3>2. e \in S
      BY <2>1, <3>1 DEF HintsIn
    <3>3. QED
      BY <3>1, <3>2 DEF HintsIn
  <2>4. GoodStatus(UpdateStatus(status, e))
    BY <1>0, <2>2, UpdateStatusGood
  <2>5. UpdateStatus(status, e).suspended \subseteq status.suspended
    BY <1>0, <2>2, UpdateSuspendsNothing
  <2>6. CASE e.type = "Terminate"
    BY <1>4, <2>1, <2>6 DEF HandleEvent, Undecided, BatchDone
  <2>7. CASE e.type = "Hint"
    <3>1. /\ pol' = RecvHint(pol, e.hint) /\ UNCHANGED <<status, timers, wpc>>
          /\ e.hint \in GivenHints
      BY <1>4, <2>3, <2>7 DEF HandleEvent, TypedEvent
    <3>2. QED
      BY <2>1, <3>1 DEF Hinted, BatchDone
  <2>8. CASE e.type = "Ready"
    <3>1. Reschedule(UpdateStatus(status, e))
      BY <1>4, <2>8 DEF HandleEvent
    <3> HIDE DEF e
    <3>2. QED
      BY <2>4, <2>5, <3>1 DEF Decided
  <2>9. CASE e.type \notin {"Terminate", "Hint", "Ready"}
    <3>1. status' = UpdateStatus(status, e) /\ UNCHANGED <<pol, timers, wpc>>
      BY <1>4, <2>9 DEF HandleEvent
    <3> HIDE DEF e
    <3>2. QED
      BY <2>1, <2>4, <2>5, <3>1 DEF Updated, BatchDone
  <2>10. QED
    BY <2>6, <2>7, <2>8, <2>9
<1>5. CASE FinishBatch
  BY <1>0, <1>5 DEF FinishBatch, Decided
<1>6. CASE \E p \in Pids : ExecuteOperation(p)
  BY <1>6 DEF ExecuteOperation, Undecided, BatchDone
<1>7. CASE EndReschedule
  BY <1>7 DEF EndReschedule, Undecided, BatchDone
<1>8. CASE \E t \in NextPolicies : SetPolicy(t)
  <2>1. PICK t \in NextPolicies : SetPolicy(t)
    BY <1>8
  <2>2. UNCHANGED <<pol, status, timers, fresh, wpc, final>>
    BY <2>1 DEF SetPolicy, schedVars
  <2>3. QED
    BY <2>2 DEF Undecided, BatchDone
<1>9. CASE UNCHANGED vars
  BY <1>9 DEF vars, schedVars, Undecided, BatchDone
<1>10. QED
  BY <1>1, <1>2, <1>3, <1>4, <1>5, <1>6, <1>7, <1>8, <1>9 DEF Next, Worker

\* In the beginning, and after every step.
LEMMA PolInit == Init => PolInv
<1> SUFFICES ASSUME Init PROVE PolInv
  OBVIOUS
<1>1. PolicyOK(pol)
  BY InitPolicyOK, SchedulerAssumption DEF Init
<1>2. evq = <<>> /\ batch = <<>>
  BY DEF Init
<1>3. HintsIn({})
  <2>1. evq \in Seq({}) /\ batch \in Seq({})
    BY <1>2
  <2>2. QED
    BY <2>1 DEF HintsIn
<1>4. newType = ""
  BY DEF Init
<1>5. QED
  BY <1>1, <1>3, <1>4 DEF PolInv

\* The policy, the type a policy change asks for and the hints keep their shapes.
LEMMA PolNext ==
  ASSUME ViewInv, PolInv, [Next]_vars
  PROVE  PolInv'
<1>1. PICK S : HintsIn(S)
  BY DEF PolInv
<1>2. PolicyOK(pol')
  <2>1. CASE pol' = pol
    BY <2>1 DEF PolInv
  <2>2. CASE Hinted
    <3>1. \A e \in GivenHints : TypedHint(e)
      BY SchedulerAssumption DEF GivenHints
    <3>2. QED
      BY <2>2, <3>1, RecvHintOK DEF Hinted, PolInv
  <2>3. CASE Decided
    <3>1. PICK st : GoodStatus(st) /\ Reschedule(st)
      BY <2>3 DEF Decided
    <3>2. PICK o \in PolicySched(pol, st) : pol' = o.pol
      BY <3>1 DEF Reschedule
    <3>3. QED
      BY <3>1, <3>2, SchedKeeps DEF PolInv, GoodStatus
  <2>4. CASE SetPolicyEnd
    BY <2>4, InitPolicyOK DEF SetPolicyEnd, PolInv
  <2>5. CASE Tick
    BY <2>5, AgePolicyOK DEF Tick, PolInv
  <2>6. QED
    BY <2>1, <2>2, <2>3, <2>4, <2>5, PolicySteps DEF Undecided, TakeTimers, Updated
<1>3. newType' \in {""} \cup PolicyType
  <2>1. CASE newType' = newType
    BY <2>1 DEF PolInv
  <2>2. CASE newType' \in NextPolicies \/ newType' = ""
    BY <2>2, SchedulerAssumption
  <2>3. QED
    BY <2>1, <2>2 DEF Next, Queue, Create, BecomeReady, BecomeIdle, Configure, Del, Destroy,
      GiveHint, Worker, TakeEvents, TakeTimers, HandleEvent, FinishBatch, ExecuteOperation,
      EndReschedule, SetPolicy, SetPolicyEnd, Tick, vars
<1>4. \E T : HintsIn(T)'
  <2>1. CASE UNCHANGED <<evq, batch>>
    BY <1>1, <2>1 DEF HintsIn
  <2>2. CASE \E e : TypedEvent(e) /\ Send(e) /\ UNCHANGED batch
    BY <1>1, <2>2, SendTyped
  <2>3. CASE TakeEvents
    <3>1. batch' \in Seq(S) /\ evq' \in Seq(S)
      BY <1>1, <2>3 DEF TakeEvents, HintsIn
    <3>2. QED
      BY <1>1, <3>1 DEF HintsIn
  <2>4. CASE HandleEvent
    <3>1. batch' \in Seq(S) /\ evq' \in Seq(S)
      BY <1>1, <2>4 DEF HandleEvent, HintsIn
    <3>2. QED
      BY <1>1, <3>1 DEF HintsIn
  <2>5. CASE Tick
    <3> DEFINE T == {AgeEvent(e) : e \in S}
    <3>1. \A e \in T : TypedEvent(e)
      <4>1. ASSUME NEW e \in S PROVE TypedEvent(AgeEvent(e))
        <5>1. TypedEvent(e)
          BY <1>1 DEF HintsIn
        <5>2. CASE e.type = "Ready"
          <6>1. AgeEvent(e) = [e EXCEPT !.age = Count(e.age)]
            BY <5>2 DEF AgeEvent
          <6>2. AgeEvent(e).type # "Hint"
            BY <5>2, <6>1
          <6>3. QED
            BY <6>2 DEF TypedEvent
        <5>3. CASE e.type # "Ready"
          BY <5>1, <5>3 DEF AgeEvent
        <5>4. QED
          BY <5>2, <5>3
      <4>2. QED
        BY <4>1
    <3>2. \A q \in Seq(S) : AgeEvents(q) \in Seq(T)
      BY DEF AgeEvents
    <3>3. evq' \in Seq(T) /\ batch' \in Seq(T)
      BY <1>1, <2>5, <3>2 DEF HintsIn, Tick
    <3> HIDE DEF T
    <3>4. HintsIn(T)'
      BY <3>1, <3>3 DEF HintsIn
    <3>5. QED
      BY <3>4
  <2>6. CASE \E h \in Handles : Queue(h)
    <3>1. PICK h \in Handles : Queue(h)
      BY <2>6
    <3>2. TypedEvent(CreateEvent(h)) /\ TypedEvent(DestroyEvent(h)) /\ TypedEvent(ReadyEvent(h))
            /\ TypedEvent(IdleEvent(h))
      BY DEF TypedEvent, CreateEvent, DestroyEvent, ReadyEvent, IdleEvent
    <3>3. QED
      BY <2>1, <2>2, <3>1, <3>2 DEF Queue, Create, BecomeReady, BecomeIdle, Configure, Del, Destroy
  <2>7. CASE \E e \in HintsOf[pol.type] : GiveHint(e)
    <3>1. PICK e \in HintsOf[pol.type] : GiveHint(e)
      BY <2>7
    <3>2. pol.type \in PolicyType
      BY TypeOf DEF PolInv, PolicyOK, PolicyType
    <3>3. e \in GivenHints
      BY <3>1, <3>2 DEF GivenHints
    <3>4. TypedEvent([type |-> "Hint", hint |-> e])
      BY <3>3 DEF TypedEvent
    <3>5. QED
      BY <2>2, <3>1, <3>4 DEF GiveHint
  <2>8. CASE \E t \in NextPolicies : SetPolicy(t)
    <3>1. TypedEvent(TerminateEvent)
      BY DEF TypedEvent, TerminateEvent
    <3>2. QED
      BY <2>2, <2>8, <3>1 DEF SetPolicy
  <2>9. QED
    BY <2>1, <2>3, <2>4, <2>5, <2>6, <2>7, <2>8 DEF Next, Worker, TakeTimers, FinishBatch,
      ExecuteOperation, EndReschedule, SetPolicyEnd, vars
<1>5. QED
  BY <1>2, <1>3, <1>4 DEF PolInv

-----------------------------------------------------------------------------
(* One queue of a device at a time *)

\* What a decision makes of a status.
LEMMA DecisionSuspends ==
  ASSUME NEW st \in Status, NEW S, NEW R, NEW new, new = ResumeAll(SuspendAll(st, S), R)
  PROVE  /\ new.known = st.known /\ new.ready = st.ready /\ new.device = st.device
         /\ new.age = st.age
         /\ new.suspended = (st.suspended \cup (S \cap st.known)) \ (R \cap st.known)
BY DEF SuspendAll, ResumeAll, Status

\* What a decision of these policies leaves: one ready queue of a device that is not
\* suspended (CFS, SLO, IAH), k queues (KEDF).
OneOK(p, st) ==
  /\ p.type \in {"CFS", "SLO", "IAH"} =>
       \A g, h \in ReadyQueues(st) \ st.suspended : st.device[g] = st.device[h] => g = h
  /\ p.type = "KEDF" => Cardinality(st.known \ st.suspended) <= p.k

\* Of the queues chosen, one for each device, no two are of the same device.
LEMMA ChosenDiffer ==
  ASSUME NEW st, NEW best, OneEach(st, best), NEW g \in Run1(st, best), NEW h \in Run1(st, best),
         st.device[g] = st.device[h]
  PROVE  g = h
<1>1. PICK d \in BusyDevices(st) : g = best[d]
  BY DEF Run1
<1>2. PICK e \in BusyDevices(st) : h = best[e]
  BY DEF Run1
<1>3. st.device[g] = d /\ st.device[h] = e
  BY <1>1, <1>2 DEF OneEach, OnDevice
<1>4. QED
  BY <1>1, <1>2, <1>3

\* After Sched of CFS, SLO or IAH, and the suspending and resuming of its outcome, at
\* most one ready queue of each device is not suspended; after KEDF at most k are not.
LEMMA DecisionOne ==
  ASSUME NEW p, PolicyOK(p), NEW st, GoodStatus(st), NEW o \in PolicySched(p, st),
         NEW new, new = ResumeAll(SuspendAll(st, o.stop), o.run)
  PROVE  OneOK(o.pol, new)
<1>0. st \in Status /\ IsFiniteSet(Handles)
  BY PolicyAssumption DEF GoodStatus
<1>1. /\ new.known = st.known /\ new.ready = st.ready /\ new.device = st.device
      /\ new.suspended = (st.suspended \cup (o.stop \cap st.known)) \ (o.run \cap st.known)
  BY <1>0, DecisionSuspends
<1>2. ReadyQueues(new) = ReadyQueues(st) /\ ReadyQueues(st) \subseteq st.known
  BY <1>1 DEF ReadyQueues
<1>3. o.pol.type = p.type
  BY <1>0, SchedKeeps
<1>4. CASE IsCFS(p) \/ IsSLO(p)
  <2>1. PICK best : /\ OneEach(st, best)
                    /\ ReadyQueues(st) \ Run1(st, best) \subseteq o.stop \cup st.suspended
                    /\ o.run \subseteq Run1(st, best)
    <3>1. CASE IsCFS(p)
      <4>1. PICK info : info = Inherit(Charge(p, st), st)
        OBVIOUS
      <4>2. PICK best : CFSOutcome(p, st, o, info, best)
        BY <3>1, <4>1, SchedCFSOutcome
      <4>3. QED
        BY <4>2 DEF CFSOutcome
    <3>2. CASE IsSLO(p)
      <4>1. PICK info : info = UpdateRuntime(p, st)
        OBVIOUS
      <4>2. PICK best : SLOOutcome(p, st, o, info, best)
        BY <3>2, <4>1, SchedSLOOutcome
      <4>3. QED
        BY <4>2 DEF SLOOutcome
    <3>3. QED
      BY <1>4, <3>1, <3>2
  <2>2. ReadyQueues(new) \ new.suspended \subseteq Run1(st, best)
    BY <1>1, <1>2, <2>1
  <2>3. o.pol.type # "KEDF"
    BY <1>3, <1>4, TypeOf
  <2>4. QED
    BY <1>1, <2>1, <2>2, <2>3, ChosenDiffer DEF OneOK
<1>5. CASE IsIAH(p)
  <2>0. p.type = "IAH"
    BY <1>5, TypeOf
  <2>1. PICK best, global : IAHOutcome(p, st, o, best, global)
    BY <2>0, SchedIAHOutcome
  <2>2. ReadyQueues(new) \ new.suspended \subseteq IAHRuns(p, st, best, global)
    BY <1>1, <1>2, <2>1 DEF IAHOutcome
  <2>3. \A h \in IAHRuns(p, st, best, global) : best[st.device[h]] = h
    BY DEF IAHRuns
  <2>4. QED
    BY <1>1, <1>3, <2>0, <2>2, <2>3 DEF OneOK
<1>6. CASE IsKEDF(p)
  <2>0. p.type = "KEDF" /\ p.k \in Nat
    BY <1>6, TypeOf DEF IsKEDF
  <2>1. PICK R \in SUBSET st.known :
          Cardinality(R) = Slots(p, st) /\ o = Outcome(p, st.known \ R, R, {})
    BY <2>0 DEF PolicySched, SchedKEDF
  <2>2. new.known \ new.suspended = R /\ o.pol = p
    BY <1>1, <2>1 DEF Outcome
  <2>3. IsFiniteSet(st.known)
    BY <1>0, FS_Subset DEF Status
  <2>4. Cardinality(st.known) \in Nat
    BY <2>3, FS_CardinalityType
  <2>5. Slots(p, st) <= p.k
    BY <2>0, <2>4, MinTwo DEF Slots
  <2>6. QED
    BY <2>0, <2>1, <2>2, <2>5 DEF OneOK
<1>7. CASE p.type \notin {"CFS", "SLO", "IAH", "KEDF"}
  BY <1>3, <1>7 DEF OneOK
<1>8. QED
  BY <1>4, <1>5, <1>6, <1>7, TypeOf DEF PolicyOK

\* A tick of the clock.
LEMMA AgeKeeps ==
  ASSUME NEW st \in Status
  PROVE  /\ AgeStatus(st).known = st.known /\ AgeStatus(st).ready = st.ready
         /\ AgeStatus(st).suspended = st.suspended /\ AgeStatus(st).device = st.device
BY DEF AgeStatus, Status

\* It holds from the decision until the next event is handled.
OneInv == BatchDone /\ ~fresh => OneOK(pol, status)

\* Events only remove queues from those it counts, a hint waits for the next decision.
LEMMA OneNext ==
  ASSUME ViewInv, PolInv, OneInv, [Next]_vars
  PROVE  OneInv'
<1>0. GoodStatus(status) /\ PolicyOK(pol)
  BY DEF ViewInv, SchedInv, PolInv
<1>1. CASE Undecided
  BY <1>1 DEF Undecided, OneInv
<1>2. CASE TakeTimers \/ Updated \/ Hinted \/ SetPolicyEnd
  BY <1>2 DEF TakeTimers, Updated, Hinted, SetPolicyEnd, OneInv, BatchDone
<1>3. CASE Decided
  <2>1. PICK st : GoodStatus(st) /\ Reschedule(st)
    BY <1>3 DEF Decided
  <2>2. PICK o \in PolicySched(pol, st) :
          pol' = o.pol /\ status' = ResumeAll(SuspendAll(st, o.stop), o.run)
    BY <2>1 DEF Reschedule
  <2>3. OneOK(pol', status')
    BY <1>0, <2>1, <2>2, DecisionOne
  <2>4. QED
    BY <2>3 DEF OneInv
<1>4. CASE Tick
  <2>1. /\ status' = AgeStatus(status) /\ pol' = AgePolicy(pol)
        /\ UNCHANGED <<wpc, final, fresh>>
    BY <1>4 DEF Tick
  <2>2. pol'.type = pol.type /\ (pol.type = "KEDF" => pol'.k = pol.k)
    BY <1>0, <2>1, AgePolicyOK DEF AgePolicy
  <2>3. ReadyQueues(status') = ReadyQueues(status) /\ status'.suspended = status.suspended
        /\ status'.known = status.known /\ status'.device = status.device
    BY <1>0, <2>1, AgeKeeps DEF GoodStatus, ReadyQueues
  <2>4. (BatchDone /\ ~fresh)' => BatchDone /\ ~fresh
    BY <2>1 DEF BatchDone
  <2>5. QED
    BY <2>2, <2>3, <2>4 DEF OneInv, OneOK
<1>5. QED
  BY <1>1, <1>2, <1>3, <1>4, PolicySteps

\* The queues the scheduler sees running are the ones that run.
LEMMA QuietView ==
  ASSUME ViewInv, Quiet
  PROVE  /\ BatchDone /\ ~fresh /\ GoodStatus(status) /\ ViewAccurate
         /\ \A h \in ReallyReady : h \in ReadyQueues(status) /\ h \in Registered
         /\ \A h \in ReallyReady : h \in paused <=> h \in status.suspended
         /\ \A h \in ReallyReady : status.device[h] = DeviceOf[h]
<1>1. ViewAccurate
  BY ViewAccurateNow
<1>2. BatchDone /\ ~fresh /\ GoodStatus(status)
  BY DEF Quiet, BatchDone, ViewInv, SchedInv
<1>3. \A h \in ReallyReady : h \in ReadyQueues(status) /\ h \in Registered
  BY <1>1 DEF ViewAccurate, ReallyReady, ReadyQueues, Registered
<1>4. QED
  BY <1>1, <1>2, <1>3 DEF ViewAccurate, ReadyQueues

\* Under CFS, SLO and IAH no two ready queues of a device run whenever the scheduler
\* sleeps with nothing on its way, and under KEDF no more than k queues do, for any
\* number of queues, processes and devices.  It rests on the decision (DecisionOne), on
\* the view being accurate (ViewStaysAccurate) and on the policy's entries keeping
\* their shape: CFS and SLO stop only what they believe running.
THEOREM OnlyOneRuns == Spec => []OneAtATime
<1>1. Init => ViewInv /\ PolInv /\ OneInv
  BY ViewInit, PolInit DEF Init, OneInv
<1>2. ViewInv /\ PolInv /\ OneInv /\ [Next]_vars => (ViewInv /\ PolInv /\ OneInv)'
  BY ViewNext, PolNext, OneNext
<1>3. ViewInv /\ PolInv /\ OneInv => OneAtATime
  <2> SUFFICES ASSUME ViewInv, PolInv, OneInv, Quiet PROVE OneAtATime
    BY DEF OneAtATime
  <2>1. OneOK(pol, status) /\ GoodStatus(status) /\ PolicyOK(pol) /\ ViewAccurate
    BY QuietView DEF OneInv, PolInv
  <2>2. ASSUME NEW g \in ReallyReady \ paused, NEW h \in ReallyReady \ paused,
               DeviceOf[g] = DeviceOf[h], pol.type \in {"CFS", "SLO", "IAH"}
        PROVE  g = h
    BY <2>1, <2>2, QuietView DEF OneOK
  <2>3. ASSUME pol.type = "KEDF" PROVE Cardinality(Registered \ paused) <= pol.k
    <3>1. Registered \ paused \subseteq status.known \ status.suspended
      BY <2>1, Quiet DEF ViewAccurate, Registered
    <3>2. IsFiniteSet(status.known \ status.suspended)
      <4>1. status.known \ status.suspended \subseteq Handles
        BY <2>1 DEF GoodStatus, Status
      <4>2. QED
        BY <4>1, PolicyAssumption, FS_Subset
    <3>3. Cardinality(Registered \ paused) <= Cardinality(status.known \ status.suspended)
      BY <3>1, <3>2, FS_Subset
    <3>4. /\ Cardinality(Registered \ paused) \in Nat
          /\ Cardinality(status.known \ status.suspended) \in Nat
      BY <3>1, <3>2, FS_Subset, FS_CardinalityType
    <3>5. pol.k \in Nat
      BY <2>1, <2>3, TypeOf DEF PolicyOK, IsKEDF
    <3>6. QED
      BY <2>1, <2>3, <3>3, <3>4, <3>5 DEF OneOK
  <2>4. QED
    BY <2>2, <2>3 DEF OneAtATime
<1>4. QED
  BY <1>1, <1>2, <1>3, PTL DEF Spec

-----------------------------------------------------------------------------
(* The queues of the highest rank run.  Under LAX a rank changes with the  *)
(* time: the invariant says so only until a timer expires, and that one    *)
(* will in time.  Under AWF the processes in the foreground have to be     *)
(* those of the active windows.                                            *)

\* Every timer is a time (with the utilization policies, a budget).
TimersOK == pol.type \notin {"UP", "PUP"} => timers \subseteq Nat

\* A process has its windows on one display.
OwnDisplay ==
  \A e, f \in GivenHints :
    e.kind = "WindowActive" /\ f.kind = "WindowActive" /\ e.p = f.p => e.v = f.v

\* The processes whose windows are active, and the foreground AWF keeps of them.
Showing(p) == {p.windows[d] : d \in DOMAIN p.windows}
WindowsOK(p) ==
  p.type = "AWF" =>
    /\ p.active = Showing(p)
    /\ \A d \in DOMAIN p.windows : \E e \in GivenHints :
         e.kind = "WindowActive" /\ e.v = d /\ e.p = p.windows[d]

\* A hint about the active window keeps the set of foreground processes equal to the
\* owners of the active windows: the owner of the former window is out of it.
LEMMA HintWindows ==
  ASSUME OwnDisplay, NEW p, IsAWF(p), WindowsOK(p), NEW e \in GivenHints
  PROVE  WindowsOK(HintAWF(p, e))
<1>0. p.type = "AWF"
  BY TypeOf
<1>1. CASE e.kind # "WindowActive" \/ e.p \notin Pids
  BY <1>1 DEF HintAWF
<1>2. CASE ~(e.kind # "WindowActive" \/ e.p \notin Pids)
  <2> DEFINE former == IF e.v \in DOMAIN p.windows THEN {p.windows[e.v]} ELSE {}
             W == Shows(p.windows, e.v, e.p)
             A == (p.active \ former) \cup {e.p}
             q == [p EXCEPT !.active = A, !.windows = W]
  <2>1. HintAWF(p, e) = q
    BY <1>2 DEF HintAWF
  <2>2. q.active = A /\ q.windows = W
    BY DEF IsAWF
  <2>3. /\ DOMAIN W = DOMAIN p.windows \cup {e.v} /\ W[e.v] = e.p
        /\ \A d \in DOMAIN p.windows \ {e.v} : W[d] = p.windows[d]
    BY DEF Shows
  <2>4. \A d \in DOMAIN W : \E f \in GivenHints :
          f.kind = "WindowActive" /\ f.v = d /\ f.p = W[d]
    <3> HIDE DEF W
    <3>1. QED
      BY <1>0, <1>2, <2>3 DEF WindowsOK
  <2>5. \A d \in DOMAIN p.windows \ {e.v} :
          e.v \in DOMAIN p.windows => p.windows[d] # p.windows[e.v]
    BY <1>0 DEF WindowsOK, OwnDisplay
  <2>6. A = {W[d] : d \in DOMAIN W}
    <3> HIDE DEF W
    <3>1. p.active = {p.windows[d] : d \in DOMAIN p.windows}
      BY <1>0 DEF WindowsOK, Showing
    <3>2. ASSUME NEW x \in A PROVE \E d \in DOMAIN W : x = W[d]
      <4>1. CASE x = e.p
        BY <2>3, <4>1
      <4>2. CASE x \in p.active \ former
        <5>1. PICK d \in DOMAIN p.windows : x = p.windows[d]
          BY <3>1, <4>2
        <5>2. d # e.v
          BY <4>2, <5>1
        <5>3. QED
          BY <2>3, <5>1, <5>2
      <4>3. QED
        BY <4>1, <4>2
    <3>3. ASSUME NEW d \in DOMAIN W PROVE W[d] \in A
      <4>1. CASE d = e.v
        BY <2>3, <4>1
      <4>2. CASE d # e.v
        <5>1. d \in DOMAIN p.windows \ {e.v} /\ W[d] = p.windows[d]
          BY <2>3, <4>2
        <5>2. W[d] \in p.active
          BY <3>1, <5>1
        <5>3. W[d] \notin former
          BY <2>5, <5>1
        <5>4. QED
          BY <5>2, <5>3
      <4>3. QED
        BY <4>1, <4>2
    <3> HIDE DEF A
    <3>4. QED
      BY <3>2, <3>3
  <2> HIDE DEF A, W, q
  <2>7. QED
    BY <2>1, <2>2, <2>4, <2>6 DEF WindowsOK, Showing
<1>3. QED
  BY <1>1, <1>2

\* So does every step.
LEMMA WindowsNext ==
  ASSUME OwnDisplay, ViewInv, PolInv, WindowsOK(pol), [Next]_vars
  PROVE  WindowsOK(pol')
<1>0. PolicyOK(pol) /\ GoodStatus(status) /\ newType \in {""} \cup PolicyType
  BY DEF PolInv, ViewInv, SchedInv
<1>1. CASE pol' = pol
  BY <1>1
<1>2. CASE pol'.type # "AWF"
  BY <1>2 DEF WindowsOK
<1>3. CASE Hinted
  <2>1. PICK e \in GivenHints : pol' = RecvHint(pol, e)
    BY <1>3 DEF Hinted
  <2>2. TypedHint(e)
    BY SchedulerAssumption DEF GivenHints
  <2>3. pol'.type = pol.type
    BY <1>0, <2>1, <2>2, RecvHintOK
  <2>4. CASE pol.type = "AWF"
    <3>1. IsAWF(pol) /\ pol' = HintAWF(pol, e)
      BY <1>0, <2>1, <2>4, TypeOf DEF PolicyOK, RecvHint
    <3>2. QED
      BY <3>1, HintWindows
  <2>5. QED
    BY <1>2, <2>3, <2>4
<1>4. CASE Decided
  <2>1. PICK st : GoodStatus(st) /\ Reschedule(st)
    BY <1>4 DEF Decided
  <2>2. PICK o \in PolicySched(pol, st) : pol' = o.pol
    BY <2>1 DEF Reschedule
  <2>3. pol'.type = pol.type
    BY <1>0, <2>1, <2>2, SchedKeeps DEF GoodStatus
  <2>4. pol.type = "AWF" => pol' = pol
    BY <2>2, RankingKeeps
  <2>5. QED
    BY <1>1, <1>2, <2>3, <2>4
<1>5. CASE SetPolicyEnd
  <2>1. newType \in PolicyType /\ pol' = InitPolicy(newType)
    BY <1>0, <1>5 DEF SetPolicyEnd
  <2>2. CASE newType = "AWF"
    <3>1. pol' = [type |-> "AWF", active |-> {}, windows |-> <<>>]
      BY <2>1, <2>2 DEF InitPolicy
    <3>2. pol'.active = {} /\ DOMAIN pol'.windows = {}
      BY <3>1
    <3>3. QED
      BY <3>2 DEF WindowsOK, Showing
  <2>3. QED
    BY <1>2, <2>1, <2>2, InitPolicyOK
<1>6. CASE Tick
  BY <1>0, <1>1, <1>2, <1>6, AgePolicyOK DEF Tick, Timed
<1>7. QED
  BY <1>1, <1>3, <1>4, <1>5, <1>6, PolicySteps DEF Undecided, TakeTimers, Updated

\* No window is active at first.
LEMMA WindowsInit == Init => WindowsOK(pol)
<1> SUFFICES ASSUME Init PROVE WindowsOK(pol)
  OBVIOUS
<1>1. PICK t \in Policies0 : pol = InitPolicy(t)
  BY DEF Init
<1>2. CASE t = "AWF"
  <2>1. pol = [type |-> "AWF", active |-> {}, windows |-> <<>>]
    BY <1>1, <1>2 DEF InitPolicy
  <2>2. pol.active = {} /\ DOMAIN pol.windows = {}
    BY <2>1
  <2>3. QED
    BY <2>2 DEF WindowsOK, Showing
<1>3. CASE t # "AWF"
  BY <1>1, <1>3, InitPolicyOK, SchedulerAssumption DEF WindowsOK
<1>4. QED
  BY <1>2, <1>3

\* The timer of LAX expires with the first laxity of a ready queue.
LaxQueues(p, st) == {g \in ReadyQueues(st) : p.lax[g] # <<>> /\ IsLax(p, st, g)}

\* An entry of LAX holds a laxity and two priorities.
LEMMA LaxEntry ==
  ASSUME NEW p, IsLAX(p), NEW h \in Handles, p.lax[h] # <<>>
  PROVE  p.lax[h][1] \in Int /\ p.lax[h][2] \in Int /\ p.lax[h][3] \in Int
<1>1. p.lax[h] \in Laxities
  BY DEF IsLAX
<1>2. p.lax[h] \in Int \X Int \X Int
  BY <1>1 DEF Laxities
<1>3. QED
  BY <1>2

\* The timer LAX sets expires no later than the laxity of any queue still lax.
LEMMA LaxTimer ==
  ASSUME NEW p, IsLAX(p), NEW st \in Status
  PROVE  /\ LaxTimers(p, st) \subseteq Nat
         /\ \A h \in LaxQueues(p, st) :
              \E t \in LaxTimers(p, st) : t <= p.lax[h][1] - st.age[h]
<1> DEFINE S == LaxQueues(p, st)
           f == [h \in S |-> p.lax[h][1] - st.age[h]]
           T == {f[h] : h \in S}
<1>1. S \subseteq Handles /\ IsFiniteSet(S)
  BY FS_Subset, PolicyAssumption DEF LaxQueues, ReadyQueues, Status
<1>2. ASSUME NEW h \in S
      PROVE  p.lax[h][1] \in Int /\ st.age[h] \in Nat /\ p.lax[h][1] - st.age[h] \in Nat
             /\ f[h] = p.lax[h][1] - st.age[h]
  <2>1. p.lax[h] # <<>> /\ st.age[h] < p.lax[h][1] /\ h \in Handles
    BY <1>1 DEF LaxQueues, IsLax
  <2>2. p.lax[h][1] \in Int /\ st.age[h] \in Nat
    BY <2>1, LaxEntry DEF Status
  <2>3. QED
    BY <2>1, <2>2
<1>3. f \in [S -> Int] /\ T \subseteq Nat
  BY <1>2
<1>4. T = {p.lax[h][1] - st.age[h] : h \in S}
  OBVIOUS
<1>5. LaxTimers(p, st) = IF T = {} THEN {} ELSE {Min(T)}
  <2> HIDE DEF T
  <2>1. QED
    BY <1>4 DEF LaxTimers, LaxQueues
<1>6. CASE S = {}
  BY <1>5, <1>6
<1>7. CASE S # {}
  <2>1. Min(T) \in T /\ \A t \in T : Min(T) <= t
    <3> HIDE DEF f, S
    <3>1. QED
      BY <1>1, <1>3, <1>7, MinOfValues
  <2>2. T # {}
    BY <1>7
  <2>3. LaxTimers(p, st) = {Min(T)}
    BY <1>5, <2>2
  <2>4. ASSUME NEW h \in S PROVE Min(T) <= p.lax[h][1] - st.age[h]
    <3>1. f[h] \in T
      OBVIOUS
    <3>2. QED
      BY <1>2, <2>1, <3>1
  <2> HIDE DEF T
  <2>5. QED
    BY <1>3, <2>1, <2>3, <2>4
<1>8. QED
  BY <1>6, <1>7

\* Timers are times, whatever the policy that set them, UP and PUP apart: those set
\* their budgets, which are sums.
LEMMA TimersNext ==
  ASSUME ViewInv, PolInv, TimersOK, [Next]_vars
  PROVE  TimersOK'
<1>0. PolicyOK(pol) /\ Timeslice \in Nat
  BY PolicyAssumption DEF PolInv
<1>1. CASE pol'.type = pol.type /\ timers' \subseteq timers
  BY <1>1 DEF TimersOK
<1>2. CASE Hinted
  <2>1. \A e \in GivenHints : TypedHint(e)
    BY SchedulerAssumption DEF GivenHints
  <2>2. QED
    BY <1>0, <1>1, <1>2, <2>1, RecvHintOK DEF Hinted
<1>3. CASE Decided
  <2>1. PICK st : GoodStatus(st) /\ Reschedule(st)
    BY <1>3 DEF Decided
  <2>2. PICK o \in PolicySched(pol, st) : pol' = o.pol /\ timers' = timers \cup o.timers
    BY <2>1 DEF Reschedule
  <2>3. pol'.type = pol.type /\ st \in Status
    BY <1>0, <2>1, <2>2, SchedKeeps DEF GoodStatus
  <2>4. CASE pol.type \in {"HPF", "HHPF", "CHPF", "KEDF", "IAH", "AWF"}
    <3>1. o.timers = {}
      BY <2>2, <2>4, NoTimers
    <3>2. QED
      BY <1>1, <2>2, <2>3, <3>1
  <2>5. CASE pol.type = "LAX"
    <3>1. IsLAX(pol)
      BY <1>0, <2>5, TypeOf DEF PolicyOK
    <3>2. o.timers = LaxTimers(pol, st)
      BY <2>2, <2>5 DEF PolicySched, SchedLAX, Outcome
    <3>3. QED
      BY <2>2, <2>3, <2>5, <3>1, <3>2, LaxTimer DEF TimersOK
  <2>6. CASE IsCFS(pol)
    <3>1. PICK info : info = Inherit(Charge(pol, st), st)
      OBVIOUS
    <3>2. PICK best : CFSOutcome(pol, st, o, info, best)
      BY <2>2, <2>6, <3>1, SchedCFSOutcome
    <3>3. QED
      BY <1>0, <2>2, <2>3, <3>2 DEF TimersOK, CFSOutcome
  <2>7. CASE IsMLFQ(pol)
    <3>1. PICK info, demoted, best : MLFQOutcome(pol, st, o, info, demoted, best)
      BY <2>2, <2>3, <2>7, SchedMLFQOutcome
    <3>2. QED
      BY <1>0, <2>2, <2>3, <3>1 DEF TimersOK, MLFQOutcome
  <2>8. CASE IsSLO(pol)
    <3>1. PICK info : info = UpdateRuntime(pol, st)
      OBVIOUS
    <3>2. PICK best : SLOOutcome(pol, st, o, info, best)
      BY <2>2, <2>8, <3>1, SchedSLOOutcome
    <3>3. pol.timeslice \in Nat
      BY <2>8 DEF IsSLO
    <3>4. QED
      BY <2>2, <2>3, <3>2, <3>3 DEF TimersOK, SLOOutcome
  <2>9. CASE pol.type \in {"UP", "PUP"}
    BY <2>3, <2>9 DEF TimersOK
  <2>10. QED
    BY <1>0, <2>4, <2>5, <2>6, <2>7, <2>8, <2>9, TypeOf DEF PolicyOK
<1>4. CASE SetPolicyEnd
  BY <1>4 DEF SetPolicyEnd, TimersOK
<1>5. CASE Tick
  <2>1. timers' = {Rest(t, 1) : t \in timers} /\ pol'.type = pol.type
    BY <1>0, <1>5, AgePolicyOK DEF Tick
  <2>2. \A t \in Nat : Rest(t, 1) \in Nat
    BY DEF Rest
  <2>3. QED
    BY <2>1, <2>2 DEF TimersOK
<1>6. QED
  BY <1>1, <1>2, <1>3, <1>4, <1>5, PolicySteps DEF Undecided, TakeTimers, Updated

\* h is not behind g in the order the policy ranks by.
Ahead(p, st, g, h) ==
  CASE p.type = "HPF" -> st.device[g] = st.device[h] => p.prio[g] <= p.prio[h]
    [] p.type = "HHPF" -> p.prio[g] <= p.prio[h]
    [] p.type = "CHPF" -> st.device[g] = st.device[h] => Nice[PidOf[g]] <= Nice[PidOf[h]]
    [] p.type = "AWF" -> PidOf[g] \in p.active => PidOf[h] \in p.active
    [] p.type = "SLO" -> st.device[g] = st.device[h] /\ IsLatencySensitive(p.info[g])
                           => IsLatencySensitive(p.info[h])
    [] p.type = "LAX" -> LaxPrio(p, st, g) <= LaxPrio(p, st, h)
    [] OTHER -> TRUE

\* A timer expires no later than each laxity.
LaxTimed(p, st, T) ==
  p.type = "LAX" => \A h \in LaxQueues(p, st) : \E t \in T : t <= p.lax[h][1] - st.age[h]

\* What a decision of the ranking policies leaves.  Under LAX the order may be out of
\* date once a timer has expired.
RankOK(p, st, T) ==
  \/ p.type = "LAX" /\ 0 \in T
  \/ /\ \A g, h \in ReadyQueues(st) : h \notin st.suspended => Ahead(p, st, g, h)
     /\ LaxTimed(p, st, T)

\* The priority LAX gives a queue at the moment is a number.
LEMMA LaxPrioInt ==
  ASSUME NEW p, IsLAX(p), NEW st, NEW h \in Handles
  PROVE  LaxPrio(p, st, h) \in Int
BY LaxEntry DEF LaxPrio, PriorityDefault

\* PickBestQueue prefers queues that are sensitive to latency.
LEMMA PickBestSensitive ==
  ASSUME NEW p, NEW st, NEW info, NEW S, NEW b \in PickBestQueue(p, st, info, S),
         NEW g \in S, IsLatencySensitive(info[g])
  PROVE  IsLatencySensitive(info[b])
<1> DEFINE urgent == {h \in S : IsUrgent(p, st, info[h], h)}
           sensitive == {h \in S : IsLatencySensitive(info[h])}
<1>1. sensitive # {}
  OBVIOUS
<1>2. urgent \subseteq sensitive
  BY DEF IsUrgent, IsLatencySensitive
<1>3. b \in urgent \cup sensitive
  BY <1>1 DEF PickBestQueue, Least
<1>4. QED
  BY <1>2, <1>3

\* After a decision, no ready queue that is not suspended is behind another ready one,
\* and with LAX a timer is set for every laxity that will run out.
LEMMA DecisionRank ==
  ASSUME NEW p, PolicyOK(p), NEW st, GoodStatus(st), NEW o \in PolicySched(p, st),
         NEW new, new = ResumeAll(SuspendAll(st, o.stop), o.run), NEW T, o.timers \subseteq T
  PROVE  RankOK(o.pol, new, T)
<1>0. st \in Status /\ IsFiniteSet(Handles) /\ st.known \subseteq Handles
  BY PolicyAssumption DEF GoodStatus, Status
<1>1. /\ new.known = st.known /\ new.ready = st.ready /\ new.device = st.device
      /\ new.age = st.age
      /\ new.suspended = (st.suspended \cup (o.stop \cap st.known)) \ (o.run \cap st.known)
  BY <1>0, DecisionSuspends
<1>2. ReadyQueues(new) = ReadyQueues(st) /\ ReadyQueues(st) \subseteq st.known
  BY <1>1 DEF ReadyQueues
<1>3. o.pol.type = p.type
  BY <1>0, SchedKeeps
<1>4. SUFFICES ASSUME NEW g \in ReadyQueues(st), NEW h \in ReadyQueues(st),
                      h \notin new.suspended
               PROVE  Ahead(o.pol, new, g, h)
  <2>1. LaxTimed(o.pol, new, T)
    <3>1. CASE p.type = "LAX"
      <4>1. IsLAX(p) /\ o.pol = p
        BY <3>1, TypeOf, RankingKeeps DEF PolicyOK
      <4>2. o.timers = LaxTimers(p, st)
        BY <3>1 DEF PolicySched, SchedLAX, Outcome
      <4>3. LaxQueues(p, new) = LaxQueues(p, st)
        BY <1>1, <1>2 DEF LaxQueues, IsLax
      <4>4. QED
        BY <1>0, <1>1, <4>1, <4>2, <4>3, LaxTimer DEF LaxTimed
    <3>2. QED
      BY <1>3, <3>1 DEF LaxTimed
  <2>2. QED
    BY <1>2, <2>1 DEF RankOK
<1>5. CASE IsHPF(p)
  <2>1. p.type \in {"HPF", "HHPF"} /\ p.prio[g] \in Int /\ p.prio[h] \in Int
    BY <1>0, <1>2, <1>5, TypeOf DEF IsHPF, Priorities
  <2>2. CASE p.type = "HPF"
    <3> DEFINE S == {x \in st.known :
                       \E y \in ReadyQueues(st) : st.device[y] = st.device[x] /\ p.prio[y] > p.prio[x]}
    <3>1. o.pol = p /\ o.stop = S /\ o.run = st.known \ S
      BY <2>2 DEF PolicySched, SchedHPF, ByPriority, Outcome, Outranked, Contenders
    <3>2. h \notin S
      <4> HIDE DEF S
      <4>1. QED
        BY <1>1, <1>2, <1>4, <3>1
    <3>3. \A y \in ReadyQueues(st) : ~(st.device[y] = st.device[h] /\ p.prio[y] > p.prio[h])
      BY <1>2, <3>2
    <3>4. QED
      BY <1>1, <2>1, <2>2, <3>1, <3>3 DEF Ahead
  <2>3. CASE p.type = "HHPF"
    <3> DEFINE S == {x \in st.known : \E y \in ReadyQueues(st) : p.prio[y] > p.prio[x]}
    <3>1. o.pol = p /\ o.stop = S /\ o.run = st.known \ S
      BY <2>3 DEF PolicySched, SchedHHPF, ByPriority, Outcome, Outranked, Contenders
    <3>2. h \notin S
      <4> HIDE DEF S
      <4>1. QED
        BY <1>1, <1>2, <1>4, <3>1
    <3>3. \A y \in ReadyQueues(st) : ~(p.prio[y] > p.prio[h])
      BY <1>2, <3>2
    <3>4. QED
      BY <1>1, <2>1, <2>3, <3>1, <3>3 DEF Ahead
  <2>4. QED
    BY <2>1, <2>2, <2>3
<1>6. CASE IsCHPF(p)
  <2> DEFINE prio == [x \in Handles |-> IF PidOf[x] \in st.procs THEN Nice[PidOf[x]] ELSE 0]
  <2>0. p.type = "CHPF"
    BY <1>6, TypeOf
  <2> DEFINE S == {x \in st.known : \E y \in ReadyQueues(st) :
                     st.device[y] = st.device[x] /\ prio[y] > prio[x]}
  <2>1. o.pol = p /\ o.stop = S /\ o.run = st.known \ S
    <3>1. o \in ByPriority(p, st, prio, TRUE)
      BY <2>0 DEF PolicySched, SchedCHPF
    <3> HIDE DEF prio
    <3>2. QED
      BY <3>1 DEF ByPriority, Outcome, Outranked, Contenders
  <2>2. h \notin S
    <3> HIDE DEF S
    <3>1. QED
      BY <1>1, <1>2, <1>4, <2>1
  <2>3. \A x \in st.known : PidOf[x] \in st.procs /\ PidOf[x] \in Pids
    BY <1>0, StatusAssumption DEF GoodStatus, Consistent
  <2>4. \A x \in st.known : prio[x] = Nice[PidOf[x]] /\ Nice[PidOf[x]] \in Int
    BY <1>0, <2>3, PolicyAssumption
  <2> HIDE DEF prio
  <2>5. ~(st.device[g] = st.device[h] /\ prio[g] > prio[h])
    BY <1>2, <2>2
  <2>6. QED
    BY <1>1, <1>2, <2>0, <2>1, <2>4, <2>5 DEF Ahead
<1>7. CASE IsAWF(p)
  <2> DEFINE A == {x \in st.known : PidOf[x] \in p.active}
             S == IF A \cap st.ready = {} THEN {} ELSE st.known \ A
  <2>0. p.type = "AWF"
    BY <1>7, TypeOf
  <2>1. o.pol = p /\ o.stop = S /\ o.run = st.known \ S
    BY <2>0 DEF PolicySched, SchedAWF, Outcome
  <2>2. h \notin S
    BY <1>1, <1>2, <1>4, <2>1
  <2>3. ASSUME PidOf[g] \in p.active PROVE PidOf[h] \in p.active
    <3>1. g \in A \cap st.ready
      BY <1>2, <2>3 DEF ReadyQueues
    <3>2. QED
      BY <1>2, <2>2, <3>1
  <2>4. QED
    BY <2>0, <2>1, <2>3 DEF Ahead
<1>8. CASE IsSLO(p)
  <2>0. PICK info : info = UpdateRuntime(p, st)
    OBVIOUS
  <2>1. PICK best : SLOOutcome(p, st, o, info, best)
    BY <1>8, <2>0, SchedSLOOutcome
  <2>2. h \in Run1(st, best)
    BY <1>1, <1>2, <1>4, <2>1 DEF SLOOutcome
  <2>3. PICK d \in BusyDevices(st) : h = best[d]
    BY <2>2 DEF Run1
  <2>4. h \in PickBestQueue(p, st, info, OnDevice(st, d)) /\ st.device[h] = d
    BY <2>1, <2>3 DEF SLOOutcome, OneEach, OnDevice
  <2>5. ASSUME st.device[g] = st.device[h], IsLatencySensitive(info[g])
        PROVE  IsLatencySensitive(info[h])
    <3>1. g \in OnDevice(st, d)
      BY <2>4, <2>5 DEF OnDevice
    <3>2. QED
      BY <2>4, <2>5, <3>1, PickBestSensitive
  <2>6. o.pol.info = SLOAfter(info, st, Run1(st, best)) /\ o.pol.type = "SLO"
    BY <1>3, <1>8, <2>1, TypeOf DEF SLOOutcome, IsSLO
  <2>7. ASSUME NEW x \in st.known
        PROVE  IsLatencySensitive(o.pol.info[x]) <=> IsLatencySensitive(info[x])
    <3>1. SameRank(o.pol.info[x], info[x])
      BY <1>0, <1>8, <2>0, <2>6, SLOEntries
    <3>2. QED
      BY <3>1 DEF SameRank, IsLatencySensitive
  <2>8. QED
    BY <1>1, <1>2, <2>5, <2>6, <2>7 DEF Ahead
<1>9. CASE IsLAX(p)
  <2> DEFINE prio(x) == LaxPrio(p, st, x)
             V == {PriorityMin} \cup {prio(x) : x \in ReadyQueues(st)}
             S == {x \in st.known : prio(x) < Max(V)}
  <2>0. p.type = "LAX"
    BY <1>9, TypeOf
  <2>1. o.pol = p /\ o.stop = S /\ o.run = st.known \ S
    BY <2>0 DEF PolicySched, SchedLAX, Outcome
  <2>2. \A x \in Handles : prio(x) \in Int
    BY <1>9, LaxPrioInt
  <2>3. Max(V) \in Int /\ \A v \in V : v <= Max(V)
    <3> DEFINE D == ReadyQueues(st) \cup {None}
               f == [x \in D |-> IF x = None THEN PriorityMin ELSE prio(x)]
    <3>1. None \notin ReadyQueues(st)
      BY <1>0, <1>2, PolicyAssumption DEF None
    <3>2. IsFiniteSet(ReadyQueues(st))
      BY <1>0, <1>2, FS_Subset
    <3>3. IsFiniteSet(D)
      BY <3>2, FS_AddElement
    <3>4. f \in [D -> Int]
      BY <1>0, <1>2, <2>2 DEF PriorityMin
    <3>5. V = {f[x] : x \in D}
      <4>1. f[None] = PriorityMin /\ \A x \in ReadyQueues(st) : f[x] = prio(x)
        BY <3>1
      <4> HIDE DEF f, prio
      <4>2. QED
        BY <4>1
    <3> HIDE DEF f, V, prio
    <3>6. Max(V) \in V /\ \A v \in V : Max(V) >= v
      BY <3>3, <3>4, <3>5, MaxOfValues
    <3>7. V \subseteq Int
      BY <3>4, <3>5
    <3>8. QED
      BY <3>6, <3>7
  <2>4. h \notin S
    BY <1>1, <1>2, <1>4, <2>1
  <2>5. prio(g) <= prio(h)
    BY <1>0, <1>2, <2>2, <2>3, <2>4
  <2>6. LaxPrio(p, new, g) = prio(g) /\ LaxPrio(p, new, h) = prio(h)
    BY <1>1 DEF LaxPrio, IsLax
  <2>7. QED
    BY <2>0, <2>1, <2>5, <2>6 DEF Ahead
<1>10. CASE p.type \notin {"HPF", "HHPF", "CHPF", "AWF", "SLO", "LAX"}
  BY <1>3, <1>10 DEF Ahead
<1>11. QED
  BY <1>5, <1>6, <1>7, <1>8, <1>9, <1>10, TypeOf DEF PolicyOK

\* A tick of the clock: as long as no timer has expired, no laxity has run out.
LEMMA LaxTick ==
  ASSUME NEW p, IsLAX(p), NEW st \in Status, NEW T, T \subseteq Nat, p.type = "LAX",
         NEW U, U = {Rest(t, 1) : t \in T}, 0 \notin U, LaxTimed(p, st, T)
  PROVE  /\ \A h \in ReadyQueues(st) : LaxPrio(p, AgeStatus(st), h) = LaxPrio(p, st, h)
         /\ LaxTimed(p, AgeStatus(st), U)
<1> DEFINE new == AgeStatus(st)
<1>1. /\ new.known = st.known /\ new.ready = st.ready
      /\ ReadyQueues(new) = ReadyQueues(st) /\ ReadyQueues(st) \subseteq Handles
  BY AgeKeeps DEF ReadyQueues, Status
<1>2. \A t \in T : t > 1 /\ t - 1 \in U
  BY DEF Rest
<1>3. \A h \in LaxQueues(p, st) : \E t \in T : t <= p.lax[h][1] - st.age[h]
  BY DEF LaxTimed
<1>4. ASSUME NEW h \in Handles
      PROVE  st.age[h] \in Nat /\ new.age[h] \in Nat
             /\ (new.age[h] = st.age[h] \/ new.age[h] = st.age[h] + 1)
  BY DEF AgeStatus, Status, Count
<1> HIDE DEF new
<1>5. ASSUME NEW h \in ReadyQueues(st), p.lax[h] # <<>>
      PROVE  /\ IsLax(p, new, h) <=> IsLax(p, st, h)
             /\ IsLax(p, new, h) => \E u \in U : u <= p.lax[h][1] - new.age[h]
  <2>1. p.lax[h][1] \in Int /\ h \in Handles
    BY <1>1, <1>5, LaxEntry
  <2>2. CASE IsLax(p, st, h)
    <3>1. PICK t \in T : t <= p.lax[h][1] - st.age[h]
      BY <1>3, <1>5, <2>2 DEF LaxQueues
    <3>2. t \in Nat /\ t > 1 /\ t - 1 \in U
      BY <1>2
    <3>3. t - 1 <= p.lax[h][1] - new.age[h] /\ new.age[h] < p.lax[h][1]
      BY <1>4, <2>1, <3>1, <3>2
    <3>4. QED
      BY <2>2, <3>2, <3>3 DEF IsLax
  <2>3. CASE ~IsLax(p, st, h)
    BY <1>4, <2>1, <2>3 DEF IsLax
  <2>4. QED
    BY <2>2, <2>3
<1>6. ASSUME NEW h \in ReadyQueues(st) PROVE LaxPrio(p, new, h) = LaxPrio(p, st, h)
  BY <1>1, <1>5, <1>6 DEF LaxPrio, ReadyQueues
<1>7. \A h \in LaxQueues(p, new) : \E u \in U : u <= p.lax[h][1] - new.age[h]
  BY <1>1, <1>5 DEF LaxQueues
<1>8. QED
  BY <1>6, <1>7 DEF LaxTimed, new

\* The order of the ranks survives it: only the ranks of LAX depend on the time.
LEMMA TickRank ==
  ASSUME NEW p, PolicyOK(p), NEW st \in Status, NEW T,
         p.type \notin {"UP", "PUP"} => T \subseteq Nat,
         RankOK(p, st, T)
  PROVE  RankOK(AgePolicy(p), AgeStatus(st), {Rest(t, 1) : t \in T})
<1> DEFINE q == AgePolicy(p)
           new == AgeStatus(st)
           U == {Rest(t, 1) : t \in T}
<1>1. q.type = p.type
  BY AgePolicyOK
<1>2. /\ new.known = st.known /\ new.ready = st.ready
      /\ new.suspended = st.suspended /\ new.device = st.device
      /\ ReadyQueues(new) = ReadyQueues(st) /\ ReadyQueues(st) \subseteq Handles
  BY AgeKeeps DEF ReadyQueues, Status
<1>3. CASE p.type = "SLO"
  <2>1. IsSLO(p)
    BY <1>3, TypeOf DEF PolicyOK
  <2>2. ASSUME NEW h \in Handles
        PROVE  IsLatencySensitive(q.info[h]) <=> IsLatencySensitive(p.info[h])
    <3>1. q.info[h] = AgeInfo("SLO", p.info[h])
      BY <1>3, <2>1 DEF AgePolicy, IsSLO
    <3>2. p.info[h] \in SLOInfo
      BY <2>1 DEF IsSLO
    <3>3. AgeInfo("SLO", p.info[h]).prio = p.info[h].prio
          /\ AgeInfo("SLO", p.info[h]).deadline = p.info[h].deadline
      BY <3>2 DEF AgeInfo, SLOInfo
    <3>4. QED
      BY <3>1, <3>3 DEF IsLatencySensitive
  <2>3. \A g, h \in ReadyQueues(st) : h \notin st.suspended => Ahead(p, st, g, h)
    BY <1>3 DEF RankOK
  <2> HIDE DEF q, new
  <2>4. ASSUME NEW g \in ReadyQueues(st), NEW h \in ReadyQueues(st), h \notin st.suspended
        PROVE  Ahead(q, new, g, h)
    BY <1>1, <1>2, <1>3, <2>2, <2>3, <2>4 DEF Ahead
  <2>5. QED
    BY <1>1, <1>2, <1>3, <2>4 DEF RankOK, LaxTimed, q, new
<1>4. CASE p.type = "LAX"
  <2>1. IsLAX(p) /\ q = p /\ T \subseteq Nat
    BY <1>4, TypeOf DEF PolicyOK, AgePolicy
  <2>2. CASE 0 \in U
    BY <1>4, <2>1, <2>2 DEF RankOK
  <2>3. CASE 0 \notin U
    <3>1. 0 \notin T
      BY <2>1, <2>3 DEF Rest
    <3>2. LaxTimed(p, st, T) /\ \A g, h \in ReadyQueues(st) :
            h \notin st.suspended => LaxPrio(p, st, g) <= LaxPrio(p, st, h)
      BY <1>4, <3>1 DEF RankOK, Ahead
    <3> HIDE DEF U
    <3>3. /\ \A h \in ReadyQueues(st) : LaxPrio(p, new, h) = LaxPrio(p, st, h)
          /\ LaxTimed(p, new, U)
      BY <1>4, <2>1, <2>3, <3>2, LaxTick DEF U
    <3> HIDE DEF new, q
    <3>4. \A g, h \in ReadyQueues(new) : h \notin new.suspended => Ahead(p, new, g, h)
      BY <1>2, <1>4, <3>2, <3>3 DEF Ahead
    <3>5. QED
      BY <2>1, <3>3, <3>4 DEF RankOK, q, new, U
  <2>4. QED
    BY <2>2, <2>3
<1>5. CASE p.type \in {"HPF", "HHPF", "CHPF", "AWF"}
  <2>1. q = p
    BY <1>5 DEF AgePolicy
  <2>2. \A g, h \in ReadyQueues(st) : h \notin st.suspended => Ahead(p, st, g, h)
    BY <1>5 DEF RankOK
  <2> HIDE DEF new
  <2>3. ASSUME NEW g \in ReadyQueues(st), NEW h \in ReadyQueues(st), h \notin st.suspended
        PROVE  Ahead(p, new, g, h)
    BY <1>2, <1>5, <2>2, <2>3 DEF Ahead
  <2>4. QED
    BY <1>2, <1>5, <2>1, <2>3 DEF RankOK, LaxTimed, new
<1>6. CASE p.type \notin {"SLO", "LAX", "HPF", "HHPF", "CHPF", "AWF"}
  BY <1>1, <1>6 DEF RankOK, LaxTimed, Ahead
<1>7. QED
  BY <1>3, <1>4, <1>5, <1>6

\* It holds from the decision until the next event is handled.
RankInv == BatchDone /\ ~fresh => RankOK(pol, status, timers)

\* The ranks stay in order from one decision to the next.
LEMMA RankNext ==
  ASSUME ViewInv, PolInv, TimersOK, RankInv, [Next]_vars
  PROVE  RankInv'
<1>0. GoodStatus(status) /\ PolicyOK(pol)
  BY DEF ViewInv, SchedInv, PolInv
<1>1. CASE Undecided
  BY <1>1 DEF Undecided, RankInv
<1>2. CASE TakeTimers \/ Updated \/ Hinted \/ SetPolicyEnd
  BY <1>2 DEF TakeTimers, Updated, Hinted, SetPolicyEnd, RankInv, BatchDone
<1>3. CASE Decided
  <2>1. PICK st : GoodStatus(st) /\ Reschedule(st)
    BY <1>3 DEF Decided
  <2>2. PICK o \in PolicySched(pol, st) :
          /\ pol' = o.pol /\ status' = ResumeAll(SuspendAll(st, o.stop), o.run)
          /\ timers' = timers \cup o.timers
    BY <2>1 DEF Reschedule
  <2>3. RankOK(pol', status', timers')
    BY <1>0, <2>1, <2>2, DecisionRank
  <2>4. QED
    BY <2>3 DEF RankInv
<1>4. CASE Tick
  <2>1. /\ status' = AgeStatus(status) /\ pol' = AgePolicy(pol)
        /\ timers' = {Rest(t, 1) : t \in timers} /\ UNCHANGED <<wpc, final, fresh>>
    BY <1>4 DEF Tick
  <2>2. ASSUME (BatchDone /\ ~fresh)' PROVE BatchDone /\ ~fresh
    BY <2>1, <2>2 DEF BatchDone
  <2>3. ASSUME BatchDone, ~fresh PROVE RankOK(pol', status', timers')
    BY <1>0, <2>1, <2>3, TickRank DEF RankInv, TimersOK, GoodStatus
  <2>4. QED
    BY <2>2, <2>3 DEF RankInv
<1>5. QED
  BY <1>1, <1>2, <1>3, <1>4, PolicySteps

\* The inductive invariant: the view is accurate, the policy well formed, the timers
\* are times, the foreground is that of the windows and the ranks are in order.
RankedInv == ViewInv /\ PolInv /\ TimersOK /\ WindowsOK(pol) /\ RankInv

\* Under HPF, HHPF, CHPF, LAX, AWF and SLO no ready queue waits while one it competes
\* with and outranks runs, whenever the scheduler sleeps.  For LAX, whose ranks change
\* with the time, it is the timer set for the first laxity to run out that wakes the
\* scheduler.  For AWF the hypothesis says that a process has its windows on one
\* display: the foreground is kept as a set of processes, and a process with active
\* windows on two displays would leave it when either display changes.
THEOREM HighestRuns == OwnDisplay /\ Spec => []HighestFirst
<1> SUFFICES ASSUME OwnDisplay PROVE Spec => []HighestFirst
  OBVIOUS
<1>1. Init => RankedInv
  <2>1. Init => TimersOK /\ RankInv
    BY DEF Init, TimersOK, RankInv
  <2>2. QED
    BY <2>1, ViewInit, PolInit, WindowsInit DEF RankedInv
<1>2. RankedInv /\ [Next]_vars => RankedInv'
  BY ViewNext, PolNext, TimersNext, WindowsNext, RankNext DEF RankedInv
<1>3. RankedInv => HighestFirst
  <2> SUFFICES ASSUME RankedInv, Quiet, NEW g \in ReallyReady, NEW h \in ReallyReady,
                      h \notin paused, Competes(g, h),
                      pol.type \in {"HPF", "HHPF", "CHPF", "LAX", "AWF", "SLO"}
               PROVE  Rank(g) <= Rank(h)
    BY DEF HighestFirst
  <2>1. /\ RankOK(pol, status, timers) /\ PolicyOK(pol) /\ 0 \notin timers
        /\ g \in ReadyQueues(status) /\ h \in ReadyQueues(status) /\ h \notin status.suspended
        /\ status.device[g] = DeviceOf[g] /\ status.device[h] = DeviceOf[h]
        /\ g \in Handles /\ h \in Handles
    BY QuietView DEF RankedInv, RankInv, PolInv, Quiet, Expired, ReallyReady
  <2>2. Ahead(pol, status, g, h)
    BY <2>1 DEF RankOK
  <2>3. PerDevice => status.device[g] = status.device[h]
    BY <2>1 DEF Competes
  <2>4. CASE pol.type \in {"HPF", "HHPF"}
    BY <2>2, <2>3, <2>4 DEF Ahead, PerDevice, Rank
  <2>5. CASE pol.type = "CHPF"
    BY <2>2, <2>3, <2>5 DEF Ahead, PerDevice, Rank
  <2>6. CASE pol.type = "LAX"
    BY <2>2, <2>6 DEF Ahead, Rank
  <2>7. CASE pol.type = "AWF"
    <3>1. pol.active = {pol.windows[d] : d \in DOMAIN pol.windows}
      BY <2>7 DEF RankedInv, WindowsOK, Showing
    <3>2. (\E d \in DOMAIN pol.windows : pol.windows[d] = PidOf[g])
            => (\E d \in DOMAIN pol.windows : pol.windows[d] = PidOf[h])
      BY <2>2, <2>7, <3>1 DEF Ahead
    <3>3. QED
      BY <2>7, <3>2 DEF Rank, OneIf
  <2>8. CASE pol.type = "SLO"
    BY <2>2, <2>3, <2>8 DEF Ahead, PerDevice, Rank, OneIf
  <2>9. QED
    BY <2>4, <2>5, <2>6, <2>7, <2>8
<1>4. QED
  BY <1>1, <1>2, <1>3, PTL DEF Spec

-----------------------------------------------------------------------------
(* Time slices.  The timer a decision of CFS, MLFQ or SLO sets bounds how  *)
(* long a queue has run since: what it has run and what the timer has left *)
(* make at most a slice, until the timer expires.                          *)

TimedOK(p, st, T) ==
  \/ 0 \in T
  \/ /\ (p.type \in {"CFS", "MLFQ"} /\ ReadyQueues(st) # {}) =>
          \E t \in T : /\ t <= Timeslice
                       /\ \A h \in ReadyQueues(st) :
                            p.info[h].running => p.info[h].age + t <= Timeslice
     /\ (p.type = "SLO" /\ ReadyQueues(st) # {}) => \E t \in T : t <= p.timeslice
     /\ LaxTimed(p, st, T)

\* CFS: what runs had the least runtime when it was chosen.
FairOK(p, st) ==
  p.type = "CFS" =>
    \A g, h \in ReadyQueues(st) :
      (h \notin st.suspended /\ st.device[g] = st.device[h]) =>
        p.info[h].vruntime <= p.info[g].vruntime

\* MLFQ: no entry has used up its slice.
SlicesOK(p) ==
  p.type = "MLFQ" => \A h \in Handles : p.info[h] # <<>> => WithinSlice(p.info[h])

\* The queues that are ready have entries once the policy was asked.
EntriesOK(p, st) ==
  /\ p.type = "CFS" => \A h \in ReadyQueues(st) : p.info[h] \in CFSNode
  /\ p.type = "MLFQ" => \A h \in ReadyQueues(st) : p.info[h] \in MLFQNode

\* Sched of CFS, MLFQ and SLO sets its timer whenever a queue is ready, and what it
\* runs starts a slice.
LEMMA DecisionTimed ==
  ASSUME NEW p, PolicyOK(p), NEW st, GoodStatus(st), NEW o \in PolicySched(p, st),
         NEW new, new = ResumeAll(SuspendAll(st, o.stop), o.run), NEW T, o.timers \subseteq T
  PROVE  TimedOK(o.pol, new, T) /\ FairOK(o.pol, new) /\ EntriesOK(o.pol, new)
<1>0. st \in Status /\ st.known \subseteq Handles
  BY DEF GoodStatus, Status
<1>1. /\ new.known = st.known /\ new.ready = st.ready /\ new.device = st.device
      /\ new.suspended = (st.suspended \cup (o.stop \cap st.known)) \ (o.run \cap st.known)
  BY <1>0, DecisionSuspends
<1>2. ReadyQueues(new) = ReadyQueues(st) /\ ReadyQueues(st) \subseteq st.known
  BY <1>1 DEF ReadyQueues
<1>3. o.pol.type = p.type
  BY <1>0, SchedKeeps
<1>4. LaxTimed(o.pol, new, T)
  <2>1. RankOK(o.pol, new, T)
    BY DecisionRank
  <2>2. CASE p.type = "LAX"
    <3>1. IsLAX(p) /\ o.pol = p
      BY <2>2, TypeOf, RankingKeeps DEF PolicyOK
    <3>2. o.timers = LaxTimers(p, st)
      BY <2>2 DEF PolicySched, SchedLAX, Outcome
    <3>3. new.age = st.age
      BY <1>0, DecisionSuspends
    <3>4. LaxQueues(p, new) = LaxQueues(p, st)
      BY <1>1, <1>2, <3>3 DEF LaxQueues, IsLax
    <3>5. QED
      BY <1>0, <3>1, <3>2, <3>3, <3>4, LaxTimer DEF LaxTimed
  <2>3. QED
    BY <1>3, <2>2 DEF LaxTimed
<1>5. CASE IsCFS(p)
  <2>0. p.type = "CFS"
    BY <1>5, TypeOf
  <2>1. PICK info : info = Inherit(Charge(p, st), st)
    OBVIOUS
  <2>2. PICK best : CFSOutcome(p, st, o, info, best)
    BY <1>5, <2>1, SchedCFSOutcome
  <2>3. /\ info \in [Handles -> {<<>>} \cup CFSNode]
        /\ \A h \in ReadyQueues(st) : info[h] \in CFSNode
    BY <1>0, <1>5, <2>1, CFSEntries
  <2> DEFINE R == Run1(st, best)
             C == Chosen(info, st, R)
  <2>4. o.pol.info = C
    BY <1>5, <2>2 DEF CFSOutcome, IsCFS
  <2>5. \A h \in ReadyQueues(st) :
          /\ C[h] \in CFSNode /\ C[h].running = (h \in R) /\ (h \in R => C[h].age = 0)
          /\ C[h].vruntime = info[h].vruntime
    BY <1>0, <1>2, <2>3, ChosenEntries, NodeNotEmpty
  <2> HIDE DEF C, R
  <2>6. EntriesOK(o.pol, new)
    BY <1>2, <1>3, <2>0, <2>4, <2>5 DEF EntriesOK
  <2>7. TimedOK(o.pol, new, T)
    <3>1. ReadyQueues(st) # {} => Timeslice \in T
      BY <2>2 DEF CFSOutcome
    <3>2. Timeslice \in Nat
      BY PolicyAssumption
    <3>3. \A h \in ReadyQueues(st) : C[h].running => C[h].age + Timeslice <= Timeslice
      <4>1. \A h \in ReadyQueues(st) : C[h].running => C[h].age = 0
        BY <2>5, Zenon
      <4>2. QED
        BY <3>2, <4>1
    <3>4. QED
      BY <1>2, <1>3, <1>4, <2>0, <2>4, <3>1, <3>2, <3>3 DEF TimedOK
  <2>8. FairOK(o.pol, new)
    <3> SUFFICES ASSUME NEW g \in ReadyQueues(st), NEW h \in ReadyQueues(st),
                        h \notin new.suspended, st.device[g] = st.device[h]
                 PROVE  C[h].vruntime <= C[g].vruntime
      BY <1>1, <1>2, <2>4 DEF FairOK
    <3>1. h \in R
      BY <1>1, <1>2, <2>2 DEF CFSOutcome, R
    <3>2. PICK d \in BusyDevices(st) : h = best[d]
      BY <3>1 DEF Run1, R
    <3>3. h \in OnDevice(st, d)
      BY <2>2, <3>2 DEF CFSOutcome, OneEach
    <3>4. g \in OnDevice(st, d)
      BY <3>3 DEF OnDevice
    <3>5. info[h].vruntime <= info[g].vruntime
      BY <2>2, <3>2, <3>4 DEF CFSOutcome
    <3>6. QED
      BY <2>5, <3>5
  <2>9. QED
    BY <2>6, <2>7, <2>8
<1>6. CASE IsMLFQ(p)
  <2>0. p.type = "MLFQ"
    BY <1>6, TypeOf
  <2>1. PICK info, demoted, best : MLFQOutcome(p, st, o, info, demoted, best)
    BY <1>0, <1>6, SchedMLFQOutcome
  <2>2. /\ info \in [Handles -> {<<>>} \cup MLFQNode]
        /\ \A h \in Handles \cap st.known : info[h] \in MLFQNode
    BY <2>1 DEF MLFQOutcome
  <2> DEFINE R == Run1(st, best)
             C == MLFQAfter(info, st, R)
  <2>3. o.pol.info = C
    BY <1>6, <2>1 DEF MLFQOutcome, IsMLFQ
  <2>4. \A h \in ReadyQueues(st) :
          C[h] \in MLFQNode /\ C[h].running = (h \in R) /\ (h \in R => C[h].age = 0)
    BY <1>0, <1>2, <2>2, MLFQAfterEntries
  <2> HIDE DEF C, R
  <2>5. EntriesOK(o.pol, new) /\ FairOK(o.pol, new)
    BY <1>2, <1>3, <2>0, <2>3, <2>4 DEF EntriesOK, FairOK
  <2>6. ReadyQueues(st) # {} => Timeslice \in T
    BY <2>1 DEF MLFQOutcome
  <2>7. Timeslice \in Nat
    BY PolicyAssumption
  <2>8. \A h \in ReadyQueues(st) : C[h].running => C[h].age + Timeslice <= Timeslice
    <3>1. \A h \in ReadyQueues(st) : C[h].running => C[h].age = 0
      BY <2>4, Zenon
    <3>2. QED
      BY <2>7, <3>1
  <2>9. TimedOK(o.pol, new, T)
    BY <1>2, <1>3, <1>4, <2>0, <2>3, <2>6, <2>7, <2>8 DEF TimedOK
  <2>10. QED
    BY <2>5, <2>9
<1>7. CASE IsSLO(p)
  <2>0. p.type = "SLO"
    BY <1>7, TypeOf
  <2>1. PICK info : info = UpdateRuntime(p, st)
    OBVIOUS
  <2>2. PICK best : SLOOutcome(p, st, o, info, best)
    BY <1>7, <2>1, SchedSLOOutcome
  <2>3. o.pol.timeslice = p.timeslice /\ p.timeslice \in Nat
    BY <1>7, <2>2 DEF SLOOutcome, IsSLO
  <2>4. ReadyQueues(st) # {} => p.timeslice \in T
    BY <2>2 DEF SLOOutcome
  <2>5. QED
    BY <1>2, <1>3, <1>4, <2>0, <2>3, <2>4 DEF TimedOK, FairOK, EntriesOK
<1>8. CASE p.type \notin {"CFS", "MLFQ", "SLO"}
  BY <1>3, <1>4, <1>8 DEF TimedOK, FairOK, EntriesOK
<1>9. QED
  BY <1>5, <1>6, <1>7, <1>8, TypeOf DEF PolicyOK

\* Time passing makes an entry of MLFQ older; its level and its used slice stay.
LEMMA AgeMLFQ ==
  ASSUME NEW i \in MLFQNode
  PROVE  LET j == AgeInfo("MLFQ", i)
         IN  /\ j \in MLFQNode /\ j.running = i.running /\ j.age = i.age + 1
             /\ j.prio = i.prio /\ j.used = i.used
<1> DEFINE a == i.age + 1
           b == i.sinceUpdate + 1
           c == i.sincePending + 1
<1>1. AgeInfo("MLFQ", i) = [i EXCEPT !.age = a, !.sinceUpdate = b, !.sincePending = c]
  BY NodeNotEmpty DEF AgeInfo
<1>2. a \in Nat /\ b \in Nat /\ c \in Nat
  BY DEF MLFQNode
<1> DEFINE j == [i EXCEPT !.age = a, !.sinceUpdate = b, !.sincePending = c]
<1> HIDE DEF a, b, c
<1>3. j \in MLFQNode
  BY <1>2 DEF MLFQNode
<1>4. j.running = i.running /\ j.age = a /\ j.prio = i.prio /\ j.used = i.used
  BY <1>2 DEF MLFQNode
<1>5. QED
  BY <1>1, <1>3, <1>4 DEF a

\* What is left of a timer and how long a queue has run change together.
LEMMA TickTimed ==
  ASSUME NEW p, PolicyOK(p), NEW st \in Status, NEW T,
         p.type \notin {"UP", "PUP"} => T \subseteq Nat,
         TimedOK(p, st, T), FairOK(p, st), EntriesOK(p, st), RankOK(p, st, T)
  PROVE  LET q == AgePolicy(p)
             new == AgeStatus(st)
         IN  /\ TimedOK(q, new, {Rest(t, 1) : t \in T}) /\ FairOK(q, new)
             /\ EntriesOK(q, new)
<1> DEFINE q == AgePolicy(p)
           new == AgeStatus(st)
           U == {Rest(t, 1) : t \in T}
<1>1. q.type = p.type
  BY AgePolicyOK
<1>2. /\ new.suspended = st.suspended /\ new.device = st.device
      /\ ReadyQueues(new) = ReadyQueues(st) /\ ReadyQueues(st) \subseteq Handles
  BY AgeKeeps DEF ReadyQueues, Status
<1>3. RankOK(q, new, U)
  BY TickRank
<1>4. Timeslice \in Nat
  BY PolicyAssumption
<1>5. p.type \notin {"UP", "PUP"} /\ 0 \notin U =>
        (T \subseteq Nat /\ 0 \notin T /\ \A t \in T : t > 1 /\ t - 1 \in U)
  BY DEF Rest
<1>6. CASE p.type = "CFS"
  <2>1. IsCFS(p)
    BY <1>6, TypeOf DEF PolicyOK
  <2>2. ASSUME NEW h \in ReadyQueues(st)
        PROVE  /\ p.info[h] \in CFSNode /\ q.info[h] \in CFSNode
               /\ q.info[h].vruntime = p.info[h].vruntime
               /\ q.info[h].running = p.info[h].running
               /\ q.info[h].age <= p.info[h].age + 1
    <3>1. h \in Handles /\ p.info[h] \in CFSNode
      BY <1>2, <1>6 DEF EntriesOK
    <3>2. q.info[h] = AgeInfo("CFS", p.info[h])
      BY <1>6, <2>1, <3>1 DEF AgePolicy, IsCFS
    <3>3. p.info[h] # <<>>
      BY <3>1, NodeNotEmpty
    <3> DEFINE i == p.info[h]
               b == i.age + 1
    <3>4. q.info[h] = IF i.running THEN [i EXCEPT !.age = b] ELSE i
      BY <3>2, <3>3 DEF AgeInfo
    <3>5. b \in Nat /\ i.age \in Nat /\ i.age <= b
      BY <3>1 DEF CFSNode
    <3> HIDE DEF i, b
    <3>6. i \in CFSNode
      BY <3>1 DEF i
    <3>7. /\ [i EXCEPT !.age = b] \in CFSNode /\ [i EXCEPT !.age = b].vruntime = i.vruntime
          /\ [i EXCEPT !.age = b].running = i.running /\ [i EXCEPT !.age = b].age = b
      BY <3>5, <3>6 DEF CFSNode
    <3>8. /\ q.info[h] \in CFSNode /\ q.info[h].vruntime = i.vruntime
          /\ q.info[h].running = i.running /\ q.info[h].age <= b
      BY <3>4, <3>5, <3>6, <3>7
    <3>9. QED
      BY <3>1, <3>8 DEF i, b
  <2> HIDE DEF q, new, U
  <2>3. EntriesOK(q, new)
    BY <1>1, <1>2, <1>6, <2>2 DEF EntriesOK
  <2>4. FairOK(q, new)
    BY <1>1, <1>2, <1>6, <2>2 DEF FairOK
  <2>5. TimedOK(q, new, U)
    <3> SUFFICES ASSUME 0 \notin U, ReadyQueues(st) # {}
                 PROVE  \E u \in U : /\ u <= Timeslice
                                    /\ \A h \in ReadyQueues(st) :
                                         q.info[h].running => q.info[h].age + u <= Timeslice
      BY <1>1, <1>2, <1>6 DEF TimedOK, LaxTimed
    <3>1. T \subseteq Nat /\ 0 \notin T /\ \A t \in T : t > 1 /\ t - 1 \in U
      BY <1>5, <1>6
    <3>2. PICK t \in T : /\ t <= Timeslice
                         /\ \A h \in ReadyQueues(st) :
                              p.info[h].running => p.info[h].age + t <= Timeslice
      BY <1>6, <3>1 DEF TimedOK
    <3>3. t \in Nat /\ t - 1 \in U /\ t - 1 <= Timeslice
      BY <1>4, <3>1, <3>2
    <3>4. ASSUME NEW h \in ReadyQueues(st), q.info[h].running
          PROVE  q.info[h].age + (t - 1) <= Timeslice
      <4>1. p.info[h].age + t <= Timeslice
        BY <2>2, <3>2, <3>4
      <4>2. q.info[h].age \in Nat /\ p.info[h].age \in Nat
        BY <2>2 DEF CFSNode
      <4>3. QED
        BY <1>4, <2>2, <3>3, <4>1, <4>2
    <3>5. QED
      BY <3>3, <3>4
  <2>6. QED
    BY <2>3, <2>4, <2>5 DEF q, new, U
<1>7. CASE p.type = "MLFQ"
  <2>1. IsMLFQ(p)
    BY <1>7, TypeOf DEF PolicyOK
  <2>2. ASSUME NEW h \in ReadyQueues(st)
        PROVE  /\ p.info[h] \in MLFQNode /\ q.info[h] \in MLFQNode
               /\ q.info[h].running = p.info[h].running
               /\ q.info[h].age = p.info[h].age + 1
    <3>1. h \in Handles /\ p.info[h] \in MLFQNode
      BY <1>2, <1>7 DEF EntriesOK
    <3>2. q.info[h] = AgeInfo("MLFQ", p.info[h])
      BY <1>7, <2>1, <3>1 DEF AgePolicy, IsMLFQ
    <3>3. p.info[h] # <<>>
      BY <3>1, NodeNotEmpty
    <3>4. QED
      BY <3>1, <3>2, <3>3, AgeMLFQ
  <2> HIDE DEF q, new, U
  <2>3. EntriesOK(q, new) /\ FairOK(q, new)
    BY <1>1, <1>2, <1>7, <2>2 DEF EntriesOK, FairOK
  <2>5. TimedOK(q, new, U)
    <3> SUFFICES ASSUME 0 \notin U, ReadyQueues(st) # {}
                 PROVE  \E u \in U : /\ u <= Timeslice
                                    /\ \A h \in ReadyQueues(st) :
                                         q.info[h].running => q.info[h].age + u <= Timeslice
      BY <1>1, <1>2, <1>7 DEF TimedOK, LaxTimed
    <3>1. T \subseteq Nat /\ 0 \notin T /\ \A t \in T : t > 1 /\ t - 1 \in U
      BY <1>5, <1>7
    <3>2. PICK t \in T : /\ t <= Timeslice
                         /\ \A h \in ReadyQueues(st) :
                              p.info[h].running => p.info[h].age + t <= Timeslice
      BY <1>7, <3>1 DEF TimedOK
    <3>3. t \in Nat /\ t - 1 \in U /\ t - 1 <= Timeslice
      BY <1>4, <3>1, <3>2
    <3>4. ASSUME NEW h \in ReadyQueues(st), q.info[h].running
          PROVE  q.info[h].age + (t - 1) <= Timeslice
      <4>1. p.info[h].age + t <= Timeslice
        BY <2>2, <3>2, <3>4
      <4>2. p.info[h].age \in Nat
        BY <2>2 DEF MLFQNode
      <4>3. QED
        BY <1>4, <2>2, <3>3, <4>1, <4>2
    <3>5. QED
      BY <3>3, <3>4
  <2>6. QED
    BY <2>3, <2>5 DEF q, new, U
<1>8. CASE p.type = "SLO"
  <2>1. IsSLO(p)
    BY <1>8, TypeOf DEF PolicyOK
  <2>2. q.timeslice = p.timeslice /\ p.timeslice \in Nat
    BY <1>8, <2>1 DEF AgePolicy, IsSLO
  <2> HIDE DEF q, new, U
  <2>3. ASSUME 0 \notin U, ReadyQueues(st) # {} PROVE \E u \in U : u <= q.timeslice
    <3>1. T \subseteq Nat /\ 0 \notin T /\ \A t \in T : t > 1 /\ t - 1 \in U
      BY <1>5, <1>8, <2>3
    <3>2. PICK t \in T : t <= p.timeslice
      BY <1>8, <2>3, <3>1 DEF TimedOK
    <3>3. t - 1 \in U /\ t - 1 <= p.timeslice
      BY <2>2, <3>1, <3>2
    <3>4. QED
      BY <2>2, <3>3
  <2>4. QED
    BY <1>1, <1>2, <1>8, <2>3 DEF TimedOK, FairOK, EntriesOK, LaxTimed, q, new, U
<1>9. CASE p.type \notin {"CFS", "MLFQ", "SLO"}
  <2> HIDE DEF q, new, U
  <2>1. 0 \in U \/ LaxTimed(q, new, U)
    BY <1>3 DEF RankOK
  <2>2. QED
    BY <1>1, <1>9, <2>1 DEF TimedOK, FairOK, EntriesOK, q, new, U
<1>10. QED
  BY <1>6, <1>7, <1>8, <1>9

\* The inductive invariant: what a decision leaves, and the slices of MLFQ at all times.
TimeInv ==
  /\ SlicesOK(pol)
  /\ (BatchDone /\ ~fresh) =>
       /\ TimedOK(pol, status, timers) /\ FairOK(pol, status) /\ EntriesOK(pol, status)

\* No decision of MLFQ and no tick lets an entry use up its slice: the first demotes
\* what has, the second is charged at the next decision.
LEMMA SlicesKept ==
  ASSUME NEW p, PolicyOK(p), SlicesOK(p)
  PROVE  /\ \A st \in Status : \A o \in PolicySched(p, st) : SlicesOK(o.pol)
         /\ SlicesOK(AgePolicy(p))
         /\ \A e : TypedHint(e) => SlicesOK(RecvHint(p, e))
<1>1. CASE ~IsMLFQ(p)
  <2>1. p.type # "MLFQ"
    BY <1>1, TypeOf DEF PolicyOK
  <2>2. /\ \A st \in Status : \A o \in PolicySched(p, st) : o.pol.type = p.type
        /\ AgePolicy(p).type = p.type
        /\ \A e : TypedHint(e) => RecvHint(p, e).type = p.type
    BY SchedKeeps, AgePolicyOK, RecvHintOK
  <2>3. QED
    BY <2>1, <2>2 DEF SlicesOK
<1>2. CASE IsMLFQ(p)
  <2>0. p.type = "MLFQ" /\ p.info \in [Handles -> {<<>>} \cup MLFQNode]
    BY <1>2, TypeOf DEF IsMLFQ
  <2>1. ASSUME NEW st \in Status, NEW o \in PolicySched(p, st) PROVE SlicesOK(o.pol)
    <3>1. PICK info, demoted, best : MLFQOutcome(p, st, o, info, demoted, best)
      BY <1>2, SchedMLFQOutcome
    <3> DEFINE C == MLFQAfter(info, st, Run1(st, best))
    <3>2. o.pol.info = C
      BY <1>2, <3>1 DEF MLFQOutcome, IsMLFQ
    <3>3. /\ info \in [Handles -> {<<>>} \cup MLFQNode]
          /\ \A h \in Handles \cap st.known : info[h] \in MLFQNode
          /\ \A h \in Handles \ st.known : info[h] = p.info[h]
          /\ \A h \in st.known :
               (p.info[h] # <<>> => WithinSlice(p.info[h])) => WithinSlice(info[h])
      BY <3>1 DEF MLFQOutcome
    <3>4. /\ \A h \in Handles \ st.known : C[h] = info[h]
          /\ \A h \in Handles \cap st.known :
               C[h].used = info[h].used /\ C[h].prio = info[h].prio
      BY <3>3, MLFQAfterEntries
    <3> HIDE DEF C
    <3>5. ASSUME NEW h \in Handles, C[h] # <<>> PROVE WithinSlice(C[h])
      <4>1. p.info[h] # <<>> => WithinSlice(p.info[h])
        BY <2>0 DEF SlicesOK
      <4>2. CASE h \in st.known
        BY <3>3, <3>4, <4>1, <4>2 DEF WithinSlice
      <4>3. CASE h \notin st.known
        BY <3>3, <3>4, <3>5, <4>1, <4>3
      <4>4. QED
        BY <4>2, <4>3
    <3>6. QED
      BY <3>2, <3>5 DEF SlicesOK
  <2>2. SlicesOK(AgePolicy(p))
    <3>1. ASSUME NEW h \in Handles, AgePolicy(p).info[h] # <<>>
          PROVE  WithinSlice(AgePolicy(p).info[h])
      <4>1. AgePolicy(p).info[h] = AgeInfo("MLFQ", p.info[h])
        BY <1>2, <2>0 DEF AgePolicy, IsMLFQ
      <4>2. CASE p.info[h] = <<>>
        BY <3>1, <4>1, <4>2 DEF AgeInfo
      <4>3. CASE p.info[h] \in MLFQNode
        <5>1. WithinSlice(p.info[h])
          BY <2>0, <4>3, NodeNotEmpty DEF SlicesOK
        <5>2. QED
          BY <4>1, <4>3, <5>1, AgeMLFQ DEF WithinSlice
      <4>4. QED
        BY <2>0, <4>2, <4>3
    <3>2. QED
      BY <3>1 DEF SlicesOK
  <2>3. \A e : RecvHint(p, e) = p
    BY <2>0 DEF RecvHint
  <2>4. QED
    BY <2>1, <2>2, <2>3
<1>3. QED
  BY <1>1, <1>2

\* It holds initially: nothing has been decided.
LEMMA TimeInit == Init => TimeInv
<1> SUFFICES ASSUME Init PROVE TimeInv
  OBVIOUS
<1>1. PICK t \in PolicyType : pol = InitPolicy(t)
  BY SchedulerAssumption DEF Init
<1>2. SlicesOK(pol)
  BY <1>1 DEF SlicesOK, InitPolicy, PolicyType
<1>3. fresh
  BY DEF Init
<1>4. QED
  BY <1>2, <1>3 DEF TimeInv

\* Every step keeps it.
LEMMA TimeNext ==
  ASSUME ViewInv, PolInv, TimersOK, RankInv, TimeInv, [Next]_vars
  PROVE  TimeInv'
<1>0. GoodStatus(status) /\ PolicyOK(pol) /\ SlicesOK(pol)
  BY DEF ViewInv, SchedInv, PolInv, TimeInv
<1>1. CASE Undecided
  BY <1>1 DEF Undecided, TimeInv
<1>2. CASE TakeTimers \/ Updated
  BY <1>2 DEF TakeTimers, Updated, TimeInv, BatchDone
<1>3. CASE Hinted
  <2>1. PICK e \in GivenHints : pol' = RecvHint(pol, e)
    BY <1>3 DEF Hinted
  <2>2. TypedHint(e)
    BY SchedulerAssumption DEF GivenHints
  <2>3. SlicesOK(pol')
    BY <1>0, <2>1, <2>2, SlicesKept
  <2>4. QED
    BY <1>3, <2>3 DEF Hinted, TimeInv
<1>4. CASE SetPolicyEnd
  <2>1. newType \in PolicyType /\ pol' = InitPolicy(newType) /\ fresh'
    BY <1>4 DEF SetPolicyEnd, PolInv
  <2>2. SlicesOK(pol')
    BY <2>1 DEF SlicesOK, InitPolicy, PolicyType
  <2>3. QED
    BY <2>1, <2>2 DEF TimeInv
<1>5. CASE Decided
  <2>1. PICK st : GoodStatus(st) /\ Reschedule(st)
    BY <1>5 DEF Decided
  <2>2. PICK o \in PolicySched(pol, st) :
          /\ pol' = o.pol /\ status' = ResumeAll(SuspendAll(st, o.stop), o.run)
          /\ timers' = timers \cup o.timers
    BY <2>1 DEF Reschedule
  <2>3. TimedOK(pol', status', timers') /\ FairOK(pol', status') /\ EntriesOK(pol', status')
    BY <1>0, <2>1, <2>2, DecisionTimed
  <2>4. SlicesOK(pol')
    BY <1>0, <2>1, <2>2, SlicesKept DEF GoodStatus
  <2>5. QED
    BY <2>3, <2>4 DEF TimeInv
<1>6. CASE Tick
  <2>1. /\ status' = AgeStatus(status) /\ pol' = AgePolicy(pol)
        /\ timers' = {Rest(t, 1) : t \in timers} /\ UNCHANGED <<wpc, final, fresh>>
    BY <1>6 DEF Tick
  <2>2. ASSUME (BatchDone /\ ~fresh)' PROVE BatchDone /\ ~fresh
    BY <2>1, <2>2 DEF BatchDone
  <2>3. ASSUME BatchDone, ~fresh
        PROVE  /\ TimedOK(pol', status', timers') /\ FairOK(pol', status')
               /\ EntriesOK(pol', status')
    BY <1>0, <2>1, <2>3, TickTimed DEF RankInv, TimersOK, TimeInv, GoodStatus
  <2>4. SlicesOK(pol')
    BY <1>0, <2>1, SlicesKept
  <2>5. QED
    BY <2>2, <2>3, <2>4 DEF TimeInv
<1>7. QED
  BY <1>1, <1>2, <1>3, <1>4, <1>5, <1>6, PolicySteps

TimedInv == ViewInv /\ PolInv /\ TimersOK /\ RankInv /\ TimeInv

\* It is an invariant.
LEMMA TimedInvariant == Spec => []TimedInv
<1>1. Init => TimedInv
  <2>1. Init => TimersOK /\ RankInv
    BY DEF Init, TimersOK, RankInv
  <2>2. QED
    BY <2>1, ViewInit, PolInit, TimeInit DEF TimedInv
<1>2. TimedInv /\ [Next]_vars => TimedInv'
  BY ViewNext, PolNext, TimersNext, RankNext, TimeNext DEF TimedInv
<1>3. QED
  BY <1>1, <1>2, PTL DEF Spec

\* What a quiet scheduler may rely on.
LEMMA QuietTimes ==
  ASSUME TimedInv, Quiet
  PROVE  /\ 0 \notin timers /\ TimedOK(pol, status, timers) /\ FairOK(pol, status)
         /\ EntriesOK(pol, status) /\ SlicesOK(pol) /\ PolicyOK(pol)
         /\ pol.type \notin {"UP", "PUP"} => timers \subseteq Nat
         /\ \A h \in ReallyReady :
              /\ h \in ReadyQueues(status) /\ h \in Handles /\ status.device[h] = DeviceOf[h]
              /\ h \notin paused => h \notin status.suspended
  BY QuietView DEF TimedInv, TimeInv, TimersOK, PolInv, Quiet, Expired, ReallyReady

\* The policies that measure time (CFS, MLFQ, SLO) and LAX are asked again in time:
\* whenever the scheduler sleeps, one of its timers expires by then.  Under UP and PUP
\* the timer is a budget, a share of the sum of the utilizations.
THEOREM WakesInTime == Spec => [](pol.type \notin {"UP", "PUP"} => WakeupPending)
<1>1. TimedInv => (pol.type \notin {"UP", "PUP"} => WakeupPending)
  <2> SUFFICES ASSUME TimedInv, pol.type \notin {"UP", "PUP"}, Quiet, NEW d \in Deadlines
               PROVE  \E t \in timers : t <= d
    BY DEF WakeupPending
  <2>1. TimedOK(pol, status, timers) /\ 0 \notin timers
    BY QuietTimes
  <2>2. CASE pol.type \in {"CFS", "MLFQ"}
    BY <2>1, <2>2 DEF TimedOK, Deadlines
  <2>3. CASE pol.type = "SLO"
    BY <2>1, <2>3 DEF TimedOK, Deadlines
  <2>4. CASE pol.type = "LAX"
    <3>1. LaxTimed(pol, status, timers)
      BY <2>1 DEF TimedOK
    <3>2. Deadlines = {pol.lax[h][1] - status.age[h] : h \in LaxQueues(pol, status)}
      BY <2>4 DEF Deadlines, LaxQueues
    <3>3. QED
      BY <2>4, <3>1, <3>2 DEF LaxTimed
  <2>5. CASE pol.type \notin {"CFS", "MLFQ", "SLO", "LAX"}
    BY <2>5 DEF Deadlines
  <2>6. QED
    BY <2>2, <2>3, <2>4, <2>5
<1>2. QED
  BY <1>1, TimedInvariant, PTL

\* MLFQ: a queue that runs is stopped or demoted before it has used a tick more than
\* its slice.  Its slice was not used up at the last decision (SlicesOK), and the timer
\* set there bounds what it has run since.
THEOREM SliceEnds == Spec => []SliceKept
<1>1. TimedInv => SliceKept
  <2> SUFFICES ASSUME TimedInv, Quiet, pol.type = "MLFQ", NEW h \in ReallyReady,
                      pol.info[h].running
               PROVE  pol.info[h].used + pol.info[h].age + 1
                        < SliceOf[pol.info[h].prio] + Timeslice
    BY DEF SliceKept
  <2> DEFINE i == pol.info[h]
  <2>1. /\ TimedOK(pol, status, timers) /\ 0 \notin timers /\ timers \subseteq Nat
        /\ h \in ReadyQueues(status) /\ h \in Handles /\ i \in MLFQNode
    BY QuietTimes DEF EntriesOK
  <2>2. WithinSlice(i)
    BY <2>1, QuietTimes, NodeNotEmpty DEF SlicesOK
  <2>3. PICK t \in timers : i.age + t <= Timeslice
    BY <2>1 DEF TimedOK
  <2>4. t \in Nat /\ t > 0 /\ Timeslice \in Nat
    BY <2>1, PolicyAssumption
  <2>5. i.prio \in Levels /\ i.used \in Nat /\ i.age \in Nat
    BY <2>1 DEF MLFQNode
  <2>6. SliceOf[i.prio] \in Nat
    BY <2>5, PolicyAssumption DEF Levels, MaxLevel
  <2>7. i.used < SliceOf[i.prio]
    BY <2>2 DEF WithinSlice
  <2> HIDE DEF i
  <2>8. i.used + i.age + 1 < SliceOf[i.prio] + Timeslice
    BY <2>3, <2>4, <2>5, <2>6, <2>7
  <2>9. QED
    BY <2>8 DEF i
<1>2. QED
  BY <1>1, TimedInvariant, PTL

\* CFS: the queue that runs is never more than a slice of its virtual runtime ahead of
\* another ready queue of its device.  It had the least runtime when it was chosen, and
\* the timer set there expires within a slice.
THEOREM FairShares == Spec => []FairRuntime
<1>1. TimedInv => FairRuntime
  <2> SUFFICES ASSUME TimedInv, Quiet, pol.type = "CFS", NEW g \in ReallyReady,
                      NEW h \in ReallyReady, h \notin paused, DeviceOf[g] = DeviceOf[h]
               PROVE  Runtime(h) <= Runtime(g) + Timeslice * pol.info[h].rate
    BY DEF FairRuntime
  <2> DEFINE i == pol.info[h]
             j == pol.info[g]
  <2>1. /\ TimedOK(pol, status, timers) /\ 0 \notin timers /\ timers \subseteq Nat
        /\ h \in ReadyQueues(status) /\ g \in ReadyQueues(status)
        /\ i \in CFSNode /\ j \in CFSNode
    BY QuietTimes DEF EntriesOK
  <2>2. i.vruntime <= j.vruntime
    BY QuietTimes DEF FairOK
  <2>3. i.running => i.age <= Timeslice
    <3>1. PICK t \in timers : i.running => i.age + t <= Timeslice
      BY <2>1 DEF TimedOK
    <3>2. t \in Nat /\ Timeslice \in Nat
      BY <2>1, PolicyAssumption
    <3>3. i.age \in Nat
      BY <2>1 DEF CFSNode
    <3>4. QED
      BY <3>1, <3>2, <3>3
  <2>4. /\ i.vruntime \in Int /\ j.vruntime \in Int /\ i.age \in Nat /\ j.age \in Nat
        /\ i.rate \in Nat /\ j.rate \in Nat /\ Timeslice \in Nat
    BY <2>1, PolicyAssumption DEF CFSNode
  <2> DEFINE a == IF i.running THEN i.age * i.rate ELSE 0
             b == IF j.running THEN j.age * j.rate ELSE 0
  <2>5. Runtime(h) = i.vruntime + a /\ Runtime(g) = j.vruntime + b
    BY DEF Runtime
  <2> HIDE DEF i, j
  <2>6. a \in Int /\ a <= Timeslice * i.rate
    <3>1. \A x, y, z \in Nat : x <= y => x * z <= y * z
      OBVIOUS
    <3>2. Timeslice * i.rate \in Nat /\ i.age * i.rate \in Nat
      BY <2>4
    <3>3. i.running => i.age * i.rate <= Timeslice * i.rate
      BY <2>3, <2>4, <3>1
    <3>4. QED
      BY <3>2, <3>3
  <2>7. b \in Nat /\ Timeslice * i.rate \in Nat
    BY <2>4
  <2> HIDE DEF a, b
  <2>8. i.vruntime + a <= (j.vruntime + b) + Timeslice * i.rate
    BY <2>2, <2>4, <2>6, <2>7
  <2>9. QED
    BY <2>5, <2>8 DEF i
<1>2. QED
  BY <1>1, TimedInvariant, PTL

-----------------------------------------------------------------------------
(* Work is done.  A decision resumes only the queues a policy does not     *)
(* believe to be running; so a queue marked as running has to be running   *)
(* at all times, whatever events the next decision comes with.             *)

\* A queue marked as running is not suspended.
MarkedRun(p, st) ==
  /\ p.type \in {"CFS", "MLFQ"} =>
       \A h \in Handles : (p.info[h] # <<>> /\ p.info[h].running) => h \notin st.suspended
  /\ p.type = "SLO" => \A h \in Handles : p.info[h].running => h \notin st.suspended
  /\ p.type = "UP" => p.cur \notin st.suspended

\* The bounds RecvHint puts on what it stores: IAH compares the priorities with the
\* lowest one, KEDF runs one queue at least.
BoundsOK(p) ==
  /\ p.type = "IAH" => \A h \in Handles : p.prio[h] >= PriorityMin
  /\ p.type = "KEDF" =>
       p.k >= 1 /\ \A h \in Handles : p.deadline[h] # <<>> => p.deadline[h][1] < Forever

\* Eligible and PerDevice, of any state of a policy.
MayRun(p, st, h) ==
  CASE p.type = "UP" -> p.utils[h] # NoEntry
    [] p.type = "KEDF" -> p.deadline[h] # <<>>
    [] p.type = "LAX" -> LaxPrio(p, st, h) >= PriorityMin
    [] OTHER -> TRUE
OfDevice(p) == p.type \in {"HPF", "CHPF", "CFS", "MLFQ", "SLO"}
Rivals(p, st, g, h) == OfDevice(p) => st.device[g] = st.device[h]
Working(p, st) ==
  \A h \in ReadyQueues(st) : MayRun(p, st, h) =>
    \E g \in ReadyQueues(st) : g \notin st.suspended /\ Rivals(p, st, g, h)

RivalsOf(p, st, h) == {g \in ReadyQueues(st) : Rivals(p, st, g, h)}

\* Among the queues h competes with, one has the highest priority.
LEMMA HighestRival ==
  ASSUME NEW p, NEW st \in Status, NEW h \in ReadyQueues(st), NEW f \in [Handles -> Int]
  PROVE  \E g \in RivalsOf(p, st, h) : \A y \in RivalsOf(p, st, h) : f[y] <= f[g]
<1> DEFINE S == RivalsOf(p, st, h)
<1>1. S \subseteq Handles /\ IsFiniteSet(S) /\ h \in S
  BY FS_Subset, PolicyAssumption DEF Status, ReadyQueues, Rivals, RivalsOf
<1> HIDE DEF S
<1> DEFINE F == [x \in S |-> f[x]]
<1>2. F \in [S -> Int]
  BY <1>1
<1>3. PICK g \in S : \A y \in S : F[g] >= F[y]
  <2> HIDE DEF F
  <2>1. QED
    BY <1>1, <1>2, FiniteGreatest
<1>4. \A y \in S : f[y] \in Int
  BY <1>1
<1>5. QED
  BY <1>3, <1>4 DEF S

\* An outcome runs the queues of R, those it does not resume because they run.
Runs(st, o, R) == \A h \in R : h \in o.run \/ (h \notin o.stop /\ h \notin st.suspended)
AllBusy(st) ==
  \A h \in ReadyQueues(st) :
    \E g \in ReadyQueues(st) : g \notin st.suspended /\ st.device[g] = st.device[h]

\* What the policies that choose one queue for each device leave running, and marked.
LEMMA ChosenWork ==
  ASSUME NEW st \in Status, NEW o, NEW best, OneEach(st, best),
         NEW new, new = ResumeAll(SuspendAll(st, o.stop), o.run),
         Runs(st, o, Run1(st, best))
  PROVE  Run1(st, best) \cap new.suspended = {} /\ AllBusy(new)
<1>1. /\ new.known = st.known /\ new.ready = st.ready /\ new.device = st.device
      /\ new.suspended = (st.suspended \cup (o.stop \cap st.known)) \ (o.run \cap st.known)
  BY DecisionSuspends
<1>2. ReadyQueues(new) = ReadyQueues(st) /\ ReadyQueues(st) \subseteq st.known
  BY <1>1 DEF ReadyQueues
<1>3. Run1(st, best) \subseteq ReadyQueues(st)
  BY DEF Run1, OneEach
<1>4. Run1(st, best) \cap new.suspended = {}
  BY <1>1, <1>2, <1>3 DEF Runs
<1>5. ASSUME NEW h \in ReadyQueues(st)
      PROVE  \E g \in Run1(st, best) : st.device[g] = st.device[h]
  <2>1. st.device[h] \in BusyDevices(st)
    BY DEF BusyDevices
  <2>2. best[st.device[h]] \in OnDevice(st, st.device[h])
    BY <2>1 DEF OneEach
  <2>3. QED
    BY <2>1, <2>2 DEF Run1, OnDevice
<1>6. QED
  BY <1>1, <1>2, <1>3, <1>4, <1>5 DEF AllBusy

\* Of the policies that mark what runs: what a decision marks runs, and each device
\* with ready queues has a queue that runs.
LEMMA MarkedWork ==
  ASSUME NEW p, IsCFS(p) \/ IsMLFQ(p) \/ IsSLO(p), NEW st, GoodStatus(st), MarkedRun(p, st),
         NEW o \in PolicySched(p, st), NEW new, new = ResumeAll(SuspendAll(st, o.stop), o.run)
  PROVE  MarkedRun(o.pol, new) /\ Working(o.pol, new)
<1> st \in Status
  BY DEF GoodStatus
<1>0. /\ new.known = st.known /\ new.ready = st.ready /\ new.device = st.device
      /\ st.known \subseteq Handles /\ new.suspended \subseteq st.known
  <2>1. new.suspended = (st.suspended \cup (o.stop \cap st.known)) \ (o.run \cap st.known)
    BY DecisionSuspends
  <2>2. st.known \subseteq Handles /\ st.suspended \subseteq st.known
    BY DEF GoodStatus, Consistent, Status
  <2>3. QED
    BY <2>1, <2>2, DecisionSuspends
<1>1. CASE IsCFS(p)
  <2>0. p.type = "CFS" /\ p.info \in [Handles -> {<<>>} \cup CFSNode]
    BY <1>1, TypeOf DEF IsCFS
  <2>1. PICK info : info = Inherit(Charge(p, st), st)
    OBVIOUS
  <2>2. PICK best : CFSOutcome(p, st, o, info, best)
    BY <1>1, <2>1, SchedCFSOutcome
  <2>3. /\ info \in [Handles -> {<<>>} \cup CFSNode]
        /\ \A h \in ReadyQueues(st) : info[h] \in CFSNode
        /\ \A h \in Handles : info[h] # <<>> /\ info[h].running =>
             p.info[h] # <<>> /\ p.info[h].running
    BY <1>1, <2>1, CFSEntries
  <2> DEFINE R == Run1(st, best)
             C == Chosen(info, st, R)
  <2>4. R \subseteq ReadyQueues(st) /\ ReadyQueues(st) \subseteq st.known
    BY <2>2 DEF Run1, OneEach, CFSOutcome, ReadyQueues
  <2>5. Runs(st, o, Run1(st, best))
    <3> SUFFICES ASSUME NEW h \in R, h \notin o.run PROVE h \notin o.stop /\ h \notin st.suspended
      BY DEF Runs
    <3>1. info[h].running /\ h \notin o.stop
      BY <2>2 DEF CFSOutcome
    <3>2. h \in Handles /\ info[h] # <<>>
      BY <1>0, <2>3, <2>4, NodeNotEmpty
    <3>3. p.info[h] # <<>> /\ p.info[h].running
      BY <2>3, <3>1, <3>2
    <3>4. QED
      BY <2>0, <3>1, <3>2, <3>3 DEF MarkedRun
  <2>6. R \cap new.suspended = {} /\ AllBusy(new)
    <3>1. OneEach(st, best)
      BY <2>2 DEF CFSOutcome
    <3>2. QED
      BY <2>5, <3>1, ChosenWork
  <2>7. o.pol.info = C /\ o.pol.type = "CFS"
    BY <1>1, <2>0, <2>2 DEF CFSOutcome, IsCFS
  <2>8. /\ \A h \in Handles \ st.known : C[h] = info[h]
        /\ \A h \in Handles \cap st.known : C[h].running = (h \in R)
    BY <2>3, ChosenEntries
  <2> HIDE DEF C, R
  <2>9. ASSUME NEW h \in Handles, C[h].running, h \in st.known PROVE h \notin new.suspended
    <3>1. h \in R
      BY <2>8, <2>9, Zenon
    <3>2. QED
      BY <2>6, <3>1
  <2>10. MarkedRun(o.pol, new)
    BY <1>0, <2>7, <2>9 DEF MarkedRun
  <2>11. QED
    BY <2>6, <2>7, <2>10 DEF Working, Rivals, AllBusy
<1>2. CASE IsMLFQ(p)
  <2>0. p.type = "MLFQ" /\ p.info \in [Handles -> {<<>>} \cup MLFQNode]
    BY <1>2, TypeOf DEF IsMLFQ
  <2>1. PICK info, demoted, best : MLFQOutcome(p, st, o, info, demoted, best)
    BY <1>2, SchedMLFQOutcome
  <2>2. /\ info \in [Handles -> {<<>>} \cup MLFQNode]
        /\ \A h \in Handles \cap st.known : info[h] \in MLFQNode
    BY <2>1 DEF MLFQOutcome
  <2> DEFINE R == Run1(st, best)
             C == MLFQAfter(info, st, R)
  <2>4. R \subseteq ReadyQueues(st) /\ ReadyQueues(st) \subseteq st.known
    BY <2>1 DEF Run1, OneEach, MLFQOutcome, ReadyQueues
  <2>5. Runs(st, o, Run1(st, best))
    <3> SUFFICES ASSUME NEW h \in R, h \notin o.run PROVE h \notin o.stop /\ h \notin st.suspended
      BY DEF Runs
    <3>1. info[h].running /\ h \in st.known
      BY <2>1, <2>4 DEF MLFQOutcome
    <3>2. h \notin o.stop
      BY <2>1, <3>1 DEF MLFQOutcome
    <3>3. p.info[h] # <<>> /\ p.info[h].running
      BY <2>1, <3>1 DEF MLFQOutcome
    <3>4. QED
      BY <1>0, <2>0, <3>1, <3>2, <3>3 DEF MarkedRun
  <2>6. R \cap new.suspended = {} /\ AllBusy(new)
    <3>1. OneEach(st, best)
      BY <2>1 DEF MLFQOutcome
    <3>2. QED
      BY <2>5, <3>1, ChosenWork
  <2>7. o.pol.info = C /\ o.pol.type = "MLFQ"
    BY <1>2, <2>0, <2>1 DEF MLFQOutcome, IsMLFQ
  <2>8. \A h \in Handles \cap st.known : C[h].running = (h \in R)
    BY <2>2, MLFQAfterEntries
  <2> HIDE DEF C, R
  <2>9. ASSUME NEW h \in Handles, C[h].running, h \in st.known PROVE h \notin new.suspended
    <3>1. h \in R
      BY <2>8, <2>9, Zenon
    <3>2. QED
      BY <2>6, <3>1
  <2>10. MarkedRun(o.pol, new)
    BY <1>0, <2>7, <2>9 DEF MarkedRun
  <2>11. QED
    BY <2>6, <2>7, <2>10 DEF Working, Rivals, AllBusy
<1>3. CASE IsSLO(p)
  <2>0. p.type = "SLO"
    BY <1>3, TypeOf
  <2>1. PICK info : info = UpdateRuntime(p, st)
    OBVIOUS
  <2>2. PICK best : SLOOutcome(p, st, o, info, best)
    BY <1>3, <2>1, SchedSLOOutcome
  <2> DEFINE R == Run1(st, best)
             C == SLOAfter(info, st, R)
  <2>3. /\ \A h \in Handles : info[h].running = p.info[h].running
        /\ \A h \in Handles \cap st.known : C[h].running = (h \in R)
    BY <1>3, <2>1, SLOEntries
  <2>4. R \subseteq ReadyQueues(st) /\ ReadyQueues(st) \subseteq st.known
    BY <2>2 DEF Run1, OneEach, SLOOutcome, ReadyQueues
  <2>5. Runs(st, o, Run1(st, best))
    <3> SUFFICES ASSUME NEW h \in R, h \notin o.run PROVE h \notin o.stop /\ h \notin st.suspended
      BY DEF Runs
    <3>1. info[h].running /\ h \notin o.stop /\ h \in Handles
      BY <1>0, <2>2, <2>4 DEF SLOOutcome
    <3>2. p.info[h].running
      BY <2>3, <3>1
    <3>3. QED
      BY <2>0, <3>1, <3>2 DEF MarkedRun
  <2>6. R \cap new.suspended = {} /\ AllBusy(new)
    <3>1. OneEach(st, best)
      BY <2>2 DEF SLOOutcome
    <3>2. QED
      BY <2>5, <3>1, ChosenWork
  <2>7. o.pol.info = C /\ o.pol.type = "SLO"
    BY <1>3, <2>0, <2>2 DEF SLOOutcome, IsSLO
  <2> HIDE DEF C, R
  <2>9. ASSUME NEW h \in Handles, C[h].running, h \in st.known PROVE h \notin new.suspended
    <3>1. h \in R
      BY <2>3, <2>9, Zenon
    <3>2. QED
      BY <2>6, <3>1
  <2>10. MarkedRun(o.pol, new)
    BY <1>0, <2>7, <2>9 DEF MarkedRun
  <2>11. QED
    BY <2>6, <2>7, <2>10 DEF Working, Rivals, AllBusy
<1>4. QED
  BY <1>1, <1>2, <1>3

\* The policies that rank all queues resume the highest of those that compete; IAH and
\* AWF may hold others back, and KEDF those with later deadlines.
LEMMA RankedWork ==
  ASSUME NEW p, PolicyOK(p), p.type \in {"HPF", "HHPF", "CHPF", "LAX", "KEDF", "IAH", "AWF"},
         BoundsOK(p), NEW st, GoodStatus(st), NEW o \in PolicySched(p, st),
         NEW new, new = ResumeAll(SuspendAll(st, o.stop), o.run)
  PROVE  Working(p, new)
<1> st \in Status
  BY DEF GoodStatus
<1>1. /\ new.known = st.known /\ new.ready = st.ready /\ new.device = st.device
      /\ new.age = st.age
      /\ new.suspended = (st.suspended \cup (o.stop \cap st.known)) \ (o.run \cap st.known)
  BY DecisionSuspends
<1>2. ReadyQueues(new) = ReadyQueues(st) /\ ReadyQueues(st) \subseteq st.known
      /\ st.known \subseteq Handles
  BY <1>1 DEF ReadyQueues, Status
<1> SUFFICES ASSUME NEW h \in ReadyQueues(st), MayRun(p, new, h)
             PROVE  \E g \in ReadyQueues(st) : g \notin new.suspended /\ Rivals(p, st, g, h)
  BY <1>1, <1>2 DEF Working, Rivals
<1> DEFINE S == RivalsOf(p, st, h)
<1>0. \A g : g \in S <=> g \in ReadyQueues(st) /\ Rivals(p, st, g, h)
  BY DEF RivalsOf
<1> HIDE DEF S
<1>3. CASE p.type \in {"HPF", "HHPF"}
  <2>1. IsHPF(p) /\ p.prio \in [Handles -> Int]
    BY <1>3, TypeOf DEF PolicyOK, IsHPF, Priorities
  <2>2. PICK g \in S : \A y \in S : p.prio[y] <= p.prio[g]
    BY <2>1, HighestRival DEF S
  <2>3. ASSUME NEW y \in ReadyQueues(st), p.type = "HPF" => st.device[y] = st.device[g]
        PROVE  ~(p.prio[y] > p.prio[g])
    <3>1. y \in S
      BY <1>0, <1>3, <2>2, <2>3 DEF Rivals, OfDevice
    <3>2. p.prio[y] \in Int /\ p.prio[g] \in Int
      BY <1>0, <1>2, <2>1, <2>2
    <3>3. QED
      BY <2>2, <3>1, <3>2
  <2>4. g \in o.run
    <3>1. CASE p.type = "HPF"
      <4>1. o.run = st.known \ {x \in st.known : \E y \in ReadyQueues(st) :
                                  st.device[y] = st.device[x] /\ p.prio[y] > p.prio[x]}
        BY <3>1 DEF PolicySched, SchedHPF, ByPriority, Outcome, Outranked, Contenders
      <4>2. QED
        BY <1>0, <1>2, <2>2, <2>3, <3>1, <4>1
    <3>2. CASE p.type = "HHPF"
      <4>1. o.run = st.known \ {x \in st.known : \E y \in ReadyQueues(st) : p.prio[y] > p.prio[x]}
        BY <3>2 DEF PolicySched, SchedHHPF, ByPriority, Outcome, Outranked, Contenders
      <4>2. QED
        BY <1>0, <1>2, <2>2, <2>3, <3>2, <4>1
    <3>3. QED
      BY <1>3, <3>1, <3>2
  <2>5. QED
    BY <1>0, <1>1, <1>2, <2>2, <2>4
<1>4. CASE p.type = "CHPF"
  <2> DEFINE prio == [x \in Handles |-> IF PidOf[x] \in st.procs THEN Nice[PidOf[x]] ELSE 0]
  <2>1. prio \in [Handles -> Int]
    BY StatusAssumption, PolicyAssumption
  <2>2. o.run = st.known \ {x \in st.known : \E y \in ReadyQueues(st) :
                              st.device[y] = st.device[x] /\ prio[y] > prio[x]}
    <3>1. o \in ByPriority(p, st, prio, TRUE)
      BY <1>4 DEF PolicySched, SchedCHPF
    <3> HIDE DEF prio
    <3>2. QED
      BY <3>1 DEF ByPriority, Outcome, Outranked, Contenders
  <2> HIDE DEF prio
  <2>3. PICK g \in S : \A y \in S : prio[y] <= prio[g]
    BY <2>1, HighestRival DEF S
  <2>4. ASSUME NEW y \in ReadyQueues(st), st.device[y] = st.device[g]
        PROVE  ~(prio[y] > prio[g])
    <3>1. y \in S
      BY <1>0, <1>4, <2>3, <2>4 DEF Rivals, OfDevice
    <3>2. prio[y] \in Int /\ prio[g] \in Int
      BY <1>0, <1>2, <2>1, <2>3
    <3>3. QED
      BY <2>3, <3>1, <3>2
  <2>5. g \in o.run
    BY <1>0, <1>2, <2>2, <2>3, <2>4
  <2>6. QED
    BY <1>0, <1>1, <1>2, <2>3, <2>5
<1>5. CASE p.type = "LAX"
  <2>0. IsLAX(p)
    BY <1>5, TypeOf DEF PolicyOK
  <2> DEFINE f == [x \in Handles |-> LaxPrio(p, st, x)]
             V == {PriorityMin} \cup {LaxPrio(p, st, x) : x \in ReadyQueues(st)}
  <2>1. f \in [Handles -> Int] /\ \A x \in Handles : f[x] = LaxPrio(p, st, x)
    BY <2>0, LaxPrioInt
  <2> HIDE DEF f
  <2>2. PICK g \in S : \A y \in S : f[y] <= f[g]
    BY <2>1, HighestRival DEF S
  <2>3. f[h] >= PriorityMin
    <3>1. LaxPrio(p, new, h) = LaxPrio(p, st, h)
      BY <1>1 DEF LaxPrio, IsLax
    <3>2. QED
      BY <1>2, <1>5, <2>1, <3>1 DEF MayRun
  <2>4. h \in S /\ g \in Handles /\ h \in Handles
    BY <1>0, <1>2, <2>2 DEF Rivals
  <2>5. \A v \in V : v <= f[g]
    <3>1. f[g] \in Int /\ f[h] \in Int /\ PriorityMin \in Int
      BY <2>1, <2>4 DEF PriorityMin
    <3>2. PriorityMin <= f[g]
      BY <2>2, <2>3, <2>4, <3>1
    <3>3. \A x \in ReadyQueues(st) : LaxPrio(p, st, x) <= f[g]
      BY <1>0, <1>2, <1>5, <2>1, <2>2 DEF Rivals, OfDevice
    <3>4. QED
      BY <3>2, <3>3
  <2>6. f[g] \in V
    BY <1>0, <2>1, <2>2, <2>4
  <2>7. Max(V) = f[g]
    <3>1. \A v \in V : v \in Int
      BY <1>2, <2>0, LaxPrioInt DEF PriorityMin
    <3> HIDE DEF V
    <3>2. Max(V) = CHOOSE x \in V : \A y \in V : x >= y
      BY DEF Max
    <3>3. \A x \in V : (\A y \in V : x >= y) => x = f[g]
      BY <2>5, <2>6, <3>1
    <3>4. \A y \in V : f[g] >= y
      BY <2>5, <2>6, <3>1
    <3>5. QED
      BY <2>6, <3>2, <3>3, <3>4
  <2>8. o.run = st.known \ {x \in st.known : LaxPrio(p, st, x) < Max(V)}
    BY <1>5 DEF PolicySched, SchedLAX, Outcome
  <2> HIDE DEF V
  <2>9. ~(f[g] < f[g])
    BY <2>1, <2>4
  <2>10. g \in o.run
    BY <1>0, <1>2, <2>1, <2>2, <2>4, <2>7, <2>8, <2>9
  <2>11. QED
    BY <1>0, <1>1, <1>2, <2>2, <2>10
<1>6. CASE p.type = "AWF"
  <2> DEFINE A == {x \in st.known : PidOf[x] \in p.active}
             Stop == IF A \cap st.ready = {} THEN {} ELSE st.known \ A
  <2>1. o.stop = Stop /\ o.run = st.known \ Stop
    BY <1>6 DEF PolicySched, SchedAWF, Outcome
  <2>2. CASE A \cap st.ready = {}
    BY <1>1, <1>2, <1>6, <2>1, <2>2 DEF Rivals, OfDevice
  <2>3. CASE A \cap st.ready # {}
    <3>1. PICK g : g \in A /\ g \in st.ready
      BY <2>3
    <3>2. g \in o.run /\ g \in ReadyQueues(st)
      BY <2>1, <3>1 DEF ReadyQueues
    <3>3. QED
      BY <1>1, <1>2, <1>6, <3>2 DEF Rivals, OfDevice
  <2>4. QED
    BY <2>2, <2>3
<1>7. CASE p.type = "IAH"
  <2>0. IsIAH(p) /\ p.prio \in [Handles -> Int]
    BY <1>7, TypeOf DEF PolicyOK, IsIAH, Priorities
  <2>1. PICK best, global : IAHOutcome(p, st, o, best, global)
    BY <1>7, SchedIAHOutcome
  <2>2. PICK x \in S : \A y \in S : p.prio[y] <= p.prio[x]
    BY <2>0, HighestRival DEF S
  <2> DEFINE V == {PriorityMin} \cup {p.prio[y] : y \in ReadyQueues(st)}
             d == st.device[x]
             g == best[d]
  <2>3. \A y \in ReadyQueues(st) : p.prio[y] <= p.prio[x]
    BY <1>0, <1>7, <2>2 DEF Rivals, OfDevice
  <2>4. x \in ReadyQueues(st) /\ d \in BusyDevices(st) /\ x \in OnDevice(st, d)
    BY <1>0, <2>2 DEF BusyDevices, OnDevice
  <2>5. g \in ReadyQueues(st) /\ st.device[g] = d /\ -p.prio[g] <= -p.prio[x]
    BY <2>1, <2>4 DEF IAHOutcome, OneEach, OnDevice
  <2>6. p.prio[g] \in Int /\ p.prio[x] \in Int /\ p.prio[x] >= PriorityMin
    BY <1>2, <1>7, <2>0, <2>4, <2>5 DEF BoundsOK
  <2>7. p.prio[g] = p.prio[x]
    BY <2>3, <2>5, <2>6
  <2>8. TopPriority(p, st) = p.prio[x]
    <3>1. TopPriority(p, st) = Max(V)
      BY DEF TopPriority
    <3>2. p.prio[x] \in V /\ \A v \in V : v <= p.prio[x]
      BY <2>3, <2>4, <2>6 DEF PriorityMin
    <3>3. \A v \in V : v \in Int
      BY <1>2, <2>0 DEF PriorityMin
    <3> HIDE DEF V
    <3>4. Max(V) = CHOOSE v \in V : \A w \in V : v >= w
      BY DEF Max
    <3>5. \A v \in V : (\A w \in V : v >= w) => v = p.prio[x]
      BY <3>2, <3>3
    <3>6. \A w \in V : p.prio[x] >= w
      BY <3>2, <3>3
    <3>7. QED
      BY <3>1, <3>2, <3>4, <3>5, <3>6
  <2>9. p.prio[g] >= TopPriority(p, st)
    BY <2>6, <2>7, <2>8
  <2>10. g \in IAHRuns(p, st, best, global)
    BY <2>5, <2>9 DEF IAHRuns
  <2>11. g \in o.run
    BY <2>1, <2>10 DEF IAHOutcome
  <2> HIDE DEF g
  <2>12. QED
    BY <1>1, <1>2, <1>7, <2>5, <2>11 DEF Rivals, OfDevice
<1>8. CASE p.type = "KEDF"
  <2>0. IsKEDF(p) /\ p.k \in Nat /\ p.k >= 1 /\ p.deadline \in [Handles -> DeadlineValues]
    BY <1>8, TypeOf DEF PolicyOK, IsKEDF, BoundsOK
  <2>1. PICK R \in SUBSET st.known :
          /\ Cardinality(R) = Slots(p, st)
          /\ \A r \in R, s \in st.known \ R : Deadline(p, st, r) <= Deadline(p, st, s)
          /\ o = Outcome(p, st.known \ R, R, {})
    BY <1>8 DEF PolicySched, SchedKEDF
  <2>2. new.suspended \cap R = {}
    BY <1>1, <2>1 DEF Outcome
  <2>3. h \in st.known /\ h \in Handles /\ h \in st.ready
    BY <1>2 DEF ReadyQueues
  <2>4. CASE h \in R
    BY <1>8, <2>2, <2>4 DEF Rivals, OfDevice
  <2>5. CASE h \notin R
    <3>1. p.deadline[h] # <<>>
      BY <1>8 DEF MayRun
    <3>2. p.deadline[h][1] \in Int /\ p.deadline[h][1] < Forever
      <4>1. p.deadline[h][1] < Forever
        BY <1>8, <2>3, <3>1 DEF BoundsOK
      <4>2. PICK v \in Int : p.deadline[h] = <<v>>
        BY <2>0, <2>3, <3>1 DEF DeadlineValues
      <4>3. QED
        BY <4>1, <4>2
    <3>3. Deadline(p, st, h) < Forever
      <4>1. st.age[h] \in Nat
        BY <2>3 DEF Status
      <4>2. Deadline(p, st, h) = p.deadline[h][1] - st.age[h]
        BY <2>3, <3>1 DEF Deadline
      <4>3. QED
        BY <3>2, <4>1, <4>2 DEF Forever
    <3>4. R # {}
      <4>1. IsFiniteSet(st.known)
        BY FS_Subset, PolicyAssumption DEF Status
      <4>2. Cardinality(st.known) \in Nat /\ Cardinality(st.known) # 0
        BY <2>3, <4>1, FS_CardinalityType, FS_EmptySet
      <4>3. Slots(p, st) # 0
        BY <2>0, <4>2, MinTwo DEF Slots
      <4>4. QED
        BY <2>1, <4>3, FS_EmptySet
    <3>5. PICK r \in R : TRUE
      BY <3>4
    <3>6. Deadline(p, st, r) <= Deadline(p, st, h)
      BY <2>1, <2>3, <2>5
    <3>7. r \in st.ready
      <4>1. Deadline(p, st, h) \in Int
        BY <2>3, <3>1, <3>2 DEF Deadline, Status
      <4>2. Deadline(p, st, r) # Forever
        BY <3>3, <3>6, <4>1 DEF Forever
      <4>3. QED
        BY <4>2 DEF Deadline
    <3>8. r \in ReadyQueues(st)
      BY <2>1, <3>7 DEF ReadyQueues
    <3>9. QED
      BY <1>8, <2>2, <3>8 DEF Rivals, OfDevice
  <2>6. QED
    BY <2>4, <2>5
<1>9. QED
  BY <1>3, <1>4, <1>5, <1>6, <1>7, <1>8

\* UP: the current queue runs, and it is ready or gives way.
LEMMA CurrentWork ==
  ASSUME NEW p, IsUP(p), NEW st, GoodStatus(st), MarkedRun(p, st),
         NEW o \in PolicySched(p, st), NEW new, new = ResumeAll(SuspendAll(st, o.stop), o.run)
  PROVE  MarkedRun(o.pol, new) /\ Working(o.pol, new)
<1> st \in Status
  BY DEF GoodStatus
<1>0. p.type = "UP" /\ p.cur \notin st.suspended
  BY TypeOf DEF MarkedRun
<1>1. /\ new.known = st.known /\ new.ready = st.ready /\ new.device = st.device
      /\ new.suspended = (st.suspended \cup (o.stop \cap st.known)) \ (o.run \cap st.known)
      /\ st.known \subseteq Handles /\ st.suspended \subseteq st.known
  BY DecisionSuspends DEF GoodStatus, Consistent, Status
<1>2. ReadyQueues(new) = ReadyQueues(st) /\ ReadyQueues(st) \subseteq st.known
  BY <1>1 DEF ReadyQueues
<1>3. None \notin Handles
  BY PolicyAssumption DEF None
<1> DEFINE q == DropDestroyed(p, st)
<1>4. IsUP(q)
  BY DropDestroyedUP
<1>5. q.cur = IF p.cur \in st.known THEN p.cur ELSE None
  BY DEF DropDestroyed, IsUP
<1>6. q.cur \notin st.suspended /\ (q.cur # None => q.cur \in st.known)
  BY <1>0, <1>1, <1>3, <1>5
<1> DEFINE C == HasUtil(q) \cap ReadyQueues(st)
<1>7. ASSUME NEW h \in ReadyQueues(st), q.utils[h] # NoEntry PROVE h \in C
  BY <1>1, <1>2, <1>7 DEF HasUtil
<1>8. ASSUME NEW c, o.pol = [q EXCEPT !.cur = c] \/ (o.pol = q /\ c = q.cur)
                      \/ (\E b : o.pol = [q EXCEPT !.cur = c, !.rest = b]),
             c \notin new.suspended,
             C = {} \/ \E g \in C : g \notin new.suspended
      PROVE  MarkedRun(o.pol, new) /\ Working(o.pol, new)
  <2>1. o.pol.type = "UP" /\ o.pol.cur = c /\ o.pol.utils = q.utils
    <3> HIDE DEF q
    <3>1. QED
      BY <1>4, <1>8 DEF IsUP
  <2>2. MarkedRun(o.pol, new)
    BY <1>8, <2>1 DEF MarkedRun
  <2>3. Working(o.pol, new)
    <3> SUFFICES ASSUME NEW h \in ReadyQueues(st), q.utils[h] # NoEntry
                 PROVE  \E g \in ReadyQueues(st) : g \notin new.suspended
      BY <1>2, <2>1 DEF Working, MayRun, Rivals, OfDevice
    <3>1. h \in C
      BY <1>7
    <3>2. QED
      BY <1>8, <3>1
  <2>4. QED
    BY <2>2, <2>3
<1> HIDE DEF q
<1>9. CASE /\ HasUtil(q) = {} \/ (q.cur # None /\ q.rest > 0 /\ q.cur \in st.ready)
           /\ o = Outcome(q, {}, {}, {})
  <2>1. o.pol = q /\ new.suspended = st.suspended
    BY <1>1, <1>9 DEF Outcome
  <2>2. CASE HasUtil(q) = {}
    BY <1>6, <1>8, <2>1, <2>2
  <2>3. CASE q.cur # None /\ q.cur \in st.ready
    <3>1. q.cur \in ReadyQueues(st) /\ q.cur \notin new.suspended
      BY <1>6, <2>1, <2>3 DEF ReadyQueues
    <3>2. o.pol.type = "UP" /\ MarkedRun(o.pol, new)
      BY <1>4, <2>1, <3>1, TypeOf DEF MarkedRun
    <3>3. QED
      BY <1>2, <3>1, <3>2 DEF Working, Rivals, OfDevice
  <2>4. QED
    BY <1>9, <2>2, <2>3
<1>10. CASE /\ q.cur = None /\ C = {}
            /\ o = Outcome([q EXCEPT !.cur = None], st.known, {}, {})
  <2>1. o.pol = [q EXCEPT !.cur = None] /\ None \notin new.suspended
    BY <1>1, <1>3, <1>10 DEF Outcome
  <2>2. QED
    BY <1>8, <1>10, <2>1
<1>11. CASE \E h \in C : o = SwitchTo(q, st, h)
  <2>1. PICK h \in C : o = SwitchTo(q, st, h)
    BY <1>11
  <2>2. /\ o.pol = [q EXCEPT !.cur = h, !.rest = GetBudget(q, h)]
        /\ o.stop = st.known \ {h} /\ o.run = {h}
    BY <2>1 DEF SwitchTo, Outcome
  <2>3. h \notin new.suspended
    BY <1>1, <1>2, <2>2
  <2>4. QED
    BY <1>8, <2>2, <2>3
<1>12. CASE /\ q.cur # None /\ C \subseteq {q.cur}
            /\ o = Outcome([q EXCEPT !.cur = None], {}, {}, {})
  <2>1. /\ o.pol = [q EXCEPT !.cur = None] /\ new.suspended = st.suspended
        /\ None \notin new.suspended
    BY <1>1, <1>3, <1>12 DEF Outcome
  <2>2. C = {} \/ \E g \in C : g \notin new.suspended
    BY <1>6, <1>12, <2>1
  <2>3. QED
    BY <1>8, <2>1, <2>2
<1>13. QED
  BY <1>9, <1>10, <1>11, <1>12, SchedUPOutcome DEF q

\* A hint marks nothing, and stores what is in the bounds.
LEMMA HintMarks ==
  ASSUME NEW p, PolicyOK(p), BoundsOK(p), NEW st, MarkedRun(p, st), NEW e, TypedHint(e)
  PROVE  MarkedRun(RecvHint(p, e), st) /\ BoundsOK(RecvHint(p, e))
<1>0. /\ e.kind \in {"Priority", "Laxity", "Deadline"} => e.h \in Handles
      /\ e.kind # "WindowActive" => e.v \in Int
      /\ e.kind = "Deadline" => e.v < Forever
  BY DEF TypedHint
<1>1. RecvHint(p, e).type = p.type
  BY RecvHintOK
<1>2. CASE p.type = "CFS"
  <2>1. IsCFS(p) /\ RecvHint(p, e) = HintCFS(p, e)
    BY <1>2, TypeOf DEF PolicyOK, RecvHint
  <2>2. CASE e.kind # "Priority"
    BY <2>1, <2>2 DEF HintCFS
  <2>3. CASE e.kind = "Priority"
    <3> DEFINE i == IF p.info[e.h] = <<>> THEN NewCFSNode ELSE p.info[e.h]
               n == [i EXCEPT !.rate = Rate[e.v]]
    <3>1. HintCFS(p, e) = [p EXCEPT !.info[e.h] = n]
      BY <2>3 DEF HintCFS
    <3>2. i \in CFSNode /\ (i.running => p.info[e.h] # <<>> /\ p.info[e.h].running)
      <4>1. NewCFSNode \in CFSNode /\ ~NewCFSNode.running
        BY PolicyAssumption DEF NewCFSNode, CFSNode, PriorityDefault
      <4>2. p.info[e.h] \in {<<>>} \cup CFSNode
        BY <1>0, <2>1, <2>3 DEF IsCFS
      <4>3. QED
        BY <4>1, <4>2
    <3> HIDE DEF i
    <3>3. n.running = i.running
      BY <3>2 DEF CFSNode
    <3> HIDE DEF n
    <3>4. ASSUME NEW h \in Handles, HintCFS(p, e).info[h] # <<>>,
                 HintCFS(p, e).info[h].running
          PROVE  p.info[h] # <<>> /\ p.info[h].running
      <4>1. HintCFS(p, e).info[h] = IF h = e.h THEN n ELSE p.info[h]
        BY <1>0, <2>1, <2>3, <3>1 DEF IsCFS
      <4>2. QED
        BY <3>2, <3>3, <3>4, <4>1
    <3>5. QED
      BY <1>1, <1>2, <2>1, <3>4 DEF MarkedRun, BoundsOK
  <2>4. QED
    BY <2>2, <2>3
<1>3. CASE p.type = "SLO"
  <2>1. IsSLO(p) /\ RecvHint(p, e) = HintSLO(p, e)
    BY <1>3, TypeOf DEF PolicyOK, RecvHint
  <2>2. ASSUME NEW h \in Handles PROVE HintSLO(p, e).info[h].running = p.info[h].running
    <3>0. p.info \in [Handles -> SLOInfo] /\ p.info[h] \in SLOInfo
      BY <2>1 DEF IsSLO
    <3>1. CASE e.kind = "Priority"
      <4> DEFINE v == Clamp(e.v, PriorityMin, PriorityMax)
      <4>1. HintSLO(p, e) = [p EXCEPT !.info[e.h].prio = v]
        BY <3>1 DEF HintSLO
      <4> HIDE DEF v
      <4>2. HintSLO(p, e).info[h] = IF h = e.h THEN [p.info[h] EXCEPT !.prio = v] ELSE p.info[h]
        BY <2>1, <4>1 DEF IsSLO
      <4>3. [p.info[h] EXCEPT !.prio = v].running = p.info[h].running
        BY <3>0 DEF SLOInfo
      <4>4. QED
        BY <4>2, <4>3
    <3>2. CASE e.kind = "Deadline"
      <4> DEFINE v == IF e.v = -1 THEN <<>> ELSE <<e.v>>
      <4>1. HintSLO(p, e) = [p EXCEPT !.info[e.h].deadline = v]
        BY <3>2 DEF HintSLO
      <4> HIDE DEF v
      <4>2. HintSLO(p, e).info[h]
              = IF h = e.h THEN [p.info[h] EXCEPT !.deadline = v] ELSE p.info[h]
        BY <2>1, <4>1 DEF IsSLO
      <4>3. [p.info[h] EXCEPT !.deadline = v].running = p.info[h].running
        BY <3>0 DEF SLOInfo
      <4>4. QED
        BY <4>2, <4>3
    <3>3. CASE e.kind = "Utilization"
      <4> DEFINE v == Clamp(e.v, UtilMin, UtilMax)
      <4>1. HintSLO(p, e).info[h]
              = IF h = e.h THEN [p.info[h] EXCEPT !.util = v] ELSE p.info[h]
        BY <2>1, <3>3 DEF HintSLO, IsSLO
      <4> HIDE DEF v
      <4>2. [p.info[h] EXCEPT !.util = v].running = p.info[h].running
        BY <3>0 DEF SLOInfo
      <4>3. QED
        BY <4>1, <4>2
    <3>4. CASE e.kind \notin {"Priority", "Deadline", "Utilization"}
      BY <2>1, <3>4 DEF HintSLO, IsSLO
    <3>5. QED
      BY <3>1, <3>2, <3>3, <3>4
  <2>3. QED
    BY <1>1, <1>3, <2>1, <2>2 DEF MarkedRun, BoundsOK
<1>4. CASE p.type = "UP"
  <2>1. IsUP(p) /\ RecvHint(p, e) = HintUP(p, e)
    BY <1>4, TypeOf DEF PolicyOK, RecvHint
  <2>2. HintUP(p, e).cur = p.cur
    BY <2>1 DEF HintUP, IsUP
  <2>3. QED
    BY <1>1, <1>4, <2>1, <2>2 DEF MarkedRun, BoundsOK
<1>5. CASE p.type = "IAH"
  <2>1. IsIAH(p) /\ RecvHint(p, e) = HintIAH(p, e)
    BY <1>5, TypeOf DEF PolicyOK, RecvHint
  <2> DEFINE v == Clamp(e.v, PriorityMin, PriorityMax)
  <2>2. e.kind = "Priority" => v >= PriorityMin
    <3> SUFFICES ASSUME e.kind = "Priority" PROVE v >= PriorityMin
      OBVIOUS
    <3>1. e.v \in Int /\ PriorityMin \in Int /\ PriorityMax \in Int
      BY <1>0 DEF PriorityMin, PriorityMax
    <3> DEFINE m == Min({e.v, PriorityMax})
    <3>2. m \in Int
      BY <3>1, MinTwo
    <3> HIDE DEF m
    <3>3. Max({PriorityMin, m}) >= PriorityMin
      <4>1. Max({PriorityMin, m}) = IF PriorityMin >= m THEN PriorityMin ELSE m
        BY <3>1, <3>2, MaxTwo
      <4>2. QED
        BY <3>1, <3>2, <4>1
    <3>4. QED
      BY <3>3 DEF Clamp, m
  <2> HIDE DEF v
  <2>3. ASSUME NEW h \in Handles PROVE HintIAH(p, e).prio[h] >= PriorityMin
    <3>1. HintIAH(p, e).prio[h] = IF e.kind = "Priority" /\ h = e.h THEN v ELSE p.prio[h]
      BY <1>0, <2>1 DEF HintIAH, HintHPF, IsIAH, Priorities, v
    <3>2. p.prio[h] >= PriorityMin
      BY <1>5 DEF BoundsOK
    <3>3. QED
      BY <2>2, <3>1, <3>2
  <2>4. QED
    BY <1>1, <1>5, <2>1, <2>3 DEF MarkedRun, BoundsOK
<1>6. CASE p.type = "KEDF"
  <2>1. IsKEDF(p) /\ RecvHint(p, e) = HintKEDF(p, e)
    BY <1>6, TypeOf DEF PolicyOK, RecvHint
  <2>2. p.k >= 1 /\ \A h \in Handles : p.deadline[h] # <<>> => p.deadline[h][1] < Forever
    BY <1>6 DEF BoundsOK
  <2>3. HintKEDF(p, e).k >= 1
    BY <2>1, <2>2 DEF HintKEDF, IsKEDF
  <2>4. ASSUME NEW h \in Handles, HintKEDF(p, e).deadline[h] # <<>>
        PROVE  HintKEDF(p, e).deadline[h][1] < Forever
    <3>1. HintKEDF(p, e).deadline[h]
            = IF e.kind = "Deadline" /\ h = e.h THEN <<e.v>> ELSE p.deadline[h]
      BY <1>0, <2>1 DEF HintKEDF, IsKEDF
    <3>2. CASE e.kind = "Deadline" /\ h = e.h
      BY <1>0, <3>1, <3>2
    <3>3. CASE ~(e.kind = "Deadline" /\ h = e.h)
      BY <2>2, <2>4, <3>1, <3>3
    <3>4. QED
      BY <3>2, <3>3
  <2>5. QED
    BY <1>1, <1>6, <2>1, <2>3, <2>4 DEF MarkedRun, BoundsOK
<1>7. CASE p.type = "MLFQ"
  BY <1>7 DEF RecvHint
<1>8. CASE p.type \notin {"CFS", "SLO", "UP", "IAH", "KEDF", "MLFQ"}
  BY <1>1, <1>8 DEF MarkedRun, BoundsOK
<1>9. QED
  BY <1>2, <1>3, <1>4, <1>5, <1>6, <1>7, <1>8

\* What a decision leaves: of LAX, until a timer expires.  PUP is left out: its run
\* queue is filtered and rotated element by element.
WorkOK(p, st, T) == p.type = "PUP" \/ (p.type = "LAX" /\ 0 \in T) \/ Working(p, st)

\* A decision of any policy but PUP leaves work running wherever there is some.
LEMMA DecisionWork ==
  ASSUME NEW p, PolicyOK(p), BoundsOK(p), NEW st, GoodStatus(st), MarkedRun(p, st),
         NEW o \in PolicySched(p, st), NEW new, new = ResumeAll(SuspendAll(st, o.stop), o.run),
         NEW T
  PROVE  MarkedRun(o.pol, new) /\ BoundsOK(o.pol) /\ WorkOK(o.pol, new, T)
<1>0. o.pol.type = p.type
  BY SchedKeeps DEF GoodStatus
<1>1. CASE IsCFS(p) \/ IsMLFQ(p) \/ IsSLO(p)
  <2>1. p.type \in {"CFS", "MLFQ", "SLO"}
    BY <1>1, TypeOf
  <2>2. MarkedRun(o.pol, new) /\ Working(o.pol, new)
    BY <1>1, MarkedWork
  <2>3. QED
    BY <1>0, <2>1, <2>2 DEF BoundsOK, WorkOK
<1>2. CASE IsUP(p)
  <2>1. p.type = "UP"
    BY <1>2, TypeOf
  <2>2. MarkedRun(o.pol, new) /\ Working(o.pol, new)
    BY <1>2, CurrentWork
  <2>3. QED
    BY <1>0, <2>1, <2>2 DEF BoundsOK, WorkOK
<1>3. CASE IsPUP(p)
  <2>1. p.type = "PUP"
    BY <1>3, TypeOf
  <2>2. QED
    BY <1>0, <2>1 DEF MarkedRun, BoundsOK, WorkOK
<1>4. CASE p.type \in {"HPF", "HHPF", "CHPF", "LAX", "KEDF", "IAH", "AWF"}
  <2>1. o.pol = p
    BY <1>4, RankingKeeps
  <2>2. Working(p, new)
    BY <1>4, RankedWork
  <2>3. QED
    BY <1>4, <2>1, <2>2 DEF MarkedRun, WorkOK
<1>5. QED
  BY <1>1, <1>2, <1>3, <1>4, TypeOf DEF PolicyOK

\* Time passing marks nothing; with LAX, what may run may still do.
LEMMA TickWork ==
  ASSUME NEW p, PolicyOK(p), BoundsOK(p), NEW st \in Status, MarkedRun(p, st)
  PROVE  /\ MarkedRun(AgePolicy(p), AgeStatus(st)) /\ BoundsOK(AgePolicy(p))
         /\ \A T : (/\ p.type \notin {"UP", "PUP"} => T \subseteq Nat
                    /\ RankOK(p, st, T) /\ WorkOK(p, st, T))
              => WorkOK(AgePolicy(p), AgeStatus(st), {Rest(t, 1) : t \in T})
<1> DEFINE q == AgePolicy(p)
           new == AgeStatus(st)
<1>1. q.type = p.type
  BY AgePolicyOK
<1>2. /\ new.suspended = st.suspended /\ new.device = st.device /\ new.ready = st.ready
      /\ ReadyQueues(new) = ReadyQueues(st) /\ ReadyQueues(st) \subseteq Handles
  BY AgeKeeps DEF ReadyQueues, Status
<1>3. /\ p.type \in {"CFS", "MLFQ", "SLO"} => \A h \in Handles :
            q.info[h] = AgeInfo(p.type, p.info[h])
      /\ p.type = "UP" => q.cur = p.cur /\ q.utils = p.utils
      /\ p.type \notin {"UP", "PUP", "CFS", "MLFQ", "SLO"} => q = p
  <2>1. CASE p.type = "UP"
    <3>1. IsUP(p)
      BY <2>1, TypeOf DEF PolicyOK
    <3>2. QED
      BY <2>1, <3>1 DEF AgePolicy, IsUP
  <2>2. CASE p.type \in {"CFS", "MLFQ", "SLO"}
    <3>1. IsCFS(p) \/ IsMLFQ(p) \/ IsSLO(p)
      BY <2>2, TypeOf DEF PolicyOK
    <3>2. q = [p EXCEPT !.info = [h \in Handles |-> AgeInfo(p.type, p.info[h])]]
      BY <2>2 DEF AgePolicy
    <3>3. \A x : [p EXCEPT !.info = x].info = x
      BY <3>1 DEF IsCFS, IsMLFQ, IsSLO
    <3> HIDE DEF q
    <3>4. q.info = [h \in Handles |-> AgeInfo(p.type, p.info[h])]
      BY <3>2, <3>3
    <3>5. QED
      BY <2>2, <3>4
  <2>3. CASE p.type \notin {"UP", "PUP", "CFS", "MLFQ", "SLO"}
    BY <2>3 DEF AgePolicy
  <2>4. CASE p.type = "PUP"
    BY <2>4
  <2>5. QED
    BY <2>1, <2>2, <2>3, <2>4
<1> HIDE DEF q
<1>4. BoundsOK(q)
  BY <1>1, <1>3 DEF BoundsOK
<1>5. MarkedRun(q, new)
  <2>1. CASE p.type = "CFS"
    <3>1. IsCFS(p)
      BY <2>1, TypeOf DEF PolicyOK
    <3>2. ASSUME NEW h \in Handles, q.info[h] # <<>>, q.info[h].running
          PROVE  p.info[h] # <<>> /\ p.info[h].running
      <4>1. p.info[h] \in {<<>>} \cup CFSNode /\ q.info[h] = AgeInfo("CFS", p.info[h])
        BY <1>3, <2>1, <3>1 DEF IsCFS
      <4>2. QED
        BY <3>2, <4>1 DEF AgeInfo, CFSNode
    <3>3. QED
      BY <1>1, <1>2, <2>1, <3>2 DEF MarkedRun
  <2>2. CASE p.type = "MLFQ"
    <3>1. IsMLFQ(p)
      BY <2>2, TypeOf DEF PolicyOK
    <3>2. ASSUME NEW h \in Handles, q.info[h] # <<>>, q.info[h].running
          PROVE  p.info[h] # <<>> /\ p.info[h].running
      <4>1. p.info[h] \in {<<>>} \cup MLFQNode /\ q.info[h] = AgeInfo("MLFQ", p.info[h])
        BY <1>3, <2>2, <3>1 DEF IsMLFQ
      <4>2. p.info[h] # <<>>
        BY <3>2, <4>1 DEF AgeInfo
      <4>3. QED
        BY <3>2, <4>1, <4>2, AgeMLFQ
    <3>3. QED
      BY <1>1, <1>2, <2>2, <3>2 DEF MarkedRun
  <2>3. CASE p.type = "SLO"
    <3>1. IsSLO(p)
      BY <2>3, TypeOf DEF PolicyOK
    <3>2. ASSUME NEW h \in Handles, q.info[h].running PROVE p.info[h].running
      <4>1. p.info[h] \in SLOInfo /\ q.info[h] = AgeInfo("SLO", p.info[h])
        BY <1>3, <2>3, <3>1 DEF IsSLO
      <4>2. QED
        BY <3>2, <4>1 DEF AgeInfo, SLOInfo
    <3>3. QED
      BY <1>1, <1>2, <2>3, <3>2 DEF MarkedRun
  <2>4. CASE p.type = "UP"
    BY <1>1, <1>2, <1>3, <2>4 DEF MarkedRun
  <2>5. CASE p.type \notin {"CFS", "MLFQ", "SLO", "UP"}
    BY <1>1, <2>5 DEF MarkedRun
  <2>6. QED
    BY <2>1, <2>2, <2>3, <2>4, <2>5
<1>6. ASSUME NEW T, p.type \notin {"UP", "PUP"} => T \subseteq Nat,
             RankOK(p, st, T), WorkOK(p, st, T)
      PROVE  WorkOK(q, new, {Rest(t, 1) : t \in T})
  <2> DEFINE U == {Rest(t, 1) : t \in T}
  <2>1. CASE p.type = "PUP"
    BY <1>1, <2>1 DEF WorkOK
  <2>2. CASE p.type = "LAX"
    <3>1. IsLAX(p) /\ q = p /\ T \subseteq Nat
      BY <1>3, <1>6, <2>2, TypeOf DEF PolicyOK
    <3>2. CASE 0 \in U
      BY <2>2, <3>1, <3>2 DEF WorkOK
    <3>3. CASE 0 \notin U
      <4>1. 0 \notin T
        BY <3>1, <3>3 DEF Rest
      <4>2. LaxTimed(p, st, T) /\ Working(p, st)
        BY <1>6, <2>2, <4>1 DEF RankOK, WorkOK
      <4> HIDE DEF U
      <4>3. \A h \in ReadyQueues(st) : LaxPrio(p, new, h) = LaxPrio(p, st, h)
        BY <2>2, <3>1, <3>3, <4>2, LaxTick DEF U
      <4> HIDE DEF new
      <4>4. \A h \in ReadyQueues(st) : MayRun(p, new, h) => MayRun(p, st, h)
        BY <2>2, <4>3 DEF MayRun
      <4>5. Working(p, new)
        BY <1>2, <2>2, <4>2, <4>4 DEF Working, Rivals, OfDevice
      <4>6. QED
        BY <3>1, <4>5 DEF WorkOK
    <3>4. QED
      BY <3>2, <3>3
  <2>3. CASE p.type \notin {"PUP", "LAX"}
    <3> HIDE DEF new, U
    <3>1. Working(p, st)
      BY <1>6, <2>3 DEF WorkOK
    <3>2. \A h \in ReadyQueues(st) : MayRun(q, new, h) => MayRun(p, st, h)
      BY <1>1, <1>3, <2>3 DEF MayRun
    <3>3. Working(q, new)
      BY <1>1, <1>2, <3>1, <3>2 DEF Working, Rivals, OfDevice
    <3>4. QED
      BY <3>3 DEF WorkOK
  <2>4. QED
    BY <2>1, <2>2, <2>3
<1>7. QED
  BY <1>4, <1>5, <1>6 DEF q

\* The inductive invariant.
WorkInv ==
  /\ MarkedRun(pol, status) /\ BoundsOK(pol)
  /\ (BatchDone /\ ~fresh) => WorkOK(pol, status, timers)

\* A new policy has marked nothing.
LEMMA NewMarks ==
  ASSUME NEW t \in PolicyType, NEW st, GoodStatus(st)
  PROVE  MarkedRun(InitPolicy(t), st) /\ BoundsOK(InitPolicy(t))
<1>1. None \notin st.suspended
  BY PolicyAssumption DEF GoodStatus, Status, None
<1>2. CASE t = "SLO"
  BY <1>2 DEF InitPolicy, MarkedRun, BoundsOK, NewSLOInfo
<1>3. CASE t \in {"CFS", "MLFQ"}
  BY <1>3 DEF InitPolicy, MarkedRun, BoundsOK
<1>4. CASE t = "UP"
  BY <1>1, <1>4 DEF InitPolicy, MarkedRun, BoundsOK
<1>5. CASE t = "IAH"
  BY <1>5 DEF InitPolicy, MarkedRun, BoundsOK, PriorityDefault, PriorityMin
<1>6. CASE t = "KEDF"
  BY <1>6 DEF InitPolicy, MarkedRun, BoundsOK
<1>7. CASE t \notin {"SLO", "CFS", "MLFQ", "UP", "IAH", "KEDF"}
  <2>1. InitPolicy(t).type = t
    BY InitPolicyOK
  <2>2. QED
    BY <1>7, <2>1 DEF MarkedRun, BoundsOK
<1>8. QED
  BY <1>2, <1>3, <1>4, <1>5, <1>6, <1>7

\* A queue that is not suspended any more stays so.
LEMMA FewerSuspended ==
  ASSUME NEW p, NEW st, MarkedRun(p, st), NEW new, new.suspended \subseteq st.suspended
  PROVE  MarkedRun(p, new)
BY DEF MarkedRun

\* It is kept by every step that changes nothing of it, handles an event or decides.
LEMMA StepsKeepWork ==
  ASSUME GoodStatus(status), PolicyOK(pol), WorkInv,
         Undecided \/ Updated \/ Hinted \/ Decided
  PROVE  WorkInv'
<1>0. MarkedRun(pol, status) /\ BoundsOK(pol)
  BY DEF WorkInv
<1>1. CASE Undecided
  BY <1>1 DEF Undecided, WorkInv
<1>2. CASE Updated
  <2>1. MarkedRun(pol, status')
    BY <1>0, <1>2, FewerSuspended DEF Updated
  <2>2. QED
    BY <1>0, <1>2, <2>1 DEF Updated, WorkInv
<1>3. CASE Hinted
  <2>1. PICK e \in GivenHints : pol' = RecvHint(pol, e)
    BY <1>3 DEF Hinted
  <2>2. TypedHint(e)
    BY SchedulerAssumption DEF GivenHints
  <2>3. MarkedRun(pol', status) /\ BoundsOK(pol')
    BY <1>0, <2>1, <2>2, HintMarks
  <2>4. QED
    BY <1>3, <2>3 DEF Hinted, WorkInv
<1>4. CASE Decided
  <2>1. PICK st : /\ GoodStatus(st) /\ st.suspended \subseteq status.suspended
                  /\ Reschedule(st)
    BY <1>4 DEF Decided
  <2>2. PICK o \in PolicySched(pol, st) :
          /\ pol' = o.pol /\ status' = ResumeAll(SuspendAll(st, o.stop), o.run)
    BY <2>1 DEF Reschedule
  <2>3. MarkedRun(pol, st)
    BY <1>0, <2>1, FewerSuspended
  <2>4. MarkedRun(pol', status') /\ BoundsOK(pol') /\ WorkOK(pol', status', timers')
    BY <1>0, <2>1, <2>2, <2>3, DecisionWork
  <2>5. QED
    BY <2>4 DEF WorkInv
<1>5. QED
  BY <1>1, <1>2, <1>3, <1>4

\* Every step of a scheduler keeps it.
LEMMA WorkNext ==
  ASSUME ViewInv, PolInv, TimersOK, RankInv, WorkInv, [Next]_vars
  PROVE  WorkInv'
<1>0. GoodStatus(status) /\ PolicyOK(pol) /\ MarkedRun(pol, status) /\ BoundsOK(pol)
  BY DEF ViewInv, SchedInv, PolInv, WorkInv
<1>1. CASE Undecided \/ Updated \/ Hinted \/ Decided
  BY <1>0, <1>1, StepsKeepWork
<1>2. CASE TakeTimers
  BY <1>2 DEF TakeTimers, WorkInv, BatchDone
<1>3. CASE SetPolicyEnd
  <2>1. /\ newType \in PolicyType /\ pol' = InitPolicy(newType) /\ fresh'
        /\ status' = ResumeAll(status, status.known)
    BY <1>3 DEF SetPolicyEnd, PolInv
  <2>2. MarkedRun(pol', status) /\ BoundsOK(pol')
    BY <1>0, <2>1, NewMarks
  <2>3. status'.suspended \subseteq status.suspended
    BY <1>0, <2>1 DEF ResumeAll, GoodStatus, Status
  <2>4. MarkedRun(pol', status')
    BY <2>2, <2>3, FewerSuspended
  <2>5. QED
    BY <2>1, <2>2, <2>4 DEF WorkInv
<1>4. CASE Tick
  <2>1. /\ status' = AgeStatus(status) /\ pol' = AgePolicy(pol)
        /\ timers' = {Rest(t, 1) : t \in timers} /\ UNCHANGED <<wpc, final, fresh>>
    BY <1>4 DEF Tick
  <2>2. MarkedRun(pol', status') /\ BoundsOK(pol')
    BY <1>0, <2>1, TickWork DEF GoodStatus
  <2>3. ASSUME (BatchDone /\ ~fresh)' PROVE BatchDone /\ ~fresh
    BY <2>1, <2>3 DEF BatchDone
  <2>4. ASSUME BatchDone, ~fresh PROVE WorkOK(pol', status', timers')
    BY <1>0, <2>1, <2>4, TickWork DEF GoodStatus, RankInv, WorkInv, TimersOK
  <2>5. QED
    BY <2>2, <2>3, <2>4 DEF WorkInv
<1>5. QED
  BY <1>1, <1>2, <1>3, <1>4, PolicySteps

WorkedInv == ViewInv /\ PolInv /\ TimersOK /\ RankInv /\ WorkInv

\* A queue of the status that is not suspended there runs.
LEMMA QuietRuns ==
  ASSUME ViewInv, Quiet, NEW g \in ReadyQueues(status), g \notin status.suspended
  PROVE  g \in ReallyReady \cup busy /\ g \notin paused /\ status.device[g] = DeviceOf[g]
BY QuietView DEF ViewAccurate, ReadyQueues

\* A ready queue is held back only for one that runs, under every policy but PUP:
\* whenever the scheduler sleeps, each device with ready queues (the whole system, for
\* the policies that look at all devices) has a ready queue that runs.  CFS, MLFQ, SLO
\* and UP do not resume what they believe to be running, so it rests on MarkedRun, at
\* all times; LAX may hold back everything once a laxity has run out, until its timer.
THEOREM NoIdleDevice == Spec => [](pol.type # "PUP" => WorkConserving)
<1>1. Init => WorkedInv
  <2>1. Init => TimersOK /\ RankInv
    BY DEF Init, TimersOK, RankInv
  <2>2. Init => WorkInv
    <3> SUFFICES ASSUME Init PROVE WorkInv
      OBVIOUS
    <3>1. PICK t \in PolicyType : pol = InitPolicy(t)
      BY SchedulerAssumption DEF Init
    <3>2. GoodStatus(status) /\ fresh
      BY ViewInit DEF ViewInv, SchedInv, Init
    <3>3. QED
      BY <3>1, <3>2, NewMarks DEF WorkInv
  <2>3. QED
    BY <2>1, <2>2, ViewInit, PolInit DEF WorkedInv
<1>2. WorkedInv /\ [Next]_vars => WorkedInv'
  BY ViewNext, PolNext, TimersNext, RankNext, WorkNext DEF WorkedInv
<1>3. WorkedInv => (pol.type # "PUP" => WorkConserving)
  <2> SUFFICES ASSUME WorkedInv, pol.type # "PUP", Quiet, NEW h \in ReallyReady, Eligible(h)
               PROVE  \E g \in ReallyReady \cup busy : g \notin paused /\ Competes(g, h)
    BY DEF WorkConserving
  <2>1. /\ BatchDone /\ ~fresh /\ h \in ReadyQueues(status) /\ 0 \notin timers
        /\ status.device[h] = DeviceOf[h]
    BY QuietView DEF WorkedInv, Quiet, Expired
  <2>2. Working(pol, status)
    BY <2>1 DEF WorkedInv, WorkInv, WorkOK
  <2>3. MayRun(pol, status, h)
    BY DEF Eligible, MayRun
  <2>4. PICK g \in ReadyQueues(status) : g \notin status.suspended /\ Rivals(pol, status, g, h)
    BY <2>1, <2>2, <2>3 DEF Working
  <2>5. g \in ReallyReady \cup busy /\ g \notin paused /\ status.device[g] = DeviceOf[g]
    BY <2>4, QuietRuns DEF WorkedInv
  <2>6. Competes(g, h)
    BY <2>1, <2>4, <2>5 DEF Competes, PerDevice, Rivals, OfDevice
  <2>7. QED
    BY <2>5, <2>6
<1>4. QED
  BY <1>1, <1>2, <1>3, PTL DEF Spec

=============================================================================

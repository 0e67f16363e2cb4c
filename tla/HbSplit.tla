------------------------------ MODULE HbSplit ------------------------------
(***************************************************************************)
(* The HB split backend of CUDA (hb_split/backend.cpp) and the choice of a *)
(* runtime strategy (runtime_strategy.cpp): a low-priority kernel is       *)
(* submitted as many launches of a transformed kernel, each for a box of   *)
(* the grid, so that a queue can be preempted between them.                *)
(*                                                                         *)
(* The PTX transformation is abstracted to what a launch depends on: is    *)
(* the function known, was it transformed, which axes take an offset, do   *)
(* the parameters match.  The queue executes its commands in order, as     *)
(* XQueue.tla shows.  Grids and offsets are three numbers, one per axis.   *)
(***************************************************************************)
EXTENDS Integers, Sequences, FiniteSets, FiniteSetsExt, SequencesExt

CONSTANTS
  Threads,     \* application threads
  Plans,       \* the launches of each thread: one of these is chosen
  Modes,       \* runtime strategies: "NATIVE", "HB_FIXED", "HB_RUNTIME", "AUTO"
  SplitCounts, \* values of SplitBlocks
  StrictModes, \* values of StrictMode
  Levels,      \* preempt levels of automatically created queues
  Threshold0   \* commands in flight allowed before the queue is configured

Axes == 1..3
Facts == {"low", "known", "queue", "splittable", "extra", "params", "match"}
Launches == [grid : [Axes -> Nat], axes : SUBSET Axes, has : SUBSET Facts]

ASSUME SplitAssumption ==
  /\ Plans \subseteq [Threads -> Seq(Launches)]
  /\ SplitCounts \subseteq Nat \ {0} /\ StrictModes \subseteq BOOLEAN
  /\ Modes \subseteq {"NATIVE", "HB_FIXED", "HB_RUNTIME", "AUTO"}
  /\ Levels \subseteq 1..3 /\ Threshold0 \in Nat \ {0} /\ IsFiniteSet(Threads)

VARIABLES
  env,       \* the configuration: mode, splitBlocks, strict, level
  plan,      \* the launches of each thread
  thr,       \* each thread: pc, its launch under way and the next child
  adjusted,  \* g_threshold_adjusted_xqueues holds the queue
  threshold, \* the launch configuration of the queue
  queue,     \* commands of the queue
  flight,    \* commands the worker has launched, not completed
  group,     \* the SplitCommandGroup of each launch
  ran,       \* history: the boxes executed for each launch
  result     \* what each launch returned

vars == <<env, plan, thr, adjusted, threshold, queue, flight, group, ran, result>>

Volume(g) == g[1] * g[2] * g[3]
Box(off, len) == [off |-> off, len |-> len]
Boxes == [off : [Axes -> Nat], len : [Axes -> Nat]]
Origin == [i \in Axes |-> 0]

-----------------------------------------------------------------------------
(* The decomposition of a grid *)

\* The longest axis, in the order of the comparisons.
LongestAxis(g) ==
  IF g[2] >= g[1] /\ g[2] >= g[3] THEN 2
  ELSE IF g[3] >= g[1] /\ g[3] >= g[2] THEN 3 ELSE 1

\* Faulty variant: the part starts at the offset of the whole box.
RightPartShifted(b, a, left) == [b EXCEPT !.off[a] = left, !.len[a] = @ - left]
\* What is left of the box after the first part along axis a.
RightPart(b, a, left) == [b EXCEPT !.off[a] = @ + left, !.len[a] = @ - left]

\* The length of the first part along axis a.
LeftLength(g, a, most) ==
  LET left == Max({1, Min({g[a], most \div Max({1, Volume(g) \div g[a]})})})
  IN IF left >= g[a] THEN Max({1, g[a] \div 2}) ELSE left

\* The boxes of at most `most` blocks that a box is divided into, in order.
DecomposeBox(most) ==
  LET parts[b \in Boxes] ==
        LET a == LongestAxis(b.len)
            left == LeftLength(b.len, a, most)
        IN IF Volume(b.len) = 0 THEN <<>>
           ELSE IF Volume(b.len) <= most THEN <<b>>
           ELSE parts[[b EXCEPT !.len[a] = left]] \o parts[RightPart(b, a, left)]
  IN parts

DecomposeGrid(g, most) == DecomposeBox(most)[Box(Origin, g)]

-----------------------------------------------------------------------------
(* What becomes of a launch.  A launch has a grid, the axes its            *)
(* transformed function takes offsets for, and what holds of it:           *)
(* "low" priority, "known" function, "queue", "splittable", "extra"        *)
(* format, "params", "match" of the numbers of parameters.                 *)

\* Every axis the grid extends along takes an offset.
CapabilitySupportsGrid(l) == \A i \in Axes : l.grid[i] > 1 => i \in l.axes

\* TryLaunchKernelFixed and the checks of SubmitSplitCommands.  Refused
\* launches fail in strict mode and are launched natively otherwise.
Refused == IF env.strict THEN "error" ELSE "native"
TryLaunchKernelFixed(l) ==
  IF env.level > 1 THEN Refused
  ELSE IF "low" \notin l.has THEN "native"
  ELSE IF ~({"known", "queue", "splittable"} \subseteq l.has) THEN Refused
  ELSE IF "extra" \in l.has \/ "params" \notin l.has THEN Refused
  ELSE IF Volume(l.grid) <= env.splitBlocks THEN "native"
  ELSE IF ~CapabilitySupportsGrid(l) THEN Refused
  ELSE IF "match" \notin l.has THEN Refused
  ELSE "split"

\* SubmitKernelWithRuntimeStrategy.
Strategy(l) == IF env.mode = "HB_FIXED" THEN TryLaunchKernelFixed(l) ELSE "native"

-----------------------------------------------------------------------------
(* A launch *)

Ids == UNION {{t} \X DOMAIN plan[t] : t \in Threads}
Launch(id) == plan[id[1]][id[2]]
NoGroup == [count |-> 0, completed |-> 0, children |-> <<>>]

Id(t) == <<t, thr[t].at>>
Current(t) == plan[t][thr[t].at]
Launching(t, way) ==
  /\ thr[t].pc = "idle" /\ thr[t].at <= Len(plan[t]) /\ Strategy(Current(t)) = way

Command(id, type, box) == [id |-> id, type |-> type, box |-> box]
Whole(l) == Box(Origin, l.grid)
\* The wait-all command of SetLaunchConfig.
WaitAll(t) == Command(<<t, 0>>, "waitall", Box(Origin, Origin))

Return(t, r) ==
  /\ result' = [result EXCEPT ![Id(t)] = r]
  /\ thr' = [thr EXCEPT ![t] = [pc |-> "idle", at |-> @.at + 1, child |-> 0]]

\* NativeRuntimeStrategy::SubmitKernel, which launches directly without a queue.
LaunchNative(t) ==
  /\ Launching(t, "native")
  /\ LET l == Current(t) IN
       \/ /\ "queue" \in l.has
          /\ queue' = Append(queue, Command(Id(t), "native", Whole(l))) /\ UNCHANGED ran
       \/ /\ "queue" \notin l.has
          /\ ran' = [ran EXCEPT ![Id(t)] = Append(@, Whole(l))] /\ UNCHANGED queue
  /\ Return(t, "success")
  /\ UNCHANGED <<env, plan, adjusted, threshold, flight, group>>
LaunchError(t) ==
  /\ Launching(t, "error")
  /\ Return(t, "error")
  /\ UNCHANGED <<env, plan, adjusted, threshold, queue, flight, group, ran>>

\* The children are decided; SetLpSplitThresholdOnce claims the queue, and the
\* thread that claimed it begins to configure it: it waits for all commands.
LaunchSplit(t) ==
  /\ Launching(t, "split")
  /\ LET splits == DecomposeGrid(Current(t).grid, env.splitBlocks)
     IN group' = [group EXCEPT ![Id(t)] =
                    [count |-> Len(splits), completed |-> 0, children |-> splits]]
  /\ thr' = [thr EXCEPT ![t].pc = IF adjusted THEN "submit" ELSE "configure", ![t].child = 1]
  /\ queue' = IF adjusted THEN queue ELSE Append(queue, WaitAll(t))
  /\ adjusted' = TRUE
  /\ UNCHANGED <<env, plan, threshold, flight, ran, result>>

\* Faulty variant: the threshold is left as it was.
SetLaunchConfigForgotten(t) ==
  /\ thr[t].pc = "configure" /\ ~Contains(queue \o flight, WaitAll(t))
  /\ thr' = [thr EXCEPT ![t].pc = "submit"]
  /\ UNCHANGED <<env, plan, adjusted, threshold, queue, flight, group, ran, result>>
\* The end of SetLaunchConfig(1, 1).
SetLaunchConfig(t) ==
  /\ thr[t].pc = "configure" /\ ~Contains(queue \o flight, WaitAll(t))
  /\ threshold' = 1
  /\ thr' = [thr EXCEPT ![t].pc = "submit"]
  /\ UNCHANGED <<env, plan, adjusted, queue, flight, group, ran, result>>

\* The loop over group->children, which the listener may clear meanwhile.
SubmitChild(t) ==
  /\ thr[t].pc = "submit" /\ thr[t].child <= Len(group[Id(t)].children)
  /\ queue' = Append(queue, Command(Id(t), "child", group[Id(t)].children[thr[t].child]))
  /\ thr' = [thr EXCEPT ![t].child = @ + 1]
  /\ UNCHANGED <<env, plan, adjusted, threshold, flight, group, ran, result>>
EndSubmit(t) ==
  /\ thr[t].pc = "submit" /\ thr[t].child > Len(group[Id(t)].children)
  /\ Return(t, "success")
  /\ UNCHANGED <<env, plan, adjusted, threshold, queue, flight, group, ran>>

-----------------------------------------------------------------------------
(* The queue: XQueue.tla reduced to what the splitting relies on *)

WorkerLaunch ==
  /\ queue # <<>> /\ Len(flight) < threshold
  /\ queue' = Tail(queue) /\ flight' = Append(flight, Head(queue))
  /\ UNCHANGED <<env, plan, thr, adjusted, threshold, group, ran, result>>

\* Faulty variant: the counter is compared before it is incremented.
GroupEndsTooLate(g) == g.completed - 1 = g.count
GroupEnds(g) == g.completed = g.count

\* A command is completed and its listener called.
Complete ==
  /\ flight # <<>>
  /\ flight' = Tail(flight)
  /\ LET c == Head(flight) IN
       /\ ran' = IF c.type = "waitall" THEN ran
                 ELSE [ran EXCEPT ![c.id] = Append(@, c.box)]
       /\ group' = IF c.type # "child" THEN group
                   ELSE LET g == [group[c.id] EXCEPT !.completed = @ + 1]
                        IN [group EXCEPT ![c.id] =
                              IF GroupEnds(g) THEN [g EXCEPT !.children = <<>>] ELSE g]
  /\ UNCHANGED <<env, plan, thr, adjusted, threshold, queue, result>>

-----------------------------------------------------------------------------
(* The specification *)

Init ==
  /\ env \in [mode : Modes, splitBlocks : SplitCounts, strict : StrictModes, level : Levels]
  /\ plan \in Plans
  /\ thr = [t \in Threads |-> [pc |-> "idle", at |-> 1, child |-> 0]]
  /\ adjusted = FALSE /\ threshold = Threshold0 /\ queue = <<>> /\ flight = <<>>
  /\ group = [i \in Ids |-> NoGroup] /\ ran = [i \in Ids |-> <<>>]
  /\ result = [i \in Ids |-> "none"]

Next ==
  \/ \E t \in Threads : \/ LaunchNative(t) \/ LaunchError(t) \/ LaunchSplit(t)
                        \/ SetLaunchConfig(t) \/ SubmitChild(t) \/ EndSubmit(t)
  \/ WorkerLaunch \/ Complete

Spec == Init /\ [][Next]_vars

-----------------------------------------------------------------------------
(* Properties *)

Over == queue \o flight = <<>> /\ \A t \in Threads : thr[t].at > Len(plan[t])

\* The blocks of the kernel a command executes: a transformed kernel adds
\* the offset on the axes it has one for.
BlocksOf(l, b) ==
  LET first(i) == IF i \in l.axes THEN b.off[i] ELSE 0
  IN {<<x, y, z>> : x \in first(1)..(first(1) + b.len[1] - 1),
                    y \in first(2)..(first(2) + b.len[2] - 1),
                    z \in first(3)..(first(3) + b.len[3] - 1)}
Executed(id) == UNION {BlocksOf(Launch(id), b) : b \in ToSet(ran[id])}
ExecutedAll(id) == Executed(id) = BlocksOf(Launch(id), Whole(Launch(id)))
NoneTwice(id) ==
  \A i, j \in DOMAIN ran[id] :
    i < j => BlocksOf(Launch(id), ran[id][i]) \cap BlocksOf(Launch(id), ran[id][j]) = {}

\* A launch that succeeded has, in the end, executed every block of its grid
\* exactly once, however it was split, whatever other threads launched in
\* between, and though listeners clear the children while they are still being
\* submitted (SubmitSplitCommands); a launch that failed has executed none.
ExecutedOnce ==
  \A id \in Ids :
    /\ Over /\ result[id] = "success" => ExecutedAll(id) /\ NoneTwice(id)
    /\ result[id] = "error" => ran[id] = <<>>

\* If one thread uses the queue, one part of a split launch is in flight at
\* most, and it has at most splitBlocks blocks: the decomposition and the
\* configured threshold together bound the time a preemption waits
\* (SetLpSplitThresholdOnce before the first Submit).
PreemptionDelay ==
  Cardinality({t \in Threads : plan[t] # <<>>}) <= 1 =>
    \A i, j \in DOMAIN flight :
      flight[i].type = "child" =>
        /\ Volume(flight[i].box.len) <= env.splitBlocks
        /\ flight[j].type = "child" => i = j

\* In the end no group holds its commands, whose listeners hold the group:
\* otherwise neither would ever be freed (the listener of SubmitSplitCommands).
GroupsReleased == Over => \A id \in Ids : group[id].children = <<>>

=============================================================================

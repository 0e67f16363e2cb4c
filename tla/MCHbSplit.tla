----------------------------- MODULE MCHbSplit -----------------------------
(***************************************************************************)
(* Instances of HbSplit: one thread that launches every small grid, every  *)
(* reason for which a launch is not split, and two threads on one queue.   *)
(***************************************************************************)
EXTENDS HbSplit

CONSTANTS t1, t2, MaxLength

Low == {"low", "known", "queue", "splittable", "params", "match"}
Kernel(g, axes, has) == [grid |-> g, axes |-> axes, has |-> has]
Only(s) == [t \in Threads |-> IF t = t1 THEN s ELSE <<>>]

\* Grids whose lengths are at most MaxLength, with offsets on any axes.
Grids == {<<x, y, z>> : x, y, z \in 1..MaxLength}
Decomposed == {Only(<<Kernel(g, a, Low)>>) : g \in Grids, a \in {{1, 2, 3}, {1, 2}, {3}}}

\* Every reason for a refusal, between two launches that are split.
Small == Kernel(<<3, 1, 1>>, {1}, Low)
Reasons == {Low \ {x} : x \in Low} \cup {Low \cup {"extra"}, {"known"}}
Refusals == {Only(<<Small, Kernel(<<2, 2, 1>>, {1, 2}, has), Small>>) : has \in Reasons}

\* Two threads share the queue.
Shared == {[t \in Threads |-> IF t = t1 THEN <<Small, Small>> ELSE <<Small, Kernel(<<2, 2, 1>>, {1, 2}, has)>>] :
             has \in {Low, Low \ {"low"}}}

MCPlans == Decomposed \cup Refusals \cup Shared
============================================================================

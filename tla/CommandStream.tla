--------------------------- MODULE CommandStream ---------------------------
(***************************************************************************)
(* What an XQueue promises its application, without buffer, worker, log or *)
(* preemption: commands take effect once and in the order in which they    *)
(* were submitted, are reported completed only afterwards, and whoever     *)
(* waits is answered only about completed commands.                        *)
(***************************************************************************)
EXTENDS Integers

CONSTANT Commands  \* the indices of the commands, in the order of submission

VARIABLES
  submitted,  \* commands XQueueSubmit was called for
  executed,   \* commands that took effect
  reported,   \* commands whose state is completed
  answered    \* commands some thread was told are finished

streamVars == <<submitted, executed, reported, answered>>

Init == submitted = {} /\ executed = {} /\ reported = {} /\ answered = {}

Submit(c) ==
  /\ c \in Commands \ submitted /\ \A b \in Commands : b < c => b \in submitted
  /\ submitted' = submitted \cup {c}
  /\ UNCHANGED <<executed, reported, answered>>

Execute(c) ==
  /\ c \in submitted \ executed /\ \A b \in submitted : b < c => b \in executed
  /\ executed' = executed \cup {c}
  /\ UNCHANGED <<submitted, reported, answered>>

Report(S) ==
  /\ S \subseteq executed
  /\ reported' = reported \cup S
  /\ UNCHANGED <<submitted, executed, answered>>

Answer(S) ==
  /\ S \subseteq reported
  /\ answered' = answered \cup S
  /\ UNCHANGED <<submitted, executed, reported>>

Next ==
  \/ \E c \in Commands : Submit(c) \/ Execute(c)
  \/ \E S \in SUBSET Commands : Report(S) \/ Answer(S)

\* What was submitted takes effect, and what took effect is reported.
Spec ==
  /\ Init /\ [][Next]_streamVars
  /\ WF_streamVars(\E c \in Commands : Execute(c))
  /\ WF_streamVars(\E S \in SUBSET Commands : Report(S))
=============================================================================

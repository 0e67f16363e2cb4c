---------------------------- MODULE XQueueStream ----------------------------
(* An XQueue implements the abstract stream of commands.                   *)
EXTENDS XQueue

\* A command that takes effect a second time leaves the set, which no step of
\* the stream allows.
Stream == INSTANCE CommandStream WITH
  Commands  <- Idx,
  submitted <- Submitted,
  executed  <- {c \in Idx : execs[c] = 1},
  reported  <- {c \in Idx : hwState[c] = Completed},
  answered  <- settled

\* For the application, suspending, deactivating, flushing and launching again
\* (Suspend and Resume of AsyncXQueue) are invisible: behind them the queue is
\* an in-order stream whose commands take effect exactly once, are reported
\* only then, and all of them in the end.
ImplementsStream == Stream!Spec
=============================================================================

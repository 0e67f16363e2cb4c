------------------------------- MODULE Server -------------------------------
(***************************************************************************)
(* xserver: a LocalScheduler in a process of its own (server.cpp), its     *)
(* clients, the processes with a GlobalScheduler (global.cpp, agent.cpp),  *)
(* and the thread that waits for clients to die (PidFdWaiter in            *)
(* waitpid.cpp).  Clients send events through one channel to the server,   *)
(* operations come back through a channel for each client; a client may    *)
(* die at any moment, with events of it still on their way.                *)
(*                                                                         *)
(* The channels are external: they keep the order of messages and lose     *)
(* none, and what is sent to a dead client vanishes.                       *)
(***************************************************************************)
EXTENDS LocalScheduler

CONSTANTS
  Joined0,   \* the sets of clients that may be connected in the beginning
  Mortal,    \* the processes that may leave or die
  MaxJoins,  \* bound: how often a process connects
  MaxChan    \* bound: messages in the channel of the server

ASSUME ServerAssumption ==
  /\ Joined0 \subseteq SUBSET Pids /\ Mortal \subseteq Pids /\ MaxJoins \in Nat /\ MaxChan \in Nat

VARIABLES
  chan,      \* messages in the channel of the server
  rpc, rcv,  \* where RecvWorker is, and the message it works on
  chans,     \* keys of client_chans_
  pidFds,    \* keys of pid_fds_
  epoll,     \* for each process the descriptors in the epoll set
  wpid,      \* the process WaitWorker calls back for, with the step, or none
  client,    \* "off", "up" (with a GlobalScheduler), "leaving" or "dead"
  joins,     \* how often a process has connected
  ops,       \* operations on their way to each client
  late,      \* processes whose events were received after their death was
  failed     \* an assertion of the server failed

recvVars == <<chan, rpc, rcv>>
waitVars == <<pidFds, epoll, wpid>>
clientVars == <<client, joins>>
serverVars == <<recvVars, chans, waitVars, clientVars, ops, late, failed>>
allVars == <<vars, serverVars>>

NoMessage == <<>>

-----------------------------------------------------------------------------
(* Clients *)

\* GlobalScheduler::RecvEvent.
Tell(e) ==
  /\ events < MaxEvents[pol.type] /\ Len(chan) < MaxChan
  /\ chan' = Append(chan, e) /\ events' = events + 1

Up(h) == client[PidOf[h]] = "up"
QueueUnchanged == UNCHANGED <<evq, batch, schedVars, newType, ticks, fresh, rpc, rcv,
                              chans, waitVars, clientVars, ops, late, failed>>

ClientCreate(h) == Up(h) /\ CreateQueue(h) /\ Tell(CreateEvent(h)) /\ QueueUnchanged
ClientReady(h) == Up(h) /\ FirstCommand(h) /\ Tell(ReadyEvent(h)) /\ QueueUnchanged
ClientIdle(h) == Up(h) /\ LastCommand(h) /\ Tell(IdleEvent(h)) /\ QueueUnchanged
ClientDel(h) == Up(h) /\ DelQueue(h) /\ QueueUnchanged /\ UNCHANGED <<chan, events>>
ClientDestroy(h) == Up(h) /\ DestroyQueue(h) /\ Tell(DestroyEvent(h)) /\ QueueUnchanged

\* InitScheduler and FiniScheduler.  Stop puts a TerminateOperation behind
\* the operations that have come.
TerminateOperation == [type |-> "Terminate"]
ProcessEvent(t, p) == [type |-> t, p |-> p]
Join(p) ==
  /\ client[p] = "off" /\ joins[p] < MaxJoins
  /\ Tell(ProcessEvent("ProcessCreate", p))
  /\ client' = [client EXCEPT ![p] = "up"] /\ joins' = [joins EXCEPT ![p] = @ + 1]
  /\ UNCHANGED <<evq, batch, schedVars, newType, queueVars, ticks, fresh, rpc, rcv,
                 chans, waitVars, ops, late, failed>>
Leave(p) ==
  /\ p \in Mortal /\ client[p] = "up"
  /\ Tell(ProcessEvent("ProcessDestroy", p))
  /\ client' = [client EXCEPT ![p] = "leaving"]
  /\ ops' = [ops EXCEPT ![p] = Append(@, TerminateOperation)]
  /\ UNCHANGED <<evq, batch, schedVars, newType, queueVars, ticks, fresh, rpc, rcv,
                 chans, waitVars, joins, late, failed>>

\* GlobalScheduler::Worker.
Perform(p) ==
  /\ client[p] \in {"up", "leaving"} /\ ops[p] # <<>>
  /\ LET o == Head(ops[p]) IN
       \/ /\ o.type = "Sched"
          /\ paused' = Carried(paused, o.run, o.stop)
          /\ ops' = [ops EXCEPT ![p] = Tail(@)]
          /\ UNCHANGED client
       \/ /\ o.type = "Terminate"
          /\ client' = [client EXCEPT ![p] = "off"]
          /\ ops' = [ops EXCEPT ![p] = <<>>]
          /\ UNCHANGED paused
  /\ UNCHANGED <<evq, batch, schedVars, newType, phase, busy, events, ticks, fresh,
                 recvVars, chans, waitVars, joins, late, failed>>

\* A process ends, with or without having left.
Die(p) ==
  LET Q == {h \in Handles : PidOf[h] = p} IN
  /\ p \in Mortal /\ client[p] # "dead" /\ joins[p] > 0
  /\ client' = [client EXCEPT ![p] = "dead"]
  /\ phase' = [h \in Handles |-> IF h \in Q THEN "none" ELSE phase[h]]
  /\ busy' = busy \ Q /\ paused' = paused \ Q
  /\ ops' = [ops EXCEPT ![p] = <<>>]
  /\ UNCHANGED <<evq, batch, schedVars, newType, events, ticks, fresh, recvVars, chans,
                 waitVars, joins, late, failed>>

-----------------------------------------------------------------------------
(* RecvWorker *)

\* The death of the process was reported to the scheduler before.
Reported(p) == client[p] = "dead" /\ p \notin pidFds /\ wpid # <<p, 1>>

RecvUnchanged == UNCHANGED <<batch, schedVars, newType, queueVars, events, ticks, fresh,
                             clientVars, ops, failed>>

\* Receive.  A new client is terminated first; other events are passed on.
Receive ==
  /\ rpc = "recv" /\ chan # <<>>
  /\ chan' = Tail(chan)
  /\ LET e == Head(chan) IN
       \/ /\ e.type = "ProcessCreate"
          /\ evq' = Append(evq, ProcessEvent("ProcessDestroy", e.p))
          /\ rpc' = "terminated" /\ rcv' = e /\ UNCHANGED late
       \/ /\ e.type = "ProcessDestroy"
          /\ evq' = Append(evq, e)
          /\ rpc' = "clean" /\ rcv' = e /\ UNCHANGED late
       \/ /\ e.type \notin {"ProcessCreate", "ProcessDestroy"}
          /\ evq' = Append(evq, e)
          /\ late' = IF Reported(PidOf[e.h]) THEN late \cup {PidOf[e.h]} ELSE late
          /\ UNCHANGED <<rpc, rcv>>
  /\ UNCHANGED <<chans, waitVars>> /\ RecvUnchanged

\* CleanUpProcess, at the end of ProcessDestroy and in ProcessCreate.
CleanUpProcess ==
  /\ rpc \in {"clean", "terminated"}
  /\ chans' = chans \ {rcv.p}
  /\ IF rpc = "clean" THEN rpc' = "recv" /\ rcv' = NoMessage
                      ELSE rpc' = "open" /\ rcv' = rcv
  /\ UNCHANGED <<evq, chan, waitVars, late>> /\ RecvUnchanged

OpenChannel ==
  /\ rpc = "open"
  /\ chans' = chans \cup {rcv.p}
  /\ rpc' = "wait"
  /\ UNCHANGED <<evq, chan, rcv, waitVars, late>> /\ RecvUnchanged

\* Faulty variant: for a process that is dead already nothing is done.
AddWaitDeadIgnored ==
  /\ rpc = "wait"
  /\ \/ /\ client[rcv.p] # "dead"
        /\ pidFds' = pidFds \cup {rcv.p}
        /\ epoll' = [epoll EXCEPT ![rcv.p] = @ + 1]
     \/ /\ client[rcv.p] = "dead"
        /\ UNCHANGED <<pidFds, epoll>>
  /\ rpc' = "pass"
  /\ UNCHANGED <<evq, chans, late, chan, rcv, wpid>> /\ RecvUnchanged

\* AddWait.  If the process is dead already the callback comes at once.
AddWait ==
  /\ rpc = "wait"
  /\ \/ /\ client[rcv.p] # "dead"
        /\ pidFds' = pidFds \cup {rcv.p}
        /\ epoll' = [epoll EXCEPT ![rcv.p] = @ + 1]
        /\ UNCHANGED <<evq, chans, late>>
     \/ /\ client[rcv.p] = "dead"
        /\ evq' = Append(evq, ProcessEvent("ProcessDestroy", rcv.p))
        /\ chans' = chans \ {rcv.p}
        /\ late' = late \cup {rcv.p}
        /\ UNCHANGED <<pidFds, epoll>>
  /\ rpc' = "pass"
  /\ UNCHANGED <<chan, rcv, wpid>> /\ RecvUnchanged

PassOn ==
  /\ rpc = "pass"
  /\ evq' = Append(evq, rcv)
  /\ late' = IF Reported(rcv.p) THEN late \cup {rcv.p} ELSE late
  /\ rpc' = "recv" /\ rcv' = NoMessage
  /\ UNCHANGED <<chan, chans, waitVars>> /\ RecvUnchanged

-----------------------------------------------------------------------------
(* PidFdWaiter::WaitWorker: a descriptor is readable when its process is   *)
(* dead.                                                                   *)

WaitUnchanged == UNCHANGED <<batch, schedVars, newType, queueVars, events, ticks, fresh,
                             recvVars, clientVars, ops, late>>

\* One descriptor, the one of pid_fds_, leaves the epoll set.
Wake(p) ==
  /\ wpid = <<>> /\ client[p] = "dead" /\ epoll[p] > 0
  /\ \/ /\ p \in pidFds
        /\ pidFds' = pidFds \ {p}
        /\ epoll' = [epoll EXCEPT ![p] = @ - 1]
        /\ wpid' = <<p, 1>> /\ UNCHANGED failed
     \/ /\ p \notin pidFds
        /\ failed' = TRUE /\ UNCHANGED waitVars
  /\ UNCHANGED <<evq, chans>> /\ WaitUnchanged

\* ProcessTerminate, called back.
ReportDeath ==
  /\ wpid # <<>> /\ wpid[2] = 1
  /\ evq' = Append(evq, ProcessEvent("ProcessDestroy", wpid[1]))
  /\ wpid' = <<wpid[1], 2>>
  /\ UNCHANGED <<chans, pidFds, epoll, failed>> /\ WaitUnchanged
CleanUpDead ==
  /\ wpid # <<>> /\ wpid[2] = 2
  /\ chans' = chans \ {wpid[1]}
  /\ wpid' = <<>>
  /\ UNCHANGED <<evq, pidFds, epoll, failed>> /\ WaitUnchanged

-----------------------------------------------------------------------------
(* The scheduler thread, and hints from the HTTP interface *)

\* Execute: without a channel the operation is dropped.
Execute(p) ==
  /\ wpc = "exec" /\ p \in todo
  /\ todo' = todo \ {p}
  /\ ops' = IF p \in chans /\ client[p] \in {"up", "leaving"}
            THEN [ops EXCEPT ![p] = Append(@, [type |-> "Sched", run |-> status.running[p],
                                               stop |-> status.stopped[p]])]
            ELSE ops
  /\ UNCHANGED <<evq, batch, status, pol, timers, wpc, final, terminate, newType,
                 queueVars, events, ticks, fresh, recvVars, chans, waitVars, clientVars,
                 late, failed>>

Schedule == (TakeEvents \/ HandleEvent \/ FinishBatch \/ EndReschedule) /\ UNCHANGED serverVars

PostHint(e) ==
  /\ events < MaxEvents[pol.type]
  /\ evq' = Append(evq, [type |-> "Hint", hint |-> e]) /\ events' = events + 1
  /\ UNCHANGED <<batch, schedVars, newType, queueVars, ticks, fresh, serverVars>>

-----------------------------------------------------------------------------
(* The specification.  The clients of J and their queues are known in the  *)
(* beginning.                                                              *)

ServerInit ==
  \E J \in Joined0 :
    LET Q == {h \in Existing : PidOf[h] \in J} IN
    /\ evq = <<>> /\ batch = <<>>
    /\ status = [StatusWith(Q) EXCEPT !.procs = J]
    /\ \E t \in Policies0 : pol = InitPolicy(t)
    /\ timers = {} /\ wpc = "wait" /\ todo = {} /\ final = FALSE /\ terminate = FALSE
    /\ newType = ""
    /\ phase = [h \in Handles |-> IF h \in Q THEN "idle" ELSE "none"]
    /\ busy = {} /\ paused = {} /\ events = 0 /\ ticks = 0 /\ fresh = TRUE
    /\ chan = <<>> /\ rpc = "recv" /\ rcv = NoMessage
    /\ chans = J /\ pidFds = J /\ epoll = [p \in Pids |-> IF p \in J THEN 1 ELSE 0]
    /\ wpid = <<>>
    /\ client = [p \in Pids |-> IF p \in J THEN "up" ELSE "off"]
    /\ joins = [p \in Pids |-> IF p \in J THEN 1 ELSE 0]
    /\ ops = [p \in Pids |-> <<>>] /\ late = {} /\ failed = FALSE

ClientNext ==
  \/ \E h \in Handles : ClientCreate(h) \/ ClientReady(h) \/ ClientIdle(h)
                          \/ ClientDel(h) \/ ClientDestroy(h)
  \/ \E p \in Pids : Join(p) \/ Leave(p) \/ Perform(p) \/ Die(p)
RecvWorker == Receive \/ CleanUpProcess \/ OpenChannel \/ AddWait \/ PassOn
WaitWorker == (\E p \in Pids : Wake(p)) \/ ReportDeath \/ CleanUpDead

ServerNext ==
  /\ ~failed
  /\ \/ ClientNext \/ RecvWorker \/ WaitWorker \/ Schedule
     \/ \E p \in Pids : Execute(p)
     \/ \E e \in HintsOf[pol.type] : PostHint(e)

ServerSpec == ServerInit /\ [][ServerNext]_allVars

-----------------------------------------------------------------------------
(* Properties *)

Alive == {p \in Pids : client[p] = "up"}

\* Everything sent has been received and carried out, every death noticed.
Settled ==
  /\ chan = <<>> /\ rpc = "recv" /\ wpid = <<>> /\ Quiet
  /\ \A p \in Pids : ops[p] = <<>> /\ (client[p] = "dead" => epoll[p] = 0)

\* Whatever the order in which a client dies, its events arrive and its death
\* is noticed, in the end exactly the connected clients have a channel, and a
\* dead process is unknown to the scheduler unless an event of it arrived
\* after its death was reported.
DeadForgotten ==
  Settled => /\ chans = Alive
             /\ \A p \in status.procs : p \in Alive \/ p \in late

\* In the end the scheduler knows the queues of the connected clients as they
\* are, and they are suspended as it says, although operations are dropped
\* while the channel of a process is missing.
ClientsServed ==
  Settled => \A h \in Handles : Up(h) =>
    /\ h \in status.known <=> phase[h] # "none"
    /\ h \in status.ready <=> h \in ReallyReady \cup busy
    /\ h \in Registered => (h \in paused <=> h \in status.suspended)

\* A ready queue of a connected client is not held back for a process that is
\* gone: another connected client's queue of the device runs, unless late
\* events brought a dead process back.
SurvivorsRun ==
  (Settled /\ late = {}) => \A h \in ReallyReady : Up(h) =>
    \E g \in ReallyReady \cup busy : g \notin paused /\ DeviceOf[g] = DeviceOf[h]

\* WaitWorker finds the descriptor of every process it is told about (the
\* assertion "pid fd not found").
PidFdFound == ~failed

=============================================================================

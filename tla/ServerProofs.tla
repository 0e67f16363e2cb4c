---------------------------- MODULE ServerProofs ----------------------------
(***************************************************************************)
(* What stays true of the server although processes join, leave and die at *)
(* any moment and are reported more than once: the status is consistent,   *)
(* in the end the dead are forgotten, the connected clients are served as  *)
(* the scheduler decided, and no device is held back for one who is gone.  *)
(***************************************************************************)
EXTENDS Server, PolicyProofs

ProcessEvents == [type : {"ProcessCreate", "ProcessDestroy"}, p : Pids]

\* The inductive invariant: the events on their way, in the channel too, can
\* be handled, and the two threads of the server work on processes.
Incoming(S) == Queued(S) /\ chan \in Seq(S)
ThreadsOK ==
  /\ rpc # "recv" => rcv \in ProcessEvents
  /\ wpid # <<>> => wpid[1] \in Pids
ServerInv == GoodStatus(status) /\ (\E S : Incoming(S)) /\ ThreadsOK

\* x is added to the channel or to the event queue, or neither, and what is
\* received leaves the channel.
Moves(x) ==
  /\ evq' = evq \/ evq' = Append(evq, x)
  /\ chan' = chan \/ chan' = Append(chan, x) \/ (chan # <<>> /\ chan' = Tail(chan))
  /\ batch' = batch

\* Moving events that can be handled keeps the invariant (RecvEvent of the
\* GlobalScheduler, RecvWorker, ProcessTerminate).
LEMMA MovesKeepsInv ==
  ASSUME ServerInv, NEW x, HandledEvent(x), Moves(x), status' = status, ThreadsOK'
  PROVE  ServerInv'
<1>1. PICK S : Incoming(S)
  BY DEF ServerInv
<1> DEFINE T == S \cup {x}
<1>2. evq \in Seq(T) /\ batch \in Seq(T) /\ chan \in Seq(T) /\ x \in T
  BY <1>1 DEF Incoming, Queued
<1>3. \A e \in T : HandledEvent(e)
  BY <1>1 DEF Incoming, Queued
<1> HIDE DEF T
<1>4. evq' \in Seq(T) /\ batch' \in Seq(T) /\ chan' \in Seq(T)
  <2>1. Append(evq, x) \in Seq(T) /\ Append(chan, x) \in Seq(T)
    BY <1>2
  <2>2. chan # <<>> => Tail(chan) \in Seq(T)
    BY <1>2
  <2> QED BY <1>2, <2>1, <2>2 DEF Moves
<1>5. Incoming(T)'
  BY <1>3, <1>4 DEF Incoming, Queued
<1> QED BY <1>5 DEF ServerInv

\* An event about a process can be handled.
LEMMA ProcessEventHandled ==
  ASSUME NEW p \in Pids, NEW t \in {"ProcessCreate", "ProcessDestroy"}
  PROVE  HandledEvent(ProcessEvent(t, p))
BY DEF HandledEvent, ProcessEvent

\* What is received can be handled; if it is about a process, it names one.
LEMMA ReceivedHandled ==
  ASSUME ServerInv, chan # <<>>
  PROVE  /\ HandledEvent(Head(chan))
         /\ Head(chan).type \in {"ProcessCreate", "ProcessDestroy"} =>
              Head(chan) \in ProcessEvents
<1>1. PICK S : Incoming(S)
  BY DEF ServerInv
<1>2. HandledEvent(Head(chan))
  BY <1>1 DEF Incoming, Queued
<1> QED BY <1>2 DEF HandledEvent, ProcessEvents

\* In the beginning the connected clients are known, and nothing is on its way.
LEMMA ServerInitInv == ServerInit => ServerInv
<1> SUFFICES ASSUME ServerInit PROVE ServerInv
  OBVIOUS
<1>1. PICK J \in Joined0 :
        /\ evq = <<>> /\ batch = <<>> /\ chan = <<>> /\ rpc = "recv" /\ wpid = <<>>
        /\ status = [StatusWith({h \in Existing : PidOf[h] \in J}) EXCEPT !.procs = J]
  BY DEF ServerInit
<1>2. GoodStatus(status)
  BY <1>1, StatusAssumption, SchedulerAssumption, ServerAssumption
     DEF GoodStatus, Status, Consistent, StatusWith
<1>3. Incoming({})
  BY <1>1 DEF Incoming, Queued
<1> QED BY <1>1, <1>2, <1>3 DEF ServerInv, ThreadsOK

\* Steps of the clients.
LEMMA ClientKeepsInv ==
  ASSUME ServerInv, ClientNext
  PROVE  ServerInv'
<1> USE DEF ThreadsOK, ServerInv
<1>1. ASSUME NEW h \in Handles,
             ClientCreate(h) \/ ClientReady(h) \/ ClientIdle(h) \/ ClientDestroy(h)
      PROVE  ServerInv'
  <2>1. HandledEvent(CreateEvent(h)) /\ HandledEvent(DestroyEvent(h))
          /\ HandledEvent(ReadyEvent(h)) /\ HandledEvent(IdleEvent(h))
    BY DEF HandledEvent, CreateEvent, DestroyEvent, ReadyEvent, IdleEvent
  <2>2. \E x : HandledEvent(x) /\ Moves(x)
    BY <1>1, <2>1 DEF ClientCreate, ClientReady, ClientIdle, ClientDestroy, Tell, Moves,
                      QueueUnchanged
  <2>3. status' = status /\ ThreadsOK'
    BY <1>1 DEF ClientCreate, ClientReady, ClientIdle, ClientDestroy, QueueUnchanged,
                schedVars, waitVars
  <2> QED BY <2>2, <2>3, MovesKeepsInv
<1>2. ASSUME NEW h \in Handles, ClientDel(h) PROVE ServerInv'
  <2>1. /\ evq' = evq /\ batch' = batch /\ chan' = chan /\ status' = status
        /\ rpc' = rpc /\ rcv' = rcv /\ wpid' = wpid
    BY <1>2 DEF ClientDel, QueueUnchanged, schedVars, waitVars
  <2> QED BY <2>1 DEF Incoming, Queued
<1>3. ASSUME NEW p \in Pids, Join(p) \/ Leave(p) PROVE ServerInv'
  <2>1. \E x : HandledEvent(x) /\ Moves(x)
    BY <1>3, ProcessEventHandled DEF Join, Leave, Tell, Moves
  <2>2. status' = status /\ ThreadsOK'
    BY <1>3 DEF Join, Leave, schedVars, waitVars
  <2> QED BY <2>1, <2>2, MovesKeepsInv
<1>4. ASSUME NEW p \in Pids, Perform(p) \/ Die(p) PROVE ServerInv'
  <2>1. /\ evq' = evq /\ batch' = batch /\ chan' = chan /\ status' = status
        /\ rpc' = rpc /\ rcv' = rcv /\ wpid' = wpid
    BY <1>4 DEF Perform, Die, schedVars, waitVars, recvVars
  <2> QED BY <2>1 DEF Incoming, Queued
<1> QED BY <1>1, <1>2, <1>3, <1>4 DEF ClientNext

\* Steps of the thread that receives.
LEMMA RecvKeepsInv ==
  ASSUME ServerInv, RecvWorker
  PROVE  ServerInv'
<1> USE DEF ThreadsOK, RecvUnchanged
<1>1. status' = status /\ batch' = batch
  BY DEF RecvWorker, Receive, CleanUpProcess, OpenChannel, AddWait, PassOn, schedVars
<1>2. rpc # "recv" => rcv \in ProcessEvents /\ rcv.p \in Pids /\ HandledEvent(rcv)
  BY DEF ServerInv, ProcessEvents, HandledEvent
<1>3. CASE Receive
  <2> DEFINE e == Head(chan)
  <2>1. HandledEvent(e) /\ (e.type \in {"ProcessCreate", "ProcessDestroy"} => e \in ProcessEvents)
    BY <1>3, ReceivedHandled DEF Receive
  <2>2. /\ chan # <<>> /\ chan' = Tail(chan) /\ wpid' = wpid
        /\ \/ /\ e.type = "ProcessCreate" /\ rcv' = e
              /\ evq' = Append(evq, ProcessEvent("ProcessDestroy", e.p))
           \/ e.type = "ProcessDestroy" /\ rcv' = e /\ evq' = Append(evq, e)
           \/ evq' = Append(evq, e) /\ rpc' = rpc /\ rcv' = rcv
    BY <1>3 DEF Receive, waitVars
  <2> HIDE DEF e
  <2>3. e.type = "ProcessCreate" => HandledEvent(ProcessEvent("ProcessDestroy", e.p))
    BY <2>1, ProcessEventHandled DEF ProcessEvents
  <2>4. \E x : HandledEvent(x) /\ Moves(x)
    BY <1>1, <2>1, <2>2, <2>3 DEF Moves
  <2>5. ThreadsOK'
    BY <2>1, <2>2 DEF ServerInv
  <2> QED BY <1>1, <2>4, <2>5, MovesKeepsInv
<1>4. CASE CleanUpProcess \/ OpenChannel
  <2>1. evq' = evq /\ chan' = chan /\ wpid' = wpid /\ rpc # "recv" /\ (rpc' # "recv" => rcv' = rcv)
    BY <1>4 DEF CleanUpProcess, OpenChannel, waitVars
  <2>2. HandledEvent(rcv) /\ Moves(rcv) /\ ThreadsOK'
    BY <1>1, <1>2, <2>1 DEF Moves, ServerInv
  <2> QED BY <1>1, <2>2, MovesKeepsInv
<1>5. CASE AddWait
  <2>1. /\ evq' = evq \/ evq' = Append(evq, ProcessEvent("ProcessDestroy", rcv.p))
        /\ chan' = chan /\ wpid' = wpid /\ rpc # "recv" /\ rcv' = rcv
    BY <1>5 DEF AddWait
  <2>2. HandledEvent(ProcessEvent("ProcessDestroy", rcv.p))
    BY <1>2, <2>1, ProcessEventHandled
  <2>3. Moves(ProcessEvent("ProcessDestroy", rcv.p)) /\ ThreadsOK'
    BY <1>1, <2>1 DEF Moves, ServerInv
  <2> QED BY <1>1, <2>2, <2>3, MovesKeepsInv
<1>6. CASE PassOn
  <2>1. /\ evq' = Append(evq, rcv) /\ chan' = chan /\ wpid' = wpid /\ rpc # "recv"
        /\ rpc' = "recv"
    BY <1>6 DEF PassOn, waitVars
  <2>2. HandledEvent(rcv) /\ Moves(rcv) /\ ThreadsOK'
    BY <1>1, <1>2, <2>1 DEF Moves, ServerInv
  <2> QED BY <1>1, <2>2, MovesKeepsInv
<1> QED BY <1>3, <1>4, <1>5, <1>6 DEF RecvWorker

\* Steps of the thread that waits for processes to die.
LEMMA WaitKeepsInv ==
  ASSUME ServerInv, WaitWorker
  PROVE  ServerInv'
<1> USE DEF ThreadsOK, WaitUnchanged
<1>1. status' = status /\ batch' = batch /\ chan' = chan /\ rpc' = rpc /\ rcv' = rcv
  BY DEF WaitWorker, Wake, ReportDeath, CleanUpDead, schedVars, recvVars
<1>2. HandledEvent(TerminateEvent)
  BY DEF HandledEvent, TerminateEvent
<1>3. ASSUME NEW p \in Pids, Wake(p) PROVE ServerInv'
  <2>1. evq' = evq /\ (wpid' = <<p, 1>> \/ wpid' = wpid)
    BY <1>3 DEF Wake, waitVars
  <2>2. Moves(TerminateEvent) /\ ThreadsOK'
    BY <1>1, <2>1 DEF Moves, ServerInv
  <2> QED BY <1>1, <1>2, <2>2, MovesKeepsInv
<1>4. CASE ReportDeath
  <2>1. /\ wpid # <<>> /\ evq' = Append(evq, ProcessEvent("ProcessDestroy", wpid[1]))
        /\ wpid' = <<wpid[1], 2>>
    BY <1>4 DEF ReportDeath
  <2>2. HandledEvent(ProcessEvent("ProcessDestroy", wpid[1]))
    BY <2>1, ProcessEventHandled DEF ServerInv
  <2>3. Moves(ProcessEvent("ProcessDestroy", wpid[1])) /\ ThreadsOK'
    BY <1>1, <2>1 DEF Moves, ServerInv
  <2> QED BY <1>1, <2>2, <2>3, MovesKeepsInv
<1>5. CASE CleanUpDead
  <2>1. evq' = evq /\ wpid' = <<>>
    BY <1>5 DEF CleanUpDead
  <2>2. Moves(TerminateEvent) /\ ThreadsOK'
    BY <1>1, <2>1 DEF Moves, ServerInv
  <2> QED BY <1>1, <1>2, <2>2, MovesKeepsInv
<1> QED BY <1>3, <1>4, <1>5 DEF WaitWorker

\* Steps of the scheduler thread, as in a process of its own.
LEMMA ScheduleKeepsInv ==
  ASSUME ServerInv, Schedule
  PROVE  ServerInv'
<1>1. PICK S : Incoming(S)
  BY DEF ServerInv
<1>2. SchedInv /\ Worker
  BY <1>1 DEF ServerInv, SchedInv, Incoming, Schedule, Worker
<1>3. SchedInv'
  BY <1>2, WorkerKeepsInv
<1>4. PICK T : Queued(T)'
  BY <1>3 DEF SchedInv
<1>5. chan' = chan /\ rpc' = rpc /\ rcv' = rcv /\ wpid' = wpid
  BY DEF Schedule, serverVars, recvVars, waitVars
<1>6. Incoming(S \cup T)'
  <2>1. evq' \in Seq(S \cup T) /\ batch' \in Seq(S \cup T)
    BY <1>4 DEF Queued
  <2>2. chan' \in Seq(S \cup T)
    BY <1>1, <1>5 DEF Incoming
  <2>3. \A e \in S \cup T : HandledEvent(e)
    BY <1>1, <1>4 DEF Incoming, Queued
  <2> QED BY <2>1, <2>2, <2>3 DEF Incoming, Queued
<1>7. GoodStatus(status') /\ ThreadsOK'
  BY <1>3, <1>5 DEF SchedInv, ServerInv, ThreadsOK
<1> QED BY <1>6, <1>7 DEF ServerInv

\* Every step of the server and its clients keeps the invariant.
LEMMA ServerNextInv == ServerInv /\ [ServerNext]_allVars => ServerInv'
<1> SUFFICES ASSUME ServerInv, [ServerNext]_allVars PROVE ServerInv'
  OBVIOUS
<1>1. CASE ClientNext
  BY <1>1, ClientKeepsInv
<1>2. CASE RecvWorker
  BY <1>2, RecvKeepsInv
<1>3. CASE WaitWorker
  BY <1>3, WaitKeepsInv
<1>4. CASE Schedule
  BY <1>4, ScheduleKeepsInv
<1>5. ASSUME NEW e, PostHint(e) PROVE ServerInv'
  <2>1. HandledEvent([type |-> "Hint", hint |-> e])
    BY DEF HandledEvent
  <2>2. Moves([type |-> "Hint", hint |-> e]) /\ status' = status /\ ThreadsOK'
    BY <1>5 DEF PostHint, Moves, schedVars, serverVars, recvVars, waitVars, ThreadsOK, ServerInv
  <2> QED BY <2>1, <2>2, MovesKeepsInv
<1>6. CASE (\E p \in Pids : Execute(p)) \/ UNCHANGED allVars
  <2>1. /\ evq' = evq /\ batch' = batch /\ chan' = chan /\ status' = status
        /\ rpc' = rpc /\ rcv' = rcv /\ wpid' = wpid
    BY <1>6 DEF Execute, allVars, vars, serverVars, schedVars, waitVars, recvVars
  <2> QED BY <2>1 DEF Incoming, Queued, ServerInv, ThreadsOK
<1> QED BY <1>1, <1>2, <1>3, <1>4, <1>5, <1>6 DEF ServerNext

\* In every behaviour of the server, with any clients that join, leave, die
\* and are reported in any order, the lists of the processes and the flags of
\* the queues agree (status_ of the LocalScheduler in Server).
THEOREM ServerStatusConsistent == ServerSpec => []StatusConsistent
<1>1. ServerInv => StatusConsistent
  BY DEF ServerInv, GoodStatus, StatusConsistent
<1> QED BY <1>1, ServerInitInv, ServerNextInv, PTL DEF ServerSpec

-----------------------------------------------------------------------------
(* Messages about a process                                                *)

CleansUp(m, p) == m.type = "ProcessDestroy" /\ m.p = p
Connects(m, p) == m.type = "ProcessCreate" /\ m.p = p
Concerns(m, p) ==
  \/ m.type \in {"ProcessCreate", "ProcessDestroy"} /\ m.p = p
  \/ m.type \in {"Create", "Destroy", "Ready", "Idle"} /\ PidOf[m.h] = p

\* q says nothing of p; the last that q says of p is that it is gone; p stays
\* connected; the last that q says of the connection of p is that there is one.
Silent(q, p) == \A i \in 1..Len(q) : ~Concerns(q[i], p)
Ended(q, p) ==
  \E i \in 1..Len(q) : CleansUp(q[i], p) /\ \A j \in 1..Len(q) : i < j => ~Concerns(q[j], p)
Stays(q, p) == \A i \in 1..Len(q) : ~CleansUp(q[i], p)
Joined(q, p) ==
  \E i \in 1..Len(q) : Connects(q[i], p) /\ \A j \in 1..Len(q) : i < j => ~CleansUp(q[j], p)

\* The first that q says of p is that it connects.
JoinsFirst(q, p) ==
  \A i \in 1..Len(q) : Concerns(q[i], p) => \E j \in 1..i : Connects(q[j], p)

\* Nothing is said in an empty queue.
LEMMA SaidNothing ==
  ASSUME NEW p
  PROVE  /\ Silent(<<>>, p) /\ ~Ended(<<>>, p) /\ Stays(<<>>, p) /\ ~Joined(<<>>, p)
         /\ JoinsFirst(<<>>, p)
BY DEF Silent, Ended, Stays, Joined, JoinsFirst

\* A message is added at the end.
LEMMA SaidAppend ==
  ASSUME NEW S, NEW q \in Seq(S), NEW e, NEW p
  PROVE  /\ Silent(Append(q, e), p) <=> Silent(q, p) /\ ~Concerns(e, p)
         /\ Ended(Append(q, e), p) <=> CleansUp(e, p) \/ (Ended(q, p) /\ ~Concerns(e, p))
         /\ Stays(Append(q, e), p) <=> Stays(q, p) /\ ~CleansUp(e, p)
         /\ Joined(Append(q, e), p) <=> Connects(e, p) \/ (Joined(q, p) /\ ~CleansUp(e, p))
         /\ JoinsFirst(q, p) /\ (Concerns(e, p) => Connects(e, p) \/ Joined(q, p))
              => JoinsFirst(Append(q, e), p)
<1> DEFINE n == Len(q)
           r == Append(q, e)
<1>1. n \in Nat /\ Len(r) = n + 1 /\ r[n + 1] = e /\ \A i \in 1..n : r[i] = q[i]
  BY AppendProperties, LenProperties
<1>2. 1..(n + 1) = 1..n \cup {n + 1} /\ n + 1 \notin 1..n /\ \A i \in 1..n : i < n + 1
  BY <1>1
<1> HIDE DEF n, r
<1>3. Silent(r, p) <=> Silent(q, p) /\ ~Concerns(e, p)
  BY <1>1, <1>2 DEF Silent, n
<1>4. Ended(r, p) <=> CleansUp(e, p) \/ (Ended(q, p) /\ ~Concerns(e, p))
  <2>1. CleansUp(e, p) => Ended(r, p)
    BY <1>1, <1>2 DEF Ended
  <2>2. Ended(q, p) /\ ~Concerns(e, p) => Ended(r, p)
    BY <1>1, <1>2 DEF Ended, n
  <2>3. Ended(r, p) /\ ~CleansUp(e, p) => Ended(q, p) /\ ~Concerns(e, p)
    BY <1>1, <1>2 DEF Ended, n
  <2>4. QED
    BY <2>1, <2>2, <2>3
<1>5. Stays(r, p) <=> Stays(q, p) /\ ~CleansUp(e, p)
  BY <1>1, <1>2 DEF Stays, n
<1>6. Joined(r, p) <=> Connects(e, p) \/ (Joined(q, p) /\ ~CleansUp(e, p))
  <2>1. Connects(e, p) => Joined(r, p)
    BY <1>1, <1>2 DEF Joined
  <2>2. Joined(q, p) /\ ~CleansUp(e, p) => Joined(r, p)
    BY <1>1, <1>2 DEF Joined, n
  <2>3. Joined(r, p) /\ ~Connects(e, p) => Joined(q, p) /\ ~CleansUp(e, p)
    BY <1>1, <1>2 DEF Joined, n
  <2>4. QED
    BY <2>1, <2>2, <2>3
<1>7. ASSUME JoinsFirst(q, p), Concerns(e, p) => Connects(e, p) \/ Joined(q, p),
             NEW i \in 1..(n + 1), Concerns(r[i], p)
      PROVE  \E j \in 1..i : Connects(r[j], p)
  <2>1. CASE i \in 1..n
    <3>1. PICK j \in 1..i : Connects(q[j], p)
      BY <1>1, <1>7, <2>1 DEF JoinsFirst, n
    <3>2. j \in 1..n
      BY <1>1, <2>1
    <3>3. QED
      BY <1>1, <3>1, <3>2
  <2>2. CASE i = n + 1 /\ Connects(e, p)
    BY <1>1, <2>2
  <2>3. CASE i = n + 1 /\ Joined(q, p)
    <3>1. PICK j \in 1..n : Connects(q[j], p)
      BY <2>3 DEF Joined, n
    <3>2. j \in 1..i
      BY <1>1, <2>3
    <3>3. QED
      BY <1>1, <3>1, <3>2
  <2>4. QED
    BY <1>1, <1>2, <1>7, <2>1, <2>2, <2>3
<1>8. JoinsFirst(q, p) /\ (Concerns(e, p) => Connects(e, p) \/ Joined(q, p))
        => JoinsFirst(r, p)
  BY <1>1, <1>7 DEF JoinsFirst
<1>9. QED
  BY <1>3, <1>4, <1>5, <1>6, <1>8 DEF r

\* The first message is taken.
LEMMA SaidTail ==
  ASSUME NEW S, NEW q \in Seq(S), q # <<>>, NEW p
  PROVE  LET e == Head(q)
             r == Tail(q)
         IN /\ Silent(q, p) <=> ~Concerns(e, p) /\ Silent(r, p)
            /\ Ended(q, p) <=> Ended(r, p) \/ (CleansUp(e, p) /\ Silent(r, p))
            /\ Stays(q, p) <=> ~CleansUp(e, p) /\ Stays(r, p)
            /\ Joined(q, p) <=> Joined(r, p) \/ (Connects(e, p) /\ Stays(r, p))
            /\ JoinsFirst(q, p) /\ ~Connects(e, p) => ~Concerns(e, p) /\ JoinsFirst(r, p)
<1> DEFINE n == Len(q)
           e == Head(q)
           r == Tail(q)
<1>1. /\ n \in Nat /\ n > 0 /\ Len(r) = n - 1 /\ e = q[1]
      /\ \A i \in 1..(n - 1) : r[i] = q[i + 1]
  BY HeadTailProperties, LenProperties, EmptySeq
<1>2. /\ \A i \in 1..n : i = 1 \/ i - 1 \in 1..(n - 1)
      /\ \A i \in 1..(n - 1) : i + 1 \in 1..n /\ 1 < i + 1 /\ (i + 1) - 1 = i
      /\ \A i \in 1..n : i - 1 \in 1..(n - 1) => r[i - 1] = q[i] /\ 1 < i
      /\ 1 \in 1..n
  BY <1>1
<1> HIDE DEF n, r, e
<1>3. Silent(q, p) <=> ~Concerns(e, p) /\ Silent(r, p)
  <2>1. Silent(q, p) => ~Concerns(e, p) /\ Silent(r, p)
    BY <1>1, <1>2 DEF Silent, n
  <2>2. ~Concerns(e, p) /\ Silent(r, p) => Silent(q, p)
    BY <1>1, <1>2 DEF Silent, n
  <2>3. QED
    BY <2>1, <2>2
<1>4. Ended(q, p) <=> Ended(r, p) \/ (CleansUp(e, p) /\ Silent(r, p))
  <2>1. ASSUME Ended(r, p) PROVE Ended(q, p)
    <3>1. PICK i \in 1..(n - 1) :
            CleansUp(r[i], p) /\ \A j \in 1..(n - 1) : i < j => ~Concerns(r[j], p)
      BY <1>1, <2>1 DEF Ended
    <3>2. CleansUp(q[i + 1], p) /\ \A j \in 1..n : i + 1 < j => ~Concerns(q[j], p)
      BY <1>1, <1>2, <3>1
    <3>3. QED
      BY <1>2, <3>2 DEF Ended, n
  <2>2. ASSUME CleansUp(e, p), Silent(r, p) PROVE Ended(q, p)
    <3>1. \A j \in 1..n : 1 < j => ~Concerns(q[j], p)
      BY <1>1, <1>2, <2>2 DEF Silent
    <3>2. QED
      BY <1>1, <1>2, <2>2, <3>1 DEF Ended, n
  <2>3. ASSUME Ended(q, p) PROVE Ended(r, p) \/ (CleansUp(e, p) /\ Silent(r, p))
    <3>1. PICK i \in 1..n :
            CleansUp(q[i], p) /\ \A j \in 1..n : i < j => ~Concerns(q[j], p)
      BY <2>3 DEF Ended, n
    <3>2. CASE i = 1
      BY <1>1, <1>2, <3>1, <3>2 DEF Silent
    <3>3. CASE i - 1 \in 1..(n - 1)
      <4>1. CleansUp(r[i - 1], p) /\ \A j \in 1..(n - 1) : i - 1 < j => ~Concerns(r[j], p)
        BY <1>1, <1>2, <3>1, <3>3
      <4>2. QED
        BY <1>1, <3>3, <4>1 DEF Ended
    <3>4. QED
      BY <1>2, <3>2, <3>3
  <2>4. QED
    BY <2>1, <2>2, <2>3
<1>5. Stays(q, p) <=> ~CleansUp(e, p) /\ Stays(r, p)
  <2>1. Stays(q, p) => ~CleansUp(e, p) /\ Stays(r, p)
    BY <1>1, <1>2 DEF Stays, n
  <2>2. ~CleansUp(e, p) /\ Stays(r, p) => Stays(q, p)
    BY <1>1, <1>2 DEF Stays, n
  <2>3. QED
    BY <2>1, <2>2
<1>6. Joined(q, p) <=> Joined(r, p) \/ (Connects(e, p) /\ Stays(r, p))
  <2>1. ASSUME Joined(r, p) PROVE Joined(q, p)
    <3>1. PICK i \in 1..(n - 1) :
            Connects(r[i], p) /\ \A j \in 1..(n - 1) : i < j => ~CleansUp(r[j], p)
      BY <1>1, <2>1 DEF Joined
    <3>2. Connects(q[i + 1], p) /\ \A j \in 1..n : i + 1 < j => ~CleansUp(q[j], p)
      BY <1>1, <1>2, <3>1
    <3>3. QED
      BY <1>2, <3>2 DEF Joined, n
  <2>2. ASSUME Connects(e, p), Stays(r, p) PROVE Joined(q, p)
    <3>1. \A j \in 1..n : 1 < j => ~CleansUp(q[j], p)
      BY <1>1, <1>2, <2>2 DEF Stays
    <3>2. QED
      BY <1>1, <1>2, <2>2, <3>1 DEF Joined, n
  <2>3. ASSUME Joined(q, p) PROVE Joined(r, p) \/ (Connects(e, p) /\ Stays(r, p))
    <3>1. PICK i \in 1..n :
            Connects(q[i], p) /\ \A j \in 1..n : i < j => ~CleansUp(q[j], p)
      BY <2>3 DEF Joined, n
    <3>2. CASE i = 1
      BY <1>1, <1>2, <3>1, <3>2 DEF Stays
    <3>3. CASE i - 1 \in 1..(n - 1)
      <4>1. Connects(r[i - 1], p) /\ \A j \in 1..(n - 1) : i - 1 < j => ~CleansUp(r[j], p)
        BY <1>1, <1>2, <3>1, <3>3
      <4>2. QED
        BY <1>1, <3>3, <4>1 DEF Joined
    <3>4. QED
      BY <1>2, <3>2, <3>3
  <2>4. QED
    BY <2>1, <2>2, <2>3
<1>7. ASSUME JoinsFirst(q, p), ~Connects(e, p)
      PROVE  ~Concerns(e, p) /\ JoinsFirst(r, p)
  <2>1. ~Concerns(e, p)
    <3>1. Concerns(q[1], p) => \E j \in 1..1 : Connects(q[j], p)
      BY <1>2, <1>7 DEF JoinsFirst, n
    <3>2. QED
      BY <1>1, <1>7, <3>1
  <2>2. ASSUME NEW i \in 1..(n - 1), Concerns(r[i], p)
        PROVE  \E j \in 1..i : Connects(r[j], p)
    <3>1. PICK j \in 1..(i + 1) : Connects(q[j], p)
      BY <1>1, <1>2, <1>7, <2>2 DEF JoinsFirst, n
    <3>2. j # 1 /\ j \in 1..n
      BY <1>1, <1>7, <2>2, <3>1
    <3>3. j - 1 \in 1..i /\ r[j - 1] = q[j]
      BY <1>1, <1>2, <3>1, <3>2
    <3>4. QED
      BY <3>1, <3>3
  <2>3. QED
    BY <1>1, <2>1, <2>2 DEF JoinsFirst
<1>8. QED
  BY <1>3, <1>4, <1>5, <1>6, <1>7 DEF r, e

-----------------------------------------------------------------------------
(* The invariant of the deaths                                             *)

\* When the events the scheduler has are handled, p is unknown to it.
Gone(p) ==
  \/ Ended(evq, p)
  \/ Silent(evq, p) /\ (Ended(batch, p) \/ (Silent(batch, p) /\ p \notin status.procs))

\* RecvWorker serves p, at one of the places R; WaitWorker calls back for p.
Serves(p, R) == rpc \in R /\ rcv.p = p
Reporting(p) == wpid # <<>> /\ wpid[1] = p

\* What has a channel is watched, or is about to be; who is not dead is in
\* pid_fds_ if its descriptor is in the epoll set.
Watched(p) ==
  /\ p \in pidFds => epoll[p] > 0
  /\ p \in chans => epoll[p] > 0 \/ Reporting(p) \/ Serves(p, {"wait"})
  /\ client[p] # "dead" => (epoll[p] > 0 => p \in pidFds) /\ ~Reporting(p)
  /\ Serves(p, {"pass"}) /\ client[p] # "dead" => p \in pidFds

\* A connected client has a channel when its messages are received, and a
\* client that has left has none and is unknown.  Nothing is known of a client
\* that is not watched yet; a dead one is unknown, or its death is reported
\* later, or its events came late.
Followed(p) ==
  /\ client[p] = "up" =>
       \/ Joined(chan, p)
       \/ /\ Stays(chan, p)
          /\ Serves(p, {"terminated", "open"}) \/ (p \in chans /\ ~Serves(p, {"clean"}))
  /\ client[p] \in {"off", "leaving"} =>
       \/ Ended(chan, p)
       \/ /\ Silent(chan, p) /\ Gone(p)
          /\ ~Serves(p, {"terminated", "open", "wait", "pass"})
          /\ p \in chans => Serves(p, {"clean"})
  /\ client[p] # "dead" /\ p \notin pidFds =>
       Gone(p) /\ (Serves(p, {"terminated", "open", "wait"}) \/ JoinsFirst(chan, p))
  /\ client[p] = "dead" => p \in late \/ p \in pidFds \/ wpid = <<p, 1>> \/ Gone(p)

\* Operations on their way: only a client that is leaving terminates.
Orders(p) ==
  LET Q == {h \in Handles : PidOf[h] = p}
  IN [type : {"Sched"}, run : SUBSET Q, stop : SUBSET Q]
OrdersOK ==
  /\ DOMAIN ops = Pids
  /\ \A p \in Pids : client[p] # "leaving" => ops[p] \in Seq(Orders(p))

Places == {"recv", "clean", "terminated", "open", "wait", "pass"}
ClientsOK ==
  /\ client \in [Pids -> {"off", "up", "leaving", "dead"}] /\ epoll \in [Pids -> Nat]
  /\ chans \subseteq Pids /\ rpc \in Places
  /\ rpc = "clean" => rcv.type = "ProcessDestroy"
  /\ rpc \notin {"recv", "clean"} => rcv.type = "ProcessCreate"

DeathInv ==
  /\ ServerInv /\ ThreadOK /\ ClientsOK /\ OrdersOK
  /\ \A p \in Pids : Watched(p) /\ Followed(p)

\* An event is added to the event queue.
LEMMA GoneAppend ==
  ASSUME ServerInv, NEW x, evq' = Append(evq, x), batch' = batch, status' = status, NEW p
  PROVE  Gone(p)' <=> CleansUp(x, p) \/ (~Concerns(x, p) /\ Gone(p))
<1>1. PICK S : evq \in Seq(S)
  BY DEF ServerInv, Incoming, Queued
<1>2. /\ Ended(Append(evq, x), p) <=> CleansUp(x, p) \/ (Ended(evq, p) /\ ~Concerns(x, p))
      /\ Silent(Append(evq, x), p) <=> Silent(evq, p) /\ ~Concerns(x, p)
  BY <1>1, SaidAppend
<1>3. Gone(p)' <=> \/ Ended(Append(evq, x), p)
                   \/ /\ Silent(Append(evq, x), p)
                      /\ Ended(batch, p) \/ (Silent(batch, p) /\ p \notin status.procs)
  BY DEF Gone, Ended, Silent
<1> QED BY <1>2, <1>3 DEF Gone

\* Gone says nothing of what it does not mention.
LEMMA GoneSame ==
  ASSUME UNCHANGED <<evq, batch, status>>, NEW p
  PROVE  Gone(p)' <=> Gone(p)
BY DEF Gone, Ended, Silent

\* What an event does to the processes a status knows (UpdateStatus).
LEMMA UpdateProcs ==
  ASSUME NEW st, GoodStatus(st), NEW e, HandledEvent(e), NEW p \in Pids,
         CleansUp(e, p) \/ (~Concerns(e, p) /\ p \notin st.procs)
  PROVE  p \notin UpdateStatus(st, e).procs
<1>1. st \in Status
  BY DEF GoodStatus
<1>2. CASE e.type = "Create" /\ e.h \in Handles
  BY <1>1, <1>2 DEF UpdateStatus, XQueueCreate, CreateXQueueStatus, Concerns, CleansUp, Status
<1>3. CASE e.type = "Destroy" /\ e.h \in Handles
  BY <1>1, <1>3 DEF UpdateStatus, XQueueDestroy, Concerns, CleansUp, Status
<1>4. CASE e.type = "Idle" /\ e.h \in Handles
  BY <1>1, <1>4 DEF UpdateStatus, XQueueIdle, CreateXQueueStatus, Concerns, CleansUp, Status
<1>5. CASE e.type = "Ready" /\ e.h \in Handles /\ e.age \in Nat
  <2>1. UpdateStatus(st, e) = XQueueReady(st, e.h, e.age)
    BY <1>5 DEF UpdateStatus
  <2>2. XQueueReady(st, e.h, e.age).procs \subseteq st.procs \cup {PidOf[e.h]}
    BY <1>1, <1>5 DEF XQueueReady, CreateXQueueStatus, Status
  <2> QED BY <1>5, <2>1, <2>2 DEF Concerns, CleansUp
<1>6. CASE e.type = "ProcessCreate" /\ e.p \in Pids
  BY <1>1, <1>6 DEF UpdateStatus, ProcessCreate, Concerns, CleansUp, Status
<1>7. CASE e.type = "ProcessDestroy" /\ e.p \in Pids
  BY <1>1, <1>7 DEF UpdateStatus, ProcessDestroy, Concerns, CleansUp, Status
<1>8. CASE e.type \in {"Terminate", "Hint"}
  BY <1>8 DEF UpdateStatus, Concerns, CleansUp
<1> QED BY <1>2, <1>3, <1>4, <1>5, <1>6, <1>7, <1>8 DEF HandledEvent

\* A decision of the policy leaves the processes.
LEMMA RescheduleProcs ==
  ASSUME NEW st, GoodStatus(st), Reschedule(st)
  PROVE  status'.procs = st.procs
<1>1. PICK o \in PolicySched(pol, st) : status' = ResumeAll(SuspendAll(st, o.stop), o.run)
  BY DEF Reschedule
<1> QED BY <1>1 DEF GoodStatus, Status, ResumeAll, SuspendAll

-----------------------------------------------------------------------------
(* The scheduler thread *)

\* It keeps unknown who is.
LEMMA ScheduleKeepsGone ==
  ASSUME ServerInv, ThreadOK, Schedule, NEW p \in Pids, Gone(p)
  PROVE  Gone(p)'
<1>1. PICK S : evq \in Seq(S) /\ batch \in Seq(S) /\ \A e \in S : HandledEvent(e)
  BY DEF ServerInv, Incoming, Queued
<1>2. GoodStatus(status) /\ status \in Status
  BY DEF ServerInv, GoodStatus
<1>3. CASE TakeEvents
  <2>1. batch = <<>> /\ batch' = evq /\ evq' = <<>> /\ status' = status
    BY <1>3 DEF TakeEvents, ThreadOK, BatchDone
  <2>2. Silent(<<>>, p) /\ ~Ended(<<>>, p)
    BY SaidNothing
  <2>3. Ended(evq, p) \/ (Silent(evq, p) /\ p \notin status.procs)
    BY <2>1, <2>2 DEF Gone
  <2>4. Silent(evq', p) /\ (Ended(batch', p) \/ (Silent(batch', p) /\ p \notin status'.procs))
    BY <2>1, <2>2, <2>3
  <2> QED BY <2>4 DEF Gone, Silent, Ended
<1>4. CASE HandleEvent
  <2> DEFINE e == Head(batch)
             st == UpdateStatus(status, e)
  <2>1. /\ batch # <<>> /\ batch' = Tail(batch) /\ evq' = evq
        /\ \/ status' = status /\ e.type \in {"Terminate", "Hint"}
           \/ Reschedule(st)
           \/ status' = st
    BY <1>4 DEF HandleEvent
  <2>2. HandledEvent(e)
    BY <1>1, <2>1
  <2>3. GoodStatus(st)
    BY <1>2, <2>2, UpdateStatusGood
  <2> HIDE DEF e, st
  <2>4. status'.procs = st.procs
    <3>1. e.type \in {"Terminate", "Hint"} => st = status
      BY DEF UpdateStatus, st
    <3> QED BY <2>1, <2>3, <3>1, RescheduleProcs
  <2>5. CleansUp(e, p) \/ (~Concerns(e, p) /\ p \notin status.procs) => p \notin status'.procs
    BY <1>2, <2>2, <2>4, UpdateProcs DEF st
  <2>6. /\ Silent(batch, p) <=> ~Concerns(e, p) /\ Silent(Tail(batch), p)
        /\ Ended(batch, p) <=> \/ Ended(Tail(batch), p)
                               \/ CleansUp(e, p) /\ Silent(Tail(batch), p)
    BY <1>1, <2>1, SaidTail DEF e
  <2>7. \/ Ended(evq, p)
        \/ /\ Silent(evq, p)
           /\ \/ Ended(Tail(batch), p)
              \/ Silent(Tail(batch), p) /\ p \notin status'.procs
    BY <2>5, <2>6 DEF Gone
  <2> QED BY <2>1, <2>7 DEF Gone, Silent, Ended
<1>5. CASE FinishBatch \/ EndReschedule
  <2>1. evq' = evq /\ batch' = batch /\ (status' = status \/ Reschedule(status))
    BY <1>5 DEF FinishBatch, EndReschedule
  <2>2. status'.procs = status.procs
    BY <1>2, <2>1, RescheduleProcs
  <2> QED BY <2>1, <2>2 DEF Gone, Silent, Ended
<1> QED BY <1>3, <1>4, <1>5 DEF Schedule

\* It handles its batch before it waits.
LEMMA ScheduleKeepsThread ==
  ASSUME ServerInv, ThreadOK, Schedule
  PROVE  ThreadOK'
<1>1. GoodStatus(status)
  BY DEF ServerInv
<1>2. CASE TakeEvents
  BY <1>2 DEF TakeEvents, ThreadOK, BatchDone
<1>3. CASE HandleEvent
  <2>1. /\ wpc = "batch" /\ final' = final
        /\ wpc' = wpc \/ Reschedule(UpdateStatus(status, Head(batch)))
    BY <1>3 DEF HandleEvent
  <2>2. wpc' \in {"batch", "exec"} /\ final' = FALSE
    BY <2>1 DEF Reschedule, ThreadOK
  <2> QED BY <2>2 DEF ThreadOK, BatchDone
<1>4. CASE FinishBatch
  BY <1>4 DEF FinishBatch, Reschedule, ThreadOK, BatchDone
<1>5. CASE EndReschedule
  <2>1. /\ wpc = "exec" /\ final' = FALSE /\ batch' = batch
        /\ IF final THEN wpc' \in {"wait", "off"} ELSE wpc' = "batch"
    BY <1>5 DEF EndReschedule, ThreadOK
  <2> QED BY <2>1 DEF ThreadOK, BatchDone
<1> QED BY <1>2, <1>3, <1>4, <1>5 DEF Schedule

\* What Watched and Followed mention, besides Gone.
LEMMA FollowedSame ==
  ASSUME NEW p, Watched(p), Followed(p),
         UNCHANGED <<chan, rpc, rcv, chans, pidFds, epoll, wpid, client, late>>,
         Gone(p) => Gone(p)'
  PROVE  Watched(p)' /\ Followed(p)'
<1>1. Watched(p)'
  BY DEF Watched, Reporting, Serves
<1>2. /\ Joined(chan, p)' <=> Joined(chan, p)
      /\ Stays(chan, p)' <=> Stays(chan, p)
      /\ Ended(chan, p)' <=> Ended(chan, p)
      /\ Silent(chan, p)' <=> Silent(chan, p)
      /\ JoinsFirst(chan, p)' <=> JoinsFirst(chan, p)
  BY DEF Joined, Stays, Ended, Silent, JoinsFirst
<1>3. Followed(p)'
  BY <1>2 DEF Followed, Serves
<1> QED BY <1>1, <1>3

\* The steps of the scheduler thread keep the invariant.
LEMMA ScheduleKeepsDeath ==
  ASSUME DeathInv, Schedule
  PROVE  DeathInv'
<1>1. UNCHANGED <<chan, rpc, rcv, chans, pidFds, epoll, wpid, client, late, ops>>
  BY DEF Schedule, serverVars, recvVars, waitVars, clientVars
<1>2. ServerInv' /\ ThreadOK'
  BY ScheduleKeepsInv, ScheduleKeepsThread DEF DeathInv
<1>3. ClientsOK' /\ OrdersOK'
  BY <1>1 DEF DeathInv, ClientsOK, OrdersOK
<1>4. ASSUME NEW p \in Pids PROVE Watched(p)' /\ Followed(p)'
  BY <1>1, ScheduleKeepsGone, FollowedSame DEF DeathInv
<1> QED BY <1>2, <1>3, <1>4 DEF DeathInv

-----------------------------------------------------------------------------
(* The two threads of the server                                           *)

\* A message leaves the channel of the server, or is added to it.
LEMMA ChannelTail ==
  ASSUME ServerInv, chan # <<>>, chan' = Tail(chan), NEW p
  PROVE  LET e == Head(chan)
         IN /\ Silent(chan, p) <=> ~Concerns(e, p) /\ Silent(chan, p)'
            /\ Ended(chan, p) <=> Ended(chan, p)' \/ (CleansUp(e, p) /\ Silent(chan, p)')
            /\ Stays(chan, p) <=> ~CleansUp(e, p) /\ Stays(chan, p)'
            /\ Joined(chan, p) <=> Joined(chan, p)' \/ (Connects(e, p) /\ Stays(chan, p)')
            /\ JoinsFirst(chan, p) /\ ~Connects(e, p) => ~Concerns(e, p) /\ JoinsFirst(chan, p)'
<1>1. PICK S : chan \in Seq(S)
  BY DEF ServerInv, Incoming
<1>2. /\ Silent(chan, p)' <=> Silent(Tail(chan), p)
      /\ Ended(chan, p)' <=> Ended(Tail(chan), p)
      /\ Stays(chan, p)' <=> Stays(Tail(chan), p)
      /\ Joined(chan, p)' <=> Joined(Tail(chan), p)
      /\ JoinsFirst(chan, p)' <=> JoinsFirst(Tail(chan), p)
  BY DEF Silent, Ended, Stays, Joined, JoinsFirst
<1> QED BY <1>1, <1>2, SaidTail

\* A message is added to the channel.
LEMMA ChannelAppend ==
  ASSUME ServerInv, NEW e, chan' = Append(chan, e), NEW p
  PROVE  /\ Silent(chan, p)' <=> Silent(chan, p) /\ ~Concerns(e, p)
         /\ Ended(chan, p)' <=> CleansUp(e, p) \/ (Ended(chan, p) /\ ~Concerns(e, p))
         /\ Stays(chan, p)' <=> Stays(chan, p) /\ ~CleansUp(e, p)
         /\ Joined(chan, p)' <=> Connects(e, p) \/ (Joined(chan, p) /\ ~CleansUp(e, p))
         /\ JoinsFirst(chan, p) /\ (Concerns(e, p) => Connects(e, p) \/ Joined(chan, p))
              => JoinsFirst(chan, p)'
<1>1. PICK S : chan \in Seq(S)
  BY DEF ServerInv, Incoming
<1>2. /\ Silent(chan, p)' <=> Silent(Append(chan, e), p)
      /\ Ended(chan, p)' <=> Ended(Append(chan, e), p)
      /\ Stays(chan, p)' <=> Stays(Append(chan, e), p)
      /\ Joined(chan, p)' <=> Joined(Append(chan, e), p)
      /\ JoinsFirst(chan, p)' <=> JoinsFirst(Append(chan, e), p)
  BY DEF Silent, Ended, Stays, Joined, JoinsFirst
<1> QED BY <1>1, <1>2, SaidAppend

\* The channel is left as it is.
LEMMA ChannelSame ==
  ASSUME chan' = chan, NEW p
  PROVE  /\ Silent(chan, p)' <=> Silent(chan, p)
         /\ Ended(chan, p)' <=> Ended(chan, p)
         /\ Stays(chan, p)' <=> Stays(chan, p)
         /\ Joined(chan, p)' <=> Joined(chan, p)
         /\ JoinsFirst(chan, p)' <=> JoinsFirst(chan, p)
BY DEF Silent, Ended, Stays, Joined, JoinsFirst

\* What is sent about a process concerns it and no other.
LEMMA ProcessEventConcerns ==
  ASSUME NEW q \in Pids, NEW p \in Pids
  PROVE  LET x == ProcessEvent("ProcessDestroy", q)
             y == ProcessEvent("ProcessCreate", q)
         IN /\ CleansUp(x, p) <=> p = q
            /\ Connects(y, p) <=> p = q
            /\ Concerns(x, p) <=> p = q
            /\ Concerns(y, p) <=> p = q
            /\ ~CleansUp(y, p) /\ ~Connects(x, p)
BY DEF ProcessEvent, CleansUp, Connects, Concerns

\* RecvWorker receives a message: it starts on the first one of a process, and
\* gives every other to the scheduler (Receive).
LEMMA ReceiveKeepsDeath ==
  ASSUME DeathInv, Receive
  PROVE  \A p \in Pids : Watched(p)' /\ Followed(p)'
<1> DEFINE e == Head(chan)
<1>1. /\ rpc = "recv" /\ chan # <<>> /\ chan' = Tail(chan) /\ ServerInv
      /\ UNCHANGED <<batch, status, chans, pidFds, epoll, wpid, client>>
  BY DEF Receive, RecvUnchanged, schedVars, waitVars, clientVars, DeathInv
<1>2. \/ /\ e.type = "ProcessCreate" /\ rpc' = "terminated" /\ rcv' = e /\ late' = late
         /\ evq' = Append(evq, ProcessEvent("ProcessDestroy", e.p))
      \/ /\ e.type = "ProcessDestroy" /\ rpc' = "clean" /\ rcv' = e /\ late' = late
         /\ evq' = Append(evq, e)
      \/ /\ e.type \notin {"ProcessCreate", "ProcessDestroy"} /\ UNCHANGED <<rpc, rcv>>
         /\ evq' = Append(evq, e)
         /\ late' = IF Reported(PidOf[e.h]) THEN late \cup {PidOf[e.h]} ELSE late
  BY DEF Receive
<1>3. HandledEvent(e) /\ (e.type \in {"ProcessCreate", "ProcessDestroy"} => e \in ProcessEvents)
  BY <1>1, ReceivedHandled
<1>4. ASSUME NEW p \in Pids
      PROVE  /\ Silent(chan, p) <=> ~Concerns(e, p) /\ Silent(chan, p)'
             /\ Ended(chan, p) <=> Ended(chan, p)' \/ (CleansUp(e, p) /\ Silent(chan, p)')
             /\ Stays(chan, p) <=> ~CleansUp(e, p) /\ Stays(chan, p)'
             /\ Joined(chan, p) <=> Joined(chan, p)' \/ (Connects(e, p) /\ Stays(chan, p)')
             /\ JoinsFirst(chan, p) /\ ~Connects(e, p)
                  => ~Concerns(e, p) /\ JoinsFirst(chan, p)'
  BY <1>1, ChannelTail
<1> HIDE DEF e
<1> SUFFICES ASSUME NEW p \in Pids PROVE Watched(p)' /\ Followed(p)'
  OBVIOUS
<1>5. Watched(p) /\ Followed(p)
  BY DEF DeathInv
<1>6. Watched(p)'
  BY <1>1, <1>2, <1>5 DEF Watched, Reporting, Serves
<1>7. CASE e.type = "ProcessCreate"
  <2>1. rpc' = "terminated" /\ rcv' = e /\ late' = late
        /\ evq' = Append(evq, ProcessEvent("ProcessDestroy", e.p)) /\ e.p \in Pids
    BY <1>2, <1>3, <1>7 DEF ProcessEvents
  <2>2. Gone(p)' <=> p = e.p \/ Gone(p)
    BY <1>1, <2>1, GoneAppend, ProcessEventConcerns
  <2>3. ~CleansUp(e, p) /\ (Connects(e, p) <=> p = e.p) /\ (Concerns(e, p) <=> p = e.p)
    BY <1>7 DEF CleansUp, Connects, Concerns
  <2>4. \A R : ("recv" \notin R => ~Serves(p, R)) /\ (Serves(p, R)' <=> p = e.p /\ "terminated" \in R)
    BY <1>1, <2>1 DEF Serves
  <2>5. Followed(p)'
    BY <1>1, <1>4, <1>5, <2>1, <2>2, <2>3, <2>4 DEF Followed
  <2> QED BY <1>6, <2>5
<1>8. CASE e.type = "ProcessDestroy"
  <2>1. rpc' = "clean" /\ rcv' = e /\ late' = late /\ evq' = Append(evq, e) /\ e.p \in Pids
    BY <1>2, <1>3, <1>8 DEF ProcessEvents
  <2>2. (CleansUp(e, p) <=> p = e.p) /\ ~Connects(e, p) /\ (Concerns(e, p) <=> p = e.p)
    BY <1>8 DEF CleansUp, Connects, Concerns
  <2>3. Gone(p)' <=> p = e.p \/ Gone(p)
    BY <1>1, <2>1, <2>2, GoneAppend
  <2>4. \A R : ("recv" \notin R => ~Serves(p, R)) /\ (Serves(p, R)' <=> p = e.p /\ "clean" \in R)
    BY <1>1, <2>1 DEF Serves
  <2>5. Followed(p)'
    BY <1>1, <1>4, <1>5, <2>1, <2>2, <2>3, <2>4 DEF Followed
  <2> QED BY <1>6, <2>5
<1>9. CASE e.type \notin {"ProcessCreate", "ProcessDestroy"}
  <2>1. UNCHANGED <<rpc, rcv>> /\ evq' = Append(evq, e)
        /\ late' = IF Reported(PidOf[e.h]) THEN late \cup {PidOf[e.h]} ELSE late
    BY <1>2, <1>9
  <2>2. ~CleansUp(e, p) /\ ~Connects(e, p) /\ (Concerns(e, p) => p = PidOf[e.h])
    BY <1>9 DEF CleansUp, Connects, Concerns
  <2>3. Gone(p)' <=> ~Concerns(e, p) /\ Gone(p)
    BY <1>1, <2>1, <2>2, GoneAppend
  <2>4. \A R : ("recv" \notin R => ~Serves(p, R)) /\ (Serves(p, R)' <=> Serves(p, R))
    BY <1>1, <2>1 DEF Serves
  <2>5. client[p] = "dead" /\ Concerns(e, p) => p \in late' \/ p \in pidFds \/ wpid = <<p, 1>>
    BY <2>1, <2>2 DEF Reported
  <2>6. Followed(p)'
    BY <1>1, <1>4, <1>5, <2>1, <2>2, <2>3, <2>4, <2>5 DEF Followed
  <2> QED BY <1>6, <2>6
<1> QED BY <1>7, <1>8, <1>9

\* RecvWorker watches a new process, opens its channel, announces it to the
\* scheduler, and cleans up after one that is gone.
LEMMA RecvKeepsDeath ==
  ASSUME DeathInv, RecvWorker
  PROVE  DeathInv'
<1> DEFINE q == rcv.p
<1>1. ServerInv /\ ServerInv' /\ ClientsOK
  BY RecvKeepsInv DEF DeathInv
<1>2. UNCHANGED <<batch, status, wpc, final, wpid, client, ops>>
  BY DEF RecvWorker, Receive, CleanUpProcess, OpenChannel, AddWait, PassOn, RecvUnchanged,
         schedVars, waitVars, clientVars
<1>3. ThreadOK' /\ OrdersOK'
  BY <1>2 DEF DeathInv, ThreadOK, BatchDone, OrdersOK
<1>4. rpc # "recv" => q \in Pids /\ rcv \in ProcessEvents
  BY <1>1 DEF ServerInv, ThreadsOK, ProcessEvents
<1>5. ClientsOK'
  <2>1. CASE Receive
    BY <1>1, <1>2, <2>1 DEF Receive, ClientsOK, Places, waitVars
  <2>2. CASE CleanUpProcess \/ OpenChannel
    BY <1>1, <1>2, <1>4, <2>2 DEF CleanUpProcess, OpenChannel, ClientsOK, Places, waitVars
  <2>3. CASE AddWait \/ PassOn
    BY <1>1, <1>2, <1>4, <2>3 DEF AddWait, PassOn, ClientsOK, Places, waitVars
  <2> QED BY <2>1, <2>2, <2>3 DEF RecvWorker
<1>6. ASSUME NEW p \in Pids, ~Receive PROVE Watched(p)' /\ Followed(p)'
  <2>0. Watched(p) /\ Followed(p)
    BY DEF DeathInv
  <2>1. chan' = chan
    BY <1>6 DEF RecvWorker, CleanUpProcess, OpenChannel, AddWait, PassOn
  <2>2. /\ Silent(chan, p)' <=> Silent(chan, p)
        /\ Ended(chan, p)' <=> Ended(chan, p)
        /\ Stays(chan, p)' <=> Stays(chan, p)
        /\ Joined(chan, p)' <=> Joined(chan, p)
        /\ JoinsFirst(chan, p)' <=> JoinsFirst(chan, p)
    BY <2>1, ChannelSame
  <2>3. CASE CleanUpProcess
    <3>1. /\ rpc \in {"clean", "terminated"} /\ chans' = chans \ {q}
          /\ UNCHANGED <<evq, pidFds, epoll, late>>
          /\ IF rpc = "clean" THEN rpc' = "recv" ELSE rpc' = "open" /\ rcv' = rcv
      BY <2>3 DEF CleanUpProcess, waitVars
    <3>2. Gone(p)' <=> Gone(p)
      BY <1>2, <3>1, GoneSame
    <3>3. Watched(p)'
      BY <1>2, <2>0, <3>1 DEF Watched, Reporting, Serves
    <3>4. Followed(p)'
      BY <1>2, <2>0, <2>2, <3>1, <3>2 DEF Followed, Serves
    <3> QED BY <3>3, <3>4
  <2>4. CASE OpenChannel
    <3>1. /\ rpc = "open" /\ chans' = chans \cup {q} /\ rpc' = "wait" /\ rcv' = rcv
          /\ UNCHANGED <<evq, pidFds, epoll, late>>
      BY <2>4 DEF OpenChannel, waitVars
    <3>2. Gone(p)' <=> Gone(p)
      BY <1>2, <3>1, GoneSame
    <3>3. Watched(p)'
      BY <1>2, <2>0, <3>1 DEF Watched, Reporting, Serves
    <3>4. Followed(p)'
      BY <1>2, <2>0, <2>2, <3>1, <3>2 DEF Followed, Serves
    <3> QED BY <3>3, <3>4
  <2>5. CASE AddWait /\ client[q] # "dead"
    <3>1. /\ rpc = "wait" /\ rpc' = "pass" /\ rcv' = rcv
          /\ pidFds' = pidFds \cup {q} /\ epoll' = [epoll EXCEPT ![q] = @ + 1]
          /\ UNCHANGED <<evq, chans, late>>
      BY <2>5 DEF AddWait
    <3>2. Gone(p)' <=> Gone(p)
      BY <1>2, <3>1, GoneSame
    <3>3. epoll[p] \in Nat /\ epoll'[p] = IF p = q THEN epoll[p] + 1 ELSE epoll[p]
      BY <1>1, <3>1 DEF ClientsOK
    <3>4. Watched(p)'
      BY <1>2, <2>0, <2>5, <3>1, <3>3 DEF Watched, Reporting, Serves
    <3>5. Followed(p)'
      BY <1>2, <2>0, <2>2, <3>1, <3>2 DEF Followed, Serves
    <3> QED BY <3>4, <3>5
  <2>6. CASE AddWait /\ client[q] = "dead"
    <3>1. /\ rpc = "wait" /\ rpc' = "pass" /\ rcv' = rcv /\ chans' = chans \ {q}
          /\ evq' = Append(evq, ProcessEvent("ProcessDestroy", q)) /\ late' = late \cup {q}
          /\ UNCHANGED <<pidFds, epoll>>
      BY <2>6 DEF AddWait
    <3>2. Gone(p)' <=> p = q \/ Gone(p)
      BY <1>1, <1>2, <1>4, <3>1, GoneAppend, ProcessEventConcerns
    <3>3. Watched(p)'
      BY <1>2, <2>0, <2>6, <3>1 DEF Watched, Reporting, Serves
    <3>4. Followed(p)'
      BY <1>2, <2>0, <2>2, <2>6, <3>1, <3>2 DEF Followed, Serves
    <3> QED BY <3>3, <3>4
  <2>7. CASE PassOn
    <3>1. /\ rpc = "pass" /\ rpc' = "recv" /\ evq' = Append(evq, rcv)
          /\ late' = IF Reported(q) THEN late \cup {q} ELSE late
          /\ UNCHANGED <<chans, pidFds, epoll>>
      BY <2>7 DEF PassOn, waitVars
    <3>2. ~CleansUp(rcv, p) /\ (Concerns(rcv, p) <=> p = q)
      BY <1>1, <3>1 DEF ClientsOK, CleansUp, Concerns
    <3>3. Gone(p)' <=> p # q /\ Gone(p)
      BY <1>1, <1>2, <3>1, <3>2, GoneAppend
    <3>4. Watched(p)'
      BY <1>2, <2>0, <3>1 DEF Watched, Reporting, Serves
    <3>5. client[q] = "dead" => q \in late' \/ q \in pidFds \/ wpid = <<q, 1>>
      BY <3>1 DEF Reported
    <3>6. p = q => Serves(p, {"pass"}) /\ Serves(p, {"terminated", "open", "wait", "pass"})
      BY <3>1 DEF Serves
    <3>7. Followed(p)'
      <4>1. CASE p = q
        BY <1>2, <2>0, <2>2, <3>1, <3>3, <3>5, <3>6, <4>1 DEF Followed, Serves, Watched
      <4>2. CASE p # q
        BY <1>2, <2>0, <2>2, <3>1, <3>3, <4>2 DEF Followed, Serves
      <4> QED BY <4>1, <4>2
    <3> QED BY <3>4, <3>7
  <2> QED BY <1>6, <2>3, <2>4, <2>5, <2>6, <2>7 DEF RecvWorker
<1>7. \A p \in Pids : Watched(p)' /\ Followed(p)'
  BY <1>6, ReceiveKeepsDeath
<1> QED BY <1>1, <1>3, <1>5, <1>7 DEF DeathInv

\* WaitWorker notices a death, marks the process terminated and reports it.
LEMMA WaitKeepsDeath ==
  ASSUME DeathInv, WaitWorker
  PROVE  DeathInv'
<1>1. ServerInv /\ ServerInv' /\ ClientsOK
  BY WaitKeepsInv DEF DeathInv
<1>2. UNCHANGED <<batch, status, wpc, final, chan, rpc, rcv, client, ops, late>>
  BY DEF WaitWorker, Wake, ReportDeath, CleanUpDead, WaitUnchanged, schedVars, recvVars,
         clientVars
<1>3. ThreadOK' /\ OrdersOK'
  BY <1>2 DEF DeathInv, ThreadOK, BatchDone, OrdersOK
<1>4. ASSUME NEW p \in Pids
      PROVE  /\ Watched(p) /\ Followed(p)
             /\ Silent(chan, p)' <=> Silent(chan, p)
             /\ Ended(chan, p)' <=> Ended(chan, p)
             /\ Stays(chan, p)' <=> Stays(chan, p)
             /\ Joined(chan, p)' <=> Joined(chan, p)
             /\ JoinsFirst(chan, p)' <=> JoinsFirst(chan, p)
  BY <1>2, ChannelSame DEF DeathInv
<1>5. ASSUME NEW r \in Pids, Wake(r)
      PROVE  ClientsOK' /\ \A p \in Pids : Watched(p)' /\ Followed(p)'
  <2>1. /\ wpid = <<>> /\ client[r] = "dead" /\ epoll[r] > 0 /\ UNCHANGED <<evq, chans>>
        /\ \/ /\ pidFds' = pidFds \ {r} /\ epoll' = [epoll EXCEPT ![r] = @ - 1]
              /\ wpid' = <<r, 1>>
           \/ UNCHANGED <<pidFds, epoll, wpid>>
    BY <1>5 DEF Wake, waitVars
  <2>2. ClientsOK'
    BY <1>1, <1>2, <2>1 DEF ClientsOK
  <2>3. ASSUME NEW p \in Pids PROVE Watched(p)' /\ Followed(p)'
    <3>1. Gone(p)' <=> Gone(p)
      BY <1>2, <2>1, GoneSame
    <3>2. /\ epoll[p] \in Nat
          /\ \/ UNCHANGED <<pidFds, epoll, wpid>>
             \/ /\ epoll'[p] = IF p = r THEN epoll[p] - 1 ELSE epoll[p]
                /\ pidFds' = pidFds \ {r} /\ wpid' = <<r, 1>> /\ wpid'[1] = r /\ wpid' # <<>>
      <4>1. epoll \in [Pids -> Nat]
        BY <1>1 DEF ClientsOK
      <4>2. wpid' = <<r, 1>> => wpid'[1] = r /\ wpid' # <<>>
        OBVIOUS
      <4> QED BY <2>1, <4>1, <4>2
    <3>3. Watched(p)'
      BY <1>2, <1>4, <2>1, <3>2 DEF Watched, Reporting, Serves
    <3>4. Followed(p)'
      BY <1>2, <1>4, <2>1, <3>1, <3>2 DEF Followed, Serves
    <3> QED BY <3>3, <3>4
  <2> QED BY <2>2, <2>3
<1>6. ASSUME ReportDeath
      PROVE  ClientsOK' /\ \A p \in Pids : Watched(p)' /\ Followed(p)'
  <2> DEFINE r == wpid[1]
  <2>1. /\ wpid # <<>> /\ wpid[2] = 1 /\ r \in Pids
        /\ evq' = Append(evq, ProcessEvent("ProcessDestroy", r))
        /\ wpid' = <<r, 2>> /\ UNCHANGED <<chans, pidFds, epoll>>
    BY <1>1, <1>6 DEF ReportDeath, ServerInv, ThreadsOK
  <2>2. wpid' # <<>> /\ wpid'[1] = r
    BY <2>1
  <2> HIDE DEF r
  <2>3. ClientsOK'
    BY <1>1, <1>2, <2>1 DEF ClientsOK
  <2>4. ASSUME NEW p \in Pids PROVE Watched(p)' /\ Followed(p)'
    <3>1. Gone(p)' <=> p = r \/ Gone(p)
      BY <1>1, <1>2, <2>1, GoneAppend, ProcessEventConcerns
    <3>2. Reporting(p)' <=> Reporting(p)
      BY <2>1, <2>2 DEF Reporting, r
    <3>3. wpid = <<p, 1>> => p = r
      BY DEF r
    <3>4. p = r => client[p] = "dead"
      BY <1>4, <2>1 DEF Watched, Reporting, r
    <3>5. Watched(p)'
      BY <1>2, <1>4, <2>1, <3>2 DEF Watched, Serves
    <3>6. Followed(p)'
      BY <1>2, <1>4, <2>1, <3>1, <3>3, <3>4 DEF Followed, Serves
    <3> QED BY <3>5, <3>6
  <2> QED BY <2>3, <2>4
<1>7. ASSUME CleanUpDead
      PROVE  ClientsOK' /\ \A p \in Pids : Watched(p)' /\ Followed(p)'
  <2> DEFINE r == wpid[1]
  <2>1. /\ wpid # <<>> /\ wpid[2] = 2 /\ r \in Pids /\ chans' = chans \ {r}
        /\ wpid' = <<>> /\ UNCHANGED <<evq, pidFds, epoll>>
    BY <1>1, <1>7 DEF CleanUpDead, ServerInv, ThreadsOK
  <2> HIDE DEF r
  <2>2. ClientsOK'
    BY <1>1, <1>2, <2>1 DEF ClientsOK
  <2>3. ASSUME NEW p \in Pids PROVE Watched(p)' /\ Followed(p)'
    <3>1. Gone(p)' <=> Gone(p)
      BY <1>2, <2>1, GoneSame
    <3>2. wpid # <<p, 1>> /\ ~Reporting(p)' /\ (Reporting(p) => p = r)
      BY <2>1 DEF Reporting, r
    <3>3. p = r => client[p] = "dead"
      BY <1>4, <2>1 DEF Watched, Reporting, r
    <3>4. Watched(p)'
      BY <1>2, <1>4, <2>1, <3>2, <3>3 DEF Watched, Serves
    <3>5. Followed(p)'
      BY <1>2, <1>4, <2>1, <3>1, <3>2, <3>3 DEF Followed, Serves
    <3> QED BY <3>4, <3>5
  <2> QED BY <2>2, <2>3
<1> QED BY <1>1, <1>3, <1>5, <1>6, <1>7 DEF WaitWorker, DeathInv

-----------------------------------------------------------------------------
(* The clients                                                             *)

\* The first message of a connected client that is not watched yet has been
\* sent before, so what it sends is not the first.
LEMMA UpSaid ==
  ASSUME NEW p \in Pids, Watched(p), Followed(p), client[p] = "up", p \notin pidFds
  PROVE  Serves(p, {"terminated", "open", "wait"}) \/ (JoinsFirst(chan, p) /\ Joined(chan, p))
BY DEF Watched, Followed, Serves, Reporting

\* A client joins, leaves, dies, or says something.
LEMMA ClientKeepsDeath ==
  ASSUME DeathInv, ClientNext
  PROVE  DeathInv'
<1>1. ServerInv /\ ServerInv' /\ ClientsOK /\ OrdersOK
  BY ClientKeepsInv DEF DeathInv
<1>2. UNCHANGED <<evq, batch, status, wpc, final, rpc, rcv, chans, pidFds, epoll, wpid, late>>
  <2>1. ASSUME NEW h \in Handles,
               ClientCreate(h) \/ ClientReady(h) \/ ClientIdle(h) \/ ClientDel(h)
                 \/ ClientDestroy(h)
        PROVE  UNCHANGED <<evq, batch, status, wpc, final, rpc, rcv, chans, pidFds, epoll,
                           wpid, late>>
    BY <2>1 DEF ClientCreate, ClientReady, ClientIdle, ClientDel, ClientDestroy,
                QueueUnchanged, schedVars, waitVars
  <2>2. ASSUME NEW p \in Pids, Join(p) \/ Leave(p) \/ Perform(p) \/ Die(p)
        PROVE  UNCHANGED <<evq, batch, status, wpc, final, rpc, rcv, chans, pidFds, epoll,
                           wpid, late>>
    BY <2>2 DEF Join, Leave, Perform, Die, schedVars, waitVars, recvVars
  <2> QED BY <2>1, <2>2 DEF ClientNext
<1>3. ThreadOK'
  BY <1>2 DEF DeathInv, ThreadOK, BatchDone
<1>4. ASSUME NEW p \in Pids
      PROVE  Watched(p) /\ Followed(p) /\ (Gone(p)' <=> Gone(p))
  BY <1>2, GoneSame DEF DeathInv
<1>5. \A p \in Pids : \A R : Serves(p, R)' <=> Serves(p, R)
  BY <1>2 DEF Serves
<1>6. \A p \in Pids : Reporting(p)' <=> Reporting(p)
  BY <1>2 DEF Reporting
<1> DEFINE Kept == ClientsOK' /\ OrdersOK' /\ \A p \in Pids : Watched(p)' /\ Followed(p)'
<1>7. ASSUME NEW h \in Handles,
             ClientCreate(h) \/ ClientReady(h) \/ ClientIdle(h) \/ ClientDestroy(h)
      PROVE  Kept
  <2>1. PICK e \in {CreateEvent(h), ReadyEvent(h), IdleEvent(h), DestroyEvent(h)} :
          chan' = Append(chan, e)
    BY <1>7 DEF ClientCreate, ClientReady, ClientIdle, ClientDestroy, Tell
  <2>2. client[PidOf[h]] = "up" /\ UNCHANGED <<client, ops>>
    BY <1>7 DEF ClientCreate, ClientReady, ClientIdle, ClientDestroy, Up, QueueUnchanged,
                clientVars
  <2>3. ClientsOK' /\ OrdersOK'
    BY <1>1, <1>2, <2>2 DEF ClientsOK, OrdersOK
  <2>4. ASSUME NEW p \in Pids PROVE Watched(p)' /\ Followed(p)'
    <3>1. ~CleansUp(e, p) /\ ~Connects(e, p) /\ (Concerns(e, p) <=> p = PidOf[h])
      BY <2>1 DEF CleansUp, Connects, Concerns, CreateEvent, ReadyEvent, IdleEvent, DestroyEvent
    <3>2. /\ Silent(chan, p)' <=> Silent(chan, p) /\ ~Concerns(e, p)
          /\ Ended(chan, p)' <=> CleansUp(e, p) \/ (Ended(chan, p) /\ ~Concerns(e, p))
          /\ Stays(chan, p)' <=> Stays(chan, p) /\ ~CleansUp(e, p)
          /\ Joined(chan, p)' <=> Connects(e, p) \/ (Joined(chan, p) /\ ~CleansUp(e, p))
          /\ JoinsFirst(chan, p) /\ (Concerns(e, p) => Connects(e, p) \/ Joined(chan, p))
               => JoinsFirst(chan, p)'
      BY <1>1, <2>1, ChannelAppend
    <3>3. Watched(p)'
      BY <1>2, <1>4, <1>5, <1>6, <2>2 DEF Watched
    <3>4. client[p] = "up" /\ p \notin pidFds =>
            \/ Serves(p, {"terminated", "open", "wait"})
            \/ JoinsFirst(chan, p) /\ Joined(chan, p)
      BY <1>4, UpSaid
    <3>5. Followed(p)'
      BY <1>2, <1>4, <1>5, <2>2, <3>1, <3>2, <3>4 DEF Followed
    <3> QED BY <3>3, <3>5
  <2> QED BY <2>3, <2>4
<1>8. ASSUME NEW h \in Handles, ClientDel(h) PROVE Kept
  <2>1. UNCHANGED <<chan, client, ops>>
    BY <1>8 DEF ClientDel, QueueUnchanged, clientVars
  <2>2. ClientsOK' /\ OrdersOK'
    BY <1>1, <1>2, <2>1 DEF ClientsOK, OrdersOK
  <2> QED BY <1>2, <1>4, <2>1, <2>2, FollowedSame
<1>9. ASSUME NEW r \in Pids, Join(r) PROVE Kept
  <2> DEFINE e == ProcessEvent("ProcessCreate", r)
  <2>1. /\ chan' = Append(chan, e) /\ client[r] = "off"
        /\ client' = [client EXCEPT ![r] = "up"] /\ ops' = ops
    BY <1>9 DEF Join, Tell
  <2>2. ClientsOK' /\ OrdersOK'
    BY <1>1, <1>2, <2>1 DEF ClientsOK, OrdersOK
  <2>3. ASSUME NEW p \in Pids PROVE Watched(p)' /\ Followed(p)'
    <3>1. ~CleansUp(e, p) /\ (Connects(e, p) <=> p = r) /\ (Concerns(e, p) <=> p = r)
      BY ProcessEventConcerns
    <3> HIDE DEF e
    <3>2. /\ Silent(chan, p)' <=> Silent(chan, p) /\ ~Concerns(e, p)
          /\ Ended(chan, p)' <=> CleansUp(e, p) \/ (Ended(chan, p) /\ ~Concerns(e, p))
          /\ Stays(chan, p)' <=> Stays(chan, p) /\ ~CleansUp(e, p)
          /\ Joined(chan, p)' <=> Connects(e, p) \/ (Joined(chan, p) /\ ~CleansUp(e, p))
          /\ JoinsFirst(chan, p) /\ (Concerns(e, p) => Connects(e, p) \/ Joined(chan, p))
               => JoinsFirst(chan, p)'
      BY <1>1, <2>1, ChannelAppend
    <3>3. client'[p] = IF p = r THEN "up" ELSE client[p]
      BY <1>1, <2>1 DEF ClientsOK
    <3>4. Watched(p)'
      BY <1>2, <1>4, <1>5, <1>6, <2>1, <3>3 DEF Watched
    <3>5. Followed(p)'
      BY <1>2, <1>4, <1>5, <2>1, <3>1, <3>2, <3>3 DEF Followed
    <3> QED BY <3>4, <3>5
  <2> QED BY <2>2, <2>3
<1>10. ASSUME NEW r \in Pids, Leave(r) PROVE Kept
  <2> DEFINE e == ProcessEvent("ProcessDestroy", r)
  <2>1. /\ chan' = Append(chan, e) /\ client[r] = "up"
        /\ client' = [client EXCEPT ![r] = "leaving"]
        /\ ops' = [ops EXCEPT ![r] = Append(@, TerminateOperation)]
    BY <1>10 DEF Leave, Tell
  <2>2. ClientsOK'
    BY <1>1, <1>2, <2>1 DEF ClientsOK
  <2>3. OrdersOK'
    BY <1>1, <2>1 DEF ClientsOK, OrdersOK
  <2>4. ASSUME NEW p \in Pids PROVE Watched(p)' /\ Followed(p)'
    <3>1. ~Connects(e, p) /\ (CleansUp(e, p) <=> p = r) /\ (Concerns(e, p) <=> p = r)
      BY ProcessEventConcerns
    <3> HIDE DEF e
    <3>2. /\ Silent(chan, p)' <=> Silent(chan, p) /\ ~Concerns(e, p)
          /\ Ended(chan, p)' <=> CleansUp(e, p) \/ (Ended(chan, p) /\ ~Concerns(e, p))
          /\ Stays(chan, p)' <=> Stays(chan, p) /\ ~CleansUp(e, p)
          /\ Joined(chan, p)' <=> Connects(e, p) \/ (Joined(chan, p) /\ ~CleansUp(e, p))
          /\ JoinsFirst(chan, p) /\ (Concerns(e, p) => Connects(e, p) \/ Joined(chan, p))
               => JoinsFirst(chan, p)'
      BY <1>1, <2>1, ChannelAppend
    <3>3. client'[p] = IF p = r THEN "leaving" ELSE client[p]
      BY <1>1, <2>1 DEF ClientsOK
    <3>4. Watched(p)'
      BY <1>2, <1>4, <1>5, <1>6, <2>1, <3>3 DEF Watched
    <3>5. client[p] = "up" /\ p \notin pidFds =>
            \/ Serves(p, {"terminated", "open", "wait"})
            \/ JoinsFirst(chan, p) /\ Joined(chan, p)
      BY <1>4, UpSaid
    <3>6. Followed(p)'
      BY <1>2, <1>4, <1>5, <2>1, <3>1, <3>2, <3>3, <3>5 DEF Followed
    <3> QED BY <3>4, <3>6
  <2> QED BY <2>2, <2>3, <2>4
<1>11. ASSUME NEW r \in Pids, Perform(r) PROVE Kept
  <2>1. /\ client[r] \in {"up", "leaving"} /\ ops[r] # <<>> /\ chan' = chan
        /\ \/ /\ Head(ops[r]).type = "Sched"
              /\ ops' = [ops EXCEPT ![r] = Tail(@)] /\ client' = client
           \/ /\ Head(ops[r]).type = "Terminate"
              /\ ops' = [ops EXCEPT ![r] = <<>>] /\ client' = [client EXCEPT ![r] = "off"]
    BY <1>11 DEF Perform, recvVars
  <2>2. CASE /\ Head(ops[r]).type = "Sched"
             /\ ops' = [ops EXCEPT ![r] = Tail(@)] /\ client' = client
    <3>1. ClientsOK'
      BY <1>1, <1>2, <2>2 DEF ClientsOK
    <3>2. OrdersOK'
      <4>1. client[r] # "leaving" => Tail(ops[r]) \in Seq(Orders(r))
        BY <1>1, <2>1 DEF OrdersOK
      <4> QED BY <1>1, <2>2, <4>1 DEF OrdersOK
    <3> QED BY <1>2, <1>4, <2>1, <2>2, <3>1, <3>2, FollowedSame
  <2>3. CASE /\ Head(ops[r]).type = "Terminate"
             /\ ops' = [ops EXCEPT ![r] = <<>>] /\ client' = [client EXCEPT ![r] = "off"]
    <3>1. client[r] = "leaving"
      <4>1. ASSUME client[r] = "up" PROVE FALSE
        <5>1. ops[r] \in Seq(Orders(r))
          BY <1>1, <4>1 DEF OrdersOK
        <5>2. Head(ops[r]) \in Orders(r)
          BY <2>1, <5>1
        <5> QED BY <2>3, <5>2 DEF Orders
      <4> QED BY <2>1, <4>1
    <3>2. ClientsOK' /\ OrdersOK'
      BY <1>1, <1>2, <2>3 DEF ClientsOK, OrdersOK
    <3>3. ASSUME NEW p \in Pids PROVE Watched(p)' /\ Followed(p)'
      <4>1. client'[p] = IF p = r THEN "off" ELSE client[p]
        BY <1>1, <2>3 DEF ClientsOK
      <4>2. /\ Silent(chan, p)' <=> Silent(chan, p)
            /\ Ended(chan, p)' <=> Ended(chan, p)
            /\ Stays(chan, p)' <=> Stays(chan, p)
            /\ Joined(chan, p)' <=> Joined(chan, p)
            /\ JoinsFirst(chan, p)' <=> JoinsFirst(chan, p)
        BY <2>1, ChannelSame
      <4>3. Watched(p)'
        BY <1>2, <1>4, <1>5, <1>6, <3>1, <4>1 DEF Watched
      <4>4. Followed(p)'
        BY <1>2, <1>4, <1>5, <3>1, <4>1, <4>2 DEF Followed
      <4> QED BY <4>3, <4>4
    <3> QED BY <3>2, <3>3
  <2> QED BY <2>1, <2>2, <2>3
<1>12. ASSUME NEW r \in Pids, Die(r) PROVE Kept
  <2>1. /\ chan' = chan /\ client[r] # "dead" /\ client' = [client EXCEPT ![r] = "dead"]
        /\ ops' = [ops EXCEPT ![r] = <<>>]
    BY <1>12 DEF Die, recvVars
  <2>2. ClientsOK' /\ OrdersOK'
    BY <1>1, <1>2, <2>1 DEF ClientsOK, OrdersOK
  <2>3. ASSUME NEW p \in Pids PROVE Watched(p)' /\ Followed(p)'
    <3>1. client'[p] = IF p = r THEN "dead" ELSE client[p]
      BY <1>1, <2>1 DEF ClientsOK
    <3>2. /\ Silent(chan, p)' <=> Silent(chan, p)
          /\ Ended(chan, p)' <=> Ended(chan, p)
          /\ Stays(chan, p)' <=> Stays(chan, p)
          /\ Joined(chan, p)' <=> Joined(chan, p)
          /\ JoinsFirst(chan, p)' <=> JoinsFirst(chan, p)
      BY <2>1, ChannelSame
    <3>3. Watched(p)'
      BY <1>2, <1>4, <1>5, <1>6, <3>1 DEF Watched
    <3>4. Followed(p)'
      BY <1>2, <1>4, <1>5, <2>1, <3>1, <3>2 DEF Followed
    <3> QED BY <3>3, <3>4
  <2> QED BY <2>2, <2>3
<1>13. Kept
  BY <1>7, <1>8, <1>9, <1>10, <1>11, <1>12 DEF ClientNext
<1> QED BY <1>1, <1>3, <1>13 DEF DeathInv

\* In the beginning the connected clients are watched, and the others unknown.
LEMMA DeathInit == ServerInit => DeathInv
<1> SUFFICES ASSUME ServerInit PROVE DeathInv
  OBVIOUS
<1>1. ServerInv
  BY ServerInitInv
<1>2. PICK J \in Joined0 :
        /\ J \subseteq Pids
        /\ evq = <<>> /\ batch = <<>> /\ chan = <<>> /\ rpc = "recv" /\ wpid = <<>>
        /\ wpc = "wait" /\ final = FALSE
        /\ status = [StatusWith({h \in Existing : PidOf[h] \in J}) EXCEPT !.procs = J]
        /\ chans = J /\ pidFds = J /\ epoll = [p \in Pids |-> IF p \in J THEN 1 ELSE 0]
        /\ client = [p \in Pids |-> IF p \in J THEN "up" ELSE "off"]
        /\ ops = [p \in Pids |-> <<>>]
  BY ServerAssumption DEF ServerInit
<1>3. ThreadOK
  BY <1>2 DEF ThreadOK, BatchDone
<1>4. ClientsOK /\ OrdersOK
  BY <1>2 DEF ClientsOK, OrdersOK, Places
<1>5. status.procs = J
  BY <1>2 DEF StatusWith
<1>6. ASSUME NEW p \in Pids PROVE Watched(p) /\ Followed(p)
  <2>1. /\ Silent(<<>>, p) /\ ~Ended(<<>>, p) /\ Stays(<<>>, p) /\ ~Joined(<<>>, p)
        /\ JoinsFirst(<<>>, p)
    BY SaidNothing
  <2>2. p \notin J => Gone(p)
    BY <1>2, <1>5, <2>1 DEF Gone
  <2>3. /\ client[p] = IF p \in J THEN "up" ELSE "off"
        /\ epoll[p] = IF p \in J THEN 1 ELSE 0
    BY <1>2
  <2>4. Watched(p)
    BY <1>2, <2>3 DEF Watched, Serves, Reporting
  <2>5. Followed(p)
    BY <1>2, <2>1, <2>2, <2>3 DEF Followed, Serves
  <2> QED BY <2>4, <2>5
<1> QED BY <1>1, <1>3, <1>4, <1>6 DEF DeathInv

\* Every step of the server and its clients keeps the invariant.
LEMMA DeathNext == DeathInv /\ [ServerNext]_allVars => DeathInv'
<1> SUFFICES ASSUME DeathInv, [ServerNext]_allVars PROVE DeathInv'
  OBVIOUS
<1>1. ServerInv /\ ServerInv' /\ ThreadOK /\ ClientsOK /\ OrdersOK
        /\ \A p \in Pids : Watched(p) /\ Followed(p)
  BY ServerNextInv DEF DeathInv
<1>2. ASSUME NEW p \in Pids, Execute(p) PROVE DeathInv'
  <2>1. /\ UNCHANGED <<evq, batch, status, wpc, final, chan, rpc, rcv, chans, pidFds, epoll,
                       wpid, client, late>>
        /\ \/ ops' = ops
           \/ ops' = [ops EXCEPT ![p] = Append(@, [type |-> "Sched", run |-> status.running[p],
                                                   stop |-> status.stopped[p]])]
    BY <1>2 DEF Execute, waitVars, recvVars, clientVars
  <2>2. ThreadOK' /\ ClientsOK'
    BY <1>1, <2>1 DEF ThreadOK, BatchDone, ClientsOK
  <2>3. OrdersOK'
    <3> DEFINE o == [type |-> "Sched", run |-> status.running[p], stop |-> status.stopped[p]]
    <3>1. status \in Status /\ Consistent(status)
      BY <1>1 DEF ServerInv, GoodStatus
    <3>2. o \in Orders(p)
      BY <3>1 DEF Orders, Status, Consistent
    <3> HIDE DEF o
    <3>3. client[p] # "leaving" => Append(ops[p], o) \in Seq(Orders(p))
      BY <1>1, <3>2 DEF OrdersOK
    <3>4. ops' = ops \/ ops' = [ops EXCEPT ![p] = Append(@, o)]
      BY <2>1 DEF o
    <3> QED BY <1>1, <2>1, <3>3, <3>4 DEF OrdersOK
  <2>4. \A r \in Pids : Watched(r)' /\ Followed(r)'
    BY <1>1, <2>1, GoneSame, FollowedSame
  <2> QED BY <1>1, <2>2, <2>3, <2>4 DEF DeathInv
<1>3. ASSUME NEW e, PostHint(e) PROVE DeathInv'
  <2> DEFINE x == [type |-> "Hint", hint |-> e]
  <2>1. /\ UNCHANGED <<batch, status, wpc, final, chan, rpc, rcv, chans, pidFds, epoll,
                       wpid, client, late, ops>>
        /\ evq' = Append(evq, x)
    BY <1>3 DEF PostHint, schedVars, serverVars, recvVars, waitVars, clientVars
  <2>2. \A p : ~CleansUp(x, p) /\ ~Concerns(x, p)
    BY DEF CleansUp, Concerns
  <2> HIDE DEF x
  <2>3. ThreadOK' /\ ClientsOK' /\ OrdersOK'
    BY <1>1, <2>1 DEF ThreadOK, BatchDone, ClientsOK, OrdersOK
  <2>4. \A r \in Pids : Watched(r)' /\ Followed(r)'
    BY <1>1, <2>1, <2>2, GoneAppend, FollowedSame
  <2> QED BY <1>1, <2>3, <2>4 DEF DeathInv
<1>4. CASE UNCHANGED allVars
  <2>1. UNCHANGED <<evq, batch, status, wpc, final, chan, rpc, rcv, chans, pidFds, epoll,
                    wpid, client, late, ops>>
    BY <1>4 DEF allVars, vars, schedVars, serverVars, recvVars, waitVars, clientVars
  <2>2. ThreadOK' /\ ClientsOK' /\ OrdersOK'
    BY <1>1, <2>1 DEF ThreadOK, BatchDone, ClientsOK, OrdersOK
  <2>3. \A r \in Pids : Watched(r)' /\ Followed(r)'
    BY <1>1, <2>1, GoneSame, FollowedSame
  <2> QED BY <1>1, <2>2, <2>3 DEF DeathInv
<1> QED
  BY <1>2, <1>3, <1>4, ClientKeepsDeath, RecvKeepsDeath, WaitKeepsDeath, ScheduleKeepsDeath
  DEF ServerNext

\* When everything has settled, the invariant says it.
LEMMA DeadForgottenNow == DeathInv => DeadForgotten
<1> SUFFICES ASSUME DeathInv, Settled
             PROVE  chans = Alive /\ \A p \in status.procs : p \in Alive \/ p \in late
  BY DEF DeadForgotten
<1>1. /\ chan = <<>> /\ rpc = "recv" /\ wpid = <<>> /\ evq = <<>> /\ batch = <<>>
      /\ \A p \in Pids : client[p] = "dead" => epoll[p] = 0
  BY DEF Settled, Quiet, DeathInv, ThreadOK, BatchDone
<1>2. status.procs \subseteq Pids
  BY DEF DeathInv, ServerInv, GoodStatus, Status
<1>3. ASSUME NEW p \in Pids
      PROVE  /\ p \in chans <=> client[p] = "up"
             /\ client[p] # "up" => p \in late \/ p \notin status.procs
  <2>1. /\ Silent(<<>>, p) /\ ~Ended(<<>>, p) /\ Stays(<<>>, p) /\ ~Joined(<<>>, p)
        /\ JoinsFirst(<<>>, p)
    BY SaidNothing
  <2>2. Watched(p) /\ Followed(p) /\ client[p] \in {"off", "up", "leaving", "dead"}
          /\ epoll[p] \in Nat
    BY DEF DeathInv, ClientsOK
  <2>3. Gone(p) => p \notin status.procs
    BY <1>1, <2>1 DEF Gone
  <2>4. \A R : "recv" \notin R => ~Serves(p, R)
    BY <1>1 DEF Serves
  <2>5. ~Reporting(p) /\ wpid # <<p, 1>>
    BY <1>1 DEF Reporting
  <2>6. client[p] = "dead" => p \notin pidFds /\ p \notin chans
    BY <1>1, <2>2, <2>4, <2>5 DEF Watched
  <2>7. client[p] \in {"off", "leaving"} => p \notin chans /\ Gone(p)
    BY <1>1, <2>1, <2>2, <2>4 DEF Followed
  <2>8. client[p] = "up" => p \in chans
    BY <1>1, <2>1, <2>2, <2>4 DEF Followed
  <2>9. client[p] = "dead" => p \in late \/ Gone(p)
    BY <2>2, <2>5, <2>6 DEF Followed
  <2> QED BY <2>2, <2>3, <2>6, <2>7, <2>8, <2>9
<1>4. chans \subseteq Pids
  BY DEF DeathInv, ClientsOK
<1> QED BY <1>2, <1>3, <1>4 DEF Alive

\* Whatever the clients do, in whatever order they join, leave and die, and
\* however late their last messages arrive: when everything has arrived, the
\* scheduler knows no process that is gone, so none of its queues holds a place
\* (RecvWorker's and WaitWorker's ProcessDestroy, UpdateStatus; server.cpp,
\* pid_waiter.cpp).
THEOREM DeadAreForgotten == ServerSpec => []DeadForgotten
BY DeathInit, DeathNext, DeadForgottenNow, PTL DEF ServerSpec

-----------------------------------------------------------------------------
(* What the events on their way say of a queue                             *)

\* What is said of h before p connects: there is no such queue.
FromNothing(U, q, h) == \A i \in 1..Len(q) : Connects(q[i], PidOf[h]) => U[i - 1] = "none"
Way(U, q, h) == Follows(U, q, h) /\ Announced(U, q, h) /\ FromNothing(U, q, h)

\* V and W hold what is said of h by the events the scheduler has, U by those
\* in the channel of the server.  A queue is what they say in the end if its
\* client is there, or has never been.
Present(p) == client[p] = "up" \/ joins[p] = 0
Heard(V, W, h) ==
  /\ Follows(V, batch, h) /\ Announced(V, batch, h)
  /\ Follows(W, evq, h) /\ Announced(W, evq, h)
  /\ V[0] = ViewOf(status, h) /\ V[Len(batch)] = W[0]
OnTheWay(W, U, h) ==
  /\ Way(U, chan, h) /\ U[0] = W[Len(evq)]
  /\ Serves(PidOf[h], {"terminated", "open"}) => U[0] = "none"
  /\ Present(PidOf[h]) => U[Len(chan)] = Real(h)

\* The events of a process whose death has been reported do not count.
Traces(V, W, U, h) == Heard(V, W, h) /\ (~Reported(PidOf[h]) => OnTheWay(W, U, h))
Tracked(h) == PidOf[h] \notin late => \E V, W, U : Traces(V, W, U, h)

\* A process that has not connected yet has no queues; one that is reported is
\* not watched any more, and only a dead one is late.
ProcessOK(p) ==
  /\ joins[p] = 0 => client[p] = "off" /\ \A h \in Handles : PidOf[h] = p => phase[h] = "none"
  /\ Reporting(p) => p \notin pidFds
  /\ p \in late => client[p] = "dead"
TrackInv ==
  /\ DeathInv /\ QueuesOK /\ joins \in [Pids -> Nat]
  /\ \A p \in Pids : ProcessOK(p)
  /\ \A h \in Handles : Tracked(h)

\* An event is added at the end of a queue, or the first one is taken.
LEMMA WayAppend ==
  ASSUME NEW S, NEW q \in Seq(S), NEW e, NEW h, NEW U, Way(U, q, h),
         e.type \in {"Ready", "Idle"} /\ e.h = h => U[Len(q)] # "none",
         Connects(e, PidOf[h]) => U[Len(q)] = "none"
  PROVE  \E X : /\ Way(X, Append(q, e), h) /\ X[0] = U[0]
                /\ X[Len(Append(q, e))] = After(U[Len(q)], e, h)
<1>1. PICK X : /\ Follows(X, Append(q, e), h)
               /\ X[0] = U[0] /\ X[Len(Append(q, e))] = After(U[Len(q)], e, h)
               /\ \A i \in 0..Len(q) : X[i] = U[i]
               /\ Announced(U, q, h)
                     /\ (e.type \in {"Ready", "Idle"} /\ e.h = h => U[Len(q)] # "none")
                   => Announced(X, Append(q, e), h)
  BY FollowsAppend DEF Way
<1>2. /\ Len(q) \in Nat /\ Len(Append(q, e)) = Len(q) + 1 /\ Append(q, e)[Len(q) + 1] = e
      /\ \A i \in 1..Len(q) : Append(q, e)[i] = q[i]
  BY AppendProperties, LenProperties
<1>3. ASSUME NEW i \in 1..(Len(q) + 1), Connects(Append(q, e)[i], PidOf[h])
      PROVE  X[i - 1] = "none"
  <2>1. CASE i = Len(q) + 1
    BY <1>1, <1>2, <1>3, <2>1
  <2>2. CASE i \in 1..Len(q)
    <3>1. i - 1 \in 0..Len(q) /\ U[i - 1] = "none"
      BY <1>2, <1>3, <2>2 DEF Way, FromNothing
    <3> QED BY <1>1, <3>1
  <2> QED BY <1>2, <2>1, <2>2
<1> QED BY <1>1, <1>2, <1>3 DEF Way, FromNothing

\* The first message is taken; what it says fits what has been said before.
LEMMA WayTail ==
  ASSUME NEW S, NEW q \in Seq(S), q # <<>>, NEW h, NEW U, Way(U, q, h)
  PROVE  /\ Head(q).type \in {"Ready", "Idle"} /\ Head(q).h = h => U[0] # "none"
         /\ Connects(Head(q), PidOf[h]) => U[0] = "none"
         /\ \E X : /\ Way(X, Tail(q), h) /\ X[0] = After(U[0], Head(q), h)
                   /\ X[Len(Tail(q))] = U[Len(q)]
<1>1. PICK X : /\ Follows(X, Tail(q), h)
               /\ X[0] = After(U[0], Head(q), h) /\ X[Len(Tail(q))] = U[Len(q)]
               /\ \A i \in 0..(Len(q) - 1) : X[i] = U[i + 1]
               /\ Announced(U, q, h) => Announced(X, Tail(q), h)
  BY FollowsTail DEF Way
<1>2. /\ Len(q) \in Nat /\ Len(q) > 0 /\ Len(Tail(q)) = Len(q) - 1 /\ Head(q) = q[1]
      /\ \A i \in 1..(Len(q) - 1) : Tail(q)[i] = q[i + 1]
  BY HeadTailProperties, LenProperties, EmptySeq
<1>3. ASSUME NEW i \in 1..(Len(q) - 1), Connects(Tail(q)[i], PidOf[h])
      PROVE  X[i - 1] = "none"
  <2>1. i + 1 \in 1..Len(q) /\ i - 1 \in 0..(Len(q) - 1) /\ (i + 1) - 1 = (i - 1) + 1
    BY <1>2
  <2>2. U[(i + 1) - 1] = "none"
    BY <1>2, <1>3, <2>1 DEF Way, FromNothing
  <2> QED BY <1>1, <2>1, <2>2
<1>4. 1 \in 1..Len(q) /\ U[1 - 1] = U[0]
  BY <1>2
<1> QED BY <1>1, <1>2, <1>3, <1>4 DEF Way, FromNothing, Announced

\* The scheduler hears an event more (RecvEvent of the server).
LEMMA HeardAppend ==
  ASSUME ServerInv, NEW h, NEW V, NEW W, Heard(V, W, h), NEW e, evq' = Append(evq, e),
         UNCHANGED <<batch, status>>,
         e.type \in {"Ready", "Idle"} /\ e.h = h => W[Len(evq)] # "none"
  PROVE  \E X : Heard(V, X, h)' /\ X[Len(evq')] = After(W[Len(evq)], e, h)
<1>1. PICK S : evq \in Seq(S)
  BY DEF ServerInv, Incoming, Queued
<1>2. PICK X : /\ Follows(X, Append(evq, e), h)
               /\ X[0] = W[0] /\ X[Len(Append(evq, e))] = After(W[Len(evq)], e, h)
               /\ Announced(W, evq, h)
                     /\ (e.type \in {"Ready", "Idle"} /\ e.h = h => W[Len(evq)] # "none")
                   => Announced(X, Append(evq, e), h)
  BY <1>1, FollowsAppend DEF Heard
<1>3. Follows(X, evq', h) /\ Announced(X, evq', h)
  BY <1>2 DEF Heard
<1>4. Follows(V, batch', h) /\ Announced(V, batch', h) /\ V[0] = ViewOf(status', h)
        /\ V[Len(batch')] = X[0]
  BY <1>2 DEF Heard
<1>5. Heard(V, X, h)'
  BY <1>3, <1>4 DEF Heard, Follows, Announced
<1> QED BY <1>2, <1>5

\* What a step has to leave alone for Tracked.
LEMMA HeardSame ==
  ASSUME NEW V, NEW W, NEW h, UNCHANGED <<evq, batch>>, ViewOf(status', h) = ViewOf(status, h)
  PROVE  Heard(V, W, h)' <=> Heard(V, W, h)
BY DEF Heard, Follows, Announced

\* What it has to leave alone of the channel.
LEMMA OnTheWaySame ==
  ASSUME NEW W, NEW U, NEW h, OnTheWay(W, U, h), UNCHANGED <<chan, evq>>,
         Serves(PidOf[h], {"terminated", "open"})' => Serves(PidOf[h], {"terminated", "open"}),
         Present(PidOf[h])' => Present(PidOf[h]) /\ Real(h)' = Real(h)
  PROVE  OnTheWay(W, U, h)'
BY DEF OnTheWay, Way, Follows, Announced, FromNothing

\* And of both.
LEMMA TrackedSame ==
  ASSUME NEW h, Tracked(h), UNCHANGED <<evq, batch, chan>>,
         ViewOf(status', h) = ViewOf(status, h), PidOf[h] \notin late' => PidOf[h] \notin late,
         Reported(PidOf[h]) => Reported(PidOf[h])',
         Serves(PidOf[h], {"terminated", "open"})' => Serves(PidOf[h], {"terminated", "open"}),
         Present(PidOf[h])' => Present(PidOf[h]) /\ Real(h)' = Real(h)
  PROVE  Tracked(h)'
<1> SUFFICES ASSUME PidOf[h] \notin late' PROVE \E V, W, U : Traces(V, W, U, h)'
  BY DEF Tracked
<1>1. PICK V, W, U : Traces(V, W, U, h)
  BY DEF Tracked
<1>2. Heard(V, W, h)'
  BY <1>1, HeardSame DEF Traces
<1>3. ASSUME ~Reported(PidOf[h])' PROVE OnTheWay(W, U, h)'
  BY <1>1, <1>3, OnTheWaySame DEF Traces
<1>4. Traces(V, W, U, h)'
  BY <1>2, <1>3 DEF Traces
<1> QED BY <1>4

\* A message is sent that tells how the queue has changed (RecvEvent of the
\* GlobalScheduler).
LEMMA TrackedTell ==
  ASSUME ServerInv, NEW h, Tracked(h), NEW e, chan' = Append(chan, e),
         UNCHANGED <<evq, batch, status, late, rpc, rcv>>,
         Reported(PidOf[h]) => Reported(PidOf[h])',
         Present(PidOf[h])' => Present(PidOf[h]) /\ Real(h)' = After(Real(h), e, h),
         e.type \in {"Ready", "Idle"} /\ e.h = h => Present(PidOf[h]) /\ Real(h) # "none",
         Connects(e, PidOf[h]) => Present(PidOf[h]) /\ Real(h) = "none"
  PROVE  Tracked(h)'
<1> SUFFICES ASSUME PidOf[h] \notin late PROVE \E V, W, X : Traces(V, W, X, h)'
  BY DEF Tracked
<1>1. PICK V, W, U : Traces(V, W, U, h)
  BY DEF Tracked
<1>2. Heard(V, W, h)'
  BY <1>1, HeardSame DEF Traces
<1>3. PICK S : chan \in Seq(S)
  BY DEF ServerInv, Incoming
<1>4. ASSUME ~Reported(PidOf[h]) PROVE \E X : OnTheWay(W, X, h)'
  <2>1. OnTheWay(W, U, h)
    BY <1>1, <1>4 DEF Traces
  <2>2. PICK X : /\ Way(X, Append(chan, e), h) /\ X[0] = U[0]
                 /\ X[Len(Append(chan, e))] = After(U[Len(chan)], e, h)
    BY <1>3, <2>1, WayAppend DEF OnTheWay
  <2>3. Way(X, chan, h)'
    BY <2>2 DEF Way, Follows, Announced, FromNothing
  <2>4. Serves(PidOf[h], {"terminated", "open"})' <=> Serves(PidOf[h], {"terminated", "open"})
    BY DEF Serves
  <2>5. Present(PidOf[h])' => X[Len(chan')] = Real(h)'
    BY <2>1, <2>2 DEF OnTheWay
  <2>6. X[0] = W[Len(evq')] /\ X[0] = U[0]
    BY <2>1, <2>2 DEF OnTheWay
  <2>7. OnTheWay(W, X, h)'
    BY <2>1, <2>3, <2>4, <2>5, <2>6 DEF OnTheWay
  <2> QED BY <2>7
<1>5. PICK X : ~Reported(PidOf[h]) => OnTheWay(W, X, h)'
  BY <1>4
<1>6. Traces(V, W, X, h)'
  BY <1>2, <1>5 DEF Traces
<1> QED BY <1>6

-----------------------------------------------------------------------------
(* What the threads of the server do to the traces                         *)

\* The server sends an event of its own to the scheduler: about h only if the
\* rest does not count any more.
LEMMA TrackedHears ==
  ASSUME ServerInv, NEW h, Tracked(h), NEW e, evq' = Append(evq, e),
         UNCHANGED <<batch, status, chan>>,
         PidOf[h] \notin late' => PidOf[h] \notin late,
         Reported(PidOf[h]) => Reported(PidOf[h])',
         e.type \notin {"Ready", "Idle"},
         PidOf[h] \notin late' /\ ~Reported(PidOf[h])' => ~Removes(e, h) /\ ~About(e, h),
         Serves(PidOf[h], {"terminated", "open"})' => Serves(PidOf[h], {"terminated", "open"}),
         Present(PidOf[h])' => Present(PidOf[h]) /\ Real(h)' = Real(h)
  PROVE  Tracked(h)'
<1> SUFFICES ASSUME PidOf[h] \notin late' PROVE \E V, W, U : Traces(V, W, U, h)'
  BY DEF Tracked
<1>1. PICK V, W, U : Traces(V, W, U, h)
  BY DEF Tracked
<1>2. PICK X : Heard(V, X, h)' /\ X[Len(evq')] = After(W[Len(evq)], e, h)
  BY <1>1, HeardAppend DEF Traces
<1>3. ASSUME ~Reported(PidOf[h])' PROVE OnTheWay(X, U, h)'
  <2>1. OnTheWay(W, U, h) /\ ~Removes(e, h) /\ ~About(e, h)
    BY <1>1, <1>3 DEF Traces
  <2>2. X[Len(evq')] = W[Len(evq)]
    BY <1>2, <2>1 DEF After
  <2>3. Way(U, chan, h)'
    BY <2>1 DEF OnTheWay, Way, Follows, Announced, FromNothing
  <2> QED BY <2>1, <2>2, <2>3 DEF OnTheWay
<1>4. Traces(V, X, U, h)'
  BY <1>2, <1>3 DEF Traces
<1> QED BY <1>4

\* RecvWorker takes a message out of the channel, and gives it to the scheduler,
\* or, if it is the first of a process, that the process is gone.
LEMMA ReceiveTracks ==
  ASSUME TrackInv, Receive, NEW h \in Handles
  PROVE  Tracked(h)'
<1> DEFINE e == Head(chan)
           x == IF e.type = "ProcessCreate" THEN ProcessEvent("ProcessDestroy", e.p) ELSE e
<1>1. /\ ServerInv /\ Tracked(h) /\ PidOf[h] \in Pids
  BY StatusAssumption DEF TrackInv, DeathInv
<1>2. /\ chan # <<>> /\ chan' = Tail(chan) /\ evq' = Append(evq, x)
      /\ e.type = "ProcessCreate" => rcv' = e
      /\ e.type # "ProcessCreate" => rpc' \in {"clean", rpc} /\ rpc = "recv"
      /\ IF e.type \in {"ProcessCreate", "ProcessDestroy"} THEN late' = late
         ELSE late' = IF Reported(PidOf[e.h]) THEN late \cup {PidOf[e.h]} ELSE late
      /\ UNCHANGED <<batch, status, phase, busy, client, joins, pidFds, wpid>>
  BY DEF Receive, RecvUnchanged, schedVars, queueVars, clientVars, waitVars
<1>3. HandledEvent(e)
  BY <1>1, <1>2, ReceivedHandled
<1>4. PICK S : chan \in Seq(S)
  BY <1>1 DEF ServerInv, Incoming
<1> HIDE DEF e
<1>5. Reported(PidOf[h])' <=> Reported(PidOf[h])
  BY <1>2 DEF Reported
<1>6. Real(h)' = Real(h) /\ (Present(PidOf[h])' <=> Present(PidOf[h]))
  BY <1>2 DEF Real, Present
<1>7. (x.type = "ProcessDestroy" /\ x.p = e.p /\ e.type = "ProcessCreate") \/ x = e
  BY DEF ProcessEvent
<1>8. x.type \in {"Ready", "Idle"} => x = e
  BY <1>7
<1>9. \A v : (Connects(e, PidOf[h]) => v = "none") => After(v, x, h) = After(v, e, h)
  BY <1>7 DEF Connects, After, Removes, About
<1> HIDE DEF x
<1> SUFFICES ASSUME PidOf[h] \notin late' PROVE \E V, W, U : Traces(V, W, U, h)'
  BY DEF Tracked
<1>10. PidOf[h] \notin late
  BY <1>2
<1>11. PICK V, W, U : Traces(V, W, U, h)
  BY <1>1, <1>10 DEF Tracked
<1>12. ASSUME ~Reported(PidOf[h])
       PROVE  /\ OnTheWay(W, U, h)
              /\ e.type \in {"Ready", "Idle"} /\ e.h = h => U[0] # "none"
              /\ Connects(e, PidOf[h]) => U[0] = "none"
              /\ \E X : /\ Way(X, Tail(chan), h) /\ X[0] = After(U[0], e, h)
                        /\ X[Len(Tail(chan))] = U[Len(chan)]
  <2>1. OnTheWay(W, U, h)
    BY <1>11, <1>12 DEF Traces
  <2> QED BY <1>2, <1>4, <2>1, WayTail DEF OnTheWay, e
<1>13. x.type \in {"Ready", "Idle"} /\ x.h = h => W[Len(evq)] # "none"
  <2>1. SUFFICES ASSUME x.type \in {"Ready", "Idle"}, x.h = h PROVE W[Len(evq)] # "none"
    OBVIOUS
  <2>2. ~Reported(PidOf[h])
    BY <1>2, <1>8, <2>1
  <2> QED BY <1>8, <1>12, <2>1, <2>2 DEF OnTheWay
<1>14. PICK Y : Heard(V, Y, h)' /\ Y[Len(evq')] = After(W[Len(evq)], x, h)
  BY <1>1, <1>2, <1>11, <1>13, HeardAppend DEF Traces
<1>15. ASSUME ~Reported(PidOf[h]) PROVE \E X : OnTheWay(Y, X, h)'
  <2>1. PICK X : /\ Way(X, Tail(chan), h) /\ X[0] = After(U[0], e, h)
                 /\ X[Len(Tail(chan))] = U[Len(chan)]
    BY <1>12, <1>15
  <2>2. OnTheWay(W, U, h) /\ (Connects(e, PidOf[h]) => U[0] = "none")
    BY <1>12, <1>15
  <2>3. Way(X, chan, h)'
    BY <1>2, <2>1 DEF Way, Follows, Announced, FromNothing
  <2>4. X[0] = Y[Len(evq')]
    BY <1>9, <1>14, <2>1, <2>2 DEF OnTheWay
  <2>5. Present(PidOf[h])' => X[Len(chan')] = Real(h)'
    BY <1>2, <1>6, <2>1, <2>2 DEF OnTheWay
  <2>6. Serves(PidOf[h], {"terminated", "open"})' => X[0] = "none"
    <3>1. Serves(PidOf[h], {"terminated", "open"})' => Connects(e, PidOf[h])
      BY <1>2 DEF Serves, Connects
    <3> QED BY <2>1, <2>2, <3>1 DEF After, Connects, Removes, About
  <2>7. OnTheWay(Y, X, h)'
    BY <2>3, <2>4, <2>5, <2>6 DEF OnTheWay
  <2> QED BY <2>7
<1>16. PICK X : ~Reported(PidOf[h]) => OnTheWay(Y, X, h)'
  BY <1>15
<1>17. Traces(V, Y, X, h)'
  BY <1>5, <1>14, <1>16 DEF Traces
<1> QED BY <1>17

\* RecvWorker keeps the invariant.
LEMMA RecvKeepsTrack ==
  ASSUME TrackInv, RecvWorker
  PROVE  TrackInv'
<1>1. /\ DeathInv /\ QueuesOK /\ joins \in [Pids -> Nat] /\ \A p \in Pids : ProcessOK(p)
      /\ \A h \in Handles : Tracked(h) /\ PidOf[h] \in Pids
      /\ ServerInv /\ ClientsOK /\ \A p \in Pids : Watched(p)
  BY StatusAssumption DEF TrackInv, DeathInv
<1>2. DeathInv'
  BY <1>1, RecvKeepsDeath
<1>3. UNCHANGED <<batch, status, phase, busy, paused, client, joins, wpid>>
  BY DEF RecvWorker, Receive, CleanUpProcess, OpenChannel, AddWait, PassOn, RecvUnchanged,
         schedVars, queueVars, clientVars, waitVars
<1>4. QueuesOK' /\ joins' \in [Pids -> Nat]
  BY <1>1, <1>3 DEF QueuesOK, Registered
<1>5. \A h \in Handles : Real(h)' = Real(h) /\ (Present(PidOf[h])' <=> Present(PidOf[h]))
  BY <1>3 DEF Real, Present
<1>6. rpc # "recv" => rcv.p \in Pids /\ (rpc # "clean" => rcv.type = "ProcessCreate")
  BY <1>1 DEF ServerInv, ThreadsOK, ProcessEvents, ClientsOK, Places
<1>7. \A p \in Pids : ProcessOK(p)'
  <2>1. pidFds' = pidFds \/ (pidFds' = pidFds \cup {rcv.p} /\ client[rcv.p] # "dead" /\ rpc # "recv")
    BY DEF RecvWorker, Receive, CleanUpProcess, OpenChannel, AddWait, PassOn, waitVars
  <2>2. \A p \in late' : p \in late \/ client[p] = "dead"
    BY DEF RecvWorker, Receive, CleanUpProcess, OpenChannel, AddWait, PassOn, Reported
  <2>3. \A p \in Pids : Reporting(p)' <=> Reporting(p)
    BY <1>3 DEF Reporting
  <2>4. ASSUME NEW p \in Pids, Reporting(p) PROVE p \notin pidFds'
    BY <1>1, <1>6, <2>1, <2>4 DEF ProcessOK, Watched
  <2> QED BY <1>1, <1>3, <2>2, <2>3, <2>4 DEF ProcessOK
<1>8. ASSUME NEW h \in Handles PROVE Tracked(h)'
  <2>1. CASE Receive
    BY <2>1, ReceiveTracks
  <2>2. ASSUME CleanUpProcess \/ OpenChannel \/ AddWait \/ PassOn
        PROVE  /\ Serves(PidOf[h], {"terminated", "open"})' =>
                    Serves(PidOf[h], {"terminated", "open"})
               /\ PidOf[h] \notin late' => PidOf[h] \notin late
               /\ chan' = chan
    BY <2>2 DEF CleanUpProcess, OpenChannel, AddWait, PassOn, Serves
  <2>3. CASE CleanUpProcess \/ OpenChannel
    <3>1. UNCHANGED <<evq, pidFds>>
      BY <2>3 DEF CleanUpProcess, OpenChannel, waitVars
    <3>2. Reported(PidOf[h])' <=> Reported(PidOf[h])
      BY <1>3, <3>1 DEF Reported
    <3> QED BY <1>1, <1>3, <1>5, <2>2, <2>3, <3>1, <3>2, TrackedSame
  <2>4. CASE AddWait
    <3>1. CASE client[rcv.p] # "dead"
      <4>1. evq' = evq /\ pidFds' = pidFds \cup {rcv.p}
        BY <2>4, <3>1 DEF AddWait
      <4>2. Reported(PidOf[h]) => Reported(PidOf[h])'
        BY <1>3, <3>1, <4>1 DEF Reported
      <4> QED BY <1>1, <1>3, <1>5, <2>2, <2>4, <4>1, <4>2, TrackedSame
    <3>2. CASE client[rcv.p] = "dead"
      <4> DEFINE e == ProcessEvent("ProcessDestroy", rcv.p)
      <4>1. evq' = Append(evq, e) /\ late' = late \cup {rcv.p} /\ pidFds' = pidFds
        BY <2>4, <3>2 DEF AddWait
      <4>2. Reported(PidOf[h])' <=> Reported(PidOf[h])
        BY <1>3, <4>1 DEF Reported
      <4>3. e.type = "ProcessDestroy" /\ e.p = rcv.p
        BY DEF ProcessEvent
      <4> HIDE DEF e
      <4>4. PidOf[h] \notin late' => ~Removes(e, h) /\ ~About(e, h)
        BY <4>1, <4>3 DEF Removes, About
      <4> QED BY <1>1, <1>3, <1>5, <2>2, <2>4, <4>1, <4>2, <4>3, <4>4, TrackedHears
    <3> QED BY <3>1, <3>2
  <2>5. CASE PassOn
    <3>1. /\ evq' = Append(evq, rcv) /\ pidFds' = pidFds /\ rcv.type = "ProcessCreate"
      BY <1>6, <2>5 DEF PassOn, waitVars
    <3>2. Reported(PidOf[h])' <=> Reported(PidOf[h])
      BY <1>3, <3>1 DEF Reported
    <3>3. ~Removes(rcv, h) /\ ~About(rcv, h)
      BY <3>1 DEF Removes, About
    <3> QED BY <1>1, <1>3, <1>5, <2>2, <2>5, <3>1, <3>2, <3>3, TrackedHears
  <2> QED BY <2>1, <2>3, <2>4, <2>5 DEF RecvWorker
<1> QED BY <1>2, <1>4, <1>7, <1>8 DEF TrackInv

\* WaitWorker keeps the invariant: with the report of a death the traces of the
\* process end.
LEMMA WaitKeepsTrack ==
  ASSUME TrackInv, WaitWorker
  PROVE  TrackInv'
<1>1. /\ DeathInv /\ QueuesOK /\ joins \in [Pids -> Nat] /\ \A p \in Pids : ProcessOK(p)
      /\ \A h \in Handles : Tracked(h) /\ PidOf[h] \in Pids
      /\ ServerInv /\ \A p \in Pids : Watched(p)
  BY StatusAssumption DEF TrackInv, DeathInv
<1>2. DeathInv'
  BY <1>1, WaitKeepsDeath
<1>3. UNCHANGED <<batch, status, phase, busy, paused, client, joins, chan, rpc, rcv, late>>
  BY DEF WaitWorker, Wake, ReportDeath, CleanUpDead, WaitUnchanged, schedVars, queueVars,
         recvVars, clientVars
<1>4. QueuesOK' /\ joins' \in [Pids -> Nat]
  BY <1>1, <1>3 DEF QueuesOK, Registered
<1>5. \A h \in Handles : /\ Real(h)' = Real(h) /\ (Present(PidOf[h])' <=> Present(PidOf[h]))
                         /\ \A R : Serves(PidOf[h], R)' <=> Serves(PidOf[h], R)
  BY <1>3 DEF Real, Present, Serves
<1>6. ASSUME NEW r \in Pids, Wake(r)
      PROVE  (\A p \in Pids : ProcessOK(p)') /\ \A h \in Handles : Tracked(h)'
  <2>1. /\ wpid = <<>> /\ evq' = evq
        /\ \/ pidFds' = pidFds \ {r} /\ wpid' = <<r, 1>> /\ r \in pidFds
           \/ UNCHANGED <<pidFds, wpid>>
    BY <1>6 DEF Wake, waitVars
  <2>2. ASSUME NEW p \in Pids PROVE Reported(p)' <=> Reported(p)
    <3>1. wpid # <<p, 1>> /\ (wpid' = <<r, 1>> => (wpid' = <<p, 1>> <=> p = r))
      BY <2>1
    <3> QED BY <1>3, <2>1, <3>1 DEF Reported
  <2>3. ASSUME NEW p \in Pids, Reporting(p)' PROVE p \notin pidFds'
    <3>1. wpid' # <<>> /\ wpid'[1] = p
      BY <2>3 DEF Reporting
    <3>2. pidFds' = pidFds \ {r} /\ wpid' = <<r, 1>>
      BY <2>1, <3>1
    <3> QED BY <3>1, <3>2
  <2>4. \A p \in Pids : ProcessOK(p)'
    BY <1>1, <1>3, <2>3 DEF ProcessOK
  <2> QED BY <1>1, <1>3, <1>5, <2>1, <2>2, <2>4, TrackedSame
<1>7. ASSUME ReportDeath
      PROVE  (\A p \in Pids : ProcessOK(p)') /\ \A h \in Handles : Tracked(h)'
  <2> DEFINE r == wpid[1]
             e == ProcessEvent("ProcessDestroy", r)
  <2>1. /\ wpid # <<>> /\ wpid[2] = 1 /\ r \in Pids
        /\ evq' = Append(evq, e) /\ wpid' = <<r, 2>> /\ UNCHANGED pidFds
    BY <1>1, <1>7 DEF ReportDeath, ServerInv, ThreadsOK
  <2>2. wpid' # <<>> /\ wpid'[1] = r /\ wpid'[2] = 2
    BY <2>1
  <2>3. Reporting(r) /\ client[r] = "dead" /\ r \notin pidFds
    BY <1>1, <2>1 DEF Reporting, Watched, ProcessOK
  <2>4. e.type = "ProcessDestroy" /\ e.p = r
    BY DEF ProcessEvent
  <2>5. \A p \in Pids : Reporting(p)' <=> Reporting(p)
    BY <2>1, <2>2 DEF Reporting
  <2> HIDE DEF e, r
  <2>6. \A p \in Pids : ProcessOK(p)'
    BY <1>1, <1>3, <2>1, <2>5 DEF ProcessOK
  <2>7. ASSUME NEW p \in Pids
        PROVE  (Reported(p) => Reported(p)') /\ (p = r => Reported(p)')
    <3>1. wpid' # <<p, 1>>
      BY <2>2
    <3> QED BY <1>3, <2>1, <2>3, <3>1 DEF Reported
  <2>8. ASSUME NEW h \in Handles PROVE Tracked(h)'
    <3>1. ~Reported(PidOf[h])' => ~Removes(e, h) /\ ~About(e, h)
      BY <1>1, <2>4, <2>7 DEF Removes, About
    <3> QED BY <1>1, <1>3, <1>5, <2>1, <2>4, <2>7, <3>1, TrackedHears
  <2> QED BY <2>6, <2>8
<1>8. ASSUME CleanUpDead
      PROVE  (\A p \in Pids : ProcessOK(p)') /\ \A h \in Handles : Tracked(h)'
  <2>1. wpid[2] = 2 /\ wpid' = <<>> /\ UNCHANGED <<evq, pidFds>>
    BY <1>8 DEF CleanUpDead
  <2>2. ASSUME NEW p \in Pids PROVE (Reported(p)' <=> Reported(p)) /\ ~Reporting(p)'
    <3>1. wpid # <<p, 1>> /\ wpid' # <<p, 1>>
      BY <2>1
    <3> QED BY <1>3, <2>1, <3>1 DEF Reported, Reporting
  <2>3. \A p \in Pids : ProcessOK(p)'
    BY <1>1, <1>3, <2>2 DEF ProcessOK
  <2> QED BY <1>1, <1>3, <1>5, <2>1, <2>2, <2>3, TrackedSame
<1> QED BY <1>2, <1>4, <1>6, <1>7, <1>8 DEF WaitWorker, TrackInv

-----------------------------------------------------------------------------
(* The scheduler thread and the traces                                     *)

\* What the thread has heard stays heard when it takes the events.
LEMMA TakeHears ==
  ASSUME ServerInv, ThreadOK, TakeEvents, NEW h, NEW V, NEW W, Heard(V, W, h)
  PROVE  \E X : Heard(W, X, h)' /\ X[Len(evq')] = W[Len(evq)]
<1>1. /\ batch' = evq /\ evq' = <<>> /\ batch = <<>> /\ status' = status
  BY DEF TakeEvents, ThreadOK, BatchDone
<1>2. PICK S : evq \in Seq(S)
  BY DEF ServerInv, Incoming, Queued
<1>3. PICK v \in Views : v = W[Len(evq)]
  BY <1>2, LenProperties DEF Heard, Follows
<1>4. PICK X : X = [i \in 0..0 |-> v]
  OBVIOUS
<1>5. Follows(X, <<>>, h) /\ Announced(X, <<>>, h) /\ X[0] = v /\ Len(<<>>) = 0
  BY <1>3, <1>4, FollowsNothing
<1>6. V[0] = W[0]
  BY <1>1, <1>5 DEF Heard
<1>7. /\ Follows(W, batch', h) /\ Announced(W, batch', h)
      /\ Follows(X, evq', h) /\ Announced(X, evq', h)
      /\ W[0] = ViewOf(status', h) /\ W[Len(batch')] = X[0]
  BY <1>1, <1>3, <1>5, <1>6 DEF Heard
<1>8. Heard(W, X, h)'
  BY <1>7 DEF Heard, Follows, Announced
<1> QED BY <1>1, <1>3, <1>5, <1>8

\* And when it handles one of them.
LEMMA HandleHears ==
  ASSUME ServerInv, HandleEvent, NEW h \in Handles, NEW V, NEW W, Heard(V, W, h)
  PROVE  \E X : Heard(X, W, h)'
<1> DEFINE e == Head(batch)
           st == UpdateStatus(status, e)
<1>1. /\ batch # <<>> /\ batch' = Tail(batch) /\ evq' = evq
      /\ \/ status' = status /\ e.type \in {"Terminate", "Hint"}
         \/ Reschedule(st)
         \/ status' = st
  BY DEF HandleEvent
<1>2. PICK S : Queued(S)
  BY DEF ServerInv, Incoming
<1>3. HandledEvent(e) /\ batch \in Seq(S) /\ GoodStatus(status)
  BY <1>1, <1>2 DEF Queued, ServerInv
<1>4. GoodStatus(st)
  BY <1>3, UpdateStatusGood
<1> HIDE DEF e, st
<1>5. ViewOf(status', h) = ViewOf(st, h)
  <2>1. e.type \in {"Terminate", "Hint"} => st = status
    BY DEF UpdateStatus, st
  <2> QED BY <1>1, <1>4, <2>1, RescheduleKeeps DEF ViewOf
<1>6. ViewOf(st, h) = After(V[0], e, h)
  BY <1>3, UpdateView DEF Heard, st
<1>7. PICK X : /\ Follows(X, Tail(batch), h)
               /\ X[0] = After(V[0], e, h) /\ X[Len(Tail(batch))] = V[Len(batch)]
               /\ Announced(V, batch, h) => Announced(X, Tail(batch), h)
  BY <1>1, <1>3, FollowsTail DEF Heard, e
<1>8. Heard(X, W, h)'
  BY <1>1, <1>5, <1>6, <1>7 DEF Heard, Follows, Announced
<1> QED BY <1>8

\* The steps of the thread keep the invariant.
LEMMA ScheduleKeepsTrack ==
  ASSUME TrackInv, Schedule
  PROVE  TrackInv'
<1>1. /\ DeathInv /\ QueuesOK /\ joins \in [Pids -> Nat] /\ \A p \in Pids : ProcessOK(p)
      /\ \A h \in Handles : Tracked(h)
      /\ ServerInv /\ ThreadOK /\ GoodStatus(status)
  BY DEF TrackInv, DeathInv, ServerInv
<1>2. DeathInv'
  BY <1>1, ScheduleKeepsDeath
<1>3. UNCHANGED <<phase, busy, paused, client, joins, chan, rpc, rcv, wpid, pidFds, late>>
  BY DEF Schedule, TakeEvents, HandleEvent, FinishBatch, EndReschedule, queueVars, serverVars,
         clientVars, recvVars, waitVars
<1>4. QueuesOK' /\ joins' \in [Pids -> Nat] /\ \A p \in Pids : ProcessOK(p)'
  BY <1>1, <1>3 DEF QueuesOK, Registered, ProcessOK, Reporting
<1>5. \A h \in Handles : /\ Real(h)' = Real(h) /\ (Present(PidOf[h])' <=> Present(PidOf[h]))
                         /\ \A R : Serves(PidOf[h], R)' <=> Serves(PidOf[h], R)
                         /\ Reported(PidOf[h])' <=> Reported(PidOf[h])
  BY <1>3 DEF Real, Present, Serves, Reported
<1>6. ASSUME NEW h \in Handles, NEW W, NEW U, NEW X, OnTheWay(W, U, h),
             X[Len(evq')] = W[Len(evq)]
      PROVE  OnTheWay(X, U, h)'
  <2>1. Way(U, chan, h)'
    BY <1>3, <1>6 DEF OnTheWay, Way, Follows, Announced, FromNothing
  <2> QED BY <1>3, <1>5, <1>6, <2>1 DEF OnTheWay
<1>7. ASSUME NEW h \in Handles PROVE Tracked(h)'
  <2>1. CASE FinishBatch \/ EndReschedule
    <3>1. UNCHANGED <<evq, batch>>
      BY <2>1 DEF FinishBatch, EndReschedule
    <3>2. ViewOf(status', h) = ViewOf(status, h)
      BY <1>1, <2>1, RescheduleKeeps DEF FinishBatch, EndReschedule, ViewOf
    <3> QED BY <1>1, <1>3, <1>5, <3>1, <3>2, TrackedSame
  <2>2. CASE TakeEvents \/ HandleEvent
    <3> SUFFICES ASSUME PidOf[h] \notin late PROVE \E V, W, U : Traces(V, W, U, h)'
      BY <1>3 DEF Tracked
    <3>1. PICK V, W, U : Traces(V, W, U, h)
      BY <1>1 DEF Tracked
    <3>2. PICK X, Y : Heard(X, Y, h)' /\ Y[Len(evq')] = W[Len(evq)]
      <4>1. CASE TakeEvents
        BY <1>1, <3>1, <4>1, TakeHears DEF Traces
      <4>2. CASE HandleEvent
        <5>1. evq' = evq
          BY <4>2 DEF HandleEvent
        <5>2. PICK X : Heard(X, W, h)'
          BY <1>1, <3>1, <4>2, HandleHears DEF Traces
        <5> QED BY <5>1, <5>2
      <4> QED BY <2>2, <4>1, <4>2
    <3>3. ~Reported(PidOf[h])' => OnTheWay(Y, U, h)'
      BY <1>5, <1>6, <3>1, <3>2 DEF Traces
    <3>4. Traces(X, Y, U, h)'
      BY <3>2, <3>3 DEF Traces
    <3> QED BY <3>4
  <2> QED BY <2>1, <2>2 DEF Schedule
<1> QED BY <1>2, <1>4, <1>7 DEF TrackInv

\* Executing operations and posting hints do not concern the traces.
LEMMA OthersKeepTrack ==
  ASSUME TrackInv, DeathInv',
         \/ \E p \in Pids : Execute(p)
         \/ \E e \in HintsOf[pol.type] : PostHint(e)
         \/ UNCHANGED allVars
  PROVE  TrackInv'
<1>1. /\ QueuesOK /\ joins \in [Pids -> Nat] /\ \A p \in Pids : ProcessOK(p)
      /\ \A h \in Handles : Tracked(h)
      /\ ServerInv
  BY DEF TrackInv, DeathInv
<1>2. UNCHANGED <<batch, status, phase, busy, paused, client, joins, chan, rpc, rcv, wpid,
                  pidFds, late>>
  BY DEF Execute, PostHint, queueVars, schedVars, serverVars, clientVars, recvVars, waitVars,
         allVars, vars
<1>3. QueuesOK' /\ joins' \in [Pids -> Nat] /\ \A p \in Pids : ProcessOK(p)'
  BY <1>1, <1>2 DEF QueuesOK, Registered, ProcessOK, Reporting
<1>4. \A h \in Handles : /\ Real(h)' = Real(h) /\ (Present(PidOf[h])' <=> Present(PidOf[h]))
                         /\ \A R : Serves(PidOf[h], R)' <=> Serves(PidOf[h], R)
                         /\ Reported(PidOf[h])' <=> Reported(PidOf[h])
  BY <1>2 DEF Real, Present, Serves, Reported
<1>5. ASSUME NEW h \in Handles PROVE Tracked(h)'
  <2>1. CASE evq' = evq
    BY <1>1, <1>2, <1>4, <2>1, TrackedSame
  <2>2. ASSUME NEW e, PostHint(e) PROVE Tracked(h)'
    <3> DEFINE x == [type |-> "Hint", hint |-> e]
    <3>1. evq' = Append(evq, x) /\ x.type = "Hint"
      BY <2>2 DEF PostHint
    <3> HIDE DEF x
    <3>2. ~Removes(x, h) /\ ~About(x, h)
      BY <3>1 DEF Removes, About
    <3> QED BY <1>1, <1>2, <1>4, <3>1, <3>2, TrackedHears
  <2> QED BY <2>1, <2>2 DEF Execute, allVars, vars
<1> QED BY <1>3, <1>5 DEF TrackInv

-----------------------------------------------------------------------------
(* The clients and the traces                                              *)

\* What a step of a client's queue tells is what happens, and it leaves the
\* other queues alone.
LEMMA ClientTells ==
  ASSUME QueuesOK, NEW g \in Handles,
         ClientCreate(g) \/ ClientReady(g) \/ ClientIdle(g) \/ ClientDestroy(g)
  PROVE  /\ QueuesOK' /\ \A h \in Handles : h # g => UNCHANGED <<phase[h], h \in paused>>
         /\ \E e \in {CreateEvent(g), DestroyEvent(g), ReadyEvent(g), IdleEvent(g)} :
              /\ chan' = Append(chan, e)
              /\ \A h \in Handles : Real(h)' = After(Real(h), e, h)
              /\ e.type \in {"Ready", "Idle"} => Real(g) # "none"
              /\ e.type # "Create" => (g \in Registered' => g \in Registered) /\ UNCHANGED paused
              /\ e.type = "Create" => phase[g] = "none"
<1> USE DEF QueuesOK, Registered, Tell
<1> DEFINE Tells(e) == \A h \in Handles : Real(h)' = After(Real(h), e, h)
<1>1. CASE ClientCreate(g)
  <2>1. QueuesOK' /\ \A h \in Handles : h # g => UNCHANGED <<phase[h], h \in paused>>
    BY <1>1 DEF ClientCreate, CreateQueue
  <2>2. chan' = Append(chan, CreateEvent(g)) /\ Tells(CreateEvent(g)) /\ phase[g] = "none"
    BY <1>1 DEF ClientCreate, CreateQueue, Real, After, About, Removes, CreateEvent
  <2>3. CreateEvent(g).type = "Create"
    BY DEF CreateEvent
  <2> QED BY <2>1, <2>2, <2>3
<1>2. CASE ClientReady(g)
  <2>1. QueuesOK' /\ \A h \in Handles : h # g => UNCHANGED <<phase[h], h \in paused>>
    BY <1>2 DEF ClientReady, FirstCommand
  <2>2. chan' = Append(chan, ReadyEvent(g)) /\ Tells(ReadyEvent(g)) /\ Real(g) # "none"
    BY <1>2 DEF ClientReady, FirstCommand, Real, After, About, Removes, ReadyEvent
  <2>3. g \in Registered /\ UNCHANGED paused
    BY <1>2 DEF ClientReady, FirstCommand
  <2>4. ReadyEvent(g).type = "Ready"
    BY DEF ReadyEvent
  <2> QED BY <2>1, <2>2, <2>3, <2>4
<1>3. CASE ClientIdle(g)
  <2>1. QueuesOK' /\ \A h \in Handles : h # g => UNCHANGED <<phase[h], h \in paused>>
    BY <1>3 DEF ClientIdle, LastCommand
  <2>2. chan' = Append(chan, IdleEvent(g)) /\ Tells(IdleEvent(g)) /\ Real(g) # "none"
    BY <1>3 DEF ClientIdle, LastCommand, Real, After, About, Removes, IdleEvent
  <2>3. (g \in Registered' => g \in Registered) /\ UNCHANGED paused
    BY <1>3 DEF ClientIdle, LastCommand
  <2>4. IdleEvent(g).type = "Idle"
    BY DEF IdleEvent
  <2> QED BY <2>1, <2>2, <2>3, <2>4
<1>4. CASE ClientDestroy(g)
  <2>1. QueuesOK' /\ \A h \in Handles : h # g => UNCHANGED <<phase[h], h \in paused>>
    BY <1>4 DEF ClientDestroy, DestroyQueue
  <2>2. chan' = Append(chan, DestroyEvent(g)) /\ Tells(DestroyEvent(g))
    BY <1>4 DEF ClientDestroy, DestroyQueue, Real, After, About, Removes, DestroyEvent
  <2>3. g \notin Registered' /\ UNCHANGED paused
    BY <1>4 DEF ClientDestroy, DestroyQueue
  <2>4. DestroyEvent(g).type = "Destroy"
    BY DEF DestroyEvent
  <2> QED BY <2>1, <2>2, <2>3, <2>4
<1> QED BY <1>1, <1>2, <1>3, <1>4

\* Taking a queue out of the table tells nothing and changes nothing of what is
\* said.
LEMMA ClientDelTells ==
  ASSUME QueuesOK, NEW g \in Handles, ClientDel(g)
  PROVE  /\ QueuesOK' /\ chan' = chan /\ \A h \in Handles : Real(h)' = Real(h)
         /\ g \notin Registered'
         /\ \A h \in Handles : h # g => UNCHANGED <<phase[h], h \in paused>>
BY DEF ClientDel, DelQueue, QueuesOK, Registered, Real

\* The steps of a process leave its queues registered or not, until it dies.
LEMMA ProcessSteps ==
  ASSUME TrackInv, NEW p \in Pids, Join(p) \/ Leave(p) \/ Perform(p) \/ Die(p)
  PROVE  /\ QueuesOK'
         /\ \A h \in Handles : PidOf[h] # p => UNCHANGED <<phase[h], h \in busy>>
         /\ ~Die(p) => UNCHANGED <<phase, busy>>
         /\ client' \in [Pids -> {"off", "up", "leaving", "dead"}] /\ joins' \in [Pids -> Nat]
         /\ \A q \in Pids : q # p => UNCHANGED <<client[q], joins[q]>>
<1>1. /\ QueuesOK /\ joins \in [Pids -> Nat] /\ PidOf \in [Handles -> Pids]
      /\ client \in [Pids -> {"off", "up", "leaving", "dead"}]
  BY StatusAssumption DEF TrackInv, DeathInv, ClientsOK
<1>2. CASE Join(p) \/ Leave(p)
  <2>1. /\ UNCHANGED <<phase, busy, paused>> /\ client' \in [Pids -> {"off", "up", "leaving", "dead"}]
        /\ \A q \in Pids : q # p => client'[q] = client[q]
    BY <1>1, <1>2 DEF Join, Leave, queueVars
  <2>2. joins' = joins \/ joins' = [joins EXCEPT ![p] = @ + 1]
    BY <1>2 DEF Join, Leave
  <2>3. joins' \in [Pids -> Nat] /\ \A q \in Pids : q # p => joins'[q] = joins[q]
    BY <1>1, <2>2
  <2> QED BY <1>1, <2>1, <2>3 DEF QueuesOK, Registered
<1>3. CASE Perform(p)
  <2>1. paused' \subseteq Registered /\ UNCHANGED <<phase, busy, joins>>
    BY <1>1, <1>3 DEF Perform, Carried, QueuesOK, clientVars
  <2>2. client' = client \/ client' = [client EXCEPT ![p] = "off"]
    BY <1>3 DEF Perform
  <2> QED BY <1>1, <1>3, <2>1, <2>2 DEF QueuesOK, Registered
<1>4. CASE Die(p)
  <2> DEFINE Q == {h \in Handles : PidOf[h] = p}
  <2>1. /\ client' = [client EXCEPT ![p] = "dead"] /\ joins' = joins
        /\ phase' = [h \in Handles |-> IF h \in Q THEN "none" ELSE phase[h]]
        /\ busy' = busy \ Q /\ paused' = paused \ Q
    BY <1>4 DEF Die
  <2>2. QueuesOK'
    BY <1>1, <2>1 DEF QueuesOK, Registered
  <2>3. \A h \in Handles : PidOf[h] # p => UNCHANGED <<phase[h], h \in busy>>
    BY <2>1
  <2>4. /\ client' \in [Pids -> {"off", "up", "leaving", "dead"}] /\ joins' \in [Pids -> Nat]
        /\ \A q \in Pids : q # p => UNCHANGED <<client[q], joins[q]>>
    BY <1>1, <2>1
  <2> QED BY <1>4, <2>2, <2>3, <2>4
<1> QED BY <1>2, <1>3, <1>4

\* The clients keep the invariant, if none of them connects twice.
LEMMA ClientKeepsTrack ==
  ASSUME TrackInv, ClientNext, MaxJoins <= 1
  PROVE  TrackInv'
<1>1. /\ DeathInv /\ QueuesOK /\ joins \in [Pids -> Nat] /\ \A p \in Pids : ProcessOK(p)
      /\ \A h \in Handles : Tracked(h) /\ PidOf[h] \in Pids
      /\ ServerInv /\ ClientsOK /\ OrdersOK /\ MaxJoins \in Nat
  BY StatusAssumption, ServerAssumption DEF TrackInv, DeathInv
<1>2. DeathInv'
  BY <1>1, ClientKeepsDeath
<1>3. UNCHANGED <<evq, batch, status, rpc, rcv, pidFds, wpid, late>>
  <2>1. ASSUME NEW h \in Handles,
               ClientCreate(h) \/ ClientReady(h) \/ ClientIdle(h) \/ ClientDel(h)
                 \/ ClientDestroy(h)
        PROVE  UNCHANGED <<evq, batch, status, rpc, rcv, pidFds, wpid, late>>
    BY <2>1 DEF ClientCreate, ClientReady, ClientIdle, ClientDel, ClientDestroy,
                QueueUnchanged, schedVars, waitVars
  <2>2. ASSUME NEW p \in Pids, Join(p) \/ Leave(p) \/ Perform(p) \/ Die(p)
        PROVE  UNCHANGED <<evq, batch, status, rpc, rcv, pidFds, wpid, late>>
    BY <2>2 DEF Join, Leave, Perform, Die, schedVars, waitVars, recvVars
  <2> QED BY <2>1, <2>2 DEF ClientNext
<1>4. ASSUME NEW h, NEW R PROVE Serves(PidOf[h], R)' <=> Serves(PidOf[h], R)
  BY <1>3 DEF Serves
<1>5. \A p \in Pids : Reporting(p)' <=> Reporting(p)
  BY <1>3 DEF Reporting
<1>6. ASSUME NEW g \in Handles,
             ClientCreate(g) \/ ClientReady(g) \/ ClientIdle(g) \/ ClientDel(g)
               \/ ClientDestroy(g)
      PROVE  TrackInv'
  <2>1. client[PidOf[g]] = "up" /\ UNCHANGED <<client, joins>>
    BY <1>6 DEF ClientCreate, ClientReady, ClientIdle, ClientDel, ClientDestroy, Up,
                QueueUnchanged, clientVars
  <2>2. \A h : (Present(PidOf[h])' <=> Present(PidOf[h]))
                 /\ (Reported(PidOf[h])' <=> Reported(PidOf[h]))
    BY <1>3, <2>1 DEF Present, Reported
  <2>3. Present(PidOf[g])
    BY <2>1 DEF Present
  <2>4. /\ QueuesOK' /\ \A h \in Handles : h # g => phase'[h] = phase[h]
        /\ \A h \in Handles : Tracked(h)'
    <3>1. CASE ClientDel(g)
      BY <1>1, <1>3, <1>4, <2>2, <3>1, ClientDelTells, TrackedSame
    <3>2. CASE ClientCreate(g) \/ ClientReady(g) \/ ClientIdle(g) \/ ClientDestroy(g)
      <4>1. /\ QueuesOK' /\ \A h \in Handles : h # g => phase'[h] = phase[h]
        BY <1>1, <3>2, ClientTells
      <4>2. PICK e \in {CreateEvent(g), DestroyEvent(g), ReadyEvent(g), IdleEvent(g)} :
              /\ chan' = Append(chan, e)
              /\ \A h \in Handles : Real(h)' = After(Real(h), e, h)
              /\ e.type \in {"Ready", "Idle"} => Real(g) # "none"
        BY <1>1, <3>2, ClientTells
      <4>3. e.h = g /\ \A h : ~Connects(e, PidOf[h])
        BY DEF CreateEvent, DestroyEvent, ReadyEvent, IdleEvent, Connects
      <4>4. ASSUME NEW h \in Handles PROVE Tracked(h)'
        BY <1>1, <1>3, <2>2, <2>3, <4>2, <4>3, TrackedTell
      <4> QED BY <4>1, <4>4
    <3> QED BY <1>6, <3>1, <3>2
  <2>5. \A p \in Pids : ProcessOK(p)'
    BY <1>1, <1>3, <1>5, <2>1, <2>4 DEF ProcessOK
  <2> QED BY <1>1, <1>2, <2>1, <2>4, <2>5 DEF TrackInv
<1>7. ASSUME NEW r \in Pids, Join(r) \/ Leave(r) \/ Perform(r) \/ Die(r)
      PROVE  TrackInv'
  <2>1. /\ QueuesOK'
        /\ \A h \in Handles : PidOf[h] # r => UNCHANGED <<phase[h], h \in busy>>
        /\ ~Die(r) => UNCHANGED <<phase, busy>>
        /\ joins' \in [Pids -> Nat]
        /\ \A q \in Pids : q # r => UNCHANGED <<client[q], joins[q]>>
    BY <1>7, ProcessSteps
  <2>2. \A h \in Handles : PidOf[h] # r \/ ~Die(r) => Real(h)' = Real(h)
    BY <2>1 DEF Real
  <2>3. \A p \in Pids : p # r => /\ Present(p)' <=> Present(p)
                                 /\ Reported(p)' <=> Reported(p)
                                 /\ ProcessOK(p)'
    BY <1>1, <1>3, <1>5, <2>1 DEF Present, Reported, ProcessOK
  <2>4. CASE Join(r)
    <3> DEFINE e == ProcessEvent("ProcessCreate", r)
    <3>1. /\ chan' = Append(chan, e) /\ joins[r] = 0 /\ client[r] = "off"
          /\ client'[r] = "up" /\ joins'[r] = 1
      BY <1>1, <2>4 DEF Join, Tell, ClientsOK
    <3>2. ~Die(r)
      BY <1>1, <3>1 DEF Die, ClientsOK
    <3>3. e.type = "ProcessCreate" /\ e.p = r
      BY DEF ProcessEvent
    <3> HIDE DEF e
    <3>4. Present(r) /\ ~Reported(r) /\ ProcessOK(r)'
      BY <1>1, <1>3, <1>5, <3>1 DEF Present, Reported, ProcessOK
    <3>5. ASSUME NEW h \in Handles PROVE Tracked(h)'
      <4>1. After(Real(h), e, h) = Real(h) /\ (Connects(e, PidOf[h]) => PidOf[h] = r)
        BY <3>3 DEF After, About, Removes, Connects
      <4>2. PidOf[h] = r => Real(h) = "none"
        BY <1>1, <3>1 DEF ProcessOK, Real
      <4> QED BY <1>1, <1>3, <2>2, <2>3, <3>1, <3>2, <3>3, <3>4, <4>1, <4>2, TrackedTell
    <3> QED BY <1>2, <2>1, <2>3, <3>4, <3>5 DEF TrackInv
  <2>5. CASE Leave(r)
    <3> DEFINE e == ProcessEvent("ProcessDestroy", r)
    <3>1. /\ chan' = Append(chan, e) /\ client[r] = "up" /\ client'[r] = "leaving"
          /\ joins'[r] = joins[r]
      BY <1>1, <2>5 DEF Leave, Tell, ClientsOK
    <3>2. client' = [client EXCEPT ![r] = "leaving"] /\ UNCHANGED <<phase, busy>>
      BY <2>5 DEF Leave, queueVars
    <3>3. e.type = "ProcessDestroy" /\ e.p = r
      BY DEF ProcessEvent
    <3> HIDE DEF e
    <3>4. ~Present(r)' /\ ~Reported(r) /\ ProcessOK(r)'
      BY <1>1, <1>3, <1>5, <3>1, <3>2 DEF Present, Reported, ProcessOK
    <3>5. ASSUME NEW h \in Handles PROVE Tracked(h)'
      <4>1. PidOf[h] # r => After(Real(h), e, h) = Real(h)
        BY <3>3 DEF After, About, Removes
      <4>2. ~Connects(e, PidOf[h])
        BY <3>3 DEF Connects
      <4>3. Real(h)' = Real(h)
        BY <3>2 DEF Real
      <4> QED BY <1>1, <1>3, <2>3, <3>1, <3>3, <3>4, <4>1, <4>2, <4>3, TrackedTell
    <3> QED BY <1>2, <2>1, <2>3, <3>4, <3>5 DEF TrackInv
  <2>6. CASE Perform(r) \/ Die(r)
    <3>1. chan' = chan
      BY <2>6 DEF Perform, Die, recvVars
    <3>2. /\ (Present(r)' => Present(r) /\ ~Die(r)) /\ (Reported(r) => Reported(r)')
          /\ ProcessOK(r)'
      <4>1. CASE Perform(r)
        <5>1. /\ joins' = joins /\ client[r] \in {"up", "leaving"} /\ UNCHANGED phase
              /\ client' = client \/ client' = [client EXCEPT ![r] = "off"]
          BY <4>1 DEF Perform
        <5>2. client'[r] \in {client[r], "off"} /\ joins[r] # 0
          BY <1>1, <5>1 DEF ClientsOK, ProcessOK
        <5>3. Present(r)' => client[r] = "up" /\ client' = client
          BY <1>1, <5>1, <5>2 DEF Present, ClientsOK
        <5>4. ~Reported(r) /\ r \notin late
          BY <1>1, <5>1 DEF Reported, ProcessOK
        <5>5. Present(r)' => ~Die(r)
          BY <1>1, <5>3 DEF Die, ClientsOK
        <5> QED BY <1>1, <1>3, <1>5, <5>1, <5>2, <5>3, <5>4, <5>5 DEF Present, ProcessOK
      <4>2. CASE Die(r)
        <5>1. /\ joins' = joins /\ joins[r] > 0 /\ client[r] # "dead" /\ client'[r] = "dead"
          BY <1>1, <4>2 DEF Die, ClientsOK
        <5>2. ~Present(r)' /\ ~Reported(r)
          BY <1>1, <5>1 DEF Present, Reported
        <5> QED BY <1>1, <1>3, <1>5, <5>1, <5>2 DEF ProcessOK
      <4> QED BY <2>6, <4>1, <4>2
    <3>3. ASSUME NEW h \in Handles PROVE Tracked(h)'
      BY <1>1, <1>3, <1>4, <2>2, <2>3, <3>1, <3>2, TrackedSame
    <3> QED BY <1>2, <2>1, <2>3, <3>2, <3>3 DEF TrackInv
  <2> QED BY <1>7, <2>4, <2>5, <2>6
<1> QED BY <1>6, <1>7 DEF ClientNext

\* In the beginning nothing is on its way.
LEMMA TrackInit == ServerInit => TrackInv
<1> SUFFICES ASSUME ServerInit PROVE TrackInv
  OBVIOUS
<1>1. DeathInv
  BY DeathInit
<1>2. PICK J \in Joined0 :
        LET Q == {h \in Existing : PidOf[h] \in J} IN
        /\ evq = <<>> /\ batch = <<>> /\ chan = <<>> /\ rpc = "recv" /\ wpid = <<>>
        /\ status = [StatusWith(Q) EXCEPT !.procs = J] /\ busy = {} /\ paused = {}
        /\ phase = [h \in Handles |-> IF h \in Q THEN "idle" ELSE "none"]
        /\ client = [p \in Pids |-> IF p \in J THEN "up" ELSE "off"]
        /\ joins = [p \in Pids |-> IF p \in J THEN 1 ELSE 0]
        /\ late = {} /\ pidFds = J
  BY DEF ServerInit
<1>3. QueuesOK /\ joins \in [Pids -> Nat]
  BY <1>2 DEF QueuesOK, Registered
<1>4. \A p \in Pids : ProcessOK(p)
  BY <1>2 DEF ProcessOK, Reporting
<1>5. ASSUME NEW h \in Handles PROVE Tracked(h)
  <2>1. ViewOf(status, h) = Real(h) /\ Real(h) \in Views
    BY <1>2 DEF ViewOf, Real, StatusWith, Views
  <2>2. PICK V : V = [i \in 0..0 |-> Real(h)]
    OBVIOUS
  <2>3. Follows(V, <<>>, h) /\ Announced(V, <<>>, h) /\ V[0] = Real(h) /\ Len(<<>>) = 0
    BY <2>1, <2>2, FollowsNothing
  <2>4. Heard(V, V, h)
    BY <1>2, <2>1, <2>3 DEF Heard
  <2>5. FromNothing(V, <<>>, h)
    BY DEF FromNothing
  <2>6. OnTheWay(V, V, h)
    BY <1>2, <2>3, <2>5 DEF OnTheWay, Way, Serves
  <2> QED BY <2>4, <2>6 DEF Tracked, Traces
<1> QED BY <1>1, <1>3, <1>4, <1>5 DEF TrackInv

\* Every step keeps the invariant.
LEMMA TrackNext == ASSUME MaxJoins <= 1 PROVE TrackInv /\ [ServerNext]_allVars => TrackInv'
<1> SUFFICES ASSUME TrackInv, [ServerNext]_allVars PROVE TrackInv'
  OBVIOUS
<1>1. DeathInv'
  BY DeathNext DEF TrackInv
<1> QED BY <1>1, ClientKeepsTrack, RecvKeepsTrack, WaitKeepsTrack, ScheduleKeepsTrack,
           OthersKeepTrack DEF ServerNext

-----------------------------------------------------------------------------
(* The orders on their way to the clients                                  *)

OpsOK == \A p \in Pids : ops[p] \in Seq(Orders(p) \cup {TerminateOperation})

\* A queue the scheduler knows, has come to, and that is not being destroyed is
\* suspended as it says, when the orders on their way have been carried out.
Removed(h) == DestroySent(h) \/ \E i \in 1..Len(chan) : Removes(chan[i], h)
Asked(h) ==
  /\ Up(h) /\ BatchDone /\ ~fresh /\ (wpc = "exec" => PidOf[h] \notin todo)
  /\ h \in status.known \cap Registered /\ ~Removed(h)
AsOrdered(h) ==
  LET q == ops[PidOf[h]]
  IN IF q = <<>> THEN h \in paused <=> h \in status.suspended
     ELSE /\ h \in q[Len(q)].stop <=> h \in status.suspended
          /\ h \in q[Len(q)].run <=> h \notin status.suspended
Told(h) == Asked(h) => AsOrdered(h)

ServedInv == TrackInv /\ OpsOK /\ \A h \in Handles : Told(h)

\* A queue's end that is on its way stays on its way, while messages are sent
\* and received.
LEMMA RemovedStays ==
  ASSUME ServerInv, NEW h, NEW x,
         \/ evq' \in {evq, Append(evq, x)} /\ chan' \in {chan, Append(chan, x)}
         \/ /\ chan # <<>> /\ chan' = Tail(chan) /\ evq' = Append(evq, x)
            /\ Removes(Head(chan), h) => Removes(x, h)
  PROVE  Removed(h) => Removed(h)'
<1>1. PICK S : evq \in Seq(S) /\ chan \in Seq(S)
  BY DEF ServerInv, Incoming, Queued
<1>2. /\ Len(evq) \in Nat /\ Len(Append(evq, x)) = Len(evq) + 1
      /\ Append(evq, x)[Len(evq) + 1] = x
      /\ \A i \in 1..Len(evq) : Append(evq, x)[i] = evq[i]
  BY <1>1, AppendProperties, LenProperties
<1>3. /\ Len(chan) \in Nat /\ Len(Append(chan, x)) = Len(chan) + 1
      /\ \A i \in 1..Len(chan) : Append(chan, x)[i] = chan[i]
  BY <1>1, AppendProperties, LenProperties
<1>4. DestroySent(h) => DestroySent(h)'
  BY <1>2 DEF DestroySent
<1>5. CASE chan' \in {chan, Append(chan, x)}
  BY <1>3, <1>4, <1>5 DEF Removed
<1>6. CASE /\ chan # <<>> /\ chan' = Tail(chan) /\ evq' = Append(evq, x)
           /\ Removes(Head(chan), h) => Removes(x, h)
  <2>1. /\ Len(chan) > 0 /\ Len(Tail(chan)) = Len(chan) - 1 /\ Head(chan) = chan[1]
        /\ \A i \in 1..(Len(chan) - 1) : Tail(chan)[i] = chan[i + 1]
    BY <1>1, <1>6, HeadTailProperties, LenProperties, EmptySeq
  <2>2. Removes(x, h) => DestroySent(h)'
    BY <1>2, <1>6 DEF DestroySent
  <2>3. ASSUME NEW i \in 1..Len(chan), Removes(chan[i], h) PROVE Removed(h)'
    <3>1. CASE i = 1
      BY <1>6, <2>1, <2>2, <2>3, <3>1 DEF Removed
    <3>2. CASE i # 1
      <4>1. i - 1 \in 1..(Len(chan) - 1) /\ (i - 1) + 1 = i
        BY <1>3, <3>2
      <4>2. Removes(Tail(chan)[i - 1], h)
        BY <2>1, <2>3, <4>1
      <4> QED BY <1>6, <2>1, <4>1, <4>2 DEF Removed
    <3> QED BY <3>1, <3>2
  <2> QED BY <1>4, <2>3 DEF Removed
<1> QED BY <1>5, <1>6

\* A known queue of a connected client exists, and the client has its channel.
LEMMA KnownIsThere ==
  ASSUME TrackInv, NEW h \in Handles, Up(h), BatchDone, h \in status.known, ~Removed(h)
  PROVE  Real(h) # "none" /\ PidOf[h] \in chans
<1> DEFINE p == PidOf[h]
<1>1. /\ p \in Pids /\ ServerInv /\ ThreadOK /\ Followed(p) /\ ProcessOK(p) /\ Tracked(h)
  BY StatusAssumption DEF TrackInv, DeathInv
<1>2. client[p] = "up" /\ Present(p) /\ ~Reported(p) /\ p \notin late
  BY <1>1 DEF Up, Present, Reported, ProcessOK
<1>3. PICK V, W, U : Heard(V, W, h) /\ OnTheWay(W, U, h)
  BY <1>1, <1>2 DEF Tracked, Traces
<1>4. PICK S : evq \in Seq(S) /\ chan \in Seq(S)
  BY <1>1 DEF ServerInv, Incoming, Queued
<1>5. Len(evq) \in Nat /\ Len(chan) \in Nat /\ batch = <<>> /\ Len(<<>>) = 0
  BY <1>1, <1>4, LenProperties DEF ThreadOK
<1>6. W[0] # "none"
  BY <1>3, <1>5 DEF Heard, ViewOf
<1>7. U[0] # "none"
  <2>1. W[Len(evq)] = "none" => \E k \in 1..Len(evq) : Removes(evq[k], h)
    BY <1>3, <1>5, <1>6 DEF Heard, Follows
  <2> QED BY <1>3, <2>1 DEF OnTheWay, Removed, DestroySent
<1>8. \A j \in 0..Len(chan) : U[j] # "none"
  <2> SUFFICES ASSUME NEW j \in 0..Len(chan), U[j] = "none" PROVE FALSE
    OBVIOUS
  <2>1. \E k \in 1..Len(chan) : Removes(chan[k], h)
    BY <1>3, <1>5, <1>7 DEF OnTheWay, Way, Follows
  <2> QED BY <2>1 DEF Removed
<1>9. Real(h) # "none"
  BY <1>2, <1>3, <1>5, <1>8 DEF OnTheWay
<1>10. ~Joined(chan, p)
  <2> SUFFICES ASSUME NEW i \in 1..Len(chan), Connects(chan[i], p) PROVE FALSE
    BY DEF Joined
  <2>1. U[i - 1] = "none" /\ i - 1 \in 0..Len(chan)
    BY <1>3, <1>5 DEF OnTheWay, Way, FromNothing
  <2> QED BY <1>8, <2>1
<1>11. ~Serves(p, {"terminated", "open"})
  BY <1>3, <1>7 DEF OnTheWay
<1> QED BY <1>1, <1>2, <1>9, <1>10, <1>11 DEF Followed

\* What a step has to leave alone for Told.
LEMMA ToldSame ==
  ASSUME NEW h, Told(h), Asked(h)' => Asked(h),
         UNCHANGED <<ops[PidOf[h]], h \in paused, h \in status.suspended>>
  PROVE  Told(h)'
BY DEF Told, AsOrdered

\* The queues of the clients: none is created while one of its name is known.
LEMMA QueueKeepsServed ==
  ASSUME ServedInv, TrackInv', NEW g \in Handles,
         ClientCreate(g) \/ ClientReady(g) \/ ClientIdle(g) \/ ClientDel(g) \/ ClientDestroy(g)
  PROVE  ServedInv'
<1>1. TrackInv /\ OpsOK /\ QueuesOK /\ ServerInv /\ \A h \in Handles : Told(h)
  BY DEF ServedInv, TrackInv, DeathInv
<1>2. UNCHANGED <<evq, status, wpc, final, fresh, todo, client, ops>>
  BY DEF ClientCreate, ClientReady, ClientIdle, ClientDel, ClientDestroy, QueueUnchanged,
         schedVars, clientVars
<1>3. OpsOK'
  BY <1>1, <1>2 DEF OpsOK
<1>4. ASSUME NEW h \in Handles, Removed(h) => Removed(h)', h \in Registered' => h \in Registered,
             UNCHANGED (h \in paused)
      PROVE  Told(h)'
  <2>1. Asked(h)' => Asked(h)
    BY <1>2, <1>4 DEF Asked, Up, BatchDone
  <2> QED BY <1>1, <1>2, <1>4, <2>1, ToldSame
<1>5. CASE ClientDel(g)
  <2>1. /\ chan' = chan /\ g \notin Registered'
        /\ \A h \in Handles : h # g => UNCHANGED <<phase[h], h \in paused>>
    BY <1>1, <1>5, ClientDelTells
  <2>2. \A h \in Handles : Removed(h)' <=> Removed(h)
    BY <1>2, <2>1 DEF Removed, DestroySent
  <2>3. ASSUME NEW h \in Handles PROVE Told(h)'
    <3>1. CASE h = g
      BY <2>1, <3>1 DEF Told, Asked
    <3>2. CASE h # g
      BY <1>4, <2>1, <2>2, <3>2 DEF Registered
    <3> QED BY <3>1, <3>2
  <2> QED BY <1>3, <2>3 DEF ServedInv
<1>6. CASE ClientCreate(g) \/ ClientReady(g) \/ ClientIdle(g) \/ ClientDestroy(g)
  <2>1. \A h \in Handles : h # g => UNCHANGED <<phase[h], h \in paused>>
    BY <1>1, <1>6, ClientTells
  <2>2. PICK e \in {CreateEvent(g), DestroyEvent(g), ReadyEvent(g), IdleEvent(g)} :
          /\ chan' = Append(chan, e)
          /\ e.type # "Create" => (g \in Registered' => g \in Registered) /\ UNCHANGED paused
          /\ e.type = "Create" => phase[g] = "none"
    BY <1>1, <1>6, ClientTells
  <2>3. \A h \in Handles : Removed(h) => Removed(h)'
    BY <1>1, <1>2, <2>2, RemovedStays
  <2>4. ASSUME NEW h \in Handles PROVE Told(h)'
    <3>1. CASE h # g
      BY <1>4, <2>1, <2>3, <3>1 DEF Registered
    <3>2. CASE h = g /\ e.type # "Create"
      BY <1>4, <2>2, <2>3, <3>2
    <3>3. CASE h = g /\ e.type = "Create"
      <4>1. Real(h) = "none"
        BY <2>2, <3>3 DEF Real
      <4>2. ~Asked(h)'
        BY <1>1, <1>2, <2>3, <4>1, KnownIsThere DEF Asked, Up, BatchDone
      <4> QED BY <4>2 DEF Told
    <3> QED BY <3>1, <3>2, <3>3
  <2> QED BY <1>3, <2>4 DEF ServedInv
<1> QED BY <1>5, <1>6

\* What is first and last in a sequence whose first element is taken.
LEMMA FirstAndLast ==
  ASSUME NEW S, NEW q \in Seq(S), q # <<>>
  PROVE  /\ Head(q) \in S /\ Tail(q) \in Seq(S)
         /\ \/ Tail(q) = <<>> /\ q[Len(q)] = Head(q)
            \/ Tail(q) # <<>> /\ Tail(q)[Len(Tail(q))] = q[Len(q)]
<1>1. /\ Len(q) \in Nat /\ Len(q) > 0 /\ Len(Tail(q)) = Len(q) - 1 /\ Head(q) = q[1]
      /\ \A i \in 1..(Len(q) - 1) : Tail(q)[i] = q[i + 1]
      /\ Head(q) \in S /\ Tail(q) \in Seq(S)
  BY HeadTailProperties, LenProperties, EmptySeq
<1>2. CASE Len(q) = 1
  <2>1. Len(Tail(q)) = 0 /\ q[Len(q)] = Head(q)
    BY <1>1, <1>2
  <2>2. Tail(q) = <<>>
    BY <1>1, <2>1, EmptySeq
  <2> QED BY <1>1, <2>1, <2>2
<1>3. CASE Len(q) > 1
  <2>1. Len(q) - 1 \in 1..(Len(q) - 1) /\ (Len(q) - 1) + 1 = Len(q)
    BY <1>1, <1>3
  <2>2. Tail(q)[Len(q) - 1] = q[Len(q)] /\ Len(Tail(q)) # 0
    BY <1>1, <1>3, <2>1
  <2>3. Tail(q) # <<>>
    BY <1>1, <2>2, EmptySeq
  <2> QED BY <1>1, <2>2, <2>3
<1> QED BY <1>1, <1>2, <1>3

\* The processes: a client carries out the orders one by one.
LEMMA ProcessKeepsServed ==
  ASSUME ServedInv, TrackInv', NEW p \in Pids, Join(p) \/ Leave(p) \/ Perform(p) \/ Die(p),
         MaxJoins <= 1
  PROVE  ServedInv'
<1>1. /\ TrackInv /\ OpsOK /\ QueuesOK /\ ServerInv /\ ClientsOK /\ OrdersOK /\ ProcessOK(p)
      /\ joins \in [Pids -> Nat] /\ MaxJoins \in Nat
      /\ \A h \in Handles : Told(h) /\ PidOf[h] \in Pids
  BY StatusAssumption, ServerAssumption DEF ServedInv, TrackInv, DeathInv
<1>2. /\ UNCHANGED <<evq, status, wpc, final, fresh, todo>>
      /\ \E x : chan' \in {chan, Append(chan, x)}
  BY DEF Join, Leave, Perform, Die, Tell, schedVars, recvVars
<1>3. \A h \in Handles : Removed(h) => Removed(h)'
  BY <1>1, <1>2, RemovedStays
<1>4. /\ \A h \in Handles : PidOf[h] # p => phase'[h] = phase[h]
      /\ \A q \in Pids : q # p => client'[q] = client[q]
  BY <1>1, ProcessSteps
<1>5. \A q \in Pids : q # p => ops'[q] = ops[q]
  BY <1>1 DEF Join, Leave, Perform, Die, OrdersOK
<1>6. \A h \in Handles : PidOf[h] # p => (h \in paused' <=> h \in paused)
  <2>1. CASE Join(p) \/ Leave(p) \/ Die(p)
    BY <2>1 DEF Join, Leave, Die, queueVars
  <2>2. CASE Perform(p)
    <3>1. /\ ops[p] # <<>>
          /\ \/ /\ Head(ops[p]).type = "Sched"
                /\ paused' = Carried(paused, Head(ops[p]).run, Head(ops[p]).stop)
             \/ paused' = paused
      BY <2>2 DEF Perform
    <3>2. Head(ops[p]) \in Orders(p) \cup {TerminateOperation}
      BY <1>1, <3>1, FirstAndLast DEF OpsOK
    <3>3. Head(ops[p]).type = "Sched" => Head(ops[p]) \in Orders(p)
      BY <3>2 DEF TerminateOperation
    <3> QED BY <3>1, <3>3 DEF Orders, Carried
  <2> QED BY <2>1, <2>2
<1>7. ASSUME NEW h \in Handles, PidOf[h] # p PROVE Told(h)'
  <2>1. Asked(h)' => Asked(h)
    BY <1>1, <1>2, <1>3, <1>4, <1>7 DEF Asked, Up, BatchDone, Registered
  <2> QED BY <1>1, <1>2, <1>5, <1>6, <1>7, <2>1, ToldSame
<1>8. CASE Join(p)
  <2>1. joins[p] = 0 /\ phase' = phase /\ ops' = ops
    BY <1>1, <1>8 DEF Join, queueVars
  <2>2. ASSUME NEW h \in Handles, PidOf[h] = p PROVE Told(h)'
    BY <1>1, <2>1, <2>2 DEF ProcessOK, Told, Asked, Registered
  <2> QED BY <1>1, <1>7, <2>1, <2>2 DEF ServedInv, OpsOK
<1>9. CASE Leave(p) \/ Die(p)
  <2>1. /\ client'[p] \in {"leaving", "dead"}
        /\ \/ ops' = [ops EXCEPT ![p] = Append(@, TerminateOperation)]
           \/ ops' = [ops EXCEPT ![p] = <<>>]
    BY <1>1, <1>9 DEF Leave, Die, ClientsOK
  <2>2. OpsOK'
    <3>1. ops'[p] \in {Append(ops[p], TerminateOperation), <<>>}
      BY <1>1, <2>1 DEF OrdersOK
    <3> DEFINE S == Orders(p) \cup {TerminateOperation}
    <3>2. ops[p] \in Seq(S) /\ TerminateOperation \in S
      BY <1>1 DEF OpsOK
    <3> HIDE DEF S
    <3>3. Append(ops[p], TerminateOperation) \in Seq(S) /\ <<>> \in Seq(S)
      BY <3>2, AppendProperties
    <3>4. ops'[p] \in Seq(S)
      BY <3>1, <3>3
    <3> QED BY <1>1, <1>5, <3>4 DEF OpsOK, S, Orders
  <2>3. ASSUME NEW h \in Handles, PidOf[h] = p PROVE Told(h)'
    BY <2>1, <2>3 DEF Told, Asked, Up
  <2> QED BY <1>7, <2>2, <2>3 DEF ServedInv
<1>10. CASE Perform(p)
  <2> DEFINE q == ops[p]
             o == Head(q)
  <2>1. /\ q # <<>> /\ UNCHANGED <<chan, phase>>
        /\ \/ /\ o.type = "Sched" /\ paused' = Carried(paused, o.run, o.stop)
              /\ ops'[p] = Tail(q) /\ UNCHANGED client
           \/ client'[p] = "off" /\ ops'[p] = <<>>
    BY <1>1, <1>10 DEF Perform, ClientsOK, OrdersOK, recvVars
  <2>2. q \in Seq(Orders(p) \cup {TerminateOperation})
    BY <1>1 DEF OpsOK
  <2>3. OpsOK'
    <3> DEFINE S == Orders(p) \cup {TerminateOperation}
    <3> HIDE DEF S
    <3>1. Tail(q) \in Seq(S) /\ <<>> \in Seq(S)
      BY <2>1, <2>2, FirstAndLast DEF S
    <3>2. ops'[p] \in Seq(S)
      BY <2>1, <3>1
    <3> QED BY <1>1, <1>5, <3>2 DEF OpsOK, S, Orders
  <2>4. ASSUME NEW h \in Handles, PidOf[h] = p PROVE Told(h)'
    <3> SUFFICES ASSUME Asked(h)' PROVE AsOrdered(h)'
      BY DEF Told
    <3>1. /\ o.type = "Sched" /\ paused' = Carried(paused, o.run, o.stop)
          /\ ops'[p] = Tail(q) /\ UNCHANGED client
      BY <2>1, <2>4 DEF Asked, Up
    <3>2. Asked(h)
      BY <1>2, <1>3, <2>1, <3>1 DEF Asked, Up, BatchDone, Registered
    <3>3. /\ h \in q[Len(q)].stop <=> h \in status.suspended
          /\ h \in q[Len(q)].run <=> h \notin status.suspended
          /\ h \in Registered
      BY <1>1, <2>1, <2>4, <3>2 DEF Told, AsOrdered, Asked
    <3>4. \/ Tail(q) = <<>> /\ q[Len(q)] = o
          \/ Tail(q) # <<>> /\ Tail(q)[Len(Tail(q))] = q[Len(q)]
      BY <2>1, <2>2, FirstAndLast
    <3> HIDE DEF q, o
    <3>5. CASE Tail(q) = <<>> /\ q[Len(q)] = o
      <4>1. h \in paused' <=> h \in status.suspended
        BY <3>1, <3>3, <3>5 DEF Carried
      <4> QED BY <1>2, <2>4, <3>1, <3>5, <4>1 DEF AsOrdered
    <3>6. CASE Tail(q) # <<>> /\ Tail(q)[Len(Tail(q))] = q[Len(q)]
      BY <1>2, <2>4, <3>1, <3>3, <3>6 DEF AsOrdered
    <3> QED BY <3>4, <3>5, <3>6
  <2> QED BY <1>7, <2>3, <2>4 DEF ServedInv
<1> QED BY <1>8, <1>9, <1>10

\* The threads of the server forward events, and hints are posted: neither
\* gives orders.
LEMMA ForwardKeepsServed ==
  ASSUME ServedInv, TrackInv',
         RecvWorker \/ WaitWorker \/ (\E e \in HintsOf[pol.type] : PostHint(e))
           \/ UNCHANGED allVars
  PROVE  ServedInv'
<1>1. TrackInv /\ OpsOK /\ ServerInv /\ \A h \in Handles : Told(h)
  BY DEF ServedInv, TrackInv, DeathInv
<1>2. UNCHANGED <<status, wpc, final, fresh, todo, phase, paused, client, ops>>
  <2>1. CASE RecvWorker
    BY <2>1 DEF RecvWorker, Receive, CleanUpProcess, OpenChannel, AddWait, PassOn, RecvUnchanged,
                schedVars, queueVars, clientVars
  <2>2. CASE WaitWorker
    BY <2>2 DEF WaitWorker, Wake, ReportDeath, CleanUpDead, WaitUnchanged, schedVars, queueVars,
                clientVars
  <2>3. CASE (\E e \in HintsOf[pol.type] : PostHint(e)) \/ UNCHANGED allVars
    BY <2>3 DEF PostHint, allVars, vars, schedVars, queueVars, serverVars, clientVars
  <2> QED BY <2>1, <2>2, <2>3
<1>3. ASSUME NEW h \in Handles PROVE Removed(h) => Removed(h)'
  <2>1. CASE Receive
    <3> DEFINE x == IF Head(chan).type = "ProcessCreate"
                    THEN ProcessEvent("ProcessDestroy", Head(chan).p) ELSE Head(chan)
    <3>1. chan # <<>> /\ chan' = Tail(chan) /\ evq' = Append(evq, x)
      BY <2>1 DEF Receive
    <3>2. Removes(Head(chan), h) => x = Head(chan)
      BY DEF Removes
    <3> HIDE DEF x
    <3> QED BY <1>1, <3>1, <3>2, RemovedStays
  <2>2. CASE ~Receive
    <3>1. chan' = chan /\ \E x : evq' \in {evq, Append(evq, x)}
      <4>1. CASE RecvWorker
        BY <2>2, <4>1 DEF RecvWorker, CleanUpProcess, OpenChannel, AddWait, PassOn
      <4>2. CASE WaitWorker
        BY <4>2 DEF WaitWorker, Wake, ReportDeath, CleanUpDead, WaitUnchanged, recvVars
      <4>3. CASE (\E e \in HintsOf[pol.type] : PostHint(e)) \/ UNCHANGED allVars
        BY <4>3 DEF PostHint, allVars, vars, serverVars, recvVars
      <4> QED BY <4>1, <4>2, <4>3
    <3> QED BY <1>1, <3>1, RemovedStays
  <2> QED BY <2>1, <2>2
<1>4. ASSUME NEW h \in Handles PROVE Told(h)'
  <2>1. Asked(h)' => Asked(h)
    BY <1>2, <1>3 DEF Asked, Up, BatchDone, Registered
  <2> QED BY <1>1, <1>2, <2>1, ToldSame
<1> QED BY <1>1, <1>2, <1>4 DEF ServedInv, OpsOK

\* The thread decides: after the batch it has to come to every process that has
\* a queue it knows.
LEMMA ScheduleKeepsServed ==
  ASSUME ServedInv, TrackInv', Schedule
  PROVE  ServedInv'
<1>1. /\ TrackInv /\ OpsOK /\ ServerInv /\ ThreadOK /\ GoodStatus(status) /\ GoodStatus(status')
      /\ \A h \in Handles : Told(h)
  BY DEF ServedInv, TrackInv, DeathInv, ServerInv
<1>2. UNCHANGED <<phase, paused, client, ops, chan>>
  BY DEF Schedule, TakeEvents, HandleEvent, FinishBatch, EndReschedule, queueVars, serverVars,
         clientVars, recvVars
<1>3. CASE TakeEvents
  <2>1. ~BatchDone'
    BY <1>3 DEF TakeEvents, BatchDone
  <2> QED BY <1>1, <1>2, <2>1 DEF ServedInv, OpsOK, Told, Asked
<1>4. CASE HandleEvent
  <2>1. wpc = "batch" /\ wpc' \in {"batch", "exec"} /\ final' = final
    BY <1>4 DEF HandleEvent, Reschedule
  <2>2. ~BatchDone'
    BY <1>1, <2>1 DEF ThreadOK, BatchDone
  <2> QED BY <1>1, <1>2, <2>2 DEF ServedInv, OpsOK, Told, Asked
<1>5. CASE FinishBatch
  <2>1. wpc' = "exec" /\ todo' = {p \in status'.procs : HasXQueues(status', p)}
    BY <1>1, <1>5, RescheduleKeeps DEF FinishBatch
  <2>2. ASSUME NEW h \in Handles PROVE Told(h)'
    <3>1. h \in status'.known => PidOf[h] \in todo'
      BY <1>1, <2>1, StatusAssumption DEF GoodStatus, Consistent, HasXQueues
    <3> QED BY <2>1, <3>1 DEF Told, Asked
  <2> QED BY <1>1, <1>2, <2>2 DEF ServedInv, OpsOK
<1>6. CASE EndReschedule
  <2>1. /\ wpc = "exec" /\ todo = {} /\ UNCHANGED <<evq, status, fresh, todo>>
        /\ IF final THEN wpc' \in {"wait", "off"} ELSE wpc' = "batch"
        /\ final' = FALSE
    BY <1>1, <1>6 DEF EndReschedule, ThreadOK
  <2>2. BatchDone' => BatchDone
    BY <2>1 DEF BatchDone
  <2>3. ASSUME NEW h \in Handles PROVE Told(h)'
    <3>1. Removed(h)' <=> Removed(h)
      BY <1>2, <2>1 DEF Removed, DestroySent
    <3>2. Asked(h)' => Asked(h)
      BY <1>2, <2>1, <2>2, <3>1 DEF Asked, Up, Registered
    <3> QED BY <1>1, <1>2, <2>1, <3>2, ToldSame
  <2> QED BY <1>1, <1>2, <2>3 DEF ServedInv, OpsOK
<1> QED BY <1>3, <1>4, <1>5, <1>6 DEF Schedule

\* The order for a process says which of its queues run, and which do not.
LEMMA ExecuteKeepsServed ==
  ASSUME ServedInv, TrackInv', NEW p \in Pids, Execute(p)
  PROVE  ServedInv'
<1> DEFINE o == [type |-> "Sched", run |-> status.running[p], stop |-> status.stopped[p]]
<1>1. /\ TrackInv /\ OpsOK /\ OrdersOK /\ Consistent(status) /\ status \in Status
      /\ \A h \in Handles : Told(h) /\ PidOf[h] \in Pids
  BY StatusAssumption DEF ServedInv, TrackInv, DeathInv, ServerInv, GoodStatus
<1>2. /\ wpc = "exec" /\ todo' = todo \ {p}
      /\ IF p \in chans /\ client[p] \in {"up", "leaving"}
         THEN ops' = [ops EXCEPT ![p] = Append(@, o)] ELSE ops' = ops
      /\ UNCHANGED <<evq, chan, status, wpc, final, fresh, phase, paused, client, chans>>
  BY DEF Execute, queueVars, recvVars, clientVars
<1>3. /\ o.type = "Sched"
      /\ \A h \in Handles : PidOf[h] = p =>
           (h \in o.stop <=> h \in status.suspended)
             /\ (h \in status.known => (h \in o.run <=> h \notin status.suspended))
      /\ o \in Orders(p)
  <2>1. /\ status.running[p] = {h \in status.known \ status.suspended : PidOf[h] = p}
        /\ status.stopped[p] = {h \in status.suspended : PidOf[h] = p}
        /\ status.known \subseteq Handles /\ status.suspended \subseteq Handles
    BY <1>1 DEF Consistent, Status
  <2> QED BY <2>1 DEF Orders
<1> HIDE DEF o
<1>4. OpsOK'
  <2> DEFINE S == Orders(p) \cup {TerminateOperation}
  <2>1. ops[p] \in Seq(S) /\ o \in S
    BY <1>1, <1>3 DEF OpsOK
  <2> HIDE DEF S
  <2>2. Append(ops[p], o) \in Seq(S)
    BY <2>1, AppendProperties
  <2>3. ops'[p] \in Seq(S) /\ \A q \in Pids : q # p => ops'[q] = ops[q]
    BY <1>1, <1>2, <2>1, <2>2 DEF OrdersOK
  <2> QED BY <1>1, <2>3 DEF OpsOK, S, Orders
<1>5. ASSUME NEW h \in Handles PROVE Told(h)'
  <2>1. Removed(h)' <=> Removed(h)
    BY <1>2 DEF Removed, DestroySent
  <2>2. CASE PidOf[h] # p
    <3>1. ops'[PidOf[h]] = ops[PidOf[h]]
      BY <1>1, <1>2, <2>2 DEF OrdersOK
    <3>2. Asked(h)' => Asked(h)
      BY <1>2, <2>1, <2>2 DEF Asked, Up, BatchDone, Registered
    <3> QED BY <1>1, <1>2, <3>1, <3>2, ToldSame
  <2>3. CASE PidOf[h] = p
    <3> SUFFICES ASSUME Asked(h)' PROVE AsOrdered(h)'
      BY DEF Told
    <3>1. /\ Up(h) /\ BatchDone /\ h \in status.known /\ ~Removed(h) /\ client[p] = "up"
      BY <1>2, <2>1, <2>3 DEF Asked, Up, BatchDone
    <3>2. p \in chans
      BY <1>1, <2>3, <3>1, KnownIsThere
    <3>3. ops'[p] = Append(ops[p], o)
      BY <1>1, <1>2, <3>1, <3>2 DEF OrdersOK
    <3>4. ops'[p] # <<>> /\ ops'[p][Len(ops'[p])] = o
      <4> DEFINE S == Orders(p) \cup {TerminateOperation}
      <4>1. ops[p] \in Seq(S)
        BY <1>1 DEF OpsOK
      <4> HIDE DEF S
      <4>2. /\ Len(ops[p]) \in Nat /\ Len(Append(ops[p], o)) = Len(ops[p]) + 1
            /\ Append(ops[p], o)[Len(ops[p]) + 1] = o
        BY <4>1, AppendProperties, LenProperties
      <4>3. Append(ops[p], o) # <<>>
        BY <4>2, EmptySeq
      <4> QED BY <3>3, <4>2, <4>3
    <3> QED BY <1>2, <1>3, <2>3, <3>1, <3>4 DEF AsOrdered
  <2> QED BY <2>2, <2>3
<1> QED BY <1>4, <1>5 DEF ServedInv

\* In the beginning no queue is suspended, and the policy has not been asked.
LEMMA ServedInit == ServerInit => ServedInv
<1> SUFFICES ASSUME ServerInit PROVE ServedInv
  OBVIOUS
<1>1. fresh /\ \A p \in Pids : ops[p] = <<>>
  BY DEF ServerInit
<1>2. OpsOK
  <2>1. \A S : <<>> \in Seq(S)
    BY EmptySeq
  <2> QED BY <1>1, <2>1 DEF OpsOK
<1> QED BY <1>1, <1>2, TrackInit DEF ServedInv, Told, Asked

\* Every step keeps the invariant.
LEMMA ServedNext ==
  ASSUME MaxJoins <= 1 PROVE ServedInv /\ [ServerNext]_allVars => ServedInv'
<1> SUFFICES ASSUME ServedInv, [ServerNext]_allVars PROVE ServedInv'
  OBVIOUS
<1>1. TrackInv'
  BY TrackNext DEF ServedInv
<1>2. CASE ClientNext
  BY <1>1, <1>2, QueueKeepsServed, ProcessKeepsServed DEF ClientNext
<1> QED BY <1>1, <1>2, ForwardKeepsServed, ScheduleKeepsServed, ExecuteKeepsServed
        DEF ServerNext

\* When everything has settled, the invariant says it.
LEMMA ClientsServedNow == ServedInv => ClientsServed
<1> SUFFICES ASSUME ServedInv, Settled, NEW h \in Handles, Up(h)
             PROVE  /\ h \in status.known <=> phase[h] # "none"
                    /\ h \in status.ready <=> h \in ReallyReady \cup busy
                    /\ h \in Registered => (h \in paused <=> h \in status.suspended)
  BY DEF ClientsServed
<1>1. /\ ServerInv /\ ThreadOK /\ QueuesOK /\ ProcessOK(PidOf[h]) /\ Tracked(h) /\ Told(h)
      /\ Consistent(status) /\ PidOf[h] \in Pids
  BY StatusAssumption DEF ServedInv, TrackInv, DeathInv, ServerInv, GoodStatus
<1>2. /\ evq = <<>> /\ chan = <<>> /\ wpc = "wait" /\ ~fresh /\ BatchDone /\ batch = <<>>
      /\ Len(<<>>) = 0 /\ ops[PidOf[h]] = <<>>
  BY <1>1 DEF Settled, Quiet, ThreadOK, BatchDone
<1>3. Present(PidOf[h]) /\ ~Reported(PidOf[h]) /\ PidOf[h] \notin late
  BY <1>1 DEF Up, Present, Reported, ProcessOK
<1>4. PICK V, W, U : Heard(V, W, h) /\ OnTheWay(W, U, h)
  BY <1>1, <1>3 DEF Tracked, Traces
<1>5. ViewOf(status, h) = Real(h)
  BY <1>2, <1>3, <1>4 DEF Heard, OnTheWay
<1>6. h \in status.known <=> phase[h] # "none"
  BY <1>5 DEF ViewOf, Real
<1>7. h \in status.ready <=> h \in ReallyReady \cup busy
  BY <1>1, <1>5 DEF ViewOf, Real, Consistent, ReallyReady, QueuesOK
<1>8. ~Removed(h)
  BY <1>2 DEF Removed, DestroySent
<1>9. ASSUME h \in Registered PROVE h \in paused <=> h \in status.suspended
  <2>1. h \in status.known
    BY <1>6, <1>9 DEF Registered
  <2> QED BY <1>1, <1>2, <1>8, <1>9, <2>1 DEF Told, Asked, AsOrdered
<1> QED BY <1>6, <1>7, <1>9

\* For every client that connects once: however messages and operations cross,
\* whichever clients die meanwhile and although operations for a process
\* without a channel are dropped, when everything has arrived the scheduler
\* knows the queues of the connected clients as they are, and they are
\* suspended as it says (RecvWorker and Execute in server.cpp, agent.cpp).
THEOREM ClientsAreServed == MaxJoins <= 1 => (ServerSpec => []ClientsServed)
<1> SUFFICES ASSUME MaxJoins <= 1 PROVE ServerSpec => []ClientsServed
  OBVIOUS
<1>1. ServedInv /\ [ServerNext]_allVars => ServedInv'
  BY ServedNext
<1> QED BY <1>1, ClientsServedNow, ServedInit, PTL DEF ServerSpec

-----------------------------------------------------------------------------
(* The devices                                                             *)

\* An event of a queue changes a right device of another one not, and gives its
\* own the right one if it is announced (UpdateStatus).
LEMMA UpdateDevice ==
  ASSUME NEW st, GoodStatus(st), NEW e, HandledEvent(e), NEW h \in Handles,
         h \in st.known => st.device[h] = DeviceOf[h],
         e.type \in {"Ready", "Idle"} /\ e.h = h => h \in st.known
  PROVE  LET new == UpdateStatus(st, e) IN h \in new.known => new.device[h] = DeviceOf[h]
<1>1. st \in Status
  BY DEF GoodStatus
<1>2. CASE e.type = "Create" /\ e.h \in Handles
  BY <1>1, <1>2 DEF UpdateStatus, XQueueCreate, CreateXQueueStatus, Status
<1>3. CASE e.type \in {"Destroy", "Idle"} /\ e.h \in Handles
  BY <1>1, <1>3 DEF UpdateStatus, XQueueDestroy, XQueueIdle, CreateXQueueStatus, Status
<1>4. CASE e.type = "Ready" /\ e.h \in Handles /\ e.age \in Nat
  <2> DEFINE new == CreateXQueueStatus(st, e.h, NoDevice, TRUE)
  <2>1. UpdateStatus(st, e) = XQueueReady(st, e.h, e.age)
    BY <1>4 DEF UpdateStatus
  <2>2. CASE e.h \in st.known
    BY <1>1, <2>1, <2>2 DEF XQueueReady, Status
  <2>3. CASE e.h \notin st.known
    <3>1. GoodStatus(new) /\ UpdateStatus(st, e) = [new EXCEPT !.age[e.h] = e.age]
      BY <1>4, <2>1, <2>3, CreateStatusGood DEF XQueueReady
    <3>2. h # e.h /\ (h \in new.known => h \in st.known) /\ new.device[h] = st.device[h]
      BY <1>1, <1>4, <2>3 DEF CreateXQueueStatus, Status
    <3> HIDE DEF new
    <3>3. UpdateStatus(st, e).known = new.known /\ UpdateStatus(st, e).device = new.device
      BY <3>1 DEF GoodStatus, Status
    <3> QED BY <3>2, <3>3
  <2> QED BY <2>2, <2>3
<1>5. CASE e.type \in {"ProcessCreate", "ProcessDestroy"} /\ e.p \in Pids
  BY <1>1, <1>5 DEF UpdateStatus, ProcessCreate, ProcessDestroy, Status
<1>6. CASE e.type \in {"Terminate", "Hint"}
  BY <1>6 DEF UpdateStatus
<1> QED BY <1>2, <1>3, <1>4, <1>5, <1>6 DEF HandledEvent

\* The scheduler knows the device of every queue whose process is not late.
DeviceKnown(h) ==
  PidOf[h] \notin late /\ h \in status.known => status.device[h] = DeviceOf[h]

\* The scheduler thread keeps this: a queue is announced with its device before
\* it becomes ready.
LEMMA ScheduleKeepsDevice ==
  ASSUME TrackInv, Schedule, NEW h \in Handles, DeviceKnown(h)
  PROVE  DeviceKnown(h)'
<1>1. ServerInv /\ GoodStatus(status) /\ Tracked(h)
  BY DEF TrackInv, DeathInv, ServerInv
<1>2. late' = late
  BY DEF Schedule, serverVars
<1> SUFFICES ASSUME PidOf[h] \notin late, h \in status'.known
             PROVE  status'.device[h] = DeviceOf[h]
  BY <1>2 DEF DeviceKnown
<1>3. CASE HandleEvent
  <2> DEFINE e == Head(batch)
             st == UpdateStatus(status, e)
  <2>1. /\ batch # <<>>
        /\ \/ status' = status /\ e.type \in {"Terminate", "Hint"}
           \/ Reschedule(st)
           \/ status' = st
    BY <1>3 DEF HandleEvent
  <2>2. PICK S : Queued(S)
    BY <1>1 DEF ServerInv, Incoming
  <2>3. HandledEvent(e) /\ batch \in Seq(S)
    BY <2>1, <2>2 DEF Queued
  <2>4. PICK V, W : Heard(V, W, h)
    BY <1>1 DEF Tracked, Traces
  <2>5. e.type \in {"Ready", "Idle"} /\ e.h = h => h \in status.known
    <3>1. 1 \in 1..Len(batch) /\ e = batch[1] /\ V[1 - 1] = V[0]
      BY <2>1, <2>3, LenProperties, EmptySeq, HeadTailProperties
    <3>2. e.type \in {"Ready", "Idle"} /\ e.h = h => V[0] # "none"
      BY <2>4, <3>1 DEF Heard, Announced
    <3> QED BY <2>4, <3>2 DEF Heard, ViewOf
  <2>6. GoodStatus(st) /\ (h \in st.known => st.device[h] = DeviceOf[h])
    BY <1>1, <2>3, <2>5, UpdateStatusGood, UpdateDevice DEF DeviceKnown
  <2>7. e.type \in {"Terminate", "Hint"} => st = status
    BY DEF UpdateStatus
  <2> HIDE DEF e, st
  <2> QED BY <2>1, <2>6, <2>7, RescheduleKeeps
<1>4. CASE FinishBatch
  BY <1>1, <1>4, RescheduleKeeps DEF FinishBatch, DeviceKnown
<1>5. CASE TakeEvents \/ EndReschedule
  BY <1>5 DEF TakeEvents, EndReschedule, DeviceKnown
<1> QED BY <1>3, <1>4, <1>5 DEF Schedule

-----------------------------------------------------------------------------
(* The policy: hints on their way, and what the decisions leave             *)

\* What is on its way holds hints there are.
TypedInv == PolicyOK(pol) /\ \E S : HintsIn(S) /\ chan \in Seq(S)

\* Moving such an event keeps it.
LEMMA MovesKeepsTyped ==
  ASSUME TypedInv, NEW x, TypedEvent(x), Moves(x), pol' = pol
  PROVE  TypedInv'
<1>1. PICK S : HintsIn(S) /\ chan \in Seq(S)
  BY DEF TypedInv
<1> DEFINE T == S \cup {x}
<1>2. evq \in Seq(T) /\ batch \in Seq(T) /\ chan \in Seq(T) /\ x \in T
  BY <1>1 DEF HintsIn
<1>3. \A e \in T : TypedEvent(e)
  BY <1>1 DEF HintsIn
<1> HIDE DEF T
<1>4. evq' \in Seq(T) /\ batch' \in Seq(T) /\ chan' \in Seq(T)
  <2>1. Append(evq, x) \in Seq(T) /\ Append(chan, x) \in Seq(T)
    BY <1>2
  <2>2. chan # <<>> => Tail(chan) \in Seq(T)
    BY <1>2
  <2> QED BY <1>2, <2>1, <2>2 DEF Moves
<1>5. HintsIn(T)'
  BY <1>3, <1>4 DEF HintsIn
<1> QED BY <1>4, <1>5 DEF TypedInv

\* What the scheduler thread works on.
SchedulerRests == UNCHANGED <<batch, status, pol, timers, wpc, final, fresh>>

\* The clients and the threads that receive and wait move events, and leave the
\* scheduler alone.
LEMMA OthersMove ==
  ASSUME ServerInv, TypedInv,
         \/ ClientNext \/ RecvWorker \/ WaitWorker
         \/ \E p \in Pids : Execute(p)
         \/ \E e \in HintsOf[pol.type] : PostHint(e)
         \/ UNCHANGED allVars
  PROVE  SchedulerRests /\ \E x : TypedEvent(x) /\ Moves(x)
<1>1. PICK S : HintsIn(S) /\ chan \in Seq(S)
  BY DEF TypedInv
<1>2. \A t, p : TypedEvent(ProcessEvent(t, p)) \/ t = "Hint"
  BY DEF TypedEvent, ProcessEvent
<1>3. CASE ClientNext
  <2>1. \A h : /\ TypedEvent(CreateEvent(h)) /\ TypedEvent(ReadyEvent(h))
               /\ TypedEvent(IdleEvent(h)) /\ TypedEvent(DestroyEvent(h))
    BY DEF TypedEvent, CreateEvent, ReadyEvent, IdleEvent, DestroyEvent
  <2>2. ASSUME NEW h \in Handles, ClientCreate(h) \/ ClientReady(h) \/ ClientIdle(h)
                                    \/ ClientDel(h) \/ ClientDestroy(h)
        PROVE  SchedulerRests /\ \E x : TypedEvent(x) /\ Moves(x)
    BY <2>1, <2>2 DEF ClientCreate, ClientReady, ClientIdle, ClientDel, ClientDestroy, Tell,
                      QueueUnchanged, schedVars, SchedulerRests, Moves
  <2>3. ASSUME NEW p \in Pids, Join(p) \/ Leave(p)
        PROVE  SchedulerRests /\ \E x : TypedEvent(x) /\ Moves(x)
    BY <1>2, <2>3 DEF Join, Leave, Tell, schedVars, SchedulerRests, Moves
  <2>4. ASSUME NEW p \in Pids, Perform(p) \/ Die(p)
        PROVE  SchedulerRests /\ \E x : TypedEvent(x) /\ Moves(x)
    BY <1>2, <2>4 DEF Perform, Die, schedVars, recvVars, SchedulerRests, Moves
  <2> QED BY <1>3, <2>2, <2>3, <2>4 DEF ClientNext
<1>4. CASE RecvWorker
  <2>1. SchedulerRests
    BY <1>4 DEF RecvWorker, Receive, CleanUpProcess, OpenChannel, AddWait, PassOn, RecvUnchanged,
                schedVars, SchedulerRests
  <2>2. rpc # "recv" => TypedEvent(rcv)
    BY DEF ServerInv, ThreadsOK, ProcessEvents, TypedEvent
  <2>3. CASE Receive
    <3>1. /\ chan # <<>> /\ chan' = Tail(chan)
          /\ \/ evq' = Append(evq, ProcessEvent("ProcessDestroy", Head(chan).p))
             \/ evq' = Append(evq, Head(chan))
      BY <2>3 DEF Receive
    <3>2. TypedEvent(Head(chan))
      BY <1>1, <3>1 DEF HintsIn
    <3> QED BY <1>2, <2>1, <3>1, <3>2 DEF Moves, SchedulerRests
  <2>4. CASE CleanUpProcess \/ OpenChannel
    BY <1>2, <2>1, <2>4 DEF CleanUpProcess, OpenChannel, Moves, SchedulerRests
  <2>5. CASE AddWait
    BY <1>2, <2>1, <2>5 DEF AddWait, Moves, SchedulerRests
  <2>6. CASE PassOn
    BY <2>1, <2>2, <2>6 DEF PassOn, Moves, SchedulerRests
  <2> QED BY <1>4, <2>3, <2>4, <2>5, <2>6 DEF RecvWorker
<1>5. CASE WaitWorker
  BY <1>2, <1>5 DEF WaitWorker, Wake, ReportDeath, CleanUpDead, WaitUnchanged, schedVars, recvVars,
                    SchedulerRests, Moves
<1>6. CASE \E p \in Pids : Execute(p)
  BY <1>2, <1>6 DEF Execute, recvVars, SchedulerRests, Moves
<1>7. CASE \E e \in HintsOf[pol.type] : PostHint(e)
  <2>1. PICK e \in HintsOf[pol.type] : PostHint(e)
    BY <1>7
  <2>2. pol.type \in PolicyType
    BY TypeOf DEF TypedInv, PolicyOK, PolicyType
  <2>3. TypedEvent([type |-> "Hint", hint |-> e])
    BY <2>2 DEF TypedEvent, GivenHints
  <2> QED BY <2>1, <2>3 DEF PostHint, schedVars, serverVars, recvVars, SchedulerRests, Moves
<1>8. CASE UNCHANGED allVars
  BY <1>2, <1>8 DEF allVars, vars, schedVars, serverVars, recvVars, SchedulerRests, Moves
<1> QED BY <1>3, <1>4, <1>5, <1>6, <1>7, <1>8

\* The scheduler thread takes events, changes the status by one, takes a hint,
\* or decides.
LEMMA ScheduleSteps ==
  ASSUME ServerInv, ThreadOK, TypedInv, Schedule
  PROVE  (Undecided \/ Updated \/ Hinted \/ Decided) /\ TypedInv'
<1>0. GoodStatus(status) /\ chan' = chan
  BY DEF ServerInv, Schedule, serverVars, recvVars
<1>1. PICK S : HintsIn(S) /\ chan \in Seq(S)
  BY DEF TypedInv
<1>2. Undecided \/ Updated \/ Hinted \/ Decided
  <2>1. CASE TakeEvents
    BY <2>1 DEF TakeEvents, Undecided, BatchDone
  <2>2. CASE EndReschedule
    BY <2>2 DEF EndReschedule, ThreadOK, Undecided, BatchDone
  <2>3. CASE FinishBatch
    BY <1>0, <2>3 DEF FinishBatch, Decided
  <2>4. CASE HandleEvent
    <3> DEFINE e == Head(batch)
               st == UpdateStatus(status, e)
    <3>1. wpc = "batch" /\ batch # <<>> /\ ~final
      BY <2>4 DEF HandleEvent, ThreadOK
    <3>2. PICK Q : Queued(Q)
      BY DEF ServerInv, Incoming
    <3>3. HandledEvent(e) /\ TypedEvent(e)
      BY <1>1, <3>1, <3>2 DEF Queued, HintsIn
    <3>4. GoodStatus(st) /\ st.suspended \subseteq status.suspended
      BY <1>0, <3>3, UpdateStatusGood, UpdateSuspendsNothing
    <3>5. \/ e.type = "Terminate" /\ UNCHANGED <<status, pol, timers, wpc, final, fresh>>
          \/ e.type = "Hint" /\ pol' = RecvHint(pol, e.hint)
               /\ UNCHANGED <<status, timers, wpc, final, fresh>>
          \/ Reschedule(st)
          \/ status' = st /\ UNCHANGED <<pol, timers, wpc, final, fresh>>
      BY <2>4 DEF HandleEvent
    <3> HIDE DEF e, st
    <3>6. wpc' = wpc /\ final' = final => ~BatchDone'
      BY <3>1 DEF BatchDone
    <3> QED BY <1>0, <3>1, <3>3, <3>4, <3>5, <3>6
            DEF Undecided, Updated, Hinted, Decided, TypedEvent, BatchDone
  <2> QED BY <2>1, <2>2, <2>3, <2>4 DEF Schedule
<1>3. PolicyOK(pol')
  <2>1. CASE Undecided \/ Updated
    BY <2>1 DEF Undecided, Updated, TypedInv
  <2>2. CASE Hinted
    <3>1. \A e \in GivenHints : TypedHint(e)
      BY SchedulerAssumption DEF GivenHints
    <3> QED BY <2>2, <3>1, RecvHintOK DEF Hinted, TypedInv
  <2>3. CASE Decided
    <3>1. PICK st : GoodStatus(st) /\ Reschedule(st)
      BY <2>3 DEF Decided
    <3> QED BY <3>1, SchedKeeps DEF Reschedule, TypedInv, GoodStatus
  <2> QED BY <1>2, <2>1, <2>2, <2>3
<1>4. HintsIn(S)'
  <2>1. /\ evq' = evq \/ evq' = <<>>
        /\ batch' = batch \/ batch' = evq \/ (batch # <<>> /\ batch' = Tail(batch))
    BY DEF Schedule, TakeEvents, HandleEvent, FinishBatch, EndReschedule
  <2>2. <<>> \in Seq(S) /\ (batch # <<>> => Tail(batch) \in Seq(S))
    BY <1>1 DEF HintsIn
  <2>3. evq' \in Seq(S) /\ batch' \in Seq(S)
    BY <1>1, <2>1, <2>2 DEF HintsIn
  <2> QED BY <1>1, <2>3 DEF HintsIn
<1> QED BY <1>0, <1>1, <1>2, <1>3, <1>4 DEF TypedInv

\* The invariant: what the clients are promised, the devices, and that the
\* decision in force leaves work running on every device that has some.
SurviveInv == ServedInv /\ TypedInv /\ WorkInv /\ \A h \in Handles : DeviceKnown(h)

\* In the beginning the policy has marked nothing.
LEMMA SurviveInit == ServerInit => SurviveInv
<1> SUFFICES ASSUME ServerInit PROVE SurviveInv
  OBVIOUS
<1>1. ServedInv
  BY ServedInit
<1>2. GoodStatus(status) /\ fresh /\ evq = <<>> /\ batch = <<>> /\ chan = <<>>
  BY <1>1 DEF ServerInit, ServedInv, TrackInv, DeathInv, ServerInv
<1>3. PICK t \in PolicyType : pol = InitPolicy(t)
  BY SchedulerAssumption DEF ServerInit
<1>4. TypedInv
  <2>1. HintsIn({}) /\ chan \in Seq({})
    BY <1>2 DEF HintsIn
  <2> QED BY <1>3, <2>1, InitPolicyOK DEF TypedInv
<1>5. WorkInv
  BY <1>2, <1>3, NewMarks DEF WorkInv
<1>6. ASSUME NEW h \in Handles PROVE DeviceKnown(h)
  <2>1. PICK Q, J : status = [StatusWith(Q) EXCEPT !.procs = J]
    BY DEF ServerInit
  <2>2. status.known = Q /\ status.device[h] = IF h \in Q THEN DeviceOf[h] ELSE NoDevice
    BY <2>1 DEF StatusWith
  <2> QED BY <2>2 DEF DeviceKnown
<1> QED BY <1>1, <1>4, <1>5, <1>6 DEF SurviveInv

\* Every step keeps it.
LEMMA SurviveNext ==
  ASSUME MaxJoins <= 1 PROVE SurviveInv /\ [ServerNext]_allVars => SurviveInv'
<1> SUFFICES ASSUME SurviveInv, [ServerNext]_allVars PROVE SurviveInv'
  OBVIOUS
<1>1. /\ ServedInv' /\ TrackInv /\ ServerInv /\ ThreadOK /\ TypedInv /\ WorkInv
      /\ GoodStatus(status) /\ PolicyOK(pol) /\ \A h \in Handles : DeviceKnown(h)
  BY ServedNext DEF SurviveInv, ServedInv, TrackInv, DeathInv, ServerInv, TypedInv
<1>2. CASE Schedule
  <2>1. (Undecided \/ Updated \/ Hinted \/ Decided) /\ TypedInv'
    BY <1>1, <1>2, ScheduleSteps
  <2>2. WorkInv'
    BY <1>1, <2>1, StepsKeepWork
  <2>3. ASSUME NEW h \in Handles PROVE DeviceKnown(h)'
    BY <1>1, <1>2, ScheduleKeepsDevice
  <2> QED BY <1>1, <2>1, <2>2, <2>3 DEF SurviveInv
<1>3. CASE ~Schedule
  <2>1. SchedulerRests /\ \E x : TypedEvent(x) /\ Moves(x)
    BY <1>1, <1>3, OthersMove DEF ServerNext
  <2>2. TypedInv'
    BY <1>1, <2>1, MovesKeepsTyped DEF SchedulerRests
  <2>3. WorkInv'
    BY <1>1, <2>1 DEF SchedulerRests, WorkInv, BatchDone
  <2>4. late \subseteq late'
    BY <1>3 DEF ServerNext, ClientNext, ClientCreate, ClientReady, ClientIdle, ClientDel,
      ClientDestroy, QueueUnchanged, Join, Leave, Perform, Die, RecvWorker, Receive, CleanUpProcess,
      OpenChannel, AddWait, PassOn, WaitWorker, Wake, ReportDeath, CleanUpDead, WaitUnchanged,
      Execute, PostHint, allVars, serverVars
  <2>5. ASSUME NEW h \in Handles PROVE DeviceKnown(h)'
    BY <1>1, <2>1, <2>4 DEF SchedulerRests, DeviceKnown
  <2> QED BY <1>1, <2>2, <2>3, <2>5 DEF SurviveInv
<1> QED BY <1>2, <1>3

\* When everything has settled, the queue that runs on a device is one of a
\* connected client.
LEMMA SurvivorsRunNow == SurviveInv => (PerDevice => SurvivorsRun)
<1> SUFFICES ASSUME SurviveInv, PerDevice, Settled, late = {}, NEW h \in ReallyReady, Up(h)
             PROVE  \E g \in ReallyReady \cup busy : g \notin paused /\ DeviceOf[g] = DeviceOf[h]
  BY DEF SurvivorsRun
<1>1. /\ ClientsServed /\ DeadForgotten /\ GoodStatus(status) /\ QueuesOK /\ WorkInv
      /\ h \in Handles /\ \A g \in Handles : DeviceKnown(g) /\ PidOf[g] \in Pids
  BY ClientsServedNow, DeadForgottenNow, StatusAssumption
     DEF SurviveInv, ServedInv, TrackInv, DeathInv, ServerInv, ReallyReady
<1>2. BatchDone /\ ~fresh
  BY DEF Settled, Quiet, BatchDone
<1>3. h \in ReadyQueues(status) /\ status.device[h] = DeviceOf[h]
  BY <1>1 DEF ClientsServed, ReallyReady, ReadyQueues, DeviceKnown
<1>4. Working(pol, status) /\ OfDevice(pol) /\ MayRun(pol, status, h)
  BY <1>1, <1>2 DEF WorkInv, WorkOK, PerDevice, OfDevice, MayRun
<1>5. PICK g \in ReadyQueues(status) : /\ g \notin status.suspended
                                       /\ status.device[g] = status.device[h]
  BY <1>3, <1>4 DEF Working, Rivals
<1>6. g \in Handles /\ g \in status.known /\ g \in status.ready
  BY <1>1, <1>5 DEF GoodStatus, Status, ReadyQueues
<1>7. Up(g)
  BY <1>1, <1>6 DEF GoodStatus, Consistent, DeadForgotten, Alive, Up
<1>8. g \in ReallyReady \cup busy /\ (g \in Registered => g \notin paused)
  BY <1>1, <1>5, <1>6, <1>7 DEF ClientsServed
<1>9. g \notin paused
  BY <1>1, <1>8 DEF QueuesOK
<1>10. status.device[g] = DeviceOf[g]
  BY <1>1, <1>6 DEF DeviceKnown
<1> QED BY <1>3, <1>5, <1>8, <1>9, <1>10

\* The devices go on with the queues of the clients that are left: under the
\* policies that share each device on its own, when everything has settled and
\* no dead client has been brought back by late events, a device with ready
\* work of a connected client runs a queue of a connected client, although
\* every decision before was made with the queues of those who have died
\* (ProcessTerminate in server.cpp, ProcessDestroyEvent in status.h).
THEOREM SurvivorsKeepRunning ==
  MaxJoins <= 1 => (ServerSpec => [](PerDevice => SurvivorsRun))
<1> SUFFICES ASSUME MaxJoins <= 1 PROVE ServerSpec => [](PerDevice => SurvivorsRun)
  OBVIOUS
<1>1. SurviveInv /\ [ServerNext]_allVars => SurviveInv'
  BY SurviveNext
<1> QED BY <1>1, SurviveInit, SurvivorsRunNow, PTL DEF ServerSpec

=============================================================================

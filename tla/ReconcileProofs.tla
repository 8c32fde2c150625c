-------------------------- MODULE ReconcileProofs --------------------------
(***************************************************************************)
(* Proofs about Reconcile for every set of nodes, peers and handlers, and  *)
(* every choice of what the environment may do.                            *)
(***************************************************************************)
EXTENDS Reconcile, SequenceTheorems, WellFoundedInduction, TLAPS

(* The request record a handler holds when it serves nothing is a request. *)
LEMMA IdleType == Idle \in Call
  BY NodeAssumption DEF Idle, Call, Job, ServiceStatus

(* The rows of the queue ask for what they asked for before. *)
SameRequests(before, after) ==
  /\ after \in Seq(TaskRow)
  /\ DOMAIN after = DOMAIN before
  /\ \A j \in DOMAIN before : /\ after[j].node = before[j].node /\ after[j].kind = before[j].kind
                              /\ after[j].rev = before[j].rev /\ after[j].peers = before[j].peers

(* Marking a row pending, running or finished changes nothing else of the queue. *)
LEMMA StatusUpdate ==
  ASSUME NEW ts \in Seq(TaskRow), NEW i \in DOMAIN ts, NEW s \in TaskStatus
  PROVE  SameRequests(ts, [ts EXCEPT ![i].status = s])
<1> DEFINE row == [ts[i] EXCEPT !.status = s]
           after == [ts EXCEPT ![i] = row]
<1>1. DOMAIN ts = 1 .. Len(ts)
  BY LenProperties
<1>2. ts[i] \in TaskRow
  BY <1>1, ElementOfSeq
<1>3. /\ row \in TaskRow
      /\ row.node = ts[i].node /\ row.kind = ts[i].kind /\ row.rev = ts[i].rev /\ row.peers = ts[i].peers
  BY <1>2 DEF TaskRow
<1>4. after \in Seq(TaskRow)
  BY <1>1, <1>3, ExceptSeq
<1>5. /\ DOMAIN after = DOMAIN ts
      /\ \A j \in DOMAIN ts : after[j] = IF j = i THEN row ELSE ts[j]
  OBVIOUS
<1>6. [ts EXCEPT ![i].status = s] = after
  OBVIOUS
<1> HIDE DEF row, after
<1>7. SameRequests(ts, after)
  BY <1>3, <1>4, <1>5 DEF SameRequests
<1> QED
  BY <1>6, <1>7

(* Enqueueing keeps every earlier row. *)
LEMMA EnqueueType ==
  ASSUME NEW ts \in Seq(TaskRow), NEW row \in TaskRow
  PROVE  /\ Append(ts, row) \in Seq(TaskRow)
         /\ DOMAIN ts \subseteq DOMAIN Append(ts, row)
         /\ DOMAIN Append(ts, row) = DOMAIN ts \union {Len(ts) + 1}
         /\ Len(ts) + 1 \notin DOMAIN ts
         /\ \A j \in DOMAIN ts : Append(ts, row)[j] = ts[j] /\ j < Len(ts) + 1
         /\ Append(ts, row)[Len(ts) + 1] = row
  OBVIOUS

(* An idle request with the fields a handler fills in is a request. *)
LEMMA QueuedType ==
  ASSUME TypeOK, NEW h \in Handler, NEW n \in Node, NEW request \in Call, EnterLock(h, n, request)
  PROVE  call' \in [Handler -> Call] /\ queue' \in [Node -> Seq(Handler)]
<1>1. [request EXCEPT !.pc = "queued", !.node = n] \in Call
  BY DEF Call
<1>2. Append(queue[n], h) \in Seq(Handler)
  BY DEF TypeOK
<1> QED
  BY <1>1, <1>2 DEF TypeOK, EnterLock

(* A handler that leaves the lock holds a request again, and the queue holds handlers. *)
LEMMA LeaveType ==
  ASSUME TypeOK, NEW h \in Handler, NEW ok \in BOOLEAN, LeaveLock(h, ok), HoldsLock(h, call[h].node)
  PROVE  call' \in [Handler -> Call] /\ queue' \in [Node -> Seq(Handler)]
<1>1. call[h] \in Call /\ call[h].node \in Node
  BY DEF TypeOK, Call
<1>2. [call[h] EXCEPT !.pc = "back", !.ok = ok] \in Call
  BY <1>1 DEF Call
<1>3. Tail(queue[call[h].node]) \in Seq(Handler)
  BY <1>1 DEF TypeOK, HoldsLock
<1> QED
  BY <1>1, <1>2, <1>3 DEF TypeOK, LeaveLock

(* A freshly enqueued task is a row. *)
LEMMA TaskType ==
  ASSUME NEW kind \in TaskKind, NEW n \in Node, NEW rev \in Nat, NEW peers \in SUBSET Peer
  PROVE  Task(kind, n, rev, peers) \in TaskRow
  BY DEF Task, TaskRow, TaskStatus

(* Pulling keeps the queue and what its rows ask for. *)
LEMMA TakeType ==
  ASSUME NEW n \in Node, tasks \in Seq(TaskRow), Take(n)
  PROVE  SameRequests(tasks, tasks')
<1> DEFINE taken(i) == [tasks[i] EXCEPT !.status = "running", !.attempts = @ + 1]
<1>1. DOMAIN tasks = 1 .. Len(tasks) /\ Len(tasks) \in Nat
  BY LenProperties
<1>2. ASSUME NEW i \in DOMAIN tasks
      PROVE  /\ tasks[i] \in TaskRow /\ taken(i) \in TaskRow
             /\ taken(i).node = tasks[i].node /\ taken(i).kind = tasks[i].kind
             /\ taken(i).rev = tasks[i].rev /\ taken(i).peers = tasks[i].peers
  <2>1. tasks[i] \in TaskRow
    BY <1>1, ElementOfSeq
  <2>2. tasks[i].attempts + 1 \in Nat
    BY <2>1 DEF TaskRow
  <2> QED
    BY <2>1, <2>2 DEF TaskRow, TaskStatus
<1>3. DOMAIN tasks' = DOMAIN tasks
      /\ \A i \in DOMAIN tasks : tasks'[i] = IF i \in Pending(n) THEN taken(i) ELSE tasks[i]
  BY DEF Take
<1>4. tasks' \in [1 .. Len(tasks) -> TaskRow]
  <2>1. tasks' = [i \in DOMAIN tasks |-> IF i \in Pending(n) THEN taken(i) ELSE tasks[i]]
    BY DEF Take
  <2> HIDE DEF taken
  <2> QED
    BY <2>1, <1>1, <1>2
<1>5. tasks' \in Seq(TaskRow)
  BY <1>1, <1>4, SeqDef
<1> HIDE DEF taken
<1> QED
  BY <1>2, <1>3, <1>5 DEF SameRequests

-----------------------------------------------------------------------------
(* Type correctness. It needs the lock: a build leaves the queue it is the head of. *)

(* A build that has read, or written, still runs inside its node's lock. *)
LockHeld == \A h \in Handler : call[h].pc \in {"read", "wrote"} => HoldsLock(h, call[h].node)

(* The first state is well typed, and no build runs in it. *)
LEMMA TypeInit == Init => TypeOK /\ LockHeld
<1> SUFFICES ASSUME Init PROVE TypeOK /\ LockHeld
  OBVIOUS
<1>1. call \in [Handler -> Call]
  BY IdleType DEF Init
<1>2. /\ \A n \in Node : access[n] \in SUBSET Peer
      /\ desired \in [Node -> [rev : Nat, peers : SUBSET Peer]]
  BY DEF Init
<1>3. agent \in [Node -> AgentRow]
  BY <1>2 DEF Init, AgentRow
<1>4. tasks \in Seq(TaskRow) /\ queue \in [Node -> Seq(Handler)]
  BY EmptySeq DEF Init
<1>5. /\ service \in [Node -> ServiceRow]
      /\ observed \in [Node -> [rev : Nat, status : {"none", "applied", "disabled"}]]
  BY DEF Init, ServiceStatus, ServiceRow
<1>6. epoch \in Nat \ {0} /\ events \in Nat /\ charge \in [owed : Nat, lost : Nat]
  BY DEF Init
<1>7. access \in [Node -> SUBSET Peer] /\ boundary \in BOOLEAN /\ minute \in {"idle", "passed"}
  BY DEF Init
<1>8. reconciled \in [Node -> Nat] /\ advertised \in [Node -> BOOLEAN]
  BY DEF Init
<1>9. (\A n \in Node : agent[n].batch = {}) /\ results = {}
  BY DEF Init
<1>10. LockHeld
  BY DEF Init, LockHeld, Idle
<1> QED
  BY <1>1, <1>2, <1>3, <1>4, <1>5, <1>6, <1>7, <1>8, <1>9, <1>10 DEF TypeOK

(* What the helper actions leave behind. *)
LEMMA HappensType ==
  ASSUME TypeOK, NEW e \in EnvEvents, Happens(e)
  PROVE  events' \in Nat
  BY DEF TypeOK, Happens

(* Setting one node's service status keeps the services well typed. *)
LEMMA StatusType ==
  ASSUME TypeOK, NEW n \in Node, NEW s \in ServiceStatus
  PROVE  [service EXCEPT ![n].status = s] \in [Node -> ServiceRow]
<1>1. service[n] \in ServiceRow
  BY DEF TypeOK
<1>2. [service[n] EXCEPT !.status = s] \in ServiceRow
  BY <1>1 DEF ServiceRow
<1> QED
  BY <1>2 DEF TypeOK

(* So does the guarded update the controller makes. *)
LEMMA SetStatusType ==
  ASSUME TypeOK, NEW n \in Node, NEW s \in ServiceStatus, SetStatus(n, s)
  PROVE  service' \in [Node -> ServiceRow]
  BY StatusType DEF SetStatus

(* Marking a node reconciled, or skipping the mark, keeps an epoch for every node. *)
LEMMA MarkType ==
  ASSUME TypeOK, NEW n \in Node, NEW due \in Nat, MarkNodeReconciled(n, due)
  PROVE  reconciled' \in [Node -> Nat]
<1>1. reconciled \in [Node -> Nat]
  BY DEF TypeOK
<1>2. CASE due = 0
  BY <1>1, <1>2 DEF MarkNodeReconciled
<1>3. CASE due # 0
  BY <1>1, <1>3 DEF MarkNodeReconciled
<1> QED
  BY <1>2, <1>3

(* Steps of the environment, the minute job and the safety interval. *)
LEMMA TypeAside ==
  ASSUME TypeOK,
         \/ AccessBoundary \/ QuotaEnds \/ QuotaMark \/ ChargeThrows \/ MinuteStart \/ MinuteMark \/ MinuteAbort
         \/ \E n \in Node : SafetyInterval(n) \/ AdvertisedChanges(n)
         \/ \E h \in Handler, n \in Node : HeartbeatSkip(h, n) \/ HeartbeatIdle(h, n)
  PROVE  TypeOK'
<1>1. CASE AccessBoundary
  <2>1. access' \in [Node -> SUBSET Peer] /\ boundary' \in BOOLEAN /\ events' \in Nat
    BY <1>1 DEF TypeOK, AccessBoundary, Happens
  <2>2. UNCHANGED <<advertised, agent, minute, charge, epoch, reconciled, queue, call, results, service, desired, tasks, observed>>
    BY <1>1 DEF AccessBoundary, controllerMemory, database
  <2> QED
    BY <2>1, <2>2 DEF TypeOK
<1>2. CASE QuotaEnds \/ QuotaMark \/ ChargeThrows
  <2>1. access' \in [Node -> SUBSET Peer] /\ events' \in Nat /\ epoch' \in Nat \ {0}
    <3>1. CASE QuotaEnds
      BY <3>1 DEF TypeOK, QuotaEnds, Happens
    <3>2. CASE QuotaMark
      BY <3>2 DEF TypeOK, QuotaMark
    <3>3. CASE ChargeThrows
      BY <3>3 DEF TypeOK, ChargeThrows, Happens
    <3> QED
      BY <1>2, <3>1, <3>2, <3>3
  <2>2. charge' \in [owed : Nat, lost : Nat]
    <3>1. charge \in [owed : Nat, lost : Nat] /\ charge.owed \in Nat /\ epoch \in Nat
      BY DEF TypeOK
    <3>2. charge.owed > 0 => charge.owed - 1 \in Nat
      BY <3>1
    <3> QED
      BY <1>2, <3>1, <3>2 DEF QuotaEnds, QuotaMark, ChargeThrows
  <2>3. UNCHANGED <<boundary, minute, reconciled, queue, call, results, advertised, agent, service, desired, tasks, observed>>
    BY <1>2 DEF QuotaEnds, QuotaMark, ChargeThrows, database
  <2> QED
    BY <2>1, <2>2, <2>3 DEF TypeOK
<1>3. CASE MinuteStart
  BY <1>3 DEF TypeOK, MinuteStart, database
<1>4. CASE MinuteMark
  BY <1>4 DEF TypeOK, MinuteMark, database
<1>5. CASE MinuteAbort
  BY <1>5 DEF TypeOK, MinuteAbort, Happens, database
<1>6. ASSUME NEW n \in Node, SafetyInterval(n) PROVE TypeOK'
  BY <1>6 DEF TypeOK, SafetyInterval, database
<1>7. ASSUME NEW n \in Node, AdvertisedChanges(n) PROVE TypeOK'
  BY <1>7 DEF TypeOK, AdvertisedChanges, Happens, controllerMemory, database
<1>8. ASSUME NEW h \in Handler, NEW n \in Node, HeartbeatSkip(h, n) PROVE TypeOK'
  <2>1. Due(n) \in Nat
    BY DEF TypeOK, Due
  <2>2. reconciled' \in [Node -> Nat]
    BY <1>8, <2>1, MarkType DEF HeartbeatSkip
  <2>3. UNCHANGED <<access, boundary, advertised, agent, events, minute, charge, epoch, queue, call, results, service, desired, tasks, observed>>
    BY <1>8 DEF HeartbeatSkip, database
  <2> QED
    BY <2>2, <2>3 DEF TypeOK
<1>9. ASSUME NEW h \in Handler, NEW n \in Node, HeartbeatIdle(h, n) PROVE TypeOK'
  BY <1>9 DEF TypeOK, HeartbeatIdle, vars, controllerMemory, database
<1> QED
  BY <1>1, <1>2, <1>3, <1>4, <1>5, <1>6, <1>7, <1>8, <1>9

(* What the queue holds stays, and may grow: batches and reports still name their rows. *)
RowsKept ==
  /\ tasks' \in Seq(TaskRow)
  /\ DOMAIN tasks \subseteq DOMAIN tasks'
  /\ \A j \in DOMAIN tasks : tasks'[j].node = tasks[j].node

(* Batches and reports go on naming rows when the queue only grows. *)
LEMMA RowsNamedKept ==
  ASSUME TypeOK, RowsKept, UNCHANGED <<agent, results>>
  PROVE  /\ \A n \in Node : \A i \in agent'[n].batch : i \in DOMAIN tasks' /\ tasks'[i].node = n
         /\ results' \subseteq ReportRow /\ \A r \in results' : r.task \in DOMAIN tasks'
  BY DEF TypeOK, RowsKept

(* The queue only grows when a task is enqueued. *)
LEMMA EnqueueKeepsRows ==
  ASSUME TypeOK, NEW row \in TaskRow, Enqueue(row)
  PROVE  RowsKept
<1>1. tasks \in Seq(TaskRow)
  BY DEF TypeOK
<1> QED
  BY <1>1, EnqueueType DEF Enqueue, RowsKept

(* Steps of a build, from the head of its queue. *)
LEMMA TypeBuild ==
  ASSUME TypeOK, LockHeld, NEW h \in Handler, BuildStep(h) \/ BuildThrows(h) \/ EnqueueThrows(h)
  PROVE  TypeOK'
<1> DEFINE n == call[h].node
<1>1. call[h] \in Call /\ n \in Node
  BY DEF TypeOK, Call
<1>2. access[n] \in SUBSET Peer /\ desired[n] \in [rev : Nat, peers : SUBSET Peer]
  BY <1>1 DEF TypeOK
<1>3. call[h].pc \in {"read", "wrote"} => HoldsLock(h, n)
  BY DEF LockHeld
<1>4. CASE BuildRead(h)
  <2>1. [call[h] EXCEPT !.pc = "read", !.peers = access[n], !.rev = desired[n].rev,
                        !.changed = (desired[n].rev = 0 \/ desired[n].peers # access[n])] \in Call
    BY <1>1, <1>2 DEF Call
  <2>2. call' \in [Handler -> Call]
    BY <1>4, <2>1 DEF BuildRead, TypeOK
  <2> QED
    BY <1>4, <2>2 DEF TypeOK, BuildRead, database
<1>5. CASE BuildRefused(h)
  <2>1. call' \in [Handler -> Call] /\ queue' \in [Node -> Seq(Handler)]
    BY <1>5, LeaveType DEF BuildRefused
  <2> QED
    BY <1>5, <2>1 DEF TypeOK, BuildRefused, database
<1>6. CASE BuildThrows(h)
  <2>1. call' \in [Handler -> Call] /\ queue' \in [Node -> Seq(Handler)]
    BY <1>6, LeaveType DEF BuildThrows
  <2>2. events' \in Nat
    BY <1>6 DEF BuildThrows, Happens, TypeOK
  <2> QED
    BY <1>6, <2>1, <2>2 DEF TypeOK, BuildThrows, database
<1>7. CASE BuildWrite(h)
  <2>1. CASE call[h].changed
    <3>1. [call[h] EXCEPT !.pc = "wrote", !.rev = @ + 1] \in Call
      <4>1. call[h].rev + 1 \in Nat
        BY <1>1 DEF Call
      <4> QED
        BY <1>1, <4>1 DEF Call
    <3>2. [rev |-> call[h].rev + 1, peers |-> call[h].peers] \in [rev : Nat, peers : SUBSET Peer]
      BY <1>1 DEF Call
    <3>3. call' \in [Handler -> Call]
      BY <1>7, <2>1, <3>1 DEF TypeOK, BuildWrite
    <3>4. desired' \in [Node -> [rev : Nat, peers : SUBSET Peer]]
      BY <1>7, <2>1, <3>2 DEF TypeOK, BuildWrite
    <3>5. epoch' \in Nat \ {0} /\ queue' = queue
      BY <1>7, <2>1 DEF TypeOK, BuildWrite
    <3> QED
      BY <1>7, <3>3, <3>4, <3>5 DEF TypeOK, BuildWrite
  <2>2. CASE ~call[h].changed /\ call[h].force
    <3>1. [call[h] EXCEPT !.pc = "wrote"] \in Call
      BY <1>1 DEF Call
    <3>2. call' \in [Handler -> Call]
      BY <1>7, <2>2, <3>1 DEF TypeOK, BuildWrite
    <3> QED
      BY <1>7, <2>2, <3>2 DEF TypeOK, BuildWrite
  <2>3. CASE ~call[h].changed /\ ~call[h].force
    <3>1. call' \in [Handler -> Call] /\ queue' \in [Node -> Seq(Handler)]
      BY <1>3, <1>7, <2>3, LeaveType DEF BuildWrite
    <3> QED
      BY <1>7, <2>3, <3>1 DEF TypeOK, BuildWrite
  <2> QED
    BY <1>7, <2>1, <2>2, <2>3 DEF BuildWrite
<1>8. CASE BuildEnqueue(h)
  <2>1. call' \in [Handler -> Call] /\ queue' \in [Node -> Seq(Handler)]
    BY <1>3, <1>8, LeaveType DEF BuildEnqueue
  <2>2. Task("Apply", n, call[h].rev, call[h].peers) \in TaskRow
    BY <1>1, TaskType DEF TaskKind, Call
  <2>3. RowsKept
    BY <1>8, <2>2, EnqueueKeepsRows DEF BuildEnqueue
  <2> QED
    BY <1>8, <2>1, <2>3, RowsNamedKept DEF TypeOK, BuildEnqueue, RowsKept
<1>9. CASE EnqueueThrows(h)
  <2>1. call' \in [Handler -> Call] /\ queue' \in [Node -> Seq(Handler)]
    BY <1>3, <1>9, LeaveType DEF EnqueueThrows
  <2>2. events' \in Nat
    BY <1>9 DEF EnqueueThrows, Happens, TypeOK
  <2> QED
    BY <1>9, <2>1, <2>2 DEF TypeOK, EnqueueThrows, database
<1> QED
  BY <1>4, <1>5, <1>6, <1>7, <1>8, <1>9 DEF BuildStep

(* A heartbeat that starts, and what it does when its rebuild returns. *)
LEMMA TypeHeartbeat ==
  ASSUME TypeOK, NEW h \in Handler,
         \/ \E n \in Node : HeartbeatRebuild(h, n) \/ HeartbeatDeploy(h, n) \/ HeartbeatUnsupported(h, n)
         \/ HeartbeatBuilt(h) \/ HeartbeatRestore(h)
  PROVE  TypeOK'
<1>1. call[h] \in Call /\ call[h].node \in Node /\ call[h].due \in Nat
  BY DEF TypeOK, Call
<1>2. \A n \in Node : Due(n) \in Nat /\ service[n].status \in ServiceStatus /\ agent[n].on \in BOOLEAN
  BY DEF TypeOK, Due, ServiceRow, AgentRow
<1>5. [call EXCEPT ![h] = Idle] \in [Handler -> Call]
  BY IdleType DEF TypeOK
<1>6. ASSUME NEW n \in Node, HeartbeatRebuild(h, n) PROVE TypeOK'
  <2>1. [Idle EXCEPT !.due = Due(n), !.was = service[n].status, !.live = agent[n].on] \in Call
    BY <1>2, IdleType DEF Call
  <2>2. call' \in [Handler -> Call] /\ queue' \in [Node -> Seq(Handler)]
    BY <1>6, <2>1, QueuedType DEF HeartbeatRebuild
  <2> QED
    BY <1>6, <2>2 DEF TypeOK, HeartbeatRebuild, database
<1>7. ASSUME NEW n \in Node, HeartbeatDeploy(h, n) PROVE TypeOK'
  <2>1. [Idle EXCEPT !.due = Due(n), !.was = service[n].status, !.live = agent[n].on, !.force = TRUE] \in Call
    BY <1>2, IdleType DEF Call
  <2>2. call' \in [Handler -> Call] /\ queue' \in [Node -> Seq(Handler)]
    BY <1>7, <2>1, QueuedType DEF HeartbeatDeploy
  <2>3. service' \in [Node -> ServiceRow]
    BY <1>7, SetStatusType DEF HeartbeatDeploy, ServiceStatus
  <2> QED
    BY <1>7, <2>2, <2>3 DEF TypeOK, HeartbeatDeploy
<1>8. ASSUME NEW n \in Node, HeartbeatUnsupported(h, n) PROVE TypeOK'
  <2>1. service' \in [Node -> ServiceRow]
    BY <1>8, SetStatusType DEF HeartbeatUnsupported, ServiceStatus
  <2>2. reconciled' \in [Node -> Nat]
    BY <1>2, <1>8, MarkType DEF HeartbeatUnsupported
  <2> QED
    BY <1>8, <2>1, <2>2 DEF TypeOK, HeartbeatUnsupported
<1>9. CASE HeartbeatBuilt(h)
  <2>1. service' \in [Node -> ServiceRow]
    <3>1. CASE call[h].ok
      BY <1>9, <3>1 DEF TypeOK, HeartbeatBuilt
    <3>2. CASE ~call[h].ok
      BY <1>1, <1>9, <3>2, SetStatusType DEF HeartbeatBuilt, ServiceStatus
    <3> QED
      BY <3>1, <3>2
  <2>2. [call[h] EXCEPT !.pc = "restore"] \in Call
    BY <1>1 DEF Call
  <2>3. [call EXCEPT ![h].pc = "restore"] \in [Handler -> Call]
    BY <2>2 DEF TypeOK
  <2>4. call' \in [Handler -> Call] /\ reconciled' \in [Node -> Nat]
    BY <1>1, <1>5, <1>9, <2>3, MarkType DEF TypeOK, HeartbeatBuilt
  <2> QED
    BY <1>9, <2>1, <2>4 DEF TypeOK, HeartbeatBuilt
<1>10. CASE HeartbeatRestore(h)
  <2>1. service' \in [Node -> ServiceRow]
    BY <1>1, <1>10, SetStatusType DEF HeartbeatRestore, ServiceStatus
  <2>2. call' \in [Handler -> Call] /\ reconciled' \in [Node -> Nat]
    BY <1>1, <1>5, <1>10, MarkType DEF HeartbeatRestore
  <2> QED
    BY <1>10, <2>1, <2>2 DEF TypeOK, HeartbeatRestore
<1> QED
  BY <1>6, <1>7, <1>8, <1>9, <1>10

(* The console's requests. *)
LEMMA TypeConsole ==
  ASSUME TypeOK, NEW h \in Handler,
         \/ ConsoleAccess(h) \/ AccessRebuild(h) \/ EnableBuilt(h) \/ DisableSend(h) \/ RestartSend(h) \/ SendThrows(h)
         \/ \E n \in Node : ConsoleEnable(h, n) \/ ConsoleDisable(h, n) \/ ConsoleRestart(h, n)
  PROVE  TypeOK'
<1>1. call[h] \in Call /\ call[h].node \in Node
  BY DEF TypeOK, Call
<1>2. \A n \in Node : desired[n].rev \in Nat /\ desired[n].peers \in SUBSET Peer
  BY DEF TypeOK
<1>3. [call EXCEPT ![h] = Idle] \in [Handler -> Call]
  BY IdleType DEF TypeOK
<1>4. \A request \in Call : [call EXCEPT ![h] = request] \in [Handler -> Call]
  BY DEF TypeOK
<1>5. CASE ConsoleAccess(h)
  <2>1. access' \in [Node -> SUBSET Peer]
    BY <1>5 DEF ConsoleAccess
  <2>2. events' \in Nat
    BY <1>5, HappensType DEF ConsoleAccess, EnvEvents
  <2>3. \A force \in BOOLEAN, todo \in SUBSET Node :
          [Idle EXCEPT !.pc = "back", !.job = "access", !.todo = todo, !.force = force] \in Call
    BY IdleType DEF Call, Job
  <2>4. \E force \in BOOLEAN, todo \in SUBSET Node :
          call' = [call EXCEPT ![h] = [Idle EXCEPT !.pc = "back", !.job = "access", !.todo = todo, !.force = force]]
    BY <1>5 DEF ConsoleAccess
  <2>5. call' \in [Handler -> Call]
    BY <1>4, <2>3, <2>4
  <2> QED
    BY <1>5, <2>1, <2>2, <2>5 DEF TypeOK, ConsoleAccess, database
<1>6. CASE AccessRebuild(h)
  <2>1. ASSUME NEW n \in call[h].todo,
               EnterLock(h, n, [Idle EXCEPT !.job = "access", !.force = call[h].force, !.todo = call[h].todo \ {n}])
        PROVE  call' \in [Handler -> Call] /\ queue' \in [Node -> Seq(Handler)]
    <3>1. n \in Node /\ call[h].todo \ {n} \in SUBSET Node /\ call[h].force \in BOOLEAN
      BY <1>1 DEF Call
    <3>2. [Idle EXCEPT !.job = "access", !.force = call[h].force, !.todo = call[h].todo \ {n}] \in Call
      BY <3>1, IdleType DEF Call, Job
    <3> QED
      BY <2>1, <3>1, <3>2, QueuedType
  <2>2. call' \in [Handler -> Call] /\ queue' \in [Node -> Seq(Handler)]
    BY <1>3, <1>6, <2>1 DEF AccessRebuild, TypeOK
  <2> QED
    BY <1>6, <2>2 DEF TypeOK, AccessRebuild, database
<1>7. CASE EnableBuilt(h)
  <2>1. service' \in [Node -> ServiceRow]
    <3>1. CASE call[h].ok
      BY <1>7, <3>1 DEF TypeOK, EnableBuilt
    <3>2. CASE ~call[h].ok
      BY <1>1, <1>7, <3>2, SetStatusType DEF EnableBuilt, ServiceStatus
    <3> QED
      BY <3>1, <3>2
  <2> QED
    BY <1>3, <1>7, <2>1 DEF TypeOK, EnableBuilt
<1>8. CASE DisableSend(h)
  <2>1. Task("Disable", call[h].node, desired[call[h].node].rev, {}) \in TaskRow
    BY <1>1, <1>2, TaskType DEF TaskKind
  <2>2. RowsKept
    BY <1>8, <2>1, EnqueueKeepsRows DEF DisableSend
  <2> QED
    BY <1>3, <1>8, <2>2, RowsNamedKept DEF TypeOK, DisableSend, RowsKept
<1>9. CASE RestartSend(h)
  <2>1. Task("Restart", call[h].node, call[h].rev, call[h].peers) \in TaskRow
    BY <1>1, TaskType DEF TaskKind, Call
  <2>2. RowsKept
    BY <1>9, <2>1, EnqueueKeepsRows DEF RestartSend
  <2> QED
    BY <1>3, <1>9, <2>2, RowsNamedKept DEF TypeOK, RestartSend, RowsKept
<1>10. CASE SendThrows(h)
  BY <1>3, <1>10 DEF TypeOK, SendThrows, Happens, database
<1>11. ASSUME NEW n \in Node, ConsoleEnable(h, n) PROVE TypeOK'
  <2>1. [Idle EXCEPT !.job = "enable", !.force = TRUE] \in Call
    BY IdleType DEF Call, Job
  <2>2. call' \in [Handler -> Call] /\ queue' \in [Node -> Seq(Handler)]
    BY <1>11, <2>1, QueuedType DEF ConsoleEnable
  <2>3. service' \in [Node -> ServiceRow]
    BY <1>11 DEF TypeOK, ConsoleEnable, ServiceStatus, ServiceRow
  <2>4. events' \in Nat
    BY <1>11, HappensType DEF ConsoleEnable, EnvEvents
  <2> QED
    BY <1>11, <2>2, <2>3, <2>4 DEF TypeOK, ConsoleEnable
<1>12. ASSUME NEW n \in Node, ConsoleDisable(h, n) PROVE TypeOK'
  <2>1. [Idle EXCEPT !.pc = "send", !.job = "disable", !.node = n] \in Call
    BY IdleType DEF Call, Job
  <2>2. service' \in [Node -> ServiceRow]
    BY <1>12 DEF TypeOK, ConsoleDisable, ServiceStatus, ServiceRow
  <2>4. events' \in Nat
    BY <1>12, HappensType DEF ConsoleDisable, EnvEvents
  <2> QED
    BY <1>4, <1>12, <2>1, <2>2, <2>4 DEF TypeOK, ConsoleDisable
<1>13. ASSUME NEW n \in Node, ConsoleRestart(h, n) PROVE TypeOK'
  <2>1. [Idle EXCEPT !.pc = "send", !.job = "restart", !.node = n, !.rev = desired[n].rev, !.peers = desired[n].peers] \in Call
    BY <1>2, IdleType DEF Call, Job
  <2>2. service' \in [Node -> ServiceRow]
    BY <1>13, SetStatusType DEF ConsoleRestart, ServiceStatus
  <2>3. events' \in Nat
    BY <1>13, HappensType DEF ConsoleRestart, EnvEvents
  <2> QED
    BY <1>4, <1>13, <2>1, <2>2, <2>3 DEF TypeOK, ConsoleRestart
<1> QED
  BY <1>5, <1>6, <1>7, <1>8, <1>9, <1>10, <1>11, <1>12, <1>13

(* The least of a set of rows is one of them. *)
LEMMA LeastRow ==
  ASSUME NEW S \in SUBSET Nat, S # {}
  PROVE  Min(S) \in S /\ \A y \in S : Min(S) <= y
<1>1. PICK x \in S : \A y \in S : ~(<<y, x>> \in OpToRel(<, Nat))
  BY WFMin, NatLessThanWellFounded
<1>2. \A y \in S : x <= y
  <2> SUFFICES ASSUME NEW y \in S, ~(x <= y) PROVE FALSE
    OBVIOUS
  <2> y < x
    OBVIOUS
  <2>1. <<y, x>> \in OpToRel(<, Nat)
    BY DEF OpToRel
  <2> QED
    BY <1>1, <2>1
<1> QED
  BY <1>1, <1>2 DEF Min

(* Retrying, pulling and losing tasks. *)
LEMMA TypeQueue ==
  ASSUME TypeOK,
         \/ \E i \in DOMAIN tasks : RetryStale(i) \/ RetryFailed(i)
         \/ \E n \in Node : Pull(n) \/ PullLost(n) \/ AgentCrash(n)
  PROVE  TypeOK'
<1>1. tasks \in Seq(TaskRow)
  BY DEF TypeOK
<1>2. ASSUME NEW i \in DOMAIN tasks, RetryStale(i) PROVE TypeOK'
  <2>1. RowsKept
    <3>1. SameRequests(tasks, tasks')
      BY <1>1, <1>2, StatusUpdate DEF RetryStale, TaskStatus
    <3> QED
      BY <3>1 DEF SameRequests, RowsKept
  <2>2. events' \in Nat
    <3>1. CASE InHand(i)
      BY <1>2, <3>1, HappensType DEF RetryStale, EnvEvents
    <3>2. CASE ~InHand(i)
      BY <1>2, <3>2 DEF RetryStale, TypeOK
    <3> QED
      BY <3>1, <3>2
  <2> QED
    BY <1>2, <2>1, <2>2, RowsNamedKept DEF TypeOK, RetryStale, RowsKept, controllerMemory
<1>3. ASSUME NEW i \in DOMAIN tasks, RetryFailed(i) PROVE TypeOK'
  <2>1. RowsKept
    <3>1. SameRequests(tasks, tasks')
      BY <1>1, <1>3, StatusUpdate DEF RetryFailed, TaskStatus
    <3> QED
      BY <3>1 DEF SameRequests, RowsKept
  <2> QED
    BY <1>3, <2>1, RowsNamedKept DEF TypeOK, RetryFailed, RowsKept, controllerMemory
<1>4. ASSUME NEW n \in Node, Pull(n) PROVE TypeOK'
  <2>1. RowsKept
    BY <1>1, <1>4, TakeType DEF Pull, SameRequests, RowsKept
  <2>2. Pending(n) \in SUBSET DOMAIN tasks /\ \A i \in Pending(n) : tasks[i].node = n
    BY DEF Pending, TasksOf
  <2>3. Pending(n) \in SUBSET Nat
    BY <1>1, <2>2, LenProperties
  <2>4. [agent[n] EXCEPT !.batch = Pending(n)]
          \in AgentRow
    <3>1. agent[n] \in AgentRow
      BY DEF TypeOK
    <3> QED
      BY <2>3, <3>1 DEF AgentRow
  <2>5. agent' \in [Node -> AgentRow]
    BY <1>4, <2>4 DEF TypeOK, Pull
  <2>6. \A m \in Node : agent'[m].batch = IF m = n THEN Pending(n) ELSE agent[m].batch
    BY <1>4 DEF TypeOK, Pull
  <2>7. \A m \in Node : \A i \in agent'[m].batch : i \in DOMAIN tasks' /\ tasks'[i].node = m
    <3> TAKE m \in Node
    <3> TAKE i \in agent'[m].batch
    <3>1. i \in DOMAIN tasks /\ tasks[i].node = m
      BY <2>2, <2>6 DEF TypeOK
    <3> QED
      BY <2>1, <3>1 DEF RowsKept
  <2>8. results' \subseteq ReportRow /\ \A r \in results' : r.task \in DOMAIN tasks'
    BY <1>4, <2>1 DEF TypeOK, RowsKept, Pull, controllerMemory
  <2> QED
    BY <1>4, <2>1, <2>5, <2>7, <2>8 DEF TypeOK, Pull, RowsKept, controllerMemory
<1>5. ASSUME NEW n \in Node, PullLost(n) PROVE TypeOK'
  <2>1. RowsKept
    BY <1>1, <1>5, TakeType DEF PullLost, SameRequests, RowsKept
  <2>2. events' \in Nat
    BY <1>5, HappensType DEF PullLost, EnvEvents
  <2> QED
    BY <1>5, <2>1, <2>2, RowsNamedKept DEF TypeOK, PullLost, RowsKept, controllerMemory
<1>6. ASSUME NEW n \in Node, AgentCrash(n) PROVE TypeOK'
  <2>1. [agent[n] EXCEPT !.batch = {}]
          \in AgentRow
    <3>1. agent[n] \in AgentRow
      BY DEF TypeOK
    <3> QED
      BY <3>1 DEF AgentRow
  <2>2. agent' \in [Node -> AgentRow]
    BY <1>6, <2>1 DEF TypeOK, AgentCrash
  <2>3. \A m \in Node : agent'[m].batch \subseteq agent[m].batch
    BY <1>6 DEF TypeOK, AgentCrash
  <2>4. events' \in Nat
    BY <1>6, HappensType DEF AgentCrash, EnvEvents
  <2> QED
    BY <1>6, <2>2, <2>3, <2>4 DEF TypeOK, AgentCrash, controllerMemory, database
<1> QED
  BY <1>2, <1>3, <1>4, <1>5, <1>6

(* The agent applies its next task, or fails at it. *)
LEMMA TypeApply ==
  ASSUME TypeOK, NEW n \in Node, ApplyTask(n) \/ ApplyFails(n)
  PROVE  TypeOK'
<1> DEFINE i == NextTask(n)
           t == tasks[i]
<1>1. agent[n] \in AgentRow /\ agent[n].batch # {}
  BY DEF TypeOK, ApplyTask, ApplyFails, Applying
<1>2. i \in agent[n].batch
  BY <1>1, LeastRow DEF NextTask, AgentRow
<1>3. i \in DOMAIN tasks
  BY <1>2 DEF TypeOK
<1>4. t \in TaskRow
  BY <1>3, ElementOfSeq, LenProperties DEF TypeOK
<1>5. t.rev \in Nat /\ t.peers \in SUBSET Peer /\ (t.attempts > 1) \in BOOLEAN
  BY <1>4 DEF TaskRow
<1>6. Applied(n, t) \in AgentRow /\ Applied(n, t).batch \subseteq agent[n].batch
  BY <1>1, <1>5 DEF Applied, AgentRow
<1>7. \A after \in Failed(n, t) : after \in AgentRow /\ after.batch \subseteq agent[n].batch
  <2>1. agent[n].batch \ {i} \in SUBSET Nat
    BY <1>1 DEF AgentRow
  <2> DEFINE Good(after) == after \in AgentRow /\ after.batch \subseteq agent[n].batch
  <2>2. Good([agent[n] EXCEPT !.batch = agent[n].batch \ {i}])
    BY <1>1, <2>1 DEF AgentRow
  <2>3. Good([on |-> FALSE, rev |-> t.rev, peers |-> t.peers, redelivered |-> t.attempts > 1, batch |-> agent[n].batch \ {i}])
    BY <1>5, <2>1 DEF AgentRow
  <2>4. Good([agent[n] EXCEPT !.on = FALSE, !.batch = agent[n].batch \ {i}])
    BY <1>1, <2>1 DEF AgentRow
  <2>5. \A after \in Failed(n, t) :
          \/ after = [agent[n] EXCEPT !.batch = agent[n].batch \ {i}]
          \/ after = [on |-> FALSE, rev |-> t.rev, peers |-> t.peers, redelivered |-> t.attempts > 1, batch |-> agent[n].batch \ {i}]
          \/ after = [agent[n] EXCEPT !.on = FALSE, !.batch = agent[n].batch \ {i}]
    BY DEF Failed
  <2> HIDE DEF Good
  <2>6. \A after \in Failed(n, t) : Good(after)
    BY <2>2, <2>3, <2>4, <2>5
  <2> QED
    BY <2>6 DEF Good
<1>8. PICK after \in AgentRow : agent' = [agent EXCEPT ![n] = after] /\ after.batch \subseteq agent[n].batch
  BY <1>6, <1>7 DEF ApplyTask, ApplyFails
<1>9. agent' \in [Node -> AgentRow] /\ \A m \in Node : agent'[m].batch \subseteq agent[m].batch
  BY <1>8 DEF TypeOK
<1>10. results' \subseteq ReportRow /\ \A r \in results' : r.task \in DOMAIN tasks
  <2>1. \A ok \in BOOLEAN : Report(i, ok) \in ReportRow /\ Report(i, ok).task = i
    BY <1>3, LenProperties DEF Report, ReportRow, TypeOK
  <2>2. results' \subseteq results \union {Report(i, TRUE), Report(i, FALSE)}
    <3>1. CASE ApplyTask(n)
      BY <3>1 DEF ApplyTask
    <3>2. CASE ApplyFails(n)
      BY <3>2 DEF ApplyFails
    <3> QED
      BY <3>1, <3>2
  <2> QED
    BY <1>3, <2>1, <2>2 DEF TypeOK
<1>11. events' \in Nat
  BY HappensType DEF ApplyTask, ApplyFails, TypeOK, EnvEvents
<1>12. UNCHANGED <<access, boundary, advertised, minute, charge, epoch, reconciled, queue, call, service, desired, tasks, observed>>
  BY DEF ApplyTask, ApplyFails, database
<1> QED
  BY <1>9, <1>10, <1>11, <1>12 DEF TypeOK

(* A report, statement by statement, and the restart that loses it. *)
LEMMA TypeReport ==
  ASSUME TypeOK, (\E r \in results : Finish(r)) \/ ControllerRestart
  PROVE  TypeOK'
<1> DEFINE Reports(S) == S \subseteq ReportRow /\ \A r \in S : r.task \in DOMAIN tasks
<1>1. tasks \in Seq(TaskRow)
  BY DEF TypeOK
<1>2. ASSUME NEW r \in results, NEW phase \in {"service", "observed"}
      PROVE  Reports(Advance(r, phase)) /\ Reports(results \ {r})
  <2>1. r \in ReportRow /\ r.task \in DOMAIN tasks
    BY DEF TypeOK
  <2>2. [r EXCEPT !.phase = phase] \in ReportRow /\ [r EXCEPT !.phase = phase].task = r.task
    BY <2>1 DEF ReportRow
  <2> QED
    BY <2>1, <2>2 DEF TypeOK, Advance
<1>3. ASSUME NEW r \in results PROVE tasks[r.task] \in TaskRow /\ r.task \in DOMAIN tasks
  BY ElementOfSeq, LenProperties DEF TypeOK
<1>4. ASSUME NEW r \in results, FinishTask(r) PROVE TypeOK'
  <2>1. RowsKept
    <3>1. SameRequests(tasks, tasks')
      BY <1>1, <1>3, <1>4, StatusUpdate DEF FinishTask, TaskStatus
    <3> QED
      BY <3>1 DEF SameRequests, RowsKept
  <2>2. Reports(results')
    BY <1>2, <1>4 DEF FinishTask
  <2> QED
    BY <1>4, <2>1, <2>2 DEF TypeOK, FinishTask, RowsKept
<1>5. ASSUME NEW r \in results, FinishService(r) PROVE TypeOK'
  <2>1. tasks[r.task].node \in Node
    BY <1>3 DEF TaskRow
  <2>2. service' \in [Node -> ServiceRow]
    BY <1>5, <2>1, SetStatusType DEF TypeOK, FinishService, ServiceStatus
  <2>3. Reports(results')
    BY <1>2, <1>5 DEF FinishService
  <2> QED
    BY <1>5, <2>2, <2>3 DEF TypeOK, FinishService
<1>6. ASSUME NEW r \in results, FinishObserved(r) PROVE TypeOK'
  <2>1. tasks[r.task].node \in Node /\ tasks[r.task].rev \in Nat
    BY <1>3 DEF TaskRow
  <2>2. observed' \in [Node -> [rev : Nat, status : {"none", "applied", "disabled"}]]
    BY <1>6, <2>1 DEF TypeOK, FinishObserved
  <2>3. Reports(results')
    BY <1>2, <1>6 DEF FinishObserved
  <2> QED
    BY <1>6, <2>2, <2>3 DEF TypeOK, FinishObserved
<1>7. CASE ControllerRestart
  <2>1. /\ call' \in [Handler -> Call] /\ queue' \in [Node -> Seq(Handler)]
        /\ reconciled' \in [Node -> Nat] /\ epoch' \in Nat \ {0}
    BY <1>7, IdleType, EmptySeq DEF ControllerRestart
  <2>2. minute' \in {"idle", "passed"} /\ boundary' \in BOOLEAN /\ results' = {}
    BY <1>7 DEF ControllerRestart
  <2>3. events' \in Nat
    BY <1>7, HappensType DEF ControllerRestart, EnvEvents
  <2> QED
    BY <1>7, <2>1, <2>2, <2>3 DEF TypeOK, ControllerRestart, database
<1> QED
  BY <1>4, <1>5, <1>6, <1>7 DEF Finish

(* Every step keeps the types, the lock being held by whoever builds. *)
LEMMA TypeStep ==
  ASSUME TypeOK, LockHeld, [Next]_vars
  PROVE  TypeOK'
<1>1. CASE UNCHANGED vars
  BY <1>1 DEF TypeOK, vars, controllerMemory, database
<1>2. CASE Next
  BY <1>2, TypeAside, TypeBuild, TypeHeartbeat, TypeConsole, TypeQueue, TypeApply, TypeReport
     DEF Next, Return, HeartbeatStart
<1> QED
  BY <1>1, <1>2

-----------------------------------------------------------------------------
(* One payload to a revision. Whatever names a revision of a node's configuration is a row   *)
(* of the queue, the stored configuration or a restart about to be sent. The invariant: two *)
(* names of one revision agree, none is ahead of the stored configuration, and a build       *)
(* inside the lock still knows the configuration it read or wrote.                           *)

Sending(h, n, rev, peers) ==
  /\ call[h].pc = "send" /\ call[h].job = "restart"
  /\ call[h].node = n /\ call[h].rev = rev /\ call[h].peers = peers

Stored(n, rev, peers) == desired[n].rev = rev /\ desired[n].peers = peers

Queued(n, rev, peers) ==
  \E i \in DOMAIN tasks : /\ tasks[i].node = n /\ tasks[i].kind # "Disable"
                          /\ tasks[i].rev = rev /\ tasks[i].peers = peers

Named(n, rev, peers) ==
  Stored(n, rev, peers) \/ Queued(n, rev, peers) \/ \E h \in Handler : Sending(h, n, rev, peers)

OneName == \A n \in Node, rev \in Nat, P, Q \in SUBSET Peer : Named(n, rev, P) /\ Named(n, rev, Q) => P = Q

NotAhead == \A n \in Node, rev \in Nat, P \in SUBSET Peer : Named(n, rev, P) => rev <= desired[n].rev

BuildKnows ==
  \A h \in Handler :
    /\ call[h].pc = "read" => /\ call[h].rev = desired[call[h].node].rev
                              /\ ~call[h].changed => call[h].peers = desired[call[h].node].peers
    /\ call[h].pc = "wrote" => Stored(call[h].node, call[h].rev, call[h].peers)

NamingInv == LockHeld /\ BuildKnows /\ OneName /\ NotAhead /\ BuildsQueueInOrder

IInv == TypeOK /\ LockHeld /\ BuildKnows /\ OneName /\ NotAhead /\ BuildsQueueInOrder

(* The rows of the queue that name a revision are names of it. *)
LEMMA RowsAreNames ==
  ASSUME TypeOK, NEW i \in DOMAIN tasks
  PROVE  /\ tasks[i] \in TaskRow /\ tasks[i].node \in Node /\ tasks[i].rev \in Nat /\ tasks[i].peers \in SUBSET Peer
         /\ tasks[i].kind # "Disable" => Named(tasks[i].node, tasks[i].rev, tasks[i].peers)
<1>1. tasks[i] \in TaskRow
  BY ElementOfSeq, LenProperties DEF TypeOK
<1> QED
  BY <1>1 DEF TaskRow, Named, Queued

(* If two names of a revision agree, so do two tasks, and a task and the store. *)
LEMMA OneNameSuffices ==
  ASSUME TypeOK, OneName
  PROVE  RevisionNamesOnePayload
<1>1. ASSUME NEW i \in DOMAIN tasks, NEW j \in DOMAIN tasks,
             tasks[i].node = tasks[j].node, tasks[i].rev = tasks[j].rev, tasks[i].kind # "Disable", tasks[j].kind # "Disable"
      PROVE  tasks[i].peers = tasks[j].peers
  BY <1>1, RowsAreNames DEF OneName
<1>2. ASSUME NEW i \in DOMAIN tasks, tasks[i].kind # "Disable", tasks[i].rev = desired[tasks[i].node].rev
      PROVE  tasks[i].peers = desired[tasks[i].node].peers
  <2>1. tasks[i].node \in Node /\ desired[tasks[i].node].peers \in SUBSET Peer
    BY RowsAreNames DEF TypeOK
  <2>2. Named(tasks[i].node, tasks[i].rev, desired[tasks[i].node].peers)
    BY <1>2 DEF Named, Stored
  <2> QED
    BY <1>2, <2>1, <2>2, RowsAreNames DEF OneName
<1> QED
  BY <1>1, <1>2 DEF RevisionNamesOnePayload

(* A step that adds no name keeps the names apart, and a step that keeps the requests of the *)
(* queue keeps their order.                                                                   *)
LEMMA NamesKept ==
  ASSUME OneName, NotAhead, UNCHANGED desired,
         \A n \in Node, rev \in Nat, P \in SUBSET Peer : Named(n, rev, P)' => Named(n, rev, P)
  PROVE  OneName' /\ NotAhead'
  BY DEF OneName, NotAhead

(* Rows that ask for what they asked for before stay in order. *)
LEMMA OrderKept ==
  ASSUME BuildsQueueInOrder, SameRequests(tasks, tasks')
  PROVE  BuildsQueueInOrder'
  BY DEF BuildsQueueInOrder, SameRequests

(* Rows that ask for what they asked for before name what they named before. *)
LEMMA QueuedKept ==
  ASSUME SameRequests(tasks, tasks'), NEW n, NEW rev, NEW P, Queued(n, rev, P)'
  PROVE  Queued(n, rev, P)
  BY DEF SameRequests, Queued

(* A request that is neither inside a build nor sending a restart carries no obligation. *)
Plain(c) == c.pc \notin {"read", "wrote"} /\ ~(c.pc = "send" /\ c.job = "restart")

PlainStep ==
  \/ UNCHANGED call
  \/ \E h \in Handler : Plain(call'[h]) /\ \A k \in Handler \ {h} : call'[k] = call[k]

(* A step that makes one request plain leaves no new obligation behind. *)
LEMMA PlainKeeps ==
  ASSUME IInv, PlainStep, UNCHANGED desired
  PROVE  /\ BuildKnows'
         /\ \A h \in Handler, n \in Node, rev \in Nat, P \in SUBSET Peer : Sending(h, n, rev, P)' => Sending(h, n, rev, P)
         /\ UNCHANGED queue => LockHeld'
<1>1. \A k \in Handler : Plain(call'[k]) \/ call'[k] = call[k]
  BY DEF PlainStep
<1>2. BuildKnows'
  BY <1>1 DEF IInv, BuildKnows, Plain, Stored
<1>3. \A h \in Handler, n \in Node, rev \in Nat, P \in SUBSET Peer : Sending(h, n, rev, P)' => Sending(h, n, rev, P)
  BY <1>1 DEF Sending, Plain
<1>4. UNCHANGED queue => LockHeld'
  BY <1>1 DEF IInv, LockHeld, HoldsLock, Plain
<1> QED
  BY <1>2, <1>3, <1>4

(* Nor does it when rows only change their status. *)
LEMMA SameKeeps ==
  ASSUME IInv, PlainStep, UNCHANGED desired, SameRequests(tasks, tasks')
  PROVE  BuildKnows' /\ OneName' /\ NotAhead' /\ BuildsQueueInOrder' /\ (UNCHANGED queue => LockHeld')
<1>1. \A n \in Node, rev \in Nat, P \in SUBSET Peer : Named(n, rev, P)' => Named(n, rev, P)
  BY PlainKeeps, QueuedKept DEF Named, Stored
<1> QED
  BY <1>1, PlainKeeps, NamesKept, OrderKept DEF IInv

(* A queue left alone asks for what it asked for before. *)
LEMMA SameItself ==
  ASSUME TypeOK, UNCHANGED tasks
  PROVE  SameRequests(tasks, tasks')
  BY DEF TypeOK, SameRequests

(* Enqueueing a row whose revision is named already. *)
LEMMA EnqueueKeeps ==
  ASSUME IInv, PlainStep, UNCHANGED desired, NEW row \in TaskRow, Enqueue(row),
         row.kind # "Disable" => Named(row.node, row.rev, row.peers),
         row.kind = "Apply" => row.rev = desired[row.node].rev
  PROVE  BuildKnows' /\ OneName' /\ NotAhead' /\ BuildsQueueInOrder' /\ (UNCHANGED queue => LockHeld')
<1> DEFINE new == Len(tasks) + 1
<1>1. /\ DOMAIN tasks' = DOMAIN tasks \union {new} /\ new \notin DOMAIN tasks
      /\ \A j \in DOMAIN tasks : tasks'[j] = tasks[j] /\ j < new
      /\ tasks'[new] = row
  BY EnqueueType DEF IInv, TypeOK, Enqueue
<1>2. new \in Nat /\ DOMAIN tasks \subseteq Nat
  BY LenProperties DEF IInv, TypeOK
<1> HIDE DEF new
<1>3. ASSUME NEW n \in Node, NEW rev \in Nat, NEW P \in SUBSET Peer, Named(n, rev, P)'
      PROVE  Named(n, rev, P)
  <2>1. CASE Stored(n, rev, P)'
    BY <2>1 DEF Stored, Named
  <2>2. CASE Queued(n, rev, P)'
    <3>1. PICK i \in DOMAIN tasks' : /\ tasks'[i].node = n /\ tasks'[i].kind # "Disable"
                                     /\ tasks'[i].rev = rev /\ tasks'[i].peers = P
      BY <2>2 DEF Queued
    <3>2. CASE i = new
      BY <1>1, <3>1, <3>2
    <3>3. CASE i \in DOMAIN tasks
      BY <1>1, <3>1, <3>3 DEF Named, Queued
    <3> QED
      BY <1>1, <3>2, <3>3
  <2>3. CASE \E h \in Handler : Sending(h, n, rev, P)'
    BY <2>3, PlainKeeps DEF Named
  <2> QED
    BY <1>3, <2>1, <2>2, <2>3 DEF Named
<1>4. OneName' /\ NotAhead'
  BY <1>3, NamesKept DEF IInv
<1>5. BuildsQueueInOrder'
  <2> SUFFICES ASSUME NEW i \in DOMAIN tasks', NEW j \in DOMAIN tasks', i < j, tasks'[i].node = tasks'[j].node,
                      tasks'[i].kind = "Apply", tasks'[j].kind = "Apply"
               PROVE  tasks'[i].rev <= tasks'[j].rev
    BY DEF BuildsQueueInOrder
  <2>1. i \in DOMAIN tasks
    <3>1. SUFFICES ASSUME i = new PROVE FALSE
      BY <1>1
    <3>2. j \in DOMAIN tasks
      BY <1>1, <1>2, <3>1
    <3> QED
      BY <1>1, <1>2, <3>1, <3>2
  <2>2. CASE j \in DOMAIN tasks
    BY <1>1, <2>1, <2>2 DEF IInv, BuildsQueueInOrder
  <2>3. CASE j = new
    <3>1. tasks[i].rev <= desired[tasks[i].node].rev
      BY <1>1, <2>1, RowsAreNames DEF IInv, NotAhead
    <3> QED
      BY <1>1, <2>1, <2>3, <3>1
  <2> QED
    BY <1>1, <2>2, <2>3
<1> QED
  BY <1>4, <1>5, PlainKeeps

(* Entering the lock queues behind its holder; leaving it lets only the next one in. *)
LEMMA EnterKeepsLock ==
  ASSUME IInv, NEW h \in Handler, NEW n \in Node, NEW request \in Call, EnterLock(h, n, request)
  PROVE  LockHeld' /\ PlainStep
<1>1. call'[h] = [request EXCEPT !.pc = "queued", !.node = n] /\ \A k \in Handler \ {h} : call'[k] = call[k]
  BY DEF EnterLock, IInv, TypeOK
<1>2. call'[h].pc = "queued"
  BY <1>1 DEF Call
<1>3. /\ queue'[n] = Append(queue[n], h) /\ \A m \in Node \ {n} : queue'[m] = queue[m]
      /\ queue[n] \in Seq(Handler)
  BY DEF EnterLock, IInv, TypeOK
<1>4. ASSUME NEW k \in Handler, call'[k].pc \in {"read", "wrote"} PROVE HoldsLock(k, call[k].node)'
  <2>1. k # h /\ call'[k] = call[k]
    BY <1>1, <1>2, <1>4
  <2>2. call[k].node \in Node /\ HoldsLock(k, call[k].node)
    BY <1>4, <2>1 DEF IInv, TypeOK, Call, LockHeld
  <2>3. CASE call[k].node = n
    BY <1>3, <2>1, <2>2, <2>3 DEF HoldsLock
  <2>4. CASE call[k].node # n
    BY <1>3, <2>1, <2>2, <2>4 DEF HoldsLock
  <2> QED
    BY <2>3, <2>4
<1> QED
  BY <1>1, <1>2, <1>4 DEF LockHeld, PlainStep, Plain

(* The handler that leaves was the head, so nobody else was building. *)
LEMMA LeaveKeepsLock ==
  ASSUME IInv, NEW h \in Handler, NEW ok \in BOOLEAN, LeaveLock(h, ok), HoldsLock(h, call[h].node)
  PROVE  LockHeld' /\ PlainStep
<1> DEFINE n == call[h].node
<1>1. call[h] \in Call /\ n \in Node
  BY DEF IInv, TypeOK, Call
<1>2. call'[h].pc = "back" /\ \A k \in Handler \ {h} : call'[k] = call[k]
  BY <1>1 DEF LeaveLock, IInv, TypeOK, Call
<1>3. \A m \in Node \ {n} : queue'[m] = queue[m]
  BY DEF LeaveLock, IInv, TypeOK
<1>4. ASSUME NEW k \in Handler, call'[k].pc \in {"read", "wrote"} PROVE HoldsLock(k, call[k].node)'
  <2>1. k # h /\ call'[k] = call[k]
    BY <1>2, <1>4
  <2>2. call[k].node \in Node /\ HoldsLock(k, call[k].node)
    BY <1>4, <2>1 DEF IInv, TypeOK, Call, LockHeld
  <2>3. call[k].node # n
    BY <2>1, <2>2 DEF HoldsLock
  <2> QED
    BY <1>3, <2>1, <2>2, <2>3 DEF HoldsLock
<1> QED
  BY <1>2, <1>4 DEF LockHeld, PlainStep, Plain

-----------------------------------------------------------------------------
(* The invariant, action by action. *)

(* At first only the store names a revision, 0, for every node. *)
LEMMA NamingInit == Init => NamingInv
<1> SUFFICES ASSUME Init PROVE NamingInv
  OBVIOUS
<1>1. TypeOK /\ LockHeld
  BY TypeInit
<1>2. tasks = <<>> /\ \A h \in Handler : call[h] = Idle /\ call[h].pc = "idle"
  BY DEF Init, Idle
<1>3. DOMAIN tasks = {}
  BY <1>2
<1>4. \A n \in Node, rev \in Nat, P \in SUBSET Peer : Named(n, rev, P) => Stored(n, rev, P)
  BY <1>2, <1>3 DEF Named, Queued, Sending
<1>5. OneName /\ NotAhead
  BY <1>4 DEF OneName, NotAhead, Stored
<1> QED
  BY <1>1, <1>2, <1>3, <1>5 DEF NamingInv, BuildKnows, BuildsQueueInOrder

(* Steps that leave the builds, the lock and the stored configuration alone. *)
LEMMA NamingAside ==
  ASSUME IInv,
         \/ AccessBoundary \/ QuotaEnds \/ QuotaMark \/ ChargeThrows \/ MinuteStart \/ MinuteMark \/ MinuteAbort
         \/ \E n \in Node : \/ SafetyInterval(n) \/ AdvertisedChanges(n) \/ AgentCrash(n)
                            \/ ApplyTask(n) \/ ApplyFails(n)
         \/ \E h \in Handler, n \in Node : HeartbeatUnsupported(h, n) \/ HeartbeatSkip(h, n) \/ HeartbeatIdle(h, n)
         \/ \E r \in results : FinishService(r) \/ FinishObserved(r)
  PROVE  NamingInv'
<1>1. UNCHANGED <<queue, call, desired, tasks>>
  BY DEF AccessBoundary, QuotaEnds, QuotaMark, ChargeThrows, MinuteStart, MinuteMark, MinuteAbort, SafetyInterval, AdvertisedChanges, AgentCrash,
         ApplyTask, ApplyFails, HeartbeatUnsupported, HeartbeatSkip, HeartbeatIdle, FinishService, FinishObserved,
         controllerMemory, database, vars
<1> QED
  BY <1>1, SameItself, SameKeeps DEF IInv, NamingInv, PlainStep

(* Steps that only mark rows of the queue. *)
LEMMA NamingMarks ==
  ASSUME IInv,
         \/ \E i \in DOMAIN tasks : RetryStale(i) \/ RetryFailed(i)
         \/ \E n \in Node : Pull(n) \/ PullLost(n)
         \/ \E r \in results : FinishTask(r)
  PROVE  NamingInv'
<1>1. tasks \in Seq(TaskRow) /\ \A r \in results : r.task \in DOMAIN tasks
  BY DEF IInv, TypeOK
<1>2. SameRequests(tasks, tasks')
  <2>1. ASSUME NEW i \in DOMAIN tasks, RetryStale(i) \/ RetryFailed(i) PROVE SameRequests(tasks, tasks')
    BY <1>1, <2>1, StatusUpdate DEF RetryStale, RetryFailed, TaskStatus
  <2>2. ASSUME NEW n \in Node, Pull(n) \/ PullLost(n) PROVE SameRequests(tasks, tasks')
    BY <1>1, <2>2, TakeType DEF Pull, PullLost
  <2>3. ASSUME NEW r \in results, FinishTask(r) PROVE SameRequests(tasks, tasks')
    BY <1>1, <2>3, StatusUpdate DEF FinishTask, TaskStatus
  <2> QED
    BY <2>1, <2>2, <2>3
<1>3. UNCHANGED <<queue, call, desired>>
  BY DEF RetryStale, RetryFailed, Pull, PullLost, FinishTask, controllerMemory
<1> QED
  BY <1>2, <1>3, SameKeeps DEF IInv, NamingInv, PlainStep

(* Requests outside the lock that send nothing. *)
LEMMA NamingRequest ==
  ASSUME IInv, NEW h \in Handler,
         \/ HeartbeatBuilt(h) \/ HeartbeatRestore(h) \/ ConsoleAccess(h) \/ EnableBuilt(h) \/ SendThrows(h)
         \/ \E n \in Node : ConsoleDisable(h, n)
         \/ AccessRebuild(h) /\ UNCHANGED queue /\ call' = [call EXCEPT ![h] = Idle]
  PROVE  NamingInv'
<1>1. Plain(Idle)
  BY DEF Plain, Idle
<1>2. Plain([call[h] EXCEPT !.pc = "restore"])
  BY DEF Plain, IInv, TypeOK, Call
<1>3. \A todo \in SUBSET Node, force \in BOOLEAN :
        Plain([Idle EXCEPT !.pc = "back", !.job = "access", !.todo = todo, !.force = force])
  BY DEF Plain, Idle
<1>4. \A n \in Node : Plain([Idle EXCEPT !.pc = "send", !.job = "disable", !.node = n])
  BY DEF Plain, Idle
<1>5. PICK c : call' = [call EXCEPT ![h] = c] /\ Plain(c)
  <2>1. CASE HeartbeatBuilt(h)
    BY <1>1, <1>2, <2>1 DEF HeartbeatBuilt
  <2>2. CASE HeartbeatRestore(h) \/ EnableBuilt(h) \/ SendThrows(h)
    BY <1>1, <2>2 DEF HeartbeatRestore, EnableBuilt, SendThrows
  <2>3. CASE ConsoleAccess(h)
    BY <1>3, <2>3 DEF ConsoleAccess
  <2>4. CASE \E n \in Node : ConsoleDisable(h, n)
    BY <1>4, <2>4 DEF ConsoleDisable
  <2>5. CASE call' = [call EXCEPT ![h] = Idle]
    BY <1>1, <2>5
  <2> QED
    BY <2>1, <2>2, <2>3, <2>4, <2>5
<1>6. PlainStep
  BY <1>5 DEF PlainStep, IInv, TypeOK
<1>7. UNCHANGED <<queue, desired, tasks>>
  BY DEF HeartbeatBuilt, HeartbeatRestore, ConsoleAccess, EnableBuilt, SendThrows, ConsoleDisable, AccessRebuild, database
<1> QED
  BY <1>6, <1>7, SameItself, SameKeeps DEF IInv, NamingInv

(* Requests that join the lock's queue. *)
LEMMA NamingEnter ==
  ASSUME IInv, NEW h \in Handler,
         \/ \E n \in Node : HeartbeatRebuild(h, n) \/ HeartbeatDeploy(h, n) \/ ConsoleEnable(h, n)
         \/ AccessRebuild(h) /\ \E n \in call[h].todo :
              EnterLock(h, n, [Idle EXCEPT !.job = "access", !.force = call[h].force, !.todo = call[h].todo \ {n}])
  PROVE  NamingInv'
<1>1. UNCHANGED <<desired, tasks>>
  BY DEF HeartbeatRebuild, HeartbeatDeploy, ConsoleEnable, AccessRebuild, database
<1>2. PICK n \in Node, request \in Call : EnterLock(h, n, request)
  <2>1. ASSUME NEW n \in Node, HeartbeatRebuild(h, n)
        PROVE  \E request \in Call : EnterLock(h, n, request)
    <3>1. [Idle EXCEPT !.due = Due(n), !.was = service[n].status, !.live = agent[n].on] \in Call
      BY IdleType DEF Call, IInv, TypeOK, Due, ServiceRow, AgentRow
    <3> QED
      BY <2>1, <3>1 DEF HeartbeatRebuild
  <2>2. ASSUME NEW n \in Node, HeartbeatDeploy(h, n)
        PROVE  \E request \in Call : EnterLock(h, n, request)
    <3>1. [Idle EXCEPT !.due = Due(n), !.was = service[n].status, !.live = agent[n].on, !.force = TRUE] \in Call
      BY IdleType DEF Call, IInv, TypeOK, Due, ServiceRow, AgentRow
    <3> QED
      BY <2>2, <3>1 DEF HeartbeatDeploy
  <2>3. ASSUME NEW n \in Node, ConsoleEnable(h, n)
        PROVE  \E request \in Call : EnterLock(h, n, request)
    <3>1. [Idle EXCEPT !.job = "enable", !.force = TRUE] \in Call
      BY IdleType DEF Call, Job
    <3> QED
      BY <2>3, <3>1 DEF ConsoleEnable
  <2>4. ASSUME NEW n \in call[h].todo
        PROVE  n \in Node /\ [Idle EXCEPT !.job = "access", !.force = call[h].force, !.todo = call[h].todo \ {n}] \in Call
    <3>1. n \in Node /\ call[h].todo \ {n} \in SUBSET Node /\ call[h].force \in BOOLEAN
      BY DEF IInv, TypeOK, Call
    <3> QED
      BY <3>1, IdleType DEF Call, Job
  <2> QED
    BY <2>1, <2>2, <2>3, <2>4
<1> QED
  BY <1>1, <1>2, EnterKeepsLock, SameItself, SameKeeps DEF IInv, NamingInv

(* Builds that end without anything written or enqueued. *)
LEMMA NamingLeave ==
  ASSUME IInv, NEW h \in Handler,
         \/ BuildRefused(h) \/ BuildThrows(h) \/ EnqueueThrows(h)
         \/ BuildWrite(h) /\ ~call[h].changed /\ ~call[h].force
  PROVE  NamingInv'
<1>1. UNCHANGED <<desired, tasks>>
  BY DEF BuildRefused, BuildThrows, EnqueueThrows, BuildWrite, database
<1>2. HoldsLock(h, call[h].node)
  BY DEF BuildRefused, BuildThrows, EnqueueThrows, BuildWrite, IInv, LockHeld
<1>3. PICK ok \in BOOLEAN : LeaveLock(h, ok)
  BY DEF BuildRefused, BuildThrows, EnqueueThrows, BuildWrite
<1> QED
  BY <1>1, <1>2, <1>3, LeaveKeepsLock, SameItself, SameKeeps DEF IInv, NamingInv

(* The three senders of tasks. *)
LEMMA NamingSend ==
  ASSUME IInv, NEW h \in Handler, BuildEnqueue(h) \/ DisableSend(h) \/ RestartSend(h)
  PROVE  NamingInv'
<1> DEFINE n == call[h].node
<1>1. call[h] \in Call /\ n \in Node /\ call[h].rev \in Nat /\ call[h].peers \in SUBSET Peer /\ desired[n].rev \in Nat
  BY DEF IInv, TypeOK, Call
<1>2. CASE BuildEnqueue(h)
  <2> DEFINE row == Task("Apply", n, call[h].rev, call[h].peers)
  <2>1. row \in TaskRow
    BY <1>1, TaskType DEF TaskKind
  <2>2. Stored(n, call[h].rev, call[h].peers)
    BY <1>2 DEF BuildEnqueue, IInv, BuildKnows
  <2>3. /\ row.node = n /\ row.rev = desired[n].rev
        /\ Named(row.node, row.rev, row.peers)
    BY <2>2 DEF Task, Named, Stored
  <2>4. LockHeld' /\ PlainStep
    <3>1. HoldsLock(h, n) /\ LeaveLock(h, TRUE)
      BY <1>2 DEF BuildEnqueue, IInv, LockHeld
    <3> QED
      BY <3>1, LeaveKeepsLock
  <2>5. Enqueue(row) /\ UNCHANGED desired
    BY <1>2 DEF BuildEnqueue
  <2> HIDE DEF row
  <2> QED
    BY <2>1, <2>3, <2>4, <2>5, EnqueueKeeps DEF NamingInv
<1>3. ASSUME DisableSend(h) \/ RestartSend(h) PROVE PlainStep /\ UNCHANGED <<queue, desired>>
  <2>1. Plain(Idle)
    BY DEF Plain, Idle
  <2> QED
    <3>1. call' = [call EXCEPT ![h] = Idle] /\ UNCHANGED <<queue, desired>>
      BY <1>3 DEF DisableSend, RestartSend
    <3>2. call'[h] = Idle /\ \A k \in Handler \ {h} : call'[k] = call[k]
      BY <3>1 DEF IInv, TypeOK
    <3> QED
      BY <2>1, <3>1, <3>2 DEF PlainStep
<1>4. CASE DisableSend(h)
  <2> DEFINE row == Task("Disable", n, desired[n].rev, {})
  <2>1. row \in TaskRow /\ row.kind = "Disable"
    BY <1>1, TaskType DEF TaskKind, Task
  <2>2. Enqueue(row)
    BY <1>4 DEF DisableSend
  <2> HIDE DEF row
  <2> QED
    BY <1>3, <1>4, <2>1, <2>2, EnqueueKeeps DEF NamingInv
<1>5. CASE RestartSend(h)
  <2> DEFINE row == Task("Restart", n, call[h].rev, call[h].peers)
  <2>1. row \in TaskRow /\ row.kind = "Restart" /\ row.node = n
    BY <1>1, TaskType DEF TaskKind, Task
  <2>2. Named(row.node, row.rev, row.peers)
    BY <1>5 DEF RestartSend, Named, Sending, Task
  <2>3. Enqueue(row)
    BY <1>5 DEF RestartSend
  <2> HIDE DEF row
  <2> QED
    BY <1>3, <1>5, <2>1, <2>2, <2>3, EnqueueKeeps DEF NamingInv
<1> QED
  BY <1>2, <1>4, <1>5

(* Reading, writing and the restart's read of the stored configuration. *)
LEMMA NamingRead ==
  ASSUME IInv, NEW h \in Handler, BuildRead(h)
  PROVE  NamingInv'
<1> DEFINE n == call[h].node
<1>1. call[h] \in Call /\ n \in Node /\ UNCHANGED <<queue, desired, tasks>>
  BY DEF IInv, TypeOK, Call, BuildRead, database
<1>2. /\ call'[h].pc = "read" /\ call'[h].node = n /\ call'[h].rev = desired[n].rev /\ call'[h].peers = access[n]
      /\ ~call'[h].changed => desired[n].peers = access[n]
      /\ \A k \in Handler \ {h} : call'[k] = call[k]
  BY <1>1 DEF BuildRead, IInv, TypeOK, Call
<1>3. LockHeld'
  <2>1. HoldsLock(h, n)
    BY DEF BuildRead
  <2> QED
    BY <1>1, <1>2, <2>1 DEF IInv, LockHeld, HoldsLock
<1>4. BuildKnows'
  BY <1>1, <1>2 DEF IInv, BuildKnows, Stored
<1>5. \A m \in Node, rev \in Nat, P \in SUBSET Peer : Named(m, rev, P)' => Named(m, rev, P)
  <2>1. \A k \in Handler, m \in Node, rev \in Nat, P \in SUBSET Peer : Sending(k, m, rev, P)' => Sending(k, m, rev, P)
    BY <1>2 DEF Sending
  <2> QED
    BY <1>1, <2>1, SameItself, QueuedKept DEF Named, Stored, IInv
<1> QED
  BY <1>1, <1>3, <1>4, <1>5, NamesKept, SameItself, OrderKept DEF IInv, NamingInv

(* A restart reads the stored configuration, so it names what is named already. *)
LEMMA NamingRestart ==
  ASSUME IInv, NEW h \in Handler, NEW n \in Node, ConsoleRestart(h, n)
  PROVE  NamingInv'
<1>1. UNCHANGED <<queue, desired, tasks>>
  BY DEF ConsoleRestart
<1>2. /\ call'[h].pc = "send" /\ call'[h].node = n /\ call'[h].rev = desired[n].rev /\ call'[h].peers = desired[n].peers
      /\ \A k \in Handler \ {h} : call'[k] = call[k]
  BY IdleType DEF ConsoleRestart, IInv, TypeOK, Call
<1>3. LockHeld' /\ BuildKnows'
  BY <1>1, <1>2 DEF IInv, LockHeld, HoldsLock, BuildKnows, Stored
<1>4. \A m \in Node, rev \in Nat, P \in SUBSET Peer : Named(m, rev, P)' => Named(m, rev, P)
  <2>1. \A k \in Handler, m \in Node, rev \in Nat, P \in SUBSET Peer :
          Sending(k, m, rev, P)' => Sending(k, m, rev, P) \/ Stored(m, rev, P)
    BY <1>2 DEF Sending, Stored
  <2> QED
    BY <1>1, <2>1, SameItself, QueuedKept DEF Named, Stored, IInv
<1> QED
  BY <1>1, <1>3, <1>4, NamesKept, SameItself, OrderKept DEF IInv, NamingInv

(* A changed payload gets the revision after the stored one, which nothing names yet. *)
LEMMA NamingWrite ==
  ASSUME IInv, NEW h \in Handler, BuildWrite(h), call[h].changed
  PROVE  NamingInv'
<1> DEFINE n == call[h].node
<1>1. /\ call[h] \in Call /\ n \in Node /\ call[h].rev \in Nat /\ call[h].peers \in SUBSET Peer
      /\ \A m \in Node : desired[m].rev \in Nat /\ desired[m].peers \in SUBSET Peer
  BY DEF IInv, TypeOK, Call
<1>2. UNCHANGED <<queue, tasks>> /\ call[h].pc = "read" /\ call[h].rev = desired[n].rev /\ HoldsLock(h, n)
  <2>1. UNCHANGED <<queue, tasks>> /\ call[h].pc = "read"
    BY DEF BuildWrite
  <2>2. call[h].rev = desired[n].rev
    BY <2>1 DEF IInv, BuildKnows
  <2>3. HoldsLock(h, n)
    BY <2>1 DEF IInv, LockHeld
  <2> QED
    BY <2>1, <2>2, <2>3
<1>3. /\ desired'[n].rev = desired[n].rev + 1 /\ desired'[n].peers = call[h].peers
      /\ \A m \in Node \ {n} : desired'[m] = desired[m]
  BY <1>1, <1>2 DEF BuildWrite, IInv, TypeOK
<1>4. /\ call'[h].pc = "wrote" /\ call'[h].node = n
      /\ call'[h].rev = desired[n].rev + 1 /\ call'[h].peers = call[h].peers
      /\ \A k \in Handler \ {h} : call'[k] = call[k]
  BY <1>1, <1>2 DEF BuildWrite, IInv, TypeOK, Call
<1>5. LockHeld'
  BY <1>2, <1>4 DEF IInv, LockHeld, HoldsLock
<1>6. ASSUME NEW k \in Handler, k # h, call[k].pc \in {"read", "wrote"} PROVE call[k].node # n
  BY <1>2, <1>6 DEF IInv, LockHeld, HoldsLock
<1>7. BuildKnows'
  <2>1. ASSUME NEW k \in Handler, k # h, call[k].pc \in {"read", "wrote"}
        PROVE  call'[k] = call[k] /\ desired'[call[k].node] = desired[call[k].node]
    <3>1. call[k].node \in Node
      BY DEF IInv, TypeOK, Call
    <3> QED
      BY <1>3, <1>4, <1>6, <2>1, <3>1
  <2>2. call'[h].rev = desired'[n].rev /\ call'[h].peers = desired'[n].peers
    BY <1>3, <1>4
  <2> QED
    BY <1>4, <2>1, <2>2 DEF IInv, BuildKnows, Stored
<1>8. ASSUME NEW m \in Node, NEW rev \in Nat, NEW P \in SUBSET Peer, Named(m, rev, P)'
      PROVE  \/ m = n /\ rev = desired[n].rev + 1 /\ P = call[h].peers
             \/ Named(m, rev, P)
  <2>1. CASE Stored(m, rev, P)'
    BY <1>3, <2>1 DEF Stored, Named
  <2>2. CASE Queued(m, rev, P)'
    BY <1>2, <2>2, SameItself, QueuedKept DEF Named, IInv
  <2>3. CASE \E k \in Handler : Sending(k, m, rev, P)'
    BY <1>4, <2>3 DEF Sending, Named
  <2> QED
    BY <1>8, <2>1, <2>2, <2>3 DEF Named
<1>9. \A m \in Node, rev \in Nat, P \in SUBSET Peer : Named(m, rev, P) => rev <= desired[m].rev /\ desired[m].rev <= desired'[m].rev
  BY <1>1, <1>3 DEF IInv, NotAhead
<1>10. NotAhead'
  BY <1>1, <1>3, <1>8, <1>9 DEF NotAhead
<1>11. OneName'
  <2> SUFFICES ASSUME NEW m \in Node, NEW rev \in Nat, NEW P \in SUBSET Peer, NEW Q \in SUBSET Peer,
                      Named(m, rev, P)', Named(m, rev, Q)'
               PROVE  P = Q
    BY DEF OneName
  <2>1. CASE m = n /\ rev = desired[n].rev + 1
    <3>1. ~Named(m, rev, P) /\ ~Named(m, rev, Q)
      BY <1>1, <1>9, <2>1 DEF IInv, NotAhead
    <3> QED
      BY <1>8, <3>1
  <2>2. CASE ~(m = n /\ rev = desired[n].rev + 1)
    BY <1>8, <2>2 DEF IInv, OneName
  <2> QED
    BY <2>1, <2>2
<1> QED
  BY <1>2, <1>5, <1>7, <1>10, <1>11, SameItself, OrderKept DEF IInv, NamingInv

(* A forced rebuild without a change keeps the revision it read. *)
LEMMA NamingForced ==
  ASSUME IInv, NEW h \in Handler, BuildWrite(h), ~call[h].changed, call[h].force
  PROVE  NamingInv'
<1> DEFINE n == call[h].node
<1>1. /\ UNCHANGED <<queue, desired, tasks>> /\ call[h].pc = "read"
      /\ call[h].rev = desired[n].rev /\ call[h].peers = desired[n].peers /\ HoldsLock(h, n)
  <2>1. UNCHANGED <<queue, desired, tasks>> /\ call[h].pc = "read"
    BY DEF BuildWrite
  <2>2. call[h].rev = desired[n].rev /\ call[h].peers = desired[n].peers
    BY <2>1 DEF IInv, BuildKnows
  <2>3. HoldsLock(h, n)
    BY <2>1 DEF IInv, LockHeld
  <2> QED
    BY <2>1, <2>2, <2>3
<1>2. /\ call'[h].pc = "wrote" /\ call'[h].node = n /\ call'[h].rev = call[h].rev /\ call'[h].peers = call[h].peers
      /\ \A k \in Handler \ {h} : call'[k] = call[k]
  BY DEF BuildWrite, IInv, TypeOK, Call
<1>3. LockHeld' /\ BuildKnows'
  BY <1>1, <1>2 DEF IInv, LockHeld, HoldsLock, BuildKnows, Stored
<1>4. \A m \in Node, rev \in Nat, P \in SUBSET Peer : Named(m, rev, P)' => Named(m, rev, P)
  <2>1. \A k \in Handler, m \in Node, rev \in Nat, P \in SUBSET Peer : Sending(k, m, rev, P)' => Sending(k, m, rev, P)
    BY <1>2 DEF Sending
  <2> QED
    BY <1>1, <2>1, SameItself, QueuedKept DEF Named, Stored, IInv
<1> QED
  BY <1>1, <1>3, <1>4, NamesKept, SameItself, OrderKept DEF IInv, NamingInv

(* The restart of the process forgets every request; the database stays. *)
LEMMA NamingCrash ==
  ASSUME IInv, ControllerRestart
  PROVE  NamingInv'
<1>1. UNCHANGED <<desired, tasks>> /\ \A h \in Handler : call'[h].pc = "idle"
  BY DEF ControllerRestart, database, Idle
<1>2. LockHeld' /\ BuildKnows'
  BY <1>1 DEF LockHeld, BuildKnows
<1>3. \A m \in Node, rev \in Nat, P \in SUBSET Peer : Named(m, rev, P)' => Named(m, rev, P)
  BY <1>1, SameItself, QueuedKept DEF Named, Stored, Sending, IInv
<1> QED
  BY <1>1, <1>2, <1>3, NamesKept, SameItself, OrderKept DEF IInv, NamingInv

(* Every step keeps what ties the names of a revision together. *)
LEMMA NamingStep ==
  ASSUME IInv, [Next]_vars
  PROVE  NamingInv'
<1>1. CASE UNCHANGED vars
  <2>1. PlainStep /\ UNCHANGED <<queue, desired, tasks>>
    BY <1>1 DEF PlainStep, vars, controllerMemory, database
  <2> QED
    BY <2>1, SameItself, SameKeeps DEF IInv, NamingInv
<1>2. ASSUME NEW h \in Handler, BuildStep(h) \/ BuildThrows(h) \/ EnqueueThrows(h) PROVE NamingInv'
  BY <1>2, NamingRead, NamingLeave, NamingWrite, NamingForced, NamingSend DEF BuildStep
<1>3. ASSUME NEW h \in Handler, AccessRebuild(h) PROVE NamingInv'
  <2>1. \/ UNCHANGED queue /\ call' = [call EXCEPT ![h] = Idle]
        \/ \E n \in call[h].todo :
             EnterLock(h, n, [Idle EXCEPT !.job = "access", !.force = call[h].force, !.todo = call[h].todo \ {n}])
    BY <1>3 DEF AccessRebuild
  <2> QED
    BY <1>3, <2>1, NamingEnter, NamingRequest
<1>4. ASSUME NEW h \in Handler, Return(h) \/ SendThrows(h) \/ ConsoleAccess(h) PROVE NamingInv'
  BY <1>3, <1>4, NamingRequest, NamingSend DEF Return
<1>5. ASSUME NEW h \in Handler, NEW n \in Node,
             HeartbeatStart(h, n) \/ ConsoleEnable(h, n) \/ ConsoleDisable(h, n) \/ ConsoleRestart(h, n)
      PROVE  NamingInv'
  BY <1>5, NamingAside, NamingEnter, NamingRequest, NamingRestart DEF HeartbeatStart
<1>6. ASSUME NEW r \in results, Finish(r) PROVE NamingInv'
  BY <1>6, NamingAside, NamingMarks DEF Finish
<1>7. CASE Next
  BY <1>2, <1>4, <1>5, <1>6, <1>7, NamingAside, NamingMarks, NamingCrash DEF Next
<1> QED
  BY <1>1, <1>7

-----------------------------------------------------------------------------
(* The theorems. *)

(* The inductive invariant holds of every behaviour. *)
LEMMA Invariant == Spec => []IInv
<1>1. Init => IInv
  BY TypeInit, NamingInit DEF IInv, NamingInv
<1>2. IInv /\ [Next]_vars => IInv'
  BY TypeStep, NamingStep DEF IInv, NamingInv
<1> QED
  BY <1>1, <1>2, PTL DEF Spec

(* Every variable keeps its shape, whatever the environment does. *)
THEOREM TypeCorrect == Spec => []TypeOK
<1>1. IInv => TypeOK
  BY DEF IInv
<1> QED
  BY <1>1, Invariant, PTL

(* Two requests are never between the read and the enqueue of a build of one node: the chain of *)
(* promises in withKeyedLock keeps them apart for any number of requests.                       *)
THEOREM BuildsExclude ==
  Spec => [](\A h, k \in Handler :
               ({call[h].pc, call[k].pc} \subseteq {"read", "wrote"} /\ call[h].node = call[k].node) => h = k)
<1>1. IInv => \A h, k \in Handler :
        ({call[h].pc, call[k].pc} \subseteq {"read", "wrote"} /\ call[h].node = call[k].node) => h = k
  BY DEF IInv, LockHeld, HoldsLock
<1> QED
  BY <1>1, Invariant, PTL

(* A revision of a node's configuration names one payload, for any number of nodes, requests and *)
(* peers, with restarts of the Controller and lost writes at any point: what an Agent says about  *)
(* a revision is about one set of peers.                                                          *)
THEOREM RevisionsAgree == Spec => []RevisionNamesOnePayload
<1>1. IInv => RevisionNamesOnePayload
  BY OneNameSuffices DEF IInv
<1> QED
  BY <1>1, Invariant, PTL

(* The queue holds the builds of a node in the order of their revisions. *)
THEOREM BuildsInOrder == Spec => []BuildsQueueInOrder
<1>1. IInv => BuildsQueueInOrder
  BY DEF IInv
<1> QED
  BY <1>1, Invariant, PTL


-----------------------------------------------------------------------------
(* A node goes back only through a task it is given again. The pull takes every pending row, *)
(* so what was never taken is younger than all that was, and what a node applies for the      *)
(* first time is younger than all it ran. One thing can break it: a Restart task that is       *)
(* applied like a build carries a payload read outside the lock (RestartSend).                 *)

Untaken(i) == tasks[i].attempts = 0

(* Never taken, or taken once and still in the agent's hands. *)
FirstTime(i) == Untaken(i) \/ (tasks[i].attempts = 1 /\ i \in agent[tasks[i].node].batch)

(* Where a restart is applied like a build, nobody asks for one. *)
RestartsKeep == RestartApplies => "restartService" \notin Env

Restarting(h) == call[h].pc = "send" /\ call[h].job = "restart"

NoReapply ==
  RestartApplies => /\ \A i \in DOMAIN tasks : tasks[i].kind # "Restart"
                    /\ \A h \in Handler : ~Restarting(h)

TakenInOrder ==
  /\ \A i \in DOMAIN tasks : Untaken(i) => tasks[i].status = "pending"
  /\ \A n \in Node : \A i \in agent[n].batch : ~Untaken(i)
  /\ \A r \in results : ~Untaken(r.task)
  /\ \A i, j \in DOMAIN tasks : (i < j /\ tasks[i].node = tasks[j].node /\ Untaken(i)) => Untaken(j)

AgentBehind ==
  /\ \A n \in Node : agent[n].rev <= desired[n].rev
  /\ \A i \in DOMAIN tasks :
       (tasks[i].kind = "Apply" /\ FirstTime(i)) => agent[tasks[i].node].rev <= tasks[i].rev

OlderInv == NoReapply /\ TakenInOrder /\ AgentBehind

(* At first there are no tasks, and every node runs what is stored. *)
LEMMA OlderInit == Init => OlderInv
<1> SUFFICES ASSUME Init PROVE OlderInv
  OBVIOUS
<1>1. DOMAIN tasks = {} /\ results = {} /\ \A h \in Handler : call[h].pc = "idle"
  BY DEF Init, Idle
<1>2. \A n \in Node : agent[n].batch = {} /\ agent[n].rev = desired[n].rev /\ desired[n].rev \in Nat
  BY DEF Init
<1> QED
  BY <1>1, <1>2 DEF OlderInv, NoReapply, TakenInOrder, AgentBehind, Restarting

(* The types the order is about. *)
LEMMA OrderTypes ==
  ASSUME TypeOK
  PROVE  /\ \A n \in Node : /\ agent[n] \in AgentRow /\ agent[n].rev \in Nat /\ desired[n].rev \in Nat
                            /\ agent[n].batch \in SUBSET Nat
                            /\ \A i \in agent[n].batch : i \in DOMAIN tasks /\ tasks[i].node = n
         /\ \A i \in DOMAIN tasks : /\ i \in Nat /\ tasks[i] \in TaskRow /\ tasks[i].node \in Node
                                    /\ tasks[i].rev \in Nat /\ tasks[i].attempts \in Nat
         /\ \A r \in results : r.task \in DOMAIN tasks
<1>1. \A i \in DOMAIN tasks : i \in Nat /\ tasks[i] \in TaskRow
  BY RowsAreNames, LenProperties DEF TypeOK
<1> QED
  BY <1>1 DEF TypeOK, AgentRow, TaskRow

(* A step that leaves the rows and the agents alone, and takes no revision back. *)
LEMMA OlderAside ==
  ASSUME TypeOK, TypeOK', OlderInv, NoReapply', UNCHANGED tasks,
         \A n \in Node : agent'[n].rev = agent[n].rev /\ agent'[n].batch \subseteq agent[n].batch,
         \A n \in Node : desired[n].rev <= desired'[n].rev,
         \A r \in results' : \E q \in results : q.task = r.task
  PROVE  OlderInv'
<1>1. TakenInOrder'
  BY DEF OlderInv, TakenInOrder, Untaken
<1>2. \A n \in Node : agent'[n].rev <= desired'[n].rev
  <2> TAKE n \in Node
  <2>1. desired'[n].rev \in Nat
    BY DEF TypeOK
  <2> QED
    BY <2>1, OrderTypes DEF OlderInv, AgentBehind
<1>3. ASSUME NEW i \in DOMAIN tasks', tasks'[i].kind = "Apply", FirstTime(i)'
      PROVE  agent'[tasks'[i].node].rev <= tasks'[i].rev
  BY <1>3, OrderTypes DEF OlderInv, AgentBehind, FirstTime, Untaken
<1> QED
  BY <1>1, <1>2, <1>3 DEF OlderInv, AgentBehind

(* Marking rows keeps the order while a row that was never taken stays pending. *)
LEMMA OlderMarks ==
  ASSUME IInv, OlderInv,
         \/ \E i \in DOMAIN tasks : RetryStale(i) \/ RetryFailed(i)
         \/ \E r \in results : FinishTask(r)
  PROVE  OlderInv'
<1>1. PICK i \in DOMAIN tasks, s \in TaskStatus :
        tasks' = [tasks EXCEPT ![i].status = s] /\ (s = "pending" \/ ~Untaken(i))
  <2>1. ASSUME NEW i \in DOMAIN tasks, RetryStale(i) \/ RetryFailed(i)
        PROVE  tasks' = [tasks EXCEPT ![i].status = "pending"]
    BY <2>1 DEF RetryStale, RetryFailed
  <2>2. ASSUME NEW r \in results, FinishTask(r)
        PROVE  /\ r.task \in DOMAIN tasks /\ ~Untaken(r.task)
               /\ tasks' = [tasks EXCEPT ![r.task].status = IF r.ok THEN "succeeded" ELSE "failed"]
    BY <2>2 DEF FinishTask, IInv, TypeOK, OlderInv, TakenInOrder
  <2> QED
    BY <2>1, <2>2 DEF TaskStatus
<1>2. UNCHANGED <<agent, desired, call>> /\ \A r \in results' : \E q \in results : q.task = r.task
  <2>1. UNCHANGED <<agent, desired, call>>
    BY DEF RetryStale, RetryFailed, FinishTask, controllerMemory
  <2>2. ASSUME NEW k \in DOMAIN tasks, RetryStale(k) \/ RetryFailed(k) PROVE results' = results
    BY <2>2 DEF RetryStale, RetryFailed, controllerMemory
  <2>3. ASSUME NEW q \in results, FinishTask(q) PROVE \A r \in results' : \E p \in results : p.task = r.task
    <3>1. q \in ReportRow
      BY DEF IInv, TypeOK
    <3>2. [q EXCEPT !.phase = "service"].task = q.task
      BY <3>1 DEF ReportRow
    <3>3. results' = (results \ {q}) \union {[q EXCEPT !.phase = "service"]}
      BY <2>3 DEF FinishTask, Advance
    <3> QED
      BY <3>2, <3>3
  <2> QED
    BY <2>1, <2>2, <2>3
<1>3. /\ DOMAIN tasks' = DOMAIN tasks
      /\ \A j \in DOMAIN tasks :
           /\ tasks'[j].node = tasks[j].node /\ tasks'[j].kind = tasks[j].kind /\ tasks'[j].rev = tasks[j].rev
           /\ tasks'[j].attempts = tasks[j].attempts
           /\ tasks'[j].status = IF j = i THEN s ELSE tasks[j].status
  <2>1. tasks[i] \in TaskRow
    BY OrderTypes DEF IInv
  <2>2. LET row == [tasks[i] EXCEPT !.status = s] IN
        /\ row.node = tasks[i].node /\ row.kind = tasks[i].kind /\ row.rev = tasks[i].rev
        /\ row.attempts = tasks[i].attempts /\ row.status = s
    BY <2>1 DEF TaskRow
  <2> QED
    BY <1>1, <2>2
<1>4. NoReapply'
  BY <1>2, <1>3 DEF OlderInv, NoReapply, Restarting
<1>5. TakenInOrder'
  BY <1>1, <1>2, <1>3, OrderTypes DEF OlderInv, TakenInOrder, Untaken, IInv
<1>6. AgentBehind'
  BY <1>2, <1>3 DEF OlderInv, AgentBehind, FirstTime, Untaken
<1> QED
  BY <1>4, <1>5, <1>6 DEF OlderInv

(* A pull takes every pending row of the node, once more. *)
LEMMA PulledRows ==
  ASSUME IInv, NEW n \in Node, Take(n)
  PROVE  /\ DOMAIN tasks' = DOMAIN tasks
         /\ \A j \in DOMAIN tasks : j \notin Pending(n) => tasks'[j] = tasks[j]
         /\ \A j \in Pending(n) : /\ tasks'[j].attempts = tasks[j].attempts + 1
                                  /\ tasks'[j].node = tasks[j].node /\ tasks'[j].kind = tasks[j].kind
                                  /\ tasks'[j].rev = tasks[j].rev /\ tasks'[j].status = "running"
<1>1. \A j \in Pending(n) : j \in DOMAIN tasks /\ tasks[j] \in TaskRow
  BY OrderTypes DEF IInv, Pending, TasksOf
<1> DEFINE taken(j) == [tasks[j] EXCEPT !.status = "running", !.attempts = @ + 1]
<1>2. \A j \in Pending(n) : /\ taken(j).attempts = tasks[j].attempts + 1
                           /\ taken(j).node = tasks[j].node /\ taken(j).kind = tasks[j].kind
                           /\ taken(j).rev = tasks[j].rev /\ taken(j).status = "running"
  BY <1>1 DEF TaskRow
<1>3. tasks' = [j \in DOMAIN tasks |-> IF j \in Pending(n) THEN taken(j) ELSE tasks[j]]
  BY DEF Take
<1> HIDE DEF taken
<1>4. DOMAIN tasks' = DOMAIN tasks /\ \A j \in DOMAIN tasks : tasks'[j] = IF j \in Pending(n) THEN taken(j) ELSE tasks[j]
  BY <1>3
<1> QED
  BY <1>1, <1>2, <1>4

(* A pull takes everything that is pending, so nothing older is left untaken. *)
LEMMA OlderPull ==
  ASSUME IInv, OlderInv, NEW n \in Node, Pull(n) \/ PullLost(n)
  PROVE  OlderInv'
<1>1. Take(n) /\ UNCHANGED <<desired, call, results>> /\ agent[n].batch = {}
  BY DEF Pull, PullLost, Polling, controllerMemory
<1>2. /\ DOMAIN tasks' = DOMAIN tasks
      /\ \A j \in DOMAIN tasks : j \notin Pending(n) => tasks'[j] = tasks[j]
      /\ \A j \in Pending(n) : /\ tasks'[j].attempts = tasks[j].attempts + 1
                               /\ tasks'[j].node = tasks[j].node /\ tasks'[j].kind = tasks[j].kind
                               /\ tasks'[j].rev = tasks[j].rev
  BY <1>1, PulledRows
<1>3. \A m \in Node : /\ agent'[m].rev = agent[m].rev
                      /\ agent'[m].batch = agent[m].batch \/ (m = n /\ agent'[m].batch = Pending(n))
  BY DEF Pull, PullLost, IInv, TypeOK, AgentRow
<1>4. \A j \in Pending(n) : tasks'[j].attempts # 0 /\ j \in DOMAIN tasks /\ tasks[j].node = n
  BY <1>2, OrderTypes DEF Pending, TasksOf, IInv
<1>5. \A j \in DOMAIN tasks : Untaken(j)' => Untaken(j) /\ j \notin Pending(n) /\ tasks[j].node # n
  BY <1>2, <1>4 DEF Untaken, OlderInv, TakenInOrder, Pending, TasksOf
<1>6. NoReapply'
  BY <1>1, <1>2, <1>4 DEF OlderInv, NoReapply, Restarting
<1>7. TakenInOrder'
  <2>1. \A i \in DOMAIN tasks' : Untaken(i)' => tasks'[i].status = "pending"
    BY <1>2, <1>5 DEF OlderInv, TakenInOrder
  <2>2. \A m \in Node : \A i \in agent'[m].batch : ~Untaken(i)'
    BY <1>3, <1>4, <1>5, OrderTypes DEF OlderInv, TakenInOrder, IInv
  <2>3. \A r \in results' : ~Untaken(r.task)'
    BY <1>1, <1>5, OrderTypes DEF OlderInv, TakenInOrder, IInv
  <2>4. ASSUME NEW i \in DOMAIN tasks', NEW j \in DOMAIN tasks', i < j, tasks'[i].node = tasks'[j].node, Untaken(i)'
        PROVE  Untaken(j)'
    <3>1. Untaken(i) /\ tasks[i].node # n /\ tasks'[i].node = tasks[i].node
      BY <1>2, <1>5, <2>4
    <3>2. tasks'[j].node = tasks[j].node
      BY <1>2, <1>4
    <3>3. j \notin Pending(n)
      BY <1>4, <2>4, <3>1, <3>2
    <3>4. tasks'[j] = tasks[j]
      BY <1>2, <2>4, <3>3
    <3>5. Untaken(j)
      BY <1>2, <2>4, <3>1, <3>2 DEF OlderInv, TakenInOrder
    <3> QED
      BY <3>4, <3>5 DEF Untaken
  <2> QED
    BY <2>1, <2>2, <2>3, <2>4 DEF TakenInOrder
<1>8. AgentBehind'
  <2>1. ASSUME NEW i \in DOMAIN tasks', tasks'[i].kind = "Apply", FirstTime(i)'
        PROVE  agent'[tasks'[i].node].rev <= tasks'[i].rev
    <3>1. tasks'[i].kind = tasks[i].kind /\ tasks'[i].node = tasks[i].node /\ tasks'[i].rev = tasks[i].rev
      BY <1>2, <1>4
    <3>2. tasks[i].node \in Node /\ tasks[i].attempts \in Nat
      BY <1>2, OrderTypes DEF IInv
    <3>3. FirstTime(i)
      <4>1. CASE i \in Pending(n)
        BY <1>2, <1>4, <2>1, <3>2, <4>1 DEF FirstTime, Untaken
      <4>2. CASE i \notin Pending(n)
        BY <1>2, <1>3, <2>1, <3>2, <4>2 DEF FirstTime, Untaken
      <4> QED
        BY <4>1, <4>2
    <3> QED
      BY <1>2, <1>3, <2>1, <3>1, <3>2, <3>3 DEF OlderInv, AgentBehind
  <2> QED
    BY <1>1, <1>3, <2>1 DEF OlderInv, AgentBehind
<1> QED
  BY <1>6, <1>7, <1>8 DEF OlderInv

(* A new row is the youngest, and a build's is of the stored revision, which no agent is past. *)
LEMMA OlderEnqueue ==
  ASSUME IInv, OlderInv, NEW row \in TaskRow, Enqueue(row), UNCHANGED <<agent, results, desired>>, NoReapply',
         row.status = "pending", row.attempts = 0,
         row.kind = "Apply" => row.rev = desired[row.node].rev
  PROVE  OlderInv'
<1> DEFINE new == Len(tasks) + 1
<1>1. /\ DOMAIN tasks' = DOMAIN tasks \union {new} /\ new \notin DOMAIN tasks
      /\ \A j \in DOMAIN tasks : tasks'[j] = tasks[j] /\ j < new
      /\ tasks'[new] = row
  BY EnqueueType DEF IInv, TypeOK, Enqueue
<1>2. new \in Nat /\ DOMAIN tasks \subseteq Nat
  BY LenProperties DEF IInv, TypeOK
<1> HIDE DEF new
<1>3. ASSUME NEW j \in DOMAIN tasks
      PROVE  (Untaken(j)' <=> Untaken(j)) /\ (FirstTime(j)' => FirstTime(j))
  <2>1. tasks'[j] = tasks[j] /\ agent' = agent
    BY <1>1
  <2>2. Untaken(j)' <=> Untaken(j)
    BY <2>1 DEF Untaken
  <2> QED
    BY <2>1, <2>2 DEF FirstTime
<1>4. ASSUME NEW j, j = new PROVE Untaken(j)'
  BY <1>1, <1>4 DEF Untaken
<1>5. TakenInOrder'
  <2>1. \A i \in DOMAIN tasks' : Untaken(i)' => tasks'[i].status = "pending"
    BY <1>1, <1>3 DEF OlderInv, TakenInOrder
  <2>2. \A m \in Node : \A i \in agent'[m].batch : ~Untaken(i)'
    BY <1>3, OrderTypes DEF OlderInv, TakenInOrder, IInv
  <2>3. \A r \in results' : ~Untaken(r.task)'
    BY <1>3, OrderTypes DEF OlderInv, TakenInOrder, IInv
  <2>4. ASSUME NEW i \in DOMAIN tasks', NEW j \in DOMAIN tasks', i < j, tasks'[i].node = tasks'[j].node, Untaken(i)'
        PROVE  Untaken(j)'
    <3>1. CASE j = new
      BY <1>4, <3>1
    <3>2. CASE j \in DOMAIN tasks
      <4>1. i \in DOMAIN tasks
        BY <1>1, <1>2, <2>4, <3>2
      <4>2. tasks[i].node = tasks[j].node /\ Untaken(i)
        BY <1>1, <1>3, <2>4, <3>2, <4>1
      <4> QED
        BY <1>3, <2>4, <3>2, <4>1, <4>2 DEF OlderInv, TakenInOrder
    <3> QED
      BY <1>1, <3>1, <3>2
  <2> QED
    BY <2>1, <2>2, <2>3, <2>4 DEF TakenInOrder
<1>6. AgentBehind'
  <2>1. row.node \in Node
    BY DEF TaskRow
  <2>2. \A n \in Node : agent'[n].rev <= desired'[n].rev
    BY DEF OlderInv, AgentBehind
  <2>3. ASSUME NEW i \in DOMAIN tasks', tasks'[i].kind = "Apply", FirstTime(i)'
        PROVE  agent'[tasks'[i].node].rev <= tasks'[i].rev
    <3>1. CASE i = new
      BY <1>1, <2>1, <2>2, <2>3, <3>1
    <3>2. CASE i \in DOMAIN tasks
      BY <1>1, <1>3, <2>3, <3>2 DEF OlderInv, AgentBehind
    <3> QED
      BY <1>1, <3>1, <3>2
  <2> QED
    BY <2>2, <2>3 DEF AgentBehind
<1> QED
  BY <1>5, <1>6 DEF OlderInv

(* What a node runs after a task, done or failed: what it ran, nothing, or the task's build. *)
LEMMA AppliedTask ==
  ASSUME IInv, OlderInv, NEW n \in Node, ApplyTask(n) \/ ApplyFails(n)
  PROVE  LET i == NextTask(n) IN
         /\ i \in agent[n].batch /\ \A j \in agent[n].batch : i <= j
         /\ \A m \in Node \ {n} : agent'[m] = agent[m]
         /\ agent'[n].batch = agent[n].batch \ {i}
         /\ \/ agent'[n].rev \in {agent[n].rev, 0}
            \/ /\ tasks[i].kind = "Apply" /\ agent'[n].rev = tasks[i].rev
               /\ agent'[n].redelivered = (tasks[i].attempts > 1)
<1> DEFINE i == NextTask(n)
           t == tasks[i]
<1>1. agent[n] \in AgentRow /\ agent[n].batch # {} /\ agent[n].batch \in SUBSET Nat
  BY OrderTypes DEF IInv, ApplyTask, ApplyFails, Applying
<1>2. i \in agent[n].batch /\ \A j \in agent[n].batch : i <= j
  BY <1>1, LeastRow DEF NextTask
<1>3. i \in DOMAIN tasks /\ t \in TaskRow
  BY <1>2, OrderTypes DEF IInv
<1>4. Reconfigures(t) => t.kind = "Apply"
  BY <1>3 DEF Reconfigures, OlderInv, NoReapply
<1> DEFINE Fits(after) == /\ after.batch = agent[n].batch \ {i}
                          /\ \/ after.rev \in {agent[n].rev, 0}
                             \/ t.kind = "Apply" /\ after.rev = t.rev /\ after.redelivered = (t.attempts > 1)
<1>5. Fits([agent[n] EXCEPT !.on = TRUE, !.batch = agent[n].batch \ {i}])
  BY <1>1 DEF AgentRow
<1>6. Fits([agent[n] EXCEPT !.on = FALSE, !.batch = agent[n].batch \ {i}])
  BY <1>1 DEF AgentRow
<1>7. Fits([agent[n] EXCEPT !.batch = agent[n].batch \ {i}])
  BY <1>1 DEF AgentRow
<1>8. \A on \in BOOLEAN : Reconfigures(t) =>
        Fits([on |-> on, rev |-> t.rev, peers |-> t.peers, redelivered |-> t.attempts > 1, batch |-> agent[n].batch \ {i}])
  BY <1>4
<1>9. Fits([on |-> FALSE, rev |-> 0, peers |-> {}, redelivered |-> t.attempts > 1, batch |-> agent[n].batch \ {i}])
  OBVIOUS
<1> HIDE DEF Fits
<1>10. Fits(Applied(n, t))
  <2>1. CASE Reconfigures(t)
    BY <1>4, <1>8, <2>1 DEF Applied
  <2>2. CASE ~Reconfigures(t)
    BY <1>5, <1>9, <2>2 DEF Applied
  <2> QED
    BY <2>1, <2>2
<1>11. \A after \in Failed(n, t) : Fits(after)
  <2>1. CASE Reconfigures(t)
    BY <1>7, <1>8, <2>1 DEF Failed
  <2>2. CASE ~Reconfigures(t)
    BY <1>6, <1>7, <2>2 DEF Failed
  <2> QED
    BY <2>1, <2>2
<1>12. PICK after : agent' = [agent EXCEPT ![n] = after] /\ Fits(after)
  BY <1>10, <1>11 DEF ApplyTask, ApplyFails
<1>13. agent'[n] = after /\ \A m \in Node \ {n} : agent'[m] = agent[m]
  BY <1>12 DEF IInv, TypeOK
<1> QED
  BY <1>2, <1>12, <1>13 DEF Fits

(* Applying the next task: what is left to apply for the first time is younger still. *)
LEMMA OlderApply ==
  ASSUME IInv, IInv', OlderInv, NEW n \in Node, ApplyTask(n) \/ ApplyFails(n)
  PROVE  /\ OlderInv'
         /\ \A m \in Node : (agent'[m].rev # 0 /\ agent'[m].rev < agent[m].rev) => agent'[m].redelivered
<1> DEFINE i == NextTask(n)
<1>1. /\ i \in agent[n].batch /\ \A j \in agent[n].batch : i <= j
      /\ \A m \in Node \ {n} : agent'[m] = agent[m]
      /\ agent'[n].batch = agent[n].batch \ {i}
      /\ \/ agent'[n].rev \in {agent[n].rev, 0}
         \/ /\ tasks[i].kind = "Apply" /\ agent'[n].rev = tasks[i].rev
            /\ agent'[n].redelivered = (tasks[i].attempts > 1)
  BY AppliedTask
<1>2. UNCHANGED <<tasks, desired, call>> /\ results' \subseteq results \union {Report(i, TRUE), Report(i, FALSE)}
  BY DEF ApplyTask, ApplyFails, database
<1> HIDE DEF i
<1>3. /\ i \in DOMAIN tasks /\ tasks[i] \in TaskRow /\ tasks[i].node = n /\ i \in Nat /\ tasks[i].rev \in Nat
      /\ tasks[i].attempts \in Nat /\ tasks[i].attempts # 0
  BY <1>1, OrderTypes DEF IInv, OlderInv, TakenInOrder, Untaken
<1>4. \A m \in Node : agent'[m].batch \subseteq agent[m].batch
  BY <1>1
<1>5. NoReapply'
  BY <1>2 DEF OlderInv, NoReapply, Restarting
<1>6. TakenInOrder'
  <2>1. \A r \in results' : ~Untaken(r.task)
    BY <1>2, <1>3 DEF OlderInv, TakenInOrder, Report, Untaken
  <2> QED
    BY <1>2, <1>4, <2>1 DEF OlderInv, TakenInOrder, Untaken
<1>7. agent[n].rev \in Nat /\ desired[n].rev \in Nat /\ agent[n].rev <= desired[n].rev
  BY OrderTypes DEF IInv, OlderInv, AgentBehind
<1>8. agent'[n].rev <= desired[n].rev
  <2>1. tasks[i].kind = "Apply" => tasks[i].rev <= desired[n].rev
    BY <1>3, RowsAreNames DEF IInv, NotAhead
  <2> QED
    BY <1>1, <1>7, <2>1
<1>9. ASSUME NEW j \in DOMAIN tasks, tasks[j].kind = "Apply", FirstTime(j)'
      PROVE  agent'[tasks[j].node].rev <= tasks[j].rev
  <2>1. tasks[j].node \in Node /\ j \in Nat /\ tasks[j].rev \in Nat
    BY OrderTypes DEF IInv
  <2>2. FirstTime(j) /\ (tasks[j].node = n => j # i)
    BY <1>1, <1>2, <1>3, <1>4, <1>9, <2>1 DEF FirstTime, Untaken
  <2>3. CASE tasks[j].node # n
    BY <1>1, <1>9, <2>1, <2>2, <2>3 DEF OlderInv, AgentBehind
  <2>4. CASE tasks[j].node = n
    <3>1. agent[n].rev <= tasks[j].rev
      BY <1>9, <2>2, <2>4 DEF OlderInv, AgentBehind
    <3>2. i < j
      <4>1. CASE Untaken(j)
        <5>1. ~(j < i)
          BY <1>3, <2>4, <4>1 DEF OlderInv, TakenInOrder, Untaken
        <5> QED
          BY <1>3, <2>1, <2>2, <2>4, <5>1
      <4>2. CASE j \in agent[n].batch
        BY <1>1, <1>3, <2>1, <2>2, <2>4, <4>2
      <4> QED
        BY <2>2, <2>4, <4>1, <4>2 DEF FirstTime
    <3>3. tasks[i].kind = "Apply" => tasks[i].rev <= tasks[j].rev
      BY <1>3, <1>9, <2>4, <3>2 DEF IInv, BuildsQueueInOrder
    <3> QED
      BY <1>1, <2>1, <2>4, <3>1, <3>3
  <2> QED
    BY <2>3, <2>4
<1>10. AgentBehind'
  BY <1>1, <1>2, <1>8, <1>9 DEF OlderInv, AgentBehind
<1>11. (agent'[n].rev # 0 /\ agent'[n].rev < agent[n].rev) => agent'[n].redelivered
  <2> SUFFICES ASSUME agent'[n].rev # 0, agent'[n].rev < agent[n].rev PROVE agent'[n].redelivered
    OBVIOUS
  <2>1. /\ tasks[i].kind = "Apply" /\ tasks[i].rev < agent[n].rev
        /\ agent'[n].redelivered = (tasks[i].attempts > 1)
    BY <1>1, <1>7
  <2>2. ~FirstTime(i)
    BY <1>3, <1>7, <2>1 DEF OlderInv, AgentBehind
  <2>3. tasks[i].attempts > 1
    BY <1>1, <1>3, <2>2 DEF FirstTime, Untaken
  <2> QED
    BY <2>1, <2>3
<1>12. \A m \in Node \ {n} : ~(agent'[m].rev < agent[m].rev)
  BY <1>1, OrderTypes DEF IInv
<1> QED
  BY <1>5, <1>6, <1>10, <1>11, <1>12 DEF OlderInv

(* Nobody starts to restart a service where restarts are not asked for. *)
LEMMA NobodyRestarts ==
  ASSUME IInv, Next, "restartService" \notin Env, NEW h \in Handler, Restarting(h)'
  PROVE  Restarting(h)
<1> DEFINE Tame(c) == ~(c.pc = "send" /\ c.job = "restart")
           Moves(k, c) == call' = [call EXCEPT ![k] = c] /\ Tame(c)
<1>1. call \in [Handler -> Call] /\ \A k \in Handler : call[k] \in Call
  BY DEF IInv, TypeOK
<1>2. Tame(Idle)
  BY DEF Idle
<1>3. ASSUME NEW k \in Handler, NEW ok \in BOOLEAN, LeaveLock(k, ok)
      PROVE  \E c : Moves(k, c)
  <2>1. Tame([call[k] EXCEPT !.pc = "back", !.ok = ok])
    BY <1>1 DEF Call
  <2> QED
    BY <1>1, <1>3, <2>1 DEF LeaveLock
<1>4. ASSUME NEW k \in Handler,
             BuildRefused(k) \/ BuildThrows(k) \/ EnqueueThrows(k) \/ BuildEnqueue(k)
             \/ (BuildWrite(k) /\ ~call[k].changed /\ ~call[k].force)
      PROVE  \E c : Moves(k, c)
  <2>1. PICK ok \in BOOLEAN : LeaveLock(k, ok)
    BY <1>4 DEF BuildRefused, BuildThrows, EnqueueThrows, BuildEnqueue, BuildWrite
  <2> QED
    BY <1>3, <2>1
<1>5. ASSUME NEW k \in Handler, BuildRead(k) \/ (BuildWrite(k) /\ (call[k].changed \/ call[k].force))
      PROVE  call'[k].pc # "send" /\ \A o \in Handler \ {k} : call'[o] = call[o]
  <2>1. CASE BuildRead(k)
    BY <1>1, <2>1 DEF BuildRead, Call
  <2>2. CASE BuildWrite(k) /\ call[k].changed
    BY <1>1, <2>2 DEF BuildWrite, Call
  <2>3. CASE BuildWrite(k) /\ ~call[k].changed /\ call[k].force
    BY <1>1, <2>3 DEF BuildWrite, Call
  <2> QED
    BY <1>5, <2>1, <2>2, <2>3
<1>6. ASSUME NEW k \in Handler,
             HeartbeatRestore(k) \/ EnableBuilt(k) \/ DisableSend(k) \/ RestartSend(k) \/ SendThrows(k)
      PROVE  \E c : Moves(k, c)
  BY <1>2, <1>6 DEF HeartbeatRestore, EnableBuilt, DisableSend, RestartSend, SendThrows
<1>7. ASSUME NEW k \in Handler, HeartbeatBuilt(k) PROVE \E c : Moves(k, c)
  <2>1. Tame([call[k] EXCEPT !.pc = "restore"])
    BY <1>1 DEF Call
  <2> QED
    BY <1>2, <1>7, <2>1 DEF HeartbeatBuilt
<1>8. ASSUME NEW k \in Handler, AccessRebuild(k) \/ ConsoleAccess(k) PROVE \E c : Moves(k, c)
  <2>1. ASSUME NEW n, NEW force, NEW todo
        PROVE  Tame([[Idle EXCEPT !.job = "access", !.force = force, !.todo = todo] EXCEPT !.pc = "queued", !.node = n])
    BY DEF Idle
  <2>2. ASSUME NEW force, NEW todo
        PROVE  Tame([Idle EXCEPT !.pc = "back", !.job = "access", !.todo = todo, !.force = force])
    BY DEF Idle
  <2> QED
    <3>1. CASE ConsoleAccess(k)
      BY <2>2, <3>1 DEF ConsoleAccess
    <3>2. CASE AccessRebuild(k) /\ call[k].todo = {} /\ call' = [call EXCEPT ![k] = Idle]
      BY <1>2, <3>2
    <3>3. ASSUME NEW n \in call[k].todo,
                 EnterLock(k, n, [Idle EXCEPT !.job = "access", !.force = call[k].force, !.todo = call[k].todo \ {n}])
          PROVE  \E c : Moves(k, c)
      BY <2>1, <3>3 DEF EnterLock
    <3> HIDE DEF Moves, Tame
    <3> QED
      BY <1>8, <3>1, <3>2, <3>3 DEF AccessRebuild
<1>9. ASSUME NEW k \in Handler, NEW n \in Node, HeartbeatRebuild(k, n) \/ HeartbeatDeploy(k, n) \/ ConsoleEnable(k, n)
       PROVE  \E c : Moves(k, c)
  <2>1. ASSUME NEW due, NEW was, NEW live
        PROVE  Tame([[Idle EXCEPT !.due = due, !.was = was, !.live = live] EXCEPT !.pc = "queued", !.node = n])
    BY DEF Idle
  <2>2. ASSUME NEW due, NEW was, NEW live
        PROVE  Tame([[Idle EXCEPT !.due = due, !.was = was, !.live = live, !.force = TRUE] EXCEPT !.pc = "queued", !.node = n])
    BY DEF Idle
  <2>3. Tame([[Idle EXCEPT !.job = "enable", !.force = TRUE] EXCEPT !.pc = "queued", !.node = n])
    BY DEF Idle
  <2> QED
    <3>1. CASE HeartbeatRebuild(k, n)
      <4>1. call' = [call EXCEPT ![k] = [[Idle EXCEPT !.due = Due(n), !.was = service[n].status, !.live = agent[n].on]
                                             EXCEPT !.pc = "queued", !.node = n]]
        BY <3>1 DEF HeartbeatRebuild, EnterLock
      <4> HIDE DEF Tame
      <4> QED
        BY <2>1, <4>1
    <3>2. CASE HeartbeatDeploy(k, n)
      <4>1. call' = [call EXCEPT ![k] = [[Idle EXCEPT !.due = Due(n), !.was = service[n].status, !.live = agent[n].on, !.force = TRUE]
                                             EXCEPT !.pc = "queued", !.node = n]]
        BY <3>2 DEF HeartbeatDeploy, EnterLock
      <4> HIDE DEF Tame
      <4> QED
        BY <2>2, <4>1
    <3>3. CASE ConsoleEnable(k, n)
      BY <2>3, <3>3 DEF ConsoleEnable, EnterLock
    <3> QED
      BY <1>9, <3>1, <3>2, <3>3
<1>10. ASSUME NEW k \in Handler, NEW n \in Node, ConsoleDisable(k, n)
       PROVE  \E c : Moves(k, c)
  <2>1. Tame([Idle EXCEPT !.pc = "send", !.job = "disable", !.node = n])
    BY DEF Idle
  <2> QED
    BY <1>10, <2>1 DEF ConsoleDisable
<1>11. ASSUME NEW k \in Handler, NEW n \in Node,
              ConsoleRestart(k, n) \/ HeartbeatUnsupported(k, n) \/ HeartbeatSkip(k, n) \/ HeartbeatIdle(k, n)
       PROVE  UNCHANGED call
  BY <1>11 DEF ConsoleRestart, Happens, HeartbeatUnsupported, HeartbeatSkip, HeartbeatIdle, vars, controllerMemory
<1>12. CASE ControllerRestart
  BY <1>2, <1>12 DEF ControllerRestart, Restarting
<1>13. CASE \/ AccessBoundary \/ QuotaEnds \/ QuotaMark \/ ChargeThrows \/ MinuteStart \/ MinuteMark \/ MinuteAbort
            \/ \E i \in DOMAIN tasks : RetryStale(i) \/ RetryFailed(i)
            \/ \E n \in Node : SafetyInterval(n) \/ Pull(n) \/ PullLost(n) \/ ApplyTask(n) \/ ApplyFails(n)
                               \/ AdvertisedChanges(n) \/ AgentCrash(n)
            \/ \E r \in results : Finish(r)
  <2>1. UNCHANGED call
    BY <1>13 DEF AccessBoundary, QuotaEnds, QuotaMark, ChargeThrows, MinuteStart, MinuteMark, MinuteAbort, RetryStale, RetryFailed, SafetyInterval,
                 Pull, PullLost, ApplyTask, ApplyFails, AdvertisedChanges, AgentCrash, Finish, FinishTask, FinishService,
                 FinishObserved, controllerMemory
  <2> QED
    BY <2>1 DEF Restarting
<1>14. ASSUME NEW k \in Handler, NEW c, Moves(k, c) PROVE Restarting(h)
  BY <1>1, <1>14 DEF Restarting
<1> HIDE DEF Moves, Tame
<1>15. CASE \E k \in Handler : BuildStep(k) \/ Return(k) \/ BuildThrows(k) \/ EnqueueThrows(k) \/ SendThrows(k) \/ ConsoleAccess(k)
  <2>1. PICK k \in Handler : BuildStep(k) \/ Return(k) \/ BuildThrows(k) \/ EnqueueThrows(k) \/ SendThrows(k) \/ ConsoleAccess(k)
    BY <1>15
  <2>2. (\E c : Moves(k, c)) \/ (call'[k].pc # "send" /\ \A o \in Handler \ {k} : call'[o] = call[o])
    BY <1>4, <1>5, <1>6, <1>7, <1>8, <2>1 DEF BuildStep, Return
  <2> QED
    BY <1>14, <2>2 DEF Restarting
<1>16. CASE \E k \in Handler, n \in Node : HeartbeatStart(k, n) \/ ConsoleEnable(k, n) \/ ConsoleDisable(k, n) \/ ConsoleRestart(k, n)
  <2>1. PICK k \in Handler, n \in Node : HeartbeatStart(k, n) \/ ConsoleEnable(k, n) \/ ConsoleDisable(k, n) \/ ConsoleRestart(k, n)
    BY <1>16
  <2>2. (\E c : Moves(k, c)) \/ UNCHANGED call
    BY <1>9, <1>10, <1>11, <2>1 DEF HeartbeatStart
  <2> QED
    BY <1>14, <2>2 DEF Restarting
<1> QED
  BY <1>12, <1>13, <1>15, <1>16 DEF Next

(* Enqueued by a build, a disable or, where it is not applied like a build, a restart. *)
LEMMA OlderSend ==
  ASSUME IInv, OlderInv, NoReapply', NEW h \in Handler, BuildEnqueue(h) \/ DisableSend(h) \/ RestartSend(h)
  PROVE  OlderInv'
<1>1. /\ call[h].node \in Node /\ call[h].rev \in Nat /\ call[h].peers \in SUBSET Peer
      /\ desired[call[h].node].rev \in Nat
  BY DEF IInv, TypeOK, Call
<1>2. UNCHANGED <<agent, results, desired>>
  BY DEF BuildEnqueue, DisableSend, RestartSend
<1>3. PICK kind \in TaskKind, rev \in Nat, peers \in SUBSET Peer :
        /\ Enqueue(Task(kind, call[h].node, rev, peers))
        /\ kind = "Apply" => rev = desired[call[h].node].rev
  <2>1. CASE BuildEnqueue(h)
    BY <1>1, <2>1 DEF BuildEnqueue, IInv, BuildKnows, Stored, TaskKind
  <2>2. CASE DisableSend(h)
    BY <1>1, <2>2 DEF DisableSend, TaskKind
  <2>3. CASE RestartSend(h)
    BY <1>1, <2>3 DEF RestartSend, TaskKind
  <2> QED
    BY <2>1, <2>2, <2>3
<1> DEFINE row == Task(kind, call[h].node, rev, peers)
<1>4. /\ row \in TaskRow /\ row.status = "pending" /\ row.attempts = 0
      /\ row.kind = "Apply" => row.rev = desired[row.node].rev
  BY <1>1, <1>3, TaskType DEF Task
<1> HIDE DEF row
<1> QED
  BY <1>2, <1>3, <1>4, OlderEnqueue DEF row

(* A crash of the agent only empties its hands. *)
LEMMA OlderCrash ==
  ASSUME IInv, IInv', OlderInv, NEW n \in Node, AgentCrash(n)
  PROVE  OlderInv'
<1>1. UNCHANGED <<tasks, desired, results, call>>
  BY DEF AgentCrash, controllerMemory, database
<1>2. \A m \in Node : agent'[m].rev = agent[m].rev /\ agent'[m].batch \subseteq agent[m].batch
  BY DEF AgentCrash, IInv, TypeOK, AgentRow
<1>3. NoReapply'
  BY <1>1 DEF OlderInv, NoReapply, Restarting
<1>4. \A m \in Node : desired[m].rev <= desired'[m].rev
  BY <1>1, OrderTypes DEF IInv
<1> QED
  BY <1>1, <1>2, <1>3, <1>4, OlderAside DEF IInv

(* The steps that leave the rows alone and send nothing. *)
OtherStep ==
  \/ AccessBoundary \/ QuotaEnds \/ QuotaMark \/ ChargeThrows \/ MinuteStart \/ MinuteMark \/ MinuteAbort \/ ControllerRestart
  \/ \E h \in Handler : \/ BuildRead(h) \/ BuildRefused(h) \/ BuildWrite(h) \/ BuildThrows(h) \/ EnqueueThrows(h)
                        \/ HeartbeatBuilt(h) \/ HeartbeatRestore(h) \/ AccessRebuild(h) \/ EnableBuilt(h)
                        \/ SendThrows(h) \/ ConsoleAccess(h)
  \/ \E h \in Handler, n \in Node : HeartbeatStart(h, n) \/ ConsoleEnable(h, n) \/ ConsoleDisable(h, n) \/ ConsoleRestart(h, n)
  \/ \E n \in Node : SafetyInterval(n) \/ AdvertisedChanges(n)
  \/ \E r \in results : FinishService(r) \/ FinishObserved(r)

(* A step is one of them, or marks a row, enqueues one, pulls, or is the agent's. *)
LEMMA NextParts ==
  ASSUME Next
  PROVE  \/ OtherStep
         \/ \E i \in DOMAIN tasks : RetryStale(i) \/ RetryFailed(i)
         \/ \E r \in results : FinishTask(r)
         \/ \E h \in Handler : BuildEnqueue(h) \/ DisableSend(h) \/ RestartSend(h)
         \/ \E n \in Node : Pull(n) \/ PullLost(n) \/ AgentCrash(n) \/ ApplyTask(n) \/ ApplyFails(n)
  BY DEF Next, OtherStep, BuildStep, Return, Finish

(* All but the build's write and the reports leave the stored configuration alone. *)
LEMMA PlainFrame ==
  ASSUME \/ AccessBoundary \/ QuotaEnds \/ QuotaMark \/ ChargeThrows \/ MinuteStart \/ MinuteMark \/ MinuteAbort \/ ControllerRestart
         \/ \E h \in Handler : \/ BuildRead(h) \/ BuildRefused(h) \/ BuildThrows(h) \/ EnqueueThrows(h)
                               \/ HeartbeatBuilt(h) \/ HeartbeatRestore(h) \/ AccessRebuild(h) \/ EnableBuilt(h)
                               \/ SendThrows(h) \/ ConsoleAccess(h)
         \/ \E h \in Handler, n \in Node : HeartbeatStart(h, n) \/ ConsoleEnable(h, n) \/ ConsoleDisable(h, n) \/ ConsoleRestart(h, n)
         \/ \E n \in Node : SafetyInterval(n) \/ AdvertisedChanges(n)
  PROVE  UNCHANGED <<tasks, agent, desired>> /\ results' \in {results, {}}
<1> DEFINE Frame == UNCHANGED <<tasks, agent, desired>> /\ results' \in {results, {}}
<1>1. AccessBoundary \/ QuotaEnds \/ QuotaMark \/ ChargeThrows \/ MinuteStart \/ MinuteMark => Frame
  BY DEF AccessBoundary, QuotaEnds, QuotaMark, ChargeThrows, MinuteStart, MinuteMark, controllerMemory, database
<1>2. MinuteAbort \/ ControllerRestart => Frame
  BY DEF MinuteAbort, ControllerRestart, database
<1>3. ASSUME NEW h \in Handler, BuildRead(h) \/ BuildRefused(h) \/ BuildThrows(h) \/ EnqueueThrows(h) PROVE Frame
  BY <1>3 DEF BuildRead, BuildRefused, BuildThrows, EnqueueThrows, database
<1>4. ASSUME NEW h \in Handler, HeartbeatBuilt(h) \/ HeartbeatRestore(h) \/ EnableBuilt(h) PROVE Frame
  BY <1>4 DEF HeartbeatBuilt, HeartbeatRestore, EnableBuilt
<1>5. ASSUME NEW h \in Handler, AccessRebuild(h) \/ SendThrows(h) \/ ConsoleAccess(h) PROVE Frame
  BY <1>5 DEF AccessRebuild, SendThrows, ConsoleAccess, database
<1>6. ASSUME NEW h \in Handler, NEW n \in Node, HeartbeatStart(h, n) PROVE Frame
  <2>1. HeartbeatRebuild(h, n) \/ HeartbeatDeploy(h, n) \/ HeartbeatUnsupported(h, n) => Frame
    BY DEF HeartbeatRebuild, HeartbeatDeploy, HeartbeatUnsupported, database
  <2>2. HeartbeatSkip(h, n) \/ HeartbeatIdle(h, n) => Frame
    BY DEF HeartbeatSkip, HeartbeatIdle, vars, controllerMemory, database
  <2> QED
    BY <1>6, <2>1, <2>2 DEF HeartbeatStart
<1>7. ASSUME NEW h \in Handler, NEW n \in Node, ConsoleEnable(h, n) \/ ConsoleDisable(h, n) \/ ConsoleRestart(h, n) PROVE Frame
  BY <1>7 DEF ConsoleEnable, ConsoleDisable, ConsoleRestart
<1>8. ASSUME NEW n \in Node, SafetyInterval(n) \/ AdvertisedChanges(n) PROVE Frame
  BY <1>8 DEF SafetyInterval, AdvertisedChanges, controllerMemory, database
<1> HIDE DEF Frame
<1>9. Frame
  BY <1>1, <1>2, <1>3, <1>4, <1>5, <1>6, <1>7, <1>8
<1> QED
  BY <1>9 DEF Frame

(* None of them changes a row or an agent, reports something new, or takes a revision back. *)
LEMMA OtherStepKeeps ==
  ASSUME IInv, OtherStep
  PROVE  /\ UNCHANGED <<tasks, agent>>
         /\ \A r \in results' : \E q \in results : q.task = r.task
         /\ \A n \in Node : desired[n].rev <= desired'[n].rev
<1>1. CASE \E r \in results : FinishService(r) \/ FinishObserved(r)
  <2>1. PICK q \in results : FinishService(q) \/ FinishObserved(q)
    BY <1>1
  <2>2. [q EXCEPT !.phase = "observed"].task = q.task
    BY DEF IInv, TypeOK, ReportRow
  <2>3. results' \subseteq results \union {[q EXCEPT !.phase = "observed"]}
    BY <2>1 DEF FinishService, FinishObserved, Advance
  <2>4. UNCHANGED <<tasks, agent, desired>>
    BY <2>1 DEF FinishService, FinishObserved
  <2>5. \A r \in results' : \E p \in results : p.task = r.task
    BY <2>2, <2>3
  <2>6. \A n \in Node : desired[n].rev \in Nat
    BY OrderTypes DEF IInv
  <2> QED
    BY <2>4, <2>5, <2>6
<1>2. CASE \E h \in Handler : BuildWrite(h)
  <2>1. PICK h \in Handler : BuildWrite(h)
    BY <1>2
  <2>2. UNCHANGED <<tasks, agent, results>> /\ call[h].pc = "read"
    BY <2>1 DEF BuildWrite
  <2>3. ASSUME NEW n \in Node PROVE desired[n].rev <= desired'[n].rev
    <3>1. /\ call[h].node \in Node /\ call[h].rev = desired[call[h].node].rev
          /\ desired[n].rev \in Nat /\ call[h].rev \in Nat
      BY <2>2, OrderTypes DEF IInv, BuildKnows, TypeOK, Call
    <3>2. CASE call[h].changed
      <4>1. desired' = [desired EXCEPT ![call[h].node] = [rev |-> call[h].rev + 1, peers |-> call[h].peers]]
        BY <2>1, <3>2 DEF BuildWrite
      <4> QED
        BY <3>1, <4>1 DEF IInv, TypeOK
    <3>3. CASE ~call[h].changed
      <4>1. UNCHANGED desired
        BY <2>1, <3>3 DEF BuildWrite
      <4> QED
        BY <3>1, <4>1
    <3> QED
      BY <3>2, <3>3
  <2> QED
    BY <2>2, <2>3
<1>3. CASE ~(\E r \in results : FinishService(r) \/ FinishObserved(r)) /\ ~(\E h \in Handler : BuildWrite(h))
  <2>1. UNCHANGED <<tasks, agent, desired>> /\ results' \in {results, {}}
    BY <1>3, PlainFrame DEF OtherStep
  <2>2. \A n \in Node : desired[n].rev \in Nat
    BY OrderTypes DEF IInv
  <2> QED
    BY <2>1, <2>2
<1> QED
  BY <1>1, <1>2, <1>3

(* Where restarts are applied like builds, no row and no request is one. *)
LEMMA NoReapplyStep ==
  ASSUME IInv, OlderInv, RestartsKeep, Next, SameRequests(tasks, tasks')
  PROVE  NoReapply'
  BY NobodyRestarts DEF OlderInv, NoReapply, RestartsKeep, SameRequests

(* What is appended to a queue is its last row, and the only new one. *)
LEMMA AppendedRow ==
  ASSUME NEW row, NEW ts \in Seq(TaskRow), NEW i \in DOMAIN Append(ts, row)
  PROVE  Append(ts, row)[i] = row \/ (i \in DOMAIN ts /\ Append(ts, row)[i] = ts[i])
  OBVIOUS

(* Every step keeps the order, and takes a node back only through a task given again. *)
LEMMA OlderStep ==
  ASSUME IInv, IInv', OlderInv, RestartsKeep, Next
  PROVE  /\ OlderInv'
         /\ \A m \in Node : (agent'[m].rev # 0 /\ agent'[m].rev < agent[m].rev) => agent'[m].redelivered
<1>1. ASSUME NEW n \in Node, ApplyTask(n) \/ ApplyFails(n)
      PROVE  /\ OlderInv'
             /\ \A m \in Node : (agent'[m].rev # 0 /\ agent'[m].rev < agent[m].rev) => agent'[m].redelivered
  BY <1>1, OlderApply
<1>2. TypeOK /\ TypeOK' /\ \A m \in Node : agent[m].rev \in Nat
  BY OrderTypes DEF IInv
<1>3. CASE OtherStep
  <2>1. UNCHANGED <<tasks, agent>>
    BY <1>3, OtherStepKeeps
  <2>2. NoReapply'
    BY <1>2, <2>1, NoReapplyStep, SameItself
  <2>3. OlderInv'
    BY <1>2, <1>3, <2>1, <2>2, OtherStepKeeps, OlderAside
  <2> QED
    BY <1>2, <2>1, <2>3
<1>4. CASE (\E i \in DOMAIN tasks : RetryStale(i) \/ RetryFailed(i)) \/ (\E r \in results : FinishTask(r))
  <2>1. UNCHANGED agent
    BY <1>4 DEF RetryStale, RetryFailed, FinishTask
  <2> QED
    BY <1>2, <1>4, <2>1, OlderMarks
<1>5. ASSUME NEW n \in Node, Pull(n) \/ PullLost(n) \/ AgentCrash(n)
      PROVE  OlderInv' /\ \A m \in Node : agent'[m].rev = agent[m].rev
  <2>1. \A m \in Node : agent'[m].rev = agent[m].rev
    <3>1. agent' = agent \/ \E batch : agent' = [agent EXCEPT ![n].batch = batch]
      BY <1>5 DEF Pull, PullLost, AgentCrash
    <3>2. \A batch : [agent[n] EXCEPT !.batch = batch].rev = agent[n].rev
      BY OrderTypes DEF IInv, AgentRow
    <3>3. ASSUME NEW batch, agent' = [agent EXCEPT ![n].batch = batch]
          PROVE  agent' = [agent EXCEPT ![n] = [agent[n] EXCEPT !.batch = batch]]
      BY <3>3
    <3>4. ASSUME NEW row, agent' = [agent EXCEPT ![n] = row], row.rev = agent[n].rev
          PROVE  \A m \in Node : agent'[m].rev = agent[m].rev
      BY <1>2, <3>4 DEF TypeOK
    <3> QED
      BY <3>1, <3>2, <3>3, <3>4
  <2> QED
    BY <1>5, <2>1, OlderPull, OlderCrash
<1>6. ASSUME NEW h \in Handler, BuildEnqueue(h) \/ DisableSend(h) \/ RestartSend(h)
      PROVE  OlderInv' /\ UNCHANGED agent
  <2>1. NoReapply'
    <3> SUFFICES ASSUME RestartApplies PROVE (\A i \in DOMAIN tasks' : tasks'[i].kind # "Restart") /\ \A k \in Handler : ~Restarting(k)'
      BY DEF NoReapply
    <3>1. "restartService" \notin Env /\ (\A i \in DOMAIN tasks : tasks[i].kind # "Restart") /\ \A k \in Handler : ~Restarting(k)
      BY DEF OlderInv, NoReapply, RestartsKeep
    <3>2. PICK kind \in {"Apply", "Disable"}, rev \in {call[h].rev, desired[call[h].node].rev}, peers \in {call[h].peers, {}} :
            tasks' = Append(tasks, Task(kind, call[h].node, rev, peers))
      BY <1>6, <3>1 DEF BuildEnqueue, DisableSend, RestartSend, Restarting, Enqueue
    <3>3. Task(kind, call[h].node, rev, peers).kind = kind
      BY DEF Task
    <3>4. \A i \in DOMAIN tasks' : tasks'[i].kind # "Restart"
      BY <1>2, <3>1, <3>2, <3>3, AppendedRow DEF TypeOK
    <3> QED
      BY <3>1, <3>4, NobodyRestarts
  <2>2. UNCHANGED agent
    BY <1>6 DEF BuildEnqueue, DisableSend, RestartSend
  <2> QED
    BY <1>6, <2>1, <2>2, OlderSend
<1> QED
  BY <1>1, <1>2, <1>3, <1>4, <1>5, <1>6, NextParts

(* So does a step that changes nothing. *)
LEMMA OlderKept ==
  ASSUME IInv, IInv', OlderInv, RestartsKeep, [Next]_vars
  PROVE  OlderInv'
<1>1. CASE Next
  BY <1>1, OlderStep
<1>2. CASE UNCHANGED vars
  BY <1>2 DEF vars, controllerMemory, database, OlderInv, NoReapply, TakenInOrder, AgentBehind, Restarting,
              FirstTime, Untaken
<1> QED
  BY <1>1, <1>2

(* Where no restart is applied like a build, OlderInv holds with the invariant of the builds. *)
LEMMA OlderInvariant ==
  ASSUME RestartsKeep
  PROVE  Spec => [](IInv /\ OlderInv)
<1>1. Init => IInv /\ OlderInv
  BY TypeInit, NamingInit, OlderInit DEF IInv, NamingInv
<1>2. IInv /\ OlderInv /\ [Next]_vars => (IInv /\ OlderInv)'
  <2> SUFFICES ASSUME IInv, OlderInv, [Next]_vars PROVE (IInv /\ OlderInv)'
    OBVIOUS
  <2>1. IInv'
    BY TypeStep, NamingStep DEF IInv, NamingInv
  <2> QED
    BY <2>1, OlderKept
<1> QED
  BY <1>1, <1>2, PTL DEF Spec

(* A node goes back to an older configuration only through a task that was delivered before,   *)
(* with any number of nodes, crashes, lost answers and retries, as long as no Restart task is   *)
(* applied like a build: that is true of WireGuard and IKEv2 always, and of VLESS and stealth    *)
(* while nobody restarts their service from the Console (README, section 6).                        *)
THEOREM NodesGoForward ==
  ASSUME RestartsKeep
  PROVE  Spec => NeverOlder
<1>1. IInv /\ OlderInv /\ IInv' /\ [Next]_vars
        => [\A n \in Node : (agent'[n].rev # 0 /\ agent'[n].rev < agent[n].rev) => agent'[n].redelivered]_vars
  BY OlderStep
<1> QED
  BY <1>1, OlderInvariant, PTL DEF Spec, NeverOlder

-----------------------------------------------------------------------------
(* A configuration behind the database is noticed: epoch and reconciled lose no change that   *)
(* arrives while a heartbeat rebuilds, once the services are deployed and as long as no build  *)
(* is given up, no operator redeploys, and every change names the nodes it is about.           *)

NoticeAssumed == Fresh = {} /\ Env \cap {"enable", "restartService", "unlisted", "readFail", "opFail"} = {}

(* A request that is bound to look at node n, where A are the peers admitted now. *)
Source(c, n, A) ==
  \/ c.job = "access" /\ c.pc # "idle" /\ n \in c.todo
  \/ c.pc = "queued" /\ c.node = n
  \/ c.pc = "read" /\ c.node = n /\ c.peers = A

Watched(n) ==
  \/ boundary \/ minute = "passed" \/ charge.owed > 0 \/ MarkLost
  \/ \E h \in Handler : Source(call[h], n, access[n])

Behind(n, P) == service[n].enabled /\ P # access[n]

Settled == \A n \in Node : service[n].enabled => service[n].status \in {"healthy", "attention"}

(* The requests there are: a build is a heartbeat's or an access change's, a send disables. *)
Expected(c) ==
  /\ c.pc \in {"queued", "read", "wrote", "back"} => c.job \in {"heartbeat", "access"}
  /\ c.pc = "restore" => c.job = "heartbeat"
  /\ c.pc = "send" => c.job = "disable"

(* A heartbeat about to mark the node with the present epoch has missed nothing that nobody else watches. *)
Seen(h) ==
  (call[h].job = "heartbeat" /\ call[h].due = epoch) =>
    /\ (call[h].pc = "read" /\ Behind(call[h].node, call[h].peers)) => Watched(call[h].node)
    /\ (call[h].pc \in {"wrote", "back", "restore"} /\ Behind(call[h].node, desired[call[h].node].peers))
         => Watched(call[h].node)

NotAfterEpoch == (\A n \in Node : reconciled[n] <= epoch) /\ \A h \in Handler : call[h].due <= epoch

Noticed == \A n \in Node : Behind(n, desired[n].peers) => reconciled[n] # epoch \/ Watched(n)

NoticeInv ==
  /\ Settled
  /\ NotAfterEpoch
  /\ \A h \in Handler : Expected(call[h])
  /\ \A h \in Handler : Seen(h)
  /\ Noticed

(* What is noticed is what the property says. *)
LEMMA NoticedSuffices ==
  ASSUME NoticeInv
  PROVE  StaleUnlessMarkLost
<1> SUFFICES ASSUME NEW n \in Node, service[n].enabled, desired[n].peers # access[n], ~MarkLost PROVE WillBeNoticed(n)
  BY DEF StaleUnlessMarkLost, StaleIsNoticed
<1>1. reconciled[n] # epoch \/ Watched(n)
  BY DEF NoticeInv, Noticed, Behind
<1> QED
  BY <1>1 DEF WillBeNoticed, Watched, Source, Busy

(* At first every node has what the database admits. *)
LEMMA NoticeInit ==
  ASSUME Init, NoticeAssumed
  PROVE  NoticeInv
<1>1. \A n \in Node : service[n].status = "healthy" /\ desired[n].peers = access[n] /\ reconciled[n] = 1
  BY DEF Init, NoticeAssumed
<1>2. epoch = 1 /\ \A h \in Handler : call[h] = Idle
  BY DEF Init
<1>3. \A h \in Handler : call[h].pc = "idle" /\ call[h].due = 0
  <2>1. Idle.pc = "idle" /\ Idle.due = 0
    BY DEF Idle
  <2> QED
    BY <1>2, <2>1
<1>4. Settled /\ NotAfterEpoch /\ Noticed
  BY <1>1, <1>2, <1>3 DEF Settled, NotAfterEpoch, Noticed, Behind
<1> QED
  BY <1>3, <1>4 DEF NoticeInv, Expected, Seen

(* The requests' fields, and the epochs as numbers. *)
LEMMA NoticeTypes ==
  ASSUME TypeOK
  PROVE  /\ epoch \in Nat /\ \A n \in Node : reconciled[n] \in Nat
         /\ \A h \in Handler : call[h] \in Call /\ call[h].node \in Node /\ call[h].due \in Nat
  BY DEF TypeOK, Call

(* A change of the epoch is noticed by everybody. *)
LEMMA NewEpoch ==
  ASSUME TypeOK, NoticeInv, epoch' = epoch + 1, UNCHANGED <<service, reconciled>>,
         \A h \in Handler : call'[h].due = call[h].due /\ Expected(call'[h])
  PROVE  NoticeInv'
<1>1. Settled'
  BY DEF NoticeInv, Settled
<1>2. NotAfterEpoch' /\ (\A n \in Node : reconciled'[n] # epoch') /\ \A h \in Handler : call'[h].due # epoch'
  BY NoticeTypes DEF NoticeInv, NotAfterEpoch
<1> QED
  BY <1>1, <1>2 DEF NoticeInv, Seen, Noticed

(* So is a boundary that the minute job is bound to look at, and a mark that is owed (or was just lost). *)
LEMMA AllWatched ==
  ASSUME NoticeInv, boundary' \/ minute' = "passed" \/ charge'.owed > 0 \/ MarkLost', UNCHANGED <<service, reconciled, epoch, call>>
  PROVE  NoticeInv'
<1>1. \A n \in Node : Watched(n)'
  BY DEF Watched
<1>2. \A h \in Handler : Seen(h)'
  BY DEF Seen, Watched
<1> QED
  BY <1>1, <1>2 DEF NoticeInv, Settled, NotAfterEpoch, Noticed

(* Who else watches goes on watching. *)
LEMMA WatchStays ==
  ASSUME NEW h \in Handler, NEW n \in Node, Watched(n), UNCHANGED <<access, boundary, minute, charge, epoch>>,
         \A k \in Handler \ {h} : call'[k] = call[k],
         Source(call[h], n, access[n]) => Source(call'[h], n, access[n])
  PROVE  Watched(n)'
<1>1. CASE boundary \/ minute = "passed" \/ charge.owed > 0 \/ MarkLost
  BY <1>1 DEF Watched, MarkLost
<1>2. CASE \E k \in Handler : Source(call[k], n, access[n])
  <2>1. PICK k \in Handler : Source(call[k], n, access[n])
    BY <1>2
  <2>2. Source(call'[k], n, access'[n])
    BY <2>1
  <2> QED
    BY <2>2 DEF Watched
<1> QED
  BY <1>1, <1>2 DEF Watched

(* One request moves on. Either it goes on watching what it watched, or it holds the node's lock and *)
(* what it leaves behind is up to date.                                                               *)
LEMMA NoticeCall ==
  ASSUME IInv, NoticeInv, NEW h \in Handler, UNCHANGED <<access, boundary, minute, charge, epoch, desired>>,
         \A k \in Handler \ {h} : call'[k] = call[k],
         \A n \in Node : service'[n].enabled => service[n].enabled /\ service'[n].status \in {"healthy", "attention"},
         \A n \in Node : Source(call[h], n, access[n]) =>
           Source(call'[h], n, access[n]) \/ (~Behind(n, desired[n].peers) /\ HoldsLock(h, n)),
         Expected(call'[h]), call'[h].due <= epoch, Seen(h)',
         \A n \in Node : \/ reconciled'[n] = reconciled[n]
                         \/ /\ reconciled'[n] <= epoch
                            /\ service'[n].enabled /\ desired[n].peers # access[n] => reconciled'[n] # epoch \/ Watched(n)'
  PROVE  NoticeInv'
<1>1. Settled'
  BY DEF Settled
<1>2. NotAfterEpoch' /\ \A k \in Handler : Expected(call'[k])
  BY DEF NoticeInv, NotAfterEpoch
<1>3. ASSUME NEW n \in Node, Watched(n), ~Watched(n)'
      PROVE  ~Behind(n, desired[n].peers) /\ HoldsLock(h, n)
  BY <1>3, WatchStays
<1>4. ASSUME NEW k \in Handler, k # h PROVE Seen(k)'
  <2>1. call'[k] = call[k] /\ call[k].node \in Node
    BY <1>4, NoticeTypes DEF IInv
  <2> DEFINE n == call[k].node
  <2>2. ASSUME call[k].job = "heartbeat", call[k].due = epoch, call[k].pc = "read", Behind(n, call[k].peers)'
        PROVE  Watched(n)'
    <3>1. Behind(n, call[k].peers)
      BY <2>1, <2>2 DEF Behind
    <3>2. Watched(n)
      BY <2>2, <3>1 DEF NoticeInv, Seen
    <3>3. HoldsLock(k, n)
      BY <2>2 DEF IInv, LockHeld
    <3> QED
      BY <1>3, <1>4, <2>1, <3>2, <3>3 DEF HoldsLock
  <2>3. ASSUME call[k].job = "heartbeat", call[k].due = epoch, call[k].pc \in {"wrote", "back", "restore"},
               service'[n].enabled, desired[n].peers # access[n]
        PROVE  Watched(n)'
    <3>1. Behind(n, desired[n].peers)
      BY <2>1, <2>3 DEF Behind
    <3>2. Watched(n)
      BY <2>3, <3>1 DEF NoticeInv, Seen
    <3> QED
      BY <1>3, <2>1, <3>1, <3>2
  <2> QED
    BY <2>1, <2>2, <2>3 DEF Seen, Behind
<1>5. Noticed'
  <2> SUFFICES ASSUME NEW n \in Node, service'[n].enabled, desired[n].peers # access[n], reconciled'[n] = reconciled[n],
                      reconciled[n] = epoch
               PROVE  Watched(n)'
    BY DEF Noticed, Behind
  <2>1. Behind(n, desired[n].peers) /\ Watched(n)
    BY DEF NoticeInv, Noticed, Behind
  <2> QED
    BY <1>3, <2>1
<1>6. \A k \in Handler : Seen(k)'
  BY <1>4
<1> QED
  BY <1>1, <1>2, <1>5, <1>6 DEF NoticeInv

(* Steps that leave access, services, requests and marks alone. *)
LEMMA NoticeAside ==
  ASSUME NoticeInv, UNCHANGED <<access, boundary, minute, charge, epoch, reconciled, service, desired, call>>
  PROVE  NoticeInv'
  BY DEF NoticeInv, Settled, NotAfterEpoch, Expected, Seen, Noticed, Behind, Watched, MarkLost

(* An idle request is bound to look at nothing. *)
LEMMA IdleIsNoSource ==
  ASSUME NEW n, NEW A
  PROVE  ~Source(Idle, n, A) /\ Expected(Idle) /\ Idle.due = 0 /\ Idle.pc = "idle" /\ Idle.job = "heartbeat"
  BY DEF Idle, Source, Expected

(* Boundaries, quotas and the minute job. *)
LEMMA NoticeMinute ==
  ASSUME IInv, NoticeInv, AccessBoundary \/ QuotaEnds \/ QuotaMark \/ ChargeThrows \/ MinuteStart \/ MinuteMark \/ MinuteAbort
  PROVE  NoticeInv'
<1>1. CASE AccessBoundary
  BY <1>1, AllWatched DEF AccessBoundary, controllerMemory, database
<1>2. CASE MinuteStart
  BY <1>2, AllWatched DEF MinuteStart, database
<1>3. CASE MinuteAbort
  BY <1>3, AllWatched DEF MinuteAbort, database
<1>4. CASE QuotaMark \/ MinuteMark
  <2>1. epoch' = epoch + 1 /\ UNCHANGED <<service, reconciled, call>>
    BY <1>4 DEF QuotaMark, MinuteMark, database
  <2> QED
    BY <2>1, NewEpoch DEF IInv, NoticeInv
<1>5. CASE QuotaEnds
  <2>1. charge'.owed > 0
    BY <1>5 DEF QuotaEnds, IInv, TypeOK
  <2> QED
    BY <1>5, <2>1, AllWatched DEF QuotaEnds, database
<1>6. CASE ChargeThrows
  <2>1. MarkLost'
    BY <1>6 DEF ChargeThrows, MarkLost
  <2> QED
    BY <1>6, <2>1, AllWatched DEF ChargeThrows, database
<1> QED
  BY <1>1, <1>2, <1>3, <1>4, <1>5, <1>6

(* The safety interval takes a mark away. *)
LEMMA NoticeInterval ==
  ASSUME IInv, NoticeInv, NEW n \in Node, SafetyInterval(n)
  PROVE  NoticeInv'
<1>1. /\ UNCHANGED <<access, boundary, minute, charge, epoch, service, desired, call>>
      /\ reconciled' = [reconciled EXCEPT ![n] = 0] /\ epoch # 0
  BY DEF SafetyInterval, database, IInv, TypeOK
<1>2. \A m \in Node : reconciled'[m] = reconciled[m] \/ reconciled'[m] = 0
  BY <1>1 DEF IInv, TypeOK
<1>3. NotAfterEpoch' /\ Noticed'
  BY <1>1, <1>2, NoticeTypes DEF IInv, NoticeInv, NotAfterEpoch, Noticed, Behind, Watched, MarkLost
<1> QED
  BY <1>1, <1>3 DEF NoticeInv, Settled, Expected, Seen, Behind, Watched, MarkLost

(* The restart forgets every mark. *)
LEMMA NoticeRestart ==
  ASSUME IInv, NoticeInv, ControllerRestart
  PROVE  NoticeInv'
<1>1. epoch' = 1 /\ (\A n \in Node : reconciled'[n] = 0) /\ UNCHANGED service
  BY DEF ControllerRestart, database
<1>2. \A h \in Handler : call'[h].pc = "idle" /\ call'[h].due = 0
  BY IdleIsNoSource DEF ControllerRestart
<1> QED
  BY <1>1, <1>2 DEF NoticeInv, Settled, NotAfterEpoch, Expected, Seen, Noticed

(* Only a request's own fields change when it leaves the lock. *)
LEMMA LeftFields ==
  ASSUME TypeOK, NEW h \in Handler, NEW ok \in BOOLEAN, LeaveLock(h, ok)
  PROVE  /\ call'[h].pc = "back" /\ call'[h].job = call[h].job /\ call'[h].node = call[h].node /\ call'[h].due = call[h].due
         /\ call'[h].todo = call[h].todo
         /\ \A k \in Handler \ {h} : call'[k] = call[k]
<1>1. call[h] \in Call
  BY DEF TypeOK
<1> DEFINE c == [call[h] EXCEPT !.pc = "back", !.ok = ok]
<1>2. c.pc = "back" /\ c.job = call[h].job /\ c.node = call[h].node /\ c.due = call[h].due /\ c.todo = call[h].todo
  BY <1>1 DEF Call
<1>3. call' = [call EXCEPT ![h] = c]
  BY DEF LeaveLock
<1> HIDE DEF c
<1> QED
  BY <1>2, <1>3 DEF TypeOK

(* A build reads what the database admits, and is then up to date or watched. *)
LEMMA NoticeRead ==
  ASSUME IInv, NoticeInv, NEW h \in Handler, BuildRead(h)
  PROVE  NoticeInv'
<1> DEFINE n == call[h].node
<1>1. /\ call[h] \in Call /\ call[h].pc = "queued" /\ n \in Node
      /\ UNCHANGED <<access, boundary, minute, charge, epoch, desired, service, reconciled>>
  BY NoticeTypes DEF IInv, BuildRead, database
<1>2. /\ call'[h].pc = "read" /\ call'[h].node = n /\ call'[h].peers = access[n] /\ call'[h].job = call[h].job
      /\ call'[h].due = call[h].due /\ call'[h].todo = call[h].todo
      /\ \A k \in Handler \ {h} : call'[k] = call[k]
  BY <1>1 DEF BuildRead, IInv, TypeOK, Call
<1> HIDE DEF n
<1>3. \A m \in Node : Source(call[h], m, access[m]) => Source(call'[h], m, access[m])
  BY <1>1, <1>2 DEF Source, n
<1>4. Expected(call'[h]) /\ call'[h].due <= epoch
  BY <1>1, <1>2 DEF NoticeInv, Expected, NotAfterEpoch
<1>5. Seen(h)'
  BY <1>1, <1>2 DEF Seen, Behind
<1>6. \A m \in Node : service'[m].enabled => service[m].enabled /\ service'[m].status \in {"healthy", "attention"}
  BY <1>1 DEF NoticeInv, Settled
<1> QED
  BY <1>1, <1>2, <1>3, <1>4, <1>5, <1>6, NoticeCall

(* Builds that end, or that write nothing new. *)
LEMMA NoticeBuild ==
  ASSUME IInv, NoticeInv, NEW h \in Handler,
         \/ BuildRefused(h) \/ EnqueueThrows(h) \/ BuildEnqueue(h)
         \/ BuildWrite(h) /\ ~call[h].changed
  PROVE  NoticeInv'
<1> DEFINE n == call[h].node
<1>1. /\ call[h] \in Call /\ n \in Node
      /\ UNCHANGED <<access, boundary, minute, charge, epoch, desired, service, reconciled>>
  BY NoticeTypes DEF IInv, BuildRefused, EnqueueThrows, BuildEnqueue, BuildWrite, database
<1>2. /\ call'[h].pc \in {"wrote", "back"} /\ call'[h].node = n /\ call'[h].job = call[h].job
      /\ call'[h].due = call[h].due /\ call'[h].todo = call[h].todo
      /\ \A k \in Handler \ {h} : call'[k] = call[k]
  <2>1. CASE BuildWrite(h) /\ ~call[h].changed /\ call[h].force
    BY <1>1, <2>1 DEF BuildWrite, IInv, TypeOK, Call
  <2>2. CASE \/ BuildRefused(h) \/ EnqueueThrows(h) \/ BuildEnqueue(h)
             \/ BuildWrite(h) /\ ~call[h].changed /\ ~call[h].force
    <3>1. PICK ok \in BOOLEAN : LeaveLock(h, ok)
      BY <2>2 DEF BuildRefused, EnqueueThrows, BuildEnqueue, BuildWrite
    <3> QED
      BY <3>1, LeftFields DEF IInv
  <2> QED
    BY <2>1, <2>2
<1>3. /\ HoldsLock(h, n)
      /\ \/ call[h].pc = "queued" /\ ~service[n].enabled
         \/ call[h].pc = "read" /\ call[h].peers = desired[n].peers
         \/ call[h].pc = "wrote"
  BY DEF BuildRefused, EnqueueThrows, BuildEnqueue, BuildWrite, IInv, LockHeld, BuildKnows
<1> HIDE DEF n
<1>4. \A m \in Node : Source(call[h], m, access[m]) =>
        Source(call'[h], m, access[m]) \/ (~Behind(m, desired[m].peers) /\ HoldsLock(h, m))
  BY <1>1, <1>2, <1>3 DEF Source, Behind, n
<1>5. Expected(call'[h]) /\ call'[h].due <= epoch
  BY <1>1, <1>2, <1>3 DEF NoticeInv, Expected, NotAfterEpoch
<1>6. Seen(h)'
  <2>1. ASSUME NEW m \in Node, m = n, call[h].job = "heartbeat", call[h].due = epoch, Behind(m, desired[m].peers)
        PROVE  Watched(m)'
    <3>1. Watched(m)
      BY <1>3, <2>1 DEF NoticeInv, Seen, Behind, n
    <3>2. Source(call[h], m, access[m]) => Source(call'[h], m, access[m])
      BY <1>4, <2>1
    <3> QED
      BY <1>1, <1>2, <3>1, <3>2, WatchStays
  <2> QED
    BY <1>1, <1>2, <2>1 DEF Seen, Behind, Watched, MarkLost
<1>7. \A m \in Node : service'[m].enabled => service[m].enabled /\ service'[m].status \in {"healthy", "attention"}
  BY <1>1 DEF NoticeInv, Settled
<1> QED
  BY <1>1, <1>2, <1>4, <1>5, <1>6, <1>7, NoticeCall

(* A changed configuration starts a new epoch. *)
LEMMA NoticeWrite ==
  ASSUME IInv, NoticeInv, NEW h \in Handler, BuildWrite(h), call[h].changed
  PROVE  NoticeInv'
<1>1. epoch' = epoch + 1 /\ UNCHANGED <<service, reconciled>> /\ call[h].pc = "read" /\ call[h] \in Call
  BY DEF BuildWrite, IInv, TypeOK
<1>2. /\ call'[h].pc = "wrote" /\ call'[h].job = call[h].job /\ call'[h].due = call[h].due
      /\ \A k \in Handler \ {h} : call'[k] = call[k]
  BY <1>1 DEF BuildWrite, IInv, TypeOK, Call
<1>3. \A k \in Handler : call'[k].due = call[k].due /\ Expected(call'[k])
  BY <1>1, <1>2 DEF NoticeInv, Expected
<1> QED
  BY <1>1, <1>3, NewEpoch DEF IInv

(* Nobody gives a build up or redeploys a service here. *)
LEMMA NeverHappens ==
  ASSUME NoticeAssumed, NoticeInv, NEW h \in Handler
  PROVE  /\ ~BuildThrows(h) /\ ~EnableBuilt(h) /\ ~RestartSend(h)
         /\ \A n \in Node : /\ ~ConsoleEnable(h, n) /\ ~ConsoleRestart(h, n)
                            /\ ~HeartbeatDeploy(h, n) /\ ~HeartbeatUnsupported(h, n)
<1>1. ~BuildThrows(h)
  <2> SUFFICES ASSUME BuildThrows(h) PROVE FALSE
    OBVIOUS
  <2>1. call[h].job \in {"heartbeat", "access"}
    BY DEF BuildThrows, NoticeInv, Expected
  <2>2. Happens("readFail") \/ Happens("opFail")
    BY <2>1 DEF BuildThrows
  <2> QED
    BY <2>2 DEF Happens, NoticeAssumed
<1>2. ~EnableBuilt(h) /\ ~RestartSend(h)
  BY DEF EnableBuilt, RestartSend, NoticeInv, Expected
<1>3. \A n \in Node : ~ConsoleEnable(h, n) /\ ~ConsoleRestart(h, n)
  BY DEF ConsoleEnable, ConsoleRestart, Happens, NoticeAssumed
<1>4. \A n \in Node : ~HeartbeatDeploy(h, n) /\ ~HeartbeatUnsupported(h, n)
  BY DEF HeartbeatDeploy, HeartbeatUnsupported, Deployable, NoticeInv, Settled
<1> QED
  BY <1>1, <1>2, <1>3, <1>4

(* Setting the status of one service disables or enables none. *)
LEMMA StatusKeepsSettled ==
  ASSUME TypeOK, NoticeInv, NEW n \in Node, NEW s, SetStatus(n, s), service[n].enabled => s \in {"healthy", "attention"}
  PROVE  \A m \in Node : /\ service'[m].enabled = service[m].enabled
                         /\ service'[m].enabled => service'[m].status \in {"healthy", "attention"}
<1>1. service[n] \in ServiceRow /\ service \in [Node -> ServiceRow]
  BY DEF TypeOK
<1>2. [service[n] EXCEPT !.status = s].enabled = service[n].enabled /\ [service[n] EXCEPT !.status = s].status = s
  BY <1>1 DEF ServiceRow
<1>3. service' = [service EXCEPT ![n] = [service[n] EXCEPT !.status = s]]
  BY DEF SetStatus
<1>4. \A m \in Node : service'[m] = IF m = n THEN [service[n] EXCEPT !.status = s] ELSE service[m]
  BY <1>1, <1>3
<1> QED
  BY <1>2, <1>4 DEF NoticeInv, Settled

(* A heartbeat that ends marks the node with the epoch it began in. *)
LEMMA NoticeHeartbeatEnds ==
  ASSUME IInv, NoticeInv, NEW h \in Handler, HeartbeatBuilt(h) \/ HeartbeatRestore(h)
  PROVE  NoticeInv'
<1> DEFINE n == call[h].node
<1>1. /\ call[h] \in Call /\ call \in [Handler -> Call] /\ n \in Node /\ call[h].due \in Nat /\ reconciled \in [Node -> Nat]
      /\ call[h].pc \in {"back", "restore"} /\ call[h].job = "heartbeat" /\ TypeOK
      /\ UNCHANGED <<access, boundary, minute, charge, epoch, desired>>
  BY NoticeTypes DEF IInv, TypeOK, HeartbeatBuilt, HeartbeatRestore, NoticeInv, Expected
<1>2. UNCHANGED service \/ \E s \in {"healthy", "attention"} : SetStatus(n, s)
  BY DEF HeartbeatBuilt, HeartbeatRestore
<1>3. \/ UNCHANGED reconciled
      \/ call[h].due # 0 /\ reconciled' = [reconciled EXCEPT ![n] = call[h].due]
  BY DEF HeartbeatBuilt, HeartbeatRestore, MarkNodeReconciled
<1>4. /\ \A k \in Handler \ {h} : call'[k] = call[k]
      /\ \/ call'[h] = Idle
         \/ /\ call'[h].pc = "restore" /\ call'[h].node = n /\ call'[h].job = "heartbeat" /\ call'[h].due = call[h].due
            /\ call[h].pc = "back"
  BY <1>1 DEF HeartbeatBuilt, HeartbeatRestore, Call
<1> HIDE DEF n
<1>5. \A m \in Node : service'[m].enabled => service[m].enabled /\ service'[m].status \in {"healthy", "attention"}
  <2>1. CASE UNCHANGED service
    BY <2>1 DEF NoticeInv, Settled
  <2>2. ASSUME NEW s \in {"healthy", "attention"}, SetStatus(n, s)
        PROVE  \A m \in Node : service'[m].enabled => service[m].enabled /\ service'[m].status \in {"healthy", "attention"}
    BY <1>1, <2>2, StatusKeepsSettled
  <2> QED
    BY <1>2, <2>1, <2>2
<1>6. \A m \in Node : ~Source(call[h], m, access[m])
  BY <1>1 DEF Source
<1>7. Expected(call'[h]) /\ call'[h].due <= epoch
  BY <1>1, <1>4, IdleIsNoSource, NoticeTypes DEF NoticeInv, NotAfterEpoch, Expected
<1>8. ASSUME NEW m \in Node, m = n, call[h].due = epoch, service'[m].enabled, desired[m].peers # access[m]
      PROVE  Watched(m)'
  <2>1. Behind(m, desired[m].peers)
    BY <1>5, <1>8 DEF Behind
  <2>2. Watched(m)
    BY <1>1, <1>8, <2>1 DEF NoticeInv, Seen, n
  <2> QED
    BY <1>1, <1>4, <1>6, <2>2, WatchStays
<1>9. Seen(h)'
  BY <1>1, <1>4, <1>8, IdleIsNoSource DEF Seen, Behind, Watched, MarkLost
<1>10. \A m \in Node : \/ reconciled'[m] = reconciled[m]
                       \/ /\ reconciled'[m] <= epoch
                          /\ service'[m].enabled /\ desired[m].peers # access[m] => reconciled'[m] # epoch \/ Watched(m)'
  <2> TAKE m \in Node
  <2>1. CASE m # n
    BY <1>1, <1>3, <2>1
  <2>2. CASE m = n
    <3>1. call[h].due <= epoch
      BY DEF NoticeInv, NotAfterEpoch
    <3> QED
      BY <1>1, <1>3, <1>8, <2>2, <3>1
  <2> QED
    BY <2>1, <2>2
<1> QED
  BY <1>1, <1>4, <1>5, <1>6, <1>7, <1>9, <1>10, NoticeCall

(* A heartbeat that rebuilds, or finds a disabled service. *)
LEMMA NoticeHeartbeatStarts ==
  ASSUME IInv, NoticeInv, NEW h \in Handler, NEW n \in Node, HeartbeatRebuild(h, n) \/ HeartbeatSkip(h, n)
  PROVE  NoticeInv'
<1>1. /\ call \in [Handler -> Call] /\ Due(n) \in {0, epoch} /\ epoch \in Nat /\ reconciled \in [Node -> Nat]
  BY NoticeTypes DEF IInv, TypeOK, Due
<1>2. UNCHANGED <<access, boundary, minute, charge, epoch, desired, service>> /\ call[h].pc = "idle"
  BY DEF HeartbeatRebuild, HeartbeatSkip, Heartbeat, Busy, database
<1>3. \A m \in Node : service'[m].enabled => service[m].enabled /\ service'[m].status \in {"healthy", "attention"}
  BY <1>2 DEF NoticeInv, Settled
<1>4. \A m \in Node : ~Source(call[h], m, access[m])
  BY <1>2 DEF Source
<1>5. CASE HeartbeatRebuild(h, n)
  <2> DEFINE c == [Idle EXCEPT !.due = Due(n), !.was = service[n].status, !.live = agent[n].on]
             q == [c EXCEPT !.pc = "queued", !.node = n]
  <2>1. q.pc = "queued" /\ q.job = "heartbeat" /\ q.due = Due(n)
    BY DEF Idle
  <2>2. call' = [call EXCEPT ![h] = q] /\ UNCHANGED reconciled
    BY <1>5 DEF HeartbeatRebuild, EnterLock
  <2> HIDE DEF q
  <2>3. call'[h] = q /\ \A k \in Handler \ {h} : call'[k] = call[k]
    BY <1>1, <2>2
  <2>4. Expected(call'[h]) /\ call'[h].due <= epoch /\ Seen(h)'
    BY <1>1, <2>1, <2>3 DEF Expected, Seen
  <2> QED
    BY <1>2, <1>3, <1>4, <2>2, <2>3, <2>4, NoticeCall
<1>6. CASE HeartbeatSkip(h, n)
  <2>1. ~service[n].enabled /\ UNCHANGED call
    BY <1>6 DEF HeartbeatSkip, NoticeInv, Settled, database
  <2>2. \A m \in Node : reconciled'[m] = reconciled[m] \/ (m = n /\ reconciled'[m] <= epoch)
    BY <1>1, <1>6 DEF HeartbeatSkip, MarkNodeReconciled
  <2>3. Expected(call'[h]) /\ call'[h].due <= epoch /\ Seen(h)'
    BY <1>2, <2>1 DEF NoticeInv, NotAfterEpoch, Seen
  <2> QED
    BY <1>2, <1>3, <1>4, <2>1, <2>2, <2>3, NoticeCall
<1> QED
  BY <1>5, <1>6

(* A change of who may connect names the nodes it is about. *)
LEMMA NoticeAccess ==
  ASSUME IInv, NoticeInv, NoticeAssumed, NEW h \in Handler, ConsoleAccess(h)
  PROVE  NoticeInv'
<1>1. /\ UNCHANGED <<boundary, minute, charge, epoch, desired, service, reconciled>> /\ call[h].pc = "idle"
      /\ call \in [Handler -> Call]
  BY DEF ConsoleAccess, Busy, database, IInv, TypeOK
<1> DEFINE todo == {n \in Node : access'[n] # access[n]}
<1>2. /\ call'[h].pc = "back" /\ call'[h].job = "access" /\ call'[h].due = 0 /\ call'[h].todo = todo
      /\ \A k \in Handler \ {h} : call'[k] = call[k]
  <2>1. PICK force \in BOOLEAN :
          call' = [call EXCEPT ![h] = [Idle EXCEPT !.pc = "back", !.job = "access", !.todo = todo, !.force = force]]
    BY DEF ConsoleAccess, NoticeAssumed
  <2> DEFINE c == [Idle EXCEPT !.pc = "back", !.job = "access", !.todo = todo, !.force = force]
  <2> HIDE DEF todo
  <2>2. c.pc = "back" /\ c.job = "access" /\ c.due = 0 /\ c.todo = todo
    BY DEF Idle
  <2>3. call' = [call EXCEPT ![h] = c]
    BY <2>1
  <2> HIDE DEF c
  <2> QED
    BY <1>1, <2>2, <2>3
<1>3. ASSUME NEW n \in Node, access'[n] # access[n] PROVE Watched(n)'
  BY <1>2, <1>3 DEF Watched, Source
<1>4. ASSUME NEW n \in Node, access'[n] = access[n], Watched(n) PROVE Watched(n)'
  <2>1. CASE boundary \/ minute = "passed" \/ charge.owed > 0 \/ MarkLost
    BY <1>1, <2>1 DEF Watched, MarkLost
  <2>2. ASSUME NEW k \in Handler, Source(call[k], n, access[n]) PROVE Watched(n)'
    <3>1. k # h
      BY <1>1, <2>2 DEF Source
    <3> QED
      BY <1>2, <1>4, <2>2, <3>1 DEF Watched
  <2> QED
    BY <1>4, <2>1, <2>2 DEF Watched
<1>5. ASSUME NEW k \in Handler PROVE Seen(k)'
  <2>1. CASE k = h
    BY <1>2, <2>1 DEF Seen
  <2>2. CASE k # h
    <3>1. call'[k] = call[k] /\ call[k].node \in Node
      BY <1>2, <2>2, NoticeTypes DEF IInv
    <3>2. ASSUME NEW n \in Node, n = call[k].node, NEW P, service[n].enabled, P # access'[n],
                 Behind(n, P) => Watched(n)
          PROVE  Watched(n)'
      BY <1>3, <1>4, <3>2 DEF Behind
    <3>3. Seen(k)
      BY DEF NoticeInv
    <3> QED
      BY <1>1, <3>1, <3>2, <3>3 DEF Seen, Behind, Watched, MarkLost
  <2> QED
    BY <2>1, <2>2
<1>6. Noticed'
  <2> SUFFICES ASSUME NEW n \in Node, service'[n].enabled, desired'[n].peers # access'[n], reconciled'[n] = epoch'
               PROVE  Watched(n)'
    BY DEF Noticed, Behind
  <2> QED
    BY <1>1, <1>3, <1>4 DEF NoticeInv, Noticed, Behind
<1>7. NotAfterEpoch' /\ Settled' /\ \A k \in Handler : Expected(call'[k])
  BY <1>1, <1>2, NoticeTypes DEF IInv, NoticeInv, NotAfterEpoch, Settled, Expected
<1> QED
  BY <1>5, <1>6, <1>7 DEF NoticeInv

(* A change that rebuilds its nodes one by one watches those that are left, and the one it queues for. *)
LEMMA NoticeRebuilds ==
  ASSUME IInv, NoticeInv, NEW h \in Handler, AccessRebuild(h)
  PROVE  NoticeInv'
<1>1. /\ UNCHANGED <<access, boundary, minute, charge, epoch, desired, service, reconciled>> /\ call[h].pc = "back"
      /\ call[h].job = "access" /\ call \in [Handler -> Call] /\ epoch \in Nat
  BY NoticeTypes DEF AccessRebuild, database, IInv, TypeOK
<1>2. \A m \in Node : service'[m].enabled => service[m].enabled /\ service'[m].status \in {"healthy", "attention"}
  BY <1>1 DEF NoticeInv, Settled
<1>3. CASE call[h].todo = {} /\ call' = [call EXCEPT ![h] = Idle]
  <2>1. call'[h] = Idle /\ \A k \in Handler \ {h} : call'[k] = call[k]
    BY <1>1, <1>3
  <2>2. \A m \in Node : ~Source(call[h], m, access[m])
    BY <1>1, <1>3 DEF Source
  <2>3. Expected(call'[h]) /\ call'[h].due <= epoch /\ Seen(h)'
    BY <1>1, <2>1, IdleIsNoSource DEF Seen
  <2> QED
    BY <1>1, <1>2, <2>1, <2>2, <2>3, NoticeCall
<1>4. ASSUME NEW n \in call[h].todo,
             EnterLock(h, n, [Idle EXCEPT !.job = "access", !.force = call[h].force, !.todo = call[h].todo \ {n}])
      PROVE  NoticeInv'
  <2> DEFINE c == [Idle EXCEPT !.job = "access", !.force = call[h].force, !.todo = call[h].todo \ {n}]
             q == [c EXCEPT !.pc = "queued", !.node = n]
  <2>1. q.pc = "queued" /\ q.job = "access" /\ q.node = n /\ q.due = 0 /\ q.todo = call[h].todo \ {n}
    BY DEF Idle
  <2>2. call' = [call EXCEPT ![h] = q]
    BY <1>4 DEF EnterLock
  <2> HIDE DEF q
  <2>3. call'[h] = q /\ \A k \in Handler \ {h} : call'[k] = call[k]
    BY <1>1, <2>2
  <2>4. \A m \in Node : Source(call[h], m, access[m]) => Source(call'[h], m, access[m])
    BY <1>1, <2>1, <2>3 DEF Source
  <2>5. Expected(call'[h]) /\ call'[h].due <= epoch /\ Seen(h)'
    BY <1>1, <2>1, <2>3 DEF Expected, Seen
  <2> QED
    BY <1>1, <1>2, <2>3, <2>4, <2>5, NoticeCall
<1> QED
  BY <1>3, <1>4 DEF AccessRebuild

(* A service is disabled, and a node without an enabled service is behind nothing. *)
LEMMA NoticeDisable ==
  ASSUME IInv, NoticeInv, NEW h \in Handler,
         DisableSend(h) \/ SendThrows(h) \/ \E n \in Node : ConsoleDisable(h, n)
  PROVE  NoticeInv'
<1>1. /\ UNCHANGED <<access, boundary, minute, charge, epoch, desired, reconciled>> /\ call[h].pc \in {"idle", "send"}
      /\ call \in [Handler -> Call] /\ call[h].due \in Nat /\ epoch \in Nat /\ service \in [Node -> ServiceRow]
  BY NoticeTypes DEF DisableSend, SendThrows, ConsoleDisable, Busy, database, IInv, TypeOK
<1>2. \A m \in Node : ~Source(call[h], m, access[m])
  <2>1. call[h].pc = "send" => call[h].job = "disable"
    BY DEF NoticeInv, Expected
  <2> QED
    BY <1>1, <2>1 DEF Source
<1>3. \A m \in Node : service'[m].enabled => service[m].enabled /\ service'[m].status \in {"healthy", "attention"}
  <2>1. CASE UNCHANGED service
    BY <2>1 DEF NoticeInv, Settled
  <2>2. ASSUME NEW n \in Node, service' = [service EXCEPT ![n] = [enabled |-> FALSE, status |-> "deploying"]]
        PROVE  \A m \in Node : service'[m].enabled => service[m].enabled /\ service'[m].status \in {"healthy", "attention"}
    BY <1>1, <2>2 DEF NoticeInv, Settled
  <2> QED
    BY <2>1, <2>2 DEF DisableSend, SendThrows, ConsoleDisable, database
<1>4. PICK c : call' = [call EXCEPT ![h] = c] /\ Expected(c) /\ c.due = 0 /\ c.pc \in {"idle", "send"}
  <2>1. ASSUME NEW n \in Node
        PROVE  LET c == [Idle EXCEPT !.pc = "send", !.job = "disable", !.node = n] IN
               Expected(c) /\ c.due = 0 /\ c.pc = "send"
    BY DEF Idle, Expected
  <2> QED
    BY <2>1, IdleIsNoSource DEF DisableSend, SendThrows, ConsoleDisable
<1>5. call'[h] = c /\ \A k \in Handler \ {h} : call'[k] = call[k]
  BY <1>1, <1>4
<1>6. Expected(call'[h]) /\ call'[h].due <= epoch /\ Seen(h)'
  BY <1>1, <1>4, <1>5 DEF Seen
<1> QED
  BY <1>1, <1>2, <1>3, <1>5, <1>6, NoticeCall

(* A report says only whether the service is well. *)
LEMMA NoticeReport ==
  ASSUME IInv, NoticeInv, NEW r \in results, FinishService(r)
  PROVE  NoticeInv'
<1> DEFINE n == tasks[r.task].node
<1>1. n \in Node /\ TypeOK /\ UNCHANGED <<access, boundary, minute, charge, epoch, desired, reconciled, call>>
  BY OrderTypes DEF IInv, TypeOK, FinishService
<1>2. service' = service \/ \E s : SetStatus(n, s) /\ (service[n].enabled => s \in {"healthy", "attention"})
  BY DEF FinishService
<1> HIDE DEF n
<1>3. \A m \in Node : /\ service'[m].enabled = service[m].enabled
                      /\ service'[m].enabled => service'[m].status \in {"healthy", "attention"}
  <2>1. CASE service' = service
    BY <2>1 DEF NoticeInv, Settled
  <2>2. ASSUME NEW s, SetStatus(n, s), service[n].enabled => s \in {"healthy", "attention"}
        PROVE  \A m \in Node : /\ service'[m].enabled = service[m].enabled
                               /\ service'[m].enabled => service'[m].status \in {"healthy", "attention"}
    BY <1>1, <2>2, StatusKeepsSettled
  <2> QED
    BY <1>2, <2>1, <2>2
<1>4. \A h \in Handler : Seen(h)'
  <2> TAKE h \in Handler
  <2>1. call[h].node \in Node /\ Seen(h)
    BY NoticeTypes DEF IInv, NoticeInv
  <2> QED
    BY <1>1, <1>3, <2>1 DEF Seen, Behind, Watched, MarkLost
<1>5. Noticed'
  BY <1>1, <1>3 DEF NoticeInv, Noticed, Behind, Watched, MarkLost
<1> QED
  BY <1>1, <1>3, <1>4, <1>5 DEF NoticeInv, Settled, NotAfterEpoch, Expected

(* Every step keeps a configuration that is behind noticed. *)
LEMMA NoticeStep ==
  ASSUME IInv, NoticeInv, NoticeAssumed, [Next]_vars
  PROVE  NoticeInv'
<1>1. CASE UNCHANGED vars
  BY <1>1, NoticeAside DEF vars, controllerMemory, database
<1>2. ASSUME NEW h \in Handler,
             BuildStep(h) \/ BuildThrows(h) \/ EnqueueThrows(h) \/ SendThrows(h) \/ ConsoleAccess(h) \/ Return(h)
      PROVE  NoticeInv'
  BY <1>2, NoticeRead, NoticeBuild, NoticeWrite, NeverHappens, NoticeHeartbeatEnds, NoticeAccess, NoticeRebuilds, NoticeDisable
     DEF BuildStep, Return
<1>3. ASSUME NEW h \in Handler, NEW n \in Node,
             HeartbeatStart(h, n) \/ ConsoleEnable(h, n) \/ ConsoleDisable(h, n) \/ ConsoleRestart(h, n)
      PROVE  NoticeInv'
  <2>1. HeartbeatIdle(h, n) => NoticeInv'
    BY NoticeAside DEF HeartbeatIdle, vars, controllerMemory, database
  <2> QED
    BY <1>3, <2>1, NoticeHeartbeatStarts, NeverHappens, NoticeDisable DEF HeartbeatStart
<1>4. CASE \/ \E i \in DOMAIN tasks : RetryStale(i) \/ RetryFailed(i)
           \/ \E n \in Node : Pull(n) \/ PullLost(n)
  BY <1>4, NoticeAside DEF RetryStale, RetryFailed, Pull, PullLost, controllerMemory
<1>5. CASE \E n \in Node : ApplyTask(n) \/ ApplyFails(n) \/ AdvertisedChanges(n) \/ AgentCrash(n)
  BY <1>5, NoticeAside DEF ApplyTask, ApplyFails, AdvertisedChanges, AgentCrash, controllerMemory, database
<1>6. ASSUME NEW r \in results, Finish(r) PROVE NoticeInv'
  <2>1. FinishTask(r) \/ FinishObserved(r) => NoticeInv'
    BY NoticeAside DEF FinishTask, FinishObserved
  <2> QED
    BY <1>6, <2>1, NoticeReport DEF Finish
<1>7. CASE Next
  BY <1>2, <1>3, <1>4, <1>5, <1>6, <1>7, NoticeMinute, NoticeRestart, NoticeInterval DEF Next
<1> QED
  BY <1>1, <1>7

(* An enabled service whose stored configuration admits somebody it should not, or misses somebody,     *)
(* is bound to be looked at again: by the minute job, a heartbeat or a request in progress. For every      *)
(* number of nodes, peers and requests, with restarts, torn writes and failing enqueues anywhere. One     *)
(* case is excepted: a charge that failed after another had ended an account, before access was marked;   *)
(* that change is not seen before the next epoch or the safety interval. The run deploy_hides shows what   *)
(* happens without the assumption: a first deployment hides a change.                                     *)
THEOREM StaleNoticed ==
  ASSUME NoticeAssumed
  PROVE  Spec => []StaleUnlessMarkLost
<1>1. Init => IInv /\ NoticeInv
  BY TypeInit, NamingInit, NoticeInit DEF IInv, NamingInv
<1>2. IInv /\ NoticeInv /\ [Next]_vars => (IInv /\ NoticeInv)'
  BY TypeStep, NamingStep, NoticeStep DEF IInv, NamingInv
<1>3. NoticeInv => StaleUnlessMarkLost
  BY NoticedSuffices
<1> QED
  BY <1>1, <1>2, <1>3, PTL DEF Spec

-----------------------------------------------------------------------------
(* A quiet Controller leaves no node behind, unless a task was delivered to it twice. A service *)
(* is called healthy only while its node runs the stored revision, or something is still open     *)
(* that will bring it there or say that it did not: a build about to queue its task, a task of    *)
(* the stored revision that is not settled, or the report of its failure on the way.              *)

CatchUpAssumed == NoticeAssumed /\ Env \cap {"disable", "enqueueFail", "tornWrite", "slow"} = {}

Current(i, n) == tasks[i].node = n /\ tasks[i].rev = desired[n].rev
Wrote(n) == \E h \in Handler : call[h].pc = "wrote" /\ call[h].node = n
OpenTask(n) == \E i \in DOMAIN tasks : Current(i, n) /\ Unfinished(i)
OpenFailure(n) == \E r \in results : ~r.ok /\ r.phase = "service" /\ Current(r.task, n)
Open(n) == Wrote(n) \/ OpenTask(n) \/ OpenFailure(n)
Runs(n) == agent[n].on /\ agent[n].rev = desired[n].rev

HeartAt(h, n) == call[h].pc # "idle" /\ call[h].job = "heartbeat" /\ call[h].node = n

(* No later task of the node was settled before this one. *)
FirstOut(i) ==
  \A j \in DOMAIN tasks : (tasks[j].node = tasks[i].node /\ i < j) => tasks[j].status \in {"pending", "running"}

OnlyBuilds ==
  /\ \A n \in Node : service[n].enabled /\ desired[n].rev # 0
  /\ \A i \in DOMAIN tasks : tasks[i].kind = "Apply" /\ tasks[i].rev # 0
  /\ \A h \in Handler : call[h].pc # "send"

HasTask == \A n \in Node : desired[n].rev = 1 \/ Wrote(n) \/ \E i \in DOMAIN tasks : Current(i, n)

Taken ==
  \A n \in Node : \A i \in agent[n].batch :
    tasks[i].status = "running" /\ (tasks[i].attempts = 1 => FirstOut(i))

(* What is known of a task whose report the Controller is serving. *)
Honest(r, i, n) ==
  /\ \A j \in agent[n].batch : i < j
  /\ r.phase = "task" => tasks[i].status = "running"
  /\ tasks[i].attempts = 1 => FirstOut(i)
  /\ r.ok => agent[n].redelivered \/ (agent[n].on /\ agent[n].rev = tasks[i].rev /\ tasks[i].attempts = 1)
  /\ r.phase = "observed" => r.ok

Reports ==
  /\ \A r \in results : Honest(r, r.task, tasks[r.task].node)
  /\ \A r, q \in results : tasks[q.task].node = tasks[r.task].node => q = r
  /\ \A r \in results, h \in Handler : ~HeartAt(h, tasks[r.task].node)

(* What was acknowledged is behind what the node runs, and behind what it will be given first. *)
Acked ==
  /\ \A n \in Node : observed[n].rev <= desired[n].rev
  /\ \A n \in Node : ~agent[n].redelivered => observed[n].rev <= agent[n].rev
  /\ \A i \in DOMAIN tasks : FirstTime(i) => observed[tasks[i].node].rev <= tasks[i].rev

OnePayload == \A n \in Node : agent[n].rev = desired[n].rev => agent[n].peers = desired[n].peers

(* A heartbeat in progress is the only one of its node, and the node has not changed since. *)
HeartKnows(h) ==
  \A n \in Node : (HeartAt(h, n) /\ ~agent[n].redelivered) =>
    /\ call[h].live => agent[n].on
    /\ call[h].pc = "restore" => call[h].live /\ (agent[n].rev = desired[n].rev \/ Open(n))

Hearts ==
  /\ \A h \in Handler : HeartKnows(h)
  /\ \A n \in Node, h, k \in Handler : HeartAt(h, n) /\ HeartAt(k, n) => h = k

HealthyMeans ==
  \A n \in Node : (service[n].status = "healthy" /\ ~agent[n].redelivered) => Runs(n) \/ Open(n)

CatchInv == OnlyBuilds /\ HasTask /\ Taken /\ Reports /\ Acked /\ OnePayload /\ Hearts /\ HealthyMeans

BaseInv == IInv /\ OlderInv /\ NoticeInv

(* The rows, reports and revisions as numbers, and what the earlier invariants say of builds. *)
LEMMA CatchTypes ==
  ASSUME BaseInv, OnlyBuilds
  PROVE  /\ \A n \in Node : /\ agent[n] \in AgentRow /\ agent[n].rev \in Nat /\ desired[n].rev \in Nat
                            /\ observed[n].rev \in Nat /\ agent[n].rev <= desired[n].rev
                            /\ service[n].status \in {"healthy", "attention"}
                            /\ \A i \in agent[n].batch : i \in DOMAIN tasks /\ tasks[i].node = n
         /\ \A i \in DOMAIN tasks : /\ i \in Nat /\ tasks[i] \in TaskRow /\ tasks[i].node \in Node
                                    /\ tasks[i].rev \in Nat /\ tasks[i].attempts \in Nat
                                    /\ tasks[i].rev <= desired[tasks[i].node].rev
         /\ \A i, j \in DOMAIN tasks : (i < j /\ tasks[i].node = tasks[j].node) => tasks[i].rev <= tasks[j].rev
         /\ \A r \in results : r \in ReportRow /\ r.task \in DOMAIN tasks
         /\ \A h \in Handler : /\ call[h] \in Call /\ call[h].node \in Node
                               /\ call[h].pc \in {"queued", "read", "wrote", "back"} => call[h].job \in {"heartbeat", "access"}
                               /\ call[h].pc = "restore" => call[h].job = "heartbeat"
<1>1. \A n \in Node : observed[n].rev \in Nat /\ service[n].status \in {"healthy", "attention"}
  BY DEF BaseInv, IInv, TypeOK, NoticeInv, Settled, OnlyBuilds
<1>2. \A i \in DOMAIN tasks : tasks[i].rev <= desired[tasks[i].node].rev
  BY OrderTypes, RowsAreNames DEF BaseInv, IInv, NotAhead, OnlyBuilds
<1>3. \A i, j \in DOMAIN tasks : (i < j /\ tasks[i].node = tasks[j].node) => tasks[i].rev <= tasks[j].rev
  BY DEF BaseInv, IInv, BuildsQueueInOrder, OnlyBuilds
<1>4. \A r \in results : r \in ReportRow /\ r.task \in DOMAIN tasks
  BY DEF BaseInv, IInv, TypeOK
<1>5. \A h \in Handler : /\ call[h] \in Call /\ call[h].node \in Node
                         /\ call[h].pc \in {"queued", "read", "wrote", "back"} => call[h].job \in {"heartbeat", "access"}
                         /\ call[h].pc = "restore" => call[h].job = "heartbeat"
  BY NoticeTypes DEF BaseInv, IInv, NoticeInv, Expected
<1>6. \A n \in Node : agent[n].rev <= desired[n].rev
  BY DEF BaseInv, OlderInv, AgentBehind
<1> QED
  BY <1>1, <1>2, <1>3, <1>4, <1>5, <1>6, OrderTypes DEF BaseInv, IInv

(* At first every service is healthy and every node runs what is stored for it. *)
LEMMA CatchInit ==
  ASSUME Init, NoticeAssumed
  PROVE  CatchInv
<1>1. DOMAIN tasks = {} /\ results = {} /\ \A h \in Handler : call[h].pc = "idle"
  BY DEF Init, Idle
<1>2. \A n \in Node : /\ service[n].enabled /\ desired[n].rev = 1 /\ observed[n].rev = 1
                      /\ agent[n].rev = desired[n].rev /\ agent[n].on /\ agent[n].peers = desired[n].peers
                      /\ agent[n].batch = {}
  BY DEF Init, NoticeAssumed
<1>3. OnlyBuilds /\ HasTask /\ Taken /\ Reports
  BY <1>1, <1>2 DEF OnlyBuilds, HasTask, Taken, Reports
<1>4. Acked /\ OnePayload /\ Hearts /\ HealthyMeans
  BY <1>1, <1>2 DEF Acked, OnePayload, Hearts, HeartKnows, HeartAt, HealthyMeans, Runs
<1> QED
  BY <1>3, <1>4 DEF CatchInv

(* When nothing is left to do, a healthy service runs what the database says. *)
LEMMA CatchSuffices ==
  ASSUME BaseInv, CatchInv
  PROVE  QuietUnlessRedelivered
<1> SUFFICES ASSUME Quiet, NEW n \in Node, service[n].status \in {"healthy", "disabled"}, ~agent[n].redelivered, ~MarkLost
             PROVE  InStep(n)
  BY DEF QuietUnlessRedelivered
<1>1. service[n].status = "healthy" /\ service[n].enabled
  BY CatchTypes DEF CatchInv, OnlyBuilds
<1>2. \A h \in Handler : call[h].pc = "idle"
  BY DEF Quiet, Busy
<1>3. ~Open(n)
  BY <1>2 DEF Quiet, Open, Wrote, OpenTask, OpenFailure
<1>4. Runs(n)
  BY <1>1, <1>3 DEF CatchInv, HealthyMeans
<1>5. agent[n].peers = desired[n].peers
  BY <1>4 DEF CatchInv, OnePayload, Runs
<1>6. ~Watched(n)
  BY <1>2 DEF Quiet, Watched, Source
<1>7. desired[n].peers = access[n]
  BY <1>1, <1>6 DEF BaseInv, NoticeInv, Noticed, Behind, Quiet
<1> QED
  BY <1>1, <1>4, <1>5, <1>7 DEF InStep, Runs

(* Behind a task of an older revision that nothing later overtook, a task of the stored one is open. *)
LEMMA NewerIsOpen ==
  ASSUME BaseInv, CatchInv, NEW i \in DOMAIN tasks, FirstOut(i),
         NEW n, n = tasks[i].node, tasks[i].rev # desired[n].rev
  PROVE  Wrote(n) \/ \E j \in DOMAIN tasks : Current(j, n) /\ j # i /\ tasks[j].status \in {"pending", "running"}
<1>1. /\ n \in Node /\ tasks[i].rev \in Nat /\ tasks[i].rev # 0 /\ desired[n].rev \in Nat
      /\ tasks[i].rev <= desired[n].rev /\ i \in Nat
  BY CatchTypes DEF CatchInv, OnlyBuilds
<1>2. SUFFICES ASSUME ~Wrote(n)
               PROVE  \E j \in DOMAIN tasks : Current(j, n) /\ j # i /\ tasks[j].status \in {"pending", "running"}
  OBVIOUS
<1>3. PICK j \in DOMAIN tasks : Current(j, n)
  BY <1>1, <1>2 DEF CatchInv, HasTask
<1>4. j \in Nat /\ tasks[j].node = n /\ tasks[j].rev = desired[n].rev
  BY <1>3, CatchTypes DEF CatchInv, Current
<1>5. ~(j < i) /\ j # i
  BY <1>1, <1>3, <1>4, CatchTypes DEF CatchInv
<1>6. i < j
  BY <1>1, <1>4, <1>5
<1> QED
  BY <1>3, <1>4, <1>5, <1>6 DEF FirstOut

(* What it needs to hold still: the requests, the services, the tasks and their reports, and the node. *)
LEMMA CatchAside ==
  ASSUME CatchInv, UNCHANGED <<service, desired, tasks, observed, call, agent, results>>
  PROVE  CatchInv'
<1>1. OnlyBuilds' /\ HasTask' /\ Taken' /\ OnePayload'
  BY DEF CatchInv, OnlyBuilds, HasTask, Taken, OnePayload, Wrote, Current, FirstOut
<1>2. Reports' /\ Acked'
  BY DEF CatchInv, Reports, Honest, Acked, FirstOut, HeartAt, FirstTime, Untaken
<1>3. Hearts' /\ HealthyMeans'
  BY DEF CatchInv, Hearts, HeartKnows, HeartAt, HealthyMeans, Runs, Open, Wrote, OpenTask, OpenFailure, Current, Unfinished, Retryable
<1> QED
  BY <1>1, <1>2, <1>3 DEF CatchInv

(* A request moves on, and at most stores a next revision that it is about to queue. *)
LEMMA CatchCall ==
  ASSUME BaseInv, CatchInv, NEW h \in Handler,
         UNCHANGED <<tasks, observed, agent, results>>,
         \A k \in Handler \ {h} : call'[k] = call[k],
         call[h].pc # "wrote", call'[h].pc # "send",
         \A m \in Node : desired'[m] = desired[m] \/ (desired'[m].rev = desired[m].rev + 1 /\ Wrote(m)'),
         \A m \in Node : /\ service'[m].enabled
                         /\ service'[m].status = "healthy" => service[m].status = "healthy" \/ agent[m].redelivered
                                                                \/ Runs(m) \/ Open(m),
         HeartKnows(h)',
         \A m \in Node : HeartAt(h, m)' => \/ HeartAt(h, m)
                                           \/ /\ \A r \in results : tasks[r.task].node # m
                                              /\ \A k \in Handler : ~HeartAt(k, m)
  PROVE  CatchInv'
<1>1. \A m \in Node : /\ desired[m].rev \in Nat /\ agent[m].rev \in Nat /\ observed[m].rev \in Nat
                      /\ agent[m].rev <= desired[m].rev /\ desired[m].rev # 0
  BY CatchTypes DEF CatchInv, OnlyBuilds
<1>2. \A m \in Node : Wrote(m) => Wrote(m)'
  BY DEF Wrote
<1>3. ASSUME NEW m \in Node, Open(m) PROVE Open(m)'
  <2>1. CASE desired'[m] # desired[m]
    BY <2>1 DEF Open
  <2>2. CASE desired'[m] = desired[m]
    BY <1>2, <1>3, <2>2 DEF Open, OpenTask, OpenFailure, Current, Unfinished, Retryable
  <2> QED
    BY <2>1, <2>2
<1>4. ASSUME NEW m \in Node, Runs(m) PROVE Runs(m)' \/ Open(m)'
  BY <1>4 DEF Runs, Open
<1>5. OnlyBuilds'
  BY <1>1 DEF CatchInv, OnlyBuilds
<1>6. HasTask'
  <2> SUFFICES ASSUME NEW m \in Node, ~Wrote(m)' PROVE desired'[m].rev = 1 \/ \E i \in DOMAIN tasks' : Current(i, m)'
    BY DEF HasTask
  <2> QED
    BY <1>2 DEF CatchInv, HasTask, Current
<1>7. Taken'
  BY DEF CatchInv, Taken, FirstOut
<1>8. Reports'
  <2>1. \A r \in results' : Honest(r, r.task, tasks[r.task].node)'
    BY DEF CatchInv, Reports, Honest, FirstOut
  <2>2. ASSUME NEW r \in results, NEW k \in Handler, HeartAt(k, tasks[r.task].node)' PROVE FALSE
    <3>1. tasks[r.task].node \in Node
      BY CatchTypes DEF CatchInv
    <3>2. CASE k = h
      BY <2>2, <3>1, <3>2 DEF CatchInv, Reports
    <3>3. CASE k # h
      BY <2>2, <3>1, <3>3 DEF CatchInv, Reports, HeartAt
    <3> QED
      BY <3>2, <3>3
  <2> QED
    BY <2>1, <2>2 DEF CatchInv, Reports
<1>9. Acked'
  <2>1. \A m \in Node : observed'[m].rev <= desired'[m].rev
    BY <1>1 DEF CatchInv, Acked
  <2> QED
    BY <2>1 DEF CatchInv, Acked, FirstTime, Untaken
<1>10. OnePayload'
  BY <1>1 DEF CatchInv, OnePayload
<1>11. Hearts'
  <2>1. ASSUME NEW k \in Handler, k # h PROVE HeartKnows(k)'
    <3> SUFFICES ASSUME NEW m \in Node, HeartAt(k, m), ~agent[m].redelivered, call[k].live => agent[m].on,
                        call[k].pc = "restore" => call[k].live /\ (agent[m].rev = desired[m].rev \/ Open(m)),
                        call[k].pc = "restore"
                 PROVE  agent[m].rev = desired'[m].rev \/ Open(m)'
      BY <2>1 DEF HeartKnows, HeartAt, CatchInv, Hearts
    <3> QED
      BY <1>3 DEF Open
  <2>2. ASSUME NEW m \in Node, NEW k \in Handler, NEW j \in Handler, HeartAt(k, m)', HeartAt(j, m)' PROVE k = j
    <3>1. \A l \in Handler \ {h} : HeartAt(l, m)' => HeartAt(l, m)
      BY DEF HeartAt
    <3>2. CASE HeartAt(h, m)' => HeartAt(h, m)
      BY <2>2, <3>1, <3>2 DEF CatchInv, Hearts
    <3>3. CASE \A l \in Handler : ~HeartAt(l, m)
      BY <2>2, <3>1, <3>3
    <3> QED
      BY <3>2, <3>3
  <2> QED
    BY <2>1, <2>2 DEF Hearts
<1>12. HealthyMeans'
  <2> SUFFICES ASSUME NEW m \in Node, service'[m].status = "healthy", ~agent[m].redelivered PROVE Runs(m)' \/ Open(m)'
    BY DEF HealthyMeans
  <2>1. Runs(m) \/ Open(m)
    BY DEF CatchInv, HealthyMeans
  <2> QED
    BY <1>3, <1>4, <2>1
<1> QED
  BY <1>5, <1>6, <1>7, <1>8, <1>9, <1>10, <1>11, <1>12 DEF CatchInv

(* A build on its way: a heartbeat's remains the heartbeat it was. *)
LEMMA CatchBuild ==
  ASSUME BaseInv, CatchInv, NEW h \in Handler, BuildRead(h) \/ BuildWrite(h)
  PROVE  CatchInv'
<1> DEFINE n == call[h].node
<1>1. /\ UNCHANGED <<tasks, observed, agent, results, service>> /\ call[h].pc \in {"queued", "read"}
      /\ call[h] \in Call /\ call \in [Handler -> Call] /\ n \in Node /\ desired \in [Node -> [rev : Nat, peers : SUBSET Peer]]
  BY CatchTypes DEF BuildRead, BuildWrite, database, CatchInv, BaseInv, IInv, TypeOK
<1>2. \A k \in Handler \ {h} : call'[k] = call[k]
  BY <1>1 DEF BuildRead, BuildWrite, LeaveLock
<1>3. /\ call'[h].pc \in {"read", "wrote", "back"} /\ call'[h].job = call[h].job /\ call'[h].node = n
      /\ call'[h].live = call[h].live
  <2>1. CASE BuildRead(h)
    BY <1>1, <2>1 DEF BuildRead, Call
  <2>2. CASE BuildWrite(h)
    <3> DEFINE forced == [call[h] EXCEPT !.pc = "wrote"]
               next == [call[h] EXCEPT !.pc = "wrote", !.rev = @ + 1]
               left == [call[h] EXCEPT !.pc = "back", !.ok = TRUE]
               Same(c) == c.pc \in {"wrote", "back"} /\ c.job = call[h].job /\ c.node = n /\ c.live = call[h].live
    <3>1. Same(forced) /\ Same(next) /\ Same(left)
      BY <1>1 DEF Call
    <3>2. call' = [call EXCEPT ![h] = forced] \/ call' = [call EXCEPT ![h] = next] \/ call' = [call EXCEPT ![h] = left]
      BY <2>2 DEF BuildWrite, LeaveLock
    <3> HIDE DEF forced, next, left
    <3> QED
      BY <1>1, <3>1, <3>2
  <2> QED
    BY <2>1, <2>2
<1>4. ASSUME NEW m \in Node PROVE desired'[m] = desired[m] \/ (desired'[m].rev = desired[m].rev + 1 /\ Wrote(m)')
  <2>1. CASE UNCHANGED desired
    BY <2>1
  <2>2. CASE BuildWrite(h) /\ call[h].changed
    <3>1. /\ call' = [call EXCEPT ![h].pc = "wrote", ![h].rev = @ + 1]
          /\ desired' = [desired EXCEPT ![n] = [rev |-> call[h].rev + 1, peers |-> call[h].peers]]
          /\ call[h].rev = desired[n].rev
      BY <2>2 DEF BuildWrite, BaseInv, IInv, BuildKnows
    <3>2. call'[h].pc = "wrote"
      BY <1>1, <3>1 DEF Call
    <3>3. m = n => Wrote(m)'
      BY <1>3, <3>2 DEF Wrote
    <3> QED
      BY <1>1, <3>1, <3>3
  <2> QED
    BY <2>1, <2>2 DEF BuildRead, BuildWrite, database
<1>5. \A m \in Node : HeartAt(h, m)' => HeartAt(h, m)
  BY <1>1, <1>3 DEF HeartAt
<1>6. HeartKnows(h)'
  BY <1>1, <1>3, <1>5 DEF CatchInv, Hearts, HeartKnows
<1>7. \A m \in Node : service'[m].enabled
  BY <1>1 DEF CatchInv, OnlyBuilds
<1> QED
  BY <1>1, <1>2, <1>3, <1>4, <1>5, <1>6, <1>7, CatchCall

(* A change of who may connect begins, goes from node to node and ends; no heartbeat is it. *)
LEMMA CatchAccess ==
  ASSUME BaseInv, CatchInv, NEW h \in Handler, ConsoleAccess(h) \/ AccessRebuild(h)
  PROVE  CatchInv'
<1>1. /\ UNCHANGED <<tasks, observed, agent, results, service, desired>> /\ call[h].pc \in {"idle", "back"}
      /\ call \in [Handler -> Call]
  BY DEF ConsoleAccess, AccessRebuild, Busy, database, BaseInv, IInv, TypeOK
<1> DEFINE Access(c) == c.pc = "idle" \/ (c.pc # "send" /\ c.job = "access")
<1>2. PICK c : call' = [call EXCEPT ![h] = c] /\ c.pc # "send" /\ Access(c)
  <2>1. \A force, todo :
          LET c == [Idle EXCEPT !.pc = "back", !.job = "access", !.todo = todo, !.force = force] IN c.pc # "send" /\ Access(c)
    BY DEF Idle
  <2>2. \A force, todo, n :
          LET c == [[Idle EXCEPT !.job = "access", !.force = force, !.todo = todo] EXCEPT !.pc = "queued", !.node = n] IN
          c.pc # "send" /\ Access(c)
    BY DEF Idle
  <2>3. Idle.pc # "send" /\ Access(Idle)
    BY DEF Idle
  <2>4. CASE ConsoleAccess(h)
    <3>1. PICK force \in BOOLEAN, todo \in {{}} \union {{n \in Node : access'[n] # access[n]}} :
            call' = [call EXCEPT ![h] = [Idle EXCEPT !.pc = "back", !.job = "access", !.todo = todo, !.force = force]]
      BY <2>4 DEF ConsoleAccess
    <3> QED
      BY <2>1, <3>1
  <2>5. ASSUME NEW n \in call[h].todo,
               EnterLock(h, n, [Idle EXCEPT !.job = "access", !.force = call[h].force, !.todo = call[h].todo \ {n}])
        PROVE  \E c : call' = [call EXCEPT ![h] = c] /\ c.pc # "send" /\ Access(c)
    <3> DEFINE r == [Idle EXCEPT !.job = "access", !.force = call[h].force, !.todo = call[h].todo \ {n}]
               c == [r EXCEPT !.pc = "queued", !.node = n]
    <3>1. c.pc # "send" /\ Access(c)
      BY <2>2
    <3>2. call' = [call EXCEPT ![h] = c]
      BY <2>5 DEF EnterLock
    <3> HIDE DEF c
    <3> QED
      BY <3>1, <3>2
  <2>6. CASE AccessRebuild(h)
    BY <2>3, <2>5, <2>6 DEF AccessRebuild
  <2> QED
    BY <2>4, <2>6
<1>3. call'[h] = c /\ \A k \in Handler \ {h} : call'[k] = call[k]
  BY <1>1, <1>2
<1>4. \A m \in Node : ~HeartAt(h, m)'
  BY <1>2, <1>3 DEF HeartAt
<1>5. HeartKnows(h)' /\ \A m \in Node : service'[m].enabled
  BY <1>1, <1>4 DEF HeartKnows, CatchInv, OnlyBuilds
<1> QED
  BY <1>1, <1>2, <1>3, <1>4, <1>5, CatchCall

(* Without requests that outlive the Agent's timeout, its main loop does one thing at a time. *)
LEMMA OneThingAtATime ==
  ASSUME CatchUpAssumed, NEW n \in Node, MainLoopFree(n)
  PROVE  (\A r \in results : tasks[r.task].node # n) /\ \A k \in Handler : ~HeartAt(k, n)
  BY DEF CatchUpAssumed, MainLoopFree, HeartAt, Busy

(* A heartbeat starts: it reports what its node runs, and nothing else of the node is under way. *)
LEMMA CatchHeartStarts ==
  ASSUME BaseInv, CatchInv, CatchUpAssumed, NEW h \in Handler, NEW n \in Node, HeartbeatRebuild(h, n)
  PROVE  CatchInv'
<1>1. /\ UNCHANGED <<tasks, observed, agent, results, service, desired>> /\ call[h].pc = "idle"
      /\ call \in [Handler -> Call] /\ MainLoopFree(n)
  BY DEF HeartbeatRebuild, Heartbeat, Busy, database, BaseInv, IInv, TypeOK
<1> DEFINE c == [Idle EXCEPT !.due = Due(n), !.was = service[n].status, !.live = agent[n].on]
           q == [c EXCEPT !.pc = "queued", !.node = n]
<1>2. q.pc = "queued" /\ q.job = "heartbeat" /\ q.node = n /\ q.live = agent[n].on
  BY DEF Idle
<1>3. call' = [call EXCEPT ![h] = q]
  BY DEF HeartbeatRebuild, EnterLock
<1> HIDE DEF q
<1>4. call'[h] = q /\ \A k \in Handler \ {h} : call'[k] = call[k]
  BY <1>1, <1>3
<1>5. \A m \in Node : HeartAt(h, m)' => m = n
  BY <1>2, <1>4 DEF HeartAt
<1>6. HeartKnows(h)' /\ \A m \in Node : service'[m].enabled
  BY <1>1, <1>2, <1>4, <1>5 DEF HeartKnows, CatchInv, OnlyBuilds
<1>7. (\A r \in results : tasks[r.task].node # n) /\ \A k \in Handler : ~HeartAt(k, n)
  BY <1>1, OneThingAtATime
<1> QED
  BY <1>1, <1>2, <1>4, <1>5, <1>6, <1>7, CatchCall

(* A heartbeat ends: it restores a service only where the node acknowledged the stored revision. *)
LEMMA CatchHeartEnds ==
  ASSUME BaseInv, CatchInv, NEW h \in Handler, HeartbeatBuilt(h) \/ HeartbeatRestore(h)
  PROVE  CatchInv'
<1> DEFINE n == call[h].node
<1>1. /\ call[h] \in Call /\ call \in [Handler -> Call] /\ n \in Node /\ service \in [Node -> ServiceRow]
      /\ call[h].pc \in {"back", "restore"} /\ call[h].job = "heartbeat"
      /\ UNCHANGED <<tasks, observed, agent, results, desired>>
  BY CatchTypes DEF BaseInv, IInv, TypeOK, CatchInv, HeartbeatBuilt, HeartbeatRestore
<1>2. \/ UNCHANGED service \/ SetStatus(n, "attention")
      \/ call[h].pc = "restore" /\ SetStatus(n, "healthy")
  BY DEF HeartbeatBuilt, HeartbeatRestore
<1>3. /\ \A k \in Handler \ {h} : call'[k] = call[k]
      /\ \/ call'[h] = Idle
         \/ /\ call'[h].pc = "restore" /\ call'[h].node = n /\ call'[h].job = "heartbeat" /\ call'[h].live
            /\ call[h].live /\ call[h].pc = "back" /\ Acknowledged(n)
  BY <1>1 DEF HeartbeatBuilt, HeartbeatRestore, Call
<1> HIDE DEF n
<1>4. HeartAt(h, n) /\ HeartKnows(h)
  BY <1>1 DEF HeartAt, CatchInv, Hearts, n
<1>5. ASSUME NEW m \in Node
      PROVE  /\ service'[m].enabled
             /\ service'[m].status = "healthy" => service[m].status = "healthy" \/ agent[m].redelivered \/ Runs(m) \/ Open(m)
  <2>1. service[m].enabled
    BY DEF CatchInv, OnlyBuilds
  <2>2. CASE UNCHANGED service \/ SetStatus(n, "attention") \/ m # n
    BY <1>1, <1>2, <2>1, <2>2 DEF SetStatus, ServiceRow
  <2>3. CASE m = n /\ call[h].pc = "restore" /\ SetStatus(n, "healthy")
    <3>1. service'[m].enabled
      BY <1>1, <2>1, <2>3 DEF SetStatus, ServiceRow
    <3>2. agent[m].redelivered \/ Runs(m) \/ Open(m)
      BY <1>4, <2>3 DEF HeartKnows, Runs
    <3> QED
      BY <3>1, <3>2
  <2> QED
    BY <1>2, <2>2, <2>3
<1>6. \A m \in Node : HeartAt(h, m)' => m = n
  BY <1>3 DEF HeartAt, Idle
<1>7. HeartKnows(h)'
  <2> SUFFICES ASSUME NEW m \in Node, HeartAt(h, m)', ~agent[m].redelivered
               PROVE  agent[m].on /\ call'[h].live /\ agent[m].rev = desired[m].rev
    BY <1>1 DEF HeartKnows
  <2>1. m = n /\ call[h].live /\ call'[h].live /\ Acknowledged(n)
    BY <1>3, <1>6 DEF HeartAt, Idle
  <2>2. agent[m].on
    BY <1>4, <2>1 DEF HeartKnows
  <2>3. observed[m].rev = desired[m].rev /\ observed[m].rev <= agent[m].rev
    BY <2>1 DEF Acknowledged, CatchInv, Acked
  <2>4. agent[m].rev = desired[m].rev
    BY <2>3, CatchTypes DEF CatchInv
  <2> QED
    BY <2>1, <2>2, <2>4
<1>8. call'[h].pc # "send"
  BY <1>3 DEF Idle
<1> QED
  BY <1>1, <1>3, <1>4, <1>5, <1>6, <1>7, <1>8, CatchCall

(* A build is enqueued: the youngest row of its node, of the stored revision. *)
LEMMA CatchEnqueue ==
  ASSUME BaseInv, CatchInv, NEW h \in Handler, BuildEnqueue(h)
  PROVE  CatchInv'
<1>n. PICK n \in Node : n = call[h].node
  BY CatchTypes DEF CatchInv
<1>k. PICK new : new = Len(tasks) + 1
  OBVIOUS
<1> DEFINE row == Task("Apply", n, call[h].rev, call[h].peers)
<1>1. /\ UNCHANGED <<observed, agent, results, service, desired>> /\ call[h].pc = "wrote"
      /\ call[h] \in Call /\ call \in [Handler -> Call] /\ row \in TaskRow
      /\ tasks' = Append(tasks, row) /\ tasks \in Seq(TaskRow)
  BY <1>n, CatchTypes, TaskType DEF BuildEnqueue, Enqueue, BaseInv, IInv, TypeOK, CatchInv, Call, TaskKind
<1>2. /\ row.node = n /\ row.kind = "Apply" /\ row.rev = desired[n].rev /\ row.status = "pending" /\ row.attempts = 0
  BY <1>1, <1>n DEF Task, BaseInv, IInv, BuildKnows, Stored
<1>3. /\ \A k \in Handler \ {h} : call'[k] = call[k]
      /\ call'[h].pc = "back" /\ call'[h].job = call[h].job /\ call'[h].node = n /\ call'[h].live = call[h].live
  BY <1>1, <1>n DEF BuildEnqueue, LeaveLock, Call
<1> HIDE DEF row
<1>4. /\ DOMAIN tasks' = DOMAIN tasks \union {new} /\ new \notin DOMAIN tasks
      /\ \A j \in DOMAIN tasks : tasks'[j] = tasks[j] /\ j < new
      /\ tasks'[new] = row
  BY <1>1, <1>k, EnqueueType
<1>5. new \in Nat /\ DOMAIN tasks \subseteq Nat
  BY <1>1, <1>k, LenProperties
<1>6. Current(new, n)' /\ Unfinished(new)'
  BY <1>1, <1>2, <1>4 DEF Current, Unfinished
<1>7. \A m \in Node \ {n} : Wrote(m) => Wrote(m)'
  BY <1>1, <1>3, <1>n DEF Wrote
<1>8. ASSUME NEW j \in DOMAIN tasks
      PROVE  /\ \A m \in Node : Current(j, m) => Current(j, m)'
             /\ Unfinished(j) => Unfinished(j)'
             /\ FirstOut(j) => FirstOut(j)'
             /\ FirstTime(j)' => FirstTime(j)
  <2>1. tasks'[j] = tasks[j]
    BY <1>4
  <2>2. FirstOut(j) => FirstOut(j)'
    BY <1>2, <1>4, <2>1 DEF FirstOut
  <2> QED
    BY <1>1, <2>1, <2>2 DEF Current, Unfinished, Retryable, FirstTime, Untaken
<1>9. ASSUME NEW m \in Node, Open(m) \/ m = n PROVE Open(m)'
  <2>1. CASE m = n
    BY <1>4, <1>6, <2>1 DEF Open, OpenTask
  <2>2. CASE m # n /\ OpenTask(m)
    BY <1>4, <1>8, <2>2 DEF Open, OpenTask
  <2>3. CASE m # n /\ OpenFailure(m)
    BY <1>1, <1>8, <2>3, CatchTypes DEF Open, OpenFailure, CatchInv
  <2> QED
    BY <1>7, <1>9, <2>1, <2>2, <2>3 DEF Open
<1>10. OnlyBuilds'
  BY <1>1, <1>2, <1>3, <1>4 DEF CatchInv, OnlyBuilds
<1>11. HasTask'
  <2> SUFFICES ASSUME NEW m \in Node, m # n, ~Wrote(m)' PROVE desired'[m].rev = 1 \/ \E i \in DOMAIN tasks' : Current(i, m)'
    BY <1>4, <1>6 DEF HasTask
  <2> QED
    BY <1>1, <1>4, <1>7, <1>8 DEF CatchInv, HasTask
<1>12. Taken'
  BY <1>1, <1>4, <1>8, CatchTypes DEF CatchInv, Taken
<1>13. Reports'
  <2>1. \A r \in results : tasks'[r.task] = tasks[r.task] /\ (FirstOut(r.task) => FirstOut(r.task)')
    BY <1>4, <1>8, CatchTypes DEF CatchInv
  <2>2. \A r \in results' : Honest(r, r.task, tasks[r.task].node)'
    BY <1>1, <2>1 DEF CatchInv, Reports, Honest
  <2>3. \A m \in Node, k \in Handler : HeartAt(k, m)' => HeartAt(k, m)
    BY <1>1, <1>3, <1>n DEF HeartAt
  <2>4. \A r \in results : tasks[r.task].node \in Node
    BY CatchTypes DEF CatchInv
  <2>5. ASSUME NEW r \in results', NEW q \in results', tasks'[q.task].node = tasks'[r.task].node PROVE q = r
    <3>1. r \in results /\ q \in results /\ tasks[q.task].node = tasks[r.task].node
      BY <1>1, <2>1, <2>5
    <3> QED
      BY <3>1 DEF CatchInv, Reports
  <2>6. ASSUME NEW r \in results', NEW k \in Handler PROVE ~HeartAt(k, tasks[r.task].node)'
    <3>1. ~HeartAt(k, tasks[r.task].node) /\ tasks[r.task].node \in Node /\ tasks'[r.task] = tasks[r.task]
      BY <1>1, <2>1, <2>4 DEF CatchInv, Reports
    <3> QED
      BY <2>3, <3>1 DEF HeartAt
  <2> QED
    BY <2>2, <2>5, <2>6 DEF Reports
<1>14. Acked'
  <2>1. \A i \in DOMAIN tasks : FirstTime(i)' => observed[tasks[i].node].rev <= tasks[i].rev
    BY <1>8 DEF CatchInv, Acked
  <2>2. observed[row.node].rev <= row.rev
    BY <1>1, <1>2 DEF CatchInv, Acked
  <2> QED
    BY <1>1, <1>4, <2>1, <2>2 DEF CatchInv, Acked
<1>15. OnePayload'
  BY <1>1 DEF CatchInv, OnePayload
<1>16. Hearts'
  <2>1. \A m \in Node, k \in Handler : HeartAt(k, m)' => HeartAt(k, m) /\ call'[k].live = call[k].live
                                                       /\ (call'[k].pc = "restore" => call[k].pc = "restore")
    BY <1>1, <1>3, <1>n DEF HeartAt
  <2> QED
    BY <1>1, <1>9, <2>1 DEF CatchInv, Hearts, HeartKnows
<1>17. HealthyMeans'
  BY <1>1, <1>9 DEF CatchInv, HealthyMeans, Runs
<1> QED
  BY <1>10, <1>11, <1>12, <1>13, <1>14, <1>15, <1>16, <1>17 DEF CatchInv

(* A task is put back in line; it is in nobody's hands. *)
LEMMA CatchRetry ==
  ASSUME BaseInv, CatchInv, CatchUpAssumed, NEW i \in DOMAIN tasks, RetryStale(i) \/ RetryFailed(i)
  PROVE  CatchInv'
<1>1. /\ UNCHANGED <<observed, agent, results, service, desired, call>> /\ tasks \in Seq(TaskRow)
      /\ tasks' = [tasks EXCEPT ![i].status = "pending"] /\ tasks[i] \in TaskRow /\ tasks[i].status \in {"running", "failed"}
  BY CatchTypes DEF RetryStale, RetryFailed, Retryable, controllerMemory, BaseInv, IInv, TypeOK, CatchInv
<1>2. (\A n \in Node : i \notin agent[n].batch) /\ \A r \in results : r.task = i => r.phase # "task"
  <2>1. CASE RetryStale(i)
    BY <2>1, CatchTypes DEF RetryStale, InHand, Happens, CatchUpAssumed, CatchInv
  <2>2. CASE RetryFailed(i)
    BY <2>2 DEF RetryFailed, Retryable, CatchInv, Taken, Reports, Honest
  <2> QED
    BY <2>1, <2>2
<1>3. /\ DOMAIN tasks' = DOMAIN tasks /\ \A j \in DOMAIN tasks : j # i => tasks'[j] = tasks[j]
      /\ tasks'[i].node = tasks[i].node /\ tasks'[i].kind = tasks[i].kind /\ tasks'[i].rev = tasks[i].rev
      /\ tasks'[i].attempts = tasks[i].attempts /\ tasks'[i].status = "pending"
  BY <1>1 DEF TaskRow
<1>4. ASSUME NEW j \in DOMAIN tasks
      PROVE  /\ tasks'[j].node = tasks[j].node /\ tasks'[j].rev = tasks[j].rev /\ tasks'[j].kind = tasks[j].kind
             /\ tasks'[j].attempts = tasks[j].attempts
             /\ \A m \in Node : Current(j, m)' <=> Current(j, m)
             /\ Unfinished(j) => Unfinished(j)'
             /\ FirstOut(j) => FirstOut(j)'
             /\ FirstTime(j)' => FirstTime(j)
  <2>1. /\ tasks'[j].node = tasks[j].node /\ tasks'[j].rev = tasks[j].rev /\ tasks'[j].kind = tasks[j].kind
        /\ tasks'[j].attempts = tasks[j].attempts
    BY <1>3
  <2>2. FirstOut(j) => FirstOut(j)'
    BY <1>3, <2>1 DEF FirstOut
  <2>3. Unfinished(j) => Unfinished(j)'
    BY <1>3 DEF Unfinished, Retryable
  <2> QED
    BY <1>1, <2>1, <2>2, <2>3 DEF Current, FirstTime, Untaken
<1>5. ASSUME NEW m \in Node, Open(m) PROVE Open(m)'
  <2>1. OpenTask(m) => OpenTask(m)'
    BY <1>3, <1>4 DEF OpenTask
  <2>2. OpenFailure(m) => OpenFailure(m)'
    BY <1>1, <1>4, CatchTypes DEF OpenFailure, CatchInv
  <2> QED
    BY <1>1, <1>5, <2>1, <2>2 DEF Open, Wrote
<1>6. OnlyBuilds' /\ HasTask' /\ OnePayload'
  BY <1>1, <1>3, <1>4 DEF CatchInv, OnlyBuilds, HasTask, OnePayload, Wrote
<1>7. Taken'
  BY <1>1, <1>2, <1>3, <1>4, CatchTypes DEF CatchInv, Taken
<1>8. Reports'
  <2>1. \A r \in results : /\ tasks'[r.task].node = tasks[r.task].node /\ tasks'[r.task].rev = tasks[r.task].rev
                           /\ tasks'[r.task].attempts = tasks[r.task].attempts
                           /\ FirstOut(r.task) => FirstOut(r.task)'
                           /\ r.phase = "task" => tasks'[r.task] = tasks[r.task]
    BY <1>2, <1>3, <1>4, CatchTypes DEF CatchInv
  <2>2. ASSUME NEW r \in results' PROVE Honest(r, r.task, tasks[r.task].node)'
    <3>1. r \in results /\ Honest(r, r.task, tasks[r.task].node)
      BY <1>1 DEF CatchInv, Reports
    <3> QED
      BY <1>1, <2>1, <3>1 DEF Honest
  <2>3. ASSUME NEW r \in results', NEW q \in results', tasks'[q.task].node = tasks'[r.task].node PROVE q = r
    <3>1. r \in results /\ q \in results /\ tasks[q.task].node = tasks[r.task].node
      BY <1>1, <2>1, <2>3
    <3> QED
      BY <3>1 DEF CatchInv, Reports
  <2>4. ASSUME NEW r \in results', NEW k \in Handler PROVE ~HeartAt(k, tasks[r.task].node)'
    BY <1>1, <2>1 DEF CatchInv, Reports, HeartAt
  <2> QED
    BY <2>2, <2>3, <2>4 DEF Reports
<1>9. Acked'
  BY <1>1, <1>3, <1>4 DEF CatchInv, Acked
<1>10. Hearts' /\ HealthyMeans'
  BY <1>1, <1>5 DEF CatchInv, Hearts, HeartKnows, HeartAt, HealthyMeans, Runs
<1> QED
  BY <1>6, <1>7, <1>8, <1>9, <1>10 DEF CatchInv

(* The reports after one of them goes on to its next phase, or is answered. *)
LEMMA ReportsMove ==
  ASSUME BaseInv, CatchInv, NEW r \in results, NEW phase \in {"task", "service", "observed"},
         results' \in {Advance(r, phase), results \ {r}},
         NEW n, n = tasks[r.task].node
  PROVE  /\ n \in Node
         /\ \A p \in results' : \/ p \in results /\ p # r /\ tasks[p.task].node # n
                                \/ p.task = r.task /\ p.ok = r.ok /\ p.phase = phase
         /\ \A p \in results : tasks[p.task].node # n => p \in results'
         /\ \A p \in results' : \E q \in results : q.task = p.task
         /\ \A p, q \in results' : tasks[p.task].node = tasks[q.task].node => p = q
         /\ \A p \in results : tasks[p.task].node = n => p = r
<1> DEFINE s == [r EXCEPT !.phase = phase]
<1>1. r \in ReportRow /\ s.task = r.task /\ s.ok = r.ok /\ s.phase = phase
  BY CatchTypes DEF CatchInv, ReportRow
<1>2. results' \subseteq (results \ {r}) \union {s} /\ results \ {r} \subseteq results'
  BY DEF Advance
<1> HIDE DEF s
<1>3. \A p \in results : tasks[p.task].node = n => p = r
  BY DEF CatchInv, Reports
<1>4. \A p, q \in results \ {r} : tasks[p.task].node = tasks[q.task].node => p = q
  BY DEF CatchInv, Reports
<1>5. \A p \in results' : p = s \/ (p \in results /\ p # r /\ tasks[p.task].node # n)
  BY <1>2, <1>3
<1>6. tasks[s.task].node = n
  BY <1>1
<1>7. \A p, q \in results' : tasks[p.task].node = tasks[q.task].node => p = q
  BY <1>4, <1>5, <1>6
<1>8. n \in Node
  BY CatchTypes DEF CatchInv
<1> QED
  BY <1>1, <1>2, <1>3, <1>5, <1>7, <1>8

(* A task is settled as its node reported it. *)
LEMMA CatchSettles ==
  ASSUME BaseInv, CatchInv, NEW r \in results, FinishTask(r)
  PROVE  CatchInv'
<1>1. PICK i \in DOMAIN tasks : i = r.task
  BY CatchTypes DEF CatchInv
<1>2. PICK n \in Node : n = tasks[i].node
  BY CatchTypes DEF CatchInv
<1>3. PICK s \in {"succeeded", "failed"} : s = IF r.ok THEN "succeeded" ELSE "failed"
  OBVIOUS
<1>4. /\ UNCHANGED <<observed, agent, service, desired, call>> /\ tasks \in Seq(TaskRow)
      /\ tasks' = [tasks EXCEPT ![i].status = s] /\ tasks[i] \in TaskRow /\ r.phase = "task"
      /\ results' = Advance(r, "service")
  BY <1>1, <1>3, CatchTypes DEF FinishTask, BaseInv, IInv, TypeOK, CatchInv
<1>5. Honest(r, i, n) /\ tasks[i].status = "running"
  BY <1>1, <1>2, <1>4 DEF CatchInv, Reports, Honest
<1>6. /\ DOMAIN tasks' = DOMAIN tasks /\ \A j \in DOMAIN tasks : j # i => tasks'[j] = tasks[j]
      /\ tasks'[i].node = n /\ tasks'[i].kind = tasks[i].kind /\ tasks'[i].rev = tasks[i].rev
      /\ tasks'[i].attempts = tasks[i].attempts /\ tasks'[i].status = s
  BY <1>2, <1>4 DEF TaskRow
<1>7. ASSUME NEW j \in DOMAIN tasks
      PROVE  /\ tasks'[j].node = tasks[j].node /\ tasks'[j].rev = tasks[j].rev /\ tasks'[j].kind = tasks[j].kind
             /\ tasks'[j].attempts = tasks[j].attempts
             /\ \A m \in Node : Current(j, m)' <=> Current(j, m)
             /\ (FirstOut(j) /\ (tasks[j].node # n \/ ~(j < i))) => FirstOut(j)'
             /\ FirstTime(j)' => FirstTime(j)
  <2>1. /\ tasks'[j].node = tasks[j].node /\ tasks'[j].rev = tasks[j].rev /\ tasks'[j].kind = tasks[j].kind
        /\ tasks'[j].attempts = tasks[j].attempts
    BY <1>2, <1>6
  <2>2. (FirstOut(j) /\ (tasks[j].node # n \/ ~(j < i))) => FirstOut(j)'
    BY <1>2, <1>6, <2>1 DEF FirstOut
  <2> QED
    BY <1>4, <2>1, <2>2 DEF Current, FirstTime, Untaken
<1>8. /\ \A p \in results' : \/ p \in results /\ p # r /\ tasks[p.task].node # n
                             \/ p.task = i /\ p.ok = r.ok /\ p.phase = "service"
      /\ \A p \in results : tasks[p.task].node # n => p \in results'
      /\ \A p \in results' : \E q \in results : q.task = p.task
      /\ \A p, q \in results' : tasks[p.task].node = tasks[q.task].node => p = q
      /\ \A p \in results : tasks[p.task].node = n => p = r
  BY <1>1, <1>2, <1>4, ReportsMove
<1>9. PICK q \in results' : q.task = i /\ q.ok = r.ok /\ q.phase = "service"
  <2>1. LET q == [r EXCEPT !.phase = "service"] IN q.task = i /\ q.ok = r.ok /\ q.phase = "service"
    BY <1>1, CatchTypes DEF CatchInv, ReportRow
  <2> QED
    BY <1>4, <2>1 DEF Advance
<1>10. \A p \in results' : p.task \in DOMAIN tasks
  BY <1>8, CatchTypes DEF CatchInv
<1>11. \A h \in Handler : ~HeartAt(h, n)
  BY <1>1, <1>2 DEF CatchInv, Reports
<1>12. ASSUME NEW m \in Node, Open(m) PROVE Open(m)' \/ (m = n /\ (agent[m].redelivered \/ Runs(m)))
  <2>1. CASE Wrote(m)
    BY <1>4, <2>1 DEF Open, Wrote
  <2>2. ASSUME NEW j \in DOMAIN tasks, j # i, Current(j, m), Unfinished(j) PROVE Open(m)'
    BY <1>6, <1>7, <2>2 DEF Open, OpenTask, Unfinished, Retryable
  <2>3. CASE Current(i, m) /\ r.ok
    BY <1>2, <1>5, <2>3 DEF Honest, Current, Runs
  <2>4. CASE Current(i, m) /\ ~r.ok
    <3>1. Current(i, m)'
      BY <1>7, <2>4
    <3> QED
      BY <1>9, <2>4, <3>1 DEF Open, OpenFailure, Current
  <2>5. ASSUME NEW p \in results, ~p.ok, p.phase = "service", Current(p.task, m) PROVE Open(m)'
    <3>1. p # r /\ p.task \in DOMAIN tasks
      BY <1>4, <2>5, CatchTypes DEF CatchInv
    <3>2. p \in results' /\ Current(p.task, m)'
      BY <1>7, <1>8, <2>5, <3>1
    <3> QED
      BY <2>5, <3>2 DEF Open, OpenFailure
  <2> QED
    BY <1>12, <2>1, <2>2, <2>3, <2>4, <2>5 DEF Open, OpenTask, OpenFailure
<1>13. OnlyBuilds' /\ HasTask' /\ OnePayload'
  BY <1>4, <1>6, <1>7 DEF CatchInv, OnlyBuilds, HasTask, OnePayload, Wrote
<1>14. Taken'
  <2> SUFFICES ASSUME NEW m \in Node, NEW j \in agent[m].batch
               PROVE  tasks'[j].status = "running" /\ (tasks'[j].attempts = 1 => FirstOut(j)')
    BY <1>4 DEF Taken
  <2>1. /\ j \in DOMAIN tasks /\ tasks[j].node = m /\ j \in Nat /\ i \in Nat
        /\ tasks[j].status = "running" /\ (tasks[j].attempts = 1 => FirstOut(j))
    BY CatchTypes DEF CatchInv, Taken
  <2>2. m = n => i < j
    BY <1>5 DEF Honest
  <2>3. j # i /\ (tasks[j].node # n \/ ~(j < i))
    BY <1>2, <2>1, <2>2
  <2> QED
    BY <1>6, <1>7, <2>1, <2>3
<1>15. Reports'
  <2>1. ASSUME NEW p \in results' PROVE Honest(p, p.task, tasks[p.task].node)'
    <3>1. CASE p \in results /\ tasks[p.task].node # n
      <4>1. Honest(p, p.task, tasks[p.task].node) /\ p.task \in DOMAIN tasks /\ p.task # i
        BY <1>2, <3>1, CatchTypes DEF CatchInv, Reports
      <4> QED
        BY <1>4, <1>6, <1>7, <3>1, <4>1 DEF Honest
    <3>2. CASE p.task = i /\ p.ok = r.ok /\ p.phase = "service"
      <4>1. FirstOut(i) => FirstOut(i)'
        BY <1>7, CatchTypes DEF CatchInv
      <4> QED
        BY <1>4, <1>5, <1>6, <3>2, <4>1 DEF Honest
    <3> QED
      BY <1>8, <3>1, <3>2
  <2>2. ASSUME NEW p \in results', NEW o \in results', tasks'[o.task].node = tasks'[p.task].node PROVE o = p
    BY <1>7, <1>8, <1>10, <2>2
  <2>3. ASSUME NEW p \in results', NEW h \in Handler PROVE ~HeartAt(h, tasks[p.task].node)'
    <3>1. ~HeartAt(h, tasks[p.task].node)
      BY <1>8 DEF CatchInv, Reports
    <3> QED
      BY <1>4, <1>7, <1>10, <3>1 DEF HeartAt
  <2> QED
    BY <2>1, <2>2, <2>3 DEF Reports
<1>16. Acked'
  BY <1>4, <1>6, <1>7 DEF CatchInv, Acked
<1>17. Hearts'
  <2>1. \A m \in Node, h \in Handler : HeartAt(h, m)' => HeartAt(h, m) /\ m # n
    BY <1>4, <1>11 DEF HeartAt
  <2> QED
    BY <1>4, <1>12, <2>1 DEF CatchInv, Hearts, HeartKnows
<1>18. HealthyMeans'
  BY <1>4, <1>12 DEF CatchInv, HealthyMeans, Runs
<1> QED
  BY <1>13, <1>14, <1>15, <1>16, <1>17, <1>18 DEF CatchInv

(* A report that went well makes the service healthy: its node runs the stored revision, or a later task is open. *)
LEMMA CatchService ==
  ASSUME BaseInv, CatchInv, NEW r \in results, FinishService(r)
  PROVE  CatchInv'
<1>1. PICK i \in DOMAIN tasks : i = r.task
  BY CatchTypes DEF CatchInv
<1>2. PICK n \in Node : n = tasks[i].node
  BY CatchTypes DEF CatchInv
<1>3. /\ UNCHANGED <<observed, agent, tasks, desired, call>> /\ r.phase = "service"
      /\ results' \in {Advance(r, "observed"), results \ {r}}
      /\ ~r.ok => results' = results \ {r}
      /\ SetStatus(n, IF r.ok THEN "healthy" ELSE "attention")
  BY <1>1, <1>2 DEF FinishService, CatchInv, OnlyBuilds
<1>4. Honest(r, i, n) /\ \A h \in Handler : ~HeartAt(h, n)
  BY <1>1, <1>2 DEF CatchInv, Reports
<1>5. /\ \A p \in results' : \/ p \in results /\ p # r /\ tasks[p.task].node # n
                             \/ p.task = i /\ p.ok = r.ok /\ p.phase = "observed"
      /\ \A p \in results : tasks[p.task].node # n => p \in results'
      /\ \A p, q \in results' : tasks[p.task].node = tasks[q.task].node => p = q
      /\ \A p \in results : tasks[p.task].node = n => p = r
  <2>1. n = tasks[r.task].node /\ results' \in {Advance(r, "observed"), results \ {r}}
    BY <1>1, <1>2, <1>3
  <2> QED
    BY <1>1, <2>1, ReportsMove
<1>6. \A p \in results' : p.task = i /\ p.ok = r.ok /\ p.phase = "observed" => r.ok
  <2>1. \A p \in results \ {r} : p.task # i
    BY <1>2, <1>5
  <2>2. ~r.ok => results' = results \ {r}
    BY <1>3
  <2> QED
    BY <2>1, <2>2
<1>7. ASSUME NEW m \in Node
      PROVE  service'[m].enabled /\ (m # n => service'[m] = service[m])
             /\ (m = n => service'[m].status = IF r.ok THEN "healthy" ELSE "attention")
  <2>1. service \in [Node -> ServiceRow] /\ service[m].enabled
    BY DEF BaseInv, IInv, TypeOK, CatchInv, OnlyBuilds
  <2> QED
    BY <1>3, <2>1 DEF SetStatus, ServiceRow
<1>8. ASSUME NEW m \in Node, m # n \/ r.ok PROVE Open(m) => Open(m)'
  <2>1. ASSUME NEW p \in results, ~p.ok, p.phase = "service", Current(p.task, m) PROVE OpenFailure(m)'
    <3>1. p \in results' /\ Current(p.task, m)'
      BY <1>3, <1>5, <1>8, <2>1 DEF Current
    <3> QED
      BY <2>1, <3>1 DEF OpenFailure
  <2>2. (Wrote(m) => Wrote(m)') /\ (OpenTask(m) => OpenTask(m)')
    BY <1>3 DEF Wrote, OpenTask, Current, Unfinished, Retryable
  <2> QED
    BY <2>1, <2>2 DEF Open, OpenFailure
<1>9. OnlyBuilds' /\ HasTask' /\ OnePayload' /\ Taken' /\ Acked'
  <2>1. OnlyBuilds' /\ HasTask' /\ OnePayload'
    BY <1>3, <1>7 DEF CatchInv, OnlyBuilds, HasTask, OnePayload, Wrote, Current
  <2>2. Taken' /\ Acked'
    BY <1>3 DEF CatchInv, Taken, FirstOut, Acked, FirstTime, Untaken
  <2> QED
    BY <2>1, <2>2
<1>10. Reports'
  <2>1. ASSUME NEW p \in results' PROVE Honest(p, p.task, tasks[p.task].node)'
    <3>1. CASE p \in results /\ p # r /\ tasks[p.task].node # n
      <4>1. Honest(p, p.task, tasks[p.task].node)
        BY <3>1 DEF CatchInv, Reports
      <4> QED
        BY <1>3, <4>1 DEF Honest, FirstOut
    <3>2. CASE p.task = i /\ p.ok = r.ok /\ p.phase = "observed"
      <4>1. r.ok
        BY <1>6, <3>2
      <4> QED
        BY <1>2, <1>3, <1>4, <3>2, <4>1 DEF Honest, FirstOut
    <3> QED
      BY <1>5, <3>1, <3>2
  <2>2. \A p \in results', h \in Handler : ~HeartAt(h, tasks[p.task].node)'
    BY <1>2, <1>3, <1>4, <1>5 DEF HeartAt, CatchInv, Reports
  <2> QED
    BY <1>3, <1>5, <2>1, <2>2 DEF Reports
<1>11. Hearts'
  <2>1. \A m \in Node, h \in Handler : HeartAt(h, m)' => HeartAt(h, m) /\ m # n
    BY <1>3, <1>4 DEF HeartAt
  <2> QED
    BY <1>3, <1>8, <2>1 DEF CatchInv, Hearts, HeartKnows
<1>12. HealthyMeans'
  <2> SUFFICES ASSUME NEW m \in Node, service'[m].status = "healthy", ~agent[m].redelivered PROVE Runs(m)' \/ Open(m)'
    BY <1>3 DEF HealthyMeans
  <2>1. CASE m # n
    BY <1>3, <1>7, <1>8, <2>1 DEF CatchInv, HealthyMeans, Runs
  <2>2. CASE m = n
    <3>1. r.ok
      BY <1>7, <2>2
    <3>2. agent[m].on /\ agent[m].rev = tasks[i].rev /\ FirstOut(i)
      BY <1>4, <2>2, <3>1 DEF Honest
    <3>3. CASE tasks[i].rev = desired[m].rev
      BY <1>3, <3>2, <3>3 DEF Runs
    <3>4. CASE tasks[i].rev # desired[m].rev
      <4>1. Open(m)
        BY <1>2, <2>2, <3>2, <3>4, NewerIsOpen DEF Open, OpenTask, Unfinished
      <4> QED
        BY <1>8, <3>1, <4>1
    <3> QED
      BY <3>3, <3>4
  <2> QED
    BY <2>1, <2>2
<1> QED
  BY <1>9, <1>10, <1>11, <1>12 DEF CatchInv

(* The revision the node reported is acknowledged; it runs it still, and has nothing older to take. *)
LEMMA CatchObserved ==
  ASSUME BaseInv, CatchInv, NEW r \in results, FinishObserved(r)
  PROVE  CatchInv'
<1>1. PICK i \in DOMAIN tasks : i = r.task
  BY CatchTypes DEF CatchInv
<1>2. PICK n \in Node : n = tasks[i].node
  BY CatchTypes DEF CatchInv
<1>3. /\ UNCHANGED <<service, agent, tasks, desired, call>> /\ r.phase = "observed" /\ results' = results \ {r}
      /\ observed' = [observed EXCEPT ![n] = [rev |-> tasks[i].rev, status |-> IF tasks[i].kind = "Disable" THEN "disabled" ELSE "applied"]]
  BY <1>1, <1>2 DEF FinishObserved
<1>4. \A m \in Node : IF m = n THEN observed'[m].rev = tasks[i].rev ELSE observed'[m] = observed[m]
  BY <1>3 DEF BaseInv, IInv, TypeOK
<1>5. Honest(r, i, n) /\ r.ok /\ ~Untaken(i)
  BY <1>1, <1>2, <1>3 DEF CatchInv, Reports, Honest, BaseInv, OlderInv, TakenInOrder
<1>6. \A m \in Node : Open(m)' <=> Open(m)
  <2>1. \A m \in Node : OpenFailure(m)' <=> OpenFailure(m)
    BY <1>3 DEF OpenFailure, Current
  <2> QED
    BY <1>3, <2>1 DEF Open, Wrote, OpenTask, Current, Unfinished, Retryable
<1>7. OnlyBuilds' /\ HasTask' /\ OnePayload' /\ Taken' /\ Reports'
  <2>1. OnlyBuilds' /\ HasTask' /\ OnePayload' /\ Taken'
    BY <1>3 DEF CatchInv, OnlyBuilds, HasTask, OnePayload, Wrote, Current, Taken, FirstOut
  <2>2. Reports'
    BY <1>3 DEF CatchInv, Reports, Honest, FirstOut, HeartAt
  <2> QED
    BY <2>1, <2>2
<1>8. Acked'
  <2>1. \A m \in Node : observed'[m].rev <= desired'[m].rev
    BY <1>2, <1>3, <1>4, CatchTypes DEF CatchInv, Acked
  <2>2. ASSUME NEW m \in Node, ~agent[m].redelivered PROVE observed'[m].rev <= agent[m].rev
    BY <1>4, <1>5, <2>2, CatchTypes DEF CatchInv, Acked, Honest
  <2>3. ASSUME NEW j \in DOMAIN tasks, FirstTime(j) PROVE observed'[tasks[j].node].rev <= tasks[j].rev
    <3>1. CASE tasks[j].node # n
      BY <1>4, <2>3, <3>1, CatchTypes DEF CatchInv, Acked
    <3>2. CASE tasks[j].node = n
      <4>1. i \in Nat /\ j \in Nat
        BY CatchTypes DEF CatchInv
      <4>2. CASE Untaken(j)
        <5>1. j # i /\ ~(j < i)
          BY <1>2, <1>5, <3>2, <4>2 DEF BaseInv, OlderInv, TakenInOrder
        <5>2. i < j
          BY <4>1, <5>1
        <5> QED
          BY <1>2, <1>4, <3>2, <5>2, CatchTypes DEF CatchInv
      <4>3. CASE j \in agent[n].batch
        BY <1>2, <1>4, <1>5, <3>2, <4>3, CatchTypes DEF CatchInv, Honest
      <4> QED
        BY <2>3, <3>2, <4>2, <4>3 DEF FirstTime
    <3> QED
      BY <3>1, <3>2
  <2> QED
    BY <1>3, <2>1, <2>2, <2>3 DEF Acked, FirstTime, Untaken
<1>9. Hearts' /\ HealthyMeans'
  BY <1>3, <1>6 DEF CatchInv, Hearts, HeartKnows, HeartAt, HealthyMeans, Runs
<1> QED
  BY <1>7, <1>8, <1>9 DEF CatchInv

(* A node takes what is pending: while it has nothing in hand, and no report of it is being served. *)
LEMMA CatchPull ==
  ASSUME BaseInv, CatchInv, CatchUpAssumed, NEW n \in Node, Pull(n) \/ PullLost(n)
  PROVE  CatchInv'
<1>1. /\ Take(n) /\ UNCHANGED <<service, desired, call, results, observed>>
      /\ \A r \in results : tasks[r.task].node # n
  BY DEF Pull, PullLost, Polling, controllerMemory, CatchUpAssumed
<1>2. /\ DOMAIN tasks' = DOMAIN tasks
      /\ \A j \in DOMAIN tasks : j \notin Pending(n) => tasks'[j] = tasks[j]
      /\ \A j \in Pending(n) : /\ tasks'[j].attempts = tasks[j].attempts + 1
                               /\ tasks'[j].node = tasks[j].node /\ tasks'[j].kind = tasks[j].kind
                               /\ tasks'[j].rev = tasks[j].rev /\ tasks'[j].status = "running"
  BY <1>1, PulledRows DEF BaseInv
<1>3. \A j : j \in Pending(n) <=> j \in DOMAIN tasks /\ tasks[j].node = n /\ tasks[j].status = "pending"
  BY DEF Pending, TasksOf
<1>4. \A m \in Node : /\ agent'[m].rev = agent[m].rev /\ agent'[m].on = agent[m].on /\ agent'[m].peers = agent[m].peers
                      /\ agent'[m].redelivered = agent[m].redelivered
                      /\ agent'[m].batch = agent[m].batch \/ (m = n /\ agent'[m].batch = Pending(n))
  <2>1. agent' = agent \/ agent' = [agent EXCEPT ![n] = [agent[n] EXCEPT !.batch = Pending(n)]]
    BY DEF Pull, PullLost
  <2>2. \A m \in Node : agent[m] \in AgentRow /\ agent \in [Node -> AgentRow]
    BY DEF BaseInv, IInv, TypeOK
  <2> QED
    BY <2>1, <2>2 DEF AgentRow
<1>5. ASSUME NEW j \in DOMAIN tasks
      PROVE  /\ tasks'[j].node = tasks[j].node /\ tasks'[j].rev = tasks[j].rev /\ tasks'[j].kind = tasks[j].kind
             /\ \A m \in Node : Current(j, m)' <=> Current(j, m)
             /\ Unfinished(j) => Unfinished(j)'
             /\ FirstOut(j) => FirstOut(j)'
             /\ FirstTime(j)' => FirstTime(j)
  <2>1. /\ tasks'[j].node = tasks[j].node /\ tasks'[j].rev = tasks[j].rev /\ tasks'[j].kind = tasks[j].kind
        /\ tasks[j].attempts \in Nat /\ tasks[j].node \in Node
    BY <1>2, CatchTypes DEF CatchInv
  <2>2. FirstOut(j) => FirstOut(j)'
    BY <1>2, <1>3 DEF FirstOut
  <2>3. Unfinished(j) => Unfinished(j)'
    BY <1>2, <1>3 DEF Unfinished, Retryable
  <2>4. FirstTime(j)' => FirstTime(j)
    <3>1. CASE j \in Pending(n)
      <4>1. FirstTime(j)' => tasks'[j].attempts \in {0, 1}
        BY DEF FirstTime, Untaken
      <4> QED
        BY <1>2, <2>1, <3>1, <4>1 DEF FirstTime, Untaken
    <3>2. CASE j \notin Pending(n)
      BY <1>2, <1>4, <2>1, <3>2 DEF FirstTime, Untaken
    <3> QED
      BY <3>1, <3>2
  <2> QED
    BY <1>1, <2>1, <2>2, <2>3, <2>4 DEF Current
<1>6. ASSUME NEW m \in Node, Open(m) PROVE Open(m)'
  <2>1. OpenTask(m) => OpenTask(m)'
    BY <1>2, <1>5 DEF OpenTask
  <2>2. OpenFailure(m) => OpenFailure(m)'
    BY <1>1, <1>5, CatchTypes DEF OpenFailure, CatchInv
  <2> QED
    BY <1>1, <1>6, <2>1, <2>2 DEF Open, Wrote
<1>7. OnlyBuilds' /\ HasTask' /\ OnePayload'
  BY <1>1, <1>2, <1>4, <1>5 DEF CatchInv, OnlyBuilds, HasTask, OnePayload, Wrote
<1>8. Taken'
  <2> SUFFICES ASSUME NEW m \in Node, NEW j \in agent'[m].batch
               PROVE  tasks'[j].status = "running" /\ (tasks'[j].attempts = 1 => FirstOut(j)')
    BY DEF Taken
  <2>1. CASE j \in agent[m].batch
    <3>1. /\ j \in DOMAIN tasks /\ tasks[j].status = "running" /\ (tasks[j].attempts = 1 => FirstOut(j))
      BY <2>1, CatchTypes DEF CatchInv, Taken
    <3> QED
      BY <1>2, <1>3, <1>5, <3>1
  <2>2. CASE j \in Pending(n)
    <3>1. j \in DOMAIN tasks /\ tasks[j].attempts \in Nat
      BY <1>3, <2>2, CatchTypes DEF CatchInv
    <3>2. ASSUME tasks'[j].attempts = 1, NEW k \in DOMAIN tasks, tasks[k].node = tasks[j].node, j < k
          PROVE  tasks'[k].status = "running"
      <4>1. Untaken(j)
        BY <1>2, <2>2, <3>1, <3>2 DEF Untaken
      <4>2. Untaken(k) /\ tasks[k].status = "pending"
        BY <3>1, <3>2, <4>1 DEF BaseInv, OlderInv, TakenInOrder
      <4> QED
        BY <1>2, <1>3, <2>2, <3>2, <4>2
    <3>3. tasks'[j].attempts = 1 => FirstOut(j)'
      BY <1>2, <1>5, <3>1, <3>2 DEF FirstOut
    <3> QED
      BY <1>2, <2>2, <3>3
  <2> QED
    BY <1>4, <2>1, <2>2
<1>9. Reports'
  <2>1. \A r \in results : /\ r.task \in DOMAIN tasks /\ tasks[r.task].node \in Node /\ tasks[r.task].node # n
                           /\ tasks'[r.task] = tasks[r.task] /\ (FirstOut(r.task) => FirstOut(r.task)')
    BY <1>1, <1>2, <1>3, <1>5, CatchTypes DEF CatchInv
  <2>2. ASSUME NEW r \in results' PROVE Honest(r, r.task, tasks[r.task].node)'
    <3>1. r \in results /\ Honest(r, r.task, tasks[r.task].node)
      BY <1>1 DEF CatchInv, Reports
    <3> QED
      BY <1>4, <2>1, <3>1 DEF Honest
  <2>3. ASSUME NEW r \in results', NEW q \in results', tasks'[q.task].node = tasks'[r.task].node PROVE q = r
    <3>1. r \in results /\ q \in results /\ tasks[q.task].node = tasks[r.task].node
      BY <1>1, <2>1, <2>3
    <3> QED
      BY <3>1 DEF CatchInv, Reports
  <2>4. ASSUME NEW r \in results', NEW k \in Handler PROVE ~HeartAt(k, tasks[r.task].node)'
    BY <1>1, <2>1 DEF CatchInv, Reports, HeartAt
  <2> QED
    BY <2>2, <2>3, <2>4 DEF Reports
<1>10. Acked'
  <2>1. \A m \in Node : ~agent'[m].redelivered => observed[m].rev <= agent'[m].rev
    BY <1>4 DEF CatchInv, Acked
  <2> QED
    BY <1>1, <1>2, <1>5, <2>1 DEF CatchInv, Acked
<1>11. Hearts' /\ HealthyMeans'
  BY <1>1, <1>4, <1>6 DEF CatchInv, Hearts, HeartKnows, HeartAt, HealthyMeans, Runs
<1> QED
  BY <1>7, <1>8, <1>9, <1>10, <1>11 DEF CatchInv

(* The agent stops, and forgets what it had in hand; the node keeps running what it ran. *)
LEMMA CatchCrash ==
  ASSUME BaseInv, CatchInv, NEW n \in Node, AgentCrash(n)
  PROVE  CatchInv'
<1>1. UNCHANGED <<service, desired, call, results, observed, tasks>>
  BY DEF AgentCrash, controllerMemory, database
<1>2. \A m \in Node : /\ agent'[m].rev = agent[m].rev /\ agent'[m].on = agent[m].on /\ agent'[m].peers = agent[m].peers
                      /\ agent'[m].redelivered = agent[m].redelivered /\ agent'[m].batch \subseteq agent[m].batch
  <2>1. agent' = [agent EXCEPT ![n] = [agent[n] EXCEPT !.batch = {}]] /\ agent \in [Node -> AgentRow]
    BY DEF AgentCrash, BaseInv, IInv, TypeOK
  <2> QED
    BY <2>1 DEF AgentRow
<1>3. OnlyBuilds' /\ HasTask' /\ OnePayload' /\ Taken'
  BY <1>1, <1>2 DEF CatchInv, OnlyBuilds, HasTask, OnePayload, Wrote, Current, Taken, FirstOut
<1>4. Reports'
  <2>1. \A r \in results : tasks[r.task].node \in Node
    BY CatchTypes DEF CatchInv
  <2>2. ASSUME NEW r \in results PROVE Honest(r, r.task, tasks[r.task].node)'
    <3>1. Honest(r, r.task, tasks[r.task].node)
      BY DEF CatchInv, Reports
    <3> QED
      BY <1>1, <1>2, <2>1, <3>1 DEF Honest, FirstOut
  <2> QED
    BY <1>1, <2>2 DEF CatchInv, Reports, HeartAt
<1>5. Acked'
  <2>1. \A i \in DOMAIN tasks : FirstTime(i)' => FirstTime(i)
    BY <1>1, <1>2, CatchTypes DEF FirstTime, Untaken, CatchInv
  <2> QED
    BY <1>1, <1>2, <2>1 DEF CatchInv, Acked
<1>6. \A m \in Node : Open(m) => Open(m)'
  BY <1>1 DEF Open, Wrote, OpenTask, OpenFailure, Current, Unfinished, Retryable
<1>7. Hearts' /\ HealthyMeans'
  BY <1>1, <1>2, <1>6 DEF CatchInv, Hearts, HeartKnows, HeartAt, HealthyMeans, Runs
<1> QED
  BY <1>3, <1>4, <1>5, <1>7 DEF CatchInv

(* What a node runs after its oldest task: the task's build, or after a failure perhaps what it ran. *)
LEMMA AppliedBuild ==
  ASSUME BaseInv, CatchInv, NEW n \in Node, ApplyTask(n) \/ ApplyFails(n)
  PROVE  \E i \in DOMAIN tasks, ok \in BOOLEAN :
           /\ i \in agent[n].batch /\ tasks[i].node = n
           /\ agent'[n].batch = agent[n].batch \ {i} /\ \A j \in agent'[n].batch : i < j
           /\ \A m \in Node \ {n} : agent'[m] = agent[m]
           /\ results' \in {results, results \union {Report(i, ok)}}
           /\ \/ /\ agent'[n].rev = tasks[i].rev /\ agent'[n].peers = tasks[i].peers
                 /\ agent'[n].redelivered = (tasks[i].attempts > 1) /\ (ok => agent'[n].on)
              \/ /\ agent'[n].rev = agent[n].rev /\ agent'[n].peers = agent[n].peers
                 /\ agent'[n].redelivered = agent[n].redelivered /\ agent'[n].on = agent[n].on /\ ~ok
<1>1. PICK i : i = NextTask(n)
  OBVIOUS
<1>2. agent[n] \in AgentRow /\ agent \in [Node -> AgentRow] /\ agent[n].batch # {} /\ agent[n].batch \in SUBSET Nat
  BY OrderTypes DEF BaseInv, IInv, TypeOK, ApplyTask, ApplyFails, Applying
<1>3. i \in agent[n].batch /\ \A j \in agent[n].batch : i <= j
  BY <1>1, <1>2, LeastRow DEF NextTask
<1>4. i \in DOMAIN tasks /\ tasks[i].node = n /\ tasks[i].kind = "Apply"
  BY <1>3, CatchTypes DEF CatchInv, OnlyBuilds
<1> DEFINE t == tasks[i]
           rest == agent[n].batch \ {i}
           New(a) == a.rev = t.rev /\ a.peers = t.peers /\ a.redelivered = (t.attempts > 1) /\ a.batch = rest
           Old(a) == a.rev = agent[n].rev /\ a.peers = agent[n].peers /\ a.redelivered = agent[n].redelivered
                     /\ a.on = agent[n].on /\ a.batch = rest
<1>5. \A j \in rest : i < j
  BY <1>2, <1>3
<1>6. New(Applied(n, t)) /\ Applied(n, t).on
  BY <1>1, <1>4 DEF Applied, Reconfigures
<1>7. \A a \in Failed(n, t) : New(a) \/ Old(a)
  BY <1>1, <1>2, <1>4 DEF Failed, Reconfigures, AgentRow
<1>8. CASE ApplyTask(n)
  <2>1. agent' = [agent EXCEPT ![n] = Applied(n, t)] /\ results' \in {results, results \union {Report(i, TRUE)}}
    BY <1>1, <1>8 DEF ApplyTask
  <2>2. agent'[n] = Applied(n, t) /\ \A m \in Node \ {n} : agent'[m] = agent[m]
    BY <1>2, <2>1
  <2>3. New(agent'[n]) /\ agent'[n].on
    BY <1>6, <2>2
  <2> QED
    BY <1>3, <1>4, <1>5, <2>1, <2>2, <2>3
<1>9. CASE ApplyFails(n)
  <2>1. PICK a \in Failed(n, t) : agent' = [agent EXCEPT ![n] = a]
    BY <1>1, <1>9 DEF ApplyFails
  <2>2. results' = results \union {Report(i, FALSE)}
    BY <1>1, <1>9 DEF ApplyFails
  <2>3. agent'[n] = a /\ \A m \in Node \ {n} : agent'[m] = agent[m]
    BY <1>2, <2>1
  <2>4. New(agent'[n]) \/ Old(agent'[n])
    BY <1>7, <2>1, <2>3
  <2> QED
    BY <1>3, <1>4, <1>5, <2>2, <2>3, <2>4
<1> QED
  BY <1>8, <1>9

(* A node works on its oldest task, and reports it; nothing else of the node is under way. *)
LEMMA CatchApply ==
  ASSUME BaseInv, CatchInv, CatchUpAssumed, NEW n \in Node, ApplyTask(n) \/ ApplyFails(n)
  PROVE  CatchInv'
<1>1. /\ UNCHANGED <<service, desired, call, tasks, observed>>
      /\ (\A r \in results : tasks[r.task].node # n) /\ \A k \in Handler : ~HeartAt(k, n)
  BY OneThingAtATime DEF ApplyTask, ApplyFails, Applying, database
<1>2. PICK i \in DOMAIN tasks, ok \in BOOLEAN :
        /\ i \in agent[n].batch /\ tasks[i].node = n
        /\ agent'[n].batch = agent[n].batch \ {i} /\ \A j \in agent'[n].batch : i < j
        /\ \A m \in Node \ {n} : agent'[m] = agent[m]
        /\ results' \in {results, results \union {Report(i, ok)}}
        /\ \/ /\ agent'[n].rev = tasks[i].rev /\ agent'[n].peers = tasks[i].peers
              /\ agent'[n].redelivered = (tasks[i].attempts > 1) /\ (ok => agent'[n].on)
           \/ /\ agent'[n].rev = agent[n].rev /\ agent'[n].peers = agent[n].peers
              /\ agent'[n].redelivered = agent[n].redelivered /\ agent'[n].on = agent[n].on /\ ~ok
  BY AppliedBuild
<1> DEFINE New == /\ agent'[n].rev = tasks[i].rev /\ agent'[n].peers = tasks[i].peers
                  /\ agent'[n].redelivered = (tasks[i].attempts > 1) /\ (ok => agent'[n].on)
           Old == /\ agent'[n].rev = agent[n].rev /\ agent'[n].peers = agent[n].peers
                  /\ agent'[n].redelivered = agent[n].redelivered /\ agent'[n].on = agent[n].on /\ ~ok
<1>3. New \/ Old
  BY <1>2
<1> HIDE DEF New, Old
<1>4. /\ tasks[i].status = "running" /\ (tasks[i].attempts = 1 => FirstOut(i))
      /\ tasks[i].attempts \in Nat /\ tasks[i].attempts # 0
  BY <1>2, CatchTypes DEF CatchInv, Taken, BaseInv, OlderInv, TakenInOrder, Untaken
<1>5. (New /\ ~agent'[n].redelivered) => tasks[i].attempts = 1 /\ FirstTime(i)
  <2>1. (New /\ ~agent'[n].redelivered) => ~(tasks[i].attempts > 1)
    BY DEF New
  <2>2. ~(tasks[i].attempts > 1) => tasks[i].attempts = 1
    BY <1>4
  <2> QED
    BY <1>2, <2>1, <2>2 DEF FirstTime
<1>6. \A m \in Node : agent'[m].batch \subseteq agent[m].batch
  BY <1>2
<1>7. \A r \in results' : r \in results \/ (r.task = i /\ r.ok = ok /\ r.phase = "task")
  BY <1>2 DEF Report
<1>8. results \subseteq results'
  BY <1>2
<1>9. \A m \in Node : Open(m) => Open(m)'
  <2>1. \A m \in Node : OpenFailure(m) => OpenFailure(m)'
    BY <1>1, <1>8 DEF OpenFailure, Current
  <2> QED
    BY <1>1, <2>1 DEF Open, Wrote, OpenTask, Current, Unfinished, Retryable
<1>10. OnlyBuilds' /\ HasTask' /\ Taken'
  BY <1>1, <1>6 DEF CatchInv, OnlyBuilds, HasTask, Wrote, Current, Taken, FirstOut
<1>11. OnePayload'
  <2>1. RevisionNamesOnePayload
    BY OneNameSuffices DEF BaseInv, IInv
  <2>2. tasks[i].rev = desired[n].rev => tasks[i].peers = desired[n].peers
    BY <1>2, <2>1 DEF RevisionNamesOnePayload, CatchInv, OnlyBuilds
  <2>3. agent'[n].rev = desired[n].rev => agent'[n].peers = desired[n].peers
    BY <1>3, <2>2 DEF New, Old, CatchInv, OnePayload
  <2> QED
    BY <1>1, <1>2, <2>3 DEF CatchInv, OnePayload
<1>12. Reports'
  <2>1. ASSUME NEW r \in results' PROVE Honest(r, r.task, tasks[r.task].node)'
    <3>1. CASE r \in results
      <4>1. Honest(r, r.task, tasks[r.task].node) /\ tasks[r.task].node \in Node \ {n}
        BY <1>1, <3>1, CatchTypes DEF CatchInv, Reports
      <4> QED
        BY <1>1, <1>2, <4>1 DEF Honest, FirstOut
    <3>2. CASE r.task = i /\ r.ok = ok /\ r.phase = "task"
      <4>1. tasks[i].attempts = 1 => FirstOut(i)'
        BY <1>1, <1>4 DEF FirstOut
      <4>2. ok => agent'[n].redelivered \/ (agent'[n].on /\ agent'[n].rev = tasks[i].rev /\ tasks[i].attempts = 1)
        BY <1>3, <1>5 DEF New, Old
      <4>3. \A j \in agent'[n].batch : i < j
        BY <1>2
      <4> QED
        BY <1>1, <1>2, <1>4, <3>2, <4>1, <4>2, <4>3 DEF Honest
    <3> QED
      BY <1>7, <3>1, <3>2
  <2>2. ASSUME NEW r \in results', NEW q \in results', tasks[q.task].node = tasks[r.task].node PROVE q = r
    <3>1. CASE r \in results /\ q \in results
      BY <2>2, <3>1 DEF CatchInv, Reports
    <3>2. CASE r \notin results \/ q \notin results
      <4>1. r = Report(i, ok) /\ q = Report(i, ok)
        BY <1>1, <1>2, <2>2, <3>2 DEF Report
      <4> QED
        BY <4>1
    <3> QED
      BY <3>1, <3>2
  <2>3. ASSUME NEW r \in results', NEW k \in Handler PROVE ~HeartAt(k, tasks[r.task].node)'
    BY <1>1, <1>2, <1>7 DEF CatchInv, Reports, HeartAt
  <2> QED
    BY <1>1, <2>1, <2>2, <2>3 DEF Reports
<1>13. Acked'
  <2>1. ~agent'[n].redelivered => observed[n].rev <= agent'[n].rev
    BY <1>2, <1>3, <1>5 DEF New, Old, CatchInv, Acked
  <2>2. \A j \in DOMAIN tasks : FirstTime(j)' => FirstTime(j)
    BY <1>1, <1>6, CatchTypes DEF FirstTime, Untaken, CatchInv
  <2> QED
    BY <1>1, <1>2, <2>1, <2>2 DEF CatchInv, Acked
<1>14. Hearts'
  <2>1. \A m \in Node, h \in Handler : HeartAt(h, m)' => HeartAt(h, m) /\ m # n
    BY <1>1 DEF HeartAt
  <2> QED
    BY <1>1, <1>2, <1>9, <2>1 DEF CatchInv, Hearts, HeartKnows
<1>15. HealthyMeans'
  <2> SUFFICES ASSUME NEW m \in Node, service[m].status = "healthy", ~agent'[m].redelivered PROVE Runs(m)' \/ Open(m)'
    BY <1>1 DEF HealthyMeans
  <2>1. CASE m # n
    BY <1>1, <1>2, <1>9, <2>1 DEF CatchInv, HealthyMeans, Runs
  <2>2. CASE m = n /\ Old
    BY <1>1, <1>9, <2>2 DEF CatchInv, HealthyMeans, Runs, Old
  <2>3. CASE m = n /\ New
    <3>1. tasks[i].attempts = 1 /\ FirstOut(i)
      BY <1>4, <1>5, <2>3
    <3>2. CASE tasks[i].rev = desired[m].rev
      <4>1. Open(m)
        BY <1>2, <1>4, <2>3, <3>2 DEF Open, OpenTask, Current, Unfinished
      <4>2. Open(m)'
        BY <1>9, <4>1
      <4> QED
        BY <4>2
    <3>3. CASE tasks[i].rev # desired[m].rev
      <4>1. Open(m)
        BY <1>2, <2>3, <3>1, <3>3, NewerIsOpen DEF Open, OpenTask, Unfinished
      <4> QED
        BY <1>9, <4>1
    <3> QED
      BY <3>2, <3>3
  <2> QED
    BY <1>3, <2>1, <2>2, <2>3
<1> QED
  BY <1>10, <1>11, <1>12, <1>13, <1>14, <1>15 DEF CatchInv

(* A restart of the Controller between a request's two statements is excluded: it forgets nothing that is owed. *)
LEMMA CatchRestart ==
  ASSUME BaseInv, CatchInv, CatchUpAssumed, ControllerRestart
  PROVE  CatchInv'
<1>1. /\ UNCHANGED <<service, desired, tasks, observed, agent>> /\ results' = {}
      /\ call' = [h \in Handler |-> Idle]
  BY DEF ControllerRestart, database
<1>2. (\A h \in Handler : call[h].pc # "wrote") /\ \A r \in results : r.phase = "task"
  BY DEF ControllerRestart, TornCall, CatchUpAssumed
<1>3. \A h \in Handler : call'[h].pc = "idle"
  BY <1>1 DEF Idle
<1>4. \A m \in Node : ~Wrote(m)
  BY <1>2 DEF Wrote
<1>5. \A m \in Node : Open(m) => Open(m)'
  <2>1. \A m \in Node : ~OpenFailure(m)
    BY <1>2 DEF OpenFailure
  <2> QED
    BY <1>1, <1>4, <2>1 DEF Open, OpenTask, Current, Unfinished, Retryable
<1>6. OnlyBuilds' /\ HasTask' /\ OnePayload' /\ Taken' /\ Reports'
  <2>1. OnlyBuilds' /\ HasTask' /\ OnePayload' /\ Taken'
    BY <1>1, <1>3, <1>4 DEF CatchInv, OnlyBuilds, HasTask, OnePayload, Current, Taken, FirstOut
  <2>2. Reports'
    BY <1>1 DEF Reports
  <2> QED
    BY <2>1, <2>2
<1>7. Acked'
  BY <1>1 DEF CatchInv, Acked, FirstTime, Untaken
<1>8. Hearts'
  BY <1>3 DEF Hearts, HeartKnows, HeartAt
<1>9. HealthyMeans'
  BY <1>1, <1>5 DEF CatchInv, HealthyMeans, Runs
<1> QED
  BY <1>6, <1>7, <1>8, <1>9 DEF CatchInv

(* What the assumptions exclude, and what no enabled, deployed service meets. *)
LEMMA CatchNever ==
  ASSUME BaseInv, CatchInv, CatchUpAssumed, NEW h \in Handler
  PROVE  /\ ~BuildRefused(h) /\ ~BuildThrows(h) /\ ~EnqueueThrows(h) /\ ~SendThrows(h)
         /\ ~EnableBuilt(h) /\ ~DisableSend(h) /\ ~RestartSend(h)
         /\ \A n \in Node : /\ ~HeartbeatDeploy(h, n) /\ ~HeartbeatUnsupported(h, n) /\ ~HeartbeatSkip(h, n)
                            /\ ~ConsoleEnable(h, n) /\ ~ConsoleDisable(h, n) /\ ~ConsoleRestart(h, n)
<1>1. /\ call[h].node \in Node /\ call[h].pc # "send"
      /\ call[h].pc \in {"queued", "read", "wrote", "back"} => call[h].job \in {"heartbeat", "access"}
      /\ \A n \in Node : service[n].enabled /\ service[n].status \in {"healthy", "attention"}
  BY CatchTypes DEF CatchInv, OnlyBuilds
<1>2. \A e \in {"enable", "restartService", "unlisted", "readFail", "opFail", "disable", "enqueueFail"} : ~Happens(e)
  BY DEF CatchUpAssumed, NoticeAssumed, Happens
<1>3. ~BuildRefused(h) /\ ~EnableBuilt(h)
  BY <1>1 DEF BuildRefused, EnableBuilt
<1>4. ~DisableSend(h) /\ ~RestartSend(h) /\ ~SendThrows(h)
  BY <1>1 DEF DisableSend, RestartSend, SendThrows
<1>5. ~BuildThrows(h)
  BY <1>1, <1>2 DEF BuildThrows
<1>6. ~EnqueueThrows(h)
  BY <1>2 DEF EnqueueThrows
<1>7. ASSUME NEW n \in Node
      PROVE  /\ ~HeartbeatDeploy(h, n) /\ ~HeartbeatUnsupported(h, n) /\ ~HeartbeatSkip(h, n)
             /\ ~ConsoleEnable(h, n) /\ ~ConsoleDisable(h, n) /\ ~ConsoleRestart(h, n)
  <2>1. ~HeartbeatDeploy(h, n) /\ ~HeartbeatUnsupported(h, n) /\ ~HeartbeatSkip(h, n)
    BY <1>1 DEF HeartbeatDeploy, HeartbeatUnsupported, HeartbeatSkip, Deployable
  <2>2. ~ConsoleEnable(h, n) /\ ~ConsoleDisable(h, n) /\ ~ConsoleRestart(h, n)
    BY <1>2 DEF ConsoleEnable, ConsoleDisable, ConsoleRestart
  <2> QED
    BY <2>1, <2>2
<1> QED
  BY <1>3, <1>4, <1>5, <1>6, <1>7

(* Every step keeps what a healthy service means. *)
LEMMA CatchStep ==
  ASSUME BaseInv, CatchInv, CatchUpAssumed, [Next]_vars
  PROVE  CatchInv'
<1>1. CASE UNCHANGED vars
  BY <1>1, CatchAside DEF vars, controllerMemory, database
<1>2. CASE AccessBoundary \/ QuotaEnds \/ QuotaMark \/ ChargeThrows \/ MinuteStart \/ MinuteMark \/ MinuteAbort
  BY <1>2, CatchAside DEF AccessBoundary, QuotaEnds, QuotaMark, ChargeThrows, MinuteStart, MinuteMark, MinuteAbort, controllerMemory, database
<1>3. CASE \E i \in DOMAIN tasks : RetryStale(i) \/ RetryFailed(i)
  BY <1>3, CatchRetry
<1>4. ASSUME NEW h \in Handler,
             BuildStep(h) \/ Return(h) \/ BuildThrows(h) \/ EnqueueThrows(h) \/ SendThrows(h) \/ ConsoleAccess(h)
      PROVE  CatchInv'
  BY <1>4, CatchNever, CatchBuild, CatchEnqueue, CatchAccess, CatchHeartEnds DEF BuildStep, Return
<1>5. ASSUME NEW h \in Handler, NEW n \in Node,
             HeartbeatStart(h, n) \/ ConsoleEnable(h, n) \/ ConsoleDisable(h, n) \/ ConsoleRestart(h, n)
      PROVE  CatchInv'
  <2>1. HeartbeatIdle(h, n) => CatchInv'
    BY CatchAside DEF HeartbeatIdle, vars, controllerMemory, database
  <2> QED
    BY <1>5, <2>1, CatchNever, CatchHeartStarts DEF HeartbeatStart
<1>6. ASSUME NEW n \in Node, SafetyInterval(n) \/ AdvertisedChanges(n) PROVE CatchInv'
  BY <1>6, CatchAside DEF SafetyInterval, AdvertisedChanges, controllerMemory, database
<1>7. ASSUME NEW n \in Node, Pull(n) \/ PullLost(n) \/ ApplyTask(n) \/ ApplyFails(n) \/ AgentCrash(n) PROVE CatchInv'
  BY <1>7, CatchPull, CatchApply, CatchCrash
<1>8. ASSUME NEW r \in results, Finish(r) PROVE CatchInv'
  BY <1>8, CatchSettles, CatchService, CatchObserved DEF Finish
<1>9. CASE Next
  BY <1>2, <1>3, <1>4, <1>5, <1>6, <1>7, <1>8, <1>9, CatchRestart DEF Next
<1> QED
  BY <1>1, <1>9

(* Once everything is quiet, a healthy service runs on its node exactly what the database says, or the    *)
(* node was given a task a second time, or a failed charge lost the mark of a change: for any number of   *)
(* nodes, peers, requests and changes, with tasks that fail, answers that are lost, agents that crash and *)
(* restarts of the Controller. It is assumed that nobody switches or redeploys the service, that no       *)
(* request outlives the Agent's timeout, and that the Controller neither stops nor fails between the two  *)
(* statements of one request; TLC finds the property false without any one of these (README, section 6).  *)
THEOREM NodesCatchUp ==
  ASSUME CatchUpAssumed
  PROVE  Spec => []QuietUnlessRedelivered
<1> USE DEF BaseInv
<1>1. Init => BaseInv /\ CatchInv
  BY TypeInit, NamingInit, OlderInit, NoticeInit, CatchInit DEF IInv, NamingInv, CatchUpAssumed
<1>2. RestartsKeep /\ NoticeAssumed
  BY DEF RestartsKeep, CatchUpAssumed, NoticeAssumed
<1>3. BaseInv /\ CatchInv /\ [Next]_vars => (BaseInv /\ CatchInv)'
  <2> SUFFICES ASSUME BaseInv, CatchInv, [Next]_vars PROVE (BaseInv /\ CatchInv)'
    OBVIOUS
  <2>1. IInv'
    BY TypeStep, NamingStep DEF IInv, NamingInv
  <2>2. OlderInv'
    BY <1>2, <2>1, OlderKept
  <2>3. NoticeInv'
    BY <1>2, NoticeStep
  <2>4. CatchInv'
    BY CatchStep
  <2> QED
    BY <2>1, <2>2, <2>3, <2>4
<1>4. BaseInv /\ CatchInv => QuietUnlessRedelivered
  BY CatchSuffices
<1> QED
  BY <1>1, <1>3, <1>4, PTL DEF Spec
=============================================================================

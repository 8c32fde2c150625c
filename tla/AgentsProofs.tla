---------------------------- MODULE AgentsProofs ----------------------------
(***************************************************************************)
(* Proofs about AgentLine for any number of pulls, port-check requests,    *)
(* ports, tasks and checks, and about NodeOperations for any number of     *)
(* node rows, machines, addresses and actions.                             *)
(***************************************************************************)
EXTENDS Agents, SequenceTheorems, WellFoundedInduction, TLAPS

(* A set of numbers has a least member, and Min finds it. *)
LEMMA LeastMember ==
  ASSUME NEW S \in SUBSET Nat, S # {}
  PROVE  Min(S) \in S
<1>1. PICK x \in S : \A y \in S : ~(<<y, x>> \in OpToRel(<, Nat))
  BY WFMin, NatLessThanWellFounded
<1>2. \A y \in S : x <= y
  <2>1. SUFFICES ASSUME NEW y \in S, y < x PROVE FALSE
    OBVIOUS
  <2>2. <<y, x>> \in OpToRel(<, Nat)
    BY <2>1 DEF OpToRel
  <2> QED
    BY <1>1, <2>2
<1> QED
  BY <1>1, <1>2 DEF Min

(* The task that Insert makes, the row that Claim takes and the task that RunTask runs. *)
LEMMA FirstTask ==
  ASSUME NEW S \in SUBSET Task, S # {}
  PROVE  Min(S) \in S /\ Min(S) \in Task
<1>1. S \in SUBSET Nat
  BY BoundAssumption DEF Task
<1> QED
  BY <1>1, LeastMember

-----------------------------------------------------------------------------
(* Types. *)

LEMMA TypeInit == Init => TypeOK
BY BoundAssumption DEF Init, TypeOK, NoPull, NoReport, IdleAgent, Task, Check, ServiceRow, TaskRow, PullRow, AgentRow,
   ReportRow, CheckRow, ReachRow

(* What is pending is a task, and the next check is one that was never started. *)
LEMMA PendingTasks == Pending \in SUBSET Task
BY DEF Pending

LEMMA NextCheckIsFree ==
  ASSUME \E c \in Check : checks[c].st = "none"
  PROVE  NextCheck \in Check
<1> DEFINE Free == {c \in Check : checks[c].st = "none"}
<1>1. Free \in SUBSET Nat /\ Free # {}
  BY BoundAssumption DEF Check
<1>2. PICK x \in Free : \A y \in Free : ~(<<y, x>> \in OpToRel(<, Nat))
  BY <1>1, WFMin, NatLessThanWellFounded
<1>3. \A d \in Check : d < x => checks[d].st # "none"
  <2>1. SUFFICES ASSUME NEW d \in Check, d < x, d \in Free PROVE FALSE
    OBVIOUS
  <2>2. <<d, x>> \in OpToRel(<, Nat)
    BY <1>1, <2>1 DEF OpToRel
  <2> QED
    BY <1>2, <2>1, <2>2
<1> QED
  BY <1>2, <1>3 DEF NextCheck

LEMMA IdleRows == NoPull \in PullRow /\ NoReport \in ReportRow /\ IdleAgent \in AgentRow
BY DEF NoPull, NoReport, IdleAgent, PullRow, ReportRow, AgentRow

(* A wake leaves the pulls in order. *)
LEMMA WakeTypes ==
  ASSUME TypeOK, WakeAgent
  PROVE  pulls' \in [Handler -> PullRow] /\ waiting' = {} /\ missed' \in [Handler -> SUBSET Task]
<1>1. ASSUME NEW h \in Handler PROVE [pulls[h] EXCEPT !.pc = "select", !.again = TRUE] \in PullRow
  <2>1. pulls[h] \in PullRow
    BY DEF TypeOK
  <2>2. PICK pull : pull = pulls[h]
    OBVIOUS
  <2>3. pull \in PullRow
    BY <2>1, <2>2
  <2>4. [pull EXCEPT !.pc = "select", !.again = TRUE] \in PullRow
    BY <2>3 DEF PullRow
  <2> QED
    BY <2>2, <2>4
<1> QED
  BY <1>1 DEF WakeAgent, TypeOK

LEMMA TypeStep == TypeOK /\ [Next]_vars => TypeOK'
<1> SUFFICES ASSUME TypeOK, [Next]_vars PROVE TypeOK'
  OBVIOUS
<1> USE DEF TypeOK, tasking, polling, probing, network
<1>1. CASE Switch
  BY <1>1 DEF Switch, ServiceRow
<1>2. CASE Insert
  <2>1. [st |-> "pending", disables |-> ~service.on] \in TaskRow
    BY DEF TaskRow
  <2> QED
    BY <1>2, <2>1 DEF Insert
<1>3. CASE Wake
  BY <1>3, WakeTypes, PendingTasks DEF Wake
<1>4. ASSUME NEW h \in Handler, Ask(h) PROVE TypeOK'
  <2>1. [pulls[h] EXCEPT !.pc = "claim", !.rows = Pending] \in PullRow
    <3>1. pulls[h] \in PullRow /\ Pending \in SUBSET Task
      BY PendingTasks
    <3> QED
      BY <3>1 DEF PullRow
  <2>2. [agent EXCEPT !.pc = "asking", !.asks = h] \in AgentRow
    BY DEF AgentRow
  <2> QED
    BY <1>4, <2>1, <2>2 DEF Ask
<1>5. ASSUME NEW h \in Handler, Select(h) PROVE TypeOK'
  <2>1. [pulls[h] EXCEPT !.pc = "claim", !.rows = Pending] \in PullRow
    <3>1. pulls[h] \in PullRow /\ Pending \in SUBSET Task
      BY PendingTasks
    <3> QED
      BY <3>1 DEF PullRow
  <2> QED
    BY <1>5, <2>1 DEF Select
<1>6. ASSUME NEW h \in Handler, Claim(h) PROVE TypeOK'
  <2> DEFINE t == Min(pulls[h].rows)
  <2>1. pulls[h].rows \in SUBSET Task
    BY DEF PullRow
  <2>2. t \in Task
    BY <1>6, <2>1, FirstTask DEF Claim
  <2>3. [pulls[h] EXCEPT !.rows = @ \ {t}, !.got = @ \union {t}] \in PullRow
        /\ [pulls[h] EXCEPT !.rows = @ \ {t}] \in PullRow
    BY <2>2 DEF PullRow
  <2>4. [tasks[t] EXCEPT !.st = "running"] \in TaskRow
    BY <2>2 DEF TaskRow
  <2>5. pulls' \in [Handler -> PullRow]
    BY <1>6, <2>3 DEF Claim
  <2>6. tasks' \in [Task -> TaskRow]
    BY <1>6, <2>2, <2>4 DEF Claim
  <2> QED
    BY <1>6, <2>5, <2>6 DEF Claim
<1>7. ASSUME NEW h \in Handler, Take(h) PROVE TypeOK'
  <2> DEFINE c == IF current # 0 /\ checks[current].st = "waiting" THEN current ELSE 0
  <2>1. c \in Check \union {0} /\ (c # 0 => c \in Check)
    OBVIOUS
  <2>2. c # 0 => [checks[c] EXCEPT !.st = "counting"] \in CheckRow
    BY <2>1 DEF CheckRow
  <2>3. [pulls[h] EXCEPT !.pc = "wait"] \in PullRow /\ [pulls[h] EXCEPT !.pc = "answer", !.check = c] \in PullRow
    BY <2>1 DEF PullRow
  <2>4. Pending \intersect woken \in SUBSET Task
    OBVIOUS
  <2>5. /\ checks' = IF c = 0 THEN checks ELSE [checks EXCEPT ![c].st = "counting"]
        /\ \/ /\ pulls' = [pulls EXCEPT ![h].pc = "wait"] /\ waiting' = waiting \union {h}
              /\ missed' = [missed EXCEPT ![h] = Pending \intersect woken]
           \/ pulls' = [pulls EXCEPT ![h].pc = "answer", ![h].check = c] /\ UNCHANGED <<waiting, missed>>
        /\ UNCHANGED <<tasking, agent, report, current, starting, reach, network, events>>
    BY <1>7 DEF Take
  <2> HIDE DEF c
  <2>6. checks' \in [Check -> CheckRow]
    BY <2>1, <2>2, <2>5
  <2>7. pulls' \in [Handler -> PullRow] /\ waiting' \subseteq Handler /\ missed' \in [Handler -> SUBSET Task]
    BY <2>3, <2>4, <2>5
  <2> QED
    BY <2>5, <2>6, <2>7
<1>8. ASSUME NEW h \in Handler, Answer(h) PROVE TypeOK'
  <2>1. [pc |-> "busy", asks |-> "none", tasks |-> pulls[h].got, check |-> pulls[h].check] \in AgentRow
    BY DEF PullRow, AgentRow
  <2> QED
    BY <1>8, <2>1, IdleRows DEF Answer
<1>9. ASSUME NEW h \in Handler, StopWaiting(h) PROVE TypeOK'
  <2>1. [pulls[h] EXCEPT !.pc = "select", !.again = TRUE] \in PullRow
    BY DEF PullRow
  <2> QED
    BY <1>9, <2>1 DEF StopWaiting, Forgotten
<1>10. CASE Disconnect
  BY <1>10, IdleRows DEF Disconnect
<1>11. CASE RunTask
  <2>1. agent.tasks \in SUBSET Task
    BY DEF AgentRow
  <2>2. Min(agent.tasks) \in Task
    BY <1>11, <2>1, FirstTask DEF RunTask
  <2>3. [NoReport EXCEPT !.pc = "finish", !.task = Min(agent.tasks)] \in ReportRow
    BY <2>2 DEF NoReport, ReportRow
  <2>4. [agent EXCEPT !.tasks = @ \ {Min(agent.tasks)}] \in AgentRow
    BY DEF AgentRow
  <2> QED
    BY <1>11, <2>3, <2>4 DEF RunTask
<1>12. CASE Handled
  BY <1>12, IdleRows DEF Handled
<1>13. CASE Finish
  <2>1. ASSUME report.task \in Task PROVE [tasks[report.task] EXCEPT !.st = "done"] \in TaskRow
    BY <2>1 DEF TaskRow
  <2>2. [report EXCEPT !.pc = "read"] \in ReportRow
    BY DEF ReportRow
  <2> QED
    BY <1>13, <2>1, <2>2 DEF Finish
<1>14. CASE ReadService
  <2>1. [report EXCEPT !.pc = "write", !.on = service.on] \in ReportRow
    BY DEF ReportRow, ServiceRow
  <2> QED
    BY <1>14, <2>1 DEF ReadService
<1>15. CASE WriteStatus
  <2>1. [service EXCEPT !.status = IF tasks[report.task].disables THEN "disabled" ELSE "healthy"] \in ServiceRow
    BY DEF ServiceRow
  <2> QED
    BY <1>15, <2>1, IdleRows DEF WriteStatus
<1>16. ASSUME NEW t \in Task, GiveBack(t) PROVE TypeOK'
  <2>1. [tasks[t] EXCEPT !.st = "pending"] \in TaskRow
    BY DEF TaskRow
  <2> QED
    BY <1>16, <2>1 DEF GiveBack
<1>17. ASSUME NEW s \in Console, StartPortCheck(s) PROVE TypeOK'
  BY <1>17 DEF StartPortCheck
<1>18. ASSUME NEW s \in Console, StoreCheck(s) PROVE TypeOK'
  <2>1. [st |-> "waiting", sender |-> "lookup"] \in CheckRow
    BY DEF CheckRow
  <2>2. CASE \E c \in Check : checks[c].st = "none"
    BY <1>18, <2>1, <2>2, NextCheckIsFree, WakeTypes DEF StoreCheck
  <2>3. CASE ~ \E c \in Check : checks[c].st = "none"
    BY <1>18, <2>3 DEF StoreCheck
  <2> QED
    BY <2>2, <2>3
<1>19. ASSUME NEW c \in Check, Lookup(c) PROVE TypeOK'
  <2>1. [checks[c] EXCEPT !.sender = "on"] \in CheckRow /\ [checks[c] EXCEPT !.sender = "never"] \in CheckRow
    BY DEF CheckRow
  <2> QED
    BY <1>19, <2>1 DEF Lookup
<1>20. ASSUME NEW c \in Check, StopSending(c) PROVE TypeOK'
  <2>1. [st |-> IF Unanswered(c) THEN "failed" ELSE checks[c].st, sender |-> "off"] \in CheckRow
    BY DEF CheckRow
  <2> QED
    BY <1>20, <2>1 DEF StopSending
<1>21. ASSUME NEW lost \in BOOLEAN, Count(lost) PROVE TypeOK'
  <2>1. [agent EXCEPT !.check = 0] \in AgentRow
    BY DEF AgentRow
  <2>2. agent.check \in Check => [checks[agent.check] EXCEPT !.st = "done"] \in CheckRow
    BY DEF CheckRow
  <2>3. \A open : [p \in Port |-> [check |-> IF p \in open THEN "open" ELSE "closed", app |-> FALSE]] \in [Port -> ReachRow]
    BY DEF ReachRow
  <2>4. ASSUME NEW open, Record(agent.check, open)
        PROVE  reach' \in [Port -> ReachRow] /\ checks' \in [Check -> CheckRow]
    BY <2>2, <2>3, <2>4 DEF Record
  <2>5. reach' \in [Port -> ReachRow] /\ checks' \in [Check -> CheckRow]
    BY <1>21, <2>4 DEF Count
  <2> QED
    BY <1>21, <2>1, <2>5 DEF Count
<1>22. ASSUME NEW p \in Port, AppProbe(p) PROVE TypeOK'
  <2>1. [reach[p] EXCEPT !.app = TRUE] \in ReachRow
    BY DEF ReachRow
  <2> QED
    BY <1>22, <2>1 DEF AppProbe
<1>23. ASSUME NEW p \in Port, BlockOrOpen(p) PROVE TypeOK'
  BY <1>23 DEF BlockOrOpen
<1>24. CASE AgentRestarts
  BY <1>24, IdleRows DEF AgentRestarts
<1>25. CASE ControllerRestarts
  <2>1. ASSUME NEW c \in Check
        PROVE  [st |-> "failed", sender |-> "off"] \in CheckRow /\ [checks[c] EXCEPT !.sender = "off"] \in CheckRow
    BY DEF CheckRow
  <2> QED
    BY <1>25, <2>1, IdleRows DEF ControllerRestarts
<1>26. CASE UNCHANGED vars
  BY <1>26 DEF vars
<1> QED
  BY <1>1, <1>2, <1>3, <1>4, <1>5, <1>6, <1>7, <1>8, <1>9, <1>10, <1>11, <1>12, <1>13, <1>14, <1>15, <1>16, <1>17,
     <1>18, <1>19, <1>20, <1>21, <1>22, <1>23, <1>24, <1>25, <1>26 DEF Next, PullSteps, ReportSteps

(* Types hold, whatever interleaves. *)
THEOREM LineTyped == Spec => []TypeOK
BY TypeInit, TypeStep, PTL DEF Spec

-----------------------------------------------------------------------------
(* SleepersAreWoken. *)

(* The listeners are the pulls that wait, and no task is announced before it is made. *)
Listening == waiting = {h \in Handler : pulls[h].pc = "wait"}
KnownTasks == woken \subseteq Created
WakeInv == Listening /\ KnownTasks /\ SleepersAreWoken

LEMMA WakeInit == Init => WakeInv
BY DEF Init, WakeInv, Listening, KnownTasks, SleepersAreWoken, Created, NoPull

(* A wake leaves nobody asleep. *)
LEMMA NobodySleeps ==
  ASSUME TypeOK, Listening, WakeAgent
  PROVE  Listening' /\ \A h \in Handler : pulls'[h].pc # "wait"
<1>1. ASSUME NEW h \in Handler PROVE pulls'[h].pc # "wait"
  <2>1. CASE h \in waiting
    <3>1. pulls'[h].pc = "select"
      BY <2>1 DEF WakeAgent, TypeOK, PullRow
    <3> QED
      BY <3>1
  <2>2. CASE h \notin waiting
    BY <2>2 DEF WakeAgent, Listening
  <2> QED
    BY <2>1, <2>2
<1> QED
  BY <1>1 DEF WakeAgent, Listening

(* A step that wakes nobody new, makes no announced task pending and ends no wait but by forgetting it. *)
LEMMA StaysAsleep ==
  ASSUME TypeOK, WakeInv, woken' \subseteq woken,
         \A t \in Task : tasks'[t].st = "pending" /\ t \in woken' => tasks[t].st = "pending",
         \A t \in Task : tasks[t].st # "none" => tasks'[t].st # "none",
         UNCHANGED waiting, UNCHANGED missed, \A h \in Handler : pulls'[h].pc = "wait" <=> pulls[h].pc = "wait"
  PROVE  WakeInv'
BY DEF TypeOK, WakeInv, Listening, KnownTasks, SleepersAreWoken, Created, Pending

LEMMA WakeStep == TypeOK /\ WakeInv /\ [Next]_vars => WakeInv'
<1> SUFFICES ASSUME TypeOK, WakeInv, [Next]_vars PROVE WakeInv'
  OBVIOUS
<1> USE DEF tasking, polling, probing, network
<1>a. ASSUME UNCHANGED <<tasks, woken, polling>> PROVE WakeInv'
  BY <1>a, StaysAsleep
<1>1. CASE Switch
  BY <1>1, <1>a DEF Switch
<1>2. CASE Insert
  <2> DEFINE t == Min(Task \ Created)
  <2>1. t \in Task \ Created
    BY <1>2, FirstTask DEF Created, Insert
  <2>2. \A u \in Task : tasks'[u].st = "pending" /\ u \in woken => tasks[u].st = "pending"
    BY <1>2, <2>1 DEF Insert, TypeOK, WakeInv, KnownTasks, Created
  <2>3. \A u \in Task : tasks[u].st # "none" => tasks'[u].st # "none"
    BY <1>2, <2>1 DEF Insert, TypeOK
  <2> QED
    BY <1>2, <2>2, <2>3, StaysAsleep DEF Insert
<1>3. CASE Wake
  <2>1. Listening' /\ \A h \in Handler : pulls'[h].pc # "wait"
    BY <1>3, NobodySleeps DEF Wake, WakeInv
  <2>2. KnownTasks'
    BY <1>3 DEF Wake, KnownTasks, Created, Pending
  <2> QED
    BY <2>1, <2>2 DEF WakeInv, SleepersAreWoken
<1>4. ASSUME NEW h \in Handler, Ask(h) PROVE WakeInv'
  <2>1. \A g \in Handler : pulls'[g].pc = "wait" <=> pulls[g].pc = "wait"
    BY <1>4 DEF Ask, TypeOK, PullRow
  <2> QED
    BY <1>4, <2>1, StaysAsleep DEF Ask
<1>5. ASSUME NEW h \in Handler, Select(h) PROVE WakeInv'
  <2>1. \A g \in Handler : pulls'[g].pc = "wait" <=> pulls[g].pc = "wait"
    BY <1>5 DEF Select, TypeOK, PullRow
  <2> QED
    BY <1>5, <2>1, StaysAsleep DEF Select
<1>6. ASSUME NEW h \in Handler, Claim(h) PROVE WakeInv'
  <2> DEFINE t == Min(pulls[h].rows)
  <2>1. \A g \in Handler : pulls'[g].pc = "wait" <=> pulls[g].pc = "wait"
    BY <1>6 DEF Claim, TypeOK, PullRow
  <2>0. tasks' = tasks \/ (t \in Pending /\ tasks' = [tasks EXCEPT ![t].st = "running"])
    BY <1>6 DEF Claim
  <2> HIDE DEF t
  <2>2. \A u \in Task : tasks'[u].st = "pending" => tasks[u].st = "pending"
    BY <2>0 DEF TypeOK, TaskRow, Pending
  <2>3. \A u \in Task : tasks[u].st # "none" => tasks'[u].st # "none"
    BY <2>0 DEF TypeOK, TaskRow, Pending
  <2> QED
    BY <1>6, <2>1, <2>2, <2>3, StaysAsleep DEF Claim
<1>7. ASSUME NEW h \in Handler, Take(h) PROVE WakeInv'
  <2> DEFINE c == IF current # 0 /\ checks[current].st = "waiting" THEN current ELSE 0
  <2>1. CASE Waits(h, c)
    <3>1. /\ pulls[h].pc = "claim" /\ pulls' = [pulls EXCEPT ![h].pc = "wait"] /\ waiting' = waiting \union {h}
          /\ missed' = [missed EXCEPT ![h] = Pending \intersect woken] /\ UNCHANGED <<tasks, woken>>
      BY <1>7, <2>1 DEF Take
    <3>2. pulls'[h].pc = "wait" /\ \A g \in Handler : g # h => pulls'[g] = pulls[g]
      BY <3>1 DEF TypeOK, PullRow
    <3>3. missed'[h] = Pending \intersect woken /\ \A g \in Handler : g # h => missed'[g] = missed[g]
      BY <3>1 DEF TypeOK
    <3> QED
      BY <3>1, <3>2, <3>3 DEF WakeInv, Listening, KnownTasks, SleepersAreWoken, Created, Pending
  <2>2. CASE ~Waits(h, c)
    <3>1. pulls[h].pc = "claim" /\ pulls' = [pulls EXCEPT ![h].pc = "answer", ![h].check = c]
          /\ UNCHANGED <<tasks, woken, waiting, missed>>
      BY <1>7, <2>2 DEF Take
    <3>2. \A g \in Handler : pulls'[g].pc = "wait" <=> pulls[g].pc = "wait"
      BY <3>1 DEF TypeOK, PullRow
    <3> QED
      BY <3>1, <3>2, StaysAsleep
  <2> QED
    BY <2>1, <2>2
<1>8. ASSUME NEW h \in Handler, Answer(h) PROVE WakeInv'
  <2>1. \A g \in Handler : pulls'[g].pc = "wait" <=> pulls[g].pc = "wait"
    BY <1>8 DEF Answer, NoPull, TypeOK, PullRow
  <2> QED
    BY <1>8, <2>1, StaysAsleep DEF Answer
<1>9. ASSUME NEW h \in Handler, StopWaiting(h) PROVE WakeInv'
  <2>1. pulls'[h].pc = "select" /\ \A g \in Handler : g # h => pulls'[g] = pulls[g]
    BY <1>9 DEF StopWaiting, TypeOK, PullRow
  <2>2. waiting' = waiting \ {h} /\ (\A g \in Handler : g # h => missed'[g] = missed[g]) /\ UNCHANGED <<tasks, woken>>
    BY <1>9 DEF StopWaiting, Forgotten, TypeOK
  <2> QED
    BY <2>1, <2>2 DEF WakeInv, Listening, KnownTasks, SleepersAreWoken, Created, Pending
<1>10. CASE Disconnect
  BY <1>10, <1>a DEF Disconnect
<1>11. CASE RunTask
  BY <1>11, <1>a DEF RunTask
<1>12. CASE Handled
  BY <1>12, <1>a DEF Handled
<1>13. CASE Finish
  <2>1. \A u \in Task : tasks'[u].st = "pending" => tasks[u].st = "pending"
    BY <1>13 DEF Finish, TypeOK
  <2>2. \A u \in Task : tasks[u].st # "none" => tasks'[u].st # "none"
    BY <1>13 DEF Finish, TypeOK
  <2> QED
    BY <1>13, <2>1, <2>2, StaysAsleep DEF Finish
<1>14. CASE ReadService
  BY <1>14, <1>a DEF ReadService
<1>15. CASE WriteStatus
  BY <1>15, <1>a DEF WriteStatus
<1>16. ASSUME NEW t \in Task, GiveBack(t) PROVE WakeInv'
  <2>1. woken' = woken \ {t} /\ \A u \in Task : u # t => tasks'[u] = tasks[u]
    BY <1>16 DEF GiveBack, TypeOK
  <2>2. \A u \in Task : tasks[u].st # "none" => tasks'[u].st # "none"
    BY <1>16 DEF GiveBack, TypeOK
  <2> QED
    BY <1>16, <2>1, <2>2, StaysAsleep DEF GiveBack
<1>17. ASSUME NEW s \in Console, StartPortCheck(s) PROVE WakeInv'
  BY <1>17, <1>a DEF StartPortCheck
<1>18. ASSUME NEW s \in Console, StoreCheck(s) PROVE WakeInv'
  <2>1. CASE WakeAgent
    <3>1. Listening' /\ \A h \in Handler : pulls'[h].pc # "wait"
      BY <2>1, NobodySleeps DEF WakeInv
    <3> QED
      BY <1>18, <3>1 DEF StoreCheck, WakeInv, KnownTasks, Created, SleepersAreWoken
  <2>2. CASE UNCHANGED polling
    BY <1>18, <2>2, <1>a DEF StoreCheck
  <2> QED
    BY <1>18, <2>1, <2>2 DEF StoreCheck
<1>19. ASSUME NEW c \in Check, Lookup(c) PROVE WakeInv'
  BY <1>19, <1>a DEF Lookup
<1>20. ASSUME NEW c \in Check, StopSending(c) PROVE WakeInv'
  BY <1>20, <1>a DEF StopSending
<1>21. ASSUME NEW lost \in BOOLEAN, Count(lost) PROVE WakeInv'
  BY <1>21, <1>a DEF Count
<1>22. ASSUME NEW p \in Port, AppProbe(p) PROVE WakeInv'
  BY <1>22, <1>a DEF AppProbe
<1>23. ASSUME NEW p \in Port, BlockOrOpen(p) PROVE WakeInv'
  BY <1>23, <1>a DEF BlockOrOpen
<1>24. CASE AgentRestarts
  BY <1>24, <1>a DEF AgentRestarts
<1>25. CASE ControllerRestarts
  BY <1>25 DEF ControllerRestarts, WakeInv, Listening, KnownTasks, SleepersAreWoken, Created, NoPull
<1>26. CASE UNCHANGED vars
  BY <1>26, <1>a DEF vars
<1> QED
  BY <1>1, <1>2, <1>3, <1>4, <1>5, <1>6, <1>7, <1>8, <1>9, <1>10, <1>11, <1>12, <1>13, <1>14, <1>15, <1>16, <1>17,
     <1>18, <1>19, <1>20, <1>21, <1>22, <1>23, <1>24, <1>25, <1>26 DEF Next, PullSteps, ReportSteps

(* agent-wake.ts: a pull never sleeps on work that was announced after it began to listen. *)
THEOREM WakesReach == Spec => []SleepersAreWoken
<1>1. Spec => []WakeInv
  BY LineTyped, WakeInit, WakeStep, PTL DEF Spec
<1>2. WakeInv => SleepersAreWoken
  BY DEF WakeInv
<1> QED
  BY <1>1, <1>2, PTL
-----------------------------------------------------------------------------
(* ClosedMeansBlocked. *)

(* A check that has not ended is being sent for, or soon will be. *)
Sending == \A c \in Check : checks[c].st \in {"waiting", "counting"} => checks[c].sender \in {"lookup", "on"}
(* What the node's row calls closed was blocked at some time, as is all that is blocked now. *)
Measured == blocked \subseteq everBlocked /\ \A p \in Port : reach[p].check = "closed" => p \in everBlocked
ProbeInv == Sending /\ Measured

LEMMA ProbeInit == Init => ProbeInv
BY DEF Init, ProbeInv, Sending, Measured

(* One check changes: Sending is that check's matter. *)
LEMMA OneCheck ==
  ASSUME TypeOK, Sending, NEW c \in Check, NEW new, checks' = [checks EXCEPT ![c] = new],
         new.st \in {"waiting", "counting"} => new.sender \in {"lookup", "on"}
  PROVE  Sending'
<1>1. ASSUME NEW d \in Check, checks'[d].st \in {"waiting", "counting"} PROVE checks'[d].sender \in {"lookup", "on"}
  <2>1. CASE d = c
    <3>1. checks'[d] = new
      BY <2>1 DEF TypeOK
    <3> QED
      BY <1>1, <3>1
  <2>2. CASE d # c
    <3>1. checks'[d] = checks[d]
      BY <2>2 DEF TypeOK
    <3> QED
      BY <1>1, <3>1 DEF Sending
  <2> QED
    BY <2>1, <2>2
<1> QED
  BY <1>1 DEF Sending

LEMMA ProbeStep == TypeOK /\ ProbeInv /\ LookupFails = FALSE /\ [Next]_vars => ProbeInv'
<1> SUFFICES ASSUME TypeOK, ProbeInv, LookupFails = FALSE, [Next]_vars PROVE ProbeInv'
  OBVIOUS
<1> USE DEF tasking, polling, probing, network
<1>a. ASSUME UNCHANGED <<checks, reach, network>> PROVE ProbeInv'
  BY <1>a DEF ProbeInv, Sending, Measured
<1>b. ASSUME UNCHANGED <<reach, network>> PROVE Measured'
  BY <1>b DEF ProbeInv, Measured
<1>1. CASE Switch \/ Insert \/ Wake \/ Disconnect \/ RunTask \/ Handled \/ ReportSteps \/ AgentRestarts
  BY <1>1, <1>a DEF Switch, Insert, Wake, Disconnect, RunTask, Handled, ReportSteps, Finish, ReadService, WriteStatus, AgentRestarts
<1>2. ASSUME NEW h \in Handler, Ask(h) \/ Select(h) \/ Claim(h) \/ StopWaiting(h) \/ Answer(h) PROVE ProbeInv'
  BY <1>2, <1>a DEF Ask, Select, Claim, StopWaiting, Answer
<1>3. ASSUME NEW h \in Handler, Take(h) PROVE ProbeInv'
  <2> DEFINE c == IF current # 0 /\ checks[current].st = "waiting" THEN current ELSE 0
  <2>1. Measured'
    BY <1>3, <1>b DEF Take
  <2>2. CASE c = 0
    BY <1>3, <2>1, <2>2 DEF Take, ProbeInv, Sending
  <2>3. CASE c # 0
    <3>1. c \in Check /\ checks[c].st = "waiting" /\ checks' = [checks EXCEPT ![c] = [checks[c] EXCEPT !.st = "counting"]]
      BY <1>3, <2>3 DEF Take, TypeOK
    <3>2. checks[c].sender \in {"lookup", "on"} /\ [checks[c] EXCEPT !.st = "counting"].sender = checks[c].sender
      BY <3>1 DEF ProbeInv, Sending, TypeOK, CheckRow
    <3> QED
      BY <2>1, <3>1, <3>2, OneCheck DEF ProbeInv
  <2> QED
    BY <2>2, <2>3
<1>4. ASSUME NEW t \in Task, GiveBack(t) PROVE ProbeInv'
  BY <1>4, <1>a DEF GiveBack
<1>5. ASSUME NEW s \in Console, StartPortCheck(s) PROVE ProbeInv'
  BY <1>5, <1>a DEF StartPortCheck
<1>6. ASSUME NEW s \in Console, StoreCheck(s) PROVE ProbeInv'
  <2>1. Measured'
    BY <1>6, <1>b DEF StoreCheck
  <2>2. CASE \E c \in Check : checks[c].st = "none"
    <3>1. NextCheck \in Check /\ checks' = [checks EXCEPT ![NextCheck] = [st |-> "waiting", sender |-> "lookup"]]
      BY <1>6, <2>2, NextCheckIsFree DEF StoreCheck
    <3> QED
      BY <2>1, <3>1, OneCheck DEF ProbeInv
  <2>3. CASE ~\E c \in Check : checks[c].st = "none"
    BY <1>6, <2>1, <2>3 DEF StoreCheck, ProbeInv, Sending
  <2> QED
    BY <2>2, <2>3
<1>7. ASSUME NEW c \in Check, Lookup(c) PROVE ProbeInv'
  <2>1. Measured'
    BY <1>7, <1>b DEF Lookup
  <2>2. checks' = [checks EXCEPT ![c] = [checks[c] EXCEPT !.sender = "on"]]
    BY <1>7 DEF Lookup
  <2>3. [checks[c] EXCEPT !.sender = "on"].sender = "on"
    BY DEF TypeOK, CheckRow
  <2> QED
    BY <2>1, <2>2, <2>3, OneCheck DEF ProbeInv
<1>8. ASSUME NEW c \in Check, StopSending(c) PROVE ProbeInv'
  <2>1. Measured'
    BY <1>8, <1>b DEF StopSending
  <2> QED
    BY <1>8, <2>1, OneCheck DEF StopSending, Unanswered, ProbeInv
<1>9. ASSUME NEW lost \in BOOLEAN, Count(lost) PROVE ProbeInv'
  <2> DEFINE c == agent.check
             open == IF checks[c].sender = "on" THEN Port \ blocked ELSE {}
  <2>1. CASE Accepts(c) /\ ~lost
    <3>1. c \in Check /\ checks[c].st = "counting" /\ checks[c].sender = "on"
      BY <1>9, <2>1 DEF Count, Accepts, TypeOK, AgentRow, ProbeInv, Sending
    <3>2. /\ reach' = [p \in Port |-> [check |-> IF p \in Port \ blocked THEN "open" ELSE "closed", app |-> FALSE]]
          /\ checks' = [checks EXCEPT ![c] = [checks[c] EXCEPT !.st = "done"]] /\ UNCHANGED network
      BY <1>9, <2>1, <3>1 DEF Count, Record
    <3>3. [checks[c] EXCEPT !.st = "done"].st = "done"
      BY <3>1 DEF TypeOK, CheckRow
    <3>4. Sending'
      BY <3>1, <3>2, <3>3, OneCheck DEF ProbeInv
    <3>5. Measured'
      BY <3>2 DEF ProbeInv, Measured
    <3> QED
      BY <3>4, <3>5 DEF ProbeInv
  <2>2. CASE ~(Accepts(c) /\ ~lost)
    BY <1>9, <2>2, <1>a DEF Count
  <2> QED
    BY <2>1, <2>2
<1>10. ASSUME NEW p \in Port, AppProbe(p) PROVE ProbeInv'
  <2>1. \A q \in Port : reach'[q].check = reach[q].check
    BY <1>10 DEF AppProbe, TypeOK, ReachRow
  <2> QED
    BY <1>10, <2>1 DEF AppProbe, ProbeInv, Sending, Measured
<1>11. ASSUME NEW p \in Port, BlockOrOpen(p) PROVE ProbeInv'
  BY <1>11 DEF BlockOrOpen, ProbeInv, Sending, Measured
<1>12. CASE ControllerRestarts
  <2>1. Measured'
    BY <1>12, <1>b DEF ControllerRestarts
  <2>2. ASSUME NEW d \in Check PROVE checks'[d].st \notin {"waiting", "counting"}
    <3>1. CASE Running(d)
      BY <1>12, <3>1 DEF ControllerRestarts
    <3>2. CASE ~Running(d)
      <4>1. checks'[d] = [checks[d] EXCEPT !.sender = "off"]
        BY <1>12, <3>2 DEF ControllerRestarts
      <4>2. checks'[d].st = checks[d].st /\ d # 0
        BY <4>1 DEF TypeOK, CheckRow, Check
      <4> QED
        BY <3>2, <4>2 DEF Running
    <3> QED
      BY <3>1, <3>2
  <2> QED
    BY <2>1, <2>2 DEF ProbeInv, Sending
<1>13. CASE UNCHANGED vars
  BY <1>13, <1>a DEF vars
<1> QED
  BY <1>1, <1>2, <1>3, <1>4, <1>5, <1>6, <1>7, <1>8, <1>9, <1>10, <1>11, <1>12, <1>13 DEF Next, PullSteps

(* A port shown as closed was closed at some time since the line began, whichever check the Agent answered and     *)
(* however late, as long as the node's host name resolves.                                                          *)
THEOREM ClosedWasClosed == LookupFails = FALSE /\ Spec => []ClosedMeansBlocked
<1>1. Spec => []TypeOK
  BY LineTyped
<1>2. ProbeInv => ClosedMeansBlocked
  BY DEF ProbeInv, Measured, ClosedMeansBlocked, PortStatus
<1>3. ASSUME LookupFails = FALSE PROVE TypeOK /\ ProbeInv /\ [Next]_vars => ProbeInv'
  BY <1>3, ProbeStep
<1>4. ASSUME LookupFails = FALSE PROVE Spec => []ClosedMeansBlocked
  BY <1>1, <1>2, <1>3, <1>4, ProbeInit, PTL DEF Spec
<1> QED
  BY <1>4

(* The check that runs has a sender that will end it, under the same condition: no check blocks the next for good. *)
THEOREM ChecksAreSent == LookupFails = FALSE /\ Spec => []ChecksEnd
<1>1. TypeOK /\ ProbeInv => ChecksEnd
  BY DEF ProbeInv, Sending, ChecksEnd, Running, TypeOK
<1>2. ASSUME LookupFails = FALSE PROVE TypeOK /\ ProbeInv /\ [Next]_vars => ProbeInv'
  BY <1>2, ProbeStep
<1>3. ASSUME LookupFails = FALSE PROVE Spec => []ChecksEnd
  BY <1>1, <1>2, <1>3, ProbeInit, LineTyped, PTL DEF Spec
<1> QED
  BY <1>3

-----------------------------------------------------------------------------
(* StatusMatchesSwitch. *)

Wrong == service.status = (IF service.on THEN "disabled" ELSE "healthy")
(* A task that will still set the status right: it is open, or its report is, read before the next switch. *)
Carries(t) ==
  /\ tasks[t].disables = ~service.on
  /\ \/ tasks[t].st \in {"pending", "running"}
     \/ report.task = t /\ report.pc = "read"
     \/ report.task = t /\ report.pc = "write" /\ report.on = service.on
Pledge == switching \in {"insert", "cut"} \/ \E t \in Task : Carries(t)
(* A status that is wrong, or about to be written from a row that was switched since, is not the last word. *)
Owed == Wrong \/ (report.pc = "write" /\ report.on # service.on) => Pledge

LEMMA OwedInit == Init => Owed
BY DEF Init, Owed, Wrong, NoReport

LEMMA OwedStep == TypeOK /\ Owed /\ [Next]_vars => Owed'
<1> SUFFICES ASSUME TypeOK, Owed, [Next]_vars PROVE Owed'
  OBVIOUS
<1> USE DEF tasking, polling, probing, network
<1>a. ASSUME UNCHANGED <<service, tasks, switching, report>> PROVE Owed'
  BY <1>a DEF Owed, Wrong, Pledge, Carries
<1>1. CASE Switch
  <2>1. switching' = "insert"
    BY <1>1 DEF Switch
  <2> QED
    BY <2>1 DEF Owed, Pledge
<1>2. CASE Insert
  <2>1. PICK u \in Task : tasks' = [tasks EXCEPT ![u] = [st |-> "pending", disables |-> ~service.on]]
    BY <1>2, FirstTask DEF Created, Insert
  <2>2. tasks'[u] = [st |-> "pending", disables |-> ~service.on] /\ service' = service
    BY <1>2, <2>1 DEF Insert, TypeOK
  <2>3. Carries(u)'
    BY <2>2 DEF Carries
  <2> QED
    BY <2>1, <2>3 DEF Owed, Pledge
<1>3. CASE Wake
  BY <1>3 DEF Wake, Owed, Wrong, Pledge, Carries
<1>4. CASE Disconnect \/ Handled \/ AgentRestarts
  BY <1>4, <1>a DEF Disconnect, Handled, AgentRestarts
<1>5. ASSUME NEW h \in Handler, Ask(h) \/ Select(h) \/ Take(h) \/ StopWaiting(h) \/ Answer(h) PROVE Owed'
  BY <1>5, <1>a DEF Ask, Select, Take, StopWaiting, Answer
<1>6. ASSUME NEW h \in Handler, Claim(h) PROVE Owed'
  <2> DEFINE t == Min(pulls[h].rows)
  <2>1. (tasks' = tasks \/ (t \in Pending /\ tasks' = [tasks EXCEPT ![t].st = "running"])) /\ UNCHANGED <<service, switching, report>>
    BY <1>6 DEF Claim
  <2> HIDE DEF t
  <2>2. \A u \in Task : tasks'[u].disables = tasks[u].disables
    BY <2>1 DEF TypeOK, TaskRow
  <2>3. \A u \in Task : tasks[u].st \in {"pending", "running"} => tasks'[u].st \in {"pending", "running"}
    BY <2>1 DEF TypeOK, TaskRow
  <2>4. \A u \in Task : Carries(u) => Carries(u)'
    BY <2>1, <2>2, <2>3 DEF Carries, Pending, TypeOK, TaskRow
  <2> QED
    BY <2>1, <2>4 DEF Owed, Wrong, Pledge
<1>7. CASE RunTask
  <2>1. report.pc = "none" /\ report'.pc = "finish" /\ UNCHANGED <<service, tasks, switching>>
    BY <1>7 DEF RunTask, NoReport
  <2> QED
    BY <2>1 DEF Owed, Wrong, Pledge, Carries
<1>8. CASE Finish
  <2>1. /\ report.pc = "finish" /\ report'.pc = "read" /\ report'.task = report.task
        /\ tasks' = [tasks EXCEPT ![report.task].st = "done"] /\ UNCHANGED <<service, switching>>
    BY <1>8 DEF Finish, TypeOK, ReportRow
  <2>2. ASSUME NEW t \in Task, Carries(t) PROVE Carries(t)'
    <3>1. tasks'[t].disables = tasks[t].disables /\ (t # report.task => tasks'[t] = tasks[t])
      BY <2>1 DEF TypeOK, TaskRow
    <3> QED
      BY <2>1, <2>2, <3>1 DEF Carries
  <2> QED
    BY <2>1, <2>2 DEF Owed, Wrong, Pledge
<1>9. CASE ReadService
  <2>1. /\ report.pc = "read" /\ report'.pc = "write" /\ report'.task = report.task /\ report'.on = service.on
        /\ UNCHANGED <<service, switching, tasks>>
    BY <1>9 DEF ReadService, TypeOK, ReportRow
  <2>2. \A t \in Task : Carries(t) => Carries(t)'
    BY <2>1 DEF Carries
  <2> QED
    BY <2>1, <2>2 DEF Owed, Wrong, Pledge
<1>10. CASE WriteStatus
  <2>1. report.pc = "write" /\ report'.pc = "none" /\ UNCHANGED <<tasks, switching>> /\ service'.on = service.on
    BY <1>10 DEF WriteStatus, NoReport, TypeOK, ServiceRow
  <2>2. CASE report.on # service.on
    <3>1. Pledge
      BY <2>1, <2>2 DEF Owed
    <3>2. \A t \in Task : Carries(t) => Carries(t)'
      BY <2>1, <2>2 DEF Carries
    <3> QED
      BY <2>1, <3>1, <3>2 DEF Owed, Pledge
  <2>3. CASE report.on = service.on /\ tasks[report.task].disables = ~report.on
    <3>1. service'.status = IF tasks[report.task].disables THEN "disabled" ELSE "healthy"
      BY <1>10, <2>3 DEF WriteStatus, About, TypeOK, ServiceRow
    <3>2. ~Wrong'
      BY <2>1, <2>3, <3>1 DEF Wrong, TypeOK, ServiceRow
    <3> QED
      BY <2>1, <3>2 DEF Owed
  <2>4. CASE report.on = service.on /\ tasks[report.task].disables # ~report.on
    <3>1. service' = service
      BY <1>10, <2>4 DEF WriteStatus, About
    <3>2. \A t \in Task : Carries(t) => Carries(t)'
      BY <2>1, <2>4, <3>1 DEF Carries
    <3> QED
      BY <2>1, <3>1, <3>2 DEF Owed, Wrong, Pledge
  <2> QED
    BY <2>2, <2>3, <2>4
<1>11. ASSUME NEW t \in Task, GiveBack(t) PROVE Owed'
  <2>1. tasks' = [tasks EXCEPT ![t].st = "pending"] /\ tasks[t].st = "running" /\ UNCHANGED <<service, switching, report>>
    BY <1>11 DEF GiveBack
  <2>2. \A u \in Task : Carries(u) => Carries(u)'
    BY <2>1 DEF Carries, TypeOK, TaskRow
  <2> QED
    BY <2>1, <2>2 DEF Owed, Wrong, Pledge
<1>12. ASSUME NEW s \in Console, StartPortCheck(s) \/ StoreCheck(s) PROVE Owed'
  BY <1>12, <1>a DEF StartPortCheck, StoreCheck
<1>13. ASSUME NEW c \in Check, Lookup(c) \/ StopSending(c) PROVE Owed'
  BY <1>13, <1>a DEF Lookup, StopSending
<1>14. ASSUME NEW lost \in BOOLEAN, Count(lost) PROVE Owed'
  BY <1>14, <1>a DEF Count
<1>15. ASSUME NEW p \in Port, AppProbe(p) \/ BlockOrOpen(p) PROVE Owed'
  BY <1>15, <1>a DEF AppProbe, BlockOrOpen
<1>16. CASE ControllerRestarts
  <2>1. /\ switching' = IF switching \in {"insert", "cut"} \/ report.pc \in {"read", "write"} THEN "cut" ELSE "no"
        /\ report'.pc = "none" /\ UNCHANGED <<service, tasks>>
    BY <1>16 DEF ControllerRestarts, NoReport
  <2> QED
    BY <2>1 DEF Owed, Wrong, Pledge, Carries
<1>17. CASE UNCHANGED vars
  BY <1>17, <1>a DEF vars
<1> QED
  BY <1>1, <1>2, <1>3, <1>4, <1>5, <1>6, <1>7, <1>8, <1>9, <1>10, <1>11, <1>12, <1>13, <1>14, <1>15, <1>16, <1>17
     DEF Next, PullSteps, ReportSteps

(* When all is reported, the service shows what it was switched to, whatever tasks and reports from before the     *)
(* switch came after it.                                                                                            *)
THEOREM ReportsAgree == Spec => []StatusMatchesSwitch
<1>1. Spec => []Owed
  BY LineTyped, OwedInit, OwedStep, PTL DEF Spec
<1>2. Owed => StatusMatchesSwitch
  BY DEF Owed, Wrong, Pledge, Carries, StatusMatchesSwitch, Quiet, NoReport
<1> QED
  BY <1>1, <1>2, PTL

-----------------------------------------------------------------------------
(* NodeOperations.                                                             *)

NodeRow == [address : Addresses \cup {Nothing}, identity : Servers \cup {Nothing}, credential : {"none", "ssh"},
            token : Nat, new : BOOLEAN]
ActionRow == [node : Nodes, kind : {"bootstrap", "restart", "join"},
              status : {"queued", "running", "succeeded", "failed", "gone"}]
JobRow == [at : {"none", "queued", "discover", "install", "register", "start", "restart", "wait"},
           node : Nodes \cup {Nothing}, kind : {"bootstrap", "restart", "join", Nothing}, forget : BOOLEAN,
           address : Addresses \cup {Nothing}, identity : Servers \cup {Nothing}, token : Nat, heard : Nat,
           overlap : BOOLEAN]

OpsTyped ==
  /\ leads \in [Addresses -> Servers]
  /\ row \in [Nodes -> NodeRow]
  /\ install \subseteq Nodes /\ deleting \subseteq Nodes
  /\ action \in Seq(ActionRow) /\ made = Len(action) /\ made <= MaxActions
  /\ job \in [No!Ids -> JobRow]
  /\ queue \in Seq(No!Ids)
  /\ machine \in [Servers -> [node : Nodes \cup {Nothing}, token : Nat, up : BOOLEAN]]
  /\ piped \subseteq [server : Servers, node : Nodes, token : Nat]
  /\ tokens \in Nat

(* A row that is not there, or not yet, has no identity; one row at most has an identity; only *)
(* rows that are there have an install command.                                                *)
RowsApart ==
  /\ \A n \in Nodes : ~No!Exists(n) => row[n].identity = Nothing
  /\ \A n \in Nodes : row[n].new => ~No!Exists(n)
  /\ \A n, m \in Nodes : n # m /\ row[n].identity # Nothing => row[n].identity # row[m].identity
  /\ \A n \in install : No!Exists(n)

(* An active action is of a row that is there, and the only one of it. *)
OneActive ==
  /\ \A i \in 1..Len(action) : No!Active(action[i]) => No!Exists(action[i].node)
  /\ \A i, k \in 1..Len(action) : i # k /\ No!Active(action[i]) /\ No!Active(action[k]) => action[i].node # action[k].node

(* A live job is that of an action, of the same node and kind, which is active unless the node was deleted. *)
JobOfAction(i) ==
  job[i].at # "none" =>
    /\ i <= Len(action) /\ job[i].node = action[i].node /\ job[i].kind = action[i].kind
    /\ \/ No!Active(action[i])
       \/ action[i].status = "gone" /\ ~No!Exists(job[i].node) /\ ~row[job[i].node].new
JobsOfActions == \A i \in No!Ids : JobOfAction(i)

(* The queue names jobs that wait in it, each once. *)
Queued ==
  /\ \A x \in 1..Len(queue) : job[queue[x]].at = "queued"
  /\ \A x, y \in 1..Len(queue) : x # y => queue[x] # queue[y]

(* What a job does is of its kind, and it knows what it read: the address, and the machine *)
(* from the binding on.                                                                     *)
JobKnows(i) ==
  /\ job[i].at \in {"discover", "install", "register", "start"} => job[i].kind = "bootstrap" /\ job[i].address # Nothing
  /\ job[i].at \in {"queued", "restart"} => job[i].kind # "join"
  /\ job[i].at = "restart" => job[i].kind = "restart" /\ job[i].address # Nothing
  /\ job[i].at \in {"install", "register", "start"} =>
        job[i].identity # Nothing /\ (No!Exists(job[i].node) => row[job[i].node].identity = job[i].identity)
JobsKnow == \A i \in No!Ids : JobKnows(i)

(* Tokens are numbered. From its registration on a job has a token no newer than its node's, *)
(* and what it heard is as new as its own, unless a heartbeat was on its way at its           *)
(* registration.                                                                              *)
JobToken(i) ==
  /\ job[i].token <= tokens
  /\ job[i].at \in {"start", "wait"} /\ job[i].kind # "restart" =>
        /\ No!Exists(job[i].node) => job[i].token <= row[job[i].node].token
        /\ job[i].heard # 0 => job[i].token <= job[i].heard \/ job[i].overlap
  /\ job[i].at \in {"queued", "discover", "install", "register"} => job[i].heard = 0
  /\ i <= Len(action) /\ action[i].status = "succeeded" /\ action[i].kind # "restart" =>
        job[i].token <= job[i].heard \/ job[i].overlap
TokensGrow == (\A n \in Nodes : row[n].token <= tokens) /\ \A i \in No!Ids : JobToken(i)

OpsInv == OpsTyped /\ RowsApart /\ OneActive /\ JobsOfActions /\ Queued /\ JobsKnow /\ TokensGrow

LEMMA OpsRuns == AgentsSpec => No!Init /\ [][No!Next]_operationVars
<1>1. AgentsInit => No!Init
  BY DEF AgentsInit
<1>2. [AgentsNext]_<<part, vars, operationVars>> => [No!Next]_operationVars
  BY DEF AgentsNext, operationVars
<1> QED
  BY <1>1, <1>2, PTL DEF AgentsSpec

(* The assumption on the constants, and the two rows that stand for nothing. *)
LEMMA OpsConstants ==
  /\ MaxRemote \in Nat /\ MaxActions \in Nat /\ MaxTokens \in Nat /\ MaxOperatorEvents \in Nat
  /\ Nothing \notin Nodes /\ Nothing \notin Addresses /\ Nothing \notin Servers
  /\ Leads \in [Addresses -> Servers]
  /\ No!Ids = 1..MaxActions
  BY Assumption DEF No!OperationsAssumption, No!Ids

LEMMA Nothings == No!NoRow \in NodeRow /\ No!NoJob \in JobRow
  BY DEF No!NoRow, No!NoJob, NodeRow, JobRow

LEMMA OpsInit == No!Init => OpsInv
<1> SUFFICES ASSUME No!Init PROVE OpsInv
  OBVIOUS
<1> USE DEF No!Init
<1>0. PICK fresh : fresh = [No!NoRow EXCEPT !.new = TRUE]
  OBVIOUS
<1>b. action = << >> /\ queue = << >> /\ tokens = 0
  OBVIOUS
<1>a. fresh \in NodeRow /\ fresh.address = Nothing /\ fresh.identity = Nothing /\ fresh.token = 0 /\ fresh.new
  BY <1>0, Nothings DEF NodeRow, No!NoRow
<1>1. \A n \in Nodes : row[n] = fresh
  BY <1>0
<1>2. row \in [Nodes -> NodeRow]
  BY <1>0, <1>a
<1>3. OpsTyped
  <2>1. job \in [No!Ids -> JobRow]
    BY Nothings
  <2>2. machine \in [Servers -> [node : Nodes \cup {Nothing}, token : Nat, up : BOOLEAN]]
    OBVIOUS
  <2>3. action \in Seq(ActionRow) /\ queue \in Seq(No!Ids) /\ Len(action) = 0
    <3> HIDE DEF No!Init
    <3>1. << >> \in Seq(ActionRow) /\ << >> \in Seq(No!Ids) /\ Len(<< >>) = 0
      BY EmptySeq
    <3> QED
      BY <3>1, <1>b
  <2>4. /\ leads = Leads /\ install = {} /\ deleting = {} /\ piped = {} /\ made = 0 /\ tokens = 0
    OBVIOUS
  <2> HIDE DEF No!Init
  <2> QED
    BY <1>2, <2>1, <2>2, <2>3, <2>4, OpsConstants DEF OpsTyped
<1>4. RowsApart
  BY <1>1, <1>a DEF RowsApart, No!Exists
<1>5. OneActive /\ Queued
  BY DEF OneActive, Queued
<1>6. \A i \in No!Ids : job[i] = [at |-> "none", node |-> Nothing, kind |-> Nothing, forget |-> FALSE,
                                  address |-> Nothing, identity |-> Nothing, token |-> 0, heard |-> 0, overlap |-> FALSE]
  BY DEF No!NoJob
<1>7. JobsOfActions /\ JobsKnow
  BY <1>6 DEF JobsOfActions, JobsKnow, JobOfAction, JobKnows
<1>8. TokensGrow
  <2>1. Len(action) = 0
    BY <1>b
  <2>2. \A i \in No!Ids : ~(i <= Len(action))
    BY <2>1, OpsConstants
  <2>3. \A n \in Nodes : row[n].token = 0
    BY <1>1, <1>a
  <2>4. \A i \in No!Ids : job[i].token = 0 /\ job[i].at = "none" /\ job[i].heard = 0
    BY <1>6
  <2> HIDE DEF No!Init
  <2> QED
    BY <2>2, <2>3, <2>4, <1>b DEF TokensGrow, JobToken
<1> QED
  BY <1>3, <1>4, <1>5, <1>7, <1>8 DEF OpsInv

(* What the three ways to change node_actions leave of it. *)
LEMMA BecomesKeeps ==
  ASSUME action \in Seq(ActionRow), NEW i \in 1..Len(action), NEW st \in {"running", "succeeded", "failed"},
         No!Becomes(i, st)
  PROVE /\ action' \in Seq(ActionRow) /\ Len(action') = Len(action)
        /\ \A k \in 1..Len(action) : action'[k].node = action[k].node /\ action'[k].kind = action[k].kind
        /\ \A k \in 1..Len(action) : k # i => action'[k] = action[k]
        /\ action'[i].status = IF action[i].status = "gone" THEN "gone" ELSE st
<1>1. CASE action[i].status = "gone"
  BY <1>1 DEF No!Becomes
<1>2. CASE action[i].status # "gone"
  <2>0. action[i] \in ActionRow
    OBVIOUS
  <2>1. PICK new : new = [action[i] EXCEPT !.status = st]
    OBVIOUS
  <2>2. new \in ActionRow /\ new.node = action[i].node /\ new.kind = action[i].kind /\ new.status = st
    BY <2>0, <2>1 DEF ActionRow
  <2>3. action' = [action EXCEPT ![i] = new]
    BY <1>2, <2>1 DEF No!Becomes
  <2> QED
    BY <1>2, <2>2, <2>3
<1> QED
  BY <1>1, <1>2

LEMMA MarkKeeps ==
  ASSUME action \in Seq(ActionRow), NEW M, NEW st \in {"failed", "gone"},
         action' = [k \in 1..Len(action) |-> IF k \in M THEN [action[k] EXCEPT !.status = st] ELSE action[k]]
  PROVE /\ action' \in Seq(ActionRow) /\ Len(action') = Len(action)
        /\ \A k \in 1..Len(action) : action'[k].node = action[k].node /\ action'[k].kind = action[k].kind
        /\ \A k \in 1..Len(action) : k \notin M => action'[k] = action[k]
        /\ \A k \in 1..Len(action) : k \in M => action'[k].status = st
<1>1. ASSUME NEW k \in 1..Len(action)
      PROVE [action[k] EXCEPT !.status = st] \in ActionRow
            /\ [action[k] EXCEPT !.status = st].node = action[k].node
            /\ [action[k] EXCEPT !.status = st].kind = action[k].kind
            /\ [action[k] EXCEPT !.status = st].status = st
  <2>1. action[k] \in ActionRow
    OBVIOUS
  <2> QED
    BY <2>1 DEF ActionRow
<1>2. Len(action) \in Nat
  OBVIOUS
<1>3. \A k \in 1..Len(action) : action'[k] = IF k \in M THEN [action[k] EXCEPT !.status = st] ELSE action[k]
  OBVIOUS
<1>4. \A k \in 1..Len(action) : action'[k] \in ActionRow
  BY <1>1, <1>3
<1>5. action' \in [1..Len(action) -> ActionRow]
  BY <1>4
<1>6. action' \in Seq(ActionRow) /\ Len(action') = Len(action)
  BY <1>2, <1>5
<1> QED
  BY <1>1, <1>3, <1>6

Machines == [Servers -> [node : Nodes \cup {Nothing}, token : Nat, up : BOOLEAN]]

(* A job that leaves the queue, if it was in it, leaves the rest of the queue as it was. *)
Leaves(i) == \/ queue' = queue /\ job[i].at # "queued"
             \/ queue # << >> /\ queue' = Tail(queue) /\ i = Head(queue)

LEMMA StillQueued ==
  ASSUME OpsTyped, Queued, NEW i \in No!Ids, NEW new \in JobRow, job' = [job EXCEPT ![i] = new], Leaves(i)
  PROVE Queued' /\ queue' \in Seq(No!Ids)
<1>1. \A k \in No!Ids : k # i => job'[k] = job[k]
  BY DEF OpsTyped
<1>2. queue \in Seq(No!Ids)
  BY DEF OpsTyped
<1>3. CASE queue' = queue /\ job[i].at # "queued"
  BY <1>1, <1>2, <1>3 DEF Queued
<1>4. CASE queue # << >> /\ queue' = Tail(queue) /\ i = Head(queue)
  <2>1. queue' \in Seq(No!Ids) /\ Len(queue') = Len(queue) - 1 /\ i = queue[1]
    BY <1>2, <1>4
  <2>2. \A x \in 1..Len(queue') : queue'[x] = queue[x + 1] /\ x + 1 \in 1..Len(queue)
    BY <1>2, <1>4
  <2>3. \A x \in 1..Len(queue') : queue'[x] # i
    <3>1. \A x, y \in 1..Len(queue) : x # y => queue[x] # queue[y]
      BY DEF Queued
    <3>2. 1 \in 1..Len(queue) /\ \A x \in 1..Len(queue') : x + 1 # 1
      BY <1>2, <1>4
    <3> QED
      BY <2>1, <2>2, <3>1, <3>2
  <2>4. \A x \in 1..Len(queue') : job'[queue'[x]].at = "queued"
    BY <1>1, <1>2, <2>2, <2>3 DEF Queued
  <2>5. \A x, y \in 1..Len(queue') : x # y => queue'[x] # queue'[y]
    BY <1>2, <2>2 DEF Queued
  <2> QED
    BY <2>1, <2>4, <2>5 DEF Queued
<1> QED
  BY <1>3, <1>4 DEF Leaves

LEMMA ActionNodes ==
  ASSUME action \in Seq(ActionRow)
  PROVE \A k \in 1..Len(action) : action[k].node \in Nodes
<1>1. \A k \in 1..Len(action) : action[k] \in ActionRow
  OBVIOUS
<1> QED
  BY <1>1 DEF ActionRow

(* A live job ends: its action with it, unless its node was deleted. *)
LEMMA OpsEnds ==
  ASSUME OpsInv, NEW i \in No!Ids, job[i].at # "none", Leaves(i),
         NEW new \in JobRow, job' = [job EXCEPT ![i] = new], new.at = "none", new.token <= tokens,
         NEW st \in {"succeeded", "failed"}, No!Becomes(i, st) \/ action' = action,
         st = "succeeded" /\ job[i].kind # "restart" => new.token <= new.heard \/ new.overlap,
         row' \in [Nodes -> NodeRow],
         \A n \in Nodes : /\ row'[n].identity = row[n].identity /\ row'[n].address = row[n].address
                          /\ row'[n].token = row[n].token /\ row'[n].new = row[n].new,
         machine' \in Machines, UNCHANGED <<leads, install, deleting, piped, made, tokens>>
  PROVE OpsInv'
<1> USE OpsConstants
<1>0. /\ row \in [Nodes -> NodeRow] /\ install' = install /\ tokens' = tokens
      /\ \A n \in Nodes : No!Exists(n)' <=> No!Exists(n)
      /\ \A n \in Nodes : /\ row'[n].identity = row[n].identity /\ row'[n].address = row[n].address
                          /\ row'[n].token = row[n].token /\ row'[n].new = row[n].new
  BY DEF OpsInv, OpsTyped, No!Exists
<1>1. job \in [No!Ids -> JobRow] /\ job' \in [No!Ids -> JobRow] /\ job'[i] = new /\ \A k \in No!Ids : k # i => job'[k] = job[k]
  BY DEF OpsInv, OpsTyped
<1>2. action \in Seq(ActionRow) /\ i \in 1..Len(action) /\ job[i].node = action[i].node /\ job[i].kind = action[i].kind
  <2>1. action \in Seq(ActionRow) /\ i \in 1..MaxActions
    BY DEF OpsInv, OpsTyped, No!Ids
  <2>2. i <= Len(action) /\ job[i].node = action[i].node /\ job[i].kind = action[i].kind
    BY DEF OpsInv, JobsOfActions, JobOfAction
  <2> QED
    BY <2>1, <2>2
<1>3. /\ action' \in Seq(ActionRow) /\ Len(action') = Len(action)
      /\ \A k \in 1..Len(action) : action'[k].node = action[k].node /\ action'[k].kind = action[k].kind
      /\ \A k \in 1..Len(action) : k # i => action'[k] = action[k]
      /\ action'[i].status = action[i].status \/ action'[i].status \in {"gone", st}
  <2>1. CASE action' = action
    BY <1>2, <2>1
  <2>2. CASE No!Becomes(i, st)
    <3>1. /\ action' \in Seq(ActionRow) /\ Len(action') = Len(action)
          /\ \A k \in 1..Len(action) : action'[k].node = action[k].node /\ action'[k].kind = action[k].kind
          /\ \A k \in 1..Len(action) : k # i => action'[k] = action[k]
          /\ action'[i].status = IF action[i].status = "gone" THEN "gone" ELSE st
      BY <1>2, <2>2, BecomesKeeps
    <3> QED
      BY <3>1
  <2> QED
    BY <2>1, <2>2
<1>4. Queued' /\ queue' \in Seq(No!Ids)
  BY StillQueued DEF OpsInv
<1>5. OpsTyped'
  BY <1>1, <1>3, <1>4 DEF OpsInv, OpsTyped, Machines
<1>6. RowsApart'
  <2>1. install \subseteq Nodes /\ RowsApart
    BY DEF OpsInv, OpsTyped
  <2>2. (\A n \in Nodes : ~No!Exists(n) => row[n].identity = Nothing)'
    BY <1>0, <2>1 DEF RowsApart
  <2>3. (\A n \in Nodes : row[n].new => ~No!Exists(n))'
    BY <1>0, <2>1 DEF RowsApart
  <2>4. (\A n, m \in Nodes : n # m /\ row[n].identity # Nothing => row[n].identity # row[m].identity)'
    BY <1>0, <2>1 DEF RowsApart
  <2>5. (\A n \in install : No!Exists(n))'
    BY <1>0, <2>1 DEF RowsApart
  <2> QED
    BY <2>2, <2>3, <2>4, <2>5 DEF RowsApart
<1>7. \A k \in 1..Len(action) : No!Active(action[k])' => No!Active(action[k])
  BY <1>2, <1>3 DEF No!Active
<1>8. OneActive'
  <2>1. OneActive /\ \A k \in 1..Len(action) : action[k].node \in Nodes
    BY <1>2, ActionNodes DEF OpsInv
  <2>2. (\A k \in 1..Len(action) : No!Active(action[k]) => No!Exists(action[k].node))'
    <3> SUFFICES ASSUME NEW k \in 1..Len(action'), No!Active(action[k])' PROVE No!Exists(action[k].node)'
      OBVIOUS
    <3>1. No!Active(action[k]) /\ action'[k].node = action[k].node /\ action[k].node \in Nodes /\ No!Exists(action[k].node)
      BY <1>3, <1>7, <2>1 DEF OneActive
    <3> QED
      BY <1>0, <3>1 DEF No!Exists
  <2>3. (\A k, m \in 1..Len(action) : k # m /\ No!Active(action[k]) /\ No!Active(action[m]) => action[k].node # action[m].node)'
    BY <1>3, <1>7, <2>1 DEF OneActive
  <2> QED
    BY <2>2, <2>3 DEF OneActive
<1>a. \A k \in No!Ids : job[k].at # "none" => k \in 1..Len(action) /\ job[k].node \in Nodes
  BY <1>2, ActionNodes DEF OpsInv, JobsOfActions, JobOfAction
<1>b. ASSUME NEW k \in No!Ids, k # i, job[k].at # "none"
      PROVE /\ job'[k] = job[k] /\ action'[k] = action[k] /\ k \in 1..Len(action) /\ job[k].node \in Nodes
            /\ No!Active(action[k])' <=> No!Active(action[k])
            /\ No!Exists(job[k].node)' <=> No!Exists(job[k].node)
            /\ row'[job[k].node].identity = row[job[k].node].identity /\ row'[job[k].node].new = row[job[k].node].new
            /\ row'[job[k].node].token = row[job[k].node].token
  <2>1. job'[k] = job[k] /\ action'[k] = action[k] /\ k \in 1..Len(action) /\ job[k].node \in Nodes
    BY <1>1, <1>3, <1>a, <1>b
  <2> QED
    BY <1>0, <2>1 DEF No!Active, No!Exists
<1>9. JobsOfActions'
  <2> SUFFICES ASSUME NEW k \in No!Ids, job'[k].at # "none" PROVE JobOfAction(k)'
    BY DEF JobsOfActions, JobOfAction
  <2>1. k # i
    BY <1>1
  <2>2. JobOfAction(k) /\ job[k].at # "none"
    BY <1>1, <2>1 DEF OpsInv, JobsOfActions
  <2> QED
    BY <1>3, <1>b, <2>1, <2>2 DEF JobOfAction
<1>10. JobsKnow'
  <2> SUFFICES ASSUME NEW k \in No!Ids PROVE JobKnows(k)'
    BY DEF JobsKnow
  <2>1. CASE job'[k].at = "none"
    BY <2>1 DEF JobKnows
  <2>2. CASE job'[k].at # "none"
    <3>1. k # i /\ JobKnows(k) /\ job[k].at # "none"
      BY <1>1, <2>2 DEF OpsInv, JobsKnow
    <3> QED
      BY <1>b, <3>1 DEF JobKnows
  <2> QED
    BY <2>1, <2>2
<1>11. TokensGrow'
  <2>1. action[i].status # "succeeded"
    BY <1>2 DEF OpsInv, JobsOfActions, JobOfAction, No!Active
  <2>2. (\A n \in Nodes : row[n].token <= tokens)'
    BY <1>0 DEF OpsInv, TokensGrow
  <2>3. ASSUME NEW k \in No!Ids, k # i PROVE JobToken(k)'
    <3>1. job'[k] = job[k] /\ JobToken(k)
      BY <1>1, <2>3 DEF OpsInv, TokensGrow
    <3>2. k <= Len(action') => k <= Len(action) /\ action'[k] = action[k]
      BY <1>2, <1>3, <2>3
    <3>3. CASE job[k].at = "none"
      BY <1>0, <3>1, <3>2, <3>3 DEF JobToken
    <3>4. CASE job[k].at # "none"
      BY <1>0, <1>b, <2>3, <3>1, <3>2, <3>4 DEF JobToken
    <3> QED
      BY <3>3, <3>4
  <2>4. JobToken(i)'
    <3>1. action'[i].status = "succeeded" /\ action'[i].kind # "restart"
            => job'[i].token <= job'[i].heard \/ job'[i].overlap
      BY <1>1, <1>2, <1>3, <2>1
    <3> QED
      BY <1>0, <1>1, <3>1 DEF JobToken
  <2> QED
    BY <2>2, <2>3, <2>4 DEF TokensGrow
<1> QED
  BY <1>4, <1>5, <1>6, <1>8, <1>9, <1>10, <1>11 DEF OpsInv

(* A live job goes on: its action runs on, unless its node was deleted. Rows get identities and newer tokens. *)
LEMMA OpsAdvances ==
  ASSUME OpsInv, NEW i \in No!Ids, job[i].at # "none", Leaves(i),
         NEW new \in JobRow, job' = [job EXCEPT ![i] = new], new.at \notin {"none", "queued"},
         new.node = job[i].node, new.kind = job[i].kind, No!Becomes(i, "running") \/ action' = action,
         row' \in [Nodes -> NodeRow],
         \A n \in Nodes : /\ row[n].identity # Nothing => row'[n].identity = row[n].identity
                          /\ row'[n].address = row[n].address /\ row'[n].new = row[n].new
                          /\ n # job[i].node => row[n].token <= row'[n].token
                          /\ row'[n].token <= tokens',
         tokens' \in Nat, tokens <= tokens', machine' \in Machines, UNCHANGED <<leads, install, deleting, piped, made>>,
         RowsApart', JobKnows(i)', JobToken(i)'
  PROVE OpsInv'
<1> USE OpsConstants
<1>0. /\ row \in [Nodes -> NodeRow] /\ tokens \in Nat
      /\ \A n \in Nodes : No!Exists(n)' <=> No!Exists(n)
      /\ \A n \in Nodes : /\ row[n].identity # Nothing => row'[n].identity = row[n].identity
                          /\ row'[n].address = row[n].address /\ row'[n].new = row[n].new
                          /\ n # job[i].node => row[n].token <= row'[n].token
                          /\ row[n].token \in Nat /\ row'[n].token \in Nat
  BY DEF OpsInv, OpsTyped, No!Exists, NodeRow
<1>1. job \in [No!Ids -> JobRow] /\ job' \in [No!Ids -> JobRow] /\ job'[i] = new /\ \A k \in No!Ids : k # i => job'[k] = job[k]
  <2>1. job \in [No!Ids -> JobRow]
    BY DEF OpsInv, OpsTyped
  <2>2. job' = [job EXCEPT ![i] = new] /\ new \in JobRow
    OBVIOUS
  <2> QED
    BY <2>1, <2>2
<1>d. JobOfAction(i) /\ JobToken(i) /\ action \in Seq(ActionRow)
  BY DEF OpsInv, OpsTyped, JobsOfActions, TokensGrow
<1>2. action \in Seq(ActionRow) /\ i \in 1..Len(action) /\ job[i].node = action[i].node /\ job[i].kind = action[i].kind
  BY <1>d DEF JobOfAction
<1>3. /\ action' \in Seq(ActionRow) /\ Len(action') = Len(action)
      /\ \A k \in 1..Len(action) : action'[k].node = action[k].node /\ action'[k].kind = action[k].kind
      /\ \A k \in 1..Len(action) : k # i => action'[k] = action[k]
      /\ action'[i].status = action[i].status \/ action'[i].status \in {"gone", "running"}
      /\ action[i].status = "gone" <=> action'[i].status = "gone"
  BY <1>2, BecomesKeeps
<1>4. Queued' /\ queue' \in Seq(No!Ids)
  BY StillQueued DEF OpsInv
<1>5. OpsTyped'
  <2>1. OpsTyped
    BY DEF OpsInv
  <2> QED
    BY <1>1, <1>3, <1>4, <2>1 DEF OpsTyped, Machines
<1>6. No!Active(action[i]) \/ action[i].status = "gone"
  BY <1>d DEF JobOfAction
<1>7. \A k \in 1..Len(action) : No!Active(action[k])' <=> No!Active(action[k])
  BY <1>2, <1>3, <1>6 DEF No!Active
<1>8. OneActive'
  <2>1. OneActive /\ \A k \in 1..Len(action) : action[k].node \in Nodes
    BY <1>2, ActionNodes DEF OpsInv
  <2>2. (\A k \in 1..Len(action) : No!Active(action[k]) => No!Exists(action[k].node))'
    <3> SUFFICES ASSUME NEW k \in 1..Len(action'), No!Active(action[k])' PROVE No!Exists(action[k].node)'
      OBVIOUS
    <3>1. No!Active(action[k]) /\ action'[k].node = action[k].node /\ action[k].node \in Nodes /\ No!Exists(action[k].node)
      BY <1>3, <1>7, <2>1 DEF OneActive
    <3> QED
      BY <1>0, <3>1 DEF No!Exists
  <2>3. (\A k, m \in 1..Len(action) : k # m /\ No!Active(action[k]) /\ No!Active(action[m]) => action[k].node # action[m].node)'
    BY <1>3, <1>7, <2>1 DEF OneActive
  <2> QED
    BY <2>2, <2>3 DEF OneActive
<1>a. \A k \in No!Ids : job[k].at # "none" => k \in 1..Len(action) /\ job[k].node \in Nodes
  BY <1>2, ActionNodes DEF OpsInv, JobsOfActions, JobOfAction
<1>b. ASSUME NEW k \in No!Ids, job[k].at # "none"
      PROVE /\ k # i => job'[k] = job[k] /\ action'[k] = action[k]
            /\ k \in 1..Len(action) /\ job[k].node \in Nodes
            /\ No!Active(action[k])' <=> No!Active(action[k])
            /\ No!Exists(job[k].node)' <=> No!Exists(job[k].node)
            /\ row[job[k].node].identity # Nothing => row'[job[k].node].identity = row[job[k].node].identity
            /\ row'[job[k].node].new = row[job[k].node].new
            /\ k # i /\ No!Exists(job[k].node) => row[job[k].node].token <= row'[job[k].node].token
            /\ row[job[k].node].token \in Nat /\ row'[job[k].node].token \in Nat
  <2>1. k \in 1..Len(action) /\ job[k].node \in Nodes
    BY <1>a, <1>b
  <2>2. k # i => job'[k] = job[k] /\ action'[k] = action[k]
    BY <1>1, <1>3, <2>1
  <2>3. No!Exists(job[k].node)' <=> No!Exists(job[k].node)
    <3>1. row'[job[k].node].address = row[job[k].node].address
      BY <1>0, <2>1
    <3> QED
      BY <1>1, <1>3, <2>1, <3>1 DEF No!Exists
  <2>4. No!Active(action[k])' <=> No!Active(action[k])
    BY <1>7, <2>1
  <2>5. /\ row[job[k].node].identity # Nothing => row'[job[k].node].identity = row[job[k].node].identity
        /\ row'[job[k].node].new = row[job[k].node].new
        /\ job[k].node # job[i].node => row[job[k].node].token <= row'[job[k].node].token
        /\ row[job[k].node].token \in Nat /\ row'[job[k].node].token \in Nat
    <3>1. PICK n \in Nodes : n = job[k].node
      BY <2>1
    <3>2. /\ row[n].identity # Nothing => row'[n].identity = row[n].identity
          /\ row'[n].new = row[n].new
      BY <1>0
    <3>3. /\ n # job[i].node => row[n].token <= row'[n].token
          /\ row[n].token \in Nat /\ row'[n].token \in Nat
      BY <1>0
    <3> QED
      BY <3>1, <3>2, <3>3
  <2>6. k # i /\ No!Exists(job[k].node) => job[k].node # job[i].node
    <3> SUFFICES ASSUME k # i, No!Exists(job[k].node), job[k].node = job[i].node PROVE FALSE
      OBVIOUS
    <3>1. JobOfAction(k)
      BY DEF OpsInv, JobsOfActions
    <3>2. No!Active(action[k]) /\ action[k].node = job[k].node
      BY <1>b, <3>1 DEF JobOfAction
    <3>3. No!Active(action[i]) /\ action[i].node = job[i].node
      BY <1>2, <1>d DEF JobOfAction
    <3> QED
      BY <1>2, <2>1, <3>2, <3>3 DEF OpsInv, OneActive
  <2> QED
    BY <2>1, <2>2, <2>3, <2>4, <2>5, <2>6
<1>9. JobsOfActions'
  <2> SUFFICES ASSUME NEW k \in No!Ids, job'[k].at # "none" PROVE JobOfAction(k)'
    BY DEF JobsOfActions, JobOfAction
  <2>1. CASE k # i
    <3>1. JobOfAction(k) /\ job[k].at # "none"
      BY <1>1, <2>1 DEF OpsInv, JobsOfActions
    <3> QED
      BY <1>3, <1>b, <2>1, <3>1 DEF JobOfAction
  <2>2. CASE k = i
    <3>1. JobOfAction(i)
      BY DEF OpsInv, JobsOfActions
    <3>2. job'[i].node = job[i].node /\ job'[i].kind = job[i].kind
      BY <1>1
    <3> QED
      BY <1>2, <1>3, <1>b, <2>2, <3>1, <3>2 DEF JobOfAction
  <2> QED
    BY <2>1, <2>2
<1>10. JobsKnow'
  <2> SUFFICES ASSUME NEW k \in No!Ids, k # i PROVE JobKnows(k)'
    BY DEF JobsKnow
  <2>1. JobKnows(k) /\ job'[k] = job[k]
    BY <1>1 DEF OpsInv, JobsKnow
  <2>2. CASE job[k].at = "none"
    BY <2>1, <2>2 DEF JobKnows
  <2>3. CASE job[k].at # "none"
    BY <1>b, <2>1, <2>3 DEF JobKnows
  <2> QED
    BY <2>2, <2>3
<1>11. TokensGrow'
  <2>2. (\A n \in Nodes : row[n].token <= tokens)'
    OBVIOUS
  <2>3. ASSUME NEW k \in No!Ids, k # i PROVE JobToken(k)'
    <3>1. job'[k] = job[k] /\ JobToken(k) /\ job[k].token \in Nat /\ job[k].heard \in Nat
      BY <1>1, <2>3 DEF OpsInv, TokensGrow, JobRow
    <3>2. k <= Len(action') => k <= Len(action) /\ action'[k] = action[k]
      BY <1>2, <1>3, <2>3
    <3>3. CASE job[k].at = "none"
      <4>1. job'[k].at = "none" /\ job'[k].token = job[k].token /\ job'[k].heard = job[k].heard /\ job[k].token <= tokens'
        BY <1>0, <3>1, <3>3 DEF JobToken
      <4> QED
        BY <3>1, <3>2, <3>3, <4>1 DEF JobToken
    <3>4. CASE job[k].at # "none"
      <4>1. /\ job[k].node \in Nodes /\ (No!Exists(job[k].node)' <=> No!Exists(job[k].node))
            /\ No!Exists(job[k].node) => row[job[k].node].token <= row'[job[k].node].token
            /\ row[job[k].node].token \in Nat /\ row'[job[k].node].token \in Nat
        BY <1>b, <2>3, <3>4
      <4>2. job[k].token <= tokens'
        BY <1>0, <3>1 DEF JobToken
      <4>3. job[k].at \in {"start", "wait"} /\ job[k].kind # "restart" /\ No!Exists(job[k].node)'
              => job[k].token <= row'[job[k].node].token
        BY <3>1, <4>1 DEF JobToken
      <4> QED
        BY <3>1, <3>2, <4>2, <4>3 DEF JobToken, No!Exists
    <3> QED
      BY <3>3, <3>4
  <2> QED
    BY <2>2, <2>3 DEF TokensGrow
<1> QED
  BY <1>4, <1>5, <1>8, <1>9, <1>10, <1>11 DEF OpsInv

(* A live job's node is there or was deleted: never a row still to come. *)
LEMMA LiveNodes ==
  ASSUME OpsInv, NEW i \in No!Ids, job[i].at # "none"
  PROVE i \in 1..Len(action) /\ job[i].node \in Nodes /\ ~row[job[i].node].new /\ JobOfAction(i)
<1>1. JobOfAction(i) /\ action \in Seq(ActionRow)
  BY DEF OpsInv, OpsTyped, JobsOfActions
<1>2. i \in 1..Len(action) /\ job[i].node = action[i].node
  BY <1>1, OpsConstants DEF JobOfAction
<1>3. job[i].node \in Nodes
  BY <1>1, <1>2, ActionNodes
<1>4. No!Active(action[i]) => No!Exists(job[i].node)
  BY <1>2 DEF OpsInv, OneActive
<1>5. No!Exists(job[i].node) => ~row[job[i].node].new
  BY <1>3 DEF OpsInv, RowsApart
<1> QED
  BY <1>1, <1>2, <1>3, <1>4, <1>5 DEF JobOfAction

(* A change of rows, install commands and machines that no action and no job takes part in. *)
LEMMA OpsIdle ==
  ASSUME OpsInv, UNCHANGED <<action, job, queue, made>>, tokens' \in Nat, tokens <= tokens',
         leads' \in [Addresses -> Servers], row' \in [Nodes -> NodeRow], install' \subseteq Nodes, deleting' \subseteq Nodes,
         machine' \in Machines, piped' \subseteq [server : Servers, node : Nodes, token : Nat],
         \A n \in Nodes : \/ row[n].new /\ row'[n].token = 0
                          \/ /\ row'[n].identity = row[n].identity /\ (row'[n].address = Nothing <=> row[n].address = Nothing)
                             /\ row[n].token <= row'[n].token /\ row'[n].token <= tokens' /\ row'[n].new = row[n].new,
         RowsApart'
  PROVE OpsInv'
<1>1. OpsTyped'
  BY DEF OpsInv, OpsTyped, Machines
<1>2. Queued'
  BY DEF OpsInv, Queued
<1>3. ASSUME NEW n \in Nodes, ~row[n].new
      PROVE /\ row'[n].identity = row[n].identity /\ (No!Exists(n)' <=> No!Exists(n))
            /\ row[n].token <= row'[n].token /\ row'[n].new = row[n].new
            /\ row[n].token \in Nat /\ row'[n].token \in Nat
  BY <1>1, <1>3 DEF No!Exists, OpsInv, OpsTyped, NodeRow
<1>4. action \in Seq(ActionRow) /\ action' = action /\ job' = job
  BY DEF OpsInv, OpsTyped
<1>5. OneActive'
  <2>1. ASSUME NEW k \in 1..Len(action), No!Active(action[k]) PROVE No!Exists(action[k].node)'
    <3>1. action[k].node \in Nodes /\ No!Exists(action[k].node)
      BY <1>4, <2>1, ActionNodes DEF OpsInv, OneActive
    <3>2. ~row[action[k].node].new
      BY <3>1 DEF OpsInv, RowsApart
    <3> QED
      BY <1>3, <1>4, <3>1, <3>2 DEF No!Exists
  <2>2. \A k, m \in 1..Len(action) : k # m /\ No!Active(action[k]) /\ No!Active(action[m]) => action[k].node # action[m].node
    BY DEF OpsInv, OneActive
  <2> QED
    BY <1>4, <2>1, <2>2 DEF OneActive, No!Active, No!Exists
<1>6. JobsOfActions'
  <2> SUFFICES ASSUME NEW k \in No!Ids, job[k].at # "none" PROVE JobOfAction(k)'
    BY <1>4 DEF JobsOfActions, JobOfAction
  <2> QED
    BY <1>3, <1>4, LiveNodes DEF JobOfAction, No!Exists, No!Active
<1>7. JobsKnow'
  <2> SUFFICES ASSUME NEW k \in No!Ids, job[k].at # "none" PROVE JobKnows(k)'
    BY <1>4 DEF JobsKnow, JobKnows
  <2>1. JobKnows(k)
    BY DEF OpsInv, JobsKnow
  <2> QED
    BY <1>3, <1>4, <2>1, LiveNodes DEF JobKnows, No!Exists
<1>8. TokensGrow'
  <2>1. (\A n \in Nodes : row[n].token <= tokens)'
    OBVIOUS
  <2>2. ASSUME NEW k \in No!Ids PROVE JobToken(k)'
    <3>1. JobToken(k) /\ job[k].token \in Nat /\ job[k].token <= tokens'
      <4>1. JobToken(k) /\ job[k] \in JobRow /\ tokens \in Nat
        BY DEF OpsInv, OpsTyped, TokensGrow
      <4> QED
        BY <4>1 DEF JobToken, JobRow
    <3>2. CASE job[k].at = "none"
      BY <1>4, <3>1, <3>2 DEF JobToken
    <3>3. CASE job[k].at # "none"
      <4>1. job[k].node \in Nodes /\ ~row[job[k].node].new
        BY <3>3, LiveNodes
      <4> QED
        BY <1>3, <1>4, <3>1, <3>3, <4>1 DEF JobToken, No!Exists
    <3> QED
      BY <3>2, <3>3
  <2> QED
    BY <2>1, <2>2 DEF TokensGrow
<1> QED
  BY <1>1, <1>2, <1>5, <1>6, <1>7, <1>8 DEF OpsInv

(* One field of one row changes. *)
LEMMA IdentitySet ==
  ASSUME row \in [Nodes -> NodeRow], NEW n \in Nodes, NEW s \in Servers, row' = [row EXCEPT ![n].identity = s]
  PROVE /\ row' \in [Nodes -> NodeRow] /\ row'[n].identity = s
        /\ \A m \in Nodes : m # n => row'[m] = row[m]
        /\ row'[n].address = row[n].address /\ row'[n].token = row[n].token /\ row'[n].new = row[n].new
<1>1. row[n] \in NodeRow
  OBVIOUS
<1>2. PICK new : new = [row[n] EXCEPT !.identity = s]
  OBVIOUS
<1>3. new \in NodeRow /\ new.identity = s /\ new.address = row[n].address /\ new.token = row[n].token /\ new.new = row[n].new
  BY <1>1, <1>2 DEF NodeRow
<1>4. row' = [row EXCEPT ![n] = new]
  BY <1>2
<1> QED
  BY <1>3, <1>4

LEMMA TokenSet ==
  ASSUME row \in [Nodes -> NodeRow], NEW n \in Nodes, NEW t \in Nat, row' = [row EXCEPT ![n].token = t]
  PROVE /\ row' \in [Nodes -> NodeRow] /\ row'[n].token = t
        /\ \A m \in Nodes : m # n => row'[m] = row[m]
        /\ row'[n].address = row[n].address /\ row'[n].identity = row[n].identity /\ row'[n].new = row[n].new
<1>1. row[n] \in NodeRow
  OBVIOUS
<1>2. PICK new : new = [row[n] EXCEPT !.token = t]
  OBVIOUS
<1>3. new \in NodeRow /\ new.token = t /\ new.address = row[n].address /\ new.identity = row[n].identity /\ new.new = row[n].new
  BY <1>1, <1>2 DEF NodeRow
<1>4. row' = [row EXCEPT ![n] = new]
  BY <1>2
<1> QED
  BY <1>3, <1>4

LEMMA CredentialSet ==
  ASSUME row \in [Nodes -> NodeRow], NEW n \in Nodes, row' = [row EXCEPT ![n].credential = "none"]
  PROVE /\ row' \in [Nodes -> NodeRow]
        /\ \A m \in Nodes : /\ row'[m].address = row[m].address /\ row'[m].identity = row[m].identity
                            /\ row'[m].token = row[m].token /\ row'[m].new = row[m].new
<1>1. row[n] \in NodeRow
  OBVIOUS
<1>2. PICK new : new = [row[n] EXCEPT !.credential = "none"]
  OBVIOUS
<1>3. /\ new \in NodeRow /\ new.address = row[n].address /\ new.identity = row[n].identity
      /\ new.token = row[n].token /\ new.new = row[n].new
  BY <1>1, <1>2 DEF NodeRow
<1>4. row' = [row EXCEPT ![n] = new]
  BY <1>2
<1> QED
  BY <1>3, <1>4

(* The live job i: its record, and that its action has not succeeded. *)
LEMMA LiveJob ==
  ASSUME OpsInv, NEW i \in No!Ids, job[i].at # "none"
  PROVE /\ job[i] \in JobRow /\ JobKnows(i) /\ JobToken(i) /\ JobOfAction(i) /\ i \in 1..Len(action)
        /\ job[i].node \in Nodes /\ action[i].status # "succeeded"
        /\ row \in [Nodes -> NodeRow] /\ row[job[i].node] \in NodeRow /\ tokens \in Nat
<1>1. job[i] \in JobRow /\ row \in [Nodes -> NodeRow] /\ tokens \in Nat /\ JobKnows(i) /\ JobToken(i)
  BY DEF OpsInv, OpsTyped, JobsKnow, TokensGrow
<1>2. i \in 1..Len(action) /\ job[i].node \in Nodes /\ JobOfAction(i)
  BY LiveNodes
<1> QED
  BY <1>1, <1>2 DEF JobOfAction, No!Active

(* Rows, machines and tokens stay as they are while a job ends in failure. *)
LEMMA OpsFails ==
  ASSUME OpsInv, NEW i \in No!Ids, job[i].at \notin {"none", "queued"}, No!End(i, "failed"),
         UNCHANGED <<leads, row, install, deleting, queue, machine, piped, made, tokens>>
  PROVE OpsInv'
<1>1. job' = [job EXCEPT ![i] = No!NoJob] /\ No!NoJob \in JobRow /\ No!NoJob.at = "none" /\ No!NoJob.token = 0
  BY Nothings DEF No!End, No!Job, No!NoJob
<1>2. row \in [Nodes -> NodeRow] /\ machine \in Machines /\ tokens \in Nat
  BY DEF OpsInv, OpsTyped, Machines
<1>3. Leaves(i) /\ No!Becomes(i, "failed") /\ No!NoJob.token <= tokens
  BY <1>1, <1>2 DEF No!End, Leaves
<1>4. /\ row' \in [Nodes -> NodeRow] /\ machine' \in Machines
      /\ \A n \in Nodes : /\ row'[n].identity = row[n].identity /\ row'[n].address = row[n].address
                           /\ row'[n].token = row[n].token /\ row'[n].new = row[n].new
  BY <1>2
<1>5. PICK new \in JobRow : new = No!NoJob
  BY <1>1
<1>6. job[i].at # "none" /\ job' = [job EXCEPT ![i] = new] /\ new.at = "none" /\ new.token <= tokens
  BY <1>1, <1>3, <1>5
<1> QED
  BY <1>3, <1>4, <1>6, OpsEnds

LEMMA OpsDiscover ==
  ASSUME OpsInv, NEW i \in No!Ids, No!Discover(i)
  PROVE OpsInv'
<1> DEFINE n == job[i].node
           s == leads[job[i].address]
<1>1. job[i].at = "discover" /\ UNCHANGED <<leads, install, deleting, queue, machine, piped, made>>
  BY DEF No!Discover, No!JobOnly
<1>2. /\ job[i] \in JobRow /\ JobKnows(i) /\ JobToken(i) /\ i \in 1..Len(action) /\ n \in Nodes
      /\ action[i].status # "succeeded" /\ row \in [Nodes -> NodeRow] /\ row[n] \in NodeRow /\ tokens \in Nat
  BY <1>1, LiveJob
<1>3. s \in Servers /\ s # Nothing /\ machine \in Machines
  <2>1. job[i].address \in Addresses
    BY <1>1, <1>2 DEF JobKnows, JobRow
  <2> QED
    BY <2>1, OpsConstants DEF OpsInv, OpsTyped, Machines
<1>4. CASE No!Binds(n, s) /\ tokens < MaxTokens
  <2>1. /\ row' = [row EXCEPT ![n].identity = s] /\ tokens' = tokens + 1 /\ action' = action
        /\ job' = [job EXCEPT ![i] = [job[i] EXCEPT !.at = "install", !.address = row[n].address, !.identity = s, !.token = tokens + 1]]
    BY <1>4 DEF No!Discover, No!Job
  <2>2. /\ row' \in [Nodes -> NodeRow] /\ row'[n].identity = s
        /\ \A m \in Nodes : m # n => row'[m] = row[m]
        /\ row'[n].address = row[n].address /\ row'[n].token = row[n].token /\ row'[n].new = row[n].new
    BY <1>2, <1>3, <2>1, IdentitySet
  <2>3. /\ row[n].address # Nothing /\ row[n].identity \in {Nothing, s} /\ \A m \in Nodes : m # n => row[m].identity # s
    BY <1>4 DEF No!Binds, No!Exists
  <2>4. PICK new : new = [job[i] EXCEPT !.at = "install", !.address = row[n].address, !.identity = s, !.token = tokens + 1]
    OBVIOUS
  <2>5. /\ new \in JobRow /\ new.at = "install" /\ new.address = row[n].address /\ new.identity = s
        /\ new.token = tokens + 1 /\ new.node = n /\ new.kind = job[i].kind /\ new.heard = job[i].heard
    <3>1. row[n].address \in Addresses \cup {Nothing} /\ s \in Servers \cup {Nothing} /\ tokens + 1 \in Nat
      BY <1>2, <1>3 DEF NodeRow
    <3>2. job[i] \in JobRow
      BY <1>2
    <3> HIDE DEF s
    <3> QED
      BY <2>4, <3>1, <3>2 DEF JobRow
  <2>6. job' = [job EXCEPT ![i] = new] /\ job'[i] = new
    BY <2>1, <2>4 DEF OpsInv, OpsTyped
  <2>7. \A m \in Nodes : /\ row[m].identity # Nothing => row'[m].identity = row[m].identity
                         /\ row'[m].address = row[m].address /\ row'[m].new = row[m].new
                         /\ row[m].token <= row'[m].token /\ row'[m].token <= tokens'
    <3> SUFFICES ASSUME NEW m \in Nodes
                 PROVE /\ row[m].identity # Nothing => row'[m].identity = row[m].identity
                       /\ row'[m].address = row[m].address /\ row'[m].new = row[m].new
                       /\ row[m].token <= row'[m].token /\ row'[m].token <= tokens'
      OBVIOUS
    <3>1. row'[m].token = row[m].token /\ row[m].token \in Nat /\ row[m].token <= tokens
      BY <1>2, <2>2 DEF OpsInv, TokensGrow, NodeRow
    <3>2. (row[m].identity # Nothing => row'[m].identity = row[m].identity) /\ row'[m].address = row[m].address /\ row'[m].new = row[m].new
      BY <2>2, <2>3
    <3> QED
      BY <1>2, <2>1, <3>1, <3>2
  <2>8. RowsApart'
    <3>1. RowsApart /\ \A m \in Nodes : row'[m].address = row[m].address
      BY <2>7 DEF OpsInv
    <3>2. (\A m \in Nodes : ~No!Exists(m) => row[m].identity = Nothing)'
      BY <2>2, <2>3, <3>1 DEF RowsApart, No!Exists
    <3>3. (\A m \in Nodes : row[m].new => ~No!Exists(m))'
      BY <2>7, <3>1 DEF RowsApart, No!Exists
    <3>4. (\A m, k \in Nodes : m # k /\ row[m].identity # Nothing => row[m].identity # row[k].identity)'
      BY <1>3, <2>2, <2>3, <3>1 DEF RowsApart
    <3>5. (\A m \in install : No!Exists(m))'
      BY <1>1, <3>1 DEF RowsApart, No!Exists, OpsInv, OpsTyped
    <3> QED
      BY <3>2, <3>3, <3>4, <3>5 DEF RowsApart
  <2>9. JobKnows(i)'
    BY <1>1, <1>2, <1>3, <2>2, <2>3, <2>5, <2>6 DEF JobKnows
  <2>10. JobToken(i)'
    BY <1>1, <1>2, <2>1, <2>5, <2>6 DEF JobToken
  <2>11. /\ job[i].at # "none" /\ Leaves(i) /\ new.at \notin {"none", "queued"}
         /\ tokens' \in Nat /\ tokens <= tokens' /\ machine' \in Machines
    BY <1>1, <1>2, <1>3, <2>1, <2>5 DEF Leaves
  <2> QED
    BY <1>1, <2>1, <2>2, <2>5, <2>6, <2>7, <2>8, <2>9, <2>10, <2>11, OpsAdvances
<1>5. CASE ~(No!Binds(n, s) /\ tokens < MaxTokens)
  <2>1. No!End(i, "failed") /\ UNCHANGED <<row, tokens>>
    BY <1>5 DEF No!Discover
  <2> QED
    BY <1>1, <2>1, OpsFails
<1> QED
  BY <1>4, <1>5

(* A step over SSH: row and tokens stay, the machine's record changes, the job goes on. *)
LEMMA OpsGoesOn ==
  ASSUME OpsInv, NEW i \in No!Ids, job[i].at \notin {"none", "queued"}, NEW at \in {"register", "start", "wait"},
         job' = [job EXCEPT ![i] = [job[i] EXCEPT !.at = at]],
         \/ at = "register" /\ job[i].at = "install"
         \/ at = "wait" /\ job[i].at \in {"start", "restart"},
         machine' \in Machines, UNCHANGED <<leads, row, install, deleting, action, queue, piped, made, tokens>>
  PROVE OpsInv'
<1>1. /\ job[i] \in JobRow /\ JobKnows(i) /\ JobToken(i) /\ i \in 1..Len(action) /\ job[i].node \in Nodes
      /\ action[i].status # "succeeded" /\ row \in [Nodes -> NodeRow] /\ tokens \in Nat
  BY LiveJob
<1>2. PICK new : new = [job[i] EXCEPT !.at = at]
  OBVIOUS
<1>3. /\ new \in JobRow /\ new.at = at /\ new.address = job[i].address /\ new.identity = job[i].identity
      /\ new.token = job[i].token /\ new.node = job[i].node /\ new.kind = job[i].kind /\ new.heard = job[i].heard
  BY <1>1, <1>2 DEF JobRow
<1>4. job' = [job EXCEPT ![i] = new] /\ job'[i] = new
  BY <1>2 DEF OpsInv, OpsTyped
<1>5. RowsApart'
  BY DEF OpsInv, RowsApart, No!Exists
<1>6. JobKnows(i)'
  BY <1>1, <1>3, <1>4 DEF JobKnows, No!Exists
<1>7. JobToken(i)'
  BY <1>1, <1>3, <1>4 DEF JobToken, No!Exists, JobKnows
<1>8. /\ job[i].at # "none" /\ Leaves(i) /\ new.at \notin {"none", "queued"}
      /\ row' \in [Nodes -> NodeRow] /\ tokens' \in Nat /\ tokens <= tokens'
  BY <1>1, <1>3 DEF Leaves
<1>9. \A m \in Nodes : /\ row[m].identity # Nothing => row'[m].identity = row[m].identity
                       /\ row'[m].address = row[m].address /\ row'[m].new = row[m].new
                       /\ row[m].token <= row'[m].token /\ row'[m].token <= tokens'
  BY <1>1 DEF OpsInv, TokensGrow, NodeRow
<1> QED
  BY <1>3, <1>4, <1>5, <1>6, <1>7, <1>8, <1>9, OpsAdvances

LEMMA OpsRegister ==
  ASSUME OpsInv, NEW i \in No!Ids, No!Register(i)
  PROVE OpsInv'
<1>1. /\ job[i].at = "register" /\ job' = [job EXCEPT ![i] = [job[i] EXCEPT !.at = "start", !.overlap = No!OnTheWay(job[i].node)]]
      /\ row' = IF No!Exists(job[i].node) THEN [row EXCEPT ![job[i].node].token = job[i].token] ELSE row
      /\ UNCHANGED <<leads, install, deleting, action, queue, machine, piped, made, tokens>>
  BY DEF No!Register, No!JobOnly, No!Job
<1>2. /\ job[i] \in JobRow /\ JobKnows(i) /\ JobToken(i) /\ i \in 1..Len(action) /\ job[i].node \in Nodes
      /\ action[i].status # "succeeded" /\ row \in [Nodes -> NodeRow] /\ tokens \in Nat
  BY <1>1, LiveJob
<1>3. job[i].token \in Nat /\ job[i].token <= tokens
  BY <1>2 DEF JobRow, JobToken
<1>4. PICK new : new = [job[i] EXCEPT !.at = "start", !.overlap = No!OnTheWay(job[i].node)]
  OBVIOUS
<1>a. No!OnTheWay(job[i].node) \in BOOLEAN
  BY DEF No!OnTheWay
<1>5. /\ new \in JobRow /\ new.at = "start" /\ new.address = job[i].address /\ new.identity = job[i].identity
      /\ new.token = job[i].token /\ new.node = job[i].node /\ new.kind = job[i].kind /\ new.heard = job[i].heard
  BY <1>2, <1>4, <1>a DEF JobRow
<1>6. job' = [job EXCEPT ![i] = new] /\ job'[i] = new
  BY <1>1, <1>4 DEF OpsInv, OpsTyped
<1>7. /\ row' \in [Nodes -> NodeRow]
      /\ \A m \in Nodes : m # job[i].node => row'[m] = row[m]
      /\ row'[job[i].node].token = IF No!Exists(job[i].node) THEN job[i].token ELSE row[job[i].node].token
      /\ row'[job[i].node].address = row[job[i].node].address /\ row'[job[i].node].identity = row[job[i].node].identity
      /\ row'[job[i].node].new = row[job[i].node].new
  <2>1. CASE No!Exists(job[i].node)
    <3>1. row' = [row EXCEPT ![job[i].node].token = job[i].token]
      BY <1>1, <2>1
    <3>2. row \in [Nodes -> NodeRow] /\ job[i].node \in Nodes /\ job[i].token \in Nat
      BY <1>2, <1>3
    <3>3. PICK n, t : n = job[i].node /\ t = job[i].token
      OBVIOUS
    <3>4. /\ row' \in [Nodes -> NodeRow] /\ row'[n].token = t
          /\ \A m \in Nodes : m # n => row'[m] = row[m]
          /\ row'[n].address = row[n].address /\ row'[n].identity = row[n].identity /\ row'[n].new = row[n].new
      <4>1. row \in [Nodes -> NodeRow] /\ n \in Nodes /\ t \in Nat /\ row' = [row EXCEPT ![n].token = t]
        BY ONLY <3>1, <3>2, <3>3
      <4> QED
        BY ONLY <4>1, TokenSet
    <3> QED
      BY <2>1, <3>3, <3>4
  <2>2. CASE ~No!Exists(job[i].node)
    BY <1>1, <1>2, <2>2
  <2> QED
    BY <2>1, <2>2
<1>8. \A m \in Nodes : /\ row[m].identity # Nothing => row'[m].identity = row[m].identity
                       /\ row'[m].address = row[m].address /\ row'[m].new = row[m].new
                       /\ m # job[i].node => row[m].token <= row'[m].token
                       /\ row'[m].token <= tokens'
  <2> SUFFICES ASSUME NEW m \in Nodes
               PROVE /\ row'[m].identity = row[m].identity /\ row'[m].address = row[m].address /\ row'[m].new = row[m].new
                     /\ m # job[i].node => row[m].token <= row'[m].token
                     /\ row'[m].token <= tokens'
    OBVIOUS
  <2>1. row[m].token <= tokens /\ row[m].token \in Nat
    BY <1>2 DEF OpsInv, TokensGrow, NodeRow
  <2>2. CASE m = job[i].node
    BY <1>1, <1>3, <1>7, <2>1, <2>2
  <2>3. CASE m # job[i].node
    BY <1>1, <1>7, <2>1, <2>3
  <2> QED
    BY <2>2, <2>3
<1>9. \A m \in Nodes : row'[m].identity = row[m].identity /\ row'[m].address = row[m].address /\ row'[m].new = row[m].new
  BY <1>7
<1>10. RowsApart'
  <2>1. RowsApart /\ install \subseteq Nodes /\ install' = install
    BY <1>1 DEF OpsInv, OpsTyped
  <2> QED
    BY <1>9, <2>1 DEF RowsApart, No!Exists
<1>11. JobKnows(i)'
  BY <1>1, <1>2, <1>5, <1>6, <1>9 DEF JobKnows, No!Exists
<1>12. JobToken(i)'
  <2>1. No!Exists(job[i].node)' => row'[job[i].node].token = job[i].token
    BY <1>1, <1>2, <1>5, <1>6, <1>7, <1>9 DEF No!Exists
  <2>2. row'[job'[i].node].address # Nothing => row'[job'[i].node].token = job[i].token
    BY <1>2, <1>5, <1>6, <1>7, <1>9 DEF No!Exists
  <2>3. job[i].heard = 0 /\ job[i].kind = "bootstrap"
    BY <1>1, <1>2 DEF JobToken, JobKnows
  <2> QED
    BY <1>1, <1>2, <1>3, <1>5, <1>6, <2>2, <2>3 DEF JobToken, No!Exists
<1>13. /\ job[i].at # "none" /\ Leaves(i) /\ new.at \notin {"none", "queued"} /\ action' = action
       /\ tokens' \in Nat /\ tokens <= tokens' /\ machine' \in Machines
  BY <1>1, <1>2, <1>5 DEF Leaves, OpsInv, OpsTyped, Machines
<1> QED
  BY <1>1, <1>5, <1>6, <1>7, <1>8, <1>10, <1>11, <1>12, <1>13, OpsAdvances

LEMMA MachineSet ==
  ASSUME machine \in Machines, NEW s \in Servers,
         NEW r \in [node : Nodes \cup {Nothing}, token : Nat, up : BOOLEAN],
         \/ machine' = [machine EXCEPT ![s] = r]
         \/ machine' = [machine EXCEPT ![s].up = TRUE]
  PROVE machine' \in Machines
<1>1. machine[s] \in [node : Nodes \cup {Nothing}, token : Nat, up : BOOLEAN]
  BY DEF Machines
<1>2. [machine[s] EXCEPT !.up = TRUE] \in [node : Nodes \cup {Nothing}, token : Nat, up : BOOLEAN]
  BY <1>1
<1>3. CASE machine' = [machine EXCEPT ![s] = r]
  BY <1>3 DEF Machines
<1>4. CASE machine' = [machine EXCEPT ![s].up = TRUE]
  BY <1>2, <1>4 DEF Machines
<1> QED
  BY <1>3, <1>4

LEMMA OpsOverSsh ==
  ASSUME OpsInv, NEW i \in No!Ids, No!InstallOverSsh(i) \/ No!StartOverSsh(i) \/ No!RestartOverSsh(i)
  PROVE OpsInv'
<1>1. job[i].at \in {"install", "start", "restart"} /\ UNCHANGED <<row, tokens, leads, install, deleting, queue, piped, made>>
  BY DEF No!InstallOverSsh, No!StartOverSsh, No!RestartOverSsh, No!JobOnly
<1>2. job[i] \in JobRow /\ JobKnows(i) /\ job[i].node \in Nodes /\ machine \in Machines
  BY <1>1, LiveJob DEF OpsInv, OpsTyped, Machines
<1>3. CASE No!End(i, "failed") /\ UNCHANGED machine
  BY <1>1, <1>3, OpsFails
<1>4. CASE No!InstallOverSsh(i) /\ ~(No!End(i, "failed") /\ UNCHANGED machine)
  <2>1. /\ machine' = [machine EXCEPT ![job[i].identity] = [node |-> job[i].node, token |-> job[i].token, up |-> FALSE]]
        /\ job' = [job EXCEPT ![i] = [job[i] EXCEPT !.at = "register"]] /\ action' = action /\ job[i].at = "install"
    BY <1>4 DEF No!InstallOverSsh, No!Job
  <2>2. job[i].identity \in Servers /\ [node |-> job[i].node, token |-> job[i].token, up |-> FALSE]
                                         \in [node : Nodes \cup {Nothing}, token : Nat, up : BOOLEAN]
    BY <1>2, <2>1 DEF JobRow, JobKnows
  <2>3. machine' \in Machines
    BY <1>2, <2>1, <2>2, MachineSet
  <2> QED
    BY <1>1, <2>1, <2>3, OpsGoesOn
<1>5. CASE No!StartOverSsh(i) /\ ~(No!End(i, "failed") /\ UNCHANGED machine)
  <2>1. /\ machine' = [machine EXCEPT ![job[i].identity].up = TRUE]
        /\ job' = [job EXCEPT ![i] = [job[i] EXCEPT !.at = "wait"]] /\ action' = action /\ job[i].at = "start"
    BY <1>5 DEF No!StartOverSsh, No!Job
  <2>2. job[i].identity \in Servers
    BY <1>2, <2>1 DEF JobRow, JobKnows
  <2>3. machine' \in Machines
    BY <1>2, <2>1, <2>2, MachineSet DEF Machines
  <2> QED
    BY <1>1, <2>1, <2>3, OpsGoesOn
<1>6. CASE No!RestartOverSsh(i) /\ ~(No!End(i, "failed") /\ UNCHANGED machine)
  <2>1. /\ machine' = [machine EXCEPT ![job[i].identity].up = TRUE] /\ job[i].identity # Nothing
        /\ job' = [job EXCEPT ![i] = [job[i] EXCEPT !.at = "wait"]] /\ action' = action /\ job[i].at = "restart"
    BY <1>6 DEF No!RestartOverSsh, No!Job
  <2>2. job[i].identity \in Servers
    BY <1>2, <2>1 DEF JobRow
  <2>3. machine' \in Machines
    BY <1>2, <2>1, <2>2, MachineSet DEF Machines
  <2> QED
    BY <1>1, <2>1, <2>3, OpsGoesOn
<1> QED
  BY <1>3, <1>4, <1>5, <1>6

LEMMA OpsWaitEnds ==
  ASSUME OpsInv, NEW i \in No!Ids, No!HeartbeatCame(i) \/ No!WaitTimesOut(i) \/ No!CommandFails(i)
  PROVE OpsInv'
<1>1. CASE No!WaitTimesOut(i)
  BY <1>1, OpsFails DEF No!WaitTimesOut, No!JobOnly
<1>2. CASE No!CommandFails(i)
  BY <1>2, OpsFails DEF No!CommandFails
<1>3. CASE No!HeartbeatCame(i)
  <2>1. /\ job[i].at = "wait" /\ job[i].heard # 0 /\ No!Becomes(i, "succeeded")
        /\ row' = IF job[i].forget /\ No!Exists(job[i].node) THEN [row EXCEPT ![job[i].node].credential = "none"] ELSE row
        /\ job' = [job EXCEPT ![i] = IF job[i].token = 0 THEN No!NoJob
                                     ELSE [No!NoJob EXCEPT !.token = job[i].token, !.heard = job[i].heard, !.overlap = job[i].overlap]]
        /\ UNCHANGED <<leads, install, deleting, queue, machine, piped, made, tokens>>
    BY <1>3 DEF No!HeartbeatCame, No!Heard, No!Job, No!JobOnly
  <2>2. job[i] \in JobRow /\ JobToken(i) /\ job[i].node \in Nodes /\ row \in [Nodes -> NodeRow]
    BY <2>1, LiveJob
  <2>3. PICK full : full = [No!NoJob EXCEPT !.token = job[i].token, !.heard = job[i].heard, !.overlap = job[i].overlap]
    OBVIOUS
  <2>4. /\ job[i].token \in Nat /\ job[i].heard \in Nat /\ job[i].overlap \in BOOLEAN
        /\ job[i].kind # "restart" => job[i].token <= job[i].heard \/ job[i].overlap
    BY <2>1, <2>2 DEF JobRow, JobToken
  <2>5. PICK new : new = IF job[i].token = 0 THEN No!NoJob ELSE full
    OBVIOUS
  <2>6. /\ new \in JobRow /\ new.at = "none" /\ new.token = job[i].token
        /\ job[i].kind # "restart" => new.token <= new.heard \/ new.overlap
    <3>1. /\ No!NoJob \in JobRow /\ No!NoJob.at = "none" /\ No!NoJob.token = 0 /\ No!NoJob.heard = 0
      BY Nothings DEF No!NoJob
    <3>2. full \in JobRow /\ full.at = "none" /\ full.token = job[i].token /\ full.heard = job[i].heard /\ full.overlap = job[i].overlap
      BY <2>3, <2>4, <3>1 DEF JobRow
    <3> QED
      BY <2>4, <2>5, <3>1, <3>2
  <2>7. job' = [job EXCEPT ![i] = new]
    BY <2>1, <2>3, <2>5
  <2>8. /\ row' \in [Nodes -> NodeRow]
        /\ \A m \in Nodes : /\ row'[m].identity = row[m].identity /\ row'[m].address = row[m].address
                            /\ row'[m].token = row[m].token /\ row'[m].new = row[m].new
    <3>1. CASE job[i].forget /\ No!Exists(job[i].node)
      BY <2>1, <2>2, <3>1, CredentialSet
    <3>2. CASE ~(job[i].forget /\ No!Exists(job[i].node))
      BY <2>1, <2>2, <3>2
    <3> QED
      BY <3>1, <3>2
  <2>9. /\ job[i].at # "none" /\ Leaves(i) /\ new.token <= tokens /\ machine' \in Machines
    BY <2>1, <2>2, <2>4, <2>6 DEF Leaves, JobToken, OpsInv, OpsTyped, Machines
  <2> QED
    BY <2>1, <2>6, <2>7, <2>8, <2>9, OpsEnds
<1> QED
  BY <1>1, <1>2, <1>3

(* A new action, of a row that is there now, and the job that works on it. *)
LEMMA OpsAdded ==
  ASSUME OpsInv, NEW n \in Nodes, NEW k \in {"bootstrap", "restart", "join"}, NEW st \in {"queued", "running"},
         No!AddAction(n, k, st), No!Exists(n) \/ row[n].new,
         NEW new \in JobRow, job' = [job EXCEPT ![Len(action) + 1] = new], new.node = n, new.kind = k, new.heard = 0,
         \/ new.at = "queued" /\ queue' = Append(queue, Len(action) + 1) /\ k # "join"
         \/ new.at = "wait" /\ queue' = queue /\ new.token <= row'[n].token,
         new.token <= tokens', tokens' \in Nat, tokens <= tokens',
         row' \in [Nodes -> NodeRow], row'[n].address # Nothing, ~row'[n].new, row'[n].token <= tokens',
         \A m \in Nodes : m # n => row'[m] = row[m],
         install' \subseteq Nodes, piped' \subseteq [server : Servers, node : Nodes, token : Nat],
         UNCHANGED <<leads, deleting, machine>>, RowsApart'
  PROVE OpsInv'
<1>0. PICK N : N = Len(action) + 1
  OBVIOUS
<1>1. /\ action \in Seq(ActionRow) /\ made = Len(action) /\ job \in [No!Ids -> JobRow] /\ row \in [Nodes -> NodeRow]
      /\ queue \in Seq(No!Ids)
  BY DEF OpsInv, OpsTyped
<1>2. /\ action' \in Seq(ActionRow) /\ Len(action') = N /\ made' = Len(action')
      /\ N \in No!Ids /\ made' <= MaxActions
      /\ \A x \in 1..Len(action) : action'[x] = action[x]
      /\ action'[N] = [node |-> n, kind |-> k, status |-> st]
      /\ \A x \in 1..Len(action) : action[x].node = n => ~No!Active(action[x])
  <2>1. /\ action' \in Seq(ActionRow) /\ Len(action') = Len(action) + 1 /\ made' = Len(action')
        /\ Len(action) + 1 \in No!Ids /\ made' <= MaxActions
        /\ \A x \in 1..Len(action) : action'[x] = action[x]
        /\ action'[Len(action) + 1] = [node |-> n, kind |-> k, status |-> st]
        /\ \A x \in 1..Len(action) : action[x].node = n => ~No!Active(action[x])
    <3>1. [node |-> n, kind |-> k, status |-> st] \in ActionRow
      BY DEF ActionRow
    <3>2. /\ made < MaxActions /\ made' = made + 1 /\ ~No!Busy(n)
          /\ action' = Append(action, [node |-> n, kind |-> k, status |-> st])
      BY DEF No!AddAction
    <3>3. PICK a \in ActionRow : a = [node |-> n, kind |-> k, status |-> st]
      BY <3>1
    <3>4. action' = Append(action, a) /\ action \in Seq(ActionRow) /\ made = Len(action)
      BY <1>1, <3>2, <3>3
    <3>5. /\ action' \in Seq(ActionRow) /\ Len(action') = Len(action) + 1 /\ action'[Len(action) + 1] = a
          /\ \A x \in 1..Len(action) : action'[x] = action[x]
      BY <3>4
    <3>6. \A x \in 1..Len(action) : action[x].node = n => ~No!Active(action[x])
      BY <3>2 DEF No!Busy
    <3>7. Len(action) + 1 \in No!Ids /\ made' = Len(action') /\ made' <= MaxActions
      BY <3>2, <3>4, <3>5, OpsConstants
    <3> QED
      BY <3>3, <3>5, <3>6, <3>7
  <2> QED
    BY <1>0, <2>1
<1>3. job' \in [No!Ids -> JobRow] /\ job'[N] = new /\ \A x \in No!Ids : x # N => job'[x] = job[x]
  BY <1>0, <1>1, <1>2
<1>4. job[N].at = "none"
  <2>1. JobOfAction(N)
    BY <1>2 DEF OpsInv, JobsOfActions
  <2> QED
    BY <1>0, <1>1, <2>1 DEF JobOfAction
<1>5. Queued' /\ queue' \in Seq(No!Ids)
  <2>1. \A x \in 1..Len(queue) : queue[x] \in No!Ids /\ queue[x] # N /\ job[queue[x]].at = "queued"
    BY <1>1, <1>4 DEF OpsInv, Queued
  <2>2. CASE queue' = queue /\ new.at = "wait"
    BY <1>1, <1>3, <2>1, <2>2 DEF OpsInv, Queued
  <2>3. CASE queue' = Append(queue, N) /\ new.at = "queued"
    <3>1. /\ queue' \in Seq(No!Ids) /\ Len(queue') = Len(queue) + 1 /\ queue'[Len(queue) + 1] = N
          /\ \A x \in 1..Len(queue) : queue'[x] = queue[x]
      BY <1>1, <1>2, <2>3
    <3>2. \A x \in 1..Len(queue') : x \in 1..Len(queue) \/ x = Len(queue) + 1
      BY <1>1, <3>1
    <3>3. \A x \in 1..Len(queue') : job'[queue'[x]].at = "queued"
      BY <1>3, <2>1, <2>3, <3>1, <3>2
    <3>4. \A x, y \in 1..Len(queue) : x # y => queue[x] # queue[y]
      BY DEF OpsInv, Queued
    <3>5. \A x, y \in 1..Len(queue') : x # y => queue'[x] # queue'[y]
      BY <2>1, <3>1, <3>2, <3>4
    <3> QED
      BY <3>1, <3>3, <3>5 DEF Queued
  <2> QED
    BY <1>0, <2>2, <2>3
<1>6. OpsTyped'
  BY <1>2, <1>3, <1>5 DEF OpsInv, OpsTyped
<1>7. \A x \in 1..Len(action') : x \in 1..Len(action) \/ x = N
  BY <1>0, <1>1, <1>2
<1>8. OneActive'
  <2>1. ASSUME NEW x \in 1..Len(action'), No!Active(action[x])' PROVE No!Exists(action[x].node)'
    <3>1. CASE x = N
      BY <1>2, <3>1 DEF No!Exists
    <3>2. CASE x \in 1..Len(action)
      <4>1. action'[x] = action[x] /\ action[x].node \in Nodes /\ No!Active(action[x])
        BY <1>1, <1>2, <2>1, <3>2, ActionNodes DEF No!Active
      <4>2. action[x].node # n /\ No!Exists(action[x].node)
        BY <1>2, <3>2, <4>1 DEF OpsInv, OneActive
      <4> QED
        BY <4>1, <4>2 DEF No!Exists
    <3> QED
      BY <1>7, <3>1, <3>2
  <2>2. ASSUME NEW x \in 1..Len(action'), NEW y \in 1..Len(action'), x # y, No!Active(action[x])', No!Active(action[y])'
        PROVE action'[x].node # action'[y].node
    BY <1>2, <1>7, <2>2 DEF OpsInv, OneActive, No!Active
  <2> QED
    BY <2>1, <2>2 DEF OneActive
<1>9. ASSUME NEW x \in No!Ids, x # N, job[x].at # "none"
      PROVE /\ job'[x] = job[x] /\ x \in 1..Len(action) /\ action'[x] = action[x] /\ job[x].node \in Nodes
            /\ row'[job[x].node] = row[job[x].node] /\ JobOfAction(x)
  <2>1. x \in 1..Len(action) /\ job[x].node \in Nodes /\ JobOfAction(x)
    BY <1>9, LiveNodes
  <2>2. job[x].node # n
    BY <1>2, <1>9, <2>1 DEF JobOfAction
  <2> QED
    BY <1>2, <1>3, <1>9, <2>1, <2>2
<1>10. JobsOfActions'
  <2>1. JobOfAction(N)'
    BY <1>2, <1>3 DEF JobOfAction, No!Active
  <2>2. ASSUME NEW x \in No!Ids, x # N, job[x].at # "none" PROVE JobOfAction(x)'
    BY <1>0, <1>1, <1>2, <1>9, <2>2 DEF JobOfAction, No!Active, No!Exists
  <2>3. ASSUME NEW x \in No!Ids, x # N, job[x].at = "none" PROVE JobOfAction(x)'
    BY <1>3, <2>3 DEF JobOfAction
  <2> QED
    BY <2>1, <2>2, <2>3 DEF JobsOfActions
<1>11. JobsKnow'
  <2>1. JobKnows(N)'
    BY <1>3 DEF JobKnows
  <2>2. ASSUME NEW x \in No!Ids, x # N PROVE JobKnows(x)'
    <3>1. JobKnows(x)
      BY DEF OpsInv, JobsKnow
    <3>2. CASE job[x].at = "none"
      BY <1>3, <2>2, <3>2 DEF JobKnows
    <3>3. CASE job[x].at # "none"
      BY <1>9, <2>2, <3>1, <3>3 DEF JobKnows, No!Exists
    <3> QED
      BY <3>2, <3>3
  <2> QED
    BY <2>1, <2>2 DEF JobsKnow
<1>12. TokensGrow'
  <2>1. (\A m \in Nodes : row[m].token <= tokens)'
    <3> SUFFICES ASSUME NEW m \in Nodes, m # n PROVE row'[m].token <= tokens'
      OBVIOUS
    <3>1. row[m].token <= tokens /\ row[m].token \in Nat /\ row'[m] = row[m] /\ tokens \in Nat
      BY <1>1 DEF OpsInv, OpsTyped, TokensGrow, NodeRow
    <3> QED
      BY <3>1
  <2>2. JobToken(N)'
    BY <1>2, <1>3 DEF JobToken
  <2>3. ASSUME NEW x \in No!Ids, x # N PROVE JobToken(x)'
    <3>1. JobToken(x) /\ job'[x] = job[x] /\ job[x].token \in Nat /\ tokens \in Nat
      BY <1>1, <1>3, <2>3 DEF OpsInv, OpsTyped, TokensGrow, JobRow
    <3>2. x <= Len(action') => x \in 1..Len(action) /\ action'[x] = action[x]
      BY <1>2, <1>7, <2>3, OpsConstants
    <3>3. job[x].token <= tokens'
      BY <3>1 DEF JobToken
    <3>4. CASE job[x].at = "none"
      BY <3>1, <3>2, <3>3, <3>4 DEF JobToken
    <3>5. CASE job[x].at # "none"
      BY <1>9, <2>3, <3>1, <3>2, <3>3, <3>5 DEF JobToken, No!Exists
    <3> QED
      BY <3>4, <3>5
  <2> QED
    BY <2>1, <2>2, <2>3 DEF TokensGrow
<1> QED
  BY <1>5, <1>6, <1>8, <1>10, <1>11, <1>12 DEF OpsInv

(* The routes that add no action and end none. *)
LEMMA OpsRoutes ==
  ASSUME OpsInv,
         \/ \E n \in Nodes : \/ \E a \in Addresses : No!AddByCommand(n, a) \/ \E yes \in BOOLEAN : No!EditNode(n, a, yes)
                             \/ No!InstallCommand(n) \/ No!ClearCredential(n) \/ No!AskDelete(n)
         \/ \E p \in piped : No!RunScript(p)
         \/ No!AddressMoves
  PROVE OpsInv'
<1>1. /\ leads \in [Addresses -> Servers] /\ row \in [Nodes -> NodeRow] /\ install \subseteq Nodes /\ deleting \subseteq Nodes
      /\ machine \in Machines /\ piped \subseteq [server : Servers, node : Nodes, token : Nat] /\ tokens \in Nat
      /\ \A n \in Nodes : row[n].token <= tokens /\ row[n].token \in Nat
      /\ RowsApart
  BY DEF OpsInv, OpsTyped, Machines, TokensGrow, NodeRow
<1>2. ASSUME UNCHANGED <<action, job, queue, made, tokens, row>>,
             leads' \in [Addresses -> Servers], install' \subseteq Nodes, deleting' \subseteq Nodes,
             machine' \in Machines, piped' \subseteq [server : Servers, node : Nodes, token : Nat],
             \A n \in install' : No!Exists(n)
      PROVE OpsInv'
  <2>1. RowsApart'
    BY <1>1, <1>2 DEF RowsApart, No!Exists
  <2>2. /\ row' \in [Nodes -> NodeRow] /\ tokens' \in Nat /\ tokens <= tokens'
        /\ \A n \in Nodes : \/ row[n].new /\ row'[n].token = 0
                            \/ /\ row'[n].identity = row[n].identity /\ (row'[n].address = Nothing <=> row[n].address = Nothing)
                               /\ row[n].token <= row'[n].token /\ row'[n].token <= tokens' /\ row'[n].new = row[n].new
    BY <1>1, <1>2
  <2> QED
    BY <1>2, <2>1, <2>2, OpsIdle
<1>3. \A n \in install : No!Exists(n)
  BY <1>1 DEF RowsApart
<1>4. ASSUME NEW n \in Nodes, No!InstallCommand(n) \/ No!AskDelete(n) PROVE OpsInv'
  <2>1. /\ UNCHANGED <<action, job, queue, made, tokens, row, leads, machine, piped>>
        /\ install' \subseteq install \cup {n} /\ deleting' \subseteq deleting \cup {n} /\ No!Exists(n)
    BY <1>4 DEF No!InstallCommand, No!AskDelete
  <2> QED
    BY <1>1, <1>2, <1>3, <2>1
<1>5. ASSUME NEW p \in piped, No!RunScript(p) PROVE OpsInv'
  <2>1. /\ UNCHANGED <<action, job, queue, made, tokens, row, leads, install, deleting>> /\ piped' \subseteq piped
        /\ machine' = [machine EXCEPT ![p.server] = [node |-> p.node, token |-> p.token, up |-> TRUE]] \/ machine' = machine
    BY <1>5 DEF No!RunScript
  <2>2. p.server \in Servers /\ [node |-> p.node, token |-> p.token, up |-> TRUE] \in [node : Nodes \cup {Nothing}, token : Nat, up : BOOLEAN]
    BY <1>1
  <2>3. machine' \in Machines
    BY <1>1, <2>1, <2>2, MachineSet
  <2> QED
    BY <1>1, <1>2, <1>3, <2>1, <2>3
<1>6. CASE No!AddressMoves
  <2>1. /\ UNCHANGED <<action, job, queue, made, tokens, row, machine, piped, install, deleting>>
        /\ leads' \in [Addresses -> Servers]
    BY <1>1, <1>6 DEF No!AddressMoves
  <2> QED
    BY <1>1, <1>2, <1>3, <2>1
<1>7. ASSUME NEW n \in Nodes, No!ClearCredential(n) PROVE OpsInv'
  <2>1. /\ UNCHANGED <<action, job, queue, made, tokens, leads, machine, piped, install, deleting>>
        /\ row' = [row EXCEPT ![n].credential = "none"]
    BY <1>7 DEF No!ClearCredential
  <2>2. /\ row' \in [Nodes -> NodeRow]
        /\ \A m \in Nodes : /\ row'[m].address = row[m].address /\ row'[m].identity = row[m].identity
                            /\ row'[m].token = row[m].token /\ row'[m].new = row[m].new
    BY <1>1, <2>1, CredentialSet
  <2>3. RowsApart'
    BY <1>1, <2>1, <2>2 DEF RowsApart, No!Exists
  <2>4. \A m \in Nodes : \/ row[m].new /\ row'[m].token = 0
                         \/ /\ row'[m].identity = row[m].identity /\ (row'[m].address = Nothing <=> row[m].address = Nothing)
                            /\ row[m].token <= row'[m].token /\ row'[m].token <= tokens' /\ row'[m].new = row[m].new
    BY <1>1, <2>1, <2>2
  <2> QED
    BY <1>1, <2>1, <2>2, <2>3, <2>4, OpsIdle
<1>8. ASSUME NEW n \in Nodes, NEW a \in Addresses, NEW yes \in BOOLEAN, No!EditNode(n, a, yes) PROVE OpsInv'
  <2>1. /\ UNCHANGED <<action, job, queue, made, tokens, leads, machine, piped, install, deleting>>
        /\ row' = [row EXCEPT ![n].address = a, ![n].credential = IF yes THEN "ssh" ELSE row[n].credential]
        /\ row[n].address # Nothing
    BY <1>8 DEF No!EditNode, No!Exists
  <2>2. PICK c \in {"none", "ssh"} : c = IF yes THEN "ssh" ELSE row[n].credential
    BY <1>1 DEF NodeRow
  <2>3. PICK new : new = [row[n] EXCEPT !.address = a, !.credential = c]
    OBVIOUS
  <2>4. /\ new \in NodeRow /\ new.address = a /\ new.identity = row[n].identity
        /\ new.token = row[n].token /\ new.new = row[n].new
    <3>1. row[n] \in NodeRow
      BY <1>1
    <3> QED
      BY <2>3, <3>1 DEF NodeRow
  <2>5. row' = [row EXCEPT ![n] = new]
    BY <1>1, <2>1, <2>2, <2>3
  <2>6. row' \in [Nodes -> NodeRow] /\ row'[n] = new /\ \A m \in Nodes : m # n => row'[m] = row[m]
    BY <1>1, <2>4, <2>5
  <2>7. \A m \in Nodes : /\ row'[m].identity = row[m].identity /\ (row'[m].address = Nothing <=> row[m].address = Nothing)
                         /\ row'[m].token = row[m].token /\ row'[m].new = row[m].new
    BY <2>1, <2>4, <2>6, OpsConstants
  <2>8. RowsApart'
    BY <1>1, <2>1, <2>7 DEF RowsApart, No!Exists
  <2>9. \A m \in Nodes : \/ row[m].new /\ row'[m].token = 0
                         \/ /\ row'[m].identity = row[m].identity /\ (row'[m].address = Nothing <=> row[m].address = Nothing)
                            /\ row[m].token <= row'[m].token /\ row'[m].token <= tokens' /\ row'[m].new = row[m].new
    BY <1>1, <2>1, <2>7
  <2> QED
    BY <1>1, <2>1, <2>6, <2>8, <2>9, OpsIdle
<1>9. ASSUME NEW n \in Nodes, NEW a \in Addresses, No!AddByCommand(n, a) PROVE OpsInv'
  <2>1. /\ UNCHANGED <<action, job, queue, made, tokens, leads, machine, piped, deleting>>
        /\ row' = [row EXCEPT ![n] = [No!NoRow EXCEPT !.address = a]] /\ row[n].new /\ install' = install \cup {n}
    BY <1>9 DEF No!AddByCommand
  <2>2. PICK new : new = [No!NoRow EXCEPT !.address = a]
    OBVIOUS
  <2>3. new \in NodeRow /\ new.address = a /\ new.identity = Nothing /\ new.token = 0 /\ ~new.new
    BY <2>2, Nothings DEF NodeRow, No!NoRow
  <2>4. row' \in [Nodes -> NodeRow] /\ row'[n] = new /\ \A m \in Nodes : m # n => row'[m] = row[m]
    BY <1>1, <2>1, <2>2, <2>3
  <2>5. RowsApart'
    <3>1. (\A m \in Nodes : ~No!Exists(m) => row[m].identity = Nothing)'
      BY <1>1, <2>3, <2>4 DEF RowsApart, No!Exists
    <3>2. (\A m \in Nodes : row[m].new => ~No!Exists(m))'
      BY <1>1, <2>3, <2>4 DEF RowsApart, No!Exists
    <3>3. (\A m, k \in Nodes : m # k /\ row[m].identity # Nothing => row[m].identity # row[k].identity)'
      BY <1>1, <2>3, <2>4 DEF RowsApart
    <3>4. (\A m \in install : No!Exists(m))'
      BY <1>1, <2>1, <2>3, <2>4, OpsConstants DEF RowsApart, No!Exists
    <3> QED
      BY <3>1, <3>2, <3>3, <3>4 DEF RowsApart
  <2>6. \A m \in Nodes : \/ row[m].new /\ row'[m].token = 0
                         \/ /\ row'[m].identity = row[m].identity /\ (row'[m].address = Nothing <=> row[m].address = Nothing)
                            /\ row[m].token <= row'[m].token /\ row'[m].token <= tokens' /\ row'[m].new = row[m].new
    <3>1. row[n].new /\ row'[n].token = 0
      BY <2>1, <2>3, <2>4
    <3>2. tokens' = tokens /\ \A m \in Nodes : m # n => row'[m] = row[m]
      BY <2>1, <2>4
    <3>3. ASSUME NEW m \in Nodes, m # n
          PROVE /\ row'[m].identity = row[m].identity /\ (row'[m].address = Nothing <=> row[m].address = Nothing)
                /\ row[m].token <= row'[m].token /\ row'[m].token <= tokens' /\ row'[m].new = row[m].new
      <4>1. row'[m] = row[m] /\ row[m].token <= tokens /\ row[m].token \in Nat
        BY <1>1, <3>2, <3>3
      <4> QED
        BY <3>2, <4>1
    <3> QED
      BY <3>1, <3>3
  <2>7. install' \subseteq Nodes
    BY <1>1, <2>1
  <2> QED
    BY <1>1, <2>1, <2>4, <2>5, <2>6, <2>7, OpsIdle
<1> QED
  BY <1>4, <1>5, <1>6, <1>7, <1>8, <1>9

LEMMA OpsQueues ==
  ASSUME OpsInv, NEW n \in Nodes,
         \/ \E k \in {"bootstrap", "restart"} : No!QueueAction(n, k)
         \/ \E a \in Addresses, yes \in BOOLEAN : No!AddNode(n, a, yes)
  PROVE OpsInv'
<1>1. /\ leads \in [Addresses -> Servers] /\ row \in [Nodes -> NodeRow] /\ install \subseteq Nodes
      /\ piped \subseteq [server : Servers, node : Nodes, token : Nat] /\ tokens \in Nat /\ RowsApart
      /\ \A m \in Nodes : row[m].token <= tokens /\ row[m].token \in Nat
  BY DEF OpsInv, OpsTyped, TokensGrow, NodeRow
<1>0. No!NoJob \in JobRow /\ No!NoJob.heard = 0 /\ No!NoJob.token = 0
  BY Nothings DEF No!NoJob
<1>2. ASSUME NEW k \in {"bootstrap", "restart"}, No!QueueAction(n, k) PROVE OpsInv'
  <2>1. PICK new : new = [No!NoJob EXCEPT !.at = "queued", !.node = n, !.kind = k, !.forget = FALSE]
    OBVIOUS
  <2>2. /\ No!AddAction(n, k, "queued") /\ No!Exists(n) /\ queue' = Append(queue, Len(action) + 1)
        /\ job' = [job EXCEPT ![Len(action) + 1] = new]
        /\ UNCHANGED <<leads, row, install, deleting, machine, piped, tokens>>
    BY <1>2, <2>1 DEF No!QueueAction, No!Enqueue
  <2>3. new \in JobRow /\ new.at = "queued" /\ new.node = n /\ new.kind = k /\ new.heard = 0 /\ new.token = 0
    BY <1>0, <2>1 DEF JobRow
  <2>4. RowsApart'
    BY <1>1, <2>2 DEF RowsApart, No!Exists
  <2>5. row[n].address # Nothing /\ ~row[n].new
    BY <1>1, <2>2 DEF RowsApart, No!Exists
  <2>6. /\ new.token <= tokens' /\ tokens' \in Nat /\ tokens <= tokens'
        /\ row' \in [Nodes -> NodeRow] /\ row'[n].address # Nothing /\ ~row'[n].new /\ row'[n].token <= tokens'
        /\ \A m \in Nodes : m # n => row'[m] = row[m]
        /\ install' \subseteq Nodes /\ piped' \subseteq [server : Servers, node : Nodes, token : Nat]
        /\ k # "join" /\ UNCHANGED <<leads, deleting, machine>>
    BY <1>1, <2>2, <2>3, <2>5
  <2> QED
    BY <2>2, <2>3, <2>4, <2>6, OpsAdded
<1>3. ASSUME NEW a \in Addresses, NEW yes \in BOOLEAN, No!AddNode(n, a, yes) PROVE OpsInv'
  <2>1. PICK new : new = [No!NoJob EXCEPT !.at = "queued", !.node = n, !.kind = "bootstrap", !.forget = yes]
    OBVIOUS
  <2>2. PICK fresh : fresh = [address |-> a, identity |-> leads[a], credential |-> "ssh", token |-> 0, new |-> FALSE]
    OBVIOUS
  <2>3. /\ No!AddAction(n, "bootstrap", "queued") /\ row[n].new /\ queue' = Append(queue, Len(action) + 1)
        /\ job' = [job EXCEPT ![Len(action) + 1] = new] /\ row' = [row EXCEPT ![n] = fresh]
        /\ ~No!Conflict(leads[a], a, n) /\ UNCHANGED <<leads, install, deleting, machine, piped, tokens>>
    BY <1>3, <2>1, <2>2 DEF No!AddNode, No!Enqueue
  <2>4. new \in JobRow /\ new.at = "queued" /\ new.node = n /\ new.kind = "bootstrap" /\ new.heard = 0 /\ new.token = 0
    BY <1>0, <2>1 DEF JobRow
  <2>5. fresh \in NodeRow /\ fresh.address = a /\ fresh.identity = leads[a] /\ fresh.token = 0 /\ ~fresh.new
    BY <1>1, <2>2 DEF NodeRow
  <2>6. row' \in [Nodes -> NodeRow] /\ row'[n] = fresh /\ \A m \in Nodes : m # n => row'[m] = row[m]
    BY <1>1, <2>3, <2>5
  <2>7. \A m \in Nodes : m # n => row[m].identity # leads[a]
    <3>1. \A m \in Nodes : m # n /\ No!Exists(m) => row[m].identity # leads[a]
      BY <2>3 DEF No!Conflict
    <3>2. \A m \in Nodes : ~No!Exists(m) => row[m].identity # leads[a]
      BY <1>1, OpsConstants DEF RowsApart
    <3> QED
      BY <3>1, <3>2
  <2>8. RowsApart'
    <3>1. (\A m \in Nodes : ~No!Exists(m) => row[m].identity = Nothing)'
      BY <1>1, <2>5, <2>6, OpsConstants DEF RowsApart, No!Exists
    <3>2. (\A m \in Nodes : row[m].new => ~No!Exists(m))'
      BY <1>1, <2>5, <2>6 DEF RowsApart, No!Exists
    <3>3. (\A m, k \in Nodes : m # k /\ row[m].identity # Nothing => row[m].identity # row[k].identity)'
      BY <1>1, <2>5, <2>6, <2>7 DEF RowsApart
    <3>4. (\A m \in install : No!Exists(m))'
      BY <1>1, <2>3, <2>5, <2>6, OpsConstants DEF RowsApart, No!Exists
    <3> QED
      BY <3>1, <3>2, <3>3, <3>4 DEF RowsApart
  <2>9. /\ new.token <= tokens' /\ tokens' \in Nat /\ tokens <= tokens'
        /\ row'[n].address # Nothing /\ ~row'[n].new /\ row'[n].token <= tokens'
        /\ install' \subseteq Nodes /\ piped' \subseteq [server : Servers, node : Nodes, token : Nat]
        /\ "bootstrap" # "join" /\ UNCHANGED <<leads, deleting, machine>>
    BY <1>1, <2>3, <2>4, <2>5, <2>6, OpsConstants
  <2> QED
    BY <2>3, <2>4, <2>6, <2>8, <2>9, OpsAdded
<1> QED
  BY <1>2, <1>3

LEMMA OpsJoin ==
  ASSUME OpsInv, NEW n \in Nodes, NEW s \in Servers, No!Join(n, s)
  PROVE OpsInv'
<1>1. /\ row \in [Nodes -> NodeRow] /\ install \subseteq Nodes /\ deleting \subseteq Nodes /\ machine \in Machines
      /\ piped \subseteq [server : Servers, node : Nodes, token : Nat] /\ tokens \in Nat /\ RowsApart
      /\ leads \in [Addresses -> Servers]
      /\ \A m \in Nodes : row[m].token <= tokens /\ row[m].token \in Nat
  BY DEF OpsInv, OpsTyped, Machines, TokensGrow, NodeRow
<1>2. /\ n \in install /\ install' = install \ {n} /\ tokens' = tokens + 1 /\ row' = [row EXCEPT ![n].token = tokens + 1]
      /\ piped' = piped \cup {[server |-> s, node |-> n, token |-> tokens + 1]}
      /\ UNCHANGED <<leads, deleting, queue, machine>>
  BY DEF No!Join
<1>3. PICK t \in Nat : t = tokens + 1
  BY <1>1
<1>4. /\ row' \in [Nodes -> NodeRow] /\ row'[n].token = t
      /\ \A m \in Nodes : m # n => row'[m] = row[m]
      /\ row'[n].address = row[n].address /\ row'[n].identity = row[n].identity /\ row'[n].new = row[n].new
  BY <1>1, <1>2, <1>3, TokenSet
<1>5. row[n].address # Nothing /\ ~row[n].new
  BY <1>1, <1>2 DEF RowsApart, No!Exists
<1>6. \A m \in Nodes : row'[m].address = row[m].address /\ row'[m].identity = row[m].identity /\ row'[m].new = row[m].new
  BY <1>4
<1>7. RowsApart'
  BY <1>1, <1>2, <1>6 DEF RowsApart, No!Exists
<1>8. /\ tokens' \in Nat /\ tokens <= tokens' /\ install' \subseteq Nodes /\ deleting' \subseteq Nodes /\ machine' \in Machines
      /\ piped' \subseteq [server : Servers, node : Nodes, token : Nat] /\ leads' \in [Addresses -> Servers]
      /\ tokens' = t /\ row'[n].token <= tokens'
  BY <1>1, <1>2, <1>3, <1>4
<1>9. CASE UNCHANGED <<action, job, made>>
  <2>1. ASSUME NEW m \in Nodes
        PROVE /\ row'[m].identity = row[m].identity /\ (row'[m].address = Nothing <=> row[m].address = Nothing)
              /\ row[m].token <= row'[m].token /\ row'[m].token <= tokens' /\ row'[m].new = row[m].new
    <3>1. row[m].token <= tokens /\ row[m].token \in Nat /\ (row'[m].token = row[m].token \/ row'[m].token = tokens')
      BY <1>1, <1>4, <1>8
    <3>2. row[m].token <= row'[m].token /\ row'[m].token <= tokens'
      BY <1>1, <1>8, <3>1
    <3> QED
      BY <1>6, <3>2
  <2> QED
    BY <1>2, <1>4, <1>7, <1>8, <1>9, <2>1, OpsIdle
<1>10. CASE No!AddAction(n, "join", "running")
            /\ job' = [job EXCEPT ![Len(action) + 1] = [No!NoJob EXCEPT !.at = "wait", !.node = n, !.kind = "join", !.token = tokens + 1,
                                                                      !.overlap = No!OnTheWay(n)]]
  <2>1. PICK new : new = [No!NoJob EXCEPT !.at = "wait", !.node = n, !.kind = "join", !.token = t, !.overlap = No!OnTheWay(n)]
    OBVIOUS
  <2>2. new \in JobRow /\ new.at = "wait" /\ new.node = n /\ new.kind = "join" /\ new.heard = 0 /\ new.token = t
    <3>1. No!NoJob \in JobRow /\ No!NoJob.heard = 0 /\ No!OnTheWay(n) \in BOOLEAN
      BY Nothings DEF No!NoJob, No!OnTheWay
    <3> QED
      BY <2>1, <3>1 DEF JobRow
  <2>3. job' = [job EXCEPT ![Len(action) + 1] = new]
    BY <1>3, <1>10, <2>1
  <2>4. /\ new.token <= row'[n].token /\ new.token <= tokens' /\ queue' = queue /\ UNCHANGED <<leads, deleting, machine>>
        /\ No!Exists(n) /\ row'[n].address # Nothing /\ ~row'[n].new
    BY <1>2, <1>4, <1>5, <1>8, <2>2 DEF No!Exists
  <2> QED
    BY <1>4, <1>7, <1>8, <1>10, <2>2, <2>3, <2>4, OpsAdded
<1> QED
  BY <1>9, <1>10 DEF No!Join, No!Job

LEMMA OpsDelete ==
  ASSUME OpsInv, NEW n \in Nodes, No!DeleteNode(n)
  PROVE OpsInv'
<1>1. /\ row \in [Nodes -> NodeRow] /\ install \subseteq Nodes /\ deleting \subseteq Nodes /\ tokens \in Nat /\ RowsApart
      /\ action \in Seq(ActionRow) /\ job \in [No!Ids -> JobRow]
  BY DEF OpsInv, OpsTyped
<1>2. /\ row' = [row EXCEPT ![n] = No!NoRow] /\ install' = install \ {n} /\ deleting' = deleting \ {n}
      /\ action' = [i \in 1..Len(action) |-> IF action[i].node = n THEN [action[i] EXCEPT !.status = "gone"] ELSE action[i]]
      /\ UNCHANGED <<leads, job, queue, machine, piped, made, tokens>>
  BY DEF No!DeleteNode
<1>3. PICK M : M = {i \in 1..Len(action) : action[i].node = n}
  OBVIOUS
<1>4. action' = [k \in 1..Len(action) |-> IF k \in M THEN [action[k] EXCEPT !.status = "gone"] ELSE action[k]]
  BY <1>2, <1>3
<1>5. /\ action' \in Seq(ActionRow) /\ Len(action') = Len(action)
      /\ \A k \in 1..Len(action) : action'[k].node = action[k].node /\ action'[k].kind = action[k].kind
      /\ \A k \in 1..Len(action) : k \notin M => action'[k] = action[k]
      /\ \A k \in 1..Len(action) : k \in M => action'[k].status = "gone"
  BY <1>1, <1>4, MarkKeeps
<1>6. \A k \in 1..Len(action) : k \in M <=> action[k].node = n
  BY <1>3
<1>7. /\ row' \in [Nodes -> NodeRow] /\ row'[n] = No!NoRow /\ \A m \in Nodes : m # n => row'[m] = row[m]
      /\ row'[n].address = Nothing /\ row'[n].identity = Nothing /\ row'[n].token = 0 /\ ~row'[n].new
  BY <1>1, <1>2, Nothings DEF No!NoRow
<1>8. OpsTyped'
  BY <1>1, <1>2, <1>5, <1>7 DEF OpsInv, OpsTyped
<1>9. RowsApart'
  <2>1. (\A m \in Nodes : ~No!Exists(m) => row[m].identity = Nothing)'
    BY <1>1, <1>7 DEF RowsApart, No!Exists
  <2>2. (\A m \in Nodes : row[m].new => ~No!Exists(m))'
    BY <1>1, <1>7 DEF RowsApart, No!Exists
  <2>3. (\A m, k \in Nodes : m # k /\ row[m].identity # Nothing => row[m].identity # row[k].identity)'
    BY <1>1, <1>7 DEF RowsApart
  <2>4. (\A m \in install : No!Exists(m))'
    BY <1>1, <1>2, <1>7 DEF RowsApart, No!Exists
  <2> QED
    BY <2>1, <2>2, <2>3, <2>4 DEF RowsApart
<1>10. ASSUME NEW k \in 1..Len(action), No!Active(action[k])'
       PROVE No!Active(action[k]) /\ action'[k] = action[k] /\ action[k].node \in Nodes \ {n}
  <2>1. k \notin M
    BY <1>5, <1>10 DEF No!Active
  <2> QED
    BY <1>1, <1>5, <1>6, <1>10, <2>1, ActionNodes DEF No!Active
<1>11. OneActive'
  <2>1. OneActive
    BY DEF OpsInv
  <2>2. (\A k \in 1..Len(action) : No!Active(action[k]) => No!Exists(action[k].node))'
    BY <1>5, <1>7, <1>10, <2>1 DEF OneActive, No!Exists, No!Active
  <2>3. (\A k, m \in 1..Len(action) : k # m /\ No!Active(action[k]) /\ No!Active(action[m]) => action[k].node # action[m].node)'
    BY <1>5, <1>10, <2>1 DEF OneActive, No!Active
  <2> QED
    BY <2>2, <2>3 DEF OneActive
<1>12. JobsOfActions'
  <2> SUFFICES ASSUME NEW k \in No!Ids, job[k].at # "none" PROVE JobOfAction(k)'
    BY <1>2 DEF JobsOfActions, JobOfAction
  <2>1. k \in 1..Len(action) /\ job[k].node \in Nodes /\ JobOfAction(k)
    BY LiveNodes
  <2>2. CASE job[k].node = n
    <3>1. action[k].node = n /\ k \in M
      BY <1>6, <2>1, <2>2 DEF JobOfAction
    <3> QED
      BY <1>2, <1>5, <1>7, <2>1, <2>2, <3>1 DEF JobOfAction, No!Exists
  <2>3. CASE job[k].node # n
    <3>1. action[k].node # n /\ action'[k] = action[k] /\ row'[job[k].node] = row[job[k].node]
      BY <1>5, <1>6, <1>7, <2>1, <2>3 DEF JobOfAction
    <3> QED
      BY <1>2, <1>5, <2>1, <3>1 DEF JobOfAction, No!Exists, No!Active
  <2> QED
    BY <2>2, <2>3
<1>13. JobsKnow'
  <2> SUFFICES ASSUME NEW k \in No!Ids, job[k].at # "none" PROVE JobKnows(k)'
    BY <1>2 DEF JobsKnow, JobKnows
  <2>1. JobKnows(k) /\ job[k].node \in Nodes
    BY LiveNodes DEF OpsInv, JobsKnow
  <2> QED
    BY <1>2, <1>7, <2>1 DEF JobKnows, No!Exists
<1>14. TokensGrow'
  <2>1. (\A m \in Nodes : row[m].token <= tokens)'
    BY <1>1, <1>2, <1>7 DEF OpsInv, TokensGrow
  <2>2. ASSUME NEW k \in No!Ids PROVE JobToken(k)'
    <3>1. JobToken(k) /\ job'[k] = job[k] /\ tokens' = tokens
      BY <1>2 DEF OpsInv, TokensGrow
    <3>2. ASSUME job[k].at # "none", No!Exists(job[k].node)' PROVE No!Exists(job[k].node) /\ row'[job[k].node] = row[job[k].node]
      <4>1. job[k].node \in Nodes /\ job'[k].node = job[k].node
        BY <3>1, <3>2, LiveNodes
      <4> QED
        BY <1>7, <3>1, <3>2, <4>1 DEF No!Exists
    <3>3. ASSUME k <= Len(action'), action'[k].status = "succeeded" PROVE k <= Len(action) /\ action'[k] = action[k]
      <4>1. k \in 1..Len(action)
        BY <1>5, <3>3, OpsConstants
      <4>2. k \notin M
        BY <1>5, <3>3, <4>1
      <4> QED
        BY <1>5, <4>1, <4>2
    <3>4. CASE job[k].at = "none"
      BY <3>1, <3>3, <3>4 DEF JobToken
    <3>5. CASE job[k].at # "none"
      BY <3>1, <3>2, <3>3, <3>5 DEF JobToken, No!Exists
    <3> QED
      BY <3>4, <3>5
  <2> QED
    BY <2>1, <2>2 DEF TokensGrow
<1>15. Queued'
  BY <1>2 DEF OpsInv, Queued
<1> QED
  BY <1>8, <1>9, <1>11, <1>12, <1>13, <1>14, <1>15 DEF OpsInv

LEMMA OpsRecover ==
  ASSUME OpsInv, NEW n \in Nodes, No!Recover(n)
  PROVE OpsInv'
<1>1. action \in Seq(ActionRow)
  BY DEF OpsInv, OpsTyped
<1>2. /\ action' = [i \in 1..Len(action) |-> IF action[i].node = n /\ No!Expired(i) THEN [action[i] EXCEPT !.status = "failed"] ELSE action[i]]
      /\ UNCHANGED <<leads, row, install, deleting, job, queue, machine, piped, made, tokens>>
  BY DEF No!Recover
<1>3. PICK M : M = {i \in 1..Len(action) : action[i].node = n /\ No!Expired(i)}
  OBVIOUS
<1>4. action' = [k \in 1..Len(action) |-> IF k \in M THEN [action[k] EXCEPT !.status = "failed"] ELSE action[k]]
  BY <1>2, <1>3
<1>5. /\ action' \in Seq(ActionRow) /\ Len(action') = Len(action)
      /\ \A k \in 1..Len(action) : action'[k].node = action[k].node /\ action'[k].kind = action[k].kind
      /\ \A k \in 1..Len(action) : k \notin M => action'[k] = action[k]
      /\ \A k \in 1..Len(action) : k \in M => action'[k].status = "failed"
  BY <1>1, <1>4, MarkKeeps
<1>6. \A k \in M : k \in 1..Len(action) /\ job[k].at = "none" /\ No!Active(action[k])
  BY <1>3 DEF No!Expired, No!Renews
<1>7. OpsTyped'
  BY <1>2, <1>5 DEF OpsInv, OpsTyped
<1>8. RowsApart' /\ Queued' /\ JobsKnow'
  BY <1>2 DEF OpsInv, RowsApart, Queued, JobsKnow, JobKnows, No!Exists
<1>9. \A k \in 1..Len(action) : No!Active(action[k])' => No!Active(action[k])
  BY <1>5, <1>6 DEF No!Active
<1>10. OneActive'
  <2>1. OneActive
    BY DEF OpsInv
  <2>2. (\A k \in 1..Len(action) : No!Active(action[k]) => No!Exists(action[k].node))'
    BY <1>2, <1>5, <1>9, <2>1 DEF OneActive, No!Exists
  <2>3. (\A k, m \in 1..Len(action) : k # m /\ No!Active(action[k]) /\ No!Active(action[m]) => action[k].node # action[m].node)'
    BY <1>5, <1>9, <2>1 DEF OneActive
  <2> QED
    BY <2>2, <2>3 DEF OneActive
<1>11. JobsOfActions'
  <2> SUFFICES ASSUME NEW k \in No!Ids, job[k].at # "none" PROVE JobOfAction(k)'
    BY <1>2 DEF JobsOfActions, JobOfAction
  <2>1. k \in 1..Len(action) /\ JobOfAction(k) /\ k \notin M
    BY <1>6, LiveNodes
  <2> QED
    BY <1>2, <1>5, <2>1 DEF JobOfAction, No!Exists, No!Active
<1>12. TokensGrow'
  <2>1. (\A m \in Nodes : row[m].token <= tokens)'
    BY <1>2 DEF OpsInv, TokensGrow
  <2>2. ASSUME NEW k \in No!Ids PROVE JobToken(k)'
    <3>1. JobToken(k)
      BY DEF OpsInv, TokensGrow
    <3>2. ASSUME k <= Len(action'), action'[k].status = "succeeded" PROVE k <= Len(action) /\ action'[k] = action[k]
      <4>1. k \in 1..Len(action)
        BY <1>5, <3>2, OpsConstants
      <4> QED
        BY <1>5, <3>2, <4>1
    <3> QED
      BY <1>2, <3>1, <3>2 DEF JobToken, No!Exists
  <2> QED
    BY <2>1, <2>2 DEF TokensGrow
<1> QED
  BY <1>7, <1>8, <1>10, <1>11, <1>12 DEF OpsInv

LEMMA OpsDequeue ==
  ASSUME OpsInv, No!Dequeue
  PROVE OpsInv'
<1>1. PICK i : i = Head(queue)
  OBVIOUS
<1>2. queue # << >> /\ queue' = Tail(queue) /\ UNCHANGED <<leads, row, install, deleting, machine, piped, made, tokens>>
  BY DEF No!Dequeue
<1>3. queue \in Seq(No!Ids) /\ i = queue[1] /\ 1 \in 1..Len(queue) /\ i \in No!Ids /\ job[i].at = "queued"
  <2>1. queue \in Seq(No!Ids)
    BY DEF OpsInv, OpsTyped
  <2>2. i = queue[1] /\ 1 \in 1..Len(queue) /\ queue[1] \in No!Ids
    BY <1>1, <1>2, <2>1
  <2> QED
    BY <2>1, <2>2 DEF OpsInv, Queued
<1>4. /\ job[i] \in JobRow /\ JobKnows(i) /\ JobToken(i) /\ JobOfAction(i) /\ i \in 1..Len(action)
      /\ job[i].node \in Nodes /\ row \in [Nodes -> NodeRow] /\ row[job[i].node] \in NodeRow /\ tokens \in Nat
  BY <1>3, LiveJob
<1>5. PICK n \in Nodes : n = job[i].node
  BY <1>4
<1>6. /\ Leaves(i) /\ row' \in [Nodes -> NodeRow] /\ machine' \in Machines
      /\ \A m \in Nodes : /\ row'[m].identity = row[m].identity /\ row'[m].address = row[m].address
                          /\ row'[m].token = row[m].token /\ row'[m].new = row[m].new
  BY <1>1, <1>2, <1>4 DEF Leaves, OpsInv, OpsTyped, Machines
<1>7. ASSUME job' = [job EXCEPT ![i] = No!NoJob], No!Becomes(i, "failed") \/ action' = action PROVE OpsInv'
  <2>1. PICK new : new = No!NoJob
    OBVIOUS
  <2>2. new \in JobRow /\ new.at = "none" /\ new.token <= tokens /\ job' = [job EXCEPT ![i] = new] /\ job[i].at # "none"
    BY <1>3, <1>4, <1>7, <2>1, Nothings DEF No!NoJob
  <2> QED
    BY <1>2, <1>3, <1>6, <1>7, <2>2, OpsEnds
<1>8. ASSUME No!Active(action[i]), No!Exists(n), No!Becomes(i, "running"),
             job' = [job EXCEPT ![i] = [job[i] EXCEPT !.at = IF job[i].kind = "bootstrap" THEN "discover" ELSE "restart",
                                                      !.address = row[n].address, !.identity = row[n].identity]]
      PROVE OpsInv'
  <2>1. PICK at \in {"discover", "restart"} : at = IF job[i].kind = "bootstrap" THEN "discover" ELSE "restart"
    OBVIOUS
  <2>2. PICK new : new = [job[i] EXCEPT !.at = at, !.address = row[n].address, !.identity = row[n].identity]
    OBVIOUS
  <2>3. /\ new \in JobRow /\ new.at = at /\ new.address = row[n].address /\ new.identity = row[n].identity
        /\ new.node = job[i].node /\ new.kind = job[i].kind /\ new.token = job[i].token /\ new.heard = job[i].heard
    <3>1. row[n].address \in Addresses \cup {Nothing} /\ row[n].identity \in Servers \cup {Nothing}
      BY <1>4, <1>5 DEF NodeRow
    <3>2. job[i] \in JobRow
      BY <1>4
    <3> QED
      BY <2>1, <2>2, <3>1, <3>2 DEF JobRow
  <2>4. job' = [job EXCEPT ![i] = new] /\ job'[i] = new
    <3>1. job' = [job EXCEPT ![i] = new] /\ job \in [No!Ids -> JobRow]
      BY <1>8, <2>1, <2>2 DEF OpsInv, OpsTyped
    <3> QED
      BY <1>3, <3>1
  <2>5. RowsApart'
    BY <1>2 DEF OpsInv, RowsApart, No!Exists
  <2>6. job[i].kind # "join" /\ job[i].heard = 0 /\ job[i].kind \in {"bootstrap", "restart"}
    <3>1. job[i].kind # "join" /\ job[i].heard = 0 /\ job[i].kind = action[i].kind
      BY <1>3, <1>4 DEF JobKnows, JobToken, JobOfAction
    <3>2. action[i] \in ActionRow
      BY <1>4 DEF OpsInv, OpsTyped
    <3> QED
      BY <3>1, <3>2 DEF ActionRow
  <2>7. JobKnows(i)'
    BY <1>8, <2>1, <2>3, <2>4, <2>6 DEF JobKnows, No!Exists
  <2>8. JobToken(i)'
    <3>1. action'[i].status = "running"
      BY <1>4, <1>8, BecomesKeeps DEF No!Active, OpsInv, OpsTyped
    <3> QED
      BY <1>2, <1>4, <2>1, <2>3, <2>4, <2>6, <3>1 DEF JobToken
  <2>9. /\ job[i].at # "none" /\ new.at \notin {"none", "queued"} /\ tokens' \in Nat /\ tokens <= tokens'
    BY <1>2, <1>3, <1>4, <2>1, <2>3
  <2>10. \A m \in Nodes : /\ row[m].identity # Nothing => row'[m].identity = row[m].identity
                          /\ row'[m].address = row[m].address /\ row'[m].new = row[m].new
                          /\ m # job[i].node => row[m].token <= row'[m].token
                          /\ row'[m].token <= tokens'
    BY <1>2, <1>4 DEF OpsInv, TokensGrow, NodeRow
  <2> QED
    BY <1>2, <1>3, <1>6, <1>8, <2>3, <2>4, <2>5, <2>7, <2>8, <2>9, <2>10, OpsAdvances
<1> QED
  BY <1>1, <1>5, <1>7, <1>8 DEF No!Dequeue, No!End, No!Job

(* A heartbeat between its two halves knows a token as new as that of every job of its node that *)
(* waits, unless it was on its way when the job registered its token.                            *)
Beat == [server : Servers, node : Nodes, token : Nat]
AwaitsBeat(i) == job[i].at \in {"start", "wait"} /\ job[i].kind # "restart"
BeatKnows(b) ==
  b \in Beat /\ \A i \in No!Ids : AwaitsBeat(i) /\ job[i].node = b.node => job[i].token <= b.token \/ job[i].overlap
BeatsKnow == \A b \in beats : BeatKnows(b)

LEMMA OpsCheckToken ==
  ASSUME OpsInv, NEW s \in Servers, No!CheckToken(s)
  PROVE OpsInv'
<1>1. UNCHANGED <<leads, row, install, deleting, action, job, queue, machine, piped, made, tokens>>
  BY DEF No!CheckToken
<1>2. OpsTyped' /\ RowsApart' /\ OneActive' /\ Queued'
  BY <1>1 DEF OpsInv, OpsTyped, RowsApart, OneActive, Queued, No!Exists, No!Active
<1>3. JobsOfActions' /\ JobsKnow' /\ TokensGrow'
  BY <1>1 DEF OpsInv, JobsOfActions, JobsKnow, TokensGrow, JobOfAction, JobKnows, JobToken, No!Exists, No!Active
<1> QED
  BY <1>2, <1>3 DEF OpsInv

LEMMA OpsHeartbeat ==
  ASSUME OpsInv, BeatsKnow, NEW b \in beats, No!RecordHeartbeat(b)
  PROVE OpsInv'
<1>1. PICK n, s, t : n = b.node /\ s = b.server /\ t = b.token
  OBVIOUS
<1>2. /\ row \in [Nodes -> NodeRow] /\ BeatKnows(b) /\ n \in Nodes /\ s \in Servers /\ t \in Nat
      /\ job \in [No!Ids -> JobRow] /\ action \in Seq(ActionRow) /\ tokens \in Nat /\ RowsApart /\ install \subseteq Nodes
  BY <1>1 DEF OpsInv, OpsTyped, BeatsKnow, BeatKnows, Beat
<1>4. /\ job' = [i \in No!Ids |-> IF No!Exists(n) /\ job[i].node = n /\ No!Counts(i)
                                   THEN [job[i] EXCEPT !.heard = No!Newest(job[i].heard, t)] ELSE job[i]]
      /\ row' = IF No!Exists(n) /\ row[n].identity = Nothing /\ ~\E other \in Nodes : row[other].identity = s
                THEN [row EXCEPT ![n].identity = s] ELSE row
      /\ UNCHANGED <<leads, install, deleting, action, queue, machine, piped, made, tokens>>
  BY <1>1 DEF No!RecordHeartbeat
<1>5. ASSUME NEW i \in No!Ids
      PROVE /\ job'[i] \in JobRow
            /\ job'[i].at = job[i].at /\ job'[i].node = job[i].node /\ job'[i].kind = job[i].kind
            /\ job'[i].address = job[i].address /\ job'[i].identity = job[i].identity /\ job'[i].token = job[i].token
            /\ job'[i].overlap = job[i].overlap
            /\ \/ job'[i].heard = job[i].heard
               \/ /\ job'[i].heard \in Nat /\ t <= job'[i].heard
                  /\ No!Exists(n) /\ job[i].node = n /\ job[i].at \in {"start", "wait", "restart"}
  <2>1. job[i] \in JobRow
    BY <1>2
  <2>2. PICK h : h = No!Newest(job[i].heard, t)
    OBVIOUS
  <2>a. h \in Nat /\ t <= h
    BY <1>2, <2>1, <2>2 DEF JobRow, No!Newest
  <2>b. PICK new : new = [job[i] EXCEPT !.heard = h]
    OBVIOUS
  <2>3. /\ new \in JobRow /\ new.at = job[i].at /\ new.node = job[i].node /\ new.kind = job[i].kind
        /\ new.address = job[i].address /\ new.identity = job[i].identity /\ new.token = job[i].token
        /\ new.overlap = job[i].overlap /\ new.heard = h
    BY <2>a, <2>1, <2>b DEF JobRow
  <2>4. CASE No!Exists(n) /\ job[i].node = n /\ No!Counts(i)
    <3>1. job'[i] = new
      BY <1>4, <2>2, <2>b, <2>4
    <3> QED
      BY <2>a, <2>3, <2>4, <3>1 DEF No!Counts
  <2>5. CASE ~(No!Exists(n) /\ job[i].node = n /\ No!Counts(i))
    <3>1. job'[i] = job[i]
      BY <1>4, <2>5
    <3> QED
      BY <2>1, <3>1
  <2> QED
    BY <2>4, <2>5
<1>6. /\ row' \in [Nodes -> NodeRow]
      /\ \A m \in Nodes : /\ row'[m].address = row[m].address /\ row'[m].token = row[m].token /\ row'[m].new = row[m].new
                          /\ \/ row'[m].identity = row[m].identity
                             \/ m = n /\ No!Exists(n) /\ row[m].identity = Nothing /\ row'[m].identity = s
                                /\ \A other \in Nodes : row[other].identity # s /\ (other # n => row'[other].identity = row[other].identity)
  <2>1. CASE No!Exists(n) /\ row[n].identity = Nothing /\ ~\E other \in Nodes : row[other].identity = s
    <3>1. row' = [row EXCEPT ![n].identity = s]
      BY <1>4, <2>1
    <3>2. /\ row' \in [Nodes -> NodeRow] /\ row'[n].identity = s
          /\ \A m \in Nodes : m # n => row'[m] = row[m]
          /\ row'[n].address = row[n].address /\ row'[n].token = row[n].token /\ row'[n].new = row[n].new
      BY <1>2, <3>1, IdentitySet
    <3> QED
      BY <2>1, <3>2
  <2>2. CASE ~(No!Exists(n) /\ row[n].identity = Nothing /\ ~\E other \in Nodes : row[other].identity = s)
    BY <1>2, <1>4, <2>2
  <2> QED
    BY <2>1, <2>2
<1>7. \A m \in Nodes : No!Exists(m)' <=> No!Exists(m)
  BY <1>6 DEF No!Exists
<1>8. job' \in [No!Ids -> JobRow]
  BY <1>4, <1>5
<1>9. OpsTyped'
  BY <1>4, <1>6, <1>8 DEF OpsInv, OpsTyped
<1>10. RowsApart'
  <2>1. (\A m \in Nodes : ~No!Exists(m) => row[m].identity = Nothing)'
    BY <1>2, <1>6 DEF RowsApart, No!Exists
  <2>2. (\A m \in Nodes : row[m].new => ~No!Exists(m))'
    BY <1>2, <1>6 DEF RowsApart, No!Exists
  <2>3. (\A m, k \in Nodes : m # k /\ row[m].identity # Nothing => row[m].identity # row[k].identity)'
    BY <1>2, <1>6 DEF RowsApart
  <2>4. (\A m \in install : No!Exists(m))'
    BY <1>2, <1>4, <1>6 DEF RowsApart, No!Exists
  <2> QED
    BY <2>1, <2>2, <2>3, <2>4 DEF RowsApart
<1>11. OneActive'
  <2>1. OneActive
    BY DEF OpsInv
  <2>2. (\A k \in 1..Len(action) : No!Active(action[k]) => No!Exists(action[k].node))'
    BY <1>2, <1>4, <1>7, <2>1, ActionNodes DEF OneActive, No!Active
  <2>3. (\A k, m \in 1..Len(action) : k # m /\ No!Active(action[k]) /\ No!Active(action[m]) => action[k].node # action[m].node)'
    BY <1>4, <2>1 DEF OneActive
  <2> QED
    BY <2>2, <2>3 DEF OneActive
<1>12. ASSUME NEW i \in No!Ids, job[i].at # "none"
       PROVE /\ i \in 1..Len(action) /\ job[i].node \in Nodes /\ JobOfAction(i)
             /\ row'[job[i].node].address = row[job[i].node].address
             /\ row'[job[i].node].token = row[job[i].node].token /\ row'[job[i].node].new = row[job[i].node].new
             /\ row[job[i].node].identity # Nothing => row'[job[i].node].identity = row[job[i].node].identity
  BY <1>6, <1>12, LiveNodes
<1>13. JobsOfActions'
  <2> SUFFICES ASSUME NEW i \in No!Ids, job[i].at # "none" PROVE JobOfAction(i)'
    BY <1>5 DEF JobsOfActions, JobOfAction
  <2> QED
    BY <1>4, <1>5, <1>12 DEF JobOfAction, No!Exists, No!Active
<1>14. JobsKnow'
  <2> SUFFICES ASSUME NEW i \in No!Ids, job[i].at # "none" PROVE JobKnows(i)'
    BY <1>5 DEF JobsKnow, JobKnows
  <2>1. JobKnows(i)
    BY DEF OpsInv, JobsKnow
  <2> QED
    BY <1>5, <1>12, <2>1 DEF JobKnows, No!Exists
<1>15. TokensGrow'
  <2>1. (\A m \in Nodes : row[m].token <= tokens)'
    BY <1>4, <1>6 DEF OpsInv, TokensGrow
  <2>2. ASSUME NEW i \in No!Ids PROVE JobToken(i)'
    <3>1. JobToken(i) /\ job[i].token \in Nat
      BY <1>2 DEF OpsInv, TokensGrow, JobRow
    <3>2. CASE job[i].at = "none"
      <4>1. job'[i].heard = job[i].heard
        BY <1>5, <3>2
      <4> QED
        BY <1>4, <1>5, <3>1, <3>2, <4>1 DEF JobToken
    <3>3. CASE job[i].at # "none"
      <4>1. action[i].status # "succeeded"
        BY <1>12, <3>3 DEF JobOfAction, No!Active
      <4>2. CASE job'[i].heard = job[i].heard
        BY <1>4, <1>5, <1>12, <3>1, <3>3, <4>2 DEF JobToken, No!Exists
      <4>3. CASE /\ job'[i].heard \in Nat /\ t <= job'[i].heard
                 /\ job[i].node = n /\ job[i].at \in {"start", "wait", "restart"}
        <5>1. AwaitsBeat(i) => job[i].token <= t \/ job[i].overlap
          BY <1>1, <1>2, <4>3 DEF BeatKnows
        <5>2. job[i].at = "restart" => job[i].kind = "restart"
          BY DEF OpsInv, JobsKnow, JobKnows
        <5>3. AwaitsBeat(i) => job'[i].token <= job'[i].heard \/ job'[i].overlap
          BY <1>2, <1>5, <3>1, <4>3, <5>1
        <5> QED
          BY <1>4, <1>5, <1>12, <3>1, <3>3, <4>1, <4>3, <5>2, <5>3 DEF JobToken, AwaitsBeat, No!Exists
      <4> QED
        BY <1>5, <4>2, <4>3
    <3> QED
      BY <3>2, <3>3
  <2> QED
    BY <2>1, <2>2 DEF TokensGrow
<1>16. Queued'
  BY <1>2, <1>4, <1>5 DEF OpsInv, OpsTyped, Queued
<1> QED
  BY <1>9, <1>10, <1>11, <1>13, <1>14, <1>15, <1>16 DEF OpsInv

LEMMA OpsRestart ==
  ASSUME OpsInv, No!ControllerRestarts
  PROVE OpsInv'
<1>1. /\ job' = [i \in No!Ids |-> IF job[i].at = "none" THEN job[i] ELSE No!NoJob]
      /\ queue' = << >> /\ deleting' = {} /\ UNCHANGED <<leads, row, install, action, machine, piped, made, tokens>>
  BY DEF No!ControllerRestarts
<1>2. \A i \in No!Ids : job[i] \in JobRow /\ JobToken(i) /\ tokens \in Nat
  BY DEF OpsInv, OpsTyped, TokensGrow
<1>a. PICK nothing \in JobRow : nothing = No!NoJob /\ nothing.at = "none" /\ nothing.token = 0 /\ nothing.heard = 0
  BY Nothings DEF No!NoJob
<1>3. ASSUME NEW i \in No!Ids
      PROVE job'[i].at = "none" /\ job'[i] \in JobRow /\ (job'[i] = job[i] \/ (job'[i].token = 0 /\ job'[i].heard = 0))
  <2>1. job'[i] = IF job[i].at = "none" THEN job[i] ELSE nothing
    BY <1>1, <1>a
  <2> QED
    BY <1>2, <1>a, <2>1
<1>4. queue' \in Seq(No!Ids) /\ Len(queue') = 0
  BY <1>1, EmptySeq
<1>5. OpsTyped'
  BY <1>1, <1>3, <1>4 DEF OpsInv, OpsTyped
<1>6. RowsApart' /\ OneActive'
  BY <1>1 DEF OpsInv, RowsApart, OneActive, No!Exists, No!Active
<1>7. Queued'
  BY <1>4 DEF Queued
<1>8. JobsOfActions' /\ JobsKnow'
  BY <1>3 DEF JobsOfActions, JobOfAction, JobsKnow, JobKnows
<1>9. TokensGrow'
  <2>1. (\A m \in Nodes : row[m].token <= tokens)'
    BY <1>1 DEF OpsInv, TokensGrow
  <2>2. ASSUME NEW k \in No!Ids PROVE JobToken(k)'
    BY <1>1, <1>2, <1>3 DEF JobToken
  <2> QED
    BY <2>1, <2>2 DEF TokensGrow
<1> QED
  BY <1>5, <1>6, <1>7, <1>8, <1>9 DEF OpsInv

LEMMA OpsStep == OpsInv /\ BeatsKnow /\ [No!Next]_operationVars => OpsInv'
<1> SUFFICES ASSUME OpsInv, BeatsKnow, [No!Next]_operationVars PROVE OpsInv'
  OBVIOUS
<1>1. CASE \E n \in Nodes : \/ \E k \in {"bootstrap", "restart"} : No!QueueAction(n, k)
                            \/ \E a \in Addresses, yes \in BOOLEAN : No!AddNode(n, a, yes)
  BY <1>1, OpsQueues
<1>2. CASE \E n \in Nodes : No!DeleteNode(n) \/ No!Recover(n) \/ \E s \in Servers : No!Join(n, s)
  BY <1>2, OpsDelete, OpsRecover, OpsJoin
<1>3. CASE \E i \in No!Ids : No!JobStep(i) \/ No!CommandFails(i)
  BY <1>3, OpsDiscover, OpsRegister, OpsOverSsh, OpsWaitEnds DEF No!JobStep
<1>4. CASE \/ No!Dequeue \/ No!ControllerRestarts
           \/ \E s \in Servers : No!CheckToken(s)
           \/ \E b \in beats : No!RecordHeartbeat(b)
  BY <1>4, OpsDequeue, OpsRestart, OpsCheckToken, OpsHeartbeat
<1>5. CASE UNCHANGED operationVars
  <2>1. UNCHANGED <<leads, row, install, deleting, action, job, queue, machine, piped, made, tokens>>
    BY <1>5 DEF operationVars
  <2>2. OpsTyped' /\ RowsApart' /\ OneActive' /\ Queued'
    BY <2>1 DEF OpsInv, OpsTyped, RowsApart, OneActive, Queued, No!Exists, No!Active
  <2>3. JobsOfActions' /\ JobsKnow' /\ TokensGrow'
    BY <2>1 DEF OpsInv, JobsOfActions, JobsKnow, TokensGrow, JobOfAction, JobKnows, JobToken, No!Exists, No!Active
  <2> QED
    BY <2>2, <2>3 DEF OpsInv
<1>6. CASE \/ \E n \in Nodes : \/ \E a \in Addresses : No!AddByCommand(n, a) \/ \E yes \in BOOLEAN : No!EditNode(n, a, yes)
                               \/ No!InstallCommand(n) \/ No!ClearCredential(n) \/ No!AskDelete(n)
           \/ \E p \in piped : No!RunScript(p)
           \/ No!AddressMoves
  BY <1>6, OpsRoutes
<1> QED
  BY <1>1, <1>2, <1>3, <1>4, <1>5, <1>6 DEF No!Next

(* No step takes from a heartbeat on its way what it knows: beats only end, and a job that comes to wait for a *)
(* heartbeat registered its token with an eye on those on their way.                                          *)
LEMMA BeatsStay ==
  ASSUME BeatsKnow, beats' \subseteq beats,
         \A i \in No!Ids : \/ job'[i] = job[i]
                            \/ job'[i].at \notin {"start", "wait"}
                            \/ job'[i].kind = "restart"
                            \/ job'[i].overlap = No!OnTheWay(job'[i].node)
                            \/ /\ job[i].at \in {"start", "wait"} /\ job'[i].kind = job[i].kind /\ job'[i].node = job[i].node
                               /\ job'[i].token = job[i].token /\ job'[i].overlap = job[i].overlap
  PROVE BeatsKnow'
<1> SUFFICES ASSUME NEW b \in beats', NEW i \in No!Ids, AwaitsBeat(i)', job'[i].node = b.node
             PROVE b \in Beat /\ (job'[i].token <= b.token \/ job'[i].overlap)
  BY DEF BeatsKnow, BeatKnows
<1>1. BeatKnows(b) /\ b \in beats
  BY DEF BeatsKnow
<1>2. job'[i].overlap = No!OnTheWay(job'[i].node) => job'[i].overlap
  BY <1>1 DEF No!OnTheWay
<1> QED
  BY <1>1, <1>2 DEF BeatKnows, AwaitsBeat

LEMMA OneJob ==
  ASSUME OpsInv, NEW k, NEW new, job' = [job EXCEPT ![k] = new]
  PROVE \A i \in No!Ids : job'[i] = job[i] \/ job'[i] = new
BY DEF OpsInv, OpsTyped

LEMMA BeatsStep == OpsInv /\ BeatsKnow /\ [No!Next]_operationVars => BeatsKnow'
<1> SUFFICES ASSUME OpsInv, BeatsKnow, [No!Next]_operationVars PROVE BeatsKnow'
  OBVIOUS
<1>0. job \in [No!Ids -> JobRow] /\ row \in [Nodes -> NodeRow]
  BY DEF OpsInv, OpsTyped
<1>1. CASE beats' = beats /\ job' = job
  BY <1>1, BeatsStay
<1>2. ASSUME NEW n \in Nodes, NEW kind, No!Enqueue(n, kind, TRUE) \/ No!Enqueue(n, kind, FALSE), beats' = beats
      PROVE BeatsKnow'
  <2>1. PICK forget : No!Enqueue(n, kind, forget)
    BY <1>2
  <2>2. PICK new : new = [No!NoJob EXCEPT !.at = "queued", !.node = n, !.kind = kind, !.forget = forget]
    OBVIOUS
  <2>3. new.at = "queued"
    BY <2>2 DEF No!NoJob
  <2>4. job' = [job EXCEPT ![Len(action) + 1] = new]
    BY <2>1, <2>2 DEF No!Enqueue
  <2> QED
    BY <1>2, <2>3, <2>4, OneJob, BeatsStay
<1>3. ASSUME NEW i \in No!Ids, NEW new, job' = [job EXCEPT ![i] = new], new.at \notin {"start", "wait"}, beats' = beats
      PROVE BeatsKnow'
  BY <1>3, OneJob, BeatsStay
<1>4. ASSUME NEW i \in No!Ids, NEW st, No!End(i, st), beats' = beats PROVE BeatsKnow'
  <2>1. job' = [job EXCEPT ![i] = No!NoJob] /\ No!NoJob.at = "none"
    BY <1>4 DEF No!End, No!Job, No!NoJob
  <2> QED
    BY <1>3, <1>4, <2>1
<1>5. CASE No!Dequeue
  <2>1. PICK i : i = Head(queue)
    OBVIOUS
  <2>2. queue \in Seq(No!Ids) /\ queue # << >> /\ beats' = beats
    BY <1>5 DEF No!Dequeue, OpsInv, OpsTyped
  <2>3. i \in No!Ids
    BY <2>1, <2>2
  <2>4. CASE No!Job(i, No!NoJob)
    BY <1>3, <2>2, <2>3, <2>4 DEF No!Job, No!NoJob
  <2>5. CASE No!End(i, "failed")
    BY <1>4, <2>2, <2>3, <2>5
  <2>6. PICK n : n = job[i].node
    OBVIOUS
  <2>7. PICK new : new = [job[i] EXCEPT !.at = IF job[i].kind = "bootstrap" THEN "discover" ELSE "restart",
                                        !.address = row[n].address, !.identity = row[n].identity]
    OBVIOUS
  <2>8. new.at \in {"discover", "restart"}
    BY <1>0, <2>3, <2>7 DEF JobRow
  <2>9. CASE No!Job(i, new)
    BY <1>3, <2>2, <2>3, <2>8, <2>9 DEF No!Job
  <2> QED
    BY <1>5, <2>1, <2>4, <2>5, <2>6, <2>7, <2>9 DEF No!Dequeue
<1>6. ASSUME NEW i \in No!Ids, No!Discover(i) PROVE BeatsKnow'
  <2>1. beats' = beats
    BY <1>6 DEF No!Discover, No!JobOnly
  <2>2. PICK a, s, t : a = row[job[i].node].address /\ s = leads[job[i].address] /\ t = tokens + 1
    OBVIOUS
  <2>3. PICK new : new = [job[i] EXCEPT !.at = "install", !.address = a, !.identity = s, !.token = t]
    OBVIOUS
  <2>4. new.at = "install"
    BY <1>0, <2>3 DEF JobRow
  <2>5. No!Job(i, new) \/ No!End(i, "failed")
    BY <1>6, <2>2, <2>3 DEF No!Discover
  <2> QED
    BY <1>3, <1>4, <2>1, <2>4, <2>5 DEF No!Job
<1>7. ASSUME NEW i \in No!Ids, No!InstallOverSsh(i) PROVE BeatsKnow'
  <2>1. beats' = beats
    BY <1>7 DEF No!InstallOverSsh, No!JobOnly
  <2>2. PICK new : new = [job[i] EXCEPT !.at = "register"]
    OBVIOUS
  <2>3. new.at = "register"
    BY <1>0, <2>2 DEF JobRow
  <2>4. No!Job(i, new) \/ No!End(i, "failed")
    BY <1>7, <2>2 DEF No!InstallOverSsh
  <2> QED
    BY <1>3, <1>4, <2>1, <2>3, <2>4 DEF No!Job
<1>8. ASSUME NEW i \in No!Ids, No!Register(i) PROVE BeatsKnow'
  <2>1. PICK new : new = [job[i] EXCEPT !.at = "start", !.overlap = No!OnTheWay(job[i].node)]
    OBVIOUS
  <2>2. beats' = beats /\ job' = [job EXCEPT ![i] = new]
    BY <1>8, <2>1 DEF No!Register, No!Job, No!JobOnly
  <2>3. new.overlap = No!OnTheWay(new.node)
    BY <1>0, <2>1 DEF JobRow
  <2> QED
    BY <2>2, <2>3, OneJob, BeatsStay
<1>9. ASSUME NEW i \in No!Ids, No!StartOverSsh(i) \/ No!RestartOverSsh(i) PROVE BeatsKnow'
  <2>1. beats' = beats /\ job[i].at \in {"start", "restart"} /\ (job[i].at = "restart" => job[i].kind = "restart")
    BY <1>9 DEF No!StartOverSsh, No!RestartOverSsh, No!JobOnly, OpsInv, JobsKnow, JobKnows
  <2>2. PICK new : new = [job[i] EXCEPT !.at = "wait"]
    OBVIOUS
  <2>3. /\ new.kind = job[i].kind /\ new.node = job[i].node /\ new.token = job[i].token /\ new.overlap = job[i].overlap
    BY <1>0, <2>2 DEF JobRow
  <2>4. No!Job(i, new) \/ No!End(i, "failed")
    BY <1>9, <2>2 DEF No!StartOverSsh, No!RestartOverSsh
  <2>5. CASE No!Job(i, new)
    <3>1. \A k \in No!Ids : job'[k] = job[k] \/ (k = i /\ job'[k] = new)
      BY <1>0, <2>5 DEF No!Job
    <3> QED
      BY <2>1, <2>3, <3>1, BeatsStay
  <2> QED
    BY <1>4, <2>1, <2>4, <2>5
<1>10. ASSUME NEW i \in No!Ids, No!WaitTimesOut(i) \/ No!CommandFails(i) PROVE BeatsKnow'
  <2>1. beats' = beats /\ No!End(i, "failed")
    BY <1>10 DEF No!WaitTimesOut, No!CommandFails, No!JobOnly
  <2> QED
    BY <1>4, <2>1
<1>11. ASSUME NEW i \in No!Ids, No!HeartbeatCame(i) PROVE BeatsKnow'
  <2>1. PICK new : new = IF job[i].token = 0 THEN No!NoJob
                         ELSE [No!NoJob EXCEPT !.token = job[i].token, !.heard = job[i].heard, !.overlap = job[i].overlap]
    OBVIOUS
  <2>2. beats' = beats /\ job' = [job EXCEPT ![i] = new]
    BY <1>11, <2>1 DEF No!HeartbeatCame, No!Job, No!JobOnly
  <2>3. new.at = "none"
    BY <2>1 DEF No!NoJob
  <2> QED
    BY <1>3, <2>2, <2>3
<1>12. ASSUME NEW n \in Nodes, NEW s \in Servers, No!Join(n, s) PROVE BeatsKnow'
  <2>1. PICK new : new = [No!NoJob EXCEPT !.at = "wait", !.node = n, !.kind = "join", !.token = tokens + 1,
                                          !.overlap = No!OnTheWay(n)]
    OBVIOUS
  <2>2. beats' = beats /\ (job' = job \/ job' = [job EXCEPT ![Len(action) + 1] = new])
    BY <1>12, <2>1 DEF No!Join, No!Job
  <2>3. new.overlap = No!OnTheWay(new.node)
    BY <2>1 DEF No!NoJob
  <2> QED
    BY <1>1, <2>2, <2>3, OneJob, BeatsStay
<1>13. ASSUME NEW s \in Servers, No!CheckToken(s) PROVE BeatsKnow'
  <2>1. PICK n : n = machine[s].node
    OBVIOUS
  <2>2. PICK b : b = [server |-> s, node |-> n, token |-> machine[s].token]
    OBVIOUS
  <2>3. /\ job' = job /\ beats' = beats \cup {b} /\ n # Nothing /\ No!Exists(n) /\ machine[s].token = row[n].token
    BY <1>13, <2>1, <2>2 DEF No!CheckToken
  <2>4. machine[s] \in [node : Nodes \cup {Nothing}, token : Nat, up : BOOLEAN]
    BY DEF OpsInv, OpsTyped
  <2>5. n \in Nodes /\ b \in Beat /\ b.node = n /\ b.token = row[n].token
    BY <2>1, <2>2, <2>3, <2>4 DEF Beat
  <2>6. ASSUME NEW i \in No!Ids, AwaitsBeat(i), job[i].node = n PROVE job[i].token <= row[n].token
    BY <2>3, <2>6 DEF OpsInv, TokensGrow, JobToken, AwaitsBeat
  <2> QED
    BY <2>3, <2>5, <2>6 DEF BeatsKnow, BeatKnows, AwaitsBeat
<1>14. ASSUME NEW b \in beats, No!RecordHeartbeat(b) PROVE BeatsKnow'
  <2>1. ASSUME NEW i \in No!Ids
        PROVE \/ job'[i] = job[i]
              \/ /\ job'[i].at = job[i].at /\ job'[i].kind = job[i].kind /\ job'[i].node = job[i].node
                 /\ job'[i].token = job[i].token /\ job'[i].overlap = job[i].overlap
    <3>1. PICK h : h = No!Newest(job[i].heard, b.token)
      OBVIOUS
    <3>2. job'[i] = job[i] \/ job'[i] = [job[i] EXCEPT !.heard = h]
      BY <1>14, <3>1 DEF No!RecordHeartbeat
    <3> QED
      BY <1>0, <3>2 DEF JobRow
  <2>2. beats' \subseteq beats
    BY <1>14 DEF No!RecordHeartbeat
  <2> QED
    BY <2>1, <2>2, BeatsStay
<1>15. CASE No!ControllerRestarts
  BY <1>15 DEF No!ControllerRestarts, BeatsKnow
<1>16. CASE \E n \in Nodes : \/ \E k \in {"bootstrap", "restart"} : No!QueueAction(n, k)
                             \/ \E a \in Addresses, yes \in BOOLEAN : No!AddNode(n, a, yes)
  BY <1>2, <1>16 DEF No!QueueAction, No!AddNode
<1>17. CASE UNCHANGED operationVars
  BY <1>1, <1>17 DEF operationVars
<1>18. CASE \/ \E n \in Nodes : \/ \E a \in Addresses : No!AddByCommand(n, a) \/ \E yes \in BOOLEAN : No!EditNode(n, a, yes)
                                \/ No!InstallCommand(n) \/ No!ClearCredential(n) \/ No!AskDelete(n)
                                \/ No!DeleteNode(n) \/ No!Recover(n)
            \/ \E p \in piped : No!RunScript(p)
            \/ No!AddressMoves
  BY <1>1, <1>18 DEF No!AddByCommand, No!EditNode, No!InstallCommand, No!ClearCredential, No!AskDelete, No!DeleteNode,
     No!Recover, No!RunScript, No!AddressMoves
<1> QED
  BY <1>5, <1>6, <1>7, <1>8, <1>9, <1>10, <1>11, <1>12, <1>13, <1>14, <1>15, <1>16, <1>17, <1>18 DEF No!Next, No!JobStep

LEMMA OpsAlways == AgentsSpec => [](OpsInv /\ BeatsKnow)
<1>1. No!Init => BeatsKnow
  BY DEF No!Init, BeatsKnow
<1> QED
  BY <1>1, OpsRuns, OpsInit, OpsStep, BeatsStep, PTL

(* An install over SSH touches only the machine that is the node's own, and no other node's: whatever *)
(* addresses, edits, deletions, joins and restarts of the Controller did between its commands.        *)
THEOREM InstallsWhereBound == AgentsSpec => []RightMachine
<1>1. AgentsSpec => []OpsInv
  BY OpsAlways, PTL
<1>2. OpsInv => RightMachine
  <2> SUFFICES ASSUME OpsInv, NEW i \in No!Ids, job[i].at \in {"register", "start"}, No!Exists(job[i].node)
               PROVE /\ row[job[i].node].identity = job[i].identity
                     /\ \A other \in Nodes \ {job[i].node} : row[other].identity # job[i].identity
    BY DEF RightMachine, No!RightMachine
  <2>1. job[i].node \in Nodes /\ JobKnows(i)
    BY LiveNodes DEF OpsInv, JobsKnow
  <2>2. row[job[i].node].identity = job[i].identity /\ job[i].identity # Nothing
    BY <2>1 DEF JobKnows
  <2> QED
    BY <2>1, <2>2 DEF OpsInv, RowsApart
<1> QED
  BY <1>1, <1>2, PTL

(* An install that is reported as succeeded was heard with a token no older than the one it registered: *)
(* a heartbeat of an earlier Agent passes for the new one only if it was between its token check and    *)
(* its record when the new token was registered.                                                        *)
THEOREM HeardBeforeSuccess == AgentsSpec => []SuccessIsHeard
<1>1. AgentsSpec => []OpsInv
  BY OpsAlways, PTL
<1>2. OpsInv => SuccessIsHeard
  <2> SUFFICES ASSUME OpsInv, NEW i \in 1..Len(action), action[i].status = "succeeded", action[i].kind # "restart"
               PROVE job[i].heard >= job[i].token \/ job[i].overlap
    BY DEF SuccessIsHeard, No!SuccessIsHeard
  <2>1. i \in No!Ids /\ JobToken(i) /\ job[i] \in JobRow
    BY OpsConstants DEF OpsInv, OpsTyped, TokensGrow
  <2> QED
    BY <2>1 DEF JobToken, JobRow
<1> QED
  BY <1>1, <1>2, PTL
=============================================================================

---------------------------- MODULE MCReconcile ----------------------------
(***************************************************************************)
(* Small instances of Reconcile for TLC. Which events the environment may  *)
(* raise decides what can go wrong, so a run has scenes: the initial state *)
(* picks one, and with it Env, Fresh and how many events one behaviour     *)
(* holds. The runs that exhibit a disagreement have a scene of their own,  *)
(* the Env of their .cfg.                                                  *)
(***************************************************************************)
EXTENDS Reconcile, TLC

CONSTANTS n1, n2, p1, p2, h1, h2

VARIABLE scene

OneNode == {n1}
NoNode == {}
OnePeer == {p1}
OneHandler == {h1}
TwoHandlers == {h1, h2}

(* Handlers are interchangeable; nodes are not (an idle request names one). *)
Symmetry == Permutations(TwoHandlers)

(* What the environment may do in each scene. *)
Requests == {"boundary", "quota", "chargeFail", "console", "jobFail", "restart", "tornWrite", "enqueueFail", "disable", "lost"}
TwoNodes == {"quota", "console"}
NodeFaults == {"boundary", "applyFail", "lost", "agentCrash"}
LiveChanges == {"boundary", "console", "slow"}
Operations == {"console", "quota", "chargeFail", "enable", "disable", "restartService", "unadvertised", "readFail", "opFail", "interval"}

(* The runs that exhibit one disagreement each. *)
RetryAfterNewer == {"console", "applyFail"}
DeployHidesChange == {"boundary"}

(* Further disagreements, see README.md. *)
OldTaskHeals == {"boundary", "readFail"}
DisableComesBack == {"agentCrash", "disable", "enable"}
RestartRaces == {"console", "restartService"}
EnqueueThrowsOnce == {"console", "enqueueFail"}
OperatorRebuildFails == {"console", "opFail"}
DisableRaces == {"boundary", "disable"}
UnlistedChange == {"console", "unlisted"}
RestartAfterFailure == {"boundary", "applyFail", "restartService"}
RestartMidDeploy == {"restart", "tornWrite"}

R == INSTANCE Reconcile WITH Env <- Requests, MaxEvents <- 3
N == INSTANCE Reconcile WITH Node <- {n1, n2}, Env <- TwoNodes, MaxEvents <- 1
F == INSTANCE Reconcile WITH Env <- NodeFaults, MaxEvents <- 3
L == INSTANCE Reconcile WITH Env <- LiveChanges, MaxEvents <- 2
O == INSTANCE Reconcile WITH Env <- Operations, Fresh <- Node, Handler <- OneHandler, MaxEvents <- 2

-----------------------------------------------------------------------------
(* Run control: safety, whatever the requests, the Controller and the nodes do. *)
ControlInit == \/ scene = "requests" /\ R!Init
               \/ scene = "nodes" /\ N!Init
               \/ scene = "faults" /\ F!Init
ControlNext ==
  /\ UNCHANGED scene
  /\ \/ scene = "requests" /\ R!Next
     \/ scene = "nodes" /\ N!Next
     \/ scene = "faults" /\ F!Next
ControlSpec == ControlInit /\ [][ControlNext]_<<scene, vars>>

(* Where nobody switches the service and no task is lost between its two statements, *)
(* only a task given twice leaves a node behind a quiet Controller.                  *)
FaultsEndInStep == scene = "faults" => QuietUnlessRedelivered

-----------------------------------------------------------------------------
(* Run live: nodes that work, so that what is tried again and again succeeds.        *)
LiveInit == \/ scene = "live" /\ L!Init
            \/ scene = "operations" /\ O!Init
LiveNext ==
  /\ UNCHANGED scene
  /\ \/ scene = "live" /\ L!Next
     \/ scene = "operations" /\ O!Next

(* FairSpec of Reconcile, of whichever scene runs. *)
LiveFairness ==
  /\ WF_vars(IF scene = "live" THEN L!MinuteStart ELSE O!MinuteStart)
  /\ WF_vars(IF scene = "live" THEN L!MinuteMark ELSE O!MinuteMark)
  /\ WF_vars(IF scene = "live" THEN L!QuotaMark ELSE O!QuotaMark)
  /\ WF_vars(\E i \in DOMAIN tasks : RetryStale(i)) /\ WF_vars(\E i \in DOMAIN tasks : RetryFailed(i))
  /\ \A h \in Handler :
        /\ WF_vars(IF scene = "live" THEN L!BuildStep(h) ELSE h \in OneHandler /\ O!BuildStep(h))
        /\ WF_vars(IF scene = "live" THEN L!Return(h) ELSE h \in OneHandler /\ O!Return(h))
  /\ \A n \in Node :
        /\ WF_vars(IF scene = "live" THEN L!SafetyInterval(n) ELSE O!SafetyInterval(n))
        /\ SF_vars(\E h \in Handler : IF scene = "live" THEN L!HeartbeatStart(h, n) ELSE h \in OneHandler /\ O!HeartbeatStart(h, n))
        /\ WF_vars(IF scene = "live" THEN L!Pull(n) ELSE O!Pull(n))
        /\ SF_vars(IF scene = "live" THEN L!ApplyTask(n) ELSE O!ApplyTask(n))
  /\ WF_vars(\E r \in results : IF scene = "live" THEN L!Finish(r) ELSE O!Finish(r))
LiveSpec == LiveInit /\ [][LiveNext]_<<scene, vars>> /\ LiveFairness

(* ComesToRest, where services stay switched on: a disabled one is not rebuilt. *)
ChangesComeToRest == <>[](scene = "live" => AtRest)

-----------------------------------------------------------------------------
(* The runs of one disagreement each. *)
OneScene == scene = "one" /\ Init /\ [][Next /\ UNCHANGED scene]_<<scene, vars>>
=============================================================================

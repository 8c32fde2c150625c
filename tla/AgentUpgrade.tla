---------------------------- MODULE AgentUpgrade ----------------------------
(***************************************************************************)
(* The upgrade of one node's Agent: server/bootstrap.ts (runNodeAction),   *)
(* server/agent-upgrade.ts (three shell scripts run over SSH),             *)
(* server/agent-self-upgrade.ts, and self_upgrade, confirm_staged_upgrade  *)
(* and the rollback script of agent/agent.py.                              *)
(*                                                                         *)
(* The node keeps four files: agent.py, agent.py.rollback (the source the  *)
(* staged one replaced), agent.py.previous (the last confirmed one), and   *)
(* the markers upgrade.pending and upgrade.confirmed.  A file lock orders  *)
(* the SSH scripts, the Agent and the rollback timer.  A script runs under *)
(* the lock from its first line to its last; what it does between two of   *)
(* its outputs is one step here, because only an output can fail when the  *)
(* connection is gone.                                                     *)
(*                                                                         *)
(* Time is coarse: the rollback timer may fire as soon as it is armed, and *)
(* every wait of the Controller may end before what it waits for; only the *)
(* 120 s a request is kept and the 150 s its action waits are ordered.     *)
(***************************************************************************)
EXTENDS Naturals, TLC

CONSTANTS
    Sources,            \* Agent sources
    Good,               \* those that start and reach the Controller
    First,              \* the source the node was installed with
    None,
    MaxActions,         \* bound: upgrade actions
    MaxEvents,          \* bound: faults and deployments
    RebootsMidUpgrade   \* may the node reboot while an upgrade is pending?

UpgradeAssumption ==
    /\ First \in Good /\ Good \subseteq Sources /\ None \notin Sources
    /\ MaxActions \in Nat /\ MaxEvents \in Nat /\ RebootsMidUpgrade \in BOOLEAN

VARIABLES
    file,       \* the node's files: agent, rollback, previous
    pending,    \* upgrade.pending exists
    confirmed,  \* upgrade.confirmed: the source it names
    timer,      \* the transient rollback timer is armed (or its script waits for the lock)
    lock,       \* holder of upgrade.lock
    process,    \* the source that runs
    loop,       \* where the Agent's main thread is
    hand,       \* the source it was told of, then the one it fetched
    restartJob, \* systemd has been asked to restart the Agent
    script,     \* the SSH upgrade script: how far it is, the source it carries
    release,    \* the Controller's Agent release
    action,     \* the upgrade action: its state, target and way
    request,    \* requestSelfUpgrade's entry for this node
    late,       \* 120 s have passed since that request
    seen,       \* version of the last heartbeat since the action started
    outcome,    \* how the last action ended: by which way, with which source
    proved,     \* history: sources that have sent a heartbeat of their own
    unrun,      \* history: sources that were confirmed by an Agent that ran another one
    actions, events

node == <<file, pending, confirmed, timer, lock, process, loop, hand, restartJob, script>>
controller == <<release, action, request, late, seen, outcome>>
vars == <<node, controller, proved, unrun, actions, events>>

NoAction == [state |-> "none", target |-> None]
Nothing == [way |-> "none", source |-> None]

Init ==
    /\ file = [agent |-> First, rollback |-> None, previous |-> None]
    /\ pending = FALSE /\ confirmed = None /\ timer = FALSE /\ lock = "free"
    /\ process = First /\ loop = "idle" /\ hand = None /\ restartJob = FALSE
    /\ script = [at |-> "ended", source |-> None]
    /\ release \in Sources
    /\ action = NoAction /\ request = None /\ late = FALSE /\ seen = None /\ outcome = Nothing
    /\ proved = {First} /\ unrun = {} /\ actions = 0 /\ events = 0

Event == events < MaxEvents /\ events' = events + 1

(***************************************************************************)
(* The node.  A restart kills the process, and with it the lock it held.   *)
(***************************************************************************)
(* systemctl restart: the process that starts reads agent.py. *)
Restarted(source, holder) ==
    /\ process' = source /\ loop' = "idle" /\ hand' = None /\ restartJob' = FALSE
    /\ lock' = IF lock = "agent" THEN "free" ELSE holder

StaysUp == UNCHANGED <<process, loop, hand, restartJob>>

(* systemctl is-active: a source that cannot work may still look active. *)
LooksActive(source) == IF source \in Good THEN {TRUE} ELSE BOOLEAN

RollbackFileOnly ==
    /\ lock = "free" /\ StaysUp /\ UNCHANGED lock
    /\ IF pending
       THEN file' = [file EXCEPT !.agent = file.rollback] /\ pending' = FALSE /\ confirmed' = None
       ELSE UNCHANGED <<file, pending, confirmed>>

(* upgrade-rollback.sh, armed by both ways and run over SSH by the Controller. *)
Rollback ==
    /\ lock = "free"
    /\ IF pending
       THEN /\ file' = [file EXCEPT !.agent = file.rollback]
            /\ pending' = FALSE /\ confirmed' = None
            /\ Restarted(file.rollback, "free")
       ELSE UNCHANGED <<file, pending, confirmed, lock>> /\ StaysUp

(* An upgrade goes over SSH when the last heartbeat is 90 s old, and its timer fires 90 s    *)
(* later: a request that an earlier action left behind is not handed out any more then.     *)
RequestsAreOver == script.at = "done" /\ action.state \in {"runs", "verifies"} => request = None \/ late

TimerFires ==
    /\ timer /\ RequestsAreOver /\ Rollback /\ timer' = FALSE
    /\ UNCHANGED <<script, controller, proved, unrun, actions, events>>

(* heartbeat(): the Controller records the version; the answer may be lost.  The Agent goes on *)
(* with heartbeats while systemd has not carried out its restart, or never will.               *)
Heartbeat(answered) ==
    /\ loop = "idle" /\ process \in Good
    /\ IF answered THEN UNCHANGED events ELSE Event
    /\ seen' = process /\ proved' = proved \cup {process}
    /\ loop' = IF answered THEN "answered" ELSE loop
    /\ UNCHANGED <<file, pending, confirmed, timer, lock, process, hand, restartJob, script,
                   release, action, request, late, outcome, unrun, actions>>

(* What both confirmations write, under the lock. *)
Keep ==
    /\ file' = [file EXCEPT !.previous = file.rollback]
    /\ confirmed' = file.agent /\ pending' = FALSE /\ timer' = FALSE

(* confirm_staged_upgrade, after the answer of a heartbeat: it keeps the source that is in    *)
(* agent.py, whichever one sent the heartbeat.                                                *)
Confirm ==
    /\ loop = "answered" /\ loop' = "idle"
    /\ IF pending THEN lock = "free" /\ Keep
                  ELSE UNCHANGED <<file, confirmed, pending, timer>>
    /\ unrun' = IF pending /\ process # file.agent THEN unrun \cup {file.agent} ELSE unrun
    /\ UNCHANGED <<lock, process, hand, restartJob, script, controller, proved, actions, events>>

(* The pull that carries an upgrade; its answer may be lost.  Handed out once, not after 120 s. *)
InTime == ~late

TakeSelfUpgrade(answered) ==
    /\ request # None /\ request' = None
    /\ answered => loop = "idle" /\ hand = None
    /\ IF answered THEN UNCHANGED events ELSE Event
    /\ hand' = IF answered /\ InTime THEN request ELSE hand
    /\ UNCHANGED <<file, pending, confirmed, timer, lock, process, loop, restartJob, script,
                   release, action, late, seen, outcome, proved, unrun, actions>>

(* upgrade_pending *)
Busy == pending

(* self_upgrade up to the lock: dropped while an upgrade is pending, or when the digest differs. *)
SelfFetch ==
    /\ loop = "idle" /\ hand # None
    /\ IF Busy \/ release # hand THEN hand' = None /\ UNCHANGED loop
                                    ELSE loop' = "fetched" /\ UNCHANGED hand
    /\ UNCHANGED <<file, pending, confirmed, timer, lock, process, restartJob, script,
                   controller, proved, unrun, actions, events>>

SelfStage ==
    /\ loop = "fetched" /\ lock = "free"
    /\ lock' = "agent" /\ loop' = "staged"
    /\ file' = [file EXCEPT !.rollback = file.agent]
    /\ confirmed' = None /\ pending' = TRUE /\ timer' = FALSE
    /\ UNCHANGED <<process, hand, restartJob, script, controller, proved, unrun, actions, events>>

SelfWrite ==
    /\ loop = "staged" /\ loop' = "idle" /\ hand' = None /\ lock' = "free"
    /\ \/ /\ timer' = TRUE /\ restartJob' = TRUE
          /\ file' = [file EXCEPT !.agent = hand]
          /\ UNCHANGED <<pending, events>>
       \/ /\ Event /\ timer' = TRUE         \* the restart failed: nobody looks
          /\ file' = [file EXCEPT !.agent = hand]
          /\ UNCHANGED <<pending, restartJob>>
       \/ /\ Event /\ pending' = FALSE      \* systemd-run failed
          /\ UNCHANGED <<file, timer, restartJob>>
    /\ UNCHANGED <<confirmed, process, script, controller, proved, unrun, actions>>

(* systemd carries out the restart the Agent asked for; Restart = any other restart of it. *)
RestartJob ==
    /\ restartJob /\ Restarted(file.agent, lock)
    /\ UNCHANGED <<file, pending, confirmed, timer, script, controller, proved, unrun, actions, events>>

Restart ==
    /\ Event /\ Restarted(file.agent, lock)
    /\ UNCHANGED <<file, pending, confirmed, timer, script, controller, proved, unrun, actions>>

At(place) == [script EXCEPT !.at = place]

(* A reboot also forgets the transient timer and ends the scripts. *)
Reboot ==
    /\ Event /\ (pending => RebootsMidUpgrade)
    /\ process' = file.agent /\ loop' = "idle" /\ hand' = None /\ restartJob' = FALSE
    /\ lock' = "free" /\ timer' = FALSE
    /\ script' = IF script.at \in {"ended", "done"} THEN script ELSE At("failed")
    /\ UNCHANGED <<file, pending, confirmed, controller, proved, unrun, actions>>

(***************************************************************************)
(* The SSH upgrade script (agentUpgradeCommand).                           *)
(***************************************************************************)
(* An unverified upgrade is undone first. *)
BaseAsItIs == file.agent
Base == IF pending THEN file.rollback ELSE file.agent

(* Bring back the previous source when the service is down. *)
ScriptStart ==
    /\ script.at = "sent" /\ lock = "free" /\ confirmed' = None
    /\ LET base == Base
       IN  \E active \in LooksActive(base) :
             LET revive == ~active /\ file.previous # None
                 source == IF revive THEN file.previous ELSE base
                 goesOn == active \/ revive
                 holder == IF goesOn THEN "ssh" ELSE "free"
             IN  /\ file' = [file EXCEPT !.agent = source]
                 /\ pending' = FALSE
                 /\ IF pending \/ revive THEN Restarted(source, holder) ELSE lock' = holder /\ StaysUp
                 /\ script' = At(IF goesOn THEN "upload" ELSE "failed")
    /\ UNCHANGED <<timer, controller, proved, unrun, actions, events>>

ScriptStage ==
    /\ script.at = "upload" /\ file' = [file EXCEPT !.rollback = file.agent]
    /\ \/ script' = At("armed") /\ pending' = TRUE /\ timer' = TRUE /\ UNCHANGED <<lock, events>>
       \/ script' = At("failed") /\ pending' = FALSE /\ timer' = FALSE /\ lock' = "free" /\ Event
    /\ UNCHANGED <<confirmed, controller, proved, unrun, actions>> /\ StaysUp

ScriptSwap ==
    /\ script.at = "armed"
    /\ \E active \in LooksActive(script.source) :
         IF active
         THEN /\ file' = [file EXCEPT !.agent = script.source] /\ script' = At("done")
              /\ Restarted(script.source, "free") /\ UNCHANGED pending
         ELSE /\ Restarted(file.rollback, "free") /\ pending' = FALSE /\ script' = At("failed")
              /\ UNCHANGED file
    /\ UNCHANGED <<confirmed, timer, controller, proved, unrun, actions, events>>

(* Its next output fails: the connection, or the Controller, is gone. *)
ScriptDies ==
    /\ script.at \in {"sent", "upload", "armed"} /\ Event
    /\ script' = At("failed") /\ lock' = IF script.at = "sent" THEN lock ELSE "free"
    /\ UNCHANGED <<file, pending, confirmed, timer, controller, proved, unrun, actions>> /\ StaysUp

(***************************************************************************)
(* The Controller's action.                                                *)
(***************************************************************************)
(* Which way depends on the Agent's capability and the age of its heartbeat; either may *)
(* hold whatever the Agent runs now, so both ways are offered.                          *)
Start(way) ==
    /\ action = NoAction /\ actions < MaxActions /\ actions' = actions + 1
    /\ script.at \in {"ended", "done", "failed"}
    /\ action' = [state |-> way, target |-> release]
    /\ seen' = None /\ outcome' = Nothing
    /\ IF way = "waits" THEN request' = release /\ late' = FALSE /\ UNCHANGED script
                        ELSE script' = [at |-> "sent", source |-> release] /\ UNCHANGED <<request, late>>
    /\ UNCHANGED <<file, pending, confirmed, timer, lock, release, proved, unrun, events>> /\ StaysUp

End(way) == action' = NoAction /\ outcome' = [way |-> way, source |-> action.target]
Becomes(state) == action' = [action EXCEPT !.state = state] /\ UNCHANGED outcome
NodeStays == UNCHANGED <<node, release, request, seen, proved, unrun, actions, events>>

(* 120 s pass; the action waits 30 s more. *)
GoesLate == ~late /\ late' = TRUE /\ UNCHANGED <<action, outcome>> /\ NodeStays

SelfUpgradeEnds ==
    /\ action.state = "waits" /\ UNCHANGED late /\ NodeStays
    /\ \/ seen = action.target /\ End("self")
       \/ late /\ End("failed")

(* The script's exit status, or a lost connection while the script goes on or dies. *)
ScriptEnds ==
    /\ action.state = "runs"
    /\ \/ script.at = "done" /\ Becomes("verifies") /\ UNCHANGED events
       \/ script.at = "failed" /\ Becomes("rollsBack") /\ UNCHANGED events
       \/ Event /\ Becomes("rollsBack")
    /\ UNCHANGED <<node, release, request, late, seen, proved, unrun, actions>>

VerifyTimesOut == action.state = "verifies" /\ Becomes("rollsBack") /\ UNCHANGED late /\ NodeStays

(* agentUpgradeFinalizeCommand: not after a rollback, and only once. *)
StillKept == pending \/ confirmed # None
Finalize ==
    /\ action.state = "verifies" /\ seen = action.target /\ lock = "free"
    /\ \E active \in LooksActive(process), heard \in BOOLEAN :
         /\ IF heard THEN UNCHANGED events ELSE Event
         /\ IF pending /\ active THEN Keep ELSE UNCHANGED <<file, confirmed, pending, timer>>
         /\ IF StillKept /\ (pending => active) /\ heard THEN End("ssh") ELSE Becomes("rollsBack")
    /\ UNCHANGED <<lock, script, release, request, late, seen, proved, unrun, actions>> /\ StaysUp

(* The catch block: roll back over SSH when that works. *)
RollBack ==
    /\ action.state = "rollsBack" /\ End("failed")
    /\ \/ Rollback /\ UNCHANGED events
       \/ Event /\ UNCHANGED <<file, pending, confirmed, lock>> /\ StaysUp
    /\ UNCHANGED <<timer, script, release, request, late, seen, proved, unrun, actions>>

(* A deployment: a new release, and what the old process knew is gone. *)
ControllerRestarts ==
    /\ Event /\ release' \in Sources
    /\ action' = NoAction /\ request' = None /\ late' = FALSE /\ outcome' = Nothing /\ seen' = None
    /\ UNCHANGED <<node, proved, unrun, actions>>

Next ==
    \/ TimerFires \/ Confirm \/ SelfFetch \/ SelfStage \/ SelfWrite \/ RestartJob \/ Restart \/ Reboot
    \/ \E answered \in BOOLEAN : Heartbeat(answered) \/ TakeSelfUpgrade(answered)
    \/ ScriptStart \/ ScriptStage \/ ScriptSwap \/ ScriptDies
    \/ \E way \in {"waits", "runs"} : Start(way)
    \/ GoesLate \/ SelfUpgradeEnds \/ ScriptEnds \/ VerifyTimesOut \/ Finalize \/ RollBack
    \/ ControllerRestarts

AgentStep == Heartbeat(TRUE) \/ Confirm \/ SelfFetch \/ SelfStage \/ SelfWrite \/ RestartJob
ScriptStep == ScriptStart \/ ScriptStage \/ ScriptSwap
ActionStep == SelfUpgradeEnds \/ ScriptEnds \/ VerifyTimesOut \/ RollBack

(* systemd carries out the timer and the restart job; the shell, the Agent's thread (a       *)
(* heartbeat every 30 s) and the Controller's promises run on; the clock passes 120 s.       *)
Spec ==
    /\ Init /\ [][Next]_vars
    /\ WF_vars(TimerFires) /\ WF_vars(AgentStep) /\ WF_vars(ScriptStep)
    /\ WF_vars(ActionStep) /\ WF_vars(GoesLate)

(***************************************************************************)
(* Properties                                                              *)
(***************************************************************************)
(* A source that is kept: it reached the Controller, or an Agent whose restart had not       *)
(* happened (agent.py:1853 ignores its result) confirmed it without running it.              *)
Kept == proved \cup unrun

(* README "Agent self-upgrade" and agent.py self_upgrade: whenever agent.py is a source that *)
(* never reached the Controller, the timer is armed and the file it restores did.  The code  *)
(* does not give the whole of agent.py:1821 ("unless the new one confirms itself with a      *)
(* successful heartbeat"): a source that an older process confirmed is excepted.             *)
WayBack ==
    file.agent \notin Kept => pending /\ timer /\ file.rollback \in Kept

(* README "Agent 2.8": .previous changes only on confirmation.  It is what the next upgrade  *)
(* falls back on when the service is down, so it is always a source that worked, with the    *)
(* same exception.                                                                           *)
PreviousWorked == file.previous # None => file.previous \in Kept

(* runNodeAction: an SSH upgrade reported as succeeded is not rolled back afterwards. *)
SuccessIsKept ==
    outcome.way = "ssh" =>
        /\ file.agent = outcome.source /\ process = outcome.source
        /\ pending => file.rollback = outcome.source

(* The Agent comes back, again and again, to a source that works, confirmed or restored;     *)
(* except that it may stay with one that was confirmed without running.                      *)
Restored ==
    /\ {process, file.agent} \subseteq Good \cup unrun
    /\ pending => process \in unrun
ComesBack == []<>Restored

(* takeSelfUpgradeFor: an Agent is told of a release only while the action still waits for   *)
(* it, or the release has run on the node: no untried source goes out for a failed action.   *)
ToldInTime == [][hand = None /\ hand' # None => action.state = "waits" \/ hand' \in proved]_vars

=============================================================================

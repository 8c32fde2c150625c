--------------------------- MODULE SurfacesProofs ---------------------------
(***************************************************************************)
(* Proofs about the parts of Surfaces: the upgrade of an Agent, its        *)
(* domain, the sites, what pages show, and where connections are placed.   *)
(***************************************************************************)
EXTENDS Surfaces, FiniteSetTheorems, SequenceTheorems, WellFoundedInduction, TLAPS

-----------------------------------------------------------------------------
(* AgentUpgrade.                                                              *)

OrNone == Sources \union {None}

(* Sources that reached the Controller, or that an Agent kept without running them. *)
Trusted == proved \union unrun

FilesTyped ==
    /\ file \in [agent : Sources, rollback : OrNone, previous : OrNone]
    /\ confirmed \in OrNone /\ Trusted \in SUBSET Sources
FlagsTyped == pending \in BOOLEAN /\ timer \in BOOLEAN /\ restartJob \in BOOLEAN /\ late \in BOOLEAN
AgentTyped ==
    /\ lock \in {"free", "agent", "ssh"} /\ process \in Sources
    /\ loop \in {"idle", "answered", "fetched", "staged"} /\ hand \in OrNone
    /\ script \in [at : {"ended", "sent", "upload", "armed", "done", "failed"}, source : OrNone]
ActionTyped ==
    /\ release \in Sources /\ request \in OrNone /\ lastSeen \in OrNone
    /\ action \in [state : {"none", "waits", "runs", "verifies", "rollsBack"}, target : OrNone]
    /\ outcome \in [way : {"none", "ssh", "self", "failed"}, source : OrNone]
UpTyped == FilesTyped /\ FlagsTyped /\ AgentTyped /\ ActionTyped

(* What a source is fallen back on has worked, and while the Agent's file has   *)
(* not, the timer is armed and the Agent runs it or is about to.                *)
Ways ==
    /\ file.previous # None => file.previous \in Trusted
    /\ pending => file.rollback \in Trusted
    /\ file.agent \notin Trusted =>
          pending /\ timer /\ loop \in {"idle", "answered"} /\ lock = "free"
    /\ loop = "answered" => process \in Trusted
    /\ lastSeen # None => lastSeen \in Trusted

Locks ==
    /\ lock = "agent" <=> loop = "staged"
    /\ loop = "staged" => pending
    /\ loop \in {"fetched", "staged"} => hand # None
    /\ lock = "ssh" <=> script.at \in {"upload", "armed"}
    /\ script.at = "armed" => pending /\ timer
    /\ script.at # "ended" => script.source # None

(* An action is for the release there is, and so is what the node is told.      *)
Told ==
    /\ action.state = "none" <=> action = Up!NoAction
    /\ action.state # "none" => action.target = release
    /\ request # None => request = release
    /\ action.state = "runs" => script.source = action.target /\ script.at # "ended"
    /\ action.state = "verifies" => script.at = "done"
    /\ outcome.way = "ssh" => action.state = "none" /\ outcome.source = release /\ script.at = "done"

(* From the end of the script on: the node holds the release, or its timer has  *)
(* undone the upgrade and nothing is left to start it again.                    *)
Over == script.at = "done" /\ action.state \in {"runs", "verifies"}
Held == file.agent = release /\ process = release
Undone == ~pending /\ confirmed = None /\ hand = None /\ (request = None \/ late) /\ loop \notin {"fetched", "staged"}
Succeeds ==
    /\ Over \/ outcome.way = "ssh" => hand \in {None, release}
    /\ Over => hand = None \/ request = None
    /\ Over => Undone \/ (Held /\ (pending \/ confirmed # None))
    /\ outcome.way = "ssh" => Held /\ (pending => file.rollback = release)

UpgradeInv == UpTyped /\ Ways /\ Locks /\ Told /\ Succeeds

LEMMA UpgradesRun == SurfacesSpec => Up!Init /\ [][Up!Next]_upgradeVars
<1>1. SurfacesInit => Up!Init
  BY DEF SurfacesInit
<1>2. [SurfacesNext]_surfaceVars => [Up!Next]_upgradeVars
  BY DEF SurfacesNext, surfaceVars, upgradeVars
<1> QED
  BY <1>1, <1>2, PTL DEF SurfacesSpec

LEMMA UpgradeConstants == FirstSource \in Good /\ Good \subseteq Sources /\ None \notin Sources
BY UpgradeAssumption DEF Up!UpgradeAssumption

LEMMA UpgradesInit == Up!Init => UpgradeInv
<1> SUFFICES ASSUME Up!Init PROVE UpgradeInv
  OBVIOUS
<1>1. /\ file = [agent |-> FirstSource, rollback |-> None, previous |-> None]
      /\ pending = FALSE /\ confirmed = None /\ timer = FALSE /\ lock = "free"
      /\ process = FirstSource /\ loop = "idle" /\ hand = None /\ restartJob = FALSE
      /\ script = [at |-> "ended", source |-> None] /\ release \in Sources
      /\ action = [state |-> "none", target |-> None] /\ request = None /\ late = FALSE /\ lastSeen = None
      /\ outcome = [way |-> "none", source |-> None] /\ Trusted = {FirstSource}
  BY DEF Up!Init, Up!NoAction, Up!Nothing, Trusted
<1>2. UpTyped
  BY <1>1, UpgradeConstants DEF UpTyped, FilesTyped, FlagsTyped, AgentTyped, ActionTyped, OrNone
<1>3. Ways /\ Locks
  BY <1>1 DEF Ways, Locks
<1>4. Told
  BY <1>1 DEF Told, Up!NoAction
<1>5. Succeeds
  BY <1>1 DEF Succeeds, Over
<1> QED
  BY <1>2, <1>3, <1>4, <1>5 DEF UpgradeInv


(* What stays of an action, of a script, and of the node's files. *)
ActionStays == UNCHANGED <<release, action, request, late, lastSeen, outcome>>
ScriptStays == UNCHANGED script
FilesStay == UNCHANGED <<file, pending, confirmed, timer>>
AgentStays == UNCHANGED <<process, loop, hand, restartJob>>

LEMMA TimerKeeps == ASSUME UpgradeInv, Up!TimerFires PROVE UpgradeInv'
<1>1. /\ timer /\ timer' = FALSE /\ lock = "free" /\ Trusted' = Trusted /\ ScriptStays /\ ActionStays
      /\ Over => request = None \/ late
  BY DEF Up!TimerFires, Up!Rollback, Up!controller, Up!RequestsAreOver, Over, ScriptStays, ActionStays, Trusted
<1>2. CASE pending
  <2>1. /\ file' = [file EXCEPT !.agent = file.rollback] /\ pending' = FALSE /\ confirmed' = None
        /\ process' = file.rollback /\ loop' = "idle" /\ hand' = None /\ restartJob' = FALSE /\ lock' = "free"
    BY <1>1, <1>2 DEF Up!TimerFires, Up!Rollback, Up!Restarted
  <2>2. /\ file.rollback \in Trusted /\ Trusted \subseteq Sources
        /\ file' = [agent |-> file.rollback, rollback |-> file.rollback, previous |-> file.previous]
    BY <1>2, <2>1 DEF UpgradeInv, UpTyped, FilesTyped, FlagsTyped, AgentTyped, ActionTyped, Ways
  <2>3. UpTyped'
    <3>1. FilesTyped'
      BY <1>1, <2>1, <2>2 DEF UpgradeInv, ScriptStays, ActionStays, OrNone, UpTyped, FilesTyped, FlagsTyped, AgentTyped, ActionTyped
    <3>2. FlagsTyped'
      BY <1>1, <2>1, <2>2 DEF UpgradeInv, ScriptStays, ActionStays, OrNone, UpTyped, FilesTyped, FlagsTyped, AgentTyped, ActionTyped
    <3>3. AgentTyped'
      BY <1>1, <2>1, <2>2 DEF UpgradeInv, ScriptStays, ActionStays, OrNone, UpTyped, FilesTyped, FlagsTyped, AgentTyped, ActionTyped
    <3>4. ActionTyped'
      BY <1>1, <2>1, <2>2 DEF UpgradeInv, ScriptStays, ActionStays, OrNone, UpTyped, FilesTyped, FlagsTyped, AgentTyped, ActionTyped
    <3> QED
      BY <3>1, <3>2, <3>3, <3>4 DEF UpTyped
  <2>4. Ways'
    BY <1>1, <2>1, <2>2 DEF UpgradeInv, Ways, ActionStays
  <2>5. Locks'
    BY <1>1, <2>1 DEF UpgradeInv, Locks, ScriptStays
  <2>6. Told'
    BY <1>1 DEF UpgradeInv, Told, ScriptStays, ActionStays
  <2>7. Succeeds'
    <3>1. Over' => Undone'
      BY <1>1, <2>1 DEF Over, Undone, ScriptStays, ActionStays
    <3>2. outcome'.way = "ssh" => Held'
      BY <1>1, <1>2, <2>1, <2>2 DEF UpgradeInv, Succeeds, Held, ActionStays
    <3> QED
      BY <2>1, <3>1, <3>2 DEF Succeeds
  <2> QED
    BY <2>3, <2>4, <2>5, <2>6, <2>7 DEF UpgradeInv
<1>3. CASE ~pending
  <2>1. UNCHANGED <<file, pending, confirmed, lock>> /\ AgentStays
    BY <1>3 DEF Up!TimerFires, Up!Rollback, Up!StaysUp, AgentStays
  <2>2. UpTyped'
    <3>1. FilesTyped'
      BY <1>1, <2>1 DEF UpgradeInv, ScriptStays, ActionStays, AgentStays, UpTyped, FilesTyped, FlagsTyped, AgentTyped, ActionTyped
    <3>2. FlagsTyped'
      BY <1>1, <2>1 DEF UpgradeInv, ScriptStays, ActionStays, AgentStays, UpTyped, FilesTyped, FlagsTyped, AgentTyped, ActionTyped
    <3>3. AgentTyped'
      BY <1>1, <2>1 DEF UpgradeInv, ScriptStays, ActionStays, AgentStays, UpTyped, FilesTyped, FlagsTyped, AgentTyped, ActionTyped
    <3>4. ActionTyped'
      BY <1>1, <2>1 DEF UpgradeInv, ScriptStays, ActionStays, AgentStays, UpTyped, FilesTyped, FlagsTyped, AgentTyped, ActionTyped
    <3> QED
      BY <3>1, <3>2, <3>3, <3>4 DEF UpTyped
  <2>3. Ways' /\ Locks'
    BY <1>1, <1>3, <2>1 DEF UpgradeInv, Ways, Locks, ScriptStays, ActionStays, AgentStays
  <2>4. Told' /\ Succeeds'
    BY <1>1, <2>1 DEF UpgradeInv, Told, Succeeds, Over, Undone, Held, ScriptStays, ActionStays, AgentStays
  <2> QED
    BY <2>2, <2>3, <2>4 DEF UpgradeInv
<1> QED
  BY <1>2, <1>3

(* A heartbeat proves the source that runs. *)
LEMMA HeartbeatKeeps == ASSUME UpgradeInv, NEW answered \in BOOLEAN, Up!Heartbeat(answered) PROVE UpgradeInv'
<1>1. /\ loop = "idle" /\ lastSeen' = process /\ Trusted' = Trusted \union {process}
      /\ loop' \in {"idle", "answered"} /\ FilesStay /\ ScriptStays
      /\ UNCHANGED <<lock, process, hand, restartJob, release, action, request, late, outcome>>
  BY DEF Up!Heartbeat, FilesStay, ScriptStays, Trusted
<1>2. UpTyped'
  <2>1. FilesTyped'
    BY <1>1 DEF UpgradeInv, FilesStay, ScriptStays, OrNone, UpTyped, FilesTyped, FlagsTyped, AgentTyped, ActionTyped
  <2>2. FlagsTyped'
    BY <1>1 DEF UpgradeInv, FilesStay, ScriptStays, OrNone, UpTyped, FilesTyped, FlagsTyped, AgentTyped, ActionTyped
  <2>3. AgentTyped'
    BY <1>1 DEF UpgradeInv, FilesStay, ScriptStays, OrNone, UpTyped, FilesTyped, FlagsTyped, AgentTyped, ActionTyped
  <2>4. ActionTyped'
    BY <1>1 DEF UpgradeInv, FilesStay, ScriptStays, OrNone, UpTyped, FilesTyped, FlagsTyped, AgentTyped, ActionTyped
  <2> QED
    BY <2>1, <2>2, <2>3, <2>4 DEF UpTyped
<1>3. Ways'
  BY <1>1 DEF UpgradeInv, UpTyped, FilesTyped, FlagsTyped, AgentTyped, ActionTyped, Ways, FilesStay
<1>4. Locks' /\ Told'
  BY <1>1 DEF UpgradeInv, Locks, Told, FilesStay, ScriptStays
<1>5. Succeeds'
  BY <1>1 DEF UpgradeInv, Succeeds, Over, Undone, Held, FilesStay, ScriptStays
<1> QED
  BY <1>2, <1>3, <1>4, <1>5 DEF UpgradeInv

(* What is kept, under the lock. *)
LEMMA KeepWrites ==
    ASSUME UpgradeInv, Up!Keep, pending
    PROVE  /\ file' = [agent |-> file.agent, rollback |-> file.rollback, previous |-> file.rollback]
           /\ confirmed' = file.agent /\ pending' = FALSE /\ timer' = FALSE
           /\ file.rollback \in Trusted /\ file.agent \in Sources /\ Trusted \subseteq Sources
BY DEF UpgradeInv, UpTyped, FilesTyped, FlagsTyped, AgentTyped, ActionTyped, Ways, Up!Keep, Trusted

LEMMA ConfirmKeeps == ASSUME UpgradeInv, Up!Confirm PROVE UpgradeInv'
<1>1. /\ loop = "answered" /\ loop' = "idle" /\ ScriptStays /\ ActionStays
      /\ UNCHANGED <<lock, process, hand, restartJob>>
  BY DEF Up!Confirm, Up!controller, ScriptStays, ActionStays
<1>2. CASE pending
  <2>1. Up!Keep /\ lock = "free"
    BY <1>2 DEF Up!Confirm
  <2>2. Trusted' = Trusted \union {file.agent}
    BY <1>1, <1>2 DEF Up!Confirm, UpgradeInv, Ways, Trusted
  <2>3. /\ file' = [agent |-> file.agent, rollback |-> file.rollback, previous |-> file.rollback]
        /\ confirmed' = file.agent /\ pending' = FALSE /\ timer' = FALSE
        /\ file.rollback \in Trusted /\ file.agent \in Sources /\ Trusted \subseteq Sources
    BY <1>2, <2>1, KeepWrites
  <2>4. UpTyped'
    <3>1. FilesTyped'
      BY <1>1, <2>2, <2>3 DEF UpgradeInv, ScriptStays, ActionStays, OrNone, UpTyped, FilesTyped, FlagsTyped, AgentTyped, ActionTyped
    <3>2. FlagsTyped'
      BY <1>1, <2>2, <2>3 DEF UpgradeInv, ScriptStays, ActionStays, OrNone, UpTyped, FilesTyped, FlagsTyped, AgentTyped, ActionTyped
    <3>3. AgentTyped'
      BY <1>1, <2>2, <2>3 DEF UpgradeInv, ScriptStays, ActionStays, OrNone, UpTyped, FilesTyped, FlagsTyped, AgentTyped, ActionTyped
    <3>4. ActionTyped'
      BY <1>1, <2>2, <2>3 DEF UpgradeInv, ScriptStays, ActionStays, OrNone, UpTyped, FilesTyped, FlagsTyped, AgentTyped, ActionTyped
    <3> QED
      BY <3>1, <3>2, <3>3, <3>4 DEF UpTyped
  <2>5. Ways'
    BY <1>1, <2>2, <2>3 DEF UpgradeInv, Ways, ActionStays
  <2>6. Locks' /\ Told'
    BY <1>1, <2>1, <2>3 DEF UpgradeInv, Locks, Told, ScriptStays, ActionStays
  <2>7. Succeeds'
    BY <1>1, <1>2, <2>3, UpgradeConstants DEF UpgradeInv, Succeeds, Over, Undone, Held, ScriptStays, ActionStays
  <2> QED
    BY <2>4, <2>5, <2>6, <2>7 DEF UpgradeInv
<1>3. CASE ~pending
  <2>1. FilesStay /\ Trusted' = Trusted
    BY <1>3 DEF Up!Confirm, FilesStay, Trusted
  <2>2. UpTyped'
    <3>1. FilesTyped'
      BY <1>1, <2>1 DEF UpgradeInv, ScriptStays, ActionStays, FilesStay, UpTyped, FilesTyped, FlagsTyped, AgentTyped, ActionTyped
    <3>2. FlagsTyped'
      BY <1>1, <2>1 DEF UpgradeInv, ScriptStays, ActionStays, FilesStay, UpTyped, FilesTyped, FlagsTyped, AgentTyped, ActionTyped
    <3>3. AgentTyped'
      BY <1>1, <2>1 DEF UpgradeInv, ScriptStays, ActionStays, FilesStay, UpTyped, FilesTyped, FlagsTyped, AgentTyped, ActionTyped
    <3>4. ActionTyped'
      BY <1>1, <2>1 DEF UpgradeInv, ScriptStays, ActionStays, FilesStay, UpTyped, FilesTyped, FlagsTyped, AgentTyped, ActionTyped
    <3> QED
      BY <3>1, <3>2, <3>3, <3>4 DEF UpTyped
  <2>3. Ways' /\ Locks' /\ Told'
    BY <1>1, <2>1 DEF UpgradeInv, Ways, Locks, Told, ScriptStays, ActionStays, FilesStay
  <2>4. Succeeds'
    BY <1>1, <2>1 DEF UpgradeInv, Succeeds, Over, Undone, Held, ScriptStays, ActionStays, FilesStay
  <2> QED
    BY <2>2, <2>3, <2>4 DEF UpgradeInv
<1> QED
  BY <1>2, <1>3

(* The Agent upgrades itself: told, fetched, staged, written. *)
LEMMA TellKeeps == ASSUME UpgradeInv, NEW answered \in BOOLEAN, Up!TakeSelfUpgrade(answered) PROVE UpgradeInv'
<1>1. /\ request # None /\ request' = None /\ (hand' = hand \/ (hand = None /\ hand' = request /\ ~late))
      /\ FilesStay /\ ScriptStays /\ Trusted' = Trusted
      /\ UNCHANGED <<lock, process, loop, restartJob, release, action, late, lastSeen, outcome>>
  BY DEF Up!TakeSelfUpgrade, Up!InTime, FilesStay, ScriptStays, Trusted
<1>2. UpTyped'
  <2>1. FilesTyped'
    BY <1>1 DEF UpgradeInv, FilesStay, ScriptStays, OrNone, UpTyped, FilesTyped, FlagsTyped, AgentTyped, ActionTyped
  <2>2. FlagsTyped'
    BY <1>1 DEF UpgradeInv, FilesStay, ScriptStays, OrNone, UpTyped, FilesTyped, FlagsTyped, AgentTyped, ActionTyped
  <2>3. AgentTyped'
    BY <1>1 DEF UpgradeInv, FilesStay, ScriptStays, OrNone, UpTyped, FilesTyped, FlagsTyped, AgentTyped, ActionTyped
  <2>4. ActionTyped'
    BY <1>1 DEF UpgradeInv, FilesStay, ScriptStays, OrNone, UpTyped, FilesTyped, FlagsTyped, AgentTyped, ActionTyped
  <2> QED
    BY <2>1, <2>2, <2>3, <2>4 DEF UpTyped
<1>3. Ways' /\ Locks' /\ Told'
  BY <1>1 DEF UpgradeInv, Ways, Locks, Told, FilesStay, ScriptStays
<1>4. Succeeds'
  BY <1>1 DEF UpgradeInv, Told, Succeeds, Over, Undone, Held, FilesStay, ScriptStays
<1> QED
  BY <1>2, <1>3, <1>4 DEF UpgradeInv

LEMMA FetchKeeps == ASSUME UpgradeInv, Up!SelfFetch PROVE UpgradeInv'
<1>1. /\ loop = "idle" /\ hand # None /\ FilesStay /\ ScriptStays /\ ActionStays /\ Trusted' = Trusted
      /\ UNCHANGED <<lock, process, restartJob>>
      /\ (hand' = None /\ loop' = loop) \/ (~pending /\ hand' = hand /\ loop' = "fetched")
  BY DEF Up!SelfFetch, Up!Busy, Up!controller, FilesStay, ScriptStays, ActionStays, Trusted
<1>2. UpTyped'
  <2>1. FilesTyped'
    BY <1>1 DEF UpgradeInv, FilesStay, ScriptStays, ActionStays, OrNone, UpTyped, FilesTyped, FlagsTyped, AgentTyped, ActionTyped
  <2>2. FlagsTyped'
    BY <1>1 DEF UpgradeInv, FilesStay, ScriptStays, ActionStays, OrNone, UpTyped, FilesTyped, FlagsTyped, AgentTyped, ActionTyped
  <2>3. AgentTyped'
    BY <1>1 DEF UpgradeInv, FilesStay, ScriptStays, ActionStays, OrNone, UpTyped, FilesTyped, FlagsTyped, AgentTyped, ActionTyped
  <2>4. ActionTyped'
    BY <1>1 DEF UpgradeInv, FilesStay, ScriptStays, ActionStays, OrNone, UpTyped, FilesTyped, FlagsTyped, AgentTyped, ActionTyped
  <2> QED
    BY <2>1, <2>2, <2>3, <2>4 DEF UpTyped
<1>3. Ways'
  BY <1>1 DEF UpgradeInv, Ways, FilesStay, ActionStays
<1>4. Locks' /\ Told'
  BY <1>1 DEF UpgradeInv, Locks, Told, FilesStay, ScriptStays, ActionStays
<1>5. Succeeds'
  BY <1>1 DEF UpgradeInv, Succeeds, Over, Undone, Held, FilesStay, ScriptStays, ActionStays
<1> QED
  BY <1>2, <1>3, <1>4, <1>5 DEF UpgradeInv

LEMMA StageKeeps == ASSUME UpgradeInv, Up!SelfStage PROVE UpgradeInv'
<1>1. /\ loop = "fetched" /\ lock = "free" /\ lock' = "agent" /\ loop' = "staged"
      /\ file' = [file EXCEPT !.rollback = file.agent] /\ confirmed' = None /\ pending' = TRUE /\ timer' = FALSE
      /\ ScriptStays /\ ActionStays /\ Trusted' = Trusted /\ UNCHANGED <<process, hand, restartJob>>
  BY DEF Up!SelfStage, Up!controller, ScriptStays, ActionStays, Trusted
<1>2. /\ file' = [agent |-> file.agent, rollback |-> file.agent, previous |-> file.previous]
      /\ file.agent \in Trusted /\ Trusted \subseteq Sources
  BY <1>1 DEF UpgradeInv, UpTyped, FilesTyped, FlagsTyped, AgentTyped, ActionTyped, Ways
<1>3. UpTyped'
  <2>1. FilesTyped'
    BY <1>1, <1>2 DEF UpgradeInv, ScriptStays, ActionStays, OrNone, UpTyped, FilesTyped, FlagsTyped, AgentTyped, ActionTyped
  <2>2. FlagsTyped'
    BY <1>1, <1>2 DEF UpgradeInv, ScriptStays, ActionStays, OrNone, UpTyped, FilesTyped, FlagsTyped, AgentTyped, ActionTyped
  <2>3. AgentTyped'
    BY <1>1, <1>2 DEF UpgradeInv, ScriptStays, ActionStays, OrNone, UpTyped, FilesTyped, FlagsTyped, AgentTyped, ActionTyped
  <2>4. ActionTyped'
    BY <1>1, <1>2 DEF UpgradeInv, ScriptStays, ActionStays, OrNone, UpTyped, FilesTyped, FlagsTyped, AgentTyped, ActionTyped
  <2> QED
    BY <2>1, <2>2, <2>3, <2>4 DEF UpTyped
<1>4. Ways'
  BY <1>1, <1>2 DEF UpgradeInv, Ways, ActionStays
<1>5. Locks' /\ Told'
  BY <1>1 DEF UpgradeInv, Locks, Told, ScriptStays, ActionStays
<1>6. Succeeds'
  BY <1>1, <1>2 DEF UpgradeInv, Succeeds, Over, Undone, Held, ScriptStays, ActionStays
<1> QED
  BY <1>3, <1>4, <1>5, <1>6 DEF UpgradeInv

LEMMA WriteKeeps == ASSUME UpgradeInv, Up!SelfWrite PROVE UpgradeInv'
<1>1. /\ loop = "staged" /\ loop' = "idle" /\ hand' = None /\ lock' = "free"
      /\ ScriptStays /\ ActionStays /\ Trusted' = Trusted /\ UNCHANGED <<confirmed, process>>
      /\ lock = "agent" /\ pending /\ hand # None /\ file.agent \in Trusted
  BY DEF Up!SelfWrite, Up!controller, ScriptStays, ActionStays, UpgradeInv, Locks, Ways, Trusted
<1>2. CASE timer' = TRUE /\ restartJob' \in {TRUE, restartJob} /\ file' = [file EXCEPT !.agent = hand] /\ pending' = pending
  <2>1. /\ file' = [agent |-> hand, rollback |-> file.rollback, previous |-> file.previous]
        /\ hand \in Sources /\ file.rollback \in Trusted
    BY <1>1, <1>2 DEF UpgradeInv, UpTyped, FilesTyped, FlagsTyped, AgentTyped, ActionTyped, Ways, OrNone
  <2>2. UpTyped'
    <3>1. FilesTyped'
      BY <1>1, <1>2, <2>1 DEF UpgradeInv, ScriptStays, ActionStays, OrNone, UpTyped, FilesTyped, FlagsTyped, AgentTyped, ActionTyped
    <3>2. FlagsTyped'
      BY <1>1, <1>2, <2>1 DEF UpgradeInv, ScriptStays, ActionStays, OrNone, UpTyped, FilesTyped, FlagsTyped, AgentTyped, ActionTyped
    <3>3. AgentTyped'
      BY <1>1, <1>2, <2>1 DEF UpgradeInv, ScriptStays, ActionStays, OrNone, UpTyped, FilesTyped, FlagsTyped, AgentTyped, ActionTyped
    <3>4. ActionTyped'
      BY <1>1, <1>2, <2>1 DEF UpgradeInv, ScriptStays, ActionStays, OrNone, UpTyped, FilesTyped, FlagsTyped, AgentTyped, ActionTyped
    <3> QED
      BY <3>1, <3>2, <3>3, <3>4 DEF UpTyped
  <2>3. Ways'
    BY <1>1, <1>2, <2>1 DEF UpgradeInv, Ways, ActionStays
  <2>4. Locks' /\ Told'
    BY <1>1, <1>2 DEF UpgradeInv, Locks, Told, ScriptStays, ActionStays
  <2>5. Succeeds'
    BY <1>1, <1>2, <2>1 DEF UpgradeInv, Succeeds, Over, Undone, Held, ScriptStays, ActionStays
  <2> QED
    BY <2>2, <2>3, <2>4, <2>5 DEF UpgradeInv
<1>3. CASE pending' = FALSE /\ UNCHANGED <<file, timer, restartJob>>
  <2>1. UpTyped'
    <3>1. FilesTyped'
      BY <1>1, <1>3 DEF UpgradeInv, ScriptStays, ActionStays, OrNone, UpTyped, FilesTyped, FlagsTyped, AgentTyped, ActionTyped
    <3>2. FlagsTyped'
      BY <1>1, <1>3 DEF UpgradeInv, ScriptStays, ActionStays, OrNone, UpTyped, FilesTyped, FlagsTyped, AgentTyped, ActionTyped
    <3>3. AgentTyped'
      BY <1>1, <1>3 DEF UpgradeInv, ScriptStays, ActionStays, OrNone, UpTyped, FilesTyped, FlagsTyped, AgentTyped, ActionTyped
    <3>4. ActionTyped'
      BY <1>1, <1>3 DEF UpgradeInv, ScriptStays, ActionStays, OrNone, UpTyped, FilesTyped, FlagsTyped, AgentTyped, ActionTyped
    <3> QED
      BY <3>1, <3>2, <3>3, <3>4 DEF UpTyped
  <2>2. Ways'
    BY <1>1, <1>3 DEF UpgradeInv, Ways, ActionStays
  <2>3. Locks' /\ Told'
    BY <1>1, <1>3 DEF UpgradeInv, Locks, Told, ScriptStays, ActionStays
  <2>4. Succeeds'
    BY <1>1, <1>3 DEF UpgradeInv, Succeeds, Over, Undone, Held, ScriptStays, ActionStays
  <2> QED
    BY <2>1, <2>2, <2>3, <2>4 DEF UpgradeInv
<1> QED
  BY <1>2, <1>3 DEF Up!SelfWrite

(* A restart: the process that starts reads the Agent's file. *)
LEMMA RestartKeeps == ASSUME UpgradeInv, Up!RestartJob \/ Up!Restart PROVE UpgradeInv'
<1>1. /\ process' = file.agent /\ loop' = "idle" /\ hand' = None /\ restartJob' = FALSE
      /\ lock' = (IF lock = "agent" THEN "free" ELSE lock)
      /\ FilesStay /\ ScriptStays /\ ActionStays /\ Trusted' = Trusted
  BY DEF Up!RestartJob, Up!Restart, Up!Restarted, Up!controller, FilesStay, ScriptStays, ActionStays, Trusted
<1>2. UpTyped'
  <2>1. FilesTyped'
    BY <1>1 DEF UpgradeInv, FilesStay, ScriptStays, ActionStays, OrNone, UpTyped, FilesTyped, FlagsTyped, AgentTyped, ActionTyped
  <2>2. FlagsTyped'
    BY <1>1 DEF UpgradeInv, FilesStay, ScriptStays, ActionStays, OrNone, UpTyped, FilesTyped, FlagsTyped, AgentTyped, ActionTyped
  <2>3. AgentTyped'
    BY <1>1 DEF UpgradeInv, FilesStay, ScriptStays, ActionStays, OrNone, UpTyped, FilesTyped, FlagsTyped, AgentTyped, ActionTyped
  <2>4. ActionTyped'
    BY <1>1 DEF UpgradeInv, FilesStay, ScriptStays, ActionStays, OrNone, UpTyped, FilesTyped, FlagsTyped, AgentTyped, ActionTyped
  <2> QED
    BY <2>1, <2>2, <2>3, <2>4 DEF UpTyped
<1>3. Ways'
  BY <1>1 DEF UpgradeInv, Ways, FilesStay, ActionStays
<1>4. Locks' /\ Told'
  BY <1>1 DEF UpgradeInv, Locks, Told, FilesStay, ScriptStays, ActionStays
<1>5. Succeeds'
  BY <1>1 DEF UpgradeInv, Locks, Succeeds, Over, Undone, Held, FilesStay, ScriptStays, ActionStays
<1> QED
  BY <1>2, <1>3, <1>4, <1>5 DEF UpgradeInv

(* A reboot also ends what runs over SSH and forgets the timer: not while an    *)
(* upgrade is pending, and then the Agent's file has worked.                    *)
LEMMA RebootKeeps == ASSUME UpgradeInv, ~RebootsMidUpgrade, Up!Reboot PROVE UpgradeInv'
<1>1. /\ ~pending /\ process' = file.agent /\ loop' = "idle" /\ hand' = None /\ restartJob' = FALSE
      /\ lock' = "free" /\ timer' = FALSE /\ UNCHANGED <<file, pending, confirmed, Trusted>> /\ ActionStays
      /\ script' = (IF script.at \in {"ended", "done"} THEN script ELSE [script EXCEPT !.at = "failed"])
  BY DEF Up!Reboot, Up!At, Up!controller, ActionStays, Trusted
<1>2. /\ script' \in [at : {"ended", "sent", "upload", "armed", "done", "failed"}, source : OrNone]
      /\ script'.source = script.source /\ script'.at \in {"ended", "done", "failed"}
      /\ script'.at = "ended" <=> script.at = "ended"
      /\ script'.at = "done" <=> script.at = "done"
  BY <1>1 DEF UpgradeInv, UpTyped, FilesTyped, FlagsTyped, AgentTyped, ActionTyped
<1>3. UpTyped'
  <2>1. FilesTyped'
    BY <1>1, <1>2 DEF UpgradeInv, ActionStays, OrNone, UpTyped, FilesTyped, FlagsTyped, AgentTyped, ActionTyped
  <2>2. FlagsTyped'
    BY <1>1, <1>2 DEF UpgradeInv, ActionStays, OrNone, UpTyped, FilesTyped, FlagsTyped, AgentTyped, ActionTyped
  <2>3. AgentTyped'
    BY <1>1, <1>2 DEF UpgradeInv, ActionStays, OrNone, UpTyped, FilesTyped, FlagsTyped, AgentTyped, ActionTyped
  <2>4. ActionTyped'
    BY <1>1, <1>2 DEF UpgradeInv, ActionStays, OrNone, UpTyped, FilesTyped, FlagsTyped, AgentTyped, ActionTyped
  <2> QED
    BY <2>1, <2>2, <2>3, <2>4 DEF UpTyped
<1>4. Ways'
  BY <1>1 DEF UpgradeInv, Ways, ActionStays
<1>5. Locks' /\ Told'
  BY <1>1, <1>2 DEF UpgradeInv, Locks, Told, ActionStays
<1>6. Succeeds'
  BY <1>1, <1>2 DEF UpgradeInv, Succeeds, Over, Undone, Held, ActionStays
<1> QED
  BY <1>3, <1>4, <1>5, <1>6 DEF UpgradeInv

(* Where the script is says nothing of an action that it has not ended. *)
LEMMA ScriptGoes ==
    ASSUME UpgradeInv, NEW place \in {"upload", "armed", "done", "failed"}, script' = Up!At(place)
    PROVE  /\ script' \in [at : {"ended", "sent", "upload", "armed", "done", "failed"}, source : OrNone]
           /\ script'.source = script.source /\ script'.at = place
BY DEF UpgradeInv, UpTyped, FilesTyped, FlagsTyped, AgentTyped, ActionTyped, Up!At

(* An unverified upgrade is undone first, and the previous source brought back  *)
(* when the service is down: each of them has worked.                           *)
LEMMA ScriptStartKeeps == ASSUME UpgradeInv, Up!ScriptStart PROVE UpgradeInv'
<1>1. /\ script.at = "sent" /\ lock = "free" /\ confirmed' = None /\ pending' = FALSE
      /\ timer' = timer /\ Trusted' = Trusted /\ ActionStays
  BY DEF Up!ScriptStart, Up!controller, ActionStays, Trusted
<1>2. PICK base : base = IF pending THEN file.rollback ELSE file.agent
  OBVIOUS
<1>3. PICK active \in BOOLEAN :
        /\ file' = [file EXCEPT !.agent = IF ~active /\ file.previous # None THEN file.previous ELSE base]
        /\ IF pending \/ (~active /\ file.previous # None)
           THEN Up!Restarted(IF ~active /\ file.previous # None THEN file.previous ELSE base,
                             IF active \/ file.previous # None THEN "ssh" ELSE "free")
           ELSE lock' = (IF active \/ file.previous # None THEN "ssh" ELSE "free") /\ Up!StaysUp
        /\ script' = Up!At(IF active \/ file.previous # None THEN "upload" ELSE "failed")
  BY <1>2 DEF Up!ScriptStart, Up!Base, Up!LooksActive
<1>4. PICK source : source = IF ~active /\ file.previous # None THEN file.previous ELSE base
  OBVIOUS
<1>5. base \in Trusted /\ source \in Trusted /\ Trusted \subseteq Sources
  BY <1>1, <1>2, <1>4 DEF UpgradeInv, UpTyped, FilesTyped, FlagsTyped, AgentTyped, ActionTyped, Ways
<1>6. file' = [agent |-> source, rollback |-> file.rollback, previous |-> file.previous]
  BY <1>3, <1>4 DEF UpgradeInv, UpTyped, FilesTyped, FlagsTyped, AgentTyped, ActionTyped
<1>7. PICK holder \in {"ssh", "free"} : holder = IF active \/ file.previous # None THEN "ssh" ELSE "free"
  OBVIOUS
<1>8. /\ lock' = holder
      /\ \/ AgentStays
         \/ process' = source /\ loop' = "idle" /\ hand' = None /\ restartJob' = FALSE
  BY <1>1, <1>3, <1>4, <1>7 DEF Up!Restarted, Up!StaysUp, AgentStays
<1>9. PICK place \in {"upload", "failed"} : place = IF active \/ file.previous # None THEN "upload" ELSE "failed"
  OBVIOUS
<1>10. /\ script' \in [at : {"ended", "sent", "upload", "armed", "done", "failed"}, source : OrNone]
       /\ script'.source = script.source /\ script'.at \in {"upload", "failed"} /\ (script'.at = "upload" <=> lock' = "ssh")
  <2>1. script' = Up!At(place) /\ (place = "upload" <=> holder = "ssh")
    BY <1>3, <1>7, <1>9
  <2>2. place \in {"upload", "armed", "done", "failed"}
    BY <1>9
  <2> QED
    BY <1>8, <1>9, <2>1, <2>2, ScriptGoes
<1>11. UpTyped'
  <2>1. FilesTyped'
    BY <1>1, <1>5, <1>6, <1>8, <1>10 DEF UpgradeInv, ActionStays, AgentStays, OrNone, UpTyped, FilesTyped, FlagsTyped, AgentTyped, ActionTyped
  <2>2. FlagsTyped'
    BY <1>1, <1>5, <1>6, <1>8, <1>10 DEF UpgradeInv, ActionStays, AgentStays, OrNone, UpTyped, FilesTyped, FlagsTyped, AgentTyped, ActionTyped
  <2>3. AgentTyped'
    BY <1>1, <1>5, <1>6, <1>8, <1>10 DEF UpgradeInv, ActionStays, AgentStays, OrNone, UpTyped, FilesTyped, FlagsTyped, AgentTyped, ActionTyped
  <2>4. ActionTyped'
    BY <1>1, <1>5, <1>6, <1>8, <1>10 DEF UpgradeInv, ActionStays, AgentStays, OrNone, UpTyped, FilesTyped, FlagsTyped, AgentTyped, ActionTyped
  <2> QED
    BY <2>1, <2>2, <2>3, <2>4 DEF UpTyped
<1>12. Ways'
  BY <1>1, <1>5, <1>6, <1>8 DEF UpgradeInv, Ways, ActionStays, AgentStays
<1>13. Locks'
  BY <1>1, <1>7, <1>8, <1>10 DEF UpgradeInv, Locks, AgentStays
<1>14. Told'
  BY <1>1, <1>10 DEF UpgradeInv, Told, ActionStays
<1>15. Succeeds'
  BY <1>1, <1>8, <1>10 DEF UpgradeInv, Told, Succeeds, Over, ActionStays, AgentStays
<1> QED
  BY <1>11, <1>12, <1>13, <1>14, <1>15 DEF UpgradeInv

(* The script keeps what runs, arms the timer, and only then changes the file. *)
LEMMA ScriptStageKeeps == ASSUME UpgradeInv, Up!ScriptStage PROVE UpgradeInv'
<1>1. /\ script.at = "upload" /\ file' = [file EXCEPT !.rollback = file.agent]
      /\ confirmed' = confirmed /\ Trusted' = Trusted /\ ActionStays /\ AgentStays
      /\ \/ script' = Up!At("armed") /\ pending' = TRUE /\ timer' = TRUE /\ lock' = lock
         \/ script' = Up!At("failed") /\ pending' = FALSE /\ timer' = FALSE /\ lock' = "free"
  BY DEF Up!ScriptStage, Up!StaysUp, Up!controller, ActionStays, AgentStays, Trusted
<1>2. /\ lock = "ssh" /\ file.agent \in Trusted /\ Trusted \subseteq Sources
      /\ file' = [agent |-> file.agent, rollback |-> file.agent, previous |-> file.previous]
  BY <1>1 DEF UpgradeInv, UpTyped, FilesTyped, FlagsTyped, AgentTyped, ActionTyped, Ways, Locks
<1>3. /\ script' \in [at : {"ended", "sent", "upload", "armed", "done", "failed"}, source : OrNone]
      /\ script'.source = script.source
      /\ (script'.at = "armed" /\ lock' = "ssh") \/ (script'.at = "failed" /\ lock' = "free")
  BY <1>1, <1>2, ScriptGoes
<1>4. UpTyped'
  <2>1. FilesTyped'
    BY <1>1, <1>2, <1>3 DEF UpgradeInv, ActionStays, AgentStays, OrNone, UpTyped, FilesTyped, FlagsTyped, AgentTyped, ActionTyped
  <2>2. FlagsTyped'
    BY <1>1, <1>2, <1>3 DEF UpgradeInv, ActionStays, AgentStays, OrNone, UpTyped, FilesTyped, FlagsTyped, AgentTyped, ActionTyped
  <2>3. AgentTyped'
    BY <1>1, <1>2, <1>3 DEF UpgradeInv, ActionStays, AgentStays, OrNone, UpTyped, FilesTyped, FlagsTyped, AgentTyped, ActionTyped
  <2>4. ActionTyped'
    BY <1>1, <1>2, <1>3 DEF UpgradeInv, ActionStays, AgentStays, OrNone, UpTyped, FilesTyped, FlagsTyped, AgentTyped, ActionTyped
  <2> QED
    BY <2>1, <2>2, <2>3, <2>4 DEF UpTyped
<1>5. Ways'
  BY <1>1, <1>2 DEF UpgradeInv, Ways, ActionStays, AgentStays
<1>6. Locks'
  <2>1. script'.at = "armed" => pending' /\ timer'
    BY <1>1, <1>3, ScriptGoes
  <2> QED
    BY <1>1, <1>2, <1>3, <2>1 DEF UpgradeInv, Locks, AgentStays
<1>7. Told' /\ Succeeds'
  BY <1>1, <1>3 DEF UpgradeInv, Told, Succeeds, Over, ActionStays, AgentStays
<1> QED
  BY <1>4, <1>5, <1>6, <1>7 DEF UpgradeInv

LEMMA ScriptSwapKeeps == ASSUME UpgradeInv, Up!ScriptSwap PROVE UpgradeInv'
<1>1. /\ script.at = "armed" /\ confirmed' = confirmed /\ timer' = timer /\ Trusted' = Trusted /\ ActionStays
      /\ lock = "ssh" /\ pending /\ timer /\ file.agent \in Trusted /\ file.rollback \in Trusted /\ script.source # None
  BY DEF Up!ScriptSwap, Up!controller, ActionStays, UpgradeInv, Ways, Locks, Trusted
<1>2. CASE /\ file' = [file EXCEPT !.agent = script.source] /\ script' = Up!At("done")
           /\ Up!Restarted(script.source, "free") /\ pending' = pending
  <2>1. /\ process' = script.source /\ loop' = "idle" /\ hand' = None /\ restartJob' = FALSE /\ lock' = "free"
    BY <1>1, <1>2 DEF Up!Restarted
  <2>2. /\ script' \in [at : {"ended", "sent", "upload", "armed", "done", "failed"}, source : OrNone]
        /\ script'.source = script.source /\ script'.at = "done"
    BY <1>2, ScriptGoes
  <2>3. /\ file' = [agent |-> script.source, rollback |-> file.rollback, previous |-> file.previous]
        /\ script.source \in Sources
    BY <1>1, <1>2 DEF UpgradeInv, UpTyped, FilesTyped, FlagsTyped, AgentTyped, ActionTyped, OrNone
  <2>4. UpTyped'
    <3>1. FilesTyped'
      BY <1>1, <1>2, <2>1, <2>2, <2>3 DEF UpgradeInv, ActionStays, OrNone, UpTyped, FilesTyped, FlagsTyped, AgentTyped, ActionTyped
    <3>2. FlagsTyped'
      BY <1>1, <1>2, <2>1, <2>2, <2>3 DEF UpgradeInv, ActionStays, OrNone, UpTyped, FilesTyped, FlagsTyped, AgentTyped, ActionTyped
    <3>3. AgentTyped'
      BY <1>1, <1>2, <2>1, <2>2, <2>3 DEF UpgradeInv, ActionStays, OrNone, UpTyped, FilesTyped, FlagsTyped, AgentTyped, ActionTyped
    <3>4. ActionTyped'
      BY <1>1, <1>2, <2>1, <2>2, <2>3 DEF UpgradeInv, ActionStays, OrNone, UpTyped, FilesTyped, FlagsTyped, AgentTyped, ActionTyped
    <3> QED
      BY <3>1, <3>2, <3>3, <3>4 DEF UpTyped
  <2>5. Ways'
    BY <1>1, <1>2, <2>1, <2>3 DEF UpgradeInv, Ways, ActionStays
  <2>6. Locks' /\ Told'
    BY <1>1, <1>2, <2>1, <2>2 DEF UpgradeInv, Locks, Told, ActionStays
  <2>7. Succeeds'
    BY <1>1, <1>2, <2>1, <2>2, <2>3 DEF UpgradeInv, Told, Succeeds, Over, Held, ActionStays
  <2> QED
    BY <2>4, <2>5, <2>6, <2>7 DEF UpgradeInv
<1>3. CASE Up!Restarted(file.rollback, "free") /\ pending' = FALSE /\ script' = Up!At("failed") /\ file' = file
  <2>1. /\ process' = file.rollback /\ loop' = "idle" /\ hand' = None /\ restartJob' = FALSE /\ lock' = "free"
        /\ file.rollback \in Sources
    BY <1>1, <1>3 DEF Up!Restarted, UpgradeInv, UpTyped, FilesTyped, FlagsTyped, AgentTyped, ActionTyped
  <2>2. /\ script' \in [at : {"ended", "sent", "upload", "armed", "done", "failed"}, source : OrNone]
        /\ script'.source = script.source /\ script'.at = "failed"
    BY <1>3, ScriptGoes
  <2>3. UpTyped'
    <3>1. FilesTyped'
      BY <1>1, <1>3, <2>1, <2>2 DEF UpgradeInv, ActionStays, OrNone, UpTyped, FilesTyped, FlagsTyped, AgentTyped, ActionTyped
    <3>2. FlagsTyped'
      BY <1>1, <1>3, <2>1, <2>2 DEF UpgradeInv, ActionStays, OrNone, UpTyped, FilesTyped, FlagsTyped, AgentTyped, ActionTyped
    <3>3. AgentTyped'
      BY <1>1, <1>3, <2>1, <2>2 DEF UpgradeInv, ActionStays, OrNone, UpTyped, FilesTyped, FlagsTyped, AgentTyped, ActionTyped
    <3>4. ActionTyped'
      BY <1>1, <1>3, <2>1, <2>2 DEF UpgradeInv, ActionStays, OrNone, UpTyped, FilesTyped, FlagsTyped, AgentTyped, ActionTyped
    <3> QED
      BY <3>1, <3>2, <3>3, <3>4 DEF UpTyped
  <2>4. Ways'
    BY <1>1, <1>3, <2>1 DEF UpgradeInv, Ways, ActionStays
  <2>5. Locks' /\ Told' /\ Succeeds'
    BY <1>1, <1>3, <2>1, <2>2 DEF UpgradeInv, Locks, Told, Succeeds, Over, ActionStays
  <2> QED
    BY <2>3, <2>4, <2>5 DEF UpgradeInv
<1> QED
  BY <1>2, <1>3 DEF Up!ScriptSwap

LEMMA ScriptDiesKeeps == ASSUME UpgradeInv, Up!ScriptDies PROVE UpgradeInv'
<1>1. /\ script.at \in {"sent", "upload", "armed"} /\ script' = Up!At("failed")
      /\ lock' = (IF script.at = "sent" THEN lock ELSE "free") /\ Trusted' = Trusted /\ FilesStay /\ ActionStays /\ AgentStays
  BY DEF Up!ScriptDies, Up!StaysUp, Up!controller, FilesStay, ActionStays, AgentStays, Trusted
<1>2. /\ script' \in [at : {"ended", "sent", "upload", "armed", "done", "failed"}, source : OrNone]
      /\ script'.source = script.source /\ script'.at = "failed"
  BY <1>1, ScriptGoes
<1>3. UpTyped'
  <2>1. FilesTyped'
    BY <1>1, <1>2 DEF UpgradeInv, FilesStay, ActionStays, AgentStays, OrNone, UpTyped, FilesTyped, FlagsTyped, AgentTyped, ActionTyped
  <2>2. FlagsTyped'
    BY <1>1, <1>2 DEF UpgradeInv, FilesStay, ActionStays, AgentStays, OrNone, UpTyped, FilesTyped, FlagsTyped, AgentTyped, ActionTyped
  <2>3. AgentTyped'
    BY <1>1, <1>2 DEF UpgradeInv, FilesStay, ActionStays, AgentStays, OrNone, UpTyped, FilesTyped, FlagsTyped, AgentTyped, ActionTyped
  <2>4. ActionTyped'
    BY <1>1, <1>2 DEF UpgradeInv, FilesStay, ActionStays, AgentStays, OrNone, UpTyped, FilesTyped, FlagsTyped, AgentTyped, ActionTyped
  <2> QED
    BY <2>1, <2>2, <2>3, <2>4 DEF UpTyped
<1>4. Ways'
  BY <1>1 DEF UpgradeInv, Ways, FilesStay, ActionStays, AgentStays
<1>5. Locks'
  BY <1>1, <1>2 DEF UpgradeInv, Locks, FilesStay, AgentStays
<1>6. Told' /\ Succeeds'
  BY <1>1, <1>2 DEF UpgradeInv, Told, Succeeds, Over, ActionStays
<1> QED
  BY <1>3, <1>4, <1>5, <1>6 DEF UpgradeInv

-----------------------------------------------------------------------------
(* The Controller's action.                                                   *)

NodeUnmoved == FilesStay /\ AgentStays /\ lock' = lock /\ Trusted' = Trusted

LEMMA StartKeeps == ASSUME UpgradeInv, NEW way \in {"waits", "runs"}, Up!Start(way) PROVE UpgradeInv'
<1>1. /\ action = Up!NoAction /\ script.at \in {"ended", "done", "failed"}
      /\ action' = [state |-> way, target |-> release] /\ lastSeen' = None /\ outcome' = [way |-> "none", source |-> None]
      /\ release' = release /\ NodeUnmoved
      /\ \/ way = "waits" /\ request' = release /\ late' = FALSE /\ script' = script
         \/ way = "runs" /\ script' = [at |-> "sent", source |-> release] /\ UNCHANGED <<request, late>>
  BY DEF Up!Start, Up!Nothing, Up!StaysUp, NodeUnmoved, FilesStay, AgentStays, Trusted
<1>2. release \in Sources
  BY DEF UpgradeInv, UpTyped, FilesTyped, FlagsTyped, AgentTyped, ActionTyped
<1>3. UpTyped'
  <2>1. FilesTyped'
    BY <1>1, <1>2 DEF UpgradeInv, NodeUnmoved, FilesStay, AgentStays, OrNone, UpTyped, FilesTyped, FlagsTyped, AgentTyped, ActionTyped
  <2>2. FlagsTyped'
    BY <1>1, <1>2 DEF UpgradeInv, NodeUnmoved, FilesStay, AgentStays, OrNone, UpTyped, FilesTyped, FlagsTyped, AgentTyped, ActionTyped
  <2>3. AgentTyped'
    BY <1>1, <1>2 DEF UpgradeInv, NodeUnmoved, FilesStay, AgentStays, OrNone, UpTyped, FilesTyped, FlagsTyped, AgentTyped, ActionTyped
  <2>4. ActionTyped'
    BY <1>1, <1>2 DEF UpgradeInv, NodeUnmoved, FilesStay, AgentStays, OrNone, UpTyped, FilesTyped, FlagsTyped, AgentTyped, ActionTyped
  <2> QED
    BY <2>1, <2>2, <2>3, <2>4 DEF UpTyped
<1>4. Ways'
  BY <1>1 DEF UpgradeInv, Ways, NodeUnmoved, FilesStay, AgentStays
<1>5. Locks'
  BY <1>1, <1>2, UpgradeConstants DEF UpgradeInv, Locks, NodeUnmoved, FilesStay, AgentStays
<1>6. Told'
  BY <1>1 DEF UpgradeInv, Told, Up!NoAction
<1>7. Succeeds'
  BY <1>1 DEF Succeeds, Over
<1> QED
  BY <1>3, <1>4, <1>5, <1>6, <1>7 DEF UpgradeInv

(* An action that does not say the SSH way succeeded, on a node that stays. *)
LEMMA ActionMoves ==
    ASSUME UpgradeInv, NodeUnmoved, ScriptStays, UNCHANGED <<release, request, lastSeen>>, late' = late \/ late' = TRUE,
           UpTyped', Told', Over' => Over, outcome'.way = "ssh" => outcome.way = "ssh"
    PROVE  UpgradeInv'
<1>1. Ways'
  BY DEF UpgradeInv, Ways, NodeUnmoved, FilesStay, AgentStays
<1>2. Locks'
  BY DEF UpgradeInv, Locks, NodeUnmoved, FilesStay, AgentStays, ScriptStays
<1>3. Succeeds'
  BY DEF UpgradeInv, Succeeds, Undone, Held, NodeUnmoved, FilesStay, AgentStays, ScriptStays
<1> QED
  BY <1>1, <1>2, <1>3 DEF UpgradeInv

LEMMA EndFacts ==
    ASSUME UpgradeInv, NEW way \in {"self", "failed", "ssh"}, Up!End(way)
    PROVE  action' = [state |-> "none", target |-> None] /\ outcome' = [way |-> way, source |-> action.target]
           /\ action.target \in OrNone
BY DEF UpgradeInv, UpTyped, FilesTyped, FlagsTyped, AgentTyped, ActionTyped, Up!End, Up!NoAction

LEMMA BecomesFacts ==
    ASSUME UpgradeInv, NEW state \in {"verifies", "rollsBack"}, Up!Becomes(state)
    PROVE  action' = [state |-> state, target |-> action.target] /\ outcome' = outcome
BY DEF UpgradeInv, UpTyped, FilesTyped, FlagsTyped, AgentTyped, ActionTyped, Up!Becomes

LEMMA WaitKeeps == ASSUME UpgradeInv, Up!GoesLate \/ Up!SelfUpgradeEnds \/ Up!VerifyTimesOut PROVE UpgradeInv'
<1>1. /\ NodeUnmoved /\ ScriptStays /\ UNCHANGED <<release, request, lastSeen>> /\ (late' = late \/ late' = TRUE)
  BY DEF Up!GoesLate, Up!SelfUpgradeEnds, Up!VerifyTimesOut, Up!NodeStays, Up!node, NodeUnmoved, FilesStay, AgentStays, ScriptStays, Trusted
<1>2. CASE Up!GoesLate
  <2>1. UNCHANGED <<action, outcome>>
    BY <1>2 DEF Up!GoesLate
  <2>2. UpTyped'
    <3>1. FilesTyped'
      BY <1>1, <2>1 DEF UpgradeInv, NodeUnmoved, FilesStay, AgentStays, ScriptStays, UpTyped, FilesTyped, FlagsTyped, AgentTyped, ActionTyped
    <3>2. FlagsTyped'
      BY <1>1, <2>1 DEF UpgradeInv, NodeUnmoved, FilesStay, AgentStays, ScriptStays, UpTyped, FilesTyped, FlagsTyped, AgentTyped, ActionTyped
    <3>3. AgentTyped'
      BY <1>1, <2>1 DEF UpgradeInv, NodeUnmoved, FilesStay, AgentStays, ScriptStays, UpTyped, FilesTyped, FlagsTyped, AgentTyped, ActionTyped
    <3>4. ActionTyped'
      BY <1>1, <2>1 DEF UpgradeInv, NodeUnmoved, FilesStay, AgentStays, ScriptStays, UpTyped, FilesTyped, FlagsTyped, AgentTyped, ActionTyped
    <3> QED
      BY <3>1, <3>2, <3>3, <3>4 DEF UpTyped
  <2>3. Told' /\ (Over' => Over)
    BY <1>1, <2>1 DEF UpgradeInv, Told, Over, ScriptStays
  <2> QED
    BY <1>1, <2>1, <2>2, <2>3, ActionMoves
<1>3. ASSUME NEW way \in {"self", "failed"}, Up!End(way) PROVE UpgradeInv'
  <2>1. /\ action' = [state |-> "none", target |-> None] /\ outcome' = [way |-> way, source |-> action.target]
        /\ action.target \in OrNone
    BY <1>3, EndFacts
  <2>2. UpTyped'
    <3>1. FilesTyped'
      BY <1>1, <2>1 DEF UpgradeInv, NodeUnmoved, FilesStay, AgentStays, ScriptStays, OrNone, UpTyped, FilesTyped, FlagsTyped, AgentTyped, ActionTyped
    <3>2. FlagsTyped'
      BY <1>1, <2>1 DEF UpgradeInv, NodeUnmoved, FilesStay, AgentStays, ScriptStays, OrNone, UpTyped, FilesTyped, FlagsTyped, AgentTyped, ActionTyped
    <3>3. AgentTyped'
      BY <1>1, <2>1 DEF UpgradeInv, NodeUnmoved, FilesStay, AgentStays, ScriptStays, OrNone, UpTyped, FilesTyped, FlagsTyped, AgentTyped, ActionTyped
    <3>4. ActionTyped'
      BY <1>1, <2>1 DEF UpgradeInv, NodeUnmoved, FilesStay, AgentStays, ScriptStays, OrNone, UpTyped, FilesTyped, FlagsTyped, AgentTyped, ActionTyped
    <3> QED
      BY <3>1, <3>2, <3>3, <3>4 DEF UpTyped
  <2>3. Told' /\ (Over' => Over) /\ outcome'.way # "ssh"
    BY <1>1, <2>1 DEF UpgradeInv, Told, Over, ScriptStays, Up!NoAction
  <2> QED
    BY <1>1, <2>2, <2>3, ActionMoves
<1>4. CASE Up!SelfUpgradeEnds
  BY <1>3, <1>4 DEF Up!SelfUpgradeEnds
<1>5. CASE Up!VerifyTimesOut
  <2>1. action' = [state |-> "rollsBack", target |-> action.target] /\ outcome' = outcome /\ action.state = "verifies"
    BY <1>5, BecomesFacts DEF Up!VerifyTimesOut
  <2>2. UpTyped'
    <3>1. FilesTyped'
      BY <1>1, <2>1 DEF UpgradeInv, NodeUnmoved, FilesStay, AgentStays, ScriptStays, OrNone, UpTyped, FilesTyped, FlagsTyped, AgentTyped, ActionTyped
    <3>2. FlagsTyped'
      BY <1>1, <2>1 DEF UpgradeInv, NodeUnmoved, FilesStay, AgentStays, ScriptStays, OrNone, UpTyped, FilesTyped, FlagsTyped, AgentTyped, ActionTyped
    <3>3. AgentTyped'
      BY <1>1, <2>1 DEF UpgradeInv, NodeUnmoved, FilesStay, AgentStays, ScriptStays, OrNone, UpTyped, FilesTyped, FlagsTyped, AgentTyped, ActionTyped
    <3>4. ActionTyped'
      BY <1>1, <2>1 DEF UpgradeInv, NodeUnmoved, FilesStay, AgentStays, ScriptStays, OrNone, UpTyped, FilesTyped, FlagsTyped, AgentTyped, ActionTyped
    <3> QED
      BY <3>1, <3>2, <3>3, <3>4 DEF UpTyped
  <2>3. Told' /\ (Over' => Over)
    BY <1>1, <2>1 DEF UpgradeInv, Told, Over, ScriptStays, Up!NoAction
  <2> QED
    BY <1>1, <2>1, <2>2, <2>3, ActionMoves
<1> QED
  BY <1>2, <1>4, <1>5

LEMMA ScriptEndKeeps == ASSUME UpgradeInv, Up!ScriptEnds PROVE UpgradeInv'
<1>1. /\ action.state = "runs" /\ NodeUnmoved /\ ScriptStays /\ UNCHANGED <<release, request, lastSeen>> /\ late' = late
  BY DEF Up!ScriptEnds, Up!node, NodeUnmoved, FilesStay, AgentStays, ScriptStays, Trusted
<1>2. PICK state \in {"verifies", "rollsBack"} : Up!Becomes(state) /\ (state = "verifies" => script.at = "done")
  BY DEF Up!ScriptEnds
<1>3. action' = [state |-> state, target |-> action.target] /\ outcome' = outcome
  BY <1>2, BecomesFacts
<1>4. UpTyped'
  <2>1. FilesTyped'
    BY <1>1, <1>3 DEF UpgradeInv, NodeUnmoved, FilesStay, AgentStays, ScriptStays, OrNone, UpTyped, FilesTyped, FlagsTyped, AgentTyped, ActionTyped
  <2>2. FlagsTyped'
    BY <1>1, <1>3 DEF UpgradeInv, NodeUnmoved, FilesStay, AgentStays, ScriptStays, OrNone, UpTyped, FilesTyped, FlagsTyped, AgentTyped, ActionTyped
  <2>3. AgentTyped'
    BY <1>1, <1>3 DEF UpgradeInv, NodeUnmoved, FilesStay, AgentStays, ScriptStays, OrNone, UpTyped, FilesTyped, FlagsTyped, AgentTyped, ActionTyped
  <2>4. ActionTyped'
    BY <1>1, <1>3 DEF UpgradeInv, NodeUnmoved, FilesStay, AgentStays, ScriptStays, OrNone, UpTyped, FilesTyped, FlagsTyped, AgentTyped, ActionTyped
  <2> QED
    BY <2>1, <2>2, <2>3, <2>4 DEF UpTyped
<1>5. Told' /\ (Over' => Over)
  BY <1>1, <1>2, <1>3 DEF UpgradeInv, Told, Over, ScriptStays, Up!NoAction
<1> QED
  BY <1>1, <1>3, <1>4, <1>5, ActionMoves

(* What was seen running is what the file holds, unless the upgrade was undone. *)
LEMMA FinalizeKeeps == ASSUME UpgradeInv, Up!Finalize PROVE UpgradeInv'
<1>1. /\ action.state = "verifies" /\ lastSeen = action.target /\ lock = "free" /\ script.at = "done" /\ Over
      /\ AgentStays /\ ScriptStays /\ UNCHANGED <<lock, release, request, late, lastSeen, Trusted>>
  BY DEF Up!Finalize, Up!StaysUp, UpgradeInv, Told, Over, AgentStays, ScriptStays, Trusted
<1>2. action.target = release /\ release \in Sources /\ release \in Trusted /\ (pending => file.agent \in Trusted)
  BY <1>1, UpgradeConstants DEF UpgradeInv, UpTyped, FilesTyped, FlagsTyped, AgentTyped, ActionTyped, Told, Ways, Succeeds, Undone, Held
<1>3. /\ outcome.way # "ssh"
      /\ Undone \/ (Held /\ (pending \/ confirmed # None))
      /\ hand \in {None, release} /\ (hand = None \/ request = None)
  BY <1>1 DEF UpgradeInv, Told, Succeeds
<1>4. PICK active \in BOOLEAN, heard \in BOOLEAN :
        /\ IF pending /\ active THEN Up!Keep ELSE FilesStay
        /\ IF (pending \/ confirmed # None) /\ (pending => active) /\ heard THEN Up!End("ssh") ELSE Up!Becomes("rollsBack")
  BY DEF Up!Finalize, Up!LooksActive, Up!StillKept, FilesStay
<1>5. \/ FilesStay
      \/ /\ pending /\ file' = [agent |-> file.agent, rollback |-> file.rollback, previous |-> file.rollback]
         /\ confirmed' = file.agent /\ pending' = FALSE /\ timer' = FALSE
         /\ file.rollback \in Trusted /\ file.agent \in Sources /\ Trusted \subseteq Sources
  BY <1>2, <1>4, KeepWrites
<1>6. \/ /\ action' = [state |-> "none", target |-> None] /\ outcome' = [way |-> "ssh", source |-> release]
         /\ pending \/ confirmed # None
         /\ pending => pending' = FALSE
      \/ action' = [state |-> "rollsBack", target |-> release] /\ outcome' = outcome
  <2>1. CASE Up!End("ssh") /\ (pending \/ confirmed # None) /\ (pending => active)
    BY <1>2, <1>4, <2>1, EndFacts DEF Up!Keep
  <2>2. CASE Up!Becomes("rollsBack")
    BY <1>2, <2>2, BecomesFacts
  <2> QED
    BY <1>4, <2>1, <2>2
<1>7. UpTyped'
  <2>1. FilesTyped'
    BY <1>1, <1>2, <1>5, <1>6 DEF UpgradeInv, FilesStay, AgentStays, ScriptStays, OrNone, UpTyped, FilesTyped, FlagsTyped, AgentTyped, ActionTyped
  <2>2. FlagsTyped'
    BY <1>1, <1>2, <1>5, <1>6 DEF UpgradeInv, FilesStay, AgentStays, ScriptStays, OrNone, UpTyped, FilesTyped, FlagsTyped, AgentTyped, ActionTyped
  <2>3. AgentTyped'
    BY <1>1, <1>2, <1>5, <1>6 DEF UpgradeInv, FilesStay, AgentStays, ScriptStays, OrNone, UpTyped, FilesTyped, FlagsTyped, AgentTyped, ActionTyped
  <2>4. ActionTyped'
    BY <1>1, <1>2, <1>5, <1>6 DEF UpgradeInv, FilesStay, AgentStays, ScriptStays, OrNone, UpTyped, FilesTyped, FlagsTyped, AgentTyped, ActionTyped
  <2> QED
    BY <2>1, <2>2, <2>3, <2>4 DEF UpTyped
<1>8. Ways'
  BY <1>1, <1>2, <1>5 DEF UpgradeInv, Ways, FilesStay, AgentStays
<1>9. Locks'
  BY <1>1, <1>5 DEF UpgradeInv, Locks, FilesStay, AgentStays, ScriptStays
<1>10. Told'
  BY <1>1, <1>2, <1>6 DEF UpgradeInv, Told, ScriptStays, Up!NoAction
<1>11. Succeeds'
  <2>1. ~Over'
    BY <1>6 DEF Over
  <2>2. ASSUME outcome'.way = "ssh" PROVE Held' /\ ~pending' /\ hand' \in {None, release}
    <3>1. Held /\ ~pending'
      BY <1>3, <1>5, <1>6, <2>2 DEF Undone, FilesStay
    <3> QED
      BY <1>1, <1>3, <1>5, <3>1 DEF Held, FilesStay, AgentStays
  <2> QED
    BY <1>1, <2>1, <2>2 DEF Succeeds
<1> QED
  BY <1>7, <1>8, <1>9, <1>10, <1>11 DEF UpgradeInv

LEMMA RollBackKeeps == ASSUME UpgradeInv, Up!RollBack PROVE UpgradeInv'
<1>1. /\ Up!End("failed") /\ ScriptStays /\ UNCHANGED <<timer, release, request, late, lastSeen, Trusted>>
  BY DEF Up!RollBack, ScriptStays, Trusted
<1>2. /\ action' = [state |-> "none", target |-> None] /\ outcome' = [way |-> "failed", source |-> action.target]
      /\ action.target \in OrNone
  BY <1>1, EndFacts
<1>3. \/ FilesStay /\ AgentStays /\ lock' = lock
      \/ /\ pending /\ lock = "free" /\ lock' = "free"
         /\ file' = [agent |-> file.rollback, rollback |-> file.rollback, previous |-> file.previous]
         /\ pending' = FALSE /\ confirmed' = None /\ process' = file.rollback /\ loop' = "idle" /\ hand' = None
         /\ restartJob' = FALSE /\ file.rollback \in Trusted /\ Trusted \subseteq Sources
  <2>1. CASE Up!Rollback /\ pending
    <3>1. /\ file' = [file EXCEPT !.agent = file.rollback] /\ pending' = FALSE /\ confirmed' = None /\ lock = "free"
          /\ process' = file.rollback /\ loop' = "idle" /\ hand' = None /\ restartJob' = FALSE /\ lock' = "free"
      BY <2>1 DEF Up!Rollback, Up!Restarted
    <3> QED
      BY <2>1, <3>1 DEF UpgradeInv, UpTyped, FilesTyped, FlagsTyped, AgentTyped, ActionTyped, Ways
  <2>2. CASE (Up!Rollback /\ ~pending) \/ (UNCHANGED <<file, pending, confirmed, lock>> /\ Up!StaysUp)
    BY <1>1, <2>2 DEF Up!Rollback, Up!StaysUp, FilesStay, AgentStays
  <2> QED
    BY <2>1, <2>2 DEF Up!RollBack
<1>4. UpTyped'
  <2>1. FilesTyped'
    BY <1>1, <1>2, <1>3 DEF UpgradeInv, FilesStay, AgentStays, ScriptStays, OrNone, UpTyped, FilesTyped, FlagsTyped, AgentTyped, ActionTyped
  <2>2. FlagsTyped'
    BY <1>1, <1>2, <1>3 DEF UpgradeInv, FilesStay, AgentStays, ScriptStays, OrNone, UpTyped, FilesTyped, FlagsTyped, AgentTyped, ActionTyped
  <2>3. AgentTyped'
    BY <1>1, <1>2, <1>3 DEF UpgradeInv, FilesStay, AgentStays, ScriptStays, OrNone, UpTyped, FilesTyped, FlagsTyped, AgentTyped, ActionTyped
  <2>4. ActionTyped'
    BY <1>1, <1>2, <1>3 DEF UpgradeInv, FilesStay, AgentStays, ScriptStays, OrNone, UpTyped, FilesTyped, FlagsTyped, AgentTyped, ActionTyped
  <2> QED
    BY <2>1, <2>2, <2>3, <2>4 DEF UpTyped
<1>5. Ways'
  BY <1>1, <1>3 DEF UpgradeInv, Ways, FilesStay, AgentStays
<1>6. Locks'
  BY <1>1, <1>3 DEF UpgradeInv, Locks, FilesStay, AgentStays, ScriptStays
<1>7. Told' /\ Succeeds'
  BY <1>1, <1>2 DEF UpgradeInv, Told, Succeeds, Over, ScriptStays, Up!NoAction
<1> QED
  BY <1>4, <1>5, <1>6, <1>7 DEF UpgradeInv

LEMMA ControllerRestartKeeps == ASSUME UpgradeInv, Up!ControllerRestarts PROVE UpgradeInv'
<1>1. /\ NodeUnmoved /\ ScriptStays /\ release' \in Sources /\ request' = None /\ late' = FALSE /\ lastSeen' = None
      /\ action' = [state |-> "none", target |-> None] /\ outcome' = [way |-> "none", source |-> None]
  BY DEF Up!ControllerRestarts, Up!node, Up!NoAction, Up!Nothing, NodeUnmoved, FilesStay, AgentStays, ScriptStays, Trusted
<1>2. UpTyped'
  <2>1. FilesTyped'
    BY <1>1 DEF UpgradeInv, NodeUnmoved, FilesStay, AgentStays, ScriptStays, OrNone, UpTyped, FilesTyped, FlagsTyped, AgentTyped, ActionTyped
  <2>2. FlagsTyped'
    BY <1>1 DEF UpgradeInv, NodeUnmoved, FilesStay, AgentStays, ScriptStays, OrNone, UpTyped, FilesTyped, FlagsTyped, AgentTyped, ActionTyped
  <2>3. AgentTyped'
    BY <1>1 DEF UpgradeInv, NodeUnmoved, FilesStay, AgentStays, ScriptStays, OrNone, UpTyped, FilesTyped, FlagsTyped, AgentTyped, ActionTyped
  <2>4. ActionTyped'
    BY <1>1 DEF UpgradeInv, NodeUnmoved, FilesStay, AgentStays, ScriptStays, OrNone, UpTyped, FilesTyped, FlagsTyped, AgentTyped, ActionTyped
  <2> QED
    BY <2>1, <2>2, <2>3, <2>4 DEF UpTyped
<1>3. Ways' /\ Locks'
  BY <1>1 DEF UpgradeInv, Ways, Locks, NodeUnmoved, FilesStay, AgentStays, ScriptStays
<1>4. Told' /\ Succeeds'
  BY <1>1 DEF Told, Succeeds, Over, Up!NoAction
<1> QED
  BY <1>2, <1>3, <1>4 DEF UpgradeInv

LEMMA UpgradeSteps == ASSUME UpgradeInv, ~RebootsMidUpgrade, [Up!Next]_upgradeVars PROVE UpgradeInv'
<1>1. CASE UNCHANGED upgradeVars
  <2>1. UNCHANGED <<file, pending, confirmed, timer, lock, process, loop, hand, restartJob, script, release, action, request, late,
                    lastSeen, outcome, Trusted>>
    BY <1>1 DEF upgradeVars, Trusted
  <2>2. UpTyped'
    <3>1. FilesTyped'
      BY <2>1 DEF UpgradeInv, UpTyped, FilesTyped, FlagsTyped, AgentTyped, ActionTyped
    <3>2. FlagsTyped'
      BY <2>1 DEF UpgradeInv, UpTyped, FilesTyped, FlagsTyped, AgentTyped, ActionTyped
    <3>3. AgentTyped'
      BY <2>1 DEF UpgradeInv, UpTyped, FilesTyped, FlagsTyped, AgentTyped, ActionTyped
    <3>4. ActionTyped'
      BY <2>1 DEF UpgradeInv, UpTyped, FilesTyped, FlagsTyped, AgentTyped, ActionTyped
    <3> QED
      BY <3>1, <3>2, <3>3, <3>4 DEF UpTyped
  <2>3. Ways' /\ Locks' /\ Told' /\ Succeeds'
    BY <2>1 DEF UpgradeInv, Ways, Locks, Told, Succeeds, Over, Held, Undone
  <2> QED
    BY <2>2, <2>3 DEF UpgradeInv
<1>2. ASSUME Up!TimerFires \/ Up!Confirm \/ Up!SelfFetch \/ Up!SelfStage \/ Up!SelfWrite PROVE UpgradeInv'
  BY <1>2, TimerKeeps, ConfirmKeeps, FetchKeeps, StageKeeps, WriteKeeps
<1>3. ASSUME NEW answered \in BOOLEAN, Up!Heartbeat(answered) \/ Up!TakeSelfUpgrade(answered) PROVE UpgradeInv'
  BY <1>3, HeartbeatKeeps, TellKeeps
<1>4. ASSUME Up!RestartJob \/ Up!Restart \/ Up!Reboot PROVE UpgradeInv'
  BY <1>4, RestartKeeps, RebootKeeps
<1>5. ASSUME Up!ScriptStart \/ Up!ScriptStage \/ Up!ScriptSwap \/ Up!ScriptDies PROVE UpgradeInv'
  BY <1>5, ScriptStartKeeps, ScriptStageKeeps, ScriptSwapKeeps, ScriptDiesKeeps
<1>6. ASSUME NEW way \in {"waits", "runs"}, Up!Start(way) PROVE UpgradeInv'
  BY <1>6, StartKeeps
<1>7. ASSUME Up!GoesLate \/ Up!SelfUpgradeEnds \/ Up!ScriptEnds \/ Up!VerifyTimesOut \/ Up!Finalize \/ Up!RollBack \/ Up!ControllerRestarts
      PROVE  UpgradeInv'
  BY <1>7, WaitKeeps, ScriptEndKeeps, FinalizeKeeps, RollBackKeeps, ControllerRestartKeeps
<1> QED
  BY <1>1, <1>2, <1>3, <1>4, <1>5, <1>6, <1>7 DEF Up!Next

(* Where the machine does not reboot while the rollback timer runs: whatever    *)
(* restarts, dies, gets lost or races the timer, a source that never reached    *)
(* the Controller has a timer armed that restores one that did, the previous    *)
(* one is kept only after it did, and an upgrade over SSH that is reported as    *)
(* succeeded stays, for any sources and any number of actions and faults.       *)
(* Excepted is a source whose restart failed or was still to come when the old  *)
(* Agent's heartbeat confirmed it.                                              *)
THEOREM UpgradesComeBack == ASSUME ~RebootsMidUpgrade PROVE SurfacesSpec => []UpgradesAreSafe
<1>1. UpgradeInv => UpgradesAreSafe
  BY DEF UpgradeInv, Ways, Told, Succeeds, Held, UpgradesAreSafe, Up!WayBack, Up!PreviousWorked, Up!SuccessIsKept, Up!Kept, Trusted
<1>2. UpgradeInv /\ [Up!Next]_upgradeVars => UpgradeInv'
  BY UpgradeSteps
<1> QED
  BY <1>1, <1>2, UpgradesRun, UpgradesInit, PTL

-----------------------------------------------------------------------------
(* AgentDomain.                                                               *)

(* Where no switch to a new domain breaks off: what Console shows of an Agent   *)
(* is what it runs on, and that is what it would start from.                    *)
AgentRow == [at : {"idle", "asked", "test", "write"}, controller : Domains, file : Domains, told : Domains, waits : BOOLEAN]
DomainTyped ==
    /\ agent_domain \in Domains /\ memory \in Domains \union {"empty"} /\ reading \in Domains \union {"none"}
    /\ save \in Domains \union {"none"} /\ agent \in [Agents -> AgentRow] /\ domainShown \in [Agents -> Domains]
    /\ works \subseteq Domains /\ works \intersect retired = {}
AgentHolds(a) ==
    /\ domainShown[a] = agent[a].controller /\ agent[a].controller \notin retired
    /\ agent[a].at # "write" => agent[a].file = agent[a].controller
DomainInv == DomainTyped /\ \A a \in Agents : AgentHolds(a)

LEMMA DomainsRun == SurfacesSpec => Ad!Init /\ [][Ad!Next]_domainVars
<1>1. SurfacesInit => Ad!Init
  BY DEF SurfacesInit
<1>2. [SurfacesNext]_surfaceVars => [Ad!Next]_domainVars
  BY DEF SurfacesNext, surfaceVars, domainVars
<1> QED
  BY <1>1, <1>2, PTL DEF SurfacesSpec

LEMMA DomainsInit == Ad!Init => DomainInv
BY DomainAssumption DEF Ad!DomainAssumption, Ad!Init, DomainInv, DomainTyped, AgentHolds, AgentRow

(* The Controller's steps: a domain is taken down when no Agent runs on it.     *)
LEMMA ControllerMoves ==
    ASSUME DomainInv, \/ Ad!Read \/ Ad!Keep \/ Ad!Expire \/ Ad!Store
                      \/ \E d \in Domains : Ad!Check(d) \/ Ad!Retire(d) \/ Ad!Outage(d) \/ Ad!Recover(d)
    PROVE  DomainInv'
<1>1. agent' = agent /\ domainShown' = domainShown
  BY DEF Ad!Read, Ad!Keep, Ad!Expire, Ad!Store, Ad!Check, Ad!Retire, Ad!Outage, Ad!Recover
<1>2. CASE Ad!Read \/ Ad!Keep \/ Ad!Expire \/ Ad!Store
  <2>1. works' = works /\ retired' = retired
    BY <1>2 DEF Ad!Read, Ad!Keep, Ad!Expire, Ad!Store, Ad!names
  <2>2. /\ agent_domain' \in Domains /\ memory' \in Domains \union {"empty"}
        /\ reading' \in Domains \union {"none"} /\ save' \in Domains \union {"none"}
    BY <1>2 DEF Ad!Read, Ad!Keep, Ad!Expire, Ad!Store, DomainInv, DomainTyped
  <2> QED
    BY <1>1, <2>1, <2>2 DEF DomainInv, DomainTyped, AgentHolds
<1>3. ASSUME NEW d \in Domains, Ad!Check(d) PROVE DomainInv'
  BY <1>1, <1>3 DEF Ad!Check, Ad!names, DomainInv, DomainTyped, AgentHolds
<1>4. ASSUME NEW d \in Domains, Ad!Retire(d) PROVE DomainInv'
  <2>1. /\ d # agent_domain /\ retired' = retired \union {d} /\ works' = works \ {d}
        /\ UNCHANGED <<agent_domain, memory, reading, save>>
        /\ \A a \in Agents : domainShown[a] = agent_domain
    BY <1>4 DEF Ad!Retire, Ad!Waiting, Ad!settings
  <2> QED
    BY <1>1, <2>1 DEF DomainInv, DomainTyped, AgentHolds
<1>5. ASSUME NEW d \in Domains, Ad!Outage(d) \/ Ad!Recover(d) PROVE DomainInv'
  <2>1. /\ retired' = retired /\ works' \subseteq Domains /\ works' \intersect retired = {}
        /\ UNCHANGED <<agent_domain, memory, reading, save>>
    BY <1>5 DEF Ad!Outage, Ad!Recover, Ad!settings, DomainInv, DomainTyped
  <2> QED
    BY <1>1, <2>1 DEF DomainInv, DomainTyped, AgentHolds
<1> QED
  BY <1>2, <1>3, <1>4, <1>5

(* One Agent moves, and holds what an Agent holds. *)
LEMMA AgentMoves ==
    ASSUME DomainInv, NEW a \in Agents, NEW new \in AgentRow, NEW known \in Domains, agent' = [agent EXCEPT ![a] = new],
           domainShown' = [domainShown EXCEPT ![a] = known],
           UNCHANGED <<agent_domain, memory, reading, save, works, retired>>,
           known = new.controller, new.controller \notin retired, new.at # "write" => new.file = new.controller
    PROVE  DomainInv'
<1>1. DomainTyped'
  BY DEF DomainInv, DomainTyped
<1>2. ASSUME NEW b \in Agents PROVE AgentHolds(b)'
  BY DEF DomainInv, DomainTyped, AgentHolds
<1> QED
  BY <1>1, <1>2 DEF DomainInv

LEMMA AgentsMove ==
    ASSUME DomainInv, ~SwitchBreaks, NEW a \in Agents,
           \/ Ad!Beat(a) \/ Ad!Answer(a) \/ Ad!Test(a) \/ Ad!TestFails(a) \/ Ad!WriteFile(a) \/ Ad!WriteFails(a)
           \/ Ad!TenMinutes(a) \/ Ad!Restart(a)
    PROVE  DomainInv'
<1>1. /\ agent[a] \in AgentRow /\ agent \in [Agents -> AgentRow] /\ domainShown \in [Agents -> Domains]
      /\ memory \in Domains \union {"empty"} /\ AgentHolds(a) /\ works \intersect retired = {}
  BY DEF DomainInv, DomainTyped
<1>2. UNCHANGED <<agent_domain, memory, reading, save, works, retired>>
  BY DEF Ad!Beat, Ad!Answer, Ad!Test, Ad!TestFails, Ad!WriteFile, Ad!WriteFails, Ad!TenMinutes, Ad!Restart, Ad!settings, Ad!names
<1>3. ASSUME NEW new \in AgentRow, agent' = [agent EXCEPT ![a] = new], domainShown' = domainShown,
             new.controller = agent[a].controller, new.at # "write" => new.file = new.controller
      PROVE  DomainInv'
  <2>1. domainShown' = [domainShown EXCEPT ![a] = agent[a].controller] /\ agent[a].controller \in Domains
    BY <1>1, <1>3 DEF AgentHolds, AgentRow
  <2>2. agent[a].controller \notin retired
    BY <1>1 DEF AgentHolds
  <2> QED
    BY <1>2, <1>3, <2>1, <2>2, AgentMoves
<1>4. CASE Ad!Beat(a)
  <2>1. PICK new : new = [agent[a] EXCEPT !.at = "asked"]
    OBVIOUS
  <2>2. /\ new \in AgentRow /\ new.controller = agent[a].controller /\ new.file = agent[a].file /\ agent[a].at = "idle"
        /\ new.controller \in Domains
    BY <1>1, <1>4, <2>1 DEF AgentRow, Ad!Beat
  <2>3. agent' = [agent EXCEPT ![a] = new] /\ domainShown' = [domainShown EXCEPT ![a] = new.controller]
    BY <1>4, <2>1, <2>2 DEF Ad!Beat, Ad!Sets
  <2>4. new.controller \notin retired /\ new.file = new.controller
    BY <1>1, <2>2 DEF AgentHolds
  <2> QED
    BY <1>2, <2>2, <2>3, <2>4, AgentMoves
<1>5. CASE Ad!Answer(a)
  <2>1. agent[a].at = "asked" /\ memory # "empty" /\ domainShown' = domainShown
    BY <1>5 DEF Ad!Answer
  <2>2. CASE Ad!Sets(a, [agent[a] EXCEPT !.at = "idle"])
    <3>1. PICK new : new = [agent[a] EXCEPT !.at = "idle"]
      OBVIOUS
    <3>2. /\ new \in AgentRow /\ new.controller = agent[a].controller /\ new.file = agent[a].file
      BY <1>1, <3>1 DEF AgentRow
    <3>3. agent' = [agent EXCEPT ![a] = new] /\ new.file = new.controller
      BY <1>1, <2>1, <2>2, <3>1, <3>2 DEF Ad!Sets, AgentHolds
    <3> QED
      BY <1>3, <2>1, <3>2, <3>3
  <2>3. CASE Ad!Sets(a, [agent[a] EXCEPT !.at = "test", !.told = memory, !.waits = TRUE])
    <3>1. PICK new : new = [agent[a] EXCEPT !.at = "test", !.told = memory, !.waits = TRUE]
      OBVIOUS
    <3>2. new = [at |-> "test", controller |-> agent[a].controller, file |-> agent[a].file, told |-> memory, waits |-> TRUE]
      BY <1>1, <3>1 DEF AgentRow
    <3>3. /\ new \in AgentRow /\ new.controller = agent[a].controller /\ new.file = agent[a].file
      BY <1>1, <2>1, <3>2 DEF AgentRow
    <3>4. agent' = [agent EXCEPT ![a] = new] /\ new.file = new.controller
      BY <1>1, <2>1, <2>3, <3>1, <3>3 DEF Ad!Sets, AgentHolds
    <3> QED
      BY <1>3, <2>1, <3>3, <3>4
  <2> QED
    BY <1>5, <2>2, <2>3 DEF Ad!Answer
<1>6. CASE Ad!Test(a)
  <2>1. PICK new : new = [agent[a] EXCEPT !.at = "write", !.controller = agent[a].told]
    OBVIOUS
  <2>2. new = [at |-> "write", controller |-> agent[a].told, file |-> agent[a].file, told |-> agent[a].told, waits |-> agent[a].waits]
    BY <1>1, <2>1 DEF AgentRow
  <2>3. new \in AgentRow /\ new.controller = agent[a].told /\ new.at = "write" /\ new.controller \in Domains
    BY <1>1, <2>2 DEF AgentRow
  <2>4. agent' = [agent EXCEPT ![a] = new] /\ domainShown' = [domainShown EXCEPT ![a] = new.controller]
    BY <1>6, <2>1, <2>3 DEF Ad!Test, Ad!Sets
  <2>5. new.controller \notin retired
    BY <1>1, <1>6, <2>3 DEF Ad!Test
  <2> QED
    BY <1>2, <2>3, <2>4, <2>5, AgentMoves
<1>7. CASE Ad!TestFails(a)
  <2>1. PICK new : new = [agent[a] EXCEPT !.at = "idle"]
    OBVIOUS
  <2>2. /\ new \in AgentRow /\ new.controller = agent[a].controller /\ new.file = agent[a].file
    BY <1>1, <2>1 DEF AgentRow
  <2>3. agent' = [agent EXCEPT ![a] = new] /\ domainShown' = domainShown /\ new.file = new.controller
    BY <1>1, <1>7, <2>1, <2>2 DEF Ad!TestFails, Ad!Sets, AgentHolds
  <2> QED
    BY <1>3, <2>2, <2>3
<1>8. CASE Ad!WriteFile(a)
  <2>1. PICK new : new = [agent[a] EXCEPT !.at = "idle", !.file = agent[a].controller]
    OBVIOUS
  <2>2. new = [at |-> "idle", controller |-> agent[a].controller, file |-> agent[a].controller, told |-> agent[a].told,
               waits |-> agent[a].waits]
    BY <1>1, <2>1 DEF AgentRow
  <2>3. new \in AgentRow /\ new.controller = agent[a].controller /\ new.file = new.controller
    BY <1>1, <2>2 DEF AgentRow
  <2>4. agent' = [agent EXCEPT ![a] = new] /\ domainShown' = domainShown
    BY <1>8, <2>1 DEF Ad!WriteFile, Ad!Sets
  <2> QED
    BY <1>3, <2>3, <2>4
<1>9. CASE Ad!WriteFails(a)
  BY <1>9 DEF Ad!WriteFails
<1>10. CASE Ad!TenMinutes(a)
  <2>1. PICK new : new = [agent[a] EXCEPT !.waits = FALSE]
    OBVIOUS
  <2>2. /\ new \in AgentRow /\ new.controller = agent[a].controller /\ new.file = agent[a].file /\ agent[a].at # "write"
    BY <1>1, <1>10, <2>1 DEF AgentRow, Ad!TenMinutes
  <2>3. agent' = [agent EXCEPT ![a] = new] /\ domainShown' = domainShown /\ new.file = new.controller
    BY <1>1, <1>10, <2>1, <2>2 DEF Ad!TenMinutes, Ad!Sets, AgentHolds
  <2> QED
    BY <1>3, <2>2, <2>3
<1>11. CASE Ad!Restart(a)
  <2>1. PICK new : new = [agent[a] EXCEPT !.at = "idle", !.controller = agent[a].file, !.waits = FALSE]
    OBVIOUS
  <2>2. new = [at |-> "idle", controller |-> agent[a].file, file |-> agent[a].file, told |-> agent[a].told, waits |-> FALSE]
    BY <1>1, <2>1 DEF AgentRow
  <2>3. new \in AgentRow /\ new.controller = agent[a].file /\ new.file = new.controller
    BY <1>1, <2>2 DEF AgentRow
  <2>4. agent' = [agent EXCEPT ![a] = new] /\ domainShown' = domainShown /\ new.controller = agent[a].controller
    BY <1>1, <1>11, <2>1, <2>3 DEF Ad!Restart, Ad!Sets, AgentHolds
  <2> QED
    BY <1>3, <2>3, <2>4
<1> QED
  BY <1>4, <1>5, <1>6, <1>7, <1>8, <1>9, <1>10, <1>11

LEMMA DomainSteps == ASSUME DomainInv, ~SwitchBreaks, [Ad!Next]_domainVars PROVE DomainInv'
<1>1. CASE UNCHANGED domainVars
  BY <1>1 DEF domainVars, DomainInv, DomainTyped, AgentHolds
<1>2. CASE Ad!Next
  <2>1. ASSUME \/ Ad!Read \/ Ad!Keep \/ Ad!Expire \/ Ad!Store
               \/ \E d \in Domains : Ad!Check(d) \/ Ad!Retire(d) \/ Ad!Outage(d) \/ Ad!Recover(d)
        PROVE  DomainInv'
    BY <2>1, ControllerMoves
  <2>2. ASSUME NEW a \in Agents,
               \/ Ad!Beat(a) \/ Ad!Answer(a) \/ Ad!Test(a) \/ Ad!TestFails(a) \/ Ad!WriteFile(a) \/ Ad!WriteFails(a)
               \/ Ad!TenMinutes(a) \/ Ad!Restart(a)
        PROVE  DomainInv'
    BY <2>2, AgentsMove
  <2> QED
    BY <1>2, <2>1, <2>2 DEF Ad!Next
<1> QED
  BY <1>1, <1>2

-----------------------------------------------------------------------------
(* Sites.                                                                     *)

SiteRow == [is : BOOLEAN, domain : Names \union {"none"}, default : BOOLEAN]
SiteRequest == [at : {"new", "first", "write", "exists", "unset", "set", "look", "delete", "done"},
                kind : {"none", "create", "update", "default", "delete"}, id : Ids \union {"none"},
                domain : Names \union {"none"}, saw : SUBSET Ids]
OneFlag(t) == \A i, j \in Ids : t[i].default /\ t[j].default => i = j
SiteInv == sites \in [Ids -> SiteRow] /\ OneFlag(sites) /\ siteRequest \in [Requests -> SiteRequest]

LEMMA SitesRun == SurfacesSpec => Si!Init /\ [][Si!Next]_sitesVars
<1>1. SurfacesInit => Si!Init
  BY DEF SurfacesInit
<1>2. [SurfacesNext]_surfaceVars => [Si!Next]_sitesVars
  BY DEF SurfacesNext, surfaceVars, sitesVars
<1> QED
  BY <1>1, <1>2, PTL DEF SurfacesSpec

LEMMA SitesInit == Si!Init => SiteInv
<1> SUFFICES ASSUME Si!Init PROVE SiteInv
  OBVIOUS
<1> DEFINE Apart(S) == CHOOSE f \in [S -> Names] : \A i, j \in S : i # j => f[i] # f[j]
           Table(S, w) == [i \in Ids |-> IF i \in S THEN [is |-> TRUE, domain |-> Apart(S)[i], default |-> i = w] ELSE Si!NoSite]
<1>0. PICK some \in SUBSET Ids \ {{}} : \E w \in some : sites = Table(some, w)
  BY DEF Si!Init
<1>1. PICK own \in some : sites = Table(some, own)
  BY <1>0
<1>2. PICK naming : naming = Apart(some)
  OBVIOUS
<1>3. \E g \in [some -> Names] : \A k, j \in some : k # j => g[k] # g[j]
  <2>1. PICK g \in [Ids -> Names] : \A i, j \in Ids : g[i] = g[j] => i = j
    BY SitesAssumption DEF Si!SitesAssumption
  <2>2. [i \in some |-> g[i]] \in [some -> Names] /\ \A k, j \in some : k # j => [i \in some |-> g[i]][k] # [i \in some |-> g[i]][j]
    BY <2>1
  <2> QED
    BY <2>2
<1>4. naming \in [some -> Names]
  BY <1>2, <1>3
<1>5. sites = [i \in Ids |-> IF i \in some THEN [is |-> TRUE, domain |-> naming[i], default |-> i = own] ELSE Si!NoSite]
  BY <1>1, <1>2
<1>6. Si!NoSite \in SiteRow /\ ~Si!NoSite.default
  BY DEF Si!NoSite, SiteRow
<1>7. ASSUME NEW i \in some PROVE [is |-> TRUE, domain |-> naming[i], default |-> i = own] \in SiteRow
  <2>1. naming[i] \in Names /\ (i = own) \in BOOLEAN
    BY <1>4
  <2> QED
    BY <2>1 DEF SiteRow
<1>8. sites \in [Ids -> SiteRow]
  BY <1>5, <1>6, <1>7
<1>9. OneFlag(sites)
  BY <1>5, <1>6 DEF OneFlag
<1>10. siteRequest \in [Requests -> SiteRequest]
  BY DEF Si!Init, Si!Waits, SiteRequest
<1> QED
  BY <1>8, <1>9, <1>10 DEF SiteInv

(* The requests stay well formed. *)
LEMMA RequestGoes ==
    ASSUME SiteInv, NEW r \in Requests, NEW place \in {"write", "unset", "set", "delete", "done"}, NEW known \in SUBSET Ids,
           siteRequest' = [siteRequest EXCEPT ![r].at = place] \/ siteRequest' = [siteRequest EXCEPT ![r].at = place, ![r].saw = known]
    PROVE  siteRequest' \in [Requests -> SiteRequest]
<1>1. siteRequest[r] \in SiteRequest /\ siteRequest \in [Requests -> SiteRequest]
  BY DEF SiteInv
<1>2. PICK known2 : known2 \in SUBSET Ids /\ siteRequest' = [siteRequest EXCEPT ![r] = [siteRequest[r] EXCEPT !.at = place, !.saw = known2]]
  <2>1. CASE siteRequest' = [siteRequest EXCEPT ![r].at = place]
    <3>1. siteRequest[r].saw \in SUBSET Ids
      BY <1>1 DEF SiteRequest
    <3>2. [siteRequest[r] EXCEPT !.at = place, !.saw = siteRequest[r].saw] = [siteRequest[r] EXCEPT !.at = place]
      BY <1>1 DEF SiteRequest
    <3> QED
      BY <2>1, <3>1, <3>2
  <2>2. CASE siteRequest' = [siteRequest EXCEPT ![r].at = place, ![r].saw = known]
    BY <1>1, <2>2
  <2> QED
    BY <2>1, <2>2
<1>3. PICK new : new = [siteRequest[r] EXCEPT !.at = place, !.saw = known2]
  OBVIOUS
<1>4. new = [at |-> place, kind |-> siteRequest[r].kind, id |-> siteRequest[r].id, domain |-> siteRequest[r].domain, saw |-> known2]
  BY <1>1, <1>3 DEF SiteRequest
<1>5. new \in SiteRequest
  BY <1>1, <1>2, <1>4 DEF SiteRequest
<1> QED
  BY <1>1, <1>2, <1>3, <1>5

(* The steps that change no row. *)
LEMMA LooksKeep ==
    ASSUME SiteInv, NEW r \in Requests, Si!Ask(r) \/ Si!First(r) \/ Si!Exists(r) \/ Si!Unset(r) \/ Si!LookAt(r) PROVE SiteInv'
<1>1. sites' = sites
  BY DEF Si!Ask, Si!First, Si!Exists, Si!Unset, Si!LookAt
<1>2. siteRequest' \in [Requests -> SiteRequest]
  <2>1. CASE Si!Ask(r)
    <3>1. PICK kind \in {"create", "update", "default", "delete"}, i \in Ids, d \in Names,
               place \in {"first", "write", "exists", "look"} :
            siteRequest' = [siteRequest EXCEPT ![r] = [at |-> place, kind |-> kind, id |-> i, domain |-> d, saw |-> {}]]
      <4>1. PICK kind \in {"create", "update", "default", "delete"}, i \in Ids, d \in Names :
              siteRequest' = [siteRequest EXCEPT ![r] = [at |-> Si!FirstStep(kind), kind |-> kind, id |-> i, domain |-> d, saw |-> {}]]
        BY <2>1, Zenon DEF Si!Ask, Si!Kinds
      <4>2. PICK place \in {"first", "write", "exists", "look"} : place = Si!FirstStep(kind)
        BY DEF Si!FirstStep
      <4> QED
        BY <4>1, <4>2
    <3> QED
      BY <3>1 DEF SiteInv, SiteRequest
  <2>2. CASE Si!First(r)
    <3>1. siteRequest' = [siteRequest EXCEPT ![r].at = "write", ![r].saw = Si!Stored] /\ Si!Stored \in SUBSET Ids
      BY <2>2 DEF Si!First, Si!Stored
    <3> QED
      BY <3>1, RequestGoes
  <2>3. CASE Si!Unset(r)
    <3>1. PICK known \in SUBSET Ids : siteRequest' = [siteRequest EXCEPT ![r].at = "set", ![r].saw = known]
      BY <2>3 DEF Si!Unset, Si!Default, Si!Stored
    <3> QED
      BY <3>1, RequestGoes
  <2>4. CASE Si!Exists(r) \/ Si!LookAt(r)
    <3>1. PICK place \in {"unset", "done", "delete"} : siteRequest' = [siteRequest EXCEPT ![r].at = place]
      BY <2>4 DEF Si!Exists, Si!LookAt, Si!Step
    <3>2. place \in {"write", "unset", "set", "delete", "done"} /\ {} \in SUBSET Ids
      OBVIOUS
    <3> QED
      BY <3>1, <3>2, RequestGoes
  <2> QED
    BY <2>1, <2>2, <2>3, <2>4
<1> QED
  BY <1>1, <1>2 DEF SiteInv

(* The index that allows one default row: a row gets the flag where no other    *)
(* has it, and the other steps give it to nobody.                               *)
LEMMA InsertKeeps == ASSUME SiteInv, NEW r \in Requests, Si!Insert(r) PROVE SiteInv'
<1>1. siteRequest' \in [Requests -> SiteRequest]
  <2>1. siteRequest' = [siteRequest EXCEPT ![r].at = "done"] /\ {} \in SUBSET Ids
    BY DEF Si!Insert, Si!Step
  <2> QED
    BY <2>1, RequestGoes
<1>2. PICK i, d, first : i = siteRequest[r].id /\ d = siteRequest[r].domain /\ first = (siteRequest[r].saw = {})
  OBVIOUS
<1>3. first \in BOOLEAN /\ d \in Names \union {"none"} /\ sites \in [Ids -> SiteRow]
  BY <1>2 DEF SiteInv, SiteRequest
<1>4. PICK new : new = [is |-> TRUE, domain |-> d, default |-> first]
  OBVIOUS
<1>5. new \in SiteRow /\ new.default = first
  BY <1>3, <1>4 DEF SiteRow
<1>6. \/ sites' = sites
      \/ sites' = [sites EXCEPT ![i] = new] /\ (first => \A j \in Ids : sites[j].default => j = i)
  BY <1>2, <1>4 DEF Si!Insert, Si!Unique
<1>7. sites' \in [Ids -> SiteRow]
  BY <1>3, <1>5, <1>6
<1>8. OneFlag(sites)'
  BY <1>3, <1>5, <1>6 DEF SiteInv, OneFlag
<1> QED
  BY <1>1, <1>7, <1>8 DEF SiteInv

LEMMA RowChanges == ASSUME SiteInv, NEW r \in Requests, Si!Update(r) \/ Si!Delete(r) PROVE SiteInv'
<1>1. siteRequest' \in [Requests -> SiteRequest]
  <2>1. siteRequest' = [siteRequest EXCEPT ![r].at = "done"] /\ {} \in SUBSET Ids
    BY DEF Si!Update, Si!Delete, Si!Step
  <2> QED
    BY <2>1, RequestGoes
<1>2. PICK i, d : i = siteRequest[r].id /\ d = siteRequest[r].domain
  OBVIOUS
<1>3. d \in Names \union {"none"} /\ sites \in [Ids -> SiteRow] /\ OneFlag(sites)
  BY <1>2 DEF SiteInv, SiteRequest
<1>4. CASE sites' = sites
  BY <1>1, <1>3, <1>4 DEF SiteInv
<1>5. CASE sites' = [sites EXCEPT ![i].domain = d]
  <2>1. CASE i \in Ids
    <3>1. PICK new : new = [sites[i] EXCEPT !.domain = d]
      OBVIOUS
    <3>2. sites[i] \in SiteRow
      BY <1>3, <2>1
    <3>3. new \in SiteRow /\ new.default = sites[i].default
      BY <1>3, <3>1, <3>2 DEF SiteRow
    <3>4. sites' = [sites EXCEPT ![i] = new]
      BY <1>5, <3>1
    <3>5. sites' \in [Ids -> SiteRow] /\ \A j \in Ids : sites'[j].default = sites[j].default
      BY <1>3, <3>3, <3>4
    <3> QED
      BY <1>1, <1>3, <3>5 DEF SiteInv, OneFlag
  <2>2. CASE i \notin Ids
    BY <1>1, <1>3, <1>5, <2>2 DEF SiteInv
  <2> QED
    BY <2>1, <2>2
<1>6. CASE sites' = [sites EXCEPT ![i] = Si!NoSite]
  <2>1. Si!NoSite \in SiteRow /\ ~Si!NoSite.default
    BY DEF Si!NoSite, SiteRow
  <2>2. sites' \in [Ids -> SiteRow] /\ \A j \in Ids : sites'[j].default => sites[j].default
    BY <1>3, <1>6, <2>1
  <2> QED
    BY <1>1, <1>3, <2>2 DEF SiteInv, OneFlag
<1> QED
  BY <1>2, <1>4, <1>5, <1>6 DEF Si!Update, Si!Delete

LEMMA DefaultKeeps == ASSUME SiteInv, NEW r \in Requests, Si!MakeDefault(r) PROVE SiteInv'
<1>1. siteRequest' \in [Requests -> SiteRequest]
  <2>1. siteRequest' = [siteRequest EXCEPT ![r].at = "done"] /\ {} \in SUBSET Ids
    BY DEF Si!MakeDefault, Si!Step
  <2> QED
    BY <2>1, RequestGoes
<1>2. PICK i, cleared : /\ i = siteRequest[r].id
                        /\ cleared = [j \in Ids |-> IF j \in siteRequest[r].saw THEN [sites[j] EXCEPT !.default = FALSE] ELSE sites[j]]
  OBVIOUS
<1>3. sites \in [Ids -> SiteRow] /\ OneFlag(sites)
  BY DEF SiteInv
<1>4. ASSUME NEW j \in Ids PROVE cleared[j] \in SiteRow /\ (cleared[j].default => sites[j].default)
  <2>1. sites[j] \in SiteRow
    BY <1>3
  <2>2. PICK off : off = [sites[j] EXCEPT !.default = FALSE]
    OBVIOUS
  <2>3. off \in SiteRow /\ ~off.default
    BY <2>1, <2>2 DEF SiteRow
  <2>4. cleared[j] = IF j \in siteRequest[r].saw THEN off ELSE sites[j]
    BY <1>2, <2>2
  <2> QED
    BY <2>1, <2>3, <2>4
<1>5. cleared \in [Ids -> SiteRow] /\ OneFlag(cleared)
  <2>1. cleared \in [Ids -> SiteRow]
    BY <1>2, <1>4
  <2> QED
    BY <1>3, <1>4, <2>1 DEF OneFlag
<1>6. \/ sites' = sites \/ sites' = cleared
      \/ (\A j \in Ids : cleared[j].default => j = i) /\ sites' = [cleared EXCEPT ![i].default = TRUE]
  BY <1>2 DEF Si!MakeDefault, Si!Unique
<1>7. CASE sites' = sites \/ sites' = cleared
  BY <1>1, <1>3, <1>5, <1>7 DEF SiteInv
<1>8. CASE (\A j \in Ids : cleared[j].default => j = i) /\ sites' = [cleared EXCEPT ![i].default = TRUE]
  <2>1. CASE i \in Ids
    <3>1. PICK new : new = [cleared[i] EXCEPT !.default = TRUE]
      OBVIOUS
    <3>2. new \in SiteRow
      BY <1>4, <2>1, <3>1 DEF SiteRow
    <3>3. sites' = [cleared EXCEPT ![i] = new]
      BY <1>8, <3>1
    <3>4. sites' \in [Ids -> SiteRow] /\ \A j \in Ids : sites'[j].default => j = i
      BY <1>5, <1>8, <3>2, <3>3
    <3> QED
      BY <1>1, <3>4 DEF SiteInv, OneFlag
  <2>2. CASE i \notin Ids
    BY <1>1, <1>5, <1>8, <2>2 DEF SiteInv
  <2> QED
    BY <2>1, <2>2
<1> QED
  BY <1>6, <1>7, <1>8

LEMMA SiteSteps == ASSUME SiteInv, [Si!Next]_sitesVars PROVE SiteInv'
<1>1. CASE UNCHANGED sitesVars
  BY <1>1 DEF sitesVars, SiteInv
<1>2. ASSUME NEW r \in Requests, Si!Ask(r) \/ Si!Handle(r) PROVE SiteInv'
  BY <1>2, LooksKeep, InsertKeeps, RowChanges, DefaultKeeps DEF Si!Handle
<1>3. CASE Si!Read \/ Si!Keep \/ Si!Expire
  BY <1>3 DEF Si!Read, Si!Keep, Si!Expire, SiteInv
<1> QED
  BY <1>1, <1>2, <1>3 DEF Si!Next

LEMMA OneSite == SiteInv => Si!OneDefault
<1> SUFFICES ASSUME SiteInv PROVE Si!OneDefault
  OBVIOUS
<1>1. PICK defaults : defaults = Si!Default
  OBVIOUS
<1>2. Si!Cardinality(defaults) = Cardinality(defaults)
  BY DEF Si!Cardinality, Cardinality
<1>3. \A i, j \in defaults : i = j
  BY <1>1 DEF Si!Default, Si!Stored, SiteInv, OneFlag
<1>4. Cardinality(defaults) <= 1
  <2>1. CASE defaults = {}
    BY <2>1, FS_EmptySet
  <2>2. CASE defaults # {}
    <3>1. PICK i \in defaults : defaults = {i}
      BY <1>3, <2>2
    <3>2. Cardinality({i}) = 1
      BY FS_Singleton
    <3> QED
      BY <3>1, <3>2
  <2> QED
    BY <2>1, <2>2
<1> QED
  BY <1>1, <1>2, <1>4 DEF Si!OneDefault

(* Where no Agent restarts or fails to write between the test of a domain and   *)
(* config.env: administrators may change, check and take down domains and      *)
(* sites as they like; no Agent is left on a domain that is gone, and never     *)
(* two sites are the default one, for any number of Agents, domains and sites.  *)
THEOREM SettingsStayWhole == ASSUME ~SwitchBreaks PROVE SurfacesSpec => []SettingsHold
<1>1. DomainInv => Ad!NeverStranded
  BY DEF DomainInv, AgentHolds, Ad!NeverStranded
<1>2. DomainInv /\ SiteInv => SettingsHold
  BY <1>1, OneSite DEF SettingsHold
<1>3. DomainInv /\ [Ad!Next]_domainVars => DomainInv'
  BY DomainSteps
<1> QED
  BY <1>2, <1>3, DomainsRun, DomainsInit, SitesRun, SitesInit, SiteSteps, PTL

-----------------------------------------------------------------------------
(* NodeDetail: what the page shows is right by itself an inductive invariant.   *)

LEMMA DetailRuns == SurfacesSpec => Nd!Init /\ [][Nd!Next]_detailVars
<1>1. SurfacesInit => Nd!Init
  BY DEF SurfacesInit
<1>2. [SurfacesNext]_surfaceVars => [Nd!Next]_detailVars
  BY DEF SurfacesNext, surfaceVars, detailVars
<1> QED
  BY <1>1, <1>2, PTL DEF SurfacesSpec

LEMMA DetailInit == Nd!Init => Nd!RightDetail
  BY DEF Nd!Init, Nd!RightDetail, Nd!Nothing

(* The effect on [focus, nodes] leaves the detail of the node that the URL     *)
(* names, whatever was open.                                                   *)
LEMMA FollowShows ==
    ASSUME NEW f, NEW ns, Nd!Follow(f, ns), focus' = f, nodes' = ns, shown.node \in {None, open}
    PROVE  Nd!RightDetail'
<1>1. CASE f = None
  BY <1>1 DEF Nd!Follow, Nd!Close, Nd!Nothing, Nd!RightDetail
<1>2. CASE f # None /\ Nd!Opens(f, ns)
  BY <1>2 DEF Nd!Follow, Nd!Open, Nd!Nothing, Nd!RightDetail
<1>3. CASE f # None /\ ~Nd!Opens(f, ns)
  <2>1. open' = open /\ shown' = shown
    BY <1>3 DEF Nd!Follow, Nd!detail
  <2>2. f \in ns => open = f
    BY <1>3 DEF Nd!Opens
  <2> QED
    BY <1>3, <2>1, <2>2 DEF Nd!RightDetail
<1> QED
  BY <1>1, <1>2, <1>3

(* Whatever leaves the page, its list and the URL as they are.                 *)
LEMMA DetailFrame ==
    ASSUME Nd!RightDetail, user' = user, nodes' = nodes, focus' = focus, open' = open, shown' = shown
    PROVE  Nd!RightDetail'
  BY DEF Nd!RightDetail

LEMMA DetailSteps == ASSUME Nd!RightDetail, [Nd!Next]_detailVars PROVE Nd!RightDetail'
<1>1. CASE UNCHANGED detailVars
  BY <1>1, DetailFrame DEF detailVars
<1>2. CASE Nd!Navigate
  <2>1. PICK f : focus' = f /\ Nd!Follow(f, nodes) /\ nodes' = nodes
    BY <1>2 DEF Nd!Navigate
  <2> QED
    BY <2>1, FollowShows DEF Nd!RightDetail
<1>3. CASE Nd!Tick \/ Nd!Poll \/ Nd!Answer \/ Nd!RequestFails
  BY <1>3, DetailFrame
     DEF Nd!Tick, Nd!Poll, Nd!Answer, Nd!RequestFails, Nd!Timer, Nd!detail, Nd!server
<1>4. CASE Nd!ShowNode
  <2>1. user' = user /\ nodes' = nodes /\ focus' = focus /\ open' = open
    BY <1>4 DEF Nd!ShowNode, Nd!server
  <2>2. shown' = shown \/ shown'.node = open
    BY <1>4 DEF Nd!ShowNode, Nd!Mine
  <2> QED
    BY <2>1, <2>2 DEF Nd!RightDetail
<1>5. CASE Nd!ShowList
  <2>1. user' = user /\ focus' = focus
    BY <1>5 DEF Nd!ShowList, Nd!server
  <2>2. PICK ns : /\ nodes' = ns
                  /\ \/ ~Nd!Opens(focus, ns) /\ Nd!Open(open)
                     \/ user /\ Nd!Follow(focus, ns)
                     \/ ~user /\ UNCHANGED <<open, shown>>
    BY <1>5 DEF Nd!ShowList, Nd!detail
  <2>3. CASE ~Nd!Opens(focus, ns) /\ Nd!Open(open)
    BY <2>1, <2>2, <2>3 DEF Nd!Opens, Nd!Open, Nd!Nothing, Nd!RightDetail
  <2>4. CASE user /\ Nd!Follow(focus, ns)
    BY <2>1, <2>2, <2>4, FollowShows DEF Nd!RightDetail
  <2>5. CASE ~user /\ UNCHANGED <<open, shown>>
    BY <2>1, <2>5 DEF Nd!RightDetail
  <2> QED
    BY <2>2, <2>3, <2>4, <2>5
<1>6. CASE Nd!Unauthorized \/ Nd!Logout
  BY <1>6 DEF Nd!Unauthorized, Nd!Logout, Nd!Clear, Nd!Close, Nd!Nothing, Nd!RightDetail
<1>7. CASE Nd!Login
  BY <1>7, FollowShows DEF Nd!Login, Nd!RightDetail
<1>8. CASE Nd!Operate \/ Nd!BatchDelete \/ Nd!Confirm \/ Nd!Handle \/ Nd!AfterEach
  BY <1>8, DetailFrame
     DEF Nd!Operate, Nd!BatchDelete, Nd!Begin, Nd!Confirm, Nd!Handle, Nd!AfterEach, Nd!detail, Nd!server
<1>9. CASE Nd!AfterOperate
  <2>1. PICK f : focus' = f /\ Nd!Follow(f, nodes) /\ nodes' = nodes
    BY <1>9 DEF Nd!AfterOperate
  <2> QED
    BY <2>1, FollowShows DEF Nd!RightDetail
<1>10. CASE Nd!JobEnds \/ Nd!SomebodyElse \/ Nd!SessionEnds
  BY <1>10, DetailFrame DEF Nd!JobEnds, Nd!SomebodyElse, Nd!SessionEnds, Nd!detail
<1> QED
  BY <1>1, <1>2, <1>3, <1>4, <1>5, <1>6, <1>7, <1>8, <1>9, <1>10 DEF Nd!Next

-----------------------------------------------------------------------------
(* ActionLog: an action ends once everything it recorded is written, and only   *)
(* what is recorded of its output moves the phase of its row.                   *)

ActionRow == [status : {"queued", "running", "succeeded", "failed"},
              phase : {"queued", "connecting", "output", "complete", "failed"}, progress : 0..3]

LogInv ==
    /\ actionRow \in ActionRow /\ writes \in Seq(Int)
    /\ printed \in Seq({"marker", "warning"}) /\ rest \in BOOLEAN
    /\ writing = [w \in Lo!Writers |-> writing[w]]
    /\ worker \in {"queued", "start", "remote", "flush", "failing", "finish", "terminal", "done", "lost"}
    /\ worker \notin {"remote", "flush"} => writes = <<>>
    /\ writing["recorder"].seq # 0 => writes # <<>>
    /\ writing["worker"].seq # 0 => worker \in {"start", "failing", "terminal"}
    /\ Lo!Ended => worker \in {"terminal", "done", "lost"}
    /\ Lo!DoneStaysDone

LEMMA LogRuns == SurfacesSpec => Lo!Init /\ [][Lo!Next]_logVars
<1>1. SurfacesInit => Lo!Init
  BY DEF SurfacesInit
<1>2. [SurfacesNext]_surfaceVars => [Lo!Next]_logVars
  BY DEF SurfacesNext, surfaceVars, logVars
<1> QED
  BY <1>1, <1>2, PTL DEF SurfacesSpec

LEMMA LogInit == Lo!Init => LogInv
<1> SUFFICES ASSUME Lo!Init PROVE LogInv
  OBVIOUS
<1>1. <<>> \in Seq(Int) /\ <<>> \in Seq({"marker", "warning"})
  OBVIOUS
<1>2. actionRow \in ActionRow /\ actionRow.status = "queued"
  BY DEF Lo!Init, ActionRow
<1>3. /\ writes = <<>> /\ printed = <<>> /\ rest = FALSE /\ worker = "queued"
      /\ writing = [w \in Lo!Writers |-> [what |-> 0, seq |-> 0]]
  BY DEF Lo!Init, Lo!Free, Lo!NoWrite
<1>4. writing = [w \in Lo!Writers |-> writing[w]] /\ writing["recorder"].seq = 0 /\ writing["worker"].seq = 0
  BY <1>3 DEF Lo!Writers
<1> QED
  BY <1>1, <1>2, <1>3, <1>4 DEF LogInv, Lo!Ended, Lo!DoneStaysDone

(* What the recorder has to write goes on growing at its end.                  *)
LEMMA RecordGrows ==
    ASSUME writes \in Seq(Int), printed \in Seq({"marker", "warning"}), rest \in BOOLEAN, NEW to \in Int, Lo!Record(to)
    PROVE  writes' \in Seq(Int) /\ (writes # <<>> => writes' # <<>>)
<1>1. Lo!Recorded + 1 \in Int
  BY DEF Lo!Recorded
<1>2. PICK from \in Int : writes' = writes \o Lo!Lines(from, to)
  BY <1>1 DEF Lo!Record
<1>3. Lo!Lines(from, to) \in Seq(Int)
  <2>1. CASE to - from + 1 >= 0
    BY <2>1 DEF Lo!Lines
  <2>2. CASE to - from + 1 < 0
    <3>1. Lo!Lines(from, to) = <<>>
      BY <2>2 DEF Lo!Lines
    <3> QED
      BY <3>1
  <2> QED
    BY <2>1, <2>2
<1>4. Len(writes') = Len(writes) + Len(Lo!Lines(from, to)) /\ writes' \in Seq(Int)
  BY <1>2, <1>3
<1> QED
  BY <1>3, <1>4

(* What one writer reads or appends is no affair of the others.                *)
LEMMA OneWriter ==
    ASSUME writing = [w \in Lo!Writers |-> writing[w]], NEW by \in Lo!Writers, NEW new, writing' = [writing EXCEPT ![by] = new]
    PROVE  /\ writing' = [w \in Lo!Writers |-> writing'[w]]
           /\ writing'[by] = new /\ \A w \in Lo!Writers : w # by => writing'[w] = writing[w]
<1>1. writing' = [w \in Lo!Writers |-> IF w = by THEN new ELSE writing[w]]
  OBVIOUS
<1> QED
  BY <1>1

LEMMA WritersNamed == "worker" \in Lo!Writers /\ "recorder" \in Lo!Writers /\ "reader" \in Lo!Writers
  BY DEF Lo!Writers

LEMMA OutputKeeps ==
    ASSUME LogInv, ~PrintsLate, Lo!Write \/ Lo!WriteRow \/ Lo!CommandEnds PROVE LogInv'
<1>1. CASE Lo!Write
  <2>1. worker = "remote" /\ UNCHANGED <<actionRow, worker, writing>>
    BY <1>1 DEF Lo!Write, Lo!Prints
  <2>2. PICK kind \in {"marker", "warning"}, cut \in BOOLEAN :
          printed' = Append(printed, kind) /\ rest' = cut /\ Lo!Record(Len(printed) + IF cut THEN 0 ELSE 1)
    BY <1>1 DEF Lo!Write
  <2>3. Len(printed) + (IF cut THEN 0 ELSE 1) \in Int
    BY DEF LogInv
  <2>4. writes' \in Seq(Int) /\ (writes # <<>> => writes' # <<>>)
    BY <2>2, <2>3, RecordGrows DEF LogInv
  <2>5. printed' \in Seq({"marker", "warning"}) /\ rest' \in BOOLEAN
    BY <2>2 DEF LogInv
  <2> QED
    BY <2>1, <2>4, <2>5 DEF LogInv, Lo!Ended, Lo!DoneStaysDone
<1>2. CASE Lo!WriteRow
  <2>1. UNCHANGED <<worker, writes, writing, printed, rest>>
    BY <1>2 DEF Lo!WriteRow, Lo!output
  <2>2. PICK i \in 1..Len(writes) : Lo!Turn(i) /\ \E p \in 1..Lo!Full :
          actionRow' = [actionRow EXCEPT !.phase = "output", !.progress = IF p > @ THEN p ELSE @]
    BY <1>2 DEF Lo!WriteRow
  <2>3. PICK p \in 1..3 : actionRow' = [actionRow EXCEPT !.phase = "output", !.progress = IF p > @ THEN p ELSE @]
    BY <2>2 DEF Lo!Full
  <2>4. actionRow' = [status |-> actionRow.status, phase |-> "output",
                      progress |-> IF p > actionRow.progress THEN p ELSE actionRow.progress]
    BY <2>3 DEF LogInv, ActionRow
  <2>5. actionRow' \in ActionRow /\ actionRow'.status = actionRow.status
    BY <2>4 DEF LogInv, ActionRow
  <2>6. worker \in {"remote", "flush"} /\ ~Lo!Ended
    BY <2>2 DEF LogInv, Lo!Turn
  <2>7. ~Lo!Ended'
    BY <2>5, <2>6 DEF Lo!Ended
  <2> QED
    BY <2>1, <2>5, <2>6, <2>7 DEF LogInv, Lo!DoneStaysDone
<1>3. CASE Lo!CommandEnds
  <2>1. worker = "remote" /\ worker' = "flush" /\ UNCHANGED <<actionRow, printed, writing>> /\ rest' = FALSE
    BY <1>3 DEF Lo!CommandEnds
  <2>2. writes' \in Seq(Int) /\ (writes # <<>> => writes' # <<>>)
    <3>1. Lo!Record(Len(printed)) /\ Len(printed) \in Int
      BY <1>3 DEF Lo!CommandEnds, LogInv
    <3> QED
      BY <3>1, RecordGrows DEF LogInv
  <2> QED
    BY <2>1, <2>2 DEF LogInv, Lo!Ended, Lo!DoneStaysDone
<1> QED
  BY <1>1, <1>2, <1>3

LEMMA RecorderKeeps ==
    ASSUME LogInv, Lo!ReadSeq \/ Lo!Insert \/ Lo!ReaderInserts \/ Lo!Purge PROVE LogInv'
<1>0. UNCHANGED <<actionRow, worker, printed, rest>>
  BY DEF Lo!ReadSeq, Lo!Insert, Lo!ReaderInserts, Lo!Purge, Lo!output
<1>00. writing = [w \in Lo!Writers |-> writing[w]]
  BY DEF LogInv
<1>1. CASE Lo!ReadSeq
  <2>1. writes # <<>> /\ writes' = writes
    BY <1>1 DEF Lo!ReadSeq, Lo!Turn, Lo!recorder
  <2>2. PICK new : writing' = [writing EXCEPT !["recorder"] = new]
    BY <1>1 DEF Lo!ReadSeq, Lo!Read
  <2>3. writing' = [w \in Lo!Writers |-> writing'[w]] /\ writing'["worker"] = writing["worker"]
    BY <1>00, <2>2, OneWriter, WritersNamed
  <2> QED
    BY <1>0, <2>1, <2>3 DEF LogInv, Lo!Ended, Lo!DoneStaysDone
<1>2. CASE Lo!Insert
  <2>1. PICK i \in 1..Len(writes) : writes' = SubSeq(writes, 1, i - 1) \o SubSeq(writes, i + 1, Len(writes))
    BY <1>2 DEF Lo!Insert
  <2>2. writes' \in Seq(Int)
    <3>1. writes \in Seq(Int) /\ Len(writes) \in Nat
      BY DEF LogInv
    <3>2. SubSeq(writes, 1, i - 1) \in Seq(Int) /\ SubSeq(writes, i + 1, Len(writes)) \in Seq(Int)
      BY <2>1, <3>1
    <3> QED
      BY <2>1, <3>2
  <2>3. writing' = [writing EXCEPT !["recorder"] = Lo!NoWrite]
    BY <1>2 DEF Lo!Insert, Lo!Inserts
  <2>4. writing' = [w \in Lo!Writers |-> writing'[w]] /\ writing'["worker"] = writing["worker"] /\ writing'["recorder"].seq = 0
    BY <1>00, <2>3, OneWriter, WritersNamed DEF Lo!NoWrite
  <2>5. worker \in {"remote", "flush"}
    BY <1>2 DEF Lo!Insert, Lo!Writing, LogInv
  <2> QED
    BY <1>0, <2>2, <2>4, <2>5 DEF LogInv, Lo!Ended, Lo!DoneStaysDone
<1>3. CASE Lo!ReaderInserts
  <2>1. writing' = [writing EXCEPT !["reader"] = Lo!NoWrite] /\ writes' = writes
    BY <1>3 DEF Lo!ReaderInserts, Lo!Inserts, Lo!recorder
  <2>2. /\ writing' = [w \in Lo!Writers |-> writing'[w]] /\ writing'["worker"] = writing["worker"]
        /\ writing'["recorder"] = writing["recorder"]
    BY <1>00, <2>1, OneWriter, WritersNamed
  <2> QED
    BY <1>0, <2>1, <2>2 DEF LogInv, Lo!Ended, Lo!DoneStaysDone
<1>4. CASE Lo!Purge
  <2>1. writes' = writes /\ writing' = writing
    BY <1>4 DEF Lo!Purge, Lo!recorder
  <2> QED
    BY <1>0, <2>1 DEF LogInv, Lo!Ended, Lo!DoneStaysDone
<1> QED
  BY <1>1, <1>2, <1>3, <1>4

LEMMA WorkerKeeps ==
    ASSUME LogInv, Lo!StartAction \/ Lo!WorkerInserts \/ Lo!AfterFlush \/ Lo!FinishAction \/ Lo!Recover PROVE LogInv'
<1>0. UNCHANGED <<writes, printed, rest>>
  BY DEF Lo!StartAction, Lo!WorkerInserts, Lo!AfterFlush, Lo!FinishAction, Lo!Recover, Lo!output, Lo!recorder
<1>00. writing = [w \in Lo!Writers |-> writing[w]]
  BY DEF LogInv
<1>1. CASE Lo!StartAction
  <2>1. worker = "queued" /\ worker' = "start" /\ actionRow' = [status |-> "running", phase |-> "connecting", progress |-> 1]
    BY <1>1 DEF Lo!StartAction
  <2>2. PICK new : writing' = [writing EXCEPT !["worker"] = new]
    BY <1>1 DEF Lo!StartAction, Lo!Read
  <2>3. writing' = [w \in Lo!Writers |-> writing'[w]] /\ writing'["recorder"] = writing["recorder"]
    BY <1>00, <2>2, OneWriter, WritersNamed
  <2>4. actionRow' \in ActionRow /\ ~Lo!Ended'
    BY <2>1 DEF ActionRow, Lo!Ended
  <2> QED
    BY <1>0, <2>1, <2>3, <2>4 DEF LogInv, Lo!DoneStaysDone
<1>2. CASE Lo!WorkerInserts
  <2>1. /\ worker \in {"start", "failing", "terminal"} /\ actionRow' = actionRow
        /\ worker' = CASE worker = "start" -> "remote" [] worker = "failing" -> "finish" [] worker = "terminal" -> "done"
    BY <1>2 DEF Lo!WorkerInserts, Lo!Writing, LogInv
  <2>2. worker' = IF worker = "start" THEN "remote" ELSE IF worker = "failing" THEN "finish" ELSE "done"
    BY <2>1
  <2>3. writing' = [writing EXCEPT !["worker"] = Lo!NoWrite]
    BY <1>2 DEF Lo!WorkerInserts, Lo!Inserts
  <2>4. writing' = [w \in Lo!Writers |-> writing'[w]] /\ writing'["recorder"] = writing["recorder"] /\ writing'["worker"].seq = 0
    BY <1>00, <2>3, OneWriter, WritersNamed DEF Lo!NoWrite
  <2> QED
    BY <1>0, <2>1, <2>2, <2>4 DEF LogInv, Lo!Ended, Lo!DoneStaysDone
<1>3. CASE Lo!AfterFlush
  <2>1. worker = "flush" /\ writes = <<>> /\ worker' \in {"failing", "finish"} /\ actionRow' = actionRow
    BY <1>3 DEF Lo!AfterFlush, Lo!Flushed
  <2>2. CASE worker' = "finish"
    <3>1. writing' = writing
      BY <1>3, <2>2 DEF Lo!AfterFlush
    <3> QED
      BY <1>0, <2>1, <2>2, <3>1 DEF LogInv, Lo!Ended, Lo!DoneStaysDone
  <2>3. CASE worker' = "failing"
    <3>1. PICK new : writing' = [writing EXCEPT !["worker"] = new]
      BY <1>3, <2>3 DEF Lo!AfterFlush, Lo!Read
    <3>2. writing' = [w \in Lo!Writers |-> writing'[w]] /\ writing'["recorder"] = writing["recorder"]
      BY <1>00, <3>1, OneWriter, WritersNamed
    <3> QED
      BY <1>0, <2>1, <2>3, <3>2 DEF LogInv, Lo!Ended, Lo!DoneStaysDone
  <2> QED
    BY <2>1, <2>2, <2>3
<1>4. CASE Lo!FinishAction
  <2>1. /\ worker = "finish" /\ worker' = "terminal"
        /\ \/ actionRow' = [status |-> "failed", phase |-> "failed", progress |-> 3]
           \/ actionRow' = [status |-> "succeeded", phase |-> "complete", progress |-> 3]
    BY <1>4 DEF Lo!FinishAction, Lo!Full
  <2>2. PICK new : writing' = [writing EXCEPT !["worker"] = new]
    BY <1>4 DEF Lo!FinishAction, Lo!Read
  <2>3. writing' = [w \in Lo!Writers |-> writing'[w]] /\ writing'["recorder"] = writing["recorder"]
    BY <1>00, <2>2, OneWriter, WritersNamed
  <2>4. actionRow' \in ActionRow /\ Lo!DoneStaysDone'
    BY <2>1 DEF ActionRow, Lo!DoneStaysDone
  <2> QED
    BY <1>0, <2>1, <2>3, <2>4 DEF LogInv
<1>5. CASE Lo!Recover
  <2>1. worker = "lost" /\ worker' = worker
    BY <1>5 DEF Lo!Recover
  <2>2. actionRow' = [status |-> "failed", phase |-> "failed", progress |-> actionRow.progress]
    BY <1>5 DEF Lo!Recover, LogInv, ActionRow
  <2>3. PICK new : writing' = [writing EXCEPT !["reader"] = new]
    BY <1>5 DEF Lo!Recover, Lo!Read
  <2>4. /\ writing' = [w \in Lo!Writers |-> writing'[w]] /\ writing'["recorder"] = writing["recorder"]
        /\ writing'["worker"] = writing["worker"]
    BY <1>00, <2>3, OneWriter, WritersNamed
  <2>5. actionRow' \in ActionRow /\ Lo!DoneStaysDone'
    BY <2>2 DEF ActionRow, Lo!DoneStaysDone, LogInv
  <2> QED
    BY <1>0, <2>1, <2>4, <2>5 DEF LogInv
<1> QED
  BY <1>1, <1>2, <1>3, <1>4, <1>5

LEMMA LogSteps == ASSUME LogInv, ~PrintsLate, [Lo!Next]_logVars PROVE LogInv'
<1>1. CASE UNCHANGED logVars
  BY <1>1 DEF logVars, LogInv, Lo!Ended, Lo!DoneStaysDone
<1>2. CASE Lo!Crash
  <2>1. worker' = "lost" /\ writes' = <<>> /\ writing' = Lo!Free /\ rest' = FALSE /\ UNCHANGED <<actionRow, printed>>
    BY <1>2 DEF Lo!Crash
  <2>2. writing' = [w \in Lo!Writers |-> writing'[w]] /\ writing'["recorder"].seq = 0 /\ writing'["worker"].seq = 0
    BY <2>1, WritersNamed DEF Lo!Free, Lo!NoWrite
  <2>3. <<>> \in Seq(Int)
    OBVIOUS
  <2>4. actionRow' \in ActionRow /\ writes' \in Seq(Int) /\ printed' \in Seq({"marker", "warning"}) /\ rest' \in BOOLEAN
    BY <2>1, <2>3 DEF LogInv
  <2>5. Lo!DoneStaysDone'
    BY <2>1 DEF LogInv, Lo!Ended, Lo!DoneStaysDone
  <2> QED
    BY <2>1, <2>2, <2>4, <2>5 DEF LogInv
<1> QED
  BY <1>1, <1>2, OutputKeeps, RecorderKeeps, WorkerKeeps DEF Lo!Next

-----------------------------------------------------------------------------
(* Placement: an Agent that says that a service listens says it of a service    *)
(* that served when it looked, and what it said is no older than its beat.      *)

States == {"absent", "down", "deaf", "up"}

Grounded ==
    \A n \in PlacedNodes, p \in Protocols :
        /\ n \in up /\ runs[n][p] = "up" => since[n][p] = 0
        /\ flying[n] # None /\ flying[n][p] = "up" => since[n][p] = 0
        /\ report[n][p] = "up" => since[n][p] <= beat[n]

PlacedInv ==
    /\ up \subseteq PlacedNodes /\ due \subseteq up
    /\ runs \in [PlacedNodes -> [Protocols -> States]] /\ since \in [PlacedNodes -> [Protocols -> 0..Window]]
    /\ beat \in [PlacedNodes -> Nat] /\ report = [n \in PlacedNodes |-> report[n]]
    /\ flying = [n \in PlacedNodes |-> flying[n]]
    /\ placing \in [p : Protocols \cup {None}, todo : SUBSET PlacedNodes, got : SUBSET PlacedNodes]
    /\ \A n \in placing.todo : placing.p \in Protocols /\ since[n][placing.p] < Window
    /\ Grounded

LEMMA PlacementRuns == SurfacesSpec => Pl!Init /\ [][Pl!Next]_placementVars
<1>1. SurfacesInit => Pl!Init
  BY DEF SurfacesInit
<1>2. [SurfacesNext]_surfaceVars => [Pl!Next]_placementVars
  BY DEF SurfacesNext, surfaceVars, placementVars
<1> QED
  BY <1>1, <1>2, PTL DEF SurfacesSpec

LEMMA PlacedInit == Pl!Init => PlacedInv
<1> SUFFICES ASSUME Pl!Init PROVE PlacedInv
  OBVIOUS
<1>1. Window \in Nat
  BY PlacementAssumption DEF Pl!PlacementAssumption
<1>2. PICK new : Pl!Start(new)
  BY DEF Pl!Init
<1>3. /\ up = PlacedNodes /\ due = PlacedNodes /\ flying = [n \in PlacedNodes |-> None]
      /\ runs = [n \in PlacedNodes |-> [p \in Protocols |-> IF n \in new THEN "down" ELSE "up"]]
      /\ since = [n \in PlacedNodes |-> [p \in Protocols |-> IF n \in new THEN Window ELSE 0]]
      /\ beat = [n \in PlacedNodes |-> 0] /\ report = runs
  BY <1>2 DEF Pl!Start
<1>4. placing = [p |-> None, todo |-> {}, got |-> {}]
  BY <1>2 DEF Pl!Start, Pl!NoRequest
<1>5. runs \in [PlacedNodes -> [Protocols -> States]] /\ since \in [PlacedNodes -> [Protocols -> 0..Window]]
  BY <1>1, <1>3 DEF States
<1>6. Grounded
  BY <1>3 DEF Grounded
<1> QED
  BY <1>3, <1>4, <1>5, <1>6 DEF PlacedInv

(* Machines and services stop and start: the count only ever starts again.     *)
LEMMA MachinesKeep ==
    ASSUME PlacedInv, Pl!Machines(up', runs'), up' \subseteq PlacedNodes, due' \subseteq up',
           runs' \in [PlacedNodes -> [Protocols -> States]],
           flying' = flying, beat' = beat, report' = report, placing' = placing
    PROVE  PlacedInv'
<1>0. Window \in Nat /\ since \in [PlacedNodes -> [Protocols -> 0..Window]]
  BY PlacementAssumption DEF Pl!PlacementAssumption, PlacedInv
<1>1. since' = [n \in PlacedNodes |-> [p \in Protocols |-> IF n \in up' /\ runs'[n][p] = "up" THEN 0 ELSE since[n][p]]]
  BY DEF Pl!Machines, Pl!Counted
<1>2. ASSUME NEW n \in PlacedNodes, NEW p \in Protocols
      PROVE  /\ since'[n][p] = 0 \/ since'[n][p] = since[n][p]
             /\ n \in up' /\ runs'[n][p] = "up" => since'[n][p] = 0
             /\ since'[n][p] \in 0..Window /\ since[n][p] \in 0..Window /\ since'[n][p] <= since[n][p]
  BY <1>0, <1>1
<1>3. since' \in [PlacedNodes -> [Protocols -> 0..Window]]
  BY <1>0, <1>1
<1>4. Grounded'
  BY <1>0, <1>2 DEF PlacedInv, Grounded
<1>5. \A n \in placing'.todo : placing'.p \in Protocols /\ since'[n][placing'.p] < Window
  <2> SUFFICES ASSUME NEW n \in placing.todo PROVE placing.p \in Protocols /\ since'[n][placing.p] < Window
    OBVIOUS
  <2>1. n \in PlacedNodes /\ placing.p \in Protocols /\ since[n][placing.p] < Window
    BY DEF PlacedInv
  <2> QED
    BY <1>0, <1>2, <2>1
<1> QED
  BY <1>3, <1>4, <1>5 DEF PlacedInv

LEMMA PlacedFrame ==
    ASSUME PlacedInv, UNCHANGED <<up, runs, since, due, flying, beat, report, placing>> PROVE PlacedInv'
  BY DEF PlacedInv, Grounded

LEMMA WireKeeps ==
    ASSUME PlacedInv, NEW n \in PlacedNodes, Pl!Beats(n) \/ Pl!BeatIsLost(n) PROVE PlacedInv'
<1>0. UNCHANGED <<up, runs, since, beat, report, placing>> /\ flying = [m \in PlacedNodes |-> flying[m]]
  BY DEF Pl!Beats, Pl!BeatIsLost, Pl!Unseen, Pl!machine, Pl!rows, PlacedInv
<1>1. CASE Pl!Beats(n)
  <2>1. n \in up /\ due' \subseteq up /\ flying' = [flying EXCEPT ![n] = runs[n]]
    BY <1>1 DEF Pl!Beats, PlacedInv
  <2>2. flying' = [m \in PlacedNodes |-> IF m = n THEN runs[n] ELSE flying[m]]
    BY <1>0, <2>1
  <2>3. flying' = [m \in PlacedNodes |-> flying'[m]]
    BY <2>2
  <2>4. Grounded'
    BY <1>0, <2>1, <2>2 DEF PlacedInv, Grounded
  <2> QED
    BY <1>0, <2>1, <2>3, <2>4 DEF PlacedInv
<1>2. CASE Pl!BeatIsLost(n)
  <2>1. due' = due /\ flying' = [flying EXCEPT ![n] = None]
    BY <1>2 DEF Pl!BeatIsLost
  <2>2. flying' = [m \in PlacedNodes |-> IF m = n THEN None ELSE flying[m]]
    BY <1>0, <2>1
  <2>3. flying' = [m \in PlacedNodes |-> flying'[m]]
    BY <2>2
  <2>4. Grounded'
    BY <1>0, <2>2 DEF PlacedInv, Grounded
  <2> QED
    BY <1>0, <2>1, <2>3, <2>4 DEF PlacedInv
<1> QED
  BY <1>1, <1>2

(* Nothing is on its way when time passes, and no request is under way.        *)
LEMMA TickKeeps == ASSUME PlacedInv, Pl!Tick PROVE PlacedInv'
<1>0. /\ UNCHANGED <<up, runs, flying, report, placing>> /\ due' = up
      /\ placing.todo = {} /\ \A n \in PlacedNodes : flying[n] = None
  BY DEF Pl!Tick, Pl!NoRequest
<1>1. Window \in Nat /\ since \in [PlacedNodes -> [Protocols -> 0..Window]] /\ beat \in [PlacedNodes -> Nat]
  BY PlacementAssumption DEF Pl!PlacementAssumption, PlacedInv
<1>2. beat' = [n \in PlacedNodes |-> IF beat[n] > Window THEN beat[n] ELSE beat[n] + 1]
  BY DEF Pl!Tick
<1>3. since' = [n \in PlacedNodes |-> [p \in Protocols |->
        IF Pl!Serves(n, p) THEN 0 ELSE IF since[n][p] = Window THEN Window ELSE since[n][p] + 1]]
  BY DEF Pl!Tick
<1>4. ASSUME NEW n \in PlacedNodes, NEW p \in Protocols
      PROVE  /\ since'[n][p] \in 0..Window /\ (n \in up /\ runs[n][p] = "up" => since'[n][p] = 0)
             /\ since[n][p] <= beat[n] => since'[n][p] <= beat'[n]
  <2>1. since[n][p] \in 0..Window /\ beat[n] \in Nat
    BY <1>1
  <2>2. since'[n][p] = IF n \in up /\ runs[n][p] = "up" THEN 0 ELSE IF since[n][p] = Window THEN Window ELSE since[n][p] + 1
    BY <1>3 DEF Pl!Serves
  <2>3. beat'[n] = IF beat[n] > Window THEN beat[n] ELSE beat[n] + 1
    BY <1>2
  <2>4. CASE n \in up /\ runs[n][p] = "up"
    BY <1>1, <2>1, <2>2, <2>3, <2>4
  <2>5. CASE ~(n \in up /\ runs[n][p] = "up")
    <3>1. since'[n][p] = IF since[n][p] = Window THEN Window ELSE since[n][p] + 1
      BY <2>2, <2>5
    <3>2. \A was \in 0..Window, age \in Nat :
            LET is == IF was = Window THEN Window ELSE was + 1
                beats == IF age > Window THEN age ELSE age + 1
            IN  is \in 0..Window /\ (was <= age => is <= beats)
      BY <1>1
    <3>3. since'[n][p] \in 0..Window /\ (since[n][p] <= beat[n] => since'[n][p] <= beat'[n])
      BY <2>1, <2>3, <3>1, <3>2
    <3> QED
      BY <2>5, <3>3
  <2> QED
    BY <2>4, <2>5
<1>5. since' \in [PlacedNodes -> [Protocols -> 0..Window]] /\ beat' \in [PlacedNodes -> Nat]
  <2>1. since' = [n \in PlacedNodes |-> [p \in Protocols |-> since'[n][p]]]
    BY <1>3
  <2> QED
    BY <1>1, <1>2, <1>4, <2>1
<1>6. Grounded'
  BY <1>0, <1>4 DEF PlacedInv, Grounded
<1> QED
  BY <1>0, <1>5, <1>6 DEF PlacedInv

LEMMA ArrivesKeeps ==
    ASSUME PlacedInv, NEW n \in PlacedNodes, NEW lost, Pl!Arrives(n, lost) PROVE PlacedInv'
<1>1. UNCHANGED <<up, runs, since, due, placing>> /\ flying[n] # None
  BY DEF Pl!Arrives, Pl!machine
<1>2. beat' = [beat EXCEPT ![n] = 0] /\ report' = [report EXCEPT ![n] = flying[n]] /\ flying' = [flying EXCEPT ![n] = None]
  BY DEF Pl!Arrives
<1>3. beat \in [PlacedNodes -> Nat] /\ report = [m \in PlacedNodes |-> report[m]] /\ flying = [m \in PlacedNodes |-> flying[m]]
  BY DEF PlacedInv
<1>4. /\ report' = [m \in PlacedNodes |-> IF m = n THEN flying[n] ELSE report[m]]
      /\ flying' = [m \in PlacedNodes |-> IF m = n THEN None ELSE flying[m]]
      /\ beat' = [m \in PlacedNodes |-> IF m = n THEN 0 ELSE beat[m]]
  BY <1>2, <1>3
<1>5. /\ report' = [m \in PlacedNodes |-> report'[m]] /\ flying' = [m \in PlacedNodes |-> flying'[m]]
      /\ beat' \in [PlacedNodes -> Nat]
  BY <1>3, <1>4
<1>6. Grounded'
  BY <1>1, <1>4 DEF PlacedInv, Grounded
<1> QED
  BY <1>1, <1>5, <1>6 DEF PlacedInv

(* What a request may choose from has served lately.                           *)
LEMMA SelectServed ==
    ASSUME PlacedInv, NEW p \in Protocols, NEW paused2 \in BOOLEAN, NEW n \in Pl!Select(p, paused2)
    PROVE  n \in PlacedNodes /\ since[n][p] < Window
<1>1. n \in PlacedNodes /\ beat[n] < Window /\ report[n][p] = "up"
  BY DEF Pl!Select, Pl!Fresh, Pl!Listens
<1>2. since[n][p] <= beat[n] /\ since[n][p] \in 0..Window /\ beat[n] \in Nat
  BY <1>1 DEF PlacedInv, Grounded
<1> QED
  BY <1>1, <1>2, PlacementAssumption DEF Pl!PlacementAssumption

LEMMA RequestKeeps ==
    ASSUME PlacedInv, NEW p \in Protocols, NEW targets, Pl!Request(p, targets),
           \A n \in targets : n \in PlacedNodes /\ since[n][p] < Window
    PROVE  PlacedInv' /\ Pl!PlacingServed
<1>1. UNCHANGED <<up, runs, since, due, flying, beat, report>> /\ placing' = [p |-> p, todo |-> targets, got |-> {}]
  BY DEF Pl!Request, Pl!machine, Pl!wire, Pl!rows
<1> QED
  BY <1>1 DEF PlacedInv, Grounded, Pl!PlacingServed

LEMMA GivesOut ==
    ASSUME PlacedInv, NEW n \in PlacedNodes, Pl!Issue(n) \/ Pl!Skip(n) PROVE PlacedInv' /\ Pl!PlacingServed
<1>1. UNCHANGED <<up, runs, since, due, flying, beat, report>>
  BY DEF Pl!Issue, Pl!Skip, Pl!machine, Pl!wire, Pl!rows
<1>2. placing \in [p : Protocols \cup {None}, todo : SUBSET PlacedNodes, got : SUBSET PlacedNodes]
  BY DEF PlacedInv
<1>3. CASE Pl!Issue(n)
  <2>1. n \in placing.todo /\ placing' = [p |-> placing.p, todo |-> placing.todo \ {n}, got |-> placing.got \cup {n}]
    BY <1>2, <1>3 DEF Pl!Issue
  <2>2. Pl!PlacingServed
    BY <2>1 DEF Pl!PlacingServed, PlacedInv
  <2> QED
    BY <1>1, <1>2, <2>1, <2>2 DEF PlacedInv, Grounded
<1>4. CASE Pl!Skip(n)
  <2>1. placing' = [p |-> placing.p, todo |-> placing.todo \ {n}, got |-> placing.got]
    BY <1>2, <1>4 DEF Pl!Skip
  <2> QED
    BY <1>1, <1>2, <2>1 DEF PlacedInv, Grounded, Pl!PlacingServed
<1> QED
  BY <1>3, <1>4

LEMMA OperatorKeeps ==
    ASSUME PlacedInv, NEW n \in PlacedNodes, NEW p \in Protocols,
           Pl!DeploymentFails(n, p) \/ Pl!SwitchOn(n, p) \/ Pl!SwitchOff(n, p) \/ Pl!CannotRun(n, p)
    PROVE  PlacedInv' /\ placing' = placing
<1>1. UNCHANGED <<up, runs, since, due, flying, beat, report, placing>>
  BY DEF Pl!DeploymentFails, Pl!SwitchOn, Pl!SwitchOff, Pl!CannotRun, Pl!Row, Pl!machine, Pl!wire
<1> QED
  BY <1>1, PlacedFrame

LEMMA ServiceSteps ==
    ASSUME PlacedInv, NEW n \in PlacedNodes, NEW p \in Protocols, NEW state \in States,
           Pl!ServiceChanges(n, p, state) \/ Pl!Deployed(n, p)
    PROVE  PlacedInv' /\ placing' = placing
<1>0. runs \in [PlacedNodes -> [Protocols -> States]] /\ up \subseteq PlacedNodes /\ due \subseteq up
  BY DEF PlacedInv
<1>1. ASSUME NEW to \in States PROVE [runs EXCEPT ![n][p] = to] \in [PlacedNodes -> [Protocols -> States]]
  <2>1. [runs[n] EXCEPT ![p] = to] \in [Protocols -> States]
    BY <1>0
  <2> QED
    BY <1>0, <2>1
<1>2. UNCHANGED <<flying, beat, report, placing>>
  BY DEF Pl!ServiceChanges, Pl!Deployed, Pl!Unseen, Pl!rows, Pl!wire, Pl!Row
<1>3. CASE Pl!ServiceChanges(n, p, state)
  <2>1. Pl!Machines(up', runs') /\ up' = up /\ runs' = [runs EXCEPT ![n][p] = state] /\ due' = due
    BY <1>3 DEF Pl!ServiceChanges, Pl!Machines, Pl!wire
  <2> QED
    BY <1>0, <1>1, <1>2, <2>1, MachinesKeep
<1>4. CASE Pl!Deployed(n, p)
  <2>1. Pl!Machines(up', runs') /\ up' = up /\ runs' = [runs EXCEPT ![n][p] = "up"] /\ due' = due
    BY <1>4 DEF Pl!Deployed, Pl!Machines, Pl!Row, Pl!wire
  <2>2. "up" \in States
    BY DEF States
  <2> QED
    BY <1>0, <1>1, <1>2, <2>1, <2>2, MachinesKeep
<1> QED
  BY <1>3, <1>4

LEMMA MachineSteps ==
    ASSUME PlacedInv, NEW n \in PlacedNodes, Pl!Stops(n) \/ Pl!Starts(n) PROVE PlacedInv' /\ placing' = placing
<1>0. runs \in [PlacedNodes -> [Protocols -> States]] /\ up \subseteq PlacedNodes /\ due \subseteq up
  BY DEF PlacedInv
<1>1. UNCHANGED <<flying, beat, report, placing>>
  BY DEF Pl!Stops, Pl!Starts, Pl!Unseen, Pl!rows
<1>2. CASE Pl!Stops(n)
  <2>1. Pl!Machines(up', runs') /\ up' = up \ {n} /\ runs' = runs /\ due' = due \ {n}
    BY <1>2 DEF Pl!Stops, Pl!Machines
  <2> QED
    BY <1>0, <1>1, <2>1, MachinesKeep
<1>3. CASE Pl!Starts(n)
  <2>1. Pl!Machines(up', runs') /\ up' = up \cup {n} /\ runs' = runs /\ due' = due \cup {n}
    BY <1>3 DEF Pl!Starts, Pl!Machines
  <2> QED
    BY <1>0, <1>1, <2>1, MachinesKeep
<1> QED
  BY <1>2, <1>3

LEMMA AsksServed ==
    ASSUME PlacedInv, NEW p \in Protocols, NEW n \in PlacedNodes, Pl!Ask(p) \/ Pl!Connect(n, p)
    PROVE  PlacedInv' /\ Pl!PlacingServed
<1>1. CASE Pl!Ask(p)
  <2>1. PICK targets : Pl!Request(p, targets) /\ targets \subseteq Pl!Select(p, FALSE)
    BY <1>1 DEF Pl!Ask
  <2>2. \A m \in targets : m \in PlacedNodes /\ since[m][p] < Window
    BY <2>1, SelectServed
  <2> QED
    BY <2>1, <2>2, RequestKeeps
<1>2. CASE Pl!Connect(n, p)
  <2>1. Pl!Request(p, {n}) /\ n \in Pl!Select(p, TRUE)
    BY <1>2 DEF Pl!Connect, Pl!Connectable
  <2>2. \A m \in {n} : m \in PlacedNodes /\ since[m][p] < Window
    BY <2>1, SelectServed
  <2> QED
    BY <2>1, <2>2, RequestKeeps
<1> QED
  BY <1>1, <1>2

LEMMA PlacedSteps == ASSUME PlacedInv, [Pl!Next]_placementVars PROVE PlacedInv' /\ Pl!PlacingServed
<1>0. ASSUME placing' = placing PROVE Pl!PlacingServed
  BY <1>0 DEF Pl!PlacingServed
<1>1. CASE UNCHANGED placementVars
  BY <1>0, <1>1, PlacedFrame DEF placementVars
<1>2. CASE Pl!Tick
  BY <1>0, <1>2, TickKeeps DEF Pl!Tick
<1>3. CASE Pl!Reply
  <2>1. UNCHANGED <<up, runs, since, due, flying, beat, report>> /\ placing' = [p |-> None, todo |-> {}, got |-> {}]
    BY <1>3 DEF Pl!Reply, Pl!NoRequest, Pl!machine, Pl!wire, Pl!rows
  <2> QED
    BY <2>1 DEF PlacedInv, Grounded, Pl!PlacingServed
<1>4. ASSUME NEW n \in PlacedNodes, Pl!Stops(n) \/ Pl!Starts(n) PROVE PlacedInv' /\ placing' = placing
  BY <1>4, MachineSteps
<1>5. ASSUME NEW n \in PlacedNodes, Pl!Beats(n) \/ Pl!BeatIsLost(n) PROVE PlacedInv' /\ placing' = placing
  BY <1>5, WireKeeps DEF Pl!Beats, Pl!BeatIsLost, Pl!Unseen
<1>6. ASSUME NEW n \in PlacedNodes, Pl!Heartbeat(n) \/ Pl!RebuildFails(n) PROVE PlacedInv' /\ placing' = placing
  <2>1. PICK lost : Pl!Arrives(n, lost)
    BY <1>6 DEF Pl!Heartbeat, Pl!RebuildFails
  <2> QED
    BY <2>1, ArrivesKeeps DEF Pl!Arrives
<1>7. ASSUME NEW n \in PlacedNodes, Pl!PauseOrResume(n) PROVE PlacedInv' /\ placing' = placing
  <2>1. UNCHANGED <<up, runs, since, due, flying, beat, report, placing>>
    BY <1>7 DEF Pl!PauseOrResume, Pl!machine, Pl!wire
  <2> QED
    BY <2>1, PlacedFrame
<1>8. ASSUME NEW n \in PlacedNodes, Pl!Issue(n) \/ Pl!Skip(n) PROVE PlacedInv' /\ Pl!PlacingServed
  BY <1>8, GivesOut
<1>9. ASSUME NEW n \in PlacedNodes, NEW p \in Protocols,
             Pl!Deployed(n, p) \/ \E state \in States : Pl!ServiceChanges(n, p, state)
      PROVE  PlacedInv' /\ placing' = placing
  BY <1>9, ServiceSteps DEF States
<1>10. ASSUME NEW n \in PlacedNodes, NEW p \in Protocols,
              Pl!DeploymentFails(n, p) \/ Pl!SwitchOn(n, p) \/ Pl!SwitchOff(n, p) \/ Pl!CannotRun(n, p)
       PROVE  PlacedInv' /\ placing' = placing
  BY <1>10, OperatorKeeps
<1>11. ASSUME NEW n \in PlacedNodes, NEW p \in Protocols, Pl!Connect(n, p) PROVE PlacedInv' /\ Pl!PlacingServed
  BY <1>11, AsksServed
<1>12. ASSUME NEW p \in Protocols, Pl!Ask(p) PROVE PlacedInv' /\ Pl!PlacingServed
  <2>1. PICK n \in PlacedNodes : TRUE
    BY <1>12 DEF Pl!Ask, Pl!Select
  <2> QED
    BY <1>12, <2>1, AsksServed
<1> QED
  BY <1>0, <1>1, <1>2, <1>3, <1>4, <1>5, <1>6, <1>7, <1>8, <1>9, <1>10, <1>11, <1>12 DEF Pl!Next, States

(* A connection's settings and an app's lease are given out only where the      *)
(* protocol was served within the last 90 seconds, for any number of nodes and  *)
(* protocols, whatever stops, is lost or is switched in between.               *)
THEOREM PlacesWhereServed == SurfacesSpec => PlacedWhereServed
<1>1. PlacedInv /\ [Pl!Next]_placementVars => PlacedInv' /\ Pl!PlacingServed
  BY PlacedSteps
<1> QED
  BY <1>1, PlacementRuns, PlacedInit, PTL DEF PlacedWhereServed

-----------------------------------------------------------------------------
(* LogPages: the pages before the one that is shown have every line down to    *)
(* its cursor, and only those.                                                 *)

Asking == [id : Nat, filter : Filters, cursor : Nat]
Answering == [id : Nat, filter : Filters, cursor : Nat, outcome : {"page", "unavailable", "failed"},
              lines : SUBSET LogLines, next : Nat, before : SUBSET LogLines]
Showing == [filter : Filters, cursor : Nat, lines : SUBSET LogLines, next : Nat]

(* An answer has every line of S that its filter keeps between its cursor and  *)
(* the next one, and no line outside of them.                                  *)
Fits(a, S) ==
    /\ \A l \in S \cap KeptLines[a.filter] :
          (a.cursor = 0 \/ Time[l] < a.cursor) => l \in a.lines \/ (a.next # 0 /\ Time[l] < a.next)
    /\ \A m \in a.lines : a.next <= Time[m] /\ (a.cursor # 0 => Time[m] < a.cursor)
    /\ a.next # 0 /\ a.cursor # 0 => a.next < a.cursor

PagesTyped ==
    /\ stored \in SUBSET LogLines /\ before \in SUBSET LogLines /\ filter \in Filters
    /\ index \in Nat \ {0} /\ pages \in Seq([cursor : Nat, offset : Nat]) /\ index <= Len(pages)
    /\ seen \in Seq(SUBSET LogLines) /\ failed \in SUBSET Nat
    /\ pageRequest \in Nat /\ busy \in BOOLEAN /\ refreshTimer \in BOOLEAN
    /\ pageAsked \in SUBSET Asking /\ pageAnswers \in SUBSET Answering /\ table \in Showing
    /\ before \subseteq stored

(* Requests: the last one is under way once at most, and only while the button *)
(* says so; unless another one starts in a moment it is for the page shown.    *)
LastAsked(a) == a.id = pageRequest
Asked(a) == ~refreshTimer => a.filter = filter /\ a.cursor = pages[index].cursor
Answered(a) ==
    /\ a.before \subseteq stored
    /\ a.outcome = "page" => Fits(a, IF a.cursor = 0 THEN a.before ELSE before)
    /\ Asked(a)
RequestsInv ==
    /\ \A a \in pageAsked : a.id <= pageRequest /\ (LastAsked(a) => busy /\ Asked(a))
    /\ \A a \in pageAnswers : a.id <= pageRequest /\ (LastAsked(a) => busy /\ Answered(a))
    /\ \A a \in pageAsked, b \in pageAsked : LastAsked(a) /\ LastAsked(b) => a = b
    /\ \A a \in pageAnswers, b \in pageAnswers : LastAsked(a) /\ LastAsked(b) => a = b
    /\ \A a \in pageAsked, b \in pageAnswers : ~(LastAsked(a) /\ LastAsked(b))
    /\ refreshTimer /\ busy => index = 1

(* The pages that were read before the one with the index: their cursors go    *)
(* down, and so do their lines, of which none is missing, if no request for    *)
(* them failed.                                                                *)
ReadBefore(j) == UNION {seen[i] : i \in 1..j - 1}
ReadInv(j) ==
    /\ Len(seen) >= j - 1
    /\ \A i \in 1..j - 1 : /\ i # 1 => pages[j].cursor < pages[i].cursor
                           /\ \A m \in seen[i] : pages[j].cursor <= Time[m] /\ (i # 1 => Time[m] < pages[i].cursor)
    /\ j # 1 => \A l \in before \cap KeptLines[filter] : pages[j].cursor <= Time[l] => \E i \in 1..j - 1 : l \in seen[i]
    /\ pages[j].offset = Cardinality(ReadBefore(j))
PageInv(j) ==
    /\ pages[j].cursor = 0 <=> j = 1
    /\ failed \cap 1..j - 1 = {} => ReadInv(j)
TableInv ==
    /\ Len(seen) >= index /\ seen[index] = table.lines
    /\ table.filter = filter /\ table.cursor = pages[index].cursor /\ Fits(table, before)

PagesInv ==
    /\ PagesTyped /\ RequestsInv
    /\ \A j \in 1..index : PageInv(j)
    /\ ~busy /\ ~refreshTimer /\ index \notin failed => TableInv

LEMMA LogsAre ==
    /\ IsFiniteSet(LogLines) /\ Time \in [LogLines -> Nat \ {0}]
    /\ KeptLines \in [Filters -> SUBSET LogLines] /\ Limit \in Nat \ {0}
    /\ \A l \in LogLines : Cardinality({m \in LogLines : Time[m] = Time[l]}) <= Limit
<1>1. \A S : Lp!Cardinality(S) = Cardinality(S)
  BY DEF Lp!Cardinality, Cardinality
<1>2. Lp!IsFiniteSet(LogLines) => IsFiniteSet(LogLines)
  BY DEF Lp!IsFiniteSet, IsFiniteSet
<1> QED
  BY <1>1, <1>2, PagesAssumption DEF Lp!PagesAssumption

(* A set of numbers that is not empty has a least one. *)
LEMMA LeastNumber == ASSUME NEW S \in SUBSET Nat, S # {} PROVE \E least \in S : \A n \in S : least <= n
<1>1. PICK least \in S : \A n \in S : ~(<<n, least>> \in OpToRel(<, Nat))
  BY NatLessThanWellFounded, WFMin
<1>2. \A n \in S : ~(n < least)
  BY <1>1 DEF OpToRel
<1> QED
  BY <1>2

(* Loki gives no more lines than it is asked for, and fewer only if there are  *)
(* no more; what it leaves out is no newer.                                    *)
LEMMA TopsGive ==
    ASSUME NEW S \in SUBSET LogLines, NEW k \in Nat, NEW T \in Lp!Tops(S, k)
    PROVE  /\ T \subseteq S /\ IsFiniteSet(T) /\ Cardinality(T) \in Nat
           /\ Cardinality(S) \in Nat /\ Cardinality(T) = IF k < Cardinality(S) THEN k ELSE Cardinality(S)
           /\ Cardinality(T) = Cardinality(S) => T = S
           /\ \A l \in T, m \in S \ T : Time[l] >= Time[m]
<1>1. \A X : Lp!Cardinality(X) = Cardinality(X)
  BY DEF Lp!Cardinality, Cardinality
<1>2. IsFiniteSet(S) /\ Cardinality(S) \in Nat
  BY LogsAre, FS_Subset, FS_CardinalityType
<1>3. /\ T \in SUBSET S /\ Cardinality(T) = IF k < Cardinality(S) THEN k ELSE Cardinality(S)
      /\ \A l \in T, m \in S \ T : Time[l] >= Time[m]
  BY <1>1 DEF Lp!Tops
<1>4. IsFiniteSet(T) /\ (Cardinality(S) = Cardinality(T) => S = T)
  BY <1>2, <1>3, FS_Subset
<1>5. Cardinality(T) \in Nat
  BY <1>4, FS_CardinalityType
<1> QED
  BY <1>2, <1>3, <1>4, <1>5

(* A page, and the cursor of the one after it (queryOperationalLogs): every    *)
(* line that it leaves out is older than the cursor.                           *)
LEMMA PageFits ==
    ASSUME NEW found \in SUBSET LogLines, NEW take \in Lp!Tops(found, Limit + 1), NEW page \in Lp!Tops(take, Limit),
           Cardinality(take) > Limit
    PROVE  /\ Lp!Cut(page, take).lines \subseteq page /\ Lp!Cut(page, take).next \in Nat \ {0}
           /\ \A l \in found \ Lp!Cut(page, take).lines : Time[l] < Lp!Cut(page, take).next
           /\ \A m \in Lp!Cut(page, take).lines : Lp!Cut(page, take).next <= Time[m]
           /\ \E m \in page : Lp!Cut(page, take).next <= Time[m]
<1> DEFINE times == {Time[l] : l \in page}
           last == CHOOSE t \in times : \A l \in page : t <= Time[l]
           group == {l \in page : Time[l] = last}
           splits == (\E l \in take \ page : Time[l] = last) /\ group # page
<1>1. /\ take \subseteq found /\ \A l \in take, m \in found \ take : Time[l] >= Time[m]
      /\ take \in SUBSET LogLines
  <2>1. Limit + 1 \in Nat
    BY LogsAre
  <2>2. take \subseteq found /\ \A l \in take, m \in found \ take : Time[l] >= Time[m]
    BY <2>1, TopsGive
  <2> QED
    BY <2>2
<1>2. /\ page \subseteq take /\ IsFiniteSet(page) /\ Cardinality(page) = Limit
      /\ \A l \in page, m \in take \ page : Time[l] >= Time[m]
  <2>1. Limit \in Nat
    BY LogsAre
  <2> QED
    BY <1>1, <2>1, TopsGive
<1>3. page # {} /\ take \ page # {}
  <2>1. page # {}
    BY <1>2, LogsAre, FS_EmptySet
  <2>2. page # take
    BY <1>2, LogsAre
  <2> QED
    BY <1>2, <2>1, <2>2
<1>4. \A l \in LogLines : Time[l] \in Nat \ {0}
  BY LogsAre
<1>5. last \in times /\ \A l \in page : last <= Time[l]
  <2>1. times \in SUBSET Nat /\ times # {}
    BY <1>1, <1>2, <1>3, <1>4
  <2>2. PICK least \in times : \A n \in times : least <= n
    BY <2>1, LeastNumber
  <2>3. \A l \in page : least <= Time[l]
    BY <2>2
  <2> QED
    BY <2>2, <2>3
<1>6. PICK oldest \in page : Time[oldest] = last
  BY <1>5
<1> HIDE DEF last
<1>7. last \in Nat \ {0}
  BY <1>1, <1>2, <1>4, <1>6
<1>8. \A l \in found \ page : Time[l] <= last
  BY <1>1, <1>2, <1>4, <1>6
<1>9. Lp!Cut(page, take) = IF splits THEN [lines |-> page \ group, next |-> last + 1] ELSE [lines |-> page, next |-> last]
  BY DEF Lp!Cut, last
<1>10. CASE splits
  <2>1. Lp!Cut(page, take).lines = page \ group /\ Lp!Cut(page, take).next = last + 1
    BY <1>9, <1>10
  <2>2. PICK newer \in page : Time[newer] # last
    BY <1>10
  <2>3. \A m \in page \ group : last + 1 <= Time[m]
    BY <1>1, <1>2, <1>4, <1>5, <1>7
  <2>4. last + 1 <= Time[newer]
    BY <2>2, <2>3
  <2>5. \A l \in found \ (page \ group) : Time[l] < last + 1
    BY <1>1, <1>2, <1>4, <1>7, <1>8
  <2> QED
    BY <1>7, <2>1, <2>2, <2>3, <2>4, <2>5
<1>11. CASE ~splits
  <2>1. Lp!Cut(page, take).lines = page /\ Lp!Cut(page, take).next = last
    BY <1>9, <1>11
  <2>2. ASSUME NEW x \in take \ page, Time[x] = last PROVE FALSE
    <3>1. group = page
      BY <1>11, <2>2
    <3>2. page \cup {x} \in SUBSET {m \in LogLines : Time[m] = Time[x]}
      BY <1>1, <1>2, <2>2, <3>1
    <3>3. Cardinality(page \cup {x}) = Limit + 1
      BY <1>2, <2>2, FS_AddElement
    <3>4. IsFiniteSet({m \in LogLines : Time[m] = Time[x]}) /\ Cardinality({m \in LogLines : Time[m] = Time[x]}) <= Limit
      BY <1>1, LogsAre, FS_Subset
    <3>5. Cardinality(page \cup {x}) <= Cardinality({m \in LogLines : Time[m] = Time[x]})
      BY <3>2, <3>4, FS_Subset
    <3>6. Cardinality({m \in LogLines : Time[m] = Time[x]}) \in Nat
      BY <3>4, FS_CardinalityType
    <3> QED
      BY <3>3, <3>4, <3>5, <3>6, LogsAre
  <2>3. ASSUME NEW l \in found \ page PROVE Time[l] < last
    <3>1. PICK x \in take \ page : TRUE
      BY <1>3
    <3>2. Time[x] # last /\ Time[x] <= last /\ Time[x] \in Nat
      BY <1>1, <1>2, <1>4, <1>8, <2>2
    <3>3. l \in take \/ Time[l] <= Time[x]
      BY <1>1, <1>4
    <3>4. l \in take => Time[l] # last
      BY <2>2, <2>3
    <3> QED
      BY <1>1, <1>4, <1>7, <1>8, <3>2, <3>3, <3>4
  <2> QED
    BY <1>5, <1>6, <1>7, <2>1, <2>3
<1> QED
  BY <1>10, <1>11

LEMMA QueryFits ==
    ASSUME PagesTyped, NEW f \in Filters, NEW cursor \in Nat, NEW p \in Lp!Query(f, cursor)
    PROVE  /\ p.lines \in SUBSET LogLines /\ p.next \in Nat
           /\ \A l \in stored \cap KeptLines[f] :
                (cursor = 0 \/ Time[l] < cursor) => l \in p.lines \/ (p.next # 0 /\ Time[l] < p.next)
           /\ \A m \in p.lines : p.next <= Time[m] /\ (cursor # 0 => Time[m] < cursor)
           /\ p.next # 0 /\ cursor # 0 => p.next < cursor
<1> DEFINE found == {l \in stored \cap KeptLines[f] : cursor = 0 \/ Time[l] < cursor}
<1>1. found \in SUBSET LogLines
  BY DEF PagesTyped
<1>2. PICK take \in Lp!Tops(found, Limit + 1) : \E page \in Lp!Tops(take, Limit) :
        p = IF Cardinality(take) > Limit THEN Lp!Cut(page, take) ELSE [lines |-> page, next |-> 0]
  <2>1. \A S : Lp!Cardinality(S) = Cardinality(S)
    BY DEF Lp!Cardinality, Cardinality
  <2>2. PICK take \in Lp!Tops(found, Limit + 1) : \E page \in Lp!Tops(take, Limit) :
        p = IF Lp!Cardinality(take) > Limit THEN Lp!Cut(page, take) ELSE [lines |-> page, next |-> 0]
    BY DEF Lp!Query, Lp!NoCursor
  <2> QED
    BY <2>1, <2>2
<1>20. PICK page \in Lp!Tops(take, Limit) :
        p = IF Cardinality(take) > Limit THEN Lp!Cut(page, take) ELSE [lines |-> page, next |-> 0]
  BY <1>2
<1>3. Limit \in Nat \ {0} /\ Limit + 1 \in Nat /\ \A l \in LogLines : Time[l] \in Nat \ {0}
  BY LogsAre
<1> HIDE DEF found
<1>21. /\ take \subseteq found /\ Cardinality(take) \in Nat /\ Cardinality(found) \in Nat
       /\ Cardinality(take) = IF Limit + 1 < Cardinality(found) THEN Limit + 1 ELSE Cardinality(found)
       /\ Cardinality(take) = Cardinality(found) => take = found
  BY <1>1, <1>3, TopsGive
<1>4. take \subseteq found /\ take \in SUBSET LogLines
  BY <1>1, <1>21, Zenon
<1>22. /\ page \subseteq take
       /\ Cardinality(page) = IF Limit < Cardinality(take) THEN Limit ELSE Cardinality(take)
       /\ Cardinality(page) = Cardinality(take) => page = take
  BY <1>3, <1>4, TopsGive
<1>5. page \subseteq take
  BY <1>22
<1>6. CASE Cardinality(take) > Limit
  <2>1. /\ p.lines \subseteq page /\ p.next \in Nat \ {0}
        /\ \A l \in found \ p.lines : Time[l] < p.next
        /\ \A m \in p.lines : p.next <= Time[m]
        /\ \E m \in page : p.next <= Time[m]
    BY <1>1, <1>20, <1>6, PageFits
  <2>2. \A m \in page : cursor # 0 => Time[m] < cursor
    BY <1>4, <1>5 DEF found
  <2>3. p.next # 0 /\ cursor # 0 => p.next < cursor
    BY <1>3, <1>4, <1>5, <2>1, <2>2
  <2> QED
    BY <1>4, <1>5, <2>1, <2>2, <2>3 DEF found
<1>7. CASE ~(Cardinality(take) > Limit)
  <2>1. p.lines = page /\ p.next = 0
    BY <1>20, <1>7
  <2>2. take = found
    <3>1. Cardinality(take) = Cardinality(found)
      BY <1>3, <1>7, <1>21
    <3> QED
      BY <1>21, <3>1
  <2>3. page = take
    <3>1. Cardinality(page) = Cardinality(take)
      BY <1>3, <1>7, <1>21, <1>22
    <3> QED
      BY <1>22, <3>1
  <2>4. p.lines = found
    BY <2>1, <2>2, <2>3
  <2>5. \A m \in found : cursor # 0 => Time[m] < cursor
    BY DEF found
  <2>6. \A l \in stored \cap KeptLines[f] : (cursor = 0 \/ Time[l] < cursor) => l \in found
    BY DEF found
  <2> QED
    BY <1>1, <1>3, <2>1, <2>4, <2>5, <2>6
<1> QED
  BY <1>6, <1>7

LEMMA PagesRun == SurfacesSpec => Lp!Init /\ [][Lp!Next]_pagesVars
<1>1. SurfacesInit => Lp!Init
  BY DEF SurfacesInit
<1>2. [SurfacesNext]_surfaceVars => [Lp!Next]_pagesVars
  BY DEF SurfacesNext, surfaceVars, pagesVars
<1> QED
  BY <1>1, <1>2, PTL DEF SurfacesSpec

(* The first page is the newest, and there is nothing before it. *)
LEMMA FirstPage ==
    ASSUME index = 1, pages[1] = [cursor |-> 0, offset |-> 0], Len(seen) \in Nat PROVE \A j \in 1..index : PageInv(j)
<1> SUFFICES PageInv(1)
  OBVIOUS
<1>1. 1..(1 - 1) = {}
  OBVIOUS
<1>2. ReadBefore(1) = {}
  BY <1>1 DEF ReadBefore
<1>3. ReadInv(1)
  <2>1. Len(seen) >= 1 - 1 /\ pages[1].offset = 0 /\ Cardinality({}) = 0
    BY FS_EmptySet
  <2> QED
    BY <1>1, <1>2, <2>1 DEF ReadInv
<1> QED
  BY <1>3 DEF PageInv

LEMMA PagesInit == Lp!Init => PagesInv
<1> SUFFICES ASSUME Lp!Init PROVE PagesInv
  OBVIOUS
<1>1. /\ stored \in SUBSET LogLines /\ filter \in Filters /\ index = 1 /\ pageRequest = 0 /\ pageAsked = {} /\ pageAnswers = {}
      /\ busy = TRUE /\ refreshTimer = TRUE /\ seen = <<>> /\ before = {} /\ failed = {}
      /\ table = [filter |-> filter, cursor |-> 0, lines |-> {}, next |-> 0] /\ pages = <<[cursor |-> 0, offset |-> 0]>>
  BY DEF Lp!Init, Lp!First, Lp!NoCursor
<1>2. pages \in Seq([cursor : Nat, offset : Nat]) /\ Len(pages) = 1 /\ seen \in Seq(SUBSET LogLines) /\ Len(seen) = 0
  BY <1>1
<1>3. table \in Showing
  BY <1>1 DEF Showing
<1>4. PagesTyped
  BY <1>1, <1>2, <1>3 DEF PagesTyped
<1>5. RequestsInv
  BY <1>1 DEF RequestsInv
<1>6. \A j \in 1..index : PageInv(j)
  BY <1>1, <1>2, FirstPage
<1> QED
  BY <1>1, <1>4, <1>5, <1>6 DEF PagesInv

(* What was read is as it was. *)
LEMMA ReadStays ==
    ASSUME \A j \in 1..index : PageInv(j), UNCHANGED <<pages, index, seen, before, filter, failed>>
    PROVE  \A j \in 1..index' : PageInv(j)'
<1>1. ASSUME NEW j \in 1..index PROVE ReadBefore(j)' = ReadBefore(j)
  BY DEF ReadBefore
<1>2. ASSUME NEW j \in 1..index PROVE PageInv(j)'
  BY <1>1, <1>2 DEF PageInv, ReadInv
<1> QED
  BY <1>2

LEMMA CursorsAre == ASSUME PagesTyped PROVE \A j \in 1..index : pages[j].cursor \in Nat /\ pages[j].offset \in Nat
<1>1. index \in Nat /\ Len(pages) \in Nat /\ index <= Len(pages) /\ pages \in Seq([cursor : Nat, offset : Nat])
  BY DEF PagesTyped
<1>2. \A j \in 1..Len(pages) : pages[j] \in [cursor : Nat, offset : Nat]
  BY <1>1, ElementOfSeq
<1>3. \A j \in 1..index : j \in 1..Len(pages)
  BY <1>1
<1> QED
  BY <1>2, <1>3

LEMMA TableStays ==
    ASSUME TableInv, UNCHANGED <<pages, index, seen, before, filter, table>> PROVE TableInv'
  BY DEF TableInv, Fits

LEMMA AskKeeps == ASSUME PagesInv, Lp!Ask PROVE PagesInv'
<1>1. /\ refreshTimer' = FALSE /\ busy' = TRUE /\ pageRequest' = pageRequest + 1
      /\ UNCHANGED <<stored, filter, pages, index, table, seen, before, failed, pageAnswers>>
  BY DEF Lp!Ask, Lp!browser
<1>2. PICK new : new = [id |-> pageRequest + 1, filter |-> filter, cursor |-> pages[index].cursor]
  OBVIOUS
<1>3. pageAsked' = pageAsked \cup {new}
  BY <1>2 DEF Lp!Ask, Lp!Page
<1>4. new \in Asking /\ new.id = pageRequest + 1 /\ new.filter = filter /\ new.cursor = pages[index].cursor
  <2>1. pages[index].cursor \in Nat /\ filter \in Filters /\ pageRequest + 1 \in Nat
    BY CursorsAre DEF PagesInv, PagesTyped
  <2> QED
    BY <1>2, <2>1 DEF Asking
<1>5. PagesTyped'
  <2>1. PagesTyped /\ pageRequest' \in Nat /\ pageAsked' \in SUBSET Asking
    BY <1>1, <1>3, <1>4 DEF PagesInv, PagesTyped
  <2> QED
    BY <1>1, <2>1 DEF PagesTyped
<1>6. \A a \in pageAsked \cup pageAnswers : a.id \in Nat /\ a.id <= pageRequest
  BY DEF PagesInv, PagesTyped, RequestsInv, Asking, Answering
<1>7. pageRequest \in Nat
  BY DEF PagesInv, PagesTyped
<1>8. \A a \in pageAsked \cup pageAnswers : a.id <= pageRequest' /\ a.id # pageRequest'
  BY <1>1, <1>6, <1>7
<1>9. RequestsInv'
  BY <1>1, <1>3, <1>4, <1>7, <1>8 DEF RequestsInv, LastAsked, Asked
<1> QED
  BY <1>1, <1>5, <1>9, ReadStays DEF PagesInv

(* The answer to a request is for the page that the request was for, and only  *)
(* one that brings lines has to fit there.                                     *)
LEMMA ReplyKeeps ==
    ASSUME PagesInv, NEW a \in pageAsked, NEW new \in Answering,
           UNCHANGED <<stored, filter, pages, index, table, seen, before, failed, pageRequest, busy, refreshTimer>>,
           pageAsked' = pageAsked \ {a}, pageAnswers' = pageAnswers \cup {new},
           new.id = a.id, new.filter = a.filter, new.cursor = a.cursor, new.before \subseteq stored,
           new.outcome = "page" => Fits(new, IF new.cursor = 0 THEN new.before ELSE before)
    PROVE  PagesInv'
<1>1. PagesTyped /\ RequestsInv
  BY DEF PagesInv
<1>2. PagesTyped'
  BY <1>1 DEF PagesTyped
<1>3. \A b \in pageAnswers : (b.id <= pageRequest /\ (LastAsked(b) => busy /\ Answered(b)))'
  BY <1>1 DEF RequestsInv, LastAsked, Answered, Asked, Fits
<1>4. (new.id <= pageRequest /\ (LastAsked(new) => busy /\ Answered(new)))'
  BY <1>1 DEF RequestsInv, LastAsked, Answered, Asked, Fits
<1>5. \A b \in pageAnswers' : (b.id <= pageRequest /\ (LastAsked(b) => busy /\ Answered(b)))'
  BY <1>3, <1>4
<1>6. \A b \in pageAsked' : (b.id <= pageRequest /\ (LastAsked(b) => busy /\ Asked(b)))'
  BY <1>1 DEF RequestsInv, LastAsked, Asked
<1>7. /\ \A x \in pageAsked', y \in pageAsked' : x.id = pageRequest /\ y.id = pageRequest => x = y
      /\ \A x \in pageAnswers', y \in pageAnswers' : x.id = pageRequest /\ y.id = pageRequest => x = y
      /\ \A x \in pageAsked', y \in pageAnswers' : ~(x.id = pageRequest /\ y.id = pageRequest)
  BY <1>1 DEF RequestsInv, LastAsked
<1>8. RequestsInv'
  <2>1. (refreshTimer /\ busy => index = 1)'
    BY <1>1 DEF RequestsInv
  <2> QED
    BY <1>5, <1>6, <1>7, <2>1 DEF RequestsInv, LastAsked
<1> QED
  BY <1>2, <1>8, ReadStays, TableStays DEF PagesInv

LEMMA AnswerKeeps == ASSUME PagesInv, Lp!Answer PROVE PagesInv'
<1>1. PICK a \in pageAsked : \E p \in Lp!Query(a.filter, a.cursor) : Lp!Reply(a, "page", p)
  BY DEF Lp!Answer
<1>2. PICK p \in Lp!Query(a.filter, a.cursor) : Lp!Reply(a, "page", p)
  BY <1>1
<1>3. PICK new : new = [id |-> a.id, filter |-> a.filter, cursor |-> a.cursor, outcome |-> "page", lines |-> p.lines,
                        next |-> p.next, before |-> IF a.cursor = 0 THEN stored ELSE {}]
  OBVIOUS
<1>4. /\ pageAsked' = pageAsked \ {a} /\ pageAnswers' = pageAnswers \cup {new}
      /\ UNCHANGED <<stored, filter, pages, index, table, seen, before, failed, pageRequest, busy, refreshTimer>>
  BY <1>2, <1>3 DEF Lp!Reply, Lp!NoCursor, Lp!browser
<1>5. a \in Asking /\ a.id \in Nat /\ a.filter \in Filters /\ a.cursor \in Nat /\ PagesTyped
  BY DEF PagesInv, PagesTyped, Asking
<1>6. /\ p.lines \in SUBSET LogLines /\ p.next \in Nat
      /\ \A l \in stored \cap KeptLines[a.filter] :
           (a.cursor = 0 \/ Time[l] < a.cursor) => l \in p.lines \/ (p.next # 0 /\ Time[l] < p.next)
      /\ \A m \in p.lines : p.next <= Time[m] /\ (a.cursor # 0 => Time[m] < a.cursor)
      /\ p.next # 0 /\ a.cursor # 0 => p.next < a.cursor
  BY <1>5, QueryFits
<1>7. /\ new.id = a.id /\ new.filter = a.filter /\ new.cursor = a.cursor /\ new.lines = p.lines /\ new.next = p.next
      /\ new.before = IF a.cursor = 0 THEN stored ELSE {}
  BY <1>3
<1>8. new \in Answering
  BY <1>3, <1>5, <1>6 DEF Answering, PagesTyped
<1>9. Fits(new, stored)
  BY <1>6, <1>7 DEF Fits
<1>10. before \subseteq stored
  BY <1>5 DEF PagesTyped
<1>11. Fits(new, IF new.cursor = 0 THEN new.before ELSE before)
  BY <1>7, <1>9, <1>10 DEF Fits
<1> QED
  BY <1>4, <1>7, <1>8, <1>11, ReplyKeeps

LEMMA AnswerFailsKeeps == ASSUME PagesInv, Lp!AnswerFails PROVE PagesInv'
<1>1. PICK a \in pageAsked, way \in {"unavailable", "failed"} : Lp!Reply(a, way, [lines |-> {}, next |-> 0])
  BY DEF Lp!AnswerFails, Lp!NoCursor
<1>2. PICK new : new = [id |-> a.id, filter |-> a.filter, cursor |-> a.cursor, outcome |-> way, lines |-> {},
                        next |-> 0, before |-> IF a.cursor = 0 THEN stored ELSE {}]
  OBVIOUS
<1>3. /\ pageAsked' = pageAsked \ {a} /\ pageAnswers' = pageAnswers \cup {new}
      /\ UNCHANGED <<stored, filter, pages, index, table, seen, before, failed, pageRequest, busy, refreshTimer>>
  BY <1>1, <1>2 DEF Lp!Reply, Lp!NoCursor, Lp!browser
<1>4. a \in Asking /\ a.id \in Nat /\ a.filter \in Filters /\ a.cursor \in Nat /\ PagesTyped
  BY DEF PagesInv, PagesTyped, Asking
<1>5. /\ new.id = a.id /\ new.filter = a.filter /\ new.cursor = a.cursor /\ new.before \subseteq stored
      /\ new.outcome # "page"
  BY <1>2
<1>6. new \in Answering
  BY <1>2, <1>4 DEF Answering, PagesTyped
<1> QED
  BY <1>3, <1>5, <1>6, ReplyKeeps

(* An answer takes the place of what was on the page that is shown; what was   *)
(* read before it stays.                                                       *)
LEMMA ShowKeeps == ASSUME PagesInv, Lp!Show PROVE PagesInv'
<1>0. PagesTyped /\ RequestsInv /\ (\A j \in 1..index : PageInv(j)) /\ index \in Nat \ {0} /\ pages[index].cursor \in Nat
  BY CursorsAre DEF PagesInv, PagesTyped
<1>1. UNCHANGED <<stored, filter, pages, index, pageRequest, pageAsked, refreshTimer>>
  BY DEF Lp!Show
<1>2. PICK a \in pageAnswers :
        /\ pageAnswers' = pageAnswers \ {a}
        /\ IF a.id = pageRequest THEN Lp!Takes(a) ELSE UNCHANGED <<table, busy, seen, before, failed>>
  BY DEF Lp!Show, Lp!Latest
<1>3. CASE a.id # pageRequest
  <2>1. UNCHANGED <<table, busy, seen, before, failed>>
    BY <1>2, <1>3
  <2>2. PagesTyped'
    BY <1>0, <1>1, <1>2, <2>1 DEF PagesTyped
  <2>3. \A b \in pageAnswers : (b.id <= pageRequest /\ (LastAsked(b) => busy /\ Answered(b)))'
    BY <1>0, <1>1, <2>1 DEF RequestsInv, LastAsked, Answered, Asked, Fits
  <2>4. \A b \in pageAsked' : (b.id <= pageRequest /\ (LastAsked(b) => busy /\ Asked(b)))'
    BY <1>0, <1>1, <2>1 DEF RequestsInv, LastAsked, Asked
  <2>5. RequestsInv'
    BY <1>0, <1>1, <1>2, <2>1, <2>3, <2>4 DEF RequestsInv, LastAsked
  <2> QED
    BY <1>1, <2>1, <2>2, <2>5, ReadStays, TableStays DEF PagesInv
<1>4. ASSUME a.id = pageRequest PROVE busy /\ RequestsInv' /\ Asked(a) /\ a \in Answering /\ a.before \subseteq stored
  <2>1. busy /\ Asked(a) /\ a.before \subseteq stored
    BY <1>0, <1>4 DEF RequestsInv, LastAsked, Answered
  <2>2. \A b \in pageAnswers' \cup pageAsked' : b.id # pageRequest
    BY <1>0, <1>1, <1>2, <1>4 DEF RequestsInv, LastAsked
  <2>3. \A b \in pageAnswers' \cup pageAsked' : b.id <= pageRequest
    BY <1>0, <1>1, <1>2 DEF RequestsInv
  <2>4. busy' = FALSE
    BY <1>2, <1>4 DEF Lp!Takes
  <2>5. RequestsInv'
    BY <1>1, <2>2, <2>3, <2>4 DEF RequestsInv, LastAsked
  <2> QED
    BY <1>0, <2>1, <2>5 DEF PagesTyped
<1>5. CASE a.id = pageRequest /\ a.outcome = "failed"
  <2>1. UNCHANGED <<table, seen, before>> /\ failed' = failed \cup {index} /\ busy' = FALSE
    BY <1>2, <1>5 DEF Lp!Takes
  <2>2. PagesTyped'
    BY <1>0, <1>1, <1>2, <2>1 DEF PagesTyped
  <2>3. ASSUME NEW j \in 1..index PROVE PageInv(j)'
    <3>1. ReadBefore(j)' = ReadBefore(j)
      BY <2>1 DEF ReadBefore
    <3>2. PageInv(j) /\ failed \subseteq failed'
      BY <1>0, <2>1
    <3> QED
      BY <1>1, <2>1, <3>1, <3>2 DEF PageInv, ReadInv
  <2>4. index' \in failed'
    BY <1>1, <2>1
  <2> QED
    BY <1>1, <1>4, <1>5, <2>2, <2>3, <2>4 DEF PagesInv
<1>6. CASE a.id = pageRequest /\ a.outcome # "failed"
  <2>1. /\ table' = [filter |-> a.filter, cursor |-> a.cursor, lines |-> a.lines, next |-> a.next] /\ busy' = FALSE
        /\ seen' = [i \in 1..index |-> IF i = index THEN a.lines ELSE IF i <= Len(seen) THEN seen[i] ELSE {}]
        /\ before' = IF a.cursor = 0 THEN a.before ELSE before
        /\ failed' = IF a.outcome = "page" THEN failed \ {index} ELSE failed \cup {index}
    BY <1>2, <1>6 DEF Lp!Takes, Lp!NoCursor
  <2>2. a \in Answering /\ a.filter \in Filters /\ a.cursor \in Nat /\ a.lines \in SUBSET LogLines /\ a.next \in Nat /\ a.before \in SUBSET LogLines
    BY <1>0 DEF PagesTyped, Answering
  <2>3. busy /\ a.before \subseteq stored /\ Asked(a)
    BY <1>4, <1>6
  <2>7. /\ seen' \in Seq(SUBSET LogLines) /\ Len(seen') = index /\ seen'[index] = a.lines
        /\ \A i \in 1..index - 1 : i <= Len(seen) => seen'[i] = seen[i]
    <3>0. \A i \in 1..Len(seen) : seen[i] \in SUBSET LogLines
      <4>1. seen \in Seq(SUBSET LogLines)
        BY <1>0 DEF PagesTyped
      <4> QED
        BY <4>1, ElementOfSeq
    <3>1. \A i \in 1..index : (IF i = index THEN a.lines ELSE IF i <= Len(seen) THEN seen[i] ELSE {}) \in SUBSET LogLines
      <4>1. index \in Nat /\ Len(seen) \in Nat
        BY <1>0 DEF PagesTyped
      <4>2. \A i \in 1..index : i <= Len(seen) => i \in 1..Len(seen)
        BY <4>1
      <4> QED
        BY <2>2, <3>0, <4>2
    <3>2. seen' \in Seq(SUBSET LogLines) /\ Len(seen') = index
      BY <1>0, <2>1, <3>1
    <3> QED
      BY <1>0, <2>1, <3>2
  <2>8. PagesTyped'
    <3>1. table' \in Showing
      BY <2>1, <2>2 DEF Showing
    <3>2. before' \in SUBSET LogLines /\ before' \subseteq stored
      BY <1>0, <2>1, <2>2, <2>3 DEF PagesTyped
    <3>3. pageAnswers' \in SUBSET Answering /\ failed' \in SUBSET Nat
      BY <1>0, <1>2, <2>1 DEF PagesTyped
    <3> QED
      BY <1>0, <1>1, <2>1, <2>7, <3>1, <3>2, <3>3 DEF PagesTyped
  <2>9. index = 1 \/ (before' = before /\ ~refreshTimer)
    <3>1. CASE refreshTimer
      BY <1>0, <2>3, <3>1 DEF RequestsInv
    <3>2. CASE ~refreshTimer /\ index # 1
      <4>1. a.cursor = pages[index].cursor /\ pages[index].cursor # 0
        BY <1>0, <2>3, <3>2 DEF Asked, PageInv
      <4> QED
        BY <2>1, <3>2, <4>1
    <3> QED
      BY <3>1, <3>2
  <2>10. ASSUME NEW j \in 1..index PROVE PageInv(j)'
    <3>1. PageInv(j) /\ failed' \cap 1..j - 1 = failed \cap 1..j - 1
      BY <1>0, <2>1
    <3>2. ASSUME ReadInv(j) PROVE ReadInv(j)'
      <4>1. \A i \in 1..j - 1 : seen'[i] = seen[i]
        <5>1. Len(seen) \in Nat /\ Len(seen) >= j - 1
          BY <1>0, <3>2 DEF PagesTyped, ReadInv
        <5>2. \A i \in 1..j - 1 : i <= Len(seen) /\ i \in 1..index - 1
          BY <1>0, <5>1
        <5> QED
          BY <2>7, <5>2
      <4>2. ReadBefore(j)' = ReadBefore(j)
        BY <4>1 DEF ReadBefore
      <4>3. (j # 1 => before' = before) /\ Len(seen') >= j - 1
        BY <1>0, <2>7, <2>9
      <4> QED
        BY <1>1, <3>2, <4>1, <4>2, <4>3 DEF ReadInv
    <3> QED
      BY <1>1, <3>1, <3>2 DEF PageInv
  <2>11. ~refreshTimer /\ index \notin failed' => TableInv'
    <3>1. SUFFICES ASSUME ~refreshTimer, index \notin failed' PROVE TableInv'
      OBVIOUS
    <3>2. a.filter = filter /\ a.cursor = pages[index].cursor /\ a.outcome = "page"
      BY <2>1, <2>3, <3>1 DEF Asked
    <3>3. table'.filter = a.filter /\ table'.cursor = a.cursor /\ table'.lines = a.lines /\ table'.next = a.next
      BY <2>1
    <3>4. Fits(a, before')
      BY <1>0, <1>6, <2>1, <3>2 DEF RequestsInv, LastAsked, Answered
    <3>5. Fits(table, before)'
      BY <3>3, <3>4 DEF Fits
    <3> QED
      BY <1>0, <1>1, <2>7, <3>2, <3>3, <3>5 DEF TableInv
  <2> QED
    BY <1>1, <1>4, <1>6, <2>8, <2>10, <2>11 DEF PagesInv
<1> QED
  BY <1>3, <1>5, <1>6

LEMMA FilterKeeps == ASSUME PagesInv, Lp!ChangeFilter PROVE PagesInv'
<1>1. /\ filter' \in Filters /\ pages' = <<[cursor |-> 0, offset |-> 0]>> /\ index' = 1 /\ seen' = <<>> /\ failed' = {} /\ refreshTimer' = TRUE
      /\ UNCHANGED <<stored, table, before, pageRequest, pageAsked, pageAnswers, busy>>
  BY DEF Lp!ChangeFilter, Lp!First, Lp!NoCursor
<1>2. /\ pages' \in Seq([cursor : Nat, offset : Nat]) /\ Len(pages') = 1 /\ seen' \in Seq(SUBSET LogLines) /\ Len(seen') = 0
      /\ pages'[1] = [cursor |-> 0, offset |-> 0]
  BY <1>1
<1>3. PagesTyped'
  BY <1>1, <1>2 DEF PagesInv, PagesTyped
<1>4. RequestsInv
  BY DEF PagesInv
<1>5. \A b \in pageAnswers : (b.id <= pageRequest /\ (LastAsked(b) => busy /\ Answered(b)))'
  BY <1>1, <1>4 DEF RequestsInv, LastAsked, Answered, Asked, Fits
<1>6. \A b \in pageAsked' : (b.id <= pageRequest /\ (LastAsked(b) => busy /\ Asked(b)))'
  BY <1>1, <1>4 DEF RequestsInv, LastAsked, Asked
<1>7. RequestsInv'
  <2>1. \A b \in pageAnswers' : (b.id <= pageRequest /\ (LastAsked(b) => busy /\ Answered(b)))'
    BY <1>1, <1>5
  <2>2. /\ \A x \in pageAsked', y \in pageAsked' : x.id = pageRequest /\ y.id = pageRequest => x = y
        /\ \A x \in pageAnswers', y \in pageAnswers' : x.id = pageRequest /\ y.id = pageRequest => x = y
        /\ \A x \in pageAsked', y \in pageAnswers' : ~(x.id = pageRequest /\ y.id = pageRequest)
    BY <1>1, <1>4 DEF RequestsInv, LastAsked
  <2> QED
    BY <1>1, <1>6, <2>1, <2>2 DEF RequestsInv, LastAsked
<1>8. \A j \in 1..index' : PageInv(j)'
  <2>1. index' = 1 /\ pages'[1] = [cursor |-> 0, offset |-> 0] /\ 1..(1 - 1) = {}
    BY <1>1, <1>2
  <2>2. ReadBefore(1)' = {}
    BY <2>1 DEF ReadBefore
  <2>3. PageInv(1)'
    <3>1. (Len(seen) >= 1 - 1)' /\ (pages[1].offset = 0)' /\ Cardinality({}) = 0
      BY <1>2, FS_EmptySet
    <3>2. ReadInv(1)'
      BY <2>1, <2>2, <3>1 DEF ReadInv
    <3> QED
      BY <2>1, <3>2 DEF PageInv
  <2> QED
    BY <2>1, <2>3
<1> QED
  BY <1>1, <1>3, <1>7, <1>8 DEF PagesInv

(* Someone who waits for a page turns it only when it is shown. *)
LEMMA TurnsWhenShown ==
    ASSUME PagesInv, Patient, Lp!Turn
    PROVE  /\ (index \notin failed => TableInv) /\ ~busy /\ refreshTimer' = TRUE
           /\ UNCHANGED <<stored, filter, table, seen, before, pageRequest, pageAsked, pageAnswers, busy>>
  BY DEF Lp!Turn, PagesInv

(* Nothing is under way when a page is turned or read again. *)
LEMMA NothingAsked ==
    ASSUME RequestsInv, ~busy, UNCHANGED <<pageRequest, pageAsked, pageAnswers, busy>>
    PROVE  RequestsInv'
<1>1. \A b \in pageAsked' \cup pageAnswers' : b.id <= pageRequest' /\ b.id # pageRequest'
  BY DEF RequestsInv, LastAsked
<1> QED
  BY <1>1 DEF RequestsInv, LastAsked

LEMMA NextKeeps == ASSUME PagesInv, Patient, Lp!NextPage PROVE PagesInv'
<1>0. PagesTyped /\ RequestsInv /\ (\A j \in 1..index : PageInv(j)) /\ index \in Nat \ {0}
      /\ \A j \in 1..index : pages[j].cursor \in Nat /\ pages[j].offset \in Nat
  BY CursorsAre DEF PagesInv, PagesTyped
<1>1. /\ ~busy /\ refreshTimer' = TRUE /\ table.next # 0 /\ failed' = failed \cap 1..index
      /\ UNCHANGED <<stored, filter, table, seen, before, pageRequest, pageAsked, pageAnswers, busy>>
  BY TurnsWhenShown DEF Lp!NextPage, Lp!NoCursor
<1>2. table \in Showing /\ table.lines \in SUBSET LogLines /\ table.next \in Nat /\ table.cursor \in Nat
  BY <1>0 DEF PagesTyped, Showing
<1>3. IsFiniteSet(table.lines) /\ Cardinality(table.lines) \in Nat
  BY <1>2, LogsAre, FS_Subset, FS_CardinalityType
<1>4. PICK new : new = [cursor |-> table.next, offset |-> pages[index].offset + Cardinality(table.lines)]
  OBVIOUS
<1>5. new.cursor = table.next /\ new.offset = pages[index].offset + Cardinality(table.lines) /\ new \in [cursor : Nat, offset : Nat]
  BY <1>0, <1>2, <1>3, <1>4
<1>6. index' = index + 1 /\ pages' = Append(SubSeq(pages, 1, index), new)
  <2>1. Lp!Cardinality(table.lines) = Cardinality(table.lines)
    BY DEF Lp!Cardinality, Cardinality
  <2> QED
    BY <1>4, <2>1 DEF Lp!NextPage, Lp!Page
<1>7. /\ pages' \in Seq([cursor : Nat, offset : Nat]) /\ Len(pages') = index + 1 /\ pages'[index + 1] = new
      /\ \A j \in 1..index : pages'[j] = pages[j]
  <2>1. pages \in Seq([cursor : Nat, offset : Nat]) /\ index <= Len(pages) /\ index \in Nat
    BY <1>0 DEF PagesTyped
  <2>2. /\ SubSeq(pages, 1, index) \in Seq([cursor : Nat, offset : Nat]) /\ Len(SubSeq(pages, 1, index)) = index
        /\ \A j \in 1..index : SubSeq(pages, 1, index)[j] = pages[j]
    <3>1. \A j \in 1..index : pages[j] \in [cursor : Nat, offset : Nat]
      <4>1. \A j \in 1..index : j \in 1..Len(pages)
        BY <2>1
      <4> QED
        BY <2>1, <4>1, ElementOfSeq
    <3>2. /\ SubSeq(pages, 1, index) \in Seq([cursor : Nat, offset : Nat])
          /\ Len(SubSeq(pages, 1, index)) = IF 1 <= index THEN index - 1 + 1 ELSE 0
          /\ \A j \in 1..index - 1 + 1 : SubSeq(pages, 1, index)[j] = pages[1 + j - 1]
      BY <2>1, <3>1, SubSeqProperties
    <3>3. \A j \in 1..index : 1 + j - 1 = j /\ j \in 1..index - 1 + 1
      BY <2>1
    <3>4. Len(SubSeq(pages, 1, index)) = index
      BY <1>0, <3>2
    <3> QED
      BY <3>2, <3>3, <3>4
  <2>3. PICK turned : turned = SubSeq(pages, 1, index)
    OBVIOUS
  <2>4. turned \in Seq([cursor : Nat, offset : Nat]) /\ Len(turned) = index /\ \A j \in 1..index : turned[j] = pages[j]
    BY <2>2, <2>3
  <2>5. pages' = Append(turned, new)
    BY <1>6, <2>3
  <2>6. new \in [cursor : Nat, offset : Nat] /\ index \in Nat
    BY <1>5, <2>1
  <2>7. pages' \in Seq([cursor : Nat, offset : Nat]) /\ Len(pages') = Len(turned) + 1 /\ pages'[Len(turned) + 1] = new
    BY <2>4, <2>5, <2>6
  <2>8. \A j \in 1..index : pages'[j] = turned[j]
    BY <2>4, <2>5, <2>6
  <2> QED
    BY <2>4, <2>7, <2>8
<1>8. PagesTyped'
  <2>1. failed' \in SUBSET Nat
    BY <1>0, <1>1 DEF PagesTyped
  <2> QED
    BY <1>0, <1>1, <1>6, <1>7, <2>1 DEF PagesTyped
<1>9. ASSUME NEW j \in 1..index PROVE PageInv(j)'
  <2>1. ReadBefore(j)' = ReadBefore(j)
    BY <1>1 DEF ReadBefore
  <2>2. PageInv(j) /\ \A i \in 1..j : pages'[i] = pages[i]
    BY <1>0, <1>7
  <2>3. failed' \cap 1..j - 1 = failed \cap 1..j - 1
    BY <1>0, <1>1
  <2> QED
    BY <1>0, <1>1, <2>1, <2>2, <2>3 DEF PageInv, ReadInv
<1>10. PICK more : more = index + 1
  OBVIOUS
<1>11. more # 1 /\ more - 1 = index /\ more \in Nat /\ pages'[more] = new
  BY <1>0, <1>7, <1>10
<1>12. pages'[more].cursor # 0
  BY <1>1, <1>5, <1>11
(* Up to here no page failed, and the table is that of the last one. *)
<1>13. ASSUME failed \cap 1..index = {} PROVE ReadInv(more)'
  <2>1. /\ seen[index] = table.lines /\ table.filter = filter /\ table.cursor = pages[index].cursor /\ Fits(table, before)
         /\ Len(seen) >= index /\ pages[index].cursor \in Nat
    <3>1. index \notin failed
      BY <1>0, <1>13
    <3>2. TableInv
      BY <3>1, TurnsWhenShown DEF Lp!NextPage
    <3> QED
      BY <1>0, <3>2 DEF TableInv
  <2>2. ReadInv(index) /\ (pages[index].cursor = 0 <=> index = 1)
    <3>1. failed \cap 1..index - 1 = {}
      BY <1>0, <1>13
    <3>2. PageInv(index)
      BY <1>0
    <3> QED
      BY <3>1, <3>2 DEF PageInv
  <2>3. \A i \in 1..index - 1 : \A m \in seen[i] : m \in LogLines /\ Time[m] \in Nat
    <3>1. \A i \in 1..Len(seen) : seen[i] \in SUBSET LogLines
      BY <1>0, ElementOfSeq DEF PagesTyped
    <3>2. \A i \in 1..index - 1 : i \in 1..Len(seen)
      BY <1>0, <2>1 DEF PagesTyped
    <3> QED
      BY <3>1, <3>2, LogsAre
  <2>4. \A m \in table.lines : Time[m] \in Nat
    BY <1>2, LogsAre
  <2>5. index # 1 => table.next < pages[index].cursor
    BY <1>1, <2>2, <2>1 DEF Fits
  <2>6. ASSUME NEW i \in 1..index
         PROVE  /\ i # 1 => table.next < pages[i].cursor
                /\ \A m \in seen[i] : table.next <= Time[m] /\ (i # 1 => Time[m] < pages[i].cursor)
    <3>1. CASE i = index
      <4>1. i # 1 => pages[i].cursor # 0
        BY <2>2, <3>1
      <4> QED
        BY <2>1, <2>5, <3>1, <4>1 DEF Fits
    <3>2. CASE i \in 1..index - 1
      <4>1. /\ i # 1 => pages[index].cursor < pages[i].cursor
            /\ \A m \in seen[i] : pages[index].cursor <= Time[m] /\ (i # 1 => Time[m] < pages[i].cursor)
        BY <2>2, <3>2 DEF ReadInv
      <4>2. index # 1 /\ table.next < pages[index].cursor /\ pages[i].cursor \in Nat
        BY <1>0, <2>5, <3>2
      <4> QED
        BY <1>2, <2>1, <2>3, <3>2, <4>1, <4>2
    <3> QED
      BY <1>0, <3>1, <3>2
  <2>7. ASSUME NEW l \in before \cap KeptLines[filter], table.next <= Time[l] PROVE \E i \in 1..index : l \in seen[i]
    <3>1. Time[l] \in Nat
      BY <1>0, LogsAre DEF PagesTyped
    <3>2. CASE pages[index].cursor = 0 \/ Time[l] < pages[index].cursor
      <4>1. l \in table.lines
        BY <1>2, <2>1, <2>7, <3>1, <3>2 DEF Fits
      <4> QED
        BY <1>0, <2>1, <4>1
    <3>3. CASE pages[index].cursor # 0 /\ pages[index].cursor <= Time[l]
      <4>1. \E i \in 1..index - 1 : l \in seen[i]
        BY <2>2, <3>3 DEF ReadInv
      <4> QED
        BY <1>0, <4>1
    <3> QED
      BY <2>1, <3>1, <3>2, <3>3
  <2>8. pages[index].offset + Cardinality(table.lines) = Cardinality(UNION {seen[i] : i \in 1..index})
    <3>1. UNION {seen[i] : i \in 1..index} = ReadBefore(index) \cup table.lines
      <4>1. \A i : i \in 1..index <=> i \in 1..index - 1 \/ i = index
        BY <1>0
      <4> QED
        BY <2>1, <4>1 DEF ReadBefore
    <3>2. ReadBefore(index) \in SUBSET LogLines /\ IsFiniteSet(ReadBefore(index))
      <4>1. ReadBefore(index) \in SUBSET LogLines
        BY <2>3 DEF ReadBefore
      <4> QED
        BY <4>1, LogsAre, FS_Subset
    <3>3. ReadBefore(index) \cap table.lines = {}
      <4>1. ASSUME NEW m \in ReadBefore(index), m \in table.lines PROVE FALSE
        <5>1. PICK i \in 1..index - 1 : m \in seen[i]
          BY <4>1 DEF ReadBefore
        <5>2. index # 1 /\ pages[index].cursor # 0 /\ pages[index].cursor <= Time[m]
          BY <1>0, <2>2, <5>1 DEF ReadInv
        <5>3. Time[m] < pages[index].cursor
          BY <2>1, <4>1, <5>2 DEF Fits
        <5> QED
          BY <2>1, <2>4, <4>1, <5>2, <5>3
      <4> QED
        BY <4>1
    <3>4. Cardinality(ReadBefore(index) \cup table.lines) = Cardinality(ReadBefore(index)) + Cardinality(table.lines) - 0
      BY <1>3, <3>2, <3>3, FS_Union, FS_EmptySet
    <3>5. pages[index].offset = Cardinality(ReadBefore(index)) /\ pages[index].offset \in Nat
      BY <1>0, <2>2 DEF ReadInv
    <3>6. Cardinality(UNION {seen[i] : i \in 1..index}) = Cardinality(ReadBefore(index)) + Cardinality(table.lines) - 0
      BY <3>1, <3>4, Zenon
    <3> QED
      BY <1>3, <3>5, <3>6
  <2>9. pages'[more].cursor = table.next /\ pages'[more].offset = pages[index].offset + Cardinality(table.lines)
    BY <1>5, <1>11
  <2>10. ReadBefore(more)' = UNION {seen[i] : i \in 1..index}
    BY <1>1, <1>11 DEF ReadBefore
  <2>11. pages'[more].offset = Cardinality(ReadBefore(more)') /\ Len(seen') >= more - 1
    BY <1>1, <1>11, <2>1, <2>8, <2>9, <2>10
  <2>12. \A i \in 1..more - 1 : /\ i # 1 => pages'[more].cursor < pages'[i].cursor
                                /\ \A m \in seen'[i] : pages'[more].cursor <= Time[m] /\ (i # 1 => Time[m] < pages'[i].cursor)
    BY <1>1, <1>7, <1>11, <2>6, <2>9
  <2>13. \A l \in before' \cap KeptLines[filter'] : pages'[more].cursor <= Time[l] => \E i \in 1..more - 1 : l \in seen'[i]
    BY <1>1, <1>11, <2>7, <2>9
  <2> QED
    BY <2>11, <2>12, <2>13 DEF ReadInv
<1>14. PageInv(more)'
  <2>1. failed' \cap 1..more - 1 = failed \cap 1..index
    BY <1>1, <1>11
  <2> QED
    BY <1>11, <1>12, <1>13, <2>1 DEF PageInv
<1>15. \A j \in 1..index' : PageInv(j)'
  <2>1. \A j \in 1..index' : j \in 1..index \/ j = more
    BY <1>0, <1>6, <1>10
  <2>2. ASSUME NEW j \in 1..index' PROVE PageInv(j)'
    <3>1. CASE j \in 1..index
      BY <1>9, <3>1
    <3>2. CASE j = more
      BY <1>14, <3>2
    <3> QED
      BY <2>1, <3>1, <3>2
  <2> QED
    BY <2>2
<1>16. RequestsInv'
  BY <1>0, <1>1, NothingAsked
<1> QED
  BY <1>1, <1>8, <1>15, <1>16 DEF PagesInv

LEMMA PreviousKeeps == ASSUME PagesInv, Patient, Lp!PreviousPage PROVE PagesInv'
<1>0. PagesTyped /\ RequestsInv /\ (\A j \in 1..index : PageInv(j)) /\ index \in Nat \ {0}
  BY DEF PagesInv, PagesTyped
<1>1. /\ ~busy /\ refreshTimer' = TRUE /\ pages' = pages /\ index > 1 /\ index' = index - 1
      /\ UNCHANGED <<stored, filter, table, seen, before, failed, pageRequest, pageAsked, pageAnswers, busy>>
  BY TurnsWhenShown DEF Lp!PreviousPage
<1>2. PagesTyped'
  BY <1>0, <1>1 DEF PagesTyped
<1>3. ASSUME NEW j \in 1..index PROVE PageInv(j)'
  <2>1. ReadBefore(j)' = ReadBefore(j)
    BY <1>1 DEF ReadBefore
  <2> QED
    BY <1>0, <1>1, <2>1 DEF PageInv, ReadInv
<1>4. \A j \in 1..index' : PageInv(j)'
  <2>1. \A j \in 1..index' : j \in 1..index
    BY <1>0, <1>1
  <2> QED
    BY <1>3, <2>1
<1>5. RequestsInv'
  BY <1>0, <1>1, NothingAsked
<1> QED
  BY <1>1, <1>2, <1>4, <1>5 DEF PagesInv

LEMMA LineKeeps == ASSUME PagesInv, Lp!Arrives PROVE PagesInv'
<1>1. /\ stored \subseteq stored' /\ stored' \in SUBSET LogLines
      /\ UNCHANGED <<filter, pages, index, table, seen, before, failed, pageRequest, pageAsked, pageAnswers, busy, refreshTimer>>
  BY DEF Lp!Arrives, Lp!browser, PagesInv, PagesTyped
<1>2. PagesTyped'
  BY <1>1 DEF PagesInv, PagesTyped
<1>3. RequestsInv
  BY DEF PagesInv
<1>4. \A b \in pageAnswers' : (b.id <= pageRequest /\ (LastAsked(b) => busy /\ Answered(b)))'
  BY <1>1, <1>3 DEF RequestsInv, LastAsked, Answered, Asked, Fits
<1>5. \A b \in pageAsked' : (b.id <= pageRequest /\ (LastAsked(b) => busy /\ Asked(b)))'
  BY <1>1, <1>3 DEF RequestsInv, LastAsked, Asked
<1>6. RequestsInv'
  BY <1>1, <1>3, <1>4, <1>5 DEF RequestsInv, LastAsked
<1> QED
  BY <1>1, <1>2, <1>6, ReadStays, TableStays DEF PagesInv

(* When the logs are purged, no line is left that could be missed. *)
LEMMA RefreshKeeps == ASSUME PagesInv, Lp!Refresh PROVE PagesInv'
<1>1. /\ ~busy /\ refreshTimer' = TRUE /\ before' \subseteq before /\ before' \subseteq stored' /\ stored' \subseteq stored
      /\ UNCHANGED <<filter, pages, index, table, seen, failed, pageRequest, pageAsked, pageAnswers, busy>>
  BY DEF Lp!Refresh, PagesInv, PagesTyped
<1>2. PagesTyped'
  BY <1>1 DEF PagesInv, PagesTyped
<1>3. RequestsInv'
  BY <1>1, NothingAsked DEF PagesInv
<1>4. ASSUME NEW j \in 1..index PROVE PageInv(j)'
  <2>1. ReadBefore(j)' = ReadBefore(j)
    BY <1>1 DEF ReadBefore
  <2>2. PageInv(j)
    BY DEF PagesInv
  <2> QED
    BY <1>1, <2>1, <2>2 DEF PageInv, ReadInv
<1> QED
  BY <1>1, <1>2, <1>3, <1>4 DEF PagesInv

LEMMA PagesSteps == ASSUME PagesInv, Patient, [Lp!Next]_pagesVars PROVE PagesInv'
<1>1. CASE UNCHANGED pagesVars
  <2>1. UNCHANGED <<stored, filter, pages, index, table, seen, before, failed, pageRequest, pageAsked, pageAnswers, busy, refreshTimer>>
    BY <1>1 DEF pagesVars
  <2>2. PagesTyped'
    BY <2>1 DEF PagesInv, PagesTyped
  <2>3. RequestsInv'
    BY <2>1 DEF PagesInv, RequestsInv, LastAsked, Answered, Asked, Fits
  <2> QED
    BY <2>1, <2>2, <2>3, ReadStays, TableStays DEF PagesInv
<1> QED
  BY <1>1, AskKeeps, AnswerKeeps, AnswerFailsKeeps, ShowKeeps, FilterKeeps, NextKeeps, PreviousKeeps, LineKeeps, RefreshKeeps DEF Lp!Next

LEMMA LinesOnce == PagesInv => Lp!EveryLineOnce
<1> SUFFICES ASSUME PagesInv, ~busy, ~refreshTimer, failed \cap 1..index = {}
             PROVE  /\ \A i, j \in 1..index : i # j => seen[i] \cap seen[j] = {}
                    /\ \A l \in before \cap stored \cap KeptLines[filter] :
                          l \in Lp!Read \/ \A m \in Lp!Read : Time[l] <= Time[m] /\ table.next # 0
                    /\ pages[index].offset = Lp!Cardinality(UNION {seen[i] : i \in 1..index - 1})
  BY DEF Lp!EveryLineOnce, Lp!NoCursor, Lp!Page
<1>0. PagesTyped /\ (\A j \in 1..index : PageInv(j)) /\ index \in Nat \ {0} /\ \A j \in 1..index : pages[j].cursor \in Nat
  BY CursorsAre DEF PagesInv, PagesTyped
<1>8. \A j \in 1..index : ReadInv(j)
  <2>1. \A j \in 1..index : failed \cap 1..j - 1 = {}
    BY <1>0
  <2> QED
    BY <1>0, <2>1 DEF PageInv
<1>1. /\ Len(seen) >= index /\ seen[index] = table.lines /\ table.filter = filter /\ table.cursor = pages[index].cursor
      /\ Fits(table, before)
  BY <1>0 DEF PagesInv, TableInv
<1>2. table.lines \in SUBSET LogLines /\ table.next \in Nat /\ table.cursor \in Nat
  BY <1>0 DEF PagesTyped, Showing
<1>3. \A i \in 1..index : \A m \in seen[i] : m \in LogLines /\ Time[m] \in Nat
  <2>1. \A i \in 1..Len(seen) : seen[i] \in SUBSET LogLines
    BY <1>0, ElementOfSeq DEF PagesTyped
  <2>2. Len(seen) \in Nat
    BY <1>0 DEF PagesTyped
  <2>3. \A i \in 1..index : i \in 1..Len(seen)
    BY <1>0, <1>1, <2>2
  <2> QED
    BY <2>1, <2>3, LogsAre
<1>4. ASSUME NEW j \in 1..index, NEW i \in 1..j - 1, NEW m \in seen[i], m \in seen[j] PROVE FALSE
  <2>1. PageInv(j) /\ ReadInv(j) /\ i \in 1..index /\ j # 1 /\ j \in Nat
    BY <1>0, <1>8
  <2>2. pages[j].cursor # 0 /\ pages[j].cursor <= Time[m]
    BY <2>1 DEF PageInv, ReadInv
  <2>3. Time[m] < pages[j].cursor
    <3>1. CASE j = index
      BY <1>1, <1>4, <2>2, <3>1 DEF Fits
    <3>2. CASE j # index
      <4>1. ReadInv(index) /\ j \in 1..index - 1
        BY <1>0, <1>8, <3>2
      <4> QED
        BY <1>4, <2>1, <4>1 DEF ReadInv
    <3> QED
      BY <3>1, <3>2
  <2> QED
    BY <1>0, <1>3, <1>4, <2>1, <2>2, <2>3
<1>5. ASSUME NEW i \in 1..index, NEW j \in 1..index, i # j PROVE seen[i] \cap seen[j] = {}
  <2>1. i \in 1..j - 1 \/ j \in 1..i - 1
    BY <1>0, <1>5
  <2> QED
    BY <1>4, <2>1
<1>6. ASSUME NEW l \in before \cap stored \cap KeptLines[filter], l \notin Lp!Read, NEW m \in Lp!Read
      PROVE  Time[l] <= Time[m] /\ table.next # 0
  <2>1. Time[l] \in Nat
    BY <1>0, LogsAre DEF PagesTyped
  <2>2. \A i \in 1..index : l \notin seen[i]
    BY <1>6 DEF Lp!Read
  <2>3. PICK i \in 1..index : m \in seen[i]
    BY DEF Lp!Read
  <2>4. PageInv(index) /\ ReadInv(index) /\ Time[m] \in Nat /\ index \in 1..index
    BY <1>0, <1>3, <1>8, <2>3
  <2>5. pages[index].cursor = 0 \/ Time[l] < pages[index].cursor
    <3>1. CASE index = 1
      BY <2>4, <3>1 DEF PageInv
    <3>2. CASE index # 1 /\ pages[index].cursor <= Time[l]
      <4>1. PICK k \in 1..index - 1 : l \in seen[k]
        BY <2>4, <3>2 DEF ReadInv
      <4> QED
        BY <1>0, <2>2, <4>1
    <3> QED
      BY <1>0, <2>1, <2>4, <3>1, <3>2
  <2>6. table.next # 0 /\ Time[l] < table.next
    BY <1>1, <2>2, <2>4, <2>5 DEF Fits
  <2>7. CASE i = index
    <3>1. table.next <= Time[m]
      BY <1>1, <2>3, <2>7 DEF Fits
    <3> QED
      BY <1>2, <2>1, <2>4, <2>6, <3>1
  <2>8. CASE i # index
    <3>1. i \in 1..index - 1 /\ index # 1
      BY <1>0, <2>8
    <3>2. pages[index].cursor # 0 /\ pages[index].cursor <= Time[m]
      BY <2>3, <2>4, <3>1 DEF PageInv, ReadInv
    <3> QED
      BY <1>0, <2>1, <2>4, <2>5, <2>6, <3>2
  <2> QED
    BY <2>7, <2>8
<1>7. pages[index].offset = Lp!Cardinality(UNION {seen[i] : i \in 1..index - 1})
  <2>1. \A S : Lp!Cardinality(S) = Cardinality(S)
    BY DEF Lp!Cardinality, Cardinality
  <2>2. ReadInv(index)
    BY <1>0, <1>8
  <2> QED
    BY <2>1, <2>2 DEF ReadInv, ReadBefore
<1> QED
  BY <1>5, <1>6, <1>7

(* Of a reader who waits for a page before turning it, and an Agent whose       *)
(* commands print nothing once they are given up: paging shows every line once  *)
(* and numbers the rows right unless the last request for a page up to there     *)
(* failed, the detail is of the node the URL names and an action that is over    *)
(* stays so, for any number of lines, nodes and requests that overtake each     *)
(* other or fail.                                                                *)
THEOREM PagesShowWhatIs == ASSUME Patient, ~PrintsLate PROVE SurfacesSpec => []WhatIsShownIsTrue
<1>1. PagesInv /\ [Lp!Next]_pagesVars => PagesInv'
  BY PagesSteps
<1>2. LogInv /\ [Lo!Next]_logVars => LogInv'
  BY LogSteps
<1>3. Nd!RightDetail /\ [Nd!Next]_detailVars => Nd!RightDetail'
  BY DetailSteps
<1>4. PagesInv /\ Nd!RightDetail /\ LogInv => WhatIsShownIsTrue
  BY LinesOnce DEF LogInv, WhatIsShownIsTrue
<1> QED
  BY <1>1, <1>2, <1>3, <1>4, PagesRun, PagesInit, DetailRuns, DetailInit, LogRuns, LogInit, PTL
=============================================================================

------------------------------- MODULE Placement -------------------------------
(* Which nodes are offered to users, and what Console says of the nodes: both  *)
(* are worked out from the service rows and from what the Agents last said,    *)
(* by four different pieces of code (selectVpnServices, the portal's           *)
(* availability, getNodeConnectivity, and the heartbeat's own check), while    *)
(* machines and services fail, heartbeats are lost, and operators pause nodes  *)
(* and switch services. Time passes in steps of 30 seconds, an Agent's beat.   *)
EXTENDS Naturals, FiniteSets

CONSTANTS
    Nodes, Protocols, None,
    Regional,      \* protocols of which a region's every node gets a profile (wireguard)
    Window,        \* heartbeats count for so many beats: 3, that is 90 seconds
    MaxEvents      \* bound: failures, repairs, lost heartbeats, clicks

PlacementAssumption == Window \in Nat

VARIABLES
    up,          \* machines that run, with their Agent
    runs,        \* of each and protocol: "absent", "down", "deaf" (does not listen) or "up"
    since,       \* of each and protocol: beats since it last served; Window or more are one
    due, flying, \* Agents whose beat is still to come; the snapshots on their way
    beat,        \* of each: beats since its last heartbeat; Window + 1 or more are one
    report,      \* of each: agent_capabilities_json.connectivity
    advertised,  \* of each: the protocols that node_protocols has as enabled
    enabled, status, applied,   \* vpn_services; is the current revision applied
    paused,      \* paused_at
    placing,     \* a request for profiles or a lease: [p, todo, got]
    leased,      \* the nodes where the device at hand has a lease
    events

machine == <<up, runs, since>>
wire == <<due, flying>>
rows == <<beat, report, advertised, enabled, status, applied, paused>>
vars == <<machine, wire, rows, placing, leased, events>>

Each(v) == [n \in Nodes |-> [p \in Protocols |-> v]]
Serves(n, p) == n \in up /\ runs[n][p] = "up"
NoRequest == [p |-> None, todo |-> {}, got |-> {}]

TypeOK ==
    /\ up \subseteq Nodes /\ due \subseteq Nodes /\ paused \subseteq Nodes /\ leased \subseteq Nodes
    /\ \A n \in Nodes, p \in Protocols :
          /\ runs[n][p] \in {"absent", "down", "deaf", "up"} /\ since[n][p] \in 0..Window
          /\ status[n][p] \in {"disabled", "deploying", "healthy", "attention", "unsupported"}
          /\ beat[n] \in 0..(Window + 1) /\ advertised[n] \subseteq Protocols
          /\ (Serves(n, p) => since[n][p] = 0)
          /\ (status[n][p] = "disabled" <=> ~enabled[n][p])

(* Nodes that serve, and perhaps one that was just added: an event.            *)
Start(new) ==
    /\ up = Nodes /\ due = Nodes /\ flying = [n \in Nodes |-> None]
    /\ runs = [n \in Nodes |-> [p \in Protocols |-> IF n \in new THEN "down" ELSE "up"]]
    /\ since = [n \in Nodes |-> [p \in Protocols |-> IF n \in new THEN Window ELSE 0]]
    /\ beat = [n \in Nodes |-> 0] /\ report = runs /\ advertised = [n \in Nodes |-> Protocols]
    /\ enabled = Each(TRUE) /\ applied = [n \in Nodes |-> [p \in Protocols |-> n \notin new]]
    /\ status = [n \in Nodes |-> [p \in Protocols |-> IF n \in new THEN "deploying" ELSE "healthy"]]
    /\ paused = {} /\ placing = NoRequest /\ leased = {} /\ events = Cardinality(new)
Init == Start({}) \/ Start({CHOOSE n \in Nodes : TRUE})

Event == events < MaxEvents /\ events' = events + 1

-----------------------------------------------------------------------------
(* What the Controller makes of a node                                         *)

(* A slip: a node counts however long it has been silent.                      *)
AnyAge(n) == beat[n] <= Window + 1
Fresh(n) == beat[n] < Window

Listens(n, p) == report[n][p] = "up"         \* active and listening

(* selectVpnServices                                                           *)
Select(p, includePaused) ==
    {n \in Nodes : /\ enabled[n][p] /\ status[n][p] = "healthy" /\ p \in advertised[n]
                   /\ (n \in paused => includePaused)
                   /\ Fresh(n) /\ Listens(n, p)}

(* nativeNodes: the list that the apps choose from.                            *)
NativeNodes(p) == Select(p, FALSE)

(* GET /api/v1/availability, a node and protocol that the portal offers.       *)
(* A slip: the portal goes on offering paused nodes.                           *)
AvailableThough(p) == {n \in Nodes : Fresh(n) /\ enabled[n][p] /\ status[n][p] = "healthy" /\ p \in advertised[n] /\ Listens(n, p)}
Available(p) ==
    LET online == {n \in Nodes \ paused : Fresh(n)}
        healthy == {n \in online : enabled[n][p] /\ status[n][p] = "healthy"}
    IN {n \in healthy : p \in advertised[n] /\ Listens(n, p)}

(* protocolAssessment, while the Agent says of every protocol what it sees.    *)
Assessment(n, p) ==
    CASE status[n][p] = "deploying" -> "provisioning"
      [] status[n][p] # "deploying" /\ ~enabled[n][p] -> "not_configured"
      [] status[n][p] = "unsupported" -> "unavailable"
      [] status[n][p] = "attention" -> "attention"
      [] status[n][p] = "healthy" /\ enabled[n][p] ->
            CASE report[n][p] = "absent" -> "unavailable"
              [] report[n][p] = "up" -> "healthy"
              [] OTHER -> "attention"

(* getNodeConnectivity: the state of the whole node.                           *)
Configured(n) == {Assessment(n, p) : p \in {q \in Protocols : enabled[n][q]}}
(* A slip: one healthy protocol makes the node healthy.                        *)
OneIsEnough(n) == IF beat[n] > Window THEN "attention" ELSE IF "healthy" \in Configured(n) THEN "healthy" ELSE "attention"
Overall(n) ==
    IF beat[n] > Window \/ Configured(n) \cap {"attention", "unavailable"} # {} THEN "attention"
    ELSE IF "provisioning" \in Configured(n) THEN "provisioning"
    ELSE IF "healthy" \in Configured(n) THEN "healthy" ELSE "not_configured"

-----------------------------------------------------------------------------
(* The machines and their Agents                                               *)

(* The count starts again when the service serves again.                       *)
Counted(ups, is) == [n \in Nodes |-> [p \in Protocols |-> IF n \in ups /\ is[n][p] = "up" THEN 0 ELSE since[n][p]]]
Machines(ups, is) == up' = ups /\ runs' = is /\ since' = Counted(ups, is)
Unseen == UNCHANGED <<rows, placing, leased>>

ServiceChanges(n, p, s) == /\ Event /\ runs[n][p] # s /\ Machines(up, [runs EXCEPT ![n][p] = s])
                           /\ Unseen /\ UNCHANGED wire
(* What had been sent is not taken back.                                       *)
Stops(n) == /\ Event /\ n \in up /\ Machines(up \ {n}, runs) /\ due' = due \ {n}
            /\ Unseen /\ UNCHANGED flying
Starts(n) == /\ Event /\ n \notin up /\ Machines(up \cup {n}, runs) /\ due' = due \cup {n}
             /\ Unseen /\ UNCHANGED flying

(* connectivity_snapshot: one look at every protocol.                          *)
Beats(n) == /\ n \in due /\ due' = due \ {n} /\ flying' = [flying EXCEPT ![n] = runs[n]]
            /\ Unseen /\ UNCHANGED <<machine, events>>
BeatIsLost(n) == /\ Event /\ flying[n] # None /\ flying' = [flying EXCEPT ![n] = None]
                 /\ Unseen /\ UNCHANGED <<machine, due>>

(* A request lasts less than a beat: it times out after 15 seconds.            *)
Tick == /\ due = {} /\ \A n \in Nodes : flying[n] = None
        /\ placing = NoRequest /\ due' = up
        /\ beat' = [n \in Nodes |-> IF beat[n] > Window THEN beat[n] ELSE beat[n] + 1]
        /\ since' = [n \in Nodes |-> [p \in Protocols |->
              IF Serves(n, p) THEN 0 ELSE IF since[n][p] = Window THEN Window ELSE since[n][p] + 1]]
        /\ UNCHANGED <<up, runs, flying, report, advertised, enabled, status, applied, paused, placing, leased, events>>

-----------------------------------------------------------------------------
(* The heartbeat arrives                                                       *)

(* syncNodeProtocols: a protocol is enabled if the Agent says it can run it.   *)
CanRun(snap) == {p \in Protocols : snap[p] # "absent"}

(* reconcileEnabledVpnServices: services that wait for the Agent are deployed, *)
(* and one that needed attention is healthy again once the Agent has applied   *)
(* the current revision and the service is seen to listen.                     *)
(* A slip: a service that needed attention is never looked at again.           *)
StaysUnwell(n, p, snap) ==
    IF status[n][p] = "unsupported" /\ p \in CanRun(snap) THEN "deploying" ELSE status[n][p]
Moved(n, p, snap) ==
    CASE status[n][p] = "unsupported" /\ p \in CanRun(snap) -> "deploying"
      [] status[n][p] = "attention" /\ applied[n][p] /\ snap[p] = "up" -> "healthy"
      [] OTHER -> status[n][p]

(* recordAgentHeartbeat and what the handler does after it. A rebuild that     *)
(* fails leaves the service with "attention".                                  *)
Arrives(n, failed) ==
    /\ flying[n] # None /\ flying' = [flying EXCEPT ![n] = None]
    /\ beat' = [beat EXCEPT ![n] = 0] /\ report' = [report EXCEPT ![n] = flying[n]]
    /\ advertised' = [advertised EXCEPT ![n] = CanRun(flying[n])]
    /\ status' = [status EXCEPT ![n] = [p \in Protocols |-> IF p \in failed THEN "attention" ELSE Moved(n, p, flying[n])]]
    /\ applied' = [applied EXCEPT ![n] = [p \in Protocols |-> IF Moved(n, p, flying[n]) = "deploying" THEN FALSE ELSE @[p]]]
    /\ UNCHANGED <<machine, due, enabled, paused, placing, leased>>
Heartbeat(n) == Arrives(n, {}) /\ UNCHANGED events
RebuildFails(n) == /\ Event
                   /\ \E p \in Protocols : enabled[n][p] /\ status[n][p] \in {"healthy", "attention"} /\ Arrives(n, {p})

-----------------------------------------------------------------------------
(* Deployments, and the operator                                               *)

Row(n, p, on, s, done) == /\ enabled' = [enabled EXCEPT ![n][p] = on] /\ status' = [status EXCEPT ![n][p] = s]
                          /\ applied' = [applied EXCEPT ![n][p] = done]
                          /\ UNCHANGED <<wire, beat, report, advertised, paused, placing, leased>>

(* The Agent's task ends; it starts the service and looks whether it runs.     *)
Deployed(n, p) == /\ n \in up /\ status[n][p] = "deploying" /\ runs[n][p] # "absent"
                  /\ Row(n, p, TRUE, "healthy", TRUE) /\ Machines(up, [runs EXCEPT ![n][p] = "up"]) /\ UNCHANGED events
DeploymentFails(n, p) == /\ Event /\ n \in up /\ status[n][p] = "deploying"
                         /\ Row(n, p, TRUE, "attention", FALSE) /\ UNCHANGED machine

SwitchOn(n, p) == /\ Event /\ p \in advertised[n] /\ status[n][p] \in {"disabled", "attention"}
                  /\ Row(n, p, TRUE, "deploying", FALSE) /\ UNCHANGED machine
SwitchOff(n, p) == /\ Event /\ enabled[n][p]
                   /\ Row(n, p, FALSE, "disabled", FALSE) /\ UNCHANGED machine
(* A rollout found that the Agent cannot run it (ensureStandardVpnServices).   *)
CannotRun(n, p) == /\ Event /\ enabled[n][p] /\ p \notin advertised[n] /\ status[n][p] # "unsupported"
                   /\ Row(n, p, TRUE, "unsupported", FALSE) /\ UNCHANGED machine

PauseOrResume(n) == /\ Event /\ paused' = IF n \in paused THEN paused \ {n} ELSE paused \cup {n}
                    /\ UNCHANGED <<machine, wire, beat, report, advertised, enabled, status, applied, placing, leased>>

-----------------------------------------------------------------------------
(* Requests: the candidates are read once, the profiles are written one by one *)

Request(p, todo) == /\ Event /\ placing = NoRequest /\ todo # {} /\ placing' = [p |-> p, todo |-> todo, got |-> {}]
                    /\ UNCHANGED <<machine, wire, rows, leased>>

(* issueRegionalConnectionProfiles: every candidate, or the first of them.     *)
Ask(p) == \E first \in Select(p, FALSE) : Request(p, IF p \in Regional THEN Select(p, FALSE) ELSE {first})

(* nativeConnect: a paused node only for a device that has a lease there.      *)
Connectable(p) == {n \in Select(p, TRUE) : n \in paused => n \in leased}
Connect(n, p) == p \in Regional /\ n \in Connectable(p) /\ Request(p, {n})

Issue(n) == /\ n \in placing.todo /\ placing' = [placing EXCEPT !.todo = @ \ {n}, !.got = @ \cup {n}]
            /\ leased' = IF placing.p \in Regional THEN leased \cup {n} ELSE leased
            /\ UNCHANGED <<machine, wire, rows, events>>
(* profile.issue.skipped: the others go on.                                    *)
Skip(n) == /\ Event /\ n \in placing.todo /\ placing' = [placing EXCEPT !.todo = @ \ {n}]
           /\ UNCHANGED <<machine, wire, rows, leased>>
Reply == /\ placing # NoRequest /\ placing.todo = {} /\ placing' = NoRequest
         /\ UNCHANGED <<machine, wire, rows, leased, events>>

Next ==
    \/ Tick \/ Reply
    \/ \E n \in Nodes :
          \/ Stops(n) \/ Starts(n) \/ Beats(n) \/ BeatIsLost(n) \/ Heartbeat(n) \/ RebuildFails(n)
          \/ PauseOrResume(n) \/ Issue(n) \/ Skip(n)
          \/ \E p \in Protocols :
                \/ Deployed(n, p) \/ DeploymentFails(n, p) \/ SwitchOn(n, p) \/ SwitchOff(n, p)
                \/ CannotRun(n, p) \/ Connect(n, p)
                \/ \E s \in {"absent", "down", "deaf", "up"} : ServiceChanges(n, p, s)
    \/ \E p \in Protocols : Ask(p)

(* Time passes, Agents beat, answers come, and Agents finish their tasks.      *)
Fairness == /\ WF_vars(Tick \/ Reply \/ \E n \in Nodes : Beats(n) \/ Heartbeat(n) \/ Issue(n))
            /\ \A n \in Nodes, p \in Protocols : SF_vars(Deployed(n, p))

Spec == Init /\ [][Next]_vars /\ Fairness

-----------------------------------------------------------------------------
(* Properties                                                                  *)

(* Nobody gets a profile or a lease on a node where the protocol has not been  *)
(* served for 90 seconds or more, whatever the row says and however many       *)
(* heartbeats were lost (selectVpnServices, nativeConnect).                    *)
PlacingServed == \A n \in placing'.got \ placing.got : since[n][placing'.p] < Window
PlacedWhereServed == [][PlacingServed]_vars

(* The pieces of code that decide from the same rows agree: what the portal    *)
(* offers is what a request is given, apps can connect to every node on their  *)
(* list, and Console shows nothing as unwell that is offered.                  *)
OffersAgree == \A p \in Protocols : /\ Available(p) = Select(p, FALSE) /\ NativeNodes(p) \subseteq Connectable(p)
                                    /\ \A n \in Select(p, TRUE) : Assessment(n, p) = "healthy"

(* A node shown as healthy has served every protocol that is switched on       *)
(* within the last 90 seconds (getNodeConnectivity).                           *)
GreenMeansServing == \A n \in Nodes : Overall(n) = "healthy" =>
    \A p \in Protocols : enabled[n][p] => since[n][p] <= Window - 1 \/ beat[n] = Window

(* A service that runs on a node that is up and not paused, switched on and    *)
(* applied, is offered again and again: nothing that went wrong before and is  *)
(* mended keeps it away (reconcileEnabledVpnServices).                         *)
ComesBack == []<>(\A n \in Nodes \ paused, p \in Protocols :
                     Serves(n, p) /\ enabled[n][p] /\ applied[n][p] => n \in Select(p, FALSE))
===============================================================================

--------------------------- MODULE NodeOperations ---------------------------
(***************************************************************************)
(* Adding, installing, repairing and deleting nodes: server/bootstrap.ts,  *)
(* server/node-join.ts, the node and node_actions tables of server/db.ts,  *)
(* and the routes of app/api/nodes.                                        *)
(*                                                                         *)
(* An action is a row of node_actions; a job is the promise that works on  *)
(* it and dies with the Controller.  A server is a machine; its identity   *)
(* file and its SSH host key stand for the machine itself.  An address is  *)
(* an endpoint an operator types, and may come to lead to another machine. *)
(* What an upgrade does on the node is module AgentUpgrade; here every     *)
(* remote command either works, fails, or loses its connection.            *)
(***************************************************************************)
EXTENDS Naturals, Sequences, FiniteSets, TLC

CONSTANTS
    Nodes,              \* ids of node rows
    Addresses,          \* public endpoints
    Servers,            \* machines
    Leads,              \* where the addresses lead at first
    None,
    MaxRemote,          \* maximumConcurrentRemoteActions
    MaxActions,         \* bound: rows of node_actions
    MaxTokens,          \* bound: Agent tokens made
    MaxBeats,           \* bound: heartbeat requests at work at once
    MaxEvents           \* bound: faults and operator changes

OperationsAssumption ==
    /\ MaxRemote \in Nat \ {0} /\ MaxActions \in Nat /\ MaxTokens \in Nat /\ MaxBeats \in Nat /\ MaxEvents \in Nat
    /\ None \notin Nodes \cup Addresses \cup Servers
    /\ Leads \in [Addresses -> Servers]

VARIABLES
    leads,      \* the machine an address leads to
    row,        \* node rows: address, identity, stored SSH credential, Agent token
    install,    \* node_join_tokens: nodes with an unused install command
    deleting,   \* DELETE requests between the busy check and the statement
    action,     \* node_actions
    job,        \* live jobs
    queue,      \* remoteActionQueue
    machine,    \* config.env of a machine and whether its Agent runs
    piped,      \* install scripts that run on a machine (curl | sh)
    beats,      \* heartbeat requests whose token was checked and that are not recorded yet
    made,       \* number of actions so far
    tokens,     \* number of Agent tokens so far
    events

vars == <<leads, row, install, deleting, action, job, queue, machine, piped, beats, made, tokens, events>>

Ids == 1..MaxActions
NoRow == [address |-> None, identity |-> None, credential |-> "none", token |-> 0, new |-> FALSE]
NoJob == [at |-> "none", node |-> None, kind |-> None, forget |-> FALSE,
          address |-> None, identity |-> None, token |-> 0, heard |-> 0, overlap |-> FALSE]

Init ==
    /\ leads = Leads
    /\ row = [n \in Nodes |-> [NoRow EXCEPT !.new = TRUE]]
    /\ install = {} /\ deleting = {}
    /\ action = << >> /\ job = [i \in Ids |-> NoJob] /\ queue = << >>
    /\ machine = [s \in Servers |-> [node |-> None, token |-> 0, up |-> FALSE]]
    /\ piped = {} /\ beats = {} /\ made = 0 /\ tokens = 0 /\ events = 0

Event == events < MaxEvents /\ events' = events + 1
Exists(n) == row[n].address # None

(***************************************************************************)
(* Actions and their leases.                                               *)
(***************************************************************************)
Active(a) == a.status \in {"queued", "running"}

Busy(n) == \E i \in 1..Len(action) : action[i].node = n /\ Active(action[i])

(* A live job renews its lease every 30 s, from the moment it is queued. *)
NeverRenews(i) == FALSE
Renews(i) == job[i].at # "none"

ExpiredRunning(i) == action[i].status = "running" /\ ~Renews(i)
Expired(i) == Active(action[i]) /\ ~Renews(i)

(* recoverExpiredNodeActions: 5 minutes without a renewal, seen by the first statement of the *)
(* next request that asks for the node's actions.                                             *)
Recover(n) ==
    /\ action' = [i \in 1..Len(action) |->
                     IF action[i].node = n /\ Expired(i)
                     THEN [action[i] EXCEPT !.status = "failed"] ELSE action[i]]
    /\ action' # action
    /\ UNCHANGED <<leads, row, install, deleting, job, queue, machine, piped, beats, made, tokens, events>>

(* addNodeAction: refused while the node has an active one (node_actions_one_active_idx). *)
AddAction(n, kind, status) ==
    /\ made < MaxActions /\ made' = made + 1 /\ ~Busy(n)
    /\ action' = Append(action, [node |-> n, kind |-> kind, status |-> status])

Becomes(i, status) == action' = IF action[i].status = "gone" THEN action ELSE [action EXCEPT ![i].status = status]

(* enqueueRemoteAction *)
Enqueue(n, kind, forget) ==
    /\ job' = [job EXCEPT ![Len(action) + 1] = [NoJob EXCEPT !.at = "queued", !.node = n, !.kind = kind, !.forget = forget]]
    /\ queue' = Append(queue, Len(action) + 1)

Working(i) == job[i].at \notin {"none", "queued"} /\ job[i].kind # "join"

(***************************************************************************)
(* The routes.                                                             *)
(***************************************************************************)
(* identityConflict: one record per machine and per endpoint. *)
Conflict(s, address, self) ==
    \E n \in Nodes \ {self} : Exists(n) /\ (row[n].identity = s \/ row[n].address = address)

(* POST /api/nodes over SSH: discover, insert (one transaction), queue the bootstrap. *)
AddNode(n, address, forget) ==
    /\ row[n].new /\ ~Conflict(leads[address], address, n)
    /\ row' = [row EXCEPT ![n] = [address |-> address, identity |-> leads[address], credential |-> "ssh",
                                  token |-> 0, new |-> FALSE]]
    /\ AddAction(n, "bootstrap", "queued") /\ Enqueue(n, "bootstrap", forget)
    /\ UNCHANGED <<leads, install, deleting, machine, piped, beats, tokens, events>>

(* POST /api/nodes with method "command": the identity comes later, from the Agent. *)
AddByCommand(n, address) ==
    /\ row[n].new
    /\ row' = [row EXCEPT ![n] = [NoRow EXCEPT !.address = address]]
    /\ install' = install \cup {n}
    /\ UNCHANGED <<leads, deleting, action, job, queue, machine, piped, beats, made, tokens, events>>

(* Node details, install command: replaces the unused one. *)
InstallCommand(n) ==
    /\ Exists(n) /\ n \notin install /\ Event /\ install' = install \cup {n}
    /\ UNCHANGED <<leads, row, deleting, action, job, queue, machine, piped, beats, made, tokens>>

(* POST of one node, of its actions, and of the batch: bootstrap, restart or upgrade, status. *)
QueueAction(n, kind) ==
    /\ Exists(n) /\ AddAction(n, kind, "queued") /\ Enqueue(n, kind, FALSE)
    /\ UNCHANGED <<leads, row, install, deleting, machine, piped, beats, tokens, events>>

ClearCredential(n) ==
    /\ Exists(n) /\ row[n].credential # "none" /\ Event
    /\ row' = [row EXCEPT ![n].credential = "none"]
    /\ UNCHANGED <<leads, install, deleting, action, job, queue, machine, piped, beats, made, tokens>>

(* PATCH: another address, perhaps with a credential. *)
EditNode(n, address, credential) ==
    /\ Exists(n) /\ row[n].address # address /\ Event
    /\ ~\E other \in Nodes \ {n} : row[other].address = address
    /\ row' = [row EXCEPT ![n].address = address,
                          ![n].credential = IF credential THEN "ssh" ELSE row[n].credential]
    /\ UNCHANGED <<leads, install, deleting, action, job, queue, machine, piped, beats, made, tokens>>

(* DELETE: the busy check, then the statement, which takes the node's rows with it. *)
AskDelete(n) ==
    /\ Exists(n) /\ n \notin deleting /\ Event /\ ~Busy(n)
    /\ deleting' = deleting \cup {n}
    /\ UNCHANGED <<leads, row, install, action, job, queue, machine, piped, beats, made, tokens>>

DeleteNode(n) ==
    /\ n \in deleting /\ deleting' = deleting \ {n}
    /\ row' = [row EXCEPT ![n] = NoRow] /\ install' = install \ {n}
    /\ action' = [i \in 1..Len(action) |->
                     IF action[i].node = n THEN [action[i] EXCEPT !.status = "gone"] ELSE action[i]]
    /\ UNCHANGED <<leads, job, queue, machine, piped, beats, made, tokens, events>>

(***************************************************************************)
(* The queue and the bootstrap.                                            *)
(***************************************************************************)
Job(i, changes) == job' = [job EXCEPT ![i] = changes]
End(i, status) == Job(i, NoJob) /\ Becomes(i, status)
JobOnly == UNCHANGED <<leads, install, deleting, queue, piped, beats, made, events>>

Slots == Cardinality({i \in Ids : Working(i)}) < MaxRemote

(* processRemoteActionQueue, the renew that admits the job, and its first statements. *)
Dequeue ==
    /\ queue # << >> /\ Slots /\ queue' = Tail(queue)
    /\ LET i == Head(queue)
           n == job[i].node
           others == \E k \in 1..Len(action) \ {i} : action[k].node = n /\ Active(action[k])
       IN  \/ /\ ~Active(action[i]) \/ ~Exists(n)
              /\ Job(i, NoJob) /\ UNCHANGED action
           \/ /\ Active(action[i]) /\ Exists(n)
              /\ IF row[n].credential = "none" \/ (job[i].kind = "restart" /\ others)
                 THEN End(i, "failed")
                 ELSE /\ Becomes(i, "running")
                      /\ Job(i, [job[i] EXCEPT !.at = IF job[i].kind = "bootstrap" THEN "discover" ELSE "restart",
                                               !.address = row[n].address, !.identity = row[n].identity])
    /\ UNCHANGED <<leads, row, install, deleting, machine, piped, beats, made, tokens, events>>

(* bindNodeIdentity: the machine found must be the node's own, and nobody else's. *)
AnyMachine(n, s) == TRUE
Binds(n, s) ==
    /\ Exists(n) /\ row[n].identity \in {None, s}
    /\ ~\E other \in Nodes \ {n} : row[other].identity = s

Discover(i) ==
    /\ job[i].at = "discover"
    /\ LET n == job[i].node
           s == leads[job[i].address]
       IN  IF Binds(n, s) /\ tokens < MaxTokens
           THEN /\ row' = [row EXCEPT ![n].identity = s]
                /\ tokens' = tokens + 1
                /\ Job(i, [job[i] EXCEPT !.at = "install", !.address = row[n].address, !.identity = s, !.token = tokens + 1])
                /\ UNCHANGED action
           ELSE End(i, "failed") /\ UNCHANGED <<row, tokens>>
    /\ UNCHANGED machine /\ JobOnly

(* executeRemoteCommand checks the pinned host key before anything runs. *)
Reaches(i) == leads[job[i].address] = job[i].identity

InstallOverSsh(i) ==
    /\ job[i].at = "install"
    /\ IF Reaches(i)
       THEN /\ machine' = [machine EXCEPT ![job[i].identity] = [node |-> job[i].node, token |-> job[i].token, up |-> FALSE]]
            /\ Job(i, [job[i] EXCEPT !.at = "register"]) /\ UNCHANGED action
       ELSE End(i, "failed") /\ UNCHANGED machine
    /\ UNCHANGED <<row, tokens>> /\ JobOnly

(* A heartbeat whose token was checked may be recorded after that token was replaced. *)
OnTheWay(n) == \E b \in beats : b.node = n

(* The new token replaces the old one; heartbeats recorded from here on count. *)
Register(i) ==
    /\ job[i].at = "register"
    /\ row' = IF Exists(job[i].node) THEN [row EXCEPT ![job[i].node].token = job[i].token] ELSE row
    /\ Job(i, [job[i] EXCEPT !.at = "start", !.overlap = OnTheWay(job[i].node)])
    /\ UNCHANGED <<action, machine, tokens>> /\ JobOnly

(* systemctl enable --now runs whatever config.env holds by now. *)
StartOverSsh(i) ==
    /\ job[i].at = "start"
    /\ IF Reaches(i)
       THEN /\ machine' = [machine EXCEPT ![job[i].identity].up = TRUE]
            /\ Job(i, [job[i] EXCEPT !.at = "wait"]) /\ UNCHANGED action
       ELSE End(i, "failed") /\ UNCHANGED machine
    /\ UNCHANGED <<row, tokens>> /\ JobOnly

(* restart-agent, upgrade-agent, status-agent: heartbeats count from before the command. *)
RestartOverSsh(i) ==
    /\ job[i].at = "restart"
    /\ IF job[i].identity # None /\ Reaches(i) /\ machine[job[i].identity].node # None
       THEN /\ machine' = [machine EXCEPT ![job[i].identity].up = TRUE]
            /\ Job(i, [job[i] EXCEPT !.at = "wait"]) /\ UNCHANGED action
       ELSE End(i, "failed") /\ UNCHANGED machine
    /\ UNCHANGED <<row, tokens>> /\ JobOnly

(* A remote command fails or loses its connection, whatever it did so far. *)
CommandFails(i) ==
    /\ job[i].at \in {"discover", "install", "start", "restart"} /\ Event /\ End(i, "failed")
    /\ UNCHANGED <<leads, row, install, deleting, queue, machine, piped, beats, made, tokens>>

(* waitForAgentHeartbeat; a bootstrap asked to forget the credential does it only now. *)
Heard(i) == job[i].heard # 0

HeartbeatCame(i) ==
    /\ job[i].at = "wait" /\ Heard(i)
    /\ row' = IF job[i].forget /\ Exists(job[i].node) THEN [row EXCEPT ![job[i].node].credential = "none"] ELSE row
    /\ Becomes(i, "succeeded")
    /\ Job(i, IF job[i].token = 0 THEN NoJob
              ELSE [NoJob EXCEPT !.token = job[i].token, !.heard = job[i].heard, !.overlap = job[i].overlap])
    /\ UNCHANGED <<machine, tokens>> /\ JobOnly

WaitTimesOut(i) ==
    /\ job[i].at = "wait" /\ ~Heard(i) /\ End(i, "failed")
    /\ UNCHANGED <<row, machine, tokens>> /\ JobOnly

(***************************************************************************)
(* The install command, run on any machine.                                *)
(***************************************************************************)
(* consumeJoinToken and joinScript: the token is registered before the script is sent. *)
Join(n, s) ==
    /\ n \in install /\ tokens < MaxTokens /\ install' = install \ {n}
    /\ tokens' = tokens + 1
    /\ row' = [row EXCEPT ![n].token = tokens + 1]
    /\ piped' = piped \cup {[server |-> s, node |-> n, token |-> tokens + 1]}
    /\ \/ /\ AddAction(n, "join", "running")
          /\ Job(Len(action) + 1, [NoJob EXCEPT !.at = "wait", !.node = n, !.kind = "join", !.token = tokens + 1,
                                              !.overlap = OnTheWay(n)])
       \/ Busy(n) /\ UNCHANGED <<action, job, made>>
    /\ UNCHANGED <<leads, deleting, queue, machine, beats, events>>

(* The script writes the files and starts the Agent, or stops half-way. *)
RunScript(p) ==
    /\ p \in piped /\ piped' = piped \ {p}
    /\ \/ machine' = [machine EXCEPT ![p.server] = [node |-> p.node, token |-> p.token, up |-> TRUE]] /\ UNCHANGED events
       \/ Event /\ UNCHANGED machine
    /\ UNCHANGED <<leads, row, install, deleting, action, job, queue, beats, made, tokens>>

(***************************************************************************)
(* Heartbeats and faults.                                                  *)
(***************************************************************************)
(* authenticateAgent: the token of the row, read when the request comes in. *)
CheckToken(s) ==
    LET n == machine[s].node IN
    /\ machine[s].up /\ n # None /\ Exists(n) /\ machine[s].token = row[n].token
    /\ Cardinality(beats) < MaxBeats
    /\ beats' = beats \cup {[server |-> s, node |-> n, token |-> machine[s].token]}
    /\ UNCHANGED <<leads, row, install, deleting, action, job, queue, machine, piped, made, tokens, events>>

(* recordAgentHeartbeat and adoptNodeIdentity, after the traffic of the request: whatever  *)
(* the row's token is by now, a job that waits takes the time of the record as an answer.   *)
CountsAlways(i) == job[i].at # "none"
Counts(i) == job[i].at \in {"start", "wait", "restart"}
Newest(a, b) == IF a > b THEN a ELSE b

RecordHeartbeat(b) ==
    /\ b \in beats /\ beats' = beats \ {b}
    /\ job' = [i \in Ids |-> IF Exists(b.node) /\ job[i].node = b.node /\ Counts(i)
                            THEN [job[i] EXCEPT !.heard = Newest(@, b.token)] ELSE job[i]]
    /\ row' = IF /\ Exists(b.node) /\ row[b.node].identity = None
                 /\ ~\E other \in Nodes : row[other].identity = b.server
              THEN [row EXCEPT ![b.node].identity = b.server] ELSE row
    /\ UNCHANGED <<leads, install, deleting, action, queue, machine, piped, made, tokens, events>>

(* The machines of two addresses change places. *)
AddressMoves ==
    /\ Event
    /\ \E a, b \in Addresses : a # b /\ leads' = [leads EXCEPT ![a] = leads[b], ![b] = leads[a]]
    /\ UNCHANGED <<row, install, deleting, action, job, queue, machine, piped, beats, made, tokens>>

(* Queue, jobs and requests are memory; the rows and the machines stay. *)
ControllerRestarts ==
    /\ Event /\ job' = [i \in Ids |-> IF job[i].at = "none" THEN job[i] ELSE NoJob]
    /\ queue' = << >> /\ deleting' = {} /\ beats' = {}
    /\ UNCHANGED <<leads, row, install, action, machine, piped, made, tokens>>

JobStep(i) ==
    \/ Discover(i) \/ InstallOverSsh(i) \/ Register(i) \/ StartOverSsh(i) \/ RestartOverSsh(i)
    \/ HeartbeatCame(i) \/ WaitTimesOut(i)

Next ==
    \/ \E n \in Nodes :
          \/ \E a \in Addresses : AddByCommand(n, a) \/ \E yes \in BOOLEAN : AddNode(n, a, yes) \/ EditNode(n, a, yes)
          \/ \E kind \in {"bootstrap", "restart"} : QueueAction(n, kind)
          \/ InstallCommand(n) \/ ClearCredential(n) \/ AskDelete(n) \/ DeleteNode(n) \/ Recover(n)
          \/ \E s \in Servers : Join(n, s)
    \/ Dequeue
    \/ \E i \in Ids : JobStep(i) \/ CommandFails(i)
    \/ \E p \in piped : RunScript(p)
    \/ \E s \in Servers : CheckToken(s)
    \/ \E b \in beats : RecordHeartbeat(b)
    \/ AddressMoves \/ ControllerRestarts

(* The Controller's queue and promises run on, its waits end; the Console looks at a  *)
(* node whose action has gone silent.                                                    *)
Spec ==
    /\ Init /\ [][Next]_vars
    /\ WF_vars(Dequeue \/ \E i \in Ids : JobStep(i))
    /\ WF_vars(\E n \in Nodes : Recover(n))

(***************************************************************************)
(* Properties                                                              *)
(***************************************************************************)
(* db.ts, recoverExpiredNodeActions: "a lease silent for 5 minutes belongs to a dead        *)
(* Controller", so no two jobs ever work on one node, and no more than MaxRemote at all.    *)
OneJobPerNode ==
    /\ \A i, k \in Ids : Working(i) /\ Working(k) /\ job[i].node = job[k].node => i = k
    /\ Cardinality({i \in Ids : Working(i)}) <= MaxRemote

(* bindNodeIdentity and the pinned host key: an SSH install touches only the machine that is *)
(* the node's own, whatever addresses and edits did meanwhile.                              *)
RightMachine ==
    \A i \in Ids : job[i].at \in {"register", "start"} /\ Exists(job[i].node) =>
        /\ row[job[i].node].identity = job[i].identity
        /\ \A other \in Nodes \ {job[i].node} : row[other].identity # job[i].identity

(* waitForAgentHeartbeat: an install that is reported as succeeded was heard with a token at *)
(* least as new as the one it registered, unless a heartbeat of the node was between its      *)
(* token check and its record when that token was registered: the time of a record does not   *)
(* say which token was checked.                                                              *)
SuccessIsHeard ==
    \A i \in 1..Len(action) :
        action[i].status = "succeeded" /\ action[i].kind # "restart" => job[i].heard >= job[i].token \/ job[i].overlap

(* Every action ends, also when the Controller restarts; the node then takes another.        *)
ActionsEnd == \A i \in Ids : (i <= Len(action) /\ Active(action[i])) ~> (i <= Len(action) /\ ~Active(action[i]))

=============================================================================

------------------------------- MODULE AgentDomain -------------------------------
(* The domain nodes reach the Controller through (server/agent-domain.ts) and  *)
(* how Agents move to a new one (adopt_controller_origin in agent.py).  The    *)
(* domain is a row that every heartbeat announces from a copy in memory; an    *)
(* Agent tries what it is told and keeps it in config.env only if it answers;  *)
(* an administrator takes an old domain down once Console shows that every     *)
(* node has left it.                                                           *)
EXTENDS Naturals

CONSTANTS
    Agents,
    Domains,        \* Agent domains, the deployment's own (VEILBIRD_AGENT_ORIGIN) among them
    Own,
    SwitchBreaks,   \* may an Agent restart, or fail to write, between the test and config.env
    MaxMoves        \* bound: saves, outages, restarts, failed writes

DomainAssumption == Own \in Domains /\ SwitchBreaks \in BOOLEAN

VARIABLES
    agent_domain,   \* controller_settings.agent_domain
    memory,         \* agent-domain.ts: the cached domain, "empty" when it has to be read
    reading,        \* a read of the row that waits for the database, "none" otherwise
    save,           \* a request that checked a domain and has not stored it yet, "none" otherwise
    works,          \* the domains that answer over HTTPS
    retired,        \* those that were taken down for good
    agent,          \* each Agent: its CONTROLLER, config.env, and what it is doing
    shown,          \* capabilities.controllerOrigin of each node, as Console shows it
    moves

vars == <<agent_domain, memory, reading, save, works, retired, agent, shown, moves>>
settings == <<agent_domain, memory, reading, save>>
names == <<works, retired>>

Moves == moves < MaxMoves /\ moves' = moves + 1
Sets(a, r) == agent' = [agent EXCEPT ![a] = r]

TypeOK ==
    /\ agent_domain \in Domains /\ memory \in Domains \cup {"empty"}
    /\ reading \in Domains \cup {"none"} /\ save \in Domains \cup {"none"}
    /\ retired \subseteq Domains /\ works \subseteq Domains \ retired
    /\ agent \in [Agents -> [at : {"idle", "asked", "test", "write"}, controller : Domains, file : Domains,
                             told : Domains, waits : BOOLEAN]]
    /\ shown \in [Agents -> Domains]

Init ==
    /\ agent_domain = Own /\ memory = "empty" /\ reading = "none" /\ save = "none"
    /\ works = Domains /\ retired = {}
    /\ agent = [a \in Agents |-> [at |-> "idle", controller |-> Own, file |-> Own, told |-> Own, waits |-> FALSE]]
    /\ shown = [a \in Agents |-> Own] /\ moves = 0

-----------------------------------------------------------------------------
(* The Controller                                                              *)

(* storedDomain: the row is read, and then kept for half a minute.             *)
Read ==
    /\ memory = "empty" /\ reading = "none" /\ reading' = agent_domain
    /\ UNCHANGED <<agent_domain, memory, save, names, agent, shown, moves>>
Keep ==
    /\ reading # "none" /\ memory' = reading /\ reading' = "none"
    /\ UNCHANGED <<agent_domain, save, names, agent, shown, moves>>
Expire ==
    /\ memory # "empty" /\ memory' = "empty"
    /\ UNCHANGED <<agent_domain, reading, save, names, agent, shown, moves>>

(* setAgentDomain: only a domain that answers as this deployment is stored.    *)
Check(d) ==
    /\ Moves /\ save = "none" /\ d # agent_domain /\ d \in works /\ save' = d
    /\ UNCHANGED <<agent_domain, memory, reading, names, agent, shown>>
Store ==
    /\ save # "none" /\ agent_domain' = save /\ memory' = "empty" /\ save' = "none"
    /\ UNCHANGED <<reading, names, agent, shown, moves>>

(* A slip: the old domain is taken down once the new one is stored.            *)
NobodyWaits == {}

(* AgentDomainPanel lists the nodes that do not report the current domain; the *)
(* old one is kept until that list is empty.                                   *)
Waiting == {a \in Agents : shown[a] # agent_domain}
Retire(d) ==
    /\ d # agent_domain /\ d # save /\ d \notin retired /\ Waiting = {}
    /\ retired' = retired \cup {d} /\ works' = works \ {d}
    /\ UNCHANGED <<settings, agent, shown, moves>>

Outage(d) == /\ Moves /\ d \in works /\ works' = works \ {d}
             /\ UNCHANGED <<settings, retired, agent, shown>>
Recover(d) == /\ d \notin works \cup retired /\ works' = works \cup {d}
              /\ UNCHANGED <<settings, retired, agent, shown, moves>>

-----------------------------------------------------------------------------
(* The Agent                                                                   *)

(* heartbeat: the node's capabilities name the domain it uses.                 *)
Beat(a) ==
    /\ agent[a].at = "idle" /\ agent[a].controller \in works
    /\ shown' = [shown EXCEPT ![a] = agent[a].controller]
    /\ Sets(a, [agent[a] EXCEPT !.at = "asked"])
    /\ UNCHANGED <<settings, names, moves>>

(* ... and the answer the domain to use; adopt_controller_origin tries another *)
(* one at most every ten minutes.                                              *)
Answer(a) ==
    /\ agent[a].at = "asked" /\ memory # "empty"
    /\ Sets(a, IF memory = agent[a].controller \/ agent[a].waits THEN [agent[a] EXCEPT !.at = "idle"]
               ELSE [agent[a] EXCEPT !.at = "test", !.told = memory, !.waits = TRUE])
    /\ UNCHANGED <<settings, names, shown, moves>>

(* A heartbeat to the new domain, which already reports it.                    *)
Test(a) ==
    /\ agent[a].at = "test" /\ agent[a].told \in works
    /\ shown' = [shown EXCEPT ![a] = agent[a].told]
    /\ Sets(a, [agent[a] EXCEPT !.at = "write", !.controller = agent[a].told])
    /\ UNCHANGED <<settings, names, moves>>
TestFails(a) ==
    /\ agent[a].at = "test" /\ agent[a].told \notin works
    /\ Sets(a, [agent[a] EXCEPT !.at = "idle"])
    /\ UNCHANGED <<settings, names, shown, moves>>
(* config.env.next replaces config.env.                                        *)
WriteFile(a) ==
    /\ agent[a].at = "write"
    /\ Sets(a, [agent[a] EXCEPT !.at = "idle", !.file = agent[a].controller])
    /\ UNCHANGED <<settings, names, shown, moves>>
WriteFails(a) ==
    /\ Moves /\ SwitchBreaks /\ agent[a].at = "write"
    /\ Sets(a, [agent[a] EXCEPT !.at = "idle", !.controller = agent[a].file])
    /\ UNCHANGED <<settings, names, shown>>

(* A slip: the next try is never made.                                         *)
NoTenMinutes(a) == FALSE /\ UNCHANGED vars
TenMinutes(a) ==
    /\ agent[a].waits /\ agent[a].at \in {"idle", "asked"}
    /\ Sets(a, [agent[a] EXCEPT !.waits = FALSE])
    /\ UNCHANGED <<settings, names, shown, moves>>

(* The Agent starts again from config.env.                                     *)
Restart(a) ==
    /\ Moves /\ (agent[a].at = "write" => SwitchBreaks)
    /\ Sets(a, [agent[a] EXCEPT !.at = "idle", !.controller = agent[a].file, !.waits = FALSE])
    /\ UNCHANGED <<settings, names, shown>>

-----------------------------------------------------------------------------
Next ==
    \/ Read \/ Keep \/ Expire \/ Store
    \/ \E d \in Domains : Check(d)
    \/ \E d \in Domains : Retire(d)
    \/ \E d \in Domains : Outage(d)
    \/ \E d \in Domains : Recover(d)
    \/ \E a \in Agents : Beat(a)
    \/ \E a \in Agents : Answer(a)
    \/ \E a \in Agents : Test(a)
    \/ \E a \in Agents : TestFails(a)
    \/ \E a \in Agents : WriteFile(a)
    \/ \E a \in Agents : WriteFails(a)
    \/ \E a \in Agents : TenMinutes(a)
    \/ \E a \in Agents : Restart(a)

(* Statements return, time passes, Agents go on sending heartbeats (each one   *)
(* is answered and acted on in the end, however often the cache expires).      *)
Fairness ==
    /\ WF_vars(Read \/ Keep) /\ WF_vars(Store) /\ SF_vars(Expire)
    /\ \A a \in Agents : /\ SF_vars(Beat(a)) /\ SF_vars(Answer(a)) /\ SF_vars(TenMinutes(a))
                         /\ WF_vars(Test(a) \/ TestFails(a)) /\ WF_vars(WriteFile(a))
Spec == Init /\ [][Next]_vars /\ Fairness

-----------------------------------------------------------------------------
(* adopt_controller_origin: "a wrong or unreachable domain never strands the   *)
(* node."  What an Agent runs on has not been taken down, nor what it would     *)
(* start from once a switch is over.                                           *)
NeverStranded == \A a \in Agents :
    agent[a].controller \notin retired /\ (agent[a].at # "write" => agent[a].file \notin retired)

(* When the domains that were not taken down answer for good, every Agent ends *)
(* up on the one that is set.                                                  *)
AgentsMove == <>[](agent_domain \in works /\ works = Domains \ retired)
                 => <>[](\A a \in Agents : agent[a].file = agent_domain)
=============================================================================

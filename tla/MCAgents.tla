------------------------------- MODULE MCAgents -------------------------------
(* Instances for TLC: the access of one account; one Agent with two pulls and  *)
(* a port that two consoles check; and two node rows, two machines behind two  *)
(* addresses.  The parts share no state in these models: the initial state     *)
(* picks the one that runs, and leaves the others as they are.                 *)
EXTENDS Agents, Entitlements

CONSTANTS
    Parts,   \* the parts that run
    h1, h2, c1, c2, p1   \* pulls, console requests, a port

MCInit == AccessInit /\ Init /\ No!Init /\ part \in Parts
MCNext ==
    \/ part = "grants" /\ AccessNext /\ UNCHANGED <<part, vars, operationVars>>
    \/ AgentsNext /\ UNCHANGED accessVars
MCSpec == MCInit /\ [][MCNext]_<<part, accessVars, vars, operationVars>>

-----------------------------------------------------------------------------
(* Entitlements: times are runs of the minute job. *)

Plan(days, ends, quota, limit) == [days |-> days, ends |-> ends, quota |-> quota, limit |-> limit]

(* A permanent welcome plan with a quota, as the starter plans have it. *)
WelcomeQuota == Plan(None, None, 1, 1)

(* A metered plan by the day, and an unlimited gift with an end date. *)
AllTerms == {Plan(2, None, 1, 1), Plan(None, 3, None, 2)}

(* Plans by the day, one of them metered. *)
DayPlans == {Plan(2, None, 1, 1), Plan(2, None, None, 2)}

-----------------------------------------------------------------------------
(* Agents. *)

TwoHandlers == {h1, h2}
TwoConsoles == {c1, c2}
OnePort == {p1}

LeadsTo == [a \in {"a1", "a2"} |-> IF a = "a1" THEN "m1" ELSE "m2"]
==============================================================================

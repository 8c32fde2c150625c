-------------------------------- MODULE Agents --------------------------------
(* The Agent's line to the Controller (the module this one extends) and what   *)
(* the console does to a node over SSH, side by side: they share no state in   *)
(* these models. The initial state picks the part that runs, and leaves the    *)
(* other part as it is.                                                        *)
EXTENDS AgentLine

CONSTANTS   \* those of NodeOperations
    Nodes, Addresses, Servers, Leads, Nothing, MaxRemote, MaxActions, MaxTokens, MaxBeats, MaxOperatorEvents

VARIABLES
    part,   \* the part that runs
    \* the variables of NodeOperations:
    leads, row, install, deleting, action, job, queue, machine, piped, beats, made, tokens, operatorEvents

operationVars == <<leads, row, install, deleting, action, job, queue, machine, piped, beats, made, tokens, operatorEvents>>

No == INSTANCE NodeOperations WITH None <- Nothing, MaxEvents <- MaxOperatorEvents, events <- operatorEvents

AgentsInit == Init /\ No!Init /\ part \in {"line", "operations"}

AgentsNext ==
    /\ UNCHANGED part
    /\ \/ part = "line" /\ Next /\ UNCHANGED operationVars
       \/ part = "operations" /\ No!Next /\ UNCHANGED vars

AgentsSpec == AgentsInit /\ [][AgentsNext]_<<part, vars, operationVars>>

ASSUME Assumption == No!OperationsAssumption

-----------------------------------------------------------------------------
(* Properties: those of the two modules, which the other part never steps,     *)
(* are taken as they are.                                                      *)

(* NodeOperations: an install touches only the machine that is the node's own. *)
RightMachine == No!RightMachine

(* NodeOperations: success was heard with the new token, unless a heartbeat was *)
(* on its way when it was registered.                                          *)
SuccessIsHeard == No!SuccessIsHeard
==============================================================================

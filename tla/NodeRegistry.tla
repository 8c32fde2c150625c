----------------------------- MODULE NodeRegistry -----------------------------
(* Which machine a node row stands for (server/db.ts): adding a node, binding  *)
(* it to the machine a deployment found behind its address, editing it, the    *)
(* identity an Agent reports, and the regions nodes belong to.                 *)
(*                                                                             *)
(* A machine has an identity of its own and an SSH host key; a cloned image    *)
(* shares the host key.  Two operations are kept apart by advisory locks on    *)
(* the identity, the host key and the address, and by row locks that           *)
(* SELECT ... FOR UPDATE takes one row at a time and PostgreSQL breaks when    *)
(* two transactions wait for each other.                                       *)
EXTENDS Naturals, FiniteSets

CONSTANTS
    Nodes, Machines, Endpoints, Regions,
    Names,        \* what a region may be called
    KeyOf,        \* the SSH host key of each machine
    At,           \* the machine behind each address
    Known,        \* the nodes at the start, added by command: node -> address or None
    Ops,          \* requests in flight
    MaxStarts,    \* bound: requests altogether
    None

RegistryAssumption ==
    /\ At \in [Endpoints -> Machines]
    /\ DOMAIN KeyOf = Machines
    /\ None \notin Nodes \cup Machines \cup Ops \cup {KeyOf[m] : m \in Machines}
    /\ Known \in [Nodes -> Endpoints \cup {None}]
    /\ \A n, k \in Nodes : n # k /\ Known[n] # None /\ Known[k] # None => At[Known[n]] # At[Known[k]]
    /\ MaxStarts \in Nat

VARIABLES
    row,        \* nodes: [there, endpoint, machine, key, region, place], and whether its
                \* host key was written back by a request that had read it before
    region,     \* regions: the name, or None
    op,         \* what each request is doing
    advisory,   \* advisory locks: <<kind, value>> -> holder
    locked,     \* row locks: node -> holder
    starts      \* requests so far

vars == <<row, region, op, advisory, locked, starts>>

Gone == [there |-> FALSE, endpoint |-> None, machine |-> None, key |-> None, region |-> None, place |-> None,
         restored |-> FALSE]
Idle == [at |-> "idle", what |-> "none", node |-> None, endpoint |-> None, machine |-> None,
         key |-> None, region |-> None, place |-> None]

Signals(m) == {<<"key", KeyOf[m]>>, <<"machine", m>>}
LockNames == {<<"endpoint", e>> : e \in Endpoints} \cup UNION {Signals(m) : m \in Machines}

Init ==
    /\ region \in [Regions -> Names]
    /\ \A r, q \in Regions : r # q => region[r] # region[q]
    /\ \E r \in Regions, adopted \in BOOLEAN :
          row = [n \in Nodes |-> IF Known[n] = None THEN Gone
                 ELSE [Gone EXCEPT !.there = TRUE, !.endpoint = Known[n], !.region = r, !.place = region[r],
                                   !.machine = IF adopted THEN At[Known[n]] ELSE None]]
    /\ op = [o \in Ops |-> Idle]
    /\ advisory = [l \in LockNames |-> None]
    /\ locked = [n \in Nodes |-> None]
    /\ starts = 0

TypeOK ==
    /\ \A n \in Nodes : row[n].endpoint \in Endpoints \cup {None} /\ row[n].machine \in Machines \cup {None}
    /\ region \in [Regions -> Names \cup {None}]
    /\ advisory \in [LockNames -> Ops \cup {None}]
    /\ locked \in [Nodes -> Ops \cup {None}]
    /\ starts \in 0 .. MaxStarts

-----------------------------------------------------------------------------
(* Requests: what each reads before its transaction starts.                    *)

CanStart(o, what) ==
    /\ op[o].at = "idle" /\ starts < MaxStarts
    /\ starts' = starts + 1

Begun(o, request) == op' = [op EXCEPT ![o] = request]

(* POST /api/nodes: the region is looked up, the machine behind the address is *)
(* asked for its identity and host key over SSH; a node added by command is    *)
(* inserted without either.                                                    *)
Add(o) ==
    /\ CanStart(o, "add")
    /\ \E n \in Nodes, e \in Endpoints, r \in Regions, ssh \in BOOLEAN :
          /\ ~row[n].there /\ region[r] # None
          /\ \A p \in Ops : op[p].node # n
          /\ Begun(o, [what |-> "add", node |-> n, endpoint |-> e, region |-> r, place |-> region[r],
                       machine |-> IF ssh THEN At[e] ELSE None, key |-> IF ssh THEN KeyOf[At[e]] ELSE None,
                       at |-> IF ssh THEN "endpoint" ELSE "write"])
    /\ UNCHANGED <<row, region, advisory, locked>>

(* bootstrapNode: the machine behind the node's address is discovered, then    *)
(* bindNodeIdentity starts.                                                    *)
Deploy(o) ==
    /\ CanStart(o, "bind")
    /\ \E n \in Nodes :
          /\ row[n].there
          /\ LET m == At[row[n].endpoint]
             IN Begun(o, [Idle EXCEPT !.what = "bind", !.node = n, !.machine = m, !.key = KeyOf[m], !.at = "key"])
    /\ UNCHANGED <<row, region, advisory, locked>>

(* PATCH /api/nodes/:id: the host key it writes back is the one it read here.  *)
Edit(o) ==
    /\ CanStart(o, "edit")
    /\ \E n \in Nodes, e \in Endpoints, r \in Regions :
          /\ row[n].there /\ region[r] # None
          /\ Begun(o, [what |-> "edit", node |-> n, endpoint |-> e, region |-> r, place |-> region[r],
                       machine |-> None, key |-> row[n].key, at |-> "endpoint"])
    /\ UNCHANGED <<row, region, advisory, locked>>

-----------------------------------------------------------------------------
(* Locks.                                                                      *)

Sends(o) == op[o].at
(* Advisory locks are taken in the order of their names.                       *)
LockFor(o) ==
    CASE Sends(o) = "endpoint" -> <<"endpoint", op[o].endpoint>>
      [] Sends(o) = "key" -> <<"key", op[o].key>>
      [] Sends(o) = "machine" -> <<"machine", op[o].machine>>
AfterLock(o) ==
    CASE Sends(o) = "endpoint" -> IF op[o].what = "add" THEN "key" ELSE "rows"
      [] Sends(o) = "key" -> "machine"
      [] Sends(o) = "machine" -> IF op[o].what = "bind" THEN "own" ELSE "rows"

(* A slip: the host key is not among the locked signals.                       *)
UnlockedKeys(o) ==
    /\ Sends(o) \in {"endpoint", "key", "machine"}
    /\ Sends(o) # "key" => advisory[LockFor(o)] \in {None, o}
    /\ advisory' = [advisory EXCEPT ![LockFor(o)] = IF Sends(o) = "key" THEN @ ELSE o]
    /\ op' = [op EXCEPT ![o].at = AfterLock(o)]
    /\ UNCHANGED <<row, region, locked, starts>>

LockSignal(o) ==
    /\ Sends(o) \in {"endpoint", "key", "machine"}
    /\ advisory[LockFor(o)] \in {None, o}
    /\ advisory' = [advisory EXCEPT ![LockFor(o)] = o]
    /\ op' = [op EXCEPT ![o].at = AfterLock(o)]
    /\ UNCHANGED <<row, region, locked, starts>>

(* The rows a SELECT ... FOR UPDATE of the request reads: bindNodeIdentity its *)
(* own first, then every other row with a signal; insertNode the rows with a   *)
(* signal or the same address; updateNodeConfig the owner of the address.      *)
Candidates(o) ==
    {n \in Nodes : row[n].there /\
        IF Sends(o) = "own" THEN n = op[o].node
        ELSE \/ op[o].what = "bind" /\ n # op[o].node /\ (row[n].machine # None \/ row[n].key # None)
             \/ op[o].what = "add" /\ (row[n].machine # None \/ row[n].key # None \/ row[n].endpoint = op[o].endpoint)
             \/ op[o].what = "edit" /\ n # op[o].node /\ row[n].endpoint = op[o].endpoint}
Wanted(o) == {n \in Candidates(o) : locked[n] # o}

LockRow(o) ==
    /\ Sends(o) \in {"own", "rows"}
    /\ \E n \in Wanted(o) :
          /\ locked[n] = None
          /\ locked' = [locked EXCEPT ![n] = o]
    /\ UNCHANGED <<row, region, op, advisory, starts>>

(* COMMIT or ROLLBACK: every lock goes.                                        *)
EndsAs(o, next) ==
    /\ op' = [op EXCEPT ![o] = next]
    /\ advisory' = [l \in LockNames |-> IF advisory[l] = o THEN None ELSE advisory[l]]
    /\ locked' = [n \in Nodes |-> IF locked[n] = o THEN None ELSE locked[n]]

Ended(o) == EndsAs(o, Idle)

(* Nobody else holds the row: an UPDATE or DELETE of it can go on.             *)
Free(o, n) == locked[n] \in {None, o}

-----------------------------------------------------------------------------
(* Decisions.                                                                  *)

Conflict(o) == \E n \in Candidates(o) : n # op[o].node /\
    \/ op[o].machine # None /\ row[n].machine = op[o].machine
    \/ op[o].key # None /\ op[o].what # "edit" /\ row[n].key = op[o].key
    \/ op[o].endpoint # None /\ row[n].endpoint = op[o].endpoint

(* The unique index on node_identity, which also sees what nobody locked.      *)
Taken(o) == op[o].machine # None /\ \E n \in Nodes \ {op[o].node} : row[n].there /\ row[n].machine = op[o].machine

(* A slip: the stored identity is replaced by whatever answers.                *)
Rebinding(o) ==
    /\ Sends(o) = "own" /\ Wanted(o) = {}
    /\ op' = [op EXCEPT ![o].at = "rows"] /\ UNCHANGED <<advisory, locked>>
    /\ UNCHANGED <<row, region, starts>>

(* bindNodeIdentity reads its own row: deleted, or another machine than the    *)
(* one recorded.                                                               *)
OwnRow(o) ==
    /\ Sends(o) = "own" /\ Wanted(o) = {}
    /\ IF row[op[o].node].there /\ row[op[o].node].machine \in {None, op[o].machine}
       THEN op' = [op EXCEPT ![o].at = "rows"] /\ UNCHANGED <<advisory, locked>>
       ELSE Ended(o)
    /\ UNCHANGED <<row, region, starts>>

Refuse(o) ==
    /\ Sends(o) = "rows" /\ Wanted(o) = {} /\ Conflict(o)
    /\ Ended(o)
    /\ UNCHANGED <<row, region, starts>>

(* No conflict among the rows that were read: the write is the next statement. *)
Clear(o) ==
    /\ Sends(o) = "rows" /\ Wanted(o) = {} /\ ~Conflict(o)
    /\ op' = [op EXCEPT ![o].at = "write"]
    /\ UNCHANGED <<row, region, advisory, locked, starts>>

Insert(o) ==
    /\ op[o].what = "add" /\ Sends(o) = "write"
    /\ row' = IF Taken(o) THEN row
              ELSE [row EXCEPT ![op[o].node] =
                  [there |-> TRUE, endpoint |-> op[o].endpoint, machine |-> op[o].machine, key |-> op[o].key,
                   region |-> op[o].region, place |-> op[o].place, restored |-> FALSE]]
    /\ Ended(o)
    /\ UNCHANGED <<region, starts>>

Bind(o) ==
    /\ op[o].what = "bind" /\ Sends(o) = "write"
    /\ row' = IF Taken(o) THEN row
              ELSE [row EXCEPT ![op[o].node].machine = op[o].machine, ![op[o].node].key = op[o].key,
                               ![op[o].node].restored = FALSE]
    /\ EndsAs(o, IF Taken(o) THEN Idle ELSE [op[o] EXCEPT !.at = "install"])
    /\ UNCHANGED <<region, starts>>

(* The host key a row gets from a request that does not ask for it now.        *)
WritesBack(n, key) == row[n].restored \/ row[n].key # key

(* The Agent is installed, minutes later: the token and the host key of that   *)
(* session are written without looking again; or the installation failed.      *)
Register(o) ==
    /\ Sends(o) = "install" /\ Free(o, op[o].node)
    /\ \/ row' = row
       \/ /\ row[op[o].node].there
          /\ row' = [row EXCEPT ![op[o].node].key = op[o].key,
                                ![op[o].node].restored = WritesBack(op[o].node, op[o].key)]
    /\ Ended(o)
    /\ UNCHANGED <<region, starts>>

Update(o) ==
    /\ op[o].what = "edit" /\ Sends(o) = "write" /\ Free(o, op[o].node)
    /\ row' = IF ~row[op[o].node].there THEN row
              ELSE [row EXCEPT ![op[o].node].endpoint = op[o].endpoint, ![op[o].node].key = op[o].key,
                               ![op[o].node].region = op[o].region, ![op[o].node].place = op[o].place,
                               ![op[o].node].restored = WritesBack(op[o].node, op[o].key)]
    /\ Ended(o)
    /\ UNCHANGED <<region, starts>>

(* PostgreSQL ends one of several transactions that wait for each other.       *)
Waits(o, p) ==
    \/ Sends(o) \in {"own", "rows"} /\ Wanted(o) # {} /\ \A n \in Wanted(o) : locked[n] # None
       /\ \E k \in Wanted(o) : locked[k] = p
    \/ Sends(o) = "write" /\ op[o].what = "edit" /\ locked[op[o].node] = p /\ p # o
    \/ Sends(o) \in {"endpoint", "key", "machine"} /\ advisory[LockFor(o)] = p /\ p # o
Deadlocked(o) == \E S \in SUBSET Ops : o \in S /\ \A p \in S : \E q \in S : Waits(p, q)

Victim(o) ==
    /\ Deadlocked(o)
    /\ Ended(o)
    /\ UNCHANGED <<row, region, starts>>

-----------------------------------------------------------------------------
(* Single statements.                                                          *)

(* adoptNodeIdentity: a node first seen through its Agent records the identity *)
(* the Agent reports, once; an identity another row has is refused.            *)
Adopt(n) ==
    /\ starts < MaxStarts /\ starts' = starts + 1
    /\ row[n].there /\ row[n].machine = None /\ locked[n] = None
    /\ \A k \in Nodes : row[k].machine # At[row[n].endpoint]
    /\ row' = [row EXCEPT ![n].machine = At[row[n].endpoint]]
    /\ UNCHANGED <<region, op, advisory, locked>>

Delete(n) ==
    /\ starts < MaxStarts /\ starts' = starts + 1
    /\ row[n].there /\ locked[n] = None
    /\ row' = [row EXCEPT ![n] = Gone]
    /\ UNCHANGED <<region, op, advisory, locked>>

(* PATCH /api/regions/:id: the region, then the label of every node in it.     *)
Rename(o) ==
    /\ CanStart(o, "rename")
    /\ \E r \in Regions, name \in Names :
          /\ region[r] # None /\ name \notin {region[q] : q \in Regions}
          /\ region' = [region EXCEPT ![r] = name]
          /\ Begun(o, [Idle EXCEPT !.what = "rename", !.region = r, !.place = name, !.at = "relabel"])
    /\ UNCHANGED <<row, advisory, locked>>

Relabel(o) ==
    /\ Sends(o) = "relabel"
    /\ \A n \in Nodes : row[n].there /\ row[n].region = op[o].region => Free(o, n)
    /\ row' = [n \in Nodes |-> IF row[n].there /\ row[n].region = op[o].region
                               THEN [row[n] EXCEPT !.place = op[o].place] ELSE row[n]]
    /\ Ended(o)
    /\ UNCHANGED <<region, starts>>

Next ==
    \/ \E o \in Ops : Add(o) \/ Deploy(o) \/ Edit(o) \/ Rename(o)
    \/ \E o \in Ops : LockSignal(o) \/ LockRow(o) \/ OwnRow(o) \/ Refuse(o) \/ Clear(o) \/ Victim(o)
    \/ \E o \in Ops : Insert(o) \/ Bind(o) \/ Register(o) \/ Update(o) \/ Relabel(o)
    \/ \E n \in Nodes : Adopt(n) \/ Delete(n)

-----------------------------------------------------------------------------
(* Two rows never stand for one machine by its identity, a host key in a row   *)
(* is that of its machine, and two rows share one only where a request wrote   *)
(* back the key that it had read before: an addition and a deployment never    *)
(* record a key that another row has.                                          *)
OneRowPerMachine ==
    /\ \A n \in Nodes : row[n].there /\ row[n].key # None => row[n].machine # None /\ row[n].key = KeyOf[row[n].machine]
    /\ \A n, k \in Nodes : n # k /\ row[n].there /\ row[k].there =>
          /\ row[n].machine # None => row[n].machine # row[k].machine
          /\ row[n].key # None /\ row[n].key = row[k].key => row[n].restored \/ row[k].restored

(* A row keeps the identity it has for as long as it exists: a deployment that *)
(* reaches another machine stops before it installs anything there.            *)
IdentityIsForLife == [][\A n \in Nodes :
    row[n].machine # None /\ row'[n].there => row'[n].machine = row[n].machine]_vars
=============================================================================

------------------------------ MODULE KeyedLock ------------------------------
(***************************************************************************)
(* withKeyedLock (server/reconcile-lock.ts): the map from keys to promises *)
(* that keeps builds of one node and protocol, and deliveries of one       *)
(* subscription, apart. A call is one evaluation of the function, its      *)
(* promise "pending" is named by the call.                                 *)
(***************************************************************************)
CONSTANTS
  Call,    \* the calls, each made at most once
  Key,
  KeyOf,   \* the key each call is made with
  None     \* no entry in the map, a promise that is resolved

ASSUME CallAssumption == None \notin Call
ASSUME KeyAssumption == KeyOf \in [Call -> Key]

VARIABLES
  queues,    \* the map: the promise last registered under a key
  previous,  \* the promise each call found there
  pc,        \* "idle", "waiting", "working", "settled" (the promise), "returned" (the call)
  failed,    \* the calls whose promise is rejected
  ahead      \* history: the unsettled calls with its key that a call found

vars == <<queues, previous, pc, failed, ahead>>

TypeOK ==
  /\ queues \in [Key -> Call \union {None}]
  /\ previous \in [Call -> Call \union {None}]
  /\ pc \in [Call -> {"idle", "waiting", "working", "settled", "returned"}]
  /\ failed \in SUBSET Call
  /\ ahead \in [Call -> SUBSET Call]

-----------------------------------------------------------------------------
Settled(c) == pc[c] \in {"settled", "returned"}
Unsettled(c) == pc[c] \in {"waiting", "working"}

(* A slip in withKeyedLock: an entry that is there is left there. *)
EnterBehindFirst(c) ==
  /\ pc[c] = "idle" /\ pc' = [pc EXCEPT ![c] = "waiting"]
  /\ previous' = [previous EXCEPT ![c] = queues[KeyOf[c]]]
  /\ queues' = IF queues[KeyOf[c]] = None THEN [queues EXCEPT ![KeyOf[c]] = c] ELSE queues
  /\ ahead' = [ahead EXCEPT ![c] = {d \in Call \ {c} : KeyOf[d] = KeyOf[c] /\ Unsettled(d)}]
  /\ UNCHANGED failed

(* From the read of the map to the registration nothing is awaited. *)
Enter(c) ==
  /\ pc[c] = "idle" /\ pc' = [pc EXCEPT ![c] = "waiting"]
  /\ previous' = [previous EXCEPT ![c] = queues[KeyOf[c]]]
  /\ queues' = [queues EXCEPT ![KeyOf[c]] = c]
  /\ ahead' = [ahead EXCEPT ![c] = {d \in Call \ {c} : KeyOf[d] = KeyOf[c] /\ Unsettled(d)}]
  /\ UNCHANGED failed

(* A slip in withKeyedLock: without the catch, a rejected promise skips the work behind it. *)
StartAfterSuccess(c) ==
  /\ pc[c] = "waiting"
  /\ previous[c] # None => Settled(previous[c]) /\ previous[c] \notin failed
  /\ pc' = [pc EXCEPT ![c] = "working"]
  /\ UNCHANGED <<queues, previous, failed, ahead>>

(* The work starts when the promise before is resolved, rejected or absent. *)
Start(c) ==
  /\ pc[c] = "waiting"
  /\ previous[c] # None => Settled(previous[c])
  /\ pc' = [pc EXCEPT ![c] = "working"]
  /\ UNCHANGED <<queues, previous, failed, ahead>>

Settle(c) ==
  /\ pc[c] = "working" /\ pc' = [pc EXCEPT ![c] = "settled"]
  /\ failed' \in {failed, failed \union {c}}
  /\ UNCHANGED <<queues, previous, ahead>>

(* Slips in the finally block: the entry is always deleted, or never. *)
ReturnDeletes(c) ==
  /\ pc[c] = "settled" /\ pc' = [pc EXCEPT ![c] = "returned"]
  /\ queues' = [queues EXCEPT ![KeyOf[c]] = None]
  /\ UNCHANGED <<previous, failed, ahead>>
ReturnLeaves(c) ==
  /\ pc[c] = "settled" /\ pc' = [pc EXCEPT ![c] = "returned"]
  /\ UNCHANGED <<queues, previous, failed, ahead>>

(* The caller resumes; the entry is deleted when it is still the caller's own. *)
Return(c) ==
  /\ pc[c] = "settled" /\ pc' = [pc EXCEPT ![c] = "returned"]
  /\ queues' = IF queues[KeyOf[c]] = c THEN [queues EXCEPT ![KeyOf[c]] = None] ELSE queues
  /\ UNCHANGED <<previous, failed, ahead>>

Init ==
  /\ queues = [k \in Key |-> None]
  /\ previous = [c \in Call |-> None]
  /\ pc = [c \in Call |-> "idle"]
  /\ failed = {} /\ ahead = [c \in Call |-> {}]

Next == \E c \in Call : Enter(c) \/ Start(c) \/ Settle(c) \/ Return(c)

Spec == Init /\ [][Next]_vars

(* The event loop runs what is ready, and the work of a call ends. *)
Fairness == \A c \in Call : WF_vars(Start(c)) /\ WF_vars(Settle(c)) /\ WF_vars(Return(c))

FairSpec == Spec /\ Fairness
-----------------------------------------------------------------------------
(* Properties. *)

(* At most one call with a key works. *)
OneAtATime ==
  \A c, d \in Call : KeyOf[c] = KeyOf[d] /\ pc[c] = "working" /\ pc[d] = "working" => c = d

(* The map names only calls that have not returned: when all have, it is empty. *)
NoEntryLeftBehind ==
  \A k \in Key : queues[k] # None => pc[queues[k]] \notin {"idle", "returned"}

(* Calls with one key are served in the order in which they came, as Turns says. *)
TurnsStage == [c \in Call |-> IF Settled(c) THEN "over" ELSE pc[c]]
T == INSTANCE Turns WITH stage <- TurnsStage
TakesTurns == T!Spec

(* Whatever the work before it does, a call that has come returns. *)
EveryCallReturns == \A c \in Call : pc[c] = "waiting" ~> pc[c] = "returned"
=============================================================================

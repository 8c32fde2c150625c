-------------------------------- MODULE Turns --------------------------------
(***************************************************************************)
(* What a lock by key promises (server/reconcile-lock.ts:1-5, 17): calls   *)
(* with one key take turns, in the order in which they came.               *)
(***************************************************************************)
CONSTANTS
  Call,    \* the calls, each of which comes at most once
  KeyOf    \* the key of each call

VARIABLES
  stage,   \* "idle", "waiting", "working" or "over", for each call
  ahead    \* for a call that has come: the calls with its key that were not over then

vars == <<stage, ahead>>

Over(c) == stage[c] = "over"

Present(c) == {d \in Call \ {c} : KeyOf[d] = KeyOf[c] /\ stage[d] \in {"waiting", "working"}}

Come(c) ==
  /\ stage[c] = "idle" /\ stage' = [stage EXCEPT ![c] = "waiting"]
  /\ ahead' = [ahead EXCEPT ![c] = Present(c)]

Begin(c) ==
  /\ stage[c] = "waiting" /\ \A d \in ahead[c] : Over(d)
  /\ stage' = [stage EXCEPT ![c] = "working"]
  /\ UNCHANGED ahead

End(c) ==
  /\ stage[c] = "working" /\ stage' = [stage EXCEPT ![c] = "over"]
  /\ UNCHANGED ahead

Init == stage = [c \in Call |-> "idle"] /\ ahead = [c \in Call |-> {}]

Next == \E c \in Call : Come(c) \/ Begin(c) \/ End(c)

Spec == Init /\ [][Next]_vars
=============================================================================

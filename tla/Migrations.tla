------------------------------- MODULE Migrations -------------------------------
(* The upgrade of the database (scripts/migrate.mjs), run by every Controller  *)
(* container as it starts: one at a time, each one-time change in a            *)
(* transaction with its record, the baseline before them re-runnable and in no *)
(* transaction, the settings that follow .env after them.                      *)
EXTENDS Naturals, Sequences, FiniteSets

CONSTANTS
    Containers,   \* controller containers that start together
    Accounts,     \* accounts from before plans
    Later,        \* the one-time changes after the baseline: "limits" (004) and others
    MaxCrashes    \* bound: a container stops in the middle

MigrationAssumption ==
    /\ Later \in Seq({Later[i] : i \in DOMAIN Later}) /\ "limits" \in {Later[i] : i \in DOMAIN Later}
    /\ "nobody" \notin Containers /\ MaxCrashes \in Nat

VARIABLES
    recorded,   \* schema_migrations: how many of <<"001-baseline">> \o Later are applied
    effects,    \* how often each later change took effect
    schema,     \* is the current schema there (to_regclass('access_grants'))
    granted,    \* old accounts with a permanent grant
    creds,      \* old accounts whose devices were given credentials, and when: "once" or "again"
    limit,      \* the device limit of a plan: "default" before 004 and when left empty, "three", "unlimited"
    chosen,     \* what the operator last chose for it in Console
    owner,      \* the owner account of .env: "none", "bare" (without a grant), "granted"
    lock,       \* the advisory lock veilbird:migrate
    run,        \* each container: [at, next, first]
    crashes

vars == <<recorded, effects, schema, granted, creds, limit, chosen, owner, lock, run, crashes>>
data == <<effects, schema, granted, creds, limit, chosen, owner>>

Nobody == "nobody"
Idle == [at |-> "off", next |-> 1, first |-> FALSE]
Last == Len(Later) + 1
Goes(c, at) == run' = [run EXCEPT ![c].at = at]

TypeOK ==
    /\ recorded \in 0 .. Last
    /\ effects \in [1 .. Len(Later) -> Nat]
    /\ granted \subseteq Accounts /\ creds \subseteq Accounts
    /\ limit \in {"empty", "three", "unlimited"} /\ chosen \in {"nothing", "three", "unlimited"}
    /\ owner \in {"none", "bare", "granted"}
    /\ lock \in Containers \cup {Nobody}
    /\ \A c \in Containers : run[c].at \in {"off", "look", "schema", "grants", "record", "later", "grant", "up"}

(* A deployment from before plans.                                             *)
Init ==
    /\ recorded = 0
    /\ effects = [i \in 1 .. Len(Later) |-> 0]
    /\ schema = FALSE
    /\ granted = {} /\ creds = {}
    /\ limit = "empty" /\ chosen = "nothing"
    /\ owner = "none"
    /\ lock = Nobody
    /\ run = [c \in Containers |-> Idle]
    /\ crashes = 0

-----------------------------------------------------------------------------
(* The lock, then the list of what is applied.                                 *)

(* A slip: two containers migrate at once.                                     *)
NoLock(c) ==
    /\ run[c].at = "off"
    /\ run' = [run EXCEPT ![c] = [at |-> IF recorded = 0 THEN "look" ELSE "later", next |-> recorded + 1, first |-> FALSE]]
    /\ UNCHANGED <<recorded, data, lock, crashes>>

Begin(c) ==
    /\ run[c].at = "off" /\ lock = Nobody
    /\ lock' = c
    /\ run' = [run EXCEPT ![c] = [at |-> IF recorded = 0 THEN "look" ELSE "later", next |-> recorded + 1, first |-> FALSE]]
    /\ UNCHANGED <<recorded, data, crashes>>

(* baseline: is this the release that brings grants?                           *)
Look(c) ==
    /\ run[c].at = "look"
    /\ run' = [run EXCEPT ![c].at = "schema", ![c].first = ~schema]
    /\ UNCHANGED <<recorded, data, lock, crashes>>

(* One statement string, so one implicit transaction: tables, and credentials  *)
(* for the devices that have none.                                             *)
Schema(c) ==
    /\ run[c].at = "schema"
    /\ schema' = TRUE /\ creds' = Accounts
    /\ Goes(c, "grants")
    /\ UNCHANGED <<recorded, effects, granted, limit, chosen, owner, lock, crashes>>

Grants(c) ==
    /\ run[c].at = "grants"
    /\ granted' = IF run[c].first THEN Accounts ELSE granted
    /\ Goes(c, "record")
    /\ UNCHANGED <<recorded, effects, schema, creds, limit, chosen, owner, lock, crashes>>

Record(c) ==
    /\ run[c].at = "record"
    /\ recorded' = 1
    /\ run' = [run EXCEPT ![c].at = "later", ![c].next = 2]
    /\ UNCHANGED <<data, lock, crashes>>

Effect(i) ==
    /\ effects' = [effects EXCEPT ![i] = @ + 1]
    /\ limit' = IF Later[i] = "limits" /\ limit \in {"empty", "unlimited"} THEN "three" ELSE limit

(* A slip: the change is committed on its own, and the record can be lost.     *)
LoseRecord(c) ==
    /\ run[c].at = "later" /\ run[c].next <= Last /\ recorded < run[c].next
    /\ Effect(run[c].next - 1)
    /\ \E lost \in BOOLEAN :
          /\ recorded' = IF lost THEN recorded ELSE run[c].next
          /\ run' = [run EXCEPT ![c] = IF lost THEN Idle ELSE [@ EXCEPT !.next = @ + 1]]
          /\ lock' = IF lost THEN Nobody ELSE lock
    /\ UNCHANGED <<schema, granted, creds, chosen, owner, crashes>>

(* BEGIN, the change, its record, COMMIT; the primary key of schema_migrations *)
(* refuses a change that is recorded already.                                  *)
ApplyLater(c) ==
    /\ run[c].at = "later" /\ run[c].next <= Last /\ recorded < run[c].next
    /\ Effect(run[c].next - 1)
    /\ recorded' = run[c].next
    /\ run' = [run EXCEPT ![c].next = @ + 1]
    /\ UNCHANGED <<schema, granted, creds, chosen, owner, lock, crashes>>

(* seed: the owner account, then its grant, in two statements.                 *)
Owner(c) ==
    /\ run[c].at = "later" /\ run[c].next > Last
    /\ owner' = IF owner = "none" THEN "bare" ELSE owner
    /\ Goes(c, IF owner = "none" THEN "grant" ELSE "up")
    /\ lock' = IF owner = "none" THEN lock ELSE Nobody
    /\ UNCHANGED <<recorded, effects, schema, granted, creds, limit, chosen, crashes>>

OwnerGrant(c) ==
    /\ run[c].at = "grant"
    /\ owner' = "granted"
    /\ Goes(c, "up")
    /\ lock' = Nobody
    /\ UNCHANGED <<recorded, effects, schema, granted, creds, limit, chosen, crashes>>

(* The connection is lost: PostgreSQL rolls back and frees the lock, and the   *)
(* container is started again.                                                 *)
Crash(c) ==
    /\ run[c].at \notin {"off", "up"} /\ crashes < MaxCrashes
    /\ crashes' = crashes + 1
    /\ run' = [run EXCEPT ![c] = Idle]
    /\ lock' = IF lock = c THEN Nobody ELSE lock
    /\ UNCHANGED <<recorded, data>>

(* A container that is up serves Console; a redeployment starts it again.      *)
Edit(c) ==
    /\ run[c].at = "up"
    /\ \E v \in {"three", "unlimited"} : limit' = v /\ chosen' = v
    /\ UNCHANGED <<recorded, effects, schema, granted, creds, owner, lock, run, crashes>>

Redeploy(c) ==
    /\ run[c].at = "up"
    /\ run' = [run EXCEPT ![c] = Idle]
    /\ UNCHANGED <<recorded, data, lock, crashes>>

Next == \E c \in Containers :
    \/ Begin(c) \/ Look(c) \/ Schema(c) \/ Grants(c) \/ Record(c) \/ ApplyLater(c)
    \/ Owner(c) \/ OwnerGrant(c) \/ Crash(c) \/ Edit(c) \/ Redeploy(c)

Spec == Init /\ [][Next]_vars

-----------------------------------------------------------------------------
(* A one-time change takes effect once, in order, whatever container starts    *)
(* when and stops where; a limit the operator left empty afterwards means      *)
(* unlimited and is not taken for an old empty one.                            *)
OnceInOrder ==
    /\ \A i \in 1 .. Len(Later) : effects[i] = (IF i < recorded THEN 1 ELSE 0)
    /\ chosen # "nothing" => limit = chosen
    /\ (\E c \in Containers : run[c].at = "up") => recorded = Last

(* "accounts that exist before it keep working: permanent and unlimited":      *)
(* once the baseline is recorded every old account has its grant.              *)
OldAccountsKeepWorking == recorded > 0 => granted = Accounts
=================================================================================

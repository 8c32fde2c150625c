------------------------------ MODULE UserBundles ------------------------------
(* The encrypted user lists of one node (server/reality.ts, server/stealth.ts). *)
(* Every change of the users makes a new list; the desired state and the       *)
(* queued tasks name a list by its id, and the Agent reads it when it applies  *)
(* the task.  Lists that nothing names any more are collected a day after they *)
(* were made, by builds and by every heartbeat, while tasks are handed out,    *)
(* time out and are retried.                                                   *)
EXTENDS Naturals, Sequences, FiniteSets

CONSTANTS
    Kinds,        \* "vless" and "stealth": one build at a time for each
    Sources,      \* contents of the user rows (their ids and fingerprints)
    ValueOf,      \* the list each content yields; two contents may yield one list
    MaxAttempts,  \* attempts after which a failed task is not retried
    MaxBundles, MaxTasks, MaxDays, MaxEvents  \* bounds

BundleAssumption ==
    /\ DOMAIN ValueOf = Sources
    /\ {MaxAttempts, MaxBundles, MaxTasks, MaxDays, MaxEvents} \subseteq Nat

VARIABLES
    today,
    users,      \* the user rows of each kind now
    bundle,     \* secret_materials, oldest first: [kind, value, source, day, there]
    desired,    \* the list each kind's desired state names (0: none yet)
    tasks,      \* reconcile_tasks, oldest first: [kind, bundle, status, attempts]
    build,      \* the build of each kind: [at, source, bundle]
    events      \* bound: tasks handed out, changes of the user rows and crashes

vars == <<today, users, bundle, desired, tasks, build, events>>

NoSource == "none"
Resting == [at |-> "idle", source |-> NoSource, bundle |-> 0]
Ids == 1 .. Len(bundle)
TaskIds == 1 .. Len(tasks)

TypeOK ==
    /\ today \in 0 .. MaxDays
    /\ users \in [Kinds -> Sources]
    /\ \A b \in Ids : bundle[b].kind \in Kinds /\ bundle[b].source \in Sources \cup {NoSource}
    /\ desired \in [Kinds -> 0 .. Len(bundle)]
    /\ \A t \in TaskIds : tasks[t].status \in {"pending", "running", "succeeded", "failed", "deleted"}
    /\ \A k \in Kinds : build[k].at \in {"idle", "create", "source", "collect", "write", "enqueue"}

Init ==
    /\ today = 0
    /\ \E s \in Sources : users = [k \in Kinds |-> s]
    /\ bundle = <<>>
    /\ desired = [k \in Kinds |-> 0]
    /\ tasks = <<>>
    /\ build = [k \in Kinds |-> Resting]
    /\ events = 0

-----------------------------------------------------------------------------
(* findSecretMaterialByKind: the newest list of a kind.                        *)
Newest(k) == LET mine == {b \in Ids : bundle[b].kind = k /\ bundle[b].there}
             IN IF mine = {} THEN 0 ELSE CHOOSE b \in mine : \A c \in mine : c <= b

(* A slip: only the tasks in the queue count.                                  *)
Queued(t) == tasks[t].status = "pending"

(* Tasks that can still be handed out, or are with the Agent.                  *)
Wanted(t) == \/ tasks[t].status \in {"pending", "running"}
             \/ tasks[t].status = "failed" /\ tasks[t].attempts < MaxAttempts

(* collectUserBundles: the lists its DELETE takes.                             *)
Garbage == {b \in Ids :
    /\ bundle[b].there /\ bundle[b].day < today /\ b # Newest(bundle[b].kind)
    /\ \A k \in Kinds : desired[k] # b
    /\ \A t \in TaskIds : Wanted(t) => tasks[t].bundle # b}
Collected == [b \in Ids |-> IF b \in Garbage THEN [bundle[b] EXCEPT !.there = FALSE] ELSE bundle[b]]

-----------------------------------------------------------------------------
(* One build, under the node's lock for the kind.                              *)

Step(k, at) == build' = [build EXCEPT ![k].at = at]

(* A slip: a list is taken for current without comparing what it was made from. *)
TakeNewest(k) ==
    /\ build[k].at = "idle" /\ Newest(k) # 0
    /\ build' = [build EXCEPT ![k] = [at |-> "write", source |-> users[k], bundle |-> Newest(k)]]
    /\ UNCHANGED <<today, users, bundle, desired, tasks, events>>

Unchanged(k) == Newest(k) # 0 /\ bundle[Newest(k)].source = users[k]

(* The rows are unchanged since the newest list was made: it is used again,    *)
(* and the VLESS build collects on the way.                                    *)
Reuse(k) ==
    /\ build[k].at = "idle" /\ Unchanged(k)
    /\ build' = [build EXCEPT ![k] = [at |-> IF k = "vless" THEN "collect" ELSE "write",
                                      source |-> users[k], bundle |-> Newest(k)]]
    /\ UNCHANGED <<today, users, bundle, desired, tasks, events>>

(* The rows changed: the secrets are decrypted.  The same list as before is    *)
(* kept, another one is stored.                                                *)
Decrypt(k) ==
    /\ build[k].at = "idle"
    /\ ~Unchanged(k)
    /\ LET same == Newest(k) # 0 /\ bundle[Newest(k)].value = ValueOf[users[k]]
       IN build' = [build EXCEPT ![k] = [at |-> IF same THEN "source" ELSE "create", source |-> users[k],
                                         bundle |-> IF same THEN Newest(k) ELSE 0]]
    /\ UNCHANGED <<today, users, bundle, desired, tasks, events>>

Create(k) ==
    /\ build[k].at = "create" /\ Len(bundle) < MaxBundles
    /\ bundle' = Append(bundle, [kind |-> k, value |-> ValueOf[build[k].source], source |-> NoSource,
                                 day |-> today, there |-> TRUE])
    /\ build' = [build EXCEPT ![k].at = "source", ![k].bundle = Len(bundle) + 1]
    /\ UNCHANGED <<today, users, desired, tasks, events>>

(* UPDATE secret_materials SET source_fingerprint: no row if it is gone.       *)
SetSource(k) ==
    /\ build[k].at = "source"
    /\ bundle' = [bundle EXCEPT ![build[k].bundle].source = build[k].source]
    /\ Step(k, "collect")
    /\ UNCHANGED <<today, users, desired, tasks, events>>

Collect(k) ==
    /\ build[k].at = "collect"
    /\ bundle' = Collected
    /\ Step(k, "write")
    /\ UNCHANGED <<today, users, desired, tasks, events>>

(* upsertDesiredConfig, then a task when the revision is new or forced.        *)
WriteDesired(k) ==
    /\ build[k].at = "write"
    /\ desired' = [desired EXCEPT ![k] = build[k].bundle]
    /\ \E queue \in {desired[k] # build[k].bundle, TRUE} :
          IF queue /\ Len(tasks) < MaxTasks THEN Step(k, "enqueue") ELSE build' = [build EXCEPT ![k] = Resting]
    /\ UNCHANGED <<today, users, bundle, tasks, events>>

Enqueue(k) ==
    /\ build[k].at = "enqueue" /\ Len(tasks) < MaxTasks
    /\ tasks' = Append(tasks, [kind |-> k, bundle |-> build[k].bundle, status |-> "pending", attempts |-> 0])
    /\ build' = [build EXCEPT ![k] = Resting]
    /\ UNCHANGED <<today, users, bundle, desired, events>>

-----------------------------------------------------------------------------
(* Everything else that happens meanwhile.                                     *)

Counted == events < MaxEvents /\ events' = events + 1

HeartbeatCollects ==
    /\ Garbage # {}
    /\ bundle' = Collected
    /\ UNCHANGED <<today, users, desired, tasks, build, events>>

UsersChange ==
    /\ Counted
    /\ \E k \in Kinds, s \in Sources : users' = [users EXCEPT ![k] = s]
    /\ UNCHANGED <<today, bundle, desired, tasks, build>>

NextDay ==
    /\ today < MaxDays /\ today' = today + 1
    /\ UNCHANGED <<users, bundle, desired, tasks, build, events>>

Becomes(t, from, to) == tasks[t].status = from /\ tasks' = [tasks EXCEPT ![t].status = to]

Pull(t) ==
    /\ tasks[t].status = "pending" /\ Counted
    /\ tasks' = [tasks EXCEPT ![t].status = "running", ![t].attempts = @ + 1]
    /\ UNCHANGED <<today, users, bundle, desired, build>>

(* finishReconcileTask; the retries of jobs.ts; the daily pruning and the      *)
(* purge of the logs, which also takes failed tasks.                           *)
TaskMoves(t) ==
    /\ \/ Becomes(t, "running", "succeeded") \/ Becomes(t, "running", "failed")
       \/ Becomes(t, "running", "pending")
       \/ tasks[t].attempts < MaxAttempts /\ Becomes(t, "failed", "pending")
       \/ Becomes(t, "succeeded", "deleted") \/ Becomes(t, "failed", "deleted")
    /\ UNCHANGED <<today, users, bundle, desired, build, events>>

(* The Controller stops in the middle of a build.                              *)
Crash ==
    /\ Counted /\ \E k \in Kinds : build[k].at # "idle"
    /\ build' = [k \in Kinds |-> Resting]
    /\ UNCHANGED <<today, users, bundle, desired, tasks>>

BuildStep(k) ==
    \/ Reuse(k) \/ Decrypt(k) \/ Create(k) \/ SetSource(k) \/ Collect(k) \/ WriteDesired(k) \/ Enqueue(k)

Next ==
    \/ \E k \in Kinds : BuildStep(k)
    \/ HeartbeatCollects \/ UsersChange \/ NextDay \/ Crash
    \/ \E t \in TaskIds : Pull(t) \/ TaskMoves(t)

Spec == Init /\ [][Next]_vars

-----------------------------------------------------------------------------
(* A list is never collected while the Agent may still have to read it: the    *)
(* desired state, every task that is or will be handed out, and the build that *)
(* is about to name it all find theirs.                                        *)
BundlesReadable ==
    /\ \A k \in Kinds : desired[k] # 0 => bundle[desired[k]].there
    /\ \A t \in TaskIds : ~bundle[tasks[t].bundle].there =>
          tasks[t].status \in {"succeeded", "deleted"} \/ (tasks[t].status = "failed" /\ tasks[t].attempts >= MaxAttempts)
    /\ \A k \in Kinds : build[k].bundle # 0 => bundle[build[k].bundle].there

(* What a build is about to publish is the list of the rows it read, also when *)
(* it took an older list instead of decrypting, and whatever crash came before. *)
BundleIsCurrent == \A k \in Kinds :
    build[k].at \in {"collect", "write", "enqueue"} => bundle[build[k].bundle].value = ValueOf[build[k].source]
=============================================================================

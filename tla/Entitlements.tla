---------------------------- MODULE Entitlements ----------------------------
(***************************************************************************)
(* The access of one account: its grants, the cached result every          *)
(* enforcement point reads, the minute job that keeps the cache current    *)
(* (server/entitlements.ts, server/access-jobs.ts) and the registration    *)
(* that creates both (app/api/v1/auth/register/route.ts).                  *)
(*                                                                         *)
(* Accounts share nothing: each operation takes the account's row lock     *)
(* (lockedGrants), so one account stands for all of them and a transaction *)
(* is one action. Time is counted in runs of the minute job.               *)
(***************************************************************************)
EXTENDS Integers, Sequences, SequencesExt, FiniteSetsExt

CONSTANTS
  None,        \* null: no end, no quota, no device limit
  Welcome,     \* the terms of the welcome plan, None when no plan is marked
  Terms,       \* what a grant may be given with
  Bytes,       \* the traffic a heartbeat may report
  Window,      \* how far back the minute job looks for boundaries (ten minutes)
  MaxGap,      \* the longest time without a run of the minute job that gets through
  MaxTime, MaxGrants, MaxBytes,    \* bounds
  Env          \* the failures that may happen: "registerFail", "jobFail"

(* What a plan or a hand-made grant says: days of validity, or an end date, a quota, a limit. *)
TermRow == [days : (Nat \ {0}) \union {None}, ends : Nat \union {None},
            quota : (Nat \ {0}) \union {None}, limit : (Nat \ {0}) \union {None}]

ASSUME NoneAssumption == None \notin Nat
ASSUME TermsAssumption == /\ Terms \subseteq TermRow
                          /\ Welcome # None => Welcome \in TermRow /\ Welcome.ends = None
ASSUME BoundsAssumption == /\ Bytes \subseteq Nat \ {0} /\ Window \in Nat /\ MaxGap \in Nat
                           /\ MaxTime \in Nat /\ MaxGrants \in Nat /\ MaxBytes \in Nat

VARIABLES
  now,         \* the clock
  status,      \* users.status: "pending" stands for rejected and suspended as well
  registering, \* "begun": the registration has created the account and not yet its welcome grant;
               \* "stopped": it failed in between, and nothing has been granted since; else "no"
  grants,      \* the rows of access_grants, in the order they were created
  cache,       \* users.access_ok, access_until, access_device_limit
  due,         \* the minute job has selected the account and not yet refreshed it
  swept,       \* when the minute job last got through
  billed       \* bytes charged to the account so far, all grants together

accessVars == <<now, status, registering, grants, cache, due, swept, billed>>

GrantRow == [starts : Nat, ends : Nat \union {None}, quota : (Nat \ {0}) \union {None}, used : Nat,
             limit : (Nat \ {0}) \union {None}, status : {"active", "revoked"}]

GrantsTyped ==
  /\ now \in 0 .. MaxTime /\ swept \in 0 .. now
  /\ status \in {"absent", "pending", "active"}
  /\ registering \in {"no", "begun", "stopped"} /\ due \in BOOLEAN
  /\ grants \in Seq(GrantRow)
  /\ cache \in [ok : BOOLEAN, until : Nat \union {None}, limit : (Nat \ {0}) \union {None}]
  /\ billed \in Nat

-----------------------------------------------------------------------------
(* The rules (entitlements.ts:71-92). *)

Exhausted(g) == g.quota # None /\ g.used >= g.quota
EndsAfter(g, t) == g.ends = None \/ g.ends > t
Live(g, t) == g.status = "active" /\ ~Exhausted(g) /\ EndsAfter(g, t)
Usable(g, t) == Live(g, t) /\ g.starts <= t

Current(gs, t) == {i \in DOMAIN gs : Usable(gs[i], t)}

(* Whether a grant that is live at "at" covers the moment t. *)
Covers(g, at, t) == Live(g, at) /\ g.starts <= t /\ EndsAfter(g, t)

(* Moments from "at" on that no grant covers, among those at which a gap can begin. *)
Gaps(gs, at) ==
  LET ends == {gs[i].ends : i \in {j \in DOMAIN gs : Live(gs[j], at) /\ gs[j].ends # None}}
  IN  {t \in {at} \union ends : \A i \in DOMAIN gs : ~Covers(gs[i], at, t)}

(* Until when coverage runs without a gap. *)
Until(gs, at) == IF Gaps(gs, at) = {} THEN None ELSE Min(Gaps(gs, at))

(* A slip in evaluate: a renewal that starts where the last grant ends is missed. *)
FollowStrictly(gs, at) ==
  LET Covering(c) == {gs[i] : i \in {j \in DOMAIN gs : Covers(gs[j], at, c) /\ (c = at \/ gs[j].starts < c)}}
      ends == {gs[i].ends : i \in DOMAIN gs} \ {None}
      reach[c \in {at} \union ends] ==
        IF Covering(c) = {} THEN c
        ELSE IF \E g \in Covering(c) : g.ends = None THEN None
        ELSE reach[Max({g.ends : g \in Covering(c)})]
  IN  reach[at]

(* The same, as the loop of evaluate finds it: from the end of one grant to the next. *)
FollowGrants(gs, at) ==
  LET Covering(c) == {gs[i] : i \in {j \in DOMAIN gs : Covers(gs[j], at, c)}}
      ends == {gs[i].ends : i \in DOMAIN gs} \ {None}
      reach[c \in {at} \union ends] ==
        IF Covering(c) = {} THEN c
        ELSE IF \E g \in Covering(c) : g.ends = None THEN None
        ELSE reach[Max({g.ends : g \in Covering(c)})]
  IN  reach[at]

DeviceLimit(gs, at) ==
  LET limits == {gs[i].limit : i \in Current(gs, at)}
  IN  IF limits = {} \/ None \in limits THEN None ELSE Max(limits)

Evaluate(gs, at) ==
  [ok |-> Current(gs, at) # {},
   until |-> IF Current(gs, at) = {} THEN None ELSE Until(gs, at),
   limit |-> DeviceLimit(gs, at)]

(* The single access rule (accessSql). *)
Access == status = "active" /\ cache.ok /\ (cache.until = None \/ cache.until > now)

(* Writes the grants and, from them, the cache, in one transaction. *)
Store(gs) == grants' = gs /\ cache' = Evaluate(gs, now)

-----------------------------------------------------------------------------
(* Granting and revoking. *)

Revoked(g) == [g EXCEPT !.status = "revoked"]

(* A switch of plans first revokes everything still in force. *)
Kept(gs, replace) ==
  [i \in DOMAIN gs |-> IF replace /\ gs[i].status = "active" /\ EndsAfter(gs[i], now) THEN Revoked(gs[i]) ELSE gs[i]]

(* A slip in grantAccess: only the grants in force count, not the ones queued behind them. *)
TimedEndInForce(gs) == Max({now} \union {gs[i].ends : i \in {j \in Current(gs, now) : gs[j].ends # None}})

(* Where the account's timed coverage ends: the start of a timed grant. *)
TimedEnd(gs) == Max({now} \union {gs[i].ends : i \in {j \in DOMAIN gs : Live(gs[j], now) /\ gs[j].ends # None}})

NewGrant(gs, term) ==
  LET starts == IF term.days # None THEN TimedEnd(gs) ELSE now
  IN  [starts |-> starts, ends |-> IF term.days # None THEN starts + term.days ELSE term.ends,
       quota |-> term.quota, used |-> 0, limit |-> term.limit, status |-> "active"]

Granted(term, replace) == Append(Kept(grants, replace), NewGrant(Kept(grants, replace), term))

(* The Console gives a grant, or switches the account to a plan. *)
GrantAccess(term, replace) ==
  /\ status # "absent" /\ Len(grants) < MaxGrants
  /\ term.ends # None => term.days = None /\ term.ends > now
  /\ Store(Granted(term, replace))
  /\ registering' = IF registering = "stopped" THEN "no" ELSE registering
  /\ UNCHANGED <<now, status, due, swept, billed>>

(* Slips in revokeGrant: the whole grant is taken off, not what was left of it; every timed    *)
(* grant is pulled forward, not only those behind.                                            *)
PulledByWhole(gs, k) ==
  LET g == gs[k]
      length == IF g.ends = None THEN 0 ELSE g.ends - g.starts
      Behind(later) == later.status = "active" /\ later.ends # None /\ later.starts >= g.ends
  IN  [i \in DOMAIN gs |->
         IF i = k THEN Revoked(g)
         ELSE IF length > 0 /\ Behind(gs[i])
         THEN [gs[i] EXCEPT !.starts = @ - length, !.ends = @ - length]
         ELSE gs[i]]
PulledEvery(gs, k) ==
  LET g == gs[k]
      length == IF g.ends = None THEN 0 ELSE g.ends - Max({now, g.starts})
  IN  [i \in DOMAIN gs |->
         IF i = k THEN Revoked(g)
         ELSE IF length > 0 /\ gs[i].status = "active" /\ gs[i].ends # None
         THEN [gs[i] EXCEPT !.starts = @ - length, !.ends = @ - length]
         ELSE gs[i]]

(* Grants stacked behind a revoked one are pulled forward by what was left of it. *)
PulledForward(gs, k) ==
  LET g == gs[k]
      length == IF g.ends = None THEN 0 ELSE g.ends - Max({now, g.starts})
      Behind(later) == later.status = "active" /\ later.ends # None /\ later.starts >= g.ends
  IN  [i \in DOMAIN gs |->
         IF i = k THEN Revoked(g)
         ELSE IF length > 0 /\ Behind(gs[i])
         THEN [gs[i] EXCEPT !.starts = @ - length, !.ends = @ - length]
         ELSE gs[i]]

(* A slip in revokeGrant: the cache is left as it was. *)
RevokeUncached(k) ==
  /\ grants[k].status = "active"
  /\ grants' = PulledForward(grants, k)
  /\ UNCHANGED <<cache, now, status, registering, due, swept, billed>>

RevokeGrant(k) ==
  /\ grants[k].status = "active"
  /\ Store(PulledForward(grants, k))
  /\ UNCHANGED <<now, status, registering, due, swept, billed>>

-----------------------------------------------------------------------------
(* Charging traffic. *)

(* A slip in chargeTraffic: the oldest grant pays first. *)
BeforeByAge(i, j) == i < j

(* Unlimited grants absorb everything, then the one that ends soonest pays, then the oldest. *)
Before(i, j) ==
  LET g == grants[i]  h == grants[j]
      Sooner(a, b) == a.ends # None /\ (b.ends = None \/ a.ends < b.ends)
  IN  IF (g.quota = None) # (h.quota = None) THEN g.quota = None
      ELSE IF g.ends # h.ends THEN Sooner(g, h) ELSE i < j

ChargeOrder == SetToSortSeq(Current(grants, now), Before)

(* A slip in chargeTraffic: what no grant has room for is dropped. *)
ChargedWithin(bytes) ==
  LET Take(acc, i) ==
        LET g == acc.gs[i]
            take == IF g.quota = None THEN acc.left ELSE Min({acc.left, g.quota - g.used})
        IN  [left |-> acc.left - take, gs |-> [acc.gs EXCEPT ![i].used = @ + take]]
  IN  FoldLeft(Take, [left |-> bytes, gs |-> grants], ChargeOrder).gs

(* What the grants have used after "bytes" more: each takes what it has room for, the last the rest. *)
Charged(bytes) ==
  LET Take(acc, i) ==
        LET g == acc.gs[i]
            take == IF g.quota = None THEN acc.left ELSE Min({acc.left, g.quota - g.used})
        IN  [left |-> acc.left - take, gs |-> [acc.gs EXCEPT ![i].used = @ + take]]
      taken == FoldLeft(Take, [left |-> bytes, gs |-> grants], ChargeOrder)
  IN  [taken.gs EXCEPT ![Last(ChargeOrder)].used = @ + taken.left]

(* A heartbeat's traffic; without a grant in force nothing is written. *)
ChargeTraffic(bytes) ==
  /\ Current(grants, now) # {} /\ billed + bytes <= MaxBytes
  /\ Store([i \in DOMAIN grants |-> [grants[i] EXCEPT !.used = Charged(bytes)[i].used]])
  /\ billed' = billed + bytes
  /\ UNCHANGED <<now, status, registering, due, swept>>

-----------------------------------------------------------------------------
(* Registration and the account's status. *)

(* The row is created with the column defaults: access_ok TRUE, no end, no device limit. *)
Register ==
  /\ status = "absent"
  /\ status' = "pending" /\ registering' = "begun"
  /\ UNCHANGED <<now, grants, cache, due, swept, billed>>

(* The welcome grant, or, when no plan is marked as welcome, the refresh of the cache. *)
GrantWelcome ==
  /\ registering = "begun" /\ registering' = "no"
  /\ IF Welcome # None THEN Store(Granted(Welcome, FALSE)) ELSE Store(grants)
  /\ UNCHANGED <<now, status, due, swept, billed>>

(* The welcome grant throws, or the process dies before it; the email is taken from now on. *)
RegisterFails ==
  /\ "registerFail" \in Env
  /\ registering = "begun" /\ registering' = IF grants = <<>> THEN "stopped" ELSE "no"
  /\ UNCHANGED <<now, status, grants, cache, due, swept, billed>>

(* The administrator approves, suspends, approves again. *)
SetStatus(s) ==
  /\ status # "absent" /\ status' = s /\ s # status
  /\ UNCHANGED <<now, registering, grants, cache, due, swept, billed>>

-----------------------------------------------------------------------------
(* The minute job and the clock. *)

RecentlyPassed(t) == t <= now /\ t > now - Window

(* A slip in runAccessJobs: only ends are looked for, not starts. *)
JobDueAtEnds ==
  \/ cache.ok /\ cache.until # None /\ cache.until <= now
  \/ \E i \in DOMAIN grants : grants[i].status = "active" /\ grants[i].ends # None /\ RecentlyPassed(grants[i].ends)

(* The accounts runAccessJobs selects. *)
JobDue ==
  \/ cache.ok /\ cache.until # None /\ cache.until <= now
  \/ \E i \in DOMAIN grants : /\ grants[i].status = "active"
                              /\ RecentlyPassed(grants[i].starts) \/ (grants[i].ends # None /\ RecentlyPassed(grants[i].ends))

JobSelect ==
  /\ ~due /\ swept < now
  /\ due' = JobDue
  /\ swept' = IF JobDue THEN swept ELSE now
  /\ UNCHANGED <<now, status, registering, grants, cache, billed>>

(* refreshAccess in its own transaction. *)
JobRefresh ==
  /\ due /\ due' = FALSE /\ swept' = now
  /\ Store(grants)
  /\ UNCHANGED <<now, status, registering, billed>>

(* The refresh throws (the job swallows it), or the process dies before it. *)
JobFails ==
  /\ "jobFail" \in Env
  /\ due /\ due' = FALSE
  /\ UNCHANGED <<now, status, registering, grants, cache, swept, billed>>

(* Nothing happens to an account before it exists, and its registration takes no minute. *)
Minute ==
  /\ status # "absent" /\ registering # "begun" /\ now < MaxTime /\ now - swept < MaxGap
  /\ now' = now + 1
  /\ UNCHANGED <<status, registering, grants, cache, due, swept, billed>>

AccessInit ==
  /\ now = 0 /\ swept = 0
  /\ status = "absent" /\ registering = "no" /\ due = FALSE
  /\ grants = <<>> /\ billed = 0
  /\ cache = [ok |-> TRUE, until |-> None, limit |-> None]

AccessNext ==
  \/ Register \/ GrantWelcome \/ RegisterFails
  \/ \E s \in {"active", "pending"} : SetStatus(s)
  \/ \E term \in Terms, replace \in BOOLEAN : GrantAccess(term, replace)
  \/ \E k \in DOMAIN grants : RevokeGrant(k)
  \/ \E bytes \in Bytes : ChargeTraffic(bytes)
  \/ JobSelect \/ JobRefresh \/ JobFails \/ Minute

AccessSpec == AccessInit /\ [][AccessNext]_accessVars
-----------------------------------------------------------------------------
(* Properties. *)

(* Until the registration's second statement, and for good when it never comes, the column    *)
(* defaults stand in for the cache.                                                           *)
OnDefaults == grants = <<>> /\ registering # "no"

(* Whoever may connect holds a grant that is inside its period and has traffic left: the      *)
(* cached end date never outlives the grants it was computed from, whatever happens to them.  *)
AccessIsCovered == Access => OnDefaults \/ Current(grants, now) # {}

(* Nothing but a grant gives access, once the registration is over.                           *)
OnlyGrantsGiveAccess == Access => registering = "begun" \/ Current(grants, now) # {}

(* When the minute job has got through, the cache says what the grants say: who may connect,  *)
(* until when, with how many devices. A start or an end that the job's window has left behind *)
(* would never be noticed.                                                                    *)
CacheFollowsGrants ==
  LET truth == Evaluate(grants, now)
  IN  status # "absent" /\ ~OnDefaults /\ swept = now =>
        /\ truth.ok <=> (cache.ok /\ (cache.until = None \/ cache.until > now))
        /\ truth.ok => cache.until = truth.until /\ cache.limit = truth.limit

(* The loop of evaluate stops at the first moment no live grant covers. *)
LoopFindsFirstGap == FollowGrants(grants, now) = Until(grants, now)

(* Every byte charged to the account is on one of its grants, once. *)
EveryByteIsBilled == MapThenSumSet(LAMBDA i : grants[i].used, DOMAIN grants) = billed

(* No grant pays while an unlimited one is in force, or while one that ends sooner has traffic *)
(* left, and a quota is overrun only when it was the account's last.                           *)
SpareFirst(g, h) == \/ g.quota = None /\ h.quota # None
                    \/ g.quota # None /\ h.quota # None /\ g.ends # None /\ EndsAfter(h, g.ends)
PaysSoonestFirst ==
  [][billed' # billed =>
       \A i \in Current(grants, now) : grants'[i].used > grants[i].used =>
         /\ \A j \in Current(grants, now) : SpareFirst(grants[j], grants[i]) => Exhausted(grants'[j])
         /\ grants[i].quota # None /\ grants'[i].used > grants[i].quota => Current(grants', now) = {}]_accessVars

(* The moments from now on that the account's live timed grants cover. *)
Timed(gs) == {i \in DOMAIN gs : Live(gs[i], now) /\ gs[i].ends # None}
TimeHeld(gs, which) == UNION {Max({now, gs[i].starts}) .. (gs[i].ends - 1) : i \in which}

(* A renewal by days adds exactly its days to the time the account holds. *)
RenewalAddsTime ==
  [][Len(grants') > Len(grants) => \A term \in Terms : term.days # None /\ GrantAccess(term, FALSE) =>
       Cardinality(TimeHeld(grants', Timed(grants'))) = Cardinality(TimeHeld(grants, Timed(grants))) + term.days]_accessVars

(* Where no two grants overlap, as renewals leave them, revoking one opens no gap and costs   *)
(* the others none of their time: they move as they are, never into the past.                 *)
Gapless(gs) == LET held == TimeHeld(gs, Timed(gs)) IN held # {} => held = now .. Max(held)
Ahead(gs) == {i \in DOMAIN gs : gs[i].status = "active" /\ gs[i].ends # None /\ gs[i].ends > now}
Stacked(gs) == \A i, j \in Ahead(gs) : i # j => gs[i].ends <= gs[j].starts \/ gs[j].ends <= gs[i].starts

RevokeKeepsTheRest ==
  [][\A k \in DOMAIN grants : grants[k].status # grants'[k].status /\ RevokeGrant(k) /\ Stacked(grants) =>
       /\ Gapless(grants) => Gapless(grants')
       /\ \A i \in DOMAIN grants \ {k} : grants'[i] # grants[i] =>
            grants'[i].ends - grants'[i].starts = grants[i].ends - grants[i].starts /\ grants'[i].starts >= now
       /\ Cardinality(TimeHeld(grants', Timed(grants'))) = Cardinality(TimeHeld(grants, Timed(grants) \ {k}))]_accessVars

(* Revoking a grant costs the account none of the time its other grants held. *)
PaidTimeKept ==
  [][\A k \in DOMAIN grants : RevokeGrant(k) =>
       Cardinality(TimeHeld(grants', Timed(grants'))) >= Cardinality(TimeHeld(grants, Timed(grants) \ {k}))]_accessVars
=============================================================================

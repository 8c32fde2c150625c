------------------------------ MODULE Accounts ------------------------------
(***************************************************************************)
(* One account, its password, its status and the sessions opened with it:  *)
(* Console and Portal cookies, API token pairs and app sessions.  Handlers *)
(* read the account before they verify a password and write the session    *)
(* after it, while a password reset or a suspension removes every session  *)
(* in three separate statements.  The in-memory limiter that counts        *)
(* attempts and failures in front of the sign-in routes is modelled with   *)
(* its expiry and its eviction of the oldest entry.                        *)
(***************************************************************************)
EXTENDS Naturals, FiniteSets, FiniteSetsExt, SequencesExt

CONSTANTS
    Kinds,         \* the ways to sign in: "console", "portal", "api", "app"
    Role,          \* the account's role: "owner", "admin" or "member"
    Addresses,     \* client addresses the proxy sees
    AccountLimit,  \* sign-in attempts per account and window   (10 in the code)
    AddressLimit,  \* sign-in attempts per address and window   (30)
    BanThreshold,  \* failures that ban an address              (40)
    WindowTime,    \* length of a window                        (15 min)
    FailureTime,   \* length of a failure window                (10 min)
    BanTime,       \* length of a ban                           (60 min)
    MaxEntries,    \* entries of a limiter map                  (10000)
    SessionTime,   \* life of a session row
    AccessTime,    \* life of an API access token               (15 min)
    LinkTimes,     \* life of a reset link: mailed, handed over by an administrator
    Handlers,      \* numbers of the requests that run at once
    MaxTime, MaxEvents  \* bounds: clock; sign-ins, refreshes, links, resets, status changes and restarts

ASSUME AccountsAssumption ==
    /\ Kinds \subseteq {"console", "portal", "api", "app"}
    /\ Role \in {"owner", "admin", "member"}
    /\ Handlers \subseteq Nat /\ IsFiniteSet(Addresses)
    /\ {AccountLimit, AddressLimit, BanThreshold, MaxEntries} \subseteq Nat \ {0}
    /\ {WindowTime, FailureTime, BanTime, SessionTime, AccessTime} \subseteq Nat \ {0}
    /\ LinkTimes \subseteq Nat
    /\ FailureTime <= BanTime

Statuses == {"pending", "active", "rejected", "suspended"}
Account == "account"                      \* the limiter key email:<address>

VARIABLES
    clock,
    account,     \* [pw, status, gen]: password version, status, sign-outs ordered so far
    rows,        \* the session rows that are not deleted or revoked
    links,       \* reset links that somebody holds: [pw, until]
    handler,     \* what each request is doing
    windows,     \* the limiter's windows, oldest first
    failures,    \* the limiter's failure entries, oldest first
    events,      \* requests, resets and failures so far, for the bound
    done,        \* the last ordered sign-out whose deletes have all finished
    misses,      \* address, time -> failures counted then
    resets       \* password version -> how many resets replaced it

vars == <<clock, account, rows, links, handler, windows, failures, events, done, misses, resets>>

Idle == [at |-> "idle"]
Free(h) == handler[h] = Idle /\ \A g \in Handlers : handler[g] = Idle => h <= g
Store(h, state) == handler' = [handler EXCEPT ![h] = state]

Happens == events < MaxEvents /\ events' = events + 1

Init ==
    /\ clock = 0
    /\ account = [pw |-> 0, status |-> "pending", gen |-> 0]
    /\ rows = {} /\ links = {}
    /\ handler = [h \in Handlers |-> Idle]
    /\ windows = << >> /\ failures = << >>
    /\ events = 0 /\ done = 0
    /\ misses = [a \in Addresses |-> [t \in 0..MaxTime |-> 0]]
    /\ resets = [p \in 0..MaxEvents |-> 0]

-----------------------------------------------------------------------------
(* The limiter: maps that keep insertion order, so that the first entry is  *)
(* the oldest one.                                                          *)

Entry(map, key) == {e \in ToSet(map) : e.key = key}
Drop(map, gone(_)) == SelectSeq(map, LAMBDA e : ~gone(e))
Put(map, entry) ==
    IF Entry(map, entry.key) = {} THEN Append(map, entry)
    ELSE [i \in DOMAIN map |-> IF map[i].key = entry.key THEN entry ELSE map[i]]

\* A map at its limit loses its expired entries first, then its oldest one.
Evicted(map) ==
    LET kept == Drop(map, LAMBDA e : e.resetAt <= clock)
    IN IF Len(map) < MaxEntries THEN map
       ELSE IF Len(kept) < MaxEntries THEN kept ELSE Tail(kept)

\* One hit: a window that is missing or over starts again at one.
Hit(map, key) ==
    LET old == {e \in Entry(map, key) : e.resetAt > clock}
    IN IF old = {} THEN Put(Evicted(map), [key |-> key, count |-> 1, resetAt |-> clock + WindowTime])
       ELSE Put(map, [(CHOOSE e \in old : TRUE) EXCEPT !.count = @ + 1])
Within(map, key, limit) == \A e \in Entry(map, key) : e.count <= limit

\* Both counters are always hit; a request that names no account has one.
AfterHits(address, named) == LET byAddress == Hit(windows, address) IN IF named THEN Hit(byAddress, Account) ELSE byAddress
AllowLoginAttempt(address, named) ==
    /\ Within(Hit(windows, address), address, AddressLimit)
    /\ named => Within(AfterHits(address, TRUE), Account, AccountLimit)

Banned(address) == \E e \in Entry(failures, address) : e.bannedUntil > clock

\* A slip: the entry is kept for good.
NeverForgets(address) == Entry(failures, address)
\* The entry of an address starts again once its window and its ban are both over.
OldFailures(address) == {e \in Entry(failures, address) : e.resetAt > clock \/ e.bannedUntil > clock}

RecordAuthFailure(address) ==
    LET old == OldFailures(address)
        room == IF Len(failures) < MaxEntries THEN failures ELSE Tail(failures)
        entry == IF old = {} THEN [key |-> address, count |-> 0, resetAt |-> clock + FailureTime, bannedUntil |-> 0]
                 ELSE CHOOSE e \in old : TRUE
        count == entry.count + 1
    IN IF entry.bannedUntil > clock THEN UNCHANGED <<failures, misses>>
       ELSE /\ failures' = Put(IF old = {} THEN room ELSE failures,
                 [entry EXCEPT !.count = count, !.bannedUntil = IF count < BanThreshold THEN 0 ELSE clock + BanTime])
            /\ misses' = [misses EXCEPT ![address][clock] = @ + 1]

-----------------------------------------------------------------------------
(* Sign-in.  The routes differ in whom they admit and in what they insert.  *)

ConsoleAdmits(status) == status = "active" /\ Role \in {"owner", "admin"}
PortalAdmits(status) == status = "active"
ApiAdmits(status) == status = "active"
AppAdmits(status) == status = "active"
Admits(kind, status) ==
    CASE kind = "console" -> ConsoleAdmits(status) [] kind = "portal" -> PortalAdmits(status)
      [] kind = "api" -> ApiAdmits(status)         [] kind = "app" -> AppAdmits(status)

WebSession(kind, gen) == [kind |-> kind, gen |-> gen, late |-> gen # account.gen, until |-> clock + SessionTime, access |-> clock + SessionTime]
ApiSession(gen) == [WebSession("api", gen) EXCEPT !.access = clock + AccessTime]
NewSession(kind, gen) == IF kind = "api" THEN ApiSession(gen) ELSE WebSession(kind, gen)

\* allowLoginAttempt, then the account is read; the password is verified outside the database.
Attempt(h, kind, address) ==
    /\ Happens
    /\ Free(h) /\ ~Banned(address)
    /\ windows' = AfterHits(address, TRUE)
    /\ IF AllowLoginAttempt(address, TRUE)
       THEN /\ Store(h, [at |-> "verify", kind |-> kind, address |-> address, status |-> account.status, gen |-> account.gen])
            /\ UNCHANGED <<failures, misses>>
       ELSE RecordAuthFailure(address) /\ UNCHANGED handler
    /\ UNCHANGED <<clock, account, rows, links, done, resets>>

WrongPassword(h) ==
    /\ handler[h].at = "verify"
    /\ RecordAuthFailure(handler[h].address)
    /\ Store(h, Idle)
    /\ UNCHANGED <<clock, account, rows, links, windows, events, done, resets>>

\* What was read before the verification decides; an app's sign-in also clears the expired app sessions.
RightPassword(h) ==
    LET r == handler[h]
        kept == IF r.kind = "app" THEN {s \in rows : s.kind # "app" \/ s.until > clock} ELSE rows
    IN  /\ r.at = "verify"
        /\ rows' = IF Admits(r.kind, r.status) THEN kept \union {NewSession(r.kind, r.gen)} ELSE rows
        /\ Store(h, Idle)
        /\ UNCHANGED <<clock, account, links, windows, failures, events, done, misses, resets>>

\* A refresh claims its row, finds the user, then inserts the next row.
Refresh(h, s) ==
    /\ Happens
    /\ Free(h) /\ s \in rows /\ s.kind = "api"
    /\ rows' = rows \ {s}
    /\ Store(h, IF s.until > clock THEN [at |-> "find", gen |-> s.gen, late |-> s.late] ELSE Idle)
    /\ UNCHANGED <<clock, account, links, windows, failures, done, misses, resets>>

FindUser(h) ==
    /\ handler[h].at = "find"
    /\ Store(h, IF account.status = "active" THEN [handler[h] EXCEPT !.at = "insert"] ELSE Idle)
    /\ UNCHANGED <<clock, account, rows, links, windows, failures, events, done, misses, resets>>

Renewed(h) ==
    LET next == ApiSession(handler[h].gen)
    IN  /\ handler[h].at = "insert"
        /\ rows' = rows \union {[next EXCEPT !.late = @ \/ handler[h].late]}
        /\ Store(h, Idle)
        /\ UNCHANGED <<clock, account, links, windows, failures, events, done, misses, resets>>

-----------------------------------------------------------------------------
(* Who a session row still admits, and signing out.                         *)

ConsoleUser(s) == s.kind = "console" /\ s.until > clock /\ account.status = "active" /\ Role \in {"owner", "admin"}
PortalUser(s) == s.kind = "portal" /\ s.until > clock /\ account.status = "active"
ApiUser(s) == s.kind = "api" /\ s.access > clock /\ account.status = "active"
AppUser(s) == s.kind = "app" /\ s.until > clock /\ account.status = "active"
RequestUser(s) == ApiUser(s) \/ PortalUser(s) \/ ConsoleUser(s)
Accepted(s) == RequestUser(s) \/ AppUser(s)

\* The two cookies are deleted whoever asks; a token must still be good to be revoked.
ConsoleLogout(s) == s.kind = "console"
PortalLogout(s) == s.kind = "portal"
ApiLogout(s) == ApiUser(s)
AppLogout(s) == AppUser(s)
LogOut(s) ==
    /\ ConsoleLogout(s) \/ PortalLogout(s) \/ ApiLogout(s) \/ AppLogout(s)
    /\ rows' = rows \ {s}
    /\ UNCHANGED <<clock, account, links, handler, windows, failures, events, done, misses, resets>>

\* Any request with a cookie clears the expired cookie rows, at most once a minute.
CleanupSessions ==
    /\ \E s \in rows : s.kind \in {"console", "portal"} /\ s.until <= clock
    /\ rows' = {s \in rows : s.kind \notin {"console", "portal"} \/ s.until > clock}
    /\ UNCHANGED <<clock, account, links, handler, windows, failures, events, done, misses, resets>>

-----------------------------------------------------------------------------
(* Password resets and status changes.                                      *)

\* A link carries a signature over the password hash it was made for; nothing is stored.
MailedLink == account.status \in {"active", "pending"}
AdminLink == account.status \in {"active", "pending"} /\ Role # "owner"
CreateResetLink(ttl) ==
    /\ Happens
    /\ MailedLink \/ AdminLink
    /\ links' = links \union {[pw |-> account.pw, until |-> clock + ttl]}
    /\ links' # links
    /\ UNCHANGED <<clock, account, rows, handler, windows, failures, done, misses, resets>>

\* The route counts as a sign-in attempt of its address; the signature is checked against the hash read here.
ResetPassword(h, link, address) ==
    /\ Happens
    /\ Free(h) /\ link \in links /\ ~Banned(address)
    /\ windows' = AfterHits(address, FALSE)
    /\ IF AllowLoginAttempt(address, FALSE)
       THEN /\ Store(h, IF link.until >= clock /\ account.status \in {"active", "pending"} /\ link.pw = account.pw
                         THEN [at |-> "hash", pw |-> account.pw] ELSE Idle)
            /\ UNCHANGED <<failures, misses>>
       ELSE RecordAuthFailure(address) /\ UNCHANGED handler
    /\ UNCHANGED <<clock, account, rows, links, done, resets>>

SessionTables == {"sessions", "native_sessions", "device_sessions"}
TableOf(kind) == CASE kind \in {"console", "portal"} -> "sessions" [] kind = "app" -> "native_sessions" [] kind = "api" -> "device_sessions"
\* A slip: the API tokens are left alone.
ForgetsTheTokens == {"sessions", "native_sessions"}

\* The tables a sign-out everywhere goes through, in any order: three statements at once.
ToSweep == SessionTables

\* A slip: the new hash is stored whatever the old one is by now.
WhateverItIsNow(pw) == TRUE
\* UPDATE ... WHERE password_hash = the hash that was read.
StillThat(pw) == account.pw = pw

CompareAndSet(h) ==
    LET pw == handler[h].pw
    IN  /\ handler[h].at = "hash"
        /\ IF StillThat(pw)
           THEN /\ account' = [account EXCEPT !.pw = @ + 1, !.gen = @ + 1]
                /\ resets' = [resets EXCEPT ![pw] = @ + 1]
                /\ Store(h, [at |-> "sweep", gen |-> account.gen + 1, todo |-> ToSweep])
           ELSE Store(h, Idle) /\ UNCHANGED <<account, resets>>
        /\ UNCHANGED <<clock, rows, links, windows, failures, events, done, misses>>

Sweep(h, table) ==
    LET r == handler[h]
    IN  /\ r.at = "sweep" /\ table \in r.todo
        /\ rows' = {s \in rows : TableOf(s.kind) # table}
        /\ Store(h, IF r.todo = {table} THEN Idle ELSE [r EXCEPT !.todo = @ \ {table}])
        /\ done' = IF r.todo = {table} /\ r.gen > done THEN r.gen ELSE done
        /\ UNCHANGED <<clock, account, links, windows, failures, events, misses, resets>>

SetStatus(h, status) ==
    /\ Happens
    /\ Free(h) /\ status # account.status
    /\ Role = "owner" => status = "active"
    /\ account' = [account EXCEPT !.status = status, !.gen = IF status = "active" THEN @ ELSE @ + 1]
    /\ Store(h, IF status = "active" THEN Idle ELSE [at |-> "sweep", gen |-> account.gen + 1, todo |-> ToSweep])
    /\ UNCHANGED <<clock, rows, links, windows, failures, done, misses, resets>>

\* The script on the Controller host sets a password, activates the account and leaves its sessions alone.
ServerReset ==
    /\ Happens
    /\ Role \in {"owner", "admin"}
    /\ account' = [account EXCEPT !.pw = @ + 1, !.status = "active"]
    /\ UNCHANGED <<clock, rows, links, handler, windows, failures, done, misses, resets>>

-----------------------------------------------------------------------------
Tick ==
    /\ clock < MaxTime
    /\ clock' = clock + 1
    /\ UNCHANGED <<account, rows, links, handler, windows, failures, events, done, misses, resets>>

\* The process ends: what it was doing stops half-way and the limiter is empty again.
ControllerRestarts ==
    /\ Happens
    /\ \E h \in Handlers : handler[h] # Idle
    /\ handler' = [h \in Handlers |-> Idle]
    /\ windows' = << >> /\ failures' = << >>
    /\ UNCHANGED <<clock, account, rows, links, done, misses, resets>>

Next ==
    \/ \E h \in Handlers :
        \/ \E kind \in Kinds, address \in Addresses : Attempt(h, kind, address)
        \/ WrongPassword(h) \/ RightPassword(h)
        \/ \E s \in rows : Refresh(h, s)
        \/ FindUser(h) \/ Renewed(h)
        \/ \E link \in links, address \in Addresses : ResetPassword(h, link, address)
        \/ CompareAndSet(h)
        \/ \E table \in SessionTables : Sweep(h, table)
        \/ \E status \in Statuses \ {"pending"} : SetStatus(h, status)
    \/ \E s \in rows : LogOut(s)
    \/ \E ttl \in LinkTimes : CreateResetLink(ttl)
    \/ CleanupSessions \/ ServerReset \/ ControllerRestarts \/ Tick

Spec == Init /\ [][Next]_vars

-----------------------------------------------------------------------------
\* Once a reset or a suspension has finished, a session from before it admits nobody; the only ones left over were
\* inserted by a sign-in or a refresh that had read the account before ("signs the account out everywhere").
SignedOut == \A s \in rows : Accepted(s) => s.late \/ s.gen >= done

\* However many people use reset links for one password at once, one of them replaces it.
OneUse == \A p \in DOMAIN resets : resets[p] <= 1

\* An address is banned for the failures of one window: those of an earlier window or an earlier ban do not count again.
BanIsEarned ==
    \A a \in Addresses : \A e \in Entry(failures, a) : e.bannedUntil > clock =>
        LET since == e.bannedUntil - BanTime
        IN FoldSet(LAMBDA t, n : n + misses[a][t], 0, {t \in 0..MaxTime : t <= since /\ t + FailureTime > since}) >= BanThreshold
=============================================================================

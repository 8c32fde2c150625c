---------------------------- MODULE PeopleProofs ----------------------------
(***************************************************************************)
(* Proofs about Accounts for any ways to sign in, client addresses,        *)
(* requests, limits and lives of sessions, tokens and links, and about     *)
(* Releases for any builds, requests and rollouts.                         *)
(***************************************************************************)
EXTENDS People, FiniteSetTheorems, TLAPS

-----------------------------------------------------------------------------
(* Types, of everything but the limiter's maps.                             *)

AccountRow == [pw : Nat, status : Statuses, gen : Nat]
SessionRow == [kind : {"console", "portal", "api", "app"}, gen : Nat, late : BOOLEAN, until : Nat, access : Nat]
HandlerState ==
    {Idle} \union [at : {"verify"}, kind : Kinds, address : Addresses, status : Statuses, gen : Nat]
           \union [at : {"find", "insert"}, gen : Nat, late : BOOLEAN]
           \union [at : {"hash"}, pw : Nat]
           \union [at : {"sweep"}, gen : Nat, todo : SUBSET SessionTables]
Typed ==
    /\ clock \in Nat /\ done \in Nat
    /\ account \in AccountRow
    /\ rows \subseteq SessionRow
    /\ handler \in [Handlers -> HandlerState]
    /\ resets \in [0..MaxEvents -> Nat]

LEMMA Lives == SessionTime \in Nat /\ AccessTime \in Nat /\ Kinds \subseteq {"console", "portal", "api", "app"}
BY AccountsAssumption

(* A session remembers the sign-outs its request knew, and whether one was ordered since. *)
LEMMA SessionIsTyped ==
    ASSUME Typed, NEW kind \in Kinds, NEW gen \in Nat
    PROVE  /\ NewSession(kind, gen) \in SessionRow
           /\ NewSession(kind, gen).gen = gen /\ NewSession(kind, gen).late = (gen # account.gen)
           /\ ApiSession(gen) \in SessionRow
           /\ ApiSession(gen).gen = gen /\ ApiSession(gen).late = (gen # account.gen)
<1>1. clock + SessionTime \in Nat /\ clock + AccessTime \in Nat /\ (gen # account.gen) \in BOOLEAN
  BY Lives DEF Typed
<1>2. WebSession(kind, gen) \in SessionRow
  BY <1>1, Lives DEF WebSession, SessionRow
<1>3. ApiSession(gen) \in SessionRow
  BY <1>1 DEF ApiSession, WebSession, SessionRow
<1>4. ApiSession(gen).gen = gen /\ ApiSession(gen).late = (gen # account.gen)
  BY DEF ApiSession, WebSession
<1>5. WebSession(kind, gen).gen = gen /\ WebSession(kind, gen).late = (gen # account.gen)
  BY DEF WebSession
<1> QED
  BY <1>2, <1>3, <1>4, <1>5 DEF NewSession

LEMMA TypedInit == Init => Typed
BY DEF Init, Typed, AccountRow, Statuses, HandlerState

(* What a request is doing, by where it is. *)
LEMMA RequestRows ==
    ASSUME Typed, NEW h \in Handlers
    PROVE  /\ handler[h].at = "verify" => handler[h].kind \in Kinds /\ handler[h].gen \in Nat
           /\ handler[h].at \in {"find", "insert"} => handler[h].gen \in Nat /\ handler[h].late \in BOOLEAN
           /\ handler[h].at = "hash" => handler[h].pw \in Nat
           /\ handler[h].at = "sweep" => handler[h].gen \in Nat /\ handler[h].todo \in SUBSET SessionTables
<1>1. handler[h] \in HandlerState
  BY DEF Typed
<1> QED
  BY <1>1 DEF HandlerState, Idle

LEMMA RenewedRow ==
    ASSUME Typed, NEW h \in Handlers, Renewed(h)
    PROVE  \E s \in SessionRow : rows' = rows \union {s} /\ (s.late \/ s.gen = account.gen)
<1>1. handler[h].gen \in Nat /\ handler[h].late \in BOOLEAN
  BY RequestRows DEF Renewed
<1>2. clock + SessionTime \in Nat /\ clock + AccessTime \in Nat
  BY Lives DEF Typed
<1>3. ApiSession(handler[h].gen) \in SessionRow /\ ApiSession(handler[h].gen).gen = handler[h].gen
      /\ ApiSession(handler[h].gen).late = (handler[h].gen # account.gen)
  BY <1>1, <1>2 DEF ApiSession, WebSession, SessionRow
<1>4. PICK next \in SessionRow : next = ApiSession(handler[h].gen)
  BY <1>3
<1>5. rows' = rows \union {[next EXCEPT !.late = next.late \/ handler[h].late]}
  BY <1>4 DEF Renewed
<1>6. PICK s : s = [next EXCEPT !.late = next.late \/ handler[h].late]
  OBVIOUS
<1>7. s \in SessionRow /\ s.gen = next.gen /\ s.late = (next.late \/ handler[h].late)
  BY <1>1, <1>6 DEF SessionRow
<1> QED
  BY <1>3, <1>4, <1>5, <1>6, <1>7

LEMMA CountsUp ==
    ASSUME NEW a \in AccountRow
    PROVE  /\ [a EXCEPT !.pw = a.pw + 1, !.gen = a.gen + 1] \in AccountRow
           /\ [a EXCEPT !.pw = a.pw + 1, !.status = "active"] \in AccountRow
           /\ \A status \in Statuses : [a EXCEPT !.status = status, !.gen = IF status = "active" THEN a.gen ELSE a.gen + 1] \in AccountRow
<1>1. a.pw + 1 \in Nat /\ a.gen + 1 \in Nat /\ a.gen \in Nat /\ "active" \in Statuses
  BY DEF AccountRow, Statuses
<1>2. [a EXCEPT !.pw = a.pw + 1, !.gen = a.gen + 1] \in AccountRow
  BY <1>1 DEF AccountRow
<1>3. [a EXCEPT !.pw = a.pw + 1, !.status = "active"] \in AccountRow
  BY <1>1 DEF AccountRow
<1>4. ASSUME NEW status \in Statuses
      PROVE  [a EXCEPT !.status = status, !.gen = IF status = "active" THEN a.gen ELSE a.gen + 1] \in AccountRow
  <2>1. PICK gen \in Nat : gen = IF status = "active" THEN a.gen ELSE a.gen + 1
    BY <1>1
  <2>2. [a EXCEPT !.status = status, !.gen = gen] \in AccountRow
    BY DEF AccountRow
  <2> QED
    BY <2>1, <2>2
<1> QED
  BY <1>2, <1>3, <1>4

LEMMA TypedStep == Typed /\ [Next]_vars => Typed'
<1> SUFFICES ASSUME Typed, [Next]_vars PROVE Typed'
  OBVIOUS
<1> USE DEF Typed
<1>a. ASSUME NEW h \in Handlers, NEW state \in HandlerState, Store(h, state) PROVE handler' \in [Handlers -> HandlerState]
  BY <1>a DEF Store
<1>b. Idle \in HandlerState
  BY DEF HandlerState
<1>c. account.pw \in Nat /\ account.gen \in Nat /\ account.status \in Statuses
  BY DEF AccountRow
<1>e. account \in AccountRow
  OBVIOUS
<1>d. ToSweep \in SUBSET SessionTables
  BY DEF ToSweep
<1>1. ASSUME NEW h \in Handlers, NEW kind \in Kinds, NEW address \in Addresses, Attempt(h, kind, address) PROVE Typed'
  <2>1. [at |-> "verify", kind |-> kind, address |-> address, status |-> account.status, gen |-> account.gen] \in HandlerState
    BY <1>c DEF HandlerState
  <2>2. handler' \in [Handlers -> HandlerState]
    BY <1>1, <1>a, <2>1 DEF Attempt
  <2> QED
    BY <1>1, <2>2 DEF Attempt
<1>2. ASSUME NEW h \in Handlers, WrongPassword(h) PROVE Typed'
  BY <1>2, <1>a, <1>b DEF WrongPassword
<1>3. ASSUME NEW h \in Handlers, RightPassword(h) PROVE Typed'
  <2>1. handler[h].kind \in Kinds /\ handler[h].gen \in Nat
    BY <1>3, RequestRows DEF RightPassword
  <2>2. NewSession(handler[h].kind, handler[h].gen) \in SessionRow
    BY <2>1, SessionIsTyped
  <2>3. rows' \subseteq SessionRow
    BY <1>3, <2>2 DEF RightPassword
  <2> QED
    BY <1>3, <1>a, <1>b, <2>3 DEF RightPassword
<1>4. ASSUME NEW h \in Handlers, NEW s \in rows, Refresh(h, s) PROVE Typed'
  <2>1. [at |-> "find", gen |-> s.gen, late |-> s.late] \in HandlerState
    BY DEF SessionRow, HandlerState
  <2>2. handler' \in [Handlers -> HandlerState]
    BY <1>4, <1>a, <1>b, <2>1 DEF Refresh
  <2> QED
    BY <1>4, <2>2 DEF Refresh
<1>5. ASSUME NEW h \in Handlers, FindUser(h) PROVE Typed'
  <2>1. handler[h] \in [at : {"find", "insert"}, gen : Nat, late : BOOLEAN]
    BY <1>5 DEF FindUser, HandlerState, Idle
  <2>2. [handler[h] EXCEPT !.at = "insert"] \in HandlerState
    BY <2>1 DEF HandlerState
  <2> QED
    BY <1>5, <1>a, <1>b, <2>2 DEF FindUser
<1>6. ASSUME NEW h \in Handlers, Renewed(h) PROVE Typed'
  <2>1. rows' \subseteq SessionRow
    BY <1>6, RenewedRow
  <2> QED
    BY <1>6, <1>a, <1>b, <2>1 DEF Renewed
<1>7. ASSUME NEW h \in Handlers, NEW link \in links, NEW address \in Addresses, ResetPassword(h, link, address) PROVE Typed'
  <2>1. [at |-> "hash", pw |-> account.pw] \in HandlerState
    BY <1>c DEF HandlerState
  <2>2. handler' \in [Handlers -> HandlerState]
    BY <1>7, <1>a, <1>b, <2>1 DEF ResetPassword
  <2> QED
    BY <1>7, <2>2 DEF ResetPassword
<1>8. ASSUME NEW h \in Handlers, CompareAndSet(h) PROVE Typed'
  <2>1. [at |-> "sweep", gen |-> account.gen + 1, todo |-> ToSweep] \in HandlerState
    BY <1>c, <1>d DEF HandlerState
  <2>2. handler' \in [Handlers -> HandlerState]
    BY <1>8, <1>a, <1>b, <2>1 DEF CompareAndSet
  <2>3. account' = account \/ account' = [account EXCEPT !.pw = account.pw + 1, !.gen = account.gen + 1]
    BY <1>8 DEF CompareAndSet
  <2>f. [account EXCEPT !.pw = account.pw + 1, !.gen = account.gen + 1] \in AccountRow
    BY <1>c, <1>e, CountsUp
  <2>4. account' \in AccountRow
    BY <1>e, <2>3, <2>f
  <2>5. resets' \in [0..MaxEvents -> Nat]
    BY <1>8 DEF CompareAndSet
  <2> QED
    BY <1>8, <2>2, <2>4, <2>5 DEF CompareAndSet
<1>9. ASSUME NEW h \in Handlers, NEW table \in SessionTables, Sweep(h, table) PROVE Typed'
  <2>1. handler[h] \in [at : {"sweep"}, gen : Nat, todo : SUBSET SessionTables]
    BY <1>9 DEF Sweep, HandlerState, Idle
  <2>2. [handler[h] EXCEPT !.todo = handler[h].todo \ {table}] \in HandlerState
    BY <2>1 DEF HandlerState
  <2>3. handler' \in [Handlers -> HandlerState]
    BY <1>9, <1>a, <1>b, <2>2 DEF Sweep
  <2>4. rows' \subseteq SessionRow /\ done' \in Nat
    BY <1>9, <2>1 DEF Sweep
  <2> QED
    BY <1>9, <2>3, <2>4 DEF Sweep
<1>10. ASSUME NEW h \in Handlers, NEW status \in Statuses, SetStatus(h, status) PROVE Typed'
  <2>1. [at |-> "sweep", gen |-> account.gen + 1, todo |-> ToSweep] \in HandlerState
    BY <1>c, <1>d DEF HandlerState
  <2>2. handler' \in [Handlers -> HandlerState]
    BY <1>10, <1>a, <1>b, <2>1 DEF SetStatus
  <2>3. account' = [account EXCEPT !.status = status, !.gen = IF status = "active" THEN account.gen ELSE account.gen + 1]
    BY <1>10 DEF SetStatus
  <2>4. account' \in AccountRow
    BY <1>e, <2>3, CountsUp
  <2> QED
    BY <1>10, <2>2, <2>4 DEF SetStatus
<1>11. ASSUME NEW s \in rows, LogOut(s) PROVE Typed'
  BY <1>11 DEF LogOut
<1>12. ASSUME NEW ttl \in LinkTimes, CreateResetLink(ttl) PROVE Typed'
  BY <1>12 DEF CreateResetLink
<1>13. CASE CleanupSessions
  BY <1>13 DEF CleanupSessions
<1>14. CASE ServerReset
  <2>1. account' = [account EXCEPT !.pw = account.pw + 1, !.status = "active"]
    BY <1>14 DEF ServerReset
  <2>2. account' \in AccountRow
    BY <1>e, <2>1, CountsUp
  <2> QED
    BY <1>14, <2>2 DEF ServerReset
<1>15. CASE ControllerRestarts
  <2>1. handler' \in [Handlers -> HandlerState]
    BY <1>15, <1>b DEF ControllerRestarts
  <2> QED
    BY <1>15, <2>1 DEF ControllerRestarts
<1>16. CASE Tick
  BY <1>16 DEF Tick
<1>17. CASE UNCHANGED vars
  BY <1>17 DEF vars
<1> QED
  BY <1>1, <1>2, <1>3, <1>4, <1>5, <1>6, <1>7, <1>8, <1>9, <1>10, <1>11, <1>12, <1>13, <1>14, <1>15, <1>16, <1>17 DEF Next

(* Types hold, whatever interleaves. *)
THEOREM AccountTyped == Spec => []Typed
BY TypedInit, TypedStep, PTL DEF Spec

-----------------------------------------------------------------------------
(* OneUse. *)

(* A password that was replaced is not the account's, and was replaced once. *)
Replaced == \A p \in 0..MaxEvents : resets[p] <= 1 /\ (p >= account.pw => resets[p] = 0)

LEMMA PasswordsMove ==
    ASSUME Typed, [Next]_vars
    PROVE  \/ account'.pw = account.pw /\ resets' = resets
           \/ account'.pw = account.pw + 1 /\ resets' \in {resets, [resets EXCEPT ![account.pw] = resets[account.pw] + 1]}
<1>0. account \in AccountRow
  BY DEF Typed
<1>1. ASSUME NEW h \in Handlers, CompareAndSet(h)
      PROVE  \/ account' = account /\ resets' = resets
             \/ /\ account' = [account EXCEPT !.pw = account.pw + 1, !.gen = account.gen + 1]
                /\ resets' = [resets EXCEPT ![account.pw] = resets[account.pw] + 1]
  BY <1>1 DEF CompareAndSet, StillThat
<1>2. ASSUME NEW h \in Handlers, NEW status \in Statuses, SetStatus(h, status)
      PROVE  /\ account' = [account EXCEPT !.status = status, !.gen = IF status = "active" THEN account.gen ELSE account.gen + 1]
             /\ resets' = resets
  BY <1>2 DEF SetStatus
<1>3. CASE ServerReset
  <2>1. account' = [account EXCEPT !.pw = account.pw + 1, !.status = "active"] /\ resets' = resets
    BY <1>3 DEF ServerReset
  <2> QED
    BY <1>0, <2>1 DEF AccountRow
<1>4. ASSUME NEW h \in Handlers, CompareAndSet(h)
      PROVE  \/ account'.pw = account.pw /\ resets' = resets
             \/ account'.pw = account.pw + 1 /\ resets' = [resets EXCEPT ![account.pw] = resets[account.pw] + 1]
  BY <1>0, <1>1, <1>4 DEF AccountRow
<1>5. ASSUME NEW h \in Handlers, NEW status \in Statuses, SetStatus(h, status) PROVE account'.pw = account.pw /\ resets' = resets
  BY <1>0, <1>2, <1>5 DEF AccountRow
<1>6. ASSUME UNCHANGED <<account, resets>> PROVE account'.pw = account.pw /\ resets' = resets
  BY <1>6
<1> QED
  BY <1>3, <1>4, <1>5, <1>6 DEF Next, vars, Attempt, WrongPassword, RightPassword, Refresh, FindUser, Renewed, ResetPassword, Sweep,
     LogOut, CreateResetLink, CleanupSessions, ControllerRestarts, Tick

(* However many people use reset links for one password at once, one of them replaces it (resetPassword compares the  *)
(* hash it read when it stores the new one).                                                                          *)
THEOREM OneUseOnly == Spec => []OneUse
<1>1. Init => Replaced
  BY DEF Init, Replaced
<1>2. Typed /\ Replaced /\ [Next]_vars => Replaced'
  <2> SUFFICES ASSUME Typed, Replaced, [Next]_vars, NEW p \in 0..MaxEvents
               PROVE  resets'[p] <= 1 /\ (p >= account'.pw => resets'[p] = 0)
    BY DEF Replaced
  <2>1. resets[p] <= 1 /\ (p >= account.pw => resets[p] = 0) /\ resets[p] \in Nat /\ account.pw \in Nat
    BY DEF Replaced, Typed, AccountRow
  <2>2. \/ account'.pw = account.pw /\ resets' = resets
        \/ account'.pw = account.pw + 1 /\ resets' \in {resets, [resets EXCEPT ![account.pw] = resets[account.pw] + 1]}
    BY PasswordsMove
  <2>3. resets'[p] = resets[p] \/ (p = account.pw /\ resets'[p] = resets[p] + 1 /\ account'.pw = account.pw + 1)
    BY <2>2 DEF Typed
  <2> QED
    BY <2>1, <2>2, <2>3
<1>3. Typed /\ Replaced => OneUse
  BY DEF Typed, Replaced, OneUse
<1> QED
  BY <1>1, <1>2, <1>3, AccountTyped, PTL DEF Spec

-----------------------------------------------------------------------------
(* SignedOut. *)

(* A session from before a sign-out is gone from every table the sign-out has reached, unless a request that had read   *)
(* the account earlier inserted it since; once one has reached every table, it is gone altogether.                      *)
Since(s, gen) == s.late \/ s.gen >= gen
Remaining ==
    \A h \in Handlers : handler[h].at = "sweep" =>
        /\ handler[h].gen <= account.gen
        /\ \A s \in rows : TableOf(s.kind) \notin handler[h].todo => Since(s, handler[h].gen)
AllOut == done <= account.gen /\ \A s \in rows : Since(s, done)

LEMMA Tables ==
    ASSUME Typed, NEW s \in rows
    PROVE  TableOf(s.kind) \in SessionTables
BY DEF Typed, SessionRow, TableOf, SessionTables

(* A row that was not there is from the account as it is now, or known to come late. *)
LEMMA RowsComeLate ==
    ASSUME Typed, [Next]_vars, NEW s \in rows', s \notin rows
    PROVE  Since(s, account.gen) /\ account'.gen = account.gen
<1>0. rows \subseteq SessionRow
  BY DEF Typed
<1>1. ASSUME NEW h \in Handlers, RightPassword(h) PROVE Since(s, account.gen) /\ account'.gen = account.gen
  <2>1. handler[h].kind \in Kinds /\ handler[h].gen \in Nat
    BY <1>1, RequestRows DEF RightPassword
  <2>2. NewSession(handler[h].kind, handler[h].gen) \in SessionRow
        /\ NewSession(handler[h].kind, handler[h].gen).gen = handler[h].gen
        /\ NewSession(handler[h].kind, handler[h].gen).late = (handler[h].gen # account.gen)
    BY <2>1, SessionIsTyped
  <2>3. s = NewSession(handler[h].kind, handler[h].gen)
    BY <1>1 DEF RightPassword
  <2>4. account.gen \in Nat
    BY DEF Typed, AccountRow
  <2>5. s.late \/ s.gen = account.gen
    BY <2>2, <2>3
  <2>6. Since(s, account.gen)
    BY <2>4, <2>5 DEF Since
  <2> QED
    BY <1>1, <2>6 DEF RightPassword
<1>2. ASSUME NEW h \in Handlers, Renewed(h) PROVE Since(s, account.gen) /\ account'.gen = account.gen
  <2>1. PICK n \in SessionRow : rows' = rows \union {n} /\ (n.late \/ n.gen = account.gen)
    BY <1>2, RenewedRow
  <2>2. account.gen \in Nat
    BY DEF Typed, AccountRow
  <2> QED
    BY <1>2, <2>1, <2>2 DEF Renewed, Since
<1> QED
  BY <1>1, <1>2 DEF Next, vars, Attempt, WrongPassword, Refresh, FindUser, ResetPassword, Sweep, CompareAndSet, SetStatus,
     ServerReset, LogOut, CreateResetLink, CleanupSessions, ControllerRestarts, Tick

(* No step takes an ordered sign-out back. *)
LEMMA SignOutsCount ==
    ASSUME Typed, [Next]_vars
    PROVE  account.gen \in Nat /\ account'.gen \in Nat /\ account'.gen >= account.gen
<1>0. account \in AccountRow /\ account.gen \in Nat
  BY DEF Typed, AccountRow
<1>1. ASSUME NEW h \in Handlers, CompareAndSet(h) PROVE account'.gen \in {account.gen, account.gen + 1}
  <2>1. account' = account \/ account' = [account EXCEPT !.pw = account.pw + 1, !.gen = account.gen + 1]
    BY <1>1 DEF CompareAndSet
  <2> QED
    BY <1>0, <2>1 DEF AccountRow
<1>2. ASSUME NEW h \in Handlers, NEW status \in Statuses, SetStatus(h, status) PROVE account'.gen \in {account.gen, account.gen + 1}
  <2>1. account' = [account EXCEPT !.status = status, !.gen = IF status = "active" THEN account.gen ELSE account.gen + 1]
    BY <1>2 DEF SetStatus
  <2> QED
    BY <1>0, <2>1 DEF AccountRow
<1>3. ASSUME ServerReset PROVE account'.gen = account.gen
  <2>1. account' = [account EXCEPT !.pw = account.pw + 1, !.status = "active"]
    BY <1>3 DEF ServerReset
  <2> QED
    BY <1>0, <2>1 DEF AccountRow
<1>4. ASSUME account' = account PROVE account'.gen = account.gen
  BY <1>4
<1>5. account'.gen \in {account.gen, account.gen + 1}
  BY <1>1, <1>2, <1>3, <1>4 DEF Next, vars, Attempt, WrongPassword, RightPassword, Refresh, FindUser, Renewed, ResetPassword, Sweep,
     LogOut, CreateResetLink, CleanupSessions, ControllerRestarts, Tick
<1> QED
  BY <1>0, <1>5

(* What a step does to the requests that are removing sessions: it leaves one alone, starts one for all tables, *)
(* or clears one table of one.                                                                                  *)
LEMMA SweepsMove ==
    ASSUME Typed, [Next]_vars, NEW h \in Handlers, handler'[h].at = "sweep"
    PROVE  \/ handler'[h] = handler[h]
           \/ handler'[h].gen = account'.gen /\ handler'[h].todo = SessionTables
           \/ \E table \in SessionTables :
                 /\ handler[h].at = "sweep" /\ handler'[h].gen = handler[h].gen
                 /\ handler'[h].todo = handler[h].todo \ {table}
                 /\ \A s \in rows' : TableOf(s.kind) # table
                 /\ rows' \subseteq rows
<1> DEFINE Goal == \/ handler'[h] = handler[h]
                   \/ handler'[h].gen = account'.gen /\ handler'[h].todo = SessionTables
                   \/ \E table \in SessionTables :
                         /\ handler[h].at = "sweep" /\ handler'[h].gen = handler[h].gen
                         /\ handler'[h].todo = handler[h].todo \ {table}
                         /\ \A s \in rows' : TableOf(s.kind) # table
                         /\ rows' \subseteq rows
<1> SUFFICES Goal
  OBVIOUS
<1>0. handler \in [Handlers -> HandlerState] /\ account \in AccountRow
  BY DEF Typed
<1>a. ASSUME NEW g \in Handlers, NEW state, Store(g, state), state.at # "sweep" PROVE handler'[h] = handler[h]
  BY <1>0, <1>a DEF Store
<1>b. Idle.at # "sweep"
  BY DEF Idle
<1>c. ASSUME NEW g \in Handlers, NEW state, Store(g, state) PROVE handler'[h] = handler[h] \/ (g = h /\ handler'[h] = state)
  BY <1>0, <1>c DEF Store
<1>1. ASSUME NEW g \in Handlers, CompareAndSet(g) PROVE Goal
  <2>1. CASE Store(g, Idle)
    BY <1>a, <1>b, <2>1
  <2>2. CASE account' = [account EXCEPT !.pw = account.pw + 1, !.gen = account.gen + 1]
             /\ Store(g, [at |-> "sweep", gen |-> account.gen + 1, todo |-> ToSweep])
    <3>1. account'.gen = account.gen + 1
      BY <1>0, <2>2 DEF AccountRow
    <3> QED
      BY <1>c, <2>2, <3>1 DEF ToSweep
  <2> QED
    BY <1>1, <2>1, <2>2 DEF CompareAndSet
<1>2. ASSUME NEW g \in Handlers, NEW status \in Statuses, SetStatus(g, status) PROVE Goal
  <2>1. CASE status = "active"
    BY <1>2, <1>a, <1>b, <2>1 DEF SetStatus
  <2>2. CASE status # "active"
    <3>1. account' = [account EXCEPT !.status = status, !.gen = account.gen + 1]
          /\ Store(g, [at |-> "sweep", gen |-> account.gen + 1, todo |-> ToSweep])
      BY <1>2, <2>2 DEF SetStatus
    <3>2. account'.gen = account.gen + 1
      BY <1>0, <3>1 DEF AccountRow
    <3> QED
      BY <1>c, <3>1, <3>2 DEF ToSweep
  <2> QED
    BY <2>1, <2>2
<1>3. ASSUME NEW g \in Handlers, NEW table \in SessionTables, Sweep(g, table) PROVE Goal
  <2>1. CASE Store(g, Idle)
    BY <1>a, <1>b, <2>1
  <2>2. CASE Store(g, [handler[g] EXCEPT !.todo = handler[g].todo \ {table}])
    <3>1. handler[g] \in [at : {"sweep"}, gen : Nat, todo : SUBSET SessionTables]
      BY <1>0, <1>3 DEF Sweep, HandlerState, Idle
    <3>2. [handler[g] EXCEPT !.todo = handler[g].todo \ {table}].gen = handler[g].gen
          /\ [handler[g] EXCEPT !.todo = handler[g].todo \ {table}].todo = handler[g].todo \ {table}
      BY <3>1
    <3>3. rows' \subseteq rows /\ \A s \in rows' : TableOf(s.kind) # table
      BY <1>3 DEF Sweep
    <3> QED
      BY <1>c, <1>3, <2>2, <3>2, <3>3 DEF Sweep
  <2> QED
    BY <1>3, <2>1, <2>2 DEF Sweep
<1>4. ASSUME NEW g \in Handlers, FindUser(g) PROVE Goal
  <2>1. handler[g] \in [at : {"find", "insert"}, gen : Nat, late : BOOLEAN]
    BY <1>0, <1>4 DEF FindUser, HandlerState, Idle
  <2>2. [handler[g] EXCEPT !.at = "insert"].at # "sweep"
    BY <2>1
  <2>3. Store(g, Idle) \/ Store(g, [handler[g] EXCEPT !.at = "insert"])
    BY <1>4 DEF FindUser
  <2> QED
    BY <1>a, <1>b, <2>2, <2>3
<1>5. ASSUME NEW g \in Handlers, NEW kind \in Kinds, NEW address \in Addresses, Attempt(g, kind, address) PROVE Goal
  BY <1>5, <1>a DEF Attempt
<1>6. ASSUME NEW g \in Handlers, NEW s \in rows, Refresh(g, s) PROVE Goal
  BY <1>6, <1>a, <1>b DEF Refresh
<1>7. ASSUME NEW g \in Handlers, NEW link \in links, NEW address \in Addresses, ResetPassword(g, link, address) PROVE Goal
  BY <1>7, <1>a, <1>b DEF ResetPassword
<1>8. ASSUME NEW g \in Handlers, Store(g, Idle) PROVE Goal
  BY <1>8, <1>a, <1>b
<1>9. CASE ControllerRestarts
  BY <1>9, <1>b DEF ControllerRestarts
<1>10. CASE handler' = handler
  BY <1>10
<1> QED
  BY <1>1, <1>2, <1>3, <1>4, <1>5, <1>6, <1>7, <1>8, <1>9, <1>10 DEF Next, vars, WrongPassword, RightPassword, Renewed,
     LogOut, CreateResetLink, CleanupSessions, ServerReset, Tick

(* The sign-out that finishes has reached every table. *)
LEMMA DoneMoves ==
    ASSUME Typed, Remaining, [Next]_vars
    PROVE  \/ done' = done
           \/ done' <= account.gen /\ account'.gen = account.gen /\ \A s \in rows' : Since(s, done')
<1>1. ASSUME NEW h \in Handlers, NEW table \in SessionTables, Sweep(h, table), done' # done
      PROVE  done' <= account.gen /\ account'.gen = account.gen /\ \A s \in rows' : Since(s, done')
  <2>1. handler[h].todo = {table} /\ done' = handler[h].gen /\ handler[h].at = "sweep"
    BY <1>1 DEF Sweep
  <2>2. rows' \subseteq rows /\ \A s \in rows' : TableOf(s.kind) # table
    BY <1>1 DEF Sweep
  <2>3. \A s \in rows' : TableOf(s.kind) \notin handler[h].todo
    BY <2>1, <2>2
  <2>4. \A s \in rows' : Since(s, handler[h].gen)
    BY <2>1, <2>2, <2>3 DEF Remaining
  <2> QED
    BY <1>1, <2>1, <2>4 DEF Remaining, Sweep
<1> QED
  BY <1>1 DEF Next, vars, Attempt, WrongPassword, RightPassword, Refresh, FindUser, Renewed, ResetPassword, CompareAndSet,
     SetStatus, ServerReset, LogOut, CreateResetLink, CleanupSessions, ControllerRestarts, Tick

LEMMA SinceEarlier ==
    ASSUME NEW s \in SessionRow, NEW a \in Nat, NEW b \in Nat, a <= b, Since(s, b)
    PROVE  Since(s, a)
BY DEF SessionRow, Since

LEMMA RemainingStep == Typed /\ Remaining /\ [Next]_vars => Remaining'
<1> SUFFICES ASSUME Typed, Remaining, [Next]_vars, NEW h \in Handlers, handler'[h].at = "sweep"
             PROVE  /\ handler'[h].gen <= account'.gen
                    /\ \A s \in rows' : TableOf(s.kind) \notin handler'[h].todo => Since(s, handler'[h].gen)
  BY DEF Remaining
<1>1. account.gen \in Nat /\ account'.gen \in Nat /\ account'.gen >= account.gen
  BY SignOutsCount
<1>2. Typed'
  BY TypedStep
<1>3. \A s \in rows' : TableOf(s.kind) \in SessionTables
  BY <1>2 DEF Typed, SessionRow, TableOf, SessionTables
<1>4. CASE handler'[h].gen = account'.gen /\ handler'[h].todo = SessionTables
  BY <1>1, <1>3, <1>4
<1>5. ASSUME handler[h].at = "sweep", handler'[h].gen = handler[h].gen,
             \A s \in rows' : TableOf(s.kind) \notin handler'[h].todo => s \notin rows \/ TableOf(s.kind) \notin handler[h].todo
      PROVE  /\ handler'[h].gen <= account'.gen
             /\ \A s \in rows' : TableOf(s.kind) \notin handler'[h].todo => Since(s, handler'[h].gen)
  <2>1. handler[h].gen \in Nat /\ handler[h].gen <= account.gen
    BY <1>5, RequestRows DEF Remaining
  <2>2. ASSUME NEW s \in rows', TableOf(s.kind) \notin handler'[h].todo PROVE Since(s, handler'[h].gen)
    <3>1. CASE s \notin rows
      <4>1. Since(s, account.gen)
        BY <3>1, RowsComeLate
      <4>2. s \in SessionRow
        BY <1>2 DEF Typed
      <4> QED
        BY <1>1, <1>5, <2>1, <4>1, <4>2, SinceEarlier
    <3>2. CASE s \in rows
      BY <1>5, <2>2, <3>2 DEF Remaining
    <3> QED
      BY <3>1, <3>2
  <2> QED
    BY <1>1, <1>5, <2>1, <2>2
<1>6. CASE handler'[h] = handler[h]
  BY <1>5, <1>6
<1>7. CASE \E table \in SessionTables :
                 /\ handler[h].at = "sweep" /\ handler'[h].gen = handler[h].gen
                 /\ handler'[h].todo = handler[h].todo \ {table}
                 /\ \A s \in rows' : TableOf(s.kind) # table
                 /\ rows' \subseteq rows
  BY <1>5, <1>7
<1> QED
  BY <1>4, <1>6, <1>7, SweepsMove

LEMMA AllOutStep == Typed /\ Remaining /\ AllOut /\ [Next]_vars => AllOut'
<1> SUFFICES ASSUME Typed, Remaining, AllOut, [Next]_vars PROVE AllOut'
  OBVIOUS
<1>1. account.gen \in Nat /\ account'.gen \in Nat /\ account'.gen >= account.gen
  BY SignOutsCount
<1>2. Typed'
  BY TypedStep
<1>3. CASE done' <= account.gen /\ account'.gen = account.gen /\ \A s \in rows' : Since(s, done')
  BY <1>3 DEF AllOut
<1>4. CASE done' = done
  <2>1. done \in Nat /\ done <= account.gen
    BY DEF Typed, AllOut
  <2>2. ASSUME NEW s \in rows' PROVE Since(s, done)
    <3>1. CASE s \notin rows
      <4>1. Since(s, account.gen)
        BY <3>1, RowsComeLate
      <4>2. s \in SessionRow
        BY <1>2 DEF Typed
      <4> QED
        BY <1>1, <2>1, <4>1, <4>2, SinceEarlier
    <3>2. CASE s \in rows
      BY <3>2 DEF AllOut
    <3> QED
      BY <3>1, <3>2
  <2> QED
    BY <1>1, <1>4, <2>1, <2>2 DEF AllOut
<1> QED
  BY <1>3, <1>4, DoneMoves

(* Once a reset or a suspension has gone through its three tables, no session from before it is accepted, except one a *)
(* sign-in or a refresh that had read the account earlier inserted since (replaceUserPassword and setUserStatus).      *)
THEOREM SignsOutEverywhere == Spec => []SignedOut
<1>1. Init => Remaining /\ AllOut
  BY DEF Init, Remaining, AllOut, Idle
<1>2. AllOut => SignedOut
  BY DEF AllOut, Since, SignedOut
<1> QED
  BY <1>1, <1>2, AccountTyped, RemainingStep, AllOutStep, PTL DEF Spec

-----------------------------------------------------------------------------
(* Releases: what is served. Everything is said build by build, of the builds *)
(* that no two requests changed at once and none left half-way.                *)

ReleaseRow == [status : {"draft", "published", "withdrawn"}, channel : {"beta", "stable"}, rollout : Nat, id : Nat,
               digest : Nat, mirrored : BOOLEAN, attempts : Nat]
UploadRequest == [at : {"link", "inspect", "insert"}, build : Builds, content : Nat \ {0}, channel : {"beta", "stable"},
                  publish : BOOLEAN, checked : BOOLEAN]
ChangeRequest == [at : {"files", "change", "check"}, action : Re!Actions, build : Builds, id : Nat, rollout : Nat, percent : Nat]
MinimumRequest == [at : {"minimum"}, minimum : Nat, reached : BOOLEAN]
RequestState == {Re!Idle} \union UploadRequest \union ChangeRequest \union MinimumRequest
CopyState == {Re!Idle} \union [at : {"copy", "record"}, build : Builds, id : Nat, content : Nat]

ReleaseTyped ==
    /\ releases \in [Builds -> {Re!NoRow} \union ReleaseRow]
    /\ file \in [Builds -> Nat] /\ cdn \in [Builds -> Nat]
    /\ minBuild \in Nat /\ uploads \in Nat
    /\ request \in [Requests -> RequestState]
    /\ copying \in CopyState
    /\ outdated \in BOOLEAN

(* Request h works on build b. *)
On(h, b) == request[h].at \in {"link", "inspect", "insert", "files", "change", "check"} /\ request[h].build = b
Deleting(b) == \E h \in Requests : On(h, b) /\ request[h].at = "change" /\ request[h].action = "delete"

(* Rows and copies are numbered by uploads; a release is copied once. *)
Numbered == \A b \in Builds : releases[b] # Re!NoRow => releases[b].id <= uploads /\ releases[b].digest # 0
CopyNumbered ==
    copying # Re!Idle => /\ copying.id <= uploads
                         /\ releases[copying.build] # Re!NoRow => ~releases[copying.build].mirrored

(* An upload holds the key until its row is there. *)
UploadKnows(h, b) ==
    /\ On(h, b) /\ request[h].at \in {"link", "inspect", "insert"} => releases[b] = Re!NoRow /\ request[h].content # 0
    /\ On(h, b) /\ request[h].at = "link" => file[b] = 0
    /\ On(h, b) /\ request[h].at \in {"inspect", "insert"} => file[b] = request[h].content

(* A change is about the row it read, whose rollout stays until the change. *)
ChangeKnows(h, b) ==
    On(h, b) /\ request[h].at \in {"files", "change", "check"} =>
        /\ releases[b] # Re!NoRow /\ releases[b].id = request[h].id
        /\ request[h].action = "delete" => releases[b].status # "published" /\ request[h].at # "check"
        /\ request[h].action # "delete" => request[h].at # "files"
        /\ request[h].at # "check" => releases[b].rollout = request[h].rollout

(* The Controller and the mirror have what was recorded, until the files are deleted. *)
FileKept(b) ==
    releases[b] # Re!NoRow =>
        /\ Deleting(b) => file[b] = 0
        /\ ~Deleting(b) => file[b] = releases[b].digest
        /\ releases[b].mirrored /\ ~Deleting(b) => cdn[b] = releases[b].digest

(* What the mirror loop copies is the installer of the row it read, or nothing. *)
CopyKnows(b) ==
    copying # Re!Idle /\ copying.build = b /\ releases[b] # Re!NoRow /\ releases[b].id = copying.id =>
        /\ copying.content \in {0, releases[b].digest}
        /\ copying.at = "record" => copying.content # 0 /\ (Deleting(b) \/ cdn[b] = copying.content)

BuildGood(b) ==
    /\ \A g, h \in Requests : On(g, b) /\ On(h, b) => g = h
    /\ \A h \in Requests : UploadKnows(h, b) /\ ChangeKnows(h, b)
    /\ FileKept(b) /\ CopyKnows(b)

ReleaseInv == ReleaseTyped /\ Numbered /\ CopyNumbered /\ \A b \in Builds \ crossed : BuildGood(b)

LEMMA ReleasesRun == PeopleSpec => Re!Init /\ [][Re!Next]_releaseVars
<1>1. PeopleInit => Re!Init
  BY DEF PeopleInit
<1>2. [PeopleNext]_<<part, vars, releaseVars>> => [Re!Next]_releaseVars
  BY DEF PeopleNext, releaseVars
<1> QED
  BY <1>1, <1>2, PTL DEF PeopleSpec

LEMMA ReleaseConstants ==
    /\ \A b \in Builds : b.arch \in Architectures /\ b.number \in Nat \ {0}
    /\ First \in Builds /\ IsFiniteSet(Builds)
    /\ Requests \subseteq Nat /\ Percents \subseteq Nat /\ 100 \in Percents /\ MaxReleaseEvents \in Nat
<1>1. \A S : Re!IsFiniteSet(S) <=> IsFiniteSet(S)
  BY DEF Re!IsFiniteSet, IsFiniteSet
<1> QED
  BY <1>1, Assumption DEF Re!ReleasesAssumption

LEMMA ReleasesInit == Re!Init => ReleaseInv
<1> SUFFICES ASSUME Re!Init PROVE ReleaseInv
  OBVIOUS
<1> DEFINE first == [status |-> "published", channel |-> "stable", rollout |-> 100, id |-> 1, digest |-> 1, mirrored |-> FALSE, attempts |-> 0]
<1>1. /\ releases = [b \in Builds |-> IF b = First THEN first ELSE Re!NoRow]
      /\ file = [b \in Builds |-> IF b = First THEN 1 ELSE 0] /\ cdn = [b \in Builds |-> 0]
      /\ minBuild = 0 /\ uploads = 1 /\ request = [h \in Requests |-> Re!Idle] /\ copying = Re!Idle /\ outdated = FALSE
  BY DEF Re!Init
<1>2. first \in ReleaseRow /\ first # Re!NoRow
  BY DEF ReleaseRow, Re!NoRow
<1>3. Re!Idle.at = "idle"
  BY DEF Re!Idle
<1>4. ReleaseTyped
  BY <1>1, <1>2, ReleaseConstants DEF ReleaseTyped, RequestState, CopyState
<1>5. Numbered /\ CopyNumbered
  BY <1>1 DEF Numbered, CopyNumbered
<1>6. \A h \in Requests, b \in Builds : ~On(h, b)
  BY <1>1, <1>3 DEF On
<1>7. \A b \in Builds : ~Deleting(b)
  BY <1>6 DEF Deleting
<1>8. \A b \in Builds : BuildGood(b)
  BY <1>1, <1>6, <1>7 DEF BuildGood, UploadKnows, ChangeKnows, FileKept, CopyKnows
<1> QED
  BY <1>4, <1>5, <1>8 DEF ReleaseInv

-----------------------------------------------------------------------------
(* A step of one request on one build.                                        *)

LocalStep(h, b) ==
    /\ \A c \in Builds : c # b => releases'[c] = releases[c] /\ file'[c] = file[c] /\ cdn'[c] = cdn[c]
    /\ \A g \in Requests : g # h => request'[g] = request[g]
    /\ \A c \in Builds : c # b => ~On(h, c) /\ ~On(h, c)'
    /\ crossed \subseteq crossed'
    /\ b \notin crossed' => \A g \in Requests : g # h => ~On(g, b)
    /\ copying' = copying

LEMMA BuildKeeps ==
    ASSUME NEW c \in Builds, BuildGood(c),
           \A g \in Requests : (On(g, c)' <=> On(g, c)) /\ (On(g, c) => request'[g] = request[g]),
           releases'[c] = releases[c], file'[c] = file[c], cdn'[c] = cdn[c],
           copying' = copying \/ copying' = Re!Idle \/ copying'.build # c
    PROVE  BuildGood(c)'
<1>2. Deleting(c)' <=> Deleting(c)
  BY DEF Deleting
<1>4. \A g \in Requests : UploadKnows(g, c)' /\ ChangeKnows(g, c)'
  BY DEF BuildGood, UploadKnows, ChangeKnows
<1>5. FileKept(c)' /\ CopyKnows(c)'
  BY <1>2 DEF BuildGood, FileKept, CopyKnows
<1>6. \A g, k \in Requests : On(g, c)' /\ On(k, c)' => g = k
  BY DEF BuildGood
<1> QED
  BY <1>4, <1>5, <1>6 DEF BuildGood

LEMMA OtherBuildsKeep ==
    ASSUME NEW h \in Requests, NEW b \in Builds, LocalStep(h, b), NEW c \in Builds, c # b, BuildGood(c)
    PROVE  BuildGood(c)'
<1>1. \A g \in Requests : (On(g, c)' <=> On(g, c)) /\ (On(g, c) => request'[g] = request[g])
  BY DEF LocalStep, On
<1>2. releases'[c] = releases[c] /\ file'[c] = file[c] /\ cdn'[c] = cdn[c] /\ copying' = copying
  BY DEF LocalStep
<1> QED
  BY <1>1, <1>2, BuildKeeps

LEMMA LocalKeeps ==
    ASSUME ReleaseInv, NEW h \in Requests, NEW b \in Builds, LocalStep(h, b),
           ReleaseTyped', Numbered', CopyNumbered',
           b \notin crossed' => UploadKnows(h, b)' /\ ChangeKnows(h, b)' /\ FileKept(b)' /\ CopyKnows(b)'
    PROVE  ReleaseInv'
<1>1. ASSUME NEW c \in Builds, c # b, c \notin crossed' PROVE BuildGood(c)'
  <2>1. BuildGood(c) /\ ReleaseTyped
    BY <1>1 DEF ReleaseInv, LocalStep
  <2> QED
    BY <1>1, <2>1, OtherBuildsKeep
<1>2. ASSUME b \notin crossed' PROVE BuildGood(b)'
  <2>1. \A g \in Requests : g # h => ~On(g, b)'
    BY <1>2 DEF LocalStep, On
  <2>2. \A g \in Requests : g # h => UploadKnows(g, b)' /\ ChangeKnows(g, b)'
    BY <2>1 DEF UploadKnows, ChangeKnows
  <2>3. \A g, k \in Requests : On(g, b)' /\ On(k, b)' => g = k
    BY <2>1
  <2> QED
    BY <1>2, <2>2, <2>3 DEF BuildGood
<1> QED
  BY <1>1, <1>2 DEF ReleaseInv

LEMMA RequestKinds ==
    ASSUME NEW r \in RequestState
    PROVE  /\ r.at \in {"link", "inspect", "insert"} => r \in UploadRequest
           /\ r.at \in {"files", "change", "check"} => r \in ChangeRequest
           /\ r.at = "minimum" => r \in MinimumRequest
           /\ r.at \in {"idle", "link", "inspect", "insert", "files", "change", "check", "minimum"}
           /\ r # Re!Idle => r.at # "idle"
<1>1. Re!Idle.at = "idle"
  BY DEF Re!Idle
<1> QED
  BY <1>1 DEF RequestState, UploadRequest, ChangeRequest, MinimumRequest

LEMMA LocalGoesOn ==
    ASSUME ReleaseInv, NEW h \in Requests, NEW b \in Builds, On(h, b), NEW state \in RequestState,
           state.at = "idle" \/ state.build = b, request' = [request EXCEPT ![h] = state],
           \A c \in Builds : c # b => releases'[c] = releases[c] /\ file'[c] = file[c] /\ cdn'[c] = cdn[c],
           copying' = copying, crossed' = crossed
    PROVE  LocalStep(h, b)
<1>1. request \in [Requests -> RequestState]
  BY DEF ReleaseInv, ReleaseTyped
<1>2. \A g \in Requests : g # h => request'[g] = request[g]
  BY <1>1
<1>3. \A c \in Builds : c # b => ~On(h, c) /\ ~On(h, c)'
  BY <1>1 DEF On
<1> QED
  BY <1>2, <1>3 DEF LocalStep, ReleaseInv, BuildGood

LEMMA LocalBegins ==
    ASSUME ReleaseInv, NEW h \in Requests, NEW b \in Builds, request[h] = Re!Idle, NEW state \in RequestState,
           state.build = b, request' = [request EXCEPT ![h] = state],
           \A c \in Builds : c # b => releases'[c] = releases[c] /\ file'[c] = file[c] /\ cdn'[c] = cdn[c],
           copying' = copying, Re!Crosses(h, b)
    PROVE  LocalStep(h, b)
<1>1. Re!Idle.at = "idle" /\ request \in [Requests -> RequestState]
  BY DEF Re!Idle, ReleaseInv, ReleaseTyped
<1>2. \A g \in Requests : g # h => request'[g] = request[g]
  BY <1>1
<1>3. \A c \in Builds : c # b => ~On(h, c) /\ ~On(h, c)'
  BY <1>1 DEF On
<1>4. crossed \subseteq crossed'
  BY DEF Re!Crosses
<1>5. ASSUME b \notin crossed', NEW g \in Requests, g # h PROVE ~On(g, b)
  <2>1. Re!Others(h, b) = {}
    BY <1>5 DEF Re!Crosses
  <2>2. ~(request[g] # Re!Idle /\ request[g].at # "minimum" /\ request[g].build = b)
    BY <1>5, <2>1 DEF Re!Others
  <2> QED
    BY <1>1, <2>2 DEF On
<1> QED
  BY <1>2, <1>3, <1>4, <1>5 DEF LocalStep

(* A request that ends, and leaves the rest as it is. *)
LEMMA RequestEnds ==
    ASSUME ReleaseInv, NEW h \in Requests, NEW b \in Builds, On(h, b), request' = [request EXCEPT ![h] = Re!Idle],
           b \notin crossed => ~(request[h].at = "change" /\ request[h].action = "delete"),
           UNCHANGED <<releases, file, cdn, minBuild, uploads, copying, crossed, outdated>>
    PROVE  ReleaseInv'
<1>0. ReleaseTyped /\ Numbered /\ CopyNumbered
  BY DEF ReleaseInv
<1>1. Re!Idle \in RequestState /\ Re!Idle.at = "idle"
  BY DEF RequestState, Re!Idle
<1>2. LocalStep(h, b)
  <2>1. \A c \in Builds : c # b => releases'[c] = releases[c] /\ file'[c] = file[c] /\ cdn'[c] = cdn[c]
    OBVIOUS
  <2>2. copying' = copying /\ crossed' = crossed
    OBVIOUS
  <2> QED
    BY <1>1, <2>1, <2>2, LocalGoesOn
<1>3. ReleaseTyped' /\ Numbered' /\ CopyNumbered'
  BY <1>0, <1>1 DEF ReleaseTyped, Numbered, CopyNumbered
<1>4. ~On(h, b)'
  BY <1>0, <1>1 DEF ReleaseTyped, On
<1>5. ASSUME b \notin crossed' PROVE UploadKnows(h, b)' /\ ChangeKnows(h, b)' /\ FileKept(b)' /\ CopyKnows(b)'
  <2>1. BuildGood(b) /\ ~(request[h].at = "change" /\ request[h].action = "delete")
    BY <1>5 DEF ReleaseInv
  <2>2. ~Deleting(b)
    BY <2>1 DEF BuildGood, Deleting
  <2>3. ~Deleting(b)'
    BY <1>2, <1>4, <1>5 DEF Deleting, LocalStep, On
  <2>4. FileKept(b)' /\ CopyKnows(b)'
    BY <2>1, <2>2, <2>3 DEF BuildGood, FileKept, CopyKnows
  <2> QED
    BY <1>4, <2>4 DEF UploadKnows, ChangeKnows
<1> QED
  BY <1>2, <1>3, <1>5, LocalKeeps

(* Requests that register an installer.                                       *)

LEMMA UploadReceived ==
    ASSUME ReleaseInv, NEW h \in Requests, NEW b \in Builds, NEW channel \in {"beta", "stable"},
           NEW publish \in BOOLEAN, NEW checked \in BOOLEAN, Re!ReceiveUpload(h, b, channel, publish, checked)
    PROVE  ReleaseInv'
<1>0. ReleaseTyped /\ Numbered /\ CopyNumbered
  BY DEF ReleaseInv
<1> PICK state : state = [at |-> "link", build |-> b, content |-> uploads + 1, channel |-> channel, publish |-> publish, checked |-> checked]
  OBVIOUS
<1>1. state \in UploadRequest /\ state.at = "link" /\ state.build = b /\ state.content = uploads + 1
  BY <1>0 DEF UploadRequest, ReleaseTyped
<1>2. /\ request[h] = Re!Idle /\ Re!Crosses(h, b) /\ releases[b] = Re!NoRow
      /\ uploads' = uploads + 1 /\ file' = [file EXCEPT ![b] = 0] /\ request' = [request EXCEPT ![h] = state]
      /\ UNCHANGED <<releases, cdn, minBuild, copying, outdated>>
  BY DEF Re!ReceiveUpload, Re!Free, Re!IsNew, Re!Store
<1>3. state \in RequestState
  BY <1>1 DEF RequestState
<1>4. LocalStep(h, b)
  <2>1. \A c \in Builds : c # b => releases'[c] = releases[c] /\ file'[c] = file[c] /\ cdn'[c] = cdn[c]
    BY <1>0, <1>2 DEF ReleaseTyped
  <2>2. copying' = copying
    BY <1>2
  <2> QED
    BY <1>1, <1>2, <1>3, <2>1, <2>2, LocalBegins
<1>5. ReleaseTyped'
  BY <1>0, <1>2, <1>3 DEF ReleaseTyped
<1>6. Numbered' /\ CopyNumbered'
  BY <1>0, <1>2 DEF ReleaseTyped, Numbered, CopyNumbered, ReleaseRow, CopyState
<1>7. request'[h] = state /\ file'[b] = 0 /\ releases'[b] = Re!NoRow
  BY <1>0, <1>2 DEF ReleaseTyped
<1>8. UploadKnows(h, b)' /\ ChangeKnows(h, b)' /\ FileKept(b)' /\ CopyKnows(b)'
  BY <1>0, <1>1, <1>7 DEF UploadKnows, ChangeKnows, FileKept, CopyKnows, ReleaseTyped
<1> QED
  BY <1>4, <1>5, <1>6, <1>8, LocalKeeps

LEMMA InstallerAppended == ASSUME ReleaseInv, NEW h \in Requests, Re!AppendLocalArtifact(h) PROVE ReleaseInv'
<1>0. ReleaseTyped /\ Numbered /\ CopyNumbered
  BY DEF ReleaseInv
<1> PICK b : b = request[h].build
  OBVIOUS
<1>1. request[h] \in UploadRequest /\ request[h].at = "link" /\ b \in Builds /\ On(h, b)
  <2>1. request[h].at = "link" /\ request[h] \in RequestState
    BY <1>0 DEF Re!AppendLocalArtifact, ReleaseTyped
  <2>2. request[h] \in UploadRequest
    BY <2>1, RequestKinds
  <2> QED
    BY <2>1, <2>2 DEF UploadRequest, On
<1>2. UNCHANGED <<releases, cdn, minBuild, uploads, copying, crossed, outdated>>
  BY DEF Re!AppendLocalArtifact
<1>3. b \notin crossed => releases[b] = Re!NoRow
  BY <1>1 DEF ReleaseInv, BuildGood, UploadKnows
<1>4. CASE file[b] = 0
  <2> PICK state : state = [request[h] EXCEPT !.at = "inspect"]
    OBVIOUS
  <2>1. state \in UploadRequest /\ state.at = "inspect" /\ state.build = b /\ state.content = request[h].content
    BY <1>1 DEF UploadRequest
  <2>2. file' = [file EXCEPT ![b] = request[h].content] /\ request' = [request EXCEPT ![h] = state]
    BY <1>4 DEF Re!AppendLocalArtifact, Re!Store
  <2>3. state \in RequestState /\ request[h].content \in Nat \ {0}
    BY <1>1, <2>1 DEF RequestState, UploadRequest
  <2>4. LocalStep(h, b)
    <3>1. \A c \in Builds : c # b => releases'[c] = releases[c] /\ file'[c] = file[c] /\ cdn'[c] = cdn[c]
      BY <1>0, <1>2, <2>2 DEF ReleaseTyped
    <3>2. copying' = copying /\ crossed' = crossed /\ b \in Builds
      BY <1>1, <1>2
    <3> QED
      BY <1>1, <2>1, <2>2, <2>3, <3>1, <3>2, LocalGoesOn
  <2>5. ReleaseTyped'
    BY <1>0, <1>2, <2>2, <2>3 DEF ReleaseTyped
  <2>6. Numbered' /\ CopyNumbered'
    BY <1>0, <1>2 DEF Numbered, CopyNumbered
  <2>7. request'[h] = state /\ file'[b] = state.content
    BY <1>0, <1>1, <2>1, <2>2 DEF ReleaseTyped
  <2>8. b \notin crossed' => UploadKnows(h, b)' /\ ChangeKnows(h, b)' /\ FileKept(b)' /\ CopyKnows(b)'
    BY <1>2, <1>3, <2>1, <2>3, <2>7 DEF UploadKnows, ChangeKnows, FileKept, CopyKnows
  <2> QED
    BY <1>1, <2>4, <2>5, <2>6, <2>8, LocalKeeps
<1>5. CASE file[b] # 0
  <2>1. request' = [request EXCEPT ![h] = Re!Idle] /\ file' = file
    BY <1>5 DEF Re!AppendLocalArtifact, Re!Store
  <2>2. b \in Builds /\ (b \notin crossed => ~(request[h].at = "change" /\ request[h].action = "delete"))
    BY <1>1
  <2> QED
    BY <1>1, <1>2, <2>1, <2>2, RequestEnds
<1> QED
  BY <1>4, <1>5

LEMMA UploadStops == ASSUME ReleaseInv, NEW h \in Requests, Re!UploadInterrupted(h) PROVE ReleaseInv'
<1> PICK b : b = request[h].build
  OBVIOUS
<1>1. b \in Builds /\ On(h, b) /\ request[h].at # "change"
  <2>1. request[h].at \in {"link", "inspect"} /\ request[h] \in RequestState
    BY DEF Re!UploadInterrupted, ReleaseInv, ReleaseTyped
  <2>2. request[h] \in UploadRequest
    BY <2>1, RequestKinds
  <2> QED
    BY <2>1, <2>2 DEF UploadRequest, On
<1>2. /\ request' = [request EXCEPT ![h] = Re!Idle]
      /\ UNCHANGED <<releases, file, cdn, minBuild, uploads, copying, crossed, outdated>>
  BY DEF Re!UploadInterrupted, Re!Store
<1> QED
  BY <1>1, <1>2, RequestEnds

LEMMA InstallerInspected == ASSUME ReleaseInv, NEW h \in Requests, Re!InspectLocalArtifact(h) PROVE ReleaseInv'
<1>0. ReleaseTyped /\ Numbered /\ CopyNumbered
  BY DEF ReleaseInv
<1> PICK b : b = request[h].build
  OBVIOUS
<1>1. request[h] \in UploadRequest /\ request[h].at = "inspect" /\ b \in Builds /\ On(h, b)
  <2>1. request[h].at = "inspect" /\ request[h] \in RequestState
    BY <1>0 DEF Re!InspectLocalArtifact, ReleaseTyped
  <2>2. request[h] \in UploadRequest
    BY <2>1, RequestKinds
  <2> QED
    BY <2>1, <2>2 DEF UploadRequest, On
<1>2. UNCHANGED <<releases, file, cdn, minBuild, uploads, copying, crossed, outdated>>
  BY DEF Re!InspectLocalArtifact
<1>3. b \notin crossed => releases[b] = Re!NoRow
  BY <1>1 DEF ReleaseInv, BuildGood, UploadKnows
<1>4. CASE file[b] = request[h].content \/ (file[b] # 0 /\ ~request[h].checked)
  <2> PICK state : state = [request[h] EXCEPT !.at = "insert", !.content = file[b]]
    OBVIOUS
  <2>0. file[b] \in Nat \ {0}
    BY <1>0, <1>1, <1>4 DEF ReleaseTyped, UploadRequest
  <2>1. state \in UploadRequest /\ state.at = "insert" /\ state.build = b /\ state.content = file[b]
    BY <1>1, <2>0 DEF UploadRequest
  <2>2. request' = [request EXCEPT ![h] = state]
    BY <1>4 DEF Re!InspectLocalArtifact, Re!Store
  <2>3. state \in RequestState
    BY <2>1 DEF RequestState
  <2>4. LocalStep(h, b)
    <3>1. \A c \in Builds : c # b => releases'[c] = releases[c] /\ file'[c] = file[c] /\ cdn'[c] = cdn[c]
      BY <1>2
    <3>2. copying' = copying /\ crossed' = crossed /\ b \in Builds
      BY <1>1, <1>2
    <3> QED
      BY <1>1, <2>1, <2>2, <2>3, <3>1, <3>2, LocalGoesOn
  <2>5. ReleaseTyped'
    BY <1>0, <1>2, <2>2, <2>3 DEF ReleaseTyped
  <2>6. Numbered' /\ CopyNumbered'
    BY <1>0, <1>2 DEF Numbered, CopyNumbered
  <2>7. request'[h] = state
    BY <1>0, <2>2 DEF ReleaseTyped
  <2>8. b \notin crossed' => UploadKnows(h, b)' /\ ChangeKnows(h, b)' /\ FileKept(b)' /\ CopyKnows(b)'
    BY <1>2, <1>3, <2>0, <2>1, <2>7 DEF UploadKnows, ChangeKnows, FileKept, CopyKnows
  <2> QED
    BY <1>1, <2>4, <2>5, <2>6, <2>8, LocalKeeps
<1>5. CASE ~(file[b] = request[h].content \/ (file[b] # 0 /\ ~request[h].checked))
  <2>1. request' = [request EXCEPT ![h] = Re!Idle]
    BY <1>5 DEF Re!InspectLocalArtifact, Re!Store
  <2>2. b \in Builds /\ (b \notin crossed => ~(request[h].at = "change" /\ request[h].action = "delete"))
    BY <1>1
  <2> QED
    BY <1>1, <1>2, <2>1, <2>2, RequestEnds
<1> QED
  BY <1>4, <1>5

LEMMA ReleaseCreated == ASSUME ReleaseInv, NEW h \in Requests, Re!CreateRelease(h) PROVE ReleaseInv'
<1>0. ReleaseTyped /\ Numbered /\ CopyNumbered
  BY DEF ReleaseInv
<1> PICK b : b = request[h].build
  OBVIOUS
<1>1. request[h] \in UploadRequest /\ request[h].at = "insert" /\ b \in Builds /\ On(h, b)
  <2>1. request[h].at = "insert" /\ request[h] \in RequestState
    BY <1>0 DEF Re!CreateRelease, ReleaseTyped
  <2>2. request[h] \in UploadRequest
    BY <2>1, RequestKinds
  <2> QED
    BY <2>1, <2>2 DEF UploadRequest, On
<1>2. UNCHANGED <<file, cdn, minBuild, copying, crossed, outdated>>
  BY DEF Re!CreateRelease
<1>4. CASE releases[b] = Re!NoRow
  <2> PICK row : row = [status |-> "draft", channel |-> request[h].channel, rollout |-> 100, id |-> uploads + 1,
                        digest |-> request[h].content, mirrored |-> FALSE, attempts |-> 0]
    OBVIOUS
  <2>11. PICK state : state = IF request[h].publish
                              THEN [at |-> "change", action |-> "publish", build |-> b, id |-> row.id, rollout |-> 100, percent |-> 100]
                              ELSE Re!Idle
    OBVIOUS
  <2>1. /\ row \in ReleaseRow /\ row # Re!NoRow /\ row.rollout = 100 /\ row.id = uploads + 1
        /\ row.digest = request[h].content /\ row.digest # 0 /\ ~row.mirrored
    BY <1>0, <1>1 DEF ReleaseRow, UploadRequest, ReleaseTyped, Re!NoRow
  <2>2. /\ releases' = [releases EXCEPT ![b] = row] /\ uploads' = uploads + 1
        /\ request' = [request EXCEPT ![h] = state]
    BY <1>4, <2>11 DEF Re!CreateRelease, Re!Store, Re!Row
  <2>3. /\ state \in RequestState
        /\ \/ state.at = "idle"
           \/ state.build = b /\ state.at = "change" /\ state.action = "publish" /\ state.id = row.id /\ state.rollout = 100
    <3>1. CASE request[h].publish
      <4>1. state = [at |-> "change", action |-> "publish", build |-> b, id |-> row.id, rollout |-> 100, percent |-> 100]
        BY <2>11, <3>1
      <4>2. row.id \in Nat /\ "publish" \in Re!Actions
        BY <2>1 DEF ReleaseRow, Re!Actions
      <4>3. state \in ChangeRequest
        BY <1>1, <4>1, <4>2 DEF ChangeRequest
      <4> QED
        BY <4>1, <4>3 DEF RequestState
    <3>2. CASE ~request[h].publish
      BY <2>11, <3>2 DEF RequestState, Re!Idle
    <3> QED
      BY <3>1, <3>2
  <2>4. state \in RequestState /\ (state.at = "idle" \/ state.build = b)
    BY <2>3
  <2>5. LocalStep(h, b)
    <3>1. \A c \in Builds : c # b => releases'[c] = releases[c] /\ file'[c] = file[c] /\ cdn'[c] = cdn[c]
      BY <1>0, <1>2, <2>2 DEF ReleaseTyped
    <3>2. copying' = copying /\ crossed' = crossed /\ b \in Builds
      BY <1>1, <1>2
    <3> QED
      <4>1. On(h, b) /\ request' = [request EXCEPT ![h] = state]
        BY <1>1, <2>2
      <4>2. state \in RequestState /\ (state.at = "idle" \/ state.build = b)
        BY <2>4
      <4> QED
        BY <3>1, <3>2, <4>1, <4>2, LocalGoesOn
  <2>6. ReleaseTyped'
    BY <1>0, <1>1, <1>2, <2>1, <2>2, <2>4 DEF ReleaseTyped
  <2>7. releases'[b] = row /\ request'[h] = state
    BY <1>0, <1>1, <2>2 DEF ReleaseTyped
  <2>8. Numbered'
    <3>1. \A c \in Builds \ {b} : releases'[c] # Re!NoRow => releases'[c].id <= uploads' /\ releases'[c].digest # 0
      BY <1>0, <2>2 DEF ReleaseTyped, ReleaseRow, Numbered
    <3>2. row.id <= uploads' /\ row.digest # 0
      BY <1>0, <2>1, <2>2 DEF ReleaseTyped
    <3> QED
      BY <3>1, <3>2, <2>7 DEF Numbered
  <2>9. CopyNumbered'
    BY <1>0, <1>2, <2>1, <2>2, <2>7 DEF ReleaseTyped, CopyNumbered, CopyState
  <2>10. ASSUME b \notin crossed' PROVE UploadKnows(h, b)' /\ ChangeKnows(h, b)' /\ FileKept(b)' /\ CopyKnows(b)'
    <3>1. file[b] = row.digest
      BY <1>1, <1>2, <2>1, <2>10 DEF ReleaseInv, BuildGood, UploadKnows
    <3>2. Re!Idle.at = "idle"
      BY DEF Re!Idle
    <3>3. UploadKnows(h, b)' /\ ChangeKnows(h, b)'
      BY <2>1, <2>3, <2>7, <3>2 DEF UploadKnows, ChangeKnows, On
    <3>4. ~Deleting(b)'
      BY <2>3, <2>5, <2>7, <2>10, <3>2 DEF LocalStep, Deleting, On
    <3>5. FileKept(b)'
      BY <1>2, <2>1, <2>7, <3>1, <3>4 DEF FileKept
    <3>6. copying # Re!Idle => copying.id # row.id
      BY <1>0, <2>1 DEF CopyNumbered, CopyState, ReleaseTyped
    <3>7. CopyKnows(b)'
      BY <1>2, <2>7, <3>6 DEF CopyKnows
    <3> QED
      BY <3>3, <3>5, <3>7
  <2> QED
    BY <1>1, <2>5, <2>6, <2>8, <2>9, <2>10, LocalKeeps
<1>5. CASE releases[b] # Re!NoRow
  <2>1. request' = [request EXCEPT ![h] = Re!Idle] /\ UNCHANGED <<releases, uploads>>
    BY <1>5 DEF Re!CreateRelease, Re!Store
  <2>2. b \in Builds /\ (b \notin crossed => ~(request[h].at = "change" /\ request[h].action = "delete"))
    BY <1>1
  <2> QED
    BY <1>1, <1>2, <2>1, <2>2, RequestEnds
<1> QED
  BY <1>4, <1>5

(* Requests that change a release.                                            *)

LEMMA TransitionStarted ==
    ASSUME ReleaseInv, NEW h \in Requests, NEW b \in Builds, NEW actor, NEW action \in Re!Actions, NEW percent \in Percents,
           Re!StartTransition(h, b, actor, action, percent)
    PROVE  ReleaseInv'
<1>0. ReleaseTyped /\ Numbered /\ CopyNumbered
  BY DEF ReleaseInv
<1> PICK state : state = [at |-> IF action = "delete" THEN "files" ELSE "change", action |-> action, build |-> b,
                          id |-> releases[b].id, rollout |-> releases[b].rollout, percent |-> percent]
  OBVIOUS
<1>1. /\ request[h] = Re!Idle /\ Re!Crosses(h, b) /\ releases[b] # Re!NoRow
      /\ action = "delete" => releases[b].status # "published"
      /\ request' = [request EXCEPT ![h] = state]
      /\ UNCHANGED <<releases, file, cdn, minBuild, uploads, copying, outdated>>
  BY DEF Re!StartTransition, Re!Free, Re!Store
<1>2. state \in ChangeRequest /\ state.build = b /\ state.id = releases[b].id /\ state.action = action
  <2>1. releases[b] \in ReleaseRow /\ percent \in Nat
    BY <1>0, <1>1, ReleaseConstants DEF ReleaseTyped
  <2> QED
    BY <2>1 DEF ChangeRequest, ReleaseRow
<1>3. state.at = (IF action = "delete" THEN "files" ELSE "change") /\ state.rollout = releases[b].rollout
  OBVIOUS
<1>4. state \in RequestState
  BY <1>2 DEF RequestState
<1>5. LocalStep(h, b)
  <2>1. \A c \in Builds : c # b => releases'[c] = releases[c] /\ file'[c] = file[c] /\ cdn'[c] = cdn[c]
    BY <1>1
  <2>2. copying' = copying
    BY <1>1
  <2> QED
    BY <1>1, <1>2, <1>4, <2>1, <2>2, LocalBegins
<1>6. ReleaseTyped' /\ Numbered' /\ CopyNumbered'
  BY <1>0, <1>1, <1>4 DEF ReleaseTyped, Numbered, CopyNumbered
<1>7. request'[h] = state
  BY <1>0, <1>1 DEF ReleaseTyped
<1>8. ASSUME b \notin crossed' PROVE UploadKnows(h, b)' /\ ChangeKnows(h, b)' /\ FileKept(b)' /\ CopyKnows(b)'
  <2>1. BuildGood(b) /\ \A g \in Requests : ~On(g, b)
    <3>1. ~On(h, b)
      BY <1>1 DEF On, Re!Idle
    <3> QED
      BY <1>5, <1>8, <3>1 DEF LocalStep, ReleaseInv
  <2>2. ~Deleting(b) /\ ~Deleting(b)'
    <3>1. ~(On(h, b)' /\ request'[h].at = "change" /\ request'[h].action = "delete")
      BY <1>2, <1>3, <1>7
    <3>2. \A g \in Requests : g # h => ~On(g, b)'
      BY <1>5, <1>8 DEF LocalStep, On
    <3> QED
      BY <2>1, <3>1, <3>2 DEF Deleting
  <2>3. FileKept(b)' /\ CopyKnows(b)'
    BY <1>1, <2>1, <2>2 DEF BuildGood, FileKept, CopyKnows
  <2>4. UploadKnows(h, b)' /\ ChangeKnows(h, b)'
    BY <1>1, <1>2, <1>3, <1>7 DEF UploadKnows, ChangeKnows
  <2> QED
    BY <2>3, <2>4
<1> QED
  BY <1>5, <1>6, <1>8, LocalKeeps

(* A change that keeps what was recorded of the release. *)
LEMMA RowChanged ==
    ASSUME ReleaseInv, NEW h \in Requests, NEW b \in Builds, On(h, b), request[h].at \in {"change", "check"},
           request[h].at = "change" => request[h].action # "delete", releases[b] # Re!NoRow, NEW row \in ReleaseRow, row # Re!NoRow,
           row.id = releases[b].id, row.digest = releases[b].digest, row.mirrored = releases[b].mirrored,
           releases' = [releases EXCEPT ![b] = row],
           NEW state \in RequestState, state.at \in {"idle", "check"}, state.at = "check" => state = [request[h] EXCEPT !.at = "check"],
           state.at = "idle" \/ state.build = b, request' = [request EXCEPT ![h] = state],
           UNCHANGED <<file, cdn, minBuild, uploads, copying, crossed, outdated>>
    PROVE  ReleaseInv'
<1>0. ReleaseTyped /\ Numbered /\ CopyNumbered
  BY DEF ReleaseInv
<1>1. LocalStep(h, b)
  <2>1. \A c \in Builds : c # b => releases'[c] = releases[c] /\ file'[c] = file[c] /\ cdn'[c] = cdn[c]
    BY <1>0 DEF ReleaseTyped
  <2>2. copying' = copying /\ crossed' = crossed
    OBVIOUS
  <2> QED
    BY <2>1, <2>2, LocalGoesOn
<1>2. ReleaseTyped'
  BY <1>0 DEF ReleaseTyped
<1>3. request'[h] = state /\ releases'[b] = row
  BY <1>0 DEF ReleaseTyped
<1>4. Numbered' /\ CopyNumbered'
  BY <1>0, <1>3 DEF ReleaseTyped, Numbered, CopyNumbered
<1>5. ASSUME b \notin crossed' PROVE UploadKnows(h, b)' /\ ChangeKnows(h, b)' /\ FileKept(b)' /\ CopyKnows(b)'
  <2>1. BuildGood(b) /\ \A g \in Requests : g # h => ~On(g, b)
    BY <1>1, <1>5 DEF LocalStep, ReleaseInv
  <2>2. ~Deleting(b)
    BY <2>1 DEF Deleting
  <2>3. ~Deleting(b)'
    <3>1. request'[h].at # "change"
      BY <1>3
    <3>2. \A g \in Requests : g # h => ~On(g, b)'
      BY <1>1, <1>5 DEF LocalStep, On
    <3> QED
      BY <3>1, <3>2 DEF Deleting
  <2>4. FileKept(b)' /\ CopyKnows(b)'
    BY <1>3, <2>1, <2>2, <2>3 DEF BuildGood, FileKept, CopyKnows
  <2>5. UploadKnows(h, b)'
    BY <1>3 DEF UploadKnows
  <2>6. ChangeKnows(h, b)'
    <3>1. CASE state.at = "idle"
      BY <1>3, <3>1 DEF ChangeKnows
    <3>2. CASE state.at = "check"
      <4>1. request[h] \in ChangeRequest
        BY <1>0, RequestKinds DEF ReleaseTyped
      <4>2. state.action = request[h].action /\ state.id = request[h].id
        BY <3>2, <4>1 DEF ChangeRequest
      <4>3. releases[b].id = request[h].id /\ request[h].action # "delete"
        BY <2>1 DEF BuildGood, ChangeKnows
      <4> QED
        BY <1>3, <3>2, <4>2, <4>3 DEF ChangeKnows
    <3> QED
      BY <3>1, <3>2
  <2> QED
    BY <2>4, <2>5, <2>6
<1> QED
  BY <1>1, <1>2, <1>4, <1>5, LocalKeeps

LEMMA RowAfter ==
    ASSUME NEW row \in ReleaseRow, NEW r \in ChangeRequest, r.action # "delete"
    PROVE  /\ Re!After(r, row) \in ReleaseRow
           /\ Re!After(r, row).id = row.id /\ Re!After(r, row).digest = row.digest
           /\ Re!After(r, row).mirrored = row.mirrored
<1>1. CASE r.action = "publish"
  BY <1>1 DEF Re!After, ReleaseRow
<1>2. CASE r.action = "promote"
  BY <1>2 DEF Re!After, ReleaseRow
<1>3. CASE r.action = "withdraw"
  BY <1>3 DEF Re!After, ReleaseRow
<1>4. CASE r.action = "rollout"
  BY <1>4 DEF Re!After, ReleaseRow, ChangeRequest
<1>5. CASE r.action = "retry_mirror"
  BY <1>5 DEF Re!After, ReleaseRow
<1> QED
  BY <1>1, <1>2, <1>3, <1>4, <1>5 DEF ChangeRequest, Re!Actions

LEMMA RowsAreRows == \A row \in ReleaseRow : row # Re!NoRow
BY DEF ReleaseRow, Re!NoRow

LEMMA ReleaseTransitioned == ASSUME ReleaseInv, NEW h \in Requests, Re!TransitionRelease(h) PROVE ReleaseInv'
<1>0. ReleaseTyped /\ Numbered /\ CopyNumbered
  BY DEF ReleaseInv
<1> PICK b : b = request[h].build
  OBVIOUS
<1>1. request[h] \in ChangeRequest /\ request[h].at = "change" /\ b \in Builds /\ On(h, b)
  <2>1. request[h].at = "change" /\ request[h] \in RequestState
    BY <1>0 DEF Re!TransitionRelease, ReleaseTyped
  <2>2. request[h] \in ChangeRequest
    BY <2>1, RequestKinds
  <2> QED
    BY <2>1, <2>2 DEF ChangeRequest, On
<1>2. UNCHANGED <<file, cdn, minBuild, uploads, copying, crossed, outdated>>
  BY DEF Re!TransitionRelease
<1>3. b \notin crossed => ChangeKnows(h, b)
  BY <1>1 DEF ReleaseInv, BuildGood
<1>4. CASE releases[b] # Re!NoRow /\ releases[b].id = request[h].id /\ Re!Changed(request[h].action, releases[b])
  <2>1. /\ releases' = [releases EXCEPT ![b] = Re!After(request[h], releases[b])]
        /\ request' = [request EXCEPT ![h] = IF request[h].action \in {"withdraw", "rollout"} THEN [request[h] EXCEPT !.at = "check"]
                                             ELSE Re!Idle]
    BY <1>4 DEF Re!TransitionRelease, Re!Row, Re!Store
  <2>2. releases[b] \in ReleaseRow
    BY <1>0, <1>1, <1>4 DEF ReleaseTyped
  <2>3. Re!Idle \in RequestState /\ Re!Idle.at = "idle"
    BY DEF RequestState, Re!Idle
  <2>4. CASE request[h].action # "delete"
    <3>1. PICK row : row = Re!After(request[h], releases[b])
      OBVIOUS
    <3>2. /\ row \in ReleaseRow /\ row # Re!NoRow /\ row.id = releases[b].id
          /\ row.digest = releases[b].digest /\ row.mirrored = releases[b].mirrored
      BY <1>1, <2>2, <2>4, <3>1, RowAfter, RowsAreRows
    <3>3. releases' = [releases EXCEPT ![b] = row] /\ b \in Builds /\ request[h].at \in {"change", "check"}
      BY <1>1, <2>1, <3>1
    <3>4. CASE request[h].action \in {"withdraw", "rollout"}
      <4>1. PICK state : state = [request[h] EXCEPT !.at = "check"]
        OBVIOUS
      <4>2. state \in ChangeRequest /\ state.at = "check" /\ state.build = b
        BY <1>1, <4>1 DEF ChangeRequest
      <4>3. state \in RequestState /\ request' = [request EXCEPT ![h] = state]
        BY <2>1, <3>4, <4>1, <4>2 DEF RequestState
      <4> QED
        BY <1>1, <1>2, <1>4, <2>4, <3>2, <3>3, <4>1, <4>2, <4>3, RowChanged
    <3>5. CASE request[h].action \notin {"withdraw", "rollout"}
      <4>1. request' = [request EXCEPT ![h] = Re!Idle]
        BY <2>1, <3>5
      <4> QED
        BY <1>1, <1>2, <1>4, <2>3, <2>4, <3>2, <3>3, <4>1, RowChanged
    <3> QED
      BY <3>4, <3>5
  <2>5. CASE request[h].action = "delete"
    <3>1. releases' = [releases EXCEPT ![b] = Re!NoRow] /\ request' = [request EXCEPT ![h] = Re!Idle]
      BY <2>1, <2>5 DEF Re!After
    <3>2. LocalStep(h, b)
      <4>1. \A c \in Builds : c # b => releases'[c] = releases[c] /\ file'[c] = file[c] /\ cdn'[c] = cdn[c]
        BY <1>0, <1>2, <3>1 DEF ReleaseTyped
      <4>2. copying' = copying /\ crossed' = crossed /\ b \in Builds
        BY <1>1, <1>2
      <4> QED
        BY <1>1, <2>3, <3>1, <4>1, <4>2, LocalGoesOn
    <3>3. ReleaseTyped'
      BY <1>0, <1>2, <2>3, <3>1 DEF ReleaseTyped
    <3>4. releases'[b] = Re!NoRow /\ request'[h] = Re!Idle
      BY <1>0, <1>1, <3>1 DEF ReleaseTyped
    <3>5. Numbered' /\ CopyNumbered'
      BY <1>0, <1>2, <3>1, <3>4 DEF ReleaseTyped, Numbered, CopyNumbered
    <3>6. UploadKnows(h, b)' /\ ChangeKnows(h, b)' /\ FileKept(b)' /\ CopyKnows(b)'
      BY <2>3, <3>4 DEF UploadKnows, ChangeKnows, FileKept, CopyKnows
    <3> QED
      BY <1>1, <3>2, <3>3, <3>5, <3>6, LocalKeeps
  <2> QED
    BY <2>4, <2>5
<1>5. CASE ~(releases[b] # Re!NoRow /\ releases[b].id = request[h].id /\ Re!Changed(request[h].action, releases[b]))
  <2>1. request' = [request EXCEPT ![h] = Re!Idle] /\ UNCHANGED releases
    BY <1>5 DEF Re!TransitionRelease, Re!Store
  <2>2. ASSUME b \notin crossed, request[h].action = "delete" PROVE FALSE
    <3>1. /\ releases[b] # Re!NoRow /\ releases[b].id = request[h].id /\ releases[b].status # "published"
      BY <1>1, <1>3, <2>2 DEF ChangeKnows
    <3>2. releases[b] \in ReleaseRow
      BY <1>0, <1>1, <3>1 DEF ReleaseTyped
    <3>3. Re!Changed(request[h].action, releases[b])
      BY <2>2, <3>1, <3>2 DEF Re!Changed, Re!Delete, ReleaseRow
    <3> QED
      BY <1>5, <3>1, <3>3
  <2>3. b \in Builds /\ (b \notin crossed => ~(request[h].at = "change" /\ request[h].action = "delete"))
    BY <1>1, <2>2
  <2> QED
    BY <1>1, <1>2, <2>1, <2>3, RequestEnds
<1> QED
  BY <1>4, <1>5

LEMMA ChangeTakenBack == ASSUME ReleaseInv, NEW h \in Requests, Re!NeverStrand(h) PROVE ReleaseInv'
<1>0. ReleaseTyped
  BY DEF ReleaseInv
<1> PICK b : b = request[h].build
  OBVIOUS
<1>1. request[h] \in ChangeRequest /\ request[h].at = "check" /\ b \in Builds /\ On(h, b)
  <2>1. request[h].at = "check" /\ request[h] \in RequestState
    BY <1>0 DEF Re!NeverStrand, ReleaseTyped
  <2>2. request[h] \in ChangeRequest
    BY <2>1, RequestKinds
  <2> QED
    BY <2>1, <2>2 DEF ChangeRequest, On
<1>2. request' = [request EXCEPT ![h] = Re!Idle] /\ UNCHANGED <<file, cdn, minBuild, uploads, copying, crossed, outdated>>
  BY DEF Re!NeverStrand, Re!Store
<1>3. CASE releases' = releases
  <2>1. b \in Builds /\ (b \notin crossed => ~(request[h].at = "change" /\ request[h].action = "delete"))
    BY <1>1
  <2> QED
    BY <1>1, <1>2, <1>3, <2>1, RequestEnds
<1>4. CASE releases' # releases
  <2>1. PICK row : row = Re!Restored(request[h], releases[b])
    OBVIOUS
  <2>2. releases[b] # Re!NoRow /\ releases' = [releases EXCEPT ![b] = row]
    BY <1>4, <2>1 DEF Re!NeverStrand, Re!Row
  <2>3. releases[b] \in ReleaseRow
    BY <1>0, <1>1, <2>2 DEF ReleaseTyped
  <2>4. /\ row \in ReleaseRow /\ row # Re!NoRow /\ row.id = releases[b].id
        /\ row.digest = releases[b].digest /\ row.mirrored = releases[b].mirrored
    <3>1. row \in ReleaseRow /\ row.id = releases[b].id /\ row.digest = releases[b].digest /\ row.mirrored = releases[b].mirrored
      BY <1>1, <2>1, <2>3 DEF Re!Restored, ReleaseRow, ChangeRequest
    <3> QED
      BY <3>1, RowsAreRows
  <2>5. Re!Idle \in RequestState /\ Re!Idle.at = "idle"
    BY DEF RequestState, Re!Idle
  <2>6. b \in Builds /\ request[h].at \in {"change", "check"}
    BY <1>1
  <2>7. request[h].at = "change" => request[h].action # "delete"
    BY <1>1
  <2> QED
    BY <1>1, <1>2, <2>2, <2>4, <2>5, <2>6, <2>7, RowChanged
<1> QED
  BY <1>3, <1>4

LEMMA FilesDeleted == ASSUME ReleaseInv, NEW h \in Requests, Re!DeleteReleaseFiles(h) PROVE ReleaseInv'
<1>0. ReleaseTyped /\ Numbered /\ CopyNumbered
  BY DEF ReleaseInv
<1> PICK b : b = request[h].build
  OBVIOUS
<1>1. request[h] \in ChangeRequest /\ request[h].at = "files" /\ b \in Builds /\ On(h, b)
  <2>1. request[h].at = "files" /\ request[h] \in RequestState
    BY <1>0 DEF Re!DeleteReleaseFiles, ReleaseTyped
  <2>2. request[h] \in ChangeRequest
    BY <2>1, RequestKinds
  <2> QED
    BY <2>1, <2>2 DEF ChangeRequest, On
<1> PICK state : state = [request[h] EXCEPT !.at = "change"]
  OBVIOUS
<1>2. /\ state \in ChangeRequest /\ state.at = "change" /\ state.build = b /\ state.action = request[h].action
      /\ state.id = request[h].id /\ state.rollout = request[h].rollout
  BY <1>1 DEF ChangeRequest
<1>3. /\ request' = [request EXCEPT ![h] = state] /\ cdn' = [cdn EXCEPT ![b] = 0] /\ file' = [file EXCEPT ![b] = 0]
      /\ UNCHANGED <<releases, minBuild, uploads, copying, crossed, outdated>>
  BY DEF Re!DeleteReleaseFiles, Re!Store
<1>4. state \in RequestState
  BY <1>2 DEF RequestState
<1>5. LocalStep(h, b)
  <2>1. \A c \in Builds : c # b => releases'[c] = releases[c] /\ file'[c] = file[c] /\ cdn'[c] = cdn[c]
    BY <1>0, <1>3 DEF ReleaseTyped
  <2>2. copying' = copying /\ crossed' = crossed /\ b \in Builds
    BY <1>1, <1>3
  <2> QED
    BY <1>1, <1>2, <1>3, <1>4, <2>1, <2>2, LocalGoesOn
<1>6. ReleaseTyped' /\ Numbered' /\ CopyNumbered'
  BY <1>0, <1>3, <1>4 DEF ReleaseTyped, Numbered, CopyNumbered
<1>7. request'[h] = state /\ file'[b] = 0
  BY <1>0, <1>1, <1>3 DEF ReleaseTyped
<1>8. ASSUME b \notin crossed' PROVE UploadKnows(h, b)' /\ ChangeKnows(h, b)' /\ FileKept(b)' /\ CopyKnows(b)'
  <2>1. BuildGood(b) /\ ChangeKnows(h, b)
    BY <1>1, <1>3, <1>8 DEF ReleaseInv, BuildGood
  <2>2. /\ releases[b] # Re!NoRow /\ releases[b].id = request[h].id /\ request[h].action = "delete"
        /\ releases[b].status # "published" /\ releases[b].rollout = request[h].rollout
    BY <1>1, <2>1 DEF ChangeKnows
  <2>3. ChangeKnows(h, b)'
    BY <1>2, <1>3, <1>7, <2>2 DEF ChangeKnows
  <2>4. Deleting(b)'
    BY <1>1, <1>2, <1>7, <2>2 DEF Deleting, On
  <2>5. FileKept(b)'
    BY <1>7, <2>4 DEF FileKept
  <2>6. CopyKnows(b)'
    BY <1>3, <2>1, <2>4 DEF BuildGood, CopyKnows
  <2>7. UploadKnows(h, b)'
    BY <1>2, <1>7 DEF UploadKnows
  <2> QED
    BY <2>3, <2>5, <2>6, <2>7
<1> QED
  BY <1>1, <1>5, <1>6, <1>8, LocalKeeps

LEMMA DeletionStops == ASSUME ReleaseInv, NEW h \in Requests, Re!DeleteFails(h) PROVE ReleaseInv'
<1> PICK b : b = request[h].build
  OBVIOUS
<1>1. b \in Builds /\ On(h, b) /\ request[h].at # "change"
  <2>1. request[h].at = "files" /\ request[h] \in RequestState
    BY DEF Re!DeleteFails, ReleaseInv, ReleaseTyped
  <2>2. request[h] \in ChangeRequest
    BY <2>1, RequestKinds
  <2> QED
    BY <2>1, <2>2 DEF ChangeRequest, On
<1>2. /\ request' = [request EXCEPT ![h] = Re!Idle]
      /\ UNCHANGED <<releases, file, cdn, minBuild, uploads, copying, crossed, outdated>>
  BY DEF Re!DeleteFails, Re!Store
<1> QED
  BY <1>1, <1>2, RequestEnds

(* The minimum build, the mirror loop and a restart.                          *)

(* What an administrator may choose as the minimum. *)
Minimums == {b.number : b \in Builds} \union {0}

LEMMA MinimumMoves ==
    ASSUME ReleaseInv, NEW h \in Requests, (\E number \in Minimums : Re!SaveMinimum(h, number)) \/ Re!SetMinimumBuild(h)
    PROVE  ReleaseInv'
<1>0. ReleaseTyped /\ Numbered /\ CopyNumbered
  BY DEF ReleaseInv
<1>1. UNCHANGED <<releases, file, cdn, uploads, copying, crossed>>
  BY DEF Re!SaveMinimum, Re!SetMinimumBuild
<1>2. PICK state \in RequestState : /\ request' = [request EXCEPT ![h] = state]
                                    /\ state.at \in {"idle", "minimum"} /\ request[h].at \in {"idle", "minimum"}
  <2>1. ASSUME NEW number \in Minimums, Re!SaveMinimum(h, number)
        PROVE  \E state \in RequestState : /\ request' = [request EXCEPT ![h] = state]
                                           /\ state.at = "minimum" /\ request[h].at = "idle"
    <3> PICK state : state = [at |-> "minimum", minimum |-> number, reached |-> number = 0 \/ Re!Reachable(number)]
      OBVIOUS
    <3>1. state \in MinimumRequest /\ state.at = "minimum"
      BY ReleaseConstants DEF MinimumRequest, Minimums
    <3>2. request' = [request EXCEPT ![h] = state] /\ request[h] = Re!Idle
      BY <2>1 DEF Re!SaveMinimum, Re!Store, Re!Free
    <3>3. state \in RequestState /\ request[h].at = "idle"
      BY <3>1, <3>2 DEF RequestState, Re!Idle
    <3> HIDE DEF MinimumRequest
    <3> QED
      BY <3>1, <3>2, <3>3
  <2>2. ASSUME Re!SetMinimumBuild(h)
        PROVE  \E state \in RequestState : /\ request' = [request EXCEPT ![h] = state]
                                           /\ state.at = "idle" /\ request[h].at = "minimum"
    BY <2>2 DEF Re!SetMinimumBuild, Re!Store, RequestState, Re!Idle
  <2> QED
    BY <2>1, <2>2
<1>3. minBuild' \in Nat /\ outdated' \in BOOLEAN
  <2>1. ASSUME Re!SetMinimumBuild(h) PROVE minBuild' \in Nat /\ outdated' \in BOOLEAN
    <3>1. request[h].at = "minimum" /\ minBuild' = request[h].minimum /\ outdated' \in BOOLEAN
      BY <2>1 DEF Re!SetMinimumBuild
    <3>2. request[h] \in MinimumRequest
      BY <1>0, <3>1, RequestKinds DEF ReleaseTyped
    <3> QED
      BY <3>1, <3>2 DEF MinimumRequest
  <2>2. ASSUME NEW number \in Minimums, Re!SaveMinimum(h, number) PROVE minBuild' \in Nat /\ outdated' \in BOOLEAN
    BY <1>0, <2>2 DEF Re!SaveMinimum, ReleaseTyped
  <2> QED
    BY <2>1, <2>2
<1>4. ReleaseTyped' /\ Numbered' /\ CopyNumbered'
  BY <1>0, <1>1, <1>2, <1>3 DEF ReleaseTyped, Numbered, CopyNumbered
<1>5. request'[h] = state /\ \A g \in Requests : g # h => request'[g] = request[g]
  BY <1>0, <1>2 DEF ReleaseTyped
<1>6. ASSUME NEW c \in Builds \ crossed' PROVE BuildGood(c)'
  <2>1. BuildGood(c)
    BY <1>1, <1>6 DEF ReleaseInv
  <2>2. \A g \in Requests : (On(g, c)' <=> On(g, c)) /\ (On(g, c) => request'[g] = request[g])
    BY <1>2, <1>5 DEF On
  <2>3. releases'[c] = releases[c] /\ file'[c] = file[c] /\ cdn'[c] = cdn[c] /\ copying' = copying
    BY <1>1
  <2> QED
    BY <2>1, <2>2, <2>3, BuildKeeps
<1> QED
  BY <1>4, <1>6 DEF ReleaseInv

LEMMA MirrorKeeps ==
    ASSUME ReleaseInv, NEW b \in Builds, UNCHANGED <<file, request, crossed>>, ReleaseTyped', Numbered', CopyNumbered',
           \A c \in Builds : c # b => releases'[c] = releases[c] /\ cdn'[c] = cdn[c],
           copying' = Re!Idle \/ copying'.build = b,
           releases[b] = Re!NoRow <=> releases'[b] = Re!NoRow,
           releases[b] # Re!NoRow => /\ releases'[b].id = releases[b].id /\ releases'[b].status = releases[b].status
                                     /\ releases'[b].rollout = releases[b].rollout,
           b \notin crossed /\ (Deleting(b)' <=> Deleting(b)) => FileKept(b)' /\ CopyKnows(b)'
    PROVE  ReleaseInv'
<1>1. ASSUME NEW c \in Builds \ crossed', c # b PROVE BuildGood(c)'
  <2>1. BuildGood(c) /\ c \in Builds
    BY <1>1 DEF ReleaseInv
  <2>2. \A g \in Requests : (On(g, c)' <=> On(g, c)) /\ (On(g, c) => request'[g] = request[g])
    BY DEF On
  <2>3. /\ releases'[c] = releases[c] /\ file'[c] = file[c] /\ cdn'[c] = cdn[c]
        /\ copying' = copying \/ copying' = Re!Idle \/ copying'.build # c
    BY <1>1
  <2> QED
    BY <2>1, <2>2, <2>3, BuildKeeps
<1>2. ASSUME b \notin crossed PROVE BuildGood(b)'
  <2>1. BuildGood(b)
    BY <1>2 DEF ReleaseInv
  <2>2. \A g \in Requests : On(g, b)' <=> On(g, b)
    BY DEF On
  <2>3. FileKept(b)' /\ CopyKnows(b)'
    BY <1>2, <2>2 DEF Deleting
  <2>4. \A g \in Requests : UploadKnows(g, b)'
    BY <2>1, <2>2 DEF BuildGood, UploadKnows
  <2>5. \A g \in Requests : ChangeKnows(g, b)'
    BY <2>1, <2>2 DEF BuildGood, ChangeKnows
  <2>6. \A g, k \in Requests : On(g, b)' /\ On(k, b)' => g = k
    BY <2>1, <2>2 DEF BuildGood
  <2> QED
    BY <2>3, <2>4, <2>5, <2>6 DEF BuildGood
<1> QED
  BY <1>1, <1>2 DEF ReleaseInv

LEMMA MirrorStarts == ASSUME ReleaseInv, Re!SyncReleaseMirrors PROVE ReleaseInv'
<1>0. ReleaseTyped /\ Numbered /\ CopyNumbered
  BY DEF ReleaseInv
<1>1. PICK b \in Builds : /\ releases[b] # Re!NoRow /\ ~releases[b].mirrored
                          /\ releases' = [releases EXCEPT ![b] = [releases[b] EXCEPT !.attempts = @ + 1]]
                          /\ copying' = [at |-> "copy", build |-> b, id |-> releases[b].id, content |-> file[b]]
  BY DEF Re!SyncReleaseMirrors, Re!Uncopied, Re!Released, Re!Row, Re!Attempted
<1>2. UNCHANGED <<file, cdn, minBuild, uploads, request, crossed, outdated>>
  BY DEF Re!SyncReleaseMirrors
<1>3. releases[b] \in ReleaseRow
  BY <1>0, <1>1 DEF ReleaseTyped
<1>4. PICK row : row = [releases[b] EXCEPT !.attempts = @ + 1]
  OBVIOUS
<1>5. /\ row \in ReleaseRow /\ row.id = releases[b].id /\ row.digest = releases[b].digest /\ ~row.mirrored
      /\ row.status = releases[b].status /\ row.rollout = releases[b].rollout
  BY <1>1, <1>3, <1>4 DEF ReleaseRow
<1>6. releases' = [releases EXCEPT ![b] = row] /\ releases'[b] = row /\ row # Re!NoRow
  BY <1>0, <1>1, <1>4, <1>5, RowsAreRows DEF ReleaseTyped
<1>7. PICK copy : copy = [at |-> "copy", build |-> b, id |-> releases[b].id, content |-> file[b]]
  OBVIOUS
<1>8. copying' = copy /\ copy.at = "copy" /\ copy.build = b /\ copy.id = row.id /\ copy.content = file[b]
  BY <1>1, <1>5, <1>7
<1>9. copy \in CopyState
  BY <1>0, <1>3, <1>7 DEF CopyState, ReleaseTyped, ReleaseRow
<1>10. ReleaseTyped'
  BY <1>0, <1>2, <1>5, <1>6, <1>8, <1>9 DEF ReleaseTyped
<1>11. \A c \in Builds : c # b => releases'[c] = releases[c] /\ cdn'[c] = cdn[c]
  BY <1>0, <1>2, <1>6 DEF ReleaseTyped
<1>12. Numbered'
  BY <1>0, <1>1, <1>2, <1>5, <1>6, <1>11 DEF Numbered
<1>13. CopyNumbered'
  BY <1>0, <1>1, <1>2, <1>5, <1>6, <1>8 DEF Numbered, CopyNumbered
<1>14. ASSUME b \notin crossed, Deleting(b)' <=> Deleting(b) PROVE FileKept(b)' /\ CopyKnows(b)'
  <2>1. FileKept(b)
    BY <1>14 DEF ReleaseInv, BuildGood
  <2>2. FileKept(b)'
    BY <1>1, <1>2, <1>5, <1>6, <1>14, <2>1 DEF FileKept
  <2>3. CopyKnows(b)'
    BY <1>1, <1>5, <1>6, <1>8, <2>1 DEF FileKept, CopyKnows
  <2> QED
    BY <2>2, <2>3
<1> QED
  BY <1>1, <1>2, <1>5, <1>6, <1>8, <1>10, <1>11, <1>12, <1>13, <1>14, MirrorKeeps

LEMMA MirrorCopies == ASSUME ReleaseInv, Re!CopyToMirror PROVE ReleaseInv'
<1>0. ReleaseTyped /\ Numbered /\ CopyNumbered
  BY DEF ReleaseInv
<1> PICK b : b = copying.build
  OBVIOUS
<1>1. copying.at = "copy" /\ copying # Re!Idle /\ b \in Builds
  BY <1>0 DEF Re!CopyToMirror, ReleaseTyped, CopyState, Re!Idle
<1>2. UNCHANGED <<releases, file, minBuild, uploads, request, crossed, outdated>>
  BY DEF Re!CopyToMirror
<1>3. PICK copy : copy = [copying EXCEPT !.at = "record"]
  OBVIOUS
<1>4. /\ copy \in CopyState /\ copy.at = "record" /\ copy.build = b /\ copy.id = copying.id
      /\ copy.content = copying.content /\ copying.content \in Nat
  BY <1>0, <1>1, <1>3 DEF ReleaseTyped, CopyState
<1>5. \/ copying' = Re!Idle /\ cdn' = cdn
      \/ copying.content # 0 /\ cdn' = [cdn EXCEPT ![b] = copying.content] /\ copying' \in {Re!Idle, copy}
  BY <1>3 DEF Re!CopyToMirror
<1>6. ReleaseTyped'
  BY <1>0, <1>2, <1>4, <1>5 DEF ReleaseTyped, CopyState
<1>7. Numbered' /\ CopyNumbered'
  BY <1>0, <1>1, <1>2, <1>4, <1>5 DEF Numbered, CopyNumbered
<1>8. \A c \in Builds : c # b => releases'[c] = releases[c] /\ cdn'[c] = cdn[c]
  BY <1>0, <1>2, <1>5 DEF ReleaseTyped
<1>9. copying' = Re!Idle \/ copying'.build = b
  BY <1>4, <1>5
<1>10. ASSUME b \notin crossed, Deleting(b)' <=> Deleting(b) PROVE FileKept(b)' /\ CopyKnows(b)'
  <2>1. FileKept(b) /\ CopyKnows(b)
    BY <1>1, <1>10 DEF ReleaseInv, BuildGood
  <2>2. releases[b] # Re!NoRow => ~releases[b].mirrored
    BY <1>0, <1>1 DEF CopyNumbered
  <2>3. FileKept(b)'
    BY <1>2, <1>10, <2>1, <2>2 DEF FileKept
  <2>4. copying' # Re!Idle => copying' = copy /\ cdn'[b] = copying.content /\ copying.content # 0
    BY <1>0, <1>1, <1>5 DEF ReleaseTyped
  <2>5. CopyKnows(b)'
    BY <1>1, <1>2, <1>4, <2>1, <2>4 DEF CopyKnows
  <2> QED
    BY <2>3, <2>5
<1> QED
  BY <1>1, <1>2, <1>6, <1>7, <1>8, <1>9, <1>10, MirrorKeeps

LEMMA MirrorRecords == ASSUME ReleaseInv, Re!RecordCopy PROVE ReleaseInv'
<1>0. ReleaseTyped /\ Numbered /\ CopyNumbered
  BY DEF ReleaseInv
<1> PICK b : b = copying.build
  OBVIOUS
<1>1. copying.at = "record" /\ copying # Re!Idle /\ b \in Builds
  BY <1>0 DEF Re!RecordCopy, ReleaseTyped, CopyState, Re!Idle
<1>2. UNCHANGED <<file, minBuild, uploads, request, crossed, outdated>> /\ copying' = Re!Idle
  BY DEF Re!RecordCopy
<1>3. releases[b] # Re!NoRow => ~releases[b].mirrored
  BY <1>0, <1>1 DEF CopyNumbered
<1>4. CASE releases[b] # Re!NoRow /\ releases[b].id = copying.id
  <2>1. PICK row : row = [releases[b] EXCEPT !.mirrored = TRUE]
    OBVIOUS
  <2>2. releases' = [releases EXCEPT ![b] = row] /\ cdn' = cdn
    BY <1>4, <2>1 DEF Re!RecordCopy, Re!SameRow, Re!Row
  <2>3. releases[b] \in ReleaseRow
    BY <1>0, <1>1, <1>4 DEF ReleaseTyped
  <2>4. /\ row \in ReleaseRow /\ row.id = releases[b].id /\ row.digest = releases[b].digest
        /\ row.status = releases[b].status /\ row.rollout = releases[b].rollout
    BY <2>1, <2>3 DEF ReleaseRow
  <2>5. releases'[b] = row /\ row # Re!NoRow
    BY <1>0, <1>1, <2>2, <2>4, RowsAreRows DEF ReleaseTyped
  <2>6. ReleaseTyped'
    BY <1>0, <1>2, <2>2, <2>4 DEF ReleaseTyped, CopyState
  <2>7. \A c \in Builds : c # b => releases'[c] = releases[c] /\ cdn'[c] = cdn[c]
    BY <1>0, <2>2 DEF ReleaseTyped
  <2>8. Numbered' /\ CopyNumbered'
    BY <1>0, <1>1, <1>2, <1>4, <2>4, <2>5, <2>7 DEF Numbered, CopyNumbered
  <2>9. ASSUME b \notin crossed, Deleting(b)' <=> Deleting(b) PROVE FileKept(b)' /\ CopyKnows(b)'
    <3>1. FileKept(b) /\ CopyKnows(b)
      BY <1>1, <2>9 DEF ReleaseInv, BuildGood
    <3>2. Deleting(b) \/ cdn[b] = releases[b].digest
      BY <1>1, <1>4, <3>1 DEF CopyKnows
    <3> QED
      BY <1>2, <1>4, <2>2, <2>4, <2>5, <2>9, <3>1, <3>2 DEF FileKept, CopyKnows
  <2> QED
    BY <1>1, <1>2, <1>4, <2>4, <2>5, <2>6, <2>7, <2>8, <2>9, MirrorKeeps
<1>5. CASE ~(releases[b] # Re!NoRow /\ releases[b].id = copying.id)
  <2>1. releases' = releases /\ cdn' = [cdn EXCEPT ![b] = 0]
    BY <1>5 DEF Re!RecordCopy, Re!SameRow
  <2>2. ReleaseTyped'
    BY <1>0, <1>2, <2>1 DEF ReleaseTyped, CopyState
  <2>3. Numbered' /\ CopyNumbered'
    BY <1>0, <1>2, <2>1 DEF Numbered, CopyNumbered
  <2>4. \A c \in Builds : c # b => releases'[c] = releases[c] /\ cdn'[c] = cdn[c]
    BY <1>0, <2>1 DEF ReleaseTyped
  <2>5. ASSUME b \notin crossed, Deleting(b)' <=> Deleting(b) PROVE FileKept(b)' /\ CopyKnows(b)'
    <3>1. FileKept(b)
      BY <1>1, <2>5 DEF ReleaseInv, BuildGood
    <3> QED
      BY <1>2, <1>3, <2>1, <2>5, <3>1 DEF FileKept, CopyKnows
  <2> QED
    BY <1>1, <1>2, <2>1, <2>2, <2>3, <2>4, <2>5, MirrorKeeps
<1> QED
  BY <1>4, <1>5

LEMMA ReleasesRestarted == ASSUME ReleaseInv, Re!ControllerRestarts PROVE ReleaseInv'
<1>0. ReleaseTyped /\ Numbered /\ CopyNumbered
  BY DEF ReleaseInv
<1>1. /\ request' = [h \in Requests |-> Re!Idle] /\ copying' = Re!Idle
      /\ crossed' = crossed \union {request[h].build : h \in {g \in Requests : request[g].at \in {"files", "change", "check"}}}
      /\ UNCHANGED <<releases, file, cdn, minBuild, uploads, outdated>>
  BY DEF Re!ControllerRestarts
<1>2. Re!Idle \in RequestState /\ Re!Idle.at = "idle"
  BY DEF RequestState, Re!Idle
<1>3. ReleaseTyped'
  BY <1>0, <1>1, <1>2 DEF ReleaseTyped, CopyState
<1>4. Numbered' /\ CopyNumbered'
  BY <1>0, <1>1 DEF Numbered, CopyNumbered
<1>5. ASSUME NEW c \in Builds \ crossed' PROVE BuildGood(c)'
  <2>1. BuildGood(c) /\ c \notin crossed
    BY <1>1, <1>5 DEF ReleaseInv
  <2>2. ~Deleting(c)
    BY <1>1, <1>5 DEF Deleting, On
  <2>3. \A h \in Requests : ~On(h, c)'
    BY <1>1, <1>2 DEF On
  <2>4. ~Deleting(c)'
    BY <2>3 DEF Deleting
  <2>5. FileKept(c)' /\ CopyKnows(c)'
    BY <1>1, <2>1, <2>2, <2>4 DEF BuildGood, FileKept, CopyKnows
  <2>6. \A h \in Requests : UploadKnows(h, c)' /\ ChangeKnows(h, c)'
    BY <2>3 DEF UploadKnows, ChangeKnows
  <2> QED
    BY <2>3, <2>5, <2>6 DEF BuildGood
<1> QED
  BY <1>3, <1>4, <1>5 DEF ReleaseInv

LEMMA ReleasesKept == ASSUME ReleaseInv, UNCHANGED releaseVars PROVE ReleaseInv'
BY DEF releaseVars, ReleaseInv, ReleaseTyped, Numbered, CopyNumbered, BuildGood, UploadKnows, ChangeKnows,
       FileKept, CopyKnows, Deleting, On

LEMMA RequestsStep ==
    ASSUME ReleaseInv, NEW h \in Requests, Re!RequestStep(h) \/ Re!UploadInterrupted(h) \/ Re!DeleteFails(h) PROVE ReleaseInv'
<1>1. CASE Re!AppendLocalArtifact(h)
  BY <1>1, InstallerAppended
<1>2. CASE Re!InspectLocalArtifact(h)
  BY <1>2, InstallerInspected
<1>3. CASE Re!CreateRelease(h)
  BY <1>3, ReleaseCreated
<1>4. CASE Re!TransitionRelease(h)
  BY <1>4, ReleaseTransitioned
<1>5. CASE Re!NeverStrand(h)
  BY <1>5, ChangeTakenBack
<1>6. CASE Re!DeleteReleaseFiles(h)
  BY <1>6, FilesDeleted
<1>7. CASE Re!SetMinimumBuild(h)
  BY <1>7, MinimumMoves
<1>8. CASE Re!UploadInterrupted(h)
  BY <1>8, UploadStops
<1>9. CASE Re!DeleteFails(h)
  BY <1>9, DeletionStops
<1> QED
  BY <1>1, <1>2, <1>3, <1>4, <1>5, <1>6, <1>7, <1>8, <1>9 DEF Re!RequestStep

LEMMA ReleasesStep == ASSUME ReleaseInv, [Re!Next]_releaseVars PROVE ReleaseInv'
<1>1. ASSUME NEW h \in Requests, NEW b \in Builds, Re!ConsoleImport(h, b) \/ Re!ConsoleForm(h, b) \/ Re!ReleaseClient(h, b)
      PROVE  ReleaseInv'
  <2>1. PICK channel \in {"beta", "stable"}, publish \in BOOLEAN, checked \in BOOLEAN : Re!ReceiveUpload(h, b, channel, publish, checked)
    BY <1>1 DEF Re!ConsoleImport, Re!ConsoleForm, Re!ReleaseClient
  <2> QED
    BY <2>1, UploadReceived
<1>2. ASSUME NEW h \in Requests, NEW b \in Builds, NEW actor \in {"admin", "ci"}, NEW action \in Re!Actions, NEW percent \in Percents,
             Re!StartTransition(h, b, actor, action, percent)
      PROVE  ReleaseInv'
  BY <1>2, TransitionStarted
<1>3. ASSUME NEW h \in Requests, NEW number \in Minimums, Re!SaveMinimum(h, number) PROVE ReleaseInv'
  BY <1>3, MinimumMoves
<1>4. ASSUME NEW h \in Requests, Re!RequestStep(h) \/ Re!UploadInterrupted(h) \/ Re!DeleteFails(h) PROVE ReleaseInv'
  BY <1>4, RequestsStep
<1>5. ASSUME Re!MirrorStep PROVE ReleaseInv'
  BY <1>5, MirrorStarts, MirrorCopies, MirrorRecords DEF Re!MirrorStep
<1>6. ASSUME Re!ControllerRestarts PROVE ReleaseInv'
  BY <1>6, ReleasesRestarted
<1>7. ASSUME UNCHANGED releaseVars PROVE ReleaseInv'
  BY <1>7, ReleasesKept
<1> QED
  BY <1>1, <1>2, <1>3, <1>4, <1>5, <1>6, <1>7 DEF Re!Next, Minimums

LEMMA ReleaseInvariant == PeopleSpec => []ReleaseInv
<1>1. ReleaseInv /\ [Re!Next]_releaseVars => ReleaseInv'
  BY ReleasesStep
<1> QED
  BY <1>1, ReleasesRun, ReleasesInit, PTL

(* Whatever the download page shows is served, by the mirror and by the         *)
(* Controller, as the file whose digest was recorded: for any builds, requests  *)
(* and attempts of the mirror, unless two requests changed the build at once    *)
(* or one was left half-way.                                                    *)
THEOREM DownloadsAreRecorded == PeopleSpec => []ServesWhatItRecorded
<1>1. ReleaseInv => ServesWhatItRecorded
  <2> SUFFICES ASSUME ReleaseInv, NEW b \in Re!Shown \ crossed, NEW content \in Re!DownloadSources(b)
               PROVE  content = releases[b].digest
    BY DEF ServesWhatItRecorded, Re!ServesWhatItRecorded
  <2>1. b \in Builds /\ releases[b] # Re!NoRow /\ releases[b].status = "published"
    BY DEF Re!Shown, Re!LatestClientReleases, Re!ClientReleaseHistory, Re!OnChannel, Re!PublicReleases, Re!Published, Re!Released
  <2>2. BuildGood(b)
    BY <2>1 DEF ReleaseInv
  <2>3. ~Deleting(b)
    BY <2>1, <2>2 DEF Deleting, BuildGood, ChangeKnows
  <2>4. file[b] = releases[b].digest /\ (releases[b].mirrored => cdn[b] = releases[b].digest)
    BY <2>1, <2>2, <2>3 DEF BuildGood, FileKept
  <2> QED
    BY <2>4 DEF Re!DownloadSources, Re!LocalArtifact
<1> QED
  BY <1>1, ReleaseInvariant, PTL

-----------------------------------------------------------------------------
(* The minimum build is reached, or a change that takes it away is about to   *)
(* be taken back.                                                             *)

Reaches(b) ==
    /\ releases[b] # Re!NoRow /\ releases[b].status = "published"
    /\ releases[b].channel = "stable" /\ releases[b].rollout = 100

TakesBack(h) ==
    /\ request[h].at = "check" /\ request[h].build.number >= minBuild /\ request[h].rollout = 100
    /\ releases[request[h].build] # Re!NoRow /\ releases[request[h].build].channel = "stable"

MinMet ==
    \/ outdated \/ crossed # {} \/ minBuild = 0
    \/ \E b \in Builds : b.number >= minBuild /\ Reaches(b)
    \/ \E h \in Requests : TakesBack(h)

LEMMA MinimumKeeps ==
    ASSUME MinMet, UNCHANGED <<minBuild, outdated>>, crossed \subseteq crossed',
           \A b \in Builds : b.number >= minBuild /\ Reaches(b) => Reaches(b)' \/ MinMet',
           \A h \in Requests : TakesBack(h) => TakesBack(h)' \/ MinMet'
    PROVE  MinMet'
<1>1. CASE outdated \/ crossed # {} \/ minBuild = 0
  BY <1>1 DEF MinMet
<1>2. ASSUME NEW b \in Builds, b.number >= minBuild, Reaches(b) PROVE MinMet'
  BY <1>2 DEF MinMet
<1>3. ASSUME NEW h \in Requests, TakesBack(h) PROVE MinMet'
  BY <1>3 DEF MinMet
<1> QED
  BY <1>1, <1>2, <1>3 DEF MinMet

LEMMA MinimumFrame ==
    ASSUME MinMet, UNCHANGED <<releases, minBuild, outdated>>, crossed \subseteq crossed',
           \A g \in Requests : request[g].at = "check" => request'[g] = request[g]
    PROVE  MinMet'
<1>1. \A b \in Builds : Reaches(b) => Reaches(b)'
  BY DEF Reaches
<1>2. \A g \in Requests : TakesBack(g) => TakesBack(g)'
  BY DEF TakesBack
<1> QED
  BY <1>1, <1>2, MinimumKeeps

QuietUpload(h) ==
    \/ \E b \in Builds, channel \in {"beta", "stable"}, publish, checked \in BOOLEAN : Re!ReceiveUpload(h, b, channel, publish, checked)
    \/ Re!AppendLocalArtifact(h) \/ Re!UploadInterrupted(h) \/ Re!InspectLocalArtifact(h)

QuietChange(h) ==
    \/ \E b \in Builds, actor \in {"admin", "ci"}, action \in Re!Actions, percent \in Percents : Re!StartTransition(h, b, actor, action, percent)
    \/ \E number \in Minimums : Re!SaveMinimum(h, number)
    \/ Re!DeleteReleaseFiles(h) \/ Re!DeleteFails(h)

LEMMA QuietRequests ==
    ASSUME ReleaseTyped, NEW h \in Requests, QuietUpload(h) \/ QuietChange(h)
    PROVE  /\ UNCHANGED <<releases, minBuild, outdated>> /\ crossed \subseteq crossed'
           /\ \A g \in Requests : request[g].at = "check" => request'[g] = request[g]
<1>0. request \in [Requests -> RequestState] /\ Re!Idle.at = "idle"
  BY DEF ReleaseTyped, Re!Idle
<1>1. ASSUME NEW state, Re!Store(h, state), request[h].at # "check"
      PROVE  \A g \in Requests : request[g].at = "check" => request'[g] = request[g]
  BY <1>0, <1>1 DEF Re!Store
<1>2. ASSUME NEW b \in Builds, NEW channel, NEW publish, NEW checked, Re!ReceiveUpload(h, b, channel, publish, checked)
      PROVE  /\ UNCHANGED <<releases, minBuild, outdated>> /\ crossed \subseteq crossed'
             /\ request[h].at # "check" /\ \E state : Re!Store(h, state)
  BY <1>0, <1>2 DEF Re!ReceiveUpload, Re!Free, Re!Crosses
<1>3. ASSUME Re!AppendLocalArtifact(h) \/ Re!UploadInterrupted(h) \/ Re!InspectLocalArtifact(h)
      PROVE  /\ UNCHANGED <<releases, minBuild, outdated>> /\ crossed \subseteq crossed'
             /\ request[h].at # "check" /\ \E state : Re!Store(h, state)
  BY <1>3 DEF Re!AppendLocalArtifact, Re!UploadInterrupted, Re!InspectLocalArtifact
<1>4. ASSUME NEW b \in Builds, NEW actor, NEW action, NEW percent, Re!StartTransition(h, b, actor, action, percent)
      PROVE  /\ UNCHANGED <<releases, minBuild, outdated>> /\ crossed \subseteq crossed'
             /\ request[h].at # "check" /\ \E state : Re!Store(h, state)
  BY <1>0, <1>4 DEF Re!StartTransition, Re!Free, Re!Crosses
<1>5. ASSUME NEW number \in Minimums, Re!SaveMinimum(h, number)
      PROVE  /\ UNCHANGED <<releases, minBuild, outdated>> /\ crossed \subseteq crossed'
             /\ request[h].at # "check" /\ \E state : Re!Store(h, state)
  BY <1>0, <1>5 DEF Re!SaveMinimum, Re!Free
<1>6. ASSUME Re!DeleteReleaseFiles(h) \/ Re!DeleteFails(h)
      PROVE  /\ UNCHANGED <<releases, minBuild, outdated>> /\ crossed \subseteq crossed'
             /\ request[h].at # "check" /\ \E state : Re!Store(h, state)
  BY <1>6 DEF Re!DeleteReleaseFiles, Re!DeleteFails
<1>7. /\ UNCHANGED <<releases, minBuild, outdated>> /\ crossed \subseteq crossed'
      /\ request[h].at # "check" /\ \E state : Re!Store(h, state)
  BY <1>2, <1>3, <1>4, <1>5, <1>6 DEF QuietUpload, QuietChange
<1> QED
  BY <1>1, <1>7

LEMMA MinimumOfQuiet == ASSUME ReleaseInv, MinMet, NEW h \in Requests, QuietUpload(h) \/ QuietChange(h) PROVE MinMet'
BY QuietRequests, MinimumFrame DEF ReleaseInv

LEMMA MinimumOfRegistration == ASSUME ReleaseInv, MinMet, NEW h \in Requests, Re!CreateRelease(h) PROVE MinMet'
<1>0. ReleaseTyped
  BY DEF ReleaseInv
<1>1. request[h].at = "insert" /\ UNCHANGED <<minBuild, outdated, crossed>>
  BY DEF Re!CreateRelease
<1>2. \A g \in Requests : request[g].at = "check" => request'[g] = request[g]
  BY <1>0, <1>1 DEF Re!CreateRelease, Re!Store, ReleaseTyped
<1>3. \A b \in Builds : releases[b] # Re!NoRow => releases'[b] = releases[b]
  BY <1>0 DEF Re!CreateRelease, Re!Row, ReleaseTyped
<1>4. \A b \in Builds : Reaches(b) => Reaches(b)'
  BY <1>3 DEF Reaches
<1>5. \A g \in Requests : TakesBack(g) => TakesBack(g)'
  <2>1. \A g \in Requests : request[g].at = "check" => request[g].build \in Builds
    BY <1>0, RequestKinds DEF ReleaseTyped, ChangeRequest
  <2> QED
    BY <1>1, <1>2, <1>3, <2>1 DEF TakesBack
<1> QED
  BY <1>1, <1>4, <1>5, MinimumKeeps

(* While no build is crossed, a request that changes a release has it to itself. *)
LEMMA ChangesAlone ==
    ASSUME ReleaseInv, crossed = {}, NEW h \in Requests, request[h].at \in {"change", "check"}
    PROVE  /\ request[h] \in ChangeRequest /\ request[h].build \in Builds
           /\ ChangeKnows(h, request[h].build) /\ On(h, request[h].build)
           /\ releases[request[h].build] \in ReleaseRow
           /\ \A g \in Requests : g # h /\ request[g].at = "check" => request[g].build \in Builds \ {request[h].build}
<1>1. \A g \in Requests : request[g].at \in {"change", "check"} => request[g].build \in Builds /\ On(g, request[g].build)
  BY RequestKinds DEF ReleaseInv, ReleaseTyped, ChangeRequest, On
<1>2. request[h] \in ChangeRequest
  BY RequestKinds DEF ReleaseInv, ReleaseTyped
<1>3. BuildGood(request[h].build)
  BY <1>1 DEF ReleaseInv
<1>4. ChangeKnows(h, request[h].build)
  BY <1>3 DEF BuildGood
<1>5. releases[request[h].build] # Re!NoRow
  BY <1>1, <1>4 DEF ChangeKnows
<1>6. releases[request[h].build] \in ReleaseRow
  BY <1>1, <1>5 DEF ReleaseInv, ReleaseTyped
<1>7. \A g \in Requests : g # h /\ request[g].at = "check" => request[g].build \in Builds \ {request[h].build}
  BY <1>1, <1>3 DEF BuildGood
<1> QED
  BY <1>1, <1>2, <1>4, <1>6, <1>7

LEMMA MinimumOfTransition == ASSUME ReleaseInv, MinMet, NEW h \in Requests, Re!TransitionRelease(h) PROVE MinMet'
<1>0. ReleaseTyped
  BY DEF ReleaseInv
<1> PICK b : b = request[h].build
  OBVIOUS
<1>1. request[h].at = "change" /\ UNCHANGED <<minBuild, outdated, crossed>>
  BY DEF Re!TransitionRelease
<1>2. CASE crossed # {}
  BY <1>1, <1>2 DEF MinMet
<1>3. CASE crossed = {}
  <2>1. /\ request[h] \in ChangeRequest /\ b \in Builds /\ ChangeKnows(h, b) /\ On(h, b) /\ releases[b] \in ReleaseRow
        /\ \A g \in Requests : g # h /\ request[g].at = "check" => request[g].build \in Builds \ {b}
    BY <1>1, <1>3, ChangesAlone
  <2>2. \A g \in Requests : g # h => request'[g] = request[g]
    BY <1>0 DEF Re!TransitionRelease, Re!Store, ReleaseTyped
  <2>3. \A c \in Builds : c # b => releases'[c] = releases[c]
    BY <1>0 DEF Re!TransitionRelease, Re!Row, ReleaseTyped
  <2>4. \A g \in Requests : TakesBack(g) => TakesBack(g)'
    BY <1>1, <2>1, <2>2, <2>3 DEF TakesBack
  <2>5. \A c \in Builds : c # b /\ Reaches(c) => Reaches(c)'
    BY <2>3 DEF Reaches
  <2>6. ASSUME b.number >= minBuild, Reaches(b) PROVE Reaches(b)' \/ MinMet'
    <3>1. CASE releases' = releases
      BY <2>6, <3>1 DEF Reaches
    <3>2. CASE releases' # releases
      <4>1. /\ releases' = [releases EXCEPT ![b] = Re!After(request[h], releases[b])]
            /\ request' = [request EXCEPT ![h] = IF request[h].action \in {"withdraw", "rollout"} THEN [request[h] EXCEPT !.at = "check"]
                                                 ELSE Re!Idle]
        BY <3>2 DEF Re!TransitionRelease, Re!Row, Re!Store
      <4>2. request[h].action # "delete" /\ request[h].rollout = 100
        BY <1>1, <2>1, <2>6 DEF ChangeKnows, Reaches
      <4>3. PICK row : row = Re!After(request[h], releases[b])
        OBVIOUS
      <4>4. row \in ReleaseRow /\ row # Re!NoRow /\ releases'[b] = row
        BY <1>0, <2>1, <4>1, <4>2, <4>3, RowAfter, RowsAreRows DEF ReleaseTyped
      <4>5. row.channel = "stable"
        BY <2>1, <2>6, <4>2, <4>3 DEF Re!After, Reaches, ReleaseRow, ChangeRequest, Re!Actions
      <4>6. CASE request[h].action \in {"withdraw", "rollout"}
        <5>1. PICK state : state = [request[h] EXCEPT !.at = "check"]
          OBVIOUS
        <5>2. state.at = "check" /\ state.build = b /\ state.rollout = 100
          BY <2>1, <4>2, <5>1 DEF ChangeRequest
        <5>3. request'[h] = state
          BY <1>0, <4>1, <4>6, <5>1 DEF ReleaseTyped
        <5>4. TakesBack(h)'
          BY <1>1, <2>6, <4>4, <4>5, <5>2, <5>3 DEF TakesBack
        <5> QED
          BY <5>4 DEF MinMet
      <4>7. CASE request[h].action \notin {"withdraw", "rollout"}
        <5>1. row.status = "published" /\ row.rollout = 100
          BY <2>1, <2>6, <4>2, <4>3, <4>7 DEF Re!After, Reaches, ReleaseRow, ChangeRequest, Re!Actions
        <5> QED
          BY <4>4, <4>5, <5>1 DEF Reaches
      <4> QED
        BY <4>6, <4>7
    <3> QED
      BY <3>1, <3>2
  <2> QED
    BY <1>1, <2>4, <2>5, <2>6, MinimumKeeps
<1> QED
  BY <1>2, <1>3

LEMMA StableIsReached ==
    ASSUME NEW number PROVE /\ Re!StableBuildAtLeast(number) <=> \E b \in Builds : b.number >= number /\ Reaches(b)
                            /\ Re!Reachable(number) <=> \E b \in Builds : b.number >= number /\ Reaches(b)
BY DEF Re!StableBuildAtLeast, Re!Reachable, Re!Published, Re!Released, Reaches

LEMMA MinimumOfTakingBack == ASSUME ReleaseInv, MinMet, NEW h \in Requests, Re!NeverStrand(h) PROVE MinMet'
<1>0. ReleaseTyped
  BY DEF ReleaseInv
<1> PICK b : b = request[h].build
  OBVIOUS
<1>1. request[h].at = "check" /\ UNCHANGED <<minBuild, outdated, crossed>>
  BY DEF Re!NeverStrand
<1>2. CASE crossed # {}
  BY <1>1, <1>2 DEF MinMet
<1>3. CASE crossed = {}
  <2>1. /\ request[h] \in ChangeRequest /\ b \in Builds /\ ChangeKnows(h, b) /\ On(h, b) /\ releases[b] \in ReleaseRow
        /\ \A g \in Requests : g # h /\ request[g].at = "check" => request[g].build \in Builds \ {b}
    BY <1>1, <1>3, ChangesAlone
  <2>2. \A g \in Requests : g # h => request'[g] = request[g]
    BY <1>0 DEF Re!NeverStrand, Re!Store, ReleaseTyped
  <2>3. \A c \in Builds : c # b => releases'[c] = releases[c]
    BY <1>0 DEF Re!NeverStrand, Re!Row, ReleaseTyped
  <2>4. \A g \in Requests : g # h /\ TakesBack(g) => TakesBack(g)'
    BY <1>1, <2>1, <2>2, <2>3 DEF TakesBack
  <2>5. CASE minBuild > 0 /\ ~Re!StableBuildAtLeast(minBuild)
    <3>1. releases[b] # Re!NoRow /\ releases[b].id = request[h].id
      BY <1>1, <2>1 DEF ChangeKnows
    <3>2. releases' = [releases EXCEPT ![b] = Re!Restored(request[h], releases[b])]
      BY <2>5, <3>1 DEF Re!NeverStrand, Re!Row
    <3>3. \A c \in Builds : c.number >= minBuild => ~Reaches(c)
      BY <2>5, StableIsReached
    <3>4. ASSUME TakesBack(h) PROVE MinMet'
      <4>1. PICK row : row = Re!Restored(request[h], releases[b])
        OBVIOUS
      <4>2. row \in ReleaseRow /\ row.status = "published" /\ row.rollout = 100 /\ row.channel = "stable"
        BY <2>1, <3>4, <4>1 DEF Re!Restored, ReleaseRow, ChangeRequest, TakesBack
      <4>3. releases'[b] = row /\ row # Re!NoRow
        BY <1>0, <2>1, <3>2, <4>1, <4>2, RowsAreRows DEF ReleaseTyped
      <4>4. Reaches(b)' /\ b.number >= minBuild'
        BY <1>1, <3>4, <4>2, <4>3 DEF Reaches, TakesBack
      <4> QED
        BY <2>1, <4>4 DEF MinMet
    <3> QED
      BY <1>1, <2>4, <3>3, <3>4, MinimumKeeps
  <2>6. CASE ~(minBuild > 0 /\ ~Re!StableBuildAtLeast(minBuild))
    <3>1. releases' = releases
      BY <2>6 DEF Re!NeverStrand
    <3>2. \A c \in Builds : Reaches(c) => Reaches(c)'
      BY <3>1 DEF Reaches
    <3>3. minBuild = 0 \/ \E c \in Builds : c.number >= minBuild /\ Reaches(c)
      BY <1>0, <2>6, StableIsReached DEF ReleaseTyped
    <3> QED
      BY <1>1, <3>2, <3>3 DEF MinMet
  <2> QED
    BY <2>5, <2>6
<1> QED
  BY <1>2, <1>3

LEMMA MinimumOfSaving == ASSUME ReleaseInv, MinMet, NEW h \in Requests, Re!SetMinimumBuild(h) PROVE MinMet'
<1>0. ReleaseTyped
  BY DEF ReleaseInv
<1>1. /\ request[h].at = "minimum" /\ minBuild' = request[h].minimum /\ UNCHANGED <<releases, crossed>>
      /\ outdated' = (outdated \/ ((request[h].reached \/ request[h].minimum > minBuild) /\ request[h].minimum > 0
                                   /\ ~Re!Reachable(request[h].minimum)))
  BY DEF Re!SetMinimumBuild
<1>2. request[h].minimum \in Nat /\ minBuild \in Nat
  BY <1>0, <1>1, RequestKinds DEF ReleaseTyped, MinimumRequest
<1>3. \A c \in Builds : Reaches(c) => Reaches(c)'
  BY <1>1 DEF Reaches
<1>4. CASE outdated' \/ crossed # {} \/ request[h].minimum = 0
  BY <1>1, <1>4 DEF MinMet
<1>5. CASE Re!Reachable(request[h].minimum)
  BY <1>1, <1>3, <1>5, StableIsReached DEF MinMet
<1>6. CASE ~outdated' /\ crossed = {} /\ request[h].minimum # 0 /\ ~Re!Reachable(request[h].minimum)
  <2>0. ~outdated /\ ~(request[h].minimum > minBuild /\ request[h].minimum > 0)
    <3>1. request[h].minimum > minBuild /\ request[h].minimum > 0 => outdated'
      BY <1>1, <1>6, Zenon
    <3>2. outdated => outdated'
      BY <1>1, Zenon
    <3> QED
      BY <1>6, <3>1, <3>2
  <2>1. ~outdated /\ request[h].minimum <= minBuild /\ minBuild # 0
    BY <1>2, <1>6, <2>0
  <2>2. ASSUME NEW c \in Builds, c.number >= minBuild, Reaches(c) PROVE FALSE
    <3>1. c.number >= request[h].minimum
      BY <1>2, <2>1, <2>2, ReleaseConstants
    <3> QED
      BY <1>6, <2>2, <3>1, StableIsReached
  <2>3. PICK g \in Requests : TakesBack(g)
    BY <1>6, <2>1, <2>2 DEF MinMet
  <2>4. request'[g] = request[g]
    BY <1>0, <1>1, <2>3 DEF Re!SetMinimumBuild, Re!Store, ReleaseTyped, TakesBack
  <2>5. request[g].build.number \in Nat
    BY <1>0, <2>3, RequestKinds, ReleaseConstants DEF ReleaseTyped, TakesBack, ChangeRequest
  <2>6. request[g].build.number >= request[h].minimum
    BY <1>2, <2>1, <2>3, <2>5 DEF TakesBack
  <2>7. TakesBack(g)'
    BY <1>1, <2>3, <2>4, <2>6 DEF TakesBack
  <2> QED
    BY <2>7 DEF MinMet
<1> QED
  BY <1>4, <1>5, <1>6

LEMMA MinimumOfMirror == ASSUME ReleaseInv, MinMet, Re!MirrorStep PROVE MinMet'
<1>0. ReleaseTyped
  BY DEF ReleaseInv
<1>1. UNCHANGED <<minBuild, outdated, crossed, request>>
  BY DEF Re!MirrorStep, Re!SyncReleaseMirrors, Re!CopyToMirror, Re!RecordCopy
<1>2. ASSUME NEW b \in Builds, releases[b] # Re!NoRow
      PROVE  /\ releases'[b] # Re!NoRow /\ releases'[b].status = releases[b].status
             /\ releases'[b].channel = releases[b].channel /\ releases'[b].rollout = releases[b].rollout
  <2>1. releases[b] \in ReleaseRow
    BY <1>0, <1>2 DEF ReleaseTyped
  <2>2. releases'[b] \in {releases[b], [releases[b] EXCEPT !.attempts = @ + 1], [releases[b] EXCEPT !.mirrored = TRUE]}
    <3>1. CASE Re!SyncReleaseMirrors
      <4>1. PICK c \in Builds : releases' = [releases EXCEPT ![c] = [releases[c] EXCEPT !.attempts = @ + 1]]
        BY <3>1 DEF Re!SyncReleaseMirrors, Re!Uncopied, Re!Released, Re!Row, Re!Attempted
      <4> QED
        BY <1>0, <4>1 DEF ReleaseTyped
    <3>2. CASE Re!CopyToMirror
      BY <3>2 DEF Re!CopyToMirror
    <3>3. CASE Re!RecordCopy
      <4>1. \/ releases' = releases
            \/ releases' = [releases EXCEPT ![copying.build] = [releases[copying.build] EXCEPT !.mirrored = TRUE]]
        BY <3>3 DEF Re!RecordCopy, Re!Row
      <4> QED
        BY <1>0, <4>1 DEF ReleaseTyped
    <3> QED
      BY <3>1, <3>2, <3>3 DEF Re!MirrorStep
  <2>3. PICK counted : counted = [releases[b] EXCEPT !.attempts = @ + 1]
    OBVIOUS
  <2>4. PICK copied : copied = [releases[b] EXCEPT !.mirrored = TRUE]
    OBVIOUS
  <2>5. /\ counted \in ReleaseRow /\ counted.status = releases[b].status
        /\ counted.channel = releases[b].channel /\ counted.rollout = releases[b].rollout
    BY <2>1, <2>3 DEF ReleaseRow
  <2>6. /\ copied \in ReleaseRow /\ copied.status = releases[b].status
        /\ copied.channel = releases[b].channel /\ copied.rollout = releases[b].rollout
    BY <2>1, <2>4 DEF ReleaseRow
  <2>7. releases'[b] \in {releases[b], counted, copied}
    BY <2>2, <2>3, <2>4
  <2> QED
    BY <1>2, <2>5, <2>6, <2>7, RowsAreRows
<1>3. \A b \in Builds : Reaches(b) => Reaches(b)'
  BY <1>2 DEF Reaches
<1>4. \A g \in Requests : TakesBack(g) => TakesBack(g)'
  <2>1. \A g \in Requests : request[g].at = "check" => request[g].build \in Builds
    BY <1>0, RequestKinds DEF ReleaseTyped, ChangeRequest
  <2> QED
    BY <1>1, <1>2, <2>1 DEF TakesBack
<1> QED
  BY <1>1, <1>3, <1>4, MinimumKeeps

LEMMA MinimumOfRestart == ASSUME ReleaseInv, MinMet, Re!ControllerRestarts PROVE MinMet'
<1>1. UNCHANGED <<releases, minBuild, outdated>> /\ crossed \subseteq crossed'
  BY DEF Re!ControllerRestarts
<1>2. \A b \in Builds : Reaches(b) => Reaches(b)'
  BY <1>1 DEF Reaches
<1>3. ASSUME NEW g \in Requests, TakesBack(g) PROVE MinMet'
  <2>1. request[g].build \in crossed'
    BY <1>3 DEF Re!ControllerRestarts, TakesBack
  <2> QED
    BY <2>1 DEF MinMet
<1> QED
  BY <1>1, <1>2, <1>3, MinimumKeeps

LEMMA MinimumStep == ASSUME ReleaseInv, MinMet, [Re!Next]_releaseVars PROVE MinMet'
<1>1. ASSUME NEW h \in Requests, NEW b \in Builds, Re!ConsoleImport(h, b) \/ Re!ConsoleForm(h, b) \/ Re!ReleaseClient(h, b)
      PROVE  MinMet'
  <2>1. QuietUpload(h)
    BY <1>1 DEF Re!ConsoleImport, Re!ConsoleForm, Re!ReleaseClient, QuietUpload
  <2> QED
    BY <2>1, MinimumOfQuiet
<1>2. ASSUME NEW h \in Requests, NEW b \in Builds, NEW actor \in {"admin", "ci"}, NEW action \in Re!Actions, NEW percent \in Percents,
             Re!StartTransition(h, b, actor, action, percent)
      PROVE  MinMet'
  <2>1. QuietChange(h)
    BY <1>2 DEF QuietChange
  <2> QED
    BY <2>1, MinimumOfQuiet
<1>3. ASSUME NEW h \in Requests, NEW number \in Minimums, Re!SaveMinimum(h, number) PROVE MinMet'
  <2>1. QuietChange(h)
    BY <1>3 DEF QuietChange
  <2> QED
    BY <2>1, MinimumOfQuiet
<1>4. ASSUME NEW h \in Requests, \/ Re!AppendLocalArtifact(h) \/ Re!InspectLocalArtifact(h) \/ Re!DeleteReleaseFiles(h)
                                 \/ Re!UploadInterrupted(h) \/ Re!DeleteFails(h)
      PROVE  MinMet'
  <2>1. QuietUpload(h) \/ QuietChange(h)
    BY <1>4 DEF QuietUpload, QuietChange
  <2> QED
    BY <2>1, MinimumOfQuiet
<1>5. ASSUME NEW h \in Requests, \/ Re!CreateRelease(h) \/ Re!TransitionRelease(h) \/ Re!NeverStrand(h) \/ Re!SetMinimumBuild(h)
      PROVE  MinMet'
  BY <1>5, MinimumOfRegistration, MinimumOfTransition, MinimumOfTakingBack, MinimumOfSaving
<1>6. ASSUME Re!MirrorStep \/ Re!ControllerRestarts PROVE MinMet'
  BY <1>6, MinimumOfMirror, MinimumOfRestart
<1>7. ASSUME UNCHANGED releaseVars PROVE MinMet'
  <2>1. UNCHANGED <<releases, minBuild, outdated, crossed, request>>
    BY <1>7 DEF releaseVars
  <2> QED
    BY <2>1, MinimumFrame
<1> QED
  BY <1>1, <1>2, <1>3, <1>4, <1>5, <1>6, <1>7 DEF Re!Next, Re!RequestStep, Minimums

(* A finite set of builds that is not empty has a newest one. *)
LEMMA NewestBuild ==
    ASSUME NEW S \in SUBSET Builds, S # {} PROVE \E b \in S : \A c \in S : c.number <= b.number
<1> DEFINE Above(x) == {c \in S : c.number > x.number}
           Tops == {Above(x) : x \in S}
<1>1. FiniteSubsetsOf(S) = SUBSET S
  BY ReleaseConstants, FS_Subset, FS_FiniteSubsetsOfFinite
<1>2. IsWellFoundedOn(StrictSubsetOrdering(S), SUBSET S)
  BY <1>1, FS_StrictSubsetOrderingWellFounded
<1>3. Tops \subseteq SUBSET S /\ Tops # {}
  OBVIOUS
<1>4. PICK top \in Tops : \A other \in Tops : <<other, top>> \notin StrictSubsetOrdering(S)
  <2> HIDE DEF Tops
  <2> QED
    BY <1>2, <1>3, WFMin
<1>5. PICK b \in S : top = Above(b)
  OBVIOUS
<1>6. ASSUME NEW c \in S, c.number > b.number PROVE FALSE
  <2>1. b.number \in Nat /\ \A x \in S : x.number \in Nat
    BY ReleaseConstants
  <2>2. Above(c) \in SUBSET S /\ Above(c) \subseteq top /\ Above(c) # top
    <3>3. \A x \in S : x.number > c.number => x.number > b.number
      BY <1>6, <2>1
    <3>1. Above(c) \subseteq top
      BY <1>5, <3>3, Zenon
    <3>2. c \in top /\ c \notin Above(c)
      BY <1>5, <1>6, <2>1
    <3> QED
      BY <3>1, <3>2
  <2>3. <<Above(c), top>> \in StrictSubsetOrdering(S)
    BY <1>3, <2>2 DEF StrictSubsetOrdering
  <2> QED
    BY <1>4, <2>3
<1> QED
  BY <1>6, ReleaseConstants

(* For any releases, architectures, rollouts and requests, a minimum that makes  *)
(* updates mandatory is met by the offer to the apps of one architecture, which  *)
(* share of the rollout they fall in, unless a change is still being checked,    *)
(* two requests changed a build at once, or a minimum was saved on an old        *)
(* answer. Nothing is promised to the apps of the other architectures.           *)
THEOREM MinimumIsMet == PeopleSpec => []MinimumIsOffered
<1>1. ReleaseInv /\ MinMet /\ [Re!Next]_releaseVars => MinMet'
  BY MinimumStep
<1>2. Re!Init => MinMet
  BY DEF Re!Init, MinMet
<1>3. ReleaseInv /\ MinMet => MinimumIsOffered
  <2> SUFFICES ASSUME ReleaseInv, MinMet, ~(outdated \/ crossed # {} \/ (\E h \in Requests : request[h].at \in {"check"}))
               PROVE  \E arch \in Architectures : \A bucket \in {0, 60, 100} :
                         minBuild > 0 => \E b \in Re!ReleaseFor(arch, "stable", bucket) : b.number >= minBuild
    <3>1. ASSUME NEW arch, NEW bucket
          PROVE  /\ Re!UpdateCheck(arch, "stable", bucket, 0).mandatory => minBuild > 0
                 /\ Re!UpdateCheck(arch, "stable", bucket, 0).latest = Re!ReleaseFor(arch, "stable", bucket)
      BY DEF Re!UpdateCheck, Re!UpdateDecision
    <3> QED
      BY <3>1 DEF MinimumIsOffered, Re!MinimumIsOffered
  <2>1. CASE minBuild = 0
    <3>1. First.arch \in Architectures
      BY ReleaseConstants
    <3> QED
      BY <2>1, <3>1
  <2>2. CASE minBuild # 0
    <3>1. PICK b \in Builds : b.number >= minBuild /\ Reaches(b)
      BY <2>2 DEF MinMet, TakesBack
    <3>2. ASSUME NEW bucket \in {0, 60, 100}
          PROVE  \E c \in Re!ReleaseFor(b.arch, "stable", bucket) : c.number >= minBuild
      <4> PICK Offer : Offer = {c \in Re!OnChannel("stable", bucket) : c.arch = b.arch}
        OBVIOUS
      <4>1. b \in Offer
        BY <3>1 DEF Re!OnChannel, Re!PublicReleases, Re!Published, Re!Released, Reaches
      <4>2. Offer \in SUBSET Builds
        BY DEF Re!OnChannel, Re!PublicReleases, Re!Published, Re!Released
      <4>3. PICK newest \in Offer : \A c \in Offer : c.number <= newest.number
        BY <4>1, <4>2, NewestBuild
      <4>4. newest \in Re!LatestClientReleases("stable", bucket) /\ newest.arch = b.arch
        BY <4>3 DEF Re!LatestClientReleases
      <4>5. newest \in Re!ReleaseFor(b.arch, "stable", bucket)
        BY <4>4 DEF Re!ReleaseFor
      <4>6. newest.number \in Nat /\ b.number \in Nat /\ minBuild \in Nat /\ b.number <= newest.number
        BY <4>1, <4>2, <4>3, ReleaseConstants DEF ReleaseInv, ReleaseTyped
      <4> QED
        BY <3>1, <4>5, <4>6
    <3> QED
      BY <3>2, ReleaseConstants
  <2> QED
    BY <2>1, <2>2
<1> QED
  BY <1>1, <1>2, <1>3, ReleasesRun, ReleaseInvariant, PTL
=============================================================================

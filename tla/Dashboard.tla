------------------------------- MODULE Dashboard -------------------------------
(* The portal's page of connections (CredentialDashboard): the list and its    *)
(* refreshes, the connection shown, the dialog that confirms an operation, the *)
(* operation with its retry, and the subscription link of the connection       *)
(* shown (SubscriptionAccess), together with what the server does of each      *)
(* request. Other tabs and administrators change the same connections.         *)
EXTENDS Naturals, Sequences, FiniteSetsExt

CONSTANTS
    Connections,     \* numbered in the order of their creation; 0 is none of them
    Subscriptions,   \* those that are subscriptions and have a link
    Existing,        \* those there are when the page is opened
    MaxEvents,       \* bound: clicks, faults, and changes made elsewhere
    MaxFlying        \* bound: refreshes under way

VARIABLES
    access,      \* the server: "none", "on", "off", "revoked" or "gone"
    link,        \* the server: the number of the link in force, 0 without one
    seen,        \* credentials, as the page last read them
    selectedId, filter,
    freshTokens, \* the links that creations answered with
    panel,       \* the SubscriptionAccess on screen: [of, token, asking]
    verify,      \* its request under way: [action, of, got, mine]
    making,      \* a creation under way: [step, of]
    dialog,      \* the operation that waits for a confirmation: [op, of]
    work,        \* the operation under way: [op, of, step, snap]
    issue,       \* the operation that failed and can be tried again
    answers,     \* answers of refreshes under way
    confirmed,   \* history: connections whose end somebody asked for
    events

server == <<access, link>>
list == <<seen, selectedId, filter, freshTokens, panel>>
vars == <<server, list, verify, making, dialog, work, issue, answers, confirmed, events>>

Nobody == [op |-> "none", of |-> 0]
Idle == [op |-> "none", of |-> 0, step |-> "idle", snap |-> <<>>]
NoMaking == [step |-> "idle", of |-> 0]
Token(c, n) == [of |-> c, n |-> n]               \* the n-th link of a connection
NoToken == Token(0, 0)
NoTokens == [c \in Connections |-> NoToken]
NoVerify == [action |-> "none", of |-> 0, got |-> NoToken, mine |-> FALSE]
Unread == [c \in Connections |-> "none"]

Listed(s) == {c \in Connections : s[c] \in {"on", "off", "revoked"}}
Visible(s, f) == {c \in Listed(s) : f = "all" \/ (f = "subscription" <=> c \in Subscriptions)}

(* selected: the one chosen if it is in the list, else the first, the newest.  *)
Shown(s, id, f) == IF id \in Visible(s, f) THEN id ELSE Max(Visible(s, f) \cup {0})

PanelFor(c, fresh) == [of |-> c, token |-> IF c \in Subscriptions THEN fresh[c] ELSE NoToken, asking |-> "none"]

(* The page is drawn again. SubscriptionAccess has the subscription's id for   *)
(* its key: another connection gets a new one, and what the old one was        *)
(* waiting for is nobody's.                                                    *)
(* A slip: one panel for whichever connection is shown.                        *)
DrawKeyless(s, id, f, fresh) ==
    /\ seen' = s /\ selectedId' = id /\ filter' = f /\ freshTokens' = fresh
    /\ panel' = IF panel.of = 0 THEN PanelFor(Shown(s, id, f), fresh) ELSE [panel EXCEPT !.of = Shown(s, id, f)]
    /\ UNCHANGED verify
Draw(s, id, f, fresh) ==
    LET c == Shown(s, id, f) IN
    /\ seen' = s /\ selectedId' = id /\ filter' = f /\ freshTokens' = fresh
    /\ panel' = IF c = panel.of THEN panel ELSE PanelFor(c, fresh)
    /\ verify' = IF c = panel.of THEN verify ELSE [verify EXCEPT !.mine = FALSE]

TypeOK ==
    /\ \A c \in Connections : access[c] \in {"none", "on", "off", "revoked", "gone"} /\ link[c] \in Nat
    /\ \A c \in Connections : seen[c] \in {"none", "on", "off", "revoked", "gone"}
    /\ selectedId \in Connections \cup {0} /\ panel.of = Shown(seen, selectedId, filter)
    /\ work.step \in {"idle", "sent", "done", "read"} /\ issue.of \in Connections \cup {0}
    /\ confirmed \subseteq Connections /\ Len(answers) <= MaxFlying

Init ==
    /\ access = [c \in Connections |-> IF c \in Existing THEN "on" ELSE "none"]
    /\ link = [c \in Connections |-> IF c \in Existing \cap Subscriptions THEN 1 ELSE 0]
    /\ seen = Unread /\ selectedId = 0 /\ filter = "all" /\ freshTokens = NoTokens
    /\ panel = PanelFor(0, freshTokens) /\ verify = NoVerify /\ making = NoMaking
    /\ dialog = Nobody /\ work = Idle /\ issue = Nobody /\ answers = <<>> /\ confirmed = {} /\ events = 0

Event == events < MaxEvents /\ events' = events + 1
Free == dialog = Nobody /\ panel.asking = "none"     \* no modal dialog is open

-----------------------------------------------------------------------------
(* refresh: every 20 seconds, when the page becomes visible, and after changes *)

(* A slip: the page is read when it opens and never again.                     *)
AskOnce == /\ seen = Unread /\ answers = <<>> /\ answers' = <<access>>
           /\ UNCHANGED <<server, list, verify, making, dialog, work, issue, confirmed, events>>
Ask == /\ Len(answers) < MaxFlying /\ answers' = Append(answers, access)
       /\ UNCHANGED <<server, list, verify, making, dialog, work, issue, confirmed, events>>

(* The connection chosen stays chosen while the answer lists it.               *)
Take(s) == Draw(s, IF selectedId \in Listed(s) THEN selectedId ELSE Max(Listed(s) \cup {0}), filter, freshTokens)

Without(i) == SubSeq(answers, 1, i - 1) \o SubSeq(answers, i + 1, Len(answers))
Answer(i) == /\ i \in DOMAIN answers /\ Take(answers[i]) /\ answers' = Without(i)
             /\ UNCHANGED <<server, making, dialog, work, issue, confirmed, events>>

(* The page keeps what it has and says that it is stale.                       *)
RefreshFails(i) == /\ Event /\ i \in DOMAIN answers /\ answers' = Without(i)
                   /\ UNCHANGED <<server, list, verify, making, dialog, work, issue, confirmed>>

-----------------------------------------------------------------------------
(* Choosing, creating                                                          *)

Select(c) == /\ Event /\ Free /\ c \in Visible(seen, filter) /\ c # Shown(seen, selectedId, filter)
             /\ Draw(seen, c, filter, freshTokens) /\ issue' = Nobody
             /\ UNCHANGED <<server, making, dialog, work, answers, confirmed>>

SetFilter(f) == /\ Event /\ Free /\ f # filter /\ Draw(seen, selectedId, f, freshTokens)
                /\ UNCHANGED <<server, making, dialog, work, issue, answers, confirmed>>

(* createSubscription, and the server's part of a single-node creation.       *)
Made(c) == /\ access' = [access EXCEPT ![c] = "on"]
           /\ link' = [link EXCEPT ![c] = IF c \in Subscriptions THEN 1 ELSE 0]
Create == /\ Event /\ Free /\ making = NoMaking
          /\ \E c \in Connections :
                /\ access[c] = "none" /\ \A d \in Connections : access[d] = "none" => c <= d
                /\ Made(c) /\ making' = [step |-> "made", of |-> c]
          /\ UNCHANGED <<list, verify, dialog, work, issue, answers, confirmed>>

(* created: the answer's token is kept, the connection is chosen, and the list *)
(* is read (by Ask).                                                           *)
Created == /\ making.step = "made" /\ making' = NoMaking
           /\ Draw(seen, making.of, "all",
                   IF making.of \in Subscriptions THEN [freshTokens EXCEPT ![making.of] = Token(making.of, 1)] ELSE freshTokens)
           /\ UNCHANGED <<server, dialog, work, issue, answers, confirmed, events>>

CreationUnheard == /\ Event /\ making.step = "made" /\ making' = NoMaking
                   /\ UNCHANGED <<server, list, verify, dialog, work, issue, answers, confirmed>>

-----------------------------------------------------------------------------
(* An operation on the connection shown, or on all of them: changeAccess,      *)
(* rename and bulkAccess ask first, and perform it                             *)

Operations(c) ==
    {"delete"} \cup {op \in {"disable"} : seen[c] = "on"} \cup {op \in {"enable"} : seen[c] = "off"}

Offer(op, of) == /\ Event /\ Free /\ work = Idle /\ dialog' = [op |-> op, of |-> of]
                 /\ UNCHANGED <<server, list, verify, making, work, issue, answers, confirmed>>
OfferOne == \E c \in {Shown(seen, selectedId, filter)} \ {0} : \E op \in Operations(c) : Offer(op, c)
Rename == \E c \in {Shown(seen, selectedId, filter)} \ {0} : Offer("rename", c)
OfferAll == \E op \in {"disable", "revoke"} : Listed(seen) # {} /\ Offer(op, 0)

Cancel == /\ dialog # Nobody /\ dialog' = Nobody
          /\ UNCHANGED <<server, list, verify, making, work, issue, answers, confirmed, events>>

(* perform: one at a time; the failure shown is taken away.                    *)
Perform(job) == /\ work = Idle /\ issue' = Nobody
                /\ work' = [op |-> job.op, of |-> job.of, step |-> "sent", snap |-> <<>>]

Ended(job) == CASE job.op = "revoke" -> Connections [] job.op = "delete" -> {job.of} [] OTHER -> {}
Confirm == /\ dialog # Nobody /\ dialog' = Nobody /\ Perform(dialog) /\ confirmed' = confirmed \cup Ended(dialog)
           /\ UNCHANGED <<server, list, verify, making, answers, events>>

(* Trying again repeats the operation with the connection it was for.          *)
(* A slip: it is for the connection that the page now shows.                   *)
AgainHere(job) == Perform([job EXCEPT !.of = Shown(seen, selectedId, filter)])
Again(job) == Perform(job)
Retry == /\ Event /\ Free /\ issue # Nobody /\ panel.of # 0 /\ Again(issue)
         /\ UNCHANGED <<server, list, verify, making, dialog, answers, confirmed>>

(* What the server makes of it: manageCredentialAccess, manageCredentialsAccess *)
Changed(op, c) ==
    CASE op = "disable" /\ access[c] = "on" -> "off"
      [] op = "enable" /\ access[c] = "off" -> "on"
      [] op = "revoke" /\ access[c] \in {"on", "off"} -> "revoked"
      [] op = "delete" /\ access[c] \in {"on", "off", "revoked"} -> "gone"
      [] OTHER -> access[c]
Accepted == \A c \in {work.of} \ {0} :
                /\ access[c] \in {"on", "off", "revoked"}
                /\ work.op \in {"enable", "disable"} => access[c] # "revoked"
Fails == /\ work' = Idle /\ issue' = [op |-> work.op, of |-> work.of]

Targets == IF work.of = 0 THEN Connections ELSE {work.of}
Serve == /\ work.step = "sent" /\ Accepted /\ work' = [work EXCEPT !.step = "done"]
         /\ access' = [c \in Connections |-> IF c \in Targets THEN Changed(work.op, c) ELSE access[c]]
         /\ UNCHANGED <<link, list, verify, making, dialog, issue, answers, confirmed, events>>
Refused == /\ work.step = "sent" /\ ~Accepted /\ Fails
           /\ UNCHANGED <<server, list, verify, making, dialog, answers, confirmed, events>>
(* The request or its answer is lost, or the server stops halfway through all  *)
(* of them, or after the revocation that is the first half of a deletion.      *)
Halfway(c) == Changed(IF work.op = "delete" THEN "revoke" ELSE work.op, c)
ServeFails == /\ Event /\ work.step \in {"sent", "done"} /\ Fails
              /\ \E some \in SUBSET {c \in Targets : work.step = "sent"} :
                    access' = [c \in Connections |-> IF c \in some THEN Halfway(c) ELSE access[c]]
              /\ UNCHANGED <<link, list, verify, making, dialog, answers, confirmed>>

(* await refresh(true); a sync that failed is an error too.                    *)
ReadAfter == /\ work.step = "done" /\ work' = [work EXCEPT !.step = "read", !.snap = access]
             /\ UNCHANGED <<server, list, verify, making, dialog, issue, answers, confirmed, events>>
Finish == /\ work.step = "read" /\ Take(work.snap) /\ work' = Idle
          /\ UNCHANGED <<server, making, dialog, issue, answers, confirmed, events>>
SyncFailed == /\ Event /\ work.step = "read" /\ Take(work.snap) /\ Fails
              /\ UNCHANGED <<server, making, dialog, answers, confirmed>>

-----------------------------------------------------------------------------
(* The link of the subscription shown                                          *)

Usable == panel.of \in Subscriptions /\ seen[panel.of] = "on"

(* start without a token, and "reset link": the password is asked for.         *)
AskFor(action) == /\ Event /\ Free /\ Usable /\ (action = "reveal" => panel.token = NoToken)
                  /\ verify.mine = FALSE /\ verify.action = "none"
                  /\ panel' = [panel EXCEPT !.asking = action]
                  /\ verify' = [action |-> action, of |-> panel.of, got |-> NoToken, mine |-> TRUE]
                  /\ UNCHANGED <<server, seen, selectedId, filter, freshTokens, making, dialog, work, issue, answers, confirmed>>

(* manageSubscription, after the password: reveal-link reads the link in       *)
(* force, reset-link replaces it. Both need a connection that is usable.       *)
Verified == /\ verify.action # "none" /\ verify.got = NoToken /\ access[verify.of] = "on"
            /\ link' = IF verify.action = "reset" THEN [link EXCEPT ![verify.of] = @ + 1] ELSE link
            /\ verify' = [verify EXCEPT !.got = Token(verify.of, link'[verify.of])]
            /\ UNCHANGED <<access, list, making, dialog, work, issue, answers, confirmed, events>>

(* verify: the panel that asked takes the token, if it is still there.         *)
TokenArrives == /\ verify.got # NoToken /\ verify' = NoVerify
                /\ panel' = IF verify.mine THEN [panel EXCEPT !.token = verify.got, !.asking = "none"] ELSE panel
                /\ UNCHANGED <<server, seen, selectedId, filter, freshTokens, making, dialog, work, issue, answers, confirmed, events>>

(* Cancelled, refused, or unheard.                                             *)
NotVerified == /\ verify.action # "none" /\ verify' = NoVerify
               /\ panel' = IF verify.mine THEN [panel EXCEPT !.asking = "none"] ELSE panel
               /\ UNCHANGED <<server, seen, selectedId, filter, freshTokens, making, dialog, work, issue, answers, confirmed, events>>

Hide == /\ Event /\ Free /\ panel.token # NoToken /\ panel' = [panel EXCEPT !.token = NoToken]
        /\ UNCHANGED <<server, seen, selectedId, filter, freshTokens, verify, making, dialog, work, issue, answers, confirmed>>

-----------------------------------------------------------------------------
(* Elsewhere: another tab, the app, an administrator; and the page left and    *)
(* opened again, by hand or after a 401. What is under way then is either      *)
(* done already or counts as done elsewhere.                                   *)

Elsewhere == /\ Event
             /\ \E c \in Listed(access), op \in {"disable", "enable", "delete"} :
                   /\ access' = [access EXCEPT ![c] = Changed(op, c)]
                   /\ confirmed' = confirmed \cup {d \in {c} : op = "delete"}
             /\ UNCHANGED <<link, list, verify, making, dialog, work, issue, answers>>

Reopen == /\ Event /\ seen # Unread
          /\ seen' = Unread /\ selectedId' = 0 /\ filter' = "all" /\ freshTokens' = NoTokens
          /\ panel' = PanelFor(0, freshTokens') /\ verify' = NoVerify /\ making' = NoMaking
          /\ dialog' = Nobody /\ work' = Idle /\ issue' = Nobody /\ answers' = <<>>
          /\ UNCHANGED <<server, confirmed>>

Next ==
    \/ Ask \/ Create \/ Created \/ CreationUnheard \/ OfferOne \/ Rename \/ OfferAll \/ Cancel \/ Confirm \/ Retry
    \/ \E i \in 1..MaxFlying : Answer(i) \/ RefreshFails(i)
    \/ \E c \in Connections : Select(c)
    \/ \E f \in {"all", "subscription", "single"} : SetFilter(f)
    \/ Serve \/ Refused \/ ServeFails \/ ReadAfter \/ Finish \/ SyncFailed
    \/ \E action \in {"reveal", "reset"} : AskFor(action)
    \/ Verified \/ TokenArrives \/ NotVerified \/ Hide \/ Elsewhere \/ Reopen

(* The timer and the browser go on; requests are answered.                     *)
Fairness ==
    /\ WF_vars(Ask) /\ WF_vars(Answer(1))
    /\ WF_vars(Serve \/ Refused \/ ReadAfter \/ Finish)

Spec == Init /\ [][Next]_vars /\ Fairness

-----------------------------------------------------------------------------
(* Properties                                                                  *)

(* Nothing is deleted or revoked that nobody asked to delete: whichever        *)
(* answers, failures and choices of another connection came between the        *)
(* confirmation, the operation and its retries (perform, changeAccess).        *)
EndsAreConfirmed == \A c \in Connections : access[c] \in {"revoked", "gone"} => c \in confirmed

(* The link on screen was one of the connection on screen, and no link of      *)
(* another connection, also when the answer with a link comes after the list   *)
(* has changed under it (SubscriptionAccess keyed by the subscription).        *)
LinkIsItsOwn == panel.token # NoToken => panel.token.of = panel.of

(* Whenever no connection changes any more, the page comes to list them as     *)
(* they are, although answers overtake each other (refresh).                   *)
InStep == \A c \in Listed(access) \cup Listed(seen) : seen[c] = access[c]
ShowsTheServer == []<>InStep
===============================================================================

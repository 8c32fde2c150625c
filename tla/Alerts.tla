--------------------------------- MODULE Alerts ---------------------------------
(* What the minute job mails (server/alerts.ts, server/access-jobs.ts,         *)
(* server/mail.ts): a reminder to an account whose access is about to end, and *)
(* alerts about nodes, services and the disk.  Both go out through one mail    *)
(* configuration that every process keeps in memory and that an administrator  *)
(* changes while a mail is on its way.  Any step may be the last before the    *)
(* Controller restarts.                                                        *)
EXTENDS Naturals, Sequences

CONSTANTS
    Problems,    \* keys of alert_states
    Silent,      \* those only listed once the Controller has been up for a while (node-offline)
    Delay,       \* minutes each problem must have lasted
    Recipients,  \* alert_emails, a sequence
    QuietStart,  \* minutes after a start in which no node counts as silent (3 in the code)
    MaxChanges,  \* bound: problems that come or go, accounts that change
    MaxTrouble,  \* bound: failed mails, changed settings
    MaxRestarts  \* bound: restarts of the Controller

VARIABLES
    wrong,      \* the problems there are
    row,        \* alert_states
    minutes,    \* since the Controller started
    listed,     \* is alert_emails filled in
    settings,   \* mail_settings: "none", "good", "bad" (refused by the server)
    cached,     \* mail.ts: the row in memory, "empty" before it is loaded
    load,       \* a load that waits for the database, of the job and of the administrator
    job,        \* the running minute job
    access,     \* the state of one account: "fine", "soon", "low" or "ended"
    notice,     \* users.access_notice of that account
    told,       \* what each recipient last heard: problems reported and not reported as over
    mails,      \* mails to each recipient about each problem since it came up
    reminders,  \* reminders tried since the account came into its state
    changes, trouble, restarts

world == <<wrong, access, changes, restarts>>
people == <<told, mails, reminders>>
mailer == <<listed, settings, cached, load>>
vars == <<world, row, minutes, mailer, job, notice, people, trouble>>

NoRow == [is |-> FALSE, age |-> 0, notified |-> FALSE]
Rest == [at |-> "rest", key |-> "", saw |-> "", fire |-> {}, gone |-> {}, over |-> {}, next |-> 1]
Trouble == trouble < MaxTrouble /\ trouble' = trouble + 1
Changes == changes < MaxChanges /\ changes' = changes + 1
Longest == CHOOSE d \in {Delay[k] : k \in Problems} : \A k \in Problems : Delay[k] <= d

TypeOK ==
    /\ wrong \subseteq Problems
    /\ row \in [Problems -> [is : BOOLEAN, age : 0..Longest, notified : BOOLEAN]]
    /\ minutes \in 0..QuietStart
    /\ settings \in {"none", "good", "bad"} /\ cached \in {"empty", "none", "good", "bad"}
    /\ job.at \in {"rest", "claim", "remind", "evaluate", "forget", "configured", "send", "mark"}
    /\ told \in [1..Len(Recipients) -> SUBSET Problems]

Init ==
    /\ wrong = {} /\ row = [k \in Problems |-> NoRow] /\ minutes = 0
    /\ listed = TRUE /\ settings = "good" /\ cached = "empty" /\ load = [p \in {"job", "admin"} |-> "idle"]
    /\ job = Rest /\ access = "fine" /\ notice = "fine"
    /\ told = [i \in 1..Len(Recipients) |-> {}]
    /\ mails = [i \in 1..Len(Recipients) |-> [k \in Problems |-> 0]]
    /\ reminders = 0 /\ changes = 0 /\ trouble = 0 /\ restarts = 0

-----------------------------------------------------------------------------
(* mail.ts                                                                     *)

(* load: the row is read and then put into memory, whatever was put there in   *)
(* between.                                                                    *)
NeedsMail == job.at \in {"rest", "configured", "send", "remind"}
Load(p) ==
    /\ cached = "empty"
    /\ IF p = "job" THEN NeedsMail /\ load[p] = "idle" ELSE load[p] = "wanted"
    /\ load' = [load EXCEPT ![p] = settings]
    /\ UNCHANGED <<world, row, minutes, listed, settings, cached, job, notice, people, trouble>>

Loaded(p) ==
    /\ load[p] \notin {"idle", "wanted"}
    /\ cached' = load[p] /\ load' = [load EXCEPT ![p] = "idle"]
    /\ UNCHANGED <<world, row, minutes, listed, settings, job, notice, people, trouble>>

InMemory == cached # "empty" /\ load["job"] = "idle"

(* saveMailSettings and deleteMailSettings: the row, then the memory; saving   *)
(* answers with what is loaded next.                                           *)
SaveMail(s) ==
    /\ Trouble /\ s # settings
    /\ settings' = s /\ cached' = "empty"
    /\ load' = [load EXCEPT !["admin"] = IF s = "none" THEN @ ELSE IF @ = "idle" THEN "wanted" ELSE @]
    /\ UNCHANGED <<world, row, minutes, listed, job, notice, people>>

(* saveAlertRecipients: the list is emptied or filled in again.                *)
SaveRecipients ==
    /\ Trouble /\ listed' = ~listed
    /\ UNCHANGED <<world, row, minutes, settings, cached, load, job, notice, people>>

(* sendMail: the server takes it or not.                                       *)
Taken == cached = "good" /\ UNCHANGED trouble
Refused == \/ cached # "good" /\ UNCHANGED trouble
           \/ cached = "good" /\ Trouble

-----------------------------------------------------------------------------
(* sendReminders                                                               *)

(* runAccessJobs: without a mail configuration nothing is claimed.             *)
StartReminders ==
    /\ job.at = "rest" /\ InMemory
    /\ job' = IF cached # "none" /\ access # "fine" THEN [job EXCEPT !.at = "claim", !.saw = notice]
              ELSE [job EXCEPT !.at = "evaluate"]
    /\ UNCHANGED <<world, row, minutes, mailer, notice, people, trouble>>

(* A slip: the notice is only recorded when the mail went out.                 *)
ClaimLater ==
    /\ job.at = "claim"
    /\ job' = IF access \in {"fine", job.saw} THEN [job EXCEPT !.at = "evaluate"]
              ELSE [job EXCEPT !.at = "remind", !.key = access]
    /\ UNCHANGED <<world, row, minutes, mailer, notice, people, trouble>>

(* The claim comes before the mail, so that a failed one is not tried again    *)
(* every minute.                                                               *)
Claim ==
    /\ job.at = "claim"
    /\ IF access \in {"fine", job.saw} \/ notice # job.saw
       THEN job' = [job EXCEPT !.at = "evaluate"] /\ UNCHANGED notice
       ELSE job' = [job EXCEPT !.at = "remind", !.key = access] /\ notice' = access
    /\ UNCHANGED <<world, row, minutes, mailer, people, trouble>>

Remind ==
    /\ job.at = "remind" /\ InMemory /\ (Taken \/ Refused)
    /\ reminders' = IF job.key = access THEN reminders + 1 ELSE reminders
    /\ job' = [job EXCEPT !.at = "evaluate"]
    /\ UNCHANGED <<world, row, minutes, mailer, notice, told, mails>>

-----------------------------------------------------------------------------
(* runAlerts                                                                   *)

Found == {k \in wrong : k \in Silent => minutes = QuietStart}
Age(k) == IF row[k].is THEN row[k].age ELSE 0
Due == {k \in Found : ~row[k].notified /\ Age(k) >= Delay[k]}

(* One run, a minute after the one before: what is wrong now, the rows, and a  *)
(* row for what is new.                                                        *)
Evaluate ==
    /\ job.at = "evaluate"
    /\ row' = [k \in Problems |->
                 IF row[k].is THEN [row[k] EXCEPT !.age = IF @ < Delay[k] THEN @ + 1 ELSE @]
                 ELSE [NoRow EXCEPT !.is = k \in Found]]
    /\ LET gone == {k \in Problems : row[k].is} \ Found IN
       job' = [job EXCEPT !.at = "forget", !.fire = Due, !.gone = gone, !.over = {k \in gone : row[k].notified}]
    /\ minutes' = IF minutes < QuietStart THEN minutes + 1 ELSE minutes
    /\ UNCHANGED <<world, mailer, notice, people, trouble>>

(* What is over loses its row before anybody is told.                          *)
Forget ==
    /\ job.at = "forget"
    /\ row' = [k \in Problems |-> IF k \in job.gone THEN NoRow ELSE row[k]]
    /\ job' = [job EXCEPT !.at = "configured"]
    /\ UNCHANGED <<world, minutes, mailer, notice, people, trouble>>

Configured ==
    /\ job.at = "configured" /\ InMemory
    /\ job' = IF listed /\ cached # "none" /\ job.fire \cup job.over # {} THEN [job EXCEPT !.at = "send"] ELSE Rest
    /\ UNCHANGED <<world, row, minutes, mailer, notice, people, trouble>>

(* One mail to each recipient in turn.                                         *)
Send ==
    /\ job.at = "send" /\ InMemory /\ Taken
    /\ told' = [told EXCEPT ![job.next] = (@ \cup job.fire) \ job.over]
    /\ mails' = [mails EXCEPT ![job.next] = [k \in Problems |-> IF k \in job.fire \cap wrong THEN @[k] + 1 ELSE @[k]]]
    /\ job' = IF job.next < Len(Recipients) THEN [job EXCEPT !.next = @ + 1] ELSE [job EXCEPT !.at = "mark"]
    /\ UNCHANGED <<world, row, minutes, mailer, notice, reminders>>

(* A slip: the problems are marked although a mail failed.                     *)
SendFailsMarked ==
    /\ job.at = "send" /\ InMemory /\ Refused
    /\ job' = [job EXCEPT !.at = "mark"]
    /\ UNCHANGED <<world, row, minutes, mailer, notice, people>>

(* The first mail that fails ends the run: nothing is marked, not even for     *)
(* those who got theirs.                                                       *)
SendFails ==
    /\ job.at = "send" /\ InMemory /\ Refused
    /\ job' = Rest
    /\ UNCHANGED <<world, row, minutes, mailer, notice, people>>

(* A slip: nothing is marked.                                                  *)
MarkNothing ==
    /\ job.at = "mark" /\ job' = Rest
    /\ UNCHANGED <<world, row, minutes, mailer, notice, people, trouble>>

Mark ==
    /\ job.at = "mark"
    /\ row' = [k \in Problems |-> IF k \in job.fire THEN [row[k] EXCEPT !.notified = TRUE] ELSE row[k]]
    /\ job' = Rest
    /\ UNCHANGED <<world, minutes, mailer, notice, people, trouble>>

-----------------------------------------------------------------------------
Restart ==
    /\ restarts < MaxRestarts /\ restarts' = restarts + 1
    /\ job' = Rest /\ cached' = "empty" /\ load' = [p \in {"job", "admin"} |-> "idle"] /\ minutes' = 0
    /\ UNCHANGED <<wrong, access, changes, row, listed, settings, notice, people, trouble>>

ComesUp(k) ==
    /\ Changes /\ k \notin wrong /\ wrong' = wrong \cup {k}
    /\ UNCHANGED <<access, row, minutes, mailer, job, notice, people, trouble, restarts>>
IsOver(k) ==
    /\ Changes /\ k \in wrong /\ wrong' = wrong \ {k}
    /\ mails' = [i \in 1..Len(Recipients) |-> [mails[i] EXCEPT ![k] = 0]]
    /\ UNCHANGED <<access, row, minutes, mailer, job, notice, told, reminders, trouble, restarts>>
AccessChanges(a) ==
    /\ Changes /\ a # access /\ access' = a /\ reminders' = 0
    /\ UNCHANGED <<wrong, row, minutes, mailer, job, notice, told, mails, trouble, restarts>>

JobStep == Load("job") \/ Loaded("job") \/ StartReminders \/ Claim \/ Remind \/ Evaluate \/ Forget \/ Configured
           \/ Send \/ Mark
Next ==
    \/ JobStep \/ SendFails \/ Load("admin") \/ Loaded("admin") \/ SaveRecipients \/ Restart
    \/ \E s \in {"none", "good", "bad"} : SaveMail(s)
    \/ \E k \in Problems : ComesUp(k)
    \/ \E k \in Problems : IsOver(k)
    \/ \E a \in {"fine", "soon", "low", "ended"} : AccessChanges(a)

(* The minute job is started again every minute, and a statement returns.      *)
Fairness == WF_vars(JobStep) /\ WF_vars(SendFails) /\ WF_vars(Load("admin")) /\ WF_vars(Loaded("admin"))
Spec == Init /\ [][Next]_vars /\ Fairness

-----------------------------------------------------------------------------
(* Nobody is mailed a second time about a problem that lasts unless something  *)
(* went wrong on the way: a mail was refused, the settings changed or the      *)
(* Controller restarted, each at most once more.                               *)
RepeatsNeedTrouble == \A i \in 1..Len(Recipients), k \in Problems : mails[i][k] <= 1 + trouble + restarts

(* A reminder is tried once for the state an account is in, whether it could   *)
(* be sent or not.                                                             *)
NotNagged == reminders <= 1

(* A problem that stays reaches every recipient once alerts are switched on    *)
(* and the mail settings in memory work.                                       *)
Working == listed /\ cached \in {"good", "empty"} /\ settings = "good"
AllTold == \A k \in wrong : \A i \in 1..Len(Recipients) : k \in told[i]
EveryoneIsTold == <>[]Working => <>[]AllTold

(* alerts.ts: "State lives in alert_states, so a Controller restart neither    *)
(* repeats an alert nor forgets one."  What was mailed is remembered for as    *)
(* long as the problem lasts.                                                  *)
SentIsRemembered == [][\A k \in wrong : row[k].notified => row'[k].notified]_vars
=============================================================================

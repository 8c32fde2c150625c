------------------------------- MODULE NodeDetail -------------------------------
(* The nodes page of Console (NodesPage, App): the list, the detail of the     *)
(* node that the URL names, and the operations on nodes, while answers         *)
(* overtake each other, other administrators and jobs change the nodes, and    *)
(* the session ends.                                                           *)
EXTENDS Naturals, Sequences

CONSTANTS
    Nodes, None,
    Focuses,      \* what the URL may name when the page is opened
    MaxWork,      \* bound: starts and ends of jobs on a node
    MaxClicks,    \* bound: clicks in the browser
    MaxFaults     \* bound: failed requests, sessions ended, changes by somebody else

VARIABLES
    there,      \* the nodes the Controller has
    work,       \* of each: starts and ends of jobs; odd while one runs
    session,    \* is the session valid
    user,       \* does the browser show the pages (App)
    nodes,      \* the list it has
    focus,      \* ?focus= of the URL
    open,       \* diagnosticRequestRef and diagnosticNode, which are set together
    shown,      \* diagnostics: [node, work]
    job,        \* what operate or batchDelete is doing: [op, todo, step]
    asked,      \* requests under way: [kind, node]
    answers,    \* answers under way: [kind, node, status, work, list]
    clicks, faults

server == <<there, work, session>>
detail == <<open, shown>>
vars == <<server, user, nodes, focus, detail, job, asked, answers, clicks, faults>>

Nothing == [node |-> None, work |-> 0]
Idle == [op |-> "none", todo |-> <<>>, step |-> "idle"]
Request(kind, n) == [kind |-> kind, node |-> n]
Core == Request("core", None)                    \* refreshCore
Running(n) == work[n] % 2 = 1

TypeOK ==
    /\ there \subseteq Nodes /\ work \in [Nodes -> 0..MaxWork] /\ session \in BOOLEAN
    /\ user \in BOOLEAN /\ nodes \subseteq Nodes /\ focus \in Nodes \cup {None}
    /\ open \in Nodes \cup {None} /\ shown \in [node : Nodes \cup {None}, work : 0..MaxWork]
    /\ job.step \in {"idle", "confirm", "send", "sent", "refused", "refresh"}
    /\ asked \subseteq [kind : {"open", "core"}, node : Nodes \cup {None}]

Init ==
    /\ there = Nodes /\ work = [n \in Nodes |-> 0] /\ session = TRUE
    /\ user = TRUE /\ nodes = {} /\ focus \in Focuses /\ open = None /\ shown = Nothing
    /\ job = Idle /\ asked = {Core} /\ answers = {}
    /\ clicks = 0 /\ faults = 0

Click == clicks < MaxClicks /\ clicks' = clicks + 1 /\ user /\ UNCHANGED faults
Fault == faults < MaxFaults /\ faults' = faults + 1 /\ UNCHANGED clicks

-----------------------------------------------------------------------------
(* The detail follows the URL                                                  *)

(* loadDiagnostics: what was shown is taken away at once.                      *)
Open(n) == open' = n /\ shown' = Nothing
Close == open' = None /\ shown' = Nothing       \* closeDiagnostics

(* The effect on [focus, nodes]; a node that the list does not have changes    *)
(* nothing.                                                                    *)
Opens(f, ns) == f # None /\ open # f /\ f \in ns
Follow(f, ns) ==
    IF f = None THEN Close ELSE IF Opens(f, ns) THEN Open(f) ELSE UNCHANGED detail
Asks(f, ns) == IF Opens(f, ns) THEN {Request("open", f)} ELSE {}

(* openDetail, closeDetail, a link, back and forward.                          *)
Navigate ==
    /\ Click /\ job.step # "confirm"
    /\ \E f \in (Nodes \cup {None}) \ {focus} :
          focus' = f /\ Follow(f, nodes) /\ asked' = asked \cup Asks(f, nodes)
    /\ UNCHANGED <<server, user, nodes, job, answers>>

-----------------------------------------------------------------------------
(* Requests and answers                                                        *)

Status(r) == IF ~session THEN "denied"
             ELSE IF r.kind \in {"open", "tick"} /\ r.node \notin there THEN "error" ELSE "ok"
Reply(r, status) ==
    [kind |-> r.kind, node |-> r.node, status |-> status, list |-> IF r.kind \in {"list", "core"} THEN there ELSE {},
     work |-> IF r.kind \in {"open", "tick"} THEN work[r.node] ELSE 0]

(* GET of a node, of the list, of what refreshCore reads.                      *)
Answer ==
    /\ \E r \in asked : asked' = asked \ {r} /\ answers' = answers \cup {Reply(r, Status(r))}
    /\ UNCHANGED <<server, user, nodes, focus, detail, job, clicks, faults>>

(* Not taken: a second request of a timer before the answer to the first.      *)
UnderWay(kind, n) == \E a \in answers : a.kind = kind /\ a.node = n
Timer(r) ==
    /\ user /\ ~UnderWay(r.kind, r.node) /\ answers' = answers \cup {Reply(r, Status(r))}
    /\ UNCHANGED <<server, user, nodes, focus, detail, job, asked, clicks, faults>>
(* A slip: only while the job that is shown runs.                              *)
WhileRunning == open # None /\ shown.work % 2 = 1
IsOpen == open # None
(* Every five seconds the node of the open detail, every 15 seconds the list.  *)
Tick == IsOpen /\ Timer(Request("tick", open))
Poll == Timer(Request("list", None))

RequestFails ==
    /\ Fault /\ \E r \in asked : asked' = asked \ {r} /\ answers' = answers \cup {Reply(r, "error")}
    /\ UNCHANGED <<server, user, nodes, focus, detail, job>>

(* A slip: whichever answer arrives is shown.                                  *)
AnyAnswer(a) == open # None
(* An answer about another node, or after the detail was closed, is stale.     *)
Mine(a) == open # None /\ a.node = open

ShowNode ==
    /\ \E a \in answers :
          /\ a.kind \in {"open", "tick"} /\ a.status # "denied" /\ answers' = answers \ {a}
          /\ shown' = IF Mine(a) /\ a.status = "ok" THEN [node |-> a.node, work |-> a.work] ELSE shown
    /\ UNCHANGED <<server, user, nodes, focus, open, job, asked, clicks, faults>>

(* setNodes, and after refreshCore the operation goes on: its node is read     *)
(* again if its detail is still open; then the effects of the new list.        *)
ShowList ==
    /\ \E a \in answers :
          LET ns == IF a.status = "ok" THEN a.list ELSE nodes
              ends == a.kind = "core" /\ job.step = "refresh"
              again == ends /\ job.op = "act" /\ open = job.todo[1]
          IN  /\ a.kind \in {"list", "core"} /\ a.status # "denied" /\ answers' = answers \ {a}
              /\ nodes' = ns
              /\ IF again /\ ~Opens(focus, ns) THEN Open(open) ELSE IF user THEN Follow(focus, ns) ELSE UNCHANGED detail
              /\ asked' = asked \cup (IF again THEN {Request("open", open)} ELSE {}) \cup IF user THEN Asks(focus, ns) ELSE {}
              /\ job' = IF ends THEN Idle ELSE job
    /\ UNCHANGED <<server, user, focus, clicks, faults>>

(* clearSession: the pages are gone, and with them what they waited for.       *)
Clear ==
    /\ user' = FALSE /\ nodes' = {} /\ Close /\ job' = Idle
    /\ asked' = asked \cap {Core}
Kept(a) == a.kind \in {"list", "core"}

(* unauthorizedHandler of any request.                                         *)
Unauthorized ==
    /\ \E a \in answers : a.status = "denied" /\ answers' = {b \in answers \ {a} : Kept(b)}
    /\ Clear /\ UNCHANGED <<server, focus, clicks, faults>>

Logout ==
    /\ Click /\ job.step # "confirm" /\ session' = FALSE /\ Clear /\ answers' = {b \in answers : Kept(b)}
    /\ UNCHANGED <<there, work, focus>>

(* Login, then refreshCore.  The pages are new; the URL is the old one.        *)
Login ==
    /\ ~user /\ user' = TRUE /\ session' = TRUE
    /\ Follow(focus, nodes) /\ asked' = asked \cup {Core} \cup Asks(focus, nodes)
    /\ UNCHANGED <<there, work, nodes, focus, job, answers, clicks, faults>>

-----------------------------------------------------------------------------
(* Operations                                                                  *)

(* operate, batchDelete: one at a time, and not before they are confirmed.     *)
Begin(op, todo) ==
    /\ Click /\ job.step = "idle" /\ job' = [op |-> op, todo |-> todo, step |-> "confirm"]
    /\ UNCHANGED <<server, user, nodes, focus, detail, asked, answers>>
Operate == \E n \in nodes, op \in {"act", "delete"} : Begin(op, <<n>>)
BatchDelete == \E m, n \in nodes : m # n /\ Begin("batch", <<m, n>>)

(* The dialog: the name must be typed before something is deleted.             *)
Confirm ==
    /\ job.step = "confirm" /\ \E yes \in BOOLEAN : job' = IF yes THEN [job EXCEPT !.step = "send"] ELSE Idle
    /\ UNCHANGED <<server, user, nodes, focus, detail, asked, answers, clicks, faults>>

(* POST of an action, DELETE of a node: refused while a job runs on it.        *)
Handle ==
    LET n == job.todo[1]
        does == session /\ n \in there /\ ~Running(n) /\ (job.op = "act" => work[n] < MaxWork)
    IN  /\ job.step = "send"
        /\ there' = IF does /\ job.op # "act" THEN there \ {n} ELSE there
        /\ work' = IF does /\ job.op = "act" THEN [work EXCEPT ![n] = @ + 1] ELSE work
        /\ job' = [job EXCEPT !.step = IF does THEN "sent" ELSE "refused"]
        /\ UNCHANGED <<session, user, nodes, focus, detail, asked, answers, clicks, faults>>

(* operate goes on after the answer: a deleted node's detail is closed, then   *)
(* refreshCore; a refusal ends it.                                             *)
AfterOperate ==
    LET leaves == job.op = "delete" /\ job.step = "sent" /\ open = job.todo[1]
        f == IF leaves THEN None ELSE focus
    IN  /\ job.op # "batch" /\ job.step \in {"sent", "refused"}
        /\ focus' = f /\ Follow(f, nodes)
        /\ asked' = asked \cup Asks(f, nodes) \cup IF job.step = "sent" THEN {Core} ELSE {}
        /\ job' = IF job.step = "sent" THEN [job EXCEPT !.step = "refresh"] ELSE Idle
        /\ UNCHANGED <<server, user, nodes, answers, clicks, faults>>

(* batchDelete goes on whatever the answer, and reads the list once.           *)
AfterEach ==
    LET more == Len(job.todo) > 1
    IN  /\ job.op = "batch" /\ job.step \in {"sent", "refused"}
        /\ job' = IF more THEN [job EXCEPT !.todo = Tail(@), !.step = "send"] ELSE Idle
        /\ asked' = IF more THEN asked ELSE asked \cup {Core}
        /\ UNCHANGED <<server, user, nodes, focus, detail, answers, clicks, faults>>

-----------------------------------------------------------------------------
(* Everybody else                                                              *)

(* A job that runs on a node ends.                                             *)
JobEnds ==
    /\ \E n \in there : Running(n) /\ work[n] < MaxWork /\ work' = [work EXCEPT ![n] = @ + 1]
    /\ UNCHANGED <<there, session, user, nodes, focus, detail, job, asked, answers, clicks, faults>>

SomebodyElse ==
    /\ Fault
    /\ \E n \in there : ~Running(n) /\ there' = there \ {n}
    /\ UNCHANGED <<work, session, user, nodes, focus, detail, job, asked, answers>>

SessionEnds ==
    /\ Fault /\ session /\ session' = FALSE
    /\ UNCHANGED <<there, work, user, nodes, focus, detail, job, asked, answers>>

Next ==
    \/ Navigate \/ Tick \/ Poll \/ Answer \/ RequestFails \/ ShowNode \/ ShowList \/ Unauthorized
    \/ Logout \/ Login \/ Operate \/ BatchDelete \/ Confirm \/ Handle \/ AfterOperate \/ AfterEach
    \/ JobEnds \/ SomebodyElse \/ SessionEnds

(* The timers go on, requests are answered and shown, and jobs end.            *)
Fairness ==
    /\ WF_vars(Tick) /\ WF_vars(Poll) /\ WF_vars(Answer)
    /\ WF_vars(ShowNode) /\ WF_vars(ShowList) /\ WF_vars(Unauthorized)
Spec == Init /\ [][Next]_vars /\ Fairness

-----------------------------------------------------------------------------
(* The detail that is shown is the one of the node that the URL names, through *)
(* every change of the URL, every operation and every answer that comes late.  *)
RightDetail ==
    /\ shown.node \in {None, open}
    /\ user => (focus = None => open = None) /\ (focus \in nodes => open = focus)

(* When nothing changes any more, the open detail and the list come to what    *)
(* the Controller has, whatever was overtaken on the way.                      *)
UpToDate ==
    \A n \in Nodes : <>[](user /\ session /\ open = n /\ n \in there)
                        => []<>(shown = [node |-> n, work |-> work[n]] /\ nodes = there)
=============================================================================

------------------------------- MODULE Surfaces -------------------------------
(* Nine small models side by side, each of a part of the Controller, the Agent *)
(* or a browser page that shares no state with the others. The initial state   *)
(* picks the part that runs, and leaves the others as they are.                *)
EXTENDS Naturals, Sequences, FiniteSets

CONSTANTS
    None,   \* no value
    Problems, Silent, Delay, Recipients, QuietStart, MaxAlertChanges, MaxTrouble, MaxRestarts,   \* of Alerts
    Ids, Names, Requests,   \* of Sites
    Agents, Domains, Own, SwitchBreaks, MaxMoves,   \* of AgentDomain
    LogLines, Time, Filters, KeptLines, Limit, Patient, MaxPageClicks, MaxLogChanges, MaxLosses, MaxAsked,   \* of LogPages
    Nodes, Focuses, MaxWork, MaxClicks, MaxFaults,   \* of NodeDetail
    MaxLines, MaxCrashes, MaxPurges, PrintsLate,   \* of ActionLog
    Sources, Good, FirstSource, MaxActions, MaxUpgradeEvents, RebootsMidUpgrade,   \* of AgentUpgrade
    Connections, Subscriptions, Existing, MaxDeskEvents, MaxFlying,   \* of Dashboard
    PlacedNodes, Protocols, Regional, Window, MaxPlacementEvents   \* of Placement

VARIABLES
    part,   \* the part that runs
    wrong, alert, minutes, listed, settings, cached, load, mailing, standing, notice, told,
    mails, reminders, alertChanges, trouble, restarts,   \* of Alerts
    sites, siteRequest, copy, reads,   \* of Sites
    agent_domain, memory, reading, save, works, retired, agent, domainShown, moves,   \* of AgentDomain
    stored, filter, pages, index, pageRequest, pageAsked, pageAnswers, table, busy,
    refreshTimer, seen, before, failed, pageClicks, logChanges, losses,   \* of LogPages
    there, work, session, user, nodes, focus, open, shown, job, asked, answers, clicks,
    faults,   \* of NodeDetail
    actionRow, logEvents, worker, fails, printed, rest, writes, writing, todo, crashes,
    purges,   \* of ActionLog
    file, pending, confirmed, timer, lock, process, loop, hand, restartJob, script, release,
    action, request, late, lastSeen, outcome, proved, unrun, actions, upgradeEvents,   \* of AgentUpgrade
    access, link, listed_access, selectedId, listFilter, freshTokens, panel, verify, making,
    dialog, deskWork, issue, deskAnswers, deskConfirmed, deskEvents,   \* of Dashboard
    up, runs, since, due, flying, beat, report, advertised, enabled, status, applied,
    paused, placing, leased, placementEvents   \* of Placement

alertsVars == <<wrong, alert, minutes, listed, settings, cached, load, mailing, standing, notice,
                told, mails, reminders, alertChanges, trouble, restarts>>
sitesVars == <<sites, siteRequest, copy, reads>>
domainVars == <<agent_domain, memory, reading, save, works, retired, agent, domainShown, moves>>
pagesVars == <<stored, filter, pages, index, pageRequest, pageAsked, pageAnswers, table, busy,
               refreshTimer, seen, before, failed, pageClicks, logChanges, losses>>
detailVars == <<there, work, session, user, nodes, focus, open, shown, job, asked, answers, clicks,
                faults>>
logVars == <<actionRow, logEvents, worker, fails, printed, rest, writes, writing, todo, crashes,
             purges>>
upgradeVars == <<file, pending, confirmed, timer, lock, process, loop, hand, restartJob, script,
                 release, action, request, late, lastSeen, outcome, proved, unrun, actions, upgradeEvents>>
dashboardVars == <<access, link, listed_access, selectedId, listFilter, freshTokens, panel, verify,
                   making, dialog, deskWork, issue, deskAnswers, deskConfirmed, deskEvents>>
placementVars == <<up, runs, since, due, flying, beat, report, advertised, enabled, status, applied,
                   paused, placing, leased, placementEvents>>
surfaceVars == <<part, alertsVars, sitesVars, domainVars, pagesVars, detailVars, logVars,
                 upgradeVars, dashboardVars, placementVars>>

-----------------------------------------------------------------------------
Al == INSTANCE Alerts WITH
    MaxChanges <- MaxAlertChanges, row <- alert, job <- mailing, access <- standing,
    changes <- alertChanges
Si == INSTANCE Sites WITH request <- siteRequest
Ad == INSTANCE AgentDomain WITH shown <- domainShown
Lp == INSTANCE LogPages WITH
    Lines <- LogLines, Kept <- KeptLines, MaxClicks <- MaxPageClicks, MaxChanges <- MaxLogChanges,
    request <- pageRequest, asked <- pageAsked, answers <- pageAnswers, shown <- table, timer <- refreshTimer,
    clicks <- pageClicks, changes <- logChanges
Nd == INSTANCE NodeDetail
Lo == INSTANCE ActionLog WITH row <- actionRow, events <- logEvents
Up == INSTANCE AgentUpgrade WITH
    First <- FirstSource, MaxEvents <- MaxUpgradeEvents, seen <- lastSeen, events <- upgradeEvents
Da == INSTANCE Dashboard WITH
    MaxEvents <- MaxDeskEvents, seen <- listed_access, filter <- listFilter, work <- deskWork,
    answers <- deskAnswers, confirmed <- deskConfirmed, events <- deskEvents
Pl == INSTANCE Placement WITH
    Nodes <- PlacedNodes, MaxEvents <- MaxPlacementEvents, events <- placementEvents

(* Where the initial state is a choice, a part that does not run makes one.    *)
Chosen ==
    /\ part # "sites" => Si!Stored = Ids /\ Si!Default = {CHOOSE i \in Ids : TRUE}
    /\ part # "pages" => filter = CHOOSE f \in Filters : TRUE
    /\ part # "detail" => focus = CHOOSE n \in Focuses : TRUE
    /\ part # "upgrade" => release = FirstSource
    /\ part # "placement" => Pl!Start({})

SurfacesInit ==
    /\ Al!Init /\ Si!Init /\ Ad!Init /\ Lp!Init /\ Nd!Init /\ Lo!Init /\ Up!Init /\ Da!Init /\ Pl!Init
    /\ part \in {"alerts", "sites", "domain", "pages", "detail", "log", "upgrade",
                "dashboard", "placement"}
    /\ Chosen

SurfacesNext ==
    /\ UNCHANGED part
    /\ \/ part = "alerts" /\ Al!Next
          /\ UNCHANGED <<sitesVars, domainVars, pagesVars, detailVars, logVars,
                         upgradeVars, dashboardVars, placementVars>>
       \/ part = "sites" /\ Si!Next
          /\ UNCHANGED <<alertsVars, domainVars, pagesVars, detailVars, logVars,
                         upgradeVars, dashboardVars, placementVars>>
       \/ part = "domain" /\ Ad!Next
          /\ UNCHANGED <<alertsVars, sitesVars, pagesVars, detailVars, logVars,
                         upgradeVars, dashboardVars, placementVars>>
       \/ part = "pages" /\ Lp!Next
          /\ UNCHANGED <<alertsVars, sitesVars, domainVars, detailVars, logVars,
                         upgradeVars, dashboardVars, placementVars>>
       \/ part = "detail" /\ Nd!Next
          /\ UNCHANGED <<alertsVars, sitesVars, domainVars, pagesVars, logVars,
                         upgradeVars, dashboardVars, placementVars>>
       \/ part = "log" /\ Lo!Next
          /\ UNCHANGED <<alertsVars, sitesVars, domainVars, pagesVars, detailVars,
                         upgradeVars, dashboardVars, placementVars>>
       \/ part = "upgrade" /\ Up!Next
          /\ UNCHANGED <<alertsVars, sitesVars, domainVars, pagesVars, detailVars,
                         logVars, dashboardVars, placementVars>>
       \/ part = "dashboard" /\ Da!Next
          /\ UNCHANGED <<alertsVars, sitesVars, domainVars, pagesVars, detailVars,
                         logVars, upgradeVars, placementVars>>
       \/ part = "placement" /\ Pl!Next
          /\ UNCHANGED <<alertsVars, sitesVars, domainVars, pagesVars, detailVars,
                         logVars, upgradeVars, dashboardVars>>

(* The fairness of the parts whose liveness is checked here, as their modules  *)
(* have it.                                                                    *)
Fair ==
    /\ WF_alertsVars(part = "alerts" /\ Al!JobStep)
    /\ WF_alertsVars(part = "alerts" /\ Al!SendFails)
    /\ WF_alertsVars(part = "alerts" /\ Al!Load("admin"))
    /\ WF_alertsVars(part = "alerts" /\ Al!Loaded("admin"))
    /\ WF_upgradeVars(part = "upgrade" /\ Up!TimerFires)
    /\ WF_upgradeVars(part = "upgrade" /\ Up!AgentStep)
    /\ WF_upgradeVars(part = "upgrade" /\ Up!ScriptStep)
    /\ WF_upgradeVars(part = "upgrade" /\ Up!ActionStep)
    /\ WF_upgradeVars(part = "upgrade" /\ Up!GoesLate)
    /\ WF_dashboardVars(part = "dashboard" /\ Da!Ask)
    /\ WF_dashboardVars(part = "dashboard" /\ Da!Answer(1))
    /\ WF_dashboardVars(part = "dashboard" /\ (Da!Serve \/ Da!Refused \/ Da!ReadAfter \/ Da!Finish))

SurfacesSpec == SurfacesInit /\ [][SurfacesNext]_surfaceVars /\ Fair

ASSUME UpgradeAssumption == Up!UpgradeAssumption
ASSUME DomainAssumption == Ad!DomainAssumption
ASSUME SitesAssumption == Si!SitesAssumption
ASSUME PagesAssumption == Lp!PagesAssumption
ASSUME PlacementAssumption == Pl!PlacementAssumption

-----------------------------------------------------------------------------
(* Properties: those of the modules, where they are explained. The parts that  *)
(* do not run never step, so that a safety property is taken as it is.         *)

(* AgentUpgrade: a source that nobody kept can be taken back to one that was,  *)
(* and an upgrade that says it succeeded over SSH runs what it installed. A    *)
(* source is kept when it worked, or when a failed restart left the old Agent  *)
(* to confirm it.                                                              *)
UpgradesAreSafe == Up!WayBack /\ Up!PreviousWorked /\ Up!SuccessIsKept

(* AgentUpgrade: the Agent comes back, again and again, to a source that works *)
(* or that was kept without having run.                                        *)
ComesBack == []<>(part = "upgrade" => Up!Restored)

(* Alerts: a problem that stays reaches every recipient.                       *)
EveryoneIsTold == <>[](part = "alerts" /\ Al!Working) => <>[](part = "alerts" => Al!AllTold)

(* AgentDomain and Sites: settings that concurrent requests write hold. No     *)
(* Agent runs on a domain that was taken down; never two sites are the default. *)
SettingsHold == Ad!NeverStranded /\ Si!OneDefault

(* LogPages, NodeDetail, ActionLog: what a page shows is so, whichever answers *)
(* come late. Paging shows every line once where the pages up to here were     *)
(* answered in the end, the detail is of the node that the URL names, and what *)
(* the log said of an action that is over stays.                               *)
WhatIsShownIsTrue == Lp!EveryLineOnce /\ Nd!RightDetail /\ Lo!DoneStaysDone

(* Dashboard: the page comes to list the connections as they are.              *)
ShowsTheServer == []<>(part = "dashboard" => Da!InStep)

(* Placement: nobody is sent to a node that has not served for 90 seconds.     *)
PlacedWhereServed == [][Pl!PlacingServed]_placementVars
==============================================================================

-------------------------------- MODULE LogPages --------------------------------
(* Paging through the operational logs: queryOperationalLogs answers one page  *)
(* and the cursor of the next, older one (server/operational-logs.ts), Console *)
(* keeps the cursors of the pages it has shown (useCursorPages) and takes only *)
(* the answer it asked for last (LogsPage), while lines go on arriving,        *)
(* filters change, answers overtake each other and some fail.                  *)
EXTENDS Naturals, Sequences, FiniteSets

CONSTANTS
    Lines, Time,     \* log lines, and the nanosecond each is written at (some share one)
    Filters, Kept,   \* filters, and the lines each one keeps
    Limit,           \* lines of a page
    Patient,         \* does the reader wait for a page before going on to the next
    MaxClicks, MaxChanges, MaxLosses, MaxAsked   \* bounds: pages turned; filters changed; answers that fail; requests under way

(* A page (200 lines) holds every line of one nanosecond: the lines of a       *)
(* nanosecond that fills more than a page could not be told apart by a cursor. *)
PagesAssumption ==
    /\ IsFiniteSet(Lines) /\ Time \in [Lines -> Nat \ {0}]
    /\ Kept \in [Filters -> SUBSET Lines] /\ Limit \in Nat \ {0}
    /\ \A l \in Lines : Cardinality({m \in Lines : Time[m] = Time[l]}) <= Limit

VARIABLES
    stored,     \* the lines in Loki
    filter,     \* of the page, in the URL
    pages,      \* useCursorPages: the cursor, offset and filter of the pages visited
    index,      \* which of them is shown
    request,    \* request.current
    asked,      \* requests under way: [id, filter, cursor]
    answers,    \* their answers: [id, filter, cursor, outcome, lines, next]
    shown,      \* what the table shows: [filter, cursor, lines, next]
    busy,       \* the button says that the page loads
    timer,      \* a refresh that starts in a moment
    seen,       \* the lines shown on each page visited, in the order of the pages
    before,     \* the lines there were when the first of them was answered
    failed,     \* the pages visited whose last request failed
    clicks, changes, losses

browser == <<filter, pages, index, shown, seen, before, failed>>
vars == <<stored, browser, request, asked, answers, busy, timer, clicks, changes, losses>>

NoCursor == 0                                \* no cursor: the newest page, or no further one
Newest == CHOOSE t \in {Time[l] : l \in Lines} : \A l \in Lines : Time[l] <= t
First == <<[cursor |-> NoCursor, offset |-> 0]>>
Page == pages[index]

TypeOK ==
    /\ stored \subseteq Lines /\ filter \in Filters /\ index \in 1..Len(pages)
    /\ \A i \in 1..Len(pages) : pages[i].cursor \in 0..Newest + 1 /\ pages[i].offset \in Nat
    /\ shown.lines \subseteq Lines /\ Len(seen) <= Len(pages) /\ failed \subseteq 1..Len(pages)

Init ==
    /\ stored = {l \in Lines : Time[l] < Newest} /\ filter \in Filters
    /\ pages = First /\ index = 1 /\ request = 0 /\ asked = {} /\ answers = {}
    /\ shown = [filter |-> filter, cursor |-> NoCursor, lines |-> {}, next |-> NoCursor]
    /\ busy = TRUE /\ timer = TRUE /\ seen = <<>> /\ before = {} /\ failed = {}
    /\ clicks = 0 /\ changes = 0 /\ losses = 0

-----------------------------------------------------------------------------
(* queryOperationalLogs                                                        *)

(* Loki gives the k newest lines, and breaks ties as it likes.                 *)
Tops(S, k) == {T \in SUBSET S : /\ Cardinality(T) = IF k < Cardinality(S) THEN k ELSE Cardinality(S)
                                /\ \A l \in T, m \in S \ T : Time[l] >= Time[m]}

(* A slip: the group that is cut by the end of the page is not moved on.       *)
CutAnywhere(page, take) ==
    [lines |-> page, next |-> CHOOSE t \in {Time[l] : l \in page} : \A l \in page : t <= Time[l]]

(* The boundary of a page must not fall into lines of one nanosecond: they all *)
(* move to the next page, whose end is then just after them.                   *)
Cut(page, take) ==
    LET last == CHOOSE t \in {Time[l] : l \in page} : \A l \in page : t <= Time[l]
        group == {l \in page : Time[l] = last}
    IN  IF (\E l \in take \ page : Time[l] = last) /\ group # page
        THEN [lines |-> page \ group, next |-> last + 1]
        ELSE [lines |-> page, next |-> last]

Query(f, cursor) ==
    LET found == {l \in stored \cap Kept[f] : cursor = NoCursor \/ Time[l] < cursor}
    IN  UNION {{IF Cardinality(take) > Limit THEN Cut(page, take) ELSE [lines |-> page, next |-> NoCursor]
                : page \in Tops(take, Limit)} : take \in Tops(found, Limit + 1)}

-----------------------------------------------------------------------------
(* LogsPage                                                                    *)

(* refresh, a moment after the filters or the page have changed.               *)
Ask ==
    /\ timer /\ Cardinality(asked \cup answers) < MaxAsked
    /\ timer' = FALSE /\ busy' = TRUE /\ request' = request + 1
    /\ asked' = asked \cup {[id |-> request + 1, filter |-> filter, cursor |-> Page.cursor]}
    /\ UNCHANGED <<stored, browser, answers, clicks, changes, losses>>

Reply(a, outcome, p) ==
    /\ asked' = asked \ {a}
    /\ answers' = answers \cup {[id |-> a.id, filter |-> a.filter, cursor |-> a.cursor, outcome |-> outcome,
                                 lines |-> p.lines, next |-> p.next,
                                 before |-> IF a.cursor = NoCursor THEN stored ELSE {}]}
    /\ UNCHANGED <<stored, browser, request, busy, timer, clicks, changes>>

Answer ==
    /\ \E a \in asked : \E p \in Query(a.filter, a.cursor) : Reply(a, "page", p)
    /\ UNCHANGED losses

(* Loki does not answer: no lines and no cursor. Or the request itself fails.  *)
AnswerFails ==
    /\ losses < MaxLosses /\ losses' = losses + 1
    /\ \E a \in asked, outcome \in {"unavailable", "failed"} :
          Reply(a, outcome, [lines |-> {}, next |-> NoCursor])

(* A slip: whatever arrives is shown.                                          *)
AnyAnswer(a) == TRUE
(* Only the answer to the last request is shown.                               *)
Latest(a) == a.id = request

(* A failed request leaves the table and its cursor as they are, whichever     *)
(* page they are of; the answer of a Loki that is down empties both.           *)
Takes(a) ==
    /\ busy' = FALSE
    /\ IF a.outcome = "failed"
       THEN UNCHANGED <<shown, seen, before>>
       ELSE /\ shown' = [filter |-> a.filter, cursor |-> a.cursor, lines |-> a.lines, next |-> a.next]
            /\ seen' = [i \in 1..index |-> IF i = index THEN a.lines ELSE IF i <= Len(seen) THEN seen[i] ELSE {}]
            /\ before' = IF a.cursor = NoCursor THEN a.before ELSE before
    /\ failed' = IF a.outcome = "page" THEN failed \ {index} ELSE failed \cup {index}

Show ==
    /\ \E a \in answers :
          /\ answers' = answers \ {a}
          /\ IF Latest(a) THEN Takes(a) ELSE UNCHANGED <<shown, busy, seen, before, failed>>
    /\ UNCHANGED <<stored, filter, pages, index, request, asked, timer, clicks, changes, losses>>

(* Another filter is a return to the first page.  The table and its cursor     *)
(* stay as they are until the answer, and an answer to what was asked before   *)
(* is still shown until the refresh starts.                                    *)
ChangeFilter ==
    /\ changes < MaxChanges /\ changes' = changes + 1
    /\ \E f \in Filters \ {filter} : filter' = f
    /\ pages' = First /\ index' = 1 /\ seen' = <<>> /\ failed' = {} /\ timer' = TRUE
    /\ UNCHANGED <<stored, shown, before, request, asked, answers, busy, clicks, losses>>

Turn ==
    /\ clicks < MaxClicks /\ clicks' = clicks + 1
    /\ Patient => ~busy /\ ~timer
    /\ timer' = TRUE
    /\ UNCHANGED <<stored, filter, shown, seen, before, request, asked, answers, busy, changes, losses>>

(* onNext and onPrev of useCursorPages, with the cursor of the table.          *)
NextPage ==
    /\ Turn /\ shown.next # NoCursor
    /\ index' = index + 1 /\ failed' = failed \cap 1..index
    /\ pages' = Append(SubSeq(pages, 1, index),
                       [cursor |-> shown.next, offset |-> Page.offset + Cardinality(shown.lines)])
PreviousPage ==
    /\ Turn /\ index > 1 /\ index' = index - 1 /\ UNCHANGED <<pages, failed>>

Arrives ==
    /\ \E l \in Lines \ stored : stored' = stored \cup {l}
    /\ UNCHANGED <<browser, request, asked, answers, busy, timer, clicks, changes, losses>>

(* The refresh button; requestOperationalLogPurge and the refresh after it.    *)
Refresh ==
    /\ changes < MaxChanges /\ changes' = changes + 1 /\ ~busy
    /\ timer' = TRUE
    /\ \/ UNCHANGED <<stored, before>>
       \/ stored' = {} /\ before' = {}
    /\ UNCHANGED <<filter, pages, index, shown, seen, failed, request, asked, answers, busy, clicks, losses>>

Next == Ask \/ Answer \/ AnswerFails \/ Show \/ ChangeFilter \/ NextPage \/ PreviousPage \/ Arrives \/ Refresh

(* A request is sent, answered and shown in the end.                           *)
Fairness == WF_vars(Ask) /\ WF_vars(Answer) /\ WF_vars(Show)
Spec == Init /\ [][Next]_vars /\ Fairness

-----------------------------------------------------------------------------
(* Once the page has come to rest, the table is the answer for the filter and  *)
(* the page that are chosen, whatever answers came in between, unless the      *)
(* last request for them failed.                                               *)
ShowsWhatIsChosen == ~busy /\ ~timer /\ index \notin failed => shown.filter = filter /\ shown.cursor = Page.cursor

(* Someone who turns page after page misses no line that was there when they   *)
(* started and sees none twice, and the rows are numbered right; as long as    *)
(* the last request of each page up to here was answered.  (When it failed,    *)
(* the table and its cursor are still those of another page, are numbered as   *)
(* if they were of this one, and are what the next page is turned from.)       *)
Read == UNION {seen[i] : i \in 1..index}
EveryLineOnce == ~busy /\ ~timer /\ failed \cap 1..index = {} =>
    /\ \A i, j \in 1..index : i # j => seen[i] \cap seen[j] = {}
    /\ \A l \in before \cap stored \cap Kept[filter] :
          l \in Read \/ \A m \in Read : Time[l] <= Time[m] /\ shown.next # NoCursor
    /\ Page.offset = Cardinality(UNION {seen[i] : i \in 1..index - 1})

(* The page always comes to rest.                                              *)
Settles == []<>(~busy /\ ~timer)
=============================================================================

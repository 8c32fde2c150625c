-------------------------------- MODULE ActionLog --------------------------------
(* What is recorded of one remote action: its row and its events (server/db.ts) *)
(* are written by the worker (runNodeAction), by the recorder of the remote     *)
(* command's output (ActionOutputRecorder), and by whoever lists the actions of *)
(* the node after the worker was lost.                                          *)
EXTENDS Naturals, Sequences, FiniteSets

CONSTANTS
    MaxLines,     \* bound: lines the remote command prints
    MaxCrashes,   \* bound: restarts of the Controller
    MaxPurges,    \* bound: times the administrator clears the logs
    PrintsLate    \* may a command go on printing after the Controller gave it up

VARIABLES
    row,        \* of node_actions: [status, phase, progress]
    events,     \* of node_action_events: a set of [seq, what], what in the order things happen
    worker,     \* where runNodeAction is
    fails,      \* does the command, or what comes after it, fail
    printed,    \* what the command printed: markers and warnings
    rest,       \* does the last line still lack its end (remainder)
    writes,     \* lines recorded and not yet written (the chain of promises)
    writing,    \* what is being appended, by whom: 0, or the sequence number read
    todo,       \* whether the head of writes has updated the row already
    crashes, purges

output == <<printed, rest>>
recorder == <<writes, todo>>
vars == <<row, events, worker, fails, output, recorder, writing, crashes, purges>>

Writers == {"worker", "recorder", "reader"}
Start == 0                                       \* events of the worker, and line 1, 2, ...
FailedEvent == MaxLines + 1
Terminal == MaxLines + 2
Interrupted == MaxLines + 3
NoWrite == [what |-> 0, seq |-> 0]
Free == [w \in Writers |-> NoWrite]
Full == 3                                        \* 100 %
Ended == row.status \in {"succeeded", "failed"}

TypeOK ==
    /\ row \in [status : {"queued", "running", "succeeded", "failed"},
                phase : {"queued", "connecting", "output", "complete", "failed"}, progress : 0..Full]
    /\ \A e \in events : e.seq \in Nat \ {0} /\ e.what \in Start..Interrupted
    /\ worker \in {"queued", "start", "remote", "flush", "failing", "finish", "terminal", "done", "lost"}
    /\ Len(printed) <= MaxLines /\ rest \in BOOLEAN
    /\ writing \in [Writers -> [what : 0..Interrupted, seq : Nat]]

(* addNodeAction; its own first event is left out.                             *)
Init ==
    /\ row = [status |-> "queued", phase |-> "queued", progress |-> 0] /\ events = {}
    /\ worker = "queued" /\ fails = FALSE /\ printed = <<>> /\ rest = FALSE
    /\ writes = <<>> /\ todo = FALSE /\ writing = Free /\ crashes = 0 /\ purges = 0

-----------------------------------------------------------------------------
(* appendNodeActionEvent: the number is read and then inserted.                *)

NextSeq == IF events = {} THEN 1
           ELSE 1 + CHOOSE n \in {e.seq : e \in events} : \A e \in events : e.seq <= n
Read(w, what) == writing' = [writing EXCEPT ![w] = [what |-> what, seq |-> NextSeq]]
Inserts(w) == events' = events \cup {[seq |-> writing[w].seq, what |-> writing[w].what]}
              /\ writing' = [writing EXCEPT ![w] = NoWrite]
Writing(w) == writing[w].seq # 0

-----------------------------------------------------------------------------
(* ActionOutputRecorder                                                        *)

(* Lines that end are recorded at once: their writes wait for one another.     *)
Lines(from, to) == [i \in 1..(to - from + 1) |-> from + i - 1]
Recorded == Len(printed) - IF rest THEN 1 ELSE 0
Record(to) == writes' = writes \o Lines(Recorded + 1, to)

Prints == IF PrintsLate /\ fails THEN worker \notin {"queued", "start", "lost"} ELSE worker = "remote"

(* A chunk brings a line, or the end of the last and another one without end.  *)
Write ==
    /\ Prints /\ Len(printed) < MaxLines
    /\ \E kind \in {"marker", "warning"}, cut \in BOOLEAN :
          /\ printed' = Append(printed, kind) /\ rest' = cut
          /\ Record(Len(printed) + IF cut THEN 0 ELSE 1)
    /\ UNCHANGED <<row, events, worker, fails, todo, writing, crashes, purges>>

(* A slip: the lines are written side by side.                                 *)
AnyOf(i) == i \in 1..Len(writes)
(* this.writes = this.writes.then(...)                                         *)
Turn(i) == i = 1 /\ writes # <<>>

(* A marker moves the row first: its phase, and its progress never back.       *)
WriteRow ==
    /\ ~Writing("recorder") /\ ~todo
    /\ \E i \in 1..Len(writes) :
          /\ Turn(i) /\ printed[writes[i]] = "marker"
          /\ \E p \in 1..Full :
                row' = [row EXCEPT !.phase = "output", !.progress = IF p > @ THEN p ELSE @]
    /\ todo' = TRUE /\ UNCHANGED <<events, worker, fails, output, writes, writing, crashes, purges>>

ReadSeq ==
    /\ ~Writing("recorder")
    /\ \E i \in 1..Len(writes) :
          /\ Turn(i) /\ (printed[writes[i]] = "marker" => todo)
          /\ Read("recorder", writes[i])
    /\ UNCHANGED <<row, events, worker, fails, output, recorder, crashes, purges>>

Insert ==
    /\ Writing("recorder") /\ Inserts("recorder") /\ todo' = FALSE
    /\ \E i \in 1..Len(writes) :
          /\ writes[i] = writing["recorder"].what
          /\ writes' = SubSeq(writes, 1, i - 1) \o SubSeq(writes, i + 1, Len(writes))
    /\ UNCHANGED <<row, worker, fails, output, crashes, purges>>

-----------------------------------------------------------------------------
(* runNodeAction                                                               *)

StartAction ==
    /\ worker = "queued" /\ ~Ended
    /\ row' = [status |-> "running", phase |-> "connecting", progress |-> 1]
    /\ Read("worker", Start) /\ worker' = "start"
    /\ UNCHANGED <<events, fails, output, recorder, crashes, purges>>

WorkerInserts ==
    /\ Writing("worker") /\ Inserts("worker")
    /\ worker' = CASE worker = "start" -> "remote" [] worker = "failing" -> "finish" [] worker = "terminal" -> "done"
    /\ UNCHANGED <<row, fails, output, recorder, crashes, purges>>

(* executeRemoteCommand returns, fails or is given up; flush records a last    *)
(* line without end.                                                           *)
CommandEnds ==
    /\ worker = "remote" /\ worker' = "flush" /\ fails' \in BOOLEAN
    /\ Record(Len(printed)) /\ rest' = FALSE
    /\ UNCHANGED <<row, events, printed, todo, writing, crashes, purges>>

(* A slip: nobody waits for what is being written.                             *)
NoFlush == TRUE
(* await this.writes                                                           *)
Flushed == writes = <<>>

(* The heartbeat that must follow may not come.                                *)
AfterFlush ==
    /\ worker = "flush" /\ Flushed /\ \E f \in BOOLEAN :
          /\ fails' = (fails \/ f) /\ worker' = IF fails \/ f THEN "failing" ELSE "finish"
          /\ IF fails \/ f THEN Read("worker", FailedEvent) ELSE UNCHANGED writing
    /\ UNCHANGED <<row, events, output, recorder, crashes, purges>>

FinishAction ==
    /\ worker = "finish" /\ worker' = "terminal"
    /\ row' = IF fails THEN [status |-> "failed", phase |-> "failed", progress |-> Full]
              ELSE [status |-> "succeeded", phase |-> "complete", progress |-> Full]
    /\ Read("worker", Terminal)
    /\ UNCHANGED <<events, fails, output, recorder, crashes, purges>>

-----------------------------------------------------------------------------
(* Around it                                                                   *)

Crash ==
    /\ crashes < MaxCrashes /\ crashes' = crashes + 1 /\ worker # "lost"
    /\ worker' = "lost" /\ writes' = <<>> /\ todo' = FALSE /\ writing' = Free /\ rest' = FALSE
    /\ UNCHANGED <<row, events, fails, printed, purges>>

(* listNodeActions: once the lease of a lost action has run out, one reader    *)
(* ends it and says so.                                                        *)
Recover ==
    /\ worker = "lost" /\ ~Ended /\ ~Writing("reader")
    /\ row' = [row EXCEPT !.status = "failed", !.phase = "failed"]
    /\ Read("reader", Interrupted)
    /\ UNCHANGED <<events, worker, fails, output, recorder, crashes, purges>>

ReaderInserts ==
    /\ Writing("reader") /\ Inserts("reader")
    /\ UNCHANGED <<row, worker, fails, output, recorder, crashes, purges>>

(* purgeStoredOperationalLogs                                                  *)
Purge ==
    /\ purges < MaxPurges /\ purges' = purges + 1 /\ events' = {}
    /\ UNCHANGED <<row, worker, fails, output, recorder, writing, crashes>>

Next ==
    \/ Write \/ WriteRow \/ ReadSeq \/ Insert \/ StartAction \/ WorkerInserts \/ CommandEnds
    \/ AfterFlush \/ FinishAction \/ Crash \/ Recover \/ ReaderInserts \/ Purge

Spec == Init /\ [][Next]_vars

-----------------------------------------------------------------------------
(* The log reads in the order in which things happened, with each number once, *)
(* and once the worker is through it has every line of the output, unless      *)
(* somebody cleared it.                                                        *)
LogIsTrue ==
    /\ \A d, e \in events : (d.seq < e.seq => d.what < e.what) /\ (d.seq = e.seq => d = e)
    /\ worker = "done" /\ purges = 0 => \A i \in 1..Len(printed) : \E e \in events : e.what = i

(* An action that is over is shown as over: nothing that is written late puts  *)
(* the phase of its row back.                                                  *)
DoneStaysDone == Ended => row.phase = (IF row.status = "succeeded" THEN "complete" ELSE "failed")
=============================================================================

------------------------------ MODULE Releases ------------------------------
(***************************************************************************)
(* Client releases of one platform with local storage: uploads in chunks,  *)
(* registration, publishing, withdrawing, staged rollout, the minimum      *)
(* build, deletion, and the background copy of each installer to the       *)
(* download mirror.  The minimum is one for the platform, the offer one    *)
(* for each architecture.  Requests of administrators and of CI interleave *)
(* at every await; an installer is the number of its upload.               *)
(***************************************************************************)
EXTENDS Naturals, FiniteSets, FiniteSetsExt

CONSTANTS
    Architectures, \* of the apps; "universal" is the package for those without one of their own
    Builds,        \* architecture and number of what may be released
    First,         \* the one released at the start
    Handlers,      \* numbers of the requests that run at once
    Percents,      \* rollout percentages an administrator chooses, 100 among them
    MirrorAttempts,\* attempts to copy an installer     (5 in the code)
    MaxEvents      \* bound: requests, restarts

ReleasesAssumption ==
    /\ Builds \subseteq [arch : Architectures, number : Nat \ {0}] /\ IsFiniteSet(Builds) /\ First \in Builds
    /\ Handlers \subseteq Nat
    /\ Percents \subseteq 1..100 /\ 100 \in Percents
    /\ MirrorAttempts \in Nat \ {0} /\ MaxEvents \in Nat

VARIABLES
    rows,       \* the client_releases row of a build: at most one per build
    file,       \* the installer on the data volume under a build's key, 0 when there is none
    cdn,        \* the installer the mirror serves under that key
    minBuild,   \* the oldest build number still allowed
    uploads,    \* installers and rows numbered so far
    handler,    \* what each request is doing
    copying,    \* what the mirror loop is doing
    events,
    crossed,    \* builds that two requests changed at once, or one left half-way
    outdated    \* the minimum build was checked against releases, or an older minimum, that changed before it was written

vars == <<rows, file, cdn, minBuild, uploads, handler, copying, events, crossed, outdated>>

NoRow == [status |-> "none"]
Idle == [at |-> "idle"]
Released == {b \in Builds : rows[b] # NoRow}
Published == {b \in Released : rows[b].status = "published"}

-----------------------------------------------------------------------------
(* What clients are offered.                                                *)

\* bucket: the installation's number in 0..99; 100 stands for a client that names no installation.
PublicReleases(bucket) == {b \in Published : rows[b].rollout >= 100 \/ bucket < rows[b].rollout}
OnChannel(channel, bucket) == {b \in PublicReleases(bucket) : channel = "beta" \/ rows[b].channel = channel}
LatestClientReleases(channel, bucket) ==
    {b \in OnChannel(channel, bucket) : \A c \in OnChannel(channel, bucket) : c.arch = b.arch => c.number <= b.number}
ClientReleaseHistory(channel) == OnChannel(channel, 100) \ LatestClientReleases(channel, 100)
Shown == LatestClientReleases("beta", 100) \union ClientReleaseHistory("beta")

\* The app's own architecture wins, also over a newer universal package.
ReleaseFor(arch, channel, bucket) ==
    LET latest == LatestClientReleases(channel, bucket)
        own == {b \in latest : b.arch = arch}
    IN  IF own # {} THEN own ELSE {b \in latest : b.arch = "universal"}

UpdateDecision(latest, number) == [latest |-> latest, mandatory |-> minBuild > 0 /\ number < minBuild]
UpdateCheck(arch, channel, bucket, number) == UpdateDecision(ReleaseFor(arch, channel, bucket), number)

\* The mirror is tried first, then the Controller's own copy.
LocalArtifact(b) == IF b \in Published THEN {file[b]} ELSE {}
DownloadSources(b) == (IF rows[b].mirrored THEN {cdn[b]} ELSE {}) \union LocalArtifact(b)

\* Of the platform: any architecture will do.
AnyRollout(number) == \E b \in Published : rows[b].channel = "stable" /\ b.number >= number
StableBuildAtLeast(number) == \E b \in Published : rows[b].channel = "stable" /\ rows[b].rollout = 100 /\ b.number >= number

-----------------------------------------------------------------------------
Init ==
    /\ rows = [b \in Builds |-> IF b = First THEN [status |-> "published", channel |-> "stable", rollout |-> 100, id |-> 1, digest |-> 1,
                                              mirrored |-> FALSE, attempts |-> 0] ELSE NoRow]
    /\ file = [b \in Builds |-> IF b = First THEN 1 ELSE 0]
    /\ cdn = [b \in Builds |-> 0]
    /\ minBuild = 0 /\ uploads = 1 /\ events = 0
    /\ handler = [h \in Handlers |-> Idle]
    /\ copying = Idle
    /\ crossed = {} /\ outdated = FALSE

Happens == events < MaxEvents /\ events' = events + 1
Free(h) == handler[h] = Idle /\ \A g \in Handlers : handler[g] = Idle => h <= g
Store(h, state) == handler' = [handler EXCEPT ![h] = state]
Row(b, row) == rows' = [rows EXCEPT ![b] = row]

\* Another request that is between two of its steps on the same build.
Others(h, b) == {g \in Handlers \ {h} : handler[g] # Idle /\ handler[g].at # "minimum" /\ handler[g].build = b}
Crosses(h, b) == crossed' = IF Others(h, b) = {} THEN crossed ELSE crossed \union {b}

-----------------------------------------------------------------------------
(* Uploading and registering an installer.                                  *)

\* A build that is registered is refused; the check runs with the first chunk only.
AnyBuild(b) == TRUE
IsNew(b) == rows[b] = NoRow

\* A file left under the key by an earlier upload is removed, and the chunks collect in a file of their own.
ReceiveUpload(h, b, channel, publish, checked) ==
    /\ Free(h) /\ Happens /\ IsNew(b)
    /\ uploads' = uploads + 1
    /\ file' = [file EXCEPT ![b] = 0]
    /\ Store(h, [at |-> "link", build |-> b, content |-> uploads + 1, channel |-> channel, publish |-> publish, checked |-> checked])
    /\ Crosses(h, b)
    /\ UNCHANGED <<rows, cdn, minBuild, copying, outdated>>

\* An import and the CI name the digest they computed; the form records whatever is stored and never publishes.
ConsoleImport(h, b) == \E channel \in {"beta", "stable"}, publish \in BOOLEAN : ReceiveUpload(h, b, channel, publish, TRUE)
ConsoleForm(h, b) == \E channel \in {"beta", "stable"} : ReceiveUpload(h, b, channel, FALSE, FALSE)
ReleaseClient(h, b) == \E publish \in BOOLEAN : ReceiveUpload(h, b, "beta", publish, TRUE)

\* The last chunk links the whole installer to its key, unless a file is there; the client may also give up.
AppendLocalArtifact(h) ==
    LET b == handler[h].build
    IN  /\ handler[h].at = "link"
        /\ IF file[b] = 0
           THEN file' = [file EXCEPT ![b] = handler[h].content] /\ Store(h, [handler[h] EXCEPT !.at = "inspect"])
           ELSE Store(h, Idle) /\ UNCHANGED file
        /\ UNCHANGED <<rows, cdn, minBuild, uploads, copying, events, crossed, outdated>>

UploadInterrupted(h) ==
    /\ handler[h].at \in {"link", "inspect"} /\ Happens
    /\ Store(h, Idle)
    /\ UNCHANGED <<rows, file, cdn, minBuild, uploads, copying, crossed, outdated>>

\* The stored file is hashed; a digest that is not the one the uploader computed is refused.
InspectLocalArtifact(h) ==
    /\ handler[h].at = "inspect"
    /\ LET stored == file[handler[h].build]
       IN  Store(h, IF stored = handler[h].content \/ (stored # 0 /\ ~handler[h].checked)
                    THEN [handler[h] EXCEPT !.at = "insert", !.content = stored] ELSE Idle)
    /\ UNCHANGED <<rows, file, cdn, minBuild, uploads, copying, events, crossed, outdated>>

CreateRelease(h) ==
    LET r == handler[h]
        row == [status |-> "draft", channel |-> r.channel, rollout |-> 100, id |-> uploads + 1, digest |-> r.content, mirrored |-> FALSE, attempts |-> 0]
    IN  /\ r.at = "insert"
        /\ IF rows[r.build] = NoRow
           THEN Row(r.build, row) /\ uploads' = uploads + 1
                /\ Store(h, IF r.publish THEN [at |-> "change", action |-> "publish", build |-> r.build, id |-> row.id, rollout |-> 100, percent |-> 100] ELSE Idle)
           ELSE Store(h, Idle) /\ UNCHANGED <<rows, uploads>>
        /\ UNCHANGED <<file, cdn, minBuild, copying, events, crossed, outdated>>

-----------------------------------------------------------------------------
(* Transitions: the row is read, then one guarded statement changes it.     *)

Actions == {"publish", "promote", "withdraw", "rollout", "delete", "retry_mirror"}
RequireAdmin(actor, action, row) == actor = "admin" \/ (action = "publish" /\ row.channel = "beta")

StartTransition(h, b, actor, action, percent) ==
    /\ Free(h) /\ Happens /\ rows[b] # NoRow
    /\ RequireAdmin(actor, action, rows[b])
    /\ action # "rollout" => percent = 100
    /\ action = "delete" => rows[b].status # "published"
    /\ Store(h, [at |-> IF action = "delete" THEN "files" ELSE "change", action |-> action, build |-> b,
                  id |-> rows[b].id, rollout |-> rows[b].rollout, percent |-> percent])
    /\ Crosses(h, b)
    /\ UNCHANGED <<rows, file, cdn, minBuild, uploads, copying, outdated>>

Publish(row) == row.status \in {"draft", "withdrawn"}
Promote(row) == row.channel = "beta" /\ row.status # "withdrawn"
Withdraw(row) == row.status = "published"
Rollout(row) == row.status # "withdrawn"
RetryMirror(row) == ~row.mirrored /\ row.status # "withdrawn"
Delete(row) == row.status \in {"draft", "withdrawn"}
Changed(action, row) ==
    CASE action = "publish" -> Publish(row)   [] action = "promote" -> Promote(row) [] action = "withdraw" -> Withdraw(row)
      [] action = "rollout" -> Rollout(row)   [] action = "delete" -> Delete(row)   [] action = "retry_mirror" -> RetryMirror(row)
After(r, row) ==
    CASE r.action = "publish" -> [row EXCEPT !.status = "published"]
      [] r.action = "promote" -> [row EXCEPT !.status = "published", !.channel = "stable"]
      [] r.action = "withdraw" -> [row EXCEPT !.status = "withdrawn"]
      [] r.action = "rollout" -> [row EXCEPT !.rollout = r.percent]
      [] r.action = "delete" -> NoRow
      [] r.action = "retry_mirror" -> [row EXCEPT !.attempts = 0]

\* What the row had when it was read is written back.
Restored(r, row) == [row EXCEPT !.status = "published", !.rollout = r.rollout]

\* The statements name the row by its id, so a later row of the same build is out of their reach.
TransitionRelease(h) ==
    LET r == handler[h]
        row == rows[r.build]
    IN  /\ r.at = "change"
        /\ IF row # NoRow /\ row.id = r.id /\ Changed(r.action, row)
           THEN /\ Row(r.build, After(r, row))
                /\ Store(h, IF r.action \in {"withdraw", "rollout"} THEN [r EXCEPT !.at = "check"] ELSE Idle)
           ELSE Store(h, Idle) /\ UNCHANGED rows
        /\ UNCHANGED <<file, cdn, minBuild, uploads, copying, events, crossed, outdated>>

\* A withdrawal or a smaller rollout is taken back when the minimum build is out of reach after it.
NeverStrand(h) ==
    LET r == handler[h]
        row == rows[r.build]
    IN  /\ r.at = "check"
        /\ IF minBuild > 0 /\ ~StableBuildAtLeast(minBuild) /\ row # NoRow /\ row.id = r.id THEN Row(r.build, Restored(r, row)) ELSE UNCHANGED rows
        /\ Store(h, Idle)
        /\ UNCHANGED <<file, cdn, minBuild, uploads, copying, events, crossed, outdated>>

\* Files go first, the mirror's before the Controller's own; when the mirror refuses, nothing else happens.
DeleteReleaseFiles(h) ==
    LET b == handler[h].build
    IN  /\ handler[h].at = "files"
        /\ cdn' = [cdn EXCEPT ![b] = 0] /\ file' = [file EXCEPT ![b] = 0]
        /\ Store(h, [handler[h] EXCEPT !.at = "change"])
        /\ UNCHANGED <<rows, minBuild, uploads, copying, events, crossed, outdated>>

DeleteFails(h) ==
    /\ handler[h].at = "files" /\ Happens
    /\ Store(h, Idle)
    /\ UNCHANGED <<rows, file, cdn, minBuild, uploads, copying, crossed, outdated>>

-----------------------------------------------------------------------------
(* The minimum build: raised only when a release reaches it; lowered freely. *)

Reachable(number) == \E b \in Builds : LET row == rows[b] IN
    b.number >= number /\ row # NoRow /\ row.status = "published" /\ row.channel = "stable" /\ row.rollout = 100

SaveMinimum(h, number) ==
    /\ Free(h) /\ Happens
    /\ number > minBuild => StableBuildAtLeast(number)
    /\ Store(h, [at |-> "minimum", minimum |-> number, reached |-> number = 0 \/ Reachable(number)])
    /\ UNCHANGED <<rows, file, cdn, minBuild, uploads, copying, crossed, outdated>>

SetMinimumBuild(h) ==
    LET r == handler[h]
    IN  /\ r.at = "minimum"
        /\ minBuild' = r.minimum
        /\ outdated' = (outdated \/ ((r.reached \/ r.minimum > minBuild) /\ r.minimum > 0 /\ ~Reachable(r.minimum)))
        /\ Store(h, Idle)
        /\ UNCHANGED <<rows, file, cdn, uploads, copying, events, crossed>>

-----------------------------------------------------------------------------
(* The mirror loop: one copy at a time, the newest release first.           *)

Uncopied == {b \in Released : ~rows[b].mirrored /\ rows[b].status # "withdrawn" /\ rows[b].attempts < MirrorAttempts}
NeverCounted(row) == row
Attempted(row) == [row EXCEPT !.attempts = @ + 1]

SyncReleaseMirrors ==
    /\ copying = Idle
    /\ \E b \in Uncopied :
        /\ \A c \in Uncopied : rows[c].id <= rows[b].id
        /\ Row(b, Attempted(rows[b]))
        /\ copying' = [at |-> "copy", build |-> b, id |-> rows[b].id, content |-> file[b]]
    /\ UNCHANGED <<file, cdn, minBuild, uploads, handler, events, crossed, outdated>>

\* The upload fails, or it is stored and the public address does not serve it yet, or both succeed.
CopyToMirror ==
    LET c == copying
    IN  /\ c.at = "copy"
        /\ \/ copying' = Idle /\ UNCHANGED cdn
           \/ c.content # 0 /\ cdn' = [cdn EXCEPT ![c.build] = c.content] /\ copying' \in {Idle, [c EXCEPT !.at = "record"]}
        /\ UNCHANGED <<rows, file, minBuild, uploads, handler, events, crossed, outdated>>

SameBuild(row, id) == row # NoRow
SameRow(row, id) == row # NoRow /\ row.id = id

\* Deleted while it was copying: the copy is taken back off the mirror.
RecordCopy ==
    LET c == copying
    IN  /\ c.at = "record"
        /\ IF SameRow(rows[c.build], c.id)
           THEN Row(c.build, [rows[c.build] EXCEPT !.mirrored = TRUE]) /\ UNCHANGED cdn
           ELSE cdn' = [cdn EXCEPT ![c.build] = 0] /\ UNCHANGED rows
        /\ copying' = Idle
        /\ UNCHANGED <<file, minBuild, uploads, handler, events, crossed, outdated>>

\* Requests and the copy end where they are; a build that was being changed is left half-way.
ControllerRestarts ==
    /\ Happens /\ \E h \in Handlers : handler[h] # Idle
    /\ crossed' = crossed \union {handler[h].build : h \in {g \in Handlers : handler[g].at \in {"files", "change", "check"}}}
    /\ handler' = [h \in Handlers |-> Idle] /\ copying' = Idle
    /\ UNCHANGED <<rows, file, cdn, minBuild, uploads, outdated>>

-----------------------------------------------------------------------------
RequestStep(h) ==
    \/ AppendLocalArtifact(h) \/ InspectLocalArtifact(h) \/ CreateRelease(h)
    \/ TransitionRelease(h) \/ NeverStrand(h) \/ DeleteReleaseFiles(h) \/ SetMinimumBuild(h)
MirrorStep == SyncReleaseMirrors \/ CopyToMirror \/ RecordCopy

Next ==
    \/ \E h \in Handlers :
        \/ \E b \in Builds : ConsoleImport(h, b) \/ ConsoleForm(h, b) \/ ReleaseClient(h, b)
        \/ \E b \in Builds, actor \in {"admin", "ci"}, action \in Actions, percent \in Percents : StartTransition(h, b, actor, action, percent)
        \/ \E number \in {b.number : b \in Builds} \union {0} : SaveMinimum(h, number)
        \/ RequestStep(h) \/ UploadInterrupted(h) \/ DeleteFails(h)
    \/ MirrorStep \/ ControllerRestarts

\* The loop starts after an upload and every minute, and goes on when it runs; requests may stop anywhere.
Spec == Init /\ [][Next]_vars /\ WF_vars(MirrorStep)

-----------------------------------------------------------------------------
\* Whatever users are shown can be downloaded and is what was hashed, from the mirror and from the Controller:
\* a copy of a deleted release never passes for the release that took its build, unless two requests changed it at once.
ServesWhatItRecorded ==
    \A b \in Shown \ crossed : \A content \in DownloadSources(b) : content = rows[b].digest

\* What LOWER_MINIMUM_BUILD_FIRST and MIN_BUILD_WITHOUT_RELEASE keep: a minimum that makes updates mandatory is met
\* by what the apps of one architecture are offered, whichever installation they are, and the same one for all.
\* Apps of another architecture may be left with less: the check counts builds of any.
MinimumIsOffered ==
    outdated \/ crossed # {} \/ (\E h \in Handlers : handler[h].at \in {"check"})
    \/ \E arch \in Architectures : \A bucket \in {0, 60, 100} :
          LET d == UpdateCheck(arch, "stable", bucket, 0) IN d.mandatory => \E b \in d.latest : b.number >= minBuild

\* One copy that keeps failing holds nothing up: every installer is copied, is given up after its attempts, or is gone.
MirrorSettles == \A b \in Builds : b \in Uncopied ~> b \notin Uncopied

\* "Deleted while it was copying: take the copy back off the CDN": nothing stays on the mirror for a release that is gone.
NothingStaysBehind ==
    \A b \in Builds : cdn[b] # 0 /\ rows[b] = NoRow => copying # Idle \/ Others(0, b) # {} \/ b \in crossed
=============================================================================

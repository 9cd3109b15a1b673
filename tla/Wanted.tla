------------------------------- MODULE Wanted -------------------------------
(***************************************************************************)
(* What the database believes about one media file, and the file itself.   *)
(* Every trigger probes the file and writes one row for each language      *)
(* (media/service.py); a job that succeeds marks what it added             *)
(* (jobs/tracked_media.py); Wanted lists the rows that say MISSING.  The   *)
(* Arr server replaces the file at any moment of all this.                 *)
(*                                                                         *)
(* The scan, the webhook and the manual trigger run in threads of their    *)
(* own, each with a session that reads the rows and later writes what it   *)
(* finds changed.  The next job of the file may start in one worker while  *)
(* another still records the last.  One target is enabled; the Auto-Queue  *)
(* Limit and the locks of enqueue_file are modelled in JobScheduler, the   *)
(* remux in Downmix, the Tracked flag in Library.                          *)
(***************************************************************************)
EXTENDS Naturals

CONSTANTS
    Lang,           \* the languages of audio streams
    Allowed,        \* GlobalSettings.language_allow_list
    Contents,       \* the files that the Arr server may import
    Worker,         \* the threads that run jobs: the pool's and Process Now's
    MaxUpgrades, MaxManual, MaxFailures, MaxToggles     \* bounds

\* What a file has of a language: no stream, no stream with the target's
\* channels, or such a stream.
Content == [Lang -> {"absent", "missing", "done"}]

MediaTargetStatus == {"MISSING", "PROCESSED", "EXCLUDED_BY_LANGUAGE_FILTER"}

ASSUME WantedAssumption ==
    /\ Allowed \subseteq Lang /\ Contents \subseteq Content /\ Contents # {}
    /\ \A c \in Contents : \E l \in Lang : c[l] # "absent"
    /\ \A b \in {MaxUpgrades, MaxManual, MaxFailures, MaxToggles} : b \in Nat

Trigger == {"scan", "webhook", "manual"}

VARIABLES
    file,       \* the audio of the file on disk
    posted,     \* a webhook about the file is under way
    row,        \* the tracked_media_target_statuses rows, "none" without one
    tracked,    \* what the file's node resolves to
    call,       \* enqueue_file in each trigger's thread
    job,        \* the job in the queue
    ended,      \* in each worker the job that ended, while its side effects run
    recent,     \* its history row is inside the deduplication window
    count       \* how often each bounded step happened

calls == <<call, count>>
vars == <<file, posted, row, tracked, call, job, ended, recent, count>>

Idle == [at |-> "idle"]
NoJob == [at |-> "none"]

\* A worker whose recorder raised.
Dead == [at |-> "dead"]

Init ==
    /\ file \in Contents
    /\ posted = FALSE
    /\ row = [l \in Lang |-> "none"]
    /\ tracked \in BOOLEAN
    /\ call = [t \in Trigger |-> Idle]
    /\ job = NoJob
    /\ ended = [w \in Worker |-> NoJob]
    /\ recent = FALSE
    /\ count = [upgrades |-> 0, manual |-> 0, failures |-> 0, toggles |-> 0]

Counted(what, max) ==
    /\ count[what] < max
    /\ count' = [count EXCEPT ![what] = @ + 1]

------------------------------------------------------------------------------
(* Outside the file's triggers.                                            *)

\* The Arr server imports another file; it posts a webhook, once, or not.
Upgrade(c) ==
    /\ Counted("upgrades", MaxUpgrades)
    /\ file' = c
    /\ posted' \in BOOLEAN
    /\ UNCHANGED <<row, tracked, call, job, ended, recent>>

SetTracked ==
    /\ Counted("toggles", MaxToggles)
    /\ tracked' = ~tracked
    /\ UNCHANGED <<file, posted, row, call, job, ended, recent>>

WindowPasses ==
    /\ recent
    /\ recent' = FALSE
    /\ UNCHANGED <<file, posted, row, tracked, call, job, ended, count>>

------------------------------------------------------------------------------
(* enqueue_file.                                                           *)

\* As Qualifies, but what the database holds as processed is left alone.
QualifiesUnrecorded(l, streams, langs) ==
    streams[l] = "missing" /\ l \in langs /\ row[l] # "PROCESSED"

\* detect_qualifying_targets, for one target.
Qualifies(l, streams, langs) == streams[l] = "missing" /\ l \in langs

Missing(streams, langs) == {l \in Lang : Qualifies(l, streams, langs)}

\* _is_duplicate: a manual trigger passes over the window.
Duplicate(t) == job # NoJob \/ (recent /\ t # "manual")

\* A trigger that is no duplicate probes the file.  A manual one may allow
\* languages for this call only.
Probe(t, langs) ==
    /\ call[t] = Idle /\ ~Duplicate(t)
    /\ call' = [call EXCEPT ![t] = [at |-> "probed", streams |-> file, langs |-> langs]]
    /\ UNCHANGED <<file, row, tracked, job, ended, recent>>

ScanProbe == Probe("scan", Allowed) /\ UNCHANGED <<posted, count>>

WebhookProbe ==
    /\ posted /\ posted' = FALSE
    /\ Probe("webhook", Allowed) /\ UNCHANGED count

ManualProbe(extra) ==
    /\ Counted("manual", MaxManual)
    /\ Probe("manual", Allowed \cup extra) /\ UNCHANGED posted

\* upsert_tracked_media: the status of each language the streams have.
StatusOf(l, streams, langs) ==
    IF l \notin langs THEN "EXCLUDED_BY_LANGUAGE_FILTER"
    ELSE IF Qualifies(l, streams, langs) THEN "MISSING" ELSE "PROCESSED"

\* upsert_tracked_media reads the rows that there are ...
ReadRows(t) ==
    LET c == call[t] IN
    /\ c.at = "probed"
    /\ call' = [call EXCEPT ![t] =
                   [at |-> "read", streams |-> c.streams, langs |-> c.langs, seen |-> row]]
    /\ UNCHANGED <<file, posted, row, tracked, job, ended, recent, count>>

\* As Written, but rows that were there stay as they are.
WrittenOnce(c) ==
    [l \in Lang |-> IF c.streams[l] = "absent" \/ c.seen[l] # "none" THEN row[l]
                    ELSE StatusOf(l, c.streams, c.langs)]

\* ... and writes those whose status is not the one it read.
Written(c) ==
    [l \in Lang |-> IF c.streams[l] = "absent" \/ c.seen[l] = StatusOf(l, c.streams, c.langs)
                    THEN row[l]
                    ELSE StatusOf(l, c.streams, c.langs)]

\* A row that it inserts, the file's own or a status, another session has
\* inserted since.
Conflict(c) ==
    \E l \in Lang : /\ c.seen[l] = "none" /\ row[l] # "none"
                    /\ \/ c.streams[l] # "absent"
                       \/ \A k \in Lang : c.seen[k] = "none"

UpsertTrackedMedia(t) ==
    LET c == call[t] IN
    /\ c.at = "read" /\ ~Conflict(c)
    /\ row' = Written(c)
    /\ call' = [call EXCEPT ![t] = [at |-> "tracked", streams |-> c.streams, langs |-> c.langs]]
    /\ UNCHANGED <<file, posted, tracked, job, ended, recent, count>>

\* The commit raises, and with it enqueue_file.
IntegrityError(t) ==
    /\ call[t].at = "read" /\ Conflict(call[t])
    /\ call' = [call EXCEPT ![t] = Idle]
    /\ UNCHANGED <<file, posted, row, tracked, job, ended, recent, count>>

\* The Tracked gate, the qualifying targets, and the second duplicate check
\* under the lock.
Enqueue(t) ==
    LET c == call[t]
        wanted == /\ tracked \/ t = "manual"
                  /\ Missing(c.streams, c.langs) # {}
                  /\ ~Duplicate(t)
    IN
    /\ c.at = "tracked"
    /\ job' = IF wanted THEN [at |-> "pending", langs |-> c.langs] ELSE job
    /\ call' = [call EXCEPT ![t] = Idle]
    /\ UNCHANGED <<file, posted, row, tracked, ended, recent, count>>

------------------------------------------------------------------------------
(* The job.                                                                *)

\* A worker that is free claims it; the pipeline probes the file again.
Claim(w) ==
    /\ ended[w] = NoJob
    /\ job.at = "pending"
    /\ job' = [at |-> "running", langs |-> job.langs, streams |-> file, by |-> w]
    /\ ended' = [ended EXCEPT ![w] = [at |-> "running", added |-> {}]]
    /\ UNCHANGED <<file, posted, row, tracked, call, recent, count>>

\* The remux of the file that was probed takes the place of the file there is.
Succeed ==
    LET added == Missing(job.streams, job.langs) IN
    /\ job.at = "running"
    /\ file' = IF added = {} THEN file
               ELSE [l \in Lang |-> IF l \in added THEN "done" ELSE job.streams[l]]
    /\ job' = NoJob
    /\ ended' = [ended EXCEPT ![job.by] = [at |-> "ended", added |-> added]]
    /\ UNCHANGED <<posted, row, tracked, call, recent, count>>

Fail ==
    /\ job.at = "running"
    /\ Counted("failures", MaxFailures)
    /\ job' = NoJob
    /\ ended' = [ended EXCEPT ![job.by] = [at |-> "ended", added |-> {}]]
    /\ UNCHANGED <<file, posted, row, tracked, call, recent>>

\* _record_history: from here on the job is recently processed.
RecordHistory(w) ==
    /\ ended[w].at = "ended"
    /\ recent' = TRUE
    /\ ended' = [ended EXCEPT ![w] = [at |-> "recorded", added |-> ended[w].added]]
    /\ UNCHANGED <<file, posted, row, tracked, call, job, count>>

\* record_tracked_media, a commit for each track that was added.
RecordTargetProcessed(w, l) ==
    /\ ended[w].at = "recorded" /\ l \in ended[w].added
    /\ row' = [row EXCEPT ![l] = "PROCESSED"]
    /\ ended' = [ended EXCEPT ![w] = [at |-> "recorded", added |-> ended[w].added \ {l}]]
    /\ UNCHANGED <<file, posted, tracked, call, job, recent, count>>

Return(w) ==
    /\ ended[w].at = "recorded" /\ ended[w].added = {}
    /\ ended' = [ended EXCEPT ![w] = NoJob]
    /\ UNCHANGED <<file, posted, row, tracked, call, job, recent, count>>

\* An error of either recorder passes through _run_job and ends the thread.
RecorderRaises(w) ==
    /\ ended[w].at \in {"ended", "recorded"}
    /\ Counted("failures", MaxFailures)
    /\ ended' = [ended EXCEPT ![w] = Dead]
    /\ UNCHANGED <<file, posted, row, tracked, call, job, recent>>

Runs == Succeed \/ Fail

Records(w) ==
    RecordHistory(w) \/ (\E l \in Lang : RecordTargetProcessed(w, l)) \/ Return(w)

Next ==
    \/ \E c \in Contents : Upgrade(c)
    \/ SetTracked \/ WindowPasses
    \/ ScanProbe \/ WebhookProbe \/ \E extra \in SUBSET (Lang \ Allowed) : ManualProbe(extra)
    \/ \E t \in Trigger : ReadRows(t) \/ UpsertTrackedMedia(t) \/ IntegrityError(t) \/ Enqueue(t)
    \/ Runs
    \/ \E w \in Worker : Claim(w) \/ Records(w) \/ RecorderRaises(w)

Spec == Init /\ [][Next]_vars

\* Scans recur, calls that have probed return, the workers run their jobs, and
\* the window passes.  Nothing makes a webhook or a request arrive.
Fairness ==
    /\ WF_vars(ScanProbe)
    /\ \A t \in Trigger :
         WF_vars(ReadRows(t) \/ UpsertTrackedMedia(t) \/ IntegrityError(t) \/ Enqueue(t))
    /\ WF_vars(Runs)
    /\ \A w \in Worker : WF_vars(Claim(w) \/ Records(w))
    /\ WF_vars(WindowPasses)

FairSpec == Spec /\ Fairness

------------------------------------------------------------------------------
(* Properties.                                                             *)

Rows == [Lang -> MediaTargetStatus \cup {"none"}]
Call == [at : {"probed", "tracked"}, streams : Content, langs : SUBSET Lang]
ReadCall == [at : {"read"}, streams : Content, langs : SUBSET Lang, seen : Rows]
PendingJob == [at : {"pending"}, langs : SUBSET Lang]
RunningJob == [at : {"running"}, langs : SUBSET Lang, streams : Content, by : Worker]
EndedJob == [at : {"running", "ended", "recorded"}, added : SUBSET Lang]

TypeOK ==
    /\ file \in Content /\ posted \in BOOLEAN /\ tracked \in BOOLEAN
    /\ row \in Rows
    /\ call \in [Trigger -> {Idle} \cup Call \cup ReadCall]
    /\ job \in {NoJob} \cup PendingJob \cup RunningJob
    /\ ended \in [Worker -> {NoJob, Dead} \cup EndedJob]
    /\ recent \in BOOLEAN
    /\ count \in [{"upgrades", "manual", "failures", "toggles"} -> Nat]

\* Once no one replaces the file, the rows say what the file has: a record of
\* a job that ran on the file before, a row written from an older probe or for
\* languages allowed once, are all corrected.  Rows of languages the file no
\* longer has are left out: nothing ever corrects those (media/service.py:234,
\* jobs/tracked_media.py:48).
RowsSettle ==
    <>[](\A l \in Lang : file[l] # "absent" => row[l] = StatusOf(l, file, Allowed))

\* list_files_missing_targets: what the Wanted page shows of the file.
WantedTargets == {l \in Lang : tracked /\ row[l] = "MISSING"}

\* As long as a worker is left, a Tracked file ends with every target it is to
\* have, however often it was replaced while jobs ran and whatever its rows said
\* of the file before: what decides is the probe, never the row
\* (scheduler.py:523-586).  And no language that it has keeps it on the Wanted
\* page (media/service.py:311-398).  A language that an upgrade dropped does: its
\* MISSING row stays, and the file is listed for ever (media/service.py:234).
WantedIsServed ==
    <>[](tracked /\ (\E w \in Worker : ended[w] # Dead) =>
            \A l \in Allowed :
                /\ file[l] # "missing"
                /\ file[l] # "absent" => l \notin WantedTargets)
=============================================================================

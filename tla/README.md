# Collapsarr: specification and proofs

Collapsarr watches Sonarr and Radarr libraries and rewrites media files so that
they carry a stereo (or 5.1) downmix of their surround tracks. It is one Python
process: a FastAPI application, a pool of worker threads that run ffmpeg, some
periodic threads, and an SQLite database. It rewrites files in place, updates
and restores itself, serves requests on many threads at once, and may be killed
at any moment; that is what these modules are about.

## The system

| Component | State | Operations | Talks to | What makes it correct | Module |
|---|---|---|---|---|---|
| Job queue (`jobs/queue.py`) | `_jobs`, `_next_priority`, `_active`, pool and forced threads, `_shutdown`, one condition variable | enqueue, cancel, bump, force-start, claim, run, wait_no_running, shutdown | history, pause setting, pipelines, scheduler's hook | one thread per job, one run per job, no lost wake-up, clean shutdown | `JobQueue` |
| Job history, rehydration (`jobs/history.py`, `rehydrate.py`) | `job_history` | record (SELECT, then INSERT or UPDATE), delete; at boot: fail orphans, rebuild, seed priorities | enqueuers, runners, cancel | the row follows the job; nothing runs twice or is forgotten | `JobQueue` |
| Job scheduler (`jobs/scheduler.py`) | enqueue lock, top-up lock | trigger, scan, top up, cancel, clear, process now | queue, history, ffprobe, Arr | one active job per file, bounded automatic queue | `JobScheduler`, `FileLease` |
| Downmix pipeline, cancellation (`downmix/`) | the media file, a temp file, the cancelled flag, the attached process | probe, remux, validate, rename; attach, detach, cancel | ffmpeg, ffprobe | the file is untouched or fully replaced; a cancel leaves no process | `Downmix`, `AtomicSwap` |
| Targets and default track (`downmix/targets.py`, `default_audio.py`) | none | pure selection | pipeline, scheduler | done is done: nothing to do the second time | `AudioTracks` |
| Tracked media (`media/`, `jobs/tracked_media.py`) | status rows per file | upsert, mark processed, list wanted | triggers, jobs | rows follow the file, wanted targets get made | `Wanted` |
| Library tree (`library/`) | nodes with tracked overrides, instances | sync, upsert, hide, toggle | scans, webhooks, Arr | the tree matches the catalog, no toggle is lost | `Library` |
| Self-update (`self_update/`) | guard row, stashed pause, install directories | apply with three flows, helper, health gate, rollback | queue, settings, operating system | guard and pause are released, an install survives | `SelfUpdate` |
| Restore, backup, migrations (`restore/`, `backup/`, `migrations/`) | database, journal, staged file, marker, archives | stage, swap at boot, migrate, create, prune, delete | file system | no death loses the data or the last archive | `Recovery` |
| Health and update checks (`health/`, `update_check/`) | two tables of last results | tick, recheck, dismiss | Arr, GitHub | the latest notice is right in the end | `Notices` |
| FFmpeg download, Plex, notify, auth, frontend | caches, credentials | HTTP | outside | not modelled, see the end | |

Hard behaviour: many threads on one condition variable; database sessions that
read first and commit later; answers written after newer ones; kills between a
change in memory and the same change on disk, or between two renames; errors
that leave a thread's main loop; self-update waiting for running jobs.
`PROJECT.json` lists the hazards at their lines, with the properties that are
about each.

Every module is one level of the same system and talks about the others only
through what they see of it. `JobScheduler` abstracts the queue to a status and
a file per job, `SelfUpdate` to statuses and the pause, `Wanted` to the
active job of one file; `JobQueue` abstracts the pipelines to an outcome, which `Downmix` has in
detail. `Downmix` extends `AudioTracks` (operators only) and refines
`AtomicSwap`; `JobScheduler` refines `FileLease`; and `JobQueue` and
`JobScheduler` both refine `JobLife`, which is what ties the two levels of the
queue together. Each state machine has an `MC` module with its instance; seven
of the eight and `AudioTracks` have a `...Proofs` module.

In all modules an action is what happens under one lock, in one database
transaction, or in one file operation; everything else that may run or fail in
between does so between two actions. For every property
`PROJECT.json` names a mutant: an operator that changes one definition the way a
plausible bug would, under which TLC finds the property violated.

| Run | Distinct states | Time with two workers |
|---|---|---|
| `queue_pool` | 2 513 000 | 130 s |
| `queue_restart` | 1 759 000 | 165 s |
| `queue_liveness` | 167 000 | 165 s |
| `job_scheduler` | 1 138 000 | 80 s |
| `scheduler_liveness` | 46 000 | 50 s |
| `downmix` | 291 000 | 100 s |
| `self_update` | 373 000 | 60 s |
| `recovery` | 390 000 | 40 s |
| `library` | 551 000 | 105 s |
| `wanted` | 626 000 | 155 s |
| `notices` | 187 000 | 40 s |

## `JobQueue`: the queue, its threads, its table, its restart

`JobQueue.tla` is the queue, the history rows it writes and the restart that
reads them. `Job` are the ids ever enqueued, `Worker` the pool (of
`max_concurrency` threads). `JobLife.tla` is what it promises its callers about
one job id: unused, pending, running, and then ended or cancelled, for good in
this process; nothing starts once the queue shuts down; and across a restart of
the program the few ways back that the table allows.

| Variable | Code |
|---|---|
| `status`, `priority` | `Job.status`, `Job.priority` in `_jobs` ("none": not in the map) |
| `nextPriority`, `active`, `shutdown` | `_next_priority`, `_active`, `_shutdown` and how far `shutdown()` got |
| `worker` | where each pool thread is: about to claim, inside the claim with the lock, waiting, polling, running a job, returned, dead of an error |
| `stage`, `runner`, `loaded` | how far `_run_job` is with a job, on which thread, and what its open SELECT returned |
| `enqueuer`, `snapshot` | how far `_enqueue` is, and what its `record_job_history` loaded and computed |
| `canceller` | how far `_cancel_one` is |
| `row` | `job_history` |
| `paused`, `quiesced` | the pause setting; `wait_no_running` returned under it |
| `joinSet` | the forced threads `shutdown()` joins |
| `runs` | history variable: pipeline starts per job |

Granularity. A block under `_cond` (or `_lock`, the same lock) is one step and
needs the lock to be free. The pool's claim is the one block that reads a
database in the middle, so it is two steps, `CheckPause` and `Claim`, with the
lock held in between. `record_job_history` runs without the lock: a lookup step
and a commit step, and the commit fails when the row appeared (unique `job_id`)
or vanished in between. The ORM writes a column only if it differs from what was
loaded (`Written`). An error in `_run_job` outside the pipeline call runs the
`finally` block and ends the pool thread, because `_worker_loop` catches nothing.

`Restart` kills the process in any state, including in the middle of a call, and
boots the next one on the table: `RehydratedRows` fails RUNNING rows and rows
that cannot be rebuilt, `Seeds` is the new priority counter. Whether a default
audio preference is configured at that moment is a free choice.

`cancel_running` has no action: it signals the job's handle, and a killed run is
one of the runs that `FinishJob` lets fail. `rehydrate` and `start` are part of
`Restart`. `wait_idle` is called by tests only.

### Properties

* `ActiveCount`: `_active` equals the number of claimed jobs, also after an error.
* `OneJobPerThread`: a busy pool thread has exactly one job, any other has none.
* `CancelledNeverRuns`: whoever wins between cancel, claim and force-start, a job that was cancelled does not run.
* `QuiescedPoolIsIdle`: after `wait_no_running` under a forced pause, no pool thread runs or can still claim a job. It holds only because the setting is read under the lock.
* `ShutdownDrains`: after `shutdown()` no thread, forced ones included, runs a job.
* `AtMostOneRun`: no pipeline is started twice for one job, across kills, failed writes and restarts.
* `NewJobsLast`: a new job sorts behind every job and every row, whatever its status.
* `NoOrphanedRow`: a RUNNING row belongs to a job that this process claimed.
* `ImplementsLife`: the module implements `JobLife`, with threads, lock, table, faults and kills: the life of a job is its status while it is in the map, and "cancelled" afterwards.
* `PendingIsServed`, `ShutdownTerminates`: no lost wake-up; shutdown ends.
* `PoolLivesOn`: a statement of the documentation that the code does not keep, see below.

### Runs

`MCJobQueue.tla` instantiates the module.

| Run | Instance | Why it is enough |
|---|---|---|
| `queue_pool` | 2 jobs, 2 workers, no fault, no restart, priorities down to -1 | every race is between two threads, or between two threads and a caller, over one or two jobs |
| `queue_restart` | 2 default-audio jobs, 1 worker plus forced threads, 1 restart, 1 fault | a kill at every step, then a second life long enough to run, cancel and finish what was rebuilt |
| `queue_liveness` | 2 jobs, 1 worker | a waiter, a notifier and a competing forced thread; scope cut by `LivenessScope` and `NoRequestAfterShutdown` |
| `queue_pool_lives` | 2 jobs, 1 worker, no fault | the counterexample is a handful of steps |

Bounds: `BumpFloor` (how far below zero a job is bumped), `MaxRestarts`,
`MaxFaults` (database calls that fail on their own; conflicts are not counted).
Each job id is enqueued once, which bounds priorities. The runs with symmetry
check safety only. `RestartScope` leaves `quiesced` out of `queue_restart`: no
action but the one that sets it and those that reset it reads the note, and no
property of that run does.

`LivenessScope` leaves out, in the liveness run, what no queue thread waits for:
the `quiesced` note, and the cancellation and forced start of one of the two
jobs. Deadlock is checked in all runs: changing the pause is always possible, so
what deadlock checking cannot show about the threads, the liveness run does.

Fairness: strong fairness for pool and running threads (the condition variable
has no queueing guarantee, but a thread that can get the lock again and again
gets it), weak fairness for the calls in progress and for the return of
`shutdown()`. Pipelines return because every ffmpeg and ffprobe call has a
timeout. No request, fault, restart or settings change is assumed to happen.
`PendingIsServed` excepts a pause, a shutdown and a pool whose threads have all
died: the finding below says how that happens.

### Finding

`PoolLivesOn`: `_enqueue` wakes the pool before it records the PENDING row,
without the lock; the claiming worker records RUNNING. Both look the row up,
find none and insert. The second commit violates the unique `job_id`; if it is
the worker's, the error ends the pool thread for good.

### Proved: `JobQueueProofs`

For every finite `Job` and `Worker` and all bounds (the assumptions
`WorkerAssumption`, `JobAssumption`, `BoundAssumption`), every safety property
above that the passing runs check is a theorem, `ImplementsLife` among them. The
argument is one inductive invariant, `IInv`:

* `TypeOK`;
* `ThreadInv`: a running job is not PENDING, and a busy pool thread and its job determine each other; without it a claim could take a job that already runs;
* `ActiveCount`, which needs `ThreadInv` to know that a claim adds a new member to the set of running jobs;
* `ShutdownInv`: once the flag is set nobody is inside the claim and every forced thread at work is on the list to join;
* `PauseInv`: the quiescent state comes with the pause still in force;
* `CallerInv`: what the enqueuer holds in its open SELECT is harmless: it will insert PENDING only over no row, and never over a row of a claimed job;
* `RunInv`: a started pipeline has left a row that is neither missing nor PENDING and never will be again. This is why a restart cannot run it twice;
* `NoOrphanedRow`;
* `PriorityInv`: `NewJobsLast` plus the priorities on their way to a row.

There is one lemma per part, with one step per action; `NextInv` puts them
together and `Inductive` is the temporal theorem. The finite-set facts are the
library's. `IInv` was first checked by TLC on the instances above.

Two theorems follow on top. `LifeImplemented` is the refinement, one step of the
proof per action: what makes it true is that a start needs a PENDING status
under the lock, and that rehydration brings back no job whose row was finished.
`NoWakeUpIsLost` is the safety half of the two liveness properties: no pool
thread sleeps on the condition variable beside a pending job, and none sleeps or
is about to claim once `shutdown()` has begun. What remains for TLC is that
threads that are awake are scheduled.

## `JobScheduler`: who may put a file on the queue

`JobScheduler.tla` is what happens before a job runs: who may put a file on the
queue. It abstracts the queue that `JobQueue.tla` has in detail to a job's
status, its file and the age of its terminal row. `Thread` are the request
threads and the scan thread (`Caller`) and the threads that finish jobs (each
goes by the name of its job), because those call `top_up` themselves.

| Variable | Code |
|---|---|
| `status`, `file` | `Job.status` and `Job.file_path` of every job; "gone" is a cancelled job, whose object still says PENDING, as `process_now` sees it |
| `recorded` | whether the terminal row is written, and whether it lies inside the Recently-Processed Window |
| `down` | `shutdown()` has set the flag |
| `filled` | history variable: the jobs that `top_up` enqueued |
| `enqueueLock`, `topUpLock` | who holds `_enqueue_lock`, `_top_up_lock` |
| `call` | where each thread is in the scheduler, with the local variables it still needs: the file, the mode (does it respect the window), the job of `process_now`, the place and the count of a top-up, the rest of `clear_queue`'s list |

Granularity. Each read or write of the queue and each database query is a step.
`_is_duplicate` is therefore two, `IsActive` and `IsRecentlyProcessed`, and they
run twice: before the probe without the lock, after it with. An error leaves
every `with` block on the way out (`CallFails`, and the raising half of
`Insert`). Taking `_top_up_lock` and counting the pending jobs are one step;
nothing but a pause lookup lies between. `force_start` and `Settle` are two:
the status may change in between.

What the probe finds, whether a file is tracked and whether anything is to do is
a free choice, made at each call. A walk may leave out a file, which stands for
an instance whose list could not be fetched. `requeue_all_failed` and a bulk
default-audio request are several `Request`s of one caller. `running` for ever
is a run that never ends or whose thread died. Making the window longer
afterwards is not modelled: "past" stays past.

### Properties

* `OneActivePerFile`: no two jobs are queued or running for one file. Both would rewrite it in place. It rests on the second duplicate check, the lock around it, and on nothing else putting jobs in the queue.
* `AutoBudget`: top-ups together never have more than `AUTO_QUEUE_LIMIT` of their own jobs waiting. (All pending jobs together may exceed it: manual triggers are not limited, on purpose.)
* `ProcessNowHonest`: when `process_now` answers with a job, that job was started, whoever won the race for it and whether the queue was shut down.
* `CallsReturn`: every call ends. The two locks do nest (see Observations), always in one order; errors and early returns leave none taken.
* `ImplementsLife`: the module implements `JobLife`, so the queue it abstracts from takes only steps that `JobQueue` is shown to take.
* `ImplementsLease`: the module implements `FileLease.tla`, the abstract statement: a file is acquired by a fresh job, started once, released, and only then acquired again. The mapping takes the file's active job as its holder.

### Runs

`MCJobScheduler.tla` instantiates the module.

| Run | Instance | Why it is enough |
|---|---|---|
| `job_scheduler` | 2 files, 2 jobs, 2 callers, limit 1 | two calls overlap in every order, on one file or on two; a limit of 1 makes a single extra job visible |
| `scheduler_liveness` | 1 file, 2 jobs, 1 caller | three threads (two are hooks) for two locks; files do not interact in `FileLease`, and the second job takes the file over from the first |

Bounds: `Job` (jobs ever enqueued; with all of them used, an enqueue ends like
one that raises) and `MaxCalls`, 2 in all runs: how many calls are in progress
at a time. The proofs need neither bound to be small.

Fairness: strong fairness for each thread's call. The operating system runs
every thread, a lock that is free again and again is obtained in the end, and
probes and fetches have timeouts. Nothing makes a call begin or a job run, and
no property waits for that.

### Proved: `JobSchedulerProofs`

For every `File`, `Walk`, `Caller`, `Limit`, every finite `Job` and any number
of calls in progress (`NameAssumption`, `JobAssumption`, `WalkAssumption`), the
safety properties of `job_scheduler` and the refinements of `FileLease` and of
`JobLife` are theorems. The invariant is `IInv`:

* `TypeOK`; `Filed` and `Names`: jobs and calls know their files as long as they need them;
* `Locks`: who holds which lock follows from where each thread is;
* `Checked`: once a thread has found its file free under `_enqueue_lock`, the file stays free until its insert. This is why the second check is enough: other steps only take jobs away, and an insert needs the lock;
* `Counted`: a top-up's count is never below the number of top-up jobs that wait, and below the limit wherever it may still insert;
* the three properties themselves.

The proof first says what each action does to the thread that takes it (the
`...Shape` lemmas) and to the queue (`QueueStep`: an insert, or jobs move on),
then that every step is one thread's turn (`Turns`); each part then has one lemma
about the thread that acts, with one step per action, and one that carries it
to all threads. `LeaseImplemented` maps an insert to `Acquire`, a job that
starts to `Start`, one that ends or is cancelled to `Release`, and all else to
a stutter; it needs `OneActivePerFile`, without which the holder would be
ambiguous. `LifeImplemented` maps the same steps to `JobLife`, job by job.

`NoDeadlockHolds` is the safety half of `CallsReturn`: whoever waits for
`_enqueue_lock` waits for a thread that can go on, and whoever waits for
`_top_up_lock` for one that can go on or that waits for such a one. It follows
from `Locks`. What remains for TLC is that each call then gets its turn.

## `Downmix`, `AudioTracks`, `AtomicSwap`: one media file and its jobs

`AudioTracks.tla` holds the pure part as operators: which targets a file
qualifies for, which track is the source, which one is to be the default, and
what `build_remux_command` asks ffmpeg for. A track is a language, a channel
count, the default flag and whether Collapsarr made it. `Downmix.tla` runs both
pipelines with them.

| Variable | Code |
|---|---|
| `file`, `temp`, `orphans` | the content under the path; `mkstemp`'s file beside it; those that nobody will remove |
| `config` | the settings in `pipeline_kwargs` |
| `pc`, `job` | where the pipeline is; its probed streams, command and the original's summary |
| `proc` | the subprocess of the stage: not spawned, spawned, attached or refused, its exit, what it opened |
| `cancelled`, `killing` | `CancellationHandle._cancelled`; the process that `cancel` took under its lock and kills after it |
| `outcome` | what the run reported |
| `disturbed`, `spent` | history: another file came under the path since the run began; the bounds |

Spawn, attach and exit of each subprocess are steps of their own, and so are the
latch and the kill of a cancel. ffmpeg that exits with 0 may have written all, a
truncated file, or one that lacks a stream. A failure is possible at each stage;
the expected ones clean up, any other exception passes through and leaves the
temp file where the code does. `Upgrade` is Sonarr or Radarr at any moment.

* `CancelKills`: when a cancel has returned, no registered subprocess runs, whether the cancel came before the spawn, between spawn and attach, or after.
* `NoStrayTemp`: no more temp files stay behind than runs died or raised.
* `Settled`: after a success neither pipeline finds anything left to do, so a scan does not remux a file for ever. It ties target detection, default choice and the command together.
* `ImplementsPromise`: the module implements `AtomicSwap`: a run replaces the file at most once, in one step, by itself plus tracks that were missing, and reports success exactly then. The content part is void if somebody else replaced the file meanwhile.
* `CancelEnds`: a cancelled run ends even if each subprocess hangs.

Run `downmix`: three files (two languages; a commentary; two default tracks),
three configurations, 2 runs, 1 crash, 1 upgrade. Two runs are one that leaves
something behind and one that meets it; files do not interact. Fairness: the
worker and the cancelling thread go on (weak fairness of `Spawn`, `Attach`,
`Work`, `Kill`, and of a failing stage whose subprocess has returned). ffmpeg
has none. Deadlock checking is off: with its jobs used up, an idle file stays.

### Proved: `DownmixProofs`

For every library, configuration, tolerance, list of languages and bound
(`DownmixAssumption`, `LanguagesAssumption`) all five safety properties, the
refinement included. `IInv` is about processes and temp files: `FrameInv` (the
types of what is counted and compared), `ProcInv` (a process that runs after a
cancel is attached and that cancel has hold of it; one refused is dead) and
`TempInv` (the sum of `NoStrayTemp`, also in the two stages before a run has a
temp file of its own, and none past the swap). It gives `CancelKills` and
`NoStrayTemp`.

`TypeOK`, `Settled` and `ImplementsPromise` are about content, and need to know
what a run knows of its file:

* `ReadInv`: from its temp file on a run has one, and each subprocess reads a media file, the last one the temp file;
* `RunInv`: as long as nobody else has touched the file, the command is the one that the file asks for, the temp file is what some ffmpeg makes of it, the summary is that of the file, and what is about to be swapped in has passed `Valid`. Nothing of this can be had from the types: it is why a swap may trust a probe that was made two subprocesses earlier.

`DoneIsDone` then is one step, from `AudioTracksProofs`: what the pipeline
decides for the remuxed file is to do nothing. `EnginePromise` maps the swap to
`AtomicSwap`'s replacement and everything else to a stutter, an upgrade or the
end of a run; `ValidIsWhole` says that a file which passed the check lost no
track, whatever ffmpeg left out.

### Proved: `AudioTracksProofs`

The pure rules, for every file and all settings, without a state machine:

* `DetectionIsExact`: the recursive detection returns each qualifying pair of language and target, once, and nothing else;
* `DownmixIsIdempotent`: in the file that the remux makes, detection finds nothing. A new track has just the channels of its tier, so that tier is not wanted again; and a smaller tier that it could serve, the track it was made from could serve too;
* `DefaultIsIdempotent`: after the default flag has been moved to the resolved track, the same preference resolves to that track, and it alone has the flag.

Detection is a recursive function over the pairs of languages and targets. Its
proof is by induction with a set in place of a predicate (`SetInduction`, from
the least element of a set of naturals). `CancelEnds` is model-checked.

## `SelfUpdate`: apply, helper, health gate

| Variable | Code |
|---|---|
| `guard` | the row of `self_update_state`: in progress, phase, previous version |
| `pause`, `manual` | `auto_processing_paused` with its stash; history: what the user set |
| `dirs` | the install directory and its backup, staged and quarantined siblings; for pipx only the live one |
| `server`, `version` | down, a stage of the lifespan, or up; the version that runs |
| `pc`, `flow`, `listed` | each request: how far, which flow, the jobs it cancelled |
| `helper` | the detached `finish-update` process of each request |
| `jobs`, `killing` | the queue, as far as the drain sees it; "skipped" is a cancelled job whose file the trigger passed over |
| `method`, `raced`, `spent` | pipx or native; history: two requests passed the guard; the bounds |

Reading and taking the guard are two steps, as in `begin`. Stashing the pause,
listing and cancelling, draining, each requeue, fetch, extraction, spawn, phase
write and restart are steps; each rename of a swap is one. `ApplyFails` is the
except clause and what it undoes. `Crash` kills the server and `HelperDies` the
helper anywhere. `Start` is whoever starts the server again. `Requeue` is
`trigger_file` for one cancelled job. Its result is ignored
(`self_update/apply.py:511`), so it has three outcomes: the file is queued; the
trigger is a duplicate; or it queues nothing, because the file cannot be probed
or needs nothing any more. `Retrigger` is any other trigger of the file. The
user's own hard cancel of a running job is not modelled here (`Downmix` has it).

* `DrainHolds`: from the drain to the restart only force-started jobs run, and no job that the flow cancelled is triggered while its killed run still counts as active, which would make the trigger a duplicate. It does not say that every cancelled job is queued again: that is not so (see Observations).
* `Recoverable`: the install directory is complete, or its backup is, between two renames or after a death there.
* `RolledBackIsOld`: the status `rolled_back` means that the old version is installed.
* `PauseSettled`: with no request past the guard, Auto-Processing is paused exactly if the user paused it.
* `GuardReleased`: no failure leaves the guard taken, nor does a death once `awaiting_health` is written.

Run `self_update`: both methods, 2 requests, 1 job, 3 applies, 1 death. A third
apply meets what the first two left (backup, stash, phase). Fairness: a request
and a helper that began go on, and a server that is down is started again if its
directory is complete (a supervisor, or the operator); without that nothing
after a death could be promised. Deadlock checking is off: with a swap cut in two
nothing can be started, which `Recoverable` describes.

### Proved: `SelfUpdateProofs`

For any requests, jobs and number of deaths (`SelfUpdateAssumption`), all four
safety properties, from `IInv`: `TypeOK`; `ThreadInv` (requests live in a server
of the old version, helpers wait for their request); `PauseInv` (the pause holds
as long as a request answers for it, and the stash is the user's setting until
restored); `DrainInv` (`DrainHolds`, with what is still being killed);
`TreeInv` (what each stage of a request, helper or boot knows of the four
directories); `PhaseInv` (what the guard says of a failed update is so). The
lemma `Turns` first says who takes a step.

`GuardIsAnswered` is the safety half of `GuardReleased`: as long as requests do
not race, the in-progress guard is set only while a request that will clear it
or restart is at work, or while the server is down or booting with
`awaiting_health` written, so that the gate of this boot resolves it; or a death
has cut the update before that phase, which no boot repairs (see Observations).
`GuardReleased` itself is model-checked.

## `Recovery`: backups, restores, migrations

| Variable | Code |
|---|---|
| `db`, `journal` | the database file: content, revision, whether whole, torn, midway through a migration, foreign, or a part of a file that SQLite cannot read; the rollback journal beside it |
| `part`, `staged`, `marker` | the two staging files, `restore.json` |
| `archives`, `clock` | the archives with type, time and database |
| `program`, `head` | down, a stage of the boot, or up; the revisions this build knows |
| `pc`, `source`, `exiting` | each restore request; the delayed exit |
| `raced`, `replaced`, `discarded`, `spent` | history: two requests staged at once, the databases that restores replaced, the boot's archives that were deleted or pruned; the bounds |

Each file operation of the request and of the boot-time swap is a step, with a
death possible after it. A transaction that is cut leaves a torn file and its
hot journal, which the next open rolls back. A backup runs under the module's
lock and is one step, retention included.

* `GatedSwap`: only a complete copy of a database of this program, checked by the gate, is ever put in place (one request at a time).
* `Reversible`: every database that a restore replaced, whole or torn, is in an archive of type "restore" byte for byte, however often the boot died and repeated the swap; only the user deletes such an archive. For a whole database this makes the restore reversible. A torn one is archived without its journal, which the swap then removes: what is archived cannot be rolled back to the last commit (see Observations).
* `PreMigrationKept`: a database cut in mid-migration has its earlier state in an archive, unless that was deleted or pruned.
* `JournalIsItsOwn`: a journal is rolled back only into the database it belongs to, if all builds that boot know the restored revision.
* `RecoveryPoint`: once there is an archive, there always is one; and a backup costs another only if that has the same type and second, or is older than the retention with enough newer ones of its type left.
* `RestoreSettles`: a marker is consumed; no restore blocks the boot for good, as long as no two requests stage at once.

A partial copy is one that a request had not finished when another promoted it,
or the program died. `DecideRaises` is the boot that reads one: the header check
passes, the revision check raises SQLite's `DatabaseError`, which nothing
catches (`engine.py:156`, `migrations/__init__.py:96`), and the marker stays. It
needs two overlapping requests, which `raced` records. A damaged database is
otherwise used like a whole one: at which page SQLite notices is not modelled.

Run `recovery`: 2 requests, uploads of an old backup and of a foreign database,
2 builds, 4 points in time (retention 1, interval 2), at most 1 transaction, 2
user backups or deletions, 2 restores and 1 fault, and 5 of these in all, a
restore counted twice (`MCEffort`): one restore with three more, or two with one.
Two backups of the user and those of the boots are enough for the
pruning to remove an archive at, before and after the cutoff, and for one to
take the name of another; the mutant of `RecoveryPoint` moves the cutoff by one.
One fault is enough to die between any two operations; the boot after it is a
second run of the same code. The constraint `Scope` cuts off only what happens
from outside, and no fair action spends any of it. Fairness: a boot goes on, and
the delayed exit happens. When the clock has run out, boots go on until one
would need a new second for its archive (`OutOfTime`), and `RestoreSettles`
excuses just that. Deadlock checking is off: the last tick is the end.

### Proved: `RecoveryProofs`

For any requests, uploads (none cut in mid-migration: `UploadAssumption`),
builds, interval and retention (`RecoveryAssumption`), all five safety
properties, `RecoveryPoint` as an action property. `IInv` adds `BootInv` (who writes when,
and that a boot that restores has its marker until it removes it), `ArchiveInv`
(a boot's archive takes the place of none, because the clock moved), `JournalInv`
(whose journal it is), `GateInv` (one writer; what passed is what is promoted),
`ReplacedInv` and `MidwayInv` (which archive has what was there before).
`RestoreIsReversible` is about every database that is replaced; none is left out
of `replaced`. `RecoveryPointKept` includes the pruning: `PruningLeavesTheNewest`
shows that what is pruned leaves enough newer archives of its type, from the
finiteness of the archives.
`MarkerIsHandled` is the safety half of `RestoreSettles`: a server beside a
marker is about to exit, and no boot inspects, backs up, migrates or serves
beside one. `RestoreSettles` itself is model-checked.

## `Library`: the mirror of an Arr instance

| Variable | Code |
|---|---|
| `server`, `catalog`, `posted` | the instance row's server, what each server holds, webhooks under way |
| `row` | `library_nodes`: hidden, `tracked_override` |
| `work` | what each scan, webhook and toggle has fetched and read but not written |
| `want` | history: the values that the last toggle over each node set, with those of the toggles that overlapped it |
| `overtaken` | history: what other toggles wrote since a toggle read |

A session reads in one step and commits in another; commits are applied to the
columns the session changed. An insert that finds the key taken fails
(`IntegrityError`) and gives the session up. `POST /library/tracked` is served by
any number of threads and takes no lock (`library/routes.py:274`), so toggles
overlap like everything else: `StartToggle` reads, `SetTracked` writes the flags
that had another value when they were read.

* `TrackedAsToggled`: every node resolves to what the last toggle over it said, or one that overlapped that toggle, through new children, hidden and returning nodes, scans and webhooks. It does not say that of two overlapping toggles the last to commit prevails: it may not (see Observations).
* `MirrorSettles`: once catalog and instance stay, the tree shows the catalog, whatever stale catalog was written meanwhile.

Run `library`: a series with two episodes, 1 scan, 1 webhook, 2 toggle threads, at
most 1 import, 1 removal, 2 toggles, 1 change of the instance, and 4 of these in
all (`MCEffort`, by the constraint `Scope`, which no fair action is subject to).
Two toggles are the least to overlap and for one to undo the other; a season is
one more parent, and the proof is for all trees of three levels. Fairness: scans
recur for ever on the scheduler's thread, and sessions that have read go on.

`LibraryProofs` proves `TrackedIsAsToggled` for every tree of up to three levels
(`DepthAssumption`: series, season, episode), any number of togglers, any other threads and servers
(`LibraryAssumption`). `IInv`: `TypeOK`, `CatalogInv` (catalogs are closed under
parents), `WorkInv` (so is what was fetched, and rows that were read exist),
`ToggleInv` (what a toggle has read is so still, but for what other toggles wrote
since, which is in `overtaken`) and `WantInv` (a flag is what one of the last
toggles said; without one the node wants what its parent wants). `ScanIsExact` proves the step that `MirrorSettles` rests on:
a scan that commits over the rows it read makes the tree exactly the catalog it
fetched, whatever earlier scans and webhooks left hidden, shown or missing.
`MirrorSettles` itself, that such a scan comes and nothing later undoes it, is
model-checked.

## `Wanted`: the status rows of a file

| Variable | Code |
|---|---|
| `file`, `posted`, `tracked` | the audio of the file on disk; a webhook on its way; what the library says of it |
| `row` | `tracked_media_target_statuses` |
| `call` | `enqueue_file` in the scan, webhook and manual thread: the streams probed, the languages allowed, the rows as read |
| `job` | the one job of the file that is queued or runs |
| `ended` | each worker: free, running the job, or what it has still to record of one that ended; dead of an error |
| `recent`, `count` | the deduplication window; bounds |

The probe, the reading of the rows and the commit of `upsert_tracked_media` are
three steps. The ORM writes only a status that differs from the one it read
(`Written`), and a commit that inserts a row which is there by then raises
(`IntegrityError`) and ends the call. The status of a job is final before its
side effects run, so the file's next job may be claimed by another worker, or
forced by Process Now, meanwhile: `Claim` needs a free worker and no more. The
mark of each added track is a commit of its own. `RecorderRaises` is an error of
either recorder, which ends the thread (`JobQueue` has that in detail).

* `RowsSettle`: once nobody replaces the file, the rows of the languages it has say what it has.
* `WantedIsServed`: as long as a worker is left, a tracked file ends with every target it is to have, and no language that it has keeps it on the Wanted page. A language that it no longer has may do so for ever (see Observations), so this does not say that the file leaves the page.

Run `wanted`: an allowed and a filtered language, three contents, two workers, at
most 2 upgrades, 1 manual trigger, 1 failure (of the job or of a recorder), 1
toggle, and 2 of these in all (`MCEffort`, by `Scope`, which no fair action is
subject to). Each is one way for a row to be written from an old probe, and two
are a stale write and what it was overtaken by. Fairness: scans recur, a call
that has probed returns, free workers claim and go on, the window passes.
Nothing makes a webhook or request arrive.

`WantedProofs` proves, for any languages, contents, workers and bounds
(`WantedAssumption`: every file has an audio stream), the types of the rows,
calls and jobs, and that stale data does no harm by itself. `Undisturbed` says
that what each trigger has probed, the job was given and the ended jobs are about
to record is true of the file, up to tracks that a job has added since, and that
a PROCESSED row is true. `OnlyUpgradesDisturb`: of all steps only an upgrade by
the Arr server ends that; no late upsert, record or run does, and no track goes.
After an upgrade it may be false, and `RowsSettle` (model-checked) says that the
rows become right again.

## `Notices`: health banner and update notice

Ticks of the background thread and of a recheck ask the world in one step and
write in another; the user dismisses; instances are deleted; the channel changes.

* `BannerSettles`: once nothing changes, the banner is right about every check that exists.
* `NoticeSettles`: the notice ends up naming the channel's latest release, and the self-update would install the latest stable one or nothing.

Run `notices`: 1 instance check, 2 tickers, 1 change each. Two tickers are the
least for a late write. Fairness: the loop ticks for ever, and its checks run
through and GitHub answers again and again (strong fairness: in between they
may fail), and answers are written. Deadlock checking is off in `library`,
`wanted` and `notices` too: with its bounds used up the outside world stops.

## Observations

Met while modelling; the code does these, and a property excuses or leaves them
out where it says so.

* A run sets its terminal status first and writes the row that the window reads afterwards: a trigger in between queues the file again (`scheduler.py:923`). A failed file is retried at once, a done one is probed again for nothing.
* A cancel between the insert into the map and the PENDING row deletes no row, and the enqueuer then writes one for a job that is gone: the next boot revives it.
* The comments at both scheduler locks say that they never nest. Every top-up nests them, always in the same order, so there is no deadlock.
* `bump_to_front` changes the priority in memory only; a restart forgets it.
* The self-update guard is read and set in two statements (`self_update/service.py:90`). Two requests can both pass; `raced` records it, and the properties of `SelfUpdate` excuse it.
* A death between taking the guard and `awaiting_health` leaves it taken for ever: no boot clears it in the earlier phases. `GuardReleased` excuses it.
* `CONTEXT.md:113-116` says that the jobs which an update cancels are requeued. The loop ignores what `trigger_file` returns (`self_update/apply.py:511`), and that is nothing for a file that cannot be probed just then, has become a duplicate or qualifies for nothing (`jobs/scheduler.py:542-586`): such a job is lost without a word. When a drain times out none is triggered again (506), and default-audio jobs come back as downmix jobs (512).
* `restore_from_backup` (`self_update/native.py:450`) has no caller.
* Two overlapping restores share `.restore_staged.db.part`: one can promote what the other still writes (`raced` in `Recovery`). If that is cut behind SQLite's header, the check at the next boot raises `DatabaseError` instead of refusing it (`restore/engine.py:156`), the marker stays, and so does every later boot: `engine.py:36-39` says that a bad staged file is given up.
* `restore/engine.py:14-15` promises that a restore is reversible. The delayed exit (`restore/routes.py:100`) may cut a commit; the safety backup is then a copy of the torn file without its journal (206-223), and the journal is removed: the last commit's state is not in the archive.
* A boot that died between the swap and the removal of the side files, followed by one of an older build that does not know the restored revision: the restore is given up, and the new database is opened beside the old journal (the condition in `JournalIsItsOwn`).
* Two archives of one type and one second have one name: the later overwrites the earlier.
* Rows of languages that a file no longer has are never written again (`media/service.py:234`). One that says MISSING keeps the file on the Wanted page for ever after an upgrade dropped the language, although nothing can be made for it; `media/service.py:314` and `CONTEXT.md:135-136` define Wanted as files that miss a target. `RowsSettle` and `WantedIsServed` are about the languages that the file has. The health row of a deleted instance stays too, and `BannerSettles` leaves it out.
* Of two toggles of a node that overlap, the later commit may be the one that loses: it skips every flag that had its value when it was read, and keeps what the other wrote in between (`library/service.py:608`, `routes.py:274`).
* An instance created after the highest id was deleted gets its id, and with it the nodes left behind and their Tracked flags, although `library/models.py:92` has them go with the instance (no foreign keys are enforced). `TrackedAsToggled` counts those flags as the user's.
* A failed update check writes the new channel beside the old channel's tag (`update_check/service.py:190`).
* When the winner of the automatic default track is default already, no `-disposition` is emitted, and ffmpeg gives an added track that of its source: made from the default track, it is default too (`default_audio.py:139`).
* An upgrade between probe and ffmpeg makes ffmpeg apply the old command to the new file: a track may be re-encoded as if it were the one probed. `AtomicSwap` is void there; validation counts only.

## Only model-checked

Every safety property of a passing run is a theorem, the refinements
included. The liveness properties stay with TLC, because fairness and ENABLED
are out of the provers' reach. For most of them the part that a state or a step
can show is proved:

| Property | Proved part |
|---|---|
| `PendingIsServed`, `ShutdownTerminates` | `NoWakeUpIsLost` |
| `CallsReturn` | `NoDeadlockHolds` |
| `CancelEnds` | `CancelIsComplete`: whatever runs after a cancel is being killed |
| `GuardReleased` | `GuardIsAnswered` |
| `RestoreSettles` | `MarkerIsHandled` |
| `MirrorSettles` | `ScanIsExact` |
| `RowsSettle`, `WantedIsServed` | `OnlyUpgradesDisturb` |
| `BannerSettles`, `NoticeSettles` | none: a late answer may be written any time, and only the next one mends it |

`PoolLivesOn` is violated. Theorems whose proofs rest on the definitions alone
(`AudioTracksProofs`) have no property of a run; `downmix` evaluates the same
operators on its files.

## Not modelled

* FFmpeg download, Plex sync, notifications, authentication, the web frontend: HTTP, rendering, or caches that the next sync rebuilds in one transaction.
* Parsing and wording: ffprobe JSON, webhook payloads, path mappings, titles, text columns of the history, checksums, archive layout, permission bits. Where one can fail, the failure is modelled.
* Rehydration row by row: no thread runs yet, and a second boot repeats it. `shutdown` with a join timeout: no caller passes one. `wait_idle`: tests only.
* In `JobScheduler`: what the probe answers is a free choice (`Wanted` and `Downmix` have it); how a bulk default-audio request finds its files (`routes.py:542`): it is several requests of one caller; the log-once caches.
* `Wanted` has one enabled target; several targets are several independent rows of the same kind. `record_target_processed` reads and commits in one step there, and an error in the RUNNING record of a job, after which the file stays active, is left to `JobQueue`.
* Power loss with unsynced writes: a rename or write that returned is on disk.

## Plan

Done, in this order: `JobQueue`, `JobScheduler`, `Downmix`, `SelfUpdate`,
`Recovery`, `Library`, `Wanted`, `Notices`; the proofs of the first seven; the
content of `Downmix` (`AudioTracksProofs`, the refinement of `AtomicSwap`);
`JobLife`, implemented by both levels of the queue; the safety halves of the
liveness properties. Left:

1. The composition of `JobQueue` and `JobScheduler`, so that the hook of an
   ending job and `_cancel_one` are one module's actions. `JobLife` says that
   they agree on each job; not yet in which order a hook and a claim come.
2. Which writers of `Wanted` can still write an older status after an upgrade,
   as an invariant.
3. The same for `Notices`: which answer in flight is older than the row.
4. Restores under power loss, with directory entries and data apart.

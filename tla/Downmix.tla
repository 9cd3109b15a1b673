------------------------------ MODULE Downmix ------------------------------
(***************************************************************************)
(* One media file and the jobs run on it, one after another: the pipelines *)
(* of downmix/pipeline.py and default_audio_pipeline.py with their four    *)
(* subprocesses (ffprobe, ffmpeg, two more ffprobes), each run through the  *)
(* cancellable runner of cancellation.py, the temp file of remux.py and    *)
(* the validated swap of apply.py.  A second thread cancels, the program   *)
(* may die between any two steps, and Sonarr or Radarr may put another     *)
(* file under the path at any time.                                        *)
(***************************************************************************)
EXTENDS AudioTracks, Integers

CONSTANTS
    Library,      \* the media Sonarr or Radarr may put under the path
    Configs,      \* the configurations to consider
    Tolerance,    \* DEFAULT_DURATION_TOLERANCE_SECONDS, in ticks
    MaxRuns,      \* bound on the jobs run
    MaxUpgrades,  \* bound on the files put under the path
    MaxCrashes    \* bound on the crashes of the program

\* A media file: its audio tracks, the number of its other streams (video,
\* subtitles), and its container duration.
MediaFile == [audio : Seq(AudioTrack), other : Nat, duration : Nat]

Config == [settings : DownmixSettings, preference : DefaultAudioPreference,
           autoSetDefault : BOOLEAN]

ASSUME DownmixAssumption ==
    /\ Library \subseteq MediaFile
    /\ Configs \subseteq Config
    /\ Tolerance \in Nat
    /\ MaxRuns \in Nat /\ MaxUpgrades \in Nat /\ MaxCrashes \in Nat

NoFile == [absent |-> TRUE]

\* The stages that wait for a subprocess, in the order of the pipeline.
Stages == {"probe", "remux", "probe_original", "probe_temp"}

JobKinds == {"downmix", "set_default_audio"}

VARIABLES
    file,       \* the content under the path
    temp,       \* the temp file beside it, or NoFile
    orphans,    \* temp files of earlier runs that nobody will remove
    config,     \* the settings the file's jobs run with
    pc,         \* "idle", a stage, "reserve", "swap" or "report"
    job,        \* what the run knows: kind, probed streams, command, summary
    proc,       \* the subprocess of the stage: state, exit and what it reads
    cancelled,  \* CancellationHandle._cancelled of the running job
    killing,    \* the stage whose process a cancel has taken hold of
    outcome,    \* what the last run to end reported
    disturbed,  \* history: the path got another file since the run began
    spent       \* what is used of each bound, and the runs that raised

vars == <<file, temp, orphans, config, pc, job, proc, cancelled, killing,
          outcome, disturbed, spent>>

NoProcess == [state |-> "none", exit |-> "ok", input |-> NoFile]

Summary(f) == [duration |-> f.duration, streams |-> Len(f.audio) + f.other]

NoSummary == [duration |-> 0, streams |-> 0]

EmptyCommand == BuildRemuxCommand(<<>>, <<>>, NoTrack)

TypeOK ==
    /\ file \in MediaFile
    /\ temp \in MediaFile \cup {NoFile}
    /\ orphans \in Nat
    /\ config \in Configs
    /\ pc \in Stages \cup {"idle", "reserve", "swap", "report"}
    /\ job \in [kind : JobKinds, command : RemuxCommand,
                original : [duration : Nat, streams : Nat]]
    /\ proc \in [state : {"none", "spawned", "attached", "untracked"},
                 exit  : {"running", "ok", "failed"},
                 input : MediaFile \cup {NoFile}]
    /\ cancelled \in BOOLEAN
    /\ killing \in Stages \cup {"none"}
    /\ outcome \in {"none", "success", "nothing_to_do", "failed", "raised"}
    /\ disturbed \in BOOLEAN
    /\ spent \in [runs : 0..MaxRuns, upgrades : 0..MaxUpgrades,
                  crashes : 0..MaxCrashes, raised : Nat]

Init ==
    /\ file \in Library
    /\ temp = NoFile
    /\ orphans = 0
    /\ config \in Configs
    /\ pc = "idle"
    /\ job = [kind |-> "downmix", command |-> EmptyCommand, original |-> NoSummary]
    /\ proc = NoProcess
    /\ cancelled = FALSE
    /\ killing = "none"
    /\ outcome = "none"
    /\ disturbed = FALSE
    /\ spent = [runs |-> 0, upgrades |-> 0, crashes |-> 0, raised |-> 0]

-----------------------------------------------------------------------------
(* The run's frame *)

\* A worker starts the pipeline with a fresh cancellation handle; the process
\* an earlier cancel still holds is dead, so that its kill changes nothing.
Start(kind) ==
    /\ pc = "idle"
    /\ spent.runs < MaxRuns
    /\ spent' = [spent EXCEPT !.runs = @ + 1]
    /\ pc' = "probe"
    /\ job' = [kind |-> kind, command |-> EmptyCommand, original |-> NoSummary]
    /\ cancelled' = FALSE
    /\ killing' = "none"
    /\ outcome' = "none"
    /\ disturbed' = FALSE
    /\ UNCHANGED <<file, temp, orphans, config, proc>>

\* The pipeline returns (or raises) and the worker is done with the job.
Finish(result) ==
    /\ pc' = "idle"
    /\ outcome' = result
    /\ proc' = NoProcess

\* _remove_if_exists(temp)
RemoveTemp == temp' = NoFile

-----------------------------------------------------------------------------
(* The cancellable runner: spawn, attach, communicate, detach *)

\* ffprobe and ffmpeg open the file they are given as they start.
Spawn ==
    /\ pc \in Stages
    /\ proc.state = "none"
    /\ proc' = [state |-> "spawned", exit |-> "running",
                input |-> IF pc = "probe_temp" THEN temp ELSE file]
    /\ UNCHANGED <<file, temp, orphans, config, pc, job, cancelled, killing,
                   outcome, disturbed, spent>>

\* What ffmpeg may leave in the temp file and still exit with 0: all it was
\* asked for, a truncated file, or one that lacks a stream.
Remuxed(input, command) ==
    LET full == [input EXCEPT !.audio = RemuxedAudio(input.audio, command)]
    IN  {full, [full EXCEPT !.duration = 0],
         [full EXCEPT !.audio = SubSeq(@, 2, Len(@))]}

\* The subprocess ends by itself; a process that fails leaves a temp file of
\* which nothing is known, and nobody reads it.
Exits(code) ==
    /\ proc.state # "none"
    /\ proc.exit = "running"
    /\ proc' = [proc EXCEPT !.exit = code]
    /\ IF pc = "remux" /\ code = "ok"
       THEN /\ SourcesExist(proc.input.audio, job.command)
            /\ temp' \in Remuxed(proc.input, job.command)
       ELSE UNCHANGED temp
    /\ UNCHANGED <<file, orphans, config, pc, job, cancelled, killing, outcome,
                   disturbed, spent>>

\* Slip: attach does not look at the latch.
AttachUnlatched ==
    /\ proc.state = "spawned"
    /\ proc' = [proc EXCEPT !.state = "attached"]
    /\ UNCHANGED <<file, temp, orphans, config, pc, job, cancelled, killing,
                   outcome, disturbed, spent>>

\* CancellationHandle.attach: a process that comes after the cancel is killed
\* here, unless it has already exited, and is not tracked.
Attach ==
    /\ proc.state = "spawned"
    /\ proc' = IF cancelled
               THEN [proc EXCEPT !.state = "untracked",
                                 !.exit = IF @ = "running" THEN "failed" ELSE @]
               ELSE [proc EXCEPT !.state = "attached"]
    /\ UNCHANGED <<file, temp, orphans, config, pc, job, cancelled, killing,
                   outcome, disturbed, spent>>

\* communicate has returned: the process is reaped and detached.
Returned == proc.state \in {"attached", "untracked"} /\ proc.exit # "running"

-----------------------------------------------------------------------------
(* The stages *)

\* Slip: the temp file is left on the failure paths.
StageFailsUncleaned ==
    /\ pc \in Stages
    /\ \/ proc.state = "none"
       \/ Returned /\ (proc.exit = "failed" \/ pc # "remux")
       \/ proc.state = "attached" /\ proc.exit = "running"
    /\ Finish("failed")
    /\ UNCHANGED <<file, temp, orphans, config, job, cancelled, killing,
                   disturbed, spent>>

\* No ffmpeg binary, a non-zero exit, a timeout (the process is killed and
\* reaped before TimeoutExpired goes on) or ffprobe output that is not what it
\* should be: run_remux and apply_remux_result remove the temp file.
StageFails ==
    /\ pc \in Stages
    /\ \/ proc.state = "none"
       \/ Returned /\ proc.exit = "failed"
       \/ Returned /\ pc # "remux"
       \/ proc.state = "attached" /\ proc.exit = "running"
    /\ IF pc = "probe" THEN UNCHANGED temp ELSE RemoveTemp
    /\ Finish("failed")
    /\ UNCHANGED <<file, orphans, config, job, cancelled, killing, disturbed, spent>>

\* Any other exception (no permission to run the binary, output that cannot be
\* decoded, no room for the temp file, a rename the file system refuses) goes
\* through the pipeline; only apply_remux_result's probes remove the temp file.
Raises ==
    /\ \/ pc \in Stages /\ (proc.state = "none" \/ Returned)
       \/ pc \in {"reserve", "swap"}
    /\ IF pc \in {"probe_original", "probe_temp"} THEN RemoveTemp ELSE UNCHANGED temp
    /\ Finish("raised")
    /\ spent' = [spent EXCEPT !.raised = @ + 1]
    /\ UNCHANGED <<file, orphans, config, job, cancelled, killing, disturbed>>

\* The command each pipeline decides on from the probed streams; NoTrack and no
\* target mean that there is nothing to do.
Decide(kind, streams) ==
    LET targets == DetectQualifyingTargets(streams, config.settings)
        winner  == ResolveDefaultAudioStream(streams, config.preference)
    IN  CASE kind = "downmix" ->
               BuildRemuxCommand(streams, targets,
                   IF config.autoSetDefault
                   THEN ResolveDefaultAudioOutputIndex(streams, targets, config.preference)
                   ELSE NoTrack)
          [] kind = "set_default_audio" ->
               BuildRemuxCommand(streams, <<>>,
                   IF winner # NoTrack /\ ~AlreadyCorrect(streams, winner)
                   THEN winner ELSE NoTrack)

NothingToDo(kind, command) ==
    CASE kind = "downmix"           -> command.targets = <<>>
      [] kind = "set_default_audio" -> command.defaultIndex = NoTrack

Probed ==
    /\ pc = "probe"
    /\ Returned /\ proc.exit = "ok"
    /\ LET command == Decide(job.kind, proc.input.audio)
       IN  /\ job' = [job EXCEPT !.command = command]
           /\ IF NothingToDo(job.kind, command)
              THEN Finish("nothing_to_do")
              ELSE pc' = "reserve" /\ proc' = NoProcess /\ UNCHANGED outcome
    /\ UNCHANGED <<file, temp, orphans, config, cancelled, killing, disturbed, spent>>

\* run_remux: mkstemp in the file's own directory, under a name of its own.
Reserve ==
    /\ pc = "reserve"
    /\ temp' = [audio |-> <<>>, other |-> 0, duration |-> 0]
    /\ orphans' = IF temp = NoFile THEN orphans ELSE orphans + 1
    /\ pc' = "remux"
    /\ UNCHANGED <<file, config, job, proc, cancelled, killing, outcome,
                   disturbed, spent>>

RemuxDone ==
    /\ pc = "remux"
    /\ Returned /\ proc.exit = "ok"
    /\ pc' = "probe_original"
    /\ proc' = NoProcess
    /\ UNCHANGED <<file, temp, orphans, config, job, cancelled, killing, outcome,
                   disturbed, spent>>

OriginalProbed ==
    /\ pc = "probe_original"
    /\ Returned /\ proc.exit = "ok"
    /\ job' = [job EXCEPT !.original = Summary(proc.input)]
    /\ pc' = "probe_temp"
    /\ proc' = NoProcess
    /\ UNCHANGED <<file, temp, orphans, config, cancelled, killing, outcome,
                   disturbed, spent>>

\* Slip: the streams are counted and the duration is not compared.
ValidCountOnly(original, produced, added) ==
    produced.streams = original.streams + added

\* apply_remux_result's two checks.
Valid(original, produced, added) ==
    /\ original.duration - produced.duration \in -Tolerance..Tolerance
    /\ produced.streams = original.streams + added

TempProbed ==
    /\ pc = "probe_temp"
    /\ Returned /\ proc.exit = "ok"
    /\ IF Valid(job.original, Summary(proc.input), Len(job.command.targets))
       THEN pc' = "swap" /\ proc' = NoProcess /\ UNCHANGED <<temp, outcome>>
       ELSE RemoveTemp /\ Finish("failed")
    /\ UNCHANGED <<file, orphans, config, job, cancelled, killing, disturbed, spent>>

\* temp.rename(original)
Swap ==
    /\ pc = "swap"
    /\ file' = temp
    /\ RemoveTemp
    /\ pc' = "report"
    /\ UNCHANGED <<orphans, config, job, proc, cancelled, killing, outcome,
                   disturbed, spent>>

Report ==
    /\ pc = "report"
    /\ Finish("success")
    /\ UNCHANGED <<file, temp, orphans, config, job, cancelled, killing,
                   disturbed, spent>>

-----------------------------------------------------------------------------
(* The cancelling thread, the program's death, and the outside world *)

\* Slip: the cancel latches, and leaves the attached process alone.
CancelNext ==
    /\ pc # "idle"
    /\ ~cancelled
    /\ cancelled' = TRUE
    /\ UNCHANGED <<file, temp, orphans, config, pc, job, proc, killing, outcome,
                   disturbed, spent>>

\* CancellationHandle.cancel under its lock: latch, and take hold of the
\* attached process; the kill comes after the lock is released.
Cancel ==
    /\ pc # "idle"
    /\ ~cancelled
    /\ cancelled' = TRUE
    /\ killing' = IF proc.state = "attached" THEN pc ELSE "none"
    /\ UNCHANGED <<file, temp, orphans, config, pc, job, proc, outcome,
                   disturbed, spent>>

\* _terminate_process_tree: nothing happens to a process that has exited.
Kill ==
    /\ killing # "none"
    /\ killing' = "none"
    /\ proc' = IF pc = killing /\ proc.state = "attached" /\ proc.exit = "running"
               THEN [proc EXCEPT !.exit = "failed"]
               ELSE proc
    /\ UNCHANGED <<file, temp, orphans, config, pc, job, cancelled, outcome,
                   disturbed, spent>>

Crash ==
    /\ pc # "idle"
    /\ spent.crashes < MaxCrashes
    /\ spent' = [spent EXCEPT !.crashes = @ + 1]
    /\ pc' = "idle"
    /\ proc' = NoProcess
    /\ cancelled' = FALSE
    /\ killing' = "none"
    /\ UNCHANGED <<file, temp, orphans, config, job, outcome, disturbed>>

Upgrade(m) ==
    /\ spent.upgrades < MaxUpgrades
    /\ spent' = [spent EXCEPT !.upgrades = @ + 1]
    /\ file' = m
    /\ disturbed' = TRUE
    /\ UNCHANGED <<temp, orphans, config, pc, job, proc, cancelled, killing, outcome>>

-----------------------------------------------------------------------------

Work == Reserve \/ Probed \/ RemuxDone \/ OriginalProbed \/ TempProbed \/ Swap \/ Report

Next ==
    \/ \E kind \in JobKinds : Start(kind)
    \/ Spawn \/ Attach \/ StageFails \/ Raises \/ Work
    \/ \E code \in {"ok", "failed"} : Exits(code)
    \/ Cancel \/ Kill \/ Crash
    \/ \E m \in Library : Upgrade(m)

Spec == Init /\ [][Next]_vars

\* The worker thread and the cancelling thread go on; ffmpeg may take for ever.
FairSpec == Spec /\ WF_vars(Spawn) /\ WF_vars(Attach) /\ WF_vars(StageFails /\ Returned)
                 /\ WF_vars(Work) /\ WF_vars(Kill)

-----------------------------------------------------------------------------
(* Properties *)

\* Once a cancel has returned, no subprocess the runner has registered is still
\* running: one that was attached is killed, one spawned later is killed as it
\* attaches (cancellation.py:143-175).
CancelKills ==
    cancelled /\ killing = "none" /\ proc.state \in {"attached", "untracked"}
        => proc.exit # "running"

\* A run that ends leaves no temp file behind, except one that raised or died
\* (remux.py:32-33, apply.py:14-16).
NoStrayTemp ==
    orphans + (IF pc = "idle" /\ temp # NoFile THEN 1 ELSE 0)
        <= spent.crashes + spent.raised

\* A file that was just done is done: run again, either pipeline finds nothing
\* to do, so a scan does not remux the same file for ever.
Settled ==
    outcome = "success" /\ ~disturbed
        => NothingToDo(job.kind, Decide(job.kind, file.audio))

AnySettings == [enabled |-> DownmixTargets, allow |-> Languages]

\* Old with tracks added: each added track is one that was wanted and missing.
Additive(old, new) ==
    LET n == Len(old.audio)
        same(i) == [new.audio[i] EXCEPT !.isDefault = old.audio[i].isDefault]
                       = old.audio[i]
        added(i) == \E q \in QualifyingTarget :
                       /\ Qualifies(old.audio, AnySettings, q)
                       /\ new.audio[i].language = q.language
                       /\ new.audio[i].channels = TargetChannels[q.target]
    IN  /\ old.duration - new.duration \in -Tolerance..Tolerance
        /\ old.other = new.other
        /\ Len(new.audio) >= n
        /\ \A i \in 1..n : same(i)
        /\ \A i \in (n + 1)..Len(new.audio) : added(i)

\* The engine implements its promise: one atomic, additive replacement.
Promise == INSTANCE AtomicSwap WITH
    Files     <- MediaFile,
    Extends   <- Additive,
    phase     <- CASE pc = "idle" -> "idle" [] pc = "report" -> "replaced"
                   [] OTHER -> "running"

ImplementsPromise == Promise!Spec

\* A cancelled run ends even when every subprocess hangs (no timeout is needed).
CancelEnds == (pc # "idle" /\ cancelled) ~> (pc = "idle")
=============================================================================

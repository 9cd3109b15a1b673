--------------------------- MODULE DownmixProofs ---------------------------
(***************************************************************************)
(* Proofs about Downmix, for any library, settings, bounds and tolerance.  *)
(* IInv is the inductive invariant: its parts are the frame of a run, the  *)
(* subprocess of the stage and the temp files.  ReadInv and RunInv, which  *)
(* say what a run knows of its file, are proved beside it with the facts   *)
(* of AudioTracksProofs: they carry the types, Settled and the refinement  *)
(* of AtomicSwap.                                                          *)
(***************************************************************************)
EXTENDS Downmix, AudioTracksProofs, TLAPS

\* A subprocess that reads i.
Process(i) == [state : {"none", "spawned", "attached", "untracked"},
               exit  : {"running", "ok", "failed"},
               input : {i}]

\* The types of what the proofs count and compare.
FrameInv ==
    /\ orphans \in Nat
    /\ pc \in Stages \cup {"idle", "reserve", "swap", "report"}
    /\ \E i : proc \in Process(i)
    /\ cancelled \in BOOLEAN
    /\ killing \in Stages \cup {"none"}
    /\ spent \in [runs : 0..MaxRuns, upgrades : 0..MaxUpgrades,
                  crashes : 0..MaxCrashes, raised : Nat]

\* Only a stage has a subprocess.  One that runs after a cancel is attached, and
\* that cancel has hold of it; one that came too late to be tracked is dead.
ProcInv ==
    /\ pc \notin Stages => proc.state = "none"
    /\ proc.state = "untracked" => proc.exit # "running"
    /\ killing # "none" => cancelled
    /\ proc.state = "attached" /\ proc.exit = "running" /\ cancelled => killing = pc

\* A temp file that no run owns is one that an earlier run left; the run that is
\* past its swap has none.
TempInv ==
    /\ orphans + (IF pc \in {"idle", "probe", "reserve"} /\ temp # NoFile THEN 1 ELSE 0)
         <= spent.crashes + spent.raised
    /\ pc = "report" => temp = NoFile

IInv == FrameInv /\ ProcInv /\ TempInv

\* Decide, with the configuration as a parameter.
DecideFor(c, kind, streams) ==
    LET targets == DetectQualifyingTargets(streams, c.settings)
        winner  == ResolveDefaultAudioStream(streams, c.preference)
    IN  CASE kind = "downmix" ->
               BuildRemuxCommand(streams, targets,
                   IF c.autoSetDefault
                   THEN ResolveDefaultAudioOutputIndex(streams, targets, c.preference)
                   ELSE NoTrack)
          [] kind = "set_default_audio" ->
               BuildRemuxCommand(streams, <<>>,
                   IF winner # NoTrack /\ ~AlreadyCorrect(streams, winner)
                   THEN winner ELSE NoTrack)

\* A run from its temp file on has one, and every process reads a media file:
\* the temp file in the last stage, the path before it.
ReadInv ==
    /\ pc \in {"remux", "probe_original", "probe_temp", "swap"} => temp \in MediaFile
    /\ proc.state # "none" => proc.input \in MediaFile
    /\ proc.state # "none" /\ pc = "probe_temp" => proc.input = temp

\* The temp file has what ffmpeg made.
Produced ==
    \/ pc \in {"probe_original", "probe_temp", "swap"}
    \/ pc = "remux" /\ proc.state # "none" /\ proc.exit = "ok"

\* What a run knows of a file that nobody else has touched: its command is the
\* one the file asks for, its temp file is a remux of that file, its summary is
\* that file's, and a temp file about to be swapped in has passed the checks.
RunInv ==
    /\ pc # "idle" => outcome = "none"
    /\ ~disturbed =>
         /\ proc.state # "none" /\ pc # "probe_temp" => proc.input = file
         /\ pc \in {"reserve", "remux", "probe_original", "probe_temp", "swap"} =>
              /\ job.command = DecideFor(config, job.kind, file.audio)
              /\ ~NothingToDo(job.kind, job.command)
         /\ Produced => temp \in Remuxed(file, job.command)
         /\ pc \in {"probe_temp", "swap"} => job.original = Summary(file)
         /\ pc = "swap" => Valid(job.original, Summary(temp), Len(job.command.targets))
         /\ pc = "report" \/ outcome = "success" =>
              NothingToDo(job.kind, DecideFor(config, job.kind, file.audio))

LEMMA InitInv == Init => IInv
<1> SUFFICES ASSUME Init PROVE IInv
  OBVIOUS
<1>1. proc = [state |-> "none", exit |-> "ok", input |-> NoFile]
  BY DEF Init, NoProcess
<1>2. spent \in [runs : 0..MaxRuns, upgrades : 0..MaxUpgrades, crashes : 0..MaxCrashes,
                raised : Nat] /\ spent.crashes = 0 /\ spent.raised = 0
  BY DownmixAssumption DEF Init
<1>3. FrameInv
  <2>1. proc \in Process(NoFile)
    BY <1>1 DEF Process
  <2>2. QED
    BY <1>2, <2>1 DEF Init, FrameInv
<1>4. ProcInv /\ TempInv
  BY <1>1, <1>2 DEF Init, ProcInv, TempInv
<1>5. QED
  BY <1>3, <1>4 DEF IInv

-----------------------------------------------------------------------------
\* A run that ends has no subprocess left.
LEMMA FinishShape ==
    ASSUME NEW result, Finish(result)
    PROVE  pc' = "idle" /\ proc'.state = "none" /\ proc'.exit = "ok"
           /\ proc' = [state |-> "none", exit |-> "ok", input |-> NoFile]
BY DEF Finish, NoProcess

\* What a step of the pipeline, which ends a stage or the run, does to the frame.
LEMMA StageSteps ==
    ASSUME IInv, StageFails \/ Raises \/ Work
    PROVE  /\ pc' \in {"idle", "reserve", "remux", "probe_original", "probe_temp", "swap",
                       "report"}
           /\ proc' = [state |-> "none", exit |-> "ok", input |-> NoFile]
                \/ (proc' = proc /\ proc.state = "none")
           /\ UNCHANGED <<cancelled, killing>>
           /\ UNCHANGED spent \/ (Raises /\ spent' = [spent EXCEPT !.raised = @ + 1])
           /\ UNCHANGED orphans
                \/ (Reserve /\ orphans' = IF temp = NoFile THEN orphans ELSE orphans + 1)
<1>1. ASSUME StageFails \/ Raises
      PROVE  /\ proc' = [state |-> "none", exit |-> "ok", input |-> NoFile] /\ pc' = "idle"
             /\ UNCHANGED <<cancelled, killing, orphans>>
             /\ UNCHANGED spent \/ (Raises /\ spent' = [spent EXCEPT !.raised = @ + 1])
  BY <1>1, FinishShape DEF StageFails, Raises
<1>2. ASSUME Probed \/ RemuxDone \/ OriginalProbed \/ TempProbed \/ Report
      PROVE  /\ proc' = [state |-> "none", exit |-> "ok", input |-> NoFile]
             /\ pc' \in {"idle", "reserve", "probe_original", "probe_temp", "swap"}
             /\ UNCHANGED <<cancelled, killing, orphans, spent>>
  BY <1>2, FinishShape DEF Probed, RemuxDone, OriginalProbed, TempProbed, Report, NoProcess
<1>3. ASSUME Reserve \/ Swap
      PROVE  /\ proc' = proc /\ proc.state = "none" /\ pc' \in {"remux", "report"}
             /\ UNCHANGED <<cancelled, killing, spent>>
             /\ UNCHANGED orphans
                \/ (Reserve /\ orphans' = IF temp = NoFile THEN orphans ELSE orphans + 1)
  BY <1>3 DEF Reserve, Swap, IInv, ProcInv, Stages
<1>4. QED
  BY <1>1, <1>2, <1>3 DEF Work

LEMMA FrameStep == IInv /\ [Next]_vars => FrameInv'
<1> SUFFICES ASSUME IInv, [Next]_vars PROVE FrameInv'
  OBVIOUS
<1>1. FrameInv
  BY DEF IInv
<1>2. CASE StageFails \/ Raises \/ Work
  <2>1. [state |-> "none", exit |-> "ok", input |-> NoFile] \in Process(NoFile)
    BY DEF Process
  <2>2. QED
    BY <1>1, <1>2, <2>1, StageSteps DEF FrameInv, Stages
<1>3. ASSUME NEW kind \in JobKinds, Start(kind) PROVE FrameInv'
  <2>1. spent' \in [runs : 0..MaxRuns, upgrades : 0..MaxUpgrades,
                    crashes : 0..MaxCrashes, raised : Nat]
    BY <1>1, <1>3, DownmixAssumption DEF Start, FrameInv
  <2>2. UNCHANGED <<orphans, proc>> /\ pc' = "probe" /\ cancelled' = FALSE /\ killing' = "none"
    BY <1>3 DEF Start
  <2>3. QED
    BY <1>1, <2>1, <2>2 DEF FrameInv, Stages
<1>4. CASE Spawn \/ Attach \/ Cancel \/ Kill \/ \E code \in {"ok", "failed"} : Exits(code)
  <2>1. UNCHANGED <<orphans, pc, spent>>
    BY <1>4 DEF Spawn, Attach, Cancel, Kill, Exits
  <2>2. cancelled' \in BOOLEAN /\ killing' \in Stages \cup {"none"}
    BY <1>1, <1>4 DEF Spawn, Attach, Cancel, Kill, Exits, FrameInv, ProcInv, IInv
  <2>3. \E i : proc' \in Process(i)
    <3>1. PICK i : proc \in Process(i)
      BY <1>1 DEF FrameInv
    <3>2. CASE Attach
      BY <3>1, <3>2 DEF Attach, Process
    <3>3. CASE Spawn
      BY <3>3 DEF Spawn, Process
    <3>4. CASE Kill \/ Cancel \/ \E code \in {"ok", "failed"} : Exits(code)
      BY <3>1, <3>4 DEF Kill, Cancel, Exits, Process
    <3>5. QED
      BY <1>4, <3>2, <3>3, <3>4
  <2>4. QED
    BY <1>1, <2>1, <2>2, <2>3 DEF FrameInv
<1>5. CASE Crash \/ \E m \in Library : Upgrade(m)
  <2>1. spent' \in [runs : 0..MaxRuns, upgrades : 0..MaxUpgrades,
                    crashes : 0..MaxCrashes, raised : Nat]
    BY <1>1, <1>5, DownmixAssumption DEF Crash, Upgrade, FrameInv
  <2>2. /\ UNCHANGED orphans /\ pc' \in {pc, "idle"} /\ cancelled' \in {cancelled, FALSE}
        /\ killing' \in {killing, "none"}
        /\ proc' = proc \/ proc' = [state |-> "none", exit |-> "ok", input |-> NoFile]
    BY <1>5 DEF Crash, Upgrade, NoProcess
  <2>3. [state |-> "none", exit |-> "ok", input |-> NoFile] \in Process(NoFile)
    BY DEF Process
  <2>4. QED
    BY <1>1, <2>1, <2>2, <2>3 DEF FrameInv
<1>6. CASE UNCHANGED vars
  BY <1>1, <1>6 DEF vars, FrameInv
<1>7. QED
  BY <1>2, <1>3, <1>4, <1>5, <1>6 DEF Next

LEMMA ProcStep == IInv /\ [Next]_vars => ProcInv'
<1> SUFFICES ASSUME IInv, [Next]_vars PROVE ProcInv'
  OBVIOUS
<1>1. FrameInv /\ ProcInv
  BY DEF IInv
<1>2. CASE StageFails \/ Raises \/ Work
  BY <1>1, <1>2, StageSteps DEF ProcInv, FrameInv
<1>3. ASSUME NEW kind \in JobKinds, Start(kind) PROVE ProcInv'
  BY <1>1, <1>3 DEF Start, ProcInv, FrameInv, Stages
<1>4. CASE Spawn
  BY <1>1, <1>4 DEF Spawn, ProcInv
<1>5. CASE Attach
  BY <1>1, <1>5 DEF Attach, ProcInv, FrameInv
<1>6. CASE Cancel
  BY <1>1, <1>6 DEF Cancel, ProcInv, FrameInv
<1>7. CASE Kill
  BY <1>1, <1>7 DEF Kill, ProcInv, FrameInv
<1>8. ASSUME NEW code \in {"ok", "failed"}, Exits(code) PROVE ProcInv'
  BY <1>1, <1>8 DEF Exits, ProcInv, FrameInv
<1>9. CASE Crash \/ \E m \in Library : Upgrade(m)
  BY <1>1, <1>9 DEF Crash, Upgrade, NoProcess, ProcInv
<1>10. CASE UNCHANGED vars
  BY <1>1, <1>10 DEF vars, ProcInv
<1>11. QED
  BY <1>2, <1>3, <1>4, <1>5, <1>6, <1>7, <1>8, <1>9, <1>10 DEF Next

LEMMA TempStep == IInv /\ [Next]_vars => TempInv'
<1> SUFFICES ASSUME IInv, [Next]_vars PROVE TempInv'
  OBVIOUS
<1>1. FrameInv /\ TempInv
  BY DEF IInv
<1>2. /\ orphans \in Nat /\ spent.crashes \in Nat /\ spent.raised \in Nat
      /\ orphans <= spent.crashes + spent.raised
  BY <1>1, DownmixAssumption DEF FrameInv, TempInv
<1>3. CASE StageFails
  BY <1>1, <1>2, <1>3, FinishShape DEF StageFails, RemoveTemp, Stages, TempInv
<1>4. CASE Raises
  <2>1. spent'.crashes = spent.crashes /\ spent'.raised = spent.raised + 1
    BY <1>1, <1>4 DEF Raises, FrameInv
  <2>2. pc' = "idle" /\ UNCHANGED orphans
    BY <1>4, FinishShape DEF Raises
  <2>3. QED
    BY <1>2, <2>1, <2>2 DEF TempInv
<1>5. CASE Reserve
  BY <1>1, <1>2, <1>5 DEF Reserve, TempInv
<1>6. CASE Probed
  BY <1>1, <1>2, <1>6, FinishShape DEF Probed, TempInv
<1>7. CASE RemuxDone \/ OriginalProbed
  BY <1>1, <1>2, <1>7 DEF RemuxDone, OriginalProbed, TempInv
<1>8. CASE TempProbed
  BY <1>1, <1>2, <1>8, FinishShape DEF TempProbed, RemoveTemp, TempInv
<1>9. CASE Swap \/ Report
  BY <1>1, <1>2, <1>9, FinishShape DEF Swap, Report, RemoveTemp, TempInv
<1>10. ASSUME NEW kind \in JobKinds, Start(kind) PROVE TempInv'
  BY <1>1, <1>2, <1>10 DEF Start, TempInv, FrameInv
<1>11. ASSUME NEW code \in {"ok", "failed"}, Exits(code) PROVE TempInv'
  BY <1>1, <1>2, <1>11 DEF Exits, TempInv, IInv, ProcInv, Stages
<1>12. CASE Crash
  <2>1. spent'.crashes = spent.crashes + 1 /\ spent'.raised = spent.raised
    BY <1>1, <1>12 DEF Crash, FrameInv
  <2>2. pc' = "idle" /\ UNCHANGED orphans
    BY <1>12 DEF Crash
  <2>3. QED
    BY <1>2, <2>1, <2>2 DEF TempInv
<1>13. ASSUME NEW m \in Library, Upgrade(m) PROVE TempInv'
  BY <1>1, <1>2, <1>13 DEF Upgrade, TempInv, FrameInv
<1>14. CASE UNCHANGED <<pc, temp, orphans, spent>>
  BY <1>1, <1>14 DEF TempInv
<1>15. QED
  BY <1>3, <1>4, <1>5, <1>6, <1>7, <1>8, <1>9, <1>10, <1>11, <1>12, <1>13, <1>14
     DEF Next, Work, vars, Spawn, Attach, Cancel, Kill

-----------------------------------------------------------------------------
LEMMA NextInv == IInv /\ [Next]_vars => IInv'
BY FrameStep, ProcStep, TempStep DEF IInv

\* The inductive invariant: which process a cancel has hold of, and which temp
\* files are whose (cancellation.py, remux.py and apply.py of the engine).
THEOREM Inductive == Spec => []IInv
BY InitInv, NextInv, PTL DEF Spec

\* CancelKills: when no kill is under way, no registered subprocess of a
\* cancelled run is running, whatever the order of spawn, cancel, attach and
\* exit (cancellation.py:143-175).
THEOREM CancelIsComplete == Spec => []CancelKills
<1>1. ASSUME IInv PROVE CancelKills
  <2>1. killing = "none" => killing # pc \/ pc \notin Stages
    BY DEF Stages
  <2>2. QED
    BY <1>1, <2>1 DEF IInv, ProcInv, CancelKills
<1>2. QED
  BY <1>1, Inductive, PTL

\* NoStrayTemp: every temp file left beside the media file is the trace of a
\* crash or of an exception that went through the pipeline (remux.py:32-33,
\* apply.py:14-16).
THEOREM TempsAreAccountedFor == Spec => []NoStrayTemp
<1>1. ASSUME IInv PROVE NoStrayTemp
  <2>1. CASE pc = "idle"
    BY <1>1, <2>1 DEF IInv, TempInv, NoStrayTemp
  <2>2. CASE pc # "idle"
    BY <1>1, <2>2, DownmixAssumption DEF IInv, FrameInv, TempInv, NoStrayTemp
  <2>3. QED
    BY <2>1, <2>2
<1>2. QED
  BY <1>1, Inductive, PTL

-----------------------------------------------------------------------------
(* What the pipelines decide *)

\* A decision is a command for the tracks it was made from: its targets qualify
\* (whatever the settings, they are in the widest ones) and have a source.
LEMMA DecisionShape ==
    ASSUME NEW c \in Config, NEW kind \in JobKinds, NEW streams \in Seq(AudioTrack)
    PROVE  \E targets \in Seq(QualifyingTarget), index \in Nat :
              /\ DecideFor(c, kind, streams) = BuildRemuxCommand(streams, targets, index)
              /\ \A k \in DOMAIN targets :
                    /\ targets[k] \in QualifyingTarget
                    /\ Qualifies(streams, AnySettings, targets[k])
                    /\ SourceOf(streams, targets[k]) \in DOMAIN streams
<1>1. CASE kind = "downmix"
  <2> DEFINE targets == DetectQualifyingTargets(streams, c.settings)
             index   == IF c.autoSetDefault
                        THEN ResolveDefaultAudioOutputIndex(streams, targets, c.preference)
                        ELSE NoTrack
  <2>1. targets \in Seq(QualifyingTarget)
        /\ \A k \in 1..Len(targets) : Qualifies(streams, c.settings, targets[k])
    BY DetectionIsExact
  <2>2. DecideFor(c, kind, streams) = BuildRemuxCommand(streams, targets, index)
    BY <1>1 DEF DecideFor
  <2> HIDE DEF targets
  <2>3. ASSUME NEW k \in DOMAIN targets
        PROVE  /\ targets[k] \in QualifyingTarget
               /\ Qualifies(streams, AnySettings, targets[k])
               /\ SourceOf(streams, targets[k]) \in DOMAIN streams
    <3>1. targets[k] \in QualifyingTarget /\ Qualifies(streams, c.settings, targets[k])
      BY <2>1
    <3>2. Qualifies(streams, AnySettings, targets[k])
      BY <3>1 DEF Qualifies, AnySettings, QualifyingTarget
    <3>3. QED
      BY <3>1, <3>2, SourceExists
  <2>4. index \in Nat
    BY <2>1, OutputIndexType DEF NoTrack
  <2> HIDE DEF index
  <2>5. QED
    BY <2>1, <2>2, <2>3, <2>4
<1>2. CASE kind = "set_default_audio"
  <2> DEFINE winner == ResolveDefaultAudioStream(streams, c.preference)
             index  == IF winner # NoTrack /\ ~AlreadyCorrect(streams, winner)
                       THEN winner ELSE NoTrack
  <2>1. <<>> \in Seq(QualifyingTarget) /\ DOMAIN <<>> = {}
    OBVIOUS
  <2>2. DecideFor(c, kind, streams) = BuildRemuxCommand(streams, <<>>, index)
    BY <1>2 DEF DecideFor
  <2>3. index \in Nat
    BY ResolvedType DEF NoTrack
  <2> HIDE DEF index
  <2>4. QED
    BY <2>1, <2>2, <2>3
<1>3. QED
  BY <1>1, <1>2 DEF JobKinds

\* A decision names streams that are there, and adds a track for each target.
LEMMA DecisionType ==
    ASSUME NEW c \in Config, NEW kind \in JobKinds, NEW streams \in Seq(AudioTrack)
    PROVE  LET command == DecideFor(c, kind, streams)
           IN  /\ command \in RemuxCommand
               /\ SourcesExist(streams, command)
               /\ Len(command.sources) = Len(command.targets)
<1>1. PICK targets \in Seq(QualifyingTarget), index \in Nat :
        /\ DecideFor(c, kind, streams) = BuildRemuxCommand(streams, targets, index)
        /\ \A k \in DOMAIN targets : SourceOf(streams, targets[k]) \in DOMAIN streams
  BY DecisionShape
<1>2. BuildRemuxCommand(streams, targets, index).targets = targets
  BY DEF BuildRemuxCommand
<1>3. QED
  BY <1>1, <1>2, CommandType

\* The same decision on what its own command makes is that nothing is to do.
LEMMA DecisionSettles ==
    ASSUME NEW c \in Config, NEW kind \in JobKinds, NEW streams \in Seq(AudioTrack),
           ~NothingToDo(kind, DecideFor(c, kind, streams))
    PROVE  NothingToDo(kind,
             DecideFor(c, kind, RemuxedAudio(streams, DecideFor(c, kind, streams))))
<1> DEFINE out == RemuxedAudio(streams, DecideFor(c, kind, streams))
<1>1. CASE kind = "downmix"
  <2>1. PICK index : out = DownmixedAudio(streams, c.settings, index)
    BY <1>1 DEF DecideFor, DownmixedAudio
  <2> HIDE DEF out
  <2>2. DetectQualifyingTargets(out, c.settings) = <<>>
    BY <2>1, DownmixIsIdempotent
  <2>3. DecideFor(c, kind, out).targets = DetectQualifyingTargets(out, c.settings)
    BY <1>1 DEF DecideFor, BuildRemuxCommand
  <2>4. QED
    BY <1>1, <2>2, <2>3 DEF NothingToDo, out
<1>2. CASE kind = "set_default_audio"
  <2> DEFINE winner(s) == ResolveDefaultAudioStream(s, c.preference)
             index(s)  == IF winner(s) # NoTrack /\ ~AlreadyCorrect(s, winner(s))
                          THEN winner(s) ELSE NoTrack
  <2>1. \A s : /\ DecideFor(c, kind, s) = BuildRemuxCommand(s, <<>>, index(s))
               /\ DecideFor(c, kind, s).defaultIndex = index(s)
    BY <1>2 DEF DecideFor, BuildRemuxCommand
  <2>2. index(streams) # NoTrack
    BY <1>2, <2>1 DEF NothingToDo
  <2>3. winner(streams) # NoTrack /\ index(streams) = winner(streams)
    BY <2>2
  <2>4. out = RedefaultedAudio(streams, winner(streams))
    BY <2>1, <2>3 DEF RedefaultedAudio
  <2> HIDE DEF out
  <2>5. winner(out) = winner(streams) /\ AlreadyCorrect(out, winner(streams))
    BY <2>3, <2>4, DefaultIsIdempotent
  <2>6. index(out) = NoTrack
    BY <2>5
  <2>7. QED
    BY <1>2, <2>1, <2>6 DEF NothingToDo, out
<1>3. QED
  BY <1>1, <1>2 DEF JobKinds

\* Whatever ffmpeg wrote is a media file.
LEMMA RemuxedFile ==
    ASSUME NEW f \in MediaFile, NEW command \in RemuxCommand,
           SourcesExist(f.audio, command), NEW new \in Remuxed(f, command)
    PROVE  new \in MediaFile
<1> DEFINE out == RemuxedAudio(f.audio, command)
<1>1. f = [audio |-> f.audio, other |-> f.other, duration |-> f.duration]
      /\ f.audio \in Seq(AudioTrack) /\ f.other \in Nat /\ f.duration \in Nat
  BY DEF MediaFile
<1>2. out \in Seq(AudioTrack)
  BY <1>1, RemuxedType
<1> HIDE DEF out
<1>3. SubSeq(out, 2, Len(out)) \in Seq(AudioTrack)
  BY <1>2
<1>4. \/ new = [audio |-> out, other |-> f.other, duration |-> f.duration]
      \/ new = [audio |-> out, other |-> f.other, duration |-> 0]
      \/ new = [audio |-> SubSeq(out, 2, Len(out)), other |-> f.other,
                duration |-> f.duration]
  BY <1>1 DEF Remuxed, out
<1>5. \A a \in Seq(AudioTrack), o, d \in Nat :
         [audio |-> a, other |-> o, duration |-> d] \in MediaFile
  BY DEF MediaFile
<1>6. 0 \in Nat
  OBVIOUS
<1>7. QED
  BY <1>1, <1>2, <1>3, <1>4, <1>5, <1>6

\* A sequence that is as long as what is left of it without its first element
\* is empty, and so is the rest.
LEMMA NothingLost ==
    ASSUME NEW S, NEW s \in Seq(S)
    PROVE  /\ Len(SubSeq(s, 2, Len(s))) \in Nat
           /\ Len(SubSeq(s, 2, Len(s))) = Len(s) => SubSeq(s, 2, Len(s)) = s
<1> DEFINE t == SubSeq(s, 2, Len(s))
<1>1. Len(s) \in Nat /\ t \in Seq(S)
  OBVIOUS
<1>2. Len(t) = IF 2 <= Len(s) THEN Len(s) - 1 ELSE 0
  BY <1>1
<1>3. ASSUME Len(t) = Len(s) PROVE t = s
  <2>1. Len(s) = 0
    BY <1>1, <1>2, <1>3
  <2> HIDE DEF t
  <2>2. s = <<>> /\ t = <<>>
    BY <1>1, <1>3, <2>1
  <2>3. QED
    BY <2>2
<1>4. QED
  BY <1>1, <1>3

\* What passes the checks of apply_remux_result lacks none of the tracks.
LEMMA ValidIsWhole ==
    ASSUME NEW f \in MediaFile, NEW command \in RemuxCommand,
           SourcesExist(f.audio, command), Len(command.sources) = Len(command.targets),
           NEW new \in Remuxed(f, command),
           Valid(Summary(f), Summary(new), Len(command.targets))
    PROVE  /\ new.audio = RemuxedAudio(f.audio, command)
           /\ new.other = f.other
           /\ f.duration - new.duration \in -Tolerance..Tolerance
<1> DEFINE out == RemuxedAudio(f.audio, command)
<1>1. f = [audio |-> f.audio, other |-> f.other, duration |-> f.duration]
      /\ f.audio \in Seq(AudioTrack) /\ f.other \in Nat /\ f.duration \in Nat
  BY DEF MediaFile
<1>2. out \in Seq(AudioTrack) /\ Len(out) = Len(f.audio) + Len(command.sources)
  BY <1>1, RemuxedType
<1> HIDE DEF out
<1>3. \/ new = [audio |-> out, other |-> f.other, duration |-> f.duration]
      \/ new = [audio |-> out, other |-> f.other, duration |-> 0]
      \/ new = [audio |-> SubSeq(out, 2, Len(out)), other |-> f.other,
                duration |-> f.duration]
  BY <1>1 DEF Remuxed, out
<1>4. /\ f.duration - new.duration \in -Tolerance..Tolerance
      /\ Len(new.audio) + new.other = Len(f.audio) + f.other + Len(command.targets)
  BY DEF Valid, Summary
<1>5. new.other = f.other
  BY <1>3
<1>6. Len(f.audio) \in Nat /\ Len(command.targets) \in Nat
  BY <1>1 DEF RemuxCommand
<1>7. new.audio = out
  <2>1. CASE new.audio = SubSeq(out, 2, Len(out))
    <3>1. Len(new.audio) \in Nat
      BY <1>2, <2>1, NothingLost
    <3>2. Len(new.audio) = Len(out)
      <4> DEFINE a == Len(new.audio)
                 b == Len(f.audio)
                 t == Len(command.targets)
                 o == f.other
      <4>1. a \in Nat /\ b \in Nat /\ t \in Nat /\ o \in Nat
        BY <1>1, <1>6, <3>1
      <4>2. a + o = b + o + t /\ Len(out) = b + t
        BY <1>2, <1>4, <1>5
      <4> HIDE DEF a, b, t, o
      <4>3. a = b + t
        BY <4>1, <4>2
      <4>4. QED
        BY <4>2, <4>3 DEF a
    <3>3. QED
      BY <1>2, <2>1, <3>2, NothingLost
  <2>2. CASE new.audio = out
    BY <2>2
  <2>3. QED
    BY <1>3, <2>1, <2>2
<1>8. QED
  BY <1>4, <1>5, <1>7 DEF out

\* A track of the remux that is one of the original but for the default flag.
LEMMA SameTrack ==
    ASSUME NEW x, NEW y, Whole(x), Whole(y),
           x.language = y.language, x.channels = y.channels, x.made = y.made
    PROVE  [x EXCEPT !.isDefault = y.isDefault] = y
<1>1. [x EXCEPT !.isDefault = y.isDefault]
        = [language |-> x.language, channels |-> x.channels, made |-> x.made,
           isDefault |-> y.isDefault]
  BY DEF Whole
<1>2. QED
  BY <1>1 DEF Whole

\* A file that passed the checks is the original with tracks added that were
\* wanted and missing.
LEMMA DecisionExtends ==
    ASSUME NEW c \in Config, NEW kind \in JobKinds, NEW f \in MediaFile,
           NEW new \in Remuxed(f, DecideFor(c, kind, f.audio)),
           Valid(Summary(f), Summary(new), Len(DecideFor(c, kind, f.audio).targets))
    PROVE  /\ new.audio = RemuxedAudio(f.audio, DecideFor(c, kind, f.audio))
           /\ Additive(f, new)
<1>1. PICK streams \in Seq(AudioTrack) : streams = f.audio
  BY DEF MediaFile
<1>2. /\ new.audio = RemuxedAudio(f.audio, DecideFor(c, kind, f.audio))
      /\ new.other = f.other
      /\ f.duration - new.duration \in -Tolerance..Tolerance
  BY <1>1, DecisionType, ValidIsWhole
<1>3. PICK targets \in Seq(QualifyingTarget), index \in Nat :
        /\ DecideFor(c, kind, streams) = BuildRemuxCommand(streams, targets, index)
        /\ \A k \in DOMAIN targets :
              /\ targets[k] \in QualifyingTarget
              /\ Qualifies(streams, AnySettings, targets[k])
              /\ SourceOf(streams, targets[k]) \in DOMAIN streams
  BY <1>1, DecisionShape
<1> DEFINE n   == Len(streams)
           out == RemuxedAudio(streams, BuildRemuxCommand(streams, targets, index))
<1>4. new.audio = out
  BY <1>1, <1>2, <1>3
<1>5. /\ \A i \in 1..n : /\ out[i].language = streams[i].language
                         /\ out[i].channels = streams[i].channels
                         /\ out[i].made = streams[i].made
      /\ \A k \in 1..Len(targets) :
            /\ out[n + k].language = targets[k].language
            /\ out[n + k].channels = TargetChannels[targets[k].target]
      /\ \A i \in DOMAIN out : Whole(out[i])
      /\ DOMAIN out = 1..(n + Len(targets)) /\ out \in Seq(AudioTrack)
      /\ Len(out) = n + Len(targets)
  <2>1. \A k \in DOMAIN targets : SourceOf(streams, targets[k]) \in DOMAIN streams
    BY <1>3
  <2>2. /\ \A i \in 1..n : /\ out[i].language = streams[i].language
                           /\ out[i].channels = streams[i].channels
                           /\ out[i].made = streams[i].made
        /\ DOMAIN out = 1..(n + Len(targets))
    BY <2>1, RemuxedTracks
  <2>3. \A k \in 1..Len(targets) :
            /\ out[n + k].language = targets[k].language
            /\ out[n + k].channels = TargetChannels[targets[k].target]
    BY <2>1, RemuxedTracks
  <2>4. \A i \in DOMAIN out : Whole(out[i])
    BY <2>1, RemuxedTracks
  <2>5. out \in Seq(AudioTrack) /\ Len(out) = n + Len(targets)
    BY <2>1, RemuxedTracks
  <2>6. QED
    BY <2>2, <2>3, <2>4, <2>5
<1>6. n \in Nat /\ Len(targets) \in Nat /\ DOMAIN targets = 1..Len(targets)
  BY <1>1
<1> HIDE DEF out, n
<1>7. ASSUME NEW i \in 1..n
      PROVE  [new.audio[i] EXCEPT !.isDefault = streams[i].isDefault] = streams[i]
  <2>1. i \in DOMAIN out /\ streams[i] \in AudioTrack
    BY <1>1, <1>5, <1>6 DEF n
  <2>2. Whole(streams[i])
    BY <2>1 DEF AudioTrack, Whole
  <2>3. Whole(out[i])
    BY <1>5, <2>1
  <2>4. QED
    BY <1>4, <1>5, <2>2, <2>3, SameTrack
<1>8. ASSUME NEW i \in (n + 1)..Len(new.audio)
      PROVE  \E q \in QualifyingTarget :
                /\ Qualifies(streams, AnySettings, q)
                /\ new.audio[i].language = q.language
                /\ new.audio[i].channels = TargetChannels[q.target]
  <2>1. i - n \in 1..Len(targets) /\ n + (i - n) = i
    BY <1>4, <1>5, <1>6
  <2>2. /\ new.audio[i].language = targets[i - n].language
        /\ new.audio[i].channels = TargetChannels[targets[i - n].target]
    BY <1>4, <1>5, <2>1
  <2>3. targets[i - n] \in QualifyingTarget /\ Qualifies(streams, AnySettings, targets[i - n])
    BY <1>3, <1>6, <2>1
  <2>4. QED
    BY <2>2, <2>3
<1>9. Len(new.audio) >= n
  BY <1>4, <1>5, <1>6
<1>10. Additive(f, new)
  BY <1>1, <1>2, <1>7, <1>8, <1>9 DEF Additive, n
<1>11. QED
  BY <1>2, <1>10

-----------------------------------------------------------------------------
(* Types: what every process reads and what ffmpeg makes of it *)

LEMMA EmptyCommandType == EmptyCommand \in RemuxCommand
<1>1. PICK none : none = <<>> /\ none \in Seq(AudioTrack) /\ none \in Seq(QualifyingTarget)
                  /\ DOMAIN none = {}
  <2>1. <<>> \in Seq(AudioTrack) /\ <<>> \in Seq(QualifyingTarget) /\ DOMAIN <<>> = {}
    OBVIOUS
  <2>2. QED
    BY <2>1
<1>2. NoTrack \in Nat
  BY DEF NoTrack
<1>3. EmptyCommand = BuildRemuxCommand(none, none, NoTrack)
  BY <1>1 DEF EmptyCommand
<1>4. QED
  BY <1>1, <1>2, <1>3, CommandType

LEMMA InitTypes == Init => TypeOK /\ ReadInv
<1> SUFFICES ASSUME Init PROVE TypeOK /\ ReadInv
  OBVIOUS
<1>1. EmptyCommand \in RemuxCommand
  BY EmptyCommandType
<1>2. job \in [kind : JobKinds, command : RemuxCommand,
               original : [duration : Nat, streams : Nat]]
  BY <1>1 DEF Init, JobKinds, NoSummary
<1>3. /\ file \in MediaFile /\ temp = NoFile /\ config \in Configs
      /\ proc \in [state : {"none", "spawned", "attached", "untracked"},
                   exit  : {"running", "ok", "failed"}, input : MediaFile \cup {NoFile}]
      /\ proc.state = "none" /\ pc = "idle"
  BY DownmixAssumption DEF Init, NoProcess
<1>4. spent \in [runs : 0..MaxRuns, upgrades : 0..MaxUpgrades, crashes : 0..MaxCrashes,
                raised : Nat]
  BY InitInv DEF IInv, FrameInv
<1>5. orphans = 0 /\ cancelled = FALSE /\ killing = "none" /\ outcome = "none"
      /\ disturbed = FALSE
  BY DEF Init
<1>6. QED
  BY <1>2, <1>3, <1>4, <1>5 DEF TypeOK, ReadInv

\* A process that has ended with 0 in a stage that reads its output.
LEMMA ReturnedReads ==
    ASSUME TypeOK, ReadInv, Returned
    PROVE  proc.input \in MediaFile
BY DEF ReadInv, Returned

LEMMA FileStep ==
    ASSUME TypeOK, IInv, ReadInv, [Next]_vars
    PROVE  /\ file' \in MediaFile
           /\ temp' \in MediaFile \cup {NoFile}
           /\ config' = config
<1>1. file \in MediaFile /\ temp \in MediaFile \cup {NoFile}
  BY DEF TypeOK
<1>2. CASE StageFails \/ Raises
  BY <1>1, <1>2 DEF StageFails, Raises, RemoveTemp
<1>3. CASE Reserve
  <2>1. <<>> \in Seq(AudioTrack) /\ 0 \in Nat
    OBVIOUS
  <2>2. QED
    BY <1>1, <1>3, <2>1 DEF Reserve, MediaFile
<1>4. CASE Probed \/ RemuxDone \/ OriginalProbed \/ TempProbed \/ Report
  BY <1>1, <1>4 DEF Probed, RemuxDone, OriginalProbed, TempProbed, Report, RemoveTemp
<1>5. CASE Swap
  BY <1>1, <1>5 DEF Swap, RemoveTemp, ReadInv
<1>6. ASSUME NEW code \in {"ok", "failed"}, Exits(code)
      PROVE  /\ file' = file /\ config' = config
             /\ temp' \in MediaFile \cup {NoFile}
  <2>1. CASE pc = "remux" /\ code = "ok"
    <3>1. /\ proc.input \in MediaFile /\ job.command \in RemuxCommand
          /\ SourcesExist(proc.input.audio, job.command)
          /\ temp' \in Remuxed(proc.input, job.command)
      BY <1>6, <2>1 DEF Exits, ReadInv, TypeOK
    <3>2. QED
      BY <1>6, <3>1, RemuxedFile DEF Exits
  <2>2. CASE ~(pc = "remux" /\ code = "ok")
    BY <1>1, <1>6, <2>2 DEF Exits
  <2>3. QED
    BY <2>1, <2>2
<1>7. ASSUME NEW m \in Library, Upgrade(m)
      PROVE  file' \in MediaFile /\ UNCHANGED <<temp, config>>
  BY <1>7, DownmixAssumption DEF Upgrade
<1>8. ASSUME NEW kind \in JobKinds, Start(kind)
      PROVE  UNCHANGED <<file, temp, config>>
  BY <1>8 DEF Start
<1>9. CASE Spawn \/ Attach \/ Cancel \/ Kill \/ Crash \/ UNCHANGED vars
  BY <1>1, <1>9 DEF Spawn, Attach, Cancel, Kill, Crash, vars
<1>10. QED
  BY <1>1, <1>2, <1>3, <1>4, <1>5, <1>6, <1>7, <1>8, <1>9 DEF Next, Work

LEMMA DecideIs ==
    ASSUME NEW kind, NEW streams
    PROVE  Decide(kind, streams) = DecideFor(config, kind, streams)
BY DEF Decide, DecideFor

LEMMA JobStep ==
    ASSUME TypeOK, IInv, ReadInv, [Next]_vars
    PROVE  job' \in [kind : JobKinds, command : RemuxCommand,
                     original : [duration : Nat, streams : Nat]]
<1> DEFINE Jobs == [kind : JobKinds, command : RemuxCommand,
                    original : [duration : Nat, streams : Nat]]
<1>1. job \in Jobs
  BY DEF TypeOK
<1>2. CASE Probed
  <2>1. PICK streams \in Seq(AudioTrack) : streams = proc.input.audio
    BY <1>2, ReturnedReads DEF Probed, MediaFile
  <2>2. config \in Config /\ job.kind \in JobKinds
    BY <1>1, DownmixAssumption DEF TypeOK
  <2>3. DecideFor(config, job.kind, streams) \in RemuxCommand
    BY <2>2, DecisionType
  <2>4. Decide(job.kind, streams) \in RemuxCommand
    BY <2>3, DecideIs
  <2>5. job' = [job EXCEPT !.command = Decide(job.kind, streams)]
    BY <1>2, <2>1 DEF Probed
  <2>6. QED
    BY <1>1, <2>4, <2>5
<1>3. CASE OriginalProbed
  <2>1. proc.input \in MediaFile
    BY <1>3, ReturnedReads DEF OriginalProbed
  <2>2. Summary(proc.input) \in [duration : Nat, streams : Nat]
    BY <2>1 DEF Summary, MediaFile
  <2>3. job' = [job EXCEPT !.original = Summary(proc.input)]
    BY <1>3 DEF OriginalProbed
  <2> HIDE DEF Jobs
  <2>4. \A j \in Jobs, s \in [duration : Nat, streams : Nat] :
           [j EXCEPT !.original = s] \in Jobs
    BY DEF Jobs
  <2>5. job' \in Jobs
    BY <1>1, <2>2, <2>3, <2>4
  <2>6. QED
    BY <2>5 DEF Jobs
<1>4. ASSUME NEW kind \in JobKinds, Start(kind) PROVE job' \in Jobs
  <2>1. EmptyCommand \in RemuxCommand
    BY EmptyCommandType
  <2>2. QED
    BY <1>4, <2>1 DEF Start, NoSummary
<1>5. ASSUME NEW code \in {"ok", "failed"}, Exits(code) PROVE job' = job
  BY <1>5 DEF Exits
<1>6. ASSUME NEW m \in Library, Upgrade(m) PROVE job' = job
  BY <1>6 DEF Upgrade
<1>7. CASE StageFails \/ Raises \/ Reserve \/ RemuxDone \/ TempProbed \/ Swap \/ Report
  BY <1>1, <1>7 DEF StageFails, Raises, Reserve, RemuxDone, TempProbed, Swap, Report
<1>8. CASE Spawn \/ Attach \/ Cancel \/ Kill \/ Crash \/ UNCHANGED vars
  BY <1>1, <1>8 DEF Spawn, Attach, Cancel, Kill, Crash, vars
<1>9. QED
  BY <1>1, <1>2, <1>3, <1>4, <1>5, <1>6, <1>7, <1>8 DEF Next, Work

LEMMA ReadStep ==
    ASSUME TypeOK, IInv, ReadInv, [Next]_vars
    PROVE  /\ ReadInv'
           /\ proc' \in [state : {"none", "spawned", "attached", "untracked"},
                         exit  : {"running", "ok", "failed"},
                         input : MediaFile \cup {NoFile}]
<1> DEFINE Procs == [state : {"none", "spawned", "attached", "untracked"},
                     exit  : {"running", "ok", "failed"},
                     input : MediaFile \cup {NoFile}]
<1>1. /\ proc \in Procs /\ file \in MediaFile /\ FrameInv /\ ProcInv
      /\ temp' \in MediaFile \cup {NoFile}
  BY FileStep DEF TypeOK, IInv
<1>2. [state |-> "none", exit |-> "ok", input |-> NoFile] \in Procs
  OBVIOUS
<1>3. CASE StageFails \/ Raises
  <2>1. proc' = [state |-> "none", exit |-> "ok", input |-> NoFile] /\ pc' = "idle"
    BY <1>3, FinishShape DEF StageFails, Raises
  <2>2. QED
    BY <1>2, <2>1 DEF ReadInv
<1>4. CASE Reserve
  <2>1. <<>> \in Seq(AudioTrack) /\ 0 \in Nat
    OBVIOUS
  <2>2. temp' \in MediaFile /\ UNCHANGED proc /\ proc.state = "none"
    BY <1>1, <1>4, <2>1 DEF Reserve, MediaFile, ProcInv, Stages
  <2>3. QED
    BY <1>1, <2>2 DEF ReadInv
<1>5. CASE Probed
  <2>1. /\ proc' = [state |-> "none", exit |-> "ok", input |-> NoFile]
        /\ pc' \in {"idle", "reserve"}
    BY <1>5, FinishShape DEF Probed, NoProcess
  <2>2. QED
    BY <1>2, <2>1 DEF ReadInv
<1>6. CASE RemuxDone \/ OriginalProbed
  <2>1. /\ proc' = [state |-> "none", exit |-> "ok", input |-> NoFile]
        /\ temp' = temp /\ temp \in MediaFile
    BY <1>6 DEF RemuxDone, OriginalProbed, NoProcess, ReadInv
  <2>2. QED
    BY <1>2, <2>1 DEF ReadInv
<1>7. CASE TempProbed
  <2>1. /\ proc' = [state |-> "none", exit |-> "ok", input |-> NoFile]
        /\ pc' = "idle" \/ (pc' = "swap" /\ temp' = temp /\ temp \in MediaFile)
    BY <1>7, FinishShape DEF TempProbed, NoProcess, ReadInv
  <2>2. QED
    BY <1>2, <2>1 DEF ReadInv
<1>8. CASE Swap
  <2>1. pc' = "report" /\ proc' = proc /\ proc.state = "none"
    BY <1>1, <1>8 DEF Swap, ProcInv, Stages
  <2>2. QED
    BY <1>1, <2>1 DEF ReadInv
<1>9. CASE Report
  <2>1. proc' = [state |-> "none", exit |-> "ok", input |-> NoFile] /\ pc' = "idle"
    BY <1>9, FinishShape DEF Report
  <2>2. QED
    BY <1>2, <2>1 DEF ReadInv
<1>10. CASE Spawn
  <2>1. /\ proc' = [state |-> "spawned", exit |-> "running",
                    input |-> IF pc = "probe_temp" THEN temp ELSE file]
        /\ UNCHANGED <<pc, temp>>
    BY <1>10 DEF Spawn
  <2>2. pc = "probe_temp" => temp \in MediaFile
    BY DEF ReadInv
  <2>3. QED
    BY <1>1, <2>1, <2>2 DEF ReadInv
<1>11. CASE Attach \/ Kill \/ Cancel
  <2>1. /\ proc' \in Procs /\ UNCHANGED <<pc, temp>> /\ proc'.input = proc.input
        /\ proc'.state # "none" => proc.state # "none"
    BY <1>1, <1>11 DEF Attach, Kill, Cancel
  <2>2. QED
    BY <2>1 DEF ReadInv
<1>12. ASSUME NEW code \in {"ok", "failed"}, Exits(code) PROVE ReadInv' /\ proc' \in Procs
  <2>1. /\ proc' \in Procs /\ proc'.input = proc.input /\ proc'.state = proc.state
        /\ proc.state # "none" /\ pc' = pc
    BY <1>1, <1>12 DEF Exits
  <2>2. CASE pc = "remux" /\ code = "ok"
    <3>1. /\ proc.input \in MediaFile /\ job.command \in RemuxCommand
          /\ SourcesExist(proc.input.audio, job.command)
          /\ temp' \in Remuxed(proc.input, job.command)
      BY <1>12, <2>2 DEF Exits, ReadInv, TypeOK
    <3>2. temp' \in MediaFile
      BY <3>1, RemuxedFile
    <3>3. QED
      BY <2>1, <2>2, <3>1, <3>2 DEF ReadInv
  <2>3. CASE ~(pc = "remux" /\ code = "ok")
    <3>1. temp' = temp
      BY <1>12, <2>3 DEF Exits
    <3>2. QED
      BY <2>1, <3>1 DEF ReadInv
  <2>4. QED
    BY <2>2, <2>3
<1>13. ASSUME NEW kind \in JobKinds, Start(kind) PROVE ReadInv' /\ proc' \in Procs
  <2>1. UNCHANGED <<proc, temp>> /\ pc' = "probe" /\ proc.state = "none"
    BY <1>1, <1>13 DEF Start, ProcInv, Stages
  <2>2. QED
    BY <1>1, <2>1 DEF ReadInv
<1>14. ASSUME NEW m \in Library, Upgrade(m) PROVE ReadInv' /\ proc' \in Procs
  <2>1. UNCHANGED <<proc, temp, pc>>
    BY <1>14 DEF Upgrade
  <2>2. QED
    BY <1>1, <2>1 DEF ReadInv
<1>15. CASE Crash
  <2>1. proc' = [state |-> "none", exit |-> "ok", input |-> NoFile] /\ pc' = "idle"
    BY <1>15 DEF Crash, NoProcess
  <2>2. QED
    BY <1>2, <2>1 DEF ReadInv
<1>16. CASE UNCHANGED vars
  <2>1. UNCHANGED <<proc, temp, pc>>
    BY <1>16 DEF vars
  <2>2. QED
    BY <1>1, <2>1 DEF ReadInv
<1>17. QED
  BY <1>3, <1>4, <1>5, <1>6, <1>7, <1>8, <1>9, <1>10, <1>11, <1>12, <1>13, <1>14, <1>15,
     <1>16 DEF Next, Work

LEMMA OutcomeStep ==
    ASSUME TypeOK, [Next]_vars
    PROVE  /\ outcome' \in {"none", "success", "nothing_to_do", "failed", "raised"}
           /\ disturbed' \in BOOLEAN
<1>1. outcome \in {"none", "success", "nothing_to_do", "failed", "raised"}
      /\ disturbed \in BOOLEAN
  BY DEF TypeOK
<1>2. CASE StageFails \/ Raises \/ Work
  BY <1>1, <1>2 DEF StageFails, Raises, Work, Reserve, Probed, RemuxDone, OriginalProbed,
                    TempProbed, Swap, Report, Finish
<1>3. ASSUME NEW kind \in JobKinds, Start(kind)
      PROVE  outcome' = "none" /\ disturbed' = FALSE
  BY <1>3 DEF Start
<1>4. ASSUME NEW code \in {"ok", "failed"}, Exits(code)
      PROVE  UNCHANGED <<outcome, disturbed>>
  BY <1>4 DEF Exits
<1>5. ASSUME NEW m \in Library, Upgrade(m)
      PROVE  UNCHANGED outcome /\ disturbed' = TRUE
  BY <1>5 DEF Upgrade
<1>6. CASE Spawn \/ Attach \/ Cancel \/ Kill \/ Crash \/ UNCHANGED vars
  BY <1>1, <1>6 DEF Spawn, Attach, Cancel, Kill, Crash, vars
<1>7. QED
  BY <1>1, <1>2, <1>3, <1>4, <1>5, <1>6 DEF Next

LEMMA TypeStep ==
    ASSUME TypeOK, IInv, ReadInv, [Next]_vars
    PROVE  TypeOK'
<1>1. FrameInv'
  BY FrameStep
<1>2. QED
  BY <1>1, FileStep, JobStep, ReadStep, OutcomeStep DEF TypeOK, FrameInv

\* TypeOK: every command names tracks in range, every summary counts what is
\* there, and each of the four subprocesses reads a media file, the temp file
\* in the last stage (pipeline.py:76-120, remux.py:203-277).
THEOREM TypeCorrect == Spec => []TypeOK
<1>1. IInv /\ TypeOK /\ ReadInv /\ [Next]_vars => (IInv /\ TypeOK /\ ReadInv)'
  BY NextInv, TypeStep, ReadStep
<1>2. QED
  BY <1>1, InitInv, InitTypes, PTL DEF Spec

-----------------------------------------------------------------------------
(* Runs that nobody disturbs *)

LEMMA InitRun == Init => RunInv
BY DEF Init, RunInv, Produced, NoProcess

\* The swap of an undisturbed run: the file is the one it decided on, the temp
\* file is all that the command asked for, and it needs nothing more.
LEMMA SwapSettles ==
    ASSUME TypeOK, RunInv, ~disturbed, pc = "swap"
    PROVE  /\ NothingToDo(job.kind, DecideFor(config, job.kind, temp.audio))
           /\ Additive(file, temp)
<1>1. PICK streams \in Seq(AudioTrack) : streams = file.audio
  BY DEF TypeOK, MediaFile
<1>2. PICK c \in Config : c = config
  BY DownmixAssumption DEF TypeOK
<1>3. PICK kind \in JobKinds : kind = job.kind
  BY DEF TypeOK
<1>4. PICK f \in MediaFile : f = file
  BY DEF TypeOK
<1>5. /\ job.command = DecideFor(c, kind, streams) /\ ~NothingToDo(kind, job.command)
      /\ temp \in Remuxed(f, job.command)
      /\ job.original = Summary(f)
      /\ Valid(job.original, Summary(temp), Len(job.command.targets))
  BY <1>1, <1>2, <1>3, <1>4 DEF RunInv, Produced
<1>6. temp.audio = RemuxedAudio(f.audio, DecideFor(c, kind, f.audio)) /\ Additive(f, temp)
  BY <1>1, <1>4, <1>5, DecisionExtends
<1>7. NothingToDo(kind, DecideFor(c, kind, RemuxedAudio(streams, DecideFor(c, kind, streams))))
  BY <1>5, DecisionSettles
<1>8. QED
  BY <1>1, <1>2, <1>3, <1>4, <1>6, <1>7

LEMMA RunStep ==
    ASSUME TypeOK, IInv, ReadInv, RunInv, [Next]_vars
    PROVE  RunInv'
<1>1. FrameInv /\ ProcInv
  BY DEF IInv
<1>2. CASE StageFails \/ Raises
  <2>1. /\ pc' = "idle" /\ proc'.state = "none" /\ outcome' \in {"failed", "raised"}
    BY <1>2, FinishShape DEF StageFails, Raises, Finish
  <2>2. QED
    BY <2>1 DEF RunInv, Produced
<1>3. CASE Reserve
  <2>1. /\ pc = "reserve" /\ pc' = "remux" /\ proc' = proc /\ proc.state = "none"
        /\ UNCHANGED <<file, config, job, outcome, disturbed>>
    BY <1>1, <1>3 DEF Reserve, ProcInv, Stages
  <2>2. QED
    BY <2>1 DEF RunInv, Produced
<1>4. CASE Probed
  <2>1. /\ pc = "probe" /\ proc'.state = "none"
        /\ UNCHANGED <<file, temp, config, disturbed>> /\ job'.kind = job.kind
        /\ ~disturbed => proc.input = file
    BY <1>4, FinishShape DEF Probed, RunInv, Returned, NoProcess, TypeOK
  <2>2. CASE pc' = "idle"
    <3>1. outcome' = "nothing_to_do"
      BY <1>4, <2>2 DEF Probed, Finish
    <3>2. QED
      BY <2>1, <2>2, <3>1 DEF RunInv, Produced
  <2>3. CASE pc' # "idle"
    <3>1. /\ pc' = "reserve" /\ outcome' = outcome
          /\ job'.command = Decide(job.kind, proc.input.audio)
          /\ ~NothingToDo(job.kind, Decide(job.kind, proc.input.audio))
      BY <1>4, <2>3 DEF Probed, Finish, TypeOK
    <3>2. Decide(job.kind, proc.input.audio) = DecideFor(config, job.kind, proc.input.audio)
      BY DecideIs
    <3>3. outcome = "none"
      BY <2>1 DEF RunInv
    <3>4. QED
      BY <2>1, <3>1, <3>2, <3>3 DEF RunInv, Produced
  <2>4. QED
    BY <2>2, <2>3
<1>5. CASE RemuxDone
  <2>1. /\ pc = "remux" /\ pc' = "probe_original" /\ proc'.state = "none" /\ Produced
        /\ UNCHANGED <<file, temp, config, job, outcome, disturbed>>
    BY <1>5 DEF RemuxDone, Returned, Produced, NoProcess
  <2>2. QED
    BY <2>1 DEF RunInv, Produced
<1>6. CASE OriginalProbed
  <2>1. /\ pc = "probe_original" /\ pc' = "probe_temp" /\ proc'.state = "none"
        /\ UNCHANGED <<file, temp, config, outcome, disturbed>>
        /\ job' = [job EXCEPT !.original = Summary(proc.input)]
        /\ ~disturbed => proc.input = file
    BY <1>6 DEF OriginalProbed, Returned, NoProcess, RunInv
  <2>2. job'.kind = job.kind /\ job'.command = job.command
        /\ job'.original = Summary(proc.input)
    BY <2>1 DEF TypeOK
  <2>3. QED
    BY <2>1, <2>2 DEF RunInv, Produced
<1>7. CASE TempProbed
  <2>1. /\ pc = "probe_temp" /\ proc'.state = "none" /\ proc.input = temp
        /\ UNCHANGED <<file, config, job, disturbed>>
    BY <1>7, FinishShape DEF TempProbed, Returned, NoProcess, ReadInv
  <2>2. CASE pc' = "idle"
    <3>1. outcome' = "failed"
      BY <1>7, <2>2 DEF TempProbed, Finish
    <3>2. QED
      BY <2>1, <2>2, <3>1 DEF RunInv, Produced
  <2>3. CASE pc' # "idle"
    <3>1. /\ pc' = "swap" /\ UNCHANGED <<temp, outcome>>
          /\ Valid(job.original, Summary(temp), Len(job.command.targets))
      BY <1>7, <2>1, <2>3 DEF TempProbed, Finish
    <3>2. QED
      BY <2>1, <3>1 DEF RunInv, Produced
  <2>4. QED
    BY <2>2, <2>3
<1>8. CASE Swap
  <2>1. /\ pc = "swap" /\ pc' = "report" /\ file' = temp /\ proc' = proc /\ proc.state = "none"
        /\ UNCHANGED <<config, job, outcome, disturbed>>
    BY <1>1, <1>8 DEF Swap, ProcInv, Stages
  <2>2. ~disturbed => NothingToDo(job.kind, DecideFor(config, job.kind, temp.audio))
    BY <2>1, SwapSettles
  <2>3. QED
    BY <2>1, <2>2 DEF RunInv, Produced
<1>9. CASE Report
  <2>1. /\ pc = "report" /\ pc' = "idle" /\ proc'.state = "none"
        /\ UNCHANGED <<file, config, job, disturbed>>
    BY <1>9, FinishShape DEF Report
  <2>2. QED
    BY <2>1 DEF RunInv, Produced
<1>10. CASE Spawn
  <2>1. /\ pc \in Stages /\ proc'.exit = "running" /\ proc.state = "none"
        /\ proc'.input = (IF pc = "probe_temp" THEN temp ELSE file)
        /\ UNCHANGED <<file, temp, config, pc, job, outcome, disturbed>>
    BY <1>10 DEF Spawn
  <2>2. QED
    BY <2>1 DEF RunInv, Produced
<1>11. CASE Attach \/ Kill \/ Cancel
  <2>1. /\ UNCHANGED <<file, temp, config, pc, job, outcome, disturbed>>
        /\ proc'.input = proc.input
        /\ proc'.state # "none" => proc.state # "none"
        /\ proc'.exit = "ok" => proc.exit = "ok"
    BY <1>1, <1>11 DEF Attach, Kill, Cancel, FrameInv, Process
  <2>2. QED
    BY <2>1 DEF RunInv, Produced
<1>12. ASSUME NEW code \in {"ok", "failed"}, Exits(code) PROVE RunInv'
  <2>1. /\ UNCHANGED <<file, config, pc, job, outcome, disturbed>>
        /\ proc'.input = proc.input /\ proc'.state = proc.state /\ proc'.exit = code
        /\ proc.state # "none"
    BY <1>12 DEF Exits, TypeOK
  <2>2. CASE pc = "remux" /\ code = "ok"
    <3>1. temp' \in Remuxed(proc.input, job.command)
      BY <1>12, <2>2 DEF Exits
    <3>2. QED
      BY <2>1, <2>2, <3>1 DEF RunInv, Produced
  <2>3. CASE ~(pc = "remux" /\ code = "ok")
    <3>1. temp' = temp
      BY <1>12, <2>3 DEF Exits
    <3>2. QED
      BY <2>1, <2>3, <3>1 DEF RunInv, Produced
  <2>4. QED
    BY <2>2, <2>3
<1>13. ASSUME NEW kind \in JobKinds, Start(kind) PROVE RunInv'
  <2>1. /\ pc' = "probe" /\ outcome' = "none" /\ UNCHANGED proc /\ proc.state = "none"
    BY <1>1, <1>13 DEF Start, ProcInv, Stages
  <2>2. QED
    BY <2>1 DEF RunInv, Produced
<1>14. ASSUME NEW m \in Library, Upgrade(m) PROVE RunInv'
  <2>1. UNCHANGED <<pc, outcome>> /\ disturbed'
    BY <1>14 DEF Upgrade
  <2>2. QED
    BY <2>1 DEF RunInv
<1>15. CASE Crash
  <2>1. /\ pc # "idle" /\ pc' = "idle" /\ proc'.state = "none" /\ UNCHANGED outcome
    BY <1>15 DEF Crash, NoProcess
  <2>2. QED
    BY <2>1 DEF RunInv, Produced
<1>16. CASE UNCHANGED vars
  <2>1. UNCHANGED <<file, temp, config, pc, job, proc, outcome, disturbed>>
    BY <1>16 DEF vars
  <2>2. QED
    BY <2>1 DEF RunInv, Produced
<1>17. QED
  BY <1>2, <1>3, <1>4, <1>5, <1>6, <1>7, <1>8, <1>9, <1>10, <1>11, <1>12, <1>13, <1>14,
     <1>15, <1>16 DEF Next, Work

-----------------------------------------------------------------------------
\* All that is known of a reachable state.
Known == IInv /\ TypeOK /\ ReadInv /\ RunInv

LEMMA KnownAlways == Spec => []Known
<1>1. Init => Known
  BY InitInv, InitTypes, InitRun DEF Known
<1>2. Known /\ [Next]_vars => Known'
  BY NextInv, TypeStep, ReadStep, RunStep DEF Known
<1>3. QED
  BY <1>1, <1>2, PTL DEF Spec

\* Settled: a file that a run has just replaced, and nobody else since the run
\* began, is one in which the same pipeline finds nothing to do, for any tracks,
\* settings and preference (pipeline.py:154-174, default_audio_pipeline.py).
THEOREM DoneIsDone == Spec => []Settled
<1>1. ASSUME Known PROVE Settled
  <2>1. outcome = "success" /\ ~disturbed
          => NothingToDo(job.kind, DecideFor(config, job.kind, file.audio))
    BY <1>1 DEF Known, RunInv
  <2>2. Decide(job.kind, file.audio) = DecideFor(config, job.kind, file.audio)
    BY DecideIs
  <2>3. QED
    BY <2>1, <2>2 DEF Settled
<1>2. QED
  BY <1>1, KnownAlways, PTL

\* ImplementsPromise: every step of the pipelines, the cancelling thread, a
\* crash or an upgrade is a step of AtomicSwap or leaves it as it was
\* (apply.py:1-40, the app's core data-safety guarantee).
THEOREM EnginePromise == Spec => ImplementsPromise
<1> DEFINE phase == CASE pc = "idle" -> "idle" [] pc = "report" -> "replaced"
                      [] OTHER -> "running"
<1>1. Init => Promise!Init
  BY DownmixAssumption DEF Init, Promise!Init
<1>2. ASSUME Known, [Next]_vars
      PROVE  [Promise!Next]_(Promise!vars)
  <2>1. /\ pc = "idle" => phase = "idle"
        /\ pc = "report" => phase = "replaced"
        /\ pc \notin {"idle", "report"} => phase = "running"
    OBVIOUS
  <2>2. /\ pc' = "idle" => phase' = "idle"
        /\ pc' = "report" => phase' = "replaced"
        /\ pc' \notin {"idle", "report"} => phase' = "running"
    OBVIOUS
  <2>3. "idle" \notin Stages /\ "report" \notin Stages
    BY DEF Stages
  <2>4. TypeOK /\ RunInv /\ ReadInv
    BY <1>2 DEF Known
  <2> HIDE DEF phase
  <2> DEFINE Stutter == UNCHANGED <<file, phase, outcome, disturbed>>
  <2>5. ASSUME Stutter PROVE [Promise!Next]_(Promise!vars)
    BY <2>5 DEF Promise!vars, phase
  <2>6. CASE StageFails \/ Raises
    <3>1. /\ pc \notin {"idle", "report"} /\ pc' = "idle" /\ UNCHANGED <<file, disturbed>>
          /\ outcome' \in {"failed", "raised"}
      BY <2>3, <2>6 DEF StageFails, Raises, Finish
    <3>2. Promise!Report
      BY <2>1, <2>2, <3>1 DEF Promise!Report, phase
    <3>3. QED
      BY <3>2 DEF Promise!Next
  <2>7. CASE Probed
    <3>1. pc = "probe" /\ UNCHANGED <<file, disturbed>>
      BY <2>7 DEF Probed
    <3>2. CASE pc' = "idle"
      <4>1. outcome' = "nothing_to_do"
        BY <2>7, <3>2 DEF Probed, Finish
      <4>2. Promise!Report
        BY <2>1, <2>2, <3>1, <3>2, <4>1 DEF Promise!Report, phase
      <4>3. QED
        BY <4>2 DEF Promise!Next
    <3>3. CASE pc' # "idle"
      <4>1. pc' = "reserve" /\ UNCHANGED outcome
        BY <2>7, <3>3 DEF Probed, Finish
      <4>2. QED
        BY <2>1, <2>2, <2>5, <3>1, <4>1
    <3>4. QED
      BY <3>2, <3>3
  <2>8. CASE TempProbed
    <3>1. pc = "probe_temp" /\ UNCHANGED <<file, disturbed>>
      BY <2>8 DEF TempProbed
    <3>2. CASE pc' = "idle"
      <4>1. outcome' = "failed"
        BY <2>8, <3>2 DEF TempProbed, Finish
      <4>2. Promise!Report
        BY <2>1, <2>2, <3>1, <3>2, <4>1 DEF Promise!Report, phase
      <4>3. QED
        BY <4>2 DEF Promise!Next
    <3>3. CASE pc' # "idle"
      <4>1. pc' = "swap" /\ UNCHANGED outcome
        BY <2>8, <3>3 DEF TempProbed, Finish
      <4>2. QED
        BY <2>1, <2>2, <2>5, <3>1, <4>1
    <3>4. QED
      BY <3>2, <3>3
  <2>9. CASE Reserve \/ RemuxDone \/ OriginalProbed
    <3>1. /\ pc \in {"reserve", "remux", "probe_original"}
          /\ pc' \in {"remux", "probe_original", "probe_temp"}
          /\ UNCHANGED <<file, outcome, disturbed>>
      BY <2>9 DEF Reserve, RemuxDone, OriginalProbed
    <3>2. QED
      BY <2>1, <2>2, <2>5, <3>1
  <2>10. CASE Swap
    <3>1. /\ pc = "swap" /\ pc' = "report" /\ file' = temp /\ UNCHANGED <<outcome, disturbed>>
      BY <2>10 DEF Swap
    <3>2. temp \in MediaFile
      BY <2>4, <3>1 DEF ReadInv
    <3>3. disturbed \/ Additive(file, temp)
      BY <2>4, <3>1, SwapSettles
    <3>4. Promise!Replace
      BY <2>1, <2>2, <3>1, <3>2, <3>3 DEF Promise!Replace, phase
    <3>5. QED
      BY <3>4 DEF Promise!Next
  <2>11. CASE Report
    <3>1. /\ pc = "report" /\ pc' = "idle" /\ outcome' = "success"
          /\ UNCHANGED <<file, disturbed>>
      BY <2>11 DEF Report, Finish
    <3>2. Promise!Report
      BY <2>1, <2>2, <3>1 DEF Promise!Report, phase
    <3>3. QED
      BY <3>2 DEF Promise!Next
  <2>12. ASSUME NEW kind \in JobKinds, Start(kind) PROVE [Promise!Next]_(Promise!vars)
    <3>1. /\ pc = "idle" /\ pc' = "probe" /\ outcome' = "none" /\ disturbed' = FALSE
          /\ UNCHANGED file
      BY <2>12 DEF Start
    <3>2. Promise!Begin
      BY <2>1, <2>2, <3>1 DEF Promise!Begin, phase
    <3>3. QED
      BY <3>2 DEF Promise!Next
  <2>13. ASSUME NEW m \in Library, Upgrade(m) PROVE [Promise!Next]_(Promise!vars)
    <3>1. file' \in MediaFile /\ disturbed' = TRUE /\ UNCHANGED <<pc, outcome>>
      BY <2>13, DownmixAssumption DEF Upgrade
    <3>2. phase' = phase
      BY <3>1 DEF phase
    <3>3. Promise!Upgrade
      BY <3>1, <3>2 DEF Promise!Upgrade, phase
    <3>4. QED
      BY <3>3 DEF Promise!Next
  <2>14. CASE Crash
    <3>1. pc # "idle" /\ pc' = "idle" /\ UNCHANGED <<file, outcome, disturbed>>
      BY <2>14 DEF Crash
    <3>2. phase # "idle" /\ phase' = "idle"
      BY <2>1, <2>2, <3>1
    <3>3. Promise!Crash
      BY <3>1, <3>2 DEF Promise!Crash, phase
    <3>4. QED
      BY <3>3 DEF Promise!Next
  <2>15. CASE \/ Spawn \/ Attach \/ Cancel \/ Kill \/ UNCHANGED vars
              \/ \E code \in {"ok", "failed"} : Exits(code)
    <3>1. UNCHANGED <<file, pc, outcome, disturbed>>
      BY <2>15 DEF Spawn, Attach, Cancel, Kill, vars, Exits
    <3>2. phase' = phase
      BY <3>1 DEF phase
    <3>3. QED
      BY <2>5, <3>1, <3>2
  <2>16. QED
    BY <1>2, <2>6, <2>7, <2>8, <2>9, <2>10, <2>11, <2>12, <2>13, <2>14, <2>15 DEF Next, Work
<1>3. QED
  BY <1>1, <1>2, KnownAlways, PTL DEF Spec, ImplementsPromise, Promise!Spec
=============================================================================

---------------------------- MODULE AudioTracks ----------------------------
(***************************************************************************)
(* The pure rules of the downmix engine: which tracks a file lacks, from   *)
(* which existing track each is made, which track should be the default    *)
(* one, and what audio the remuxed file then carries                       *)
(* (collapsarr/downmix/targets.py, default_audio.py, remux.py).            *)
(*                                                                         *)
(* A track is what ffprobe reports of an audio stream, cut down to what    *)
(* the rules read: its language, channel count and default flag.  "made"   *)
(* tells a track of the original from one encoded by this program; no rule *)
(* reads it.  A file's audio is a sequence of tracks, so a position in it  *)
(* is the a:N number of the ffmpeg command plus one.                       *)
(***************************************************************************)
EXTENDS Naturals, Sequences

CONSTANT LanguageOrder  \* the language tags that occur, in alphabetical order

Languages == {LanguageOrder[i] : i \in DOMAIN LanguageOrder}

ASSUME LanguagesAssumption ==
    /\ LanguageOrder \in Seq(STRING)
    /\ \A i, j \in DOMAIN LanguageOrder :
          i # j => LanguageOrder[i] # LanguageOrder[j]

\* Position 0 stands for Python's None: no track.
NoTrack == 0

TargetOrder == <<"stereo", "2.1", "5.1">>

DownmixTargets == {"stereo", "2.1", "5.1"}

TargetChannels == [t \in DownmixTargets |->
                     CASE t = "stereo" -> 2 [] t = "2.1" -> 3 [] t = "5.1" -> 6]

AudioTrack == [language : Languages, channels : Nat \ {0},
               isDefault : BOOLEAN, made : BOOLEAN]

\* language_allow_list = None is the set of all languages.
DownmixSettings == [enabled : SUBSET DownmixTargets, allow : SUBSET Languages]

QualifyingTarget == [language : Languages, target : DownmixTargets]

DefaultAudioPreference == [language : Languages, tier : DownmixTargets]

-----------------------------------------------------------------------------
(* Target detection: targets.py *)

ChannelsOf(streams, language) ==
    {streams[i].channels : i \in {k \in DOMAIN streams : streams[k].language = language}}

\* Slip: a tier that is already there is wanted again.
QualifiesAgain(streams, settings, q) ==
    /\ q.target \in settings.enabled
    /\ q.language \in settings.allow
    /\ \E c \in ChannelsOf(streams, q.language) : TargetChannels[q.target] < c

\* A target is wanted for a language when it is enabled, the language is
\* allowed, one of its streams has more channels and none exactly as many.
Qualifies(streams, settings, q) ==
    LET existing == ChannelsOf(streams, q.language)
        wanted   == TargetChannels[q.target]
    IN  /\ q.target \in settings.enabled
        /\ q.language \in settings.allow
        /\ wanted \notin existing
        /\ \E c \in existing : wanted < c

\* Every pair, languages alphabetically and targets by channel count.
AllPairs ==
    [i \in 1..(Len(LanguageOrder) * Len(TargetOrder)) |->
        [language |-> LanguageOrder[((i - 1) \div Len(TargetOrder)) + 1],
         target   |-> TargetOrder[((i - 1) % Len(TargetOrder)) + 1]]]

DetectQualifyingTargets(streams, settings) ==
    LET found[i \in 0..Len(AllPairs)] ==
          CASE i = 0 -> <<>>
            [] i > 0 /\ Qualifies(streams, settings, AllPairs[i]) ->
                  Append(found[i - 1], AllPairs[i])
            [] OTHER -> found[i - 1]
    IN  found[Len(AllPairs)]

-----------------------------------------------------------------------------
(* Selection of one stream: remux.py, default_audio.py *)

\* Most channels; among those the first.
BestAvailable(streams, candidates) ==
    CHOOSE i \in candidates :
        \A j \in candidates : \/ streams[j].channels < streams[i].channels
                              \/ streams[j].channels = streams[i].channels /\ i <= j

InLanguage(streams, language) ==
    {i \in DOMAIN streams : streams[i].language = language}

\* Slip: positions counted from zero.
SourceOfZeroBased(streams, q) ==
    BestAvailable(streams, InLanguage(streams, q.language)) - 1

\* The stream a new track is downmixed from.
SourceOf(streams, q) == BestAvailable(streams, InLanguage(streams, q.language))

ResolveDefaultAudioStream(streams, preference) ==
    LET same  == InLanguage(streams, preference.language)
        exact == {i \in same : streams[i].channels = TargetChannels[preference.tier]}
    IN  CASE Len(streams) < 2 -> NoTrack
          [] Len(streams) >= 2 /\ exact # {} ->
                CHOOSE i \in exact : \A j \in exact : i <= j
          [] Len(streams) >= 2 /\ exact = {} /\ same # {} ->
                BestAvailable(streams, same)
          [] OTHER -> BestAvailable(streams, DOMAIN streams)

\* The winner has the default flag and nobody else has it.
AlreadyCorrect(streams, winner) ==
    \A i \in DOMAIN streams : streams[i].isDefault <=> i = winner

\* What the resolver takes the remuxed file to be: the existing streams, then
\* one stream per target, each assumed to start without the default flag.
FinalAudioLayout(streams, targets) ==
    streams \o [k \in DOMAIN targets |->
                  [language  |-> targets[k].language,
                   channels  |-> TargetChannels[targets[k].target],
                   isDefault |-> FALSE,
                   made      |-> TRUE]]

ResolveDefaultAudioOutputIndex(streams, targets, preference) ==
    LET layout == FinalAudioLayout(streams, targets)
        winner == ResolveDefaultAudioStream(layout, preference)
    IN  IF winner = NoTrack \/ AlreadyCorrect(layout, winner) THEN NoTrack ELSE winner

-----------------------------------------------------------------------------
(* The remux command's effect: remux.py.  Every input stream is mapped, then  *)
(* the source of each target; the options name output tracks by position, and *)
(* the positions come from the streams probed earlier.  A track with encoder  *)
(* options is encoded, any other copied; ffmpeg hands a stream's default flag *)
(* on to the track made from it, copied or encoded, unless the command sets   *)
(* the flag: build_remux_command sets all of them or none.                    *)

RemuxCommand == [sources : Seq(Nat \ {0}), targets : Seq(QualifyingTarget),
                 newAudioStart : Nat, defaultIndex : Nat]

BuildRemuxCommand(streams, targets, defaultIndex) ==
    [sources       |-> [k \in DOMAIN targets |-> SourceOf(streams, targets[k])],
     targets       |-> targets,
     newAudioStart |-> Len(streams),
     defaultIndex  |-> defaultIndex]

\* -map 0:<index> names a stream the input does not have: ffmpeg exits non-zero.
SourcesExist(input, command) ==
    \A k \in DOMAIN command.sources : command.sources[k] \in DOMAIN input

RemuxedAudio(input, command) ==
    LET mapped == input \o [k \in DOMAIN command.sources |-> input[command.sources[k]]]
        total  == command.newAudioStart + Len(command.sources)
        isDefault(i) == IF command.defaultIndex # NoTrack /\ i <= total
                        THEN i = command.defaultIndex
                        ELSE mapped[i].isDefault
        encoded(k) == [language |-> command.targets[k].language,
                       channels |-> TargetChannels[command.targets[k].target],
                       made     |-> TRUE]
        track(i) == LET k == i - command.newAudioStart
                    IN  IF i > command.newAudioStart /\ k \in DOMAIN command.targets
                        THEN encoded(k)
                        ELSE [language |-> mapped[i].language,
                              channels |-> mapped[i].channels,
                              made     |-> mapped[i].made]
    IN  [i \in DOMAIN mapped |->
            [language |-> track(i).language, channels |-> track(i).channels,
             made |-> track(i).made, isDefault |-> isDefault(i)]]
=============================================================================

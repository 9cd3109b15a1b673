----------------------------- MODULE MCDownmix -----------------------------
(***************************************************************************)
(* Small instance of Downmix for TLC: two languages, files of one to three *)
(* audio tracks.                                                           *)
(***************************************************************************)
EXTENDS Downmix

MCLanguageOrder == <<"eng", "fre">>

Track(l, c, d) == [language |-> l, channels |-> c, isDefault |-> d, made |-> FALSE]

Film(audio) == [audio |-> audio, other |-> 1, duration |-> 20]

\* Two languages; a commentary beside the default track; two default tracks.
MCLibrary ==
    {Film(<<Track("eng", 8, FALSE), Track("fre", 6, TRUE)>>),
     Film(<<Track("eng", 6, TRUE), Track("eng", 3, FALSE)>>),
     Film(<<Track("fre", 2, TRUE), Track("eng", 6, TRUE), Track("eng", 2, FALSE)>>)}

Stereo(l) == [language |-> l, tier |-> "stereo"]

MCConfigs ==
    {[settings       |-> [enabled |-> {"stereo"}, allow |-> {"eng", "fre"}],
      preference     |-> [language |-> "eng", tier |-> "5.1"],
      autoSetDefault |-> TRUE],
     [settings       |-> [enabled |-> {"stereo", "5.1"}, allow |-> {"eng"}],
      preference     |-> Stereo("fre"),
      autoSetDefault |-> TRUE],
     [settings       |-> [enabled |-> {"stereo", "5.1"}, allow |-> {"eng", "fre"}],
      preference     |-> Stereo("eng"),
      autoSetDefault |-> FALSE]}
=============================================================================

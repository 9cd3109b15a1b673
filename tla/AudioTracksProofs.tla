-------------------------- MODULE AudioTracksProofs -------------------------
(***************************************************************************)
(* What the rules of AudioTracks compute, for every language order and     *)
(* every file.                                                             *)
(***************************************************************************)
EXTENDS AudioTracks, Integers, WellFoundedInduction, TLAPS

\* A set of naturals has a smallest element.
LEMMA Smallest ==
    ASSUME NEW T, T \subseteq Nat, T # {}
    PROVE  \E x \in T : \A y \in T : x <= y
<1> DEFINE R == OpToRel(<, Nat)
<1>1. IsWellFoundedOn(R, Nat)
  BY NatLessThanWellFounded
<1>2. \E x \in T : \A y \in T : ~ (<<y, x>> \in R)
  BY <1>1, WFMin
<1>3. \A x, y \in Nat : y < x => <<y, x>> \in R
  BY DEF OpToRel
<1> HIDE DEF R
<1>4. PICK x \in T : \A y \in T : ~ (<<y, x>> \in R)
  BY <1>2
<1>5. \A y \in T : ~ (y < x)
  BY <1>3, <1>4
<1>6. QED
  BY <1>5

\* Induction, with a set for the predicate.
LEMMA SetInduction ==
    ASSUME NEW G, 0 \in G, \A n \in Nat : n \in G => n + 1 \in G
    PROVE  Nat \subseteq G
<1> SUFFICES ASSUME Nat \ G # {} PROVE FALSE
  OBVIOUS
<1>1. PICK x \in Nat \ G : \A y \in Nat \ G : x <= y
  BY Smallest
<1>2. x # 0 /\ x - 1 \in Nat /\ x - 1 \in G
  BY <1>1
<1>3. QED
  BY <1>1, <1>2

-----------------------------------------------------------------------------
(* Target detection *)

LEMMA PairsAreAll ==
    /\ AllPairs \in Seq(QualifyingTarget)
    /\ \A q \in QualifyingTarget : \E i \in 1..Len(AllPairs) : AllPairs[i] = q
<1> DEFINE L == Len(LanguageOrder)
<1>1. L \in Nat /\ DOMAIN LanguageOrder = 1..L
  BY LanguagesAssumption
<1>2. /\ Len(TargetOrder) = 3 /\ TargetOrder[1] = "stereo"
      /\ TargetOrder[2] = "2.1" /\ TargetOrder[3] = "5.1"
  BY DEF TargetOrder
<1>3. \A i \in 1..(L * 3) : /\ ((i - 1) \div 3) + 1 \in 1..L
                            /\ ((i - 1) % 3) + 1 \in 1..3
  BY <1>1
<1>4. /\ DOMAIN AllPairs = 1..(L * 3)
      /\ \A i \in 1..(L * 3) :
            AllPairs[i] = [language |-> LanguageOrder[((i - 1) \div 3) + 1],
                           target   |-> TargetOrder[((i - 1) % 3) + 1]]
  BY <1>2 DEF AllPairs
<1>5. \A b \in 1..3 : TargetOrder[b] \in DownmixTargets
  BY <1>2 DEF DownmixTargets
<1>6. ASSUME NEW i \in 1..(L * 3) PROVE AllPairs[i] \in QualifyingTarget
  <2> DEFINE a == ((i - 1) \div 3) + 1
             b == ((i - 1) % 3) + 1
  <2>1. a \in 1..L /\ b \in 1..3
    BY <1>3
  <2>2. AllPairs[i] = [language |-> LanguageOrder[a], target |-> TargetOrder[b]]
    BY <1>4
  <2> HIDE DEF a, b
  <2>3. LanguageOrder[a] \in Languages /\ TargetOrder[b] \in DownmixTargets
    BY <1>1, <1>5, <2>1 DEF Languages
  <2>4. QED
    BY <2>2, <2>3 DEF QualifyingTarget
<1>7. AllPairs \in Seq(QualifyingTarget) /\ Len(AllPairs) = L * 3
  <2>1. L * 3 \in Nat
    BY <1>1
  <2>2. AllPairs \in [1..(L * 3) -> QualifyingTarget]
    BY <1>2, <1>4, <1>6 DEF AllPairs
  <2>3. QED
    BY <2>1, <2>2
<1>8. ASSUME NEW q \in QualifyingTarget PROVE \E i \in 1..Len(AllPairs) : AllPairs[i] = q
  <2>1. PICK a \in 1..L : LanguageOrder[a] = q.language
    BY <1>1 DEF QualifyingTarget, Languages
  <2>2. PICK b \in 1..3 : TargetOrder[b] = q.target
    BY <1>2 DEF QualifyingTarget, DownmixTargets
  <2> DEFINE i == (a - 1) * 3 + b
  <2>3. /\ i \in 1..(L * 3)
        /\ ((i - 1) \div 3) + 1 = a /\ ((i - 1) % 3) + 1 = b
    BY <1>1, <2>1, <2>2
  <2> HIDE DEF i
  <2>4. AllPairs[i] = [language |-> LanguageOrder[a], target |-> TargetOrder[b]]
    BY <1>4, <2>3
  <2>5. QED
    BY <1>7, <2>1, <2>2, <2>3, <2>4 DEF QualifyingTarget
<1>9. QED
  BY <1>7, <1>8

LEMMA PairsDiffer ==
    \A i, j \in 1..Len(AllPairs) : i < j => AllPairs[i] # AllPairs[j]
<1> DEFINE L == Len(LanguageOrder)
           a(i) == ((i - 1) \div 3) + 1
           b(i) == ((i - 1) % 3) + 1
<1>1. /\ L \in Nat /\ DOMAIN LanguageOrder = 1..L /\ Len(AllPairs) = L * 3
      /\ \A i \in 1..(L * 3) : AllPairs[i] = [language |-> LanguageOrder[a(i)],
                                           target   |-> TargetOrder[b(i)]]
  BY LanguagesAssumption DEF AllPairs, TargetOrder
<1>2. \A i \in 1..(L * 3) : /\ a(i) \in 1..L /\ b(i) \in 1..3
                            /\ i = (a(i) - 1) * 3 + b(i)
  <2> SUFFICES ASSUME NEW i \in 1..(L * 3)
               PROVE  a(i) \in 1..L /\ b(i) \in 1..3 /\ i = (a(i) - 1) * 3 + b(i)
    OBVIOUS
  <2>1. i - 1 \in Nat /\ i - 1 < L * 3
    BY <1>1
  <2>2. a(i) \in 1..L /\ b(i) \in 1..3
    BY <1>1, <2>1
  <2>3. i - 1 = 3 * ((i - 1) \div 3) + ((i - 1) % 3)
    BY <2>1
  <2>4. (a(i) - 1) * 3 + b(i) = i
    BY <2>1, <2>3
  <2>5. QED
    BY <2>2, <2>4
<1> HIDE DEF a, b
<1>3. \A c, d \in 1..3 : TargetOrder[c] = TargetOrder[d] => c = d
  BY DEF TargetOrder
<1>4. ASSUME NEW i \in 1..(L * 3), NEW j \in 1..(L * 3), AllPairs[i] = AllPairs[j]
      PROVE  i = j
  <2>1. LanguageOrder[a(i)] = LanguageOrder[a(j)] /\ TargetOrder[b(i)] = TargetOrder[b(j)]
    BY <1>1, <1>4
  <2>2. a(i) = a(j) /\ b(i) = b(j)
    BY <1>1, <1>2, <1>3, <2>1, LanguagesAssumption
  <2>3. QED
    BY <1>2, <2>2
<1>5. QED
  BY <1>1, <1>4

\* The loop over the pairs is well defined: it is what its steps make of it.
LEMMA DetectionSteps ==
    ASSUME NEW streams, NEW settings
    PROVE  \E found :
              /\ DetectQualifyingTargets(streams, settings) = found[Len(AllPairs)]
              /\ found[0] = <<>>
              /\ \A i \in 1..Len(AllPairs) :
                    found[i] = IF Qualifies(streams, settings, AllPairs[i])
                               THEN Append(found[i - 1], AllPairs[i])
                               ELSE found[i - 1]
<1> DEFINE N       == Len(AllPairs)
           Q(i)    == Qualifies(streams, settings, AllPairs[i])
           S(f, i) == CASE i = 0 -> <<>>
                        [] i > 0 /\ Q(i) -> Append(f[i - 1], AllPairs[i])
                        [] OTHER -> f[i - 1]
           Found   == CHOOSE f : f = [i \in 0..N |-> S(f, i)]
           G       == {m \in Nat : \E f : f = [i \in 0..m |-> S(f, i)]}
<1>1. DetectQualifyingTargets(streams, settings) = Found[N]
  BY DEF DetectQualifyingTargets
<1>2. N \in Nat
  BY PairsAreAll
<1> HIDE DEF N, Q
<1>3. 0 \in G
  <2> DEFINE f == [i \in 0..0 |-> <<>>]
  <2>1. f = [i \in 0..0 |-> S(f, i)]
    OBVIOUS
  <2>2. QED
    BY <2>1
<1>4. ASSUME NEW m \in Nat, m \in G PROVE m + 1 \in G
  <2>1. PICK f : f = [i \in 0..m |-> S(f, i)]
    BY <1>4
  <2> DEFINE g == [i \in 0..(m + 1) |-> IF i = m + 1 THEN S(f, m + 1) ELSE f[i]]
  <2>2. \A i \in 0..(m + 1) : S(g, i) = S(f, i)
    OBVIOUS
  <2>3. \A i \in 0..m : f[i] = S(f, i)
    BY <2>1
  <2>4. g = [i \in 0..(m + 1) |-> S(g, i)]
    <3>1. \A i \in 0..(m + 1) : g[i] = S(f, i)
      BY <2>3
    <3>2. QED
      BY <2>2, <3>1
  <2> HIDE DEF g, S
  <2>5. QED
    BY <2>4
<1>5. \E f : f = [i \in 0..N |-> S(f, i)]
  <2> HIDE DEF S
  <2>1. N \in G
    BY <1>2, <1>3, <1>4, SetInduction
  <2>2. QED
    BY <2>1
<1>6. Found = [i \in 0..N |-> S(Found, i)]
  BY <1>5
<1>7. Found[0] = <<>>
  <2>1. Found[0] = S(Found, 0)
    <3> HIDE DEF S, Found
    <3>1. QED
      BY <1>2, <1>6
  <2> HIDE DEF Found
  <2>2. QED
    BY <2>1
<1>8. \A i \in 1..N : Found[i] = IF Q(i) THEN Append(Found[i - 1], AllPairs[i]) ELSE Found[i - 1]
  <2>1. ASSUME NEW i \in 1..N PROVE Found[i] = S(Found, i)
    <3> HIDE DEF S, Found
    <3>1. QED
      BY <1>2, <1>6
  <2> HIDE DEF Found
  <2>2. QED
    BY <1>2, <2>1
<1>9. QED
  BY <1>1, <1>7, <1>8 DEF N, Q

\* What the loop has found among the first m pairs.
FoundIn(s, m, streams, settings) ==
    /\ s \in Seq(QualifyingTarget)
    /\ \A k \in 1..Len(s) : Qualifies(streams, settings, s[k])
    /\ \A i \in 1..m : Qualifies(streams, settings, AllPairs[i]) =>
          \E k \in 1..Len(s) : s[k] = AllPairs[i]
    /\ \E at \in [1..Len(s) -> 1..m] :
          /\ \A k \in 1..Len(s) : s[k] = AllPairs[at[k]]
          /\ \A j, k \in 1..Len(s) : j < k => at[j] < at[k]

LEMMA FoundNext ==
    ASSUME NEW streams, NEW settings, NEW m \in Nat, m + 1 <= Len(AllPairs),
           NEW s, FoundIn(s, m, streams, settings)
    PROVE  FoundIn(IF Qualifies(streams, settings, AllPairs[m + 1])
                   THEN Append(s, AllPairs[m + 1]) ELSE s, m + 1, streams, settings)
<1> DEFINE Q(q) == Qualifies(streams, settings, q)
           p    == AllPairs[m + 1]
<1>1. Len(AllPairs) \in Nat /\ m + 1 \in 1..Len(AllPairs) /\ p \in QualifyingTarget
  BY PairsAreAll
<1>2. /\ s \in Seq(QualifyingTarget)
      /\ \A k \in 1..Len(s) : Q(s[k])
      /\ \A i \in 1..m : Q(AllPairs[i]) => \E k \in 1..Len(s) : s[k] = AllPairs[i]
  BY DEF FoundIn
<1>3. PICK at \in [1..Len(s) -> 1..m] :
         /\ \A k \in 1..Len(s) : s[k] = AllPairs[at[k]]
         /\ \A j, k \in 1..Len(s) : j < k => at[j] < at[k]
  BY DEF FoundIn
<1>4. Len(s) \in Nat
  BY <1>2
<1> HIDE DEF Q
<1>5. CASE Q(p)
  <2> DEFINE t   == Append(s, p)
             att == [k \in 1..(Len(s) + 1) |-> IF k = Len(s) + 1 THEN m + 1 ELSE at[k]]
  <2>1. /\ t \in Seq(QualifyingTarget) /\ Len(t) = Len(s) + 1
        /\ \A k \in 1..Len(s) : t[k] = s[k]
        /\ t[Len(s) + 1] = p
    BY <1>1, <1>2
  <2>2. \A k \in 1..Len(t) : Q(t[k])
    BY <1>2, <1>4, <1>5, <2>1
  <2>3. ASSUME NEW i \in 1..(m + 1), Q(AllPairs[i])
        PROVE  \E k \in 1..Len(t) : t[k] = AllPairs[i]
    <3> HIDE DEF t
    <3>1. CASE i = m + 1
      BY <1>4, <2>1, <3>1
    <3>2. CASE i \in 1..m
      BY <1>2, <1>4, <2>1, <2>3, <3>2
    <3>3. QED
      BY <3>1, <3>2
  <2>4. /\ att \in [1..Len(t) -> 1..(m + 1)]
        /\ \A k \in 1..Len(t) : t[k] = AllPairs[att[k]]
        /\ \A j, k \in 1..Len(t) : j < k => att[j] < att[k]
    <3> HIDE DEF t
    <3>1. \A k \in 1..Len(s) : at[k] \in 1..m
      BY <1>3
    <3>2. att \in [1..Len(t) -> 1..(m + 1)]
      BY <1>4, <2>1, <3>1
    <3>3. \A k \in 1..Len(t) : t[k] = AllPairs[att[k]]
      BY <1>3, <1>4, <2>1
    <3>4. ASSUME NEW j \in 1..Len(t), NEW k \in 1..Len(t), j < k PROVE att[j] < att[k]
      <4>1. j \in 1..Len(s) /\ att[j] = at[j] /\ at[j] \in 1..m
        BY <1>4, <2>1, <3>1, <3>4
      <4>2. CASE k = Len(s) + 1
        BY <1>4, <2>1, <4>1, <4>2
      <4>3. CASE k \in 1..Len(s)
        BY <1>3, <1>4, <3>4, <4>1, <4>3
      <4>4. QED
        BY <1>4, <2>1, <4>2, <4>3
    <3>5. QED
      BY <3>2, <3>3, <3>4
  <2> HIDE DEF t, att
  <2>5. FoundIn(t, m + 1, streams, settings)
    BY <2>1, <2>2, <2>3, <2>4 DEF FoundIn, Q
  <2>6. QED
    BY <1>5, <2>5 DEF t, Q
<1>6. CASE ~Q(p)
  <2>1. \A i \in 1..(m + 1) : Q(AllPairs[i]) => i \in 1..m
    BY <1>6
  <2>2. at \in [1..Len(s) -> 1..(m + 1)]
    BY <1>3
  <2>3. FoundIn(s, m + 1, streams, settings)
    BY <1>2, <1>3, <2>1, <2>2 DEF FoundIn, Q
  <2>4. QED
    BY <1>6, <2>3 DEF Q
<1>7. QED
  BY <1>5, <1>6

\* Detection returns each pair that qualifies, once, and nothing else
\* (targets.py, detect_qualifying_targets).
THEOREM DetectionIsExact ==
    ASSUME NEW streams, NEW settings
    PROVE  LET found == DetectQualifyingTargets(streams, settings)
           IN  /\ found \in Seq(QualifyingTarget)
               /\ \A k \in 1..Len(found) : Qualifies(streams, settings, found[k])
               /\ \A q \in QualifyingTarget : Qualifies(streams, settings, q) =>
                     \E k \in 1..Len(found) : found[k] = q
               /\ \A j, k \in 1..Len(found) : found[j] = found[k] => j = k
<1> DEFINE N     == Len(AllPairs)
           found == DetectQualifyingTargets(streams, settings)
<1>1. PICK f : /\ found = f[N] /\ f[0] = <<>>
               /\ \A i \in 1..N : f[i] = IF Qualifies(streams, settings, AllPairs[i])
                                         THEN Append(f[i - 1], AllPairs[i])
                                         ELSE f[i - 1]
  BY DetectionSteps
<1>2. N \in Nat
  BY PairsAreAll
<1> DEFINE G == {m \in Nat : m <= N => FoundIn(f[m], m, streams, settings)}
<1>3. 0 \in G
  <2> DEFINE at == [k \in 1..Len(f[0]) |-> k]
  <2>1. f[0] = <<>> /\ 1..Len(f[0]) = {}
    BY <1>1
  <2>2. at \in [1..Len(f[0]) -> 1..0]
    BY <2>1
  <2>3. f[0] \in Seq(QualifyingTarget) /\ 1..0 = {}
    BY <2>1
  <2> HIDE DEF at
  <2>4. /\ \A k \in 1..Len(f[0]) : f[0][k] = AllPairs[at[k]]
        /\ \A j, k \in 1..Len(f[0]) : j < k => at[j] < at[k]
    BY <2>1
  <2>5. /\ \A k \in 1..Len(f[0]) : Qualifies(streams, settings, f[0][k])
        /\ \A i \in 1..0 : Qualifies(streams, settings, AllPairs[i]) =>
              \E k \in 1..Len(f[0]) : f[0][k] = AllPairs[i]
    BY <2>1, <2>3
  <2>6. FoundIn(f[0], 0, streams, settings)
    BY <2>2, <2>3, <2>4, <2>5 DEF FoundIn
  <2>7. QED
    BY <2>6
<1>4. ASSUME NEW m \in Nat, m \in G PROVE m + 1 \in G
  <2>1. CASE m + 1 <= N
    <3>1. FoundIn(f[m], m, streams, settings)
      BY <1>2, <1>4, <2>1
    <3>2. f[m + 1] = IF Qualifies(streams, settings, AllPairs[m + 1])
                     THEN Append(f[m], AllPairs[m + 1]) ELSE f[m]
      BY <1>1, <1>2, <2>1
    <3>3. FoundIn(f[m + 1], m + 1, streams, settings)
      BY <2>1, <3>1, <3>2, FoundNext
    <3>4. QED
      BY <3>3
  <2>2. CASE ~(m + 1 <= N)
    BY <2>2
  <2>3. QED
    BY <2>1, <2>2
<1>5. FoundIn(found, N, streams, settings)
  <2>1. N \in G
    <3> HIDE DEF G
    <3>1. QED
      BY <1>2, <1>3, <1>4, SetInduction
  <2>2. QED
    BY <1>1, <1>2, <2>1
<1> HIDE DEF found, G
<1>6. \A j, k \in 1..Len(found) : found[j] = found[k] => j = k
  <2>1. PICK at \in [1..Len(found) -> 1..N] :
           /\ \A k \in 1..Len(found) : found[k] = AllPairs[at[k]]
           /\ \A j, k \in 1..Len(found) : j < k => at[j] < at[k]
    BY <1>5 DEF FoundIn
  <2>2. Len(found) \in Nat
    BY <1>5 DEF FoundIn
  <2>3. ASSUME NEW j \in 1..Len(found), NEW k \in 1..Len(found), j < k, found[j] = found[k]
        PROVE  FALSE
    <3>1. at[j] < at[k] /\ at[j] \in 1..N /\ at[k] \in 1..N
      BY <2>1, <2>3
    <3>2. AllPairs[at[j]] = AllPairs[at[k]]
      BY <2>1, <2>3
    <3>3. QED
      BY <1>2, <3>1, <3>2, PairsDiffer
  <2>4. QED
    BY <2>2, <2>3
<1>7. /\ found \in Seq(QualifyingTarget)
      /\ \A k \in 1..Len(found) : Qualifies(streams, settings, found[k])
  BY <1>5 DEF FoundIn
<1>8. ASSUME NEW q \in QualifyingTarget, Qualifies(streams, settings, q)
      PROVE  \E k \in 1..Len(found) : found[k] = q
  <2>1. PICK i \in 1..N : AllPairs[i] = q
    BY PairsAreAll
  <2>2. QED
    BY <1>5, <1>8, <2>1 DEF FoundIn
<1>9. QED
  BY <1>6, <1>7, <1>8 DEF found

-----------------------------------------------------------------------------
(* Selection of one stream *)

LEMMA ChannelsType == \A t \in DownmixTargets : TargetChannels[t] \in Nat \ {0}
BY DEF TargetChannels, DownmixTargets

\* i comes before every other candidate.
IsBest(streams, candidates, i) ==
    /\ i \in candidates
    /\ \A j \in candidates : \/ streams[j].channels < streams[i].channels
                             \/ streams[j].channels = streams[i].channels /\ i <= j

LEMMA BestExists ==
    ASSUME NEW streams \in Seq(AudioTrack), NEW candidates,
           candidates \subseteq DOMAIN streams, candidates # {}
    PROVE  \E i : IsBest(streams, candidates, i)
<1> DEFINE Best(m, i) == IsBest(streams, candidates \cap 1..m, i)
           G == {m \in Nat : candidates \cap 1..m # {} => \E i : Best(m, i)}
<1>1. /\ Len(streams) \in Nat /\ DOMAIN streams = 1..Len(streams)
      /\ \A i \in 1..Len(streams) : streams[i].channels \in Nat
  <2>1. \A i \in 1..Len(streams) : streams[i] \in AudioTrack
    OBVIOUS
  <2>2. QED
    BY <2>1 DEF AudioTrack
<1>2. 0 \in G
  OBVIOUS
<1>3. ASSUME NEW m \in Nat, m \in G PROVE m + 1 \in G
  <2>1. CASE m + 1 \notin candidates
    <3>1. candidates \cap 1..(m + 1) = candidates \cap 1..m
      BY <1>1, <2>1
    <3>2. candidates \cap 1..(m + 1) # {} => \E i : Best(m + 1, i)
      BY <1>3, <3>1
    <3> HIDE DEF Best
    <3>3. QED
      BY <3>2
  <2>2. CASE m + 1 \in candidates /\ candidates \cap 1..m = {}
    <3>1. candidates \cap 1..(m + 1) = {m + 1}
      BY <1>1, <2>2
    <3>2. Best(m + 1, m + 1)
      BY <1>1, <2>2, <3>1 DEF IsBest
    <3>3. QED
      BY <3>2
  <2>3. CASE m + 1 \in candidates /\ candidates \cap 1..m # {}
    <3>1. PICK i : Best(m, i)
      BY <1>3, <2>3
    <3>2. i \in candidates /\ i \in 1..m /\ i \in 1..Len(streams) /\ m + 1 \in 1..Len(streams)
      BY <1>1, <2>3, <3>1 DEF IsBest
    <3>3. CASE streams[i].channels < streams[m + 1].channels
      <4>1. Best(m + 1, m + 1)
        BY <1>1, <2>3, <3>1, <3>2, <3>3 DEF IsBest
      <4>2. QED
        BY <4>1
    <3>4. CASE ~(streams[i].channels < streams[m + 1].channels)
      <4>1. Best(m + 1, i)
        BY <1>1, <2>3, <3>1, <3>2, <3>4 DEF IsBest
      <4>2. QED
        BY <4>1
    <3>5. QED
      BY <3>3, <3>4
  <2>4. QED
    BY <2>1, <2>2, <2>3
<1>4. Len(streams) \in G
  <2> HIDE DEF G
  <2>1. QED
    BY <1>1, <1>2, <1>3, SetInduction
<1>5. candidates \cap 1..Len(streams) = candidates
  BY <1>1
<1>6. QED
  BY <1>4, <1>5

LEMMA BestIsBest ==
    ASSUME NEW streams \in Seq(AudioTrack), NEW candidates,
           candidates \subseteq DOMAIN streams, candidates # {}
    PROVE  IsBest(streams, candidates, BestAvailable(streams, candidates))
BY BestExists DEF IsBest, BestAvailable

\* Every target that is wanted has a stream to be made from, and that one has
\* more channels.
LEMMA SourceExists ==
    ASSUME NEW streams \in Seq(AudioTrack), NEW settings, NEW q \in QualifyingTarget,
           Qualifies(streams, settings, q)
    PROVE  /\ SourceOf(streams, q) \in DOMAIN streams
           /\ TargetChannels[q.target] < streams[SourceOf(streams, q)].channels
<1>1. PICK i \in DOMAIN streams : /\ streams[i].language = q.language
                                 /\ TargetChannels[q.target] < streams[i].channels
  BY DEF Qualifies, ChannelsOf
<1>2. /\ InLanguage(streams, q.language) \subseteq DOMAIN streams
      /\ i \in InLanguage(streams, q.language)
  BY <1>1 DEF InLanguage
<1>3. IsBest(streams, InLanguage(streams, q.language), SourceOf(streams, q))
  BY <1>2, BestIsBest DEF SourceOf
<1>4. /\ \A j \in DOMAIN streams : streams[j].channels \in Nat
      /\ TargetChannels[q.target] \in Nat
  <2>1. \A j \in DOMAIN streams : streams[j] \in AudioTrack
    OBVIOUS
  <2>2. QED
    BY <2>1, ChannelsType DEF AudioTrack, QualifyingTarget
<1>5. QED
  BY <1>1, <1>2, <1>3, <1>4 DEF IsBest

\* The track to be the default one is a track, if there are two at all.
LEMMA ResolvedType ==
    ASSUME NEW streams \in Seq(AudioTrack), NEW preference
    PROVE  LET winner == ResolveDefaultAudioStream(streams, preference)
           IN  \/ Len(streams) < 2 /\ winner = NoTrack
               \/ Len(streams) >= 2 /\ winner \in DOMAIN streams
<1> DEFINE same  == InLanguage(streams, preference.language)
           exact == {i \in same : streams[i].channels = TargetChannels[preference.tier]}
           first == CHOOSE i \in exact : \A j \in exact : i <= j
<1>1. /\ Len(streams) \in Nat /\ DOMAIN streams = 1..Len(streams)
      /\ same \subseteq DOMAIN streams /\ exact \subseteq DOMAIN streams
  BY DEF InLanguage
<1>2. exact # {} => first \in DOMAIN streams
  <2> HIDE DEF exact
  <2>1. exact \subseteq Nat
    BY <1>1
  <2>2. exact # {} => \E i \in exact : \A j \in exact : i <= j
    BY <2>1, Smallest
  <2>3. QED
    BY <1>1, <2>2
<1>3. same # {} => BestAvailable(streams, same) \in DOMAIN streams
  <2> HIDE DEF same
  <2>1. QED
    BY <1>1, BestIsBest DEF IsBest
<1>4. Len(streams) >= 2 => BestAvailable(streams, DOMAIN streams) \in DOMAIN streams
  BY <1>1, BestIsBest DEF IsBest
<1> HIDE DEF same, exact, first
<1>5. ResolveDefaultAudioStream(streams, preference) =
        CASE Len(streams) < 2 -> NoTrack
          [] Len(streams) >= 2 /\ exact # {} -> first
          [] Len(streams) >= 2 /\ exact = {} /\ same # {} -> BestAvailable(streams, same)
          [] OTHER -> BestAvailable(streams, DOMAIN streams)
  BY DEF ResolveDefaultAudioStream, same, exact, first
<1>6. QED
  BY <1>1, <1>2, <1>3, <1>4, <1>5

\* The choice does not look at the default flags.
LEMMA ResolvedAlike ==
    ASSUME NEW s \in Seq(AudioTrack), NEW t \in Seq(AudioTrack), NEW preference,
           Len(s) = Len(t),
           \A i \in DOMAIN s : s[i].language = t[i].language /\ s[i].channels = t[i].channels
    PROVE  ResolveDefaultAudioStream(s, preference) = ResolveDefaultAudioStream(t, preference)
<1>1. DOMAIN s = DOMAIN t
  OBVIOUS
<1> DEFINE same(u)  == InLanguage(u, preference.language)
           exact(u) == {i \in same(u) : u[i].channels = TargetChannels[preference.tier]}
<1>2. same(s) = same(t) /\ exact(s) = exact(t)
  BY <1>1 DEF InLanguage
<1>3. \A c : c \subseteq DOMAIN s => BestAvailable(s, c) = BestAvailable(t, c)
  <2> SUFFICES ASSUME NEW c, c \subseteq DOMAIN s
               PROVE  BestAvailable(s, c) = BestAvailable(t, c)
    OBVIOUS
  <2>1. \A i, j \in c : s[i].channels = t[i].channels /\ s[j].channels = t[j].channels
    OBVIOUS
  <2>2. QED
    BY <2>1 DEF BestAvailable
<1>4. same(s) \subseteq DOMAIN s
  BY DEF InLanguage
<1>5. QED
  BY <1>1, <1>2, <1>3, <1>4 DEF ResolveDefaultAudioStream

-----------------------------------------------------------------------------
(* The remuxed file *)

\* What ffmpeg makes of a file that the command fits is a sequence of tracks:
\* the old ones in their places, the others behind them.
LEMMA RemuxedType ==
    ASSUME NEW input \in Seq(AudioTrack), NEW command \in RemuxCommand,
           SourcesExist(input, command)
    PROVE  /\ RemuxedAudio(input, command) \in Seq(AudioTrack)
           /\ Len(RemuxedAudio(input, command)) = Len(input) + Len(command.sources)
<1> DEFINE copies == [k \in DOMAIN command.sources |-> input[command.sources[k]]]
           mapped == input \o copies
           out    == RemuxedAudio(input, command)
           start  == command.newAudioStart
<1>1. /\ command.sources \in Seq(Nat \ {0}) /\ command.targets \in Seq(QualifyingTarget)
      /\ start \in Nat
  BY DEF RemuxCommand
<1>2. /\ Len(command.sources) \in Nat /\ DOMAIN command.sources = 1..Len(command.sources)
      /\ \A k \in DOMAIN command.sources : input[command.sources[k]] \in AudioTrack
  BY <1>1 DEF SourcesExist
<1>3. copies \in Seq(AudioTrack) /\ Len(copies) = Len(command.sources)
  <2>1. copies \in [1..Len(command.sources) -> AudioTrack]
    BY <1>2
  <2>2. QED
    BY <1>2, <2>1
<1> HIDE DEF copies
<1>4. mapped \in Seq(AudioTrack) /\ Len(mapped) = Len(input) + Len(command.sources)
  BY <1>3
<1>5. \A i \in DOMAIN mapped : mapped[i] \in AudioTrack
  BY <1>4
<1>6. \A k \in DOMAIN command.targets : /\ command.targets[k].language \in Languages
                                       /\ TargetChannels[command.targets[k].target] \in Nat \ {0}
  <2>1. \A k \in DOMAIN command.targets : command.targets[k] \in QualifyingTarget
    BY <1>1
  <2>2. QED
    BY <2>1, ChannelsType DEF QualifyingTarget
<1>7. DOMAIN out = DOMAIN mapped
  BY DEF RemuxedAudio, copies
<1>8. ASSUME NEW i \in DOMAIN mapped PROVE out[i] \in AudioTrack
  <2> DEFINE k == i - start
             b == IF command.defaultIndex # NoTrack /\ i <= start + Len(command.sources)
                  THEN i = command.defaultIndex ELSE mapped[i].isDefault
  <2>1. b \in BOOLEAN /\ mapped[i] \in AudioTrack
    BY <1>5, <1>8 DEF AudioTrack
  <2>2. \/ /\ k \in DOMAIN command.targets
           /\ out[i] = [language  |-> command.targets[k].language,
                        channels  |-> TargetChannels[command.targets[k].target],
                        made      |-> TRUE,
                        isDefault |-> b]
        \/ out[i] = [language  |-> mapped[i].language,
                     channels  |-> mapped[i].channels,
                     made      |-> mapped[i].made,
                     isDefault |-> b]
    BY <1>8 DEF RemuxedAudio, copies
  <2> HIDE DEF k, b
  <2>3. \A l \in Languages, c \in Nat \ {0}, m, d \in BOOLEAN :
           [language |-> l, channels |-> c, made |-> m, isDefault |-> d] \in AudioTrack
    BY DEF AudioTrack
  <2>4. /\ mapped[i].language \in Languages /\ mapped[i].channels \in Nat \ {0}
        /\ mapped[i].made \in BOOLEAN
    <3> HIDE DEF mapped
    <3>1. QED
      BY <2>1 DEF AudioTrack
  <2> HIDE DEF mapped, out
  <2>5. CASE k \in DOMAIN command.targets /\
             out[i] = [language  |-> command.targets[k].language,
                       channels  |-> TargetChannels[command.targets[k].target],
                       made      |-> TRUE,
                       isDefault |-> b]
    BY <1>6, <2>1, <2>3, <2>5
  <2>6. CASE out[i] = [language  |-> mapped[i].language,
                       channels  |-> mapped[i].channels,
                       made      |-> mapped[i].made,
                       isDefault |-> b]
    BY <2>1, <2>3, <2>4, <2>6
  <2>7. QED
    BY <2>2, <2>5, <2>6
<1>9. out \in [1..Len(mapped) -> AudioTrack]
  <2>1. out = [i \in DOMAIN out |-> out[i]]
    BY DEF RemuxedAudio
  <2> HIDE DEF out, mapped
  <2>2. QED
    BY <1>4, <1>7, <1>8, <2>1
<1> HIDE DEF out, mapped
<1>10. Len(mapped) \in Nat
  BY <1>4
<1>11. QED
  BY <1>4, <1>9, <1>10 DEF out

\* A command built for targets that each have a source is well formed, and the
\* file it was built from has every stream it names.
LEMMA CommandType ==
    ASSUME NEW streams \in Seq(AudioTrack), NEW targets \in Seq(QualifyingTarget),
           NEW defaultIndex \in Nat,
           \A k \in DOMAIN targets : SourceOf(streams, targets[k]) \in DOMAIN streams
    PROVE  LET command == BuildRemuxCommand(streams, targets, defaultIndex)
           IN  /\ command \in RemuxCommand
               /\ SourcesExist(streams, command)
               /\ Len(command.sources) = Len(targets)
<1> DEFINE command == BuildRemuxCommand(streams, targets, defaultIndex)
           sources == [k \in DOMAIN targets |-> SourceOf(streams, targets[k])]
<1>1. /\ Len(targets) \in Nat /\ DOMAIN targets = 1..Len(targets)
      /\ Len(streams) \in Nat /\ DOMAIN streams = 1..Len(streams)
  OBVIOUS
<1>2. sources \in [1..Len(targets) -> Nat \ {0}]
  BY <1>1
<1>3. sources \in Seq(Nat \ {0}) /\ Len(sources) = Len(targets)
  <2> HIDE DEF sources
  <2>1. QED
    BY <1>1, <1>2
<1>4. \A k \in DOMAIN sources : sources[k] \in DOMAIN streams
  OBVIOUS
<1> HIDE DEF sources
<1>5. command = [sources |-> sources, targets |-> targets,
                 newAudioStart |-> Len(streams), defaultIndex |-> defaultIndex]
  BY DEF BuildRemuxCommand, sources
<1> HIDE DEF command
<1>6. QED
  BY <1>1, <1>3, <1>4, <1>5 DEF RemuxCommand, SourcesExist, command

\* A track is the record of its four fields.
Whole(x) == x = [language |-> x.language, channels |-> x.channels,
                 made |-> x.made, isDefault |-> x.isDefault]

LEMMA TrackFields ==
    \A l, c, m, d, x :
        x = [language |-> l, channels |-> c, made |-> m, isDefault |-> d]
           => /\ x.language = l /\ x.channels = c /\ x.made = m /\ x.isDefault = d
              /\ Whole(x)
BY DEF Whole

\* The tracks of a file remuxed as it was probed: the old ones as they were but
\* for the flag, then one for each target.
LEMMA RemuxedTracks ==
    ASSUME NEW streams \in Seq(AudioTrack), NEW targets \in Seq(QualifyingTarget),
           NEW defaultIndex,
           \A k \in DOMAIN targets : SourceOf(streams, targets[k]) \in DOMAIN streams
    PROVE  LET command == BuildRemuxCommand(streams, targets, defaultIndex)
               out     == RemuxedAudio(streams, command)
               n       == Len(streams)
           IN  /\ DOMAIN out = 1..(n + Len(targets))
               /\ \A i \in 1..n : /\ out[i].language = streams[i].language
                                  /\ out[i].channels = streams[i].channels
                                  /\ out[i].made = streams[i].made
               /\ \A k \in 1..Len(targets) :
                     /\ out[n + k].language = targets[k].language
                     /\ out[n + k].channels = TargetChannels[targets[k].target]
               /\ defaultIndex # NoTrack =>
                     \A i \in DOMAIN out : out[i].isDefault <=> i = defaultIndex
               /\ \A i \in DOMAIN out : Whole(out[i])
               /\ defaultIndex \in Nat => /\ out \in Seq(AudioTrack)
                                         /\ Len(out) = n + Len(targets)
<1> DEFINE command == BuildRemuxCommand(streams, targets, defaultIndex)
           out     == RemuxedAudio(streams, command)
           n       == Len(streams)
           copies  == [k \in DOMAIN command.sources |-> streams[command.sources[k]]]
           mapped  == streams \o copies
<1>1. /\ DOMAIN command.sources = 1..Len(targets) /\ command.targets = targets
      /\ command.newAudioStart = n /\ command.defaultIndex = defaultIndex
      /\ n \in Nat /\ Len(targets) \in Nat /\ Len(command.sources) = Len(targets)
  BY DEF BuildRemuxCommand
<1> HIDE DEF command
<1>2. /\ DOMAIN mapped = 1..(n + Len(targets))
      /\ \A i \in 1..n : mapped[i] = streams[i]
  BY <1>1
<1>3. DOMAIN out = DOMAIN mapped
  BY DEF RemuxedAudio
<1> DEFINE b(i) == IF defaultIndex # NoTrack /\ i <= n + Len(targets)
                   THEN i = defaultIndex ELSE mapped[i].isDefault
<1>4. ASSUME NEW i \in 1..(n + Len(targets))
      PROVE  /\ i <= n => out[i] = [language |-> mapped[i].language,
                                   channels |-> mapped[i].channels,
                                   made |-> mapped[i].made, isDefault |-> b(i)]
             /\ i > n => out[i] = [language |-> targets[i - n].language,
                                  channels |-> TargetChannels[targets[i - n].target],
                                  made |-> TRUE, isDefault |-> b(i)]
  <2>1. i > n => i - n \in DOMAIN targets
    BY <1>1
  <2>2. i \in DOMAIN mapped
    BY <1>2
  <2>3. CASE i > n
    <3> DEFINE new == [language |-> targets[i - n].language,
                       channels |-> TargetChannels[targets[i - n].target],
                       made     |-> TRUE]
    <3>1. i > command.newAudioStart /\ i - command.newAudioStart \in DOMAIN command.targets
      BY <1>1, <2>1, <2>3
    <3>2. out[i] = [language |-> new.language, channels |-> new.channels,
                    made |-> new.made, isDefault |-> b(i)]
      BY <1>1, <2>2, <3>1 DEF RemuxedAudio
    <3>3. out[i] = [language |-> targets[i - n].language,
                    channels |-> TargetChannels[targets[i - n].target],
                    made |-> TRUE, isDefault |-> b(i)]
      <4> HIDE DEF out, b
      <4>1. QED
        BY ONLY <3>2
    <3> HIDE DEF out, b, new
    <3>4. QED
      BY <1>1, <2>3, <3>3
  <2>4. CASE ~(i > n)
    BY <1>1, <2>2, <2>4 DEF RemuxedAudio
  <2>5. QED
    BY <1>1, <2>3, <2>4
<1> HIDE DEF out, mapped
<1>5. /\ \A i \in 1..n : out[i] = [language |-> streams[i].language,
                                  channels |-> streams[i].channels,
                                  made |-> streams[i].made, isDefault |-> b(i)]
      /\ \A k \in 1..Len(targets) :
            out[n + k] = [language |-> targets[k].language,
                          channels |-> TargetChannels[targets[k].target],
                          made |-> TRUE, isDefault |-> b(n + k)]
  <2>1. \A i \in 1..n : i \in 1..(n + Len(targets)) /\ i <= n
    BY <1>1
  <2>2. \A k \in 1..Len(targets) :
           n + k \in 1..(n + Len(targets)) /\ n + k > n /\ (n + k) - n = k
    BY <1>1
  <2> HIDE DEF b
  <2>3. \A i \in 1..n : out[i] = [language |-> streams[i].language,
                                 channels |-> streams[i].channels,
                                 made |-> streams[i].made, isDefault |-> b(i)]
    BY <1>2, <1>4, <2>1
  <2>4. ASSUME NEW k \in 1..Len(targets)
        PROVE  out[n + k] = [language |-> targets[k].language,
                             channels |-> TargetChannels[targets[k].target],
                             made |-> TRUE, isDefault |-> b(n + k)]
    BY <1>4, <2>2
  <2>5. QED
    BY <2>3, <2>4
<1>6. \A i \in DOMAIN out : i \in 1..n \/ \E k \in 1..Len(targets) : i = n + k
  <2>1. ASSUME NEW i \in DOMAIN out, i \notin 1..n
        PROVE  i - n \in 1..Len(targets) /\ i = n + (i - n)
    BY <1>1, <1>2, <1>3, <2>1
  <2>2. QED
    BY <2>1
<1>7. \A i \in DOMAIN out : i <= n + Len(targets)
  BY <1>1, <1>2, <1>3
<1> HIDE DEF b
<1>8. ASSUME NEW i \in 1..n
      PROVE  /\ out[i].language = streams[i].language /\ out[i].channels = streams[i].channels
             /\ out[i].made = streams[i].made /\ out[i].isDefault = b(i)
             /\ Whole(out[i])
  <2>1. out[i] = [language |-> streams[i].language, channels |-> streams[i].channels,
                  made |-> streams[i].made, isDefault |-> b(i)]
    BY <1>5
  <2>2. QED
    BY ONLY <2>1, TrackFields
<1>9. ASSUME NEW k \in 1..Len(targets)
      PROVE  /\ out[n + k].language = targets[k].language
             /\ out[n + k].channels = TargetChannels[targets[k].target]
             /\ out[n + k].isDefault = b(n + k)
             /\ Whole(out[n + k])
  <2>1. out[n + k] = [language |-> targets[k].language,
                      channels |-> TargetChannels[targets[k].target],
                      made |-> TRUE, isDefault |-> b(n + k)]
    BY <1>5
  <2>2. QED
    BY ONLY <2>1, TrackFields
<1>10. \A i \in DOMAIN out : out[i].isDefault = b(i) /\ Whole(out[i])
  BY <1>6, <1>8, <1>9
<1>11. defaultIndex # NoTrack =>
          \A i \in DOMAIN out : out[i].isDefault <=> i = defaultIndex
  BY <1>7, <1>10 DEF b
<1>12. DOMAIN out = 1..(n + Len(targets))
  BY <1>2, <1>3
<1>13. defaultIndex \in Nat => out \in Seq(AudioTrack) /\ Len(out) = n + Len(targets)
  <2>1. SUFFICES ASSUME defaultIndex \in Nat
                 PROVE  out \in Seq(AudioTrack) /\ Len(out) = n + Len(targets)
    OBVIOUS
  <2>2. /\ command \in RemuxCommand /\ SourcesExist(streams, command)
        /\ Len(command.sources) = Len(targets)
    BY <2>1, CommandType DEF command
  <2>3. QED
    BY <2>2, RemuxedType DEF out
<1>14. QED
  BY <1>8, <1>9, <1>10, <1>11, <1>12, <1>13 DEF out, command

-----------------------------------------------------------------------------
(* What the rules find in their own output *)

\* The remux of a file as it was probed, for the targets that detection found.
DownmixedAudio(streams, settings, defaultIndex) ==
    RemuxedAudio(streams, BuildRemuxCommand(streams,
        DetectQualifyingTargets(streams, settings), defaultIndex))

\* RemuxedTracks for the targets of a detection.
LEMMA DownmixedTracks ==
    ASSUME NEW streams \in Seq(AudioTrack), NEW settings, NEW defaultIndex
    PROVE  LET targets == DetectQualifyingTargets(streams, settings)
               out     == DownmixedAudio(streams, settings, defaultIndex)
               n       == Len(streams)
           IN  /\ DOMAIN out = 1..(n + Len(targets))
               /\ \A i \in 1..n : /\ out[i].language = streams[i].language
                                  /\ out[i].channels = streams[i].channels
                                  /\ out[i].made = streams[i].made
               /\ \A k \in 1..Len(targets) :
                     /\ out[n + k].language = targets[k].language
                     /\ out[n + k].channels = TargetChannels[targets[k].target]
               /\ \A i \in DOMAIN out : Whole(out[i])
<1> DEFINE targets == DetectQualifyingTargets(streams, settings)
<1>1. /\ targets \in Seq(QualifyingTarget)
      /\ \A k \in 1..Len(targets) : Qualifies(streams, settings, targets[k])
  BY DetectionIsExact
<1> HIDE DEF targets
<1>2. \A k \in DOMAIN targets : SourceOf(streams, targets[k]) \in DOMAIN streams
  <2>1. \A k \in DOMAIN targets : /\ targets[k] \in QualifyingTarget
                                  /\ Qualifies(streams, settings, targets[k])
    BY <1>1
  <2>2. QED
    BY <2>1, SourceExists
<1>3. QED
  BY <1>1, <1>2, RemuxedTracks DEF DownmixedAudio, targets

\* A language's channel counts after the remux: those it had, and one for each
\* of its targets.
LEMMA DownmixedChannels ==
    ASSUME NEW streams \in Seq(AudioTrack), NEW settings, NEW defaultIndex, NEW language
    PROVE  LET targets == DetectQualifyingTargets(streams, settings)
               out     == DownmixedAudio(streams, settings, defaultIndex)
           IN  ChannelsOf(out, language) =
                 ChannelsOf(streams, language) \cup
                   {TargetChannels[targets[k].target] :
                       k \in {j \in 1..Len(targets) : targets[j].language = language}}
<1> DEFINE targets == DetectQualifyingTargets(streams, settings)
           out     == DownmixedAudio(streams, settings, defaultIndex)
           n       == Len(streams)
           made    == {TargetChannels[targets[k].target] :
                          k \in {j \in 1..Len(targets) : targets[j].language = language}}
<1>1. /\ DOMAIN out = 1..(n + Len(targets))
      /\ \A i \in 1..n : /\ out[i].language = streams[i].language
                         /\ out[i].channels = streams[i].channels
      /\ \A k \in 1..Len(targets) : /\ out[n + k].language = targets[k].language
                                    /\ out[n + k].channels = TargetChannels[targets[k].target]
  BY DownmixedTracks
<1>2. n \in Nat /\ Len(targets) \in Nat /\ DOMAIN streams = 1..n
  <2>1. targets \in Seq(QualifyingTarget)
    BY DetectionIsExact
  <2> HIDE DEF targets
  <2>2. QED
    BY <2>1
<1> HIDE DEF targets, out, n
<1>3. ASSUME NEW c \in ChannelsOf(out, language)
      PROVE  c \in ChannelsOf(streams, language) \cup made
  <2>1. PICK i \in DOMAIN out : out[i].language = language /\ c = out[i].channels
    BY <1>3 DEF ChannelsOf
  <2>2. CASE i <= n
    BY <1>1, <1>2, <2>1, <2>2 DEF ChannelsOf
  <2>3. CASE ~(i <= n)
    <3>1. i - n \in 1..Len(targets) /\ n + (i - n) = i
      BY <1>1, <1>2, <2>1, <2>3
    <3>2. targets[i - n].language = language /\ c = TargetChannels[targets[i - n].target]
      BY <1>1, <2>1, <3>1
    <3>3. QED
      BY <3>1, <3>2
  <2>4. QED
    BY <2>2, <2>3
<1>4. ASSUME NEW c \in ChannelsOf(streams, language)
      PROVE  c \in ChannelsOf(out, language)
  <2>1. PICK i \in DOMAIN streams : streams[i].language = language /\ c = streams[i].channels
    BY <1>4 DEF ChannelsOf
  <2>2. i \in DOMAIN out /\ i \in 1..n
    BY <1>1, <1>2, <2>1
  <2>3. QED
    BY <1>1, <2>1, <2>2 DEF ChannelsOf
<1>5. ASSUME NEW c \in made
      PROVE  c \in ChannelsOf(out, language)
  <2>1. PICK k \in 1..Len(targets) : /\ targets[k].language = language
                                     /\ c = TargetChannels[targets[k].target]
    BY <1>5
  <2>2. n + k \in DOMAIN out
    BY <1>1, <1>2, <2>1
  <2>3. QED
    BY <1>1, <2>1, <2>2 DEF ChannelsOf
<1>6. ChannelsOf(out, language) = ChannelsOf(streams, language) \cup made
  <2> HIDE DEF made
  <2>1. QED
    BY <1>3, <1>4, <1>5
<1>7. QED
  BY <1>6 DEF out, targets

\* Downmixing is idempotent: in the file that the remux of every qualifying
\* target makes, under the same settings, detection finds nothing
\* (targets.py:82-131 on the output of remux.py:203-277).  A track is made for
\* one tier and can be the source of none that the original did not want.
THEOREM DownmixIsIdempotent ==
    ASSUME NEW streams \in Seq(AudioTrack), NEW settings, NEW defaultIndex
    PROVE  DetectQualifyingTargets(DownmixedAudio(streams, settings, defaultIndex), settings)
             = <<>>
<1> DEFINE targets == DetectQualifyingTargets(streams, settings)
           out     == DownmixedAudio(streams, settings, defaultIndex)
           again   == DetectQualifyingTargets(out, settings)
           made(l) == {TargetChannels[targets[k].target] :
                          k \in {j \in 1..Len(targets) : targets[j].language = l}}
<1>1. /\ targets \in Seq(QualifyingTarget)
      /\ \A k \in 1..Len(targets) : Qualifies(streams, settings, targets[k])
      /\ \A q \in QualifyingTarget : Qualifies(streams, settings, q) =>
            \E k \in 1..Len(targets) : targets[k] = q
  BY DetectionIsExact
<1>2. \A l : ChannelsOf(out, l) = ChannelsOf(streams, l) \cup made(l)
  BY DownmixedChannels
<1>3. /\ again \in Seq(QualifyingTarget)
      /\ \A k \in 1..Len(again) : Qualifies(out, settings, again[k])
  BY DetectionIsExact
<1> HIDE DEF targets, out, again, made
<1>4. ASSUME NEW q \in QualifyingTarget, Qualifies(out, settings, q)
      PROVE  FALSE
  <2> DEFINE wanted == TargetChannels[q.target]
  <2>1. /\ q.target \in settings.enabled /\ q.language \in settings.allow
        /\ wanted \notin ChannelsOf(streams, q.language) /\ wanted \notin made(q.language)
    BY <1>2, <1>4 DEF Qualifies
  <2>2. PICK c \in ChannelsOf(streams, q.language) \cup made(q.language) : wanted < c
    BY <1>2, <1>4 DEF Qualifies
  <2>3. \E d \in ChannelsOf(streams, q.language) : wanted < d
    <3>1. CASE c \in ChannelsOf(streams, q.language)
      BY <2>2, <3>1
    <3>2. CASE c \in made(q.language)
      <4>1. PICK k \in 1..Len(targets) : /\ targets[k].language = q.language
                                         /\ c = TargetChannels[targets[k].target]
        BY <3>2 DEF made
      <4>2. targets[k] \in QualifyingTarget /\ Qualifies(streams, settings, targets[k])
        BY <1>1, <4>1
      <4>3. PICK d \in ChannelsOf(streams, q.language) : c < d
        BY <4>1, <4>2 DEF Qualifies
      <4>4. wanted \in Nat /\ c \in Nat /\ d \in Nat
        <5>1. wanted \in Nat /\ c \in Nat
          BY <4>1, <4>2, ChannelsType DEF QualifyingTarget
        <5>2. PICK i \in DOMAIN streams : d = streams[i].channels
          BY <4>3 DEF ChannelsOf
        <5>3. streams[i] \in AudioTrack
          BY <5>2
        <5>4. QED
          BY <5>1, <5>2, <5>3 DEF AudioTrack
      <4>5. wanted < d
        BY <2>2, <4>3, <4>4
      <4>6. QED
        BY <4>3, <4>5
    <3>3. QED
      BY <2>2, <3>1, <3>2
  <2>4. Qualifies(streams, settings, q)
    BY <2>1, <2>3 DEF Qualifies
  <2>5. PICK k \in 1..Len(targets) : targets[k] = q
    BY <1>1, <2>4
  <2>6. wanted \in made(q.language)
    BY <2>5 DEF made
  <2>7. QED
    BY <2>1, <2>6
<1>5. again = <<>>
  <2>1. CASE Len(again) >= 1
    <3>1. again[1] \in QualifyingTarget /\ Qualifies(out, settings, again[1])
      BY <1>3, <2>1
    <3>2. QED
      BY <1>4, <3>1
  <2>2. CASE ~(Len(again) >= 1)
    BY <1>3, <2>2
  <2>3. QED
    BY <2>1, <2>2
<1>6. QED
  BY <1>5 DEF again, out

\* The remux that only sets the default flag, as the other pipeline asks for it.
RedefaultedAudio(streams, winner) ==
    RemuxedAudio(streams, BuildRemuxCommand(streams, <<>>, winner))

\* Setting the default track is idempotent: in the file made by giving the flag
\* to the resolved track, the same preference resolves to the same track, and it
\* is the only one that has the flag (default_audio.py, resolve_default_audio_stream
\* and is_default_audio_already_correct).
THEOREM DefaultIsIdempotent ==
    ASSUME NEW streams \in Seq(AudioTrack), NEW preference,
           ResolveDefaultAudioStream(streams, preference) # NoTrack
    PROVE  LET winner == ResolveDefaultAudioStream(streams, preference)
               out    == RedefaultedAudio(streams, winner)
           IN  /\ ResolveDefaultAudioStream(out, preference) = winner
               /\ AlreadyCorrect(out, winner)
<1> DEFINE winner == ResolveDefaultAudioStream(streams, preference)
           out    == RedefaultedAudio(streams, winner)
<1>1. winner \in Nat
  BY ResolvedType DEF NoTrack
<1> HIDE DEF winner
<1>2. PICK none \in Seq(QualifyingTarget) : none = <<>> /\ Len(none) = 0
  <2>1. <<>> \in Seq(QualifyingTarget) /\ Len(<<>>) = 0
    OBVIOUS
  <2>2. QED
    BY <2>1
<1>3. \A k \in DOMAIN none : SourceOf(streams, none[k]) \in DOMAIN streams
  BY <1>2
<1>4. Len(streams) \in Nat /\ Len(streams) + Len(none) = Len(streams)
  BY <1>2
<1>5. out = RemuxedAudio(streams, BuildRemuxCommand(streams, none, winner))
  BY <1>2 DEF RedefaultedAudio
<1> HIDE DEF out
<1>6. /\ DOMAIN out = 1..(Len(streams) + Len(none))
      /\ \A i \in 1..Len(streams) : /\ out[i].language = streams[i].language
                                    /\ out[i].channels = streams[i].channels
      /\ winner # NoTrack => \A i \in DOMAIN out : out[i].isDefault <=> i = winner
      /\ out \in Seq(AudioTrack) /\ Len(out) = Len(streams) + Len(none)
  <2> DEFINE o == RemuxedAudio(streams, BuildRemuxCommand(streams, none, winner))
  <2>1. /\ DOMAIN o = 1..(Len(streams) + Len(none))
        /\ \A i \in 1..Len(streams) : /\ o[i].language = streams[i].language
                                      /\ o[i].channels = streams[i].channels
        /\ winner # NoTrack => \A i \in DOMAIN o : o[i].isDefault <=> i = winner
        /\ o \in Seq(AudioTrack) /\ Len(o) = Len(streams) + Len(none)
    BY <1>1, <1>3, RemuxedTracks
  <2>2. QED
    BY <1>5, <2>1
<1>7. ResolveDefaultAudioStream(out, preference) = winner
  BY <1>4, <1>6, ResolvedAlike DEF winner
<1>8. AlreadyCorrect(out, winner)
  BY <1>6 DEF AlreadyCorrect, winner
<1>9. QED
  BY <1>7, <1>8 DEF out, winner

\* The output index that a remux command may carry is a position or NoTrack.
LEMMA OutputIndexType ==
    ASSUME NEW streams \in Seq(AudioTrack), NEW targets \in Seq(QualifyingTarget),
           NEW preference
    PROVE  ResolveDefaultAudioOutputIndex(streams, targets, preference) \in Nat
<1> DEFINE added  == [k \in DOMAIN targets |->
                         [language  |-> targets[k].language,
                          channels  |-> TargetChannels[targets[k].target],
                          isDefault |-> FALSE,
                          made      |-> TRUE]]
           layout == FinalAudioLayout(streams, targets)
<1>1. Len(targets) \in Nat /\ DOMAIN targets = 1..Len(targets)
  OBVIOUS
<1>2. ASSUME NEW k \in DOMAIN targets PROVE added[k] \in AudioTrack
  <2>1. targets[k] \in QualifyingTarget
    BY <1>2
  <2>2. targets[k].language \in Languages /\ TargetChannels[targets[k].target] \in Nat \ {0}
    BY <2>1, ChannelsType DEF QualifyingTarget
  <2>3. QED
    BY <2>2 DEF AudioTrack
<1>3. added \in [1..Len(targets) -> AudioTrack]
  BY <1>1, <1>2
<1> HIDE DEF added
<1>4. added \in Seq(AudioTrack)
  BY <1>1, <1>3
<1>5. layout = streams \o added
  BY DEF FinalAudioLayout, added
<1> HIDE DEF layout
<1>6. layout \in Seq(AudioTrack)
  BY <1>4, <1>5
<1>7. ResolveDefaultAudioStream(layout, preference) \in Nat
  BY <1>6, ResolvedType DEF NoTrack
<1>8. QED
  BY <1>7 DEF ResolveDefaultAudioOutputIndex, NoTrack, layout
=============================================================================

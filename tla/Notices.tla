------------------------------ MODULE Notices -------------------------------
(***************************************************************************)
(* The two notices the program keeps about itself: the state of its health *)
(* checks (health/service.py, health/scheduler.py) and of the update check *)
(* (update_check/service.py, update_check/scheduler.py).                   *)
(*                                                                         *)
(* Each is written by ticks: of the background loop, and of the requests   *)
(* that recheck.  A tick first asks the world (probes, a fetch from        *)
(* GitHub), which takes seconds, and then writes what it was told in one   *)
(* short transaction; ticks overlap, and an older answer may be written    *)
(* last.  Operators dismiss notices.                                       *)
(***************************************************************************)
EXTENDS Naturals

CONSTANTS
    Key,            \* the check keys
    InstanceKey,    \* those of the Arr instances' connectivity
    Loop,           \* the background thread, one of Ticker
    Ticker,         \* the threads that run a tick
    Running,        \* the tag of the build that runs
    MaxChanges,     \* bound on the changes of health and of the instances
    MaxReleases     \* bound on the releases and the changes of the channel

Channel == {"stable", "beta"}
Tag == [channel : Channel, number : 0 .. MaxReleases]
NoTag == [none |-> TRUE]

ASSUME NoticesAssumption ==
    /\ InstanceKey \subseteq Key /\ Loop \in Ticker /\ Running \in Tag
    /\ MaxChanges \in Nat /\ MaxReleases \in Nat

VARIABLES
    ill,        \* the keys with something wrong, in the world
    instances,  \* the instances there are, by their key
    state,      \* the health_check_state rows
    probed,     \* the results each tick holds: failing and passing keys
    latest,     \* the latest release of each channel, at GitHub
    channel,    \* GlobalSettings.update_channel
    update,     \* the update_check_state row
    fetched,    \* the result each tick holds, and its channel
    changes, releases

health == <<ill, instances, state, probed, changes>>
updates == <<latest, channel, update, fetched, releases>>
vars == <<ill, instances, state, probed, latest, channel, update, fetched,
          changes, releases>>

NoRow == [status |-> "none", dismissed |-> FALSE]
HealthRow(status) == [status |-> status, dismissed |-> FALSE]
NoResults == [at |-> "none"]

\* The lifespan runs the first update check before anything is served.
Init ==
    /\ ill \in SUBSET Key /\ instances \in SUBSET InstanceKey
    /\ state = [k \in Key |-> NoRow]
    /\ probed = [t \in Ticker |-> NoResults]
    /\ latest = [c \in Channel |-> [channel |-> c, number |-> 0]]
    /\ channel \in Channel
    /\ update = [channel |-> channel, tag |-> NoTag, dismissed |-> FALSE]
    /\ fetched = [t \in Ticker |-> NoResults]
    /\ changes = 0 /\ releases = 0

------------------------------------------------------------------------------
(* Health checks.                                                          *)

Changed == changes < MaxChanges /\ changes' = changes + 1

Turns(k) ==
    /\ Changed
    /\ ill' = (ill \ {k}) \cup ({k} \ ill)
    /\ UNCHANGED <<instances, state, probed, updates>>

\* create_instance and delete_instance.  The row of a deleted instance stays.
ChangeInstances(k) ==
    /\ Changed
    /\ instances' = (instances \ {k}) \cup ({k} \ instances)
    /\ UNCHANGED <<ill, state, probed, updates>>

Present == (Key \ InstanceKey) \cup instances

\* run_once up to the reconciliation.  A check that raises gives no result.
RunChecks(t) ==
    /\ probed[t] = NoResults
    /\ \E done \in SUBSET Present :
         probed' = [probed EXCEPT ![t] =
                      [at |-> "probed", failing |-> done \cap ill, passing |-> done \ ill]]
    /\ UNCHANGED <<ill, instances, state, changes, updates>>

IsFailing(k) == state[k].status = "failing"

\* As Reconciled, but a key that has failed before is not looked at again.
ReconciledOnce(r, k) ==
    IF k \in r.failing THEN HealthRow("failing")
    ELSE IF k \in r.passing /\ state[k] = NoRow THEN HealthRow("passing")
    ELSE state[k]

\* reconcile_health_results for one key: a new streak is not dismissed.
Reconciled(r, k) ==
    IF k \in r.failing /\ ~IsFailing(k) THEN HealthRow("failing")
    ELSE IF k \in r.passing /\ state[k] = NoRow THEN HealthRow("passing")
    ELSE IF k \in r.passing THEN [state[k] EXCEPT !.status = "passing"]
    ELSE state[k]

ReconcileHealthResults(t) ==
    /\ probed[t] # NoResults
    /\ state' = [k \in Key |-> Reconciled(probed[t], k)]
    /\ probed' = [probed EXCEPT ![t] = NoResults]
    /\ UNCHANGED <<ill, instances, changes, updates>>

DismissHealthCheck(k) ==
    /\ IsFailing(k)
    /\ state' = [state EXCEPT ![k].dismissed = TRUE]
    /\ UNCHANGED <<ill, instances, probed, changes, updates>>

UndismissHealthCheck(k) ==
    /\ state[k] # NoRow
    /\ state' = [state EXCEPT ![k].dismissed = FALSE]
    /\ UNCHANGED <<ill, instances, probed, changes, updates>>

------------------------------------------------------------------------------
(* The update check.                                                       *)

Released == releases < MaxReleases /\ releases' = releases + 1

Release(c) ==
    /\ Released
    /\ latest' = [latest EXCEPT ![c].number = @ + 1]
    /\ UNCHANGED <<health, channel, update, fetched>>

SetUpdateChannel(c) ==
    /\ Released /\ c # channel
    /\ channel' = c
    /\ UNCHANGED <<health, latest, update, fetched>>

\* run_once up to the reconciliation: the channel, and what GitHub answers.
Fetch(t) ==
    /\ fetched[t] = NoResults
    /\ \E tag \in {latest[channel], NoTag} :
         fetched' = [fetched EXCEPT ![t] = [at |-> "fetched", channel |-> channel, tag |-> tag]]
    /\ UNCHANGED <<health, latest, channel, update, releases>>

\* A fetch of this thread that succeeds.
Answered(t) == Fetch(t) /\ fetched'[t].tag # NoTag

\* As ReconcileUpdateCheck, but a known tag is taken for the latest.
ReconcileFirstTag(t) ==
    LET r == fetched[t] IN
    /\ r # NoResults
    /\ update' = IF r.tag = NoTag \/ update.tag # NoTag
                 THEN [update EXCEPT !.channel = r.channel]
                 ELSE [channel |-> r.channel, tag |-> r.tag, dismissed |-> FALSE]
    /\ fetched' = [fetched EXCEPT ![t] = NoResults]
    /\ UNCHANGED <<health, latest, channel, releases>>

\* A failed fetch still writes the channel; a new tag is not dismissed.
ReconcileUpdateCheck(t) ==
    LET r == fetched[t] IN
    /\ r # NoResults
    /\ update' = IF r.tag \in {NoTag, update.tag}
                 THEN [update EXCEPT !.channel = r.channel]
                 ELSE [channel |-> r.channel, tag |-> r.tag, dismissed |-> FALSE]
    /\ fetched' = [fetched EXCEPT ![t] = NoResults]
    /\ UNCHANGED <<health, latest, channel, releases>>

\* is_up_to_date and is_up_to_date_beta: the same tag, by the row's channel.
IsUpdateAvailable ==
    ~(update.tag = Running /\ (update.channel = "beta" => Running.channel = "beta"))

\* stable_update_target: what the self-update would install.
StableUpdateTarget ==
    IF update.channel = "stable" /\ update.tag # Running THEN update.tag ELSE NoTag

DismissUpdateCheck ==
    /\ IsUpdateAvailable
    /\ update' = [update EXCEPT !.dismissed = TRUE]
    /\ UNCHANGED <<health, latest, channel, fetched, releases>>

UndismissUpdateCheck ==
    /\ update' = [update EXCEPT !.dismissed = FALSE]
    /\ UNCHANGED <<health, latest, channel, fetched, releases>>

Next ==
    \/ \E k \in Key : Turns(k) \/ DismissHealthCheck(k) \/ UndismissHealthCheck(k)
    \/ \E k \in InstanceKey : ChangeInstances(k)
    \/ \E c \in Channel : Release(c) \/ SetUpdateChannel(c)
    \/ \E t \in Ticker : RunChecks(t) \/ ReconcileHealthResults(t)
                         \/ Fetch(t) \/ ReconcileUpdateCheck(t)
    \/ DismissUpdateCheck \/ UndismissUpdateCheck

Spec == Init /\ [][Next]_vars

\* The loops tick for ever, and a recheck that has its answers writes them.
\* A check runs through, and GitHub answers, every now and then.
Fairness ==
    /\ \A k \in Key : SF_vars(RunChecks(Loop) /\ k \in probed'[Loop].failing \cup probed'[Loop].passing)
    /\ SF_vars(Answered(Loop))
    /\ \A t \in Ticker : WF_vars(ReconcileHealthResults(t)) /\ WF_vars(ReconcileUpdateCheck(t))

FairSpec == Spec /\ Fairness

------------------------------------------------------------------------------
(* Properties.                                                             *)

\* Once nothing changes, the banner is right about every check that exists:
\* what a slow tick measured before is corrected (health/service.py:147-217).
\* The row of a deleted instance is left out: nothing writes it again.
BannerSettles ==
    \A k \in Key : <>[](k \in Present => (IsFailing(k) <=> k \in ill))

\* Once the channel and the releases stay, the notice names the latest release
\* of the channel, whatever answers arrived late or not at all, and the
\* self-update installs the latest stable release or nothing
\* (update_check/service.py:162-213, self_update/apply.py:171-201).
NoticeSettles ==
    <>[](/\ update.channel = channel /\ update.tag = latest[channel]
         /\ StableUpdateTarget \in {latest["stable"], NoTag})
=============================================================================

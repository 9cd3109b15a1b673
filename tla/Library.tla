------------------------------- MODULE Library -------------------------------
(***************************************************************************)
(* The Library: the mirror library/service.py keeps of an Arr server's     *)
(* catalog, and the Tracked flag that users set on its nodes.              *)
(*                                                                         *)
(* Three kinds of thread write the mirror, each in a session of its own:   *)
(* the scans fetch the catalog and reconcile the mirror with it, the Arr   *)
(* webhooks upsert one leaf and its ancestors, and POST /library/tracked   *)
(* toggles Tracked.  SQLite runs the SELECTs of a session outside any      *)
(* transaction and takes the write lock at the first flush, so each reads  *)
(* the nodes in one step and writes them in a later one; the ORM writes    *)
(* only the columns whose value differs from the one it read.              *)
(***************************************************************************)
EXTENDS Naturals, FiniteSets

CONSTANTS
    Node,           \* node keys: series, seasons and episodes, or movies
    Parent,         \* Parent[k] is the node above k, Null above a series
    Server,         \* the Arr servers an instance row may point at
    Scheduler,      \* the scheduler's thread, one of Scanner
    Scanner,        \* the threads that run scan_once
    Hook,           \* the threads that serve a webhook
    Toggler,        \* the threads that serve POST /library/tracked
    References,     \* the sets of nodes that a bulk request may name
    DefaultTracked, \* GlobalSettings.default_tracked
    Null,
    MaxImports, MaxRemovals, MaxToggles, MaxSwitches    \* bounds

Thread == Scanner \cup Hook \cup Toggler

\* A library_nodes row.  A tracked_override of Null inherits.
Absent == [absent |-> TRUE]
Rows == [hidden : BOOLEAN, override : BOOLEAN \cup {Null}]
Fresh == [hidden |-> FALSE, override |-> Null]

ASSUME LibraryAssumption ==
    /\ Parent \in [Node -> Node \cup {Null}] /\ Null \notin Node
    /\ Null \notin BOOLEAN /\ Null \notin Server
    /\ References \subseteq SUBSET Node
    /\ Scheduler \in Scanner /\ DefaultTracked \in BOOLEAN
    /\ Scanner \cap Hook = {} /\ Toggler \cap (Scanner \cup Hook) = {}
    /\ \A b \in {MaxImports, MaxRemovals, MaxToggles, MaxSwitches} : b \in Nat

VARIABLES
    server,     \* the server behind the instance row, Null without a row
    catalog,    \* what each server holds
    posted,     \* leaves whose webhook is under way
    row,        \* the nodes of the instance's id
    work,       \* what each thread has fetched and read
    want,       \* history: what the last toggles that cover each node said,
                \* one value, or both if they overlapped
    overtaken,  \* history: what other toggles wrote since each toggle read
    count       \* how often each bounded step happened

mirror == <<server, row>>
outside == <<catalog, posted>>
history == <<want, overtaken>>
vars == <<server, catalog, posted, row, work, want, overtaken, count>>

------------------------------------------------------------------------------
(* The tree.                                                               *)

Up(k) == IF k = Null THEN Null ELSE Parent[k]

\* Depth of at most three: series, season, episode.
ASSUME DepthAssumption == \A k \in Node : Up(Up(Up(k))) = Null

Line(k) == {k, Up(k), Up(Up(k))} \ {Null}

Below(S) == {k \in Node : Line(k) \cap S # {}}

Leaf(k) == \A c \in Node : Parent[c] # k

Exists(rows) == {k \in Node : rows[k] # Absent}

\* resolve_tracked: the nearest explicit override up the parents.
ResolveTracked(k) ==
    LET Explicit(n) == n # Null /\ row[n] # Absent /\ row[n].override # Null
    IN  IF Explicit(k) THEN row[k].override
        ELSE IF Explicit(Up(k)) THEN row[Up(k)].override
        ELSE IF Explicit(Up(Up(k))) THEN row[Up(Up(k))].override
        ELSE DefaultTracked

\* build_tree: a hidden node and what hangs under it are left out.
Tree == {k \in Node : \A n \in Line(k) : row[n] # Absent /\ ~row[n].hidden}

------------------------------------------------------------------------------
(* The threads.  A scan holds the catalog it fetched, a webhook the leaf   *)
(* and its ancestors, a toggle the nodes it names; then each holds the     *)
(* rows as it read them.                                                   *)

Idle == [at |-> "idle"]
Fetched(S) == [at |-> "fetched", nodes |-> S]
Read(S) ==
    [at |-> "read", nodes |-> S, known |-> Exists(row),
     shown |-> {k \in Exists(row) : ~row[k].hidden}]
Toggling(S, v) ==
    [at |-> "read", nodes |-> S, value |-> v,
     known |-> Exists(row), set |-> {k \in Exists(row) : row[k].override = v}]

Init ==
    /\ server \in Server \cup {Null}
    /\ catalog \in [Server -> {C \in SUBSET Node : \A k \in C : Line(k) \subseteq C}]
    /\ posted = {}
    /\ row = [k \in Node |-> Absent]
    /\ work = [p \in Thread |-> Idle]
    /\ want = [k \in Node |-> {DefaultTracked}]
    /\ overtaken = [p \in Toggler |-> {}]
    /\ count = [imports |-> 0, removals |-> 0, toggles |-> 0, switches |-> 0]

Counted(what, max) ==
    /\ count[what] < max
    /\ count' = [count EXCEPT ![what] = @ + 1]

\* The Arr server imports a file for k: it lists k, and posts a webhook, once.
Import(s, k) ==
    /\ Counted("imports", MaxImports)
    /\ catalog' = [catalog EXCEPT ![s] = @ \cup Line(k)]
    /\ posted' \in {posted, posted \cup {k}}
    /\ s # server => posted' = posted
    /\ UNCHANGED <<mirror, work, history>>

\* The Arr server drops k and what is under it.
Remove(s, k) ==
    /\ Counted("removals", MaxRemovals)
    /\ k \in catalog[s]
    /\ catalog' = [catalog EXCEPT ![s] = @ \ Below({k})]
    /\ UNCHANGED <<mirror, posted, work, history>>

\* create_instance.  SQLite gives the row the highest id plus one, which is
\* the id of the instance deleted last.
CreateInstance(s) ==
    /\ server = Null
    /\ Counted("switches", MaxSwitches)
    /\ server' = s
    /\ UNCHANGED <<outside, row, work, history>>

\* delete_instance.  database.py does not turn foreign keys on, so the nodes
\* stay, and so does what their toggles said.
DeleteInstance ==
    /\ server # Null
    /\ server' = Null
    /\ UNCHANGED <<outside, row, work, history, count>>

FetchCatalog(p) ==
    /\ work[p] = Idle /\ server # Null
    /\ work' = [work EXCEPT ![p] = Fetched(catalog[server])]
    /\ UNCHANGED <<mirror, outside, history, count>>

ListNodes(p) ==
    /\ work[p].at = "fetched"
    /\ work' = [work EXCEPT ![p] = Read(work[p].nodes)]
    /\ UNCHANGED <<mirror, outside, history, count>>

\* The webhook of k: its instance exists, its payload is a Download event.
ServeWebhook(p, k) ==
    /\ work[p] = Idle /\ server # Null /\ k \in posted
    /\ posted' = posted \ {k}
    /\ work' = [work EXCEPT ![p] = Read(Line(k))]
    /\ UNCHANGED <<mirror, catalog, history, count>>

\* As Upserted, but a node that comes back stays hidden.
UpsertedStillHidden(p, k) == IF k \notin work[p].known THEN Fresh ELSE row[k]

\* _upsert_node over the rows as p read them: a new row, or the row shown.
Upserted(p, k) ==
    IF k \notin work[p].known THEN Fresh
    ELSE IF k \notin work[p].shown THEN [row[k] EXCEPT !.hidden = FALSE]
    ELSE row[k]

\* _soft_hide_missing.
SoftHidden(p, k) ==
    IF k \in work[p].shown THEN [row[k] EXCEPT !.hidden = TRUE] ELSE row[k]

\* The unique node_key refuses a row that another thread has inserted.
Conflict(p) == (work[p].nodes \ work[p].known) \cap Exists(row) # {}

IntegrityError(p) ==
    /\ p \in Scanner \cup Hook /\ work[p].at = "read"
    /\ Conflict(p)
    /\ work' = [work EXCEPT ![p] = Idle]
    /\ UNCHANGED <<mirror, outside, history, count>>

SyncLibrary(p) ==
    /\ work[p].at = "read"
    /\ ~Conflict(p)
    /\ row' = [k \in Node |-> IF k \in work[p].nodes THEN Upserted(p, k)
                              ELSE SoftHidden(p, k)]
    /\ work' = [work EXCEPT ![p] = Idle]
    /\ UNCHANGED <<server, outside, history, count>>

UpsertLeaf(p) ==
    /\ work[p].at = "read"
    /\ ~Conflict(p)
    /\ row' = [k \in Node |-> IF k \in work[p].nodes THEN Upserted(p, k)
                              ELSE row[k]]
    /\ work' = [work EXCEPT ![p] = Idle]
    /\ UNCHANGED <<server, outside, history, count>>

\* The bulk request checks every reference before it writes one.
StartToggle(p, S, v) ==
    /\ Counted("toggles", MaxToggles)
    /\ work[p] = Idle /\ S # {} /\ S \subseteq Exists(row)
    /\ work' = [work EXCEPT ![p] = Toggling(S, v)]
    /\ UNCHANGED <<mirror, outside, history>>

\* As Cascade, but hidden nodes are left out.
CascadeShown(r) == {k \in Below(r.nodes) \cap r.known : ~row[k].hidden}

\* The nodes set_tracked visits: those named and all below them, hidden or not.
Cascade(r) == Below(r.nodes) \cap r.known

\* set_tracked for every reference, and one commit.  The ORM writes no flag that
\* had the value already when it was read.
SetTracked(p) ==
    LET r == work[p] IN
    /\ r.at = "read"
    /\ row' = [k \in Node |-> IF k \in Cascade(r) \ r.set
                              THEN [row[k] EXCEPT !.override = r.value] ELSE row[k]]
    /\ want' = [k \in Node |-> IF k \notin Below(r.nodes) THEN want[k]
                               ELSE IF k \in overtaken[p] THEN want[k] \cup {r.value}
                               ELSE {r.value}]
    /\ overtaken' = [q \in Toggler |-> IF q = p \/ work[q] = Idle THEN {}
                                       ELSE overtaken[q] \cup Below(r.nodes)]
    /\ work' = [work EXCEPT ![p] = Idle]
    /\ UNCHANGED <<server, outside, count>>

ScanStep(p) == FetchCatalog(p) \/ ListNodes(p) \/ SyncLibrary(p) \/ IntegrityError(p)
HookStep(p) == UpsertLeaf(p) \/ IntegrityError(p)

Next ==
    \/ \E s \in Server :
         \/ CreateInstance(s)
         \/ \E k \in Node : (Leaf(k) /\ Import(s, k)) \/ Remove(s, k)
    \/ DeleteInstance
    \/ \E p \in Scanner : ScanStep(p)
    \/ \E p \in Hook : HookStep(p) \/ \E k \in Node : ServeWebhook(p, k)
    \/ \E p \in Toggler :
         SetTracked(p) \/ \E S \in References, v \in BOOLEAN : StartToggle(p, S, v)

Spec == Init /\ [][Next]_vars

\* The scheduler scans for ever; a request that has read goes on to write.
Fairness ==
    /\ WF_vars(ScanStep(Scheduler))
    /\ \A p \in Scanner : WF_vars(ListNodes(p) \/ SyncLibrary(p) \/ IntegrityError(p))
    /\ \A p \in Hook : WF_vars(HookStep(p))

FairSpec == Spec /\ Fairness

------------------------------------------------------------------------------
(* Properties.                                                             *)

\* Types; and a row's parents have rows too, which no foreign key enforces.
TypeOK ==
    /\ server \in Server \cup {Null}
    /\ catalog \in [Server -> SUBSET Node] /\ posted \subseteq Node
    /\ \A k \in Node : row[k] # Absent => /\ row[k] \in Rows
                                          /\ Line(k) \subseteq Exists(row)
    /\ want \in [Node -> SUBSET BOOLEAN] /\ overtaken \in [Toggler -> SUBSET Node]
    /\ \A p \in Thread : work[p] # Idle => work[p].nodes \subseteq Node

\* Every node of the mirror resolves to what the last toggle that covers it
\* said, however the node came, went and came back since: the new children of
\* a toggled node inherit it, hidden nodes are toggled with the rest, and no
\* scan or webhook resets anything (service.py:232-249, 576-626, 451-459).
\*   Of two toggles of a node that overlap, either may prevail, whichever commits
\* last: the later one skips what it had read as already set.  And the toggles of
\* an instance that was deleted count for the one that gets its id, although
\* models.py:92 has the nodes go with it.
TrackedAsToggled ==
    \A k \in Exists(row) : ResolveTracked(k) \in want[k]

\* Once the catalog and the instance row stay as they are, the tree shows the
\* catalog and nothing else, whatever the webhooks and scans that overlapped
\* did: a stale catalog, a refused insert, a row hidden by one and shown by
\* the other (service.py:276-459).
MirrorSettles ==
    <>[](server # Null => Tree = catalog[server])
=============================================================================

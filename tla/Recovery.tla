------------------------------ MODULE Recovery ------------------------------
(***************************************************************************)
(* The database file over many boots: backups and their retention          *)
(* (backup/service.py, backup/scheduler.py), the staging of a restore and   *)
(* its gate (restore/request.py, upload.py, marker.py), the swap at the    *)
(* next boot (restore/engine.py), and the backup and migration that follow *)
(* it (migrations/__init__.py).  Every file operation of a request and of  *)
(* the boot is a step; the program may die between any two, in the middle  *)
(* of a transaction and in the middle of a migration.                      *)
(***************************************************************************)
EXTENDS Integers, FiniteSets

CONSTANTS
    Requests,   \* the threads that serve POST /system/backup/restore
    Uploads,    \* the databases an upload may hold
    Heads,      \* the head revisions of the builds that may be started
    Interval,   \* backup_interval_days, in ticks
    Retention,  \* backup_retention_days and its default, in ticks
    MaxClock,   \* bound on the ticks
    MaxWrites,  \* bound on the transactions
    MaxBackups, \* bound on the backups taken and deleted while it runs
    MaxStaged,  \* bound on the restores requested
    MaxFaults   \* bound on the deaths of the program and on the failed steps

Types == {"manual", "scheduled", "update", "restore"}

\* A database: what was written to it, its schema revision, and whether it is
\* whole, "torn" in the middle of a transaction, "midway" through a migration,
\* a SQLite database of another program, or a "partial" copy that SQLite cannot
\* read.
Database == [content : Int, revision : Nat,
             state   : {"whole", "torn", "midway", "foreign", "partial"}]

ASSUME RecoveryAssumption ==
    /\ Uploads \subseteq Database
    /\ Heads \subseteq Nat /\ Heads # {}
    /\ Interval \in Nat \ {0} /\ Retention \in Nat \ {0}
    /\ MaxClock \in Nat /\ MaxWrites \in Nat /\ MaxBackups \in Nat
    /\ MaxStaged \in Nat /\ MaxFaults \in Nat

\* No user uploads a database that was cut in the middle of a migration; and of
\* an upload it is the staging file that is partial.
ASSUME UploadAssumption == \A d \in Uploads : d.state \notin {"midway", "partial"}

NoFile == [absent |-> TRUE]

\* A file that requests write: the database in it and who still writes it.
Staging == [db : Database, writers : SUBSET Requests]

\* The stages of the lifespan, from the marker to the serving of requests.
Booting == {"decide", "safety", "swap", "sidecars", "unstage", "unmark",
            "inspect", "backup", "migrate"}

VARIABLES
    db,        \* the database file
    journal,   \* its rollback journal: the database before the cut transaction
    part,      \* .restore_staged.db.part
    staged,    \* .restore_staged.db
    marker,    \* restore.json exists
    archives,  \* the archives below backups/: type, time and database
    clock,
    program,   \* "down", a stage of the boot, or "up"
    head,      \* the head revision of the build that runs
    pc,        \* what each request does next, or "idle"
    source,    \* the database each request restores
    exiting,   \* trigger_shutdown has been called
    raced,     \* history: two requests staged at once
    replaced,  \* history: the databases that a restore replaced
    discarded, \* history: the archives of a boot that were deleted or pruned
    spent      \* what is used of each bound

vars == <<db, journal, part, staged, marker, archives, clock, program, head, pc,
          source, exiting, raced, replaced, discarded, spent>>

Archive == [type : Types, at : 0..MaxClock, db : Database]

TypeOK ==
    /\ db \in Database
    /\ journal \in Database \cup {NoFile}
    /\ part \in Staging \cup {NoFile} /\ staged \in Staging \cup {NoFile}
    /\ marker \in BOOLEAN
    /\ archives \subseteq Archive
    /\ \A a, b \in archives : a.type = b.type /\ a.at = b.at => a = b
    /\ clock \in 0..MaxClock
    /\ program \in {"down", "up"} \cup Booting
    /\ head \in Heads
    /\ pc \in [Requests -> {"idle", "write", "gate", "promote", "mark"}]
    /\ source \in [Requests -> Database \cup {NoFile}]
    /\ exiting \in BOOLEAN /\ raced \in BOOLEAN
    /\ replaced \subseteq Database /\ discarded \subseteq Archive
    /\ spent \in [writes : 0..MaxWrites, backups : 0..MaxBackups,
                  staged : 0..MaxStaged, faults : 0..MaxFaults]

Init ==
    /\ head \in Heads
    /\ db = [content |-> 0, revision |-> head, state |-> "whole"]
    /\ journal = NoFile /\ part = NoFile /\ staged = NoFile
    /\ marker = FALSE
    /\ archives = {}
    /\ clock = 0
    /\ program = "up"
    /\ pc = [r \in Requests |-> "idle"]
    /\ source = [r \in Requests |-> NoFile]
    /\ exiting = FALSE /\ raced = FALSE
    /\ replaced = {} /\ discarded = {}
    /\ spent = [writes |-> 0, backups |-> 0, staged |-> 0, faults |-> 0]

-----------------------------------------------------------------------------
(* Backups.  An archive is named by its type, the version and the second,  *)
(* so a second one of the same tick replaces the first.                    *)

MinKeep(type) == IF type = "update" THEN 2 ELSE 1

With(a, set) == {b \in set : b.type # a.type \/ b.at # a.at} \cup {a}

Newer(a, set) == {b \in set : b.type = a.type /\ b.at > a.at}

PrunedAtTheCutoff(a, set) ==
    {b \in set : \/ b.type # a.type \/ b = a
                 \/ Cardinality(Newer(b, set)) < MinKeep(b.type)
                 \/ b.at > clock - Retention}

\* prune_backups, after a was written: the newest few and a itself stay, the
\* others go when they are older than the retention.
Pruned(a, set) ==
    {b \in set : \/ b.type # a.type \/ b = a
                 \/ Cardinality(Newer(b, set)) < MinKeep(b.type)
                 \/ b.at >= clock - Retention}

\* Only those that a boot has taken are noted.
Discard(gone) ==
    discarded' = discarded \cup {a \in gone : a.type \in {"update", "restore"}}

\* create_backup, with retention or without.
BackUp(type, prune) ==
    LET a == [type |-> type, at |-> clock, db |-> db]
        written == With(a, archives)
    IN  /\ archives' = IF prune THEN Pruned(a, written) ELSE written
        /\ Discard(written \ archives')

Spend(bound) == spent' = [spent EXCEPT ![bound] = @ + 1]

Files == <<db, journal, part, staged, marker>>
Serving == <<pc, source, exiting, raced>>

\* POST /system/backup, and the scheduler's run_once when one is due.
ManualBackup ==
    /\ program = "up" /\ spent.backups < MaxBackups
    /\ BackUp("manual", TRUE)
    /\ Spend("backups")
    /\ UNCHANGED <<Files, Serving, clock, program, head, replaced>>

ScheduledBackup ==
    /\ program = "up" /\ spent.backups < MaxBackups
    /\ \A a \in archives : a.type = "scheduled" => clock - a.at >= Interval
    /\ BackUp("scheduled", TRUE)
    /\ Spend("backups")
    /\ UNCHANGED <<Files, Serving, clock, program, head, replaced>>

\* delete_backup refuses to delete the last one.
Delete(a) ==
    /\ program = "up" /\ spent.backups < MaxBackups
    /\ Cardinality(archives) - 1 >= 1
    /\ archives' = archives \ {a}
    /\ Discard({a})
    /\ Spend("backups")
    /\ UNCHANGED <<Files, Serving, clock, program, head, replaced>>

-----------------------------------------------------------------------------
(* The staging of a restore: stage_restore and stage_restore_from_upload.  *)

\* The file under a name with its writers changed.
Opened(file, r) ==
    IF file = NoFile THEN {r} ELSE file.writers \cup {r}

\* The database member is read and its copy is begun; a copy that is still
\* open is truncated.  What a copy that stays incomplete is good for depends on
\* how far it came: SQLite reads its revision, or it does not.
Stage(r, d) ==
    /\ program = "up" /\ pc[r] = "idle" /\ spent.staged < MaxStaged
    /\ d \in Uploads \cup {a.db : a \in archives}
    /\ source' = [source EXCEPT ![r] = d]
    /\ \E cut \in {"torn", "partial"} :
          part' = [db |-> [d EXCEPT !.state = cut], writers |-> Opened(part, r)]
    /\ pc' = [pc EXCEPT ![r] = "write"]
    /\ raced' = (raced \/ \E q \in Requests \ {r} : pc[q] # "idle")
    /\ Spend("staged")
    /\ UNCHANGED <<db, journal, staged, marker, archives, clock, program, head,
                   exiting, replaced, discarded>>

Request == <<db, journal, marker, archives, clock, program, head, raced, replaced,
             discarded, spent>>

Goto(r, stage) == pc' = [pc EXCEPT ![r] = stage] /\ UNCHANGED source

Return(r) ==
    /\ pc' = [pc EXCEPT ![r] = "idle"]
    /\ source' = [source EXCEPT ![r] = NoFile]

\* The copy is complete, in the file it was begun in wherever that is now.
Completed(file, r) ==
    IF file = NoFile \/ r \notin file.writers THEN file
    ELSE [db |-> source[r], writers |-> file.writers \ {r}]

Written(r) ==
    /\ pc[r] = "write"
    /\ part' = Completed(part, r) /\ staged' = Completed(staged, r)
    /\ Goto(r, "gate")
    /\ UNCHANGED <<Request, exiting>>

PassesUnidentified(file) ==
    /\ file # NoFile
    /\ file.db.revision <= head

\* validate_staged_db: SQLite, with the sentinel table, of a revision this build
\* knows.  A database of which a part is missing may pass, or fail in whatever
\* way SQLite says so.
Passes(file) ==
    /\ file # NoFile
    /\ file.db.state # "foreign" /\ file.db.revision <= head

Accept(r) ==
    /\ pc[r] = "gate" /\ Passes(part)
    /\ Goto(r, "promote")
    /\ UNCHANGED <<Request, part, staged, exiting>>

Reject(r) ==
    /\ pc[r] = "gate"
    /\ Passes(part) => part.db.state # "whole"
    /\ part' = NoFile
    /\ Return(r)
    /\ UNCHANGED <<Request, staged, exiting>>

\* os.replace onto the staging path.
Promote(r) ==
    /\ pc[r] = "promote"
    /\ IF part = NoFile
       THEN Return(r) /\ UNCHANGED <<part, staged>>
       ELSE Goto(r, "mark") /\ staged' = part /\ part' = NoFile
    /\ UNCHANGED <<Request, exiting>>

MarkOnly(r) ==
    /\ pc[r] = "mark"
    /\ marker' = TRUE
    /\ Return(r)
    /\ UNCHANGED <<db, journal, part, staged, archives, clock, program, head, raced,
                   exiting, replaced, discarded, spent>>

\* The marker is written, and the shutdown timer armed.
Mark(r) ==
    /\ pc[r] = "mark"
    /\ marker' = TRUE
    /\ exiting' = TRUE
    /\ Return(r)
    /\ UNCHANGED <<db, journal, part, staged, archives, clock, program, head, raced,
                   replaced, discarded, spent>>

-----------------------------------------------------------------------------
(* The end of the program, foreseen or not.                                *)

Dies ==
    /\ program' = "down"
    /\ pc' = [r \in Requests |-> "idle"]
    /\ source' = [r \in Requests |-> NoFile]
    /\ part' = IF part = NoFile THEN part ELSE [part EXCEPT !.writers = {}]
    /\ staged' = IF staged = NoFile THEN staged ELSE [staged EXCEPT !.writers = {}]
    /\ exiting' = FALSE

\* A transaction is in the middle of its commit.
Cut ==
    /\ db' = [db EXCEPT !.state = "torn"]
    /\ journal' = db

\* trigger_shutdown's os._exit, which waits for nobody.
Exit ==
    /\ program = "up" /\ exiting
    /\ Dies
    /\ \/ UNCHANGED <<db, journal>>
       \/ db.state = "whole" /\ spent.writes < MaxWrites /\ Cut
    /\ UNCHANGED <<marker, archives, clock, head, raced, replaced, discarded, spent>>

Crash ==
    /\ program # "down" /\ spent.faults < MaxFaults
    /\ Dies
    /\ \/ UNCHANGED <<db, journal>>
       \/ program = "up" /\ db.state = "whole" /\ Cut
       \/ /\ program = "migrate"
          /\ db' = [db EXCEPT !.state = "midway"] /\ UNCHANGED journal
    /\ Spend("faults")
    /\ UNCHANGED <<marker, archives, clock, head, raced, replaced, discarded>>

\* An exception in the destructive section of the restore, in the backup or in
\* the migration aborts the boot; the marker stays.
BootFails ==
    /\ program \in {"safety", "swap", "backup"} /\ spent.faults < MaxFaults
    /\ Dies
    /\ Spend("faults")
    /\ UNCHANGED <<db, journal, marker, archives, clock, head, raced, replaced,
                   discarded>>

-----------------------------------------------------------------------------
(* The boot.                                                               *)

BootUnchanged == UNCHANGED <<part, clock, head, pc, source, exiting, raced, spent>>

\* The program is started, perhaps another build of it.  That takes more than
\* the second that names an archive; when the ticks are used up, boots go on for
\* as long as they find no archive of theirs in the last one.
OutOfTime == clock = MaxClock /\ \E a \in archives :
                                    a.at = clock /\ a.type \in {"update", "restore"}

Start ==
    /\ program = "down" /\ ~OutOfTime
    /\ program' = "decide"
    /\ clock' = IF clock < MaxClock THEN clock + 1 ELSE clock
    /\ head' \in Heads
    /\ UNCHANGED <<Files, archives, Serving, replaced, discarded, spent>>

\* The staged file is there, readable, and of a revision that this build knows.
Restorable ==
    /\ marker /\ staged # NoFile
    /\ staged.db.state # "partial" /\ staged.db.revision <= head

\* apply_pending_restore: a restore to go on with, or no marker, or one whose
\* file fails the second gate.
Decide ==
    /\ program = "decide"
    /\ IF Restorable
       THEN program' = "safety" /\ UNCHANGED marker
       ELSE program' = "inspect" /\ marker' = FALSE
    /\ BootUnchanged
    /\ UNCHANGED <<db, journal, staged, archives, replaced, discarded>>

\* The second gate catches its own error only.  A copy that was cut before
\* SQLite's header fails it; one that was cut behind it makes SQLite raise
\* DatabaseError, which ends the boot, and the marker stays for the next.
DecideRaises ==
    /\ program = "decide" /\ marker
    /\ staged # NoFile /\ staged.db.state = "partial"
    /\ Dies
    /\ UNCHANGED <<db, journal, marker, archives, clock, head, raced, replaced,
                   discarded, spent>>

SafetyAmongUpdates ==
    /\ program = "safety"
    /\ BackUp("update", TRUE)
    /\ program' = "swap"
    /\ BootUnchanged /\ UNCHANGED <<db, journal, staged, marker, replaced>>

\* The safety backup, a byte-for-byte copy of the database and not of its
\* journal.
SafetyBackup ==
    /\ program = "safety"
    /\ BackUp("restore", FALSE)
    /\ program' = "swap"
    /\ BootUnchanged /\ UNCHANGED <<db, journal, staged, marker, replaced>>

\* _swap_in: the staged file is copied beside the database and renamed onto it,
SwapIn ==
    /\ program = "swap"
    /\ db' = staged.db
    /\ replaced' = replaced \cup {db}
    /\ program' = "sidecars"
    /\ BootUnchanged /\ UNCHANGED <<journal, staged, marker, archives, discarded>>

KeepSidecars ==
    /\ program = "sidecars"
    /\ program' = "unstage"
    /\ BootUnchanged
    /\ UNCHANGED <<db, journal, staged, marker, archives, replaced, discarded>>

\* the journal of the old database is removed,
RemoveSidecars ==
    /\ program = "sidecars"
    /\ journal' = NoFile
    /\ program' = "unstage"
    /\ BootUnchanged /\ UNCHANGED <<db, staged, marker, archives, replaced, discarded>>

\* and the staged file.
Unstage ==
    /\ program = "unstage"
    /\ staged' = NoFile
    /\ program' = "unmark"
    /\ BootUnchanged /\ UNCHANGED <<db, journal, marker, archives, replaced, discarded>>

ClearMarker ==
    /\ program = "unmark"
    /\ marker' = FALSE
    /\ program' = "inspect"
    /\ BootUnchanged
    /\ UNCHANGED <<db, journal, staged, archives, replaced, discarded>>

\* upgrade_to_head opens the database, and SQLite rolls a hot journal back.
Inspect ==
    /\ program = "inspect"
    /\ db' = IF journal = NoFile THEN db ELSE journal
    /\ journal' = NoFile
    /\ program' = IF db'.revision = head THEN "up" ELSE "backup"
    /\ BootUnchanged /\ UNCHANGED <<staged, marker, archives, replaced, discarded>>

NoBackup ==
    /\ program = "backup"
    /\ program' = "migrate"
    /\ BootUnchanged
    /\ UNCHANGED <<db, journal, staged, marker, archives, replaced, discarded>>

\* _backup_before_migration.
BackupBeforeMigration ==
    /\ program = "backup"
    /\ BackUp("update", TRUE)
    /\ program' = "migrate"
    /\ BootUnchanged /\ UNCHANGED <<db, journal, staged, marker, replaced>>

\* alembic's upgrade to the head; it has no path down from a newer revision,
\* and none through a migration that was cut.
Migrate ==
    /\ program = "migrate"
    /\ IF db.revision < head /\ db.state # "midway"
       THEN db' = [db EXCEPT !.revision = head] /\ program' = "up"
       ELSE UNCHANGED db /\ program' = "down"
    /\ BootUnchanged
    /\ UNCHANGED <<journal, staged, marker, archives, replaced, discarded>>

-----------------------------------------------------------------------------
\* Any component commits a transaction.  (What is written to a damaged database
\* is not told apart.)
Write ==
    /\ program = "up" /\ db.state = "whole" /\ spent.writes < MaxWrites
    /\ Spend("writes")
    /\ db' = [db EXCEPT !.content = spent'.writes]
    /\ UNCHANGED <<journal, part, staged, marker, archives, Serving, clock, program,
                   head, replaced, discarded>>

Tick ==
    /\ program = "up" /\ clock < MaxClock
    /\ clock' = clock + 1
    /\ UNCHANGED <<Files, archives, Serving, program, head, replaced, discarded, spent>>

Serve(r) == Written(r) \/ Accept(r) \/ Reject(r) \/ Promote(r) \/ Mark(r)

Boot ==
    \/ Start \/ Decide \/ DecideRaises \/ SafetyBackup \/ SwapIn
    \/ RemoveSidecars \/ Unstage \/ ClearMarker \/ Inspect \/ BackupBeforeMigration \/ Migrate

Next ==
    \/ ManualBackup \/ ScheduledBackup \/ Write \/ Tick
    \/ \E a \in archives : Delete(a)
    \/ \E r \in Requests :
          Serve(r) \/ \E d \in Uploads \cup {a.db : a \in archives} : Stage(r, d)
    \/ Exit \/ Crash \/ BootFails
    \/ Boot

Spec == Init /\ [][Next]_vars

FairSpec == Spec /\ WF_vars(Boot) /\ WF_vars(Exit)

-----------------------------------------------------------------------------
(* Properties.                                                             *)

\* The gate holds from the request to the boot that consumes the marker, with
\* any crash between: what waits behind a marker is a complete copy of a
\* database of this program, and nothing else becomes the database - if no two
\* requests stage at once, for they share the temp file
\* (request.py:7-12, upload.py:138-177, engine.py:112-195).
GatedSwap ==
    ~raced =>
        /\ db.state # "foreign"
        /\ marker /\ staged # NoFile =>
               staged.db.state \notin {"foreign", "partial"} /\ staged.writers = {}

\* Whatever database a restore replaced, a torn one included, is in an archive
\* of its own type byte for byte, however often the boot died and began again;
\* only the user deletes that one (engine.py:12-20 and 198-223).  This makes the
\* restore reversible if the database was whole.  A torn one is archived without
\* the journal that would mend it, and the journal is then removed.
Reversible ==
    \A d \in replaced : \E a \in archives \cup discarded :
        a.type = "restore" /\ a.db = d

\* A migration that was cut can be undone: the database as it was before is in
\* an archive, until deleted or older than the retention and than the newest
\* two (migrations/__init__.py:206-265).
PreMigrationKept ==
    db.state = "midway" =>
        \E a \in archives \cup discarded :
            a.db.content = db.content /\ a.db.state # "midway"

\* SQLite never rolls the journal of one database into another: a boot that died
\* in the swap goes through it again before anything opens the database - if
\* the builds that may boot then know the restored revision as the dead one did
\* (engine.py:226-245, main.py:275-283).
JournalIsItsOwn ==
    program = "inspect" /\ journal # NoFile /\ (\A h \in Heads : db.revision <= h) =>
        db.state = "torn" /\ db.content = journal.content

\* Once there is a recovery point there always is one; and no backup costs
\* another, unless that is of the same type and second, or older than the
\* retention with enough newer ones of its type left after the pruning
\* (backup/service.py:292-351 and 442-470).
RecoveryPoint ==
    [][/\ archives # {} => archives' # {}
       /\ \A a \in archives \ archives' :
            \/ archives' \subseteq archives
            \/ \E b \in archives' : b.type = a.type /\ b.at = a.at
            \/ /\ a.at < clock - Retention
               /\ Cardinality(Newer(a, archives')) >= MinKeep(a.type)]_vars

\* A marker is consumed: a restore is applied or given up, and never keeps the
\* program from booting for good (engine.py:32-45) - if no two requests staged
\* at once: what they leave may be a file that every boot fails to read.
RestoreSettles ==
    marker ~> (~marker \/ raced \/ (program = "down" /\ OutOfTime))
=============================================================================

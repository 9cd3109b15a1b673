--------------------------- MODULE RecoveryProofs ---------------------------
(***************************************************************************)
(* Proofs about Recovery, for any number of requests, uploads, builds,     *)
(* boots, faults and backups.  IInv is the inductive invariant; its parts  *)
(* are the threads and the boot, the archives' times, the journal, what    *)
(* SQLite can read, the staging files, the databases that were replaced    *)
(* and those cut in the middle of a migration.                             *)
(***************************************************************************)
EXTENDS Recovery, FiniteSetTheorems, TLAPS

-----------------------------------------------------------------------------
(* The inductive invariant.                                                *)

\* Requests are served, and write, only while the program is up; a boot that
\* restores has its marker and its staged file until it removes them.
BootInv ==
    /\ program # "up" => \A r \in Requests : pc[r] = "idle"
    /\ \A r \in Requests : pc[r] = "write" => source[r] # NoFile
    /\ program \in {"safety", "swap", "sidecars"} => marker /\ staged # NoFile
    /\ program \in {"safety", "swap"} => staged.db.state # "partial"

\* The clock has moved on when a boot takes a backup, so that its archive takes
\* the place of none.
ArchiveInv ==
    /\ IsFiniteSet(archives)
    /\ \A a \in archives :
         /\ a.at <= clock
         /\ a.type = "restore" /\ program \in {"decide", "safety"} => a.at < clock
         /\ a.type = "update" /\ program \in Booting \ {"migrate"} => a.at < clock

\* Whose journal it is: the database's own, that of the database which the
\* restore under way has replaced, or beside a database no build may open.
JournalInv ==
    journal # NoFile =>
      /\ program \in {"down", "decide", "safety", "swap", "sidecars", "inspect"}
      /\ journal.state = "whole"
      /\ \/ db.state = "torn" /\ db.content = journal.content
         \/ program # "inspect" /\ marker /\ staged # NoFile /\ staged.db = db
         \/ \E h \in Heads : db.revision > h

\* What SQLite cannot read is in the staging files only.
ReadableInv ==
    /\ db.state # "partial" /\ \A a \in archives : a.db.state # "partial"
    /\ \A r \in Requests : source[r] # NoFile => source[r].state # "partial"

\* With one request at a time, the temp file has one writer, and what passed the
\* gate is what is promoted.
GateInv ==
    ~raced =>
      /\ \A q, r \in Requests : pc[q] # "idle" /\ pc[r] # "idle" => q = r
      /\ db.state # "foreign" /\ \A a \in archives : a.db.state # "foreign"
      /\ staged # NoFile =>
           staged.db.state \notin {"foreign", "partial"} /\ staged.writers = {}
      /\ part # NoFile => part.writers = {r \in Requests : pc[r] = "write"}
      /\ \A r \in Requests : pc[r] \in {"gate", "promote"} /\ part # NoFile =>
           part.db.state # "partial" /\ (pc[r] = "promote" => part.db.state # "foreign")

\* Each database that was replaced is in an archive of type restore, which no
\* retention prunes.
ReplacedInv ==
    /\ \A d \in replaced : \E a \in archives \cup discarded :
         a.type = "restore" /\ a.db = d
    /\ program = "swap" => \E a \in archives : a.type = "restore" /\ a.db = db

\* Wherever a database that was cut in its migration has been copied, the
\* archive of the one before it is there too.
Covered(d) ==
    d.state = "midway" =>
      \E a \in archives \cup discarded :
        a.type = "update" /\ a.db.content = d.content /\ a.db.state # "midway"

MidwayInv ==
    /\ Covered(db) /\ \A a \in archives : Covered(a.db)
    /\ part # NoFile => Covered(part.db)
    /\ staged # NoFile => Covered(staged.db)
    /\ \A r \in Requests : source[r] # NoFile => Covered(source[r])
    /\ program = "migrate" => \E a \in archives : a.type = "update" /\ a.db = db

IInv ==
    /\ TypeOK
    /\ BootInv
    /\ ArchiveInv
    /\ JournalInv
    /\ ReadableInv
    /\ GateInv
    /\ ReplacedInv
    /\ MidwayInv

-----------------------------------------------------------------------------
(* Files.                                                                  *)

LEMMA NoFileIsNoFile == NoFile \notin Database /\ NoFile \notin Staging
BY DEF NoFile, Database, Staging

LEMMA StateChanges ==
    ASSUME NEW d \in Database, NEW s \in {"whole", "torn", "midway", "foreign", "partial"}
    PROVE  /\ [d EXCEPT !.state = s] \in Database
           /\ [d EXCEPT !.state = s].state = s
           /\ [d EXCEPT !.state = s].content = d.content
           /\ [d EXCEPT !.state = s].revision = d.revision
BY DEF Database

\* A death leaves the files where they are, with nobody writing them.
LEMMA DiesShape ==
    ASSUME TypeOK, Dies
    PROVE  /\ program' = "down" /\ exiting' = FALSE
           /\ pc' \in [Requests -> {"idle"}] /\ source' \in [Requests -> {NoFile}]
           /\ part = NoFile => part' = NoFile
           /\ part # NoFile => part' \in Staging /\ part'.db = part.db /\ part'.writers = {}
           /\ staged = NoFile => staged' = NoFile
           /\ staged # NoFile => /\ staged' \in Staging
                                 /\ staged'.db = staged.db /\ staged'.writers = {}
<1>1. part # NoFile => part \in Staging
  BY DEF TypeOK
<1>2. staged # NoFile => staged \in Staging
  BY DEF TypeOK
<1>3. QED
  BY <1>1, <1>2 DEF Dies, Staging

-----------------------------------------------------------------------------
(* Archives.                                                               *)

\* What a backup does to the archives: it adds itself, it overwrites one of the
\* same tick, it may prune others of its type.
LEMMA BackUpShape ==
    ASSUME TypeOK, IsFiniteSet(archives), NEW type \in Types, NEW prune \in BOOLEAN,
           BackUp(type, prune)
    PROVE  LET a == [type |-> type, at |-> clock, db |-> db] IN
           /\ a \in Archive /\ a \in archives' /\ archives' \subseteq archives \cup {a}
           /\ IsFiniteSet(archives')
           /\ discarded \subseteq discarded'
           /\ discarded' \subseteq discarded \cup archives \cup {a}
           /\ \A b \in archives' : b = a \/ b.type # type \/ b.at # clock
           /\ \A b \in archives :
                \/ b \in archives'
                \/ b.type = type /\ b.at = clock
                \/ b.type = type /\ prune /\ (type = "update" => b \in discarded')
<1> DEFINE a == [type |-> type, at |-> clock, db |-> db]
           written == With(a, archives)
<1>1. a \in Archive /\ a.type = type /\ a.at = clock /\ a.db = db
  BY DEF Archive, TypeOK
<1> HIDE DEF a
<1>2. /\ a \in written /\ written \subseteq archives \cup {a}
      /\ \A b \in written : b = a \/ b.type # type \/ b.at # clock
      /\ \A b \in archives : b \in written \/ (b.type = type /\ b.at = clock)
  BY <1>1 DEF With
<1> HIDE DEF written
<1>3. /\ archives' = IF prune THEN Pruned(a, written) ELSE written
      /\ discarded' = discarded \cup {b \in written \ archives' :
                                      b.type \in {"update", "restore"}}
  BY DEF BackUp, Discard, a, written
<1>4. /\ Pruned(a, written) \subseteq written /\ a \in Pruned(a, written)
      /\ \A b \in written : b.type # type => b \in Pruned(a, written)
  BY <1>1, <1>2 DEF Pruned
<1>5. IsFiniteSet(archives')
  <2>1. IsFiniteSet(archives \cup {a}) /\ archives' \in SUBSET (archives \cup {a})
    BY <1>2, <1>3, <1>4, FS_AddElement
  <2>2. QED
    BY <2>1, FS_Subset
<1>6. \A b \in written : b \in archives' \/ (b.type = type /\ prune)
  BY <1>3, <1>4
<1>7. \A b \in written \ archives' : b.type = "update" => b \in discarded'
  BY <1>3
<1>8. discarded' \subseteq discarded \cup archives \cup {a}
  BY <1>2, <1>3
<1>9. /\ a \in archives' /\ archives' \subseteq archives \cup {a}
      /\ discarded \subseteq discarded'
      /\ \A b \in archives' : b = a \/ b.type # type \/ b.at # clock
  BY <1>2, <1>3, <1>4
<1>10. \A b \in archives :
         \/ b \in archives'
         \/ b.type = type /\ b.at = clock
         \/ b.type = type /\ prune /\ (type = "update" => b \in discarded')
  BY <1>2, <1>6, <1>7
<1>11. QED
  BY <1>1, <1>5, <1>8, <1>9, <1>10 DEF a

\* The steps that change the archives.
Taken(type, prune) ==
    /\ BackUp(type, prune)
    /\ UNCHANGED <<db, part, staged, clock, pc, source, raced, replaced, marker, journal>>
    /\ \/ type \in {"manual", "scheduled"} /\ program = "up" /\ program' = "up"
       \/ type = "restore" /\ ~prune /\ program = "safety" /\ program' = "swap"
       \/ type = "update" /\ program = "backup" /\ program' = "migrate"

Deleted(a) ==
    /\ a \in archives /\ archives' = archives \ {a}
    /\ discarded' = discarded \cup {b \in {a} : b.type \in {"update", "restore"}}
    /\ Cardinality(archives) - 1 >= 1
    /\ program = "up"
    /\ UNCHANGED <<db, part, staged, clock, pc, source, raced, replaced, marker, journal,
                   program>>

LEMMA ArchiveSteps ==
    ASSUME [Next]_vars
    PROVE  \/ UNCHANGED <<archives, discarded>>
           \/ \E type \in Types, prune \in BOOLEAN : Taken(type, prune)
           \/ \E a \in archives : Deleted(a)
<1>1. ASSUME ManualBackup PROVE Taken("manual", TRUE)
  BY <1>1 DEF ManualBackup, Taken, Files, Serving
<1>2. ASSUME ScheduledBackup PROVE Taken("scheduled", TRUE)
  BY <1>2 DEF ScheduledBackup, Taken, Files, Serving
<1>3. ASSUME SafetyBackup PROVE Taken("restore", FALSE)
  BY <1>3 DEF SafetyBackup, Taken, BootUnchanged
<1>4. ASSUME BackupBeforeMigration PROVE Taken("update", TRUE)
  BY <1>4 DEF BackupBeforeMigration, Taken, BootUnchanged
<1>5. ASSUME NEW a \in archives, Delete(a) PROVE Deleted(a)
  BY <1>5 DEF Delete, Deleted, Discard, Files, Serving
<1>6. {"manual", "scheduled", "restore", "update"} \subseteq Types
  BY DEF Types
<1>7. CASE UNCHANGED <<archives, discarded>>
  BY <1>7
<1>8. QED
  BY <1>1, <1>2, <1>3, <1>4, <1>5, <1>6, <1>7
     DEF Next, vars, Serve, Boot, Write, Tick, Stage, Written, Accept, Reject,
         Promote, Mark, Request, Exit, Crash, BootFails, Start, Decide, DecideRaises, SwapIn,
         RemoveSidecars, Unstage, ClearMarker, Inspect, Migrate, Serving

-----------------------------------------------------------------------------
(* Each part of the invariant.                                             *)

LEMMA InitInv == Init => IInv
<1> SUFFICES ASSUME Init PROVE IInv
  OBVIOUS
<1>1. TypeOK
  <2>1. head \in Nat /\ db \in Database
    BY RecoveryAssumption DEF Init, Database
  <2>2. spent \in [writes : 0..MaxWrites, backups : 0..MaxBackups,
                  staged : 0..MaxStaged, faults : 0..MaxFaults]
    BY RecoveryAssumption DEF Init
  <2>3. clock \in 0..MaxClock
    BY RecoveryAssumption DEF Init
  <2>4. QED
    BY <2>1, <2>2, <2>3 DEF Init, TypeOK
<1>2. BootInv /\ JournalInv /\ ReadableInv /\ GateInv
  BY DEF Init, BootInv, JournalInv, ReadableInv, GateInv
<1>3. ArchiveInv /\ ReplacedInv
  BY FS_EmptySet DEF Init, ArchiveInv, ReplacedInv
<1>4. MidwayInv
  BY DEF Init, MidwayInv, Covered
<1>5. QED
  BY <1>1, <1>2, <1>3, <1>4 DEF IInv

\* The archives, by type and by time.
LEMMA ArchiveTypes ==
    ASSUME IInv, [Next]_vars
    PROVE  /\ archives' \subseteq Archive /\ discarded' \subseteq Archive
           /\ \A a, b \in archives' : a.type = b.type /\ a.at = b.at => a = b
<1>1. /\ archives \subseteq Archive /\ discarded \subseteq Archive
      /\ \A a, b \in archives : a.type = b.type /\ a.at = b.at => a = b
      /\ IsFiniteSet(archives)
  BY DEF IInv, TypeOK, ArchiveInv
<1>2. CASE UNCHANGED <<archives, discarded>>
  BY <1>1, <1>2
<1>3. ASSUME NEW type \in Types, NEW prune \in BOOLEAN, Taken(type, prune)
      PROVE  /\ archives' \subseteq Archive /\ discarded' \subseteq Archive
             /\ \A a, b \in archives' : a.type = b.type /\ a.at = b.at => a = b
  <2> DEFINE a == [type |-> type, at |-> clock, db |-> db]
  <2>1. a.type = type /\ a.at = clock
    OBVIOUS
  <2>2. /\ a \in Archive /\ a \in archives' /\ archives' \subseteq archives \cup {a}
        /\ discarded' \subseteq discarded \cup archives \cup {a}
        /\ \A b \in archives' : b = a \/ b.type # type \/ b.at # clock
    BY <1>1, <1>3, BackUpShape DEF IInv, Taken
  <2> HIDE DEF a
  <2>3. QED
    BY <1>1, <2>1, <2>2
<1>4. ASSUME NEW a \in archives, Deleted(a)
      PROVE  /\ archives' \subseteq Archive /\ discarded' \subseteq Archive
             /\ \A b, c \in archives' : b.type = c.type /\ b.at = c.at => b = c
  BY <1>1, <1>4 DEF Deleted
<1>5. QED
  BY <1>2, <1>3, <1>4, ArchiveSteps

\* The files that requests write.
LEMMA StagingTypes ==
    ASSUME IInv, [Next]_vars
    PROVE  /\ part' \in Staging \cup {NoFile} /\ staged' \in Staging \cup {NoFile}
           /\ pc' \in [Requests -> {"idle", "write", "gate", "promote", "mark"}]
           /\ source' \in [Requests -> Database \cup {NoFile}]
<1> USE DEF TypeOK
<1>1. TypeOK
  BY DEF IInv
<1>2. ASSUME NEW r \in Requests, NEW d \in Uploads \cup {a.db : a \in archives}, Stage(r, d)
      PROVE  /\ part' \in Staging \cup {NoFile} /\ staged' \in Staging \cup {NoFile}
             /\ pc' \in [Requests -> {"idle", "write", "gate", "promote", "mark"}]
             /\ source' \in [Requests -> Database \cup {NoFile}]
  <2>1. d \in Database
    BY <1>1, RecoveryAssumption DEF Archive
  <2>2. Opened(part, r) \in SUBSET Requests
    BY <1>1 DEF Opened, Staging
  <2>3. PICK cut \in {"torn", "partial"} :
          part' = [db |-> [d EXCEPT !.state = cut], writers |-> Opened(part, r)]
    BY <1>2 DEF Stage
  <2>4. [d EXCEPT !.state = cut] \in Database
    BY <2>1, StateChanges
  <2>5. part' \in Staging
    BY <2>2, <2>3, <2>4 DEF Staging
  <2>6. QED
    BY <1>1, <1>2, <2>1, <2>5 DEF Stage
<1>3. ASSUME NEW r \in Requests, Written(r)
      PROVE  /\ part' \in Staging \cup {NoFile} /\ staged' \in Staging \cup {NoFile}
             /\ pc' \in [Requests -> {"idle", "write", "gate", "promote", "mark"}]
             /\ source' \in [Requests -> Database \cup {NoFile}]
  <2>1. source[r] \in Database
    BY <1>1, <1>3 DEF Written, IInv, BootInv
  <2>2. \A f \in Staging \cup {NoFile} : Completed(f, r) \in Staging \cup {NoFile}
    BY <2>1 DEF Completed, Staging
  <2>3. QED
    BY <1>1, <1>3, <2>2 DEF Written, Goto
<1>4. ASSUME NEW r \in Requests, Accept(r) \/ Reject(r) \/ Promote(r) \/ Mark(r)
      PROVE  /\ part' \in Staging \cup {NoFile} /\ staged' \in Staging \cup {NoFile}
             /\ pc' \in [Requests -> {"idle", "write", "gate", "promote", "mark"}]
             /\ source' \in [Requests -> Database \cup {NoFile}]
  BY <1>1, <1>4 DEF Accept, Reject, Promote, Mark, Goto, Return
<1>5. ASSUME Dies
      PROVE  /\ part' \in Staging \cup {NoFile} /\ staged' \in Staging \cup {NoFile}
             /\ pc' \in [Requests -> {"idle", "write", "gate", "promote", "mark"}]
             /\ source' \in [Requests -> Database \cup {NoFile}]
  BY <1>1, <1>5, DiesShape
<1>6. ASSUME Boot
      PROVE  /\ part' \in Staging \cup {NoFile} /\ staged' \in Staging \cup {NoFile}
             /\ pc' \in [Requests -> {"idle", "write", "gate", "promote", "mark"}]
             /\ source' \in [Requests -> Database \cup {NoFile}]
  <2>1. CASE DecideRaises
    BY <1>5, <2>1 DEF DecideRaises
  <2>2. CASE ~DecideRaises
    BY <1>1, <1>6, <2>2
       DEF Boot, BootUnchanged, Files, Serving, Start, Decide, SafetyBackup, SwapIn,
           RemoveSidecars, Unstage, ClearMarker, Inspect, BackupBeforeMigration, Migrate
  <2>3. QED
    BY <2>1, <2>2
<1>7. CASE UNCHANGED <<part, staged, pc, source>>
  BY <1>1, <1>7
<1>8. QED
  BY <1>2, <1>3, <1>4, <1>5, <1>6, <1>7
     DEF Next, vars, Serve, Exit, Crash, BootFails, ManualBackup, ScheduledBackup,
         Delete, Write, Tick, Files, Serving

LEMMA TypeStep == IInv /\ [Next]_vars => TypeOK'
<1> SUFFICES ASSUME IInv, [Next]_vars PROVE TypeOK'
  OBVIOUS
<1>1. TypeOK
  BY DEF IInv
<1>2. db \in Database /\ head \in Nat
  BY <1>1, RecoveryAssumption DEF TypeOK
<1>3. db' \in Database /\ journal' \in Database \cup {NoFile}
  <2>1. CASE Cut
    BY <1>2, <2>1, StateChanges DEF Cut
  <2>2. CASE Crash
    BY <1>1, <1>2, <2>1, <2>2, StateChanges DEF Crash, TypeOK
  <2>3. CASE Exit
    BY <1>1, <2>1, <2>3 DEF Exit, TypeOK
  <2>4. CASE SwapIn
    BY <1>1, <2>4 DEF SwapIn, IInv, BootInv, TypeOK, Staging
  <2>5. CASE Migrate
    BY <1>1, <1>2, <2>5 DEF Migrate, TypeOK, Database
  <2>6. CASE Write
    <3>1. spent'.writes \in Int
      BY <1>1, <2>6, RecoveryAssumption DEF Write, Spend, TypeOK
    <3>2. QED
      BY <1>1, <1>2, <2>6, <3>1 DEF Write, TypeOK, Database
  <2>7. CASE Inspect \/ RemoveSidecars
    BY <1>1, <2>7 DEF Inspect, RemoveSidecars, TypeOK
  <2>8. CASE UNCHANGED <<db, journal>>
    BY <1>1, <2>8 DEF TypeOK
  <2>9. QED
    BY <2>2, <2>3, <2>4, <2>5, <2>6, <2>7, <2>8
       DEF Next, vars, Serve, Boot, ManualBackup, ScheduledBackup, Delete, Tick, Stage,
           Written, Accept, Reject, Promote, Mark, Request, BootFails, Start, Decide, DecideRaises,
           SafetyBackup, Unstage, ClearMarker, BackupBeforeMigration, Files
<1>4. clock' \in 0..MaxClock /\ head' \in Heads
  <2>1. UNCHANGED clock \/ (clock < MaxClock /\ clock' = clock + 1)
    BY DEF Next, Dies, vars, Serve, Boot, ManualBackup, ScheduledBackup, Delete, Tick, Stage,
         Written, Accept, Reject, Promote, Mark, Request, BootFails, Start, Decide, DecideRaises,
         SafetyBackup, Unstage, ClearMarker, BackupBeforeMigration, Exit, Crash, Write,
         SwapIn, RemoveSidecars, Inspect, Migrate, BootUnchanged
  <2>2. head' \in Heads
    BY <1>1
       DEF TypeOK, Next, vars, Serve, Boot, ManualBackup, ScheduledBackup, Delete, Tick, Stage,
           Written, Accept, Reject, Promote, Mark, Request, BootFails, Start, Decide, DecideRaises,
           SafetyBackup, Unstage, ClearMarker, BackupBeforeMigration, Exit, Crash, Write,
           SwapIn, RemoveSidecars, Inspect, Migrate, BootUnchanged
  <2>3. QED
    BY <1>1, <2>1, <2>2, RecoveryAssumption DEF TypeOK
<1>5. marker' \in BOOLEAN /\ exiting' \in BOOLEAN /\ raced' \in BOOLEAN
  BY <1>1
     DEF TypeOK, Next, vars, Serve, Boot, ManualBackup, ScheduledBackup, Delete, Tick,
         Stage, Written, Accept, Reject, Promote, Mark, Request, BootFails, Start, Decide, DecideRaises,
         SafetyBackup, Unstage, ClearMarker, BackupBeforeMigration, Exit, Crash, Write,
         SwapIn, RemoveSidecars, Inspect, Migrate, BootUnchanged, Dies, Files, Serving
<1>6. program' \in {"down", "up"} \cup Booting
  BY <1>1
     DEF TypeOK, Next, vars, Serve, Boot, ManualBackup, ScheduledBackup, Delete, Tick,
         Stage, Written, Accept, Reject, Promote, Mark, Request, BootFails, Start, Decide, DecideRaises,
         SafetyBackup, Unstage, ClearMarker, BackupBeforeMigration, Exit, Crash, Write,
         SwapIn, RemoveSidecars, Inspect, Migrate, Dies, Booting
<1>7. replaced' \subseteq Database
  <2>1. CASE SwapIn
    BY <1>1, <1>2, <2>1 DEF SwapIn, TypeOK, Database
  <2>2. CASE UNCHANGED replaced
    BY <1>1, <2>2 DEF TypeOK
  <2>3. QED
    BY <2>1, <2>2
       DEF Next, vars, Serve, Boot, ManualBackup, ScheduledBackup, Delete, Tick, Stage,
           Written, Accept, Reject, Promote, Mark, Request, BootFails, Start, Decide, DecideRaises,
           SafetyBackup, Unstage, ClearMarker, BackupBeforeMigration, Exit, Crash, Write,
           RemoveSidecars, Inspect, Migrate
<1>8. spent' \in [writes : 0..MaxWrites, backups : 0..MaxBackups,
                staged : 0..MaxStaged, faults : 0..MaxFaults]
  <2>1. \/ UNCHANGED spent
        \/ spent.writes < MaxWrites /\ Spend("writes")
        \/ spent.backups < MaxBackups /\ Spend("backups")
        \/ spent.staged < MaxStaged /\ Spend("staged")
        \/ spent.faults < MaxFaults /\ Spend("faults")
    BY DEF Next, vars, Serve, Boot, ManualBackup, ScheduledBackup, Delete, Tick, Stage,
         Written, Accept, Reject, Promote, Mark, Request, BootFails, Start, Decide, DecideRaises,
         SafetyBackup, Unstage, ClearMarker, BackupBeforeMigration, Exit, Crash, Write,
         SwapIn, RemoveSidecars, Inspect, Migrate, BootUnchanged
  <2>2. spent \in [writes : 0..MaxWrites, backups : 0..MaxBackups,
                  staged : 0..MaxStaged, faults : 0..MaxFaults]
    BY <1>1 DEF TypeOK
  <2>3. QED
    BY <2>1, <2>2, RecoveryAssumption DEF Spend
<1>9. QED
  BY <1>3, <1>4, <1>5, <1>6, <1>7, <1>8, ArchiveTypes, StagingTypes DEF TypeOK

LEMMA BootStep == IInv /\ [Next]_vars => BootInv'
<1> SUFFICES ASSUME IInv, [Next]_vars PROVE BootInv'
  OBVIOUS
<1>1. TypeOK /\ BootInv
  BY DEF IInv
<1>2. CASE Dies
  BY <1>2, <1>1, DiesShape DEF BootInv
<1>3. ASSUME NEW r \in Requests, Serve(r) PROVE BootInv'
  BY <1>1, <1>3
     DEF Serve, Written, Accept, Reject, Promote, Mark, Request, Goto, Return, BootInv,
         TypeOK
<1>4. ASSUME NEW r \in Requests, NEW d \in Uploads \cup {a.db : a \in archives}, Stage(r, d)
      PROVE BootInv'
  <2>1. d # NoFile
    BY <1>1, RecoveryAssumption, NoFileIsNoFile DEF TypeOK, Archive
  <2>2. QED
    BY <1>1, <1>4, <2>1 DEF Stage, BootInv, TypeOK
<1>5. CASE Boot /\ ~DecideRaises
  <2>1. UNCHANGED <<pc, source>> /\ program # "up"
    BY <1>5
       DEF Boot, BootUnchanged, Serving, Start, Decide, SafetyBackup, SwapIn,
           RemoveSidecars, Unstage, ClearMarker, Inspect, BackupBeforeMigration, Migrate
  <2>2. program' \in {"safety", "swap", "sidecars"} => marker' /\ staged' # NoFile
    <3>1. CASE Decide
      BY <3>1 DEF Decide, Restorable
    <3>2. CASE SafetyBackup \/ SwapIn
      BY <1>1, <3>2 DEF SafetyBackup, SwapIn, BootInv
    <3>3. CASE ~Decide /\ ~SafetyBackup /\ ~SwapIn
      BY <1>5, <3>3
         DEF Boot, Start, RemoveSidecars, Unstage, ClearMarker, Inspect,
             BackupBeforeMigration, Migrate
    <3>4. QED
      BY <3>1, <3>2, <3>3
  <2>3. program' \in {"safety", "swap"} => staged'.db.state # "partial"
    BY <1>1, <1>5
       DEF Boot, BootUnchanged, Files, Start, Decide, Restorable, SafetyBackup, SwapIn,
           BootInv, RemoveSidecars, Unstage, ClearMarker, Inspect, BackupBeforeMigration,
           Migrate
  <2>4. QED
    BY <1>1, <2>1, <2>2, <2>3 DEF BootInv
<1>6. CASE UNCHANGED <<program, pc, source, marker, staged>>
  BY <1>1, <1>6 DEF BootInv
<1>7. QED
  BY <1>2, <1>3, <1>4, <1>5, <1>6
     DEF Next, vars, Exit, Crash, BootFails, DecideRaises, ManualBackup, ScheduledBackup,
         Delete, Write, Tick, Files, Serving

LEMMA ArchiveStep == IInv /\ [Next]_vars => ArchiveInv'
<1> SUFFICES ASSUME IInv, [Next]_vars PROVE ArchiveInv'
  OBVIOUS
<1>1. TypeOK /\ ArchiveInv /\ clock \in Int /\ \A a \in archives : a.at \in Int
  BY RecoveryAssumption DEF IInv, TypeOK, Archive
<1>2. \/ clock' = clock /\ (program' \in {"decide", "safety"} => program \in {"decide", "safety"})
         /\ (program' \in Booting \ {"migrate"} => program \in Booting \ {"migrate"})
      \/ clock' = clock + 1
      \/ Start /\ clock' = clock /\ clock = MaxClock
  <2>1. CASE Start
    BY <1>1, <2>1, RecoveryAssumption DEF Start, TypeOK
  <2>2. CASE ~Start
    BY <2>2
       DEF Next, vars, Serve, Boot, ManualBackup, ScheduledBackup, Delete, Tick, Stage,
           Written, Accept, Reject, Promote, Mark, Request, BootFails, Decide, DecideRaises,
           SafetyBackup, Unstage, ClearMarker, BackupBeforeMigration, Exit, Crash, Write,
           SwapIn, RemoveSidecars, Inspect, Migrate, BootUnchanged, Dies, Booting
  <2>3. QED
    BY <2>1, <2>2
<1>3. CASE UNCHANGED <<archives, discarded>>
  <2>1. CASE Start /\ clock' = clock /\ clock = MaxClock
    <3>1. \A a \in archives : a.type \in {"update", "restore"} => a.at # clock
      BY <2>1 DEF Start, OutOfTime
    <3>2. \A a \in archives : a.type \in {"update", "restore"} => a.at < clock
      BY <1>1, <3>1 DEF ArchiveInv
    <3>3. QED
      BY <1>1, <1>3, <2>1, <3>2 DEF ArchiveInv
  <2>2. CASE ~(Start /\ clock' = clock /\ clock = MaxClock)
    BY <1>1, <1>2, <1>3, <2>2 DEF ArchiveInv
  <2>3. QED
    BY <2>1, <2>2
<1>4. ASSUME NEW type \in Types, NEW prune \in BOOLEAN, Taken(type, prune)
      PROVE  ArchiveInv'
  <2> DEFINE a == [type |-> type, at |-> clock, db |-> db]
  <2>1. a.type = type /\ a.at = clock
    OBVIOUS
  <2>2. archives' \subseteq archives \cup {a} /\ IsFiniteSet(archives')
    BY <1>1, <1>4, BackUpShape DEF ArchiveInv, Taken
  <2> HIDE DEF a
  <2>3. /\ clock' = clock /\ ~Start
        /\ type = "restore" => program' = "swap"
        /\ type = "update" => program' = "migrate"
    BY <1>4 DEF Taken, Start
  <2>4. QED
    BY <1>1, <1>2, <2>1, <2>2, <2>3 DEF ArchiveInv
<1>5. ASSUME NEW a \in archives, Deleted(a) PROVE ArchiveInv'
  <2>1. ~Start
    BY <1>5 DEF Deleted, Start
  <2>2. QED
    BY <1>1, <1>2, <1>5, <2>1, FS_RemoveElement DEF Deleted, ArchiveInv
<1>6. QED
  BY <1>3, <1>4, <1>5, ArchiveSteps

LEMMA JournalStep == IInv /\ [Next]_vars => JournalInv'
<1> SUFFICES ASSUME IInv, [Next]_vars PROVE JournalInv'
  OBVIOUS
<1>1. TypeOK /\ BootInv /\ JournalInv /\ ReadableInv
  BY DEF IInv
<1>2. db \in Database /\ head \in Heads /\ head \in Nat /\ db.revision \in Nat
  BY <1>1, RecoveryAssumption DEF TypeOK, Database
<1>3. ASSUME Dies, Cut, db.state = "whole" PROVE JournalInv'
  <2>1. db'.state = "torn" /\ db'.content = journal'.content /\ journal' = db
    BY <1>2, <1>3, StateChanges DEF Cut
  <2>2. QED
    BY <1>1, <1>3, <2>1, DiesShape DEF JournalInv
<1>4. ASSUME Dies, UNCHANGED <<db, journal, marker>> PROVE JournalInv'
  BY <1>1, <1>4, DiesShape, NoFileIsNoFile DEF JournalInv, TypeOK
<1>5. ASSUME Dies, program = "migrate", UNCHANGED journal PROVE JournalInv'
  BY <1>1, <1>5 DEF JournalInv
<1>6. CASE program \in {"up", "unstage", "unmark", "backup", "migrate"} /\ UNCHANGED journal
  BY <1>1, <1>6 DEF JournalInv
<1>7. CASE Start
  BY <1>1, <1>7 DEF Start, JournalInv, Files
<1>8. CASE Decide
  <2>1. CASE Restorable
    BY <1>1, <1>8, <2>1 DEF Decide, JournalInv, BootUnchanged
  <2>2. CASE ~Restorable
    <3>1. /\ program' = "inspect" /\ UNCHANGED <<db, journal, staged>>
      BY <1>8, <2>2 DEF Decide
    <3>2. marker /\ staged # NoFile /\ staged.db = db => db.revision > head
      BY <1>1, <1>2, <2>2 DEF Restorable, ReadableInv
    <3>3. QED
      BY <1>1, <1>2, <3>1, <3>2 DEF JournalInv
  <2>3. QED
    BY <2>1, <2>2
<1>9. CASE SafetyBackup
  BY <1>1, <1>9 DEF SafetyBackup, JournalInv, BootUnchanged
<1>10. CASE SwapIn
  BY <1>1, <1>10 DEF SwapIn, JournalInv, BootInv, BootUnchanged
<1>11. CASE RemoveSidecars \/ Inspect
  BY <1>11 DEF RemoveSidecars, Inspect, JournalInv
<1>12. CASE UNCHANGED <<db, journal, marker, program, staged>>
  BY <1>1, <1>12 DEF JournalInv
<1>13. CASE Unstage \/ ClearMarker \/ BackupBeforeMigration \/ Migrate
  BY <1>6, <1>13 DEF Unstage, ClearMarker, BackupBeforeMigration, Migrate
<1>14. ASSUME NEW r \in Requests, Serve(r) PROVE JournalInv'
  <2>1. program = "up"
    BY <1>1, <1>14 DEF BootInv, Serve, Written, Accept, Reject, Promote, Mark
  <2>2. QED
    BY <1>6, <1>14, <2>1 DEF Serve, Written, Accept, Reject, Promote, Mark, Request
<1>15. QED
  BY <1>3, <1>4, <1>5, <1>6, <1>7, <1>8, <1>9, <1>10, <1>11, <1>12, <1>13, <1>14
     DEF Next, vars, Boot, ManualBackup, ScheduledBackup, Delete, Tick, Stage,
         BootFails, Exit, Crash, Write, Files, DecideRaises

\* Where the database comes from.
LEMMA DatabaseSteps ==
    ASSUME IInv, [Next]_vars
    PROVE  \/ db' = db
           \/ db' = [db EXCEPT !.state = "torn"] /\ program = "up"
           \/ /\ db' = [db EXCEPT !.state = "midway"]
              /\ program = "migrate" /\ UNCHANGED <<archives, discarded>>
           \/ db' = journal /\ journal # NoFile /\ program = "inspect"
           \/ db' = staged.db /\ program = "swap" /\ UNCHANGED <<archives, discarded>>
           \/ db' = [db EXCEPT !.revision = head] /\ program = "migrate"
           \/ \E c \in Int : db' = [db EXCEPT !.content = c] /\ db.state = "whole" /\ program = "up"
<1>1. CASE Write
  <2>1. spent'.writes \in Int
    BY <1>1, RecoveryAssumption DEF Write, Spend, IInv, TypeOK
  <2>2. QED
    BY <1>1, <2>1 DEF Write
<1>2. QED
  BY <1>1
     DEF Next, vars, Serve, Boot, ManualBackup, ScheduledBackup, Delete, Tick, Stage,
         Written, Accept, Reject, Promote, Mark, Request, BootFails, Start, Decide, DecideRaises,
         SafetyBackup, Unstage, ClearMarker, BackupBeforeMigration, Exit, Crash, Cut,
         SwapIn, RemoveSidecars, Inspect, Migrate, Files

LEMMA GateStep == IInv /\ [Next]_vars => GateInv'
<1> SUFFICES ASSUME IInv, [Next]_vars, ~raced' PROVE GateInv'
  BY DEF GateInv
<1>1. TypeOK /\ BootInv /\ JournalInv /\ ReadableInv
  BY DEF IInv
<1>2. ~raced
  BY DEF Next, vars, Serve, Boot, ManualBackup, ScheduledBackup, Delete, Tick, Stage,
         Written, Accept, Reject, Promote, Mark, Request, BootFails, Start, Decide, DecideRaises,
         SafetyBackup, Unstage, ClearMarker, BackupBeforeMigration, Exit, Crash, Write,
         SwapIn, RemoveSidecars, Inspect, Migrate, BootUnchanged, Serving
<1>3. /\ \A q, r \in Requests : pc[q] # "idle" /\ pc[r] # "idle" => q = r
      /\ db.state # "foreign" /\ \A a \in archives : a.db.state # "foreign"
      /\ staged # NoFile =>
           staged.db.state \notin {"foreign", "partial"} /\ staged.writers = {}
      /\ part # NoFile => part.writers = {r \in Requests : pc[r] = "write"}
      /\ \A r \in Requests : pc[r] \in {"gate", "promote"} /\ part # NoFile =>
           part.db.state # "partial" /\ (pc[r] = "promote" => part.db.state # "foreign")
  BY <1>2 DEF IInv, GateInv
<1>4. db'.state # "foreign"
  <2>1. db \in Database
    BY <1>1 DEF TypeOK
  <2>2. CASE program = "swap" /\ db' = staged.db
    BY <1>1, <1>3, <2>2 DEF BootInv
  <2>3. CASE journal # NoFile /\ db' = journal
    BY <1>1, <2>3 DEF JournalInv
  <2>4. QED
    BY <1>3, <2>1, <2>2, <2>3, DatabaseSteps, StateChanges DEF Database
<1>5. \A a \in archives' : a.db.state # "foreign"
  <2>1. ASSUME NEW type \in Types, NEW prune \in BOOLEAN, Taken(type, prune)
        PROVE  \A a \in archives' : a.db.state # "foreign"
    <3> DEFINE a == [type |-> type, at |-> clock, db |-> db]
    <3>1. a.db = db /\ archives' \subseteq archives \cup {a}
      BY <1>1, <2>1, BackUpShape DEF IInv, ArchiveInv, Taken
    <3> HIDE DEF a
    <3>2. QED
      BY <1>3, <3>1
  <2>2. QED
    BY <1>3, <2>1, ArchiveSteps DEF Deleted
<1> DEFINE StagingFits ==
      /\ \A q, r \in Requests : pc[q] # "idle" /\ pc[r] # "idle" => q = r
      /\ staged # NoFile =>
           staged.db.state \notin {"foreign", "partial"} /\ staged.writers = {}
      /\ part # NoFile => part.writers = {r \in Requests : pc[r] = "write"}
      /\ \A r \in Requests : pc[r] \in {"gate", "promote"} /\ part # NoFile =>
           part.db.state # "partial" /\ (pc[r] = "promote" => part.db.state # "foreign")
<1>6. CASE Dies
  <2>1. {r \in Requests : pc'[r] = "write"} = {}
    BY <1>6, <1>1, DiesShape
  <2>2. StagingFits'
    BY <1>1, <1>3, <1>6, <2>1, DiesShape
  <2>3. QED
    BY <1>4, <1>5, <2>2 DEF GateInv
<1>7. ASSUME NEW r \in Requests, NEW d \in Uploads \cup {a.db : a \in archives}, Stage(r, d)
      PROVE GateInv'
  <2>1. \A q \in Requests \ {r} : pc[q] = "idle" /\ pc'[q] = "idle"
    BY <1>1, <1>7 DEF Stage, TypeOK
  <2>2. pc[r] = "idle" /\ pc'[r] = "write" /\ staged' = staged
    BY <1>1, <1>7 DEF Stage, TypeOK
  <2>3. part'.writers = {r}
    BY <1>3, <1>7, <2>1, <2>2 DEF Stage, Opened
  <2>4. {q \in Requests : pc'[q] = "write"} = {r}
    BY <2>1, <2>2
  <2>5. StagingFits'
    BY <1>3, <2>1, <2>2, <2>3, <2>4
  <2>6. QED
    BY <1>4, <1>5, <2>5 DEF GateInv
<1>8. ASSUME NEW r \in Requests, Serve(r) PROVE GateInv'
  <2>1. pc[r] # "idle" /\ \A q \in Requests \ {r} : pc[q] = "idle"
    BY <1>3, <1>8 DEF Serve, Written, Accept, Reject, Promote, Mark
  <2>2. \A q \in Requests \ {r} : pc'[q] = "idle"
    BY <1>1, <1>8, <2>1
       DEF Serve, Written, Accept, Reject, Promote, Mark, Goto, Return, TypeOK
  <2>3. CASE Written(r)
    <3>1. pc[r] = "write" /\ pc'[r] = "gate" /\ {q \in Requests : pc'[q] = "write"} = {}
      BY <1>1, <2>2, <2>3 DEF Written, Goto, TypeOK
    <3>2. part # NoFile => part.writers = {r}
      BY <1>3, <2>1, <3>1
    <3>3. staged' = staged
      BY <1>3, <2>3 DEF Written, Completed
    <3>4. part' # NoFile => part'.writers = {}
      BY <2>3, <3>2, NoFileIsNoFile DEF Written, Completed
    <3>5. part' # NoFile => part'.db.state # "partial"
      <4>1. source[r] # NoFile /\ source[r].state # "partial"
        BY <1>1, <3>1 DEF BootInv, ReadableInv
      <4>2. QED
        BY <2>3, <3>2, <4>1 DEF Written, Completed
    <3>6. StagingFits'
      BY <1>3, <2>2, <3>1, <3>3, <3>4, <3>5
    <3>7. QED
      BY <1>4, <1>5, <3>6 DEF GateInv
  <2>4. CASE ~Written(r)
    <3>1. pc[r] # "write" /\ {q \in Requests : pc[q] = "write"} = {}
      BY <1>8, <2>1, <2>4 DEF Serve, Accept, Reject, Promote, Mark
    <3>2. {q \in Requests : pc'[q] = "write"} = {}
      BY <1>1, <1>8, <2>2, <2>4
         DEF Serve, Accept, Reject, Promote, Mark, Goto, Return, TypeOK
    <3>3. CASE Accept(r)
      <4>1. StagingFits'
        BY <1>1, <1>3, <2>2, <3>1, <3>2, <3>3 DEF Accept, Passes, Goto, TypeOK
      <4>2. QED
        BY <1>4, <1>5, <4>1 DEF GateInv
    <3>4. CASE Reject(r)
      <4>1. StagingFits'
        BY <1>1, <1>3, <2>2, <3>1, <3>2, <3>4 DEF Reject, Return, TypeOK
      <4>2. QED
        BY <1>4, <1>5, <4>1 DEF GateInv
    <3>5. CASE Promote(r)
      <4>1. StagingFits'
        BY <1>1, <1>3, <2>2, <3>1, <3>2, <3>5 DEF Promote, Return, Goto, TypeOK
      <4>2. QED
        BY <1>4, <1>5, <4>1 DEF GateInv
    <3>6. CASE Mark(r)
      <4>1. StagingFits'
        BY <1>1, <1>3, <2>2, <3>1, <3>2, <3>6 DEF Mark, Return, TypeOK
      <4>2. QED
        BY <1>4, <1>5, <4>1 DEF GateInv
    <3>7. QED
      BY <1>8, <2>4, <3>3, <3>4, <3>5, <3>6 DEF Serve
  <2>5. QED
    BY <2>3, <2>4
<1>9. CASE UNCHANGED <<pc, part>> /\ staged' \in {staged, NoFile}
  <2>1. StagingFits'
    BY <1>3, <1>9
  <2>2. QED
    BY <1>4, <1>5, <2>1 DEF GateInv
<1>10. QED
  BY <1>6, <1>7, <1>8, <1>9
     DEF Next, vars, Boot, ManualBackup, ScheduledBackup, Delete, Tick, BootFails, Start,
         Decide, DecideRaises, SafetyBackup, Unstage, ClearMarker, BackupBeforeMigration, Exit, Crash,
         Write, SwapIn, RemoveSidecars, Inspect, Migrate, BootUnchanged, Files, Serving

\* An archive of type restore goes only when it is deleted.
LEMMA ReplacedStep == IInv /\ [Next]_vars => ReplacedInv'
<1> SUFFICES ASSUME IInv, [Next]_vars PROVE ReplacedInv'
  OBVIOUS
<1>1. TypeOK /\ ArchiveInv /\ ReplacedInv
  BY DEF IInv
<1>2. CASE SwapIn
  BY <1>1, <1>2 DEF SwapIn, ReplacedInv, BootUnchanged
<1>3. ASSUME NEW type \in Types, NEW prune \in BOOLEAN, Taken(type, prune)
      PROVE  ReplacedInv'
  <2> DEFINE a == [type |-> type, at |-> clock, db |-> db]
  <2>1. a.type = type /\ a.db = db
    OBVIOUS
  <2>2. /\ a \in archives' /\ discarded \subseteq discarded'
        /\ \A b \in archives :
             \/ b \in archives'
             \/ b.type = type /\ b.at = clock
             \/ b.type = type /\ prune
    BY <1>1, <1>3, BackUpShape DEF ArchiveInv, Taken
  <2> HIDE DEF a
  <2>3. /\ type = "restore" => program = "safety" /\ ~prune
        /\ program' = "swap" => type = "restore"
        /\ UNCHANGED <<replaced, db>>
    BY <1>3 DEF Taken
  <2>4. \A b \in archives : b.at \in Int
    BY <1>1 DEF TypeOK, Archive
  <2>5. \A b \in archives : b.type = "restore" => b \in archives'
    BY <1>1, <2>2, <2>3, <2>4 DEF ArchiveInv, TypeOK
  <2>6. QED
    BY <1>1, <2>1, <2>2, <2>3, <2>5 DEF ReplacedInv
<1>4. ASSUME NEW a \in archives, Deleted(a) PROVE ReplacedInv'
  BY <1>1, <1>4 DEF Deleted, ReplacedInv
<1>5. CASE ~SwapIn /\ UNCHANGED <<archives, discarded>>
  <2>1. UNCHANGED replaced
    BY <1>5
       DEF Next, vars, Serve, Boot, ManualBackup, ScheduledBackup, Delete, Tick, Stage,
           Written, Accept, Reject, Promote, Mark, Request, BootFails, Start, Decide, DecideRaises,
           SafetyBackup, Unstage, ClearMarker, BackupBeforeMigration, Exit, Crash, Write,
           RemoveSidecars, Inspect, Migrate
  <2>2. program' = "swap" => (program = "swap" /\ db' = db) \/ SafetyBackup
    BY <1>5
       DEF Next, vars, Serve, Boot, ManualBackup, ScheduledBackup, Delete, Tick, Stage,
           Written, Accept, Reject, Promote, Mark, Request, BootFails, Start, Decide, DecideRaises,
           Unstage, ClearMarker, BackupBeforeMigration, Exit, Crash, Write, Dies,
           RemoveSidecars, Inspect, Migrate
  <2>3. CASE SafetyBackup
    <3>1. "restore" \in Types /\ Taken("restore", FALSE)
      BY <2>3 DEF SafetyBackup, Taken, BootUnchanged, Types
    <3>2. QED
      BY <1>3, <3>1
  <2>4. CASE ~SafetyBackup
    BY <1>1, <1>5, <2>1, <2>2, <2>4 DEF ReplacedInv
  <2>5. QED
    BY <2>3, <2>4
<1>6. QED
  BY <1>2, <1>3, <1>4, <1>5, ArchiveSteps

\* What is covered stays covered: an archive of type update is overwritten by
\* none, and goes only on the record.
LEMMA CoveredStays ==
    ASSUME IInv, [Next]_vars,
           NEW b \in archives \cup discarded, b.type = "update"
    PROVE  b \in archives' \cup discarded'
<1>1. TypeOK /\ ArchiveInv /\ b.at \in Int
  BY DEF IInv, TypeOK, Archive
<1>2. ASSUME NEW type \in Types, NEW prune \in BOOLEAN, Taken(type, prune)
      PROVE  b \in archives' \cup discarded'
  <2>1. /\ discarded \subseteq discarded'
        /\ b \in archives =>
             \/ b \in archives'
             \/ b.type = type /\ b.at = clock
             \/ b.type = type /\ prune /\ (type = "update" => b \in discarded')
    BY <1>1, <1>2, BackUpShape DEF ArchiveInv, Taken
  <2>2. b \in archives /\ type = "update" => b.at # clock
    BY <1>1, <1>2 DEF Taken, ArchiveInv, Booting, TypeOK
  <2>3. QED
    BY <2>1, <2>2
<1>3. QED
  BY <1>2, ArchiveSteps DEF Deleted

\* Who writes the staging files.
LEMMA StagingWriters ==
    ASSUME [Next]_vars
    PROVE  \/ Dies
           \/ \E r \in Requests, d \in Uploads \cup {a.db : a \in archives} : Stage(r, d)
           \/ \E r \in Requests : Serve(r)
           \/ part' = part /\ staged' \in {staged, NoFile}
<1>1. Boot => Dies \/ (part' = part /\ staged' \in {staged, NoFile})
  BY DEF Boot, Start, Decide, DecideRaises, SafetyBackup, Unstage, ClearMarker, BackupBeforeMigration,
         SwapIn, RemoveSidecars, Inspect, Migrate, BootUnchanged, Files
<1>2. Exit \/ Crash \/ BootFails => Dies
  BY DEF Exit, Crash, BootFails
<1>3. (ManualBackup \/ ScheduledBackup \/ Write \/ Tick \/ UNCHANGED vars
         \/ \E a \in archives : Delete(a))
        => part' = part /\ staged' = staged
  BY DEF vars, ManualBackup, ScheduledBackup, Delete, Tick, Write, Files
<1>4. QED
  BY <1>1, <1>2, <1>3 DEF Next

\* Only requests and deaths change what is in the staging files.
LEMMA StagingSteps ==
    ASSUME IInv, [Next]_vars, NEW f \in {part', staged'}, f # NoFile, f.db.state = "midway"
    PROVE  \/ part # NoFile /\ f.db = part.db
           \/ staged # NoFile /\ f.db = staged.db
           \/ \E r \in Requests : source[r] # NoFile /\ f.db = source[r]
<1>1. TypeOK /\ BootInv
  BY DEF IInv
<1>2. CASE Dies
  BY <1>1, <1>2, DiesShape
<1>3. ASSUME NEW r \in Requests, NEW d \in Uploads \cup {a.db : a \in archives}, Stage(r, d)
      PROVE  f = staged
  <2>1. d \in Database
    BY <1>1, RecoveryAssumption DEF TypeOK, Archive
  <2>2. PICK cut \in {"torn", "partial"} :
          part' = [db |-> [d EXCEPT !.state = cut], writers |-> Opened(part, r)]
    BY <1>3 DEF Stage
  <2>3. part'.db.state # "midway" /\ staged' = staged
    BY <1>3, <2>1, <2>2, StateChanges DEF Stage
  <2>4. QED
    BY <2>3
<1>4. ASSUME NEW r \in Requests, Written(r)
      PROVE  \/ f \in {part, staged}
             \/ source[r] # NoFile /\ f.db = source[r]
  BY <1>1, <1>4 DEF Written, Completed, BootInv
<1>5. ASSUME NEW r \in Requests, Accept(r) \/ Reject(r) \/ Promote(r) \/ Mark(r)
      PROVE  f \in {part, staged}
  BY <1>5 DEF Accept, Reject, Promote, Mark
<1>6. CASE part' = part /\ staged' \in {staged, NoFile}
  BY <1>6
<1>7. \/ Dies
      \/ \E r \in Requests, d \in Uploads \cup {a.db : a \in archives} : Stage(r, d)
      \/ \E r \in Requests : Serve(r)
      \/ part' = part /\ staged' \in {staged, NoFile}
  BY StagingWriters
<1>8. ASSUME NEW r \in Requests, Serve(r)
      PROVE  f \in {part, staged} \/ (source[r] # NoFile /\ f.db = source[r])
  BY <1>4, <1>5, <1>8 DEF Serve
<1>9. QED
  BY <1>2, <1>3, <1>6, <1>7, <1>8

\* Where the database that a request restores comes from.
LEMMA SourceSteps ==
    ASSUME TypeOK, [Next]_vars, NEW r \in Requests
    PROVE  \/ source'[r] \in {source[r], NoFile}
           \/ \E d \in Uploads \cup {a.db : a \in archives} : source'[r] = d
BY DEF TypeOK, Next, vars, Serve, Boot, ManualBackup, ScheduledBackup, Delete, Tick,
       Stage, Written, Accept, Reject, Promote, Mark, Goto, Return, BootFails, Start,
       Decide, DecideRaises, SafetyBackup, Unstage, ClearMarker, BackupBeforeMigration,
       Exit, Crash, Dies, Write, SwapIn, RemoveSidecars, Inspect, Migrate, BootUnchanged,
       Serving

LEMMA ReadableStep == IInv /\ [Next]_vars => ReadableInv'
<1> SUFFICES ASSUME IInv, [Next]_vars PROVE ReadableInv'
  OBVIOUS
<1>1. TypeOK /\ BootInv /\ ReadableInv /\ JournalInv
  BY DEF IInv
<1>2. db'.state # "partial"
  <2>1. db \in Database
    BY <1>1 DEF TypeOK
  <2>2. CASE program = "swap" /\ db' = staged.db
    BY <1>1, <2>2 DEF BootInv
  <2>3. CASE journal # NoFile /\ db' = journal
    BY <1>1, <2>3 DEF JournalInv
  <2>4. QED
    BY <1>1, <2>1, <2>2, <2>3, DatabaseSteps, StateChanges DEF Database, ReadableInv
<1>3. \A a \in archives' : a.db.state # "partial"
  <2>1. ASSUME NEW type \in Types, NEW prune \in BOOLEAN, Taken(type, prune)
        PROVE  \A a \in archives' : a.db.state # "partial"
    <3> DEFINE a == [type |-> type, at |-> clock, db |-> db]
    <3>1. a.db = db /\ archives' \subseteq archives \cup {a}
      BY <1>1, <2>1, BackUpShape DEF IInv, ArchiveInv, Taken
    <3> HIDE DEF a
    <3>2. QED
      BY <1>1, <3>1 DEF ReadableInv
  <2>2. QED
    BY <1>1, <2>1, ArchiveSteps DEF Deleted, ReadableInv
<1>4. \A r \in Requests : source'[r] # NoFile => source'[r].state # "partial"
  <2> SUFFICES ASSUME NEW r \in Requests, source'[r] # NoFile
               PROVE  source'[r].state # "partial"
    OBVIOUS
  <2>1. \/ source'[r] \in {source[r], NoFile}
        \/ \E d \in Uploads \cup {a.db : a \in archives} : source'[r] = d
    BY <1>1, SourceSteps
  <2>2. QED
    BY <1>1, <2>1, UploadAssumption DEF ReadableInv
<1>5. QED
  BY <1>2, <1>3, <1>4 DEF ReadableInv

LEMMA MidwayStep == IInv /\ [Next]_vars => MidwayInv'
<1> SUFFICES ASSUME IInv, [Next]_vars PROVE MidwayInv'
  OBVIOUS
<1>1. TypeOK /\ BootInv /\ JournalInv /\ ArchiveInv /\ MidwayInv
  BY DEF IInv
<1> DEFINE Kept(c) == \E a \in archives \cup discarded :
                        a.type = "update" /\ a.db.content = c /\ a.db.state # "midway"
           KeptNext(c) == \E a \in archives' \cup discarded' :
                        a.type = "update" /\ a.db.content = c /\ a.db.state # "midway"
<1>2. \A c : Kept(c) => KeptNext(c)
  BY CoveredStays
<1>4. ASSUME NEW d, Covered(d), d.state = "midway"
      PROVE  KeptNext(d.content)
  BY <1>2, <1>4 DEF Covered
<1>5. /\ Covered(db) /\ \A a \in archives : Covered(a.db)
      /\ part # NoFile => Covered(part.db)
      /\ staged # NoFile => Covered(staged.db)
      /\ \A r \in Requests : source[r] # NoFile => Covered(source[r])
      /\ program = "migrate" => \E a \in archives : a.type = "update" /\ a.db = db
  BY <1>1 DEF MidwayInv
<1>6. db \in Database
  BY <1>1 DEF TypeOK
<1>7. Covered(db)'
  <2> SUFFICES ASSUME db'.state = "midway"
               PROVE  KeptNext(db'.content)
    BY DEF Covered
  <2>1. CASE db' = db
    BY <1>4, <1>5, <2>1
  <2>2. CASE /\ db' = [db EXCEPT !.state = "midway"]
             /\ program = "migrate" /\ UNCHANGED <<archives, discarded>>
    <3>1. db'.content = db.content
      BY <1>6, <2>2, StateChanges
    <3>2. CASE db.state = "midway"
      BY <1>4, <1>5, <3>1, <3>2
    <3>3. CASE db.state # "midway"
      BY <1>5, <2>2, <3>1, <3>3
    <3>4. QED
      BY <3>2, <3>3
  <2>3. CASE db' = staged.db /\ program = "swap"
    BY <1>1, <1>4, <1>5, <2>3 DEF BootInv
  <2>4. CASE db' = [db EXCEPT !.revision = head]
    <3>1. db'.state = db.state /\ db'.content = db.content
      BY <1>6, <2>4 DEF Database
    <3>2. QED
      BY <1>4, <1>5, <3>1
  <2>5. CASE db' = [db EXCEPT !.state = "torn"]
    BY <1>6, <2>5, StateChanges
  <2>6. CASE db' = journal /\ journal # NoFile
    BY <1>1, <2>6 DEF JournalInv
  <2>7. CASE \E c \in Int : db' = [db EXCEPT !.content = c] /\ db.state = "whole"
    BY <1>6, <2>7 DEF Database
  <2>8. QED
    BY <2>1, <2>2, <2>3, <2>4, <2>5, <2>6, <2>7, DatabaseSteps
<1>8. ASSUME NEW type \in Types, NEW prune \in BOOLEAN, Taken(type, prune)
      PROVE  \E a : /\ a.type = type /\ a.db = db /\ db' = db
                   /\ a \in archives' /\ archives' \subseteq archives \cup {a}
  <2> DEFINE a == [type |-> type, at |-> clock, db |-> db]
  <2>1. a \in archives' /\ archives' \subseteq archives \cup {a}
    BY <1>1, <1>8, BackUpShape DEF ArchiveInv, Taken
  <2>2. a.type = type /\ a.db = db /\ db' = db
    BY <1>8 DEF Taken
  <2>3. QED
    BY <2>1, <2>2
<1>9. \A a \in archives' : a \in archives \/ a.db = db
  BY <1>8, ArchiveSteps DEF Deleted
<1>10. \A a \in archives' : Covered(a.db)'
  BY <1>4, <1>5, <1>9 DEF Covered
<1>11. /\ part' # NoFile => Covered(part.db)'
       /\ staged' # NoFile => Covered(staged.db)'
  <2>1. ASSUME NEW f \in {part', staged'}, f # NoFile, f.db.state = "midway"
        PROVE  KeptNext(f.db.content)
    <3>1. CASE part # NoFile /\ f.db = part.db
      BY <1>4, <1>5, <2>1, <3>1
    <3>2. CASE staged # NoFile /\ f.db = staged.db
      BY <1>4, <1>5, <2>1, <3>2
    <3>3. ASSUME NEW r \in Requests, source[r] # NoFile, f.db = source[r]
          PROVE  KeptNext(f.db.content)
      BY <1>4, <1>5, <2>1, <3>3
    <3>4. QED
      BY <2>1, <3>1, <3>2, <3>3, StagingSteps
  <2>2. QED
    BY <2>1 DEF Covered
<1>12. \A r \in Requests : source'[r] # NoFile => Covered(source[r])'
  <2> SUFFICES ASSUME NEW r \in Requests, source'[r] # NoFile,
                      source'[r].state = "midway"
               PROVE  KeptNext(source'[r].content)
    BY DEF Covered
  <2>1. \/ source'[r] \in {source[r], NoFile}
        \/ \E d \in Uploads \cup {a.db : a \in archives} : source'[r] = d
    BY <1>1, SourceSteps
  <2>2. QED
    BY <1>4, <1>5, <2>1, UploadAssumption
<1>13. program' = "migrate" => \E a \in archives' : a.type = "update" /\ a.db = db'
  <2>1. CASE BackupBeforeMigration
    <3>1. "update" \in Types /\ Taken("update", TRUE)
      BY <2>1 DEF BackupBeforeMigration, Taken, BootUnchanged, Types
    <3>2. TRUE \in BOOLEAN
      OBVIOUS
    <3>3. PICK a : a.type = "update" /\ a.db = db /\ db' = db /\ a \in archives'
      BY <1>8, <3>1, <3>2
    <3>4. a.db = db'
      BY <3>3
    <3>5. QED
      BY <3>3, <3>4
  <2>2. CASE ~BackupBeforeMigration /\ program' = "migrate"
    <3>1. program = "migrate" /\ UNCHANGED <<archives, db>>
      BY <1>1, <2>2
         DEF BootInv, Next, vars, Serve, Boot, ManualBackup, ScheduledBackup, Delete, Tick,
             Stage, Written, Accept, Reject, Promote, Mark, Request, BootFails, Start,
             Decide, DecideRaises, SafetyBackup, Unstage, ClearMarker, Exit, Crash, Dies, Write, SwapIn,
             RemoveSidecars, Inspect, Migrate
    <3>2. QED
      BY <1>5, <3>1
  <2>3. QED
    BY <2>1, <2>2
<1>14. QED
  BY <1>7, <1>10, <1>11, <1>12, <1>13 DEF MidwayInv

-----------------------------------------------------------------------------
(* The theorems.                                                           *)

LEMMA NextInv == IInv /\ [Next]_vars => IInv'
BY TypeStep, BootStep, ArchiveStep, JournalStep, ReadableStep, GateStep, ReplacedStep,
   MidwayStep
   DEF IInv

\* The inductive invariant holds in every reachable state.
THEOREM Inductive == Spec => []IInv
BY InitInv, NextInv, PTL DEF Spec

\* Types of the files, the archives and the requests.
THEOREM TypeCorrect == Spec => []TypeOK
<1>1. IInv => TypeOK
  BY DEF IInv
<1>2. QED
  BY <1>1, Inductive, PTL

\* With one restore request at a time, only a database that passed the gate ever
\* becomes the database, whatever dies in between.
THEOREM SwapIsGated == Spec => []GatedSwap
<1>1. IInv => GatedSwap
  BY DEF IInv, GateInv, GatedSwap
<1>2. QED
  BY <1>1, Inductive, PTL

\* Every database that a restore replaced, whole or torn, is in an archive that
\* only the user can delete; what a torn one's journal held is not.
THEOREM RestoreIsReversible == Spec => []Reversible
<1>1. IInv => Reversible
  BY DEF IInv, ReplacedInv, Reversible
<1>2. QED
  BY <1>1, Inductive, PTL

\* Before a migration that was cut there was a backup, and it is still there
\* unless its retention or the user removed it.
THEOREM CutMigrationIsKept == Spec => []PreMigrationKept
<1>1. IInv => PreMigrationKept
  BY DEF IInv, MidwayInv, Covered, PreMigrationKept
<1>2. QED
  BY <1>1, Inductive, PTL

\* A journal is rolled back into its own database only.
THEOREM JournalStaysItsOwn == Spec => []JournalIsItsOwn
<1>1. IInv => JournalIsItsOwn
  <2> SUFFICES ASSUME IInv, program = "inspect", journal # NoFile,
                      \A h \in Heads : db.revision <= h
               PROVE  db.state = "torn" /\ db.content = journal.content
    BY DEF JournalIsItsOwn
  <2>1. db.revision \in Nat /\ Heads \subseteq Nat
    BY RecoveryAssumption DEF IInv, TypeOK, Database
  <2>2. \/ db.state = "torn" /\ db.content = journal.content
        \/ \E h \in Heads : db.revision > h
    BY DEF IInv, JournalInv
  <2>3. ASSUME NEW h \in Heads, db.revision > h PROVE FALSE
    <3>1. h \in Nat /\ db.revision <= h
      BY <2>1
    <3>2. QED
      BY <2>1, <2>3, <3>1
  <2>4. QED
    BY <2>2, <2>3
<1>2. QED
  BY <1>1, Inductive, PTL

\* A finite set of archives has a newest one.
LEMMA Newest ==
    ASSUME NEW S \in SUBSET Archive, IsFiniteSet(S), S # {}
    PROVE  \E m \in S : Newer(m, S) = {}
<1> DEFINE T == {Newer(b, S) : b \in S}
<1>1. T \subseteq FiniteSubsetsOf(S) /\ T # {}
  <2>1. \A b \in S : Newer(b, S) \in SUBSET S
    BY DEF Newer
  <2>2. \A b \in S : IsFiniteSet(Newer(b, S))
    BY <2>1, FS_Subset
  <2>3. QED
    BY <2>1, <2>2 DEF FiniteSubsetsOf
<1>2. IsWellFoundedOn(StrictSubsetOrdering(S), FiniteSubsetsOf(S))
  BY FS_StrictSubsetOrderingWellFounded
<1> HIDE DEF T
<1>3. \E x \in T : \A y \in T : ~ (<<y, x>> \in StrictSubsetOrdering(S))
  BY <1>1, <1>2, WFMin
<1> USE DEF T
<1>4. PICK m \in S : \A b \in S : ~ (<<Newer(b, S), Newer(m, S)>> \in StrictSubsetOrdering(S))
  BY <1>3
<1>5. ASSUME NEW b \in Newer(m, S) PROVE FALSE
  <2>1. b \in S /\ b.type = m.type /\ b.at > m.at
    BY <1>5 DEF Newer
  <2>2. m.at \in Int /\ \A c \in S : c.at \in Int
    BY DEF Archive
  <2>3. Newer(b, S) \subseteq Newer(m, S) /\ b \notin Newer(b, S)
    BY <2>1, <2>2 DEF Newer
  <2>4. Newer(b, S) \in SUBSET S /\ Newer(m, S) \in SUBSET S /\ Newer(b, S) # Newer(m, S)
    BY <1>5, <2>3 DEF Newer
  <2>5. <<Newer(b, S), Newer(m, S)>> \in StrictSubsetOrdering(S)
    BY <2>3, <2>4 DEF StrictSubsetOrdering
  <2>6. QED
    BY <1>4, <2>1, <2>5
<1>6. QED
  BY <1>5

\* prune_backups leaves as many newer ones beside what it removes as it keeps of
\* the type.
LEMMA PruningLeavesTheNewest ==
    ASSUME NEW W \in SUBSET Archive, IsFiniteSet(W), NEW a \in W, NEW n,
           Cardinality(Newer(a, W)) >= MinKeep(a.type)
    PROVE  Cardinality(Newer(a, Pruned(n, W))) >= MinKeep(a.type)
<1> DEFINE N == Newer(a, W)
           K == Newer(a, Pruned(n, W))
<1>1. /\ N \in SUBSET W /\ N \in SUBSET Archive /\ K \in SUBSET W
      /\ IsFiniteSet(N) /\ IsFiniteSet(K)
  <2>1. N \in SUBSET W /\ K \in SUBSET W
    BY DEF Newer, Pruned
  <2>2. QED
    BY <2>1, FS_Subset
<1>2. /\ Cardinality(N) \in Nat /\ Cardinality(K) \in Nat
      /\ a.at \in Int /\ \A b \in W : b.at \in Int
  BY <1>1, FS_CardinalityType DEF Archive
<1>3. \A b \in N : b \in W /\ b.type = a.type /\ b.at > a.at
  BY DEF Newer
<1>4. \A b \in N : Cardinality(Newer(b, W)) < MinKeep(a.type) => b \in K
  BY <1>3 DEF Newer, Pruned
<1>5. \A b \in N : Newer(b, W) \subseteq Newer(b, N)
  BY <1>2, <1>3 DEF Newer
<1>6. N # {}
  BY <1>2, FS_EmptySet DEF MinKeep
<1> HIDE DEF N, K
<1>7. PICK m \in N : Newer(m, N) = {}
  BY <1>1, <1>6, Newest
<1>8. m \in K
  <2>1. Newer(m, W) = {}
    BY <1>5, <1>7
  <2>2. Cardinality(Newer(m, W)) = 0
    BY <2>1, FS_EmptySet
  <2>3. Cardinality(Newer(m, W)) < MinKeep(a.type)
    BY <2>2 DEF MinKeep
  <2>4. QED
    BY <1>4, <2>3
<1>9. CASE a.type # "update"
  <2>1. Cardinality(K) # 0
    BY <1>1, <1>8, FS_EmptySet
  <2>2. QED
    BY <1>2, <1>9, <2>1 DEF MinKeep, K
<1>10. CASE a.type = "update"
  <2> DEFINE L == N \ {m}
  <2>1. IsFiniteSet(L) /\ Cardinality(L) = Cardinality(N) - 1 /\ L \in SUBSET Archive
    BY <1>1, FS_RemoveElement
  <2>2. Cardinality(N) >= 2
    BY <1>10 DEF MinKeep, N
  <2>3. Cardinality(L) # 0
    BY <1>2, <2>1, <2>2
  <2>4. L # {}
    BY <2>3, FS_EmptySet
  <2>5. PICK l \in L : Newer(l, L) = {}
    BY <2>1, <2>4, Newest
  <2>6. Newer(l, W) \in SUBSET {m}
    <3>1. l \in N /\ l # m
      BY <2>5
    <3>2. Newer(l, N) \subseteq Newer(l, L) \cup {m}
      BY DEF Newer
    <3>3. QED
      BY <1>5, <2>5, <3>1, <3>2
  <2>7. Cardinality(Newer(l, W)) \in Nat /\ Cardinality(Newer(l, W)) <= 1
    <3>1. IsFiniteSet({m}) /\ Cardinality({m}) = 1
      BY FS_Singleton
    <3>2. IsFiniteSet(Newer(l, W)) /\ Cardinality(Newer(l, W)) <= 1
      BY <2>6, <3>1, FS_Subset
    <3>3. QED
      BY <3>2, FS_CardinalityType
  <2>8. l \in K /\ l # m
    BY <1>4, <1>10, <2>5, <2>7 DEF MinKeep
  <2>9. Cardinality({m} \cup {l}) = 2
    <3>1. IsFiniteSet({m}) /\ Cardinality({m}) = 1
      BY FS_Singleton
    <3>2. Cardinality({m} \cup {l}) =
            IF l \in {m} THEN Cardinality({m}) ELSE Cardinality({m}) + 1
      BY <3>1, FS_AddElement, Zenon
    <3>3. QED
      BY <2>8, <3>1, <3>2
  <2>10. {m} \cup {l} \in SUBSET K
    BY <1>8, <2>8
  <2>11. Cardinality({m} \cup {l}) <= Cardinality(K)
    BY <1>1, <2>10, FS_Subset
  <2>12. QED
    BY <1>2, <1>10, <2>9, <2>11 DEF MinKeep, K
<1>11. QED
  BY <1>9, <1>10

\* Once there is a recovery point there always is one; and no backup costs
\* another but one of its own second, or one older than the retention beside
\* which pruning leaves enough newer ones of its type.
THEOREM RecoveryPointKept == Spec => RecoveryPoint
<1>1. ASSUME IInv, [Next]_vars, archives # {} PROVE archives' # {}
  <2>1. ASSUME NEW type \in Types, NEW prune \in BOOLEAN, Taken(type, prune)
        PROVE  archives' # {}
    BY <2>1, BackUpShape, <1>1 DEF IInv, ArchiveInv, Taken
  <2>2. ASSUME NEW a \in archives, Deleted(a) PROVE archives' # {}
    <3>1. IsFiniteSet(archives) /\ Cardinality(archives) - 1 >= 1
      BY <1>1, <2>2 DEF IInv, ArchiveInv, Deleted
    <3>2. Cardinality(archives') = Cardinality(archives) - 1
      BY <2>2, <3>1, FS_RemoveElement DEF Deleted
    <3>3. QED
      BY <3>1, <3>2, FS_EmptySet
  <2>3. QED
    BY <1>1, <2>1, <2>2, ArchiveSteps
<1>2. ASSUME IInv, [Next]_vars, NEW a \in archives \ archives',
             NEW type \in Types, NEW prune \in BOOLEAN, Taken(type, prune)
      PROVE  \/ \E b \in archives' : b.type = a.type /\ b.at = a.at
             \/ /\ a.at < clock - Retention
                /\ Cardinality(Newer(a, archives')) >= MinKeep(a.type)
  <2> DEFINE n == [type |-> type, at |-> clock, db |-> db]
             W == With(n, archives)
  <2>1. TypeOK /\ IsFiniteSet(archives)
    BY <1>2 DEF IInv, ArchiveInv
  <2>2. n \in Archive /\ n.type = type /\ n.at = clock
    BY <2>1 DEF TypeOK, Archive
  <2>3. archives' = IF prune THEN Pruned(n, W) ELSE W
    BY <1>2 DEF Taken, BackUp
  <2> HIDE DEF n
  <2>4. W \in SUBSET Archive /\ W \in SUBSET (archives \cup {n}) /\ n \in W
    BY <2>1, <2>2 DEF With, TypeOK
  <2>5. IsFiniteSet(W)
    <3>1. IsFiniteSet(archives \cup {n})
      BY <2>1, FS_AddElement
    <3>2. QED
      BY <2>4, <3>1, FS_Subset
  <2>6. CASE a \notin W
    <3>1. a.type = n.type /\ a.at = n.at
      BY <2>6 DEF With
    <3>2. n \in archives'
      BY <2>3, <2>4 DEF Pruned
    <3>3. QED
      BY <3>1, <3>2
  <2>7. CASE a \in W
    <3>1. prune /\ archives' = Pruned(n, W) /\ a \notin Pruned(n, W)
      BY <2>3, <2>7
    <3> HIDE DEF W
    <3>2. /\ ~(Cardinality(Newer(a, W)) < MinKeep(a.type))
          /\ ~(a.at >= clock - Retention)
      BY <2>7, <3>1 DEF Pruned
    <3>3. a.at \in Int /\ clock \in Int /\ Retention \in Int
      BY <2>1, RecoveryAssumption DEF TypeOK, Archive
    <3>4. a.at < clock - Retention
      BY <3>2, <3>3
    <3>5. Cardinality(Newer(a, W)) \in Nat
      <4>1. Newer(a, W) \in SUBSET W
        BY DEF Newer
      <4>2. QED
        BY <2>5, <4>1, FS_Subset, FS_CardinalityType
    <3>6. Cardinality(Newer(a, W)) >= MinKeep(a.type)
      BY <3>2, <3>5 DEF MinKeep
    <3>7. Cardinality(Newer(a, Pruned(n, W))) >= MinKeep(a.type)
      BY <2>4, <2>5, <2>7, <3>6, PruningLeavesTheNewest
    <3>8. QED
      BY <3>1, <3>4, <3>7
  <2>8. QED
    BY <2>6, <2>7
<1>3. ASSUME IInv, [Next]_vars, NEW a \in archives \ archives'
      PROVE  \/ archives' \subseteq archives
             \/ \E b \in archives' : b.type = a.type /\ b.at = a.at
             \/ /\ a.at < clock - Retention
                /\ Cardinality(Newer(a, archives')) >= MinKeep(a.type)
  <2>1. CASE \E b \in archives : Deleted(b)
    BY <2>1 DEF Deleted
  <2>2. CASE UNCHANGED archives
    BY <2>2
  <2>3. QED
    BY <1>2, <1>3, <2>1, <2>2, ArchiveSteps
<1> DEFINE Kept ==
      /\ archives # {} => archives' # {}
      /\ \A a \in archives \ archives' :
            \/ archives' \subseteq archives
            \/ \E b \in archives' : b.type = a.type /\ b.at = a.at
            \/ /\ a.at < clock - Retention
               /\ Cardinality(Newer(a, archives')) >= MinKeep(a.type)
<1>4. IInv /\ [Next]_vars => [Kept]_vars
  BY <1>1, <1>3
<1>5. RecoveryPoint <=> [][Kept]_vars
  BY DEF RecoveryPoint
<1>6. QED
  BY <1>4, <1>5, Inductive, PTL DEF Spec

\* A marker is on its way to a boot that decides about it: the server that runs
\* beside one is to exit, and a boot does not get past the restore with one.
MarkerHandled ==
    marker => \/ program = "up" /\ exiting
              \/ program \in {"down", "decide", "safety", "swap", "sidecars", "unstage",
                              "unmark"}

\* No boot opens or migrates the database beside a restore that still waits, and
\* no server goes on serving beside one: each marker is applied or given up by
\* the next boot (request.py, engine.py:32-45, main.py:275-283).  It is the
\* safety half of RestoreSettles.
THEOREM MarkerIsHandled == Spec => []MarkerHandled
<1>1. Init => MarkerHandled
  BY DEF Init, MarkerHandled
<1>2. IInv /\ MarkerHandled /\ [Next]_vars => MarkerHandled'
  <2> SUFFICES ASSUME IInv, MarkerHandled, [Next]_vars PROVE MarkerHandled'
    OBVIOUS
  <2>1. CASE Exit \/ Crash \/ BootFails \/ DecideRaises
    BY <2>1 DEF Exit, Crash, BootFails, DecideRaises, Dies, MarkerHandled
  <2>2. CASE \E r \in Requests : Serve(r)
    <3>1. program = "up" /\ UNCHANGED program
      BY <2>2 DEF IInv, BootInv, Serve, Written, Accept, Reject, Promote, Mark, Request
    <3>2. UNCHANGED <<marker, exiting>> \/ exiting'
      BY <2>2 DEF Serve, Written, Accept, Reject, Promote, Mark, Request
    <3>3. QED
      BY <3>1, <3>2 DEF MarkerHandled
  <2>3. CASE Boot /\ ~DecideRaises
    BY <2>3
       DEF MarkerHandled, Boot, Start, Decide, SafetyBackup, SwapIn, RemoveSidecars,
           Unstage, ClearMarker, Inspect, BackupBeforeMigration, Migrate,
           BootUnchanged, Files, Serving
  <2>4. CASE UNCHANGED <<marker, program, exiting>>
    BY <2>4 DEF MarkerHandled
  <2>5. QED
    BY <2>1, <2>2, <2>3, <2>4
       DEF Next, vars, ManualBackup, ScheduledBackup, Write, Tick, Delete, Stage,
           Files, Serving
<1>3. QED
  BY <1>1, <1>2, Inductive, PTL DEF Spec
=============================================================================

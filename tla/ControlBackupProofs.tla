------------------------ MODULE ControlBackupProofs ------------------------
(***************************************************************************)
(* The backup command implements BackupPromise, for every number of        *)
(* processes, builds, names, times, pages and every -keep.                 *)
(***************************************************************************)
EXTENDS ControlBackup, TLAPS

DBs == [schema : Seq(STRING), rows : Nat]
Files == [from : SUBSET DBs, pages : Nat, intact : BOOLEAN]
Dirs == [file : Files, mtime : Nat, passed : BOOLEAN]
Procedures == [pc : {"idle", "apply", "serve"}, build : Seq(STRING), done : Nat]
Runs == [pc : PCs, build : Seq(STRING), name : Names \union {None},
         digest : Files, doomed : SUBSET Names]

(* The types the steps need. *)
Typed ==
    /\ db \in DBs /\ proc \in [Procs -> Procedures]
    /\ DOMAIN dirs \subseteq Names /\ dirs \in [DOMAIN dirs -> Dirs]
    /\ run \in Runs

(* The run and its history. *)
RunKnown ==
    /\ run.pc = "idle" <=> since = {}
    /\ since # {} => db \in since
    /\ run.pc \notin {"idle", "reserve"} => run.name \in DOMAIN dirs
    /\ run.pc = "reserve" => run.name = None

Unpassed == run.pc \in {"copy", "hash", "stable", "restore", "check", "rehash"}
               => ~dirs[run.name].passed

(* What the file of the run holds while it is made. *)
CopyIsOne ==
    run.pc = "copy" =>
        /\ File.intact
        /\ \E s \in since : File.from \subseteq {s}

HashedIsWhole ==
    /\ run.pc = "hash" => \E s \in since : Whole(File, s)
    /\ run.pc \in {"stable", "restore", "check", "rehash"} =>
         \E s \in since : Whole(run.digest, s)

(* What passed is there until the answer. *)
PassedStays == Taken => latest = run.name /\ run.name \in Kept

IInv == Typed /\ RunKnown /\ Unpassed /\ CopyIsOne /\ HashedIsWhole /\ PassedStays

-----------------------------------------------------------------------------
LEMMA EmptyTyped == Empty \in Files /\ NoRun \in Runs /\ Idle \in Procedures
<1>1. Empty \in Files
  BY DEF Empty, Files
<1>2. NoRun \in Runs
  BY <1>1 DEF NoRun, Runs, NoBuild, PCs
<1>3. Idle \in Procedures
  BY DEF Idle, Procedures, NoBuild
<1>. QED
  BY <1>1, <1>2, <1>3

LEMMA InitInv == BackupInit => IInv
<1>. SUFFICES ASSUME BackupInit PROVE IInv
  OBVIOUS
<1>1. db \in DBs /\ proc \in [Procs -> Procedures] /\ run \in Runs
  BY EmptyTyped DEF BackupInit, StateInit, DBs
<1>2. DOMAIN dirs = {} /\ dirs \in [DOMAIN dirs -> Dirs]
  BY DEF BackupInit
<1>3. run.pc = "idle" /\ since = {}
  BY DEF BackupInit, NoRun
<1>. QED
  BY <1>1, <1>2, <1>3 DEF IInv, Typed, RunKnown, Unpassed, CopyIsOne, HashedIsWhole, PassedStays, Taken

\* The database and the processes keep their types.
LEMMA StateTyped ==
  ASSUME db \in DBs, proc \in [Procs -> Procedures], StateNext
  PROVE  db' \in DBs /\ proc' \in [Procs -> Procedures]
<1>1. PICK p \in Procs :
        \/ \E b \in Builds : Migrate(p, b)
        \/ applyMigration(p) \/ Migrated(p) \/ Write(p) \/ Stop(p)
  BY DEF StateNext
<1>0. Idle \in Procedures
  BY EmptyTyped
<1>2. CASE \E b \in Builds : Migrate(p, b)
  BY <1>2, StateAssumption DEF Migrate, Procedures, DBs
<1>3. CASE applyMigration(p)
  <2>1. CASE proc[p].done + 1 <= Len(db.schema)
    BY <1>0, <1>3, <2>1 DEF applyMigration
  <2>2. CASE ~(proc[p].done + 1 <= Len(db.schema))
    <3>1. proc[p].done + 1 \in 1..Len(proc[p].build)
      BY <1>3 DEF applyMigration, Procedures
    <3>2. proc[p].build[proc[p].done + 1] \in STRING
      BY <3>1 DEF Procedures
    <3>3. Append(db.schema, proc[p].build[proc[p].done + 1]) \in Seq(STRING)
      BY <3>2 DEF DBs
    <3>4. db' = [db EXCEPT !.schema = Append(db.schema, proc[p].build[proc[p].done + 1])]
      BY <1>3, <2>2 DEF applyMigration
    <3>5. db' \in DBs
      BY <3>3, <3>4 DEF DBs
    <3>6. proc' = [proc EXCEPT ![p].done = proc[p].done + 1]
      BY <1>3, <2>2 DEF applyMigration
    <3>7. [proc[p] EXCEPT !.done = proc[p].done + 1] \in Procedures
      <4>1. proc[p] \in Procedures
        OBVIOUS
      <4>. QED
        BY <4>1 DEF Procedures
    <3>8. proc' \in [Procs -> Procedures]
      BY <3>6, <3>7
    <3>. QED
      BY <3>5, <3>8
  <2>. QED
    BY <2>1, <2>2
<1>4. CASE Migrated(p)
  BY <1>4 DEF Migrated, Procedures
<1>5. CASE Write(p)
  BY <1>5 DEF Write, DBs
<1>6. CASE Stop(p)
  BY <1>0, <1>6 DEF Stop
<1>. QED
  BY <1>1, <1>2, <1>3, <1>4, <1>5, <1>6

\* A step of the other processes: the directories and the run are left alone and the
\* history grows.
LEMMA OthersInv == IInv /\ Others => IInv'
<1>. SUFFICES ASSUME IInv, Others PROVE IInv'
  OBVIOUS
<1>1. db' \in DBs /\ proc' \in [Procs -> Procedures]
  BY StateTyped DEF IInv, Typed, Others
<1>2. since \subseteq since' /\ (since' # {} => db' \in since') /\ (since = {} <=> since' = {})
  BY DEF Others
<1>3. UNCHANGED <<dirs, run, latest>>
  BY DEF Others
<1>4. Typed'
  BY <1>1, <1>3 DEF IInv, Typed
<1>5. RunKnown' /\ Unpassed'
  BY <1>2, <1>3 DEF IInv, RunKnown, Unpassed
<1>6. CopyIsOne' /\ HashedIsWhole'
  BY <1>2, <1>3 DEF IInv, CopyIsOne, HashedIsWhole, File, Whole
<1>7. PassedStays'
  BY <1>3 DEF IInv, PassedStays, Taken, Kept
<1>. QED
  BY <1>4, <1>5, <1>6, <1>7 DEF IInv

\* The run ends: nothing is claimed of a command that does not run.
LEMMA EndsInv ==
  ASSUME IInv, Ends, UNCHANGED <<db, proc>>,
         DOMAIN dirs' \subseteq Names, dirs' \in [DOMAIN dirs' -> Dirs]
  PROVE  IInv'
<1>1. run'.pc = "idle" /\ since' = {} /\ run' \in Runs
  BY EmptyTyped DEF Ends, NoRun
<1>. QED
  BY <1>1 DEF IInv, Typed, RunKnown, Unpassed, CopyIsOne, HashedIsWhole, PassedStays, Taken

LEMMA BeginInv ==
  ASSUME IInv, NEW b \in Builds, runBackup(b) PROVE IInv'
<1>1. run'.pc = "reserve" /\ run'.name = None /\ run' \in Runs
  BY EmptyTyped, StateAssumption DEF runBackup, NoRun, Runs, PCs
<1>2. since' = {db'} /\ UNCHANGED <<db, proc, dirs>>
  BY DEF runBackup
<1>. QED
  BY <1>1, <1>2 DEF IInv, Typed, RunKnown, Unpassed, CopyIsOne, HashedIsWhole, PassedStays, Taken

LEMMA ReserveInv ==
  ASSUME IInv, NEW n \in Names \ DOMAIN dirs, NEW t \in Times, reserveTarget(n, t) PROVE IInv'
<1>1. run' = [run EXCEPT !.pc = "copy", !.name = n] /\ run.pc = "reserve"
  BY DEF reserveTarget
<1>2. run' \in Runs /\ run'.pc = "copy" /\ run'.name = n
  BY <1>1 DEF IInv, Typed, Runs, PCs
<1>3. DOMAIN dirs' = DOMAIN dirs \union {n} /\ dirs'[n] = [file |-> Empty, mtime |-> t, passed |-> FALSE]
  BY DEF reserveTarget
<1>4. [file |-> Empty, mtime |-> t, passed |-> FALSE] \in Dirs
  BY EmptyTyped, BackupAssumption DEF Dirs
<1>5. dirs' \in [DOMAIN dirs' -> Dirs]
  BY <1>4 DEF reserveTarget, IInv, Typed
<1>6. UNCHANGED <<db, proc, since, latest>>
  BY DEF reserveTarget
<1>7. Typed'
  BY <1>2, <1>3, <1>5, <1>6 DEF IInv, Typed
<1>8. since # {} /\ RunKnown' /\ Unpassed'
  BY <1>1, <1>2, <1>3, <1>6 DEF IInv, RunKnown, Unpassed
<1>9. CopyIsOne'
  <2>1. PICK s \in since : TRUE
    BY <1>8
  <2>2. File' = Empty
    BY <1>2, <1>3 DEF File
  <2>. QED
    BY <1>6, <2>1, <2>2 DEF CopyIsOne, Empty
<1>. QED
  BY <1>2, <1>7, <1>8, <1>9 DEF IInv, HashedIsWhole, PassedStays, Taken

\* A step of the copy: all its pages are of the database as it is now.
LEMMA CopyInv == IInv /\ runSQLiteBackup => IInv'
<1>. SUFFICES ASSUME IInv, runSQLiteBackup PROVE IInv'
  OBVIOUS
<1>. DEFINE f == Step(File)
<1>1. run.pc = "copy" /\ run.name \in DOMAIN dirs /\ db \in since /\ File \in Files /\ File.intact
  BY DEF runSQLiteBackup, IInv, RunKnown, Typed, File, Dirs, CopyIsOne
<1>2. f \in Files /\ f.from = {db} /\ f.intact
  <2>1. db \in DBs
    BY DEF IInv, Typed
  <2>2. CASE File.from \subseteq {db}
    <3>1. f = [File EXCEPT !.from = {db}, !.pages = File.pages + 1]
      BY <2>2 DEF Step
    <3>2. f = [from |-> {db}, pages |-> File.pages + 1, intact |-> File.intact]
      BY <1>1, <3>1 DEF Files
    <3>. QED
      BY <1>1, <2>1, <3>2 DEF Files
  <2>3. CASE ~(File.from \subseteq {db})
    <3>1. f = [File EXCEPT !.from = {db}, !.pages = 1]
      BY <2>3 DEF Step
    <3>2. f = [from |-> {db}, pages |-> 1, intact |-> File.intact]
      BY <1>1, <3>1 DEF Files
    <3>. QED
      BY <1>1, <2>1, <3>2 DEF Files
  <2>. QED
    BY <2>2, <2>3
<1>3. dirs' = [dirs EXCEPT ![run.name].file = f]
  BY DEF runSQLiteBackup, File
<1>4. dirs' \in [DOMAIN dirs -> Dirs] /\ DOMAIN dirs' = DOMAIN dirs /\ dirs'[run.name].file = f
      /\ dirs'[run.name].passed = dirs[run.name].passed
  BY <1>1, <1>2, <1>3 DEF IInv, Typed, Dirs
<1>5. run' = [run EXCEPT !.pc = IF f.pages = Pages THEN "hash" ELSE "copy"]
  BY DEF runSQLiteBackup
<1>6. run' \in Runs /\ run'.pc = (IF f.pages = Pages THEN "hash" ELSE "copy") /\ run'.name = run.name
  BY <1>5 DEF IInv, Typed, Runs, PCs
<1>7. UNCHANGED <<db, proc, since, latest>> /\ File' = f
  BY <1>4, <1>6 DEF runSQLiteBackup, File
<1>8. Typed'
  BY <1>4, <1>6, <1>7 DEF IInv, Typed
<1>9. RunKnown' /\ Unpassed'
  BY <1>1, <1>4, <1>6, <1>7 DEF IInv, RunKnown, Unpassed
<1>10. CopyIsOne' /\ HashedIsWhole'
  BY <1>1, <1>2, <1>6, <1>7 DEF CopyIsOne, HashedIsWhole, Whole
<1>. QED
  BY <1>6, <1>8, <1>9, <1>10 DEF IInv, PassedStays, Taken

\* Steps that change only where the run is and what it remembers.
LEMMA RunStepInv ==
  ASSUME IInv, UNCHANGED <<db, proc, dirs, since, latest>>,
         run' \in Runs, run'.name = run.name, run.pc \notin {"idle", "reserve"},
         \/ HashBefore \/ HashAfter \/ prepareSQLiteRestoreSource
         \/ verifySQLiteRestoreMigrations \/ ListSnapshots
  PROVE  IInv'
<1>. USE DEF IInv
<1>1. Typed'
  BY DEF Typed
<1>2. File' = File /\ Kept' = Kept
  BY DEF File, Kept
<1>3. CASE HashBefore
  <2>1. run.pc = "hash" /\ run'.pc = "stable" /\ run'.digest = File
    BY <1>3 DEF HashBefore, Typed, Runs, PCs
  <2>. QED
    BY <1>1, <1>2, <2>1 DEF RunKnown, Unpassed, CopyIsOne, HashedIsWhole, PassedStays, Taken, Whole
<1>4. CASE HashAfter \/ prepareSQLiteRestoreSource \/ verifySQLiteRestoreMigrations
  <2>1. /\ run.pc \in {"stable", "restore", "check"} /\ run'.pc \in {"restore", "check", "rehash"}
        /\ run'.digest = run.digest
    BY <1>4 DEF HashAfter, prepareSQLiteRestoreSource, verifySQLiteRestoreMigrations, Typed, Runs, PCs
  <2>. QED
    BY <1>1, <1>2, <2>1 DEF RunKnown, Unpassed, CopyIsOne, HashedIsWhole, PassedStays, Taken, Whole
<1>5. CASE ListSnapshots
  <2>1. run.pc = "list" /\ run'.pc = "prune"
    BY <1>5 DEF ListSnapshots, Typed, Runs, PCs
  <2>. QED
    BY <1>1, <1>2, <2>1 DEF RunKnown, Unpassed, CopyIsOne, HashedIsWhole, PassedStays, Taken
<1>. QED
  BY <1>3, <1>4, <1>5

\* The types of the run after these steps.
LEMMA RunStepTyped ==
  ASSUME IInv,
         \/ HashBefore \/ HashAfter \/ prepareSQLiteRestoreSource
         \/ verifySQLiteRestoreMigrations \/ ListSnapshots
  PROVE  /\ UNCHANGED <<db, proc, dirs, since, latest, answered>>
         /\ run' \in Runs /\ run'.name = run.name /\ run.pc \notin {"idle", "reserve"}
<1>. USE DEF IInv
<1>1. CASE HashBefore
  <2>1. File \in Files
    BY <1>1 DEF HashBefore, File, Typed, RunKnown, Dirs
  <2>. QED
    BY <1>1, <2>1 DEF HashBefore, Typed, Runs, PCs
<1>2. CASE HashAfter
  BY <1>2 DEF HashAfter, Typed, Runs, PCs
<1>3. CASE prepareSQLiteRestoreSource
  BY <1>3 DEF prepareSQLiteRestoreSource, Typed, Runs, PCs
<1>4. CASE verifySQLiteRestoreMigrations
  BY <1>4 DEF verifySQLiteRestoreMigrations, Typed, Runs, PCs
<1>5. CASE ListSnapshots
  <2>1. Doomed \subseteq Names
    BY DEF Doomed, Typed
  <2>. QED
    BY <1>5, <2>1 DEF ListSnapshots, Typed, Runs, PCs
<1>. QED
  BY <1>1, <1>2, <1>3, <1>4, <1>5

\* The run's own file passes: it is the one that was hashed, and it is whole.
LEMMA VerifiedInv ==
  ASSUME IInv, RestoreVerified
  PROVE  /\ IInv' /\ run.name \notin Kept
         /\ \E s \in since : Whole(File, s)
         /\ dirs' = [dirs EXCEPT ![run.name].passed = TRUE] /\ run.name \in DOMAIN dirs
         /\ Kept' = Kept \union {run.name}
<1>1. run.pc = "rehash" /\ run.name \in DOMAIN dirs /\ ~dirs[run.name].passed /\ File = run.digest
  BY DEF RestoreVerified, IInv, RunKnown, Unpassed
<1>2. PICK s \in since : Whole(File, s)
  BY <1>1 DEF IInv, HashedIsWhole
<1>3. File # Empty
  BY <1>2 DEF Whole, Empty
<1>4. dirs' = [dirs EXCEPT ![run.name].passed = TRUE]
  BY DEF RestoreVerified
<1>5. /\ dirs' \in [DOMAIN dirs -> Dirs] /\ DOMAIN dirs' = DOMAIN dirs
      /\ dirs'[run.name].file = File /\ dirs'[run.name].passed
      /\ \A n \in DOMAIN dirs : n # run.name => dirs'[n] = dirs[n]
  BY <1>1, <1>4 DEF IInv, Typed, Dirs, File
<1>6. Kept' = Kept \union {run.name}
  BY <1>1, <1>3, <1>5 DEF Kept
<1>7. run' = [run EXCEPT !.pc = "list"] /\ UNCHANGED <<db, proc, since>> /\ latest' = run.name
  BY DEF RestoreVerified
<1>8. run' \in Runs /\ run'.pc = "list" /\ run'.name = run.name
  BY <1>7 DEF IInv, Typed, Runs, PCs
<1>9. IInv'
  BY <1>1, <1>5, <1>6, <1>7, <1>8 DEF IInv, Typed, RunKnown, Unpassed, CopyIsOne, HashedIsWhole, PassedStays, Taken
<1>. QED
  BY <1>1, <1>2, <1>4, <1>6, <1>9 DEF Kept

\* The backups are those they were when the directories that count are.
LEMMA SameVault ==
  ASSUME Kept' = Kept, \A n \in Kept : dirs'[n].file = dirs[n].file PROVE Vault' = Vault
  BY DEF Vault, Holds, Whole, Torn

\* A file that has not passed changes, or its directory goes.
LEMMA UnpassedVault ==
  ASSUME IInv, NEW n, n \in DOMAIN dirs => ~dirs[n].passed,
         \/ dirs' = dirs
         \/ dirs' = [m \in DOMAIN dirs \ {n} |-> dirs[m]]
         \/ /\ dirs' \in [DOMAIN dirs -> Dirs] /\ ~dirs'[n].passed
            /\ \A m \in DOMAIN dirs \ {n} : dirs'[m] = dirs[m]
  PROVE  Vault' = Vault
<1>1. Kept' = Kept /\ \A m \in Kept : dirs'[m].file = dirs[m].file
  BY DEF Kept
<1>. QED
  BY <1>1, SameVault

LEMMA DamageInv ==
  ASSUME IInv, Damage PROVE IInv' /\ Vault' = Vault
<1>1. /\ run.pc \in {"stable", "restore", "check", "rehash"} /\ run.name \in DOMAIN dirs
      /\ ~dirs[run.name].passed
  BY DEF Damage, IInv, RunKnown, Unpassed
<1>2. dirs' = [dirs EXCEPT ![run.name].file.intact = FALSE] /\ UNCHANGED <<db, proc, run, since, latest>>
  BY DEF Damage
<1>3. [dirs[run.name].file EXCEPT !.intact = FALSE] \in Files
  BY <1>1 DEF IInv, Typed, Dirs, Files
<1>4. /\ dirs' \in [DOMAIN dirs -> Dirs] /\ DOMAIN dirs' = DOMAIN dirs
      /\ dirs'[run.name].passed = dirs[run.name].passed
      /\ \A m \in DOMAIN dirs \ {run.name} : dirs'[m] = dirs[m]
  BY <1>1, <1>2, <1>3 DEF IInv, Typed, Dirs
<1>5. IInv'
  BY <1>1, <1>2, <1>4 DEF IInv, Typed, RunKnown, Unpassed, CopyIsOne, HashedIsWhole, Whole, PassedStays, Taken
<1>. QED
  BY <1>1, <1>4, <1>5, UnpassedVault

\* Retention takes a directory other than the run's, or leaves its own.
LEMMA RemoveInv ==
  ASSUME IInv, NEW n \in Names, RemoveSnapshot(n) \/ RemoveStops(n)
  PROVE  /\ IInv' /\ UNCHANGED <<db, since, latest, answered>> /\ Taken /\ Taken'
         /\ \/ Vault' = Vault
            \/ /\ n \in DOMAIN Vault \ {latest}
               /\ Vault' = [m \in DOMAIN Vault \ {n} |-> Vault[m]]
<1>. USE DEF IInv
<1>1. /\ run.pc = "prune" /\ latest = run.name /\ run.name \in Kept /\ run.name \in DOMAIN dirs
      /\ UNCHANGED <<db, proc, since, latest, answered>> /\ since # {}
  BY DEF RemoveSnapshot, RemoveStops, PassedStays, Taken, RunKnown, Kept
<1>2. run' \in Runs /\ run'.pc \in {"prune", "fail"} /\ run'.name = run.name
  BY <1>1 DEF RemoveSnapshot, RemoveStops, Typed, Runs, PCs
<1>3. \/ dirs' = dirs
      \/ n # run.name /\ dirs' = [m \in DOMAIN dirs \ {n} |-> dirs[m]]
      \/ n # run.name /\ dirs' = [dirs EXCEPT ![n].file = Empty]
  BY DEF RemoveSnapshot, RemoveStops, Protected
<1>4. /\ DOMAIN dirs' \subseteq DOMAIN dirs /\ dirs' \in [DOMAIN dirs' -> Dirs]
      /\ run.name \in DOMAIN dirs' /\ dirs'[run.name] = dirs[run.name]
  BY <1>1, <1>3, EmptyTyped DEF Typed, Dirs
<1>5. IInv'
  BY <1>1, <1>2, <1>4 DEF Typed, RunKnown, Unpassed, CopyIsOne, HashedIsWhole, PassedStays, Taken, Kept
<1>6. CASE dirs' = dirs
  <2>1. Kept' = Kept
    BY <1>6 DEF Kept
  <2>. QED
    BY <1>1, <1>2, <1>5, <1>6, <2>1, SameVault DEF Taken
<1>7. CASE n # run.name /\ dirs' # dirs
  <2>1. Kept' = Kept \ {n} /\ \A m \in Kept \ {n} : dirs'[m].file = dirs[m].file
    BY <1>3, <1>7 DEF Kept, Typed, Dirs
  <2>2. CASE n \in Kept
    <3>1. Vault' = [m \in Kept \ {n} |-> Holds(dirs[m].file)]
      BY <2>1 DEF Vault, Holds, Whole, Torn
    <3>2. Vault' = [m \in DOMAIN Vault \ {n} |-> Vault[m]]
      BY <3>1 DEF Vault
    <3>. QED
      BY <1>1, <1>2, <1>5, <1>7, <2>2, <3>2 DEF Vault, Taken
  <2>3. CASE n \notin Kept
    BY <1>1, <1>2, <1>5, <2>1, <2>3, SameVault DEF Taken
  <2>. QED
    BY <2>2, <2>3
<1>. QED
  BY <1>3, <1>6, <1>7

-----------------------------------------------------------------------------
(* Every step, at once: the invariant, and the step of BackupPromise it is. *)

Abstract == [Promise!PromiseNext]_<<db, since, Vault, latest, Taken, answered>>

LEMMA SameTaken == ASSUME Taken' <=> Taken PROVE Taken' = Taken
  BY DEF Taken

LEMMA OthersStep == IInv /\ Others => IInv' /\ Abstract
<1>. SUFFICES ASSUME IInv, Others PROVE IInv' /\ Abstract
  OBVIOUS
<1>1. UNCHANGED <<dirs, run, latest, answered>>
  BY DEF Others
<1>2. Vault' = Vault /\ Taken' = Taken
  <2>1. Kept' = Kept
    BY <1>1 DEF Kept
  <2>. QED
    BY <1>1, <2>1, SameVault DEF Taken
<1>3. CASE db' = db
  BY <1>1, <1>2, <1>3, OthersInv DEF Others, Abstract, IInv, RunKnown
<1>4. CASE db' # db
  BY <1>1, <1>2, <1>4, OthersInv DEF Others, Abstract, Promise!PromiseNext, Promise!Commit
<1>. QED
  BY <1>3, <1>4

LEMMA CaptureStep ==
  ASSUME IInv,
         \/ \E b \in Builds : runBackup(b)
         \/ \E n \in Names \ DOMAIN dirs, t \in Times : reserveTarget(n, t)
         \/ runSQLiteBackup \/ CaptureFails \/ VerifyFails \/ Damage \/ BackupDies \/ BackupOK
         \/ HashBefore \/ HashAfter \/ prepareSQLiteRestoreSource
         \/ verifySQLiteRestoreMigrations \/ ListSnapshots
  PROVE  IInv' /\ Abstract
<1>1. CASE \E b \in Builds : runBackup(b)
  <2>1. PICK b \in Builds : runBackup(b)
    BY <1>1
  <2>2. UNCHANGED <<db, dirs, latest, answered>> /\ since = {} /\ since' = {db} /\ ~Taken /\ ~Taken'
    BY <2>1 DEF runBackup, NoRun, IInv, RunKnown, Taken
  <2>4. Taken' = Taken
    BY <2>2, SameTaken
  <2>3. Vault' = Vault
    <3>1. Kept' = Kept
      BY <2>2 DEF Kept
    <3>. QED
      BY <2>2, <3>1, SameVault
  <2>. QED
    BY <2>1, <2>2, <2>3, <2>4, BeginInv DEF Abstract, Promise!PromiseNext, Promise!Begin
<1>2. CASE \E n \in Names \ DOMAIN dirs, t \in Times : reserveTarget(n, t)
  <2>1. PICK n \in Names \ DOMAIN dirs, t \in Times : reserveTarget(n, t)
    BY <1>2
  <2>2. UNCHANGED <<db, since, latest, answered>> /\ ~Taken /\ ~Taken'
    BY <2>1 DEF reserveTarget, Taken, IInv, Typed, Runs
  <2>4. Taken' = Taken
    BY <2>2, SameTaken
  <2>3. Vault' = Vault
    <3>1. Kept' = Kept /\ \A m \in Kept : dirs'[m].file = dirs[m].file
      BY <2>1 DEF reserveTarget, Kept
    <3>. QED
      BY <3>1, SameVault
  <2>. QED
    BY <2>1, <2>2, <2>3, <2>4, ReserveInv DEF Abstract
<1>3. CASE runSQLiteBackup
  <2>1. UNCHANGED <<db, since, latest, answered>> /\ ~Taken /\ ~Taken'
    BY <1>3 DEF runSQLiteBackup, Taken, IInv, Typed, Runs
  <2>3. Taken' = Taken
    BY <2>1, SameTaken
  <2>2. Vault' = Vault
    <3>1. run.pc = "copy" /\ run.name \in DOMAIN dirs /\ ~dirs[run.name].passed
      BY <1>3 DEF runSQLiteBackup, IInv, RunKnown, Unpassed
    <3>2. dirs' \in [DOMAIN dirs' -> Dirs] /\ DOMAIN dirs' = DOMAIN dirs
      BY <1>3, CopyInv DEF runSQLiteBackup, IInv, Typed
    <3>3. ~dirs'[run.name].passed /\ \A m \in DOMAIN dirs \ {run.name} : dirs'[m] = dirs[m]
      BY <1>3, <3>1 DEF runSQLiteBackup, IInv, Typed, Dirs
    <3>. QED
      BY <3>1, <3>2, <3>3, UnpassedVault
  <2>. QED
    BY <1>3, <2>1, <2>2, <2>3, CopyInv DEF Abstract
<1>4. CASE CaptureFails \/ VerifyFails \/ BackupDies
  <2>1. /\ UNCHANGED <<db, proc, latest, answered>> /\ Ends /\ since # {}
        /\ \/ dirs' = dirs
           \/ /\ run.pc \in {"reserve", "copy", "hash", "stable"}
              /\ dirs' = [m \in DOMAIN dirs \ {run.name} |-> dirs[m]]
    BY <1>4 DEF CaptureFails, VerifyFails, BackupDies, IInv, RunKnown
  <2>2. DOMAIN dirs' \subseteq Names /\ dirs' \in [DOMAIN dirs' -> Dirs]
    BY <2>1 DEF IInv, Typed
  <2>3. Vault' = Vault
    <3>1. CASE dirs' = dirs
      <4>1. Kept' = Kept
        BY <3>1 DEF Kept
      <4>. QED
        BY <3>1, <4>1, SameVault
    <3>2. CASE dirs' # dirs
      <4>1. run.name \in DOMAIN dirs => ~dirs[run.name].passed
        BY <2>1, <3>2, BackupAssumption DEF IInv, RunKnown, Unpassed, Typed
      <4>. QED
        BY <2>1, <4>1, UnpassedVault
    <3>. QED
      BY <3>1, <3>2
  <2>4. ~Taken' /\ since' = {}
    BY <2>1 DEF Ends, NoRun, Taken
  <2>. QED
    BY <2>1, <2>2, <2>3, <2>4, EndsInv DEF Abstract, Promise!PromiseNext, Promise!Abort
<1>5. CASE Damage
  BY <1>5, DamageInv DEF Damage, Abstract, Taken
<1>6. CASE BackupOK
  <2>1. /\ UNCHANGED <<db, proc, dirs, latest>> /\ Ends /\ answered' = latest
        /\ Taken /\ latest \in DOMAIN Vault
    BY <1>6 DEF BackupOK, IInv, PassedStays, Taken, Vault
  <2>2. Vault' = Vault
    <3>1. Kept' = Kept
      BY <2>1 DEF Kept
    <3>. QED
      BY <2>1, <3>1, SameVault
  <2>3. ~Taken' /\ since' = {}
    BY <2>1 DEF Ends, NoRun, Taken
  <2>4. IInv'
    BY <2>1, EndsInv DEF IInv, Typed
  <2>. QED
    BY <2>1, <2>2, <2>3, <2>4 DEF Abstract, Promise!PromiseNext, Promise!AnswerOK
<1>7. CASE \/ HashBefore \/ HashAfter \/ prepareSQLiteRestoreSource
           \/ verifySQLiteRestoreMigrations \/ ListSnapshots
  <2>1. IInv'
    BY <1>7, RunStepTyped, RunStepInv
  <2>2. UNCHANGED <<db, dirs, since, latest, answered>>
    BY <1>7, RunStepTyped
  <2>5. Taken' <=> Taken
    BY <1>7 DEF HashBefore, HashAfter, prepareSQLiteRestoreSource, verifySQLiteRestoreMigrations,
       ListSnapshots, Taken, IInv, Typed, Runs
  <2>3. Taken' = Taken
    BY <2>5, SameTaken
  <2>4. Vault' = Vault
    <3>1. Kept' = Kept
      BY <2>2 DEF Kept
    <3>. QED
      BY <2>2, <3>1, SameVault
  <2>. QED
    BY <2>1, <2>2, <2>3, <2>4 DEF Abstract
<1>. QED
  BY <1>1, <1>2, <1>3, <1>4, <1>5, <1>6, <1>7

\* The linearisation: the backup counts from the moment its verification ends, and
\* holds the state the database was in at the last step of the copy.
LEMMA TakeStep == IInv /\ RestoreVerified => IInv' /\ Abstract
<1>. SUFFICES ASSUME IInv, RestoreVerified PROVE IInv' /\ Abstract
  OBVIOUS
<1>. DEFINE n == run.name
<1>1. PICK s \in since : Whole(File, s)
  BY VerifiedInv
<1>2. Holds(File) = s
  BY <1>1 DEF Holds, Whole
<1>3. /\ IInv' /\ n \notin Kept /\ n \in Names /\ Kept' = Kept \union {n}
      /\ dirs' = [dirs EXCEPT ![n].passed = TRUE] /\ n \in DOMAIN dirs
  BY VerifiedInv DEF IInv, Typed
<1>4. \A m \in DOMAIN dirs : dirs'[m].file = dirs[m].file
  BY <1>3 DEF IInv, Typed, Dirs
<1>5. Vault' = [m \in Kept \union {n} |-> Holds(dirs[m].file)]
  <2>1. Kept' \subseteq DOMAIN dirs
    BY <1>3 DEF Kept
  <2>. QED
    BY <1>3, <1>4, <2>1 DEF Vault, Holds, Whole, Torn
<1>6. Vault' = [m \in DOMAIN Vault \union {n} |-> IF m = n THEN s ELSE Vault[m]]
  BY <1>2, <1>3, <1>5 DEF Vault, File
<1>7. /\ UNCHANGED <<db, since, answered>> /\ latest' = n /\ ~Taken /\ Taken'
  BY DEF RestoreVerified, Taken, IInv, Typed, Runs
<1>8. n \in Names \ DOMAIN Vault
  BY <1>3 DEF Vault
<1>9. Promise!Take
  BY <1>1, <1>6, <1>7, <1>8 DEF Promise!Take
<1>. QED
  BY <1>3, <1>9 DEF Abstract, Promise!PromiseNext

LEMMA PruneStep ==
  ASSUME IInv, NEW n \in Names, RemoveSnapshot(n) \/ RemoveStops(n)
  PROVE  IInv' /\ Abstract
<1>1. /\ IInv' /\ UNCHANGED <<db, since, latest, answered>> /\ Taken /\ Taken'
      /\ \/ Vault' = Vault
         \/ /\ n \in DOMAIN Vault \ {latest}
            /\ Vault' = [m \in DOMAIN Vault \ {n} |-> Vault[m]]
  BY RemoveInv
<1>2. Taken' = Taken
  BY <1>1, SameTaken
<1>. QED
  BY <1>1, <1>2 DEF Abstract, Promise!PromiseNext, Promise!Prune

LEMMA EveryStep == IInv /\ [BackupNext]_cvars => IInv' /\ Abstract
<1>. SUFFICES ASSUME IInv, [BackupNext]_cvars PROVE IInv' /\ Abstract
  OBVIOUS
<1>1. CASE UNCHANGED cvars
  <2>1. UNCHANGED <<db, proc, dirs, run, since, latest, answered>>
    BY <1>1 DEF cvars
  <2>2. Kept' = Kept /\ Taken' = Taken /\ File' = File
    BY <2>1 DEF Kept, Taken, File
  <2>3. Vault' = Vault
    BY <2>1, <2>2, SameVault
  <2>4. IInv'
    BY <2>1, <2>2 DEF IInv, Typed, RunKnown, Unpassed, CopyIsOne, HashedIsWhole, PassedStays, Whole
  <2>. QED
    BY <2>1, <2>2, <2>3, <2>4 DEF Abstract
<1>2. CASE BackupNext
  BY <1>2, OthersStep, CaptureStep, TakeStep, PruneStep DEF BackupNext
<1>. QED
  BY <1>1, <1>2

LEMMA InitStep == BackupInit => Promise!PromiseInit
<1>. SUFFICES ASSUME BackupInit PROVE Promise!PromiseInit
  OBVIOUS
<1>1. Kept = {} /\ ~Taken
  BY DEF BackupInit, Kept, Taken, NoRun
<1>2. Vault = [n \in {} |-> db]
  BY <1>1 DEF Vault
<1>. QED
  BY <1>1, <1>2 DEF BackupInit, Promise!PromiseInit

\* BackupKeepsPromise: `redgres backup`, with the servers and tools that write the
\* database meanwhile, implements BackupPromise (KeepsPromise).
THEOREM BackupKeepsPromise == BackupSpec => KeepsPromise
<1>1. BackupInit => IInv /\ Promise!PromiseInit
  BY InitInv, InitStep
<1>2. IInv /\ [BackupNext]_cvars => IInv' /\ [Promise!PromiseNext]_(Promise!pvars)
  BY EveryStep DEF Abstract, Promise!pvars
<1>. QED
  BY <1>1, <1>2, PTL DEF BackupSpec, KeepsPromise, Promise!PromiseSpec

-----------------------------------------------------------------------------
(* Migrations: what a process has gone through agrees with what is recorded. *)
Agrees(p) ==
    proc[p].pc = "apply" =>
        /\ proc[p].build \in Builds
        /\ proc[p].done <= Len(db.schema)
        /\ \A i \in 1..proc[p].done : db.schema[i] = proc[p].build[i]

LineageInv == OneLineage /\ \A p \in Procs : Agrees(p)

LEMMA LineageStep ==
  ASSUME db \in DBs, proc \in [Procs -> Procedures], LineageInv, StateNext
  PROVE  LineageInv'
<1>0. PICK p \in Procs :
        \/ \E b \in Builds : Migrate(p, b)
        \/ applyMigration(p) \/ Migrated(p) \/ Write(p) \/ Stop(p)
  BY DEF StateNext
<1>1. CASE \E b \in Builds : Migrate(p, b)
  <2>1. PICK b \in Builds : Migrate(p, b)
    BY <1>1
  <2>2. /\ db' = db /\ IsPrefixOf(db.schema, b)
        /\ proc' = [proc EXCEPT ![p] = [pc |-> "apply", build |-> b, done |-> Len(db.schema)]]
    BY <2>1 DEF Migrate, validateApplied
  <2>3. \A q \in Procs : Agrees(q)'
    BY <2>2 DEF Agrees, LineageInv, IsPrefixOf, DBs
  <2>. QED
    BY <2>2, <2>3 DEF LineageInv, OneLineage
<1>2. CASE applyMigration(p)
  <2>. DEFINE v == proc[p].done + 1
  <2>1. CASE v <= Len(db.schema)
    BY <1>2, <2>1 DEF applyMigration, LineageInv, OneLineage, Agrees, Idle
  <2>2. CASE ~(v <= Len(db.schema))
    <3>1. /\ proc[p].pc = "apply" /\ v \in 1..Len(proc[p].build)
          /\ proc' = [proc EXCEPT ![p].done = v]
          /\ db' = [db EXCEPT !.schema = Append(db.schema, proc[p].build[v])]
      BY <1>2, <2>2 DEF applyMigration, Procedures
    <3>2. proc[p].build \in Builds /\ proc[p].done = Len(db.schema) /\ proc[p].done \in Nat
          /\ \A i \in 1..proc[p].done : db.schema[i] = proc[p].build[i]
      BY <2>2, <3>1 DEF LineageInv, Agrees, Procedures, DBs
    <3>3. db'.schema = Append(db.schema, proc[p].build[v]) /\ db.schema \in Seq(STRING)
          /\ proc[p].build[v] \in STRING
      BY <3>1 DEF DBs, Procedures
    <3>4. /\ Len(db'.schema) = Len(db.schema) + 1
          /\ \A i \in 1..Len(db.schema) : db'.schema[i] = db.schema[i]
          /\ db'.schema[Len(db.schema) + 1] = proc[p].build[v]
      BY <3>3
    <3>5. IsPrefixOf(db'.schema, proc[p].build)
      BY <3>1, <3>2, <3>4 DEF IsPrefixOf
    <3>6. Agrees(p)'
      BY <3>1, <3>2, <3>4, <3>5 DEF Agrees, IsPrefixOf, Procedures
    <3>7. ASSUME NEW q \in Procs, q # p PROVE Agrees(q)'
      <4>1. proc'[q] = proc[q] /\ proc[q].done \in Nat
        BY <3>1, <3>7 DEF Procedures
      <4>. QED
        BY <3>2, <3>4, <4>1 DEF LineageInv, Agrees
    <3>. QED
      BY <3>2, <3>5, <3>6, <3>7 DEF LineageInv, OneLineage
  <2>. QED
    BY <2>1, <2>2
<1>3. CASE Migrated(p) \/ Stop(p)
  <2>1. db' = db /\ proc'[p].pc # "apply" /\ \A q \in Procs : q # p => proc'[q] = proc[q]
    BY <1>3 DEF Migrated, Stop, Idle, Procedures
  <2>. QED
    BY <2>1 DEF LineageInv, OneLineage, Agrees
<1>4. CASE Write(p)
  <2>1. db' = [db EXCEPT !.rows = db.rows + 1] /\ proc' = proc
    BY <1>4 DEF Write
  <2>2. db'.schema = db.schema
    BY <2>1 DEF DBs
  <2>. QED
    BY <2>1, <2>2 DEF LineageInv, OneLineage, Agrees
<1>. QED
  BY <1>0, <1>1, <1>2, <1>3, <1>4

\* SchemaHasOneLineage: however the migrations of any builds interleave and wherever
\* they stop, the recorded schema is the beginning of one build's (OneLineage).
THEOREM SchemaHasOneLineage == BackupSpec => []OneLineage
<1>1. BackupInit => LineageInv
  BY StateAssumption DEF BackupInit, StateInit, LineageInv, OneLineage, IsPrefixOf, Agrees, Idle
<1>2. IInv /\ LineageInv /\ [BackupNext]_cvars => LineageInv'
  <2>. SUFFICES ASSUME IInv, LineageInv, [BackupNext]_cvars PROVE LineageInv'
    OBVIOUS
  <2>1. CASE UNCHANGED <<db, proc>>
    BY <2>1 DEF LineageInv, OneLineage, Agrees
  <2>2. CASE StateNext
    BY <2>2, LineageStep DEF IInv, Typed
  <2>3. StateNext \/ UNCHANGED <<db, proc>>
    BY DEF BackupNext, Others, cvars, runBackup, reserveTarget, runSQLiteBackup, HashBefore,
       HashAfter, CaptureFails, prepareSQLiteRestoreSource, verifySQLiteRestoreMigrations,
       RestoreVerified, VerifyFails, Damage, ListSnapshots, RemoveSnapshot, RemoveStops,
       BackupOK, BackupDies
  <2>. QED
    BY <2>1, <2>2, <2>3
<1>3. IInv /\ [BackupNext]_cvars => IInv'
  BY EveryStep
<1>4. LineageInv => OneLineage
  BY DEF LineageInv
<1>. QED
  BY <1>1, <1>2, <1>3, <1>4, InitInv, PTL DEF BackupSpec

-----------------------------------------------------------------------------
(* Types and bounds. *)

\* What BackupTypeOK needs beyond IInv: a copy that goes on lacks a page.
Bounded ==
    /\ db.rows <= MaxWrites /\ latest \in Names \union {None}
    /\ run.doomed \subseteq DOMAIN dirs
    /\ \A n \in DOMAIN dirs : dirs[n].file.pages <= Pages /\ dirs[n].mtime \in Times
    /\ run.pc = "copy" => File.pages < Pages

\* A copy step stays within the pages of the database.
LEMMA CopyBounded == ASSUME IInv, Bounded, runSQLiteBackup PROVE Bounded'
<1>. DEFINE g == Step(File)
<1>1. /\ run.pc = "copy" /\ run.name \in DOMAIN dirs /\ File \in Files /\ File.pages < Pages
      /\ UNCHANGED <<db, latest>> /\ dirs' = [dirs EXCEPT ![run.name].file = g]
      /\ run' = [run EXCEPT !.pc = IF g.pages = Pages THEN "hash" ELSE "copy"]
  BY DEF runSQLiteBackup, IInv, RunKnown, Typed, Dirs, File, Bounded
<1>2. g.pages \in Nat /\ g.pages <= Pages
  BY <1>1, BackupAssumption DEF Step, Files
<1>. HIDE DEF g
<1>3. run'.doomed = run.doomed /\ run'.name = run.name
      /\ (run'.pc = "copy" => g.pages # Pages)
  BY <1>1 DEF IInv, Typed, Runs
<1>4. /\ DOMAIN dirs' = DOMAIN dirs /\ dirs'[run.name].file = g
      /\ \A n \in DOMAIN dirs : dirs'[n].mtime = dirs[n].mtime
      /\ \A n \in DOMAIN dirs : n # run.name => dirs'[n] = dirs[n]
  BY <1>1 DEF IInv, Typed, Dirs
<1>5. File'.pages = g.pages
  BY <1>3, <1>4 DEF File
<1>. QED
  BY <1>1, <1>2, <1>3, <1>4, <1>5, BackupAssumption DEF Bounded

\* Every step keeps the bounds.
LEMMA StepBounded == ASSUME IInv, Bounded, [BackupNext]_cvars PROVE Bounded'
<1>1. CASE UNCHANGED cvars
  BY <1>1 DEF cvars, Bounded, File
<1>2. CASE Others
  <2>1. UNCHANGED <<dirs, run, latest>> /\ StateNext
    BY <1>2 DEF Others
  <2>2. db'.rows <= MaxWrites
    <3>1. db.rows \in Nat /\ db.rows <= MaxWrites /\ db \in DBs
      BY DEF Bounded, IInv, Typed, DBs
    <3>2. PICK p \in Procs : \/ \E b \in Builds : Migrate(p, b)
                             \/ applyMigration(p) \/ Migrated(p) \/ Write(p) \/ Stop(p)
      BY <2>1 DEF StateNext
    <3>3. CASE Write(p)
      BY <3>1, <3>3, StateAssumption DEF Write, DBs
    <3>4. CASE applyMigration(p)
      BY <3>1, <3>4 DEF applyMigration, DBs
    <3>5. CASE (\E b \in Builds : Migrate(p, b)) \/ Migrated(p) \/ Stop(p)
      BY <3>1, <3>5 DEF Migrate, Migrated, Stop
    <3>. QED
      BY <3>2, <3>3, <3>4, <3>5
  <2>. QED
    BY <2>1, <2>2 DEF Bounded, File
<1>3. CASE \E b \in Builds : runBackup(b)
  BY <1>3 DEF runBackup, NoRun, Bounded
<1>4. ASSUME NEW n \in Names \ DOMAIN dirs, NEW t \in Times, reserveTarget(n, t) PROVE Bounded'
  <2>1. /\ UNCHANGED <<db, latest>> /\ DOMAIN dirs' = DOMAIN dirs \union {n}
        /\ dirs'[n] = [file |-> Empty, mtime |-> t, passed |-> FALSE]
        /\ \A m \in DOMAIN dirs : dirs'[m] = dirs[m]
        /\ run' = [run EXCEPT !.pc = "copy", !.name = n]
    BY <1>4 DEF reserveTarget
  <2>2. run'.doomed = run.doomed /\ run'.name = n
    BY <2>1 DEF IInv, Typed, Runs
  <2>3. dirs'[n].file.pages = 0 /\ File'.pages = 0
    BY <2>1, <2>2 DEF Empty, File
  <2>. QED
    BY <2>1, <2>2, <2>3, BackupAssumption DEF Bounded
<1>5. CASE runSQLiteBackup
  BY <1>5, CopyBounded
<1>6. CASE HashBefore \/ HashAfter \/ prepareSQLiteRestoreSource \/ verifySQLiteRestoreMigrations
  <2>1. UNCHANGED <<db, dirs, latest>> /\ run'.doomed = run.doomed /\ run'.pc # "copy"
    BY <1>6 DEF HashBefore, HashAfter, prepareSQLiteRestoreSource, verifySQLiteRestoreMigrations,
       IInv, Typed, Runs
  <2>. QED
    BY <2>1 DEF Bounded
<1>7. CASE CaptureFails \/ VerifyFails \/ BackupDies \/ BackupOK
  BY <1>7 DEF CaptureFails, VerifyFails, BackupDies, BackupOK, Ends, NoRun, Bounded
<1>8. CASE RestoreVerified
  <2>1. /\ UNCHANGED db /\ DOMAIN dirs' = DOMAIN dirs /\ latest' \in Names \union {None}
        /\ \A n \in DOMAIN dirs : dirs'[n].file = dirs[n].file /\ dirs'[n].mtime = dirs[n].mtime
        /\ run'.doomed = run.doomed /\ run'.pc # "copy"
    BY <1>8 DEF RestoreVerified, IInv, Typed, Runs, Dirs
  <2>. QED
    BY <2>1 DEF Bounded
<1>9. CASE Damage
  <2>1. /\ UNCHANGED <<db, run, latest>> /\ DOMAIN dirs' = DOMAIN dirs /\ run.pc # "copy"
        /\ \A n \in DOMAIN dirs : /\ dirs'[n].file.pages = dirs[n].file.pages
                                  /\ dirs'[n].mtime = dirs[n].mtime
    BY <1>9 DEF Damage, IInv, Typed, Runs, Dirs, Files
  <2>. QED
    BY <2>1 DEF Bounded
<1>10. CASE ListSnapshots
  <2>1. UNCHANGED <<db, dirs, latest>> /\ run'.doomed = Doomed /\ run'.pc # "copy"
    BY <1>10 DEF ListSnapshots, IInv, Typed, Runs
  <2>. QED
    BY <2>1 DEF Bounded, Doomed
<1>11. ASSUME NEW n \in Names, RemoveSnapshot(n) PROVE Bounded'
  <2>1. /\ UNCHANGED <<db, latest>> /\ run'.doomed = run.doomed \ {n} /\ run'.pc # "copy"
        /\ DOMAIN dirs \ {n} \subseteq DOMAIN dirs' /\ DOMAIN dirs' \subseteq DOMAIN dirs
        /\ \A m \in DOMAIN dirs' : dirs'[m] = dirs[m]
    BY <1>11 DEF RemoveSnapshot, IInv, Typed, Runs
  <2>. QED
    BY <2>1 DEF Bounded
<1>12. ASSUME NEW n \in Names, RemoveStops(n) PROVE Bounded'
  <2>1. /\ UNCHANGED <<db, latest>> /\ run'.doomed = run.doomed /\ run'.pc # "copy"
        /\ DOMAIN dirs' = DOMAIN dirs
        /\ \A m \in DOMAIN dirs : /\ dirs'[m].file = dirs[m].file \/ dirs'[m].file = Empty
                                  /\ dirs'[m].mtime = dirs[m].mtime
    BY <1>12 DEF RemoveStops, IInv, Typed, Runs, Dirs
  <2>. QED
    BY <2>1, BackupAssumption DEF Bounded, Empty
<1>. QED
  BY <1>1, <1>2, <1>3, <1>4, <1>5, <1>6, <1>7, <1>8, <1>9, <1>10, <1>11, <1>12 DEF BackupNext

\* BackupTypeCorrect: no copy has more pages than the database, retention only lists
\* directories that are there, and the directory of a running command stays
\* (BackupTypeOK).
THEOREM BackupTypeCorrect == BackupSpec => []BackupTypeOK
<1>1. BackupInit => Bounded
  BY StateAssumption DEF BackupInit, StateInit, Bounded, NoRun
<1>2. IInv /\ Bounded /\ [BackupNext]_cvars => Bounded'
  BY StepBounded
<1>3. IInv /\ [BackupNext]_cvars => IInv'
  BY EveryStep
<1>4. IInv /\ Bounded => BackupTypeOK
  <2>. SUFFICES ASSUME IInv, Bounded PROVE BackupTypeOK
    OBVIOUS
  <2>1. db.rows \in 0..MaxWrites /\ run.pc \in PCs /\ DOMAIN dirs \subseteq Names
    BY StateAssumption DEF IInv, Typed, DBs, Runs, Bounded
  <2>2. \A n \in DOMAIN dirs : dirs[n].file.pages \in 0..Pages
    BY BackupAssumption DEF IInv, Typed, Dirs, Files, Bounded
  <2>. QED
    BY <2>1, <2>2 DEF BackupTypeOK, IInv, RunKnown, Bounded
<1>. QED
  BY <1>1, <1>2, <1>3, <1>4, InitInv, PTL DEF BackupSpec
=============================================================================

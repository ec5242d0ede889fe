---------------------------- MODULE ControlBackup ----------------------------
(***************************************************************************)
(* `redgres backup` (cmd/redgres/backup.go, internal/backupops and         *)
(* internal/database): the online copy of the control database into a      *)
(* fresh directory of the staging root, the hashes around its integrity    *)
(* check, the isolated restore, and the retention that prunes older        *)
(* directories, while the server migrates and writes the database.         *)
(*                                                                         *)
(* A directory's modification time is any member of Times: clocks step     *)
(* back, and the code says it copes.  SHA-256 is the identity on the       *)
(* abstract file: it tells files apart.  Runs of the command do not        *)
(* overlap.                                                                *)
(***************************************************************************)
EXTENDS ControlState, FiniteSets

CONSTANTS Names,        \* the random names of operation directories
          None,         \* no name
          Times,        \* modification times
          Pages,        \* Step calls that copy the whole database
          Keep          \* -keep

ASSUME BackupAssumption ==
    /\ Names \subseteq Nat /\ IsFiniteSet(Names) /\ None \notin Names
    /\ Times \subseteq Nat
    /\ Pages \in Nat /\ Pages >= 1
    /\ Keep \in Nat /\ Keep >= 1

VARIABLES dirs,         \* the operation directories: name -> file and time
          run,          \* the command that runs
          since,        \* history: database states since it started, {} when none runs
          latest,       \* history: the last directory that passed every check
          answered      \* history: the last directory a command answered "ok" for

bvars == <<dirs, run, since, latest, answered>>
cvars == <<db, proc, dirs, run, since, latest, answered>>

(* A file: the database states its pages were read from, the pages copied, and
   whether its bytes are as they were written.  `passed` is history. *)
Empty == [from |-> {}, pages |-> 0, intact |-> TRUE]
Whole(f, s) == f.from = {s} /\ f.pages = Pages /\ f.intact

NoRun == [pc |-> "idle", build |-> NoBuild, name |-> None,
          digest |-> Empty, doomed |-> {}]
File == dirs[run.name].file

Ends == since' = {} /\ run' = NoRun

-----------------------------------------------------------------------------
(* Capture. *)

runBackup(b) ==
    /\ run.pc = "idle"
    /\ run' = [NoRun EXCEPT !.pc = "reserve", !.build = b]
    /\ since' = {db}
    /\ UNCHANGED <<db, proc, dirs, latest, answered>>

\* reserveOperation and reserveTarget: mkdir and O_EXCL of a name not in use.
reserveTarget(n, t) ==
    /\ run.pc = "reserve"
    /\ dirs' = [m \in DOMAIN dirs \union {n} |->
                  IF m = n THEN [file |-> Empty, mtime |-> t, passed |-> FALSE] ELSE dirs[m]]
    /\ run' = [run EXCEPT !.pc = "copy", !.name = n]
    /\ UNCHANGED <<db, proc, since, latest, answered>>

\* Mutant: pages of the old and of the new database end in one copy.
StepOn(f) == [f EXCEPT !.from = @ \union {db}, !.pages = @ + 1]

\* Backup.Step: when another process committed since the last step the copy starts again.
Step(f) ==
    IF f.from \subseteq {db} THEN [f EXCEPT !.from = {db}, !.pages = @ + 1]
    ELSE [f EXCEPT !.from = {db}, !.pages = 1]

\* runSQLiteBackup's loop; after the last page Finish commits the copy, which is
\* restricted, closed and opened again.
runSQLiteBackup ==
    /\ run.pc = "copy"
    /\ dirs' = [dirs EXCEPT ![run.name].file = Step(@)]
    /\ run' = [run EXCEPT !.pc = IF Step(File).pages = Pages THEN "hash" ELSE "copy"]
    /\ UNCHANGED <<db, proc, since, latest, answered>>

\* verifyStableSQLiteSnapshot hashes, checks integrity, hashes again: the copy is
\* accepted when both are the same.
HashBefore ==
    /\ run.pc = "hash"
    /\ run' = [run EXCEPT !.pc = "stable", !.digest = File]
    /\ UNCHANGED <<db, proc, dirs, since, latest, answered>>

HashAfter ==
    /\ run.pc = "stable" /\ File = run.digest
    /\ run' = [run EXCEPT !.pc = "restore"]
    /\ UNCHANGED <<db, proc, dirs, since, latest, answered>>

\* Any error of the capture: cleanupTarget removes the directory, unless that fails too.
CaptureFails ==
    /\ run.pc \in {"reserve", "copy", "hash", "stable"}
    /\ \/ UNCHANGED dirs
       \/ dirs' = [m \in DOMAIN dirs \ {run.name} |-> dirs[m]]
    /\ Ends
    /\ UNCHANGED <<db, proc, latest, answered>>

-----------------------------------------------------------------------------
(* The isolated restore. *)

\* prepareSQLiteRestoreSource: a sealed copy of the bytes, which must have the
\* digest the capture returned.
prepareSQLiteRestoreSource ==
    /\ run.pc = "restore" /\ File = run.digest
    /\ run' = [run EXCEPT !.pc = "check"]
    /\ UNCHANGED <<db, proc, dirs, since, latest, answered>>

\* The restored copy has exactly the migrations this build embeds (with integrity,
\* foreign keys and counts, whose failures are VerifyFails).
verifySQLiteRestoreMigrations ==
    /\ run.pc = "check"
    /\ \E s \in run.digest.from : s.schema = run.build
    /\ run' = [run EXCEPT !.pc = "rehash"]
    /\ UNCHANGED <<db, proc, dirs, since, latest, answered>>

\* The file still has that digest: the verification succeeded.
RestoreVerified ==
    /\ run.pc = "rehash" /\ File = run.digest
    /\ dirs' = [dirs EXCEPT ![run.name].passed = TRUE]
    /\ run' = [run EXCEPT !.pc = "list"]
    /\ latest' = run.name
    /\ UNCHANGED <<db, proc, since, answered>>

\* backupops.Capture keeps a snapshot whose verification failed.
VerifyFails ==
    /\ run.pc \in {"restore", "check", "rehash"}
    /\ Ends
    /\ UNCHANGED <<db, proc, dirs, latest, answered>>

\* The bytes of the file change between its first and its last hash.
Damage ==
    /\ run.pc \in {"stable", "restore", "check", "rehash"} /\ File.intact
    /\ dirs' = [dirs EXCEPT ![run.name].file.intact = FALSE]
    /\ UNCHANGED <<db, proc, run, since, latest, answered>>

-----------------------------------------------------------------------------
(* Retention. *)

\* Newest first, equal times by name.
Newer(m, n) ==
    \/ dirs[m].mtime > dirs[n].mtime
    \/ dirs[m].mtime = dirs[n].mtime /\ m < n

\* ApplyRetention lists the directories of the namespace, half-made ones too; all
\* but the Keep newest go.
Doomed == {n \in DOMAIN dirs : Cardinality({m \in DOMAIN dirs : Newer(m, n)}) >= Keep}

ListSnapshots ==
    /\ run.pc = "list"
    /\ run' = [run EXCEPT !.pc = "prune", !.doomed = Doomed]
    /\ UNCHANGED <<db, proc, dirs, since, latest, answered>>

NextDoomed(n) == n \in run.doomed /\ \A m \in run.doomed \ {n} : Newer(n, m)

\* Mutant: the snapshot just captured has no protection.
Unprotected(n) == FALSE

Protected(n) == n = run.name

\* The next directory is skipped when it is protectName, and removed otherwise.
RemoveSnapshot(n) ==
    /\ run.pc = "prune" /\ NextDoomed(n)
    /\ run' = [run EXCEPT !.doomed = @ \ {n}]
    /\ dirs' = IF Protected(n) THEN dirs ELSE [m \in DOMAIN dirs \ {n} |-> dirs[m]]
    /\ UNCHANGED <<db, proc, since, latest, answered>>

\* RemoveAll stops halfway: the file is gone, its directory is not, and the command fails.
RemoveStops(n) ==
    /\ run.pc = "prune" /\ NextDoomed(n) /\ ~Protected(n)
    /\ dirs' = [dirs EXCEPT ![n].file = Empty]
    /\ run' = [run EXCEPT !.pc = "fail"]
    /\ UNCHANGED <<db, proc, since, latest, answered>>

BackupOK ==
    /\ run.pc = "prune" /\ run.doomed = {}
    /\ answered' = run.name
    /\ Ends
    /\ UNCHANGED <<db, proc, dirs, latest>>

\* SIGTERM, a kill, or an error of retention: everything stays as it is.
BackupDies ==
    /\ run.pc # "idle"
    /\ Ends
    /\ UNCHANGED <<db, proc, dirs, latest, answered>>

-----------------------------------------------------------------------------
BackupInit ==
    /\ StateInit
    /\ dirs = [n \in {} |-> Empty] /\ run = NoRun
    /\ since = {} /\ latest = None /\ answered = None

\* The other processes go on while the command runs.
Others ==
    /\ StateNext
    /\ since' = IF since = {} THEN {} ELSE since \union {db'}
    /\ UNCHANGED <<dirs, run, latest, answered>>

BackupNext ==
    \/ Others
    \/ \E b \in Builds : runBackup(b)
    \/ \E n \in Names \ DOMAIN dirs, t \in Times : reserveTarget(n, t)
    \/ runSQLiteBackup \/ HashBefore \/ HashAfter \/ CaptureFails
    \/ prepareSQLiteRestoreSource \/ verifySQLiteRestoreMigrations \/ RestoreVerified
    \/ VerifyFails \/ Damage \/ ListSnapshots
    \/ \E n \in Names : RemoveSnapshot(n) \/ RemoveStops(n)
    \/ BackupOK \/ BackupDies

BackupSpec == BackupInit /\ [][BackupNext]_cvars

-----------------------------------------------------------------------------
PCs == {"idle", "reserve", "copy", "hash", "stable", "restore", "check", "rehash", "list", "prune", "fail"}

\* BackupTypeOK: the types, and the directory of a run that has one is there: neither
\* its own retention nor anything else takes it away before the answer.
BackupTypeOK ==
    /\ db.rows \in 0..MaxWrites /\ run.pc \in PCs
    /\ DOMAIN dirs \subseteq Names /\ latest \in Names \union {None}
    /\ run.doomed \subseteq DOMAIN dirs
    /\ \A n \in DOMAIN dirs : dirs[n].file.pages \in 0..Pages /\ dirs[n].mtime \in Times
    /\ run.pc \notin {"idle", "reserve"} => run.name \in DOMAIN dirs

\* The refinement: a backup is a directory that passed and still has its file.
Kept == {n \in DOMAIN dirs : dirs[n].passed /\ dirs[n].file # Empty}
Torn == [schema |-> <<"torn">>, rows |-> 0]
Holds(f) == IF \E s \in f.from : Whole(f, s) THEN CHOOSE s \in f.from : Whole(f, s) ELSE Torn

Vault == [n \in Kept |-> Holds(dirs[n].file)]
Taken == run.pc \in {"list", "prune", "fail"}

Promise == INSTANCE BackupPromise WITH state <- db, vault <- Vault, taken <- Taken

\* KeepsPromise: every step of the command, of the servers that write meanwhile and
\* of the faults is a step of BackupPromise or leaves its state alone.  So a backup
\* that passed holds one state the database was in during the run, retention never
\* takes the last good one, and "ok" is answered for a backup that is there.
KeepsPromise == Promise!PromiseSpec
=============================================================================

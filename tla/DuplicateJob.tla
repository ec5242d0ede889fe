----------------------------- MODULE DuplicateJob -----------------------------
(***************************************************************************)
(* The duplicate of a database as a durable operation: the HTTP handler     *)
(* that enqueues it, the single worker goroutine of cmd/redgres that runs   *)
(* it (internal/postgresadmin/worker.go and duplicate.go), the compensation *)
(* that follows a failure, and the Reconcile pass that a restarted process  *)
(* makes before it serves (internal/operations/store.go, probe.go).         *)
(* It composes the ledger of OperationStore with the catalog and the        *)
(* in-request calls of PostgresRequests.                                    *)
(***************************************************************************)
EXTENDS OperationStore, PostgresRequests

CONSTANTS
    Requests,      \* the duplicates clients may ask for
    LedgerFails,   \* may SQLite fail the worker or Reconcile
    MaxCrashes     \* bound on the times the process dies

DatabaseLock(d) == <<"postgres.database", d>>
RoleLock(r)     == <<"postgres.role", r>>
JobResource == {DatabaseLock(d) : d \in Database} \cup {RoleLock(r) : r \in Role}

Request == [source : Database, database : Database, owner : Role]

ASSUME JobAssumption ==
    /\ Resource = JobResource
    \* an operation id is a caller of the service too
    /\ OpId \subseteq Caller \ (Creates \cup Rotates \cup Drops \cup Truncates)
    /\ Requests \subseteq Request /\ None \notin Request
    \* the handler refuses protected new names and a copy onto the source
    /\ \A q \in Requests : /\ q.source # q.database
                           /\ q.database \notin DeniedDb
                           /\ q.owner \notin DeniedRole
    /\ LedgerFails \in BOOLEAN
    /\ MaxCrashes \in Nat

VARIABLES
    row,      \* result_json of every operation row: the names it is about
    asked,    \* HTTP handlers between PrepareDuplicate and InsertQueued
    mode,     \* what the process does: a Reconcile phase, serving, or nothing
    todo,     \* the ids of the list that is being worked through
    cur,      \* the operation in hand, None between two
    job,      \* where runQueuedDuplicate or finishCompensation stands
    crashes

jobVars == <<row, asked, mode, todo, cur, job, crashes>>
vars == <<catalogVars, requestVars, storeVars, jobVars>>

Mode == {"down", "interrupt", "resume", "resolve", "serve"}
JobStep == {"idle", "run", "compDatabase", "compCredential", "compRole", "giveUp", "failed"}

JobTypeOK ==
    /\ RequestsTypeOK
    /\ StoreTypeOK
    /\ row \in [OpId -> Request \cup {None}]
    /\ asked \in [OpId -> Request \cup {None}]
    /\ mode \in Mode
    /\ todo \subseteq OpId
    /\ cur \in OpId \cup {None}
    /\ job \in JobStep
    /\ crashes \in 0 .. MaxCrashes

\* The process has started on an empty ledger and serves.
Init ==
    /\ RequestsInit
    /\ StoreInit
    /\ row = [o \in OpId |-> None]
    /\ asked = [o \in OpId |-> None]
    /\ mode = "serve"
    /\ todo = {}
    /\ cur = None
    /\ job = "idle"
    /\ crashes = 0

WithStatus(s) == {o \in OpId : status[o] = s}

----------------------------------------------------------------------------
(***************************************************************************)
(* POST /postgres/databases/{db}/duplicate.                                 *)
(***************************************************************************)

\* The answer of PrepareDuplicate when every read succeeds.
PrepareAnswer(q) ==
    IF q.source \in DeniedDb \/ ~DatabaseExists(q.source) THEN "notFound"
    ELSE IF db[q.source].owner \in DeniedRole THEN "protected"
    ELSE IF db[q.source].owner = q.owner THEN "field"
    ELSE IF DatabaseExists(q.database) \/ RoleExists(q.owner) \/ Saved(q.owner) THEN "conflict"
    ELSE "ok"

\* Operation ids are random: one that has left a mark is not drawn again.
FreshId(o) ==
    /\ status[o] = "absent" /\ asked[o] = None
    /\ \A d \in Database : DatabaseExists(d) => db[d].by # o
    /\ \A r \in Role : vault[r] # o /\ (RoleExists(r) => role[r].by # o)

\* The handler validates the request; a refusal leaves no trace.
EnqueuePrepare(o) ==
    /\ mode = "serve"
    /\ FreshId(o)
    /\ \E q \in Requests :
          /\ PrepareAnswer(q) = "ok"
          /\ asked' = [asked EXCEPT ![o] = q]
    /\ UNCHANGED <<catalogVars, requestVars, storeVars, row, mode, todo, cur, job, crashes>>

\* Mutant of LocksOf: the source is only read, so it is not locked.
LocksWithoutSource(q) == {DatabaseLock(q.database), RoleLock(q.owner)}

\* The lock rows of a duplicate: the source, the copy and the new owner.
LocksOf(q) == {DatabaseLock(q.source), DatabaseLock(q.database), RoleLock(q.owner)}

\* Some time later it inserts the row with its locks, on the strength of that
\* check; when a lock is held it answers 409 operation_in_progress.
EnqueueInsert(o) ==
    /\ asked[o] # None
    /\ \/ /\ InsertQueued(o, LocksOf(asked[o]))
          /\ row' = [row EXCEPT ![o] = asked[o]]
       \/ /\ \E r \in LocksOf(asked[o]) : ~LockFree(r)
          /\ UNCHANGED <<storeVars, row>>
    /\ asked' = [asked EXCEPT ![o] = None]
    /\ UNCHANGED <<catalogVars, requestVars, mode, todo, cur, job, crashes>>

----------------------------------------------------------------------------
(***************************************************************************)
(* The worker: RunQueuedDuplicates, called on start and every second.       *)
(***************************************************************************)

\* ListQueued.
Poll ==
    /\ mode = "serve" /\ job = "idle" /\ todo = {}
    /\ WithStatus("queued") # {}
    /\ todo' = WithStatus("queued")
    /\ UNCHANGED <<catalogVars, requestVars, storeVars, row, asked, mode, cur, job, crashes>>

\* queued -> running, and the call of Service.Duplicate begins.
Claim(o) ==
    /\ mode = "serve" /\ job = "idle" /\ o \in todo
    /\ Transition(o, "queued", "running", FALSE)
    /\ todo' = todo \ {o}
    /\ cur' = o
    /\ job' = "run"
    /\ call' = [call EXCEPT ![o] = [IdleCall EXCEPT
                    !.pc = "prepare", !.source = row[o].source,
                    !.database = row[o].database, !.owner = row[o].owner]]
    /\ UNCHANGED <<catalogVars, rotating, dropping, truncating,
                   row, asked, mode, crashes>>

\* A step of Service.Duplicate changes the catalog and the call only. Its own
\* TryLock map always grants: the worker is its only user and runs one at a time.
Running(o) ==
    /\ mode = "serve" /\ job = "run" /\ cur = o
    /\ UNCHANGED <<storeVars, jobVars>>

\* PrepareDuplicate once more, then OwnershipSnapshot of the source.
DuplicatePrepare(o) ==
    /\ At(o, "prepare")
    /\ \/ /\ PrepareAnswer(row[o]) = "ok"
          /\ call' = [call EXCEPT ![o].pc = "createRole",
                                  ![o].snapshot = db[row[o].source].owner]
          /\ UNCHANGED faults
       \/ /\ PrepareAnswer(row[o]) # "ok"
          /\ Answer(o, PrepareAnswer(row[o]))
          /\ UNCHANGED faults
       \/ /\ ReadFails
          /\ Answer(o, "unavailable")
    /\ NoLocks
    /\ UNCHANGED <<db, role, vault>>

\* GRANT, TerminateSessions of the source, CREATE DATABASE ... TEMPLATE.
DuplicateDatabaseStep(o) ==
    LET d == call[o].database
        s == call[o].source
        r == call[o].owner IN
    /\ At(o, "createDatabase")
    /\ \/ /\ RoleExists(r) /\ DatabaseExists(d)
          /\ Undo(o, "conflict")
          /\ UNCHANGED <<db, faults>>
       \/ /\ ~RoleExists(r) \/ ~DatabaseExists(s)
          /\ Undo(o, "unavailable")
          /\ UNCHANGED <<db, faults>>
       \/ /\ RoleExists(r) /\ DatabaseExists(s) /\ ~DatabaseExists(d)
          /\ \E reply \in Reply :
                /\ Charge(reply)
                /\ db' = IF Took(reply) THEN CreateDatabaseTemplate(d, s, r, o) ELSE db
                /\ IF reply = "ok" THEN Made(o, "database", "lockConnect")
                                   ELSE Undo(o, "unavailable")
    /\ NoLocks
    /\ UNCHANGED <<role, vault>>

\* assertSourceUnchanged: before the vault row, and again at the end.
AssertSource(o) ==
    LET s == call[o].source IN
    /\ call[o].pc \in {"assertFirst", "assertLast"}
    /\ \/ /\ DatabaseExists(s) /\ db[s].owner = call[o].snapshot
          /\ IF At(o, "assertFirst") THEN Goto(o, "insertCredential") ELSE Answer(o, "ok")
          /\ UNCHANGED faults
       \/ /\ ~DatabaseExists(s)
          /\ Undo(o, "notFound")
          /\ UNCHANGED faults
       \/ /\ DatabaseExists(s) /\ db[s].owner # call[o].snapshot
          /\ Undo(o, "isolation")
          /\ UNCHANGED faults
       \/ /\ ReadFails
          /\ Undo(o, "unavailable")
    /\ NoLocks
    /\ UNCHANGED <<db, role, vault>>

\* Mutant of DuplicateTransfer: its error is not looked at.
TransferUnchecked(o) ==
    /\ At(o, "transfer")
    /\ DatabaseExists(call[o].database)
    /\ \E reply \in Reply :
          /\ Charge(reply)
          /\ db' = IF Took(reply) THEN TransferCloneOwnership(call[o].database, call[o].owner)
                                  ELSE db
    /\ Goto(o, "assertLast")
    /\ NoLocks
    /\ UNCHANGED <<role, vault>>

\* TransferCloneOwnership: one transaction in the clone. It fails when there
\* is something to hand over and the new owner is gone.
DuplicateTransfer(o) ==
    LET d == call[o].database
        r == call[o].owner
        possible == /\ DatabaseExists(d)
                    /\ RoleExists(r) \/ \A x \in db[d].objects : Retained(x) IN
    /\ At(o, "transfer")
    /\ \/ /\ ~possible
          /\ Undo(o, "unavailable")
          /\ UNCHANGED <<db, faults>>
       \/ /\ possible
          /\ \E reply \in Reply :
                /\ Charge(reply)
                /\ db' = IF Took(reply) THEN TransferCloneOwnership(d, r) ELSE db
                /\ IF reply = "ok" THEN Goto(o, "assertLast") ELSE Undo(o, "unavailable")
    /\ NoLocks
    /\ UNCHANGED <<role, vault>>

DuplicateStep(o) ==
    /\ Running(o)
    /\ \/ DuplicatePrepare(o)
       \/ CreateRoleStep(o)
       \/ DuplicateDatabaseStep(o)
       \/ LockConnectStep(o)
       \/ AssertSource(o)
       \/ InsertCredentialStep(o)
       \/ DuplicateTransfer(o)
       \/ UndoCredentialStep(o)
       \/ UndoDatabaseStep(o)
       \/ UndoRoleStep(o)

\* Mutant of skipDuplicateCompensation: trusts compensateCreate for all errors.
SkipUnavailableToo(outcome) ==
    outcome \in {"conflict", "field", "busy", "notFound", "protected", "unavailable"}

\* The errors after which the worker does not compensate.
skipDuplicateCompensation(outcome) ==
    outcome \in {"conflict", "field", "busy", "notFound", "protected"}

\* Service.Duplicate has returned: the row becomes succeeded, or compensating
\* with the compensation to follow unless the error is one to skip it for.
DuplicateReturns(o) ==
    /\ mode = "serve" /\ job = "run" /\ cur = o /\ At(o, "done")
    /\ IF call[o].outcome = "ok"
       THEN /\ Transition(o, "running", "succeeded", FALSE)
            /\ job' = "idle"
            /\ cur' = None
       ELSE /\ Transition(o, "running", "compensating", FALSE)
            /\ job' = IF skipDuplicateCompensation(call[o].outcome)
                      THEN "failed" ELSE "compDatabase"
            /\ UNCHANGED cur
    /\ call' = [call EXCEPT ![o] = IdleCall]
    /\ UNCHANGED <<catalogVars, rotating, dropping, truncating,
                   row, asked, mode, todo, crashes>>

----------------------------------------------------------------------------
(***************************************************************************)
(* CompensateDuplicate, for the worker (failQueuedDuplicate) and for        *)
(* Reconcile (finishCompensation). It goes by the names in the row.         *)
(***************************************************************************)
Compensating(o, step) ==
    /\ job = step /\ cur = o
    /\ UNCHANGED <<storeVars, requestVars, row, asked, mode, todo, cur, crashes>>

\* DatabaseExists, then TerminateAndDropDatabase; never the source, never a
\* protected name.
CompensateDatabase(o) ==
    LET d == row[o].database IN
    /\ Compensating(o, "compDatabase")
    /\ \/ /\ d = row[o].source \/ d \in DeniedDb \/ ~DatabaseExists(d)
          /\ job' = "compCredential"
          /\ UNCHANGED <<db, faults>>
       \/ /\ d # row[o].source /\ d \notin DeniedDb /\ DatabaseExists(d)
          /\ \E reply \in Reply :
                /\ Charge(reply)
                /\ db' = IF Took(reply) THEN DropDatabase(d) ELSE db
                /\ job' = IF reply = "ok" THEN "compCredential" ELSE "giveUp"
       \/ /\ ReadFails
          /\ job' = "giveUp"
          /\ UNCHANGED db
    /\ UNCHANGED <<role, vault>>

\* RoleExists, OwnedDatabaseCount and SavedRoleNames; the compensation ends
\* here when there is no role or the role owns something, and otherwise
\* deletes the vault row if there is one.
CompensateCredential(o) ==
    LET r == row[o].owner IN
    /\ Compensating(o, "compCredential")
    /\ \/ /\ ~RoleExists(r) \/ OwnedDatabaseCount(r) > 0
          /\ job' = "failed"
          /\ UNCHANGED <<vault, faults>>
       \/ /\ RoleExists(r) /\ OwnedDatabaseCount(r) = 0 /\ ~Saved(r)
          /\ job' = "compRole"
          /\ UNCHANGED <<vault, faults>>
       \/ /\ RoleExists(r) /\ OwnedDatabaseCount(r) = 0 /\ Saved(r)
          /\ \E reply \in Reply :
                /\ Charge(reply)
                /\ vault' = IF Took(reply) THEN DeleteCredential(r) ELSE vault
                /\ job' = IF reply = "ok" THEN "compRole" ELSE "giveUp"
       \/ /\ ReadFails
          /\ job' = "giveUp"
          /\ UNCHANGED vault
    /\ UNCHANGED <<db, role>>

\* DROP ROLE IF EXISTS, for an owner that is not protected.
CompensateRole(o) ==
    LET r == row[o].owner IN
    /\ Compensating(o, "compRole")
    /\ \E reply \in Reply :
          /\ Charge(reply)
          /\ role' = IF Took(reply) /\ RoleUnowned(r) THEN DropRole(r) ELSE role
          /\ job' = IF reply = "ok" /\ RoleUnowned(r) THEN "failed" ELSE "giveUp"
    /\ UNCHANGED <<db, vault>>

CompensateStep(o) ==
    \/ CompensateDatabase(o)
    \/ CompensateCredential(o)
    \/ CompensateRole(o)

\* The terminal write: failed, or indeterminate with the locks kept.
CompensationEnds(o) ==
    /\ cur = o
    /\ \/ job = "failed" /\ Transition(o, "compensating", "failed", FALSE)
       \/ job = "giveUp" /\ Transition(o, "compensating", "indeterminate", TRUE)
    /\ job' = "idle"
    /\ cur' = None
    /\ UNCHANGED <<catalogVars, requestVars, row, asked, mode, todo, crashes>>

----------------------------------------------------------------------------
(***************************************************************************)
(* A new process: Open, then Reconcile, then it serves.                     *)
(***************************************************************************)
Boot ==
    /\ mode = "down"
    /\ mode' = "interrupt"
    /\ todo' = WithStatus("running")
    /\ UNCHANGED <<catalogVars, requestVars, storeVars, row, asked, cur, job, crashes>>

\* running -> interrupted, row by row.
ReconcileInterrupt(o) ==
    /\ mode = "interrupt" /\ o \in todo
    /\ Transition(o, "running", "interrupted", FALSE)
    /\ todo' = todo \ {o}
    /\ UNCHANGED <<catalogVars, requestVars, row, asked, mode, cur, job, crashes>>

\* compensating rows: compensate again from the start.
ReconcileResume(o) ==
    /\ mode = "resume" /\ job = "idle" /\ o \in todo
    /\ todo' = todo \ {o}
    /\ cur' = o
    /\ job' = "compDatabase"
    /\ UNCHANGED <<catalogVars, requestVars, storeVars, row, asked, mode, crashes>>

\* What DuplicateState reports: which of clone, role and vault row exist.
Found(q) ==
    {x \in {"clone", "role", "vault"} :
        \/ x = "clone" /\ DatabaseExists(q.database)
        \/ x = "role"  /\ RoleExists(q.owner)
        \/ x = "vault" /\ Saved(q.owner)}

\* Mutant of resultFrom: the last database lock, that of the copy, is taken
\* for the source.
ResultFromLastLock(o) ==
    [database |-> row[o].database,
     owner    |-> CHOOSE r \in Role : RoleLock(r) \in held[o],
     source   |-> row[o].database]

\* The names of a recovered operation are read back from its lock rows.
resultFrom(o) ==
    [database |-> row[o].database,
     owner    |-> CHOOSE r \in Role : RoleLock(r) \in held[o],
     source   |-> CHOOSE d \in Database \ {row[o].database} : DatabaseLock(d) \in held[o]]

\* resolveInterrupted: by what the probe finds.
ReconcileResolve(o) ==
    LET found == Found(row[o]) IN
    /\ mode = "resolve" /\ job = "idle" /\ o \in todo
    /\ todo' = todo \ {o}
    /\ \/ /\ found \in {{}, {"vault"}}
          /\ Transition(o, "interrupted", "failed", FALSE)
          /\ UNCHANGED <<row, cur, job, faults>>
       \/ /\ found = {"clone", "role", "vault"}
          /\ Transition(o, "interrupted", "succeeded", FALSE)
          /\ row' = [row EXCEPT ![o] = resultFrom(o)]
          /\ UNCHANGED <<cur, job, faults>>
       \/ /\ found \notin {{}, {"vault"}, {"clone", "role", "vault"}}
          /\ Transition(o, "interrupted", "compensating", FALSE)
          /\ cur' = o
          /\ job' = "compDatabase"
          /\ UNCHANGED <<row, faults>>
       \/ /\ ReadFails
          /\ Transition(o, "interrupted", "indeterminate", FALSE)
          /\ UNCHANGED <<row, cur, job>>
    /\ UNCHANGED <<db, role, vault, requestVars, asked, mode, crashes>>

\* Mutant of ReconcileNextPhase: compensating rows are passed over.
NextPhaseWithoutResume ==
    /\ job = "idle" /\ todo = {}
    /\ mode = "interrupt"
    /\ mode' = "resolve"
    /\ todo' = WithStatus("interrupted")
    /\ UNCHANGED <<catalogVars, requestVars, storeVars, row, asked, cur, job, crashes>>

\* The list of a phase is done: list the rows of the next one.
ReconcileNextPhase ==
    /\ job = "idle" /\ todo = {}
    /\ \/ /\ mode = "interrupt"
          /\ mode' = "resume"
          /\ todo' = WithStatus("compensating")
       \/ /\ mode = "resume"
          /\ mode' = "resolve"
          /\ todo' = WithStatus("interrupted")
    /\ UNCHANGED <<catalogVars, requestVars, storeVars, row, asked, cur, job, crashes>>

\* The last phase is done: prune, then start the worker and listen.
ReconcilePrune ==
    /\ mode = "resolve" /\ job = "idle" /\ todo = {}
    /\ pruneTerminal
    /\ row' = [o \in OpId |-> IF o \in Pruned THEN None ELSE row[o]]
    /\ mode' = "serve"
    /\ UNCHANGED <<catalogVars, requestVars, asked, todo, cur, job, crashes>>

\* The worker or Reconcile is about to read a list or write a row.
LedgerAccessDue ==
    \/ mode \in {"interrupt", "resume", "resolve"} /\ job = "idle"
    \/ mode = "serve" /\ job = "idle" /\ todo # {}
    \/ job = "run" /\ At(cur, "done")
    \/ job \in {"failed", "giveUp"}

\* SQLite fails there. The worker gives the whole round up and leaves the row as
\* it is; a Reconcile error ends the process.
LedgerFailure ==
    /\ LedgerFails /\ LedgerAccessDue
    /\ Charge("error")
    /\ mode' = IF mode = "serve" THEN "serve" ELSE "down"
    /\ todo' = {}
    /\ cur' = None
    /\ job' = "idle"
    /\ call' = IF cur \in OpId THEN [call EXCEPT ![cur] = IdleCall] ELSE call
    /\ UNCHANGED <<db, role, vault, rotating, dropping, truncating, storeVars,
                   row, asked, crashes>>

\* The process dies (a kill, a power cut, or a SIGTERM: main does not wait
\* for the worker). Everything but the ledger and PostgreSQL is forgotten.
Crash ==
    /\ mode # "down" /\ crashes < MaxCrashes
    /\ crashes' = crashes + 1
    /\ RequestsKilled
    /\ asked' = [o \in OpId |-> None]
    /\ mode' = "down"
    /\ todo' = {}
    /\ cur' = None
    /\ job' = "idle"
    /\ UNCHANGED <<catalogVars, storeVars, row>>

----------------------------------------------------------------------------
WorkerStep ==
    \/ Poll
    \/ \E o \in OpId : \/ Claim(o)
                       \/ DuplicateStep(o)
                       \/ DuplicateReturns(o)
                       \/ CompensateStep(o)
                       \/ CompensationEnds(o)

ReconcileStep ==
    \/ Boot
    \/ \E o \in OpId : ReconcileInterrupt(o) \/ ReconcileResume(o) \/ ReconcileResolve(o)
    \/ ReconcileNextPhase
    \/ ReconcilePrune

\* The requests of PostgresRequests, served while the process is up.
OtherRequest ==
    /\ mode = "serve"
    /\ RequestNext
    /\ UNCHANGED <<storeVars, jobVars>>

\* Reconcile reads the clock once, before its first phase.
Clock ==
    /\ mode \in {"serve", "down"}
    /\ Tick
    /\ UNCHANGED <<catalogVars, requestVars, jobVars>>

Next ==
    \/ \E o \in OpId : EnqueuePrepare(o) \/ EnqueueInsert(o)
    \/ WorkerStep
    \/ ReconcileStep
    \/ LedgerFailure
    \/ Crash
    \/ OtherRequest
    \/ Clock

Spec == Init /\ [][Next]_vars

\* The worker goroutine keeps ticking and the service manager restarts a
\* process that died; no request is obliged to be sent or to go on.
FairSpec == Spec /\ WF_vars(WorkerStep) /\ WF_vars(ReconcileStep)

----------------------------------------------------------------------------
(***************************************************************************)
(* Properties.                                                              *)
(***************************************************************************)

\* The worker and Reconcile send a statement for an operation only while its
\* row says running or compensating and holds all three locks: a claim, a
\* crash, a ledger error or a resumed compensation never leaves them working
\* for a row that is settled or unlocked.
WorkIsLocked ==
    cur # None =>
        /\ status[cur] = IF job = "run" THEN "running" ELSE "compensating"
        /\ held[cur] = LocksOf(row[cur])

\* A row that is there names a request, and an unfinished one claims its locks.
RowsMatch ==
    \A o \in OpId :
        /\ status[o] = "absent" => row[o] = None
        /\ status[o] \in Live => row[o] # None /\ claim[o] = LocksOf(row[o])

\* The inductive invariant behind WorkIsLocked and NamesAreKept: what the
\* process has in hand agrees with the ledger, in every phase.
JobInv ==
    /\ asked \in [OpId -> Requests \cup {None}]
    /\ row \in [OpId -> Requests \cup {None}]
    /\ todo \subseteq OpId
    /\ cur \in OpId \cup {None}
    /\ RowsMatch
    /\ cur = None <=> job = "idle"
    /\ mode \in {"down", "interrupt"} => job = "idle"
    /\ mode = "resume" => \A o \in todo : status[o] = "compensating" /\ o # cur
    /\ cur # None => status[cur] = IF job = "run" THEN "running" ELSE "compensating"

\* What operation o created and is still there.
LeftBy(o) ==
    {d \in Database : DatabaseExists(d) /\ db[d].by = o}
        \cup {r \in Role : RoleExists(r) /\ role[r].by = o}

\* An operation reported as failed left no database and no login behind,
\* whichever statement failed, was lost, or was cut short by a crash. (A
\* failed row has released its locks: nobody would clean up after it.)
FailedLeavesNoAccess ==
    \A o \in OpId : status[o] = "failed" => LeftBy(o) = {}

\* Compensation drops the leftover clone, role and vault row before the row
\* is failed and its locks are released.
FailedLeavesNothing ==
    \A o \in OpId : status[o] = "failed" =>
        LeftBy(o) = {} /\ \A r \in Role : vault[r] # o

\* A step that is not one of an in-request call.
ByWorker == \A x \in Caller \ OpId : call'[x] = call[x]

\* Neither the worker nor Reconcile, compensating whichever operation, removes
\* a database that an unfinished operation copies from: its lock on the source
\* is respected by everything that goes through the ledger.
SourceOutlivesCopy ==
    [][ByWorker => \A d \in Database :
          DatabaseExists(d) /\ db'[d] = None =>
              \A o \in OpId : status[o] \in Live => row[o].source # d]_vars

\* A complete clone: an object in it belongs to the new owner, or it is one
\* that the transfer must leave alone (SECURITY DEFINER, an extension's, a
\* superuser's or a protected owner's) and has the owner it has in the source,
\* and none of these is missing.
CloneIsWhole(q, o) ==
    LET clone  == db[q.database]
        source == db[q.source] IN
    /\ clone.owner = q.owner /\ clone.by = o
    /\ \A x \in clone.objects : x.owner = q.owner \/ (Retained(x) /\ x \in source.objects)
    /\ \A x \in source.objects : Retained(x) => x \in clone.objects

\* When the worker reports an operation as succeeded, clone, role and vault
\* row are there and are this operation's own, not another one's of the same
\* names, the password in the vault is the role's, and the clone is complete:
\* no error path falls through to success.
SucceededIsWhole ==
    [][\A o \in OpId :
          status[o] = "running" /\ status'[o] = "succeeded" =>
              LET q == row[o] IN
              /\ CloneIsWhole(q, o)
              /\ role[q.owner] = [by |-> o, pw |-> o]
              /\ vault[q.owner] = o]_vars

\* A restarted process serves only after every row that was running,
\* interrupted or compensating has been settled.
ServesOnlySettled ==
    [][mode # "serve" /\ mode' = "serve" =>
          \A o \in OpId : status'[o] \notin Unsettled]_vars

\* An operation goes on naming what its client asked for, also when its
\* names are read back from the lock rows after a crash.
NamesAreKept ==
    [][\A o \in OpId : row[o] # None /\ row'[o] # None => row'[o] = row[o]]_vars

\* Cleaning up after a failed duplicate touches only what it had created.
CleanupTouchesOwnOnly ==
    [][cur # None /\ ByWorker =>
          /\ \A d \in Database : DatabaseExists(d) /\ db'[d] = None => db[d].by = cur
          /\ \A r \in Role : RoleExists(r) /\ role'[r] = None => role[r].by = cur
          /\ \A r \in Role : Saved(r) /\ vault'[r] = None => vault[r] = cur]_vars

\* Every accepted duplicate comes to an end: a queued row is settled sooner
\* or later, through failures, crashes and restarts.
EveryDuplicateSettles ==
    \A o \in OpId : (status[o] = "queued") ~> (status[o] \in Terminal \cup {"absent"})
=============================================================================

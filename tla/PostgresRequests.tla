-------------------------- MODULE PostgresRequests --------------------------
(***************************************************************************)
(* The service calls of internal/postgresadmin that an HTTP request runs to *)
(* its end: Create, Rotate, Drop and Truncate. Any number of them run at    *)
(* once; each is a sequence of statements against PostgresCatalog, and a    *)
(* step here is one statement, with the reads and checks that precede it.   *)
(* The locks are the in-process TryLock maps of Service, which know nothing *)
(* of each other, except that drop and truncate respect one another.        *)
(***************************************************************************)
EXTENDS PostgresCatalog

CONSTANTS Creates, Rotates, Drops, Truncates  \* the requests, by kind

ASSUME RequestAssumption ==
    /\ Creates \cup Rotates \cup Drops \cup Truncates \subseteq Caller
    /\ Creates \cap (Rotates \cup Drops \cup Truncates) = {}
    /\ Rotates \cap (Drops \cup Truncates) = {}
    /\ Drops \cap Truncates = {}

VARIABLES
    call,        \* the local state of every service call
    rotating,    \* Service.rotating: owners
    dropping,    \* Service.dropping: databases
    truncating   \* Service.truncating: databases

requestVars == <<call, rotating, dropping, truncating>>

Step == {"idle", "createRole", "createDatabase", "lockConnect", "assertFirst",
         "insertCredential", "undoCredential", "undoDatabase", "undoRole",
         "lockOwner", "alterRole", "upsert",
         "lookup", "gate", "dropDatabase", "dropRole", "deleteCredential",
         "truncate", "prepare", "transfer", "assertLast", "done"}

\* "ok" is a success answer; the others are the error the caller gets.
Outcome == {"none", "ok", "conflict", "notFound", "protected", "field", "busy",
            "unavailable", "isolation", "vaultUnsynced", "roleDropFailed",
            "vaultDeleteFailed", "gateDenied", "killed"}

IdleCall == [pc |-> "idle", source |-> None, snapshot |-> None, database |-> None,
             owner |-> None, made |-> {}, outcome |-> "none"]

RequestTypeOK ==
    /\ call \in [Caller -> [pc : Step, source : Database \cup {None}, snapshot : Role \cup {None},
                            database : Database \cup {None}, owner : Role \cup {None},
                            made : SUBSET {"role", "database", "vault"},
                            outcome : Outcome]]
    /\ rotating \subseteq Role
    /\ dropping \subseteq Database
    /\ truncating \subseteq Database

RequestInit ==
    /\ call = [x \in Caller |-> IdleCall]
    /\ rotating = {}
    /\ dropping = {}
    /\ truncating = {}

At(x, pc) == call[x].pc = pc
Goto(x, pc) == call' = [call EXCEPT ![x].pc = pc]
Answer(x, outcome) == call' = [call EXCEPT ![x].pc = "done", ![x].outcome = outcome]

\* x goes on at pc after it created "what", whatever the error of the call.
Made(x, what, pc) ==
    call' = [call EXCEPT ![x].pc = pc, ![x].made = @ \cup {what}]

\* x compensates and will answer with this outcome.
Undo(x, outcome) ==
    call' = [call EXCEPT ![x].pc = "undoCredential", ![x].outcome = outcome]

NoLocks == UNCHANGED <<rotating, dropping, truncating>>

----------------------------------------------------------------------------
(***************************************************************************)
(* Service.Create. Nothing locks the two names: the checks at the start are *)
(* only as good as the CREATE statements that follow them.                  *)
(***************************************************************************)

\* The policy check and the two existence checks. A refused request ends
\* here without a trace, as if it had not been sent.
CreateCheck(c) ==
    /\ At(c, "idle")
    /\ \E d \in Database \ DeniedDb, r \in Role \ DeniedRole :
          /\ ~DatabaseExists(d)
          /\ ~RoleExists(r)
          /\ call' = [call EXCEPT ![c].pc = "createRole", ![c].database = d, ![c].owner = r]
    /\ NoLocks
    /\ UNCHANGED catalogVars

\* CREATE ROLE, for Create and for Duplicate alike: nothing to undo yet.
CreateRoleStep(x) ==
    LET r == call[x].owner IN
    /\ At(x, "createRole")
    /\ \/ /\ RoleExists(r)
          /\ Answer(x, "conflict")
          /\ UNCHANGED <<role, faults>>
       \/ /\ ~RoleExists(r)
          /\ \E reply \in Reply :
                /\ Charge(reply)
                /\ role' = IF Took(reply) THEN CreateRole(r, x) ELSE role
                /\ IF reply = "ok" THEN Made(x, "role", "createDatabase")
                                   ELSE Answer(x, "unavailable")
    /\ NoLocks
    /\ UNCHANGED <<db, vault>>

\* GRANT to the administrator, then CREATE DATABASE ... OWNER.
CreateDatabaseStep(c) ==
    LET d == call[c].database
        r == call[c].owner IN
    /\ At(c, "createDatabase")
    /\ \/ /\ ~RoleExists(r)
          /\ Undo(c, "unavailable")
          /\ UNCHANGED <<db, faults>>
       \/ /\ RoleExists(r) /\ DatabaseExists(d)
          /\ Undo(c, "conflict")
          /\ UNCHANGED <<db, faults>>
       \/ /\ RoleExists(r) /\ ~DatabaseExists(d)
          /\ \E reply \in Reply :
                /\ Charge(reply)
                /\ db' = IF Took(reply) THEN CreateDatabase(d, r, c) ELSE db
                /\ IF reply = "ok" THEN Made(c, "database", "lockConnect")
                                   ELSE Undo(c, "unavailable")
    /\ NoLocks
    /\ UNCHANGED <<role, vault>>

\* LockConnect: REVOKE and GRANT need the database and the role to be there.
LockConnectStep(x) ==
    /\ At(x, "lockConnect")
    /\ \/ /\ DatabaseExists(call[x].database) /\ RoleExists(call[x].owner)
          /\ Goto(x, IF x \in Creates THEN "insertCredential" ELSE "assertFirst")
          /\ UNCHANGED faults
       \/ /\ ~DatabaseExists(call[x].database) \/ ~RoleExists(call[x].owner)
          /\ Undo(x, "unavailable")
          /\ UNCHANGED faults
       \/ /\ ReadFails
          /\ Undo(x, "unavailable")
    /\ NoLocks
    /\ UNCHANGED <<db, role, vault>>

\* Encrypt, then the INSERT of the vault row, which has no ON CONFLICT. It is
\* the last statement of Create, and the last but one of Duplicate.
InsertCredentialStep(x) ==
    LET r == call[x].owner IN
    /\ At(x, "insertCredential")
    /\ \/ /\ Saved(r)
          /\ Undo(x, "conflict")
          /\ UNCHANGED <<vault, faults>>
       \/ /\ ~Saved(r)
          /\ \E reply \in Reply :
                /\ Charge(reply)
                /\ vault' = IF Took(reply) THEN PutCredential(r, x) ELSE vault
                /\ IF reply # "ok" THEN Undo(x, "unavailable")
                   ELSE IF x \in Creates THEN Answer(x, "ok")
                   ELSE Made(x, "vault", "transfer")
    /\ NoLocks
    /\ UNCHANGED <<db, role>>

\* compensateCreate, for Create and for Duplicate: delete the vault row, drop
\* the database, drop the role if it owns nothing. It goes by name, skips
\* what the call did not create, and ignores every error.
UndoCredentialStep(x) ==
    /\ At(x, "undoCredential")
    /\ IF "vault" \in call[x].made
       THEN \E reply \in Reply :
               /\ Charge(reply)
               /\ vault' = IF Took(reply) THEN DeleteCredential(call[x].owner) ELSE vault
       ELSE UNCHANGED <<vault, faults>>
    /\ Goto(x, "undoDatabase")
    /\ NoLocks
    /\ UNCHANGED <<db, role>>

UndoDatabaseStep(x) ==
    /\ At(x, "undoDatabase")
    /\ IF "database" \in call[x].made
       THEN \E reply \in Reply :
               /\ Charge(reply)
               /\ db' = IF Took(reply) THEN DropDatabase(call[x].database) ELSE db
       ELSE UNCHANGED <<db, faults>>
    /\ Goto(x, "undoRole")
    /\ NoLocks
    /\ UNCHANGED <<role, vault>>

\* Mutant of UndoRoleStep: the guard of the vault row, copied.
UndoRoleRarely(x) ==
    LET r == call[x].owner IN
    /\ At(x, "undoRole")
    /\ role' = IF "vault" \in call[x].made /\ RoleUnowned(r) THEN DropRole(r) ELSE role
    /\ Answer(x, call[x].outcome)
    /\ NoLocks
    /\ UNCHANGED <<db, vault, faults>>

UndoRoleStep(x) ==
    LET r == call[x].owner IN
    /\ At(x, "undoRole")
    /\ IF "role" \in call[x].made /\ RoleUnowned(r)
       THEN \E reply \in Reply :
               /\ Charge(reply)
               /\ role' = IF Took(reply) THEN DropRole(r) ELSE role
       ELSE UNCHANGED <<role, faults>>
    /\ Answer(x, call[x].outcome)
    /\ NoLocks
    /\ UNCHANGED <<db, vault>>

CreateNext(c) ==
    \/ CreateCheck(c)
    \/ CreateRoleStep(c)
    \/ CreateDatabaseStep(c)
    \/ LockConnectStep(c)
    \/ InsertCredentialStep(c)
    \/ UndoCredentialStep(c)
    \/ UndoDatabaseStep(c)
    \/ UndoRoleStep(c)

----------------------------------------------------------------------------
(***************************************************************************)
(* Service.Rotate. The owner is looked up before the lock is taken; the     *)
(* password changes in PostgreSQL first and in the vault second.            *)
(***************************************************************************)

\* Lookup, eligibility and the check that the vault answers.
RotateLookup(x) ==
    /\ At(x, "idle")
    /\ \E d \in Database :
          /\ Manageable(d)
          /\ call' = [call EXCEPT ![x].pc = "lockOwner", ![x].database = d,
                                  ![x].owner = db[d].owner]
    /\ NoLocks
    /\ UNCHANGED catalogVars

\* Mutant of RotateLock: the map is written and not read.
RotateUnlocked(x) ==
    /\ At(x, "lockOwner")
    /\ Goto(x, "alterRole")
    /\ rotating' = rotating \cup {call[x].owner}
    /\ UNCHANGED <<catalogVars, dropping, truncating>>

\* tryLockOwner.
RotateLock(x) ==
    LET r == call[x].owner IN
    /\ At(x, "lockOwner")
    /\ \/ /\ r \in rotating
          /\ Answer(x, "busy")
          /\ UNCHANGED rotating
       \/ /\ r \notin rotating
          /\ Goto(x, "alterRole")
          /\ rotating' = rotating \cup {r}
    /\ UNCHANGED <<catalogVars, dropping, truncating>>

\* ALTER ROLE ... PASSWORD. An error ends the request.
RotateAlter(x) ==
    LET r == call[x].owner IN
    /\ At(x, "alterRole")
    /\ \/ /\ ~RoleExists(r)
          /\ Answer(x, "unavailable")
          /\ rotating' = rotating \ {r}
          /\ UNCHANGED <<role, faults>>
       \/ /\ RoleExists(r)
          /\ \E reply \in Reply :
                /\ Charge(reply)
                /\ role' = IF Took(reply) THEN AlterRolePassword(r, x) ELSE role
                /\ IF reply = "ok"
                   THEN Goto(x, "upsert") /\ UNCHANGED rotating
                   ELSE Answer(x, "unavailable") /\ rotating' = rotating \ {r}
    /\ UNCHANGED <<db, vault, dropping, truncating>>

\* UpsertCredential, tried vaultUpsertAttempts times. The attempts write the
\* same token, so all that matters is whether the last one is answered; an
\* attempt that failed without effect and is repeated changes nothing.
RotateUpsert(x) ==
    LET r == call[x].owner IN
    /\ At(x, "upsert")
    /\ \E reply \in Reply :
          /\ Charge(reply)
          /\ vault' = IF Took(reply) THEN PutCredential(r, x) ELSE vault
          /\ Answer(x, IF reply = "ok" THEN "ok" ELSE "vaultUnsynced")
    /\ rotating' = rotating \ {r}
    /\ UNCHANGED <<db, role, dropping, truncating>>

RotateNext(x) ==
    \/ RotateLookup(x)
    \/ RotateLock(x)
    \/ RotateAlter(x)
    \/ RotateUpsert(x)

----------------------------------------------------------------------------
(***************************************************************************)
(* Service.DropAfterValidation and Service.Truncate.                        *)
(***************************************************************************)

\* Mutant of DropLock: the truncating map is not consulted.
DropLockOwnMap(x) ==
    /\ At(x, "idle")
    /\ \E d \in Database \ dropping :
          /\ call' = [call EXCEPT ![x].pc = "lookup", ![x].database = d]
          /\ dropping' = dropping \cup {d}
    /\ UNCHANGED <<catalogVars, rotating, truncating>>

\* lockDrop: under both mutexes, so the two maps are read together.
DropLock(x) ==
    /\ At(x, "idle")
    /\ \E d \in Database :
          \/ /\ d \in truncating \cup dropping
             /\ call' = [call EXCEPT ![x].pc = "done", ![x].database = d, ![x].outcome = "busy"]
             /\ UNCHANGED dropping
          \/ /\ d \notin truncating \cup dropping
             /\ call' = [call EXCEPT ![x].pc = "lookup", ![x].database = d]
             /\ dropping' = dropping \cup {d}
    /\ UNCHANGED <<catalogVars, rotating, truncating>>

\* The drop of x ends with this outcome, and its lock is released.
DropEnds(x, outcome) ==
    /\ Answer(x, outcome)
    /\ dropping' = dropping \ {call[x].database}

\* lookupDropTarget, before the backup gate.
DropLookup(x) ==
    /\ At(x, "lookup")
    /\ \/ /\ ~Manageable(call[x].database)
          /\ DropEnds(x, "notFound")
          /\ UNCHANGED faults
       \/ /\ Manageable(call[x].database)
          /\ Goto(x, "gate")
          /\ UNCHANGED <<dropping, faults>>
       \/ /\ ReadFails
          /\ DropEnds(x, "unavailable")
    /\ UNCHANGED <<db, role, vault, rotating, truncating>>

\* beforeDrop hashes the backup artifact, which takes time and may refuse;
\* then lookupDropTarget again, whose row is the one that is used. (A failed
\* read ends the call like a refusal.)
DropGate(x) ==
    LET d == call[x].database IN
    /\ At(x, "gate")
    /\ \/ DropEnds(x, "gateDenied")
       \/ ~Manageable(d) /\ DropEnds(x, "notFound")
       \/ /\ Manageable(d)
          /\ call' = [call EXCEPT ![x].pc = "dropDatabase", ![x].owner = db[d].owner]
          /\ UNCHANGED dropping
    /\ UNCHANGED <<catalogVars, rotating, truncating>>

\* TerminateSessions, then DROP DATABASE without IF EXISTS.
DropDatabaseStep(x) ==
    LET d == call[x].database IN
    /\ At(x, "dropDatabase")
    /\ \/ /\ ~DatabaseExists(d)
          /\ DropEnds(x, "unavailable")
          /\ UNCHANGED <<db, faults>>
       \/ /\ DatabaseExists(d)
          /\ \E reply \in Reply :
                /\ Charge(reply)
                /\ db' = IF Took(reply) THEN DropDatabase(d) ELSE db
                /\ IF reply = "ok"
                   THEN Goto(x, "dropRole") /\ UNCHANGED dropping
                   ELSE DropEnds(x, "unavailable")
    /\ UNCHANGED <<role, vault, rotating, truncating>>

\* dropOwnerIfUnowned: nothing for a protected owner or one that still owns
\* a database, nor when the count fails; otherwise DROP ROLE IF EXISTS.
DropRoleStep(x) ==
    LET r == call[x].owner IN
    /\ At(x, "dropRole")
    /\ \/ /\ r \in DeniedRole \/ OwnedDatabaseCount(r) # 0
          /\ DropEnds(x, "ok")
          /\ UNCHANGED <<role, faults>>
       \/ /\ ReadFails
          /\ DropEnds(x, "ok")
          /\ UNCHANGED role
       \/ /\ r \notin DeniedRole /\ OwnedDatabaseCount(r) = 0 /\ ~RoleUnowned(r)
          /\ DropEnds(x, "roleDropFailed")
          /\ UNCHANGED <<role, faults>>
       \/ /\ r \notin DeniedRole /\ RoleUnowned(r)
          /\ \E reply \in Reply :
                /\ Charge(reply)
                /\ role' = IF Took(reply) THEN DropRole(r) ELSE role
                /\ IF reply = "ok"
                   THEN Goto(x, "deleteCredential") /\ UNCHANGED dropping
                   ELSE DropEnds(x, "roleDropFailed")
    /\ UNCHANGED <<db, vault, rotating, truncating>>

\* The vault row goes last, and only when the role is gone.
DropCredentialStep(x) ==
    /\ At(x, "deleteCredential")
    /\ \E reply \in Reply :
          /\ Charge(reply)
          /\ vault' = IF Took(reply) THEN DeleteCredential(call[x].owner) ELSE vault
          /\ DropEnds(x, IF reply = "ok" THEN "ok" ELSE "vaultDeleteFailed")
    /\ UNCHANGED <<db, role, rotating, truncating>>

DropNext(x) ==
    \/ DropLock(x)
    \/ DropLookup(x)
    \/ DropGate(x)
    \/ DropDatabaseStep(x)
    \/ DropRoleStep(x)
    \/ DropCredentialStep(x)

\* lockTruncate, the mirror image of lockDrop.
TruncateLock(x) ==
    /\ At(x, "idle")
    /\ \E d \in Database :
          \/ /\ d \in dropping \cup truncating
             /\ call' = [call EXCEPT ![x].pc = "done", ![x].database = d, ![x].outcome = "busy"]
             /\ UNCHANGED truncating
          \/ /\ d \notin dropping \cup truncating
             /\ call' = [call EXCEPT ![x].pc = "truncate", ![x].database = d]
             /\ truncating' = truncating \cup {d}
    /\ UNCHANGED <<catalogVars, rotating, dropping>>

\* Lookup, ListTables and one TRUNCATE of the whole list. The rows are not
\* modelled: the step stands for the time the statement runs.
TruncateStep(x) ==
    LET d == call[x].database IN
    /\ At(x, "truncate")
    /\ \E outcome \in {"ok", "notFound", "unavailable"} :
          /\ outcome = "notFound" <=> ~Manageable(d)
          /\ Answer(x, outcome)
    /\ truncating' = truncating \ {d}
    /\ UNCHANGED <<catalogVars, rotating, dropping>>

TruncateNext(x) == TruncateLock(x) \/ TruncateStep(x)

RequestNext ==
    \/ \E c \in Creates : CreateNext(c)
    \/ \E x \in Rotates : RotateNext(x)
    \/ \E x \in Drops : DropNext(x)
    \/ \E x \in Truncates : TruncateNext(x)

----------------------------------------------------------------------------
(***************************************************************************)
(* The requests on their own; DuplicateJob adds the worker and restarts.    *)
(***************************************************************************)
RequestsInit == CatalogInit /\ RequestInit

\* The process dies: the calls in flight with it, and the TryLock maps.
RequestsKilled ==
    /\ call' = [x \in Caller |->
                   IF call[x].pc \in {"idle", "done"} THEN call[x]
                   ELSE [call[x] EXCEPT !.pc = "done", !.outcome = "killed"]]
    /\ rotating' = {}
    /\ dropping' = {}
    /\ truncating' = {}

RequestsNext == RequestNext \/ (RequestsKilled /\ UNCHANGED catalogVars)

RequestsSpec == RequestsInit /\ [][RequestsNext]_<<catalogVars, requestVars>>

----------------------------------------------------------------------------
(***************************************************************************)
(* Properties.                                                              *)
(***************************************************************************)

\* Every variable keeps its type.
RequestsTypeOK == CatalogTypeOK /\ RequestTypeOK

Answered(x, outcome) == At(x, "done") /\ call[x].outcome = outcome

\* The role r has not been dropped and made again: at most one Create names
\* it and no Drop has reached the step that removes it.
OneLife(r) ==
    /\ \A c, e \in Creates : call[c].owner = r /\ call[e].owner = r => c = e
    /\ \A x \in Drops : call[x].owner # r

\* What Reveal shows works: when the request that set the present password of
\* a role was answered with success, the vault holds that password. Two
\* rotations, a create and any failure or kill between ALTER ROLE and the
\* vault write may not leave a success answer with a stale vault. (It is
\* claimed for a role that is not removed meanwhile: the rotate lock does not
\* keep Drop or compensateCreate from removing the role under a rotation.)
VaultCurrent ==
    \A r \in Role :
        /\ RoleExists(r)
        /\ role[r].pw \in Caller
        /\ Answered(role[r].pw, "ok")
        /\ OneLife(r)
        => vault[r] = role[r].pw

\* A Create that is refused leaves nothing behind: as long as no statement
\* failed, a call answered with a conflict or an error has undone its role,
\* its database and its vault row, whichever request it raced with. (The role
\* only while its name has had one life: when two drops removed it under two
\* creates, the refused create's role serves the other one's database.)
RefusedCreateLeavesNothing ==
    \A c \in Creates :
        faults = 0 /\ At(c, "done") /\ call[c].outcome \notin {"ok", "killed"} =>
            /\ \A d \in Database : DatabaseExists(d) => db[d].by # c
            /\ \A r \in Role : RoleExists(r) /\ OneLife(r) => role[r].by # c
            /\ \A r \in Role : vault[r] # c

\* No protected database or role is ever dropped, altered or taken over.
ProtectedUntouched ==
    [][/\ \A d \in DeniedDb : db'[d] = db[d]
       /\ \A r \in DeniedRole : role'[r] = role[r] /\ vault'[r] = vault[r]
      ]_<<catalogVars, requestVars>>

\* No drop request drops a database while a TRUNCATE of it runs, nor the
\* reverse. (compensateCreate and CompensateDuplicate take neither flag: the
\* drop of a database that a failed create or duplicate made is not covered.)
DropTruncateExclusive ==
    \A x \in Drops, y \in Truncates :
        ~ /\ call[x].database = call[y].database
          /\ At(x, "dropDatabase")
          /\ At(y, "truncate")
=============================================================================
